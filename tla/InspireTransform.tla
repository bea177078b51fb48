---------------------------- MODULE InspireTransform ----------------------------
(***************************************************************************)
(* From an INSPIRE record to the entry the writer gets.  The resource type *)
(* is detected, a policy names the mappers of that type in their order,    *)
(* every mapper contributes the value of one path and may report errors,   *)
(* and a record with several document types is mapped once more for each   *)
(* other type.  Mappers share a context: the DOI mapper leaves the DOIs it *)
(* did not choose to the mapper of related identifiers.                    *)
(*                                                                         *)
(* Data: "" stands for a value that is absent; schemes are compared        *)
(* without case; what validators and vocabularies answer are constants.    *)
(***************************************************************************)
EXTENDS Naturals, FiniteSets, SequencesExt

CONSTANTS
  Sources,         \* INSPIRE records
  Invalid,         \* values a validator of DOIs, URNs, ISBNs, URLs, dates refuses
  OwnSchemes,      \* schemes of the record's own identifiers
  RelatedSchemes,  \* schemes of related identifiers, the former included
  DroppedSchemes,  \* schemes that are cleaned away
  LanguageOf,      \* two-letter code -> language, or ""
  FunderOf,        \* agency -> funder of the vocabulary, or ""
  Awards,          \* awards of the vocabulary: number, id, funder
  TermOf,          \* accelerator or experiment -> vocabulary id, or ""
  LicenseOf        \* license -> vocabulary id, or ""

\* The own schemes are related ones too, and none of those that related
\* identifiers get by what they are.
ASSUME SchemesAssumption ==
  /\ {"apprn", "cdsrn"} \subseteq OwnSchemes /\ OwnSchemes \subseteq RelatedSchemes
  /\ OwnSchemes \cap {"isbn", "url", "arxiv", "inspire"} = {}
  /\ RelatedSchemes \cap {"doi, version", "doi, variant"} = {}

ASSUME AwardsAssumption == IsFiniteSet(Awards)

\* What a report number is follows from its value; INSPIRE does not know the
\* schemes that CDS made for report numbers; a role that is given is not "".
ASSUME SourcesAssumption ==
  \A s \in Sources :
    /\ \A x, y \in ToSet(s.reportNumbers) : x.value = y.value => x = y
    /\ \A i \in s.external : i.scheme \notin {"apprn", "cdsrn"}
    /\ \A a \in ToSet(s.authors) : "" \notin a.roles
    /\ s.dois \in Seq(ToSet(s.dois))

VARIABLES
  source,    \* the INSPIRE record
  stage,     \* "source", then "transformed" or "raised"
  entry,     \* path -> value
  versions,  \* the mapped versions of the other types
  errors,    \* what is reported of the record
  cdsId      \* the identifier that the matcher starts with

vars == <<source, stage, entry, versions, errors, cdsId>>

None == "none"

\* A mapper's value and its errors.
Reports(value, es) == [value |-> value, errors |-> es]
Gives(value) == Reports(value, {})

(***************************************************************************)
(* Resource types                                                          *)
(***************************************************************************)
TypeOf == [thesis |-> "thesis", article |-> "article", book |-> "book",
           proceedings |-> "proceedings", report |-> "report", note |-> "note",
           chapter |-> "section", conference |-> "conference", activity |-> "report"]

Priority == <<"thesis", "conference", "article", "chapter", "book", "proceedings",
              "report", "activity", "note">>

SelectType(types) ==
  LET known == SelectSeq(Priority, LAMBDA d : d \in ToSet(types))
  IN  IF known = <<>> THEN types[1] ELSE known[1]

Published(s) == \/ s.journal = "citeable"
                \/ s.journal = "title" /\ s.dois # <<>>

Detect(s) ==
  IF s.types = <<>> THEN None
  ELSE LET d == SelectType(s.types) IN
       IF d = "article" /\ ~Published(s) THEN "preprint"
       ELSE IF d \in DOMAIN TypeOf THEN TypeOf[d] ELSE None

(***************************************************************************)
(* The policy                                                              *)
(***************************************************************************)
Base == <<"files", "resource_type", "pids", "title", "additional_titles", "creators",
          "contributors", "publisher", "publication_date", "rights", "description",
          "additional_descriptions", "subjects", "languages", "funding", "imprint", "custom_fields",
          "identifiers", "related_identifiers", "withdrawn">>

Replaced == [thesis   |-> {"publication_date", "contributors"},
             article  |-> {"files", "pids", "title", "description"},
             preprint |-> {"files", "pids", "title", "description"}]

\* Mutant: the mappers of a type come after the others.
FaultyMappersFor(rt) ==
  LET by == IF rt \in DOMAIN Replaced THEN Replaced[rt] ELSE {} IN
  [i \in DOMAIN SelectSeq(Base, LAMBDA m : m \notin by) |->
     <<SelectSeq(Base, LAMBDA m : m \notin by)[i], "base">>]
    \o [i \in DOMAIN SelectSeq(Base, LAMBDA m : m \in by) |->
          <<SelectSeq(Base, LAMBDA m : m \in by)[i], rt>>]

\* A mapper of the type stands where the mapper it replaces stood.
MappersFor(rt) ==
  [i \in DOMAIN Base |->
     <<Base[i], IF rt \in DOMAIN Replaced /\ Base[i] \in Replaced[rt] THEN rt ELSE "base">>]
    \o (IF rt = "thesis" THEN <<<<"thesis", "thesis">>>> ELSE <<>>)

(***************************************************************************)
(* Files, titles, descriptions                                             *)
(***************************************************************************)
KeepsFile(by, f) ==
  CASE by = "article"  -> f.material \in {"", "publication"} /\ f.source # "arxiv"
                          /\ (f.source # "" \/ f.material # "")
    [] by = "preprint" -> \/ f.material \in {"", "preprint"} /\ f.source = "arxiv"
                          \/ f.source = "cds"
    [] OTHER           -> TRUE

\* Files are kept by name; one without a checksum that is not on arXiv stops
\* the mapping.
Files(by, s) ==
  LET kept == {f \in ToSet(s.documents) : KeepsFile(by, f)} IN
  IF \E f \in kept : ~f.checksum /\ f.source # "arxiv"
  THEN Reports({}, {"checksum"})
  ELSE Gives({f.name : f \in kept})

Preferred(by, src) ==
  CASE by = "article"  -> src \notin {"", "arxiv", "cds"}
    [] by = "preprint" -> src = "arxiv"
    [] OTHER           -> src \in {"arxiv", "cds"}

\* The first title from a preferred source, or else the first.
Title(by, s) ==
  LET good == SelectSeq(s.titles, LAMBDA t : Preferred(by, t.source))
  IN  Gives((IF good = <<>> THEN s.titles ELSE good)[1].value)

OtherTitles(s) == Gives({s.titles[i].value : i \in DOMAIN s.titles \ {1}})

\* The mappers of articles and preprints look at the first abstract only.
Description(by, s) ==
  LET good == SelectSeq(s.abstracts, LAMBDA a : Preferred(by, a.source)) IN
  Gives(IF s.abstracts = <<>> THEN ""
        ELSE IF by = "base" /\ good # <<>> THEN good[1].value
        ELSE s.abstracts[1].value)

OtherDescriptions(s) ==
  Gives(IF s.abstracts = <<>> THEN {}
        ELSE {a.value : a \in ToSet(Tail(s.abstracts))} \ {s.abstracts[1].value})

\* A license that the vocabulary does not know is kept as a title.
Rights(s) ==
  Gives({IF LicenseOf[l] # "" THEN <<"id", LicenseOf[l]>> ELSE <<"title", l>> : l \in s.licenses})

(***************************************************************************)
(* DOIs and identifiers                                                    *)
(***************************************************************************)
KeepsDoi(by, d) ==
  CASE by = "article"  -> d.material = "publication" \/ ~d.cds
    [] by = "preprint" -> d.material \in {"preprint", ""}
    [] OTHER           -> TRUE

\* The first entry of each value.
UniqueDois(s) == {i \in DOMAIN s.dois : \A j \in 1 .. i - 1 : s.dois[j].value # s.dois[i].value}

KeptDois(by, s) == {i \in UniqueDois(s) : KeepsDoi(by, s.dois[i])}
CdsDois(by, s) == {i \in KeptDois(by, s) : s.dois[i].cds}

\* A DOI of CDS is the main one, or else the first.
MainDoi(by, s) == Min(IF CdsDois(by, s) # {} THEN CdsDois(by, s) ELSE KeptDois(by, s))
OtherDois(by, s) == {s.dois[i].value : i \in KeptDois(by, s) \ {MainDoi(by, s)}}

Doi(by, s) ==
  LET main == s.dois[MainDoi(by, s)].value IN
  IF KeptDois(by, s) = {} THEN Gives({})
  ELSE IF Cardinality(CdsDois(by, s)) > 1 THEN Reports({}, {"several CDS DOIs"})
  ELSE IF main \in Invalid THEN Reports({}, {"doi"})
  ELSE Reports({<<main, IF CdsDois(by, s) # {} THEN "datacite" ELSE "external">>},
               IF OtherDois(by, s) \cap Invalid = {} THEN {} ELSE {"doi"})

\* The others are left to the mapper of related identifiers.
Leaves(m, s) ==
  IF m[1] = "pids" /\ Doi(m[2], s).value # {} THEN OtherDois(m[2], s) \ Invalid ELSE {}

\* A report number of a committee: its prefix is configured and the scheme
\* accepts it.
IsApproval(rn) == rn.wellFormed /\ rn.committee

\* Identifiers of schemes that nobody needs are cleaned away.
External(s) == {i \in s.external : i.scheme \notin DroppedSchemes}

Identifiers(s) ==
  Reports({<<i.scheme, i.value>> : i \in {j \in External(s) :
             j.scheme # "cdsrdm" /\ j.scheme \in OwnSchemes}}
            \cup {<<"apprn", rn.value>> : rn \in {r \in ToSet(s.reportNumbers) : IsApproval(r)}}
            \cup {<<"cdsrn", rn.value>> : rn \in {r \in ToSet(s.reportNumbers) :
                                              ~IsApproval(r) /\ r.cern}},
          {"scheme" : i \in {j \in External(s) :
             j.scheme \notin RelatedSchemes \cup {"cdsrdm"}}})

\* Mutant: whatever looks like an approval number stays out.
FaultyRelatedNumbers(s) ==
  {rn \in ToSet(s.reportNumbers) : ~rn.cern /\ ~rn.committee}

RelatedNumbers(s) == {rn \in ToSet(s.reportNumbers) : ~rn.cern /\ ~IsApproval(rn)}

\* Identifiers of the own schemes are not among the related ones, wherever they
\* come from.
RelatedOnly == RelatedSchemes \ (OwnSchemes \cup {"cdsrdm"})

RelatedIdentifiers(s, extra) ==
  LET persistent == {i \in s.persistent : i.scheme \notin DroppedSchemes}
      related == {i \in persistent \cup External(s) :
                    i.scheme \in RelatedOnly}
      refused == {i \in related : i.scheme = "urn" /\ i.value \in Invalid}
      anyCds == \E d \in ToSet(s.dois) : d.cds
  IN
  Reports({<<i.scheme, i.value>> : i \in related \ refused}
            \cup {<<"isbn", v>> : v \in s.isbns \ Invalid}
            \cup {<<"url", v>> : v \in s.urls \ Invalid}
            \cup {<<"arxiv", v>> : v \in s.eprints}
            \cup {<<"cdsrn", rn.value>> : rn \in RelatedNumbers(s)}
            \cup {<<IF anyCds THEN "doi, version" ELSE "doi, variant", v>> : v \in extra}
            \cup {<<"inspire", s.id>>},
          {"urn" : i \in refused} \cup {"isbn" : v \in s.isbns \cap Invalid}
            \cup {"url" : v \in s.urls \cap Invalid}
            \cup {"scheme" : i \in {j \in persistent : j.scheme \notin RelatedSchemes}})

\* The identifier of CDS-RDM is preferred to the one of the old CDS.
CdsId(s) ==
  LET Of(scheme) == {i.value : i \in {j \in s.external : j.scheme = scheme}}
  IN  IF Of("cdsrdm") # {} THEN Of("cdsrdm") ELSE Of("cds")

(***************************************************************************)
(* People                                                                  *)
(***************************************************************************)
KnownRoles == {"author", "editor", "supervisor"}

\* One creatibutor per author and role; an unknown role is reported.
Creatibutors(pairs) ==
  Reports({p \in pairs : p[2] \in KnownRoles \cup {""}},
          {"role" : p \in {q \in pairs : q[2] \notin KnownRoles \cup {""}}})

Creators(s) ==
  LET made == Creatibutors(
        {<<a.name, "">> : a \in {b \in ToSet(s.authors) : b.roles = {}}}
          \cup {<<a.name, "author">> : a \in {b \in ToSet(s.authors) : "author" \in b.roles}})
  IN  [made EXCEPT !.value = @ \cup {<<c, "corporate">> : c \in s.corporate}]

\* Mutant: somebody who is an author is not a contributor as well.
FaultyRolesOf(a) == IF "author" \in a.roles THEN {} ELSE a.roles

RolesOf(a) == a.roles \ {"author"}

Contributors(by, s) ==
  LET own == UNION {{<<a.name, r>> : r \in RolesOf(a)} : a \in ToSet(s.authors)}
  IN  Creatibutors(own \cup (IF by = "thesis"
                             THEN {<<v.name, v.role>> : v \in s.supervisors} ELSE {}))

(***************************************************************************)
(* Dates, vocabularies, funding                                            *)
(***************************************************************************)
First(a, b) == IF a # "" THEN a ELSE b

PublicationDate(by, s) ==
  LET d == IF by = "thesis" THEN First(s.thesisDate, s.imprintDate)
           ELSE First(s.year, First(s.imprintDate, s.created))
  IN  IF d \in Invalid \cup {""} THEN Reports("", {"date"}) ELSE Gives(d)

\* One imprint is looked at, CERN publishes what has a DOI of CDS.
Publisher(s) ==
  Gives(IF s.publisher = "" /\ \E d \in ToSet(s.dois) : d.cds THEN "CERN" ELSE s.publisher)

\* One unknown language empties the list.
Languages(s) ==
  IF \E l \in s.languages : LanguageOf[l] = "" THEN Reports({}, {"language"})
  ELSE Gives({LanguageOf[l] : l \in s.languages})

\* Accelerators and experiments that the vocabulary does not know are left out.
Terms(s) == Gives({TermOf[t] : t \in s.terms} \ {""})

\* The award of that number and funder, or of that number, if there is one.
AwardFor(number, funder) ==
  LET all    == {a \in Awards : a.number = number}
      scoped == {a \in all : a.funder = funder}
      found  == IF funder = "" \/ scoped = {} THEN all ELSE scoped
  IN  IF Cardinality(found) = 1 THEN found ELSE {}

\* Funder and award of one entry, or nothing; the award can name the funder.
Grant(f) ==
  LET known  == IF f.agency = "" THEN "" ELSE FunderOf[f.agency]
      award  == IF f.number = "" THEN {} ELSE AwardFor(f.number, known)
      funder == IF known = "" /\ award # {} THEN (CHOOSE a \in award : TRUE).funder ELSE known
  IN  IF funder = "" \/ (f.number # "" /\ award = {}) THEN {}
      ELSE {<<funder, {a.id : a \in award}>>}

Funding(s) ==
  Reports(UNION {Grant(f) : f \in s.funding},
          {"funding" : f \in {g \in s.funding : Grant(g) = {}}})

(***************************************************************************)
(* The transformation                                                      *)
(***************************************************************************)
Apply(m, rt, s, extra) ==
  CASE m[1] = "files"                   -> Files(m[2], s)
    [] m[1] = "resource_type"           -> Gives(rt)
    [] m[1] = "pids"                    -> Doi(m[2], s)
    [] m[1] = "title"                   -> Title(m[2], s)
    [] m[1] = "additional_titles"       -> OtherTitles(s)
    [] m[1] = "creators"                -> Creators(s)
    [] m[1] = "contributors"            -> Contributors(m[2], s)
    [] m[1] = "publisher"               -> Publisher(s)
    [] m[1] = "publication_date"        -> PublicationDate(m[2], s)
    [] m[1] = "rights"                  -> Rights(s)
    [] m[1] = "description"             -> Description(m[2], s)
    [] m[1] = "additional_descriptions" -> OtherDescriptions(s)
    [] m[1] = "subjects"                -> Gives(s.keywords)
    [] m[1] = "languages"               -> Languages(s)
    [] m[1] = "funding"                 -> Funding(s)
    [] m[1] = "imprint"                 -> Reports(s.place, IF s.editions THEN {"editions"} ELSE {})
    [] m[1] = "custom_fields"           -> Terms(s)
    [] m[1] = "identifiers"             -> Identifiers(s)
    [] m[1] = "related_identifiers"     -> RelatedIdentifiers(s, extra)
    [] m[1] = "thesis"                  -> Gives(s.thesis)
    [] OTHER -> Reports("", IF s.withdrawn THEN {"withdrawn"} ELSE {})

\* The patches of all mappers, merged; a mapper sees what the earlier ones left
\* in the context.
MapRecord(rt, s) ==
  LET mappers == MappersFor(rt)
      Context(k) == UNION {Leaves(mappers[j], s) : j \in 1 .. k - 1}
      result == [k \in DOMAIN mappers |-> Apply(mappers[k], rt, s, Context(k))]
      Of(path) == CHOOSE k \in DOMAIN mappers : mappers[k][1] = path
  IN
  [record |-> [path \in {mappers[k][1] : k \in DOMAIN mappers} |-> result[Of(path)].value],
   errors |-> UNION {result[k].errors : k \in DOMAIN mappers}]

\* Several document types, and documents or DOIs from arXiv and from elsewhere.
NeedsSplit(s) ==
  LET sourced == {f.source : f \in ToSet(s.documents)} \cup {d.source : d \in ToSet(s.dois)}
  IN  Len(s.types) > 1 /\ "arxiv" \in sourced /\ sourced # {"arxiv"}

\* Mutant: the record's own type is mapped again.
FaultySplitTypes(s) == IF NeedsSplit(s) THEN {TypeOf[d] : d \in ToSet(s.types)} ELSE {}

SplitTypes(s) ==
  IF NeedsSplit(s) THEN {TypeOf[d] : d \in ToSet(s.types)} \ {Detect(s)} ELSE {}

\* The context of a split version is its own, and its errors are not reported.
Split(s) == {MapRecord(rt, s).record : rt \in SplitTypes(s)}

\* Without a resource type the mapper of the type raises, and an unknown
\* document type raises when the record is split.
Raises(s) == \/ Detect(s) = None
             \/ NeedsSplit(s) /\ ~(ToSet(s.types) \subseteq DOMAIN TypeOf)

Init ==
  /\ source \in Sources /\ stage = "source"
  /\ entry = <<>> /\ versions = {} /\ errors = {} /\ cdsId = {}

Transform ==
  /\ stage = "source"
  /\ ~Raises(source)
  /\ LET mapped == MapRecord(Detect(source), source) IN
     /\ entry' = mapped.record
     /\ errors' = mapped.errors
  /\ versions' = Split(source)
  /\ cdsId' = CdsId(source)
  /\ stage' = "transformed"
  /\ UNCHANGED source

Raise ==
  /\ stage = "source"
  /\ Raises(source)
  /\ stage' = "raised"
  /\ UNCHANGED <<source, entry, versions, errors, cdsId>>

Next == Transform \/ Raise

Spec == Init /\ [][Next]_vars

(***************************************************************************)
(* Properties                                                              *)
(***************************************************************************)
Done == stage = "transformed"

\* Every report number ends in exactly one place: the approval numbers and the
\* numbers of CERN among the identifiers, any other among the related ones.
\* Unless an error is reported, so does every external identifier that is not
\* cleaned away.  The two mappers that share them out neither drop nor repeat one.
IdentifiersOnce ==
  Done =>
    /\ \A rn \in ToSet(source.reportNumbers) :
         Cardinality({p \in {"identifiers", "related_identifiers"} \X {"apprn", "cdsrn"} :
                        <<p[2], rn.value>> \in entry[p[1]]}) = 1
    /\ errors = {} => \A i \in External(source) :
         i.scheme = "cdsrdm" \/ ((<<i.scheme, i.value>> \in entry.identifiers)
                                   # (<<i.scheme, i.value>> \in entry.related_identifiers))

\* In the entry and in every split version that has a DOI, each valid DOI that
\* counts for the type is there once, as the DOI or as a related identifier; the
\* DOI is the one of CDS if there is one.
DoisAccounted ==
  Done => \A r \in {entry} \cup versions :
    r.pids # {} =>
      LET main    == (CHOOSE p \in r.pids : TRUE)[1]
          related == {i[2] : i \in {j \in r.related_identifiers :
                                      j[1] \in {"doi, version", "doi, variant"}}}
          by      == IF r.resource_type \in {"article", "preprint"}
                     THEN r.resource_type ELSE "base"
          counts  == {d \in {source.dois[i] : i \in UniqueDois(source)} :
                        KeepsDoi(by, d) /\ d.value \notin Invalid}
      IN  /\ main \notin related
          /\ {main} \cup related = {d.value : d \in counts}
          /\ (\E d \in counts : d.cds) => <<main, "datacite">> \in r.pids

\* The entry and its split versions have different types, and one file is in two
\* of them, as article and preprint, only if it is a file of CDS.
SplitTypesDiffer ==
  Done => /\ \A v \in versions : v.resource_type # entry.resource_type
          /\ \A a, p \in {entry} \cup versions :
               (a.resource_type = "article" /\ p.resource_type = "preprint") =>
                 \A n \in a.files \cap p.files :
                   \E f, g \in ToSet(source.documents) :
                     f.name = n /\ g.name = n /\ (f.source = "cds" \/ f # g)

\* Nothing is dropped without an error: every author is listed once for every
\* role, unless as a supervisor besides, every funder and award that was found is
\* there, and every title but the first, which is lost only when another is
\* preferred.
NothingDropped ==
  Done =>
    /\ errors = {} =>
         /\ \A a \in ToSet(source.authors) : \A r \in IF a.roles = {} THEN {""} ELSE a.roles :
              /\ <<a.name, r>> \in entry.creators \cup entry.contributors
              /\ <<a.name, r>> \in entry.creators \cap entry.contributors =>
                   \E v \in source.supervisors : <<a.name, r>> = <<v.name, v.role>>
         /\ \A f \in source.funding : \E g \in entry.funding :
              /\ f.agency # "" => FunderOf[f.agency] \in {"", g[1]}
              /\ f.number # "" => \E a \in Awards : a.number = f.number /\ g[2] = {a.id}
    /\ \A i \in DOMAIN source.titles :
         \/ source.titles[i].value \in {entry.title} \cup entry.additional_titles
         \/ i = 1 /\ entry.title # source.titles[1].value
================================================================================
