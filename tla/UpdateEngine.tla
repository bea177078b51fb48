------------------------------ MODULE UpdateEngine ------------------------------
(***************************************************************************)
(* How the harvester merges an INSPIRE entry into a record that is there.  *)
(* Each field has a strategy; the engine applies them one after the other  *)
(* to the same copy of the record, collects the conflicts, and the writer  *)
(* publishes the result unless there is a conflict or nothing changed.     *)
(* One record is followed through harvests, changes on INSPIRE and edits   *)
(* of curators.                                                            *)
(*                                                                         *)
(* Data: a date is the sequence of its year, month and day as far as they  *)
(* are given, a person is known by identifiers and a name.  An affiliation *)
(* has the id of a vocabulary or none, a spelling, and the name that is    *)
(* left of the spelling without punctuation and case; one that INSPIRE     *)
(* knows by its ROR has the id only, which also stands for its title.  The *)
(* client of a DOI is there only where the repository registered it: what  *)
(* INSPIRE says names none.                                                *)
(***************************************************************************)
EXTENDS Naturals, FiniteSets, SequencesExt

CONSTANTS
  Records,      \* records the harvester may find
  Entries,      \* what INSPIRE may say of them
  Dates,        \* dates a curator may enter
  People,       \* creators a curator may enter
  Topics,       \* subjects a curator may enter
  Normalized,   \* spelling of an affiliation -> name without punctuation and case
  MaxSteps      \* bound: harvests, changes on INSPIRE and edits

ASSUME EngineBounds == MaxSteps \in Nat

Absent == ""

Spellings == DOMAIN Normalized

\* Of no spelling, no name is left.
ASSUME NormalizedAssumption ==
  /\ Spellings \subseteq STRING /\ Normalized \in [Spellings -> STRING]
  /\ Absent \in Spellings /\ Normalized[Absent] = Absent

Items == [key : STRING, info : STRING]
Affiliations == {a \in [id : Spellings, name : STRING, spelling : Spellings] :
                   /\ a.id # Absent \/ a.spelling # Absent
                   /\ a.name = Normalized[a.spelling]}
Persons == [name : STRING, ids : Seq(STRING \X STRING), affiliations : Seq(Affiliations)]

\* A record, and what an entry says of one.
Metadata ==
  [pids : [doi : STRING, provider : STRING, client : {Absent, "datacite"}, oai : STRING],
   rtype : STRING,
   creators : Seq(Persons), contributors : Seq(Persons),
   identifiers : Seq(Items), related : Seq(Items), subjects : Seq(Items),
   date : Seq(Nat), title : STRING,
   thesis : [type : STRING, university : STRING, defended : STRING]]

VARIABLES
  record,       \* the published record
  entry,        \* what INSPIRE says now
  outcome,      \* how the last harvest of the record ended
  steps         \* steps taken

vars == <<record, entry, outcome, steps>>

(***************************************************************************)
(* Strategies of fields                                                    *)
(***************************************************************************)
Overwrite(cur, inc) == IF inc = Absent THEN cur ELSE inc

\* The DOI is the incoming one, with its provider and without a client, the other
\* pids the current ones if incoming lacks them.
MergePids(cur, inc) ==
  IF inc.doi = Absent /\ inc.oai = Absent THEN cur
  ELSE [inc EXCEPT !.oai = IF @ = Absent THEN cur.oai ELSE @]

\* Lists of items known by a key: an incoming item is appended if its key is
\* new, and fills the gaps of the item it matches where the strategy enriches.
Fill(old, new) == [old EXCEPT !.info = IF @ = Absent THEN new.info ELSE @]

Add(list, x, enrich) ==
  LET same == {i \in DOMAIN list : list[i].key = x.key} IN
  IF same = {} THEN Append(list, x)
  ELSE IF enrich THEN [list EXCEPT ![CHOOSE i \in same : \A j \in same : i <= j] = Fill(@, x)]
  ELSE list

AppendUnique(cur, inc, enrich) ==
  LET upTo[n \in 0 .. Len(inc)] == IF n = 0 THEN cur ELSE Add(upTo[n - 1], inc[n], enrich)
  IN  upTo[Len(inc)]

\* Identifiers are known by scheme and value, and filled; one that lacks either
\* is a conflict.  So are related identifiers.
MergeIdentifiers(cur, inc) == AppendUnique(cur, inc, TRUE)
MergeRelated(cur, inc) == AppendUnique(cur, inc, TRUE)
Malformed(cur, inc) == \E i \in ToSet(cur) \cup ToSet(inc) : i.key = Absent

\* University and type of a thesis come from INSPIRE, the dates stay.
NoThesis == [type |-> Absent, university |-> Absent, defended |-> Absent]

MergeThesis(cur, inc) ==
  IF inc = NoThesis THEN cur
  ELSE IF cur = NoThesis THEN inc
  ELSE [cur EXCEPT !.university = Overwrite(@, inc.university),
                   !.type = Overwrite(@, inc.type)]

(***************************************************************************)
(* Creators and contributors                                               *)
(***************************************************************************)
Named(list, name) == {i \in DOMAIN list : list[i].name = name}

\* One without a name is appended.  Exact duplicates are skipped, also of
\* spellings that were replaced; another spelling of a name replaces the one
\* there.
WithAffiliation(acc, a) ==
  LET same == Named(acc.out, a.name) IN
  IF a.spelling = Absent THEN [acc EXCEPT !.out = Append(@, a)]
  ELSE IF a.spelling \in acc.seen THEN acc
  ELSE [seen |-> acc.seen \cup {a.spelling},
        out |-> IF same = {} THEN Append(acc.out, a)
                ELSE [acc.out EXCEPT ![CHOOSE i \in same : \A j \in same : j <= i] = a]]

UnionAffiliations(cur, inc) ==
  LET upTo[n \in 0 .. Len(inc)] ==
        IF n = 0 THEN [out |-> cur, seen |-> {a.spelling : a \in ToSet(cur)}]
        ELSE WithAffiliation(upTo[n - 1], inc[n])
  IN  upTo[Len(inc)].out

Schemes(person) == {i[1] : i \in ToSet(person.ids)}

With(cur, id) == {i \in DOMAIN cur : id \in ToSet(cur[i].ids)}

\* Mutant: a person without a common identifier is matched by name alone.
FaultyMatches(cur, inc) ==
  LET known == {n \in DOMAIN inc.ids : With(cur, inc.ids[n]) # {}}
  IN  IF known # {} THEN With(cur, inc.ids[CHOOSE n \in known : \A m \in known : n <= m])
      ELSE Named(cur, inc.name)

\* Mutant: people are matched by their identifiers only.
FaultyIdMatches(cur, inc) ==
  {i \in DOMAIN cur : ToSet(cur[i].ids) \cap ToSet(inc.ids) # {}}

\* The first identifier that somebody has decides; failing that, the name, if
\* the two carry no identifier of the same scheme.
Matches(cur, inc) ==
  LET known == {n \in DOMAIN inc.ids : With(cur, inc.ids[n]) # {}}
  IN  IF known # {} THEN With(cur, inc.ids[CHOOSE n \in known : \A m \in known : n <= m])
      ELSE {i \in Named(cur, inc.name) : Schemes(cur[i]) \cap Schemes(inc) = {}}

\* The sequence s without the members of dropped, in its order.
Without(s, dropped) ==
  LET upTo[n \in 0 .. Len(s)] ==
        IF n = 0 THEN <<>>
        ELSE IF s[n] \in dropped THEN upTo[n - 1] ELSE Append(upTo[n - 1], s[n])
  IN  upTo[Len(s)]

\* Mutant: identifiers that INSPIRE does not have are dropped.
FaultyMergePerson(cur, inc) ==
  [inc EXCEPT !.affiliations = UnionAffiliations(cur.affiliations, @)]

\* The incoming person, with the current affiliations and identifiers besides.
MergePerson(cur, inc) ==
  [inc EXCEPT !.affiliations = UnionAffiliations(cur.affiliations, @),
              !.ids = @ \o Without(cur.ids, ToSet(inc.ids))]

\* Every incoming person is matched against the list as it was; of several who
\* match one, the last is merged.  With strict, a person nobody matches is only
\* reported; otherwise appended.
MergePeople(cur, inc, strict) ==
  LET of(i) == {n \in DOMAIN inc : Matches(cur, inc[n]) = {i}}
      merged == [i \in DOMAIN cur |->
                   IF of(i) = {} THEN cur[i]
                   ELSE MergePerson(cur[i], inc[CHOOSE n \in of(i) : \A m \in of(i) : m <= n])]
  IN  IF strict THEN merged
      ELSE merged \o Without(inc, {p \in ToSet(inc) : Matches(cur, p) # {}})

Ambiguous(cur, inc) == \E i \in DOMAIN inc : Cardinality(Matches(cur, inc[i])) > 1

(***************************************************************************)
(* Publication dates                                                       *)
(***************************************************************************)
ValidDate(d) == Len(d) \in 1 .. 3

\* Mutant: only the years are compared.
FaultyContradicts(cur, inc) == cur[1] # inc[1]

\* The two dates contradict each other as far as both are given.
Contradicts(cur, inc) ==
  \E i \in DOMAIN cur \cap DOMAIN inc : cur[i] # inc[i]

CdsOriginal(cur) == cur.pids.provider = "datacite"

\* Records with a DOI of CDS: the date only gets more precise.
RefineDate(cur, inc) ==
  IF /\ ValidDate(cur) /\ ValidDate(inc)
     /\ ~Contradicts(cur, inc) /\ Len(inc) > Len(cur)
  THEN inc ELSE cur

RefineConflict(cur, inc) ==
  inc # <<>> /\ (~ValidDate(cur) \/ ~ValidDate(inc) \/ Contradicts(cur, inc))

\* Other records: overwritten, unless a thesis would change its date.
ThesisConflict(rtype, cur, inc) ==
  rtype = "thesis" /\ cur # <<>> /\ inc # <<>> /\ cur # inc

(***************************************************************************)
(* The engine                                                              *)
(***************************************************************************)
\* The type is merged before the date, whose strategy looks at the merged type.
MergedType(cur, inc) == Overwrite(cur.rtype, inc.rtype)

MergeDate(cur, inc) ==
  IF CdsOriginal(cur) THEN RefineDate(cur.date, inc.date)
  ELSE IF inc.date = <<>> \/ ThesisConflict(MergedType(cur, inc), cur.date, inc.date)
  THEN cur.date ELSE inc.date

Update(cur, inc) ==
  [pids         |-> MergePids(cur.pids, inc.pids),
   rtype        |-> MergedType(cur, inc),
   creators     |-> MergePeople(cur.creators, inc.creators, TRUE),
   contributors |-> MergePeople(cur.contributors, inc.contributors, FALSE),
   identifiers  |-> MergeIdentifiers(cur.identifiers, inc.identifiers),
   related      |-> MergeRelated(cur.related, inc.related),
   date         |-> MergeDate(cur, inc),
   subjects     |-> AppendUnique(cur.subjects, inc.subjects, FALSE),
   title        |-> Overwrite(cur.title, inc.title),
   thesis       |-> MergeThesis(cur.thesis, inc.thesis)]

Conflict(cur, inc) ==
  \/ Ambiguous(cur.creators, inc.creators)
  \/ Ambiguous(cur.contributors, inc.contributors)
  \/ Malformed(cur.identifiers, inc.identifiers)
  \/ Malformed(cur.related, inc.related)
  \/ IF CdsOriginal(cur) THEN RefineConflict(cur.date, inc.date)
     ELSE ThesisConflict(MergedType(cur, inc), cur.date, inc.date)

\* The pids are compared with the client of the DOI, so a merge that took the DOI
\* of CDS from INSPIRE is never up to date.
UpToDate(cur, new) == cur = new

\* Reading a published record gives the names of the vocabulary entries.
Dereferenced(a) ==
  IF a.spelling # Absent THEN a
  ELSE [a EXCEPT !.name = Normalized[a.id], !.spelling = a.id]

Dereference(people) ==
  [i \in DOMAIN people |->
     LET as == people[i].affiliations
     IN  [people[i] EXCEPT !.affiliations = [j \in DOMAIN as |-> Dereferenced(as[j])]]]

\* Publishing names the client of the DOIs that the repository registers.
Released(pids) ==
  [pids EXCEPT !.client = IF pids.provider = "datacite" THEN "datacite" ELSE Absent]

Published(new) == [new EXCEPT !.pids = Released(@), !.creators = Dereference(@),
                              !.contributors = Dereference(@)]

\* A record whose DOI was registered by CDS keeps a DOI of CDS: publishing it
\* with another one is refused, and the draft deleted.
DoiKept(cur, new) == cur.pids.client = "datacite" => new.pids.provider = "datacite"

\* The records are such as are read; INSPIRE gives a DOI, and no other pid.
ASSUME DataAssumption ==
  /\ Records \subseteq Metadata /\ Entries \subseteq Metadata
  /\ Dates \subseteq Seq(Nat) /\ People \subseteq Persons /\ Topics \subseteq Items
  /\ \A r \in Records : Published(r) = r
  /\ \A e \in Entries : e.pids.oai = Absent /\ e.pids.client = Absent

(***************************************************************************)
(* The record over time                                                    *)
(***************************************************************************)
Init == record \in Records /\ entry \in Entries /\ outcome = "none" /\ steps = 0

Harvest ==
  /\ IF Conflict(record, entry)
     THEN outcome' = "conflict" /\ UNCHANGED record
     ELSE IF UpToDate(record, Update(record, entry))
     THEN outcome' = "skipped" /\ UNCHANGED record
     ELSE IF ~DoiKept(record, Update(record, entry))
     THEN outcome' = "refused" /\ UNCHANGED record
     ELSE outcome' = "updated" /\ record' = Published(Update(record, entry))
  /\ UNCHANGED entry

InspireChanges ==
  /\ entry' \in Entries
  /\ outcome' = "none"
  /\ UNCHANGED record

\* A curator publishes a correction.
Curate ==
  /\ \/ \E d \in Dates : record' = [record EXCEPT !.date = d]
     \/ \E p \in People : record' = Published([record EXCEPT !.creators[1] = p])
     \/ \E s \in Topics : record' = [record EXCEPT !.subjects = Append(@, s)]
  /\ outcome' = "none"
  /\ UNCHANGED entry

Next == /\ steps < MaxSteps
        /\ steps' = steps + 1
        /\ Harvest \/ InspireChanges \/ Curate

Spec == Init /\ [][Next]_vars

(***************************************************************************)
(* Properties                                                              *)
(***************************************************************************)
NamesOf(people, i) == {a.name : a \in ToSet(people[i].affiliations)}

\* A harvest removes nothing a curator or an earlier harvest put there: every
\* identifier, related identifier and subject, and the text curated with them,
\* every creator with the identifiers and the affiliations by name, the OAI pid
\* and the defence date of a thesis are there afterwards; and it adds no creator.
NothingLost ==
  [][outcome' = "updated" =>
       /\ \A f \in {"identifiers", "related", "subjects"} :
            \A i \in DOMAIN record[f] :
              /\ record'[f][i].key = record[f][i].key
              /\ record[f][i].info \in {Absent, record'[f][i].info}
       /\ Len(record'.creators) = Len(record.creators)
       /\ \A i \in DOMAIN record.creators :
            /\ ToSet(record.creators[i].ids) \subseteq ToSet(record'.creators[i].ids)
            /\ NamesOf(record.creators, i) \subseteq NamesOf(record'.creators, i)
       /\ record'.pids.oai = record.pids.oai
       /\ record.thesis.defended \in {Absent, record'.thesis.defended}]_vars

Distinct(list) == \A i, j \in DOMAIN list : list[i].name = list[j].name => i = j

\* The entry names everybody once, and every affiliation, in one spelling; no two
\* of its people share an identifier; its contributors have identifiers of the same
\* schemes, or two may match one by different means; and its date is one.
Regular(e) ==
  /\ \A list \in {e.creators, e.contributors} :
       /\ Distinct(list)
       /\ \A i, j \in DOMAIN list : ToSet(list[i].ids) \cap ToSet(list[j].ids) # {} => i = j
  /\ \A p, q \in ToSet(e.contributors) : Schemes(p) = Schemes(q)
  /\ \A p \in ToSet(e.creators) \cup ToSet(e.contributors) :
       /\ Distinct(p.affiliations)
       /\ \A a \in ToSet(p.affiliations) : a.name # Absent
  /\ e.date = <<>> \/ ValidDate(e.date)

\* Once an update went through, harvesting the same regular entry again meets no
\* conflict and changes nothing: the harvester does not rewrite its own result.
\* Nothing is published either, unless the entry has a DOI of CDS: the client that
\* it lacks makes every harvest publish the record again as it is.
Settles ==
  (outcome = "updated" /\ Regular(entry)) =>
    LET again == Update(record, entry) IN
    /\ ~Conflict(record, entry) /\ Published(again) = record
    /\ UpToDate(record, again) \/ entry.pids.provider = "datacite"

\* The date of a record with a DOI of CDS only ever gets more precise, and that
\* of a thesis that stays one never changes.
DatesOnlyRefined ==
  [][outcome' = "updated" =>
       /\ CdsOriginal(record) =>
            SubSeq(record'.date, 1, Len(record.date)) = record.date
       /\ (record.rtype = "thesis" /\ record'.rtype = "thesis"
           /\ ~CdsOriginal(record) /\ record.date # <<>>) => record'.date = record.date]_vars

SchemesOnce(person) ==
  \A i, j \in ToSet(person.ids) : i[1] = j[1] => i = j

\* A harvest gives a person a second identifier of a scheme only when INSPIRE
\* gives two itself, or it and the record agree on another one: the same name
\* alone never mixes two people.
NobodyMixedByName ==
  [][outcome' = "updated" =>
       \A f \in {"creators", "contributors"} : \A i \in DOMAIN record[f] :
         (SchemesOnce(record[f][i]) /\ ~SchemesOnce(record'[f][i])) =>
           \E p \in ToSet(entry[f]) :
             \/ ToSet(p.ids) \cap ToSet(record[f][i].ids) # {}
             \/ ~SchemesOnce(p)]_vars
================================================================================
