-------------------------- MODULE MCInspireTransform --------------------------
(* INSPIRE records for InspireTransform: one that exercises every mapper, and *)
(* for each aspect the records that differ from it there.                     *)
EXTENDS InspireTransform

Sample ==
  [id |-> "1", types |-> <<"article">>, journal |-> "citeable", dois |-> <<>>,
   external |-> {}, persistent |-> {}, reportNumbers |-> <<>>,
   titles |-> <<[value |-> "t1", source |-> ""]>>, abstracts |-> <<>>, documents |-> <<>>,
   authors |-> <<[name |-> "ann", roles |-> {}]>>, supervisors |-> {}, corporate |-> {},
   isbns |-> {}, urls |-> {}, eprints |-> {"e1"}, licenses |-> {"cc-by", "odd"},
   keywords |-> {"k1"}, languages |-> {}, terms |-> {"lhc", "lep"}, funding |-> {},
   publisher |-> "", place |-> "", editions |-> FALSE, year |-> "2020", imprintDate |-> "",
   created |-> "2021", thesisDate |-> "", thesis |-> "phd", withdrawn |-> FALSE]

Types == {<<"article">>, <<"article", "conference">>, <<"thesis">>, <<"note", "article">>}

\* Sequences of at most n different elements.
UpTo(n, S) == {q \in UNION {[1 .. k -> S] : k \in 0 .. n} :
                 \A i, j \in DOMAIN q : i # j => q[i] # q[j]}

Document(name, src, material, checksum) ==
  [name |-> name, source |-> src, material |-> material, checksum |-> checksum]
Documents ==
  {Document("f", "arxiv", "preprint", FALSE), Document("f", "arxiv", "publication", TRUE),
   Document("g", "springer", "publication", TRUE), Document("g", "springer", "", FALSE),
   Document("h", "CDS", "", TRUE), Document("h", "cds", "preprint", TRUE),
   Document("i", "", "", TRUE)}

MCDoi(v, cds, material, src) == [value |-> v, cds |-> cds, material |-> material, source |-> src]
Dois ==
  {MCDoi("c1", TRUE, "publication", "cds"), MCDoi("c2", TRUE, "", "cds"),
   MCDoi("x1", FALSE, "publication", "springer"), MCDoi("x1", FALSE, "preprint", "arxiv"),
   MCDoi("x2", FALSE, "", "arxiv"), MCDoi("bad", FALSE, "publication", "springer")}

Ids == {[scheme |-> s, value |-> v] :
          s \in {"cds", "cdsrdm", "aleph", "inis", "urn", "spires", "odd"}, v \in {"v", "bad"}}

Number(v, wellFormed, committee, cern) ==
  [value |-> v, wellFormed |-> wellFormed, committee |-> committee, cern |-> cern]
Numbers ==
  {Number("CERN-EP-2020-1", TRUE, TRUE, TRUE), Number("CERN-EP-2020x", FALSE, TRUE, TRUE),
   Number("EP-2020-1", TRUE, TRUE, FALSE), Number("EP-2020x", FALSE, TRUE, FALSE),
   Number("FERMI-1", FALSE, FALSE, FALSE), Number("CERN-TH-1", FALSE, FALSE, TRUE)}

Texts == {[value |-> v, source |-> s] : v \in {"t1", "t2"}, s \in {"", "arxiv", "springer"}}
Funds == {[agency |-> a, number |-> n] : a \in {"", "cern", "nsf", "who"}, n \in {"", "1", "2", "3"}}
People == {[name |-> n, roles |-> r] :
             n \in {"ann", "bob"}, r \in SUBSET {"author", "editor", "odd"}}

\* Ann may be an author as well.
Supervisors == {[name |-> "sue", role |-> r] : r \in {"supervisor", "odd", ""}}
                 \cup {[name |-> "ann", role |-> ""]}

MCSources ==
  {[Sample EXCEPT !.types = t, !.documents = d] : t \in Types, d \in UpTo(2, Documents)}
  \cup {[Sample EXCEPT !.types = t, !.dois = d, !.journal = j] :
          t \in Types, d \in UpTo(3, Dois), j \in {"citeable", "title", ""}}
  \cup {[Sample EXCEPT !.types = t, !.dois = <<MCDoi("x2", FALSE, "", "arxiv")>>,
                       !.documents = <<Document("g", "springer", "publication", TRUE)>>] :
          t \in UpTo(3, DOMAIN TypeOf \cup {"other"})}
  \cup {[Sample EXCEPT !.external = e] : e \in {E \in SUBSET Ids : Cardinality(E) <= 2}}
  \cup {[Sample EXCEPT !.persistent = e] : e \in {E \in SUBSET Ids : Cardinality(E) <= 2}}
  \cup {[Sample EXCEPT !.reportNumbers = n] : n \in UpTo(2, Numbers)}
  \cup {[Sample EXCEPT !.titles = x, !.types = t, !.journal = j] :
          x \in UpTo(3, Texts) \ {<<>>}, t \in {<<"article">>, <<"book">>}, j \in {"citeable", ""}}
  \cup {[Sample EXCEPT !.abstracts = x, !.types = t] :
          x \in UpTo(3, Texts), t \in {<<"article">>, <<"book">>}}
  \cup {[Sample EXCEPT !.authors = a, !.types = t, !.supervisors = {v}, !.corporate = {"cms"}] :
          a \in UpTo(2, People), t \in Types, v \in Supervisors}
  \cup {[Sample EXCEPT !.funding = f] : f \in {F \in SUBSET Funds : Cardinality(F) <= 2}}
  \cup {[Sample EXCEPT !.types = t, !.year = y, !.imprintDate = i, !.thesisDate = d, !.languages = l] :
          t \in Types, y \in {"", "2020", "bad"}, i \in {"", "2019"}, d \in {"", "2018"},
          l \in SUBSET {"en", "xx"}}
  \cup {[Sample EXCEPT !.isbns = {"bad", "i1"}, !.urls = {"bad", "u1"}, !.editions = e,
                       !.withdrawn = ~e] : e \in BOOLEAN}

MCInvalid == {"bad"}
MCOwnSchemes == {"cds", "aleph", "cdsrn", "apprn"}
MCRelatedSchemes == MCOwnSchemes \cup {"inis", "urn", "doi", "arxiv", "isbn", "url", "inspire"}
MCDroppedSchemes == {"spires"}
MCLanguageOf == [l \in {"en", "xx"} |-> IF l = "en" THEN "eng" ELSE ""]
MCFunderOf == [a \in {"cern", "nsf", "who"} |-> IF a = "who" THEN "" ELSE a]
MCAwards == {[number |-> "1", id |-> "a1", funder |-> "cern"],
             [number |-> "2", id |-> "a2", funder |-> "cern"],
             [number |-> "2", id |-> "a3", funder |-> "nsf"]}
MCTermOf == [t \in {"lhc", "lep"} |-> IF t = "lhc" THEN "LHC" ELSE ""]
MCLicenseOf == [l \in {"cc-by", "odd"} |-> IF l = "cc-by" THEN "cc-by" ELSE ""]
===============================================================================
