---------------------------- MODULE MCUpdateEngine ----------------------------
(* Small records and entries for UpdateEngine. *)
EXTENDS UpdateEngine

MCNormalized == [s \in {"", "CERN", "C.E.R.N.", "DESY", "ror1"} |->
                   CASE s \in {"CERN", "C.E.R.N."} -> "cern" [] s = "DESY" -> "desy" [] OTHER -> s]
Aff(spelling) == [id |-> "", name |-> MCNormalized[spelling], spelling |-> spelling]
Cern  == Aff("CERN")
Cern2 == Aff("C.E.R.N.")
Ror   == [Aff("") EXCEPT !.id = "ror1"]
Desy  == Aff("DESY")

Orcid1 == <<"orcid", "o1">>
Orcid2 == <<"orcid", "o2">>
Author == <<"inspire", "a1">>
Person(name, ids, affiliations) ==
  [name |-> name, ids |-> ids, affiliations |-> affiliations]

Item(key, info) == [key |-> key, info |-> info]
Pids(doi, provider, oai) ==
  Released([doi |-> doi, provider |-> provider, client |-> "", oai |-> oai])

Journal ==
  [pids |-> Pids("J", "external", "oai1"), rtype |-> "article",
   creators |-> <<Person("ann", <<Orcid1>>, <<Cern>>), Person("bob", <<>>, <<>>)>>,
   contributors |-> <<>>,
   identifiers |-> <<Item("cds1", "")>>, related |-> <<Item("arxiv1", "kept")>>,
   date |-> <<2020, 5>>, subjects |-> <<Item("physics", "")>>, title |-> "old",
   thesis |-> NoThesis]
Original == [Journal EXCEPT !.pids = Pids("C", "datacite", "oai1"), !.rtype = "preprint"]
Thesis == [Journal EXCEPT !.rtype = "thesis",
             !.thesis = [type |-> "phd", university |-> "", defended |-> "2019"],
             !.creators = <<Person("ann", <<Orcid1, Author>>, <<Cern>>),
                            Person("ann", <<Orcid2>>, <<>>)>>]

FromInspire(rtype, date, creators, contributors) ==
  [pids |-> Pids("J2", "external", ""), rtype |-> rtype, creators |-> creators,
   contributors |-> contributors,
   identifiers |-> <<Item("cds1", "filled"), Item("cds2", "")>>,
   related |-> <<Item("arxiv1", "new"), Item("arxiv1", "again")>>, date |-> date,
   subjects |-> <<Item("maths", "")>>, title |-> "new",
   thesis |-> IF rtype = "thesis" THEN [NoThesis EXCEPT !.type = "phd", !.university = "u"]
              ELSE NoThesis]
OfCds(e) == [e EXCEPT !.pids = [Pids("C", "datacite", "") EXCEPT !.client = ""]]
NoPids(e) == [e EXCEPT !.pids = Pids("", "", "")]

MCRecords == {Journal, Original, Thesis}
Articles ==
  {FromInspire("article", <<2020, 5, 1>>,
               <<Person("ann", <<Author, Orcid1>>, <<Cern2, Desy>>)>>,
               <<Person("eve", <<>>, <<>>)>>),
   FromInspire("article", <<2020>>,
               <<Person("ann", <<Orcid2>>, <<>>), Person("bob", <<Orcid2>>, <<>>)>>,
               <<Person("eve", <<Orcid1>>, <<Cern, Cern2>>)>>),
   FromInspire("article", <<2021, 0, 0, 1>>, <<>>, <<>>),
   FromInspire("article", <<>>, <<Person("bob", <<Orcid2>>, <<Ror>>)>>, <<>>)}
MCEntries ==
  Articles \cup {OfCds(e) : e \in Articles} \cup
  {FromInspire("thesis", <<2020, 6>>,
               <<Person("ann", <<>>, <<Cern, Cern2>>), Person("eve", <<>>, <<>>)>>,
               <<Person("eve", <<>>, <<>>), Person("eve", <<>>, <<>>)>>),
   NoPids(FromInspire("thesis", <<>>, <<Person("ann", <<Orcid1>>, <<>>)>>, <<>>)),
   [FromInspire("article", <<2021>>, <<>>, <<>>) EXCEPT !.identifiers = <<Item("", "no value")>>]}

MCDates == {<<>>, <<2020>>, <<2020, 4>>}
MCPeople == {Person("ann", <<>>, <<Cern2>>), Person("eve", <<Orcid2>>, <<>>)}
MCTopics == {Item("maths", "curated")}
===============================================================================
