---------------------------- MODULE MCHarvestWriter ----------------------------
(* Small harvests for HarvestWriter: two writers, at most three records. *)
EXTENDS HarvestWriter

MCWorks == 1 .. 3
MCNone  == 0

CdsDoiIn   == [id |-> "D", provider |-> "datacite", client |-> FALSE]
CdsDoiOf   == [CdsDoiIn EXCEPT !.client = TRUE]
JournalDoi == [id |-> "J", provider |-> "external", client |-> FALSE]

Inspire == {<<"inspire", "i1">>}
Version(ids, rtype, files, doi) ==
  [ids |-> ids, rtype |-> rtype, note |-> "old", files |-> files, doi |-> doi,
   curated |-> FALSE]
Incoming(ids, rtype, note, files, doi, versions) ==
  [ids |-> ids, rtype |-> rtype, note |-> note, files |-> files, doi |-> doi,
   versions |-> versions, legacy |-> {}, parent |-> MCNone,
   versionId |-> FALSE]
Split(rtype, files) == Incoming(Inspire, rtype, "split", files, NoDoi, <<>>)

Both(a, b, initial) ==
  [entry |-> [t \in Tasks |-> IF t = 1 THEN a ELSE b],
   published |-> [w \in Works |-> IF w \in DOMAIN initial THEN initial[w] ELSE <<>>],
   sandbox |-> FALSE]

\* A CDS preprint that became an article, harvested twice at once.
Versioned == LET e == Incoming(Inspire, "article", "new", {"b", "c"}, CdsDoiIn,
                               <<Split("preprint", {"p"})>>)
             IN Both(e, e, <<<<Version(Inspire, "preprint", {"a"}, CdsDoiOf)>>>>)

\* A CDS conference paper that became an article and has a preprint; the second
\* entry has no files.
Retyped == LET e == Incoming(Inspire, "article", "new", {"b"}, CdsDoiIn,
                             <<Split("preprint", {"p"})>>)
           IN Both(e, [e EXCEPT !.files = {}],
                   <<<<Version(Inspire, "conference", {"a"}, CdsDoiOf)>>>>)

\* A record with two files to replace, and a later entry without files.
Edited == Both(Incoming(Inspire, "article", "new", {"b", "c"}, JournalDoi, <<>>),
               Incoming(Inspire, "article", "newer", {}, NoDoi, <<>>),
               <<<<Version(Inspire, "article", {"a", "d"}, JournalDoi)>>>>)

\* A new entry, without files, and the same with a file and another DOI.
Created == LET e == Incoming({<<"arxiv", "x">>} \cup Inspire, "article", "new", {},
                             JournalDoi, <<>>)
           IN Both(e, [e EXCEPT !.doi.id = "K", !.files = {"b"}], <<>>)

\* An entry with a migrated legacy recid, and one that two records match.
Matched == Both([Incoming({<<"apprn", "A1">>}, "article", "old", {}, NoDoi, <<>>)
                   EXCEPT !.legacy = {"l1", "l2"}],
                [Incoming({<<"arxiv", "x">>}, "article", "old", {"a"}, CdsDoiIn, <<>>)
                   EXCEPT !.parent = MCNone],
                <<<<Version(Inspire \cup {<<"arxiv", "x">>, <<"apprn", "A1">>}, "article", {"a"}, CdsDoiOf)>>,
                  <<Version({<<"arxiv", "x">>}, "article", {"a"}, NoDoi)>>>>)

\* An unmigrated record of the old CDS, and a settled entry with a CDS DOI.
Settled == Both([Incoming(Inspire, "article", "new", {}, NoDoi, <<>>) EXCEPT !.legacy = {"l2"}],
                Incoming(Inspire, "article", "old", {"a"}, CdsDoiIn, <<>>),
                <<<<Version(Inspire, "article", {"a"}, CdsDoiOf)>>>>)

\* A record of production that the sandbox does not have, delivered twice.
Sandboxed == LET e == [Incoming(Inspire, "article", "new", {"b"}, CdsDoiIn, <<>>)
                         EXCEPT !.parent = 2]
             IN [Both(e, e, <<>>) EXCEPT !.sandbox = TRUE]

\* An entry with the DOI of a parent, and one with the id of a version.
Named == Both(Incoming({<<"arxiv", "x">>}, "article", "new", {}, [CdsDoiIn EXCEPT !.id = "P"], <<>>),
              [Incoming({<<"cds", "c">>}, "article", "new", {"b"}, NoDoi, <<>>)
                 EXCEPT !.parent = 1, !.versionId = TRUE],
              <<<<Version(Inspire, "article", {"a"}, CdsDoiOf)>>,
                <<Version({<<"cds", "d">>}, "article", {"a"}, JournalDoi)>>>>)

MCScenarios == {Versioned, Retyped, Edited, Created, Matched, Settled, Sandboxed, Named}
MCParentDoi == [w \in MCWorks |-> IF w = 1 THEN "P" ELSE "none"]
MCLrecid == [r \in {"l1", "l2"} |-> IF r = "l1" THEN 1 ELSE MCNone]
MCOldCDS == [r \in {"l1", "l2"} |-> "present"]
===============================================================================
