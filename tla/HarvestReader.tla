---------------------------- MODULE HarvestReader ----------------------------
(***************************************************************************)
(* The INSPIRE reader: walks the pages of a search result and yields every *)
(* record once.  INSPIRE keeps changing while it is read, so records slip  *)
(* between pages; a pass whose count does not match what INSPIRE reported  *)
(* is repeated, a bounded number of times.                                 *)
(*                                                                         *)
(* Code: site/cds_rdm/inspire_harvester/reader.py, _iter.                  *)
(***************************************************************************)
EXTENDS Naturals, FiniteSets, SequencesExt

CONSTANTS
    Record,      \* INSPIRE records, by id
    PageSize,    \* hits per page (INSPIRE's default)
    MaxPasses,   \* MAX_HARVEST_PASSES
    MaxChanges,  \* bound: changes of the result during one harvest
    None         \* absent value

ASSUME HarvestAssumption ==
    /\ IsFiniteSet(Record)
    /\ PageSize \in Nat \ {0}
    /\ MaxPasses \in Nat \ {0}
    /\ MaxChanges \in Nat
    /\ None \notin Nat

VARIABLES
    result,      \* INSPIRE: the records that match the query, in its order
    changes,     \* INSPIRE: changes made to the result so far
    pass,        \* pass_number
    page,        \* the page page_url asks for, 0 when there is none
    reported,    \* reported_total of this pass
    new,         \* new_in_pass
    seen,        \* seen_ids
    delivered,   \* records yielded, in order
    outcome,     \* of the generator: "incomplete" is IncompleteReadError,
                 \* "failed" ReaderError
    quiet,       \* history: no change since the pass asked for its first page
    ever,        \* history: records the result has had during the harvest
    always       \* history: records the result has had all the time

inspire == <<result, changes, quiet, ever, always>>
harvest == <<pass, page, reported, new, seen, delivered, outcome>>
vars == <<inspire, harvest>>

\* No record twice: INSPIRE's result is ordered, not a bag.
Results == {s \in SeqOf(Record, Cardinality(Record)) : IsInjective(s)}

Init ==
    /\ result \in Results
    /\ changes = 0
    /\ pass = 1 /\ page = 1
    /\ reported = None /\ new = 0
    /\ seen = {}
    /\ delivered = <<>>
    /\ outcome = "reading"
    /\ quiet = TRUE
    /\ ever = ToSet(result) /\ always = ToSet(result)

-----------------------------------------------------------------------------
(* INSPIRE *)

\* The sequence s without the members of dropped, in its order.
Kept(s, dropped) ==
    LET upTo[i \in 0 .. Len(s)] ==
          IF i = 0 THEN <<>>
          ELSE IF s[i] \in dropped THEN upTo[i - 1] ELSE Append(upTo[i - 1], s[i])
    IN  upTo[Len(s)]

\* What the result may be after one edit on INSPIRE: a record is updated and
\* moves, stops matching the query, or starts to.
Without(r) == Kept(result, {r})
With(s, r) == {InsertAt(s, i, r) : i \in 1 .. Len(s) + 1}

Edited ==
    UNION {IF r \in ToSet(result)
           THEN {Without(r)} \cup With(Without(r), r)
           ELSE With(result, r) : r \in Record}

Change ==
    /\ outcome = "reading" /\ changes < MaxChanges
    /\ result' \in Edited \ {result}
    /\ changes' = changes + 1
    /\ quiet' = (reported = None)
    /\ ever' = ever \cup ToSet(result')
    /\ always' = always \cap ToSet(result')
    /\ UNCHANGED harvest

-----------------------------------------------------------------------------
(* The reader.  Faulty variants are what a mistake in the code would make  *)
(* of the definition after them; they show that the properties can fail.   *)

\* The hits on the page asked for; none when the result has become shorter.
Hits ==
    LET last == IF page * PageSize < Len(result) THEN page * PageSize
                                                 ELSE Len(result)
    IN  SubSeq(result, (page - 1) * PageSize + 1, last)

FaultyFresh == Hits                        \* seen_ids is not consulted

\* The hits on this page that were not yielded before.
Fresh == Kept(Hits, seen)

\* links.next
NextPage == IF page * PageSize < Len(result) THEN page + 1 ELSE 0

\* hits.total, of the first page only.
Reported == IF reported = None THEN Len(result) ELSE reported

FetchPage ==
    /\ outcome = "reading" /\ page # 0
    /\ reported' = Reported
    /\ delivered' = delivered \o Fresh
    /\ seen' = seen \cup ToSet(Hits)
    /\ new' = new + Len(Fresh)
    /\ page' = NextPage
    /\ UNCHANGED <<inspire, pass, outcome>>

\* _get_json: any status but 200.
FetchFails ==
    /\ outcome = "reading" /\ page # 0
    /\ outcome' = "failed"
    /\ UNCHANGED <<inspire, pass, page, reported, new, seen, delivered>>

FaultyMatches == pass > 1 \/ Cardinality(seen) = reported  \* trusts the second

Matches == Cardinality(seen) = reported

\* A later pass that added nothing.
Stalled == pass > 1 /\ new = 0

LastPass == pass = MaxPasses

EndOfPass == outcome = "reading" /\ page = 0

Stop(how) ==
    /\ EndOfPass
    /\ outcome' = how
    /\ UNCHANGED <<inspire, pass, page, reported, new, seen, delivered>>

Finish == Matches /\ Stop("complete")

GiveUp ==
    /\ ~Matches
    /\ Stalled \/ LastPass
    /\ Stop("incomplete")

FaultyNextPass == pass                     \* the pass is not counted

NextPass == pass + 1

FaultyFirstPage == 2                       \* resumes instead of starting over

\* harvest_url
FirstPage == 1

Again ==
    /\ EndOfPass
    /\ ~Matches /\ ~Stalled /\ ~LastPass
    /\ pass' = NextPass
    /\ page' = FirstPage
    /\ reported' = None
    /\ new' = 0
    /\ quiet' = TRUE
    /\ UNCHANGED <<result, changes, ever, always, seen, delivered, outcome>>

Read == FetchPage \/ Finish \/ GiveUp \/ Again

Next == Change \/ FetchFails \/ Read

Spec == Init /\ [][Next]_vars

\* The job that runs the reader keeps asking for the next record.
FairSpec == Spec /\ WF_vars(Read)

-----------------------------------------------------------------------------
(* Properties *)

\* No record is sent to the transformer twice in one run, although passes are
\* repeated and records move to pages still to be read; and what was sent is
\* what counts as seen (reader.py:102-111).
DeliveredOnce == IsInjective(delivered) /\ ToSet(delivered) = seen

\* A pass during which INSPIRE did not change leaves nothing behind: when the
\* reader stops after one, also when it raises IncompleteReadError, every
\* record that matches now has been sent.
QuietPassDelivers ==
    outcome \in {"complete", "incomplete"} /\ quiet => ToSet(result) \subseteq seen

\* Records that only move between pages are never lost: a harvest that ends
\* normally has sent all of them, in whatever passes they moved, and one whose
\* last pass was undisturbed does end normally (reader.py:115 before 118).
\* When a record leaves the result and another one joins, neither is so.  If
\* nothing changes at all, one pass sends them in INSPIRE's order.
MovesNeverLose ==
    ever = always =>
        /\ outcome = "complete" => seen = ever
        /\ outcome = "incomplete" => ~quiet
        /\ changes = 0 /\ outcome \in {"complete", "incomplete"}
               => pass = 1 /\ delivered = result

\* The harvest ends: a result that keeps shifting cannot make the reader loop
\* forever (the comment on MAX_HARVEST_PASSES, reader.py:18).
Ends == <>(outcome # "reading")

=============================================================================
