-------------------------- MODULE HarvestWriterProofs --------------------------
(***************************************************************************)
(* Proofs about HarvestWriter, for any tasks, records and entries.         *)
(*                                                                         *)
(* That a record is in the community when it is published is not inductive *)
(* alone: CommunityInv adds that a task has put the record there before it *)
(* reaches the call that publishes.  Who works on a record that was never  *)
(* published, and which drafts, versions and entries tasks plan from, is   *)
(* OwnerInv: the orphan drafts and the curators' corrections rest on it.   *)
(* TypesInv follows the resource types from the index through the plans    *)
(* and drafts to what is published: that no split version is missing rests *)
(* on it.  DraftInv says where the files and the corrections in every      *)
(* draft come from: that a version is published with a whole set of files, *)
(* and that a published correction goes only to a writer who had not seen  *)
(* it, rest on that.  Unseen says what the index showed a task that does   *)
(* not update: nothing that a filter of the matcher looks for.             *)
(***************************************************************************)
EXTENDS HarvestWriter, SequenceTheorems, WellFoundedInduction, TLAPS

\* What the argument needs of the shape of the state.
Shape ==
  /\ DOMAIN task = Tasks
  /\ \A t \in Tasks : {"pc", "work"} \subseteq DOMAIN task[t]
  /\ DOMAIN published = Works

\* A task publishes only what is in the community.
JoinsFirst ==
  \A t \in Tasks : task[t].pc = "publish" /\ task[t].work \in Works => task[t].work \in community

CommunityInv == Shape /\ PublishedInCommunity /\ JoinsFirst

-----------------------------------------------------------------------------
(* Steps                                                                   *)

\* A task moves on without publishing.
LEMMA TaskMoves ==
    ASSUME CommunityInv, NEW t \in Tasks,
           published' = published, community \subseteq community',
           DOMAIN task' = Tasks, {"pc", "work"} \subseteq DOMAIN task'[t],
           \A u \in Tasks \ {t} : task'[u] = task[u],
           task'[t].pc = "publish" /\ task'[t].work \in Works => task'[t].work \in community'
    PROVE  CommunityInv'
<1>1. Shape' /\ PublishedInCommunity'
  BY DEF CommunityInv, Shape, PublishedInCommunity
<1>2. JoinsFirst'
  BY DEF CommunityInv, JoinsFirst
<1> QED
  BY <1>1, <1>2 DEF CommunityInv

\* A task stops.
LEMMA TaskStops ==
    ASSUME CommunityInv, NEW t \in Tasks, NEW op, task' = Stop(t, op),
           published' = published, community' = community
    PROVE  CommunityInv'
<1>1. /\ DOMAIN task' = Tasks /\ {"pc", "work"} \subseteq DOMAIN task'[t]
      /\ task'[t].pc = "done" /\ \A u \in Tasks \ {t} : task'[u] = task[u]
  BY DEF CommunityInv, Shape, Stop
<1> QED
  BY <1>1, TaskMoves

\* The matcher names no call that publishes.
LEMMA MatchKinds == ASSUME NEW e PROVE Match(e).kind # "publish"
<1>1. LegacyAnswer(e) \in {"unmigrated", "error"}
  BY DEF LegacyAnswer
<1> QED
  BY <1>1 DEF Match, NoMatch

\* A plan begins with opening a draft.
LEMMA Planned ==
    ASSUME CommunityInv, NEW t \in Tasks, NEW k, NEW f, NEW m, NEW l
    PROVE  /\ {"pc", "work"} \subseteq DOMAIN Plan(t, k, f, m, l)
           /\ Plan(t, k, f, m, l).pc = "open"
  BY DEF CommunityInv, Shape, Plan

\* Routing publishes nothing.
LEMMA RouteStep ==
    ASSUME CommunityInv, NEW t \in Tasks, Route(t) \/ RefuseUpdate(t) \/ RefuseCreate(t)
    PROVE  CommunityInv'
<1>1. published' = published /\ community' = community
  BY DEF Route, RefuseUpdate, RefuseCreate, records
<1>2. CASE Route(t)
  <2> DEFINE m == Match(entry[t])
  <2>1. m.kind # "publish"
    BY MatchKinds
  <2>2. \/ task' = Stop(t, "none")
        \/ task' = [task EXCEPT ![t].pc = m.kind, ![t].work = m.work, ![t].ver = m.ver,
                                ![t].seen = Visible(entry[t])]
    BY <1>2 DEF Route
  <2> HIDE DEF m
  <2>3. CASE task' # Stop(t, "none")
    <3>1. /\ DOMAIN task' = Tasks /\ {"pc", "work"} \subseteq DOMAIN task'[t]
          /\ task'[t].pc = m.kind /\ \A u \in Tasks \ {t} : task'[u] = task[u]
      BY <2>2, <2>3 DEF CommunityInv, Shape
    <3> QED
      BY <1>1, <2>1, <3>1, TaskMoves
  <2> QED
    BY <1>1, <2>3, TaskStops
<1>3. CASE RefuseUpdate(t) \/ RefuseCreate(t)
  BY <1>1, <1>3, TaskStops DEF RefuseUpdate, RefuseCreate
<1> QED
  BY <1>2, <1>3

\* Nor does reading a record and planning its versions.
LEMMA PlanStep ==
    ASSUME CommunityInv, NEW t \in Tasks,
           ReadAndMerge(t) \/ ScanVersions(t) \/ NextVersion(t) \/ MainVersion(t)
    PROVE  CommunityInv'
<1>1. published' = published /\ community' = community
  BY DEF ReadAndMerge, ScanVersions, NextVersion, MainVersion, records
<1> SUFFICES \/ \E op : task' = Stop(t, op)
             \/ /\ DOMAIN task' = Tasks /\ {"pc", "work"} \subseteq DOMAIN task'[t]
                /\ task'[t].pc # "publish" /\ \A u \in Tasks \ {t} : task'[u] = task[u]
  BY <1>1, TaskStops, TaskMoves
<1>2. CASE ReadAndMerge(t)
  <2> DEFINE cur == published[task[t].work][task[t].ver]
             new == Merge(cur, entry[t])
             plan == Plan(t, "edit", task[t].ver, new, TRUE)
             read == [task EXCEPT ![t].read = cur]
  <2>1. \/ task' = [read EXCEPT ![t].pc = "scan", ![t].todo = entry[t].versions]
        \/ task' = Stop(t, "none")
        \/ task' = [read EXCEPT ![t] = [plan EXCEPT !.read = cur]]
    BY <1>2 DEF ReadAndMerge
  <2>2. {"pc", "work"} \subseteq DOMAIN plan /\ plan.pc = "open"
    BY Planned
  <2>3. /\ DOMAIN read = Tasks /\ {"pc", "work"} \subseteq DOMAIN read[t]
        /\ \A u \in Tasks \ {t} : read[u] = task[u]
    <3> HIDE DEF cur
    <3> QED
      BY DEF CommunityInv, Shape
  <2> HIDE DEF plan, read, cur
  <2>4. {"pc", "work"} \subseteq DOMAIN [plan EXCEPT !.read = cur]
        /\ [plan EXCEPT !.read = cur].pc = "open"
    BY <2>2
  <2> QED
    BY <2>1, <2>3, <2>4
<1>3. CASE ScanVersions(t)
  <2>1. PICK f : task' = [task EXCEPT ![t].pc = "versions", ![t].existing = f]
    BY <1>3 DEF ScanVersions
  <2> QED
    BY <2>1 DEF CommunityInv, Shape
<1>4. CASE NextVersion(t)
  <2>1. PICK k, f, m : task' = [task EXCEPT ![t] = [Plan(t, k, f, m, FALSE) EXCEPT !.todo = Tail(@)]]
    BY <1>4 DEF NextVersion
  <2> DEFINE plan == Plan(t, k, f, m, FALSE)
  <2>2. {"pc", "work"} \subseteq DOMAIN plan /\ plan.pc = "open"
    BY Planned
  <2> HIDE DEF plan
  <2> QED
    BY <2>1, <2>2 DEF plan, CommunityInv, Shape
<1>5. CASE MainVersion(t)
  <2>1. PICK k, f, m : task' = [task EXCEPT ![t] = Plan(t, k, f, m, TRUE)]
    BY <1>5 DEF MainVersion
  <2> DEFINE plan == Plan(t, k, f, m, TRUE)
  <2>2. {"pc", "work"} \subseteq DOMAIN plan /\ plan.pc = "open"
    BY Planned
  <2> HIDE DEF plan
  <2> QED
    BY <2>1, <2>2 DEF plan, CommunityInv, Shape
<1> QED
  BY <1>2, <1>3, <1>4, <1>5

\* A call that changes the pc, and fields other than the record, and not what is
\* published.
LEMMA CallStep ==
    ASSUME CommunityInv, NEW t \in Tasks,
           OpenDraft(t) \/ FillDraft(t) \/ SyncFiles(t) \/ CreateDraft(t) \/ AddCommunity(t)
    PROVE  CommunityInv'
<1>1. published' = published /\ community \subseteq community'
  BY DEF OpenDraft, FillDraft, SyncFiles, CreateDraft, AddCommunity
<1> SUFFICES /\ DOMAIN task' = Tasks /\ {"pc", "work"} \subseteq DOMAIN task'[t]
             /\ \A u \in Tasks \ {t} : task'[u] = task[u]
             /\ task'[t].pc = "publish" /\ task'[t].work \in Works => task'[t].work \in community'
  BY <1>1, TaskMoves
<1>2. CASE OpenDraft(t)
  <2>1. PICK n : task' = [task EXCEPT ![t].pc = "fill", ![t].target = n]
    BY <1>2 DEF OpenDraft
  <2> QED
    BY <2>1 DEF CommunityInv, Shape
<1>3. CASE FillDraft(t)
  <2>1. task' = [task EXCEPT ![t].pc = "sync"]
    BY <1>3 DEF FillDraft
  <2> QED
    BY <2>1 DEF CommunityInv, Shape
<1>4. CASE SyncFiles(t)
  <2>1. /\ task' = [task EXCEPT ![t].pc = IF published[task[t].work] = <<>> THEN "community"
                                         ELSE "publish"]
        /\ community' = community
    BY <1>4 DEF SyncFiles
  <2>2. task'[t].work = task[t].work /\ DOMAIN task' = Tasks
        /\ {"pc", "work"} \subseteq DOMAIN task'[t] /\ \A u \in Tasks \ {t} : task'[u] = task[u]
    BY <2>1 DEF CommunityInv, Shape
  <2>3. task'[t].pc = IF published[task[t].work] = <<>> THEN "community" ELSE "publish"
    BY <2>1 DEF CommunityInv, Shape
  <2> QED
    BY <2>1, <2>2, <2>3 DEF CommunityInv, PublishedInCommunity
<1>5. CASE CreateDraft(t)
  <2>1. PICK w, n, m : task' = [task EXCEPT ![t].pc = "sync", ![t].work = w, ![t].target = n,
                                         ![t].meta = m]
    BY <1>5 DEF CreateDraft
  <2> QED
    BY <2>1 DEF CommunityInv, Shape
<1>6. CASE AddCommunity(t)
  <2>1. task' = [task EXCEPT ![t].pc = "publish"] /\ community' = community \cup {task[t].work}
    BY <1>6 DEF AddCommunity
  <2>2. task'[t].work = task[t].work /\ DOMAIN task' = Tasks
        /\ {"pc", "work"} \subseteq DOMAIN task'[t] /\ \A u \in Tasks \ {t} : task'[u] = task[u]
    BY <2>1 DEF CommunityInv, Shape
  <2> QED
    BY <2>1, <2>2
<1> QED
  BY <1>2, <1>3, <1>4, <1>5, <1>6

\* Publishing is of a record that has joined the community.
LEMMA PublishStep ==
    ASSUME CommunityInv, NEW t \in Tasks, Publish(t)
    PROVE  CommunityInv'
<1>1. /\ task[t].pc = "publish" /\ community' = community
      /\ \E x : published' = [published EXCEPT ![task[t].work] = x]
      /\ \/ \E op : task' = Stop(t, op)
         \/ task' = [task EXCEPT ![t].pc = "versions"]
  BY DEF Publish
<1>2. task[t].work \in Works => task[t].work \in community
  BY <1>1 DEF CommunityInv, JoinsFirst
<1>3. DOMAIN published' = Works /\ \A w \in Works \ {task[t].work} : published'[w] = published[w]
  BY <1>1 DEF CommunityInv, Shape
<1>4. PublishedInCommunity'
  BY <1>1, <1>2, <1>3 DEF CommunityInv, PublishedInCommunity
<1>5. /\ DOMAIN task' = Tasks /\ {"pc", "work"} \subseteq DOMAIN task'[t]
      /\ task'[t].pc # "publish" /\ \A u \in Tasks \ {t} : task'[u] = task[u]
  <2>1. CASE task' = [task EXCEPT ![t].pc = "versions"]
    BY <2>1 DEF CommunityInv, Shape
  <2>2. CASE \E op : task' = Stop(t, op)
    BY <2>2 DEF CommunityInv, Shape, Stop
  <2> QED
    BY <1>1, <2>1, <2>2
<1> QED
  BY <1>1, <1>3, <1>4, <1>5 DEF CommunityInv, Shape, JoinsFirst

\* A failing call or a lost worker publishes nothing and removes nobody.
LEMMA FailureStep ==
    ASSUME CommunityInv, NEW t \in Tasks,
           SyncFails(t) \/ PublishFails(t) \/ CallFails(t) \/ AddCommunityFails(t) \/ Crash(t)
    PROVE  CommunityInv'
<1>1. published' = published /\ community' = community
  BY DEF SyncFails, PublishFails, CallFails, AddCommunityFails, Crash
<1>2. CASE Crash(t)
  <2>1. task' = [task EXCEPT ![t].pc = "done", ![t].op = "lost"]
    BY <1>2 DEF Crash
  <2>2. /\ DOMAIN task' = Tasks /\ {"pc", "work"} \subseteq DOMAIN task'[t]
        /\ task'[t].pc = "done" /\ \A u \in Tasks \ {t} : task'[u] = task[u]
    BY <2>1 DEF CommunityInv, Shape
  <2> QED
    BY <1>1, <2>2, TaskMoves
<1>3. CASE ~Crash(t)
  BY <1>1, <1>3, TaskStops DEF SyncFails, PublishFails, CallFails, AddCommunityFails
<1> QED
  BY <1>2, <1>3

\* A curator publishes an edit of a version that is there.
LEMMA NothingToEdit == ASSUME NEW s, NEW x PROVE [<<>> EXCEPT ![s] = x] = <<>>
  OBVIOUS

\* A curator publishes versions of records that are published already.
LEMMA CuratorStep ==
    ASSUME CommunityInv, NEW w \in Works, NEW s \in Slots, CuratorPublish(w, s)
    PROVE  CommunityInv'
<1>1. /\ community' = community /\ task' = task
      /\ \E x : published' = [published EXCEPT ![w] = [published[w] EXCEPT ![s] = x]]
  BY DEF CuratorPublish
<1>2. PICK x : published' = [published EXCEPT ![w] = [published[w] EXCEPT ![s] = x]]
  BY <1>1
<1>3. /\ DOMAIN published' = Works /\ \A v \in Works \ {w} : published'[v] = published[v]
      /\ published'[w] = [published[w] EXCEPT ![s] = x]
  BY <1>2 DEF CommunityInv, Shape
<1>4. published[w] = <<>> => published'[w] = <<>>
  BY <1>3, NothingToEdit
<1>5. PublishedInCommunity'
  BY <1>1, <1>3, <1>4 DEF CommunityInv, PublishedInCommunity
<1> QED
  BY <1>1, <1>3, <1>5 DEF CommunityInv, Shape, JoinsFirst

-----------------------------------------------------------------------------
(* Theorem                                                                 *)

\* No harvested record is ever published outside the CERN Scientific Community:
\* not when a call fails, a worker is lost, two writers create at once or a curator
\* edits in between.
THEOREM NeverOutsideCommunity == Spec => []PublishedInCommunity
<1>1. Init => CommunityInv
  <2> SUFFICES ASSUME Init PROVE CommunityInv
    OBVIOUS
  <2>1. {"pc", "work"} \subseteq DOMAIN Idle /\ Idle.pc = "route"
    BY DEF Idle
  <2>2. DOMAIN published = Works
    BY ScenariosAssumption DEF Init
  <2> QED
    BY <2>1, <2>2 DEF Init, CommunityInv, Shape, PublishedInCommunity, JoinsFirst
<1>2. CommunityInv /\ [Next]_vars => CommunityInv'
  <2> SUFFICES ASSUME CommunityInv, [Next]_vars PROVE CommunityInv'
    OBVIOUS
  <2>1. ASSUME NEW t \in Tasks, TaskStep(t) \/ Crash(t) PROVE CommunityInv'
    BY <2>1, RouteStep, PlanStep, CallStep, PublishStep, FailureStep DEF TaskStep
  <2>2. ASSUME UNCHANGED <<published, community, task>> PROVE CommunityInv'
    BY <2>2 DEF CommunityInv, Shape, PublishedInCommunity, JoinsFirst
  <2>3. ASSUME NEW w \in Works, Refresh(w) \/ CuratorEdit(w) PROVE CommunityInv'
    BY <2>2, <2>3 DEF Refresh, CuratorEdit
  <2>4. ASSUME NEW w \in Works, NEW s \in Slots, CuratorDiscard(w, s) PROVE CommunityInv'
    BY <2>2, <2>4 DEF CuratorDiscard
  <2>5. CASE Finished \/ UNCHANGED vars
    BY <2>2, <2>5 DEF Finished, vars
  <2> QED
    BY <2>1, <2>3, <2>4, <2>5, CuratorStep DEF Next
<1>3. CommunityInv => PublishedInCommunity
  BY DEF CommunityInv
<1> QED
  BY <1>1, <1>2, <1>3, PTL DEF Spec

-----------------------------------------------------------------------------
(* Who owns a record: the inductive invariant                              *)

\* A draft, or a version, that has a resource type and files, and says whether a
\* curator corrected it.
Marked(d) == {"curated", "files", "rtype"} \subseteq DOMAIN d

\* A task that updates works on a published version, one that creates on a record
\* nobody else has, from its first draft until it is published.
WriterOk(k) ==
  /\ k.pc \in {"route", "create"} => k.work = NoWork /\ k.ver = 0 /\ k.slot = 0
  /\ k.pc \in {"update", "scan", "versions", "open", "fill"} => k.ver # 0
  /\ k.ver # 0 => k.work \in Works /\ k.ver \in 1 .. Latest(k.work)
  /\ k.ver = 0 => k.last
  /\ k.op = "create" => k.pc = "done" /\ k.ver = 0
  /\ k.pc \in {"sync", "community", "publish"} => k.work \in Works
  /\ k.pc \in {"sync", "community", "publish"} /\ published[k.work] = <<>>
       => k.slot = 0
  /\ k.pc = "community" => published[k.work] = <<>>
  /\ k.pc \in {"open", "fill", "sync", "community", "publish"} => k.slot \in Slots

\* What a task plans its versions from is there.
PlanOk(k) ==
  /\ k.pc = "scan" => Marked(k.read)
  /\ k.pc = "versions" \/ ~k.last =>
       Marked(k.read) /\ \A x \in DOMAIN k.existing : k.existing[x] \in 1 .. Latest(k.work)
  /\ k.pc = "open" => k.from \in 1 .. Latest(k.work)
  /\ k.pc \in {"open", "fill"} => Marked(k.meta)

Writers ==
  /\ DOMAIN task = Tasks
  /\ \A t \in Tasks : DOMAIN task[t] = DOMAIN Idle /\ WriterOk(task[t]) /\ PlanOk(task[t])

\* Only one task works on a record that is not published.
SingleOwner ==
  \A t, u \in Tasks :
    task[t].work = task[u].work /\ task[t].work \in Works /\ published[task[t].work] = <<>>
      => t = u

\* The versions of the records, as published and as the index shows them.
Versions ==
  /\ DOMAIN published = Works /\ DOMAIN indexed = Works
  /\ \A w \in Works :
       /\ published[w] \in Seq(ToSet(published[w])) /\ indexed[w] \in Seq(ToSet(indexed[w]))
       /\ Len(indexed[w]) <= Len(published[w]) /\ Len(published[w]) <= MaxVersions
       /\ \A v \in ToSet(published[w]) : Marked(v)

\* The open drafts; only what is published can be corrected.
Drafts ==
  /\ DOMAIN drafts = Works
  /\ \A w \in Works :
       /\ DOMAIN drafts[w] = Slots
       /\ \A s \in Slots : Marked(drafts[w][s])
       /\ published[w] = <<>> => \A s \in Slots : ~drafts[w][s].curated

\* What the assumption on the scenarios says of the entries.
Entries ==
  \A t \in Tasks :
    /\ entry[t].versions \in Seq(ToSet(entry[t].versions))
    /\ \A r \in entry[t].legacy :
         Lrecid[r] # NoWork => Lrecid[r] \in Works /\ published[Lrecid[r]] # <<>>
    /\ \A i \in entry[t].ids : i[1] \in {"cds", "inspire", "arxiv", "cdsrn", "apprn", "related"}

OwnerInv == Writers /\ SingleOwner /\ Versions /\ Drafts /\ Entries /\ FailedCreateLeavesNothing

\* The drafts of new versions are numbered, a task knows the number of the one it
\* opened, and the task that creates a record has that record's draft.
NumberOk(k) ==
  /\ k.target \in Nat
  /\ k.work \notin Works => k.target = 0
  /\ k.work \in Works => k.target <= opened[k.work]
  /\ k.pc \in {"sync", "community", "publish"} /\ published[k.work] = <<>>
       => k.target = opened[k.work]

Numbers == /\ opened \in [Works -> Nat]
           /\ \A t \in Tasks : NumberOk(task[t])

\* Only task t moves, and it keeps its shape.
Moves(t) ==
  /\ DOMAIN task' = Tasks /\ DOMAIN task'[t] = DOMAIN Idle
  /\ \A u \in Tasks \ {t} : task'[u] = task[u]

\* q is a state in which task t may go on with its plan.
Replanned(t, q) ==
  /\ task[t].pc \in {"update", "scan", "versions"}
  /\ DOMAIN q = DOMAIN Idle /\ q.pc \in {"open", "versions", "scan"}
  /\ q.work = task[t].work /\ q.ver = task[t].ver /\ q.op = task[t].op
  /\ q.pc = "open" => /\ q.from \in 1 .. Latest(q.work) /\ Marked(q.meta)
                      /\ q.slot \in {0, q.from}
  /\ q.pc = "scan" => Marked(q.read)
  /\ q.pc = "versions" \/ ~q.last =>
       Marked(q.read) /\ \A x \in DOMAIN q.existing : q.existing[x] \in 1 .. Latest(q.work)

\* What is published stays so, and only task t publishes a first version.
Grown ==
  \A w \in Works : /\ Latest(w) <= Latest(w)'
                   /\ published[w] # <<>> => published'[w] # <<>>
FirstBy(t) ==
  \A w \in Works : published[w] = <<>> /\ published'[w] # <<>> => w = task[t].work

\* A record that task t takes up is published, or nobody else's.
Takes(t) ==
  task'[t].work # task[t].work /\ task'[t].work \in Works =>
    \/ published'[task'[t].work] # <<>>
    \/ \A u \in Tasks : task[u].work # task'[t].work

\* Task t stops with no draft of a first version, unless it is lost.
Cleans(t) ==
  /\ task[t].pc # "done"
  /\ \A w \in Works :
       published'[w] = <<>> /\ drafts'[w][0] # NoDraft =>
         \/ task[t].work # w /\ drafts'[w][0] = drafts[w][0]
         \/ task'[t].work = w /\ (task'[t].pc # "done" \/ task'[t].op = "lost")

\* The fields of a task but its pc and its outcome are what they were.
Keeps(t) ==
  /\ task'[t].work = task[t].work /\ task'[t].ver = task[t].ver
  /\ task'[t].seen = task[t].seen /\ task'[t].slot = task[t].slot
  /\ task'[t].target = task[t].target /\ task'[t].read = task[t].read
  /\ task'[t].existing = task[t].existing /\ task'[t].from = task[t].from
  /\ task'[t].meta = task[t].meta /\ task'[t].last = task[t].last
  /\ task'[t].todo = task[t].todo

-----------------------------------------------------------------------------
(* What the steps do to the task                                           *)

\* A task stops where it is.
LEMMA Stopped ==
    ASSUME Writers, NEW t \in Tasks, NEW op, task' = Stop(t, op)
    PROVE  Moves(t) /\ Keeps(t) /\ task'[t].pc = "done" /\ task'[t].op = op
<1>1. DOMAIN task = Tasks /\ DOMAIN task[t] = DOMAIN Idle
  BY DEF Writers
<1>2. task' = [task EXCEPT ![t].pc = "done", ![t].op = op]
  BY DEF Stop
<1> QED
  BY <1>1, <1>2 DEF Moves, Keeps, Idle

\* A task goes on to the next call.
LEMMA Advanced ==
    ASSUME Writers, NEW t \in Tasks, NEW pc, task' = [task EXCEPT ![t].pc = pc]
    PROVE  Moves(t) /\ Keeps(t) /\ task'[t].pc = pc /\ task'[t].op = task[t].op
<1>1. DOMAIN task = Tasks /\ DOMAIN task[t] = DOMAIN Idle
  BY DEF Writers
<1> QED
  BY <1>1 DEF Moves, Keeps, Idle

\* The number of versions, and what each of them is.
LEMMA Lengths ==
    ASSUME Versions, NEW w \in Works
    PROVE  /\ Len(published[w]) \in Nat /\ Len(indexed[w]) \in Nat
           /\ published[w] # <<>> <=> Latest(w) \in 1 .. Latest(w)
           /\ indexed[w] # <<>> => Len(indexed[w]) \in 1 .. Latest(w)
           /\ \A n \in 1 .. Latest(w) :
                n # 0 /\ n \in Slots /\ published[w] # <<>> /\ Marked(published[w][n])
           /\ 0 \in Slots
<1>1. PICK P, I : published[w] \in Seq(P) /\ indexed[w] \in Seq(I)
  BY DEF Versions
<1>2. Len(published[w]) \in Nat /\ Len(indexed[w]) \in Nat
  BY <1>1
<1>3. /\ published[w] # <<>> <=> Len(published[w]) > 0
      /\ indexed[w] # <<>> <=> Len(indexed[w]) > 0
  BY <1>1, EmptySeq
<1>4. \A n \in 1 .. Latest(w) : published[w][n] \in ToSet(published[w])
  BY <1>1, <1>2 DEF ToSet, Latest
<1>5. \A n \in 1 .. Latest(w) : n # 0 /\ published[w] # <<>>
  BY <1>2, <1>3 DEF Latest
<1>6. 0 \in Slots /\ \A n \in 1 .. Latest(w) : n \in Slots
  <2>1. Len(published[w]) <= MaxVersions
    BY DEF Versions
  <2> QED
    BY <1>2, <2>1, WriterBounds DEF Slots, Latest
<1> QED
  BY <1>2, <1>3, <1>4, <1>5, <1>6 DEF Versions, Latest

\* Versions are only added.
LEMMA Longer ==
    ASSUME Versions, Versions', Grown, NEW w \in Works
    PROVE  \A n \in 1 .. Latest(w) : n \in 1 .. Latest(w)'
<1>1. Len(published[w]) \in Nat /\ Len(published'[w]) \in Nat
  <2>1. \E P, Q : published[w] \in Seq(P) /\ published'[w] \in Seq(Q)
    BY DEF Versions
  <2> QED
    BY <2>1
<1> QED
  BY <1>1 DEF Grown, Latest

\* What is said of a task that does not move stays true as versions are added.
LEMMA StillOk ==
    ASSUME NEW k, WriterOk(k), PlanOk(k), Versions, Versions', Grown,
           k.pc = "community" => published'[k.work] = <<>>
    PROVE  WriterOk(k)' /\ PlanOk(k)'
<1>2. \A w \in Works : \A n \in 1 .. Latest(w) : n \in 1 .. Latest(w)'
  BY Longer
<1>3. k.work \in Works /\ published'[k.work] = <<>> => published[k.work] = <<>>
  BY DEF Grown
<1>4. WriterOk(k)'
  <2>1. k.ver # 0 => k.work \in Works /\ k.ver \in 1 .. Latest(k.work)'
    BY <1>2 DEF WriterOk
  <2> QED
    BY <2>1, <1>3 DEF WriterOk
<1>5. PlanOk(k)'
  <2>1. k.pc = "versions" \/ ~k.last \/ k.pc = "open" => k.work \in Works
    BY DEF WriterOk
  <2>2. k.pc = "open" => k.from \in 1 .. Latest(k.work)'
    BY <2>1, <1>2 DEF PlanOk
  <2>3. k.pc = "versions" \/ ~k.last =>
          \A x \in DOMAIN k.existing : k.existing[x] \in 1 .. Latest(k.work)'
    BY <2>1, <1>2 DEF PlanOk
  <2> QED
    BY <2>2, <2>3 DEF PlanOk
<1> QED
  BY <1>4, <1>5

\* When task t moves, the other tasks keep their part of the invariant.
LEMMA WritersKept ==
    ASSUME Writers, SingleOwner, Versions, Versions', NEW t \in Tasks, Moves(t),
           Grown, FirstBy(t), WriterOk(task[t])', PlanOk(task[t])'
    PROVE  Writers'
<1>1. ASSUME NEW u \in Tasks \ {t}
      PROVE  WriterOk(task[u])' /\ PlanOk(task[u])' /\ DOMAIN task'[u] = DOMAIN Idle
  <2>1. PICK k : k = task[u]
    OBVIOUS
  <2>2. task'[u] = k /\ DOMAIN k = DOMAIN Idle /\ WriterOk(k) /\ PlanOk(k)
    BY <2>1 DEF Moves, Writers
  <2>3. k.pc = "community" => published'[k.work] = <<>>
    <3> SUFFICES ASSUME k.pc = "community", published'[k.work] # <<>> PROVE FALSE
      OBVIOUS
    <3>1. k.work \in Works /\ published[k.work] = <<>>
      BY <2>2 DEF WriterOk
    <3>2. k.work = task[t].work
      BY <3>1 DEF FirstBy
    <3> QED
      BY <3>1, <3>2, <2>1 DEF SingleOwner
  <2>4. WriterOk(k)' /\ PlanOk(k)'
    BY <2>2, <2>3, StillOk
  <2> QED
    BY <2>2, <2>4
<1> QED
  BY <1>1 DEF Writers, Moves

\* Only one task works on a record that is not published, also after a step of a
\* task.
LEMMA OwnerKept ==
    ASSUME SingleOwner, NEW t \in Tasks, Moves(t), Grown, Takes(t)
    PROVE  SingleOwner'
<1> SUFFICES ASSUME NEW u \in Tasks, NEW v \in Tasks, u # v, task'[u].work = task'[v].work,
                    task'[u].work \in Works, published'[task'[u].work] = <<>>
             PROVE  FALSE
  BY DEF SingleOwner
<1>1. published[task'[u].work] = <<>>
  BY DEF Grown
<1>2. CASE u # t /\ v # t
  BY <1>1, <1>2 DEF Moves, SingleOwner
<1>3. CASE task'[t].work = task[t].work
  BY <1>1, <1>3 DEF Moves, SingleOwner
<1>4. CASE task'[t].work # task[t].work /\ (u = t \/ v = t)
  BY <1>4 DEF Moves, Takes
<1> QED
  BY <1>2, <1>3, <1>4

\* Nothing is left behind by a task that cleans up.
LEMMA NothingLeft ==
    ASSUME FailedCreateLeavesNothing, NEW t \in Tasks, Moves(t), Grown, Cleans(t)
    PROVE  FailedCreateLeavesNothing'
<1> SUFFICES ASSUME NEW w \in Works, published'[w] = <<>>, drafts'[w][0] # NoDraft
             PROVE  \E u \in Tasks : task'[u].work = w
                                     /\ (task'[u].pc # "done" \/ task'[u].op = "lost")
  BY DEF FailedCreateLeavesNothing, HasDraft
<1>1. published[w] = <<>>
  BY DEF Grown
<1>2. CASE task'[t].work = w /\ (task'[t].pc # "done" \/ task'[t].op = "lost")
  BY <1>2
<1>3. CASE task[t].work # w /\ drafts'[w][0] = drafts[w][0]
  <2>1. PICK u \in Tasks : task[u].work = w /\ (task[u].pc # "done" \/ task[u].op = "lost")
    BY <1>1, <1>3 DEF FailedCreateLeavesNothing, HasDraft
  <2> QED
    BY <2>1, <1>3 DEF Moves
<1> QED
  BY <1>2, <1>3 DEF Cleans

\* A step of a task preserves the invariant when its own part and the records are
\* right afterwards.
LEMMA OwnerStep ==
    ASSUME OwnerInv, NEW t \in Tasks, Moves(t), Grown, FirstBy(t), Takes(t), Cleans(t),
           WriterOk(task[t])', PlanOk(task[t])', Versions', Drafts', entry' = entry
    PROVE  OwnerInv'
<1>1. Writers' /\ SingleOwner' /\ FailedCreateLeavesNothing'
  BY WritersKept, OwnerKept, NothingLeft DEF OwnerInv
<1>2. Entries'
  BY DEF OwnerInv, Entries, Grown
<1> QED
  BY <1>1, <1>2 DEF OwnerInv

\* So does a step that moves no task.
LEMMA OthersStep ==
    ASSUME OwnerInv, task' = task, Grown,
           \A w \in Works : published'[w] = <<>> => published[w] = <<>> /\ drafts'[w][0] = drafts[w][0],
           \A w \in Works : published[w] = <<>> => published'[w] = <<>>,
           Versions', Drafts', entry' = entry
    PROVE  OwnerInv'
<1>1. Writers'
  <2> SUFFICES ASSUME NEW u \in Tasks
               PROVE  WriterOk(task[u])' /\ PlanOk(task[u])'
    BY DEF OwnerInv, Writers
  <2>1. PICK k : k = task[u]
    OBVIOUS
  <2>2. WriterOk(k) /\ PlanOk(k)
    BY <2>1 DEF OwnerInv, Writers
  <2>3. k.pc = "community" => published'[k.work] = <<>>
    BY <2>2 DEF WriterOk
  <2>4. WriterOk(k)' /\ PlanOk(k)'
    BY <2>2, <2>3, StillOk DEF OwnerInv
  <2> QED
    BY <2>1, <2>4
<1>2. SingleOwner'
  BY DEF OwnerInv, SingleOwner
<1>3. FailedCreateLeavesNothing'
  BY DEF OwnerInv, FailedCreateLeavesNothing, HasDraft
<1>4. Entries'
  BY DEF OwnerInv, Entries, Grown
<1> QED
  BY <1>1, <1>2, <1>3, <1>4 DEF OwnerInv

-----------------------------------------------------------------------------
(* What the matcher answers                                                *)

\* A set of numbers that is not empty has a smallest one.
LEMMA Smallest ==
    ASSUME NEW S, S \subseteq Nat, S # {}
    PROVE  \E x \in S : \A y \in S : x <= y
<1> DEFINE R == OpToRel(<, Nat)
<1>1. IsWellFoundedOn(R, Nat)
  BY NatLessThanWellFounded
<1>2. \A x, y \in Nat : x < y <=> <<x, y>> \in R
  BY DEF OpToRel
<1> HIDE DEF R
<1>3. \E x \in S : \A y \in S : ~(<<y, x>> \in R)
  BY <1>1, WFMin
<1>4. PICK x \in S : \A y \in S : ~(y < x)
  BY <1>2, <1>3
<1> QED
  BY <1>4

\* When no filter decides, none has a hit.
LEMMA Undecided ==
    ASSUME NEW e, Decisive(e) = {}
    PROVE  \A i \in 1 .. 8 : Hits(e, Filters[i]) = {}
<1> DEFINE hitting == {i \in DOMAIN Filters : Hits(e, Filters[i]) # {}}
<1>1. DOMAIN Filters = 1 .. 8
  BY DEF Filters
<1>2. hitting \subseteq Nat
  BY <1>1
<1>3. CASE hitting = {}
  BY <1>1, <1>3
<1>4. CASE hitting # {}
  <2>1. Decisive(e) = Hits(e, Filters[Min(hitting)])
    BY <1>4 DEF Decisive
  <2>2. Min(hitting) \in hitting
    <3> HIDE DEF hitting
    <3> QED
      BY <1>2, <1>4, Smallest DEF Min
  <2> QED
    BY <2>1, <2>2
<1> QED
  BY <1>3, <1>4

\* What decides is in the index.
LEMMA Decided ==
    ASSUME NEW e, NEW w \in Decisive(e)
    PROVE  w \in Works /\ indexed[w] # <<>>
<1>1. \E f : w \in Hits(e, f)
  BY DEF Decisive
<1> QED
  BY <1>1 DEF Hits

\* When no filter has a hit, the index shows nothing under the entry's ids, but the
\* record it names by a version.
LEMMA NothingVisible ==
    ASSUME Entries, NEW t \in Tasks, Decisive(entry[t]) = {}
    PROVE  Visible(entry[t]) \subseteq NamedByVersion(entry[t])
<1> DEFINE e == entry[t]
<1>1. /\ Filters[1] = "parent" /\ Filters[2] = "cds" /\ Filters[3] = "doi"
      /\ Filters[4] = "inspire" /\ Filters[5] = "arxiv" /\ Filters[6] = "cdsrn"
      /\ Filters[7] = "apprn" /\ Filters[8] = "related"
  BY DEF Filters
<1>2. \A f \in {"parent", "cds", "doi", "inspire", "arxiv", "cdsrn", "apprn", "related"} :
        Hits(e, f) = {}
  <2>1. \A i \in 1 .. 8 : Hits(e, Filters[i]) = {}
    BY Undecided
  <2> QED
    BY <1>1, <2>1
<1> SUFFICES ASSUME NEW w \in Visible(e) PROVE w \in NamedByVersion(e)
  OBVIOUS
<1>3. w \in Works /\ indexed[w] # <<>>
  BY DEF Visible
<1>4. ASSUME w = e.parent
      PROVE  w \in NamedByVersion(e)
  <2>1. CASE e.versionId
    BY <1>4, <2>1 DEF NamedByVersion
  <2>2. CASE ~e.versionId
    <3>1. w \in Hits(e, "parent")
      BY <1>3, <1>4, <2>2 DEF Hits
    <3> QED
      BY <1>2, <3>1
  <2> QED
    BY <2>1, <2>2
<1>5. ASSUME e.doi.id \in {Last(indexed[w]).doi.id, ParentDoi[w]} \ {"none"}
      PROVE  FALSE
  <2>1. w \in Hits(e, "doi")
    BY <1>3, <1>5 DEF Hits
  <2> QED
    BY <1>2, <2>1
<1>6. ASSUME NEW i \in e.ids, i \in Last(indexed[w]).ids
      PROVE  FALSE
  <2>1. i[1] \in {"cds", "inspire", "arxiv", "cdsrn", "apprn", "related"}
    BY DEF Entries
  <2>2. i[2] \in Values(e, i[1]) \cap Values(Last(indexed[w]), i[1])
    BY <1>6 DEF Values
  <2>3. w \in Hits(e, i[1])
    BY <1>3, <2>1, <2>2 DEF Hits
  <2> QED
    BY <1>2, <2>1, <2>3
<1> QED
  BY <1>4, <1>5, <1>6 DEF Visible

\* An update is of a published version; a record is created when the index shows
\* nothing under the ids of the entry that the filters look for.
LEMMA Answers ==
    ASSUME OwnerInv, NEW t \in Tasks, NEW m, m = Match(entry[t])
    PROVE  /\ m.kind \in {"error", "ambiguous", "unmigrated", "update", "create"}
           /\ m.kind = "update" => m.work \in Works /\ m.ver \in 1 .. Latest(m.work)
           /\ m.kind = "create" => m.work = NoWork /\ m.ver = 0
                                 /\ Visible(entry[t]) \subseteq NamedByVersion(entry[t])
<1> DEFINE e == entry[t]
           known == e.legacy = {} \/ Migrated(e) # {}
           found == IF Migrated(e) # {} THEN Migrated(e) ELSE Decisive(e)
           w == CHOOSE x \in found : TRUE
           ver == IF Migrated(e) # {} THEN Latest(w) ELSE Len(indexed[w])
<1>1. \/ m = NoMatch(LegacyAnswer(e))
      \/ m = NoMatch("ambiguous")
      \/ m = NoMatch("create") /\ found = {}
      \/ m = [kind |-> "update", work |-> w, ver |-> ver] /\ found # {}
  <2>1. CASE ~known
    BY <2>1 DEF Match
  <2>2. CASE known /\ Cardinality(found) > 1
    BY <2>2 DEF Match
  <2>3. CASE known /\ found = {}
    BY <2>3 DEF Match
  <2>4. CASE known /\ ~(Cardinality(found) > 1) /\ found # {}
    BY <2>4 DEF Match
  <2> QED
    BY <2>1, <2>2, <2>3, <2>4
<1>2. LegacyAnswer(e) \in {"unmigrated", "error"}
  BY DEF LegacyAnswer
<1>3. CASE m = NoMatch("create") /\ found = {}
  <2>1. Decisive(e) = {}
    BY <1>3
  <2>2. Visible(entry[t]) \subseteq NamedByVersion(entry[t])
    BY <2>1, NothingVisible DEF OwnerInv
  <2> QED
    BY <1>3, <2>2 DEF NoMatch
<1>4. CASE m = [kind |-> "update", work |-> w, ver |-> ver] /\ found # {}
  <2>1. w \in found
    <3> HIDE DEF found
    <3> QED
      BY <1>4
  <2>2. CASE Migrated(e) # {}
    <3>1. w \in Migrated(e) /\ ver = Latest(w)
      BY <2>1, <2>2
    <3> HIDE DEF w, ver, found
    <3>2. w \in Works /\ published[w] # <<>>
      BY <3>1 DEF Migrated, OwnerInv, Entries
    <3>3. ver \in 1 .. Latest(w)
      BY <3>1, <3>2, Lengths DEF OwnerInv
    <3> QED
      BY <1>4, <3>2, <3>3
  <2>3. CASE Migrated(e) = {}
    <3>1. w \in Decisive(e) /\ ver = Len(indexed[w])
      BY <2>1, <2>3
    <3> HIDE DEF w, ver, found
    <3>2. w \in Works /\ indexed[w] # <<>>
      BY <3>1, Decided
    <3>3. ver \in 1 .. Latest(w)
      BY <3>1, <3>2, Lengths DEF OwnerInv
    <3> QED
      BY <1>4, <3>2, <3>3
  <2> QED
    BY <2>2, <2>3
<1>5. CASE m = NoMatch(LegacyAnswer(e)) \/ m = NoMatch("ambiguous")
  BY <1>2, <1>5 DEF NoMatch
<1> QED
  BY <1>1, <1>3, <1>4, <1>5

-----------------------------------------------------------------------------
(* The steps of a task                                                     *)

\* A step that changes no record needs only the task's own part, and no draft of
\* a first version where the task stops.
LEMMA QuietStep ==
    ASSUME OwnerInv, NEW t \in Tasks, Moves(t), task[t].pc # "done",
           published' = published, indexed' = indexed, drafts' = drafts, entry' = entry,
           Takes(t), WriterOk(task[t])', PlanOk(task[t])',
           task[t].work \in Works => task'[t].work = task[t].work,
           \/ task'[t].pc # "done" \/ task'[t].op = "lost"
           \/ task[t].work \in Works /\ published[task[t].work] = <<>>
                => drafts[task[t].work][0] = NoDraft
    PROVE  OwnerInv'
<1>1. Versions' /\ Drafts'
  BY DEF OwnerInv, Versions, Drafts
<1>2. Grown
  <2>1. \A w \in Works : Latest(w) \in Nat /\ Latest(w)' = Latest(w)
    BY Lengths DEF OwnerInv, Latest
  <2> QED
    BY <2>1 DEF Grown
<1>3. FirstBy(t)
  BY DEF FirstBy
<1>4. Cleans(t)
  BY DEF Cleans
<1> QED
  BY <1>1, <1>2, <1>3, <1>4, OwnerStep

\* A task that stops is right if it was.
LEMMA StoppedOk ==
    ASSUME OwnerInv, Versions', Grown, NEW t \in Tasks, Keeps(t),
           task'[t].pc = "done", task'[t].op = "create" => task[t].ver = 0
    PROVE  WriterOk(task[t])' /\ PlanOk(task[t])'
<1>1. PICK k, l : k = task[t] /\ l = task'[t]
  OBVIOUS
<1>2. WriterOk(k) /\ PlanOk(k)
  BY <1>1 DEF OwnerInv, Writers
<1>3. /\ l.pc = "done" /\ l.work = k.work /\ l.ver = k.ver /\ l.seen = k.seen
      /\ l.read = k.read /\ l.existing = k.existing /\ l.last = k.last
      /\ l.op = "create" => k.ver = 0
  BY <1>1 DEF Keeps
<1>4. k.ver # 0 => k.work \in Works /\ k.ver \in 1 .. Latest(k.work)
  BY <1>2 DEF WriterOk
<1>5. k.work \in Works => \A n \in 1 .. Latest(k.work) : n \in 1 .. Latest(k.work)'
  BY Longer DEF OwnerInv
<1>6. WriterOk(l)'
  BY <1>2, <1>3, <1>4, <1>5 DEF WriterOk
<1>7. ~k.last => /\ Marked(k.read) /\ k.work \in Works
                 /\ \A x \in DOMAIN k.existing : k.existing[x] \in 1 .. Latest(k.work)
  BY <1>2 DEF PlanOk, WriterOk
<1>8. PlanOk(l)'
  BY <1>3, <1>5, <1>7 DEF PlanOk
<1> QED
  BY <1>1, <1>6, <1>8

\* Stopping where no record changes.
LEMMA QuietStop ==
    ASSUME OwnerInv, NEW t \in Tasks, NEW op, op # "create", task' = Stop(t, op),
           task[t].pc # "done",
           published' = published, indexed' = indexed, drafts' = drafts, entry' = entry,
           task[t].work \in Works /\ published[task[t].work] = <<>>
             => drafts[task[t].work][0] = NoDraft
    PROVE  OwnerInv'
<1>1. Moves(t) /\ Keeps(t) /\ task'[t].pc = "done" /\ task'[t].op = op
  BY Stopped DEF OwnerInv
<1>2. Versions'
  BY DEF OwnerInv, Versions
<1>3. Grown
  <2>1. \A w \in Works : Latest(w) \in Nat /\ Latest(w)' = Latest(w)
    BY Lengths DEF OwnerInv, Latest
  <2> QED
    BY <2>1 DEF Grown
<1>4. WriterOk(task[t])' /\ PlanOk(task[t])'
  BY <1>1, <1>2, <1>3, StoppedOk
<1>5. Takes(t) /\ task'[t].work = task[t].work
  BY <1>1 DEF Keeps, Takes
<1> QED
  BY <1>1, <1>4, <1>5, QuietStep

\* Routing.
LEMMA OwnerRoute ==
    ASSUME OwnerInv, NEW t \in Tasks, Route(t)
    PROVE  OwnerInv'
<1>1. /\ published' = published /\ indexed' = indexed /\ drafts' = drafts /\ entry' = entry
      /\ task[t].pc = "route"
  BY DEF Route, records
<1>2. PICK m : m = Match(entry[t])
  OBVIOUS
<1>3. /\ m.kind \in {"error", "ambiguous", "unmigrated", "update", "create"}
      /\ m.kind = "update" => m.work \in Works /\ m.ver \in 1 .. Latest(m.work)
      /\ m.kind = "create" => m.work = NoWork /\ m.ver = 0
                                 /\ Visible(entry[t]) \subseteq NamedByVersion(entry[t])
  BY <1>2, Answers
<1>4. /\ DOMAIN task = Tasks /\ DOMAIN task[t] = DOMAIN Idle
      /\ WriterOk(task[t]) /\ PlanOk(task[t])
  BY DEF OwnerInv, Writers
<1>5. /\ task[t].work \notin Works /\ task[t].work = NoWork /\ task[t].ver = 0
      /\ task[t].slot = 0 /\ task[t].last /\ task[t].op # "create"
  BY <1>1, <1>4, WorksAssumption DEF WriterOk
<1>6. CASE m.kind \in {"error", "ambiguous", "unmigrated"}
  <2>1. task' = Stop(t, "none")
    BY <1>2, <1>6 DEF Route
  <2> QED
    BY <1>1, <1>5, <2>1, QuietStop
<1>7. CASE m.kind \in {"update", "create"}
  <2>1. task' = [task EXCEPT ![t].pc = m.kind, ![t].work = m.work, ![t].ver = m.ver,
                             ![t].seen = Visible(entry[t])]
    BY <1>2, <1>7 DEF Route
  <2>2. Moves(t)
    BY <1>4, <2>1 DEF Moves, Idle
  <2>3. /\ task'[t].pc = m.kind /\ task'[t].work = m.work /\ task'[t].ver = m.ver
        /\ task'[t].seen = Visible(entry[t]) /\ task'[t].slot = 0 /\ task'[t].last
        /\ task'[t].op # "create"
    BY <1>4, <1>5, <2>1 DEF Idle
  <2>4. Latest(m.work)' = Latest(m.work)
    BY <1>1 DEF Latest
  <2>5. m.kind = "update" => m.ver # 0
    BY <1>3, Lengths DEF OwnerInv
  <2>6. WriterOk(task[t])' /\ PlanOk(task[t])'
    BY <1>3, <1>7, <2>3, <2>4, <2>5 DEF WriterOk, PlanOk
  <2>7. Takes(t)
    <3>1. m.kind = "update" => published[m.work] # <<>>
      BY <1>3, Lengths DEF OwnerInv
    <3> QED
      BY <1>1, <1>3, <1>7, <2>3, <3>1, WorksAssumption DEF Takes
  <2> QED
    BY <1>1, <1>5, <1>7, <2>2, <2>3, <2>6, <2>7, QuietStep
<1> QED
  BY <1>3, <1>6, <1>7

\* The refusals.
LEMMA OwnerRefuse ==
    ASSUME OwnerInv, NEW t \in Tasks, RefuseUpdate(t) \/ RefuseCreate(t)
    PROVE  OwnerInv'
<1>1. /\ published' = published /\ indexed' = indexed /\ drafts' = drafts /\ entry' = entry
      /\ task[t].pc \in {"update", "create"} /\ task' = Stop(t, "none")
  BY DEF RefuseUpdate, RefuseCreate, records
<1>2. WriterOk(task[t])
  BY DEF OwnerInv, Writers
<1>3. task[t].work \in Works => published[task[t].work] # <<>>
  <2>1. CASE task[t].pc = "create"
    BY <1>2, <2>1, WorksAssumption DEF WriterOk
  <2>2. CASE task[t].pc = "update"
    <3>1. task[t].work \in Works /\ task[t].ver \in 1 .. Latest(task[t].work)
      BY <1>2, <2>2 DEF WriterOk
    <3> QED
      BY <3>1, Lengths DEF OwnerInv
  <2> QED
    BY <1>1, <2>1, <2>2
<1> QED
  BY <1>1, <1>3, QuietStop

\* A task that updates works on a version that is there.
LEMMA Updating ==
    ASSUME OwnerInv, NEW t \in Tasks, task[t].pc \in {"update", "scan", "versions", "open", "fill"}
    PROVE  /\ task[t].work \in Works /\ task[t].ver \in 1 .. Latest(task[t].work)
           /\ task[t].ver # 0 /\ published[task[t].work] # <<>>
           /\ task[t].op # "create"
           /\ Marked(published[task[t].work][task[t].ver])
<1>1. /\ task[t].work \in Works /\ task[t].ver \in 1 .. Latest(task[t].work)
      /\ task[t].op # "create"
  BY DEF OwnerInv, Writers, WriterOk
<1> QED
  BY <1>1, Lengths DEF OwnerInv

\* A task that has planned what it writes next.
LEMMA PlanTaken ==
    ASSUME OwnerInv, NEW t \in Tasks, NEW q, Replanned(t, q),
           task' = [task EXCEPT ![t] = q],
           published' = published, indexed' = indexed, drafts' = drafts, entry' = entry
    PROVE  OwnerInv'
<1> USE DEF Replanned
<1>1. task'[t] = q /\ Moves(t)
  BY DEF OwnerInv, Writers, Moves
<1>2. \A w : Latest(w)' = Latest(w)
  BY DEF Latest
<1>3. /\ q.work \in Works /\ q.ver \in 1 .. Latest(q.work) /\ q.ver # 0
      /\ published[q.work] # <<>> /\ q.op # "create"
      /\ q.pc = "open" => q.slot \in Slots
  BY Updating, Lengths DEF OwnerInv
<1>4. WriterOk(q)' /\ PlanOk(q)'
  BY <1>2, <1>3 DEF WriterOk, PlanOk
<1>5. WriterOk(task[t])' /\ PlanOk(task[t])'
  BY <1>1, <1>4
<1>6. Takes(t)
  BY <1>1 DEF Takes
<1> QED
  BY <1>1, <1>3, <1>5, <1>6, QuietStep

\* What a merge makes of a version says whether it was corrected.
LEMMA MergeMarked ==
    ASSUME NEW cur, Marked(cur), NEW e
    PROVE  Marked(Merge(cur, e))
  BY DEF Marked, Merge

\* Reading the record.
LEMMA OwnerRead ==
    ASSUME OwnerInv, NEW t \in Tasks, ReadAndMerge(t)
    PROVE  OwnerInv'
<1> DEFINE w == task[t].work
           cur == published[w][task[t].ver]
           new == Merge(cur, entry[t])
           read == [task EXCEPT ![t].read = cur]
<1>1. /\ published' = published /\ indexed' = indexed /\ drafts' = drafts /\ entry' = entry
      /\ task[t].pc = "update"
  BY DEF ReadAndMerge, records
<1>2. \/ task' = [read EXCEPT ![t].pc = "scan", ![t].todo = entry[t].versions]
      \/ task' = Stop(t, "none")
      \/ task' = [read EXCEPT ![t] = [Plan(t, "edit", task[t].ver, new, TRUE) EXCEPT !.read = cur]]
  BY DEF ReadAndMerge
<1>3. /\ DOMAIN task = Tasks /\ DOMAIN task[t] = DOMAIN Idle
      /\ WriterOk(task[t]) /\ PlanOk(task[t])
  BY DEF OwnerInv, Writers
<1>4. /\ w \in Works /\ task[t].ver \in 1 .. Latest(w) /\ published[w] # <<>> /\ Marked(cur)
  BY <1>1, Updating
<1>5. CASE task' = Stop(t, "none")
  BY <1>1, <1>4, <1>5, QuietStop
<1>6. CASE task' = [read EXCEPT ![t].pc = "scan", ![t].todo = entry[t].versions]
  <2> HIDE DEF cur
  <2>0. PICK scan :
          scan = [task[t] EXCEPT !.read = cur, !.pc = "scan", !.todo = entry[t].versions]
    OBVIOUS
  <2>1. task' = [task EXCEPT ![t] = scan]
    BY <1>3, <1>6, <2>0
  <2>2. /\ DOMAIN scan = DOMAIN Idle /\ scan.pc = "scan" /\ scan.work = task[t].work
        /\ scan.ver = task[t].ver /\ scan.op = task[t].op /\ scan.read = cur
        /\ scan.last = task[t].last /\ scan.existing = task[t].existing
    BY <1>3, <2>0 DEF Idle
  <2>3. ~scan.last => Marked(scan.read) /\ \A x \in DOMAIN scan.existing :
                        scan.existing[x] \in 1 .. Latest(scan.work)
    BY <1>3, <1>4, <2>2 DEF PlanOk
  <2>9. Replanned(t, scan)
    BY <1>1, <1>4, <2>2, <2>3 DEF Replanned
  <2> QED
    BY <1>1, <2>1, <2>9, PlanTaken
<1>7. CASE task' = [read EXCEPT ![t] = [Plan(t, "edit", task[t].ver, new, TRUE) EXCEPT !.read = cur]]
  <2>0. PICK plan, q : plan = Plan(t, "edit", task[t].ver, new, TRUE) /\ q = [plan EXCEPT !.read = cur]
    OBVIOUS
  <2>1. /\ DOMAIN plan = DOMAIN Idle
        /\ plan.pc = "open" /\ plan.from = task[t].ver /\ plan.meta = new /\ plan.last = TRUE
        /\ plan.work = task[t].work /\ plan.ver = task[t].ver
        /\ plan.op = task[t].op /\ plan.slot = task[t].ver
    BY <2>0, <1>3 DEF Plan, Idle
  <2>2. Marked(new)
    BY <1>4, MergeMarked
  <2> HIDE DEF new, cur
  <2>3. task' = [task EXCEPT ![t] = q]
    BY <1>3, <1>7, <2>0
  <2>4. /\ DOMAIN q = DOMAIN Idle
        /\ q.pc = "open" /\ q.from = task[t].ver /\ q.meta = new /\ q.last = TRUE
        /\ q.work = task[t].work /\ q.ver = task[t].ver
        /\ q.op = task[t].op /\ q.slot = q.from
    BY <2>0, <2>1 DEF Idle
  <2>9. Replanned(t, q)
    BY <1>1, <1>4, <2>2, <2>4 DEF Replanned
  <2> QED
    BY <1>1, <2>3, <2>9, PlanTaken
<1> QED
  BY <1>2, <1>5, <1>6, <1>7

\* Scanning the versions the index shows.
LEMMA OwnerScan ==
    ASSUME OwnerInv, NEW t \in Tasks, ScanVersions(t)
    PROVE  OwnerInv'
<1> DEFINE w == task[t].work
           shown == indexed[w]
           types == {shown[i].rtype : i \in DOMAIN shown}
<1>1. /\ published' = published /\ indexed' = indexed /\ drafts' = drafts /\ entry' = entry
      /\ task[t].pc = "scan"
  BY DEF ScanVersions, records
<1>2. PICK f \in [types -> DOMAIN shown] :
        task' = [task EXCEPT ![t].pc = "versions", ![t].existing = f]
  BY DEF ScanVersions
<1>3. /\ DOMAIN task = Tasks /\ DOMAIN task[t] = DOMAIN Idle /\ PlanOk(task[t])
  BY DEF OwnerInv, Writers
<1>4. w \in Works
  BY <1>1, Updating
<1>5. \A x \in DOMAIN f : f[x] \in 1 .. Latest(w)
  <2>1. PICK P, I : published[w] \in Seq(P) /\ indexed[w] \in Seq(I)
    BY <1>4 DEF OwnerInv, Versions
  <2>2. DOMAIN shown = 1 .. Len(shown) /\ Len(shown) \in Nat /\ Latest(w) \in Nat
    BY <2>1 DEF Latest
  <2>3. Len(shown) <= Latest(w)
    BY <1>4 DEF OwnerInv, Versions, Latest
  <2>4. \A x \in DOMAIN f : f[x] \in DOMAIN shown
    BY <1>2
  <2> HIDE DEF shown
  <2> QED
    BY <2>2, <2>3, <2>4
<1>0. PICK q : q = [task[t] EXCEPT !.pc = "versions", !.existing = f]
  OBVIOUS
<1>6. task' = [task EXCEPT ![t] = q]
  BY <1>0, <1>2, <1>3
<1>7. /\ DOMAIN q = DOMAIN Idle /\ q.pc = "versions" /\ q.work = task[t].work
      /\ q.ver = task[t].ver /\ q.op = task[t].op /\ q.read = task[t].read /\ q.existing = f
  BY <1>0, <1>3 DEF Idle
<1>8. Marked(q.read)
  BY <1>1, <1>3, <1>7 DEF PlanOk
<1>9. Replanned(t, q)
  BY <1>1, <1>5, <1>7, <1>8 DEF Replanned
<1> QED
  BY <1>1, <1>6, <1>9, PlanTaken

\* Planning a split version, or the record's own.
LEMMA OwnerPlan ==
    ASSUME OwnerInv, NEW t \in Tasks, NextVersion(t) \/ MainVersion(t)
    PROVE  OwnerInv'
<1>1. /\ published' = published /\ indexed' = indexed /\ drafts' = drafts /\ entry' = entry
      /\ task[t].pc = "versions"
  BY DEF NextVersion, MainVersion, records
<1>2. /\ DOMAIN task = Tasks /\ DOMAIN task[t] = DOMAIN Idle /\ PlanOk(task[t])
  BY DEF OwnerInv, Writers
<1>3. /\ Marked(task[t].read)
      /\ \A x \in DOMAIN task[t].existing : task[t].existing[x] \in 1 .. Latest(task[t].work)
  BY <1>1, <1>2 DEF PlanOk
<1>4. /\ task[t].work \in Works /\ task[t].ver \in 1 .. Latest(task[t].work)
      /\ published[task[t].work] # <<>>
  BY <1>1, Updating
<1>5. CASE NextVersion(t)
  <2> DEFINE v == Head(task[t].todo)
             old == IF v.rtype \in DOMAIN task[t].existing THEN task[t].existing[v.rtype]
                    ELSE task[t].ver
             from == old
             meta == Raw(v)
  <2>1. PICK kind : task' = [task EXCEPT ![t] = [Plan(t, kind, from, meta, FALSE)
                                                   EXCEPT !.todo = Tail(@)]]
    BY <1>5 DEF NextVersion
  <2>0. PICK plan, q : plan = Plan(t, kind, from, meta, FALSE) /\ q = [plan EXCEPT !.todo = Tail(@)]
    OBVIOUS
  <2>2. from \in 1 .. Latest(task[t].work)
    BY <1>3, <1>4
  <2>3. Marked(meta)
    BY DEF Raw, Marked
  <2> HIDE DEF from, meta
  <2>4. /\ DOMAIN plan = DOMAIN Idle
        /\ plan.pc = "open" /\ plan.from = from /\ plan.meta = meta /\ plan.last = FALSE
        /\ plan.work = task[t].work /\ plan.ver = task[t].ver /\ plan.op = task[t].op
        /\ plan.read = task[t].read /\ plan.existing = task[t].existing
        /\ plan.slot \in {0, from}
    BY <2>0, <1>2 DEF Plan, Idle
  <2>5. task' = [task EXCEPT ![t] = q]
    BY <2>0, <2>1
  <2>6. /\ DOMAIN q = DOMAIN Idle
        /\ q.pc = "open" /\ q.from = from /\ q.meta = meta /\ q.last = FALSE
        /\ q.work = task[t].work /\ q.ver = task[t].ver /\ q.op = task[t].op
        /\ q.read = task[t].read /\ q.existing = task[t].existing
        /\ q.slot \in {0, q.from}
    BY <2>0, <2>4 DEF Idle
  <2>9. Replanned(t, q)
    BY <1>1, <1>3, <2>2, <2>3, <2>6 DEF Replanned
  <2> QED
    BY <1>1, <2>5, <2>9, PlanTaken
<1>6. CASE MainVersion(t)
  <2> DEFINE from == Latest(task[t].work)
             meta == Merge(task[t].read, entry[t])
  <2>0. PICK q : q = Plan(t, "version", from, meta, TRUE)
    OBVIOUS
  <2>1. task' = [task EXCEPT ![t] = q]
    BY <2>0, <1>6 DEF MainVersion
  <2>2. from \in 1 .. Latest(task[t].work)
    BY <1>4, Lengths DEF OwnerInv
  <2>3. Marked(meta)
    BY <1>3, MergeMarked
  <2> HIDE DEF from, meta
  <2>4. /\ DOMAIN q = DOMAIN Idle
        /\ q.pc = "open" /\ q.from = from /\ q.meta = meta /\ q.last = TRUE
        /\ q.work = task[t].work /\ q.ver = task[t].ver /\ q.op = task[t].op /\ q.slot = 0
    BY <2>0, <1>2 DEF Plan, Idle
  <2>9. Replanned(t, q)
    BY <1>1, <2>2, <2>3, <2>4 DEF Replanned
  <2> QED
    BY <1>1, <2>1, <2>9, PlanTaken
<1> QED
  BY <1>5, <1>6

\* One draft changes.
LEMMA DraftSet ==
    ASSUME Drafts, Grown, NEW w \in Works, NEW s, NEW d,
           SetDraft(w, s, d),
           s \in Slots => Marked(d) /\ (published[w] = <<>> => ~d.curated)
    PROVE  /\ Drafts' /\ 0 \in Slots
           /\ \A v \in Works \ {w} : drafts'[v] = drafts[v]
           /\ s = 0 => drafts'[w][0] = d
           /\ s # 0 => drafts'[w][0] = drafts[w][0]
<1>1. drafts' = [drafts EXCEPT ![w][s] = d]
  BY DEF SetDraft
<1>2. 0 \in Slots
  BY WriterBounds DEF Slots
<1>3. DOMAIN drafts = Works /\ DOMAIN drafts[w] = Slots
  BY DEF Drafts
<1>4. DOMAIN drafts' = Works /\ \A v \in Works \ {w} : drafts'[v] = drafts[v]
  BY <1>1, <1>3
<1>5. drafts'[w] = [drafts[w] EXCEPT ![s] = d]
  BY <1>1, <1>3
<1>6. /\ DOMAIN drafts'[w] = Slots
      /\ \A r \in Slots : (drafts'[w][r] = d /\ s \in Slots) \/ drafts'[w][r] = drafts[w][r]
  BY <1>3, <1>5
<1>7. Drafts'
  <2>1. \A v \in Works : published'[v] = <<>> => published[v] = <<>>
    BY DEF Grown
  <2> QED
    BY <1>4, <1>6, <2>1 DEF Drafts
<1>8. s = 0 => drafts'[w][0] = d
  BY <1>2, <1>3, <1>5
<1>9. s # 0 => drafts'[w][0] = drafts[w][0]
  BY <1>2, <1>3, <1>5
<1> QED
  BY <1>2, <1>4, <1>7, <1>8, <1>9

\* A step that changes one draft, of the record the task works on, and nothing
\* that is published.
LEMMA DraftStep ==
    ASSUME OwnerInv, NEW t \in Tasks, Moves(t), task[t].pc # "done",
           published' = published, indexed' = indexed, entry' = entry,
           task'[t].work \in Works, NEW s, NEW d, SetDraft(task'[t].work, s, d),
           s \in Slots => Marked(d) /\ (published[task'[t].work] = <<>> => ~d.curated),
           \/ task'[t].pc # "done"
           \/ s = 0 /\ d = NoDraft
           \/ published[task'[t].work] # <<>>,
           Takes(t), WriterOk(task[t])', PlanOk(task[t])',
           task[t].work \in Works => task'[t].work = task[t].work
    PROVE  OwnerInv'
<1>1. PICK w \in Works : w = task'[t].work
  OBVIOUS
<1>2. Grown
  <2>1. \A v \in Works : Latest(v) \in Nat /\ Latest(v)' = Latest(v)
    BY Lengths DEF OwnerInv, Latest
  <2> QED
    BY <2>1 DEF Grown
<1>3. /\ Drafts' /\ 0 \in Slots
      /\ \A v \in Works \ {w} : drafts'[v] = drafts[v]
      /\ s = 0 => drafts'[w][0] = d
      /\ s # 0 => drafts'[w][0] = drafts[w][0]
  BY <1>1, <1>2, DraftSet DEF OwnerInv
<1>4. Versions'
  BY DEF OwnerInv, Versions
<1>5. FirstBy(t)
  BY DEF FirstBy
<1>6. Cleans(t)
  BY <1>1, <1>3 DEF Cleans
<1> QED
  BY <1>1, <1>3, <1>4, <1>2, <1>5, <1>6, OwnerStep

\* A task that goes on to a call, with the same plan.
LEMMA AdvancedOk ==
    ASSUME OwnerInv, published' = published, NEW t \in Tasks, Keeps(t),
           task'[t].op = task[t].op,
           task[t].pc \in {"open", "fill", "sync", "community", "publish"},
           task'[t].pc \in {"fill", "sync", "community", "publish"},
           task[t].work \in Works,
           task'[t].pc = "fill" => task[t].ver # 0 /\ Marked(task[t].meta),
           task[t].pc # "open" /\ published[task[t].work] = <<>> => task[t].slot = 0,
           task[t].pc = "open" => task'[t].pc = "fill",
           task'[t].pc = "community" => published[task[t].work] = <<>>
    PROVE  WriterOk(task[t])' /\ PlanOk(task[t])'
<1>1. PICK k, l : k = task[t] /\ l = task'[t]
  OBVIOUS
<1>2. WriterOk(k) /\ PlanOk(k)
  BY <1>1 DEF OwnerInv, Writers
<1>3. /\ l.work = k.work /\ l.ver = k.ver /\ l.seen = k.seen /\ l.read = k.read
      /\ l.existing = k.existing /\ l.last = k.last /\ l.slot = k.slot /\ l.target = k.target
      /\ l.meta = k.meta /\ l.op = k.op /\ l.pc \in {"fill", "sync", "community", "publish"}
  BY <1>1 DEF Keeps
<1>4. Latest(k.work)' = Latest(k.work)
  BY DEF Latest
<1>5. WriterOk(l)'
  BY <1>1, <1>2, <1>3, <1>4 DEF WriterOk
<1>6. PlanOk(l)'
  BY <1>1, <1>2, <1>3, <1>4 DEF PlanOk
<1> QED
  BY <1>1, <1>5, <1>6

\* Opening a draft: that of the version the plan is based on, if none is open.
LEMMA OwnerOpen ==
    ASSUME OwnerInv, NEW t \in Tasks, OpenDraft(t)
    PROVE  OwnerInv'
<1> DEFINE w == task[t].work
           s == task[t].slot
           source == published[w][task[t].from]
<1>1. /\ published' = published /\ indexed' = indexed /\ entry' = entry /\ task[t].pc = "open"
      /\ task' = [task EXCEPT ![t].pc = "fill", ![t].target = opened'[w]]
  BY DEF OpenDraft
<1>2. /\ DOMAIN task = Tasks /\ DOMAIN task[t] = DOMAIN Idle
      /\ WriterOk(task[t]) /\ PlanOk(task[t])
  BY DEF OwnerInv, Writers
<1>3. /\ w \in Works /\ task[t].ver \in 1 .. Latest(w) /\ task[t].ver # 0
      /\ published[w] # <<>> /\ task[t].op # "create"
  BY <1>1, Updating
<1>4. Marked(source) /\ Marked(task[t].meta)
  BY <1>1, <1>2, <1>3, Lengths DEF PlanOk, OwnerInv
<1>5. Moves(t)
  BY <1>1, <1>2 DEF Moves, Idle
<1>6. /\ task'[t].pc = "fill" /\ task'[t].work = w /\ task'[t].ver = task[t].ver
      /\ task'[t].op = task[t].op /\ task'[t].meta = task[t].meta
      /\ task'[t].read = task[t].read /\ task'[t].existing = task[t].existing
      /\ task'[t].last = task[t].last
  BY <1>1, <1>2 DEF Idle
<1>7. \A x : Latest(x)' = Latest(x)
  BY <1>1 DEF Latest
<1>8. WriterOk(task[t])'
  <2>1. task'[t].slot \in Slots
    BY <1>1, <1>2 DEF WriterOk, Idle
  <2> QED
    BY <1>3, <1>6, <1>7, <2>1 DEF WriterOk
<1>9. PlanOk(task[t])'
  BY <1>2, <1>4, <1>6, <1>7 DEF PlanOk
<1>10. Takes(t)
  BY <1>6 DEF Takes
<1>11. CASE drafts' = drafts
  BY <1>1, <1>5, <1>6, <1>8, <1>9, <1>10, <1>11, QuietStep
<1>12. CASE drafts' # drafts
  <2>1. PICK d : /\ SetDraft(w, s, d)
                 /\ d = [source EXCEPT !.files = {}, !.doi = NoDoi] \/ d = source
    BY <1>12 DEF OpenDraft
  <2>2. Marked(d)
    <3> HIDE DEF source
    <3> QED
      BY <1>4, <2>1 DEF Marked
  <2>3. SetDraft(task'[t].work, s, d)
    BY <1>6, <2>1
  <2> HIDE DEF source, s
  <2> QED
    BY <1>1, <1>3, <1>5, <1>6, <1>8, <1>9, <1>10, <2>2, <2>3, DraftStep
<1> QED
  BY <1>11, <1>12

\* Filling it.
LEMMA OwnerFill ==
    ASSUME OwnerInv, NEW t \in Tasks, FillDraft(t)
    PROVE  OwnerInv'
<1> DEFINE w == task[t].work
           s == task[t].slot
           meta == task[t].meta
<1>1. /\ published' = published /\ indexed' = indexed /\ entry' = entry /\ task[t].pc = "fill"
      /\ task' = [task EXCEPT ![t].pc = "sync"]
      /\ \E f, i : SetDraft(w, s, [meta EXCEPT !.files = f, !.doi = i])
  BY DEF FillDraft
<1>2. Moves(t) /\ Keeps(t) /\ task'[t].pc = "sync" /\ task'[t].op = task[t].op
  BY <1>1, Advanced DEF OwnerInv
<1>3. w \in Works /\ published[w] # <<>>
  BY <1>1, Updating
<1>4. PICK f, i : SetDraft(w, s, [meta EXCEPT !.files = f, !.doi = i])
  BY <1>1
<1>5. Marked([meta EXCEPT !.files = f, !.doi = i])
  <2>1. Marked(meta)
    BY <1>1 DEF OwnerInv, Writers, PlanOk
  <2> HIDE DEF meta
  <2> QED
    BY <2>1 DEF Marked
<1>6. PICK d : d = [meta EXCEPT !.files = f, !.doi = i]
  OBVIOUS
<1>7. WriterOk(task[t])' /\ PlanOk(task[t])'
  BY <1>1, <1>2, <1>3, AdvancedOk
<1>8. Takes(t) /\ task'[t].work = w
  BY <1>2 DEF Keeps, Takes
<1>9. Marked(d) /\ SetDraft(task'[t].work, s, d)
  BY <1>4, <1>5, <1>6, <1>8
<1> HIDE DEF s
<1> QED
  BY <1>1, <1>2, <1>3, <1>7, <1>8, <1>9, DraftStep

\* A task at work on a record, published or its own.
LEMMA Working ==
    ASSUME OwnerInv, NEW t \in Tasks, task[t].pc \in {"sync", "community", "publish"}
    PROVE  /\ task[t].work \in Works /\ task[t].op # "create"
           /\ published[task[t].work] = <<>> => task[t].slot = 0
           /\ task[t].pc = "community" => published[task[t].work] = <<>>
<1>1. WriterOk(task[t])
  BY DEF OwnerInv, Writers
<1> QED
  BY <1>1 DEF WriterOk

\* No draft is as good as a draft nobody corrected.
LEMMA NoDraftMarked == Marked(NoDraft) /\ ~NoDraft.curated
  BY DEF Marked, NoDraft

\* Synchronising the files of the draft.
LEMMA OwnerSync ==
    ASSUME OwnerInv, NEW t \in Tasks, SyncFiles(t)
    PROVE  OwnerInv'
<1> DEFINE w == task[t].work
           s == task[t].slot
<1>1. /\ published' = published /\ indexed' = indexed /\ entry' = entry /\ task[t].pc = "sync"
      /\ SetDraft(w, s, [drafts[w][s] EXCEPT !.files = Synced(t)])
  BY DEF SyncFiles
<1>2. PICK pc : /\ task' = [task EXCEPT ![t].pc = pc]
                /\ pc = IF published[w] = <<>> THEN "community" ELSE "publish"
  BY DEF SyncFiles
<1>3. Moves(t) /\ Keeps(t) /\ task'[t].pc = pc /\ task'[t].op = task[t].op
  <2>1. Writers /\ task' = [task EXCEPT ![t].pc = pc]
    BY <1>2 DEF OwnerInv
  <2> QED
    BY <2>1, Advanced
<1>4. w \in Works /\ (published[w] = <<>> => s = 0)
  BY <1>1, Working
<1>5. PICK d : d = [drafts[w][s] EXCEPT !.files = Synced(t)]
  OBVIOUS
<1>6. s \in Slots => Marked(d) /\ (published[w] = <<>> => ~d.curated)
  <2>1. s \in Slots => Marked(drafts[w][s]) /\ (published[w] = <<>> => ~drafts[w][s].curated)
    BY <1>4 DEF OwnerInv, Drafts
  <2> QED
    BY <1>5, <2>1 DEF Marked
<1>7. WriterOk(task[t])' /\ PlanOk(task[t])'
  BY <1>1, <1>2, <1>3, <1>4, AdvancedOk
<1>8. Takes(t) /\ task'[t].work = w
  BY <1>3 DEF Keeps, Takes
<1>9. SetDraft(task'[t].work, s, d)
  BY <1>1, <1>5, <1>8
<1>10. task'[t].pc # "done" /\ task[t].pc # "done"
  BY <1>1, <1>2, <1>3
<1>11. /\ task'[t].work \in Works
       /\ s \in Slots => Marked(d) /\ (published[task'[t].work] = <<>> => ~d.curated)
  BY <1>4, <1>6, <1>8
<1> HIDE DEF s
<1> QED
  BY <1>1, <1>3, <1>7, <1>8, <1>9, <1>10, <1>11, DraftStep

\* A task stops and its draft is deleted, or left where a record is published.
LEMMA DraftStop ==
    ASSUME OwnerInv, NEW t \in Tasks, task' = Stop(t, "none"), task[t].pc # "done",
           published' = published, indexed' = indexed, entry' = entry,
           task[t].work \in Works, NEW s, NEW d, SetDraft(task[t].work, s, d),
           s \in Slots => Marked(d) /\ (published[task[t].work] = <<>> => ~d.curated),
           (s = 0 /\ d = NoDraft) \/ published[task[t].work] # <<>>
    PROVE  OwnerInv'
<1>1. Moves(t) /\ Keeps(t) /\ task'[t].pc = "done" /\ task'[t].op = "none"
  BY Stopped DEF OwnerInv
<1>2. Versions'
  BY DEF OwnerInv, Versions
<1>3. Grown
  <2>1. \A w \in Works : Latest(w) \in Nat /\ Latest(w)' = Latest(w)
    BY Lengths DEF OwnerInv, Latest
  <2> QED
    BY <2>1 DEF Grown
<1>4. WriterOk(task[t])' /\ PlanOk(task[t])'
  BY <1>1, <1>2, <1>3, StoppedOk
<1>5. Takes(t) /\ task'[t].work = task[t].work
  BY <1>1 DEF Keeps, Takes
<1>6. SetDraft(task'[t].work, s, d)
  BY <1>5
<1> QED
  BY <1>1, <1>4, <1>5, <1>6, DraftStep

\* A failed synchronisation, publication or joining of the community.
LEMMA OwnerFailure ==
    ASSUME OwnerInv, NEW t \in Tasks, SyncFails(t) \/ PublishFails(t) \/ AddCommunityFails(t)
    PROVE  OwnerInv'
<1> DEFINE w == task[t].work
           s == task[t].slot
<1>1. /\ published' = published /\ indexed' = indexed /\ entry' = entry
      /\ task[t].pc \in {"sync", "community", "publish"} /\ task' = Stop(t, "none")
  BY DEF SyncFails, PublishFails, AddCommunityFails
<1>2. w \in Works /\ (published[w] = <<>> => s = 0)
      /\ (task[t].pc = "community" => published[w] = <<>>)
  BY <1>1, Working
<1>3. CASE SetDraft(w, s, NoDraft)
  BY <1>1, <1>2, <1>3, DraftStop, NoDraftMarked
<1>4. CASE published[w] # <<>> /\ SyncFails(t)
  <2>1. CASE drafts' = drafts
    BY <1>1, <1>4, <2>1, QuietStop
  <2>2. ASSUME NEW f, SetDraft(w, s, [drafts[w][s] EXCEPT !.files = f])
        PROVE  OwnerInv'
    <3>1. PICK d : d = [drafts[w][s] EXCEPT !.files = f]
      OBVIOUS
    <3>2. s \in Slots => Marked(d)
      <4>1. s \in Slots => Marked(drafts[w][s])
        BY <1>2 DEF OwnerInv, Drafts
      <4> QED
        BY <3>1, <4>1 DEF Marked
    <3> QED
      BY <1>1, <1>2, <1>4, <2>2, <3>1, <3>2, DraftStop
  <2>3. drafts' = drafts \/ \E f : SetDraft(w, s, [drafts[w][s] EXCEPT !.files = f])
    BY <1>4 DEF SyncFails
  <2> QED
    BY <2>1, <2>2, <2>3
<1>5. SetDraft(w, s, NoDraft) \/ (published[w] # <<>> /\ SyncFails(t))
  <2>1. CASE SyncFails(t)
    <3>1. published[w] = <<>> => SetDraft(w, s, NoDraft)
      BY <2>1 DEF SyncFails, DropDraft
    <3> QED
      BY <2>1, <3>1
  <2>2. CASE PublishFails(t)
    BY <2>2 DEF PublishFails, DropDraft
  <2>3. CASE AddCommunityFails(t)
    <3>1. SetDraft(w, 0, NoDraft) /\ task[t].pc = "community"
      BY <2>3 DEF AddCommunityFails, DropDraft
    <3>2. s = 0
      BY <1>2, <3>1
    <3> QED
      BY <3>1, <3>2 DEF SetDraft
  <2> QED
    BY <2>1, <2>2, <2>3
<1> QED
  BY <1>3, <1>4, <1>5

\* A call that raises: where a record is not published, its draft is gone.
LEMMA OwnerCallFails ==
    ASSUME OwnerInv, Numbers, NEW t \in Tasks, CallFails(t)
    PROVE  OwnerInv'
<1> DEFINE w == task[t].work
<1>1. /\ published' = published /\ indexed' = indexed /\ drafts' = drafts /\ entry' = entry
      /\ task' = Stop(t, "none")
      /\ \/ task[t].pc \in {"open", "fill"}
         \/ task[t].pc \in {"sync", "publish"} /\ ~Holds(t)
  BY DEF CallFails
<1>2. w \in Works /\ published[w] = <<>> => drafts[w][0] = NoDraft
  <2>1. CASE task[t].pc \in {"open", "fill"}
    BY <2>1, Updating
  <2>2. CASE task[t].pc \in {"sync", "publish"} /\ ~Holds(t)
    <3>1. published[w] = <<>> => task[t].slot = 0
      BY <2>2, Working
    <3>2. published[w] = <<>> => task[t].target = opened[w]
      BY <2>2 DEF Numbers, NumberOk
    <3> QED
      BY <2>2, <3>1, <3>2, WorksAssumption DEF Holds, HasDraft
  <2> QED
    BY <1>1, <2>1, <2>2
<1> QED
  BY <1>1, <1>2, QuietStop

\* Joining the community.
LEMMA OwnerCommunity ==
    ASSUME OwnerInv, NEW t \in Tasks, AddCommunity(t)
    PROVE  OwnerInv'
<1>1. /\ published' = published /\ indexed' = indexed /\ drafts' = drafts /\ entry' = entry
      /\ task[t].pc = "community" /\ task' = [task EXCEPT ![t].pc = "publish"]
  BY DEF AddCommunity
<1>2. Moves(t) /\ Keeps(t) /\ task'[t].pc = "publish" /\ task'[t].op = task[t].op
  BY <1>1, Advanced DEF OwnerInv
<1>3. task[t].work \in Works
      /\ (published[task[t].work] = <<>> => task[t].slot = 0)
  BY <1>1, Working
<1>4. WriterOk(task[t])' /\ PlanOk(task[t])'
  BY <1>1, <1>2, <1>3, AdvancedOk
<1>5. Takes(t) /\ task'[t].work = task[t].work
  BY <1>2 DEF Keeps, Takes
<1> QED
  BY <1>1, <1>2, <1>4, <1>5, QuietStep

\* A lost worker leaves its draft, and is known to be lost.
LEMMA OwnerCrash ==
    ASSUME OwnerInv, NEW t \in Tasks, Crash(t)
    PROVE  OwnerInv'
<1>1. /\ published' = published /\ indexed' = indexed /\ drafts' = drafts /\ entry' = entry
      /\ task[t].pc # "done" /\ task' = Stop(t, "lost")
  BY DEF Crash, Stop
<1>2. Moves(t) /\ Keeps(t) /\ task'[t].pc = "done" /\ task'[t].op = "lost"
  BY <1>1, Stopped DEF OwnerInv
<1>3. Versions'
  BY <1>1 DEF OwnerInv, Versions
<1>4. Grown
  <2>1. \A w \in Works : Latest(w) \in Nat /\ Latest(w)' = Latest(w)
    BY <1>1, Lengths DEF OwnerInv, Latest
  <2> QED
    BY <1>1, <2>1 DEF Grown
<1>5. WriterOk(task[t])' /\ PlanOk(task[t])'
  BY <1>2, <1>3, <1>4, StoppedOk
<1>6. Takes(t) /\ task'[t].work = task[t].work
  BY <1>2 DEF Keeps, Takes
<1> QED
  BY <1>1, <1>2, <1>5, <1>6, QuietStep

\* A sequence is one over its own members.
LEMMA OwnMembers ==
    ASSUME NEW S, NEW v \in Seq(S)
    PROVE  v \in Seq(ToSet(v))
<1>1. DOMAIN v = 1 .. Len(v) /\ Len(v) \in Nat /\ v \in [1 .. Len(v) -> S]
  BY LenProperties
<1>2. \A i \in 1 .. Len(v) : v[i] \in ToSet(v)
  BY <1>1 DEF ToSet
<1> HIDE DEF ToSet
<1>3. v \in [1 .. Len(v) -> ToSet(v)]
  BY <1>1, <1>2
<1> QED
  BY <1>1, <1>3, IsASeq

\* A version is added at the end.
LEMMA VersionAdded ==
    ASSUME NEW S, NEW v \in Seq(S), NEW d, NEW u, u = Append(v, d)
    PROVE  /\ u \in Seq(ToSet(u)) /\ Len(u) = Len(v) + 1 /\ Len(v) \in Nat /\ u # <<>>
           /\ ToSet(u) \subseteq ToSet(v) \cup {d}
<1> DEFINE T == S \cup {d}
<1>1. v \in Seq(T)
  <2>1. DOMAIN v = 1 .. Len(v) /\ Len(v) \in Nat /\ v \in [1 .. Len(v) -> S]
    BY LenProperties
  <2>2. v \in [1 .. Len(v) -> T]
    BY <2>1
  <2> HIDE DEF T
  <2> QED
    BY <2>1, <2>2, IsASeq
<1>2. d \in T
  OBVIOUS
<1> HIDE DEF T
<1>3. u \in Seq(T) /\ Len(u) = Len(v) + 1 /\ Len(v) \in Nat
      /\ \A i \in 1 .. Len(u) : u[i] = IF i <= Len(v) THEN v[i] ELSE d
  BY <1>1, <1>2
<1>4. u \in Seq(ToSet(u))
  BY <1>3, OwnMembers
<1>5. u # <<>>
  BY <1>3
<1>6. DOMAIN u = 1 .. Len(u) /\ DOMAIN v = 1 .. Len(v)
  BY <1>1, <1>3, LenProperties
<1>7. ToSet(u) \subseteq ToSet(v) \cup {d}
  <2> SUFFICES ASSUME NEW i \in DOMAIN u PROVE u[i] \in ToSet(v) \cup {d}
    BY DEF ToSet
  <2>1. CASE i <= Len(v)
    BY <1>3, <1>6, <2>1 DEF ToSet
  <2>2. CASE ~(i <= Len(v))
    BY <1>3, <1>6, <2>2
  <2> QED
    BY <2>1, <2>2
<1> QED
  BY <1>3, <1>4, <1>5, <1>7

\* A version is replaced.
LEMMA VersionReplaced ==
    ASSUME NEW S, NEW v \in Seq(S), NEW d, NEW u \in [DOMAIN v -> S \cup {d}],
           \A j \in DOMAIN v : u[j] \in {v[j], d}
    PROVE  /\ u \in Seq(ToSet(u)) /\ Len(u) = Len(v) /\ Len(v) \in Nat
           /\ v = <<>> => u = <<>>
           /\ v # <<>> => u # <<>>
           /\ ToSet(u) \subseteq ToSet(v) \cup {d}
<1> DEFINE T == S \cup {d}
<1>1. DOMAIN v = 1 .. Len(v) /\ Len(v) \in Nat
  BY LenProperties
<1>2. PICK n \in Nat : n = Len(v) /\ DOMAIN v = 1 .. n
  BY <1>1
<1>3. u \in [1 .. n -> T] /\ DOMAIN u = 1 .. n
  BY <1>2
<1>4. u \in Seq(T)
  <2> HIDE DEF T
  <2> QED
    BY <1>3, IsASeq
<1>5. Len(u) = n
  <2>1. DOMAIN u = 1 .. Len(u) /\ Len(u) \in Nat
    BY <1>4, LenProperties
  <2> QED
    BY <1>3, <2>1
<1>6. u \in Seq(ToSet(u))
  BY <1>4, OwnMembers
<1>7. (v = <<>> <=> Len(v) = 0) /\ (u = <<>> <=> Len(u) = 0)
  BY <1>4, EmptySeq
<1>8. ToSet(u) \subseteq ToSet(v) \cup {d}
  BY <1>2, <1>3 DEF ToSet
<1> QED
  BY <1>2, <1>5, <1>6, <1>7, <1>8

\* The versions of one record change: one is added or one is replaced.
LEMMA Republished ==
    ASSUME Versions, NEW w \in Works, NEW d, Marked(d), indexed' = indexed, NEW u,
           \/ u = Append(published[w], d) /\ Latest(w) < MaxVersions
           \/ \E i : u = [published[w] EXCEPT ![i] = d],
           DOMAIN published' = Works, published'[w] = u,
           \A x \in Works \ {w} : published'[x] = published[x]
    PROVE  /\ Versions' /\ Grown
           /\ \/ u = Append(published[w], d) /\ published'[w] # <<>>
              \/ published[w] = <<>> => published'[w] = <<>>
<1>1. published'[w] = u /\ DOMAIN published' = Works
      /\ \A x \in Works \ {w} : published'[x] = published[x]
  OBVIOUS
<1>2. PICK v : v = published[w]
  OBVIOUS
<1>3. v \in Seq(ToSet(v)) /\ \A x \in ToSet(v) : Marked(x)
  BY <1>2 DEF Versions
<1>4. /\ u \in Seq(ToSet(u)) /\ Len(v) <= Len(u) /\ Len(u) \in Nat /\ Len(v) \in Nat
      /\ Len(u) <= MaxVersions
      /\ v # <<>> => u # <<>>
      /\ \/ u = Append(v, d) /\ u # <<>>
         \/ v = <<>> => u = <<>>
      /\ ToSet(u) \subseteq ToSet(v) \cup {d}
  <2>1. CASE u = Append(v, d) /\ Latest(w) < MaxVersions
    <3>1. /\ u \in Seq(ToSet(u)) /\ Len(u) = Len(v) + 1 /\ Len(v) \in Nat /\ u # <<>>
          /\ ToSet(u) \subseteq ToSet(v) \cup {d}
      BY <1>3, <2>1, VersionAdded
    <3>2. Len(v) <= Len(u) /\ Len(u) \in Nat /\ Len(u) <= MaxVersions
      BY <1>2, <2>1, <3>1, WriterBounds DEF Latest
    <3> QED
      BY <2>1, <3>1, <3>2
  <2>2. CASE \E i : u = [v EXCEPT ![i] = d]
    <3>1. PICK i : u = [v EXCEPT ![i] = d]
      BY <2>2
    <3>2. /\ u \in Seq(ToSet(u)) /\ Len(u) = Len(v) /\ Len(v) \in Nat
          /\ v = <<>> => u = <<>>
          /\ v # <<>> => u # <<>>
          /\ ToSet(u) \subseteq ToSet(v) \cup {d}
      <4>1. PICK S : S = ToSet(v)
        OBVIOUS
      <4>2. v \in Seq(S)
        BY <1>3, <4>1
      <4>3. \A j \in DOMAIN v : v[j] \in S
        BY <4>1 DEF ToSet
      <4>4. u \in [DOMAIN v -> S \cup {d}]
        BY <3>1, <4>2, <4>3, LenProperties
      <4>5. \A j \in DOMAIN v : u[j] \in {v[j], d}
        BY <3>1, <4>2, LenProperties
      <4> QED
        BY ONLY <4>2, <4>4, <4>5, VersionReplaced
    <3>3. Len(v) <= Len(u) /\ Len(u) \in Nat /\ Len(u) <= MaxVersions
      <4>1. Len(v) <= MaxVersions
        BY <1>2 DEF Versions
      <4> QED
        BY <3>2, <4>1
    <3> QED
      BY <2>2, <3>2, <3>3
  <2> QED
    BY <1>2, <2>1, <2>2
<1>5. \A x \in ToSet(u) : Marked(x)
  BY <1>3, <1>4
<1>6. ASSUME NEW x \in Works
      PROVE  /\ published'[x] \in Seq(ToSet(published'[x])) /\ Len(indexed[x]) <= Len(published'[x])
             /\ Len(published'[x]) <= MaxVersions
             /\ \A y \in ToSet(published'[x]) : Marked(y)
             /\ Len(published[x]) <= Len(published'[x])
             /\ published[x] # <<>> => published'[x] # <<>>
  <2>1. CASE x = w
    <3>1. Len(indexed[w]) \in Nat /\ Len(indexed[w]) <= Len(v)
      BY <1>2, Lengths DEF Versions
    <3>2. Len(indexed[w]) <= Len(u)
      BY <1>4, <3>1
    <3> QED
      BY <1>1, <1>2, <1>4, <1>5, <2>1, <3>2
  <2>2. CASE x # w
    <3>1. published'[x] = published[x]
      BY <1>1, <2>2
    <3>2. Len(published[x]) \in Nat
      BY Lengths
    <3> QED
      BY <3>1, <3>2 DEF Versions
  <2> QED
    BY <2>1, <2>2
<1>7. Versions'
  BY <1>1, <1>6 DEF Versions
<1>8. Grown
  BY <1>6 DEF Grown, Latest
<1> QED
  BY <1>1, <1>2, <1>4, <1>7, <1>8

\* What is published when a task publishes.
LEMMA Publication ==
    ASSUME OwnerInv, NEW t \in Tasks, Publish(t)
    PROVE  /\ Versions' /\ Grown
           /\ \A x \in Works \ {task[t].work} : published'[x] = published[x]
           /\ task[t].slot = 0 => published'[task[t].work] # <<>>
           /\ published'[task[t].work] =
                IF task[t].slot = 0
                THEN Append(published[task[t].work], Release(drafts[task[t].work][task[t].slot]))
                ELSE [published[task[t].work] EXCEPT
                        ![task[t].slot] = Release(drafts[task[t].work][task[t].slot])]
<1> DEFINE w == task[t].work
           s == task[t].slot
<1>1. PICK d : d = Release(drafts[w][s])
  OBVIOUS
<1>2. /\ task[t].pc = "publish" /\ indexed' = indexed /\ entry' = entry
      /\ SetDraft(w, s, NoDraft)
      /\ s = 0 => Latest(w) < MaxVersions
      /\ published' = [published EXCEPT ![w] =
                         IF s = 0 THEN Append(@, d) ELSE [@ EXCEPT ![s] = d]]
      /\ task' = IF task[t].ver = 0 THEN Stop(t, "create")
                 ELSE IF task[t].last THEN Stop(t, "update")
                 ELSE [task EXCEPT ![t].pc = "versions"]
  BY <1>1 DEF Publish, DropDraft
<1>3. w \in Works /\ (published[w] = <<>> => s = 0) /\ task[t].op # "create"
  BY <1>2, Working
<1>4. DOMAIN task = Tasks /\ WriterOk(task[t]) /\ PlanOk(task[t])
  BY DEF OwnerInv, Writers
<1>5. PICK u : u = IF s = 0 THEN Append(published[w], d) ELSE [published[w] EXCEPT ![s] = d]
  OBVIOUS
<1>6. /\ DOMAIN published' = Works /\ published'[w] = u
      /\ \A x \in Works \ {w} : published'[x] = published[x]
  BY <1>2, <1>5, <1>3 DEF OwnerInv, Versions
<1>7. Marked(d)
  <2>1. Marked(drafts[w][s])
    BY <1>2, <1>3, <1>4 DEF WriterOk, OwnerInv, Drafts
  <2> QED
    BY <1>1, <2>1 DEF Marked, Release
<1>8. /\ Versions' /\ Grown
      /\ \A x \in Works \ {w} : published'[x] = published[x]
      /\ s = 0 => published'[w] # <<>>
  <2>1. CASE s = 0
    <3>1. u = Append(published[w], d) /\ Latest(w) < MaxVersions
      BY <1>2, <1>5, <2>1
    <3>2. Versions' /\ Grown
      <4>1. Versions /\ indexed' = indexed /\ w \in Works
        BY <1>2, <1>3 DEF OwnerInv
      <4> QED
        BY <1>6, <1>7, <3>1, <4>1, Republished
    <3>3. published'[w] # <<>>
      <4>1. published[w] \in Seq(ToSet(published[w])) /\ DOMAIN published = Works
        BY <1>3 DEF OwnerInv, Versions
      <4>2. u # <<>>
        BY <3>1, <4>1, VersionAdded
      <4> QED
        BY <1>3, <1>6, <4>1, <4>2
    <3> QED
      BY <1>6, <3>2, <3>3
  <2>2. CASE s # 0
    <3>1. \E i : u = [published[w] EXCEPT ![i] = d]
      BY <1>5, <2>2
    <3> QED
      BY <1>2, <1>3, <1>6, <1>7, <2>2, <3>1, Republished DEF OwnerInv
  <2> QED
    BY <2>1, <2>2
<1> QED
  BY <1>1, <1>5, <1>6, <1>8

\* Publishing: a new version, or an edited one.
LEMMA OwnerPublish ==
    ASSUME OwnerInv, NEW t \in Tasks, Publish(t)
    PROVE  OwnerInv'
<1> DEFINE w == task[t].work
           s == task[t].slot
<1>1. PICK d : d = Release(drafts[w][s])
  OBVIOUS
<1>2. /\ task[t].pc = "publish" /\ indexed' = indexed /\ entry' = entry
      /\ SetDraft(w, s, NoDraft)
      /\ s = 0 => Latest(w) < MaxVersions
      /\ published' = [published EXCEPT ![w] =
                         IF s = 0 THEN Append(@, d) ELSE [@ EXCEPT ![s] = d]]
      /\ task' = IF task[t].ver = 0 THEN Stop(t, "create")
                 ELSE IF task[t].last THEN Stop(t, "update")
                 ELSE [task EXCEPT ![t].pc = "versions"]
  BY <1>1 DEF Publish, DropDraft
<1>3. w \in Works /\ (published[w] = <<>> => s = 0) /\ task[t].op # "create"
  BY <1>2, Working
<1>4. DOMAIN task = Tasks /\ WriterOk(task[t]) /\ PlanOk(task[t])
  BY DEF OwnerInv, Writers
<1>8. /\ Versions' /\ Grown
      /\ \A x \in Works \ {w} : published'[x] = published[x]
      /\ s = 0 => published'[w] # <<>>
  BY Publication
<1>9. published'[w] # <<>>
  BY <1>3, <1>8 DEF Grown
<1>10. /\ Drafts' /\ \A v \in Works \ {w} : drafts'[v] = drafts[v]
  BY <1>2, <1>3, <1>8, DraftSet, NoDraftMarked DEF OwnerInv
<1>11. Moves(t) /\ Keeps(t) /\ WriterOk(task[t])' /\ PlanOk(task[t])'
  <2>1. ASSUME NEW op, op \in {"create", "update"}, op = "create" => task[t].ver = 0, task' = Stop(t, op)
        PROVE  Moves(t) /\ Keeps(t) /\ WriterOk(task[t])' /\ PlanOk(task[t])'
    <3>1. Moves(t) /\ Keeps(t) /\ task'[t].pc = "done" /\ task'[t].op = op
      BY <2>1, Stopped DEF OwnerInv
    <3> QED
      BY <1>8, <2>1, <3>1, StoppedOk
  <2>2. CASE task[t].ver # 0 /\ ~task[t].last /\ task' = [task EXCEPT ![t].pc = "versions"]
    <3>1. Moves(t) /\ Keeps(t) /\ task'[t].pc = "versions" /\ task'[t].op = task[t].op
      BY <2>2, Advanced DEF OwnerInv
    <3>2. PICK k, l : k = task[t] /\ l = task'[t]
      OBVIOUS
    <3>3. /\ l.pc = "versions" /\ l.work = k.work /\ l.ver = k.ver /\ l.seen = k.seen
          /\ l.read = k.read /\ l.existing = k.existing /\ l.last = k.last /\ l.op # "create"
      BY <1>3, <3>1, <3>2 DEF Keeps
    <3>4. k.ver # 0 /\ k.work \in Works /\ k.ver \in 1 .. Latest(k.work)
          /\ WriterOk(k) /\ PlanOk(k) /\ ~k.last
      BY <1>4, <2>2, <3>2 DEF WriterOk
    <3>5. \A n \in 1 .. Latest(k.work) : n \in 1 .. Latest(k.work)'
      BY <1>8, <3>4, Longer DEF OwnerInv
    <3>6. WriterOk(l)'
      BY <3>3, <3>4, <3>5 DEF WriterOk
    <3>7. PlanOk(l)'
      BY <3>3, <3>4, <3>5 DEF PlanOk
    <3> QED
      BY <3>1, <3>2, <3>6, <3>7
  <2> QED
    BY <1>2, <2>1, <2>2
<1>12. Takes(t)
  BY <1>11 DEF Keeps, Takes
<1>13. FirstBy(t)
  BY <1>8 DEF FirstBy
<1>14. Cleans(t)
  BY <1>2, <1>3, <1>9, <1>10 DEF Cleans
<1> QED
  BY <1>2, <1>8, <1>10, <1>11, <1>12, <1>13, <1>14, OwnerStep

\* Creating a record: nobody else has it.
LEMMA OwnerCreate ==
    ASSUME OwnerInv, NEW t \in Tasks, CreateDraft(t)
    PROVE  OwnerInv'
<1> DEFINE e == entry[t]
           ids == {w \in Works : Unused(w) /\ (sandbox /\ e.parent # NoWork => w = e.parent)}
           least == CHOOSE x \in ids : \A y \in ids : x <= y
<1>1. /\ published' = published /\ indexed' = indexed /\ entry' = entry
      /\ task[t].pc = "create" /\ ids # {}
      /\ SetDraft(least, 0, [Raw(e) EXCEPT !.files = {}])
      /\ task' = [task EXCEPT ![t].pc = "sync", ![t].work = least,
                              ![t].target = opened'[least], ![t].meta = Raw(e)]
  BY DEF CreateDraft
<1>2. least \in ids
  <2>1. ids \subseteq Nat
    BY WorksAssumption
  <2> HIDE DEF ids
  <2> QED
    BY <1>1, <2>1, Smallest
<1>3. PICK w \in Works : w = least /\ Unused(w)
  BY <1>2
<1> HIDE DEF least, ids
<1>4. /\ DOMAIN task = Tasks /\ DOMAIN task[t] = DOMAIN Idle
      /\ WriterOk(task[t]) /\ PlanOk(task[t])
  BY DEF OwnerInv, Writers
<1>5. task[t].work = NoWork /\ task[t].ver = 0 /\ task[t].slot = 0 /\ task[t].last
      /\ task[t].op # "create"
  BY <1>1, <1>4 DEF WriterOk
<1>6. /\ published[w] = <<>> /\ \A u \in Tasks : task[u].work # w
  BY <1>3 DEF Unused
<1>7. Moves(t)
  BY <1>1, <1>4 DEF Moves, Idle
<1>8. /\ task'[t].pc = "sync" /\ task'[t].work = w /\ task'[t].ver = 0 /\ task'[t].slot = 0
      /\ task'[t].last /\ task'[t].op # "create"
  BY <1>1, <1>3, <1>4, <1>5 DEF Idle
<1>9. 0 \in Slots
  BY WriterBounds DEF Slots
<1>10. WriterOk(task[t])' /\ PlanOk(task[t])'
  BY <1>8, <1>9 DEF WriterOk, PlanOk
<1>11. Takes(t)
  BY <1>6, <1>8 DEF Takes
<1>12. PICK d : d = [Raw(e) EXCEPT !.files = {}]
  OBVIOUS
<1>13. Marked(d) /\ ~d.curated
  BY <1>12 DEF Marked, Raw
<1>14. SetDraft(task'[t].work, 0, d)
  BY <1>1, <1>3, <1>8, <1>12
<1>15. task[t].work \notin Works
  BY <1>5, WorksAssumption
<1> QED
  BY <1>1, <1>7, <1>8, <1>10, <1>11, <1>13, <1>14, <1>15, DraftStep

-----------------------------------------------------------------------------
(* The index and the curators                                              *)

\* What is published when a curator publishes a correction.
LEMMA Correction ==
    ASSUME OwnerInv, NEW w \in Works, NEW s \in Slots, CuratorPublish(w, s)
    PROVE  /\ Versions' /\ Grown /\ s # 0
           /\ \A x \in Works \ {w} : published'[x] = published[x]
           /\ published[w] = <<>> => published'[w] = <<>>
           /\ published'[w] = [published[w] EXCEPT ![s] = Release(drafts[w][s])]
<1>1. PICK d, u : d = Release(drafts[w][s]) /\ u = [published[w] EXCEPT ![s] = d]
  OBVIOUS
<1>2. /\ published' = [published EXCEPT ![w][s] = d] /\ indexed' = indexed /\ s # 0
  BY <1>1 DEF CuratorPublish
<1>3. /\ DOMAIN published' = Works /\ published'[w] = u
      /\ \A x \in Works \ {w} : published'[x] = published[x]
  BY <1>1, <1>2 DEF OwnerInv, Versions
<1>4. Marked(d)
  <2>1. Marked(drafts[w][s])
    BY DEF OwnerInv, Drafts
  <2> QED
    BY <1>1, <2>1 DEF Marked, Release
<1>5. \E i : u = [published[w] EXCEPT ![i] = d]
  BY <1>1
<1>6. Versions' /\ Grown
  BY <1>2, <1>3, <1>4, <1>5, Republished DEF OwnerInv
<1>7. published[w] = <<>> => published'[w] = <<>>
  BY <1>1, <1>3, NothingToEdit
<1> QED
  BY <1>1, <1>2, <1>3, <1>6, <1>7

\* The index catches up with a record, or a curator drafts, publishes or discards a
\* correction of one that is published.
LEMMA OwnerOthers ==
    ASSUME OwnerInv, NEW w \in Works,
           \/ Refresh(w) \/ CuratorEdit(w)
           \/ \E s \in Slots : CuratorPublish(w, s) \/ CuratorDiscard(w, s)
    PROVE  OwnerInv'
<1>1. CASE Refresh(w)
  <2>1. /\ published' = published /\ drafts' = drafts /\ entry' = entry /\ task' = task
        /\ indexed' = [indexed EXCEPT ![w] = published[w]]
    BY <1>1 DEF Refresh
  <2>2. Drafts'
    BY <2>1 DEF OwnerInv, Drafts
  <2>3. Versions'
    <3>1. \A x \in Works : Len(published[x]) \in Nat
      BY Lengths DEF OwnerInv
    <3> QED
      BY <2>1, <3>1 DEF OwnerInv, Versions
  <2>4. Grown
    <3>1. \A v \in Works : Latest(v) \in Nat /\ Latest(v)' = Latest(v)
      BY <2>1, Lengths DEF OwnerInv, Latest
    <3> QED
      BY <2>1, <3>1 DEF Grown
  <2> QED
    BY <2>1, <2>2, <2>3, <2>4, OthersStep
<1>2. CASE CuratorEdit(w)
  <2> DEFINE s == Latest(w)
  <2>1. /\ published' = published /\ indexed' = indexed /\ entry' = entry /\ task' = task
        /\ s > 0
        /\ SetDraft(w, s, [(IF HasDraft(w, s) THEN drafts[w][s] ELSE published[w][s])
                             EXCEPT !.curated = TRUE])
    BY <1>2 DEF CuratorEdit
  <2>2. s \in 1 .. Latest(w) /\ published[w] # <<>> /\ s # 0 /\ s \in Slots
        /\ Marked(published[w][s])
    <3>1. Latest(w) \in Nat
      BY Lengths DEF OwnerInv, Latest
    <3> QED
      BY <2>1, <3>1, Lengths DEF OwnerInv
  <2>3. PICK d : d = [(IF HasDraft(w, s) THEN drafts[w][s] ELSE published[w][s])
                        EXCEPT !.curated = TRUE]
    OBVIOUS
  <2>4. Marked(d)
    <3>1. Marked(drafts[w][s])
      BY <2>2 DEF OwnerInv, Drafts
    <3> QED
      BY <2>2, <2>3, <3>1 DEF Marked
  <2>5. Versions'
    BY <2>1 DEF OwnerInv, Versions
  <2>6. Grown
    <3>1. \A v \in Works : Latest(v) \in Nat /\ Latest(v)' = Latest(v)
      BY <2>1, Lengths DEF OwnerInv, Latest
    <3> QED
      BY <2>1, <3>1 DEF Grown
  <2>7. SetDraft(w, s, d)
    BY <2>1, <2>3
  <2>8. Drafts' /\ \A v \in Works : drafts'[v][0] = drafts[v][0]
    <3> HIDE DEF s
    <3> QED
      BY <2>2, <2>4, <2>6, <2>7, DraftSet DEF OwnerInv
  <2> QED
    BY <2>1, <2>5, <2>6, <2>8, OthersStep
<1>3. ASSUME NEW s \in Slots, CuratorPublish(w, s)
      PROVE  OwnerInv'
  <2>1. /\ entry' = entry /\ task' = task /\ SetDraft(w, s, NoDraft)
    BY <1>3 DEF CuratorPublish, DropDraft
  <2>2. /\ Versions' /\ Grown /\ s # 0
        /\ \A x \in Works \ {w} : published'[x] = published[x]
        /\ published[w] = <<>> => published'[w] = <<>>
    BY <1>3, Correction
  <2>3. Drafts' /\ \A v \in Works : drafts'[v][0] = drafts[v][0]
    BY <2>1, <2>2, DraftSet, NoDraftMarked DEF OwnerInv
  <2> QED
    BY <2>1, <2>2, <2>3, OthersStep DEF Grown
<1>4. ASSUME NEW s \in Slots, CuratorDiscard(w, s)
      PROVE  OwnerInv'
  <2>1. /\ published' = published /\ indexed' = indexed /\ entry' = entry /\ task' = task
        /\ published[w] # <<>> /\ SetDraft(w, s, NoDraft)
    BY <1>4 DEF CuratorDiscard, DropDraft
  <2>2. Versions'
    BY <2>1 DEF OwnerInv, Versions
  <2>3. Grown
    <3>1. \A v \in Works : Latest(v) \in Nat /\ Latest(v)' = Latest(v)
      BY <2>1, Lengths DEF OwnerInv, Latest
    <3> QED
      BY <2>1, <3>1 DEF Grown
  <2>4. Drafts' /\ \A v \in Works \ {w} : drafts'[v] = drafts[v]
    BY <2>1, <2>3, DraftSet, NoDraftMarked DEF OwnerInv
  <2> QED
    BY <2>1, <2>2, <2>3, <2>4, OthersStep
<1> QED
  BY <1>1, <1>2, <1>3, <1>4

-----------------------------------------------------------------------------
(* The numbers of the drafts                                               *)

\* Planning leaves the record and the draft a task has.
LEMMA PlanMoves ==
    ASSUME OwnerInv, NEW t \in Tasks,
           ReadAndMerge(t) \/ ScanVersions(t) \/ NextVersion(t) \/ MainVersion(t)
    PROVE  /\ Moves(t) /\ UNCHANGED records
           /\ task[t].pc \in {"update", "scan", "versions"}
           /\ task'[t].pc \in {"done", "scan", "versions", "open"}
           /\ task'[t].work = task[t].work /\ task'[t].target = task[t].target
           /\ task'[t].ver = task[t].ver
<1>1. DOMAIN task = Tasks /\ DOMAIN task[t] = DOMAIN Idle
  BY DEF OwnerInv, Writers
<1>2. UNCHANGED records /\ task[t].pc \in {"update", "scan", "versions"}
  BY DEF ReadAndMerge, ScanVersions, NextVersion, MainVersion
<1>3. ASSUME NEW k, NEW f, NEW m, NEW l
      PROVE  /\ DOMAIN Plan(t, k, f, m, l) = DOMAIN Idle /\ Plan(t, k, f, m, l).pc = "open"
             /\ Plan(t, k, f, m, l).work = task[t].work
             /\ Plan(t, k, f, m, l).target = task[t].target
             /\ Plan(t, k, f, m, l).ver = task[t].ver
  BY <1>1 DEF Plan, Idle
<1>4. ASSUME NEW q, task' = [task EXCEPT ![t] = q], DOMAIN q = DOMAIN Idle,
             q.pc \in {"scan", "versions", "open"}, q.work = task[t].work,
             q.target = task[t].target, q.ver = task[t].ver
      PROVE  /\ Moves(t) /\ task'[t].pc \in {"done", "scan", "versions", "open"}
             /\ task'[t].work = task[t].work /\ task'[t].target = task[t].target
             /\ task'[t].ver = task[t].ver
  <2>1. task'[t] = q
    BY <1>1, <1>4
  <2> QED
    BY <1>1, <1>4, <2>1 DEF Moves
<1>5. CASE ReadAndMerge(t)
  <2>1. PICK cur, new, versions :
          \/ task' = [task EXCEPT ![t].read = cur, ![t].pc = "scan", ![t].todo = versions]
          \/ task' = Stop(t, "none")
          \/ task' = [[task EXCEPT ![t].read = cur] EXCEPT
                        ![t] = [Plan(t, "edit", task[t].ver, new, TRUE) EXCEPT !.read = cur]]
    BY <1>5 DEF ReadAndMerge
  <2>2. CASE task' = Stop(t, "none")
    BY <1>2, <2>2, Stopped DEF OwnerInv, Keeps
  <2>3. CASE task' = [task EXCEPT ![t].read = cur, ![t].pc = "scan", ![t].todo = versions]
    <3>1. PICK q : q = [task[t] EXCEPT !.read = cur, !.pc = "scan", !.todo = versions]
      OBVIOUS
    <3>2. task' = [task EXCEPT ![t] = q]
      BY <1>1, <2>3, <3>1
    <3>3. /\ DOMAIN q = DOMAIN Idle /\ q.pc = "scan" /\ q.work = task[t].work
          /\ q.target = task[t].target /\ q.ver = task[t].ver
      BY <1>1, <3>1 DEF Idle
    <3> QED
      BY <1>2, <1>4, <3>2, <3>3
  <2>4. CASE task' = [[task EXCEPT ![t].read = cur] EXCEPT
                        ![t] = [Plan(t, "edit", task[t].ver, new, TRUE) EXCEPT !.read = cur]]
    <3>0. PICK plan : plan = Plan(t, "edit", task[t].ver, new, TRUE)
      OBVIOUS
    <3>1. PICK q : q = [plan EXCEPT !.read = cur]
      OBVIOUS
    <3>2. task' = [task EXCEPT ![t] = q]
      BY <1>1, <2>4, <3>0, <3>1
    <3>3. /\ DOMAIN plan = DOMAIN Idle /\ plan.pc = "open" /\ plan.work = task[t].work
          /\ plan.target = task[t].target /\ plan.ver = task[t].ver
      BY <1>1, <3>0 DEF Plan, Idle
    <3>4. /\ DOMAIN q = DOMAIN Idle /\ q.pc = "open" /\ q.work = task[t].work
          /\ q.target = task[t].target /\ q.ver = task[t].ver
      BY <3>1, <3>3 DEF Idle
    <3> QED
      BY <1>2, <1>4, <3>2, <3>4
  <2> QED
    BY <2>1, <2>2, <2>3, <2>4
<1>6. CASE ScanVersions(t)
  <2>1. PICK f : task' = [task EXCEPT ![t].pc = "versions", ![t].existing = f]
    BY <1>6 DEF ScanVersions
  <2> QED
    BY <1>1, <1>2, <2>1 DEF Moves, Idle
<1>7. CASE NextVersion(t)
  <2>1. PICK k, f, m : task' = [task EXCEPT ![t] = [Plan(t, k, f, m, FALSE)
                                                      EXCEPT !.todo = Tail(@)]]
    BY <1>7 DEF NextVersion
  <2>2. PICK plan : plan = Plan(t, k, f, m, FALSE)
    OBVIOUS
  <2>3. PICK q : q = [plan EXCEPT !.todo = Tail(@)]
    OBVIOUS
  <2>4. /\ DOMAIN plan = DOMAIN Idle /\ plan.pc = "open" /\ plan.work = task[t].work
        /\ plan.target = task[t].target /\ plan.ver = task[t].ver
    BY <1>3, <2>2
  <2>5. /\ DOMAIN q = DOMAIN Idle /\ q.pc = "open" /\ q.work = task[t].work
        /\ q.target = task[t].target /\ q.ver = task[t].ver
    BY <2>3, <2>4 DEF Idle
  <2>6. task' = [task EXCEPT ![t] = q]
    BY <2>1, <2>2, <2>3
  <2> QED
    BY <1>2, <1>4, <2>5, <2>6
<1>8. CASE MainVersion(t)
  <2>1. PICK f, m : task' = [task EXCEPT ![t] = Plan(t, "version", f, m, TRUE)]
    BY <1>8 DEF MainVersion
  <2>2. PICK q : q = Plan(t, "version", f, m, TRUE)
    OBVIOUS
  <2>3. /\ DOMAIN q = DOMAIN Idle /\ q.pc = "open" /\ q.work = task[t].work
        /\ q.target = task[t].target /\ q.ver = task[t].ver
    BY <1>3, <2>2
  <2>4. task' = [task EXCEPT ![t] = q]
    BY <2>1, <2>2
  <2> QED
    BY <1>2, <1>4, <2>3, <2>4
<1> QED
  BY <1>5, <1>6, <1>7, <1>8

\* Routing gives a task that has no draft its record.
LEMMA RouteMoves ==
    ASSUME OwnerInv, NEW t \in Tasks, Route(t)
    PROVE  /\ Moves(t) /\ UNCHANGED records /\ task[t].pc = "route"
           /\ task[t].work \notin Works
           /\ task'[t].pc \in {"done", "update", "create"}
           /\ task'[t].work \in Works => task'[t].pc = "update"
           /\ task'[t].target = task[t].target /\ task'[t].todo = task[t].todo
           /\ task'[t].read = task[t].read /\ task'[t].last = task[t].last
           /\ task'[t].from = task[t].from
<1>1. DOMAIN task = Tasks /\ DOMAIN task[t] = DOMAIN Idle
  BY DEF OwnerInv, Writers
<1>2. PICK m : m = Match(entry[t])
  OBVIOUS
<1>3. /\ m.kind \in {"error", "ambiguous", "unmigrated", "update", "create"}
      /\ m.kind = "create" => m.work = NoWork
  BY <1>2, Answers
<1>4. UNCHANGED records /\ task[t].pc = "route" /\ task[t].work \notin Works
  BY WorksAssumption DEF Route, OwnerInv, Writers, WriterOk
<1>5. \/ task' = Stop(t, "none")
      \/ /\ m.kind \in {"update", "create"}
         /\ task' = [task EXCEPT ![t].pc = m.kind, ![t].work = m.work, ![t].ver = m.ver,
                                 ![t].seen = Visible(entry[t])]
  BY <1>2, <1>3 DEF Route
<1>6. CASE task' = Stop(t, "none")
  BY <1>4, <1>6, Stopped DEF OwnerInv, Keeps
<1>7. CASE task' # Stop(t, "none")
  BY <1>1, <1>3, <1>4, <1>5, <1>7, WorksAssumption DEF Moves, Idle
<1> QED
  BY <1>6, <1>7

\* A task that stops keeps what it was working on.
LEMMA FailureMoves ==
    ASSUME OwnerInv, NEW t \in Tasks,
           \/ RefuseUpdate(t) \/ RefuseCreate(t) \/ SyncFails(t) \/ PublishFails(t)
           \/ CallFails(t) \/ AddCommunityFails(t) \/ Crash(t)
    PROVE  /\ Moves(t) /\ Keeps(t) /\ task'[t].pc = "done" /\ task[t].pc # "done"
           /\ published' = published /\ opened' = opened /\ entry' = entry
<1>1. PICK op : task' = Stop(t, op)
  BY DEF RefuseUpdate, RefuseCreate, SyncFails, PublishFails, CallFails, AddCommunityFails, Crash,
         Stop
<1>2. /\ published' = published /\ opened' = opened /\ entry' = entry /\ task[t].pc # "done"
  BY DEF RefuseUpdate, RefuseCreate, SyncFails, PublishFails, CallFails, AddCommunityFails, Crash,
         records
<1> QED
  BY <1>1, <1>2, Stopped DEF OwnerInv

\* A task at a draft goes on to the next call.
LEMMA CallMoves ==
    ASSUME OwnerInv, NEW t \in Tasks, FillDraft(t) \/ SyncFiles(t) \/ AddCommunity(t)
    PROVE  /\ Moves(t) /\ Keeps(t) /\ task[t].work \in Works
           /\ published' = published /\ opened' = opened /\ entry' = entry
           /\ abandoned' = abandoned /\ shared' = shared
           /\ task[t].pc = "fill" => published[task[t].work] # <<>>
           /\ \/ FillDraft(t) /\ task[t].pc = "fill" /\ task'[t].pc = "sync"
              \/ /\ SyncFiles(t) /\ task[t].pc = "sync"
                 /\ task'[t].pc = IF published[task[t].work] = <<>> THEN "community" ELSE "publish"
              \/ AddCommunity(t) /\ task[t].pc = "community" /\ task'[t].pc = "publish"
<1>1. /\ published' = published /\ opened' = opened /\ entry' = entry
      /\ abandoned' = abandoned /\ shared' = shared
  BY DEF FillDraft, SyncFiles, AddCommunity
<1>2. PICK pc : /\ task' = [task EXCEPT ![t].pc = pc]
                /\ \/ FillDraft(t) /\ task[t].pc = "fill" /\ pc = "sync"
                   \/ /\ SyncFiles(t) /\ task[t].pc = "sync"
                      /\ pc = IF published[task[t].work] = <<>> THEN "community" ELSE "publish"
                   \/ AddCommunity(t) /\ task[t].pc = "community" /\ pc = "publish"
  BY DEF FillDraft, SyncFiles, AddCommunity
<1>3. Moves(t) /\ Keeps(t) /\ task'[t].pc = pc
  BY <1>2, Advanced DEF OwnerInv
<1>4. task[t].work \in Works /\ (task[t].pc = "fill" => published[task[t].work] # <<>>)
  BY <1>2, Updating, Working
<1> QED
  BY <1>1, <1>2, <1>3, <1>4

\* Publishing ends a plan, or the task.
LEMMA PublishMoves ==
    ASSUME OwnerInv, NEW t \in Tasks, Publish(t)
    PROVE  /\ Moves(t) /\ Keeps(t) /\ task'[t].pc \in {"done", "versions"}
           /\ task'[t].pc = "versions" => ~task[t].last /\ task[t].ver # 0
           /\ opened' = opened /\ entry' = entry /\ task[t].pc = "publish"
           /\ task[t].work \in Works /\ task[t].slot \in Slots
           /\ SetDraft(task[t].work, task[t].slot, NoDraft)
<1>1. /\ opened' = opened /\ entry' = entry /\ task[t].pc = "publish"
      /\ SetDraft(task[t].work, task[t].slot, NoDraft)
      /\ \/ \E op : task' = Stop(t, op)
         \/ task' = [task EXCEPT ![t].pc = "versions"] /\ ~task[t].last /\ task[t].ver # 0
  BY DEF Publish, DropDraft
<1>2. task[t].work \in Works /\ task[t].slot \in Slots
  BY <1>1, Working DEF OwnerInv, Writers, WriterOk
<1>3. CASE \E op : task' = Stop(t, op)
  BY <1>1, <1>2, <1>3, Stopped DEF OwnerInv
<1>4. CASE task' = [task EXCEPT ![t].pc = "versions"] /\ ~task[t].last /\ task[t].ver # 0
  BY <1>1, <1>2, <1>4, Advanced DEF OwnerInv
<1> QED
  BY <1>1, <1>3, <1>4

\* Opening a draft: that which is there, or a new one.
LEMMA OpenMoves ==
    ASSUME OwnerInv, NEW t \in Tasks, OpenDraft(t)
    PROVE  /\ Moves(t) /\ task[t].pc = "open" /\ task'[t].pc = "fill"
           /\ task'[t].work = task[t].work /\ task'[t].slot = task[t].slot
           /\ task'[t].ver = task[t].ver /\ task'[t].meta = task[t].meta
           /\ task'[t].from = task[t].from /\ task'[t].last = task[t].last
           /\ task'[t].read = task[t].read /\ task'[t].todo = task[t].todo
           /\ task'[t].target = opened'[task[t].work]
           /\ published' = published /\ entry' = entry /\ abandoned' = abandoned
           /\ task[t].work \in Works /\ published[task[t].work] # <<>>
           /\ task[t].slot \in Slots
<1>1. /\ published' = published /\ entry' = entry /\ abandoned' = abandoned /\ task[t].pc = "open"
      /\ task' = [task EXCEPT ![t].pc = "fill", ![t].target = opened'[task[t].work]]
  BY DEF OpenDraft
<1>2. /\ DOMAIN task = Tasks /\ DOMAIN task[t] = DOMAIN Idle /\ task[t].slot \in Slots
  BY <1>1 DEF OwnerInv, Writers, WriterOk
<1>3. task[t].work \in Works /\ published[task[t].work] # <<>>
  BY <1>1, Updating
<1> QED
  BY <1>1, <1>2, <1>3 DEF Moves, Idle

\* A record that is created is nobody else's, and nothing of it is published.
LEMMA CreateMoves ==
    ASSUME OwnerInv, NEW t \in Tasks, CreateDraft(t)
    PROVE  \E w \in Works :
             /\ Moves(t) /\ task[t].pc = "create" /\ task'[t].pc = "sync"
             /\ task'[t].work = w /\ task'[t].ver = 0 /\ task'[t].slot = 0 /\ task'[t].last
             /\ task'[t].target = opened'[w] /\ opened' = [opened EXCEPT ![w] = @ + 1]
             /\ task'[t].meta = Raw(entry[t]) /\ task'[t].todo = task[t].todo
             /\ task'[t].from = task[t].from /\ task[t].work \notin Works
             /\ published' = published /\ entry' = entry
             /\ abandoned' = abandoned /\ shared' = shared
             /\ published[w] = <<>> /\ \A u \in Tasks : task[u].work # w
             /\ SetDraft(w, 0, [Raw(entry[t]) EXCEPT !.files = {}])
<1> DEFINE e == entry[t]
           ids == {w \in Works : Unused(w) /\ (sandbox /\ e.parent # NoWork => w = e.parent)}
           least == CHOOSE x \in ids : \A y \in ids : x <= y
<1>1. /\ published' = published /\ entry' = entry /\ abandoned' = abandoned /\ shared' = shared
      /\ task[t].pc = "create" /\ ids # {}
      /\ SetDraft(least, 0, [Raw(e) EXCEPT !.files = {}])
      /\ opened' = [opened EXCEPT ![least] = @ + 1]
      /\ task' = [task EXCEPT ![t].pc = "sync", ![t].work = least,
                              ![t].target = opened'[least], ![t].meta = Raw(e)]
  BY DEF CreateDraft
<1>2. least \in ids
  <2>1. ids \subseteq Nat
    BY WorksAssumption
  <2> HIDE DEF ids
  <2> QED
    BY <1>1, <2>1, Smallest
<1>3. PICK w \in Works : w = least /\ Unused(w)
  BY <1>2
<1> HIDE DEF least, ids
<1>4. /\ DOMAIN task = Tasks /\ DOMAIN task[t] = DOMAIN Idle /\ task[t].ver = 0
      /\ task[t].slot = 0 /\ task[t].last /\ task[t].work \notin Works
  BY <1>1, WorksAssumption DEF OwnerInv, Writers, WriterOk
<1>5. published[w] = <<>> /\ \A u \in Tasks : task[u].work # w
  BY <1>3 DEF Unused
<1>6. task' = [task EXCEPT ![t].pc = "sync", ![t].work = w,
                           ![t].target = opened'[w], ![t].meta = Raw(e)]
  BY <1>1, <1>3
<1>7. /\ Moves(t) /\ task'[t].pc = "sync" /\ task'[t].work = w /\ task'[t].ver = 0
      /\ task'[t].slot = 0 /\ task'[t].last /\ task'[t].target = opened'[w]
      /\ task'[t].meta = Raw(e) /\ task'[t].todo = task[t].todo /\ task'[t].from = task[t].from
  BY <1>4, <1>6 DEF Moves, Idle
<1> QED
  BY <1>1, <1>3, <1>4, <1>5, <1>7

\* Numbers go up, and not those of a record that somebody else is creating.
LEMMA NumbersStep ==
    ASSUME Numbers, NEW t \in Tasks, Moves(t), opened' \in [Works -> Nat],
           \A w \in Works : opened[w] <= opened'[w],
           \A w \in Works : opened'[w] # opened[w] =>
             published[w] # <<>> \/ \A u \in Tasks : task[u].work # w,
           \A w \in Works : published[w] # <<>> => published'[w] # <<>>,
           NumberOk(task[t])', \A u \in Tasks : task[u].pc = "publish" => task[u].work \in Works,
           \A u \in Tasks : task[u].pc \in {"sync", "community"} => task[u].work \in Works
    PROVE  Numbers'
<1>1. ASSUME NEW u \in Tasks \ {t} PROVE NumberOk(task[u])'
  <2>1. PICK k : k = task[u]
    OBVIOUS
  <2>2. task'[u] = k /\ NumberOk(k)
    BY <2>1 DEF Moves, Numbers
  <2>3. k.work \in Works => opened[k.work] \in Nat /\ opened'[k.work] \in Nat
    BY DEF Numbers
  <2>4. k.work \in Works => k.target <= opened'[k.work]
    BY <2>2, <2>3 DEF NumberOk
  <2>5. k.pc \in {"sync", "community", "publish"} /\ published'[k.work] = <<>>
          => k.target = opened'[k.work]
    BY <2>1, <2>2 DEF NumberOk
  <2>6. NumberOk(k)'
    BY <2>2, <2>4, <2>5 DEF NumberOk
  <2> QED
    BY <2>2, <2>6
<1> QED
  BY <1>1 DEF Numbers

\* The numbers stay right.
LEMMA NumbersNext ==
    ASSUME OwnerInv, Numbers, NEW t \in Tasks, TaskStep(t) \/ Crash(t)
    PROVE  Numbers'
<1>1. /\ opened \in [Works -> Nat] /\ NumberOk(task[t])
      /\ \A u \in Tasks : task[u].pc \in {"sync", "community", "publish"} => task[u].work \in Works
  BY DEF Numbers, OwnerInv, Writers, WriterOk
<1>2. \A w \in Works : opened[w] \in Nat
  BY <1>1
<1>3. ASSUME Moves(t), opened' = opened, NumberOk(task[t])',
             \A w \in Works : published[w] # <<>> => published'[w] # <<>>
      PROVE  Numbers'
  BY <1>1, <1>2, <1>3, NumbersStep
<1>4. CASE Route(t)
  <2>1. /\ Moves(t) /\ UNCHANGED records /\ task[t].work \notin Works
        /\ task'[t].pc \in {"done", "update", "create"} /\ task'[t].target = task[t].target
    BY <1>4, RouteMoves
  <2>2. NumberOk(task[t])'
    BY <1>1, <1>2, <2>1 DEF NumberOk, records
  <2> QED
    BY <1>3, <2>1, <2>2 DEF records
<1>5. CASE ReadAndMerge(t) \/ ScanVersions(t) \/ NextVersion(t) \/ MainVersion(t)
  <2>1. /\ Moves(t) /\ UNCHANGED records /\ task'[t].pc \in {"done", "scan", "versions", "open"}
        /\ task'[t].work = task[t].work /\ task'[t].target = task[t].target
    BY <1>5, PlanMoves
  <2>2. NumberOk(task[t])'
    BY <1>1, <2>1 DEF NumberOk, records
  <2> QED
    BY <1>3, <2>1, <2>2 DEF records
<1>6. CASE \/ RefuseUpdate(t) \/ RefuseCreate(t) \/ SyncFails(t) \/ PublishFails(t)
           \/ CallFails(t) \/ AddCommunityFails(t) \/ Crash(t)
  <2>1. /\ Moves(t) /\ Keeps(t) /\ task'[t].pc = "done"
        /\ published' = published /\ opened' = opened
    BY <1>6, FailureMoves
  <2>2. NumberOk(task[t])'
    BY <1>1, <2>1 DEF NumberOk, Keeps
  <2> QED
    BY <1>3, <2>1, <2>2
<1>7. CASE FillDraft(t) \/ SyncFiles(t) \/ AddCommunity(t)
  <2>1. /\ Moves(t) /\ Keeps(t) /\ published' = published /\ opened' = opened
        /\ published[task[t].work] = <<>> => task[t].pc \in {"sync", "community"}
    BY <1>7, CallMoves
  <2>2. NumberOk(task[t])'
    BY <1>1, <2>1 DEF NumberOk, Keeps
  <2> QED
    BY <1>3, <2>1, <2>2
<1>8. CASE Publish(t)
  <2>1. /\ Moves(t) /\ Keeps(t) /\ opened' = opened /\ task'[t].pc \in {"done", "versions"}
    BY <1>8, PublishMoves
  <2>2. NumberOk(task[t])'
    BY <1>1, <2>1 DEF NumberOk, Keeps
  <2>3. Grown
    BY <1>8, Publication
  <2> QED
    BY <1>3, <2>1, <2>2, <2>3 DEF Grown
<1>9. CASE OpenDraft(t)
  <2>1. PICK w \in Works : w = task[t].work
    BY <1>9, OpenMoves
  <2>2. /\ Moves(t) /\ task'[t].pc = "fill" /\ task'[t].work = w /\ task'[t].target = opened'[w]
        /\ published' = published /\ published[w] # <<>>
    BY <1>9, <2>1, OpenMoves
  <2>3. opened' = opened \/ opened' = [opened EXCEPT ![w] = @ + 1]
    BY <1>9, <2>1 DEF OpenDraft
  <2>4. /\ opened' \in [Works -> Nat] /\ \A x \in Works : opened[x] <= opened'[x]
        /\ \A x \in Works \ {w} : opened'[x] = opened[x]
    BY <1>1, <1>2, <2>3
  <2>5. NumberOk(task[t])'
    BY <2>2, <2>4 DEF NumberOk
  <2> QED
    BY <1>1, <2>2, <2>4, <2>5, NumbersStep
<1>10. CASE CreateDraft(t)
  <2>1. PICK w \in Works :
          /\ Moves(t) /\ task'[t].pc = "sync" /\ task'[t].work = w /\ task'[t].target = opened'[w]
          /\ opened' = [opened EXCEPT ![w] = @ + 1] /\ published' = published
          /\ \A u \in Tasks : task[u].work # w
    BY <1>10, CreateMoves
  <2>2. /\ opened' \in [Works -> Nat] /\ \A x \in Works : opened[x] <= opened'[x]
        /\ \A x \in Works \ {w} : opened'[x] = opened[x]
    BY <1>1, <1>2, <2>1
  <2>3. NumberOk(task[t])'
    BY <2>1, <2>2 DEF NumberOk
  <2> QED
    BY <1>1, <2>1, <2>2, <2>3, NumbersStep
<1> QED
  BY <1>4, <1>5, <1>6, <1>7, <1>8, <1>9, <1>10 DEF TaskStep

-----------------------------------------------------------------------------
(* The invariant                                                           *)

\* The invariant holds at the start, when no draft is open and the index shows all.
LEMMA OwnerInit == Init => OwnerInv /\ Numbers
<1> SUFFICES ASSUME Init PROVE OwnerInv /\ Numbers
  OBVIOUS
<1>1. PICK s \in Scenarios : entry = s.entry /\ published = s.published
  BY DEF Init
<1>2. /\ indexed = published /\ drafts = [w \in Works |-> [r \in Slots |-> NoDraft]]
      /\ task = [t \in Tasks |-> Idle]
  BY DEF Init
<1>3. /\ DOMAIN published = Works
      /\ \A w \in Works : /\ published[w] \in Seq(ToSet(published[w]))
                          /\ Len(published[w]) <= MaxVersions
                          /\ \A v \in ToSet(published[w]) : Marked(v)
  BY <1>1, ScenariosAssumption DEF Marked
<1>4. Entries
  BY <1>1, ScenariosAssumption DEF Entries
<1>5. Versions
  <2>1. \A w \in Works : Len(published[w]) \in Nat
    BY <1>3, LenProperties
  <2> QED
    BY <1>2, <1>3, <2>1 DEF Versions
<1>6. Drafts
  BY <1>2, NoDraftMarked DEF Drafts
<1>7. Writers
  <2>1. /\ Idle.pc = "route" /\ Idle.work = NoWork /\ Idle.ver = 0 /\ Idle.slot = 0
        /\ Idle.last /\ Idle.op = "none"
    BY DEF Idle
  <2>2. WriterOk(Idle) /\ PlanOk(Idle)
    BY <2>1 DEF WriterOk, PlanOk
  <2> QED
    BY <1>2, <2>2 DEF Writers
<1>8. \A t \in Tasks : task[t].work \notin Works
  BY <1>2, WorksAssumption DEF Idle
<1>9. SingleOwner
  BY <1>8 DEF SingleOwner
<1>10. FailedCreateLeavesNothing
  <2>1. \A w \in Works : drafts[w][0] = NoDraft
    BY <1>2, WriterBounds DEF Slots
  <2> QED
    BY <2>1 DEF FailedCreateLeavesNothing, HasDraft
<1>11. Numbers
  <2>1. opened = [w \in Works |-> 0]
    BY DEF Init
  <2>2. NumberOk(Idle)
    BY <2>1, WorksAssumption DEF NumberOk, Idle
  <2> QED
    BY <1>2, <2>1, <2>2 DEF Numbers
<1> QED
  BY <1>4, <1>5, <1>6, <1>7, <1>9, <1>10, <1>11 DEF OwnerInv

\* The numbers stay right when no task moves and no draft is opened.
LEMMA QuietNumbers ==
    ASSUME OwnerInv, Numbers, task' = task, opened' = opened, Grown
    PROVE  Numbers'
<1>1. \A t \in Tasks : task[t].pc \in {"sync", "community", "publish"} => task[t].work \in Works
  BY DEF OwnerInv, Writers, WriterOk
<1> QED
  BY <1>1 DEF Numbers, NumberOk, Grown

\* What is published stays so under the steps of curators and of the index.
LEMMA OthersGrow ==
    ASSUME OwnerInv, NEW w \in Works,
           \/ Refresh(w) \/ CuratorEdit(w)
           \/ \E s \in Slots : CuratorPublish(w, s) \/ CuratorDiscard(w, s)
    PROVE  Grown
<1>1. ASSUME NEW s \in Slots, CuratorPublish(w, s) PROVE Grown
  BY <1>1, Correction
<1>2. CASE Refresh(w) \/ CuratorEdit(w) \/ \E s \in Slots : CuratorDiscard(w, s)
  <2>1. published' = published
    BY <1>2 DEF Refresh, CuratorEdit, CuratorDiscard
  <2>2. \A v \in Works : Latest(v) \in Nat /\ Latest(v)' = Latest(v)
    BY <2>1, Lengths DEF OwnerInv, Latest
  <2> QED
    BY <2>1, <2>2 DEF Grown
<1> QED
  BY <1>1, <1>2

\* Every step preserves it.
LEMMA OwnerNext == OwnerInv /\ Numbers /\ [Next]_vars => OwnerInv' /\ Numbers'
<1> SUFFICES ASSUME OwnerInv, Numbers, [Next]_vars PROVE OwnerInv' /\ Numbers'
  OBVIOUS
<1>1. ASSUME NEW t \in Tasks, TaskStep(t) \/ Crash(t) PROVE OwnerInv' /\ Numbers'
  <2>1. Route(t) \/ RefuseUpdate(t) \/ RefuseCreate(t) \/ ReadAndMerge(t)
          \/ ScanVersions(t) \/ NextVersion(t) \/ MainVersion(t) => OwnerInv'
    BY OwnerRoute, OwnerRefuse, OwnerRead, OwnerScan, OwnerPlan
  <2>2. OpenDraft(t) \/ FillDraft(t) \/ SyncFiles(t) \/ Publish(t) \/ CreateDraft(t)
          \/ AddCommunity(t) => OwnerInv'
    BY OwnerOpen, OwnerFill, OwnerSync, OwnerPublish, OwnerCreate, OwnerCommunity
  <2>3. SyncFails(t) \/ PublishFails(t) \/ AddCommunityFails(t) \/ CallFails(t) \/ Crash(t)
          => OwnerInv'
    BY OwnerFailure, OwnerCallFails, OwnerCrash
  <2>4. OwnerInv'
    BY <1>1, <2>1, <2>2, <2>3 DEF TaskStep
  <2> QED
    BY <1>1, <2>4, NumbersNext
<1>2. CASE Finished \/ UNCHANGED vars
  <2>1. /\ published' = published /\ indexed' = indexed /\ drafts' = drafts
        /\ entry' = entry /\ task' = task /\ opened' = opened
    BY <1>2 DEF Finished, vars
  <2>2. OwnerInv'
    BY <2>1 DEF OwnerInv, Writers, WriterOk, PlanOk, SingleOwner, Versions, Drafts, Entries,
                FailedCreateLeavesNothing, HasDraft, Latest
  <2> QED
    BY <2>1, <2>2 DEF Numbers, NumberOk
<1>3. ASSUME NEW w \in Works,
             \/ Refresh(w) \/ CuratorEdit(w)
             \/ \E s \in Slots : CuratorPublish(w, s) \/ CuratorDiscard(w, s)
      PROVE  OwnerInv' /\ Numbers'
  <2>1. task' = task /\ opened' = opened
    BY <1>3 DEF Refresh, CuratorEdit, CuratorPublish, CuratorDiscard
  <2> QED
    BY <1>3, <2>1, OwnerOthers, OthersGrow, QuietNumbers
<1> QED
  BY <1>1, <1>2, <1>3 DEF Next

-----------------------------------------------------------------------------
(* A correction that is being drafted                                      *)

\* What setting one draft does to another.
LEMMA OtherDrafts ==
    ASSUME Drafts, NEW w \in Works, NEW s \in Slots, NEW x, NEW r, NEW d, SetDraft(x, r, d)
    PROVE  drafts'[w][s] = IF x = w /\ r = s THEN d ELSE drafts[w][s]
<1>1. drafts' = [drafts EXCEPT ![x][r] = d]
  BY DEF SetDraft
<1>2. DOMAIN drafts = Works /\ DOMAIN drafts[w] = Slots
  BY DEF Drafts
<1>3. drafts'[w] = IF x = w THEN [drafts[w] EXCEPT ![r] = d] ELSE drafts[w]
  BY <1>1, <1>2
<1> QED
  BY <1>2, <1>3

\* The task that takes away a correction writes or publishes that very draft.
LEMMA TakenByUpdate ==
    ASSUME OwnerInv, NEW t \in Tasks, TaskStep(t) \/ Crash(t),
           NEW w \in Works, NEW s \in Slots, drafts[w][s].curated, ~drafts'[w][s].curated
    PROVE  /\ task[t].work = w /\ task[t].slot = s
           /\ task[t].pc \in {"fill", "publish"} /\ task'[t] # task[t]
<1> DEFINE x == task[t].work
           r == task[t].slot
<1>1. published[w] # <<>> /\ Drafts
  BY DEF OwnerInv, Drafts
<1>2. drafts[w][s] # NoDraft
  BY NoDraftMarked
<1>3. Marked(drafts[w][s])
  BY <1>1 DEF Drafts
<1>4. drafts' # drafts
  OBVIOUS
<1>5. CASE OpenDraft(t)
  <2>1. drafts[x][r] = NoDraft /\ \E d : SetDraft(x, r, d)
    BY <1>4, <1>5 DEF OpenDraft, HasDraft
  <2>2. PICK d : SetDraft(x, r, d)
    BY <2>1
  <2>3. x = w /\ r = s
    BY <1>1, <2>2, OtherDrafts
  <2> QED
    BY <1>2, <2>1, <2>3
<1>6. CASE FillDraft(t)
  <2>1. task[t].pc = "fill" /\ \E d : SetDraft(x, r, d)
    BY <1>6 DEF FillDraft
  <2>2. PICK d : SetDraft(x, r, d)
    BY <2>1
  <2>3. task'[t].pc = "sync"
    BY <1>6, Advanced DEF FillDraft, OwnerInv
  <2> QED
    BY <1>1, <2>1, <2>2, <2>3, OtherDrafts
<1>7. ASSUME NEW f, SetDraft(x, r, [drafts[x][r] EXCEPT !.files = f])
      PROVE  FALSE
  <2>1. PICK d : d = [drafts[x][r] EXCEPT !.files = f]
    OBVIOUS
  <2>2. SetDraft(x, r, d)
    BY <1>7, <2>1
  <2>3. x = w /\ r = s /\ drafts'[w][s] = d
    BY <1>1, <2>2, OtherDrafts
  <2>4. d.curated = drafts[w][s].curated
    BY <1>3, <2>1, <2>3 DEF Marked
  <2> QED
    BY <2>3, <2>4
<1>8. CASE SyncFiles(t)
  <2>1. \E f : SetDraft(x, r, [drafts[x][r] EXCEPT !.files = f])
    BY <1>8 DEF SyncFiles
  <2> QED
    BY <1>7, <2>1
<1>9. ASSUME NEW d, SetDraft(x, r, d), published[x] = <<>>
      PROVE  FALSE
  BY <1>1, <1>9, OtherDrafts
<1>10. CASE SyncFails(t)
  <2>1. \/ published[x] = <<>> /\ SetDraft(x, r, NoDraft)
        \/ \E f : SetDraft(x, r, [drafts[x][r] EXCEPT !.files = f])
    BY <1>4, <1>10 DEF SyncFails, DropDraft
  <2> QED
    BY <1>7, <1>9, <2>1
<1>11. CASE Publish(t) \/ PublishFails(t)
  <2>1. task[t].pc = "publish" /\ SetDraft(x, r, NoDraft)
    BY <1>11 DEF Publish, PublishFails, DropDraft
  <2>2. (\E op : task' = Stop(t, op)) \/ task' = [task EXCEPT ![t].pc = "versions"]
    BY <1>11 DEF Publish, PublishFails
  <2>3. task'[t].pc \in {"done", "versions"}
    BY <2>2, Stopped, Advanced DEF OwnerInv
  <2> QED
    BY <1>1, <2>1, <2>3, OtherDrafts
<1>12. CASE AddCommunityFails(t)
  <2>1. task[t].pc = "community" /\ SetDraft(x, 0, NoDraft)
    BY <1>12 DEF AddCommunityFails, DropDraft
  <2>2. published[x] = <<>>
    BY <2>1, Working
  <2> QED
    BY <1>1, <2>1, <2>2, OtherDrafts
<1>13. CASE CreateDraft(t)
  <2> DEFINE ids == {y \in Works : Unused(y) /\ (sandbox /\ entry[t].parent # NoWork => y = entry[t].parent)}
             least == CHOOSE y \in ids : \A z \in ids : y <= z
  <2>1. ids # {} /\ \E d : SetDraft(least, 0, d)
    BY <1>13 DEF CreateDraft
  <2>2. least \in ids
    <3>1. ids \subseteq Nat
      BY WorksAssumption
    <3> HIDE DEF ids
    <3> QED
      BY <2>1, <3>1, Smallest
  <2>3. published[least] = <<>>
    BY <2>2 DEF Unused
  <2>4. PICK y, d : y = least /\ SetDraft(y, 0, d)
    BY <2>1
  <2> HIDE DEF least
  <2> QED
    BY <1>1, <2>3, <2>4, OtherDrafts
<1>14. CASE drafts' = drafts
  BY <1>4, <1>14
<1>15. CASE \/ Route(t) \/ RefuseUpdate(t) \/ RefuseCreate(t) \/ ReadAndMerge(t)
            \/ ScanVersions(t) \/ NextVersion(t) \/ MainVersion(t)
            \/ CallFails(t) \/ AddCommunity(t) \/ Crash(t)
  <2>1. drafts' = drafts
    BY <1>15 DEF Route, RefuseUpdate, RefuseCreate, ReadAndMerge, ScanVersions, NextVersion,
                 MainVersion, CallFails, AddCommunity, Crash, records
  <2> QED
    BY <1>14, <2>1
<1> QED
  BY <1>5, <1>6, <1>8, <1>10, <1>11, <1>12, <1>13, <1>15 DEF TaskStep

-----------------------------------------------------------------------------
(* The types of the versions: the inductive invariant                      *)

\* The calls of a task between planning a version and its publication.
Writing == {"open", "fill", "sync", "community", "publish"}

\* A task that goes through the versions of a record.
Versioning(k) == k.existing # <<>> /\ k.pc \in {"versions"} \cup Writing

\* No other task has taken up the record of task t.
Alone(t) == \A u \in Tasks \ {t} : task[u].work # task[t].work

\* No task has written to the record yet.
Untouched(w) == \A t \in Tasks : task[t].work = w => task[t].pc \in {"update", "scan"}

\* The edit drafts have the types of their versions, and the index shows versions
\* with their types.
DraftsTyped(w) ==
  \A s \in Slots \ {0} : HasDraft(w, s) =>
    s \in 1 .. Latest(w) /\ drafts[w][s].rtype = published[w][s].rtype
IndexTyped(w) ==
  \A i \in DOMAIN indexed[w] :
    i \in 1 .. Latest(w) /\ indexed[w][i].rtype = published[w][i].rtype

\* Version i of the record has that type.
Typed(w, i, rtype) == i \in 1 .. Latest(w) /\ published[w][i].rtype = rtype

\* A task knows versions from its scan on, and the scan starts with the split
\* versions of the entry.
PhaseOk(k, versions) ==
  /\ k.todo \in Seq(ToSet(k.todo))
  /\ k.pc = "scan" => k.todo = versions
  /\ k.pc \in {"route", "create", "update", "scan"} => k.existing = <<>>

\* A split version is still to do, being written, or there.
Accounted(k, v) ==
  \/ v \in ToSet(k.todo)
  \/ k.pc \in Writing /\ ~k.last /\ k.meta.rtype = v.rtype
  \/ \E i \in Nat : Typed(k.work, i, v.rtype)

\* What a task that goes through the versions of a record knows of them: their
\* types, and that what it writes keeps or adds one.
CoverOk(k, versions) ==
  /\ \A x \in DOMAIN k.existing : Typed(k.work, k.existing[x], x)
  /\ \A v \in ToSet(versions) : Accounted(k, v)
  /\ k.pc \in {"sync", "community", "publish"} /\ HasDraft(k.work, k.slot)
       => drafts[k.work][k.slot].rtype = k.meta.rtype
  /\ k.pc \in Writing /\ k.slot # 0 =>
       ~k.last /\ Typed(k.work, k.slot, k.meta.rtype) /\ (k.pc = "open" => k.from = k.slot)
  /\ k.pc \in Writing /\ k.last => k.todo = <<>>

UntouchedTyped == \A w \in Works : Untouched(w) => DraftsTyped(w) /\ IndexTyped(w)
Phases == \A t \in Tasks : PhaseOk(task[t], entry[t].versions)
Covering ==
  \A t \in Tasks : Versioning(task[t]) /\ Alone(t) =>
    DraftsTyped(task[t].work) /\ CoverOk(task[t], entry[t].versions)

TypesInv == UntouchedTyped /\ Phases /\ Covering

\* What is said of a record and of a task at work on it stays true while the record
\* does not change.
LEMMA TypesStay ==
    ASSUME NEW w, published'[w] = published[w], drafts'[w] = drafts[w], indexed'[w] = indexed[w]
    PROVE  /\ DraftsTyped(w)' <=> DraftsTyped(w)
           /\ IndexTyped(w)' <=> IndexTyped(w)
           /\ \A k, versions : k.work = w => (CoverOk(k, versions)' <=> CoverOk(k, versions))
<1>1. Latest(w)' = Latest(w)
  BY DEF Latest
<1>2. \A i, r : Typed(w, i, r)' <=> Typed(w, i, r)
  BY <1>1 DEF Typed
<1>3. \A s : HasDraft(w, s)' <=> HasDraft(w, s)
  BY DEF HasDraft
<1>4. DraftsTyped(w)' <=> DraftsTyped(w)
  BY <1>1, <1>3 DEF DraftsTyped
<1>5. IndexTyped(w)' <=> IndexTyped(w)
  BY <1>1 DEF IndexTyped
<1>6. ASSUME NEW k, NEW versions, k.work = w
      PROVE  CoverOk(k, versions)' <=> CoverOk(k, versions)
  <2>1. \A v : Accounted(k, v)' <=> Accounted(k, v)
    BY <1>2, <1>6 DEF Accounted
  <2>2. \A i, r : Typed(k.work, i, r)' <=> Typed(k.work, i, r)
    BY <1>2, <1>6
  <2>3. \A s : HasDraft(k.work, s)' <=> HasDraft(k.work, s)
    BY <1>3, <1>6
  <2>4. drafts'[k.work] = drafts[k.work]
    BY <1>6
  <2> QED
    BY <2>1, <2>2, <2>3, <2>4 DEF CoverOk
<1> QED
  BY <1>4, <1>5, <1>6

\* A task that knows versions works on a record.
LEMMA VersioningWorks ==
    ASSUME OwnerInv, NEW t \in Tasks, task[t].pc \in {"versions"} \cup Writing
    PROVE  task[t].work \in Works
<1>1. WriterOk(task[t])
  BY DEF OwnerInv, Writers
<1> QED
  BY <1>1 DEF WriterOk, Writing

\* A step of a task preserves the invariant when it changes no other record, starts
\* an update without writing, and leaves its own part right.
LEMMA TypesStep ==
    ASSUME OwnerInv, TypesInv, NEW t \in Tasks, Moves(t), entry' = entry, indexed' = indexed,
           task[t].work \in Works => task'[t].work = task[t].work,
           \A x \in Works : x # task'[t].work => published'[x] = published[x] /\ drafts'[x] = drafts[x],
           task'[t].pc \in {"update", "scan"} =>
             /\ task[t].pc \in {"route", "update"}
             /\ published' = published /\ drafts' = drafts,
           PhaseOk(task'[t], entry[t].versions),
           Versioning(task'[t]) /\ Alone(t)' =>
             DraftsTyped(task[t].work)' /\ CoverOk(task[t], entry[t].versions)'
    PROVE  TypesInv'
<1>1. Phases'
  BY DEF TypesInv, Phases, Moves
<1>2. UntouchedTyped'
  <2> SUFFICES ASSUME NEW w \in Works, Untouched(w)' PROVE DraftsTyped(w)' /\ IndexTyped(w)'
    BY DEF UntouchedTyped
  <2>1. published'[w] = published[w] /\ drafts'[w] = drafts[w] /\ indexed'[w] = indexed[w]
    <3>1. task'[t].work = w => task'[t].pc \in {"update", "scan"}
      BY DEF Untouched
    <3> QED
      BY <3>1
  <2>2. Untouched(w)
    <3> SUFFICES ASSUME NEW u \in Tasks, task[u].work = w PROVE task[u].pc \in {"update", "scan"}
      BY DEF Untouched
    <3>1. CASE u # t
      BY <3>1 DEF Moves, Untouched
    <3>2. CASE u = t
      <4>1. task'[t].work = w /\ task'[t].pc \in {"update", "scan"}
        BY <3>2 DEF Untouched
      <4>2. task[t].pc # "route"
        BY <3>2, WorksAssumption DEF OwnerInv, Writers, WriterOk
      <4> QED
        BY <3>2, <4>1, <4>2
    <3> QED
      BY <3>1, <3>2
  <2>3. DraftsTyped(w) /\ IndexTyped(w)
    BY <2>2 DEF TypesInv, UntouchedTyped
  <2> QED
    BY <2>1, <2>3, TypesStay
<1>3. Covering'
  <2> SUFFICES ASSUME NEW u \in Tasks, Versioning(task[u])', Alone(u)'
               PROVE  DraftsTyped(task[u].work)' /\ CoverOk(task[u], entry[u].versions)'
    BY DEF Covering
  <2>1. CASE u = t
    BY <2>1 DEF Versioning
  <2>2. CASE u # t
    <3>1. PICK k, w : k = task[u] /\ w = task[u].work
      OBVIOUS
    <3>2. task'[u] = k
      BY <2>2, <3>1 DEF Moves
    <3>3. Versioning(task[u])
      BY <3>1, <3>2 DEF Versioning
    <3>4. w \in Works
      BY <3>1, <3>3, VersioningWorks DEF Versioning
    <3>5. task'[t].work # w
      BY <2>2, <3>1, <3>2 DEF Alone
    <3>6. Alone(u)
      <4> SUFFICES ASSUME NEW v \in Tasks \ {u}, task[v].work = w PROVE FALSE
        BY <3>1 DEF Alone
      <4>1. CASE v = t
        BY <3>4, <3>5, <4>1
      <4>2. CASE v # t
        BY <3>1, <3>2, <4>2 DEF Moves, Alone
      <4> QED
        BY <4>1, <4>2
    <3>7. DraftsTyped(w) /\ CoverOk(k, entry[u].versions)
      BY <3>1, <3>3, <3>6 DEF TypesInv, Covering
    <3>8. published'[w] = published[w] /\ drafts'[w] = drafts[w] /\ indexed'[w] = indexed[w]
      BY <3>4, <3>5
    <3>9. PICK versions : versions = entry[u].versions
      OBVIOUS
    <3>10. DraftsTyped(w)' /\ CoverOk(k, versions)'
      BY <3>1, <3>7, <3>8, <3>9, TypesStay
    <3> QED
      BY <3>1, <3>2, <3>9, <3>10
  <2> QED
    BY <2>1, <2>2
<1> QED
  BY <1>1, <1>2, <1>3 DEF TypesInv

\* A task that does not go through versions, or no longer does, has only its phase
\* to keep.
LEMMA TypesQuiet ==
    ASSUME OwnerInv, TypesInv, NEW t \in Tasks, Moves(t), entry' = entry, indexed' = indexed,
           task[t].work \in Works => task'[t].work = task[t].work,
           \A x \in Works : x # task'[t].work => published'[x] = published[x] /\ drafts'[x] = drafts[x],
           task'[t].pc \in {"update", "scan"} =>
             /\ task[t].pc \in {"route", "update"}
             /\ published' = published /\ drafts' = drafts,
           PhaseOk(task'[t], entry[t].versions), ~Versioning(task'[t])
    PROVE  TypesInv'
  BY TypesStep

\* A task stops.
LEMMA TypesStop ==
    ASSUME OwnerInv, TypesInv, NEW t \in Tasks, NEW op, task' = Stop(t, op),
           entry' = entry, indexed' = indexed,
           \A x \in Works : x # task[t].work => published'[x] = published[x] /\ drafts'[x] = drafts[x]
    PROVE  TypesInv'
<1>1. Moves(t) /\ Keeps(t) /\ task'[t].pc = "done"
  BY Stopped DEF OwnerInv
<1>2. task'[t].work = task[t].work /\ task'[t].todo = task[t].todo
  BY <1>1 DEF Keeps
<1>3. PhaseOk(task[t], entry[t].versions)
  BY DEF TypesInv, Phases
<1>4. PhaseOk(task'[t], entry[t].versions)
  BY <1>1, <1>2, <1>3 DEF PhaseOk
<1>5. ~Versioning(task'[t])
  BY <1>1 DEF Versioning, Writing
<1> QED
  BY <1>1, <1>2, <1>4, <1>5, TypesQuiet

\* One draft changes, and no other record's.
LEMMA OnlyDraft ==
    ASSUME Drafts, NEW w, NEW s, NEW d, SetDraft(w, s, d)
    PROVE  \A x \in Works : x # w => drafts'[x] = drafts[x]
  BY DEF SetDraft, Drafts

\* The steps with which a task stops.
LEMMA TypesFailure ==
    ASSUME OwnerInv, TypesInv, NEW t \in Tasks,
           \/ RefuseUpdate(t) \/ RefuseCreate(t) \/ SyncFails(t) \/ PublishFails(t)
           \/ CallFails(t) \/ AddCommunityFails(t) \/ Crash(t)
    PROVE  TypesInv'
<1>1. /\ published' = published /\ indexed' = indexed /\ entry' = entry
      /\ \E op : task' = Stop(t, op)
  BY DEF RefuseUpdate, RefuseCreate, SyncFails, PublishFails, CallFails, AddCommunityFails, Crash,
         records, Stop
<1>2. drafts' = drafts \/ \E s, d : SetDraft(task[t].work, s, d)
  BY DEF RefuseUpdate, RefuseCreate, SyncFails, PublishFails, CallFails, AddCommunityFails, Crash,
         records, DropDraft
<1>3. \A x \in Works : x # task[t].work => drafts'[x] = drafts[x]
  BY <1>2, OnlyDraft DEF OwnerInv
<1> QED
  BY <1>1, <1>3, TypesStop

\* Routing and creation: a task that has no versions yet.
LEMMA TypesRoute ==
    ASSUME OwnerInv, TypesInv, NEW t \in Tasks, Route(t) \/ CreateDraft(t)
    PROVE  TypesInv'
<1>1. DOMAIN task = Tasks /\ DOMAIN task[t] = DOMAIN Idle /\ WriterOk(task[t])
  BY DEF OwnerInv, Writers
<1>2. published' = published /\ indexed' = indexed /\ entry' = entry
      /\ task[t].pc \in {"route", "create"}
  BY DEF Route, CreateDraft, records
<1>3. task[t].work \notin Works
  BY <1>1, <1>2, WorksAssumption DEF WriterOk
<1>4. PhaseOk(task[t], entry[t].versions) /\ task[t].existing = <<>>
  BY <1>2 DEF TypesInv, Phases, PhaseOk
<1>5. ASSUME NEW pc, pc \in {"update", "create", "sync"}, NEW w,
             DOMAIN task' = Tasks, DOMAIN task'[t] = DOMAIN Idle,
             \A u \in Tasks \ {t} : task'[u] = task[u],
             task'[t].pc = pc, task'[t].work = w,
             task'[t].todo = task[t].todo, task'[t].existing = task[t].existing,
             \A x \in Works : x # w => drafts'[x] = drafts[x],
             pc = "update" => task[t].pc = "route" /\ drafts' = drafts
      PROVE  TypesInv'
  <2>1. PhaseOk(task'[t], entry[t].versions) /\ ~Versioning(task'[t])
    BY <1>4, <1>5 DEF PhaseOk, Versioning
  <2>2. Moves(t)
    BY <1>5 DEF Moves
  <2> QED
    BY <1>2, <1>3, <1>5, <2>1, <2>2, TypesQuiet
<1>6. CASE Route(t)
  <2>1. PICK m : m = Match(entry[t])
    OBVIOUS
  <2>2. m.kind \in {"error", "ambiguous", "unmigrated", "update", "create"}
    BY <2>1, Answers
  <2>3. drafts' = drafts /\ task[t].pc = "route"
    BY <1>6 DEF Route, records
  <2>4. CASE m.kind \in {"error", "ambiguous", "unmigrated"}
    <3>1. task' = Stop(t, "none")
      BY <1>6, <2>1, <2>4 DEF Route
    <3> QED
      BY <1>2, <2>3, <3>1, TypesStop
  <2>5. CASE m.kind \in {"update", "create"}
    <3>1. task' = [task EXCEPT ![t].pc = m.kind, ![t].work = m.work, ![t].ver = m.ver,
                               ![t].seen = Visible(entry[t])]
      BY <1>6, <2>1, <2>5 DEF Route
    <3>2. /\ DOMAIN task' = Tasks /\ DOMAIN task'[t] = DOMAIN Idle
          /\ \A u \in Tasks \ {t} : task'[u] = task[u]
          /\ task'[t].pc = m.kind /\ task'[t].work = m.work
          /\ task'[t].todo = task[t].todo /\ task'[t].existing = task[t].existing
      BY <1>1, <3>1 DEF Idle
    <3> QED
      BY <1>5, <2>3, <2>5, <3>2
  <2> QED
    BY <2>2, <2>4, <2>5
<1>7. CASE CreateDraft(t)
  <2>1. PICK w, d, n, m : /\ SetDraft(w, 0, d)
                          /\ task' = [task EXCEPT ![t].pc = "sync", ![t].work = w,
                                                  ![t].target = n, ![t].meta = m]
    BY <1>7 DEF CreateDraft
  <2>2. /\ DOMAIN task' = Tasks /\ DOMAIN task'[t] = DOMAIN Idle
        /\ \A u \in Tasks \ {t} : task'[u] = task[u]
        /\ task'[t].pc = "sync" /\ task'[t].work = w
        /\ task'[t].todo = task[t].todo /\ task'[t].existing = task[t].existing
    BY <1>1, <2>1 DEF Idle
  <2>3. \A x \in Works : x # w => drafts'[x] = drafts[x]
    BY <2>1, OnlyDraft DEF OwnerInv
  <2> QED
    BY <1>5, <2>2, <2>3
<1> QED
  BY <1>6, <1>7

\* Reading the record: the versions are still to be scanned, or there is one edit.
LEMMA TypesRead ==
    ASSUME OwnerInv, TypesInv, NEW t \in Tasks, ReadAndMerge(t)
    PROVE  TypesInv'
<1> DEFINE cur == published[task[t].work][task[t].ver]
           new == Merge(cur, entry[t])
           read == [task EXCEPT ![t].read = cur]
<1>1. /\ published' = published /\ indexed' = indexed /\ drafts' = drafts /\ entry' = entry
      /\ task[t].pc = "update"
  BY DEF ReadAndMerge, records
<1>2. \/ task' = [read EXCEPT ![t].pc = "scan", ![t].todo = entry[t].versions]
      \/ task' = Stop(t, "none")
      \/ task' = [read EXCEPT ![t] = [Plan(t, "edit", task[t].ver, new, TRUE) EXCEPT !.read = cur]]
  BY DEF ReadAndMerge
<1>3. DOMAIN task = Tasks /\ DOMAIN task[t] = DOMAIN Idle
  BY DEF OwnerInv, Writers
<1>4. PhaseOk(task[t], entry[t].versions) /\ task[t].existing = <<>>
  BY <1>1 DEF TypesInv, Phases, PhaseOk
<1>5. entry[t].versions \in Seq(ToSet(entry[t].versions))
  BY DEF OwnerInv, Entries
<1> HIDE DEF cur
<1>6. CASE task' = Stop(t, "none")
  BY <1>1, <1>6, TypesStop
<1>7. CASE task' = [read EXCEPT ![t].pc = "scan", ![t].todo = entry[t].versions]
  <2>1. /\ DOMAIN task' = Tasks /\ DOMAIN task'[t] = DOMAIN Idle
        /\ \A u \in Tasks \ {t} : task'[u] = task[u]
        /\ task'[t].pc = "scan" /\ task'[t].work = task[t].work
        /\ task'[t].todo = entry[t].versions /\ task'[t].existing = task[t].existing
    BY <1>3, <1>7 DEF Idle
  <2>2. PhaseOk(task'[t], entry[t].versions) /\ ~Versioning(task'[t])
    BY <1>4, <1>5, <2>1 DEF PhaseOk, Versioning
  <2> QED
    BY <1>1, <2>1, <2>2, TypesQuiet DEF Moves
<1>8. CASE task' = [read EXCEPT ![t] = [Plan(t, "edit", task[t].ver, new, TRUE) EXCEPT !.read = cur]]
  <2>1. PICK plan : plan = Plan(t, "edit", task[t].ver, new, TRUE)
    OBVIOUS
  <2>2. /\ DOMAIN plan = DOMAIN Idle /\ plan.pc = "open" /\ plan.work = task[t].work
        /\ plan.todo = task[t].todo /\ plan.existing = task[t].existing
    BY <1>3, <2>1 DEF Plan, Idle
  <2> HIDE DEF new
  <2>3. PICK q : q = [plan EXCEPT !.read = cur]
    OBVIOUS
  <2>4. /\ DOMAIN q = DOMAIN Idle /\ q.pc = "open" /\ q.work = task[t].work
        /\ q.todo = task[t].todo /\ q.existing = task[t].existing
    BY <2>2, <2>3 DEF Idle
  <2>5. /\ DOMAIN task' = Tasks /\ task'[t] = q /\ \A u \in Tasks \ {t} : task'[u] = task[u]
    BY <1>3, <1>8, <2>1, <2>3
  <2>6. PhaseOk(task'[t], entry[t].versions) /\ ~Versioning(task'[t])
    BY <1>4, <2>4, <2>5 DEF PhaseOk, Versioning
  <2> QED
    BY <1>1, <2>4, <2>5, <2>6, TypesQuiet DEF Moves
<1> QED
  BY <1>2, <1>6, <1>7, <1>8

\* A task that keeps its record was alone before a step if it is afterwards.
LEMMA StillAlone ==
    ASSUME NEW t \in Tasks, Moves(t), task'[t].work = task[t].work, Alone(t)'
    PROVE  Alone(t)
  BY DEF Alone, Moves

\* A task plans the next thing to write and no record changes.
LEMMA TypesPlan ==
    ASSUME OwnerInv, TypesInv, NEW t \in Tasks, NEW q, task' = [task EXCEPT ![t] = q],
           DOMAIN q = DOMAIN Idle, q.work = task[t].work, q.pc \notin {"update", "scan"},
           published' = published, indexed' = indexed, drafts' = drafts, entry' = entry,
           task[t].work \in Works, PhaseOk(q, entry[t].versions),
           Versioning(q) /\ Alone(t) => DraftsTyped(task[t].work) /\ CoverOk(q, entry[t].versions)
    PROVE  TypesInv'
<1>1. Moves(t) /\ task'[t] = q
  BY DEF Moves, OwnerInv, Writers
<1>2. Alone(t)' => Alone(t)
  BY <1>1, StillAlone
<1>3. PICK w, versions : w = task[t].work /\ versions = entry[t].versions
  OBVIOUS
<1>4. published'[w] = published[w] /\ drafts'[w] = drafts[w] /\ indexed'[w] = indexed[w]
  OBVIOUS
<1>5. Versioning(q) /\ Alone(t) => DraftsTyped(w)' /\ CoverOk(q, versions)'
  BY <1>3, <1>4, TypesStay
<1>6. Versioning(task'[t]) /\ Alone(t)' =>
        DraftsTyped(task[t].work)' /\ CoverOk(task[t], entry[t].versions)'
  BY <1>1, <1>2, <1>3, <1>5
<1>7. PhaseOk(task'[t], entry[t].versions)
  BY <1>1
<1> QED
  BY <1>1, <1>6, <1>7, TypesStep

\* The scan of the index shows the versions with their types when nobody else has
\* taken up the record.
LEMMA TypesScan ==
    ASSUME OwnerInv, TypesInv, NEW t \in Tasks, ScanVersions(t)
    PROVE  TypesInv'
<1> DEFINE w == task[t].work
           shown == indexed[w]
           types == {shown[i].rtype : i \in DOMAIN shown}
<1>1. /\ published' = published /\ indexed' = indexed /\ drafts' = drafts /\ entry' = entry
      /\ task[t].pc = "scan"
  BY DEF ScanVersions, records
<1>2. PICK f \in [types -> DOMAIN shown] :
        /\ \A x \in types : shown[f[x]].rtype = x
        /\ task' = [task EXCEPT ![t].pc = "versions", ![t].existing = f]
  BY DEF ScanVersions
<1>3. DOMAIN task = Tasks /\ DOMAIN task[t] = DOMAIN Idle
  BY DEF OwnerInv, Writers
<1>4. w \in Works
  BY <1>1, Updating
<1>5. PhaseOk(task[t], entry[t].versions)
  BY DEF TypesInv, Phases
<1>6. PICK q : q = [task[t] EXCEPT !.pc = "versions", !.existing = f]
  OBVIOUS
<1>7. task' = [task EXCEPT ![t] = q]
  BY <1>2, <1>3, <1>6
<1>8. /\ DOMAIN q = DOMAIN Idle /\ q.pc = "versions" /\ q.work = task[t].work
      /\ q.todo = task[t].todo /\ q.existing = f
  BY <1>3, <1>6 DEF Idle
<1>9. q.todo = entry[t].versions /\ PhaseOk(q, entry[t].versions)
  BY <1>1, <1>5, <1>8 DEF PhaseOk
<1>10. ASSUME Alone(t)
       PROVE  DraftsTyped(w) /\ CoverOk(q, entry[t].versions)
  <2>1. Untouched(w)
    BY <1>1, <1>10 DEF Untouched, Alone
  <2>2. DraftsTyped(w) /\ IndexTyped(w)
    BY <1>4, <2>1 DEF TypesInv, UntouchedTyped
  <2>3. \A x \in DOMAIN f : Typed(w, f[x], x)
    <3> SUFFICES ASSUME NEW x \in DOMAIN f PROVE Typed(w, f[x], x)
      OBVIOUS
    <3>1. f[x] \in DOMAIN indexed[w] /\ indexed[w][f[x]].rtype = x
      BY <1>2
    <3> QED
      BY <2>2, <3>1 DEF IndexTyped, Typed
  <2>4. \A v \in ToSet(entry[t].versions) : Accounted(q, v)
    BY <1>9 DEF Accounted
  <2>5. q.pc \notin Writing
    BY <1>8 DEF Writing
  <2> QED
    BY <1>8, <2>2, <2>3, <2>4, <2>5 DEF CoverOk, Writing
<1> HIDE DEF shown, types
<1> QED
  BY <1>1, <1>4, <1>7, <1>8, <1>9, <1>10, TypesPlan

\* The head of a sequence and its tail are all of it.
LEMMA HeadAndTail ==
    ASSUME NEW S, NEW s \in Seq(S), s # <<>>
    PROVE  /\ Tail(s) \in Seq(ToSet(Tail(s)))
           /\ \A v \in ToSet(s) : v = Head(s) \/ v \in ToSet(Tail(s))
<1>1. /\ Tail(s) \in Seq(S) /\ Len(s) \in Nat /\ Len(s) # 0 /\ Len(Tail(s)) = Len(s) - 1
      /\ \A i \in 1 .. Len(s) - 1 : Tail(s)[i] = s[i + 1]
  BY EmptySeq, HeadTailProperties, LenProperties
<1>2. Tail(s) \in Seq(ToSet(Tail(s)))
  BY <1>1, OwnMembers
<1>3. ASSUME NEW v \in ToSet(s), v # Head(s)
      PROVE  v \in ToSet(Tail(s))
  <2>1. PICK i \in 1 .. Len(s) : v = s[i]
    BY LenProperties DEF ToSet
  <2>2. i # 1
    BY <1>3, <2>1
  <2>3. i - 1 \in 1 .. Len(s) - 1 /\ (i - 1) + 1 = i
    BY <1>1, <2>1, <2>2
  <2>4. v = Tail(s)[i - 1]
    BY <1>1, <2>1, <2>3
  <2>5. DOMAIN Tail(s) = 1 .. Len(s) - 1
    BY <1>1, LenProperties
  <2> QED
    BY <2>3, <2>4, <2>5 DEF ToSet
<1> QED
  BY <1>2, <1>3

\* A split version leaves the list of what is to do when it is planned: as an edit of
\* the version of its type, or as a new version.
LEMMA TypesSplit ==
    ASSUME OwnerInv, TypesInv, NEW t \in Tasks, NextVersion(t)
    PROVE  TypesInv'
<1> DEFINE w == task[t].work
           v == Head(task[t].todo)
           known == v.rtype \in DOMAIN task[t].existing
           old == IF known THEN task[t].existing[v.rtype] ELSE task[t].ver
           kind == IF known /\ ~FilesDiffer(published[w][old].files, v.files)
                   THEN "edit" ELSE "version"
<1>1. /\ published' = published /\ indexed' = indexed /\ drafts' = drafts /\ entry' = entry
      /\ task[t].pc = "versions" /\ task[t].todo # <<>>
      /\ task' = [task EXCEPT ![t] = [Plan(t, kind, old, Raw(v), FALSE) EXCEPT !.todo = Tail(@)]]
  BY DEF NextVersion, records
<1>2. DOMAIN task = Tasks /\ DOMAIN task[t] = DOMAIN Idle
  BY DEF OwnerInv, Writers
<1>3. w \in Works
  BY <1>1, Updating
<1>4. PhaseOk(task[t], entry[t].versions)
  BY DEF TypesInv, Phases
<1>5. /\ Tail(task[t].todo) \in Seq(ToSet(Tail(task[t].todo)))
      /\ \A x \in ToSet(task[t].todo) : x = v \/ x \in ToSet(Tail(task[t].todo))
  BY <1>1, <1>4, HeadAndTail DEF PhaseOk
<1>6. PICK meta, slot : meta = Raw(v) /\ slot = IF kind = "version" THEN 0 ELSE old
  OBVIOUS
<1>7. meta.rtype = v.rtype
  BY <1>6 DEF Raw
<1>8. slot # 0 => known /\ slot = task[t].existing[v.rtype] /\ slot = old
  BY <1>6
<1> HIDE DEF known, kind
<1>9. PICK plan : plan = Plan(t, kind, old, Raw(v), FALSE)
  OBVIOUS
<1>10. PICK q : q = [plan EXCEPT !.todo = Tail(@)]
  OBVIOUS
<1>11. /\ DOMAIN plan = DOMAIN Idle /\ plan.pc = "open" /\ plan.work = w /\ plan.from = old
       /\ plan.meta = meta /\ plan.last = FALSE /\ plan.slot = slot
       /\ plan.todo = task[t].todo /\ plan.existing = task[t].existing
  BY <1>2, <1>6, <1>9 DEF Plan, Idle
<1>12. /\ DOMAIN q = DOMAIN Idle /\ q.pc = "open" /\ q.work = w /\ q.from = old
       /\ q.meta = meta /\ ~q.last /\ q.slot = slot
       /\ q.todo = Tail(task[t].todo) /\ q.existing = task[t].existing
  BY <1>10, <1>11 DEF Idle
<1>13. task' = [task EXCEPT ![t] = q]
  BY <1>1, <1>9, <1>10
<1>14. PhaseOk(q, entry[t].versions)
  BY <1>5, <1>12 DEF PhaseOk
<1>15. ASSUME Versioning(q), Alone(t)
       PROVE  DraftsTyped(w) /\ CoverOk(q, entry[t].versions)
  <2>1. DraftsTyped(w) /\ CoverOk(task[t], entry[t].versions)
    BY <1>1, <1>12, <1>15 DEF TypesInv, Covering, Versioning
  <2>2. \A x \in DOMAIN q.existing : Typed(q.work, q.existing[x], x)
    BY <1>12, <2>1 DEF CoverOk
  <2>3. \A x \in ToSet(entry[t].versions) : Accounted(q, x)
    <3> SUFFICES ASSUME NEW x \in ToSet(entry[t].versions) PROVE Accounted(q, x)
      OBVIOUS
    <3>1. Accounted(task[t], x)
      BY <2>1 DEF CoverOk
    <3>2. x \in ToSet(task[t].todo) \/ \E i \in Nat : Typed(w, i, x.rtype)
      BY <1>1, <3>1 DEF Accounted, Writing
    <3> QED
      BY <1>5, <1>7, <1>12, <3>2 DEF Accounted, Writing
  <2>4. slot # 0 => Typed(w, slot, meta.rtype) /\ old = slot
    BY <1>7, <1>8, <2>1 DEF CoverOk, known
  <2> QED
    BY <1>12, <2>1, <2>2, <2>3, <2>4 DEF CoverOk
<1> QED
  BY <1>1, <1>3, <1>12, <1>13, <1>14, <1>15, TypesPlan

\* The record's own version comes when no split version is left to do.
LEMMA TypesMain ==
    ASSUME OwnerInv, TypesInv, NEW t \in Tasks, MainVersion(t)
    PROVE  TypesInv'
<1> DEFINE w == task[t].work
<1>1. /\ published' = published /\ indexed' = indexed /\ drafts' = drafts /\ entry' = entry
      /\ task[t].pc = "versions" /\ task[t].todo = <<>>
      /\ task' = [task EXCEPT ![t] = Plan(t, "version", Latest(w), Merge(task[t].read, entry[t]), TRUE)]
  BY DEF MainVersion, records
<1>2. DOMAIN task = Tasks /\ DOMAIN task[t] = DOMAIN Idle
  BY DEF OwnerInv, Writers
<1>3. w \in Works
  BY <1>1, Updating
<1>4. PhaseOk(task[t], entry[t].versions)
  BY DEF TypesInv, Phases
<1>5. PICK from, meta : from = Latest(w) /\ meta = Merge(task[t].read, entry[t])
  OBVIOUS
<1>6. PICK q : q = Plan(t, "version", from, meta, TRUE)
  OBVIOUS
<1>7. task' = [task EXCEPT ![t] = q]
  BY <1>1, <1>5, <1>6
<1>8. /\ DOMAIN q = DOMAIN Idle /\ q.pc = "open" /\ q.work = w /\ q.last = TRUE /\ q.slot = 0
      /\ q.todo = task[t].todo /\ q.existing = task[t].existing
  BY <1>2, <1>6 DEF Plan, Idle
<1>9. PhaseOk(q, entry[t].versions)
  BY <1>4, <1>8 DEF PhaseOk
<1>10. ASSUME Versioning(q), Alone(t)
       PROVE  DraftsTyped(w) /\ CoverOk(q, entry[t].versions)
  <2>1. DraftsTyped(w) /\ CoverOk(task[t], entry[t].versions)
    BY <1>1, <1>8, <1>10 DEF TypesInv, Covering, Versioning
  <2>2. \A x \in DOMAIN q.existing : Typed(q.work, q.existing[x], x)
    BY <1>8, <2>1 DEF CoverOk
  <2>3. \A x \in ToSet(entry[t].versions) : Accounted(q, x)
    BY <1>1, <1>8, <2>1 DEF CoverOk, Accounted, Writing
  <2> QED
    BY <1>1, <1>8, <2>1, <2>2, <2>3 DEF CoverOk
<1> QED
  BY <1>1, <1>3, <1>7, <1>8, <1>9, <1>10, TypesPlan

\* A task goes on to its next call; the draft it writes gets the type of what the
\* task publishes.
LEMMA TypesCall ==
    ASSUME OwnerInv, TypesInv, NEW t \in Tasks, Moves(t), task[t].pc \in Writing,
           task'[t].pc \in Writing \ {"open"},
           task'[t].work = task[t].work, task'[t].todo = task[t].todo,
           task'[t].existing = task[t].existing, task'[t].meta = task[t].meta,
           task'[t].last = task[t].last, task'[t].slot = task[t].slot,
           published' = published, indexed' = indexed, entry' = entry, NEW d,
           \/ drafts' = drafts /\ (task'[t].pc = "fill" \/ task[t].pc = "community")
           \/ /\ SetDraft(task[t].work, task[t].slot, d)
              /\ Versioning(task[t]) /\ Alone(t) =>
                   (task'[t].pc = "fill" /\ task[t].slot = 0) \/ d.rtype = task[t].meta.rtype
    PROVE  TypesInv'
<1>1. PICK w \in Works, s \in Slots : w = task[t].work /\ s = task[t].slot
  BY VersioningWorks DEF OwnerInv, Writers, WriterOk, Writing
<1>2. PhaseOk(task'[t], entry[t].versions)
  BY DEF TypesInv, Phases, PhaseOk, Writing
<1>3. \A x \in Works : x # w => drafts'[x] = drafts[x]
  BY <1>1, OnlyDraft DEF OwnerInv
<1>4. Latest(w)' = Latest(w) /\ \A i, r : Typed(w, i, r)' <=> Typed(w, i, r)
  BY DEF Latest, Typed
<1>5. ASSUME Versioning(task'[t]), Alone(t)'
      PROVE  DraftsTyped(w)' /\ CoverOk(task[t], entry[t].versions)'
  <2>1. Alone(t) /\ Versioning(task[t])
    BY <1>5, StillAlone DEF Versioning
  <2>2. DraftsTyped(w) /\ CoverOk(task[t], entry[t].versions)
    BY <1>1, <2>1 DEF TypesInv, Covering
  <2>3. \A r \in Slots : drafts'[w][r] = drafts[w][r] \/ (r = s /\ drafts'[w][r] = d)
    BY <1>1, OtherDrafts DEF OwnerInv
  <2>4. \/ drafts' = drafts /\ (task'[t].pc = "fill" \/ task[t].pc = "community")
        \/ SetDraft(w, s, d) /\ drafts'[w][s] = d
    BY <1>1, OtherDrafts DEF OwnerInv
  <2>5. s # 0 => Typed(w, s, task[t].meta.rtype)
    BY <1>1, <2>2 DEF CoverOk
  <2>6. DraftsTyped(w)'
    <3> SUFFICES ASSUME NEW r \in Slots \ {0}, drafts'[w][r] # NoDraft
                 PROVE  r \in 1 .. Latest(w) /\ drafts'[w][r].rtype = published[w][r].rtype
      BY <1>4 DEF DraftsTyped, HasDraft
    <3>1. CASE drafts'[w][r] = drafts[w][r]
      BY <2>2, <3>1 DEF DraftsTyped, HasDraft
    <3>2. CASE r = s /\ drafts'[w][r] = d /\ drafts' # drafts
      BY <1>1, <2>1, <2>5, <3>2 DEF Typed
    <3> QED
      BY <2>3, <3>1, <3>2
  <2>7. task'[t].pc # "fill" /\ drafts'[w][s] # NoDraft => drafts'[w][s].rtype = task[t].meta.rtype
    <3>1. CASE drafts' = drafts /\ task[t].pc = "community"
      BY <1>1, <2>2, <3>1 DEF CoverOk, HasDraft
    <3>2. CASE drafts'[w][s] = d /\ d.rtype = task[t].meta.rtype
      BY <3>2
    <3> QED
      BY <1>1, <2>1, <2>4, <3>1, <3>2
  <2>8. \A x \in ToSet(entry[t].versions) : Accounted(task[t], x)'
    BY <1>1, <1>4, <2>2 DEF CoverOk, Accounted, Writing
  <2>9. \A x \in DOMAIN task[t].existing : Typed(w, task[t].existing[x], x)'
    BY <1>1, <1>4, <2>2 DEF CoverOk
  <2>10. task[t].slot # 0 => ~task[t].last /\ Typed(w, s, task[t].meta.rtype)'
    BY <1>1, <1>4, <2>2 DEF CoverOk
  <2>11. task[t].last => task[t].todo = <<>>
    BY <2>2 DEF CoverOk
  <2>12. task'[t].pc # "open" /\ (task'[t].pc \in {"sync", "community", "publish"} => task'[t].pc # "fill")
    BY DEF Writing
  <2> QED
    BY <1>1, <2>6, <2>7, <2>8, <2>9, <2>10, <2>11, <2>12 DEF CoverOk, HasDraft
<1> QED
  BY <1>1, <1>2, <1>3, <1>5, TypesStep DEF Writing

\* Opening, filling and synchronising a draft, and joining the community.
LEMMA TypesWrite ==
    ASSUME OwnerInv, TypesInv, NEW t \in Tasks,
           OpenDraft(t) \/ FillDraft(t) \/ SyncFiles(t) \/ AddCommunity(t)
    PROVE  TypesInv'
<1> DEFINE w == task[t].work
           s == task[t].slot
<1>1. DOMAIN task = Tasks /\ DOMAIN task[t] = DOMAIN Idle /\ PlanOk(task[t]) /\ WriterOk(task[t])
  BY DEF OwnerInv, Writers
<1>2. published' = published /\ indexed' = indexed /\ entry' = entry
  BY DEF OpenDraft, FillDraft, SyncFiles, AddCommunity
<1>3. task[t].pc \in {"open", "fill", "sync", "community"} /\ w \in Works /\ s \in Slots
  BY <1>1, VersioningWorks DEF OpenDraft, FillDraft, SyncFiles, AddCommunity, WriterOk, Writing
<1>4. Versioning(task[t]) /\ Alone(t) => DraftsTyped(w) /\ CoverOk(task[t], entry[t].versions)
  BY DEF TypesInv, Covering
<1>5. \A n \in 1 .. Latest(w) : Marked(published[w][n])
  BY <1>3, Lengths DEF OwnerInv
<1>6. ASSUME NEW pc, pc \in Writing \ {"open"}, Moves(t), Keeps(t), task'[t].pc = pc, NEW d,
             \/ drafts' = drafts /\ (pc = "fill" \/ task[t].pc = "community")
             \/ /\ SetDraft(w, s, d)
                /\ Versioning(task[t]) /\ Alone(t) =>
                     (pc = "fill" /\ s = 0) \/ d.rtype = task[t].meta.rtype
      PROVE  TypesInv'
  <2>1. /\ task'[t].work = task[t].work /\ task'[t].todo = task[t].todo
        /\ task'[t].existing = task[t].existing /\ task'[t].meta = task[t].meta
        /\ task'[t].last = task[t].last /\ task'[t].slot = task[t].slot
        /\ task[t].pc \in Writing
    BY <1>3, <1>6 DEF Keeps, Writing
  <2> QED
    BY <1>2, <1>6, <2>1, TypesCall
<1>7. CASE OpenDraft(t)
  <2>1. task' = [task EXCEPT ![t].pc = "fill", ![t].target = opened'[w]] /\ task[t].pc = "open"
    BY <1>7 DEF OpenDraft
  <2>2. Moves(t) /\ task'[t].pc = "fill" /\ task'[t].pc \in Writing \ {"open"}
        /\ task'[t].work = task[t].work /\ task'[t].todo = task[t].todo
        /\ task'[t].existing = task[t].existing /\ task'[t].meta = task[t].meta
        /\ task'[t].last = task[t].last /\ task'[t].slot = task[t].slot
    BY <1>1, <2>1 DEF Moves, Idle, Writing
  <2>3. CASE drafts' = drafts
    BY <1>2, <2>1, <2>2, <2>3, TypesCall DEF Writing
  <2>4. CASE drafts' # drafts
    <3>1. PICK d : /\ SetDraft(w, s, d)
                   /\ s # 0 => d = published[w][task[t].from]
      BY <1>7, <2>4 DEF OpenDraft
    <3>2. Versioning(task[t]) /\ Alone(t) /\ s # 0 => d.rtype = task[t].meta.rtype
      BY <1>4, <2>1, <3>1 DEF CoverOk, Typed, Writing
    <3> QED
      BY <1>2, <2>1, <2>2, <3>1, <3>2, TypesCall DEF Writing
  <2> QED
    BY <2>3, <2>4
<1>8. CASE FillDraft(t)
  <2>1. PICK f, i : SetDraft(w, s, [task[t].meta EXCEPT !.files = f, !.doi = i])
    BY <1>8 DEF FillDraft
  <2>2. task[t].pc = "fill" /\ task' = [task EXCEPT ![t].pc = "sync"]
    BY <1>8 DEF FillDraft
  <2>3. PICK m, d : m = task[t].meta /\ d = [m EXCEPT !.files = f, !.doi = i]
    OBVIOUS
  <2>4. Marked(m)
    BY <1>1, <2>2, <2>3 DEF PlanOk
  <2>5. d.rtype = m.rtype
    BY <2>3, <2>4 DEF Marked
  <2>6. Moves(t) /\ Keeps(t) /\ task'[t].pc = "sync"
    BY <2>2, Advanced DEF OwnerInv
  <2> QED
    BY <1>6, <2>1, <2>3, <2>5, <2>6 DEF Writing
<1>9. CASE SyncFiles(t)
  <2>1. PICK pc \in {"community", "publish"} : task' = [task EXCEPT ![t].pc = pc]
    BY <1>9 DEF SyncFiles
  <2>2. /\ SetDraft(w, s, [drafts[w][s] EXCEPT !.files = Synced(t)])
        /\ task[t].pc = "sync" /\ HasDraft(w, s)
    BY <1>9 DEF SyncFiles, Holds
  <2>3. PICK b, d : b = drafts[w][s] /\ d = [b EXCEPT !.files = Synced(t)]
    OBVIOUS
  <2>4. Marked(b)
    BY <1>3, <2>3 DEF OwnerInv, Drafts
  <2>5. d.rtype = b.rtype
    BY <2>3, <2>4 DEF Marked
  <2>6. Versioning(task[t]) /\ Alone(t) => b.rtype = task[t].meta.rtype
    BY <1>4, <2>2, <2>3 DEF CoverOk
  <2>7. Moves(t) /\ Keeps(t) /\ task'[t].pc = pc
    BY <2>1, Advanced DEF OwnerInv
  <2> QED
    BY <1>6, <2>1, <2>2, <2>3, <2>5, <2>6, <2>7 DEF Writing
<1>10. CASE AddCommunity(t)
  <2>1. /\ drafts' = drafts /\ task[t].pc = "community" /\ task' = [task EXCEPT ![t].pc = "publish"]
    BY <1>10 DEF AddCommunity
  <2>2. Moves(t) /\ Keeps(t) /\ task'[t].pc = "publish"
    BY <2>1, Advanced DEF OwnerInv
  <2> QED
    BY <1>6, <2>1, <2>2 DEF Writing
<1> QED
  BY <1>7, <1>8, <1>9, <1>10

\* A version that is added has its type, one that is replaced by a draft of its type
\* keeps it, and so do all others.
LEMMA TypesKept ==
    ASSUME Versions, NEW w \in Works, NEW s, NEW d,
           \/ published'[w] = Append(published[w], d)
           \/ /\ s \in 1 .. Latest(w) /\ d.rtype = published[w][s].rtype
              /\ published'[w] = [published[w] EXCEPT ![s] = d]
    PROVE  /\ \A i, r : Typed(w, i, r) => Typed(w, i, r)'
           /\ \E i \in Nat : Typed(w, i, d.rtype)'
<1>1. PICK v, n : v = published[w] /\ n = Len(v)
  OBVIOUS
<1>2. PICK S : v \in Seq(S)
  BY <1>1 DEF Versions
<1>3. n \in Nat /\ DOMAIN v = 1 .. n /\ v \in [1 .. n -> S]
  BY <1>1, <1>2, LenProperties
<1>4. CASE published'[w] = Append(v, d)
  <2>1. PICK T : v \in Seq(T) /\ d \in T
    <3>1. v \in [1 .. n -> S \cup {d}]
      BY <1>1, <1>2, <1>3
    <3>2. v \in Seq(S \cup {d})
      BY <1>3, <3>1, IsASeq
    <3> QED
      BY <3>2
  <2>2. /\ Len(Append(v, d)) = n + 1
        /\ \A i \in 1 .. n : Append(v, d)[i] = v[i]
        /\ Append(v, d)[n + 1] = d
    BY <1>1, <1>3, <2>1, AppendProperties
  <2>3. Latest(w)' = n + 1 /\ Latest(w) = n
    BY <1>1, <1>4, <2>2 DEF Latest
  <2>4. \A i \in 1 .. n : i \in 1 .. n + 1
    BY <1>3
  <2>5. n + 1 \in 1 .. n + 1 /\ n + 1 \in Nat
    BY <1>3
  <2> QED
    BY <1>1, <1>4, <2>2, <2>3, <2>4, <2>5 DEF Typed
<1>5. CASE /\ s \in 1 .. Latest(w) /\ d.rtype = v[s].rtype
           /\ published'[w] = [v EXCEPT ![s] = d]
  <2>1. PICK u : u = [v EXCEPT ![s] = d]
    OBVIOUS
  <2>2. DOMAIN u = 1 .. n /\ u[s] = d /\ \A i \in 1 .. n : i # s => u[i] = v[i]
    BY <1>1, <1>3, <1>5, <2>1 DEF Latest
  <2>3. Len(u) = n
    <3>1. u \in Seq(S \cup {d})
      <4>1. u \in [1 .. n -> S \cup {d}]
        BY <1>2, <1>3, <2>1
      <4> QED
        BY <1>3, <4>1, IsASeq
    <3>2. DOMAIN u = 1 .. Len(u) /\ Len(u) \in Nat
      BY <3>1, LenProperties
    <3> QED
      BY <1>3, <2>2, <3>2
  <2>4. Latest(w)' = n /\ Latest(w) = n
    BY <1>1, <1>5, <2>1, <2>3 DEF Latest
  <2>5. s \in Nat
    BY <1>3, <1>5, <2>4
  <2> QED
    BY <1>1, <1>5, <2>1, <2>2, <2>4, <2>5 DEF Typed
<1> QED
  BY <1>1, <1>4, <1>5

\* Drafts that stay have the types of the versions.
LEMMA DraftsKept ==
    ASSUME NEW w, DraftsTyped(w), \A i, r : Typed(w, i, r) => Typed(w, i, r)',
           \A s \in Slots \ {0} : drafts'[w][s] \in {drafts[w][s], NoDraft}
    PROVE  DraftsTyped(w)'
<1> SUFFICES ASSUME NEW s \in Slots \ {0}, drafts'[w][s] # NoDraft
             PROVE  s \in 1 .. Latest(w)' /\ drafts'[w][s].rtype = published'[w][s].rtype
  BY DEF DraftsTyped, HasDraft
<1>1. drafts'[w][s] = drafts[w][s]
  OBVIOUS
<1>2. Typed(w, s, drafts[w][s].rtype)
  BY <1>1 DEF DraftsTyped, HasDraft, Typed
<1>3. Typed(w, s, drafts[w][s].rtype)'
  BY <1>2
<1> QED
  BY <1>1, <1>3 DEF Typed

\* Publishing the draft of a split version puts its type there.
LEMMA TypesPublish ==
    ASSUME OwnerInv, TypesInv, NEW t \in Tasks, Publish(t)
    PROVE  TypesInv'
<1> DEFINE w == task[t].work
           s == task[t].slot
<1>1. PICK b, d : b = drafts[w][s] /\ d = Release(b)
  OBVIOUS
<1>2. /\ task[t].pc = "publish" /\ HasDraft(w, s) /\ indexed' = indexed /\ entry' = entry
      /\ published' = [published EXCEPT ![w] = IF s = 0 THEN Append(@, d) ELSE [@ EXCEPT ![s] = d]]
      /\ SetDraft(w, s, NoDraft)
      /\ \/ \E op : task' = Stop(t, op)
         \/ task' = [task EXCEPT ![t].pc = "versions"] /\ ~task[t].last
  BY <1>1 DEF Publish, DropDraft, Holds
<1>3. w \in Works /\ s \in Slots
  BY <1>2, VersioningWorks DEF OwnerInv, Writers, WriterOk, Writing
<1>4. \A x \in Works : x # w => published'[x] = published[x] /\ drafts'[x] = drafts[x]
  BY <1>2, OnlyDraft DEF OwnerInv, Versions
<1>5. CASE \E op : task' = Stop(t, op)
  BY <1>2, <1>4, <1>5, TypesStop
<1>6. CASE task' = [task EXCEPT ![t].pc = "versions"] /\ ~task[t].last
  <2>1. Moves(t) /\ Keeps(t) /\ task'[t].pc = "versions"
    BY <1>6, Advanced DEF OwnerInv
  <2>2. /\ task'[t].work = w /\ task'[t].todo = task[t].todo
        /\ task'[t].existing = task[t].existing
    BY <2>1 DEF Keeps
  <2>3. PhaseOk(task[t], entry[t].versions)
    BY DEF TypesInv, Phases
  <2>4. PhaseOk(task'[t], entry[t].versions)
    BY <2>1, <2>2, <2>3 DEF PhaseOk
  <2>5. ASSUME Versioning(task'[t]), Alone(t)'
        PROVE  DraftsTyped(w)' /\ CoverOk(task[t], entry[t].versions)'
    <3>1. Versioning(task[t]) /\ Alone(t)
      BY <1>2, <2>1, <2>2, <2>5, StillAlone DEF Versioning, Writing
    <3>2. DraftsTyped(w) /\ CoverOk(task[t], entry[t].versions)
      BY <3>1 DEF TypesInv, Covering
    <3>3. d.rtype = task[t].meta.rtype
      <4>1. Marked(b)
        BY <1>1, <1>3 DEF OwnerInv, Drafts
      <4>2. d.rtype = b.rtype
        BY <1>1, <4>1 DEF Marked, Release
      <4>3. b.rtype = task[t].meta.rtype
        BY <1>1, <1>2, <3>2 DEF CoverOk
      <4> QED
        BY <4>2, <4>3
    <3>4. s # 0 => s \in 1 .. Latest(w) /\ d.rtype = published[w][s].rtype
      BY <1>2, <3>2, <3>3 DEF CoverOk, Typed, Writing
    <3>5. published'[w] = IF s = 0 THEN Append(published[w], d) ELSE [published[w] EXCEPT ![s] = d]
      BY <1>2, <1>3 DEF OwnerInv, Versions
    <3>6. PICK r, y : r = s /\ y = w
      OBVIOUS
    <3>7. y \in Works /\ Versions
      BY <1>3, <3>6 DEF OwnerInv
    <3>8. \/ published'[y] = Append(published[y], d)
          \/ /\ r \in 1 .. Latest(y) /\ d.rtype = published[y][r].rtype
             /\ published'[y] = [published[y] EXCEPT ![r] = d]
      BY <3>4, <3>5, <3>6
    <3>9. /\ \A i, x : Typed(y, i, x) => Typed(y, i, x)'
          /\ \E i \in Nat : Typed(y, i, d.rtype)'
      BY <3>7, <3>8, TypesKept
    <3>10. DraftsTyped(y)'
      <4>1. \A x \in Slots \ {0} : drafts'[y][x] \in {drafts[y][x], NoDraft}
        BY <1>2, <3>6, <3>7, OtherDrafts DEF OwnerInv
      <4> QED
        BY <3>2, <3>6, <3>9, <4>1, DraftsKept
    <3>11. PICK k, l : k = task[t] /\ l = task'[t]
      OBVIOUS
    <3>12. /\ l.work = k.work /\ l.todo = k.todo /\ l.existing = k.existing /\ l.pc = "versions"
           /\ k.work = y
      BY <2>1, <2>2, <3>6, <3>11
    <3>13. PICK versions : versions = entry[t].versions
      OBVIOUS
    <3>14. \A v \in ToSet(versions) : Accounted(l, v)'
      <4> SUFFICES ASSUME NEW v \in ToSet(versions) PROVE Accounted(l, v)'
        OBVIOUS
      <4>1. Accounted(k, v)
        BY <3>2, <3>11, <3>13 DEF CoverOk
      <4>2. v \in ToSet(k.todo) \/ d.rtype = v.rtype \/ \E i \in Nat : Typed(y, i, v.rtype)
        BY <3>3, <3>11, <3>12, <4>1 DEF Accounted
      <4>3. v \in ToSet(k.todo) \/ \E i \in Nat : Typed(y, i, v.rtype)'
        BY <3>9, <4>2
      <4> QED
        BY <3>12, <4>3 DEF Accounted
    <3>15. \A x \in DOMAIN l.existing : Typed(y, l.existing[x], x)'
      BY <3>2, <3>9, <3>11, <3>12 DEF CoverOk
    <3>16. CoverOk(l, versions)'
      BY <3>12, <3>14, <3>15 DEF CoverOk, Writing
    <3>17. y = task'[t].work /\ l = task'[t] /\ versions = entry'[t].versions
      BY <1>2, <3>11, <3>12, <3>13
    <3> QED
      BY <3>10, <3>16, <3>17
  <2> QED
    BY <1>2, <1>4, <2>1, <2>2, <2>4, <2>5, TypesStep
<1> QED
  BY <1>2, <1>5, <1>6

\* A step that moves no task preserves the invariant when it touches one record and
\* keeps the types there.
LEMMA TypesOthersStep ==
    ASSUME OwnerInv, TypesInv, task' = task, entry' = entry, NEW w \in Works,
           \A x \in Works : x # w => /\ published'[x] = published[x]
                                     /\ drafts'[x] = drafts[x] /\ indexed'[x] = indexed[x],
           DraftsTyped(w) => DraftsTyped(w)' /\ \A i, r : Typed(w, i, r) => Typed(w, i, r)',
           DraftsTyped(w) /\ IndexTyped(w) => IndexTyped(w)',
           \A s \in Slots : DraftsTyped(w) /\ drafts'[w][s] # NoDraft =>
             \/ drafts[w][s] # NoDraft /\ drafts'[w][s].rtype = drafts[w][s].rtype
             \/ s # 0 /\ Typed(w, s, drafts'[w][s].rtype)
    PROVE  TypesInv'
<1>1. Phases'
  BY DEF TypesInv, Phases
<1>2. ASSUME NEW x \in Works, DraftsTyped(x)
      PROVE  DraftsTyped(x)' /\ (IndexTyped(x) => IndexTyped(x)')
  BY <1>2, TypesStay
<1>3. UntouchedTyped'
  <2> SUFFICES ASSUME NEW x \in Works, Untouched(x)' PROVE DraftsTyped(x)' /\ IndexTyped(x)'
    BY DEF UntouchedTyped
  <2>1. Untouched(x)
    BY DEF Untouched
  <2> QED
    BY <1>2, <2>1 DEF TypesInv, UntouchedTyped
<1>4. Covering'
  <2> SUFFICES ASSUME NEW t \in Tasks, Versioning(task[t]), Alone(t)
               PROVE  DraftsTyped(task[t].work)' /\ CoverOk(task[t], entry[t].versions)'
    BY DEF Covering, Alone, Versioning
  <2>1. PICK k, y, versions : k = task[t] /\ y = k.work /\ versions = entry[t].versions
    OBVIOUS
  <2>2. y \in Works /\ (k.pc \in Writing => k.slot \in Slots)
    BY <2>1, VersioningWorks DEF Versioning, OwnerInv, Writers, WriterOk, Writing
  <2>3. DraftsTyped(y) /\ CoverOk(k, versions)
    BY <2>1 DEF TypesInv, Covering
  <2>4. CASE y # w
    <3>1. DraftsTyped(y)' /\ CoverOk(k, versions)'
      BY <2>1, <2>2, <2>3, <2>4, TypesStay
    <3> QED
      BY <2>1, <3>1
  <2>5. CASE y = w
    <3>1. DraftsTyped(y)' /\ \A i, r : Typed(y, i, r) => Typed(y, i, r)'
      BY <2>3, <2>5
    <3>2. \A x \in DOMAIN k.existing : Typed(y, k.existing[x], x)'
      BY <2>1, <2>3, <3>1 DEF CoverOk
    <3>3. \A v \in ToSet(versions) : Accounted(k, v)'
      BY <2>1, <2>3, <3>1 DEF CoverOk, Accounted
    <3>4. k.pc \in Writing /\ k.slot # 0 =>
            ~k.last /\ Typed(y, k.slot, k.meta.rtype)' /\ (k.pc = "open" => k.from = k.slot)
      BY <2>1, <2>3, <3>1 DEF CoverOk
    <3>5. ASSUME k.pc \in {"sync", "community", "publish"}, drafts'[y][k.slot] # NoDraft
          PROVE  drafts'[y][k.slot].rtype = k.meta.rtype
      <4>1. k.slot \in Slots /\ k.pc \in Writing
        BY <2>2, <3>5 DEF Writing
      <4>2. CASE drafts[y][k.slot] # NoDraft /\ drafts'[y][k.slot].rtype = drafts[y][k.slot].rtype
        BY <2>1, <2>3, <3>5, <4>2 DEF CoverOk, HasDraft
      <4>3. CASE k.slot # 0 /\ Typed(y, k.slot, drafts'[y][k.slot].rtype)
        BY <2>1, <2>3, <4>1, <4>3 DEF CoverOk, Typed
      <4> QED
        BY <2>3, <2>5, <3>5, <4>1, <4>2, <4>3
    <3>6. k.pc \in Writing /\ k.last => k.todo = <<>>
      BY <2>3 DEF CoverOk
    <3>7. CoverOk(k, versions)'
      BY <2>1, <3>2, <3>3, <3>4, <3>5, <3>6 DEF CoverOk, HasDraft
    <3> QED
      BY <2>1, <3>1, <3>7
  <2> QED
    BY <2>4, <2>5
<1> QED
  BY <1>1, <1>3, <1>4 DEF TypesInv

\* The index catches up with a record, or a curator drafts, publishes or discards a
\* correction: none of them changes a type.
LEMMA TypesOthers ==
    ASSUME OwnerInv, TypesInv, NEW w \in Works,
           \/ Refresh(w) \/ CuratorEdit(w)
           \/ \E s \in Slots : CuratorPublish(w, s) \/ CuratorDiscard(w, s)
    PROVE  TypesInv'
<1>1. task' = task /\ entry' = entry
  BY DEF Refresh, CuratorEdit, CuratorPublish, CuratorDiscard
<1>2. Versions /\ Drafts
  BY DEF OwnerInv
<1>3. published' = published => Latest(w)' = Latest(w) /\ \A i, r : Typed(w, i, r)' <=> Typed(w, i, r)
  BY DEF Latest, Typed
<1>4. published' = published /\ indexed' = indexed => (IndexTyped(w)' <=> IndexTyped(w))
  BY <1>3 DEF IndexTyped
<1>5. ASSUME NEW s, SetDraft(w, s, NoDraft)
      PROVE  /\ \A x \in Slots : drafts'[w][x] \in {drafts[w][x], NoDraft}
             /\ \A x \in Works : x # w => drafts'[x] = drafts[x]
  BY <1>2, <1>5, OtherDrafts, OnlyDraft
<1>6. CASE Refresh(w)
  <2>1. /\ published' = published /\ drafts' = drafts
        /\ indexed' = [indexed EXCEPT ![w] = published[w]]
    BY <1>6 DEF Refresh
  <2>2. /\ indexed'[w] = published[w]
        /\ \A x \in Works : x # w => indexed'[x] = indexed[x]
    BY <1>2, <2>1 DEF Versions
  <2>3. DraftsTyped(w) => DraftsTyped(w)'
    BY <1>3, <2>1 DEF DraftsTyped, HasDraft
  <2>4. IndexTyped(w)'
    <3>1. PICK S : published[w] \in Seq(S)
      BY <1>2 DEF Versions
    <3>2. DOMAIN published[w] = 1 .. Latest(w)
      BY <3>1, LenProperties DEF Latest
    <3> QED
      BY <1>3, <2>1, <2>2, <3>2 DEF IndexTyped
  <2> QED
    BY <1>1, <1>3, <2>1, <2>2, <2>3, <2>4, TypesOthersStep
<1>7. CASE CuratorEdit(w)
  <2>1. PICK s, b, d : /\ s = Latest(w)
                       /\ b = IF HasDraft(w, s) THEN drafts[w][s] ELSE published[w][s]
                       /\ d = [b EXCEPT !.curated = TRUE]
    OBVIOUS
  <2>2. published' = published /\ indexed' = indexed /\ s > 0 /\ SetDraft(w, s, d)
    BY <1>7, <2>1 DEF CuratorEdit
  <2>3. s \in 1 .. Latest(w) /\ s # 0 /\ s \in Slots /\ Marked(published[w][s])
    <3>1. Latest(w) \in Nat
      BY <1>2, Lengths DEF Latest
    <3> QED
      BY <1>2, <2>1, <2>2, <3>1, Lengths
  <2>4. Marked(b)
    BY <1>2, <2>1, <2>3 DEF Drafts
  <2>5. d.rtype = b.rtype
    BY <2>1, <2>4 DEF Marked
  <2>6. \A x \in Slots : drafts'[w][x] = IF x = s THEN d ELSE drafts[w][x]
    BY <1>2, <2>2, OtherDrafts
  <2>7. DraftsTyped(w) => d.rtype = published[w][s].rtype
    BY <2>1, <2>3, <2>5 DEF DraftsTyped, HasDraft
  <2>8. DraftsTyped(w) => DraftsTyped(w)'
    BY <1>3, <2>2, <2>3, <2>6, <2>7 DEF DraftsTyped, HasDraft
  <2>9. ASSUME NEW x \in Slots, DraftsTyped(w), drafts'[w][x] # NoDraft
        PROVE  \/ drafts[w][x] # NoDraft /\ drafts'[w][x].rtype = drafts[w][x].rtype
               \/ x # 0 /\ Typed(w, x, drafts'[w][x].rtype)
    <3>1. CASE x = s
      BY <2>3, <2>6, <2>7, <2>9, <3>1 DEF Typed
    <3>2. CASE x # s
      BY <2>6, <2>9, <3>2
    <3> QED
      BY <3>1, <3>2
  <2>10. \A x \in Works : x # w => drafts'[x] = drafts[x]
    BY <1>2, <2>2, OnlyDraft
  <2> QED
    BY <1>1, <1>3, <1>4, <2>2, <2>8, <2>9, <2>10, TypesOthersStep
<1>8. ASSUME NEW s \in Slots, CuratorPublish(w, s)
      PROVE  TypesInv'
  <2>1. PICK b, d : b = drafts[w][s] /\ d = Release(b)
    OBVIOUS
  <2>2. /\ indexed' = indexed /\ s # 0 /\ HasDraft(w, s) /\ SetDraft(w, s, NoDraft)
        /\ published' = [published EXCEPT ![w][s] = d]
    BY <1>8, <2>1 DEF CuratorPublish, DropDraft
  <2>3. /\ published'[w] = [published[w] EXCEPT ![s] = d]
        /\ \A x \in Works : x # w => published'[x] = published[x]
    BY <1>2, <2>2 DEF Versions
  <2>4. d.rtype = b.rtype
    BY <1>2, <2>1 DEF Drafts, Marked, Release
  <2>5. ASSUME DraftsTyped(w)
        PROVE  DraftsTyped(w)' /\ \A i, r : Typed(w, i, r) => Typed(w, i, r)'
    <3>1. s \in 1 .. Latest(w) /\ d.rtype = published[w][s].rtype
      BY <2>1, <2>2, <2>4, <2>5 DEF DraftsTyped
    <3>2. \A i, r : Typed(w, i, r) => Typed(w, i, r)'
      BY <1>2, <2>3, <3>1, TypesKept
    <3> QED
      BY <1>5, <2>2, <2>5, <3>2, DraftsKept
  <2>6. ASSUME DraftsTyped(w), IndexTyped(w)
        PROVE  IndexTyped(w)'
    <3>1. \A i \in DOMAIN indexed[w] : Typed(w, i, indexed[w][i].rtype)
      BY <2>6 DEF IndexTyped, Typed
    <3>2. \A i \in DOMAIN indexed[w] : Typed(w, i, indexed[w][i].rtype)'
      BY <2>5, <2>6, <2>2, <3>1
    <3> QED
      BY <2>2, <3>2 DEF IndexTyped, Typed
  <2>7. \A x \in Slots : drafts'[w][x] # NoDraft => drafts'[w][x] = drafts[w][x]
    BY <1>5, <2>2
  <2> QED
    BY <1>1, <1>5, <2>2, <2>3, <2>5, <2>6, <2>7, TypesOthersStep
<1>9. ASSUME NEW s \in Slots, CuratorDiscard(w, s)
      PROVE  TypesInv'
  <2>1. published' = published /\ indexed' = indexed /\ SetDraft(w, s, NoDraft)
    BY <1>9 DEF CuratorDiscard, DropDraft
  <2>2. /\ \A x \in Slots : drafts'[w][x] \in {drafts[w][x], NoDraft}
        /\ \A x \in Works : x # w => drafts'[x] = drafts[x]
    BY <1>5, <2>1
  <2>3. \A i, r : Typed(w, i, r) => Typed(w, i, r)'
    BY <1>3, <2>1
  <2>4. DraftsTyped(w) => DraftsTyped(w)'
    BY <2>2, <2>3, DraftsKept
  <2>5. \A x \in Slots : drafts'[w][x] # NoDraft => drafts'[w][x] = drafts[w][x]
    BY <2>2
  <2> QED
    BY <1>1, <1>4, <2>1, <2>2, <2>3, <2>4, <2>5, TypesOthersStep
<1> QED
  BY <1>6, <1>7, <1>8, <1>9

\* At the start no draft is open, the index shows what is published and no task has
\* begun.
LEMMA TypesInit == Init => TypesInv
<1> SUFFICES ASSUME Init PROVE TypesInv
  OBVIOUS
<1>1. OwnerInv
  BY OwnerInit
<1>2. /\ indexed = published /\ drafts = [w \in Works |-> [r \in Slots |-> NoDraft]]
      /\ task = [t \in Tasks |-> Idle]
  BY DEF Init
<1>3. Idle.pc = "route" /\ Idle.todo = <<>> /\ Idle.existing = <<>>
  BY DEF Idle
<1>4. UntouchedTyped
  <2> SUFFICES ASSUME NEW w \in Works PROVE DraftsTyped(w) /\ IndexTyped(w)
    BY DEF UntouchedTyped
  <2>1. PICK S : published[w] \in Seq(S)
    BY <1>1 DEF OwnerInv, Versions
  <2>2. DOMAIN published[w] = 1 .. Latest(w)
    BY <2>1, LenProperties DEF Latest
  <2> QED
    BY <1>2, <2>2 DEF DraftsTyped, IndexTyped, HasDraft
<1>5. Phases
  <2>1. <<>> \in Seq(ToSet(<<>>))
    BY EmptySeq
  <2> QED
    BY <1>2, <1>3, <2>1 DEF Phases, PhaseOk
<1>6. Covering
  BY <1>2, <1>3 DEF Covering, Versioning
<1> QED
  BY <1>4, <1>5, <1>6 DEF TypesInv

\* Every step preserves the invariant.
LEMMA TypesNext == OwnerInv /\ TypesInv /\ [Next]_vars => TypesInv'
<1> SUFFICES ASSUME OwnerInv, TypesInv, [Next]_vars PROVE TypesInv'
  OBVIOUS
<1>1. ASSUME NEW t \in Tasks, TaskStep(t) \/ Crash(t) PROVE TypesInv'
  <2>1. CASE \/ RefuseUpdate(t) \/ RefuseCreate(t) \/ SyncFails(t) \/ PublishFails(t)
             \/ CallFails(t) \/ AddCommunityFails(t) \/ Crash(t)
    BY <2>1, TypesFailure
  <2>2. CASE Route(t) \/ CreateDraft(t) \/ ReadAndMerge(t) \/ ScanVersions(t)
             \/ NextVersion(t) \/ MainVersion(t)
    BY <2>2, TypesRoute, TypesRead, TypesScan, TypesSplit, TypesMain
  <2>3. CASE OpenDraft(t) \/ FillDraft(t) \/ SyncFiles(t) \/ AddCommunity(t) \/ Publish(t)
    BY <2>3, TypesWrite, TypesPublish
  <2> QED
    BY <1>1, <2>1, <2>2, <2>3 DEF TaskStep
<1>2. CASE Finished \/ UNCHANGED vars
  <2>1. /\ published' = published /\ indexed' = indexed /\ drafts' = drafts
        /\ entry' = entry /\ task' = task
    BY <1>2 DEF Finished, vars
  <2> QED
    BY <2>1 DEF TypesInv, UntouchedTyped, Untouched, DraftsTyped, IndexTyped, Phases, Covering, Versioning,
                Alone, CoverOk, Accounted, Typed, HasDraft, Latest
<1> QED
  BY <1>1, <1>2, TypesOthers DEF Next

\* Only a publication lets a task report an update.
LEMMA UpdateReported ==
    ASSUME OwnerInv, NEW t \in Tasks, TaskStep(t) \/ Crash(t),
           NEW u \in Tasks, task[u].op # "update", task'[u].op = "update"
    PROVE  u = t /\ Publish(t) /\ task[t].last /\ task[t].pc = "publish"
<1>1. DOMAIN task = Tasks /\ DOMAIN task[t] = DOMAIN Idle
  BY DEF OwnerInv, Writers
<1>2. ASSUME NEW k, task' = [task EXCEPT ![t] = k], k.op # "update"
      PROVE  FALSE
  BY <1>1, <1>2
<1>3. ASSUME NEW op, op # "update", task' = Stop(t, op)
      PROVE  FALSE
  BY <1>3, Stopped DEF OwnerInv, Moves
<1>4. ASSUME DOMAIN task' = Tasks, \A v \in Tasks \ {t} : task'[v] = task[v],
             task'[t].op = task[t].op
      PROVE  FALSE
  BY <1>4
<1>5. CASE RefuseUpdate(t) \/ RefuseCreate(t) \/ SyncFails(t) \/ PublishFails(t)
           \/ CallFails(t) \/ AddCommunityFails(t)
  <2>1. task' = Stop(t, "none")
    BY <1>5 DEF RefuseUpdate, RefuseCreate, SyncFails, PublishFails, CallFails, AddCommunityFails
  <2> QED
    BY <1>3, <2>1
<1>6. CASE Crash(t)
  <2>1. task' = Stop(t, "lost")
    BY <1>6 DEF Crash, Stop
  <2> QED
    BY <1>3, <2>1
<1>7. CASE FillDraft(t) \/ SyncFiles(t) \/ AddCommunity(t)
  <2>1. \E pc : task' = [task EXCEPT ![t].pc = pc]
    BY <1>7 DEF FillDraft, SyncFiles, AddCommunity
  <2>2. PICK pc : task' = [task EXCEPT ![t].pc = pc]
    BY <2>1
  <2>3. Moves(t) /\ task'[t].op = task[t].op
    BY <2>2, Advanced DEF OwnerInv
  <2> QED
    BY <1>4, <2>3 DEF Moves
<1>8. CASE OpenDraft(t)
  <2>1. PICK target : task' = [task EXCEPT ![t].pc = "fill", ![t].target = target]
    BY <1>8 DEF OpenDraft
  <2> QED
    BY <1>1, <1>4, <2>1 DEF Idle
<1>9. CASE ScanVersions(t)
  <2>1. PICK f : task' = [task EXCEPT ![t].pc = "versions", ![t].existing = f]
    BY <1>9 DEF ScanVersions
  <2> QED
    BY <1>1, <1>4, <2>1 DEF Idle
<1>10. CASE CreateDraft(t)
  <2>1. PICK w, n, m : task' = [task EXCEPT ![t].pc = "sync", ![t].work = w, ![t].target = n,
                                         ![t].meta = m]
    BY <1>10 DEF CreateDraft
  <2> QED
    BY <1>1, <1>4, <2>1 DEF Idle
<1>11. CASE Route(t)
  <2>1. PICK pc, w, ver, seen :
          \/ task' = Stop(t, "none")
          \/ task' = [task EXCEPT ![t].pc = pc, ![t].work = w, ![t].ver = ver, ![t].seen = seen]
    BY <1>11 DEF Route
  <2> QED
    BY <1>1, <1>3, <1>4, <2>1 DEF Idle
<1>12. ASSUME NEW kind, NEW from, NEW meta, NEW last
       PROVE  /\ DOMAIN Plan(t, kind, from, meta, last) = DOMAIN Idle
              /\ Plan(t, kind, from, meta, last).op = task[t].op
  BY <1>1 DEF Plan, Idle
<1>13. CASE NextVersion(t)
  <2>1. PICK kind, from, meta : task' = [task EXCEPT ![t] = [Plan(t, kind, from, meta, FALSE)
                                                               EXCEPT !.todo = Tail(@)]]
    BY <1>13 DEF NextVersion
  <2>2. PICK plan : plan = Plan(t, kind, from, meta, FALSE)
    OBVIOUS
  <2>3. DOMAIN plan = DOMAIN Idle /\ plan.op = task[t].op
    BY <1>12, <2>2
  <2> QED
    BY <1>1, <1>4, <2>1, <2>2, <2>3 DEF Idle
<1>14. CASE MainVersion(t)
  <2>1. PICK from, meta : task' = [task EXCEPT ![t] = Plan(t, "version", from, meta, TRUE)]
    BY <1>14 DEF MainVersion
  <2> QED
    BY <1>1, <1>4, <1>12, <2>1
<1>15. CASE ReadAndMerge(t)
  <2>1. PICK cur, new, versions, from :
          \/ task' = [task EXCEPT ![t].read = cur, ![t].pc = "scan", ![t].todo = versions]
          \/ task' = Stop(t, "none")
          \/ task' = [[task EXCEPT ![t].read = cur]
                        EXCEPT ![t] = [Plan(t, "edit", from, new, TRUE) EXCEPT !.read = cur]]
    BY <1>15 DEF ReadAndMerge
  <2>2. PICK plan : plan = Plan(t, "edit", from, new, TRUE)
    OBVIOUS
  <2>3. DOMAIN plan = DOMAIN Idle /\ plan.op = task[t].op
    BY <1>12, <2>2
  <2>4. CASE task' = [task EXCEPT ![t].read = cur, ![t].pc = "scan", ![t].todo = versions]
    BY <1>1, <1>4, <2>4 DEF Idle
  <2>5. CASE task' = [[task EXCEPT ![t].read = cur] EXCEPT ![t] = [plan EXCEPT !.read = cur]]
    BY <1>1, <1>4, <2>3, <2>5 DEF Idle
  <2> QED
    BY <1>3, <2>1, <2>2, <2>4, <2>5
<1>16. CASE Publish(t)
  <2>1. \/ task' = Stop(t, "create")
        \/ task[t].last /\ task' = Stop(t, "update")
        \/ task' = [task EXCEPT ![t].pc = "versions"]
    BY <1>16 DEF Publish
  <2>2. task' # Stop(t, "create")
    BY <1>3
  <2>3. ASSUME task' = [task EXCEPT ![t].pc = "versions"]
        PROVE  FALSE
    BY <1>4, <2>3, Advanced DEF OwnerInv, Moves
  <2>4. task[t].last /\ task' = Stop(t, "update")
    BY <2>1, <2>2, <2>3
  <2>5. u = t
    BY <2>4, Stopped DEF OwnerInv, Moves
  <2> QED
    BY <1>16, <2>4, <2>5 DEF Publish
<1> QED
  BY <1>5, <1>6, <1>7, <1>8, <1>9, <1>10, <1>11, <1>13, <1>14, <1>15, <1>16 DEF TaskStep

-----------------------------------------------------------------------------
(* What the matcher saw                                                    *)

\* A task that updates nothing saw nothing that the filters look for.
Unseen == \A t \in Tasks : task[t].ver = 0 => task[t].seen \subseteq NamedByVersion(entry[t])

\* Only routing looks at the index.
Looked(t) == task'[t].ver = task[t].ver /\ task'[t].seen = task[t].seen

\* Planning keeps what the task saw.
LEMMA PlansLook ==
    ASSUME OwnerInv, NEW t \in Tasks,
           ReadAndMerge(t) \/ ScanVersions(t) \/ NextVersion(t) \/ MainVersion(t)
    PROVE  Moves(t) /\ Looked(t)
<1>1. DOMAIN task = Tasks /\ DOMAIN task[t] = DOMAIN Idle
  BY DEF OwnerInv, Writers
<1>2. ASSUME NEW kind, NEW from, NEW meta, NEW last
      PROVE  /\ DOMAIN Plan(t, kind, from, meta, last) = DOMAIN Idle
             /\ Plan(t, kind, from, meta, last).ver = task[t].ver
             /\ Plan(t, kind, from, meta, last).seen = task[t].seen
  BY <1>1 DEF Plan, Idle
<1>3. CASE ScanVersions(t)
  <2>1. PICK f : task' = [task EXCEPT ![t].pc = "versions", ![t].existing = f]
    BY <1>3 DEF ScanVersions
  <2> QED
    BY <1>1, <2>1 DEF Moves, Looked, Idle
<1>4. CASE NextVersion(t)
  <2>1. PICK kind, from, meta : task' = [task EXCEPT ![t] = [Plan(t, kind, from, meta, FALSE)
                                                               EXCEPT !.todo = Tail(@)]]
    BY <1>4 DEF NextVersion
  <2>2. PICK plan : plan = Plan(t, kind, from, meta, FALSE)
    OBVIOUS
  <2>3. DOMAIN plan = DOMAIN Idle /\ plan.ver = task[t].ver /\ plan.seen = task[t].seen
    BY <1>2, <2>2
  <2> QED
    BY <1>1, <2>1, <2>2, <2>3 DEF Moves, Looked, Idle
<1>5. CASE MainVersion(t)
  <2>1. PICK from, meta : task' = [task EXCEPT ![t] = Plan(t, "version", from, meta, TRUE)]
    BY <1>5 DEF MainVersion
  <2> QED
    BY <1>1, <1>2, <2>1 DEF Moves, Looked
<1>6. CASE ReadAndMerge(t)
  <2>1. PICK cur, new, versions, from :
          \/ task' = [task EXCEPT ![t].read = cur, ![t].pc = "scan", ![t].todo = versions]
          \/ task' = Stop(t, "none")
          \/ task' = [[task EXCEPT ![t].read = cur]
                        EXCEPT ![t] = [Plan(t, "edit", from, new, TRUE) EXCEPT !.read = cur]]
    BY <1>6 DEF ReadAndMerge
  <2>2. PICK plan : plan = Plan(t, "edit", from, new, TRUE)
    OBVIOUS
  <2>3. DOMAIN plan = DOMAIN Idle /\ plan.ver = task[t].ver /\ plan.seen = task[t].seen
    BY <1>2, <2>2
  <2>4. CASE task' = [task EXCEPT ![t].read = cur, ![t].pc = "scan", ![t].todo = versions]
    BY <1>1, <2>4 DEF Moves, Looked, Idle
  <2>5. CASE task' = [[task EXCEPT ![t].read = cur] EXCEPT ![t] = [plan EXCEPT !.read = cur]]
    BY <1>1, <2>3, <2>5 DEF Moves, Looked, Idle
  <2>6. CASE task' = Stop(t, "none")
    BY <2>6, Stopped DEF OwnerInv, Keeps, Looked
  <2> QED
    BY <2>1, <2>2, <2>4, <2>5, <2>6
<1> QED
  BY <1>3, <1>4, <1>5, <1>6

\* So does every call.
LEMMA CallsLook ==
    ASSUME OwnerInv, NEW t \in Tasks, TaskStep(t) \/ Crash(t), ~Route(t)
    PROVE  Moves(t) /\ Looked(t)
<1>1. DOMAIN task = Tasks /\ DOMAIN task[t] = DOMAIN Idle
  BY DEF OwnerInv, Writers
<1>2. ASSUME NEW op, task' = Stop(t, op) PROVE Moves(t) /\ Looked(t)
  BY <1>2, Stopped DEF OwnerInv, Keeps, Looked
<1>3. ASSUME NEW pc, task' = [task EXCEPT ![t].pc = pc] PROVE Moves(t) /\ Looked(t)
  BY <1>3, Advanced DEF OwnerInv, Keeps, Looked
<1>4. CASE RefuseUpdate(t) \/ SyncFails(t) \/ PublishFails(t) \/ CallFails(t)
           \/ RefuseCreate(t) \/ AddCommunityFails(t)
  BY <1>2, <1>4 DEF RefuseUpdate, SyncFails, PublishFails, CallFails, RefuseCreate,
                    AddCommunityFails
<1>5. CASE Crash(t)
  <2>1. task' = Stop(t, "lost")
    BY <1>5 DEF Crash, Stop
  <2> QED
    BY <1>2, <2>1
<1>6. CASE FillDraft(t) \/ SyncFiles(t) \/ AddCommunity(t)
  <2>1. \E pc : task' = [task EXCEPT ![t].pc = pc]
    BY <1>6 DEF FillDraft, SyncFiles, AddCommunity
  <2> QED
    BY <1>3, <2>1
<1>7. CASE OpenDraft(t)
  <2>1. PICK target : task' = [task EXCEPT ![t].pc = "fill", ![t].target = target]
    BY <1>7 DEF OpenDraft
  <2> QED
    BY <1>1, <2>1 DEF Moves, Looked, Idle
<1>8. CASE CreateDraft(t)
  <2>1. PICK w, n, m : task' = [task EXCEPT ![t].pc = "sync", ![t].work = w, ![t].target = n,
                                         ![t].meta = m]
    BY <1>8 DEF CreateDraft
  <2> QED
    BY <1>1, <2>1 DEF Moves, Looked, Idle
<1>9. CASE Publish(t)
  <2>1. \/ \E op : task' = Stop(t, op)
        \/ task' = [task EXCEPT ![t].pc = "versions"]
    BY <1>9 DEF Publish
  <2> QED
    BY <1>2, <1>3, <2>1
<1> QED
  BY <1>4, <1>5, <1>6, <1>7, <1>8, <1>9, PlansLook DEF TaskStep

\* A task goes on to create only when it saw nothing the filters look for.
LEMMA UnseenNext ==
    ASSUME OwnerInv, Unseen, [Next]_vars
    PROVE  Unseen'
<1>1. entry' = entry
  <2>1. ASSUME NEW t \in Tasks, TaskStep(t) \/ Crash(t) PROVE entry' = entry
    <3>1. CASE Route(t)
      BY <3>1 DEF Route, records
    <3>2. CASE RefuseUpdate(t)
      BY <3>2 DEF RefuseUpdate, records
    <3>3. CASE ReadAndMerge(t)
      BY <3>3 DEF ReadAndMerge, records
    <3>4. CASE ScanVersions(t)
      BY <3>4 DEF ScanVersions, records
    <3>5. CASE NextVersion(t)
      BY <3>5, Zenon DEF NextVersion, records
    <3>6. CASE MainVersion(t)
      BY <3>6 DEF MainVersion, records
    <3>7. CASE RefuseCreate(t)
      BY <3>7 DEF RefuseCreate, records
    <3>8. CASE OpenDraft(t)
      BY <3>8 DEF OpenDraft
    <3>9. CASE FillDraft(t)
      BY <3>9 DEF FillDraft
    <3>10. CASE SyncFiles(t)
      BY <3>10 DEF SyncFiles
    <3>11. CASE SyncFails(t)
      BY <3>11 DEF SyncFails
    <3>12. CASE Publish(t)
      BY <3>12 DEF Publish
    <3>13. CASE PublishFails(t)
      BY <3>13 DEF PublishFails
    <3>14. CASE CallFails(t)
      BY <3>14 DEF CallFails
    <3>15. CASE CreateDraft(t)
      BY <3>15, Zenon DEF CreateDraft
    <3>16. CASE AddCommunity(t)
      BY <3>16 DEF AddCommunity
    <3>17. CASE AddCommunityFails(t)
      BY <3>17 DEF AddCommunityFails
    <3>18. CASE Crash(t)
      BY <3>18 DEF Crash
    <3> QED
      BY <2>1, <3>1, <3>2, <3>3, <3>4, <3>5, <3>6, <3>7, <3>8, <3>9,
         <3>10, <3>11, <3>12, <3>13, <3>14, <3>15, <3>16, <3>17, <3>18 DEF TaskStep
  <2>2. ASSUME NEW w \in Works, Refresh(w) PROVE entry' = entry
    BY <2>2 DEF Refresh
  <2>3. ASSUME NEW w \in Works, CuratorEdit(w) PROVE entry' = entry
    BY <2>3 DEF CuratorEdit
  <2>4. ASSUME NEW w \in Works, NEW s \in Slots, CuratorPublish(w, s) PROVE entry' = entry
    BY <2>4 DEF CuratorPublish
  <2>5. ASSUME NEW w \in Works, NEW s \in Slots, CuratorDiscard(w, s) PROVE entry' = entry
    BY <2>5 DEF CuratorDiscard
  <2> QED
    BY <2>1, <2>2, <2>3, <2>4, <2>5 DEF Next, Finished, vars
<1>2. ASSUME NEW t \in Tasks, Moves(t), Looked(t) PROVE Unseen'
  BY <1>1, <1>2 DEF Moves, Looked, Unseen
<1>3. ASSUME NEW t \in Tasks, Route(t) PROVE Unseen'
  <2>1. PICK m : m = Match(entry[t])
    OBVIOUS
  <2>2. /\ m.kind \in {"error", "ambiguous", "unmigrated", "update", "create"}
        /\ m.kind = "update" => m.work \in Works /\ m.ver \in 1 .. Latest(m.work)
        /\ m.kind = "create" => Visible(entry[t]) \subseteq NamedByVersion(entry[t])
    BY <2>1, Answers
  <2>3. CASE m.kind \in {"error", "ambiguous", "unmigrated"}
    <3>1. task' = Stop(t, "none")
      BY <1>3, <2>1, <2>3 DEF Route
    <3>2. Moves(t) /\ Looked(t)
      BY <3>1, Stopped DEF OwnerInv, Keeps, Looked
    <3> QED
      BY <1>2, <3>2
  <2>4. CASE m.kind \in {"update", "create"}
    <3>1. task' = [task EXCEPT ![t].pc = m.kind, ![t].work = m.work, ![t].ver = m.ver,
                               ![t].seen = Visible(entry[t])]
      BY <1>3, <2>1, <2>4 DEF Route
    <3>2. DOMAIN task = Tasks /\ DOMAIN task[t] = DOMAIN Idle
      BY DEF OwnerInv, Writers
    <3>3. /\ task'[t].ver = m.ver /\ task'[t].seen = Visible(entry[t])
          /\ \A u \in Tasks \ {t} : task'[u] = task[u]
      BY <3>1, <3>2 DEF Idle
    <3>4. m.kind = "update" => m.ver # 0
      BY <2>2, Lengths DEF OwnerInv
    <3>5. task'[t].ver = 0 => task'[t].seen \subseteq NamedByVersion(entry[t])
      BY <2>2, <2>4, <3>3, <3>4
    <3>6. \A u \in Tasks : task'[u].ver = 0 => task'[u].seen \subseteq NamedByVersion(entry[u])
      BY <3>3, <3>5 DEF Unseen
    <3> QED
      BY <1>1, <3>6 DEF Unseen, NamedByVersion
  <2> QED
    BY <2>2, <2>3, <2>4
<1>4. ASSUME UNCHANGED task PROVE Unseen'
  BY <1>1, <1>4 DEF Unseen, NamedByVersion
<1>5. ASSUME NEW t \in Tasks, TaskStep(t) \/ Crash(t) PROVE Unseen'
  BY <1>2, <1>3, <1>5, CallsLook
<1>6. CASE UNCHANGED vars
  BY <1>4, <1>6 DEF vars
<1>7. CASE Next
  <2>1. \/ \E t \in Tasks : TaskStep(t) \/ Crash(t)
        \/ UNCHANGED task
    BY <1>7 DEF Next, Refresh, CuratorEdit, CuratorPublish, CuratorDiscard, Finished, vars
  <2> QED
    BY <1>4, <1>5, <2>1
<1> QED
  BY <1>6, <1>7

-----------------------------------------------------------------------------
(* Theorems                                                                *)

\* However a creation stops, by a refused call, a failed file or a draft somebody
\* removed, it leaves no draft of a record that was never published; only a lost
\* worker does.
THEOREM NoOrphanDraft == Spec => []FailedCreateLeavesNothing
<1>1. OwnerInv => FailedCreateLeavesNothing
  BY DEF OwnerInv
<1> QED
  BY <1>1, OwnerInit, OwnerNext, PTL DEF Spec

\* The writer creates a record only for an entry under whose identifiers the index
\* showed nothing, whichever filter would have found it, unless the entry names a
\* record by the id of a version.
THEOREM CreatesOnlyUnseen == Spec => []NoDuplicateOfVisible
<1>1. Init => Unseen
  <2> SUFFICES ASSUME Init, NEW t \in Tasks PROVE task[t].seen \subseteq NamedByVersion(entry[t])
    BY DEF Unseen
  <2>1. task[t] = Idle
    BY DEF Init
  <2>2. Idle.seen = {}
    BY DEF Idle
  <2> QED
    BY <2>1, <2>2
<1>2. OwnerInv /\ Unseen /\ [Next]_vars => Unseen'
  BY UnseenNext
<1>3. OwnerInv /\ Unseen => NoDuplicateOfVisible
  BY DEF OwnerInv, Writers, WriterOk, Unseen, NoDuplicateOfVisible
<1> QED
  BY <1>1, <1>2, <1>3, OwnerInit, OwnerNext, PTL DEF Spec

\* A correction that a curator is drafting is taken away only by a task that updates
\* that very version, when it writes its metadata or its publication comes to an
\* end; every other call of every other task leaves it.
THEOREM CorrectionsKept == Spec => DraftedWorkLostOnlyToUpdate
<1> DEFINE Kept == \A w \in Works, s \in Slots :
       (drafts[w][s].curated /\ ~drafts'[w][s].curated /\ task' # task)
       => \E t \in Tasks : /\ task[t].work = w /\ task[t].slot = s
                            /\ task[t].pc \in {"fill", "publish"}
                            /\ task'[t] # task[t]
<1>1. OwnerInv /\ [Next]_vars => [Kept]_vars
  <2> SUFFICES ASSUME OwnerInv, [Next]_vars, NEW w \in Works, NEW s \in Slots,
                      drafts[w][s].curated, ~drafts'[w][s].curated, task' # task
               PROVE  \E t \in Tasks : /\ task[t].work = w /\ task[t].slot = s
                                       /\ task[t].pc \in {"fill", "publish"}
                                       /\ task'[t] # task[t]
    OBVIOUS
  <2>1. CASE \E t \in Tasks : TaskStep(t) \/ Crash(t)
    BY <2>1, TakenByUpdate
  <2>2. CASE \/ \E x \in Works : Refresh(x) \/ CuratorEdit(x)
             \/ \E x \in Works, r \in Slots : CuratorPublish(x, r) \/ CuratorDiscard(x, r)
    BY <2>2 DEF Refresh, CuratorEdit, CuratorPublish, CuratorDiscard
  <2>3. CASE Finished \/ UNCHANGED vars
    BY <2>3 DEF Finished, vars
  <2> QED
    BY <2>1, <2>2, <2>3 DEF Next
<1> QED
  BY <1>1, OwnerInit, OwnerNext, PTL DEF Spec, DraftedWorkLostOnlyToUpdate

\* When a task that went through the versions of a record reports an update, every
\* split version of its entry is there below the record's own, provided no other task
\* took up the record: for any entries, versions and curators, whatever fails.
THEOREM AllVersionsThere == Spec => VersionsCovered
<1> DEFINE Complete == \A t \in Tasks :
       ( /\ task[t].op # "update" /\ task'[t].op = "update" /\ task[t].existing # <<>>
         /\ \A u \in Tasks \ {t} : task[u].work # task[t].work)
       => \A v \in ToSet(entry[t].versions) :
            \E i \in 1 .. Latest(task[t].work) : published'[task[t].work][i].rtype = v.rtype
<1>1. OwnerInv /\ TypesInv /\ [Next]_vars => [Complete]_vars
  <2> SUFFICES ASSUME OwnerInv, TypesInv, [Next]_vars, NEW t \in Tasks,
                      task[t].op # "update", task'[t].op = "update", task[t].existing # <<>>,
                      Alone(t), NEW v \in ToSet(entry[t].versions)
               PROVE  \E i \in 1 .. Latest(task[t].work) :
                        published'[task[t].work][i].rtype = v.rtype
    BY DEF Alone
  <2>1. PICK u \in Tasks : TaskStep(u) \/ Crash(u)
    BY DEF Next, Refresh, CuratorEdit, CuratorPublish, CuratorDiscard, Finished, vars
  <2>2. Publish(t) /\ task[t].last /\ task[t].pc = "publish"
    BY <2>1, UpdateReported
  <2>3. PICK w \in Works : w = task[t].work
    BY <2>2, VersioningWorks DEF Writing
  <2>4. CoverOk(task[t], entry[t].versions)
    BY <2>2 DEF TypesInv, Covering, Versioning, Writing
  <2>5. task[t].todo = <<>> /\ task[t].slot = 0
    BY <2>2, <2>4 DEF CoverOk, Writing
  <2>6. Accounted(task[t], v)
    BY <2>4 DEF CoverOk
  <2>7. v \notin ToSet(task[t].todo)
    BY <2>5 DEF ToSet
  <2>8. PICK i \in Nat : Typed(w, i, v.rtype)
    BY <2>2, <2>3, <2>6, <2>7 DEF Accounted
  <2>9. PICK d : published' = [published EXCEPT ![w] = Append(@, d)]
    BY <2>2, <2>3, <2>5 DEF Publish
  <2>10. published'[w] = Append(published[w], d)
    BY <2>9 DEF OwnerInv, Versions
  <2>11. Typed(w, i, v.rtype)'
    BY <2>8, <2>10, TypesKept DEF OwnerInv
  <2> QED
    BY <2>3, <2>8, <2>11 DEF Typed
<1> QED
  BY <1>1, OwnerInit, OwnerNext, TypesInit, TypesNext, PTL DEF Spec, VersionsCovered

-----------------------------------------------------------------------------
(* What the drafts hold: the inductive invariant of the files and the        *)
(* corrections                                                               *)

\* The sets of files of the entries and of their split versions.
EntryFiles ==
  UNION {{entry[t].files} \cup {entry[t].versions[i].files : i \in DOMAIN entry[t].versions}
         : t \in Tasks}

\* Task t works on the draft of w's next version that is open now.
HasNew(t, w) ==
  /\ task[t].work = w /\ task[t].slot = 0 /\ task[t].target = opened[w]
  /\ task[t].pc \in {"fill", "sync", "community", "publish"}

\* What task k has planned for entry e: the files are the entry's or a split
\* version's, a new version of the record's own type has some, and the last version
\* is as corrected as the record was when it was read.
PlannedOk(k, e) ==
  /\ k.todo \in Seq(ToSet(e.versions))
  /\ k.ver = 0 => k.from = 0
  /\ k.pc \in {"scan", "versions"} \/ ~k.last => e.files # {}
  /\ k.pc \in Writing =>
       /\ k.meta.files \in EntryFiles
       /\ k.slot \in {0, k.from} /\ k.from \in 0 .. Latest(k.work)
       /\ k.ver = 0 => published[k.work] = <<>>
       /\ k.slot = 0 /\ k.last /\ k.ver # 0 => k.meta.files # {}
  /\ k.pc \in {"open", "fill"} /\ k.last => k.meta.curated = k.read.curated

\* An edit draft has a whole set of files, unless a task left it.
EditDraftOk(w, s) ==
  HasDraft(w, s) =>
    /\ s \in 1 .. Latest(w)
    /\ \/ <<w, s>> \in abandoned
       \/ drafts[w][s].files = published[w][s].files
       \/ drafts[w][s].files \in EntryFiles

\* The draft of a new version belongs to one task, unless a task left it or found it;
\* it has no files before they are synchronised, and a whole set of them after.
NewDraftOk(w) ==
  HasDraft(w, 0) /\ <<w, 0>> \notin abandoned \cup shared =>
    /\ \A t, u \in Tasks : HasNew(t, w) /\ HasNew(u, w) => t = u
    /\ \A t \in Tasks : HasNew(t, w) =>
         /\ task[t].pc \in {"fill", "sync"} => drafts[w][0].files = {}
         /\ task[t].pc \in {"community", "publish"} =>
              \/ drafts[w][0].files \in EntryFiles
              \/ ~task[t].last /\ task[t].meta.files = {}
              \/ task[t].from # Latest(w)

\* A draft without the correction of the version it replaces was written by a task for
\* a split version, or from what the task had read before the correction.
CorrectionOk(w, s) ==
  ( /\ published[w] # <<>> /\ HasDraft(w, s) /\ ~drafts[w][s].curated
    /\ \/ s # 0 /\ published[w][s].curated
       \/ s = 0 /\ \E t \in Tasks : HasNew(t, w) /\ task[t].pc \in {"sync", "publish"})
  => \E t \in Tasks : Uncorrected(t, w, s)

\* What is said of one place: the draft in slot s of w.
PlaceOk(w, s) ==
  /\ s # 0 => EditDraftOk(w, s)
  /\ s = 0 => NewDraftOk(w)
  /\ CorrectionOk(w, s)

PlannedInv == \A t \in Tasks : PlannedOk(task[t], entry[t])
DraftsOk == \A w \in Works : \A s \in Slots : PlaceOk(w, s)
DraftInv == PlannedInv /\ DraftsOk

\* What is planned by a task that does not move is right when versions are added.
LEMMA PlannedStill ==
    ASSUME NEW k, NEW e, PlannedOk(k, e), k.pc \in Writing => k.work \in Works,
           Versions, Versions', Grown, entry' = entry,
           k.pc \in Writing /\ k.ver = 0 => published'[k.work] = <<>>
    PROVE  PlannedOk(k, e)'
<1>1. EntryFiles' = EntryFiles
  BY DEF EntryFiles
<1>2. k.pc \in Writing => k.from \in 0 .. Latest(k.work)'
  <2>1. \A w \in Works : Latest(w) \in Nat /\ Latest(w)' \in Nat /\ Latest(w) <= Latest(w)'
    <3>1. \A w \in Works : \E P, Q : published[w] \in Seq(P) /\ published'[w] \in Seq(Q)
      BY DEF Versions
    <3> QED
      BY <3>1, LenProperties DEF Latest, Grown
  <2> QED
    BY <2>1 DEF PlannedOk
<1> QED
  BY <1>1, <1>2 DEF PlannedOk

\* A task that works on a draft has a record.
LEMMA WritingWorks ==
    ASSUME OwnerInv, NEW t \in Tasks, task[t].pc \in Writing
    PROVE  task[t].work \in Works
  BY Updating, Working DEF Writing

\* When task t moves, the other tasks' plans stay right.
LEMMA PlannedKept ==
    ASSUME OwnerInv, Versions', PlannedInv, NEW t \in Tasks, Moves(t), Grown, FirstBy(t),
           entry' = entry, PlannedOk(task[t], entry[t])'
    PROVE  PlannedInv'
<1>1. ASSUME NEW u \in Tasks \ {t} PROVE PlannedOk(task[u], entry[u])'
  <2>1. PICK k, e : k = task[u] /\ e = entry[u]
    OBVIOUS
  <2>2. task'[u] = k /\ entry'[u] = e /\ PlannedOk(k, e)
    BY <2>1 DEF Moves, PlannedInv
  <2>3. k.pc \in Writing => k.work \in Works
    BY <2>1, WritingWorks
  <2>4. k.pc \in Writing /\ k.ver = 0 => published'[k.work] = <<>>
    <3> SUFFICES ASSUME k.pc \in Writing, k.ver = 0, published'[k.work] # <<>> PROVE FALSE
      OBVIOUS
    <3>1. k.work \in Works /\ published[k.work] = <<>>
      BY <2>2, <2>3 DEF PlannedOk
    <3>2. k.work = task[t].work
      BY <3>1 DEF FirstBy
    <3> QED
      BY <3>1, <3>2, <2>1 DEF OwnerInv, SingleOwner
  <2>5. PlannedOk(k, e)'
    BY <2>2, <2>3, <2>4, PlannedStill DEF OwnerInv
  <2> QED
    BY <2>2, <2>5
<1> QED
  BY <1>1 DEF PlannedInv

\* What a task plans is planned right: task q is what task t is after the step.
LEMMA PlannedOpen ==
    ASSUME OwnerInv, NEW t \in Tasks, NEW e, NEW q, q.pc = "open",
           q.todo \in Seq(ToSet(e.versions)),
           q.ver # 0, q.work \in Works, q.from \in 1 .. Latest(q.work), q.slot \in {0, q.from},
           q.meta.files \in EntryFiles, ~q.last => e.files # {},
           q.last => q.meta.curated = q.read.curated /\ (q.slot = 0 => q.meta.files # {})
    PROVE  PlannedOk(q, e)
<1>1. Latest(q.work) \in Nat
  BY Lengths DEF OwnerInv, Latest
<1>2. q.from \in 0 .. Latest(q.work)
  BY <1>1
<1> QED
  BY <1>2 DEF PlannedOk, Writing

\* A merged record has the entry's files and the record's corrections.
LEMMA MergeFields ==
    ASSUME NEW cur, Marked(cur), NEW e
    PROVE  Merge(cur, e).files = e.files /\ Merge(cur, e).curated = cur.curated
  BY DEF Marked, Merge

\* The entry's own files, and those of its split versions, are entries' files.
LEMMA OwnFiles ==
    ASSUME NEW t \in Tasks
    PROVE  /\ entry[t].files \in EntryFiles
           /\ \A v \in ToSet(entry[t].versions) : v.files \in EntryFiles
  BY DEF EntryFiles, ToSet

\* Reading the record.
LEMMA PlannedRead ==
    ASSUME OwnerInv, PlannedInv, NEW t \in Tasks, ReadAndMerge(t)
    PROVE  PlannedOk(task[t], entry[t])'
<1> DEFINE w == task[t].work
<1>1. PICK cur, e : cur = published[w][task[t].ver] /\ e = entry[t]
  OBVIOUS
<1>2. PICK new : new = Merge(cur, e)
  OBVIOUS
<1>3. /\ UNCHANGED records /\ task[t].pc = "update"
      /\ \/ /\ FilesDiffer(cur.files, e.files)
            /\ task' = [task EXCEPT ![t].read = cur, ![t].pc = "scan", ![t].todo = e.versions]
         \/ task' = Stop(t, "none")
         \/ task' = [[task EXCEPT ![t].read = cur] EXCEPT
                       ![t] = [Plan(t, "edit", task[t].ver, new, TRUE) EXCEPT !.read = cur]]
  BY <1>1, <1>2 DEF ReadAndMerge
<1>4. /\ w \in Works /\ task[t].ver \in 1 .. Latest(w) /\ task[t].ver # 0 /\ Marked(cur)
  BY <1>1, <1>3, Updating
<1>5. /\ DOMAIN task = Tasks /\ DOMAIN task[t] = DOMAIN Idle /\ PlannedOk(task[t], e)
      /\ e.versions \in Seq(ToSet(e.versions)) /\ entry'[t] = e
  BY <1>1, <1>3 DEF OwnerInv, Writers, PlannedInv, Entries, records
<1>6. CASE task' = Stop(t, "none")
  <2>1. Keeps(t) /\ task'[t].pc = "done"
    BY <1>6, Stopped DEF OwnerInv
  <2>2. PlannedOk(task'[t], e)
    BY <1>3, <1>5, <2>1 DEF PlannedOk, Keeps, Writing
  <2> QED
    BY <1>5, <2>1, <2>2 DEF PlannedOk, Writing
<1>7. CASE /\ FilesDiffer(cur.files, e.files)
           /\ task' = [task EXCEPT ![t].read = cur, ![t].pc = "scan", ![t].todo = e.versions]
  <2>1. PICK q : q = task'[t]
    OBVIOUS
  <2>2. /\ q.pc = "scan" /\ q.todo = e.versions /\ q.ver = task[t].ver
    BY <1>5, <1>7, <2>1 DEF Idle
  <2>3. e.files # {}
    BY <1>7 DEF FilesDiffer
  <2> QED
    BY <1>4, <1>5, <2>1, <2>2, <2>3 DEF PlannedOk, Writing
<1>8. CASE task' = [[task EXCEPT ![t].read = cur] EXCEPT
                      ![t] = [Plan(t, "edit", task[t].ver, new, TRUE) EXCEPT !.read = cur]]
  <2>1. PICK plan : plan = Plan(t, "edit", task[t].ver, new, TRUE)
    OBVIOUS
  <2>2. PICK q : q = [plan EXCEPT !.read = cur]
    OBVIOUS
  <2>3. /\ DOMAIN plan = DOMAIN Idle /\ plan.pc = "open" /\ plan.from = task[t].ver
        /\ plan.meta = new /\ plan.last = TRUE /\ plan.slot = task[t].ver
        /\ plan.work = w /\ plan.ver = task[t].ver /\ plan.todo = task[t].todo
    BY <1>5, <2>1 DEF Plan, Idle
  <2>4. /\ q.pc = "open" /\ q.from = task[t].ver /\ q.meta = new /\ q.last
        /\ q.slot = task[t].ver /\ q.work = w /\ q.ver = task[t].ver
        /\ q.todo = task[t].todo /\ q.read = cur
    BY <2>2, <2>3 DEF Idle
  <2>5. task'[t] = q
    BY <1>5, <1>8, <2>1, <2>2
  <2>6. new.files \in EntryFiles /\ new.curated = cur.curated
    BY <1>1, <1>2, <1>4, MergeFields, OwnFiles
  <2>7. q.todo \in Seq(ToSet(e.versions))
    BY <1>5, <2>4 DEF PlannedOk
  <2>8. PlannedOk(q, e)
    BY <1>4, <2>4, <2>6, <2>7, PlannedOpen
  <2>9. EntryFiles' = EntryFiles /\ published' = published
    BY <1>3 DEF records, EntryFiles
  <2> QED
    BY <1>5, <2>5, <2>8, <2>9 DEF PlannedOk, Latest
<1> QED
  BY <1>3, <1>6, <1>7, <1>8

\* Planning a split version or the record's own.
LEMMA PlannedNext ==
    ASSUME OwnerInv, PlannedInv, NEW t \in Tasks, NextVersion(t) \/ MainVersion(t)
    PROVE  PlannedOk(task[t], entry[t])'
<1> DEFINE w == task[t].work
<1>1. PICK e : e = entry[t]
  OBVIOUS
<1>2. UNCHANGED records /\ task[t].pc = "versions"
  BY DEF NextVersion, MainVersion
<1>3. /\ DOMAIN task = Tasks /\ DOMAIN task[t] = DOMAIN Idle /\ PlannedOk(task[t], e)
      /\ entry'[t] = e /\ PlanOk(task[t]) /\ EntryFiles' = EntryFiles /\ published' = published
  BY <1>1, <1>2 DEF OwnerInv, Writers, PlannedInv, records, EntryFiles
<1>4. /\ Marked(task[t].read) /\ e.files # {} /\ task[t].todo \in Seq(ToSet(e.versions))
      /\ \A x \in DOMAIN task[t].existing : task[t].existing[x] \in 1 .. Latest(w)
  BY <1>2, <1>3 DEF PlanOk, PlannedOk
<1>5. /\ w \in Works /\ task[t].ver \in 1 .. Latest(w) /\ task[t].ver # 0 /\ published[w] # <<>>
  BY <1>2, Updating
<1>6. ASSUME NEW q, task' = [task EXCEPT ![t] = q], PlannedOk(q, e)
      PROVE  PlannedOk(task[t], entry[t])'
  <2>1. task'[t] = q
    BY <1>3, <1>6
  <2> QED
    BY <1>3, <1>6, <2>1 DEF PlannedOk, Latest
<1>7. CASE NextVersion(t)
  <2> DEFINE v == Head(task[t].todo)
  <2>1. PICK old : old = IF v.rtype \in DOMAIN task[t].existing THEN task[t].existing[v.rtype]
                         ELSE task[t].ver
    OBVIOUS
  <2>2. PICK kind : /\ kind \in {"edit", "version"} /\ task[t].todo # <<>>
                    /\ task' = [task EXCEPT ![t] = [Plan(t, kind, old, Raw(v), FALSE)
                                                      EXCEPT !.todo = Tail(@)]]
    BY <1>7, <2>1 DEF NextVersion
  <2>3. PICK plan : plan = Plan(t, kind, old, Raw(v), FALSE)
    OBVIOUS
  <2>4. PICK q : q = [plan EXCEPT !.todo = Tail(@)]
    OBVIOUS
  <2>5. /\ DOMAIN plan = DOMAIN Idle /\ plan.pc = "open" /\ plan.from = old
        /\ plan.meta = Raw(v) /\ plan.last = FALSE /\ plan.slot \in {0, old}
        /\ plan.work = w /\ plan.ver = task[t].ver /\ plan.todo = task[t].todo
    BY <1>3, <2>3 DEF Plan, Idle
  <2>6. /\ q.pc = "open" /\ q.from = old /\ q.meta = Raw(v) /\ ~q.last
        /\ q.slot \in {0, old} /\ q.work = w /\ q.ver = task[t].ver
        /\ q.todo = Tail(task[t].todo)
    BY <2>4, <2>5 DEF Idle
  <2>7. v \in ToSet(e.versions) /\ q.todo \in Seq(ToSet(e.versions))
    BY <1>4, <2>2, <2>6, HeadTailProperties
  <2>8. Raw(v).files \in EntryFiles
    BY <1>1, <2>7, OwnFiles DEF Raw
  <2>9. old \in 1 .. Latest(w)
    BY <1>4, <1>5, <2>1
  <2>10. PlannedOk(q, e)
    BY <1>4, <1>5, <2>6, <2>7, <2>8, <2>9, PlannedOpen
  <2> QED
    BY <1>6, <2>2, <2>3, <2>4, <2>10
<1>8. CASE MainVersion(t)
  <2>1. PICK n, new : n = Latest(w) /\ new = Merge(task[t].read, e)
    OBVIOUS
  <2>2. task' = [task EXCEPT ![t] = Plan(t, "version", n, new, TRUE)]
    BY <1>1, <1>8, <2>1 DEF MainVersion
  <2>3. PICK q : q = Plan(t, "version", n, new, TRUE)
    OBVIOUS
  <2>4. /\ q.pc = "open" /\ q.from = n /\ q.meta = new /\ q.last
        /\ q.slot = 0 /\ q.work = w /\ q.ver = task[t].ver /\ q.todo = task[t].todo
        /\ q.read = task[t].read
    BY <1>3, <2>3 DEF Plan, Idle
  <2>5. new.files = e.files /\ new.files \in EntryFiles /\ new.curated = q.read.curated
    BY <1>1, <1>4, <2>1, <2>4, MergeFields, OwnFiles
  <2>6. n \in 1 .. Latest(w)
    BY <1>5, <2>1, Lengths DEF OwnerInv
  <2>7. PlannedOk(q, e)
    BY <1>4, <1>5, <2>4, <2>5, <2>6, PlannedOpen
  <2> QED
    BY <1>6, <2>2, <2>3, <2>7
<1> QED
  BY <1>7, <1>8

\* Plans stay right when a task moves.
LEMMA PlannedStep ==
    ASSUME OwnerInv, OwnerInv', PlannedInv, NEW t \in Tasks, TaskStep(t) \/ Crash(t)
    PROVE  PlannedInv'
<1> DEFINE e == entry[t]
<1>1. PlannedOk(task[t], e) /\ WriterOk(task[t])
  BY DEF PlannedInv, OwnerInv, Writers
<1>2. ASSUME published' = published
      PROVE  Grown /\ FirstBy(t)
  <2>1. \A v \in Works : Latest(v) \in Nat /\ Latest(v)' = Latest(v)
    BY <1>2, Lengths DEF OwnerInv, Latest
  <2> QED
    BY <1>2, <2>1 DEF Grown, FirstBy
<1>3. ASSUME Moves(t), Grown, FirstBy(t), entry' = entry, PlannedOk(task[t], entry[t])'
      PROVE  PlannedInv'
  BY <1>3, PlannedKept DEF OwnerInv
<1>4. ASSUME entry' = entry
      PROVE  EntryFiles' = EntryFiles
  BY <1>4 DEF EntryFiles
<1>5. CASE Route(t)
  <2>1. /\ Moves(t) /\ UNCHANGED records /\ task[t].pc = "route"
        /\ task'[t].pc \in {"done", "update", "create"} /\ task'[t].todo = task[t].todo
        /\ task'[t].last = task[t].last /\ task'[t].from = task[t].from
    BY <1>5, RouteMoves
  <2>2. task[t].ver = 0 /\ task[t].last
    BY <1>1, <2>1 DEF WriterOk
  <2>3. PlannedOk(task[t], entry[t])'
    BY <1>1, <2>1, <2>2 DEF PlannedOk, Writing, records
  <2> QED
    BY <1>2, <1>3, <2>1, <2>3 DEF records
<1>6. CASE ScanVersions(t)
  <2>1. /\ UNCHANGED records /\ task[t].pc = "scan"
        /\ \E f : task' = [task EXCEPT ![t].pc = "versions", ![t].existing = f]
    BY <1>6 DEF ScanVersions
  <2>2. DOMAIN task = Tasks /\ DOMAIN task[t] = DOMAIN Idle
    BY DEF OwnerInv, Writers
  <2>3. /\ task'[t].pc = "versions" /\ task'[t].todo = task[t].todo
        /\ task'[t].ver = task[t].ver /\ task'[t].from = task[t].from
    BY <2>1, <2>2 DEF Idle
  <2>4. PlannedOk(task[t], entry[t])'
    BY <1>1, <2>1, <2>3 DEF PlannedOk, Writing, records
  <2> QED
    BY <1>2, <1>3, <1>6, <2>1, <2>4, PlanMoves DEF records
<1>7. CASE ReadAndMerge(t) \/ NextVersion(t) \/ MainVersion(t)
  <2>1. Moves(t) /\ UNCHANGED records
    BY <1>7, PlanMoves
  <2>2. PlannedOk(task[t], entry[t])'
    BY <1>7, PlannedRead, PlannedNext
  <2> QED
    BY <1>2, <1>3, <2>1, <2>2 DEF records
<1>8. CASE \/ RefuseUpdate(t) \/ RefuseCreate(t) \/ SyncFails(t) \/ PublishFails(t)
           \/ CallFails(t) \/ AddCommunityFails(t) \/ Crash(t)
  <2>1. /\ Moves(t) /\ Keeps(t) /\ task'[t].pc = "done"
        /\ published' = published /\ entry' = entry
    BY <1>8, FailureMoves
  <2>2. PlannedOk(task[t], entry[t])'
    BY <1>1, <2>1 DEF PlannedOk, Writing, Keeps
  <2> QED
    BY <1>2, <1>3, <2>1, <2>2
<1>9. CASE FillDraft(t) \/ SyncFiles(t) \/ AddCommunity(t)
  <2>1. /\ Moves(t) /\ Keeps(t) /\ task[t].pc \in {"fill", "sync", "community"}
        /\ task'[t].pc \in {"sync", "community", "publish"}
        /\ published' = published /\ entry' = entry
    BY <1>9, CallMoves
  <2>2. PlannedOk(task[t], entry[t])'
    BY <1>1, <1>4, <2>1 DEF PlannedOk, Writing, Keeps, Latest
  <2> QED
    BY <1>2, <1>3, <2>1, <2>2
<1>10. CASE Publish(t)
  <2>1. /\ Moves(t) /\ Keeps(t) /\ task'[t].pc \in {"done", "versions"}
        /\ task'[t].pc = "versions" => ~task[t].last
        /\ entry' = entry
    BY <1>10, PublishMoves
  <2>2. PlannedOk(task[t], entry[t])'
    BY <1>1, <2>1 DEF PlannedOk, Writing, Keeps
  <2>3. Grown /\ FirstBy(t)
    BY <1>10, Publication DEF FirstBy
  <2> QED
    BY <1>3, <2>1, <2>2, <2>3
<1>11. CASE OpenDraft(t)
  <2>1. /\ Moves(t) /\ task[t].pc = "open" /\ task'[t].pc = "fill"
        /\ task'[t].work = task[t].work /\ task'[t].slot = task[t].slot
        /\ task'[t].ver = task[t].ver /\ task'[t].meta = task[t].meta
        /\ task'[t].from = task[t].from /\ task'[t].last = task[t].last
        /\ task'[t].read = task[t].read /\ task'[t].todo = task[t].todo
        /\ published' = published /\ entry' = entry
    BY <1>11, OpenMoves
  <2>2. PlannedOk(task[t], entry[t])'
    BY <1>1, <1>4, <2>1 DEF PlannedOk, Writing, Latest
  <2> QED
    BY <1>2, <1>3, <2>1, <2>2
<1>12. CASE CreateDraft(t)
  <2>1. PICK w \in Works :
          /\ Moves(t) /\ task[t].pc = "create" /\ task'[t].pc = "sync" /\ task'[t].work = w
          /\ task'[t].ver = 0 /\ task'[t].slot = 0 /\ task'[t].last
          /\ task'[t].meta = Raw(entry[t]) /\ task'[t].todo = task[t].todo
          /\ task'[t].from = task[t].from /\ published' = published /\ entry' = entry
          /\ published[w] = <<>>
    BY <1>12, CreateMoves
  <2>2. task[t].from = 0
    BY <1>1, <2>1 DEF WriterOk, PlannedOk
  <2>3. Raw(entry[t]).files \in EntryFiles
    BY OwnFiles DEF Raw
  <2>4. Latest(w) \in Nat
    BY Lengths DEF OwnerInv, Latest
  <2>5. PlannedOk(task[t], entry[t])'
    BY <1>1, <1>4, <2>1, <2>2, <2>3, <2>4 DEF PlannedOk, Writing, Latest
  <2> QED
    BY <1>2, <1>3, <2>1, <2>5
<1> QED
  BY <1>5, <1>6, <1>7, <1>8, <1>9, <1>10, <1>11, <1>12 DEF TaskStep

-----------------------------------------------------------------------------
(* Drafts a step leaves alone, and those it removes                        *)

\* Nothing is said of a draft that is gone.
LEMMA Gone ==
    ASSUME NEW w, NEW s, drafts'[w][s] = NoDraft
    PROVE  PlaceOk(w, s)'
  BY DEF PlaceOk, EditDraftOk, NewDraftOk, CorrectionOk, HasDraft

\* A draft that a step leaves alone is still right, when no task comes to work on it
\* and those that had written it are still there.
LEMMA LeftAlone ==
    ASSUME Versions, Versions', Grown, NEW w \in Works, NEW s \in Slots, PlaceOk(w, s),
           entry' = entry, drafts'[w][s] = drafts[w][s],
           <<w, s>> \in abandoned => <<w, s>> \in abandoned',
           <<w, s>> \in shared => <<w, s>> \in shared',
           s \in 1 .. Latest(w) => published'[w][s] = published[w][s],
           s = 0 => Latest(w)' = Latest(w),
           \A u \in Tasks : s = 0 /\ HasNew(u, w)' => HasNew(u, w) /\ task'[u] = task[u],
           \A u \in Tasks : Uncorrected(u, w, s) => Uncorrected(u, w, s)'
    PROVE  PlaceOk(w, s)'
<1>1. EntryFiles' = EntryFiles
  BY DEF EntryFiles
<1>2. CASE s # 0
  <2>1. \A n \in 1 .. Latest(w) : n \in 1 .. Latest(w)'
    BY Longer
  <2>2. EditDraftOk(w, s)'
    BY <1>1, <1>2, <2>1 DEF PlaceOk, EditDraftOk, HasDraft
  <2>3. CorrectionOk(w, s)'
    <3>1. HasDraft(w, s)' => s \in 1 .. Latest(w)
      BY <1>2 DEF PlaceOk, EditDraftOk, HasDraft
    <3>2. s \in 1 .. Latest(w) => published[w] # <<>>
      BY Lengths
    <3> QED
      BY <1>2, <3>1, <3>2 DEF PlaceOk, CorrectionOk, HasDraft
  <2> QED
    BY <1>2, <2>2, <2>3 DEF PlaceOk
<1>3. CASE s = 0
  <2>1. NewDraftOk(w)'
    BY <1>1, <1>3 DEF PlaceOk, NewDraftOk, HasDraft
  <2>2. CorrectionOk(w, s)'
    <3>1. published'[w] # <<>> => published[w] # <<>>
      BY <1>3, EmptySeq DEF Latest, Versions
    <3> QED
      BY <1>3, <3>1 DEF PlaceOk, CorrectionOk, HasDraft
  <2> QED
    BY <1>3, <2>1, <2>2 DEF PlaceOk
<1> QED
  BY <1>2, <1>3

\* The same for the step of a task that works elsewhere.
LEMMA LeftByTask ==
    ASSUME Versions, Versions', Grown, NEW w \in Works, NEW s \in Slots, PlaceOk(w, s),
           NEW t \in Tasks, Moves(t),
           entry' = entry, drafts'[w][s] = drafts[w][s],
           <<w, s>> \in abandoned => <<w, s>> \in abandoned',
           <<w, s>> \in shared => <<w, s>> \in shared',
           s \in 1 .. Latest(w) => published'[w][s] = published[w][s],
           s = 0 => Latest(w)' = Latest(w) /\ opened'[w] = opened[w],
           s = 0 => ~HasNew(t, w)',
           Uncorrected(t, w, s) => Uncorrected(t, w, s)'
    PROVE  PlaceOk(w, s)'
<1>1. \A u \in Tasks \ {t} : task'[u] = task[u]
  BY DEF Moves
<1>2. \A u \in Tasks : s = 0 /\ HasNew(u, w)' => HasNew(u, w) /\ task'[u] = task[u]
  BY <1>1 DEF HasNew
<1>3. \A u \in Tasks : Uncorrected(u, w, s) => Uncorrected(u, w, s)'
  BY <1>1 DEF Uncorrected
<1> QED
  BY <1>2, <1>3, LeftAlone

\* What publishing the draft in slot s does to the versions.
LEMMA OtherVersions ==
    ASSUME Versions, NEW w \in Works, NEW s \in Slots, NEW d,
           published'[w] = IF s = 0 THEN Append(published[w], d) ELSE [published[w] EXCEPT ![s] = d]
    PROVE  /\ \A n \in 1 .. Latest(w) : n # s => published'[w][n] = published[w][n]
           /\ s # 0 => Latest(w)' = Latest(w)
           /\ s \in 1 .. Latest(w) => published'[w][s] = d
           /\ s = 0 => Latest(w)' = Latest(w) + 1 /\ published'[w][Latest(w) + 1] = d
<1>1. PICK S, v : v = published[w] /\ v \in Seq(S)
  BY DEF Versions
<1>2. Len(v) \in Nat /\ DOMAIN v = 1 .. Len(v)
  BY <1>1, LenProperties
<1>3. CASE s = 0
  <2>1. PICK T : T = S \cup {d}
    OBVIOUS
  <2>2. v \in Seq(T) /\ d \in T
    BY <1>1, <1>2, <2>1
  <2>3. /\ Len(Append(v, d)) = Len(v) + 1 /\ Append(v, d)[Len(v) + 1] = d
        /\ \A n \in 1 .. Len(v) : Append(v, d)[n] = v[n]
    BY <2>2, AppendProperties
  <2> QED
    BY <1>1, <1>3, <2>3 DEF Latest
<1>4. CASE s # 0
  <2>1. PICK u : u = [v EXCEPT ![s] = d]
    OBVIOUS
  <2>2. DOMAIN u = 1 .. Len(v) /\ \A n \in 1 .. Len(v) : u[n] = IF n = s THEN d ELSE v[n]
    BY <1>2, <2>1
  <2>3. PICK T : T = S \cup {d}
    OBVIOUS
  <2>4. \A n \in 1 .. Len(v) : v[n] \in S
    BY <1>1
  <2>5. u \in [1 .. Len(v) -> T]
    BY <1>2, <2>1, <2>2, <2>3, <2>4
  <2>6. u \in Seq(T)
    BY <1>2, <2>5, IsASeq
  <2>7. Len(u) = Len(v)
    BY <1>2, <2>2, <2>6, LenProperties
  <2> QED
    BY <1>1, <1>4, <2>1, <2>2, <2>7 DEF Latest
<1> QED
  BY <1>3, <1>4

\* A task that works on one draft leaves the others as they are.
LEMMA Elsewhere ==
    ASSUME OwnerInv, OwnerInv', DraftsOk, Grown, NEW t \in Tasks, Moves(t), entry' = entry,
           NEW x, NEW r, drafts' = drafts \/ \E d : SetDraft(x, r, d),
           task'[t].work = x, task'[t].slot = r,
           (task[t].work = x /\ task[t].slot = r) \/ task[t].work \notin Works,
           abandoned \ {<<x, r>>} \subseteq abandoned', shared \ {<<x, r>>} \subseteq shared',
           \A w \in Works, s \in Slots : <<w, s>> # <<x, r>> /\ s \in 1 .. Latest(w) =>
             published'[w][s] = published[w][s],
           \A w \in Works : <<w, 0>> # <<x, r>> => Latest(w)' = Latest(w) /\ opened'[w] = opened[w]
    PROVE  \A w \in Works, s \in Slots : <<w, s>> # <<x, r>> => PlaceOk(w, s)'
<1> SUFFICES ASSUME NEW w \in Works, NEW s \in Slots, <<w, s>> # <<x, r>>
             PROVE  PlaceOk(w, s)'
  OBVIOUS
<1>1. Versions /\ Versions' /\ Drafts /\ PlaceOk(w, s)
  BY DEF OwnerInv, DraftsOk
<1>2. drafts'[w][s] = drafts[w][s]
  <2>1. CASE drafts' = drafts
    BY <2>1
  <2>2. ASSUME NEW d, SetDraft(x, r, d) PROVE drafts'[w][s] = drafts[w][s]
    BY <1>1, <2>2, OtherDrafts
  <2> QED
    BY <2>1, <2>2
<1>3. s = 0 => ~HasNew(t, w)'
  BY DEF HasNew
<1>4. ~Uncorrected(t, w, s)
  BY DEF Uncorrected
<1>5. <<w, s>> \in abandoned => <<w, s>> \in abandoned'
  OBVIOUS
<1>6. <<w, s>> \in shared => <<w, s>> \in shared'
  OBVIOUS
<1> QED
  BY <1>1, <1>2, <1>3, <1>4, <1>5, <1>6, LeftByTask

\* A step that works on no draft leaves all of them.
LEMMA PlacesQuiet ==
    ASSUME OwnerInv, OwnerInv', DraftsOk, NEW t \in Tasks,
           \/ Route(t) \/ ReadAndMerge(t) \/ ScanVersions(t) \/ NextVersion(t) \/ MainVersion(t)
           \/ RefuseUpdate(t) \/ RefuseCreate(t) \/ CallFails(t) \/ Crash(t)
    PROVE  DraftsOk'
<1>1. /\ published' = published /\ opened' = opened /\ drafts' = drafts /\ entry' = entry
      /\ shared' = shared /\ abandoned \subseteq abandoned'
  BY DEF Route, ReadAndMerge, ScanVersions, NextVersion, MainVersion, RefuseUpdate, RefuseCreate,
         CallFails, Crash, Abandon, records
<1>2. /\ Moves(t)
      /\ task'[t].pc \notin {"fill", "sync", "community", "publish"}
      /\ \/ task[t].work \notin Works
         \/ task[t].pc \notin {"sync", "publish", "done"}
         \/ Keeps(t) /\ task'[t].pc = "done"
  <2>1. CASE Route(t)
    BY <2>1, RouteMoves
  <2>2. CASE ReadAndMerge(t) \/ ScanVersions(t) \/ NextVersion(t) \/ MainVersion(t)
    BY <2>2, PlanMoves
  <2>3. CASE RefuseUpdate(t) \/ RefuseCreate(t) \/ CallFails(t) \/ Crash(t)
    BY <2>3, FailureMoves
  <2> QED
    BY <2>1, <2>2, <2>3
<1>3. Grown /\ Versions /\ Versions' /\ \A w \in Works : Latest(w)' = Latest(w)
  <2>1. \A w \in Works : Latest(w) \in Nat /\ Latest(w)' = Latest(w)
    BY <1>1, Lengths DEF OwnerInv, Latest
  <2> QED
    BY <1>1, <2>1 DEF Grown, OwnerInv
<1>4. ASSUME NEW w \in Works, NEW s \in Slots PROVE PlaceOk(w, s)'
  <2>1. ~HasNew(t, w)' /\ (Uncorrected(t, w, s) => Uncorrected(t, w, s)')
    BY <1>2 DEF HasNew, Uncorrected, Keeps
  <2>2. PlaceOk(w, s)
    BY DEF DraftsOk
  <2>3. /\ <<w, s>> \in abandoned => <<w, s>> \in abandoned'
        /\ <<w, s>> \in shared => <<w, s>> \in shared'
        /\ drafts'[w][s] = drafts[w][s]
        /\ s \in 1 .. Latest(w) => published'[w][s] = published[w][s]
        /\ s = 0 => Latest(w)' = Latest(w) /\ opened'[w] = opened[w]
    BY <1>1, <1>3
  <2> QED
    BY <1>1, <1>2, <1>3, <2>1, <2>2, <2>3, LeftByTask
<1> QED
  BY <1>4 DEF DraftsOk

-----------------------------------------------------------------------------
(* The draft a step works on                                               *)

\* Opening an edit draft, or finding one.
LEMMA OpenPlace ==
    ASSUME OwnerInv, OwnerInv', Numbers, PlannedInv, DraftsOk, NEW t \in Tasks, OpenDraft(t),
           NEW w \in Works, NEW s \in Slots, w = task[t].work, s = task[t].slot
    PROVE  PlaceOk(w, s)'
<1>1. PICK n : n = task[t].from
  OBVIOUS
<1>2. /\ task[t].pc = "open" /\ published' = published /\ entry' = entry
      /\ abandoned' = abandoned
      /\ opened' = IF s = 0 /\ ~HasDraft(w, s) THEN [opened EXCEPT ![w] = @ + 1] ELSE opened
      /\ IF HasDraft(w, s)
         THEN shared' = shared \cup {<<w, s>>} /\ UNCHANGED drafts
         ELSE /\ SetDraft(w, s, IF s = 0 THEN [published[w][n] EXCEPT !.files = {}, !.doi = NoDoi]
                                ELSE published[w][n])
              /\ UNCHANGED shared
  BY <1>1 DEF OpenDraft
<1>3. /\ Moves(t) /\ task'[t].pc = "fill" /\ published[w] # <<>>
  BY OpenMoves
<1>4. /\ Versions /\ Versions' /\ Drafts /\ PlaceOk(w, s) /\ PlaceOk(w, s)
      /\ PlanOk(task[t]) /\ PlannedOk(task[t], entry[t]) /\ opened[w] \in Nat
  BY DEF OwnerInv, DraftsOk, Writers, PlannedInv, Numbers
<1>5. n \in 1 .. Latest(w) /\ s \in {0, n}
  BY <1>1, <1>2, <1>4 DEF PlanOk, PlannedOk, Writing
<1>6. Marked(published[w][n])
  BY <1>4, <1>5, Lengths
<1>7. \A u \in Tasks \ {t} : task'[u] = task[u]
  BY <1>3 DEF Moves
<1>8. \A u \in Tasks : Uncorrected(u, w, s) => Uncorrected(u, w, s)'
  BY <1>2, <1>7 DEF Uncorrected
<1>9. Latest(w)' = Latest(w) /\ EntryFiles' = EntryFiles
  BY <1>2 DEF Latest, EntryFiles
<1>10. CASE HasDraft(w, s)
  <2>1. drafts' = drafts /\ opened' = opened /\ <<w, s>> \in shared'
    BY <1>2, <1>10
  <2>2. s # 0 => EditDraftOk(w, s)'
    BY <1>2, <1>4, <1>9, <2>1 DEF PlaceOk, EditDraftOk, HasDraft
  <2>3. s = 0 => NewDraftOk(w)'
    BY <2>1 DEF NewDraftOk
  <2>4. \A u \in Tasks : HasNew(u, w)' /\ task'[u].pc \in {"sync", "publish"}
                           => HasNew(u, w) /\ task[u].pc \in {"sync", "publish"}
    BY <1>3, <1>7, <2>1 DEF HasNew
  <2>5. CorrectionOk(w, s)'
    BY <1>2, <1>4, <1>8, <2>1, <2>4 DEF PlaceOk, CorrectionOk, HasDraft
  <2> QED
    BY <2>2, <2>3, <2>5 DEF PlaceOk
<1>11. CASE ~HasDraft(w, s) /\ s # 0
  <2>1. drafts'[w][s] = published[w][s]
    BY <1>2, <1>4, <1>5, <1>11, OtherDrafts
  <2>2. EditDraftOk(w, s)'
    BY <1>2, <1>5, <1>9, <1>11, <2>1 DEF EditDraftOk
  <2>3. CorrectionOk(w, s)'
    BY <1>2, <1>11, <2>1 DEF CorrectionOk
  <2> QED
    BY <1>11, <2>2, <2>3 DEF PlaceOk
<1>12. CASE ~HasDraft(w, s) /\ s = 0
  <2>1. PICK d : d = [published[w][n] EXCEPT !.files = {}, !.doi = NoDoi]
    OBVIOUS
  <2>2. drafts'[w][s] = d /\ d.files = {}
    <3>1. SetDraft(w, s, d)
      BY <1>2, <1>12, <2>1
    <3>2. d.files = {}
      BY <1>6, <2>1 DEF Marked
    <3> QED
      BY <1>4, <3>1, <3>2, OtherDrafts
  <2>3. opened'[w] = opened[w] + 1
    BY <1>2, <1>12 DEF Numbers
  <2>4. \A u \in Tasks : HasNew(u, w)' => u = t
    <3> SUFFICES ASSUME NEW u \in Tasks, HasNew(u, w)', u # t PROVE FALSE
      OBVIOUS
    <3>1. task[u].work = w /\ task[u].target = opened[w] + 1
      BY <1>7, <2>3 DEF HasNew
    <3>2. task[u].target <= opened[w]
      BY <3>1 DEF Numbers, NumberOk
    <3> QED
      BY <1>4, <3>1, <3>2
  <2>5. NewDraftOk(w)'
    BY <1>3, <1>12, <2>2, <2>4 DEF NewDraftOk
  <2>6. CorrectionOk(w, s)'
    BY <1>3, <1>12, <2>4 DEF CorrectionOk
  <2> QED
    BY <1>12, <2>5, <2>6 DEF PlaceOk
<1> QED
  BY <1>10, <1>11, <1>12

\* Opening a draft.
LEMMA OpenPlaces ==
    ASSUME OwnerInv, OwnerInv', Numbers, PlannedInv, DraftsOk, NEW t \in Tasks, OpenDraft(t)
    PROVE  DraftsOk'
<1>1. PICK w \in Works, s \in Slots : w = task[t].work /\ s = task[t].slot
  BY OpenMoves
<1>2. PlaceOk(w, s)'
  BY <1>1, OpenPlace
<1>3. /\ Moves(t) /\ published' = published /\ entry' = entry /\ abandoned' = abandoned
      /\ task'[t].work = w /\ task'[t].slot = s
  BY <1>1, OpenMoves
<1>4. /\ opened' = opened \/ (s = 0 /\ opened' = [opened EXCEPT ![w] = @ + 1])
      /\ shared \subseteq shared'
      /\ drafts' = drafts \/ \E d : SetDraft(w, s, d)
  <2>1. PICK d : IF HasDraft(w, s) THEN shared' = shared \cup {<<w, s>>} /\ drafts' = drafts
                 ELSE SetDraft(w, s, d) /\ shared' = shared
    BY <1>1 DEF OpenDraft
  <2>2. opened' = IF s = 0 /\ ~HasDraft(w, s) THEN [opened EXCEPT ![w] = @ + 1] ELSE opened
    BY <1>1 DEF OpenDraft
  <2>3. shared \subseteq shared'
    BY <2>1
  <2>4. drafts' = drafts \/ \E x : SetDraft(w, s, x)
    BY <2>1
  <2>5. opened' = opened \/ (s = 0 /\ opened' = [opened EXCEPT ![w] = @ + 1])
    BY <2>2
  <2> QED
    BY <2>3, <2>4, <2>5
<1>5. \A v \in Works : Latest(v) \in Nat /\ Latest(v)' = Latest(v)
  BY <1>3, Lengths DEF OwnerInv, Latest
<1>6. Grown
  BY <1>3, <1>5 DEF Grown
<1>7. \A v \in Works : <<v, 0>> # <<w, s>> => opened'[v] = opened[v]
  BY <1>4 DEF Numbers
<1>8. \A v \in Works, n \in Slots : <<v, n>> # <<w, s>> => PlaceOk(v, n)'
  BY <1>1, <1>3, <1>4, <1>5, <1>6, <1>7, Elsewhere
<1> QED
  BY <1>2, <1>8 DEF DraftsOk

\* Writing the metadata of the draft.
LEMMA FillPlace ==
    ASSUME OwnerInv, OwnerInv', PlannedInv, DraftsOk, NEW t \in Tasks, FillDraft(t),
           NEW w \in Works, NEW s \in Slots, w = task[t].work, s = task[t].slot
    PROVE  PlaceOk(w, s)'
<1>1. PICK meta, old : meta = task[t].meta /\ old = drafts[w][s]
  OBVIOUS
<1>2. PICK doi : SetDraft(w, s, [meta EXCEPT !.files = old.files, !.doi = doi])
  BY <1>1 DEF FillDraft
<1>3. /\ task[t].pc = "fill" /\ Holds(t) /\ published' = published /\ entry' = entry
      /\ abandoned' = abandoned /\ shared' = shared /\ opened' = opened
  BY DEF FillDraft
<1>4. Moves(t) /\ Keeps(t) /\ task'[t].pc = "sync"
  BY <1>3, CallMoves
<1>5. /\ Versions /\ Drafts /\ PlaceOk(w, s) /\ PlanOk(task[t])
      /\ PlannedOk(task[t], entry[t]) /\ DOMAIN task = Tasks
  BY DEF OwnerInv, DraftsOk, Writers, PlannedInv
<1>6. PICK d : d = [meta EXCEPT !.files = old.files, !.doi = doi]
  OBVIOUS
<1>7. drafts'[w][s] = d
  BY <1>2, <1>5, <1>6, OtherDrafts
<1>8. d.files = old.files /\ d.curated = meta.curated
  <2>1. Marked(meta)
    BY <1>1, <1>3, <1>5 DEF PlanOk
  <2> QED
    BY <1>6, <2>1 DEF Marked
<1>9. \A u \in Tasks \ {t} : task'[u] = task[u]
  BY <1>4 DEF Moves
<1>10. HasDraft(w, s)
  BY <1>3 DEF Holds
<1>11. Latest(w)' = Latest(w) /\ EntryFiles' = EntryFiles
  BY <1>3 DEF Latest, EntryFiles
<1>12. s # 0 => EditDraftOk(w, s)'
  BY <1>1, <1>3, <1>5, <1>7, <1>8, <1>10, <1>11 DEF PlaceOk, EditDraftOk
<1>13. s = 0 => NewDraftOk(w)'
  <2> SUFFICES ASSUME s = 0, <<w, 0>> \notin abandoned \cup shared PROVE NewDraftOk(w)'
    BY <1>3 DEF NewDraftOk
  <2>1. HasDraft(w, 0) /\ NewDraftOk(w) /\ drafts'[w][0].files = drafts[w][0].files
    BY <1>1, <1>5, <1>7, <1>8, <1>10 DEF PlaceOk
  <2>2. HasNew(t, w) /\ task[t].pc = "fill"
    BY <1>3 DEF HasNew, Holds
  <2>3. \A u \in Tasks : HasNew(u, w)' => HasNew(u, w)
    BY <1>3, <1>4, <1>9, <2>2 DEF HasNew
  <2>4. \A u \in Tasks : HasNew(u, w)' => u = t
    BY <2>1, <2>2, <2>3 DEF NewDraftOk
  <2>5. drafts'[w][0].files = {}
    BY <2>1, <2>2 DEF NewDraftOk
  <2> QED
    BY <1>4, <2>4, <2>5 DEF NewDraftOk
<1>14. CorrectionOk(w, s)'
  <2> SUFFICES ASSUME ~d.curated PROVE Uncorrected(t, w, s)'
    BY <1>7 DEF CorrectionOk
  <2>1. ~task[t].last \/ ~task[t].read.curated
    BY <1>1, <1>3, <1>5, <1>8 DEF PlannedOk
  <2> QED
    BY <1>4, <2>1 DEF Uncorrected, Keeps
<1> QED
  BY <1>12, <1>13, <1>14 DEF PlaceOk

\* A call that works on a draft that is there leaves the other drafts alone.
LEMMA CallPlaces ==
    ASSUME OwnerInv, OwnerInv', DraftsOk, NEW t \in Tasks, NEW w \in Works, NEW s \in Slots,
           w = task[t].work, s = task[t].slot, Moves(t), Keeps(t), entry' = entry,
           published' = published, opened' = opened, shared \ {<<w, s>>} \subseteq shared',
           abandoned \ {<<w, s>>} \subseteq abandoned',
           drafts' = drafts \/ \E d : SetDraft(w, s, d), PlaceOk(w, s)'
    PROVE  DraftsOk'
<1>1. \A v \in Works : Latest(v) \in Nat /\ Latest(v)' = Latest(v)
  BY Lengths DEF OwnerInv, Latest
<1>2. Grown
  BY <1>1 DEF Grown
<1>3. task'[t].work = w /\ task'[t].slot = s
  BY DEF Keeps
<1>4. \A v \in Works, n \in Slots : <<v, n>> # <<w, s>> => PlaceOk(v, n)'
  BY <1>1, <1>2, <1>3, Elsewhere
<1> QED
  BY <1>4 DEF DraftsOk

\* Writing the metadata.
LEMMA FillPlaces ==
    ASSUME OwnerInv, OwnerInv', PlannedInv, DraftsOk, NEW t \in Tasks, FillDraft(t)
    PROVE  DraftsOk'
<1>1. /\ Moves(t) /\ Keeps(t) /\ entry' = entry /\ published' = published /\ opened' = opened
      /\ shared' = shared /\ abandoned' = abandoned
  BY CallMoves
<1>2. PICK w \in Works, s \in Slots : w = task[t].work /\ s = task[t].slot
  <2>1. task[t].work \in Works /\ task[t].slot \in Slots
    BY CallMoves DEF FillDraft, OwnerInv, Writers, WriterOk
  <2> QED
    BY <2>1
<1>3. \E d : SetDraft(w, s, d)
  BY <1>2 DEF FillDraft
<1>4. PlaceOk(w, s)'
  BY <1>2, FillPlace
<1> QED
  BY <1>1, <1>2, <1>3, <1>4, CallPlaces

\* The files of a draft after they are synchronised: those that were to be there, or,
\* when none were, the draft's own or the base version's.
LEMMA SyncedFiles ==
    ASSUME NEW t \in Tasks, NEW w, NEW s, NEW new, w = task[t].work, s = task[t].slot,
           new = task[t].meta.files,
           s = 0 => /\ drafts[w][s].files = {}
                    /\ published[w] # <<>> => task[t].from = Latest(w)
    PROVE  \/ Synced(t) = new
           \/ s # 0 /\ Synced(t) = drafts[w][s].files
           \/ s = 0 /\ published[w] # <<>> /\ new = {}
<1>1. PICK own : own = drafts[w][s].files
  OBVIOUS
<1>2. CASE s # 0 \/ published[w] = <<>>
  <2>1. Imported(t) = own /\ Compared(t) = own
    BY <1>1, <1>2 DEF Imported, Compared
  <2>2. Synced(t) = IF new # {} /\ own # new THEN (own \ (own \ new)) \cup (new \ own) ELSE own
    BY <2>1 DEF Synced, FilesDiffer
  <2>3. (own \ (own \ new)) \cup (new \ own) = new
    OBVIOUS
  <2> QED
    BY <1>1, <1>2, <2>2, <2>3
<1>3. CASE s = 0 /\ published[w] # <<>>
  <2>1. PICK base : base = published[w][Latest(w)].files
    OBVIOUS
  <2>2. Imported(t) = own \cup base /\ Compared(t) = base /\ own = {}
    BY <1>1, <1>3, <2>1 DEF Imported, Compared, Last, Latest
  <2>3. Imported(t) = base
    BY <2>2
  <2>4. Synced(t) = IF new # {} /\ base # new THEN (base \ (base \ new)) \cup (new \ base)
                    ELSE base
    BY <2>2, <2>3 DEF Synced, FilesDiffer
  <2>5. (base \ (base \ new)) \cup (new \ base) = new
    OBVIOUS
  <2> QED
    BY <1>3, <2>4, <2>5
<1> QED
  BY <1>2, <1>3

\* Synchronising the files of the draft.
LEMMA SyncPlace ==
    ASSUME OwnerInv, OwnerInv', PlannedInv, DraftsOk, NEW t \in Tasks, SyncFiles(t),
           NEW w \in Works, NEW s \in Slots, w = task[t].work, s = task[t].slot
    PROVE  PlaceOk(w, s)'
<1>1. PICK old, f, new : old = drafts[w][s] /\ f = Synced(t) /\ new = task[t].meta.files
  OBVIOUS
<1>2. PICK d : d = [old EXCEPT !.files = f]
  OBVIOUS
<1>3. /\ task[t].pc = "sync" /\ Holds(t) /\ published' = published /\ entry' = entry
      /\ abandoned' = abandoned /\ shared' = shared /\ opened' = opened /\ SetDraft(w, s, d)
  BY <1>1, <1>2 DEF SyncFiles
<1>4. /\ Moves(t) /\ Keeps(t)
      /\ task'[t].pc = IF published[w] = <<>> THEN "community" ELSE "publish"
  BY <1>3, CallMoves
<1>5. /\ Versions /\ Drafts /\ PlaceOk(w, s) /\ PlannedOk(task[t], entry[t])
      /\ DOMAIN task = Tasks
  BY DEF OwnerInv, DraftsOk, Writers, PlannedInv
<1>6. drafts'[w][s] = d
  BY <1>3, <1>5, OtherDrafts
<1>7. d.files = f /\ d.curated = old.curated
  <2>1. Marked(old)
    BY <1>1, <1>5 DEF Drafts
  <2> QED
    BY <1>2, <2>1 DEF Marked
<1>8. \A u \in Tasks \ {t} : task'[u] = task[u]
  BY <1>4 DEF Moves
<1>9. HasDraft(w, s)
  BY <1>3 DEF Holds
<1>10. Latest(w)' = Latest(w) /\ EntryFiles' = EntryFiles
  BY <1>3 DEF Latest, EntryFiles
<1>11. new \in EntryFiles
  BY <1>1, <1>3, <1>5 DEF PlannedOk, Writing
<1>12. ASSUME s # 0 PROVE EditDraftOk(w, s)'
  <2>1. f = new \/ f = old.files
    BY <1>1, <1>12, SyncedFiles
  <2> QED
    BY <1>1, <1>3, <1>5, <1>6, <1>7, <1>9, <1>10, <1>11, <1>12, <2>1 DEF PlaceOk, EditDraftOk
<1>13. ASSUME s = 0 PROVE NewDraftOk(w)'
  <2> SUFFICES ASSUME <<w, 0>> \notin abandoned \cup shared PROVE NewDraftOk(w)'
    BY <1>3 DEF NewDraftOk
  <2>1. HasDraft(w, 0) /\ NewDraftOk(w) /\ drafts'[w][0].files = f
    BY <1>5, <1>6, <1>7, <1>9, <1>13 DEF PlaceOk
  <2>2. HasNew(t, w)
    BY <1>3, <1>13 DEF HasNew, Holds
  <2>3. \A u \in Tasks : HasNew(u, w)' => HasNew(u, w)
    BY <1>3, <1>8, <2>2 DEF HasNew
  <2>4. \A u \in Tasks : HasNew(u, w)' => u = t
    BY <2>1, <2>2, <2>3 DEF NewDraftOk
  <2>5. old.files = {}
    BY <1>1, <1>3, <1>13, <2>1, <2>2 DEF NewDraftOk
  <2>6. f \in EntryFiles \/ (~task[t].last /\ new = {}) \/ task[t].from # Latest(w)
    <3>1. CASE task[t].from # Latest(w) /\ published[w] # <<>>
      BY <3>1
    <3>2. CASE task[t].from = Latest(w) \/ published[w] = <<>>
      <4>1. s = 0 => /\ drafts[w][s].files = {}
                     /\ published[w] # <<>> => task[t].from = Latest(w)
        BY <1>1, <2>5, <3>2
      <4>2. \/ Synced(t) = new
            \/ s # 0 /\ Synced(t) = drafts[w][s].files
            \/ s = 0 /\ published[w] # <<>> /\ new = {}
        BY <1>1, <4>1, SyncedFiles
      <4>3. f = new \/ (published[w] # <<>> /\ new = {})
        BY <1>1, <1>13, <4>2
      <4>4. published[w] # <<>> /\ new = {} => ~task[t].last
        BY <1>1, <1>3, <1>5, <1>13 DEF PlannedOk, Writing
      <4> QED
        BY <1>11, <4>3, <4>4
    <3> QED
      BY <3>1, <3>2
  <2> QED
    BY <1>1, <1>4, <1>10, <2>1, <2>4, <2>6 DEF NewDraftOk, Keeps
<1>14. CorrectionOk(w, s)'
  <2> SUFFICES ASSUME published[w] # <<>>, ~old.curated,
                      \/ s # 0 /\ published[w][s].curated
                      \/ s = 0 /\ \E u \in Tasks : HasNew(u, w)' /\ task'[u].pc \in {"sync", "publish"}
               PROVE  \E u \in Tasks : Uncorrected(u, w, s)'
    BY <1>3, <1>6, <1>7 DEF CorrectionOk
  <2>1. s = 0 => HasNew(t, w)
    BY <1>3 DEF HasNew, Holds
  <2>2. PICK u \in Tasks : Uncorrected(u, w, s)
    BY <1>1, <1>3, <1>5, <1>9, <2>1 DEF PlaceOk, CorrectionOk
  <2> QED
    BY <1>4, <1>8, <2>2 DEF Uncorrected, Keeps
<1> QED
  BY <1>12, <1>13, <1>14 DEF PlaceOk

\* Synchronising the files.
LEMMA SyncPlaces ==
    ASSUME OwnerInv, OwnerInv', PlannedInv, DraftsOk, NEW t \in Tasks, SyncFiles(t)
    PROVE  DraftsOk'
<1>1. /\ Moves(t) /\ Keeps(t) /\ entry' = entry /\ published' = published /\ opened' = opened
      /\ shared' = shared /\ abandoned' = abandoned
  BY CallMoves
<1>2. PICK w \in Works, s \in Slots : w = task[t].work /\ s = task[t].slot
  <2>1. task[t].work \in Works /\ task[t].slot \in Slots
    BY CallMoves DEF SyncFiles, OwnerInv, Writers, WriterOk
  <2> QED
    BY <2>1
<1>3. \E d : SetDraft(w, s, d)
  BY <1>2 DEF SyncFiles
<1>4. PlaceOk(w, s)'
  BY <1>2, SyncPlace
<1> QED
  BY <1>1, <1>2, <1>3, <1>4, CallPlaces

\* A draft that is left with some of its files.
LEMMA LeftPlace ==
    ASSUME OwnerInv, OwnerInv', DraftsOk, NEW t \in Tasks,
           NEW w \in Works, NEW s \in Slots, w = task[t].work, s = task[t].slot,
           task[t].pc = "sync", Holds(t), Moves(t), Keeps(t), task'[t].pc = "done",
           published' = published, entry' = entry, opened' = opened,
           <<w, s>> \in abandoned',
           drafts'[w][s].curated = drafts[w][s].curated
    PROVE  PlaceOk(w, s)'
<1>1. HasDraft(w, s) /\ PlaceOk(w, s)
  BY DEF Holds, DraftsOk
<1>2. Latest(w)' = Latest(w)
  BY DEF Latest
<1>3. s # 0 => EditDraftOk(w, s)'
  BY <1>1, <1>2 DEF PlaceOk, EditDraftOk
<1>4. s = 0 => NewDraftOk(w)'
  BY DEF NewDraftOk
<1>5. \A u \in Tasks \ {t} : task'[u] = task[u]
  BY DEF Moves
<1>6. CorrectionOk(w, s)'
  <2> SUFFICES ASSUME published[w] # <<>>, ~drafts[w][s].curated,
                      \/ s # 0 /\ published[w][s].curated
                      \/ s = 0 /\ \E u \in Tasks : HasNew(u, w)' /\ task'[u].pc \in {"sync", "publish"}
               PROVE  \E u \in Tasks : Uncorrected(u, w, s)'
    BY DEF CorrectionOk
  <2>1. s = 0 => \E u \in Tasks : HasNew(u, w) /\ task[u].pc \in {"sync", "publish"}
    BY <1>5 DEF HasNew
  <2>2. PICK u \in Tasks : Uncorrected(u, w, s)
    BY <1>1, <2>1 DEF PlaceOk, CorrectionOk
  <2> QED
    BY <1>5, <2>2 DEF Uncorrected, Keeps
<1> QED
  BY <1>3, <1>4, <1>6 DEF PlaceOk

\* A failed synchronisation leaves the draft of an update and removes that of a creation.
LEMMA SyncFailsPlaces ==
    ASSUME OwnerInv, OwnerInv', DraftsOk, NEW t \in Tasks, SyncFails(t)
    PROVE  DraftsOk'
<1>1. /\ Moves(t) /\ Keeps(t) /\ task'[t].pc = "done" /\ entry' = entry
      /\ published' = published /\ opened' = opened /\ task[t].pc = "sync" /\ Holds(t)
  BY FailureMoves DEF SyncFails
<1>2. PICK w \in Works, s \in Slots : w = task[t].work /\ s = task[t].slot
  <2>1. task[t].work \in Works /\ task[t].slot \in Slots
    BY <1>1, Working DEF OwnerInv, Writers, WriterOk
  <2> QED
    BY <2>1
<1>3. CASE published[w] = <<>>
  <2>1. /\ SetDraft(w, s, NoDraft) /\ abandoned' = abandoned \ {<<w, s>>}
        /\ shared' = shared \ {<<w, s>>}
    BY <1>2, <1>3 DEF SyncFails, DropDraft
  <2>2. PlaceOk(w, s)'
    BY <2>1, OtherDrafts, Gone DEF OwnerInv
  <2> QED
    BY <1>1, <1>2, <2>1, <2>2, CallPlaces
<1>4. CASE published[w] # <<>>
  <2>1. /\ shared' = shared /\ abandoned' = abandoned \cup {<<w, s>>}
        /\ drafts' = drafts \/ \E f : SetDraft(w, s, [drafts[w][s] EXCEPT !.files = f])
    <3>1. /\ shared' = shared /\ Abandon(t)
          /\ drafts' = drafts \/ \E f : SetDraft(w, s, [drafts[w][s] EXCEPT !.files = f])
      BY <1>2, <1>4 DEF SyncFails
    <3> QED
      BY <1>1, <1>2, <3>1 DEF Abandon
  <2>2. drafts'[w][s].curated = drafts[w][s].curated
    <3>1. ASSUME NEW f, SetDraft(w, s, [drafts[w][s] EXCEPT !.files = f])
          PROVE  drafts'[w][s].curated = drafts[w][s].curated
      <4>1. PICK d : d = [drafts[w][s] EXCEPT !.files = f]
        OBVIOUS
      <4>2. drafts'[w][s] = d
        BY <3>1, <4>1, OtherDrafts DEF OwnerInv
      <4>3. Marked(drafts[w][s])
        BY DEF OwnerInv, Drafts
      <4> QED
        BY <4>1, <4>2, <4>3 DEF Marked
    <3> QED
      BY <2>1, <3>1
  <2>3. PlaceOk(w, s)'
    BY <1>1, <1>2, <2>1, <2>2, LeftPlace
  <2>4. drafts' = drafts \/ \E d : SetDraft(w, s, d)
    BY <2>1
  <2> QED
    BY <1>1, <1>2, <2>1, <2>3, <2>4, CallPlaces
<1> QED
  BY <1>3, <1>4

\* A draft that is removed.
LEMMA DropPlaces ==
    ASSUME OwnerInv, OwnerInv', DraftsOk, NEW t \in Tasks, PublishFails(t) \/ AddCommunityFails(t)
    PROVE  DraftsOk'
<1>1. /\ Moves(t) /\ Keeps(t) /\ entry' = entry /\ published' = published /\ opened' = opened
  BY FailureMoves
<1>2. task[t].pc \in {"publish", "community"}
  BY DEF PublishFails, AddCommunityFails
<1>3. PICK w \in Works, s \in Slots : w = task[t].work /\ s = task[t].slot
  <2>1. task[t].work \in Works /\ task[t].slot \in Slots
    BY <1>2, Working DEF OwnerInv, Writers, WriterOk
  <2> QED
    BY <2>1
<1>4. DropDraft(w, s)
  <2>1. CASE PublishFails(t)
    BY <1>3, <2>1 DEF PublishFails
  <2>2. CASE AddCommunityFails(t)
    <3>1. s = 0
      BY <1>3, <2>2, Working DEF AddCommunityFails
    <3> QED
      BY <1>3, <2>2, <3>1 DEF AddCommunityFails
  <2> QED
    BY <2>1, <2>2
<1>5. /\ SetDraft(w, s, NoDraft) /\ abandoned' = abandoned \ {<<w, s>>}
      /\ shared' = shared \ {<<w, s>>}
  BY <1>4 DEF DropDraft
<1>6. PlaceOk(w, s)'
  BY <1>5, OtherDrafts, Gone DEF OwnerInv
<1> QED
  BY <1>1, <1>3, <1>5, <1>6, CallPlaces

\* Joining the community.
LEMMA CommunityPlaces ==
    ASSUME OwnerInv, OwnerInv', DraftsOk, NEW t \in Tasks, AddCommunity(t)
    PROVE  DraftsOk'
<1>1. /\ Moves(t) /\ Keeps(t) /\ entry' = entry /\ published' = published /\ opened' = opened
      /\ shared' = shared /\ abandoned' = abandoned /\ drafts' = drafts
      /\ task[t].pc = "community" /\ task'[t].pc = "publish"
  BY CallMoves DEF AddCommunity
<1>2. PICK w \in Works : w = task[t].work /\ published[w] = <<>> /\ task[t].slot = 0 /\ 0 \in Slots
  BY <1>1, Working DEF OwnerInv, Writers, WriterOk
<1>3. PlaceOk(w, 0) /\ Latest(w)' = Latest(w) /\ EntryFiles' = EntryFiles
  BY <1>1, <1>2 DEF DraftsOk, Latest, EntryFiles
<1>4. \A u \in Tasks \ {t} : task'[u] = task[u]
  BY <1>1 DEF Moves
<1>5. \A u \in Tasks : HasNew(u, w)' => HasNew(u, w)
  BY <1>1, <1>4 DEF HasNew, Keeps
<1>6. NewDraftOk(w)'
  <2> SUFFICES ASSUME HasDraft(w, 0), <<w, 0>> \notin abandoned \cup shared PROVE NewDraftOk(w)'
    BY <1>1 DEF NewDraftOk, HasDraft
  <2>1. /\ \A u, v \in Tasks : HasNew(u, w)' /\ HasNew(v, w)' => u = v
    BY <1>3, <1>5 DEF PlaceOk, NewDraftOk
  <2>2. ASSUME NEW u \in Tasks, HasNew(u, w)'
        PROVE  /\ task'[u].pc \in {"fill", "sync"} => drafts[w][0].files = {}
               /\ task'[u].pc \in {"community", "publish"} =>
                    \/ drafts[w][0].files \in EntryFiles
                    \/ ~task'[u].last /\ task'[u].meta.files = {}
                    \/ task'[u].from # Latest(w)
    BY <1>1, <1>3, <1>4, <1>5, <2>2 DEF PlaceOk, NewDraftOk, Keeps
  <2> QED
    BY <1>1, <1>3, <2>1, <2>2 DEF NewDraftOk
<1>7. PlaceOk(w, 0)'
  BY <1>1, <1>2, <1>6 DEF PlaceOk, CorrectionOk
<1> QED
  BY <1>1, <1>2, <1>7, CallPlaces

\* Creating a record.
LEMMA CreatePlaces ==
    ASSUME OwnerInv, OwnerInv', Numbers, DraftsOk, NEW t \in Tasks, CreateDraft(t)
    PROVE  DraftsOk'
<1>1. PICK d : d = [Raw(entry[t]) EXCEPT !.files = {}]
  OBVIOUS
<1>2. PICK w \in Works :
        /\ Moves(t) /\ task'[t].pc = "sync" /\ task'[t].work = w /\ task'[t].slot = 0
        /\ opened' = [opened EXCEPT ![w] = @ + 1] /\ task[t].work \notin Works
        /\ published' = published /\ entry' = entry
        /\ abandoned' = abandoned /\ shared' = shared
        /\ published[w] = <<>> /\ \A u \in Tasks : task[u].work # w
        /\ SetDraft(w, 0, d)
  BY <1>1, CreateMoves
<1>3. 0 \in Slots /\ \A v \in Works : Latest(v) \in Nat /\ Latest(v)' = Latest(v)
  BY <1>2, Lengths DEF OwnerInv, Latest
<1>4. Grown
  BY <1>2, <1>3 DEF Grown
<1>5. drafts'[w][0].files = {}
  <2>1. d.files = {}
    BY <1>1 DEF Raw
  <2> QED
    BY <1>2, <1>3, <2>1, OtherDrafts DEF OwnerInv
<1>6. \A u \in Tasks : HasNew(u, w)' => u = t
  BY <1>2 DEF HasNew, Moves
<1>7. PlaceOk(w, 0)'
  BY <1>2, <1>5, <1>6 DEF PlaceOk, NewDraftOk, CorrectionOk
<1>8. \A v \in Works : v # w => opened'[v] = opened[v]
  BY <1>2 DEF Numbers
<1>9. \A v \in Works, n \in Slots : <<v, n>> # <<w, 0>> => PlaceOk(v, n)'
  <2>1. \A v \in Works : <<v, 0>> # <<w, 0>> => Latest(v)' = Latest(v) /\ opened'[v] = opened[v]
    BY <1>3, <1>8
  <2>2. \E x : SetDraft(w, 0, x)
    BY <1>2
  <2> QED
    BY <1>2, <1>4, <2>1, <2>2, Elsewhere
<1> QED
  BY <1>3, <1>7, <1>9 DEF DraftsOk

\* What a publication leaves as it was, and what it publishes.
LEMMA PublishedPlace ==
    ASSUME Versions, NEW w \in Works, NEW s \in Slots, NEW d,
           \A x \in Works \ {w} : published'[x] = published[x],
           published'[w] = IF s = 0 THEN Append(published[w], d) ELSE [published[w] EXCEPT ![s] = d]
    PROVE  /\ \A v \in Works, n \in Slots : <<v, n>> # <<w, s>> /\ n \in 1 .. Latest(v) =>
                published'[v][n] = published[v][n]
           /\ \A v \in Works : <<v, 0>> # <<w, s>> => Latest(v)' = Latest(v)
<1>1. /\ \A n \in 1 .. Latest(w) : n # s => published'[w][n] = published[w][n]
      /\ s # 0 => Latest(w)' = Latest(w)
  BY OtherVersions DEF Latest
<1> QED
  BY <1>1 DEF Latest

\* Publishing a draft.
LEMMA PublishPlaces ==
    ASSUME OwnerInv, OwnerInv', DraftsOk, NEW t \in Tasks, Publish(t)
    PROVE  DraftsOk'
<1>1. PICK w \in Works, s \in Slots : w = task[t].work /\ s = task[t].slot
  BY PublishMoves
<1>2. /\ Moves(t) /\ Keeps(t) /\ entry' = entry /\ opened' = opened
      /\ SetDraft(w, s, NoDraft)
  BY <1>1, PublishMoves
<1>3. abandoned' = abandoned \ {<<w, s>>} /\ shared' = shared \ {<<w, s>>}
  BY <1>1 DEF Publish, DropDraft
<1>4. PICK d : d = Release(drafts[w][s])
  OBVIOUS
<1>5. /\ Grown /\ \A x \in Works \ {w} : published'[x] = published[x]
      /\ published'[w] = IF s = 0 THEN Append(published[w], d) ELSE [published[w] EXCEPT ![s] = d]
  BY <1>1, <1>4, Publication
<1>6. PlaceOk(w, s)'
  BY <1>2, OtherDrafts, Gone DEF OwnerInv
<1>7. /\ \A v \in Works, n \in Slots : <<v, n>> # <<w, s>> /\ n \in 1 .. Latest(v) =>
           published'[v][n] = published[v][n]
      /\ \A v \in Works : <<v, 0>> # <<w, s>> => Latest(v)' = Latest(v)
  BY <1>5, PublishedPlace DEF OwnerInv
<1>8. \A v \in Works, n \in Slots : <<v, n>> # <<w, s>> => PlaceOk(v, n)'
  <2>1. task'[t].work = w /\ task'[t].slot = s
    BY <1>1, <1>2 DEF Keeps
  <2>2. \E x : SetDraft(w, s, x)
    BY <1>2
  <2>3. \A v \in Works : <<v, 0>> # <<w, s>> => Latest(v)' = Latest(v) /\ opened'[v] = opened[v]
    BY <1>2, <1>7
  <2> QED
    BY <1>1, <1>2, <1>3, <1>5, <1>7, <2>1, <2>2, <2>3, Elsewhere
<1> QED
  BY <1>6, <1>8 DEF DraftsOk

\* The index and the curators leave the other drafts alone.
LEMMA OthersElsewhere ==
    ASSUME OwnerInv, OwnerInv', DraftsOk, Grown, NEW w \in Works, NEW s \in Slots,
           task' = task, entry' = entry, opened' = opened,
           drafts' = drafts \/ \E d : SetDraft(w, s, d),
           abandoned \ {<<w, s>>} \subseteq abandoned', shared \ {<<w, s>>} \subseteq shared',
           \A v \in Works, n \in Slots : <<v, n>> # <<w, s>> /\ n \in 1 .. Latest(v) =>
             published'[v][n] = published[v][n],
           \A v \in Works : Latest(v)' = Latest(v),
           PlaceOk(w, s)'
    PROVE  DraftsOk'
<1>1. ASSUME NEW v \in Works, NEW n \in Slots, <<v, n>> # <<w, s>>
      PROVE  PlaceOk(v, n)'
  <2>1. Versions /\ Versions' /\ Drafts /\ PlaceOk(v, n)
    BY DEF OwnerInv, DraftsOk
  <2>2. drafts'[v][n] = drafts[v][n]
    <3>1. CASE drafts' = drafts
      BY <3>1
    <3>2. ASSUME NEW d, SetDraft(w, s, d) PROVE drafts'[v][n] = drafts[v][n]
      BY <1>1, <2>1, <3>2, OtherDrafts
    <3> QED
      BY <3>1, <3>2
  <2>3. \A u \in Tasks : HasNew(u, v)' => HasNew(u, v) /\ task'[u] = task[u]
    BY DEF HasNew
  <2>4. \A u \in Tasks : Uncorrected(u, v, n) => Uncorrected(u, v, n)'
    BY DEF Uncorrected
  <2>5. /\ <<v, n>> \in abandoned => <<v, n>> \in abandoned'
        /\ <<v, n>> \in shared => <<v, n>> \in shared'
    BY <1>1
  <2>6. n \in 1 .. Latest(v) => published'[v][n] = published[v][n]
    BY <1>1
  <2> QED
    BY <2>1, <2>2, <2>3, <2>4, <2>5, <2>6, LeftAlone
<1> QED
  BY <1>1 DEF DraftsOk

\* A curator drafts a correction.
LEMMA EditPlaces ==
    ASSUME OwnerInv, OwnerInv', DraftsOk, NEW w \in Works, CuratorEdit(w)
    PROVE  DraftsOk'
<1>1. PICK s : s = Latest(w)
  OBVIOUS
<1>2. PICK old, d : /\ old = IF HasDraft(w, s) THEN drafts[w][s] ELSE published[w][s]
                    /\ d = [old EXCEPT !.curated = TRUE]
  OBVIOUS
<1>3. /\ published' = published /\ entry' = entry /\ task' = task /\ opened' = opened
      /\ abandoned' = abandoned /\ shared' = shared /\ s > 0 /\ SetDraft(w, s, d)
  BY <1>1, <1>2 DEF CuratorEdit
<1>4. s \in 1 .. Latest(w) /\ s \in Slots /\ s # 0 /\ Marked(published[w][s])
  <2>1. Latest(w) \in Nat
    BY Lengths DEF OwnerInv, Latest
  <2> QED
    BY <1>1, <1>3, <2>1, Lengths DEF OwnerInv
<1>5. /\ Marked(drafts[w][s]) /\ PlaceOk(w, s) /\ EntryFiles' = EntryFiles
      /\ \A v \in Works : Latest(v) \in Nat /\ Latest(v)' = Latest(v)
  BY <1>3, <1>4, Lengths DEF OwnerInv, Drafts, DraftsOk, EntryFiles, Latest
<1>6. d.curated /\ d.files = old.files
  BY <1>2, <1>4, <1>5 DEF Marked
<1>7. drafts'[w][s] = d
  BY <1>3, <1>4, OtherDrafts DEF OwnerInv
<1>8. EditDraftOk(w, s)'
  BY <1>2, <1>3, <1>4, <1>5, <1>6, <1>7 DEF PlaceOk, EditDraftOk
<1>9. PlaceOk(w, s)'
  BY <1>4, <1>6, <1>7, <1>8 DEF PlaceOk, CorrectionOk
<1>10. Grown
  BY <1>3, <1>5 DEF Grown
<1>11. \E x : SetDraft(w, s, x)
  BY <1>3
<1> QED
  BY <1>3, <1>4, <1>5, <1>9, <1>10, <1>11, OthersElsewhere

\* The index catches up, or a curator publishes or discards a draft.
LEMMA OthersPlaces ==
    ASSUME OwnerInv, OwnerInv', DraftsOk, NEW w \in Works,
           Refresh(w) \/ \E s \in Slots : CuratorPublish(w, s) \/ CuratorDiscard(w, s)
    PROVE  DraftsOk'
<1>1. /\ Grown /\ task' = task /\ entry' = entry /\ opened' = opened
  <2>1. Grown
    BY OthersGrow
  <2> QED
    BY <2>1 DEF Refresh, CuratorPublish, CuratorDiscard
<1>2. ASSUME published' = published
      PROVE  \A v \in Works : Latest(v)' = Latest(v)
  BY <1>2 DEF Latest
<1>3. CASE Refresh(w)
  <2>1. /\ published' = published /\ drafts' = drafts /\ abandoned' = abandoned
        /\ shared' = shared
    BY <1>3 DEF Refresh
  <2>2. PlaceOk(w, 0)' /\ 0 \in Slots
    <3>1. 0 \in Slots /\ PlaceOk(w, 0) /\ EntryFiles' = EntryFiles
      BY <1>1, WriterBounds DEF DraftsOk, Slots, EntryFiles
    <3> QED
      BY <1>1, <2>1, <3>1 DEF PlaceOk, NewDraftOk, CorrectionOk, HasDraft, HasNew, Uncorrected,
                              Latest
  <2> QED
    BY <1>1, <1>2, <2>1, <2>2, OthersElsewhere
<1>4. ASSUME NEW s \in Slots, CuratorPublish(w, s) \/ CuratorDiscard(w, s)
      PROVE  DraftsOk'
  <2>1. /\ SetDraft(w, s, NoDraft) /\ abandoned' = abandoned \ {<<w, s>>}
        /\ shared' = shared \ {<<w, s>>}
    BY <1>4 DEF CuratorPublish, CuratorDiscard, DropDraft
  <2>2. PlaceOk(w, s)'
    BY <2>1, OtherDrafts, Gone DEF OwnerInv
  <2>3. /\ \A v \in Works, n \in Slots : <<v, n>> # <<w, s>> /\ n \in 1 .. Latest(v) =>
             published'[v][n] = published[v][n]
        /\ \A v \in Works : Latest(v)' = Latest(v)
    <3>1. CASE CuratorDiscard(w, s)
      BY <1>2, <3>1 DEF CuratorDiscard
    <3>2. CASE CuratorPublish(w, s)
      <4>1. PICK d : d = Release(drafts[w][s])
        OBVIOUS
      <4>2. /\ s # 0 /\ \A x \in Works \ {w} : published'[x] = published[x]
            /\ published'[w] = [published[w] EXCEPT ![s] = d]
        BY <3>2, <4>1, Correction
      <4>3. published'[w] = IF s = 0 THEN Append(published[w], d)
                            ELSE [published[w] EXCEPT ![s] = d]
        BY <4>2
      <4>4. \A v \in Works : <<v, 0>> # <<w, s>>
        BY <4>2
      <4> QED
        BY <4>2, <4>3, <4>4, PublishedPlace DEF OwnerInv
    <3> QED
      BY <1>4, <3>1, <3>2
  <2>4. \E d : SetDraft(w, s, d)
    BY <2>1
  <2> QED
    BY <1>1, <2>1, <2>2, <2>3, <2>4, OthersElsewhere
<1> QED
  BY <1>3, <1>4

-----------------------------------------------------------------------------
(* The invariant of the drafts                                             *)

\* It holds at the start, when nothing is planned and no draft is open.
LEMMA DraftInit == Init => DraftInv
<1> SUFFICES ASSUME Init PROVE DraftInv
  OBVIOUS
<1>1. /\ drafts = [w \in Works |-> [r \in Slots |-> NoDraft]]
      /\ task = [t \in Tasks |-> Idle]
  BY DEF Init
<1>2. DraftsOk
  <2>1. \A w \in Works, s \in Slots : ~HasDraft(w, s)
    BY <1>1 DEF HasDraft
  <2> QED
    BY <2>1 DEF DraftsOk, PlaceOk, EditDraftOk, NewDraftOk, CorrectionOk
<1>3. ASSUME NEW e PROVE PlannedOk(Idle, e)
  <2>1. Idle.pc = "route" /\ Idle.todo = <<>> /\ Idle.from = 0 /\ Idle.last
    BY DEF Idle
  <2> QED
    BY <2>1, EmptySeq DEF PlannedOk, Writing
<1> QED
  BY <1>1, <1>2, <1>3 DEF DraftInv, PlannedInv

\* Every step preserves it.
LEMMA DraftNext ==
  OwnerInv /\ Numbers /\ DraftInv /\ [Next]_vars => DraftInv'
<1> SUFFICES ASSUME OwnerInv, Numbers, DraftInv, [Next]_vars PROVE DraftInv'
  OBVIOUS
<1>1. OwnerInv' /\ PlannedInv /\ DraftsOk
  BY OwnerNext DEF DraftInv
<1>2. ASSUME NEW t \in Tasks, TaskStep(t) \/ Crash(t) PROVE DraftInv'
  <2>1. PlannedInv'
    BY <1>1, <1>2, PlannedStep
  <2>2. Route(t) \/ ReadAndMerge(t) \/ ScanVersions(t) \/ NextVersion(t) \/ MainVersion(t)
          \/ RefuseUpdate(t) \/ RefuseCreate(t) \/ CallFails(t) \/ Crash(t) => DraftsOk'
    BY <1>1, PlacesQuiet
  <2>3. OpenDraft(t) \/ FillDraft(t) \/ SyncFiles(t) => DraftsOk'
    BY <1>1, OpenPlaces, FillPlaces, SyncPlaces
  <2>4. SyncFails(t) \/ PublishFails(t) \/ AddCommunityFails(t) => DraftsOk'
    BY <1>1, SyncFailsPlaces, DropPlaces
  <2>5. Publish(t) \/ AddCommunity(t) \/ CreateDraft(t) => DraftsOk'
    BY <1>1, PublishPlaces, CommunityPlaces, CreatePlaces
  <2> QED
    BY <1>2, <2>1, <2>2, <2>3, <2>4, <2>5 DEF TaskStep, DraftInv
<1>3. ASSUME NEW w \in Works,
             \/ Refresh(w) \/ CuratorEdit(w)
             \/ \E s \in Slots : CuratorPublish(w, s) \/ CuratorDiscard(w, s)
      PROVE  DraftInv'
  <2>1. DraftsOk'
    BY <1>1, <1>3, OthersPlaces, EditPlaces
  <2>2. task' = task /\ entry' = entry /\ Grown
    <3>1. Grown
      BY <1>3, OthersGrow
    <3> QED
      BY <1>3, <3>1 DEF Refresh, CuratorEdit, CuratorPublish, CuratorDiscard
  <2>3. \A v \in Works : published[v] = <<>> => published'[v] = <<>>
    <3>1. ASSUME NEW s \in Slots, CuratorPublish(w, s)
          PROVE  \A v \in Works : published[v] = <<>> => published'[v] = <<>>
      BY <3>1, Correction
    <3>2. CASE Refresh(w) \/ CuratorEdit(w) \/ \E s \in Slots : CuratorDiscard(w, s)
      BY <3>2 DEF Refresh, CuratorEdit, CuratorDiscard
    <3> QED
      BY <1>3, <3>1, <3>2
  <2>4. ASSUME NEW t \in Tasks PROVE PlannedOk(task[t], entry[t])'
    <3>1. PICK k, e : k = task[t] /\ e = entry[t]
      OBVIOUS
    <3>2. PlannedOk(k, e) /\ (k.pc \in Writing => k.work \in Works)
      BY <1>1, <3>1, WritingWorks DEF PlannedInv
    <3>3. k.pc \in Writing /\ k.ver = 0 => published'[k.work] = <<>>
      BY <2>3, <3>2 DEF PlannedOk
    <3>4. PlannedOk(k, e)'
      BY <1>1, <2>2, <3>2, <3>3, PlannedStill DEF OwnerInv
    <3> QED
      BY <2>2, <3>1, <3>4
  <2> QED
    BY <2>1, <2>4 DEF DraftInv, PlannedInv
<1>4. CASE Finished \/ UNCHANGED vars
  <2>1. /\ published' = published /\ drafts' = drafts /\ opened' = opened /\ entry' = entry
        /\ task' = task /\ abandoned' = abandoned /\ shared' = shared
    BY <1>4 DEF Finished, vars
  <2>2. EntryFiles' = EntryFiles
    BY <2>1 DEF EntryFiles
  <2>3. PlannedInv'
    BY <1>1, <2>1, <2>2 DEF PlannedInv, PlannedOk, Latest
  <2>4. DraftsOk'
    <3> SUFFICES ASSUME NEW w \in Works, NEW s \in Slots, PlaceOk(w, s) PROVE PlaceOk(w, s)'
      BY <1>1 DEF DraftsOk
    <3>1. \A u \in Tasks : HasNew(u, w)' = HasNew(u, w) /\ Uncorrected(u, w, s)' = Uncorrected(u, w, s)
      BY <2>1 DEF HasNew, Uncorrected
    <3>2. s # 0 => EditDraftOk(w, s)'
      BY <2>1, <2>2 DEF PlaceOk, EditDraftOk, HasDraft, Latest
    <3>3. s = 0 => NewDraftOk(w)'
      BY <2>1, <2>2, <3>1 DEF PlaceOk, NewDraftOk, HasDraft, Latest
    <3>4. CorrectionOk(w, s)'
      BY <2>1, <3>1 DEF PlaceOk, CorrectionOk, HasDraft
    <3> QED
      BY <3>2, <3>3, <3>4 DEF PlaceOk
  <2> QED
    BY <2>3, <2>4 DEF DraftInv
<1> QED
  BY <1>2, <1>3, <1>4 DEF Next

\* What a step publishes comes from one draft, of the task that publishes or of a
\* curator who publishes an edit.
LEMMA PublishedFrom ==
    ASSUME OwnerInv, [Next]_vars
    PROVE  \/ published' = published
           \/ \E w \in Works, s \in Slots :
                /\ HasDraft(w, s)
                /\ \A x \in Works \ {w} : published'[x] = published[x]
                /\ published'[w] = IF s = 0 THEN Append(published[w], Release(drafts[w][s]))
                                   ELSE [published[w] EXCEPT ![s] = Release(drafts[w][s])]
                /\ \/ s # 0
                   \/ \E t \in Tasks : HasNew(t, w) /\ Publishes(t)
<1>1. ASSUME NEW t \in Tasks, Publish(t)
      PROVE  \E w \in Works, s \in Slots :
                /\ HasDraft(w, s)
                /\ \A x \in Works \ {w} : published'[x] = published[x]
                /\ published'[w] = IF s = 0 THEN Append(published[w], Release(drafts[w][s]))
                                   ELSE [published[w] EXCEPT ![s] = Release(drafts[w][s])]
                /\ \/ s # 0
                   \/ HasNew(t, w) /\ Publishes(t)
  <2>1. PICK w \in Works, s \in Slots : w = task[t].work /\ s = task[t].slot
    BY <1>1, PublishMoves
  <2>2. HasDraft(w, s) /\ task[t].pc = "publish" /\ (s = 0 => HasNew(t, w))
    BY <1>1, <2>1 DEF Publish, Holds, HasNew
  <2>3. /\ \A x \in Works \ {w} : published'[x] = published[x]
        /\ published'[w] = IF s = 0 THEN Append(published[w], Release(drafts[w][s]))
                           ELSE [published[w] EXCEPT ![s] = Release(drafts[w][s])]
    BY <1>1, <2>1, Publication
  <2>4. task'[t].pc \in {"done", "versions"}
    BY <1>1, PublishMoves
  <2>5. s = 0 => published' # published
    <3> SUFFICES ASSUME s = 0, published'[w] = published[w] PROVE FALSE
      OBVIOUS
    <3>1. PICK d : d = Release(drafts[w][s])
      OBVIOUS
    <3>2. Latest(w)' = Latest(w) + 1
      BY <2>3, <3>1, OtherVersions DEF OwnerInv, Latest
    <3>3. Latest(w) \in Nat
      BY Lengths DEF OwnerInv, Latest
    <3> QED
      BY <3>2, <3>3 DEF Latest
  <2> QED
    BY <2>2, <2>3, <2>4, <2>5 DEF Publishes
<1>2. ASSUME NEW w \in Works, NEW s \in Slots, CuratorPublish(w, s)
      PROVE  /\ HasDraft(w, s) /\ s # 0
             /\ \A x \in Works \ {w} : published'[x] = published[x]
             /\ published'[w] = [published[w] EXCEPT ![s] = Release(drafts[w][s])]
  BY <1>2, Correction DEF CuratorPublish
<1>3. ASSUME NEW t \in Tasks, TaskStep(t) \/ Crash(t), ~Publish(t)
      PROVE  published' = published
  <2>1. Route(t) => published' = published
    BY RouteMoves DEF records
  <2>2. ReadAndMerge(t) \/ ScanVersions(t) \/ NextVersion(t) \/ MainVersion(t)
          => published' = published
    BY PlanMoves DEF records
  <2>3. RefuseUpdate(t) \/ RefuseCreate(t) \/ SyncFails(t) \/ PublishFails(t)
           \/ CallFails(t) \/ AddCommunityFails(t) \/ Crash(t) => published' = published
    BY FailureMoves
  <2>4. FillDraft(t) \/ SyncFiles(t) \/ AddCommunity(t) => published' = published
    BY CallMoves
  <2>5. OpenDraft(t) \/ CreateDraft(t) => published' = published
    BY DEF OpenDraft, CreateDraft
  <2> QED
    BY <1>3, <2>1, <2>2, <2>3, <2>4, <2>5 DEF TaskStep
<1>4. ASSUME \/ \E w \in Works : Refresh(w) \/ CuratorEdit(w)
             \/ \E w \in Works, s \in Slots : CuratorDiscard(w, s)
             \/ Finished \/ UNCHANGED vars
      PROVE  published' = published
  BY <1>4 DEF Refresh, CuratorEdit, CuratorDiscard, Finished, vars
<1> QED
  BY <1>1, <1>2, <1>3, <1>4 DEF Next

\* A version is published with a whole set of files: for any files, entries, failures
\* and curators, and however many tasks there are, save for the exceptions it names.
THEOREM FilesWhole == Spec => WholeFiles
<1> DEFINE Whole == \A w \in Works : \A i \in 1 .. Len(published'[w]) :
       \/ i <= Latest(w) /\ published'[w][i].files = published[w][i].files
       \/ published'[w][i].files \in WholeSets(w)
       \/ {<<w, i>>, <<w, 0>>} \cap (abandoned \cup shared) # {}
       \/ \E t \in Tasks : /\ Publishes(t)
                           /\ \/ task[t].from # Latest(w)
                              \/ ~task[t].last /\ task[t].slot = 0 /\ task[t].meta.files = {}
<1>1. OwnerInv /\ DraftInv /\ [Next]_vars => [Whole]_vars
  <2> SUFFICES ASSUME OwnerInv, DraftInv, [Next]_vars, NEW x \in Works,
                      NEW i \in 1 .. Len(published'[x]),
                      ~(i <= Latest(x) /\ published'[x][i].files = published[x][i].files),
                      {<<x, i>>, <<x, 0>>} \cap (abandoned \cup shared) = {}
               PROVE  \/ published'[x][i].files \in WholeSets(x)
                      \/ \E t \in Tasks : /\ Publishes(t)
                                          /\ \/ task[t].from # Latest(x)
                                             \/ /\ ~task[t].last /\ task[t].slot = 0
                                                /\ task[t].meta.files = {}
    OBVIOUS
  <2>1. published' # published
    <3>1. Latest(x) \in Nat
      BY Lengths DEF OwnerInv, Latest
    <3> QED
      BY <3>1 DEF Latest
  <2>2. PICK w \in Works, s \in Slots :
          /\ HasDraft(w, s)
          /\ \A y \in Works \ {w} : published'[y] = published[y]
          /\ published'[w] = IF s = 0 THEN Append(published[w], Release(drafts[w][s]))
                             ELSE [published[w] EXCEPT ![s] = Release(drafts[w][s])]
          /\ \/ s # 0
             \/ \E t \in Tasks : HasNew(t, w) /\ Publishes(t)
    BY <2>1, PublishedFrom
  <2>3. PICK d : d = Release(drafts[w][s])
    OBVIOUS
  <2>4. x = w /\ published'[w][i] = d /\ (s = i \/ (s = 0 /\ i = Latest(w) + 1))
    <3>1. Versions /\ Latest(w) \in Nat
      BY Lengths DEF OwnerInv, Latest
    <3>2. /\ \A n \in 1 .. Latest(w) : n # s => published'[w][n] = published[w][n]
          /\ s # 0 => Latest(w)' = Latest(w)
          /\ s \in 1 .. Latest(w) => published'[w][s] = d
          /\ s = 0 => Latest(w)' = Latest(w) + 1 /\ published'[w][Latest(w) + 1] = d
      BY <2>2, <2>3, <3>1, OtherVersions DEF Latest
    <3>3. x = w
      <4>1. CASE x # w
        <5>1. published'[x] = published[x]
          BY <2>2, <4>1
        <5>2. Len(published[x]) \in Nat
          BY Lengths DEF OwnerInv
        <5> QED
          BY <5>1, <5>2 DEF Latest
      <4> QED
        BY <4>1
    <3>4. i \in 1 .. Latest(w)'
      BY <3>3 DEF Latest
    <3>5. CASE s = 0
      <4>1. i \in 1 .. Latest(w) \/ i = Latest(w) + 1
        BY <3>1, <3>2, <3>4, <3>5
      <4> QED
        BY <3>1, <3>2, <3>3, <3>5, <4>1
    <3>6. CASE s # 0
      <4>1. i \in 1 .. Latest(w)
        BY <3>2, <3>4, <3>6
      <4> QED
        BY <3>1, <3>2, <3>3, <3>6, <4>1
    <3> QED
      BY <3>5, <3>6
  <2>5. d.files = drafts[w][s].files
    <3>1. Marked(drafts[w][s])
      BY DEF OwnerInv, Drafts
    <3> QED
      BY <2>3, <3>1 DEF Marked, Release
  <2>6. EntryFiles \subseteq WholeSets(w)
    BY DEF EntryFiles, WholeSets
  <2>7. PlaceOk(w, s)
    BY DEF DraftInv, DraftsOk
  <2>8. CASE s # 0
    <3>1. <<w, s>> \notin abandoned
      BY <2>4, <2>8
    <3>2. /\ s \in 1 .. Latest(w)
          /\ d.files = published[w][s].files \/ d.files \in EntryFiles
      BY <2>2, <2>5, <2>7, <2>8, <3>1 DEF PlaceOk, EditDraftOk
    <3>3. published[w][s].files \in WholeSets(w)
      BY <3>2 DEF WholeSets
    <3> QED
      BY <2>4, <2>6, <3>2, <3>3
  <2>9. CASE s = 0
    <3>1. PICK t \in Tasks : HasNew(t, w) /\ Publishes(t)
      BY <2>2, <2>9
    <3>2. task[t].pc = "publish" /\ task[t].slot = 0
      BY <3>1 DEF Publishes, HasNew
    <3>3. <<w, 0>> \notin abandoned \cup shared
      BY <2>4
    <3>4. \/ d.files \in EntryFiles
          \/ ~task[t].last /\ task[t].meta.files = {}
          \/ task[t].from # Latest(w)
      BY <2>2, <2>5, <2>7, <2>9, <3>1, <3>2, <3>3 DEF PlaceOk, NewDraftOk
    <3> QED
      BY <2>4, <2>6, <3>1, <3>2, <3>4
  <2> QED
    BY <2>8, <2>9
<1> QED
  BY <1>1, OwnerInit, OwnerNext, DraftInit, DraftNext, PTL DEF Spec, WholeFiles

\* A published correction goes only when a draft is published that some task wrote for
\* a split version, or from what it had read before the correction: the harvester never
\* loses what it had seen of the curators' work on the record's own type.
THEOREM CorrectionsLostOnlyToStale == Spec => CurationLostOnlyToStaleWriter
<1> DEFINE Lost == \A w \in Works :
       (published[w] # <<>> /\ Last(published[w]).curated /\ ~Last(published'[w]).curated)
       => \E t \in Tasks, s \in {0, Latest(w)} : Uncorrected(t, w, s)
<1>1. OwnerInv /\ DraftInv /\ [Next]_vars => [Lost]_vars
  <2> SUFFICES ASSUME OwnerInv, DraftInv, [Next]_vars, NEW x \in Works, published[x] # <<>>,
                      Last(published[x]).curated, ~Last(published'[x]).curated
               PROVE  \E t \in Tasks, s \in {0, Latest(x)} : Uncorrected(t, x, s)
    OBVIOUS
  <2>1. PICK w \in Works, s \in Slots :
          /\ HasDraft(w, s)
          /\ \A y \in Works \ {w} : published'[y] = published[y]
          /\ published'[w] = IF s = 0 THEN Append(published[w], Release(drafts[w][s]))
                             ELSE [published[w] EXCEPT ![s] = Release(drafts[w][s])]
          /\ \/ s # 0
             \/ \E t \in Tasks : HasNew(t, w) /\ Publishes(t)
    BY PublishedFrom
  <2>2. PICK d : d = Release(drafts[w][s])
    OBVIOUS
  <2>3. x = w
    BY <2>1
  <2>4. d.curated = drafts[w][s].curated
    <3>1. Marked(drafts[w][s])
      BY DEF OwnerInv, Drafts
    <3> QED
      BY <2>2, <3>1 DEF Marked, Release
  <2>5. PlaceOk(w, s) /\ Versions
    BY DEF DraftInv, DraftsOk, OwnerInv
  <2>6. /\ Latest(w) \in 1 .. Latest(w) /\ Latest(w) \in Nat /\ Last(published[w]) = published[w][Latest(w)]
    BY <2>3, Lengths DEF OwnerInv, Last, Latest
  <2>7. Last(published'[w]) = published'[w][Latest(w)']
    BY DEF Last, Latest
  <2>8. /\ \A n \in 1 .. Latest(w) : n # s => published'[w][n] = published[w][n]
        /\ s # 0 => Latest(w)' = Latest(w)
        /\ s \in 1 .. Latest(w) => published'[w][s] = d
        /\ s = 0 => Latest(w)' = Latest(w) + 1 /\ published'[w][Latest(w) + 1] = d
    BY <2>1, <2>2, <2>5, OtherVersions DEF Latest
  <2>9. CASE s # 0
    <3>1. s = Latest(w) /\ ~d.curated
      BY <2>3, <2>6, <2>7, <2>8, <2>9
    <3>2. published[w][s].curated
      BY <2>3, <2>6, <3>1
    <3> QED
      BY <2>1, <2>3, <2>4, <2>5, <2>9, <3>1, <3>2 DEF PlaceOk, CorrectionOk
  <2>10. CASE s = 0
    <3>1. ~d.curated
      BY <2>3, <2>7, <2>8, <2>10
    <3>2. \E t \in Tasks : HasNew(t, w) /\ task[t].pc \in {"sync", "publish"}
      BY <2>1, <2>10 DEF Publishes
    <3> QED
      BY <2>1, <2>3, <2>4, <2>5, <2>10, <3>1, <3>2 DEF PlaceOk, CorrectionOk
  <2> QED
    BY <2>9, <2>10
<1> QED
  BY <1>1, OwnerInit, OwnerNext, DraftInit, DraftNext, PTL DEF Spec, CurationLostOnlyToStaleWriter

================================================================================
