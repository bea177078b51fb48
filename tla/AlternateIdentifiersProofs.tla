---------------------- MODULE AlternateIdentifiersProofs ----------------------
(***************************************************************************)
(* Proofs about AlternateIdentifiers, for any families, versions, numbers  *)
(* and tasks.                                                              *)
(*                                                                         *)
(* Neither property is inductive alone.  OwnerInv says why the rows of     *)
(* published numbers survive: a task drops rows of its own family only,    *)
(* and none a published version uses unless a publish overlapped with it.  *)
(* StatusInv says that a row with the wrong status has a task to come that *)
(* will put it right.                                                      *)
(***************************************************************************)
EXTENDS AlternateIdentifiers, TLAPS

USE ParentAssumption, NoneAssumption

SyncTask == [step : {"queued", "read"}, parent : Parent, record : Record,
             drop : SUBSET Value, register : SUBSET Value, ok : BOOLEAN]

Operation == [kind : {"save", "publish"}, values : SUBSET Value, mint : SUBSET Value]

RowType == {NoRow} \cup [owner : Parent, status : {"reserved", "registered"}]

TypeInv ==
    /\ draft \in [Record -> (SUBSET Value) \cup {None}]
    /\ published \in [Record -> (SUBSET Value) \cup {None}]
    /\ row \in [Value -> RowType]
    /\ op \in [Record -> Operation \cup {None}]
    /\ task \in [Task -> SyncTask \cup {None}]
    /\ \A t \in Task : task[t] # None => ParentOf[task[t].record] = task[t].parent
    /\ \A t \in Task : task[t] # None /\ task[t].step = "queued" =>
          task[t].drop = {} /\ task[t].register = {} /\ task[t].ok

\* What a publish in flight needs is owned by the family or will be minted.
PublishSound ==
    \A r \in Record :
        op[r] # None /\ op[r].kind = "publish" /\ ParentOf[r] \notin overlap =>
            \A v \in op[r].values : row[v].owner = ParentOf[r] \/ v \in op[r].mint

\* A task that can still commit writes rows of its own family.
TaskOwns ==
    \A t \in Task : task[t] # None =>
        /\ \A v \in task[t].drop : row[v].owner = task[t].parent
        /\ task[t].ok => \A v \in task[t].register : row[v].owner = task[t].parent

\* It drops no number in use, unless a publish overlapped with it.
DropUnused ==
    \A t \in Task : task[t] # None /\ task[t].parent \notin overlap =>
        task[t].drop \cap Used(task[t].parent) = {}

OverlapKnown == \A p \in Parent : Running(p) /\ Publishing(p) => p \in overlap

OwnerInv == PublishSound /\ TaskOwns /\ DropUnused /\ OverlapKnown /\ PublishedNumberOwned

\* Families that nothing disturbed.
Calm(p) == p \notin overlap /\ Family(p) \cap deleted = {}

\* A task of such a family registers what is in use, and can commit.
RegisterUsed ==
    \A t \in Task : task[t] # None /\ Calm(task[t].parent) =>
        task[t].ok /\ task[t].register \subseteq Used(task[t].parent)

\* A row whose status is not the right one has a task to come.
Wrong(v, p) == ~ (v \in Used(p) <=> row[v].status = "registered")

Pending(t, v, p) ==
    /\ task[t] # None /\ task[t].parent = p
    /\ \/ task[t].step = "queued"
       \/ task[t].step = "read" /\ v \in (IF v \in Used(p) THEN task[t].register
                                                           ELSE task[t].drop)

CorrectionPending ==
    \A p \in Parent : Calm(p) =>
        \A v \in Rows(p) : Wrong(v, p) => \E t \in Task : Pending(t, v, p)

StatusInv == RegisterUsed /\ CorrectionPending

Inv == TypeInv /\ OwnerInv /\ StatusInv

-----------------------------------------------------------------------------
(* Typing                                                                  *)

\* The rows once a task dropped D and registered G.
Written(D, G) ==
    [v \in Value |-> IF v \in D THEN NoRow
                     ELSE IF v \in G THEN [row[v] EXCEPT !.status = "registered"]
                     ELSE row[v]]

\* Minting keeps rows well-formed.
LEMMA MintTyped ==
    ASSUME TypeInv, NEW S, NEW p \in Parent
    PROVE  Mint(S, p) \in [Value -> RowType]
<1>1. \A v \in Value : row[v] \in RowType
  BY DEF TypeInv
<1>2. Reserved(p) \in RowType
  BY DEF Reserved, RowType
<1> QED
  BY <1>1, <1>2 DEF Mint

\* So does the commit of a task that registers rows somebody owns.
LEMMA WrittenTyped ==
    ASSUME TypeInv, NEW D, NEW G, \A v \in (G \cap Value) \ D : row[v].owner # None
    PROVE  Written(D, G) \in [Value -> RowType]
<1>1. \A v \in Value : row[v] \in RowType
  BY DEF TypeInv
<1>2. ASSUME NEW v \in Value, row[v].owner # None
      PROVE  [row[v] EXCEPT !.status = "registered"] \in RowType
  BY <1>1, <1>2 DEF RowType, NoRow
<1>3. NoRow \in RowType
  BY DEF RowType
<1> QED
  BY <1>1, <1>2, <1>3 DEF Written

\* The initial state is well-formed and satisfies the invariant.
LEMMA InitInv == Init => Inv
<1> SUFFICES ASSUME Init PROVE Inv
  OBVIOUS
<1>1. TypeInv
  BY DEF Init, TypeInv, RowType
<1>2. OwnerInv
  BY DEF Init, OwnerInv, PublishSound, TaskOwns, DropUnused, OverlapKnown, Running,
         PublishedNumberOwned
<1>3. \A p \in Parent : Rows(p) = {}
  BY DEF Init, Rows, NoRow
<1>4. StatusInv
  BY <1>3 DEF Init, StatusInv, RegisterUsed, CorrectionPending
<1> QED
  BY <1>1, <1>2, <1>4 DEF Inv

\* Every step keeps the state well-formed.
LEMMA NextTypeInv == TypeInv /\ TaskOwns /\ [Next]_vars => TypeInv'
<1> SUFFICES ASSUME TypeInv, TaskOwns, [Next]_vars PROVE TypeInv'
  OBVIOUS
<1>1. ASSUME NEW r \in Record, NEW V \in SUBSET Value, CreateDraft(r, V) PROVE TypeInv'
  BY <1>1 DEF TypeInv, CreateDraft
<1>2. ASSUME NEW r \in Record, Edit(r) PROVE TypeInv'
  BY <1>2 DEF TypeInv, Edit
<1>3. ASSUME NEW r \in Record, DiscardDraft(r) PROVE TypeInv'
  BY <1>3 DEF TypeInv, DiscardDraft
<1>4. ASSUME NEW r \in Record, NEW V \in SUBSET Value, SaveBegin(r, V) PROVE TypeInv'
  <2>1. [kind |-> "save", values |-> V, mint |-> ToMint(V)] \in Operation
    BY DEF Operation, ToMint
  <2> QED
    BY <1>4, <2>1 DEF TypeInv, SaveBegin
<1>5. ASSUME NEW r \in Record, SaveCommit(r) PROVE TypeInv'
  <2>1. op[r] \in Operation /\ row' \in [Value -> RowType]
    BY <1>5, MintTyped DEF TypeInv, SaveCommit
  <2> QED
    BY <1>5, <2>1 DEF TypeInv, SaveCommit, Operation
<1>6. ASSUME NEW r \in Record, PublishBegin(r) PROVE TypeInv'
  <2>1. draft[r] \in SUBSET Value
    BY <1>6 DEF TypeInv, PublishBegin
  <2>2. [kind |-> "publish", values |-> draft[r], mint |-> PublishMint(draft[r])] \in Operation
    BY <2>1 DEF Operation, ToMint, PublishMint
  <2> QED
    BY <1>6, <2>2 DEF TypeInv, PublishBegin
<1>7. ASSUME NEW r \in Record, PublishCommit(r) PROVE TypeInv'
  <2>1. op[r] \in Operation /\ row' \in [Value -> RowType]
    BY <1>7, MintTyped DEF TypeInv, PublishCommit
  <2>2. published' \in [Record -> (SUBSET Value) \cup {None}]
    BY <1>7, <2>1 DEF TypeInv, PublishCommit, Operation
  <2>3. PICK t \in Task : task' = [task EXCEPT ![t] =
                       [step |-> "queued", parent |-> ParentOf[r], record |-> r,
                        drop |-> {}, register |-> {}, ok |-> TRUE]]
    BY <1>7 DEF PublishCommit
  <2>4. task' \in [Task -> SyncTask \cup {None}]
    BY <2>3 DEF TypeInv, SyncTask
  <2>5. \A s \in Task : task'[s] # None =>
          /\ ParentOf[task'[s].record] = task'[s].parent
          /\ task'[s].step = "queued" =>
                task'[s].drop = {} /\ task'[s].register = {} /\ task'[s].ok
    BY <2>3 DEF TypeInv
  <2> QED
    BY <1>7, <2>1, <2>2, <2>4, <2>5 DEF TypeInv, PublishCommit
<1>8. ASSUME NEW r \in Record, PublishRollback(r) \/ DeleteRecord(r) PROVE TypeInv'
  BY <1>8 DEF TypeInv, PublishRollback, DeleteRecord
<1>9. ASSUME NEW t \in Task, TaskRead(t) PROVE TypeInv'
  <2>1. task[t] \in SyncTask
    BY <1>9 DEF TypeInv, TaskRead
  <2>2. Unused(task[t].parent) \in SUBSET Value /\ ToRegister(task[t].parent) \in SUBSET Value
    BY DEF Unused, ToRegister, Rows
  <2>3. [task[t] EXCEPT !.step = "read", !.drop = Unused(task[t].parent),
                        !.register = ToRegister(task[t].parent)] \in SyncTask
    BY <2>1, <2>2 DEF SyncTask
  <2> QED
    BY <1>9, <2>1, <2>3 DEF TypeInv, TaskRead, SyncTask
<1>10. ASSUME NEW t \in Task, TaskWrite(t) PROVE TypeInv'
  <2>1. row' \in [Value -> RowType]
    <3>1. PICK x \in SyncTask : x = task[t]
      BY <1>10 DEF TypeInv, TaskWrite
    <3>2. \A v \in (x.register \cap Value) \ x.drop : row[v].owner # None
      <4>1. task[t] # None /\ task[t].ok /\ x.parent \in Parent
        BY <1>10, <3>1 DEF TaskWrite, SyncTask
      <4>2. \A v \in x.register : row[v].owner = x.parent
        BY <3>1, <4>1 DEF TaskOwns
      <4> QED
        BY <4>1, <4>2
    <3>3. row' = Written(x.drop, x.register)
      BY <1>10, <3>1 DEF TaskWrite, Written
    <3> QED
      BY <3>2, <3>3, WrittenTyped
  <2>2. ASSUME NEW s \in Task, task[s] # None
        PROVE  /\ [task[s] EXCEPT !.drop = @ \ task[t].drop,
                        !.ok = @ /\ task[s].register \cap task[t].drop = {}] \in SyncTask
               /\ ParentOf[task[s].record] = task[s].parent
    <3>1. PICK x \in SyncTask : x = task[s]
      BY <2>2 DEF TypeInv
    <3>2. [x EXCEPT !.drop = @ \ task[t].drop,
                    !.ok = @ /\ x.register \cap task[t].drop = {}] \in SyncTask
      BY DEF SyncTask
    <3> QED
      BY <2>2, <3>1, <3>2 DEF TypeInv
  <2>3. task' \in [Task -> SyncTask \cup {None}]
    BY <1>10, <2>2 DEF TaskWrite
  <2>4. ASSUME NEW s \in Task, task'[s] # None
        PROVE  /\ ParentOf[task'[s].record] = task'[s].parent
               /\ task'[s].step = "queued" =>
                    task'[s].drop = {} /\ task'[s].register = {} /\ task'[s].ok
    <3>1. task[s] # None /\ s # t
      BY <1>10, <2>4 DEF TaskWrite
    <3>2. PICK x \in SyncTask : x = task[s]
      BY <3>1 DEF TypeInv
    <3>3. task'[s] = [x EXCEPT !.drop = @ \ task[t].drop,
                    !.ok = @ /\ x.register \cap task[t].drop = {}]
      BY <1>10, <3>1, <3>2 DEF TaskWrite
    <3>4. /\ task'[s].record = x.record /\ task'[s].parent = x.parent
          /\ task'[s].step = x.step /\ task'[s].register = x.register
          /\ task'[s].drop = x.drop \ task[t].drop
          /\ task'[s].ok = (x.ok /\ x.register \cap task[t].drop = {})
      BY <3>3 DEF SyncTask
    <3> QED
      BY <3>1, <3>2, <3>4, ZenonT(30) DEF TypeInv
  <2> QED
    BY <1>10, <2>1, <2>3, <2>4 DEF TypeInv, TaskWrite
<1>11. ASSUME NEW t \in Task, TaskFail(t) PROVE TypeInv'
  BY <1>11 DEF TypeInv, TaskFail
<1>12. CASE UNCHANGED vars
  BY <1>12 DEF TypeInv, vars
<1> QED
  BY <1>1, <1>2, <1>3, <1>4, <1>5, <1>6, <1>7, <1>8, <1>9, <1>10, <1>11, <1>12 DEF Next

-----------------------------------------------------------------------------
(* Ownership                                                               *)

\* Without a publish or a deletion the numbers in use stay.
LEMMA UsedKept == published' = published => \A p : Used(p)' = Used(p)
BY DEF Used

\* Minting free numbers takes none from anybody.
LEMMA MintKeeps ==
    ASSUME NEW S, NEW p, NEW v \in Value
    PROVE  /\ row[v].owner # None => Mint(ToMint(S), p)[v] = row[v]
           /\ v \in ToMint(S) => Mint(ToMint(S), p)[v] = Reserved(p)
           /\ v \notin ToMint(S) => Mint(ToMint(S), p)[v] = row[v]
BY DEF Mint, ToMint

\* Numbers in drafts, in publishes in flight, published and in tasks are numbers.
LEMMA NumbersTyped ==
    ASSUME TypeInv
    PROVE  /\ \A r \in Record : published[r] # None => published[r] \subseteq Value
           /\ \A r \in Record : op[r] # None => op[r] \in Operation
           /\ \A r \in Record : op[r] # None => op[r].values \subseteq Value
           /\ \A t \in Task : task[t] # None => task[t] \in SyncTask
           /\ \A t \in Task : task[t] # None =>
                 task[t].drop \subseteq Value /\ task[t].register \subseteq Value
           /\ \A t \in Task : task[t] # None => task[t].parent \in Parent
BY DEF TypeInv, Operation, SyncTask

\* An action that touches drafts only.
LEMMA OwnerFrame ==
    ASSUME OwnerInv, UNCHANGED <<published, row, op, task, overlap>>
    PROVE  OwnerInv'
BY DEF OwnerInv, PublishSound, TaskOwns, DropUnused, OverlapKnown, PublishedNumberOwned,
       Running, Publishing, Used

\* Saving mints what is free and publishes nothing.
LEMMA SaveOwner ==
    ASSUME TypeInv, OwnerInv, NEW r \in Record, NEW V \in SUBSET Value,
           SaveBegin(r, V) \/ SaveCommit(r) \/ PublishRollback(r)
    PROVE  OwnerInv'
<1>1. /\ UNCHANGED <<published, task, overlap>>
      /\ \E x : op' = [op EXCEPT ![r] = x] /\ (x = None \/ x.kind = "save")
  BY DEF SaveBegin, SaveCommit, PublishRollback
<1>2. \A v \in Value : row[v].owner # None => row'[v] = row[v]
  BY MintKeeps DEF SaveBegin, SaveCommit, PublishRollback
<1>3. \A q \in Record : op'[q] # None /\ op'[q].kind = "publish" => op'[q] = op[q]
  BY <1>1 DEF TypeInv
<1>4. \A p \in Parent : p # None
  OBVIOUS
<1>5. PublishSound'
  BY <1>1, <1>2, <1>3, <1>4, NumbersTyped DEF OwnerInv, PublishSound
<1>6. TaskOwns'
  BY <1>1, <1>2, <1>4, NumbersTyped DEF OwnerInv, TaskOwns
<1>7. DropUnused'
  BY <1>1, UsedKept DEF OwnerInv, DropUnused
<1>8. OverlapKnown'
  BY <1>1, <1>3 DEF OwnerInv, OverlapKnown, Running, Publishing, Family
<1>9. PublishedNumberOwned'
  BY <1>1, <1>2, <1>4, NumbersTyped DEF OwnerInv, PublishedNumberOwned
<1> QED
  BY <1>5, <1>6, <1>7, <1>8, <1>9 DEF OwnerInv

\* Publishing begins when no number belongs to another family.
LEMMA PublishBeginOwner ==
    ASSUME TypeInv, OwnerInv, NEW r \in Record, PublishBegin(r)
    PROVE  OwnerInv'
<1> DEFINE o == [kind |-> "publish", values |-> draft[r], mint |-> PublishMint(draft[r])]
           p == ParentOf[r]
<1>1. /\ UNCHANGED <<published, task, row>> /\ op' = [op EXCEPT ![r] = o]
      /\ overlap' = IF Running(p) THEN overlap \cup {p} ELSE overlap
      /\ \A v \in draft[r] : row[v].owner \in {None, p}
  BY DEF PublishBegin, Acceptable
<1>2. \A v \in o.values : row[v].owner = p \/ v \in o.mint
  BY <1>1 DEF PublishMint, ToMint
<1>3. op'[r] = o /\ \A q \in Record \ {r} : op'[q] = op[q]
  BY <1>1 DEF TypeInv
<1>4. PublishSound'
  BY <1>1, <1>2, <1>3 DEF OwnerInv, PublishSound
<1>5. TaskOwns' /\ DropUnused' /\ PublishedNumberOwned'
  BY <1>1, UsedKept DEF OwnerInv, TaskOwns, DropUnused, PublishedNumberOwned
<1>6. OverlapKnown'
  BY <1>1, <1>3 DEF OwnerInv, OverlapKnown, Running, Publishing, Family
<1> QED
  BY <1>4, <1>5, <1>6 DEF OwnerInv

\* Its commit publishes numbers the family owns, and no task that could drop
\* them is running, unless the two overlapped.
LEMMA PublishCommitOwner ==
    ASSUME TypeInv, OwnerInv, NEW r \in Record, PublishCommit(r)
    PROVE  OwnerInv'
<1> DEFINE p == ParentOf[r]
           n == [step |-> "queued", parent |-> p, record |-> r,
                 drop |-> {}, register |-> {}, ok |-> TRUE]
<1>1. PICK t \in Task : task[t] = None /\ task' = [task EXCEPT ![t] = n]
  BY DEF PublishCommit
<1>2. /\ op[r] # None /\ op[r].kind = "publish" /\ op[r].values \subseteq Value
      /\ op' = [op EXCEPT ![r] = None]
      /\ overlap' = overlap
      /\ published' = [published EXCEPT ![r] = op[r].values]
  BY NumbersTyped DEF PublishCommit
<1>3. task'[t] = n /\ \A s \in Task \ {t} : task'[s] = task[s]
  BY <1>1 DEF TypeInv
<1>4. op'[r] = None /\ \A q \in Record \ {r} : op'[q] = op[q]
  BY <1>2 DEF TypeInv
<1>5. /\ published'[r] = op[r].values
      /\ \A q \in Record \ {r} : published'[q] = published[q]
  BY <1>2 DEF TypeInv
<1>6. /\ \A v \in Value : row[v].owner # None => row'[v] = row[v]
      /\ \A v \in Value : v \in op[r].mint => row'[v].owner = p
  <2>1. ToMint(op[r].mint) = op[r].mint /\ row' = Mint(op[r].mint, p)
    BY DEF PublishCommit
  <2>2. row' = Mint(ToMint(op[r].mint), p)
    BY <2>1
  <2>3. \A v \in Value : v \in ToMint(op[r].mint) => row'[v] = Reserved(p)
    BY <2>2, MintKeeps
  <2>4. \A v \in Value : row[v].owner # None => row'[v] = row[v]
    BY <2>2, MintKeeps
  <2> QED
    BY <2>1, <2>3, <2>4 DEF Reserved
<1>7. p \in Parent /\ \A q \in Parent : q # None
  OBVIOUS
<1>8. PublishSound'
  <2> SUFFICES ASSUME NEW q \in Record, op'[q] # None, op'[q].kind = "publish",
                      ParentOf[q] \notin overlap, NEW v \in op'[q].values
               PROVE  row'[v].owner = ParentOf[q] \/ v \in op'[q].mint
    BY <1>2 DEF PublishSound
  <2>1. q # r /\ op'[q] = op[q]
    BY <1>4
  <2>2. v \in Value /\ (row[v].owner = ParentOf[q] \/ v \in op[q].mint)
    BY <2>1, NumbersTyped DEF OwnerInv, PublishSound
  <2>3. ParentOf[q] # None
    BY <1>7
  <2> QED
    BY <1>6, <2>1, <2>2, <2>3
<1>9. TaskOwns'
  BY <1>3, <1>6, <1>7, NumbersTyped DEF OwnerInv, TaskOwns
<1>10. DropUnused'
  <2> SUFFICES ASSUME NEW s \in Task, task'[s] # None, NEW q, q = task'[s].parent, q \notin overlap
               PROVE  task'[s].drop \cap Used(q)' = {}
    BY <1>2 DEF DropUnused
  <2>1. CASE s = t
    BY <1>3, <2>1
  <2>2. CASE s # t /\ q # p
    <3>1. Used(q)' = Used(q)
      BY <1>5, <2>2 DEF Used, Family
    <3> QED
      BY <1>3, <2>2, <3>1 DEF OwnerInv, DropUnused
  <2>3. CASE s # t /\ q = p
    <3>1. task[s] # None /\ task[s] \in SyncTask /\ task'[s] = task[s]
      BY <1>3, <2>3, NumbersTyped
    <3>2. task[s].step # "read"
      BY <1>2, <1>7, <2>3, <3>1 DEF OwnerInv, OverlapKnown, Running, Publishing, Family
    <3>3. task[s].step = "queued"
      BY <3>1, <3>2 DEF SyncTask
    <3> QED
      BY <3>1, <3>3 DEF TypeInv
  <2> QED
    BY <2>1, <2>2, <2>3
<1>11. OverlapKnown'
  <2> SUFFICES ASSUME NEW q \in Parent, Running(q)', Publishing(q)' PROVE q \in overlap
    BY <1>2 DEF OverlapKnown
  <2>1. Running(q)
    BY <1>3 DEF Running
  <2>2. Publishing(q)
    BY <1>4 DEF Publishing, Family
  <2> QED
    BY <2>1, <2>2 DEF OwnerInv, OverlapKnown
<1>12. PublishedNumberOwned'
  <2> SUFFICES ASSUME NEW q \in Record, published'[q] # None, ParentOf[q] \notin overlap,
                      NEW v \in published'[q]
               PROVE  row'[v].owner = ParentOf[q]
    BY <1>2 DEF PublishedNumberOwned
  <2>1. CASE q = r
    BY <1>2, <1>5, <1>6, <1>7, <2>1 DEF OwnerInv, PublishSound
  <2>2. CASE q # r
    <3>1. v \in Value /\ row[v].owner = ParentOf[q] /\ ParentOf[q] # None
      BY <1>5, <1>7, <2>2, NumbersTyped DEF OwnerInv, PublishedNumberOwned
    <3> QED
      BY <1>6, <3>1
  <2> QED
    BY <2>1, <2>2
<1> QED
  BY <1>8, <1>9, <1>10, <1>11, <1>12 DEF OwnerInv

\* Deleting a version or failing a task gives up claims only.
LEMMA DeleteOwner ==
    ASSUME TypeInv, OwnerInv,
           \/ \E r \in Record : DeleteRecord(r)
           \/ \E t \in Task : TaskFail(t)
    PROVE  OwnerInv'
<1>1. /\ UNCHANGED <<row, op, overlap>>
      /\ \A r \in Record : published'[r] \in {None, published[r]}
      /\ \A t \in Task : task'[t] \in {None, task[t]}
  BY DEF DeleteRecord, TaskFail, TypeInv
<1>2. PublishSound' /\ TaskOwns' /\ OverlapKnown'
  BY <1>1 DEF OwnerInv, PublishSound, TaskOwns, OverlapKnown, Running, Publishing
<1>3. \A p : Used(p)' \subseteq Used(p)
  BY <1>1 DEF Used, Family
<1>4. DropUnused'
  <2> SUFFICES ASSUME NEW s \in Task, task'[s] # None, task'[s].parent \notin overlap,
                      NEW q, q = task'[s].parent
               PROVE  task'[s].drop \cap Used(q)' = {}
    BY <1>1 DEF DropUnused
  <2>1. task'[s] = task[s] /\ task[s] # None
    BY <1>1
  <2>2. task[s].drop \cap Used(q) = {}
    BY <1>1, <2>1 DEF OwnerInv, DropUnused
  <2> QED
    BY <1>3, <2>1, <2>2
<1>5. PublishedNumberOwned'
  BY <1>1 DEF OwnerInv, PublishedNumberOwned
<1> QED
  BY <1>2, <1>4, <1>5 DEF OwnerInv

\* A task decides from the rows and versions of its family.
LEMMA TaskReadOwner ==
    ASSUME TypeInv, OwnerInv, NEW t \in Task, TaskRead(t)
    PROVE  OwnerInv'
<1>1. PICK x \in SyncTask : x = task[t] /\ x.parent \in Parent
  BY NumbersTyped DEF TaskRead
<1> DEFINE p == x.parent
           y == [x EXCEPT !.step = "read", !.drop = Unused(p), !.register = ToRegister(p)]
<1>2. /\ UNCHANGED <<published, row, op>> /\ task' = [task EXCEPT ![t] = y]
      /\ overlap' = IF Publishing(p) THEN overlap \cup {p} ELSE overlap
  BY <1>1 DEF TaskRead
<1>3. task'[t] = y /\ \A s \in Task \ {t} : task'[s] = task[s]
  BY <1>2 DEF TypeInv
<1>4. /\ y.parent = p /\ y.step = "read" /\ y.drop = Unused(p) /\ y.register = ToRegister(p)
  BY DEF SyncTask
<1>5. overlap \subseteq overlap'
  BY <1>2
<1>6. PublishSound' /\ PublishedNumberOwned'
  BY <1>2, <1>5 DEF OwnerInv, PublishSound, PublishedNumberOwned
<1>7. TaskOwns'
  <2>1. /\ \A v \in Unused(p) : row[v].owner = p
        /\ \A v \in ToRegister(p) : row[v].owner = p
    BY DEF Unused, ToRegister, Rows
  <2> QED
    BY <1>2, <1>3, <1>4, <2>1 DEF OwnerInv, TaskOwns
<1>8. DropUnused'
  <2>1. \A q : Used(q)' = Used(q)
    BY <1>2, UsedKept
  <2>2. Unused(p) \cap Used(p) = {}
    BY DEF Unused
  <2> SUFFICES ASSUME NEW s \in Task, task'[s] # None, NEW q, q = task'[s].parent, q \notin overlap'
               PROVE  task'[s].drop \cap Used(q)' = {}
    BY DEF DropUnused
  <2>3. CASE s = t
    BY <1>3, <1>4, <2>1, <2>2, <2>3
  <2>4. CASE s # t
    BY <1>3, <1>5, <2>1, <2>4 DEF OwnerInv, DropUnused
  <2> QED
    BY <2>3, <2>4
<1>9. OverlapKnown'
  <2> SUFFICES ASSUME NEW q \in Parent, Running(q)', Publishing(q)' PROVE q \in overlap'
    BY DEF OverlapKnown
  <2>1. Publishing(q)
    BY <1>2 DEF Publishing, Family
  <2>2. Running(q) \/ q = p
    BY <1>3, <1>4 DEF Running
  <2> QED
    BY <1>2, <2>1, <2>2 DEF OwnerInv, OverlapKnown
<1> QED
  BY <1>6, <1>7, <1>8, <1>9 DEF OwnerInv

\* What the commit of a task leaves of the other tasks and of the rows.
LEMMA TaskWriteEffect ==
    ASSUME TypeInv, OwnerInv, NEW t \in Task, TaskWrite(t)
    PROVE  /\ task[t] # None /\ task[t].step = "read" /\ task[t].ok
           /\ UNCHANGED <<draft, published, deleted, op, overlap>>
           /\ task[t].drop \subseteq Value /\ task[t].register \subseteq Value
           /\ task[t].parent \in Parent
           /\ task'[t] = None
           /\ \A s \in Task \ {t} : task[s] = None => task'[s] = None
           /\ \A s \in Task \ {t} : task[s] # None =>
                /\ task'[s] # None
                /\ task'[s].parent = task[s].parent /\ task'[s].record = task[s].record
                /\ task'[s].step = task[s].step
                /\ task'[s].drop = task[s].drop \ task[t].drop
                /\ task'[s].register = task[s].register
                /\ task'[s].ok <=> task[s].ok /\ task[s].register \cap task[t].drop = {}
           /\ \A v \in task[t].drop : row'[v] = NoRow
           /\ \A v \in Value \ task[t].drop :
                /\ row'[v].owner = row[v].owner
                /\ v \in task[t].register => row'[v].status = "registered"
                /\ v \notin task[t].register => row'[v] = row[v]
<1>1. PICK x \in SyncTask : x = task[t]
  BY NumbersTyped DEF TaskWrite
<1>2. /\ x.drop \subseteq Value /\ x.register \subseteq Value /\ x.parent \in Parent
  BY DEF SyncTask
<1>3. /\ task[t] # None /\ task[t].step = "read" /\ task[t].ok
      /\ UNCHANGED <<draft, published, deleted, op, overlap>>
      /\ row' = Written(x.drop, x.register)
  BY <1>1 DEF TaskWrite, Written
<1>4. /\ task'[t] = None
      /\ \A s \in Task \ {t} : task[s] = None => task'[s] = None
  BY DEF TaskWrite
<1>5. ASSUME NEW s \in Task \ {t}, task[s] # None
      PROVE  /\ task'[s] # None
             /\ task'[s].parent = task[s].parent /\ task'[s].record = task[s].record
             /\ task'[s].step = task[s].step
             /\ task'[s].drop = task[s].drop \ task[t].drop
             /\ task'[s].register = task[s].register
             /\ task'[s].ok <=> task[s].ok /\ task[s].register \cap task[t].drop = {}
  <2>1. PICK y \in SyncTask : y = task[s]
    BY <1>5, NumbersTyped
  <2>2. task'[s] = [y EXCEPT !.drop = @ \ x.drop, !.ok = @ /\ y.register \cap x.drop = {}]
    BY <1>1, <1>5, <2>1 DEF TaskWrite
  <2>3. task'[s] \in SyncTask
    BY <2>2, ZenonT(30) DEF SyncTask
  <2>4. task'[s] # None
    BY <2>3 DEF SyncTask
  <2>5. /\ task'[s].parent = y.parent /\ task'[s].record = y.record
        /\ task'[s].step = y.step /\ task'[s].register = y.register
        /\ task'[s].drop = y.drop \ x.drop
        /\ task'[s].ok <=> y.ok /\ y.register \cap x.drop = {}
    BY <2>2 DEF SyncTask
  <2> QED
    BY <1>1, <2>1, <2>4, <2>5
<1>6. \A v \in Value : v \in x.drop => row'[v] = NoRow
  BY <1>3 DEF Written
<1>7. ASSUME NEW v \in Value \ x.drop
      PROVE  /\ row'[v].owner = row[v].owner
             /\ v \in x.register => row'[v].status = "registered"
             /\ v \notin x.register => row'[v] = row[v]
  <2>1. row[v] \in RowType
    BY DEF TypeInv
  <2>2. row'[v] = IF v \in x.register THEN [row[v] EXCEPT !.status = "registered"] ELSE row[v]
    BY <1>3 DEF Written
  <2> QED
    BY <2>1, <2>2 DEF RowType, NoRow
<1> QED
  BY <1>1, <1>2, <1>3, <1>4, <1>5, <1>6, <1>7

\* It drops rows of its own family only, and none in use or about to be.
LEMMA TaskWriteOwner ==
    ASSUME TypeInv, OwnerInv, NEW t \in Task, TaskWrite(t)
    PROVE  OwnerInv'
<1> DEFINE d == task[t].drop
           p == task[t].parent
<1>1. /\ task[t] # None /\ task[t].step = "read" /\ p \in Parent
      /\ published' = published /\ op' = op /\ overlap' = overlap
  BY TaskWriteEffect
<1>2. \A v \in Value \ d : row'[v].owner = row[v].owner
  BY TaskWriteEffect
<1>3. \A v \in d : row[v].owner = p
  BY <1>1 DEF OwnerInv, TaskOwns
<1>4. Running(p)
  BY <1>1 DEF Running
<1>5. PublishSound'
  <2> SUFFICES ASSUME NEW r \in Record, op[r] # None, op[r].kind = "publish",
                      ParentOf[r] \notin overlap, NEW v \in op[r].values, v \notin op[r].mint
               PROVE  row'[v].owner = ParentOf[r]
    BY <1>1 DEF PublishSound
  <2>1. v \in Value /\ row[v].owner = ParentOf[r]
    BY NumbersTyped DEF OwnerInv, PublishSound
  <2>2. CASE v \in d
    <3>1. ParentOf[r] = p /\ r \in Family(p)
      BY <1>3, <2>1, <2>2 DEF Family
    <3> QED
      BY <1>1, <1>4, <3>1 DEF OwnerInv, OverlapKnown, Publishing
  <2> QED
    BY <1>2, <2>1, <2>2
<1>6. TaskOwns'
  <2> SUFFICES ASSUME NEW s \in Task, task'[s] # None
               PROVE  /\ \A v \in task'[s].drop : row'[v].owner = task'[s].parent
                      /\ task'[s].ok => \A v \in task'[s].register : row'[v].owner = task'[s].parent
    BY DEF TaskOwns
  <2>1. s # t /\ task[s] # None
    BY TaskWriteEffect
  <2>2. /\ task'[s].parent = task[s].parent /\ task'[s].drop = task[s].drop \ d
        /\ task'[s].register = task[s].register
        /\ task'[s].ok => task[s].ok /\ task[s].register \cap d = {}
    BY <2>1, TaskWriteEffect
  <2>3. /\ \A v \in task[s].drop : row[v].owner = task[s].parent
        /\ task[s].ok => \A v \in task[s].register : row[v].owner = task[s].parent
        /\ task[s].drop \subseteq Value /\ task[s].register \subseteq Value
    BY <2>1, NumbersTyped DEF OwnerInv, TaskOwns
  <2> QED
    BY <1>2, <2>2, <2>3
<1>7. DropUnused'
  <2>1. \A q : Used(q)' = Used(q)
    BY <1>1, UsedKept
  <2> SUFFICES ASSUME NEW s \in Task, task'[s] # None, NEW q, q = task'[s].parent, q \notin overlap
               PROVE  task'[s].drop \cap Used(q)' = {}
    BY <1>1 DEF DropUnused
  <2>2. s # t /\ task[s] # None
    BY TaskWriteEffect
  <2>3. task[s].parent = q /\ task'[s].drop = task[s].drop \ d
    BY <2>2, TaskWriteEffect
  <2>4. task[s].drop \cap Used(q) = {}
    BY <2>2, <2>3 DEF OwnerInv, DropUnused
  <2> QED
    BY <2>1, <2>3, <2>4
<1>8. OverlapKnown'
  <2> SUFFICES ASSUME NEW q \in Parent, Running(q)', Publishing(q)' PROVE q \in overlap
    BY <1>1 DEF OverlapKnown
  <2>1. PICK s \in Task : task'[s] # None /\ task'[s].step = "read" /\ task'[s].parent = q
    BY DEF Running
  <2>2. s # t /\ task[s] # None
    BY <2>1, TaskWriteEffect
  <2>3. task[s].step = "read" /\ task[s].parent = q
    BY <2>1, <2>2, TaskWriteEffect
  <2> QED
    BY <1>1, <2>2, <2>3 DEF OwnerInv, OverlapKnown, Running, Publishing
<1>9. PublishedNumberOwned'
  <2> SUFFICES ASSUME NEW r \in Record, published[r] # None, ParentOf[r] \notin overlap,
                      NEW v \in published[r]
               PROVE  row'[v].owner = ParentOf[r]
    BY <1>1 DEF PublishedNumberOwned
  <2>1. v \in Value /\ row[v].owner = ParentOf[r]
    BY NumbersTyped DEF OwnerInv, PublishedNumberOwned
  <2>2. v \in Used(ParentOf[r])
    BY DEF Used, Family
  <2>3. v \notin d
    BY <1>1, <1>3, <2>1, <2>2 DEF OwnerInv, DropUnused
  <2> QED
    BY <1>2, <2>1, <2>3
<1> QED
  BY <1>5, <1>6, <1>7, <1>8, <1>9 DEF OwnerInv

\* Every step keeps OwnerInv.
LEMMA NextOwnerInv == TypeInv /\ OwnerInv /\ [Next]_vars => OwnerInv'
<1> SUFFICES ASSUME TypeInv, OwnerInv, [Next]_vars PROVE OwnerInv'
  OBVIOUS
<1>1. CASE \/ \E r \in Record, V \in SUBSET Value : CreateDraft(r, V)
           \/ \E r \in Record : Edit(r) \/ DiscardDraft(r)
           \/ UNCHANGED vars
  BY <1>1, OwnerFrame DEF CreateDraft, Edit, DiscardDraft, vars
<1>2. CASE \/ \E r \in Record, V \in SUBSET Value : SaveBegin(r, V)
           \/ \E r \in Record : SaveCommit(r) \/ PublishRollback(r)
  BY <1>2, SaveOwner
<1>3. CASE \E r \in Record : PublishBegin(r)
  BY <1>3, PublishBeginOwner
<1>4. CASE \E r \in Record : PublishCommit(r)
  BY <1>4, PublishCommitOwner
<1>5. CASE (\E r \in Record : DeleteRecord(r)) \/ (\E t \in Task : TaskFail(t))
  BY <1>5, DeleteOwner
<1>6. CASE \E t \in Task : TaskRead(t)
  BY <1>6, TaskReadOwner
<1>7. CASE \E t \in Task : TaskWrite(t)
  BY <1>7, TaskWriteOwner
<1> QED
  BY <1>1, <1>2, <1>3, <1>4, <1>5, <1>6, <1>7 DEF Next

-----------------------------------------------------------------------------
(* Status                                                                  *)

\* Nothing undoes a disturbance.
LEMMA CalmBefore ==
    ASSUME [Next]_vars, NEW p
    PROVE  Calm(p)' => Calm(p)
<1>1. overlap \subseteq overlap' /\ deleted \subseteq deleted'
  BY DEF Next, vars, CreateDraft, Edit, DiscardDraft, SaveBegin, SaveCommit, PublishBegin,
         PublishCommit, PublishRollback, DeleteRecord, TaskRead, TaskWrite, TaskFail
<1> QED
  BY <1>1 DEF Calm, Family

\* An action that leaves rows, versions and tasks alone.
LEMMA StatusFrame ==
    ASSUME StatusInv, [Next]_vars, UNCHANGED <<published, row, task>>
    PROVE  StatusInv'
<1>1. \A p : Used(p)' = Used(p) /\ Rows(p)' = Rows(p)
  BY DEF Used, Rows
<1>2. RegisterUsed'
  <2> SUFFICES ASSUME NEW t \in Task, task[t] # None, NEW q, q = task[t].parent, Calm(q)'
               PROVE  task[t].ok /\ task[t].register \subseteq Used(q)'
    BY DEF RegisterUsed
  <2> QED
    BY <1>1, CalmBefore DEF StatusInv, RegisterUsed
<1>3. CorrectionPending'
  <2> SUFFICES ASSUME NEW p \in Parent, Calm(p)', NEW v \in Rows(p)', Wrong(v, p)'
               PROVE  \E t \in Task : Pending(t, v, p)'
    BY DEF CorrectionPending
  <2>1. Calm(p) /\ v \in Rows(p) /\ Wrong(v, p)
    BY <1>1, CalmBefore DEF Wrong
  <2>2. PICK t \in Task : Pending(t, v, p)
    BY <2>1 DEF StatusInv, CorrectionPending
  <2> QED
    BY <1>1, <2>2 DEF Pending
<1> QED
  BY <1>2, <1>3 DEF StatusInv

\* Saving reserves rows for numbers nobody published.
LEMMA SaveStatus ==
    ASSUME TypeInv, OwnerInv, StatusInv, NEW r \in Record, SaveCommit(r)
    PROVE  StatusInv'
<1>1. /\ UNCHANGED <<published, task, overlap, deleted>>
      /\ \A v \in Value : row'[v] # row[v] => row[v].owner = None /\ row'[v] = Reserved(ParentOf[r])
  BY MintKeeps DEF SaveCommit
<1>2. \A p : Used(p)' = Used(p) /\ (Calm(p)' <=> Calm(p))
  BY <1>1 DEF Used, Calm
<1>3. RegisterUsed'
  <2> SUFFICES ASSUME NEW t \in Task, task[t] # None, NEW q, q = task[t].parent, Calm(q)'
               PROVE  task[t].ok /\ task[t].register \subseteq Used(q)'
    BY <1>1 DEF RegisterUsed
  <2> QED
    BY <1>2 DEF StatusInv, RegisterUsed
<1>4. CorrectionPending'
  <2> SUFFICES ASSUME NEW p \in Parent, Calm(p)', NEW v \in Rows(p)', Wrong(v, p)'
               PROVE  \E t \in Task : Pending(t, v, p)'
    BY DEF CorrectionPending
  <2>1. v \in Value
    BY DEF Rows
  <2>2. row'[v] = row[v]
    <3>1. SUFFICES ASSUME row'[v] # row[v] PROVE FALSE
      OBVIOUS
    <3>2. row[v].owner = None /\ row'[v].status = "reserved"
      BY <1>1, <2>1, <3>1 DEF Reserved
    <3>3. v \in Used(p)
      BY <1>2, <3>2 DEF Wrong
    <3>4. row[v].owner = p
      BY <1>2, <3>3 DEF Used, Family, Calm, OwnerInv, PublishedNumberOwned
    <3> QED
      BY <3>2, <3>4
  <2>3. Calm(p) /\ v \in Rows(p) /\ Wrong(v, p)
    BY <1>2, <2>1, <2>2 DEF Wrong, Rows
  <2>4. PICK t \in Task : Pending(t, v, p)
    BY <2>3 DEF StatusInv, CorrectionPending
  <2> QED
    BY <1>1, <1>2, <2>4 DEF Pending
<1> QED
  BY <1>3, <1>4 DEF StatusInv

\* A publish queues the task that puts right whatever it changes.
LEMMA PublishStatus ==
    ASSUME TypeInv, OwnerInv, StatusInv, NEW r \in Record, PublishCommit(r)
    PROVE  StatusInv'
<1> DEFINE q == ParentOf[r]
           n == [step |-> "queued", parent |-> q, record |-> r,
                 drop |-> {}, register |-> {}, ok |-> TRUE]
<1>1. PICK t \in Task : task[t] = None /\ task' = [task EXCEPT ![t] = n]
  BY DEF PublishCommit
<1>2. task'[t] = n /\ \A s \in Task \ {t} : task'[s] = task[s]
  BY <1>1 DEF TypeInv
<1>3. n # None
  OBVIOUS
<1>4. /\ op[r] # None /\ op[r].kind = "publish" /\ r \in Family(q) /\ q \in Parent
      /\ overlap' = overlap /\ deleted' = deleted
      /\ \A p \in Parent \ {q} : Used(p)' = Used(p)
  BY DEF PublishCommit, Used, Family, TypeInv
<1>5. \A p : Calm(p)' <=> Calm(p)
  BY <1>4 DEF Calm
<1>6. \A v \in Value : row'[v] # row[v] => row'[v] = Reserved(q)
  BY DEF PublishCommit, Mint
<1>7. RegisterUsed'
  <2> SUFFICES ASSUME NEW s \in Task, task'[s] # None, NEW p, p = task'[s].parent, Calm(p)'
               PROVE  task'[s].ok /\ task'[s].register \subseteq Used(p)'
    BY DEF RegisterUsed
  <2>1. CASE s = t
    BY <1>2, <2>1
  <2>2. CASE s # t /\ p # q
    <3>1. p \in Parent /\ task[s] # None /\ task'[s] = task[s]
      BY <1>2, <2>2, NumbersTyped
    <3> QED
      BY <1>4, <1>5, <2>2, <3>1 DEF StatusInv, RegisterUsed
  <2>3. CASE s # t /\ p = q
    <3>1. task[s] # None /\ task[s] \in SyncTask /\ task'[s] = task[s]
      BY <1>2, <2>3, NumbersTyped
    <3>2. task[s].step # "read"
      BY <1>4, <1>5, <2>3, <3>1 DEF Calm, OwnerInv, OverlapKnown, Running, Publishing
    <3>3. task[s].step = "queued"
      BY <3>1, <3>2 DEF SyncTask
    <3> QED
      BY <3>1, <3>3 DEF TypeInv
  <2> QED
    BY <2>1, <2>2, <2>3
<1>8. CorrectionPending'
  <2> SUFFICES ASSUME NEW p \in Parent, Calm(p)', NEW v \in Rows(p)', Wrong(v, p)'
               PROVE  \E s \in Task : Pending(s, v, p)'
    BY DEF CorrectionPending
  <2>1. CASE p = q
    BY <1>2, <1>3, <2>1 DEF Pending
  <2>2. CASE p # q
    <3>1. v \in Value /\ row'[v] = row[v]
      BY <1>6, <2>2 DEF Rows, Reserved
    <3>2. Calm(p) /\ v \in Rows(p) /\ Wrong(v, p)
      BY <1>4, <1>5, <2>2, <3>1 DEF Wrong, Rows
    <3>3. PICK s \in Task : Pending(s, v, p)
      BY <3>2 DEF StatusInv, CorrectionPending
    <3>4. task'[s] = task[s]
      BY <1>1, <1>2, <3>3 DEF Pending
    <3> QED
      BY <1>4, <2>2, <3>3, <3>4 DEF Pending
  <2> QED
    BY <2>1, <2>2
<1> QED
  BY <1>7, <1>8 DEF StatusInv

\* A deletion disturbs the family of the version and no other.
LEMMA DeleteStatus ==
    ASSUME TypeInv, StatusInv, NEW r \in Record, DeleteRecord(r)
    PROVE  StatusInv'
<1>1. UNCHANGED <<row, task, overlap>> /\ deleted' = deleted \cup {r}
  BY DEF DeleteRecord
<1>2. ASSUME NEW p, Calm(p)'
      PROVE  Calm(p) /\ Used(p)' = Used(p) /\ Rows(p)' = Rows(p)
  <2>1. r \notin Family(p)
    BY <1>1, <1>2 DEF Calm, Family
  <2>2. Used(p)' = Used(p)
    BY <2>1 DEF DeleteRecord, Used, TypeInv, Family
  <2> QED
    BY <1>1, <1>2, <2>2 DEF Calm, Rows
<1>3. RegisterUsed'
  <2> SUFFICES ASSUME NEW t \in Task, task[t] # None, NEW q, q = task[t].parent, Calm(q)'
               PROVE  task[t].ok /\ task[t].register \subseteq Used(q)'
    BY <1>1 DEF RegisterUsed
  <2> QED
    BY <1>2 DEF StatusInv, RegisterUsed
<1>4. CorrectionPending'
  <2> SUFFICES ASSUME NEW p \in Parent, Calm(p)', NEW v \in Rows(p)', Wrong(v, p)'
               PROVE  \E t \in Task : Pending(t, v, p)'
    BY DEF CorrectionPending
  <2>1. Calm(p) /\ v \in Rows(p) /\ Wrong(v, p)
    BY <1>1, <1>2 DEF Wrong
  <2>2. PICK t \in Task : Pending(t, v, p)
    BY <2>1 DEF StatusInv, CorrectionPending
  <2> QED
    BY <1>1, <1>2, <2>2 DEF Pending
<1> QED
  BY <1>3, <1>4 DEF StatusInv

\* A task fails in disturbed families only.
LEMMA FailStatus ==
    ASSUME TypeInv, StatusInv, NEW t \in Task, TaskFail(t)
    PROVE  StatusInv'
<1>1. /\ UNCHANGED <<row, published, deleted, overlap>>
      /\ \A s \in Task \ {t} : task'[s] = task[s]
      /\ task[t] # None /\ task'[t] = None
      /\ (task[t].step = "queued" /\ task[t].record \in deleted) \/ ~ task[t].ok
  BY DEF TaskFail, TypeInv
<1>2. \A p : Used(p)' = Used(p) /\ Rows(p)' = Rows(p) /\ (Calm(p)' <=> Calm(p))
  BY <1>1 DEF Used, Rows, Calm
<1>3. RegisterUsed'
  <2> SUFFICES ASSUME NEW s \in Task, task'[s] # None, NEW q, q = task'[s].parent, Calm(q)'
               PROVE  task'[s].ok /\ task'[s].register \subseteq Used(q)'
    BY DEF RegisterUsed
  <2> QED
    BY <1>1, <1>2 DEF StatusInv, RegisterUsed
<1>4. ~ Calm(task[t].parent)
  <2>1. SUFFICES ASSUME Calm(task[t].parent) PROVE FALSE
    OBVIOUS
  <2>2. task[t].ok
    BY <1>1, <2>1 DEF StatusInv, RegisterUsed
  <2>3. task[t].record \in Record /\ ParentOf[task[t].record] = task[t].parent
    BY <1>1, NumbersTyped DEF TypeInv, SyncTask
  <2> QED
    BY <1>1, <2>1, <2>2, <2>3 DEF Calm, Family
<1>5. CorrectionPending'
  <2> SUFFICES ASSUME NEW p \in Parent, Calm(p)', NEW v \in Rows(p)', Wrong(v, p)'
               PROVE  \E s \in Task : Pending(s, v, p)'
    BY DEF CorrectionPending
  <2>1. Calm(p) /\ v \in Rows(p) /\ Wrong(v, p)
    BY <1>1, <1>2 DEF Wrong
  <2>2. PICK s \in Task : Pending(s, v, p)
    BY <2>1 DEF StatusInv, CorrectionPending
  <2>3. s # t
    BY <1>4, <2>1, <2>2 DEF Pending
  <2> QED
    BY <1>1, <1>2, <2>2, <2>3 DEF Pending
<1> QED
  BY <1>3, <1>5 DEF StatusInv

\* A task takes up every row of its family that has the wrong status.
LEMMA ReadStatus ==
    ASSUME TypeInv, StatusInv, NEW t \in Task, TaskRead(t)
    PROVE  StatusInv'
<1>1. PICK x \in SyncTask : x = task[t] /\ task[t] # None /\ x.step = "queued" /\ x.ok
  BY NumbersTyped DEF TaskRead, TypeInv
<1> DEFINE q == x.parent
           y == [x EXCEPT !.step = "read", !.drop = Unused(q), !.register = ToRegister(q)]
<1>2. /\ UNCHANGED <<published, row, deleted>> /\ task' = [task EXCEPT ![t] = y]
      /\ overlap \subseteq overlap'
  BY <1>1 DEF TaskRead
<1>3. task'[t] = y /\ \A s \in Task \ {t} : task'[s] = task[s]
  BY <1>2 DEF TypeInv
<1>4. /\ y.parent = q /\ y.step = "read" /\ y.drop = Unused(q) /\ y.register = ToRegister(q)
      /\ y.ok
  BY <1>1 DEF SyncTask
<1>5. y # None
  <2>1. Unused(q) \in SUBSET Value /\ ToRegister(q) \in SUBSET Value
    BY DEF Unused, ToRegister, Rows
  <2>2. y \in SyncTask
    BY <2>1 DEF SyncTask
  <2> QED
    BY <2>2 DEF SyncTask
<1>6. \A p : Used(p)' = Used(p) /\ Rows(p)' = Rows(p) /\ (Calm(p)' => Calm(p))
  BY <1>2 DEF Used, Rows, Calm
<1>7. RegisterUsed'
  <2> SUFFICES ASSUME NEW s \in Task, task'[s] # None, NEW p, p = task'[s].parent, Calm(p)'
               PROVE  task'[s].ok /\ task'[s].register \subseteq Used(p)'
    BY DEF RegisterUsed
  <2>1. CASE s = t
    BY <1>3, <1>4, <1>6, <2>1 DEF ToRegister
  <2>2. CASE s # t
    BY <1>3, <1>6, <2>2 DEF StatusInv, RegisterUsed
  <2> QED
    BY <2>1, <2>2
<1>8. CorrectionPending'
  <2> SUFFICES ASSUME NEW p \in Parent, Calm(p)', NEW v \in Rows(p)', Wrong(v, p)'
               PROVE  \E s \in Task : Pending(s, v, p)'
    BY DEF CorrectionPending
  <2>1. Calm(p) /\ v \in Rows(p) /\ Wrong(v, p)
    BY <1>2, <1>6 DEF Wrong
  <2>2. PICK s \in Task : Pending(s, v, p)
    BY <2>1 DEF StatusInv, CorrectionPending
  <2>3. CASE s # t
    BY <1>3, <1>6, <2>2, <2>3 DEF Pending
  <2>4. CASE s = t
    <3>1. p = q
      BY <1>1, <2>2, <2>4 DEF Pending
    <3>2. v \in Used(p) => v \in ToRegister(q)
      BY <2>1, <3>1 DEF ToRegister, Wrong
    <3>3. v \notin Used(p) => v \in Unused(q)
      BY <2>1, <3>1 DEF Unused
    <3>4. /\ task'[s] # None /\ task'[s].parent = p /\ task'[s].step = "read"
          /\ task'[s].register = ToRegister(q) /\ task'[s].drop = Unused(q)
      BY <1>3, <1>4, <1>5, <2>4, <3>1
    <3>5. v \in (IF v \in Used(p)' THEN task'[s].register ELSE task'[s].drop)
      BY <1>6, <3>2, <3>3, <3>4
    <3> QED
      BY <3>4, <3>5 DEF Pending
  <2> QED
    BY <2>3, <2>4
<1> QED
  BY <1>7, <1>8 DEF StatusInv

\* Its commit puts them right and leaves what other tasks have to do.
LEMMA WriteStatus ==
    ASSUME TypeInv, OwnerInv, StatusInv, NEW t \in Task, TaskWrite(t)
    PROVE  StatusInv'
<1> DEFINE d == task[t].drop
           g == task[t].register
           q == task[t].parent
<1>1. /\ task[t] # None /\ task[t].step = "read" /\ task[t].ok /\ q \in Parent
      /\ UNCHANGED <<published, deleted, overlap>>
      /\ task'[t] = None
  BY TaskWriteEffect
<1>2. /\ \A v \in d : row[v].owner = q
      /\ \A v \in g : row[v].owner = q
  BY <1>1 DEF OwnerInv, TaskOwns
<1>3. \A p : Used(p)' = Used(p) /\ (Calm(p)' <=> Calm(p))
  BY <1>1 DEF Used, Calm
<1>4. Calm(q) => g \subseteq Used(q) /\ d \cap Used(q) = {}
  BY <1>1 DEF StatusInv, RegisterUsed, OwnerInv, DropUnused, Calm
<1>5. RegisterUsed'
  <2> SUFFICES ASSUME NEW s \in Task, task'[s] # None, NEW p, p = task'[s].parent, Calm(p)'
               PROVE  task'[s].ok /\ task'[s].register \subseteq Used(p)'
    BY DEF RegisterUsed
  <2>1. s # t /\ task[s] # None
    BY <1>1, TaskWriteEffect
  <2>2. /\ task[s].parent = p /\ task'[s].register = task[s].register
        /\ task'[s].ok <=> task[s].ok /\ task[s].register \cap d = {}
    BY <2>1, TaskWriteEffect
  <2>3. Calm(p) /\ task[s].ok /\ task[s].register \subseteq Used(p)
    BY <1>3, <2>1, <2>2 DEF StatusInv, RegisterUsed
  <2>4. \A v \in task[s].register : row[v].owner = p
    BY <2>1, <2>2, <2>3 DEF OwnerInv, TaskOwns
  <2>5. task[s].register \cap d = {}
    BY <1>2, <1>4, <2>3, <2>4
  <2> QED
    BY <1>3, <2>2, <2>3, <2>5
<1>6. CorrectionPending'
  <2> SUFFICES ASSUME NEW p \in Parent, Calm(p)', NEW v \in Rows(p)', Wrong(v, p)'
               PROVE  \E s \in Task : Pending(s, v, p)'
    BY DEF CorrectionPending
  <2>1. v \in Value /\ row'[v].owner = p /\ p # None
    BY DEF Rows
  <2>2. v \notin d
    BY <2>1, TaskWriteEffect DEF NoRow
  <2>3. row[v].owner = p
    BY <2>1, <2>2, TaskWriteEffect
  <2>4. v \notin g
    <3>1. SUFFICES ASSUME v \in g PROVE FALSE
      OBVIOUS
    <3>2. row'[v].status = "registered"
      BY <2>1, <2>2, <3>1, TaskWriteEffect
    <3>3. v \in Used(p)
      BY <1>2, <1>3, <1>4, <2>3, <3>1
    <3> QED
      BY <1>3, <3>2, <3>3 DEF Wrong
  <2>5. row'[v] = row[v]
    BY <2>1, <2>2, <2>4, TaskWriteEffect
  <2>6. Calm(p) /\ v \in Rows(p) /\ Wrong(v, p)
    BY <1>3, <2>1, <2>3, <2>5 DEF Wrong, Rows
  <2>7. PICK s \in Task : Pending(s, v, p)
    BY <2>6 DEF StatusInv, CorrectionPending
  <2>8. s # t /\ task[s] # None
    BY <1>1, <2>2, <2>4, <2>7 DEF Pending
  <2>9. /\ task'[s] # None
        /\ task'[s].parent = task[s].parent /\ task'[s].step = task[s].step
        /\ task'[s].drop = task[s].drop \ d /\ task'[s].register = task[s].register
    BY <2>8, TaskWriteEffect
  <2> QED
    BY <1>3, <2>2, <2>7, <2>9 DEF Pending
<1> QED
  BY <1>5, <1>6 DEF StatusInv

\* Every step keeps StatusInv.
LEMMA NextStatusInv == TypeInv /\ OwnerInv /\ StatusInv /\ [Next]_vars => StatusInv'
<1> SUFFICES ASSUME TypeInv, OwnerInv, StatusInv, [Next]_vars PROVE StatusInv'
  OBVIOUS
<1>1. CASE \/ \E r \in Record, V \in SUBSET Value : CreateDraft(r, V) \/ SaveBegin(r, V)
           \/ \E r \in Record : \/ Edit(r) \/ DiscardDraft(r)
                                \/ PublishBegin(r) \/ PublishRollback(r)
           \/ UNCHANGED vars
  <2>1. UNCHANGED <<published, row, task>>
    BY <1>1 DEF CreateDraft, Edit, DiscardDraft, SaveBegin, PublishBegin, PublishRollback, vars
  <2> QED
    BY <2>1, StatusFrame
<1>2. CASE \E r \in Record : SaveCommit(r)
  BY <1>2, SaveStatus
<1>3. CASE \E r \in Record : PublishCommit(r)
  BY <1>3, PublishStatus
<1>4. CASE \E r \in Record : DeleteRecord(r)
  BY <1>4, DeleteStatus
<1>5. CASE \E t \in Task : TaskFail(t)
  BY <1>5, FailStatus
<1>6. CASE \E t \in Task : TaskRead(t)
  BY <1>6, ReadStatus
<1>7. CASE \E t \in Task : TaskWrite(t)
  BY <1>7, WriteStatus
<1> QED
  BY <1>1, <1>2, <1>3, <1>4, <1>5, <1>6, <1>7 DEF Next

-----------------------------------------------------------------------------
(* Theorems                                                                *)

\* The inductive invariant: what keeps the rows of published numbers, and who is
\* to put a status right.
THEOREM Inductive == Spec => []Inv
<1>1. Inv /\ [Next]_vars => Inv'
  <2> SUFFICES ASSUME Inv, [Next]_vars PROVE Inv'
    OBVIOUS
  <2>1. TypeInv'
    BY NextTypeInv DEF Inv, OwnerInv
  <2>2. OwnerInv'
    BY NextOwnerInv DEF Inv
  <2>3. StatusInv'
    BY NextStatusInv DEF Inv
  <2> QED
    BY <2>1, <2>2, <2>3 DEF Inv
<1> QED
  BY <1>1, InitInv, PTL DEF Spec

\* Whoever published a number owns its row, in every family where no publish and no
\* task overlapped, whatever other families, saves and deletions do.
THEOREM PublishedOwned == Spec => []PublishedNumberOwned
<1>1. Inv => PublishedNumberOwned
  BY DEF Inv, OwnerInv
<1> QED
  BY <1>1, Inductive, PTL

\* When the tasks of such a family have run, its registered rows are the numbers
\* in use: no order of the tasks leaves one behind.
THEOREM TasksSettle == Spec => []SettledStatus
<1>1. Inv => SettledStatus
  <2> SUFFICES ASSUME Inv, NEW p \in Parent, Calm(p),
                      \A t \in Task : task[t] # None => task[t].parent # p,
                      NEW v \in Rows(p)
               PROVE  v \in Used(p) <=> row[v].status = "registered"
    BY DEF SettledStatus, Calm
  <2> QED
    BY DEF Inv, StatusInv, CorrectionPending, Wrong, Pending
<1> QED
  BY <1>1, Inductive, PTL

=============================================================================
