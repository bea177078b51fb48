------------------------ MODULE AlternateIdentifiers ------------------------
(***************************************************************************)
(* CDS report numbers (scheme cdsrn) typed into a record's metadata, and   *)
(* their pidstore rows, one per value, owned by the parent of the family:  *)
(* saving or publishing a draft reserves rows, and a background task after *)
(* each publish registers the rows in use and removes the others.          *)
(*                                                                         *)
(* Code: site/cds_rdm/components.py, MintAlternateIdentifierComponent, and *)
(* tasks.py, sync_alternate_identifiers.                                   *)
(*                                                                         *)
(* Save, publish and the task each read rows, decide, and write in one     *)
(* read-committed transaction; each is split into its reads and its        *)
(* commit.  Two operations on one draft do not overlap: both write the     *)
(* version-checked draft row, so one of them would roll back.              *)
(***************************************************************************)
EXTENDS Naturals, FiniteSets

CONSTANTS
    Parent,       \* version families
    Record,       \* record versions
    ParentOf,     \* the family of each version
    Value,        \* report numbers
    Task,         \* slots for queued and running sync tasks (a bound)
    None

VARIABLES
    draft,        \* report numbers of each draft, None without a draft
    published,    \* report numbers of each published version, or None
    deleted,      \* versions removed by an operator
    row,          \* pidstore row of each value: owner and status
    op,           \* save or publish in flight on each version
    task,         \* sync tasks, queued or between read and commit
    overlap       \* history: families with a publish and a task that overlapped

vars == <<draft, published, deleted, row, op, task, overlap>>

ASSUME ParentAssumption == ParentOf \in [Record -> Parent]

ASSUME NoneAssumption ==
    /\ None \notin Parent
    /\ \A V \in SUBSET Value : V # None
    /\ \A t \in [step : {"queued", "read"}, parent : Parent, record : Record,
                 drop : SUBSET Value, register : SUBSET Value, ok : BOOLEAN] : t # None

NoRow == [owner |-> None, status |-> "none"]

Reserved(p) == [owner |-> p, status |-> "reserved"]

Family(p) == {r \in Record : ParentOf[r] = p}

\* The rows of a family, and the numbers its published versions carry.
Rows(p) == {v \in Value : row[v].owner = p}

Used(p) == UNION {published[r] : r \in {s \in Family(p) : published[s] # None}}

\* Rows _validate_alternative_identifiers creates for a draft with numbers V.
ToMint(V) == {v \in V : row[v].owner = None}

Mint(S, p) == [v \in Value |-> IF v \in S THEN Reserved(p) ELSE row[v]]

FaultyPublishMint(V) == {}                        \* trusts the saved draft

PublishMint(V) == ToMint(V)

\* No number of the draft belongs to another family.
FaultyAcceptable(V, p) == TRUE                    \* errors are not raised

Acceptable(V, p) == \A v \in V : row[v].owner \in {None, p}

\* What the sync task deletes and registers.
FaultyUnused(p) ==                                \* keeps registered rows
    {v \in Rows(p) \ Used(p) : row[v].status = "reserved"}

Unused(p) == Rows(p) \ Used(p)

FaultyToRegister(p) ==                            \* comparison inverted
    {v \in Rows(p) \cap Used(p) : row[v].status = "registered"}

ToRegister(p) == {v \in Rows(p) \cap Used(p) : row[v].status # "registered"}

Running(p) == \E t \in Task : /\ task[t] # None
                              /\ task[t].step = "read"
                              /\ task[t].parent = p

Publishing(p) == \E r \in Family(p) : op[r] # None /\ op[r].kind = "publish"

-----------------------------------------------------------------------------
Init ==
    /\ draft = [r \in Record |-> None]
    /\ published = [r \in Record |-> None]
    /\ deleted = {}
    /\ row = [v \in Value |-> NoRow]
    /\ op = [r \in Record |-> None]
    /\ task = [t \in Task |-> None]
    /\ overlap = {}

\* A new draft (create and new_version mint nothing).
CreateDraft(r, V) ==
    /\ draft[r] = None
    /\ published[r] = None
    /\ r \notin deleted
    /\ draft' = [draft EXCEPT ![r] = V]
    /\ UNCHANGED <<published, deleted, row, op, task, overlap>>

\* Editing a published version starts from what it carries.
Edit(r) ==
    /\ draft[r] = None
    /\ published[r] # None
    /\ draft' = [draft EXCEPT ![r] = published[r]]
    /\ UNCHANGED <<published, deleted, row, op, task, overlap>>

\* Discarding a draft leaves the rows it reserved.
DiscardDraft(r) ==
    /\ draft[r] # None
    /\ op[r] = None
    /\ draft' = [draft EXCEPT ![r] = None]
    /\ UNCHANGED <<published, deleted, row, op, task, overlap>>

\* update_draft: numbers of the own family need no row, numbers of others
\* are reported, the free ones will be minted.
SaveBegin(r, V) ==
    /\ draft[r] # None
    /\ op[r] = None
    /\ op' = [op EXCEPT ![r] = [kind |-> "save", values |-> V, mint |-> ToMint(V)]]
    /\ UNCHANGED <<draft, published, deleted, row, task, overlap>>

\* The draft is saved in any case; a number taken meanwhile is reported.
SaveCommit(r) ==
    LET free == ToMint(op[r].mint) IN
    /\ op[r] # None
    /\ op[r].kind = "save"
    /\ row' = Mint(free, ParentOf[r])
    /\ draft' = [draft EXCEPT ![r] = op[r].values]
    /\ op' = [op EXCEPT ![r] = None]
    /\ UNCHANGED <<published, deleted, task, overlap>>

\* publish: refused when a number of the draft belongs to another family.
PublishBegin(r) ==
    LET p == ParentOf[r]
        V == draft[r]
    IN
    /\ V # None
    /\ op[r] = None
    /\ Acceptable(V, p)
    /\ op' = [op EXCEPT ![r] =
                 [kind |-> "publish", values |-> V, mint |-> PublishMint(V)]]
    /\ overlap' = IF Running(p) THEN overlap \cup {p} ELSE overlap
    /\ UNCHANGED <<draft, published, deleted, row, task>>

\* Its commit, after which the sync task is queued.
PublishCommit(r) ==
    LET p == ParentOf[r] IN
    /\ op[r] # None
    /\ op[r].kind = "publish"
    /\ ToMint(op[r].mint) = op[r].mint
    /\ row' = Mint(op[r].mint, p)
    /\ published' = [published EXCEPT ![r] = op[r].values]
    /\ draft' = [draft EXCEPT ![r] = None]
    /\ op' = [op EXCEPT ![r] = None]
    /\ \E t \in Task :
         /\ task[t] = None
         /\ task' = [task EXCEPT ![t] =
                       [step |-> "queued", parent |-> p, record |-> r,
                        drop |-> {}, register |-> {}, ok |-> TRUE]]
    /\ UNCHANGED <<deleted, overlap>>

\* A number taken since the check makes the publish raise.
PublishRollback(r) ==
    /\ op[r] # None
    /\ op[r].kind = "publish"
    /\ ToMint(op[r].mint) # op[r].mint
    /\ op' = [op EXCEPT ![r] = None]
    /\ UNCHANGED <<draft, published, deleted, row, task, overlap>>

\* cds-admin delete removes the version and its draft; the rows belong to
\* the parent's uuid and stay, and no sync task is queued.
DeleteRecord(r) ==
    /\ published[r] # None
    /\ op[r] = None
    /\ published' = [published EXCEPT ![r] = None]
    /\ draft' = [draft EXCEPT ![r] = None]
    /\ deleted' = deleted \cup {r}
    /\ UNCHANGED <<row, op, task, overlap>>

\* The task reads the rows of the family and the published versions.  (A
\* commit between these two queries only makes the second one more recent.)
TaskRead(t) ==
    LET p == task[t].parent IN
    /\ task[t] # None
    /\ task[t].step = "queued"
    /\ task[t].record \notin deleted
    /\ task' = [task EXCEPT ![t] =
                  [@ EXCEPT !.step = "read",
                            !.drop = Unused(p),
                            !.register = ToRegister(p)]]
    /\ overlap' = IF Publishing(p) THEN overlap \cup {p} ELSE overlap
    /\ UNCHANGED <<draft, published, deleted, row, op>>

\* Its commit.  Other tasks that read a row it deletes have nothing left to
\* delete, and fail if they would update it.
TaskWrite(t) ==
    LET d == task[t].drop IN
    /\ task[t] # None
    /\ task[t].step = "read"
    /\ task[t].ok
    /\ row' = [v \in Value |->
                 IF v \in d THEN NoRow
                 ELSE IF v \in task[t].register
                      THEN [row[v] EXCEPT !.status = "registered"]
                      ELSE row[v]]
    /\ task' = [s \in Task |->
                  IF s = t THEN None
                  ELSE IF task[s] = None THEN None
                  ELSE [task[s] EXCEPT !.drop = @ \ d,
                                       !.ok = @ /\ task[s].register \cap d = {}]]
    /\ UNCHANGED <<draft, published, deleted, op, overlap>>

\* The task raises: its version is gone, or a row it must update is.
TaskFail(t) ==
    /\ task[t] # None
    /\ \/ task[t].step = "queued" /\ task[t].record \in deleted
       \/ ~ task[t].ok
    /\ task' = [task EXCEPT ![t] = None]
    /\ UNCHANGED <<draft, published, deleted, row, op, overlap>>

Next ==
    \/ \E r \in Record, V \in SUBSET Value : CreateDraft(r, V)
    \/ \E r \in Record : Edit(r)
    \/ \E r \in Record : DiscardDraft(r)
    \/ \E r \in Record, V \in SUBSET Value : SaveBegin(r, V)
    \/ \E r \in Record : SaveCommit(r)
    \/ \E r \in Record : PublishBegin(r)
    \/ \E r \in Record : PublishCommit(r)
    \/ \E r \in Record : PublishRollback(r)
    \/ \E r \in Record : DeleteRecord(r)
    \/ \E t \in Task : TaskRead(t)
    \/ \E t \in Task : TaskWrite(t)
    \/ \E t \in Task : TaskFail(t)

Spec == Init /\ [][Next]_vars

\* Workers take queued tasks and finish them.
FairSpec ==
    /\ Spec
    /\ \A t \in Task : WF_vars(TaskRead(t) \/ TaskWrite(t) \/ TaskFail(t))

-----------------------------------------------------------------------------
(* Properties                                                              *)

\* A published number is owned by the family that published it, unless a
\* publish and a sync task of that family overlapped: reservations that other
\* publishes swept away in between are made again (components.py, publish).
PublishedNumberOwned ==
    \A r \in Record :
        published[r] # None /\ ParentOf[r] \notin overlap =>
            \A v \in published[r] : row[v].owner = ParentOf[r]

\* Once the tasks of a family have run, exactly the numbers in use are
\* registered, in whatever order the tasks read and wrote and whichever of
\* them failed, unless a publish and a task overlapped (tasks.py).
SettledStatus ==
    \A p \in Parent :
        /\ \A t \in Task : task[t] # None => task[t].parent # p
        /\ Family(p) \cap deleted = {}
        /\ p \notin overlap
        => \A v \in Rows(p) : v \in Used(p) <=> row[v].status = "registered"

\* A published number is registered eventually, as long as it stays published
\* and its row survives, unless a publish and a task overlapped (a lost
\* row may be reserved again by a later draft, which queues no task).
PublishedEventuallyRegistered ==
    \A v \in Value, p \in Parent :
        (v \in Used(p) /\ row[v] = Reserved(p))
            ~> (v \notin Used(p) \/ row[v] # Reserved(p) \/ p \in overlap)

=============================================================================
