------------------------------ MODULE HarvestWriter ------------------------------
(***************************************************************************)
(* The write half of the INSPIRE harvester.  Every entry the reader hands  *)
(* on becomes a task of its own (the writers run asynchronously), and a    *)
(* task matches the entry against the search index, then creates a record, *)
(* edits the matched one, or publishes new versions of it, through a       *)
(* series of service calls that each commit on their own.  Curators edit   *)
(* the same records meanwhile, the index lags behind the database, any     *)
(* service call may fail and a worker may be lost.                         *)
(***************************************************************************)
EXTENDS Naturals, FiniteSets, SequencesExt

CONSTANTS
  Tasks,           \* the writer tasks of the harvest
  Works,           \* a range 1..n of parent records (a parent and its versions)
  NoWork,          \* stands for "no record"
  MaxVersions,     \* bound: versions of one parent
  MaxEdits,        \* bound: edits a curator begins
  MaxCrashes,      \* bound: lost workers
  Scenarios,       \* entries of the tasks and the records there at the start
  ParentDoi,       \* Works -> DOI of the parent record (of all its versions), or "none"
  Lrecid,          \* legacy recid -> migrated parent, or NoWork
  OldCDS,          \* legacy recid -> answer of the old CDS to a HEAD request
  Minted,          \* approval report numbers in the pidstore
  Restricted       \* parents that are not public

ASSUME WriterBounds == /\ MaxVersions \in Nat \ {0} /\ MaxEdits \in Nat
                       /\ MaxCrashes \in Nat

ASSUME WorksAssumption == Works \subseteq Nat /\ NoWork \notin Works

\* Every version has a resource type and files, if only none of them; a legacy recid
\* in the pidstore is that of a published record, and the ids of an entry are those
\* the matcher looks for.
ASSUME ScenariosAssumption ==
  \A s \in Scenarios :
    /\ DOMAIN s.published = Works
    /\ \A w \in Works : /\ s.published[w] \in Seq(ToSet(s.published[w]))
                        /\ Len(s.published[w]) <= MaxVersions
    /\ \A w \in Works : \A v \in ToSet(s.published[w]) :
         {"curated", "files", "rtype"} \subseteq DOMAIN v
    /\ \A t \in Tasks :
         /\ s.entry[t].versions \in Seq(ToSet(s.entry[t].versions))
         /\ \A r \in s.entry[t].legacy :
              Lrecid[r] # NoWork => Lrecid[r] \in Works /\ s.published[Lrecid[r]] # <<>>
         /\ \A i \in s.entry[t].ids :
              i[1] \in {"cds", "inspire", "arxiv", "cdsrn", "apprn", "related"}

VARIABLES
  entry,      \* Tasks -> the transformed entry with its _inspire_ctx
  published,  \* Works -> published versions, oldest first
  indexed,    \* Works -> the versions the search index shows
  drafts,     \* Works -> slot -> draft; slot 0 is the first or next version's
  opened,     \* Works -> drafts that were opened in slot 0
  community,  \* parents in the CERN Scientific Community
  task,       \* Tasks -> where the writer of that entry is
  abandoned,  \* drafts left open by a task that stopped: <<work, slot>>
  shared,     \* drafts that a task found open and went on with
  edits,      \* edits begun by curators
  crashes,    \* workers lost
  sandbox     \* the sandbox flag and environment are both set

vars == <<entry, published, indexed, drafts, opened, community, task, abandoned,
          shared, edits, crashes, sandbox>>
records == <<entry, published, indexed, drafts, opened, community, abandoned, shared,
             edits, crashes, sandbox>>

Slots   == 0 .. MaxVersions
NoDoi   == [id |-> "none", provider |-> "none", client |-> FALSE]
NoDraft == [ids |-> {}, rtype |-> "none", note |-> "none", files |-> {},
            doi |-> NoDoi, curated |-> FALSE]
Latest(w) == Len(published[w])

Idle == [pc |-> "route", work |-> NoWork, read |-> NoDraft, ver |-> 0,
         meta |-> NoDraft, from |-> 0, slot |-> 0, target |-> 0, todo |-> <<>>,
         existing |-> <<>>, last |-> TRUE, seen |-> {}, op |-> "none"]

(***************************************************************************)
(* Matching                                                                *)
(***************************************************************************)
Values(e, scheme) == {i[2] : i \in {j \in e.ids : j[1] = scheme}}

\* The CDSRDM value of the entry may be the id of a parent or of one of its versions
\* (e.versionId); it is compared with the parent's id only.  A DOI is that of the
\* version shown, or of its parent.
Hits(e, filter) ==
  {w \in Works : /\ indexed[w] # <<>>
                 /\ LET shown == Last(indexed[w]) IN
                    CASE filter = "parent" -> w = e.parent /\ ~e.versionId
                      [] filter = "doi" -> /\ e.doi.id # "none"
                                           /\ e.doi.id \in {shown.doi.id, ParentDoi[w]}
                      [] OTHER -> Values(e, filter) \cap Values(shown, filter) # {}}

Filters == <<"parent", "cds", "doi", "inspire", "arxiv", "cdsrn", "apprn", "related">>

\* The records the index shows under an identifier of the entry.
Visible(e) ==
  {w \in Works : /\ indexed[w] # <<>>
                 /\ \/ e.ids \cap Last(indexed[w]).ids # {}
                    \/ e.doi.id \in {Last(indexed[w]).doi.id, ParentDoi[w]} \ {"none"}
                    \/ w = e.parent}

\* The record the entry names by the id of one of its versions.
NamedByVersion(e) == IF e.versionId THEN {e.parent} ELSE {}

\* Mutant: the first filter with a value decides, whether or not it hits.
FaultyDecisive(e) ==
  LET given == {i \in DOMAIN Filters :
                  CASE Filters[i] = "parent" -> e.parent # NoWork
                    [] Filters[i] = "doi" -> e.doi.id # "none"
                    [] OTHER -> Values(e, Filters[i]) # {}}
  IN  IF given = {} THEN {} ELSE Hits(e, Filters[Min(given)])

\* The first filter with a hit decides; the later ones are not consulted.
Decisive(e) ==
  LET hitting == {i \in DOMAIN Filters : Hits(e, Filters[i]) # {}}
  IN  IF hitting = {} THEN {} ELSE Hits(e, Filters[Min(hitting)])

Migrated(e) == {Lrecid[r] : r \in e.legacy} \ {NoWork}

\* What the old CDS says of the legacy recids the pidstore does not know.
LegacyAnswer(e) ==
  LET answers == {OldCDS[r] : r \in {s \in e.legacy : Lrecid[s] = NoWork}}
  IN  IF "present" \in answers /\ answers \subseteq {"present", "missing"}
      THEN "unmigrated" ELSE "error"

NoMatch(kind) == [kind |-> kind, work |-> NoWork, ver |-> 0]

\* A legacy recid resolves in the database, to the latest version; the search
\* gives the version the index takes for the latest.
Match(e) ==
  LET known == e.legacy = {} \/ Migrated(e) # {}
      found == IF Migrated(e) # {} THEN Migrated(e) ELSE Decisive(e) IN
  CASE ~known -> NoMatch(LegacyAnswer(e))
    [] known /\ Cardinality(found) > 1 -> NoMatch("ambiguous")
    [] known /\ found = {} -> NoMatch("create")
    [] OTHER -> LET w == CHOOSE x \in found : TRUE IN
                [kind |-> "update", work |-> w,
                 ver |-> IF Migrated(e) # {} THEN Latest(w) ELSE Len(indexed[w])]

(***************************************************************************)
(* Validation, merge and files                                             *)
(***************************************************************************)
ApprnUnminted(e) == ~(Values(e, "apprn") \subseteq Minted)

UpdateRefused(e, w) ==
  \/ ApprnUnminted(e)
  \/ Values(e, "apprn") # {} /\ w \in Restricted

CreateRefused(e) ==
  \/ ApprnUnminted(e)
  \/ Values(e, "apprn") # {}
  \/ ~sandbox /\ e.doi.provider = "datacite"

\* An entry, or one of its split versions, as the data of a draft.
Raw(e) == [ids |-> e.ids, rtype |-> e.rtype, note |-> e.note, files |-> e.files,
           doi |-> e.doi, curated |-> FALSE]

\* Mutant: the entry's metadata replaces the record's.
FaultyMerge(cur, e) == [Raw(e) EXCEPT !.ids = cur.ids \cup @]

\* The update engine's result: the entry overwrites the type, title and files,
\* adds identifiers, replaces the DOI if it has one, and removes nothing.
Merge(cur, e) ==
  [cur EXCEPT !.rtype = e.rtype, !.note = e.note, !.files = e.files,
              !.ids = @ \cup e.ids,
              !.doi = IF e.doi.id = "none" THEN @ ELSE e.doi]

FilesDiffer(old, new) == new # {} /\ old # new

UpToDate(cur, new) ==
  /\ [cur EXCEPT !.files = {}] = [new EXCEPT !.files = {}]
  /\ ~FilesDiffer(cur.files, new.files)

(***************************************************************************)
(* Initial states                                                          *)
(***************************************************************************)
Init ==
  /\ \E s \in Scenarios : /\ entry = s.entry
                          /\ published = s.published
                          /\ sandbox = s.sandbox
  /\ indexed = published
  /\ drafts = [w \in Works |-> [s \in Slots |-> NoDraft]]
  /\ opened = [w \in Works |-> 0]
  /\ community = {w \in Works : published[w] # <<>>}
  /\ task = [t \in Tasks |-> Idle]
  /\ abandoned = {} /\ shared = {} /\ edits = 0 /\ crashes = 0

(***************************************************************************)
(* Helpers of the actions                                                  *)
(***************************************************************************)
Stop(t, op) == [task EXCEPT ![t].pc = "done", ![t].op = op]

HasDraft(w, s) == drafts[w][s] # NoDraft

\* The draft the task works on is still there: an edit draft has the id of its
\* version, a draft of a new version has its own.
Holds(t) ==
  /\ task[t].work # NoWork /\ task[t].pc \in {"fill", "sync", "community", "publish"}
  /\ HasDraft(task[t].work, task[t].slot)
  /\ task[t].slot = 0 => task[t].target = opened[task[t].work]

SetDraft(w, s, d) == drafts' = [drafts EXCEPT ![w][s] = d]

\* The task that stops leaves its draft open.
Abandon(t) ==
  abandoned' = abandoned \cup
    (IF Holds(t)
     THEN {<<task[t].work, task[t].slot>>} ELSE {})

\* The draft in that slot goes, published or deleted.
DropDraft(w, s) ==
  /\ SetDraft(w, s, NoDraft)
  /\ abandoned' = abandoned \ {<<w, s>>}
  /\ shared' = shared \ {<<w, s>>}

\* What is to be written next: a new version based on version `from`, or an
\* edit of it.
Plan(t, kind, from, meta, last) ==
  [task[t] EXCEPT !.pc = "open", !.from = from, !.meta = meta, !.last = last,
                  !.slot = IF kind = "version" THEN 0 ELSE from]

Unused(w) == published[w] = <<>> /\ ~HasDraft(w, 0) /\ \A t \in Tasks : task[t].work # w

(***************************************************************************)
(* Routing and updating                                                    *)
(***************************************************************************)
Route(t) ==
  /\ task[t].pc = "route"
  /\ LET m == Match(entry[t]) IN
     /\ task' = IF m.kind \in {"error", "ambiguous", "unmigrated"} THEN Stop(t, "none")
                ELSE [task EXCEPT ![t].pc = m.kind, ![t].work = m.work,
                        ![t].ver = m.ver,
                        ![t].seen = Visible(entry[t])]
  /\ UNCHANGED records

\* A validation rule refuses the update, a missing checksum cannot be fetched,
\* or the engine reports a conflict.
RefuseUpdate(t) ==
  /\ task[t].pc = "update"
  /\ task' = Stop(t, "none")
  /\ UNCHANGED records

ReadAndMerge(t) ==
  LET e == entry[t]
      w == task[t].work
      cur == published[w][task[t].ver]
      new == Merge(cur, e)
      read == [task EXCEPT ![t].read = cur]
  IN
  /\ task[t].pc = "update"
  /\ ~UpdateRefused(e, w)
  /\ task' =
       IF /\ FilesDiffer(cur.files, e.files)
          /\ cur.doi.provider = "datacite"
          /\ cur.rtype # e.rtype
       THEN [read EXCEPT ![t].pc = "scan", ![t].todo = e.versions]
       ELSE IF UpToDate(cur, new) THEN Stop(t, "none")
       ELSE [read EXCEPT ![t] = [Plan(t, "edit", task[t].ver, new, TRUE)
                                   EXCEPT !.read = cur]]
  /\ UNCHANGED records

\* One version per resource type; of several the scan's last one is kept, and
\* the scan has no order.
ScanVersions(t) ==
  LET shown == indexed[task[t].work]
      types == {shown[i].rtype : i \in DOMAIN shown}
  IN
  /\ task[t].pc = "scan"
  /\ \E f \in [types -> DOMAIN shown] :
       /\ \A k \in types : shown[f[k]].rtype = k
       /\ task' = [task EXCEPT ![t].pc = "versions", ![t].existing = f]
  /\ UNCHANGED records

\* Mutant: a split version of a type that is not there yet is skipped.
FaultyNextVersion(t) ==
  LET v == Head(task[t].todo)
      known == v.rtype \in DOMAIN task[t].existing
  IN
  /\ task[t].pc = "versions"
  /\ task[t].todo # <<>>
  /\ task' = [task EXCEPT ![t] =
                IF known THEN [Plan(t, "edit", task[t].existing[v.rtype], Raw(v), FALSE)
                                 EXCEPT !.todo = Tail(@)]
                ELSE [@ EXCEPT !.todo = Tail(@)]]
  /\ UNCHANGED records

\* A split version goes onto the version of its own type, as a new version when
\* its files differ and as an edit when not; a type that is not there yet
\* becomes a new version of the record that was matched.
NextVersion(t) ==
  LET w == task[t].work
      v == Head(task[t].todo)
      known == v.rtype \in DOMAIN task[t].existing
      old == IF known THEN task[t].existing[v.rtype] ELSE task[t].ver
      kind == IF known /\ ~FilesDiffer(published[w][old].files, v.files)
              THEN "edit" ELSE "version"
  IN
  /\ task[t].pc = "versions"
  /\ task[t].todo # <<>>
  /\ task' = [task EXCEPT ![t] = [Plan(t, kind, old, Raw(v), FALSE)
                                    EXCEPT !.todo = Tail(@)]]
  /\ UNCHANGED records

\* The record's own type is published last, on top of the latest version.
MainVersion(t) ==
  /\ task[t].pc = "versions"
  /\ task[t].todo = <<>>
  /\ task' = [task EXCEPT ![t] =
                Plan(t, "version", Latest(task[t].work),
                     Merge(task[t].read, entry[t]), TRUE)]
  /\ UNCHANGED records

(***************************************************************************)
(* Draft, files, publication: one service call each                        *)
(***************************************************************************)
\* Both calls return the draft that is already open, whoever left it there.
OpenDraft(t) ==
  LET w == task[t].work
      s == task[t].slot
      source == published[w][task[t].from]
  IN
  /\ task[t].pc = "open"
  /\ opened' = IF s = 0 /\ ~HasDraft(w, s) THEN [opened EXCEPT ![w] = @ + 1] ELSE opened
  /\ task' = [task EXCEPT ![t].pc = "fill", ![t].target = opened'[w]]
  /\ IF HasDraft(w, s)
     THEN shared' = shared \cup {<<w, s>>} /\ UNCHANGED drafts
     ELSE /\ SetDraft(w, s, IF s = 0 THEN [source EXCEPT !.files = {}, !.doi = NoDoi]
                            ELSE source)
          /\ UNCHANGED shared
  /\ UNCHANGED <<entry, published, indexed, community, abandoned, edits, crashes, sandbox>>

\* The whole metadata of the draft is replaced; a new version keeps only an
\* external DOI, the repository mints its own otherwise.
FillDraft(t) ==
  LET w == task[t].work
      s == task[t].slot
      meta == task[t].meta
      doi == IF s = 0 /\ task[t].ver > 0 /\ meta.doi.provider # "external"
             THEN NoDoi ELSE meta.doi
  IN
  /\ task[t].pc = "fill"
  /\ Holds(t)
  /\ SetDraft(w, s, [meta EXCEPT !.files = drafts[w][s].files, !.doi = doi])
  /\ task' = [task EXCEPT ![t].pc = "sync"]
  /\ UNCHANGED <<entry, opened, published, indexed, community, abandoned, shared,
                 edits, crashes, sandbox>>

\* The files the draft starts from: the library copies those of the latest
\* version into a new version's draft.
Imported(t) ==
  LET w == task[t].work IN
  drafts[w][task[t].slot].files \cup
    (IF task[t].slot = 0 /\ published[w] # <<>> THEN Last(published[w]).files ELSE {})

\* The files the difference is taken against: those of the record that was
\* passed, or of the draft itself for an edit.
Compared(t) ==
  LET w == task[t].work IN
  IF task[t].slot = 0 /\ published[w] # <<>>
  THEN published[w][task[t].from].files ELSE drafts[w][task[t].slot].files

\* Mutant: files are only ever added.
FaultySynced(t) == Imported(t) \cup task[t].meta.files

Synced(t) ==
  LET old == Compared(t)
      new == task[t].meta.files
  IN  IF FilesDiffer(old, new)
      THEN (Imported(t) \ (old \ new)) \cup (new \ old)
      ELSE Imported(t)

\* Mutant: an entry without files is published before it joins the community.
FaultySyncFiles(t) ==
  LET w == task[t].work
      s == task[t].slot
  IN
  /\ task[t].pc = "sync"
  /\ Holds(t)
  /\ SetDraft(w, s, [drafts[w][s] EXCEPT !.files = Synced(t)])
  /\ task' = [task EXCEPT ![t].pc =
                IF published[w] = <<>> /\ task[t].meta.files # {} THEN "community"
                ELSE "publish"]
  /\ UNCHANGED <<entry, opened, published, indexed, community, abandoned, shared,
                 edits, crashes, sandbox>>

SyncFiles(t) ==
  LET w == task[t].work
      s == task[t].slot
  IN
  /\ task[t].pc = "sync"
  /\ Holds(t)
  /\ SetDraft(w, s, [drafts[w][s] EXCEPT !.files = Synced(t)])
  /\ task' = [task EXCEPT ![t].pc =
                IF published[w] = <<>> THEN "community" ELSE "publish"]
  /\ UNCHANGED <<entry, opened, published, indexed, community, abandoned, shared,
                 edits, crashes, sandbox>>

\* A deletion or a download fails after some of the files went through.
PartlySynced(t) ==
  LET drop == Compared(t) \ task[t].meta.files
      add  == task[t].meta.files \ Compared(t)
  IN  {Imported(t) \ d : d \in SUBSET drop}
        \cup {(Imported(t) \ drop) \cup a : a \in SUBSET add \ {add}}

\* Mutant: every failed synchronisation removes the draft.
FaultySyncFails(t) ==
  /\ task[t].pc = "sync"
  /\ Holds(t)
  /\ task' = Stop(t, "none")
  /\ DropDraft(task[t].work, task[t].slot)
  /\ UNCHANGED <<entry, opened, published, indexed, community, edits, crashes, sandbox>>

\* The exception handler of _create_record removes the draft; an update has none.
SyncFails(t) ==
  LET w == task[t].work
      s == task[t].slot
  IN
  /\ task[t].pc = "sync"
  /\ Holds(t)
  /\ task' = Stop(t, "none")
  /\ IF published[w] = <<>>
     THEN DropDraft(w, s)
     ELSE /\ IF HasDraft(w, s) /\ FilesDiffer(Compared(t), task[t].meta.files)
             THEN \E f \in PartlySynced(t) :
                    SetDraft(w, s, [drafts[w][s] EXCEPT !.files = f])
             ELSE UNCHANGED drafts
          /\ Abandon(t)
          /\ UNCHANGED shared
  /\ UNCHANGED <<entry, opened, published, indexed, community, edits, crashes, sandbox>>

\* The repository names the DataCite client of the DOIs it registers.
Release(d) == [d EXCEPT !.doi.client = d.doi.provider = "datacite"]

\* A version whose DOI CDS registered keeps a DataCite DOI.
DoiTransitionAllowed(w, s) ==
  (s > 0 /\ published[w][s].doi.client) => drafts[w][s].doi.provider = "datacite"

Publish(t) ==
  LET w == task[t].work
      s == task[t].slot
      d == Release(drafts[w][s])
  IN
  /\ task[t].pc = "publish"
  /\ Holds(t)
  /\ DoiTransitionAllowed(w, s)
  /\ s = 0 => Latest(w) < MaxVersions
  /\ published' = [published EXCEPT ![w] =
                     IF s = 0 THEN Append(@, d) ELSE [@ EXCEPT ![s] = d]]
  /\ DropDraft(w, s)
  /\ task' = IF task[t].ver = 0 THEN Stop(t, "create")
             ELSE IF task[t].last THEN Stop(t, "update")
             ELSE [task EXCEPT ![t].pc = "versions"]
  /\ UNCHANGED <<entry, opened, indexed, community, edits, crashes, sandbox>>

\* Publication deletes the draft on any failure.
PublishFails(t) ==
  /\ task[t].pc = "publish"
  /\ Holds(t)
  /\ DropDraft(task[t].work, task[t].slot)
  /\ task' = Stop(t, "none")
  /\ UNCHANGED <<entry, opened, published, indexed, community, edits, crashes, sandbox>>

\* edit, new_version or update_draft raises, or the draft is gone: nobody
\* removes what is there.
CallFails(t) ==
  /\ \/ task[t].pc \in {"open", "fill"}
     \/ task[t].pc \in {"sync", "publish"} /\ ~Holds(t)
  /\ Abandon(t)
  /\ task' = Stop(t, "none")
  /\ UNCHANGED <<entry, opened, published, indexed, drafts, community, shared,
                 edits, crashes, sandbox>>

(***************************************************************************)
(* Creation                                                                *)
(***************************************************************************)
\* On the sandbox a record missing there takes the ids it has in production;
\* that they are taken already aborts the unit of work and leaves nothing.
CreateDraft(t) ==
  LET e == entry[t]
      reuse == sandbox /\ e.parent # NoWork
      ids == {w \in Works : Unused(w) /\ (reuse => w = e.parent)}
  IN
  /\ task[t].pc = "create"
  /\ ~CreateRefused(e)
  /\ ids # {}
  /\ LET w == CHOOSE x \in ids : \A y \in ids : x <= y IN
     /\ SetDraft(w, 0, [Raw(e) EXCEPT !.files = {}])
     /\ opened' = [opened EXCEPT ![w] = @ + 1]
     /\ task' = [task EXCEPT ![t].pc = "sync", ![t].work = w,
                                ![t].target = opened'[w], ![t].meta = Raw(e)]
  /\ UNCHANGED <<entry, published, indexed, community, abandoned, shared,
                 edits, crashes, sandbox>>

\* A rule refuses the entry, or the creation itself fails.
RefuseCreate(t) ==
  /\ task[t].pc = "create"
  /\ task' = Stop(t, "none")
  /\ UNCHANGED records

AddCommunity(t) ==
  /\ task[t].pc = "community"
  /\ community' = community \cup {task[t].work}
  /\ task' = [task EXCEPT ![t].pc = "publish"]
  /\ UNCHANGED <<entry, opened, published, indexed, drafts, abandoned, shared,
                 edits, crashes, sandbox>>

\* Mutant: the handler covers the files only.
FaultyAddCommunityFails(t) ==
  /\ task[t].pc = "community"
  /\ Abandon(t)
  /\ task' = Stop(t, "none")
  /\ UNCHANGED <<entry, opened, published, indexed, drafts, community, shared,
                 edits, crashes, sandbox>>

AddCommunityFails(t) ==
  /\ task[t].pc = "community"
  /\ DropDraft(task[t].work, 0)
  /\ task' = Stop(t, "none")
  /\ UNCHANGED <<entry, opened, published, indexed, community, edits, crashes, sandbox>>

(***************************************************************************)
(* The environment                                                         *)
(***************************************************************************)
Crash(t) ==
  /\ task[t].pc \notin {"route", "done"}
  /\ crashes < MaxCrashes
  /\ crashes' = crashes + 1
  /\ task' = [task EXCEPT ![t].pc = "done", ![t].op = "lost"]
  /\ Abandon(t)
  /\ UNCHANGED <<entry, opened, published, indexed, drafts, community, shared, edits, sandbox>>

Refresh(w) ==
  /\ indexed[w] # published[w]
  /\ indexed' = [indexed EXCEPT ![w] = published[w]]
  /\ UNCHANGED <<entry, opened, published, drafts, community, task, abandoned, shared, edits,
                 crashes, sandbox>>

\* A curator opens the edit draft of the latest version, or the one that is
\* already there, and saves a correction in it.
CuratorEdit(w) ==
  LET s == Latest(w) IN
  /\ s > 0 /\ edits < MaxEdits
  /\ edits' = edits + 1
  /\ SetDraft(w, s, [(IF HasDraft(w, s) THEN drafts[w][s] ELSE published[w][s])
                       EXCEPT !.curated = TRUE])
  /\ UNCHANGED <<entry, opened, published, indexed, community, task, abandoned, shared,
                 crashes, sandbox>>

CuratorPublish(w, s) ==
  /\ s > 0 /\ HasDraft(w, s) /\ edits > 0
  /\ DoiTransitionAllowed(w, s)
  /\ published' = [published EXCEPT ![w][s] = Release(drafts[w][s])]
  /\ DropDraft(w, s)
  /\ UNCHANGED <<entry, opened, indexed, community, task, edits, crashes, sandbox>>

CuratorDiscard(w, s) ==
  /\ HasDraft(w, s) /\ published[w] # <<>> /\ edits > 0
  /\ s = 0 => <<w, s>> \in abandoned /\ <<w, s>> \notin shared
  /\ DropDraft(w, s)
  /\ UNCHANGED <<entry, opened, published, indexed, community, task, edits, crashes, sandbox>>

Finished == /\ \A t \in Tasks : task[t].pc = "done"
            /\ UNCHANGED vars

TaskStep(t) ==
  \/ Route(t) \/ RefuseUpdate(t) \/ ReadAndMerge(t) \/ ScanVersions(t)
  \/ NextVersion(t) \/ MainVersion(t) \/ OpenDraft(t) \/ FillDraft(t)
  \/ SyncFiles(t) \/ SyncFails(t) \/ Publish(t) \/ PublishFails(t) \/ CallFails(t)
  \/ CreateDraft(t) \/ RefuseCreate(t) \/ AddCommunity(t) \/ AddCommunityFails(t)

Next ==
  \/ \E t \in Tasks : TaskStep(t) \/ Crash(t)
  \/ \E w \in Works : Refresh(w) \/ CuratorEdit(w)
  \/ \E w \in Works, s \in Slots : CuratorPublish(w, s) \/ CuratorDiscard(w, s)
  \/ Finished

Spec == Init /\ [][Next]_vars

(***************************************************************************)
(* Properties                                                              *)
(***************************************************************************)
\* A creation that stops, at whichever of these calls, leaves no draft behind: an
\* unpublished draft belongs to a task at work, or to a worker that was lost.
\* (Creating a draft and reading it back under other ids is one call here.)
FailedCreateLeavesNothing ==
  \A w \in Works : (published[w] = <<>> /\ HasDraft(w, 0)) =>
    \E t \in Tasks : task[t].work = w /\ (task[t].pc # "done" \/ task[t].op = "lost")

\* Whatever fails in between, no harvested record is published outside the
\* CERN Scientific Community.
PublishedInCommunity == {w \in Works : published[w] # <<>>} \subseteq community

\* The harvester creates a record only when the index showed it, under any of the
\* entry's identifiers, none that is there: a second record is made only of what
\* the index did not show yet, or of a record that the entry names by the id of a
\* version, which no filter looks for.
NoDuplicateOfVisible ==
  \A t \in Tasks : task[t].op = "create" => task[t].seen \subseteq NamedByVersion(entry[t])

\* The task that published in this step.
Publishes(t) == /\ task[t].pc = "publish" /\ task'[t].pc # "publish"
                /\ published' # published

\* The task t wrote the draft in slot s of w, for a split version or from a record
\* it had read without a correction.
Uncorrected(t, w, s) ==
  /\ task[t].work = w /\ task[t].slot = s
  /\ task[t].pc \in {"sync", "publish", "done"}
  /\ ~task[t].last \/ ~task[t].read.curated

\* A curator's published correction disappears from the latest version only by
\* a draft that some task wrote for a split version, or with what it had read
\* before the correction: that version's draft, or the next version's.
CurationLostOnlyToStaleWriter ==
  [][\A w \in Works :
       (published[w] # <<>> /\ Last(published[w]).curated /\ ~Last(published'[w]).curated)
       => \E t \in Tasks, s \in {0, Latest(w)} : Uncorrected(t, w, s)]_vars

WholeSets(w) ==
  {published[w][i].files : i \in 1 .. Latest(w)}
    \cup UNION {{entry[t].files}
                 \cup {entry[t].versions[i].files : i \in DOMAIN entry[t].versions}
                 : t \in Tasks}

\* A version is published with a whole set of files, the entry's or those it
\* had, unless its draft was left half synchronised by an earlier task, was
\* worked on by two, or builds on a version that is not the latest; and a new
\* version for a type that has no files gets those its base has when it starts.
WholeFiles ==
  [][\A w \in Works : \A i \in 1 .. Len(published'[w]) :
       \/ i <= Latest(w) /\ published'[w][i].files = published[w][i].files
       \/ published'[w][i].files \in WholeSets(w)
       \/ {<<w, i>>, <<w, 0>>} \cap (abandoned \cup shared) # {}
       \/ \E t \in Tasks : /\ Publishes(t)
                           /\ \/ task[t].from # Latest(w)
                              \/ ~task[t].last /\ task[t].slot = 0 /\ task[t].meta.files = {}]_vars

\* The correction a curator is drafting is overwritten or deleted only by a task
\* that is updating that very version, and then only when the task writes its
\* metadata or its publication fails; no other failure of the harvester, and no
\* creation or new version, takes it away.
DraftedWorkLostOnlyToUpdate ==
  [][\A w \in Works, s \in Slots :
       (drafts[w][s].curated /\ ~drafts'[w][s].curated /\ task' # task)
       => \E t \in Tasks : /\ task[t].work = w /\ task[t].slot = s
                            /\ task[t].pc \in {"fill", "publish"}
                            /\ task'[t] # task[t]]_vars

\* When an update that went through the versions succeeds, every split version
\* of the entry is there below the latest one, unless another task worked on the
\* same record.
VersionsCovered ==
  [][\A t \in Tasks :
       ( /\ task[t].op # "update" /\ task'[t].op = "update" /\ task[t].existing # <<>>
         /\ \A u \in Tasks \ {t} : task[u].work # task[t].work)
       => \A v \in ToSet(entry[t].versions) :
            \E i \in 1 .. Latest(task[t].work) : published'[task[t].work][i].rtype = v.rtype]_vars
===============================================================================
