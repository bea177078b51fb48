-------------------------------- MODULE ClcSync --------------------------------
(***************************************************************************)
(* Synchronisation of records with the library catalogue (CLC).  An entry  *)
(* is kept by the identifier it was created with.  The landing page of a   *)
(* record creates, updates and removes the entry of the record's parent;   *)
(* clients of the REST interface write entries of any identifier, with a   *)
(* link, a status and a record of their own if they like.  Publishing      *)
(* looks for an entry of the record's own identifier, imports the record   *)
(* into the catalogue while the publication is still open, and queues a    *)
(* task that imports it once more.  Both write back the whole entry they   *)
(* read before the import.  The catalogue may refuse, and its answer may   *)
(* be lost or lack the identifier.                                         *)
(*                                                                         *)
(* A call of the catalogue and the write that follows it are one step.     *)
(* That a client moves an entry to another identifier is left out.         *)
(***************************************************************************)
EXTENDS Naturals, FiniteSets

CONSTANTS
  Versions,    \* identifiers of published records
  ParentOf,    \* version -> identifier of its parent
  DocOf,       \* version -> the catalogue's record for it
  OtherLinks,  \* what clients write as a link, and no version is imported as
  Gives,       \* what clients give for an entry
  Allowed,     \* versions whose resource type may be synchronised
  Pages,       \* landing pages open in a browser
  Tasks,       \* slots for queued and running tasks
  MaxRev,      \* bound: publications of one version
  MaxEntries,  \* bound: entries ever created
  MaxCalls     \* bound: creations and updates by clients

VARIABLES
  rev,         \* version -> published revision
  entries,     \* identifier -> entry
  created,     \* number of entries created so far
  catalogue,   \* record of the catalogue -> version and revision imported last
  publishing,  \* version -> how far the hook of an open publication is
  tasks,       \* slot -> task
  pages,       \* page -> what the browser holds
  calls,       \* number of creations and updates by clients so far
  byHand,      \* history: links that clients wrote
  excused      \* history: versions that may be behind, see QuietIsCurrent

vars == <<rev, entries, created, catalogue, publishing, tasks, pages, calls, byHand, excused>>

Parents == {ParentOf[v] : v \in Versions}
Keys == Versions \cup Parents
Docs == {DocOf[v] : v \in Versions}
Links == Docs \cup OtherLinks
NoDoc == "no record"

\* A record and its parent have identifiers of their own.
ASSUME IdentifiersAssumption ==
  /\ Parents \cap Versions = {}
  /\ Docs \cap OtherLinks = {}
  /\ NoDoc \notin Links
  /\ Allowed \subseteq Versions
  /\ "" \notin Versions

Outcomes == {"answered", "refused", "lost", "garbled", "not called"}

\* Entries; the entry with id 0 stands for none.
Statuses == {"SUCCESS", "FAILED", "PENDING"}
Entry(id, status, doc, auto) == [id |-> id, status |-> status, doc |-> doc, auto |-> auto]
Absent == Entry(0, "SUCCESS", NoDoc, FALSE)
Exists(k) == entries[k].id # 0

\* Clients give a status, a link and whether the entry is enabled.
ASSUME GivesAssumption ==
  Gives \subseteq [status : Statuses, doc : Links \cup {NoDoc}, auto : BOOLEAN]

\* A revision of a version, as a client sends it or the catalogue has it.
Copy(v, r) == [version |-> v, rev |-> r]
Nothing == Copy("", 0)

Publication(stage, entry) == [stage |-> stage, entry |-> entry]
Unpublished == Publication("none", Absent)
Idle == [stage |-> "idle", version |-> "", rev |-> 0, entry |-> Absent]
Closed == [version |-> "", rev |-> 0, id |-> 0, auto |-> FALSE]

Init ==
  /\ rev = [v \in Versions |-> 1]
  /\ entries = [k \in Keys |-> Absent] /\ created = 0
  /\ catalogue = [d \in Docs |-> Nothing]
  /\ publishing = [v \in Versions |-> Unpublished]
  /\ tasks = [t \in Tasks |-> Idle]
  /\ pages = [p \in Pages |-> Closed]
  /\ calls = 0 /\ byHand = {} /\ excused = {}

(***************************************************************************)
(* The import                                                              *)
(***************************************************************************)
\* The catalogue is called for an enabled entry and a record of an allowed type.
Sends(e, v) == e.auto /\ v \in Allowed

\* How the call ends.
EndsAs(e, v, outcome) == Sends(e, v) <=> outcome # "not called"

\* Mutant: a failed import leaves the status alone.
FaultyImported(e, v, outcome) ==
  IF Sends(e, v) /\ outcome = "answered"
  THEN [e EXCEPT !.status = "SUCCESS", !.doc = DocOf[v]] ELSE e

\* What the import makes of the data of an entry: nothing without a record, or if
\* the entry is disabled.
Imported(e, v, outcome) ==
  IF ~e.auto \/ v = "" THEN e
  ELSE IF Sends(e, v) /\ outcome = "answered"
  THEN [e EXCEPT !.status = "SUCCESS", !.doc = DocOf[v]]
  ELSE [e EXCEPT !.status = "FAILED"]

\* A lost or garbled answer comes from a catalogue that has imported the record.
CatalogueAfter(e, c, outcome) ==
  IF Sends(e, c.version) /\ outcome # "refused"
  THEN [catalogue EXCEPT ![DocOf[c.version]] = c] ELSE catalogue

\* An answer without an identifier is an exception.
Garbled(e, v, outcome) == Sends(e, v) /\ outcome = "garbled"

\* The unique index on the catalogue's identifiers.
Conflicts(k, e) == e.doc # NoDoc /\ \E o \in Keys \ {k} : entries[o].doc = e.doc

Saves(k, e, v, outcome) ==
  ~Garbled(e, v, outcome) /\ ~Conflicts(k, Imported(e, v, outcome))

\* An import that is overtaken by a publication.
Late(e, c) == IF Sends(e, c.version) /\ c.rev < rev[c.version] THEN {c.version} ELSE {}

\* A version whose entry counts as synchronised without an import.
Untried(k, e, v, new) ==
  IF ~Sends(e, v) /\ new.auto /\ new.status = "SUCCESS" /\ new.doc # NoDoc
  THEN {k} \cap Versions ELSE {}

\* A new entry is enabled whatever was asked for; another one of the same
\* identifier or link is reported after the import.
Creates(k, e, v, outcome) == ~Exists(k) /\ Saves(k, e, v, outcome)

Create(k, e, c, outcome) ==
  LET done == Creates(k, e, c.version, outcome)
      new  == [Imported(e, c.version, outcome) EXCEPT !.auto = TRUE]
  IN
  /\ created < MaxEntries /\ EndsAs(e, c.version, outcome)
  /\ catalogue' = CatalogueAfter(e, c, outcome)
  /\ entries' = IF done THEN [entries EXCEPT ![k] = new] ELSE entries
  /\ created' = IF done THEN created + 1 ELSE created
  /\ excused' = excused \cup Late(e, c) \cup IF done THEN Untried(k, e, c.version, new) ELSE {}

\* An entry that is gone is reported after the import too.
Updates(k, e, v, outcome) == entries[k].id = e.id /\ Saves(k, e, v, outcome)

Update(k, e, c, outcome) ==
  LET done == Updates(k, e, c.version, outcome)
      new  == Imported(e, c.version, outcome)
  IN
  /\ EndsAs(e, c.version, outcome)
  /\ catalogue' = CatalogueAfter(e, c, outcome)
  /\ entries' = IF done THEN [entries EXCEPT ![k] = new] ELSE entries
  /\ excused' = excused \cup Late(e, c) \cup IF done THEN Untried(k, e, c.version, new) ELSE {}

(***************************************************************************)
(* Publishing                                                              *)
(***************************************************************************)
PublishRead(v) ==
  /\ publishing[v] = Unpublished /\ rev[v] < MaxRev
  /\ publishing' = [publishing EXCEPT ![v] =
                     IF Exists(v) THEN Publication("read", entries[v]) ELSE Publication("plain", Absent)]
  /\ UNCHANGED <<rev, entries, created, catalogue, tasks, pages, calls, byHand, excused>>

\* The entry is marked, and the new revision is imported.  An entry that is gone
\* is nothing to synchronise; an exception ends the publication.
PublishImport(v, outcome) ==
  LET e == [publishing[v].entry EXCEPT !.status = "PENDING"] IN
  /\ publishing[v].stage = "read"
  /\ Update(v, e, Copy(v, rev[v] + 1), outcome)
  /\ publishing' =
       [publishing EXCEPT ![v] =
          IF Updates(v, e, v, outcome) THEN Publication("marked", Absent)
          ELSE IF entries[v].id # e.id /\ ~Garbled(e, v, outcome) THEN Publication("plain", Absent)
          ELSE Unpublished]
  /\ UNCHANGED <<rev, created, tasks, pages, calls, byHand>>

\* The task is queued when the publication is committed.
PublishCommit(v) ==
  /\ publishing[v].stage = "marked"
  /\ publishing' = [publishing EXCEPT ![v] = Unpublished]
  /\ rev' = [rev EXCEPT ![v] = @ + 1]
  /\ \E t \in Tasks :
       /\ tasks[t] = Idle
       /\ tasks' = [tasks EXCEPT ![t] = [Idle EXCEPT !.stage = "queued", !.version = v]]
  /\ UNCHANGED <<entries, created, catalogue, pages, calls, byHand, excused>>

\* Without an entry nothing is synchronised, even if there is one by now.
PublishPlain(v) ==
  /\ publishing[v].stage = "plain"
  /\ publishing' = [publishing EXCEPT ![v] = Unpublished]
  /\ rev' = [rev EXCEPT ![v] = @ + 1]
  /\ excused' = IF Exists(v) THEN excused \cup {v} ELSE excused
  /\ UNCHANGED <<entries, created, catalogue, tasks, pages, calls, byHand>>

\* Another component fails: the entry was committed in a unit of work of its own.
PublishFails(v) ==
  /\ publishing[v] # Unpublished
  /\ publishing' = [publishing EXCEPT ![v] = Unpublished]
  /\ UNCHANGED <<rev, entries, created, catalogue, tasks, pages, calls, byHand, excused>>

(***************************************************************************)
(* The task                                                                *)
(***************************************************************************)
TaskSkip(t) ==
  /\ tasks[t].stage = "queued"
  /\ ~(Exists(tasks[t].version) /\ entries[tasks[t].version].auto)
  /\ tasks' = [tasks EXCEPT ![t] = Idle]
  /\ UNCHANGED <<rev, entries, created, catalogue, publishing, pages, calls, byHand, excused>>

\* The task reads the entry and then the published record.
TaskRead(t) ==
  LET v == tasks[t].version IN
  /\ tasks[t].stage = "queued"
  /\ Exists(v) /\ entries[v].auto
  /\ tasks' = [tasks EXCEPT ![t] = [stage |-> "read", version |-> v, rev |-> rev[v],
                                    entry |-> entries[v]]]
  /\ UNCHANGED <<rev, entries, created, catalogue, publishing, pages, calls, byHand, excused>>

\* Mutant: the link is left to the import.
FaultyTaskData(t) == [tasks[t].entry EXCEPT !.doc = NoDoc]

TaskData(t) == tasks[t].entry

\* The entry as it was read is written back with what the import changed,
\* unless it is gone or the database refuses it.
TaskWrite(t, outcome) ==
  LET v == tasks[t].version IN
  /\ tasks[t].stage = "read"
  /\ Update(v, TaskData(t), Copy(v, tasks[t].rev), outcome)
  /\ tasks' = [tasks EXCEPT ![t] = Idle]
  /\ UNCHANGED <<rev, created, publishing, pages, calls, byHand>>

(***************************************************************************)
(* The landing page and the REST interface                                 *)
(***************************************************************************)
LoadPage(p, v) ==
  /\ v \in Allowed
  /\ pages' = [pages EXCEPT ![p] = [version |-> v, rev |-> rev[v], id |-> entries[ParentOf[v]].id,
                                    auto |-> entries[ParentOf[v]].auto]]
  /\ UNCHANGED <<rev, entries, created, catalogue, publishing, tasks, calls, byHand, excused>>

\* The page shows the entry that the answer brings.
PageCreate(p, auto, outcome) ==
  LET pg == pages[p]
      k  == ParentOf[pg.version]
      e  == Entry(created + 1, "SUCCESS", NoDoc, auto)
  IN
  /\ pg.id = 0
  /\ Create(k, e, Copy(pg.version, pg.rev), outcome)
  /\ pages' = IF Creates(k, e, pg.version, outcome)
              THEN [pages EXCEPT ![p].id = created + 1, ![p].auto = TRUE]
              ELSE [pages EXCEPT ![p].auto = auto]

PageUpdate(p, auto, outcome) ==
  LET pg == pages[p]
      k  == ParentOf[pg.version]
  IN
  /\ pg.id # 0
  /\ Update(k, [entries[k] EXCEPT !.id = pg.id, !.auto = auto], Copy(pg.version, pg.rev), outcome)
  /\ pages' = [pages EXCEPT ![p].auto = auto]
  /\ UNCHANGED created

\* The record is sent as the page holds it.
Send(p, auto, outcome) ==
  /\ pages[p] # Closed
  /\ PageCreate(p, auto, outcome) \/ PageUpdate(p, auto, outcome)
  /\ UNCHANGED <<rev, publishing, tasks, calls, byHand>>

Resync(p, outcome) == pages[p].auto /\ Send(p, TRUE, outcome)

Toggle(p, outcome) == Send(p, ~pages[p].auto, outcome)

Remove(p) ==
  LET k == ParentOf[pages[p].version] IN
  /\ pages[p] # Closed /\ pages[p].id # 0
  /\ entries[k].id = pages[p].id
  /\ entries' = [entries EXCEPT ![k] = Absent]
  /\ pages' = [pages EXCEPT ![p].id = 0, ![p].auto = FALSE]
  /\ UNCHANGED <<rev, created, catalogue, publishing, tasks, calls, byHand, excused>>

\* The record that a client sends, if any: as it is published, the pages send
\* older ones.
Sent == {Nothing} \cup {Copy(v, rev[v]) : v \in Versions}

ApiCreate(k, g, c, outcome) ==
  /\ calls < MaxCalls
  /\ Create(k, Entry(created + 1, g.status, g.doc, g.auto), c, outcome)
  /\ calls' = calls + 1
  /\ byHand' = byHand \cup ({g.doc} \ {NoDoc})
  /\ UNCHANGED <<rev, publishing, tasks, pages>>

\* What a client leaves out stays, which is a client that gives what there is.
ApiPut(k, g, c, outcome) ==
  LET e == Entry(entries[k].id, g.status, g.doc, g.auto) IN
  /\ Exists(k) /\ calls < MaxCalls
  /\ e # entries[k] \/ c # Nothing
  /\ Update(k, e, c, outcome)
  /\ calls' = calls + 1
  /\ byHand' = byHand \cup ({g.doc} \ {NoDoc, entries[k].doc})
  /\ UNCHANGED <<rev, created, publishing, tasks, pages>>

ApiDelete(k) ==
  /\ Exists(k)
  /\ entries' = [entries EXCEPT ![k] = Absent]
  /\ UNCHANGED <<rev, created, catalogue, publishing, tasks, pages, calls, byHand, excused>>

Next ==
  \/ \E v \in Versions :
       \/ PublishRead(v) \/ PublishCommit(v) \/ PublishPlain(v) \/ PublishFails(v)
       \/ \E o \in Outcomes : PublishImport(v, o)
       \/ \E p \in Pages : LoadPage(p, v)
  \/ \E t \in Tasks :
       \/ TaskSkip(t) \/ TaskRead(t)
       \/ \E o \in Outcomes : TaskWrite(t, o)
  \/ \E p \in Pages :
       \/ Remove(p)
       \/ \E o \in Outcomes : Resync(p, o) \/ Toggle(p, o)
  \/ \E k \in Keys :
       \/ ApiDelete(k)
       \/ \E g \in Gives, c \in Sent, o \in Outcomes : ApiCreate(k, g, c, o) \/ ApiPut(k, g, c, o)

Spec == Init /\ [][Next]_vars

(***************************************************************************)
(* Properties                                                              *)
(***************************************************************************)
\* A synchronised entry of a record, with no task on its way, stands for a
\* catalogue that is not behind the published record, unless an import was
\* overtaken by a publication, a publication that found no entry ended when there
\* was one, or a client made the entry count as synchronised without an import:
\* failures, lost answers and publications that are rolled back do not leave the
\* catalogue behind a status of success.
QuietIsCurrent ==
  \A v \in Versions \ excused :
    LET e == entries[v] IN
    (/\ Exists(v) /\ e.auto /\ e.status = "SUCCESS" /\ e.doc # NoDoc
     /\ \A t \in Tasks : tasks[t].version # v)
    => /\ e.doc \in Docs /\ catalogue[e.doc] # Nothing
       /\ catalogue[e.doc].version = v => catalogue[e.doc].rev >= rev[v]

\* A link leads to a record that the catalogue has imported, or was written by a
\* client: neither failures nor old copies of an entry put another one there.
LinksLeadSomewhere ==
  \A k \in Keys :
    LET d == entries[k].doc IN
    d \in {NoDoc} \cup byHand \cup {c \in Docs : catalogue[c] # Nothing}

\* An entry keeps its link to the catalogue for as long as it exists, but for an
\* import under another link, for a client that writes the entry, and for a task
\* or a publication that read the entry when its link was another one.
LinkLostOnlyToStaleWrite ==
  [][\A k \in Keys :
       (Exists(k) /\ entries'[k].id = entries[k].id /\ entries[k].doc # NoDoc)
         => \/ entries'[k].doc = entries[k].doc
            \/ \E v \in Versions : /\ k \in {v, ParentOf[v]} /\ entries'[k].doc = DocOf[v]
                                   /\ entries'[k].status = "SUCCESS"
            \/ \E t \in Tasks : /\ tasks[t].stage = "read" /\ tasks'[t] = Idle
                                /\ tasks[t].version = k
                                /\ tasks[t].entry.doc # entries[k].doc
            \/ \E v \in Versions : /\ publishing[v].stage = "read" /\ v = k
                                   /\ publishing'[v].stage = "marked"
                                   /\ publishing[v].entry.doc # entries[k].doc
            \/ \E g \in Gives, c \in Sent, o \in Outcomes : ApiPut(k, g, c, o)]_vars

\* "When enabled, this will automatically sync the record with CLC every time it
\* is edited": a publication of a record whose page shows an enabled entry
\* queues a task for it.
SyncedWhenEdited ==
  [][\A v \in Allowed :
       (rev'[v] > rev[v] /\ Exists(ParentOf[v]) /\ entries[ParentOf[v]].auto)
         => \E t \in Tasks : tasks[t] = Idle /\ tasks'[t].version = v]_vars
================================================================================
