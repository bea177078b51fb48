----------------------------- MODULE ClcSyncProofs -----------------------------
(***************************************************************************)
(* Proofs about ClcSync, for any versions, pages, tasks, clients and       *)
(* catalogue.                                                              *)
(*                                                                         *)
(* The publish hook, the task, the page and the clients write entries in   *)
(* one way, so what a write does is proved once (WriteEffect).  The        *)
(* inductive invariant is LinkInv, which says where the links of entries   *)
(* lead and those of the copies that a task or a publication has read,     *)
(* together with SuccessSound, which says that a version that is behind    *)
(* has a task on its way that nothing has overtaken.                       *)
(***************************************************************************)
EXTENDS ClcSync, TLAPS

EntryType == [id : Nat, status : Statuses, doc : Links \cup {NoDoc}, auto : BOOLEAN]
CopyType == [version : Versions \cup {""}, rev : Nat]
PublicationType == [stage : {"none", "read", "plain", "marked"}, entry : EntryType]
TaskType == [stage : {"idle", "queued", "read"}, version : Versions \cup {""},
             rev : Nat, entry : EntryType]
PageType == [version : Versions \cup {""}, rev : Nat, id : Nat, auto : BOOLEAN]

PagesType ==
  /\ pages \in [Pages -> PageType]
  /\ \A p \in Pages : pages[p].version = "" => pages[p] = Closed

TypeInv ==
  /\ rev \in [Versions -> Nat]
  /\ entries \in [Keys -> EntryType]
  /\ created \in Nat
  /\ catalogue \in [Docs -> CopyType]
  /\ publishing \in [Versions -> PublicationType]
  /\ tasks \in [Tasks -> TaskType]
  /\ PagesType
  /\ calls \in Nat
  /\ byHand \subseteq Links

\* Where a link may lead.
KnownLinks == {NoDoc} \cup byHand \cup {c \in Docs : catalogue[c] # Nothing}

\* The unique index.
LinksUnique ==
  \A j, k \in Keys : entries[j].doc # NoDoc /\ entries[j].doc = entries[k].doc => j = k

\* The link of a copy that was read is one that an entry could have.
ReadSound ==
  /\ \A v \in Versions : publishing[v].stage = "read" => publishing[v].entry.doc \in KnownLinks
  /\ \A t \in Tasks : tasks[t].stage = "read" => /\ tasks[t].version \in Versions
                                                 /\ tasks[t].entry.doc \in KnownLinks

\* A slot without a version is free.
QueueSound ==
  \A t \in Tasks : /\ tasks[t].stage = "queued" => tasks[t].version \in Versions
                   /\ tasks[t].stage = "idle" => tasks[t] = Idle

LinkInv == LinksUnique /\ LinksLeadSomewhere /\ ReadSound /\ QueueSound

-----------------------------------------------------------------------------
(* Types                                                                   *)

\* A version and its parent are keys of entries, and differ.
LEMMA KeysOf == ASSUME NEW v \in Versions
                PROVE  /\ v \in Keys /\ ParentOf[v] \in Keys /\ ParentOf[v] \notin Versions
                       /\ DocOf[v] \in Docs /\ DocOf[v] \in Links /\ v # ""
  BY IdentifiersAssumption DEF Keys, Parents, Docs, Links

\* No link is none.
LEMMA NoDocs == NoDoc \notin Docs /\ NoDoc \notin Links /\ Docs \subseteq Links
  BY IdentifiersAssumption DEF Docs, Links

\* A revision is a number, and so is the next one.
LEMMA Revisions ==
    ASSUME TypeInv, NEW v \in Versions
    PROVE  /\ rev[v] \in Nat /\ rev[v] + 1 \in Nat
           /\ [rev EXCEPT ![v] = @ + 1] \in [Versions -> Nat]
<1>1. rev \in [Versions -> Nat]
  BY DEF TypeInv
<1>2. rev[v] \in Nat
  BY <1>1
<1>3. rev[v] + 1 \in Nat
  BY <1>2
<1> QED
  BY <1>1, <1>2, <1>3

\* A number of entries or of calls is followed by another one.
LEMMA Counters ==
    ASSUME TypeInv
    PROVE  created \in Nat /\ created + 1 \in Nat /\ calls \in Nat /\ calls + 1 \in Nat
<1>1. created \in Nat /\ calls \in Nat
  BY DEF TypeInv
<1> QED
  BY <1>1

\* What stands for nothing is well-formed.
LEMMA Nothings ==
    /\ Absent \in EntryType /\ Absent.id = 0 /\ Absent.doc = NoDoc
    /\ Nothing \in CopyType /\ Nothing.version = ""
    /\ Unpublished \in PublicationType /\ Unpublished.stage = "none"
    /\ Idle \in TaskType /\ Idle.stage = "idle" /\ Idle.version = ""
    /\ Closed \in PageType
<1>1. Absent \in EntryType /\ Absent.id = 0 /\ Absent.doc = NoDoc
  BY DEF Absent, Entry, EntryType, Statuses
<1>2. Nothing \in CopyType /\ Nothing.version = ""
  BY DEF Nothing, Copy, CopyType
<1>3. Unpublished \in PublicationType /\ Unpublished.stage = "none"
  BY <1>1 DEF Unpublished, Publication, PublicationType
<1>4. Idle \in TaskType /\ Idle.stage = "idle" /\ Idle.version = ""
  BY <1>1 DEF Idle, TaskType
<1>5. Closed \in PageType
  BY DEF Closed, PageType
<1> QED
  BY <1>1, <1>2, <1>3, <1>4, <1>5

\* A copy of a version is something, and nothing is a copy of no version.
LEMMA Copies ==
    ASSUME NEW v \in Versions, NEW r \in Nat
    PROVE  /\ Copy(v, r) \in CopyType /\ Copy(v, r).version = v /\ Copy(v, r).rev = r
           /\ Copy(v, r) # Nothing
<1>1. v # ""
  BY KeysOf
<1> QED
  BY <1>1 DEF Copy, CopyType, Nothing

\* What clients send is a copy or nothing.
LEMMA SentCopies == ASSUME TypeInv, NEW c \in Sent PROVE c \in CopyType
<1>1. CASE c = Nothing
  BY <1>1, Nothings
<1>2. CASE \E v \in Versions : c = Copy(v, rev[v])
  BY <1>2, Revisions, Copies
<1> QED
  BY <1>1, <1>2 DEF Sent

\* What clients give for an entry is well-formed.
LEMMA Given ==
    ASSUME NEW g \in Gives, NEW i \in Nat
    PROVE  /\ Entry(i, g.status, g.doc, g.auto) \in EntryType
           /\ Entry(i, g.status, g.doc, g.auto).id = i
           /\ Entry(i, g.status, g.doc, g.auto).doc = g.doc
           /\ g.doc \in Links \cup {NoDoc}
<1>1. g \in [status : Statuses, doc : Links \cup {NoDoc}, auto : BOOLEAN]
  BY GivesAssumption
<1> QED
  BY <1>1 DEF Entry, EntryType

\* What a page holds once it is loaded.
LEMMA OpenPage ==
    ASSUME TypeInv, NEW p \in Pages, pages[p] # Closed
    PROVE  /\ pages[p].version \in Versions /\ ParentOf[pages[p].version] \in Keys
           /\ ParentOf[pages[p].version] \notin Versions
           /\ pages[p] \in PageType /\ pages[p].version # ""
           /\ pages[p].rev \in Nat /\ pages[p].id \in Nat /\ pages[p].auto \in BOOLEAN
           /\ Copy(pages[p].version, pages[p].rev) \in CopyType
<1>1. pages[p] \in PageType /\ pages[p].version # ""
  BY DEF TypeInv, PagesType
<1>2. pages[p].version \in Versions /\ pages[p].rev \in Nat
  BY <1>1 DEF PageType
<1> QED
  BY <1>1, <1>2, KeysOf, Copies DEF PageType

\* A page is loaded or altered.
LEMMA PageKept ==
    ASSUME TypeInv, NEW p \in Pages, NEW q \in PageType, q.version # "",
           pages' = [pages EXCEPT ![p] = q]
    PROVE  PagesType'
  BY DEF TypeInv, PagesType

-----------------------------------------------------------------------------
(* A write                                                                 *)

\* The catalogue is called with a version.
LEMMA SendsVersion ==
    ASSUME NEW e \in EntryType, NEW c \in CopyType, Sends(e, c.version)
    PROVE  c.version \in Versions /\ c # Nothing /\ e.auto
<1>1. c.version \in Versions
  BY IdentifiersAssumption DEF Sends
<1> QED
  BY <1>1, KeysOf, Nothings DEF Sends

\* The import keeps the link or sets the one of the version, and an enabled entry
\* that was imported is a success only if the catalogue has answered.
LEMMA ImportedEntry ==
    ASSUME NEW e \in EntryType, NEW c \in CopyType, NEW o \in Outcomes
    PROVE  LET new == Imported(e, c.version, o) IN
           /\ new \in EntryType /\ new.id = e.id /\ new.auto = e.auto
           /\ \/ new.doc = e.doc
              \/ new.doc = DocOf[c.version] /\ new.status = "SUCCESS"
                   /\ Sends(e, c.version) /\ o = "answered"
           /\ Sends(e, c.version) /\ new.status = "SUCCESS" =>
                new.doc = DocOf[c.version] /\ o = "answered"
<1> DEFINE v == c.version
<1>1. "SUCCESS" \in Statuses /\ "FAILED" \in Statuses /\ "SUCCESS" # "FAILED"
  BY DEF Statuses
<1>2. CASE ~e.auto \/ v = ""
  <2>1. ~Sends(e, v)
    <3>1. v = "" => v \notin Allowed
      BY IdentifiersAssumption
    <3> QED
      BY <1>2, <3>1 DEF Sends
  <2> QED
    BY <1>2, <2>1 DEF Imported
<1>3. CASE e.auto /\ v # "" /\ Sends(e, v) /\ o = "answered"
  <2>1. DocOf[v] \in Links
    BY <1>3, SendsVersion, KeysOf
  <2> QED
    BY <1>1, <1>3, <2>1 DEF Imported, EntryType
<1>4. CASE e.auto /\ v # "" /\ ~(Sends(e, v) /\ o = "answered")
  BY <1>1, <1>4 DEF Imported, EntryType
<1> QED
  BY <1>2, <1>3, <1>4

\* What changes in the catalogue is the copy that was sent; what it answers for
\* has arrived.
LEMMA CatalogueChange ==
    ASSUME TypeInv, NEW e \in EntryType, NEW c \in CopyType, NEW o \in Outcomes
    PROVE  /\ CatalogueAfter(e, c, o) \in [Docs -> CopyType]
           /\ \A d \in Docs : \/ CatalogueAfter(e, c, o)[d] = catalogue[d]
                              \/ /\ CatalogueAfter(e, c, o)[d] = c /\ Sends(e, c.version)
                                 /\ d = DocOf[c.version]
           /\ Sends(e, c.version) /\ o = "answered" =>
                CatalogueAfter(e, c, o)[DocOf[c.version]] = c
<1>1. catalogue \in [Docs -> CopyType]
  BY DEF TypeInv
<1>2. CASE Sends(e, c.version) /\ o # "refused"
  <2>1. DocOf[c.version] \in Docs
    BY <1>2, SendsVersion, KeysOf
  <2>2. CatalogueAfter(e, c, o) = [catalogue EXCEPT ![DocOf[c.version]] = c]
    BY <1>2 DEF CatalogueAfter
  <2> QED
    BY <1>1, <1>2, <2>1, <2>2
<1>3. CASE ~(Sends(e, c.version) /\ o # "refused")
  <2>1. CatalogueAfter(e, c, o) = catalogue
    BY <1>3 DEF CatalogueAfter
  <2> QED
    BY <1>1, <1>3, <2>1
<1> QED
  BY <1>2, <1>3

\* The entry of k has got the link of the version sent, which is in the catalogue.
Linked(k, c) ==
  /\ c.version \in Versions /\ c # Nothing
  /\ entries'[k].doc = DocOf[c.version] /\ entries'[k].status = "SUCCESS"
  /\ catalogue'[DocOf[c.version]] = c

\* A copy that is behind makes its version an exception.
Timely(c) == c.rev < rev[c.version] => c.version \in excused'

\* What a write of an entry does, whoever makes it.
Writes(k, e, c) ==
  /\ catalogue' \in [Docs -> CopyType]
  /\ \A d \in Docs : \/ catalogue'[d] = catalogue[d]
                     \/ /\ catalogue'[d] = c /\ c # Nothing /\ Timely(c)
                        /\ d = DocOf[c.version]
  /\ excused \subseteq excused'
  /\ entries' \in [Keys -> EntryType]
  /\ \A j \in Keys \ {k} : entries'[j] = entries[j]
  /\ \/ entries'[k] = entries[k]
     \/ /\ ~Conflicts(k, entries'[k])
        /\ Exists(k) => entries[k].id = e.id
        /\ entries'[k].doc = e.doc \/ Linked(k, c)
        /\ (entries'[k].auto /\ entries'[k].status = "SUCCESS" /\ entries'[k].doc # NoDoc)
             => k \notin Versions \/ k \in excused' \/ (Linked(k, c) /\ Timely(c))

\* Of the entries and the catalogue, with an entry new that is the imported one,
\* or the same enabled.
LEMMA WriteEffect ==
    ASSUME TypeInv, NEW k \in Keys, NEW e \in EntryType, NEW c \in CopyType, NEW o \in Outcomes,
           NEW done \in BOOLEAN, NEW new,
           new = Imported(e, c.version, o)
             \/ new = [Imported(e, c.version, o) EXCEPT !.auto = TRUE],
           catalogue' = CatalogueAfter(e, c, o),
           entries' = IF done THEN [entries EXCEPT ![k] = new] ELSE entries,
           excused' = excused \cup Late(e, c) \cup IF done THEN Untried(k, e, c.version, new) ELSE {},
           done => ~Conflicts(k, Imported(e, c.version, o)),
           done => (Exists(k) => entries[k].id = e.id)
    PROVE  Writes(k, e, c)
<1> DEFINE old == Imported(e, c.version, o)
<1>1. /\ old \in EntryType
      /\ \/ old.doc = e.doc
         \/ old.doc = DocOf[c.version] /\ old.status = "SUCCESS"
              /\ Sends(e, c.version) /\ o = "answered"
      /\ Sends(e, c.version) /\ old.status = "SUCCESS" =>
           old.doc = DocOf[c.version] /\ o = "answered"
  BY ImportedEntry
<1>2. new \in EntryType /\ new.doc = old.doc /\ new.status = old.status
  <2> HIDE DEF old
  <2> QED
    BY <1>1 DEF EntryType, old
<1> HIDE DEF old
<1>3. /\ catalogue' \in [Docs -> CopyType]
      /\ \A d \in Docs : \/ catalogue'[d] = catalogue[d]
                         \/ catalogue'[d] = c /\ Sends(e, c.version) /\ d = DocOf[c.version]
      /\ Sends(e, c.version) /\ o = "answered" => catalogue'[DocOf[c.version]] = c
  BY CatalogueChange
<1>4. Sends(e, c.version) => c.version \in Versions /\ c # Nothing /\ Timely(c)
  BY SendsVersion DEF Timely, Late
<1>5. excused \subseteq excused'
  OBVIOUS
<1>6. entries \in [Keys -> EntryType]
  BY DEF TypeInv
<1>7. CASE ~done
  BY <1>3, <1>4, <1>5, <1>6, <1>7 DEF Writes
<1>8. CASE done
  <2>1. entries' = [entries EXCEPT ![k] = new]
    BY <1>8
  <2>2. /\ entries' \in [Keys -> EntryType] /\ entries'[k] = new
        /\ \A j \in Keys \ {k} : entries'[j] = entries[j]
    BY <1>2, <1>6, <2>1
  <2>3. ~Conflicts(k, entries'[k])
    BY <1>2, <1>8, <2>2 DEF Conflicts, old
  <2>4. Sends(e, c.version) /\ o = "answered" /\ new.doc = DocOf[c.version]
          /\ new.status = "SUCCESS" => Linked(k, c) /\ Timely(c)
    BY <1>3, <1>4, <2>2 DEF Linked
  <2>5. entries'[k].doc = e.doc \/ Linked(k, c)
    BY <1>1, <1>2, <2>2, <2>4
  <2>6. ASSUME new.auto, new.status = "SUCCESS", new.doc # NoDoc
        PROVE  k \notin Versions \/ k \in excused' \/ (Linked(k, c) /\ Timely(c))
    <3>1. CASE Sends(e, c.version)
      BY <1>1, <1>2, <2>4, <2>6, <3>1
    <3>2. CASE ~Sends(e, c.version)
      BY <1>8, <2>6, <3>2 DEF Untried
    <3> QED
      BY <3>1, <3>2
  <2> QED
    BY <1>3, <1>4, <1>5, <1>8, <2>2, <2>3, <2>5, <2>6 DEF Writes
<1> QED
  BY <1>7, <1>8

\* An update is such a write.
LEMMA UpdateWrites ==
    ASSUME TypeInv, NEW k \in Keys, NEW e \in EntryType, NEW c \in CopyType, NEW o \in Outcomes,
           Update(k, e, c, o)
    PROVE  /\ Writes(k, e, c)
           /\ entries'[k] # entries[k] => Updates(k, e, c.version, o)
<1> DEFINE done == Updates(k, e, c.version, o)
           new == Imported(e, c.version, o)
<1>1. /\ catalogue' = CatalogueAfter(e, c, o)
      /\ entries' = IF done THEN [entries EXCEPT ![k] = new] ELSE entries
      /\ excused' = excused \cup Late(e, c) \cup IF done THEN Untried(k, e, c.version, new) ELSE {}
  BY DEF Update
<1>2. done \in BOOLEAN /\ (done => ~Conflicts(k, new)) /\ (done => entries[k].id = e.id)
  BY DEF Updates, Saves
<1>3. \A x \in BOOLEAN : \A n :
        /\ n = Imported(e, c.version, o)
        /\ entries' = IF x THEN [entries EXCEPT ![k] = n] ELSE entries
        /\ excused' = excused \cup Late(e, c) \cup IF x THEN Untried(k, e, c.version, n) ELSE {}
        /\ x => ~Conflicts(k, Imported(e, c.version, o))
        /\ x => (Exists(k) => entries[k].id = e.id)
        => Writes(k, e, c)
  BY <1>1, WriteEffect
<1> HIDE DEF done
<1>4. Writes(k, e, c)
  BY <1>1, <1>2, <1>3
<1>5. entries'[k] # entries[k] => done
  BY <1>1
<1> QED
  BY <1>4, <1>5 DEF done

\* So is a creation, and it takes an identifier without an entry.
LEMMA CreateWrites ==
    ASSUME TypeInv, NEW k \in Keys, NEW e \in EntryType, NEW c \in CopyType, NEW o \in Outcomes,
           Create(k, e, c, o)
    PROVE  /\ Writes(k, e, c) /\ created' \in Nat
           /\ Exists(k) => entries'[k] = entries[k]
<1> DEFINE done == Creates(k, e, c.version, o)
           new == [Imported(e, c.version, o) EXCEPT !.auto = TRUE]
<1>1. /\ catalogue' = CatalogueAfter(e, c, o)
      /\ entries' = IF done THEN [entries EXCEPT ![k] = new] ELSE entries
      /\ created' = IF done THEN created + 1 ELSE created
      /\ excused' = excused \cup Late(e, c) \cup IF done THEN Untried(k, e, c.version, new) ELSE {}
  BY DEF Create
<1>2. /\ done \in BOOLEAN /\ (done => ~Conflicts(k, Imported(e, c.version, o)))
      /\ done => ~Exists(k)
  BY DEF Creates, Saves
<1>3. \A x \in BOOLEAN : \A n :
        /\ n = [Imported(e, c.version, o) EXCEPT !.auto = TRUE]
        /\ entries' = IF x THEN [entries EXCEPT ![k] = n] ELSE entries
        /\ excused' = excused \cup Late(e, c) \cup IF x THEN Untried(k, e, c.version, n) ELSE {}
        /\ x => ~Conflicts(k, Imported(e, c.version, o))
        /\ x => (Exists(k) => entries[k].id = e.id)
        => Writes(k, e, c)
  BY <1>1, WriteEffect
<1> HIDE DEF done
<1>4. Writes(k, e, c)
  BY <1>1, <1>2, <1>3
<1>5. Exists(k) => entries'[k] = entries[k]
  BY <1>1, <1>2
<1>6. created' \in Nat
  BY <1>1, Counters
<1> QED
  BY <1>4, <1>5, <1>6

-----------------------------------------------------------------------------
(* The actions, as writes                                                  *)

\* The hook writes the entry it read, marked.
LEMMA HookWrites ==
    ASSUME TypeInv, NEW v \in Versions, NEW o \in Outcomes, PublishImport(v, o)
    PROVE  LET e == [publishing[v].entry EXCEPT !.status = "PENDING"] IN
           /\ e \in EntryType /\ e.doc = publishing[v].entry.doc
           /\ publishing[v].stage = "read"
           /\ v \in Keys /\ Writes(v, e, Copy(v, rev[v] + 1))
           /\ publishing' \in [Versions -> PublicationType]
           /\ \A w \in Versions : publishing'[w].stage = "read" => publishing'[w] = publishing[w]
           /\ entries'[v] # entries[v] => publishing'[v].stage = "marked"
<1> DEFINE old == publishing[v].entry
           e == [old EXCEPT !.status = "PENDING"]
           c == Copy(v, rev[v] + 1)
<1>1. old \in EntryType
  BY DEF TypeInv, PublicationType
<1>2. e \in EntryType /\ e.doc = old.doc
  BY <1>1 DEF EntryType, Statuses
<1>3. c \in CopyType /\ v \in Keys /\ c.version = v
  <2>1. rev[v] + 1 \in Nat
    BY Revisions
  <2> QED
    BY <2>1, Copies, KeysOf
<1>4. publishing[v].stage = "read" /\ Update(v, e, c, o)
  BY DEF PublishImport
<1>5. publishing' =
        [publishing EXCEPT ![v] =
           IF Updates(v, e, v, o) THEN Publication("marked", Absent)
           ELSE IF entries[v].id # e.id /\ ~Garbled(e, v, o) THEN Publication("plain", Absent)
           ELSE Unpublished]
  BY DEF PublishImport
<1> HIDE DEF e, c
<1>6. Writes(v, e, c) /\ (entries'[v] # entries[v] => Updates(v, e, v, o))
  BY <1>2, <1>3, <1>4, UpdateWrites
<1>7. /\ Publication("marked", Absent) \in PublicationType
      /\ Publication("marked", Absent).stage = "marked"
      /\ Publication("plain", Absent) \in PublicationType
      /\ Publication("plain", Absent).stage = "plain"
  BY Nothings DEF Publication, PublicationType
<1>8. publishing \in [Versions -> PublicationType]
  BY DEF TypeInv
<1>9. /\ publishing' \in [Versions -> PublicationType]
      /\ publishing'[v].stage \in {"marked", "plain", "none"}
      /\ Updates(v, e, v, o) => publishing'[v].stage = "marked"
      /\ \A w \in Versions \ {v} : publishing'[w] = publishing[w]
  BY <1>5, <1>7, <1>8, Nothings
<1>10. ASSUME NEW w \in Versions, publishing'[w].stage = "read" PROVE publishing'[w] = publishing[w]
  BY <1>9, <1>10
<1> QED
  BY <1>2, <1>3, <1>4, <1>6, <1>9, <1>10 DEF e, c

\* The task writes the entry it read.
LEMMA TaskWrites ==
    ASSUME TypeInv, LinkInv, NEW t \in Tasks, NEW o \in Outcomes, TaskWrite(t, o)
    PROVE  LET v == tasks[t].version
               e == tasks[t].entry
           IN
           /\ v \in Versions /\ v \in Keys /\ e \in EntryType /\ tasks[t].stage = "read"
           /\ Writes(v, e, Copy(v, tasks[t].rev))
           /\ tasks'[t] = Idle /\ tasks' \in [Tasks -> TaskType]
           /\ \A u \in Tasks \ {t} : tasks'[u] = tasks[u]
<1>1. /\ tasks[t].stage = "read" /\ tasks' = [tasks EXCEPT ![t] = Idle]
      /\ Update(tasks[t].version, tasks[t].entry, Copy(tasks[t].version, tasks[t].rev), o)
  BY DEF TaskWrite, TaskData
<1>2. tasks[t].version \in Versions /\ tasks[t].entry \in EntryType /\ tasks[t].rev \in Nat
  BY <1>1 DEF LinkInv, ReadSound, TypeInv, TaskType
<1>3. tasks[t].version \in Keys /\ Copy(tasks[t].version, tasks[t].rev) \in CopyType
  BY <1>2, KeysOf, Copies
<1>4. Writes(tasks[t].version, tasks[t].entry, Copy(tasks[t].version, tasks[t].rev))
  BY <1>1, <1>2, <1>3, UpdateWrites
<1>5. tasks'[t] = Idle /\ tasks' \in [Tasks -> TaskType]
        /\ \A u \in Tasks \ {t} : tasks'[u] = tasks[u]
  BY <1>1, Nothings DEF TypeInv
<1> QED
  BY <1>1, <1>2, <1>3, <1>4, <1>5

\* The page writes the entry of a parent: a new one without a link, or the one that
\* is there.
LEMMA SendWrites ==
    ASSUME TypeInv, NEW p \in Pages, NEW a \in BOOLEAN, NEW o \in Outcomes, Send(p, a, o)
    PROVE  LET k == ParentOf[pages[p].version]
               c == Copy(pages[p].version, pages[p].rev)
           IN
           /\ pages[p].version \in Versions /\ k \in Keys /\ k \notin Versions
           /\ created' \in Nat /\ PagesType'
           /\ \E e \in EntryType : /\ Writes(k, e, c)
                                   /\ e.doc = NoDoc \/ e.doc = entries[k].doc
                                   /\ \/ e.doc = entries[k].doc
                                      \/ Exists(k) => entries'[k] = entries[k]
<1> DEFINE k == ParentOf[pages[p].version]
           c == Copy(pages[p].version, pages[p].rev)
<1>1. pages[p] # Closed /\ (PageCreate(p, a, o) \/ PageUpdate(p, a, o))
  BY DEF Send
<1>2. /\ pages[p].version \in Versions /\ k \in Keys /\ k \notin Versions /\ c \in CopyType
      /\ pages[p] \in PageType /\ pages[p].version # "" /\ pages[p].id \in Nat
      /\ c.version = pages[p].version
  BY <1>1, OpenPage DEF Copy
<1>3. pages \in [Pages -> PageType] /\ entries[k] \in EntryType
  BY <1>2 DEF TypeInv, PagesType
<1>4. [pages[p] EXCEPT !.auto = a] \in PageType /\ [pages[p] EXCEPT !.auto = a].version # ""
  BY <1>2 DEF PageType
<1>5. CASE PageCreate(p, a, o)
  <2> DEFINE e == Entry(created + 1, "SUCCESS", NoDoc, a)
             q == [pages[p] EXCEPT !.id = created + 1, !.auto = TRUE]
  <2>1. e \in EntryType /\ e.doc = NoDoc
    BY Counters DEF Entry, EntryType, Statuses
  <2>2. q \in PageType /\ q.version # ""
    BY <1>2, Counters DEF PageType
  <2>3. Create(k, e, c, o)
    BY <1>5 DEF PageCreate
  <2>4. /\ pages' = [pages EXCEPT ![p].id = created + 1, ![p].auto = TRUE]
           \/ pages' = [pages EXCEPT ![p].auto = a]
    BY <1>5 DEF PageCreate
  <2>5. pages' = [pages EXCEPT ![p] = q] \/ pages' = [pages EXCEPT ![p] = [pages[p] EXCEPT !.auto = a]]
    BY <1>3, <2>4
  <2> HIDE DEF e, q, k, c
  <2>6. PagesType'
    BY <1>4, <2>2, <2>5, PageKept
  <2>7. Writes(k, e, c) /\ created' \in Nat /\ (Exists(k) => entries'[k] = entries[k])
    BY <1>2, <2>1, <2>3, CreateWrites
  <2> QED
    BY <1>2, <2>1, <2>6, <2>7 DEF k, c
<1>6. CASE PageUpdate(p, a, o)
  <2> DEFINE e == [entries[k] EXCEPT !.id = pages[p].id, !.auto = a]
  <2>1. e \in EntryType /\ e.doc = entries[k].doc
    BY <1>2, <1>3 DEF EntryType
  <2>2. Update(k, e, c, o) /\ created' = created
    BY <1>6 DEF PageUpdate
  <2>3. pages' = [pages EXCEPT ![p] = [pages[p] EXCEPT !.auto = a]]
    BY <1>3, <1>6 DEF PageUpdate
  <2> HIDE DEF e, k, c
  <2>4. PagesType'
    BY <1>4, <2>3, PageKept
  <2>5. Writes(k, e, c)
    BY <1>2, <2>1, <2>2, UpdateWrites
  <2>6. created' \in Nat
    BY <2>2, Counters
  <2> QED
    BY <1>2, <2>1, <2>4, <2>5, <2>6 DEF k, c
<1> QED
  BY <1>1, <1>5, <1>6

\* A client writes the link it gives.
LEMMA ClientWrites ==
    ASSUME TypeInv, NEW k \in Keys, NEW g \in Gives, NEW c \in Sent, NEW o \in Outcomes,
           ApiCreate(k, g, c, o) \/ ApiPut(k, g, c, o)
    PROVE  /\ created' \in Nat /\ calls' \in Nat /\ byHand' \subseteq Links /\ byHand \subseteq byHand'
           /\ c \in CopyType
           /\ \E e \in EntryType : /\ Writes(k, e, c) /\ e.doc = g.doc
                                   /\ g.doc \in {NoDoc, entries[k].doc} \cup byHand'
           /\ Exists(k) => entries'[k] = entries[k] \/ ApiPut(k, g, c, o)
<1>1. c \in CopyType
  BY SentCopies
<1>2. CASE ApiCreate(k, g, c, o)
  <2> DEFINE e == Entry(created + 1, g.status, g.doc, g.auto)
  <2>1. e \in EntryType /\ e.doc = g.doc /\ g.doc \in Links \cup {NoDoc}
    BY Counters, Given
  <2>2. Create(k, e, c, o) /\ byHand' = byHand \cup ({g.doc} \ {NoDoc}) /\ calls' = calls + 1
    BY <1>2 DEF ApiCreate
  <2>3. byHand \subseteq Links
    BY DEF TypeInv
  <2> HIDE DEF e
  <2>4. Writes(k, e, c) /\ created' \in Nat /\ (Exists(k) => entries'[k] = entries[k])
    BY <1>1, <2>1, <2>2, CreateWrites
  <2> QED
    BY <1>1, <2>1, <2>2, <2>3, <2>4, Counters
<1>3. CASE ApiPut(k, g, c, o)
  <2> DEFINE e == Entry(entries[k].id, g.status, g.doc, g.auto)
  <2>1. entries[k].id \in Nat
    BY DEF TypeInv, EntryType
  <2>2. e \in EntryType /\ e.doc = g.doc /\ g.doc \in Links \cup {NoDoc}
    BY <2>1, Given
  <2>3. /\ Update(k, e, c, o) /\ calls' = calls + 1 /\ created' = created
        /\ byHand' = byHand \cup ({g.doc} \ {NoDoc, entries[k].doc})
    BY <1>3 DEF ApiPut
  <2>4. byHand \subseteq Links
    BY DEF TypeInv
  <2> HIDE DEF e
  <2>5. Writes(k, e, c)
    BY <1>1, <2>2, <2>3, UpdateWrites
  <2> QED
    BY <1>1, <1>3, <2>2, <2>3, <2>4, <2>5, Counters
<1> QED
  BY <1>2, <1>3

-----------------------------------------------------------------------------
(* Typing                                                                  *)

\* The initial state is well-formed.
LEMMA InitType == Init => TypeInv
<1> SUFFICES ASSUME Init PROVE TypeInv
  OBVIOUS
<1>1. PagesType
  BY Nothings DEF Init, PagesType
<1> QED
  BY <1>1, Nothings DEF Init, TypeInv

\* The hook, the commit and the roll-back of a publication keep the state
\* well-formed.
LEMMA PublishType ==
    ASSUME TypeInv, NEW v \in Versions,
           \/ PublishRead(v) \/ PublishCommit(v) \/ PublishPlain(v) \/ PublishFails(v)
           \/ \E o \in Outcomes : PublishImport(v, o)
    PROVE  TypeInv'
<1>1. v \in Keys /\ entries[v] \in EntryType
  BY KeysOf DEF TypeInv
<1>2. ASSUME NEW q \in PublicationType, publishing' = [publishing EXCEPT ![v] = q]
      PROVE  publishing' \in [Versions -> PublicationType]
  BY <1>2 DEF TypeInv
<1>3. CASE PublishRead(v)
  <2>1. /\ Publication("read", entries[v]) \in PublicationType
        /\ Publication("plain", Absent) \in PublicationType
    BY <1>1, Nothings DEF Publication, PublicationType
  <2>2. publishing' \in [Versions -> PublicationType]
    BY <1>2, <1>3, <2>1 DEF PublishRead
  <2> QED
    BY <1>3, <2>2 DEF PublishRead, TypeInv, PagesType
<1>4. CASE PublishCommit(v)
  <2>1. PICK t \in Tasks : tasks' = [tasks EXCEPT ![t] =
                [Idle EXCEPT !.stage = "queued", !.version = v]]
    BY <1>4 DEF PublishCommit
  <2>2. [Idle EXCEPT !.stage = "queued", !.version = v] \in TaskType
    BY Nothings DEF TaskType
  <2>3. tasks' \in [Tasks -> TaskType]
    BY <2>1, <2>2 DEF TypeInv
  <2>4. rev' \in [Versions -> Nat] /\ publishing' \in [Versions -> PublicationType]
    BY <1>2, <1>4, Nothings, Revisions DEF PublishCommit
  <2> QED
    BY <1>4, <2>3, <2>4 DEF PublishCommit, TypeInv, PagesType
<1>5. CASE PublishPlain(v)
  <2>1. rev' \in [Versions -> Nat] /\ publishing' \in [Versions -> PublicationType]
    BY <1>2, <1>5, Nothings, Revisions DEF PublishPlain
  <2> QED
    BY <1>5, <2>1 DEF PublishPlain, TypeInv, PagesType
<1>6. CASE PublishFails(v)
  <2>1. publishing' \in [Versions -> PublicationType]
    BY <1>2, <1>6, Nothings DEF PublishFails
  <2> QED
    BY <1>6, <2>1 DEF PublishFails, TypeInv, PagesType
<1>7. ASSUME NEW o \in Outcomes, PublishImport(v, o) PROVE TypeInv'
  <2>1. /\ entries' \in [Keys -> EntryType] /\ catalogue' \in [Docs -> CopyType]
        /\ publishing' \in [Versions -> PublicationType]
    BY <1>7, HookWrites DEF Writes
  <2>2. UNCHANGED <<rev, created, tasks, pages, calls, byHand>>
    BY <1>7 DEF PublishImport
  <2> QED
    BY <2>1, <2>2 DEF TypeInv, PagesType
<1> QED
  BY <1>3, <1>4, <1>5, <1>6, <1>7

\* So does a task, whatever the catalogue answers.
LEMMA TaskTypes ==
    ASSUME TypeInv, LinkInv, NEW t \in Tasks,
           TaskSkip(t) \/ TaskRead(t) \/ \E o \in Outcomes : TaskWrite(t, o)
    PROVE  TypeInv'
<1>1. CASE TaskSkip(t)
  BY <1>1, Nothings DEF TaskSkip, TypeInv, PagesType
<1>2. CASE TaskRead(t)
  <2>1. tasks[t].version \in Versions
    BY <1>2 DEF TaskRead, LinkInv, QueueSound
  <2>2. [stage |-> "read", version |-> tasks[t].version, rev |-> rev[tasks[t].version],
         entry |-> entries[tasks[t].version]] \in TaskType
    BY <2>1, KeysOf DEF TypeInv, TaskType
  <2>3. tasks' \in [Tasks -> TaskType]
    BY <1>2, <2>2 DEF TaskRead, TypeInv
  <2> QED
    BY <1>2, <2>3 DEF TaskRead, TypeInv, PagesType
<1>3. ASSUME NEW o \in Outcomes, TaskWrite(t, o) PROVE TypeInv'
  <2>1. /\ entries' \in [Keys -> EntryType] /\ catalogue' \in [Docs -> CopyType]
        /\ tasks' \in [Tasks -> TaskType]
    BY <1>3, TaskWrites DEF Writes
  <2>2. UNCHANGED <<rev, created, publishing, pages, calls, byHand>>
    BY <1>3 DEF TaskWrite
  <2> QED
    BY <2>1, <2>2 DEF TypeInv, PagesType
<1> QED
  BY <1>1, <1>2, <1>3

\* So do the page and the clients.
LEMMA ClientTypes ==
    ASSUME TypeInv,
           \/ \E p \in Pages : \/ Remove(p) \/ \E v \in Versions : LoadPage(p, v)
                               \/ \E a \in BOOLEAN, o \in Outcomes : Send(p, a, o)
           \/ \E k \in Keys :
                \/ ApiDelete(k)
                \/ \E g \in Gives, c \in Sent, o \in Outcomes :
                     ApiCreate(k, g, c, o) \/ ApiPut(k, g, c, o)
    PROVE  TypeInv'
<1>1. ASSUME NEW p \in Pages, Remove(p) PROVE TypeInv'
  <2> DEFINE q == [pages[p] EXCEPT !.id = 0, !.auto = FALSE]
  <2>1. q \in PageType /\ q.version # ""
    BY <1>1, OpenPage DEF Remove, PageType
  <2>2. pages' = [pages EXCEPT ![p] = q]
    BY <1>1 DEF Remove, TypeInv, PagesType
  <2>3. entries' \in [Keys -> EntryType]
    BY <1>1, Nothings DEF Remove, TypeInv
  <2> HIDE DEF q
  <2>4. PagesType'
    BY <2>1, <2>2, PageKept
  <2> QED
    BY <1>1, <2>3, <2>4 DEF Remove, TypeInv
<1>2. ASSUME NEW p \in Pages, NEW v \in Versions, LoadPage(p, v) PROVE TypeInv'
  <2> DEFINE q == [version |-> v, rev |-> rev[v], id |-> entries[ParentOf[v]].id,
                   auto |-> entries[ParentOf[v]].auto]
  <2>1. entries[ParentOf[v]] \in EntryType /\ rev[v] \in Nat /\ v # ""
    BY KeysOf, Revisions DEF TypeInv
  <2>2. q \in PageType /\ q.version # ""
    BY <2>1 DEF PageType, EntryType
  <2>3. pages' = [pages EXCEPT ![p] = q]
    BY <1>2 DEF LoadPage
  <2> HIDE DEF q
  <2>4. PagesType'
    BY <2>2, <2>3, PageKept
  <2> QED
    BY <1>2, <2>4 DEF LoadPage, TypeInv
<1>3. ASSUME NEW p \in Pages, NEW a \in BOOLEAN, NEW o \in Outcomes, Send(p, a, o) PROVE TypeInv'
  <2>1. /\ entries' \in [Keys -> EntryType] /\ catalogue' \in [Docs -> CopyType]
        /\ created' \in Nat /\ PagesType'
    BY <1>3, SendWrites DEF Writes
  <2>2. UNCHANGED <<rev, publishing, tasks, calls, byHand>>
    BY <1>3 DEF Send
  <2> QED
    BY <2>1, <2>2 DEF TypeInv
<1>4. ASSUME NEW k \in Keys, ApiDelete(k) PROVE TypeInv'
  BY <1>4, Nothings DEF ApiDelete, TypeInv, PagesType
<1>5. ASSUME NEW k \in Keys, NEW g \in Gives, NEW c \in Sent, NEW o \in Outcomes,
             ApiCreate(k, g, c, o) \/ ApiPut(k, g, c, o)
      PROVE  TypeInv'
  <2>1. /\ entries' \in [Keys -> EntryType] /\ catalogue' \in [Docs -> CopyType]
        /\ created' \in Nat /\ calls' \in Nat /\ byHand' \subseteq Links
    BY <1>5, ClientWrites DEF Writes
  <2>2. UNCHANGED <<rev, publishing, tasks, pages>>
    BY <1>5 DEF ApiCreate, ApiPut
  <2> QED
    BY <2>1, <2>2 DEF TypeInv, PagesType
<1> QED
  BY <1>1, <1>2, <1>3, <1>4, <1>5

\* A button of the page sends the record.
LEMMA Buttons ==
    ASSUME NEW p \in Pages, NEW o \in Outcomes, Resync(p, o) \/ Toggle(p, o), TypeInv
    PROVE  \E a \in BOOLEAN : Send(p, a, o)
<1>1. CASE Resync(p, o)
  BY <1>1 DEF Resync
<1>2. CASE Toggle(p, o)
  BY <1>2 DEF Toggle
<1> QED
  BY <1>1, <1>2

\* Every step keeps the state well-formed.
LEMMA NextType == TypeInv /\ LinkInv /\ [Next]_vars => TypeInv'
<1> SUFFICES ASSUME TypeInv, LinkInv, [Next]_vars PROVE TypeInv'
  OBVIOUS
<1>1. CASE UNCHANGED vars
  BY <1>1 DEF vars, TypeInv, PagesType
<1>2. CASE \E p \in Pages, o \in Outcomes : Resync(p, o) \/ Toggle(p, o)
  BY <1>2, Buttons, ClientTypes
<1> QED
  BY <1>1, <1>2, PublishType, TaskTypes, ClientTypes DEF Next

-----------------------------------------------------------------------------
(* Links                                                                   *)

\* What the catalogue has it keeps, and so do the links that clients wrote.
LEMMA KnownStays ==
    ASSUME TypeInv, byHand \subseteq byHand',
           \A d \in Docs : catalogue'[d] = catalogue[d] \/ catalogue'[d] # Nothing
    PROVE  KnownLinks \subseteq KnownLinks'
  BY DEF KnownLinks

\* A write of a known link.
LEMMA WriteLinks ==
    ASSUME TypeInv, LinksUnique, LinksLeadSomewhere, byHand \subseteq byHand',
           NEW k \in Keys, NEW e \in EntryType, NEW c, Writes(k, e, c),
           e.doc \in KnownLinks \cup KnownLinks'
    PROVE  LinksUnique' /\ LinksLeadSomewhere' /\ KnownLinks \subseteq KnownLinks'
<1>1. \A d \in Docs : catalogue'[d] = catalogue[d] \/ catalogue'[d] # Nothing
  BY DEF Writes
<1>2. KnownLinks \subseteq KnownLinks'
  BY <1>1, KnownStays
<1>3. \A j \in Keys \ {k} : entries'[j] = entries[j]
  BY DEF Writes
<1>4. \/ entries'[k] = entries[k]
      \/ ~Conflicts(k, entries'[k]) /\ (entries'[k].doc = e.doc \/ Linked(k, c))
  BY DEF Writes
<1>5. LinksUnique'
  BY <1>3, <1>4 DEF LinksUnique, Conflicts
<1>6. Linked(k, c) => entries'[k].doc \in KnownLinks'
  BY KeysOf DEF Linked, KnownLinks
<1>7. \A j \in Keys : entries[j].doc \in KnownLinks
  BY DEF LinksLeadSomewhere, KnownLinks
<1>8. \A j \in Keys : entries'[j].doc \in KnownLinks'
  BY <1>2, <1>3, <1>4, <1>6, <1>7
<1>9. LinksLeadSomewhere'
  BY <1>8 DEF LinksLeadSomewhere, KnownLinks
<1> QED
  BY <1>2, <1>5, <1>9

\* Tasks and publications that have read keep their copy.
LEMMA ReadsStay ==
    ASSUME TypeInv, ReadSound, KnownLinks \subseteq KnownLinks',
           \A v \in Versions : publishing'[v].stage = "read" => publishing'[v] = publishing[v],
           \A t \in Tasks : tasks'[t].stage = "read" => tasks'[t] = tasks[t]
    PROVE  ReadSound'
<1>1. ASSUME NEW v \in Versions, publishing'[v].stage = "read"
      PROVE  publishing'[v].entry.doc \in KnownLinks'
  BY <1>1 DEF ReadSound
<1>2. ASSUME NEW t \in Tasks, tasks'[t].stage = "read"
      PROVE  tasks'[t].version \in Versions /\ tasks'[t].entry.doc \in KnownLinks'
  <2>1. tasks'[t] = tasks[t] /\ tasks[t].stage = "read"
    BY <1>2
  <2> QED
    BY <2>1 DEF ReadSound
<1> QED
  BY <1>1, <1>2 DEF ReadSound

\* An entry that is taken away.
LEMMA RemoveLinks ==
    ASSUME TypeInv, LinkInv, NEW k \in Keys, entries' = [entries EXCEPT ![k] = Absent],
           UNCHANGED <<catalogue, publishing, tasks, byHand>>
    PROVE  LinkInv'
<1>1. entries'[k].doc = NoDoc /\ \A j \in Keys \ {k} : entries'[j] = entries[j]
  BY Nothings DEF TypeInv
<1>2. LinksUnique'
  BY <1>1 DEF LinkInv, LinksUnique
<1>3. LinksLeadSomewhere'
  BY <1>1 DEF LinkInv, LinksLeadSomewhere
<1>4. ReadSound' /\ QueueSound'
  BY DEF LinkInv, ReadSound, QueueSound, KnownLinks
<1> QED
  BY <1>2, <1>3, <1>4 DEF LinkInv

\* There are no links to begin with.
LEMMA InitLinks == Init => LinkInv
<1> SUFFICES ASSUME Init PROVE LinkInv
  OBVIOUS
<1>1. \A k \in Keys : entries[k].doc = NoDoc
  BY Nothings DEF Init
<1>2. \A v \in Versions : publishing[v].stage = "none"
  BY Nothings DEF Init
<1>3. \A t \in Tasks : tasks[t] = Idle /\ tasks[t].stage = "idle"
  BY Nothings DEF Init
<1> QED
  BY <1>1, <1>2, <1>3 DEF LinkInv, LinksUnique, LinksLeadSomewhere, ReadSound, QueueSound

\* The steps of a publication keep LinkInv.
LEMMA PublishLinks ==
    ASSUME TypeInv, LinkInv, NEW v \in Versions,
           \/ PublishRead(v) \/ PublishCommit(v) \/ PublishPlain(v) \/ PublishFails(v)
           \/ \E o \in Outcomes : PublishImport(v, o)
    PROVE  LinkInv'
<1>1. ASSUME UNCHANGED <<entries, catalogue, byHand>>, ReadSound', QueueSound' PROVE LinkInv'
  BY <1>1 DEF LinkInv, LinksUnique, LinksLeadSomewhere
<1>2. ASSUME UNCHANGED <<catalogue, byHand>> PROVE KnownLinks' = KnownLinks
  BY <1>2 DEF KnownLinks
<1>3. ASSUME UNCHANGED tasks PROVE QueueSound'
  BY <1>3 DEF LinkInv, QueueSound
<1>4. v \in Keys /\ publishing \in [Versions -> PublicationType]
  BY KeysOf DEF TypeInv
<1>5. CASE PublishRead(v)
  <2>1. /\ \/ publishing' = [publishing EXCEPT ![v] = Publication("read", entries[v])]
           \/ publishing' = [publishing EXCEPT ![v] = Publication("plain", Absent)]
        /\ UNCHANGED <<entries, catalogue, tasks, byHand>>
    BY <1>5 DEF PublishRead
  <2>2. /\ \A w \in Versions \ {v} : publishing'[w] = publishing[w]
        /\ publishing'[v].stage = "read" => publishing'[v].entry = entries[v]
    BY <1>4, <2>1 DEF Publication
  <2>3. entries[v].doc \in KnownLinks
    BY <1>4 DEF LinkInv, LinksLeadSomewhere, KnownLinks
  <2>4. KnownLinks' = KnownLinks
    BY <1>2, <2>1
  <2>5. \A w \in Versions : publishing'[w].stage = "read" => publishing'[w].entry.doc \in KnownLinks'
    BY <2>2, <2>3, <2>4 DEF LinkInv, ReadSound
  <2>6. ReadSound'
    BY <2>1, <2>4, <2>5 DEF LinkInv, ReadSound
  <2> QED
    BY <1>1, <1>3, <2>1, <2>6
<1>6. ASSUME publishing' = [publishing EXCEPT ![v] = Unpublished]
      PROVE  \A w \in Versions : publishing'[w].stage = "read" => publishing'[w] = publishing[w]
  BY <1>4, <1>6, Nothings
<1>7. CASE PublishCommit(v)
  <2>1. PICK t \in Tasks : tasks' = [tasks EXCEPT ![t] =
                [Idle EXCEPT !.stage = "queued", !.version = v]]
    BY <1>7 DEF PublishCommit
  <2>2. /\ tasks'[t].stage = "queued" /\ tasks'[t].version = v
        /\ \A u \in Tasks \ {t} : tasks'[u] = tasks[u]
    BY <2>1 DEF TypeInv, Idle
  <2>3. UNCHANGED <<entries, catalogue, byHand>> /\ publishing' = [publishing EXCEPT ![v] = Unpublished]
    BY <1>7 DEF PublishCommit
  <2>4. \A u \in Tasks : tasks'[u].stage = "read" => tasks'[u] = tasks[u]
    BY <2>2
  <2>5. ReadSound'
    BY <1>2, <1>6, <2>3, <2>4, ReadsStay DEF LinkInv
  <2>6. QueueSound'
    BY <2>2 DEF LinkInv, QueueSound
  <2> QED
    BY <1>1, <2>3, <2>5, <2>6
<1>8. CASE PublishPlain(v) \/ PublishFails(v)
  <2>1. /\ UNCHANGED <<entries, catalogue, tasks, byHand>>
        /\ publishing' = [publishing EXCEPT ![v] = Unpublished]
    BY <1>8 DEF PublishPlain, PublishFails
  <2>2. ReadSound'
    BY <1>2, <1>6, <2>1, ReadsStay DEF LinkInv
  <2> QED
    BY <1>1, <1>3, <2>1, <2>2
<1>9. ASSUME NEW o \in Outcomes, PublishImport(v, o) PROVE LinkInv'
  <2> DEFINE e == [publishing[v].entry EXCEPT !.status = "PENDING"]
             c == Copy(v, rev[v] + 1)
  <2>1. /\ e \in EntryType /\ e.doc = publishing[v].entry.doc /\ Writes(v, e, c)
        /\ publishing[v].stage = "read"
        /\ \A w \in Versions : publishing'[w].stage = "read" => publishing'[w] = publishing[w]
    BY <1>9, HookWrites
  <2> HIDE DEF e, c
  <2>2. e.doc \in KnownLinks
    BY <2>1 DEF LinkInv, ReadSound
  <2>3. tasks' = tasks /\ byHand' = byHand
    BY <1>9 DEF PublishImport
  <2>4. LinksUnique' /\ LinksLeadSomewhere' /\ KnownLinks \subseteq KnownLinks'
    BY <1>4, <2>1, <2>2, <2>3, WriteLinks DEF LinkInv
  <2>5. ReadSound'
    BY <2>1, <2>3, <2>4, ReadsStay DEF LinkInv
  <2> QED
    BY <1>3, <2>3, <2>4, <2>5 DEF LinkInv
<1> QED
  BY <1>5, <1>7, <1>8, <1>9

\* The steps of a task keep LinkInv.
LEMMA TaskLinks ==
    ASSUME TypeInv, LinkInv, NEW t \in Tasks,
           TaskSkip(t) \/ TaskRead(t) \/ \E o \in Outcomes : TaskWrite(t, o)
    PROVE  LinkInv'
<1>1. ASSUME UNCHANGED <<entries, catalogue, byHand>>, ReadSound', QueueSound' PROVE LinkInv'
  BY <1>1 DEF LinkInv, LinksUnique, LinksLeadSomewhere
<1>2. ASSUME UNCHANGED <<catalogue, byHand>> PROVE KnownLinks' = KnownLinks
  BY <1>2 DEF KnownLinks
<1>3. CASE TaskSkip(t)
  <2>1. /\ tasks'[t] = Idle /\ \A u \in Tasks \ {t} : tasks'[u] = tasks[u]
        /\ UNCHANGED <<entries, catalogue, byHand, publishing>>
    BY <1>3 DEF TaskSkip, TypeInv
  <2>2. \A u \in Tasks : tasks'[u].stage = "read" => tasks'[u] = tasks[u]
    BY <2>1, Nothings
  <2>3. ReadSound'
    BY <1>2, <2>1, <2>2, ReadsStay DEF LinkInv
  <2>4. QueueSound'
    BY <2>1, Nothings DEF LinkInv, QueueSound
  <2> QED
    BY <1>1, <2>1, <2>3, <2>4
<1>4. CASE TaskRead(t)
  <2> DEFINE v == tasks[t].version
  <2>1. v \in Versions /\ v \in Keys
    BY <1>4, KeysOf DEF TaskRead, LinkInv, QueueSound
  <2>2. /\ tasks' = [tasks EXCEPT ![t] = [stage |-> "read", version |-> v, rev |-> rev[v],
                                          entry |-> entries[v]]]
        /\ UNCHANGED <<entries, catalogue, byHand, publishing>>
    BY <1>4 DEF TaskRead
  <2>3. /\ tasks'[t].stage = "read" /\ tasks'[t].version = v /\ tasks'[t].entry = entries[v]
        /\ \A u \in Tasks \ {t} : tasks'[u] = tasks[u]
    BY <2>2 DEF TypeInv
  <2> HIDE DEF v
  <2>4. entries[v].doc \in KnownLinks /\ KnownLinks' = KnownLinks
    BY <1>2, <2>1, <2>2 DEF LinkInv, LinksLeadSomewhere, KnownLinks
  <2>5. ReadSound'
    BY <2>1, <2>2, <2>3, <2>4 DEF LinkInv, ReadSound
  <2>6. QueueSound'
    BY <2>3 DEF LinkInv, QueueSound
  <2> QED
    BY <1>1, <2>2, <2>5, <2>6
<1>5. ASSUME NEW o \in Outcomes, TaskWrite(t, o) PROVE LinkInv'
  <2>1. PICK v \in Keys, e \in EntryType, c \in {Copy(tasks[t].version, tasks[t].rev)} :
          v = tasks[t].version /\ e = tasks[t].entry /\ Writes(v, e, c)
    BY <1>5, TaskWrites
  <2>2. /\ tasks[t].stage = "read" /\ tasks'[t] = Idle
        /\ \A u \in Tasks \ {t} : tasks'[u] = tasks[u]
    BY <1>5, TaskWrites
  <2>3. e.doc \in KnownLinks
    BY <2>1, <2>2 DEF LinkInv, ReadSound
  <2>4. publishing' = publishing /\ byHand' = byHand
    BY <1>5 DEF TaskWrite
  <2>5. LinksUnique' /\ LinksLeadSomewhere' /\ KnownLinks \subseteq KnownLinks'
    BY <2>1, <2>3, <2>4, WriteLinks DEF LinkInv
  <2>6. \A u \in Tasks : tasks'[u].stage = "read" => tasks'[u] = tasks[u]
    BY <2>2, Nothings
  <2>7. ReadSound'
    BY <2>4, <2>5, <2>6, ReadsStay DEF LinkInv
  <2>8. QueueSound'
    BY <2>2, Nothings DEF LinkInv, QueueSound
  <2> QED
    BY <2>5, <2>7, <2>8 DEF LinkInv
<1> QED
  BY <1>3, <1>4, <1>5

\* The writes of the page and of the clients do, too.
LEMMA ClientLinks ==
    ASSUME TypeInv, LinkInv, NEW k \in Keys, NEW e \in EntryType, NEW c, Writes(k, e, c),
           byHand \subseteq byHand', UNCHANGED <<publishing, tasks>>,
           e.doc \in {NoDoc, entries[k].doc} \cup byHand'
    PROVE  LinkInv'
<1>1. e.doc \in KnownLinks \cup KnownLinks'
  BY DEF LinkInv, LinksLeadSomewhere, KnownLinks
<1>2. LinksUnique' /\ LinksLeadSomewhere' /\ KnownLinks \subseteq KnownLinks'
  BY <1>1, WriteLinks DEF LinkInv
<1>3. ReadSound'
  BY <1>2, ReadsStay DEF LinkInv
<1>4. QueueSound'
  BY DEF LinkInv, QueueSound
<1> QED
  BY <1>2, <1>3, <1>4 DEF LinkInv

\* Every step keeps LinkInv.
LEMMA NextLinks == TypeInv /\ LinkInv /\ [Next]_vars => LinkInv'
<1> SUFFICES ASSUME TypeInv, LinkInv, [Next]_vars PROVE LinkInv'
  OBVIOUS
<1>1. ASSUME UNCHANGED <<entries, catalogue, publishing, tasks, byHand>> PROVE LinkInv'
  BY <1>1 DEF LinkInv, LinksUnique, LinksLeadSomewhere, ReadSound, QueueSound, KnownLinks
<1>2. ASSUME NEW p \in Pages, Remove(p) PROVE LinkInv'
  <2>1. PICK k \in Keys : entries' = [entries EXCEPT ![k] = Absent]
    BY <1>2, OpenPage DEF Remove
  <2>2. UNCHANGED <<catalogue, publishing, tasks, byHand>>
    BY <1>2 DEF Remove
  <2> QED
    BY <2>1, <2>2, RemoveLinks
<1>3. ASSUME NEW k \in Keys, ApiDelete(k) PROVE LinkInv'
  BY <1>3, RemoveLinks DEF ApiDelete
<1>4. ASSUME NEW p \in Pages, NEW a \in BOOLEAN, NEW o \in Outcomes, Send(p, a, o) PROVE LinkInv'
  <2>1. PICK k \in Keys, e \in EntryType, c \in {Copy(pages[p].version, pages[p].rev)} :
          Writes(k, e, c) /\ (e.doc = NoDoc \/ e.doc = entries[k].doc)
    BY <1>4, SendWrites
  <2>2. UNCHANGED <<publishing, tasks, byHand>>
    BY <1>4 DEF Send
  <2> QED
    BY <2>1, <2>2, ClientLinks
<1>5. ASSUME NEW k \in Keys, NEW g \in Gives, NEW c \in Sent, NEW o \in Outcomes,
             ApiCreate(k, g, c, o) \/ ApiPut(k, g, c, o)
      PROVE  LinkInv'
  <2>1. PICK e \in EntryType : Writes(k, e, c) /\ e.doc \in {NoDoc, entries[k].doc} \cup byHand'
    BY <1>5, ClientWrites
  <2>2. byHand \subseteq byHand'
    BY <1>5, ClientWrites
  <2>3. UNCHANGED <<publishing, tasks>>
    BY <1>5 DEF ApiCreate, ApiPut
  <2> QED
    BY <2>1, <2>2, <2>3, ClientLinks
<1>6. ASSUME NEW p \in Pages, NEW v \in Versions, LoadPage(p, v) PROVE LinkInv'
  BY <1>1, <1>6 DEF LoadPage
<1>7. CASE UNCHANGED vars
  BY <1>1, <1>7 DEF vars
<1>8. CASE \E p \in Pages, o \in Outcomes : Resync(p, o) \/ Toggle(p, o)
  BY <1>4, <1>8, Buttons
<1> QED
  BY <1>2, <1>3, <1>5, <1>6, <1>7, <1>8, PublishLinks, TaskLinks DEF Next

-----------------------------------------------------------------------------
(* A synchronised entry stands for a catalogue that is not behind           *)

\* The entry of v counts as synchronised.
Success(v) ==
  Exists(v) /\ entries[v].auto /\ entries[v].status = "SUCCESS" /\ entries[v].doc # NoDoc

\* A task on its way for v: not begun, or with what there is.
Pending(t, v) ==
  /\ tasks[t].version = v
  /\ \/ tasks[t].stage = "queued"
     \/ tasks[t].stage = "read" /\ tasks[t].entry = entries[v] /\ tasks[t].rev = rev[v]

\* The record of the catalogue is of another version, or not behind v.
UpToDate(v, d) == catalogue[d].version = v => catalogue[d].rev >= rev[v]

\* A record of the catalogue is of the version it is the record of.
CatalogueSound == \A d \in Docs, v \in Versions : catalogue[d].version = v => d = DocOf[v]

\* The entry leads to a record of the catalogue, which is not behind, or will not be.
Sound(v) ==
  /\ entries[v].doc \in Docs /\ catalogue[entries[v].doc] # Nothing
  /\ UpToDate(v, entries[v].doc) \/ \E t \in Tasks : Pending(t, v)

SuccessSound == \A v \in Versions \ excused : Success(v) => Sound(v)

QuietInv == CatalogueSound /\ SuccessSound

\* Without a task there is none on its way.
LEMMA QuietImplied == QuietInv => QuietIsCurrent
<1> SUFFICES ASSUME QuietInv, NEW v \in Versions \ excused, Success(v),
                    \A t \in Tasks : tasks[t].version # v
             PROVE  /\ entries[v].doc \in Docs /\ catalogue[entries[v].doc] # Nothing
                    /\ catalogue[entries[v].doc].version = v =>
                         catalogue[entries[v].doc].rev >= rev[v]
  BY DEF QuietIsCurrent, Success
<1> QED
  BY DEF QuietInv, SuccessSound, Sound, Pending, UpToDate

\* What a step may do to the entry of v and to the catalogue: the entry stays or is
\* no success or is linked to a record that is not behind, and the catalogue's
\* records stay or become ones that are not.
Harmless(v) ==
  /\ \A d \in Docs : \/ catalogue'[d] = catalogue[d]
                     \/ catalogue'[d] # Nothing /\ UpToDate(v, d)'
  /\ \/ entries'[v] = entries[v]
     \/ ~Success(v)'
     \/ /\ entries'[v].doc \in Docs /\ catalogue'[entries'[v].doc] # Nothing
        /\ UpToDate(v, entries[v].doc)'

\* A version that a write does not make an exception is not harmed.
LEMMA WriteHarmless ==
    ASSUME TypeInv, NEW k \in Keys, NEW e \in EntryType, NEW c \in CopyType,
           Writes(k, e, c), rev' = rev, NEW v \in Versions \ excused'
    PROVE  Harmless(v)
<1>1. c.rev \in Nat /\ rev[v] \in Nat /\ v \in Keys
  BY Revisions, KeysOf DEF CopyType
<1>2. Timely(c) /\ c.version = v => c.rev >= rev[v]
  BY <1>1 DEF Timely
<1>3. \A d \in Docs : \/ catalogue'[d] = catalogue[d]
                      \/ catalogue'[d] # Nothing /\ UpToDate(v, d)'
  BY <1>2 DEF Writes, UpToDate
<1>4. CASE entries'[v] = entries[v]
  BY <1>3, <1>4 DEF Harmless
<1>5. CASE entries'[v] # entries[v] /\ Success(v)'
  <2>1. v = k
    BY <1>1, <1>5 DEF Writes
  <2>2. Linked(k, c) /\ Timely(c)
    BY <1>5, <2>1 DEF Writes, Success
  <2>3. /\ c.version \in Versions /\ c # Nothing /\ entries'[v].doc = DocOf[c.version]
        /\ catalogue'[entries'[v].doc] = c
    BY <2>1, <2>2 DEF Linked
  <2>4. entries'[v].doc \in Docs
    BY <2>3, KeysOf
  <2>5. UpToDate(v, entries[v].doc)'
    BY <1>2, <2>2, <2>3 DEF UpToDate
  <2> QED
    BY <1>3, <2>3, <2>4, <2>5 DEF Harmless
<1> QED
  BY <1>3, <1>4, <1>5 DEF Harmless

\* The catalogue's records stay those of their versions.
LEMMA WriteCatalogue ==
    ASSUME CatalogueSound, NEW k, NEW e, NEW c, Writes(k, e, c)
    PROVE  CatalogueSound'
  BY DEF CatalogueSound, Writes

\* A harmless step keeps a version's success sound, if the revision and the tasks
\* on their way stay.
LEMMA HarmlessKeeps ==
    ASSUME SuccessSound, NEW v \in Versions \ excused', excused \subseteq excused',
           Harmless(v), rev'[v] = rev[v], Success(v)',
           \A t \in Tasks : Pending(t, v) /\ entries'[v] = entries[v] => Pending(t, v)'
    PROVE  Sound(v)'
<1>1. CASE entries'[v] = entries[v]
  <2>1. Success(v)
    BY <1>1 DEF Success, Exists
  <2>2. Sound(v)
    BY <2>1 DEF SuccessSound
  <2>3. \A t \in Tasks : Pending(t, v) => Pending(t, v)'
    BY <1>1
  <2>4. CASE catalogue'[entries[v].doc] = catalogue[entries[v].doc]
    BY <1>1, <2>2, <2>3, <2>4 DEF Sound, UpToDate
  <2>5. CASE catalogue'[entries[v].doc] # catalogue[entries[v].doc]
    <3> DEFINE d == entries[v].doc
    <3>1. d \in Docs /\ entries'[v].doc = d
      BY <1>1, <2>2 DEF Sound
    <3>2. catalogue'[d] # Nothing /\ (catalogue'[d].version = v => catalogue'[d].rev >= rev'[v])
      BY <2>5, <3>1 DEF Harmless, UpToDate
    <3> QED
      BY <3>1, <3>2 DEF Sound, UpToDate
  <2> QED
    BY <2>4, <2>5
<1>2. CASE entries'[v] # entries[v]
  BY <1>2 DEF Harmless, Sound
<1> QED
  BY <1>1, <1>2

\* A task that has read what there is settles a version linked to its record: the
\* import fails, or the catalogue has what the task has sent.
LEMMA TaskSettles ==
    ASSUME TypeInv, LinkInv, NEW t \in Tasks, NEW o \in Outcomes, TaskWrite(t, o),
           NEW v \in Versions, tasks[t].version = v, tasks[t].entry = entries[v],
           entries[v].auto, entries[v].doc = DocOf[v]
    PROVE  entries'[v].status = "FAILED" \/ catalogue'[DocOf[v]] = Copy(v, tasks[t].rev)
<1> DEFINE e == entries[v]
           c == Copy(v, tasks[t].rev)
           new == Imported(e, v, o)
<1>1. v \in Keys /\ e \in EntryType /\ v # "" /\ DocOf[v] \in Docs /\ entries \in [Keys -> EntryType]
        /\ c.version = v /\ catalogue \in [Docs -> CopyType]
  BY KeysOf DEF TypeInv, Copy
<1>2. Update(v, e, c, o)
  BY DEF TaskWrite, TaskData
<1>3. CASE Sends(e, v) /\ o # "refused" /\ o # "not called"
  <2>1. catalogue' = [catalogue EXCEPT ![DocOf[v]] = c]
    BY <1>1, <1>2, <1>3 DEF Update, CatalogueAfter
  <2> QED
    BY <1>1, <2>1
<1>4. CASE ~Sends(e, v) \/ o = "refused" \/ o = "not called"
  <2>1. new = [e EXCEPT !.status = "FAILED"]
    BY <1>1, <1>4 DEF Imported
  <2>2. new.doc = e.doc /\ new.status = "FAILED"
    BY <1>1, <2>1 DEF EntryType
  <2>3. ~Garbled(e, v, o)
    BY <1>4 DEF Garbled
  <2>4. ~Conflicts(v, new)
    BY <1>1, <2>2 DEF Conflicts, LinkInv, LinksUnique
  <2>5. Updates(v, e, c.version, o)
    BY <1>1, <2>3, <2>4 DEF Updates, Saves
  <2>6. entries' = [entries EXCEPT ![v] = new]
    BY <1>1, <1>2, <2>5 DEF Update
  <2> QED
    BY <1>1, <2>2, <2>6
<1> QED
  BY <1>3, <1>4

\* A publication leaves no success that is false.
LEMMA PublishQuiet ==
    ASSUME TypeInv, LinkInv, QuietInv, NEW v \in Versions,
           \/ PublishRead(v) \/ PublishCommit(v) \/ PublishPlain(v) \/ PublishFails(v)
           \/ \E o \in Outcomes : PublishImport(v, o)
    PROVE  QuietInv'
<1>1. ASSUME UNCHANGED catalogue, SuccessSound' PROVE QuietInv'
  BY <1>1 DEF QuietInv, CatalogueSound
<1>2. CASE PublishRead(v) \/ PublishFails(v)
  <2>1. UNCHANGED <<rev, entries, catalogue, tasks, excused>>
    BY <1>2 DEF PublishRead, PublishFails
  <2> QED
    BY <1>1, <2>1 DEF QuietInv, SuccessSound, Sound, Success, Exists, Pending, UpToDate
<1>3. ASSUME rev' = [rev EXCEPT ![v] = @ + 1], UNCHANGED <<entries, catalogue>>,
             excused \subseteq excused',
             Exists(v) => v \in excused' \/ \E t \in Tasks : Pending(t, v)',
             \A t \in Tasks, w \in Versions : w # v /\ Pending(t, w) => tasks'[t] = tasks[t]
      PROVE  QuietInv'
  <2> SUFFICES ASSUME NEW w \in Versions \ excused', Success(w)'
               PROVE  Sound(w)'
    BY <1>1, <1>3 DEF SuccessSound
  <2>1. CASE w # v
    <3>1. rev'[w] = rev[w] /\ Harmless(w)
      BY <1>3, <2>1 DEF TypeInv, Harmless
    <3>2. \A t \in Tasks : Pending(t, w) /\ entries'[w] = entries[w] => Pending(t, w)'
      BY <1>3, <2>1, <3>1 DEF Pending
    <3> QED
      BY <1>3, <3>1, <3>2, HarmlessKeeps DEF QuietInv
  <2>2. CASE w = v
    BY <1>3, <2>2 DEF Success, Exists, QuietInv, SuccessSound, Sound
  <2> QED
    BY <2>1, <2>2
<1>4. CASE PublishPlain(v)
  <2>1. /\ rev' = [rev EXCEPT ![v] = @ + 1] /\ UNCHANGED <<entries, catalogue, tasks>>
        /\ excused \subseteq excused' /\ (Exists(v) => v \in excused')
    BY <1>4 DEF PublishPlain
  <2> QED
    BY <1>3, <2>1
<1>5. CASE PublishCommit(v)
  <2>1. PICK t \in Tasks : tasks[t] = Idle /\
            tasks' = [tasks EXCEPT ![t] = [Idle EXCEPT !.stage = "queued", !.version = v]]
    BY <1>5 DEF PublishCommit
  <2>2. /\ tasks'[t].version = v /\ tasks'[t].stage = "queued"
        /\ \A u \in Tasks \ {t} : tasks'[u] = tasks[u]
    BY <2>1 DEF TypeInv, Idle
  <2>3. Pending(t, v)'
    BY <2>2 DEF Pending
  <2>4. \A w \in Versions : ~Pending(t, w)
    BY <2>1, KeysOf, Nothings DEF Pending
  <2>5. /\ rev' = [rev EXCEPT ![v] = @ + 1] /\ UNCHANGED <<entries, catalogue, excused>>
    BY <1>5 DEF PublishCommit
  <2>6. \A u \in Tasks, w \in Versions : w # v /\ Pending(u, w) => tasks'[u] = tasks[u]
    BY <2>2, <2>4
  <2> QED
    BY <1>3, <2>3, <2>5, <2>6
<1>6. ASSUME NEW o \in Outcomes, PublishImport(v, o) PROVE QuietInv'
  <2>1. PICK e \in EntryType, c \in {Copy(v, rev[v] + 1)} : Writes(v, e, c)
    BY <1>6, HookWrites
  <2>2. v \in Keys /\ c \in CopyType
    BY Revisions, Copies, KeysOf
  <2>3. rev' = rev /\ tasks' = tasks /\ excused \subseteq excused'
    BY <1>6, <2>1 DEF PublishImport, Writes
  <2>4. CatalogueSound'
    BY <2>1, WriteCatalogue DEF QuietInv
  <2>5. ASSUME NEW w \in Versions \ excused', Success(w)'
        PROVE  Sound(w)'
    <3>1. Harmless(w)
      BY <2>1, <2>2, <2>3, WriteHarmless
    <3>2. \A t \in Tasks : Pending(t, w) /\ entries'[w] = entries[w] => Pending(t, w)'
      BY <2>3 DEF Pending
    <3> QED
      BY <2>3, <2>5, <3>1, <3>2, HarmlessKeeps DEF QuietInv
  <2> QED
    BY <2>4, <2>5 DEF QuietInv, SuccessSound
<1> QED
  BY <1>2, <1>4, <1>5, <1>6

\* Nor does a task, which may send an older revision and fail to write.
LEMMA TaskQuiet ==
    ASSUME TypeInv, LinkInv, QuietInv, NEW t \in Tasks,
           TaskSkip(t) \/ TaskRead(t) \/ \E o \in Outcomes : TaskWrite(t, o)
    PROVE  QuietInv'
<1>1. CASE TaskSkip(t)
  <2>1. /\ UNCHANGED <<rev, entries, catalogue, excused>>
        /\ ~(Exists(tasks[t].version) /\ entries[tasks[t].version].auto)
        /\ tasks[t].stage = "queued" /\ \A u \in Tasks \ {t} : tasks'[u] = tasks[u]
    BY <1>1 DEF TaskSkip, TypeInv
  <2>2. CatalogueSound'
    BY <2>1 DEF QuietInv, CatalogueSound
  <2>3. ASSUME NEW w \in Versions \ excused', Success(w)' PROVE Sound(w)'
    <3>1. Success(w) /\ Sound(w)
      BY <2>1, <2>3 DEF Success, Exists, QuietInv, SuccessSound
    <3>2. tasks[t].version # w
      BY <2>1, <3>1 DEF Success
    <3>3. \A u \in Tasks : Pending(u, w) => Pending(u, w)'
      BY <2>1, <3>2 DEF Pending
    <3> QED
      BY <2>1, <3>1, <3>3 DEF Sound, UpToDate
  <2> QED
    BY <2>2, <2>3 DEF QuietInv, SuccessSound
<1>2. CASE TaskRead(t)
  <2> DEFINE v == tasks[t].version
  <2>1. /\ UNCHANGED <<rev, entries, catalogue, excused>> /\ tasks[t].stage = "queued"
        /\ tasks' = [tasks EXCEPT ![t] = [stage |-> "read", version |-> v, rev |-> rev[v],
                                          entry |-> entries[v]]]
    BY <1>2 DEF TaskRead
  <2>2. /\ tasks'[t].version = v /\ tasks'[t].stage = "read" /\ tasks'[t].rev = rev'[v]
        /\ tasks'[t].entry = entries'[v] /\ \A u \in Tasks \ {t} : tasks'[u] = tasks[u]
    BY <2>1 DEF TypeInv
  <2>3. CatalogueSound'
    BY <2>1 DEF QuietInv, CatalogueSound
  <2>4. ASSUME NEW w \in Versions \ excused', Success(w)' PROVE Sound(w)'
    <3>1. Sound(w)
      BY <2>1, <2>4 DEF Success, Exists, QuietInv, SuccessSound
    <3>2. \A u \in Tasks : Pending(u, w) => Pending(u, w)'
      BY <2>1, <2>2 DEF Pending
    <3> QED
      BY <2>1, <3>1, <3>2 DEF Sound, UpToDate
  <2> QED
    BY <2>3, <2>4 DEF QuietInv, SuccessSound
<1>3. ASSUME NEW o \in Outcomes, TaskWrite(t, o) PROVE QuietInv'
  <2>1. PICK v \in Versions, e \in EntryType, c \in {Copy(tasks[t].version, tasks[t].rev)} :
          v = tasks[t].version /\ e = tasks[t].entry /\ Writes(v, e, c)
    BY <1>3, TaskWrites
  <2>2. /\ tasks[t].stage = "read" /\ \A u \in Tasks \ {t} : tasks'[u] = tasks[u]
    BY <1>3, TaskWrites
  <2>3. rev' = rev /\ excused \subseteq excused'
    BY <1>3, <2>1 DEF TaskWrite, Writes
  <2>4. CatalogueSound'
    BY <2>1, WriteCatalogue DEF QuietInv
  <2>5. v \in Keys /\ tasks[t].rev \in Nat /\ c \in CopyType /\ c = Copy(v, tasks[t].rev)
    <3>1. tasks[t].rev \in Nat
      BY DEF TypeInv, TaskType
    <3> QED
      BY <2>1, <3>1, KeysOf, Copies
  <2>6. ASSUME NEW w \in Versions \ excused', Success(w)' PROVE Sound(w)'
    <3>1. Harmless(w)
      BY <2>1, <2>3, <2>5, WriteHarmless
    <3>2. CASE ~Pending(t, w)
      <4>1. \A u \in Tasks : Pending(u, w) /\ entries'[w] = entries[w] => Pending(u, w)'
        BY <2>2, <2>3, <3>2 DEF Pending
      <4> QED
        BY <2>3, <2>6, <3>1, <4>1, HarmlessKeeps DEF QuietInv
    <3>3. CASE Pending(t, w) /\ entries'[w] # entries[w]
      BY <2>6, <3>1, <3>3 DEF Harmless, Sound
    <3>4. CASE Pending(t, w) /\ entries'[w] = entries[w]
      <4>1. tasks[t].entry = entries[w] /\ tasks[t].rev = rev[w] /\ w = v
        BY <2>1, <2>2, <3>4 DEF Pending
      <4>2. Success(w) /\ Sound(w)
        BY <2>3, <2>6, <3>4 DEF Success, Exists, QuietInv, SuccessSound
      <4> DEFINE d == entries[w].doc
      <4>3. d \in Docs /\ catalogue'[d] # Nothing
        BY <3>1, <4>2 DEF Harmless, Sound
      <4>4. UpToDate(w, entries[w].doc)'
        <5>1. CASE d # DocOf[w]
          BY <2>4, <3>4, <4>3, <5>1 DEF CatalogueSound, UpToDate
        <5>2. CASE d = DocOf[w]
          <6>1. entries'[w].status = "FAILED" \/ catalogue'[DocOf[w]] = Copy(w, tasks[t].rev)
            BY <1>3, <2>1, <4>1, <4>2, <5>2, TaskSettles DEF Success
          <6>2. catalogue'[d] = Copy(w, rev[w])
            BY <2>6, <4>1, <5>2, <6>1 DEF Success
          <6>3. catalogue'[d].rev = rev[w] /\ rev[w] \in Nat
            BY <6>2, Revisions DEF Copy
          <6> QED
            BY <2>3, <3>4, <6>3 DEF UpToDate
        <5> QED
          BY <5>1, <5>2
      <4> QED
        BY <3>4, <4>3, <4>4 DEF Sound
    <3> QED
      BY <3>2, <3>3, <3>4
  <2> QED
    BY <2>4, <2>6 DEF QuietInv, SuccessSound
<1> QED
  BY <1>1, <1>2, <1>3

\* Nor does the page or a client.
LEMMA ClientQuiet ==
    ASSUME TypeInv, QuietInv, NEW k \in Keys, NEW e \in EntryType, NEW c \in CopyType,
           Writes(k, e, c), UNCHANGED <<rev, tasks>>
    PROVE  QuietInv'
<1>1. CatalogueSound'
  BY WriteCatalogue DEF QuietInv
<1>2. ASSUME NEW w \in Versions \ excused', Success(w)' PROVE Sound(w)'
  <2>1. Harmless(w)
    BY WriteHarmless
  <2>2. \A t \in Tasks : Pending(t, w) /\ entries'[w] = entries[w] => Pending(t, w)'
    BY DEF Pending
  <2>3. excused \subseteq excused'
    BY DEF Writes
  <2> QED
    BY <1>2, <2>1, <2>2, <2>3, HarmlessKeeps DEF QuietInv
<1> QED
  BY <1>1, <1>2 DEF QuietInv, SuccessSound

\* An entry that is taken away is no success.
LEMMA RemoveQuiet ==
    ASSUME TypeInv, QuietInv, NEW k \in Keys, entries' = [entries EXCEPT ![k] = Absent],
           UNCHANGED <<rev, catalogue, tasks, excused>>
    PROVE  QuietInv'
<1>1. ASSUME NEW w \in Versions \ excused', Success(w)' PROVE Sound(w)'
  <2>1. entries'[w] = entries[w]
    BY <1>1, Nothings, KeysOf DEF TypeInv, Success, Exists
  <2> QED
    BY <1>1, <2>1 DEF QuietInv, SuccessSound, Success, Exists, Sound, Pending, UpToDate
<1> QED
  BY <1>1 DEF QuietInv, SuccessSound, CatalogueSound

\* No step does.
LEMMA NextQuiet == TypeInv /\ LinkInv /\ QuietInv /\ [Next]_vars => QuietInv'
<1> SUFFICES ASSUME TypeInv, LinkInv, QuietInv, [Next]_vars PROVE QuietInv'
  OBVIOUS
<1>1. ASSUME UNCHANGED <<rev, entries, catalogue, tasks, excused>> PROVE QuietInv'
  BY <1>1 DEF QuietInv, CatalogueSound, SuccessSound, Sound, Success, Exists, Pending, UpToDate
<1>2. ASSUME NEW p \in Pages, Remove(p) PROVE QuietInv'
  <2>1. PICK k \in Keys : entries' = [entries EXCEPT ![k] = Absent]
    BY <1>2, OpenPage DEF Remove
  <2> QED
    BY <1>2, <2>1, RemoveQuiet DEF Remove
<1>3. ASSUME NEW k \in Keys, ApiDelete(k) PROVE QuietInv'
  BY <1>3, RemoveQuiet DEF ApiDelete
<1>4. ASSUME NEW p \in Pages, NEW a \in BOOLEAN, NEW o \in Outcomes, Send(p, a, o) PROVE QuietInv'
  <2>1. PICK k \in Keys, e \in EntryType, c \in {Copy(pages[p].version, pages[p].rev)} : Writes(k, e, c)
    BY <1>4, SendWrites
  <2>2. c \in CopyType
    BY <1>4, OpenPage DEF Send
  <2>3. UNCHANGED <<rev, tasks>>
    BY <1>4 DEF Send
  <2> QED
    BY <2>1, <2>2, <2>3, ClientQuiet
<1>5. ASSUME NEW k \in Keys, NEW g \in Gives, NEW c \in Sent, NEW o \in Outcomes,
             ApiCreate(k, g, c, o) \/ ApiPut(k, g, c, o)
      PROVE  QuietInv'
  <2>1. c \in CopyType /\ \E e \in EntryType : Writes(k, e, c)
    BY <1>5, ClientWrites
  <2>2. UNCHANGED <<rev, tasks>>
    BY <1>5 DEF ApiCreate, ApiPut
  <2> QED
    BY <2>1, <2>2, ClientQuiet
<1>6. ASSUME NEW p \in Pages, NEW v \in Versions, LoadPage(p, v) PROVE QuietInv'
  BY <1>1, <1>6 DEF LoadPage
<1>7. CASE UNCHANGED vars
  BY <1>1, <1>7 DEF vars
<1>8. CASE \E p \in Pages, o \in Outcomes : Resync(p, o) \/ Toggle(p, o)
  BY <1>4, <1>8, Buttons
<1> QED
  BY <1>2, <1>3, <1>5, <1>6, <1>7, <1>8, PublishQuiet, TaskQuiet DEF Next

-----------------------------------------------------------------------------
(* Links stay                                                              *)

\* An import has put the entry of k under the record of a version of k's.
Relinked(k) ==
  \E v \in Versions : /\ k \in {v, ParentOf[v]} /\ entries'[k].doc = DocOf[v]
                      /\ entries'[k].status = "SUCCESS"

\* A task, or a publication, writes the link it read when it was another one.
StaleTask(k) ==
  \E t \in Tasks : /\ tasks[t].stage = "read" /\ tasks'[t] = Idle
                   /\ tasks[t].version = k
                   /\ tasks[t].entry.doc # entries[k].doc

StalePublication(k) ==
  \E v \in Versions : /\ publishing[v].stage = "read" /\ v = k
                      /\ publishing'[v].stage = "marked"
                      /\ publishing[v].entry.doc # entries[k].doc

ClientPut(k) == \E g \in Gives, c \in Sent, o \in Outcomes : ApiPut(k, g, c, o)

LinkStep(k) ==
  (Exists(k) /\ entries'[k].id = entries[k].id /\ entries[k].doc # NoDoc)
    => \/ entries'[k].doc = entries[k].doc
       \/ Relinked(k) \/ StaleTask(k) \/ StalePublication(k) \/ ClientPut(k)

\* The publish hook.
LEMMA PublishLinkStep ==
    ASSUME TypeInv, NEW v \in Versions, NEW o \in Outcomes, PublishImport(v, o), NEW k \in Keys
    PROVE  LinkStep(k)
<1>1. PICK e \in EntryType, c \in {Copy(v, rev[v] + 1)} :
        e.doc = publishing[v].entry.doc /\ Writes(v, e, c)
  BY HookWrites
<1>2. publishing[v].stage = "read" /\ (entries'[v] # entries[v] => publishing'[v].stage = "marked")
  BY HookWrites
<1>3. c.version = v
  BY <1>1 DEF Copy
<1>4. \/ entries'[k] = entries[k]
      \/ k = v /\ entries'[v] # entries[v] /\ (entries'[v].doc = e.doc \/ Linked(v, c))
  BY <1>1 DEF Writes
<1>5. Linked(v, c) => Relinked(v)
  BY <1>3 DEF Linked, Relinked
<1>6. entries'[v] # entries[v] /\ entries'[v].doc = e.doc
        => entries'[v].doc = entries[v].doc \/ StalePublication(v)
  BY <1>1, <1>2 DEF StalePublication
<1> QED
  BY <1>4, <1>5, <1>6 DEF LinkStep

\* The task.
LEMMA TaskLinkStep ==
    ASSUME TypeInv, LinkInv, NEW t \in Tasks, NEW o \in Outcomes, TaskWrite(t, o), NEW k \in Keys
    PROVE  LinkStep(k)
<1>1. PICK v \in Versions, e \in EntryType, c \in {Copy(tasks[t].version, tasks[t].rev)} :
        v = tasks[t].version /\ e = tasks[t].entry /\ Writes(v, e, c)
  BY TaskWrites
<1>2. tasks[t].stage = "read" /\ tasks'[t] = Idle
  BY TaskWrites
<1>3. c.version = v
  BY <1>1 DEF Copy
<1>4. entries'[k] = entries[k] \/ (k = v /\ (entries'[v].doc = e.doc \/ Linked(v, c)))
  BY <1>1 DEF Writes
<1>5. Linked(v, c) => Relinked(v)
  BY <1>3 DEF Linked, Relinked
<1>6. entries'[v].doc = e.doc => entries'[v].doc = entries[v].doc \/ StaleTask(v)
  BY <1>1, <1>2 DEF StaleTask
<1> QED
  BY <1>4, <1>5, <1>6 DEF LinkStep

\* The page.
LEMMA PageLinkStep ==
    ASSUME TypeInv, NEW p \in Pages, NEW a \in BOOLEAN, NEW o \in Outcomes, Send(p, a, o),
           NEW k \in Keys
    PROVE  LinkStep(k)
<1>1. PICK v \in Versions, j \in Keys, e \in EntryType, c \in {Copy(pages[p].version, pages[p].rev)} :
        /\ v = pages[p].version /\ j = ParentOf[v] /\ Writes(j, e, c)
        /\ e.doc = entries[j].doc \/ (Exists(j) => entries'[j] = entries[j])
  BY SendWrites
<1>2. c.version = v
  BY <1>1 DEF Copy
<1>3. entries'[k] = entries[k] \/ (k = j /\ (entries'[j].doc = e.doc \/ Linked(j, c)))
  BY <1>1 DEF Writes
<1>4. Linked(j, c) => Relinked(j)
  BY <1>1, <1>2 DEF Linked, Relinked
<1>5. entries'[j].doc = e.doc /\ Exists(j) => entries'[j].doc = entries[j].doc
  BY <1>1
<1> QED
  BY <1>3, <1>4, <1>5 DEF LinkStep

\* Every step.
LEMMA NextLinkStep ==
    ASSUME TypeInv, LinkInv, [Next]_vars, NEW k \in Keys
    PROVE  LinkStep(k)
<1>1. CASE UNCHANGED entries
  BY <1>1 DEF LinkStep
<1>2. ASSUME NEW j \in Keys, entries' = [entries EXCEPT ![j] = Absent] PROVE LinkStep(k)
  <2>1. entries'[k] = entries[k] \/ entries'[k].id = 0
    BY <1>2, Nothings DEF TypeInv
  <2> QED
    BY <2>1 DEF LinkStep, Exists
<1>3. ASSUME NEW p \in Pages, Remove(p) PROVE LinkStep(k)
  BY <1>2, <1>3, OpenPage DEF Remove
<1>4. ASSUME NEW j \in Keys, ApiDelete(j) PROVE LinkStep(k)
  BY <1>2, <1>4 DEF ApiDelete
<1>5. ASSUME NEW j \in Keys, NEW g \in Gives, NEW c \in Sent, NEW o \in Outcomes,
             ApiCreate(j, g, c, o) \/ ApiPut(j, g, c, o)
      PROVE  LinkStep(k)
  <2>1. /\ \E e \in EntryType : Writes(j, e, c)
        /\ Exists(j) => entries'[j] = entries[j] \/ ApiPut(j, g, c, o)
    BY <1>5, ClientWrites
  <2>2. k # j => entries'[k] = entries[k]
    BY <2>1 DEF Writes
  <2> QED
    BY <2>1, <2>2 DEF LinkStep, ClientPut
<1>6. CASE \E p \in Pages, o \in Outcomes : Resync(p, o) \/ Toggle(p, o)
  BY <1>6, Buttons, PageLinkStep
<1>7. ASSUME NEW v \in Versions,
             \/ PublishRead(v) \/ PublishPlain(v) \/ PublishCommit(v) \/ PublishFails(v)
             \/ \E p \in Pages : LoadPage(p, v)
      PROVE  LinkStep(k)
  BY <1>1, <1>7 DEF PublishRead, PublishPlain, PublishCommit, PublishFails, LoadPage
<1>8. ASSUME NEW t \in Tasks, TaskSkip(t) \/ TaskRead(t) PROVE LinkStep(k)
  BY <1>1, <1>8 DEF TaskSkip, TaskRead
<1>9. CASE UNCHANGED vars
  BY <1>1, <1>9 DEF vars
<1> QED
  BY <1>3, <1>4, <1>5, <1>6, <1>7, <1>8, <1>9, PublishLinkStep, TaskLinkStep DEF Next

-----------------------------------------------------------------------------
(* Theorems                                                                *)

\* The state is well-formed, two entries never share a link, and the copies that
\* tasks and publications have read have links that entries may have.
THEOREM LinksSound == Spec => [](TypeInv /\ LinkInv)
<1>1. Init => TypeInv /\ LinkInv
  BY InitType, InitLinks
<1>2. TypeInv /\ LinkInv /\ [Next]_vars => (TypeInv /\ LinkInv)'
  BY NextType, NextLinks
<1> QED
  BY <1>1, <1>2, PTL DEF Spec

\* A link leads to a record that the catalogue has imported or was written by a
\* client, however stale the copies of entries that are written back.
THEOREM LinksLead == Spec => []LinksLeadSomewhere
<1>1. TypeInv /\ LinkInv => LinksLeadSomewhere
  BY DEF LinkInv
<1> QED
  BY <1>1, LinksSound, PTL

\* A status of success is true, whatever is refused, lost, rolled back or done
\* twice: the catalogue is not behind the published record, but for the exceptions
\* that the property names.
THEOREM SuccessIsTrue == Spec => []QuietIsCurrent
<1>1. Init => QuietInv
  <2> SUFFICES ASSUME Init PROVE QuietInv
    OBVIOUS
  <2>1. \A k \in Keys : ~(entries[k].id # 0)
    BY Nothings DEF Init
  <2>2. SuccessSound
    BY <2>1, KeysOf DEF SuccessSound, Success, Exists
  <2>3. CatalogueSound
    BY Nothings, KeysOf DEF Init, CatalogueSound
  <2> QED
    BY <2>2, <2>3 DEF QuietInv
<1>2. TypeInv /\ LinkInv /\ QuietInv /\ [Next]_vars => QuietInv'
  BY NextQuiet
<1>3. QuietInv => QuietIsCurrent
  BY QuietImplied
<1> QED
  BY <1>1, <1>2, <1>3, LinksSound, PTL DEF Spec

\* An entry keeps its link for as long as it exists, but for an import under
\* another one, a client that writes it, and a task or a publication that read the
\* entry when its link was another one.
THEOREM LinksKept == Spec => LinkLostOnlyToStaleWrite
<1>1. TypeInv /\ LinkInv /\ [Next]_vars =>
        [\A k \in Keys :
           (Exists(k) /\ entries'[k].id = entries[k].id /\ entries[k].doc # NoDoc)
             => \/ entries'[k].doc = entries[k].doc
                \/ \E v \in Versions : /\ k \in {v, ParentOf[v]} /\ entries'[k].doc = DocOf[v]
                                       /\ entries'[k].status = "SUCCESS"
                \/ \E t \in Tasks : /\ tasks[t].stage = "read" /\ tasks'[t] = Idle
                                    /\ tasks[t].version = k
                                    /\ tasks[t].entry.doc # entries[k].doc
                \/ \E v \in Versions : /\ publishing[v].stage = "read" /\ v = k
                                       /\ publishing'[v].stage = "marked"
                                       /\ publishing[v].entry.doc # entries[k].doc
                \/ \E g \in Gives, c \in Sent, o \in Outcomes : ApiPut(k, g, c, o)]_vars
  BY NextLinkStep DEF LinkStep, Relinked, StaleTask, StalePublication, ClientPut
<1> QED
  BY <1>1, LinksSound, PTL DEF Spec, LinkLostOnlyToStaleWrite

================================================================================
