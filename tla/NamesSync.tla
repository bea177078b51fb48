------------------------------- MODULE NamesSync -------------------------------
(***************************************************************************)
(* Users of CERN in the names vocabulary.  A user has a name under the     *)
(* person id, a researcher has one under the ORCID, which the harvest of   *)
(* ORCID creates.  A job brings the profiles that changed since its last   *)
(* run into the vocabulary, and unlists the name of the person id for the  *)
(* one of the ORCID; another job merges the two where the ORCID came       *)
(* later.  Both write back whole names they read before, the merge from a  *)
(* search index that lags behind, and neither looks twice at what changed. *)
(*                                                                         *)
(* Data: dept stands for the props and the email that a name takes from    *)
(* the profile, 0 for none.  Affiliations, which are only ever appended,   *)
(* and given and family names are left out.                                *)
(***************************************************************************)
EXTENDS Naturals, FiniteSets, SequencesExt

CONSTANTS
  Users,      \* person ids of the users
  Orcids,
  NoOrcid,    \* a profile without an ORCID
  Depts,      \* departments of a profile
  MaxEdits,   \* bound: changes of profiles
  MaxLost     \* bound: runs of a job that are lost

ASSUME NamesBounds == MaxEdits \in Nat /\ MaxLost \in Nat

\* Person ids are numbers and ORCIDs are not; the empty string is neither.
ASSUME NamesIds == /\ Users \cap Orcids = {}
                   /\ NoOrcid \notin Orcids
                   /\ "" \notin Users \cup Orcids

VARIABLES
  profile,    \* user -> ORCID and department
  recent,     \* users changed since the last run of the synchronisation
  names,      \* person id or ORCID -> name
  indexed,    \* the names as the search index has them
  written,    \* names written since the last run of the merge
  visible,    \* those of them that the index shows
  sync,       \* the run of the synchronisation
  merge,      \* the run of the merge
  edits, losses,
  given,      \* history: user -> ORCIDs the profile ever had
  stale,      \* history: names the merge overwrote with an older copy
  lost        \* history: users and names of lost runs, and refused names

vars == <<profile, recent, names, indexed, written, visible, sync, merge,
          edits, losses, given, stale, lost>>

Ids == Users \cup Orcids
NoName == [orcids |-> <<>>, dept |-> 0, cern |-> FALSE, listed |-> FALSE]
Exists(i) == names[i] # NoName

NoSync == [queue |-> {}, user |-> "", profile |-> <<>>, cern |-> NoName, orcid |-> NoName]
NoMerge == [queue |-> {}, dest |-> "", todo |-> {}, done |-> {}, copies |-> <<>>]

Init ==
  /\ profile \in [Users -> [orcid : Orcids \cup {NoOrcid}, dept : Depts]]
  /\ recent = Users
  /\ names = [i \in Ids |-> NoName]
  /\ indexed = names
  /\ written = {} /\ visible = {}
  /\ sync = NoSync /\ merge = NoMerge
  /\ edits = 0 /\ losses = 0
  /\ given = [u \in Users |-> {profile[u].orcid} \ {NoOrcid}]
  /\ stale = {} /\ lost = {}

(***************************************************************************)
(* Names                                                                   *)
(***************************************************************************)
WithOrcid(ids, orcid) ==
  IF orcid = NoOrcid \/ orcid \in ToSet(ids) THEN ids ELSE Append(ids, orcid)

NewName(p, unlist) ==
  [orcids |-> WithOrcid(<<>>, p.orcid), dept |-> p.dept, cern |-> TRUE, listed |-> ~unlist]

\* Mutant: the department is only filled in.
FaultyUpdated(n, p, unlist) ==
  [n EXCEPT !.orcids = WithOrcid(@, p.orcid), !.dept = IF @ = 0 THEN p.dept ELSE @,
            !.cern = TRUE, !.listed = @ /\ ~unlist]

\* An ORCID is added, the rest taken over unless the profile has nothing there;
\* a name is never listed again.
Updated(n, p, unlist) ==
  [n EXCEPT !.orcids = WithOrcid(@, p.orcid), !.dept = IF p.dept # 0 THEN p.dept ELSE @,
            !.cern = TRUE, !.listed = @ /\ ~unlist]

\* The ORCIDs with those of more that are not among them, in their order.
Joined(orcids, more) ==
  LET upTo[k \in 0 .. Len(more)] == IF k = 0 THEN orcids ELSE WithOrcid(upTo[k - 1], more[k])
  IN upTo[Len(more)]

\* Identifiers are added and what is missing is filled in.
MergedInto(dest, source) ==
  [dest EXCEPT !.orcids = Joined(@, source.orcids),
               !.dept = IF @ = 0 THEN source.dept ELSE @,
               !.cern = @ \/ source.cern]

\* The names are replaced by the given ones.
Put(new) ==
  LET changed == {i \in DOMAIN new : new[i] # names[i]} IN
  /\ names' = [i \in Ids |-> IF i \in changed THEN new[i] ELSE names[i]]
  /\ written' = written \cup changed
  /\ UNCHANGED visible

Only(i, n) == [j \in {i} |-> n]

(***************************************************************************)
(* The environment                                                         *)
(***************************************************************************)
Edit(u, p) ==
  /\ edits < MaxEdits /\ p # profile[u]
  /\ edits' = edits + 1
  /\ profile' = [profile EXCEPT ![u] = p]
  /\ recent' = recent \cup {u}
  /\ given' = [given EXCEPT ![u] = @ \cup ({p.orcid} \ {NoOrcid})]
  /\ UNCHANGED <<names, indexed, written, visible, sync, merge, losses, stale, lost>>

\* ORCID knows nothing of props and tags, and its identifiers replace ours.
HarvestOrcid(o) ==
  LET new == IF Exists(o) THEN [names[o] EXCEPT !.orcids = <<o>>]
             ELSE [NoName EXCEPT !.orcids = <<o>>, !.listed = TRUE]
  IN
  /\ new # names[o]
  /\ Put(Only(o, new))
  /\ UNCHANGED <<profile, recent, indexed, sync, merge, edits, losses, given, stale, lost>>

Refresh(i) ==
  /\ indexed[i] # names[i] \/ i \in written \ visible
  /\ indexed' = [indexed EXCEPT ![i] = names[i]]
  /\ visible' = visible \cup ({i} \cap written)
  /\ UNCHANGED <<profile, recent, names, written, sync, merge, edits, losses, given, stale, lost>>

(***************************************************************************)
(* Synchronisation of profiles                                             *)
(***************************************************************************)
SyncStart ==
  /\ sync = NoSync /\ recent # {}
  /\ sync' = [NoSync EXCEPT !.queue = recent]
  /\ recent' = {}
  /\ UNCHANGED <<profile, names, indexed, written, visible, merge, edits, losses, given,
                 stale, lost>>

SyncRead(u) ==
  /\ u \in sync.queue /\ sync.user = ""
  /\ sync' = [sync EXCEPT !.user = u, !.profile = profile[u], !.cern = names[u],
                          !.orcid = IF profile[u].orcid = NoOrcid THEN NoName
                                    ELSE names[profile[u].orcid]]
  /\ UNCHANGED <<profile, recent, names, indexed, written, visible, merge, edits, losses,
                 given, stale, lost>>

\* Mutant: the name of the person id is updated like the other one.
FaultyUnlists == FALSE

\* Mutant: an ORCID in the profile is enough.
FaultyUnlistsEarly == sync.profile.orcid # NoOrcid

\* The name of the ORCID is preferred to the one of the person id.
Unlists == sync.orcid # NoName

\* The name of the person id: updated, or created.
OwnName == IF sync.cern = NoName THEN NewName(sync.profile, Unlists)
           ELSE Updated(sync.cern, sync.profile, Unlists)

\* Names that need no change are not written; the two of a user with an ORCID
\* are written in one transaction.  A name the service refuses as not valid is
\* logged and left as it is, and the run goes on.
SyncWrite(refused) ==
  LET u       == sync.user
      o       == sync.profile.orcid
      theirs  == Updated(sync.orcid, sync.profile, FALSE)
      changed == {i \in {u, o} : IF i = u THEN OwnName # sync.cern
                                ELSE sync.orcid # NoName /\ theirs # sync.orcid}
  IN
  /\ u # ""
  /\ refused \subseteq changed
  /\ Put([i \in changed \ refused |-> IF i = u THEN OwnName ELSE theirs])
  /\ stale' = IF u \in changed \ refused \/ names[u] = sync.cern THEN stale \ {u} ELSE stale
  /\ lost' = (lost \ {u}) \cup refused
  /\ sync' = [NoSync EXCEPT !.queue = sync.queue \ {u}]
  /\ UNCHANGED <<profile, recent, indexed, merge, edits, losses, given>>

\* An exception that is not expected, or a lost worker, ends the whole run.
SyncFails ==
  /\ sync # NoSync /\ losses < MaxLost
  /\ losses' = losses + 1
  /\ lost' = lost \cup sync.queue
  /\ sync' = NoSync
  /\ UNCHANGED <<profile, recent, names, indexed, written, visible, merge, edits, given, stale>>

(***************************************************************************)
(* Merging duplicates                                                      *)
(***************************************************************************)
\* Mutant: the filter on the tag is not negated.
FaultyCandidates ==
  {i \in visible : indexed[i].cern /\ ~indexed[i].listed /\ indexed[i].orcids # <<>>}

Candidates == {i \in visible : indexed[i].cern /\ indexed[i].listed /\ indexed[i].orcids # <<>>}

MergeScan ==
  /\ merge = NoMerge /\ written # {}
  /\ merge' = [NoMerge EXCEPT !.queue = Candidates]
  /\ written' = {} /\ visible' = {}
  /\ UNCHANGED <<profile, recent, names, indexed, sync, edits, losses, given, stale, lost>>

Sharing(o) == {i \in Ids : o \in ToSet(indexed[i].orcids)}

\* The first ORCID of a name finds the names that have it, as the index shows
\* them; they are merged if the name of that ORCID is among them.
MergeResolve(i) ==
  LET o      == Head(indexed[i].orcids)
      others == IF o \in Sharing(o) THEN Sharing(o) \ {o} ELSE {}
      rest   == [NoMerge EXCEPT !.queue = merge.queue \ {i}]
  IN
  /\ i \in merge.queue /\ merge.todo = {}
  /\ merge' = IF others = {} THEN rest
              ELSE [rest EXCEPT !.dest = o, !.todo = others, !.copies = indexed]
  /\ UNCHANGED <<profile, recent, names, indexed, written, visible, sync, edits, losses,
                 given, stale, lost>>

\* The merged name is unlisted first, in a transaction of its own.
MergeSource(i) ==
  LET copy == merge.copies[i] IN
  /\ i \in merge.todo \ merge.done
  /\ merge.done = {}
  /\ IF copy.listed THEN /\ Put(Only(i, [copy EXCEPT !.listed = FALSE]))
                         /\ stale' = stale \cup (IF names[i] # copy THEN {i} ELSE {})
     ELSE UNCHANGED <<names, written, visible, stale>>
  /\ merge' = [merge EXCEPT !.done = {i}]
  /\ UNCHANGED <<profile, recent, indexed, sync, edits, losses, given, lost>>

MergeDest(i) ==
  LET o    == merge.dest
      copy == merge.copies[o]
      new  == MergedInto(copy, merge.copies[i])
  IN
  /\ merge.done = {i}
  /\ IF new # copy THEN Put(Only(o, new)) ELSE UNCHANGED <<names, written, visible>>
  /\ merge' = IF merge.todo = {i} THEN [NoMerge EXCEPT !.queue = merge.queue]
              ELSE [merge EXCEPT !.todo = @ \ {i}, !.done = {}, !.copies[o] = new]
  /\ UNCHANGED <<profile, recent, indexed, sync, edits, losses, given, stale, lost>>

MergeFails ==
  /\ merge # NoMerge /\ losses < MaxLost
  /\ losses' = losses + 1
  /\ lost' = lost \cup merge.queue \cup merge.todo \cup ({merge.dest} \cap Ids)
  /\ merge' = NoMerge
  /\ UNCHANGED <<profile, recent, names, indexed, written, visible, sync, edits, given, stale>>

SyncStep ==
  \/ SyncStart
  \/ \E u \in Users : SyncRead(u)
  \/ \E refused \in SUBSET Ids : SyncWrite(refused)

MergeStep == MergeScan \/ \E i \in Ids : MergeResolve(i) \/ MergeSource(i) \/ MergeDest(i)

Next ==
  \/ \E u \in Users : \E p \in [orcid : Orcids \cup {NoOrcid}, dept : Depts] : Edit(u, p)
  \/ \E o \in Orcids : HarvestOrcid(o)
  \/ \E i \in Ids : Refresh(i)
  \/ SyncStart \/ SyncFails \/ \E u \in Users : SyncRead(u)
  \/ \E refused \in SUBSET Ids : SyncWrite(refused)
  \/ MergeScan \/ MergeFails
  \/ \E i \in Ids : MergeResolve(i) \/ MergeSource(i) \/ MergeDest(i)

\* The scheduler runs the two jobs again and again.
Spec == Init /\ [][Next]_vars /\ WF_vars(SyncStep) /\ WF_vars(MergeStep)

(***************************************************************************)
(* Properties                                                              *)
(***************************************************************************)
\* No user vanishes: whoever was synchronised has a listed name, the own one or
\* that of an ORCID the own one carries, unless a user who gave two ORCIDs gave
\* one of theirs, which makes names of two ORCIDs merge.
NobodyVanishes ==
  \A u \in Users :
    (Exists(u) /\ \A w \in Users : Cardinality(given[w]) > 1 => given[w] \cap given[u] = {})
    => names[u].listed \/ \E o \in ToSet(names[u].orcids) : names[o].listed

\* Once a run has taken a changed profile, the name of the person id has the ORCID
\* of the profile and its department if it has one, unless the last run that took
\* it was lost, the name was refused, or the merge wrote an older copy over it.
ProfileArrives ==
  \A u \in Users \ (recent \cup sync.queue \cup lost \cup stale) :
    /\ profile[u].dept # 0 => names[u].dept = profile[u].dept
    /\ profile[u].orcid \in {NoOrcid} \cup ToSet(names[u].orcids)

\* A user whose ORCID has a name in the vocabulary is not listed twice for good:
\* the run that takes the profile unlists the other name, unless it is lost or the
\* name refused.
OrcidPreferred ==
  \A u \in Users, o \in Orcids :
    (u \in recent /\ profile[u].orcid = o /\ Exists(o))
      ~> (Exists(u) /\ ~names[u].listed) \/ profile[u].orcid # o \/ u \in lost

\* A name of a person id that the index shows as changed, together with the name
\* of its ORCID, is merged by the next run, unless it is lost.
DuplicatesMerged ==
  \A u \in Users, o \in Orcids :
    (/\ u \in visible /\ indexed[u].listed /\ indexed[u].orcids # <<>>
     /\ o = Head(indexed[u].orcids) /\ indexed[o] # NoName)
      ~> ~names[u].listed \/ u \in lost
=================================================================================
