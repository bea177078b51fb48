---------------------------- MODULE PublishPublic ----------------------------
(***************************************************************************)
(* The publish-public endpoint composed with the committee-approval        *)
(* workflow: a manager turns an approved restricted version into a second, *)
(* public record (the copy), in a family of its own.                       *)
(*                                                                         *)
(* Code: site/cds_rdm/requests/views.py, publish_public_record.            *)
(*                                                                         *)
(* The handler commits several times.  What it read of the source parent   *)
(* at the start (ea, and the parent object itself) it writes back at the   *)
(* end, and the parent of the draft it makes it writes as it created it: a *)
(* row is reloaded after each commit, so its version check does not notice *)
(* what other transactions wrote to the parent in between.                 *)
(***************************************************************************)
EXTENDS CommitteeApproval

CONSTANTS
    Call,         \* concurrent calls of the endpoint
    CopyRecid     \* recids handed out to public copies, each of a new family

VARIABLES
    call,         \* local state of each call, None when it is not running
    draft,        \* public copies that exist as unpublished drafts
    linked,       \* isvariantformof links: <<source version, copy>>
    excused,      \* history: families where the marker may be missing
    early         \* history: copies published before their parent got its number

callVars == <<call, draft, linked, excused, early>>

allVars == <<vars, callVars>>

\* What a running call holds.
CallState == [step : {"read", "created", "draft", "published", "marked"},
              src : Recid, ea : Approval, grants : SUBSET Recid,
              community : Community, copy : CopyRecid \cup {None}]

ASSUME CopyAssumption ==
    /\ CopyRecid \subseteq Recid
    /\ \A d \in CopyRecid, r \in Recid : FamilyOf[d] = FamilyOf[r] => d = r
    /\ None \notin CallState

-----------------------------------------------------------------------------
PInit ==
    /\ Init
    /\ \A d \in CopyRecid : community[FamilyOf[d]] = None
    /\ call = [k \in Call |-> None]
    /\ draft = {}
    /\ linked = {}
    /\ excused = {}
    /\ early = {}

SourceFamily(k) == FamilyOf[call[k].src]

\* Faulty variants: the copy draws a number of its own, or its parent gets the
\* number too late; the marker names the source, or is not written; the link
\* points the wrong way.
FaultyNumberCopyApproval(k) ==
    [number |-> NextNumber(call[k].community, year), approved |-> None,
     source |-> call[k].src, public |-> None]

FaultyLateCopyApproval(k) ==
    [number |-> None, approved |-> None, source |-> call[k].src, public |-> None]

FaultySourceMarked(k) == [call[k].ea EXCEPT !.public = call[k].src]

FaultyMissingMarked(k) == call[k].ea

\* committee_approval of the copy's parent, and of the marked source parent.
CopyApproval(k) ==
    [number |-> call[k].ea.number, approved |-> None,
     source |-> call[k].src, public |-> None]

Marked(k) == [call[k].ea EXCEPT !.public = call[k].copy]

\* The isvariantformof link added to the source version.
BackLink(k) == <<call[k].src, call[k].copy>>

\* Reads and guards.  The version guard fails open when the approved version
\* cannot be loaded any more; nothing asks whether the community is enrolled.
Start(k, r) ==
    LET f  == FamilyOf[r]
        ea == approval[f]
    IN
    /\ call[k] = None
    /\ r \in live
    /\ ea.number # None
    /\ community[f] # None
    /\ ea.approved \in live => index[r] >= index[ea.approved]
    /\ ea.public = None
    /\ call' = [call EXCEPT ![k] =
                  [step |-> "read", src |-> r, ea |-> ea,
                   grants |-> grants[f], community |-> community[f],
                   copy |-> None]]
    /\ excused' = IF \E j \in Call : call[j] # None /\ SourceFamily(j) = f
                  THEN excused \cup {f}
                  ELSE excused
    /\ UNCHANGED <<vars, draft, linked, early>>

\* First commit, the service's own: the draft of the copy, owned by the caller,
\* with a new parent that has neither a number nor a community.
CreateDraft(k, d) ==
    LET g == FamilyOf[d] IN
    /\ call[k] # None
    /\ call[k].step = "read"
    /\ latest[g] = 0
    /\ \A j \in Call : call[j] # None => call[j].copy # d
    /\ d \notin draft
    /\ draft' = draft \cup {d}
    /\ approval' = [approval EXCEPT ![g] = NoApproval]
    /\ community' = [community EXCEPT ![g] = None]
    /\ call' = [call EXCEPT ![k].step = "created", ![k].copy = d]
    /\ UNCHANGED <<year, index, live, listed, latest, latestId, request,
                   indexed, grants, pids, txn, retired, linked, excused, early>>

\* Second commit: the community of the source and the number go to the parent
\* of the draft, which is written as it was when it was created.  The draft may
\* have been published meanwhile, and the call then fails later; adding a
\* community that the parent is in already fails at once.
NumberDraft(k) ==
    LET d == call[k].copy
        g == FamilyOf[d]
    IN
    /\ call[k] # None
    /\ call[k].step = "created"
    /\ d \in draft \cup live
    /\ community[g] # call[k].community
    /\ community' = [community EXCEPT ![g] = call[k].community]
    /\ approval' = [approval EXCEPT ![g] = CopyApproval(k)]
    /\ grants' = [grants EXCEPT ![g] = {}]
    /\ txn' = Invalidate(g)
    /\ call' = [call EXCEPT ![k].step = "draft"]
    /\ early' = early \cup ({d} \cap live)
    /\ excused' = excused
         \cup {f \in {g} : approval[f].public # None}
         \cup {f \in {SourceFamily(k)} : d \in live}
    /\ UNCHANGED <<year, index, live, listed, latest, latestId, request,
                   indexed, pids, retired, draft, linked>>

\* A draft becomes the first version of its family.
PublishDraft(d) ==
    /\ d \in draft
    /\ draft' = draft \ {d}
    /\ index' = [index EXCEPT ![d] = 1]
    /\ latest' = [latest EXCEPT ![FamilyOf[d]] = 1]
    /\ latestId' = [latestId EXCEPT ![FamilyOf[d]] = d]
    /\ live' = live \cup {d}
    /\ UNCHANGED <<year, listed, community, request, indexed, grants, approval,
                   pids, txn, retired, linked, early>>

\* Third commit: the service publishes the copy, if it is a draft still.
PublishCopy(k) ==
    /\ call[k] # None
    /\ call[k].step = "draft"
    /\ PublishDraft(call[k].copy)
    /\ call' = [call EXCEPT ![k].step = "published"]
    /\ UNCHANGED excused

\* Any exception up to here answers 400; a draft that exists stays behind.
Fail(k) ==
    /\ call[k] # None
    /\ call[k].step \in {"read", "created", "draft"}
    /\ excused' = excused \cup {SourceFamily(k)}
    /\ call' = [call EXCEPT ![k] = None]
    /\ UNCHANGED <<vars, draft, linked, early>>

\* The owner of the draft, who is the caller, publishes or discards it, with a
\* number on its parent or before.
OwnerPublishes(d) ==
    /\ PublishDraft(d)
    /\ UNCHANGED <<call, excused>>

OwnerDiscards(d) ==
    /\ d \in draft
    /\ draft' = draft \ {d}
    /\ approval' = [approval EXCEPT ![FamilyOf[d]] = NoApproval]
    /\ community' = [community EXCEPT ![FamilyOf[d]] = None]
    /\ UNCHANGED <<year, index, live, listed, latest, latestId, request,
                   indexed, grants, pids, txn, retired, call, linked, excused,
                   early>>

\* Fourth commit: the marker on the source parent, written with everything
\* else that was read from that parent at the start.
WriteMarker(k) ==
    LET f == SourceFamily(k) IN
    /\ call[k] # None
    /\ call[k].step = "published"
    /\ Siblings(f) # {}
    /\ approval' = [approval EXCEPT ![f] = Marked(k)]
    /\ grants' = [grants EXCEPT ![f] = call[k].grants]
    /\ txn' = Invalidate(f)
    /\ call' = [call EXCEPT ![k].step = "marked"]
    /\ UNCHANGED <<year, index, live, listed, latest, latestId, community,
                   request, indexed, pids, retired, draft, linked, excused,
                   early>>

\* Last commits: edit and publish the source version with the link.
WriteBackLink(k) ==
    /\ call[k] # None
    /\ call[k].step = "marked"
    /\ call[k].src \in live
    /\ linked' = linked \cup {BackLink(k)}
    /\ call' = [call EXCEPT ![k] = None]
    /\ UNCHANGED <<vars, draft, excused, early>>

\* An exception after the copy is published answers 201 with a warning.
Warn(k) ==
    /\ call[k] # None
    /\ call[k].step \in {"published", "marked"}
    /\ excused' = IF call[k].step = "published"
                  THEN excused \cup {SourceFamily(k)}
                  ELSE excused
    /\ call' = [call EXCEPT ![k] = None]
    /\ UNCHANGED <<vars, draft, linked, early>>

\* A step of the approval workflow.  Copies are not published the ordinary
\* way; a family that is accepted again, or goes, loses its marker.
WorkflowStep ==
    /\ \/ \E r \in Recid \ CopyRecid : PublishVersion(r)
       \/ \E f \in Family, c \in Community \cup {None} : ChangeCommunity(f, c)
       \/ \E q \in Request, r \in Recid : Submit(q, r)
       \/ \E q \in Request :
            \/ AcceptBegin(q) \/ AcceptCommit(q) \/ AcceptRollback(q)
            \/ Decline(q) \/ Cancel(q) \/ RefreshIndex(q)
       \/ \E r \in Recid : RefreshVersions(r) \/ DeleteRecord(r)
    /\ excused' = excused \cup
         {f \in Family : approval[f].public # None /\ approval'[f].public = None}
    /\ UNCHANGED <<call, draft, linked, early>>

PNext ==
    \/ WorkflowStep
    \/ \E k \in Call, r \in Recid : Start(k, r)
    \/ \E k \in Call, d \in CopyRecid : CreateDraft(k, d)
    \/ \E k \in Call : NumberDraft(k)
    \/ \E k \in Call : PublishCopy(k)
    \/ \E k \in Call : Fail(k)
    \/ \E k \in Call : WriteMarker(k)
    \/ \E k \in Call : WriteBackLink(k)
    \/ \E k \in Call : Warn(k)
    \/ \E d \in CopyRecid : OwnerPublishes(d)
    \/ \E d \in CopyRecid : OwnerDiscards(d)

PSpec == PInit /\ [][PNext]_allVars

-----------------------------------------------------------------------------
(* Properties                                                              *)

\* The published copies of (versions of) family f.
Copies(f) == {d \in live \cap CopyRecid :
                 /\ approval[FamilyOf[d]].source # None
                 /\ FamilyOf[approval[FamilyOf[d]].source] = f}

\* Whatever is written back late, a number on a parent, internal or public,
\* is a number that was registered (never a half-made or an invented one).
NumbersOnParentsIssued ==
    \A f \in Family : approval[f].number # None =>
        approval[f].number \in Numbers \cup retired

\* A public copy carries a number some referee accepted for its source
\* family, although the copy is made from a snapshot that may be stale; a
\* copy of a copy carries that of the copy, unless that one was published
\* early and accepted again itself.
CopyCarriesAcceptedNumber ==
    \A g \in Family : LET s == approval[g].source IN
        s # None =>
        \/ \E q \in Request : /\ request[q].status = "accepted"
                              /\ request[q].number = approval[g].number
                              /\ FamilyOf[request[q].topic] = FamilyOf[s]
        \/ /\ s \in CopyRecid
           /\ \/ approval[FamilyOf[s]].number = approval[g].number
              \/ s \notin live \/ s \in early

\* A public copy never enters the approval workflow itself, for submit refuses
\* a parent with a number; unless its owner published it in the window before
\* its parent got the number, which publish_public_record leaves open.
CopiesNeverUnderReview ==
    \A q \in Request : LET d == request[q].topic IN
        /\ request[q].status # "none"
        /\ approval[FamilyOf[d]].source # None
        => d \in early

\* The marker on a source parent names a copy that was really published from
\* that family (it may have been deleted since).
MarkerNamesACopy ==
    \A f \in Family : LET d == approval[f].public IN
        d # None => \/ d \in Copies(f)
                    \/ d \notin live /\ index[d] # 0

\* One public copy per source family, unless a call overlapped another, ended
\* in an error or a warning, had its copy published before it was numbered, or
\* the marker went with a second acceptance.
OneCopyWhenUndisturbed ==
    \A f \in Family \ excused : \A d, e \in Copies(f) : d = e

=============================================================================
