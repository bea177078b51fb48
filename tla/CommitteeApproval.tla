-------------------------- MODULE CommitteeApproval --------------------------
(***************************************************************************)
(* The committee-approval workflow of CDS-RDM: managers submit a published *)
(* record version to the referees, a referee accepts or declines, and an   *)
(* accepted family of versions receives a report number such as            *)
(* CERN-EP-2026-001.                                                       *)
(*                                                                         *)
(* Code: site/cds_rdm/requests/committee_approval.py (the request actions),*)
(* generators.py (the referee grant), cli.py (cds-admin delete).           *)
(*                                                                         *)
(* Atomicity.  Every service call runs in one database transaction.  An    *)
(* action is one transaction, except "accept": it scans pidstore for the   *)
(* largest number and inserts the next one, and two such transactions can  *)
(* overlap, so accepting is split into AcceptBegin (every read) and        *)
(* AcceptCommit (every write).  The search indexes that "submit" and       *)
(* "delete" consult are refreshed after the commits, by RefreshIndex and   *)
(* RefreshVersions.                                                        *)
(***************************************************************************)
EXTENDS Naturals, FiniteSets

CONSTANTS
    Family,       \* version families: one parent record each
    Recid,        \* record versions (recid PIDs)
    FamilyOf,     \* the parent each version belongs to
    Request,      \* committee-approval requests
    Community,    \* communities a parent may have as default
    Enrolled,     \* keys of CDS_COMMITTEE_APPROVAL_COMMUNITIES
    ReadOnly,     \* enrolled communities configured read_only
    Prefix,       \* report_number.prefix of each enrolled community
    IncludeYear,  \* enrolled communities whose numbers carry the year
    Years,        \* the calendar years the model covers
    Deletable,    \* versions an operator may remove with cds-admin delete
    None          \* absent value

VARIABLES
    year,         \* date.today().year
    index,        \* versions.index of each version, 0 before it is published
    live,         \* published versions that still exist
    listed,       \* the versions the search index shows
    latest,       \* latest_index of each family (versions state)
    latestId,     \* latest_id of each family (versions state)
    community,    \* default community of each parent
    request,      \* status, topic and report number of each request
    indexed,      \* requests the search index shows as submitted
    grants,       \* committee-review grants of each parent, by version
    approval,     \* permission_flags.committee_approval of each parent
    pids,         \* pidstore rows of type apprn
    txn,          \* accept transactions in flight
    retired       \* history: numbers whose pidstore row was deleted

vars == <<year, index, live, listed, latest, latestId, community, request,
          indexed, grants, approval, pids, txn, retired>>

Status == {"none", "submitted", "accepted", "declined", "cancelled"}

Number == [prefix : {Prefix[c] : c \in Enrolled}, year : Nat, seq : Nat]

Txn == [number : Number, fresh : BOOLEAN]

Approval == [number : Number \cup {None}, approved : Recid \cup {None},
             source : Recid \cup {None}, public : Recid \cup {None}]

NoApproval == [number |-> None, approved |-> None,
               source |-> None, public |-> None]

ASSUME ConfigAssumption ==
    /\ FamilyOf \in [Recid -> Family]
    /\ Enrolled \subseteq Community
    /\ ReadOnly \subseteq Enrolled
    /\ Prefix \in [Enrolled -> {Prefix[c] : c \in Enrolled}]
    /\ IncludeYear \subseteq Enrolled
    /\ Years \subseteq Nat /\ Years # {}
    /\ Deletable \subseteq Recid

ASSUME NoneAssumption ==
    /\ None \notin Recid
    /\ None \notin Community
    /\ None \notin Number
    /\ None \notin Txn

-----------------------------------------------------------------------------
(* Helpers                                                                 *)

Siblings(f) == {r \in live : FamilyOf[r] = f}

\* The writable configuration _resolve_community_config insists on.
Writable(f) == community[f] \in Enrolled \ ReadOnly

\* Faulty variants, here and below, are what a mistake in the code would make
\* of the definition after them; they show that the properties can fail.
FaultyInSeries(n, c, y) == n.prefix = Prefix[c]   \* scans every year

\* The counter a number of community c belongs to in year y: the scan prefix.
InSeries(n, c, y) ==
    /\ n.prefix = Prefix[c]
    /\ n.year = IF c \in IncludeYear THEN y ELSE 0

\* Sequence numbers already registered under the scan prefix.
Taken(c, y) == {p.number.seq : p \in {x \in pids : InSeries(x.number, c, y)}}

MaxSeq(S) == CHOOSE m \in S \cup {0} : \A k \in S : k <= m

NextNumber(c, y) ==
    [prefix |-> Prefix[c],
     year   |-> IF c \in IncludeYear THEN y ELSE 0,
     seq    |-> MaxSeq(Taken(c, y)) + 1]

FaultyInvalidate(f) == txn                        \* no version check

\* A write to the parent of f makes every accept transaction that has read
\* the parent stale: the parent row is version-checked when it is written.
Invalidate(f) ==
    [q \in Request |->
        IF txn[q] # None /\ FamilyOf[request[q].topic] = f
        THEN [txn[q] EXCEPT !.fresh = FALSE]
        ELSE txn[q]]

\* pidstore takes a value once per type; minting adds the row.
NumberFree(n) == \A p \in pids : p.number # n

FaultyMint(n, r) == pids                          \* computed, not minted

Mint(n, r) == pids \cup {[number |-> n, object |-> r]}

FaultyWithoutGrant(f, r) == [grants EXCEPT ![f] = {}]  \* by prefix only

\* The grants of f without those of version r.
WithoutGrant(f, r) == [grants EXCEPT ![f] = @ \ {r}]

\* What search_versions finds of f: the index may still show versions that are
\* gone, and not yet show new ones.
Found(f) == {s \in listed : FamilyOf[s] = f}

\* The search counts one version, whichever that is.
LastVersion(f) == \E s \in Found(f) : Found(f) = {s}

\* The second hit, newest index first: what the versions state falls back to.
\* Two versions can have the same index once a fallback missed one.
SecondHit(f) ==
    {s \in Found(f) : \E h \in Found(f) \ {s} :
        /\ index[s] <= index[h]
        /\ \A t \in Found(f) \ {h, s} : index[t] <= index[s]}

\* Records the newest version of the family as the approved one.
FaultyApproved(n, r) == [number |-> n, approved |-> latestId[FamilyOf[r]],
                         source |-> None, public |-> None]

\* committee_approval of a parent whose version r was accepted.
Approved(n, r) == [number |-> n, approved |-> r,
                   source |-> None, public |-> None]

\* A request is searchable as pending for one of the versions of f.
PendingInIndex(f) ==
    \E p \in indexed : request[p].topic \in Siblings(f)

FaultyRefereeCanRead(r) == r \in live /\ grants[FamilyOf[r]] # {}  \* any version

\* Read access through CommitteeRefereeVersionGrant: this version or a later one.
RefereeCanRead(r) ==
    r \in live /\ \E g \in grants[FamilyOf[r]] : index[r] >= index[g]

-----------------------------------------------------------------------------
Init ==
    /\ year = CHOOSE y \in Years : \A z \in Years : y <= z
    /\ index = [r \in Recid |-> 0]
    /\ live = {}
    /\ listed = {}
    /\ latest = [f \in Family |-> 0]
    /\ latestId = [f \in Family |-> None]
    /\ community \in [Family -> Community \cup {None}]
    /\ request = [q \in Request |->
                    [status |-> "none", topic |-> None, number |-> None]]
    /\ indexed = {}
    /\ grants = [f \in Family |-> {}]
    /\ approval = [f \in Family |-> NoApproval]
    /\ pids = {}
    /\ txn = [q \in Request |-> None]
    /\ retired = {}

NewYear ==
    /\ year + 1 \in Years
    /\ year' = year + 1
    /\ UNCHANGED <<index, live, listed, latest, latestId, community, request,
                   indexed, grants, approval, pids, txn, retired>>

\* The records service publishes a new version, the first or a later one.
PublishVersion(r) ==
    LET f == FamilyOf[r] IN
    /\ index[r] = 0
    /\ latest[f] = 0 \/ Siblings(f) # {}
    /\ index' = [index EXCEPT ![r] = latest[f] + 1]
    /\ latest' = [latest EXCEPT ![f] = latest[f] + 1]
    /\ latestId' = [latestId EXCEPT ![f] = r]
    /\ live' = live \cup {r}
    /\ UNCHANGED <<year, listed, community, request, indexed, grants, approval,
                   pids, txn, retired>>

\* Curators move the family to another default community, or out of any.
ChangeCommunity(f, c) ==
    /\ Siblings(f) # {}
    /\ community[f] # c
    /\ community' = [community EXCEPT ![f] = c]
    /\ txn' = Invalidate(f)
    /\ UNCHANGED <<year, index, live, listed, latest, latestId, request,
                   indexed, grants, approval, pids, retired>>

\* CommitteeApprovalSubmitAction: create the request as submitted and grant
\* the referees access to this version.
Submit(q, r) ==
    LET f == FamilyOf[r] IN
    /\ request[q].status = "none"
    /\ r \in live
    /\ Writable(f)
    /\ approval[f].number = None
    /\ ~ PendingInIndex(f)
    /\ request' = [request EXCEPT ![q] =
                     [status |-> "submitted", topic |-> r, number |-> None]]
    /\ grants' = [grants EXCEPT ![f] = @ \cup {r}]
    /\ txn' = Invalidate(f)
    /\ UNCHANGED <<year, index, live, listed, latest, latestId, community,
                   indexed, approval, pids, retired>>

\* CommitteeApprovalAcceptAction, its reads: status check, community
\* configuration, topic and parent, and the scan for the next number.
AcceptBegin(q) ==
    LET f == FamilyOf[request[q].topic] IN
    /\ request[q].status = "submitted"
    /\ txn[q] = None
    /\ request[q].topic \in live
    /\ Writable(f)
    /\ txn' = [txn EXCEPT ![q] =
                 [number |-> NextNumber(community[f], year), fresh |-> TRUE]]
    /\ UNCHANGED <<year, index, live, listed, latest, latestId, community,
                   request, indexed, grants, approval, pids, retired>>

\* Its writes, in one transaction: the pidstore row (unique per value), the
\* parent's committee_approval, and the request.
AcceptCommit(q) ==
    LET r == request[q].topic
        f == FamilyOf[r]
        n == txn[q].number
    IN
    /\ txn[q] # None
    /\ txn[q].fresh
    /\ NumberFree(n)
    /\ pids' = Mint(n, r)
    /\ approval' = [approval EXCEPT ![f] = Approved(n, r)]
    /\ request' = [request EXCEPT ![q] =
                     [status |-> "accepted", topic |-> r, number |-> n]]
    /\ txn' = [Invalidate(f) EXCEPT ![q] = None]
    /\ UNCHANGED <<year, index, live, listed, latest, latestId, community,
                   indexed, grants, retired>>

\* A conflict or an error rolls the accept transaction back.
AcceptRollback(q) ==
    /\ txn[q] # None
    /\ txn' = [txn EXCEPT ![q] = None]
    /\ UNCHANGED <<year, index, live, listed, latest, latestId, community,
                   request, indexed, grants, approval, pids, retired>>

\* Decline and cancel: close the request and take its grant off the parent.
Close(q, outcome) ==
    LET r == request[q].topic
        f == FamilyOf[r]
    IN
    /\ request[q].status = "submitted"
    /\ r \in live
    /\ request' = [request EXCEPT ![q].status = outcome]
    /\ grants' = WithoutGrant(f, r)
    /\ txn' = Invalidate(f)
    /\ UNCHANGED <<year, index, live, listed, latest, latestId, community,
                   indexed, approval, pids, retired>>

Decline(q) == Close(q, "declined")

Cancel(q) == Close(q, "cancelled")

\* The search index catches up with a committed request.
RefreshIndex(q) ==
    /\ ~ (q \in indexed <=> request[q].status = "submitted")
    /\ indexed' = IF q \in indexed THEN indexed \ {q} ELSE indexed \cup {q}
    /\ UNCHANGED <<year, index, live, listed, latest, latestId, community,
                   request, grants, approval, pids, txn, retired>>

\* It catches up with a published or a deleted version.  (Bound: followed as
\* long as something may be deleted, for only delete reads the versions there.)
RefreshVersions(r) ==
    /\ ~ (r \in listed <=> r \in live)
    /\ \E s \in live \cap Deletable : FamilyOf[s] = FamilyOf[r]
    /\ listed' = IF r \in listed THEN listed \ {r} ELSE listed \cup {r}
    /\ UNCHANGED <<year, index, live, latest, latestId, community, request,
                   indexed, grants, approval, pids, txn, retired>>

\* cds-admin delete: the version goes with every other identifier of its
\* uuid, the report number included.  Which version is the latest is read from
\* the database, how many there are and which comes next from the search.  If
\* the latest one goes, the versions state falls back to the second hit, which
\* must still have its PID; with the only hit the parent goes, which fails
\* while it has other versions.
DeleteRecord(r) ==
    LET f    == FamilyOf[r]
        mine == {p \in pids : p.object = r}
    IN
    /\ r \in live \cap Deletable
    /\ live' = live \ {r}
    /\ pids' = pids \ mine
    /\ retired' = retired \cup {p.number : p \in mine}
    /\ \/ /\ latestId[f] # r
          /\ UNCHANGED <<latest, latestId, grants, approval, txn>>
       \/ /\ latestId[f] = r
          /\ ~ LastVersion(f)
          /\ \E s \in SecondHit(f) \cap live :
                /\ latest' = [latest EXCEPT ![f] = index[s]]
                /\ latestId' = [latestId EXCEPT ![f] = s]
          /\ UNCHANGED <<grants, approval, txn>>
       \/ /\ latestId[f] = r
          /\ LastVersion(f)
          /\ Siblings(f) = {r}
          /\ grants' = [grants EXCEPT ![f] = {}]
          /\ approval' = [approval EXCEPT ![f] = NoApproval]
          /\ txn' = Invalidate(f)
          /\ UNCHANGED <<latest, latestId>>
    /\ UNCHANGED <<year, index, listed, community, request, indexed>>

Next ==
    \/ NewYear
    \/ \E r \in Recid : PublishVersion(r)
    \/ \E f \in Family, c \in Community \cup {None} : ChangeCommunity(f, c)
    \/ \E q \in Request, r \in Recid : Submit(q, r)
    \/ \E q \in Request : AcceptBegin(q)
    \/ \E q \in Request : AcceptCommit(q)
    \/ \E q \in Request : AcceptRollback(q)
    \/ \E q \in Request : Decline(q)
    \/ \E q \in Request : Cancel(q)
    \/ \E q \in Request : RefreshIndex(q)
    \/ \E r \in Recid : RefreshVersions(r)
    \/ \E r \in Recid : DeleteRecord(r)

Spec == Init /\ [][Next]_vars

-----------------------------------------------------------------------------
(* Properties                                                              *)

TypeOK ==
    /\ year \in Years
    /\ index \in [Recid -> Nat]
    /\ live \in SUBSET Recid
    /\ listed \in SUBSET Recid
    /\ latest \in [Family -> Nat]
    /\ latestId \in [Family -> Recid \cup {None}]
    /\ community \in [Family -> Community \cup {None}]
    /\ request \in [Request -> [status : Status, topic : Recid \cup {None},
                                number : Number \cup {None}]]
    /\ indexed \in SUBSET Request
    /\ grants \in [Family -> SUBSET Recid]
    /\ approval \in [Family -> Approval]
    /\ pids \in SUBSET [number : Number, object : Recid]
    /\ txn \in [Request -> Txn \cup {None}]
    /\ retired \in SUBSET Number

\* No two families ever carry the same report number, however their accept
\* transactions overlap, unless an operator deleted the number's pidstore row
\* in between (committee_approval.py, _issue_report_number).
NoSharedNumber ==
    \A f, g \in Family :
        f # g /\ approval[f].number # None /\ approval[f].number = approval[g].number
            => approval[f].number \in retired

\* No two accepted requests, of one family or of two, were told the same
\* number, again unless its row was deleted (the payload's
\* approved_report_number).
AcceptedNumbersDistinct ==
    \A p, q \in Request :
        /\ p # q
        /\ request[p].status = "accepted" /\ request[q].status = "accepted"
        /\ request[p].number = request[q].number
        => request[p].number \in retired

\* Accepting is all or nothing: what the parent says (number and approved
\* version) is what some accepted request says, and the family of an accepted
\* request has a number as long as its parent exists.
ApprovalMatchesRequest ==
    /\ \A f \in Family : approval[f].number # None =>
         \E q \in Request : /\ request[q].status = "accepted"
                            /\ request[q].topic = approval[f].approved
                            /\ request[q].number = approval[f].number
    /\ \A q \in Request : LET f == FamilyOf[request[q].topic] IN
         request[q].status = "accepted" /\ Siblings(f) # {}
            => approval[f].number # None

\* Referee grants follow the requests: a grant is there for a pending or an
\* accepted request on that version and for nothing else, and such a request
\* has its grant unless another request on the same version was closed.
GrantsMatchRequests ==
    /\ \A f \in Family : \A g \in grants[f] :
         \E q \in Request : /\ request[q].topic = g
                            /\ request[q].status \in {"submitted", "accepted"}
    /\ \A q \in Request : LET f == FamilyOf[request[q].topic] IN
         /\ request[q].status \in {"submitted", "accepted"}
         /\ Siblings(f) # {}
         /\ request[q].topic \notin grants[f]
         => \E p \in Request : /\ p # q
                               /\ request[p].topic = request[q].topic
                               /\ request[p].status \in {"declined", "cancelled"}

\* The referees read a version only while a request on that version or on an
\* earlier one of its family is pending or accepted, however requests on several
\* versions overlap (CommitteeRefereeVersionGrant.needs compares indexes only).
ReadableOnlyUnderReview ==
    \A r \in live : RefereeCanRead(r) =>
        \E q \in Request : /\ request[q].status \in {"submitted", "accepted"}
                           /\ FamilyOf[request[q].topic] = FamilyOf[r]
                           /\ index[request[q].topic] <= index[r]

\* A request that was accepted, declined or cancelled stays so: an accept
\* that started before a decline or a cancel cannot finish after it.
ClosedForGood ==
    [][\A q \in Request :
         request[q].status \in {"accepted", "declined", "cancelled"}
            => request'[q] = request[q]]_vars

-----------------------------------------------------------------------------
(* Refinement: the pidstore rows of type apprn are the issued numbers.     *)

Numbers == {p.number : p \in pids}

Counter == INSTANCE ReportNumberCounter WITH issued <- Numbers

\* Numbers are issued in order and without gaps, and never twice while they
\* are registered, although accept transactions scan and insert separately.
ImplementsCounter == Counter!Spec

-----------------------------------------------------------------------------
(* The inductive strengthening that the proofs use.                        *)

\* There is a largest sequence number, so scanning for it is well defined.
BoundedSeqs ==
    LET S == {p.number.seq : p \in pids}
    IN  MaxSeq(S) \in Nat /\ \A k \in S : k <= MaxSeq(S)

\* An accept transaction runs for a submitted request; it is not fresh any
\* more once that request was closed.
TxnSound ==
    \A q \in Request : txn[q] # None =>
        /\ request[q].status # "none"
        /\ txn[q].fresh => request[q].status = "submitted"

TopicsKnown ==
    \A q \in Request : request[q].status # "none" => request[q].topic \in Recid

\* pidstore is unique by value.
PidsUnique == \A p1, p2 \in pids : p1.number = p2.number => p1 = p2

\* The number of a family is registered for one of its own versions, and
\* that of an accepted request is registered, unless the row was deleted.
NumbersRegistered ==
    /\ \A f \in Family : approval[f].number # None =>
         \/ approval[f].number \in retired
         \/ \E p \in pids : /\ p.number = approval[f].number
                            /\ FamilyOf[p.object] = f
    /\ \A q \in Request : request[q].status = "accepted" =>
         request[q].number \in Numbers \cup retired

\* The number an accept transaction computed follows one already issued.
TxnInOrder ==
    \A q \in Request : txn[q] # None =>
        \/ txn[q].number.seq = 1
        \/ Counter!Previous(txn[q].number) \in Numbers \cup retired

\* A family that ever had a published version keeps a latest index, so with
\* its last version deleted nothing can be published in it again.
VersionsKept ==
    /\ \A r \in Recid : index[r] # 0 => latest[FamilyOf[r]] # 0
    /\ \A r \in live : index[r] # 0

TopicsPublished ==
    \A q \in Request : request[q].status # "none" => index[request[q].topic] # 0

\* The grants on a parent are for its own versions.
GrantsOwned == \A f \in Family : \A g \in grants[f] : FamilyOf[g] = f

IndInv ==
    /\ TypeOK
    /\ BoundedSeqs
    /\ TopicsKnown
    /\ TxnSound
    /\ PidsUnique
    /\ NumbersRegistered
    /\ AcceptedNumbersDistinct
    /\ TxnInOrder
    /\ VersionsKept
    /\ TopicsPublished
    /\ GrantsOwned
    /\ ApprovalMatchesRequest
    /\ GrantsMatchRequests

=============================================================================
