----------------------------- MODULE ApprovalProofs -----------------------------
(***************************************************************************)
(* Proofs about CommitteeApproval and PublishPublic, which extends it, for *)
(* all values of their constants.                                          *)
(*                                                                         *)
(* CommitteeApproval: the inductive invariant is IndInv.  Its typing half, *)
(* TypeInv, is proved first and then used to prove the half about numbers. *)
(*                                                                         *)
(* PublishPublic: the properties are about several stale readings at once: *)
(* a call writes back what it read of the source's parent, and names a     *)
(* copy whose own parent may be written by another call.  PubInv says that *)
(* what a running call holds is still true enough: a copy that is alive,   *)
(* and was numbered before it was published, keeps its number and its      *)
(* source, and a number that was accepted stays accepted.                  *)
(***************************************************************************)
EXTENDS PublishPublic, WellFoundedInduction, TLAPS

USE ConfigAssumption, NoneAssumption

-----------------------------------------------------------------------------
(* Maxima of sets of naturals                                              *)

\* A set of natural numbers that is not empty has a least element.
LEMMA LeastElement ==
    ASSUME NEW T, T \subseteq Nat, T # {}
    PROVE  \E m \in T : \A k \in T : m <= k
<1>1. PICK R : /\ IsWellFoundedOn(R, Nat)
               /\ \A x, y \in Nat : y < x => <<y, x>> \in R
  <2>1. \A x, y \in Nat : y < x => <<y, x>> \in OpToRel(<, Nat)
    BY DEF OpToRel
  <2>2. QED
    BY <2>1, NatLessThanWellFounded
<1>2. PICK m \in T : \A k \in T : <<k, m>> \notin R
  BY <1>1, WFMin
<1>3. ASSUME NEW k \in T
      PROVE  m <= k
  <2>1. k \in Nat /\ m \in Nat
    OBVIOUS
  <2>2. ~ (k < m)
    BY <2>1, <1>1, <1>2
  <2>3. QED
    BY <2>1, <2>2
<1>4. QED
  BY <1>3

\* A bounded set of naturals has the maximum that MaxSeq chooses.
LEMMA MaxSeqIsMaximum ==
    ASSUME NEW S, S \subseteq Nat, NEW b \in Nat, \A k \in S : k <= b
    PROVE  /\ MaxSeq(S) \in S \cup {0}
           /\ MaxSeq(S) \in Nat
           /\ \A k \in S : k <= MaxSeq(S)
<1> DEFINE U == {u \in Nat : \A k \in S : k <= u}
<1>1. PICK m \in U : \A u \in U : m <= u
  <2>1. U \subseteq Nat /\ U # {}
    OBVIOUS
  <2>2. QED
    BY <2>1, LeastElement
<1>2. m \in S \cup {0}
  <2>1. CASE m = 0
    BY <2>1
  <2>2. CASE m # 0
    <3>1. m - 1 \in Nat /\ m - 1 \notin U
      BY <1>1, <2>2
    <3>2. PICK k \in S : ~ (k <= m - 1)
      BY <3>1
    <3>3. k = m
      BY <1>1, <3>1, <3>2
    <3>4. QED
      BY <3>3
  <2>3. QED
    BY <2>1, <2>2
<1>3. QED
  BY <1>1, <1>2 DEF MaxSeq

-----------------------------------------------------------------------------
(* Typing                                                                  *)

TypeInv == TypeOK /\ BoundedSeqs /\ TopicsKnown /\ TxnSound

\* Making transactions stale keeps their type.
LEMMA InvalidateType ==
    ASSUME TypeInv, NEW f \in Family
    PROVE  /\ Invalidate(f) \in [Request -> Txn \cup {None}]
           /\ \A q \in Request : /\ Invalidate(f)[q] = None <=> txn[q] = None
                                 /\ Invalidate(f)[q] # None =>
                                      /\ Invalidate(f)[q].number = txn[q].number
                                      /\ Invalidate(f)[q].fresh =>
                                           /\ txn[q].fresh
                                           /\ FamilyOf[request[q].topic] # f
<1> DEFINE Stale(q) == txn[q] # None /\ FamilyOf[request[q].topic] = f
<1>1. ASSUME NEW q \in Request
      PROVE  /\ txn[q] \in Txn \cup {None}
             /\ Stale(q) => Invalidate(f)[q] = [txn[q] EXCEPT !.fresh = FALSE]
             /\ ~ Stale(q) => Invalidate(f)[q] = txn[q]
  BY DEF TypeInv, TypeOK, Invalidate
<1>2. ASSUME NEW q \in Request, Stale(q)
      PROVE  /\ Invalidate(f)[q] \in Txn
             /\ Invalidate(f)[q].number = txn[q].number
             /\ Invalidate(f)[q].fresh = FALSE
  BY <1>1, <1>2 DEF Txn
<1>3. Invalidate(f) \in [Request -> Txn \cup {None}]
  BY <1>1, <1>2 DEF Invalidate
<1>4. ASSUME NEW q \in Request
      PROVE  /\ Invalidate(f)[q] = None <=> txn[q] = None
             /\ Invalidate(f)[q] # None =>
                  /\ Invalidate(f)[q].number = txn[q].number
                  /\ Invalidate(f)[q].fresh => txn[q].fresh /\ FamilyOf[request[q].topic] # f
  <2>1. CASE Stale(q)
    <3>1. Invalidate(f)[q] # None /\ txn[q] # None
      BY <1>2, <2>1
    <3>2. QED
      BY <1>2, <2>1, <3>1
  <2>2. CASE ~ Stale(q)
    BY <1>1, <2>2
  <2>3. QED
    BY <2>1, <2>2
<1>5. QED
  BY <1>3, <1>4

\* The next number of a series is a number: it is the first or follows the largest.
LEMMA NextNumberType ==
    ASSUME TypeInv, NEW c \in Enrolled
    PROVE  /\ NextNumber(c, year) \in Number
           /\ NextNumber(c, year).seq = 1
              \/ \E p \in pids : p.number = Counter!Previous(NextNumber(c, year))
<1> DEFINE y == IF c \in IncludeYear THEN year ELSE 0
           m == MaxSeq(Taken(c, year))
<1>1. /\ m \in Taken(c, year) \cup {0}
      /\ m \in Nat
  <2>1. Taken(c, year) \subseteq {p.number.seq : p \in pids}
    BY DEF Taken
  <2>2. Taken(c, year) \subseteq Nat
    BY DEF TypeInv, TypeOK, Taken, Number
  <2>3. \E b \in Nat : \A k \in Taken(c, year) : k <= b
    BY <2>1 DEF TypeInv, BoundedSeqs
  <2>4. QED
    BY <2>2, <2>3, MaxSeqIsMaximum
<1>2. y \in Nat
  BY DEF TypeInv, TypeOK
<1>3. NextNumber(c, year) = [prefix |-> Prefix[c], year |-> y, seq |-> m + 1]
  BY DEF NextNumber
<1>4. NextNumber(c, year) \in Number
  BY <1>1, <1>2, <1>3 DEF Number
<1>5. ASSUME m # 0
      PROVE  \E p \in pids : p.number = Counter!Previous(NextNumber(c, year))
  <2>1. PICK p \in pids : InSeries(p.number, c, year) /\ p.number.seq = m
    BY <1>1, <1>5 DEF Taken
  <2>2. p.number = [prefix |-> Prefix[c], year |-> y, seq |-> m]
    BY <2>1 DEF InSeries, TypeInv, TypeOK, Number
  <2>3. Counter!Previous(NextNumber(c, year)) = [prefix |-> Prefix[c], year |-> y, seq |-> m]
    BY <1>1, <1>3 DEF Counter!Previous
  <2>4. QED
    BY <2>2, <2>3
<1>6. QED
  BY <1>1, <1>3, <1>4, <1>5

\* The initial state is well-formed.
LEMMA InitTypeInv == Init => TypeInv
<1> SUFFICES ASSUME Init PROVE TypeInv
  OBVIOUS
<1>1. TypeOK
  <2>1. year \in Years
    <3>1. \E y \in Years : \A z \in Years : y <= z
      BY LeastElement
    <3>2. QED
      BY <3>1 DEF Init
  <2>2. NoApproval \in Approval
    BY DEF NoApproval, Approval
  <2>3. QED
    BY <2>1, <2>2 DEF Init, TypeOK, Status
<1>2. BoundedSeqs
  <2>1. {p.number.seq : p \in pids} = {}
    BY DEF Init
  <2>2. MaxSeq({}) \in Nat
    BY MaxSeqIsMaximum
  <2>3. QED
    BY <2>1, <2>2 DEF BoundedSeqs
<1>3. TopicsKnown /\ TxnSound
  BY DEF Init, TopicsKnown, TxnSound
<1>4. QED
  BY <1>1, <1>2, <1>3 DEF TypeInv

\* Publishing a version keeps TypeInv.
LEMMA PublishVersionTypeInv ==
    ASSUME TypeInv, NEW r \in Recid, PublishVersion(r)
    PROVE  TypeInv'
<1>1. TypeOK'
  BY DEF TypeInv, TypeOK, PublishVersion
<1>2. BoundedSeqs' /\ TopicsKnown' /\ TxnSound'
  BY DEF TypeInv, BoundedSeqs, TopicsKnown, TxnSound, PublishVersion
<1>3. QED
  BY <1>1, <1>2 DEF TypeInv

\* Changing the community keeps TypeInv.
LEMMA ChangeCommunityTypeInv ==
    ASSUME TypeInv, NEW f \in Family, NEW c \in Community \cup {None},
           ChangeCommunity(f, c)
    PROVE  TypeInv'
<1>1. TypeOK'
  BY InvalidateType DEF TypeInv, TypeOK, ChangeCommunity
<1>2. BoundedSeqs' /\ TopicsKnown'
  BY DEF TypeInv, BoundedSeqs, TopicsKnown, ChangeCommunity
<1>3. TxnSound'
  BY InvalidateType DEF TypeInv, TxnSound, ChangeCommunity
<1>4. QED
  BY <1>1, <1>2, <1>3 DEF TypeInv

\* Submitting keeps TypeInv.
LEMMA SubmitTypeInv ==
    ASSUME TypeInv, NEW q \in Request, NEW r \in Recid, Submit(q, r)
    PROVE  TypeInv'
<1>1. FamilyOf[r] \in Family
  OBVIOUS
<1>2. TypeOK'
  BY <1>1, InvalidateType DEF TypeInv, TypeOK, Submit, Status
<1>3. BoundedSeqs'
  BY DEF TypeInv, BoundedSeqs, Submit
<1>4. TopicsKnown'
  BY DEF TypeInv, TypeOK, TopicsKnown, Submit
<1>5. TxnSound'
  BY <1>1, InvalidateType DEF TypeInv, TypeOK, TxnSound, Submit
<1>6. QED
  BY <1>2, <1>3, <1>4, <1>5 DEF TypeInv

\* The reads of an accept keep TypeInv.
LEMMA AcceptBeginTypeInv ==
    ASSUME TypeInv, NEW q \in Request, AcceptBegin(q)
    PROVE  TypeInv'
<1> DEFINE n == NextNumber(community[FamilyOf[request[q].topic]], year)
<1>1. n \in Number
  BY NextNumberType DEF AcceptBegin, Writable
<1>2. [number |-> n, fresh |-> TRUE] \in Txn
  BY <1>1 DEF Txn
<1>3. txn' = [txn EXCEPT ![q] = [number |-> n, fresh |-> TRUE]]
  BY DEF AcceptBegin
<1> HIDE DEF n
<1>4. TypeOK'
  <2>1. txn' \in [Request -> Txn \cup {None}]
    BY <1>2, <1>3 DEF TypeInv, TypeOK
  <2>2. QED
    BY <2>1 DEF TypeInv, TypeOK, AcceptBegin
<1>5. BoundedSeqs' /\ TopicsKnown'
  BY DEF TypeInv, BoundedSeqs, TopicsKnown, AcceptBegin
<1>6. TxnSound'
  BY <1>3 DEF TypeInv, TypeOK, TxnSound, AcceptBegin
<1>7. QED
  BY <1>4, <1>5, <1>6 DEF TypeInv

\* The writes of an accept keep TypeInv.
LEMMA AcceptCommitTypeInv ==
    ASSUME TypeInv, NEW q \in Request, AcceptCommit(q)
    PROVE  TypeInv'
<1> DEFINE r == request[q].topic
           f == FamilyOf[r]
           n == txn[q].number
<1>1. r \in Recid /\ f \in Family /\ n \in Number
  BY DEF TypeInv, TypeOK, TopicsKnown, TxnSound, AcceptCommit, Txn
<1>2. /\ pids' = pids \cup {[number |-> n, object |-> r]}
      /\ approval' = [approval EXCEPT ![f] = [number |-> n, approved |-> r,
                                             source |-> None, public |-> None]]
      /\ request' = [request EXCEPT ![q] = [status |-> "accepted", topic |-> r,
                                           number |-> n]]
      /\ txn' = [Invalidate(f) EXCEPT ![q] = None]
      /\ UNCHANGED <<year, index, live, listed, latest, latestId, community,
                     indexed, grants, retired>>
  BY DEF AcceptCommit, Mint, Approved
<1> HIDE DEF r, f, n
<1>3. TypeOK'
  <2>1. txn' \in [Request -> Txn \cup {None}]
    BY <1>1, <1>2, InvalidateType
  <2>2. request' \in [Request -> [status : Status, topic : Recid \cup {None},
                                 number : Number \cup {None}]]
    BY <1>1, <1>2 DEF TypeInv, TypeOK, Status
  <2>3. approval' \in [Family -> Approval]
    BY <1>1, <1>2 DEF TypeInv, TypeOK, Approval
  <2>4. pids' \in SUBSET [number : Number, object : Recid]
    BY <1>1, <1>2 DEF TypeInv, TypeOK
  <2>5. QED
    BY <1>2, <2>1, <2>2, <2>3, <2>4 DEF TypeInv, TypeOK
<1>4. BoundedSeqs'
  <2> DEFINE S == {p.number.seq : p \in pids}
  <2>1. {p.number.seq : p \in pids'} = S \cup {n.seq}
    <3>1. [number |-> n, object |-> r].number.seq = n.seq
      OBVIOUS
    <3>2. \A k : k \in {p.number.seq : p \in pids'} <=> k \in S \cup {n.seq}
      BY <1>2, <3>1
    <3>3. QED
      BY <3>2
  <2>2. S \cup {n.seq} \subseteq Nat /\ n.seq \in Nat
    BY <1>1 DEF TypeInv, TypeOK, Number
  <2>3. MaxSeq(S) \in Nat /\ \A k \in S : k <= MaxSeq(S)
    BY DEF TypeInv, BoundedSeqs
  <2> HIDE DEF S
  <2>4. /\ MaxSeq(S) + n.seq \in Nat
        /\ \A k \in S \cup {n.seq} : k <= MaxSeq(S) + n.seq
    BY <2>2, <2>3
  <2>5. /\ MaxSeq(S \cup {n.seq}) \in Nat
        /\ \A k \in S \cup {n.seq} : k <= MaxSeq(S \cup {n.seq})
    BY <2>2, <2>4, MaxSeqIsMaximum
  <2>6. QED
    BY <2>1, <2>5 DEF BoundedSeqs
<1>5. TopicsKnown'
  BY <1>1, <1>2 DEF TypeInv, TypeOK, TopicsKnown
<1>6. TxnSound'
  BY <1>1, <1>2, InvalidateType DEF TypeInv, TypeOK, TxnSound
<1>7. QED
  BY <1>3, <1>4, <1>5, <1>6 DEF TypeInv

\* Declining or cancelling keeps TypeInv.
LEMMA CloseTypeInv ==
    ASSUME TypeInv, NEW q \in Request, NEW outcome \in {"declined", "cancelled"},
           Close(q, outcome)
    PROVE  TypeInv'
<1> DEFINE r == request[q].topic
           f == FamilyOf[r]
<1>1. r \in Recid /\ f \in Family
  BY DEF TypeInv, TypeOK, TopicsKnown, Close
<1>2. /\ request[q].status = "submitted"
      /\ request' = [request EXCEPT ![q].status = outcome]
      /\ grants' = [grants EXCEPT ![f] = @ \ {r}]
      /\ txn' = Invalidate(f)
      /\ UNCHANGED <<year, index, live, listed, latest, latestId, community,
                     indexed, approval, pids, retired>>
  BY DEF Close, WithoutGrant
<1>3. TypeOK'
  <2>1. txn' \in [Request -> Txn \cup {None}]
    BY <1>1, <1>2, InvalidateType
  <2>2. request' \in [Request -> [status : Status, topic : Recid \cup {None},
                                 number : Number \cup {None}]]
    BY <1>2, SMTT(20) DEF TypeInv, TypeOK, Status
  <2>3. grants' \in [Family -> SUBSET Recid]
    BY <1>2 DEF TypeInv, TypeOK
  <2>4. QED
    BY <1>2, <2>1, <2>2, <2>3 DEF TypeInv, TypeOK
<1>4. BoundedSeqs'
  BY <1>2 DEF TypeInv, BoundedSeqs
<1>5. TopicsKnown'
  BY <1>1, <1>2 DEF TypeInv, TypeOK, TopicsKnown
<1>6. TxnSound'
  BY <1>1, <1>2, InvalidateType DEF TypeInv, TypeOK, TxnSound
<1>7. QED
  BY <1>3, <1>4, <1>5, <1>6 DEF TypeInv

\* Deleting a version keeps TypeInv.
LEMMA DeleteRecordTypeInv ==
    ASSUME TypeInv, NEW r \in Recid, DeleteRecord(r)
    PROVE  TypeInv'
<1> DEFINE f == FamilyOf[r]
<1>1. f \in Family
  OBVIOUS
<1>2. /\ r \in live
      /\ live' = live \ {r}
      /\ pids' \subseteq pids
      /\ retired' = retired \cup {p.number : p \in {x \in pids : x.object = r}}
      /\ UNCHANGED <<year, index, listed, community, request, indexed>>
  BY DEF DeleteRecord
<1>3. /\ \/ UNCHANGED <<latest, latestId>>
         \/ \E s \in live : /\ latest' = [latest EXCEPT ![f] = index[s]]
                            /\ latestId' = [latestId EXCEPT ![f] = s]
      /\ \/ UNCHANGED <<grants, approval, txn>>
         \/ /\ grants' = [grants EXCEPT ![f] = {}]
            /\ approval' = [approval EXCEPT ![f] = NoApproval]
            /\ txn' = Invalidate(f)
  BY DEF DeleteRecord
<1>4. TypeOK'
  <2>1. latest' \in [Family -> Nat] /\ latestId' \in [Family -> Recid \cup {None}]
    BY <1>1, <1>3 DEF TypeInv, TypeOK
  <2>2. txn' \in [Request -> Txn \cup {None}]
    BY <1>1, <1>3, InvalidateType DEF TypeInv, TypeOK
  <2>3. approval' \in [Family -> Approval]
    BY <1>3 DEF TypeInv, TypeOK, Approval, NoApproval
  <2>4. grants' \in [Family -> SUBSET Recid]
    BY <1>3 DEF TypeInv, TypeOK
  <2>5. retired' \in SUBSET Number
    BY <1>2 DEF TypeInv, TypeOK
  <2>6. pids' \in SUBSET [number : Number, object : Recid]
    BY <1>2 DEF TypeInv, TypeOK
  <2>7. QED
    BY <1>2, <2>1, <2>2, <2>3, <2>4, <2>5, <2>6 DEF TypeInv, TypeOK
<1>5. BoundedSeqs'
  <2> DEFINE S == {p.number.seq : p \in pids}
             T == {p.number.seq : p \in pids'}
  <2>1. MaxSeq(S) \in Nat /\ \A k \in S : k <= MaxSeq(S)
    BY DEF TypeInv, BoundedSeqs
  <2>2. T \subseteq S /\ S \subseteq Nat
    BY <1>2 DEF TypeInv, TypeOK, Number
  <2> HIDE DEF S
  <2>3. MaxSeq(T) \in Nat /\ \A k \in T : k <= MaxSeq(T)
    <3> HIDE DEF T
    <3>1. QED
      BY <2>1, <2>2, MaxSeqIsMaximum
  <2>4. QED
    BY <2>3 DEF BoundedSeqs
<1>6. TopicsKnown'
  BY <1>2 DEF TypeInv, TopicsKnown
<1>7. TxnSound'
  BY <1>1, <1>2, <1>3, InvalidateType DEF TypeInv, TxnSound
<1>8. QED
  BY <1>4, <1>5, <1>6, <1>7 DEF TypeInv

\* The remaining actions keep TypeInv.
LEMMA OtherTypeInv ==
    ASSUME TypeInv,
           \/ NewYear
           \/ \E q \in Request : AcceptRollback(q) \/ RefreshIndex(q)
           \/ \E r \in Recid : RefreshVersions(r)
           \/ UNCHANGED vars
    PROVE  TypeInv'
<1>1. BoundedSeqs' /\ TopicsKnown'
  BY DEF TypeInv, BoundedSeqs, TopicsKnown, NewYear,
         AcceptRollback, RefreshIndex, RefreshVersions, vars
<1>2. TypeOK' /\ TxnSound'
  <2>1. CASE NewYear \/ (\E r \in Recid : RefreshVersions(r)) \/ UNCHANGED vars
    BY <2>1 DEF TypeInv, TypeOK, TxnSound, NewYear, RefreshVersions, vars
  <2>2. ASSUME NEW q \in Request, AcceptRollback(q)
        PROVE  TypeOK' /\ TxnSound'
    BY <2>2 DEF TypeInv, TypeOK, TxnSound, AcceptRollback
  <2>3. ASSUME NEW q \in Request, RefreshIndex(q)
        PROVE  TypeOK' /\ TxnSound'
    BY <2>3 DEF TypeInv, TypeOK, TxnSound, RefreshIndex
  <2>4. QED
    BY <2>1, <2>2, <2>3
<1>3. QED
  BY <1>1, <1>2 DEF TypeInv

\* Every step keeps TypeInv.
LEMMA NextTypeInv == TypeInv /\ [Next]_vars => TypeInv'
<1> SUFFICES ASSUME TypeInv, [Next]_vars PROVE TypeInv'
  OBVIOUS
<1>1. CASE \E r \in Recid : PublishVersion(r)
  BY <1>1, PublishVersionTypeInv
<1>2. CASE \E f \in Family, c \in Community \cup {None} : ChangeCommunity(f, c)
  BY <1>2, ChangeCommunityTypeInv
<1>3. CASE \E q \in Request, r \in Recid : Submit(q, r)
  BY <1>3, SubmitTypeInv
<1>4. CASE \E q \in Request : AcceptBegin(q)
  BY <1>4, AcceptBeginTypeInv
<1>5. CASE \E q \in Request : AcceptCommit(q)
  BY <1>5, AcceptCommitTypeInv
<1>6. CASE \E q \in Request : Decline(q) \/ Cancel(q)
  BY <1>6, CloseTypeInv DEF Decline, Cancel
<1>7. CASE \E r \in Recid : DeleteRecord(r)
  BY <1>7, DeleteRecordTypeInv
<1>8. CASE \/ NewYear
           \/ \E q \in Request : AcceptRollback(q) \/ RefreshIndex(q)
           \/ \E r \in Recid : RefreshVersions(r)
           \/ UNCHANGED vars
  BY <1>8, OtherTypeInv
<1>9. QED
  BY <1>1, <1>2, <1>3, <1>4, <1>5, <1>6, <1>7, <1>8 DEF Next

\* Every variable keeps its type; in particular the scan for the next number
\* always finds a largest one, and a request never loses its topic.
THEOREM TypeCorrect == Spec => []TypeInv
BY InitTypeInv, NextTypeInv, PTL DEF Spec

\* Every variable keeps its type, whatever is submitted, accepted and deleted.
THEOREM TypeOKInvariant == Spec => []TypeOK
<1>1. TypeInv => TypeOK
  BY DEF TypeInv
<1>2. QED
  BY <1>1, TypeCorrect, PTL

-----------------------------------------------------------------------------
(* Report numbers                                                          *)

NumberInv ==
    PidsUnique /\ NumbersRegistered /\ AcceptedNumbersDistinct /\ TxnInOrder

\* Most actions leave every number where it is.
LEMMA NumberFrame ==
    ASSUME NumberInv,
           UNCHANGED <<pids, retired, approval>>,
           \A q \in Request : request'[q].status = "accepted" =>
               /\ request[q].status = "accepted"
               /\ request'[q].number = request[q].number,
           \A q \in Request : txn'[q] # None =>
               txn[q] # None /\ txn'[q].number = txn[q].number
    PROVE  NumberInv'
<1>1. Numbers' = Numbers
  BY DEF Numbers
<1>2. PidsUnique' /\ NumbersRegistered'
  BY <1>1 DEF NumberInv, PidsUnique, NumbersRegistered
<1>3. AcceptedNumbersDistinct'
  BY DEF NumberInv, AcceptedNumbersDistinct
<1>4. TxnInOrder'
  BY <1>1 DEF NumberInv, TxnInOrder
<1>5. QED
  BY <1>2, <1>3, <1>4 DEF NumberInv

\* The reads of an accept keep NumberInv: the number follows one that was issued.
LEMMA AcceptBeginNumberInv ==
    ASSUME TypeInv, NumberInv, NEW q \in Request, AcceptBegin(q)
    PROVE  NumberInv'
<1> DEFINE n == NextNumber(community[FamilyOf[request[q].topic]], year)
<1>1. n.seq = 1 \/ \E p \in pids : p.number = Counter!Previous(n)
  BY NextNumberType DEF AcceptBegin, Writable
<1>2. txn' = [txn EXCEPT ![q] = [number |-> n, fresh |-> TRUE]]
  BY DEF AcceptBegin
<1> HIDE DEF n
<1>3. n.seq = 1 \/ Counter!Previous(n) \in Numbers
  BY <1>1 DEF Numbers
<1>4. Numbers' = Numbers
  BY DEF AcceptBegin, Numbers
<1>5. TxnInOrder'
  <2> SUFFICES ASSUME NEW x \in Request, txn'[x] # None
               PROVE  \/ txn'[x].number.seq = 1
                      \/ Counter!Previous(txn'[x].number) \in Numbers' \cup retired'
    BY DEF TxnInOrder
  <2>1. CASE x = q
    BY <1>2, <1>3, <1>4, <2>1 DEF TypeInv, TypeOK
  <2>2. CASE x # q
    BY <1>2, <1>4, <2>2 DEF TypeInv, TypeOK, NumberInv, TxnInOrder, AcceptBegin
  <2>3. QED
    BY <2>1, <2>2
<1>6. PidsUnique' /\ NumbersRegistered' /\ AcceptedNumbersDistinct'
  BY <1>4 DEF NumberInv, PidsUnique, NumbersRegistered, AcceptedNumbersDistinct,
              AcceptBegin
<1>7. QED
  BY <1>5, <1>6 DEF NumberInv

\* The commit of an accept keeps NumberInv: its number was free.
LEMMA AcceptCommitNumberInv ==
    ASSUME TypeInv, NumberInv, NEW q \in Request, AcceptCommit(q)
    PROVE  NumberInv'
<1> DEFINE r == request[q].topic
           f == FamilyOf[r]
           n == txn[q].number
           new == [number |-> n, object |-> r]
<1>1. /\ r \in Recid /\ f \in Family /\ n \in Number
  BY DEF TypeInv, TypeOK, TopicsKnown, TxnSound, AcceptCommit, Txn
<1>2. /\ \A p \in pids : p.number # n
      /\ pids' = pids \cup {new}
      /\ approval' = [approval EXCEPT ![f] = [number |-> n, approved |-> r,
                                             source |-> None, public |-> None]]
      /\ request' = [request EXCEPT ![q] = [status |-> "accepted", topic |-> r,
                                           number |-> n]]
      /\ txn' = [Invalidate(f) EXCEPT ![q] = None]
      /\ retired' = retired
  BY DEF AcceptCommit, Mint, NumberFree, Approved
<1>3. new \in pids' /\ new.number = n /\ new.object = r
  BY <1>2
<1> HIDE DEF r, f, n, new
<1>4. Numbers' = Numbers \cup {n} /\ n \notin Numbers
  BY <1>2, <1>3 DEF Numbers
<1>5. PidsUnique'
  BY <1>2, <1>3 DEF NumberInv, PidsUnique
<1>6. NumbersRegistered'
  <2>1. ASSUME NEW g \in Family, approval'[g].number # None
        PROVE  \/ approval'[g].number \in retired'
               \/ \E p \in pids' : /\ p.number = approval'[g].number
                                   /\ FamilyOf[p.object] = g
    <3>1. CASE g = f
      <4>1. approval'[g].number = n
        BY <1>2, <3>1 DEF TypeInv, TypeOK
      <4>2. FamilyOf[new.object] = g
        BY <1>3, <3>1 DEF f
      <4>3. QED
        BY <1>3, <4>1, <4>2
    <3>2. CASE g # f
      <4>1. approval'[g] = approval[g]
        BY <1>2, <3>2 DEF TypeInv, TypeOK
      <4>2. QED
        BY <1>2, <2>1, <4>1 DEF NumberInv, NumbersRegistered
    <3>3. QED
      BY <3>1, <3>2
  <2>2. ASSUME NEW x \in Request, request'[x].status = "accepted"
        PROVE  request'[x].number \in Numbers' \cup retired'
    BY <1>2, <1>4, <2>2 DEF TypeInv, TypeOK, NumberInv, NumbersRegistered
  <2>3. QED
    BY <2>1, <2>2 DEF NumbersRegistered
<1>7. AcceptedNumbersDistinct'
  <2> SUFFICES ASSUME NEW x \in Request, NEW y \in Request, x # y,
                      request'[x].status = "accepted",
                      request'[y].status = "accepted",
                      request'[x].number = request'[y].number
               PROVE  request'[x].number \in retired'
    BY DEF AcceptedNumbersDistinct
  <2>1. request'[q].number = n
    BY <1>2 DEF TypeInv, TypeOK
  <2>2. \A z \in Request : z # q => request'[z] = request[z]
    BY <1>2 DEF TypeInv, TypeOK
  <2>3. CASE x # q /\ y # q
    BY <1>2, <2>2, <2>3 DEF NumberInv, AcceptedNumbersDistinct
  <2>4. CASE x = q \/ y = q
    BY <1>2, <1>4, <2>1, <2>2, <2>4 DEF NumberInv, NumbersRegistered
  <2>5. QED
    BY <2>3, <2>4
<1>8. TxnInOrder'
  <2> SUFFICES ASSUME NEW x \in Request, txn'[x] # None
               PROVE  \/ txn'[x].number.seq = 1
                      \/ Counter!Previous(txn'[x].number) \in Numbers' \cup retired'
    BY DEF TxnInOrder
  <2>1. txn[x] # None /\ txn'[x].number = txn[x].number
    BY <1>1, <1>2, InvalidateType
  <2>2. QED
    BY <1>2, <1>4, <2>1 DEF NumberInv, TxnInOrder
<1>9. QED
  BY <1>5, <1>6, <1>7, <1>8 DEF NumberInv

\* What cds-admin delete does to the numbers: rows become retired numbers.
LEMMA DeleteRecordNumbers ==
    ASSUME NumberInv, NEW r \in Recid, DeleteRecord(r)
    PROVE  /\ Numbers' \subseteq Numbers
           /\ retired' = retired \cup (Numbers \ Numbers')
           /\ \A p \in pids : p \in pids' \/ p.number \in retired'
<1> DEFINE mine == {p \in pids : p.object = r}
<1>1. pids' = pids \ mine /\ retired' = retired \cup {p.number : p \in mine}
  BY DEF DeleteRecord
<1>2. \A n : n \in Numbers \ Numbers' <=> n \in {p.number : p \in mine}
  BY <1>1 DEF NumberInv, PidsUnique, Numbers
<1>3. Numbers \ Numbers' = {p.number : p \in mine}
  BY <1>2
<1>4. QED
  BY <1>1, <1>3 DEF Numbers

\* A deletion keeps NumberInv: the row it removes is retired.
LEMMA DeleteRecordNumberInv ==
    ASSUME TypeInv, NumberInv, NEW r \in Recid, DeleteRecord(r)
    PROVE  NumberInv'
<1> DEFINE f == FamilyOf[r]
<1>1. /\ pids' \subseteq pids
      /\ request' = request
      /\ \/ UNCHANGED <<approval, txn>>
         \/ /\ approval' = [approval EXCEPT ![f] = NoApproval]
            /\ txn' = Invalidate(f)
  BY DEF DeleteRecord
<1>2. /\ Numbers \cup retired \subseteq Numbers' \cup retired'
      /\ retired \subseteq retired'
      /\ \A p \in pids : p \in pids' \/ p.number \in retired'
  BY DeleteRecordNumbers
<1>3. PidsUnique'
  BY <1>1 DEF NumberInv, PidsUnique
<1>4. NumbersRegistered'
  <2>1. ASSUME NEW g \in Family, approval'[g].number # None
        PROVE  \/ approval'[g].number \in retired'
               \/ \E p \in pids' : /\ p.number = approval'[g].number
                                   /\ FamilyOf[p.object] = g
    <3>1. approval'[g] = approval[g]
      BY <1>1, <2>1 DEF TypeInv, TypeOK, NoApproval
    <3>2. QED
      BY <1>2, <2>1, <3>1 DEF NumberInv, NumbersRegistered
  <2>2. ASSUME NEW x \in Request, request'[x].status = "accepted"
        PROVE  request'[x].number \in Numbers' \cup retired'
    BY <1>1, <1>2, <2>2 DEF NumberInv, NumbersRegistered
  <2>3. QED
    BY <2>1, <2>2 DEF NumbersRegistered
<1>5. AcceptedNumbersDistinct'
  BY <1>1, <1>2 DEF NumberInv, AcceptedNumbersDistinct
<1>6. TxnInOrder'
  <2> SUFFICES ASSUME NEW x \in Request, txn'[x] # None
               PROVE  \/ txn'[x].number.seq = 1
                      \/ Counter!Previous(txn'[x].number) \in Numbers' \cup retired'
    BY DEF TxnInOrder
  <2>1. txn[x] # None /\ txn'[x].number = txn[x].number
    BY <1>1, InvalidateType
  <2>2. QED
    BY <1>2, <2>1 DEF NumberInv, TxnInOrder
<1>7. QED
  BY <1>3, <1>4, <1>5, <1>6 DEF NumberInv

\* The remaining actions keep NumberInv.
LEMMA OtherNumberInv ==
    ASSUME TypeInv, NumberInv,
           \/ NewYear
           \/ \E r \in Recid : PublishVersion(r)
           \/ \E f \in Family, c \in Community \cup {None} : ChangeCommunity(f, c)
           \/ \E q \in Request, r \in Recid : Submit(q, r)
           \/ \E q \in Request : \/ AcceptRollback(q) \/ RefreshIndex(q)
                                 \/ Decline(q) \/ Cancel(q)
           \/ \E r \in Recid : RefreshVersions(r)
           \/ UNCHANGED vars
    PROVE  NumberInv'
<1>1. CASE NewYear \/ UNCHANGED vars \/ \E r \in Recid : PublishVersion(r) \/ RefreshVersions(r)
  BY <1>1, NumberFrame DEF NewYear, vars, PublishVersion, RefreshVersions
<1>2. ASSUME NEW f \in Family, NEW c \in Community \cup {None}, ChangeCommunity(f, c)
      PROVE  NumberInv'
  BY <1>2, NumberFrame, InvalidateType DEF ChangeCommunity
<1>3. ASSUME NEW q \in Request, NEW r \in Recid, Submit(q, r)
      PROVE  NumberInv'
  <2>1. FamilyOf[r] \in Family
    OBVIOUS
  <2>2. \A x \in Request : request'[x].status = "accepted" => request'[x] = request[x]
    BY <1>3 DEF Submit, TypeInv, TypeOK
  <2>3. QED
    BY <1>3, <2>1, <2>2, NumberFrame, InvalidateType DEF Submit
<1>4. ASSUME NEW q \in Request, AcceptRollback(q) \/ RefreshIndex(q)
      PROVE  NumberInv'
  BY <1>4, NumberFrame DEF AcceptRollback, RefreshIndex, RefreshVersions, TypeInv, TypeOK
<1>5. ASSUME NEW q \in Request, NEW outcome \in {"declined", "cancelled"},
             Close(q, outcome)
      PROVE  NumberInv'
  <2>1. FamilyOf[request[q].topic] \in Family
    BY <1>5 DEF Close, TypeInv, TypeOK, TopicsKnown
  <2>2. \A x \in Request : request'[x].status = "accepted" => request'[x] = request[x]
    BY <1>5 DEF Close, TypeInv, TypeOK
  <2>3. QED
    BY <1>5, <2>1, <2>2, NumberFrame, InvalidateType DEF Close
<1>6. QED
  BY <1>1, <1>2, <1>3, <1>4, <1>5 DEF Decline, Cancel

\* No number has been issued to begin with.
LEMMA InitNumberInv == Init => NumberInv
BY DEF Init, NumberInv, PidsUnique, NumbersRegistered, AcceptedNumbersDistinct,
       TxnInOrder, NoApproval

\* Every step keeps NumberInv.
LEMMA NextNumberInv == TypeInv /\ NumberInv /\ [Next]_vars => NumberInv'
<1> SUFFICES ASSUME TypeInv, NumberInv, [Next]_vars PROVE NumberInv'
  OBVIOUS
<1>1. CASE \E q \in Request : AcceptBegin(q)
  BY <1>1, AcceptBeginNumberInv
<1>2. CASE \E q \in Request : AcceptCommit(q)
  BY <1>2, AcceptCommitNumberInv
<1>3. CASE \E r \in Recid : DeleteRecord(r)
  BY <1>3, DeleteRecordNumberInv
<1>4. QED
  BY <1>1, <1>2, <1>3, OtherNumberInv DEF Next

-----------------------------------------------------------------------------
(* Requests, what the parents say of them, and grants                      *)

HistoryInv == VersionsKept /\ TopicsPublished

\* No version exists to begin with.
LEMMA InitHistoryInv == Init => HistoryInv
BY DEF Init, HistoryInv, VersionsKept, TopicsPublished

\* The versions state falls back to a version that exists, if not to the newest.
LEMMA DeleteRecordHistoryInv ==
    ASSUME TypeInv, HistoryInv, NEW r \in Recid, DeleteRecord(r)
    PROVE  HistoryInv'
<1>1. /\ live' = live \ {r}
      /\ UNCHANGED <<index, request>>
  BY DEF DeleteRecord
<1>2. \A g \in Family : latest[g] # 0 => latest'[g] # 0
  <2>1. CASE UNCHANGED latest
    BY <2>1
  <2>2. CASE ~ UNCHANGED latest
    <3>1. PICK s \in live : latest' = [latest EXCEPT ![FamilyOf[r]] = index[s]]
      BY <2>2 DEF DeleteRecord
    <3>2. index[s] # 0
      BY DEF HistoryInv, VersionsKept
    <3>3. QED
      BY <3>1, <3>2 DEF TypeInv, TypeOK
  <2>3. QED
    BY <2>1, <2>2
<1>3. QED
  BY <1>1, <1>2 DEF HistoryInv, VersionsKept, TopicsPublished, TypeInv, TypeOK

\* Every step keeps HistoryInv.
LEMMA NextHistoryInv == TypeInv /\ HistoryInv /\ [Next]_vars => HistoryInv'
<1> SUFFICES ASSUME TypeInv, HistoryInv, [Next]_vars PROVE HistoryInv'
  OBVIOUS
<1>1. ASSUME NEW r \in Recid, PublishVersion(r) PROVE HistoryInv'
  <2>1. FamilyOf[r] \in Family
    OBVIOUS
  <2>2. QED
    BY <1>1, <2>1 DEF PublishVersion, HistoryInv, VersionsKept, TopicsPublished,
                      TypeInv, TypeOK, TopicsKnown
<1>2. ASSUME NEW q \in Request, NEW r \in Recid, Submit(q, r) PROVE HistoryInv'
  BY <1>2 DEF Submit, HistoryInv, VersionsKept, TopicsPublished, TypeInv, TypeOK
<1>3. ASSUME NEW q \in Request, AcceptCommit(q) PROVE HistoryInv'
  BY <1>3 DEF AcceptCommit, HistoryInv, VersionsKept, TopicsPublished, TypeInv,
              TypeOK, TxnSound
<1>4. ASSUME NEW q \in Request, NEW outcome \in {"declined", "cancelled"},
             Close(q, outcome)
      PROVE  HistoryInv'
  BY <1>4 DEF Close, HistoryInv, VersionsKept, TopicsPublished, TypeInv, TypeOK
<1>5. ASSUME NEW r \in Recid, DeleteRecord(r) PROVE HistoryInv'
  BY <1>5, DeleteRecordHistoryInv
<1>6. CASE \/ NewYear
           \/ \E f \in Family, c \in Community \cup {None} : ChangeCommunity(f, c)
           \/ \E q \in Request : \/ AcceptBegin(q) \/ AcceptRollback(q)
                                 \/ RefreshIndex(q)
           \/ \E r \in Recid : RefreshVersions(r)
           \/ UNCHANGED vars
  BY <1>6 DEF NewYear, ChangeCommunity, AcceptBegin, AcceptRollback, RefreshIndex, RefreshVersions,
              vars, HistoryInv, VersionsKept, TopicsPublished
<1>7. QED
  BY <1>1, <1>2, <1>3, <1>4, <1>5, <1>6 DEF Next, Decline, Cancel

\* A family whose last version was deleted gets no version any more.
LEMMA NoRevival ==
    ASSUME TypeInv, [Next]_vars, NEW f \in Family,
           latest[f] # 0, Siblings(f) = {}
    PROVE  Siblings(f)' = {}
<1>1. ASSUME NEW r \in Recid, PublishVersion(r) PROVE Siblings(f)' = {}
  <2>1. FamilyOf[r] # f /\ live' = live \cup {r}
    BY <1>1 DEF PublishVersion
  <2>2. QED
    BY <2>1 DEF Siblings
<1>2. CASE live' \subseteq live
  BY <1>2 DEF Siblings
<1>3. CASE \/ NewYear
           \/ \E g \in Family, c \in Community \cup {None} : ChangeCommunity(g, c)
           \/ \E q \in Request, r \in Recid : Submit(q, r)
           \/ \E q \in Request : \/ AcceptBegin(q) \/ AcceptCommit(q)
                                 \/ AcceptRollback(q) \/ RefreshIndex(q)
                                 \/ Decline(q) \/ Cancel(q)
           \/ \E r \in Recid : DeleteRecord(r)
           \/ \E r \in Recid : RefreshVersions(r)
           \/ UNCHANGED vars
  BY <1>2, <1>3 DEF NewYear, ChangeCommunity, Submit, AcceptBegin, AcceptCommit,
                    AcceptRollback, RefreshIndex, RefreshVersions, Decline, Cancel, Close,
                    DeleteRecord, vars
<1>4. QED
  BY <1>1, <1>3 DEF Next

ReviewInv == GrantsOwned /\ ApprovalMatchesRequest /\ GrantsMatchRequests

\* There are no requests and grants to begin with.
LEMMA InitReviewInv == Init => ReviewInv
BY DEF Init, ReviewInv, GrantsOwned, ApprovalMatchesRequest, GrantsMatchRequests,
       NoApproval

\* The families with a request that have versions after a step had some before.
LEMMA ReviewedFamiliesLive ==
    ASSUME TypeInv, HistoryInv, [Next]_vars, NEW q \in Request,
           request[q].status # "none",
           NEW v \in live', FamilyOf[v] = FamilyOf[request[q].topic]
    PROVE  \E u \in live : FamilyOf[u] = FamilyOf[request[q].topic]
<1>1. ASSUME NEW f \in Family, latest[f] # 0, \A u \in live : FamilyOf[u] # f
      PROVE  \A u \in live' : FamilyOf[u] # f
  <2>1. Siblings(f)' = {}
    BY <1>1, NoRevival DEF Siblings
  <2>2. QED
    BY <2>1 DEF Siblings
<1>2. /\ FamilyOf[request[q].topic] \in Family
      /\ latest[FamilyOf[request[q].topic]] # 0
  BY DEF TypeInv, TopicsKnown, HistoryInv, VersionsKept, TopicsPublished
<1>3. QED
  BY <1>1, <1>2

\* Steps that touch no request, no approval and no grant.
LEMMA ReviewFrame ==
    ASSUME TypeInv, HistoryInv, ReviewInv, [Next]_vars,
           UNCHANGED <<request, approval, grants>>
    PROVE  ReviewInv'
<1> request' = request /\ approval' = approval /\ grants' = grants
  OBVIOUS
<1>1. GrantsOwned'
  BY DEF ReviewInv, GrantsOwned
<1>2. ASSUME NEW q \in Request, request[q].status # "none",
             NEW v \in live', FamilyOf[v] = FamilyOf[request[q].topic]
      PROVE  Siblings(FamilyOf[request[q].topic]) # {}
  BY <1>2, ReviewedFamiliesLive DEF Siblings
<1>3. ApprovalMatchesRequest'
  <2>1. ASSUME NEW q \in Request, request[q].status = "accepted",
               NEW v \in live', FamilyOf[v] = FamilyOf[request[q].topic]
        PROVE  approval[FamilyOf[request[q].topic]].number # None
    BY <1>2, <2>1 DEF ReviewInv, ApprovalMatchesRequest
  <2>2. ASSUME NEW f \in Family, approval[f].number # None
        PROVE  \E q \in Request : /\ request[q].status = "accepted"
                                  /\ request[q].topic = approval[f].approved
                                  /\ request[q].number = approval[f].number
    BY <2>2 DEF ReviewInv, ApprovalMatchesRequest
  <2>3. QED
    BY <2>1, <2>2 DEF ApprovalMatchesRequest, Siblings
<1>4. GrantsMatchRequests'
  <2>1. ASSUME NEW q \in Request, request[q].status \in {"submitted", "accepted"},
               NEW v \in live', FamilyOf[v] = FamilyOf[request[q].topic],
               request[q].topic \notin grants[FamilyOf[request[q].topic]]
        PROVE  \E p \in Request : /\ p # q
                                  /\ request[p].topic = request[q].topic
                                  /\ request[p].status \in {"declined", "cancelled"}
    <3>1. request[q].status # "none"
      BY <2>1
    <3>2. \E u \in live : FamilyOf[u] = FamilyOf[request[q].topic]
      BY <1>2, <2>1, <3>1 DEF Siblings
    <3>3. QED
      BY <2>1, <3>2 DEF ReviewInv, GrantsMatchRequests, Siblings
  <2>2. ASSUME NEW f \in Family, NEW g \in grants[f]
        PROVE  \E q \in Request : /\ request[q].topic = g
                                  /\ request[q].status \in {"submitted", "accepted"}
    BY <2>2 DEF ReviewInv, GrantsMatchRequests
  <2>3. QED
    BY <2>1, <2>2 DEF GrantsMatchRequests, Siblings
<1>5. QED
  BY <1>1, <1>3, <1>4 DEF ReviewInv

\* Submitting keeps ReviewInv: it grants what the request justifies.
LEMMA SubmitReviewInv ==
    ASSUME TypeInv, HistoryInv, ReviewInv,
           NEW q \in Request, NEW r \in Recid, Submit(q, r)
    PROVE  ReviewInv'
<1> DEFINE f == FamilyOf[r]
<1>1. /\ f \in Family
      /\ request[q].status = "none"
      /\ request' = [request EXCEPT ![q] = [status |-> "submitted", topic |-> r,
                                           number |-> None]]
      /\ grants' = [grants EXCEPT ![f] = @ \cup {r}]
      /\ UNCHANGED <<approval, live>>
  BY DEF Submit
<1>2. /\ request'[q].status = "submitted" /\ request'[q].topic = r
      /\ \A x \in Request : x # q => request'[x] = request[x]
      /\ \A x \in Request : request[x].status # "none" => request'[x] = request[x]
  BY <1>1 DEF TypeInv, TypeOK
<1>3. /\ grants'[f] = grants[f] \cup {r}
      /\ \A g \in Family : g # f => grants'[g] = grants[g]
      /\ live' = live
  BY <1>1 DEF TypeInv, TypeOK, Siblings
<1>4. GrantsOwned'
  BY <1>3 DEF ReviewInv, GrantsOwned
<1>5. ApprovalMatchesRequest'
  <2>1. ASSUME NEW g \in Family, approval'[g].number # None
        PROVE  \E x \in Request : /\ request'[x].status = "accepted"
                                  /\ request'[x].topic = approval'[g].approved
                                  /\ request'[x].number = approval'[g].number
    BY <1>1, <1>2, <2>1 DEF ReviewInv, ApprovalMatchesRequest, Siblings
  <2>2. ASSUME NEW x \in Request, request'[x].status = "accepted",
               NEW v \in live', FamilyOf[v] = FamilyOf[request'[x].topic]
        PROVE  approval'[FamilyOf[request'[x].topic]].number # None
    <3>1. request'[x] = request[x] /\ FamilyOf[request[x].topic] \in Family
      BY <1>2, <2>2 DEF TypeInv, TopicsKnown
    <3>2. QED
      BY <1>1, <1>3, <2>2, <3>1 DEF ReviewInv, ApprovalMatchesRequest, Siblings
  <2>3. QED
    BY <2>1, <2>2 DEF ApprovalMatchesRequest, Siblings
<1>6. GrantsMatchRequests'
  <2>1. ASSUME NEW g \in Family, NEW v \in grants'[g]
        PROVE  \E x \in Request : /\ request'[x].topic = v
                                  /\ request'[x].status \in {"submitted", "accepted"}
    <3>1. CASE v = r
      BY <1>2, <3>1
    <3>2. CASE v # r
      BY <1>2, <1>3, <2>1, <3>2 DEF ReviewInv, GrantsMatchRequests, Siblings
    <3>3. QED
      BY <3>1, <3>2
  <2>2. ASSUME NEW x \in Request,
               request'[x].status \in {"submitted", "accepted"},
               NEW v \in live', FamilyOf[v] = FamilyOf[request'[x].topic],
               request'[x].topic \notin grants'[FamilyOf[request'[x].topic]]
        PROVE  \E p \in Request : /\ p # x
                                  /\ request'[p].topic = request'[x].topic
                                  /\ request'[p].status \in {"declined", "cancelled"}
    <3>1. x # q /\ request'[x] = request[x] /\ FamilyOf[request[x].topic] \in Family
      BY <1>2, <1>3, <2>2 DEF TypeInv, TopicsKnown
    <3>2. PICK p \in Request : /\ p # x
                               /\ request[p].topic = request[x].topic
                               /\ request[p].status \in {"declined", "cancelled"}
      BY <1>3, <2>2, <3>1 DEF ReviewInv, GrantsMatchRequests, Siblings
    <3>3. QED
      BY <1>2, <3>1, <3>2
  <2>3. QED
    BY <2>1, <2>2 DEF GrantsMatchRequests, Siblings
<1>7. QED
  BY <1>4, <1>5, <1>6 DEF ReviewInv

\* Accepting keeps ReviewInv: parent and request change together.
LEMMA AcceptCommitReviewInv ==
    ASSUME TypeInv, HistoryInv, ReviewInv, NEW q \in Request, AcceptCommit(q)
    PROVE  ReviewInv'
<1> DEFINE r == request[q].topic
           f == FamilyOf[r]
           n == txn[q].number
<1>1. /\ r \in Recid /\ f \in Family /\ n \in Number /\ n # None
      /\ request[q].status = "submitted"
  BY DEF TypeInv, TypeOK, TopicsKnown, TxnSound, AcceptCommit, Txn
<1>2. /\ approval' = [approval EXCEPT ![f] = [number |-> n, approved |-> r,
                                             source |-> None, public |-> None]]
      /\ request' = [request EXCEPT ![q] = [status |-> "accepted", topic |-> r,
                                           number |-> n]]
      /\ UNCHANGED <<grants, live>>
  BY DEF AcceptCommit, Approved
<1> HIDE DEF n
<1>3. /\ request'[q] = [status |-> "accepted", topic |-> r, number |-> n]
      /\ \A x \in Request : x # q => request'[x] = request[x]
      /\ \A x \in Request : request'[x].topic = request[x].topic
      /\ approval'[f] = [number |-> n, approved |-> r, source |-> None,
                         public |-> None]
      /\ \A g \in Family : g # f => approval'[g] = approval[g]
      /\ live' = live
  BY <1>1, <1>2 DEF TypeInv, TypeOK, Siblings
<1>4. GrantsOwned'
  BY <1>2 DEF ReviewInv, GrantsOwned
<1>5. ApprovalMatchesRequest'
  <2>1. ASSUME NEW g \in Family, approval'[g].number # None
        PROVE  \E x \in Request : /\ request'[x].status = "accepted"
                                  /\ request'[x].topic = approval'[g].approved
                                  /\ request'[x].number = approval'[g].number
    <3>1. CASE g = f
      BY <1>3, <3>1
    <3>2. CASE g # f
      <4>1. PICK x \in Request : /\ request[x].status = "accepted"
                                 /\ request[x].topic = approval[g].approved
                                 /\ request[x].number = approval[g].number
        BY <1>3, <2>1, <3>2 DEF ReviewInv, ApprovalMatchesRequest, Siblings
      <4>2. x # q
        BY <1>1, <4>1
      <4>3. QED
        BY <1>3, <3>2, <4>1, <4>2
    <3>3. QED
      BY <3>1, <3>2
  <2>2. ASSUME NEW x \in Request, request'[x].status = "accepted",
               NEW v \in live', FamilyOf[v] = FamilyOf[request'[x].topic]
        PROVE  approval'[FamilyOf[request'[x].topic]].number # None
    <3>1. CASE x = q
      BY <1>1, <1>3, <3>1
    <3>2. CASE x # q
      <4>1. request'[x] = request[x] /\ FamilyOf[request[x].topic] \in Family
        BY <1>3, <2>2, <3>2 DEF TypeInv, TopicsKnown
      <4>2. approval[FamilyOf[request[x].topic]].number # None
        BY <1>3, <2>2, <4>1 DEF ReviewInv, ApprovalMatchesRequest, Siblings
      <4>3. QED
        BY <1>1, <1>3, <4>1, <4>2
    <3>3. QED
      BY <3>1, <3>2
  <2>3. QED
    BY <2>1, <2>2 DEF ApprovalMatchesRequest, Siblings
<1>6. GrantsMatchRequests'
  <2>1. ASSUME NEW g \in Family, NEW v \in grants'[g]
        PROVE  \E x \in Request : /\ request'[x].topic = v
                                  /\ request'[x].status \in {"submitted", "accepted"}
    <3>1. PICK x \in Request : /\ request[x].topic = v
                               /\ request[x].status \in {"submitted", "accepted"}
      BY <1>2 DEF ReviewInv, GrantsMatchRequests, Siblings
    <3>2. QED
      BY <1>3, <3>1
  <2>2. ASSUME NEW x \in Request,
               request'[x].status \in {"submitted", "accepted"},
               NEW v \in live', FamilyOf[v] = FamilyOf[request'[x].topic],
               request'[x].topic \notin grants'[FamilyOf[request'[x].topic]]
        PROVE  \E p \in Request : /\ p # x
                                  /\ request'[p].topic = request'[x].topic
                                  /\ request'[p].status \in {"declined", "cancelled"}
    <3>1. /\ request[x].status \in {"submitted", "accepted"}
          /\ FamilyOf[request[x].topic] \in Family
      BY <1>1, <1>3, <2>2 DEF TypeInv, TopicsKnown
    <3>2. PICK p \in Request : /\ p # x
                               /\ request[p].topic = request[x].topic
                               /\ request[p].status \in {"declined", "cancelled"}
      BY <1>2, <1>3, <2>2, <3>1 DEF ReviewInv, GrantsMatchRequests, Siblings
    <3>3. p # q
      BY <1>1, <3>2
    <3>4. QED
      BY <1>3, <3>2, <3>3
  <2>3. QED
    BY <2>1, <2>2 DEF GrantsMatchRequests, Siblings
<1>7. QED
  BY <1>4, <1>5, <1>6 DEF ReviewInv

\* Declining or cancelling keeps ReviewInv: it removes the grants of the version.
LEMMA CloseReviewInv ==
    ASSUME TypeInv, HistoryInv, ReviewInv, NEW q \in Request,
           NEW outcome \in {"declined", "cancelled"}, Close(q, outcome)
    PROVE  ReviewInv'
<1> DEFINE r == request[q].topic
           f == FamilyOf[r]
<1>1. /\ r \in Recid /\ f \in Family
      /\ request[q].status = "submitted"
      /\ request' = [request EXCEPT ![q].status = outcome]
      /\ grants' = [grants EXCEPT ![f] = @ \ {r}]
      /\ UNCHANGED <<approval, live>>
  BY DEF TypeInv, TypeOK, TopicsKnown, Close, WithoutGrant
<1>2. /\ request'[q].status = outcome /\ request'[q].topic = r
      /\ \A x \in Request : x # q => request'[x] = request[x]
      /\ \A x \in Request : request'[x].topic = request[x].topic
      /\ grants'[f] = grants[f] \ {r}
      /\ \A g \in Family : g # f => grants'[g] = grants[g]
      /\ live' = live
  BY <1>1 DEF TypeInv, TypeOK, Siblings
<1>3. GrantsOwned'
  BY <1>2 DEF ReviewInv, GrantsOwned
<1>4. ApprovalMatchesRequest'
  <2>1. ASSUME NEW g \in Family, approval'[g].number # None
        PROVE  \E x \in Request : /\ request'[x].status = "accepted"
                                  /\ request'[x].topic = approval'[g].approved
                                  /\ request'[x].number = approval'[g].number
    <3>1. PICK x \in Request : /\ request[x].status = "accepted"
                               /\ request[x].topic = approval[g].approved
                               /\ request[x].number = approval[g].number
      BY <1>1, <2>1 DEF ReviewInv, ApprovalMatchesRequest, Siblings
    <3>2. x # q
      BY <1>1, <3>1
    <3>3. QED
      BY <1>1, <1>2, <3>1, <3>2
  <2>2. ASSUME NEW x \in Request, request'[x].status = "accepted",
               NEW v \in live', FamilyOf[v] = FamilyOf[request'[x].topic]
        PROVE  approval'[FamilyOf[request'[x].topic]].number # None
    <3>1. x # q
      BY <1>2, <2>2
    <3>2. request'[x] = request[x] /\ FamilyOf[request[x].topic] \in Family
      BY <1>2, <2>2, <3>1 DEF TypeInv, TopicsKnown
    <3>3. QED
      BY <1>1, <1>2, <2>2, <3>2 DEF ReviewInv, ApprovalMatchesRequest, Siblings
  <2>3. QED
    BY <2>1, <2>2 DEF ApprovalMatchesRequest, Siblings
<1>5. GrantsMatchRequests'
  <2>1. ASSUME NEW g \in Family, NEW v \in grants'[g]
        PROVE  \E x \in Request : /\ request'[x].topic = v
                                  /\ request'[x].status \in {"submitted", "accepted"}
    <3>1. v \in grants[g] /\ v # r
      BY <1>2, <2>1 DEF ReviewInv, GrantsOwned
    <3>2. PICK x \in Request : /\ request[x].topic = v
                               /\ request[x].status \in {"submitted", "accepted"}
      BY <3>1 DEF ReviewInv, GrantsMatchRequests, Siblings
    <3>3. QED
      BY <1>2, <3>1, <3>2
  <2>2. ASSUME NEW x \in Request,
               request'[x].status \in {"submitted", "accepted"},
               NEW v \in live', FamilyOf[v] = FamilyOf[request'[x].topic],
               request'[x].topic \notin grants'[FamilyOf[request'[x].topic]]
        PROVE  \E p \in Request : /\ p # x
                                  /\ request'[p].topic = request'[x].topic
                                  /\ request'[p].status \in {"declined", "cancelled"}
    <3>1. x # q /\ request'[x] = request[x] /\ FamilyOf[request[x].topic] \in Family
      BY <1>2, <2>2 DEF TypeInv, TopicsKnown
    <3>2. CASE request[x].topic = r
      BY <1>2, <3>1, <3>2
    <3>3. CASE request[x].topic # r
      <4>1. request[x].topic \notin grants[FamilyOf[request[x].topic]]
        BY <1>1, <1>2, <2>2, <3>1, <3>3
      <4>2. PICK p \in Request : /\ p # x
                                 /\ request[p].topic = request[x].topic
                                 /\ request[p].status \in {"declined", "cancelled"}
        BY <1>2, <2>2, <3>1, <4>1 DEF ReviewInv, GrantsMatchRequests, Siblings
      <4>3. p # q
        BY <1>1, <4>2
      <4>4. QED
        BY <1>2, <3>1, <4>2, <4>3
    <3>4. QED
      BY <3>2, <3>3
  <2>3. QED
    BY <2>1, <2>2 DEF GrantsMatchRequests, Siblings
<1>6. QED
  BY <1>3, <1>4, <1>5 DEF ReviewInv

\* With the last version the parent goes, its approval and its grants.
LEMMA DeleteRecordReviewInv ==
    ASSUME TypeInv, HistoryInv, ReviewInv, [Next]_vars,
           NEW r \in Recid, DeleteRecord(r)
    PROVE  ReviewInv'
<1> DEFINE f == FamilyOf[r]
<1>1. CASE UNCHANGED <<grants, approval>>
  BY <1>1, ReviewFrame DEF DeleteRecord
<1>2. CASE ~ UNCHANGED <<grants, approval>>
  <2>1. /\ Siblings(f) = {r}
        /\ live' = live \ {r}
        /\ grants' = [grants EXCEPT ![f] = {}]
        /\ approval' = [approval EXCEPT ![f] = NoApproval]
        /\ request' = request
    BY <1>2 DEF DeleteRecord, LastVersion
  <2>2. /\ f \in Family
        /\ \A v \in live' : v \in live /\ FamilyOf[v] # f
        /\ grants'[f] = {} /\ approval'[f].number = None
        /\ \A g \in Family : g # f => /\ grants'[g] = grants[g]
                                      /\ approval'[g] = approval[g]
    BY <2>1 DEF TypeInv, TypeOK, Siblings, NoApproval
  <2>3. \A x \in Request : request[x].status # "none" =>
            FamilyOf[request[x].topic] \in Family
    BY DEF TypeInv, TopicsKnown
  <2>4. GrantsOwned'
    BY <2>2 DEF ReviewInv, GrantsOwned
  <2>5. ApprovalMatchesRequest'
    BY <2>1, <2>2, <2>3 DEF ReviewInv, ApprovalMatchesRequest, Siblings
  <2>6. GrantsMatchRequests'
    BY <2>1, <2>2, <2>3 DEF ReviewInv, GrantsMatchRequests, Siblings
  <2>7. QED
    BY <2>4, <2>5, <2>6 DEF ReviewInv
<1>3. QED
  BY <1>1, <1>2

\* Every step keeps ReviewInv.
LEMMA NextReviewInv ==
    TypeInv /\ HistoryInv /\ ReviewInv /\ [Next]_vars => ReviewInv'
<1> SUFFICES ASSUME TypeInv, HistoryInv, ReviewInv, [Next]_vars PROVE ReviewInv'
  OBVIOUS
<1>1. CASE \E q \in Request, r \in Recid : Submit(q, r)
  BY <1>1, SubmitReviewInv
<1>2. CASE \E q \in Request : AcceptCommit(q)
  BY <1>2, AcceptCommitReviewInv
<1>3. CASE \E q \in Request : Decline(q) \/ Cancel(q)
  BY <1>3, CloseReviewInv DEF Decline, Cancel
<1>4. CASE \E r \in Recid : DeleteRecord(r)
  BY <1>4, DeleteRecordReviewInv
<1>5. CASE \/ NewYear
           \/ \E r \in Recid : PublishVersion(r)
           \/ \E f \in Family, c \in Community \cup {None} : ChangeCommunity(f, c)
           \/ \E q \in Request : \/ AcceptBegin(q) \/ AcceptRollback(q)
                                 \/ RefreshIndex(q)
           \/ \E r \in Recid : RefreshVersions(r)
           \/ UNCHANGED vars
  <2>1. UNCHANGED <<request, approval, grants>>
    BY <1>5 DEF NewYear, PublishVersion, ChangeCommunity, AcceptBegin,
                AcceptRollback, RefreshIndex, RefreshVersions, vars
  <2>2. QED
    BY <2>1, ReviewFrame
<1>6. QED
  BY <1>1, <1>2, <1>3, <1>4, <1>5 DEF Next

\* The whole inductive invariant.
THEOREM Inductive == Spec => []IndInv
<1>1. TypeInv /\ NumberInv /\ HistoryInv /\ ReviewInv => IndInv
  BY DEF TypeInv, NumberInv, HistoryInv, ReviewInv, IndInv
<1>2. Spec => []NumberInv
  BY InitNumberInv, NextNumberInv, TypeCorrect, PTL DEF Spec
<1>3. Spec => []HistoryInv
  BY InitHistoryInv, NextHistoryInv, TypeCorrect, PTL DEF Spec
<1>4. Spec => []ReviewInv
  BY <1>3, InitReviewInv, NextReviewInv, TypeCorrect, PTL DEF Spec
<1>5. QED
  BY <1>1, <1>2, <1>3, <1>4, TypeCorrect, PTL

\* Accepting is all or nothing: the number and the version on a parent are
\* those of an accepted request, and an accepted request's family has one as
\* long as it has versions (CommitteeApprovalAcceptAction, cds-admin delete).
THEOREM ApprovalsMatchRequests == Spec => []ApprovalMatchesRequest
<1>1. IndInv => ApprovalMatchesRequest
  BY DEF IndInv
<1>2. QED
  BY <1>1, Inductive, PTL

\* Grants are there for pending and accepted requests only, and are missing
\* only when another request on the same version was closed.
THEOREM GrantsFollowRequests == Spec => []GrantsMatchRequests
<1>1. IndInv => GrantsMatchRequests
  BY DEF IndInv
<1>2. QED
  BY <1>1, Inductive, PTL

\* Referees read a version only while it or an earlier one is under review or
\* approved (CommitteeRefereeVersionGrant.needs).
THEOREM ReadersUnderReview == Spec => []ReadableOnlyUnderReview
<1>1. IndInv => ReadableOnlyUnderReview
  <2> SUFFICES ASSUME IndInv, NEW r \in live, RefereeCanRead(r)
               PROVE  \E q \in Request :
                        /\ request[q].status \in {"submitted", "accepted"}
                        /\ FamilyOf[request[q].topic] = FamilyOf[r]
                        /\ index[request[q].topic] <= index[r]
    BY DEF ReadableOnlyUnderReview
  <2>1. FamilyOf[r] \in Family
    BY DEF IndInv, TypeOK
  <2>2. PICK g \in grants[FamilyOf[r]] : index[r] >= index[g]
    BY DEF RefereeCanRead
  <2>3. FamilyOf[g] = FamilyOf[r]
    BY <2>1 DEF IndInv, GrantsOwned
  <2>4. PICK q \in Request : /\ request[q].topic = g
                             /\ request[q].status \in {"submitted", "accepted"}
    BY <2>1 DEF IndInv, GrantsMatchRequests
  <2>5. index[g] \in Nat /\ index[r] \in Nat
    BY <2>4 DEF IndInv, TopicsKnown, TypeOK
  <2>6. QED
    BY <2>2, <2>3, <2>4, <2>5
<1>2. QED
  BY <1>1, Inductive, PTL

\* Two families never share a report number, however accepts overlap, unless
\* its pidstore row was deleted in between (_issue_report_number).
THEOREM NumbersNotShared == Spec => []NoSharedNumber
<1>1. IndInv => NoSharedNumber
  <2> SUFFICES ASSUME IndInv, NEW f \in Family, NEW g \in Family, f # g,
                      approval[f].number # None,
                      approval[f].number = approval[g].number,
                      approval[f].number \notin retired
               PROVE  FALSE
    BY DEF NoSharedNumber
  <2>1. PICK p1 \in pids : p1.number = approval[f].number /\ FamilyOf[p1.object] = f
    BY DEF IndInv, NumbersRegistered
  <2>2. PICK p2 \in pids : p2.number = approval[g].number /\ FamilyOf[p2.object] = g
    BY DEF IndInv, NumbersRegistered
  <2>3. p1 = p2
    BY <2>1, <2>2 DEF IndInv, PidsUnique
  <2>4. QED
    BY <2>1, <2>2, <2>3
<1>2. QED
  BY <1>1, Inductive, PTL

\* No two accepted requests were told the same number, deletions aside.
THEOREM AcceptedNumbersAreDistinct == Spec => []AcceptedNumbersDistinct
<1>1. IndInv => AcceptedNumbersDistinct
  BY DEF IndInv
<1>2. QED
  BY <1>1, Inductive, PTL

-----------------------------------------------------------------------------
(* Step properties and refinement                                          *)

\* A closed request stays as it is: an accept that began before a decline or
\* a cancel cannot commit after it (the parent row is version-checked).
THEOREM ClosedStaysClosed == Spec => ClosedForGood
<1> DEFINE Closed(q) == request[q].status \in {"accepted", "declined", "cancelled"}
           Step == \A q \in Request : Closed(q) => request'[q] = request[q]
<1>1. TypeInv /\ [Next]_vars => [Step]_vars
  <2> SUFFICES ASSUME TypeInv, [Next]_vars, NEW q \in Request, Closed(q)
               PROVE  request'[q] = request[q]
    OBVIOUS
  <2>1. CASE \E x \in Request, r \in Recid : Submit(x, r)
    BY <2>1 DEF Submit, TypeInv, TypeOK
  <2>2. CASE \E x \in Request : AcceptCommit(x)
    BY <2>2 DEF AcceptCommit, TypeInv, TypeOK, TxnSound
  <2>3. CASE \E x \in Request : Decline(x) \/ Cancel(x)
    BY <2>3 DEF Decline, Cancel, Close, TypeInv, TypeOK
  <2>4. CASE \/ NewYear
             \/ \E r \in Recid : PublishVersion(r) \/ DeleteRecord(r)
             \/ \E f \in Family, c \in Community \cup {None} : ChangeCommunity(f, c)
             \/ \E x \in Request : \/ AcceptBegin(x) \/ AcceptRollback(x)
                                   \/ RefreshIndex(x)
             \/ \E r \in Recid : RefreshVersions(r)
             \/ UNCHANGED vars
    BY <2>4 DEF NewYear, PublishVersion, DeleteRecord, ChangeCommunity, AcceptBegin,
                AcceptRollback, RefreshIndex, RefreshVersions, vars
  <2>5. QED
    BY <2>1, <2>2, <2>3, <2>4 DEF Next
<1>2. QED
  BY <1>1, TypeCorrect, PTL DEF Spec, ClosedForGood

\* Which step issues a number, which steps retire numbers, and that all the
\* others leave the counter alone.
LEMMA CounterStep ==
    ASSUME TypeInv, NumberInv, [Next]_vars
    PROVE  [Counter!Next]_(Counter!counterVars)
<1>1. ASSUME NEW q \in Request, AcceptCommit(q)
      PROVE  Counter!Issue
  <2> DEFINE n == txn[q].number
             new == [number |-> n, object |-> request[q].topic]
  <2>1. /\ \A p \in pids : p.number # n
        /\ pids' = pids \cup {new}
        /\ retired' = retired
        /\ n.seq = 1 \/ Counter!Previous(n) \in Numbers \cup retired
    BY <1>1 DEF AcceptCommit, Mint, NumberFree, NumberInv, TxnInOrder
  <2>2. new \in pids' /\ new.number = n
    BY <2>1
  <2> HIDE DEF n, new
  <2>3. Numbers' = Numbers \cup {n} /\ n \notin Numbers
    BY <2>1, <2>2 DEF Numbers
  <2>4. QED
    BY <2>1, <2>3 DEF Counter!Issue
<1>2. ASSUME NEW r \in Recid, DeleteRecord(r)
      PROVE  Counter!Retire
  BY <1>2, DeleteRecordNumbers DEF Counter!Retire
<1>3. ASSUME UNCHANGED <<pids, retired>>
      PROVE  UNCHANGED Counter!counterVars
  BY <1>3 DEF Numbers, Counter!counterVars
<1>4. CASE \/ NewYear
           \/ \E r \in Recid : PublishVersion(r)
           \/ \E f \in Family, c \in Community \cup {None} : ChangeCommunity(f, c)
           \/ \E q \in Request, r \in Recid : Submit(q, r)
           \/ \E q \in Request : \/ AcceptBegin(q) \/ AcceptRollback(q)
                                 \/ RefreshIndex(q) \/ Decline(q) \/ Cancel(q)
           \/ \E r \in Recid : RefreshVersions(r)
           \/ UNCHANGED vars
  <2>1. UNCHANGED <<pids, retired>>
    BY <1>4 DEF NewYear, PublishVersion, ChangeCommunity, Submit, AcceptBegin,
                AcceptRollback, RefreshIndex, RefreshVersions, Decline, Cancel, Close, vars
  <2>2. QED
    BY <2>1, <1>3
<1>5. QED
  BY <1>1, <1>2, <1>4 DEF Next, Counter!Next

\* The workflow implements the counter: numbers are issued once each, in
\* order and without gaps, although accepts scan and insert separately.
THEOREM CounterImplemented == Spec => ImplementsCounter
<1>1. Init => Counter!Init
  BY DEF Init, Numbers, Counter!Init
<1>2. TypeInv /\ NumberInv /\ [Next]_vars => [Counter!Next]_(Counter!counterVars)
  BY CounterStep
<1>3. IndInv => TypeInv /\ NumberInv
  BY DEF IndInv, TypeInv, NumberInv
<1>4. QED
  BY <1>1, <1>2, <1>3, Inductive, PTL DEF Spec, ImplementsCounter, Counter!Spec

-----------------------------------------------------------------------------
(* PublishPublic                                                           *)

USE CopyAssumption

CallType ==
    /\ call \in [Call -> CallState \cup {None}]
    /\ draft \subseteq CopyRecid /\ early \subseteq CopyRecid

Issued == Numbers \cup retired

IsCopyFamily(f) == \E d \in CopyRecid : FamilyOf[d] = f

\* Some referee accepted number n for family f.
AcceptedFor(f, n) ==
    \E q \in Request : /\ request[q].status = "accepted"
                       /\ request[q].number = n
                       /\ FamilyOf[request[q].topic] = f

\* Number n is what version s may hand on to a copy.
CarriesFrom(s, n) ==
    \/ AcceptedFor(FamilyOf[s], n)
    \/ s \in CopyRecid /\ (approval[FamilyOf[s]].number = n \/ s \notin live \/ s \in early)

\* Copy d was published from family f, with its number; it may be deleted by now.
PublishedFrom(d, f) ==
    /\ d \in CopyRecid /\ index[d] # 0 /\ d \notin early
    /\ d \in live => /\ approval[FamilyOf[d]].source # None
                     /\ FamilyOf[approval[FamilyOf[d]].source] = f

\* Versions and drafts of copies.
CopyState ==
    /\ \A r \in live : index[r] # 0
    /\ \A d \in CopyRecid : index[d] = latest[FamilyOf[d]]
    /\ \A d \in draft : index[d] = 0
    /\ \A d \in early : index[d] # 0

\* Copies under review were published without a source.
NoReview ==
    \A q \in Request : LET d == request[q].topic IN
        request[q].status # "none" =>
            /\ index[d] # 0
            /\ d \in CopyRecid \ early => approval[FamilyOf[d]].source = None

\* What a parent says, or is read to say: its number was issued, and for this
\* family unless it is a copy's; a source could hand the number on; the marker
\* names a copy of the family.
Truthful(a, f) ==
    /\ a.number # None => /\ a.number \in Issued
                          /\ a.source # None \/ AcceptedFor(f, a.number)
    /\ a.source # None => /\ a.number # None /\ IsCopyFamily(f) /\ index[a.source] # 0
                          /\ CarriesFrom(a.source, a.number)
    /\ a.public # None => PublishedFrom(a.public, f)

Parents == \A f \in Family : Truthful(approval[f], f)

\* What a running call holds: nobody took its source from under it, what it read
\* of the parent is still true, and its copy has the source that its step says.
CallOK(c) ==
    /\ index[c.src] # 0
    /\ c.ea.number # None /\ c.ea.public = None /\ Truthful(c.ea, FamilyOf[c.src])
    /\ c.src \in (CopyRecid \cap live) \ early =>
          /\ c.ea.source = approval[FamilyOf[c.src]].source
          /\ c.ea.source # None => c.ea.number = approval[FamilyOf[c.src]].number
    /\ c.step = "read" => c.copy = None
    /\ c.step # "read" => c.copy \in CopyRecid
    /\ c.step = "created" =>
          /\ c.copy \notin early
          /\ c.copy \in live \cup draft => approval[FamilyOf[c.copy]].source = None
    /\ c.step = "draft" /\ c.copy \in draft => approval[FamilyOf[c.copy]].source = c.src
    /\ c.step \in {"published", "marked"} => PublishedFrom(c.copy, FamilyOf[c.src])

CallSound == \A k \in Call : call[k] # None => CallOK(call[k])

\* The copy is the call's own.
UniqueCopies ==
    \A j, k \in Call : /\ j # k /\ call[j] # None /\ call[k] # None
                       /\ call[j].copy # None
                       => call[j].copy # call[k].copy

\* Copies of f, published or not.
Offspring(f) == {d \in CopyRecid \cap (live \cup draft) :
                    /\ approval[FamilyOf[d]].source # None
                    /\ FamilyOf[approval[FamilyOf[d]].source] = f}

\* Call k is at work on family f.
RunsOn(k, f) == call[k] # None /\ FamilyOf[call[k].src] = f

\* In a family nothing disturbed, one call works at a time, the only copy is its
\* copy, and between calls a copy is marked.
Orderly(f) ==
    /\ \A j, k \in Call : RunsOn(j, f) /\ RunsOn(k, f) => j = k
    /\ \A k \in Call : RunsOn(k, f) =>
          /\ call[k].step \in {"read", "created"} => Offspring(f) = {}
          /\ Offspring(f) \subseteq {call[k].copy}
          /\ call[k].step = "marked" => approval[f].public # None
    /\ \A d, e \in Offspring(f) : d = e
    /\ (\A k \in Call : ~ RunsOn(k, f)) =>
          /\ Offspring(f) \subseteq live
          /\ Offspring(f) # {} => approval[f].public # None

\* No copy of f was published early, nor did a call read that one was.
Timely(f) ==
    /\ \A d \in early : LET s == approval[FamilyOf[d]].source IN
          s = None \/ FamilyOf[s] # f
    /\ \A k \in Call : call[k] # None /\ call[k].src \in early =>
          call[k].ea.source = None \/ FamilyOf[call[k].ea.source] # f

Undisturbed == \A f \in Family \ excused : Orderly(f) /\ Timely(f)

PubInv == TypeInv /\ CallType /\ CopyState /\ NoReview /\ Parents /\ CallSound /\ UniqueCopies

-----------------------------------------------------------------------------
(* Typing                                                                  *)

\* A family with a copy has no other version.
LEMMA OnlyCopy ==
    ASSUME NEW d \in CopyRecid, NEW r \in Recid, FamilyOf[r] = FamilyOf[d]
    PROVE  r = d
OBVIOUS

\* What a running call holds is typed.
LEMMA CallFields ==
    ASSUME TypeInv, CallType, NEW k \in Call, call[k] # None
    PROVE  /\ call[k] \in CallState
           /\ call[k].src \in Recid /\ call[k].ea \in Approval
           /\ SourceFamily(k) = FamilyOf[call[k].src] /\ SourceFamily(k) \in Family
           /\ call[k].copy \in CopyRecid \cup {None}
<1>1. call[k] \in CallState
  BY DEF CallType
<1>2. call[k].src \in Recid /\ call[k].ea \in Approval /\ call[k].copy \in CopyRecid \cup {None}
  BY <1>1 DEF CallState
<1> QED
  BY <1>1, <1>2 DEF SourceFamily

\* Publishing a draft keeps TypeInv: it is the first version of its family.
LEMMA PublishDraftType ==
    ASSUME TypeInv, CallType, NEW d \in CopyRecid, PublishDraft(d)
    PROVE  TypeInv'
<1>1. TypeOK'
  BY DEF TypeInv, TypeOK, PublishDraft
<1>2. BoundedSeqs' /\ TopicsKnown' /\ TxnSound'
  BY DEF TypeInv, BoundedSeqs, TopicsKnown, TxnSound, PublishDraft
<1> QED
  BY <1>1, <1>2 DEF TypeInv

\* The parent of a numbered copy, and the source's parent with its marker, are typed.
LEMMA ApprovalTyped ==
    ASSUME TypeInv, CallType, NEW k \in Call, call[k] # None
    PROVE  /\ CopyApproval(k) \in Approval
           /\ CopyApproval(k).number = call[k].ea.number /\ CopyApproval(k).source = call[k].src
           /\ CopyApproval(k).public = None
           /\ Marked(k) \in Approval
           /\ Marked(k).number = call[k].ea.number /\ Marked(k).source = call[k].ea.source
           /\ Marked(k).public = call[k].copy
<1>1. PICK e \in Approval : e = call[k].ea
  BY CallFields
<1>2. PICK s \in Recid : s = call[k].src
  BY CallFields
<1>3. PICK d \in Recid \cup {None} : d = call[k].copy
  BY CallFields
<1>4. /\ CopyApproval(k) = [number |-> e.number, approved |-> None, source |-> s, public |-> None]
      /\ Marked(k) = [e EXCEPT !.public = d]
  BY <1>1, <1>2, <1>3 DEF CopyApproval, Marked
<1> QED
  BY <1>1, <1>2, <1>3, <1>4 DEF Approval

\* A parent that says nothing.
LEMMA NoApprovalType ==
    /\ NoApproval \in Approval
    /\ NoApproval.number = None /\ NoApproval.source = None /\ NoApproval.public = None
BY DEF NoApproval, Approval

\* The commits of a call that write to parents keep TypeInv.
LEMMA ParentWriteType ==
    ASSUME TypeInv, CallType,
           \/ \E k \in Call, d \in CopyRecid : CreateDraft(k, d)
           \/ \E d \in CopyRecid : OwnerDiscards(d)
           \/ \E k \in Call : call[k].copy \in CopyRecid /\ NumberDraft(k)
           \/ \E k \in Call : WriteMarker(k)
    PROVE  TypeInv'
<1>1. UNCHANGED <<year, index, live, listed, latest, latestId, request, indexed, pids, retired>>
  BY DEF CreateDraft, OwnerDiscards, NumberDraft, WriteMarker
<1>2. BoundedSeqs' /\ TopicsKnown'
  BY <1>1 DEF TypeInv, BoundedSeqs, TopicsKnown
<1>3. ASSUME NEW d \in CopyRecid, (\E k \in Call : CreateDraft(k, d)) \/ OwnerDiscards(d)
      PROVE  TypeInv'
  <2>1. /\ approval' = [approval EXCEPT ![FamilyOf[d]] = NoApproval]
        /\ community' = [community EXCEPT ![FamilyOf[d]] = None]
        /\ UNCHANGED <<grants, txn>>
    BY <1>3 DEF CreateDraft, OwnerDiscards
  <2>2. TypeOK' /\ TxnSound'
    BY <1>1, <2>1, NoApprovalType DEF TypeInv, TypeOK, TxnSound
  <2> QED
    BY <1>2, <2>2 DEF TypeInv
<1>4. ASSUME NEW k \in Call, call[k].copy \in CopyRecid, NumberDraft(k) PROVE TypeInv'
  <2>1. call[k] # None /\ call[k] \in CallState
    BY <1>4, CallFields DEF NumberDraft
  <2>2. call[k].community \in Community /\ CopyApproval(k) \in Approval
    BY <2>1, ApprovalTyped DEF CallState
  <2>3. PICK g \in Family : g = FamilyOf[call[k].copy]
    BY <1>4
  <2>4. /\ community' = [community EXCEPT ![g] = call[k].community]
        /\ approval' = [approval EXCEPT ![g] = CopyApproval(k)]
        /\ grants' = [grants EXCEPT ![g] = {}]
        /\ txn' = Invalidate(g)
    BY <1>4, <2>3 DEF NumberDraft
  <2>5. TypeOK'
    BY <1>1, <2>2, <2>4, InvalidateType DEF TypeInv, TypeOK
  <2>6. TxnSound'
    BY <1>1, <2>4, InvalidateType DEF TypeInv, TxnSound
  <2> QED
    BY <1>2, <2>5, <2>6 DEF TypeInv
<1>5. ASSUME NEW k \in Call, WriteMarker(k) PROVE TypeInv'
  <2>1. call[k] # None /\ call[k] \in CallState
    BY <1>5, CallFields DEF WriteMarker
  <2>2. call[k].grants \in SUBSET Recid /\ Marked(k) \in Approval /\ SourceFamily(k) \in Family
    BY <2>1, ApprovalTyped, CallFields DEF CallState
  <2>3. TypeOK'
    BY <1>1, <1>5, <2>2, InvalidateType DEF TypeInv, TypeOK, WriteMarker
  <2>4. TxnSound'
    BY <1>1, <1>5, <2>2, InvalidateType DEF TypeInv, TxnSound, WriteMarker
  <2> QED
    BY <1>2, <2>3, <2>4 DEF TypeInv
<1> QED
  BY <1>3, <1>4, <1>5

\* Every step keeps TypeInv.
LEMMA PTypeInv ==
    ASSUME TypeInv, CallType,
           \A k \in Call : call[k] # None /\ call[k].step # "read" => call[k].copy \in CopyRecid,
           [PNext]_allVars
    PROVE  TypeInv'
<1>1. CASE WorkflowStep
  <2>1. [Next]_vars
    BY <1>1 DEF WorkflowStep, Next
  <2> QED
    BY <2>1, NextTypeInv
<1>2. CASE \/ \E k \in Call, r \in Recid : Start(k, r)
           \/ \E k \in Call : Fail(k) \/ WriteBackLink(k) \/ Warn(k)
           \/ UNCHANGED allVars
  <2>1. UNCHANGED vars
    BY <1>2 DEF Start, Fail, WriteBackLink, Warn, allVars
  <2> QED
    BY <2>1, NextTypeInv
<1>3. CASE (\E k \in Call : PublishCopy(k)) \/ (\E d \in CopyRecid : OwnerPublishes(d))
  BY <1>3, PublishDraftType DEF PublishCopy, OwnerPublishes
<1>4. CASE \E k \in Call : NumberDraft(k)
  <2>1. PICK k \in Call : NumberDraft(k)
    BY <1>4
  <2>2. call[k].copy \in CopyRecid
    BY <2>1 DEF NumberDraft
  <2> QED
    BY <2>1, <2>2, ParentWriteType
<1>5. CASE \/ \E k \in Call, d \in CopyRecid : CreateDraft(k, d)
           \/ \E d \in CopyRecid : OwnerDiscards(d)
           \/ \E k \in Call : WriteMarker(k)
  BY <1>5, ParentWriteType
<1> QED
  BY <1>1, <1>2, <1>3, <1>4, <1>5 DEF PNext

\* Call k goes on to step t, with copy d.
Moves(k, t, d) ==
    /\ call[k] # None /\ call'[k] # None
    /\ call'[k].src = call[k].src /\ call'[k].ea = call[k].ea
    /\ call'[k].step = t /\ call'[k].copy = d

\* The other calls wait.
OthersWait(k) == \A j \in Call : j # k => call'[j] = call[j]

\* What the first commit makes of a call.
LEMMA CreateDraftMoves ==
    ASSUME TypeInv, CallType, NEW k \in Call, NEW d \in CopyRecid, CreateDraft(k, d)
    PROVE  /\ Moves(k, "created", d) /\ OthersWait(k)
           /\ call' \in [Call -> CallState \cup {None}]
<1>1. PICK b \in CallState : b = call[k]
  BY CallFields DEF CreateDraft
<1> DEFINE drafted == [call EXCEPT ![k] = [b EXCEPT !.step = "created"]]
<1>2. [b EXCEPT !.step = "created"] \in CallState
  BY DEF CallState
<1>3. /\ drafted[k] \in CallState /\ drafted[k].src = b.src /\ drafted[k].ea = b.ea
      /\ drafted[k].step = "created" /\ drafted \in [Call -> CallState \cup {None}]
      /\ \A j \in Call : j # k => drafted[j] = call[j]
  BY <1>2 DEF CallState, CallType
<1>4. call' = [drafted EXCEPT ![k] = [drafted[k] EXCEPT !.copy = d]]
  BY <1>1 DEF CreateDraft
<1> HIDE DEF drafted
<1>5. call'[k] = [drafted[k] EXCEPT !.copy = d] /\ call'[k] \in CallState
  BY <1>3, <1>4 DEF CallState
<1>6. call'[k].step = "created" /\ call'[k].src = b.src /\ call'[k].ea = b.ea /\ call'[k].copy = d
  BY <1>3, <1>5 DEF CallState
<1>7. Moves(k, "created", d)
  BY <1>1, <1>5, <1>6 DEF Moves, CreateDraft
<1>8. OthersWait(k)
  BY <1>3, <1>4 DEF OthersWait
<1> QED
  BY <1>3, <1>4, <1>5, <1>7, <1>8

\* The number, the publication and the marker.
LEMMA CommitMoves ==
    ASSUME TypeInv, CallType, NEW k \in Call,
           NumberDraft(k) \/ PublishCopy(k) \/ WriteMarker(k)
    PROVE  /\ NumberDraft(k) => Moves(k, "draft", call[k].copy)
           /\ PublishCopy(k) => Moves(k, "published", call[k].copy)
           /\ WriteMarker(k) => Moves(k, "marked", call[k].copy)
           /\ OthersWait(k)
           /\ call' \in [Call -> CallState \cup {None}]
<1>1. PICK b \in CallState : b = call[k]
  BY CallFields DEF NumberDraft, PublishCopy, WriteMarker
<1>2. ASSUME NEW t \in {"draft", "published", "marked"}, call' = [call EXCEPT ![k].step = t]
      PROVE  /\ Moves(k, t, call[k].copy) /\ OthersWait(k)
             /\ call' \in [Call -> CallState \cup {None}]
  <2>1. call'[k] = [b EXCEPT !.step = t] /\ call'[k] \in CallState
    BY <1>1, <1>2 DEF CallState, CallType
  <2>2. call'[k].step = t /\ call'[k].src = b.src /\ call'[k].ea = b.ea /\ call'[k].copy = b.copy
    BY <2>1 DEF CallState
  <2>3. OthersWait(k) /\ call' \in [Call -> CallState \cup {None}]
    BY <1>2, <2>1 DEF CallType, OthersWait
  <2> QED
    BY <1>1, <1>2, <2>1, <2>2, <2>3 DEF Moves, CallType
<1> QED
  BY <1>2 DEF NumberDraft, PublishCopy, WriteMarker

\* Every step keeps the calls typed.
LEMMA PCallType ==
    ASSUME TypeInv, CallType, [PNext]_allVars
    PROVE  CallType'
<1>1. CASE WorkflowStep \/ UNCHANGED allVars
  BY <1>1 DEF CallType, WorkflowStep, allVars, callVars
<1>2. ASSUME NEW k \in Call, NEW r \in Recid, Start(k, r) PROVE CallType'
  <2> DEFINE f == FamilyOf[r]
             c == [step |-> "read", src |-> r, ea |-> approval[f],
                   grants |-> grants[f], community |-> community[f], copy |-> None]
  <2>1. approval[f] \in Approval /\ grants[f] \in SUBSET Recid /\ community[f] \in Community
    BY <1>2 DEF TypeInv, TypeOK, Start
  <2>2. c \in CallState
    BY <2>1 DEF CallState
  <2>3. call' = [call EXCEPT ![k] = c] /\ draft' = draft /\ early' = early
    BY <1>2 DEF Start
  <2> QED
    BY <2>2, <2>3 DEF CallType
<1>3. ASSUME NEW k \in Call, NEW d \in CopyRecid, CreateDraft(k, d) PROVE CallType'
  BY <1>3, CreateDraftMoves DEF CallType, CreateDraft
<1>4. ASSUME NEW k \in Call, NumberDraft(k) \/ PublishCopy(k) \/ WriteMarker(k) PROVE CallType'
  <2>1. call' \in [Call -> CallState \cup {None}]
    BY <1>4, CommitMoves
  <2>2. call[k].copy \in CopyRecid \cup {None} /\ live \subseteq Recid
    BY <1>4, CallFields DEF NumberDraft, PublishCopy, WriteMarker, TypeInv, TypeOK
  <2>3. call[k].copy \in live => call[k].copy \in CopyRecid
    BY <2>2
  <2>4. draft' \subseteq draft /\ early' \subseteq early \cup ({call[k].copy} \cap live)
    BY <1>4 DEF NumberDraft, PublishCopy, PublishDraft, WriteMarker
  <2> QED
    BY <2>1, <2>3, <2>4 DEF CallType
<1>5. ASSUME NEW k \in Call, Fail(k) \/ WriteBackLink(k) \/ Warn(k) PROVE CallType'
  BY <1>5 DEF CallType, Fail, WriteBackLink, Warn
<1>6. CASE \E d \in CopyRecid : OwnerPublishes(d) \/ OwnerDiscards(d)
  BY <1>6 DEF CallType, OwnerPublishes, OwnerDiscards, PublishDraft
<1> QED
  BY <1>1, <1>2, <1>3, <1>4, <1>5, <1>6 DEF PNext

-----------------------------------------------------------------------------
(* What stays                                                              *)

\* Numbers that were issued stay issued or are retired.
LEMMA IssuedKept == [PNext]_allVars => Issued \subseteq Issued'
<1> SUFFICES ASSUME [PNext]_allVars PROVE Issued \subseteq Issued'
  OBVIOUS
<1>1. \/ pids \subseteq pids' /\ retired' = retired
      \/ \E r \in Recid : DeleteRecord(r)
  BY DEF PNext, WorkflowStep, PublishVersion, ChangeCommunity, Submit, AcceptBegin, AcceptCommit,
         AcceptRollback, Decline, Cancel, Close, RefreshIndex, RefreshVersions, Start, CreateDraft,
         NumberDraft, PublishCopy, PublishDraft, Fail, WriteMarker, WriteBackLink, Warn,
         OwnerPublishes, OwnerDiscards, Mint, allVars, vars
<1>2. ASSUME NEW r \in Recid, DeleteRecord(r) PROVE Issued \subseteq Issued'
  BY <1>2 DEF DeleteRecord, Issued, Numbers
<1> QED
  BY <1>1, <1>2 DEF Issued, Numbers

\* A request that was accepted stays as it is.
LEMMA AcceptedStay ==
    ASSUME TypeInv, [PNext]_allVars, NEW q \in Request, request[q].status = "accepted"
    PROVE  request'[q] = request[q]
<1>1. CASE WorkflowStep
  <2>1. ASSUME NEW p \in Request, AcceptCommit(p) PROVE request'[q] = request[q]
    BY <2>1 DEF AcceptCommit, TypeInv, TypeOK, TxnSound
  <2>2. ASSUME NEW p \in Request, Decline(p) \/ Cancel(p) PROVE request'[q] = request[q]
    BY <2>2 DEF Decline, Cancel, Close, TypeInv, TypeOK
  <2>3. ASSUME NEW p \in Request, NEW r \in Recid, Submit(p, r) PROVE request'[q] = request[q]
    BY <2>3 DEF Submit, TypeInv, TypeOK
  <2> QED
    BY <1>1, <2>1, <2>2, <2>3 DEF WorkflowStep, PublishVersion, ChangeCommunity, AcceptBegin,
       AcceptRollback, RefreshIndex, RefreshVersions, DeleteRecord
<1>2. CASE ~ WorkflowStep
  BY <1>2 DEF PNext, Start, CreateDraft, NumberDraft, PublishCopy, PublishDraft, Fail, WriteMarker,
     WriteBackLink, Warn, OwnerPublishes, OwnerDiscards, allVars, vars
<1> QED
  BY <1>1, <1>2

\* A step that changes which versions and drafts there are.
LEMMA VersionStep ==
    ASSUME CallType, [PNext]_allVars
    PROVE  \/ UNCHANGED <<index, live, latest, draft>>
           \/ \E r \in Recid \ CopyRecid : PublishVersion(r) /\ draft' = draft
           \/ \E r \in Recid : DeleteRecord(r) /\ draft' = draft
           \/ \E d \in CopyRecid : PublishDraft(d)
           \/ \E k \in Call, d \in CopyRecid : CreateDraft(k, d)
           \/ \E d \in CopyRecid : OwnerDiscards(d)
<1>1. ASSUME NEW k \in Call, PublishCopy(k) PROVE \E d \in CopyRecid : PublishDraft(d)
  BY <1>1 DEF PublishCopy, PublishDraft, CallType
<1> QED
  BY <1>1 DEF PNext, WorkflowStep, ChangeCommunity, Submit, AcceptBegin, AcceptCommit,
     AcceptRollback, Decline, Cancel, Close, RefreshIndex, RefreshVersions, Start, NumberDraft, Fail,
     WriteMarker, WriteBackLink, Warn, OwnerPublishes, allVars, callVars, vars

\* Only giving a copy its number makes it an early one.
LEMMA EarlyStep ==
    ASSUME CallType, CopyState, [PNext]_allVars
    PROVE  /\ early \subseteq early'
           /\ \A d \in early' \ early : \E k \in Call :
                 NumberDraft(k) /\ d = call[k].copy /\ d \in live
<1>1. ASSUME NEW k \in Call, NumberDraft(k)
      PROVE  early' = early \cup ({call[k].copy} \cap live)
  BY <1>1 DEF NumberDraft
<1>2. (\E k \in Call : NumberDraft(k)) \/ early' = early
  BY DEF PNext, WorkflowStep, Start, CreateDraft, PublishCopy, PublishDraft, Fail, WriteMarker,
     WriteBackLink, Warn, OwnerPublishes, OwnerDiscards, allVars, callVars
<1> QED
  BY <1>1, <1>2

\* Versions keep their indexes, copies are the only version of their family.
LEMMA NextCopyState ==
    ASSUME PubInv, [PNext]_allVars
    PROVE  CopyState'
<1> DEFINE Goal == /\ \A r \in live' : index'[r] # 0
                   /\ \A d \in CopyRecid : index'[d] = latest'[FamilyOf[d]]
                   /\ \A d \in draft' : index'[d] = 0
                   /\ \A d \in CopyRecid : index[d] # 0 => index'[d] # 0
<1>1. /\ index \in [Recid -> Nat] /\ latest \in [Family -> Nat] /\ live \subseteq Recid
      /\ latestId \in [Family -> Recid \cup {None}] /\ listed \subseteq Recid
      /\ draft \subseteq CopyRecid
  BY DEF PubInv, TypeInv, TypeOK, CallType
<1>2. /\ \A r \in live : index[r] # 0
      /\ \A d \in CopyRecid : index[d] = latest[FamilyOf[d]]
      /\ \A d \in draft : index[d] = 0
  BY DEF PubInv, CopyState
<1>3. ASSUME UNCHANGED <<index, live, latest, draft>> PROVE Goal
  BY <1>2, <1>3
<1>4. ASSUME NEW r \in Recid \ CopyRecid, PublishVersion(r), draft' = draft PROVE Goal
  <2>1. \A d \in CopyRecid : d # r /\ FamilyOf[d] # FamilyOf[r]
    BY OnlyCopy
  <2>2. latest[FamilyOf[r]] + 1 # 0 /\ FamilyOf[r] \in Family
    BY <1>1
  <2> QED
    BY <1>1, <1>2, <1>4, <2>1, <2>2 DEF PublishVersion
<1>5. ASSUME NEW r \in Recid, DeleteRecord(r), draft' = draft PROVE Goal
  <2>1. index' = index /\ live' \subseteq live /\ r \in live
    BY <1>5 DEF DeleteRecord
  <2>2. ASSUME NEW d \in CopyRecid PROVE latest'[FamilyOf[d]] = latest[FamilyOf[d]]
    <3>1. CASE r = d
      <4>1. \A s \in Found(FamilyOf[r]) : s = d
        BY <1>1, <3>1, OnlyCopy DEF Found
      <4>2. SecondHit(FamilyOf[r]) = {}
        BY <4>1 DEF SecondHit
      <4> QED
        BY <1>5, <3>1, <4>2 DEF DeleteRecord
    <3>2. CASE r # d
      <4>1. FamilyOf[r] # FamilyOf[d]
        BY <3>2, OnlyCopy
      <4> QED
        BY <1>1, <1>5, <4>1 DEF DeleteRecord
    <3> QED
      BY <3>1, <3>2
  <2> QED
    BY <1>2, <1>5, <2>1, <2>2
<1>6. ASSUME NEW e \in CopyRecid, PublishDraft(e) PROVE Goal
  <2>1. \A d \in CopyRecid : d # e => FamilyOf[d] # FamilyOf[e]
    BY OnlyCopy
  <2> QED
    BY <1>1, <1>2, <1>6, <2>1 DEF PublishDraft
<1>7. ASSUME NEW k \in Call, NEW e \in CopyRecid, CreateDraft(k, e) PROVE Goal
  BY <1>2, <1>7 DEF CreateDraft
<1>8. ASSUME NEW e \in CopyRecid, OwnerDiscards(e) PROVE Goal
  BY <1>2, <1>8 DEF OwnerDiscards
<1>9. Goal
  BY <1>3, <1>4, <1>5, <1>6, <1>7, <1>8, VersionStep DEF PubInv
<1>10. \A d \in early' : d \in CopyRecid /\ index[d] # 0
  BY EarlyStep, PCallType DEF PubInv, CopyState, CallType
<1> QED
  BY <1>9, <1>10 DEF CopyState

\* A version that was published keeps its index, and does not come back.
LEMMA IndexStays ==
    ASSUME TypeInv, CallType, CopyState, [PNext]_allVars, NEW r \in Recid, index[r] # 0
    PROVE  index'[r] # 0 /\ (r \notin live => r \notin live')
<1>1. ASSUME NEW s \in Recid, PublishVersion(s)
      PROVE  index'[r] # 0 /\ (r \notin live => r \notin live')
  BY <1>1 DEF PublishVersion, TypeInv, TypeOK
<1>2. ASSUME NEW d \in CopyRecid, PublishDraft(d)
      PROVE  index'[r] # 0 /\ (r \notin live => r \notin live')
  BY <1>2 DEF PublishDraft, CopyState, TypeInv, TypeOK
<1>3. ASSUME NEW s \in Recid, DeleteRecord(s)
      PROVE  index'[r] # 0 /\ (r \notin live => r \notin live')
  BY <1>3 DEF DeleteRecord
<1>4. \/ \E s \in Recid : PublishVersion(s) \/ DeleteRecord(s)
      \/ \E d \in CopyRecid : PublishDraft(d)
      \/ UNCHANGED <<index, live>>
  BY VersionStep DEF CreateDraft, OwnerDiscards
<1> QED
  BY <1>1, <1>2, <1>3, <1>4

\* A step that writes to parents.
LEMMA ApprovalStep ==
    ASSUME [PNext]_allVars
    PROVE  \/ \E q \in Request : AcceptCommit(q)
           \/ \E r \in Recid : DeleteRecord(r)
           \/ \E k \in Call, d \in CopyRecid : CreateDraft(k, d)
           \/ \E k \in Call : NumberDraft(k)
           \/ \E d \in CopyRecid : OwnerDiscards(d)
           \/ \E k \in Call : WriteMarker(k)
           \/ approval' = approval
BY DEF PNext, WorkflowStep, PublishVersion, ChangeCommunity, Submit, AcceptBegin, AcceptRollback,
   Decline, Cancel, Close, RefreshIndex, RefreshVersions, Start, PublishCopy, PublishDraft, Fail,
   WriteBackLink, Warn, OwnerPublishes, allVars, vars

\* The steps that write to the parent of one copy, the source that they leave
\* there, and the number.
LEMMA CopyParentStep ==
    ASSUME PubInv, [PNext]_allVars, NEW d \in CopyRecid
    PROVE  LET g == FamilyOf[d] IN
           \/ approval'[g] = approval[g]
           \/ /\ approval'[g].source = None
              /\ \/ \E q \in Request : AcceptCommit(q) /\ request[q].topic = d
                 \/ DeleteRecord(d)
                 \/ \E k \in Call : CreateDraft(k, d)
                 \/ OwnerDiscards(d)
           \/ \E k \in Call : /\ NumberDraft(k) /\ call[k] # None /\ call[k].copy = d
                              /\ call[k].step = "created"
                              /\ approval'[g] = CopyApproval(k)
           \/ \E k \in Call : /\ WriteMarker(k) /\ call[k] # None /\ call[k].src = d
                              /\ d \in live /\ approval'[g] = Marked(k)
<1> DEFINE g == FamilyOf[d]
<1>1. g \in Family /\ approval \in [Family -> Approval] /\ live \subseteq Recid
  BY DEF PubInv, TypeInv, TypeOK
<1>2. ASSUME NEW q \in Request, AcceptCommit(q), approval'[g] # approval[g]
      PROVE  approval'[g].source = None /\ request[q].topic = d
  <2>1. /\ approval' = [approval EXCEPT ![FamilyOf[request[q].topic]] =
                          Approved(txn[q].number, request[q].topic)]
        /\ request[q].topic \in Recid
    BY <1>2 DEF AcceptCommit, PubInv, TypeInv, TxnSound, TopicsKnown
  <2>2. FamilyOf[request[q].topic] = g
    BY <1>1, <1>2, <2>1
  <2>3. approval'[g] = Approved(txn[q].number, request[q].topic)
    BY <1>1, <2>1, <2>2
  <2> QED
    BY <2>1, <2>2, <2>3, OnlyCopy DEF Approved
<1>3. ASSUME NEW r \in Recid, DeleteRecord(r), approval'[g] # approval[g]
      PROVE  approval'[g].source = None /\ r = d
  <2>1. FamilyOf[r] = g /\ approval'[g] = NoApproval
    BY <1>1, <1>3 DEF DeleteRecord
  <2> QED
    BY <2>1, OnlyCopy, NoApprovalType
<1>4. ASSUME NEW k \in Call, NEW e \in CopyRecid, CreateDraft(k, e) \/ OwnerDiscards(e),
             approval'[g] # approval[g]
      PROVE  approval'[g].source = None /\ e = d
  <2>1. FamilyOf[e] = g /\ approval'[g] = NoApproval
    BY <1>1, <1>4 DEF CreateDraft, OwnerDiscards
  <2> QED
    BY <2>1, OnlyCopy, NoApprovalType
<1>5. ASSUME NEW e \in CopyRecid, OwnerDiscards(e), approval'[g] # approval[g]
      PROVE  approval'[g].source = None /\ e = d
  <2>1. FamilyOf[e] = g /\ approval'[g] = NoApproval
    BY <1>1, <1>5 DEF OwnerDiscards
  <2> QED
    BY <2>1, OnlyCopy, NoApprovalType
<1>6. ASSUME NEW k \in Call, NumberDraft(k), approval'[g] # approval[g]
      PROVE  /\ call[k] # None /\ call[k].copy = d /\ call[k].step = "created"
             /\ approval'[g] = CopyApproval(k)
  <2>1. /\ call[k] # None /\ call[k].step = "created" /\ call[k].copy \in Recid
        /\ approval' = [approval EXCEPT ![FamilyOf[call[k].copy]] = CopyApproval(k)]
    BY <1>1, <1>6 DEF NumberDraft, PubInv, CallType
  <2> QED
    BY <1>1, <1>6, <2>1, OnlyCopy
<1>7. ASSUME NEW k \in Call, WriteMarker(k), approval'[g] # approval[g]
      PROVE  /\ call[k] # None /\ call[k].src = d
             /\ d \in live /\ approval'[g] = Marked(k)
  <2>1. /\ call[k] # None /\ approval' = [approval EXCEPT ![SourceFamily(k)] = Marked(k)]
        /\ Siblings(SourceFamily(k)) # {}
    BY <1>7 DEF WriteMarker
  <2>2. SourceFamily(k) = g
    BY <1>1, <1>7, <2>1
  <2>3. call[k].src = d
    BY <2>1, <2>2, CallFields, OnlyCopy DEF PubInv
  <2>4. \E r \in live : FamilyOf[r] = g
    BY <2>1, <2>2 DEF Siblings
  <2> QED
    BY <1>1, <2>1, <2>2, <2>3, <2>4, OnlyCopy
<1>8. CASE approval'[g] # approval[g]
  BY <1>2, <1>3, <1>4, <1>5, <1>6, <1>7, <1>8, ApprovalStep
<1> QED
  BY <1>8

\* A copy that lives on, and got its number in time, keeps it, and its source.
LEMMA CopyStays ==
    ASSUME PubInv, [PNext]_allVars, NEW d \in CopyRecid, d \in live, d \in live',
           d \notin early, approval[FamilyOf[d]].source # None
    PROVE  /\ d \notin early'
           /\ approval'[FamilyOf[d]].number = approval[FamilyOf[d]].number
           /\ approval'[FamilyOf[d]].source = approval[FamilyOf[d]].source
<1> DEFINE g == FamilyOf[d]
           Same == /\ approval'[g].number = approval[g].number
                   /\ approval'[g].source = approval[g].source
<1>1. index[d] # 0
  BY DEF PubInv, CopyState
<1>2. \A k \in Call : call[k] # None /\ call[k].step = "created" => call[k].copy # d
  BY DEF PubInv, CallSound, CallOK
<1>3. d \notin early'
  BY <1>2, EarlyStep DEF PubInv, NumberDraft
<1>4. ASSUME NEW q \in Request, AcceptCommit(q), request[q].topic = d PROVE FALSE
  <2>1. request[q].status # "none"
    BY <1>4 DEF AcceptCommit, PubInv, TypeInv, TxnSound
  <2> QED
    BY <1>4, <2>1 DEF PubInv, NoReview
<1>5. ~ DeleteRecord(d)
  BY DEF DeleteRecord
<1>6. ASSUME NEW k \in Call, CreateDraft(k, d) \/ OwnerDiscards(d) PROVE FALSE
  BY <1>1, <1>6 DEF CreateDraft, OwnerDiscards, PubInv, CopyState
<1>7. ~ OwnerDiscards(d)
  BY <1>1 DEF OwnerDiscards, PubInv, CopyState
<1>8. ASSUME NEW k \in Call, call[k] # None, call[k].src = d, approval'[g] = Marked(k)
      PROVE  Same
  <2>1. call[k].ea.source = approval[g].source /\ call[k].ea.number = approval[g].number
    BY <1>8 DEF PubInv, CallSound, CallOK
  <2> QED
    BY <1>8, <2>1, ApprovalTyped DEF PubInv
<1> QED
  BY <1>2, <1>3, <1>4, <1>5, <1>6, <1>7, <1>8, CopyParentStep

\* A copy that was published without a source gets one only with its number.
LEMMA SourceNoneStays ==
    ASSUME PubInv, [PNext]_allVars, NEW d \in CopyRecid, index[d] # 0, d \notin early',
           approval[FamilyOf[d]].source = None
    PROVE  approval'[FamilyOf[d]].source = None
<1>1. d \notin early /\ d \notin draft
  BY EarlyStep DEF PubInv, CopyState
<1>2. ASSUME NEW k \in Call, NumberDraft(k), call[k].copy = d PROVE FALSE
  BY <1>1, <1>2 DEF NumberDraft
<1>3. ASSUME NEW k \in Call, call[k] # None, call[k].src = d, d \in live
      PROVE  Marked(k).source = None
  <2>1. call[k].ea.source = None
    BY <1>1, <1>3 DEF PubInv, CallSound, CallOK
  <2> QED
    BY <1>3, <2>1, ApprovalTyped DEF PubInv
<1> QED
  BY <1>2, <1>3, CopyParentStep

\* What was accepted for a family is accepted for it for good.
LEMMA AcceptedForStays ==
    ASSUME TypeInv, [PNext]_allVars, NEW f, NEW n, AcceptedFor(f, n)
    PROVE  AcceptedFor(f, n)'
BY AcceptedStay DEF AcceptedFor

\* What a version may hand on to a copy, it may hand on for good.
LEMMA CarriesStays ==
    ASSUME PubInv, [PNext]_allVars, NEW s \in Recid, NEW n, n # None,
           index[s] # 0, CarriesFrom(s, n)
    PROVE  CarriesFrom(s, n)'
<1>1. CASE AcceptedFor(FamilyOf[s], n)
  BY <1>1, AcceptedForStays DEF CarriesFrom, PubInv
<1>2. CASE s \in CopyRecid /\ s \notin live
  BY <1>2, IndexStays DEF CarriesFrom, PubInv
<1>3. CASE s \in CopyRecid /\ s \in early
  BY <1>3, EarlyStep DEF CarriesFrom, PubInv
<1>4. CASE s \in (CopyRecid \cap live) \ early /\ approval[FamilyOf[s]].number = n
  <2>1. CASE approval[FamilyOf[s]].source # None
    BY <1>4, <2>1, CopyStays DEF CarriesFrom, PubInv
  <2>2. CASE approval[FamilyOf[s]].source = None
    <3>1. AcceptedFor(FamilyOf[s], n)
      BY <1>4, <2>2 DEF PubInv, Parents, Truthful
    <3> QED
      BY <1>1, <3>1
  <2> QED
    BY <2>1, <2>2
<1> QED
  BY <1>1, <1>2, <1>3, <1>4 DEF CarriesFrom

\* A copy stays published from its source's family.
LEMMA FromStays ==
    ASSUME PubInv, [PNext]_allVars, NEW d, NEW f, PublishedFrom(d, f)
    PROVE  PublishedFrom(d, f)'
<1>1. d \in CopyRecid /\ d \in Recid /\ index[d] # 0 /\ d \notin early
  BY DEF PublishedFrom
<1>2. index'[d] # 0 /\ (d \notin live => d \notin live')
  BY <1>1, IndexStays DEF PubInv
<1>3. d \notin early'
  <2>1. ASSUME NEW k \in Call, NumberDraft(k), d = call[k].copy, d \in live PROVE FALSE
    <3>1. approval[FamilyOf[d]].source = None
      BY <2>1 DEF NumberDraft, PubInv, CallSound, CallOK
    <3> QED
      BY <2>1, <3>1 DEF PublishedFrom
  <2> QED
    BY <1>1, <2>1, EarlyStep DEF PubInv
<1> QED
  BY <1>1, <1>2, <1>3, CopyStays DEF PublishedFrom

\* What a parent says stays true, however late it is written.
LEMMA TruthfulStays ==
    ASSUME PubInv, [PNext]_allVars, NEW a \in Approval, NEW f, Truthful(a, f)
    PROVE  Truthful(a, f)'
<1>1. a.number # None => /\ a.number \in Issued'
                         /\ a.source # None \/ AcceptedFor(f, a.number)'
  BY IssuedKept, AcceptedForStays DEF Truthful, PubInv
<1>2. ASSUME a.source # None
      PROVE  /\ a.number # None /\ IsCopyFamily(f)' /\ index'[a.source] # 0
             /\ CarriesFrom(a.source, a.number)'
  <2>1. /\ a.source \in Recid /\ a.number # None /\ IsCopyFamily(f) /\ index[a.source] # 0
        /\ CarriesFrom(a.source, a.number)
    BY <1>2 DEF Approval, Truthful
  <2> QED
    BY <2>1, IndexStays, CarriesStays DEF IsCopyFamily, PubInv
<1>3. a.public # None => PublishedFrom(a.public, f)'
  BY FromStays DEF Truthful
<1> QED
  BY <1>1, <1>2, <1>3 DEF Truthful

-----------------------------------------------------------------------------
(* The invariant                                                           *)

\* A version is submitted when its parent has no number, so no source either.
LEMMA NextNoReview ==
    ASSUME PubInv, [PNext]_allVars
    PROVE  NoReview'
<1> DEFINE Fine(d) == /\ index'[d] # 0
                      /\ d \in CopyRecid \ early' => approval'[FamilyOf[d]].source = None
<1>1. ASSUME NEW q \in Request, request[q].status # "none" PROVE Fine(request[q].topic)
  <2>1. PICK d \in Recid : d = request[q].topic
    BY <1>1 DEF PubInv, TypeInv, TopicsKnown
  <2>2. index[d] # 0 /\ (d \in CopyRecid \ early => approval[FamilyOf[d]].source = None)
    BY <1>1, <2>1 DEF PubInv, NoReview
  <2>3. index'[d] # 0
    BY <2>2, IndexStays DEF PubInv
  <2>4. ASSUME d \in CopyRecid \ early' PROVE approval'[FamilyOf[d]].source = None
    <3>1. d \notin early
      BY <2>4, EarlyStep DEF PubInv
    <3> QED
      BY <2>2, <2>4, <3>1, SourceNoneStays
  <2> QED
    BY <2>1, <2>3, <2>4
<1>2. ASSUME NEW q \in Request, NEW r \in Recid, Submit(q, r) PROVE Fine(r)
  <2>1. index[r] # 0 /\ UNCHANGED <<index, approval>>
    BY <1>2 DEF Submit, PubInv, CopyState
  <2>2. approval[FamilyOf[r]].source = None
    BY <1>2 DEF Submit, PubInv, Parents, Truthful
  <2> QED
    BY <2>1, <2>2
<1>3. ASSUME NEW q \in Request, request'[q].status # "none"
      PROVE  \/ request[q].status # "none" /\ request'[q].topic = request[q].topic
             \/ \E r \in Recid : Submit(q, r) /\ request'[q].topic = r
  <2>1. ASSUME NEW p \in Request, NEW r \in Recid, Submit(p, r)
        PROVE  p = q \/ request'[q] = request[q]
    BY <2>1 DEF Submit, PubInv, TypeInv, TypeOK
  <2>2. ASSUME NEW r \in Recid, Submit(q, r) PROVE request'[q].topic = r
    BY <2>2 DEF Submit, PubInv, TypeInv, TypeOK
  <2>3. ASSUME NEW p \in Request, AcceptCommit(p)
        PROVE  request[q].status # "none" /\ request'[q].topic = request[q].topic
    <3>1. request[p].status # "none"
      BY <2>3 DEF AcceptCommit, PubInv, TypeInv, TxnSound
    <3> QED
      BY <1>3, <2>3, <3>1 DEF AcceptCommit, PubInv, TypeInv, TypeOK
  <2>4. ASSUME NEW p \in Request, Decline(p) \/ Cancel(p)
        PROVE  request[q].status # "none" /\ request'[q].topic = request[q].topic
    BY <1>3, <2>4 DEF Decline, Cancel, Close, PubInv, TypeInv, TypeOK
  <2>5. \/ \E p \in Request, r \in Recid : Submit(p, r)
        \/ \E p \in Request : AcceptCommit(p) \/ Decline(p) \/ Cancel(p)
        \/ request' = request
    BY DEF PNext, WorkflowStep, PublishVersion, ChangeCommunity, AcceptBegin, AcceptRollback,
       RefreshIndex, RefreshVersions, DeleteRecord, Start, CreateDraft, NumberDraft, PublishCopy,
       PublishDraft, Fail, WriteMarker, WriteBackLink, Warn, OwnerPublishes, OwnerDiscards,
       allVars, vars
  <2> QED
    BY <1>3, <2>1, <2>2, <2>3, <2>4, <2>5
<1> QED
  BY <1>1, <1>2, <1>3 DEF NoReview

\* What a call read may be handed on by the version it publishes.
LEMMA CallCarries ==
    ASSUME PubInv, NEW k \in Call, call[k] # None
    PROVE  CarriesFrom(call[k].src, call[k].ea.number)
<1>1. PICK s \in Recid : s = call[k].src
  BY CallFields DEF PubInv
<1>2. PICK e \in Approval : e = call[k].ea
  BY CallFields DEF PubInv
<1>3. /\ e.number # None /\ Truthful(e, FamilyOf[s])
      /\ s \in (CopyRecid \cap live) \ early =>
            (e.source # None => e.number = approval[FamilyOf[s]].number)
  BY <1>1, <1>2 DEF PubInv, CallSound, CallOK
<1>4. CASE e.source = None
  BY <1>1, <1>2, <1>3, <1>4 DEF Truthful, CarriesFrom
<1>5. CASE e.source # None
  <2>1. s \in CopyRecid
    BY <1>3, <1>5, OnlyCopy DEF Truthful, IsCopyFamily
  <2> QED
    BY <1>1, <1>2, <1>3, <1>5, <2>1 DEF CarriesFrom
<1> QED
  BY <1>4, <1>5

\* Every step leaves parents that tell the truth.
LEMMA NextParents ==
    ASSUME PubInv, [PNext]_allVars
    PROVE  Parents'
<1>1. approval \in [Family -> Approval] /\ \A f \in Family : Truthful(approval[f], f)
  BY DEF PubInv, TypeInv, TypeOK, Parents
<1> SUFFICES ASSUME NEW f \in Family, NEW a, a = approval'[f] PROVE Truthful(a, f)'
  BY DEF Parents
<1>2. CASE a = approval[f]
  BY <1>1, <1>2, TruthfulStays
<1>3. ASSUME NEW q \in Request, AcceptCommit(q), a # approval[f] PROVE Truthful(a, f)'
  <2>1. PICK r, n : r = request[q].topic /\ n = txn[q].number
    OBVIOUS
  <2>2. /\ FamilyOf[r] = f
        /\ a = [number |-> n, approved |-> r, source |-> None, public |-> None]
    BY <1>1, <1>3, <2>1 DEF AcceptCommit, Approved
  <2>3. n \in Issued'
    <3>1. [number |-> n, object |-> r] \in pids'
      BY <1>3, <2>1 DEF AcceptCommit, Mint
    <3> QED
      BY <3>1 DEF Issued, Numbers
  <2>4. request'[q] = [status |-> "accepted", topic |-> r, number |-> n]
    BY <1>3, <2>1 DEF AcceptCommit, PubInv, TypeInv, TypeOK
  <2>5. AcceptedFor(f, n)'
    BY <2>2, <2>4 DEF AcceptedFor
  <2> QED
    BY <2>2, <2>3, <2>5 DEF Truthful
<1>4. CASE a = NoApproval
  BY <1>4, NoApprovalType DEF Truthful
<1>5. ASSUME NEW k \in Call, NumberDraft(k), a # approval[f] PROVE Truthful(a, f)'
  <2>1. PICK d : d = call[k].copy
    OBVIOUS
  <2>2. /\ call[k] # None /\ call[k].step = "created"
        /\ approval' = [approval EXCEPT ![FamilyOf[d]] = CopyApproval(k)]
    BY <1>5, <2>1 DEF NumberDraft
  <2>3. FamilyOf[d] = f /\ a = CopyApproval(k) /\ d \in CopyRecid
    BY <1>1, <1>5, <2>1, <2>2 DEF PubInv, CallSound, CallOK
  <2>4. PICK s \in Recid : s = call[k].src
    BY <2>2, CallFields DEF PubInv
  <2>5. PICK e \in Approval : e = call[k].ea
    BY <2>2, CallFields DEF PubInv
  <2>6. a.number = e.number /\ a.source = s /\ a.public = None
    BY <2>2, <2>3, <2>4, <2>5, ApprovalTyped DEF PubInv
  <2>7. /\ index[s] # 0 /\ e.number # None /\ e.number \in Issued
        /\ CarriesFrom(s, e.number)
    BY <2>2, <2>4, <2>5, CallCarries DEF PubInv, CallSound, CallOK, Truthful
  <2>8. index'[s] # 0 /\ CarriesFrom(s, e.number)' /\ e.number \in Issued'
    BY <2>7, IndexStays, CarriesStays, IssuedKept DEF PubInv
  <2>9. IsCopyFamily(f)' /\ s # None
    BY <2>3 DEF IsCopyFamily
  <2> QED
    BY <2>6, <2>7, <2>8, <2>9 DEF Truthful
<1>6. ASSUME NEW k \in Call, WriteMarker(k), a # approval[f] PROVE Truthful(a, f)'
  <2>1. call[k] # None /\ call[k].step = "published" /\ f = FamilyOf[call[k].src] /\ a = Marked(k)
    BY <1>1, <1>6 DEF WriteMarker, SourceFamily
  <2>2. PICK e \in Approval : e = call[k].ea
    BY <2>1, CallFields DEF PubInv
  <2>3. PICK d : d = call[k].copy
    OBVIOUS
  <2>4. a.number = e.number /\ a.source = e.source /\ a.public = d
    BY <2>1, <2>2, <2>3, ApprovalTyped DEF PubInv
  <2>5. Truthful(e, f) /\ PublishedFrom(d, f)
    BY <2>1, <2>2, <2>3 DEF PubInv, CallSound, CallOK
  <2>6. Truthful(e, f)' /\ PublishedFrom(d, f)'
    BY <2>5, TruthfulStays, FromStays
  <2> QED
    BY <2>4, <2>6 DEF Truthful
<1>7. \/ \E q \in Request : AcceptCommit(q)
      \/ \E k \in Call : NumberDraft(k) \/ WriteMarker(k)
      \/ a \in {approval[f], NoApproval}
  <2>1. ASSUME NEW r \in Recid, DeleteRecord(r) PROVE a \in {approval[f], NoApproval}
    BY <1>1, <2>1 DEF DeleteRecord
  <2>2. ASSUME NEW d \in CopyRecid, (\E k \in Call : CreateDraft(k, d)) \/ OwnerDiscards(d)
        PROVE  a \in {approval[f], NoApproval}
    BY <1>1, <2>2 DEF CreateDraft, OwnerDiscards
  <2> QED
    BY <2>1, <2>2, ApprovalStep
<1> QED
  BY <1>2, <1>3, <1>4, <1>5, <1>6, <1>7

\* What a running call holds stays true whatever the others do.
LEMMA CallStays ==
    ASSUME PubInv, [PNext]_allVars, NEW k \in Call, NEW c, c = call[k], c # None,
           c.step = "created" => ~ NumberDraft(k)
    PROVE  CallOK(c)'
<1>1. c \in CallState /\ c.src \in Recid /\ c.ea \in Approval /\ CallOK(c)
  BY CallFields DEF PubInv, CallSound
<1>2. index'[c.src] # 0 /\ (c.src \in live' => c.src \in live)
  BY <1>1, IndexStays DEF PubInv, CallOK
<1>3. Truthful(c.ea, FamilyOf[c.src])'
  <2>1. PICK e \in Approval : e = c.ea
    BY <1>1
  <2>2. PICK f : f = FamilyOf[c.src]
    OBVIOUS
  <2>3. Truthful(e, f)'
    BY <1>1, <2>1, <2>2, TruthfulStays DEF CallOK
  <2> QED
    BY <2>1, <2>2, <2>3
<1>4. ASSUME c.src \in (CopyRecid \cap live') \ early'
      PROVE  /\ c.ea.source = approval'[FamilyOf[c.src]].source
             /\ c.ea.source # None => c.ea.number = approval'[FamilyOf[c.src]].number
  <2>1. PICK s \in CopyRecid : s = c.src
    BY <1>4
  <2>2. s \in (CopyRecid \cap live) \ early
    BY <1>2, <1>4, <2>1, EarlyStep DEF PubInv
  <2>3. /\ c.ea.source = approval[FamilyOf[s]].source
        /\ c.ea.source # None => c.ea.number = approval[FamilyOf[s]].number
    BY <1>1, <2>1, <2>2 DEF CallOK
  <2>4. CASE approval[FamilyOf[s]].source # None
    BY <1>4, <2>1, <2>2, <2>3, <2>4, CopyStays
  <2>5. CASE approval[FamilyOf[s]].source = None
    BY <1>1, <1>4, <2>1, <2>3, <2>5, SourceNoneStays DEF CallOK
  <2> QED
    BY <2>4, <2>5
<1>5. PICK d : d = c.copy
  OBVIOUS
<1>6. ASSUME NEW j \in Call, call[j] # None, call[j].copy = d, d # None PROVE j = k
  BY <1>5, <1>6 DEF PubInv, UniqueCopies
<1>7. ASSUME c.step = "created"
      PROVE  /\ d \notin early'
             /\ d \in live' \cup draft' => approval'[FamilyOf[d]].source = None
  <2>1. /\ d \in CopyRecid /\ d # None /\ d \notin early
        /\ d \in live \cup draft => approval[FamilyOf[d]].source = None
    BY <1>1, <1>5, <1>7 DEF CallOK
  <2>2. ASSUME NEW j \in Call, NumberDraft(j), call[j].copy = d PROVE FALSE
    <3>1. call[j] # None
      BY <2>2 DEF NumberDraft
    <3> QED
      BY <1>6, <1>7, <2>1, <2>2, <3>1
  <2>3. d \notin early'
    BY <2>1, <2>2, EarlyStep DEF PubInv
  <2>4. ASSUME d \in live' \cup draft' PROVE approval'[FamilyOf[d]].source = None
    <3>1. CASE d \in live \cup draft
      <4>1. ASSUME NEW j \in Call, call[j] # None, call[j].src = d, d \in live
            PROVE  Marked(j).source = None
        <5>1. call[j].ea.source = None
          BY <2>1, <3>1, <4>1 DEF PubInv, CallSound, CallOK
        <5> QED
          BY <4>1, <5>1, ApprovalTyped DEF PubInv
      <4> QED
        BY <2>1, <2>2, <3>1, <4>1, CopyParentStep
    <3>2. CASE d \notin live \cup draft
      <4>1. \E j \in Call : CreateDraft(j, d)
        BY <2>1, <2>4, <3>2, VersionStep, ZenonT(30)
           DEF PubInv, PublishVersion, DeleteRecord, PublishDraft, CreateDraft, OwnerDiscards
      <4>2. PICK j \in Call : CreateDraft(j, d)
        BY <4>1
      <4> QED
        BY <1>5, <4>2 DEF CreateDraft
    <3> QED
      BY <3>1, <3>2
  <2> QED
    BY <2>3, <2>4
<1>8. ASSUME c.step = "draft", d \in draft'
      PROVE  approval'[FamilyOf[d]].source = c.src
  <2>1. /\ d \in CopyRecid /\ d # None
        /\ d \in draft => approval[FamilyOf[d]].source = c.src
    BY <1>1, <1>5, <1>8 DEF CallOK
  <2>2. d \in draft
    <3>1. ASSUME NEW j \in Call, CreateDraft(j, d) PROVE FALSE
      BY <1>5, <3>1 DEF CreateDraft
    <3>2. d \in draft' \ draft => \E j \in Call : CreateDraft(j, d)
      BY VersionStep DEF PubInv, PublishDraft, CreateDraft, OwnerDiscards
    <3> QED
      BY <1>8, <3>1, <3>2
  <2>3. index[d] = 0 /\ d \notin live
    BY <2>2 DEF PubInv, CopyState
  <2>4. ASSUME NEW j \in Call, call[j] # None, call[j].copy = d PROVE call[j].step = "draft"
    BY <1>6, <1>8, <2>1, <2>4
  <2>5. ASSUME NEW q \in Request, AcceptCommit(q), request[q].topic = d PROVE FALSE
    <3>1. request[q].status # "none"
      BY <2>5 DEF AcceptCommit, PubInv, TypeInv, TxnSound
    <3> QED
      BY <2>3, <2>5, <3>1 DEF PubInv, NoReview
  <2>6. /\ ~ DeleteRecord(d) /\ (\A j \in Call : ~ CreateDraft(j, d)) /\ ~ OwnerDiscards(d)
    BY <1>8, <2>2, <2>3 DEF DeleteRecord, CreateDraft, OwnerDiscards
  <2> QED
    BY <2>1, <2>2, <2>3, <2>4, <2>5, <2>6, CopyParentStep
<1>9. c.step \in {"published", "marked"} => PublishedFrom(d, FamilyOf[c.src])'
  <2>1. PICK f : f = FamilyOf[c.src]
    OBVIOUS
  <2>2. c.step \in {"published", "marked"} => PublishedFrom(d, f)'
    BY <1>1, <1>5, <2>1, FromStays DEF CallOK
  <2> QED
    BY <2>1, <2>2
<1> QED
  BY <1>1, <1>2, <1>3, <1>4, <1>5, <1>7, <1>8, <1>9 DEF CallOK

\* Only one call moves in a step.
LEMMA CallStep ==
    ASSUME TypeInv, CallType, [PNext]_allVars
    PROVE  \/ call' = call
           \/ \E k \in Call :
                /\ OthersWait(k)
                /\ \/ \E r \in Recid : Start(k, r)
                   \/ call'[k] = None /\ (Fail(k) \/ Warn(k) \/ WriteBackLink(k))
                   \/ \E d \in CopyRecid : CreateDraft(k, d) /\ Moves(k, "created", d)
                   \/ NumberDraft(k) /\ Moves(k, "draft", call[k].copy)
                   \/ PublishCopy(k) /\ Moves(k, "published", call[k].copy)
                   \/ WriteMarker(k) /\ Moves(k, "marked", call[k].copy)
<1>1. ASSUME NEW k \in Call, NEW r \in Recid, Start(k, r) PROVE OthersWait(k)
  BY <1>1 DEF Start, CallType, OthersWait
<1>2. ASSUME NEW k \in Call, Fail(k) \/ Warn(k) \/ WriteBackLink(k)
      PROVE  call'[k] = None /\ OthersWait(k)
  BY <1>2 DEF Fail, Warn, WriteBackLink, CallType, OthersWait
<1>3. \/ call' = call
      \/ \E k \in Call, r \in Recid : Start(k, r)
      \/ \E k \in Call, d \in CopyRecid : CreateDraft(k, d)
      \/ \E k \in Call : NumberDraft(k) \/ PublishCopy(k) \/ WriteMarker(k)
      \/ \E k \in Call : Fail(k) \/ Warn(k) \/ WriteBackLink(k)
  BY DEF PNext, WorkflowStep, OwnerPublishes, OwnerDiscards, allVars, callVars
<1>4. CASE \E k \in Call, r \in Recid : Start(k, r)
  BY <1>1, <1>4
<1>5. CASE \E k \in Call, d \in CopyRecid : CreateDraft(k, d)
  BY <1>5, CreateDraftMoves
<1>6. CASE \E k \in Call : NumberDraft(k) \/ PublishCopy(k) \/ WriteMarker(k)
  BY <1>6, CommitMoves
<1>7. CASE \E k \in Call : Fail(k) \/ Warn(k) \/ WriteBackLink(k)
  BY <1>2, <1>7
<1> QED
  BY <1>3, <1>4, <1>5, <1>6, <1>7

\* No two calls have the same copy.
LEMMA NextUniqueCopies ==
    ASSUME PubInv, [PNext]_allVars
    PROVE  UniqueCopies'
<1> SUFFICES ASSUME NEW j \in Call, NEW k \in Call, j # k, call'[j] # None, call'[k] # None,
                    call'[j].copy # None, call'[j].copy = call'[k].copy
             PROVE  FALSE
  BY DEF UniqueCopies
<1>1. \A i \in Call :
         \/ call'[i].copy = None
         \/ call[i] # None /\ call'[i].copy = call[i].copy
         \/ OthersWait(i) /\ call'[i].copy # None
            /\ \A h \in Call : call[h] # None => call[h].copy # call'[i].copy
         \/ call'[i] = None
  <2>1. ASSUME NEW i \in Call, NEW r \in Recid, Start(i, r) PROVE call'[i].copy = None
    BY <2>1 DEF Start, PubInv, CallType
  <2>2. ASSUME NEW i \in Call, NEW d \in CopyRecid, CreateDraft(i, d), Moves(i, "created", d)
        PROVE  /\ call'[i].copy # None
               /\ \A h \in Call : call[h] # None => call[h].copy # call'[i].copy
    BY <2>2 DEF CreateDraft, Moves
  <2> QED
    BY <2>1, <2>2, CallStep DEF PubInv, OthersWait, Moves
<1> QED
  BY <1>1 DEF PubInv, UniqueCopies, OthersWait

\* Every step leaves calls that hold what is true.
LEMMA NextCallSound ==
    ASSUME PubInv, [PNext]_allVars
    PROVE  CallSound'
<1> SUFFICES ASSUME NEW k \in Call, NEW c, c = call'[k], c # None PROVE CallOK(c)'
  BY DEF CallSound
<1>1. CASE c = call[k]
  <2>1. c.step = "created" => ~ NumberDraft(k)
    BY <1>1, CommitMoves DEF Moves, PubInv
  <2> QED
    BY <1>1, <2>1, CallStays
<1>2. call \in [Call -> CallState \cup {None}]
  BY DEF PubInv, CallType
<1>3. ASSUME NEW r \in Recid, Start(k, r), c # call[k] PROVE CallOK(c)'
  <2> DEFINE f == FamilyOf[r]
  <2>1. /\ c.step = "read" /\ c.src = r /\ c.ea = approval[f] /\ c.copy = None /\ r \in live
        /\ c.ea.number # None /\ c.ea.public = None
        /\ UNCHANGED vars
    BY <1>2, <1>3 DEF Start
  <2>2. index[r] # 0
    BY <2>1 DEF PubInv, CopyState
  <2>3. Truthful(c.ea, f)'
    <3>1. PICK e \in Approval : e = approval[f]
      BY DEF PubInv, TypeInv, TypeOK
    <3>2. f \in Family
      OBVIOUS
    <3>3. Truthful(e, f)'
      BY <3>1, <3>2, TruthfulStays DEF PubInv, Parents
    <3> QED
      BY <2>1, <3>1, <3>3
  <2> QED
    BY <2>1, <2>2, <2>3 DEF CallOK, vars
<1>4. ASSUME NEW t, NEW d \in CopyRecid, Moves(k, t, d), NEW b, b = call[k],
             \/ t = "created" /\ d \notin early' /\ approval'[FamilyOf[d]].source = None
             \/ t = "draft" /\ (d \in draft' => approval'[FamilyOf[d]].source = c.src)
             \/ t \in {"published", "marked"} /\ PublishedFrom(d, FamilyOf[c.src])',
             /\ index'[b.src] # 0
             /\ b.ea.number # None /\ b.ea.public = None /\ Truthful(b.ea, FamilyOf[b.src])'
             /\ b.src \in (CopyRecid \cap live') \ early' =>
                   /\ b.ea.source = approval'[FamilyOf[b.src]].source
                   /\ b.ea.source # None => b.ea.number = approval'[FamilyOf[b.src]].number
      PROVE  CallOK(c)'
  <2>1. c.src = b.src /\ c.ea = b.ea /\ c.step = t /\ c.copy = d
    BY <1>4 DEF Moves
  <2> QED
    BY <1>4, <2>1 DEF CallOK
<1>5. ASSUME NEW d \in CopyRecid, CreateDraft(k, d), Moves(k, "created", d) PROVE CallOK(c)'
  <2>1. PICK b : b = call[k]
    OBVIOUS
  <2>2. b # None /\ b.step = "read"
        /\ approval' = [approval EXCEPT ![FamilyOf[d]] = NoApproval]
        /\ early' = early /\ latest[FamilyOf[d]] = 0
    BY <1>5, <2>1 DEF CreateDraft
  <2>3. CallOK(b)'
    BY <2>1, <2>2, CallStays
  <2>4. d \notin early' /\ approval'[FamilyOf[d]].source = None
    BY <2>2, NoApprovalType DEF PubInv, CopyState, TypeInv, TypeOK
  <2> QED
    BY <1>4, <1>5, <2>1, <2>3, <2>4 DEF CallOK
<1>6. ASSUME NumberDraft(k), Moves(k, "draft", call[k].copy) PROVE CallOK(c)'
  <2>1. PICK b : b = call[k]
    OBVIOUS
  <2>2. PICK d : d = b.copy
    OBVIOUS
  <2>3. b # None /\ b.step = "created" /\ b \in CallState /\ b.src \in Recid /\ b.ea \in Approval
        /\ CallOK(b) /\ d \in CopyRecid
    BY <1>6, <2>1, <2>2, CallFields DEF NumberDraft, PubInv, CallSound, CallOK
  <2>4. approval' = [approval EXCEPT ![FamilyOf[d]] = CopyApproval(k)] /\ UNCHANGED <<index, live>>
    BY <1>6, <2>1, <2>2 DEF NumberDraft
  <2>5. approval'[FamilyOf[d]].source = b.src
    BY <2>1, <2>3, <2>4, ApprovalTyped DEF PubInv, TypeInv, TypeOK
  <2>6. Truthful(b.ea, FamilyOf[b.src])'
    <3>1. PICK e \in Approval : e = b.ea
      BY <2>3
    <3>2. PICK f : f = FamilyOf[b.src]
      OBVIOUS
    <3>3. Truthful(e, f)'
      BY <2>3, <3>1, <3>2, TruthfulStays DEF CallOK
    <3> QED
      BY <3>1, <3>2, <3>3
  <2>7. ASSUME b.src \in (CopyRecid \cap live') \ early'
        PROVE  /\ b.ea.source = approval'[FamilyOf[b.src]].source
               /\ b.ea.source # None => b.ea.number = approval'[FamilyOf[b.src]].number
    <3>1. PICK s \in CopyRecid : s = b.src
      BY <2>7
    <3>2. s \in live /\ s \notin early
      BY <2>4, <2>7, <3>1, EarlyStep DEF PubInv
    <3>3. s # d
      BY <1>6, <2>1, <2>2, <2>7, <3>1, <3>2 DEF NumberDraft
    <3>4. FamilyOf[s] # FamilyOf[d]
      BY <2>3, <3>1, <3>3, OnlyCopy
    <3>5. approval'[FamilyOf[s]] = approval[FamilyOf[s]]
      BY <2>4, <3>4 DEF PubInv, TypeInv, TypeOK
    <3> QED
      BY <2>3, <3>1, <3>2, <3>5 DEF CallOK
  <2> QED
    BY <1>4, <1>6, <2>1, <2>2, <2>3, <2>4, <2>5, <2>6, <2>7 DEF CallOK, Moves
<1>7. ASSUME PublishCopy(k), Moves(k, "published", call[k].copy) PROVE CallOK(c)'
  <2>1. PICK b : b = call[k]
    OBVIOUS
  <2>2. PICK d, r : d = b.copy /\ r = b.src
    OBVIOUS
  <2>3. /\ b # None /\ b.step = "draft"
        /\ d \in draft /\ d \in CopyRecid /\ approval[FamilyOf[d]].source = r
        /\ r \in Recid /\ c.src = r
    BY <1>7, <2>1, <2>2, CallFields
       DEF PublishCopy, PublishDraft, Moves, PubInv, CallType, CallSound, CallOK
  <2>4. approval' = approval /\ index'[d] = 1 /\ early' = early /\ d \notin early
    BY <1>7, <2>1, <2>2, <2>3
       DEF PublishCopy, PublishDraft, PubInv, TypeInv, TypeOK, CopyState
  <2>5. PublishedFrom(d, FamilyOf[c.src])'
    BY <2>3, <2>4 DEF PublishedFrom
  <2>6. CallOK(b)'
    BY <2>1, <2>3, CallStays
  <2> QED
    BY <1>4, <1>7, <2>1, <2>2, <2>3, <2>5, <2>6 DEF CallOK
<1>8. ASSUME WriteMarker(k), Moves(k, "marked", call[k].copy) PROVE CallOK(c)'
  <2>1. PICK b : b = call[k]
    OBVIOUS
  <2>2. PICK d, f : d = b.copy /\ f = FamilyOf[b.src]
    OBVIOUS
  <2>3. /\ b # None /\ b.step = "published"
        /\ PublishedFrom(d, f) /\ d \in CopyRecid /\ f = FamilyOf[c.src]
    BY <1>8, <2>1, <2>2 DEF WriteMarker, Moves, PubInv, CallSound, CallOK, PublishedFrom
  <2>4. PublishedFrom(d, FamilyOf[c.src])'
    <3>1. PublishedFrom(d, f)'
      BY <2>3, FromStays
    <3> QED
      BY <2>3, <3>1
  <2>5. CallOK(b)'
    BY <2>1, <2>3, CallStays
  <2>6. /\ index'[b.src] # 0
        /\ b.ea.number # None /\ b.ea.public = None /\ Truthful(b.ea, FamilyOf[b.src])'
        /\ b.src \in (CopyRecid \cap live') \ early' =>
              /\ b.ea.source = approval'[FamilyOf[b.src]].source
              /\ b.ea.source # None => b.ea.number = approval'[FamilyOf[b.src]].number
    BY <2>5 DEF CallOK
  <2>7. Moves(k, "marked", d)
    BY <1>8, <2>1, <2>2
  <2> QED
    BY <1>4, <2>1, <2>3, <2>4, <2>6, <2>7
<1>9. CASE c # call[k]
  BY <1>3, <1>5, <1>6, <1>7, <1>8, <1>9, CallStep DEF PubInv, OthersWait
<1> QED
  BY <1>1, <1>9

\* A system that starts has nothing to be wrong about.
LEMMA InitPubInv == PInit => PubInv
<1> SUFFICES ASSUME PInit PROVE PubInv
  OBVIOUS
<1>1. TypeInv
  BY InitTypeInv DEF PInit
<1>2. CallType
  BY DEF PInit, CallType
<1>3. CopyState /\ NoReview /\ CallSound /\ UniqueCopies
  BY DEF PInit, Init, CopyState, NoReview, CallSound, UniqueCopies
<1>4. Parents
  <2> SUFFICES ASSUME NEW f \in Family PROVE Truthful(NoApproval, f)
    BY DEF PInit, Init, Parents
  <2> QED
    BY DEF NoApproval, Truthful
<1> QED
  BY <1>1, <1>2, <1>3, <1>4 DEF PubInv

\* PubInv is inductive.
LEMMA NextPubInv == PubInv /\ [PNext]_allVars => PubInv'
<1> SUFFICES ASSUME PubInv, [PNext]_allVars PROVE PubInv'
  OBVIOUS
<1>1. /\ TypeInv /\ CallType /\ CopyState
      /\ \A k \in Call : call[k] # None /\ call[k].step # "read" => call[k].copy \in CopyRecid
  BY DEF PubInv, CallSound, CallOK
<1>2. TypeInv' /\ CallType'
  BY <1>1, PTypeInv, PCallType
<1> QED
  BY <1>2, NextCopyState, NextNoReview, NextParents, NextCallSound, NextUniqueCopies DEF PubInv

-----------------------------------------------------------------------------
(* One copy                                                                *)

\* Nothing was made, or is being made, from a copy that was never published.
LEMMA Unborn ==
    ASSUME PubInv, NEW d \in CopyRecid, index[d] = 0
    PROVE  /\ Offspring(FamilyOf[d]) = {}
           /\ \A k \in Call : ~ RunsOn(k, FamilyOf[d])
<1>1. ASSUME NEW o \in Offspring(FamilyOf[d]) PROVE FALSE
  <2>1. PICK s : s = approval[FamilyOf[o]].source
    OBVIOUS
  <2>2. /\ o \in CopyRecid /\ s # None
        /\ FamilyOf[s] = FamilyOf[d] /\ FamilyOf[o] \in Family
    BY <1>1, <2>1 DEF Offspring
  <2>3. s \in Recid
    BY <2>1, <2>2 DEF PubInv, TypeInv, TypeOK, Approval
  <2>4. index[s] # 0
    BY <2>1, <2>2, <2>3 DEF PubInv, Parents, Truthful
  <2> QED
    BY <2>2, <2>3, <2>4, OnlyCopy
<1>2. ASSUME NEW k \in Call, RunsOn(k, FamilyOf[d]) PROVE FALSE
  <2>1. call[k].src \in Recid /\ index[call[k].src] # 0
    BY <1>2, CallFields DEF RunsOn, PubInv, CallSound, CallOK
  <2> QED
    BY <1>2, <2>1, OnlyCopy DEF RunsOn
<1> QED
  BY <1>1, <1>2

\* A family gets a copy from a call at work on it only, which numbers its draft.
LEMMA OffspringStep ==
    ASSUME PubInv, [PNext]_allVars, NEW f \in Family \ excused', Timely(f),
           NEW o, o \in Offspring(f)'
    PROVE  /\ o \in CopyRecid /\ (o \in live => o \in live')
           /\ \/ o \in Offspring(f)
              \/ \E k \in Call : NumberDraft(k) /\ RunsOn(k, f) /\ o = call[k].copy
<1> DEFINE g == FamilyOf[o]
<1>1. /\ o \in CopyRecid /\ o \in live' \cup draft'
      /\ approval'[g].source # None /\ FamilyOf[approval'[g].source] = f
  BY DEF Offspring
<1>2. o \in live => o \in live'
  <2> SUFFICES ASSUME o \in live, o \in draft' PROVE FALSE
    BY <1>1
  <2>1. index'[o] # 0
    BY <1>1, IndexStays DEF PubInv, CopyState
  <2> QED
    BY <2>1, NextCopyState DEF CopyState
<1>3. o \in live \cup draft
  <2>1. ASSUME NEW k \in Call, CreateDraft(k, o) PROVE FALSE
    <3>1. approval' = [approval EXCEPT ![g] = NoApproval]
      BY <2>1 DEF CreateDraft
    <3> QED
      BY <1>1, <3>1, NoApprovalType DEF PubInv, TypeInv, TypeOK
  <2> QED
    BY <1>1, <2>1, VersionStep, ZenonT(30)
       DEF PubInv, PublishVersion, DeleteRecord, PublishDraft, CreateDraft, OwnerDiscards
<1>4. CASE approval'[g] = approval[g]
  BY <1>1, <1>2, <1>3, <1>4 DEF Offspring
<1>5. ASSUME NEW k \in Call, NumberDraft(k), call[k] # None, call[k].copy = o,
             approval'[g] = CopyApproval(k)
      PROVE  RunsOn(k, f)
  BY <1>1, <1>5, ApprovalTyped DEF RunsOn, PubInv
<1>6. ASSUME NEW k \in Call, WriteMarker(k), call[k] # None, call[k].src = o, o \in live,
             approval'[g] = Marked(k)
      PROVE  o \in Offspring(f)
  <2>1. call[k].ea.source # None /\ FamilyOf[call[k].ea.source] = f
    BY <1>1, <1>6, ApprovalTyped DEF PubInv
  <2>2. o \notin early
    BY <1>6, <2>1 DEF Timely
  <2>3. call[k].ea.source = approval[g].source
    BY <1>1, <1>6, <2>2 DEF PubInv, CallSound, CallOK
  <2> QED
    BY <1>1, <1>3, <2>1, <2>3 DEF Offspring
<1> QED
  BY <1>1, <1>2, <1>4, <1>5, <1>6, CopyParentStep

\* A family whose copies were all published in time has no other afterwards,
\* unless it is excused.
LEMMA TimelyStep ==
    ASSUME PubInv, [PNext]_allVars, NEW f \in Family \ excused', Timely(f)
    PROVE  Timely(f)'
<1>1. ASSUME NEW k \in Call, NumberDraft(k), call[k].copy \in live
      PROVE  /\ call[k] # None /\ call[k].copy \in CopyRecid \ early
             /\ approval[FamilyOf[call[k].copy]].source = None
             /\ FamilyOf[call[k].src] # f
  <2>1. call[k] # None /\ call[k].step = "created" /\ SourceFamily(k) \in excused'
    BY <1>1, CallFields DEF NumberDraft, PubInv
  <2> QED
    BY <1>1, <2>1, CallFields DEF PubInv, CallSound, CallOK
<1>2. ASSUME NEW d \in early', NEW s, s = approval'[FamilyOf[d]].source, s # None, FamilyOf[s] = f
      PROVE  FALSE
  <2>1. d \in CopyRecid
    BY <1>2, PCallType DEF PubInv, CallType
  <2>2. CASE d \in early
    <3>1. approval[FamilyOf[d]].source = None \/ FamilyOf[approval[FamilyOf[d]].source] # f
      BY <2>2 DEF Timely
    <3>2. ASSUME NEW k \in Call, call[k] # None, call[k].src = d
          PROVE  Marked(k).source = None \/ FamilyOf[Marked(k).source] # f
      BY <2>2, <3>2, ApprovalTyped DEF Timely, PubInv
    <3>3. ASSUME NEW k \in Call, call[k] # None, call[k].step = "created" PROVE call[k].copy # d
      BY <2>2, <3>3 DEF PubInv, CallSound, CallOK
    <3> QED
      BY <1>2, <2>1, <3>1, <3>2, <3>3, CopyParentStep
  <2>3. CASE d \notin early
    <3>1. PICK k \in Call : NumberDraft(k) /\ d = call[k].copy /\ d \in live
      BY <1>2, <2>3, EarlyStep DEF PubInv
    <3>2. call[k] # None /\ approval' = [approval EXCEPT ![FamilyOf[d]] = CopyApproval(k)]
      BY <3>1 DEF NumberDraft
    <3>3. s = call[k].src
      BY <1>2, <2>1, <3>2, ApprovalTyped DEF PubInv, TypeInv, TypeOK
    <3> QED
      BY <1>1, <1>2, <3>1, <3>3
  <2> QED
    BY <2>2, <2>3
<1>3. ASSUME NEW k \in Call, call'[k] # None, call'[k].src \in early',
             NEW s, s = call'[k].ea.source, s # None, FamilyOf[s] = f
      PROVE  FALSE
  <2>1. CASE /\ call[k] # None
             /\ call'[k].src = call[k].src /\ call'[k].ea = call[k].ea
    <3>1. call[k].src \notin early
      BY <1>3, <2>1 DEF Timely
    <3>2. PICK j \in Call : NumberDraft(j) /\ call[k].src = call[j].copy /\ call[j].copy \in live
      BY <1>3, <2>1, <3>1, EarlyStep DEF PubInv
    <3>3. call[k].ea.source = None
      BY <1>1, <2>1, <3>1, <3>2 DEF PubInv, CallSound, CallOK
    <3> QED
      BY <1>3, <2>1, <3>3
  <2>2. ASSUME NEW r \in Recid, Start(k, r) PROVE FALSE
    <3>1. call'[k].src = r /\ call'[k].ea = approval[FamilyOf[r]] /\ early' = early
      BY <2>2 DEF Start, PubInv, CallType
    <3> QED
      BY <1>3, <3>1 DEF Timely
  <2> QED
    BY <1>3, <2>1, <2>2, CallStep DEF PubInv, Moves, OthersWait
<1> QED
  BY <1>2, <1>3 DEF Timely

\* The marker stays, unless the family is excused or there is nothing to mark.
LEMMA MarkerStays ==
    ASSUME PubInv, [PNext]_allVars, NEW f \in Family \ excused', approval[f].public # None
    PROVE  \/ approval'[f].public # None
           \/ Offspring(f) = {} /\ \A k \in Call : ~ RunsOn(k, f)
<1>1. approval \in [Family -> Approval]
  BY DEF PubInv, TypeInv, TypeOK
<1>2. CASE WorkflowStep
  BY <1>2 DEF WorkflowStep
<1>3. ASSUME NEW k \in Call, NEW d \in CopyRecid, CreateDraft(k, d), approval'[f] # approval[f]
      PROVE  Offspring(f) = {} /\ \A j \in Call : ~ RunsOn(j, f)
  <2>1. f = FamilyOf[d] /\ index[d] = 0
    BY <1>1, <1>3 DEF CreateDraft, PubInv, CopyState
  <2> QED
    BY <2>1, Unborn
<1>4. ASSUME NEW d \in CopyRecid, OwnerDiscards(d), approval'[f] # approval[f]
      PROVE  Offspring(f) = {} /\ \A j \in Call : ~ RunsOn(j, f)
  <2>1. f = FamilyOf[d] /\ index[d] = 0
    BY <1>1, <1>4 DEF OwnerDiscards, PubInv, CopyState
  <2> QED
    BY <2>1, Unborn
<1>5. ASSUME NEW k \in Call, NumberDraft(k), approval'[f] # approval[f] PROVE FALSE
  <2>1. /\ approval' = [approval EXCEPT ![FamilyOf[call[k].copy]] = CopyApproval(k)]
        /\ {g \in {FamilyOf[call[k].copy]} : approval[g].public # None} \subseteq excused'
    BY <1>5 DEF NumberDraft
  <2>2. f = FamilyOf[call[k].copy]
    BY <1>1, <1>5, <2>1
  <2> QED
    BY <2>1, <2>2
<1>6. ASSUME NEW k \in Call, WriteMarker(k), approval'[f] # approval[f]
      PROVE  approval'[f].public # None
  <2>1. call[k] # None /\ call[k].step = "published" /\ approval'[f] = Marked(k)
    BY <1>1, <1>6 DEF WriteMarker
  <2>2. call[k].copy \in CopyRecid
    BY <2>1 DEF PubInv, CallSound, CallOK
  <2> QED
    BY <2>1, <2>2, ApprovalTyped DEF PubInv
<1>7. \/ WorkflowStep
      \/ \E k \in Call, d \in CopyRecid : CreateDraft(k, d)
      \/ \E k \in Call : NumberDraft(k)
      \/ \E d \in CopyRecid : OwnerDiscards(d)
      \/ \E k \in Call : WriteMarker(k)
      \/ approval' = approval
  BY DEF PNext, Start, PublishCopy, PublishDraft, Fail, WriteBackLink, Warn, OwnerPublishes,
     allVars, vars
<1> QED
  BY <1>2, <1>3, <1>4, <1>5, <1>6, <1>7

\* A step in which no call starts, moves or ends on a family leaves it orderly.
LEMMA QuietStep ==
    ASSUME PubInv, [PNext]_allVars, NEW f \in Family \ excused', Orderly(f), Timely(f),
           \A k \in Call : RunsOn(k, f) \/ RunsOn(k, f)' => call'[k] = call[k]
    PROVE  Orderly(f)'
<1>1. \A k \in Call : (RunsOn(k, f)' <=> RunsOn(k, f)) /\ (RunsOn(k, f) => call'[k] = call[k])
  BY DEF RunsOn
<1>2. ASSUME NEW o, o \in Offspring(f)'
      PROVE  o \in Offspring(f) /\ (o \in live => o \in live')
  <2>1. ASSUME NEW k \in Call, NumberDraft(k), RunsOn(k, f) PROVE FALSE
    <3>1. call'[k].step = "draft" /\ call[k].step = "created"
      BY <2>1, CommitMoves DEF Moves, NumberDraft, PubInv
    <3> QED
      BY <1>1, <2>1, <3>1
  <2> QED
    BY <1>2, <2>1, OffspringStep
<1>3. Offspring(f)' \subseteq Offspring(f)
  <2>1. PICK E : E = Offspring(f)'
    OBVIOUS
  <2>2. \A o \in E : o \in Offspring(f)
    BY <1>2, <2>1
  <2> QED
    BY <2>1, <2>2
<1>4. approval[f].public # None =>
         \/ approval'[f].public # None
         \/ Offspring(f) = {} /\ \A k \in Call : ~ RunsOn(k, f)
  BY MarkerStays
<1>5. PICK E : E = Offspring(f)'
  OBVIOUS
<1>6. /\ \A j, k \in Call : RunsOn(j, f)' /\ RunsOn(k, f)' => j = k
      /\ \A d, e \in E : d = e
  BY <1>1, <1>3, <1>5 DEF Orderly
<1>7. ASSUME NEW k \in Call, RunsOn(k, f)'
      PROVE  /\ call'[k].step \in {"read", "created"} => E = {}
             /\ E \subseteq {call'[k].copy}
             /\ call'[k].step = "marked" => approval'[f].public # None
  <2>1. RunsOn(k, f) /\ call'[k] = call[k]
    BY <1>1, <1>7
  <2> QED
    BY <1>3, <1>4, <1>5, <2>1 DEF Orderly
<1>8. ASSUME \A k \in Call : ~ RunsOn(k, f)'
      PROVE  E \subseteq live' /\ (E # {} => approval'[f].public # None)
  <2>1. Offspring(f) \subseteq live /\ (Offspring(f) # {} => approval[f].public # None)
    BY <1>1, <1>8 DEF Orderly
  <2> QED
    BY <1>2, <1>3, <1>4, <1>5, <2>1
<1> QED
  BY <1>5, <1>6, <1>7, <1>8 DEF Orderly

\* The call at work on a family goes on.
LEMMA MoveStep ==
    ASSUME PubInv, [PNext]_allVars, NEW f \in Family \ excused', Orderly(f), Timely(f),
           NEW k \in Call, RunsOn(k, f), OthersWait(k),
           \/ \E d \in CopyRecid : CreateDraft(k, d)
           \/ NumberDraft(k) \/ PublishCopy(k) \/ WriteMarker(k)
    PROVE  Orderly(f)'
<1>1. PICK t, d :
         /\ t \in {"created", "draft", "published", "marked"} /\ Moves(k, t, d)
         /\ t = "created" => call[k].step = "read"
         /\ t # "created" => d = call[k].copy
         /\ t = "draft" => NumberDraft(k)
         /\ t = "marked" => WriteMarker(k)
  BY CreateDraftMoves, CommitMoves DEF PubInv, CreateDraft
<1>2. \A j \in Call : RunsOn(j, f)' <=> j = k
  BY <1>1 DEF Orderly, RunsOn, Moves, OthersWait
<1>3. ASSUME NEW o, o \in Offspring(f)' PROVE o = d /\ t # "created"
  <2>1. CASE o \in Offspring(f)
    BY <1>1, <2>1 DEF Orderly
  <2>2. ASSUME NEW j \in Call, NumberDraft(j), RunsOn(j, f), o = call[j].copy
        PROVE  o = d /\ t # "created"
    <3>1. j = k
      BY <2>2 DEF Orderly
    <3>2. Moves(k, "draft", o)
      BY <2>2, <3>1, CommitMoves DEF PubInv
    <3> QED
      BY <1>1, <3>2 DEF Moves
  <2> QED
    BY <1>3, <2>1, <2>2, OffspringStep
<1>4. t = "marked" => approval'[f].public # None
  <2> SUFFICES ASSUME WriteMarker(k) PROVE approval'[f].public # None
    BY <1>1
  <2>1. call[k] # None /\ call[k].step = "published"
        /\ approval' = [approval EXCEPT ![f] = Marked(k)]
    BY DEF WriteMarker, SourceFamily, RunsOn
  <2>2. call[k].copy \in CopyRecid
    BY <2>1 DEF PubInv, CallSound, CallOK
  <2> QED
    BY <2>1, <2>2, ApprovalTyped DEF PubInv, TypeInv, TypeOK
<1>5. PICK E : E = Offspring(f)'
  OBVIOUS
<1>6. /\ E \subseteq {d} /\ (t = "created" => E = {})
      /\ call'[k].step = t /\ call'[k].copy = d /\ t # "read"
  BY <1>1, <1>3, <1>5 DEF Moves
<1> QED
  BY <1>2, <1>4, <1>5, <1>6 DEF Orderly

\* A call starts on a family nothing disturbs: nothing was made from it yet.
LEMMA StartStep ==
    ASSUME PubInv, NEW f \in Family \ excused', Orderly(f),
           NEW k \in Call, NEW r \in Recid, FamilyOf[r] = f, Start(k, r)
    PROVE  Orderly(f)'
<1>1. \A j \in Call : ~ RunsOn(j, f)
  BY DEF Start, RunsOn, SourceFamily
<1>2. approval[f].public = None /\ UNCHANGED <<live, approval, draft>>
  BY DEF Start, vars
<1>3. Offspring(f) = {} /\ Offspring(f)' = Offspring(f)
  BY <1>1, <1>2 DEF Orderly, Offspring
<1>4. /\ \A j \in Call : j # k => call'[j] = call[j]
      /\ call'[k].step = "read"
  BY DEF Start, PubInv, CallType
<1>5. \A j \in Call : RunsOn(j, f)' => j = k
  BY <1>1, <1>4 DEF RunsOn
<1>6. RunsOn(k, f)'
  <2>1. approval[f] \in Approval /\ grants[f] \in SUBSET Recid /\ community[f] \in Community
    BY DEF PubInv, TypeInv, TypeOK, Start
  <2>2. [step |-> "read", src |-> r, ea |-> approval[f], grants |-> grants[f],
         community |-> community[f], copy |-> None] \in CallState
    BY <2>1 DEF CallState
  <2>3. call'[k] \in CallState /\ call'[k].src = r
    BY <2>2 DEF Start, PubInv, CallType
  <2> QED
    BY <2>3 DEF RunsOn
<1>7. PICK E : E = Offspring(f)'
  OBVIOUS
<1> QED
  BY <1>3, <1>4, <1>5, <1>6, <1>7 DEF Orderly

\* A call that ends without disturbing its family has marked it.
LEMMA EndStep ==
    ASSUME PubInv, NEW f \in Family \ excused', Orderly(f),
           NEW k \in Call, RunsOn(k, f), Fail(k) \/ Warn(k) \/ WriteBackLink(k)
    PROVE  Orderly(f)'
<1>1. call[k].step = "marked" /\ UNCHANGED <<live, approval, draft>>
      /\ call' = [call EXCEPT ![k] = None]
  BY DEF Fail, Warn, WriteBackLink, RunsOn, SourceFamily, vars
<1>2. \A j \in Call : ~ RunsOn(j, f)'
  BY <1>1 DEF Orderly, RunsOn, PubInv, CallType
<1>3. Offspring(f)' = Offspring(f) /\ Offspring(f) \subseteq {call[k].copy}
  BY <1>1 DEF Orderly, Offspring
<1>4. call[k].copy \notin draft
  BY <1>1 DEF RunsOn, PubInv, CallSound, CallOK, PublishedFrom, CopyState
<1>5. Offspring(f) \subseteq live
  BY <1>3, <1>4 DEF Offspring
<1>6. approval'[f].public # None
  BY <1>1 DEF Orderly
<1>7. PICK E : E = Offspring(f)'
  OBVIOUS
<1> QED
  BY <1>1, <1>2, <1>3, <1>5, <1>6, <1>7 DEF Orderly

\* Every step leaves the families nothing disturbed in order.
LEMMA NextUndisturbed == PubInv /\ Undisturbed /\ [PNext]_allVars => Undisturbed'
<1> SUFFICES ASSUME PubInv, Undisturbed, [PNext]_allVars, NEW f \in Family \ excused'
             PROVE  Orderly(f)' /\ Timely(f)'
  BY DEF Undisturbed
<1>1. excused \subseteq excused'
  BY DEF PNext, WorkflowStep, Start, CreateDraft, NumberDraft, PublishCopy, PublishDraft, Fail,
     WriteMarker, WriteBackLink, Warn, OwnerPublishes, OwnerDiscards, allVars, callVars
<1>2. Orderly(f) /\ Timely(f)
  BY <1>1 DEF Undisturbed
<1>3. ASSUME call' = call PROVE Orderly(f)'
  BY <1>2, <1>3, QuietStep
<1>4. ASSUME NEW k \in Call, OthersWait(k),
             ~ RunsOn(k, f), ~ RunsOn(k, f)'
      PROVE  Orderly(f)'
  BY <1>2, <1>4, QuietStep DEF OthersWait
<1>5. ASSUME NEW k \in Call, OthersWait(k),
             NEW r \in Recid, Start(k, r)
      PROVE  Orderly(f)'
  <2>1. CASE FamilyOf[r] = f
    BY <1>2, <1>5, <2>1, StartStep
  <2>2. CASE FamilyOf[r] # f
    <3>1. ~ RunsOn(k, f) /\ call'[k].src = r
      BY <1>5 DEF Start, RunsOn, PubInv, CallType
    <3>2. ~ RunsOn(k, f)'
      BY <2>2, <3>1 DEF RunsOn
    <3> QED
      BY <1>4, <1>5, <3>1, <3>2
  <2> QED
    BY <2>1, <2>2
<1>6. ASSUME NEW k \in Call, OthersWait(k),
             call'[k] = None, Fail(k) \/ Warn(k) \/ WriteBackLink(k)
      PROVE  Orderly(f)'
  <2>1. CASE RunsOn(k, f)
    BY <1>2, <1>6, <2>1, EndStep
  <2>2. CASE ~ RunsOn(k, f)
    <3>1. ~ RunsOn(k, f)'
      BY <1>6 DEF RunsOn
    <3> QED
      BY <1>4, <1>6, <2>2, <3>1
  <2> QED
    BY <2>1, <2>2
<1>7. ASSUME NEW k \in Call, OthersWait(k),
             NEW t, NEW d, Moves(k, t, d),
             \/ \E e \in CopyRecid : CreateDraft(k, e)
             \/ NumberDraft(k) \/ PublishCopy(k) \/ WriteMarker(k)
      PROVE  Orderly(f)'
  <2>1. CASE RunsOn(k, f)
    BY <1>2, <1>7, <2>1, MoveStep
  <2>2. CASE ~ RunsOn(k, f)
    <3>1. ~ RunsOn(k, f)'
      BY <1>7, <2>2 DEF RunsOn, Moves
    <3> QED
      BY <1>4, <1>7, <2>2, <3>1
  <2> QED
    BY <2>1, <2>2
<1>8. Orderly(f)'
  BY <1>3, <1>5, <1>6, <1>7, CallStep DEF PubInv
<1> QED
  BY <1>2, <1>8, TimelyStep

-----------------------------------------------------------------------------
(* Theorems                                                                *)

\* PubInv holds in every reachable state, however calls overlap, fail or write
\* late, and whenever the owner publishes or discards a draft.
THEOREM PubInvariant == PSpec => []PubInv
BY InitPubInv, NextPubInv, PTL DEF PSpec

\* What is written back late is never a number that was not issued
\* (publish_public_record saves the parent it read at the start).
THEOREM ParentsIssued == PSpec => []NumbersOnParentsIssued
<1>1. PubInv => NumbersOnParentsIssued
  BY DEF PubInv, Parents, Truthful, NumbersOnParentsIssued, Issued
<1> QED
  BY <1>1, PubInvariant, PTL

\* A copy carries a number accepted for its source family, or that of the copy
\* it was made from.
THEOREM CarriesAccepted == PSpec => []CopyCarriesAcceptedNumber
<1>1. PubInv => CopyCarriesAcceptedNumber
  BY DEF PubInv, Parents, Truthful, CarriesFrom, AcceptedFor, CopyCarriesAcceptedNumber
<1> QED
  BY <1>1, PubInvariant, PTL

\* The marker on a source's parent names a copy published from that family.
THEOREM MarkerSound == PSpec => []MarkerNamesACopy
<1>1. PubInv => MarkerNamesACopy
  BY DEF PubInv, Parents, Truthful, PublishedFrom, Copies, MarkerNamesACopy
<1> QED
  BY <1>1, PubInvariant, PTL

\* No copy is ever submitted to the referees, unless its owner published it
\* before its parent got the number (publish_public_record commits the draft
\* before the parent).
THEOREM CopiesOutOfReview == PSpec => []CopiesNeverUnderReview
<1>1. ASSUME PubInv PROVE CopiesNeverUnderReview
  <2> SUFFICES ASSUME NEW q \in Request, request[q].status # "none",
                      NEW d \in Recid, d = request[q].topic, approval[FamilyOf[d]].source # None
               PROVE  d \in early
    BY <1>1 DEF CopiesNeverUnderReview, PubInv, TypeInv, TopicsKnown
  <2>1. d \in CopyRecid
    BY <1>1, OnlyCopy DEF PubInv, Parents, Truthful, IsCopyFamily
  <2> QED
    BY <1>1, <2>1 DEF PubInv, NoReview
<1> QED
  BY <1>1, PubInvariant, PTL

\* One public copy per family, unless calls overlapped, one ended early or
\* published early, or the marker went with a second acceptance.
THEOREM OneCopy == PSpec => []OneCopyWhenUndisturbed
<1>1. PInit => Undisturbed
  <2> SUFFICES ASSUME PInit, NEW f \in Family PROVE Orderly(f) /\ Timely(f)
    BY DEF Undisturbed
  <2>1. draft = {} /\ live = {} /\ early = {} /\ \A k \in Call : call[k] = None
    BY DEF PInit, Init
  <2>2. Offspring(f) = {} /\ \A k \in Call : ~ RunsOn(k, f)
    BY <2>1 DEF Offspring, RunsOn
  <2> QED
    BY <2>1, <2>2 DEF Orderly, Timely
<1>2. Undisturbed => OneCopyWhenUndisturbed
  <2> SUFFICES ASSUME Undisturbed, NEW f \in Family \ excused
               PROVE  \A d, e \in Copies(f) : d = e
    BY DEF OneCopyWhenUndisturbed
  <2>1. Copies(f) \subseteq Offspring(f)
    BY DEF Copies, Offspring
  <2> QED
    BY <2>1 DEF Undisturbed, Orderly
<1>3. PInit => PubInv
  BY InitPubInv
<1>4. PubInv /\ [PNext]_allVars => PubInv'
  BY NextPubInv
<1>5. PubInv /\ Undisturbed /\ [PNext]_allVars => Undisturbed'
  BY NextUndisturbed
<1> QED
  BY <1>1, <1>2, <1>3, <1>4, <1>5, PTL DEF PSpec

=============================================================================
