-------------------------- MODULE HarvestReaderProofs --------------------------
(***************************************************************************)
(* Proofs about HarvestReader, for any finite set of records, page size    *)
(* and number of passes.                                                   *)
(*                                                                         *)
(* Kept is a recursive function, so the facts about it are proved by an    *)
(* induction, and that rests on the order of the natural numbers being     *)
(* well founded.                                                           *)
(***************************************************************************)
EXTENDS HarvestReader, SequenceTheorems, FiniteSetTheorems, WellFoundedInduction, TLAPS

-----------------------------------------------------------------------------
(* Induction                                                               *)

\* A set that holds 0 and the successor of each of its members is all of Nat.
LEMMA Induction ==
    ASSUME NEW P \in SUBSET Nat, 0 \in P, \A n \in P : n + 1 \in P
    PROVE  P = Nat
<1> DEFINE R == OpToRel(<, Nat)
<1>1. IsWellFoundedOn(R, Nat)
  BY NatLessThanWellFounded
<1>2. \A x, y \in Nat : x < y <=> <<x, y>> \in R
  BY DEF OpToRel
<1> HIDE DEF R
<1> SUFFICES ASSUME Nat \ P # {} PROVE FALSE
  OBVIOUS
<1>3. \E x \in Nat \ P : \A y \in Nat \ P : ~ (<<y, x>> \in R)
  BY <1>1, WFMin
<1>4. PICK x \in Nat \ P : \A y \in Nat \ P : ~(y < x)
  BY <1>2, <1>3
<1>5. x # 0 /\ x - 1 \in Nat
  BY <1>4
<1>6. x - 1 \in P
  BY <1>4, <1>5
<1> QED
  BY <1>5, <1>6

-----------------------------------------------------------------------------
(* Kept: what a page has that was not yielded before                       *)

\* Kept goes through the sequence from its first member on.
LEMMA KeptSteps ==
    ASSUME NEW S, NEW s \in Seq(S), NEW D
    PROVE  \E f : /\ Kept(s, D) = f[Len(s)] /\ f[0] = <<>>
                  /\ \A i \in 1 .. Len(s) :
                       f[i] = IF s[i] \in D THEN f[i - 1] ELSE Append(f[i - 1], s[i])
<1> DEFINE Steps(g, n) == g = [i \in 0 .. n |->
                                 IF i = 0 THEN <<>>
                                 ELSE IF s[i] \in D THEN g[i - 1] ELSE Append(g[i - 1], s[i])]
           P == {n \in Nat : \E g : Steps(g, n)}
<1>1. 0 \in P
  <2> DEFINE g == [i \in 0 .. 0 |-> <<>>]
  <2>1. Steps(g, 0)
    OBVIOUS
  <2> QED
    BY <2>1
<1>2. ASSUME NEW n \in P PROVE n + 1 \in P
  <2>1. PICK g : Steps(g, n)
    BY <1>2
  <2> DEFINE last == IF s[n + 1] \in D THEN g[n] ELSE Append(g[n], s[n + 1])
             h == [i \in 0 .. n + 1 |-> IF i = n + 1 THEN last ELSE g[i]]
  <2>2. \A i \in 0 .. n : h[i] = g[i]
    OBVIOUS
  <2>3. h[n + 1] = last
    OBVIOUS
  <2>4. \A i \in 0 .. n + 1 : h[i] = IF i = 0 THEN <<>>
             ELSE IF s[i] \in D THEN h[i - 1] ELSE Append(h[i - 1], s[i])
    <3> TAKE i \in 0 .. n + 1
    <3>1. CASE i = n + 1
      <4>1. h[i - 1] = g[n] /\ i # 0
        BY <2>2, <3>1
      <4> HIDE DEF h
      <4> QED
        BY <2>3, <3>1, <4>1
    <3>2. CASE i # n + 1
      <4>1. i \in 0 .. n /\ (i # 0 => i - 1 \in 0 .. n)
        BY <3>2
      <4>2. g[i] = IF i = 0 THEN <<>>
                   ELSE IF s[i] \in D THEN g[i - 1] ELSE Append(g[i - 1], s[i])
        BY <2>1, <4>1
      <4> HIDE DEF h
      <4> QED
        BY <2>2, <4>1, <4>2
    <3> QED
      BY <3>1, <3>2
  <2>5. Steps(h, n + 1)
    <3> DEFINE r == [i \in 0 .. n + 1 |->
                       IF i = 0 THEN <<>>
                       ELSE IF s[i] \in D THEN h[i - 1] ELSE Append(h[i - 1], s[i])]
    <3>1. \A i \in 0 .. n + 1 : r[i] = h[i]
      BY <2>4
    <3>2. DOMAIN r = 0 .. n + 1 /\ DOMAIN h = 0 .. n + 1
      OBVIOUS
    <3> QED
      BY <3>1, <3>2
  <2> HIDE DEF Steps, h
  <2> QED
    BY <2>5
<1>3. \E g : Steps(g, Len(s))
  <2> HIDE DEF Steps
  <2>1. P = Nat
    <3> HIDE DEF P
    <3>1. P \in SUBSET Nat
      BY DEF P
    <3> QED
      BY <1>1, <1>2, <3>1, Induction
  <2> QED
    BY <2>1, LenProperties
<1> DEFINE f == CHOOSE g : Steps(g, Len(s))
<1>4. Steps(f, Len(s))
  BY <1>3
<1>5. Kept(s, D) = f[Len(s)]
  BY DEF Kept
<1> HIDE DEF f
<1>6. Len(s) \in Nat
  BY LenProperties
<1>7. \A i \in 0 .. Len(s) :
        f[i] = IF i = 0 THEN <<>>
               ELSE IF s[i] \in D THEN f[i - 1] ELSE Append(f[i - 1], s[i])
  BY <1>4
<1>8. f[0] = <<>> /\ \A i \in 1 .. Len(s) :
                       f[i] = IF s[i] \in D THEN f[i - 1] ELSE Append(f[i - 1], s[i])
  BY <1>6, <1>7
<1> QED
  BY <1>5, <1>8

\* The members of a sequence with one more.
LEMMA AppendMembers ==
    ASSUME NEW S, NEW k \in Seq(S), NEW e \in S
    PROVE  ToSet(Append(k, e)) = ToSet(k) \cup {e}
<1>1. /\ \A i \in 1 .. Len(k) : Append(k, e)[i] = k[i]
      /\ Append(k, e)[Len(k) + 1] = e
      /\ Len(k) \in Nat /\ DOMAIN k = 1 .. Len(k)
      /\ DOMAIN Append(k, e) = 1 .. Len(k) + 1
  BY AppendProperties, LenProperties
<1>2. ToSet(k) = {k[i] : i \in 1 .. Len(k)}
  BY <1>1 DEF ToSet
<1>3. ToSet(Append(k, e)) = {Append(k, e)[i] : i \in 1 .. Len(k) + 1}
  BY <1>1 DEF ToSet
<1> QED
  BY <1>1, <1>2, <1>3

\* It keeps the members that are not dropped, each once if each was there once.
LEMMA KeptMembers ==
    ASSUME NEW S, NEW s \in Seq(S), NEW D
    PROVE  /\ Kept(s, D) \in Seq(S)
           /\ ToSet(Kept(s, D)) = ToSet(s) \ D
           /\ IsInjective(s) => IsInjective(Kept(s, D))
<1>1. PICK f : /\ Kept(s, D) = f[Len(s)] /\ f[0] = <<>>
               /\ \A i \in 1 .. Len(s) :
                    f[i] = IF s[i] \in D THEN f[i - 1] ELSE Append(f[i - 1], s[i])
  BY KeptSteps
<1>2. Len(s) \in Nat /\ DOMAIN s = 1 .. Len(s)
  BY LenProperties
<1> DEFINE Good(n) == /\ f[n] \in Seq(S)
                      /\ ToSet(f[n]) = {s[i] : i \in 1 .. n} \ D
                      /\ IsInjective(s) => IsInjective(f[n])
           P == {n \in Nat : n <= Len(s) => Good(n)}
<1>3. 0 \in P
  <2>1. f[0] = <<>> /\ <<>> \in Seq(S) /\ ToSet(<<>>) = {} /\ IsInjective(<<>>)
    BY <1>1 DEF ToSet, IsInjective
  <2>2. {s[i] : i \in 1 .. 0} = {}
    OBVIOUS
  <2> QED
    BY <2>1, <2>2
<1>4. ASSUME NEW n \in P PROVE n + 1 \in P
  <2> SUFFICES ASSUME n + 1 <= Len(s) PROVE Good(n + 1)
    OBVIOUS
  <2>1. Good(n) /\ s[n + 1] \in S /\ n + 1 \in 1 .. Len(s)
    BY <1>2, ElementOfSeq
  <2>2. {s[i] : i \in 1 .. n + 1} = {s[i] : i \in 1 .. n} \cup {s[n + 1]}
    BY <1>2
  <2>3. f[n + 1] = IF s[n + 1] \in D THEN f[n] ELSE Append(f[n], s[n + 1])
    BY <1>1, <2>1
  <2>4. CASE s[n + 1] \in D
    BY <2>1, <2>2, <2>3, <2>4
  <2>5. CASE s[n + 1] \notin D
    <3> DEFINE k == f[n]
               e == s[n + 1]
    <3>1. k \in Seq(S) /\ e \in S /\ ToSet(k) = {s[i] : i \in 1 .. n} \ D
      BY <2>1
    <3>2. IsInjective(s) => e \notin ToSet(k)
      BY <1>2, <2>1, <3>1 DEF IsInjective
    <3>3. IsInjective(s) => IsInjective(k)
      BY <2>1
    <3> HIDE DEF k
    <3>4. /\ Append(k, e) \in Seq(S) /\ Len(Append(k, e)) = Len(k) + 1
          /\ \A i \in 1 .. Len(k) : Append(k, e)[i] = k[i]
          /\ Append(k, e)[Len(k) + 1] = e
          /\ Len(k) \in Nat /\ DOMAIN k = 1 .. Len(k)
          /\ DOMAIN Append(k, e) = 1 .. Len(k) + 1
      BY <3>1, AppendProperties, LenProperties
    <3>5. ToSet(Append(k, e)) = ToSet(k) \cup {e}
      BY <3>1, AppendMembers
    <3>6. IsInjective(s) => IsInjective(Append(k, e))
      BY <3>2, <3>3, <3>4 DEF IsInjective, ToSet
    <3> QED
      BY <2>2, <2>3, <2>5, <3>1, <3>4, <3>5, <3>6 DEF k
  <2> QED
    BY <2>4, <2>5
<1>5. Good(Len(s))
  <2> HIDE DEF Good
  <2>1. P = Nat
    <3> HIDE DEF P
    <3>1. P \in SUBSET Nat
      BY DEF P
    <3> QED
      BY <1>3, <1>4, <3>1, Induction
  <2> QED
    BY <1>2, <2>1
<1> QED
  BY <1>1, <1>2, <1>5 DEF ToSet

\* It changes nothing when nothing is to be dropped.
LEMMA KeptAll ==
    ASSUME NEW S, NEW s \in Seq(S), NEW D, ToSet(s) \cap D = {}
    PROVE  Kept(s, D) = s
<1>1. PICK f : /\ Kept(s, D) = f[Len(s)] /\ f[0] = <<>>
               /\ \A i \in 1 .. Len(s) :
                    f[i] = IF s[i] \in D THEN f[i - 1] ELSE Append(f[i - 1], s[i])
  BY KeptSteps
<1>2. Len(s) \in Nat /\ DOMAIN s = 1 .. Len(s)
  BY LenProperties
<1> DEFINE P == {n \in Nat : n <= Len(s) => f[n] = SubSeq(s, 1, n)}
<1>3. 0 \in P
  <2>1. SubSeq(s, 1, 0) = <<>>
    BY SubSeqEmpty
  <2> QED
    BY <1>1, <2>1
<1>4. ASSUME NEW n \in P PROVE n + 1 \in P
  <2> SUFFICES ASSUME n + 1 <= Len(s) PROVE f[n + 1] = SubSeq(s, 1, n + 1)
    OBVIOUS
  <2>1. f[n] = SubSeq(s, 1, n)
    BY <1>2
  <2>8. n + 1 \in 1 .. Len(s)
    BY <1>2
  <2>2. s[n + 1] \in S /\ s[n + 1] \notin D
    BY <1>2, <2>8, ElementOfSeq DEF ToSet
  <2>3. f[n + 1] = IF s[n + 1] \in D THEN f[n] ELSE Append(f[n], s[n + 1])
    BY <1>1, <2>8
  <2>4. SubSeq(s, 1, n) \in Seq(S)
    BY <1>2, <2>8, SubSeqProperties, ElementOfSeq
  <2>5. Append(SubSeq(s, 1, n), s[n + 1]) = SubSeq(s, 1, n) \o <<s[n + 1]>>
    BY <2>2, <2>4, AppendIsConcat
  <2>6. SubSeq(s, 1, n + 1) = SubSeq(s, 1, (n + 1) - 1) \o <<s[n + 1]>>
    BY <1>2, <2>8, SubSeqRecursiveSecond
  <2>7. (n + 1) - 1 = n
    OBVIOUS
  <2> QED
    BY <2>1, <2>2, <2>3, <2>5, <2>6, <2>7
<1>5. f[Len(s)] = SubSeq(s, 1, Len(s))
  <2>1. P = Nat
    <3> HIDE DEF P
    <3>1. P \in SUBSET Nat
      BY DEF P
    <3> QED
      BY <1>3, <1>4, <3>1, Induction
  <2> QED
    BY <1>2, <2>1
<1> QED
  BY <1>1, <1>5, SubSeqFull

-----------------------------------------------------------------------------
(* The inductive invariant                                                 *)

Types ==
  /\ result \in Seq(Record) /\ IsInjective(result)
  /\ changes \in Nat /\ pass \in 1 .. MaxPasses /\ page \in Nat
  /\ reported \in Nat \cup {None} /\ new \in Nat
  /\ seen \subseteq Record /\ delivered \in Seq(Record)
  /\ outcome \in {"reading", "complete", "incomplete", "failed"}
  /\ quiet \in BOOLEAN

\* The count of a pass is taken from its first page, and the reader stops only
\* at the end of a pass, unless a request fails.
Progress ==
  /\ reported = None => page = 1
  /\ outcome \in {"complete", "incomplete"} => page = 0

\* The number of records on the pages before the one asked for.
Before == (page - 1) * PageSize

\* While nothing changes, what the pass has walked over has been seen.
Walked ==
  quiet => \A i \in 1 .. Len(result) : page = 0 \/ i <= Before => result[i] \in seen

\* Only records the result has had were seen, and if it lost none, then the count
\* of the pass is the number of records it ever had.
Accounted ==
  /\ always \subseteq ToSet(result) /\ ToSet(result) \subseteq ever
  /\ seen \subseteq ever /\ ever \subseteq Record
  /\ ever = always /\ reported # None => reported = Cardinality(ever)

\* Without any change, one pass yields the result in its order.
Undisturbed ==
  changes = 0 =>
    /\ quiet /\ ever = always /\ pass = 1
    /\ page = 0 => delivered = result
    /\ page # 0 => Before <= Len(result) /\ delivered = SubSeq(result, 1, Before)

ReaderInv ==
  Types /\ DeliveredOnce /\ Progress /\ Walked /\ Accounted /\ Undisturbed /\ MovesNeverLose

-----------------------------------------------------------------------------
(* Lemmas about pages and results                                          *)

\* The records of a sequence without repetition are as many as its length.
LEMMA InjectiveLength ==
    ASSUME NEW s \in Seq(Record), IsInjective(s)
    PROVE  IsFiniteSet(ToSet(s)) /\ Cardinality(ToSet(s)) = Len(s)
<1>1. Len(s) \in Nat /\ DOMAIN s = 1 .. Len(s) /\ s \in [1 .. Len(s) -> Record]
  BY LenProperties
<1>2. s \in Bijection(1 .. Len(s), ToSet(s))
  BY <1>1 DEF Bijection, Injection, Surjection, IsInjective, ToSet
<1>3. IsFiniteSet(1 .. Len(s)) /\ Cardinality(1 .. Len(s)) = Len(s)
  BY <1>1, FS_Interval
<1> QED
  BY <1>2, <1>3, FS_Bijection DEF ExistsBijection

\* Two consecutive pages touch.
LEMMA PageEnd ==
    ASSUME NEW p \in Nat \ {0}
    PROVE  /\ (p - 1) * PageSize \in Nat
           /\ p * PageSize \in Nat
           /\ (p - 1) * PageSize < p * PageSize
           /\ ((p + 1) - 1) * PageSize = p * PageSize
<1>1. PageSize \in Nat \ {0} /\ p - 1 \in Nat
  BY HarvestAssumption
<1>2. PICK q \in Nat : q = p - 1
  BY <1>1
<1>3. q * PageSize \in Nat /\ (q + 1) * PageSize = q * PageSize + PageSize
  BY <1>1
<1> QED
  BY <1>1, <1>2, <1>3

\* A piece of a sequence without repetition has none, and has what it spans.
LEMMA Piece ==
    ASSUME NEW s \in Seq(Record), IsInjective(s), NEW b \in Nat, NEW l \in Nat, l <= Len(s),
           NEW h, h = SubSeq(s, b + 1, l)
    PROVE  /\ h \in Seq(Record) /\ IsInjective(h) /\ ToSet(h) \subseteq ToSet(s)
           /\ DOMAIN h = 1 .. l - b
           /\ \A i \in 1 .. l - b : h[i] = s[b + i]
           /\ \A i \in DOMAIN h : \E j \in 1 .. Len(s) : b < j /\ h[i] = s[j]
<1> DEFINE n == Len(s)
<1>1. n \in Nat /\ DOMAIN s = 1 .. n /\ \A i \in 1 .. n : s[i] \in Record
  BY LenProperties, ElementOfSeq
<1>2. l <= n
  OBVIOUS
<1> HIDE DEF n
<1>3. \A i \in b + 1 .. l : s[i] \in Record
  BY <1>1, <1>2
<1>4. /\ h \in Seq(Record)
      /\ Len(h) = IF b + 1 <= l THEN l - (b + 1) + 1 ELSE 0
      /\ \A i \in 1 .. l - (b + 1) + 1 : h[i] = s[(b + 1) + i - 1]
  BY <1>3, SubSeqProperties
<1>5. DOMAIN h = 1 .. l - b
  BY <1>4, LenProperties
<1>6. \A i \in 1 .. l - b : h[i] = s[b + i] /\ b + i \in 1 .. n /\ b < b + i
  <2> TAKE i \in 1 .. l - b
  <2>1. i \in 1 .. l - (b + 1) + 1 /\ (b + 1) + i - 1 = b + i
    OBVIOUS
  <2> QED
    BY <1>1, <1>2, <1>4, <2>1
<1>7. IsInjective(h)
  <2> SUFFICES ASSUME NEW i \in 1 .. l - b, NEW j \in 1 .. l - b, h[i] = h[j] PROVE i = j
    BY <1>5 DEF IsInjective
  <2>1. b + i \in DOMAIN s /\ b + j \in DOMAIN s /\ s[b + i] = s[b + j]
    BY <1>1, <1>6
  <2>2. \A x, y \in DOMAIN s : s[x] = s[y] => x = y
    BY DEF IsInjective
  <2>3. b + i = b + j
    BY <2>1, <2>2
  <2> QED
    BY <2>3
<1>8. ToSet(h) \subseteq ToSet(s)
  BY <1>1, <1>5, <1>6 DEF ToSet
<1>10. \A i \in DOMAIN h : \E j \in 1 .. n : b < j /\ h[i] = s[j]
  BY <1>5, <1>6
<1> QED
  BY <1>4, <1>5, <1>6, <1>7, <1>8, <1>10 DEF n

\* The members it spans.
LEMMA PieceSpans ==
    ASSUME NEW s \in Seq(Record), NEW b \in Nat, NEW l \in Nat, l <= Len(s), IsInjective(s),
           NEW i \in b + 1 .. l
    PROVE  s[i] \in ToSet(SubSeq(s, b + 1, l))
<1> DEFINE h == SubSeq(s, b + 1, l)
<1>1. DOMAIN h = 1 .. l - b /\ \A j \in 1 .. l - b : h[j] = s[b + j]
  BY Piece
<1> HIDE DEF h
<1>2. i - b \in 1 .. l - b /\ b + (i - b) = i
  OBVIOUS
<1>3. h[i - b] = s[i]
  BY <1>1, <1>2
<1> QED
  BY <1>1, <1>2, <1>3 DEF ToSet, h

\* A page is a piece of the result.
LEMMA PageHits ==
    ASSUME Types, page # 0
    PROVE  /\ Hits \in Seq(Record) /\ IsInjective(Hits)
           /\ ToSet(Hits) \subseteq ToSet(result)
           /\ \A i \in 1 .. Len(result) :
                Before < i /\ i <= page * PageSize => result[i] \in ToSet(Hits)
           /\ \A i \in DOMAIN Hits : \E j \in 1 .. Len(result) :
                Before < j /\ Hits[i] = result[j]
<1>1. Before \in Nat /\ page * PageSize \in Nat
  BY PageEnd DEF Types, Before
<1>2. PICK b \in Nat : b = Before
  BY <1>1
<1>3. PICK e \in Nat : e = page * PageSize
  BY <1>1
<1>4. PICK s \in Seq(Record) : s = result /\ IsInjective(s)
  BY DEF Types
<1> DEFINE last == IF e < Len(s) THEN e ELSE Len(s)
<1>5. last \in Nat /\ last <= Len(s) /\ \A i \in 1 .. Len(s) : i <= e => i <= last
  BY LenProperties
<1>6. Hits = SubSeq(s, b + 1, last)
  BY <1>2, <1>3, <1>4 DEF Hits, Before
<1>7. PICK l \in Nat : l = last
  BY <1>5
<1> HIDE DEF last
<1>8. IsInjective(s) /\ Hits = SubSeq(s, b + 1, l) /\ l <= Len(s)
  <2>1. IsInjective(s)
    BY <1>4
  <2>2. Hits = SubSeq(s, b + 1, l) /\ l <= Len(s)
    BY <1>5, <1>6, <1>7
  <2> QED
    BY <2>1, <2>2
<1>9. Hits \in Seq(Record) /\ IsInjective(Hits) /\ ToSet(Hits) \subseteq ToSet(s)
  BY <1>8, Piece
<1>10. \A i \in b + 1 .. l : s[i] \in ToSet(SubSeq(s, b + 1, l))
  BY <1>8, PieceSpans
<1>11. \A i \in DOMAIN Hits : \E j \in 1 .. Len(s) : b < j /\ Hits[i] = s[j]
  BY <1>8, Piece
<1>12. ASSUME NEW i \in 1 .. Len(s), b < i, i <= e PROVE s[i] \in ToSet(Hits)
  <2>1. i \in b + 1 .. l
    BY <1>5, <1>7, <1>12
  <2> QED
    BY <1>8, <1>10, <2>1
<1> QED
  BY <1>2, <1>3, <1>4, <1>9, <1>11, <1>12

\* Two sequences without repetition and nothing in common, one after the other.
LEMMA Joined ==
    ASSUME NEW p \in Seq(Record), IsInjective(p), NEW q \in Seq(Record), IsInjective(q),
           ToSet(p) \cap ToSet(q) = {}
    PROVE  /\ p \o q \in Seq(Record) /\ IsInjective(p \o q)
           /\ ToSet(p \o q) = ToSet(p) \cup ToSet(q)
<1> DEFINE d == p \o q
           n == Len(p)
           m == Len(q)
<1>1. n \in Nat /\ m \in Nat /\ DOMAIN p = 1 .. n /\ DOMAIN q = 1 .. m
  BY LenProperties
<1>2. /\ d \in Seq(Record) /\ Len(d) = n + m
      /\ \A i \in 1 .. n + m : d[i] = IF i <= n THEN p[i] ELSE q[i - n]
  BY ConcatProperties
<1> HIDE DEF d, n, m
<1>3. DOMAIN d = 1 .. n + m
  BY <1>2, LenProperties
<1>4. \A i \in 1 .. n : d[i] = p[i] /\ i \in 1 .. n + m
  BY <1>1, <1>2
<1>5. \A i \in 1 .. m : d[n + i] = q[i] /\ n + i \in 1 .. n + m
  <2> TAKE i \in 1 .. m
  <2>1. n + i \in 1 .. n + m /\ ~(n + i <= n) /\ (n + i) - n = i
    BY <1>1
  <2> QED
    BY <1>2, <2>1
<1>6. \A i \in 1 .. n + m : i \in 1 .. n \/ \E j \in 1 .. m : i = n + j
  <2> TAKE i \in 1 .. n + m
  <2>1. i \notin 1 .. n => i - n \in 1 .. m /\ i = n + (i - n)
    BY <1>1
  <2> QED
    BY <2>1
<1>7. ToSet(p \o q) = ToSet(p) \cup ToSet(q)
  <2>1. \A x \in ToSet(d) : x \in ToSet(p) \cup ToSet(q)
    <3> SUFFICES ASSUME NEW i \in 1 .. n + m PROVE d[i] \in ToSet(p) \cup ToSet(q)
      BY <1>3 DEF ToSet
    <3>1. CASE i \in 1 .. n
      BY <1>1, <1>4, <3>1 DEF ToSet
    <3>2. CASE i \notin 1 .. n
      BY <1>1, <1>5, <1>6, <3>2 DEF ToSet
    <3> QED
      BY <3>1, <3>2
  <2>2. \A i \in DOMAIN p : p[i] \in ToSet(d)
    BY <1>1, <1>3, <1>4 DEF ToSet
  <2>3. \A i \in DOMAIN q : q[i] \in ToSet(d)
    <3> SUFFICES ASSUME NEW i \in 1 .. m PROVE q[i] \in ToSet(d)
      BY <1>1
    <3> QED
      BY <1>3, <1>5 DEF ToSet
  <2> QED
    BY <2>1, <2>2, <2>3 DEF ToSet, d
<1>8. IsInjective(d)
  <2> SUFFICES ASSUME NEW i \in 1 .. n + m, NEW j \in 1 .. n + m, d[i] = d[j] PROVE i = j
    BY <1>3 DEF IsInjective
  <2>1. \A k \in 1 .. n, l \in 1 .. m : p[k] # q[l]
    BY <1>1 DEF ToSet
  <2>2. CASE i \in 1 .. n /\ j \in 1 .. n
    BY <1>1, <1>4, <2>2 DEF IsInjective
  <2>3. CASE i \notin 1 .. n /\ j \notin 1 .. n
    <3>1. PICK k \in 1 .. m : i = n + k
      BY <1>6, <2>3
    <3>2. PICK l \in 1 .. m : j = n + l
      BY <1>6, <2>3
    <3>3. q[k] = q[l]
      BY <1>5, <3>1, <3>2
    <3> QED
      BY <1>1, <3>1, <3>2, <3>3 DEF IsInjective
  <2>4. ASSUME NEW x \in 1 .. n, NEW y \in 1 .. n + m, y \notin 1 .. n PROVE d[x] # d[y]
    <3>1. PICK l \in 1 .. m : y = n + l
      BY <1>6, <2>4
    <3> QED
      BY <1>4, <1>5, <2>1, <3>1
  <2> QED
    BY <2>2, <2>3, <2>4
<1> QED
  BY <1>2, <1>7, <1>8 DEF d

\* What a page adds: its records, each once, and none that was there.
LEMMA FreshHits ==
    ASSUME Types, DeliveredOnce, page # 0
    PROVE  /\ Fresh \in Seq(Record)
           /\ delivered \o Fresh \in Seq(Record)
           /\ IsInjective(delivered \o Fresh)
           /\ ToSet(delivered \o Fresh) = seen \cup ToSet(Hits)
<1>1. Fresh \in Seq(Record) /\ ToSet(Fresh) = ToSet(Hits) \ seen /\ IsInjective(Fresh)
  BY PageHits, KeptMembers DEF Fresh
<1>2. delivered \in Seq(Record) /\ IsInjective(delivered) /\ ToSet(delivered) = seen
  BY DEF Types, DeliveredOnce
<1> QED
  BY <1>1, <1>2, Joined

\* An edit on INSPIRE leaves no record twice in the result.
LEMMA EditedResult ==
    ASSUME Types, NEW s \in Edited
    PROVE  s \in Seq(Record) /\ IsInjective(s)
<1>1. ASSUME NEW q \in Seq(Record), IsInjective(q), NEW r \in Record, r \notin ToSet(q),
             NEW i \in 1 .. Len(q) + 1
      PROVE  InsertAt(q, i, r) \in Seq(Record) /\ IsInjective(InsertAt(q, i, r))
  <2> DEFINE a == SubSeq(q, 1, i - 1)
             c == SubSeq(q, i, Len(q))
             n == Len(q)
             w == a \o <<r>> \o c
  <2>1. n \in Nat /\ DOMAIN q = 1 .. n /\ \A j \in 1 .. n : q[j] \in Record
    BY LenProperties, ElementOfSeq
  <2>2. /\ a \in Seq(Record) /\ Len(a) = i - 1 /\ \A j \in 1 .. i - 1 : a[j] = q[j]
    <3>1. \A j \in 1 .. i - 1 : q[j] \in Record
      BY <2>1
    <3>2. /\ a \in Seq(Record) /\ Len(a) = IF 1 <= i - 1 THEN (i - 1) - 1 + 1 ELSE 0
          /\ \A j \in 1 .. (i - 1) - 1 + 1 : a[j] = q[1 + j - 1]
      BY <2>1, <3>1, SubSeqProperties
    <3>3. \A j \in 1 .. i - 1 : j \in 1 .. (i - 1) - 1 + 1 /\ 1 + j - 1 = j
      BY <2>1
    <3> HIDE DEF a
    <3> QED
      BY <2>1, <3>2, <3>3
  <2>3. /\ c \in Seq(Record) /\ Len(c) = n - i + 1
        /\ \A j \in 1 .. n - i + 1 : c[j] = q[i + j - 1]
    <3>1. \A j \in i .. n : q[j] \in Record
      BY <2>1
    <3>2. /\ c \in Seq(Record) /\ Len(c) = IF i <= n THEN n - i + 1 ELSE 0
          /\ \A j \in 1 .. n - i + 1 : c[j] = q[i + j - 1]
      BY <2>1, <3>1, SubSeqProperties
    <3> HIDE DEF c
    <3> QED
      BY <2>1, <3>2
  <2> HIDE DEF a, c
  <2>4. /\ a \o <<r>> \in Seq(Record) /\ Len(a \o <<r>>) = i
        /\ \A j \in 1 .. i : (a \o <<r>>)[j] = IF j < i THEN q[j] ELSE r
    BY <2>1, <2>2
  <2>5. /\ w \in Seq(Record) /\ Len(w) = n + 1
        /\ \A j \in 1 .. n + 1 : w[j] = IF j < i THEN q[j] ELSE IF j = i THEN r ELSE q[j - 1]
    <3> DEFINE v == a \o <<r>>
    <3>1. v \in Seq(Record) /\ Len(v) = i
      BY <2>4
    <3> HIDE DEF v
    <3> DEFINE u == v \o c
    <3>2. /\ u \in Seq(Record) /\ Len(u) = i + (n - i + 1)
          /\ \A j \in 1 .. i + (n - i + 1) : u[j] = IF j <= i THEN v[j] ELSE c[j - i]
      BY <2>3, <3>1, ConcatProperties
    <3> HIDE DEF u
    <3>3. i + (n - i + 1) = n + 1
      BY <2>1
    <3>4. ASSUME NEW j \in 1 .. n + 1
          PROVE  u[j] = IF j < i THEN q[j] ELSE IF j = i THEN r ELSE q[j - 1]
      <4>1. CASE j <= i
        <5>1. u[j] = v[j] /\ j \in 1 .. i
          BY <2>1, <3>2, <3>3, <4>1
        <5>2. v[j] = IF j < i THEN q[j] ELSE r
          BY <2>4, <5>1 DEF v
        <5> QED
          BY <4>1, <5>1, <5>2
      <4>2. CASE ~(j <= i)
        <5>1. j - i \in 1 .. n - i + 1 /\ i + (j - i) - 1 = j - 1
          BY <2>1, <4>2
        <5>2. u[j] = c[j - i]
          BY <3>2, <3>3, <4>2
        <5>3. c[j - i] = q[j - 1]
          BY <2>3, <5>1
        <5> QED
          BY <2>1, <4>2, <5>2, <5>3
      <4> QED
        BY <4>1, <4>2
    <3>5. w = u
      BY DEF u, v
    <3> QED
      BY <3>2, <3>3, <3>4, <3>5
  <2> HIDE DEF w
  <2>6. DOMAIN w = 1 .. n + 1
    BY <2>5, LenProperties
  <2>7. IsInjective(w)
    <3> SUFFICES ASSUME NEW j \in 1 .. n + 1, NEW k \in 1 .. n + 1, w[j] = w[k] PROVE j = k
      BY <2>6 DEF IsInjective
    <3>1. \A l \in 1 .. n : q[l] # r
      BY <1>1, <2>1 DEF ToSet
    <3> DEFINE at(l) == IF l < i THEN l ELSE l - 1
    <3>2. \A l \in 1 .. n + 1 : l # i => at(l) \in 1 .. n /\ w[l] = q[at(l)]
      BY <2>1, <2>5
    <3>3. w[i] = r
      BY <2>1, <2>5
    <3>4. CASE j # i /\ k # i
      <4>1. at(j) = at(k)
        BY <1>1, <2>1, <3>2, <3>4 DEF IsInjective
      <4> QED
        BY <2>1, <3>4, <4>1
    <3>5. CASE j = i \/ k = i
      BY <3>1, <3>2, <3>3, <3>5
    <3> QED
      BY <3>4, <3>5
  <2> QED
    BY <2>5, <2>7 DEF InsertAt, w, a, c
<1>2. ASSUME NEW r \in Record
      PROVE  /\ Without(r) \in Seq(Record) /\ IsInjective(Without(r))
             /\ ToSet(Without(r)) = ToSet(result) \ {r}
  BY KeptMembers DEF Types, Without
<1>3. PICK r \in Record : s \in IF r \in ToSet(result)
                                THEN {Without(r)} \cup With(Without(r), r)
                                ELSE With(result, r)
  BY DEF Edited
<1>4. ASSUME NEW q \in Seq(Record), IsInjective(q), r \notin ToSet(q), s \in With(q, r)
      PROVE  s \in Seq(Record) /\ IsInjective(s)
  BY <1>1, <1>4 DEF With
<1> QED
  BY <1>2, <1>3, <1>4 DEF Types

-----------------------------------------------------------------------------
(* Steps                                                                   *)

\* While nothing changed, a page continues what was yielded.
LEMMA UndisturbedPage ==
    ASSUME Types, DeliveredOnce, Undisturbed, changes = 0, page # 0,
           NEW l \in Nat, l = IF page * PageSize < Len(result) THEN page * PageSize
                              ELSE Len(result)
    PROVE  delivered \o Fresh = SubSeq(result, 1, l)
<1>1. Before \in Nat /\ page * PageSize \in Nat /\ Before < page * PageSize
  BY PageEnd DEF Types, Before
<1>2. PICK s \in Seq(Record) : s = result
  BY DEF Types
<1>3. IsInjective(s)
  BY <1>2 DEF Types
<1>4. PICK b \in Nat : b = Before
  BY <1>1
<1>5. /\ Len(s) \in Nat /\ DOMAIN s = 1 .. Len(s)
      /\ \A i \in 1 .. Len(s) : s[i] \in Record
  BY LenProperties, ElementOfSeq
<1>6. b <= Len(s) /\ delivered = SubSeq(s, 1, b)
  BY <1>2, <1>4 DEF Undisturbed
<1>7. l <= Len(s) /\ b <= l
  <2>1. PICK e \in Nat : e = page * PageSize
    BY <1>1
  <2>2. b < e /\ l = IF e < Len(s) THEN e ELSE Len(s)
    BY <1>1, <1>2, <1>4, <2>1
  <2>3. b <= Len(s) /\ Len(s) \in Nat
    BY <1>5, <1>6
  <2>4. CASE e < Len(s)
    BY <2>2, <2>3, <2>4
  <2>5. CASE ~(e < Len(s))
    BY <2>2, <2>3, <2>5
  <2> QED
    BY <2>4, <2>5
<1>8. Hits = SubSeq(s, b + 1, l)
  BY <1>2, <1>4 DEF Hits, Before
<1>9. \A i \in DOMAIN delivered : \E j \in 1 .. Len(s) : j <= b /\ delivered[i] = s[j]
  <2>1. \A i \in 1 .. b : s[i] \in Record
    BY <1>5, <1>6
  <2>2. /\ delivered \in Seq(Record)
        /\ Len(delivered) = IF 1 <= b THEN b - 1 + 1 ELSE 0
        /\ \A i \in 1 .. b - 1 + 1 : delivered[i] = s[1 + i - 1]
    BY <1>6, <2>1, SubSeqProperties
  <2>3. DOMAIN delivered = 1 .. b
    BY <2>2, LenProperties
  <2> SUFFICES ASSUME NEW i \in 1 .. b
               PROVE  \E j \in 1 .. Len(s) : j <= b /\ delivered[i] = s[j]
    BY <2>3
  <2>4. i \in 1 .. b - 1 + 1 /\ 1 + i - 1 = i /\ i \in 1 .. Len(s) /\ i <= b
    BY <1>5, <1>6
  <2>5. delivered[i] = s[i]
    BY <2>2, <2>4
  <2> QED
    BY <2>4, <2>5
<1>10. ToSet(Hits) \cap seen = {}
  <2>1. \A i \in DOMAIN Hits : \E j \in 1 .. Len(s) : b < j /\ Hits[i] = s[j]
    BY <1>2, <1>4, PageHits
  <2> SUFFICES ASSUME NEW i \in DOMAIN Hits, NEW k \in DOMAIN delivered, Hits[i] = delivered[k]
               PROVE  FALSE
    BY DEF ToSet, DeliveredOnce
  <2>2. PICK j \in 1 .. Len(s) : b < j /\ Hits[i] = s[j]
    BY <2>1
  <2>3. PICK m \in 1 .. Len(s) : m <= b /\ delivered[k] = s[m]
    BY <1>9
  <2>4. j = m
    BY <1>3, <1>5, <2>2, <2>3 DEF IsInjective
  <2> QED
    BY <2>2, <2>3, <2>4
<1>11. Fresh = Hits
  BY <1>10, PageHits, KeptAll DEF Fresh
<1>12. SubSeq(s, 1, b) \o SubSeq(s, b + 1, l) = SubSeq(s, 1, l)
  <2>1. 1 \in 1 .. Len(s) + 1 /\ b \in 1 - 1 .. Len(s) /\ l \in b .. Len(s)
    BY <1>5, <1>6, <1>7
  <2> QED
    BY <2>1, ConcatAdjacentSubSeq
<1> QED
  BY <1>2, <1>6, <1>8, <1>11, <1>12

\* A page is fetched and what is new on it is yielded.
LEMMA FetchStep == ASSUME ReaderInv, FetchPage PROVE ReaderInv'
<1>1. Types /\ DeliveredOnce /\ Progress /\ Walked /\ Accounted /\ Undisturbed
  BY DEF ReaderInv
<1>2. /\ outcome = "reading" /\ page # 0 /\ reported' = Reported
      /\ delivered' = delivered \o Fresh /\ seen' = seen \cup ToSet(Hits)
      /\ new' = new + Len(Fresh) /\ page' = NextPage
      /\ UNCHANGED <<result, changes, quiet, ever, always, pass, outcome>>
  BY DEF FetchPage, inspire
<1>3. /\ result \in Seq(Record) /\ Len(result) \in Nat /\ DOMAIN result = 1 .. Len(result)
      /\ \A i \in 1 .. Len(result) : result[i] \in Record
  BY <1>1, LenProperties, ElementOfSeq DEF Types
<1>4. PICK e \in Nat : e = page * PageSize
  BY <1>1, <1>2, PageEnd DEF Types
<1>5. \/ page' = 0 /\ Len(result) <= e
      \/ page' = page + 1 /\ Before' = e /\ e < Len(result)
  <2>1. ((page + 1) - 1) * PageSize = e
    BY <1>1, <1>2, <1>4, PageEnd DEF Types
  <2>2. page' = IF e < Len(result) THEN page + 1 ELSE 0
    BY <1>2, <1>4 DEF NextPage
  <2>3. page' = page + 1 => Before' = e
    BY <2>1 DEF Before
  <2>4. CASE e < Len(result)
    BY <2>2, <2>3, <2>4
  <2>5. CASE ~(e < Len(result))
    <3>1. page' = 0
      BY <2>2, <2>5
    <3>2. Len(result) <= e
      BY <1>3, <2>5
    <3> QED
      BY <3>1, <3>2
  <2> QED
    BY <2>4, <2>5
<1>6. page' \in Nat
  BY <1>1, <1>2 DEF Types, NextPage
<1>7. ToSet(Hits) \subseteq ToSet(result) /\ ToSet(result) \subseteq Record
  BY <1>1, <1>2, <1>3, PageHits DEF ToSet
<1>8. reported' \in Nat /\ (reported = None => reported' = Len(result))
      /\ (reported # None => reported' = reported)
  BY <1>1, <1>2, <1>3 DEF Reported, Types
<1>9. Types'
  <2>1. Len(Fresh) \in Nat /\ delivered' \in Seq(Record)
    BY <1>1, <1>2, FreshHits, LenProperties
  <2>2. new' \in Nat /\ seen' \subseteq Record
    BY <1>1, <1>2, <1>7, <2>1 DEF Types
  <2> QED
    BY <1>1, <1>2, <1>6, <1>8, <2>1, <2>2 DEF Types
<1>10. DeliveredOnce'
  BY <1>1, <1>2, FreshHits DEF DeliveredOnce
<1>11. Progress'
  BY <1>2, <1>8, HarvestAssumption DEF Progress
<1>12. Walked'
  <2> SUFFICES ASSUME quiet, NEW i \in 1 .. Len(result), page' = 0 \/ i <= Before'
               PROVE  result[i] \in seen'
    BY <1>2 DEF Walked
  <2>1. i <= e
    <3>1. CASE page' = 0
      <4>1. Len(result) <= e
        BY <1>1, <1>5, <3>1 DEF Types
      <4>2. i \in Nat /\ i <= Len(result)
        BY <1>3
      <4> QED
        BY <1>3, <4>1, <4>2
    <3>2. CASE page' # 0
      BY <1>5, <3>2
    <3> QED
      BY <3>1, <3>2
  <2>2. Before \in Nat
    BY <1>1, <1>2, PageEnd DEF Types, Before
  <2>3. CASE i <= Before
    BY <1>1, <1>2, <2>3 DEF Walked
  <2>4. CASE Before < i
    BY <1>1, <1>2, <1>4, <2>1, <2>4, PageHits
  <2> QED
    BY <2>2, <2>3, <2>4
<1>13. Accounted'
  <2>1. ASSUME ever = always PROVE reported' = Cardinality(ever)
    <3>1. ever = ToSet(result)
      BY <1>1, <2>1 DEF Accounted
    <3>2. Cardinality(ToSet(result)) = Len(result)
      BY <1>1, InjectiveLength DEF Types
    <3> QED
      BY <1>1, <1>8, <2>1, <3>1, <3>2 DEF Accounted
  <2> QED
    BY <1>1, <1>2, <1>7, <2>1 DEF Accounted
<1>14. Undisturbed'
  <2> SUFFICES ASSUME changes = 0
               PROVE  /\ page' = 0 => delivered' = result
                      /\ page' # 0 => /\ Before' <= Len(result)
                                      /\ delivered' = SubSeq(result, 1, Before')
    BY <1>1, <1>2 DEF Undisturbed
  <2>1. PICK l \in Nat : l = IF e < Len(result) THEN e ELSE Len(result)
    BY <1>3
  <2>2. delivered' = SubSeq(result, 1, l)
    BY <1>1, <1>2, <1>4, <2>1, UndisturbedPage
  <2>3. CASE page' = 0
    <3>1. page' # page + 1
      BY <1>1, <1>2, <2>3 DEF Types
    <3>2. Len(result) <= e
      BY <1>5, <3>1
    <3>3. ~(e < Len(result))
      <4>1. Len(result) \in Nat
        BY <1>3
      <4> QED
        BY <3>2, <4>1
    <3>4. l = Len(result)
      BY <2>1, <3>3
    <3> QED
      BY <1>3, <2>2, <2>3, <3>4, SubSeqFull
  <2>4. CASE page' # 0
    <3>1. Before' = e /\ e < Len(result)
      BY <1>5, <2>4
    <3>2. l = e
      BY <2>1, <3>1
    <3>3. e <= Len(result)
      BY <1>3, <3>1
    <3> QED
      BY <2>2, <2>4, <3>1, <3>2, <3>3
  <2> QED
    BY <2>3, <2>4
<1>15. MovesNeverLose'
  BY <1>2 DEF MovesNeverLose
<1> QED
  BY <1>9, <1>10, <1>11, <1>12, <1>13, <1>14, <1>15 DEF ReaderInv

\* Whoever counts the records of a quiet pass finds them all: when the result has
\* lost none and gained none, the count matches.
LEMMA QuietPassMatches ==
    ASSUME ReaderInv, page = 0, quiet, ever = always
    PROVE  Matches
<1>1. Types /\ Progress /\ Walked /\ Accounted
  BY DEF ReaderInv
<1>2. ToSet(result) = ever /\ reported = Cardinality(ever)
  BY <1>1 DEF Accounted, Progress
<1>3. ToSet(result) \subseteq seen
  BY <1>1, LenProperties DEF Walked, Types, ToSet
<1> QED
  BY <1>1, <1>2, <1>3 DEF Accounted, Matches

\* The reader returns or raises.
LEMMA StopStep ==
    ASSUME ReaderInv, Finish \/ GiveUp \/ FetchFails
    PROVE  ReaderInv'
<1>1. Types /\ DeliveredOnce /\ Progress /\ Walked /\ Accounted /\ Undisturbed
  BY DEF ReaderInv
<1>2. /\ outcome = "reading"
      /\ UNCHANGED <<result, changes, quiet, ever, always, pass, page, reported, new, seen,
                     delivered>>
  BY DEF Finish, GiveUp, FetchFails, Stop, EndOfPass, inspire
<1>3. \/ outcome' = "complete" /\ page = 0 /\ Matches
      \/ outcome' = "incomplete" /\ page = 0 /\ ~Matches
      \/ outcome' = "failed"
  BY DEF Finish, GiveUp, FetchFails, Stop, EndOfPass
<1>4. /\ Types' /\ DeliveredOnce' /\ Progress' /\ Walked' /\ Accounted' /\ Undisturbed'
  <2>1. Before' = Before
    BY <1>2 DEF Before
  <2> QED
    BY <1>1, <1>2, <1>3, <2>1
       DEF Types, DeliveredOnce, Progress, Walked, Accounted, Undisturbed
<1>5. MovesNeverLose'
  <2> SUFFICES ASSUME ever = always
               PROVE  /\ outcome' = "complete" => seen = ever
                      /\ outcome' = "incomplete" => ~quiet
                      /\ changes = 0 /\ outcome' \in {"complete", "incomplete"}
                           => pass = 1 /\ delivered = result
    BY <1>2 DEF MovesNeverLose
  <2>1. outcome' = "complete" => seen = ever
    <3> SUFFICES ASSUME outcome' = "complete" PROVE seen = ever
      OBVIOUS
    <3>1. reported = Cardinality(ever) /\ Cardinality(seen) = reported
      BY <1>1, <1>3 DEF Accounted, Progress, Matches
    <3>2. IsFiniteSet(ever) /\ seen \subseteq ever
      BY <1>1, HarvestAssumption, FS_Subset DEF Accounted
    <3> QED
      BY <3>1, <3>2, FS_Subset
  <2>2. outcome' = "incomplete" => ~quiet
    BY <1>3, QuietPassMatches
  <2>3. changes = 0 /\ outcome' \in {"complete", "incomplete"} => pass = 1 /\ delivered = result
    BY <1>1, <1>3 DEF Undisturbed
  <2> QED
    BY <2>1, <2>2, <2>3
<1> QED
  BY <1>4, <1>5 DEF ReaderInv

\* The next pass starts over.
LEMMA AgainStep == ASSUME ReaderInv, Again PROVE ReaderInv'
<1>1. Types /\ DeliveredOnce /\ Progress /\ Walked /\ Accounted /\ Undisturbed
  BY DEF ReaderInv
<1>2. /\ outcome = "reading" /\ page = 0 /\ ~Matches /\ pass # MaxPasses
      /\ pass' = pass + 1 /\ page' = 1 /\ reported' = None /\ new' = 0 /\ quiet' = TRUE
      /\ UNCHANGED <<result, changes, ever, always, seen, delivered, outcome>>
  BY DEF Again, EndOfPass, LastPass, NextPass, FirstPage
<1>3. Before' = 0
  BY <1>2, HarvestAssumption DEF Before
<1>4. Types'
  BY <1>1, <1>2, HarvestAssumption DEF Types
<1>5. DeliveredOnce' /\ Progress' /\ Accounted' /\ MovesNeverLose'
  BY <1>1, <1>2 DEF DeliveredOnce, Progress, Accounted, MovesNeverLose
<1>6. Walked'
  BY <1>1, <1>2, <1>3, LenProperties DEF Walked, Types
<1>7. Undisturbed'
  <2>1. changes # 0
    BY <1>1, <1>2, QuietPassMatches DEF Undisturbed
  <2> QED
    BY <1>2, <2>1 DEF Undisturbed
<1> QED
  BY <1>4, <1>5, <1>6, <1>7 DEF ReaderInv

\* INSPIRE changes between two requests.
LEMMA ChangeStep == ASSUME ReaderInv, Change PROVE ReaderInv'
<1>1. Types /\ DeliveredOnce /\ Progress /\ Walked /\ Accounted /\ Undisturbed
  BY DEF ReaderInv
<1>2. /\ outcome = "reading" /\ result' \in Edited /\ changes' = changes + 1
      /\ quiet' = (reported = None) /\ ever' = ever \cup ToSet(result')
      /\ always' = always \cap ToSet(result')
      /\ UNCHANGED <<pass, page, reported, new, seen, delivered, outcome>>
  BY DEF Change, harvest
<1>3. result' \in Seq(Record) /\ IsInjective(result')
  BY <1>1, <1>2, EditedResult
<1>4. ToSet(result') \subseteq Record
  BY <1>3, LenProperties, ElementOfSeq DEF ToSet
<1>5. Types' /\ DeliveredOnce' /\ Progress' /\ Undisturbed' /\ MovesNeverLose'
  <2>1. changes' \in Nat /\ changes' # 0
    BY <1>1, <1>2 DEF Types
  <2>2. quiet' \in BOOLEAN
    BY <1>2
  <2>3. Types'
    BY <1>1, <1>2, <1>3, <2>1, <2>2 DEF Types
  <2>4. Undisturbed'
    BY <2>1 DEF Undisturbed
  <2>5. DeliveredOnce' /\ Progress' /\ MovesNeverLose'
    BY <1>1, <1>2 DEF DeliveredOnce, Progress, MovesNeverLose
  <2> QED
    BY <2>3, <2>4, <2>5
<1>6. Walked'
  <2>1. quiet' => page' = 1
    BY <1>1, <1>2 DEF Progress
  <2>2. page' = 1 => Before' = 0
    BY HarvestAssumption DEF Before
  <2> QED
    BY <1>3, <2>1, <2>2, LenProperties DEF Walked
<1>7. Accounted'
  BY <1>1, <1>2, <1>4 DEF Accounted
<1> QED
  BY <1>5, <1>6, <1>7 DEF ReaderInv

\* A harvest begins with a result INSPIRE can give.
LEMMA InitialReader == Init => ReaderInv
<1> SUFFICES ASSUME Init PROVE ReaderInv
  OBVIOUS
<1>1. result \in Seq(Record) /\ IsInjective(result)
  BY SeqDef, FS_CardinalityType, HarvestAssumption DEF Init, Results, SeqOf
<1>2. ToSet(result) \subseteq Record
  BY <1>1, LenProperties, ElementOfSeq DEF ToSet
<1>3. Before = 0 /\ Len(result) \in Nat /\ SubSeq(result, 1, 0) = <<>>
  BY <1>1, LenProperties, SubSeqEmpty, HarvestAssumption DEF Init, Before
<1>4. Types /\ Progress
  BY <1>1, HarvestAssumption DEF Init, Types, Progress
<1>5. DeliveredOnce
  BY DEF Init, DeliveredOnce, ToSet, IsInjective
<1>6. Walked /\ Accounted /\ Undisturbed /\ MovesNeverLose
  BY <1>2, <1>3 DEF Init, Walked, Accounted, Undisturbed, MovesNeverLose
<1> QED
  BY <1>4, <1>5, <1>6 DEF ReaderInv

\* Every step keeps the invariant.
LEMMA ReaderStep == ReaderInv /\ [Next]_vars => ReaderInv'
<1> SUFFICES ASSUME ReaderInv, [Next]_vars PROVE ReaderInv'
  OBVIOUS
<1>1. CASE UNCHANGED vars
  BY <1>1 DEF ReaderInv, Types, DeliveredOnce, Progress, Walked, Before, Accounted,
              Undisturbed, MovesNeverLose, vars, inspire, harvest
<1> QED
  BY <1>1, FetchStep, StopStep, AgainStep, ChangeStep DEF Next, Read

-----------------------------------------------------------------------------
(* Theorems                                                                *)

\* No record is sent to the transformer twice in one harvest, however the result
\* shifts between pages and passes, and what was sent is what counts as seen.
THEOREM SentOnce == Spec => []DeliveredOnce
<1>1. ReaderInv => DeliveredOnce
  BY DEF ReaderInv
<1> QED
  BY <1>1, InitialReader, ReaderStep, PTL DEF Spec

\* The reader that stops after a pass without a change on INSPIRE has sent every
\* record that matches.
THEOREM QuietPassSendsAll == Spec => []QuietPassDelivers
<1>1. ReaderInv => QuietPassDelivers
  BY LenProperties DEF ReaderInv, Types, Progress, Walked, QuietPassDelivers, ToSet
<1> QED
  BY <1>1, InitialReader, ReaderStep, PTL DEF Spec

\* Records that only move between pages are all sent by a harvest that ends, and a
\* last pass without a change ends it normally.
THEOREM MovedRecordsSent == Spec => []MovesNeverLose
<1>1. ReaderInv => MovesNeverLose
  BY DEF ReaderInv
<1> QED
  BY <1>1, InitialReader, ReaderStep, PTL DEF Spec

================================================================================
