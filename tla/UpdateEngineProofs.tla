--------------------------- MODULE UpdateEngineProofs ---------------------------
(***************************************************************************)
(* Proofs about UpdateEngine, for any records, entries and edits of the    *)
(* kind DataAssumption names.                                              *)
(*                                                                         *)
(* The strategies go through the incoming list one item after the other,   *)
(* so they are recursive functions.  What such a function keeps is said    *)
(* once, in Folding: whatever set the first value is in and no step leaves *)
(* has the last value too.  A fact about a strategy is then a set that     *)
(* states it, and a proof that one step stays inside.                      *)
(***************************************************************************)
EXTENDS UpdateEngine, SequenceTheorems, FiniteSetTheorems, WellFoundedInduction, TLAPS

-----------------------------------------------------------------------------
(* Recursive functions                                                     *)

\* Every set of natural numbers that is not empty has a least one.
LEMMA LeastNumber ==
    ASSUME NEW S \in SUBSET Nat, S # {}
    PROVE  \E x \in S : \A y \in S : x <= y
<1> DEFINE R == OpToRel(<, Nat)
<1>1. IsWellFoundedOn(R, Nat)
  BY NatLessThanWellFounded
<1>2. \A x, y \in Nat : x < y <=> <<x, y>> \in R
  BY DEF OpToRel
<1> HIDE DEF R
<1>3. \E x \in S : \A y \in S : ~ (<<y, x>> \in R)
  BY <1>1, WFMin
<1>4. PICK x \in S : \A y \in S : ~(y < x)
  BY <1>2, <1>3
<1>5. \A y \in S : x <= y
  BY <1>4
<1> QED
  BY <1>5

\* A set that holds 0 and the successor of each of its members is all of Nat.
LEMMA Counting ==
    ASSUME NEW P \in SUBSET Nat, 0 \in P, \A n \in P : n + 1 \in P
    PROVE  P = Nat
<1> SUFFICES ASSUME Nat \ P # {} PROVE FALSE
  OBVIOUS
<1>1. PICK x \in Nat \ P : \A y \in Nat \ P : x <= y
  BY LeastNumber
<1>2. x # 0 /\ x - 1 \in Nat
  BY <1>1
<1>3. x - 1 \in P
  BY <1>1, <1>2
<1> QED
  BY <1>2, <1>3

\* A bounded set of them has a greatest one.
LEMMA GreatestNumber ==
    ASSUME NEW N \in Nat, NEW S \in SUBSET (1 .. N), S # {}
    PROVE  \E x \in S : \A y \in S : y <= x
<1> DEFINE T == {n \in Nat : \A y \in S : y <= n}
<1>1. N \in T /\ T \in SUBSET Nat
  OBVIOUS
<1>2. PICK x \in T : \A y \in T : x <= y
  <2> HIDE DEF T
  <2> QED
    BY <1>1, LeastNumber
<1>3. x \in S
  <2> SUFFICES ASSUME x \notin S PROVE FALSE
    OBVIOUS
  <2>1. \A y \in S : y <= x - 1 /\ y >= 1
    <3> TAKE y \in S
    <3>1. y \in 1 .. N /\ y <= x /\ y # x /\ x \in Nat
      BY <1>2
    <3> QED
      BY <3>1
  <2>2. x - 1 \in Nat
    <3>1. PICK y \in S : y \in 1 .. N
      OBVIOUS
    <3>2. y <= x - 1 /\ y >= 1 /\ y \in Nat /\ x \in Nat
      BY <1>2, <2>1, <3>1
    <3> QED
      BY <3>2
  <2>3. x - 1 \in T
    BY <2>1, <2>2
  <2> QED
    BY <1>2, <2>2, <2>3
<1> QED
  BY <1>2, <1>3

\* g takes one step after the other.
Folds(g, N, base, step) ==
  g = [n \in 0 .. N |-> IF n = 0 THEN base ELSE step[n][g[n - 1]]]

\* A step for each number up to N, on the values of V, has a function that takes
\* them one after the other.
LEMMA Folding ==
    ASSUME NEW V, NEW N \in Nat, NEW base \in V, NEW step \in [1 .. N -> [V -> V]]
    PROVE  \E g \in [0 .. N -> V] : Folds(g, N, base, step)
<1> DEFINE Steps(g, m) == /\ g \in [0 .. m -> V] /\ g[0] = base
                          /\ \A n \in 1 .. m : g[n] = step[n][g[n - 1]]
           P == {m \in Nat : m <= N => \E g : Steps(g, m)}
<1>1. 0 \in P
  <2> DEFINE g == [n \in 0 .. 0 |-> base]
  <2>1. Steps(g, 0)
    OBVIOUS
  <2> QED
    BY <2>1
<1>2. ASSUME NEW m \in P PROVE m + 1 \in P
  <2> SUFFICES ASSUME m + 1 <= N PROVE \E h : Steps(h, m + 1)
    OBVIOUS
  <2>1. m \in Nat /\ m + 1 \in 1 .. N /\ m \in 0 .. m
    BY <1>2
  <2>2. PICK g : Steps(g, m)
    BY <2>1
  <2> DEFINE last == step[m + 1][g[m]]
             h == [n \in 0 .. m + 1 |-> IF n = m + 1 THEN last ELSE g[n]]
  <2>3. last \in V
    BY <2>1, <2>2
  <2> HIDE DEF last
  <2>4. h \in [0 .. m + 1 -> V] /\ h[m + 1] = last /\ \A n \in 0 .. m : h[n] = g[n]
    BY <2>1, <2>2, <2>3
  <2> HIDE DEF h
  <2>5. h[0] = base /\ h[m] = g[m]
    BY <2>1, <2>2, <2>4
  <2>6. \A n \in 1 .. m + 1 : h[n] = step[n][h[n - 1]]
    <3> TAKE n \in 1 .. m + 1
    <3>1. CASE n = m + 1
      <4>1. n - 1 = m
        BY <2>1, <3>1
      <4> QED
        BY <2>4, <2>5, <3>1, <4>1 DEF last
    <3>2. CASE n # m + 1
      <4>1. n \in 1 .. m /\ n \in 0 .. m /\ n - 1 \in 0 .. m
        BY <2>1, <3>2
      <4> QED
        BY <2>2, <2>4, <4>1
    <3> QED
      BY <3>1, <3>2
  <2>7. Steps(h, m + 1)
    BY <2>4, <2>5, <2>6
  <2> HIDE DEF Steps
  <2> QED
    BY <2>7
<1>3. PICK g : Steps(g, N)
  <2> HIDE DEF Steps
  <2>1. P \in SUBSET Nat
    OBVIOUS
  <2>2. P = Nat
    <3> HIDE DEF P
    <3> QED
      BY <1>1, <1>2, <2>1, Counting
  <2>3. N \in P
    BY <2>2
  <2>4. N <= N
    OBVIOUS
  <2> QED
    BY <2>3, <2>4
<1> DEFINE r == [n \in 0 .. N |-> IF n = 0 THEN base ELSE step[n][g[n - 1]]]
<1>4. \A n \in 0 .. N : r[n] = g[n]
  BY <1>3
<1>5. g = r
  <2>1. DOMAIN r = 0 .. N /\ DOMAIN g = 0 .. N
    BY <1>3
  <2> HIDE DEF r
  <2>2. r = [n \in 0 .. N |-> r[n]]
    BY <2>1 DEF r
  <2>3. g = [n \in 0 .. N |-> g[n]]
    BY <1>3
  <2> QED
    BY <1>4, <2>2, <2>3
<1> QED
  BY <1>3, <1>5 DEF Folds

\* Such a function stays in a set that no step leaves.
LEMMA Walking ==
    ASSUME NEW N \in Nat, NEW f, NEW V, f[0] \in V,
           \A n \in 1 .. N : f[n - 1] \in V => f[n] \in V
    PROVE  f[N] \in V
<1> DEFINE P == {m \in Nat : m <= N => f[m] \in V}
<1>1. P \in SUBSET Nat /\ 0 \in P
  OBVIOUS
<1>2. \A m \in P : m + 1 \in P
  <2> TAKE m \in P
  <2>1. CASE m + 1 <= N
    <3>1. m + 1 \in 1 .. N /\ (m + 1) - 1 = m /\ f[m] \in V
      BY <2>1
    <3>2. f[m + 1] \in V
      BY <3>1
    <3> QED
      BY <3>2
  <2>2. CASE ~(m + 1 <= N)
    BY <2>2
  <2> QED
    BY <2>1, <2>2
<1>3. P = Nat
  <2> HIDE DEF P
  <2> QED
    BY <1>1, <1>2, Counting
<1> QED
  BY <1>3

\* If besides one step leads into a smaller set that no step leaves, the last
\* value is in that.
LEMMA Reaching ==
    ASSUME NEW N \in Nat, NEW f, NEW V, NEW W, NEW k \in 1 .. N, f[0] \in V,
           \A n \in 1 .. N : f[n - 1] \in V => f[n] \in V,
           f[k - 1] \in V => f[k] \in W,
           \A n \in 1 .. N : f[n - 1] \in W => f[n] \in W
    PROVE  f[N] \in W
<1>1. f[k - 1] \in V
  <2>1. k - 1 \in Nat /\ \A n \in 1 .. k - 1 : n \in 1 .. N
    OBVIOUS
  <2> QED
    BY <2>1, Walking
<1> DEFINE g == [n \in 0 .. N - k |-> f[k + n]]
<1>2. N - k \in Nat
  OBVIOUS
<1>3. g[0] \in W
  BY <1>1, <1>2
<1>4. \A n \in 1 .. N - k : g[n - 1] \in W => g[n] \in W
  <2> TAKE n \in 1 .. N - k
  <2>1. k + n \in 1 .. N /\ (k + n) - 1 = k + (n - 1) /\ n - 1 \in 0 .. N - k /\ n \in 0 .. N - k
    OBVIOUS
  <2> QED
    BY <2>1
<1>5. g[N - k] = f[N]
  <2>1. N - k \in 0 .. N - k /\ k + (N - k) = N
    OBVIOUS
  <2> QED
    BY <2>1
<1> HIDE DEF g
<1>6. g[N - k] \in W
  BY <1>2, <1>3, <1>4, Walking
<1> QED
  BY <1>5, <1>6

-----------------------------------------------------------------------------
(* Lists of items                                                          *)

\* f[n] is the list after the first n incoming items.
Appends(f, cur, inc, enrich) ==
  /\ AppendUnique(cur, inc, enrich) = f[Len(inc)] /\ f[0] = cur
  /\ \A n \in 1 .. Len(inc) : f[n] = Add(f[n - 1], inc[n], enrich)

\* The union adds one incoming item after the other.
LEMMA AppendSteps ==
    ASSUME NEW S, NEW cur, NEW inc \in Seq(S), NEW enrich, NEW V, cur \in V,
           \A l \in V : \A x \in S : Add(l, x, enrich) \in V
    PROVE  \E f : Appends(f, cur, inc, enrich)
<1> DEFINE N == Len(inc)
           step == [n \in 1 .. N |-> [l \in V |-> Add(l, inc[n], enrich)]]
           Steps(g) == g = [n \in 0 .. N |->
                              IF n = 0 THEN cur ELSE Add(g[n - 1], inc[n], enrich)]
<1>1. N \in Nat /\ \A n \in 1 .. N : inc[n] \in S
  BY LenProperties, ElementOfSeq
<1>2. step \in [1 .. N -> [V -> V]]
  BY <1>1
<1>3. \E g : Steps(g)
  <2>1. cur \in V
    OBVIOUS
  <2>2. PICK g \in [0 .. N -> V] : Folds(g, N, cur, step)
    <3> HIDE DEF step, N
    <3> QED
      BY <1>1, <1>2, <2>1, Folding
  <2>3. \A n \in 0 .. N : n # 0 => step[n][g[n - 1]] = Add(g[n - 1], inc[n], enrich)
    BY <1>1
  <2>4. Steps(g)
    <3> HIDE DEF step, N
    <3> QED
      BY <2>2, <2>3 DEF Folds
  <2> HIDE DEF Steps
  <2> QED
    BY <2>4
<1> DEFINE f == CHOOSE g : Steps(g)
<1>4. Steps(f)
  <2> HIDE DEF Steps
  <2> QED
    BY <1>3
<1>5. AppendUnique(cur, inc, enrich) = f[N]
  BY DEF AppendUnique
<1> HIDE DEF f, N
<1>6. f[0] = cur /\ \A n \in 1 .. N : f[n] = Add(f[n - 1], inc[n], enrich)
  BY <1>1, <1>4
<1> HIDE DEF Steps
<1> QED
  BY <1>5, <1>6 DEF N, Appends

\* Whatever set of lists holds the current one and is left by no addition of an
\* incoming item holds the union.
LEMMA AppendStays ==
    ASSUME NEW S, NEW cur, NEW inc \in Seq(S), NEW enrich, NEW V, cur \in V,
           \A l \in V : \A x \in S : Add(l, x, enrich) \in V
    PROVE  AppendUnique(cur, inc, enrich) \in V
<1>1. PICK f : Appends(f, cur, inc, enrich)
  BY AppendSteps
<1>2. Len(inc) \in Nat /\ \A n \in 1 .. Len(inc) : inc[n] \in S
  BY LenProperties, ElementOfSeq
<1>3. f[0] \in V /\ \A n \in 1 .. Len(inc) : f[n - 1] \in V => f[n] \in V
  BY <1>1, <1>2 DEF Appends
<1>4. f[Len(inc)] \in V
  BY <1>2, <1>3, Walking
<1> QED
  BY <1>1, <1>4 DEF Appends

\* Adding an item moves none, and changes no key and no text that is there.
LEMMA AddKeeps ==
    ASSUME NEW l \in Seq(Items), NEW x \in Items, NEW enrich \in BOOLEAN
    PROVE  LET m == Add(l, x, enrich) IN
           /\ m \in Seq(Items)
           /\ \A i \in DOMAIN l : i \in DOMAIN m /\ m[i].key = l[i].key
                                  /\ l[i].info \in {Absent, m[i].info}
<1> DEFINE same == {i \in DOMAIN l : l[i].key = x.key}
           m == Add(l, x, enrich)
<1>1. Len(l) \in Nat /\ DOMAIN l = 1 .. Len(l) /\ \A i \in DOMAIN l : l[i] \in Items
  BY LenProperties, ElementOfSeq
<1>2. CASE same = {}
  <2>1. m = Append(l, x)
    BY <1>2 DEF Add
  <2> HIDE DEF m
  <2>2. m \in Seq(Items) /\ DOMAIN l \subseteq DOMAIN m /\ \A i \in DOMAIN l : m[i] = l[i]
    BY <1>1, <2>1, AppendProperties
  <2> QED
    BY <2>2 DEF m
<1>3. CASE same # {} /\ enrich
  <2>1. \E i \in same : \A j \in same : i <= j
    <3>1. same \in SUBSET Nat
      BY <1>1
    <3> HIDE DEF same
    <3> QED
      BY <1>3, <3>1, LeastNumber
  <2> DEFINE k == CHOOSE i \in same : \A j \in same : i <= j
  <2>2. k \in DOMAIN l
    BY <2>1
  <2>3. m = [l EXCEPT ![k] = Fill(l[k], x)]
    BY <1>3 DEF Add
  <2> HIDE DEF m, k
  <2>4. /\ Fill(l[k], x) \in Items /\ Fill(l[k], x).key = l[k].key
        /\ l[k].info \in {Absent, Fill(l[k], x).info}
    BY <1>1, <2>2 DEF Fill, Items
  <2>5. m \in Seq(Items) /\ DOMAIN m = DOMAIN l
    BY <2>2, <2>3, <2>4, ExceptSeq
  <2>6. \A i \in DOMAIN l : m[i] = IF i = k THEN Fill(l[k], x) ELSE l[i]
    BY <2>3
  <2>7. \A i \in DOMAIN l : i \in DOMAIN m /\ m[i].key = l[i].key
                             /\ l[i].info \in {Absent, m[i].info}
    BY <2>4, <2>5, <2>6
  <2> QED
    BY <2>5, <2>7 DEF m
<1>4. CASE same # {} /\ ~enrich
  <2>1. m = l
    BY <1>4 DEF Add
  <2> QED
    BY <2>1
<1> QED
  BY <1>2, <1>3, <1>4

\* So every item of the current list is in the union where it was, with its text.
LEMMA AppendKeeps ==
    ASSUME NEW cur \in Seq(Items), NEW inc \in Seq(Items), NEW enrich \in BOOLEAN
    PROVE  LET m == AppendUnique(cur, inc, enrich) IN
           /\ m \in Seq(Items)
           /\ \A i \in DOMAIN cur : m[i].key = cur[i].key /\ cur[i].info \in {Absent, m[i].info}
<1> DEFINE V == {l \in Seq(Items) :
                   \A i \in DOMAIN cur : i \in DOMAIN l /\ l[i].key = cur[i].key
                                         /\ cur[i].info \in {Absent, l[i].info}}
<1>1. cur \in V
  OBVIOUS
<1>2. ASSUME NEW l \in V, NEW x \in Items
      PROVE  Add(l, x, enrich) \in V
  <2> DEFINE m == Add(l, x, enrich)
  <2>1. l \in Seq(Items)
    OBVIOUS
  <2>2. /\ m \in Seq(Items)
        /\ \A i \in DOMAIN l : i \in DOMAIN m /\ m[i].key = l[i].key
                               /\ l[i].info \in {Absent, m[i].info}
    BY <2>1, AddKeeps
  <2> HIDE DEF m
  <2>3. m \in V
    BY <2>2
  <2> QED
    BY <2>3 DEF m
<1>3. AppendUnique(cur, inc, enrich) \in V
  <2> HIDE DEF V
  <2> QED
    BY <1>1, <1>2, AppendStays
<1> QED
  BY <1>3

\* The first item with the key of x is there, with a text if x has one and texts
\* are filled.
Listed(list, x, enrich) ==
  \E i \in DOMAIN list :
    /\ list[i].key = x.key
    /\ \A j \in DOMAIN list : list[j].key = x.key => i <= j
    /\ enrich /\ x.info # Absent => list[i].info # Absent

\* An item that was added is there.
LEMMA AddedIsThere ==
    ASSUME NEW l \in Seq(Items), NEW x \in Items, NEW enrich \in BOOLEAN
    PROVE  Listed(Add(l, x, enrich), x, enrich)
<1> DEFINE same == {i \in DOMAIN l : l[i].key = x.key}
           m == Add(l, x, enrich)
<1>1. Len(l) \in Nat /\ DOMAIN l = 1 .. Len(l) /\ \A i \in DOMAIN l : l[i] \in Items
  BY LenProperties, ElementOfSeq
<1>2. CASE same = {}
  <2>1. m = Append(l, x)
    BY <1>2 DEF Add
  <2> HIDE DEF m
  <2>2. /\ DOMAIN m = 1 .. Len(l) + 1 /\ m[Len(l) + 1] = x
        /\ \A j \in 1 .. Len(l) : m[j] = l[j]
    BY <1>1, <2>1, AppendProperties
  <2>3. \A j \in DOMAIN m : m[j].key = x.key => Len(l) + 1 <= j
    BY <1>1, <1>2, <2>2
  <2>4. Len(l) + 1 \in DOMAIN m
    BY <1>1, <2>2
  <2>5. Listed(m, x, enrich)
    BY <2>2, <2>3, <2>4 DEF Listed
  <2> QED
    BY <2>5 DEF m
<1>3. CASE same # {}
  <2> DEFINE k == CHOOSE i \in same : \A j \in same : i <= j
  <2>1. k \in same /\ \A j \in same : k <= j
    <3>1. same \in SUBSET Nat
      BY <1>1
    <3> HIDE DEF same
    <3>2. \E i \in same : \A j \in same : i <= j
      BY <1>3, <3>1, LeastNumber
    <3> QED
      BY <3>2
  <2>2. /\ enrich => m = [l EXCEPT ![k] = Fill(l[k], x)]
        /\ ~enrich => m = l
    BY <1>3 DEF Add
  <2> HIDE DEF m, k
  <2>3. k \in DOMAIN l /\ l[k].key = x.key /\ \A j \in DOMAIN l : l[j].key = x.key => k <= j
    BY <2>1
  <2>4. CASE enrich
    <3>1. /\ Fill(l[k], x) \in Items /\ Fill(l[k], x).key = l[k].key
          /\ x.info # Absent => Fill(l[k], x).info # Absent
      BY <1>1, <2>3 DEF Fill, Items
    <3>2. DOMAIN m = DOMAIN l /\ \A j \in DOMAIN l : m[j] = IF j = k THEN Fill(l[k], x) ELSE l[j]
      BY <2>2, <2>4
    <3>3. \A j \in DOMAIN m : m[j].key = l[j].key
      BY <3>1, <3>2
    <3>4. m[k] = Fill(l[k], x)
      BY <2>3, <3>2
    <3>5. Listed(m, x, enrich)
      BY <2>3, <3>1, <3>2, <3>3, <3>4 DEF Listed
    <3> QED
      BY <3>5 DEF m
  <2>5. CASE ~enrich
    <3>1. Listed(m, x, enrich)
      BY <2>2, <2>3, <2>5 DEF Listed
    <3> QED
      BY <3>1 DEF m
  <2> QED
    BY <2>4, <2>5
<1> QED
  BY <1>2, <1>3

\* It stays there whatever else is added.
LEMMA AddLeavesThere ==
    ASSUME NEW l \in Seq(Items), NEW x \in Items, NEW y \in Items, NEW enrich \in BOOLEAN,
           Listed(l, x, enrich)
    PROVE  Listed(Add(l, y, enrich), x, enrich)
<1> DEFINE m == Add(l, y, enrich)
<1>1. /\ m \in Seq(Items)
      /\ \A i \in DOMAIN l : i \in DOMAIN m /\ m[i].key = l[i].key
                             /\ l[i].info \in {Absent, m[i].info}
  BY AddKeeps
<1> HIDE DEF m
<1>2. /\ Len(l) \in Nat /\ DOMAIN l = 1 .. Len(l)
      /\ Len(m) \in Nat /\ DOMAIN m = 1 .. Len(m)
  BY <1>1, LenProperties
<1>3. PICK i \in DOMAIN l : /\ l[i].key = x.key
                            /\ \A j \in DOMAIN l : l[j].key = x.key => i <= j
                            /\ enrich /\ x.info # Absent => l[i].info # Absent
  BY DEF Listed
<1>4. i \in DOMAIN m /\ m[i].key = x.key
  BY <1>1, <1>3
<1>5. ASSUME NEW j \in DOMAIN m, m[j].key = x.key
      PROVE  i <= j
  <2>1. CASE j \in DOMAIN l
    BY <1>1, <1>3, <1>5, <2>1
  <2>2. CASE j \notin DOMAIN l
    BY <1>2, <2>2
  <2> QED
    BY <2>1, <2>2
<1>6. enrich /\ x.info # Absent => m[i].info # Absent
  BY <1>1, <1>3
<1>7. Listed(m, x, enrich)
  BY <1>4, <1>5, <1>6 DEF Listed
<1> QED
  BY <1>7 DEF m

\* To add what is there changes nothing.
LEMMA AddAgain ==
    ASSUME NEW l \in Seq(Items), NEW x \in Items, NEW enrich \in BOOLEAN, Listed(l, x, enrich)
    PROVE  Add(l, x, enrich) = l
<1> DEFINE same == {i \in DOMAIN l : l[i].key = x.key}
           k == CHOOSE i \in same : \A j \in same : i <= j
<1>1. Len(l) \in Nat /\ DOMAIN l = 1 .. Len(l) /\ \A i \in DOMAIN l : l[i] \in Items
  BY LenProperties, ElementOfSeq
<1>2. PICK i \in DOMAIN l : /\ l[i].key = x.key
                            /\ \A j \in DOMAIN l : l[j].key = x.key => i <= j
                            /\ enrich /\ x.info # Absent => l[i].info # Absent
  BY DEF Listed
<1>3. k = i
  <2>1. i \in same /\ \A j \in same : i <= j
    BY <1>2
  <2>2. k \in same /\ \A j \in same : k <= j
    BY <2>1
  <2> HIDE DEF k
  <2> QED
    BY <1>1, <2>1, <2>2
<1>4. same # {}
  BY <1>2
<1>5. Add(l, x, enrich) = IF enrich THEN [l EXCEPT ![k] = Fill(l[k], x)] ELSE l
  BY <1>4 DEF Add
<1> HIDE DEF k
<1>6. enrich => Fill(l[i], x) = l[i]
  BY <1>1, <1>2 DEF Fill, Items
<1>7. [l EXCEPT ![i] = l[i]] = l
  <2>1. l = [j \in 1 .. Len(l) |-> l[j]]
    BY LenProperties
  <2> QED
    BY <2>1
<1> QED
  BY <1>3, <1>5, <1>6, <1>7

\* So the union has all that is incoming.
LEMMA AllAppended ==
    ASSUME NEW cur \in Seq(Items), NEW inc \in Seq(Items), NEW enrich \in BOOLEAN,
           NEW k \in DOMAIN inc
    PROVE  Listed(AppendUnique(cur, inc, enrich), inc[k], enrich)
<1> DEFINE W == {l \in Seq(Items) : Listed(l, inc[k], enrich)}
           N == Len(inc)
<1>1. N \in Nat /\ DOMAIN inc = 1 .. N /\ \A n \in 1 .. N : inc[n] \in Items
  BY LenProperties, ElementOfSeq
<1>2. \A l \in Seq(Items) : \A x \in Items : Add(l, x, enrich) \in Seq(Items)
  BY AddKeeps
<1>3. PICK f : Appends(f, cur, inc, enrich)
  BY <1>2, AppendSteps
<1>4. /\ AppendUnique(cur, inc, enrich) = f[N] /\ f[0] = cur
      /\ \A n \in 1 .. N : f[n] = Add(f[n - 1], inc[n], enrich)
  BY <1>3 DEF Appends
<1> HIDE DEF N
<1>5. \A n \in 1 .. N : f[n - 1] \in Seq(Items) => f[n] \in Seq(Items)
  BY <1>1, <1>2, <1>4
<1>6. f[k - 1] \in Seq(Items) => f[k] \in W
  BY <1>1, <1>2, <1>4, AddedIsThere
<1>7. ASSUME NEW n \in 1 .. N, f[n - 1] \in W
      PROVE  f[n] \in W
  <2>1. f[n - 1] \in Seq(Items) /\ Listed(f[n - 1], inc[k], enrich)
    BY <1>7
  <2>2. f[n] = Add(f[n - 1], inc[n], enrich) /\ inc[n] \in Items /\ inc[k] \in Items
    BY <1>1, <1>4
  <2>3. Listed(Add(f[n - 1], inc[n], enrich), inc[k], enrich)
    BY <2>1, <2>2, AddLeavesThere
  <2> QED
    BY <1>2, <2>1, <2>2, <2>3
<1>8. k \in 1 .. N /\ f[0] \in Seq(Items)
  BY <1>1, <1>4
<1> HIDE DEF W
<1>9. f[N] \in W
  BY <1>1, <1>5, <1>6, <1>7, <1>8, Reaching
<1> QED
  BY <1>4, <1>9 DEF W

\* To unite again with the same changes nothing.
LEMMA AppendSettles ==
    ASSUME NEW cur \in Seq(Items), NEW inc \in Seq(Items), NEW enrich \in BOOLEAN
    PROVE  LET m == AppendUnique(cur, inc, enrich) IN AppendUnique(m, inc, enrich) = m
<1> DEFINE m == AppendUnique(cur, inc, enrich)
           S == {x \in Items : Listed(m, x, enrich)}
<1>1. m \in Seq(Items)
  BY AppendKeeps
<1>2. inc \in Seq(S)
  <2>1. /\ Len(inc) \in Nat /\ DOMAIN inc = 1 .. Len(inc)
        /\ inc = [k \in 1 .. Len(inc) |-> inc[k]]
    BY LenProperties
  <2>2. \A k \in DOMAIN inc : Listed(m, inc[k], enrich) /\ inc[k] \in Items
    BY AllAppended, ElementOfSeq, LenProperties
  <2> HIDE DEF m
  <2>3. \A k \in 1 .. Len(inc) : inc[k] \in S
    BY <2>1, <2>2
  <2> HIDE DEF S
  <2> QED
    BY <2>1, <2>3, SeqDef
<1> HIDE DEF m
<1>3. \A l \in {m} : \A x \in S : Add(l, x, enrich) \in {m}
  BY <1>1, AddAgain
<1>4. AppendUnique(m, inc, enrich) \in {m}
  <2> HIDE DEF S
  <2> QED
    BY <1>2, <1>3, AppendStays
<1> QED
  BY <1>4 DEF m

\* The union of items that are well formed is.
LEMMA AppendWellFormed ==
    ASSUME NEW cur \in Seq(Items), NEW inc \in Seq(Items), NEW enrich \in BOOLEAN,
           ~Malformed(cur, inc)
    PROVE  ~Malformed(AppendUnique(cur, inc, enrich), inc)
<1> DEFINE S == {x \in Items : x.key # Absent}
           m == AppendUnique(cur, inc, enrich)
<1>1. \A i \in DOMAIN cur : cur[i].key # Absent
  BY DEF Malformed, ToSet
<1>2. \A i \in DOMAIN inc : inc[i].key # Absent
  BY DEF Malformed, ToSet
<1>3. ASSUME NEW s \in Seq(Items), \A i \in DOMAIN s : s[i].key # Absent
      PROVE  s \in Seq(S)
  <2>1. /\ Len(s) \in Nat /\ DOMAIN s = 1 .. Len(s)
        /\ s = [k \in 1 .. Len(s) |-> s[k]]
    BY LenProperties
  <2>2. \A k \in 1 .. Len(s) : s[k] \in S
    BY <1>3, <2>1, ElementOfSeq
  <2> HIDE DEF S
  <2> QED
    BY <2>1, <2>2, SeqDef
<1>4. cur \in Seq(S) /\ inc \in Seq(S)
  BY <1>1, <1>2, <1>3
<1>5. ASSUME NEW l \in Seq(S), NEW x \in S
      PROVE  Add(l, x, enrich) \in Seq(S)
  <2>1. l \in Seq(Items) /\ \A i \in DOMAIN l : l[i].key # Absent
    <3>1. /\ Len(l) \in Nat /\ DOMAIN l = 1 .. Len(l) /\ \A k \in 1 .. Len(l) : l[k] \in S
          /\ l = [k \in 1 .. Len(l) |-> l[k]]
      BY LenProperties, ElementOfSeq
    <3>2. l \in [1 .. Len(l) -> Items]
      BY <3>1
    <3> QED
      BY <3>1, <3>2, SeqDef
  <2> DEFINE n == Add(l, x, enrich)
             same == {i \in DOMAIN l : l[i].key = x.key}
             k == CHOOSE i \in same : \A j \in same : i <= j
  <2>2. n \in Seq(Items)
    BY <2>1, AddKeeps
  <2>3. CASE same = {}
    <3>1. n = Append(l, x)
      BY <2>3 DEF Add
    <3> HIDE DEF n, S
    <3>2. n \in Seq(S)
      BY <3>1, AppendProperties
    <3> QED
      BY <3>2 DEF n
  <2>4. CASE same # {} /\ enrich
    <3>1. k \in same
      <4>1. same \in SUBSET Nat
        BY <2>1, LenProperties
      <4> HIDE DEF same
      <4>2. \E i \in same : \A j \in same : i <= j
        BY <2>4, <4>1, LeastNumber
      <4> QED
        BY <4>2
    <3>2. n = [l EXCEPT ![k] = Fill(l[k], x)]
      BY <2>4 DEF Add
    <3> HIDE DEF n, k
    <3>3. k \in DOMAIN l /\ l[k] \in Items
      BY <2>1, <3>1, ElementOfSeq, LenProperties
    <3>4. Fill(l[k], x).key = l[k].key
      BY <3>3 DEF Fill, Items
    <3>5. \A i \in DOMAIN n : n[i].key # Absent
      BY <2>1, <3>2, <3>3, <3>4
    <3>6. n \in Seq(S)
      <4> HIDE DEF S
      <4> QED
        BY <1>3, <2>2, <3>5 DEF n
    <3> QED
      BY <3>6 DEF n
  <2>5. CASE same # {} /\ ~enrich
    BY <2>5 DEF Add
  <2> QED
    BY <2>3, <2>4, <2>5
<1>6. m \in Seq(S)
  <2> HIDE DEF S
  <2> QED
    BY <1>4, <1>5, AppendStays
<1> HIDE DEF m
<1>7. \A i \in DOMAIN m : m[i].key # Absent
  BY <1>6, ElementOfSeq, LenProperties
<1>8. ~Malformed(m, inc)
  BY <1>2, <1>7 DEF Malformed, ToSet
<1> QED
  BY <1>8 DEF m

-----------------------------------------------------------------------------
(* Affiliations                                                            *)

Accumulators == [seen : SUBSET STRING, out : Seq(Affiliations)]

\* Some affiliation of the list has this name, and a spelling.
Spelled(list, name) == \E i \in DOMAIN list : list[i].name = name /\ list[i].spelling # Absent

\* What an affiliation has.
LEMMA AffiliationParts ==
    ASSUME NEW a \in Affiliations
    PROVE  /\ a = [id |-> a.id, name |-> a.name, spelling |-> a.spelling]
           /\ a.id \in STRING /\ a.name \in STRING /\ a.spelling \in STRING
           /\ a.id \in Spellings /\ a.spelling \in Spellings
           /\ a.name = Normalized[a.spelling]
           /\ a.id # Absent \/ a.spelling # Absent
BY NormalizedAssumption DEF Affiliations

\* f[n] is what is accumulated of the first n incoming affiliations.
Unites(f, cur, inc) ==
  /\ UnionAffiliations(cur, inc) = f[Len(inc)].out
  /\ f[0] = [out |-> cur, seen |-> {a.spelling : a \in ToSet(cur)}]
  /\ \A n \in 1 .. Len(inc) : f[n] = WithAffiliation(f[n - 1], inc[n])

\* The union takes one incoming affiliation after the other.
LEMMA UnionSteps ==
    ASSUME NEW S, NEW cur, NEW inc \in Seq(S), NEW V,
           [out |-> cur, seen |-> {a.spelling : a \in ToSet(cur)}] \in V,
           \A acc \in V : \A a \in S : WithAffiliation(acc, a) \in V
    PROVE  \E f : Unites(f, cur, inc)
<1> DEFINE N == Len(inc)
           first == [out |-> cur, seen |-> {a.spelling : a \in ToSet(cur)}]
           step == [n \in 1 .. N |-> [acc \in V |-> WithAffiliation(acc, inc[n])]]
           Steps(g) == g = [n \in 0 .. N |->
                              IF n = 0 THEN first ELSE WithAffiliation(g[n - 1], inc[n])]
<1>1. N \in Nat /\ \A n \in 1 .. N : inc[n] \in S
  BY LenProperties, ElementOfSeq
<1>2. step \in [1 .. N -> [V -> V]]
  BY <1>1
<1>3. first \in V
  OBVIOUS
<1>4. \E g : Steps(g)
  <2> HIDE DEF first
  <2>1. PICK g \in [0 .. N -> V] : Folds(g, N, first, step)
    <3> HIDE DEF step, N
    <3> QED
      BY <1>1, <1>2, <1>3, Folding
  <2>2. \A n \in 0 .. N : n # 0 => step[n][g[n - 1]] = WithAffiliation(g[n - 1], inc[n])
    BY <1>1
  <2>3. Steps(g)
    <3> HIDE DEF step, N
    <3> QED
      BY <2>1, <2>2 DEF Folds
  <2> HIDE DEF Steps
  <2> QED
    BY <2>3
<1> DEFINE f == CHOOSE g : Steps(g)
<1>5. Steps(f)
  <2> HIDE DEF Steps
  <2> QED
    BY <1>4
<1>6. UnionAffiliations(cur, inc) = f[N].out
  BY DEF UnionAffiliations
<1> HIDE DEF f, N, first
<1>7. f[0] = first /\ \A n \in 1 .. N : f[n] = WithAffiliation(f[n - 1], inc[n])
  BY <1>1, <1>5
<1> HIDE DEF Steps
<1> QED
  BY <1>6, <1>7 DEF N, first, Unites

\* As for lists: the union is the list of an accumulator of any set that holds the
\* first one and is left by no incoming affiliation.
LEMMA UnionStays ==
    ASSUME NEW S, NEW cur, NEW inc \in Seq(S), NEW V,
           [out |-> cur, seen |-> {a.spelling : a \in ToSet(cur)}] \in V,
           \A acc \in V : \A a \in S : WithAffiliation(acc, a) \in V
    PROVE  \E acc \in V : UnionAffiliations(cur, inc) = acc.out
<1>1. PICK f : Unites(f, cur, inc)
  BY UnionSteps
<1>2. Len(inc) \in Nat /\ \A n \in 1 .. Len(inc) : inc[n] \in S
  BY LenProperties, ElementOfSeq
<1>3. f[0] \in V /\ \A n \in 1 .. Len(inc) : f[n - 1] \in V => f[n] \in V
  BY <1>1, <1>2 DEF Unites
<1>4. f[Len(inc)] \in V
  BY <1>2, <1>3, Walking
<1> QED
  BY <1>1, <1>4 DEF Unites

\* An incoming affiliation replaces only one of its own name, and by one that has
\* a spelling.
LEMMA WithKeeps ==
    ASSUME NEW acc \in Accumulators, NEW a \in Affiliations
    PROVE  /\ WithAffiliation(acc, a) \in Accumulators
           /\ \A name \in STRING :
                Spelled(acc.out, name) => Spelled(WithAffiliation(acc, a).out, name)
<1> DEFINE out == acc.out
           same == Named(out, a.name)
           new == WithAffiliation(acc, a)
<1>1. /\ out \in Seq(Affiliations) /\ acc.seen \in SUBSET STRING
      /\ acc = [seen |-> acc.seen, out |-> out]
  BY DEF Accumulators
<1>2. a.spelling \in STRING
  BY AffiliationParts
<1> HIDE DEF out
<1>3. Len(out) \in Nat /\ DOMAIN out = 1 .. Len(out)
  BY <1>1, LenProperties
<1>4. /\ Append(out, a) \in Seq(Affiliations)
      /\ DOMAIN out \subseteq DOMAIN Append(out, a)
      /\ \A i \in DOMAIN out : Append(out, a)[i] = out[i]
  BY <1>1, <1>3, AppendProperties
<1>5. \A name \in STRING : Spelled(out, name) => Spelled(Append(out, a), name)
  BY <1>4 DEF Spelled
<1>6. CASE a.spelling = Absent
  <2>1. new = [acc EXCEPT !.out = Append(out, a)]
    BY <1>6 DEF WithAffiliation, out
  <2> HIDE DEF new
  <2>2. new \in Accumulators /\ new.out = Append(out, a)
    BY <1>1, <1>4, <2>1 DEF Accumulators
  <2> QED
    BY <1>5, <2>2 DEF new, out
<1>7. CASE a.spelling # Absent /\ a.spelling \in acc.seen
  <2>1. new = acc
    BY <1>7 DEF WithAffiliation
  <2> QED
    BY <2>1
<1>8. CASE a.spelling # Absent /\ a.spelling \notin acc.seen /\ same = {}
  <2>1. new = [seen |-> acc.seen \cup {a.spelling}, out |-> Append(out, a)]
    BY <1>8 DEF WithAffiliation, out
  <2> HIDE DEF new
  <2>2. new \in Accumulators /\ new.out = Append(out, a)
    BY <1>1, <1>2, <1>4, <2>1 DEF Accumulators
  <2> QED
    BY <1>5, <2>2 DEF new, out
<1>9. CASE a.spelling # Absent /\ a.spelling \notin acc.seen /\ same # {}
  <2>1. same \in SUBSET (1 .. Len(out))
    BY <1>3 DEF Named
  <2> DEFINE k == CHOOSE i \in same : \A j \in same : j <= i
             replaced == [out EXCEPT ![k] = a]
  <2>2. k \in same
    <3> HIDE DEF same
    <3>1. \E i \in same : \A j \in same : j <= i
      BY <1>3, <1>9, <2>1, GreatestNumber
    <3> QED
      BY <3>1
  <2>3. new = [seen |-> acc.seen \cup {a.spelling}, out |-> replaced]
    BY <1>9 DEF WithAffiliation, out
  <2> HIDE DEF new, k
  <2>4. k \in DOMAIN out /\ out[k].name = a.name
    BY <2>2 DEF Named
  <2>5. replaced \in Seq(Affiliations) /\ DOMAIN replaced = DOMAIN out
    BY <1>1, <2>4, ExceptSeq
  <2>6. \A i \in DOMAIN out : replaced[i] = IF i = k THEN a ELSE out[i]
    OBVIOUS
  <2> HIDE DEF replaced
  <2>7. new \in Accumulators /\ new.out = replaced
    BY <1>1, <1>2, <2>3, <2>5 DEF Accumulators
  <2>8. ASSUME NEW name \in STRING, Spelled(out, name)
        PROVE  Spelled(replaced, name)
    <3>1. PICK i \in DOMAIN out : out[i].name = name /\ out[i].spelling # Absent
      BY <2>8 DEF Spelled
    <3>2. replaced[i].name = name /\ replaced[i].spelling # Absent
      BY <1>9, <2>4, <2>6, <3>1
    <3> QED
      BY <2>5, <3>1, <3>2 DEF Spelled
  <2> QED
    BY <2>7, <2>8 DEF new, out
<1> QED
  BY <1>6, <1>7, <1>8, <1>9

\* So the union has every name that the current affiliations spell.
LEMMA UnionKeeps ==
    ASSUME NEW cur \in Seq(Affiliations), NEW inc \in Seq(Affiliations)
    PROVE  /\ UnionAffiliations(cur, inc) \in Seq(Affiliations)
           /\ \A name \in STRING :
                Spelled(cur, name) => Spelled(UnionAffiliations(cur, inc), name)
<1> DEFINE V == {acc \in Accumulators :
                   \A name \in STRING : Spelled(cur, name) => Spelled(acc.out, name)}
           seen == {a.spelling : a \in ToSet(cur)}
           first == [out |-> cur, seen |-> seen]
<1>1. first \in V
  <2>1. \A a \in ToSet(cur) : a \in Affiliations
    BY ElementOfSeq DEF ToSet
  <2>2. seen \in SUBSET STRING
    BY <2>1, AffiliationParts
  <2> HIDE DEF seen
  <2> QED
    BY <2>2 DEF Accumulators
<1>2. ASSUME NEW acc \in V, NEW a \in Affiliations
      PROVE  WithAffiliation(acc, a) \in V
  <2>1. acc \in Accumulators
    OBVIOUS
  <2>2. /\ WithAffiliation(acc, a) \in Accumulators
        /\ \A name \in STRING :
             Spelled(acc.out, name) => Spelled(WithAffiliation(acc, a).out, name)
    BY <2>1, WithKeeps
  <2> QED
    BY <2>2
<1>3. \E acc \in V : UnionAffiliations(cur, inc) = acc.out
  <2> HIDE DEF V
  <2> QED
    BY <1>1, <1>2, UnionStays
<1> QED
  BY <1>3 DEF Accumulators

\* Some affiliation of the list is spelled like this.
Worded(list, spelling) == \E i \in DOMAIN list : list[i].spelling = spelling

\* Where what was seen of the spelling of b is in the list, it still is after an
\* incoming affiliation whose name is another one, or which is b.
LEMMA WithWorded ==
    ASSUME NEW acc \in Accumulators, NEW a \in Affiliations, NEW b \in Affiliations,
           a.spelling # Absent, a.name = b.name => a = b,
           b.spelling \in acc.seen => Worded(acc.out, b.spelling)
    PROVE  LET new == WithAffiliation(acc, a) IN
           /\ b.spelling \in new.seen => Worded(new.out, b.spelling)
           /\ b.spelling \in acc.seen \/ a = b => b.spelling \in new.seen
<1> DEFINE out == acc.out
           same == Named(out, a.name)
           new == WithAffiliation(acc, a)
<1>1. out \in Seq(Affiliations)
  BY DEF Accumulators
<1> HIDE DEF out
<1>2. /\ Len(out) \in Nat /\ DOMAIN out = 1 .. Len(out)
      /\ \A i \in DOMAIN out : out[i] \in Affiliations
  BY <1>1, LenProperties, ElementOfSeq
<1>3. CASE a.spelling \in acc.seen
  <2>1. new = acc
    BY <1>3 DEF WithAffiliation
  <2> HIDE DEF new
  <2>2. /\ b.spelling \in new.seen => Worded(new.out, b.spelling)
        /\ b.spelling \in acc.seen \/ a = b => b.spelling \in new.seen
    BY <1>3, <2>1
  <2> QED
    BY <2>2 DEF new
<1>4. CASE a.spelling \notin acc.seen /\ same = {}
  <2>1. new = [seen |-> acc.seen \cup {a.spelling}, out |-> Append(out, a)]
    BY <1>4 DEF WithAffiliation, out
  <2> HIDE DEF new
  <2>2. new.seen = acc.seen \cup {a.spelling} /\ new.out = Append(out, a)
    BY <2>1
  <2>3. /\ DOMAIN Append(out, a) = 1 .. Len(out) + 1 /\ Append(out, a)[Len(out) + 1] = a
        /\ \A i \in 1 .. Len(out) : Append(out, a)[i] = out[i]
    BY <1>1, <1>2, AppendProperties
  <2>4. Worded(out, b.spelling) => Worded(Append(out, a), b.spelling)
    BY <1>2, <2>3 DEF Worded
  <2>5. Worded(Append(out, a), a.spelling)
    <3>1. Len(out) + 1 \in 1 .. Len(out) + 1
      BY <1>2
    <3> QED
      BY <2>3, <3>1 DEF Worded
  <2>6. b.spelling \in new.seen => Worded(new.out, b.spelling)
    BY <2>2, <2>4, <2>5 DEF out
  <2> QED
    BY <2>2, <2>6 DEF new
<1>5. CASE a.spelling \notin acc.seen /\ same # {}
  <2>1. same \in SUBSET (1 .. Len(out))
    BY <1>2 DEF Named
  <2> DEFINE k == CHOOSE i \in same : \A j \in same : j <= i
             replaced == [out EXCEPT ![k] = a]
  <2>2. k \in same
    <3> HIDE DEF same
    <3>1. \E i \in same : \A j \in same : j <= i
      BY <1>2, <1>5, <2>1, GreatestNumber
    <3> QED
      BY <3>1
  <2>3. new = [seen |-> acc.seen \cup {a.spelling}, out |-> replaced]
    BY <1>5 DEF WithAffiliation, out
  <2> HIDE DEF new, k
  <2>4. k \in DOMAIN out /\ out[k].name = a.name
    BY <2>2 DEF Named
  <2>5. /\ DOMAIN replaced = DOMAIN out /\ replaced[k] = a
        /\ \A i \in DOMAIN out : i # k => replaced[i] = out[i]
    BY <2>4
  <2> HIDE DEF replaced
  <2>6. new.seen = acc.seen \cup {a.spelling} /\ new.out = replaced
    BY <2>3
  <2>7. ASSUME b.spelling # a.spelling, Worded(out, b.spelling)
        PROVE  Worded(replaced, b.spelling)
    <3>1. PICK i \in DOMAIN out : out[i].spelling = b.spelling
      BY <2>7 DEF Worded
    <3>2. out[i].name = b.name
      BY <1>2, <3>1, AffiliationParts
    <3>3. i # k
      BY <2>4, <2>7, <3>2
    <3> QED
      BY <2>5, <3>1, <3>3 DEF Worded
  <2>8. Worded(replaced, a.spelling)
    BY <2>4, <2>5 DEF Worded
  <2>9. b.spelling \in new.seen => Worded(new.out, b.spelling)
    BY <2>6, <2>7, <2>8 DEF out
  <2> QED
    BY <2>6, <2>9 DEF new
<1> QED
  BY <1>3, <1>4, <1>5

\* So the union has every spelling that is incoming, if no two incoming ones are
\* spellings of one name.
LEMMA UnionWorded ==
    ASSUME NEW cur \in Seq(Affiliations), NEW inc \in Seq(Affiliations), Distinct(inc),
           \A i \in DOMAIN inc : inc[i].spelling # Absent, NEW k \in DOMAIN inc
    PROVE  Worded(UnionAffiliations(cur, inc), inc[k].spelling)
<1> DEFINE b == inc[k]
           V == {acc \in Accumulators : b.spelling \in acc.seen => Worded(acc.out, b.spelling)}
           W == {acc \in V : b.spelling \in acc.seen}
           N == Len(inc)
           seen == {a.spelling : a \in ToSet(cur)}
           first == [out |-> cur, seen |-> seen]
<1>1. N \in Nat /\ DOMAIN inc = 1 .. N /\ \A n \in 1 .. N : inc[n] \in Affiliations
  BY LenProperties, ElementOfSeq
<1>2. b \in Affiliations /\ k \in 1 .. N
  BY <1>1
<1> HIDE DEF b
<1>3. first \in V
  <2>1. \A a \in ToSet(cur) : a \in Affiliations
    BY ElementOfSeq DEF ToSet
  <2>2. seen \in SUBSET STRING
    BY <2>1, AffiliationParts
  <2>3. b.spelling \in seen => Worded(cur, b.spelling)
    BY DEF ToSet, Worded
  <2> HIDE DEF seen
  <2>4. first \in Accumulators
    BY <2>2 DEF Accumulators
  <2> QED
    BY <2>3, <2>4
<1>4. \A acc \in Accumulators : \A a \in Affiliations : WithAffiliation(acc, a) \in Accumulators
  BY WithKeeps
<1>5. PICK f : Unites(f, cur, inc)
  BY <1>3, <1>4, UnionSteps
<1>6. /\ UnionAffiliations(cur, inc) = f[N].out /\ f[0] = first
      /\ \A n \in 1 .. N : f[n] = WithAffiliation(f[n - 1], inc[n])
  BY <1>5 DEF Unites
<1> HIDE DEF N, first
<1>7. \A n \in 1 .. N : inc[n].spelling # Absent /\ (inc[n].name = b.name => inc[n] = b)
  BY <1>1 DEF Distinct, b
<1>8. ASSUME NEW n \in 1 .. N, f[n - 1] \in V
      PROVE  f[n] \in V /\ (b.spelling \in f[n - 1].seen \/ inc[n] = b => b.spelling \in f[n].seen)
  <2>1. /\ f[n - 1] \in Accumulators /\ inc[n] \in Affiliations /\ b \in Affiliations
        /\ inc[n].spelling # Absent /\ (inc[n].name = b.name => inc[n] = b)
        /\ b.spelling \in f[n - 1].seen => Worded(f[n - 1].out, b.spelling)
    BY <1>1, <1>2, <1>7, <1>8
  <2>2. f[n] = WithAffiliation(f[n - 1], inc[n]) /\ f[n] \in Accumulators
    BY <1>4, <1>6, <2>1
  <2>3. /\ b.spelling \in f[n].seen => Worded(f[n].out, b.spelling)
        /\ b.spelling \in f[n - 1].seen \/ inc[n] = b => b.spelling \in f[n].seen
    BY <2>1, <2>2, WithWorded
  <2> QED
    BY <2>2, <2>3
<1>9. inc[k] = b
  BY DEF b
<1>10. /\ \A n \in 1 .. N : f[n - 1] \in V => f[n] \in V
       /\ \A n \in 1 .. N : f[n - 1] \in W => f[n] \in W
       /\ f[k - 1] \in V => f[k] \in W
  BY <1>2, <1>8, <1>9
<1>11. f[0] \in V
  BY <1>3, <1>6
<1> HIDE DEF V
<1>12. f[N] \in W
  <2> HIDE DEF W
  <2> QED
    BY <1>1, <1>2, <1>10, <1>11, Reaching
<1> QED
  BY <1>6, <1>9, <1>12 DEF V

\* The union of affiliations that are spelled is.
LEMMA UnionSpelled ==
    ASSUME NEW cur \in Seq(Affiliations), NEW inc \in Seq(Affiliations),
           \A i \in DOMAIN cur : cur[i].spelling # Absent,
           \A i \in DOMAIN inc : inc[i].spelling # Absent
    PROVE  \A i \in DOMAIN UnionAffiliations(cur, inc) :
             UnionAffiliations(cur, inc)[i].spelling # Absent
<1> DEFINE S == {a \in Affiliations : a.spelling # Absent}
           V == {acc \in Accumulators : acc.out \in Seq(S)}
           seen == {a.spelling : a \in ToSet(cur)}
           first == [out |-> cur, seen |-> seen]
<1>1. ASSUME NEW s \in Seq(Affiliations), \A i \in DOMAIN s : s[i].spelling # Absent
      PROVE  s \in Seq(S)
  <2>1. /\ Len(s) \in Nat /\ DOMAIN s = 1 .. Len(s)
        /\ s = [k \in 1 .. Len(s) |-> s[k]]
    BY LenProperties
  <2>2. \A k \in 1 .. Len(s) : s[k] \in S
    BY <1>1, <2>1, ElementOfSeq
  <2> HIDE DEF S
  <2> QED
    BY <2>1, <2>2, SeqDef
<1>2. cur \in Seq(S) /\ inc \in Seq(S)
  BY <1>1
<1>3. first \in V
  <2>1. \A a \in ToSet(cur) : a \in Affiliations
    BY ElementOfSeq DEF ToSet
  <2>2. seen \in SUBSET STRING
    BY <2>1, AffiliationParts
  <2> HIDE DEF seen
  <2>3. first \in Accumulators
    BY <2>2 DEF Accumulators
  <2> HIDE DEF S
  <2> QED
    BY <1>2, <2>3
<1>4. ASSUME NEW acc \in V, NEW a \in S
      PROVE  WithAffiliation(acc, a) \in V
  <2> DEFINE out == acc.out
             same == Named(out, a.name)
             new == WithAffiliation(acc, a)
  <2>1. acc \in Accumulators /\ a \in Affiliations /\ a.spelling # Absent
    OBVIOUS
  <2>2. new \in Accumulators
    BY <2>1, WithKeeps
  <2>3. out \in Seq(S)
    OBVIOUS
  <2> HIDE DEF S
  <2>4. CASE a.spelling \in acc.seen
    BY <2>1, <2>4 DEF WithAffiliation
  <2>5. CASE a.spelling \notin acc.seen /\ same = {}
    <3>1. new = [seen |-> acc.seen \cup {a.spelling}, out |-> Append(out, a)]
      BY <2>1, <2>5 DEF WithAffiliation
    <3>2. Append(out, a) \in Seq(S)
      BY <2>3, AppendProperties
    <3> HIDE DEF out, new
    <3>3. new.out \in Seq(S)
      BY <3>1, <3>2
    <3> QED
      BY <2>2, <3>3 DEF new
  <2>6. CASE a.spelling \notin acc.seen /\ same # {}
    <3> DEFINE k == CHOOSE i \in same : \A j \in same : j <= i
    <3>1. k \in same
      <4>1. same \in SUBSET (1 .. Len(out)) /\ Len(out) \in Nat
        BY <2>3, LenProperties DEF Named
      <4> HIDE DEF same
      <4>2. \E i \in same : \A j \in same : j <= i
        BY <2>6, <4>1, GreatestNumber
      <4> QED
        BY <4>2
    <3>2. new = [seen |-> acc.seen \cup {a.spelling}, out |-> [out EXCEPT ![k] = a]]
      BY <2>1, <2>6 DEF WithAffiliation
    <3> HIDE DEF k
    <3>3. k \in DOMAIN out
      BY <3>1 DEF Named
    <3> HIDE DEF out, new
    <3>4. [out EXCEPT ![k] = a] \in Seq(S)
      BY <2>3, <3>3, ExceptSeq
    <3>5. new.out \in Seq(S)
      BY <3>2, <3>4
    <3> QED
      BY <2>2, <3>5 DEF new
  <2> QED
    BY <2>4, <2>5, <2>6
<1>5. \E acc \in V : UnionAffiliations(cur, inc) = acc.out
  <2>1. [out |-> cur, seen |-> {a.spelling : a \in ToSet(cur)}] \in V
    BY <1>3
  <2>2. \A acc \in V : \A a \in S : WithAffiliation(acc, a) \in V
    BY <1>4
  <2>3. inc \in Seq(S)
    BY <1>2
  <2> HIDE DEF V, S, first, seen
  <2> QED
    BY <2>1, <2>2, <2>3, UnionStays
<1>6. UnionAffiliations(cur, inc) \in Seq(S)
  BY <1>5
<1> QED
  BY <1>6, ElementOfSeq, LenProperties

\* To unite with affiliations whose spellings are all there changes nothing.
LEMMA UnionAgain ==
    ASSUME NEW cur \in Seq(Affiliations), NEW inc \in Seq(Affiliations),
           \A i \in DOMAIN inc : inc[i].spelling # Absent /\ Worded(cur, inc[i].spelling)
    PROVE  UnionAffiliations(cur, inc) = cur
<1> DEFINE S == {a \in Affiliations : a.spelling # Absent /\ Worded(cur, a.spelling)}
           seen == {a.spelling : a \in ToSet(cur)}
           first == [out |-> cur, seen |-> seen]
<1>1. inc \in Seq(S)
  <2>1. /\ Len(inc) \in Nat /\ DOMAIN inc = 1 .. Len(inc)
        /\ inc = [k \in 1 .. Len(inc) |-> inc[k]]
    BY LenProperties
  <2>2. \A k \in 1 .. Len(inc) : inc[k] \in S
    BY <2>1, ElementOfSeq
  <2> HIDE DEF S
  <2> QED
    BY <2>1, <2>2, SeqDef
<1>2. ASSUME NEW a \in S
      PROVE  WithAffiliation(first, a) = first
  <2>1. a.spelling # Absent /\ a.spelling \in seen
    BY DEF Worded, ToSet
  <2> HIDE DEF seen, S
  <2>2. first.seen = seen
    OBVIOUS
  <2> HIDE DEF first
  <2> QED
    BY <2>1, <2>2 DEF WithAffiliation
<1> DEFINE V == {first}
<1>3. \E acc \in V : UnionAffiliations(cur, inc) = acc.out
  <2>1. \A acc \in V : \A a \in S : WithAffiliation(acc, a) \in V
    BY <1>2
  <2>2. [out |-> cur, seen |-> {a.spelling : a \in ToSet(cur)}] \in V
    OBVIOUS
  <2> HIDE DEF S, V, first
  <2> QED
    BY <1>1, <2>1, <2>2, UnionStays
<1> HIDE DEF seen
<1> QED
  BY <1>3

-----------------------------------------------------------------------------
(* A sequence without some of its members                                  *)

\* f[n] is what is left of the first n members of s.
Sieves(f, s, dropped) ==
  /\ Without(s, dropped) = f[Len(s)] /\ f[0] = <<>>
  /\ \A n \in 1 .. Len(s) :
       f[n] = IF s[n] \in dropped THEN f[n - 1] ELSE Append(f[n - 1], s[n])

\* Without goes through the sequence from its first member on.
LEMMA WithoutSteps ==
    ASSUME NEW S, NEW s \in Seq(S), NEW dropped
    PROVE  \E f \in [0 .. Len(s) -> Seq(S)] : Sieves(f, s, dropped)
<1> DEFINE N == Len(s)
           After(l, n) == IF s[n] \in dropped THEN l ELSE Append(l, s[n])
           step == [n \in 1 .. N |-> [l \in Seq(S) |-> After(l, n)]]
           Steps(g) == g = [n \in 0 .. N |->
                              IF n = 0 THEN <<>> ELSE After(g[n - 1], n)]
<1>1. N \in Nat /\ \A n \in 1 .. N : s[n] \in S
  BY LenProperties, ElementOfSeq
<1>2. <<>> \in Seq(S)
  OBVIOUS
<1>3. \A n \in 1 .. N : \A l \in Seq(S) : After(l, n) \in Seq(S)
  BY <1>1, AppendProperties
<1>4. step \in [1 .. N -> [Seq(S) -> Seq(S)]]
  <2> HIDE DEF After, N
  <2> QED
    BY <1>3
<1>5. \E g : Steps(g)
  <2>1. PICK g \in [0 .. N -> Seq(S)] : Folds(g, N, <<>>, step)
    <3> HIDE DEF step, N
    <3> QED
      BY <1>1, <1>2, <1>4, Folding
  <2>2. \A n \in 0 .. N : n # 0 => step[n][g[n - 1]] = After(g[n - 1], n)
    <3> HIDE DEF After
    <3> TAKE n \in 0 .. N
    <3>1. n # 0 => n \in 1 .. N /\ n - 1 \in 0 .. N
      BY <1>1
    <3>2. n # 0 => g[n - 1] \in Seq(S)
      BY <3>1
    <3>3. n # 0 => step[n] = [l \in Seq(S) |-> After(l, n)]
      BY <3>1
    <3> HIDE DEF step
    <3> QED
      BY <3>2, <3>3
  <2>3. Steps(g)
    <3> HIDE DEF step, N, After
    <3> QED
      BY <2>1, <2>2 DEF Folds
  <2> HIDE DEF Steps
  <2> QED
    BY <2>3
<1> DEFINE f == CHOOSE g : Steps(g)
<1>6. Steps(f)
  <2> HIDE DEF Steps
  <2> QED
    BY <1>5
<1>7. Without(s, dropped) = f[N]
  BY DEF Without
<1> HIDE DEF f, N
<1>8. DOMAIN f = 0 .. N /\ f[0] = <<>> /\ \A n \in 1 .. N : f[n] = After(f[n - 1], n)
  <2> HIDE DEF After
  <2> QED
    BY <1>1, <1>6
<1> HIDE DEF Steps
<1>9. f \in [0 .. N -> Seq(S)]
  <2> DEFINE P == {m \in Nat : m <= N => f[m] \in Seq(S)}
  <2>1. P \in SUBSET Nat /\ 0 \in P
    BY <1>2, <1>8
  <2>2. \A m \in P : m + 1 \in P
    <3> TAKE m \in P
    <3>1. CASE m + 1 <= N
      <4>1. m + 1 \in 1 .. N /\ (m + 1) - 1 = m /\ f[m] \in Seq(S)
        BY <1>1, <3>1
      <4> HIDE DEF After
      <4>2. f[m + 1] \in Seq(S)
        BY <1>3, <1>8, <4>1
      <4> QED
        BY <4>2
    <3>2. CASE ~(m + 1 <= N)
      BY <3>2
    <3> QED
      BY <3>1, <3>2
  <2>3. P = Nat
    <3> HIDE DEF P
    <3> QED
      BY <2>1, <2>2, Counting
  <2>4. \A n \in 0 .. N : f[n] \in Seq(S)
    <3> TAKE n \in 0 .. N
    <3>1. n \in P /\ n <= N
      BY <1>1, <2>3
    <3> QED
      BY <3>1
  <2>5. f = [n \in 0 .. N |-> f[n]]
    BY <1>6, <1>8 DEF Steps
  <2> HIDE DEF P
  <2> QED
    BY <2>4, <2>5
<1> QED
  BY <1>7, <1>8, <1>9 DEF N, Sieves

\* What is left has members of the sequence only, and all that are not dropped.
LEMMA WithoutMembers ==
    ASSUME NEW S, NEW s \in Seq(S), NEW dropped
    PROVE  /\ Without(s, dropped) \in Seq(S)
           /\ \A i \in DOMAIN Without(s, dropped) : Without(s, dropped)[i] \in ToSet(s) \ dropped
           /\ \A x \in ToSet(s) \ dropped : x \in ToSet(Without(s, dropped))
<1> DEFINE N == Len(s)
<1>1. N \in Nat /\ DOMAIN s = 1 .. N /\ \A n \in 1 .. N : s[n] \in S
  BY LenProperties, ElementOfSeq
<1>2. PICK f \in [0 .. Len(s) -> Seq(S)] : Sieves(f, s, dropped)
  BY WithoutSteps
<1>3. /\ f \in [0 .. N -> Seq(S)] /\ Without(s, dropped) = f[N] /\ f[0] = <<>>
      /\ \A n \in 1 .. N :
           f[n] = IF s[n] \in dropped THEN f[n - 1] ELSE Append(f[n - 1], s[n])
  BY <1>2 DEF Sieves
<1> HIDE DEF N
<1> DEFINE Has(l, n) == \E j \in DOMAIN l : l[j] = s[n]
           Good(m) == /\ \A j \in DOMAIN f[m] : f[m][j] \in ToSet(s) \ dropped
                      /\ \A n \in 1 .. m : s[n] \in dropped \/ Has(f[m], n)
           P == {m \in Nat : m <= N => Good(m)}
<1>4. P \in SUBSET Nat /\ 0 \in P
  <2>1. Good(0)
    BY <1>1, <1>3
  <2> HIDE DEF Good
  <2> QED
    BY <2>1
<1>5. \A m \in P : m + 1 \in P
  <2> TAKE m \in P
  <2>1. CASE m + 1 <= N
    <3>1. m + 1 \in 1 .. N /\ (m + 1) - 1 = m /\ m \in 0 .. N /\ m \in Nat /\ m <= N
      BY <1>1, <2>1
    <3>2. f[m] \in Seq(S) /\ s[m + 1] \in S /\ s[m + 1] \in ToSet(s)
      BY <1>1, <1>3, <3>1 DEF ToSet
    <3>3. Good(m)
      <4> HIDE DEF Good
      <4> QED
        BY <3>1
    <3>4. \A n \in 1 .. m + 1 : n \in 1 .. m \/ n = m + 1
      BY <3>1
    <3>5. CASE s[m + 1] \in dropped
      <4>1. f[m + 1] = f[m]
        BY <1>3, <3>1, <3>5
      <4>2. Good(m + 1)
        BY <3>3, <3>4, <3>5, <4>1
      <4> HIDE DEF Good
      <4> QED
        BY <4>2
    <3>6. CASE s[m + 1] \notin dropped
      <4> DEFINE l == f[m]
                 k == f[m + 1]
      <4>1. k = Append(l, s[m + 1])
        BY <1>3, <3>1, <3>6
      <4> HIDE DEF k, l
      <4>2. l \in Seq(S)
        BY <3>2 DEF l
      <4>3. /\ Len(l) \in Nat /\ DOMAIN l = 1 .. Len(l) /\ DOMAIN k = 1 .. Len(l) + 1
            /\ k[Len(l) + 1] = s[m + 1] /\ \A j \in 1 .. Len(l) : k[j] = l[j]
        BY <3>2, <4>1, <4>2, AppendProperties, LenProperties
      <4>4. \A j \in DOMAIN k : k[j] \in ToSet(s) \ dropped
        <5> TAKE j \in DOMAIN k
        <5>1. CASE j = Len(l) + 1
          BY <3>2, <3>6, <4>3, <5>1
        <5>2. CASE j # Len(l) + 1
          <6>1. j \in DOMAIN l /\ k[j] = l[j]
            BY <4>3, <5>2
          <6> QED
            BY <3>3, <6>1 DEF l
        <5> QED
          BY <5>1, <5>2
      <4>5. \A n \in 1 .. m : Has(l, n) => Has(k, n)
        BY <4>3
      <4>6. Has(k, m + 1)
        BY <4>3
      <4>7. \A n \in 1 .. m + 1 : s[n] \in dropped \/ Has(k, n)
        <5> TAKE n \in 1 .. m + 1
        <5>1. CASE n = m + 1
          BY <4>6, <5>1
        <5>2. CASE n # m + 1
          <6>1. n \in 1 .. m
            BY <3>4, <5>2
          <6>2. s[n] \in dropped \/ Has(l, n)
            BY <3>3, <6>1 DEF l
          <6> HIDE DEF Has
          <6> QED
            BY <4>5, <6>1, <6>2
        <5> QED
          BY <5>1, <5>2
      <4>8. Good(m + 1)
        BY <4>4, <4>7 DEF k
      <4> HIDE DEF Good
      <4> QED
        BY <4>8
    <3> QED
      BY <3>5, <3>6
  <2>2. CASE ~(m + 1 <= N)
    BY <2>2
  <2> QED
    BY <2>1, <2>2
<1>6. Good(N)
  <2> HIDE DEF Good
  <2>1. P = Nat
    <3> HIDE DEF P
    <3> QED
      BY <1>4, <1>5, Counting
  <2>2. N \in P /\ N <= N
    BY <1>1, <2>1
  <2> QED
    BY <2>2
<1>7. f[N] \in Seq(S)
  BY <1>1, <1>3
<1>8. \A x \in ToSet(s) \ dropped : x \in ToSet(f[N])
  <2> TAKE x \in ToSet(s) \ dropped
  <2>1. PICK n \in 1 .. N : x = s[n]
    BY <1>1 DEF ToSet
  <2>2. Has(f[N], n)
    BY <1>6, <2>1
  <2> QED
    BY <2>1, <2>2 DEF ToSet
<1> QED
  BY <1>3, <1>6, <1>7, <1>8

\* Nothing is left when every member is dropped.
LEMMA WithoutAll ==
    ASSUME NEW S, NEW s \in Seq(S), NEW dropped, \A i \in DOMAIN s : s[i] \in dropped
    PROVE  Without(s, dropped) = <<>>
<1> DEFINE r == Without(s, dropped)
<1>1. r \in Seq(S) /\ \A i \in DOMAIN r : r[i] \in ToSet(s) \ dropped
  BY WithoutMembers
<1> HIDE DEF r
<1>2. ToSet(s) \subseteq dropped
  BY DEF ToSet
<1>3. DOMAIN r = {}
  BY <1>1, <1>2
<1>4. Len(r) \in Nat /\ DOMAIN r = 1 .. Len(r)
  BY <1>1, LenProperties
<1>5. Len(r) = 0
  BY <1>3, <1>4
<1>6. r = <<>>
  BY <1>1, <1>5, EmptySeq
<1> QED
  BY <1>6 DEF r

\* What is left of a sequence whose first part is dropped and whose second is not.
LEMMA WithoutFirst ==
    ASSUME NEW S, NEW s \in Seq(S), NEW t \in Seq(S), NEW dropped,
           \A i \in DOMAIN s : s[i] \in dropped, \A i \in DOMAIN t : t[i] \notin dropped
    PROVE  Without(s \o t, dropped) = t
<1> DEFINE u == s \o t
           L == Len(s)
           N == Len(s) + Len(t)
<1>1. /\ Len(s) \in Nat /\ Len(t) \in Nat /\ DOMAIN s = 1 .. Len(s) /\ DOMAIN t = 1 .. Len(t)
      /\ \A i \in DOMAIN t : t[i] \in S
  BY LenProperties, ElementOfSeq
<1>2. /\ u \in Seq(S) /\ Len(u) = N
      /\ \A i \in 1 .. N : u[i] = IF i <= L THEN s[i] ELSE t[i - L]
  BY ConcatProperties
<1> HIDE DEF u
<1>3. PICK f \in [0 .. Len(u) -> Seq(S)] : Sieves(f, u, dropped)
  BY <1>2, WithoutSteps
<1>4. /\ f \in [0 .. N -> Seq(S)] /\ Without(u, dropped) = f[N] /\ f[0] = <<>>
      /\ \A n \in 1 .. N :
           f[n] = IF u[n] \in dropped THEN f[n - 1] ELSE Append(f[n - 1], u[n])
  BY <1>2, <1>3 DEF Sieves
<1> DEFINE Left(m) == IF m <= L THEN 0 ELSE m - L
           Good(m) == Len(f[m]) = Left(m) /\ \A j \in 1 .. Left(m) : f[m][j] = t[j]
           P == {m \in Nat : m <= N => Good(m)}
<1>5. L \in Nat /\ N \in Nat /\ N = L + Len(t)
  BY <1>1
<1> HIDE DEF N, L
<1>6. P \in SUBSET Nat /\ 0 \in P
  <2>1. Len(f[0]) = 0 /\ Left(0) = 0
    BY <1>4, <1>5, EmptySeq
  <2> QED
    BY <2>1
<1>7. \A m \in P : m + 1 \in P
  <2> TAKE m \in P
  <2>1. CASE m + 1 <= N
    <3>1. m + 1 \in 1 .. N /\ (m + 1) - 1 = m /\ m \in 0 .. N /\ m \in Nat
      BY <1>5, <2>1
    <3>2. Good(m)
      BY <1>5, <2>1
    <3>3. f[m] \in Seq(S)
      BY <1>4, <3>1
    <3>4. CASE m + 1 <= L
      <4>1. u[m + 1] \in dropped
        <5>1. u[m + 1] = s[m + 1] /\ m + 1 \in DOMAIN s
          BY <1>1, <1>2, <3>1, <3>4 DEF N, L
        <5> QED
          BY <5>1
      <4>2. f[m + 1] = f[m]
        BY <1>4, <3>1, <4>1
      <4>3. Left(m + 1) = 0 /\ Left(m) = 0
        BY <1>5, <3>1, <3>4
      <4> QED
        BY <3>1, <3>2, <4>2, <4>3
    <3>5. CASE ~(m + 1 <= L)
      <4> DEFINE k == (m + 1) - L
      <4>1. /\ k \in 1 .. Len(t) /\ Left(m + 1) = k /\ Left(m) = k - 1
            /\ u[m + 1] = t[k] /\ t[k] \in S /\ t[k] \notin dropped
        <5>1. k \in 1 .. Len(t) /\ Left(m + 1) = k /\ Left(m) = k - 1
          BY <1>1, <1>5, <3>1, <3>5
        <5>2. u[m + 1] = t[k]
          BY <1>2, <3>1, <3>5 DEF N, L
        <5> QED
          BY <1>1, <5>1, <5>2
      <4> HIDE DEF k
      <4>2. f[m + 1] = Append(f[m], t[k])
        BY <1>4, <3>1, <4>1
      <4>3. Len(f[m]) = k - 1 /\ \A j \in 1 .. k - 1 : f[m][j] = t[j]
        BY <3>2, <4>1
      <4>4. /\ Len(f[m + 1]) = (k - 1) + 1 /\ f[m + 1][(k - 1) + 1] = t[k]
            /\ \A j \in 1 .. k - 1 : f[m + 1][j] = f[m][j]
        BY <3>3, <4>1, <4>2, <4>3, AppendProperties
      <4>5. (k - 1) + 1 = k /\ \A j \in 1 .. k : j = k \/ j \in 1 .. k - 1
        BY <4>1
      <4>6. Len(f[m + 1]) = k /\ \A j \in 1 .. k : f[m + 1][j] = t[j]
        BY <4>3, <4>4, <4>5
      <4>7. Good(m + 1)
        BY <4>1, <4>6
      <4> QED
        BY <3>1, <4>7
    <3> QED
      BY <3>4, <3>5
  <2>2. CASE ~(m + 1 <= N)
    BY <2>2
  <2> QED
    BY <2>1, <2>2
<1>8. Good(N)
  <2> HIDE DEF Good
  <2>1. P = Nat
    <3>1. P \in SUBSET Nat /\ 0 \in P
      BY <1>6
    <3> HIDE DEF P
    <3>2. \A n \in P : n + 1 \in P
      BY <1>7
    <3> QED
      BY <3>1, <3>2, Counting
  <2>2. N \in P /\ N <= N
    BY <1>5, <2>1
  <2> QED
    BY <2>2
<1>9. Left(N) = Len(t)
  BY <1>1, <1>5
<1>10. f[N] \in Seq(S)
  BY <1>4, <1>5
<1>11. f[N] = t
  BY <1>8, <1>9, <1>10, SeqEqual
<1> QED
  BY <1>4, <1>11 DEF u

\* What is left of a sequence without repetition has none.
LEMMA WithoutInjective ==
    ASSUME NEW S, NEW s \in Seq(S), NEW dropped,
           \A i, j \in DOMAIN s : s[i] = s[j] => i = j
    PROVE  \A i, j \in DOMAIN Without(s, dropped) :
             Without(s, dropped)[i] = Without(s, dropped)[j] => i = j
<1> DEFINE N == Len(s)
<1>1. N \in Nat /\ DOMAIN s = 1 .. N /\ \A n \in 1 .. N : s[n] \in S
  BY LenProperties, ElementOfSeq
<1>2. PICK f \in [0 .. Len(s) -> Seq(S)] : Sieves(f, s, dropped)
  BY WithoutSteps
<1>3. /\ f \in [0 .. N -> Seq(S)] /\ Without(s, dropped) = f[N] /\ f[0] = <<>>
      /\ \A n \in 1 .. N :
           f[n] = IF s[n] \in dropped THEN f[n - 1] ELSE Append(f[n - 1], s[n])
  BY <1>2 DEF Sieves
<1> HIDE DEF N
<1> DEFINE Old(l, m) == \A j \in DOMAIN l : \E n \in 1 .. m : l[j] = s[n]
           Once(l) == \A i, j \in DOMAIN l : l[i] = l[j] => i = j
           P == {m \in Nat : m <= N => Old(f[m], m) /\ Once(f[m])}
<1>4. P \in SUBSET Nat /\ 0 \in P
  <2>1. Old(f[0], 0) /\ Once(f[0])
    BY <1>3
  <2> HIDE DEF Old, Once
  <2> QED
    BY <2>1
<1>5. \A m \in P : m + 1 \in P
  <2> TAKE m \in P
  <2>1. CASE m + 1 <= N
    <3>1. m + 1 \in 1 .. N /\ (m + 1) - 1 = m /\ m \in 0 .. N /\ m \in Nat /\ m <= N
      BY <1>1, <2>1
    <3>2. f[m] \in Seq(S) /\ s[m + 1] \in S
      BY <1>1, <1>3, <3>1
    <3>3. Old(f[m], m) /\ Once(f[m])
      <4> HIDE DEF Old, Once
      <4> QED
        BY <3>1
    <3>4. \A n \in 1 .. m : n \in 1 .. m + 1 /\ n # m + 1 /\ n \in DOMAIN s
      BY <1>1, <3>1
    <3>5. CASE s[m + 1] \in dropped
      <4>1. f[m + 1] = f[m]
        BY <1>3, <3>1, <3>5
      <4>2. Old(f[m + 1], m + 1) /\ Once(f[m + 1])
        BY <3>3, <3>4, <4>1
      <4> HIDE DEF Old, Once
      <4> QED
        BY <4>2
    <3>6. CASE s[m + 1] \notin dropped
      <4> DEFINE l == f[m]
                 k == f[m + 1]
      <4>1. k = Append(l, s[m + 1])
        BY <1>3, <3>1, <3>6
      <4>2. l \in Seq(S) /\ Old(l, m) /\ Once(l)
        BY <3>2, <3>3
      <4> HIDE DEF k, l
      <4>3. /\ Len(l) \in Nat /\ DOMAIN l = 1 .. Len(l) /\ DOMAIN k = 1 .. Len(l) + 1
            /\ k[Len(l) + 1] = s[m + 1] /\ \A j \in 1 .. Len(l) : k[j] = l[j]
        BY <3>2, <4>1, <4>2, AppendProperties, LenProperties
      <4>4. \A j \in DOMAIN k : j = Len(l) + 1 \/ (j \in DOMAIN l /\ k[j] = l[j])
        BY <4>3
      <4>5. m + 1 \in 1 .. m + 1 /\ m + 1 \in DOMAIN s
        BY <1>1, <3>1
      <4>6. \A j \in DOMAIN l : k[j] # s[m + 1]
        BY <3>4, <4>2, <4>3, <4>5
      <4>7. Old(k, m + 1)
        BY <3>4, <4>2, <4>3, <4>4, <4>5
      <4>8. Once(k)
        BY <4>2, <4>3, <4>4, <4>6
      <4>9. Old(f[m + 1], m + 1) /\ Once(f[m + 1])
        BY <4>7, <4>8 DEF k
      <4> HIDE DEF Old, Once
      <4> QED
        BY <4>9
    <3> QED
      BY <3>5, <3>6
  <2>2. CASE ~(m + 1 <= N)
    BY <2>2
  <2> QED
    BY <2>1, <2>2
<1>6. Once(f[N])
  <2> HIDE DEF Old, Once
  <2>1. P = Nat
    <3>1. P \in SUBSET Nat /\ 0 \in P
      BY <1>4
    <3>2. \A n \in P : n + 1 \in P
      BY <1>5
    <3> HIDE DEF P
    <3> QED
      BY <3>1, <3>2, Counting
  <2>2. N \in P /\ N <= N
    BY <1>1, <2>1
  <2> QED
    BY <2>2
<1> QED
  BY <1>3, <1>6

-----------------------------------------------------------------------------
(* People                                                                  *)

Identifiers == STRING \X STRING

\* What a person has.
LEMMA PersonParts ==
    ASSUME NEW p \in Persons
    PROVE  /\ p = [name |-> p.name, ids |-> p.ids, affiliations |-> p.affiliations]
           /\ p.name \in STRING /\ p.ids \in Seq(Identifiers)
           /\ p.affiliations \in Seq(Affiliations)
BY DEF Persons, Identifiers

\* The parts make a person.
LEMMA PersonMade ==
    ASSUME NEW name \in STRING, NEW ids \in Seq(Identifiers), NEW as \in Seq(Affiliations)
    PROVE  [name |-> name, ids |-> ids, affiliations |-> as] \in Persons
BY DEF Persons, Identifiers

\* A merged person has the identifiers of both, none besides, and every name the
\* affiliations of the current one spell.
LEMMA MergedPerson ==
    ASSUME NEW cur \in Persons, NEW inc \in Persons
    PROVE  /\ MergePerson(cur, inc) \in Persons
           /\ ToSet(cur.ids) \subseteq ToSet(MergePerson(cur, inc).ids)
           /\ ToSet(inc.ids) \subseteq ToSet(MergePerson(cur, inc).ids)
           /\ \A x \in ToSet(MergePerson(cur, inc).ids) :
                x \in ToSet(inc.ids) \/ x \in ToSet(cur.ids) \ ToSet(inc.ids)
           /\ \A name \in STRING :
                Spelled(cur.affiliations, name) =>
                  Spelled(MergePerson(cur, inc).affiliations, name)
<1> DEFINE as == UnionAffiliations(cur.affiliations, inc.affiliations)
           rest == Without(cur.ids, ToSet(inc.ids))
           ids == inc.ids \o rest
<1>1. /\ cur.ids \in Seq(Identifiers) /\ inc.ids \in Seq(Identifiers)
      /\ cur.affiliations \in Seq(Affiliations) /\ inc.affiliations \in Seq(Affiliations)
      /\ inc.name \in STRING
      /\ inc = [name |-> inc.name, ids |-> inc.ids, affiliations |-> inc.affiliations]
  BY PersonParts
<1>2. MergePerson(cur, inc) = [name |-> inc.name, ids |-> ids, affiliations |-> as]
  <2> HIDE DEF as, rest
  <2>1. MergePerson(cur, inc) = [inc EXCEPT !.affiliations = as, !.ids = inc.ids \o rest]
    BY DEF MergePerson, as, rest
  <2> QED
    BY <1>1, <2>1
<1>3. /\ as \in Seq(Affiliations)
      /\ \A name \in STRING : Spelled(cur.affiliations, name) => Spelled(as, name)
  BY <1>1, UnionKeeps
<1>4. /\ rest \in Seq(Identifiers)
      /\ \A i \in DOMAIN rest : rest[i] \in ToSet(cur.ids) \ ToSet(inc.ids)
      /\ \A x \in ToSet(cur.ids) \ ToSet(inc.ids) : x \in ToSet(rest)
  BY <1>1, WithoutMembers
<1> HIDE DEF as, rest
<1>5. /\ Len(inc.ids) \in Nat /\ Len(rest) \in Nat
      /\ DOMAIN inc.ids = 1 .. Len(inc.ids) /\ DOMAIN rest = 1 .. Len(rest)
  BY <1>1, <1>4, LenProperties
<1>6. /\ ids \in Seq(Identifiers) /\ DOMAIN ids = 1 .. Len(inc.ids) + Len(rest)
      /\ \A i \in 1 .. Len(inc.ids) : ids[i] = inc.ids[i]
      /\ \A i \in 1 .. Len(rest) : ids[Len(inc.ids) + i] = rest[i]
  <2>1. /\ ids \in Seq(Identifiers) /\ Len(ids) = Len(inc.ids) + Len(rest)
        /\ \A i \in 1 .. Len(inc.ids) + Len(rest) :
             ids[i] = IF i <= Len(inc.ids) THEN inc.ids[i] ELSE rest[i - Len(inc.ids)]
    BY <1>1, <1>4, ConcatProperties
  <2> HIDE DEF ids
  <2>2. DOMAIN ids = 1 .. Len(inc.ids) + Len(rest)
    BY <2>1, LenProperties
  <2>3. \A i \in 1 .. Len(rest) : /\ Len(inc.ids) + i \in 1 .. Len(inc.ids) + Len(rest)
                                  /\ ~(Len(inc.ids) + i <= Len(inc.ids))
                                  /\ (Len(inc.ids) + i) - Len(inc.ids) = i
    BY <1>5
  <2>4. \A i \in 1 .. Len(inc.ids) : i \in 1 .. Len(inc.ids) + Len(rest) /\ i <= Len(inc.ids)
    BY <1>5
  <2> QED
    BY <2>1, <2>2, <2>3, <2>4
<1> HIDE DEF ids
<1>7. \A x \in ToSet(inc.ids) \cup ToSet(rest) : x \in ToSet(ids)
  <2>1. \A i \in DOMAIN inc.ids : inc.ids[i] \in ToSet(ids)
    BY <1>5, <1>6 DEF ToSet
  <2>2. \A i \in DOMAIN rest : rest[i] \in ToSet(ids)
    BY <1>5, <1>6 DEF ToSet
  <2> QED
    BY <2>1, <2>2 DEF ToSet
<1>8. \A x \in ToSet(ids) : x \in ToSet(inc.ids) \/ x \in ToSet(cur.ids) \ ToSet(inc.ids)
  <2> TAKE x \in ToSet(ids)
  <2>1. PICK i \in DOMAIN ids : x = ids[i]
    BY DEF ToSet
  <2>2. CASE i <= Len(inc.ids)
    <3>1. i \in DOMAIN inc.ids /\ x = inc.ids[i]
      BY <1>5, <1>6, <2>1, <2>2
    <3> QED
      BY <3>1 DEF ToSet
  <2>3. CASE ~(i <= Len(inc.ids))
    <3>1. i - Len(inc.ids) \in 1 .. Len(rest) /\ Len(inc.ids) + (i - Len(inc.ids)) = i
      BY <1>5, <1>6, <2>1, <2>3
    <3>2. x = rest[i - Len(inc.ids)]
      BY <1>6, <2>1, <3>1
    <3> QED
      BY <1>4, <1>5, <3>1, <3>2
  <2> QED
    BY <2>2, <2>3
<1>9. ToSet(cur.ids) \subseteq ToSet(ids)
  BY <1>4, <1>7
<1>10. MergePerson(cur, inc) \in Persons
  BY <1>1, <1>2, <1>3, <1>6, PersonMade
<1>11. MergePerson(cur, inc).ids = ids /\ MergePerson(cur, inc).affiliations = as
  BY <1>2
<1> QED
  BY <1>3, <1>7, <1>8, <1>9, <1>10, <1>11

\* The affiliations of the person have names, each one spelling.
Clear(p) ==
  Distinct(p.affiliations) /\ \A a \in ToSet(p.affiliations) : a.name # Absent

\* So they are spelled.
LEMMA ClearSpelled ==
    ASSUME NEW p \in Persons, Clear(p)
    PROVE  \A i \in DOMAIN p.affiliations : p.affiliations[i].spelling # Absent
<1>1. p.affiliations \in Seq(Affiliations)
  BY PersonParts
<1> TAKE i \in DOMAIN p.affiliations
<1>2. p.affiliations[i] \in Affiliations /\ p.affiliations[i].name # Absent
  BY <1>1, ElementOfSeq, LenProperties DEF Clear, ToSet
<1> QED
  BY <1>2, AffiliationParts, NormalizedAssumption

\* To merge a person again with the same one changes nothing.
LEMMA MergeAgain ==
    ASSUME NEW cur \in Persons, NEW inc \in Persons, Clear(inc),
           \A i \in DOMAIN cur.affiliations : cur.affiliations[i].spelling # Absent
    PROVE  LET m == MergePerson(cur, inc) IN
           /\ \A i \in DOMAIN m.affiliations : m.affiliations[i].spelling # Absent
           /\ m.name = inc.name /\ MergePerson(m, inc) = m
<1> DEFINE as == UnionAffiliations(cur.affiliations, inc.affiliations)
           rest == Without(cur.ids, ToSet(inc.ids))
           m == MergePerson(cur, inc)
<1>1. /\ cur.ids \in Seq(Identifiers) /\ inc.ids \in Seq(Identifiers)
      /\ cur.affiliations \in Seq(Affiliations) /\ inc.affiliations \in Seq(Affiliations)
      /\ inc.name \in STRING
      /\ inc = [name |-> inc.name, ids |-> inc.ids, affiliations |-> inc.affiliations]
  BY PersonParts
<1>2. \A p \in Persons :
        MergePerson(p, inc) =
          [name |-> inc.name, ids |-> inc.ids \o Without(p.ids, ToSet(inc.ids)),
           affiliations |-> UnionAffiliations(p.affiliations, inc.affiliations)]
  <2> TAKE p \in Persons
  <2> DEFINE us == UnionAffiliations(p.affiliations, inc.affiliations)
             ws == Without(p.ids, ToSet(inc.ids))
  <2>1. MergePerson(p, inc) = [inc EXCEPT !.affiliations = us, !.ids = inc.ids \o ws]
    BY DEF MergePerson
  <2> HIDE DEF us, ws
  <2>2. MergePerson(p, inc) = [name |-> inc.name, ids |-> inc.ids \o ws, affiliations |-> us]
    BY <1>1, <2>1
  <2> QED
    BY <2>2 DEF us, ws
<1>3. m = [name |-> inc.name, ids |-> inc.ids \o rest, affiliations |-> as]
  BY <1>2
<1>4. m \in Persons
  BY MergedPerson
<1>5. \A i \in DOMAIN inc.affiliations : inc.affiliations[i].spelling # Absent
  BY ClearSpelled
<1>6. /\ as \in Seq(Affiliations)
      /\ \A i \in DOMAIN as : as[i].spelling # Absent
      /\ \A i \in DOMAIN inc.affiliations : Worded(as, inc.affiliations[i].spelling)
  BY <1>1, <1>5, UnionKeeps, UnionSpelled, UnionWorded DEF Clear
<1>7. /\ rest \in Seq(Identifiers)
      /\ \A i \in DOMAIN rest : rest[i] \notin ToSet(inc.ids)
  BY <1>1, WithoutMembers
<1> HIDE DEF as, rest, m
<1>8. UnionAffiliations(as, inc.affiliations) = as
  BY <1>1, <1>5, <1>6, UnionAgain
<1>9. \A i \in DOMAIN inc.ids : inc.ids[i] \in ToSet(inc.ids)
  BY DEF ToSet
<1>10. Without(inc.ids \o rest, ToSet(inc.ids)) = rest
  BY <1>1, <1>7, <1>9, WithoutFirst
<1>11. m.name = inc.name /\ m.ids = inc.ids \o rest /\ m.affiliations = as
  BY <1>3
<1>12. MergePerson(m, inc) =
         [name |-> inc.name, ids |-> inc.ids \o Without(m.ids, ToSet(inc.ids)),
          affiliations |-> UnionAffiliations(m.affiliations, inc.affiliations)]
  BY <1>2, <1>4
<1>13. MergePerson(m, inc) = m
  BY <1>3, <1>8, <1>10, <1>11, <1>12
<1> QED
  BY <1>6, <1>11, <1>13 DEF m

\* Nor does it to merge a person that was appended.
LEMMA MergeNew ==
    ASSUME NEW inc \in Persons, Clear(inc)
    PROVE  MergePerson(inc, inc) = inc
<1>1. /\ inc.ids \in Seq(Identifiers) /\ inc.affiliations \in Seq(Affiliations)
      /\ inc = [name |-> inc.name, ids |-> inc.ids, affiliations |-> inc.affiliations]
  BY PersonParts
<1>2. \A i \in DOMAIN inc.affiliations : /\ inc.affiliations[i].spelling # Absent
                                         /\ Worded(inc.affiliations, inc.affiliations[i].spelling)
  BY ClearSpelled DEF Worded
<1>3. UnionAffiliations(inc.affiliations, inc.affiliations) = inc.affiliations
  BY <1>1, <1>2, UnionAgain
<1>4. \A i \in DOMAIN inc.ids : inc.ids[i] \in ToSet(inc.ids)
  BY DEF ToSet
<1>5. Without(inc.ids, ToSet(inc.ids)) = <<>>
  BY <1>1, <1>4, WithoutAll
<1>6. inc.ids \o <<>> = inc.ids
  BY <1>1, ConcatEmptySeq
<1>7. MergePerson(inc, inc) = [inc EXCEPT !.affiliations = inc.affiliations, !.ids = inc.ids]
  BY <1>3, <1>5, <1>6 DEF MergePerson
<1> QED
  BY <1>1, <1>7

\* n is the last of the entry who match i alone.
LastMatch(cur, inc, i, n) ==
  /\ n \in DOMAIN inc /\ Matches(cur, inc[n]) = {i}
  /\ \A o \in DOMAIN inc : Matches(cur, inc[o]) = {i} => o <= n

\* Those of the entry whom nobody matches.
Unmatched(cur, inc) == Without(inc, {p \in ToSet(inc) : Matches(cur, p) # {}})

\* Everyone is as before if matched by nobody alone, or merged with the last who does;
\* without strict, those whom nobody matches follow.
LEMMA MergedExactly ==
    ASSUME NEW cur \in Seq(Persons), NEW inc \in Seq(Persons), NEW strict \in BOOLEAN
    PROVE  LET m == MergePeople(cur, inc, strict) IN
           /\ m \in Seq(Persons) /\ DOMAIN cur \subseteq DOMAIN m
           /\ strict => Len(m) = Len(cur)
           /\ ~strict => /\ Len(m) = Len(cur) + Len(Unmatched(cur, inc))
                         /\ \A k \in DOMAIN Unmatched(cur, inc) :
                              m[Len(cur) + k] = Unmatched(cur, inc)[k]
           /\ \A i \in DOMAIN cur :
                \/ m[i] = cur[i] /\ \A n \in DOMAIN inc : Matches(cur, inc[n]) # {i}
                \/ \E n \in DOMAIN inc : /\ LastMatch(cur, inc, i, n)
                                         /\ m[i] = MergePerson(cur[i], inc[n])
<1> DEFINE of(i) == {n \in DOMAIN inc : Matches(cur, inc[n]) = {i}}
           last(i) == CHOOSE n \in of(i) : \A o \in of(i) : o <= n
           merged == [i \in DOMAIN cur |->
                        IF of(i) = {} THEN cur[i] ELSE MergePerson(cur[i], inc[last(i)])]
           new == Unmatched(cur, inc)
           m == MergePeople(cur, inc, strict)
<1>1. /\ Len(cur) \in Nat /\ DOMAIN cur = 1 .. Len(cur) /\ \A i \in DOMAIN cur : cur[i] \in Persons
      /\ Len(inc) \in Nat /\ DOMAIN inc = 1 .. Len(inc) /\ \A n \in DOMAIN inc : inc[n] \in Persons
  BY LenProperties, ElementOfSeq
<1>2. m = IF strict THEN merged ELSE merged \o new
  BY DEF MergePeople, Unmatched
<1>3. new \in Seq(Persons)
  BY WithoutMembers DEF Unmatched
<1> HIDE DEF m, new
<1>4. ASSUME NEW i \in DOMAIN cur
      PROVE  /\ merged[i] \in Persons
             /\ \/ merged[i] = cur[i] /\ \A n \in DOMAIN inc : Matches(cur, inc[n]) # {i}
                \/ \E n \in DOMAIN inc : /\ LastMatch(cur, inc, i, n)
                                         /\ merged[i] = MergePerson(cur[i], inc[n])
  <2>1. CASE of(i) = {}
    <3>1. merged[i] = cur[i]
      BY <2>1
    <3>2. \A n \in DOMAIN inc : Matches(cur, inc[n]) # {i}
      BY <2>1
    <3>3. merged[i] \in Persons
      BY <1>1, <3>1
    <3> HIDE DEF merged, of
    <3> QED
      BY <3>1, <3>2, <3>3
  <2>2. CASE of(i) # {}
    <3>1. of(i) \in SUBSET (1 .. Len(inc))
      BY <1>1
    <3>2. last(i) \in of(i) /\ \A o \in of(i) : o <= last(i)
      <4>1. \E n \in of(i) : \A o \in of(i) : o <= n
        <5> HIDE DEF of
        <5> QED
          BY <1>1, <2>2, <3>1, GreatestNumber
      <4> HIDE DEF of
      <4> QED
        BY <4>1
    <3> HIDE DEF last
    <3>3. last(i) \in DOMAIN inc /\ LastMatch(cur, inc, i, last(i))
      BY <3>2 DEF LastMatch
    <3>4. merged[i] = MergePerson(cur[i], inc[last(i)])
      BY <2>2
    <3>5. merged[i] \in Persons
      <4> HIDE DEF merged
      <4> QED
        BY <1>1, <3>3, <3>4, MergedPerson
    <3> HIDE DEF merged, of
    <3> QED
      BY <3>3, <3>4, <3>5
  <2> QED
    BY <2>1, <2>2
<1>5. DOMAIN merged = 1 .. Len(cur)
  BY <1>1
<1>6. merged \in Seq(Persons) /\ Len(merged) = Len(cur)
  <2>1. merged = [i \in 1 .. Len(cur) |-> merged[i]]
    BY <1>1
  <2> HIDE DEF merged
  <2>2. merged \in [1 .. Len(cur) -> Persons]
    BY <1>1, <1>4, <2>1
  <2>3. merged \in Seq(Persons)
    BY <1>1, <2>2, SeqDef
  <2> QED
    BY <1>1, <1>5, <2>3, LenProperties
<1> HIDE DEF merged
<1>7. CASE strict
  <2>1. m = merged
    BY <1>2, <1>7
  <2>2. m \in Seq(Persons) /\ Len(m) = Len(cur) /\ DOMAIN cur \subseteq DOMAIN m
    BY <1>1, <1>5, <1>6, <2>1
  <2>3. \A i \in DOMAIN cur :
          \/ m[i] = cur[i] /\ \A n \in DOMAIN inc : Matches(cur, inc[n]) # {i}
          \/ \E n \in DOMAIN inc : /\ LastMatch(cur, inc, i, n)
                                   /\ m[i] = MergePerson(cur[i], inc[n])
    BY <1>4, <2>1
  <2> QED
    BY <1>7, <2>2, <2>3 DEF m
<1>8. CASE ~strict
  <2>1. m = merged \o new
    BY <1>2, <1>8
  <2>2. Len(new) \in Nat /\ DOMAIN new = 1 .. Len(new)
    BY <1>3, LenProperties
  <2>3. /\ m \in Seq(Persons) /\ Len(m) = Len(cur) + Len(new)
        /\ \A i \in 1 .. Len(cur) + Len(new) :
             m[i] = IF i <= Len(cur) THEN merged[i] ELSE new[i - Len(cur)]
    BY <1>3, <1>6, <2>1, ConcatProperties
  <2>4. DOMAIN m = 1 .. Len(cur) + Len(new)
    BY <2>3, LenProperties
  <2>5. \A i \in DOMAIN cur : i \in DOMAIN m /\ m[i] = merged[i]
    BY <1>1, <2>2, <2>3, <2>4
  <2>6. \A k \in DOMAIN new : /\ Len(cur) + k \in 1 .. Len(cur) + Len(new)
                              /\ ~(Len(cur) + k <= Len(cur)) /\ (Len(cur) + k) - Len(cur) = k
    BY <1>1, <2>2
  <2>7. \A k \in DOMAIN new : m[Len(cur) + k] = new[k]
    BY <2>3, <2>6
  <2>8. \A i \in DOMAIN cur :
          \/ m[i] = cur[i] /\ \A n \in DOMAIN inc : Matches(cur, inc[n]) # {i}
          \/ \E n \in DOMAIN inc : /\ LastMatch(cur, inc, i, n)
                                   /\ m[i] = MergePerson(cur[i], inc[n])
    BY <1>4, <2>5
  <2>9. DOMAIN cur \subseteq DOMAIN m
    BY <2>5
  <2> QED
    BY <1>8, <2>3, <2>7, <2>8, <2>9 DEF m, new
<1> QED
  BY <1>7, <1>8

\* Nobody is dropped or moved: everyone is as before, or merged with somebody of the
\* entry who matches that one alone.
LEMMA MergedPeople ==
    ASSUME NEW cur \in Seq(Persons), NEW inc \in Seq(Persons), NEW strict \in BOOLEAN
    PROVE  LET m == MergePeople(cur, inc, strict) IN
           /\ m \in Seq(Persons) /\ DOMAIN cur \subseteq DOMAIN m
           /\ strict => Len(m) = Len(cur)
           /\ \A i \in DOMAIN cur :
                \/ m[i] = cur[i]
                \/ \E n \in DOMAIN inc : /\ Matches(cur, inc[n]) = {i}
                                         /\ m[i] = MergePerson(cur[i], inc[n])
<1> DEFINE m == MergePeople(cur, inc, strict)
<1>1. /\ m \in Seq(Persons) /\ DOMAIN cur \subseteq DOMAIN m
      /\ strict => Len(m) = Len(cur)
      /\ \A i \in DOMAIN cur :
           \/ m[i] = cur[i] /\ \A n \in DOMAIN inc : Matches(cur, inc[n]) # {i}
           \/ \E n \in DOMAIN inc : /\ LastMatch(cur, inc, i, n)
                                    /\ m[i] = MergePerson(cur[i], inc[n])
  BY MergedExactly
<1> HIDE DEF m
<1>2. ASSUME NEW i \in DOMAIN cur
      PROVE  \/ m[i] = cur[i]
             \/ \E n \in DOMAIN inc : /\ Matches(cur, inc[n]) = {i}
                                      /\ m[i] = MergePerson(cur[i], inc[n])
  BY <1>1 DEF LastMatch
<1> QED
  BY <1>1, <1>2 DEF m

-----------------------------------------------------------------------------
(* What is read from the repository                                        *)

\* Every affiliation has a spelling.
Proper(people) ==
  \A i \in DOMAIN people : \A j \in DOMAIN people[i].affiliations :
    people[i].affiliations[j].spelling # Absent

\* Reading a record moves nobody, leaves names, identifiers and every affiliation
\* that is spelled, and gives each affiliation a spelling.
LEMMA Dereferencing ==
    ASSUME NEW people \in Seq(Persons)
    PROVE  LET read == Dereference(people) IN
           /\ read \in Seq(Persons) /\ Len(read) = Len(people) /\ DOMAIN read = DOMAIN people
           /\ Proper(read)
           /\ \A i \in DOMAIN people :
                /\ read[i].ids = people[i].ids /\ read[i].name = people[i].name
                /\ (\A j \in DOMAIN people[i].affiliations :
                      people[i].affiliations[j].spelling # Absent) => read[i] = people[i]
                /\ \A name \in STRING : Spelled(people[i].affiliations, name) =>
                                          Spelled(read[i].affiliations, name)
<1> DEFINE read == Dereference(people)
           list(i) == [j \in DOMAIN people[i].affiliations |->
                         Dereferenced(people[i].affiliations[j])]
<1>1. /\ Len(people) \in Nat /\ DOMAIN people = 1 .. Len(people)
      /\ \A i \in DOMAIN people : people[i] \in Persons
  BY LenProperties, ElementOfSeq
<1>2. ASSUME NEW i \in DOMAIN people
      PROVE  /\ list(i) \in Seq(Affiliations)
             /\ \A j \in DOMAIN list(i) : list(i)[j].spelling # Absent
             /\ (\A j \in DOMAIN people[i].affiliations :
                   people[i].affiliations[j].spelling # Absent) => list(i) = people[i].affiliations
             /\ \A name \in STRING : Spelled(people[i].affiliations, name) =>
                                       Spelled(list(i), name)
  <2> DEFINE as == people[i].affiliations
             new == [j \in DOMAIN as |-> Dereferenced(as[j])]
  <2>1. as \in Seq(Affiliations)
    BY <1>1, PersonParts
  <2> HIDE DEF as
  <2>2. /\ Len(as) \in Nat /\ DOMAIN as = 1 .. Len(as)
        /\ \A j \in DOMAIN as : as[j] \in Affiliations
    BY <2>1, LenProperties, ElementOfSeq
  <2>3. ASSUME NEW a \in Affiliations
        PROVE  /\ Dereferenced(a) \in Affiliations /\ Dereferenced(a).spelling # Absent
               /\ a.spelling # Absent => Dereferenced(a) = a
    <3>1. /\ a = [id |-> a.id, name |-> a.name, spelling |-> a.spelling]
          /\ a.id \in Spellings /\ (a.id # Absent \/ a.spelling # Absent)
          /\ Normalized[a.id] \in STRING
      BY AffiliationParts, NormalizedAssumption
    <3>2. CASE a.spelling # Absent
      BY <3>2 DEF Dereferenced
    <3>3. CASE a.spelling = Absent
      <4>1. Dereferenced(a) = [id |-> a.id, name |-> Normalized[a.id], spelling |-> a.id]
        BY <3>1, <3>3 DEF Dereferenced
      <4> QED
        BY <3>1, <3>3, <4>1 DEF Affiliations
    <3> QED
      BY <3>2, <3>3
  <2>4. DOMAIN new = DOMAIN as /\ \A j \in DOMAIN as : new[j] = Dereferenced(as[j])
    OBVIOUS
  <2>5. new \in Seq(Affiliations)
    <3>1. new = [j \in 1 .. Len(as) |-> new[j]]
      BY <2>2
    <3> HIDE DEF new
    <3>2. \A j \in 1 .. Len(as) : new[j] \in Affiliations
      BY <2>2, <2>3, <2>4
    <3>3. new \in [1 .. Len(as) -> Affiliations]
      BY <3>1, <3>2
    <3>4. Len(as) \in Nat
      BY <2>2
    <3> QED
      BY <3>3, <3>4, SeqDef
  <2> HIDE DEF new
  <2>6. \A j \in DOMAIN new : new[j].spelling # Absent
    <3> TAKE j \in DOMAIN new
    <3>1. as[j] \in Affiliations /\ new[j] = Dereferenced(as[j])
      BY <2>2, <2>4
    <3> QED
      BY <2>3, <3>1
  <2>7. \A name \in STRING : Spelled(as, name) => Spelled(new, name)
    <3>1. \A j \in DOMAIN as : as[j].spelling # Absent => new[j] = as[j]
      BY <2>2, <2>3, <2>4
    <3> QED
      BY <2>4, <3>1 DEF Spelled
  <2>8. (\A j \in DOMAIN as : as[j].spelling # Absent) => new = as
    <3> SUFFICES ASSUME \A j \in DOMAIN as : as[j].spelling # Absent PROVE new = as
      OBVIOUS
    <3>1. \A j \in 1 .. Len(as) : Dereferenced(as[j]) = as[j]
      BY <2>2, <2>3
    <3>2. as = [j \in 1 .. Len(as) |-> as[j]] /\ new = [j \in 1 .. Len(as) |-> Dereferenced(as[j])]
      BY <2>1, <2>2, LenProperties DEF new
    <3> QED
      BY <3>1, <3>2
  <2>9. new = list(i)
    BY DEF new, as
  <2> HIDE DEF list
  <2> QED
    BY <2>5, <2>6, <2>7, <2>8, <2>9 DEF as
<1>3. read = [i \in DOMAIN people |-> [people[i] EXCEPT !.affiliations = list(i)]]
  BY DEF Dereference
<1> HIDE DEF read, list
<1>4. ASSUME NEW i \in DOMAIN people
      PROVE  read[i] = [name |-> people[i].name, ids |-> people[i].ids, affiliations |-> list(i)]
  <2>1. people[i] = [name |-> people[i].name, ids |-> people[i].ids,
                     affiliations |-> people[i].affiliations]
    BY <1>1, PersonParts
  <2>2. read[i] = [people[i] EXCEPT !.affiliations = list(i)]
    BY <1>3
  <2> QED
    BY <2>1, <2>2
<1>5. DOMAIN read = DOMAIN people
  BY <1>3
<1>6. ASSUME NEW i \in DOMAIN people
      PROVE  read[i] \in Persons
  <2>1. people[i].name \in STRING /\ people[i].ids \in Seq(Identifiers)
    BY <1>1, PersonParts
  <2>2. list(i) \in Seq(Affiliations)
    BY <1>2
  <2> QED
    BY <1>4, <2>1, <2>2, PersonMade
<1>7. read \in Seq(Persons)
  <2>1. read = [i \in 1 .. Len(people) |-> read[i]]
    BY <1>1, <1>3
  <2>2. read \in [1 .. Len(people) -> Persons]
    BY <1>1, <1>6, <2>1
  <2> QED
    BY <1>1, <2>2, SeqDef
<1>8. Len(read) = Len(people)
  BY <1>1, <1>5, <1>7, LenProperties
<1>9. Proper(read)
  BY <1>2, <1>4, <1>5 DEF Proper
<1>10. \A i \in DOMAIN people :
         /\ read[i].ids = people[i].ids /\ read[i].name = people[i].name
         /\ (\A j \in DOMAIN people[i].affiliations :
               people[i].affiliations[j].spelling # Absent) => read[i] = people[i]
         /\ \A name \in STRING : Spelled(people[i].affiliations, name) =>
                                   Spelled(read[i].affiliations, name)
  <2> TAKE i \in DOMAIN people
  <2>1. read[i] = [name |-> people[i].name, ids |-> people[i].ids, affiliations |-> list(i)]
    BY <1>4
  <2>2. /\ read[i].ids = people[i].ids /\ read[i].name = people[i].name
        /\ read[i].affiliations = list(i)
    BY <2>1
  <2>3. people[i] = [name |-> people[i].name, ids |-> people[i].ids,
                     affiliations |-> people[i].affiliations]
    BY <1>1, PersonParts
  <2> QED
    BY <1>2, <2>1, <2>2, <2>3
<1> QED
  BY <1>5, <1>7, <1>8, <1>9, <1>10 DEF read

\* What the people of a list are after a harvest: all there, where they were, with
\* their identifiers and the names of their affiliations.
LEMMA HarvestedPeople ==
    ASSUME NEW cur \in Seq(Persons), NEW inc \in Seq(Persons), NEW strict \in BOOLEAN,
           Proper(cur)
    PROVE  LET new == Dereference(MergePeople(cur, inc, strict)) IN
           /\ new \in Seq(Persons) /\ Proper(new) /\ DOMAIN cur \subseteq DOMAIN new
           /\ strict => Len(new) = Len(cur)
           /\ \A i \in DOMAIN cur :
                /\ ToSet(cur[i].ids) \subseteq ToSet(new[i].ids)
                /\ NamesOf(cur, i) \subseteq NamesOf(new, i)
<1> DEFINE m == MergePeople(cur, inc, strict)
           new == Dereference(m)
<1>1. /\ m \in Seq(Persons) /\ DOMAIN cur \subseteq DOMAIN m
      /\ strict => Len(m) = Len(cur)
      /\ \A i \in DOMAIN cur :
           \/ m[i] = cur[i]
           \/ \E n \in DOMAIN inc : /\ Matches(cur, inc[n]) = {i}
                                    /\ m[i] = MergePerson(cur[i], inc[n])
  BY MergedPeople
<1>2. /\ \A i \in DOMAIN cur : cur[i] \in Persons
      /\ \A n \in DOMAIN inc : inc[n] \in Persons
  BY ElementOfSeq, LenProperties
<1> HIDE DEF m
<1>3. /\ new \in Seq(Persons) /\ Len(new) = Len(m) /\ DOMAIN new = DOMAIN m
      /\ Proper(new)
      /\ \A i \in DOMAIN m :
           /\ new[i].ids = m[i].ids
           /\ \A name \in STRING : Spelled(m[i].affiliations, name) =>
                                     Spelled(new[i].affiliations, name)
  BY <1>1, Dereferencing
<1> HIDE DEF new
<1>4. ASSUME NEW i \in DOMAIN cur
      PROVE  /\ ToSet(cur[i].ids) \subseteq ToSet(m[i].ids)
             /\ \A name \in STRING : Spelled(cur[i].affiliations, name) =>
                                       Spelled(m[i].affiliations, name)
  <2>1. CASE m[i] = cur[i]
    BY <2>1
  <2>2. CASE \E n \in DOMAIN inc : m[i] = MergePerson(cur[i], inc[n])
    <3>1. PICK n \in DOMAIN inc : m[i] = MergePerson(cur[i], inc[n])
      BY <2>2
    <3> QED
      BY <1>2, <3>1, MergedPerson
  <2> QED
    BY <1>1, <2>1, <2>2
<1>5. ASSUME NEW i \in DOMAIN cur
      PROVE  NamesOf(cur, i) \subseteq NamesOf(new, i)
  <2>1. cur[i].affiliations \in Seq(Affiliations)
    BY <1>2, PersonParts
  <2> SUFFICES ASSUME NEW name \in NamesOf(cur, i) PROVE name \in NamesOf(new, i)
    OBVIOUS
  <2>2. PICK j \in DOMAIN cur[i].affiliations : cur[i].affiliations[j].name = name
    BY DEF NamesOf, ToSet
  <2>3. cur[i].affiliations[j] \in Affiliations
    BY <2>1, <2>2, ElementOfSeq, LenProperties
  <2>4. name \in STRING /\ Spelled(cur[i].affiliations, name)
    BY <2>2, <2>3, AffiliationParts DEF Proper, Spelled
  <2>5. i \in DOMAIN m
    BY <1>1
  <2>6. Spelled(new[i].affiliations, name)
    BY <1>3, <1>4, <2>4, <2>5
  <2> QED
    BY <2>6 DEF Spelled, NamesOf, ToSet
<1>6. \A i \in DOMAIN cur : ToSet(cur[i].ids) \subseteq ToSet(new[i].ids)
  BY <1>1, <1>3, <1>4
<1> QED
  BY <1>1, <1>3, <1>5, <1>6 DEF new, m

-----------------------------------------------------------------------------
(* People who are harvested again                                          *)

\* The identifiers of a person that somebody of the list has.
Known(cur, p) == {n \in DOMAIN p.ids : With(cur, p.ids[n]) # {}}

\* There is a first one.
LEMMA FirstKnown ==
    ASSUME NEW cur, NEW p \in Persons, Known(cur, p) # {}
    PROVE  \E n \in Known(cur, p) : \A o \in Known(cur, p) : n <= o
<1>1. p.ids \in Seq(Identifiers)
  BY PersonParts
<1>2. DOMAIN p.ids \in SUBSET Nat
  BY <1>1, LenProperties
<1>3. Known(cur, p) \in SUBSET Nat
  BY <1>2 DEF Known
<1> QED
  BY <1>3, LeastNumber

\* Who has it matches the person.
LEMMA MatchesById ==
    ASSUME NEW cur, NEW p \in Persons, NEW n \in Known(cur, p),
           \A o \in Known(cur, p) : n <= o
    PROVE  Matches(cur, p) = With(cur, p.ids[n])
<1> DEFINE known == {k \in DOMAIN p.ids : With(cur, p.ids[k]) # {}}
           first == CHOOSE k \in known : \A m \in known : k <= m
<1>1. known = Known(cur, p)
  BY DEF Known
<1>2. p.ids \in Seq(Identifiers)
  BY PersonParts
<1>3. known \in SUBSET Nat
  BY <1>2, LenProperties
<1>4. known # {} /\ n \in known /\ \A m \in known : n <= m
  BY <1>1
<1>5. Matches(cur, p) = With(cur, p.ids[first])
  BY <1>4 DEF Matches
<1> HIDE DEF known
<1>6. first \in known /\ \A m \in known : first <= m
  BY <1>4
<1> HIDE DEF first
<1>7. first = n
  BY <1>3, <1>4, <1>6
<1> QED
  BY <1>5, <1>7

\* Otherwise those of the same name, who have no identifier of the same scheme.
LEMMA MatchesByName ==
    ASSUME NEW cur, NEW p, Known(cur, p) = {}
    PROVE  Matches(cur, p) = {i \in Named(cur, p.name) : Schemes(cur[i]) \cap Schemes(p) = {}}
BY DEF Known, Matches

\* In any case they are of the list.
LEMMA MatchesListed ==
    ASSUME NEW cur, NEW p \in Persons
    PROVE  Matches(cur, p) \subseteq DOMAIN cur
<1>1. CASE Known(cur, p) = {}
  <2>1. Named(cur, p.name) \subseteq DOMAIN cur
    BY DEF Named
  <2> QED
    BY <1>1, <2>1, MatchesByName
<1>2. CASE Known(cur, p) # {}
  <2>1. PICK n \in Known(cur, p) : \A o \in Known(cur, p) : n <= o
    BY <1>2, FirstKnown
  <2>2. Matches(cur, p) = With(cur, p.ids[n])
    BY <2>1, MatchesById
  <2> QED
    BY <2>2 DEF With
<1> QED
  BY <1>1, <1>2

\* What Regular says of a list of people of an entry: names and identifiers tell them
\* apart, and so do names the affiliations of each.
Plain(list) ==
  /\ Distinct(list)
  /\ \A i, j \in DOMAIN list : ToSet(list[i].ids) \cap ToSet(list[j].ids) # {} => i = j
  /\ \A i \in DOMAIN list : Clear(list[i])

\* Person i of the list is as before, and no one of the entry matches that one alone.
Kept(cur, inc, new, i) ==
  i \in DOMAIN cur /\ new[i] = cur[i] /\ \A n \in DOMAIN inc : Matches(cur, inc[n]) # {i}

\* Person i of the list is what became of person n of the entry, merged or appended.
From(cur, inc, new, i, n) ==
  /\ n \in DOMAIN inc /\ new[i].name = inc[n].name /\ MergePerson(new[i], inc[n]) = new[i]
  /\ ToSet(inc[n].ids) \subseteq ToSet(new[i].ids)
  /\ i \in DOMAIN cur => LastMatch(cur, inc, i, n)
  /\ i \notin DOMAIN cur => Matches(cur, inc[n]) = {}
  /\ \A x \in ToSet(new[i].ids) :
       x \in ToSet(inc[n].ids) \/ (i \in DOMAIN cur /\ x \in ToSet(cur[i].ids))

\* The list is the first one with the entry merged into it: every person is one or the
\* other, nobody of the entry is there twice, and no identifier is lost.
Merges(cur, inc, new) ==
  /\ new \in Seq(Persons) /\ DOMAIN cur \subseteq DOMAIN new
  /\ \A i \in DOMAIN new :
       Kept(cur, inc, new, i) \/ \E n \in DOMAIN inc : From(cur, inc, new, i, n)
  /\ \A i, j \in DOMAIN new : \A n \in DOMAIN inc :
       From(cur, inc, new, i, n) /\ From(cur, inc, new, j, n) => i = j
  /\ \A i \in DOMAIN cur : ToSet(cur[i].ids) \subseteq ToSet(new[i].ids)

\* So is the list that is read after a harvest, where those whom nobody matched follow
\* without strict.
LEMMA Origins ==
    ASSUME NEW cur \in Seq(Persons), NEW inc \in Seq(Persons), NEW strict \in BOOLEAN,
           Proper(cur), Plain(inc)
    PROVE  LET new == Dereference(MergePeople(cur, inc, strict)) IN
           /\ Merges(cur, inc, new)
           /\ strict => DOMAIN new = DOMAIN cur
           /\ ~strict => \A n \in DOMAIN inc : Matches(cur, inc[n]) = {} =>
                           \E i \in DOMAIN new : From(cur, inc, new, i, n)
<1> DEFINE m == MergePeople(cur, inc, strict)
           new == Dereference(m)
           rest == Unmatched(cur, inc)
           L == Len(cur)
<1>1. /\ L \in Nat /\ DOMAIN cur = 1 .. L /\ \A i \in DOMAIN cur : cur[i] \in Persons
      /\ Len(inc) \in Nat /\ DOMAIN inc = 1 .. Len(inc) /\ \A n \in DOMAIN inc : inc[n] \in Persons
  BY LenProperties, ElementOfSeq
<1>2. /\ rest \in Seq(Persons)
      /\ \A k \in DOMAIN rest : \E n \in DOMAIN inc : rest[k] = inc[n] /\ Matches(cur, inc[n]) = {}
      /\ \A n \in DOMAIN inc : Matches(cur, inc[n]) = {} => \E k \in DOMAIN rest : rest[k] = inc[n]
      /\ \A k, o \in DOMAIN rest : rest[k] = rest[o] => k = o
  <2> DEFINE dropped == {p \in ToSet(inc) : Matches(cur, p) # {}}
  <2>1. /\ rest \in Seq(Persons) /\ \A k \in DOMAIN rest : rest[k] \in ToSet(inc) \ dropped
        /\ \A x \in ToSet(inc) \ dropped : x \in ToSet(rest)
    BY WithoutMembers DEF Unmatched
  <2>2. \A k, o \in DOMAIN rest : rest[k] = rest[o] => k = o
    <3>1. \A i, j \in DOMAIN inc : inc[i] = inc[j] => i = j
      BY DEF Plain, Distinct
    <3> QED
      BY <3>1, WithoutInjective DEF Unmatched
  <2> HIDE DEF rest
  <2>3. \A x \in ToSet(inc) \ dropped :
          \E n \in DOMAIN inc : x = inc[n] /\ Matches(cur, inc[n]) = {}
    BY DEF ToSet
  <2>4. \A n \in DOMAIN inc : Matches(cur, inc[n]) = {} => inc[n] \in ToSet(inc) \ dropped
    BY DEF ToSet
  <2>5. \A x \in ToSet(rest) : \E k \in DOMAIN rest : rest[k] = x
    BY DEF ToSet
  <2>6. \A k \in DOMAIN rest : \E n \in DOMAIN inc : rest[k] = inc[n] /\ Matches(cur, inc[n]) = {}
    BY <2>1, <2>3
  <2>7. \A n \in DOMAIN inc : Matches(cur, inc[n]) = {} => \E k \in DOMAIN rest : rest[k] = inc[n]
    BY <2>1, <2>4, <2>5
  <2> QED
    BY <2>1, <2>2, <2>6, <2>7
<1>3. /\ m \in Seq(Persons) /\ DOMAIN cur \subseteq DOMAIN m
      /\ strict => Len(m) = L
      /\ ~strict => Len(m) = L + Len(rest) /\ \A k \in DOMAIN rest : m[L + k] = rest[k]
      /\ \A i \in DOMAIN cur :
           \/ m[i] = cur[i] /\ \A n \in DOMAIN inc : Matches(cur, inc[n]) # {i}
           \/ \E n \in DOMAIN inc : LastMatch(cur, inc, i, n) /\ m[i] = MergePerson(cur[i], inc[n])
  BY MergedExactly
<1> HIDE DEF rest, m, L
<1>4. /\ new \in Seq(Persons) /\ DOMAIN new = DOMAIN m
      /\ \A i \in DOMAIN m :
           (\A j \in DOMAIN m[i].affiliations : m[i].affiliations[j].spelling # Absent)
             => new[i] = m[i]
  BY <1>3, Dereferencing
<1> HIDE DEF new
<1>5. Len(rest) \in Nat /\ DOMAIN rest = 1 .. Len(rest) /\ Len(m) \in Nat /\ DOMAIN m = 1 .. Len(m)
  BY <1>2, <1>3, LenProperties
<1>6. ASSUME NEW i \in DOMAIN cur
      PROVE  /\ Kept(cur, inc, new, i) \/ \E n \in DOMAIN inc : From(cur, inc, new, i, n)
             /\ ToSet(cur[i].ids) \subseteq ToSet(new[i].ids)
  <2>1. i \in DOMAIN m /\ cur[i] \in Persons
    BY <1>1, <1>3
  <2>2. \A j \in DOMAIN cur[i].affiliations : cur[i].affiliations[j].spelling # Absent
    BY DEF Proper
  <2>3. CASE m[i] = cur[i] /\ \A n \in DOMAIN inc : Matches(cur, inc[n]) # {i}
    <3>1. new[i] = cur[i]
      BY <1>4, <2>1, <2>2, <2>3
    <3> QED
      BY <2>3, <3>1 DEF Kept
  <2>4. CASE \E n \in DOMAIN inc : LastMatch(cur, inc, i, n) /\ m[i] = MergePerson(cur[i], inc[n])
    <3>1. PICK n \in DOMAIN inc : LastMatch(cur, inc, i, n) /\ m[i] = MergePerson(cur[i], inc[n])
      BY <2>4
    <3>2. inc[n] \in Persons /\ Clear(inc[n])
      BY <1>1 DEF Plain
    <3>3. /\ \A j \in DOMAIN m[i].affiliations : m[i].affiliations[j].spelling # Absent
          /\ m[i].name = inc[n].name /\ MergePerson(m[i], inc[n]) = m[i]
      BY <2>1, <2>2, <3>1, <3>2, MergeAgain
    <3>4. new[i] = m[i]
      BY <1>4, <2>1, <3>3
    <3>5. /\ ToSet(cur[i].ids) \subseteq ToSet(m[i].ids)
          /\ \A x \in ToSet(m[i].ids) : x \in ToSet(inc[n].ids) \/ x \in ToSet(cur[i].ids)
      BY <2>1, <3>1, <3>2, MergedPerson
    <3>6. ToSet(inc[n].ids) \subseteq ToSet(m[i].ids)
      BY <2>1, <3>1, <3>2, MergedPerson
    <3>7. From(cur, inc, new, i, n)
      BY <3>1, <3>3, <3>4, <3>5, <3>6 DEF From
    <3> QED
      BY <3>4, <3>5, <3>7
  <2> QED
    BY <1>3, <2>3, <2>4
<1>7. ASSUME ~strict, NEW k \in DOMAIN rest, NEW n \in DOMAIN inc,
             rest[k] = inc[n], Matches(cur, inc[n]) = {}
      PROVE  /\ L + k \in DOMAIN new /\ new[L + k] = inc[n]
             /\ From(cur, inc, new, L + k, n)
  <2>1. L + k \in DOMAIN m /\ L + k \notin DOMAIN cur
    BY <1>1, <1>3, <1>5, <1>7
  <2>2. m[L + k] = inc[n]
    BY <1>3, <1>7
  <2>3. inc[n] \in Persons /\ Clear(inc[n])
    BY <1>1 DEF Plain
  <2>4. new[L + k] = inc[n]
    BY <1>4, <2>1, <2>2, <2>3, ClearSpelled
  <2>5. MergePerson(inc[n], inc[n]) = inc[n]
    BY <2>3, MergeNew
  <2>6. From(cur, inc, new, L + k, n)
    BY <1>7, <2>1, <2>4, <2>5 DEF From
  <2> QED
    BY <1>4, <2>1, <2>4, <2>6
<1>8. ASSUME NEW i \in DOMAIN new, i \notin DOMAIN cur
      PROVE  /\ ~strict /\ i - L \in DOMAIN rest /\ L + (i - L) = i
             /\ \E n \in DOMAIN inc : rest[i - L] = inc[n] /\ Matches(cur, inc[n]) = {}
  <2>1. ~strict
    BY <1>1, <1>3, <1>4, <1>5, <1>8
  <2>2. Len(m) = L + Len(rest)
    BY <1>3, <2>1
  <2>3. i \in 1 .. Len(m) /\ ~(i \in 1 .. L)
    BY <1>1, <1>4, <1>5, <1>8
  <2>4. i - L \in 1 .. Len(rest) /\ L + (i - L) = i
    BY <1>1, <1>5, <2>2, <2>3
  <2> QED
    BY <1>2, <1>5, <2>1, <2>4
<1>9. \A i \in DOMAIN new :
        Kept(cur, inc, new, i) \/ \E n \in DOMAIN inc : From(cur, inc, new, i, n)
  <2> TAKE i \in DOMAIN new
  <2>1. CASE i \in DOMAIN cur
    BY <1>6, <2>1
  <2>2. CASE i \notin DOMAIN cur
    BY <1>7, <1>8, <2>2
  <2> QED
    BY <2>1, <2>2
<1>10. \A i, j \in DOMAIN new : \A n \in DOMAIN inc :
         From(cur, inc, new, i, n) /\ From(cur, inc, new, j, n) => i = j
  <2> SUFFICES ASSUME NEW i \in DOMAIN new, NEW j \in DOMAIN new, NEW n \in DOMAIN inc,
                      From(cur, inc, new, i, n), From(cur, inc, new, j, n)
               PROVE  i = j
    OBVIOUS
  <2>1. CASE i \in DOMAIN cur \/ j \in DOMAIN cur
    <3>1. PICK k \in {i, j} : k \in DOMAIN cur
      BY <2>1
    <3>2. Matches(cur, inc[n]) = {k}
      BY <3>1 DEF From, LastMatch
    <3>3. i \in DOMAIN cur /\ j \in DOMAIN cur
      BY <3>2 DEF From
    <3> QED
      BY <3>2, <3>3 DEF From, LastMatch
  <2>2. CASE i \notin DOMAIN cur /\ j \notin DOMAIN cur
    <3>1. ASSUME NEW k \in {i, j}
          PROVE  k - L \in DOMAIN rest /\ rest[k - L] = inc[n] /\ L + (k - L) = k
      <4>1. k \in DOMAIN new /\ k \notin DOMAIN cur /\ From(cur, inc, new, k, n)
        BY <2>2
      <4>2. ~strict /\ k - L \in DOMAIN rest /\ L + (k - L) = k
        BY <1>8, <4>1
      <4>3. PICK o \in DOMAIN inc : rest[k - L] = inc[o] /\ Matches(cur, inc[o]) = {}
        BY <1>8, <4>1
      <4>4. new[k] = inc[o]
        <5>1. new[L + (k - L)] = inc[o]
          BY <1>7, <4>2, <4>3
        <5> QED
          BY <4>2, <5>1
      <4>5. o = n
        BY <4>1, <4>4 DEF From, Plain, Distinct
      <4> QED
        BY <4>2, <4>3, <4>5
    <3>2. /\ i - L \in DOMAIN rest /\ rest[i - L] = inc[n] /\ L + (i - L) = i
          /\ j - L \in DOMAIN rest /\ rest[j - L] = inc[n] /\ L + (j - L) = j
      BY <3>1
    <3>3. i - L = j - L
      BY <1>2, <3>2
    <3> QED
      BY <3>2, <3>3
  <2> QED
    BY <2>1, <2>2
<1>11. Merges(cur, inc, new)
  BY <1>3, <1>4, <1>6, <1>9, <1>10 DEF Merges
<1>12. strict => DOMAIN new = DOMAIN cur
  BY <1>1, <1>3, <1>4, <1>5
<1>13. ~strict => \A n \in DOMAIN inc : Matches(cur, inc[n]) = {} =>
                    \E i \in DOMAIN new : From(cur, inc, new, i, n)
  <2> SUFFICES ASSUME ~strict, NEW n \in DOMAIN inc, Matches(cur, inc[n]) = {}
               PROVE  \E i \in DOMAIN new : From(cur, inc, new, i, n)
    OBVIOUS
  <2>1. PICK k \in DOMAIN rest : rest[k] = inc[n]
    BY <1>2
  <2> QED
    BY <1>7, <2>1
<1> QED
  BY <1>11, <1>12, <1>13 DEF new, m

\* Who matches a person of an entry that is not ambiguous is the only one.
LEMMA MatchesOne ==
    ASSUME NEW cur \in Seq(Persons), NEW inc \in Seq(Persons), ~Ambiguous(cur, inc),
           NEW n \in DOMAIN inc, NEW i \in Matches(cur, inc[n])
    PROVE  Matches(cur, inc[n]) = {i}
<1> DEFINE S == Matches(cur, inc[n])
<1>1. S \subseteq 1 .. Len(cur) /\ Len(cur) \in Nat
  BY MatchesListed, ElementOfSeq, LenProperties
<1>2. ~(Cardinality(S) > 1)
  BY DEF Ambiguous
<1> HIDE DEF S
<1>3. IsFiniteSet(S)
  <2>1. S \in SUBSET (1 .. Len(cur)) /\ 1 \in Int /\ Len(cur) \in Int
    BY <1>1
  <2>2. IsFiniteSet(1 .. Len(cur))
    BY <2>1, FS_Interval
  <2> QED
    BY <2>1, <2>2, FS_Subset
<1>4. Cardinality(S) \in Nat
  BY <1>3, FS_CardinalityType
<1>5. ASSUME NEW j \in S, j # i PROVE FALSE
  <2>1. /\ IsFiniteSet({i}) /\ Cardinality({i}) = 1
    BY FS_Singleton
  <2>2. Cardinality({i} \cup {j}) = 2
    <3>1. j \notin {i} /\ 1 + 1 = 2
      BY <1>5
    <3>2. Cardinality({i} \cup {j}) = IF j \in {i} THEN 1 ELSE 1 + 1
      BY <2>1, FS_AddElement
    <3> QED
      BY <3>1, <3>2
  <2>3. {i} \cup {j} \subseteq S
    BY <1>5 DEF S
  <2>4. Cardinality({i} \cup {j}) <= Cardinality(S)
    BY <1>3, <2>3, FS_Subset
  <2> QED
    BY <1>2, <1>4, <2>2, <2>4
<1>6. S = {i}
  BY <1>5 DEF S
<1> QED
  BY <1>6 DEF S

\* An entry whose people each match at most one is not ambiguous.
LEMMA NotAmbiguous ==
    ASSUME NEW cur \in Seq(Persons), NEW inc \in Seq(Persons),
           \A n \in DOMAIN inc : \A i, j \in Matches(cur, inc[n]) : i = j
    PROVE  ~Ambiguous(cur, inc)
<1> SUFFICES ASSUME NEW n \in DOMAIN inc PROVE ~(Cardinality(Matches(cur, inc[n])) > 1)
  BY DEF Ambiguous
<1>1. CASE Matches(cur, inc[n]) = {}
  BY <1>1, FS_EmptySet
<1>2. CASE Matches(cur, inc[n]) # {}
  <2>1. PICK i \in Matches(cur, inc[n]) : TRUE
    BY <1>2
  <2>2. Matches(cur, inc[n]) = {i}
    BY <2>1
  <2>3. Cardinality({i}) = 1
    BY FS_Singleton
  <2> QED
    BY <2>2, <2>3
<1> QED
  BY <1>1, <1>2

\* After a merge, an identifier of a person of the entry is with what became of that
\* one, or with whom it was before.
LEMMA HolderBefore ==
    ASSUME NEW cur \in Seq(Persons), NEW inc \in Seq(Persons), NEW new,
           Merges(cur, inc, new), Plain(inc), NEW n \in DOMAIN inc,
           NEW x \in ToSet(inc[n].ids), NEW j \in With(new, x), ~From(cur, inc, new, j, n)
    PROVE  j \in With(cur, x)
<1>1. j \in DOMAIN new /\ x \in ToSet(new[j].ids)
  BY DEF With
<1>2. CASE Kept(cur, inc, new, j)
  BY <1>1, <1>2 DEF Kept, With
<1>3. CASE \E o \in DOMAIN inc : From(cur, inc, new, j, o)
  <2>1. PICK o \in DOMAIN inc : From(cur, inc, new, j, o)
    BY <1>3
  <2>2. o # n
    BY <2>1
  <2>3. ToSet(inc[o].ids) \cap ToSet(inc[n].ids) = {}
    BY <2>2 DEF Plain
  <2>4. x \notin ToSet(inc[o].ids)
    BY <2>3
  <2>5. j \in DOMAIN cur /\ x \in ToSet(cur[j].ids)
    BY <1>1, <2>1, <2>4 DEF From
  <2> QED
    BY <2>5 DEF With
<1> QED
  BY <1>1, <1>2, <1>3 DEF Merges

\* And who has the name is that one, or somebody who is as before.
LEMMA NamesakeBefore ==
    ASSUME NEW cur \in Seq(Persons), NEW inc \in Seq(Persons), NEW new,
           Merges(cur, inc, new), Plain(inc), NEW n \in DOMAIN inc,
           NEW j \in Named(new, inc[n].name), ~From(cur, inc, new, j, n)
    PROVE  Kept(cur, inc, new, j)
<1>1. j \in DOMAIN new /\ new[j].name = inc[n].name
  BY DEF Named
<1>2. \A o \in DOMAIN inc : From(cur, inc, new, j, o) => o = n
  BY <1>1 DEF From, Plain, Distinct
<1> QED
  BY <1>1, <1>2 DEF Merges

\* Nobody has an identifier that is not there.
LEMMA NobodyKnown ==
    ASSUME NEW cur, NEW p \in Persons, DOMAIN p.ids = {}
    PROVE  Known(cur, p) = {} /\ Schemes(p) = {}
BY DEF Known, Schemes, ToSet

\* Harvested again, a person of the entry matches what became of it, alone.
LEMMA FoundAgain ==
    ASSUME NEW cur \in Seq(Persons), NEW inc \in Seq(Persons), NEW new,
           Merges(cur, inc, new), Plain(inc), ~Ambiguous(cur, inc),
           NEW i \in DOMAIN new, NEW n \in DOMAIN inc, From(cur, inc, new, i, n)
    PROVE  Matches(new, inc[n]) = {i}
<1> DEFINE p == inc[n]
<1>1. p \in Persons /\ p.ids \in Seq(Identifiers)
  BY ElementOfSeq, LenProperties, PersonParts
<1>2. Len(p.ids) \in Nat /\ DOMAIN p.ids = 1 .. Len(p.ids)
  BY <1>1, LenProperties
<1>3. \A j \in Matches(cur, p) : j = i
  BY MatchesOne DEF From, LastMatch
<1>4. \A j \in DOMAIN new : From(cur, inc, new, j, n) => j = i
  BY DEF Merges
<1>5. CASE DOMAIN p.ids # {}
  <2> DEFINE x == p.ids[1]
  <2>1. 1 \in DOMAIN p.ids /\ x \in ToSet(p.ids) /\ \A o \in DOMAIN p.ids : 1 <= o
    BY <1>2, <1>5 DEF ToSet
  <2>2. i \in With(new, x)
    BY <2>1 DEF From, With
  <2>3. 1 \in Known(new, p) /\ \A o \in Known(new, p) : 1 <= o
    BY <2>1, <2>2 DEF Known
  <2>4. Matches(new, p) = With(new, x)
    BY <1>1, <2>3, MatchesById
  <2>5. ASSUME NEW j \in With(new, x), j # i PROVE FALSE
    <3>1. j \in DOMAIN new
      BY <2>5 DEF With
    <3>2. ~From(cur, inc, new, j, n)
      BY <1>4, <2>5, <3>1
    <3>3. j \in With(cur, x)
      BY <2>1, <2>5, <3>2, HolderBefore
    <3>4. 1 \in Known(cur, p) /\ \A o \in Known(cur, p) : 1 <= o
      BY <2>1, <3>3 DEF Known
    <3>5. Matches(cur, p) = With(cur, x)
      BY <1>1, <3>4, MatchesById
    <3> QED
      BY <1>3, <2>5, <3>3, <3>5
  <2> HIDE DEF x
  <2> QED
    BY <2>2, <2>4, <2>5
<1>6. CASE DOMAIN p.ids = {}
  <2>1. Known(new, p) = {} /\ Known(cur, p) = {} /\ Schemes(p) = {}
    BY <1>1, <1>6, NobodyKnown
  <2>2. Matches(new, p) = Named(new, p.name) /\ Matches(cur, p) = Named(cur, p.name)
    <3>1. /\ Matches(new, p) =
               {j \in Named(new, p.name) : Schemes(new[j]) \cap Schemes(p) = {}}
          /\ Matches(cur, p) =
               {j \in Named(cur, p.name) : Schemes(cur[j]) \cap Schemes(p) = {}}
      BY <2>1, MatchesByName
    <3> QED
      BY <2>1, <3>1
  <2>3. i \in Named(new, p.name)
    BY DEF From, Named
  <2>4. ASSUME NEW j \in Named(new, p.name), j # i PROVE FALSE
    <3>1. j \in DOMAIN new
      BY <2>4 DEF Named
    <3>2. ~From(cur, inc, new, j, n)
      BY <1>4, <2>4, <3>1
    <3>3. Kept(cur, inc, new, j)
      BY <2>4, <3>2, NamesakeBefore
    <3>4. j \in Named(cur, p.name)
      BY <2>4, <3>3 DEF Kept, Named
    <3> QED
      BY <1>3, <2>2, <2>4, <3>4
  <2> QED
    BY <2>2, <2>3, <2>4
<1> QED
  BY <1>5, <1>6

\* A person of the entry that was not merged matches nobody new: those who have its
\* identifiers, or of its name some who are as before.
LEMMA OthersAgain ==
    ASSUME NEW cur \in Seq(Persons), NEW inc \in Seq(Persons), NEW new,
           Merges(cur, inc, new), Plain(inc), NEW n \in DOMAIN inc,
           \A i \in DOMAIN new : ~From(cur, inc, new, i, n)
    PROVE  /\ Matches(new, inc[n]) \subseteq Matches(cur, inc[n])
           /\ Known(cur, inc[n]) # {} => Matches(new, inc[n]) = Matches(cur, inc[n])
           /\ Known(cur, inc[n]) = {} => \A i \in Matches(new, inc[n]) : Kept(cur, inc, new, i)
<1> DEFINE p == inc[n]
<1>1. p \in Persons
  BY ElementOfSeq, LenProperties
<1>2. \A x \in ToSet(p.ids) : With(new, x) = With(cur, x)
  <2> TAKE x \in ToSet(p.ids)
  <2>1. \A j \in With(new, x) : j \in DOMAIN new
    BY DEF With
  <2>2. \A j \in With(new, x) : j \in With(cur, x)
    BY <2>1, HolderBefore
  <2>3. \A j \in With(cur, x) : j \in With(new, x)
    BY DEF With, Merges
  <2> QED
    BY <2>2, <2>3
<1>3. \A k \in DOMAIN p.ids : p.ids[k] \in ToSet(p.ids)
  BY DEF ToSet
<1>4. Known(new, p) = Known(cur, p)
  <2>1. \A k \in DOMAIN p.ids : With(new, p.ids[k]) = With(cur, p.ids[k])
    BY <1>2, <1>3
  <2> QED
    BY <2>1 DEF Known
<1>5. CASE Known(cur, p) # {}
  <2>1. PICK k \in Known(cur, p) : \A o \in Known(cur, p) : k <= o
    BY <1>1, <1>5, FirstKnown
  <2>2. Matches(cur, p) = With(cur, p.ids[k])
    BY <1>1, <2>1, MatchesById
  <2>3. Matches(new, p) = With(new, p.ids[k])
    BY <1>1, <1>4, <2>1, MatchesById
  <2>4. k \in DOMAIN p.ids
    BY <2>1 DEF Known
  <2>5. Matches(new, p) = Matches(cur, p)
    BY <1>2, <1>3, <2>2, <2>3, <2>4
  <2> QED
    BY <1>5, <2>5
<1>6. CASE Known(cur, p) = {}
  <2>1. /\ Matches(new, p) = {j \in Named(new, p.name) : Schemes(new[j]) \cap Schemes(p) = {}}
        /\ Matches(cur, p) = {j \in Named(cur, p.name) : Schemes(cur[j]) \cap Schemes(p) = {}}
    BY <1>4, <1>6, MatchesByName
  <2>2. ASSUME NEW i \in Matches(new, p)
        PROVE  Kept(cur, inc, new, i) /\ i \in Matches(cur, p)
    <3>1. i \in Named(new, p.name) /\ Schemes(new[i]) \cap Schemes(p) = {}
      BY <2>1, <2>2
    <3>2. i \in DOMAIN new /\ new[i].name = p.name
      BY <3>1 DEF Named
    <3>3. Kept(cur, inc, new, i)
      BY <3>1, <3>2, NamesakeBefore
    <3>4. i \in DOMAIN cur /\ new[i] = cur[i]
      BY <3>3 DEF Kept
    <3>5. i \in Named(cur, p.name)
      BY <3>2, <3>4 DEF Named
    <3> QED
      BY <2>1, <3>1, <3>3, <3>4, <3>5
  <2> QED
    BY <1>6, <2>2
<1> QED
  BY <1>5, <1>6

\* The last who matches somebody alone, harvested again, is the one merged before.
LEMMA LastAgain ==
    ASSUME NEW cur \in Seq(Persons), NEW inc \in Seq(Persons), NEW new,
           Merges(cur, inc, new), Plain(inc), ~Ambiguous(cur, inc),
           NEW i \in DOMAIN new, NEW n \in DOMAIN inc, LastMatch(new, inc, i, n)
    PROVE  From(cur, inc, new, i, n)
<1> SUFFICES ASSUME ~From(cur, inc, new, i, n) PROVE FALSE
  OBVIOUS
<1>1. Matches(new, inc[n]) = {i} /\ \A o \in DOMAIN inc : Matches(new, inc[o]) = {i} => o <= n
  BY DEF LastMatch
<1>2. \A j \in DOMAIN new : ~From(cur, inc, new, j, n)
  <2> TAKE j \in DOMAIN new
  <2> SUFFICES ASSUME From(cur, inc, new, j, n) PROVE FALSE
    OBVIOUS
  <2>1. Matches(new, inc[n]) = {j}
    BY FoundAgain
  <2>2. j = i
    BY <1>1, <2>1
  <2> QED
    BY <2>2
<1>3. /\ Matches(new, inc[n]) \subseteq Matches(cur, inc[n])
      /\ Known(cur, inc[n]) = {} => \A j \in Matches(new, inc[n]) : Kept(cur, inc, new, j)
  BY <1>2, OthersAgain
<1>4. Matches(cur, inc[n]) = {i}
  BY <1>1, <1>3, MatchesOne
<1>5. ~Kept(cur, inc, new, i)
  BY <1>4 DEF Kept
<1>6. PICK o \in DOMAIN inc : From(cur, inc, new, i, o)
  BY <1>5 DEF Merges
<1>7. Matches(new, inc[o]) = {i}
  BY <1>6, FoundAgain
<1>8. inc[n] \in Persons /\ DOMAIN inc \subseteq Nat
  BY ElementOfSeq, LenProperties
<1>9. i \in DOMAIN cur
  BY <1>4, <1>8, MatchesListed
<1>10. n <= o
  BY <1>4, <1>6, <1>9 DEF From, LastMatch
<1>11. o <= n
  BY <1>1, <1>7
<1>12. o = n
  BY <1>8, <1>10, <1>11
<1> QED
  BY <1>6, <1>12

\* Whoever was matched, is again, when all of the entry have identifiers of the same
\* schemes: who has the name of one cannot have an identifier of another.
LEMMA NobodyUnmatched ==
    ASSUME NEW cur \in Seq(Persons), NEW inc \in Seq(Persons), NEW new,
           Merges(cur, inc, new), Plain(inc), ~Ambiguous(cur, inc),
           \A n, o \in DOMAIN inc : Schemes(inc[n]) = Schemes(inc[o]),
           NEW n \in DOMAIN inc, Matches(cur, inc[n]) # {}
    PROVE  Matches(new, inc[n]) # {}
<1>1. \A o \in DOMAIN inc : inc[o] \in Persons
  BY ElementOfSeq, LenProperties
<1>2. CASE \E i \in DOMAIN new : From(cur, inc, new, i, n)
  <2>1. PICK i \in DOMAIN new : From(cur, inc, new, i, n)
    BY <1>2
  <2>2. Matches(new, inc[n]) = {i}
    BY <2>1, FoundAgain
  <2> QED
    BY <2>2
<1>3. CASE \A i \in DOMAIN new : ~From(cur, inc, new, i, n)
  <2>1. CASE Known(cur, inc[n]) # {}
    BY <1>3, <2>1, OthersAgain
  <2>2. CASE Known(cur, inc[n]) = {}
    <3>1. PICK i \in Matches(cur, inc[n]) : TRUE
      OBVIOUS
    <3>2. Matches(cur, inc[n]) = {i}
      BY MatchesOne
    <3>3. i \in DOMAIN cur /\ i \in DOMAIN new
      BY <1>1, MatchesListed DEF Merges
    <3>4. ~Kept(cur, inc, new, i)
      BY <3>2 DEF Kept
    <3>5. PICK o \in DOMAIN inc : From(cur, inc, new, i, o)
      BY <3>3, <3>4 DEF Merges
    <3>6. Matches(cur, inc[o]) = {i} /\ o # n
      BY <1>3, <3>3, <3>5 DEF From, LastMatch
    <3>7. i \in Named(cur, inc[n].name) /\ Schemes(cur[i]) \cap Schemes(inc[n]) = {}
      BY <2>2, MatchesByName
    <3>8. CASE Known(cur, inc[o]) = {}
      <4>1. i \in Named(cur, inc[o].name)
        BY <3>6, <3>8, MatchesByName
      <4>2. inc[o].name = inc[n].name
        BY <3>7, <4>1 DEF Named
      <4> QED
        BY <3>6, <4>2 DEF Plain, Distinct
    <3>9. CASE Known(cur, inc[o]) # {}
      <4>1. PICK k \in Known(cur, inc[o]) : \A q \in Known(cur, inc[o]) : k <= q
        BY <1>1, <3>9, FirstKnown
      <4>2. Matches(cur, inc[o]) = With(cur, inc[o].ids[k])
        BY <1>1, <4>1, MatchesById
      <4>3. inc[o].ids[k] \in ToSet(cur[i].ids)
        BY <3>6, <4>2 DEF With
      <4>4. inc[o].ids[k] \in ToSet(inc[o].ids)
        BY <4>1 DEF Known, ToSet
      <4>5. inc[o].ids[k][1] \in Schemes(cur[i]) /\ inc[o].ids[k][1] \in Schemes(inc[o])
        BY <4>3, <4>4 DEF Schemes
      <4>6. Schemes(inc[o]) = Schemes(inc[n])
        OBVIOUS
      <4> QED
        BY <3>7, <4>5, <4>6
    <3> QED
      BY <3>8, <3>9
  <2> QED
    BY <2>1, <2>2
<1> QED
  BY <1>2, <1>3

\* People who were harvested and read are as they are after the same harvest again.
LEMMA PeopleSettle ==
    ASSUME NEW cur \in Seq(Persons), NEW inc \in Seq(Persons), NEW strict \in BOOLEAN,
           Proper(cur), Plain(inc), ~Ambiguous(cur, inc),
           ~strict => \A n, o \in DOMAIN inc : Schemes(inc[n]) = Schemes(inc[o])
    PROVE  LET new == Dereference(MergePeople(cur, inc, strict)) IN
           ~Ambiguous(new, inc) /\ MergePeople(new, inc, strict) = new
<1> DEFINE new == Dereference(MergePeople(cur, inc, strict))
           m == MergePeople(new, inc, strict)
           rest == Unmatched(new, inc)
<1>1. /\ Merges(cur, inc, new)
      /\ strict => DOMAIN new = DOMAIN cur
      /\ ~strict => \A n \in DOMAIN inc : Matches(cur, inc[n]) = {} =>
                      \E i \in DOMAIN new : From(cur, inc, new, i, n)
  BY Origins
<1> HIDE DEF new
<1>2. new \in Seq(Persons)
  BY <1>1 DEF Merges
<1>3. Len(new) \in Nat /\ DOMAIN new = 1 .. Len(new)
  BY <1>2, LenProperties
<1>4. /\ m \in Seq(Persons) /\ DOMAIN new \subseteq DOMAIN m
      /\ strict => Len(m) = Len(new)
      /\ ~strict => /\ Len(m) = Len(new) + Len(rest)
                    /\ \A k \in DOMAIN rest : m[Len(new) + k] = rest[k]
      /\ \A i \in DOMAIN new :
           \/ m[i] = new[i] /\ \A n \in DOMAIN inc : Matches(new, inc[n]) # {i}
           \/ \E n \in DOMAIN inc : LastMatch(new, inc, i, n) /\ m[i] = MergePerson(new[i], inc[n])
  BY <1>2, MergedExactly
<1> HIDE DEF m
<1>5. ASSUME NEW n \in DOMAIN inc, NEW i \in Matches(new, inc[n]), NEW j \in Matches(new, inc[n])
      PROVE  i = j
  <2>1. CASE \E k \in DOMAIN new : From(cur, inc, new, k, n)
    <3>1. PICK k \in DOMAIN new : Matches(new, inc[n]) = {k}
      BY <1>1, <2>1, FoundAgain
    <3> QED
      BY <3>1
  <2>2. CASE \A k \in DOMAIN new : ~From(cur, inc, new, k, n)
    <3>1. i \in Matches(cur, inc[n]) /\ j \in Matches(cur, inc[n])
      BY <1>1, <2>2, OthersAgain
    <3>2. Matches(cur, inc[n]) = {i}
      BY <3>1, MatchesOne
    <3> QED
      BY <3>1, <3>2
  <2> QED
    BY <2>1, <2>2
<1>6. ~Ambiguous(new, inc)
  BY <1>2, <1>5, NotAmbiguous
<1>7. ASSUME NEW i \in DOMAIN new
      PROVE  m[i] = new[i]
  <2> SUFFICES ASSUME NEW n \in DOMAIN inc, LastMatch(new, inc, i, n),
                      m[i] = MergePerson(new[i], inc[n])
               PROVE  m[i] = new[i]
    BY <1>4
  <2>1. From(cur, inc, new, i, n)
    BY <1>1, LastAgain
  <2> QED
    BY <2>1 DEF From
<1>8. ASSUME ~strict
      PROVE  Len(rest) = 0
  <2>1. \A n \in DOMAIN inc : Matches(new, inc[n]) # {}
    <3> TAKE n \in DOMAIN inc
    <3>1. CASE Matches(cur, inc[n]) = {}
      <4>1. PICK i \in DOMAIN new : From(cur, inc, new, i, n)
        BY <1>1, <1>8, <3>1
      <4>2. Matches(new, inc[n]) = {i}
        BY <1>1, <4>1, FoundAgain
      <4> QED
        BY <4>2
    <3>2. CASE Matches(cur, inc[n]) # {}
      BY <1>1, <1>8, <3>2, NobodyUnmatched
    <3> QED
      BY <3>1, <3>2
  <2>2. \A n \in DOMAIN inc : inc[n] \in {p \in ToSet(inc) : Matches(new, p) # {}}
    BY <2>1 DEF ToSet
  <2>3. rest = <<>>
    BY <2>2, WithoutAll DEF Unmatched
  <2> QED
    BY <2>3, EmptySeq
<1>9. Len(m) = Len(new)
  BY <1>3, <1>4, <1>8
<1>10. m = new
  BY <1>2, <1>3, <1>4, <1>7, <1>9, SeqEqual
<1> QED
  BY <1>6, <1>10 DEF new, m

-----------------------------------------------------------------------------
(* Records                                                                 *)

PidSet == [doi : STRING, provider : STRING, client : {Absent, "datacite"}, oai : STRING]
Theses == [type : STRING, university : STRING, defended : STRING]

\* What a record has.
LEMMA RecordParts ==
    ASSUME NEW r \in Metadata
    PROVE  /\ r.pids \in PidSet /\ r.rtype \in STRING
           /\ r.creators \in Seq(Persons) /\ r.contributors \in Seq(Persons)
           /\ r.identifiers \in Seq(Items) /\ r.related \in Seq(Items)
           /\ r.subjects \in Seq(Items) /\ r.date \in Seq(Nat) /\ r.title \in STRING
           /\ r.thesis \in Theses
BY DEF Metadata, PidSet, Theses

\* Two records that agree in every field are one.
LEMMA SameRecord ==
    ASSUME NEW r \in Metadata, NEW q \in Metadata,
           r.pids = q.pids, r.rtype = q.rtype, r.creators = q.creators,
           r.contributors = q.contributors, r.identifiers = q.identifiers,
           r.related = q.related, r.date = q.date, r.subjects = q.subjects,
           r.title = q.title, r.thesis = q.thesis
    PROVE  r = q
<1> DEFINE fields(x) ==
      [pids |-> x.pids, rtype |-> x.rtype, creators |-> x.creators,
       contributors |-> x.contributors, identifiers |-> x.identifiers,
       related |-> x.related, date |-> x.date, subjects |-> x.subjects,
       title |-> x.title, thesis |-> x.thesis]
<1>1. r = fields(r)
  BY DEF Metadata
<1>2. q = fields(q)
  BY DEF Metadata
<1>3. fields(r) = fields(q)
  OBVIOUS
<1> QED
  BY <1>1, <1>2, <1>3

\* Releasing the pids says only who registered the DOI, once.
LEMMA Releasing ==
    ASSUME NEW p \in PidSet
    PROVE  /\ Released(p) \in PidSet /\ Released(Released(p)) = Released(p)
           /\ Released(p).oai = p.oai /\ Released(p).provider = p.provider
           /\ p.provider = "datacite" => Released(p).client = "datacite"
           /\ p.provider # "datacite" /\ p.client = Absent => Released(p) = p
<1>2. PICK c \in {Absent, "datacite"} :
        c = IF p.provider = "datacite" THEN "datacite" ELSE Absent
  OBVIOUS
<1>3. Released(p) = [p EXCEPT !.client = c]
  BY <1>2 DEF Released
<1>4. PICK q : q = Released(p)
  OBVIOUS
<1>5. /\ q \in PidSet /\ q.oai = p.oai /\ q.provider = p.provider /\ q.client = c
      /\ p.client = c => q = p
  BY <1>3, <1>4 DEF PidSet
<1>6. Released(q) = [q EXCEPT !.client = c]
  BY <1>2, <1>5 DEF Released
<1>7. Released(q) = q
  BY <1>5, <1>6 DEF PidSet
<1> QED
  BY <1>2, <1>4, <1>5, <1>7

\* Publishing releases the pids of a record and reads its people, and nothing else.
LEMMA Publishing ==
    ASSUME NEW r \in Metadata
    PROVE  /\ Published(r) = [r EXCEPT !.pids = Released(r.pids),
                                       !.creators = Dereference(r.creators),
                                       !.contributors = Dereference(r.contributors)]
           /\ Published(r) \in Metadata
           /\ Published(r).pids = Released(r.pids)
           /\ Published(r).creators = Dereference(r.creators)
           /\ Published(r).contributors = Dereference(r.contributors)
<1>1. Published(r) = [r EXCEPT !.pids = Released(r.pids),
                               !.creators = Dereference(r.creators),
                               !.contributors = Dereference(r.contributors)]
  BY DEF Published
<1>2. /\ Dereference(r.creators) \in Seq(Persons)
      /\ Dereference(r.contributors) \in Seq(Persons)
      /\ Released(r.pids) \in PidSet
  BY RecordParts, Dereferencing, Releasing
<1>3. Published(r) \in Metadata
  BY <1>1, <1>2 DEF Metadata, PidSet
<1>4. /\ Published(r).creators = Dereference(r.creators)
      /\ Published(r).contributors = Dereference(r.contributors)
      /\ Published(r).pids = Released(r.pids)
  BY <1>1 DEF Metadata
<1> QED
  BY <1>1, <1>3, <1>4

\* A record as it is read: the client of its DOI is named, and every affiliation of
\* its people has a spelling.
Readable(r) ==
  r \in Metadata /\ Released(r.pids) = r.pids /\ Proper(r.creators) /\ Proper(r.contributors)

\* So it is once published.
LEMMA PublishedReadable ==
    ASSUME NEW r \in Metadata
    PROVE  Readable(Published(r))
<1>1. /\ Published(r) \in Metadata /\ Published(r).pids = Released(r.pids)
      /\ Published(r).creators = Dereference(r.creators)
      /\ Published(r).contributors = Dereference(r.contributors)
  BY Publishing
<1>2. /\ r.pids \in PidSet /\ r.creators \in Seq(Persons) /\ r.contributors \in Seq(Persons)
  BY RecordParts
<1>3. Released(Released(r.pids)) = Released(r.pids)
  BY <1>2, Releasing
<1>4. Proper(Dereference(r.creators)) /\ Proper(Dereference(r.contributors))
  BY <1>2, Dereferencing
<1> QED
  BY <1>1, <1>3, <1>4 DEF Readable

\* To publish what is read changes nothing.
LEMMA ReadablePublished ==
    ASSUME NEW r, Readable(r)
    PROVE  Published(r) = r
<1>1. r \in Metadata /\ r.creators \in Seq(Persons) /\ r.contributors \in Seq(Persons)
  BY RecordParts DEF Readable
<1>2. ASSUME NEW people \in Seq(Persons), Proper(people)
      PROVE  Dereference(people) = people
  <2>1. \A i \in DOMAIN people : Dereference(people)[i] = people[i]
    BY <1>2, Dereferencing DEF Proper
  <2>2. Dereference(people) \in Seq(Persons) /\ Len(Dereference(people)) = Len(people)
    BY Dereferencing
  <2>3. DOMAIN people = 1 .. Len(people)
    BY LenProperties
  <2> QED
    BY <2>1, <2>2, <2>3, SeqEqual
<1>3. /\ Dereference(r.creators) = r.creators /\ Dereference(r.contributors) = r.contributors
      /\ Released(r.pids) = r.pids
  BY <1>1, <1>2 DEF Readable
<1>4. Published(r) = [r EXCEPT !.pids = r.pids, !.creators = r.creators,
                               !.contributors = r.contributors]
  BY <1>1, <1>3, Publishing
<1> QED
  BY <1>1, <1>4 DEF Metadata

\* The pids keep the OAI pid, which INSPIRE does not give.
LEMMA PidsKept ==
    ASSUME NEW cur \in PidSet, NEW inc \in PidSet, inc.oai = Absent
    PROVE  MergePids(cur, inc) \in PidSet /\ MergePids(cur, inc).oai = cur.oai
<1>1. CASE inc.doi = Absent /\ inc.oai = Absent
  BY <1>1 DEF MergePids
<1>2. CASE ~(inc.doi = Absent /\ inc.oai = Absent)
  <2>1. MergePids(cur, inc) = [inc EXCEPT !.oai = cur.oai]
    BY <1>2 DEF MergePids
  <2> QED
    BY <2>1 DEF PidSet
<1> QED
  BY <1>1, <1>2

\* A thesis keeps the date of its defence.
LEMMA ThesisKept ==
    ASSUME NEW cur \in Theses, NEW inc \in Theses
    PROVE  /\ MergeThesis(cur, inc) \in Theses
           /\ cur.defended \in {Absent, MergeThesis(cur, inc).defended}
<1>1. CASE inc = NoThesis
  BY <1>1 DEF MergeThesis
<1>2. CASE inc # NoThesis /\ cur = NoThesis
  BY <1>2 DEF MergeThesis, NoThesis
<1>3. CASE inc # NoThesis /\ cur # NoThesis
  <2>1. MergeThesis(cur, inc) =
          [cur EXCEPT !.university = Overwrite(cur.university, inc.university),
                      !.type = Overwrite(cur.type, inc.type)]
    BY <1>3 DEF MergeThesis
  <2>2. /\ Overwrite(cur.university, inc.university) \in STRING
        /\ Overwrite(cur.type, inc.type) \in STRING
    BY DEF Overwrite, Theses
  <2> QED
    BY <2>1, <2>2 DEF Theses
<1> QED
  BY <1>1, <1>2, <1>3

\* What INSPIRE says is a record that names no OAI pid and no client.
LEMMA EntryParts ==
    ASSUME NEW e \in Entries
    PROVE  e \in Metadata /\ e.pids.oai = Absent /\ e.pids.client = Absent
BY DataAssumption

\* An update is a record.
LEMMA UpdateIsRecord ==
    ASSUME NEW cur \in Metadata, NEW inc \in Entries
    PROVE  Update(cur, inc) \in Metadata
<1>1. inc \in Metadata /\ inc.pids.oai = Absent
  BY EntryParts
<1>2. /\ cur.pids \in PidSet /\ cur.rtype \in STRING
      /\ cur.creators \in Seq(Persons) /\ cur.contributors \in Seq(Persons)
      /\ cur.identifiers \in Seq(Items) /\ cur.related \in Seq(Items)
      /\ cur.subjects \in Seq(Items) /\ cur.date \in Seq(Nat) /\ cur.title \in STRING
      /\ cur.thesis \in Theses
  BY RecordParts
<1>3. /\ inc.pids \in PidSet /\ inc.rtype \in STRING
      /\ inc.creators \in Seq(Persons) /\ inc.contributors \in Seq(Persons)
      /\ inc.identifiers \in Seq(Items) /\ inc.related \in Seq(Items)
      /\ inc.subjects \in Seq(Items) /\ inc.date \in Seq(Nat) /\ inc.title \in STRING
      /\ inc.thesis \in Theses
  BY <1>1, RecordParts
<1>4. MergePids(cur.pids, inc.pids) \in PidSet
  BY <1>1, <1>2, <1>3, PidsKept
<1>5. MergedType(cur, inc) \in STRING /\ Overwrite(cur.title, inc.title) \in STRING
  BY <1>2, <1>3 DEF MergedType, Overwrite
<1>6. /\ MergePeople(cur.creators, inc.creators, TRUE) \in Seq(Persons)
      /\ MergePeople(cur.contributors, inc.contributors, FALSE) \in Seq(Persons)
  BY <1>2, <1>3, MergedPeople
<1>7. /\ MergeIdentifiers(cur.identifiers, inc.identifiers) \in Seq(Items)
      /\ MergeRelated(cur.related, inc.related) \in Seq(Items)
      /\ AppendUnique(cur.subjects, inc.subjects, FALSE) \in Seq(Items)
  BY <1>2, <1>3, AppendKeeps DEF MergeIdentifiers, MergeRelated
<1>8. MergeDate(cur, inc) \in Seq(Nat)
  BY <1>2, <1>3 DEF MergeDate, RefineDate
<1>9. MergeThesis(cur.thesis, inc.thesis) \in Theses
  BY <1>2, <1>3, ThesisKept
<1> QED
  BY <1>4, <1>5, <1>6, <1>7, <1>8, <1>9 DEF Update, Metadata, PidSet, Theses

\* What is published after a harvest, field by field.
LEMMA UpdatePublished ==
    ASSUME NEW cur \in Metadata, NEW inc \in Entries
    PROVE  LET new == Published(Update(cur, inc)) IN
           /\ Readable(new)
           /\ new.pids = Released(MergePids(cur.pids, inc.pids))
           /\ new.rtype = MergedType(cur, inc)
           /\ new.creators = Dereference(MergePeople(cur.creators, inc.creators, TRUE))
           /\ new.contributors =
                Dereference(MergePeople(cur.contributors, inc.contributors, FALSE))
           /\ new.identifiers = AppendUnique(cur.identifiers, inc.identifiers, TRUE)
           /\ new.related = AppendUnique(cur.related, inc.related, TRUE)
           /\ new.subjects = AppendUnique(cur.subjects, inc.subjects, FALSE)
           /\ new.date = MergeDate(cur, inc)
           /\ new.thesis = MergeThesis(cur.thesis, inc.thesis)
           /\ new.title = Overwrite(cur.title, inc.title)
<1> DEFINE u == Update(cur, inc)
           new == Published(u)
<1>1. u \in Metadata
  BY UpdateIsRecord
<1>2. /\ u.pids = MergePids(cur.pids, inc.pids) /\ u.rtype = MergedType(cur, inc)
      /\ u.creators = MergePeople(cur.creators, inc.creators, TRUE)
      /\ u.contributors = MergePeople(cur.contributors, inc.contributors, FALSE)
      /\ u.identifiers = AppendUnique(cur.identifiers, inc.identifiers, TRUE)
      /\ u.related = AppendUnique(cur.related, inc.related, TRUE)
      /\ u.subjects = AppendUnique(cur.subjects, inc.subjects, FALSE)
      /\ u.date = MergeDate(cur, inc) /\ u.thesis = MergeThesis(cur.thesis, inc.thesis)
      /\ u.title = Overwrite(cur.title, inc.title)
  BY DEF Update, MergeIdentifiers, MergeRelated
<1> HIDE DEF u
<1>3. /\ Readable(new) /\ new.creators = Dereference(u.creators)
      /\ new.contributors = Dereference(u.contributors)
      /\ new.pids = Released(u.pids)
  BY <1>1, PublishedReadable, Publishing
<1>4. new = [u EXCEPT !.pids = Released(u.pids),
                      !.creators = Dereference(u.creators),
                      !.contributors = Dereference(u.contributors)]
  BY <1>1, Publishing
<1> HIDE DEF new
<1>5. /\ new.rtype = u.rtype /\ new.identifiers = u.identifiers
      /\ new.related = u.related /\ new.subjects = u.subjects /\ new.date = u.date
      /\ new.thesis = u.thesis /\ new.title = u.title
  BY <1>1, <1>4 DEF Metadata
<1>6. /\ Readable(new)
      /\ new.pids = Released(MergePids(cur.pids, inc.pids))
      /\ new.rtype = MergedType(cur, inc)
      /\ new.creators = Dereference(MergePeople(cur.creators, inc.creators, TRUE))
      /\ new.contributors =
           Dereference(MergePeople(cur.contributors, inc.contributors, FALSE))
      /\ new.identifiers = AppendUnique(cur.identifiers, inc.identifiers, TRUE)
      /\ new.related = AppendUnique(cur.related, inc.related, TRUE)
      /\ new.subjects = AppendUnique(cur.subjects, inc.subjects, FALSE)
      /\ new.date = MergeDate(cur, inc) /\ new.thesis = MergeThesis(cur.thesis, inc.thesis)
      /\ new.title = Overwrite(cur.title, inc.title)
  BY <1>2, <1>3, <1>5
<1> QED
  BY <1>6 DEF new, u

-----------------------------------------------------------------------------
(* The record over time                                                    *)

\* The record is always one that is read from the repository.
IInv == Readable(record) /\ entry \in Entries

\* At first because the records are such as are read.
LEMMA InvInit ==
    ASSUME Init
    PROVE  IInv
<1>1. record \in Records /\ entry \in Entries
  BY DEF Init
<1>2. record \in Metadata /\ Published(record) = record
  BY <1>1, DataAssumption
<1>3. Readable(Published(record))
  BY <1>2, PublishedReadable
<1> QED
  BY <1>1, <1>2, <1>3 DEF IInv

\* A curator's edit is a record again, read as it is published.
LEMMA CurateKeeps ==
    ASSUME Readable(record), Curate
    PROVE  Readable(record')
<1>1. /\ record \in Metadata /\ record.creators \in Seq(Persons)
      /\ Released(record.pids) = record.pids
      /\ record.subjects \in Seq(Items)
      /\ Proper(record.creators) /\ Proper(record.contributors)
  BY RecordParts DEF Readable
<1>2. CASE \E d \in Dates : record' = [record EXCEPT !.date = d]
  <2>1. PICK d \in Dates : record' = [record EXCEPT !.date = d]
    BY <1>2
  <2>2. d \in Seq(Nat)
    BY DataAssumption
  <2>3. /\ record' \in Metadata /\ record'.creators = record.creators
        /\ record'.pids = record.pids /\ record'.contributors = record.contributors
    BY <1>1, <2>1, <2>2 DEF Metadata
  <2> QED
    BY <1>1, <2>3 DEF Readable
<1>3. CASE \E p \in People : record' = Published([record EXCEPT !.creators[1] = p])
  <2>1. PICK p \in People : record' = Published([record EXCEPT !.creators[1] = p])
    BY <1>3
  <2> DEFINE creators == [record.creators EXCEPT ![1] = p]
             new == [record EXCEPT !.creators = creators]
  <2>2. p \in Persons
    BY DataAssumption
  <2>3. creators \in Seq(Persons)
    <3>1. CASE 1 \in DOMAIN record.creators
      BY <1>1, <2>2, <3>1, ExceptSeq
    <3>2. CASE 1 \notin DOMAIN record.creators
      <4>1. record.creators \in [1 .. Len(record.creators) -> Persons]
        BY <1>1, LenProperties
      <4>2. creators = record.creators
        BY <3>2, <4>1
      <4> QED
        BY <1>1, <4>2
    <3> QED
      BY <3>1, <3>2
  <2>4. [record EXCEPT !.creators[1] = p] = new
    BY <1>1 DEF Metadata
  <2> HIDE DEF creators
  <2>5. new \in Metadata
    BY <1>1, <2>3 DEF Metadata
  <2> HIDE DEF new
  <2>6. record' = Published(new)
    BY <2>1, <2>4
  <2> QED
    BY <2>5, <2>6, PublishedReadable
<1>4. CASE \E s \in Topics : record' = [record EXCEPT !.subjects = Append(@, s)]
  <2>1. PICK s \in Topics : record' = [record EXCEPT !.subjects = Append(record.subjects, s)]
    BY <1>4
  <2>2. s \in Items
    BY DataAssumption
  <2>3. Append(record.subjects, s) \in Seq(Items)
    BY <1>1, <2>2, AppendProperties
  <2>4. /\ record' \in Metadata /\ record'.creators = record.creators
        /\ record'.pids = record.pids /\ record'.contributors = record.contributors
    BY <1>1, <2>1, <2>3 DEF Metadata
  <2> QED
    BY <1>1, <2>4 DEF Readable
<1> QED
  BY <1>2, <1>3, <1>4 DEF Curate

\* A step that updates the record is a harvest without conflict.
LEMMA UpdatingStep ==
    ASSUME [Next]_vars, outcome' = "updated"
    PROVE  \/ record' = record /\ entry' = entry
           \/ /\ ~Conflict(record, entry) /\ DoiKept(record, Update(record, entry))
              /\ record' = Published(Update(record, entry)) /\ entry' = entry
<1>1. CASE Harvest
  BY <1>1 DEF Harvest
<1>2. CASE InspireChanges \/ Curate
  BY <1>2 DEF InspireChanges, Curate
<1>3. CASE UNCHANGED vars
  BY <1>3 DEF vars
<1> QED
  BY <1>1, <1>2, <1>3 DEF Next

\* Every step keeps the record one that is read.
LEMMA InvNext ==
    ASSUME IInv, [Next]_vars
    PROVE  IInv'
<1> USE DEF IInv
<1>1. CASE Harvest
  <2>1. entry' = entry /\ (record' = record \/ record' = Published(Update(record, entry)))
    BY <1>1 DEF Harvest
  <2>2. record \in Metadata
    BY DEF Readable
  <2>3. Readable(Published(Update(record, entry)))
    BY <2>2, UpdateIsRecord, PublishedReadable
  <2> QED
    BY <2>1, <2>3
<1>2. CASE InspireChanges
  BY <1>2 DEF InspireChanges
<1>3. CASE Curate
  BY <1>3, CurateKeeps DEF Curate
<1>4. CASE UNCHANGED vars
  BY <1>4 DEF vars
<1> QED
  BY <1>1, <1>2, <1>3, <1>4 DEF Next

\* The record is always well formed, and every affiliation of its people has a
\* spelling: what publishing makes of it is what the harvester reads.
THEOREM RecordsReadable == Spec => []IInv
  BY InvInit, InvNext, PTL DEF Spec

-----------------------------------------------------------------------------
(* Nothing is lost                                                         *)

\* A harvest that updates the record keeps what is there.
LEMMA LossStep ==
    ASSUME IInv, [Next]_vars, outcome' = "updated"
    PROVE  /\ \A f \in {"identifiers", "related", "subjects"} :
                \A i \in DOMAIN record[f] :
                  /\ record'[f][i].key = record[f][i].key
                  /\ record[f][i].info \in {Absent, record'[f][i].info}
           /\ Len(record'.creators) = Len(record.creators)
           /\ \A i \in DOMAIN record.creators :
                /\ ToSet(record.creators[i].ids) \subseteq ToSet(record'.creators[i].ids)
                /\ NamesOf(record.creators, i) \subseteq NamesOf(record'.creators, i)
           /\ record'.pids.oai = record.pids.oai
           /\ record.thesis.defended \in {Absent, record'.thesis.defended}
<1>1. CASE record' = record
  BY <1>1
<1>2. CASE record' = Published(Update(record, entry))
  <2>1. PICK cur : cur = record
    OBVIOUS
  <2>2. PICK inc : inc = entry
    OBVIOUS
  <2>3. /\ cur \in Metadata /\ Proper(cur.creators) /\ inc \in Entries /\ inc \in Metadata
        /\ inc.pids.oai = Absent
    BY <2>1, <2>2, EntryParts DEF IInv, Readable
  <2>4. PICK new : new = Published(Update(cur, inc))
    OBVIOUS
  <2>5. record' = new
    BY <1>2, <2>1, <2>2, <2>4
  <2>6. /\ cur.pids \in PidSet /\ inc.pids \in PidSet
        /\ cur.creators \in Seq(Persons) /\ inc.creators \in Seq(Persons)
        /\ cur.identifiers \in Seq(Items) /\ inc.identifiers \in Seq(Items)
        /\ cur.related \in Seq(Items) /\ inc.related \in Seq(Items)
        /\ cur.subjects \in Seq(Items) /\ inc.subjects \in Seq(Items)
        /\ cur.thesis \in Theses /\ inc.thesis \in Theses
    BY <2>3, RecordParts
  <2>7. /\ new.pids = Released(MergePids(cur.pids, inc.pids))
        /\ new.creators = Dereference(MergePeople(cur.creators, inc.creators, TRUE))
        /\ new.identifiers = AppendUnique(cur.identifiers, inc.identifiers, TRUE)
        /\ new.related = AppendUnique(cur.related, inc.related, TRUE)
        /\ new.subjects = AppendUnique(cur.subjects, inc.subjects, FALSE)
        /\ new.thesis = MergeThesis(cur.thesis, inc.thesis)
    BY <2>3, <2>4, UpdatePublished
  <2>8. \A i \in DOMAIN cur.identifiers :
         /\ new.identifiers[i].key = cur.identifiers[i].key
         /\ cur.identifiers[i].info \in {Absent, new.identifiers[i].info}
    <3> DEFINE m == AppendUnique(cur.identifiers, inc.identifiers, TRUE)
    <3>1. \A i \in DOMAIN cur.identifiers : /\ m[i].key = cur.identifiers[i].key
                                      /\ cur.identifiers[i].info \in {Absent, m[i].info}
      BY <2>6, AppendKeeps
    <3> HIDE DEF m
    <3>2. new.identifiers = m
      BY <2>7 DEF m
    <3> QED
      BY <3>1, <3>2
  <2>9. \A i \in DOMAIN cur.related :
         /\ new.related[i].key = cur.related[i].key
         /\ cur.related[i].info \in {Absent, new.related[i].info}
    <3> DEFINE m == AppendUnique(cur.related, inc.related, TRUE)
    <3>1. \A i \in DOMAIN cur.related : /\ m[i].key = cur.related[i].key
                                      /\ cur.related[i].info \in {Absent, m[i].info}
      BY <2>6, AppendKeeps
    <3> HIDE DEF m
    <3>2. new.related = m
      BY <2>7 DEF m
    <3> QED
      BY <3>1, <3>2
  <2>10. \A i \in DOMAIN cur.subjects :
         /\ new.subjects[i].key = cur.subjects[i].key
         /\ cur.subjects[i].info \in {Absent, new.subjects[i].info}
    <3> DEFINE m == AppendUnique(cur.subjects, inc.subjects, FALSE)
    <3>1. \A i \in DOMAIN cur.subjects : /\ m[i].key = cur.subjects[i].key
                                      /\ cur.subjects[i].info \in {Absent, m[i].info}
      BY <2>6, AppendKeeps
    <3> HIDE DEF m
    <3>2. new.subjects = m
      BY <2>7 DEF m
    <3> QED
      BY <3>1, <3>2
  <2>11. /\ Len(new.creators) = Len(cur.creators)
        /\ \A i \in DOMAIN cur.creators :
             /\ ToSet(cur.creators[i].ids) \subseteq ToSet(new.creators[i].ids)
             /\ NamesOf(cur.creators, i) \subseteq NamesOf(new.creators, i)
    BY <2>3, <2>6, <2>7, HarvestedPeople
  <2>12. new.pids.oai = cur.pids.oai
    BY <2>3, <2>6, <2>7, PidsKept, Releasing
  <2>13. cur.thesis.defended \in {Absent, new.thesis.defended}
    BY <2>6, <2>7, ThesisKept
  <2> QED
    BY <2>1, <2>5, <2>8, <2>9, <2>10, <2>11, <2>12, <2>13
<1> QED
  BY <1>1, <1>2, UpdatingStep

\* A harvest removes nothing that a curator or an earlier harvest put there.
THEOREM HarvestLosesNothing == Spec => NothingLost
<1>1. IInv /\ [Next]_vars /\ outcome' = "updated" =>
        /\ \A f \in {"identifiers", "related", "subjects"} :
             \A i \in DOMAIN record[f] :
               /\ record'[f][i].key = record[f][i].key
               /\ record[f][i].info \in {Absent, record'[f][i].info}
        /\ Len(record'.creators) = Len(record.creators)
        /\ \A i \in DOMAIN record.creators :
             /\ ToSet(record.creators[i].ids) \subseteq ToSet(record'.creators[i].ids)
             /\ NamesOf(record.creators, i) \subseteq NamesOf(record'.creators, i)
        /\ record'.pids.oai = record.pids.oai
        /\ record.thesis.defended \in {Absent, record'.thesis.defended}
  BY LossStep
<1> QED
  BY <1>1, RecordsReadable, PTL DEF Spec, NothingLost

-----------------------------------------------------------------------------
(* Publication dates                                                       *)

\* The first members of a sequence that goes on from another one are that one.
LEMMA Prefix ==
    ASSUME NEW S, NEW s \in Seq(S), NEW t \in Seq(S), Len(t) >= Len(s),
           \A i \in DOMAIN s \cap DOMAIN t : s[i] = t[i]
    PROVE  SubSeq(t, 1, Len(s)) = s
<1> DEFINE sub == SubSeq(t, 1, Len(s))
<1>1. /\ Len(s) \in Nat /\ Len(t) \in Nat
      /\ DOMAIN s = 1 .. Len(s) /\ DOMAIN t = 1 .. Len(t)
      /\ s = [i \in 1 .. Len(s) |-> s[i]]
  BY LenProperties
<1>2. sub = [i \in 1 .. (1 + Len(s)) - 1 |-> t[(i + 1) - 1]]
  BY <1>1
<1>3. \A i \in 1 .. Len(s) : (i + 1) - 1 = i /\ t[i] = s[i]
  BY <1>1
<1>4. (1 + Len(s)) - 1 = Len(s)
  BY <1>1
<1> QED
  BY <1>1, <1>2, <1>3, <1>4

\* A date that is refined starts with the one there was.
LEMMA RefinedDate ==
    ASSUME NEW cur \in Seq(Nat), NEW inc \in Seq(Nat)
    PROVE  SubSeq(RefineDate(cur, inc), 1, Len(cur)) = cur
<1>1. Len(cur) \in Nat /\ Len(inc) \in Nat
  BY LenProperties
<1>2. CASE RefineDate(cur, inc) = cur
  BY <1>1, <1>2, Prefix
<1>3. CASE RefineDate(cur, inc) = inc /\ RefineDate(cur, inc) # cur
  <2>1. ~Contradicts(cur, inc) /\ Len(inc) > Len(cur)
    BY <1>3 DEF RefineDate
  <2>2. \A i \in DOMAIN cur \cap DOMAIN inc : cur[i] = inc[i]
    BY <2>1 DEF Contradicts
  <2> QED
    BY <1>1, <1>3, <2>1, <2>2, Prefix
<1> QED
  BY <1>2, <1>3 DEF RefineDate

\* A harvest that updates the record only refines the date of a record with a DOI
\* of CDS, and leaves that of a thesis.
LEMMA DateStep ==
    ASSUME IInv, [Next]_vars, outcome' = "updated"
    PROVE  /\ CdsOriginal(record) =>
                SubSeq(record'.date, 1, Len(record.date)) = record.date
           /\ (record.rtype = "thesis" /\ record'.rtype = "thesis"
               /\ ~CdsOriginal(record) /\ record.date # <<>>) => record'.date = record.date
<1>1. PICK cur : cur = record
  OBVIOUS
<1>2. PICK inc : inc = entry
  OBVIOUS
<1>3. cur \in Metadata /\ inc \in Entries /\ inc \in Metadata
  BY <1>1, <1>2, EntryParts DEF IInv, Readable
<1>4. cur.date \in Seq(Nat) /\ inc.date \in Seq(Nat)
  BY <1>3, RecordParts
<1>5. CASE record' = record
  <2>1. SubSeq(cur.date, 1, Len(cur.date)) = cur.date
    BY <1>4, LenProperties, Prefix
  <2> QED
    BY <1>1, <1>5, <2>1
<1>6. CASE record' = Published(Update(record, entry)) /\ ~Conflict(record, entry)
  <2>1. PICK new : new = Published(Update(cur, inc))
    OBVIOUS
  <2>2. record' = new /\ ~Conflict(cur, inc)
    BY <1>1, <1>2, <1>6, <2>1
  <2>3. new.date = MergeDate(cur, inc) /\ new.rtype = MergedType(cur, inc)
    BY <1>3, <2>1, UpdatePublished
  <2>4. CdsOriginal(cur) => SubSeq(new.date, 1, Len(cur.date)) = cur.date
    <3> SUFFICES ASSUME CdsOriginal(cur)
                 PROVE  SubSeq(new.date, 1, Len(cur.date)) = cur.date
      OBVIOUS
    <3>1. new.date = RefineDate(cur.date, inc.date)
      BY <2>3 DEF MergeDate
    <3> QED
      BY <1>4, <3>1, RefinedDate
  <2>5. (new.rtype = "thesis" /\ ~CdsOriginal(cur) /\ cur.date # <<>>) => new.date = cur.date
    <3> SUFFICES ASSUME new.rtype = "thesis", ~CdsOriginal(cur), cur.date # <<>>
                 PROVE  new.date = cur.date
      OBVIOUS
    <3>1. ~ThesisConflict(MergedType(cur, inc), cur.date, inc.date)
      BY <2>2 DEF Conflict
    <3>2. inc.date = <<>> \/ inc.date = cur.date
      BY <2>3, <3>1 DEF ThesisConflict
    <3> QED
      BY <2>3, <3>2 DEF MergeDate
  <2> QED
    BY <1>1, <2>2, <2>4, <2>5
<1> QED
  BY <1>5, <1>6, UpdatingStep

\* The date of a record with a DOI of CDS only gets more precise, and that of a
\* thesis that stays one never changes.
THEOREM DatesRefined == Spec => DatesOnlyRefined
<1>1. IInv /\ [Next]_vars /\ outcome' = "updated" =>
        /\ CdsOriginal(record) =>
             SubSeq(record'.date, 1, Len(record.date)) = record.date
        /\ (record.rtype = "thesis" /\ record'.rtype = "thesis"
            /\ ~CdsOriginal(record) /\ record.date # <<>>) => record'.date = record.date
  BY DateStep
<1> QED
  BY <1>1, RecordsReadable, PTL DEF Spec, DatesOnlyRefined

-----------------------------------------------------------------------------
(* Nobody is mixed up                                                      *)

\* Who is merged with somebody gets a second identifier of a scheme only if the two
\* share an identifier, or the entry gives two itself.
LEMMA MergedByName ==
    ASSUME NEW cur \in Seq(Persons), NEW inc \in Persons, NEW i \in DOMAIN cur,
           Matches(cur, inc) = {i}, SchemesOnce(cur[i]), SchemesOnce(inc),
           ToSet(inc.ids) \cap ToSet(cur[i].ids) = {}
    PROVE  SchemesOnce(MergePerson(cur[i], inc))
<1> DEFINE known == {n \in DOMAIN inc.ids : With(cur, inc.ids[n]) # {}}
           first == CHOOSE n \in known : \A m \in known : n <= m
<1>1. cur[i] \in Persons
  BY ElementOfSeq, LenProperties
<1>2. inc.ids \in Seq(Identifiers)
  BY PersonParts
<1>3. DOMAIN inc.ids \in SUBSET Nat
  BY <1>2, LenProperties
<1>4. known = {}
  <2> SUFFICES ASSUME known # {} PROVE FALSE
    OBVIOUS
  <2>1. Matches(cur, inc) = With(cur, inc.ids[first])
    BY DEF Matches
  <2>2. first \in known
    <3>1. known \in SUBSET Nat
      BY <1>3
    <3> HIDE DEF known
    <3>2. \E n \in known : \A m \in known : n <= m
      BY <3>1, LeastNumber
    <3> QED
      BY <3>2
  <2> HIDE DEF first
  <2>3. first \in DOMAIN inc.ids /\ i \in With(cur, inc.ids[first])
    BY <2>1, <2>2
  <2>4. inc.ids[first] \in ToSet(cur[i].ids) /\ inc.ids[first] \in ToSet(inc.ids)
    BY <2>3 DEF With, ToSet
  <2> QED
    BY <2>4
<1>5. i \in {j \in Named(cur, inc.name) : Schemes(cur[j]) \cap Schemes(inc) = {}}
  BY <1>4 DEF Matches
<1> HIDE DEF known
<1>6. \A x \in ToSet(cur[i].ids) : \A y \in ToSet(inc.ids) : x[1] # y[1]
  BY <1>5 DEF Schemes
<1>7. \A x \in ToSet(MergePerson(cur[i], inc).ids) :
        x \in ToSet(inc.ids) \/ x \in ToSet(cur[i].ids)
  BY <1>1, MergedPerson
<1> QED
  BY <1>6, <1>7 DEF SchemesOnce

\* So it is for the people of a list.
LEMMA PeopleApart ==
    ASSUME NEW cur \in Seq(Persons), NEW inc \in Seq(Persons), NEW strict \in BOOLEAN,
           NEW i \in DOMAIN cur, SchemesOnce(cur[i]),
           ~SchemesOnce(Dereference(MergePeople(cur, inc, strict))[i])
    PROVE  \E p \in ToSet(inc) : \/ ToSet(p.ids) \cap ToSet(cur[i].ids) # {}
                                 \/ ~SchemesOnce(p)
<1> DEFINE m == MergePeople(cur, inc, strict)
           new == Dereference(m)
<1>1. /\ m \in Seq(Persons) /\ DOMAIN cur \subseteq DOMAIN m
      /\ \A j \in DOMAIN cur :
           \/ m[j] = cur[j]
           \/ \E n \in DOMAIN inc : /\ Matches(cur, inc[n]) = {j}
                                    /\ m[j] = MergePerson(cur[j], inc[n])
  BY MergedPeople
<1>2. ~SchemesOnce(new[i])
  OBVIOUS
<1> HIDE DEF m
<1>3. new[i].ids = m[i].ids
  BY <1>1, Dereferencing
<1>4. ~SchemesOnce(m[i])
  BY <1>2, <1>3 DEF SchemesOnce
<1>5. PICK n \in DOMAIN inc : /\ Matches(cur, inc[n]) = {i}
                              /\ m[i] = MergePerson(cur[i], inc[n])
  BY <1>1, <1>4
<1>6. inc[n] \in Persons /\ inc[n] \in ToSet(inc)
  BY <1>5, ElementOfSeq, LenProperties DEF ToSet
<1>7. ToSet(inc[n].ids) \cap ToSet(cur[i].ids) # {} \/ ~SchemesOnce(inc[n])
  BY <1>4, <1>5, <1>6, MergedByName
<1> QED
  BY <1>6, <1>7

\* A harvest that updates the record keeps apart whom only the name joins.
LEMMA ApartStep ==
    ASSUME IInv, [Next]_vars, outcome' = "updated"
    PROVE  \A f \in {"creators", "contributors"} : \A i \in DOMAIN record[f] :
             (SchemesOnce(record[f][i]) /\ ~SchemesOnce(record'[f][i])) =>
               \E p \in ToSet(entry[f]) :
                 \/ ToSet(p.ids) \cap ToSet(record[f][i].ids) # {}
                 \/ ~SchemesOnce(p)
<1>1. PICK cur : cur = record
  OBVIOUS
<1>2. PICK inc : inc = entry
  OBVIOUS
<1>3. cur \in Metadata /\ inc \in Entries /\ inc \in Metadata
  BY <1>1, <1>2, EntryParts DEF IInv, Readable
<1>4. /\ cur.creators \in Seq(Persons) /\ inc.creators \in Seq(Persons)
      /\ cur.contributors \in Seq(Persons) /\ inc.contributors \in Seq(Persons)
  BY <1>3, RecordParts
<1>5. CASE record' = record
  BY <1>5
<1>6. CASE record' = Published(Update(record, entry))
  <2>1. PICK new : new = Published(Update(cur, inc))
    OBVIOUS
  <2>2. record' = new
    BY <1>1, <1>2, <1>6, <2>1
  <2>3. /\ new.creators = Dereference(MergePeople(cur.creators, inc.creators, TRUE))
        /\ new.contributors =
             Dereference(MergePeople(cur.contributors, inc.contributors, FALSE))
    BY <1>3, <2>1, UpdatePublished
  <2>4. \A i \in DOMAIN cur.creators :
          (SchemesOnce(cur.creators[i]) /\ ~SchemesOnce(new.creators[i])) =>
            \E p \in ToSet(inc.creators) :
              \/ ToSet(p.ids) \cap ToSet(cur.creators[i].ids) # {}
              \/ ~SchemesOnce(p)
    BY <1>4, <2>3, PeopleApart
  <2>5. \A i \in DOMAIN cur.contributors :
          (SchemesOnce(cur.contributors[i]) /\ ~SchemesOnce(new.contributors[i])) =>
            \E p \in ToSet(inc.contributors) :
              \/ ToSet(p.ids) \cap ToSet(cur.contributors[i].ids) # {}
              \/ ~SchemesOnce(p)
    BY <1>4, <2>3, PeopleApart
  <2> QED
    BY <1>1, <1>2, <2>2, <2>4, <2>5
<1> QED
  BY <1>5, <1>6, UpdatingStep

\* The same name alone never gives a person a second identifier of a scheme.
THEOREM PeopleStayApart == Spec => NobodyMixedByName
<1>1. IInv /\ [Next]_vars /\ outcome' = "updated" =>
        \A f \in {"creators", "contributors"} : \A i \in DOMAIN record[f] :
          (SchemesOnce(record[f][i]) /\ ~SchemesOnce(record'[f][i])) =>
            \E p \in ToSet(entry[f]) :
              \/ ToSet(p.ids) \cap ToSet(record[f][i].ids) # {}
              \/ ~SchemesOnce(p)
  BY ApartStep
<1> QED
  BY <1>1, RecordsReadable, PTL DEF Spec, NobodyMixedByName

-----------------------------------------------------------------------------
(* The harvester does not rewrite its own result                           *)

\* To merge the pids again changes nothing once they are released, and nothing at all
\* but with a DOI of CDS.
LEMMA PidsSettle ==
    ASSUME NEW cur \in PidSet, NEW inc \in PidSet, inc.oai = Absent, inc.client = Absent,
           Released(cur) = cur
    PROVE  LET new == Released(MergePids(cur, inc)) IN
           /\ Released(MergePids(new, inc)) = new
           /\ inc.provider # "datacite" => MergePids(new, inc) = new
<1> DEFINE m == MergePids(cur, inc)
           new == Released(m)
<1>1. CASE inc.doi = Absent
  <2>1. m = cur /\ new = cur
    BY <1>1 DEF MergePids
  <2>2. MergePids(cur, inc) = cur
    BY <1>1 DEF MergePids
  <2> QED
    BY <2>1, <2>2
<1>2. CASE inc.doi # Absent
  <2>1. m = [inc EXCEPT !.oai = cur.oai]
    BY <1>2 DEF MergePids
  <2>2. /\ m \in PidSet /\ m.oai = cur.oai /\ m.client = Absent
        /\ m.provider = inc.provider
    BY <2>1 DEF PidSet
  <2> HIDE DEF m
  <2>3. new.oai = cur.oai /\ (inc.provider # "datacite" => new = m)
    BY <2>2, Releasing
  <2> HIDE DEF new
  <2>4. MergePids(new, inc) = [inc EXCEPT !.oai = new.oai]
    BY <1>2 DEF MergePids
  <2>5. MergePids(new, inc) = m
    BY <2>1, <2>3, <2>4
  <2>6. /\ Released(MergePids(new, inc)) = new
        /\ inc.provider # "datacite" => MergePids(new, inc) = new
    BY <2>3, <2>5 DEF new
  <2> QED
    BY <2>6 DEF new, m
<1> QED
  BY <1>1, <1>2

\* Nor does it to merge the thesis again.
LEMMA ThesisSettles ==
    ASSUME NEW cur \in Theses, NEW inc \in Theses
    PROVE  LET new == MergeThesis(cur, inc) IN MergeThesis(new, inc) = new
<1> DEFINE new == MergeThesis(cur, inc)
<1>1. \A t \in Theses :
        t # NoThesis /\ inc # NoThesis =>
          MergeThesis(t, inc) = [type |-> Overwrite(t.type, inc.type),
                                 university |-> Overwrite(t.university, inc.university),
                                 defended |-> t.defended]
  <2> TAKE t \in Theses
  <2> HAVE t # NoThesis /\ inc # NoThesis
  <2>1. MergeThesis(t, inc) = [t EXCEPT !.university = Overwrite(t.university, inc.university),
                                        !.type = Overwrite(t.type, inc.type)]
    BY DEF MergeThesis
  <2> QED
    BY <2>1 DEF Theses
<1>2. CASE inc = NoThesis
  BY <1>2 DEF MergeThesis
<1>3. CASE inc # NoThesis /\ cur = NoThesis
  <2>1. new = inc
    BY <1>3 DEF MergeThesis
  <2>2. MergeThesis(inc, inc) = [type |-> Overwrite(inc.type, inc.type),
                                 university |-> Overwrite(inc.university, inc.university),
                                 defended |-> inc.defended]
    BY <1>1, <1>3
  <2>3. MergeThesis(inc, inc) = inc
    BY <2>2 DEF Overwrite, Theses
  <2> QED
    BY <2>1, <2>3
<1>4. CASE inc # NoThesis /\ cur # NoThesis
  <2>1. new = [type |-> Overwrite(cur.type, inc.type),
               university |-> Overwrite(cur.university, inc.university),
               defended |-> cur.defended]
    BY <1>1, <1>4
  <2> HIDE DEF new
  <2>2. /\ new \in Theses /\ new.type = Overwrite(cur.type, inc.type)
        /\ new.university = Overwrite(cur.university, inc.university)
        /\ new.defended = cur.defended
    BY <2>1 DEF Theses, Overwrite
  <2>3. new # NoThesis
    <3> SUFFICES ASSUME new = NoThesis PROVE FALSE
      OBVIOUS
    <3>1. /\ Overwrite(cur.type, inc.type) = Absent
          /\ Overwrite(cur.university, inc.university) = Absent
          /\ cur.defended = Absent
      BY <2>2 DEF NoThesis
    <3>2. cur.type = Absent /\ cur.university = Absent
      BY <3>1 DEF Overwrite
    <3>3. cur = NoThesis
      BY <3>1, <3>2 DEF NoThesis, Theses
    <3> QED
      BY <1>4, <3>3
  <2>4. MergeThesis(new, inc) = [type |-> Overwrite(new.type, inc.type),
                                 university |-> Overwrite(new.university, inc.university),
                                 defended |-> new.defended]
    BY <1>1, <1>4, <2>2, <2>3
  <2>5. \A x, y : Overwrite(Overwrite(x, y), y) = Overwrite(x, y)
    BY DEF Overwrite
  <2>6. MergeThesis(new, inc) = new
    BY <2>1, <2>2, <2>4, <2>5
  <2> QED
    BY <2>6 DEF new
<1> QED
  BY <1>2, <1>3, <1>4

\* A date that was refined or overwritten without conflict stays, and is no conflict,
\* also when the record got a DOI of CDS.
LEMMA DateSettles ==
    ASSUME NEW cur \in Metadata, NEW inc \in Metadata, NEW new \in Metadata,
           inc.date = <<>> \/ ValidDate(inc.date),
           new.date = MergeDate(cur, inc), new.rtype = MergedType(cur, inc),
           CdsOriginal(cur) => CdsOriginal(new),
           ~(IF CdsOriginal(cur) THEN RefineConflict(cur.date, inc.date)
             ELSE ThesisConflict(MergedType(cur, inc), cur.date, inc.date))
    PROVE  /\ MergeDate(new, inc) = new.date
           /\ ~(IF CdsOriginal(new) THEN RefineConflict(new.date, inc.date)
                ELSE ThesisConflict(MergedType(new, inc), new.date, inc.date))
<1>1. cur.date \in Seq(Nat) /\ inc.date \in Seq(Nat)
  BY RecordParts
<1>2. PICK c \in Seq(Nat) : c = cur.date
  BY <1>1
<1>3. PICK d \in Seq(Nat) : d = inc.date
  BY <1>1
<1>4. ~Contradicts(d, d) /\ RefineDate(d, d) = d
  BY DEF Contradicts, RefineDate
<1>5. MergedType(new, inc) = MergedType(cur, inc)
  BY DEF MergedType, Overwrite
<1>6. ~ValidDate(<<>>)
  BY DEF ValidDate
<1>7. CASE CdsOriginal(cur)
  <2>1. CdsOriginal(new) /\ new.date = RefineDate(c, d) /\ ~RefineConflict(c, d)
    BY <1>2, <1>3, <1>7 DEF MergeDate
  <2>2. RefineDate(new.date, d) = new.date /\ ~RefineConflict(new.date, d)
    <3>1. CASE new.date = c
      BY <2>1, <3>1
    <3>2. CASE new.date = d /\ d # c
      <4>1. ValidDate(d)
        BY <2>1, <3>2 DEF RefineDate
      <4> QED
        BY <1>4, <3>2, <4>1 DEF RefineConflict
    <3> QED
      BY <2>1, <3>1, <3>2 DEF RefineDate
  <2> QED
    BY <1>3, <2>1, <2>2 DEF MergeDate
<1>8. CASE ~CdsOriginal(cur)
  <2>1. ~ThesisConflict(MergedType(cur, inc), c, d)
    BY <1>2, <1>3, <1>8
  <2>2. new.date = IF d = <<>> THEN c ELSE d
    BY <1>2, <1>3, <1>8, <2>1 DEF MergeDate
  <2>3. CASE CdsOriginal(new)
    <3>1. RefineDate(new.date, d) = new.date /\ ~RefineConflict(new.date, d)
      <4>1. CASE d = <<>>
        BY <1>6, <2>2, <4>1 DEF RefineDate, RefineConflict
      <4>2. CASE d # <<>>
        BY <1>3, <1>4, <2>2, <4>2 DEF RefineConflict
      <4> QED
        BY <4>1, <4>2
    <3> QED
      BY <1>3, <2>3, <3>1 DEF MergeDate
  <2>4. CASE ~CdsOriginal(new)
    <3>1. ~ThesisConflict(MergedType(new, inc), new.date, d)
      BY <2>2 DEF ThesisConflict
    <3>2. MergeDate(new, inc) = IF d = <<>> THEN new.date ELSE d
      BY <1>3, <2>4, <3>1 DEF MergeDate
    <3>3. MergeDate(new, inc) = new.date
      BY <2>2, <3>2
    <3> QED
      BY <1>3, <2>4, <3>1, <3>3
  <2> QED
    BY <2>3, <2>4
<1> QED
  BY <1>7, <1>8

\* The people of a regular entry are told apart.
LEMMA RegularPlain ==
    ASSUME NEW e \in Metadata, Regular(e)
    PROVE  /\ Plain(e.creators) /\ Plain(e.contributors)
           /\ \A n, o \in DOMAIN e.contributors :
                Schemes(e.contributors[n]) = Schemes(e.contributors[o])
           /\ e.date = <<>> \/ ValidDate(e.date)
<1>1. /\ \A n \in DOMAIN e.creators : e.creators[n] \in ToSet(e.creators)
      /\ \A n \in DOMAIN e.contributors : e.contributors[n] \in ToSet(e.contributors)
  BY DEF ToSet
<1>2. \A p \in ToSet(e.creators) \cup ToSet(e.contributors) : Clear(p)
  BY DEF Regular, Clear
<1>3. Plain(e.creators)
  BY <1>1, <1>2 DEF Regular, Plain
<1>4. Plain(e.contributors)
  BY <1>1, <1>2 DEF Regular, Plain
<1> QED
  BY <1>1, <1>3, <1>4 DEF Regular

\* A record that was harvested and read is in no conflict with the entry, does not
\* change with it, and is up to date if the entry has no DOI of CDS.
LEMMA RecordSettles ==
    ASSUME NEW cur, NEW inc \in Entries, Readable(cur), Regular(inc), ~Conflict(cur, inc),
           DoiKept(cur, Update(cur, inc))
    PROVE  LET new == Published(Update(cur, inc)) IN
           /\ ~Conflict(new, inc) /\ Published(Update(new, inc)) = new
           /\ UpToDate(new, Update(new, inc)) \/ inc.pids.provider = "datacite"
<1> DEFINE new == Published(Update(cur, inc))
<1>1. /\ cur \in Metadata /\ Released(cur.pids) = cur.pids
      /\ Proper(cur.creators) /\ Proper(cur.contributors)
  BY DEF Readable
<1>2. inc \in Metadata /\ inc.pids.oai = Absent /\ inc.pids.client = Absent
  BY EntryParts
<1>3. /\ cur.pids \in PidSet /\ inc.pids \in PidSet
      /\ cur.creators \in Seq(Persons) /\ inc.creators \in Seq(Persons)
      /\ cur.contributors \in Seq(Persons) /\ inc.contributors \in Seq(Persons)
      /\ cur.identifiers \in Seq(Items) /\ inc.identifiers \in Seq(Items)
      /\ cur.related \in Seq(Items) /\ inc.related \in Seq(Items)
      /\ cur.subjects \in Seq(Items) /\ inc.subjects \in Seq(Items)
      /\ cur.thesis \in Theses /\ inc.thesis \in Theses
  BY <1>1, <1>2, RecordParts
<1>4. /\ Readable(new)
      /\ new.pids = Released(MergePids(cur.pids, inc.pids))
      /\ new.rtype = MergedType(cur, inc)
      /\ new.creators = Dereference(MergePeople(cur.creators, inc.creators, TRUE))
      /\ new.contributors =
           Dereference(MergePeople(cur.contributors, inc.contributors, FALSE))
      /\ new.identifiers = AppendUnique(cur.identifiers, inc.identifiers, TRUE)
      /\ new.related = AppendUnique(cur.related, inc.related, TRUE)
      /\ new.subjects = AppendUnique(cur.subjects, inc.subjects, FALSE)
      /\ new.date = MergeDate(cur, inc)
      /\ new.thesis = MergeThesis(cur.thesis, inc.thesis)
      /\ new.title = Overwrite(cur.title, inc.title)
  BY <1>1, UpdatePublished
<1>5. CdsOriginal(cur) => CdsOriginal(new)
  <2> SUFFICES ASSUME cur.pids.provider = "datacite" PROVE CdsOriginal(new)
    BY DEF CdsOriginal
  <2>1. Update(cur, inc).pids = MergePids(cur.pids, inc.pids)
    BY DEF Update
  <2>2. cur.pids.client = "datacite"
    BY <1>1, <1>3, Releasing
  <2>3. MergePids(cur.pids, inc.pids).provider = "datacite"
    BY <2>1, <2>2 DEF DoiKept
  <2>4. MergePids(cur.pids, inc.pids) \in PidSet
    BY <1>2, <1>3, PidsKept
  <2>5. Released(MergePids(cur.pids, inc.pids)).provider = "datacite"
    BY <2>3, <2>4, Releasing
  <2> HIDE DEF new
  <2> QED
    BY <1>4, <2>5 DEF CdsOriginal
<1> HIDE DEF new
<1>6. new \in Metadata
  BY <1>4 DEF Readable
<1>7. /\ Plain(inc.creators) /\ Plain(inc.contributors)
      /\ \A n, o \in DOMAIN inc.contributors :
           Schemes(inc.contributors[n]) = Schemes(inc.contributors[o])
      /\ inc.date = <<>> \/ ValidDate(inc.date)
  BY <1>2, RegularPlain
<1>8. /\ ~Ambiguous(cur.creators, inc.creators) /\ ~Ambiguous(cur.contributors, inc.contributors)
      /\ ~Malformed(cur.identifiers, inc.identifiers) /\ ~Malformed(cur.related, inc.related)
      /\ ~(IF CdsOriginal(cur) THEN RefineConflict(cur.date, inc.date)
           ELSE ThesisConflict(MergedType(cur, inc), cur.date, inc.date))
  BY DEF Conflict
<1>9. /\ ~Ambiguous(new.creators, inc.creators)
      /\ MergePeople(new.creators, inc.creators, TRUE) = new.creators
  <2> DEFINE l == Dereference(MergePeople(cur.creators, inc.creators, TRUE))
  <2>1. TRUE \in BOOLEAN /\ Proper(cur.creators) /\ Plain(inc.creators)
    BY <1>1, <1>7
  <2>2. ~Ambiguous(cur.creators, inc.creators)
    BY <1>8
  <2>3. ~Ambiguous(l, inc.creators) /\ MergePeople(l, inc.creators, TRUE) = l
    BY <1>3, <1>7, <2>1, <2>2, PeopleSettle
  <2>4. new.creators = l
    BY <1>4
  <2> HIDE DEF l
  <2> QED
    BY <2>3, <2>4
<1>10. /\ ~Ambiguous(new.contributors, inc.contributors)
       /\ MergePeople(new.contributors, inc.contributors, FALSE) = new.contributors
  <2> DEFINE l == Dereference(MergePeople(cur.contributors, inc.contributors, FALSE))
  <2>1. FALSE \in BOOLEAN /\ Proper(cur.contributors) /\ Plain(inc.contributors)
    BY <1>1, <1>7
  <2>2. ~Ambiguous(cur.contributors, inc.contributors)
    BY <1>8
  <2>3. ~Ambiguous(l, inc.contributors) /\ MergePeople(l, inc.contributors, FALSE) = l
    BY <1>3, <1>7, <2>1, <2>2, PeopleSettle
  <2>4. new.contributors = l
    BY <1>4
  <2> HIDE DEF l
  <2> QED
    BY <2>3, <2>4
<1>11. /\ ~Malformed(new.identifiers, inc.identifiers)
       /\ AppendUnique(new.identifiers, inc.identifiers, TRUE) = new.identifiers
  <2>1. ~Malformed(AppendUnique(cur.identifiers, inc.identifiers, TRUE), inc.identifiers)
    BY <1>3, <1>8, AppendWellFormed
  <2>2. AppendUnique(AppendUnique(cur.identifiers, inc.identifiers, TRUE), inc.identifiers, TRUE)
          = AppendUnique(cur.identifiers, inc.identifiers, TRUE)
    BY <1>3, AppendSettles
  <2>3. new.identifiers = AppendUnique(cur.identifiers, inc.identifiers, TRUE)
    BY <1>4
  <2> QED
    BY <2>1, <2>2, <2>3
<1>12. /\ ~Malformed(new.related, inc.related)
       /\ AppendUnique(new.related, inc.related, TRUE) = new.related
  <2>1. ~Malformed(AppendUnique(cur.related, inc.related, TRUE), inc.related)
    BY <1>3, <1>8, AppendWellFormed
  <2>2. AppendUnique(AppendUnique(cur.related, inc.related, TRUE), inc.related, TRUE)
          = AppendUnique(cur.related, inc.related, TRUE)
    BY <1>3, AppendSettles
  <2>3. new.related = AppendUnique(cur.related, inc.related, TRUE)
    BY <1>4
  <2> QED
    BY <2>1, <2>2, <2>3
<1>13. AppendUnique(new.subjects, inc.subjects, FALSE) = new.subjects
  <2>1. AppendUnique(AppendUnique(cur.subjects, inc.subjects, FALSE), inc.subjects, FALSE)
          = AppendUnique(cur.subjects, inc.subjects, FALSE)
    BY <1>3, AppendSettles
  <2>2. new.subjects = AppendUnique(cur.subjects, inc.subjects, FALSE)
    BY <1>4
  <2> QED
    BY <2>1, <2>2
<1>14. /\ MergeDate(new, inc) = new.date
       /\ ~(IF CdsOriginal(new) THEN RefineConflict(new.date, inc.date)
            ELSE ThesisConflict(MergedType(new, inc), new.date, inc.date))
  BY <1>1, <1>2, <1>4, <1>5, <1>6, <1>7, <1>8, DateSettles
<1>15. MergeThesis(new.thesis, inc.thesis) = new.thesis
  BY <1>3, <1>4, ThesisSettles
<1>16. MergedType(new, inc) = new.rtype /\ Overwrite(new.title, inc.title) = new.title
  BY <1>4 DEF MergedType, Overwrite
<1>17. ~Conflict(new, inc)
  BY <1>9, <1>10, <1>11, <1>12, <1>14 DEF Conflict
<1>18. PICK pids : pids = MergePids(new.pids, inc.pids)
  OBVIOUS
<1>19. /\ Released(pids) = new.pids /\ new.pids \in PidSet
       /\ inc.pids.provider # "datacite" => pids = new.pids
  BY <1>1, <1>2, <1>3, <1>4, <1>18, PidsSettle, PidsKept, Releasing
<1>20. Update(new, inc) =
         [pids |-> pids, rtype |-> new.rtype, creators |-> new.creators,
          contributors |-> new.contributors, identifiers |-> new.identifiers,
          related |-> new.related, date |-> new.date, subjects |-> new.subjects,
          title |-> new.title, thesis |-> new.thesis]
  BY <1>9, <1>10, <1>11, <1>12, <1>13, <1>14, <1>15, <1>16, <1>18
     DEF Update, MergeIdentifiers, MergeRelated
<1>21. PICK u : u = Update(new, inc)
  OBVIOUS
<1>22. u \in Metadata
  BY <1>6, <1>21, UpdateIsRecord
<1>23. /\ u.pids = pids /\ u.rtype = new.rtype /\ u.creators = new.creators
       /\ u.contributors = new.contributors /\ u.identifiers = new.identifiers
       /\ u.related = new.related /\ u.date = new.date /\ u.subjects = new.subjects
       /\ u.title = new.title /\ u.thesis = new.thesis
  BY <1>20, <1>21
<1>24. /\ Dereference(new.creators) = new.creators
       /\ Dereference(new.contributors) = new.contributors
  <2>1. Published(new) = new
    BY <1>4, ReadablePublished
  <2> QED
    BY <1>6, <2>1, Publishing
<1>25. PICK p : p = Published(u)
  OBVIOUS
<1>26. /\ p \in Metadata
       /\ p = [u EXCEPT !.pids = Released(u.pids), !.creators = Dereference(u.creators),
                        !.contributors = Dereference(u.contributors)]
       /\ p.pids = Released(u.pids) /\ p.creators = Dereference(u.creators)
       /\ p.contributors = Dereference(u.contributors)
  BY <1>22, <1>25, Publishing
<1>27. /\ p.rtype = u.rtype /\ p.identifiers = u.identifiers /\ p.related = u.related
       /\ p.date = u.date /\ p.subjects = u.subjects /\ p.title = u.title
       /\ p.thesis = u.thesis
  BY <1>22, <1>26 DEF Metadata
<1>28. Published(u) = new
  <2>1. /\ p.pids = new.pids /\ p.creators = new.creators
        /\ p.contributors = new.contributors
    BY <1>19, <1>23, <1>24, <1>26
  <2> QED
    BY <1>6, <1>23, <1>25, <1>26, <1>27, <2>1, SameRecord
<1>29. u = new \/ inc.pids.provider = "datacite"
  BY <1>6, <1>19, <1>22, <1>23, SameRecord
<1>30. /\ ~Conflict(new, inc) /\ Published(Update(new, inc)) = new
       /\ UpToDate(new, Update(new, inc)) \/ inc.pids.provider = "datacite"
  BY <1>17, <1>21, <1>28, <1>29 DEF UpToDate
<1> QED
  BY <1>30 DEF new

\* What the property says of a record and the entry it was updated with.
Settled(r, e) ==
  /\ ~Conflict(r, e) /\ Published(Update(r, e)) = r
  /\ UpToDate(r, Update(r, e)) \/ e.pids.provider = "datacite"

\* A step that ends in an update leaves such a record.
LEMMA SettlesStep ==
    ASSUME IInv, Settles, [Next]_vars
    PROVE  Settles'
<1> SUFFICES ASSUME outcome' = "updated", Regular(entry)'
             PROVE  Settled(record', entry')
  BY DEF Settles, Settled
<1>1. PICK cur : cur = record
  OBVIOUS
<1>2. PICK inc : inc = entry
  OBVIOUS
<1>3. Readable(cur) /\ inc \in Entries
  BY <1>1, <1>2 DEF IInv
<1>4. CASE Harvest
  <2>1. /\ ~Conflict(cur, inc) /\ DoiKept(cur, Update(cur, inc))
        /\ record' = Published(Update(cur, inc)) /\ entry' = inc
    BY <1>1, <1>2, <1>4 DEF Harvest
  <2>2. Regular(inc)
    BY <2>1
  <2>3. PICK new : new = Published(Update(cur, inc))
    OBVIOUS
  <2>4. Settled(new, inc)
    BY <1>3, <2>1, <2>2, <2>3, RecordSettles DEF Settled
  <2>5. record' = new
    BY <2>1, <2>3
  <2> QED
    BY <2>1, <2>4, <2>5
<1>5. CASE InspireChanges \/ Curate
  BY <1>5 DEF InspireChanges, Curate
<1>6. CASE UNCHANGED vars
  <2>1. record' = record /\ entry' = entry /\ outcome' = outcome
    BY <1>6 DEF vars
  <2>2. outcome = "updated" /\ Regular(entry)
    BY <2>1
  <2>3. Settled(record, entry)
    BY <2>2 DEF Settles, Settled
  <2> QED
    BY <2>1, <2>3
<1> QED
  BY <1>4, <1>5, <1>6 DEF Next

\* Once an update went through, the same regular entry neither conflicts with the record
\* nor changes it, and is up to date unless its DOI is one of CDS: the harvester does not
\* rewrite its own result.
THEOREM HarvestSettles == Spec => []Settles
<1>1. Init => Settles
  BY DEF Init, Settles
<1>2. IInv /\ Settles /\ [Next]_vars => Settles'
  BY SettlesStep
<1> QED
  BY <1>1, <1>2, RecordsReadable, PTL DEF Spec

================================================================================
