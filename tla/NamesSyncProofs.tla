---------------------------- MODULE NamesSyncProofs ----------------------------
(***************************************************************************)
(* Proofs about NamesSync, for any users, ORCIDs, departments and bounds.  *)
(*                                                                         *)
(* What a job carries between reading and writing, and what the index      *)
(* shows, are names that were good when they were read.  A name stays good *)
(* whatever the others do, since a profile only ever adds to the ORCIDs    *)
(* its user gave, and no name goes away: so writing an old one back breaks *)
(* nothing.  That is NamesOk, SyncOk and MergeOk.                          *)
(***************************************************************************)
EXTENDS NamesSync, SequenceTheorems, FiniteSetTheorems, WellFoundedInduction, TLAPS

Profile == [orcid : Orcids \cup {NoOrcid}, dept : Depts]
Name == [orcids : Seq(Orcids), dept : Depts \cup {0}, cern : BOOLEAN, listed : BOOLEAN]

-----------------------------------------------------------------------------
(* Induction                                                               *)

\* A set that holds 0 and the successor of each of its members is all of Nat.
LEMMA Induction ==
    ASSUME NEW P \in SUBSET Nat, 0 \in P, \A n \in P : n + 1 \in P
    PROVE  P = Nat
<1> DEFINE R == OpToRel(<, Nat)
<1>1. IsWellFoundedOn(R, Nat)
  BY NatLessThanWellFounded
<1>2. \A x, y \in Nat : x < y <=> <<x, y>> \in R
  BY DEF OpToRel
<1> HIDE DEF R
<1> SUFFICES ASSUME Nat \ P # {} PROVE FALSE
  OBVIOUS
<1>3. \E x \in Nat \ P : \A y \in Nat \ P : ~ (<<y, x>> \in R)
  BY <1>1, WFMin
<1>4. PICK x \in Nat \ P : \A y \in Nat \ P : ~(y < x)
  BY <1>2, <1>3
<1>5. x # 0 /\ x - 1 \in Nat
  BY <1>4
<1>6. x - 1 \in P
  BY <1>4, <1>5
<1> QED
  BY <1>5, <1>6

-----------------------------------------------------------------------------
(* Names                                                                   *)

\* Adding an ORCID to a name adds it, unless the profile has none.
LEMMA WithOrcidAdds ==
    ASSUME NEW ids \in Seq(Orcids), NEW o \in Orcids \cup {NoOrcid}
    PROVE  /\ WithOrcid(ids, o) \in Seq(Orcids)
           /\ ToSet(WithOrcid(ids, o)) = ToSet(ids) \cup ({o} \ {NoOrcid})
<1>1. CASE o = NoOrcid \/ o \in ToSet(ids)
  BY <1>1 DEF WithOrcid
<1>2. CASE ~(o = NoOrcid \/ o \in ToSet(ids))
  <2>1. /\ WithOrcid(ids, o) = Append(ids, o)
        /\ o \in Orcids
    BY <1>2 DEF WithOrcid
  <2>2. /\ Append(ids, o) \in Seq(Orcids)
        /\ Len(Append(ids, o)) = Len(ids) + 1
        /\ \A k \in 1 .. Len(ids) : Append(ids, o)[k] = ids[k]
        /\ Append(ids, o)[Len(ids) + 1] = o
    BY <2>1, AppendProperties
  <2>3. /\ Len(ids) \in Nat
        /\ DOMAIN ids = 1 .. Len(ids)
        /\ DOMAIN Append(ids, o) = 1 .. Len(ids) + 1
    BY <2>1, <2>2, LenProperties
  <2> DEFINE s == Append(ids, o)
  <2> HIDE DEF s
  <2>4. ToSet(s) = ToSet(ids) \cup {o}
    BY <2>2, <2>3 DEF s, ToSet
  <2> QED
    BY <1>2, <2>1, <2>2, <2>4 DEF s
<1> QED
  BY <1>1, <1>2

\* Joined goes through the second sequence from its first member on.
LEMMA JoinedSteps ==
    ASSUME NEW ids, NEW more \in Seq(Orcids)
    PROVE  \E f : /\ Joined(ids, more) = f[Len(more)] /\ f[0] = ids
                  /\ \A k \in 1 .. Len(more) : f[k] = WithOrcid(f[k - 1], more[k])
<1> DEFINE Steps(g, n) == g = [k \in 0 .. n |->
                                 IF k = 0 THEN ids ELSE WithOrcid(g[k - 1], more[k])]
           P == {n \in Nat : \E g : Steps(g, n)}
<1>1. 0 \in P
  <2> DEFINE g == [k \in 0 .. 0 |-> ids]
  <2>1. Steps(g, 0)
    OBVIOUS
  <2> QED
    BY <2>1
<1>2. ASSUME NEW n \in P PROVE n + 1 \in P
  <2>1. PICK g : Steps(g, n)
    BY <1>2
  <2> DEFINE last == WithOrcid(g[n], more[n + 1])
             h == [k \in 0 .. n + 1 |-> IF k = n + 1 THEN last ELSE g[k]]
  <2>2. \A k \in 0 .. n : h[k] = g[k]
    OBVIOUS
  <2>3. h[n + 1] = last
    OBVIOUS
  <2>4. \A k \in 0 .. n + 1 : h[k] = IF k = 0 THEN ids ELSE WithOrcid(h[k - 1], more[k])
    <3> TAKE k \in 0 .. n + 1
    <3>1. CASE k = n + 1
      <4>1. h[k - 1] = g[n] /\ k # 0
        BY <2>2, <3>1
      <4> HIDE DEF h
      <4> QED
        BY <2>3, <3>1, <4>1
    <3>2. CASE k # n + 1
      <4>1. k \in 0 .. n /\ (k # 0 => k - 1 \in 0 .. n)
        BY <3>2
      <4>2. g[k] = IF k = 0 THEN ids ELSE WithOrcid(g[k - 1], more[k])
        BY <2>1, <4>1
      <4> HIDE DEF h
      <4> QED
        BY <2>2, <4>1, <4>2
    <3> QED
      BY <3>1, <3>2
  <2>5. Steps(h, n + 1)
    <3> DEFINE r == [k \in 0 .. n + 1 |->
                       IF k = 0 THEN ids ELSE WithOrcid(h[k - 1], more[k])]
    <3>1. \A k \in 0 .. n + 1 : r[k] = h[k]
      BY <2>4
    <3>2. DOMAIN r = 0 .. n + 1 /\ DOMAIN h = 0 .. n + 1
      OBVIOUS
    <3> QED
      BY <3>1, <3>2
  <2> HIDE DEF Steps, h
  <2> QED
    BY <2>5
<1>3. \E g : Steps(g, Len(more))
  <2> HIDE DEF Steps
  <2>1. P = Nat
    <3> HIDE DEF P
    <3>1. P \in SUBSET Nat
      BY DEF P
    <3> QED
      BY <1>1, <1>2, <3>1, Induction
  <2> QED
    BY <2>1, LenProperties
<1> DEFINE f == CHOOSE g : Steps(g, Len(more))
<1>4. Steps(f, Len(more))
  BY <1>3
<1>5. Joined(ids, more) = f[Len(more)]
  BY DEF Joined
<1> HIDE DEF f
<1>6. Len(more) \in Nat
  BY LenProperties
<1>7. \A k \in 0 .. Len(more) :
        f[k] = IF k = 0 THEN ids ELSE WithOrcid(f[k - 1], more[k])
  BY <1>4
<1> QED
  BY <1>5, <1>6, <1>7

\* Joining two sequences of ORCIDs loses none and makes none up.
LEMMA JoinedAdds ==
    ASSUME NEW ids \in Seq(Orcids), NEW more \in Seq(Orcids)
    PROVE  /\ Joined(ids, more) \in Seq(Orcids)
           /\ ToSet(Joined(ids, more)) = ToSet(ids) \cup ToSet(more)
<1>1. PICK f : /\ Joined(ids, more) = f[Len(more)] /\ f[0] = ids
               /\ \A k \in 1 .. Len(more) : f[k] = WithOrcid(f[k - 1], more[k])
  BY JoinedSteps
<1>2. /\ Len(more) \in Nat
      /\ DOMAIN more = 1 .. Len(more)
      /\ \A k \in 1 .. Len(more) : more[k] \in Orcids
  BY LenProperties, ElementOfSeq
<1> DEFINE Upto(n) == {more[k] : k \in 1 .. n}
           P == {n \in Nat : n <= Len(more) =>
                   f[n] \in Seq(Orcids) /\ ToSet(f[n]) = ToSet(ids) \cup Upto(n)}
<1>3. 0 \in P
  BY <1>1
<1>4. ASSUME NEW n \in P PROVE n + 1 \in P
  <2>1. n \in Nat
    OBVIOUS
  <2> SUFFICES ASSUME n + 1 <= Len(more)
               PROVE  /\ f[n + 1] \in Seq(Orcids)
                      /\ ToSet(f[n + 1]) = ToSet(ids) \cup Upto(n + 1)
    BY <2>1
  <2>2. f[n] \in Seq(Orcids) /\ ToSet(f[n]) = ToSet(ids) \cup Upto(n)
    BY <1>2, <2>1
  <2>3. n + 1 \in 1 .. Len(more) /\ (n + 1) - 1 = n
    BY <1>2, <2>1
  <2>4. f[n + 1] = WithOrcid(f[n], more[n + 1]) /\ more[n + 1] \in Orcids
    BY <1>1, <1>2, <2>3
  <2>5. Upto(n + 1) = Upto(n) \cup {more[n + 1]}
    BY <2>1
  <2>6. more[n + 1] # NoOrcid
    BY <2>4, NamesIds
  <2> HIDE DEF P, Upto
  <2>7. PICK g \in Seq(Orcids), o \in Orcids : g = f[n] /\ o = more[n + 1] /\ o # NoOrcid
    BY <2>2, <2>4, <2>6
  <2>8. o \in Orcids \cup {NoOrcid} /\ {o} \ {NoOrcid} = {o}
    BY <2>7
  <2>9. /\ WithOrcid(g, o) \in Seq(Orcids)
        /\ ToSet(WithOrcid(g, o)) = ToSet(g) \cup ({o} \ {NoOrcid})
    BY <2>8, WithOrcidAdds
  <2>10. ToSet(WithOrcid(g, o)) = ToSet(g) \cup {o}
    BY <2>8, <2>9
  <2> QED
    BY <2>2, <2>4, <2>5, <2>7, <2>9, <2>10
<1>5. P = Nat
  <2> HIDE DEF P
  <2>1. P \in SUBSET Nat
    BY DEF P
  <2> QED
    BY <1>3, <1>4, <2>1, Induction
<1>6. f[Len(more)] \in Seq(Orcids) /\ ToSet(f[Len(more)]) = ToSet(ids) \cup Upto(Len(more))
  <2>1. Len(more) \in P
    BY <1>2, <1>5
  <2> HIDE DEF Upto
  <2> QED
    BY <1>2, <2>1
<1>7. Upto(Len(more)) = ToSet(more)
  BY <1>2 DEF ToSet
<1> QED
  BY <1>1, <1>6, <1>7

\* Names without ORCIDs and with one.
LEMMA FewOrcids ==
    /\ NoName \in Name /\ ToSet(NoName.orcids) = {}
    /\ \A o \in Orcids : <<o>> \in Seq(Orcids) /\ ToSet(<<o>>) = {o}
    /\ \A n \in Name : ToSet(n.orcids) \subseteq Orcids
<1>1. NoName.orcids = <<>> /\ ToSet(<<>>) = {} /\ <<>> \in Seq(Orcids)
  BY DEF NoName, ToSet
<1>2. NoName \in Name
  BY <1>1 DEF NoName, Name
<1>3. ASSUME NEW o \in Orcids PROVE <<o>> \in Seq(Orcids) /\ ToSet(<<o>>) = {o}
  BY DEF ToSet
<1>4. ASSUME NEW n \in Name PROVE ToSet(n.orcids) \subseteq Orcids
  <2>1. n.orcids \in Seq(Orcids)
    BY DEF Name
  <2>2. \A k \in 1 .. Len(n.orcids) : n.orcids[k] \in Orcids
    BY <2>1, ElementOfSeq
  <2>3. DOMAIN n.orcids = 1 .. Len(n.orcids)
    BY <2>1, LenProperties
  <2> QED
    BY <2>2, <2>3 DEF ToSet
<1> QED
  BY <1>1, <1>2, <1>3, <1>4

\* A new name takes department and ORCID from the profile.
LEMMA NewNameTakes ==
    ASSUME NEW p \in Profile, NEW b \in BOOLEAN
    PROVE  /\ NewName(p, b) \in Name
           /\ ToSet(NewName(p, b).orcids) = {p.orcid} \ {NoOrcid}
           /\ NewName(p, b).dept = p.dept
           /\ NewName(p, b).cern = TRUE
           /\ NewName(p, b).listed = ~b
<1>1. p.orcid \in Orcids \cup {NoOrcid} /\ p.dept \in Depts \cup {0}
  BY DEF Profile
<1>2. PICK e \in Seq(Orcids) : e = <<>> /\ ToSet(e) = {}
  <2>1. <<>> \in Seq(Orcids) /\ ToSet(<<>>) = {}
    BY DEF ToSet
  <2> QED
    BY <2>1
<1>3. /\ WithOrcid(e, p.orcid) \in Seq(Orcids)
      /\ ToSet(WithOrcid(e, p.orcid)) = ToSet(e) \cup ({p.orcid} \ {NoOrcid})
  BY <1>1, WithOrcidAdds
<1>4. /\ WithOrcid(<<>>, p.orcid) \in Seq(Orcids)
      /\ ToSet(WithOrcid(<<>>, p.orcid)) = {p.orcid} \ {NoOrcid}
  BY <1>2, <1>3
<1> QED
  BY <1>1, <1>4 DEF NewName, Name

\* An updated name takes the department, if there is one, and adds the ORCID.
LEMMA UpdatedTakes ==
    ASSUME NEW n \in Name, NEW p \in Profile, NEW b \in BOOLEAN
    PROVE  /\ Updated(n, p, b) \in Name
           /\ ToSet(Updated(n, p, b).orcids) = ToSet(n.orcids) \cup ({p.orcid} \ {NoOrcid})
           /\ p.dept # 0 => Updated(n, p, b).dept = p.dept
           /\ Updated(n, p, b).cern = TRUE
           /\ Updated(n, p, b).listed = (n.listed /\ ~b)
<1>1. p.orcid \in Orcids \cup {NoOrcid} /\ p.dept \in Depts \cup {0}
  BY DEF Profile
<1>2. n.orcids \in Seq(Orcids) /\ n.listed \in BOOLEAN /\ n.dept \in Depts \cup {0}
  BY DEF Name
<1>3. /\ WithOrcid(n.orcids, p.orcid) \in Seq(Orcids)
      /\ ToSet(WithOrcid(n.orcids, p.orcid)) = ToSet(n.orcids) \cup ({p.orcid} \ {NoOrcid})
  BY <1>1, <1>2, WithOrcidAdds
<1> DEFINE ids == WithOrcid(n.orcids, p.orcid)
           l == n.listed /\ ~b
           d == IF p.dept # 0 THEN p.dept ELSE n.dept
<1>4. l \in BOOLEAN /\ d \in Depts \cup {0} /\ (p.dept # 0 => d = p.dept)
  BY <1>1, <1>2
<1>5. Updated(n, p, b) = [n EXCEPT !.orcids = ids, !.dept = d, !.cern = TRUE, !.listed = l]
  BY DEF Updated
<1>6. ids \in Seq(Orcids) /\ ToSet(ids) = ToSet(n.orcids) \cup ({p.orcid} \ {NoOrcid})
  BY <1>3
<1> HIDE DEF ids
<1>7. l = (n.listed /\ ~b)
  OBVIOUS
<1> HIDE DEF l, d
<1>8. /\ Updated(n, p, b) \in Name /\ Updated(n, p, b).orcids = ids
      /\ Updated(n, p, b).dept = d /\ Updated(n, p, b).cern = TRUE
      /\ Updated(n, p, b).listed = l
  BY <1>1, <1>4, <1>5, <1>6 DEF Name
<1> QED
  BY <1>4, <1>6, <1>7, <1>8

\* A merged name has the ORCIDs of both, and is listed as it was.
LEMMA MergedIntoJoins ==
    ASSUME NEW n \in Name, NEW m \in Name
    PROVE  /\ MergedInto(n, m) \in Name
           /\ ToSet(MergedInto(n, m).orcids) = ToSet(n.orcids) \cup ToSet(m.orcids)
           /\ MergedInto(n, m).listed = n.listed
<1>1. n.orcids \in Seq(Orcids) /\ m.orcids \in Seq(Orcids)
  BY DEF Name
<1>2. /\ Joined(n.orcids, m.orcids) \in Seq(Orcids)
      /\ ToSet(Joined(n.orcids, m.orcids)) = ToSet(n.orcids) \cup ToSet(m.orcids)
  BY <1>1, JoinedAdds
<1> DEFINE ids == Joined(n.orcids, m.orcids)
           d == IF n.dept = 0 THEN m.dept ELSE n.dept
           c == n.cern \/ m.cern
<1>3. d \in Depts \cup {0} /\ c \in BOOLEAN
  BY DEF Name
<1>4. MergedInto(n, m) = [n EXCEPT !.orcids = ids, !.dept = d, !.cern = c]
  BY DEF MergedInto
<1>5. ids \in Seq(Orcids) /\ ToSet(ids) = ToSet(n.orcids) \cup ToSet(m.orcids)
  BY <1>2
<1> HIDE DEF ids, d, c
<1>6. /\ MergedInto(n, m) \in Name /\ MergedInto(n, m).orcids = ids
      /\ MergedInto(n, m).listed = n.listed
  BY <1>3, <1>4, <1>5 DEF Name
<1> QED
  BY <1>5, <1>6

\* A name that has an ORCID, or comes from CERN, is not the missing one.
LEMMA SomeName ==
    ASSUME NEW n, \/ n.cern = TRUE
                  \/ n.listed = TRUE
                  \/ \E o : o \in ToSet(n.orcids)
    PROVE  n # NoName
  BY FewOrcids DEF NoName

\* Unlisting a name changes nothing else of it.
LEMMA Unlisted ==
    ASSUME NEW n \in Name
    PROVE  LET m == [n EXCEPT !.listed = FALSE] IN
           /\ m \in Name /\ m.orcids = n.orcids /\ m.dept = n.dept /\ m.listed = FALSE
  BY DEF Name

-----------------------------------------------------------------------------
(* The invariant                                                           *)

\* No user who gave this ORCID gave another one.
Alone(o) == \A w \in Users : o \in given[w] => given[w] = {o}

\* The name of a person id has no ORCID but those the user gave; it is unlisted
\* only for the name of one of them.
UserName(u, n) ==
    /\ ToSet(n.orcids) \subseteq given[u]
    /\ (n # NoName /\ ~n.listed) => \E o \in ToSet(n.orcids) : Exists(o)

\* The name of an ORCID gets another one only from a user who gave both, and is
\* unlisted only for a name that has it as well.
OrcidName(o, n) ==
    /\ \A c \in ToSet(n.orcids) \ {o} : ~Alone(c)
    /\ Alone(o) => ToSet(n.orcids) \subseteq {o}
    /\ (Alone(o) /\ n # NoName) => n.listed

\* A name that may be written under i.
Fit(i, n) ==
    /\ n \in Name
    /\ i \in Users => UserName(i, n)
    /\ i \in Orcids => OrcidName(i, n)

\* A name that was read under i: what was there once is there still.
Good(i, n) == Fit(i, n) /\ (n # NoName => Exists(i))

TypeOk ==
    /\ profile \in [Users -> Profile]
    /\ recent \subseteq Users
    /\ names \in [Ids -> Name] /\ indexed \in [Ids -> Name]
    /\ given \in [Users -> SUBSET Orcids]
    /\ \A u \in Users : IsFiniteSet(given[u])
    /\ \A u \in Users : profile[u].orcid \in given[u] \cup {NoOrcid}

NamesOk == \A i \in Ids : Good(i, names[i]) /\ Good(i, indexed[i])

\* What the synchronisation has read of the user it is at.
ReadOk(s) ==
    /\ s.user \in Users \cap s.queue /\ s.profile \in Profile
    /\ Good(s.user, s.cern)
    /\ s.profile.orcid \in given[s.user] \cup {NoOrcid}
    /\ s.profile.orcid = NoOrcid => s.orcid = NoName
    /\ s.profile.orcid # NoOrcid => Good(s.profile.orcid, s.orcid)
    /\ s.user \notin recent => profile[s.user] = s.profile
    /\ s.user \notin stale => /\ names[s.user].dept = s.cern.dept
                              /\ names[s.user].orcids = s.cern.orcids

SyncOk == /\ sync = [queue |-> sync.queue, user |-> sync.user, profile |-> sync.profile,
                     cern |-> sync.cern, orcid |-> sync.orcid]
          /\ sync.queue \subseteq Users
          /\ sync.user # "" => ReadOk(sync)

\* What the merge has read of the names it merges.
CopiesOk(m) ==
    /\ m.dest \in Orcids
    /\ m.todo \subseteq Ids \ {m.dest}
    /\ m.done \subseteq m.todo
    /\ m.copies \in [Ids -> Name]
    /\ \A i \in Ids : Good(i, m.copies[i])
    /\ \A i \in m.todo \cup {m.dest} : m.dest \in ToSet(m.copies[i].orcids)

MergeOk == /\ merge = [queue |-> merge.queue, dest |-> merge.dest, todo |-> merge.todo,
                       done |-> merge.done, copies |-> merge.copies]
           /\ merge.todo = {} => merge.done = {}
           /\ merge.todo # {} => CopiesOk(merge)

NamesInv == TypeOk /\ NamesOk /\ SyncOk /\ MergeOk /\ ProfileArrives

-----------------------------------------------------------------------------
(* What is good stays good                                                 *)

GoodStays == \A i \in Ids, n \in Name : Good(i, n) => Good(i, n)'

\* An ORCID that is shared stays so, and a name that is there stays there: what
\* may be written now may be written later.
LEMMA GoodLasts ==
    ASSUME TypeOk, given' \in [Users -> SUBSET Orcids],
           \A w \in Users : given[w] \subseteq given'[w],
           \A i \in Ids : Exists(i) => Exists(i)'
    PROVE  GoodStays
<1>1. \A o : Alone(o)' => Alone(o)
  BY DEF Alone, TypeOk
<1> SUFFICES ASSUME NEW i \in Ids, NEW n \in Name, Good(i, n) PROVE Good(i, n)'
  BY DEF GoodStays
<1>2. ASSUME i \in Users PROVE UserName(i, n)'
  <2>1. UserName(i, n)
    BY <1>2 DEF Good, Fit
  <2>2. ToSet(n.orcids) \subseteq Ids
    BY FewOrcids DEF Ids
  <2> QED
    BY <1>2, <2>1, <2>2 DEF UserName
<1>3. ASSUME i \in Orcids PROVE OrcidName(i, n)'
  <2>1. OrcidName(i, n)
    BY <1>3 DEF Good, Fit
  <2> QED
    BY <1>1, <2>1 DEF OrcidName
<1>4. (n # NoName => Exists(i))'
  BY DEF Good
<1> QED
  BY <1>2, <1>3, <1>4 DEF Good, Fit

\* Writing names that may be written keeps all of them good.
LEMMA Writes ==
    ASSUME TypeOk, NamesOk, NEW new, DOMAIN new \subseteq Ids,
           \A i \in DOMAIN new : new[i] # NoName /\ Fit(i, new[i]),
           Put(new), indexed' = indexed, given' = given
    PROVE  /\ names' \in [Ids -> Name]
           /\ \A i \in Ids : names'[i] = IF i \in DOMAIN new THEN new[i] ELSE names[i]
           /\ NamesOk' /\ GoodStays
<1>1. names' = [i \in Ids |-> IF i \in {j \in DOMAIN new : new[j] # names[j]}
                              THEN new[i] ELSE names[i]]
  BY DEF Put
<1>2. \A i \in Ids : names'[i] = IF i \in DOMAIN new THEN new[i] ELSE names[i]
  BY <1>1
<1>3. \A i \in DOMAIN new : new[i] \in Name
  BY DEF Fit
<1>4. \A i \in Ids : names[i] \in Name
  BY DEF TypeOk
<1>5. names' \in [Ids -> Name]
  BY <1>1, <1>3, <1>4
<1>6. \A i \in Ids : Exists(i) => Exists(i)'
  BY <1>2 DEF Exists
<1>7. GoodStays
  BY <1>6, GoodLasts DEF TypeOk
<1>8. ASSUME NEW i \in Ids PROVE Good(i, names[i])' /\ Good(i, indexed[i])'
  <2>1. PICK m \in Name : m = indexed[i]
    BY DEF TypeOk
  <2>2. Good(i, m)'
    BY <1>7, <2>1 DEF NamesOk, GoodStays
  <2>3. \A o : Alone(o)' = Alone(o)
    BY DEF Alone
  <2>4. ASSUME NEW n \in Name, Fit(i, n) PROVE Fit(i, n)'
    <3>1. ASSUME i \in Users PROVE UserName(i, n)'
      <4>1. UserName(i, n)
        BY <2>4, <3>1 DEF Fit
      <4>2. ToSet(n.orcids) \subseteq Ids
        BY FewOrcids DEF Ids
      <4> QED
        BY <1>6, <4>1, <4>2 DEF UserName
    <3>2. ASSUME i \in Orcids PROVE OrcidName(i, n)'
      BY <2>3, <2>4, <3>2 DEF Fit, OrcidName
    <3> QED
      BY <3>1, <3>2 DEF Fit
  <2>5. PICK n \in Name : n = names'[i]
    BY <1>5
  <2>6. Fit(i, n)
    BY <1>2, <2>5 DEF NamesOk, Good
  <2>7. Fit(i, n)'
    BY <2>4, <2>6
  <2>8. Good(i, n)'
    BY <2>5, <2>7 DEF Good, Exists
  <2>9. n = names'[i] /\ m = indexed'[i]
    BY <2>1, <2>5
  <2> QED
    BY <2>2, <2>8, <2>9
<1> QED
  BY <1>2, <1>5, <1>7, <1>8 DEF NamesOk

\* Nothing happens to the names.
LEMMA QuietNames ==
    ASSUME TypeOk, NamesOk, UNCHANGED <<profile, names, indexed, given>>,
           recent' \subseteq Users
    PROVE  TypeOk' /\ NamesOk' /\ GoodStays
<1>1. GoodStays
  BY GoodLasts DEF TypeOk, Exists
<1>2. TypeOk'
  BY DEF TypeOk
<1>3. NamesOk'
  <2> SUFFICES ASSUME NEW i \in Ids PROVE Good(i, names[i])' /\ Good(i, indexed[i])'
    BY DEF NamesOk
  <2>1. PICK n \in Name, m \in Name : n = names[i] /\ m = indexed[i]
    BY DEF TypeOk
  <2>2. Good(i, n)' /\ Good(i, m)'
    BY <1>1, <2>1 DEF NamesOk, GoodStays
  <2>3. n = names'[i] /\ m = indexed'[i]
    BY <2>1
  <2> QED
    BY <2>2, <2>3
<1> QED
  BY <1>1, <1>2, <1>3

\* What the synchronisation has read stays good while others take their steps.
LEMMA ReadLasts ==
    ASSUME NEW s, ReadOk(s), GoodStays,
           \A w \in Users : given[w] \subseteq given'[w],
           s.user \notin recent' => s.user \notin recent /\ profile'[s.user] = profile[s.user],
           s.user \notin stale' => /\ s.user \notin stale
                                   /\ names'[s.user].dept = names[s.user].dept
                                   /\ names'[s.user].orcids = names[s.user].orcids
    PROVE  ReadOk(s)'
<1>1. s.user \in Users /\ s.user \in Ids /\ s.profile.orcid \in Orcids \cup {NoOrcid}
  BY DEF ReadOk, Ids, Profile
<1>2. Good(s.user, s.cern)'
  <2>1. Good(s.user, s.cern) /\ s.cern \in Name
    BY DEF ReadOk, Good, Fit
  <2> QED
    BY <1>1, <2>1 DEF GoodStays
<1>3. ASSUME s.profile.orcid # NoOrcid PROVE Good(s.profile.orcid, s.orcid)'
  <2>1. Good(s.profile.orcid, s.orcid) /\ s.orcid \in Name
    BY <1>3 DEF ReadOk, Good, Fit
  <2>2. s.profile.orcid \in Ids
    BY <1>1, <1>3 DEF Ids
  <2> QED
    BY <2>1, <2>2 DEF GoodStays
<1>4. s.profile.orcid \in given'[s.user] \cup {NoOrcid}
  BY <1>1 DEF ReadOk
<1>5. s.user \notin recent' => profile'[s.user] = s.profile
  BY DEF ReadOk
<1>6. s.user \notin stale' => names'[s.user].dept = s.cern.dept /\ names'[s.user].orcids = s.cern.orcids
  BY DEF ReadOk
<1>7. /\ s.user \in Users \cap s.queue /\ s.profile \in Profile
      /\ s.profile.orcid = NoOrcid => s.orcid = NoName
  BY DEF ReadOk
<1> QED
  BY <1>2, <1>3, <1>4, <1>5, <1>6, <1>7 DEF ReadOk

\* So does what the merge has read.
LEMMA CopiesLast ==
    ASSUME NEW m, CopiesOk(m), GoodStays
    PROVE  CopiesOk(m)'
<1>1. \A i \in Ids : Good(i, m.copies[i])'
  BY DEF CopiesOk, GoodStays
<1> QED
  BY <1>1 DEF CopiesOk

\* The synchronisation stands still.
LEMMA SyncLasts ==
    ASSUME SyncOk, sync' = sync, GoodStays,
           \A u \in Users : given[u] \subseteq given'[u],
           \A u \in Users : u \notin recent' => u \notin recent /\ profile'[u] = profile[u],
           \A u \in Users : u \notin stale' => /\ u \notin stale
                                               /\ names'[u].dept = names[u].dept
                                               /\ names'[u].orcids = names[u].orcids
    PROVE  SyncOk'
<1>1. PICK s : s = sync
  OBVIOUS
<1>2. ASSUME s.user # "" PROVE ReadOk(s)'
  <2>1. ReadOk(s)
    BY <1>1, <1>2 DEF SyncOk
  <2>2. s.user \in Users
    BY <2>1 DEF ReadOk
  <2> QED
    BY <2>1, <2>2, ReadLasts
<1>3. s = sync'
  BY <1>1
<1>4. ReadOk(sync)' \/ sync'.user = ""
  BY <1>2, <1>3
<1> QED
  BY <1>4 DEF SyncOk

\* The merge stands still.
LEMMA MergeLasts ==
    ASSUME MergeOk, merge' = merge, GoodStays
    PROVE  MergeOk'
<1>1. PICK m : m = merge
  OBVIOUS
<1>2. ASSUME m.todo # {} PROVE CopiesOk(m)'
  BY <1>1, <1>2, CopiesLast DEF MergeOk
<1>3. m = merge'
  BY <1>1
<1>4. CopiesOk(merge)' \/ merge'.todo = {}
  BY <1>2, <1>3
<1> QED
  BY <1>4 DEF MergeOk

\* A profile that has arrived stays, unless the user becomes an exception.
LEMMA ArrivesLasts ==
    ASSUME ProfileArrives,
           \A u \in Users : u \notin recent' \cup sync'.queue \cup lost' \cup stale' =>
             /\ u \notin recent \cup sync.queue \cup lost \cup stale
             /\ profile'[u] = profile[u]
             /\ names'[u].dept = names[u].dept
             /\ names'[u].orcids = names[u].orcids
    PROVE  ProfileArrives'
BY DEF ProfileArrives

\* No run carries anything.
LEMMA Runless ==
    /\ DOMAIN NoSync = {"queue", "user", "profile", "cern", "orcid"}
    /\ NoSync.queue = {} /\ NoSync.user = ""
    /\ DOMAIN NoMerge = {"queue", "dest", "todo", "done", "copies"}
    /\ NoMerge.queue = {} /\ NoMerge.todo = {} /\ NoMerge.done = {}
BY DEF NoSync, NoMerge

\* One name is written.
LEMMA OnlyOne ==
    ASSUME NEW i, NEW n
    PROVE  DOMAIN Only(i, n) = {i} /\ Only(i, n)[i] = n
BY DEF Only

-----------------------------------------------------------------------------
(* The environment                                                         *)

LEMMA EditKeeps ==
    ASSUME NamesInv, NEW u \in Users, NEW p \in Profile, Edit(u, p)
    PROVE  NamesInv'
<1> USE DEF NamesInv
<1>1. /\ profile' = [profile EXCEPT ![u] = p]
      /\ recent' = recent \cup {u}
      /\ given' = [given EXCEPT ![u] = @ \cup ({p.orcid} \ {NoOrcid})]
      /\ names' = names /\ indexed' = indexed /\ sync' = sync /\ merge' = merge
      /\ stale' = stale /\ lost' = lost
  BY DEF Edit
<1>2. p.orcid \in Orcids \cup {NoOrcid}
  BY DEF Profile
<1>3. /\ given' \in [Users -> SUBSET Orcids]
      /\ \A w \in Users : given[w] \subseteq given'[w]
      /\ \A w \in Users : given'[w] = given[w]
                          \/ given'[w] = given[w] \cup ({p.orcid} \ {NoOrcid})
  BY <1>1, <1>2 DEF TypeOk
<1>4. GoodStays
  BY <1>1, <1>3, GoodLasts DEF Exists
<1>5. TypeOk'
  <2>1. IsFiniteSet({p.orcid} \ {NoOrcid})
    <3>1. {p.orcid} \ {NoOrcid} = {p.orcid} \/ {p.orcid} \ {NoOrcid} = {}
      OBVIOUS
    <3>2. IsFiniteSet({p.orcid}) /\ IsFiniteSet({})
      BY FS_Singleton, FS_EmptySet
    <3> QED
      BY <3>1, <3>2
  <2>2. ASSUME NEW w \in Users PROVE IsFiniteSet(given'[w])
    <3>1. IsFiniteSet(given[w])
      BY DEF TypeOk
    <3>2. IsFiniteSet(given[w] \cup ({p.orcid} \ {NoOrcid}))
      BY <2>1, <3>1, FS_Union
    <3>3. given'[w] = given[w] \/ given'[w] = given[w] \cup ({p.orcid} \ {NoOrcid})
      BY <1>3
    <3> QED
      BY <3>1, <3>2, <3>3
  <2>3. profile' \in [Users -> Profile] /\ recent' \subseteq Users
    BY <1>1 DEF TypeOk
  <2>4. \A w \in Users : profile'[w].orcid \in given'[w] \cup {NoOrcid}
    BY <1>1 DEF TypeOk
  <2> QED
    BY <1>1, <1>3, <2>2, <2>3, <2>4 DEF TypeOk
<1>6. NamesOk'
  <2> SUFFICES ASSUME NEW i \in Ids PROVE Good(i, names[i])' /\ Good(i, indexed[i])'
    BY DEF NamesOk
  <2>1. PICK n \in Name, m \in Name : n = names[i] /\ m = indexed[i]
    BY DEF TypeOk
  <2>2. Good(i, n)' /\ Good(i, m)'
    BY <1>4, <2>1 DEF NamesOk, GoodStays
  <2>3. n = names'[i] /\ m = indexed'[i]
    BY <1>1, <2>1
  <2> QED
    BY <2>2, <2>3
<1>7. \A w \in Users : w \notin recent' => w \notin recent /\ profile'[w] = profile[w]
  BY <1>1 DEF TypeOk
<1>8. SyncOk'
  BY <1>1, <1>3, <1>4, <1>7, SyncLasts
<1>9. MergeOk'
  BY <1>1, <1>4, MergeLasts
<1>10. ProfileArrives'
  BY <1>1, <1>7, ArrivesLasts
<1> QED
  BY <1>5, <1>6, <1>8, <1>9, <1>10

LEMMA HarvestKeeps ==
    ASSUME NamesInv, NEW o \in Orcids, HarvestOrcid(o)
    PROVE  NamesInv'
<1> USE DEF NamesInv
<1>1. PICK n : /\ n = (IF Exists(o) THEN [names[o] EXCEPT !.orcids = <<o>>]
                       ELSE [NoName EXCEPT !.orcids = <<o>>, !.listed = TRUE])
               /\ Put(Only(o, n))
               /\ UNCHANGED <<profile, recent, indexed, sync, merge, given, stale, lost>>
  BY DEF HarvestOrcid
<1>2. o \in Ids /\ o \notin Users
  BY NamesIds DEF Ids
<1>3. names[o] \in Name /\ NoName \in Name /\ Good(o, names[o])
  BY <1>2, FewOrcids DEF TypeOk, NamesOk
<1>4. n \in Name /\ n.orcids = <<o>> /\ (n.listed \/ (Exists(o) /\ n.listed = names[o].listed))
  BY <1>1, <1>3, FewOrcids DEF Name
<1>5. n # NoName /\ Fit(o, n)
  <2>1. ToSet(n.orcids) = {o}
    BY <1>4, FewOrcids
  <2>2. n # NoName
    BY <2>1, SomeName
  <2>3. Alone(o) => n.listed
    BY <1>2, <1>3, <1>4 DEF Good, Fit, OrcidName, Exists
  <2> QED
    BY <1>2, <1>4, <2>1, <2>2, <2>3 DEF Fit, OrcidName
<1>6. /\ names' \in [Ids -> Name]
      /\ \A i \in Ids : names'[i] = IF i \in {o} THEN n ELSE names[i]
      /\ NamesOk' /\ GoodStays
  <2>1. PICK new : new = Only(o, n)
    OBVIOUS
  <2>2. DOMAIN new = {o} /\ new[o] = n
    BY <2>1, OnlyOne
  <2>3. \A i \in DOMAIN new : new[i] # NoName /\ Fit(i, new[i])
    <3> TAKE i \in DOMAIN new
    <3>1. i = o
      BY <2>2
    <3> QED
      BY <1>5, <2>2, <3>1
  <2>4. /\ names' \in [Ids -> Name]
        /\ \A i \in Ids : names'[i] = IF i \in DOMAIN new THEN new[i] ELSE names[i]
        /\ NamesOk' /\ GoodStays
    BY <1>1, <1>2, <2>1, <2>2, <2>3, Writes
  <2> QED
    BY <2>2, <2>3, <2>4
<1>7. \A u \in Users : names'[u] = names[u]
  BY <1>2, <1>6 DEF Ids
<1>8. TypeOk'
  BY <1>1, <1>6 DEF TypeOk
<1>9. SyncOk'
  BY <1>1, <1>6, <1>7, SyncLasts
<1>10. MergeOk'
  BY <1>1, <1>6, MergeLasts
<1>11. ProfileArrives'
  BY <1>1, <1>7, ArrivesLasts
<1> QED
  BY <1>6, <1>8, <1>9, <1>10, <1>11

LEMMA RefreshKeeps ==
    ASSUME NamesInv, NEW i \in Ids, Refresh(i)
    PROVE  NamesInv'
<1> USE DEF NamesInv
<1>1. /\ indexed' = [indexed EXCEPT ![i] = names[i]]
      /\ UNCHANGED <<profile, recent, names, sync, merge, given, stale, lost>>
  BY DEF Refresh
<1>2. GoodStays
  BY <1>1, GoodLasts DEF TypeOk, Exists
<1>3. TypeOk'
  BY <1>1 DEF TypeOk
<1>4. NamesOk'
  <2> SUFFICES ASSUME NEW j \in Ids PROVE Good(j, names[j])' /\ Good(j, indexed[j])'
    BY DEF NamesOk
  <2>1. PICK n \in Name, m \in Name : n = names[j] /\ m = indexed[j]
    BY DEF TypeOk
  <2>2. Good(j, n)' /\ Good(j, m)'
    BY <1>2, <2>1 DEF NamesOk, GoodStays
  <2>3. n = names'[j] /\ (m = indexed'[j] \/ n = indexed'[j])
    BY <1>1, <2>1 DEF TypeOk
  <2> QED
    BY <2>2, <2>3
<1>5. SyncOk'
  BY <1>1, <1>2, SyncLasts
<1>6. MergeOk'
  BY <1>1, <1>2, MergeLasts
<1>7. ProfileArrives'
  BY <1>1, ArrivesLasts
<1> QED
  BY <1>3, <1>4, <1>5, <1>6, <1>7

-----------------------------------------------------------------------------
(* The synchronisation                                                     *)

LEMMA SyncStartKeeps ==
    ASSUME NamesInv, SyncStart
    PROVE  NamesInv'
<1> USE DEF NamesInv
<1>1. /\ sync = NoSync /\ sync' = [NoSync EXCEPT !.queue = recent] /\ recent' = {}
      /\ UNCHANGED <<profile, names, indexed, merge, given, stale, lost>>
  BY DEF SyncStart
<1>2. TypeOk' /\ NamesOk' /\ GoodStays
  BY <1>1, QuietNames
<1>3. sync'.queue = recent /\ sync'.user = "" /\ sync.queue = {}
  BY <1>1 DEF NoSync
<1>4. sync' = [queue |-> recent, user |-> NoSync.user, profile |-> NoSync.profile,
               cern |-> NoSync.cern, orcid |-> NoSync.orcid]
  BY <1>1 DEF NoSync
<1>5. SyncOk'
  BY <1>3, <1>4 DEF SyncOk, TypeOk
<1>6. MergeOk'
  BY <1>1, <1>2, MergeLasts
<1>7. ProfileArrives'
  BY <1>1, <1>3, ArrivesLasts
<1> QED
  BY <1>2, <1>5, <1>6, <1>7

LEMMA SyncReadKeeps ==
    ASSUME NamesInv, NEW u \in Users, SyncRead(u)
    PROVE  NamesInv'
<1> USE DEF NamesInv
<1>1. PICK s : /\ s = [sync EXCEPT !.user = u, !.profile = profile[u], !.cern = names[u],
                         !.orcid = IF profile[u].orcid = NoOrcid THEN NoName
                                   ELSE names[profile[u].orcid]]
               /\ sync' = s /\ u \in sync.queue
               /\ UNCHANGED <<profile, recent, names, indexed, merge, given, stale, lost>>
  BY DEF SyncRead
<1>2. TypeOk' /\ NamesOk' /\ GoodStays
  BY <1>1, QuietNames DEF TypeOk
<1>3. /\ s = [queue |-> s.queue, user |-> s.user, profile |-> s.profile,
              cern |-> s.cern, orcid |-> s.orcid]
      /\ s.queue = sync.queue /\ s.user = u /\ s.profile = profile[u] /\ s.cern = names[u]
      /\ s.orcid = IF profile[u].orcid = NoOrcid THEN NoName ELSE names[profile[u].orcid]
  BY <1>1 DEF SyncOk
<1>4. u \in Ids /\ profile[u] \in Profile /\ profile[u].orcid \in given[u] \cup {NoOrcid}
  BY DEF TypeOk, Ids
<1>5. ReadOk(s)
  <2>1. Good(s.user, s.cern)
    BY <1>3, <1>4 DEF NamesOk
  <2>2. ASSUME s.profile.orcid # NoOrcid PROVE Good(s.profile.orcid, s.orcid)
    <3>1. s.profile.orcid \in Ids /\ s.orcid = names[s.profile.orcid]
      BY <1>3, <1>4, <2>2 DEF Profile, Ids
    <3> QED
      BY <3>1 DEF NamesOk
  <2>3. s.profile.orcid = NoOrcid => s.orcid = NoName
    BY <1>3
  <2> QED
    BY <1>1, <1>3, <1>4, <2>1, <2>2, <2>3 DEF ReadOk
<1>6. ReadOk(s)'
  <2>1. /\ \A w \in Users : given[w] \subseteq given'[w]
        /\ s.user \notin recent' => s.user \notin recent /\ profile'[s.user] = profile[s.user]
        /\ s.user \notin stale' => /\ s.user \notin stale
                                   /\ names'[s.user].dept = names[s.user].dept
                                   /\ names'[s.user].orcids = names[s.user].orcids
    BY <1>1
  <2> QED
    BY <1>2, <1>5, <2>1, ReadLasts
<1>7. SyncOk'
  <2>1. s = sync'
    BY <1>1
  <2>2. ReadOk(sync)'
    BY <1>6, <2>1
  <2>3. s.queue \subseteq Users
    BY <1>3 DEF SyncOk
  <2> QED
    BY <1>3, <2>1, <2>2, <2>3 DEF SyncOk
<1>8. MergeOk'
  BY <1>1, <1>2, MergeLasts
<1>9. ProfileArrives'
  BY <1>1, <1>3, ArrivesLasts
<1> QED
  BY <1>2, <1>7, <1>8, <1>9

LEMMA SyncFailsKeeps ==
    ASSUME NamesInv, SyncFails
    PROVE  NamesInv'
<1> USE DEF NamesInv
<1>1. /\ sync' = NoSync /\ lost' = lost \cup sync.queue
      /\ UNCHANGED <<profile, recent, names, indexed, merge, given, stale>>
  BY DEF SyncFails
<1>2. TypeOk' /\ NamesOk' /\ GoodStays
  BY <1>1, QuietNames DEF TypeOk
<1>3. SyncOk'
  BY <1>1 DEF SyncOk, NoSync
<1>4. MergeOk'
  BY <1>1, <1>2, MergeLasts
<1>5. ProfileArrives'
  BY <1>1, ArrivesLasts
<1> QED
  BY <1>2, <1>3, <1>4, <1>5

\* What the synchronisation writes of a user may be written: the name of the person
\* id, unlisted only if there is a name of the ORCID, and that name, updated.
LEMMA SyncedNames ==
    ASSUME NamesInv, sync.user # ""
    PROVE  /\ Fit(sync.user, OwnName)
           /\ OwnName # NoName /\ (sync.profile.dept # 0 => OwnName.dept = sync.profile.dept)
           /\ sync.profile.orcid \in {NoOrcid} \cup ToSet(OwnName.orcids)
           /\ sync.orcid # NoName =>
                /\ sync.profile.orcid \in Orcids
                /\ Fit(sync.profile.orcid, Updated(sync.orcid, sync.profile, FALSE))
                /\ Updated(sync.orcid, sync.profile, FALSE) # NoName
<1>1. PICK s, own, b : s = sync /\ own = OwnName /\ b = Unlists
  OBVIOUS
<1>2. b \in BOOLEAN /\ (b <=> s.orcid # NoName)
  BY <1>1 DEF Unlists
<1>3. /\ s.user \in Users /\ s.profile \in Profile /\ Good(s.user, s.cern)
      /\ s.profile.orcid \in given[s.user] \cup {NoOrcid}
      /\ s.profile.orcid = NoOrcid => s.orcid = NoName
      /\ s.profile.orcid # NoOrcid => Good(s.profile.orcid, s.orcid)
  BY <1>1 DEF NamesInv, SyncOk, ReadOk
<1>4. s.profile.orcid \in Orcids \cup {NoOrcid} /\ s.user \notin Orcids /\ s.cern \in Name
  BY <1>3, NamesIds DEF Profile, Good, Fit
<1>5. own = IF s.cern = NoName THEN NewName(s.profile, b) ELSE Updated(s.cern, s.profile, b)
  BY <1>1 DEF OwnName
<1>6. /\ own \in Name /\ (s.profile.dept # 0 => own.dept = s.profile.dept) /\ own.cern = TRUE
      /\ ToSet(own.orcids) = ToSet(s.cern.orcids) \cup ({s.profile.orcid} \ {NoOrcid})
      /\ own.listed = IF s.cern = NoName THEN ~b ELSE s.cern.listed /\ ~b
  <2>1. CASE s.cern = NoName
    <3>1. /\ NewName(s.profile, b) \in Name
          /\ ToSet(NewName(s.profile, b).orcids) = {s.profile.orcid} \ {NoOrcid}
          /\ NewName(s.profile, b).dept = s.profile.dept
          /\ NewName(s.profile, b).cern = TRUE
          /\ NewName(s.profile, b).listed = ~b
      BY <1>2, <1>3, NewNameTakes
    <3>2. ToSet(s.cern.orcids) = {}
      BY <2>1, FewOrcids
    <3> QED
      BY <1>5, <2>1, <3>1, <3>2
  <2>2. CASE s.cern # NoName
    <3>1. /\ Updated(s.cern, s.profile, b) \in Name
          /\ ToSet(Updated(s.cern, s.profile, b).orcids)
               = ToSet(s.cern.orcids) \cup ({s.profile.orcid} \ {NoOrcid})
          /\ s.profile.dept # 0 => Updated(s.cern, s.profile, b).dept = s.profile.dept
          /\ Updated(s.cern, s.profile, b).cern = TRUE
          /\ Updated(s.cern, s.profile, b).listed = (s.cern.listed /\ ~b)
      BY <1>2, <1>3, <1>4, UpdatedTakes
    <3> QED
      BY <1>5, <2>2, <3>1
  <2> QED
    BY <2>1, <2>2
<1>7. own # NoName
  BY <1>6, SomeName
<1>8. UserName(s.user, own)
  <2>1. ToSet(s.cern.orcids) \subseteq given[s.user]
    BY <1>3 DEF Good, Fit, UserName
  <2>2. ASSUME ~own.listed PROVE \E o \in ToSet(own.orcids) : Exists(o)
    <3>1. CASE b
      <4>1. s.orcid # NoName /\ s.profile.orcid # NoOrcid /\ Exists(s.profile.orcid)
        BY <1>2, <1>3, <3>1 DEF Good
      <4> QED
        BY <1>6, <4>1
    <3>2. CASE ~b
      <4>1. s.cern # NoName /\ ~s.cern.listed
        BY <1>6, <2>2, <3>2
      <4> QED
        BY <1>3, <1>6, <4>1 DEF Good, Fit, UserName
    <3> QED
      BY <1>2, <3>1, <3>2
  <2> QED
    BY <1>3, <1>6, <2>1, <2>2 DEF UserName
<1>9. Fit(s.user, own)
  BY <1>4, <1>6, <1>8 DEF Fit
<1>10. ASSUME s.orcid # NoName
       PROVE  LET o == s.profile.orcid   n == Updated(s.orcid, s.profile, FALSE)
              IN  o \in Orcids /\ Fit(o, n) /\ n # NoName
  <2> DEFINE o == s.profile.orcid
             n == Updated(s.orcid, s.profile, FALSE)
  <2>1. o # NoOrcid /\ Good(o, s.orcid)
    BY <1>3, <1>10
  <2>2. o \in Orcids /\ o \notin Users
    BY <1>4, <2>1, NamesIds
  <2>3. s.orcid \in Name /\ OrcidName(o, s.orcid)
    BY <2>1, <2>2 DEF Good, Fit
  <2>4. /\ n \in Name /\ n.cern = TRUE /\ n.listed = s.orcid.listed
        /\ ToSet(n.orcids) = ToSet(s.orcid.orcids) \cup {o}
    <3>1. FALSE \in BOOLEAN /\ {o} \ {NoOrcid} = {o}
      BY <2>1
    <3>2. /\ n \in Name /\ n.cern = TRUE /\ n.listed = (s.orcid.listed /\ ~FALSE)
          /\ ToSet(n.orcids) = ToSet(s.orcid.orcids) \cup ({o} \ {NoOrcid})
      BY <1>3, <2>3, <3>1, UpdatedTakes
    <3>3. s.orcid.listed \in BOOLEAN
      BY <2>3 DEF Name
    <3> HIDE DEF n, o
    <3> QED
      BY <3>1, <3>2, <3>3
  <2> HIDE DEF n, o
  <2>5. n # NoName
    BY <2>4, SomeName
  <2>6. OrcidName(o, n)
    BY <1>10, <2>3, <2>4 DEF OrcidName
  <2>7. Fit(o, n)
    BY <2>2, <2>4, <2>6 DEF Fit
  <2> QED
    BY <2>2, <2>5, <2>7 DEF o, n
<1> QED
  BY <1>1, <1>6, <1>7, <1>9, <1>10

LEMMA SyncWriteKeeps ==
    ASSUME NamesInv, NEW refused, SyncWrite(refused)
    PROVE  NamesInv'
<1> USE DEF NamesInv
<1>1. PICK u, o, mine, yours, cern :
        /\ u = sync.user /\ o = sync.profile.orcid /\ cern = sync.cern
        /\ mine = OwnName /\ yours = Updated(sync.orcid, sync.profile, FALSE)
  OBVIOUS
<1> DEFINE changed == {i \in {u, o} : IF i = u THEN mine # cern
                                     ELSE sync.orcid # NoName /\ yours # sync.orcid}
           put == changed \ refused
<1>2. PICK base : base = [i \in put |-> IF i = u THEN mine ELSE yours] /\ Put(base)
  BY <1>1 DEF SyncWrite
<1>3. /\ u # ""
      /\ stale' = IF u \in put \/ names[u] = cern THEN stale \ {u} ELSE stale
      /\ lost' = (lost \ {u}) \cup refused
      /\ sync' = [NoSync EXCEPT !.queue = sync.queue \ {u}]
      /\ UNCHANGED <<profile, recent, indexed, merge, given>>
  BY <1>1 DEF SyncWrite
<1>4. /\ Fit(u, mine) /\ mine # NoName
      /\ sync.profile.dept # 0 => mine.dept = sync.profile.dept
      /\ o \in {NoOrcid} \cup ToSet(mine.orcids)
      /\ sync.orcid # NoName => o \in Orcids /\ Fit(o, yours) /\ yours # NoName
  BY <1>1, <1>3, SyncedNames
<1>5. /\ u \in Users /\ u \in sync.queue /\ Good(u, cern)
      /\ u \notin recent => profile[u] = sync.profile
      /\ u \notin stale => names[u].dept = cern.dept /\ names[u].orcids = cern.orcids
  BY <1>1, <1>3 DEF SyncOk, ReadOk
<1>6. /\ DOMAIN base = put
      /\ \A i \in put : \/ i = u /\ base[i] = mine
                        \/ i # u /\ i = o /\ sync.orcid # NoName /\ base[i] = yours
      /\ u \notin put => u \in refused \/ mine = cern
  BY <1>2
<1> HIDE DEF changed, put
<1>7. /\ names' \in [Ids -> Name]
      /\ \A i \in Ids : names'[i] = IF i \in put THEN base[i] ELSE names[i]
      /\ NamesOk' /\ GoodStays
  <2>1. \A i \in DOMAIN base : i \in Ids /\ base[i] # NoName /\ Fit(i, base[i])
    BY <1>4, <1>5, <1>6 DEF Ids
  <2>2. DOMAIN base \subseteq Ids
    BY <2>1
  <2> QED
    BY <1>2, <1>3, <1>6, <2>1, <2>2, Writes
<1>8. \A w \in Users \ {u} : names'[w] = names[w]
  <2> TAKE w \in Users \ {u}
  <2>1. w \in Ids /\ w \notin Orcids
    BY NamesIds DEF Ids
  <2>2. w \notin put
    BY <1>4, <1>6, <2>1
  <2> QED
    BY <1>7, <2>1, <2>2
<1>9. TypeOk'
  BY <1>3, <1>7 DEF TypeOk
<1>10. SyncOk'
  BY <1>1, <1>3 DEF SyncOk, NoSync
<1>11. MergeOk'
  BY <1>3, <1>7, MergeLasts
<1>12. sync'.queue = sync.queue \ {u}
  BY <1>3 DEF NoSync
<1>13. \/ u \in stale' \cup lost'
       \/ /\ sync.profile.dept # 0 => names'[u].dept = sync.profile.dept
          /\ sync.profile.orcid \in {NoOrcid} \cup ToSet(names'[u].orcids)
  <2>1. u \in Ids
    BY <1>5 DEF Ids
  <2>2. CASE u \in put
    <3>1. names'[u] = mine
      BY <1>6, <1>7, <2>1, <2>2
    <3> QED
      BY <1>1, <1>4, <3>1
  <2>3. CASE u \notin put /\ u \in refused
    BY <1>3, <2>3
  <2>4. CASE u \notin put /\ u \notin refused
    <3>1. mine = cern
      BY <1>6, <2>4
    <3>2. names'[u] = names[u]
      BY <1>7, <2>1, <2>4
    <3>3. u \in stale' \/ (names[u].dept = cern.dept /\ names[u].orcids = cern.orcids)
      BY <1>1, <1>3, <1>5, <2>4
    <3> QED
      BY <1>1, <1>4, <3>1, <3>2, <3>3
  <2> QED
    BY <2>2, <2>3, <2>4
<1>14. ProfileArrives'
  <2> SUFFICES ASSUME NEW w \in Users,
                      w \notin recent' \cup sync'.queue \cup lost' \cup stale'
               PROVE  /\ profile'[w].dept # 0 => names'[w].dept = profile'[w].dept
                      /\ profile'[w].orcid \in {NoOrcid} \cup ToSet(names'[w].orcids)
    BY DEF ProfileArrives
  <2>1. CASE w = u
    <3>1. profile'[u] = sync.profile
      BY <1>1, <1>3, <1>5, <2>1
    <3> QED
      BY <1>13, <2>1, <3>1
  <2>2. CASE w # u
    <3>1. w \notin recent \cup sync.queue \cup lost \cup stale
      BY <1>3, <1>12, <2>2
    <3> QED
      BY <1>3, <1>8, <2>2, <3>1 DEF ProfileArrives
  <2> QED
    BY <2>1, <2>2
<1> QED
  BY <1>7, <1>9, <1>10, <1>11, <1>14

-----------------------------------------------------------------------------
(* The merge                                                               *)

LEMMA MergeScanKeeps ==
    ASSUME NamesInv, MergeScan
    PROVE  NamesInv'
<1> USE DEF NamesInv
<1>1. /\ merge' = [NoMerge EXCEPT !.queue = Candidates]
      /\ UNCHANGED <<profile, recent, names, indexed, sync, given, stale, lost>>
  BY DEF MergeScan
<1>2. TypeOk' /\ NamesOk' /\ GoodStays
  BY <1>1, QuietNames DEF TypeOk
<1>3. SyncOk'
  BY <1>1, <1>2, SyncLasts
<1>4. MergeOk'
  BY <1>1 DEF MergeOk, NoMerge
<1>5. ProfileArrives'
  BY <1>1, ArrivesLasts
<1> QED
  BY <1>2, <1>3, <1>4, <1>5

LEMMA MergeResolveKeeps ==
    ASSUME NamesInv, NEW i \in Ids, MergeResolve(i)
    PROVE  NamesInv'
<1> USE DEF NamesInv
<1>1. PICK o, others, rest :
        /\ others = (IF o \in Sharing(o) THEN Sharing(o) \ {o} ELSE {})
        /\ rest = [NoMerge EXCEPT !.queue = merge.queue \ {i}]
        /\ merge' = IF others = {} THEN rest
                    ELSE [rest EXCEPT !.dest = o, !.todo = others, !.copies = indexed]
        /\ UNCHANGED <<profile, recent, names, indexed, sync, given, stale, lost>>
  BY DEF MergeResolve
<1>2. TypeOk' /\ NamesOk' /\ GoodStays
  BY <1>1, QuietNames DEF TypeOk
<1>3. SyncOk'
  BY <1>1, <1>2, SyncLasts
<1>4. ASSUME others = {} PROVE MergeOk'
  BY <1>1, <1>4 DEF MergeOk, NoMerge
<1>5. ASSUME others # {} PROVE MergeOk'
  <2>1. /\ others = Sharing(o) \ {o} /\ o \in Sharing(o)
    BY <1>1, <1>5
  <2>2. o \in Ids /\ \A j \in others \cup {o} : j \in Ids /\ o \in ToSet(indexed[j].orcids)
    BY <2>1 DEF Sharing
  <2>3. PICK m : m = [queue |-> rest.queue, dest |-> o, todo |-> others, done |-> {},
                      copies |-> indexed]
    OBVIOUS
  <2>4. m = merge'
    BY <1>1, <1>5, <2>3 DEF NoMerge
  <2>5. o \in Orcids
    <3>1. indexed[o] \in Name /\ o \in ToSet(indexed[o].orcids)
      BY <2>2 DEF TypeOk
    <3> QED
      BY <3>1, FewOrcids
  <2>6. CopiesOk(m)
    <3>1. \A j \in Ids : Good(j, m.copies[j])
      BY <2>3 DEF NamesOk
    <3>2. m.copies \in [Ids -> Name]
      BY <2>3 DEF TypeOk
    <3>3. m.todo \subseteq Ids \ {m.dest} /\ m.done \subseteq m.todo
      BY <2>1, <2>2, <2>3
    <3> QED
      BY <2>2, <2>3, <2>5, <3>1, <3>2, <3>3 DEF CopiesOk
  <2>7. CopiesOk(m)'
    BY <1>2, <2>6, CopiesLast
  <2>8. CopiesOk(merge)'
    BY <2>4, <2>7
  <2>9. merge' = [queue |-> merge'.queue, dest |-> merge'.dest, todo |-> merge'.todo,
                  done |-> merge'.done, copies |-> merge'.copies] /\ merge'.todo # {}
    BY <1>5, <2>3, <2>4
  <2> QED
    BY <2>8, <2>9 DEF MergeOk
<1>6. MergeOk'
  BY <1>4, <1>5
<1>7. ProfileArrives'
  BY <1>1, ArrivesLasts
<1> QED
  BY <1>2, <1>3, <1>6, <1>7

LEMMA MergeSourceKeeps ==
    ASSUME NamesInv, NEW i \in Ids, MergeSource(i)
    PROVE  NamesInv'
<1> USE DEF NamesInv
<1>1. PICK m, copy, n : m = merge /\ copy = merge.copies[i] /\ n = [copy EXCEPT !.listed = FALSE]
  OBVIOUS
<1>2. /\ i \in m.todo
      /\ copy.listed => /\ Put(Only(i, n))
                        /\ stale' = stale \cup (IF names[i] # copy THEN {i} ELSE {})
      /\ ~copy.listed => UNCHANGED <<names, stale>>
      /\ merge' = [m EXCEPT !.done = {i}]
      /\ UNCHANGED <<profile, recent, indexed, sync, given, lost>>
  BY <1>1 DEF MergeSource
<1>3. /\ CopiesOk(m)
      /\ m = [queue |-> m.queue, dest |-> m.dest, todo |-> m.todo,
              done |-> m.done, copies |-> m.copies]
  BY <1>1, <1>2 DEF MergeOk
<1>4. /\ copy \in Name /\ Good(i, copy) /\ m.dest \in ToSet(copy.orcids)
      /\ m.dest \in Orcids /\ m.dest # i /\ Exists(m.dest)
  <2>1. copy \in Name /\ Good(i, copy) /\ m.dest \in ToSet(copy.orcids)
        /\ m.dest \in Orcids /\ m.dest # i
    BY <1>1, <1>2, <1>3 DEF CopiesOk
  <2>2. m.dest \in Ids /\ Good(m.dest, m.copies[m.dest]) /\ m.dest \in ToSet(m.copies[m.dest].orcids)
    BY <1>3 DEF CopiesOk, Ids
  <2>3. m.copies[m.dest] # NoName
    BY <2>2, SomeName
  <2> QED
    BY <2>1, <2>2, <2>3 DEF Good
<1>5. n \in Name /\ n.orcids = copy.orcids /\ n.dept = copy.dept /\ n.listed = FALSE
  BY <1>1, <1>4, Unlisted
<1>6. n # NoName /\ Fit(i, n)
  <2>1. n # NoName
    BY <1>4, <1>5, SomeName
  <2>2. i \in Users => UserName(i, n)
    BY <1>4, <1>5 DEF UserName, Good, Fit
  <2>3. i \in Orcids => OrcidName(i, n)
    BY <1>4, <1>5 DEF OrcidName, Good, Fit
  <2> QED
    BY <1>5, <2>1, <2>2, <2>3 DEF Fit
<1>7. /\ names' \in [Ids -> Name]
      /\ \A j \in Ids : names'[j] = names[j] \/ (j = i /\ names'[j] = n)
      /\ NamesOk' /\ GoodStays
  <2>1. CASE copy.listed
    <3>1. PICK new : new = Only(i, n)
      OBVIOUS
    <3>2. DOMAIN new = {i} /\ new[i] = n
      BY <3>1, OnlyOne
    <3>3. \A j \in DOMAIN new : new[j] # NoName /\ Fit(j, new[j])
      <4> TAKE j \in DOMAIN new
      <4>1. j = i
        BY <3>2
      <4> QED
        BY <1>6, <3>2, <4>1
    <3>4. /\ names' \in [Ids -> Name]
          /\ \A j \in Ids : names'[j] = IF j \in DOMAIN new THEN new[j] ELSE names[j]
          /\ NamesOk' /\ GoodStays
      BY <1>2, <2>1, <3>1, <3>2, <3>3, Writes
    <3> QED
      BY <3>2, <3>4
  <2>2. CASE ~copy.listed
    BY <1>2, <2>2, QuietNames DEF TypeOk
  <2> QED
    BY <2>1, <2>2
<1>8. stale \subseteq stale' /\ (names[i] # copy /\ names' # names => i \in stale')
  <2>1. CASE copy.listed
    BY <1>2, <2>1
  <2>2. CASE ~copy.listed
    BY <1>2, <2>2
  <2> QED
    BY <2>1, <2>2
<1>9. \A u \in Users : u \notin stale' => /\ u \notin stale
                                          /\ names'[u].dept = names[u].dept
                                          /\ names'[u].orcids = names[u].orcids
  <2> TAKE u \in Users
  <2> HAVE u \notin stale'
  <2>1. u \in Ids
    BY DEF Ids
  <2>2. CASE names'[u] = names[u]
    BY <1>8, <2>2
  <2>3. CASE names'[u] # names[u]
    <3>1. u = i /\ names'[u] = n /\ names[u] = copy
      BY <1>7, <1>8, <2>1, <2>3
    <3> QED
      BY <1>5, <1>8, <3>1
  <2> QED
    BY <2>2, <2>3
<1>10. TypeOk'
  BY <1>2, <1>7 DEF TypeOk
<1>11. SyncOk'
  BY <1>2, <1>7, <1>9, SyncLasts
<1>12. MergeOk'
  <2>1. PICK r : r = [queue |-> m.queue, dest |-> m.dest, todo |-> m.todo,
                      done |-> {i}, copies |-> m.copies]
    OBVIOUS
  <2>2. r = merge'
    BY <1>2, <1>3, <2>1
  <2>3. CopiesOk(r)
    BY <1>2, <1>3, <2>1 DEF CopiesOk
  <2>4. CopiesOk(r)'
    BY <1>7, <2>3, CopiesLast
  <2>5. CopiesOk(merge)'
    BY <2>2, <2>4
  <2>6. merge' = [queue |-> merge'.queue, dest |-> merge'.dest, todo |-> merge'.todo,
                  done |-> merge'.done, copies |-> merge'.copies] /\ merge'.todo # {}
    BY <1>2, <2>1, <2>2
  <2> QED
    BY <2>5, <2>6 DEF MergeOk
<1>13. ProfileArrives'
  BY <1>2, <1>9, ArrivesLasts
<1> QED
  BY <1>7, <1>10, <1>11, <1>12, <1>13

LEMMA MergeDestKeeps ==
    ASSUME NamesInv, NEW i \in Ids, MergeDest(i)
    PROVE  NamesInv'
<1> USE DEF NamesInv
<1>1. PICK m, o, copy, n : /\ m = merge /\ o = merge.dest /\ copy = merge.copies[o]
                           /\ n = MergedInto(copy, merge.copies[i])
  OBVIOUS
<1>2. /\ m.done = {i}
      /\ n # copy => Put(Only(o, n))
      /\ n = copy => UNCHANGED names
      /\ merge' = IF m.todo = {i} THEN [NoMerge EXCEPT !.queue = m.queue]
                  ELSE [m EXCEPT !.todo = @ \ {i}, !.done = {}, !.copies[o] = n]
      /\ UNCHANGED <<profile, recent, indexed, sync, given, stale, lost>>
  BY <1>1 DEF MergeDest
<1>3. /\ CopiesOk(m)
      /\ m = [queue |-> m.queue, dest |-> m.dest, todo |-> m.todo,
              done |-> m.done, copies |-> m.copies]
  BY <1>1, <1>2 DEF MergeOk
<1>4. /\ o \in Orcids /\ o \in Ids /\ o \notin Users /\ i \in m.todo /\ i # o
      /\ copy \in Name /\ Good(o, copy) /\ o \in ToSet(copy.orcids)
      /\ m.copies[i] \in Name /\ Good(i, m.copies[i]) /\ o \in ToSet(m.copies[i].orcids)
  BY <1>1, <1>2, <1>3, NamesIds DEF CopiesOk, Ids
<1>5. /\ n \in Name /\ n.listed = copy.listed
      /\ ToSet(n.orcids) = ToSet(copy.orcids) \cup ToSet(m.copies[i].orcids)
  BY <1>1, <1>4, MergedIntoJoins
<1>6. n # NoName /\ Exists(o)
  <2>1. copy # NoName /\ n # NoName
    BY <1>4, <1>5, SomeName
  <2> QED
    BY <1>4, <2>1 DEF Good
<1>7. OrcidName(o, n)
  <2>1. OrcidName(o, copy)
    BY <1>4 DEF Good, Fit
  <2>2. ASSUME NEW c \in ToSet(m.copies[i].orcids) \ {o} PROVE ~Alone(c) /\ ~Alone(o)
    <3>1. CASE i \in Users
      <4>1. c \in given[i] /\ o \in given[i]
        BY <1>4, <3>1 DEF Good, Fit, UserName
      <4> QED
        BY <3>1, <4>1 DEF Alone
    <3>2. CASE i \in Orcids
      <4>1. OrcidName(i, m.copies[i])
        BY <1>4, <3>2 DEF Good, Fit
      <4>2. ~Alone(o) /\ ~Alone(i)
        BY <1>4, <4>1 DEF OrcidName
      <4> QED
        BY <4>1, <4>2 DEF OrcidName
    <3> QED
      BY <3>1, <3>2 DEF Ids
  <2>3. copy # NoName
    BY <1>4, SomeName
  <2> QED
    BY <1>5, <2>1, <2>2, <2>3 DEF OrcidName
<1>8. Fit(o, n) /\ Good(o, n)
  BY <1>4, <1>5, <1>6, <1>7 DEF Fit, Good
<1>9. /\ names' \in [Ids -> Name]
      /\ \A j \in Ids : j # o => names'[j] = names[j]
      /\ NamesOk' /\ GoodStays
  <2>1. CASE n # copy
    <3>1. PICK new : new = Only(o, n)
      OBVIOUS
    <3>2. DOMAIN new = {o} /\ new[o] = n
      BY <3>1, OnlyOne
    <3>3. \A j \in DOMAIN new : new[j] # NoName /\ Fit(j, new[j])
      <4> TAKE j \in DOMAIN new
      <4>1. j = o
        BY <3>2
      <4> QED
        BY <1>6, <1>8, <3>2, <4>1
    <3>4. /\ names' \in [Ids -> Name]
          /\ \A j \in Ids : names'[j] = IF j \in DOMAIN new THEN new[j] ELSE names[j]
          /\ NamesOk' /\ GoodStays
      BY <1>2, <1>4, <2>1, <3>1, <3>2, <3>3, Writes
    <3> QED
      BY <3>2, <3>4
  <2>2. CASE n = copy
    BY <1>2, <2>2, QuietNames DEF TypeOk
  <2> QED
    BY <2>1, <2>2
<1>10. \A u \in Users : names'[u] = names[u]
  BY <1>4, <1>9 DEF Ids
<1>11. TypeOk'
  BY <1>2, <1>9 DEF TypeOk
<1>12. SyncOk'
  BY <1>2, <1>9, <1>10, SyncLasts
<1>13. CASE m.todo = {i}
  <2>1. MergeOk'
    BY <1>2, <1>13 DEF MergeOk, NoMerge
  <2>2. ProfileArrives'
    BY <1>2, <1>10, ArrivesLasts
  <2> QED
    BY <1>9, <1>11, <1>12, <2>1, <2>2
<1>14. ASSUME m.todo # {i} PROVE MergeOk'
  <2>1. PICK r : r = [queue |-> m.queue, dest |-> m.dest, todo |-> m.todo \ {i},
                      done |-> {}, copies |-> [m.copies EXCEPT ![o] = n]]
    OBVIOUS
  <2>2. r = merge'
    BY <1>2, <1>3, <1>14, <2>1
  <2>3. CopiesOk(r)
    <3>1. m.copies \in [Ids -> Name]
      BY <1>3 DEF CopiesOk
    <3>2. /\ r.copies \in [Ids -> Name]
          /\ \A j \in Ids : r.copies[j] = IF j = o THEN n ELSE m.copies[j]
      BY <1>4, <1>5, <2>1, <3>1
    <3>3. \A j \in Ids : Good(j, r.copies[j])
      BY <1>3, <1>8, <3>2 DEF CopiesOk
    <3>4. r.dest = o /\ m.dest = o /\ r.todo \subseteq m.todo /\ r.done = {}
      BY <1>1, <2>1
    <3>5. \A j \in r.todo \cup {r.dest} : r.dest \in ToSet(r.copies[j].orcids)
      <4> TAKE j \in r.todo \cup {r.dest}
      <4>1. CASE j = o
        BY <1>4, <1>5, <3>2, <3>4, <4>1
      <4>2. CASE j # o
        <5>1. j \in m.todo /\ j \in Ids
          BY <1>3, <3>4, <4>2 DEF CopiesOk
        <5> QED
          BY <1>3, <3>2, <3>4, <4>2, <5>1 DEF CopiesOk
      <4> QED
        BY <4>1, <4>2
    <3> QED
      BY <1>3, <1>4, <3>2, <3>3, <3>4, <3>5 DEF CopiesOk
  <2>4. CopiesOk(r)'
    BY <1>9, <2>3, CopiesLast
  <2>5. CopiesOk(merge)'
    BY <2>2, <2>4
  <2>6. m.todo \ {i} # {}
    BY <1>4, <1>14
  <2>7. merge' = [queue |-> merge'.queue, dest |-> merge'.dest, todo |-> merge'.todo,
                  done |-> merge'.done, copies |-> merge'.copies] /\ merge'.todo # {}
    BY <2>1, <2>2, <2>6
  <2> QED
    BY <2>5, <2>7 DEF MergeOk
<1>15. ProfileArrives'
  BY <1>2, <1>10, ArrivesLasts
<1> QED
  BY <1>9, <1>11, <1>12, <1>13, <1>14, <1>15

LEMMA MergeFailsKeeps ==
    ASSUME NamesInv, MergeFails
    PROVE  NamesInv'
<1> USE DEF NamesInv
<1>1. /\ merge' = NoMerge /\ lost \subseteq lost'
      /\ UNCHANGED <<profile, recent, names, indexed, sync, given, stale>>
  BY DEF MergeFails
<1>2. TypeOk' /\ NamesOk' /\ GoodStays
  BY <1>1, QuietNames DEF TypeOk
<1>3. SyncOk'
  BY <1>1, <1>2, SyncLasts
<1>4. MergeOk'
  BY <1>1 DEF MergeOk, NoMerge
<1>5. ProfileArrives'
  BY <1>1, ArrivesLasts
<1> QED
  BY <1>2, <1>3, <1>4, <1>5

-----------------------------------------------------------------------------
(* The theorems                                                            *)

LEMMA NamesInit == Init => NamesInv
<1> SUFFICES ASSUME Init PROVE NamesInv
  OBVIOUS
<1>1. /\ profile \in [Users -> Profile] /\ recent = Users
      /\ names = [i \in Ids |-> NoName] /\ indexed = names
      /\ sync = NoSync /\ merge = NoMerge
      /\ given = [u \in Users |-> {profile[u].orcid} \ {NoOrcid}]
  BY DEF Init, Profile
<1>2. TypeOk
  <2>1. \A u \in Users : profile[u].orcid \in Orcids \cup {NoOrcid}
    BY <1>1 DEF Profile
  <2>2. ASSUME NEW u \in Users PROVE IsFiniteSet(given[u])
    <3>1. given[u] = {profile[u].orcid} \/ given[u] = {}
      BY <1>1
    <3>2. IsFiniteSet({profile[u].orcid}) /\ IsFiniteSet({})
      BY FS_Singleton, FS_EmptySet
    <3> QED
      BY <3>1, <3>2
  <2> QED
    BY <1>1, <2>1, <2>2, FewOrcids DEF TypeOk
<1>3. NamesOk
  <2> SUFFICES ASSUME NEW i \in Ids PROVE Good(i, NoName)
    BY <1>1 DEF NamesOk
  <2>1. UserName(i, NoName) /\ OrcidName(i, NoName)
    BY FewOrcids DEF UserName, OrcidName
  <2> QED
    BY <2>1, FewOrcids DEF Good, Fit
<1>4. SyncOk /\ MergeOk
  BY <1>1 DEF SyncOk, MergeOk, NoSync, NoMerge
<1>5. ProfileArrives
  BY <1>1 DEF ProfileArrives
<1> QED
  BY <1>2, <1>3, <1>4, <1>5 DEF NamesInv

LEMMA NamesNext == NamesInv /\ [Next]_vars => NamesInv'
<1> SUFFICES ASSUME NamesInv, [Next]_vars PROVE NamesInv'
  OBVIOUS
<1>1. ASSUME NEW u \in Users, NEW p \in [orcid : Orcids \cup {NoOrcid}, dept : Depts], Edit(u, p)
      PROVE  NamesInv'
  BY <1>1, EditKeeps DEF Profile
<1>2. ASSUME NEW o \in Orcids, HarvestOrcid(o) PROVE NamesInv'
  BY <1>2, HarvestKeeps
<1>3. ASSUME NEW i \in Ids, Refresh(i) PROVE NamesInv'
  BY <1>3, RefreshKeeps
<1>4. ASSUME \/ SyncStart \/ SyncFails \/ \E u \in Users : SyncRead(u)
             \/ \E refused \in SUBSET Ids : SyncWrite(refused)
      PROVE  NamesInv'
  BY <1>4, SyncStartKeeps, SyncWriteKeeps, SyncFailsKeeps, SyncReadKeeps
<1>5. ASSUME \/ MergeScan \/ MergeFails
             \/ \E i \in Ids : MergeResolve(i) \/ MergeSource(i) \/ MergeDest(i)
      PROVE  NamesInv'
  BY <1>5, MergeScanKeeps, MergeFailsKeeps, MergeResolveKeeps, MergeSourceKeeps, MergeDestKeeps
<1>6. ASSUME UNCHANGED vars PROVE NamesInv'
  <2>1. UNCHANGED <<profile, recent, names, indexed, sync, merge, given, stale, lost>>
    BY <1>6 DEF vars
  <2>2. TypeOk' /\ NamesOk' /\ GoodStays
    BY <2>1, QuietNames DEF NamesInv, TypeOk
  <2>3. SyncOk' /\ MergeOk' /\ ProfileArrives'
    BY <2>1, <2>2, SyncLasts, MergeLasts, ArrivesLasts DEF NamesInv
  <2> QED
    BY <2>2, <2>3 DEF NamesInv
<1> QED
  BY <1>1, <1>2, <1>3, <1>4, <1>5, <1>6 DEF Next

\* However the jobs, the profiles, the harvest and the index interleave, what the
\* jobs carry and what is in the vocabulary stay good.
THEOREM NamesStayGood == Spec => []NamesInv
  BY NamesInit, NamesNext, PTL DEF Spec

\* Two ORCIDs of a user who gave no more than one are the same.
LEMMA GaveOne ==
    ASSUME NEW S, IsFiniteSet(S), ~(Cardinality(S) > 1), NEW x \in S
    PROVE  S = {x}
<1>1. IsFiniteSet({x}) /\ Cardinality({x}) = 1
  BY FS_Singleton
<1>2. Cardinality(S) \in Nat
  BY FS_CardinalityType
<1>3. Cardinality({x}) = Cardinality(S)
  <2>1. Cardinality({x}) <= Cardinality(S)
    BY FS_Subset
  <2> QED
    BY <1>1, <1>2, <2>1
<1> QED
  BY <1>3, FS_Subset

\* A user who was synchronised is listed, under the person id or under an ORCID of
\* that name: whatever the two jobs overwrite with what they read before, no name is
\* unlisted without the one that stands for it (tasks.py sync_local_accounts_to_names,
\* utils.py merge_names).
THEOREM UsersStayListed == Spec => []NobodyVanishes
<1>1. NamesInv => NobodyVanishes
  <2> SUFFICES ASSUME NamesInv, NEW u \in Users, Exists(u), ~names[u].listed,
                      \A w \in Users : Cardinality(given[w]) > 1 => given[w] \cap given[u] = {}
               PROVE  \E o \in ToSet(names[u].orcids) : names[o].listed
    BY DEF NobodyVanishes
  <2>1. u \in Ids /\ UserName(u, names[u])
    BY DEF NamesInv, NamesOk, Good, Fit, Ids
  <2>2. PICK o \in ToSet(names[u].orcids) : Exists(o)
    BY <2>1 DEF UserName, Exists
  <2>3. o \in given[u] /\ o \in Orcids /\ o \in Ids
    BY <2>1 DEF UserName, NamesInv, TypeOk, Ids
  <2>4. Alone(o)
    <3> SUFFICES ASSUME NEW w \in Users, o \in given[w] PROVE given[w] = {o}
      BY DEF Alone
    <3>1. ~(Cardinality(given[w]) > 1)
      BY <2>3
    <3> QED
      BY <3>1, GaveOne DEF NamesInv, TypeOk
  <2>5. OrcidName(o, names[o])
    BY <2>3 DEF NamesInv, NamesOk, Good, Fit
  <2> QED
    BY <2>2, <2>4, <2>5 DEF OrcidName, Exists
<1> QED
  BY <1>1, NamesStayGood, PTL

\* A profile that a run took is in the name of the person id, but for what the profile
\* leaves empty, unless the run was lost, the name was refused or the merge wrote an
\* older copy over it (tasks.py sync_local_accounts_to_names).
THEOREM ProfilesArrive == Spec => []ProfileArrives
<1>1. NamesInv => ProfileArrives
  BY DEF NamesInv
<1> QED
  BY <1>1, NamesStayGood, PTL

================================================================================
