------------------------- MODULE InspireTransformProofs -------------------------
(***************************************************************************)
(* Proofs about InspireTransform, for any INSPIRE records, schemes and     *)
(* vocabularies.                                                           *)
(*                                                                         *)
(* A record is mapped in one step, so nothing has to be carried from state *)
(* to state; what has to be shown is what the mappers of a type make of    *)
(* one record together.  Every path is contributed by one mapper (MapsTo), *)
(* and the mapper of related identifiers sees the DOIs that the one of     *)
(* pids left, since that comes before it (RelatedContext).                 *)
(***************************************************************************)
EXTENDS InspireTransform, SequenceTheorems, FiniteSetTheorems, WellFoundedInduction, TLAPS

-----------------------------------------------------------------------------
(* The policy                                                              *)

By(path, rt) == IF rt \in DOMAIN Replaced /\ path \in Replaced[rt] THEN rt ELSE "base"

\* Every path of the base policy stands there once.
LEMMA BasePaths ==
    /\ DOMAIN Base = 1 .. 20
    /\ \A i, j \in 1 .. 20 : Base[i] = Base[j] => i = j
    /\ \A i \in 1 .. 20 : Base[i] # "thesis"
BY DEF Base

\* A mapper of a type stands where the mapper it replaces stood, and those of a
\* thesis come last.
LEMMA Policy ==
    ASSUME NEW rt
    PROVE  /\ DOMAIN MappersFor(rt) = 1 .. 20 \/ DOMAIN MappersFor(rt) = 1 .. 21
           /\ \A k \in 1 .. 20 : MappersFor(rt)[k] = <<Base[k], By(Base[k], rt)>>
           /\ \A k \in 1 .. 20 : \A j \in DOMAIN MappersFor(rt) :
                MappersFor(rt)[j][1] = Base[k] => j = k
<1> DEFINE A == [i \in 1 .. 20 |-> <<Base[i], By(Base[i], rt)>>]
           B == IF rt = "thesis" THEN <<<<"thesis", "thesis">>>> ELSE <<>>
           S == {A[i] : i \in 1 .. 20} \cup {<<"thesis", "thesis">>}
<1>1. MappersFor(rt) = A \o B
  BY BasePaths DEF MappersFor, By
<1>2. A \in Seq(S) /\ Len(A) = 20
  OBVIOUS
<1>3. B \in Seq(S) /\ (Len(B) = 0 \/ (Len(B) = 1 /\ B[1] = <<"thesis", "thesis">>))
  OBVIOUS
<1>4. \A k \in 1 .. 20 : A[k] = <<Base[k], By(Base[k], rt)>>
  OBVIOUS
<1> HIDE DEF A, B, S
<1>5. /\ A \o B \in Seq(S) /\ Len(A \o B) = Len(A) + Len(B)
      /\ \A k \in 1 .. Len(A) + Len(B) :
           (A \o B)[k] = IF k <= Len(A) THEN A[k] ELSE B[k - Len(A)]
  BY <1>2, <1>3, ConcatProperties
<1>6. DOMAIN (A \o B) = 1 .. Len(A) + Len(B)
  BY <1>5, LenProperties
<1>7. ASSUME NEW k \in 1 .. 20
      PROVE  (A \o B)[k] = <<Base[k], By(Base[k], rt)>>
  <2>1. k \in 1 .. Len(A) + Len(B) /\ k <= Len(A)
    BY <1>2, <1>3
  <2>2. (A \o B)[k] = A[k]
    BY <1>5, <2>1
  <2> QED
    BY <1>4, <2>2
<1>8. DOMAIN (A \o B) = 1 .. 20 \/ (DOMAIN (A \o B) = 1 .. 21 /\ Len(B) = 1)
  <2>1. CASE Len(B) = 0
    BY <1>2, <1>6, <2>1
  <2>2. CASE Len(B) = 1
    BY <1>2, <1>6, <2>2
  <2> QED
    BY <1>3, <2>1, <2>2
<1>9. ASSUME Len(B) = 1
      PROVE  (A \o B)[21] = <<"thesis", "thesis">>
  <2>1. 21 \in 1 .. Len(A) + Len(B) /\ ~(21 <= Len(A)) /\ 21 - Len(A) = 1
    BY <1>2, <1>9
  <2>2. (A \o B)[21] = B[1]
    BY <1>5, <2>1
  <2> QED
    BY <1>3, <1>9, <2>2
<1>10. ASSUME NEW k \in 1 .. 20, NEW j \in DOMAIN (A \o B), (A \o B)[j][1] = Base[k]
       PROVE  j = k
  <2>1. CASE j \in 1 .. 20
    <3>1. (A \o B)[j] = <<Base[j], By(Base[j], rt)>>
      BY <1>7, <2>1
    <3>2. Base[j] = Base[k]
      BY <1>10, <3>1
    <3> QED
      BY <2>1, <3>2, BasePaths
  <2>2. CASE j \notin 1 .. 20
    <3>1. j = 21 /\ Len(B) = 1
      BY <1>8, <2>2
    <3>2. (A \o B)[j] = <<"thesis", "thesis">>
      BY <1>9, <3>1
    <3>3. Base[k] = "thesis"
      BY <1>10, <3>2
    <3> QED
      BY <3>3, BasePaths
  <2> QED
    BY <2>1, <2>2
<1> HIDE DEF By
<1>11. DOMAIN (A \o B) = 1 .. 20 \/ DOMAIN (A \o B) = 1 .. 21
  BY <1>8
<1> QED
  BY <1>1, <1>7, <1>10, <1>11

\* What the mappers before the k-th left in the context.
Context(rt, s, k) == UNION {Leaves(MappersFor(rt)[j], s) : j \in 1 .. k - 1}

Result(rt, s, k) == Apply(<<Base[k], By(Base[k], rt)>>, rt, s, Context(rt, s, k))

\* The value of a path comes from the one mapper of that path.
LEMMA MapsTo ==
    ASSUME NEW rt, NEW s, NEW k \in 1 .. 20
    PROVE  /\ MapRecord(rt, s).record[Base[k]] = Result(rt, s, k).value
           /\ Result(rt, s, k).errors \subseteq MapRecord(rt, s).errors
<1> DEFINE mappers == MappersFor(rt)
           Ctx(j) == UNION {Leaves(mappers[i], s) : i \in 1 .. j - 1}
           result == [j \in DOMAIN mappers |-> Apply(mappers[j], rt, s, Ctx(j))]
           Of(path) == CHOOSE j \in DOMAIN mappers : mappers[j][1] = path
           record == [path \in {mappers[j][1] : j \in DOMAIN mappers} |-> result[Of(path)].value]
           errs == UNION {result[j].errors : j \in DOMAIN mappers}
<1>1. MapRecord(rt, s) = [record |-> record, errors |-> errs]
  BY DEF MapRecord
<1>2. k \in DOMAIN mappers /\ mappers[k] = <<Base[k], By(Base[k], rt)>>
      /\ \A j \in DOMAIN mappers : mappers[j][1] = Base[k] => j = k
  BY Policy
<1>3. Ctx(k) = Context(rt, s, k)
  BY DEF Context
<1>4. result[k] = Result(rt, s, k)
  BY <1>2, <1>3 DEF Result
<1>5. mappers[k][1] = Base[k]
  BY <1>2
<1> HIDE DEF mappers, result
<1>6. Of(Base[k]) = k
  BY <1>2, <1>5
<1>7. record[Base[k]] = result[k].value
  BY <1>2, <1>5, <1>6
<1>8. result[k].errors \subseteq errs
  BY <1>2
<1> HIDE DEF record, errs
<1> QED
  BY <1>1, <1>4, <1>7, <1>8

\* The DOIs that the mapper of pids leaves.
Left(rt, s) == Leaves(<<"pids", By("pids", rt)>>, s)

\* The mapper of related identifiers sees what the one of pids left.
LEMMA RelatedContext ==
    ASSUME NEW rt, NEW s
    PROVE  Context(rt, s, 19) = Left(rt, s)
<1> DEFINE m(j) == MappersFor(rt)[j]
<1>1. Base[3] = "pids"
  BY DEF Base
<1>2. \A j \in 1 .. 18 : m(j) = <<Base[j], By(Base[j], rt)>>
  BY Policy
<1>3. \A j \in 1 .. 18 : j # 3 => Base[j] # "pids"
  BY <1>1, BasePaths
<1>4. \A j \in 1 .. 18 : j # 3 => Leaves(m(j), s) = {}
  BY <1>2, <1>3 DEF Leaves
<1>5. m(3) = <<"pids", By("pids", rt)>>
  BY <1>1, <1>2
<1>6. Context(rt, s, 19) = UNION {Leaves(m(j), s) : j \in 1 .. 18}
  BY DEF Context
<1> HIDE DEF m
<1>7. UNION {Leaves(m(j), s) : j \in 1 .. 18} = Leaves(m(3), s)
  <2>1. \A x : x \in UNION {Leaves(m(j), s) : j \in 1 .. 18} <=> x \in Leaves(m(3), s)
    BY <1>4
  <2> QED
    BY <2>1
<1> QED
  BY <1>5, <1>6, <1>7 DEF Left

\* The mappers of the paths that the properties look at.
LEMMA Mappers ==
    ASSUME NEW rt, NEW s
    PROVE  /\ Result(rt, s, 1) = Files(By("files", rt), s)
           /\ Result(rt, s, 2) = Gives(rt)
           /\ Result(rt, s, 3) = Doi(By("pids", rt), s)
           /\ Result(rt, s, 5) = OtherTitles(s)
           /\ Result(rt, s, 6) = Creators(s)
           /\ Result(rt, s, 7) = Contributors(By("contributors", rt), s)
           /\ Result(rt, s, 15) = Funding(s)
           /\ Result(rt, s, 18) = Identifiers(s)
           /\ Result(rt, s, 19) =
                RelatedIdentifiers(s, Left(rt, s))
<1>1. Result(rt, s, 1) = Files(By("files", rt), s)
  <2>1. Base[1] = "files"
    BY DEF Base
  <2> QED
    BY <2>1 DEF Result, Apply
<1>2. Result(rt, s, 2) = Gives(rt)
  <2>1. Base[2] = "resource_type"
    BY DEF Base
  <2> QED
    BY <2>1 DEF Result, Apply
<1>3. Result(rt, s, 3) = Doi(By("pids", rt), s)
  <2>1. Base[3] = "pids"
    BY DEF Base
  <2> QED
    BY <2>1 DEF Result, Apply
<1>4. Result(rt, s, 5) = OtherTitles(s)
  <2>1. Base[5] = "additional_titles"
    BY DEF Base
  <2> QED
    BY <2>1 DEF Result, Apply
<1>5. Result(rt, s, 6) = Creators(s)
  <2>1. Base[6] = "creators"
    BY DEF Base
  <2> QED
    BY <2>1 DEF Result, Apply
<1>6. Result(rt, s, 7) = Contributors(By("contributors", rt), s)
  <2>1. Base[7] = "contributors"
    BY DEF Base
  <2> QED
    BY <2>1 DEF Result, Apply
<1>7. Result(rt, s, 15) = Funding(s)
  <2>1. Base[15] = "funding"
    BY DEF Base
  <2> QED
    BY <2>1 DEF Result, Apply
<1>8. Result(rt, s, 18) = Identifiers(s)
  <2>1. Base[18] = "identifiers"
    BY DEF Base
  <2> QED
    BY <2>1 DEF Result, Apply
<1>9. Result(rt, s, 19) =
         RelatedIdentifiers(s, Left(rt, s))
  <2>1. Base[19] = "related_identifiers"
    BY DEF Base
  <2> QED
    BY <2>1, RelatedContext DEF Result, Apply
<1> QED
  BY <1>1, <1>2, <1>3, <1>4, <1>5, <1>6, <1>7, <1>8, <1>9

Made(rt, s) == MapRecord(rt, s).record

\* What MapRecord gives on these paths.
LEMMA Paths ==
    ASSUME NEW rt, NEW s
    PROVE  /\ Made(rt, s).files = Files(By("files", rt), s).value
           /\ Made(rt, s).resource_type = rt
           /\ Made(rt, s).pids = Doi(By("pids", rt), s).value
           /\ Made(rt, s).additional_titles = OtherTitles(s).value
           /\ Made(rt, s).creators = Creators(s).value
           /\ Made(rt, s).contributors = Contributors(By("contributors", rt), s).value
           /\ Made(rt, s).funding = Funding(s).value
           /\ Made(rt, s).identifiers = Identifiers(s).value
           /\ Made(rt, s).related_identifiers =
                RelatedIdentifiers(s, Left(rt, s)).value
<1> DEFINE r == Made(rt, s)
<1>1. \A k \in 1 .. 20 : r[Base[k]] = Result(rt, s, k).value
  BY MapsTo DEF Made
<1> HIDE DEF r
<1>2. r.files = Result(rt, s, 1).value
  <2>1. Base[1] = "files"
    BY DEF Base
  <2> QED
    BY <1>1, <2>1
<1>3. r.resource_type = Result(rt, s, 2).value
  <2>1. Base[2] = "resource_type"
    BY DEF Base
  <2> QED
    BY <1>1, <2>1
<1>4. r.pids = Result(rt, s, 3).value
  <2>1. Base[3] = "pids"
    BY DEF Base
  <2> QED
    BY <1>1, <2>1
<1>5. r.additional_titles = Result(rt, s, 5).value
  <2>1. Base[5] = "additional_titles"
    BY DEF Base
  <2> QED
    BY <1>1, <2>1
<1>6. r.creators = Result(rt, s, 6).value
  <2>1. Base[6] = "creators"
    BY DEF Base
  <2> QED
    BY <1>1, <2>1
<1>7. r.contributors = Result(rt, s, 7).value
  <2>1. Base[7] = "contributors"
    BY DEF Base
  <2> QED
    BY <1>1, <2>1
<1>8. r.funding = Result(rt, s, 15).value
  <2>1. Base[15] = "funding"
    BY DEF Base
  <2> QED
    BY <1>1, <2>1
<1>9. r.identifiers = Result(rt, s, 18).value
  <2>1. Base[18] = "identifiers"
    BY DEF Base
  <2> QED
    BY <1>1, <2>1
<1>10. r.related_identifiers = Result(rt, s, 19).value
  <2>1. Base[19] = "related_identifiers"
    BY DEF Base
  <2> QED
    BY <1>1, <2>1
<1>11. Gives(rt).value = rt
  BY DEF Gives, Reports
<1> QED
  BY <1>2, <1>3, <1>4, <1>5, <1>6, <1>7, <1>8, <1>9, <1>10, <1>11, Mappers DEF r

\* What these mappers report is reported.
LEMMA Reported ==
    ASSUME NEW rt, NEW s, MapRecord(rt, s).errors = {}
    PROVE  /\ Creators(s).errors = {}
           /\ Contributors(By("contributors", rt), s).errors = {}
           /\ Funding(s).errors = {}
           /\ Identifiers(s).errors = {}
           /\ RelatedIdentifiers(s, Left(rt, s)).errors = {}
<1>1. \A k \in 1 .. 20 : Result(rt, s, k).errors = {}
  BY MapsTo
<1>2. /\ Result(rt, s, 6).errors = {} /\ Result(rt, s, 7).errors = {}
      /\ Result(rt, s, 15).errors = {} /\ Result(rt, s, 18).errors = {}
      /\ Result(rt, s, 19).errors = {}
  BY <1>1
<1> QED
  BY <1>2, Mappers

-----------------------------------------------------------------------------
(* The invariant                                                           *)

\* What is kept of a record was made by MapRecord, from that record.
Mapped ==
    /\ source \in Sources
    /\ Done => /\ entry = MapRecord(Detect(source), source).record
               /\ errors = MapRecord(Detect(source), source).errors
               /\ versions = Split(source)

\* What a finished transformation holds is what the operators compute.
LEMMA MappedAlways == Spec => []Mapped
<1>1. Init => Mapped
  BY DEF Init, Mapped, Done
<1>2. Mapped /\ [Next]_vars => Mapped'
  <2> SUFFICES ASSUME Mapped, [Next]_vars
               PROVE  Mapped'
    OBVIOUS
  <2>1. CASE Transform
    BY <2>1 DEF Mapped, Transform, Done
  <2>2. CASE Raise
    BY <2>2 DEF Mapped, Raise, Done
  <2>3. CASE UNCHANGED vars
    BY <2>3 DEF Mapped, vars, Done
  <2> QED
    BY <2>1, <2>2, <2>3 DEF Next
<1> QED
  BY <1>1, <1>2, PTL DEF Spec

\* Every record that is kept is what MapRecord makes of some type.
LEMMA OfAType ==
    ASSUME Mapped, Done, NEW s, s = source, NEW r \in {entry} \cup versions
    PROVE  \E rt : r = Made(rt, s)
BY DEF Mapped, Split, Made

-----------------------------------------------------------------------------
(* Split versions                                                          *)

\* A file that an article and a preprint keep under one name is a file of CDS,
\* or there are two of that name.
LEMMA SharedFiles ==
    ASSUME NEW s, NEW n, n \in Files("article", s).value, n \in Files("preprint", s).value
    PROVE  \E f, g \in ToSet(s.documents) :
             f.name = n /\ g.name = n /\ (f.source = "cds" \/ f # g)
<1>1. \A by : n \in Files(by, s).value =>
        \E f \in ToSet(s.documents) : KeepsFile(by, f) /\ f.name = n
  BY DEF Files, Gives, Reports
<1>2. PICK f \in ToSet(s.documents) : KeepsFile("article", f) /\ f.name = n
  BY <1>1
<1>3. PICK g \in ToSet(s.documents) : KeepsFile("preprint", g) /\ g.name = n
  BY <1>1
<1>4. f = g => f.source = "cds"
  BY <1>2, <1>3 DEF KeepsFile
<1> QED
  BY <1>2, <1>3, <1>4

\* For every record: the entry and its split versions have different types, and
\* an article and a preprint share only a file of CDS.
THEOREM VersionsDiffer == Spec => []SplitTypesDiffer
<1>1. Mapped => SplitTypesDiffer
  <2> SUFFICES ASSUME Mapped, Done
               PROVE  /\ \A v \in versions : v.resource_type # entry.resource_type
                      /\ \A a, p \in {entry} \cup versions :
                           (a.resource_type = "article" /\ p.resource_type = "preprint") =>
                             \A n \in a.files \cap p.files :
                               \E f, g \in ToSet(source.documents) :
                                 f.name = n /\ g.name = n /\ (f.source = "cds" \/ f # g)
    BY DEF SplitTypesDiffer
  <2> PICK s : s = source
    OBVIOUS
  <2>0. ASSUME NEW rt
        PROVE  /\ Made(rt, s).resource_type = rt
               /\ Made(rt, s).files = Files(By("files", rt), s).value
    BY Paths
  <2>1. ASSUME NEW v \in versions
        PROVE  v.resource_type # entry.resource_type
    <3>1. PICK rt \in SplitTypes(s) : v = Made(rt, s)
      BY DEF Mapped, Split, Made
    <3>2. rt # Detect(s)
      BY <3>1 DEF SplitTypes
    <3>3. entry = Made(Detect(s), s)
      BY DEF Mapped, Made
    <3> QED
      BY <2>0, <3>1, <3>2, <3>3
  <2>2. ASSUME NEW a \in {entry} \cup versions, NEW p \in {entry} \cup versions,
               a.resource_type = "article", p.resource_type = "preprint",
               NEW n \in a.files \cap p.files
        PROVE  \E f, g \in ToSet(source.documents) :
                 f.name = n /\ g.name = n /\ (f.source = "cds" \/ f # g)
    <3>1. (\E rt : a = Made(rt, s)) /\ (\E rt : p = Made(rt, s))
      BY OfAType
    <3>2. a = Made("article", s) /\ p = Made("preprint", s)
      BY <2>0, <2>2, <3>1
    <3>3. By("files", "article") = "article" /\ By("files", "preprint") = "preprint"
      BY DEF By, Replaced
    <3>4. n \in Files("article", s).value /\ n \in Files("preprint", s).value
      BY <2>0, <2>2, <3>2, <3>3
    <3> QED
      BY <3>4, SharedFiles
  <2> QED
    BY <2>1, <2>2
<1> QED
  BY <1>1, MappedAlways, PTL

-----------------------------------------------------------------------------
(* People, funding and titles                                              *)

\* A person and one of the person's roles, with "" for none.
HasRole(a, r) == r \in IF a.roles = {} THEN {""} ELSE a.roles

\* Pairs of a name and a role: those of the authors among the contributors, the
\* supervisors of a thesis, and the creators of either kind.
Own(s) == UNION {{<<a.name, r>> : r \in RolesOf(a)} : a \in ToSet(s.authors)}
Named(by, s) == IF by = "thesis" THEN {<<v.name, v.role>> : v \in s.supervisors} ELSE {}
InRole(people, r) == {<<a.name, r>> : a \in people}
WithoutRole(s) == InRole({b \in ToSet(s.authors) : b.roles = {}}, "")
AsAuthor(s) == InRole({b \in ToSet(s.authors) : "author" \in b.roles}, "author")
Corporate(s) == {<<c, "corporate">> : c \in s.corporate}

\* The roles that are not reported.
Allowed == KnownRoles \cup {""}

\* Pairs of a known role are kept, and any other is reported.
LEMMA CreatibutorsAre ==
    ASSUME NEW pairs
    PROVE  /\ Creatibutors(pairs).value = {p \in pairs : p[2] \in Allowed}
           /\ Creatibutors(pairs).errors = {} => \A p \in pairs : p[2] \in Allowed
<1> DEFINE unknown == {q \in pairs : q[2] \notin Allowed}
<1>1. Creatibutors(pairs).value = {p \in pairs : p[2] \in Allowed}
  BY DEF Creatibutors, Reports, Allowed
<1>2. Creatibutors(pairs).errors = {"role" : p \in unknown}
  BY DEF Creatibutors, Reports, Allowed
<1> HIDE DEF unknown
<1>3. {"role" : p \in unknown} = {} => unknown = {}
  OBVIOUS
<1> QED
  BY <1>1, <1>2, <1>3 DEF unknown

\* What Own and Named hold.
LEMMA OwnPairs ==
    ASSUME NEW s
    PROVE  /\ \A a \in ToSet(s.authors) : \A r \in RolesOf(a) : <<a.name, r>> \in Own(s)
           /\ \A p \in Own(s) :
                \E a \in ToSet(s.authors) : p[1] = a.name /\ p[2] \in RolesOf(a)
<1>1. \A p : p \in Own(s) <=>
        \E a \in ToSet(s.authors) : p \in {<<a.name, r>> : r \in RolesOf(a)}
  BY DEF Own
<1>2. ASSUME NEW a \in ToSet(s.authors), NEW r \in RolesOf(a)
      PROVE  <<a.name, r>> \in Own(s)
  <2>1. <<a.name, r>> \in {<<a.name, q>> : q \in RolesOf(a)}
    OBVIOUS
  <2> QED
    BY <1>1, <2>1
<1>3. ASSUME NEW p \in Own(s)
      PROVE  \E a \in ToSet(s.authors) : p[1] = a.name /\ p[2] \in RolesOf(a)
  <2>1. PICK a \in ToSet(s.authors) : p \in {<<a.name, q>> : q \in RolesOf(a)}
    BY <1>1
  <2>2. PICK r \in RolesOf(a) : p = <<a.name, r>>
    BY <2>1
  <2> QED
    BY <2>2
<1> QED
  BY <1>2, <1>3

\* Every named contributor is a supervisor with the role INSPIRE gives.
LEMMA NamedPairs ==
    ASSUME NEW by, NEW s, NEW p \in Named(by, s)
    PROVE  \E v \in s.supervisors : p[1] = v.name /\ p[2] = v.role
BY DEF Named

\* What the contributors of an entry are, for a thesis and otherwise.
LEMMA ContributorsAre ==
    ASSUME NEW by, NEW s
    PROVE  /\ Contributors(by, s).value =
                {p \in Own(s) \cup Named(by, s) : p[2] \in Allowed}
           /\ Contributors(by, s).errors = {} =>
                \A p \in Own(s) \cup Named(by, s) : p[2] \in Allowed
<1> PICK pairs : pairs = Own(s) \cup Named(by, s)
  OBVIOUS
<1>1. Contributors(by, s) = Creatibutors(pairs)
  BY DEF Contributors, Own, Named
<1> QED
  BY <1>1, CreatibutorsAre

\* Only a supervisor is added to the contributors by the policy of a thesis.
LEMMA Contributed ==
    ASSUME NEW by, NEW s, NEW p, p \in Contributors(by, s).value
    PROVE  /\ p[2] \in Allowed
           /\ \/ \E a \in ToSet(s.authors) : p[1] = a.name /\ p[2] \in a.roles \ {"author"}
              \/ \E v \in s.supervisors : p[1] = v.name /\ p[2] = v.role
<1>1. p \in Own(s) \cup Named(by, s) /\ p[2] \in Allowed
  BY ContributorsAre
<1>2. p \in Own(s) => \E a \in ToSet(s.authors) : p[1] = a.name /\ p[2] \in RolesOf(a)
  BY OwnPairs
<1> QED
  BY <1>1, <1>2, NamedPairs DEF RolesOf

\* A contributor that the record asks for is there, unless its role is reported.
LEMMA ContributedAll ==
    ASSUME NEW by, NEW s, NEW a \in ToSet(s.authors), NEW r \in a.roles \ {"author"},
           Contributors(by, s).errors = {}
    PROVE  <<a.name, r>> \in Contributors(by, s).value /\ r \in Allowed
<1> DEFINE p == <<a.name, r>>
<1>2. p \in Own(s)
  BY OwnPairs DEF RolesOf
<1>3. p[2] = r
  OBVIOUS
<1> HIDE DEF p
<1>4. p[2] \in Allowed /\ p \in Contributors(by, s).value
  BY <1>2, ContributorsAre
<1> QED
  BY <1>3, <1>4 DEF p

\* Creators are the authors that are named as such or for nothing else, and no
\* other person.
LEMMA CreatorsAre ==
    ASSUME NEW s
    PROVE  /\ Creators(s).value =
                Creatibutors(WithoutRole(s) \cup AsAuthor(s)).value \cup Corporate(s)
           /\ \A p \in Creators(s).value : p[2] \in {"", "author", "corporate"}
           /\ \A a \in ToSet(s.authors) :
                /\ a.roles = {} => <<a.name, "">> \in Creators(s).value
                /\ "author" \in a.roles => <<a.name, "author">> \in Creators(s).value
<1> DEFINE made == Creatibutors(WithoutRole(s) \cup AsAuthor(s))
           none == {b \in ToSet(s.authors) : b.roles = {}}
           authors == {b \in ToSet(s.authors) : "author" \in b.roles}
<1>1. Creators(s) = [made EXCEPT !.value = @ \cup Corporate(s)]
  BY DEF Creators, WithoutRole, AsAuthor, InRole, Corporate
<1>2. \E v, e : made = [value |-> v, errors |-> e]
  BY DEF Creatibutors, Reports
<1> HIDE DEF made
<1>3. PICK v, e : made = [value |-> v, errors |-> e]
  BY <1>2
<1>4. Creators(s).value = made.value \cup Corporate(s)
  BY <1>1, <1>3
<1>5. \A people, r : /\ \A a \in people : <<a.name, r>> \in InRole(people, r)
                     /\ \A p \in InRole(people, r) : p[2] = r
  BY DEF InRole
<1>6. /\ \A b \in none : <<b.name, "">> \in WithoutRole(s)
      /\ \A p \in WithoutRole(s) : p[2] = ""
  BY <1>5 DEF WithoutRole
<1>7. /\ \A b \in authors : <<b.name, "author">> \in AsAuthor(s)
      /\ \A p \in AsAuthor(s) : p[2] = "author"
  BY <1>5 DEF AsAuthor
<1>8. \A p \in Corporate(s) : p[2] = "corporate"
  BY DEF Corporate
<1>9. made.value = WithoutRole(s) \cup AsAuthor(s)
  <2> DEFINE pairs == WithoutRole(s) \cup AsAuthor(s)
  <2>1. {"", "author"} \subseteq Allowed
    BY DEF Allowed, KnownRoles
  <2>2. \A p \in pairs : p[2] \in Allowed
    BY <1>6, <1>7, <2>1
  <2>3. made.value = {p \in pairs : p[2] \in Allowed}
    BY CreatibutorsAre DEF made
  <2> QED
    BY <2>2, <2>3
<1> QED
  BY <1>4, <1>6, <1>7, <1>8, <1>9 DEF made

\* A role that is given is not "".
RolesGiven(s) == \A a \in ToSet(s.authors) : "" \notin a.roles

\* The role r of the author a is accounted for, and the author a contributor
\* besides only as somebody who is named a supervisor too.
Listed(by, s, a, r) ==
    /\ <<a.name, r>> \in Creators(s).value \cup Contributors(by, s).value
    /\ <<a.name, r>> \in Creators(s).value \cap Contributors(by, s).value =>
         \E v \in s.supervisors : <<a.name, r>> = <<v.name, v.role>>

\* Everybody with a role is a creator or a contributor; both, only as a supervisor.
LEMMA PeopleListed ==
    ASSUME NEW by, NEW s, NEW a \in ToSet(s.authors), NEW r, HasRole(a, r),
           RolesGiven(s),
           Creators(s).errors = {}, Contributors(by, s).errors = {}
    PROVE  Listed(by, s, a, r)
<1> DEFINE p == <<a.name, r>>
<1>1. p[1] = a.name /\ p[2] = r
  OBVIOUS
<1>2. CASE a.roles = {} \/ r = "author"
  <2>1. (a.roles = {} /\ r = "") \/ (r = "author" /\ r \in a.roles)
    BY <1>2 DEF HasRole
  <2>2. \A b \in ToSet(s.authors) : r \notin b.roles \ {"author"}
    BY <2>1 DEF RolesGiven
  <2>3. p \in Creators(s).value
    BY <2>1, CreatorsAre
  <2>4. ASSUME p \in Contributors(by, s).value
        PROVE  \E v \in s.supervisors : p = <<v.name, v.role>>
    <3>1. PICK q \in Contributors(by, s).value : q = p
      BY <2>4
    <3>2. \/ \E b \in ToSet(s.authors) : q[1] = b.name /\ q[2] \in b.roles \ {"author"}
          \/ \E v \in s.supervisors : q[1] = v.name /\ q[2] = v.role
      BY Contributed
    <3> QED
      BY <1>1, <2>2, <3>1, <3>2
  <2> QED
    BY <2>3, <2>4 DEF Listed
<1>3. CASE a.roles # {} /\ r # "author"
  <2>1. r \in a.roles \ {"author"} /\ r # ""
    BY <1>3 DEF HasRole, RolesGiven
  <2>2. p \in Contributors(by, s).value /\ r \in Allowed
    BY <2>1, ContributedAll
  <2>3. p \notin Creators(s).value
    <3>1. p[2] \notin {"", "author", "corporate"}
      BY <1>1, <1>3, <2>1, <2>2 DEF Allowed, KnownRoles
    <3> QED
      BY <3>1, CreatorsAre
  <2> QED
    BY <2>2, <2>3 DEF Listed
<1> QED
  BY <1>2, <1>3

\* An award is taken only if there is one that fits, and it has the number.
LEMMA OneAward ==
    ASSUME NEW number, NEW funder, AwardFor(number, funder) # {}
    PROVE  \E a \in Awards : a.number = number /\ AwardFor(number, funder) = {a}
<1> DEFINE all == {a \in Awards : a.number = number}
           scoped == {a \in all : a.funder = funder}
           found == IF funder = "" \/ scoped = {} THEN all ELSE scoped
<1>1. AwardFor(number, funder) = found /\ Cardinality(found) = 1
  BY DEF AwardFor
<1>2. found \subseteq all /\ all \subseteq Awards
  OBVIOUS
<1>3. IsFiniteSet(found)
  BY <1>2, AwardsAssumption, FS_Subset
<1>4. PICK a : found = {a}
  BY <1>1, <1>3, FS_Singleton
<1> QED
  BY <1>1, <1>2, <1>4

\* The grant g has the funder that is known of f, and the award of its number.
GrantFor(f, g) ==
    /\ f.agency # "" => FunderOf[f.agency] \in {"", g[1]}
    /\ f.number # "" => \E a \in Awards : a.number = f.number /\ g[2] = {a.id}

\* Without an error every entry of funding gave a grant.
LEMMA GrantsListed ==
    ASSUME NEW s, NEW f \in s.funding, Funding(s).errors = {}
    PROVE  \E g \in Funding(s).value : GrantFor(f, g)
<1> DEFINE known == IF f.agency = "" THEN "" ELSE FunderOf[f.agency]
           award == IF f.number = "" THEN {} ELSE AwardFor(f.number, known)
           funder == IF known = "" /\ award # {}
                     THEN (CHOOSE a \in award : TRUE).funder ELSE known
           g == <<funder, {a.id : a \in award}>>
<1>1. Grant(f) # {}
  BY DEF Funding, Reports
<1>2. Grant(f) = {g} /\ ~(f.number # "" /\ award = {})
  BY <1>1 DEF Grant
<1>3. g \in Funding(s).value
  BY <1>2 DEF Funding, Reports
<1>4. f.agency # "" => FunderOf[f.agency] \in {"", g[1]}
  OBVIOUS
<1>5. ASSUME f.number # ""
      PROVE  \E a \in Awards : a.number = f.number /\ g[2] = {a.id}
  <2>1. award = AwardFor(f.number, known) /\ award # {}
    BY <1>2, <1>5
  <2> HIDE DEF known, award, funder
  <2>2. \E a \in Awards : a.number = f.number /\ award = {a}
    BY <2>1, OneAward
  <2>3. PICK a \in Awards : a.number = f.number /\ award = {a}
    BY <2>2
  <2>4. g[2] = {b.id : b \in award}
    OBVIOUS
  <2>5. {b.id : b \in award} = {a.id}
    BY <2>3
  <2> QED
    BY <2>3, <2>4, <2>5
<1> HIDE DEF g
<1> QED
  BY <1>3, <1>4, <1>5 DEF GrantFor

\* For every record: without an error no author, role, funder or award is lost on
\* the way to the entry, and no title but a first one that was not preferred.
THEOREM MappersLoseNothing == Spec => []NothingDropped
<1>1. Mapped => NothingDropped
  <2> SUFFICES ASSUME Mapped, Done
               PROVE  NothingDropped
    BY DEF NothingDropped
  <2> PICK s : s = source
    OBVIOUS
  <2> PICK rt : rt = Detect(s)
    OBVIOUS
  <2>1. s \in Sources /\ entry = Made(rt, s) /\ errors = MapRecord(rt, s).errors
    BY DEF Mapped, Made
  <2>2. RolesGiven(s)
    BY <2>1, SourcesAssumption DEF RolesGiven
  <2>3. /\ entry.creators = Creators(s).value
        /\ entry.contributors = Contributors(By("contributors", rt), s).value
        /\ entry.funding = Funding(s).value
        /\ entry.additional_titles = OtherTitles(s).value
    BY <2>1, Paths
  <2>4. ASSUME errors = {}
        PROVE  /\ Creators(s).errors = {}
               /\ Contributors(By("contributors", rt), s).errors = {}
               /\ Funding(s).errors = {}
    BY <2>1, <2>4, Reported
  <2>5. ASSUME errors = {}, NEW a \in ToSet(s.authors),
               NEW r \in IF a.roles = {} THEN {""} ELSE a.roles
        PROVE  /\ <<a.name, r>> \in entry.creators \cup entry.contributors
               /\ <<a.name, r>> \in entry.creators \cap entry.contributors =>
                    \E v \in s.supervisors : <<a.name, r>> = <<v.name, v.role>>
    <3>1. HasRole(a, r)
      BY DEF HasRole
    <3>2. Listed(By("contributors", rt), s, a, r)
      BY <2>2, <2>4, <2>5, <3>1, PeopleListed
    <3> QED
      BY <2>3, <3>2 DEF Listed
  <2>6. ASSUME errors = {}, NEW f \in s.funding
        PROVE  \E g \in entry.funding :
                 /\ f.agency # "" => FunderOf[f.agency] \in {"", g[1]}
                 /\ f.number # "" => \E a \in Awards : a.number = f.number /\ g[2] = {a.id}
    <3>1. \E g \in Funding(s).value : GrantFor(f, g)
      BY <2>4, <2>6, GrantsListed
    <3> QED
      BY <2>3, <3>1 DEF GrantFor
  <2>7. ASSUME NEW i \in DOMAIN s.titles
        PROVE  \/ s.titles[i].value \in {entry.title} \cup entry.additional_titles
               \/ i = 1 /\ entry.title # s.titles[1].value
    BY <2>3 DEF OtherTitles, Gives, Reports
  <2> QED
    BY <2>5, <2>6, <2>7 DEF NothingDropped
<1> QED
  BY <1>1, MappedAlways, PTL

-----------------------------------------------------------------------------
(* Report numbers and external identifiers                                 *)

\* The value v is there with the scheme x, of the record itself or related.
Holds(s, x, v) == <<x, v>> \in Identifiers(s).value
Related(s, extra, x, v) == <<x, v>> \in RelatedIdentifiers(s, extra).value

\* Where the identifiers of the record itself come from.
LEMMA OwnFrom ==
    ASSUME NEW s, NEW x, NEW v
    PROVE  Holds(s, x, v) <=>
             \/ \E i \in External(s) : /\ i.scheme # "cdsrdm" /\ i.scheme \in OwnSchemes
                                       /\ x = i.scheme /\ v = i.value
             \/ \E rn \in ToSet(s.reportNumbers) : IsApproval(rn) /\ x = "apprn" /\ v = rn.value
             \/ \E rn \in ToSet(s.reportNumbers) :
                  ~IsApproval(rn) /\ rn.cern /\ x = "cdsrn" /\ v = rn.value
<1> DEFINE own == {i \in External(s) : i.scheme # "cdsrdm" /\ i.scheme \in OwnSchemes}
           approvals == {r \in ToSet(s.reportNumbers) : IsApproval(r)}
           numbers == {r \in ToSet(s.reportNumbers) : ~IsApproval(r) /\ r.cern}
           A == {<<i.scheme, i.value>> : i \in own}
           B == {<<"apprn", rn.value>> : rn \in approvals}
           C == {<<"cdsrn", rn.value>> : rn \in numbers}
<1>1. Identifiers(s).value = A \cup B \cup C
  BY DEF Identifiers, Reports
<1> HIDE DEF own, approvals, numbers
<1>2. <<x, v>> \in A <=> \E i \in own : x = i.scheme /\ v = i.value
  OBVIOUS
<1>3. <<x, v>> \in B <=> \E rn \in approvals : x = "apprn" /\ v = rn.value
  OBVIOUS
<1>4. <<x, v>> \in C <=> \E rn \in numbers : x = "cdsrn" /\ v = rn.value
  OBVIOUS
<1> HIDE DEF A, B, C
<1>5. Holds(s, x, v) <=> <<x, v>> \in A \/ <<x, v>> \in B \/ <<x, v>> \in C
  BY <1>1 DEF Holds
<1> QED
  BY <1>2, <1>3, <1>4, <1>5 DEF own, approvals, numbers

\* An identifier that is put among the related ones by its scheme.
Shared(s) == {i \in {j \in s.persistent : j.scheme \notin DroppedSchemes} \cup External(s) :
                i.scheme \in RelatedOnly}
Refused(s) == {i \in Shared(s) : i.scheme = "urn" /\ i.value \in Invalid}

\* The scheme of the DOIs that were not chosen.
DoiScheme(s) == IF \E d \in ToSet(s.dois) : d.cds THEN "doi, version" ELSE "doi, variant"

\* Where the related identifiers come from.
LEMMA RelatedFrom ==
    ASSUME NEW s, NEW extra, NEW x, NEW v
    PROVE  Related(s, extra, x, v) <=>
             \/ \E i \in Shared(s) \ Refused(s) : x = i.scheme /\ v = i.value
             \/ x = "isbn" /\ v \in s.isbns \ Invalid
             \/ x = "url" /\ v \in s.urls \ Invalid
             \/ x = "arxiv" /\ v \in s.eprints
             \/ \E rn \in RelatedNumbers(s) : x = "cdsrn" /\ v = rn.value
             \/ x = DoiScheme(s) /\ v \in extra
             \/ x = "inspire" /\ v = s.id
<1> DEFINE A == {<<i.scheme, i.value>> : i \in Shared(s) \ Refused(s)}
           B == {<<"isbn", w>> : w \in s.isbns \ Invalid}
           C == {<<"url", w>> : w \in s.urls \ Invalid}
           D == {<<"arxiv", w>> : w \in s.eprints}
           E == {<<"cdsrn", rn.value>> : rn \in RelatedNumbers(s)}
           F == {<<DoiScheme(s), w>> : w \in extra}
           G == {<<"inspire", s.id>>}
<1>1. RelatedIdentifiers(s, extra).value = A \cup B \cup C \cup D \cup E \cup F \cup G
  BY DEF RelatedIdentifiers, Reports, Shared, Refused, DoiScheme
<1>2. <<x, v>> \in A <=> \E i \in Shared(s) \ Refused(s) : x = i.scheme /\ v = i.value
  OBVIOUS
<1>3. <<x, v>> \in B <=> x = "isbn" /\ v \in s.isbns \ Invalid
  OBVIOUS
<1>4. <<x, v>> \in C <=> x = "url" /\ v \in s.urls \ Invalid
  OBVIOUS
<1>5. <<x, v>> \in D <=> x = "arxiv" /\ v \in s.eprints
  OBVIOUS
<1>6. <<x, v>> \in E <=> \E rn \in RelatedNumbers(s) : x = "cdsrn" /\ v = rn.value
  OBVIOUS
<1>7. <<x, v>> \in F <=> x = DoiScheme(s) /\ v \in extra
  OBVIOUS
<1>8. <<x, v>> \in G <=> x = "inspire" /\ v = s.id
  OBVIOUS
<1> HIDE DEF A, B, C, D, E, F, G
<1>9. Related(s, extra, x, v) <=>
        \/ <<x, v>> \in A \/ <<x, v>> \in B \/ <<x, v>> \in C \/ <<x, v>> \in D
        \/ <<x, v>> \in E \/ <<x, v>> \in F \/ <<x, v>> \in G
  BY <1>1 DEF Related
<1> QED
  BY <1>2, <1>3, <1>4, <1>5, <1>6, <1>7, <1>8, <1>9

\* A report number goes by one of its three kinds to one place.
LEMMA NumberPlaces ==
    ASSUME NEW s \in Sources, NEW rn \in ToSet(s.reportNumbers), NEW extra
    PROVE  /\ Holds(s, "apprn", rn.value) <=> IsApproval(rn)
           /\ Holds(s, "cdsrn", rn.value) <=> ~IsApproval(rn) /\ rn.cern
           /\ ~Related(s, extra, "apprn", rn.value)
           /\ Related(s, extra, "cdsrn", rn.value) <=> ~IsApproval(rn) /\ ~rn.cern
<1>1. \A r \in ToSet(s.reportNumbers) : r.value = rn.value => r = rn
  BY SourcesAssumption
<1>2. \A i \in External(s) : i.scheme \notin {"apprn", "cdsrn"}
  BY SourcesAssumption DEF External
<1>3. \A i \in Shared(s) : i.scheme \notin {"apprn", "cdsrn"}
  BY SchemesAssumption DEF Shared, RelatedOnly
<1>4. DoiScheme(s) \in {"doi, version", "doi, variant"}
  BY DEF DoiScheme
<1>5. Holds(s, "apprn", rn.value) <=> IsApproval(rn)
  BY <1>1, <1>2, OwnFrom
<1>6. Holds(s, "cdsrn", rn.value) <=> ~IsApproval(rn) /\ rn.cern
  BY <1>1, <1>2, OwnFrom
<1>7. ~Related(s, extra, "apprn", rn.value)
  BY <1>3, <1>4, RelatedFrom
<1>8. Related(s, extra, "cdsrn", rn.value) <=> ~IsApproval(rn) /\ ~rn.cern
  <2>1. Related(s, extra, "cdsrn", rn.value) <=> \E r \in RelatedNumbers(s) : rn.value = r.value
    BY <1>3, <1>4, RelatedFrom
  <2> QED
    BY <1>1, <2>1 DEF RelatedNumbers
<1> QED
  BY <1>5, <1>6, <1>7, <1>8

\* Without an error an external identifier is either one of the record itself or
\* a related one.
LEMMA ExternalPlaces ==
    ASSUME NEW s \in Sources, NEW i \in External(s), i.scheme # "cdsrdm", NEW extra,
           Identifiers(s).errors = {}, RelatedIdentifiers(s, extra).errors = {}
    PROVE  Holds(s, i.scheme, i.value) <=> ~Related(s, extra, i.scheme, i.value)
<1>1. i.scheme \in RelatedSchemes
  <2> DEFINE odd == {j \in External(s) : j.scheme \notin RelatedSchemes \cup {"cdsrdm"}}
  <2>1. {"scheme" : j \in odd} = {}
    BY DEF Identifiers, Reports
  <2> HIDE DEF odd
  <2>2. odd = {}
    BY <2>1
  <2> QED
    BY <2>2 DEF odd
<1>2. Refused(s) = {}
  <2>1. {"urn" : j \in Refused(s)} \subseteq RelatedIdentifiers(s, extra).errors
    BY DEF RelatedIdentifiers, Reports, Shared, Refused
  <2> QED
    BY <2>1
<1>3. i.scheme \notin {"apprn", "cdsrn"}
  BY SourcesAssumption DEF External
<1>4. DoiScheme(s) \notin RelatedSchemes
  BY SchemesAssumption DEF DoiScheme
<1>5. CASE i.scheme \in OwnSchemes
  <2>1. Holds(s, i.scheme, i.value)
    BY <1>5, OwnFrom
  <2>2. \A j \in Shared(s) : j.scheme # i.scheme
    BY <1>5 DEF Shared, RelatedOnly
  <2>3. i.scheme \notin {"isbn", "url", "arxiv", "inspire"}
    BY <1>5, SchemesAssumption
  <2>4. ~Related(s, extra, i.scheme, i.value)
    BY <1>1, <1>3, <1>4, <2>2, <2>3, RelatedFrom
  <2> QED
    BY <2>1, <2>4
<1>6. CASE i.scheme \notin OwnSchemes
  <2>1. i \in Shared(s)
    BY <1>1, <1>6 DEF Shared, RelatedOnly
  <2>2. Related(s, extra, i.scheme, i.value)
    BY <1>2, <2>1, RelatedFrom
  <2>3. ~Holds(s, i.scheme, i.value)
    BY <1>3, <1>6, OwnFrom
  <2> QED
    BY <2>2, <2>3
<1> QED
  BY <1>5, <1>6

\* For every record: a report number is in exactly one place of the entry, and so
\* is, without an error, every external identifier.
THEOREM IdentifiersShared == Spec => []IdentifiersOnce
<1>1. Mapped => IdentifiersOnce
  <2> SUFFICES ASSUME Mapped, Done
               PROVE  IdentifiersOnce
    BY DEF IdentifiersOnce
  <2> PICK s : s = source
    OBVIOUS
  <2> PICK rt : rt = Detect(s)
    OBVIOUS
  <2> PICK extra : extra = Left(rt, s)
    OBVIOUS
  <2>1. s \in Sources /\ entry = Made(rt, s) /\ errors = MapRecord(rt, s).errors
    BY DEF Mapped, Made
  <2>2. /\ entry.identifiers = Identifiers(s).value
        /\ entry.related_identifiers = RelatedIdentifiers(s, extra).value
    BY <2>1, Paths
  <2>3. ASSUME NEW rn \in ToSet(s.reportNumbers)
        PROVE  Cardinality({p \in {"identifiers", "related_identifiers"} \X {"apprn", "cdsrn"} :
                              <<p[2], rn.value>> \in entry[p[1]]}) = 1
    <3> DEFINE P == {p \in {"identifiers", "related_identifiers"} \X {"apprn", "cdsrn"} :
                       <<p[2], rn.value>> \in entry[p[1]]}
    <3>1. /\ <<"identifiers", "apprn">> \in P <=> IsApproval(rn)
          /\ <<"identifiers", "cdsrn">> \in P <=> ~IsApproval(rn) /\ rn.cern
          /\ <<"related_identifiers", "apprn">> \notin P
          /\ <<"related_identifiers", "cdsrn">> \in P <=> ~IsApproval(rn) /\ ~rn.cern
      <4>1. /\ <<"apprn", rn.value>> \in entry.identifiers <=> IsApproval(rn)
            /\ <<"cdsrn", rn.value>> \in entry.identifiers <=> ~IsApproval(rn) /\ rn.cern
            /\ <<"apprn", rn.value>> \notin entry.related_identifiers
            /\ <<"cdsrn", rn.value>> \in entry.related_identifiers <=>
                 ~IsApproval(rn) /\ ~rn.cern
        BY <2>1, <2>2, NumberPlaces DEF Holds, Related
      <4> QED
        BY <4>1
    <3>2. \A p \in P : p \in {<<"identifiers", "apprn">>, <<"identifiers", "cdsrn">>,
                             <<"related_identifiers", "apprn">>,
                             <<"related_identifiers", "cdsrn">>}
      OBVIOUS
    <3> HIDE DEF P
    <3>3. \E p : P = {p}
      <4>1. CASE IsApproval(rn)
        <5>1. P = {<<"identifiers", "apprn">>}
          BY <3>1, <3>2, <4>1
        <5> QED
          BY <5>1
      <4>2. CASE ~IsApproval(rn) /\ rn.cern
        <5>1. P = {<<"identifiers", "cdsrn">>}
          BY <3>1, <3>2, <4>2
        <5> QED
          BY <5>1
      <4>3. CASE ~IsApproval(rn) /\ ~rn.cern
        <5>1. P = {<<"related_identifiers", "cdsrn">>}
          BY <3>1, <3>2, <4>3
        <5> QED
          BY <5>1
      <4> QED
        BY <4>1, <4>2, <4>3
    <3>4. Cardinality(P) = 1
      BY <3>3, FS_Singleton
    <3> QED
      BY <3>4 DEF P
  <2>4. ASSUME errors = {}, NEW i \in External(s), i.scheme # "cdsrdm"
        PROVE  (<<i.scheme, i.value>> \in entry.identifiers)
                 # (<<i.scheme, i.value>> \in entry.related_identifiers)
    <3>1. Identifiers(s).errors = {} /\ RelatedIdentifiers(s, extra).errors = {}
      BY <2>1, <2>4, Reported
    <3>2. Holds(s, i.scheme, i.value) <=> ~Related(s, extra, i.scheme, i.value)
      BY <2>1, <2>4, <3>1, ExternalPlaces
    <3>3. Holds(s, i.scheme, i.value) # Related(s, extra, i.scheme, i.value)
      <4>1. CASE Holds(s, i.scheme, i.value)
        BY <3>2, <4>1
      <4>2. CASE ~Holds(s, i.scheme, i.value)
        BY <3>2, <4>2
      <4> QED
        BY <4>1, <4>2
    <3> QED
      BY <2>2, <3>3 DEF Holds, Related
  <2> QED
    BY <2>3, <2>4 DEF IdentifiersOnce
<1> QED
  BY <1>1, MappedAlways, PTL

-----------------------------------------------------------------------------
(* DOIs                                                                    *)

\* A nonempty set of numbers has a smallest one.
LEMMA Smallest ==
    ASSUME NEW S \in SUBSET Nat, S # {}
    PROVE  Min(S) \in S
<1> DEFINE R == OpToRel(<, Nat)
<1>1. IsWellFoundedOn(R, Nat)
  BY NatLessThanWellFounded
<1>2. \A x, y \in Nat : x < y <=> <<x, y>> \in R
  BY DEF OpToRel
<1> HIDE DEF R
<1>3. \E x \in S : \A y \in S : ~(<<y, x>> \in R)
  BY <1>1, WFMin
<1>4. PICK x \in S : \A y \in S : ~(y < x)
  BY <1>2, <1>3
<1>5. \A y \in S : x =< y
  BY <1>4
<1> QED
  BY <1>5 DEF Min

\* If there is a DOI for the record, it is the main one, which is kept, and the
\* others do not have its value.
LEMMA DoiChosen ==
    ASSUME NEW s \in Sources, NEW by, Doi(by, s).value # {}
    PROVE  \E m \in KeptDois(by, s) :
             /\ m = MainDoi(by, s)
             /\ CdsDois(by, s) # {} => m \in CdsDois(by, s)
             /\ s.dois[m].value \notin Invalid
             /\ s.dois[m].value \notin OtherDois(by, s)
             /\ Doi(by, s).value =
                  {<<s.dois[m].value, IF CdsDois(by, s) # {} THEN "datacite" ELSE "external">>}
<1> DEFINE m == MainDoi(by, s)
           v == s.dois[m].value
           main == <<v, IF CdsDois(by, s) # {} THEN "datacite" ELSE "external">>
<1>1. /\ KeptDois(by, s) # {} /\ v \notin Invalid
      /\ Doi(by, s).value = {main}
  BY DEF Doi, Gives, Reports
<1>2. KeptDois(by, s) \subseteq Nat \ {0} /\ CdsDois(by, s) \subseteq KeptDois(by, s)
  <2>1. s.dois \in Seq(ToSet(s.dois))
    BY SourcesAssumption
  <2>2. DOMAIN s.dois \subseteq Nat \ {0}
    BY <2>1, LenProperties
  <2> QED
    BY <2>2 DEF KeptDois, CdsDois, UniqueDois
<1>3. m \in KeptDois(by, s) /\ (CdsDois(by, s) # {} => m \in CdsDois(by, s))
  <2>1. CASE CdsDois(by, s) # {}
    BY <1>2, <2>1, Smallest DEF MainDoi
  <2>2. CASE CdsDois(by, s) = {}
    BY <1>1, <1>2, <2>2, Smallest DEF MainDoi
  <2> QED
    BY <2>1, <2>2
<1>4. v \notin OtherDois(by, s)
  <2> SUFFICES ASSUME NEW i \in KeptDois(by, s), i # m, s.dois[i].value = v
               PROVE  FALSE
    BY DEF OtherDois
  <2>1. m \in Nat \ {0} /\ i \in Nat \ {0} /\ m \in UniqueDois(s) /\ i \in UniqueDois(s)
    BY <1>2, <1>3 DEF KeptDois
  <2> HIDE DEF m
  <2>2. /\ \A j \in 1 .. m - 1 : s.dois[j].value # s.dois[m].value
        /\ \A j \in 1 .. i - 1 : s.dois[j].value # s.dois[i].value
    BY <2>1 DEF UniqueDois
  <2>3. CASE i < m
    <3>1. i \in 1 .. m - 1
      BY <2>1, <2>3
    <3> QED
      BY <2>2, <3>1
  <2>4. CASE m < i
    <3>1. m \in 1 .. i - 1
      BY <2>1, <2>4
    <3> QED
      BY <2>2, <3>1
  <2> QED
    BY <2>1, <2>3, <2>4
<1> QED
  BY <1>1, <1>3, <1>4

\* Related identifiers are pairs.
LEMMA RelatedPairs ==
    ASSUME NEW s, NEW extra, NEW p \in RelatedIdentifiers(s, extra).value
    PROVE  p = <<p[1], p[2]>>
<1> DEFINE A == {<<i.scheme, i.value>> : i \in Shared(s) \ Refused(s)}
           B == {<<"isbn", w>> : w \in s.isbns \ Invalid}
           C == {<<"url", w>> : w \in s.urls \ Invalid}
           D == {<<"arxiv", w>> : w \in s.eprints}
           E == {<<"cdsrn", rn.value>> : rn \in RelatedNumbers(s)}
           F == {<<DoiScheme(s), w>> : w \in extra}
           G == {<<"inspire", s.id>>}
<1>1. RelatedIdentifiers(s, extra).value = A \cup B \cup C \cup D \cup E \cup F \cup G
  BY DEF RelatedIdentifiers, Reports, Shared, Refused, DoiScheme
<1>2. p \in A \/ p \in B \/ p \in C \/ p \in D \/ p \in E \/ p \in F \/ p \in G
  BY <1>1
<1>3. \E x, v : p = <<x, v>>
  BY <1>2
<1> QED
  BY <1>3

\* The identifiers of a scheme of DOIs.
DoisAmong(ids) == {i[2] : i \in {j \in ids : j[1] \in {"doi, version", "doi, variant"}}}

\* Among the related identifiers those are the DOIs that were left.
LEMMA RelatedDois ==
    ASSUME NEW s, NEW extra
    PROVE  DoisAmong(RelatedIdentifiers(s, extra).value) = extra
<1> DEFINE dois == {j \in RelatedIdentifiers(s, extra).value :
                      j[1] \in {"doi, version", "doi, variant"}}
<1>1. DoiScheme(s) \in {"doi, version", "doi, variant"}
  BY DEF DoiScheme
<1>2. ASSUME NEW v \in extra
      PROVE  \E i \in dois : i[2] = v
  <2>1. Related(s, extra, DoiScheme(s), v)
    BY RelatedFrom
  <2>2. <<DoiScheme(s), v>> \in dois
    BY <1>1, <2>1 DEF Related
  <2> HIDE DEF dois
  <2> QED
    BY <2>2
<1>3. ASSUME NEW i \in dois
      PROVE  i[2] \in extra
  <2> DEFINE x == i[1]
             v == i[2]
  <2>1. i = <<x, v>>
    BY RelatedPairs
  <2>2. Related(s, extra, x, v) /\ x \in {"doi, version", "doi, variant"}
    BY <2>1 DEF Related
  <2>3. x \notin RelatedSchemes
    BY <2>2, SchemesAssumption
  <2>4. \A j \in Shared(s) : j.scheme # x
    BY <2>3 DEF Shared, RelatedOnly
  <2>5. v \in extra
    BY <2>2, <2>4, RelatedFrom
  <2> QED
    BY <2>1, <2>5
<1> HIDE DEF dois
<1>4. {i[2] : i \in dois} = extra
  BY <1>2, <1>3
<1> QED
  BY <1>4 DEF dois, DoisAmong

\* For every record: the entry and every split version that has a DOI account for
\* each valid DOI that counts for the type, once, and prefer one of CDS.
THEOREM DoisKept == Spec => []DoisAccounted
<1>1. Mapped => DoisAccounted
  <2> DEFINE Main(r) == (CHOOSE p \in r.pids : TRUE)[1]
             Of(r) == IF r.resource_type \in {"article", "preprint"}
                      THEN r.resource_type ELSE "base"
             Counts(r) == {d \in {source.dois[i] : i \in UniqueDois(source)} :
                             KeepsDoi(Of(r), d) /\ d.value \notin Invalid}
  <2> SUFFICES ASSUME Mapped, Done, NEW r \in {entry} \cup versions, r.pids # {}
               PROVE  LET related == DoisAmong(r.related_identifiers) IN
                      /\ Main(r) \notin related
                      /\ {Main(r)} \cup related = {d.value : d \in Counts(r)}
                      /\ (\E d \in Counts(r) : d.cds) => <<Main(r), "datacite">> \in r.pids
    BY DEF DoisAccounted, DoisAmong
  <2> PICK s : s = source
    OBVIOUS
  <2> PICK rt : r = Made(rt, s)
    BY OfAType
  <2> PICK by : by = By("pids", rt)
    OBVIOUS
  <2>1. s \in Sources
    BY DEF Mapped
  <2>2. r.resource_type = rt /\ r.pids = Doi(by, s).value
        /\ r.related_identifiers = RelatedIdentifiers(s, Left(rt, s)).value
    BY Paths
  <2>3. by = Of(r)
    BY <2>2 DEF By, Replaced
  <2>4. PICK m \in KeptDois(by, s) :
          /\ CdsDois(by, s) # {} => m \in CdsDois(by, s)
          /\ m = MainDoi(by, s)
          /\ s.dois[m].value \notin Invalid
          /\ s.dois[m].value \notin OtherDois(by, s)
          /\ Doi(by, s).value =
               {<<s.dois[m].value, IF CdsDois(by, s) # {} THEN "datacite" ELSE "external">>}
    BY <2>1, <2>2, DoiChosen
  <2> DEFINE v == s.dois[m].value
             counts == {d \in {s.dois[i] : i \in UniqueDois(s)} :
                          KeepsDoi(by, d) /\ d.value \notin Invalid}
  <2>5. v \notin OtherDois(by, s)
    BY <2>4
  <2>6. Left(rt, s) = OtherDois(by, s) \ Invalid
    BY <2>2 DEF Left, Leaves
  <2>7. Main(r) = v /\ Counts(r) = counts
    BY <2>2, <2>3, <2>4
  <2>8. DoisAmong(r.related_identifiers) = OtherDois(by, s) \ Invalid
    BY <2>2, <2>6, RelatedDois
  <2>9. {v} \cup (OtherDois(by, s) \ Invalid) = {d.value : d \in counts}
    <3>1. \A d : d \in counts <=>
            d.value \notin Invalid /\ \E i \in KeptDois(by, s) : d = s.dois[i]
      BY DEF KeptDois
    <3>2. s.dois[m] \in counts
      BY <2>4, <3>1
    <3>3. \A x : x \in OtherDois(by, s) <=>
            \E i \in KeptDois(by, s) : i # m /\ x = s.dois[i].value
      BY <2>4 DEF OtherDois
    <3> HIDE DEF counts
    <3>4. \A x : x \in {d.value : d \in counts} <=>
            x = v \/ x \in OtherDois(by, s) \ Invalid
      BY <3>1, <3>2, <3>3
    <3> QED
      BY <3>4
  <2>10. ASSUME NEW d \in counts, d.cds
         PROVE  <<v, "datacite">> \in r.pids
    <3>1. CdsDois(by, s) # {}
      BY <2>10 DEF CdsDois, KeptDois
    <3> QED
      BY <2>2, <2>4, <3>1
  <2> HIDE DEF Main, Of, Counts, counts, v
  <2> QED
    BY <2>5, <2>7, <2>8, <2>9, <2>10
<1> QED
  BY <1>1, MappedAlways, PTL
=================================================================================
