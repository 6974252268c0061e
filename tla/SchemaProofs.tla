---------------------------- MODULE SchemaProofs ----------------------------
(***************************************************************************)
(* Proofs about Schema: its types, the walk that topo_sort makes over the  *)
(* files of a load, the driver of a service, and what the snapshot holds.  *)
(***************************************************************************)
EXTENDS Schema, Inductions, SequenceTheorems, FiniteSetTheorems

-----------------------------------------------------------------------------
(* Sequences and the sets of their elements                                *)

\* A sequence that is not empty is its head and its tail.
LEMMA SeqParts ==
  ASSUME NEW S, NEW t \in Seq(S), t # <<>>
  PROVE  /\ Len(t) \in Nat /\ Len(t) > 0
         /\ Head(t) = t[1] /\ Head(t) \in S
         /\ Tail(t) \in Seq(S) /\ Len(Tail(t)) = Len(t) - 1
         /\ \A k \in 1 .. Len(Tail(t)) : Tail(t)[k] = t[k + 1]
<1>1. Len(t) \in Nat /\ Len(t) > 0 /\ Head(t) = t[1] /\ t[1] \in S
  OBVIOUS
<1>2. Tail(t) \in Seq(S) /\ Len(Tail(t)) = Len(t) - 1
  BY HeadTailProperties
<1>3. \A k \in 1 .. Len(Tail(t)) : Tail(t)[k] = t[k + 1]
  BY HeadTailProperties
<1> QED BY <1>1, <1>2, <1>3

\* What follows an element of a sequence.
LEMMA RestIs ==
  ASSUME NEW S, NEW t \in Seq(S), NEW k \in 1 .. Len(t)
  PROVE  /\ SubSeq(t, k + 1, Len(t)) \in Seq(S) /\ Len(SubSeq(t, k + 1, Len(t))) = Len(t) - k
         /\ \A j \in 1 .. Len(t) - k : SubSeq(t, k + 1, Len(t))[j] = t[k + j]
OBVIOUS

LEMMA SetOfEmpty == ToSet(<<>>) = {}
BY DEF ToSet

LEMMA SetOfSeq ==
  ASSUME NEW S, NEW t \in Seq(S)
  PROVE  ToSet(t) \subseteq S /\ \A k \in 1 .. Len(t) : t[k] \in ToSet(t) /\ t[k] \in S
BY DEF ToSet

LEMMA SetOfParts ==
  ASSUME NEW S, NEW t \in Seq(S), t # <<>>
  PROVE  ToSet(t) = {Head(t)} \cup ToSet(Tail(t))
<1>1. /\ DOMAIN t = 1 .. Len(t) /\ DOMAIN Tail(t) = 1 .. Len(Tail(t))
      /\ Len(t) \in Nat /\ Len(t) > 0
      /\ Head(t) = t[1] /\ Len(Tail(t)) = Len(t) - 1
      /\ \A k \in 1 .. Len(Tail(t)) : Tail(t)[k] = t[k + 1]
  BY SeqParts
<1>2. ASSUME NEW x \in ToSet(t) PROVE x \in {Head(t)} \cup ToSet(Tail(t))
  <2>1. PICK k \in 1 .. Len(t) : x = t[k]
    BY <1>1, <1>2 DEF ToSet
  <2>2. CASE k = 1
    BY <2>1, <2>2, <1>1
  <2>3. CASE k # 1
    <3>1. k - 1 \in 1 .. Len(Tail(t)) /\ (k - 1) + 1 = k
      BY <1>1, <2>1, <2>3
    <3>2. Tail(t)[k - 1] = x
      BY <3>1, <1>1, <2>1
    <3> QED BY <3>1, <3>2, <1>1 DEF ToSet
  <2> QED BY <2>2, <2>3
<1>3. ASSUME NEW x \in ToSet(Tail(t)) PROVE x \in ToSet(t)
  <2>1. PICK k \in 1 .. Len(Tail(t)) : x = Tail(t)[k]
    BY <1>1, <1>3 DEF ToSet
  <2>2. k + 1 \in 1 .. Len(t) /\ t[k + 1] = x
    BY <2>1, <1>1
  <2> QED BY <2>2, <1>1 DEF ToSet
<1>4. Head(t) \in ToSet(t)
  BY <1>1 DEF ToSet
<1> QED BY <1>2, <1>3, <1>4

LEMMA SetOfAppend ==
  ASSUME NEW S, NEW t \in Seq(S), NEW x \in S
  PROVE  /\ Append(t, x) \in Seq(S) /\ Len(Append(t, x)) = Len(t) + 1
         /\ ToSet(Append(t, x)) = ToSet(t) \cup {x}
<1>1. /\ Append(t, x) \in Seq(S) /\ Len(Append(t, x)) = Len(t) + 1 /\ Len(t) \in Nat
      /\ DOMAIN t = 1 .. Len(t) /\ DOMAIN Append(t, x) = 1 .. (Len(t) + 1)
      /\ \A k \in 1 .. Len(t) : Append(t, x)[k] = t[k]
      /\ Append(t, x)[Len(t) + 1] = x
  OBVIOUS
<1>2. ASSUME NEW y \in ToSet(Append(t, x)) PROVE y \in ToSet(t) \cup {x}
  <2>1. PICK k \in 1 .. (Len(t) + 1) : y = Append(t, x)[k]
    BY <1>1, <1>2 DEF ToSet
  <2> QED BY <2>1, <1>1 DEF ToSet
<1>3. ASSUME NEW y \in ToSet(t) PROVE y \in ToSet(Append(t, x))
  <2>1. PICK k \in 1 .. Len(t) : y = t[k]
    BY <1>1, <1>3 DEF ToSet
  <2>2. k \in 1 .. (Len(t) + 1) /\ y = Append(t, x)[k]
    BY <2>1, <1>1
  <2> QED BY <2>2, <1>1 DEF ToSet
<1>4. x \in ToSet(Append(t, x))
  <2>1. Len(t) + 1 \in 1 .. (Len(t) + 1)
    BY <1>1
  <2> QED BY <2>1, <1>1 DEF ToSet
<1> QED BY <1>1, <1>2, <1>3, <1>4

-----------------------------------------------------------------------------
(* visit: the walk over the files exists                                   *)

LEMMA FileMapIs ==
  ASSUME NEW m
  PROVE  m \in FileMap <=> m \in [DOMAIN m -> Versions] /\ DOMAIN m \subseteq Files
<1>1. ASSUME m \in FileMap PROVE m \in [DOMAIN m -> Versions] /\ DOMAIN m \subseteq Files
  <2>1. PICK S \in SUBSET Files : m \in [S -> Versions]
    BY <1>1 DEF FileMap
  <2> QED BY <2>1
<1>2. ASSUME m \in [DOMAIN m -> Versions], DOMAIN m \subseteq Files PROVE m \in FileMap
  BY <1>2 DEF FileMap
<1> QED BY <1>1, <1>2

IsNew(files, f, st) == f \notin st.seen /\ f \in DOMAIN files
Enter(st, f) == [st EXCEPT !.seen = @ \cup {f}]

\* A file is visited by v, and a sequence of them; Unseen: how many are not seen.
Into(v, files, f, st) == IF IsNew(files, f, st) THEN Place(v[deps(files, f)][Enter(st, f)], f) ELSE st
Walked(v, files, t, st) == IF t = <<>> THEN st ELSE v[Tail(t)][Into(v, files, Head(t), st)]
Unseen(st) == Cardinality(Files \ st.seen)
Walks(v, files) == \A t \in Seq(Files) : \A st \in VisitState : v[t][st] = Walked(v, files, t, st)
Visits == [Seq(Files) -> [VisitState -> VisitState]]

LEMMA DepsAreFiles ==
  ASSUME NEW files \in FileMap, NEW f, NEW st, IsNew(files, f, st)
  PROVE  deps(files, f) \in Seq(Files)
<1>1. f \in Files /\ files[f] \in Versions
  BY FileMapIs DEF IsNew
<1> QED BY <1>1, GraphAssumption DEF deps

\* There are finitely many files: those of the order of names.
LEMMA FilesFinite == IsFiniteSet(Files)
<1>1. NameOrder \in Seq(Files) /\ ToSet(NameOrder) = Files
  BY GraphAssumption
<1> DEFINE n == Len(NameOrder)
<1>2. n \in Nat /\ NameOrder \in [1 .. n -> Files]
  BY <1>1
<1>3. \A f \in Files : \E k \in 1 .. n : NameOrder[k] = f
  BY <1>1, <1>2 DEF ToSet
<1>4. NameOrder \in Surjection(1 .. n, Files)
  BY <1>2, <1>3 DEF Surjection
<1>5. IsFiniteSet(1 .. n)
  BY <1>2, FS_Interval
<1> QED BY <1>4, <1>5, FS_Surjection

\* The more is seen, the less is unseen; a new file makes it strictly less.
LEMMA UnseenIs ==
  ASSUME NEW st \in VisitState, NEW more \in VisitState, st.seen \subseteq more.seen
  PROVE  Unseen(st) \in Nat /\ Unseen(more) \in Nat /\ Unseen(more) <= Unseen(st)
<1>1. IsFiniteSet(Files \ st.seen)
  BY FilesFinite, FS_Difference
<1>2. Files \ more.seen \in SUBSET (Files \ st.seen)
  OBVIOUS
<1>3. IsFiniteSet(Files \ more.seen)
  BY <1>1, <1>2, FS_Subset
<1> QED BY <1>1, <1>2, <1>3, FS_Subset, FS_CardinalityType DEF Unseen

LEMMA EnterIs ==
  ASSUME NEW files \in FileMap, NEW f \in Files, NEW st \in VisitState, IsNew(files, f, st)
  PROVE  /\ Enter(st, f) \in VisitState /\ Enter(st, f).seen = st.seen \cup {f}
         /\ Enter(st, f).out = st.out
         /\ Unseen(Enter(st, f)) < Unseen(st)
<1>1. /\ Enter(st, f) \in VisitState /\ Enter(st, f).seen = st.seen \cup {f}
      /\ Enter(st, f).out = st.out
  BY DEF Enter, VisitState
<1>2. Files \ Enter(st, f).seen = (Files \ st.seen) \ {f} /\ f \in Files \ st.seen
  BY <1>1 DEF IsNew
<1>3. IsFiniteSet(Files \ st.seen)
  BY FilesFinite, FS_Difference
<1>4. Cardinality((Files \ st.seen) \ {f}) = Cardinality(Files \ st.seen) - 1
  BY <1>2, <1>3, FS_RemoveElement
<1>5. Cardinality(Files \ st.seen) \in Nat
  BY <1>3, FS_CardinalityType
<1>6. Unseen(Enter(st, f)) = Cardinality((Files \ st.seen) \ {f}) /\ Unseen(st) = Cardinality(Files \ st.seen)
  BY <1>2, Zenon DEF Unseen
<1>7. Unseen(Enter(st, f)) < Unseen(st)
  BY <1>4, <1>5, <1>6
<1> QED BY <1>1, <1>7

LEMMA PlaceIs ==
  ASSUME NEW f \in Files, NEW st \in VisitState
  PROVE  /\ Place(st, f) \in VisitState /\ Place(st, f).seen = st.seen
         /\ Place(st, f).out = Append(st.out, f)
BY DEF Place, VisitState

\* Where a sequence has its first new file.
FirstNew(files, t, st) ==
  {k \in 1 .. Len(t) : IsNew(files, t[k], st) /\ \A j \in 1 .. k - 1 : ~IsNew(files, t[j], st)}
FromFirst(v, files, t, st, k) == v[SubSeq(t, k + 1, Len(t))][Into(v, files, t[k], st)]
SkipsTo(v, files, t, st) ==
  IF FirstNew(files, t, st) = {} THEN st
  ELSE FromFirst(v, files, t, st, CHOOSE k \in FirstNew(files, t, st) : TRUE)

LEMMA SkipsToIs ==
  ASSUME NEW v, NEW files \in FileMap, NEW t \in Seq(Files), NEW st, NEW k \in FirstNew(files, t, st)
  PROVE  SkipsTo(v, files, t, st) = FromFirst(v, files, t, st, k)
<1> DEFINE c == CHOOSE j \in FirstNew(files, t, st) : TRUE
<1>1. c \in FirstNew(files, t, st)
  OBVIOUS
<1> HIDE DEF c
<1>2. c = k
  <2>1. /\ c \in 1 .. Len(t) /\ k \in 1 .. Len(t) /\ Len(t) \in Nat
        /\ IsNew(files, t[c], st) /\ IsNew(files, t[k], st)
        /\ \A j \in 1 .. c - 1 : ~IsNew(files, t[j], st)
        /\ \A j \in 1 .. k - 1 : ~IsNew(files, t[j], st)
    BY <1>1 DEF FirstNew
  <2>2. ~(k \in 1 .. c - 1) /\ ~(c \in 1 .. k - 1)
    BY <2>1
  <2> QED BY <2>1, <2>2
<1> QED BY <1>2 DEF SkipsTo, c

\* A file that is not new is skipped.
LEMMA SkipsOne ==
  ASSUME NEW v, NEW files \in FileMap, NEW t \in Seq(Files), NEW st, t # <<>>, ~IsNew(files, Head(t), st)
  PROVE  SkipsTo(v, files, t, st) = SkipsTo(v, files, Tail(t), st)
<1> DEFINE u == Tail(t)
<1>1. /\ Len(t) \in Nat /\ Len(t) > 0 /\ Head(t) = t[1] /\ u \in Seq(Files) /\ Len(u) = Len(t) - 1
      /\ \A k \in 1 .. Len(u) : u[k] = t[k + 1]
  BY SeqParts
<1> HIDE DEF u
<1>2. ASSUME NEW k \in FirstNew(files, u, st)
      PROVE  k + 1 \in FirstNew(files, t, st) /\ k \in 1 .. Len(u)
  <2>1. /\ k \in 1 .. Len(u) /\ IsNew(files, u[k], st)
        /\ \A j \in 1 .. k - 1 : ~IsNew(files, u[j], st)
    BY DEF FirstNew
  <2>2. k + 1 \in 1 .. Len(t) /\ IsNew(files, t[k + 1], st)
    BY <1>1, <2>1
  <2>3. ASSUME NEW j \in 1 .. (k + 1) - 1 PROVE ~IsNew(files, t[j], st)
    <3>1. CASE j = 1
      BY <3>1, <1>1
    <3>2. CASE j # 1
      <4>1. j - 1 \in 1 .. k - 1 /\ j - 1 \in 1 .. Len(u) /\ (j - 1) + 1 = j
        BY <3>2, <2>1, <1>1
      <4>2. u[j - 1] = t[j]
        BY <4>1, <1>1
      <4> QED BY <4>1, <4>2, <2>1
    <3> QED BY <3>1, <3>2
  <2> QED BY <2>1, <2>2, <2>3 DEF FirstNew
<1>3. ASSUME NEW m \in FirstNew(files, t, st)
      PROVE  FirstNew(files, u, st) # {}
  <2>1. /\ m \in 1 .. Len(t) /\ IsNew(files, t[m], st)
        /\ \A j \in 1 .. m - 1 : ~IsNew(files, t[j], st)
    BY DEF FirstNew
  <2>2. m # 1
    BY <2>1, <1>1
  <2>3. m - 1 \in 1 .. Len(u) /\ (m - 1) + 1 = m
    BY <2>1, <2>2, <1>1
  <2>4. u[m - 1] = t[m]
    BY <2>3, <1>1
  <2>5. ASSUME NEW j \in 1 .. (m - 1) - 1 PROVE ~IsNew(files, u[j], st)
    <3>1. j + 1 \in 1 .. m - 1 /\ j \in 1 .. Len(u)
      BY <2>3, <2>1
    <3>2. u[j] = t[j + 1]
      BY <3>1, <1>1
    <3> QED BY <3>1, <3>2, <2>1
  <2>6. m - 1 \in FirstNew(files, u, st)
    BY <2>1, <2>3, <2>4, <2>5 DEF FirstNew
  <2> QED BY <2>6
<1>4. CASE FirstNew(files, u, st) = {}
  <2>1. FirstNew(files, t, st) = {}
    BY <1>3, <1>4
  <2> QED BY <2>1, <1>4 DEF SkipsTo, u
<1>5. CASE FirstNew(files, u, st) # {}
  <2>1. PICK k \in FirstNew(files, u, st) : TRUE
    BY <1>5
  <2>2. k + 1 \in FirstNew(files, t, st) /\ k \in 1 .. Len(u)
    BY <1>2, <2>1
  <2>3. /\ SkipsTo(v, files, u, st) = FromFirst(v, files, u, st, k)
        /\ SkipsTo(v, files, t, st) = FromFirst(v, files, t, st, k + 1)
    BY <2>1, <2>2, <1>1, SkipsToIs
  <2>4. u[k] = t[k + 1]
    BY <2>2, <1>1
  <2>5. SubSeq(u, k + 1, Len(u)) = SubSeq(t, (k + 1) + 1, Len(t))
    <3> DEFINE a == SubSeq(u, k + 1, Len(u))
               b == SubSeq(t, (k + 1) + 1, Len(t))
    <3>1. /\ a \in Seq(Files) /\ b \in Seq(Files) /\ Len(a) = Len(u) - k /\ Len(b) = Len(u) - k
          /\ Len(u) - k \in Nat
          /\ \A j \in 1 .. Len(u) - k : a[j] = u[k + j] /\ b[j] = t[(k + 1) + j]
      BY <1>1, <2>2
    <3> HIDE DEF a, b
    <3>2. ASSUME NEW j \in 1 .. Len(u) - k PROVE a[j] = b[j]
      <4>1. k + j \in 1 .. Len(u) /\ (k + j) + 1 = (k + 1) + j
        BY <1>1, <2>2
      <4> QED BY <4>1, <3>1, <1>1
    <3>3. a = b
      BY <3>1, <3>2, SeqEqual
    <3> QED BY <3>3 DEF a, b
  <2> QED BY <2>3, <2>4, <2>5 DEF FromFirst, u
<1> QED BY <1>4, <1>5

\* A walk that is right where fewer than m files are unseen, and sees on.
Fit(v, files, m) ==
  /\ v \in Visits
  /\ \A t \in Seq(Files) : \A st \in VisitState :
       Unseen(st) < m => v[t][st] = Walked(v, files, t, st) /\ st.seen \subseteq v[t][st].seen

\* What a walk makes of a file.
LEMMA IntoIs ==
  ASSUME NEW v \in Visits, NEW files \in FileMap, NEW f \in Files, NEW st \in VisitState
  PROVE  /\ Into(v, files, f, st) \in VisitState
         /\ IsNew(files, f, st) =>
              /\ v[deps(files, f)][Enter(st, f)] \in VisitState
              /\ Into(v, files, f, st) = Place(v[deps(files, f)][Enter(st, f)], f)
              /\ Into(v, files, f, st).seen = v[deps(files, f)][Enter(st, f)].seen
         /\ ~IsNew(files, f, st) => Into(v, files, f, st) = st
<1>1. CASE IsNew(files, f, st)
  <2>1. deps(files, f) \in Seq(Files) /\ Enter(st, f) \in VisitState
    BY <1>1, DepsAreFiles, EnterIs
  <2>2. v[deps(files, f)][Enter(st, f)] \in VisitState
    BY <2>1 DEF Visits
  <2>3. Into(v, files, f, st) = Place(v[deps(files, f)][Enter(st, f)], f)
    BY <1>1 DEF Into
  <2> QED BY <1>1, <2>2, <2>3, PlaceIs
<1>2. CASE ~IsNew(files, f, st)
  BY <1>2 DEF Into
<1> QED BY <1>1, <1>2

\* A new file is visited with fewer unseen, and leaves fewer unseen.
LEMMA FitInto ==
  ASSUME NEW files \in FileMap, NEW m \in Nat, NEW v, Fit(v, files, m),
         NEW f \in Files, NEW st \in VisitState, IsNew(files, f, st), Unseen(st) <= m
  PROVE  /\ Unseen(Enter(st, f)) < m
         /\ Into(v, files, f, st) \in VisitState
         /\ Unseen(Into(v, files, f, st)) < m /\ Unseen(Into(v, files, f, st)) < Unseen(st)
         /\ st.seen \subseteq Into(v, files, f, st).seen
<1>1. /\ Enter(st, f) \in VisitState /\ Enter(st, f).seen = st.seen \cup {f}
      /\ Unseen(Enter(st, f)) < Unseen(st)
  BY EnterIs
<1>2. Unseen(st) \in Nat /\ Unseen(Enter(st, f)) \in Nat
  BY <1>1, UnseenIs
<1>3. Unseen(Enter(st, f)) < m
  BY <1>1, <1>2
<1>4. /\ Into(v, files, f, st) \in VisitState
      /\ Into(v, files, f, st).seen = v[deps(files, f)][Enter(st, f)].seen
  BY IntoIs DEF Fit
<1>5. Enter(st, f).seen \subseteq Into(v, files, f, st).seen
  BY <1>1, <1>3, <1>4, DepsAreFiles DEF Fit
<1>6. /\ Unseen(Into(v, files, f, st)) \in Nat
      /\ Unseen(Into(v, files, f, st)) <= Unseen(Enter(st, f))
  BY <1>1, <1>4, <1>5, UnseenIs
<1> QED BY <1>1, <1>2, <1>3, <1>4, <1>5, <1>6

\* A walk that fits is one that fits for one more file unseen: it skips to the
\* first new file, which leaves fewer unseen.
LEMMA FitOneMore ==
  ASSUME NEW files \in FileMap, NEW m \in Nat, NEW v, Fit(v, files, m)
  PROVE  \E w : Fit(w, files, m + 1)
<1> DEFINE w == [t \in Seq(Files) |-> [st \in VisitState |->
                   IF Unseen(st) = m THEN SkipsTo(v, files, t, st) ELSE v[t][st]]]
<1>1. v \in Visits
  BY DEF Fit
<1>2. ASSUME NEW st \in VisitState PROVE Unseen(st) \in Nat
  BY UnseenIs
<1>3. ASSUME NEW t \in Seq(Files), NEW st \in VisitState, Unseen(st) = m
      PROVE  SkipsTo(v, files, t, st) \in VisitState /\ st.seen \subseteq SkipsTo(v, files, t, st).seen
  <2>1. CASE FirstNew(files, t, st) = {}
    BY <2>1 DEF SkipsTo
  <2>2. CASE FirstNew(files, t, st) # {}
    <3>1. PICK k \in FirstNew(files, t, st) : TRUE
      BY <2>2
    <3>2. k \in 1 .. Len(t) /\ IsNew(files, t[k], st) /\ t[k] \in Files
      BY <3>1 DEF FirstNew
    <3> DEFINE r == Into(v, files, t[k], st)
               u == SubSeq(t, k + 1, Len(t))
    <3>3. r \in VisitState /\ Unseen(r) < m /\ st.seen \subseteq r.seen
      <4>1. Unseen(st) <= m
        BY <1>2, <1>3
      <4> QED BY <3>2, <4>1, FitInto, ZenonT(60)
    <3>4. u \in Seq(Files)
      BY <3>2
    <3>5. SkipsTo(v, files, t, st) = v[u][r]
      BY <3>1, SkipsToIs DEF FromFirst
    <3> HIDE DEF r, u
    <3>6. v[u][r] \in VisitState /\ r.seen \subseteq v[u][r].seen
      BY <3>3, <3>4, <1>1 DEF Fit, Visits
    <3> QED BY <3>3, <3>5, <3>6
  <2> QED BY <2>1, <2>2
<1>4. ASSUME NEW t \in Seq(Files), NEW st \in VisitState
      PROVE  /\ w[t][st] = IF Unseen(st) = m THEN SkipsTo(v, files, t, st) ELSE v[t][st]
             /\ w[t][st] \in VisitState
  <2>1. w[t] = [s \in VisitState |-> IF Unseen(s) = m THEN SkipsTo(v, files, t, s) ELSE v[t][s]]
    OBVIOUS
  <2>2. w[t][st] = IF Unseen(st) = m THEN SkipsTo(v, files, t, st) ELSE v[t][st]
    BY <2>1
  <2>3. v[t][st] \in VisitState
    BY <1>1 DEF Visits
  <2> QED BY <2>2, <2>3, <1>3
<1>5. w \in Visits
  <2>1. \A t \in Seq(Files) : w[t] \in [VisitState -> VisitState]
    <3>1. ASSUME NEW t \in Seq(Files) PROVE w[t] \in [VisitState -> VisitState]
      <4>1. w[t] = [st \in VisitState |-> IF Unseen(st) = m THEN SkipsTo(v, files, t, st) ELSE v[t][st]]
        OBVIOUS
      <4>2. \A st \in VisitState : w[t][st] \in VisitState
        BY <1>4
      <4> QED BY <4>1, <4>2
    <3> QED BY <3>1
  <2> QED BY <2>1 DEF Visits
<1> HIDE DEF w
<1>6. ASSUME NEW t \in Seq(Files), NEW st \in VisitState, Unseen(st) < m
      PROVE  w[t][st] = v[t][st]
  BY <1>4, <1>6, <1>2
<1>7. ASSUME NEW f \in Files, NEW st \in VisitState, Unseen(st) <= m
      PROVE  Into(w, files, f, st) = Into(v, files, f, st)
  <2>1. CASE IsNew(files, f, st)
    <3>1. Unseen(Enter(st, f)) < m /\ Enter(st, f) \in VisitState /\ deps(files, f) \in Seq(Files)
      BY <2>1, <1>7, FitInto, EnterIs, DepsAreFiles
    <3>2. w[deps(files, f)][Enter(st, f)] = v[deps(files, f)][Enter(st, f)]
      BY <3>1, <1>6
    <3> QED BY <3>2 DEF Into
  <2>2. CASE ~IsNew(files, f, st)
    BY <2>2 DEF Into
  <2> QED BY <2>1, <2>2
<1>8. ASSUME NEW t \in Seq(Files), NEW st \in VisitState, Unseen(st) < m
      PROVE  w[t][st] = Walked(w, files, t, st) /\ st.seen \subseteq w[t][st].seen
  <2>1. w[t][st] = Walked(v, files, t, st) /\ st.seen \subseteq w[t][st].seen
    BY <1>6, <1>8 DEF Fit
  <2>2. CASE t = <<>>
    BY <2>1, <2>2 DEF Walked
  <2>3. CASE t # <<>>
    <3>1. Head(t) \in Files /\ Tail(t) \in Seq(Files)
      BY <2>3, SeqParts
    <3> DEFINE r == Into(v, files, Head(t), st)
    <3>2. Into(w, files, Head(t), st) = r
      BY <3>1, <1>7, <1>8, <1>2
    <3>3. r \in VisitState /\ Unseen(r) < m
      <4>1. CASE IsNew(files, Head(t), st)
        <5>1. Unseen(st) <= m
          BY <1>2, <1>8
        <5> QED BY <3>1, <4>1, <5>1, FitInto, ZenonT(60)
      <4>2. CASE ~IsNew(files, Head(t), st)
        BY <4>2, <1>8 DEF Into
      <4> QED BY <4>1, <4>2
    <3>4. Walked(v, files, t, st) = v[Tail(t)][r] /\ Walked(w, files, t, st) = w[Tail(t)][r]
      BY <2>3, <3>2 DEF Walked
    <3> HIDE DEF r
    <3>5. w[Tail(t)][r] = v[Tail(t)][r]
      BY <3>1, <3>3, <1>6
    <3> QED BY <2>1, <3>4, <3>5
  <2> QED BY <2>2, <2>3
<1>9. ASSUME NEW t \in Seq(Files), NEW st \in VisitState, Unseen(st) = m
      PROVE  w[t][st] = Walked(w, files, t, st) /\ st.seen \subseteq w[t][st].seen
  <2>1. w[t][st] = SkipsTo(v, files, t, st) /\ st.seen \subseteq w[t][st].seen
    BY <1>3, <1>4, <1>9
  <2>2. CASE t = <<>>
    <3>1. FirstNew(files, t, st) = {}
      BY <2>2 DEF FirstNew
    <3> QED BY <2>1, <2>2, <3>1 DEF SkipsTo, Walked
  <2>3. CASE t # <<>> /\ ~IsNew(files, Head(t), st)
    <3>1. Tail(t) \in Seq(Files)
      BY <2>3, SeqParts
    <3>2. w[Tail(t)][st] = SkipsTo(v, files, Tail(t), st)
      BY <3>1, <1>4, <1>9
    <3>3. Walked(w, files, t, st) = w[Tail(t)][st]
      BY <2>3 DEF Walked, Into
    <3> QED BY <2>1, <2>3, <3>2, <3>3, SkipsOne
  <2>4. CASE t # <<>> /\ IsNew(files, Head(t), st)
    <3>1. /\ Len(t) \in Nat /\ Len(t) > 0 /\ Head(t) = t[1] /\ Head(t) \in Files
          /\ Tail(t) \in Seq(Files)
      BY <2>4, SeqParts
    <3>2. 1 \in FirstNew(files, t, st)
      BY <2>4, <3>1 DEF FirstNew
    <3>3. SkipsTo(v, files, t, st) = FromFirst(v, files, t, st, 1)
      BY <3>2, SkipsToIs
    <3>4. Tail(t) = SubSeq(t, 1 + 1, Len(t))
      <4> DEFINE u == SubSeq(t, 1 + 1, Len(t))
      <4>1. u \in Seq(Files) /\ Len(u) = Len(t) - 1 /\ \A j \in 1 .. Len(t) - 1 : u[j] = t[1 + j]
        BY <3>1, RestIs, 1 \in 1 .. Len(t)
      <4>2. /\ Len(Tail(t)) = Len(t) - 1 /\ \A j \in 1 .. Len(t) - 1 : Tail(t)[j] = t[j + 1]
        BY <2>4, SeqParts
      <4> HIDE DEF u
      <4>3. \A j \in 1 .. Len(u) : u[j] = Tail(t)[j]
        BY <3>1, <4>1, <4>2
      <4> QED BY <3>1, <4>1, <4>2, <4>3, SeqEqual DEF u
    <3> DEFINE r == Into(v, files, Head(t), st)
    <3>5. r \in VisitState /\ Unseen(r) < m
      <4>1. Unseen(st) <= m
        BY <1>2, <1>9
      <4> QED BY <3>1, <2>4, <4>1, FitInto, ZenonT(60)
    <3>6. Into(w, files, Head(t), st) = r
      BY <3>1, <1>7, <1>9, <1>2
    <3>7. SkipsTo(v, files, t, st) = v[Tail(t)][r]
      BY <3>1, <3>3, <3>4 DEF FromFirst
    <3>8. Walked(w, files, t, st) = w[Tail(t)][r]
      BY <2>4, <3>6 DEF Walked
    <3> HIDE DEF r
    <3>9. w[Tail(t)][r] = v[Tail(t)][r]
      BY <3>1, <3>5, <1>6
    <3> QED BY <2>1, <3>7, <3>8, <3>9
  <2> QED BY <2>2, <2>3, <2>4
<1>10. ASSUME NEW t \in Seq(Files), NEW st \in VisitState, Unseen(st) < m + 1
       PROVE  w[t][st] = Walked(w, files, t, st) /\ st.seen \subseteq w[t][st].seen
  <2>1. Unseen(st) < m \/ Unseen(st) = m
    BY <1>2, <1>10
  <2> QED BY <2>1, <1>8, <1>9
<1>11. Fit(w, files, m + 1)
  BY <1>5, <1>10 DEF Fit
<1> QED BY <1>11

\* There is a walk that is right everywhere.
LEMMA WalkExists ==
  ASSUME NEW files \in FileMap
  PROVE  \E v \in Visits : Walks(v, files)
<1> DEFINE S == {m \in Nat : \E v : Fit(v, files, m)}
<1>1. ASSUME NEW m \in Nat, \A j \in 0 .. m - 1 : j \in S
      PROVE  m \in S
  <2>1. CASE m = 0
    <3> DEFINE v == [t \in Seq(Files) |-> [st \in VisitState |-> st]]
    <3>1. v \in Visits
      BY DEF Visits
    <3>2. \A st \in VisitState : ~(Unseen(st) < 0)
      BY UnseenIs
    <3> HIDE DEF v
    <3>3. Fit(v, files, 0)
      BY <3>1, <3>2 DEF Fit
    <3> QED BY <3>3, <2>1
  <2>2. CASE m # 0
    <3>1. m - 1 \in 0 .. m - 1 /\ m - 1 \in Nat /\ (m - 1) + 1 = m
      BY <2>2
    <3>2. PICK v : Fit(v, files, m - 1)
      BY <3>1, <1>1
    <3>3. \E w : Fit(w, files, (m - 1) + 1)
      BY <3>1, <3>2, FitOneMore
    <3> QED BY <3>1, <3>3
  <2> QED BY <2>1, <2>2
<1> HIDE DEF S
<1>2. \A m \in Nat : m \in S
  BY <1>1, Induction
<1> DEFINE n == Cardinality(Files) + 1
<1>3. Cardinality(Files) \in Nat /\ n \in Nat
  BY FilesFinite, FS_CardinalityType
<1>4. PICK v : Fit(v, files, n)
  BY <1>2, <1>3 DEF S
<1>5. ASSUME NEW st \in VisitState PROVE Unseen(st) < n
  <2>1. Files \ st.seen \in SUBSET Files
    OBVIOUS
  <2>2. Cardinality(Files \ st.seen) <= Cardinality(Files)
    BY <2>1, FilesFinite, FS_Subset
  <2>3. Unseen(st) \in Nat
    BY UnseenIs
  <2> QED BY <1>3, <2>2, <2>3 DEF Unseen
<1> HIDE DEF n
<1> QED BY <1>4, <1>5 DEF Fit, Walks

\* visit is that walk.
LEMMA VisitIs ==
  ASSUME NEW files \in FileMap
  PROVE  Walks(visit(files), files)
<1> DEFINE Is(v) == v = [todo \in Seq(Files) |-> [st \in VisitState |->
                          IF todo = <<>> THEN st
                          ELSE v[Tail(todo)][IF Head(todo) \in st.seen \/ Head(todo) \notin DOMAIN files THEN st
                                             ELSE Place(v[deps(files, Head(todo))][[st EXCEPT !.seen = @ \cup {Head(todo)}]], Head(todo))]]]
           Body(v, t, st) == IF t = <<>> THEN st
                             ELSE v[Tail(t)][IF Head(t) \in st.seen \/ Head(t) \notin DOMAIN files THEN st
                                             ELSE Place(v[deps(files, Head(t))][[st EXCEPT !.seen = @ \cup {Head(t)}]], Head(t))]
<1>1. ASSUME NEW v, NEW t \in Seq(Files), NEW st \in VisitState
      PROVE  Body(v, t, st) = Walked(v, files, t, st)
  BY Zenon DEF Walked, Into, IsNew, Enter
<1>2. visit(files) = CHOOSE v : Is(v)
  BY DEF visit
<1>3. PICK w \in Visits : Walks(w, files)
  BY WalkExists
<1>4. \A t \in Seq(Files) : \A st \in VisitState : w[t][st] = Body(w, t, st)
  <2> HIDE DEF Body
  <2> QED BY <1>1, <1>3 DEF Walks
<1>5. Is(w)
  <2>1. w \in [Seq(Files) -> [VisitState -> VisitState]]
    BY DEF Visits
  <2> HIDE DEF Body
  <2>2. w = [t \in Seq(Files) |-> [st \in VisitState |-> Body(w, t, st)]]
    BY <2>1, <1>4
  <2> QED BY <2>2 DEF Body
<1> DEFINE v == visit(files)
<1>6. Is(v)
  <2> HIDE DEF Is
  <2> QED BY <1>2, <1>5
<1> HIDE DEF v
<1>7. ASSUME NEW t \in Seq(Files), NEW st \in VisitState PROVE v[t][st] = Body(v, t, st)
  <2> HIDE DEF Body
  <2>1. v = [u \in Seq(Files) |-> [s \in VisitState |-> Body(v, u, s)]]
    BY <1>6 DEF Body
  <2>2. v[t] = [s \in VisitState |-> Body(v, t, s)]
    BY <2>1
  <2> QED BY <2>2
<1>8. Walks(v, files)
  <2> HIDE DEF Body
  <2> QED BY <1>1, <1>7 DEF Walks
<1> QED BY <1>8 DEF v

\* What holds of a call of visit when it holds of every call with fewer files unseen,
\* and of the call for the tail in the same state, holds of them all.
LEMMA WalkInduction ==
  ASSUME NEW G,
         \A t \in Seq(Files) : \A st \in VisitState :
           /\ \A u \in Seq(Files) : \A s \in VisitState : Unseen(s) < Unseen(st) => s \in G[u]
           /\ t # <<>> => st \in G[Tail(t)]
           => st \in G[t]
  PROVE  \A t \in Seq(Files) : \A st \in VisitState : st \in G[t]
<1> DEFINE All(m) == \A t \in Seq(Files) : \A st \in VisitState : Unseen(st) = m => st \in G[t]
           S == {m \in Nat : All(m)}
<1>0. \A st \in VisitState : Unseen(st) \in Nat
  BY UnseenIs
<1>1. ASSUME NEW m \in Nat, \A j \in 0 .. m - 1 : j \in S
      PROVE  m \in S
  <2>1. ASSUME NEW u \in Seq(Files), NEW s \in VisitState, Unseen(s) < m PROVE s \in G[u]
    <3>1. Unseen(s) \in 0 .. m - 1
      BY <1>0, <2>1
    <3> QED BY <3>1, <1>1
  <2> DEFINE T == {n \in Nat : \A t \in Seq(Files) : \A st \in VisitState :
                     Len(t) = n /\ Unseen(st) = m => st \in G[t]}
  <2>2. ASSUME NEW n \in Nat, \A j \in 0 .. n - 1 : j \in T
        PROVE  n \in T
    <3>1. ASSUME NEW t \in Seq(Files), NEW st \in VisitState, Len(t) = n, Unseen(st) = m
          PROVE  st \in G[t]
      <4>1. ASSUME t # <<>> PROVE st \in G[Tail(t)]
        <5>1. Tail(t) \in Seq(Files) /\ Len(Tail(t)) = n - 1 /\ n > 0
          BY <4>1, <3>1, SeqParts
        <5>2. n - 1 \in T
          BY <5>1, <2>2
        <5> QED BY <5>1, <5>2, <3>1
      <4>2. \A u \in Seq(Files) : \A s \in VisitState : Unseen(s) < Unseen(st) => s \in G[u]
        BY <2>1, <3>1
      <4> QED BY <4>1, <4>2
    <3> QED BY <3>1
  <2> HIDE DEF T
  <2>3. \A n \in Nat : n \in T
    BY <2>2, Induction
  <2>4. ASSUME NEW t \in Seq(Files), NEW st \in VisitState, Unseen(st) = m
        PROVE  st \in G[t]
    <3>1. Len(t) \in T
      BY <2>3
    <3> QED BY <3>1, <2>4 DEF T
  <2> QED BY <2>4
<1> HIDE DEF S
<1>2. \A m \in Nat : m \in S
  BY <1>1, Induction
<1>3. ASSUME NEW t \in Seq(Files), NEW st \in VisitState PROVE st \in G[t]
  <2>1. Unseen(st) \in S
    BY <1>0, <1>2
  <2> QED BY <2>1 DEF S
<1> QED BY <1>3

\* Every file placed was seen; the files seen and not placed are those whose
\* imports are being visited.
PlacesSeen(st) == ToSet(st.out) \subseteq st.seen
Open(st) == st.seen \ ToSet(st.out)

\* What visit does: it sees every file it is given that was fetched, sees no
\* other, and leaves none open that it has not found open.
Visited(files, t, st, r) ==
  /\ r \in VisitState
  /\ st.seen \subseteq r.seen /\ r.seen \subseteq st.seen \cup DOMAIN files
  /\ ToSet(t) \cap DOMAIN files \subseteq r.seen
  /\ PlacesSeen(st) => PlacesSeen(r) /\ Open(r) = Open(st)

\* The visit of one file, from that of its imports.
LEMMA VisitedInto ==
  ASSUME NEW v, NEW files \in FileMap, NEW f \in Files, NEW st \in VisitState, IsNew(files, f, st),
         Visited(files, deps(files, f), Enter(st, f), v[deps(files, f)][Enter(st, f)])
  PROVE  /\ Visited(files, <<f>>, st, Into(v, files, f, st))
         /\ Unseen(Into(v, files, f, st)) < Unseen(st)
<1> DEFINE e == Enter(st, f)
           i == v[deps(files, f)][e]
           r == Into(v, files, f, st)
<1>1. e \in VisitState /\ e.seen = st.seen \cup {f} /\ e.out = st.out /\ Unseen(e) < Unseen(st)
  BY EnterIs
<1>2. Visited(files, deps(files, f), e, i)
  OBVIOUS
<1>3. r = Place(i, f)
  BY DEF Into
<1>4. f \notin st.seen /\ f \in DOMAIN files
  BY DEF IsNew
<1> HIDE DEF e, i, r
<1>5. i \in VisitState
  BY <1>2 DEF Visited
<1>6. r \in VisitState /\ r.seen = i.seen /\ r.out = Append(i.out, f)
  BY <1>3, <1>5, PlaceIs
<1>7. ToSet(r.out) = ToSet(i.out) \cup {f}
  <2>1. i.out \in Seq(Files)
    BY <1>5 DEF VisitState
  <2> QED BY <2>1, <1>6, SetOfAppend
<1>8. e.seen \subseteq i.seen /\ i.seen \subseteq e.seen \cup DOMAIN files
  BY <1>2 DEF Visited
<1>9. st.seen \subseteq r.seen /\ r.seen \subseteq st.seen \cup DOMAIN files
  BY <1>1, <1>4, <1>6, <1>8
<1>10. ToSet(<<f>>) \cap DOMAIN files \subseteq r.seen
  <2>1. ToSet(<<f>>) = {f}
    BY DEF ToSet
  <2> QED BY <2>1, <1>1, <1>6, <1>8
<1>11. ASSUME PlacesSeen(st) PROVE PlacesSeen(r) /\ Open(r) = Open(st)
  <2>1. PlacesSeen(e) /\ Open(e) = Open(st) \cup {f}
    BY <1>1, <1>4, <1>11 DEF PlacesSeen, Open
  <2>2. PlacesSeen(i) /\ Open(i) = Open(st) \cup {f}
    BY <2>1, <1>2 DEF Visited
  <2>3. f \notin Open(st)
    BY <1>4 DEF Open
  <2>4. f \in i.seen
    BY <1>1, <1>8
  <2> QED BY <2>2, <2>3, <2>4, <1>6, <1>7 DEF PlacesSeen, Open
<1>12. Unseen(r) < Unseen(st)
  <2>1. e.seen \subseteq r.seen
    BY <1>6, <1>8
  <2>2. Unseen(r) \in Nat /\ Unseen(e) \in Nat /\ Unseen(st) \in Nat /\ Unseen(r) <= Unseen(e)
    BY <2>1, <1>1, <1>6, UnseenIs
  <2> QED BY <2>2, <1>1
<1>13. Visited(files, <<f>>, st, r)
  BY <1>6, <1>9, <1>10, <1>11 DEF Visited
<1> QED BY <1>12, <1>13 DEF r

\* The visit of a sequence, from those of its head and of its tail.
LEMMA VisitedParts ==
  ASSUME NEW files \in FileMap, NEW t \in Seq(Files), t # <<>>, NEW st, NEW i, NEW r,
         Visited(files, <<Head(t)>>, st, i), Visited(files, Tail(t), i, r)
  PROVE  Visited(files, t, st, r)
<1>1. ToSet(t) = {Head(t)} \cup ToSet(Tail(t)) /\ ToSet(<<Head(t)>>) = {Head(t)}
  BY SetOfParts DEF ToSet
<1>2. /\ st.seen \subseteq i.seen /\ i.seen \subseteq st.seen \cup DOMAIN files
      /\ ToSet(<<Head(t)>>) \cap DOMAIN files \subseteq i.seen
      /\ PlacesSeen(st) => PlacesSeen(i) /\ Open(i) = Open(st)
  BY DEF Visited
<1>3. /\ r \in VisitState /\ i.seen \subseteq r.seen /\ r.seen \subseteq i.seen \cup DOMAIN files
      /\ ToSet(Tail(t)) \cap DOMAIN files \subseteq r.seen
      /\ PlacesSeen(i) => PlacesSeen(r) /\ Open(r) = Open(i)
  BY DEF Visited
<1> QED BY <1>1, <1>2, <1>3 DEF Visited

\* visit does so, whatever it is given.
LEMMA VisitVisits ==
  ASSUME NEW files \in FileMap
  PROVE  \A t \in Seq(Files) : \A st \in VisitState : Visited(files, t, st, visit(files)[t][st])
<1> DEFINE v == visit(files)
           G == [t \in Seq(Files) |-> {st \in VisitState : Visited(files, t, st, v[t][st])}]
<1>1. Walks(v, files)
  BY VisitIs
<1> HIDE DEF v
<1>2. ASSUME NEW t \in Seq(Files), NEW st \in VisitState,
             \A u \in Seq(Files) : \A s \in VisitState : Unseen(s) < Unseen(st) => s \in G[u],
             t # <<>> => st \in G[Tail(t)]
      PROVE  st \in G[t]
  <2>1. v[t][st] = Walked(v, files, t, st)
    BY <1>1 DEF Walks
  <2>2. CASE t = <<>>
    <3>1. v[t][st] = st
      BY <2>1, <2>2 DEF Walked
    <3>2. Visited(files, t, st, st)
      BY <2>2, SetOfEmpty DEF Visited
    <3> QED BY <3>1, <3>2
  <2>3. CASE t # <<>>
    <3> DEFINE f == Head(t)
               r == Into(v, files, f, st)
    <3>1. f \in Files /\ Tail(t) \in Seq(Files)
      BY <2>3, SeqParts
    <3>2. v[t][st] = v[Tail(t)][r]
      BY <2>1, <2>3 DEF Walked
    <3>3. CASE IsNew(files, f, st)
      <4>1. Enter(st, f) \in VisitState /\ Unseen(Enter(st, f)) < Unseen(st) /\ deps(files, f) \in Seq(Files)
        BY <3>1, <3>3, EnterIs, DepsAreFiles
      <4>2. Enter(st, f) \in G[deps(files, f)]
        BY <4>1, <1>2
      <4>3. Visited(files, deps(files, f), Enter(st, f), v[deps(files, f)][Enter(st, f)])
        BY <4>1, <4>2
      <4> HIDE DEF G
      <4>4. Visited(files, <<f>>, st, r) /\ Unseen(r) < Unseen(st)
        BY <3>1, <3>3, <4>3, VisitedInto
      <4>5. r \in VisitState
        BY <4>4 DEF Visited
      <4>6. r \in G[Tail(t)]
        BY <3>1, <4>4, <4>5, <1>2
      <4>7. Visited(files, Tail(t), r, v[Tail(t)][r])
        BY <3>1, <4>6 DEF G
      <4>8. Visited(files, t, st, v[t][st])
        BY <2>3, <3>2, <4>4, <4>7, VisitedParts
      <4> QED BY <4>8 DEF G
    <3>4. CASE ~IsNew(files, f, st)
      <4>1. r = st
        BY <3>4 DEF Into
      <4>2. Visited(files, Tail(t), st, v[Tail(t)][st])
        BY <2>3, <3>1, <1>2
      <4>3. Visited(files, <<f>>, st, st)
        <5>1. ToSet(<<f>>) = {f}
          BY DEF ToSet
        <5> QED BY <5>1, <3>4 DEF Visited, IsNew
      <4>4. Visited(files, t, st, v[t][st])
        BY <2>3, <3>2, <4>1, <4>2, <4>3, VisitedParts
      <4> QED BY <4>4
    <3> QED BY <3>3, <3>4
  <2> QED BY <2>2, <2>3
<1> HIDE DEF G
<1>3. \A t \in Seq(Files) : \A st \in VisitState : st \in G[t]
  BY <1>2, WalkInduction
<1>4. ASSUME NEW t \in Seq(Files), NEW st \in VisitState PROVE Visited(files, t, st, v[t][st])
  <2>1. st \in G[t]
    BY <1>3
  <2> QED BY <2>1 DEF G
<1> QED BY <1>4 DEF v

-----------------------------------------------------------------------------
(* topo_sort and the descriptor pool                                       *)

\* The imports of the files go down: none imports itself, directly or not. Of the
\* files of one schema protoc sees to it; files of two versions may form a cycle.
Descends(files, rank) == \A f \in DOMAIN files : \A g \in ToSet(deps(files, f)) : rank[g] < rank[f]
Acyclic(files) == \E rank \in [Files -> Nat] : Descends(files, rank)

\* Every import of a file is here, or one of those in S.
Chased(files, S) == \A f \in DOMAIN files : ToSet(deps(files, f)) \subseteq DOMAIN files \cup S

LEMMA OrderedOne ==
  ASSUME NEW files, NEW out \in Seq(Files), NEW f \in Files, Ordered(files, out), ToSet(deps(files, f)) \subseteq ToSet(out)
  PROVE  Ordered(files, Append(out, f))
<1> DEFINE o == Append(out, f)
           n == Len(out)
<1>1. /\ n \in Nat /\ DOMAIN out = 1 .. n /\ DOMAIN o = 1 .. n + 1
      /\ o[n + 1] = f /\ \A k \in 1 .. n : o[k] = out[k]
  OBVIOUS
<1> HIDE DEF o, n
<1>2. ASSUME NEW k \in 1 .. n PROVE ToSet(deps(files, o[k])) \subseteq {o[j] : j \in 1 .. k - 1}
  <2>1. ToSet(deps(files, out[k])) \subseteq {out[j] : j \in 1 .. k - 1}
    BY <1>1 DEF Ordered
  <2>2. \A j \in 1 .. k - 1 : o[j] = out[j]
    BY <1>1
  <2> QED BY <2>1, <2>2, <1>1
<1>3. ToSet(deps(files, o[n + 1])) \subseteq {o[j] : j \in 1 .. (n + 1) - 1}
  <2>1. ASSUME NEW x \in ToSet(out) PROVE x \in {o[j] : j \in 1 .. (n + 1) - 1}
    <3>1. PICK j \in 1 .. n : x = out[j]
      BY <2>1, <1>1 DEF ToSet
    <3>2. j \in 1 .. (n + 1) - 1 /\ o[j] = x
      BY <3>1, <1>1
    <3> QED BY <3>2
  <2> QED BY <2>1, <1>1
<1>4. ASSUME NEW k \in DOMAIN o PROVE ToSet(deps(files, o[k])) \subseteq {o[j] : j \in 1 .. k - 1}
  <2>1. k \in 1 .. n \/ k = n + 1
    BY <1>1
  <2> QED BY <2>1, <1>2, <1>3
<1> QED BY <1>4 DEF Ordered, o

\* visit places what the pool takes, when what it is given comes before every
\* file whose imports are being visited.
Below(rank, t, st) == \A f \in ToSet(t) : \A g \in Open(st) : rank[f] < rank[g]
Orders(files, rank, t, st, r) ==
  PlacesSeen(st) /\ Ordered(files, st.out) /\ Below(rank, t, st) => Ordered(files, r.out)

\* A file is placed after its imports: they are seen, and none of them is open.
LEMMA OrdersInto ==
  ASSUME NEW files \in FileMap, Chased(files, {}), NEW rank \in [Files -> Nat], Descends(files, rank),
         NEW f \in Files, NEW st \in VisitState, IsNew(files, f, st),
         PlacesSeen(st), Ordered(files, st.out), \A g \in Open(st) : rank[f] < rank[g],
         NEW i, Visited(files, deps(files, f), Enter(st, f), i), Orders(files, rank, deps(files, f), Enter(st, f), i)
  PROVE  Ordered(files, Place(i, f).out)
<1> DEFINE e == Enter(st, f)
<1>1. e \in VisitState /\ e.seen = st.seen \cup {f} /\ e.out = st.out
  BY EnterIs
<1>2. f \notin st.seen /\ f \in DOMAIN files /\ deps(files, f) \in Seq(Files)
  BY DepsAreFiles DEF IsNew
<1>3. PlacesSeen(e) /\ Open(e) = Open(st) \cup {f}
  BY <1>1, <1>2 DEF PlacesSeen, Open
<1>4. Open(st) \subseteq Files /\ ToSet(deps(files, f)) \subseteq Files
  BY <1>2, SetOfSeq DEF Open, VisitState
<1>5. \A d \in ToSet(deps(files, f)) : rank[d] < rank[f] /\ rank[d] \in Nat /\ rank[f] \in Nat
  BY <1>2, <1>4 DEF Descends
<1>6. Below(rank, deps(files, f), e)
  <2>1. ASSUME NEW d \in ToSet(deps(files, f)), NEW g \in Open(st) \cup {f} PROVE rank[d] < rank[g]
    <3>1. rank[d] < rank[f] /\ rank[d] \in Nat /\ rank[f] \in Nat /\ rank[g] \in Nat
      BY <1>4, <1>5
    <3>2. g = f \/ rank[f] < rank[g]
      BY <2>1
    <3> QED BY <3>1, <3>2
  <2> QED BY <2>1, <1>3 DEF Below
<1> HIDE DEF e
<1>7. Ordered(files, i.out)
  BY <1>1, <1>3, <1>6 DEF Orders, e
<1>8. /\ i \in VisitState /\ Open(i) = Open(st) \cup {f}
      /\ ToSet(deps(files, f)) \cap DOMAIN files \subseteq i.seen
  BY <1>3 DEF Visited, e
<1>9. ToSet(deps(files, f)) \subseteq ToSet(i.out)
  <2>1. ASSUME NEW d \in ToSet(deps(files, f)) PROVE d \in ToSet(i.out)
    <3>1. d \in i.seen
      BY <1>2, <1>8 DEF Chased
    <3>2. d \notin Open(st) \cup {f}
      <4>1. d # f
        BY <1>5
      <4>2. d \notin Open(st)
        BY <1>5
      <4> QED BY <4>1, <4>2
    <3> QED BY <3>1, <3>2, <1>8 DEF Open
  <2> QED BY <2>1
<1>10. i.out \in Seq(Files)
  BY <1>8 DEF VisitState
<1> QED BY <1>7, <1>8, <1>9, <1>10, OrderedOne, PlaceIs

LEMMA VisitOrders ==
  ASSUME NEW files \in FileMap, Chased(files, {}), NEW rank \in [Files -> Nat], Descends(files, rank)
  PROVE  \A t \in Seq(Files) : \A st \in VisitState : Orders(files, rank, t, st, visit(files)[t][st])
<1> DEFINE v == visit(files)
           G == [t \in Seq(Files) |-> {st \in VisitState : Orders(files, rank, t, st, v[t][st])}]
<1>1. /\ Walks(v, files)
      /\ \A t \in Seq(Files) : \A st \in VisitState : Visited(files, t, st, v[t][st])
  BY VisitIs, VisitVisits
<1> HIDE DEF v
<1>2. ASSUME NEW t \in Seq(Files), NEW st \in VisitState,
             \A u \in Seq(Files) : \A s \in VisitState : Unseen(s) < Unseen(st) => s \in G[u],
             t # <<>> => st \in G[Tail(t)]
      PROVE  st \in G[t]
  <2>1. v[t][st] = Walked(v, files, t, st)
    BY <1>1 DEF Walks
  <2>2. CASE t = <<>>
    <3>1. v[t][st] = st
      BY <2>1, <2>2 DEF Walked
    <3>2. Orders(files, rank, t, st, st)
      BY DEF Orders
    <3> QED BY <3>1, <3>2
  <2>3. CASE t # <<>>
    <3> DEFINE f == Head(t)
               r == Into(v, files, f, st)
    <3>1. f \in Files /\ Tail(t) \in Seq(Files) /\ ToSet(t) = {f} \cup ToSet(Tail(t))
      BY <2>3, SeqParts, SetOfParts
    <3>2. v[t][st] = v[Tail(t)][r]
      BY <2>1, <2>3 DEF Walked
    <3>3. CASE IsNew(files, f, st)
      <4> DEFINE i == v[deps(files, f)][Enter(st, f)]
      <4>1. Enter(st, f) \in VisitState /\ Unseen(Enter(st, f)) < Unseen(st) /\ deps(files, f) \in Seq(Files)
        BY <3>1, <3>3, EnterIs, DepsAreFiles
      <4>2. Visited(files, deps(files, f), Enter(st, f), i)
        BY <4>1, <1>1
      <4>3. Orders(files, rank, deps(files, f), Enter(st, f), i)
        <5>1. Enter(st, f) \in G[deps(files, f)]
          BY <4>1, <1>2
        <5> QED BY <4>1, <5>1
      <4> HIDE DEF G
      <4>4. Visited(files, <<f>>, st, r) /\ Unseen(r) < Unseen(st) /\ r = Place(i, f)
        BY <3>1, <3>3, <4>2, VisitedInto DEF Into
      <4>5. r \in VisitState /\ (PlacesSeen(st) => PlacesSeen(r) /\ Open(r) = Open(st))
        BY <4>4 DEF Visited
      <4>6. r \in G[Tail(t)]
        BY <3>1, <4>4, <4>5, <1>2
      <4>7. Orders(files, rank, Tail(t), r, v[Tail(t)][r])
        BY <3>1, <4>6 DEF G
      <4> HIDE DEF i, r, f
      <4>8. ASSUME PlacesSeen(st), Ordered(files, st.out), Below(rank, t, st)
            PROVE  Ordered(files, v[Tail(t)][r].out)
        <5>1. \A g \in Open(st) : rank[f] < rank[g]
          BY <4>8, <3>1 DEF Below
        <5>2. Ordered(files, r.out)
          BY <4>8, <5>1, <3>1, <3>3, <4>2, <4>3, <4>4, OrdersInto
        <5>3. Below(rank, Tail(t), r)
          BY <4>5, <4>8, <3>1 DEF Below
        <5> QED BY <4>5, <4>7, <4>8, <5>2, <5>3 DEF Orders
      <4>9. Orders(files, rank, t, st, v[t][st])
        BY <4>8, <3>2 DEF Orders
      <4> QED BY <4>9 DEF G
    <3>4. CASE ~IsNew(files, f, st)
      <4>1. r = st
        BY <3>4 DEF Into
      <4>2. Orders(files, rank, Tail(t), st, v[Tail(t)][st])
        BY <2>3, <3>1, <1>2
      <4>3. Orders(files, rank, t, st, v[t][st])
        BY <3>1, <3>2, <4>1, <4>2 DEF Orders, Below
      <4> QED BY <4>3
    <3> QED BY <3>3, <3>4
  <2> QED BY <2>2, <2>3
<1> HIDE DEF G
<1>3. \A t \in Seq(Files) : \A st \in VisitState : st \in G[t]
  BY <1>2, WalkInduction
<1>4. ASSUME NEW t \in Seq(Files), NEW st \in VisitState PROVE Orders(files, rank, t, st, v[t][st])
  <2>1. st \in G[t]
    BY <1>3
  <2> QED BY <2>1 DEF G
<1> QED BY <1>4 DEF v

\* topo_sort orders the files of the map, each of them and no other.
LEMMA TopoSortIs ==
  ASSUME NEW files \in FileMap
  PROVE  topo_sort(files) \in Seq(Files) /\ ToSet(topo_sort(files)) = DOMAIN files
<1> DEFINE s0 == [seen |-> {}, out |-> <<>>]
           r == visit(files)[NameOrder][s0]
<1>1. s0 \in VisitState /\ s0.seen = {} /\ s0.out = <<>>
  BY DEF VisitState
<1>2. NameOrder \in Seq(Files) /\ ToSet(NameOrder) = Files
  BY GraphAssumption
<1> HIDE DEF s0
<1>3. Visited(files, NameOrder, s0, r)
  BY <1>1, <1>2, VisitVisits
<1> HIDE DEF r
<1>4. PlacesSeen(s0) /\ Open(s0) = {}
  BY <1>1, SetOfEmpty DEF PlacesSeen, Open
<1>5. r \in VisitState /\ r.seen = DOMAIN files /\ PlacesSeen(r) /\ Open(r) = {}
  BY <1>1, <1>2, <1>3, <1>4, FileMapIs DEF Visited
<1>6. topo_sort(files) = r.out
  BY DEF topo_sort, r, s0
<1> QED BY <1>5, <1>6 DEF PlacesSeen, Open, VisitState

\* What the pool takes has every import of its files (DescriptorPool, which
\* refuses a file whose import it does not have).
LEMMA AcceptedIsClosed ==
  ASSUME NEW files \in FileMap, Ordered(files, topo_sort(files))
  PROVE  Chased(files, {})
<1> DEFINE o == topo_sort(files)
<1>1. o \in Seq(Files) /\ ToSet(o) = DOMAIN files
  BY TopoSortIs
<1> HIDE DEF o
<1>2. ASSUME NEW f \in DOMAIN files PROVE ToSet(deps(files, f)) \subseteq DOMAIN files
  <2>1. PICK k \in DOMAIN o : o[k] = f
    BY <1>1 DEF ToSet
  <2>2. k \in 1 .. Len(o) /\ Len(o) \in Nat /\ DOMAIN o = 1 .. Len(o)
    BY <1>1, <2>1
  <2>3. ToSet(deps(files, f)) \subseteq {o[j] : j \in 1 .. k - 1}
    BY <2>1 DEF Ordered, o
  <2>4. {o[j] : j \in 1 .. k - 1} \subseteq ToSet(o)
    <3>1. \A j \in 1 .. k - 1 : j \in DOMAIN o
      BY <2>2
    <3> QED BY <3>1 DEF ToSet
  <2> QED BY <2>3, <2>4, <1>1
<1> QED BY <1>2 DEF Chased

\* And it takes whatever has every import of its files, in the order of topo_sort.
LEMMA ClosedIsAccepted ==
  ASSUME NEW files \in FileMap, Chased(files, {}), Acyclic(files)
  PROVE  Ordered(files, topo_sort(files))
<1> DEFINE s0 == [seen |-> {}, out |-> <<>>]
           r == visit(files)[NameOrder][s0]
<1>1. s0 \in VisitState /\ s0.seen = {} /\ s0.out = <<>>
  BY DEF VisitState
<1>2. NameOrder \in Seq(Files)
  BY GraphAssumption
<1>3. PICK rank \in [Files -> Nat] : Descends(files, rank)
  BY DEF Acyclic
<1> HIDE DEF s0
<1>4. Orders(files, rank, NameOrder, s0, r)
  BY <1>1, <1>2, <1>3, VisitOrders
<1> HIDE DEF r
<1>5. PlacesSeen(s0) /\ Open(s0) = {} /\ Ordered(files, s0.out)
  BY <1>1, SetOfEmpty DEF PlacesSeen, Open, Ordered
<1>6. Ordered(files, r.out)
  BY <1>4, <1>5 DEF Orders, Below
<1> QED BY <1>6 DEF topo_sort, r, s0

\* The order of topo_sort loses nothing: of a set of files whose imports have no cycle,
\* be they of one version or of several, it puts every file after its imports exactly
\* when the set has them all, whatever the names (reflect.rs topo_sort, load_all).
THEOREM OrderIsAccepted ==
  ASSUME NEW files \in FileMap, Acyclic(files)
  PROVE  Ordered(files, topo_sort(files)) <=> Chased(files, {})
  BY AcceptedIsClosed, ClosedIsAccepted

-----------------------------------------------------------------------------
(* The types of a load                                                     *)

Answer == [kind : {"files", "error", "other", "end"}, files : Seq(Files), ver : Versions]
LoadType ==
  [at : {"off", "list", "list_alpha", "next", "fetch", "failed"},
   left : Seq(Symbols), all : FileMap, open : BOOLEAN,
   files : FileMap, asked : SUBSET Files, pending : Nat, sending : Seq(Names),
   reqq : Seq(Names), respq : Seq(Answer), faulted : BOOLEAN, since : Versions]
Fits(l) == l \in LoadType /\ Len(l.reqq) <= ReqCap /\ Len(l.respq) <= Window

LEMMA EmptyMap == <<>> \in FileMap /\ DOMAIN <<>> = {}
<1>1. <<>> \in [{} -> Versions] /\ DOMAIN <<>> = {}
  OBVIOUS
<1> QED BY <1>1, FileMapIs

LEMMA ExtendIs ==
  ASSUME NEW m \in FileMap, NEW n \in FileMap
  PROVE  /\ extend(m, n) \in FileMap /\ DOMAIN extend(m, n) = DOMAIN m \cup DOMAIN n
         /\ \A f \in DOMAIN extend(m, n) :
              extend(m, n)[f] = IF f \in DOMAIN n THEN n[f] ELSE m[f]
<1>1. /\ m \in [DOMAIN m -> Versions] /\ DOMAIN m \subseteq Files
      /\ n \in [DOMAIN n -> Versions] /\ DOMAIN n \subseteq Files
  BY FileMapIs
<1> DEFINE x == extend(m, n)
<1>2. DOMAIN x = DOMAIN m \cup DOMAIN n
  BY DEF extend
<1>3. \A f \in DOMAIN x : x[f] = IF f \in DOMAIN n THEN n[f] ELSE m[f]
  BY DEF extend
<1>4. x \in [DOMAIN x -> Versions]
  BY <1>1 DEF extend
<1> HIDE DEF x
<1>5. x \in FileMap
  BY <1>1, <1>2, <1>4, FileMapIs
<1> QED BY <1>2, <1>3, <1>5 DEF x

\* Files that have every import among them still do when more such files join them.
LEMMA ExtendChased ==
  ASSUME NEW m \in FileMap, NEW n \in FileMap, Chased(m, {}), Chased(n, {})
  PROVE  Chased(extend(m, n), {})
<1> DEFINE x == extend(m, n)
<1>1. /\ DOMAIN x = DOMAIN m \cup DOMAIN n
      /\ \A f \in DOMAIN x : x[f] = IF f \in DOMAIN n THEN n[f] ELSE m[f]
  BY ExtendIs
<1> HIDE DEF x
<1>2. ASSUME NEW f \in DOMAIN x PROVE ToSet(deps(x, f)) \subseteq DOMAIN x
  <2>1. CASE f \in DOMAIN n
    BY <2>1, <1>1 DEF deps, Chased
  <2>2. CASE f \notin DOMAIN n
    BY <2>2, <1>1 DEF deps, Chased
  <2> QED BY <2>1, <2>2
<1> QED BY <1>2 DEF Chased, x

-----------------------------------------------------------------------------
(* Ask, Note and NoteAll                                                   *)

\* A load gone from l to m by noting files of version v that import files in K: it has
\* more files, asked for more, and every import asked for since is to be sent; an
\* answer is awaited for each.
Grown(l, m, v, K) ==
  /\ m \in LoadType
  /\ m.at = l.at /\ m.left = l.left /\ m.all = l.all /\ m.open = l.open
  /\ m.reqq = l.reqq /\ m.respq = l.respq /\ m.faulted = l.faulted /\ m.since = l.since
  /\ DOMAIN l.files \subseteq DOMAIN m.files /\ l.asked \subseteq m.asked
  /\ m.asked \subseteq l.asked \cup ToSet(m.sending)
  /\ ToSet(l.sending) \subseteq ToSet(m.sending)
  /\ ToSet(m.sending) \subseteq ToSet(l.sending) \cup K
  /\ \A f \in DOMAIN m.files : m.files[f] = v \/ (f \in DOMAIN l.files /\ m.files[f] = l.files[f])
  /\ m.pending + Len(l.sending) = l.pending + Len(m.sending)
  /\ Chased(l.files, l.asked) => Chased(m.files, m.asked)

LEMMA GrownSelf == ASSUME NEW l \in LoadType, NEW v, NEW K PROVE Grown(l, l, v, K)
BY DEF Grown

LEMMA GrownOn ==
  ASSUME NEW l \in LoadType, NEW m, NEW n, NEW v, NEW K, Grown(l, m, v, K), Grown(m, n, v, K)
  PROVE  Grown(l, n, v, K)
<1>1. m \in LoadType /\ n \in LoadType
  BY DEF Grown
<1>2. /\ l.pending \in Nat /\ m.pending \in Nat /\ n.pending \in Nat
      /\ Len(l.sending) \in Nat /\ Len(m.sending) \in Nat /\ Len(n.sending) \in Nat
  BY <1>1 DEF LoadType
<1>3. n.pending + Len(l.sending) = l.pending + Len(n.sending)
  <2>1. /\ m.pending + Len(l.sending) = l.pending + Len(m.sending)
        /\ n.pending + Len(m.sending) = m.pending + Len(n.sending)
    BY DEF Grown
  <2> DEFINE a == l.pending
             b == m.pending
             c == n.pending
             x == Len(l.sending)
             y == Len(m.sending)
             z == Len(n.sending)
  <2>2. /\ a \in Nat /\ b \in Nat /\ c \in Nat /\ x \in Nat /\ y \in Nat /\ z \in Nat
        /\ b + x = a + y /\ c + y = b + z
    BY <1>2, <2>1
  <2> HIDE DEF a, b, c, x, y, z
  <2>3. c + x = a + z
    BY <2>2
  <2> QED BY <2>3 DEF a, c, x, z
<1>4. /\ n.at = l.at /\ n.left = l.left /\ n.all = l.all /\ n.open = l.open
      /\ n.reqq = l.reqq /\ n.respq = l.respq /\ n.faulted = l.faulted /\ n.since = l.since
  BY DEF Grown
<1>5. /\ DOMAIN l.files \subseteq DOMAIN n.files /\ l.asked \subseteq n.asked
      /\ n.asked \subseteq l.asked \cup ToSet(n.sending)
      /\ ToSet(l.sending) \subseteq ToSet(n.sending)
      /\ ToSet(n.sending) \subseteq ToSet(l.sending) \cup K
      /\ Chased(l.files, l.asked) => Chased(n.files, n.asked)
  BY DEF Grown
<1>6. ASSUME NEW f \in DOMAIN n.files
      PROVE  n.files[f] = v \/ (f \in DOMAIN l.files /\ n.files[f] = l.files[f])
  BY <1>6 DEF Grown
<1> QED BY <1>1, <1>3, <1>4, <1>5, <1>6 DEF Grown

\* An import asked for is here or on its way.
Known(l, d) == d \in DOMAIN l.files \cup l.asked

LEMMA AsksType ==
  ASSUME NEW l \in LoadType, NEW a \in SUBSET Files, NEW s \in Seq(Names), NEW n \in Nat
  PROVE  [l EXCEPT !.asked = a, !.sending = s, !.pending = n] \in LoadType
BY DEF LoadType

LEMMA AskGrows ==
  ASSUME NEW l \in LoadType, NEW d \in Files, NEW v, NEW K, d \in K
  PROVE  Grown(l, Ask(l, d), v, K) /\ Known(Ask(l, d), d)
<1>1. CASE d \in DOMAIN l.files \/ d \in l.asked
  <2>1. Ask(l, d) = l
    BY <1>1 DEF Ask
  <2> QED BY <1>1, <2>1, GrownSelf DEF Known
<1>2. CASE ~(d \in DOMAIN l.files \/ d \in l.asked)
  <2> DEFINE m == Ask(l, d)
  <2>1. m = [l EXCEPT !.asked = l.asked \cup {d}, !.sending = Append(l.sending, d), !.pending = l.pending + 1]
    BY <1>2 DEF Ask
  <2>2. /\ l.sending \in Seq(Names) /\ l.pending \in Nat /\ l.asked \subseteq Files
        /\ Len(l.sending) \in Nat /\ d \in Names
    BY DEF LoadType, Names
  <2>3. /\ Append(l.sending, d) \in Seq(Names) /\ Len(Append(l.sending, d)) = Len(l.sending) + 1
        /\ ToSet(Append(l.sending, d)) = ToSet(l.sending) \cup {d}
    BY <2>2, SetOfAppend
  <2> HIDE DEF m
  <2>4. /\ m.at = l.at /\ m.left = l.left /\ m.all = l.all /\ m.open = l.open
        /\ m.reqq = l.reqq /\ m.respq = l.respq /\ m.faulted = l.faulted /\ m.since = l.since
        /\ m.files = l.files
        /\ m.asked = l.asked \cup {d} /\ m.sending = Append(l.sending, d) /\ m.pending = l.pending + 1
    BY <2>1 DEF LoadType
  <2>5. m \in LoadType
    <3>1. l.asked \cup {d} \in SUBSET Files /\ l.pending + 1 \in Nat
      BY <2>2
    <3> QED BY <2>1, <2>3, <3>1, AsksType
  <2>6. m.pending + Len(l.sending) = l.pending + Len(m.sending)
    <3>1. m.pending = l.pending + 1 /\ Len(m.sending) = Len(l.sending) + 1
      BY <2>3, <2>4
    <3> DEFINE a == l.pending
               b == Len(l.sending)
    <3>2. a \in Nat /\ b \in Nat /\ m.pending = a + 1 /\ Len(m.sending) = b + 1
      BY <2>2, <3>1
    <3> HIDE DEF a, b
    <3>3. m.pending + b = a + Len(m.sending)
      BY <3>2
    <3> QED BY <3>3 DEF a, b
  <2>7. Chased(l.files, l.asked) => Chased(m.files, m.asked)
    BY <2>4 DEF Chased
  <2>8. Grown(l, m, v, K)
    BY <2>3, <2>4, <2>5, <2>6, <2>7 DEF Grown
  <2> QED BY <2>4, <2>8 DEF Known, m
<1> QED BY <1>1, <1>2

LEMMA AskType == ASSUME NEW l \in LoadType, NEW d \in Files PROVE Ask(l, d) \in LoadType
<1>1. Grown(l, Ask(l, d), 0, Files)
  BY AskGrows
<1> QED BY <1>1 DEF Grown

\* Loads that grow from each to the next have grown from the first.
LEMMA GrownThrough ==
  ASSUME NEW l \in LoadType, NEW f, NEW n \in Nat, NEW v, NEW K, f[0] = l,
         \A k \in 1 .. n : f[k - 1] \in LoadType => Grown(f[k - 1], f[k], v, K)
  PROVE  \A k \in 0 .. n : Grown(l, f[k], v, K)
<1> DEFINE V == {m \in LoadType : Grown(l, m, v, K)}
<1>1. f[0] \in V
  BY GrownSelf
<1>2. ASSUME NEW k \in 1 .. n, f[k - 1] \in V PROVE f[k] \in V
  <2>1. Grown(l, f[k - 1], v, K) /\ Grown(f[k - 1], f[k], v, K)
    BY <1>2
  <2> HIDE DEF V
  <2>2. Grown(l, f[k], v, K)
    BY <2>1, GrownOn, ZenonT(60)
  <2> QED BY <2>2 DEF V, Grown
<1> HIDE DEF V
<1>3. \A k \in 0 .. n : f[k] \in V
  BY <1>1, <1>2, HandedOn
<1> QED BY <1>3 DEF V

\* Sets of which none loses an element: the last has what any of them gains.
LEMMA KeptThrough ==
  ASSUME NEW n \in Nat, NEW S, NEW d, \A k \in 1 .. n : S[k - 1] \subseteq S[k] /\ d[k] \in S[k]
  PROVE  \A j \in 1 .. n : d[j] \in S[n]
<1> SUFFICES ASSUME NEW j \in 1 .. n PROVE d[j] \in S[n]
  OBVIOUS
<1> DEFINE T == {k \in Nat : k \in j .. n => d[j] \in S[k]}
<1>1. ASSUME NEW k \in Nat, \A i \in 0 .. k - 1 : i \in T
      PROVE  k \in T
  <2>1. CASE k = j
    BY <2>1
  <2>2. CASE k \in j .. n /\ k # j
    <3>1. k - 1 \in 0 .. k - 1 /\ k - 1 \in j .. n /\ k \in 1 .. n
      BY <2>2
    <3>2. d[j] \in S[k - 1]
      BY <3>1, <1>1
    <3> QED BY <3>1, <3>2
  <2>3. CASE k \notin j .. n
    BY <2>3
  <2> QED BY <2>1, <2>2, <2>3
<1> HIDE DEF T
<1>2. \A k \in Nat : k \in T
  BY <1>1, Induction
<1>3. n \in T
  BY <1>2
<1> QED BY <1>3 DEF T

\* A file noted is here, with each of its imports asked for.
LEMMA NoteGrows ==
  ASSUME NEW l \in LoadType, NEW f \in Files, NEW ver \in Versions,
         NEW K, ToSet(Deps[ver][f]) \subseteq K
  PROVE  Grown(l, Note(l, f, ver), ver, K) /\ f \in DOMAIN Note(l, f, ver).files
<1> DEFINE d == Deps[ver][f]
           n == Len(d)
           dep(k) == IF k \in 1 .. n THEN d[k] ELSE f
           step == [k \in Nat |-> [m \in LoadType |-> Ask(m, dep(k))]]
           Is(a) == a = [k \in 0 .. n |-> IF k = 0 THEN l ELSE Ask(a[k - 1], d[k])]
           a == CHOOSE a : Is(a)
<1>0. d \in Seq(Files)
  BY GraphAssumption
<1>1. d \in Seq(Files) /\ n \in Nat /\ \A k \in 1 .. n : d[k] \in Files /\ d[k] \in K
  BY <1>0, SetOfSeq
<1> HIDE DEF d, n
<1>2. \A k \in Nat : dep(k) \in Files
  BY <1>1
<1> HIDE DEF dep
<1>3. step \in [Nat -> [LoadType -> LoadType]]
  <2>1. \A k \in Nat : \A m \in LoadType : Ask(m, dep(k)) \in LoadType
    BY <1>2, AskType
  <2> QED BY <2>1
<1>4. PICK w \in [0 .. n -> LoadType] : w[0] = l /\ \A k \in 1 .. n : w[k] = step[k][w[k - 1]]
  <2> HIDE DEF step
  <2>1. Defined(LoadType, l, step, n)
    BY <1>1, <1>3, Recursion
  <2> QED BY <2>1 DEF Defined
<1>5. Is(w)
  <2>1. ASSUME NEW k \in 1 .. n PROVE step[k][w[k - 1]] = Ask(w[k - 1], d[k])
    <3>1. k \in Nat /\ w[k - 1] \in LoadType /\ dep(k) = d[k]
      BY <1>1 DEF dep
    <3> QED BY <3>1
  <2> HIDE DEF step
  <2>2. \A k \in 0 .. n : w[k] = IF k = 0 THEN l ELSE Ask(w[k - 1], d[k])
    <3>1. ASSUME NEW k \in 0 .. n PROVE w[k] = IF k = 0 THEN l ELSE Ask(w[k - 1], d[k])
      <4>1. k = 0 \/ k \in 1 .. n
        BY <1>1
      <4> QED BY <1>4, <4>1, <2>1
    <3> QED BY <3>1
  <2> QED BY <2>2
<1>6. Is(a)
  <2> HIDE DEF Is
  <2> QED BY <1>5
<1>7. Note(l, f, ver) = [a[n] EXCEPT !.files = extend(a[n].files, [g \in {f} |-> ver])]
  BY DEF Note, d, n
<1> HIDE DEF a
<1>8. a[0] = l /\ \A k \in 1 .. n : a[k] = Ask(a[k - 1], d[k])
  BY <1>1, <1>6
<1>9. \A k \in 1 .. n : a[k - 1] \in LoadType => Grown(a[k - 1], a[k], ver, K) /\ Known(a[k], d[k])
  BY <1>1, <1>8, AskGrows
<1> DEFINE m == a[n]
           one == [g \in {f} |-> ver]
           r == Note(l, f, ver)
<1>10. Grown(l, m, ver, K) /\ m \in LoadType
  <2>1. \A k \in 0 .. n : Grown(l, a[k], ver, K)
    BY <1>1, <1>8, <1>9, GrownThrough
  <2> QED BY <2>1, <1>1 DEF Grown
<1>11. ToSet(d) \subseteq DOMAIN m.files \cup m.asked
  <2> DEFINE S == [k \in 0 .. n |-> DOMAIN a[k].files \cup a[k].asked]
  <2>0. \A k \in 0 .. n : Grown(l, a[k], ver, K)
    BY <1>1, <1>8, <1>9, GrownThrough
  <2>1. \A k \in 0 .. n : a[k] \in LoadType
    BY <2>0 DEF Grown
  <2>2. ASSUME NEW k \in 1 .. n PROVE S[k - 1] \subseteq S[k] /\ d[k] \in S[k]
    <3>1. k - 1 \in 0 .. n /\ k \in 0 .. n
      BY <1>1
    <3>2. Grown(a[k - 1], a[k], ver, K) /\ Known(a[k], d[k])
      BY <2>1, <3>1, <1>9
    <3> QED BY <3>1, <3>2 DEF Grown, Known
  <2> HIDE DEF S
  <2>3. \A j \in 1 .. n : d[j] \in S[n]
    BY <1>1, <2>2, KeptThrough
  <2>4. S[n] = DOMAIN m.files \cup m.asked
    BY <1>1 DEF S
  <2>5. \A x \in ToSet(d) : \E j \in 1 .. n : x = d[j]
    BY <1>1 DEF ToSet, n
  <2> QED BY <2>3, <2>4, <2>5
<1> HIDE DEF Is, a
<1>12. one \in FileMap /\ DOMAIN one = {f} /\ one[f] = ver
  <2>1. one \in [DOMAIN one -> Versions] /\ DOMAIN one = {f} /\ one[f] = ver
    OBVIOUS
  <2> HIDE DEF one
  <2> QED BY <2>1, FileMapIs
<1>13. r = [m EXCEPT !.files = extend(m.files, one)]
  BY <1>7
<1> HIDE DEF m, one, r
<1>14. /\ extend(m.files, one) \in FileMap /\ DOMAIN extend(m.files, one) = DOMAIN m.files \cup {f}
       /\ \A g \in DOMAIN m.files \cup {f} : extend(m.files, one)[g] = IF g = f THEN ver ELSE m.files[g]
  <2>1. m.files \in FileMap
    BY <1>10 DEF LoadType
  <2> QED BY <2>1, <1>12, ExtendIs
<1>15. /\ r \in LoadType /\ r.files = extend(m.files, one)
       /\ r.at = m.at /\ r.left = m.left /\ r.all = m.all /\ r.open = m.open
       /\ r.reqq = m.reqq /\ r.respq = m.respq /\ r.faulted = m.faulted /\ r.since = m.since
       /\ r.asked = m.asked /\ r.sending = m.sending /\ r.pending = m.pending
  BY <1>10, <1>13, <1>14 DEF LoadType
<1>16. Chased(m.files, m.asked) => Chased(r.files, r.asked)
  <2>1. ASSUME Chased(m.files, m.asked), NEW g \in DOMAIN r.files
        PROVE  ToSet(deps(r.files, g)) \subseteq DOMAIN r.files \cup r.asked
    <3>1. DOMAIN m.files \cup m.asked \subseteq DOMAIN r.files \cup r.asked
      BY <1>14, <1>15
    <3>2. CASE g = f
      <4>1. deps(r.files, g) = d
        BY <3>2, <1>14, <1>15 DEF deps, d
      <4> QED BY <4>1, <3>1, <1>11
    <3>3. CASE g # f
      <4>1. g \in DOMAIN m.files /\ deps(r.files, g) = deps(m.files, g)
        BY <2>1, <3>3, <1>14, <1>15 DEF deps
      <4> QED BY <4>1, <2>1, <3>1 DEF Chased
    <3> QED BY <3>2, <3>3
  <2> QED BY <2>1 DEF Chased
<1>17. Grown(m, r, ver, K)
  <2>1. r.pending + Len(m.sending) = m.pending + Len(r.sending)
    BY <1>15
  <2>2. DOMAIN m.files \subseteq DOMAIN r.files
    BY <1>14, <1>15
  <2>3. \A g \in DOMAIN r.files : r.files[g] = ver \/ (g \in DOMAIN m.files /\ r.files[g] = m.files[g])
    BY <1>14, <1>15
  <2> QED BY <2>1, <2>2, <2>3, <1>15, <1>16 DEF Grown
<1>18. Grown(l, r, ver, K)
  BY <1>10, <1>17, GrownOn
<1> QED BY <1>14, <1>15, <1>18 DEF r

LEMMA NoteType ==
  ASSUME NEW l \in LoadType, NEW f \in Files, NEW ver \in Versions
  PROVE  Note(l, f, ver) \in LoadType
<1>1. ToSet(Deps[ver][f]) \subseteq Files
  BY GraphAssumption, SetOfSeq
<1>2. Grown(l, Note(l, f, ver), ver, Files)
  BY <1>1, NoteGrows
<1> QED BY <1>2 DEF Grown

\* The files of an answer noted are all here.
LEMMA NoteAllGrows ==
  ASSUME NEW l \in LoadType, NEW files \in Seq(Files), NEW ver \in Versions,
         NEW K, \A f \in ToSet(files) : ToSet(Deps[ver][f]) \subseteq K
  PROVE  Grown(l, NoteAll(l, files, ver), ver, K) /\ ToSet(files) \subseteq DOMAIN NoteAll(l, files, ver).files
<1> DEFINE n == Len(files)
           step == [k \in Nat |-> [m \in LoadType |-> IF k \in 1 .. n THEN Note(m, files[k], ver) ELSE m]]
           Is(a) == a = [k \in 0 .. n |-> IF k = 0 THEN l ELSE Note(a[k - 1], files[k], ver)]
           a == CHOOSE a : Is(a)
<1>1. n \in Nat /\ \A k \in 1 .. n : files[k] \in Files /\ ToSet(Deps[ver][files[k]]) \subseteq K
  BY SetOfSeq
<1> HIDE DEF n
<1>3. step \in [Nat -> [LoadType -> LoadType]]
  <2>1. \A k \in Nat : \A m \in LoadType : (IF k \in 1 .. n THEN Note(m, files[k], ver) ELSE m) \in LoadType
    BY <1>1, NoteType
  <2> QED BY <2>1
<1>4. PICK w \in [0 .. n -> LoadType] : w[0] = l /\ \A k \in 1 .. n : w[k] = step[k][w[k - 1]]
  <2> HIDE DEF step
  <2>1. Defined(LoadType, l, step, n)
    BY <1>1, <1>3, Recursion
  <2> QED BY <2>1 DEF Defined
<1>5. Is(w)
  <2>1. ASSUME NEW k \in 1 .. n PROVE step[k][w[k - 1]] = Note(w[k - 1], files[k], ver)
    <3>1. k \in Nat /\ w[k - 1] \in LoadType
      BY <1>1
    <3> QED BY <3>1
  <2> HIDE DEF step
  <2>2. \A k \in 0 .. n : w[k] = IF k = 0 THEN l ELSE Note(w[k - 1], files[k], ver)
    <3>1. ASSUME NEW k \in 0 .. n PROVE w[k] = IF k = 0 THEN l ELSE Note(w[k - 1], files[k], ver)
      <4>1. k = 0 \/ k \in 1 .. n
        BY <1>1
      <4> QED BY <1>4, <4>1, <2>1
    <3> QED BY <3>1
  <2> QED BY <2>2
<1>6. Is(a)
  <2> HIDE DEF Is
  <2> QED BY <1>5
<1>7. NoteAll(l, files, ver) = a[n]
  BY DEF NoteAll, n
<1> HIDE DEF a
<1>8. a[0] = l /\ \A k \in 1 .. n : a[k] = Note(a[k - 1], files[k], ver)
  BY <1>1, <1>6
<1>9. \A k \in 1 .. n : a[k - 1] \in LoadType => Grown(a[k - 1], a[k], ver, K) /\ files[k] \in DOMAIN a[k].files
  BY <1>1, <1>8, NoteGrows
<1>10. \A k \in 0 .. n : Grown(l, a[k], ver, K)
  BY <1>1, <1>8, <1>9, GrownThrough
<1> DEFINE S == [k \in 0 .. n |-> DOMAIN a[k].files]
<1>11. \A j \in 1 .. n : files[j] \in S[n]
  <2>1. ASSUME NEW k \in 1 .. n PROVE S[k - 1] \subseteq S[k] /\ files[k] \in S[k]
    <3>1. k - 1 \in 0 .. n /\ k \in 0 .. n
      BY <1>1
    <3>2. Grown(a[k - 1], a[k], ver, K) /\ files[k] \in DOMAIN a[k].files
      BY <3>1, <1>9, <1>10 DEF Grown
    <3> QED BY <3>1, <3>2 DEF Grown
  <2> HIDE DEF S
  <2> QED BY <1>1, <2>1, KeptThrough
<1>12. \A x \in ToSet(files) : \E j \in 1 .. n : x = files[j]
  BY <1>1 DEF ToSet, n
<1>13. S[n] = DOMAIN a[n].files /\ Grown(l, a[n], ver, K)
  BY <1>1, <1>10
<1> QED BY <1>7, <1>11, <1>12, <1>13

-----------------------------------------------------------------------------
(* The invariant of a load, when the upstream serves version v             *)

\* What a driver has asked for, in its requests, and what is in its answers.
Named(l) == ToSet(l.sending) \cup ToSet(l.reqq)
Answering(l) == UNION {ToSet(x.files) : x \in ToSet(l.respq)}
Awaited(l) == Named(l) \cup Answering(l)

\* The upstream has neither failed the load nor changed since it began.
Calm(l, v) == ~l.faulted /\ l.since = v

AllOf(files, v) == \A f \in DOMAIN files : files[f] = v
GoodAnswer(x, v) ==
  /\ x.kind = "files" /\ x.ver = v
  /\ \A f \in ToSet(x.files) : ToSet(Deps[v][f]) \subseteq DOMAIN Answers[v]

\* A driver (reflection_driver) counts what it awaits. Of an upstream that is calm, it
\* asks for what there is, gets files of the one version, and has asked for every
\* import of what is here; the service's file and all it asked for are here or
\* awaited. Nothing of a driver outlives it.
Counts(l) == l.pending = Len(l.sending) + Len(l.reqq) + Len(l.respq)
Fetches(l, v) ==
  /\ \A x \in ToSet(l.respq) : GoodAnswer(x, v)
  /\ Named(l) \subseteq DOMAIN Answers[v]
  /\ AllOf(l.files, v)
  /\ l.asked \subseteq DOMAIN l.files \cup Awaited(l)
  /\ Chased(l.files, l.asked)
  /\ l.left[1] \in Named(l) \/ Defines[v][l.left[1]] \in DOMAIN l.files \cup Answering(l)
DriverInv(l, v) ==
  IF l.at = "fetch"
  THEN l.left # <<>> /\ Counts(l) /\ (Calm(l, v) => Fetches(l, v))
  ELSE l.files = <<>> /\ l.asked = {} /\ l.sending = <<>> /\ l.reqq = <<>> /\ l.respq = <<>>

\* Of an upstream that is calm, the services a load has left are the last of the list,
\* and it has the files of the others, each import of what it has, all of one version.
Gathers(l, n, v) ==
  /\ Len(l.left) = Len(Services[v]) - n
  /\ \A k \in 1 .. Len(l.left) : l.left[k] = Services[v][n + k]
  /\ \A k \in 1 .. n : Defines[v][Services[v][k]] \in DOMAIN l.all
Gathered(l, v) ==
  /\ \E n \in 0 .. Len(Services[v]) : Gathers(l, n, v)
  /\ Chased(l.all, {}) /\ AllOf(l.all, v)
GatherInv(l, v) ==
  /\ l.at \in {"off", "list", "list_alpha"} => l.all = <<>>
  /\ l.at \in {"next", "fetch"} /\ Calm(l, v) => Gathered(l, v)

LoadInv(l, v) == Fits(l) /\ l.since \in 0 .. v /\ DriverInv(l, v) /\ GatherInv(l, v)

LEMMA GraphIs ==
  ASSUME NEW v \in Versions
  PROVE  /\ v \in Nat
         /\ Services[v] \in Seq(Symbols) /\ Len(Services[v]) \in Nat
         /\ \A s \in Symbols : Defines[v][s] \in Files
         /\ \A f \in Files : ToSet(Deps[v][f]) \subseteq Files
         /\ ToSet(Services[v]) \subseteq DOMAIN Answers[v]
         /\ \A n \in DOMAIN Answers[v] : \A a \in Answers[v][n] :
              /\ a \in Seq(Files) /\ FileOf(v, n) \in ToSet(a)
              /\ \A f \in ToSet(a) : ToSet(Deps[v][f]) \subseteq DOMAIN Answers[v]
<1>1. v \in Nat
  BY ReflectBounds DEF Versions
<1>2. /\ Services[v] \in Seq(Symbols) /\ Defines[v] \in [Symbols -> Files]
      /\ Deps[v] \in [Files -> Seq(Files)]
  BY GraphAssumption
<1>3. \A f \in Files : ToSet(Deps[v][f]) \subseteq Files
  BY <1>2, SetOfSeq
<1>4. \A n \in DOMAIN Answers[v] : \A a \in Answers[v][n] : a \in Seq(Files) /\ FileOf(v, n) \in ToSet(a)
  BY GraphAssumption
<1>5. /\ ToSet(Services[v]) \subseteq DOMAIN Answers[v]
      /\ \A n \in DOMAIN Answers[v] : \A a \in Answers[v][n] : \A f \in ToSet(a) :
           ToSet(Deps[v][f]) \subseteq DOMAIN Answers[v]
  BY AnswersAssumption
<1> QED BY <1>1, <1>2, <1>3, <1>4, <1>5

LEMMA BoundsAre == ReqCap \in Nat \ {0} /\ Window \in Nat \ {0} /\ MaxVersion \in Nat /\ MaxFaults \in Nat
BY ReflectBounds

LEMMA NothingChased == ASSUME NEW S, NEW v PROVE Chased(<<>>, S) /\ AllOf(<<>>, v)
BY EmptyMap DEF Chased, AllOf

\* The load that is not there, and the one that begins.
LEMMA NoLoadInv ==
  ASSUME NEW v \in Versions
  PROVE  LoadInv(NoLoad, v) /\ LoadInv([NoLoad EXCEPT !.at = "list", !.since = v], v)
<1> DEFINE m == [NoLoad EXCEPT !.at = "list", !.since = v]
<1>0. 0 \in Versions /\ 0 \in 0 .. v /\ v \in 0 .. v
  BY GraphIs, BoundsAre DEF Versions
<1>2. NoLoad \in LoadType
  <2> DEFINE none == <<>>
  <2>2. /\ none \in Seq(Symbols) /\ none \in Seq(Names) /\ none \in Seq(Answer) /\ none \in FileMap
    BY EmptyMap
  <2> HIDE DEF none
  <2>3. [at |-> "off", left |-> none, all |-> none, open |-> FALSE,
         files |-> none, asked |-> {}, pending |-> 0, sending |-> none, reqq |-> none, respq |-> none,
         faulted |-> FALSE, since |-> 0] \in LoadType
    BY <1>0, <2>2 DEF LoadType
  <2> QED BY <2>3 DEF NoLoad, none
<1>4. m \in LoadType /\ m.since = v
  <2> HIDE DEF NoLoad
  <2> QED BY <1>2 DEF LoadType
<1>3. Fits(NoLoad) /\ Fits(m)
  BY <1>2, <1>4, BoundsAre DEF Fits, NoLoad
<1> QED BY <1>0, <1>3 DEF LoadInv, DriverInv, GatherInv, NoLoad

\* The upstream changes: no load that runs is calm any more.
LEMMA AgedInv ==
  ASSUME NEW v \in Versions, NEW l, LoadInv(l, v)
  PROVE  LoadInv(l, v + 1)
<1>1. v \in Nat /\ l.since \in 0 .. v
  BY GraphIs DEF LoadInv
<1>2. l.since \in 0 .. v + 1 /\ l.since # v + 1
  BY <1>1
<1>3. ~Calm(l, v + 1)
  BY <1>2 DEF Calm
<1> QED BY <1>2, <1>3 DEF LoadInv, DriverInv, GatherInv

\* What does not depend on whether the stream is open, on a step of the listing, or on
\* how a load without a driver ends; and the upstream's failing it makes it less calm.
LEMMA AlikeInv ==
  ASSUME NEW v, NEW l, LoadInv(l, v), NEW m \in LoadType,
         m.left = l.left, m.all = l.all, m.files = l.files, m.asked = l.asked,
         m.pending = l.pending, m.sending = l.sending, m.reqq = l.reqq, m.respq = l.respq,
         m.since = l.since, l.faulted => m.faulted,
         \/ m.at = l.at
         \/ m.at = "list_alpha" /\ l.at = "list"
         \/ m.at = "failed" /\ l.at # "fetch"
  PROVE  LoadInv(m, v)
<1>1. Fits(m) /\ m.since \in 0 .. v
  BY DEF LoadInv, Fits
<1>2. Calm(m, v) => Calm(l, v)
  BY DEF Calm
<1>3. DriverInv(m, v)
  <2>1. Counts(m) <=> Counts(l)
    BY Zenon DEF Counts
  <2>2. Awaited(m) = Awaited(l) /\ Named(m) = Named(l) /\ Answering(m) = Answering(l)
    BY Zenon DEF Awaited, Named, Answering
  <2>3. Fetches(m, v) <=> Fetches(l, v)
    BY <2>2, Zenon DEF Fetches
  <2> QED BY <1>2, <2>1, <2>3 DEF LoadInv, DriverInv
<1>4. GatherInv(m, v)
  <2>1. Gathered(m, v) <=> Gathered(l, v)
    BY Zenon DEF Gathered, Gathers
  <2> QED BY <1>2, <2>1 DEF LoadInv, GatherInv
<1> QED BY <1>1, <1>3, <1>4 DEF LoadInv

LEMMA OpenedInv ==
  ASSUME NEW v, NEW l, LoadInv(l, v)
  PROVE  LoadInv([l EXCEPT !.open = TRUE], v)
<1> DEFINE m == [l EXCEPT !.open = TRUE]
<1>1. l \in LoadType
  BY DEF LoadInv, Fits
<1>2. /\ m \in LoadType /\ m.at = l.at /\ m.left = l.left /\ m.all = l.all /\ m.files = l.files
      /\ m.asked = l.asked /\ m.pending = l.pending /\ m.sending = l.sending
      /\ m.reqq = l.reqq /\ m.respq = l.respq /\ m.faulted = l.faulted /\ m.since = l.since
  BY <1>1 DEF LoadType
<1> HIDE DEF m
<1>3. LoadInv(m, v)
  BY <1>2, AlikeInv
<1> QED BY <1>3 DEF m

LEMMA FaultedInv ==
  ASSUME NEW v, NEW l, LoadInv(l, v)
  PROVE  LoadInv([l EXCEPT !.faulted = TRUE], v)
<1> DEFINE m == [l EXCEPT !.faulted = TRUE]
<1>1. l \in LoadType
  BY DEF LoadInv, Fits
<1>2. /\ m \in LoadType /\ m.at = l.at /\ m.left = l.left /\ m.all = l.all /\ m.files = l.files
      /\ m.asked = l.asked /\ m.pending = l.pending /\ m.sending = l.sending
      /\ m.reqq = l.reqq /\ m.respq = l.respq /\ m.faulted /\ m.since = l.since
  BY <1>1 DEF LoadType
<1> HIDE DEF m
<1>3. LoadInv(m, v)
  BY <1>2, AlikeInv
<1> QED BY <1>3 DEF m

LEMMA FallsBackInv ==
  ASSUME NEW v, NEW l, LoadInv(l, v), l.at = "list"
  PROVE  LoadInv([l EXCEPT !.at = "list_alpha", !.open = FALSE], v)
<1> DEFINE m == [l EXCEPT !.at = "list_alpha", !.open = FALSE]
<1>1. l \in LoadType
  BY DEF LoadInv, Fits
<1>2. /\ m \in LoadType /\ m.at = "list_alpha" /\ m.left = l.left /\ m.all = l.all /\ m.files = l.files
      /\ m.asked = l.asked /\ m.pending = l.pending /\ m.sending = l.sending
      /\ m.reqq = l.reqq /\ m.respq = l.respq /\ m.faulted = l.faulted /\ m.since = l.since
  BY <1>1 DEF LoadType
<1> HIDE DEF m
<1>3. LoadInv(m, v)
  BY <1>2, AlikeInv
<1> QED BY <1>3 DEF m

\* A load that fails has no driver, and keeps what it has.
LEMMA FailedInv ==
  ASSUME NEW v, NEW l, LoadInv(l, v), l.at \in {"list", "list_alpha", "next"}
  PROVE  LoadInv([l EXCEPT !.at = "failed"], v)
<1> DEFINE m == [l EXCEPT !.at = "failed"]
<1>1. l \in LoadType
  BY DEF LoadInv, Fits
<1>2. /\ m \in LoadType /\ m.at = "failed" /\ m.left = l.left /\ m.all = l.all /\ m.files = l.files
      /\ m.asked = l.asked /\ m.pending = l.pending /\ m.sending = l.sending
      /\ m.reqq = l.reqq /\ m.respq = l.respq /\ m.faulted = l.faulted /\ m.since = l.since
  BY <1>1 DEF LoadType
<1> HIDE DEF m
<1>3. LoadInv(m, v)
  BY <1>2, AlikeInv
<1> QED BY <1>3 DEF m

\* The listing is there: every service is left to be fetched.
LEMMA ListedInv ==
  ASSUME NEW v \in Versions, NEW l, LoadInv(l, v), l.at \in {"list", "list_alpha"}
  PROVE  LoadInv([l EXCEPT !.at = "next", !.left = Services[v], !.open = FALSE], v)
<1> DEFINE s == Services[v]
           m == [l EXCEPT !.at = "next", !.left = s, !.open = FALSE]
<1>1. l \in LoadType /\ l.all = <<>>
  BY DEF LoadInv, Fits, GatherInv
<1>0. s \in Seq(Symbols) /\ Len(s) \in Nat
  BY GraphIs
<1> HIDE DEF s
<1>2. /\ m \in LoadType /\ m.at = "next" /\ m.left = s /\ m.all = l.all /\ m.files = l.files
      /\ m.asked = l.asked /\ m.pending = l.pending /\ m.sending = l.sending
      /\ m.reqq = l.reqq /\ m.respq = l.respq /\ m.faulted = l.faulted /\ m.since = l.since
  BY <1>1, <1>0 DEF LoadType
<1> HIDE DEF m
<1>3. Fits(m) /\ DriverInv(m, v) /\ m.since \in 0 .. v
  BY <1>2 DEF LoadInv, Fits, DriverInv
<1>4. Gathers(m, 0, v) /\ 0 \in 0 .. Len(s)
  BY <1>0, <1>2 DEF Gathers, s
<1>5. Gathered(m, v)
  BY <1>1, <1>2, <1>4, NothingChased DEF Gathered, s
<1>6. GatherInv(m, v)
  BY <1>2, <1>5 DEF GatherInv
<1> QED BY <1>3, <1>6 DEF LoadInv, m, s

\* A driver starts with its service to be asked for.
LEMMA StartsInv ==
  ASSUME NEW v \in Versions, NEW l, LoadInv(l, v), l.at = "next", l.left # <<>>
  PROVE  LoadInv([l EXCEPT !.at = "fetch", !.pending = 1, !.sending = <<Head(l.left)>>], v)
<1> DEFINE first == Head(l.left)
           m == [l EXCEPT !.at = "fetch", !.pending = 1, !.sending = <<first>>]
<1>1. l \in LoadType
  BY DEF LoadInv, Fits
<1>2. l.left \in Seq(Symbols) /\ first = l.left[1] /\ first \in Symbols /\ first \in Names
      /\ 1 \in 1 .. Len(l.left)
  BY <1>1, SeqParts DEF LoadType, Names
<1> HIDE DEF first
<1>3. <<first>> \in Seq(Names) /\ Len(<<first>>) = 1 /\ ToSet(<<first>>) = {first}
  BY <1>2 DEF ToSet
<1>4. /\ m \in LoadType /\ m.at = "fetch" /\ m.left = l.left /\ m.all = l.all /\ m.files = l.files
      /\ m.asked = l.asked /\ m.pending = 1 /\ m.sending = <<first>>
      /\ m.reqq = l.reqq /\ m.respq = l.respq /\ m.faulted = l.faulted /\ m.since = l.since
  BY <1>1, <1>3 DEF LoadType
<1> HIDE DEF m
<1>5. l.files = <<>> /\ l.asked = {} /\ l.reqq = <<>> /\ l.respq = <<>>
  BY DEF LoadInv, DriverInv
<1>6. Fits(m) /\ m.since \in 0 .. v
  BY <1>4 DEF LoadInv, Fits
<1>9. Calm(m, v) => Calm(l, v)
  BY <1>4 DEF Calm
<1>7. DriverInv(m, v)
  <2>1. Counts(m)
    BY <1>3, <1>4, <1>5 DEF Counts
  <2>2. ToSet(m.respq) = {} /\ Named(m) = {first} /\ Answering(m) = {}
    BY <1>3, <1>4, <1>5, SetOfEmpty DEF Named, Answering
  <2>3. ASSUME Calm(m, v) PROVE first \in DOMAIN Answers[v]
    <3>1. PICK n \in 0 .. Len(Services[v]) : Gathers(l, n, v)
      BY <1>9, <2>3 DEF LoadInv, GatherInv, Gathered
    <3>2. first = Services[v][n + 1] /\ n + 1 \in 1 .. Len(Services[v])
      <4>1. Len(l.left) = Len(Services[v]) - n /\ l.left[1] = Services[v][n + 1]
        BY <1>2, <3>1 DEF Gathers
      <4>2. Len(Services[v]) \in Nat /\ Len(l.left) \in Nat /\ Len(l.left) >= 1
        BY <1>2, GraphIs
      <4> QED BY <1>2, <4>1, <4>2
    <3>3. Services[v] \in Seq(Symbols) /\ ToSet(Services[v]) \subseteq DOMAIN Answers[v]
      BY GraphIs
    <3> QED BY <3>2, <3>3, SetOfSeq
  <2>4. Calm(m, v) => Fetches(m, v)
    BY <1>2, <1>4, <1>5, <2>2, <2>3, NothingChased DEF Fetches
  <2> QED BY <1>4, <2>1, <2>4 DEF DriverInv
<1>8. GatherInv(m, v)
  <2>1. Gathered(m, v) <=> Gathered(l, v)
    BY <1>4, Zenon DEF Gathered, Gathers
  <2> QED BY <1>4, <1>9, <2>1 DEF LoadInv, GatherInv
<1> QED BY <1>6, <1>7, <1>8 DEF LoadInv, m, first

\* A load gone from l to m by leaving a service: its driver is gone.
Gone(l, kept, m) ==
  /\ m \in LoadType /\ m.since = l.since
  /\ m.at = "next" /\ m.left = Tail(l.left) /\ m.all = extend(l.all, kept)
  /\ m.files = <<>> /\ m.asked = {} /\ m.sending = <<>> /\ m.reqq = <<>> /\ m.respq = <<>>

LEMMA LeaveIs ==
  ASSUME NEW v, NEW l, LoadInv(l, v), l.at = "fetch", NEW kept \in FileMap
  PROVE  Gone(l, kept, Leave(l, kept)) /\ Leave(l, kept).faulted = l.faulted
<1> DEFINE m == Leave(l, kept)
           x == extend(l.all, kept)
           t == Tail(l.left)
           none == <<>>
<1>1. l \in LoadType /\ l.left \in Seq(Symbols) /\ l.left # <<>> /\ l.all \in FileMap
  BY DEF LoadInv, Fits, DriverInv, LoadType
<1>2. x \in FileMap
  BY <1>1, ExtendIs
<1>3. /\ t \in Seq(Symbols) /\ none \in FileMap /\ none \in Seq(Names) /\ none \in Seq(Answer)
  <2>1. t \in Seq(Symbols)
    BY <1>1, SeqParts
  <2>2. none \in FileMap
    BY EmptyMap
  <2> QED BY <2>1, <2>2
<1>4. m = [l EXCEPT !.at = "next", !.left = t, !.all = x, !.open = FALSE,
                    !.files = none, !.asked = {}, !.pending = 0, !.sending = none, !.reqq = none, !.respq = none]
  BY DEF Leave
<1> HIDE DEF m, x, t, none
<1>5. m \in LoadType
  BY <1>1, <1>2, <1>3, <1>4 DEF LoadType
<1>6. /\ m.at = "next" /\ m.left = t /\ m.all = x /\ m.faulted = l.faulted /\ m.since = l.since
      /\ m.files = none /\ m.asked = {} /\ m.sending = none /\ m.reqq = none /\ m.respq = none
  BY <1>1, <1>4 DEF LoadType
<1> QED BY <1>5, <1>6 DEF Gone, m, x, t, none

\* Leaving a service: what was kept of it joins the files of the load, which is
\* whole with it if the upstream is calm.
Whole(l, kept, v) == Chased(kept, {}) /\ AllOf(kept, v) /\ Defines[v][l.left[1]] \in DOMAIN kept

LEMMA GoneInv ==
  ASSUME NEW v \in Versions, NEW l, LoadInv(l, v), l.at = "fetch", NEW kept \in FileMap,
         NEW m, Gone(l, kept, m), l.faulted => m.faulted, Calm(m, v) => Whole(l, kept, v)
  PROVE  LoadInv(m, v)
<1> DEFINE x == extend(l.all, kept)
           s == Services[v]
<1>1. l \in LoadType /\ l.left \in Seq(Symbols) /\ l.left # <<>> /\ l.all \in FileMap
  BY DEF LoadInv, Fits, DriverInv, LoadType
<1>2. /\ x \in FileMap /\ DOMAIN x = DOMAIN l.all \cup DOMAIN kept
      /\ \A f \in DOMAIN x : x[f] = IF f \in DOMAIN kept THEN kept[f] ELSE l.all[f]
  <2> DEFINE n == l.all
  <2>1. n \in FileMap
    BY <1>1
  <2> HIDE DEF n
  <2>2. /\ extend(n, kept) \in FileMap /\ DOMAIN extend(n, kept) = DOMAIN n \cup DOMAIN kept
        /\ \A f \in DOMAIN extend(n, kept) :
             extend(n, kept)[f] = IF f \in DOMAIN kept THEN kept[f] ELSE n[f]
    BY ONLY <2>1, kept \in FileMap, ExtendIs
  <2> QED BY <2>2 DEF n
<1>3. /\ Len(l.left) \in Nat /\ Len(l.left) > 0
      /\ Tail(l.left) \in Seq(Symbols) /\ Len(Tail(l.left)) = Len(l.left) - 1
      /\ \A k \in 1 .. Len(Tail(l.left)) : Tail(l.left)[k] = l.left[k + 1]
  BY <1>1, SeqParts
<1>4. Len(s) \in Nat
  BY GraphIs
<1>5. m \in LoadType
  BY DEF Gone
<1>6. /\ m.at = "next" /\ m.left = Tail(l.left) /\ m.all = x /\ m.since = l.since
      /\ m.files = <<>> /\ m.asked = {} /\ m.sending = <<>> /\ m.reqq = <<>> /\ m.respq = <<>>
  BY DEF Gone
<1>0. Calm(m, v) => Calm(l, v)
  BY <1>6 DEF Calm
<1>7. Fits(m) /\ m.since \in 0 .. v
  BY <1>5, <1>6, BoundsAre DEF Fits, LoadInv
<1>8. DriverInv(m, v)
  BY <1>6 DEF DriverInv
<1>9. ASSUME Calm(m, v) PROVE Gathered(m, v)
  <2>0. Gathered(l, v) /\ Whole(l, kept, v)
    BY <1>0, <1>9 DEF LoadInv, GatherInv
  <2>1. PICK n \in 0 .. Len(s) : Gathers(l, n, v)
    BY <2>0 DEF Gathered
  <2>2. /\ Len(l.left) = Len(s) - n
        /\ \A k \in 1 .. Len(l.left) : l.left[k] = s[n + k]
        /\ \A k \in 1 .. n : Defines[v][s[k]] \in DOMAIN l.all
    BY <2>1 DEF Gathers
  <2> HIDE DEF x, s
  <2>3. n + 1 \in 0 .. Len(s) /\ Len(m.left) = Len(s) - (n + 1)
    BY <2>2, <1>3, <1>4, <1>6
  <2>4. ASSUME NEW k \in 1 .. Len(m.left) PROVE m.left[k] = s[(n + 1) + k]
    <3>1. k \in 1 .. Len(Tail(l.left)) /\ k + 1 \in 1 .. Len(l.left) /\ n + (k + 1) = (n + 1) + k
      BY <1>3, <1>6
    <3>2. m.left[k] = l.left[k + 1]
      BY <3>1, <1>3, <1>6
    <3>3. l.left[k + 1] = s[n + (k + 1)]
      BY <3>1, <2>2
    <3> QED BY <3>1, <3>2, <3>3, Zenon
  <2>5. ASSUME NEW k \in 1 .. n + 1 PROVE Defines[v][s[k]] \in DOMAIN m.all
    <3>1. CASE k \in 1 .. n
      BY <3>1, <2>2, <1>2, <1>6
    <3>2. CASE k = n + 1
      <4>1. l.left[1] = s[n + 1]
        BY <2>2, <1>3
      <4> QED BY <4>1, <3>2, <2>0, <1>2, <1>6 DEF Whole
    <3> QED BY <2>5, <3>1, <3>2
  <2>6. Gathers(m, n + 1, v)
    BY <2>3, <2>4, <2>5 DEF Gathers, s
  <2>7. Chased(m.all, {})
    <3>1. Chased(l.all, {}) /\ Chased(kept, {})
      BY <2>0 DEF Gathered, Whole
    <3> QED BY <3>1, <1>1, <1>6, ExtendChased DEF x
  <2>8. AllOf(m.all, v)
    BY <2>0, <1>2, <1>6 DEF Gathered, Whole, AllOf
  <2> QED BY <2>3, <2>6, <2>7, <2>8 DEF Gathered, s
<1>12. GatherInv(m, v)
  BY <1>6, <1>9 DEF GatherInv
<1> QED BY <1>7, <1>8, <1>12 DEF LoadInv

LEMMA LeaveInv ==
  ASSUME NEW v \in Versions, NEW l, LoadInv(l, v), l.at = "fetch", NEW kept \in FileMap,
         Calm(l, v) => Whole(l, kept, v)
  PROVE  LoadInv(Leave(l, kept), v)
<1>1. Gone(l, kept, Leave(l, kept)) /\ Leave(l, kept).faulted = l.faulted
  BY LeaveIs
<1> HIDE DEF Whole
<1>2. l.faulted => Leave(l, kept).faulted
  BY <1>1
<1>3. Calm(Leave(l, kept), v) => Whole(l, kept, v)
  BY <1>1 DEF Gone, Calm
<1> QED BY <1>1, <1>2, <1>3, GoneInv

\* A driver whose answers have all come has the whole of its service.
LEMMA FetchedInv ==
  ASSUME NEW v \in Versions, NEW l, LoadInv(l, v), l.at = "fetch", l.pending = 0
  PROVE  LoadInv(Leave(l, l.files), v)
<1>1. l \in LoadType /\ l.files \in FileMap
  BY DEF LoadInv, Fits, LoadType
<1>2. ASSUME Calm(l, v) PROVE Whole(l, l.files, v)
  <2>1. Counts(l) /\ Fetches(l, v)
    BY <1>2 DEF LoadInv, DriverInv
  <2>2. l.sending = <<>> /\ l.reqq = <<>> /\ l.respq = <<>>
    <3>1. l.sending \in Seq(Names) /\ l.reqq \in Seq(Names) /\ l.respq \in Seq(Answer)
      BY <1>1 DEF LoadType
    <3>2. Len(l.sending) \in Nat /\ Len(l.reqq) \in Nat /\ Len(l.respq) \in Nat
      BY <3>1
    <3>3. Len(l.sending) = 0 /\ Len(l.reqq) = 0 /\ Len(l.respq) = 0
      <4> DEFINE a == Len(l.sending)
                 b == Len(l.reqq)
                 c == Len(l.respq)
      <4>1. a \in Nat /\ b \in Nat /\ c \in Nat /\ a + b + c = 0
        BY <2>1, <3>2 DEF Counts
      <4> HIDE DEF a, b, c
      <4>2. a = 0 /\ b = 0 /\ c = 0
        BY <4>1
      <4> QED BY <4>2 DEF a, b, c
    <3> QED BY <3>1, <3>3
  <2>3. Named(l) = {} /\ Answering(l) = {} /\ Awaited(l) = {}
    BY <2>2, SetOfEmpty DEF Awaited, Named, Answering
  <2>4. Chased(l.files, {})
    BY <2>1, <2>3 DEF Fetches, Chased
  <2> QED BY <2>1, <2>3, <2>4 DEF Fetches, Whole
<1> DEFINE kept == l.files
<1>4. kept \in FileMap /\ (Calm(l, v) => Whole(l, kept, v))
  BY <1>1, <1>2
<1> HIDE DEF kept
<1>5. LoadInv(Leave(l, kept), v)
  BY <1>4, LeaveInv
<1> QED BY <1>5 DEF kept

\* A service refused, skipped, or left as far as it is: the upstream is not calm.
LEMMA RefusedInv ==
  ASSUME NEW v \in Versions, NEW l, LoadInv(l, v), l.at = "fetch"
  PROVE  LoadInv([Leave(l, <<>>) EXCEPT !.faulted = TRUE], v)
<1> DEFINE k == Leave(l, <<>>)
           m == [k EXCEPT !.faulted = TRUE]
           none == <<>>
<1>1. none \in FileMap /\ Gone(l, none, k)
  BY EmptyMap, LeaveIs
<1> HIDE DEF k
<1>2. /\ m \in LoadType /\ m.faulted /\ m.at = k.at /\ m.left = k.left /\ m.all = k.all /\ m.since = k.since
      /\ m.files = k.files /\ m.asked = k.asked /\ m.sending = k.sending /\ m.reqq = k.reqq /\ m.respq = k.respq
  BY <1>1 DEF Gone, LoadType
<1> HIDE DEF m
<1>3. Gone(l, none, m)
  BY <1>1, <1>2 DEF Gone
<1>4. ~Calm(m, v)
  BY <1>2 DEF Calm
<1> HIDE DEF none
<1>5. LoadInv(m, v)
  BY <1>1, <1>2, <1>3, <1>4, GoneInv
<1> QED BY <1>5 DEF m, k

LEMMA SkippedInv ==
  ASSUME NEW v \in Versions, NEW l, LoadInv(l, v), l.at = "fetch", ~Calm(l, v)
  PROVE  LoadInv(Leave(l, <<>>), v)
BY EmptyMap, LeaveInv

LEMMA LeftInv ==
  ASSUME NEW v \in Versions, NEW l, LoadInv(l, v), l.at = "fetch", ~Calm(l, v)
  PROVE  LoadInv(Leave(l, l.files), v)
<1> DEFINE k == l.files
<1>1. k \in FileMap
  BY DEF LoadInv, Fits, LoadType
<1> HIDE DEF k
<1>2. LoadInv(Leave(l, k), v)
  BY <1>1, LeaveInv
<1> QED BY <1>2 DEF k

\* An answer that is of no use comes of an upstream that is not calm.
LEMMA UselessIsNotCalm ==
  ASSUME NEW v, NEW l, LoadInv(l, v), l.at = "fetch", NEW x \in ToSet(l.respq), x.kind # "files"
  PROVE  ~Calm(l, v)
BY DEF LoadInv, DriverInv, Fetches, GoodAnswer

-----------------------------------------------------------------------------
(* Requests and answers                                                    *)

\* A request leaves the driver for its queue.
LEMMA QueuedInv ==
  ASSUME NEW v, NEW l, LoadInv(l, v), l.at = "fetch", l.sending # <<>>, Len(l.reqq) < ReqCap
  PROVE  LoadInv([l EXCEPT !.sending = Tail(l.sending), !.reqq = Append(l.reqq, Head(l.sending))], v)
<1> DEFINE s == Tail(l.sending)
           f == Head(l.sending)
           q == Append(l.reqq, f)
           m == [l EXCEPT !.sending = s, !.reqq = q]
<1>1. l \in LoadType /\ l.sending \in Seq(Names) /\ l.reqq \in Seq(Names) /\ l.respq \in Seq(Answer)
  BY DEF LoadInv, Fits, LoadType
<1>2. /\ s \in Seq(Names) /\ f \in Names /\ Len(s) = Len(l.sending) - 1
      /\ Len(l.sending) \in Nat /\ ToSet(l.sending) = {f} \cup ToSet(s)
  BY <1>1, SeqParts, SetOfParts
<1>3. q \in Seq(Names) /\ Len(q) = Len(l.reqq) + 1 /\ ToSet(q) = ToSet(l.reqq) \cup {f}
  BY <1>1, <1>2, SetOfAppend
<1> HIDE DEF s, f, q
<1>4. /\ m \in LoadType /\ m.at = l.at /\ m.left = l.left /\ m.all = l.all /\ m.files = l.files
      /\ m.asked = l.asked /\ m.pending = l.pending /\ m.sending = s
      /\ m.reqq = q /\ m.respq = l.respq /\ m.faulted = l.faulted /\ m.since = l.since
  BY <1>1, <1>2, <1>3 DEF LoadType
<1> HIDE DEF m
<1>5. Fits(m) /\ m.since \in 0 .. v
  <2>1. Len(l.reqq) \in Nat /\ ReqCap \in Nat
    BY <1>1, BoundsAre
  <2> QED BY <2>1, <1>3, <1>4 DEF LoadInv, Fits
<1>6. Counts(m)
  <2>1. l.pending = Len(l.sending) + Len(l.reqq) + Len(l.respq)
    BY DEF LoadInv, DriverInv, Counts
  <2>2. Len(l.reqq) \in Nat /\ Len(l.respq) \in Nat
    BY <1>1
  <2>3. Len(s) + Len(q) + Len(l.respq) = Len(l.sending) + Len(l.reqq) + Len(l.respq)
    <3> DEFINE a == Len(l.sending)
               b == Len(l.reqq)
               c == Len(l.respq)
    <3>1. a \in Nat /\ b \in Nat /\ c \in Nat /\ Len(s) = a - 1 /\ Len(q) = b + 1
      BY <2>2, <1>2, <1>3
    <3> HIDE DEF a, b, c
    <3>2. Len(s) + Len(q) + c = a + b + c
      BY <3>1
    <3> QED BY <3>2 DEF a, b, c
  <2> QED BY <2>1, <2>3, <1>4 DEF Counts
<1>7. Named(m) = Named(l) /\ Answering(m) = Answering(l) /\ Awaited(m) = Awaited(l)
  BY <1>2, <1>3, <1>4 DEF Awaited, Named, Answering
<1>8. DriverInv(m, v)
  <2>1. Calm(m, v) <=> Calm(l, v)
    BY <1>4, Zenon DEF Calm
  <2>2. Fetches(m, v) <=> Fetches(l, v)
    BY <1>4, <1>7, Zenon DEF Fetches
  <2> QED BY <1>4, <1>6, <2>1, <2>2 DEF LoadInv, DriverInv
<1>9. GatherInv(m, v)
  BY <1>4 DEF LoadInv, GatherInv, Gathered, Gathers, Calm
<1> QED BY <1>5, <1>8, <1>9 DEF LoadInv, m, s, f, q

\* The upstream answers a request; when it is calm, with what is asked for.
LEMMA AnsweredInv ==
  ASSUME NEW v \in Versions, NEW l, LoadInv(l, v), l.at = "fetch", l.reqq # <<>>, Len(l.respq) < Window,
         NEW x \in Answer, NEW b \in BOOLEAN,
         Calm(l, v) /\ ~b => GoodAnswer(x, v) /\ FileOf(v, Head(l.reqq)) \in ToSet(x.files)
  PROVE  LoadInv([l EXCEPT !.reqq = Tail(l.reqq), !.respq = Append(l.respq, x), !.faulted = l.faulted \/ b], v)
<1> DEFINE q == Tail(l.reqq)
           f == Head(l.reqq)
           r == Append(l.respq, x)
           m == [l EXCEPT !.reqq = q, !.respq = r, !.faulted = l.faulted \/ b]
<1>1. /\ l \in LoadType /\ l.sending \in Seq(Names) /\ l.reqq \in Seq(Names) /\ l.respq \in Seq(Answer)
      /\ l.faulted \in BOOLEAN
  BY DEF LoadInv, Fits, LoadType
<1>2. /\ q \in Seq(Names) /\ f \in Names /\ Len(q) = Len(l.reqq) - 1
      /\ Len(l.reqq) \in Nat /\ ToSet(l.reqq) = {f} \cup ToSet(q)
  BY <1>1, SeqParts, SetOfParts
<1>3. r \in Seq(Answer) /\ Len(r) = Len(l.respq) + 1 /\ ToSet(r) = ToSet(l.respq) \cup {x}
  BY <1>1, SetOfAppend
<1> HIDE DEF q, f, r
<1>4. /\ m \in LoadType /\ m.at = l.at /\ m.left = l.left /\ m.all = l.all /\ m.files = l.files
      /\ m.asked = l.asked /\ m.pending = l.pending /\ m.sending = l.sending
      /\ m.reqq = q /\ m.respq = r /\ m.faulted = (l.faulted \/ b) /\ m.since = l.since
  BY <1>1, <1>2, <1>3 DEF LoadType
<1> HIDE DEF m
<1>5. Fits(m) /\ m.since \in 0 .. v
  <2>1. /\ Len(l.reqq) \in Nat /\ ReqCap \in Nat /\ Window \in Nat /\ Len(l.respq) \in Nat
        /\ Len(l.reqq) <= ReqCap
    BY <1>1, BoundsAre DEF LoadInv, Fits
  <2>2. Len(q) <= ReqCap /\ Len(r) <= Window
    BY <2>1, <1>2, <1>3
  <2> QED BY <2>2, <1>4 DEF Fits, LoadInv
<1>6. Counts(m)
  <2>1. l.pending = Len(l.sending) + Len(l.reqq) + Len(l.respq)
    BY DEF LoadInv, DriverInv, Counts
  <2>2. Len(l.sending) + Len(q) + Len(r) = Len(l.sending) + Len(l.reqq) + Len(l.respq)
    <3> DEFINE i == Len(l.sending)
               j == Len(l.reqq)
               k == Len(l.respq)
    <3>1. i \in Nat /\ j \in Nat /\ k \in Nat /\ Len(q) = j - 1 /\ Len(r) = k + 1
      BY <1>1, <1>2, <1>3
    <3> HIDE DEF i, j, k
    <3>2. i + Len(q) + Len(r) = i + j + k
      BY <3>1
    <3> QED BY <3>2 DEF i, j, k
  <2> QED BY <2>1, <2>2, <1>4 DEF Counts
<1>0. Calm(m, v) => Calm(l, v) /\ ~b
  BY <1>4 DEF Calm
<1>7. ASSUME Calm(m, v) PROVE Fetches(m, v)
  <2>1. Fetches(l, v) /\ GoodAnswer(x, v) /\ FileOf(v, f) \in ToSet(x.files)
    BY <1>0, <1>7 DEF LoadInv, DriverInv, f
  <2>2. Answering(m) = Answering(l) \cup ToSet(x.files)
    BY <1>3, <1>4 DEF Answering
  <2>3. Named(l) = Named(m) \cup {f}
    BY <1>2, <1>4 DEF Named
  <2>4. l.left \in Seq(Symbols) /\ l.left # <<>> /\ l.asked \subseteq Files
    BY DEF LoadInv, Fits, LoadType, DriverInv
  <2>5. l.left[1] \in Symbols
    BY <2>4
  <2>6. Files \cap Symbols = {}
    BY GraphAssumption
  <2>7. \A g \in ToSet(m.respq) : GoodAnswer(g, v)
    BY <2>1, <1>3, <1>4 DEF Fetches
  <2>8. Named(m) \subseteq DOMAIN Answers[v]
    BY <2>1, <2>3 DEF Fetches
  <2>9. m.asked \subseteq DOMAIN m.files \cup Awaited(m)
    <3>1. ASSUME NEW g \in l.asked PROVE g \in DOMAIN l.files \cup Awaited(m)
      <4>1. g \in DOMAIN l.files \cup Named(m) \cup {f} \cup Answering(l)
        BY <2>1, <2>3 DEF Fetches, Awaited
      <4>2. g = f => g \in ToSet(x.files)
        BY <2>1, <2>4, <2>6 DEF FileOf
      <4> QED BY <4>1, <4>2, <2>2 DEF Awaited
    <3> QED BY <3>1, <1>4
  <2>10. l.left[1] \in Named(m) \/ Defines[v][l.left[1]] \in DOMAIN l.files \cup Answering(m)
    <3>1. l.left[1] = f => Defines[v][l.left[1]] \in ToSet(x.files)
      BY <2>1, <2>5 DEF FileOf
    <3>2. l.left[1] \in Named(l) \/ Defines[v][l.left[1]] \in DOMAIN l.files \cup Answering(l)
      BY <2>1 DEF Fetches
    <3> QED BY <3>1, <3>2, <2>2, <2>3
  <2>11. AllOf(m.files, v) /\ Chased(m.files, m.asked)
    BY <2>1, <1>4 DEF Fetches
  <2> QED BY <2>7, <2>8, <2>9, <2>10, <2>11, <1>4 DEF Fetches
<1>8. DriverInv(m, v)
  BY <1>4, <1>6, <1>7 DEF LoadInv, DriverInv
<1>9. GatherInv(m, v)
  BY <1>0, <1>4 DEF LoadInv, GatherInv, Gathered, Gathers
<1> QED BY <1>5, <1>8, <1>9 DEF LoadInv, m, q, f, r

\* The driver takes an answer off its stream.
Taken(l) == [l EXCEPT !.pending = l.pending - 1, !.respq = Tail(l.respq)]

LEMMA TakenIs ==
  ASSUME NEW v, NEW l, LoadInv(l, v), l.at = "fetch", l.pending > 0, l.respq # <<>>
  PROVE  LET m == Taken(l) IN
         /\ m \in LoadType /\ m.at = l.at /\ m.left = l.left /\ m.all = l.all /\ m.files = l.files
         /\ m.asked = l.asked /\ m.pending = l.pending - 1 /\ m.sending = l.sending
         /\ m.reqq = l.reqq /\ m.respq = Tail(l.respq) /\ m.faulted = l.faulted /\ m.since = l.since
         /\ Head(l.respq) \in Answer /\ Fits(m)
<1> DEFINE r == Tail(l.respq)
           p == l.pending - 1
           m == [l EXCEPT !.pending = p, !.respq = r]
<1>1. l \in LoadType /\ l.respq \in Seq(Answer) /\ l.pending \in Nat
  BY DEF LoadInv, Fits, LoadType
<1>2. r \in Seq(Answer) /\ Head(l.respq) \in Answer /\ Len(r) = Len(l.respq) - 1 /\ Len(l.respq) \in Nat
  BY <1>1, SeqParts
<1>3. p \in Nat
  BY <1>1
<1> HIDE DEF r, p
<1>4. /\ m \in LoadType /\ m.at = l.at /\ m.left = l.left /\ m.all = l.all /\ m.files = l.files
      /\ m.asked = l.asked /\ m.pending = p /\ m.sending = l.sending
      /\ m.reqq = l.reqq /\ m.respq = r /\ m.faulted = l.faulted /\ m.since = l.since
  BY <1>1, <1>2, <1>3 DEF LoadType
<1> HIDE DEF m
<1>5. Len(r) <= Window
  <2>1. Len(l.respq) <= Window /\ Window \in Nat
    BY BoundsAre DEF LoadInv, Fits
  <2> QED BY <2>1, <1>2
<1>6. Fits(m)
  BY <1>4, <1>5 DEF LoadInv, Fits
<1>7. m = Taken(l)
  BY DEF m, p, r, Taken
<1> QED BY <1>2, <1>4, <1>6, <1>7 DEF p, r

\* The files of an answer are noted.
LEMMA TakesFilesInv ==
  ASSUME NEW v \in Versions, NEW l, LoadInv(l, v), l.at = "fetch", l.pending > 0, l.sending = <<>>, l.respq # <<>>
  PROVE  LoadInv(NoteAll(Taken(l), Head(l.respq).files, Head(l.respq).ver), v)
<1> DEFINE x == Head(l.respq)
           k == Taken(l)
           m == NoteAll(k, x.files, x.ver)
<1>1. /\ k \in LoadType /\ k.at = l.at /\ k.left = l.left /\ k.all = l.all /\ k.files = l.files
      /\ k.asked = l.asked /\ k.pending = l.pending - 1 /\ k.sending = l.sending
      /\ k.reqq = l.reqq /\ k.respq = Tail(l.respq) /\ k.faulted = l.faulted /\ k.since = l.since
      /\ x \in Answer /\ Fits(k)
  BY TakenIs
<1>2. /\ l \in LoadType /\ l.respq \in Seq(Answer) /\ l.reqq \in Seq(Names) /\ l.pending \in Nat
  BY DEF LoadInv, Fits, LoadType
<1>0. ToSet(l.respq) = {x} \cup ToSet(Tail(l.respq))
  BY <1>2, SetOfParts
<1> HIDE DEF x, k
<1>3. x.files \in Seq(Files) /\ x.ver \in Versions
  BY <1>1 DEF Answer
<1>4. Grown(k, m, x.ver, Files) /\ ToSet(x.files) \subseteq DOMAIN m.files
  <2>1. \A f \in ToSet(x.files) : ToSet(Deps[x.ver][f]) \subseteq Files
    BY <1>3, GraphIs, SetOfSeq
  <2> QED BY <1>1, <1>3, <2>1, NoteAllGrows
<1>10. ASSUME Calm(l, v) PROVE Grown(k, m, v, DOMAIN Answers[v])
  <2>1. GoodAnswer(x, v)
    BY <1>0, <1>10 DEF LoadInv, DriverInv, Fetches
  <2> QED BY <1>1, <1>3, <2>1, NoteAllGrows DEF GoodAnswer
<1> HIDE DEF m
<1>5. /\ m \in LoadType /\ m.at = l.at /\ m.left = l.left /\ m.all = l.all
      /\ m.reqq = l.reqq /\ m.respq = Tail(l.respq) /\ m.faulted = l.faulted /\ m.since = l.since
  BY <1>1, <1>4 DEF Grown
<1>6. Fits(m) /\ m.since \in 0 .. v
  BY <1>1, <1>5 DEF Fits, LoadInv
<1>7. Counts(m)
  <2>1. l.pending = Len(l.sending) + Len(l.reqq) + Len(l.respq) /\ Len(l.sending) = 0
    BY DEF LoadInv, DriverInv, Counts
  <2>2. m.pending + Len(k.sending) = k.pending + Len(m.sending) /\ m.sending \in Seq(Names) /\ m.pending \in Nat
    BY <1>4, <1>5 DEF Grown, LoadType
  <2>3. Len(Tail(l.respq)) = Len(l.respq) - 1 /\ Len(l.respq) \in Nat
    BY <1>2, SeqParts
  <2> DEFINE a == m.pending
             b == Len(m.sending)
             c == Len(l.reqq)
             d == Len(l.respq)
             e == l.pending
  <2>4. /\ a \in Nat /\ b \in Nat /\ c \in Nat /\ d \in Nat /\ e \in Nat
        /\ e = 0 + c + d /\ a + 0 = (e - 1) + b
    <3>1. /\ a \in Nat /\ b \in Nat /\ c \in Nat /\ d \in Nat /\ e \in Nat
      BY <1>2, <2>2, <2>3
    <3>2. e = 0 + c + d
      BY <2>1, Zenon
    <3>3. k.sending = <<>> /\ Len(k.sending) = 0 /\ k.pending = e - 1
      BY <1>1
    <3>4. a + 0 = (e - 1) + b
      <4>1. a + Len(k.sending) = k.pending + b
        BY <2>2
      <4> QED BY <3>3, <4>1, Zenon
    <3> QED BY <3>1, <3>2, <3>4
  <2>5. Len(m.reqq) = c /\ Len(m.respq) = d - 1
    BY <1>5, <2>3
  <2> HIDE DEF a, b, c, d, e
  <2>6. a = b + c + (d - 1)
    BY <2>4
  <2> QED BY <2>5, <2>6 DEF a, b, Counts
<1>8. ASSUME Calm(m, v) PROVE Fetches(m, v)
  <2>0. Calm(l, v)
    BY <1>5, <1>8 DEF Calm
  <2>1. Fetches(l, v) /\ Grown(k, m, v, DOMAIN Answers[v])
    BY <1>10, <2>0 DEF LoadInv, DriverInv
  <2>2. Answering(l) = Answering(m) \cup ToSet(x.files) /\ ToSet(m.respq) \subseteq ToSet(l.respq)
    BY <1>0, <1>5 DEF Answering
  <2>3. ToSet(l.sending) = {}
    BY SetOfEmpty
  <2>4. /\ DOMAIN l.files \subseteq DOMAIN m.files
        /\ m.asked \subseteq l.asked \cup ToSet(m.sending)
        /\ ToSet(m.sending) \subseteq DOMAIN Answers[v]
        /\ \A f \in DOMAIN m.files : m.files[f] = v \/ (f \in DOMAIN l.files /\ m.files[f] = l.files[f])
        /\ Chased(l.files, l.asked) => Chased(m.files, m.asked)
    BY <1>1, <2>1, <2>3 DEF Grown
  <2>5. Named(m) = ToSet(m.sending) \cup Named(l)
    BY <1>5, <2>3 DEF Named
  <2>6. Awaited(l) \subseteq Awaited(m) \cup DOMAIN m.files
    BY <2>2, <2>5, <1>4 DEF Awaited
  <2>7. \A y \in ToSet(m.respq) : GoodAnswer(y, v)
    BY <2>1, <2>2 DEF Fetches
  <2>8. Named(m) \subseteq DOMAIN Answers[v]
    BY <2>1, <2>4, <2>5 DEF Fetches
  <2>9. AllOf(m.files, v)
    BY <2>1, <2>4 DEF Fetches, AllOf
  <2>10. m.asked \subseteq DOMAIN m.files \cup Awaited(m)
    <3>1. l.asked \subseteq DOMAIN l.files \cup Awaited(l)
      BY <2>1 DEF Fetches
    <3>2. ToSet(m.sending) \subseteq Awaited(m)
      BY DEF Awaited, Named
    <3> QED BY <3>1, <3>2, <2>4, <2>6
  <2>11. Chased(m.files, m.asked)
    BY <2>1, <2>4 DEF Fetches
  <2>12. l.left[1] \in Named(m) \/ Defines[v][l.left[1]] \in DOMAIN m.files \cup Answering(m)
    <3>1. l.left[1] \in Named(l) \/ Defines[v][l.left[1]] \in DOMAIN l.files \cup Answering(l)
      BY <2>1 DEF Fetches
    <3> QED BY <3>1, <2>2, <2>4, <2>5, <1>4
  <2> QED BY <2>7, <2>8, <2>9, <2>10, <2>11, <2>12, <1>5 DEF Fetches
<1>9. DriverInv(m, v)
  BY <1>5, <1>7, <1>8 DEF LoadInv, DriverInv
<1>11. GatherInv(m, v)
  BY <1>5 DEF LoadInv, GatherInv, Gathered, Gathers, Calm
<1> QED BY <1>6, <1>9, <1>11 DEF LoadInv, m, k, x

\* An answer of no use is counted off; it comes of an upstream that is not calm.
LEMMA TakesOtherInv ==
  ASSUME NEW v, NEW l, LoadInv(l, v), l.at = "fetch", l.pending > 0, l.respq # <<>>, ~Calm(l, v)
  PROVE  LoadInv(Taken(l), v)
<1> DEFINE k == Taken(l)
<1>1. /\ k \in LoadType /\ k.at = l.at /\ k.left = l.left /\ k.all = l.all
      /\ k.pending = l.pending - 1 /\ k.sending = l.sending
      /\ k.reqq = l.reqq /\ k.respq = Tail(l.respq) /\ k.faulted = l.faulted /\ k.since = l.since /\ Fits(k)
  BY TakenIs
<1>2. /\ l.respq \in Seq(Answer) /\ l.reqq \in Seq(Names) /\ l.sending \in Seq(Names) /\ l.pending \in Nat
  BY DEF LoadInv, Fits, LoadType
<1> HIDE DEF k
<1>3. Counts(k)
  <2>1. l.pending = Len(l.sending) + Len(l.reqq) + Len(l.respq)
    BY DEF LoadInv, DriverInv, Counts
  <2>2. Len(Tail(l.respq)) = Len(l.respq) - 1 /\ Len(l.respq) \in Nat
    BY <1>2, SeqParts
  <2> DEFINE b == Len(l.sending)
             c == Len(l.reqq)
             d == Len(l.respq)
  <2>3. /\ b \in Nat /\ c \in Nat /\ d \in Nat /\ k.pending = (b + c + d) - 1
        /\ Len(k.sending) = b /\ Len(k.reqq) = c /\ Len(k.respq) = d - 1
    BY <1>1, <1>2, <2>1, <2>2
  <2> HIDE DEF b, c, d
  <2>4. k.pending = Len(k.sending) + Len(k.reqq) + Len(k.respq)
    BY <2>3
  <2> QED BY <2>4 DEF Counts
<1>5. ~Calm(k, v)
  BY <1>1 DEF Calm
<1>4. DriverInv(k, v) /\ GatherInv(k, v) /\ k.since \in 0 .. v
  BY <1>1, <1>3, <1>5 DEF LoadInv, DriverInv, GatherInv
<1> QED BY <1>1, <1>4 DEF LoadInv, k

-----------------------------------------------------------------------------
(* The invariant of the specification                                      *)

LoadsInv == load \in [Loaders -> LoadType] /\ \A p \in Loaders : LoadInv(load[p], version)
RestOK ==
  /\ source \in Sources
  /\ version \in Versions /\ faults \in 0 .. MaxFaults
  /\ snapshot \in [files : FileMap, since : Versions, steady : BOOLEAN]
  /\ done \in [Reloads -> {"none", "ok", "failed", "refused", "abandoned"}]
  /\ request \in [Requests -> {"idle", "waiting", "snapshot", "bundle", "unimplemented", "unavailable"}]
SchemaInv == LoadsInv /\ RestOK /\ SnapshotCovers

LEMMA UpdateKeeps ==
  ASSUME LoadsInv, NEW p \in Loaders, NEW l, LoadInv(l, version),
         load' = [load EXCEPT ![p] = l], version' = version
  PROVE  LoadsInv'
<1>1. l \in LoadType
  BY DEF LoadInv, Fits
<1>2. load' \in [Loaders -> LoadType]
  BY <1>1 DEF LoadsInv
<1>3. ASSUME NEW q \in Loaders PROVE LoadInv(load'[q], version)
  <2>1. load'[q] = IF q = p THEN l ELSE load[q]
    BY DEF LoadsInv
  <2> QED BY <2>1 DEF LoadsInv
<1>4. \A q \in Loaders : LoadInv(load'[q], version')
  BY <1>3
<1> QED BY <1>2, <1>4 DEF LoadsInv

LEMMA LoadsStay == LoadsInv /\ UNCHANGED <<load, version>> => LoadsInv'
BY DEF LoadsInv

\* The upstream is deployed anew, under the loads that run.
LEMMA ChangeKeeps ==
  ASSUME LoadsInv, version \in Versions, UpstreamChanges
  PROVE  LoadsInv' /\ version' \in Versions
<1>1. version' = version + 1 /\ load' = load /\ version < MaxVersion
  BY DEF UpstreamChanges
<1>2. version' \in Versions
  BY <1>1, BoundsAre DEF Versions
<1>3. ASSUME NEW q \in Loaders PROVE LoadInv(load[q], version + 1)
  BY AgedInv DEF LoadsInv
<1>4. \A q \in Loaders : LoadInv(load'[q], version')
  BY <1>1, <1>3
<1> QED BY <1>1, <1>2, <1>4 DEF LoadsInv

\* A step of the driver, of its listing or of its end.
LEMMA LoadStepKeeps ==
  ASSUME LoadsInv, version \in Versions, NEW p \in Loaders, LoadStep(p)
  PROVE  LoadsInv'
<1> DEFINE l == load[p]
<1>1. LoadInv(l, version) /\ l \in LoadType
  BY DEF LoadsInv
<1>2. CASE Listed(p)
  <2>1. LoadInv([l EXCEPT !.at = "next", !.left = Services[version], !.open = FALSE], version)
    BY <1>1, <1>2, ListedInv DEF Listed
  <2> QED BY <1>2, <2>1, UpdateKeeps DEF Listed, Update
<1>3. CASE FallsBack(p)
  <2>1. LoadInv([l EXCEPT !.at = "list_alpha", !.open = FALSE], version)
    BY <1>1, <1>3, FallsBackInv DEF FallsBack
  <2> QED BY <1>3, <2>1, UpdateKeeps DEF FallsBack, Update
<1>4. CASE FetchStarts(p)
  <2>1. LoadInv([l EXCEPT !.at = "fetch", !.pending = 1, !.sending = <<Head(l.left)>>], version)
    BY <1>1, <1>4, StartsInv DEF FetchStarts
  <2> QED BY <1>4, <2>1, UpdateKeeps DEF FetchStarts, Update
<1>5. CASE TakeAnswer(p)
  <2> DEFINE x == Head(l.respq)
  <2>1. l.at = "fetch" /\ l.pending > 0 /\ l.sending = <<>> /\ l.respq # <<>> /\ version' = version
    BY <1>5 DEF TakeAnswer, Update
  <2>2. x \in Answer /\ x \in ToSet(l.respq)
    <3>1. l.respq \in Seq(Answer)
      BY <1>1 DEF LoadType
    <3> QED BY <3>1, <2>1, SeqParts, SetOfParts
  <2>3. x.kind # "files" => ~Calm(l, version)
    BY <1>1, <2>1, <2>2, UselessIsNotCalm
  <2>4. load' = [load EXCEPT ![p] =
          CASE x.kind = "files" -> NoteAll(Taken(l), x.files, x.ver)
            [] x.kind = "other" -> Taken(l)
            [] x.kind = "error" -> Leave(l, <<>>)
            [] x.kind = "end"   -> Leave(l, l.files)]
    BY <1>5 DEF TakeAnswer, Update, Taken
  <2> HIDE DEF l
  <2>5. CASE x.kind = "files"
    <3>1. LoadInv(NoteAll(Taken(l), x.files, x.ver), version)
      BY <1>1, <2>1, TakesFilesInv
    <3>2. load' = [load EXCEPT ![p] = NoteAll(Taken(l), x.files, x.ver)]
      BY <2>4, <2>5
    <3> QED BY <2>1, <3>1, <3>2, UpdateKeeps
  <2>6. CASE x.kind = "other"
    <3>1. LoadInv(Taken(l), version)
      BY <1>1, <2>1, <2>3, <2>6, TakesOtherInv
    <3>2. load' = [load EXCEPT ![p] = Taken(l)]
      BY <2>4, <2>6
    <3> QED BY <2>1, <3>1, <3>2, UpdateKeeps
  <2>7. CASE x.kind = "error"
    <3>1. LoadInv(Leave(l, <<>>), version)
      BY <1>1, <2>1, <2>3, <2>7, SkippedInv
    <3>2. load' = [load EXCEPT ![p] = Leave(l, <<>>)]
      BY <2>4, <2>7
    <3> QED BY <2>1, <3>1, <3>2, UpdateKeeps
  <2>8. CASE x.kind = "end"
    <3>1. LoadInv(Leave(l, l.files), version)
      BY <1>1, <2>1, <2>3, <2>8, LeftInv
    <3>2. load' = [load EXCEPT ![p] = Leave(l, l.files)]
      BY <2>4, <2>8
    <3> QED BY <2>1, <3>1, <3>2, UpdateKeeps
  <2> QED BY <2>2, <2>5, <2>6, <2>7, <2>8 DEF Answer
<1>6. CASE SendNext(p)
  <2>1. l.at = "fetch" /\ l.sending # <<>> /\ version' = version
    BY <1>6 DEF SendNext, Update
  <2>2. CASE /\ Len(l.reqq) < ReqCap
             /\ load' = [load EXCEPT ![p] = [l EXCEPT !.sending = Tail(l.sending),
                                                      !.reqq = Append(l.reqq, Head(l.sending))]]
    <3>1. LoadInv([l EXCEPT !.sending = Tail(l.sending), !.reqq = Append(l.reqq, Head(l.sending))], version)
      BY <1>1, <2>1, <2>2, QueuedInv
    <3> QED BY <2>1, <2>2, <3>1, UpdateKeeps
  <2>3. CASE Ended(p) /\ load' = [load EXCEPT ![p] = Leave(l, <<>>)]
    <3>1. PICK k \in DOMAIN l.respq : l.respq[k].kind # "files"
      BY <2>3 DEF Ended
    <3>2. l.respq[k] \in ToSet(l.respq)
      BY <3>1 DEF ToSet
    <3>3. LoadInv(Leave(l, <<>>), version)
      BY <1>1, <2>1, <3>1, <3>2, UselessIsNotCalm, SkippedInv
    <3> QED BY <2>1, <2>3, <3>3, UpdateKeeps
  <2> QED BY <1>6, <2>2, <2>3 DEF SendNext, Update
<1>7. CASE Fetched(p)
  <2>1. LoadInv(Leave(l, l.files), version)
    BY <1>1, <1>7, FetchedInv DEF Fetched
  <2> QED BY <1>7, <2>1, UpdateKeeps DEF Fetched, Update
<1>8. CASE BuildFails(p)
  <2>1. LoadInv([l EXCEPT !.at = "failed"], version)
    BY <1>1, <1>8, FailedInv DEF BuildFails, Complete
  <2> QED BY <1>8, <2>1, UpdateKeeps DEF BuildFails, Update
<1> QED BY <1>2, <1>3, <1>4, <1>5, <1>6, <1>7, <1>8 DEF LoadStep

\* An answer of the upstream's, which fails the load or not.
LEMMA AnswerKeeps ==
  ASSUME LoadsInv, version \in Versions, NEW p \in Loaders, Reading(p), NEW x \in Answer,
         \/ /\ Calm(load[p], version) =>
                 GoodAnswer(x, version) /\ FileOf(version, Head(load[p].reqq)) \in ToSet(x.files)
            /\ Update(p, Answered(p, x))
         \/ Fault(p, Answered(p, x))
  PROVE  LoadsInv'
<1> DEFINE l == load[p]
           q == Tail(l.reqq)
           r == Append(l.respq, x)
<1>1. LoadInv(l, version) /\ l \in LoadType /\ l.faulted \in BOOLEAN
  BY DEF LoadsInv, LoadType
<1>2. l.at = "fetch" /\ l.reqq # <<>> /\ Len(l.respq) < Window
  BY DEF Reading
<1>3. version' = version
  BY DEF Update, Fault
<1>4. CASE /\ Calm(l, version) => GoodAnswer(x, version) /\ FileOf(version, Head(l.reqq)) \in ToSet(x.files)
           /\ Update(p, Answered(p, x))
  <2> DEFINE m == [l EXCEPT !.reqq = q, !.respq = r]
             n == [l EXCEPT !.reqq = q, !.respq = r, !.faulted = l.faulted \/ FALSE]
  <2>1. LoadInv(n, version)
    BY <1>1, <1>2, <1>4, AnsweredInv
  <2>2. load' = [load EXCEPT ![p] = m]
    BY <1>4 DEF Update, Answered
  <2>3. n = m
    <3>1. (l.faulted \/ FALSE) = l.faulted
      BY <1>1
    <3> HIDE DEF q, r, l
    <3>2. [l EXCEPT !.reqq = q, !.respq = r, !.faulted = l.faulted] = [l EXCEPT !.reqq = q, !.respq = r]
      BY <1>1 DEF LoadType
    <3> QED BY <3>1, <3>2
  <2> HIDE DEF m, n
  <2>4. LoadInv(m, version)
    BY <2>1, <2>3
  <2> QED BY <2>2, <2>4, <1>3, UpdateKeeps
<1>5. CASE Fault(p, Answered(p, x))
  <2> DEFINE m == [[l EXCEPT !.reqq = q, !.respq = r] EXCEPT !.faulted = TRUE]
             n == [l EXCEPT !.reqq = q, !.respq = r, !.faulted = l.faulted \/ TRUE]
  <2>1. LoadInv(n, version)
    BY <1>1, <1>2, AnsweredInv
  <2>2. load' = [load EXCEPT ![p] = m]
    BY <1>5 DEF Fault, Answered
  <2>3. n = m
    <3>1. (l.faulted \/ TRUE) = TRUE
      OBVIOUS
    <3> HIDE DEF q, r, l
    <3>2. [l EXCEPT !.reqq = q, !.respq = r, !.faulted = TRUE] = [[l EXCEPT !.reqq = q, !.respq = r] EXCEPT !.faulted = TRUE]
      BY <1>1 DEF LoadType
    <3> QED BY <3>1, <3>2
  <2> HIDE DEF m, n
  <2>4. LoadInv(m, version)
    BY <2>1, <2>3
  <2> QED BY <2>2, <2>4, <1>3, UpdateKeeps
<1> QED BY <1>4, <1>5

\* A step of the upstream, or its failing of the listing.
LEMMA UpstreamKeeps ==
  ASSUME LoadsInv, version \in Versions, NEW p \in Loaders, UpstreamStep(p) \/ ListFails(p)
  PROVE  LoadsInv'
<1> DEFINE l == load[p]
           v == version
<1>1. LoadInv(l, v) /\ l \in LoadType
  BY DEF LoadsInv
<1>2. CASE UpstreamOpens(p)
  <2>1. LoadInv([l EXCEPT !.open = TRUE], v)
    BY <1>1, OpenedInv
  <2> QED BY <1>2, <2>1, UpdateKeeps DEF UpstreamOpens, Update
<1>3. CASE UpstreamRefuses(p)
  <2>1. LoadInv([Leave(l, <<>>) EXCEPT !.faulted = TRUE], v)
    BY <1>1, <1>3, RefusedInv DEF UpstreamRefuses
  <2> QED BY <1>3, <2>1, UpdateKeeps DEF UpstreamRefuses, Fault
<1>4. CASE UpstreamAnswers(p)
  <2> DEFINE n == Head(l.reqq)
  <2>1. Reading(p) /\ l.at = "fetch" /\ l.reqq # <<>>
    BY <1>4 DEF UpstreamAnswers, Reading
  <2>2. n \in ToSet(l.reqq)
    <3>1. l.reqq \in Seq(Names)
      BY <1>1 DEF LoadType
    <3> QED BY <3>1, <2>1, SetOfParts
  <2>3. CASE n \in DOMAIN Answers[v]
    <3>1. PICK a \in Answers[v][n] : Update(p, Answered(p, [kind |-> "files", files |-> a, ver |-> v]))
      BY <1>4, <2>3 DEF UpstreamAnswers
    <3> DEFINE x == [kind |-> "files", files |-> a, ver |-> v]
    <3>2. /\ a \in Seq(Files) /\ FileOf(v, n) \in ToSet(a)
          /\ \A f \in ToSet(a) : ToSet(Deps[v][f]) \subseteq DOMAIN Answers[v]
      BY <2>3, <3>1, GraphIs
    <3>3. x \in Answer /\ x.kind = "files" /\ x.ver = v /\ x.files = a
      BY <3>2 DEF Answer
    <3>4. Update(p, Answered(p, x))
      BY <3>1
    <3> HIDE DEF x
    <3>5. GoodAnswer(x, v) /\ FileOf(v, n) \in ToSet(x.files)
      BY <3>2, <3>3 DEF GoodAnswer
    <3> QED BY <2>1, <3>3, <3>4, <3>5, AnswerKeeps
  <2>4. CASE n \notin DOMAIN Answers[v]
    <3> DEFINE x == [kind |-> "error", files |-> <<>>, ver |-> v]
    <3>1. Update(p, Answered(p, x)) /\ x \in Answer
      BY <1>4, <2>4 DEF UpstreamAnswers, Answer
    <3>2. ~Calm(l, v)
      BY <1>1, <2>1, <2>2, <2>4 DEF LoadInv, DriverInv, Fetches, Named
    <3> HIDE DEF x
    <3> QED BY <2>1, <3>1, <3>2, AnswerKeeps
  <2> QED BY <2>3, <2>4
<1>5. CASE UpstreamFails(p)
  <2>1. Reading(p)
    BY <1>5 DEF UpstreamFails
  <2>2. PICK kind \in {"error", "other", "end"} :
          Fault(p, Answered(p, [kind |-> kind, files |-> <<>>, ver |-> v]))
    BY <1>5 DEF UpstreamFails
  <2> DEFINE x == [kind |-> kind, files |-> <<>>, ver |-> v]
  <2>3. x \in Answer /\ Fault(p, Answered(p, x))
    BY <2>2 DEF Answer
  <2> HIDE DEF x
  <2> QED BY <2>1, <2>3, AnswerKeeps
<1>6. CASE ListFails(p)
  <2>1. LoadInv([l EXCEPT !.at = "failed"], v)
    BY <1>1, <1>6, FailedInv DEF ListFails
  <2>2. LoadInv([[l EXCEPT !.at = "failed"] EXCEPT !.faulted = TRUE], v)
    BY <2>1, FaultedInv
  <2> QED BY <1>6, <2>2, UpdateKeeps DEF ListFails, Fault
<1> QED BY <1>2, <1>3, <1>4, <1>5, <1>6 DEF UpstreamStep

\* What a load whose services are all done has, of an upstream that is calm: the file of
\* every service, each import, and nothing of another version.
LEMMA CompleteIs ==
  ASSUME NEW v \in Versions, NEW l, LoadInv(l, v), l.at = "next", l.left = <<>>, Calm(l, v)
  PROVE  /\ \A k \in DOMAIN Services[v] : Defines[v][Services[v][k]] \in DOMAIN l.all
         /\ Chased(l.all, {}) /\ AllOf(l.all, v)
<1>1. Gathered(l, v)
  BY DEF LoadInv, GatherInv
<1>2. PICK n \in 0 .. Len(Services[v]) : Gathers(l, n, v)
  BY <1>1 DEF Gathered
<1>3. n = Len(Services[v])
  <2>1. Len(l.left) = Len(Services[v]) - n /\ Len(l.left) = 0
    BY <1>2 DEF Gathers
  <2>2. Len(Services[v]) \in Nat
    BY GraphIs
  <2> QED BY <2>1, <2>2, <1>2
<1>4. DOMAIN Services[v] = 1 .. Len(Services[v])
  BY GraphIs
<1> QED BY <1>1, <1>2, <1>3, <1>4 DEF Gathers, Gathered

\* tx.send publishes what is whole.
LEMMA SwapKeeps ==
  ASSUME SchemaInv, NEW p \in Loaders, Swap(p)
  PROVE  SnapshotCovers' /\ snapshot' \in [files : FileMap, since : Versions, steady : BOOLEAN]
<1> DEFINE l == load[p]
           s == Steady(p)
<1>0. version \in Versions
  BY DEF SchemaInv, RestOK
<1>1. /\ LoadInv(l, version) /\ l \in LoadType /\ l.at = "next" /\ l.left = <<>>
      /\ Ordered(l.all, topo_sort(l.all)) /\ l.all \in FileMap /\ l.since \in Versions
  BY DEF SchemaInv, LoadsInv, Swap, Complete, Builds, PoolAccepts, LoadType
<1>2. snapshot' = [files |-> l.all, since |-> l.since, steady |-> s] /\ s \in BOOLEAN
  BY DEF Swap, Steady
<1>3. s => Calm(l, version)
  BY DEF Steady, Calm
<1> HIDE DEF s
<1>4. Chased(l.all, {})
  BY <1>1, AcceptedIsClosed
<1>5. snapshot' \in [files : FileMap, since : Versions, steady : BOOLEAN]
  BY <1>1, <1>2
<1>6. snapshot'.files = l.all /\ snapshot'.since = l.since /\ snapshot'.steady = s
  BY <1>2
<1>7. s => /\ l.since = version
           /\ \A k \in DOMAIN Services[version] : Defines[version][Services[version][k]] \in DOMAIN l.all
           /\ AllOf(l.all, version)
  BY <1>0, <1>1, <1>3, CompleteIs DEF Calm
<1> HIDE DEF l
<1>8. \A f \in DOMAIN snapshot'.files : ToSet(deps(snapshot'.files, f)) \subseteq DOMAIN snapshot'.files
  BY <1>4, <1>6 DEF Chased
<1>9. snapshot'.steady =>
        LET v == snapshot'.since IN
        /\ \A k \in DOMAIN Services[v] : Defines[v][Services[v][k]] \in DOMAIN snapshot'.files
        /\ \A f \in DOMAIN snapshot'.files : snapshot'.files[f] = v
  BY <1>6, <1>7 DEF AllOf
<1> HIDE DEF l
<1>10. SnapshotCovers'
  BY <1>8, <1>9 DEF SnapshotCovers, deps
<1> QED BY <1>5, <1>10

LEMMA SnapshotStays == SnapshotCovers /\ UNCHANGED snapshot => SnapshotCovers'
BY DEF SnapshotCovers, Loaded, deps

LEMMA EndsKeeps ==
  ASSUME LoadsInv, RestOK, NEW p \in Loaders,
         NEW outcome \in {"ok", "failed", "abandoned"}, Ends(p, outcome)
  PROVE  /\ LoadsInv'
         /\ done' \in [Reloads -> {"none", "ok", "failed", "refused", "abandoned"}]
         /\ UNCHANGED <<version, source, request>>
<1>1. LoadsInv'
  BY NoLoadInv, UpdateKeeps DEF Ends, RestOK
<1>2. done' \in [Reloads -> {"none", "ok", "failed", "refused", "abandoned"}]
  BY DEF Ends, RestOK
<1> QED BY <1>1, <1>2 DEF Ends

LEMMA SchemaInit == Init => SchemaInv
<1> SUFFICES ASSUME Init PROVE SchemaInv
  OBVIOUS
<1>0. 0 \in Versions /\ version = 0
  BY BoundsAre DEF Versions, Init
<1>1. LoadsInv
  <2>1. NoLoad \in LoadType /\ LoadInv(NoLoad, version)
    BY <1>0, NoLoadInv DEF LoadInv, Fits
  <2> QED BY <2>1 DEF Init, LoadsInv
<1>2. snapshot \in [files : FileMap, since : Versions, steady : BOOLEAN]
  BY <1>0, EmptyMap DEF Init, NoSnapshot
<1>3. RestOK
  BY <1>0, <1>2, BoundsAre DEF Init, RestOK
<1>4. SnapshotCovers
  BY DEF Init, SnapshotCovers, Loaded
<1> QED BY <1>1, <1>3, <1>4 DEF SchemaInv

LEMMA BeginsKeeps ==
  ASSUME LoadsInv, version \in Versions, NEW p \in Loaders, Begins(p), version' = version
  PROVE  LoadsInv'
<1> DEFINE m == [NoLoad EXCEPT !.at = "list", !.since = version]
<1>1. LoadInv(m, version) /\ load' = [load EXCEPT ![p] = m]
  BY NoLoadInv DEF Begins
<1> HIDE DEF m
<1> QED BY <1>1, UpdateKeeps

\* A loader's step keeps the invariant: the load's part by the lemmas above, the
\* snapshot's by SwapKeeps.
LEMMA LoadingKeeps ==
  ASSUME SchemaInv, NEW p \in Loaders, Loading(p)
  PROVE  SchemaInv'
<1> USE DEF SchemaInv
<1>1. MaxFaults \in Nat /\ faults \in Nat /\ version \in Versions
  BY BoundsAre DEF RestOK
<1>2. CASE (LoadStep(p) \/ ListFails(p) \/ UpstreamStep(p)) /\ UNCHANGED schemaVars
  <2>1. LoadsInv'
    BY <1>1, <1>2, LoadStepKeeps, UpstreamKeeps
  <2>2. version' = version /\ faults' \in 0 .. MaxFaults
    <3>1. CASE LoadStep(p)
      BY <3>1 DEF LoadStep, Listed, FallsBack, FetchStarts, TakeAnswer, SendNext, Fetched, BuildFails, Update, RestOK
    <3>2. CASE UpstreamOpens(p) \/ UpstreamAnswers(p)
      BY <3>2 DEF UpstreamOpens, UpstreamAnswers, Update, RestOK
    <3>3. CASE ListFails(p) \/ UpstreamRefuses(p) \/ UpstreamFails(p)
      <4>1. PICK l : Fault(p, l)
        BY <3>3, Zenon DEF ListFails, UpstreamRefuses, UpstreamFails
      <4>2. faults < MaxFaults /\ faults' = faults + 1 /\ version' = version
        BY <4>1 DEF Fault
      <4> QED BY <1>1, <4>2
    <3> QED BY <1>2, <3>1, <3>2, <3>3 DEF UpstreamStep
  <2>3. RestOK' /\ SnapshotCovers'
    BY <1>2, <2>2, SnapshotStays DEF RestOK, schemaVars
  <2> QED BY <2>1, <2>3
<1>3. CASE Swap(p)
  <2>1. Ends(p, "ok") /\ UNCHANGED faults
    BY <1>3 DEF Swap
  <2>2. /\ LoadsInv' /\ done' \in [Reloads -> {"none", "ok", "failed", "refused", "abandoned"}]
        /\ UNCHANGED <<version, source, request>>
    BY <2>1, EndsKeeps
  <2>3. SnapshotCovers' /\ snapshot' \in [files : FileMap, since : Versions, steady : BOOLEAN]
    BY <1>3, SwapKeeps
  <2> QED BY <2>1, <2>2, <2>3 DEF RestOK
<1>4. CASE LoadFails(p) \/ LoadTimesOut(p) \/ ReloadAbandoned(p)
  <2>1. PICK outcome \in {"ok", "failed", "abandoned"} : Ends(p, outcome)
    BY <1>4 DEF LoadFails, LoadTimesOut, ReloadAbandoned
  <2>2. /\ LoadsInv' /\ done' \in [Reloads -> {"none", "ok", "failed", "refused", "abandoned"}]
        /\ UNCHANGED <<version, source, request>>
    BY <2>1, EndsKeeps
  <2>3. UNCHANGED snapshot /\ faults' \in 0 .. MaxFaults
    BY <1>4, <1>1 DEF LoadFails, LoadTimesOut, ReloadAbandoned, RestOK
  <2> QED BY <2>2, <2>3, SnapshotStays DEF RestOK
<1>5. CASE ReloadBegins(p)
  <2>3. UNCHANGED <<version, faults, source, snapshot, request>>
    BY <1>5 DEF ReloadBegins
  <2>1. LoadsInv'
    <3>1. CASE Reflects
      BY <1>1, <1>5, <2>3, <3>1, BeginsKeeps DEF ReloadBegins
    <3>2. CASE ~Reflects
      BY <1>5, <2>3, <3>2, LoadsStay DEF ReloadBegins
    <3> QED BY <3>1, <3>2
  <2>2. done' \in [Reloads -> {"none", "ok", "failed", "refused", "abandoned"}]
    BY <1>5 DEF ReloadBegins, RestOK
  <2> QED BY <2>1, <2>2, <2>3, SnapshotStays DEF RestOK
<1> QED BY <1>2, <1>3, <1>4, <1>5 DEF Loading

LEMMA SchemaStep == SchemaInv /\ [Next]_vars => SchemaInv'
<1> SUFFICES ASSUME SchemaInv, [Next]_vars PROVE SchemaInv'
  OBVIOUS
<1> USE DEF SchemaInv
<1>0. version \in Versions
  BY DEF RestOK
<1>1. CASE RefreshBegins
  <2>1. Refresh \in Loaders
    BY SchemaAssumption
  <2>2. LoadsInv'
    BY <1>0, <1>1, <2>1, BeginsKeeps DEF RefreshBegins
  <2> QED BY <1>1, <2>2, SnapshotStays DEF RefreshBegins, schemaVars, RestOK
<1>2. CASE UNCHANGED vars
  BY <1>2, LoadsStay, SnapshotStays DEF vars, reflectVars, schemaVars, RestOK
<1>3. CASE Settled
  BY <1>2, <1>3 DEF Settled
<1>4. CASE \E p \in Loaders : Loading(p)
  BY <1>4, LoadingKeeps
<1>5. CASE UpstreamChanges /\ UNCHANGED schemaVars
  BY <1>0, <1>5, ChangeKeeps, SnapshotStays DEF UpstreamChanges, schemaVars, RestOK
<1>6. CASE \E r \in Requests : RequestArrives(r) \/ RequestWakes(r) \/ RequestGivesUp(r)
  <2>1. PICK r \in Requests : RequestArrives(r) \/ RequestWakes(r) \/ RequestGivesUp(r)
    BY <1>6
  <2>2. PICK t \in {"waiting", "snapshot", "bundle", "unimplemented", "unavailable"} : Takes(r, t)
    <3>1. source \in {"None", "Bundled", "Reflection", "ReflectionOrBundled"}
      BY SchemaAssumption DEF RestOK
    <3>2. CASE RequestArrives(r)
      BY <3>1, <3>2 DEF RequestArrives
    <3>3. CASE RequestWakes(r) \/ RequestGivesUp(r)
      BY <3>3 DEF RequestWakes, RequestGivesUp
    <3> QED BY <2>1, <3>2, <3>3
  <2>3. request' \in [Requests -> {"idle", "waiting", "snapshot", "bundle", "unimplemented", "unavailable"}]
    BY <2>2 DEF Takes, RestOK
  <2> QED BY <2>2, <2>3, LoadsStay, SnapshotStays DEF Takes, reflectVars, RestOK
<1> QED BY <1>1, <1>2, <1>3, <1>4, <1>5, <1>6 DEF Next

LEMMA SchemaHolds == Spec => []SchemaInv
BY SchemaInit, SchemaStep, PTL DEF Spec

-----------------------------------------------------------------------------
(* The theorems                                                            *)

\* Every variable keeps its type and a driver its queues their capacities: the
\* request queue of reflection_driver never holds more than its sixteen.
THEOREM TypesHold == Spec => []TypeOK
<1>1. SchemaInv => TypeOK
  <2> SUFFICES ASSUME SchemaInv PROVE TypeOK
    OBVIOUS
  <2>1. ASSUME NEW p \in Loaders
        PROVE  LET l == load[p] IN
                 /\ l.at \in {"off", "list", "list_alpha", "next", "fetch", "failed"}
                 /\ l.all \in FileMap /\ l.files \in FileMap
                 /\ l.asked \subseteq Files /\ l.pending \in Nat
                 /\ l.sending \in Seq(Names) /\ l.reqq \in Seq(Names)
                 /\ Len(l.reqq) <= ReqCap /\ Len(l.respq) <= Window
    BY DEF SchemaInv, LoadsInv, LoadInv, Fits, LoadType
  <2>2. snapshot.files \in FileMap
    BY DEF SchemaInv, RestOK
  <2> QED BY <2>1, <2>2 DEF TypeOK, SchemaInv, RestOK
<1> QED BY <1>1, SchemaHolds, PTL

\* load_and_swap publishes nothing but what is whole: no file of the snapshot lacks an
\* import; and if the upstream neither failed nor changed while it was loaded, every
\* service is in it and all of it is of the one version.
THEOREM SnapshotIsWhole == Spec => []SnapshotCovers
<1>1. SchemaInv => SnapshotCovers
  BY DEF SchemaInv
<1> QED BY <1>1, SchemaHolds, PTL

\* What a schema is: it has services; its imports go down; what has the imports of its
\* files has the types they refer to; and no type is defined twice. It says nothing of
\* files of different versions of the schema.
Serves ==
  \A v \in Versions :
    /\ Services[v] # <<>>
    /\ \E rank \in [Files -> Nat] : \A f \in Files : \A g \in ToSet(Deps[v][f]) : rank[g] < rank[f]
    /\ \A S \in SUBSET Files :
         (\A f \in S : ToSet(Deps[v][f]) \subseteq S) =>
           \A f \in S : Needs[v][f] \subseteq UNION {Provides[v][g] : g \in S}
    /\ \A f, g \in Files : f # g => Provides[v][f] \cap Provides[v][g] = {}

\* A complete load of a calm upstream builds: the pool takes its files.
LEMMA CompleteBuilds ==
  ASSUME Serves, NEW p \in Loaders, version \in Versions, LoadInv(load[p], version),
         Complete(p), Calm(load[p], version)
  PROVE  Builds(p)
<1> DEFINE v == version
           m == load[p].all
           S == DOMAIN m
<1>1. /\ \A k \in DOMAIN Services[v] : Defines[v][Services[v][k]] \in S
      /\ Chased(m, {}) /\ AllOf(m, v)
  BY CompleteIs DEF Complete
<1>2. m \in FileMap
  BY DEF LoadInv, Fits, LoadType
<1>3. S \subseteq Files
  BY <1>2, FileMapIs
<1> HIDE DEF m
<1>4. m # <<>>
  <2>1. 1 \in DOMAIN Services[v]
    <3>1. Services[v] \in Seq(Symbols) /\ Services[v] # <<>>
      BY GraphIs DEF Serves
    <3> QED BY <3>1
  <2> QED BY <1>1, <2>1, EmptyMap
<1>5. \A f \in S : m[f] = v /\ deps(m, f) = Deps[v][f]
  BY <1>1 DEF AllOf, deps
<1>6. Ordered(m, topo_sort(m))
  <2>1. PICK rank \in [Files -> Nat] : \A f \in Files : \A g \in ToSet(Deps[v][f]) : rank[g] < rank[f]
    BY DEF Serves
  <2>2. Descends(m, rank)
    BY <1>3, <1>5, <2>1 DEF Descends
  <2>3. Acyclic(m)
    BY <2>2 DEF Acyclic
  <2> QED BY <1>1, <1>2, <2>3, ClosedIsAccepted
<1>7. Resolves(m)
  <2>1. \A f \in S : ToSet(Deps[v][f]) \subseteq S
    BY <1>1, <1>5 DEF Chased
  <2>2. \A f \in S : Needs[v][f] \subseteq UNION {Provides[v][g] : g \in S}
    BY <1>3, <2>1 DEF Serves
  <2>3. \A f, g \in S : f # g => Provides[v][f] \cap Provides[v][g] = {}
    BY <1>3 DEF Serves
  <2>4. {Provides[m[g]][g] : g \in S} = {Provides[v][g] : g \in S}
    BY <1>5
  <2> QED BY <1>5, <2>2, <2>3, <2>4 DEF Resolves
<1> QED BY <1>4, <1>6, <1>7 DEF Builds, PoolAccepts, m

\* Leaving a service, a load goes on to the next.
LEMMA LeaveGoesOn ==
  ASSUME NEW l \in LoadType, NEW kept
  PROVE  Leave(l, kept).at = "next" /\ [Leave(l, kept) EXCEPT !.faulted = TRUE].at = "next"
<1> DEFINE t == Tail(l.left)
           x == extend(l.all, kept)
           none == <<>>
           m == [l EXCEPT !.at = "next", !.left = t, !.all = x, !.open = FALSE, !.files = none,
                          !.asked = {}, !.pending = 0, !.sending = none, !.reqq = none, !.respq = none]
<1>1. Leave(l, kept) = m
  BY DEF Leave
<1> HIDE DEF t, x, none
<1>2. m.at = "next" /\ [m EXCEPT !.faulted = TRUE].at = "next"
  BY DEF LoadType
<1> QED BY <1>1, <1>2

\* Only a listing or a build that fails ends a load as failed.
LEMMA OthersDoNotFail ==
  ASSUME LoadsInv, version \in Versions, NEW p \in Loaders,
         \/ Listed(p) \/ FallsBack(p) \/ FetchStarts(p) \/ TakeAnswer(p) \/ SendNext(p) \/ Fetched(p)
         \/ UpstreamStep(p)
  PROVE  \E m : load' = [load EXCEPT ![p] = m] /\ m.at # "failed"
<1> DEFINE l == load[p]
<1>1. LoadInv(l, version) /\ l \in LoadType
  BY DEF LoadsInv
<1>2. CASE Listed(p) \/ FallsBack(p) \/ FetchStarts(p) \/ UpstreamOpens(p)
  <2>1. CASE Listed(p)
    <3> DEFINE m == [l EXCEPT !.at = "next", !.left = Services[version], !.open = FALSE]
    <3>1. load' = [load EXCEPT ![p] = m] /\ m.at # "failed"
      BY <1>1, <2>1 DEF Listed, Update, LoadType
    <3> QED BY <3>1
  <2>2. CASE FallsBack(p)
    <3> DEFINE m == [l EXCEPT !.at = "list_alpha", !.open = FALSE]
    <3>1. load' = [load EXCEPT ![p] = m] /\ m.at # "failed"
      BY <1>1, <2>2 DEF FallsBack, Update, LoadType
    <3> QED BY <3>1
  <2>3. CASE FetchStarts(p)
    <3> DEFINE m == [l EXCEPT !.at = "fetch", !.pending = 1, !.sending = <<Head(l.left)>>]
    <3>1. load' = [load EXCEPT ![p] = m] /\ m.at # "failed"
      BY <1>1, <2>3 DEF FetchStarts, Update, LoadType
    <3> QED BY <3>1
  <2>4. CASE UpstreamOpens(p)
    <3> DEFINE m == [l EXCEPT !.open = TRUE]
    <3>1. load' = [load EXCEPT ![p] = m] /\ m.at # "failed"
      BY <1>1, <2>4 DEF UpstreamOpens, Update, LoadType
    <3> QED BY <3>1
  <2> QED BY <1>2, <2>1, <2>2, <2>3, <2>4
<1>3. CASE TakeAnswer(p)
  <2> DEFINE x == Head(l.respq)
             m == CASE x.kind = "files" -> NoteAll(Taken(l), x.files, x.ver)
                    [] x.kind = "other" -> Taken(l)
                    [] x.kind = "error" -> Leave(l, <<>>)
                    [] x.kind = "end"   -> Leave(l, l.files)
  <2>1. l.at = "fetch" /\ l.pending > 0 /\ l.respq # <<>> /\ load' = [load EXCEPT ![p] = m]
    BY <1>3 DEF TakeAnswer, Update, Taken
  <2>2. Taken(l) \in LoadType /\ Taken(l).at = "fetch" /\ x \in Answer
    BY <1>1, <2>1, TakenIs
  <2>3. NoteAll(Taken(l), x.files, x.ver).at = "fetch"
    <3>1. x.files \in Seq(Files) /\ x.ver \in Versions
      BY <2>2 DEF Answer
    <3>2. \A f \in ToSet(x.files) : ToSet(Deps[x.ver][f]) \subseteq Files
      BY <3>1, GraphIs, SetOfSeq
    <3>3. Grown(Taken(l), NoteAll(Taken(l), x.files, x.ver), x.ver, Files)
      BY <2>2, <3>1, <3>2, NoteAllGrows
    <3> QED BY <2>2, <3>3 DEF Grown
  <2>4. Leave(l, <<>>).at = "next" /\ Leave(l, l.files).at = "next"
    BY <1>1, LeaveGoesOn
  <2>5. x.kind \in {"files", "error", "other", "end"}
    BY <2>2 DEF Answer
  <2> HIDE DEF x, l
  <2>6. m.at # "failed"
    BY <2>2, <2>3, <2>4, <2>5
  <2> QED BY <2>1, <2>6
<1>4. CASE SendNext(p)
  <2>1. CASE load' = [load EXCEPT ![p] = Leave(l, <<>>)]
    BY <2>1, <1>1, LeaveGoesOn
  <2>2. CASE load' = [load EXCEPT ![p] = [l EXCEPT !.sending = Tail(l.sending),
                                                   !.reqq = Append(l.reqq, Head(l.sending))]]
    <3> DEFINE m == [l EXCEPT !.sending = Tail(l.sending), !.reqq = Append(l.reqq, Head(l.sending))]
    <3>1. m.at # "failed"
      BY <1>1, <1>4 DEF SendNext, LoadType
    <3> QED BY <2>2, <3>1
  <2> QED BY <1>4, <2>1, <2>2 DEF SendNext, Update
<1>5. CASE Fetched(p)
  BY <1>5, <1>1, LeaveGoesOn DEF Fetched, Update
<1>6. CASE UpstreamRefuses(p)
  BY <1>6, <1>1, LeaveGoesOn DEF UpstreamRefuses, Fault
<1>7. CASE UpstreamAnswers(p) \/ UpstreamFails(p)
  <2>1. PICK x : \/ Update(p, Answered(p, x))
                 \/ Fault(p, Answered(p, x))
    BY <1>7, Zenon DEF UpstreamAnswers, UpstreamFails
  <2> DEFINE q == Tail(l.reqq)
             r == Append(l.respq, x)
             m == [l EXCEPT !.reqq = q, !.respq = r]
             n == [m EXCEPT !.faulted = TRUE]
  <2>2. load' = [load EXCEPT ![p] = m] \/ load' = [load EXCEPT ![p] = n]
    BY <2>1 DEF Update, Fault, Answered
  <2>3. l.at = "fetch"
    BY <1>7 DEF UpstreamAnswers, UpstreamFails, Reading
  <2> HIDE DEF q, r
  <2>4. m.at # "failed" /\ n.at # "failed"
    BY <1>1, <2>3 DEF LoadType
  <2> QED BY <2>2, <2>4
<1> QED BY <1>2, <1>3, <1>4, <1>5, <1>6, <1>7 DEF UpstreamStep

\* A load that had failed for cause still has: the version does not come back.
LEMMA CauseStays ==
  ASSUME SchemaInv, LoadFailsForCause, NEW q \in Loaders, load'[q] = load[q], load'[q].at = "failed",
         version' = version \/ UpstreamChanges
  PROVE  ~(~load'[q].faulted /\ load'[q].since = version')
<1>1. ~(~load[q].faulted /\ load[q].since = version)
  BY DEF LoadFailsForCause, Steady
<1>2. CASE version' = version
  BY <1>1, <1>2
<1>3. CASE UpstreamChanges
  <2>1. version \in Nat /\ load[q].since \in 0 .. version
    BY GraphIs DEF SchemaInv, RestOK, LoadsInv, LoadInv
  <2>2. version' = version + 1
    BY <1>3 DEF UpstreamChanges
  <2> QED BY <2>1, <2>2
<1> QED BY <1>2, <1>3

LEMMA FailedStep ==
  ASSUME Serves, SchemaInv, LoadFailsForCause, [Next]_vars
  PROVE  LoadFailsForCause'
<1> SUFFICES ASSUME NEW q \in Loaders, load'[q].at = "failed"
             PROVE  ~(~load'[q].faulted /\ load'[q].since = version')
  BY DEF LoadFailsForCause, Steady
<1>1. /\ load \in [Loaders -> LoadType] /\ LoadsInv /\ \A r \in Loaders : LoadInv(load[r], version)
      /\ version \in Versions
  BY DEF SchemaInv, LoadsInv, RestOK
<1>2. ASSUME load'[q] = load[q], version' = version \/ UpstreamChanges
      PROVE  ~(~load'[q].faulted /\ load'[q].since = version')
  BY <1>2, CauseStays
<1>3. ASSUME NEW p \in Loaders, NEW m, load' = [load EXCEPT ![p] = m], m.at # "failed"
      PROVE  load'[q] = load[q]
  BY <1>1, <1>3
<1>4. NoLoad.at # "failed" /\ [NoLoad EXCEPT !.at = "list", !.since = version].at # "failed"
  BY DEF NoLoad
<1>5. ASSUME NEW p \in Loaders, Loading(p) PROVE ~(~load'[q].faulted /\ load'[q].since = version')
  <2>0. version' = version
    <3>1. CASE LoadStep(p)
      BY <3>1 DEF LoadStep, Listed, FallsBack, FetchStarts, TakeAnswer, SendNext, Fetched, BuildFails, Update
    <3>2. CASE UpstreamOpens(p) \/ UpstreamAnswers(p)
      BY <3>2 DEF UpstreamOpens, UpstreamAnswers, Update
    <3>3. CASE ListFails(p) \/ UpstreamRefuses(p) \/ UpstreamFails(p)
      BY <3>3 DEF ListFails, UpstreamRefuses, UpstreamFails, Fault
    <3>4. CASE Swap(p) \/ LoadFails(p) \/ LoadTimesOut(p) \/ ReloadAbandoned(p)
      BY <3>4 DEF Swap, LoadFails, LoadTimesOut, ReloadAbandoned, Ends
    <3>5. CASE ReloadBegins(p)
      BY <3>5 DEF ReloadBegins
    <3> QED BY <1>5, <3>1, <3>2, <3>3, <3>4, <3>5 DEF Loading, UpstreamStep
  <2>1. CASE BuildFails(p)
    <3>1. ~Calm(load[p], version)
      BY <2>1, <1>1, CompleteBuilds DEF BuildFails
    <3>2. load'[p].faulted = load[p].faulted /\ load'[p].since = load[p].since
      BY <2>1, <1>1 DEF BuildFails, Update, LoadType
    <3>3. q = p \/ load'[q] = load[q]
      BY <2>1, <1>1 DEF BuildFails, Update
    <3> QED BY <2>0, <3>1, <3>2, <3>3, <1>2 DEF Calm
  <2>2. CASE ListFails(p)
    <3>1. load'[p].faulted
      BY <2>2, <1>1 DEF ListFails, Fault, LoadType
    <3>2. q = p \/ load'[q] = load[q]
      BY <2>2, <1>1 DEF ListFails, Fault
    <3> QED BY <2>0, <3>1, <3>2, <1>2
  <2>3. CASE \/ Listed(p) \/ FallsBack(p) \/ FetchStarts(p) \/ TakeAnswer(p) \/ SendNext(p) \/ Fetched(p)
             \/ UpstreamStep(p)
    <3>1. PICK m : load' = [load EXCEPT ![p] = m] /\ m.at # "failed"
      BY <1>1, <2>3, OthersDoNotFail
    <3> QED BY <3>1, <2>0, <1>2, <1>3
  <2>4. CASE \E outcome : Ends(p, outcome)
    BY <2>0, <2>4, <1>2, <1>3, <1>4 DEF Ends
  <2>5. CASE ReloadBegins(p)
    BY <2>0, <2>5, <1>2, <1>3, <1>4 DEF ReloadBegins, Begins
  <2>6. CASE Swap(p) \/ LoadFails(p) \/ LoadTimesOut(p) \/ ReloadAbandoned(p)
    BY <2>6, <2>4 DEF Swap, LoadFails, LoadTimesOut, ReloadAbandoned
  <2> QED BY <1>5, <2>1, <2>2, <2>3, <2>5, <2>6 DEF Loading, LoadStep
<1>6. CASE RefreshBegins
  <2>1. Refresh \in Loaders
    BY SchemaAssumption
  <2> QED BY <1>6, <2>1, <1>2, <1>3, <1>4 DEF RefreshBegins, Begins
<1>7. CASE UNCHANGED <<load, version>>
  BY <1>7, <1>2
<1>8. CASE \E p \in Loaders : Loading(p)
  BY <1>8, <1>5
<1>9. CASE \E r \in Requests : RequestArrives(r) \/ RequestWakes(r) \/ RequestGivesUp(r)
  <2>1. PICK r \in Requests : RequestArrives(r) \/ RequestWakes(r) \/ RequestGivesUp(r)
    BY <1>9
  <2>2. UNCHANGED reflectVars
    <3>1. CASE RequestArrives(r)
      <4>1. source \in {"None", "Bundled", "Reflection", "ReflectionOrBundled"}
        BY SchemaAssumption DEF SchemaInv, RestOK
      <4> QED BY <3>1, <4>1 DEF RequestArrives, Takes
    <3>2. CASE RequestWakes(r) \/ RequestGivesUp(r)
      BY <3>2 DEF RequestWakes, RequestGivesUp, Takes
    <3> QED BY <2>1, <3>1, <3>2
  <2> QED BY <2>2, <1>7 DEF reflectVars
<1>10. CASE Settled \/ UNCHANGED vars
  BY <1>10, <1>7 DEF Settled, vars, reflectVars
<1>11. CASE UpstreamChanges
  BY <1>11, <1>2 DEF UpstreamChanges
<1> QED BY <1>6, <1>8, <1>9, <1>10, <1>11 DEF Next

\* When each version of the upstream's schema is one, a load fails only if the upstream
\* failed it or changed since it began: the driver asks for every import and waits for
\* every answer, and topo_sort puts each file after its imports. Of a load that a change
\* cuts across nothing is promised: the pool may refuse what it got.
THEOREM FailsForCause == ASSUME Serves PROVE Spec => []LoadFailsForCause
<1>1. Init => LoadFailsForCause
  BY DEF Init, LoadFailsForCause, NoLoad
<1>2. SchemaInv /\ LoadFailsForCause /\ [Next]_vars => LoadFailsForCause'
  BY FailedStep
<1> QED BY <1>1, <1>2, SchemaHolds, PTL DEF Spec
=============================================================================
