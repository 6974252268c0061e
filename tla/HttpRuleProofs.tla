--------------------------- MODULE HttpRuleProofs ---------------------------
(***************************************************************************)
(* Proofs about HttpRule: matching a path against a template, and building *)
(* a message, are what their declarative readings say, for every table of  *)
(* routes and every request.                                               *)
(***************************************************************************)
EXTENDS HttpRule, Inductions, SequenceTheorems

-----------------------------------------------------------------------------
(* FlattenSeq, as sums from the left                                       *)

\* f has the sums of the first k sequences, one after the other.
Sums(S, s, f) ==
  /\ f \in [0 .. Len(s) -> Seq(S)] /\ f[0] = <<>>
  /\ \A k \in 1 .. Len(s) : f[k] = f[k - 1] \o s[k]

\* A sequence of sequences has such sums.
LEMMA SumsExist ==
  ASSUME NEW S, NEW s \in Seq(Seq(S))
  PROVE  \E f : Sums(S, s, f)
<1> DEFINE n == Len(s)
           step == [k \in Nat |-> [x \in Seq(S) |-> IF k \in 1 .. n THEN x \o s[k] ELSE x]]
<1>1. n \in Nat /\ <<>> \in Seq(S)
  OBVIOUS
<1>2. \A k \in 1 .. n : s[k] \in Seq(S)
  BY ElementOfSeq
<1> HIDE DEF n
<1>3. step \in [Nat -> [Seq(S) -> Seq(S)]]
  <2>1. ASSUME NEW k \in Nat, NEW x \in Seq(S)
        PROVE  (IF k \in 1 .. n THEN x \o s[k] ELSE x) \in Seq(S)
    BY <2>1, <1>2, ConcatProperties
  <2> QED BY <2>1
<1>4. PICK f \in [0 .. n -> Seq(S)] : f[0] = <<>> /\ \A k \in 1 .. n : f[k] = step[k][f[k - 1]]
  <2> HIDE DEF step
  <2>1. Defined(Seq(S), <<>>, step, n)
    BY <1>1, <1>3, Recursion
  <2> QED BY <2>1 DEF Defined
<1>5. ASSUME NEW k \in 1 .. n PROVE f[k] = f[k - 1] \o s[k]
  <2>1. k \in Nat /\ k - 1 \in 0 .. n
    BY <1>1
  <2>2. f[k - 1] \in Seq(S)
    BY <2>1
  <2>3. f[k] = step[k][f[k - 1]]
    BY <1>4
  <2>4. step[k] = [x \in Seq(S) |-> IF k \in 1 .. n THEN x \o s[k] ELSE x]
    BY <2>1, Zenon DEF step
  <2> HIDE DEF step
  <2> QED BY <2>2, <2>3, <2>4
<1> QED BY <1>4, <1>5 DEF Sums, n

\* FlattenSeq is the last of them.
LEMMA FlattenIs ==
  ASSUME NEW S, NEW s \in Seq(Seq(S)), NEW f, Sums(S, s, f)
  PROVE  FlattenSeq(s) = f[Len(s)]
<1> DEFINE n == Len(s)
<1>1. n \in Nat /\ \A k \in 1 .. n : s[k] \in Seq(S)
  BY LenProperties, ElementOfSeq
<1>2. f \in [0 .. n -> Seq(S)] /\ f[0] = <<>> /\ \A k \in 1 .. n : f[k] = f[k - 1] \o s[k]
  BY DEF Sums
<1>3. CASE n = 0
  BY <1>2, <1>3 DEF FlattenSeq
<1>4. CASE n # 0
  <2> DEFINE v == CHOOSE v : v = [i \in 1 .. n |-> IF i = 1 THEN s[i] ELSE v[i - 1] \o s[i]]
             g == [i \in 1 .. n |-> f[i]]
  <2>1. FlattenSeq(s) = v[n]
    BY <1>4 DEF FlattenSeq
  <2> HIDE DEF n
  <2>2. 1 \in 1 .. n
    BY <1>1, <1>4
  <2>3. f[1] = s[1]
    <3>1. f[1] = f[1 - 1] \o s[1]
      BY <2>2, <1>2
    <3>2. 1 - 1 = 0 /\ s[1] \in Seq(S)
      BY <2>2, <1>1
    <3>3. f[1] = <<>> \o s[1]
      BY <3>1, <3>2, <1>2
    <3> QED BY <3>2, <3>3, ConcatEmptySeq
  <2>4. ASSUME NEW i \in 1 .. n PROVE g[i] = IF i = 1 THEN s[i] ELSE g[i - 1] \o s[i]
    <3>1. CASE i = 1
      BY <2>3, <3>1
    <3>2. CASE i # 1
      <4>1. i - 1 \in 1 .. n
        BY <1>1, <3>2
      <4>2. g[i] = f[i] /\ g[i - 1] = f[i - 1] /\ f[i] = f[i - 1] \o s[i]
        BY <4>1, <1>2
      <4> QED BY <4>2, <3>2
    <3> QED BY <3>1, <3>2
  <2>5. g = [i \in 1 .. n |-> IF i = 1 THEN s[i] ELSE g[i - 1] \o s[i]]
    BY <2>4
  <2> HIDE DEF g
  <2>6. v = [i \in 1 .. n |-> IF i = 1 THEN s[i] ELSE v[i - 1] \o s[i]]
    BY <2>5
  <2> HIDE DEF v
  <2> DEFINE same == [k \in 0 .. n |-> k = 0 \/ v[k] = f[k]]
  <2>7. ASSUME NEW k \in 1 .. n, same[k - 1] \in {TRUE} PROVE same[k] \in {TRUE}
    <3>0. v[k] = IF k = 1 THEN s[k] ELSE v[k - 1] \o s[k]
      BY <2>6
    <3>1. CASE k = 1
      <4>1. v[k] = f[k] /\ k \in 0 .. n
        BY <3>0, <3>1, <2>3, <1>1
      <4> HIDE DEF n
      <4> QED BY <4>1
    <3>2. CASE k # 1
      <4>1. k - 1 \in 0 .. n /\ k - 1 # 0 /\ k \in 0 .. n
        BY <3>2, <1>1
      <4>2. same[k - 1] = (k - 1 = 0 \/ v[k - 1] = f[k - 1])
        BY <4>1
      <4>3. v[k - 1] = f[k - 1]
        BY <4>1, <4>2, <2>7
      <4>4. v[k] = f[k]
        BY <4>3, <3>0, <3>2, <1>2
      <4> QED BY <4>1, <4>4
    <3> QED BY <3>1, <3>2
  <2>8. 0 \in 0 .. n /\ n \in 0 .. n
    BY <1>1
  <2>9. same[0] \in {TRUE}
    BY <2>8
  <2> HIDE DEF same
  <2>10. \A k \in 0 .. n : same[k] \in {TRUE}
    BY <2>7, <2>9, <1>1, HandedOn
  <2>11. v[n] = f[n]
    BY <2>10, <2>8, <1>4 DEF same
  <2> QED BY <2>1, <2>11 DEF n
<1> QED BY <1>3, <1>4

\* A flattened sequence of sequences is a sequence of their elements.
LEMMA FlattenType ==
  ASSUME NEW S, NEW s \in Seq(Seq(S))
  PROVE  FlattenSeq(s) \in Seq(S)
<1>1. PICK f : Sums(S, s, f)
  BY SumsExist
<1>2. Len(s) \in 0 .. Len(s)
  BY LenProperties
<1>3. f[Len(s)] \in Seq(S)
  BY <1>1, <1>2 DEF Sums
<1>4. FlattenSeq(s) = f[Len(s)]
  BY <1>1, FlattenIs
<1> QED BY <1>3, <1>4

-----------------------------------------------------------------------------
(* Matching: how far the segments have come                                *)

MatchState == [ok : BOOLEAN, i : Nat \ {0}, vars : Pairs]
Start == [ok |-> TRUE, i |-> 1, vars |-> <<>>]

\* A segment keeps the type of the state (match_segments, one turn).
LEMMA SegmentType ==
  ASSUME NEW seg \in Segment, NEW parts \in Names, NEW p \in MatchState
  PROVE  match_segment(seg, parts, p) \in MatchState
<1> DEFINE Take(v, next) ==
             [ok |-> TRUE, i |-> next, vars |-> Append(p.vars, [field |-> seg.field, value |-> v])]
<1>1. p.ok \in BOOLEAN /\ p.i \in Nat \ {0} /\ p.vars \in Pairs /\ Len(parts) \in Nat
  BY DEF MatchState, Names
<1>2. ASSUME seg.kind # "literal", NEW v \in Names, NEW next \in Nat \ {0}
      PROVE  Take(v, next) \in MatchState
  <2>1. [field |-> seg.field, value |-> v] \in [field : Names, value : Names]
    BY <1>2 DEF Segment
  <2>2. Append(p.vars, [field |-> seg.field, value |-> v]) \in Pairs
    BY <1>1, <2>1, AppendProperties DEF Pairs
  <2> QED BY <2>2, <1>2 DEF MatchState
<1>3. [p EXCEPT !.i = @ + 1] \in MatchState /\ [p EXCEPT !.ok = FALSE] \in MatchState
  <2>1. p.i + 1 \in Nat \ {0} /\ FALSE \in BOOLEAN
    BY <1>1
  <2>2. [p EXCEPT !.i = p.i + 1] \in MatchState
    BY <2>1 DEF MatchState
  <2>3. [p EXCEPT !.ok = FALSE] \in MatchState
    BY <2>1 DEF MatchState
  <2> QED BY <2>2, <2>3
<1>4. p.i <= Len(parts) => <<parts[p.i]>> \in Names
  BY <1>1 DEF Names
<1>5. SubSeq(parts, p.i, Len(parts)) \in Names
  BY <1>1 DEF Names
<1>6. p.i + 1 \in Nat \ {0} /\ Len(parts) + 1 \in Nat \ {0}
  BY <1>1
<1> DEFINE r == match_segment(seg, parts, p)
<1>7. \/ r = [p EXCEPT !.i = @ + 1] \/ r = [p EXCEPT !.ok = FALSE]
      \/ seg.kind = "single" /\ p.i <= Len(parts) /\ r = Take(<<parts[p.i]>>, p.i + 1)
      \/ seg.kind = "rest" /\ r = Take(SubSeq(parts, p.i, Len(parts)), Len(parts) + 1)
  BY DEF match_segment
<1> HIDE DEF r, Take
<1>8. r \in MatchState
  BY <1>2, <1>3, <1>4, <1>5, <1>6, <1>7
<1> QED BY <1>8 DEF r

\* f has the states of match_segments, one after each segment.
Matching(segs, parts, f) ==
  /\ f \in [0 .. Len(segs) -> MatchState] /\ f[0] = Start
  /\ \A k \in 1 .. Len(segs) : f[k] = match_segment(segs[k], parts, f[k - 1])

\* The loop has such states.
LEMMA MatchingExists ==
  ASSUME NEW segs \in Seq(Segment), NEW parts \in Names
  PROVE  \E f : Matching(segs, parts, f)
<1> DEFINE n == Len(segs)
           step == [k \in Nat |-> [p \in MatchState |->
                      IF k \in 1 .. n THEN match_segment(segs[k], parts, p) ELSE p]]
<1>1. n \in Nat /\ \A k \in 1 .. n : segs[k] \in Segment
  BY LenProperties, ElementOfSeq
<1>2. Start \in MatchState
  BY DEF Start, MatchState, Pairs
<1> HIDE DEF n
<1>3. step \in [Nat -> [MatchState -> MatchState]]
  <2>1. ASSUME NEW k \in Nat, NEW p \in MatchState
        PROVE  (IF k \in 1 .. n THEN match_segment(segs[k], parts, p) ELSE p) \in MatchState
    BY <2>1, <1>1, SegmentType
  <2> QED BY <2>1
<1>4. PICK f \in [0 .. n -> MatchState] : f[0] = Start /\ \A k \in 1 .. n : f[k] = step[k][f[k - 1]]
  <2> HIDE DEF step
  <2>1. Defined(MatchState, Start, step, n)
    BY <1>1, <1>2, <1>3, Recursion
  <2> QED BY <2>1 DEF Defined
<1>5. ASSUME NEW k \in 1 .. n PROVE f[k] = match_segment(segs[k], parts, f[k - 1])
  <2>1. k \in Nat /\ k - 1 \in 0 .. n
    BY <1>1
  <2>2. f[k - 1] \in MatchState
    BY <2>1
  <2>3. f[k] = step[k][f[k - 1]]
    BY <1>4
  <2>4. step[k] = [p \in MatchState |-> IF k \in 1 .. n THEN match_segment(segs[k], parts, p) ELSE p]
    BY <2>1, Zenon DEF step
  <2> HIDE DEF step
  <2> QED BY <2>2, <2>3, <2>4
<1> QED BY <1>4, <1>5 DEF Matching, n

\* What match_segments gives is read from the last of them.
LEMMA MatchingIs ==
  ASSUME NEW segs \in Seq(Segment), NEW parts, NEW f, Matching(segs, parts, f)
  PROVE  LET whole == f[Len(segs)] IN
           match_segments(segs, parts) =
             IF whole.ok /\ whole.i = Len(parts) + 1 THEN [ok |-> TRUE, vars |-> whole.vars] ELSE NoMatch
<1> DEFINE n == Len(segs)
           v == CHOOSE v : v = [k \in 0 .. n |->
                  IF k = 0 THEN [ok |-> TRUE, i |-> 1, vars |-> <<>>]
                  ELSE match_segment(segs[k], parts, v[k - 1])]
<1>1. n \in Nat
  BY LenProperties
<1>2. match_segments(segs, parts) =
        IF v[n].ok /\ v[n].i = Len(parts) + 1 THEN [ok |-> TRUE, vars |-> v[n].vars] ELSE NoMatch
  BY DEF match_segments
<1>3. f = [k \in 0 .. n |->
             IF k = 0 THEN [ok |-> TRUE, i |-> 1, vars |-> <<>>]
             ELSE match_segment(segs[k], parts, f[k - 1])]
  <2>1. f = [k \in 0 .. n |-> f[k]]
    BY DEF Matching
  <2>2. ASSUME NEW k \in 0 .. n
        PROVE  f[k] = IF k = 0 THEN [ok |-> TRUE, i |-> 1, vars |-> <<>>]
                      ELSE match_segment(segs[k], parts, f[k - 1])
    <3>1. k = 0 \/ k \in 1 .. n
      BY <1>1
    <3> QED BY <3>1 DEF Matching, Start
  <2> QED BY <2>1, <2>2
<1>4. v = [k \in 0 .. n |->
             IF k = 0 THEN [ok |-> TRUE, i |-> 1, vars |-> <<>>]
             ELSE match_segment(segs[k], parts, v[k - 1])]
  BY <1>3
<1> HIDE DEF v, n
<1>5. v[0] = f[0]
  BY <1>1, <1>3, <1>4
<1>6. ASSUME NEW k \in 1 .. n, v[k - 1] = f[k - 1] PROVE v[k] = f[k]
  <2>1. k \in 0 .. n /\ k # 0
    BY <1>1
  <2>2. /\ v[k] = match_segment(segs[k], parts, v[k - 1])
        /\ f[k] = match_segment(segs[k], parts, f[k - 1])
    BY <2>1, <1>3, <1>4
  <2> QED BY <2>2, <1>6
<1>7. \A k \in 0 .. n : v[k] = f[k]
  <2>1. \A k \in 1 .. n : v[k - 1] = f[k - 1] => v[k] = f[k]
    BY <1>6
  <2> QED BY <1>1, <1>5, <2>1, Alike, ZenonT(60)
<1>8. v[n] = f[n]
  BY <1>1, <1>7
<1> QED BY <1>2, <1>8 DEF n

-----------------------------------------------------------------------------
(* Matching, declaratively. A template whose rest is last cuts a path in   *)
(* one way only: a part to each segment, what is left to the rest.         *)

HasRest(segs) == Len(segs) # 0 /\ segs[Len(segs)].kind = "rest"
\* A part to each segment, and what is left to a rest.
TheCut(segs, parts) ==
  [k \in 0 .. Len(segs) |->
     IF (k = Len(segs) /\ HasRest(segs)) \/ k > Len(parts) THEN Len(parts) ELSE k]

\* What a segment binds under a cut.
Given(segs, parts, cut, k) ==
  IF segs[k].kind = "literal" THEN <<>>
  ELSE <<[field |-> segs[k].field, value |-> SubSeq(parts, cut[k - 1] + 1, cut[k])]>>

\* The path agrees with the first k segments; p says how far they have come.
Agrees(segs, parts, k) ==
  k <= Len(parts) /\ \A j \in 1 .. k : segs[j].kind = "literal" => parts[j] = segs[j].text
Come(segs, parts, sums, k, p) ==
  /\ p.ok <=> Agrees(segs, parts, k)
  /\ p.ok => p.i = k + 1 /\ p.vars = sums[k]

\* A slice of one part is that part.
LEMMA OnePart ==
  ASSUME NEW S, NEW s \in Seq(S), NEW k \in 1 .. Len(s)
  PROVE  SubSeq(s, k, k) = <<s[k]>>
<1> DEFINE t == SubSeq(s, k, k)
<1>1. k \in Nat /\ Len(s) \in Nat /\ s[k] \in S
  OBVIOUS
<1>2. t \in Seq(S) /\ Len(t) = 1 /\ t[1] = s[k]
  BY <1>1
<1> HIDE DEF t
<1>3. t = <<s[k]>>
  BY <1>1, <1>2
<1> QED BY <1>3 DEF t

\* What a segment binds is a sequence of pairs.
LEMMA GivenType ==
  ASSUME NEW segs \in Seq(Segment), NEW parts \in Names, NEW cut \in [0 .. Len(segs) -> 0 .. Len(parts)],
         NEW k \in 1 .. Len(segs)
  PROVE  Given(segs, parts, cut, k) \in Pairs
<1>1. segs[k] \in Segment /\ Len(segs) \in Nat /\ Len(parts) \in Nat
  BY ElementOfSeq, LenProperties DEF Names
<1>2. cut[k] \in 0 .. Len(parts) /\ cut[k - 1] \in 0 .. Len(parts)
  BY <1>1
<1>3. SubSeq(parts, cut[k - 1] + 1, cut[k]) \in Names
  BY <1>1, <1>2 DEF Names
<1>4. CASE segs[k].kind = "literal"
  BY <1>4 DEF Given, Pairs
<1>5. CASE segs[k].kind # "literal"
  <2>1. segs[k].field \in Names
    BY <1>1, <1>5 DEF Segment
  <2> DEFINE q == [field |-> segs[k].field, value |-> SubSeq(parts, cut[k - 1] + 1, cut[k])]
  <2>2. q \in [field : Names, value : Names]
    BY <2>1, <1>3
  <2> HIDE DEF q
  <2>3. <<q>> \in Pairs
    BY <2>2 DEF Pairs
  <2> QED BY <2>3, <1>5 DEF Given, q
<1> QED BY <1>4, <1>5

\* A segment that is not a rest takes the next part, if it is the one it names.
LEMMA ComesOn ==
  ASSUME NEW segs \in Seq(Segment), NEW parts \in Names, NEW sums, NEW k \in 1 .. Len(segs),
         NEW p \in MatchState, segs[k].kind # "rest", Come(segs, parts, sums, k - 1, p),
         sums[k - 1] \in Pairs, NEW cut, k <= Len(parts) => cut[k - 1] = k - 1 /\ cut[k] = k,
         sums[k] = sums[k - 1] \o Given(segs, parts, cut, k)
  PROVE  Come(segs, parts, sums, k, match_segment(segs[k], parts, p))
<1> DEFINE seg == segs[k]
           r == match_segment(seg, parts, p)
           n == Len(parts)
<1>1. n \in Nat /\ k \in Nat /\ k > 0 /\ seg \in Segment
  BY ElementOfSeq, LenProperties DEF Names
<1>2. p.ok \in BOOLEAN /\ p.i \in Nat
  BY DEF MatchState
<1>3. p.ok <=> Agrees(segs, parts, k - 1)
  BY DEF Come
<1>4. p.ok => p.i = k /\ p.vars = sums[k - 1]
  BY <1>1 DEF Come
<1>5. Agrees(segs, parts, k) <=>
        Agrees(segs, parts, k - 1) /\ k <= n /\ (seg.kind = "literal" => parts[k] = seg.text)
  <2>1. \A j : j \in 1 .. k <=> j \in 1 .. (k - 1) \/ j = k
    BY <1>1
  <2>2. k <= n => k - 1 <= n
    BY <1>1
  <2> QED BY <2>1, <2>2 DEF Agrees
<1>6. CASE p.ok /\ k <= n /\ seg.kind = "literal"
  <2>1. Given(segs, parts, cut, k) = <<>> /\ sums[k] = sums[k - 1]
    BY <1>6, ConcatEmptySeq DEF Given, Pairs
  <2>2. CASE parts[k] = seg.text
    <3>1. r = [p EXCEPT !.i = p.i + 1]
      BY <1>6, <2>2, <1>4 DEF match_segment
    <3>2. r.ok /\ r.i = k + 1 /\ r.vars = sums[k]
      BY <3>1, <1>4, <1>6, <2>1 DEF MatchState
    <3>3. Agrees(segs, parts, k)
      BY <1>3, <1>5, <1>6, <2>2
    <3> QED BY <3>2, <3>3 DEF Come
  <2>3. CASE parts[k] # seg.text
    <3>1. r = [p EXCEPT !.ok = FALSE]
      BY <1>6, <2>3, <1>4 DEF match_segment
    <3>2. ~r.ok
      BY <3>1 DEF MatchState
    <3> QED BY <3>2, <1>5, <1>6, <2>3 DEF Come
  <2> QED BY <2>2, <2>3
<1>7. CASE p.ok /\ k <= n /\ seg.kind # "literal"
  <2> DEFINE pair == [field |-> seg.field, value |-> <<parts[k]>>]
  <2>1. seg.kind = "single"
    BY <1>1, <1>7 DEF Segment
  <2>2. r = [ok |-> TRUE, i |-> k + 1, vars |-> Append(p.vars, pair)]
    BY <2>1, <1>4, <1>7 DEF match_segment
  <2>3. SubSeq(parts, cut[k - 1] + 1, cut[k]) = <<parts[k]>>
    <3>1. cut[k - 1] + 1 = k /\ cut[k] = k
      BY <1>1, <1>7
    <3>2. SubSeq(parts, k, k) = <<parts[k]>>
      BY <1>1, <1>7, OnePart DEF Names
    <3> QED BY <3>1, <3>2
  <2>4. Given(segs, parts, cut, k) = <<pair>>
    BY <2>1, <2>3 DEF Given
  <2>5. pair \in [field : Names, value : Names]
    <3>1. <<parts[k]>> \in Names
      BY <1>1, <1>7 DEF Names
    <3>2. seg.field \in Names
      BY <1>1, <2>1 DEF Segment
    <3> QED BY <3>1, <3>2
  <2> HIDE DEF pair
  <2>6. Append(sums[k - 1], pair) = sums[k - 1] \o <<pair>>
    BY <2>5, AppendIsConcat DEF Pairs
  <2>7. r.ok /\ r.i = k + 1 /\ r.vars = sums[k]
    <3> DEFINE v == Append(p.vars, pair)
               next == k + 1
    <3>1. p.vars = sums[k - 1]
      BY <1>4, <1>7
    <3>2. v = sums[k]
      BY <2>4, <2>6, <3>1
    <3>3. r = [ok |-> TRUE, i |-> next, vars |-> v]
      BY <2>2
    <3> HIDE DEF r, v, next
    <3>4. r.ok /\ r.i = next /\ r.vars = v
      BY <3>3
    <3> QED BY <3>2, <3>4 DEF next
  <2>8. Agrees(segs, parts, k)
    BY <1>3, <1>5, <1>7
  <2> QED BY <2>7, <2>8 DEF Come
<1>8. CASE ~(p.ok /\ k <= n)
  <2>1. r = [p EXCEPT !.ok = FALSE]
    BY <1>2, <1>4, <1>8 DEF match_segment
  <2>2. ~r.ok
    BY <2>1 DEF MatchState
  <2>3. ~Agrees(segs, parts, k)
    BY <1>3, <1>5, <1>8
  <2> QED BY <2>2, <2>3 DEF Come
<1> QED BY <1>6, <1>7, <1>8

\* The segments before the rest, and whether a path has a cut.
Plain(segs) == IF HasRest(segs) THEN Len(segs) - 1 ELSE Len(segs)
Fitting(segs, parts) ==
  Agrees(segs, parts, Plain(segs)) /\ (~HasRest(segs) => Len(segs) = Len(parts))

LEMMA PlainIs ==
  ASSUME NEW segs \in Seq(Segment), RestIsLast(segs), NEW parts \in Names
  PROVE  /\ Len(segs) \in Nat /\ Len(parts) \in Nat /\ Plain(segs) \in 0 .. Len(segs)
         /\ HasRest(segs) => Len(segs) > 0 /\ Plain(segs) = Len(segs) - 1
         /\ ~HasRest(segs) => Plain(segs) = Len(segs)
         /\ \A k \in 1 .. Len(segs) : segs[k].kind = "rest" <=> HasRest(segs) /\ k = Len(segs)
<1>1. Len(segs) \in Nat /\ Len(parts) \in Nat /\ DOMAIN segs = 1 .. Len(segs)
  BY LenProperties DEF Names
<1>2. HasRest(segs) => Len(segs) > 0 /\ Plain(segs) = Len(segs) - 1
  BY <1>1 DEF HasRest, Plain
<1>3. ASSUME NEW k \in 1 .. Len(segs)
      PROVE  segs[k].kind = "rest" <=> HasRest(segs) /\ k = Len(segs)
  <2>1. segs[k].kind = "rest" => k = Len(segs)
    BY <1>1 DEF RestIsLast
  <2>2. Len(segs) # 0
    BY <1>1
  <2> QED BY <2>1, <2>2 DEF HasRest
<1>4. Plain(segs) \in 0 .. Len(segs) /\ (~HasRest(segs) => Plain(segs) = Len(segs))
  <2>1. CASE HasRest(segs)
    BY <2>1, <1>1, <1>2
  <2>2. CASE ~HasRest(segs)
    BY <2>2, <1>1 DEF Plain
  <2> QED BY <2>1, <2>2
<1> QED BY <1>1, <1>2, <1>3, <1>4

\* The cut cuts within the path.
LEMMA TheCutType ==
  ASSUME NEW segs \in Seq(Segment), NEW parts \in Names
  PROVE  TheCut(segs, parts) \in [0 .. Len(segs) -> 0 .. Len(parts)]
<1>1. Len(segs) \in Nat /\ Len(parts) \in Nat
  BY LenProperties DEF Names
<1> QED BY <1>1 DEF TheCut

\* There is no other cut.
LEMMA CutIs ==
  ASSUME NEW segs \in Seq(Segment), RestIsLast(segs), NEW parts \in Names, NEW c \in Cuts(segs, parts)
  PROVE  c = TheCut(segs, parts) /\ Fitting(segs, parts)
<1> DEFINE n == Len(segs)
           m == Len(parts)
           l == Plain(segs)
           id == [k \in 0 .. n |-> k]
<1>1. /\ n \in Nat /\ m \in Nat /\ l \in 0 .. n /\ l \in Nat
      /\ HasRest(segs) => n > 0 /\ l = n - 1
      /\ ~HasRest(segs) => l = n
      /\ DOMAIN segs = 1 .. n
  BY PlainIs, LenProperties
<1>2. \A k \in 1 .. n : segs[k].kind = "rest" <=> HasRest(segs) /\ k = n
  BY PlainIs
<1>3. /\ c \in [0 .. n -> 0 .. m] /\ c[0] = 0 /\ c[n] = m
      /\ \A k \in 1 .. n : /\ segs[k].kind # "rest" => c[k] = c[k - 1] + 1
                           /\ segs[k].kind = "literal" => parts[c[k]] = segs[k].text
  BY <1>1 DEF Cuts
<1> HIDE DEF n, m, l
<1>4. \A k \in 0 .. l : c[k] = id[k]
  <2>1. c[0] = id[0]
    BY <1>1, <1>3
  <2>2. ASSUME NEW k \in 1 .. l, c[k - 1] = id[k - 1] PROVE c[k] = id[k]
    <3>1. k \in 1 .. n /\ k - 1 \in 0 .. n /\ k \in 0 .. n
      BY <1>1
    <3>2. segs[k].kind # "rest"
      BY <3>1, <1>1, <1>2
    <3>3. c[k] = c[k - 1] + 1
      BY <3>1, <3>2, <1>3
    <3> QED BY <3>1, <3>3, <2>2
  <2> HIDE DEF id
  <2> QED BY <2>1, <2>2, <1>1, Alike
<1>5. \A k \in 0 .. l : c[k] = k /\ k <= m
  <2>1. ASSUME NEW k \in 0 .. l PROVE c[k] = k /\ k <= m
    <3>1. k \in 0 .. n
      BY <1>1
    <3>2. c[k] = k /\ c[k] \in 0 .. m
      BY <3>1, <1>3, <1>4
    <3> QED BY <3>2, <1>1
  <2> QED BY <2>1
<1>6. Agrees(segs, parts, l)
  <2>1. l <= m
    BY <1>5, <1>1
  <2>2. ASSUME NEW j \in 1 .. l, segs[j].kind = "literal" PROVE parts[j] = segs[j].text
    <3>1. j \in 1 .. n /\ j \in 0 .. l
      BY <1>1
    <3> QED BY <3>1, <2>2, <1>3, <1>5
  <2> QED BY <2>1, <2>2 DEF Agrees, m
<1>7. ~HasRest(segs) => n = m
  BY <1>1, <1>3, <1>5
<1>8. ASSUME NEW k \in 0 .. n PROVE c[k] = TheCut(segs, parts)[k]
  <2>1. TheCut(segs, parts)[k] = IF (k = n /\ HasRest(segs)) \/ k > m THEN m ELSE k
    BY DEF TheCut, n, m
  <2>2. CASE k \in 0 .. l
    <3>1. k = n /\ HasRest(segs) => FALSE
      BY <2>2, <1>1
    <3> QED BY <3>1, <2>1, <2>2, <1>1, <1>5
  <2>3. CASE k \notin 0 .. l
    <3>1. k = n /\ HasRest(segs)
      BY <2>3, <1>1
    <3> QED BY <3>1, <2>1, <1>3
  <2> QED BY <2>2, <2>3
<1>9. c = TheCut(segs, parts)
  <2> DEFINE t == TheCut(segs, parts)
  <2>1. t \in [0 .. n -> 0 .. m]
    BY TheCutType DEF n, m
  <2>2. \A k \in 0 .. n : c[k] = t[k]
    BY <1>8
  <2>3. c \in [0 .. n -> 0 .. m]
    BY <1>3
  <2> HIDE DEF t
  <2>4. c = [k \in 0 .. n |-> c[k]] /\ t = [k \in 0 .. n |-> t[k]]
    BY <2>1, <2>3
  <2>5. [k \in 0 .. n |-> c[k]] = [k \in 0 .. n |-> t[k]]
    BY <2>2
  <2>6. c = t
    BY <2>4, <2>5, Zenon
  <2> QED BY <2>6 DEF t
<1> QED BY <1>6, <1>7, <1>9 DEF Fitting, n, m, l

\* Where the path fits a template, that one cut is allowed.
LEMMA FittingCuts ==
  ASSUME NEW segs \in Seq(Segment), RestIsLast(segs), NEW parts \in Names, Fitting(segs, parts)
  PROVE  TheCut(segs, parts) \in Cuts(segs, parts)
<1> DEFINE n == Len(segs)
           m == Len(parts)
           l == Plain(segs)
           c == TheCut(segs, parts)
<1>1. /\ n \in Nat /\ m \in Nat /\ l \in 0 .. n /\ l \in Nat
      /\ HasRest(segs) => n > 0 /\ l = n - 1
      /\ ~HasRest(segs) => l = n
      /\ DOMAIN segs = 1 .. n
  BY PlainIs, LenProperties
<1>2. \A k \in 1 .. n : segs[k].kind = "rest" <=> HasRest(segs) /\ k = n
  BY PlainIs
<1>3. c \in [0 .. n -> 0 .. m]
  BY TheCutType
<1>4. /\ l <= m /\ \A j \in 1 .. l : segs[j].kind = "literal" => parts[j] = segs[j].text
      /\ ~HasRest(segs) => n = m
  BY DEF Fitting, Agrees
<1>5. \A k \in 0 .. n : c[k] = IF (k = n /\ HasRest(segs)) \/ k > m THEN m ELSE k
  BY DEF TheCut
<1> HIDE DEF c, n, m, l
<1>6. \A k \in 0 .. l : c[k] = k
  BY <1>1, <1>4, <1>5
<1>7. c[0] = 0 /\ c[n] = m
  BY <1>1, <1>4, <1>5
<1>8. ASSUME NEW k \in 1 .. n
      PROVE  /\ c[k - 1] <= c[k]
             /\ segs[k].kind # "rest" => c[k] = c[k - 1] + 1
             /\ segs[k].kind = "literal" => parts[c[k]] = segs[k].text
  <2>1. CASE k \in 1 .. l
    <3>1. k - 1 \in 0 .. l /\ k \in 0 .. l
      BY <2>1, <1>1
    <3>2. c[k] = k /\ c[k - 1] = k - 1
      BY <3>1, <1>6
    <3> QED BY <3>2, <2>1, <1>1, <1>4
  <2>2. CASE k \notin 1 .. l
    <3>1. k = n /\ HasRest(segs)
      BY <2>2, <1>1
    <3>2. segs[k].kind = "rest" /\ k - 1 \in 0 .. n
      BY <3>1, <1>1, <1>2
    <3>3. c[k] = m /\ c[k - 1] \in 0 .. m
      BY <3>1, <3>2, <1>3, <1>7
    <3> QED BY <3>2, <3>3, <1>1
  <2> QED BY <2>1, <2>2
<1>9. c \in Cuts(segs, parts)
  BY <1>1, <1>3, <1>7, <1>8 DEF Cuts, n, m
<1> QED BY <1>9 DEF c

\* What a path gives to a template it fits.
LEMMA PathPairsIs ==
  ASSUME NEW segs \in Seq(Segment), RestIsLast(segs), NEW parts \in Names, Fitting(segs, parts)
  PROVE  PathPairs(segs, parts)
           = FlattenSeq([k \in DOMAIN segs |-> Given(segs, parts, TheCut(segs, parts), k)])
<1> DEFINE cut == CHOOSE c \in Cuts(segs, parts) : TRUE
<1>1. cut \in Cuts(segs, parts)
  BY FittingCuts
<1> HIDE DEF cut
<1>2. cut = TheCut(segs, parts)
  BY <1>1, CutIs
<1>3. PathPairs(segs, parts) = FlattenSeq([k \in DOMAIN segs |-> Given(segs, parts, cut, k)])
  BY DEF PathPairs, Given, cut
<1> QED BY <1>2, <1>3

\* A path matches a template if it can be cut, and gives to each variable its part
\* (match_segments).
LEMMA MatchIs ==
  ASSUME NEW segs \in Seq(Segment), RestIsLast(segs), NEW parts \in Names
  PROVE  /\ match_segments(segs, parts).ok <=> Cuts(segs, parts) # {}
         /\ match_segments(segs, parts).ok =>
              /\ match_segments(segs, parts).vars = PathPairs(segs, parts)
              /\ PathPairs(segs, parts) \in Pairs
<1> DEFINE n == Len(segs)
           m == Len(parts)
           l == Plain(segs)
           cut == TheCut(segs, parts)
           pairs == [k \in DOMAIN segs |-> Given(segs, parts, cut, k)]
<1>1. /\ n \in Nat /\ m \in Nat /\ l \in 0 .. n /\ l \in Nat
      /\ HasRest(segs) => n > 0 /\ l = n - 1
      /\ ~HasRest(segs) => l = n
      /\ DOMAIN segs = 1 .. n
  BY PlainIs, LenProperties
<1>2. \A k \in 1 .. n : segs[k].kind = "rest" <=> HasRest(segs) /\ k = n
  BY PlainIs
<1>3. \A k \in 1 .. n : segs[k] \in Segment
  BY ElementOfSeq
<1>4. cut \in [0 .. n -> 0 .. m]
  BY TheCutType
<1>5. \A k \in 0 .. n : cut[k] = IF (k = n /\ HasRest(segs)) \/ k > m THEN m ELSE k
  BY DEF TheCut
<1>6. \A k \in 1 .. n : Given(segs, parts, cut, k) \in Pairs
  BY <1>4, GivenType
<1>7. pairs \in Seq(Pairs) /\ Len(pairs) = n
  <2> HIDE DEF cut
  <2>1. pairs \in [1 .. n -> Pairs]
    BY <1>1, <1>6
  <2> HIDE DEF pairs
  <2> QED BY <2>1, <1>1
<1>8. \A k \in 1 .. n : pairs[k] = Given(segs, parts, cut, k)
  BY <1>1
<1> HIDE DEF cut, pairs
<1>9. PICK sums : Sums([field : Names, value : Names], pairs, sums)
  BY <1>7, SumsExist DEF Pairs
<1>10. /\ sums \in [0 .. n -> Pairs] /\ sums[0] = <<>>
       /\ \A k \in 1 .. n : sums[k] = sums[k - 1] \o Given(segs, parts, cut, k)
  BY <1>7, <1>8, <1>9 DEF Sums, Pairs
<1>11. FlattenSeq(pairs) = sums[n]
  BY <1>7, <1>9, FlattenIs DEF Pairs
<1>12. PICK f : Matching(segs, parts, f)
  BY MatchingExists
<1>13. /\ f \in [0 .. n -> MatchState] /\ f[0] = Start
       /\ \A k \in 1 .. n : f[k] = match_segment(segs[k], parts, f[k - 1])
  BY <1>12 DEF Matching
<1> DEFINE whole == f[n]
<1>14. match_segments(segs, parts)
         = IF whole.ok /\ whole.i = m + 1 THEN [ok |-> TRUE, vars |-> whole.vars] ELSE NoMatch
  BY <1>12, MatchingIs
<1> HIDE DEF n, m, l
<1>15. \A k \in 0 .. l : Come(segs, parts, sums, k, f[k])
  <2> DEFINE come == [k \in 0 .. l |-> Come(segs, parts, sums, k, f[k])]
  <2>1. Come(segs, parts, sums, 0, f[0])
    <3>1. Agrees(segs, parts, 0)
      BY <1>1 DEF Agrees, m
    <3> QED BY <3>1, <1>10, <1>13 DEF Come, Start
  <2>2. ASSUME NEW k \in 1 .. l, Come(segs, parts, sums, k - 1, f[k - 1])
        PROVE  Come(segs, parts, sums, k, f[k])
    <3>1. k \in 1 .. n /\ k - 1 \in 0 .. n /\ k \in 0 .. n
      BY <1>1
    <3>2. segs[k].kind # "rest" /\ ~(k = n /\ HasRest(segs))
      BY <3>1, <1>1, <1>2
    <3>3. f[k - 1] \in MatchState /\ sums[k - 1] \in Pairs
      BY <3>1, <1>10, <1>13
    <3>4. k <= m => cut[k - 1] = k - 1 /\ cut[k] = k
      BY <3>1, <3>2, <1>1, <1>5
    <3>5. f[k] = match_segment(segs[k], parts, f[k - 1])
      BY <3>1, <1>13
    <3>6. sums[k] = sums[k - 1] \o Given(segs, parts, cut, k)
      BY <3>1, <1>10
    <3> QED BY <2>2, <3>1, <3>2, <3>3, <3>4, <3>5, <3>6, ComesOn DEF n, m
  <2>3. come[0] \in {TRUE}
    <3>1. 0 \in 0 .. l
      BY <1>1
    <3> QED BY <2>1, <3>1
  <2>4. ASSUME NEW k \in 1 .. l, come[k - 1] \in {TRUE} PROVE come[k] \in {TRUE}
    <3>1. k - 1 \in 0 .. l /\ k \in 0 .. l
      BY <1>1
    <3> QED BY <2>2, <2>4, <3>1
  <2> HIDE DEF come
  <2>5. \A k \in 0 .. l : come[k] \in {TRUE}
    BY <2>3, <2>4, <1>1, HandedOn
  <2> QED BY <2>5 DEF come
<1>16. /\ f[l].ok <=> Agrees(segs, parts, l)
       /\ f[l].ok => f[l].i = l + 1 /\ f[l].vars = sums[l]
  BY <1>1, <1>15 DEF Come
<1>17. /\ whole.ok /\ whole.i = m + 1 <=> Fitting(segs, parts)
       /\ whole.ok /\ whole.i = m + 1 => whole.vars = sums[n]
  <2>1. CASE ~HasRest(segs)
    <3>1. l = n /\ whole = f[l]
      BY <2>1, <1>1
    <3>2. whole.ok /\ whole.i = m + 1 <=> Agrees(segs, parts, l) /\ n = m
      BY <3>1, <1>1, <1>16
    <3> QED BY <2>1, <3>1, <3>2, <1>16 DEF Fitting, l, n, m
  <2>2. CASE HasRest(segs)
    <3> DEFINE p == f[l]
               seg == segs[n]
               pair == [field |-> seg.field, value |-> SubSeq(parts, l + 1, m)]
    <3>1. l = n - 1 /\ n \in 1 .. n /\ l \in 0 .. n
      BY <2>2, <1>1
    <3>2. seg.kind = "rest" /\ seg \in Segment
      BY <3>1, <2>2, <1>2, <1>3
    <3>3. whole = match_segment(seg, parts, p) /\ p \in MatchState
      BY <3>1, <1>13
    <3>4. CASE p.ok
      <4>1. whole = [ok |-> TRUE, i |-> m + 1, vars |-> Append(p.vars, pair)]
        BY <3>2, <3>3, <3>4, <1>16 DEF match_segment, m
      <4>2. l <= m
        BY <3>4, <1>16 DEF Agrees, m
      <4>3. cut[n - 1] = l /\ cut[n] = m
        BY <4>2, <3>1, <2>2, <1>1, <1>5
      <4>4. Given(segs, parts, cut, n) = <<pair>>
        BY <4>3, <3>2 DEF Given
      <4>5. pair \in [field : Names, value : Names]
        <5>1. SubSeq(parts, l + 1, m) \in Names
          BY <4>2, <1>1 DEF Names, m
        <5>2. seg.field \in Names
          BY <3>2 DEF Segment
        <5> QED BY <5>1, <5>2
      <4> HIDE DEF pair
      <4>6. sums[l] \in Pairs
        BY <3>1, <1>10
      <4>7. Append(sums[l], pair) = sums[l] \o <<pair>>
        BY <4>5, <4>6, AppendIsConcat DEF Pairs
      <4>8. sums[n] = sums[l] \o <<pair>>
        BY <4>4, <3>1, <1>10
      <4>9. whole.ok /\ whole.i = m + 1 /\ whole.vars = sums[n]
        <5> DEFINE v == Append(p.vars, pair)
                   next == m + 1
        <5>1. p.vars = sums[l]
          BY <1>16, <3>4
        <5>2. v = sums[n]
          BY <4>7, <4>8, <5>1
        <5>3. whole = [ok |-> TRUE, i |-> next, vars |-> v]
          BY <4>1
        <5> HIDE DEF whole, v, next
        <5>4. whole.ok /\ whole.i = next /\ whole.vars = v
          BY <5>3
        <5> QED BY <5>2, <5>4 DEF next
      <4> QED BY <4>9, <3>4, <2>2, <1>16 DEF Fitting, l
    <3>5. CASE ~p.ok
      <4>1. whole = [p EXCEPT !.ok = FALSE]
        BY <3>2, <3>3, <3>5 DEF match_segment
      <4>2. ~whole.ok
        BY <4>1, <3>3 DEF MatchState
      <4> QED BY <4>2, <3>5, <1>16 DEF Fitting, l
    <3> QED BY <3>4, <3>5
  <2> QED BY <2>1, <2>2
<1>18. Fitting(segs, parts) <=> Cuts(segs, parts) # {}
  BY CutIs, FittingCuts
<1>19. Fitting(segs, parts) => PathPairs(segs, parts) = sums[n]
  BY <1>11, PathPairsIs DEF pairs, cut
<1>20. sums[n] \in Pairs
  BY <1>1, <1>10
<1> HIDE DEF whole
<1> QED BY <1>14, <1>17, <1>18, <1>19, <1>20 DEF NoMatch

-----------------------------------------------------------------------------
(* The table                                                               *)

Templates == {ss \in Seq(Segment) : RestIsLast(ss)}
Binding == [verb : STRING, segments : Templates, body : STRING, method : Names]

\* A rule gives at most one binding, its own.
LEMMA PushIs ==
  ASSUME NEW rule \in Pattern, RestIsLast(rule.segments), NEW method \in Names
  PROVE  push_binding(rule, method) \in Seq(Binding)
<1> DEFINE b == [verb |-> rule.verb, segments |-> rule.segments, body |-> rule.body, method |-> method]
<1>1. b \in Binding
  BY DEF Binding, Pattern, Templates
<1> HIDE DEF b
<1>2. <<b>> \in Seq(Binding) /\ <<>> \in Seq(Binding)
  BY <1>1
<1> QED BY <1>2 DEF push_binding, b

\* A method gives bindings, its own (collect_rule).
LEMMA CollectIs ==
  ASSUME NEW k \in DOMAIN Rules
  PROVE  collect_rule(Rules[k]) \in Seq(Binding)
<1> DEFINE m == Rules[k]
           rules == <<m.rule>> \o m.additional
           n == Len(rules)
           pushed == [j \in DOMAIN rules |-> push_binding(rules[j], m.method)]
<1>1. m \in [method : Names, rule : Pattern, additional : Seq(Pattern)]
  <2> DEFINE R == [method : Names, rule : Pattern, additional : Seq(Pattern)]
  <2>1. Rules \in Seq(R)
    BY RulesAssumption
  <2> HIDE DEF R
  <2>2. k \in 1 .. Len(Rules)
    BY <2>1, LenProperties
  <2>3. Rules[k] \in R
    BY <2>1, <2>2, ElementOfSeq
  <2> QED BY <2>3 DEF R
<1>2. /\ RestIsLast(m.rule.segments)
      /\ \A j \in DOMAIN m.additional : RestIsLast(m.additional[j].segments)
  BY RulesAssumption
<1> HIDE DEF m
<1>3. m.rule \in Pattern /\ m.additional \in Seq(Pattern) /\ m.method \in Names
  BY <1>1
<1>4. <<m.rule>> \in Seq(Pattern) /\ Len(<<m.rule>>) = 1 /\ <<m.rule>>[1] = m.rule
  BY <1>3
<1>5. /\ rules \in Seq(Pattern) /\ n \in Nat /\ DOMAIN rules = 1 .. n
      /\ n = 1 + Len(m.additional) /\ Len(m.additional) \in Nat
      /\ \A j \in 1 .. n : rules[j] = IF j <= 1 THEN <<m.rule>>[j] ELSE m.additional[j - 1]
  BY <1>3, <1>4, ConcatProperties, LenProperties
<1>6. ASSUME NEW j \in 1 .. n PROVE push_binding(rules[j], m.method) \in Seq(Binding)
  <2>1. rules[j] \in Pattern
    BY <1>5, ElementOfSeq
  <2>2. RestIsLast(rules[j].segments)
    <3>1. CASE j = 1
      BY <3>1, <1>2, <1>4, <1>5
    <3>2. CASE j # 1
      <4>1. j - 1 \in 1 .. Len(m.additional) /\ ~(j <= 1)
        BY <3>2, <1>5
      <4>2. j - 1 \in DOMAIN m.additional
        BY <4>1, <1>3, LenProperties
      <4>3. rules[j] = m.additional[j - 1]
        BY <4>1, <1>5
      <4> QED BY <4>2, <4>3, <1>2
    <3> QED BY <3>1, <3>2
  <2> QED BY <2>1, <2>2, <1>3, PushIs
<1>7. pushed \in Seq(Seq(Binding))
  <2> HIDE DEF rules, n
  <2>1. pushed \in [1 .. n -> Seq(Binding)]
    BY <1>5, <1>6
  <2> HIDE DEF pushed
  <2> QED BY <2>1, <1>5
<1>8. FlattenSeq(pushed) \in Seq(Binding)
  <2> HIDE DEF pushed
  <2> QED BY <1>7, FlattenType
<1> QED BY <1>8, Zenon DEF collect_rule, m

\* The table is a sequence of bindings (HttpRouter::from_pool).
LEMMA BindingsAre == bindings \in Seq(Binding)
<1> DEFINE n == Len(Rules)
           rows == [k \in DOMAIN Rules |-> collect_rule(Rules[k])]
<1>1. n \in Nat /\ DOMAIN Rules = 1 .. n
  BY RulesAssumption, LenProperties
<1>2. rows \in [1 .. n -> Seq(Binding)]
  BY <1>1, CollectIs
<1> HIDE DEF rows, n
<1>3. rows \in Seq(Seq(Binding))
  BY <1>1, <1>2
<1>4. FlattenSeq(rows) \in Seq(Binding)
  BY <1>3, FlattenType
<1> QED BY <1>4, Zenon DEF bindings, rows

\* Routing takes the first binding of its verb that the path fits (match_request).
LEMMA RouteIs ==
  ASSUME NEW verb, NEW parts \in Names
  PROVE  /\ match_request(verb, parts).ok <=> Candidates(verb, parts) # {}
         /\ Candidates(verb, parts) # {} =>
              /\ match_request(verb, parts).binding = Chosen(verb, parts)
              /\ Chosen(verb, parts) \in Binding
              /\ match_segments(Chosen(verb, parts).segments, parts).ok
<1> DEFINE all == Candidates(verb, parts)
           hits == {k \in DOMAIN bindings : bindings[k].verb = verb /\ Matches(bindings[k], parts)}
           first == CHOOSE k \in all : \A j \in all : k <= j
<1>1. \A k \in DOMAIN bindings : bindings[k] \in Binding
  BY BindingsAre, LenProperties, ElementOfSeq
<1>2. \A k \in DOMAIN bindings : Matches(bindings[k], parts) <=> Cuts(bindings[k].segments, parts) # {}
  <2> SUFFICES ASSUME NEW k \in DOMAIN bindings
               PROVE  Matches(bindings[k], parts) <=> Cuts(bindings[k].segments, parts) # {}
    OBVIOUS
  <2>1. bindings[k].segments \in Seq(Segment) /\ RestIsLast(bindings[k].segments)
    BY <1>1 DEF Binding, Templates
  <2> QED BY <2>1, MatchIs DEF Matches
<1>3. all = hits
  BY <1>2 DEF Candidates
<1>4. match_request(verb, parts) = FirstOf(hits)
  BY DEF match_request
<1>5. all # {} => Chosen(verb, parts) = bindings[first] /\ FirstOf(all) = [ok |-> TRUE, binding |-> bindings[first]]
  BY DEF Chosen, FirstOf
<1>6. all = {} => ~FirstOf(all).ok
  BY DEF FirstOf, NoMatch
<1>7. all # {} => first \in all
  <2> SUFFICES ASSUME all # {} PROVE \E k \in all : \A j \in all : k <= j
    BY Zenon
  <2>1. DOMAIN bindings \subseteq Nat
    BY BindingsAre, LenProperties
  <2>2. all \in SUBSET Nat
    BY <2>1 DEF Candidates
  <2> HIDE DEF all
  <2> QED BY <2>2, Least
<1>8. ASSUME all # {} PROVE bindings[first] \in Binding /\ match_segments(bindings[first].segments, parts).ok
  <2>1. first \in hits
    BY <1>3, <1>7, <1>8
  <2> HIDE DEF first
  <2> QED BY <2>1, <1>1 DEF Matches
<1> HIDE DEF all, hits, first
<1>9. match_request(verb, parts).ok <=> all # {}
  BY <1>3, <1>4, <1>5, <1>6
<1>10. all # {} => match_request(verb, parts).binding = Chosen(verb, parts)
  BY <1>3, <1>4, <1>5
<1> QED BY <1>5, <1>8, <1>9, <1>10 DEF all

-----------------------------------------------------------------------------
(* Setting fields. What a list holds grows; of a scalar the last remains.  *)

\* The messages, as a set.
Messages == UNION {[P -> Seq(Names)] : P \in SUBSET (Names \ {<<>>})}

LEMMA MessageIs == ASSUME NEW m PROVE IsMessage(m) <=> m \in Messages
<1>1. ASSUME IsMessage(m) PROVE m \in Messages
  BY <1>1 DEF IsMessage, Messages
<1>2. ASSUME m \in Messages PROVE IsMessage(m)
  <2>1. PICK P \in SUBSET (Names \ {<<>>}) : m \in [P -> Seq(Names)]
    BY <1>2 DEF Messages
  <2> QED BY <2>1 DEF IsMessage
<1> QED BY <1>1, <1>2

\* A field of a message holds values.
LEMMA GetIs ==
  ASSUME NEW m \in Messages, NEW path
  PROVE  Get(m, path) \in Seq(Names)
BY MessageIs DEF Get, IsMessage

\* A field that is set holds what it was set to, the others what they held.
LEMMA SetIs ==
  ASSUME NEW m \in Messages, NEW path \in DOMAIN Kinds, NEW values \in Seq(Names)
  PROVE  /\ Set(m, path, values) \in Messages
         /\ \A q : Get(Set(m, path, values), q) = IF q = path THEN values ELSE Get(m, q)
<1>1. DOMAIN m \subseteq Names \ {<<>>} /\ m \in [DOMAIN m -> Seq(Names)]
  BY MessageIs DEF IsMessage
<1>2. path \in Names \ {<<>>}
  BY KindsAssumption
<1> DEFINE r == Set(m, path, values)
<1>3. DOMAIN r = DOMAIN m \cup {path} /\ \A q \in DOMAIN r : r[q] = IF q = path THEN values ELSE m[q]
  BY DEF Set
<1>4. r = [q \in DOMAIN r |-> r[q]]
  BY DEF Set
<1> HIDE DEF r
<1>5. \A q \in DOMAIN r : r[q] \in Seq(Names)
  BY <1>1, <1>3
<1>6. r \in [DOMAIN r -> Seq(Names)]
  BY <1>4, <1>5
<1>7. IsMessage(r)
  BY <1>1, <1>2, <1>3, <1>6 DEF IsMessage
<1>8. \A q : Get(r, q) = IF q = path THEN values ELSE Get(m, q)
  BY <1>3 DEF Get
<1> QED BY <1>7, <1>8, MessageIs DEF r

\* What a field holds that held `base` and is given `values`.
Bound(path, base, values) ==
  IF Kinds[path] = "list" THEN base \o values ELSE LastOf(base \o values)
\* What a field may hold: a scalar at most one value.
Held(path, base) == base \in Seq(Names) /\ (Kinds[path] # "list" => Len(base) <= 1)

\* The last value, if there is one.
LEMMA LastOfIs ==
  ASSUME NEW s \in Seq(Names)
  PROVE  /\ LastOf(s) \in Seq(Names) /\ Len(LastOf(s)) <= 1
         /\ Len(s) <= 1 => LastOf(s) = s
         /\ s # <<>> => LastOf(s) = <<s[Len(s)]>>
<1>1. Len(s) \in Nat /\ (s # <<>> => Len(s) > 0 /\ s[Len(s)] \in Names)
  OBVIOUS
<1>2. CASE s = <<>>
  BY <1>2 DEF LastOf
<1>3. CASE s # <<>>
  <2>1. LastOf(s) = <<s[Len(s)]>> /\ s[Len(s)] \in Names
    BY <1>1, <1>3 DEF LastOf
  <2>2. <<s[Len(s)]>> \in Seq(Names) /\ Len(<<s[Len(s)]>>) <= 1
    BY <2>1
  <2>3. Len(s) <= 1 => s = <<s[Len(s)]>>
    BY <1>1, <1>3
  <2> QED BY <2>1, <2>2, <2>3
<1> QED BY <1>2, <1>3

\* The last value is the one at the last place.
LEMMA LastOfEnd ==
  ASSUME NEW s \in Seq(Names), NEW n, NEW v, Len(s) = n, s # <<>>, s[n] = v
  PROVE  LastOf(s) = <<v>>
BY DEF LastOf

\* Taking the last early does not change which value is last.
LEMMA LastOfLast ==
  ASSUME NEW s \in Seq(Names), NEW t \in Seq(Names)
  PROVE  LastOf(LastOf(s) \o t) = LastOf(s \o t)
<1> DEFINE a == LastOf(s)
<1>1. a \in Seq(Names) /\ Len(a) \in Nat /\ Len(s) \in Nat /\ Len(t) \in Nat
  BY LastOfIs, LenProperties
<1>2. /\ s \o t \in Seq(Names) /\ Len(s \o t) = Len(s) + Len(t)
      /\ a \o t \in Seq(Names) /\ Len(a \o t) = Len(a) + Len(t)
  BY <1>1, ConcatProperties
<1>3. CASE t = <<>>
  <2>1. a \o t = a /\ s \o t = s
    BY <1>1, <1>3, ConcatEmptySeq
  <2> QED BY <2>1, <1>1, LastOfIs
<1>4. CASE t # <<>>
  <2>1. Len(t) > 0
    BY <1>1, <1>4
  <2>2. (s \o t)[Len(s) + Len(t)] = t[Len(t)] /\ (a \o t)[Len(a) + Len(t)] = t[Len(t)]
    BY <1>1, <2>1, ConcatProperties
  <2>3. s \o t # <<>> /\ a \o t # <<>>
    BY <1>1, <1>2, <2>1
  <2> HIDE DEF a
  <2>4. LastOf(s \o t) = <<t[Len(t)]>>
    BY <1>2, <2>2, <2>3, LastOfEnd, Zenon
  <2>5. LastOf(a \o t) = <<t[Len(t)]>>
    BY <1>2, <2>2, <2>3, LastOfEnd, Zenon
  <2> QED BY <2>4, <2>5, Zenon DEF a
<1> QED BY <1>3, <1>4

\* Values bound in two goes are bound in order.
LEMMA BoundTwice ==
  ASSUME NEW path, NEW base \in Seq(Names), NEW s \in Seq(Names), NEW t \in Seq(Names)
  PROVE  Bound(path, Bound(path, base, s), t) = Bound(path, base, s \o t)
<1> DEFINE all == base \o s
<1>1. all \in Seq(Names) /\ all \o t = base \o (s \o t)
  BY ConcatProperties, ConcatAssociative
<1>2. LastOf(LastOf(all) \o t) = LastOf(all \o t)
  BY <1>1, LastOfLast, Zenon
<1> QED BY <1>1, <1>2, Zenon DEF Bound

\* A field holds what it is given in a form that it can hold.
LEMMA BoundIs ==
  ASSUME NEW path, NEW base \in Seq(Names), NEW s \in Seq(Names)
  PROVE  /\ Held(path, base) => Bound(path, base, <<>>) = base
         /\ Held(path, Bound(path, base, s))
<1>1. base \o s \in Seq(Names) /\ base \o <<>> = base
  BY ConcatProperties, ConcatEmptySeq
<1>2. Held(path, base) => Bound(path, base, <<>>) = base
  BY <1>1, LastOfIs DEF Held, Bound
<1>3. Held(path, Bound(path, base, s))
  BY <1>1, LastOfIs DEF Held, Bound
<1> QED BY <1>2, <1>3

\* A pair sets its field, or fails (set_by_path).
LEMMA SetByPathIs ==
  ASSUME NEW m \in Messages \cup {Bad}, NEW path \in Names, NEW v \in Names
  PROVE  LET r == set_by_path(m, path, v) IN
           /\ r \in Messages \cup {Bad}
           /\ r # Bad => /\ m \in Messages /\ m # Bad /\ path \in DOMAIN Kinds
                         /\ \A q : Get(r, q) = IF q = path THEN Bound(path, Get(m, path), <<v>>) ELSE Get(m, q)
<1> DEFINE r == set_by_path(m, path, v)
<1>1. CASE r = Bad
  BY <1>1
<1>2. CASE r # Bad
  <2>1. m # Bad /\ path \in DOMAIN Kinds /\ m \in Messages
    BY <1>2 DEF set_by_path
  <2>2. r = IF Kinds[path] = "list" THEN Set(m, path, Append(Get(m, path), v)) ELSE Set(m, path, <<v>>)
    BY <1>2, <2>1 DEF set_by_path
  <2> HIDE DEF r
  <2>3. Get(m, path) \in Seq(Names) /\ <<v>> \in Seq(Names)
    BY <2>1, GetIs
  <2> DEFINE base == Get(m, path)
  <2>4. /\ Append(base, v) \in Seq(Names) /\ Append(base, v) = base \o <<v>>
        /\ base \o <<v>> \in Seq(Names)
    BY <2>3, AppendProperties, AppendIsConcat
  <2>5. LastOf(base \o <<v>>) = <<v>>
    <3>1. Len(base \o <<v>>) = Len(base) + 1 /\ base \o <<v>> # <<>> /\ (base \o <<v>>)[Len(base) + 1] = v
      BY <2>3, <2>4, AppendProperties
    <3> QED BY <3>1, <2>4, LastOfEnd, Zenon
  <2> HIDE DEF base
  <2>6. r = Set(m, path, Bound(path, base, <<v>>)) /\ Bound(path, base, <<v>>) \in Seq(Names)
    BY <2>2, <2>3, <2>4, <2>5 DEF Bound, base
  <2>7. r \in Messages /\ \A q : Get(r, q) = IF q = path THEN Bound(path, base, <<v>>) ELSE Get(m, q)
    BY <2>1, <2>6, SetIs
  <2> QED BY <2>1, <2>7 DEF base, r
<1> QED BY <1>1, <1>2

\* The fields and the values of a sequence of pairs.
LEMMA PairsAre ==
  ASSUME NEW pairs \in Pairs
  PROVE  /\ Len(pairs) \in Nat /\ DOMAIN pairs = 1 .. Len(pairs)
         /\ \A k \in 1 .. Len(pairs) : pairs[k].field \in Names /\ pairs[k].value \in Names
<1> DEFINE P == [field : Names, value : Names]
<1>1. \A p \in P : p.field \in Names /\ p.value \in Names
  OBVIOUS
<1>2. pairs \in Seq(P)
  BY DEF Pairs
<1> HIDE DEF P
<1>3. Len(pairs) \in Nat /\ DOMAIN pairs = 1 .. Len(pairs) /\ \A k \in 1 .. Len(pairs) : pairs[k] \in P
  BY <1>2, LenProperties, ElementOfSeq
<1> QED BY <1>1, <1>3

\* f has the messages of set_all, one after each pair.
Setting(msg, pairs, taken, f) ==
  /\ f \in [0 .. Len(pairs) -> Messages \cup {Bad}] /\ f[0] = msg
  /\ \A k \in 1 .. Len(pairs) :
       f[k] = IF pairs[k].field \in taken THEN f[k - 1]
              ELSE set_by_path(f[k - 1], pairs[k].field, pairs[k].value)

\* The pairs can be set one after the other.
LEMMA SettingExists ==
  ASSUME NEW msg \in Messages \cup {Bad}, NEW pairs \in Pairs, NEW taken
  PROVE  \E f : Setting(msg, pairs, taken, f)
<1> DEFINE n == Len(pairs)
           V == Messages \cup {Bad}
           One(k, m) == IF pairs[k].field \in taken THEN m
                        ELSE set_by_path(m, pairs[k].field, pairs[k].value)
           step == [k \in Nat |-> [m \in V |-> IF k \in 1 .. n THEN One(k, m) ELSE m]]
<1>1. n \in Nat /\ \A k \in 1 .. n : pairs[k].field \in Names /\ pairs[k].value \in Names
  BY PairsAre
<1> HIDE DEF n
<1>2. ASSUME NEW k \in 1 .. n, NEW m \in V PROVE One(k, m) \in V
  BY <1>1, SetByPathIs
<1> HIDE DEF V, One
<1>3. step \in [Nat -> [V -> V]]
  BY <1>2
<1>4. PICK f \in [0 .. n -> V] : f[0] = msg /\ \A k \in 1 .. n : f[k] = step[k][f[k - 1]]
  <2> HIDE DEF step
  <2>1. Defined(V, msg, step, n)
    BY <1>1, <1>3, Recursion DEF V
  <2> QED BY <2>1 DEF Defined
<1>5. ASSUME NEW k \in 1 .. n PROVE f[k] = One(k, f[k - 1])
  <2>1. k \in Nat /\ k - 1 \in 0 .. n
    BY <1>1
  <2>2. f[k - 1] \in V
    BY <2>1
  <2>3. f[k] = step[k][f[k - 1]]
    BY <1>4
  <2>4. step[k] = [m \in V |-> IF k \in 1 .. n THEN One(k, m) ELSE m]
    BY <2>1, Zenon DEF step
  <2> HIDE DEF step
  <2> QED BY <2>2, <2>3, <2>4
<1> QED BY <1>4, <1>5 DEF Setting, One, V, n

\* What set_all gives is the last of them.
LEMMA SettingIs ==
  ASSUME NEW msg, NEW pairs \in Pairs, NEW taken, NEW f, Setting(msg, pairs, taken, f)
  PROVE  set_all(msg, pairs, taken) = f[Len(pairs)]
<1> DEFINE n == Len(pairs)
           One(k, m) == IF pairs[k].field \in taken THEN m
                        ELSE set_by_path(m, pairs[k].field, pairs[k].value)
           v == CHOOSE v : v = [k \in 0 .. n |-> IF k = 0 THEN msg ELSE One(k, v[k - 1])]
<1>1. n \in Nat
  BY PairsAre
<1>2. set_all(msg, pairs, taken) = v[n]
  BY DEF set_all
<1>3. f = [k \in 0 .. n |-> IF k = 0 THEN msg ELSE One(k, f[k - 1])]
  <2>1. f = [k \in 0 .. n |-> f[k]]
    BY DEF Setting
  <2>2. ASSUME NEW k \in 0 .. n PROVE f[k] = IF k = 0 THEN msg ELSE One(k, f[k - 1])
    <3>1. k = 0 \/ k \in 1 .. n
      BY <1>1
    <3> QED BY <3>1 DEF Setting
  <2> QED BY <2>1, <2>2
<1> HIDE DEF One
<1>4. v = [k \in 0 .. n |-> IF k = 0 THEN msg ELSE One(k, v[k - 1])]
  BY <1>3
<1> HIDE DEF v, n
<1>5. v[0] = f[0]
  BY <1>1, <1>3, <1>4
<1>6. ASSUME NEW k \in 1 .. n, v[k - 1] = f[k - 1] PROVE v[k] = f[k]
  <2>1. k \in 0 .. n /\ k # 0
    BY <1>1
  <2>2. v[k] = One(k, v[k - 1]) /\ f[k] = One(k, f[k - 1])
    BY <2>1, <1>3, <1>4
  <2> QED BY <2>2, <1>6
<1>7. \A k \in 0 .. n : v[k] = f[k]
  <2>1. \A k \in 1 .. n : v[k - 1] = f[k - 1] => v[k] = f[k]
    BY <1>6
  <2> QED BY <1>1, <1>5, <2>1, Alike, ZenonT(60)
<1>8. v[n] = f[n]
  BY <1>1, <1>7
<1> QED BY <1>2, <1>8 DEF n

\* What a sequence of pairs gives a field, as sums.
RowsOf(pairs, path) ==
  [k \in DOMAIN pairs |-> IF pairs[k].field = path THEN <<pairs[k].value>> ELSE <<>>]

\* There is a row for each pair: its value, if it is for the field.
LEMMA RowsAre ==
  ASSUME NEW pairs \in Pairs, NEW path
  PROVE  /\ RowsOf(pairs, path) \in Seq(Seq(Names)) /\ Len(RowsOf(pairs, path)) = Len(pairs)
         /\ \A k \in 1 .. Len(pairs) :
              RowsOf(pairs, path)[k] = IF pairs[k].field = path THEN <<pairs[k].value>> ELSE <<>>
<1> DEFINE n == Len(pairs)
           rows == RowsOf(pairs, path)
<1>1. n \in Nat /\ DOMAIN pairs = 1 .. n /\ \A k \in 1 .. n : pairs[k].value \in Names
  BY PairsAre
<1> HIDE DEF n
<1>2. \A k \in 1 .. n : (IF pairs[k].field = path THEN <<pairs[k].value>> ELSE <<>>) \in Seq(Names)
  BY <1>1
<1>3. rows = [k \in 1 .. n |-> IF pairs[k].field = path THEN <<pairs[k].value>> ELSE <<>>]
  BY <1>1 DEF RowsOf
<1>4. rows \in [1 .. n -> Seq(Names)]
  BY <1>2, <1>3
<1> HIDE DEF rows
<1>5. rows \in Seq(Seq(Names)) /\ Len(rows) = n
  BY <1>1, <1>4
<1> QED BY <1>3, <1>5 DEF rows, n

\* What pairs give a field is a sequence of values.
LEMMA ValuesOfType ==
  ASSUME NEW pairs \in Pairs, NEW path
  PROVE  ValuesOf(pairs, path) \in Seq(Names)
<1>1. ValuesOf(pairs, path) = FlattenSeq(RowsOf(pairs, path))
  BY DEF ValuesOf, RowsOf
<1> QED BY <1>1, RowsAre, FlattenType

\* What the pairs give a field, pair by pair.
Values(pairs, path, h) ==
  /\ h \in [0 .. Len(pairs) -> Seq(Names)] /\ h[0] = <<>>
  /\ \A k \in 1 .. Len(pairs) :
       h[k] = h[k - 1] \o (IF pairs[k].field = path THEN <<pairs[k].value>> ELSE <<>>)
  /\ ValuesOf(pairs, path) = h[Len(pairs)]

LEMMA ValuesExist ==
  ASSUME NEW pairs \in Pairs, NEW path
  PROVE  \E h : Values(pairs, path, h)
<1> DEFINE n == Len(pairs)
           rows == RowsOf(pairs, path)
<1>1. /\ rows \in Seq(Seq(Names)) /\ Len(rows) = n
      /\ \A k \in 1 .. n : rows[k] = IF pairs[k].field = path THEN <<pairs[k].value>> ELSE <<>>
  BY RowsAre, Zenon
<1>2. ValuesOf(pairs, path) = FlattenSeq(rows)
  BY DEF ValuesOf, RowsOf
<1> HIDE DEF n, rows
<1>3. PICK h : Sums(Names, rows, h)
  BY <1>1, SumsExist
<1>4. FlattenSeq(rows) = h[n]
  BY <1>1, <1>3, FlattenIs
<1>5. /\ h \in [0 .. n -> Seq(Names)] /\ h[0] = <<>>
      /\ \A k \in 1 .. n : h[k] = h[k - 1] \o rows[k]
  BY <1>1, <1>3, Zenon DEF Sums
<1>6. ASSUME NEW k \in 1 .. n
      PROVE  h[k] = h[k - 1] \o (IF pairs[k].field = path THEN <<pairs[k].value>> ELSE <<>>)
  <2>1. h[k] = h[k - 1] \o rows[k]
    BY <1>5
  <2>2. rows[k] = IF pairs[k].field = path THEN <<pairs[k].value>> ELSE <<>>
    BY <1>1
  <2> QED BY <2>1, <2>2, Zenon
<1>7. Values(pairs, path, h)
  BY <1>2, <1>4, <1>5, <1>6, Zenon DEF Values, n
<1> QED BY <1>7

\* What all the pairs make of a field: set_all fails, or binds to it its values in order.
LEMMA SetAllIs ==
  ASSUME NEW msg \in Messages \cup {Bad}, NEW pairs \in Pairs, NEW taken
  PROVE  LET r == set_all(msg, pairs, taken) IN
           /\ r \in Messages \cup {Bad}
           /\ r # Bad =>
                /\ msg # Bad
                /\ \A path \in DOMAIN Kinds : Held(path, Get(msg, path)) =>
                     Get(r, path) = Bound(path, Get(msg, path),
                                          IF path \in taken THEN <<>> ELSE ValuesOf(pairs, path))
<1> DEFINE n == Len(pairs)
           r == set_all(msg, pairs, taken)
<1>1. PICK f : Setting(msg, pairs, taken, f)
  BY SettingExists
<1>2. n \in Nat /\ \A k \in 1 .. n : pairs[k].field \in Names /\ pairs[k].value \in Names
  BY PairsAre
<1>3. r = f[n]
  BY <1>1, SettingIs
<1>4. /\ f \in [0 .. n -> Messages \cup {Bad}] /\ f[0] = msg
      /\ \A k \in 1 .. n : f[k] = IF pairs[k].field \in taken THEN f[k - 1]
                                  ELSE set_by_path(f[k - 1], pairs[k].field, pairs[k].value)
  BY <1>1 DEF Setting
<1> HIDE DEF r
<1>5. n \in 0 .. n /\ 0 \in 0 .. n
  BY <1>2
<1>6. f[n] \in Messages \cup {Bad}
  BY <1>4, <1>5
<1>7. ASSUME f[n] # Bad PROVE msg # Bad
  <2> DEFINE good == [k \in 0 .. n |-> f[k] # Bad => msg # Bad]
  <2> HIDE DEF n
  <2>1. good[0] \in {TRUE}
    BY <1>4, <1>5
  <2>2. ASSUME NEW k \in 1 .. n, good[k - 1] \in {TRUE} PROVE good[k] \in {TRUE}
    <3>1. k - 1 \in 0 .. n /\ k \in 0 .. n
      BY <1>2
    <3>2. f[k - 1] \in Messages \cup {Bad} /\ pairs[k].field \in Names /\ pairs[k].value \in Names
      BY <1>2, <1>4, <3>1
    <3>3. f[k] # Bad => f[k - 1] # Bad
      BY <1>4, <3>2, SetByPathIs
    <3>4. f[k - 1] # Bad => msg # Bad
      BY <2>2, <3>1
    <3> QED BY <3>1, <3>3, <3>4
  <2> HIDE DEF good
  <2>3. \A k \in 0 .. n : good[k] \in {TRUE}
    BY <2>1, <2>2, <1>2, HandedOn
  <2> QED BY <2>3, <1>5, <1>7 DEF good
<1>8. ASSUME f[n] # Bad, NEW path \in DOMAIN Kinds, Held(path, Get(msg, path))
      PROVE  f[n] # Bad =>
               Get(f[n], path) = Bound(path, Get(msg, path),
                                       IF path \in taken THEN <<>> ELSE ValuesOf(pairs, path))
  <2> DEFINE base == Get(msg, path)
  <2>1. PICK h : Values(pairs, path, h)
    BY ValuesExist
  <2>2. ValuesOf(pairs, path) = h[n]
    BY <2>1, Zenon DEF Values
  <2>3. /\ h \in [0 .. n -> Seq(Names)] /\ h[0] = <<>>
        /\ \A k \in 1 .. n : h[k] = h[k - 1] \o (IF pairs[k].field = path THEN <<pairs[k].value>> ELSE <<>>)
    BY <2>1, Zenon DEF Values
  <2> DEFINE given(k) == IF path \in taken THEN <<>> ELSE h[k]
             so == [k \in 0 .. n |-> f[k] # Bad => Get(f[k], path) = Bound(path, base, given(k))]
  <2>4. base \in Seq(Names) /\ Held(path, base)
    BY <1>8 DEF Held
  <2> HIDE DEF n, base
  <2>5. so[0] \in {TRUE}
    <3>1. Get(f[0], path) = base /\ given(0) = <<>>
      BY <1>4, <2>3 DEF base
    <3>2. Bound(path, base, <<>>) = base
      BY <2>4, BoundIs
    <3> QED BY <1>5, <3>1, <3>2
  <2>6. ASSUME NEW k \in 1 .. n, so[k - 1] \in {TRUE} PROVE so[k] \in {TRUE}
    <3>1. k - 1 \in 0 .. n /\ k \in 0 .. n
      BY <1>2
    <3>2. /\ f[k - 1] \in Messages \cup {Bad} /\ h[k - 1] \in Seq(Names)
          /\ pairs[k].field \in Names /\ pairs[k].value \in Names
      BY <1>2, <1>4, <2>3, <3>1
    <3>3. f[k - 1] # Bad => Get(f[k - 1], path) = Bound(path, base, given(k - 1))
      BY <2>6, <3>1
    <3> DEFINE v == pairs[k].value
    <3>4. ASSUME f[k] # Bad PROVE Get(f[k], path) = Bound(path, base, given(k))
      <4>1. CASE pairs[k].field \in taken
        <5>1. f[k] = f[k - 1]
          BY <4>1, <1>4
        <5>2. given(k) = given(k - 1)
          <6>1. CASE path \in taken
            BY <6>1
          <6>2. CASE path \notin taken
            <7>1. h[k] = h[k - 1] \o <<>>
              BY <4>1, <6>2, <2>3
            <7> QED BY <7>1, <3>2, ConcatEmptySeq
          <6> QED BY <6>1, <6>2
        <5> HIDE DEF given
        <5> QED BY <5>1, <5>2, <3>3, <3>4
      <4>2. CASE pairs[k].field \notin taken
        <5>1. f[k] = set_by_path(f[k - 1], pairs[k].field, v)
          BY <4>2, <1>4
        <5>2. /\ f[k - 1] # Bad
              /\ \A q : Get(f[k], q) = IF q = pairs[k].field
                                       THEN Bound(pairs[k].field, Get(f[k - 1], pairs[k].field), <<v>>)
                                       ELSE Get(f[k - 1], q)
          <6> DEFINE m == f[k - 1]
                     fld == pairs[k].field
                     r1 == set_by_path(m, fld, v)
          <6>1. f[k] = r1 /\ r1 # Bad
            BY <5>1, <3>4
          <6>2. m \in Messages \cup {Bad} /\ fld \in Names /\ v \in Names
            BY <3>2
          <6> HIDE DEF m, fld, v
          <6>3. /\ m # Bad
                /\ \A q : Get(r1, q) = IF q = fld THEN Bound(fld, Get(m, fld), <<v>>) ELSE Get(m, q)
            BY <6>1, <6>2, SetByPathIs
          <6> QED BY <6>1, <6>3 DEF m, fld
        <5>3. CASE pairs[k].field = path
          <6>1. given(k - 1) = h[k - 1] /\ given(k) = h[k - 1] \o <<v>>
            BY <4>2, <5>3, <2>3
          <6>2. Get(f[k], path) = Bound(path, Get(f[k - 1], path), <<v>>)
            BY <5>2, <5>3
          <6>3. Get(f[k - 1], path) = Bound(path, base, h[k - 1])
            BY <5>2, <3>3, <6>1
          <6>4. <<v>> \in Seq(Names)
            BY <3>2
          <6>5. Bound(path, Bound(path, base, h[k - 1]), <<v>>) = Bound(path, base, h[k - 1] \o <<v>>)
            <7> DEFINE h1 == h[k - 1]
                       t == <<v>>
            <7>1. h1 \in Seq(Names) /\ t \in Seq(Names) /\ base \in Seq(Names)
              BY <6>4, <3>2, <2>4
            <7> HIDE DEF h1, t
            <7>2. Bound(path, Bound(path, base, h1), t) = Bound(path, base, h1 \o t)
              BY <7>1, BoundTwice, Zenon
            <7> QED BY <7>2 DEF h1, t
          <6> HIDE DEF v, given
          <6>6. Get(f[k], path) = Bound(path, base, h[k - 1] \o <<v>>)
            BY <6>2, <6>3, <6>5, Zenon
          <6> QED BY <6>1, <6>6, Zenon
        <5>4. CASE pairs[k].field # path
          <6>1. h[k] = h[k - 1] \o <<>>
            BY <5>4, <2>3
          <6>2. given(k) = given(k - 1)
            BY <6>1, <3>2, ConcatEmptySeq
          <6>3. Get(f[k], path) = Get(f[k - 1], path)
            BY <5>2, <5>4
          <6> HIDE DEF given
          <6> QED BY <6>2, <6>3, <5>2, <3>3
        <5> QED BY <5>3, <5>4
      <4> QED BY <4>1, <4>2
    <3> HIDE DEF given
    <3> QED BY <3>1, <3>4
  <2> HIDE DEF so
  <2>7. \A k \in 0 .. n : so[k] \in {TRUE}
    BY <2>5, <2>6, <1>2, HandedOn
  <2> QED BY <2>2, <2>7, <1>5 DEF so, base
<1> QED BY <1>3, <1>6, <1>7, <1>8 DEF r

-----------------------------------------------------------------------------
(* Reading a message from JSON                                             *)

\* A path put under another comes off it again.
LEMMA PathUnder ==
  ASSUME NEW at \in Names, NEW p \in Names \ {<<>>}
  PROVE  /\ at \o p \in Names \ {<<>>}
         /\ SubSeq(at \o p, Len(at) + 1, Len(at \o p)) = p
<1>1. at \in Seq(STRING) /\ p \in Seq(STRING) /\ p # <<>>
  BY DEF Names
<1>2. Len(at) \in Nat /\ Len(p) \in Nat /\ Len(p) > 0
  BY <1>1
<1>3. at \o p \in Seq(STRING) /\ Len(at \o p) = Len(at) + Len(p)
  BY <1>1, ConcatProperties
<1>4. at \o p # <<>>
  BY <1>1, ConcatEqualIffEmpty
<1> DEFINE m == Len(at) + 1
           n == Len(at) + Len(p)
<1>5. /\ m \in Len(at) + 1 .. Len(at) + Len(p) /\ n \in Len(at) + 1 .. Len(at) + Len(p)
      /\ m - Len(at) = 1 /\ n - Len(at) = Len(p)
  BY <1>2
<1> HIDE DEF m, n
<1>6. SubSeq(at \o p, m, n) = SubSeq(p, m - Len(at), n - Len(at))
  BY <1>1, <1>5, SubSeqOfConcat2
<1>7. SubSeq(p, 1, Len(p)) = p
  BY <1>1, SubSeqFull
<1> QED BY <1>3, <1>4, <1>5, <1>6, <1>7 DEF m, n, Names

\* A body that is read is a message; its fields are those of the JSON, at its path.
LEMMA ReadIs ==
  ASSUME NEW at \in Names, NEW body, body = Bad \/ IsMessage(body),
         NEW r, r = deserialize_message(body, at), r # Bad
  PROVE  /\ body # Bad /\ IsMessage(body) /\ r \in Messages
         /\ \A p \in DOMAIN body : Get(r, at \o p) = body[p]
         /\ \A q : (\A p \in DOMAIN body : q # at \o p) => Get(r, q) = <<>>
         /\ \A q \in DOMAIN r : q \in DOMAIN Kinds /\ Held(q, r[q])
<1> DEFINE under == {at \o p : p \in DOMAIN body}
<1>1. body # Bad /\ IsMessage(body)
  BY DEF deserialize_message
<1>2. \A p \in DOMAIN body : Accepts(at \o p, body[p])
  BY DEF deserialize_message
<1>3. r = [q \in under |-> body[SubSeq(q, Len(at) + 1, Len(q))]]
  BY <1>1, <1>2 DEF deserialize_message
<1>4. DOMAIN body \subseteq Names \ {<<>>} /\ \A p \in DOMAIN body : body[p] \in Seq(Names)
  BY <1>1 DEF IsMessage
<1>5. DOMAIN r = under
  BY <1>3
<1>6. ASSUME NEW p \in DOMAIN body
      PROVE  /\ at \o p \in DOMAIN r /\ at \o p \in Names \ {<<>>}
             /\ r[at \o p] = body[p]
  <2>1. at \o p \in Names \ {<<>>} /\ SubSeq(at \o p, Len(at) + 1, Len(at \o p)) = p
    BY <1>4, PathUnder
  <2>2. at \o p \in under
    OBVIOUS
  <2> DEFINE q == at \o p
  <2> HIDE DEF q, under
  <2>3. r[q] = body[SubSeq(q, Len(at) + 1, Len(q))]
    BY <1>3, <2>2 DEF q
  <2> QED BY <1>5, <2>1, <2>2, <2>3 DEF q
<1>7. ASSUME NEW q \in DOMAIN r
      PROVE  q \in Names \ {<<>>} /\ r[q] \in Seq(Names) /\ q \in DOMAIN Kinds /\ Held(q, r[q])
  <2>1. PICK p \in DOMAIN body : q = at \o p
    BY <1>5
  <2>2. r[q] = body[p] /\ Accepts(q, body[p]) /\ q \in Names \ {<<>>}
    BY <1>2, <1>6, <2>1
  <2> QED BY <1>4, <2>2 DEF Accepts, Held
<1> HIDE DEF under
<1>8. r \in [DOMAIN r -> Seq(Names)]
  <2>1. r = [q \in DOMAIN r |-> r[q]]
    BY <1>3, <1>5
  <2> QED BY <1>7, <2>1
<1>9. DOMAIN r \subseteq Names \ {<<>>}
  BY <1>7
<1>10. r \in Messages
  BY <1>8, <1>9, MessageIs DEF IsMessage
<1>11. \A p \in DOMAIN body : Get(r, at \o p) = body[p]
  BY <1>6 DEF Get
<1>12. ASSUME NEW q, \A p \in DOMAIN body : q # at \o p PROVE Get(r, q) = <<>>
  <2>1. q \notin DOMAIN r
    BY <1>5, <1>12 DEF under
  <2> QED BY <2>1 DEF Get
<1> QED BY <1>1, <1>7, <1>10, <1>11, <1>12

\* The default message holds nothing.
LEMMA EmptyIs ==
  /\ Default \in Messages /\ IsMessage(Default)
  /\ \A path : Get(Default, path) = <<>> /\ Held(path, Get(Default, path))
<1>1. IsMessage(Default)
  BY DEF IsMessage, Default
<1>2. \A path : Get(Default, path) = <<>>
  BY DEF Default, Get
<1>3. <<>> \in Seq(Names) /\ Len(<<>>) <= 1
  OBVIOUS
<1>4. \A path : Held(path, <<>>)
  BY <1>3 DEF Held
<1>5. Default \in Messages
  BY <1>1, MessageIs, Zenon
<1>6. \A path : Held(path, Get(Default, path))
  BY <1>2, <1>4
<1> QED BY <1>1, <1>2, <1>5, <1>6, Zenon

\* JSON that is the whole of a message is read as it stands.
LEMMA WholeIs ==
  ASSUME NEW body, body = Bad \/ IsMessage(body), deserialize_message(body, <<>>) # Bad
  PROVE  deserialize_message(body, <<>>) = body
<1> DEFINE r == deserialize_message(body, <<>>)
<1>1. <<>> \in Names /\ \A p \in Names : <<>> \o p = p
  BY ConcatEmptySeq DEF Names
<1>2. body # Bad /\ IsMessage(body)
  BY DEF deserialize_message
<1>3. DOMAIN body \subseteq Names \ {<<>>} /\ body = [p \in DOMAIN body |-> body[p]]
  BY <1>2 DEF IsMessage
<1>4. {<<>> \o p : p \in DOMAIN body} = DOMAIN body
  BY <1>1, <1>3
<1>5. r = [q \in {<<>> \o p : p \in DOMAIN body} |-> body[SubSeq(q, Len(<<>>) + 1, Len(q))]]
  BY <1>2 DEF deserialize_message
<1>6. ASSUME NEW q \in DOMAIN body PROVE body[SubSeq(q, Len(<<>>) + 1, Len(q))] = body[q]
  <2>1. SubSeq(<<>> \o q, Len(<<>>) + 1, Len(<<>> \o q)) = q
    BY <1>1, <1>3, PathUnder
  <2>2. <<>> \o q = q
    BY <1>1, <1>3
  <2> QED BY <2>1, <2>2
<1> HIDE DEF r
<1> QED BY <1>3, <1>4, <1>5, <1>6 DEF r

\* What the body gives a message is what it gives each of its fields (FromBody).
LEMMA FromBodyIs ==
  ASSUME NEW b \in Binding, NEW body, body = Bad \/ IsMessage(body), FromBody(b, body) # Bad
  PROVE  /\ FromBody(b, body) \in Messages
         /\ \A path \in DOMAIN Kinds : /\ Get(FromBody(b, body), path) = BodyAt(b, body, path)
                                       /\ Held(path, Get(FromBody(b, body), path))
<1> DEFINE r == FromBody(b, body)
<1>1. DOMAIN Kinds \subseteq Names \ {<<>>} /\ b.body \in STRING
  BY KindsAssumption DEF Binding
<1>2. CASE b.body = "none"
  <2>1. r = Default /\ \A path : BodyAt(b, body, path) = <<>>
    BY <1>2 DEF FromBody, BodyAt
  <2> QED BY <2>1, EmptyIs
<1>3. CASE b.body = "*"
  <2>1. r = deserialize_message(body, <<>>) /\ \A path : BodyAt(b, body, path) = Get(body, path)
    BY <1>3 DEF FromBody, BodyAt
  <2>2. r = body
    BY <2>1, WholeIs
  <2>3. <<>> \in Names
    BY DEF Names
  <2> HIDE DEF r
  <2>4. r # Bad
    BY DEF r
  <2>5. r \in Messages /\ \A q \in DOMAIN r : Held(q, r[q])
    BY <2>1, <2>3, <2>4, ReadIs
  <2>6. \A path : Held(path, Get(r, path))
    BY <2>5, EmptyIs DEF Get
  <2> QED BY <2>1, <2>2, <2>5, <2>6 DEF r
<1>4. CASE b.body # "none" /\ b.body # "*"
  <2>1. \A path : BodyAt(b, body, path) =
                    IF Len(path) > 1 /\ path[1] = b.body THEN Get(body, Tail(path)) ELSE <<>>
    BY <1>4 DEF BodyAt
  <2>2. CASE body = Default
    <3>1. r = Default
      BY <1>4, <2>2 DEF FromBody
    <3> QED BY <3>1, <2>1, <2>2, EmptyIs
  <2>3. CASE body # Default
    <3> DEFINE at == <<b.body>>
    <3>1. r = deserialize_message(body, at)
      BY <1>4, <2>3 DEF FromBody
    <3>2. at \in Names /\ Len(at) = 1 /\ at[1] = b.body
      BY <1>1 DEF Names
    <3> HIDE DEF r, at
    <3>3. r # Bad
      BY DEF r
    <3>4. /\ IsMessage(body) /\ r \in Messages
          /\ \A p \in DOMAIN body : Get(r, at \o p) = body[p]
          /\ \A q : (\A p \in DOMAIN body : q # at \o p) => Get(r, q) = <<>>
          /\ \A q \in DOMAIN r : Held(q, r[q])
      BY <3>1, <3>2, <3>3, ReadIs
    <3>5. DOMAIN body \subseteq Names \ {<<>>}
      BY <3>4 DEF IsMessage
    <3>6. ASSUME NEW path \in DOMAIN Kinds PROVE Get(r, path) = BodyAt(b, body, path)
      <4>1. path \in Seq(STRING) /\ path # <<>> /\ at \in Seq(STRING)
        BY <1>1, <3>2 DEF Names
      <4>2. Tail(path) \in Seq(STRING) /\ Len(Tail(path)) = Len(path) - 1 /\ Len(path) \in Nat \ {0}
        BY <4>1, HeadTailProperties
      <4>3. ASSUME NEW p \in DOMAIN body, path = at \o p
            PROVE  Len(path) > 1 /\ path[1] = b.body /\ p = Tail(path)
        <5>1. p \in Seq(STRING) /\ p # <<>>
          BY <3>5 DEF Names
        <5>2. Len(p) \in Nat /\ Len(p) > 0
          BY <5>1
        <5>3. Len(path) = 1 + Len(p) /\ path[1] = b.body
          <6>1. 1 \in 1 .. Len(at) + Len(p) /\ 1 <= Len(at)
            BY <5>2, <3>2
          <6>2. /\ Len(at \o p) = Len(at) + Len(p)
                /\ \A i \in 1 .. Len(at) + Len(p) : (at \o p)[i] = IF i <= Len(at) THEN at[i] ELSE p[i - Len(at)]
            BY <4>1, <5>1, ConcatProperties
          <6>3. (at \o p)[1] = at[1]
            BY <6>1, <6>2
          <6> QED BY <4>3, <6>2, <6>3, <3>2
        <5>4. SubSeq(path, 2, Len(path)) = p
          <6>1. SubSeq(at \o p, Len(at) + 1, Len(at \o p)) = p
            BY <3>2, <3>5, PathUnder
          <6> QED BY <6>1, <4>3, <3>2
        <5>5. Tail(path) = SubSeq(path, 2, Len(path))
          BY <4>1, TailIsSubSeq
        <5> QED BY <5>2, <5>3, <5>4, <5>5
      <4>4. ASSUME Len(path) > 1, path[1] = b.body PROVE path = at \o Tail(path)
        <5>1. path = SubSeq(path, 1, 1) \o SubSeq(path, 2, Len(path))
          <6>1. SubSeq(path, 1, Len(path)) = path
            BY <4>1, SubSeqFull
          <6>2. 1 \in 1 .. Len(path) + 1 /\ 1 \in 1 - 1 .. Len(path) /\ Len(path) \in 1 .. Len(path)
            BY <4>2
          <6>3. SubSeq(path, 1, 1) \o SubSeq(path, 1 + 1, Len(path)) = SubSeq(path, 1, Len(path))
            BY <4>1, <6>2, ConcatAdjacentSubSeq, Zenon
          <6>4. 1 + 1 = 2
            OBVIOUS
          <6> QED BY <6>1, <6>3, <6>4
        <5>2. SubSeq(path, 1, 1) = at
          <6> DEFINE x == SubSeq(path, 1, 1)
          <6>1. \A i \in 1 .. 1 : path[i] \in STRING
            BY <4>1, <4>2, ElementOfSeq
          <6>2. x \in Seq(STRING) /\ Len(x) = 1 /\ x[1] = path[1]
            BY <6>1, SubSeqProperties
          <6> HIDE DEF x
          <6>3. x = <<path[1]>>
            BY <6>2
          <6> QED BY <4>4, <6>3 DEF at, x
        <5>3. Tail(path) = SubSeq(path, 2, Len(path))
          BY <4>1, TailIsSubSeq
        <5> QED BY <5>1, <5>2, <5>3
      <4>5. CASE \E p \in DOMAIN body : path = at \o p
        <5>1. PICK p \in DOMAIN body : path = at \o p
          BY <4>5
        <5>2. Len(path) > 1 /\ path[1] = b.body /\ p = Tail(path)
          BY <4>3, <5>1
        <5>3. BodyAt(b, body, path) = body[p]
          BY <2>1, <5>2 DEF Get
        <5> QED BY <3>4, <5>1, <5>3
      <4>6. CASE \A p \in DOMAIN body : path # at \o p
        <5>1. Get(r, path) = <<>>
          BY <3>4, <4>6
        <5>2. BodyAt(b, body, path) = <<>>
          <6>1. CASE Len(path) > 1 /\ path[1] = b.body
            <7>1. Tail(path) \notin DOMAIN body
              BY <4>4, <4>6, <6>1
            <7> QED BY <2>1, <6>1, <7>1 DEF Get
          <6>2. CASE ~(Len(path) > 1 /\ path[1] = b.body)
            BY <2>1, <6>2
          <6> QED BY <6>1, <6>2
        <5> QED BY <5>1, <5>2
      <4> QED BY <4>5, <4>6
    <3>7. \A path : Held(path, Get(r, path))
      BY <3>4, EmptyIs DEF Get
    <3> QED BY <3>4, <3>6, <3>7 DEF r
  <2> QED BY <2>2, <2>3
<1> QED BY <1>2, <1>3, <1>4

-----------------------------------------------------------------------------
(* The message, and the call                                               *)

\* A field is given nothing just when no pair names it.
LEMMA NothingGiven ==
  ASSUME NEW pairs \in Pairs, NEW path
  PROVE  ValuesOf(pairs, path) = <<>> <=> path \notin {pairs[k].field : k \in DOMAIN pairs}
<1> DEFINE n == Len(pairs)
<1>1. n \in Nat /\ DOMAIN pairs = 1 .. n /\ \A k \in 1 .. n : pairs[k].value \in Names
  BY PairsAre
<1>2. PICK h : Values(pairs, path, h)
  BY ValuesExist
<1>3. ValuesOf(pairs, path) = h[n]
  BY <1>2, Zenon DEF Values
<1>4. /\ h \in [0 .. n -> Seq(Names)] /\ h[0] = <<>>
      /\ \A k \in 1 .. n : h[k] = h[k - 1] \o (IF pairs[k].field = path THEN <<pairs[k].value>> ELSE <<>>)
  BY <1>2, Zenon DEF Values
<1> DEFINE None(k) == \A j \in 1 .. k : pairs[j].field # path
           so == [k \in 0 .. n |-> h[k] = <<>> <=> None(k)]
<1> HIDE DEF n
<1>5. 0 \in 0 .. n /\ n \in 0 .. n
  BY <1>1
<1>6. so[0] \in {TRUE}
  BY <1>4, <1>5
<1>7. ASSUME NEW k \in 1 .. n, so[k - 1] \in {TRUE} PROVE so[k] \in {TRUE}
  <2>1. k - 1 \in 0 .. n /\ k \in 0 .. n
    BY <1>1
  <2>2. h[k - 1] \in Seq(Names) /\ pairs[k].value \in Names
    BY <1>1, <1>4, <2>1
  <2>3. h[k - 1] = <<>> <=> None(k - 1)
    BY <1>7, <2>1
  <2>4. None(k) <=> None(k - 1) /\ pairs[k].field # path
    <3>1. 1 .. k = (1 .. (k - 1)) \cup {k}
      BY <1>1
    <3> QED BY <3>1
  <2> HIDE DEF None
  <2>5. CASE pairs[k].field = path
    <3>1. h[k] = h[k - 1] \o <<pairs[k].value>>
      BY <1>4, <2>5
    <3>2. <<pairs[k].value>> \in Seq(Names) /\ <<pairs[k].value>> # <<>>
      BY <2>2
    <3>3. h[k] # <<>>
      BY <3>1, <3>2, <2>2, ConcatEqualIffEmpty
    <3> QED BY <3>3, <2>1, <2>4, <2>5
  <2>6. CASE pairs[k].field # path
    <3>1. h[k] = h[k - 1]
      BY <1>4, <2>2, <2>6, ConcatEmptySeq
    <3> QED BY <3>1, <2>1, <2>3, <2>4, <2>6
  <2> QED BY <2>5, <2>6
<1>8. None(n) <=> path \notin {pairs[k].field : k \in DOMAIN pairs}
  BY <1>1
<1> HIDE DEF so, None
<1>9. \A k \in 0 .. n : so[k] \in {TRUE}
  BY <1>1, <1>6, <1>7, HandedOn
<1>10. h[n] = <<>> <=> None(n)
  BY <1>5, <1>9 DEF so
<1> QED BY <1>3, <1>8, <1>10

\* The message that is built holds in each field what its sources give the field.
LEMMA BuildIs ==
  ASSUME NEW b \in Binding, NEW vars \in Pairs, NEW query \in Pairs,
         NEW body, body = Bad \/ IsMessage(body),
         NEW message, message = build_message(b, vars, query, body), message # Bad
  PROVE  \A path \in DOMAIN Kinds :
           Get(message, path) =
             FieldOf(path, BodyAt(b, body, path), ValuesOf(vars, path),
                     IF b.body = "*" THEN <<>> ELSE ValuesOf(query, path))
<1> DEFINE read == FromBody(b, body)
           overlaid == set_all(read, vars, {})
           taken == {vars[k].field : k \in DOMAIN vars}
<1>1. message = IF b.body = "*" THEN overlaid ELSE set_all(overlaid, query, taken)
  BY DEF build_message
<1>2. read \in Messages \cup {Bad}
  BY FromBodyIs
<1> HIDE DEF read, taken
<1>3. /\ overlaid \in Messages \cup {Bad}
      /\ overlaid # Bad =>
           /\ read # Bad
           /\ \A path \in DOMAIN Kinds : Held(path, Get(read, path)) =>
                Get(overlaid, path) = Bound(path, Get(read, path), IF path \in {} THEN <<>> ELSE ValuesOf(vars, path))
  BY <1>2, SetAllIs
<1> HIDE DEF overlaid
<1>4. b.body # "*" =>
        /\ overlaid # Bad
        /\ \A path \in DOMAIN Kinds : Held(path, Get(overlaid, path)) =>
             Get(message, path) = Bound(path, Get(overlaid, path),
                                        IF path \in taken THEN <<>> ELSE ValuesOf(query, path))
  BY <1>1, <1>3, SetAllIs
<1>5. overlaid # Bad
  BY <1>1, <1>4
<1> SUFFICES ASSUME NEW path \in DOMAIN Kinds
             PROVE  Get(message, path) =
                      FieldOf(path, BodyAt(b, body, path), ValuesOf(vars, path),
                              IF b.body = "*" THEN <<>> ELSE ValuesOf(query, path))
  OBVIOUS
<1> DEFINE base == BodyAt(b, body, path)
           p == ValuesOf(vars, path)
           q == IF b.body = "*" \/ p # <<>> THEN <<>> ELSE ValuesOf(query, path)
<1>6. Get(read, path) = base /\ Held(path, base) /\ base \in Seq(Names)
  BY <1>3, <1>5, FromBodyIs DEF read, Held
<1>7. p \in Seq(Names) /\ q \in Seq(Names)
  <2>1. <<>> \in Seq(Names)
    OBVIOUS
  <2> QED BY <2>1, ValuesOfType
<1>8. path \in taken <=> p # <<>>
  BY NothingGiven DEF taken
<1>9. FieldOf(path, base, p, IF b.body = "*" THEN <<>> ELSE ValuesOf(query, path)) = Bound(path, base, p \o q)
  <2>1. (IF p = <<>> THEN (IF b.body = "*" THEN <<>> ELSE ValuesOf(query, path)) ELSE <<>>) = q
    OBVIOUS
  <2> HIDE DEF base, p, q
  <2>2. (base \o p) \o q = base \o (p \o q)
    BY <1>6, <1>7, ConcatAssociative
  <2> QED BY <2>1, <2>2 DEF FieldOf, Bound
<1>10. Get(overlaid, path) = Bound(path, base, p)
  BY <1>3, <1>5, <1>6
<1> HIDE DEF base, p
<1>11. /\ Held(path, Bound(path, base, p)) /\ Bound(path, base, p) \in Seq(Names)
       /\ Bound(path, Bound(path, base, p), q) = Bound(path, base, p \o q)
       /\ Bound(path, Bound(path, base, p), <<>>) = Bound(path, base, p)
  <2> HIDE DEF q
  <2> DEFINE x == Bound(path, base, p)
  <2>1. Held(path, x) /\ Bound(path, x, q) = Bound(path, base, p \o q)
    BY <1>6, <1>7, BoundIs, BoundTwice
  <2> HIDE DEF x
  <2>2. x \in Seq(Names)
    BY <2>1 DEF Held
  <2>3. Bound(path, x, <<>>) = x
    BY <1>7, <2>1, <2>2, BoundIs
  <2> QED BY <2>1, <2>2, <2>3 DEF x
<1>12. CASE b.body = "*"
  <2>1. message = overlaid /\ q = <<>>
    BY <1>1, <1>12
  <2> QED BY <2>1, <1>9, <1>10, <1>11 DEF base, p
<1>13. CASE b.body # "*"
  <2>1. Get(message, path) = Bound(path, Get(overlaid, path), IF path \in taken THEN <<>> ELSE ValuesOf(query, path))
    BY <1>4, <1>10, <1>11, <1>13
  <2>2. (IF path \in taken THEN <<>> ELSE ValuesOf(query, path)) = q
    BY <1>8, <1>13
  <2> HIDE DEF q
  <2> QED BY <2>1, <2>2, <1>9, <1>10, <1>11 DEF base, p
<1> QED BY <1>12, <1>13

\* What a request should come to: no route, a bad request, or the call of the first
\* binding that fits, with a message that holds what each field should.
AsDeclared(r, verb, parts, query, body) ==
  LET b == Chosen(verb, parts) IN
  /\ r.is \in {"none", "bad", "call"}
  /\ r.is = "none" <=> Candidates(verb, parts) = {}
  /\ r.is = "call" =>
       /\ r.method = b.method
       /\ \A path \in DOMAIN Kinds :
            Get(r.message, path) = RouteMessage(b, parts, query, body)[path]

\* A request that no template fits is no route, whatever its body; one that is routed is
\* the call of the first binding that fits, and every field of its message holds what
\* path, query and body give it, in the order of precedence that PROTOCOL.md states.
THEOREM TranscodeIsDeclared ==
  ASSUME NEW verb, NEW parts \in Names, NEW query \in Pairs,
         NEW body, body = Bad \/ IsMessage(body)
  PROVE  AsDeclared(transcode(verb, parts, query, body), verb, parts, query, body)
<1> DEFINE route == match_request(verb, parts)
           b == Chosen(verb, parts)
           r == transcode(verb, parts, query, body)
           vars == match_segments(b.segments, parts).vars
           message == build_message(b, vars, query, body)
<1>1. CASE Candidates(verb, parts) = {}
  <2>1. ~route.ok
    BY <1>1, RouteIs
  <2>2. r = [is |-> "none"]
    BY <2>1 DEF transcode
  <2>3. r.is = "none"
    BY <2>2
  <2> HIDE DEF r, route, vars, message
  <2>4. AsDeclared(r, verb, parts, query, body)
    BY <2>3, <1>1 DEF AsDeclared
  <2> QED BY <2>4 DEF r
<1>2. CASE Candidates(verb, parts) # {}
  <2>1. route.ok /\ route.binding = b /\ b \in Binding /\ match_segments(b.segments, parts).ok
    BY <1>2, RouteIs
  <2>2. r = IF message = Bad THEN [is |-> "bad"]
            ELSE [is |-> "call", method |-> b.method, message |-> message]
    BY <2>1 DEF transcode
  <2>3. b.segments \in Seq(Segment) /\ RestIsLast(b.segments)
    BY <2>1 DEF Binding, Templates
  <2>4. vars = PathPairs(b.segments, parts) /\ vars \in Pairs
    BY <2>1, <2>3, MatchIs
  <2> HIDE DEF b, r, route, vars
  <2>5. ASSUME message # Bad, NEW path \in DOMAIN Kinds
        PROVE  Get(message, path) = RouteMessage(b, parts, query, body)[path]
    <3>1. Get(message, path) =
            FieldOf(path, BodyAt(b, body, path), ValuesOf(vars, path),
                    IF b.body = "*" THEN <<>> ELSE ValuesOf(query, path))
      <4> HIDE DEF message
      <4>1. message = build_message(b, vars, query, body)
        BY DEF message
      <4> QED BY <4>1, <2>1, <2>4, <2>5, BuildIs
    <3>2. RouteMessage(b, parts, query, body)[path] =
            FieldOf(path, BodyAt(b, body, path), ValuesOf(vars, path),
                    IF b.body = "*" THEN <<>> ELSE ValuesOf(query, path))
      BY <2>4 DEF RouteMessage
    <3> QED BY <3>1, <3>2
  <2> HIDE DEF message
  <2>6. CASE message = Bad
    <3>1. r = [is |-> "bad"]
      BY <2>2, <2>6
    <3>2. r.is = "bad"
      BY <3>1
    <3>3. AsDeclared(r, verb, parts, query, body)
      BY <3>2, <1>2 DEF AsDeclared
    <3> QED BY <3>3 DEF r
  <2>7. CASE message # Bad
    <3>1. r = [is |-> "call", method |-> b.method, message |-> message]
      BY <2>2, <2>7
    <3>2. r.is = "call" /\ r.method = b.method /\ r.message = message
      BY <3>1
    <3>3. \A path \in DOMAIN Kinds :
            Get(r.message, path) = RouteMessage(b, parts, query, body)[path]
      BY <3>2, <2>5, <2>7
    <3>4. AsDeclared(r, verb, parts, query, body)
      BY <3>2, <3>3, <1>2 DEF AsDeclared, b
    <3> QED BY <3>4 DEF r
  <2> QED BY <2>6, <2>7
<1> QED BY <1>1, <1>2
=============================================================================
