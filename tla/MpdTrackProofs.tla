--------------------------- MODULE MpdTrackProofs ---------------------------
(* For every DASH stream (MpdTrack) the collector stays inside the timelines *)
(* of its manifests, init fragments come before the segments they belong to, *)
(* what was culled is not overestimated, and the segments keep their order.  *)
(* Facts about Min and sums of durations, about periods and timelines, about *)
(* a download; then the invariants.                                          *)
EXTENDS MpdTrack, FiniteSetTheorems, TLAPS

-----------------------------------------------------------------------------
(* Smallest and largest elements.                                            *)

\* Every set of numbers has a smallest one.
LEMMA MinIn ==
    ASSUME NEW S, S \subseteq Nat, S # {}
    PROVE  Min(S) \in S /\ \A y \in S : Min(S) <= y
<1>. DEFINE F == {0..y : y \in S}
<1>1. F \subseteq FiniteSubsetsOf(Nat) /\ F # {}
  <2>1. \A y \in S : IsFiniteSet(0..y) /\ 0..y \in SUBSET Nat
    BY FS_Interval
  <2>. QED  BY <2>1 DEF FiniteSubsetsOf
<1>2. PICK U \in F : \A T \in F : <<T, U>> \notin StrictSubsetOrdering(Nat)
  <2>. HIDE DEF F
  <2>. QED BY <1>1, FS_StrictSubsetOrderingWellFounded, WFMin
<1>3. PICK x \in S : U = 0..x
  BY <1>2
<1>4. ASSUME NEW y \in S, y < x PROVE FALSE
  <2>1. 0..y \in F /\ 0..y \subseteq 0..x /\ x \notin 0..y /\ x \in 0..x
    BY <1>4
  <2>2. <<0..y, 0..x>> \in StrictSubsetOrdering(Nat)
    BY <2>1 DEF StrictSubsetOrdering
  <2>. QED  BY <1>2, <1>3, <2>1, <2>2
<1>5. \A y \in S : x <= y
  BY <1>4
<1>. QED BY <1>5 DEF Min

\* Every set of bounded numbers has a largest one.
LEMMA LargestExists ==
    ASSUME NEW n \in Nat, NEW S, S \subseteq 0..n, S # {}
    PROVE  \E x \in S : \A y \in S : y <= x
<1>. DEFINE R == {n - y : y \in S}
<1>1. R \subseteq Nat /\ R # {}
  OBVIOUS
<1>2. PICK m \in R : \A y \in R : m <= y
  <2>. HIDE DEF R
  <2>. QED  BY <1>1, MinIn
<1>3. PICK x \in S : m = n - x
  BY <1>2
<1>4. ASSUME NEW y \in S PROVE y <= x
  <2>1. n - x <= n - y
    BY <1>2, <1>3
  <2>2. x \in Nat /\ y \in Nat
    OBVIOUS
  <2>. QED  BY <2>1, <2>2
<1>. QED  BY <1>4

\* The larger and the smaller of two numbers.
LEMMA OfTwo ==
    ASSUME NEW a \in Int, NEW b \in Int
    PROVE  /\ Max({a, b}) \in {a, b} /\ Max({a, b}) >= a /\ Max({a, b}) >= b
           /\ Min({a, b}) \in {a, b} /\ Min({a, b}) <= a /\ Min({a, b}) <= b
<1>1. \E x \in {a, b} : \A y \in {a, b} : x >= y
  OBVIOUS
<1>2. \E x \in {a, b} : \A y \in {a, b} : x <= y
  OBVIOUS
<1>. QED BY <1>1, <1>2 DEF Max, Min

-----------------------------------------------------------------------------
(* Sums of durations.                                                      *)

\* A nonempty set of subsets of a finite set has a smallest one.
LEMMA SmallestSubset ==
    ASSUME NEW S, IsFiniteSet(S), NEW Q \in SUBSET SUBSET S, Q # {}
    PROVE  \E U \in Q : \A V \in Q : V \subseteq U => V = U
<1>1. Q \subseteq FiniteSubsetsOf(S)
  BY FS_Subset DEF FiniteSubsetsOf
<1>2. PICK U \in Q : \A V \in Q : <<V, U>> \notin StrictSubsetOrdering(S)
  BY <1>1, FS_StrictSubsetOrderingWellFounded, WFMin
<1>. QED  BY <1>2 DEF StrictSubsetOrdering

\* The durations of the periods in S, as GetCulledSeconds adds them up.
Chosen(S) == CHOOSE x \in S : TRUE
Durations(info, S) == MapThenSumSet(LAMBDA i : info[i].duration, S)
Adds(g, info, S) ==
  g = [T \in SUBSET S |->
         IF T = {} THEN 0 ELSE info[Chosen(T)].duration + g[T \ {Chosen(T)}]]

Timed(info, S) == \A i \in S : info[i].duration \in Int
Additive(g, info, S) ==
  \A T \in SUBSET S :
    g[T] \in Int /\ \A x \in T : g[T] = info[x].duration + g[T \ {x}]

LEMMA ChosenIn ==
    ASSUME NEW S, S # {}
    PROVE  Chosen(S) \in S
BY DEF Chosen

LEMMA AddsExists ==
    ASSUME NEW S, IsFiniteSet(S), NEW info
    PROVE  \E g : Adds(g, info, S)
<1>. DEFINE Small(n) == {T \in SUBSET S : Cardinality(T) <= n}
            Upto(g, n) ==
              g = [T \in Small(n) |->
                     IF T = {} THEN 0 ELSE info[Chosen(T)].duration + g[T \ {Chosen(T)}]]
            Bad == {n \in Nat : ~\E g : Upto(g, n)}
<1>1. ASSUME Bad # {} PROVE FALSE
  <2>1. Min(Bad) \in Bad /\ \A y \in Bad : Min(Bad) <= y
    <3>1. Bad \subseteq Nat
      OBVIOUS
    <3>. HIDE DEF Bad
    <3>. QED  BY <1>1, <3>1, MinIn
  <2>. DEFINE m == Min(Bad)
  <2>2. m # 0
    <3>1. Small(0) = {{}}
      <4>1. \A T \in SUBSET S : IsFiniteSet(T) /\ Cardinality(T) \in Nat
        BY FS_Subset, FS_CardinalityType
      <4>2. \A T \in SUBSET S : Cardinality(T) <= 0 <=> T = {}
        BY <4>1, FS_EmptySet
      <4>. QED  BY <4>2
    <3>2. Upto([T \in Small(0) |-> 0], 0)
      BY <3>1
    <3>. QED  BY <2>1, <3>2
  <2>3. PICK n \in Nat : m = n + 1
    <3>1. m \in Nat
      BY <2>1
    <3>. HIDE DEF m
    <3>. QED  BY <2>2, <3>1
  <2>4. n \notin Bad
    <3>. HIDE DEF Bad
    <3>. QED  BY <2>1, <2>3
  <2>5. PICK h : Upto(h, n)
    BY <2>4
  <2>. DEFINE e(T, g) ==
                IF T = {} THEN 0 ELSE info[Chosen(T)].duration + g[T \ {Chosen(T)}]
              k == [T \in Small(m) |-> e(T, h)]
  <2>6. ASSUME NEW T \in Small(m), T # {} PROVE T \ {Chosen(T)} \in Small(n)
    <3>1. IsFiniteSet(T) /\ Chosen(T) \in T /\ Cardinality(T) \in Nat
      BY <2>6, FS_Subset, FS_CardinalityType, ChosenIn
    <3>2. Cardinality(T \ {Chosen(T)}) = Cardinality(T) - 1 /\ Cardinality(T) <= m
      BY <3>1, FS_RemoveElement
    <3>3. Cardinality(T \ {Chosen(T)}) <= n
      <4>. HIDE DEF m
      <4>. QED  BY <2>3, <3>1, <3>2
    <3>. QED  BY <3>3
  <2>7. ASSUME NEW T \in Small(n) PROVE k[T] = h[T]
    <3>1. T \in Small(m)
      <4>1. Cardinality(T) \in Nat
        BY FS_Subset, FS_CardinalityType
      <4>2. Cardinality(T) <= m
        <5>. HIDE DEF m
        <5>. QED  BY <2>3, <4>1
      <4>. QED  BY <4>2
    <3>2. h = [U \in Small(n) |-> e(U, h)]
      BY <2>5
    <3>. HIDE DEF e, Small, m
    <3>. QED  BY <3>1, <3>2
  <2>8. \A T \in Small(m) : e(T, h) = e(T, k)
    BY <2>6, <2>7
  <2>9. Upto(k, m)
    <3>1. k = [T \in Small(m) |-> e(T, k)]
      <4>. HIDE DEF e, Small, m
      <4>. QED  BY <2>8
    <3>. QED  BY <3>1
  <2>. QED  BY <2>1, <2>9
<1>2. Cardinality(S) \in Nat
  BY FS_CardinalityType
<1>3. PICK g : Upto(g, Cardinality(S))
  BY <1>1, <1>2
<1>4. Small(Cardinality(S)) = SUBSET S
  BY FS_Subset
<1>. QED  BY <1>3, <1>4 DEF Adds

LEMMA DurationsAre ==
    ASSUME NEW S, IsFiniteSet(S), NEW info
    PROVE  \E g : Adds(g, info, S) /\ Durations(info, S) = g[S]
<1>1. PICK g : Adds(g, info, S)
  BY AddsExists
<1>. QED  BY <1>1 DEF Durations, MapThenSumSet, MapThenFoldSet, Adds, Chosen

\* The sum over a part of a set.
LEMMA AddsAgree ==
    ASSUME NEW S, IsFiniteSet(S), NEW R \in SUBSET S, NEW info, NEW g, NEW h,
           Adds(g, info, S), Adds(h, info, R)
    PROVE  \A T \in SUBSET R : h[T] = g[T]
<1>. DEFINE Bad == {T \in SUBSET R : h[T] # g[T]}
<1>1. ASSUME Bad # {} PROVE FALSE
  <2>1. PICK U \in Bad : \A V \in Bad : V \subseteq U => V = U
    <3>1. Bad \in SUBSET SUBSET S
      OBVIOUS
    <3>. HIDE DEF Bad
    <3>. QED  BY <1>1, <3>1, SmallestSubset
  <2>2. U # {}
    BY DEF Adds
  <2>3. Chosen(U) \in U
    BY <2>2, ChosenIn
  <2>4. U \ {Chosen(U)} \notin Bad
    BY <2>1, <2>3
  <2>5. h[U \ {Chosen(U)}] = g[U \ {Chosen(U)}]
    BY <2>4
  <2>6. h[U] = info[Chosen(U)].duration + h[U \ {Chosen(U)}]
    BY <2>2 DEF Adds
  <2>7. g[U] = info[Chosen(U)].duration + g[U \ {Chosen(U)}]
    BY <2>2 DEF Adds
  <2>. QED  BY <2>5, <2>6, <2>7
<1>. QED  BY <1>1

\* The order in which the periods are added up does not matter.
LEMMA AddsAny ==
    ASSUME NEW S, IsFiniteSet(S), NEW info, NEW g, Adds(g, info, S), Timed(info, S)
    PROVE  Additive(g, info, S)
<1>0. g[{}] = 0
  BY DEF Adds
<1>1. ASSUME NEW T \in SUBSET S, T # {}
      PROVE  Chosen(T) \in T /\ g[T] = info[Chosen(T)].duration + g[T \ {Chosen(T)}]
  BY <1>1, ChosenIn DEF Adds
<1>. DEFINE Good(T) == g[T] \in Int /\ \A x \in T : g[T] = info[x].duration + g[T \ {x}]
            Bad == {T \in SUBSET S : ~Good(T)}
<1>2. ASSUME Bad # {} PROVE FALSE
  <2>1. PICK U \in Bad : \A V \in Bad : V \subseteq U => V = U
    <3>1. Bad \in SUBSET SUBSET S
      OBVIOUS
    <3>. HIDE DEF Bad
    <3>. QED  BY <1>2, <3>1, SmallestSubset
  <2>2. U # {}
    <3>1. Good({})
      BY <1>0
    <3>. QED  BY <2>1, <3>1
  <2>. DEFINE y == Chosen(U)
  <2>3. y \in U /\ g[U] = info[y].duration + g[U \ {y}]
    BY <1>1, <2>2
  <2>4. \A x \in U : Good(U \ {x})
    BY <2>1
  <2>5. g[U \ {y}] \in Int /\ info[y].duration \in Int
    BY <2>3, <2>4 DEF Timed
  <2>6. g[U] \in Int
    BY <2>3, <2>5
  <2>7. ASSUME NEW x \in U, x # y PROVE g[U] = info[x].duration + g[U \ {x}]
    <3>1. x \in U \ {y} /\ y \in U \ {x}
      BY <2>3, <2>7
    <3>2. g[U \ {y}] = info[x].duration + g[(U \ {y}) \ {x}]
      BY <2>3, <2>4, <3>1
    <3>3. g[U \ {x}] = info[y].duration + g[(U \ {x}) \ {y}] /\ g[U \ {x}] \in Int
      BY <2>3, <2>4, <3>1
    <3>4. (U \ {y}) \ {x} = (U \ {x}) \ {y}
      OBVIOUS
    <3>5. g[(U \ {y}) \ {x}] \in Int
      <4>1. U \ {y} \notin Bad /\ (U \ {x}) \ {y} \subseteq U /\ (U \ {x}) \ {y} # U
        BY <2>1, <2>3
      <4>2. (U \ {x}) \ {y} \notin Bad
        BY <2>1, <4>1
      <4>. QED  BY <3>4, <4>2
    <3>6. info[x].duration \in Int
      BY DEF Timed
    <3>. DEFINE a == g[U]
                b == g[U \ {y}]
                c == g[U \ {x}]
                d == g[(U \ {y}) \ {x}]
                dx == info[x].duration
                dy == info[y].duration
    <3>7. a = dy + b /\ b = dx + d /\ c = dy + d /\ d \in Int /\ dx \in Int /\ dy \in Int
      BY <2>3, <2>5, <3>2, <3>3, <3>4, <3>5, <3>6
    <3>8. a = dx + c
      <4>. HIDE DEF a, b, c, d, dx, dy
      <4>. QED  BY <3>7
    <3>. QED  BY <3>8
  <2>8. Good(U)
    BY <2>3, <2>6, <2>7
  <2>. QED  BY <2>8
<1>. QED  BY <1>2 DEF Additive

\* What the sum of the durations is.
LEMMA DurationsSum ==
    ASSUME NEW S, IsFiniteSet(S), NEW info, Timed(info, S)
    PROVE  /\ Durations(info, S) \in Int
           /\ S = {} => Durations(info, S) = 0
           /\ \A x \in S : Durations(info, S) = info[x].duration + Durations(info, S \ {x})
<1>1. PICK g : Adds(g, info, S) /\ Durations(info, S) = g[S]
  BY DurationsAre
<1>2. Additive(g, info, S)
  BY <1>1, AddsAny
<1>3. ASSUME NEW x \in S PROVE Durations(info, S \ {x}) = g[S \ {x}]
  <2>1. IsFiniteSet(S \ {x}) /\ S \ {x} \in SUBSET S
    BY FS_Subset
  <2>2. PICK h : Adds(h, info, S \ {x}) /\ Durations(info, S \ {x}) = h[S \ {x}]
    BY <2>1, DurationsAre
  <2>3. Adds(g, info, S) /\ Adds(h, info, S \ {x})
    BY <1>1, <2>2
  <2>4. \A T \in SUBSET (S \ {x}) : h[T] = g[T]
    BY <2>1, <2>3, AddsAgree
  <2>. QED  BY <2>2, <2>4
<1>4. S = {} => g[S] = 0
  BY <1>1 DEF Adds
<1>. QED  BY <1>1, <1>2, <1>3, <1>4 DEF Additive

-----------------------------------------------------------------------------
(* Streams and their timelines.                                              *)

\* A window on the stream, as the server and a manifest hold one.
Window(w) == w.first \in Segments /\ w.last \in Segments /\ w.first <= w.last

\* The fields of a stream.
LEMMA StreamFields ==
    ASSUME stream \in Streams
    PROVE  /\ stream \in Stream
           /\ Len(stream.segs) \in Nat \ {0}
           /\ \A i \in Segments : Seg(i) \in [p : Nat \ {0}, row : Nat \ {0}, t : Nat]
           /\ stream.start \in Segments /\ stream.initial \in Segments
           /\ stream.start <= stream.initial
<1>1. stream \in Stream /\ stream.start <= stream.initial /\ stream.initial <= Len(stream.segs)
  BY MpdAssumption
<1>2. /\ stream.segs \in Seq([p : Nat \ {0}, row : Nat \ {0}, t : Nat])
      /\ stream.start \in Nat \ {0} /\ stream.initial \in Nat \ {0}
  BY <1>1 DEF Stream
<1>3. Len(stream.segs) \in Nat \ {0}
  BY <1>1, <1>2
<1>. DEFINE R == [p : Nat \ {0}, row : Nat \ {0}, t : Nat]
<1>4. \A i \in 1..Len(stream.segs) : stream.segs[i] \in R
  <2>1. stream.segs \in Seq(R)
    BY <1>2
  <2>. HIDE DEF R
  <2>. QED  BY <2>1
<1>5. stream.start \in Segments /\ stream.initial \in Segments
  <2>. DEFINE a == stream.start
              b == stream.initial
              n == Len(stream.segs)
  <2>1. a \in Nat \ {0} /\ b \in Nat \ {0} /\ n \in Nat \ {0} /\ a <= b /\ b <= n
    BY <1>1, <1>2, <1>3
  <2>2. a \in 1..n /\ b \in 1..n
    <3>. HIDE DEF a, b, n
    <3>. QED  BY <2>1
  <2>. QED  BY <2>2 DEF Segments
<1>. QED  BY <1>1, <1>3, <1>4, <1>5 DEF Segments, Seg

\* How the segments of a stream follow each other.
LEMMA Sequence ==
    ASSUME stream \in Streams
    PROVE  /\ Seg(1).p = 1
           /\ \A i \in Segments : \A p \in 1..Seg(i).p : \E j \in Segments : Seg(j).p = p
           /\ \A i \in Segments : \A r \in 1..Seg(i).row :
                \E j \in Segments : Seg(j).p = Seg(i).p /\ Seg(j).row = r
           /\ \A i, j \in Segments : i <= j =>
                /\ Seg(i).p <= Seg(j).p
                /\ Seg(i).p = Seg(j).p => Seg(i).row <= Seg(j).row
                /\ Seg(i).p = Seg(j).p /\ Seg(i).row = Seg(j).row =>
                     Seg(j).t = Seg(i).t + (j - i) * D
<1>1. InSequence(stream.segs)
  BY MpdAssumption
<1>. QED  BY <1>1 DEF InSequence, Segments, Seg

\* The numbers of the periods.
LEMMA PeriodNumbers ==
    ASSUME stream \in Streams
    PROVE  /\ Seg(Len(stream.segs)).p \in Nat \ {0}
           /\ \A i \in Segments : Seg(i).p \in Periods
           /\ \A p \in Periods : stream.pto[p] \in Nat
<1>1. Len(stream.segs) \in Segments
  BY StreamFields DEF Segments
<1>2. Seg(Len(stream.segs)).p \in Nat \ {0}
  BY <1>1, StreamFields
<1>3. ASSUME NEW i \in Segments
      PROVE  Seg(i).p <= Seg(Len(stream.segs)).p /\ Seg(i).p \in Nat \ {0}
  <2>1. i <= Len(stream.segs)
    BY StreamFields DEF Segments
  <2>. QED  BY <1>1, <2>1, Sequence, StreamFields
<1>4. \A p \in Periods : stream.pto[p] \in Nat
  <2>1. stream.pto \in Seq(Nat) /\ Seg(Len(stream.segs)).p <= Len(stream.pto)
    BY MpdAssumption DEF Stream, Seg
  <2>. QED  BY <1>2, <2>1 DEF Periods
<1>. QED  BY <1>2, <1>3, <1>4 DEF Periods

\* A window has a segment of each period between its first and its last.
LEMMA PeriodNotEmpty ==
    ASSUME stream \in Streams, NEW w, Window(w),
           NEW p \in FirstPeriod(w)..LastPeriod(w)
    PROVE  InPeriod(w, p) # {} /\ InPeriod(w, p) \subseteq Segments /\ p \in Periods
<1>. DEFINE f == w.first
            l == w.last
<1>1. /\ f \in Segments /\ l \in Segments /\ f <= l
      /\ Seg(f).p \in Nat \ {0} /\ Seg(l).p \in Nat \ {0} /\ p \in Seg(f).p..Seg(l).p
  BY StreamFields DEF Window, FirstPeriod, LastPeriod
<1>2. Segments \subseteq Nat /\ f..l \subseteq Segments
  <2>1. Segments \subseteq Nat
    BY DEF Segments
  <2>2. ASSUME NEW i \in f..l PROVE i \in Segments
    <3>. DEFINE n == Len(stream.segs)
    <3>1. n \in Nat /\ f \in 1..n /\ l \in 1..n
      BY <1>1, StreamFields DEF Segments
    <3>2. i \in 1..n
      <4>. HIDE DEF n, f, l
      <4>. QED  BY <3>1
    <3>. QED  BY <3>2 DEF Segments
  <2>. QED  BY <2>1, <2>2
<1>3. PICK j \in Segments : Seg(j).p = p
  BY <1>1, Sequence
<1>4. \E i \in f..l : Seg(i).p = p
  <2>. HIDE DEF f, l
  <2>0. f \in Nat /\ l \in Nat /\ j \in Nat
    BY <1>1, <1>2
  <2>1. CASE p = Seg(f).p
    <3>1. f \in f..l
      BY <1>1, <2>0
    <3>. QED  BY <2>1, <3>1
  <2>2. CASE p = Seg(l).p
    <3>1. l \in f..l
      BY <1>1, <2>0
    <3>. QED  BY <2>2, <3>1
  <2>3. CASE p # Seg(f).p /\ p # Seg(l).p
    <3>1. Seg(f).p < p /\ p < Seg(l).p
      BY <1>1, <2>3
    <3>2. j <= f => p <= Seg(f).p
      BY <1>1, <1>3, Sequence
    <3>3. l <= j => Seg(l).p <= p
      BY <1>1, <1>3, Sequence
    <3>4. j \in f..l
      BY <1>1, <2>0, <3>1, <3>2, <3>3
    <3>. QED  BY <1>3, <3>4
  <2>. QED  BY <2>1, <2>2, <2>3
<1>5. InPeriod(w, p) = {i \in f..l : Seg(i).p = p}
  BY DEF InPeriod
<1>. QED  BY <1>2, <1>3, <1>4, <1>5, PeriodNumbers

\* An S element as the timeline lists it: where it begins and how often it repeats.
Element == [t : Nat, repeat : Nat]

TimelineOK(tl) ==
  /\ tl \in Seq(Element) /\ Len(tl) \in 1..Len(stream.segs)
  /\ \A j \in DOMAIN tl : tl[j].repeat < Len(stream.segs)

\* The rows of a period in a window are numbered one after the other.
Rows(w, p) == {Seg(i).row : i \in InPeriod(w, p)}

LEMMA RowsInterval ==
    ASSUME stream \in Streams, NEW w, Window(w),
           NEW p \in FirstPeriod(w)..LastPeriod(w)
    PROVE  /\ IsFiniteSet(InPeriod(w, p))
           /\ Cardinality(InPeriod(w, p)) <= Len(stream.segs)
           /\ Rows(w, p) \subseteq Nat \ {0}
           /\ Cardinality(Rows(w, p)) \in 1..Len(stream.segs)
           /\ \E a, c \in Nat \ {0} :
                /\ a <= c /\ Rows(w, p) = a..c /\ Min(Rows(w, p)) = a
                /\ Cardinality(Rows(w, p)) = c - a + 1
<1>. DEFINE I == InPeriod(w, p)
            rows == {Seg(i).row : i \in I}
            N == Len(stream.segs)
<1>1. I # {} /\ I \subseteq Segments /\ N \in Nat \ {0} /\ \A i \in I : Seg(i).p = p
  BY PeriodNotEmpty, StreamFields DEF InPeriod
<1>2. IsFiniteSet(I) /\ Cardinality(I) <= N
  <2>1. IsFiniteSet(1..N) /\ Cardinality(1..N) = N
    BY <1>1, FS_Interval
  <2>2. I \in SUBSET (1..N)
    BY <1>1 DEF Segments
  <2>. HIDE DEF I, N
  <2>. QED  BY <2>1, <2>2, FS_Subset
<1>3. rows # {} /\ rows \subseteq Nat \ {0}
  BY <1>1, StreamFields
<1>4. IsFiniteSet(rows) /\ Cardinality(rows) \in 1..N
  <2>1. [i \in I |-> Seg(i).row] \in Surjection(I, rows)
    BY DEF Surjection
  <2>2. IsFiniteSet(rows) /\ Cardinality(rows) <= Cardinality(I)
    BY <1>2, <2>1, FS_Surjection
  <2>. HIDE DEF rows, I, N
  <2>. QED  BY <1>1, <1>2, <1>3, <2>2, FS_CardinalityType, FS_EmptySet
<1>. DEFINE a == Min(rows)
            n == Cardinality(rows)
<1>5. a \in rows /\ \A r \in rows : a <= r
  <2>. HIDE DEF rows
  <2>. QED  BY <1>3, MinIn
<1>6. PICK c \in rows : \A r \in rows : r <= c
  <2>1. PICK k \in I : \A i \in I : i <= k
    <3>1. I \subseteq 0..N
      BY <1>1 DEF Segments
    <3>. HIDE DEF I, N
    <3>. QED  BY <1>1, <3>1, LargestExists
  <2>2. ASSUME NEW i \in I PROVE Seg(i).row <= Seg(k).row
    <3>1. i \in Segments /\ k \in Segments /\ i <= k /\ Seg(i).p = Seg(k).p
      BY <1>1, <2>1
    <3>. QED  BY <3>1, Sequence
  <2>. QED  BY <2>2
<1>7. a \in Nat \ {0} /\ c \in Nat /\ a <= c
  BY <1>3, <1>5, <1>6
<1>8. rows = a..c
  <2>1. ASSUME NEW r \in a..c PROVE r \in rows
    <3>1. PICK x \in I : Seg(x).row = a
      BY <1>5
    <3>2. PICK y \in I : Seg(y).row = c
      OBVIOUS
    <3>3. r \in 1..Seg(y).row
      BY <1>7, <3>2
    <3>4. PICK j \in Segments : Seg(j).p = p /\ Seg(j).row = r
      BY <1>1, <3>2, <3>3, Sequence
    <3>5. CASE r = a \/ r = c
      BY <1>5, <3>5
    <3>6. CASE r # a /\ r # c
      <4>1. ~(j <= x)
        BY <1>1, <1>7, <3>1, <3>4, <3>6, Sequence
      <4>2. ~(y <= j)
        BY <1>1, <1>7, <3>2, <3>4, <3>6, Sequence
      <4>3. j \in w.first..w.last
        <5>1. x \in w.first..w.last /\ y \in w.first..w.last
          BY DEF InPeriod
        <5>. QED  BY <1>1, <4>1, <4>2, <5>1 DEF Window, Segments
      <4>. QED  BY <3>4, <4>3 DEF InPeriod
    <3>. QED  BY <3>5, <3>6
  <2>2. ASSUME NEW r \in rows PROVE r \in a..c
    BY <1>3, <1>5, <1>6, <1>7
  <2>. QED  BY <2>1, <2>2
<1>9. n = c - a + 1
  <2>. HIDE DEF a, rows
  <2>. QED  BY <1>7, <1>8, FS_Interval
<1>10. Rows(w, p) = rows
  BY DEF Rows
<1>11. c \in Nat \ {0}
  BY <1>3
<1>. HIDE DEF rows, I, a, n, N
<1>. QED  BY <1>2, <1>3, <1>4, <1>7, <1>8, <1>9, <1>10, <1>11 DEF I, N, a, n

\* The timeline of a period has an element for each row of its segments in the window.
LEMMA TimelineType ==
    ASSUME stream \in Streams, NEW w, Window(w),
           NEW p \in FirstPeriod(w)..LastPeriod(w)
    PROVE  TimelineOK(Timeline(w, p))
<1>. DEFINE I == InPeriod(w, p)
            rows == {Seg(i).row : i \in I}
            Row(r) == {i \in I : Seg(i).row = r}
            N == Len(stream.segs)
<1>1. I # {} /\ I \subseteq Segments /\ N \in Nat \ {0} /\ \A i \in I : Seg(i).p = p
  BY PeriodNotEmpty, StreamFields DEF InPeriod
<1>2. IsFiniteSet(I) /\ Cardinality(I) <= N
  BY RowsInterval
<1>3. rows = Rows(w, p)
  BY DEF Rows
<1>4. Cardinality(rows) \in 1..N
  BY <1>3, RowsInterval
<1>. DEFINE a == Min(rows)
            n == Cardinality(rows)
<1>5. PICK c \in Nat \ {0} : a \in Nat \ {0} /\ a <= c /\ rows = a..c /\ n = c - a + 1
  BY <1>3, RowsInterval
<1>10. ASSUME NEW j \in 1..n
       PROVE  LET K == Row(a + j - 1)
              IN  /\ Seg(Min(K)).t \in Nat /\ Cardinality(K) - 1 \in Nat
                  /\ Cardinality(K) - 1 < N
  <2>. DEFINE K == Row(a + j - 1)
  <2>1. a + j - 1 \in rows
    <3>. HIDE DEF rows, n, a
    <3>. QED  BY <1>5
  <2>2. K # {} /\ K \subseteq I /\ K \subseteq Nat
    <3>1. PICK i \in I : Seg(i).row = a + j - 1
      BY <2>1
    <3>2. i \in K
      BY <3>1
    <3>3. I \subseteq Nat
      BY <1>1 DEF Segments
    <3>4. K \subseteq I
      OBVIOUS
    <3>. HIDE DEF K, I
    <3>. QED  BY <3>2, <3>3, <3>4
  <2>3. Min(K) \in K
    <3>. HIDE DEF K
    <3>. QED  BY <2>2, MinIn
  <2>4. Seg(Min(K)).t \in Nat
    BY <1>1, <2>3, StreamFields
  <2>5. IsFiniteSet(K) /\ Cardinality(K) \in Nat \ {0} /\ Cardinality(K) <= Cardinality(I)
    <3>. HIDE DEF K, I
    <3>. QED  BY <1>2, <2>2, FS_Subset, FS_CardinalityType, FS_EmptySet
  <2>6. Cardinality(I) \in Nat
    <3>. HIDE DEF I
    <3>. QED  BY <1>2, FS_CardinalityType
  <2>7. Cardinality(K) - 1 \in Nat /\ Cardinality(K) - 1 < N
    <3>. HIDE DEF K, I, N
    <3>. QED  BY <1>1, <1>2, <2>5, <2>6
  <2>. QED  BY <2>4, <2>7
<1>11. Timeline(w, p) = [j \in 1..n |-> LET K == Row(a + j - 1)
                                       IN  [t |-> Seg(Min(K)).t, repeat |-> Cardinality(K) - 1]]
  BY DEF Timeline
<1>. HIDE DEF a, n, rows, I, Row, N
<1>12. \A j \in 1..n : [t |-> Seg(Min(Row(a + j - 1))).t,
                        repeat |-> Cardinality(Row(a + j - 1)) - 1] \in Element
  BY <1>10 DEF Element
<1>13. Timeline(w, p) \in [1..n -> Element] /\ n \in Nat
  <2>. DEFINE e(j) == [t |-> Seg(Min(Row(a + j - 1))).t,
                       repeat |-> Cardinality(Row(a + j - 1)) - 1]
  <2>1. Timeline(w, p) = [j \in 1..n |-> e(j)]
    BY <1>11
  <2>2. \A j \in 1..n : e(j) \in Element
    BY <1>12
  <2>3. n \in Nat
    BY <1>4 DEF n
  <2>. HIDE DEF e
  <2>. QED  BY <2>1, <2>2, <2>3
<1>14. Timeline(w, p) \in Seq(Element) /\ Len(Timeline(w, p)) = n
  BY <1>13
<1>15. ASSUME NEW j \in DOMAIN Timeline(w, p)
       PROVE  Timeline(w, p)[j].repeat < N
  <2>1. j \in 1..n
    BY <1>11
  <2>2. Timeline(w, p)[j].repeat = Cardinality(Row(a + j - 1)) - 1
    BY <1>11, <2>1
  <2>. QED  BY <1>10, <2>1, <2>2
<1>16. n \in 1..N
  BY <1>4 DEF n
<1>. QED  BY <1>14, <1>15, <1>16 DEF N, TimelineOK

-----------------------------------------------------------------------------
(* A track that moves in a timeline.                                         *)

\* q is the track r at another place of its timeline.
Moved(r, q) ==
  /\ q \in MediaStreamContext
  /\ q.enabled = r.enabled /\ q.init = r.init /\ q.ring = r.ring
  /\ q.profileChanged = r.profileChanged /\ q.discontinuity = r.discontinuity
  /\ q.last = r.last /\ q.failCount = r.failCount

\* The track r there.
At(r, row, rep, time) == [r EXCEPT !.row = row, !.rep = rep, !.time = time]

LEMMA AtMoves ==
    ASSUME NEW r \in MediaStreamContext, NEW row \in 1..Len(stream.segs) + 1,
           NEW rep \in 0..Len(stream.segs) + 1, NEW time \in Nat
    PROVE  Moved(r, At(r, row, rep, time)) /\ At(r, row, rep, time).row = row
BY DEF Moved, MediaStreamContext, At

LEMMA AtSelf ==
    ASSUME NEW r \in MediaStreamContext
    PROVE  /\ r = At(r, r.row, r.rep, r.time)
           /\ r.row \in 1..Len(stream.segs) + 1 /\ r.rep \in 0..Len(stream.segs) + 1
           /\ r.time \in Nat /\ r.last \in Nat
BY DEF MediaStreamContext, At

LEMMA AtTime ==
    ASSUME NEW r \in MediaStreamContext, NEW time
    PROVE  [r EXCEPT !.time = time] = At(r, r.row, r.rep, time)
BY DEF MediaStreamContext, At

LEMMA AtRepeat ==
    ASSUME NEW r \in MediaStreamContext, NEW rep, NEW time
    PROVE  [r EXCEPT !.time = time, !.rep = rep] = At(r, r.row, rep, time)
BY DEF MediaStreamContext, At

\* What a track needs of a timeline it is in.
LEMMA OneTimeline ==
    ASSUME stream \in Streams, NEW tl, TimelineOK(tl)
    PROVE  /\ \A j \in 1..Len(tl) : /\ tl[j].t \in Nat /\ tl[j].repeat \in Nat
                                    /\ tl[j].repeat < Len(stream.segs)
                                    /\ j <= Len(stream.segs)
           /\ DOMAIN tl = 1..Len(tl)
           /\ Len(tl) \in 1..Len(tl)
           /\ Len(stream.segs) \in Nat
<1>0. tl \in Seq(Element) /\ Len(tl) \in 1..Len(stream.segs)
  BY DEF TimelineOK
<1>1. Len(stream.segs) \in Nat
  BY StreamFields
<1>. DEFINE n == Len(stream.segs)
            l == Len(tl)
<1>2. l \in 1..l /\ \A j \in 1..l : j <= n
  <2>1. n \in Nat /\ l \in 1..n
    BY <1>0, <1>1
  <2>. HIDE DEF n, l
  <2>. QED  BY <2>1
<1>3. \A j \in 1..Len(tl) : tl[j] \in Element
  BY <1>0
<1>4. \A j \in 1..Len(tl) : tl[j].repeat < Len(stream.segs)
  BY <1>0 DEF TimelineOK
<1>. QED  BY <1>0, <1>1, <1>2, <1>3, <1>4 DEF Element

LEMMA FromOffsetMoves ==
    ASSUME stream \in Streams, NEW tl, TimelineOK(tl), NEW r \in MediaStreamContext, NEW pto \in Nat, r.row <= Len(tl)
    PROVE  Moved(r, FromOffset(r, tl, pto)) /\ FromOffset(r, tl, pto).row \in 1..Len(tl)
<1>. DEFINE found == {j \in DOMAIN tl : End(tl[j]) > pto + 1}
            j == Min(found)
            n == Cardinality({k \in 1..tl[j].repeat : tl[j].t + k * D <= pto + 1})
            N == Len(stream.segs)
            l == Len(tl)
<1>1. /\ \A i \in 1..l : tl[i].t \in Nat /\ tl[i].repeat \in Nat /\ tl[i].repeat < N /\ i <= N
      /\ l \in 1..l /\ N \in Nat
  BY OneTimeline
<1>2. r.row \in 1..l
  BY DEF MediaStreamContext
<1>3. ASSUME found # {}
      PROVE  j \in 1..l /\ j \in 1..N + 1 /\ n \in 0..N + 1 /\ tl[j].t + n * D \in Nat
  <2>1. j \in 1..l
    <3>1. found \subseteq Nat /\ found \subseteq 1..l
      OBVIOUS
    <3>. HIDE DEF found
    <3>. QED  BY <1>3, <3>1, MinIn
  <2>. DEFINE rp == tl[j].repeat
              K == {k \in 1..rp : tl[j].t + k * D <= pto + 1}
  <2>2. rp \in Nat /\ rp < N /\ tl[j].t \in Nat /\ j <= N
    BY <1>1, <2>1
  <2>3. IsFiniteSet(1..rp) /\ Cardinality(1..rp) = rp
    <3>. HIDE DEF rp
    <3>. QED  BY <2>2, FS_Interval
  <2>4. IsFiniteSet(K) /\ Cardinality(K) <= rp
    <3>1. K \in SUBSET (1..rp)
      OBVIOUS
    <3>. HIDE DEF K, rp
    <3>. QED  BY <2>3, <3>1, FS_Subset
  <2>5. n \in Nat /\ n <= rp
    <3>1. n = Cardinality(K)
      OBVIOUS
    <3>. HIDE DEF K, n, rp
    <3>. QED  BY <2>4, <3>1, FS_CardinalityType
  <2>. HIDE DEF n, N, j, rp, l
  <2>. QED  BY <1>1, <2>1, <2>2, <2>5 DEF D
<1>. HIDE DEF found, j, n, N, l
<1>4. FromOffset(r, tl, pto) =
        IF tl[1].t \in {0, pto} THEN At(r, r.row, r.rep, pto)
        ELSE IF found = {} THEN At(r, r.row, 0, tl[l].t)
        ELSE At(r, j, n, tl[j].t + n * D)
  <2>1. FromOffset(r, tl, pto) =
          IF tl[1].t \in {0, pto} THEN [r EXCEPT !.time = pto]
          ELSE IF found = {} THEN [r EXCEPT !.time = tl[l].t, !.rep = 0]
          ELSE [r EXCEPT !.row = j, !.rep = n, !.time = tl[j].t + n * D]
    BY DEF FromOffset, found, j, n, l
  <2>2. [r EXCEPT !.row = j, !.rep = n, !.time = tl[j].t + n * D]
          = At(r, j, n, tl[j].t + n * D)
    BY DEF At
  <2>3. [r EXCEPT !.time = pto] = At(r, r.row, r.rep, pto)
    BY AtTime
  <2>4. [r EXCEPT !.time = tl[l].t, !.rep = 0] = At(r, r.row, 0, tl[l].t)
    BY AtRepeat
  <2>. QED  BY <2>1, <2>2, <2>3, <2>4, Zenon
<1>. DEFINE c == tl[j].t + n * D
            d == tl[l].t
<1>5. d \in Nat /\ 0 \in 0..N + 1
  BY <1>1
<1>6. found # {} => c \in Nat
  BY <1>3
<1>7. FromOffset(r, tl, pto) \in
        {At(r, r.row, r.rep, pto), At(r, r.row, 0, d)}
          \cup (IF found = {} THEN {} ELSE {At(r, j, n, c)})
  BY <1>4
<1>. HIDE DEF c, d
<1>8. Moved(r, At(r, r.row, r.rep, pto)) /\ At(r, r.row, r.rep, pto).row = r.row
  BY AtSelf, AtMoves
<1>9. Moved(r, At(r, r.row, 0, d)) /\ At(r, r.row, 0, d).row = r.row
  BY <1>5, AtSelf, AtMoves DEF N
<1>10. found # {} => Moved(r, At(r, j, n, c)) /\ At(r, j, n, c).row = j
  BY <1>3, <1>6, AtMoves DEF N
<1>. QED  BY <1>2, <1>3, <1>7, <1>8, <1>9, <1>10 DEF l

LEMMA FromLastSegmentMoves ==
    ASSUME stream \in Streams, NEW tl, TimelineOK(tl), NEW r \in MediaStreamContext, r.row <= Len(tl)
    PROVE  Moved(r, FromLastSegment(r, tl)) /\ FromLastSegment(r, tl).row \in 1..Len(tl)
<1>. DEFINE found == {j \in r.row..Len(tl) : r.last < End(tl[j])}
            j == Min(found)
            S == tl[j]
            a == S.t
            b == r.last
            c == S.repeat
            q == (b - a + D - 1) \div D
            n == IF a = 0 /\ b = 0 /\ r.lastDur # 0 THEN 1
                 ELSE IF a >= b THEN 0 ELSE Min({c, q})
            N == Len(stream.segs)
            l == Len(tl)
<1>1. /\ \A i \in 1..l : tl[i].t \in Nat /\ tl[i].repeat \in Nat /\ tl[i].repeat < N /\ i <= N
      /\ l \in 1..l /\ N \in Nat
  BY OneTimeline
<1>2. r.row \in 1..l /\ r.last \in Nat
  BY DEF MediaStreamContext
<1>3. ASSUME found # {}
      PROVE  j \in 1..l /\ j \in 1..N + 1 /\ n \in 0..N + 1 /\ S.t + n * D \in Nat
  <2>1. j \in 1..l
    <3>1. found \subseteq Nat /\ found \subseteq 1..l
      <4>. DEFINE i == r.row
      <4>1. found \subseteq i..l /\ i \in 1..l /\ l \in Nat
        BY <1>2
      <4>. HIDE DEF i, found, l
      <4>. QED  BY <4>1
    <3>. HIDE DEF found
    <3>. QED  BY <1>3, <3>1, MinIn
  <2>2. S.t \in Nat /\ S.repeat \in Nat /\ S.repeat < N /\ j <= N
    BY <1>1, <2>1
  <2>3. ASSUME ~(a >= b) PROVE Min({c, q}) \in 0..c
    <3>1. q \in Nat
      <4>1. a \in Nat /\ b \in Nat
        BY <1>2, <2>2
      <4>. HIDE DEF a, b
      <4>. QED  BY <2>3, <4>1 DEF D
    <3>2. c \in Nat
      BY <2>2
    <3>. HIDE DEF c, q
    <3>3. q \in Int /\ c \in Int
      BY <3>1, <3>2
    <3>4. Min({c, q}) \in {c, q} /\ Min({c, q}) <= c
      BY <3>3, OfTwo
    <3>. QED  BY <3>1, <3>2, <3>4
  <2>4. n \in 0..N + 1
    <3>1. n \in {0, 1} \/ (~(a >= b) /\ n = Min({c, q}))
      BY Zenon
    <3>2. c \in Nat /\ c < N /\ N \in Nat
      BY <1>1, <2>2
    <3>. HIDE DEF n, a, b, c, q, N
    <3>. QED  BY <2>3, <3>1, <3>2
  <2>. HIDE DEF n, N, j, l, S
  <2>. QED  BY <1>1, <2>1, <2>2, <2>4 DEF D
<1>. HIDE DEF found, j, n, N, l, S, a, b, c, q
<1>. DEFINE x == S.t + n * D
            y == tl[l].repeat + 1
<1>4. FromLastSegment(r, tl) = IF found = {} THEN At(r, l, y, r.last) ELSE At(r, j, n, x)
  BY DEF FromLastSegment, found, j, n, l, S, a, b, c, q, At
<1>5. l \in 1..N + 1 /\ y \in 0..N + 1
  BY <1>1
<1>6. found # {} => x \in Nat
  BY <1>3
<1>. HIDE DEF x, y
<1>7. Moved(r, At(r, l, y, r.last)) /\ At(r, l, y, r.last).row = l
  BY <1>2, <1>5, AtMoves DEF N
<1>8. found # {} => Moved(r, At(r, j, n, x)) /\ At(r, j, n, x).row = j
  BY <1>3, <1>6, AtMoves DEF N
<1>. QED  BY <1>1, <1>3, <1>4, <1>7, <1>8 DEF l

\* Where the collector finds its place, and the steps it makes from there.
LEMMA PositionMoves ==
    ASSUME stream \in Streams, NEW tl, TimelineOK(tl), NEW r \in MediaStreamContext, NEW pto \in Nat, r.row <= Len(tl)
    PROVE  Moved(r, Position(r, tl, pto)) /\ Position(r, tl, pto).row \in 1..Len(tl)
<1>1. r.row \in 1..Len(tl)
  BY DEF MediaStreamContext
<1>2. tl[r.row].t \in Nat
  BY <1>1, OneTimeline
<1>3. Moved(r, r) /\ \A c \in Nat :
        Moved(r, [r EXCEPT !.time = c]) /\ [r EXCEPT !.time = c].row = r.row
  BY DEF Moved, MediaStreamContext
<1>4. /\ Moved(r, [r EXCEPT !.time = tl[r.row].t])
      /\ [r EXCEPT !.time = tl[r.row].t].row = r.row
  BY <1>2, <1>3
<1>. QED  BY <1>1, <1>3, <1>4, FromOffsetMoves, FromLastSegmentMoves DEF Position

LEMMA AdvanceMoves ==
    ASSUME stream \in Streams, NEW tl, TimelineOK(tl), NEW r \in MediaStreamContext, r.row \in 1..Len(tl)
    PROVE  Moved(r, Advance(r, tl))
<1>. DEFINE N == Len(stream.segs)
            rp == tl[r.row].repeat
            i == r.row
            k == r.rep
            t == r.time
<1>1. rp \in Nat /\ rp < N /\ i \in Nat /\ i <= N /\ N \in Nat
  BY OneTimeline
<1>2. k \in Nat /\ t \in Nat /\ i \in 1..N + 1 /\ k \in 0..N + 1
  BY DEF MediaStreamContext
<1>. DEFINE x == t + D
            y == k + 1
            z == i + 1
<1>3. Advance(r, tl) = IF y > rp THEN At(r, z, 0, x) ELSE At(r, i, y, x)
  BY DEF Advance, MediaStreamContext, At
<1>4. x \in Nat /\ 0 \in 0..N + 1 /\ z \in 1..N + 1 /\ (~(y > rp) => y \in 0..N + 1)
  <2>. HIDE DEF N, rp, i, k, t
  <2>. QED  BY <1>1, <1>2 DEF D
<1>. HIDE DEF i, k, t, rp, x, y, z
<1>5. Moved(r, At(r, z, 0, x))
  BY <1>4, AtMoves DEF N
<1>6. ~(y > rp) => Moved(r, At(r, i, y, x))
  BY <1>2, <1>4, AtMoves DEF N
<1>. QED  BY <1>3, <1>5, <1>6

LEMMA SkippedMoves ==
    ASSUME stream \in Streams, NEW tl, TimelineOK(tl), NEW r \in MediaStreamContext, r.row \in 1..Len(tl)
    PROVE  Moved(r, Skipped(r, tl)) /\ Skipped(r, tl).row = r.row
<1>. DEFINE N == Len(stream.segs)
            rp == tl[r.row].repeat
            i == r.row
            k == r.rep
            t == r.time
            b == r.last
            q == (b - t + D - 1) \div D
            a == rp - k
            n == Min({a, q})
<1>1. rp \in Nat /\ rp < N /\ N \in Nat
  BY OneTimeline
<1>2. k \in Nat /\ t \in Nat /\ b \in Nat /\ i \in 1..N + 1 /\ k \in 0..N + 1
  BY DEF MediaStreamContext
<1>. DEFINE x == t + n * D
            y == k + n
<1>3. Skipped(r, tl) = IF t >= b \/ k >= rp THEN At(r, i, k, t) ELSE At(r, i, y, x)
  <2>1. Skipped(r, tl) = IF t >= b \/ k >= rp THEN r
                         ELSE [r EXCEPT !.time = x, !.rep = y]
    BY DEF Skipped, MediaStreamContext
  <2>2. [r EXCEPT !.time = x, !.rep = y] = At(r, i, y, x)
    BY AtRepeat
  <2>. QED  BY <2>1, <2>2, AtSelf
<1>4. ASSUME ~(t >= b \/ k >= rp) PROVE x \in Nat /\ y \in 0..N + 1
  <2>1. q \in Nat /\ a \in Nat
    <3>. HIDE DEF t, b, rp, k
    <3>. QED  BY <1>1, <1>2, <1>4 DEF D
  <2>2. n \in 0..a
    <3>. HIDE DEF q, a
    <3>0. q \in Int /\ a \in Int
      BY <2>1
    <3>1. Min({a, q}) \in {a, q} /\ Min({a, q}) <= a
      BY <3>0, OfTwo
    <3>. QED  BY <2>1, <3>1
  <2>. HIDE DEF n, N, t, k, rp
  <2>. QED  BY <1>1, <1>2, <2>2 DEF D
<1>. HIDE DEF i, k, t, rp, b, n, a, x, y
<1>5. Moved(r, At(r, i, k, t)) /\ At(r, i, k, t).row = i
  BY <1>2, AtMoves DEF N
<1>6. ~(t >= b \/ k >= rp) => Moved(r, At(r, i, y, x)) /\ At(r, i, y, x).row = i
  BY <1>2, <1>4, AtMoves DEF N
<1>. QED  BY <1>3, <1>5, <1>6 DEF i

-----------------------------------------------------------------------------
(* Types of what the collector fetches.                                      *)

Fetching ==
  /\ track \in [Tracks -> MediaStreamContext]
  /\ \A m \in Tracks : Len(track[m].ring) <= RingSize
  /\ currentProfileIndex \in 1..TopProfile /\ mRampDownCount \in Nat
  /\ mCheckForRampdown \in BOOLEAN
  /\ delivered \in [Tracks -> Delivered]
  /\ errorSent \in BOOLEAN /\ retune \in BOOLEAN /\ faults \in 0..stream.budget

LEMMA FetchingNext ==
    ASSUME stream' = stream,
           track' \in [Tracks -> MediaStreamContext],
           \A m \in Tracks : Len(track'[m].ring) <= RingSize,
           currentProfileIndex' \in 1..TopProfile, mRampDownCount' \in Nat,
           mCheckForRampdown' \in BOOLEAN, delivered' \in [Tracks -> Delivered],
           errorSent' \in BOOLEAN, retune' \in BOOLEAN, faults' \in 0..stream.budget
    PROVE  Fetching'
<1>1. MediaStreamContext' = MediaStreamContext
  BY DEF MediaStreamContext, Periods, Seg
<1>2. Delivered' = Delivered
  BY DEF Delivered, Segments, Periods, Seg
<1>. QED  BY <1>1, <1>2 DEF Fetching

LEMMA FaultCounts ==
    ASSUME stream \in Streams, faults \in 0..stream.budget, NEW f, Fault(f)
    PROVE  faults' \in 0..stream.budget
<1>1. stream.budget \in Nat
  BY StreamFields DEF Stream
<1>. QED  BY <1>1 DEF Fault

\* The url of an init fragment.
LEMMA InitUrlType ==
    ASSUME stream \in Streams, NEW m, NEW p \in Periods, NEW q \in 1..TopProfile
    PROVE  InitUrl(m, p, q) \in Periods \X (1..TopProfile)
<1>1. 1 \in 1..TopProfile
  BY MpdAssumption
<1>2. 1 \in Periods
  BY PeriodNumbers DEF Periods
<1>. QED  BY <1>1, <1>2 DEF InitUrl

\* The segment found by its time.
LEMMA SegmentAtType ==
    ASSUME stream \in Streams, NEW p, NEW t, SegmentAt(p, t) # 0
    PROVE  /\ SegmentAt(p, t) \in Segments
           /\ Seg(SegmentAt(p, t)).p = p /\ Seg(SegmentAt(p, t)).t = t
<1>. DEFINE I == {i \in Segments : Seg(i).p = p /\ Seg(i).t = t}
<1>1. SegmentAt(p, t) = Min(I) /\ I # {}
  BY DEF SegmentAt
<1>2. I \subseteq Nat
  BY StreamFields DEF Segments
<1>3. Min(I) \in I
  <2>. HIDE DEF I
  <2>. QED  BY <1>1, <1>2, MinIn
<1>. QED  BY <1>1, <1>3

\* A track whose download succeeded.
LEMMA CachedType ==
    ASSUME stream \in Streams, Fetching, NEW m \in Tracks, NEW r \in MediaStreamContext,
           NEW n \in {0, 1}, Cached(m, r, n)
    PROVE  /\ track' \in [Tracks -> MediaStreamContext]
           /\ \A k \in Tracks : Len(track'[k].ring) <= RingSize
           /\ mCheckForRampdown' \in BOOLEAN
<1>. DEFINE q == [r EXCEPT !.failCount = 0, !.ring = Append(@, n)]
<1>1. RingSize \in Nat /\ 0 \in 0..MaxSegFail
  BY MpdAssumption
<1>2. r.ring \in Seq({0, 1}) /\ Len(r.ring) \in Nat /\ Len(r.ring) < RingSize
  BY DEF MediaStreamContext, Cached
<1>3. Append(r.ring, n) \in Seq({0, 1}) /\ Len(Append(r.ring, n)) = Len(r.ring) + 1
  BY <1>2
<1>4. q \in MediaStreamContext
  BY <1>1, <1>3 DEF MediaStreamContext
<1>5. q.ring = Append(r.ring, n)
  BY DEF MediaStreamContext
<1>6. Len(q.ring) <= RingSize
  BY <1>1, <1>2, <1>3, <1>5
<1>7. track' = [track EXCEPT ![m] = q] /\ mCheckForRampdown' = FALSE
  BY DEF Cached
<1>. HIDE DEF q
<1>. QED  BY <1>4, <1>6, <1>7 DEF Fetching

\* A track whose download failed.
LEMMA NotCachedType ==
    ASSUME stream \in Streams, Fetching, NEW m \in Tracks, NEW isInit \in BOOLEAN,
           NEW retry \in MediaStreamContext, NEW giveUp \in MediaStreamContext,
           retry.ring = track[m].ring, giveUp.ring = track[m].ring,
           NotCached(m, isInit, retry, giveUp)
    PROVE  /\ track' \in [Tracks -> MediaStreamContext]
           /\ \A k \in Tracks : Len(track'[k].ring) <= RingSize
           /\ currentProfileIndex' \in 1..TopProfile /\ mRampDownCount' \in Nat
           /\ mCheckForRampdown' \in BOOLEAN /\ errorSent' \in BOOLEAN
<1>. DEFINE r == track[m]
            one == IF r.skipOnError THEN 1 ELSE 0
            c == r.failCount + one
            count == Min({MaxSegFail, c})
            down == RampsDown(m)
            from == IF down THEN retry ELSE giveUp
            skip == isInit \/ ~down
            changed == from.profileChanged \/ down
            q == [from EXCEPT !.failCount = count, !.skipOnError = skip,
                              !.profileChanged = changed]
<1>1. r \in MediaStreamContext /\ r.failCount \in 0..MaxSegFail /\ MaxSegFail \in Nat
  BY MpdAssumption DEF Fetching, MediaStreamContext
<1>2. count \in 0..MaxSegFail
  <2>1. c \in Nat /\ c \in Int /\ MaxSegFail \in Int
    BY <1>1
  <2>2. Min({MaxSegFail, c}) \in {MaxSegFail, c} /\ Min({MaxSegFail, c}) <= MaxSegFail
    <3>. HIDE DEF c
    <3>. QED  BY <2>1, OfTwo
  <2>. HIDE DEF c
  <2>. QED  BY <1>1, <2>1, <2>2
<1>3. down \in BOOLEAN
  BY DEF RampsDown
<1>4. from \in MediaStreamContext /\ from.ring = r.ring
  OBVIOUS
<1>. HIDE DEF count, from, down
<1>5. q \in MediaStreamContext /\ q.ring = from.ring
  <2>1. skip \in BOOLEAN /\ changed \in BOOLEAN
    BY <1>3, <1>4
  <2>. HIDE DEF skip, changed
  <2>. QED  BY <1>2, <1>4, <2>1 DEF MediaStreamContext
<1>6. track' = [track EXCEPT ![m] = q]
  <2>1. q = [from EXCEPT !.failCount = count, !.skipOnError = isInit \/ ~down,
                         !.profileChanged = @ \/ down]
    BY <1>4 DEF MediaStreamContext
  <2>. QED  BY <2>1 DEF NotCached, count, from, down
<1>7. /\ track' \in [Tracks -> MediaStreamContext]
      /\ \A k \in Tracks : Len(track'[k].ring) <= RingSize
  <2>. HIDE DEF q
  <2>. QED  BY <1>4, <1>5, <1>6 DEF Fetching
<1>8. currentProfileIndex' \in 1..TopProfile
  <2>1. down => currentProfileIndex > 1
    BY DEF RampsDown, down
  <2>2. currentProfileIndex' = IF down THEN currentProfileIndex - 1 ELSE currentProfileIndex
    BY DEF NotCached, down
  <2>. QED  BY <2>1, <2>2, MpdAssumption DEF Fetching
<1>9. mRampDownCount' \in Nat
  <2>1. mRampDownCount' \in {mRampDownCount, 0, mRampDownCount + 1, mRampDownCount + 0}
    BY DEF NotCached
  <2>. QED  BY <2>1 DEF Fetching
<1>10. mCheckForRampdown' \in BOOLEAN /\ errorSent' \in BOOLEAN
  BY <1>3 DEF NotCached, down
<1>. QED  BY <1>7, <1>8, <1>9, <1>10

LEMMA DeliveredFields ==
    ASSUME NEW d \in Delivered
    PROVE  /\ \A url \in Periods \X (1..TopProfile), due \in BOOLEAN :
                [d EXCEPT !.init = url, !.due = due] \in Delivered
           /\ \A due \in BOOLEAN : [d EXCEPT !.due = due] \in Delivered
           /\ \A s \in {0} \cup Segments,
                 w \in SUBSET {"order", "start", "gap", "init", "discontinuity"} :
                [d EXCEPT !.seg = s, !.wrong = w] \in Delivered
           /\ \A due \in BOOLEAN, l \in SUBSET ({0} \cup Segments) :
                [d EXCEPT !.due = due, !.lost = l] \in Delivered
           /\ \A l \in SUBSET ({0} \cup Segments) : [d EXCEPT !.lost = l] \in Delivered
           /\ d.due \in BOOLEAN /\ d.seg \in {0} \cup Segments
           /\ d.lost \in SUBSET ({0} \cup Segments)
           /\ d.wrong \in SUBSET {"order", "start", "gap", "init", "discontinuity"}
<1>1. \A url \in Periods \X (1..TopProfile), due \in BOOLEAN :
        [d EXCEPT !.init = url, !.due = due] \in Delivered
  BY DEF Delivered
<1>2. \A due \in BOOLEAN : [d EXCEPT !.due = due] \in Delivered
  BY DEF Delivered
<1>3. \A s \in {0} \cup Segments, w \in SUBSET {"order", "start", "gap", "init", "discontinuity"} :
        [d EXCEPT !.seg = s, !.wrong = w] \in Delivered
  BY DEF Delivered
<1>4. \A due \in BOOLEAN, l \in SUBSET ({0} \cup Segments) :
        [d EXCEPT !.due = due, !.lost = l] \in Delivered
  BY DEF Delivered
<1>5. \A l \in SUBSET ({0} \cup Segments) : [d EXCEPT !.lost = l] \in Delivered
  BY DEF Delivered
<1>. QED  BY <1>1, <1>2, <1>3, <1>4, <1>5 DEF Delivered

\* FetchAndInjectInitialization for one track.
LEMMA InitTypes ==
    ASSUME stream \in Streams, Fetching, stream' = stream, retune' = retune,
           NEW m \in Tracks, NEW url \in Periods \X (1..TopProfile),
           InitNoRoom(m) \/ InitSame(m, url) \/ InitCached(m, url) \/ InitFails(m, url)
    PROVE  Fetching'
<1>. DEFINE r == track[m]
            q == Requested(r, url)
            due == delivered[m].due /\ ~r.discontinuity
<1>1. r \in MediaStreamContext /\ delivered[m] \in Delivered
  BY DEF Fetching
<1>2. q \in MediaStreamContext /\ q.ring = r.ring
  BY <1>1 DEF Requested, MediaStreamContext
<1>3. due \in BOOLEAN
  BY <1>1, DeliveredFields DEF MediaStreamContext
<1>4. CASE InitNoRoom(m)
  BY <1>4, FetchingNext DEF InitNoRoom, Fetching, ramp
<1>5. CASE InitSame(m, url)
  <2>. DEFINE p == [r EXCEPT !.profileChanged = FALSE]
  <2>1. p \in MediaStreamContext /\ p.ring = r.ring
    BY <1>1 DEF MediaStreamContext
  <2>2. track' = [track EXCEPT ![m] = p] /\ UNCHANGED <<ramp, errorSent, delivered, faults>>
    BY <1>5 DEF InitSame
  <2>. HIDE DEF p
  <2>3. /\ track' \in [Tracks -> MediaStreamContext]
        /\ \A k \in Tracks : Len(track'[k].ring) <= RingSize
    BY <2>1, <2>2 DEF Fetching
  <2>. QED  BY <2>2, <2>3, FetchingNext DEF Fetching, ramp
<1>6. CASE InitCached(m, url)
  <2>1. /\ Cached(m, q, 0)
        /\ UNCHANGED <<currentProfileIndex, mRampDownCount, errorSent, faults>>
    BY <1>6 DEF InitCached
  <2>2. /\ track' \in [Tracks -> MediaStreamContext]
        /\ \A k \in Tracks : Len(track'[k].ring) <= RingSize
        /\ mCheckForRampdown' \in BOOLEAN
    <3>. HIDE DEF q
    <3>. QED  BY <1>2, <2>1, CachedType
  <2>. DEFINE d == [delivered[m] EXCEPT !.init = url, !.due = due]
  <2>3. delivered' = [delivered EXCEPT ![m] = d]
    BY <1>6, <1>1 DEF InitCached, Delivered
  <2>4. d \in Delivered
    <3>. HIDE DEF due
    <3>. QED  BY <1>1, <1>3, DeliveredFields
  <2>5. delivered' \in [Tracks -> Delivered]
    <3>. HIDE DEF d
    <3>. QED  BY <2>3, <2>4 DEF Fetching
  <2>. QED  BY <2>1, <2>2, <2>5, FetchingNext DEF Fetching
<1>7. CASE InitFails(m, url)
  <2>1. NotCached(m, TRUE, q, q) /\ Fault(InitFault(m))
    BY <1>7 DEF InitFails
  <2>2. /\ track' \in [Tracks -> MediaStreamContext]
        /\ \A k \in Tracks : Len(track'[k].ring) <= RingSize
        /\ currentProfileIndex' \in 1..TopProfile /\ mRampDownCount' \in Nat
        /\ mCheckForRampdown' \in BOOLEAN /\ errorSent' \in BOOLEAN
    <3>. HIDE DEF q
    <3>. QED  BY <1>2, <2>1, NotCachedType
  <2>3. faults' \in 0..stream.budget
    BY <2>1, FaultCounts DEF Fetching
  <2>. DEFINE lost == delivered[m].lost \cup BeforeFirst(m)
              d == [delivered[m] EXCEPT !.due = due, !.lost = lost]
  <2>4. delivered' = [delivered EXCEPT ![m] = d]
    BY <1>7, <1>1 DEF InitFails, Delivered
  <2>5. d \in Delivered
    <3>1. lost \in SUBSET ({0} \cup Segments)
      BY <1>1, DeliveredFields DEF BeforeFirst
    <3>. HIDE DEF due, lost
    <3>. QED  BY <1>1, <1>3, <3>1, DeliveredFields
  <2>6. delivered' \in [Tracks -> Delivered]
    <3>. HIDE DEF d
    <3>. QED  BY <2>4, <2>5 DEF Fetching
  <2>. QED  BY <2>2, <2>3, <2>6, FetchingNext DEF Fetching
<1>. QED  BY <1>4, <1>5, <1>6, <1>7

\* A segment that is fetched, and the track behind it.
LEMMA FetchedType ==
    ASSUME stream \in Streams, NEW r \in MediaStreamContext, Len(r.ring) < RingSize,
           NEW tl, TimelineOK(tl), r.row \in 1..Len(tl)
    PROVE  LET f == [r EXCEPT !.failCount = 0, !.ring = Append(@, 1)]
               q == Advance(Fetched(f), tl)
           IN  /\ q \in MediaStreamContext /\ Len(q.ring) <= RingSize
               /\ q.enabled = r.enabled /\ q.init = r.init
               /\ q.profileChanged = r.profileChanged /\ q.discontinuity = r.discontinuity
<1>. DEFINE f == [r EXCEPT !.failCount = 0, !.ring = Append(@, 1)]
            g == Fetched(f)
<1>1. RingSize \in Nat /\ 0 \in 0..MaxSegFail
  BY MpdAssumption
<1>2. r.ring \in Seq({0, 1}) /\ Len(r.ring) \in Nat
  BY DEF MediaStreamContext
<1>3. Append(r.ring, 1) \in Seq({0, 1}) /\ Len(Append(r.ring, 1)) <= RingSize
  BY <1>1, <1>2
<1>4. /\ f \in MediaStreamContext /\ f.row = r.row /\ f.ring = Append(r.ring, 1)
      /\ f.enabled = r.enabled /\ f.init = r.init
      /\ f.profileChanged = r.profileChanged /\ f.discontinuity = r.discontinuity
  BY <1>1, <1>3 DEF MediaStreamContext
<1>. HIDE DEF f
<1>5. f.time \in Nat /\ f.time + D \in Nat
  BY <1>4 DEF MediaStreamContext, D
<1>6. /\ g \in MediaStreamContext /\ g.row = f.row /\ g.ring = f.ring
      /\ g.enabled = f.enabled /\ g.init = f.init
      /\ g.profileChanged = f.profileChanged /\ g.discontinuity = f.discontinuity
  BY <1>4, <1>5 DEF Fetched, MediaStreamContext
<1>. HIDE DEF g
<1>7. Moved(g, Advance(g, tl))
  BY <1>4, <1>6, AdvanceMoves
<1>8. /\ Advance(g, tl) \in MediaStreamContext /\ Len(Advance(g, tl).ring) <= RingSize
      /\ Advance(g, tl).enabled = r.enabled /\ Advance(g, tl).init = r.init
      /\ Advance(g, tl).profileChanged = r.profileChanged
      /\ Advance(g, tl).discontinuity = r.discontinuity
  BY <1>3, <1>4, <1>6, <1>7 DEF Moved
<1>. QED  BY <1>8 DEF g, f

\* What a step that asks for a segment of m leaves as it was.
Keeps(m) ==
  /\ \A k \in Tracks :
       /\ track'[k].enabled = track[k].enabled /\ track'[k].init = track[k].init
       /\ track'[k].discontinuity = track[k].discontinuity
       /\ track[k].profileChanged => track'[k].profileChanged
       /\ delivered'[k].init = delivered[k].init /\ delivered'[k].due = delivered[k].due
       /\ \/ delivered'[k].wrong = delivered[k].wrong
          \/ /\ k = m
             /\ \E s \in Segments : /\ Seg(s).p = currentPeriodId
                                    /\ delivered'[k].wrong = delivered[k].wrong \cup Wrong(k, s)
  /\ currentProfileIndex' # currentProfileIndex => m = "video" /\ track'["video"].profileChanged
  /\ errorSent => errorSent'

\* The track after a step that only moves it.
LEMMA MovedKeeps ==
    ASSUME stream \in Streams, Fetching, stream' = stream, NEW m \in Tracks, NEW q,
           q \in MediaStreamContext, q.ring = track[m].ring, q.enabled = track[m].enabled,
           q.init = track[m].init, q.discontinuity = track[m].discontinuity,
           q.profileChanged = track[m].profileChanged,
           track' = [track EXCEPT ![m] = q], retune' \in BOOLEAN,
           UNCHANGED <<ramp, errorSent, delivered, faults>>
    PROVE  Fetching' /\ Keeps(m)
<1>1. /\ track' \in [Tracks -> MediaStreamContext]
      /\ \A k \in Tracks : Len(track'[k].ring) <= RingSize
  BY DEF Fetching
<1>2. Fetching'
  BY <1>1, FetchingNext DEF Fetching, ramp
<1>3. \A k \in Tracks :
        /\ track'[k].enabled = track[k].enabled /\ track'[k].init = track[k].init
        /\ track'[k].discontinuity = track[k].discontinuity
        /\ track[k].profileChanged => track'[k].profileChanged
  BY DEF Fetching
<1>. QED  BY <1>2, <1>3 DEF Keeps, ramp

LEMMA PushResetKeeps ==
    ASSUME stream \in Streams, Fetching, stream' = stream, NEW m \in Tracks, NEW r, NEW tl,
           Moved(track[m], r), r.row \in 1..Len(tl), TimelineOK(tl), PushReset(m, r, tl)
    PROVE  Fetching' /\ Keeps(m)
<1>1. r \in MediaStreamContext /\ Moved(r, Advance(r, tl))
  BY AdvanceMoves DEF Moved
<1>2. retune' \in BOOLEAN /\ UNCHANGED <<ramp, errorSent, delivered, faults>>
  BY DEF PushReset, Fetching
<1>3. CASE track' = [track EXCEPT ![m] = Advance(r, tl)]
  BY <1>1, <1>2, <1>3, MovedKeeps DEF Moved
<1>4. ASSUME NEW t \in BeforeTime(r.time), track' = [track EXCEPT ![m] = [r EXCEPT !.last = t]]
      PROVE  Fetching' /\ Keeps(m)
  <2>1. t \in Nat
    <3>1. r.time \in Nat /\ MaxTime \in Nat
      BY <1>1, MpdAssumption DEF MediaStreamContext
    <3>2. r.time # 0 => r.time - 1 \in Nat
      BY <3>1
    <3>. QED  BY <1>4, <3>1, <3>2 DEF BeforeTime
  <2>. DEFINE q == [r EXCEPT !.last = t]
  <2>2. /\ q \in MediaStreamContext /\ q.ring = r.ring /\ q.enabled = r.enabled
        /\ q.init = r.init /\ q.discontinuity = r.discontinuity
        /\ q.profileChanged = r.profileChanged
    BY <1>1, <2>1 DEF MediaStreamContext
  <2>. HIDE DEF q
  <2>3. track' = [track EXCEPT ![m] = q]
    BY <1>4 DEF q
  <2>. QED  BY <1>2, <2>2, <2>3, MovedKeeps DEF Moved
<1>. QED  BY <1>3, <1>4 DEF PushReset

LEMMA PushSkipsKeeps ==
    ASSUME stream \in Streams, Fetching, stream' = stream, NEW m \in Tracks, NEW r, NEW tl,
           Moved(track[m], r), r.row \in 1..Len(tl), TimelineOK(tl), PushSkips(m, r, tl)
    PROVE  Fetching' /\ Keeps(m)
<1>1. r \in MediaStreamContext
  BY DEF Moved
<1>. DEFINE q == Skipped(r, tl)
<1>2. Moved(r, q) /\ q.row = r.row
  BY <1>1, SkippedMoves
<1>. HIDE DEF q
<1>3. Moved(q, Advance(q, tl))
  BY <1>2, AdvanceMoves DEF Moved
<1>4. /\ track' = [track EXCEPT ![m] = Advance(q, tl)] /\ retune' \in BOOLEAN
      /\ UNCHANGED <<ramp, errorSent, delivered, faults>>
  BY DEF PushSkips, Fetching, q
<1>5. Moved(track[m], Advance(q, tl))
  BY <1>2, <1>3 DEF Moved
<1>. QED  BY <1>4, <1>5, MovedKeeps DEF Moved

LEMMA PushEosKeeps ==
    ASSUME stream \in Streams, Fetching, stream' = stream, NEW m \in Tracks, PushEos(m)
    PROVE  Fetching' /\ Keeps(m)
<1>. DEFINE q == [track[m] EXCEPT !.eos = TRUE]
<1>1. track[m] \in MediaStreamContext
  BY DEF Fetching
<1>2. /\ q \in MediaStreamContext /\ q.ring = track[m].ring /\ q.enabled = track[m].enabled
      /\ q.init = track[m].init /\ q.discontinuity = track[m].discontinuity
      /\ q.profileChanged = track[m].profileChanged
  BY <1>1 DEF MediaStreamContext
<1>3. /\ track' = [track EXCEPT ![m] = q] /\ retune' \in BOOLEAN
      /\ UNCHANGED <<ramp, errorSent, delivered, faults>>
  BY DEF PushEos, Fetching
<1>. HIDE DEF q
<1>. QED  BY <1>2, <1>3, MovedKeeps

\* A segment is fetched: MayChangeProfile with the tracks T.
LEMMA PushCachedKeeps ==
    ASSUME stream \in Streams, Fetching, stream' = stream, NEW m \in Tracks, NEW r, NEW tl,
           Moved(track[m], r), Len(track[m].ring) < RingSize, r.row \in 1..Len(tl),
           TimelineOK(tl), PushCached(m, r, tl)
    PROVE  Fetching' /\ Keeps(m)
<1>. DEFINE s == SegmentAt(currentPeriodId, r.time)
            q == Advance(Fetched([r EXCEPT !.failCount = 0, !.ring = Append(@, 1)]), tl)
            T == [track EXCEPT ![m] = q]
            d == delivered[m]
<1>1. r \in MediaStreamContext /\ Len(r.ring) < RingSize
  BY DEF Moved
<1>2. /\ q \in MediaStreamContext /\ Len(q.ring) <= RingSize
      /\ q.enabled = r.enabled /\ q.init = r.init
      /\ q.profileChanged = r.profileChanged /\ q.discontinuity = r.discontinuity
  BY <1>1, FetchedType
<1>3. s \in Segments /\ Seg(s).p = currentPeriodId
  BY SegmentAtType DEF PushCached
<1>4. /\ MayChangeProfile(m, T) /\ mCheckForRampdown' = FALSE
      /\ mRampDownCount' \in {0, mRampDownCount} /\ UNCHANGED <<errorSent, retune>>
      /\ delivered' = [delivered EXCEPT ![m].seg = Max({@, s}),
                                        ![m].wrong = @ \cup Wrong(m, s)]
  BY DEF PushCached
<1>. HIDE DEF q
<1>5. /\ T \in [Tracks -> MediaStreamContext]
      /\ \A k \in Tracks :
           /\ Len(T[k].ring) <= RingSize /\ T[k].enabled = track[k].enabled
           /\ T[k].init = track[k].init /\ T[k].discontinuity = track[k].discontinuity
           /\ T[k].profileChanged = track[k].profileChanged
  BY <1>2 DEF Fetching, Moved
<1>. HIDE DEF T
<1>6. /\ track' \in [Tracks -> MediaStreamContext]
      /\ \A k \in Tracks :
           /\ Len(track'[k].ring) <= RingSize /\ track'[k].enabled = track[k].enabled
           /\ track'[k].init = track[k].init
           /\ track'[k].discontinuity = track[k].discontinuity
           /\ track[k].profileChanged => track'[k].profileChanged
      /\ currentProfileIndex' \in 1..TopProfile /\ faults' \in 0..stream.budget
      /\ currentProfileIndex' # currentProfileIndex
           => m = "video" /\ track'["video"].profileChanged
  <2>1. CASE track' = T /\ UNCHANGED <<currentProfileIndex, faults>>
    BY <1>5, <2>1 DEF Fetching
  <2>2. CASE /\ m = "video" /\ Fault("profile")
             /\ \E i \in 1..TopProfile \ {currentProfileIndex} : currentProfileIndex' = i
             /\ track' = [T EXCEPT !.video.profileChanged = TRUE]
    <3>. DEFINE v == [T["video"] EXCEPT !.profileChanged = TRUE]
    <3>1. /\ v \in MediaStreamContext /\ v.ring = T["video"].ring
          /\ v.enabled = T["video"].enabled /\ v.init = T["video"].init
          /\ v.discontinuity = T["video"].discontinuity /\ v.profileChanged = TRUE
      BY <1>5 DEF MediaStreamContext, Tracks
    <3>. HIDE DEF v
    <3>2. track' = [T EXCEPT !["video"] = v] /\ "video" \in Tracks
      BY <2>2 DEF v, Tracks
    <3>3. faults' \in 0..stream.budget
      BY <2>2, FaultCounts DEF Fetching
    <3>. QED  BY <1>5, <2>2, <3>1, <3>2, <3>3
  <2>. QED  BY <1>4, <2>1, <2>2 DEF MayChangeProfile
<1>7. d \in Delivered /\ d.seg \in {0} \cup Segments
  BY DeliveredFields DEF Fetching
<1>. DEFINE a == d.seg
            seg == Max({a, s})
            wrong == d.wrong \cup Wrong(m, s)
            e == [d EXCEPT !.seg = seg, !.wrong = wrong]
<1>8. seg \in {0} \cup Segments
  <2>1. a \in Int /\ s \in Int
    BY <1>3, <1>7, StreamFields DEF Segments
  <2>2. seg \in {a, s}
    <3>. HIDE DEF s, a
    <3>. QED  BY <2>1, OfTwo
  <2>. QED  BY <1>3, <1>7, <2>2
<1>9. wrong \in SUBSET {"order", "start", "gap", "init", "discontinuity"}
  <2>1. Wrong(m, s) \subseteq {"order", "start", "gap", "init", "discontinuity"}
    BY DEF Wrong
  <2>. QED  BY <1>7, <2>1, DeliveredFields
<1>10. delivered' = [delivered EXCEPT ![m] = e]
  BY <1>4, <1>7 DEF Delivered
<1>. HIDE DEF seg, wrong
<1>11. e \in Delivered /\ e.init = d.init /\ e.due = d.due /\ e.wrong = wrong
  <2>1. e \in Delivered
    BY <1>7, <1>8, <1>9, DeliveredFields
  <2>. QED  BY <1>7, <2>1 DEF Delivered
<1>. HIDE DEF e
<1>12. delivered' \in [Tracks -> Delivered]
  BY <1>10, <1>11 DEF Fetching
<1>13. \A k \in Tracks :
         /\ delivered'[k].init = delivered[k].init /\ delivered'[k].due = delivered[k].due
         /\ delivered'[k].wrong = IF k = m THEN wrong ELSE delivered[k].wrong
  BY <1>10, <1>11 DEF Fetching
<1>14. Keeps(m)
  <2>1. wrong = delivered[m].wrong \cup Wrong(m, s)
    BY DEF wrong
  <2>2. errorSent' = errorSent
    BY <1>4
  <2>. HIDE DEF s, d
  <2>. QED  BY <1>3, <1>6, <1>13, <2>1, <2>2 DEF Keeps
<1>15. Fetching'
  <2>1. mRampDownCount' \in Nat
    BY <1>4 DEF Fetching
  <2>2. mCheckForRampdown' \in BOOLEAN /\ errorSent' = errorSent /\ retune' = retune
    BY <1>4
  <2>3. errorSent' \in BOOLEAN /\ retune' \in BOOLEAN
    BY <2>2 DEF Fetching
  <2>. QED  BY <1>6, <1>12, <2>1, <2>2, <2>3, FetchingNext
<1>. QED  BY <1>14, <1>15

\* A segment that could not be fetched.
LEMMA PushFailsKeeps ==
    ASSUME stream \in Streams, Fetching, stream' = stream, NEW m \in Tracks, NEW r, NEW tl,
           Moved(track[m], r), r.row \in 1..Len(tl), TimelineOK(tl), PushFails(m, r, tl)
    PROVE  Fetching' /\ Keeps(m)
<1>. DEFINE s == SegmentAt(currentPeriodId, r.time)
            down == RampsDown(m)
            from == IF down THEN r ELSE Advance(r, tl)
            d == delivered[m]
<1>1. r \in MediaStreamContext /\ Moved(r, Advance(r, tl)) /\ Moved(track[m], Advance(r, tl))
  BY AdvanceMoves DEF Moved
<1>2. NotCached(m, FALSE, r, Advance(r, tl)) /\ UNCHANGED retune
  BY DEF PushFails
<1>3. /\ track' \in [Tracks -> MediaStreamContext]
      /\ \A k \in Tracks : Len(track'[k].ring) <= RingSize
      /\ currentProfileIndex' \in 1..TopProfile /\ mRampDownCount' \in Nat
      /\ mCheckForRampdown' \in BOOLEAN /\ errorSent' \in BOOLEAN
  BY <1>1, <1>2, NotCachedType DEF Moved
<1>4. faults' \in 0..stream.budget
  BY FaultCounts DEF PushFails, Fetching
<1>5. \A k \in Tracks :
        /\ track'[k].enabled = track[k].enabled /\ track'[k].init = track[k].init
        /\ track'[k].discontinuity = track[k].discontinuity
        /\ track[k].profileChanged => track'[k].profileChanged
        /\ k = m /\ down => track'[k].profileChanged
  <2>. DEFINE count == Min({MaxSegFail, track[m].failCount
                                          + (IF track[m].skipOnError THEN 1 ELSE 0)})
              q == [from EXCEPT !.failCount = count, !.skipOnError = FALSE \/ ~down,
                                !.profileChanged = @ \/ down]
  <2>1. /\ from \in MediaStreamContext /\ from.enabled = track[m].enabled
        /\ from.init = track[m].init /\ from.discontinuity = track[m].discontinuity
        /\ from.profileChanged = track[m].profileChanged
    BY <1>1 DEF Moved
  <2>2. track' = [track EXCEPT ![m] = q]
    BY <1>2 DEF NotCached
  <2>. HIDE DEF from, count, down
  <2>3. /\ q.enabled = from.enabled /\ q.init = from.init
        /\ q.discontinuity = from.discontinuity
        /\ q.profileChanged = (from.profileChanged \/ down)
    BY <2>1 DEF MediaStreamContext
  <2>. HIDE DEF q
  <2>. QED  BY <2>1, <2>2, <2>3 DEF Fetching
<1>6. (errorSent => errorSent') /\ (currentProfileIndex' # currentProfileIndex => down)
  BY <1>2 DEF NotCached
<1>7. down => m = "video"
  BY DEF RampsDown
<1>8. d \in Delivered /\ (s = 0 \/ s \in Segments)
  BY SegmentAtType DEF Fetching
<1>9. /\ delivered' \in [Tracks -> Delivered]
      /\ \A k \in Tracks :
           /\ delivered'[k].init = delivered[k].init /\ delivered'[k].due = delivered[k].due
           /\ delivered'[k].wrong = delivered[k].wrong
  <2>. DEFINE lost == d.lost \cup BeforeFirst(m) \cup IF down THEN {} ELSE {s} \ {0}
              e == [d EXCEPT !.lost = lost]
  <2>1. lost \in SUBSET ({0} \cup Segments)
    <3>. HIDE DEF s, down
    <3>. QED  BY <1>8, DeliveredFields DEF BeforeFirst
  <2>2. delivered' = [delivered EXCEPT ![m] = e]
    BY <1>8 DEF PushFails, Delivered
  <2>. HIDE DEF lost
  <2>3. e \in Delivered
    <3>. HIDE DEF d
    <3>. QED  BY <1>8, <2>1, DeliveredFields
  <2>4. e.init = d.init /\ e.due = d.due /\ e.wrong = d.wrong
    BY <1>8 DEF Delivered
  <2>. HIDE DEF e
  <2>. QED  BY <2>2, <2>3, <2>4 DEF Fetching
<1>10. Keeps(m)
  BY <1>5, <1>6, <1>7, <1>9 DEF Keeps, Tracks
<1>11. Fetching'
  BY <1>2, <1>3, <1>4, <1>9, FetchingNext DEF Fetching
<1>. QED  BY <1>10, <1>11

LEMMA PushKeeps ==
    ASSUME stream \in Streams, Fetching, stream' = stream, NEW m \in Tracks,
           Window(mpd), currentPeriodId \in FirstPeriod(mpd)..LastPeriod(mpd),
           ~Full(m), PushNextFragment(m)
    PROVE  Fetching' /\ Keeps(m)
<1>. DEFINE tl == Timeline(mpd, currentPeriodId)
            pto == stream.pto[currentPeriodId]
            r == Position(track[m], tl, pto)
<1>1. TimelineOK(tl) /\ currentPeriodId \in Periods
  BY TimelineType, PeriodNotEmpty
<1>2. pto \in Nat
  BY <1>1, PeriodNumbers
<1>3. track[m] \in MediaStreamContext
  BY DEF Fetching
<1>4. Len(track[m].ring) < RingSize
  <2>1. /\ track[m].ring \in Seq({0, 1}) /\ RingSize \in Nat
        /\ Len(track[m].ring) <= RingSize /\ Len(track[m].ring) # RingSize
    BY <1>3, MpdAssumption DEF MediaStreamContext, Full, Fetching
  <2>. QED  BY <2>1
<1>. HIDE DEF tl, pto
<1>5. CASE track[m].row > Len(tl)
  BY <1>5, PushEosKeeps DEF PushNextFragment, tl
<1>6. CASE ~(track[m].row > Len(tl))
  <2>1. track[m].row <= Len(tl)
    <3>1. track[m].row \in Nat /\ Len(tl) \in Nat
      BY <1>1, <1>3 DEF MediaStreamContext, TimelineOK
    <3>. QED  BY <1>6, <3>1
  <2>2. Moved(track[m], r) /\ r.row \in 1..Len(tl)
    BY <1>1, <1>2, <1>3, <2>1, PositionMoves
  <2>3. \/ PushCached(m, r, tl) \/ PushFails(m, r, tl)
        \/ PushReset(m, r, tl) \/ PushSkips(m, r, tl)
    BY <1>6 DEF PushNextFragment, tl, pto
  <2>. HIDE DEF r
  <2>. QED  BY <1>1, <1>4, <2>2, <2>3, PushCachedKeeps, PushFailsKeeps, PushResetKeeps,
               PushSkipsKeeps
<1>. QED  BY <1>5, <1>6

-----------------------------------------------------------------------------
(* Periods of a window.                                                      *)

LEMMA PeriodCounts ==
    ASSUME stream \in Streams, NEW w, Window(w)
    PROVE  /\ PeriodCount(w) \in Nat \ {0}
           /\ FirstPeriod(w) \in Periods /\ LastPeriod(w) \in Periods
           /\ FirstPeriod(w) <= LastPeriod(w)
           /\ LastPeriod(w) + 1 - FirstPeriod(w) <= PeriodCount(w)
           /\ \A i \in 1..PeriodCount(w) :
                PeriodAt(w, i) \in Periods /\ FirstPeriod(w) <= PeriodAt(w, i)
<1>. DEFINE f == FirstPeriod(w)
            l == LastPeriod(w)
            n == Seg(Len(stream.segs)).p
            e == IF stream.early /\ l + 1 \in Periods THEN 1 ELSE 0
            c == PeriodCount(w)
<1>1. f \in 1..n /\ l \in 1..n /\ n \in Nat \ {0} /\ Periods = 1..n
  BY PeriodNumbers DEF FirstPeriod, LastPeriod, Window, Periods
<1>2. f <= l
  BY Sequence DEF FirstPeriod, LastPeriod, Window
<1>3. c = l + 1 - f + e /\ e \in {0, 1} /\ (e = 1 => l + 1 \in 1..n)
  BY <1>1 DEF PeriodCount
<1>4. \A i : PeriodAt(w, i) = f + i - 1
  BY DEF PeriodAt
<1>. HIDE DEF f, l, n, e, c
<1>5. c \in Nat \ {0} /\ l + 1 - f <= c
  BY <1>1, <1>2, <1>3
<1>6. ASSUME NEW i \in 1..c PROVE f + i - 1 \in 1..n /\ f <= f + i - 1
  BY <1>1, <1>2, <1>3
<1>. QED  BY <1>1, <1>2, <1>4, <1>5, <1>6 DEF f, l, c

\* The periods of a window, as the collector remembers them.
Remembered == [periodId : Periods, duration : Nat, startTime : Nat]

LEMMA InPeriodFinite ==
    ASSUME NEW w, Window(w), NEW p
    PROVE  IsFiniteSet(InPeriod(w, p)) /\ Cardinality(InPeriod(w, p)) \in Nat
<1>. DEFINE a == w.first
            b == w.last
<1>1. a \in Int /\ b \in Int
  BY DEF Window, Segments
<1>2. IsFiniteSet(a..b)
  <2>. HIDE DEF a, b
  <2>. QED  BY <1>1, FS_Interval
<1>3. InPeriod(w, p) \in SUBSET (a..b)
  BY DEF InPeriod
<1>. QED  BY <1>2, <1>3, FS_Subset, FS_CardinalityType

LEMMA PeriodInfoType ==
    ASSUME stream \in Streams, NEW w, Window(w)
    PROVE  /\ PeriodInfo(w) \in [1..PeriodCount(w) -> Remembered]
           /\ PeriodInfo(w) \in Seq(Remembered) /\ Len(PeriodInfo(w)) = PeriodCount(w)
<1>. DEFINE e(i) ==
              [periodId |-> PeriodAt(w, i),
               duration |-> D * Cardinality(InPeriod(w, PeriodAt(w, i))),
               startTime |-> IF IsEmptyPeriod(w, i) THEN 0
                             ELSE GetFirstSegmentStartTime(w, PeriodAt(w, i))]
            n == PeriodCount(w)
<1>1. n \in Nat
  BY PeriodCounts
<1>2. ASSUME NEW i \in 1..n PROVE e(i) \in Remembered
  <2>. DEFINE p == PeriodAt(w, i)
              I == InPeriod(w, p)
              c == Cardinality(I)
  <2>1. p \in Periods /\ FirstPeriod(w) <= p
    BY PeriodCounts
  <2>2. D * c \in Nat
    <3>1. c \in Nat
      BY InPeriodFinite
    <3>. HIDE DEF c
    <3>. QED  BY <3>1 DEF D
  <2>3. ASSUME ~IsEmptyPeriod(w, i) PROVE GetFirstSegmentStartTime(w, p) \in Nat
    <3>1. p \in FirstPeriod(w)..LastPeriod(w)
      <4>1. FirstPeriod(w) \in Nat /\ LastPeriod(w) \in Nat /\ p \in Nat
        BY <2>1, PeriodCounts DEF Periods
      <4>. QED  BY <2>1, <2>3, <4>1 DEF IsEmptyPeriod
    <3>2. I # {} /\ I \subseteq Segments /\ Segments \subseteq Nat
      BY <3>1, PeriodNotEmpty DEF Segments
    <3>3. Min(I) \in Segments
      <4>. HIDE DEF I
      <4>. QED  BY <3>2, MinIn
    <3>. QED  BY <3>3, StreamFields DEF GetFirstSegmentStartTime
  <2>. HIDE DEF p, c
  <2>4. (IF IsEmptyPeriod(w, i) THEN 0 ELSE GetFirstSegmentStartTime(w, p)) \in Nat
    BY <2>3
  <2>. QED  BY <2>1, <2>2, <2>4 DEF Remembered, p, c
<1>3. PeriodInfo(w) = [i \in 1..n |-> e(i)]
  BY DEF PeriodInfo
<1>. HIDE DEF e, n
<1>4. PeriodInfo(w) \in [1..n -> Remembered]
  BY <1>2, <1>3
<1>5. PeriodInfo(w) \in Seq(Remembered) /\ Len(PeriodInfo(w)) = n
  BY <1>1, <1>4
<1>. QED  BY <1>4, <1>5 DEF n

\* The parts that GetCulledSeconds is made of.
Same(info, p) == {i \in DOMAIN info : info[i].periodId = p}
Gone(info, p) == IF Same(info, p) = {} THEN DOMAIN info ELSE 1..Min(Same(info, p)) - 1
StartBefore(info, p) ==
  IF Same(info, p) = {} THEN 0 ELSE info[Min(Same(info, p))].startTime

LEMMA CulledParts ==
    ASSUME NEW w
    PROVE  LET new == PeriodInfo(w)[1]
               info == mMPDPeriodsInfo
           IN  GetCulledSeconds(w) =
                 Durations(info, Gone(info, new.periodId))
                   + IF StartBefore(info, new.periodId) # 0 /\ new.startTime # 0
                     THEN Unsigned(new.startTime - StartBefore(info, new.periodId)) ELSE 0
BY DEF GetCulledSeconds, Durations, Gone, StartBefore, Same

LEMMA GoneType ==
    ASSUME NEW info \in Seq(Remembered), NEW p
    PROVE  /\ Gone(info, p) \in SUBSET DOMAIN info /\ IsFiniteSet(Gone(info, p))
           /\ Timed(info, Gone(info, p))
           /\ Same(info, p) # {} => Min(Same(info, p)) \in Same(info, p)
           /\ StartBefore(info, p) \in Nat
<1>. DEFINE n == Len(info)
            S == Same(info, p)
            k == Min(S)
<1>1. n \in Nat /\ DOMAIN info = 1..n /\ \A i \in 1..n : info[i] \in Remembered
  OBVIOUS
<1>2. ASSUME S # {} PROVE k \in S /\ k \in 1..n
  <2>1. S \subseteq Nat /\ S \subseteq 1..n
    BY <1>1 DEF Same
  <2>. HIDE DEF S, n
  <2>. QED  BY <1>2, <2>1, MinIn
<1>3. Gone(info, p) \in SUBSET (1..n)
  <2>1. Gone(info, p) = IF S = {} THEN 1..n ELSE 1..k - 1
    BY <1>1 DEF Gone
  <2>. HIDE DEF S, n, k
  <2>. QED  BY <1>1, <1>2, <2>1
<1>4. IsFiniteSet(Gone(info, p))
  <2>1. IsFiniteSet(1..n)
    <3>. HIDE DEF n
    <3>. QED  BY <1>1, FS_Interval
  <2>. QED  BY <1>3, <2>1, FS_Subset
<1>5. Timed(info, Gone(info, p))
  BY <1>1, <1>3 DEF Timed, Remembered
<1>6. StartBefore(info, p) \in Nat
  <2>1. StartBefore(info, p) = IF S = {} THEN 0 ELSE info[k].startTime
    BY DEF StartBefore
  <2>. HIDE DEF S, k
  <2>. QED  BY <1>1, <1>2, <2>1 DEF Remembered
<1>. QED  BY <1>1, <1>2, <1>3, <1>4, <1>5, <1>6

LEMMA CulledType ==
    ASSUME stream \in Streams, NEW w, Window(w), mMPDPeriodsInfo \in Seq(Remembered)
    PROVE  GetCulledSeconds(w) \in Int
<1>. DEFINE new == PeriodInfo(w)[1]
            info == mMPDPeriodsInfo
            gone == Gone(info, new.periodId)
            before == StartBefore(info, new.periodId)
            sum == Durations(info, gone)
<1>1. new.startTime \in Nat
  <2>1. 1 \in 1..PeriodCount(w)
    BY PeriodCounts
  <2>. QED  BY <2>1, PeriodInfoType DEF Remembered
<1>2. sum \in Int /\ before \in Nat
  BY GoneType, DurationsSum
<1>3. GetCulledSeconds(w) =
        sum + IF before # 0 /\ new.startTime # 0 THEN Unsigned(new.startTime - before) ELSE 0
  BY CulledParts
<1>. HIDE DEF new, sum, before
<1>. QED  BY <1>1, <1>2, <1>3, MpdAssumption DEF Unsigned

-----------------------------------------------------------------------------
(* The invariant.                                                            *)

Windows ==
  /\ Window(server) /\ Window(mpd)
  /\ mpd.first <= server.first /\ mpd.last <= server.last
  /\ server \in [first : Segments, last : Segments, ended : BOOLEAN]
  /\ mpd \in [first : Segments, last : Segments, live : BOOLEAN]

\* The period the collector is in is one of the manifest while it asks for its fragments.
InPeriods ==
  /\ mBasePeriodId = currentPeriodId /\ currentPeriodId \in Periods
  /\ currentPeriodId <= LastPeriod(mpd)
  /\ mCurrentPeriodIdx \in 1..PeriodCount(mpd) /\ iPeriod \in 1..PeriodCount(mpd) + 1
  /\ mpdChanged \in BOOLEAN
  /\ pc \in {"init", "audio", "video", "check"} =>
       FirstPeriod(mpd) <= currentPeriodId /\ iPeriod <= PeriodCount(mpd)

Place ==
  /\ pc \in {"period", "init", "audio", "video", "check", "refresh", "done"}
  /\ todo \subseteq Tracks /\ next \in {"audio", "video", "check"}

Culling == mMPDPeriodsInfo \in Seq(Remembered) /\ culledSeconds \in Int

Playing ==
  /\ playing \in {"no", "ready", "yes"} /\ mDownloadsEnabled \in BOOLEAN /\ audioLead \in Int

TypeInv ==
  stream \in Streams /\ Fetching /\ Windows /\ InPeriods /\ Place /\ Culling /\ Playing

LEMMA TypeInvTypeOK == TypeInv => TypeOK
BY DEF TypeInv, Fetching, Windows, InPeriods, Place, Culling, Playing, Remembered, TypeOK

\* A step that changes neither the windows nor the period.
LEMMA SameWindows ==
    ASSUME Windows, UNCHANGED <<stream, server, mpd>>
    PROVE  Windows'
BY DEF Windows, Window, Segments

LEMMA SamePeriods ==
    ASSUME InPeriods, UNCHANGED <<stream, mpd, period>>,
           pc' \in {"init", "audio", "video", "check"} =>
             pc \in {"init", "audio", "video", "check"}
    PROVE  InPeriods'
BY DEF InPeriods, period, Periods, LastPeriod, FirstPeriod, PeriodCount, Seg

LEMMA SameFetching ==
    ASSUME Fetching, UNCHANGED <<stream, track, ramp, delivered, errorSent, retune, faults>>
    PROVE  Fetching'
BY DEF Fetching, ramp, MediaStreamContext, Delivered, Periods, Segments, Seg

LEMMA SameCulling ==
    ASSUME Culling, UNCHANGED <<stream, culling>>
    PROVE  Culling'
BY DEF Culling, culling, Remembered, Periods, Seg

LEMMA SamePlaying ==
    ASSUME Playing, UNCHANGED player
    PROVE  Playing'
BY DEF Playing, player

-----------------------------------------------------------------------------
(* The invariant is kept by each action.                                     *)

LEMMA FetchInitType ==
    ASSUME TypeInv, FetchInit
    PROVE  TypeInv'
<1>1. PICK m \in todo :
        LET url == InitUrl(m, currentPeriodId, currentProfileIndex)
        IN  /\ InitNoRoom(m) \/ InitSame(m, url) \/ InitCached(m, url) \/ InitFails(m, url)
            /\ FetchInitialization(todo \ {m}, next)
  BY DEF FetchInit
<1>2. pc = "init" /\ UNCHANGED <<stream, server, mpd, period, culling, player, retune>>
  BY DEF FetchInit
<1>. DEFINE url == InitUrl(m, currentPeriodId, currentProfileIndex)
<1>3. m \in Tracks /\ url \in Periods \X (1..TopProfile)
  BY InitUrlType DEF TypeInv, Place, InPeriods, Fetching
<1>. HIDE DEF url
<1>4. Fetching'
  BY <1>1, <1>2, <1>3, InitTypes DEF TypeInv, url
<1>5. Place'
  BY <1>1 DEF TypeInv, Place, FetchInitialization
<1>6. Windows' /\ InPeriods'
  BY <1>2, SameWindows, SamePeriods DEF TypeInv
<1>7. Culling' /\ Playing'
  BY <1>2, SameCulling, SamePlaying DEF TypeInv
<1>. QED  BY <1>2, <1>4, <1>5, <1>6, <1>7 DEF TypeInv

\* Where the collector is when it asks for a segment.
LEMMA FetchTrackPushes ==
    ASSUME TypeInv, NEW m \in Tracks, FetchTrack(m)
    PROVE  /\ UNCHANGED <<track, ramp, errorSent, delivered, faults, retune>>
              \/ (/\ track[m].enabled /\ ~track[m].profileChanged
                  /\ PushNextFragment(m) /\ Fetching' /\ Keeps(m))
           /\ Place' /\ UNCHANGED <<stream, server, mpd, period, culling, player>>
<1>1. pc = m /\ UNCHANGED <<stream, server, mpd, period, culling, player>>
  BY DEF FetchTrack
<1>2. Place'
  BY DEF TypeInv, Place, FetchTrack, FetchInitialization, AfterTrack, Tracks, Pending, Enabled
<1>3. \/ UNCHANGED <<track, ramp, errorSent, delivered, faults, retune>>
      \/ /\ track[m].enabled /\ ~track[m].profileChanged /\ ~Full(m)
         /\ PushNextFragment(m)
  BY DEF FetchTrack
<1>4. /\ Window(mpd) /\ currentPeriodId \in FirstPeriod(mpd)..LastPeriod(mpd)
  <2>1. currentPeriodId \in Nat /\ FirstPeriod(mpd) \in Nat /\ LastPeriod(mpd) \in Nat
    BY PeriodCounts DEF TypeInv, InPeriods, Periods, Windows
  <2>2. FirstPeriod(mpd) <= currentPeriodId /\ currentPeriodId <= LastPeriod(mpd)
    BY <1>1 DEF TypeInv, InPeriods, Tracks
  <2>. QED  BY <2>1, <2>2 DEF TypeInv, Windows
<1>5. ASSUME ~Full(m), PushNextFragment(m) PROVE Fetching' /\ Keeps(m)
  BY <1>1, <1>4, <1>5, PushKeeps DEF TypeInv
<1>. QED  BY <1>1, <1>2, <1>3, <1>5

LEMMA FetchTrackType ==
    ASSUME TypeInv, NEW m \in Tracks, FetchTrack(m)
    PROVE  TypeInv'
<1>1. pc \in {"init", "audio", "video", "check"}
  BY DEF FetchTrack, Tracks
<1>2. Place' /\ UNCHANGED <<stream, server, mpd, period, culling, player>>
  BY FetchTrackPushes
<1>3. Fetching'
  BY <1>2, FetchTrackPushes, SameFetching DEF TypeInv
<1>4. Windows' /\ InPeriods'
  BY <1>1, <1>2, SameWindows, SamePeriods DEF TypeInv
<1>5. Culling' /\ Playing'
  BY <1>2, SameCulling, SamePlaying DEF TypeInv
<1>. QED  BY <1>2, <1>3, <1>4, <1>5 DEF TypeInv

\* The tracks after a step that changes each by itself.
LEMMA EachTrack ==
    ASSUME Fetching, NEW T, T \in [Tracks -> MediaStreamContext], track' = T,
           \A m \in Tracks : T[m].ring = track[m].ring,
           UNCHANGED <<stream, ramp, errorSent, retune, faults>>,
           delivered' \in [Tracks -> Delivered]
    PROVE  Fetching'
<1>1. \A m \in Tracks : Len(track'[m].ring) <= RingSize
  BY DEF Fetching
<1>. QED  BY <1>1, FetchingNext DEF Fetching, ramp

LEMMA CheckEosType ==
    ASSUME TypeInv, CheckEos
    PROVE  TypeInv'
<1>. DEFINE ended == {m \in Enabled(track) : track[m].eos}
            last == ~mpd.live /\ mCurrentPeriodIdx >= UpperBoundary
            e(m) == track[m].eosReached \/ (last /\ m \in ended)
            q(m) == [track[m] EXCEPT !.eosReached = e(m)]
<1>1. \A m \in Tracks : track[m] \in MediaStreamContext
  BY DEF TypeInv, Fetching
<1>2. track' = [m \in Tracks |-> q(m)]
  <2>1. \A m \in Tracks : [track[m] EXCEPT !.eosReached = @ \/ (last /\ m \in ended)] = q(m)
    BY <1>1 DEF MediaStreamContext
  <2>2. track' = [m \in Tracks |->
                    [track[m] EXCEPT !.eosReached = @ \/ (last /\ m \in ended)]]
    BY DEF CheckEos
  <2>. HIDE DEF q, last, ended
  <2>. QED  BY <2>1, <2>2
<1>3. /\ pc = "check" /\ UNCHANGED <<stream, server, mpd, ramp, culling, player, retune,
                                      errorSent, delivered, faults>>
      /\ UNCHANGED <<mCurrentPeriodIdx, mBasePeriodId, currentPeriodId, mpdChanged, todo, next>>
  BY DEF CheckEos
<1>4. \/ pc' = "period" /\ iPeriod' = iPeriod + 1
      \/ pc' = "audio" /\ iPeriod' = iPeriod
  BY DEF CheckEos
<1>5. ASSUME NEW m \in Tracks PROVE q(m) \in MediaStreamContext /\ q(m).ring = track[m].ring
  <2>1. e(m) \in BOOLEAN
    BY <1>1 DEF MediaStreamContext
  <2>. HIDE DEF e
  <2>. QED  BY <1>1, <2>1 DEF MediaStreamContext
<1>. HIDE DEF q
<1>6. Fetching'
  <2>1. delivered' \in [Tracks -> Delivered]
    BY <1>3 DEF TypeInv, Fetching
  <2>. DEFINE T == [m \in Tracks |-> q(m)]
  <2>2. T \in [Tracks -> MediaStreamContext] /\ \A m \in Tracks : T[m].ring = track[m].ring
    BY <1>5
  <2>. HIDE DEF T
  <2>. QED  BY <1>2, <1>3, <2>1, <2>2, EachTrack DEF TypeInv, T
<1>7. Place'
  BY <1>3, <1>4 DEF TypeInv, Place
<1>8. InPeriods'
  <2>. DEFINE c == PeriodCount(mpd)
  <2>1. c \in Nat /\ c' = c /\ LastPeriod(mpd)' = LastPeriod(mpd)
        /\ FirstPeriod(mpd)' = FirstPeriod(mpd) /\ Periods' = Periods
    BY <1>3, PeriodCounts
       DEF TypeInv, Windows, PeriodCount, LastPeriod, FirstPeriod, Periods, Seg
  <2>2. iPeriod \in 1..c + 1 /\ iPeriod <= c /\ mCurrentPeriodIdx \in 1..c
    BY <1>3 DEF TypeInv, InPeriods
  <2>3. iPeriod' \in 1..c + 1 /\ (pc' = "audio" => iPeriod' <= c)
    <3>. HIDE DEF c
    <3>. QED  BY <1>4, <2>1, <2>2
  <2>4. FirstPeriod(mpd) <= currentPeriodId
    BY <1>3 DEF TypeInv, InPeriods
  <2>. QED  BY <1>3, <1>4, <2>1, <2>2, <2>3, <2>4 DEF TypeInv, InPeriods
<1>9. Windows' /\ Culling' /\ Playing'
  BY <1>3, SameWindows, SameCulling, SamePlaying DEF TypeInv
<1>. QED  BY <1>3, <1>6, <1>7, <1>8, <1>9 DEF TypeInv

\* Steps that only move the collector on.
LEMMA MovingOnType ==
    ASSUME TypeInv, RefreshDue \/ CollectorStops \/ PeriodsEnd
    PROVE  TypeInv'
<1>1. /\ UNCHANGED <<stream, server, mpd, track, ramp, period, culling, todo, next, player,
                     retune, errorSent, delivered, faults>>
      /\ pc' \in {"refresh", "done"}
  BY DEF RefreshDue, CollectorStops, PeriodsEnd
<1>2. Fetching' /\ Windows' /\ Culling' /\ Playing'
  BY <1>1, SameFetching, SameWindows, SameCulling, SamePlaying DEF TypeInv
<1>3. InPeriods'
  BY <1>1, SamePeriods DEF TypeInv
<1>4. Place'
  BY <1>1 DEF TypeInv, Place
<1>. QED  BY <1>1, <1>2, <1>3, <1>4 DEF TypeInv

LEMMA SkipEmptyPeriodType ==
    ASSUME TypeInv, SkipEmptyPeriod
    PROVE  TypeInv'
<1>1. /\ UNCHANGED <<mCurrentPeriodIdx, mBasePeriodId, currentPeriodId, stream, server, mpd,
                     track, ramp, culling, control, player, retune, errorSent, delivered, faults>>
      /\ pc = "period" /\ iPeriod <= PeriodCount(mpd)
      /\ iPeriod' = iPeriod + 1 /\ mpdChanged' = FALSE
  BY DEF SkipEmptyPeriod
<1>2. Fetching' /\ Windows' /\ Culling' /\ Playing'
  BY <1>1, SameFetching, SameWindows, SameCulling, SamePlaying DEF TypeInv
<1>3. Place'
  BY <1>1 DEF TypeInv, Place, control
<1>4. InPeriods'
  <2>. DEFINE c == PeriodCount(mpd)
  <2>1. c \in Nat /\ c' = c /\ LastPeriod(mpd)' = LastPeriod(mpd) /\ Periods' = Periods
    BY <1>1, PeriodCounts
       DEF TypeInv, Windows, PeriodCount, LastPeriod, FirstPeriod, Periods, Seg
  <2>2. iPeriod \in 1..c + 1 /\ iPeriod <= c
    BY <1>1 DEF TypeInv, InPeriods
  <2>3. iPeriod' \in 1..c + 1
    <3>. HIDE DEF c
    <3>. QED  BY <1>1, <2>1, <2>2
  <2>4. pc' = "period"
    BY <1>1 DEF control
  <2>. QED  BY <1>1, <2>1, <2>3, <2>4 DEF TypeInv, InPeriods
<1>. QED  BY <1>1, <1>2, <1>3, <1>4 DEF TypeInv

\* Injectors, the player, the application and the server.
LEMMA InjectFragmentType ==
    ASSUME TypeInv, NEW m \in Tracks, InjectFragment(m)
    PROVE  TypeInv'
<1>. DEFINE ring == Tail(track[m].ring)
            q == [track[m] EXCEPT !.ring = ring]
            n == Head(track[m].ring)
<1>1. /\ UNCHANGED <<stream, server, mpd, ramp, period, culling, control, mDownloadsEnabled,
                     retune, errorSent, delivered, faults>>
      /\ track[m].ring # <<>> /\ track' = [track EXCEPT ![m].ring = Tail(@)]
      /\ audioLead' = audioLead + IF m = "audio" THEN n ELSE -n
      /\ playing' \in {"ready", playing}
  BY DEF InjectFragment
<1>2. track[m] \in MediaStreamContext /\ track[m].ring \in Seq({0, 1})
      /\ Len(track[m].ring) <= RingSize /\ RingSize \in Nat
  BY MpdAssumption DEF TypeInv, Fetching, MediaStreamContext
<1>3. ring \in Seq({0, 1}) /\ Len(ring) <= RingSize /\ n \in {0, 1}
  BY <1>1, <1>2
<1>. HIDE DEF ring, n
<1>4. q \in MediaStreamContext /\ q.ring = ring
  BY <1>2, <1>3 DEF MediaStreamContext
<1>5. track' = [track EXCEPT ![m] = q]
  BY <1>1, <1>2 DEF ring, MediaStreamContext
<1>. HIDE DEF q
<1>6. Fetching'
  <2>1. /\ track' \in [Tracks -> MediaStreamContext]
        /\ \A k \in Tracks : Len(track'[k].ring) <= RingSize
    BY <1>3, <1>4, <1>5 DEF TypeInv, Fetching
  <2>. QED  BY <1>1, <2>1, FetchingNext DEF TypeInv, Fetching, ramp
<1>7. Playing'
  <2>1. audioLead' \in Int
    BY <1>1, <1>3 DEF TypeInv, Playing
  <2>. QED  BY <1>1, <2>1 DEF TypeInv, Playing
<1>8. Windows' /\ Culling'
  BY <1>1, SameWindows, SameCulling DEF TypeInv
<1>9. InPeriods' /\ Place'
  <2>1. pc' = pc /\ todo' = todo /\ next' = next
    BY <1>1 DEF control
  <2>. QED  BY <1>1, <2>1, SamePeriods DEF TypeInv, Place
<1>. QED  BY <1>1, <1>6, <1>7, <1>8, <1>9 DEF TypeInv

LEMMA PlayerType ==
    ASSUME TypeInv, FirstFrame \/ Stop
    PROVE  TypeInv'
<1>1. /\ UNCHANGED <<stream, server, mpd, track, ramp, period, culling, control, audioLead,
                     retune, errorSent, delivered, faults>>
      /\ playing' \in {playing, "yes"} /\ mDownloadsEnabled' \in {mDownloadsEnabled, FALSE}
  BY DEF FirstFrame, Stop
<1>2. Fetching' /\ Windows' /\ Culling'
  BY <1>1, SameFetching, SameWindows, SameCulling DEF TypeInv
<1>3. Playing'
  BY <1>1 DEF TypeInv, Playing
<1>4. InPeriods' /\ Place'
  <2>1. pc' = pc /\ todo' = todo /\ next' = next
    BY <1>1 DEF control
  <2>. QED  BY <1>1, <2>1, SamePeriods DEF TypeInv, Place
<1>. QED  BY <1>1, <1>2, <1>3, <1>4 DEF TypeInv

LEMMA StutterType ==
    ASSUME TypeInv, UNCHANGED vars
    PROVE  TypeInv'
<1>1. /\ UNCHANGED <<stream, server, mpd, track, ramp, period, culling, control, player,
                     retune, errorSent, delivered, faults>>
  BY DEF vars
<1>2. Fetching' /\ Windows' /\ Culling' /\ Playing'
  BY <1>1, SameFetching, SameWindows, SameCulling, SamePlaying DEF TypeInv
<1>3. InPeriods' /\ Place'
  <2>1. pc' = pc /\ todo' = todo /\ next' = next
    BY <1>1 DEF control
  <2>. QED  BY <1>1, <2>1, SamePeriods DEF TypeInv, Place
<1>. QED  BY <1>1, <1>2, <1>3 DEF TypeInv

LEMMA PublishType ==
    ASSUME TypeInv, Publish
    PROVE  TypeInv'
<1>1. UNCHANGED <<stream, mpd, track, ramp, period, culling, control, player, retune,
                  errorSent, delivered, faults>>
  BY DEF Publish
<1>2. Fetching' /\ Culling' /\ Playing'
  BY <1>1, SameFetching, SameCulling, SamePlaying DEF TypeInv
<1>3. InPeriods' /\ Place'
  <2>1. pc' = pc /\ todo' = todo /\ next' = next
    BY <1>1 DEF control
  <2>. QED  BY <1>1, <2>1, SamePeriods DEF TypeInv, Place
<1>4. Windows'
  <2>. DEFINE f == server.first
              l == server.last
              n == Len(stream.segs)
              x == stream.window
              g == IF x = 0 THEN f ELSE Max({f, l + 2 - x})
  <2>1. /\ n \in Nat /\ f \in 1..n /\ l \in 1..n /\ f <= l /\ x \in Nat
        /\ mpd.first \in 1..n /\ mpd.last \in 1..n /\ mpd.first <= f /\ mpd.last <= l
        /\ server \in [first : 1..n, last : 1..n, ended : BOOLEAN]
    BY StreamFields DEF TypeInv, Windows, Window, Segments, Stream
  <2>2. CASE l < n
    <3>1. server' = [server EXCEPT !.last = l + 1, !.first = g]
      BY <2>1, <2>2 DEF Publish
    <3>2. /\ g \in 1..n /\ f <= g /\ g <= l + 1 /\ l + 1 \in 1..n
      <4>. DEFINE y == l + 2 - x
      <4>0. f \in Int /\ y \in Int
        BY <2>1
      <4>1. Max({f, y}) \in {f, y} /\ f <= Max({f, y})
        <5>. HIDE DEF f, y
        <5>. QED  BY <4>0, OfTwo
      <4>2. x # 0 => y <= l + 1
        <5>. HIDE DEF l, x
        <5>. QED  BY <2>1
      <4>3. g = IF x = 0 THEN f ELSE Max({f, y})
        OBVIOUS
      <4>. HIDE DEF g, f, l, n, x, y
      <4>. QED  BY <2>1, <2>2, <4>0, <4>1, <4>2, <4>3
    <3>. HIDE DEF g
    <3>3. server' \in [first : 1..n, last : 1..n, ended : BOOLEAN]
          /\ server'.first = g /\ server'.last = l + 1
      BY <2>1, <3>1, <3>2
    <3>4. mpd.first <= g /\ mpd.last <= l + 1
      <4>. DEFINE a == mpd.first
                  b == mpd.last
      <4>. HIDE DEF a, b, f, l, n, g
      <4>1. a <= g /\ b <= l + 1
        BY <2>1, <3>2 DEF a, b
      <4>. QED  BY <4>1 DEF a, b
    <3>. QED  BY <1>1, <3>2, <3>3, <3>4 DEF TypeInv, Windows, Window, Segments
  <2>3. CASE ~(l < n)
    <3>1. server' = [server EXCEPT !.ended = TRUE]
      BY <2>3 DEF Publish
    <3>2. server' \in [first : 1..n, last : 1..n, ended : BOOLEAN]
          /\ server'.first = f /\ server'.last = l
      BY <2>1, <3>1
    <3>. QED  BY <1>1, <3>2 DEF TypeInv, Windows, Window, Segments
  <2>. QED  BY <2>2, <2>3
<1>. QED  BY <1>1, <1>2, <1>3, <1>4 DEF TypeInv

\* The period looked up in a manifest.
LEMMA ReselectType ==
    ASSUME stream \in Streams, NEW w, Window(w)
    PROVE  Reselect(w) \in 1..PeriodCount(w)
<1>. DEFINE known == {i \in 1..PeriodCount(w) : PeriodAt(w, i) = mBasePeriodId}
            n == PeriodCount(w)
<1>1. n \in Nat \ {0}
  BY PeriodCounts
<1>2. known # {} => Min(known) \in known
  <2>1. known \subseteq Nat
    OBVIOUS
  <2>. HIDE DEF known
  <2>. QED  BY <2>1, MinIn
<1>3. 1 \in 1..n
  <2>. HIDE DEF n
  <2>. QED  BY <1>1
<1>4. known \subseteq 1..n
  OBVIOUS
<1>. QED  BY <1>2, <1>3, <1>4 DEF Reselect

\* The windows after another manifest.
LEMMA UpdateMPDWindows ==
    ASSUME TypeInv, UpdateMPD
    PROVE  Windows' /\ LastPeriod(mpd) <= LastPeriod(mpd')
<1>. DEFINE f == mpd.first
            l == mpd.last
            n == Len(stream.segs)
<1>1. /\ n \in Nat /\ f \in 1..n /\ l \in 1..n /\ f <= l /\ Segments = 1..n
      /\ server.first \in 1..n /\ server.last \in 1..n /\ server.first <= server.last
      /\ f <= server.first /\ l <= server.last
      /\ server \in [first : Segments, last : Segments, ended : BOOLEAN]
      /\ mpd \in [first : Segments, last : Segments, live : BOOLEAN]
  BY StreamFields DEF TypeInv, Windows, Window, Segments
<1>2. UNCHANGED <<stream, server>>
  BY DEF UpdateMPD
<1>3. Segments' = Segments
  BY <1>2 DEF Segments
<1>4. CASE mpd' = [first |-> server.first, last |-> server.last, live |-> ~server.ended]
  <2>1. Windows'
    BY <1>1, <1>2, <1>3, <1>4 DEF Windows, Window
  <2>2. mpd'.last = server.last
    BY <1>4
  <2>3. l \in Segments /\ server.last \in Segments /\ l <= server.last
    BY <1>1
  <2>4. Seg(l).p <= Seg(server.last).p
    BY <2>3, Sequence DEF TypeInv
  <2>. QED  BY <2>1, <2>2, <2>4 DEF LastPeriod
<1>5. CASE /\ mpd.last - 1 \in InPeriod(mpd, LastPeriod(mpd))
           /\ mpd' = [mpd EXCEPT !.last = @ - 1]
  <2>1. l - 1 \in f..l /\ Seg(l - 1).p = Seg(l).p
    BY <1>5 DEF InPeriod, LastPeriod
  <2>2. mpd'.first = f /\ mpd'.last = l - 1
    BY <1>1, <1>5
  <2>3. l - 1 \in 1..n /\ f <= l - 1 /\ l - 1 <= server.last
    <3>. DEFINE x == server.last
    <3>1. x \in Int /\ l <= x
      BY <1>1
    <3>. HIDE DEF f, l, n, x
    <3>2. l - 1 \in 1..n /\ f <= l - 1 /\ l - 1 <= x
      BY <1>1, <2>1, <3>1
    <3>. QED  BY <3>2 DEF x
  <2>4. mpd' \in [first : Segments, last : Segments, live : BOOLEAN]
    <3>. HIDE DEF l
    <3>. QED  BY <1>1, <1>5, <2>3 DEF l
  <2>5. Windows'
    BY <1>1, <1>2, <1>3, <2>2, <2>3, <2>4 DEF Windows, Window
  <2>6. LastPeriod(mpd') = LastPeriod(mpd) /\ LastPeriod(mpd) \in Nat
    <3>1. l \in Segments
      BY <1>1
    <3>. QED  BY <2>1, <2>2, <3>1, StreamFields DEF LastPeriod, TypeInv
  <2>. QED  BY <2>5, <2>6
<1>. QED  BY <1>4, <1>5 DEF UpdateMPD

LEMMA UpdateMPDType ==
    ASSUME TypeInv, UpdateMPD
    PROVE  TypeInv'
<1>1. /\ UNCHANGED <<stream, server, mBasePeriodId, currentPeriodId, track, ramp, culling, todo,
                     next, player, retune, errorSent, delivered>>
      /\ mCurrentPeriodIdx' = Reselect(mpd') /\ iPeriod' = Reselect(mpd')
      /\ mpdChanged' = TRUE /\ pc' = "period"
  BY DEF UpdateMPD
<1>2. Windows' /\ LastPeriod(mpd) <= LastPeriod(mpd')
  BY UpdateMPDWindows
<1>3. faults' \in 0..stream.budget
  BY FaultCounts DEF UpdateMPD, TypeInv, Fetching
<1>4. Fetching'
  BY <1>1, <1>3, FetchingNext DEF TypeInv, Fetching, ramp
<1>5. Culling' /\ Playing' /\ Place'
  BY <1>1, SameCulling, SamePlaying DEF TypeInv, Place
<1>6. Window(mpd')
  BY <1>1, <1>2 DEF Windows, Window, Segments
<1>7. /\ Reselect(mpd') \in 1..PeriodCount(mpd') /\ PeriodCount(mpd') \in Nat
      /\ LastPeriod(mpd') \in Nat
  BY <1>6, ReselectType, PeriodCounts DEF TypeInv, Periods
<1>8. /\ PeriodCount(mpd)' = PeriodCount(mpd') /\ LastPeriod(mpd)' = LastPeriod(mpd')
      /\ Periods' = Periods
  BY <1>1 DEF PeriodCount, FirstPeriod, LastPeriod, Periods, Seg
<1>9. InPeriods'
  <2>. DEFINE c == PeriodCount(mpd')
              i == Reselect(mpd')
  <2>1. i \in 1..c + 1
    <3>. HIDE DEF c, i
    <3>. QED  BY <1>7 DEF c, i
  <2>2. currentPeriodId <= LastPeriod(mpd')
    <3>1. currentPeriodId \in Nat /\ LastPeriod(mpd) \in Nat
      BY PeriodCounts DEF TypeInv, InPeriods, Windows, Periods
    <3>2. currentPeriodId <= LastPeriod(mpd)
      BY DEF TypeInv, InPeriods
    <3>. QED  BY <1>2, <1>7, <3>1, <3>2
  <2>. QED  BY <1>1, <1>7, <1>8, <2>1, <2>2 DEF TypeInv, InPeriods
<1>. QED  BY <1>1, <1>2, <1>4, <1>5, <1>9 DEF TypeInv

LEMMA UpdateMPDFailsType ==
    ASSUME TypeInv, UpdateMPDFails
    PROVE  TypeInv'
<1>1. /\ UNCHANGED <<stream, server, mpd, mBasePeriodId, currentPeriodId, track, ramp, culling,
                     todo, next, player, retune, delivered>>
      /\ errorSent' \in {errorSent, TRUE} /\ pc' \in {"period", "done"}
  BY DEF UpdateMPDFails
<1>2. faults' \in 0..stream.budget
  BY FaultCounts DEF UpdateMPDFails, TypeInv, Fetching
<1>3. Fetching'
  BY <1>1, <1>2, FetchingNext DEF TypeInv, Fetching, ramp
<1>4. Windows' /\ Culling' /\ Playing'
  BY <1>1, SameWindows, SameCulling, SamePlaying DEF TypeInv
<1>5. Place'
  BY <1>1 DEF TypeInv, Place
<1>6. Reselect(mpd) \in 1..PeriodCount(mpd) /\ PeriodCount(mpd) \in Nat
  BY ReselectType, PeriodCounts DEF TypeInv, Windows
<1>7. /\ mCurrentPeriodIdx' \in 1..PeriodCount(mpd)
      /\ iPeriod' \in 1..PeriodCount(mpd) + 1 /\ mpdChanged' \in BOOLEAN
  <2>. DEFINE c == PeriodCount(mpd)
              i == Reselect(mpd)
  <2>1. i \in 1..c /\ i \in 1..c + 1
    <3>. HIDE DEF c, i
    <3>. QED  BY <1>6 DEF c, i
  <2>. QED  BY <2>1 DEF UpdateMPDFails, TypeInv, InPeriods
<1>8. PeriodCount(mpd)' = PeriodCount(mpd) /\ LastPeriod(mpd)' = LastPeriod(mpd)
      /\ Periods' = Periods
  BY <1>1 DEF PeriodCount, FirstPeriod, LastPeriod, Periods, Seg
<1>9. InPeriods'
  BY <1>1, <1>7, <1>8 DEF TypeInv, InPeriods
<1>. QED  BY <1>1, <1>3, <1>4, <1>5, <1>9 DEF TypeInv

\* What entering a period makes of each track.
LEMMA EnteredTracks ==
    ASSUME TypeInv, EnterPeriod
    PROVE  LET p == PeriodAt(mpd, iPeriod)
               moved == currentPeriodId # p
               found == moved /\ IsDiscontinuity(p)
               On(m) == m = "video" \/ HasAudio(p)
           IN  /\ track' \in [Tracks -> MediaStreamContext]
               /\ \A m \in Tracks :
                    /\ track'[m].ring = track[m].ring /\ track'[m].init = track[m].init
                    /\ track'[m].enabled = IF moved THEN On(m) ELSE track[m].enabled
                    /\ track'[m].profileChanged =
                         (track[m].profileChanged \/ (moved /\ On(m)))
                    /\ track'[m].discontinuity =
                         (track[m].discontinuity \/ (found /\ track'[m].enabled))
               /\ delivered' = [m \in Tracks |->
                    [delivered[m] EXCEPT !.due = @ \/ (found /\ track'[m].enabled)]]
<1>. DEFINE p == PeriodAt(mpd, iPeriod)
            moved == currentPeriodId # p
            found == moved /\ IsDiscontinuity(p)
            On(m) == m = "video" \/ HasAudio(p)
            cleared == IF moved THEN StreamSelection(ForgetLastSegment(track), p) ELSE track
            updated == UpdateTrackInfo(cleared)
            flagged == [m \in Tracks |->
                          [updated[m] EXCEPT !.discontinuity = @ \/ (found /\ updated[m].enabled)]]
<1>1. /\ track' = flagged
      /\ delivered' = [m \in Tracks |->
           [delivered[m] EXCEPT !.due = @ \/ (found /\ updated[m].enabled)]]
  BY DEF EnterPeriod
<1>2. /\ \A m \in Tracks : track[m] \in MediaStreamContext
      /\ found \in BOOLEAN /\ moved \in BOOLEAN /\ \A m \in Tracks : On(m) \in BOOLEAN
      /\ 0 \in Nat /\ 0 \in 0..Len(stream.segs) + 1 /\ 1 \in 1..Len(stream.segs) + 1
  BY StreamFields DEF TypeInv, Fetching, IsDiscontinuity, HasAudio
<1>. DEFINE forgotten == ForgetLastSegment(track)
<1>3. ASSUME NEW m \in Tracks
      PROVE  /\ forgotten[m] \in MediaStreamContext /\ forgotten[m].ring = track[m].ring
             /\ forgotten[m].init = track[m].init /\ forgotten[m].enabled = track[m].enabled
             /\ forgotten[m].profileChanged = track[m].profileChanged
             /\ forgotten[m].discontinuity = track[m].discontinuity
  <2>1. forgotten[m] = IF track[m].enabled THEN [track[m] EXCEPT !.last = 0, !.lastDur = 0]
                       ELSE track[m]
    BY DEF ForgetLastSegment
  <2>. DEFINE r == track[m]
              q == [r EXCEPT !.last = 0, !.lastDur = 0]
  <2>2. r \in MediaStreamContext
    BY <1>2
  <2>. HIDE DEF r, forgotten
  <2>3. /\ q \in MediaStreamContext /\ q.ring = r.ring /\ q.init = r.init
        /\ q.enabled = r.enabled /\ q.profileChanged = r.profileChanged
        /\ q.discontinuity = r.discontinuity
    BY <2>2 DEF MediaStreamContext
  <2>4. forgotten[m] \in {q, r}
    BY <2>1 DEF r
  <2>. HIDE DEF q
  <2>. QED  BY <2>2, <2>3, <2>4 DEF r
<1>4. ASSUME NEW m \in Tracks
      PROVE  /\ cleared[m] \in MediaStreamContext /\ cleared[m].ring = track[m].ring
             /\ cleared[m].init = track[m].init
             /\ cleared[m].enabled = IF moved THEN On(m) ELSE track[m].enabled
             /\ cleared[m].profileChanged = (track[m].profileChanged \/ (moved /\ On(m)))
             /\ cleared[m].discontinuity = track[m].discontinuity
  <2>1. CASE ~moved
    BY <1>2, <2>1 DEF MediaStreamContext
  <2>2. CASE moved
    <3>. DEFINE on == On(m)
                changed == forgotten[m].profileChanged \/ on
    <3>1. cleared[m] = [forgotten[m] EXCEPT !.enabled = on, !.profileChanged = changed]
      <4>1. cleared[m] = [forgotten[m] EXCEPT !.enabled = on, !.profileChanged = @ \/ on]
        BY <2>2 DEF StreamSelection
      <4>. HIDE DEF cleared, forgotten, on
      <4>. QED  BY <1>3, <4>1 DEF MediaStreamContext
    <3>2. on \in BOOLEAN /\ changed \in BOOLEAN
      BY <1>2, <1>3
    <3>. HIDE DEF cleared, forgotten, on, changed
    <3>3. /\ cleared[m] \in MediaStreamContext /\ cleared[m].ring = forgotten[m].ring
          /\ cleared[m].init = forgotten[m].init /\ cleared[m].enabled = on
          /\ cleared[m].profileChanged = changed
          /\ cleared[m].discontinuity = forgotten[m].discontinuity
      BY <1>3, <3>1, <3>2 DEF MediaStreamContext
    <3>4. changed = (track[m].profileChanged \/ (moved /\ on))
      BY <1>3, <2>2 DEF changed
    <3>. QED  BY <1>3, <2>2, <3>3, <3>4 DEF on
  <2>. QED  BY <2>1, <2>2
<1>. HIDE DEF cleared, forgotten
<1>5. ASSUME NEW m \in Tracks
      PROVE  /\ updated[m] \in MediaStreamContext /\ updated[m].ring = cleared[m].ring
             /\ updated[m].init = cleared[m].init /\ updated[m].enabled = cleared[m].enabled
             /\ updated[m].profileChanged = cleared[m].profileChanged
             /\ updated[m].discontinuity = cleared[m].discontinuity
  <2>1. updated[m] = IF cleared[m].enabled
                     THEN [cleared[m] EXCEPT !.row = 1, !.rep = 0, !.time = 0, !.eos = FALSE]
                     ELSE cleared[m]
    BY DEF UpdateTrackInfo
  <2>. DEFINE r == cleared[m]
              q == [r EXCEPT !.row = 1, !.rep = 0, !.time = 0, !.eos = FALSE]
  <2>2. r \in MediaStreamContext
    BY <1>4
  <2>. HIDE DEF r, updated
  <2>3. /\ q \in MediaStreamContext /\ q.ring = r.ring /\ q.init = r.init
        /\ q.enabled = r.enabled /\ q.profileChanged = r.profileChanged
        /\ q.discontinuity = r.discontinuity
    BY <1>2, <2>2 DEF MediaStreamContext
  <2>4. updated[m] \in {q, r}
    BY <2>1 DEF r
  <2>. HIDE DEF q
  <2>. QED  BY <2>2, <2>3, <2>4 DEF r
<1>. HIDE DEF updated
<1>6. ASSUME NEW m \in Tracks
      PROVE  /\ track'[m] \in MediaStreamContext /\ track'[m].ring = updated[m].ring
             /\ track'[m].init = updated[m].init /\ track'[m].enabled = updated[m].enabled
             /\ track'[m].profileChanged = updated[m].profileChanged
             /\ track'[m].discontinuity =
                  (updated[m].discontinuity \/ (found /\ updated[m].enabled))
  <2>. DEFINE e == updated[m].discontinuity \/ (found /\ updated[m].enabled)
              q == [updated[m] EXCEPT !.discontinuity = e]
  <2>1. e \in BOOLEAN
    BY <1>2, <1>5 DEF MediaStreamContext
  <2>2. track'[m] = q
    <3>1. track'[m] = [updated[m] EXCEPT !.discontinuity = @ \/ (found /\ updated[m].enabled)]
      BY <1>1
    <3>2. updated[m] \in MediaStreamContext
      BY <1>5
    <3>. HIDE DEF found
    <3>. QED  BY <3>1, <3>2 DEF MediaStreamContext
  <2>. HIDE DEF e
  <2>3. /\ q \in MediaStreamContext /\ q.ring = updated[m].ring /\ q.init = updated[m].init
        /\ q.enabled = updated[m].enabled /\ q.profileChanged = updated[m].profileChanged
        /\ q.discontinuity = e
    <3>. DEFINE r == updated[m]
    <3>1. r \in MediaStreamContext
      BY <1>5
    <3>. HIDE DEF r, e
    <3>2. [r EXCEPT !.discontinuity = e] \in MediaStreamContext
      BY <2>1, <3>1 DEF MediaStreamContext
    <3>3. [r EXCEPT !.discontinuity = e].discontinuity = e
      BY <3>1 DEF MediaStreamContext
    <3>. QED  BY <3>1, <3>2, <3>3 DEF r, MediaStreamContext
  <2>. HIDE DEF q
  <2>. QED  BY <2>2, <2>3 DEF e
<1>7. track' \in [Tracks -> MediaStreamContext]
  <2>1. track' = [m \in Tracks |-> track'[m]]
    BY <1>1
  <2>. QED  BY <1>6, <2>1
<1>8. delivered' = [m \in Tracks |->
                      [delivered[m] EXCEPT !.due = @ \/ (found /\ track'[m].enabled)]]
  <2>1. \A m \in Tracks : updated[m].enabled = track'[m].enabled
    BY <1>6
  <2>. HIDE DEF found
  <2>. QED  BY <1>1, <2>1
<1>. HIDE DEF moved, found, p, On
<1>9. \A m \in Tracks :
        /\ track'[m].ring = track[m].ring /\ track'[m].init = track[m].init
        /\ track'[m].enabled = IF moved THEN On(m) ELSE track[m].enabled
        /\ track'[m].profileChanged = (track[m].profileChanged \/ (moved /\ On(m)))
        /\ track'[m].discontinuity = (track[m].discontinuity \/ (found /\ track'[m].enabled))
  BY <1>4, <1>5, <1>6
<1>. QED  BY <1>7, <1>8, <1>9 DEF moved, found, p, On

LEMMA EnterPeriodType ==
    ASSUME TypeInv, EnterPeriod
    PROVE  TypeInv'
<1>. DEFINE p == PeriodAt(mpd, iPeriod)
            c == PeriodCount(mpd)
<1>1. /\ UNCHANGED <<stream, server, mpd, ramp, player, retune, errorSent, faults, iPeriod>>
      /\ pc = "period" /\ iPeriod <= c
      /\ ~(PeriodChanged /\ IsEmptyPeriod(mpd, iPeriod))
      /\ mCurrentPeriodIdx' = iPeriod /\ mBasePeriodId' = p /\ currentPeriodId' = p
      /\ mpdChanged' = FALSE
  BY DEF EnterPeriod
<1>2. /\ track' \in [Tracks -> MediaStreamContext]
      /\ \A m \in Tracks : track'[m].ring = track[m].ring
  BY EnteredTracks
<1>3. delivered' \in [Tracks -> Delivered]
  <2>. DEFINE found == currentPeriodId # p /\ IsDiscontinuity(p)
              due(m) == delivered[m].due \/ (found /\ track'[m].enabled)
  <2>1. delivered' = [m \in Tracks |->
                        [delivered[m] EXCEPT !.due = @ \/ (found /\ track'[m].enabled)]]
    BY EnteredTracks
  <2>2. \A m \in Tracks : delivered[m] \in Delivered /\ track'[m].enabled \in BOOLEAN
    BY <1>2 DEF TypeInv, Fetching, MediaStreamContext
  <2>3. \A m \in Tracks : due(m) \in BOOLEAN
    BY <2>2, DeliveredFields DEF IsDiscontinuity
  <2>4. delivered' = [m \in Tracks |-> [delivered[m] EXCEPT !.due = due(m)]]
    <3>. HIDE DEF found
    <3>. QED  BY <2>1, <2>2 DEF Delivered
  <2>. HIDE DEF due
  <2>5. \A m \in Tracks : [delivered[m] EXCEPT !.due = due(m)] \in Delivered
    BY <2>2, <2>3, DeliveredFields
  <2>. QED  BY <2>4, <2>5
<1>4. Fetching'
  BY <1>1, <1>2, <1>3, EachTrack DEF TypeInv
<1>5. Windows' /\ Playing'
  BY <1>1, SameWindows, SamePlaying DEF TypeInv
<1>6. Place'
  BY DEF EnterPeriod, FetchInitialization, Place, Pending, Enabled, TypeInv
<1>7. Culling'
  <2>1. CASE stream.live
    <3>1. /\ culledSeconds' = culledSeconds
               + (IF GetCulledSeconds(mpd) > 0 THEN GetCulledSeconds(mpd) ELSE 0)
          /\ mMPDPeriodsInfo' = PeriodInfo(mpd)
      BY <2>1 DEF EnterPeriod
    <3>2. GetCulledSeconds(mpd) \in Int /\ PeriodInfo(mpd) \in Seq(Remembered)
      BY CulledType, PeriodInfoType DEF TypeInv, Windows, Culling
    <3>3. culledSeconds' \in Int
      BY <3>1, <3>2 DEF TypeInv, Culling
    <3>4. Seq(Remembered)' = Seq(Remembered)
      BY <1>1 DEF Remembered, Periods, Seg
    <3>. QED  BY <3>1, <3>2, <3>3, <3>4 DEF Culling
  <2>2. CASE ~stream.live
    BY <1>1, <2>2, SameCulling DEF EnterPeriod, TypeInv
  <2>. QED  BY <2>1, <2>2
<1>8. InPeriods'
  <2>1. iPeriod \in 1..c
    <3>1. iPeriod \in 1..c + 1 /\ c \in Nat
      BY PeriodCounts DEF TypeInv, InPeriods, Windows
    <3>. HIDE DEF c
    <3>. QED  BY <1>1, <3>1
  <2>2. p \in Periods /\ FirstPeriod(mpd) <= p
    BY <2>1, PeriodCounts DEF TypeInv, Windows
  <2>3. p <= LastPeriod(mpd)
    <3>1. CASE PeriodChanged
      <4>1. p \in Nat /\ LastPeriod(mpd) \in Nat
        BY <2>2, PeriodCounts DEF TypeInv, Windows, Periods
      <4>2. ~(p > LastPeriod(mpd))
        BY <1>1, <3>1 DEF IsEmptyPeriod
      <4>. HIDE DEF p
      <4>. QED  BY <4>1, <4>2
    <3>2. CASE ~PeriodChanged
      BY <3>2 DEF PeriodChanged, TypeInv, InPeriods
    <3>. QED  BY <3>1, <3>2
  <2>4. /\ c' = c /\ LastPeriod(mpd)' = LastPeriod(mpd)
        /\ FirstPeriod(mpd)' = FirstPeriod(mpd) /\ Periods' = Periods
    BY <1>1 DEF PeriodCount, LastPeriod, FirstPeriod, Periods, Seg
  <2>5. iPeriod \in 1..c + 1
    BY DEF TypeInv, InPeriods
  <2>. HIDE DEF p, c
  <2>. QED  BY <1>1, <2>1, <2>2, <2>3, <2>4, <2>5 DEF InPeriods, c
<1>. QED  BY <1>1, <1>4, <1>5, <1>6, <1>7, <1>8 DEF TypeInv

\* The segment i that a track starts from, in the timeline it is looked up in.
LEMMA StartPlace ==
    ASSUME stream \in Streams, NEW w, Window(w), w.first = 1, NEW i \in 1..w.last,
           i \in Segments
    PROVE  LET tl == Timeline(w, Seg(i).p)
           IN  /\ Seg(i).p \in FirstPeriod(w)..LastPeriod(w)
               /\ Seg(i).row \in 1..Len(stream.segs)
               /\ (Seg(i).t - tl[Seg(i).row].t) \div D \in 0..Len(stream.segs)
               /\ Seg(i).row \in 1..Len(tl) /\ Min(Rows(w, Seg(i).p)) = 1
               /\ (Seg(i).t - tl[Seg(i).row].t) \div D = 0 => tl[Seg(i).row].t = Seg(i).t
<1>. DEFINE p == Seg(i).p
            row == Seg(i).row
            I == InPeriod(w, p)
            R == Rows(w, p)
            N == Len(stream.segs)
            Row(r) == {x \in I : Seg(x).row = r}
<1>1. /\ 1 \in Segments /\ w.last \in Segments /\ 1 <= i /\ i <= w.last
      /\ N \in Nat /\ Segments = 1..N /\ i \in 1..N
  BY StreamFields DEF Window, Segments
<1>2. p \in FirstPeriod(w)..LastPeriod(w)
  <2>1. Seg(1).p <= p /\ p <= Seg(w.last).p
    BY <1>1, Sequence
  <2>2. p \in Nat /\ Seg(1).p \in Nat /\ Seg(w.last).p \in Nat
    BY <1>1, StreamFields
  <2>. HIDE DEF p
  <2>. QED  BY <2>1, <2>2 DEF FirstPeriod, LastPeriod
<1>3. i \in I /\ I \subseteq Segments /\ \A x \in I : Seg(x).p = p
  <2>1. i \in w.first..w.last
    BY <1>1
  <2>. QED  BY <1>2, <2>1, PeriodNotEmpty DEF InPeriod
<1>4. PICK a \in Nat \ {0}, c \in Nat \ {0} :
        a <= c /\ R = a..c /\ Min(R) = a /\ Cardinality(R) = c - a + 1
  BY <1>2, RowsInterval
<1>5. Cardinality(R) \in 1..N
  BY <1>2, RowsInterval
<1>6. row \in R /\ row \in Nat \ {0}
  BY <1>1, <1>3, StreamFields DEF Rows
<1>7. 1 \in R
  <2>1. 1 \in 1..row
    BY <1>6
  <2>2. PICK j \in Segments : Seg(j).p = p /\ Seg(j).row = 1
    BY <1>1, <2>1, Sequence
  <2>3. CASE i <= j
    <3>1. row <= 1
      BY <1>1, <2>2, <2>3, Sequence
    <3>2. row = 1
      BY <1>6, <3>1
    <3>. QED  BY <1>6, <3>2
  <2>4. CASE ~(i <= j)
    <3>1. w.last \in Nat /\ j \in Nat /\ 1 <= j /\ j <= i /\ i \in Nat
      BY <1>1, <2>4
    <3>2. j \in w.first..w.last
      BY <1>1, <3>1
    <3>3. j \in I
      BY <2>2, <3>2 DEF InPeriod
    <3>. QED  BY <2>2, <3>3 DEF Rows
  <2>. QED  BY <2>3, <2>4
<1>8. a = 1 /\ row \in 1..c /\ c <= N /\ Cardinality(R) = c
  <2>. HIDE DEF R, row, N
  <2>. QED  BY <1>1, <1>4, <1>5, <1>6, <1>7
<1>. DEFINE K == Row(row)
            k == Min(K)
<1>9. k \in K /\ k <= i
  <2>1. i \in K /\ K \subseteq Nat
    BY <1>1, <1>3
  <2>. HIDE DEF K
  <2>. QED  BY <2>1, MinIn
<1>10. Timeline(w, p)[row].t = Seg(k).t
  <2>1. Timeline(w, p) =
          [j \in 1..Cardinality(R) |->
             [t |-> Seg(Min(Row(Min(R) + j - 1))).t,
              repeat |-> Cardinality(Row(Min(R) + j - 1)) - 1]]
    BY DEF Timeline, Rows
  <2>. DEFINE e(j) == Row(j)
  <2>2. Min(R) + row - 1 = row /\ row \in 1..Cardinality(R)
    <3>. HIDE DEF R, row
    <3>. QED  BY <1>4, <1>6, <1>8
  <2>. HIDE DEF R, Row, row
  <2>3. Timeline(w, p)[row].t = Seg(Min(Row(Min(R) + row - 1))).t
    BY <2>1, <2>2
  <2>. QED  BY <2>2, <2>3
<1>11. Seg(i).t = Seg(k).t + (i - k) * D
  <2>1. k \in Segments /\ Seg(k).p = p /\ Seg(k).row = row
    BY <1>3, <1>9
  <2>. QED  BY <1>1, <1>9, <2>1, Sequence
<1>12. /\ (Seg(i).t - Timeline(w, p)[row].t) \div D \in 0..N
       /\ (Seg(i).t - Timeline(w, p)[row].t) \div D = 0 => Timeline(w, p)[row].t = Seg(i).t
  <2>. DEFINE x == Seg(i).t
              y == Seg(k).t
  <2>1. x \in Nat /\ y \in Nat /\ k \in Nat /\ k >= 1 /\ x = y + (i - k) * D /\ k <= i /\ i <= N
    BY <1>1, <1>3, <1>9, <1>11, StreamFields
  <2>. HIDE DEF x, y, k, N
  <2>2. x - y = 10 * (i - k) /\ i - k \in Nat /\ i - k <= N
    BY <1>1, <2>1 DEF D
  <2>3. (x - y) \div D = i - k
    BY <1>1, <2>1, <2>2 DEF D
  <2>4. i - k = 0 => y = x
    BY <2>1, <2>2
  <2>. QED  BY <1>1, <1>10, <2>2, <2>3, <2>4 DEF x, y
<1>13. row \in 1..N
  <2>. HIDE DEF row, N
  <2>. QED  BY <1>1, <1>8
<1>14. Len(Timeline(w, p)) = Cardinality(R)
  <2>1. Cardinality(R) \in Nat
    BY <1>5
  <2>. QED  BY <2>1 DEF Timeline, Rows
<1>15. row \in 1..Len(Timeline(w, p)) /\ Min(R) = 1
  <2>. HIDE DEF row, R
  <2>. QED  BY <1>4, <1>8, <1>14
<1>. QED  BY <1>2, <1>12, <1>13, <1>15

LEMMA InitType == Init => TypeInv
<1>. SUFFICES ASSUME Init PROVE TypeInv
  OBVIOUS
<1>. DEFINE s == Seg(stream.start)
            N == Len(stream.segs)
            tl == Timeline(mpd, s.p)
            rep == (s.t - tl[s.row].t) \div D
            row == s.row
            time == s.t
<1>1. /\ stream \in Streams
      /\ server = [first |-> 1, last |-> stream.initial, ended |-> ~stream.live]
      /\ mpd = [first |-> 1, last |-> stream.initial, live |-> stream.live]
  BY DEF Init
<1>2. /\ N \in Nat \ {0} /\ Segments = 1..N /\ stream.start \in 1..N
      /\ stream.initial \in 1..N /\ stream.start <= stream.initial /\ stream.live \in BOOLEAN
      /\ stream.budget \in Nat
  BY <1>1, StreamFields DEF Segments, Stream
<1>3. Windows
  BY <1>1, <1>2 DEF Windows, Window
<1>4. /\ s.p \in FirstPeriod(mpd)..LastPeriod(mpd) /\ row \in 1..N /\ rep \in 0..N
  <2>. DEFINE i == stream.start
  <2>1. mpd.first = 1 /\ i \in 1..mpd.last /\ i \in Segments /\ Window(mpd)
    BY <1>1, <1>2, <1>3 DEF Windows
  <2>. HIDE DEF i
  <2>2. /\ Seg(i).p \in FirstPeriod(mpd)..LastPeriod(mpd)
        /\ Seg(i).row \in 1..Len(stream.segs)
        /\ (Seg(i).t - Timeline(mpd, Seg(i).p)[Seg(i).row].t) \div D \in 0..Len(stream.segs)
    BY <1>1, <2>1, StartPlace
  <2>. QED  BY <2>2 DEF i
<1>5. row \in 1..N + 1 /\ rep \in 0..N + 1 /\ time \in Nat
  <2>1. time \in Nat
    BY <1>1, <1>2, StreamFields
  <2>. HIDE DEF row, rep, N
  <2>. QED  BY <1>2, <1>4, <2>1
<1>. DEFINE fresh == [enabled |-> TRUE, row |-> row, rep |-> rep, time |-> time,
                      last |-> 0, lastDur |-> 0, eos |-> FALSE, eosReached |-> FALSE,
                      profileChanged |-> TRUE, discontinuity |-> FALSE,
                      init |-> NoInit, failCount |-> 0, skipOnError |-> TRUE,
                      ring |-> <<>>, injecting |-> TRUE]
            off == [fresh EXCEPT !.enabled = FALSE, !.profileChanged = FALSE,
                                 !.row = 1, !.rep = 0, !.time = 0, !.injecting = FALSE]
<1>6. track = [m \in Tracks |-> IF m = "audio" /\ ~HasAudio(s.p) THEN off ELSE fresh]
  BY DEF Init
<1>. HIDE DEF row, rep, time
<1>7. fresh \in MediaStreamContext /\ off \in MediaStreamContext
  <2>1. 0 \in 0..MaxSegFail /\ <<>> \in Seq({0, 1}) /\ 1 \in 1..N + 1 /\ 0 \in 0..N + 1
    BY <1>2, MpdAssumption
  <2>2. fresh \in MediaStreamContext
    BY <1>5, <2>1 DEF MediaStreamContext
  <2>. HIDE DEF fresh
  <2>. QED  BY <2>1, <2>2 DEF MediaStreamContext
<1>8. fresh.ring = <<>> /\ off.ring = <<>>
  OBVIOUS
<1>9. Fetching
  <2>1. TopProfile \in 1..TopProfile /\ 0 <= RingSize /\ 0 \in 0..stream.budget
    BY <1>2, MpdAssumption
  <2>. DEFINE d == [seg |-> 0, init |-> NoInit, due |-> FALSE, lost |-> {},
                    wrong |-> {}]
  <2>2. d \in Delivered
    <3>1. stream.start - 1 \in {0} \cup Segments
      <4>. DEFINE i == stream.start
      <4>1. i - 1 \in {0} \cup 1..N
        <5>. HIDE DEF i, N
        <5>. QED  BY <1>2 DEF i
      <4>. QED  BY <1>2, <4>1
    <3>. QED  BY <3>1 DEF Delivered
  <2>3. delivered = [m \in Tracks |-> d]
    BY DEF Init
  <2>. HIDE DEF d, fresh, off
  <2>4. track \in [Tracks -> MediaStreamContext]
        /\ \A m \in Tracks : Len(track[m].ring) <= RingSize
    BY <1>6, <1>7, <1>8, <2>1
  <2>5. delivered \in [Tracks -> Delivered]
    BY <2>2, <2>3
  <2>. QED  BY <2>1, <2>4, <2>5 DEF Init, Fetching
<1>10. InPeriods
  <2>. DEFINE p == s.p
              c == PeriodCount(mpd)
  <2>1. /\ p \in Periods /\ FirstPeriod(mpd) <= p /\ p <= LastPeriod(mpd) /\ p \in Nat
        /\ p \in 1..c /\ p <= c /\ c \in Nat
    <3>1. FirstPeriod(mpd) = 1
      BY <1>1, Sequence DEF FirstPeriod
    <3>2. /\ LastPeriod(mpd) + 1 - 1 <= c /\ c \in Nat /\ LastPeriod(mpd) \in Nat
      BY <1>1, <1>3, <3>1, PeriodCounts DEF Windows, Periods
    <3>3. p \in Periods
      BY <1>1, <1>3, <1>4, PeriodNotEmpty DEF Windows
    <3>. HIDE DEF p, c
    <3>. QED  BY <1>4, <3>1, <3>2, <3>3 DEF p
  <2>2. p \in 1..c + 1
    <3>. HIDE DEF p, c
    <3>. QED  BY <2>1
  <2>3. /\ mCurrentPeriodIdx = p /\ iPeriod = p /\ mBasePeriodId = p /\ currentPeriodId = p
        /\ mpdChanged = FALSE
    BY DEF Init
  <2>. HIDE DEF p
  <2>. QED  BY <2>1, <2>2, <2>3 DEF InPeriods
<1>11. Place /\ Playing
  <2>1. /\ pc = "init" /\ todo = Pending(track) /\ next = "audio" /\ playing = "no"
        /\ mDownloadsEnabled = TRUE /\ audioLead = 0
    BY DEF Init
  <2>2. Pending(track) \subseteq Tracks
    BY DEF Pending, Enabled
  <2>. QED  BY <2>1, <2>2 DEF Place, Playing
<1>12. Culling
  <2>1. PeriodInfo(mpd) \in Seq(Remembered) /\ <<>> \in Seq(Remembered)
    BY <1>1, <1>3, PeriodInfoType DEF Windows
  <2>2. mMPDPeriodsInfo \in {PeriodInfo(mpd), <<>>} /\ culledSeconds = 0
    BY DEF Init
  <2>3. mMPDPeriodsInfo \in Seq(Remembered)
    <3>1. CASE mMPDPeriodsInfo = PeriodInfo(mpd)
      BY <2>1, <3>1
    <3>2. CASE mMPDPeriodsInfo = <<>>
      BY <2>1, <3>2
    <3>. QED  BY <2>2, <3>1, <3>2
  <2>4. culledSeconds \in Int
    BY <2>2
  <2>. QED  BY <2>3, <2>4 DEF Culling
<1>. QED  BY <1>1, <1>3, <1>9, <1>10, <1>11, <1>12 DEF TypeInv

LEMMA NextType == TypeInv /\ [Next]_vars => TypeInv'
<1>. SUFFICES ASSUME TypeInv, [Next]_vars PROVE TypeInv'
  OBVIOUS
<1>1. CASE UNCHANGED vars
  BY <1>1, StutterType
<1>2. CASE FetchInit
  BY <1>2, FetchInitType
<1>3. CASE FetchTrack("audio") \/ FetchTrack("video")
  BY <1>3, FetchTrackType DEF Tracks
<1>4. CASE CheckEos
  BY <1>4, CheckEosType
<1>5. CASE RefreshDue \/ CollectorStops \/ PeriodsEnd
  BY <1>5, MovingOnType
<1>6. CASE SkipEmptyPeriod
  BY <1>6, SkipEmptyPeriodType
<1>7. CASE EnterPeriod
  BY <1>7, EnterPeriodType
<1>8. CASE UpdateMPD
  BY <1>8, UpdateMPDType
<1>9. CASE UpdateMPDFails
  BY <1>9, UpdateMPDFailsType
<1>10. CASE \E m \in Tracks : InjectFragment(m)
  BY <1>10, InjectFragmentType
<1>11. CASE FirstFrame \/ Stop
  BY <1>11, PlayerType
<1>12. CASE Publish
  BY <1>12, PublishType
<1>13. CASE Done
  BY <1>13, StutterType DEF Done
<1>. QED  BY <1>1, <1>2, <1>3, <1>4, <1>5, <1>6, <1>7, <1>8, <1>9, <1>10, <1>11, <1>12, <1>13
          DEF Next, Collector

\* Every variable keeps its type: the collector never leaves the timelines of its manifest,
\* whatever the server publishes and removes.
THEOREM MpdTypeCorrect == Spec => []TypeOK
<1>1. Spec => []TypeInv
  BY InitType, NextType, PTL DEF Spec
<1>2. TypeInv => TypeOK
  BY TypeInvTypeOK
<1>. QED  BY <1>1, <1>2, PTL

-----------------------------------------------------------------------------
(* Init fragments come first.                                                *)

\* The init fragment that the profiles and periods of a stream share can be fetched.
SharedInitServed == \A s \in Streams : s.shared => "videoInit" \notin s.faults

\* The init fragment that video asked for last failed, and another profile was chosen.
NotDelivered(m) ==
  m = "video" /\ track[m].profileChanged /\ ~stream.shared
    /\ track[m].init[2] > currentProfileIndex

\* What a ring was given last is what its track asked for last, and a track with nothing
\* to ask for was given the init fragment of its period and profile.
InitKnown(m) ==
  /\ errorSent \/ track[m].init = delivered[m].init \/ NotDelivered(m)
  /\ track[m].enabled /\ ~track[m].profileChanged
       => errorSent \/ delivered[m].init = InitUrl(m, currentPeriodId, currentProfileIndex)
  /\ delivered[m].due => track[m].profileChanged /\ track[m].discontinuity

InitInv == InitFirst /\ \A m \in Tracks : InitKnown(m)

\* A step that changes nothing of it.
LEMMA SameInit ==
    ASSUME InitInv, errorSent => errorSent',
           UNCHANGED <<stream, currentPeriodId, currentProfileIndex, delivered>>,
           \A m \in Tracks :
             /\ track'[m].enabled = track[m].enabled /\ track'[m].init = track[m].init
             /\ track'[m].profileChanged = track[m].profileChanged
             /\ track'[m].discontinuity = track[m].discontinuity
    PROVE  InitInv'
<1>1. \A m \in Tracks : NotDelivered(m)' = NotDelivered(m)
  BY DEF NotDelivered
<1>2. \A m \in Tracks : InitUrl(m, currentPeriodId, currentProfileIndex)'
                          = InitUrl(m, currentPeriodId, currentProfileIndex)
  BY DEF InitUrl
<1>3. \A m \in Tracks : InitKnown(m)'
  BY <1>1, <1>2 DEF InitInv, InitKnown
<1>4. InitFirst'
  BY DEF InitInv, InitFirst, NeverWrong
<1>. QED  BY <1>3, <1>4 DEF InitInv

\* A step that asks for a segment.
LEMMA PushInit ==
    ASSUME InitInv, NEW m \in Tracks, Keeps(m), track[m].enabled, ~track[m].profileChanged,
           UNCHANGED <<stream, currentPeriodId>>
    PROVE  InitInv'
<1>1. errorSent => errorSent'
  BY DEF Keeps
<1>2. errorSent \/ track[m].init = delivered[m].init
  BY DEF InitInv, InitKnown, NotDelivered
<1>3. errorSent \/ delivered[m].init = InitUrl(m, currentPeriodId, currentProfileIndex)
  BY DEF InitInv, InitKnown
<1>4. ~delivered[m].due
  BY DEF InitInv, InitKnown
<1>5. ASSUME NEW k \in Tracks PROVE InitKnown(k)'
  <2>1. errorSent' \/ track'[k].init = delivered'[k].init \/ NotDelivered(k)'
    <3>1. CASE k = m
      BY <1>1, <1>2, <3>1 DEF Keeps
    <3>2. CASE k # m
      <4>1. NotDelivered(k) => NotDelivered(k)'
        BY <3>2 DEF NotDelivered, Keeps
      <4>. QED  BY <1>1, <4>1 DEF InitInv, InitKnown, Keeps
    <3>. QED  BY <3>1, <3>2
  <2>2. ASSUME track'[k].enabled, ~track'[k].profileChanged
        PROVE  errorSent' \/ delivered'[k].init
                               = InitUrl(k, currentPeriodId', currentProfileIndex')
    <3>1. track[k].enabled /\ ~track[k].profileChanged
      BY <2>2 DEF Keeps
    <3>2. errorSent \/ delivered[k].init = InitUrl(k, currentPeriodId, currentProfileIndex)
      BY <3>1 DEF InitInv, InitKnown
    <3>3. currentProfileIndex' = currentProfileIndex \/ k # "video"
      BY <2>2 DEF Keeps
    <3>4. InitUrl(k, currentPeriodId', currentProfileIndex')
            = InitUrl(k, currentPeriodId, currentProfileIndex)
      BY <3>3 DEF InitUrl
    <3>. QED  BY <1>1, <3>2, <3>4 DEF Keeps
  <2>3. delivered'[k].due => track'[k].profileChanged /\ track'[k].discontinuity
    BY DEF Keeps, InitInv, InitKnown
  <2>4. InitUrl(k, currentPeriodId, currentProfileIndex)'
          = InitUrl(k, currentPeriodId', currentProfileIndex')
    BY DEF InitUrl
  <2>. QED  BY <2>1, <2>2, <2>3, <2>4 DEF InitKnown
<1>6. ASSUME NEW k \in Tracks
      PROVE  /\ "init" \in delivered'[k].wrong => errorSent \/ "init" \in delivered[k].wrong
             /\ "discontinuity" \in delivered'[k].wrong =>
                  "discontinuity" \in delivered[k].wrong
  <2>1. CASE delivered'[k].wrong = delivered[k].wrong
    BY <2>1
  <2>2. ASSUME k = m, NEW s \in Segments, Seg(s).p = currentPeriodId,
               delivered'[k].wrong = delivered[k].wrong \cup Wrong(k, s)
        PROVE  /\ "init" \in delivered'[k].wrong => errorSent \/ "init" \in delivered[k].wrong
               /\ "discontinuity" \in delivered'[k].wrong =>
                    "discontinuity" \in delivered[k].wrong
    <3>1. "init" \in Wrong(k, s) =>
            delivered[k].init # InitUrl(k, Seg(s).p, currentProfileIndex)
      BY DEF Wrong
    <3>2. "discontinuity" \in Wrong(k, s) => delivered[k].due
      BY DEF Wrong
    <3>. QED  BY <1>3, <1>4, <2>2, <3>1, <3>2
  <2>. QED  BY <2>1, <2>2 DEF Keeps
<1>7. InitFirst'
  BY <1>1, <1>6 DEF InitInv, InitFirst, NeverWrong
<1>. QED  BY <1>5, <1>7 DEF InitInv

\* A failed init fragment is asked for again, from a lower profile; or an error is sent.
LEMMA InitFailsKnown ==
    ASSUME TypeInv, InitInv, SharedInitServed, NEW m \in Tracks,
           NEW url, url = InitUrl(m, currentPeriodId, currentProfileIndex),
           InitFails(m, url), UNCHANGED <<stream, currentPeriodId>>
    PROVE  InitInv'
<1>. DEFINE r == track[m]
            q == Requested(r, url)
            down == RampsDown(m)
<1>1. r \in MediaStreamContext /\ \A k \in Tracks : delivered[k] \in Delivered
  BY DEF TypeInv, Fetching
<1>2. q.init = url /\ q.discontinuity = FALSE /\ q.profileChanged = FALSE
      /\ q.enabled = r.enabled /\ q \in MediaStreamContext
  <2>1. url \in Periods \X (1..TopProfile)
    BY InitUrlType DEF TypeInv, Fetching, InPeriods
  <2>. QED  BY <1>1, <2>1 DEF Requested, MediaStreamContext
<1>. HIDE DEF q
<1>3. NotCached(m, TRUE, q, q)
  BY DEF InitFails, q
<1>4. /\ errorSent => errorSent'
      /\ ~down => errorSent'
      /\ down => currentProfileIndex' = currentProfileIndex - 1
      /\ ~down => currentProfileIndex' = currentProfileIndex
  BY <1>3 DEF NotCached
<1>5. /\ track'[m].init = url /\ track'[m].enabled = r.enabled
      /\ track'[m].profileChanged = down
      /\ \A k \in Tracks : k # m => track'[k] = track[k]
  <2>. DEFINE count == Min({MaxSegFail, track[m].failCount
                                          + (IF track[m].skipOnError THEN 1 ELSE 0)})
              from == IF down THEN q ELSE q
              p == [from EXCEPT !.failCount = count, !.skipOnError = TRUE \/ ~down,
                                !.profileChanged = @ \/ down]
  <2>1. track' = [track EXCEPT ![m] = p] /\ from = q
    BY <1>3 DEF NotCached
  <2>2. down \in BOOLEAN
    BY DEF RampsDown
  <2>. HIDE DEF from, count, down
  <2>3. p.init = url /\ p.enabled = r.enabled /\ p.profileChanged = down
    BY <1>2, <2>1, <2>2 DEF MediaStreamContext
  <2>. HIDE DEF p
  <2>. QED  BY <2>1, <2>3 DEF TypeInv, Fetching
<1>6. /\ \A k \in Tracks : delivered'[k].init = delivered[k].init
                           /\ delivered'[k].wrong = delivered[k].wrong
      /\ ~delivered'[m].due
      /\ \A k \in Tracks : k # m => delivered'[k] = delivered[k]
  <2>1. delivered' = [delivered EXCEPT ![m].due = @ /\ ~track[m].discontinuity,
                                       ![m].lost = @ \cup BeforeFirst(m)]
    BY DEF InitFails
  <2>2. delivered[m].due => track[m].discontinuity
    BY DEF InitInv, InitKnown
  <2>. QED  BY <1>1, <2>1, <2>2 DEF TypeInv, Fetching, Delivered
<1>7. down => m = "video" /\ ~stream.shared
  <2>1. down => m = "video"
    BY DEF RampsDown
  <2>2. ASSUME m = "video" PROVE ~stream.shared
    <3>1. "videoInit" \in stream.faults
      BY <2>2 DEF InitFails, Fault, InitFault
    <3>. QED  BY <3>1 DEF SharedInitServed, TypeInv
  <2>. QED  BY <2>1, <2>2
<1>8. ASSUME NEW k \in Tracks PROVE InitKnown(k)'
  <2>1. CASE ~down
    <3>1. errorSent'
      BY <1>4, <2>1
    <3>2. delivered'[k].due => track'[k].profileChanged /\ track'[k].discontinuity
      BY <1>5, <1>6 DEF InitInv, InitKnown
    <3>. QED  BY <3>1, <3>2 DEF InitKnown
  <2>2. CASE down /\ k = m
    <3>1. NotDelivered(k)'
      <4>1. url[2] = currentProfileIndex
        BY <1>7, <2>2 DEF InitUrl
      <4>2. currentProfileIndex \in Nat
        BY DEF TypeInv, Fetching
      <4>3. currentProfileIndex > currentProfileIndex'
        BY <1>4, <2>2, <4>2
      <4>4. track'[k].init[2] > currentProfileIndex'
        BY <1>5, <2>2, <4>1, <4>3
      <4>5. k = "video" /\ track'[k].profileChanged /\ ~stream'.shared
        BY <1>5, <1>7, <2>2
      <4>. QED  BY <4>4, <4>5 DEF NotDelivered
    <3>2. track'[k].profileChanged /\ ~delivered'[k].due
      BY <1>5, <1>6, <2>2
    <3>. QED  BY <3>1, <3>2 DEF InitKnown
  <2>3. CASE down /\ k # m
    <3>1. k # "video"
      BY <1>7, <2>3 DEF Tracks
    <3>2. ~NotDelivered(k)
      BY <3>1 DEF NotDelivered
    <3>3. InitUrl(k, currentPeriodId, currentProfileIndex)'
            = InitUrl(k, currentPeriodId, currentProfileIndex)
      BY <3>1 DEF InitUrl
    <3>4. track'[k] = track[k] /\ delivered'[k] = delivered[k]
      BY <1>5, <1>6, <2>3
    <3>. QED  BY <1>4, <3>2, <3>3, <3>4 DEF InitKnown, InitInv
  <2>. QED  BY <2>1, <2>2, <2>3
<1>9. InitFirst'
  BY <1>4, <1>6 DEF InitInv, InitFirst, NeverWrong
<1>. QED  BY <1>8, <1>9 DEF InitInv

\* FetchAndInjectInitialization of a track that has the fragment already.
LEMMA InitSameKnown ==
    ASSUME TypeInv, InitInv, NEW m \in Tracks,
           NEW url, url = InitUrl(m, currentPeriodId, currentProfileIndex),
           InitSame(m, url), UNCHANGED <<stream, currentPeriodId>>
    PROVE  InitInv'
<1>. DEFINE r == track[m]
            q == [r EXCEPT !.profileChanged = FALSE]
<1>1. r \in MediaStreamContext /\ r.init = url /\ ~r.discontinuity
  BY DEF TypeInv, Fetching, InitSame, FetchedBefore
<1>2. /\ q.init = url /\ q.enabled = r.enabled /\ ~q.profileChanged
      /\ track' = [track EXCEPT ![m] = q]
  BY <1>1 DEF MediaStreamContext, InitSame
<1>. HIDE DEF q
<1>3. track'[m] = q /\ \A k \in Tracks : k # m => track'[k] = track[k]
  BY <1>2 DEF TypeInv, Fetching
<1>4. /\ currentProfileIndex' = currentProfileIndex /\ delivered' = delivered
      /\ errorSent' = errorSent
  BY DEF InitSame, ramp
<1>5. ~NotDelivered(m)
  <2>1. ASSUME m = "video", ~stream.shared PROVE url[2] = currentProfileIndex
    BY <2>1 DEF InitUrl
  <2>2. currentProfileIndex \in Nat
    BY DEF TypeInv, Fetching
  <2>. QED  BY <1>1, <2>1, <2>2 DEF NotDelivered
<1>6. /\ errorSent \/ delivered[m].init = url
      /\ ~delivered[m].due
  BY <1>1, <1>5 DEF InitInv, InitKnown
<1>7. \A k \in Tracks : InitUrl(k, currentPeriodId, currentProfileIndex)'
                          = InitUrl(k, currentPeriodId, currentProfileIndex)
  BY <1>4 DEF InitUrl
<1>8. InitKnown(m)'
  BY <1>2, <1>3, <1>4, <1>6, <1>7 DEF InitKnown
<1>9. ASSUME NEW k \in Tracks, k # m PROVE InitKnown(k)'
  <2>1. track'[k] = track[k] /\ NotDelivered(k)' = NotDelivered(k)
    BY <1>3, <1>4, <1>9 DEF NotDelivered
  <2>. QED  BY <1>4, <1>7, <2>1 DEF InitKnown, InitInv
<1>10. InitFirst'
  BY <1>4 DEF InitInv, InitFirst, NeverWrong
<1>. QED  BY <1>8, <1>9, <1>10 DEF InitInv

\* An init fragment that arrives.
LEMMA InitCachedKnown ==
    ASSUME TypeInv, InitInv, NEW m \in Tracks,
           NEW url, url = InitUrl(m, currentPeriodId, currentProfileIndex),
           InitCached(m, url), UNCHANGED <<stream, currentPeriodId>>
    PROVE  InitInv'
<1>. DEFINE r == track[m]
            q == Requested(r, url)
            ring == Append(q.ring, 0)
            t == [q EXCEPT !.failCount = 0, !.ring = ring]
<1>1. r \in MediaStreamContext /\ \A k \in Tracks : delivered[k] \in Delivered
  BY DEF TypeInv, Fetching
<1>2. q.init = url /\ q.profileChanged = FALSE /\ q.enabled = r.enabled
      /\ q \in MediaStreamContext
  <2>1. url \in Periods \X (1..TopProfile)
    BY InitUrlType DEF TypeInv, Fetching, InPeriods
  <2>. QED  BY <1>1, <2>1 DEF Requested, MediaStreamContext
<1>3. Cached(m, q, 0)
  BY DEF InitCached
<1>. HIDE DEF q
<1>4. track' = [track EXCEPT ![m] = t]
  BY <1>2, <1>3 DEF Cached, MediaStreamContext
<1>5. t.init = url /\ ~t.profileChanged /\ t.enabled = r.enabled
  <2>. HIDE DEF ring
  <2>. QED  BY <1>2 DEF MediaStreamContext
<1>. HIDE DEF t
<1>6. track'[m] = t /\ \A k \in Tracks : k # m => track'[k] = track[k]
  BY <1>4 DEF TypeInv, Fetching
<1>7. currentProfileIndex' = currentProfileIndex /\ errorSent' = errorSent
  BY DEF InitCached
<1>8. /\ delivered'[m].init = url /\ ~delivered'[m].due
      /\ \A k \in Tracks : delivered'[k].wrong = delivered[k].wrong
      /\ \A k \in Tracks : k # m => delivered'[k] = delivered[k]
  <2>1. delivered' = [delivered EXCEPT ![m].init = url,
                                       ![m].due = @ /\ ~track[m].discontinuity]
    BY DEF InitCached
  <2>2. delivered[m].due => track[m].discontinuity
    BY DEF InitInv, InitKnown
  <2>. QED  BY <1>1, <2>1, <2>2 DEF TypeInv, Fetching, Delivered
<1>9. \A k \in Tracks : InitUrl(k, currentPeriodId, currentProfileIndex)'
                          = InitUrl(k, currentPeriodId, currentProfileIndex)
  BY <1>7 DEF InitUrl
<1>10. InitKnown(m)'
  BY <1>5, <1>6, <1>8, <1>9 DEF InitKnown
<1>11. ASSUME NEW k \in Tracks, k # m PROVE InitKnown(k)'
  <2>1. /\ track'[k] = track[k] /\ delivered'[k] = delivered[k]
        /\ NotDelivered(k)' = NotDelivered(k)
    BY <1>6, <1>7, <1>8, <1>11 DEF NotDelivered
  <2>. QED  BY <1>7, <1>9, <2>1 DEF InitKnown, InitInv
<1>12. InitFirst'
  BY <1>7, <1>8 DEF InitInv, InitFirst, NeverWrong
<1>. QED  BY <1>10, <1>11, <1>12 DEF InitInv

LEMMA FetchInitKnown ==
    ASSUME TypeInv, InitInv, SharedInitServed, FetchInit
    PROVE  InitInv'
<1>1. PICK m \in todo :
        LET url == InitUrl(m, currentPeriodId, currentProfileIndex)
        IN  InitNoRoom(m) \/ InitSame(m, url) \/ InitCached(m, url) \/ InitFails(m, url)
  BY DEF FetchInit
<1>2. m \in Tracks
  BY DEF TypeInv, Place
<1>3. UNCHANGED <<stream, currentPeriodId>>
  BY DEF FetchInit, period
<1>4. CASE InitNoRoom(m)
  BY <1>3, <1>4, SameInit DEF InitNoRoom, ramp
<1>5. CASE InitSame(m, InitUrl(m, currentPeriodId, currentProfileIndex))
  BY <1>2, <1>3, <1>5, InitSameKnown
<1>6. CASE InitCached(m, InitUrl(m, currentPeriodId, currentProfileIndex))
  BY <1>2, <1>3, <1>6, InitCachedKnown
<1>7. CASE InitFails(m, InitUrl(m, currentPeriodId, currentProfileIndex))
  BY <1>2, <1>3, <1>7, InitFailsKnown
<1>. QED  BY <1>1, <1>4, <1>5, <1>6, <1>7

LEMMA FetchTrackKnown ==
    ASSUME TypeInv, InitInv, NEW m \in Tracks, FetchTrack(m)
    PROVE  InitInv'
<1>1. UNCHANGED <<stream, currentPeriodId>>
  BY FetchTrackPushes DEF period
<1>2. CASE UNCHANGED <<track, ramp, errorSent, delivered, faults, retune>>
  BY <1>1, <1>2, SameInit DEF ramp
<1>3. CASE track[m].enabled /\ ~track[m].profileChanged /\ Keeps(m)
  BY <1>1, <1>3, PushInit
<1>. QED  BY <1>2, <1>3, FetchTrackPushes

\* Another period has tracks that ask for its init fragments.
LEMMA EnterPeriodKnown ==
    ASSUME TypeInv, InitInv, EnterPeriod
    PROVE  InitInv'
<1>. DEFINE p == PeriodAt(mpd, iPeriod)
            moved == currentPeriodId # p
            found == moved /\ IsDiscontinuity(p)
            On(m) == m = "video" \/ HasAudio(p)
            due(m) == delivered[m].due \/ (found /\ track'[m].enabled)
<1>1. /\ UNCHANGED <<stream, currentProfileIndex, errorSent>> /\ currentPeriodId' = p
  BY DEF EnterPeriod, ramp
<1>2. \A m \in Tracks :
        /\ track'[m].init = track[m].init
        /\ track'[m].enabled = IF moved THEN On(m) ELSE track[m].enabled
        /\ track'[m].profileChanged = (track[m].profileChanged \/ (moved /\ On(m)))
        /\ track'[m].discontinuity = (track[m].discontinuity \/ (found /\ track'[m].enabled))
  BY EnteredTracks
<1>3. \A m \in Tracks :
        /\ delivered'[m].init = delivered[m].init /\ delivered'[m].wrong = delivered[m].wrong
        /\ delivered'[m].due = due(m)
  <2>1. delivered' = [m \in Tracks |->
                        [delivered[m] EXCEPT !.due = @ \/ (found /\ track'[m].enabled)]]
    BY EnteredTracks
  <2>2. \A m \in Tracks : delivered[m] \in Delivered
    BY DEF TypeInv, Fetching
  <2>. HIDE DEF found
  <2>. QED  BY <2>1, <2>2 DEF Delivered
<1>. HIDE DEF p, found, On
<1>4. ASSUME NEW m \in Tracks PROVE InitKnown(m)'
  <2>1. NotDelivered(m) => NotDelivered(m)'
    BY <1>1, <1>2 DEF NotDelivered
  <2>2. track'[m].enabled /\ ~track'[m].profileChanged =>
          ~moved /\ track[m].enabled /\ ~track[m].profileChanged
    BY <1>2
  <2>3. ~moved => InitUrl(m, currentPeriodId, currentProfileIndex)'
                    = InitUrl(m, currentPeriodId, currentProfileIndex)
    BY <1>1 DEF InitUrl
  <2>4. delivered'[m].due => track'[m].profileChanged /\ track'[m].discontinuity
    <3>1. delivered[m].due => track[m].profileChanged /\ track[m].discontinuity
      BY DEF InitInv, InitKnown
    <3>2. found => moved
      BY DEF found
    <3>. QED  BY <1>2, <1>3, <3>1, <3>2
  <2>. QED  BY <1>1, <1>2, <1>3, <2>1, <2>2, <2>3, <2>4 DEF InitKnown, InitInv
<1>5. InitFirst'
  BY <1>1, <1>3 DEF InitInv, InitFirst, NeverWrong
<1>. QED  BY <1>4, <1>5 DEF InitInv

\* Steps that touch neither a track's init fragment nor what it was given.
LEMMA OthersKnown ==
    ASSUME TypeInv, InitInv,
           \/ CheckEos \/ RefreshDue \/ CollectorStops \/ PeriodsEnd \/ SkipEmptyPeriod
           \/ UpdateMPD \/ UpdateMPDFails \/ (\E m \in Tracks : InjectFragment(m))
           \/ FirstFrame \/ Stop \/ Publish \/ UNCHANGED vars
    PROVE  InitInv'
<1>1. CASE CheckEos
  <2>1. \A m \in Tracks : track[m] \in MediaStreamContext
    BY DEF TypeInv, Fetching
  <2>2. \A m \in Tracks :
          /\ track'[m].enabled = track[m].enabled /\ track'[m].init = track[m].init
          /\ track'[m].profileChanged = track[m].profileChanged
          /\ track'[m].discontinuity = track[m].discontinuity
    BY <1>1, <2>1 DEF CheckEos, MediaStreamContext
  <2>3. /\ UNCHANGED <<stream, currentPeriodId, currentProfileIndex, delivered>>
        /\ errorSent' = errorSent
    BY <1>1 DEF CheckEos, ramp
  <2>. QED  BY <2>2, <2>3, SameInit
<1>2. CASE RefreshDue \/ CollectorStops \/ PeriodsEnd
  BY <1>2, SameInit DEF RefreshDue, CollectorStops, PeriodsEnd, period, ramp
<1>3. CASE SkipEmptyPeriod
  BY <1>3, SameInit DEF SkipEmptyPeriod, ramp
<1>4. CASE UpdateMPD
  BY <1>4, SameInit DEF UpdateMPD, ramp
<1>5. CASE UpdateMPDFails
  BY <1>5, SameInit DEF UpdateMPDFails, ramp
<1>6. ASSUME NEW m \in Tracks, InjectFragment(m) PROVE InitInv'
  <2>1. track' = [track EXCEPT ![m].ring = Tail(@)]
        /\ UNCHANGED <<stream, ramp, period, errorSent, delivered>>
    BY <1>6 DEF InjectFragment
  <2>2. track \in [Tracks -> MediaStreamContext]
    BY DEF TypeInv, Fetching
  <2>3. \A k \in Tracks :
          /\ track'[k].enabled = track[k].enabled /\ track'[k].init = track[k].init
          /\ track'[k].profileChanged = track[k].profileChanged
          /\ track'[k].discontinuity = track[k].discontinuity
    BY <2>1, <2>2 DEF MediaStreamContext
  <2>. QED  BY <2>1, <2>3, SameInit DEF period, ramp
<1>7. CASE FirstFrame \/ Stop
  BY <1>7, SameInit DEF FirstFrame, Stop, period, ramp
<1>8. CASE Publish
  BY <1>8, SameInit DEF Publish, period, ramp
<1>9. CASE UNCHANGED vars
  BY <1>9, SameInit DEF vars, period, ramp
<1>. QED  BY <1>1, <1>2, <1>3, <1>4, <1>5, <1>6, <1>7, <1>8, <1>9

LEMMA InitInitKnown == Init => InitInv
<1>. SUFFICES ASSUME Init PROVE InitInv
  OBVIOUS
<1>1. TypeInv
  BY InitType
<1>2. \A m \in Tracks : delivered[m].init = NoInit /\ ~delivered[m].due
                        /\ delivered[m].wrong = {}
  BY DEF Init
<1>3. \A m \in Tracks : track[m].init = NoInit /\ (track[m].enabled => track[m].profileChanged)
  BY DEF Init
<1>. QED  BY <1>2, <1>3 DEF InitInv, InitFirst, NeverWrong, InitKnown

LEMMA NextKnown == SharedInitServed /\ TypeInv /\ InitInv /\ [Next]_vars => InitInv'
<1>. SUFFICES ASSUME SharedInitServed, TypeInv, InitInv, [Next]_vars PROVE InitInv'
  OBVIOUS
<1>1. CASE FetchInit
  BY <1>1, FetchInitKnown
<1>2. CASE FetchTrack("audio") \/ FetchTrack("video")
  BY <1>2, FetchTrackKnown DEF Tracks
<1>3. CASE EnterPeriod
  BY <1>3, EnterPeriodKnown
<1>4. CASE \/ CheckEos \/ RefreshDue \/ CollectorStops \/ PeriodsEnd \/ SkipEmptyPeriod
           \/ UpdateMPD \/ UpdateMPDFails \/ (\E m \in Tracks : InjectFragment(m))
           \/ FirstFrame \/ Stop \/ Publish \/ UNCHANGED vars
  BY <1>4, OthersKnown
<1>5. CASE Done
  BY <1>5, OthersKnown DEF Done
<1>. QED  BY <1>1, <1>2, <1>3, <1>4, <1>5 DEF Next, Collector

\* A segment follows the init fragment of its period and profile, and after a discontinuity
\* none comes before the init fragment that carries the flag, for every stream, if the init
\* fragment that the profiles of a stream share can be fetched.
THEOREM MpdInitFirst ==
  ASSUME SharedInitServed
  PROVE  Spec => []InitFirst
<1>1. Init => TypeInv /\ InitInv
  BY InitType, InitInitKnown
<1>2. TypeInv /\ InitInv /\ [Next]_vars => (TypeInv /\ InitInv)'
  BY NextType, NextKnown
<1>3. TypeInv /\ InitInv => InitFirst
  BY DEF InitInv
<1>. QED  BY <1>1, <1>2, <1>3, PTL DEF Spec

-----------------------------------------------------------------------------
(* What was culled.                                                          *)

\* Within a period of a live stream no segment is missing between two others.
GapFree ==
  \A s \in Streams : s.live => \A i, j \in 1..Len(s.segs) :
    i <= j /\ s.segs[i].p = s.segs[j].p => s.segs[j].t <= s.segs[i].t + (j - i) * D

\* The segments of a window in the periods before q.
Before(w, q) == {i \in w.first..w.last : Seg(i).p < q}

LEMMA WindowFinite ==
    ASSUME NEW w, Window(w), NEW S, S \in SUBSET (w.first..w.last)
    PROVE  IsFiniteSet(S) /\ Cardinality(S) \in Nat
<1>. DEFINE a == w.first
            b == w.last
<1>1. a \in Int /\ b \in Int
  BY DEF Window, Segments
<1>2. IsFiniteSet(a..b)
  <2>. HIDE DEF a, b
  <2>. QED  BY <1>1, FS_Interval
<1>. QED  BY <1>2, FS_Subset, FS_CardinalityType

\* There are at most as many as there are places before a segment of a later period.
LEMMA BeforeBound ==
    ASSUME stream \in Streams, NEW w, Window(w), NEW q \in Nat, NEW j \in Segments,
           w.first <= j, q <= Seg(j).p
    PROVE  Cardinality(Before(w, q)) <= j - w.first
<1>. DEFINE a == w.first
            B == Before(w, q)
<1>1. a \in Nat /\ j \in Nat /\ a <= j
  BY DEF Window, Segments
<1>2. ASSUME NEW i \in B PROVE i \in a..j - 1
  <2>1. i \in a..w.last /\ Seg(i).p < q
    BY <1>2 DEF Before
  <2>2. i \in Segments
    <3>. DEFINE n == Len(stream.segs)
                b == w.last
    <3>1. n \in Nat /\ b \in 1..n /\ a \in 1..n
      BY StreamFields DEF Window, Segments
    <3>2. i \in 1..n
      <4>. HIDE DEF n, a, b
      <4>. QED  BY <2>1, <3>1 DEF b
    <3>. QED  BY <3>2 DEF Segments
  <2>3. Seg(i).p \in Nat /\ Seg(j).p \in Nat /\ i \in Nat
    BY <2>2, StreamFields DEF Segments
  <2>4. j <= i => Seg(j).p <= Seg(i).p
    BY <2>2, Sequence
  <2>. HIDE DEF a
  <2>. QED  BY <1>1, <2>1, <2>3, <2>4
<1>. HIDE DEF a, B
<1>3. a \in Int /\ j - 1 \in Int
  BY <1>1
<1>4. IsFiniteSet(a..j - 1) /\ Cardinality(a..j - 1) = j - a
  <2>. DEFINE k == j - 1
  <2>1. IsFiniteSet(a..k) /\ Cardinality(a..k) = IF a > k THEN 0 ELSE k - a + 1
    <3>. HIDE DEF k
    <3>. QED  BY <1>3, FS_Interval DEF k
  <2>. QED  BY <1>1, <2>1
<1>5. B \in SUBSET (a..j - 1)
  BY <1>2
<1>6. Cardinality(B) <= Cardinality(a..j - 1)
  BY <1>4, <1>5, FS_Subset
<1>. QED  BY <1>4, <1>6 DEF a, B

\* The first periods of a window last as long as the segments in them.
LEMMA DurationsBefore ==
    ASSUME stream \in Streams, NEW w, Window(w), NEW n \in 0..PeriodCount(w)
    PROVE  Durations(PeriodInfo(w), 1..n) = D * Cardinality(Before(w, FirstPeriod(w) + n))
<1>. DEFINE info == PeriodInfo(w)
            f == FirstPeriod(w)
            c == PeriodCount(w)
            Is(k) == Durations(info, 1..k) = D * Cardinality(Before(w, f + k))
            Bad == {k \in 0..c : ~Is(k)}
<1>1. f \in Nat /\ c \in Nat
  BY PeriodCounts DEF Periods
<1>2. ASSUME NEW k \in 0..c
      PROVE  IsFiniteSet(1..k) /\ Timed(info, 1..k)
  <2>1. 1..k \subseteq 1..c
    <3>. HIDE DEF c
    <3>. QED  BY <1>1, <1>2
  <2>2. \A i \in 1..k : info[i] \in Remembered
    BY <2>1, PeriodInfoType
  <2>3. \A i \in 1..k : info[i].duration \in Int
    BY <2>2 DEF Remembered
  <2>4. IsFiniteSet(1..k)
    <3>. HIDE DEF c
    <3>. QED  BY <1>1, <1>2, FS_Interval
  <2>. QED  BY <2>3, <2>4 DEF Timed
<1>3. Is(0)
  <2>1. 1..0 = {} /\ 0 \in 0..c
    <3>. HIDE DEF c
    <3>. QED  BY <1>1
  <2>2. Durations(info, 1..0) = 0
    BY <1>2, <2>1, DurationsSum
  <2>3. ASSUME NEW i \in Before(w, f + 0) PROVE FALSE
    <3>1. i \in w.first..w.last /\ Seg(i).p < f + 0
      BY <2>3 DEF Before
    <3>2. i \in Segments /\ w.first \in Segments /\ w.first <= i
      <4>. DEFINE m == Len(stream.segs)
                  a == w.first
                  b == w.last
      <4>1. m \in Nat /\ b \in 1..m /\ a \in 1..m /\ i \in a..b
        BY <3>1, StreamFields DEF Window, Segments
      <4>2. i \in 1..m /\ a <= i
        <5>. HIDE DEF m, a, b
        <5>. QED  BY <4>1
      <4>. QED  BY <4>1, <4>2 DEF Segments
    <3>3. f <= Seg(i).p /\ Seg(i).p \in Nat
      BY <3>2, Sequence, StreamFields DEF FirstPeriod
    <3>. HIDE DEF f
    <3>. QED  BY <1>1, <3>1, <3>3
  <2>4. Before(w, f + 0) = {}
    BY <2>3
  <2>. QED  BY <2>2, <2>4, FS_EmptySet DEF D
<1>4. ASSUME NEW k \in 1..c, Is(k - 1) PROVE Is(k)
  <2>. DEFINE p == f + k - 1
              A == Before(w, p)
              I == InPeriod(w, p)
  <2>1. k \in 0..c /\ k \in 1..k /\ (1..k) \ {k} = 1..k - 1 /\ k \in Nat
    <3>. HIDE DEF c
    <3>. QED  BY <1>1, <1>4
  <2>2. Durations(info, 1..k) = info[k].duration + Durations(info, 1..k - 1)
    <3>1. Durations(info, 1..k) = info[k].duration + Durations(info, (1..k) \ {k})
      BY <1>2, <2>1, DurationsSum
    <3>. QED  BY <2>1, <3>1
  <2>3. info[k].duration = D * Cardinality(I)
    BY <1>4 DEF PeriodInfo, PeriodAt
  <2>4. f + (k - 1) = p /\ p \in Int
    <3>. HIDE DEF f
    <3>. QED  BY <1>1, <2>1
  <2>5. Durations(info, 1..k - 1) = D * Cardinality(A)
    BY <1>4, <2>4
  <2>6. /\ Before(w, f + k) = A \cup I /\ A \cap I = {}
        /\ A \in SUBSET (w.first..w.last) /\ I \in SUBSET (w.first..w.last)
    <3>1. \A i \in w.first..w.last : i \in Segments
      <4>. DEFINE m == Len(stream.segs)
                  a == w.first
                  b == w.last
      <4>1. m \in Nat /\ b \in 1..m /\ a \in 1..m
        BY StreamFields DEF Window, Segments
      <4>2. \A i \in a..b : i \in 1..m
        <5>. HIDE DEF m, a, b
        <5>. QED  BY <4>1
      <4>. QED  BY <4>2 DEF Segments
    <3>2. \A i \in w.first..w.last : Seg(i).p \in Nat
      BY <3>1, StreamFields
    <3>3. \A x \in Nat : x < f + k <=> x < p \/ x = p
      <4>. HIDE DEF f
      <4>. QED  BY <1>1, <2>1
    <3>4. \A x \in Nat : ~(x < p /\ x = p)
      <4>. HIDE DEF p
      <4>. QED  BY <2>4
    <3>. HIDE DEF p
    <3>5. Before(w, f + k) = A \cup I
      BY <3>2, <3>3 DEF Before, InPeriod
    <3>6. A \cap I = {}
      BY <3>2, <3>4 DEF Before, InPeriod
    <3>. QED  BY <3>5, <3>6 DEF Before, InPeriod
  <2>. HIDE DEF A, I
  <2>7. /\ IsFiniteSet(A) /\ IsFiniteSet(I)
        /\ Cardinality(A) \in Nat /\ Cardinality(I) \in Nat
    BY <2>6, WindowFinite
  <2>8. Cardinality(Before(w, f + k)) = Cardinality(A) + Cardinality(I)
    <3>1. Cardinality(A \cup I) = Cardinality(A) + Cardinality(I) - Cardinality(A \cap I)
      BY <2>7, FS_Union
    <3>2. Cardinality(A \cap I) = 0
      BY <2>6, FS_EmptySet
    <3>3. Cardinality(A \cup I) = Cardinality(A) + Cardinality(I)
      BY <2>7, <3>1, <3>2
    <3>. QED  BY <2>6, <3>3
  <2>. QED  BY <2>2, <2>3, <2>5, <2>7, <2>8 DEF D
<1>5. ASSUME Bad # {} PROVE FALSE
  <2>1. Bad \subseteq Nat
    OBVIOUS
  <2>. DEFINE k == Min(Bad)
  <2>2. k \in Bad /\ \A y \in Bad : k <= y
    <3>. HIDE DEF Bad
    <3>. QED  BY <1>5, <2>1, MinIn
  <2>3. k \in 0..c /\ ~Is(k)
    BY <2>2
  <2>4. k # 0
    BY <1>3, <2>3
  <2>. HIDE DEF k, Is
  <2>5. k \in 1..c /\ k - 1 \in 0..c /\ ~(k <= k - 1)
    <3>. HIDE DEF c
    <3>. QED  BY <1>1, <2>3, <2>4
  <2>6. k - 1 \notin Bad
    BY <2>2, <2>5
  <2>. QED  BY <1>4, <2>3, <2>5, <2>6
<1>. QED  BY <1>5

\* What has left since manifest w was looked at is not overestimated with manifest v, unless
\* times went back.
LEMMA CulledSince ==
    ASSUME GapFree, stream \in Streams, stream.live, NEW w, Window(w), NEW v, Window(v),
           w.first <= v.first, mMPDPeriodsInfo = PeriodInfo(w),
           \A i, j \in 1..v.first : i < j /\ Seg(i).p = Seg(j).p => Seg(i).t <= Seg(j).t
    PROVE  GetCulledSeconds(v) <= D * (v.first - w.first)
<1>. DEFINE info == PeriodInfo(w)
            q == FirstPeriod(v)
            f == FirstPeriod(w)
            c == PeriodCount(w)
            x == q + 1 - f
            n == IF x <= c THEN x - 1 ELSE c
            new == PeriodInfo(v)[1]
            S == Same(info, q)
            a == w.first
            b == v.first
<1>1. /\ f \in Nat /\ q \in Nat /\ f <= q /\ c \in Nat \ {0} /\ a \in Nat /\ b \in Nat /\ a <= b
      /\ a \in Segments /\ b \in Segments
  <2>1. f <= q
    BY Sequence DEF FirstPeriod, Window
  <2>2. a \in Nat /\ b \in Nat /\ a \in Segments /\ b \in Segments /\ a <= b
    BY DEF Window, Segments
  <2>3. f \in Periods /\ q \in Periods /\ c \in Nat \ {0} /\ Periods \subseteq Nat
    BY PeriodCounts DEF Periods
  <2>. QED  BY <2>1, <2>2, <2>3
<1>2. x \in Nat \ {0} /\ n \in 0..c /\ f + n <= q /\ f + n \in Nat
      /\ (x <= c => x \in 1..c /\ n = x - 1) /\ (~(x <= c) => n = c)
  <2>. HIDE DEF f, q, c
  <2>. QED  BY <1>1
<1>3. new.periodId = q /\ new.startTime = Seg(b).t
  <2>1. 1 \in 1..PeriodCount(v) /\ LastPeriod(v) \in Nat /\ q <= LastPeriod(v)
    BY PeriodCounts DEF Periods
  <2>2. PeriodAt(v, 1) = q
    BY <1>1 DEF PeriodAt
  <2>3. ~IsEmptyPeriod(v, 1)
    <3>. HIDE DEF q
    <3>. QED  BY <1>1, <2>1, <2>2 DEF IsEmptyPeriod
  <2>4. Min(InPeriod(v, q)) = b
    <3>. DEFINE I == InPeriod(v, q)
    <3>1. b \in I /\ \A i \in I : b <= i
      BY <1>1 DEF InPeriod, FirstPeriod, Window, Segments
    <3>2. I \subseteq Nat
      BY <1>1 DEF InPeriod, Window, Segments
    <3>3. Min(I) \in I /\ Min(I) <= b
      <4>. HIDE DEF I
      <4>. QED  BY <3>1, <3>2, MinIn
    <3>. DEFINE k == Min(I)
    <3>4. k \in Nat /\ b \in Nat /\ k <= b /\ b <= k
      <4>. HIDE DEF I, b
      <4>. QED  BY <1>1, <3>1, <3>2, <3>3
    <3>. HIDE DEF I, b, k
    <3>5. k = b
      BY <3>4
    <3>. QED  BY <3>5 DEF k, I
  <2>. QED  BY <2>1, <2>2, <2>3, <2>4 DEF PeriodInfo, GetFirstSegmentStartTime
<1>4. DOMAIN info = 1..c /\ \A i \in 1..c : info[i].periodId = f + i - 1
  BY DEF PeriodInfo, PeriodAt
<1>5. S = IF x <= c THEN {x} ELSE {}
  <2>1. S = {i \in 1..c : f + i - 1 = q}
    BY <1>4 DEF Same
  <2>. HIDE DEF S, f, q, c
  <2>. QED  BY <1>1, <1>2, <2>1
<1>6. x <= c => Min(S) = x
  <2>. HIDE DEF x
  <2>. QED  BY <1>2, <1>5, MinIn
<1>7. Gone(info, q) = 1..n
  <2>1. Gone(info, q) = IF S = {} THEN 1..c ELSE 1..Min(S) - 1
    BY <1>4 DEF Gone
  <2>. HIDE DEF S, x, n, c
  <2>. QED  BY <1>2, <1>5, <1>6, <2>1
<1>. DEFINE N == Cardinality(Before(w, f + n))
            before == StartBefore(info, q)
<1>8. N \in Nat /\ Durations(info, 1..n) = D * N
  <2>1. Before(w, f + n) \in SUBSET (w.first..w.last)
    BY DEF Before
  <2>. QED  BY <1>2, <2>1, WindowFinite, DurationsBefore
<1>9. N <= b - a
  BY <1>1, <1>2, BeforeBound DEF FirstPeriod
<1>10. GetCulledSeconds(v) =
         D * N + IF before # 0 /\ Seg(b).t # 0 THEN Unsigned(Seg(b).t - before) ELSE 0
  BY <1>3, <1>7, <1>8, CulledParts
<1>11. CASE before = 0
  <2>. HIDE DEF N, a, b, before
  <2>. QED  BY <1>1, <1>8, <1>9, <1>10, <1>11 DEF a, b, D
<1>12. CASE before # 0
  <2>1. x <= c /\ before = info[x].startTime
    BY <1>5, <1>6, <1>12 DEF StartBefore
  <2>2. PeriodAt(w, x) = q
    <3>. HIDE DEF f, q
    <3>. QED  BY <1>1 DEF PeriodAt, f
  <2>3. before = IF IsEmptyPeriod(w, x) THEN 0 ELSE GetFirstSegmentStartTime(w, q)
    BY <1>2, <2>1, <2>2 DEF PeriodInfo
  <2>. DEFINE I == InPeriod(w, q)
              k == Min(I)
  <2>4. ~(q > LastPeriod(w)) /\ before = Seg(k).t
    BY <1>12, <2>2, <2>3 DEF IsEmptyPeriod, GetFirstSegmentStartTime
  <2>5. q \in f..LastPeriod(w)
    <3>1. LastPeriod(w) \in Nat
      BY PeriodCounts DEF Periods
    <3>. HIDE DEF q, f
    <3>. QED  BY <1>1, <2>4, <3>1
  <2>6. I # {} /\ I \subseteq Segments /\ Segments \subseteq Nat
    BY <2>5, PeriodNotEmpty DEF Segments
  <2>7. k \in I /\ \A i \in I : k <= i
    <3>. HIDE DEF I
    <3>. QED  BY <2>6, MinIn
  <2>8. k \in Segments /\ k \in Nat /\ Seg(k).p = q /\ a <= k /\ k <= w.last
        /\ w.last \in Nat
    BY <2>6, <2>7 DEF InPeriod, Window, Segments
  <2>9. k <= b
    <3>1. CASE b <= w.last
      <4>1. b \in w.first..w.last /\ Seg(b).p = q
        BY <1>1, <2>8, <3>1 DEF FirstPeriod
      <4>2. b \in I
        BY <4>1 DEF InPeriod
      <4>. QED  BY <2>7, <4>2
    <3>2. CASE ~(b <= w.last)
      <4>. HIDE DEF k, b
      <4>. QED  BY <1>1, <2>8, <3>2
    <3>. QED  BY <3>1, <3>2
  <2>10. N <= k - a
    BY <1>1, <1>2, <2>8, BeforeBound
  <2>11. Seg(b).t <= Seg(k).t + (b - k) * D
    <3>1. Seg(b).p = q
      BY DEF FirstPeriod
    <3>. QED  BY <1>1, <2>8, <2>9, <3>1 DEF GapFree, Segments, Seg
  <2>12. Seg(b).t \in Nat /\ before \in Nat
    BY <1>1, <2>4, <2>8, StreamFields
  <2>. DEFINE t == Seg(b).t
  <2>13. t <= before + (b - k) * 10
    BY <2>4, <2>11 DEF D
  <2>14. before <= t
    <3>1. k \in 1..v.first /\ b \in 1..v.first /\ (k = b \/ k < b)
      <4>. HIDE DEF k
      <4>. QED  BY <1>1, <2>8, <2>9 DEF Segments
    <3>2. Seg(k).p = Seg(b).p
      BY <2>8 DEF FirstPeriod
    <3>3. k < b => Seg(k).t <= Seg(b).t
      <4>. HIDE DEF k
      <4>. QED  BY <3>1, <3>2
    <3>4. before = Seg(k).t /\ t \in Nat /\ before \in Nat
      BY <2>4, <2>12
    <3>. HIDE DEF k, b, before
    <3>. QED  BY <3>1, <3>3, <3>4
  <2>15. GetCulledSeconds(v) <= D * (b - a)
    <3>. HIDE DEF N, a, b, before, k, t
    <3>0. GetCulledSeconds(v) =
            10 * N + IF before # 0 /\ t # 0 THEN Unsigned(t - before) ELSE 0
      BY <1>10 DEF D, t
    <3>2. t \in Nat /\ before \in Nat
      BY <2>12 DEF t
    <3>1. GetCulledSeconds(v) = 10 * N + IF before # 0 /\ t # 0 THEN t - before ELSE 0
      BY <2>14, <3>0, <3>2 DEF Unsigned
    <3>. QED  BY <1>1, <1>8, <2>8, <2>9, <2>10, <2>13, <3>1, <3>2 DEF D
  <2>. QED  BY <2>15
<1>. QED  BY <1>11, <1>12

\* The periods remembered are those of an earlier manifest, and nothing that left since is
\* counted yet.
CulledInv ==
  \/ StartWentBack
  \/ mMPDPeriodsInfo = <<>> /\ culledSeconds = 0
  \/ \E w \in [first : Segments, last : Segments, live : BOOLEAN] :
       /\ Window(w) /\ w.first <= mpd.first /\ mMPDPeriodsInfo = PeriodInfo(w)
       /\ culledSeconds <= D * (w.first - 1)

LEMMA CulledInvBounded ==
    ASSUME TypeInv, CulledInv
    PROVE  CulledBounded
<1>. DEFINE b == mpd.first
<1>1. b \in Nat /\ 1 <= b /\ culledSeconds \in Int
  BY DEF TypeInv, Windows, Window, Segments, Culling
<1>2. CASE culledSeconds = 0
  <2>. HIDE DEF b
  <2>. QED  BY <1>1, <1>2 DEF CulledBounded, D, b
<1>3. ASSUME NEW w, Window(w), w.first <= mpd.first, culledSeconds <= D * (w.first - 1)
      PROVE  CulledBounded
  <2>. DEFINE a == w.first
  <2>1. a \in Nat /\ a <= b /\ culledSeconds <= D * (a - 1)
    BY <1>3 DEF Window, Segments
  <2>. HIDE DEF a, b
  <2>. QED  BY <1>1, <2>1 DEF CulledBounded, D, b
<1>. QED  BY <1>2, <1>3 DEF CulledInv, CulledBounded

LEMMA SamePeriodInfo ==
    ASSUME NEW w, Window(w), stream' = stream
    PROVE  Segments' = Segments /\ Window(w)' /\ PeriodInfo(w)' = PeriodInfo(w)
<1>1. Segments' = Segments /\ Periods' = Periods /\ stream.early' = stream.early
  BY DEF Segments, Periods, Seg
<1>2. Window(w)'
  BY <1>1 DEF Window
<1>3. FirstPeriod(w)' = FirstPeriod(w) /\ LastPeriod(w)' = LastPeriod(w)
  BY DEF FirstPeriod, LastPeriod, Seg
<1>4. PeriodCount(w)' = PeriodCount(w)
  BY <1>1, <1>3 DEF PeriodCount
<1>5. ASSUME NEW p PROVE InPeriod(w, p)' = InPeriod(w, p)
  BY DEF InPeriod, Seg
<1>6. ASSUME NEW i PROVE PeriodAt(w, i)' = PeriodAt(w, i) /\ IsEmptyPeriod(w, i)' = IsEmptyPeriod(w, i)
  BY <1>3 DEF PeriodAt, IsEmptyPeriod
<1>7. ASSUME NEW p PROVE GetFirstSegmentStartTime(w, p)' = GetFirstSegmentStartTime(w, p)
  BY <1>5 DEF GetFirstSegmentStartTime, Seg
<1>. DEFINE Entry(i) == [periodId |-> PeriodAt(w, i), duration |-> D * Cardinality(InPeriod(w, PeriodAt(w, i))),
                      startTime |-> IF IsEmptyPeriod(w, i) THEN 0
                                    ELSE GetFirstSegmentStartTime(w, PeriodAt(w, i))]
<1>8. ASSUME NEW i PROVE Entry(i)' = Entry(i)
  BY <1>5, <1>6, <1>7 DEF D
<1>9. PeriodInfo(w) = [i \in 1..PeriodCount(w) |-> Entry(i)]
  BY DEF PeriodInfo
<1>10. PeriodInfo(w)' = [i \in 1..PeriodCount(w)' |-> Entry(i)']
  BY DEF PeriodInfo
<1>11. [i \in 1..PeriodCount(w)' |-> Entry(i)'] = [i \in 1..PeriodCount(w) |-> Entry(i)]
  <2>. HIDE DEF Entry
  <2>. QED  BY <1>4, <1>8
<1>. QED  BY <1>1, <1>2, <1>9, <1>10, <1>11

\* Once the times of a period went back, they stay so.
LEMMA StaysBack ==
    ASSUME TypeInv, TypeInv', StartWentBack, stream' = stream, mpd.first <= mpd'.first
    PROVE  StartWentBack'
<1>1. mpd.first \in Nat /\ mpd'.first \in Nat
  BY DEF TypeInv, Windows, Window, Segments
<1>2. PICK i \in 1..mpd.first, j \in 1..mpd.first :
        i < j /\ Seg(i).p = Seg(j).p /\ Seg(j).t < Seg(i).t
  BY DEF StartWentBack
<1>3. i \in 1..mpd'.first /\ j \in 1..mpd'.first
  BY <1>1
<1>4. Seg(i)' = Seg(i) /\ Seg(j)' = Seg(j)
  BY DEF Seg
<1>5. i < j /\ Seg(i)'.p = Seg(j)'.p /\ Seg(j)'.t < Seg(i)'.t
  BY <1>2, <1>4
<1>. QED  BY <1>3, <1>5 DEF StartWentBack

LEMMA SameCulled ==
    ASSUME CulledInv, TypeInv, TypeInv', stream' = stream, UNCHANGED culling,
           mpd.first <= mpd'.first
    PROVE  CulledInv'
<1>0. CASE StartWentBack
  BY <1>0, StaysBack DEF CulledInv
<1>1. CASE mMPDPeriodsInfo = <<>> /\ culledSeconds = 0
  BY <1>1 DEF CulledInv, culling
<1>2. ASSUME NEW w \in [first : Segments, last : Segments, live : BOOLEAN],
             Window(w), w.first <= mpd.first, mMPDPeriodsInfo = PeriodInfo(w),
             culledSeconds <= D * (w.first - 1)
      PROVE  CulledInv'
  <2>1. w.first \in Nat /\ mpd.first \in Nat /\ mpd'.first \in Nat
    BY DEF TypeInv, Windows, Window, Segments
  <2>2. w.first <= mpd'.first
    BY <1>2, <2>1
  <2>3. /\ Segments' = Segments /\ Window(w)' /\ PeriodInfo(w)' = PeriodInfo(w)
    BY <1>2, SamePeriodInfo
  <2>4. w.first <= mpd.first' /\ mMPDPeriodsInfo' = PeriodInfo(w)'
        /\ culledSeconds' <= D * (w.first - 1)
    BY <1>2, <2>2, <2>3 DEF culling
  <2>. QED  BY <2>3, <2>4 DEF CulledInv
<1>. QED  BY <1>0, <1>1, <1>2 DEF CulledInv

\* Entering a period counts what has left, and remembers the new manifest.
LEMMA EnterPeriodCulled ==
    ASSUME GapFree, CulledInv, TypeInv, TypeInv', EnterPeriod
    PROVE  CulledInv'
<1>1. stream' = stream /\ mpd' = mpd
  BY DEF EnterPeriod
<1>2. CASE ~stream.live
  <2>1. mpd.first \in Nat
    BY DEF TypeInv, Windows, Window, Segments
  <2>. QED  BY <1>1, <1>2, <2>1, SameCulled DEF EnterPeriod
<1>0. CASE StartWentBack
  <2>1. mpd.first \in Nat /\ mpd.first <= mpd'.first
    BY <1>1 DEF TypeInv, Windows, Window, Segments
  <2>. QED  BY <1>0, <1>1, <2>1, StaysBack DEF CulledInv
<1>3. CASE stream.live /\ ~StartWentBack
  <2>. DEFINE g == GetCulledSeconds(mpd)
              b == mpd.first
  <2>1. culledSeconds' = culledSeconds + (IF g > 0 THEN g ELSE 0)
        /\ mMPDPeriodsInfo' = PeriodInfo(mpd)
    BY <1>3 DEF EnterPeriod
  <2>2. /\ b \in Nat /\ 1 <= b /\ culledSeconds \in Int /\ Window(mpd)
        /\ mpd \in [first : Segments, last : Segments, live : BOOLEAN]
    BY DEF TypeInv, Windows, Window, Segments, Culling
  <2>3. g \in Int
    BY <2>2, CulledType DEF TypeInv, Culling
  <2>4. culledSeconds' <= D * (b - 1)
    <3>1. CASE mMPDPeriodsInfo = <<>> /\ culledSeconds = 0
      <4>1. g = 0
        <5>. DEFINE q == PeriodInfo(mpd)[1].periodId
        <5>1. Same(<<>>, q) = {} /\ Gone(<<>>, q) = {} /\ StartBefore(<<>>, q) = 0
          BY DEF Same, Gone, StartBefore
        <5>2. Durations(<<>>, {}) = 0
          <6>. DEFINE none == <<>>
          <6>1. IsFiniteSet({}) /\ Timed(none, {})
            BY FS_EmptySet DEF Timed
          <6>. HIDE DEF none
          <6>2. Durations(none, {}) = 0
            BY <6>1, DurationsSum
          <6>3. none = <<>>
            BY DEF none
          <6>. QED  BY <6>2, <6>3
        <5>3. mMPDPeriodsInfo = <<>> /\ StartBefore(mMPDPeriodsInfo, q) = 0
              /\ Durations(mMPDPeriodsInfo, Gone(mMPDPeriodsInfo, q)) = 0
          BY <3>1, <5>1, <5>2
        <5>. QED  BY <5>3, CulledParts
      <4>. HIDE DEF g, b
      <4>. QED  BY <2>1, <2>2, <3>1, <4>1 DEF D
    <3>2. ASSUME NEW w, Window(w), w.first <= mpd.first, mMPDPeriodsInfo = PeriodInfo(w),
                 culledSeconds <= D * (w.first - 1)
          PROVE  culledSeconds' <= D * (b - 1)
      <4>. DEFINE a == w.first
      <4>0. \A i, j \in 1..mpd.first :
              i < j /\ Seg(i).p = Seg(j).p => Seg(i).t <= Seg(j).t
        <5>1. \A i \in 1..mpd.first : i \in Segments
          BY <2>2 DEF Window, Segments
        <5>2. \A i \in 1..mpd.first : Seg(i).t \in Nat
          BY <5>1, StreamFields DEF TypeInv
        <5>. QED  BY <1>3, <5>2 DEF StartWentBack
      <4>1. g <= D * (b - a)
        BY <1>3, <2>2, <3>2, <4>0, CulledSince DEF TypeInv
      <4>2. a \in Nat /\ a <= b /\ culledSeconds <= D * (a - 1)
        BY <3>2 DEF Window, Segments
      <4>. HIDE DEF g, a, b
      <4>. QED  BY <2>1, <2>2, <2>3, <4>1, <4>2 DEF D
    <3>. QED  BY <1>3, <3>1, <3>2 DEF CulledInv
  <2>5. PICK w \in [first : Segments, last : Segments, live : BOOLEAN] : w = mpd
    BY <2>2
  <2>6. Segments' = Segments /\ Window(w)' /\ PeriodInfo(w)' = PeriodInfo(w)
    BY <1>1, <2>2, <2>5, SamePeriodInfo
  <2>7. w.first <= mpd'.first /\ PeriodInfo(w)' = mMPDPeriodsInfo'
        /\ culledSeconds' <= D * (w.first - 1)
    BY <1>1, <2>1, <2>2, <2>4, <2>5, <2>6
  <2>. QED  BY <2>5, <2>6, <2>7 DEF CulledInv
<1>. QED  BY <1>0, <1>2, <1>3

LEMMA NextCulled == GapFree /\ TypeInv /\ TypeInv' /\ CulledInv /\ [Next]_vars => CulledInv'
<1>. SUFFICES ASSUME GapFree, TypeInv, TypeInv', CulledInv, [Next]_vars PROVE CulledInv'
  OBVIOUS
<1>0. mpd.first \in Nat /\ mpd.first <= server.first
  BY DEF TypeInv, Windows, Window, Segments
<1>1. CASE EnterPeriod
  BY <1>1, EnterPeriodCulled
<1>2. CASE UpdateMPD
  <2>1. stream' = stream /\ UNCHANGED culling
    BY <1>2 DEF UpdateMPD
  <2>2. mpd.first <= mpd'.first
    BY <1>0, <1>2 DEF UpdateMPD, TypeInv, Windows
  <2>. QED  BY <2>1, <2>2, SameCulled
<1>3. CASE \/ FetchInit \/ FetchTrack("audio") \/ FetchTrack("video") \/ CheckEos
           \/ RefreshDue \/ CollectorStops \/ PeriodsEnd \/ SkipEmptyPeriod \/ UpdateMPDFails
           \/ (\E m \in Tracks : InjectFragment(m)) \/ FirstFrame \/ Stop \/ Publish \/ Done
           \/ UNCHANGED vars
  <2>1. stream' = stream /\ UNCHANGED culling /\ mpd' = mpd
    BY <1>3 DEF FetchInit, FetchTrack, CheckEos, RefreshDue, CollectorStops, PeriodsEnd,
                SkipEmptyPeriod, UpdateMPDFails, InjectFragment, FirstFrame, Stop, Publish, Done,
                vars
  <2>. QED  BY <1>0, <2>1, SameCulled
<1>. QED  BY <1>1, <1>2, <1>3 DEF Next, Collector

LEMMA InitCulled == Init => CulledInv
<1>. SUFFICES ASSUME Init PROVE CulledInv
  OBVIOUS
<1>1. TypeInv
  BY InitType
<1>2. Window(mpd) /\ mpd.first = 1 /\ mpd \in [first : Segments, last : Segments, live : BOOLEAN]
  BY <1>1 DEF Init, TypeInv, Windows
<1>3. culledSeconds = 0 /\ mMPDPeriodsInfo \in {PeriodInfo(mpd), <<>>}
  BY DEF Init
<1>4. mpd.first <= mpd.first /\ 0 <= D * (mpd.first - 1)
  BY <1>2 DEF D
<1>. QED  BY <1>2, <1>3, <1>4 DEF CulledInv

\* The position of the player, counted from what was culled, stays in the window, for every
\* live stream whose periods have no gaps: GetCulledSeconds never counts a segment twice, nor
\* one that is still there, until a start time goes back and the difference wraps.
THEOREM MpdCulledBounded ==
  ASSUME GapFree
  PROVE  Spec => []CulledBounded
<1>1. Init => TypeInv /\ CulledInv
  BY InitType, InitCulled
<1>2. TypeInv /\ CulledInv /\ [Next]_vars => (TypeInv /\ CulledInv)'
  BY NextType, NextCulled
<1>3. TypeInv /\ CulledInv => CulledBounded
  BY CulledInvBounded
<1>. QED  BY <1>1, <1>2, <1>3, PTL DEF Spec

-----------------------------------------------------------------------------
(* The order of the segments.                                                *)

\* The times of a period ascend, over no more than TIMELINE_START_RESET_DIFF.
TimesAscend ==
  \A s \in Streams : \A i, j \in 1..Len(s.segs) :
    i < j /\ s.segs[i].p = s.segs[j].p =>
      s.segs[i].t < s.segs[j].t /\ s.segs[j].t - s.segs[i].t <= ResetDiff

LEMMA Ascending ==
    ASSUME stream \in Streams, TimesAscend, NEW i \in Segments, NEW j \in Segments,
           Seg(i).p = Seg(j).p
    PROVE  /\ i < j => Seg(i).t < Seg(j).t
           /\ Seg(j).t - Seg(i).t <= ResetDiff
           /\ Seg(i).t < Seg(j).t => i < j
<1>1. i \in Nat /\ j \in Nat /\ Seg(i).t \in Nat /\ Seg(j).t \in Nat /\ ResetDiff \in Nat
  BY StreamFields, MpdAssumption DEF Segments
<1>2. i < j => Seg(i).t < Seg(j).t /\ Seg(j).t - Seg(i).t <= ResetDiff
  BY DEF TimesAscend, Segments, Seg
<1>3. j < i => Seg(j).t < Seg(i).t
  BY DEF TimesAscend, Segments, Seg
<1>. QED  BY <1>1, <1>2, <1>3

\* An S element of a timeline begins with the first segment of its row.
LEMMA Elements ==
    ASSUME stream \in Streams, NEW w, Window(w),
           NEW p \in FirstPeriod(w)..LastPeriod(w), NEW j \in 1..Len(Timeline(w, p))
    PROVE  \E i \in InPeriod(w, p) :
             /\ Timeline(w, p)[j].t = Seg(i).t /\ Seg(i).row = Min(Rows(w, p)) + j - 1
             /\ \A x \in InPeriod(w, p) : Seg(x).row = Seg(i).row => i <= x
<1>. DEFINE I == InPeriod(w, p)
            R == Rows(w, p)
            Row(r) == {i \in I : Seg(i).row = r}
            a == Min(R)
            n == Cardinality(R)
            K == Row(a + j - 1)
<1>1. I \subseteq Segments
  BY PeriodNotEmpty
<1>2. PICK c \in Nat \ {0} : a \in Nat \ {0} /\ a <= c /\ R = a..c /\ n = c - a + 1
  BY RowsInterval
<1>3. Timeline(w, p) =
        [k \in 1..n |-> [t |-> Seg(Min(Row(a + k - 1))).t,
                         repeat |-> Cardinality(Row(a + k - 1)) - 1]]
  BY DEF Timeline, Rows
<1>4. n \in Nat
  <2>. HIDE DEF a, n, R
  <2>. QED  BY <1>2
<1>5. Len(Timeline(w, p)) = n
  <2>. HIDE DEF n, Row, a
  <2>. QED  BY <1>3, <1>4
<1>6. a + j - 1 \in R /\ j \in 1..n
  <2>1. j \in 1..n
    BY <1>5
  <2>. HIDE DEF a, n, R
  <2>. QED  BY <1>2, <2>1
<1>7. K # {} /\ K \subseteq Nat
  <2>1. PICK i \in I : Seg(i).row = a + j - 1
    BY <1>6 DEF Rows
  <2>2. i \in K
    BY <2>1
  <2>3. K \subseteq I /\ I \subseteq Nat
    BY <1>1 DEF Segments
  <2>. HIDE DEF K, I
  <2>. QED  BY <2>2, <2>3
<1>8. Min(K) \in K /\ \A x \in K : Min(K) <= x
  <2>. HIDE DEF K
  <2>. QED  BY <1>7, MinIn
<1>9. Timeline(w, p)[j].t = Seg(Min(K)).t
  <2>. HIDE DEF n, Row, a, R
  <2>. QED  BY <1>3, <1>6
<1>10. Min(K) \in I /\ Seg(Min(K)).row = a + j - 1
  <2>. DEFINE b == a + j - 1
  <2>. HIDE DEF b, I
  <2>1. Min(K) \in {i \in I : Seg(i).row = b}
    BY <1>8 DEF b
  <2>. QED  BY <2>1 DEF b
<1>11. \A x \in I : Seg(x).row = Seg(Min(K)).row => Min(K) <= x
  BY <1>8, <1>10
<1>. QED  BY <1>9, <1>10, <1>11

\* The S elements of a timeline ascend.
LEMMA RowsAscend ==
    ASSUME stream \in Streams, TimesAscend, NEW w, Window(w),
           NEW p \in FirstPeriod(w)..LastPeriod(w),
           NEW i \in 1..Len(Timeline(w, p)), NEW j \in 1..Len(Timeline(w, p)), i < j
    PROVE  Timeline(w, p)[i].t < Timeline(w, p)[j].t
<1>. DEFINE a == Min(Rows(w, p))
<1>1. PICK x \in InPeriod(w, p) : Timeline(w, p)[i].t = Seg(x).t /\ Seg(x).row = a + i - 1
  BY Elements
<1>2. PICK y \in InPeriod(w, p) : Timeline(w, p)[j].t = Seg(y).t /\ Seg(y).row = a + j - 1
  BY Elements
<1>3. x \in Segments /\ y \in Segments /\ Seg(x).p = p /\ Seg(y).p = p
  BY PeriodNotEmpty DEF InPeriod
<1>4. Seg(x).row < Seg(y).row
  <2>1. a \in Nat /\ i \in Nat /\ j \in Nat
    BY RowsInterval
  <2>. HIDE DEF a
  <2>. QED  BY <1>1, <1>2, <2>1
<1>5. x < y
  <2>1. ~(y <= x)
    BY <1>3, <1>4, Sequence, StreamFields
  <2>. QED  BY <1>3, <2>1 DEF Segments
<1>. QED  BY <1>1, <1>2, <1>3, <1>5, Ascending

\* Where a track is in its timeline, and what was fetched last.
SamePlace(r, q) ==
  /\ q.row = r.row /\ q.rep = r.rep /\ q.time = r.time
  /\ q.last = r.last /\ q.lastDur = r.lastDur /\ q.enabled = r.enabled

\* From its place the track r comes next to a time after t. A refresh sets the place back
\* to the first S element: a live stream finds it again by lastSegmentTime, and if that is
\* 0 it goes by lastSegmentDuration.
Beyond(r, tl, t) ==
  \/ r.row > Len(tl)
  \/ /\ \A j \in r.row + 1..Len(tl) : tl[j].t > t
     /\ \/ r.rep # 0 /\ r.time > t
        \/ r.rep = 0 /\ r.time # 0 /\ tl[r.row].t > t
        \/ r.rep = 0 /\ r.time = 0 /\ stream.live /\ r.lastDur # 0 /\ t = 0

\* What the track r knows of the segment d, the last one its ring was given: none if d is
\* of an earlier period.
Known(r, d) ==
  /\ d # 0 => Seg(d).p <= currentPeriodId
  /\ r.last # 0 => d # 0 /\ Seg(d).p = currentPeriodId /\ Seg(d).t = r.last
  /\ ~r.enabled => r.last = 0
  /\ stream.live /\ r.enabled /\ r.last = 0 /\ d # 0 /\ Seg(d).p = currentPeriodId
       => r.lastDur # 0 /\ Seg(d).t = 0

\* A place in the period, at a segment of it or after one; and beyond d if lastSegmentTime
\* cannot tell.
InTimeline(r) == \E i \in Segments : Seg(i).p = currentPeriodId /\ Seg(i).t <= r.time
GoesOn(r, d) ==
  r.last = 0 /\ d # 0 /\ Seg(d).p = currentPeriodId
    => Beyond(r, Timeline(mpd, currentPeriodId), Seg(d).t)
Ahead(r, d) == r.enabled => GoesOn(r, d) /\ (r.rep # 0 => InTimeline(r))

LEMMA SamePlaceKeeps ==
    ASSUME NEW r, NEW q, SamePlace(r, q), NEW d
    PROVE  /\ Known(r, d) => Known(q, d)
           /\ Ahead(r, d) => Ahead(q, d)
           /\ GoesOn(r, d) => GoesOn(q, d)
           /\ InTimeline(r) => InTimeline(q)
BY DEF SamePlace, Known, Ahead, GoesOn, InTimeline, Beyond

\* The fields of a track elsewhere.
LEMMA AtFields ==
    ASSUME NEW r \in MediaStreamContext, NEW row, NEW rep, NEW time
    PROVE  LET q == At(r, row, rep, time)
           IN  /\ q.row = row /\ q.rep = rep /\ q.time = time
               /\ q.last = r.last /\ q.lastDur = r.lastDur /\ q.enabled = r.enabled
BY DEF At, MediaStreamContext

LEMMA AdvanceIs ==
    ASSUME NEW tl, NEW r \in MediaStreamContext
    PROVE  Advance(r, tl) = IF r.rep + 1 > tl[r.row].repeat
                            THEN At(r, r.row + 1, 0, r.time + D)
                            ELSE At(r, r.row, r.rep + 1, r.time + D)
BY DEF Advance, MediaStreamContext, At

\* A step forward stays beyond what is behind it.
LEMMA AdvanceBeyond ==
    ASSUME stream \in Streams, NEW tl, TimelineOK(tl), NEW r \in MediaStreamContext,
           r.row \in 1..Len(tl), NEW t \in Nat, r.time >= t,
           \A j \in r.row + 1..Len(tl) : tl[j].t > t
    PROVE  Beyond(Advance(r, tl), tl, t)
<1>. DEFINE row == r.row
            rep == r.rep
            time == r.time
            n == Len(tl)
            q == Advance(r, tl)
<1>1. row \in Nat /\ rep \in Nat /\ time \in Nat /\ n \in Nat /\ tl[row].repeat \in Nat
  BY OneTimeline DEF MediaStreamContext, TimelineOK
<1>2. CASE rep + 1 > tl[row].repeat
  <2>1. q.row = row + 1 /\ q.rep = 0 /\ q.time = time + D
    BY <1>2, AdvanceIs, AtFields
  <2>. HIDE DEF q, row, rep, time, n
  <2>2. time + D # 0
    BY <1>1 DEF D
  <2>3. CASE row + 1 > n
    BY <2>1, <2>3 DEF Beyond, n, q
  <2>4. CASE ~(row + 1 > n)
    <3>1. row + 1 \in row + 1..n /\ row + 1 + 1..n \subseteq row + 1..n
      BY <1>1, <2>4
    <3>2. tl[row + 1].t > t /\ \A j \in row + 1 + 1..n : tl[j].t > t
      BY <3>1 DEF row, n
    <3>. QED  BY <2>1, <2>2, <3>2 DEF Beyond, n, q
  <2>. QED  BY <2>3, <2>4
<1>3. CASE ~(rep + 1 > tl[row].repeat)
  <2>1. q.row = row /\ q.rep = rep + 1 /\ q.time = time + D
    BY <1>3, AdvanceIs, AtFields
  <2>2. rep + 1 # 0 /\ time + D > t
    <3>. HIDE DEF rep
    <3>. QED  BY <1>1 DEF D
  <2>. HIDE DEF q
  <2>. QED  BY <2>1, <2>2 DEF Beyond, q
<1>. QED  BY <1>2, <1>3

\* A step forward goes on in the period.
LEMMA AdvanceKeeps ==
    ASSUME stream \in Streams, NEW tl, NEW r \in MediaStreamContext, InTimeline(r)
    PROVE  /\ InTimeline(Advance(r, tl))
           /\ Advance(r, tl).last = r.last /\ Advance(r, tl).lastDur = r.lastDur
           /\ Advance(r, tl).enabled = r.enabled
<1>. DEFINE q == Advance(r, tl)
            time == r.time
<1>1. /\ q.time = time + D /\ q.last = r.last /\ q.lastDur = r.lastDur
      /\ q.enabled = r.enabled
  BY AdvanceIs, AtFields
<1>2. PICK i \in Segments : Seg(i).p = currentPeriodId /\ Seg(i).t <= time
  BY DEF InTimeline
<1>3. Seg(i).t <= time + D
  <2>1. Seg(i).t \in Nat /\ time \in Nat
    BY StreamFields DEF MediaStreamContext
  <2>. HIDE DEF time
  <2>. QED  BY <1>2, <2>1 DEF D
<1>. QED  BY <1>1, <1>2, <1>3 DEF InTimeline

\* The segments skipped after a refresh are all of the S element.
LEMMA SkippedKeeps ==
    ASSUME stream \in Streams, NEW tl, TimelineOK(tl), NEW r \in MediaStreamContext,
           r.row \in 1..Len(tl), InTimeline(r)
    PROVE  InTimeline(Skipped(r, tl)) /\ Skipped(r, tl).enabled = r.enabled
           /\ Skipped(r, tl).last = r.last /\ Skipped(r, tl).lastDur = r.lastDur
<1>. DEFINE n == Min({tl[r.row].repeat - r.rep, (r.last - r.time + D - 1) \div D})
            time == r.time
            x == time + n * D
<1>1. Skipped(r, tl) = IF time >= r.last \/ r.rep >= tl[r.row].repeat THEN r
                       ELSE [r EXCEPT !.time = x, !.rep = @ + n]
  BY DEF Skipped, MediaStreamContext
<1>2. CASE time >= r.last \/ r.rep >= tl[r.row].repeat
  BY <1>1, <1>2
<1>3. CASE ~(time >= r.last \/ r.rep >= tl[r.row].repeat)
  <2>1. Skipped(r, tl) = At(r, r.row, r.rep + n, x)
    BY <1>1, <1>3 DEF At, MediaStreamContext
  <2>2. time <= x
    <3>1. time \in Nat /\ r.last \in Nat /\ r.rep \in Nat /\ tl[r.row].repeat \in Nat
      BY OneTimeline DEF MediaStreamContext
    <3>. DEFINE a == tl[r.row].repeat - r.rep
                b == (r.last - time + D - 1) \div D
    <3>2. a \in Nat /\ b \in Nat
      <4>. DEFINE u == r.last
                  v == r.rep
                  z == tl[r.row].repeat
      <4>. HIDE DEF u, v, z, time
      <4>1. u \in Nat /\ v \in Nat /\ z \in Nat /\ time \in Nat /\ ~(time >= u \/ v >= z)
        BY <1>3, <3>1 DEF u, v, z
      <4>2. z - v \in Nat /\ (u - time + D - 1) \div D \in Nat
        BY <4>1 DEF D
      <4>. QED  BY <4>2 DEF u, v, z
    <3>3. n \in Nat
      <4>. HIDE DEF a, b
      <4>0. a \in Int /\ b \in Int
        BY <3>2
      <4>1. Min({a, b}) \in {a, b}
        BY <4>0, OfTwo
      <4>. QED  BY <3>2, <4>1 DEF a, b
    <3>. HIDE DEF n, time
    <3>. QED  BY <3>1, <3>3 DEF D
  <2>3. PICK i \in Segments : Seg(i).p = currentPeriodId /\ Seg(i).t <= time
    BY DEF InTimeline
  <2>4. Seg(i).t <= x
    <3>1. Seg(i).t \in Nat /\ time \in Nat /\ x \in Int
      <4>1. Skipped(r, tl) \in MediaStreamContext
        BY SkippedMoves DEF Moved
      <4>2. Skipped(r, tl).time = x
        BY <2>1, AtFields
      <4>. QED  BY <4>1, <4>2, StreamFields DEF MediaStreamContext
    <3>. HIDE DEF x, time
    <3>. QED  BY <2>2, <2>3, <3>1
  <2>. HIDE DEF x
  <2>5. Skipped(r, tl).time = x /\ Skipped(r, tl).last = r.last
        /\ Skipped(r, tl).lastDur = r.lastDur /\ Skipped(r, tl).enabled = r.enabled
    BY <2>1, AtFields
  <2>. QED  BY <2>3, <2>4, <2>5 DEF InTimeline
<1>. QED  BY <1>2, <1>3

\* The place that Position finds is in the period.
LEMMA FromOffsetIn ==
    ASSUME stream \in Streams, Window(mpd),
           currentPeriodId \in FirstPeriod(mpd)..LastPeriod(mpd),
           NEW tl, tl = Timeline(mpd, currentPeriodId),
           NEW r \in MediaStreamContext, NEW pto \in Nat
    PROVE  LET q == FromOffset(r, tl, pto)
           IN  InTimeline(q) /\ q.lastDur = r.lastDur /\ q.enabled = r.enabled
<1>. DEFINE found == {j \in DOMAIN tl : End(tl[j]) > pto + 1}
            j == Min(found)
            n == Cardinality({k \in 1..tl[j].repeat : tl[j].t + k * D <= pto + 1})
            q == FromOffset(r, tl, pto)
<1>1. TimelineOK(tl)
  BY TimelineType
<1>2. DOMAIN tl = 1..Len(tl) /\ Len(tl) \in Nat \ {0}
      /\ \A k \in 1..Len(tl) : tl[k].t \in Nat /\ tl[k].repeat \in Nat
  BY <1>1, OneTimeline DEF TimelineOK
<1>3. ASSUME NEW k \in 1..Len(tl)
      PROVE  \E i \in Segments : Seg(i).p = currentPeriodId /\ Seg(i).t = tl[k].t
  BY <1>3, Elements, PeriodNotEmpty DEF InPeriod
<1>4. CASE tl[1].t \in {0, pto}
  <2>1. q = [r EXCEPT !.time = pto]
    BY <1>4 DEF FromOffset
  <2>2. q.time = pto /\ q.lastDur = r.lastDur /\ q.enabled = r.enabled
    BY <2>1 DEF MediaStreamContext
  <2>3. 1 \in 1..Len(tl) /\ tl[1].t <= pto
    BY <1>2, <1>4
  <2>. QED  BY <1>3, <2>2, <2>3 DEF InTimeline
<1>5. CASE tl[1].t \notin {0, pto} /\ found = {}
  <2>1. q = [r EXCEPT !.time = tl[Len(tl)].t, !.rep = 0]
    BY <1>5 DEF FromOffset
  <2>2. q.time = tl[Len(tl)].t /\ q.lastDur = r.lastDur /\ q.enabled = r.enabled
    BY <2>1 DEF MediaStreamContext
  <2>3. Len(tl) \in 1..Len(tl) /\ tl[Len(tl)].t \in Nat
    BY <1>2
  <2>. QED  BY <1>3, <2>2, <2>3 DEF InTimeline
<1>6. CASE tl[1].t \notin {0, pto} /\ found # {}
  <2>. DEFINE time == tl[j].t + n * D
  <2>1. q = [r EXCEPT !.row = j, !.rep = n, !.time = time]
    BY <1>6 DEF FromOffset
  <2>2. q.time = time /\ q.lastDur = r.lastDur /\ q.enabled = r.enabled
    <3>. HIDE DEF j, n, time
    <3>. QED  BY <2>1 DEF MediaStreamContext
  <2>3. j \in 1..Len(tl)
    <3>1. found \subseteq Nat /\ found \subseteq 1..Len(tl)
      BY <1>2
    <3>. HIDE DEF found
    <3>. QED  BY <1>6, <3>1, MinIn
  <2>4. n \in Nat
    <3>. DEFINE c == tl[j].repeat
                K == {k \in 1..c : tl[j].t + k * D <= pto + 1}
    <3>1. c \in Nat /\ K \in SUBSET (1..c)
      BY <1>2, <2>3
    <3>. HIDE DEF K, c
    <3>2. IsFiniteSet(1..c)
      BY <3>1, FS_Interval
    <3>3. Cardinality(K) \in Nat
      BY <3>1, <3>2, FS_Subset, FS_CardinalityType
    <3>. QED  BY <3>3 DEF K, c
  <2>5. tl[j].t <= time /\ tl[j].t \in Nat
    <3>1. tl[j].t \in Nat
      BY <1>2, <2>3
    <3>. HIDE DEF n, j
    <3>. QED  BY <2>4, <3>1 DEF D
  <2>6. PICK i \in Segments : Seg(i).p = currentPeriodId /\ Seg(i).t = tl[j].t
    <3>. HIDE DEF j
    <3>. QED  BY <1>3, <2>3
  <2>. HIDE DEF time, q, j
  <2>. QED  BY <2>2, <2>5, <2>6 DEF InTimeline, q
<1>. QED  BY <1>4, <1>5, <1>6

LEMMA FromLastSegmentIn ==
    ASSUME stream \in Streams, Window(mpd),
           currentPeriodId \in FirstPeriod(mpd)..LastPeriod(mpd),
           NEW tl, tl = Timeline(mpd, currentPeriodId),
           NEW r \in MediaStreamContext, r.row <= Len(tl),
           NEW d \in {0} \cup Segments, Known(r, d)
    PROVE  LET q == FromLastSegment(r, tl)
           IN  InTimeline(q) /\ q.lastDur = r.lastDur /\ q.enabled = r.enabled
<1>. DEFINE found == {j \in r.row..Len(tl) : r.last < End(tl[j])}
            j == Min(found)
            S == tl[j]
            n == IF S.t = 0 /\ r.last = 0 /\ r.lastDur # 0 THEN 1
                 ELSE IF S.t >= r.last THEN 0
                 ELSE Min({S.repeat, (r.last - S.t + D - 1) \div D})
            q == FromLastSegment(r, tl)
<1>1. TimelineOK(tl)
  BY TimelineType
<1>2. Len(tl) \in Nat \ {0} /\ \A k \in 1..Len(tl) : tl[k].t \in Nat /\ tl[k].repeat \in Nat
  BY <1>1, OneTimeline DEF TimelineOK
<1>3. r.row \in 1..Len(tl) /\ r.last \in Nat
  BY <1>2 DEF MediaStreamContext
<1>4. CASE found = {}
  <2>1. q = [r EXCEPT !.row = Len(tl), !.rep = tl[Len(tl)].repeat + 1, !.time = r.last]
    BY <1>4 DEF FromLastSegment
  <2>2. q.time = r.last /\ q.lastDur = r.lastDur /\ q.enabled = r.enabled
    BY <2>1 DEF MediaStreamContext
  <2>3. r.last # 0
    <3>1. End(tl[r.row]) > 0
      <4>. DEFINE a == tl[r.row].t
                  b == tl[r.row].repeat
      <4>1. a \in Nat /\ b \in Nat
        BY <1>2, <1>3
      <4>. HIDE DEF a, b
      <4>2. a + (b + 1) * D > 0
        BY <4>1 DEF D
      <4>. QED  BY <4>2 DEF End, a, b
    <3>2. r.row \in r.row..Len(tl)
      BY <1>3
    <3>. QED  BY <1>4, <3>1, <3>2
  <2>4. d \in Segments /\ Seg(d).p = currentPeriodId /\ Seg(d).t = r.last
    BY <2>3 DEF Known
  <2>. HIDE DEF q
  <2>. QED  BY <1>3, <2>2, <2>4 DEF InTimeline, q
<1>5. CASE found # {}
  <2>. DEFINE time == S.t + n * D
  <2>1. q = [r EXCEPT !.row = j, !.rep = n, !.time = time]
    BY <1>5 DEF FromLastSegment
  <2>2. q.time = time /\ q.lastDur = r.lastDur /\ q.enabled = r.enabled
    <3>. HIDE DEF j, n, time
    <3>. QED  BY <2>1 DEF MediaStreamContext
  <2>3. j \in 1..Len(tl)
    <3>1. found \subseteq Nat /\ found \subseteq 1..Len(tl)
      BY <1>2, <1>3
    <3>. HIDE DEF found
    <3>. QED  BY <1>5, <3>1, MinIn
  <2>4. S.t \in Nat /\ S.repeat \in Nat
    <3>. HIDE DEF j
    <3>. QED  BY <1>2, <2>3
  <2>5. n \in Nat
    <3>. DEFINE a == S.t
                b == S.repeat
                c == r.last
                e == (c - a + D - 1) \div D
    <3>1. a \in Nat /\ b \in Nat /\ c \in Nat
      BY <1>3, <2>4
    <3>2. ~(a >= c) => e \in Nat
      <4>. HIDE DEF a, b, c
      <4>. QED  BY <3>1 DEF D
    <3>3. ~(a >= c) => Min({b, e}) \in Nat
      <4>. HIDE DEF a, b, c, e
      <4>1. b \in Int
        BY <3>1
      <4>2. ~(a >= c) => e \in Int /\ e \in Nat
        BY <3>2
      <4>. QED  BY <3>1, <4>1, <4>2, OfTwo
    <3>. HIDE DEF S
    <3>. QED  BY <3>3
  <2>6. S.t <= time
    <3>. HIDE DEF n, S
    <3>. QED  BY <2>4, <2>5 DEF D
  <2>7. PICK i \in Segments : Seg(i).p = currentPeriodId /\ Seg(i).t = S.t
    <3>. HIDE DEF j
    <3>. QED  BY <2>3, Elements, PeriodNotEmpty DEF InPeriod
  <2>. HIDE DEF time, q, S
  <2>. QED  BY <2>2, <2>6, <2>7 DEF InTimeline, q
<1>. QED  BY <1>4, <1>5

LEMMA PositionIn ==
    ASSUME stream \in Streams, Window(mpd),
           currentPeriodId \in FirstPeriod(mpd)..LastPeriod(mpd),
           NEW tl, tl = Timeline(mpd, currentPeriodId),
           NEW r \in MediaStreamContext, r.enabled, r.row <= Len(tl), NEW pto \in Nat,
           NEW d \in {0} \cup Segments, Known(r, d), Ahead(r, d)
    PROVE  LET q == Position(r, tl, pto)
           IN  InTimeline(q) /\ q.lastDur = r.lastDur /\ q.enabled = r.enabled
<1>1. CASE pto > 0 /\ r.lastDur = 0 /\ r.time = 0
  BY <1>1, FromOffsetIn DEF Position
<1>2. CASE ~(pto > 0 /\ r.lastDur = 0 /\ r.time = 0) /\ r.rep # 0
  BY <1>2 DEF Position, Ahead
<1>3. CASE /\ ~(pto > 0 /\ r.lastDur = 0 /\ r.time = 0) /\ r.rep = 0
           /\ stream.live /\ r.time = 0
  BY <1>3, FromLastSegmentIn DEF Position
<1>4. CASE /\ ~(pto > 0 /\ r.lastDur = 0 /\ r.time = 0) /\ r.rep = 0
           /\ ~(stream.live /\ r.time = 0)
  <2>1. Position(r, tl, pto) = At(r, r.row, r.rep, tl[r.row].t)
    BY <1>4, AtTime DEF Position
  <2>2. r.row \in 1..Len(tl)
    BY TimelineType DEF MediaStreamContext, TimelineOK
  <2>3. PICK i \in Segments : Seg(i).p = currentPeriodId /\ Seg(i).t = tl[r.row].t
    BY <2>2, Elements, PeriodNotEmpty DEF InPeriod
  <2>4. Seg(i).t <= tl[r.row].t
    BY <2>3, StreamFields
  <2>5. /\ Position(r, tl, pto).time = tl[r.row].t
        /\ Position(r, tl, pto).lastDur = r.lastDur /\ Position(r, tl, pto).enabled = r.enabled
    <3>. DEFINE time == tl[r.row].t
                q == Position(r, tl, pto)
    <3>1. q = At(r, r.row, r.rep, time)
      BY <2>1
    <3>. HIDE DEF q, time
    <3>2. q.time = time /\ q.lastDur = r.lastDur
      BY <3>1, AtFields
    <3>3. q.enabled = r.enabled
      BY <3>1, AtFields
    <3>. QED  BY <3>2, <3>3 DEF q, time
  <2>. QED  BY <2>3, <2>4, <2>5 DEF InTimeline
<1>. QED  BY <1>1, <1>2, <1>3, <1>4

\* And it is beyond a segment that the track comes next to.
LEMMA PositionBeyond ==
    ASSUME stream \in Streams, NEW tl, TimelineOK(tl), NEW r \in MediaStreamContext,
           r.row <= Len(tl), NEW pto \in Nat, NEW t \in Nat, r.last = 0, Beyond(r, tl, t)
    PROVE  LET q == Position(r, tl, pto)
           IN  /\ Beyond(q, tl, t) /\ q.time > t
               /\ \A j \in q.row + 1..Len(tl) : tl[j].t > t
<1>. DEFINE q == Position(r, tl, pto)
            row == r.row
            n == Len(tl)
<1>1. /\ row \in 1..n /\ row \in Nat /\ n \in Nat /\ r.time \in Nat
      /\ \A k \in 1..n : tl[k].t \in Nat /\ tl[k].repeat \in Nat
  <2>1. n \in Nat /\ \A k \in 1..n : tl[k].t \in Nat /\ tl[k].repeat \in Nat
    BY OneTimeline DEF TimelineOK
  <2>2. row \in Nat \ {0} /\ row <= n /\ r.time \in Nat
    BY DEF MediaStreamContext
  <2>. HIDE DEF row, n
  <2>. QED  BY <2>1, <2>2
<1>2. ~(row > n)
  <2>. HIDE DEF row, n
  <2>. QED  BY <1>1
<1>3. \A j \in row + 1..n : tl[j].t > t
  BY <1>2 DEF Beyond
<1>4. CASE r.rep # 0 /\ r.time > t
  <2>1. r.time # 0
    BY <1>1, <1>4
  <2>2. q = r
    BY <1>4, <2>1 DEF Position
  <2>. QED  BY <1>3, <1>4, <2>2
<1>5. CASE r.rep = 0 /\ r.time # 0 /\ tl[row].t > t
  <2>1. q = At(r, row, r.rep, tl[row].t)
    BY <1>5, AtTime DEF Position
  <2>2. q.row = row /\ q.rep = 0 /\ q.time = tl[row].t
    BY <1>5, <2>1, AtFields
  <2>3. tl[row].t \in Nat
    BY <1>1
  <2>4. tl[row].t # 0
    BY <1>5, <2>3
  <2>. HIDE DEF q
  <2>. QED  BY <1>3, <1>5, <2>2, <2>4 DEF Beyond, q
<1>6. CASE r.rep = 0 /\ r.time = 0 /\ stream.live /\ r.lastDur # 0 /\ t = 0
  <2>. DEFINE found == {j \in row..n : r.last < End(tl[j])}
              a == tl[row].t
              k == IF a = 0 THEN 1 ELSE 0
  <2>1. q = FromLastSegment(r, tl)
    BY <1>6 DEF Position
  <2>2. a \in Nat /\ tl[row].repeat \in Nat
    BY <1>1
  <2>3. row \in found
    <3>. DEFINE b == tl[row].repeat
    <3>. HIDE DEF a, b
    <3>1. a + (b + 1) * D > 0
      BY <2>2 DEF D, b
    <3>2. End(tl[row]) > 0
      BY <3>1 DEF End, a, b
    <3>3. row \in row..n
      <4>. HIDE DEF row, n
      <4>. QED  BY <1>1
    <3>. QED  BY <3>2, <3>3
  <2>4. Min(found) = row
    <3>1. found \subseteq Nat /\ \A x \in found : row <= x
      <4>. HIDE DEF row, n
      <4>. QED  BY <1>1
    <3>. HIDE DEF found
    <3>2. Min(found) \in found /\ Min(found) <= row
      BY <2>3, <3>1, MinIn
    <3>3. row <= Min(found) /\ Min(found) \in Nat
      BY <3>1, <3>2
    <3>. QED  BY <1>1, <3>2, <3>3
  <2>5. q = [r EXCEPT !.row = row, !.rep = k, !.time = a + k * D]
    <3>1. found # {} /\ a >= 0
      BY <2>2, <2>3
    <3>. HIDE DEF found
    <3>. QED  BY <1>6, <2>1, <2>2, <2>4, <3>1 DEF FromLastSegment, found
  <2>6. q.row = row /\ q.rep = k /\ q.time = a + k * D
    <3>. HIDE DEF a, k, row
    <3>. QED  BY <2>5 DEF MediaStreamContext
  <2>7. a + k * D > 0 /\ (k = 0 => a > 0)
    <3>. HIDE DEF a
    <3>. QED  BY <2>2 DEF D
  <2>. HIDE DEF q, k
  <2>. QED  BY <1>3, <1>6, <2>6, <2>7 DEF Beyond, q
<1>. QED  BY <1>2, <1>4, <1>5, <1>6 DEF Beyond

\* A track at a place goes on from there.
LEMMA AdvanceAhead ==
    ASSUME stream \in Streams, Window(mpd),
           currentPeriodId \in FirstPeriod(mpd)..LastPeriod(mpd),
           NEW tl, tl = Timeline(mpd, currentPeriodId),
           NEW r \in MediaStreamContext, r.row \in 1..Len(tl), InTimeline(r),
           NEW d \in {0} \cup Segments, Known(r, d),
           r.last = 0 /\ d # 0 /\ Seg(d).p = currentPeriodId =>
             r.time >= Seg(d).t /\ \A j \in r.row + 1..Len(tl) : tl[j].t > Seg(d).t
    PROVE  Known(Advance(r, tl), d) /\ Ahead(Advance(r, tl), d)
<1>. DEFINE q == Advance(r, tl)
<1>1. TimelineOK(tl)
  BY TimelineType
<1>2. InTimeline(q) /\ q.last = r.last /\ q.lastDur = r.lastDur /\ q.enabled = r.enabled
  BY AdvanceKeeps
<1>3. r.last = 0 /\ d # 0 /\ Seg(d).p = currentPeriodId => Beyond(q, tl, Seg(d).t)
  <2>1. d # 0 => Seg(d).t \in Nat
    BY StreamFields
  <2>. QED  BY <1>1, <2>1, AdvanceBeyond
<1>. HIDE DEF q
<1>4. Known(q, d)
  BY <1>2 DEF Known
<1>5. Ahead(q, d)
  BY <1>2, <1>3 DEF Ahead, GoesOn
<1>. QED  BY <1>4, <1>5 DEF q

\* A track at a place of the timeline, that segment d, given last, does not come after.
AtOrAfter(r, d, tl) ==
  /\ r \in MediaStreamContext /\ r.enabled /\ r.row \in 1..Len(tl)
  /\ InTimeline(r) /\ Known(r, d)
  /\ r.last = 0 /\ d # 0 /\ Seg(d).p = currentPeriodId =>
       /\ Beyond(r, tl, Seg(d).t) /\ r.time > Seg(d).t
       /\ \A j \in r.row + 1..Len(tl) : tl[j].t > Seg(d).t

\* A new segment comes after the one given last.
LEMMA NewIsLater ==
    ASSUME stream \in Streams, TimesAscend, NEW tl, NEW r, NEW d \in {0} \cup Segments,
           AtOrAfter(r, d, tl), IsNew(r), SegmentAt(currentPeriodId, r.time) # 0
    PROVE  SegmentAt(currentPeriodId, r.time) > d
<1>. DEFINE s == SegmentAt(currentPeriodId, r.time)
<1>1. s \in Segments /\ Seg(s).p = currentPeriodId /\ Seg(s).t = r.time
  BY SegmentAtType
<1>. HIDE DEF s
<1>2. s \in Nat \ {0} /\ (d # 0 => d \in Nat)
  BY <1>1 DEF Segments
<1>3. CASE d = 0
  BY <1>2, <1>3 DEF s
<1>4. CASE d # 0 /\ Seg(d).p = currentPeriodId
  <2>1. Seg(d).t < r.time
    <3>1. CASE r.last = 0
      BY <1>4, <3>1, StreamFields DEF AtOrAfter, MediaStreamContext
    <3>2. CASE r.last # 0
      BY <3>2 DEF AtOrAfter, Known, IsNew, MediaStreamContext
    <3>. QED  BY <3>1, <3>2
  <2>. QED  BY <1>1, <1>2, <1>4, <2>1, Ascending DEF s
<1>5. CASE d # 0 /\ Seg(d).p # currentPeriodId
  <2>1. Seg(d).p < Seg(s).p
    BY <1>1, <1>5, StreamFields DEF AtOrAfter, Known
  <2>2. ~(s <= d)
    BY <1>1, <1>5, <2>1, Sequence, StreamFields
  <2>. QED  BY <1>2, <1>5, <2>2 DEF s
<1>. QED  BY <1>3, <1>4, <1>5

\* What Position does for a track that goes on.
LEMMA PositionIs ==
    ASSUME stream \in Streams, Window(mpd),
           currentPeriodId \in FirstPeriod(mpd)..LastPeriod(mpd),
           NEW tl, tl = Timeline(mpd, currentPeriodId),
           NEW r \in MediaStreamContext, r.enabled, r.row <= Len(tl), NEW pto \in Nat,
           NEW d \in {0} \cup Segments, Known(r, d), Ahead(r, d)
    PROVE  AtOrAfter(Position(r, tl, pto), d, tl)
<1>. DEFINE q == Position(r, tl, pto)
<1>1. TimelineOK(tl)
  BY TimelineType
<1>2. q \in MediaStreamContext /\ q.last = r.last /\ q.row \in 1..Len(tl)
  BY <1>1, PositionMoves DEF Moved
<1>3. InTimeline(q) /\ q.lastDur = r.lastDur /\ q.enabled = r.enabled
  BY PositionIn
<1>4. ASSUME r.last = 0, d # 0, Seg(d).p = currentPeriodId
      PROVE  /\ Beyond(q, tl, Seg(d).t) /\ q.time > Seg(d).t
             /\ \A j \in q.row + 1..Len(tl) : tl[j].t > Seg(d).t
  <2>1. Seg(d).t \in Nat /\ Beyond(r, tl, Seg(d).t)
    BY <1>4, StreamFields DEF Ahead, GoesOn
  <2>. QED  BY <1>1, <1>4, <2>1, PositionBeyond
<1>. HIDE DEF q
<1>5. Known(q, d)
  BY <1>2, <1>3 DEF Known
<1>. QED  BY <1>2, <1>3, <1>4, <1>5 DEF AtOrAfter, q

\* What a step that asks for a segment of m leaves: the track at its place, its ring given
\* segment d' last.
GoneOn(m) ==
  /\ Known(track'[m], delivered'[m].seg) /\ Ahead(track'[m], delivered'[m].seg)
  /\ "order" \in delivered'[m].wrong => "order" \in delivered[m].wrong
  /\ \A k \in Tracks \ {m} :
       /\ SamePlace(track[k], track'[k])
       /\ delivered'[k].seg = delivered[k].seg /\ delivered'[k].wrong = delivered[k].wrong

\* The segment is fetched.
LEMMA PushCachedGoesOn ==
    ASSUME stream \in Streams, TimesAscend, Fetching, Window(mpd),
           currentPeriodId \in FirstPeriod(mpd)..LastPeriod(mpd),
           NEW tl, tl = Timeline(mpd, currentPeriodId), NEW m \in Tracks, NEW r,
           AtOrAfter(r, delivered[m].seg, tl), IsNew(r), PushCached(m, r, tl)
    PROVE  GoneOn(m)
<1>. DEFINE s == SegmentAt(currentPeriodId, r.time)
            d == delivered[m].seg
            f == Fetched([r EXCEPT !.failCount = 0, !.ring = Append(@, 1)])
            q == Advance(f, tl)
            T == [track EXCEPT ![m] = q]
<1>1. /\ s # 0 /\ MayChangeProfile(m, T)
      /\ delivered' = [delivered EXCEPT ![m].seg = Max({@, s}), ![m].wrong = @ \cup Wrong(m, s)]
  BY DEF PushCached
<1>2. s \in Segments /\ Seg(s).p = currentPeriodId /\ Seg(s).t = r.time
  BY <1>1, SegmentAtType
<1>3. \A k \in Tracks : delivered[k] \in Delivered
  BY DEF Fetching
<1>4. d \in {0} \cup Segments /\ d \in Nat /\ s \in Nat
  BY <1>2, <1>3 DEF Delivered, Segments
<1>5. s > d
  BY <1>1, <1>4, NewIsLater
<1>6. r \in MediaStreamContext /\ r.enabled /\ r.row \in 1..Len(tl) /\ InTimeline(r)
  BY DEF AtOrAfter
<1>7. /\ f \in MediaStreamContext /\ f.row = r.row /\ f.rep = r.rep /\ f.time = r.time
      /\ f.last = r.time /\ f.lastDur = r.time + D /\ f.enabled
  <2>. DEFINE g == [r EXCEPT !.failCount = 0, !.ring = Append(@, 1)]
  <2>1. 0 \in 0..MaxSegFail /\ Append(r.ring, 1) \in Seq({0, 1})
    BY <1>6, MpdAssumption DEF MediaStreamContext
  <2>2. /\ g \in MediaStreamContext /\ g.row = r.row /\ g.rep = r.rep /\ g.time = r.time
        /\ g.enabled
    BY <1>6, <2>1 DEF MediaStreamContext
  <2>. HIDE DEF g
  <2>3. g.time \in Nat /\ g.time + D \in Nat
    BY <2>2 DEF MediaStreamContext, D
  <2>4. /\ Fetched(g) \in MediaStreamContext /\ Fetched(g).row = g.row
        /\ Fetched(g).rep = g.rep /\ Fetched(g).time = g.time
        /\ Fetched(g).last = g.time /\ Fetched(g).lastDur = g.time + D
        /\ Fetched(g).enabled = g.enabled
    BY <2>2, <2>3 DEF Fetched, MediaStreamContext
  <2>. QED  BY <2>2, <2>4 DEF g
<1>. HIDE DEF s, d, f
<1>8. Known(f, s) /\ InTimeline(f)
  <2>1. r.time \in Nat /\ Seg(s).p \in Nat
    BY <1>2, <1>6, StreamFields DEF MediaStreamContext
  <2>2. s # 0 => Seg(s).p <= currentPeriodId
    BY <1>2, <2>1
  <2>3. f.lastDur # 0
    BY <1>7, <2>1 DEF D
  <2>. QED  BY <1>1, <1>2, <1>6, <1>7, <2>2, <2>3 DEF Known, InTimeline
<1>9. f.last = 0 => f.time >= Seg(s).t /\ \A j \in f.row + 1..Len(tl) : tl[j].t > Seg(s).t
  <2>1. ASSUME r.time = 0, NEW j \in r.row + 1..Len(tl) PROVE tl[j].t > 0
    <3>1. r.row \in Nat /\ Len(tl) \in Nat
      BY <1>6, TimelineType DEF MediaStreamContext, TimelineOK
    <3>2. j \in 1..Len(tl) /\ r.row < j
      BY <1>6, <2>1, <3>1
    <3>3. tl[r.row].t < tl[j].t
      BY <1>6, <3>2, RowsAscend
    <3>4. tl[r.row].t \in Nat /\ tl[j].t \in Nat
      BY <1>6, <3>2, OneTimeline, TimelineType
    <3>. QED  BY <3>3, <3>4
  <2>. QED  BY <1>2, <1>7, <2>1
<1>10. Known(q, s) /\ Ahead(q, s)
  BY <1>2, <1>6, <1>7, <1>8, <1>9, AdvanceAhead
<1>. HIDE DEF q
<1>11. /\ \A k \in Tracks \ {m} : SamePlace(track[k], track'[k])
       /\ SamePlace(q, track'[m])
  <2>1. \A k \in Tracks \ {m} : T[k] = track[k]
    BY DEF Fetching
  <2>2. T[m] = q
    BY DEF Fetching
  <2>3. q \in MediaStreamContext
    BY <1>6, <1>7, AdvanceMoves, TimelineType DEF Moved, q
  <2>4. T \in [Tracks -> MediaStreamContext]
    BY <2>3 DEF Fetching
  <2>. HIDE DEF T
  <2>5. \A k \in Tracks : SamePlace(T[k], track'[k])
    <3>1. CASE track' = T
      BY <3>1 DEF SamePlace
    <3>2. CASE track' = [T EXCEPT !.video.profileChanged = TRUE]
      BY <2>4, <3>2 DEF SamePlace, MediaStreamContext, Tracks
    <3>. QED  BY <1>1, <3>1, <3>2 DEF MayChangeProfile
  <2>. QED  BY <2>1, <2>2, <2>5
<1>12. /\ delivered'[m].seg = s
       /\ "order" \in delivered'[m].wrong => "order" \in delivered[m].wrong
       /\ \A k \in Tracks \ {m} : delivered'[k] = delivered[k]
  <2>1. "order" \notin Wrong(m, s)
    BY <1>4, <1>5 DEF Wrong, d
  <2>2. Max({d, s}) = s
    <3>1. d \in Int /\ s \in Int
      BY <1>4
    <3>2. Max({d, s}) \in {d, s} /\ Max({d, s}) >= s
      BY <3>1, OfTwo
    <3>. QED  BY <1>4, <1>5, <3>2
  <2>. DEFINE W == Wrong(m, s)
              M == Max({d, s})
  <2>. HIDE DEF W, M
  <2>3. delivered' = [delivered EXCEPT ![m].seg = M, ![m].wrong = @ \cup W]
    BY <1>1 DEF W, M, d, s
  <2>4. delivered'[m].seg = M /\ delivered'[m].wrong = delivered[m].wrong \cup W
    BY <1>3, <2>3 DEF Fetching, Delivered
  <2>5. \A k \in Tracks \ {m} : delivered'[k] = delivered[k]
    BY <2>3 DEF Fetching
  <2>. QED  BY <2>1, <2>2, <2>4, <2>5 DEF W, M
<1>13. Known(track'[m], s) /\ Ahead(track'[m], s)
  BY <1>10, <1>11, SamePlaceKeeps
<1>. QED  BY <1>11, <1>12, <1>13 DEF GoneOn

\* Its download fails: the track asks for it again or goes on without it.
LEMMA PushFailsGoesOn ==
    ASSUME stream \in Streams, Fetching, Window(mpd),
           currentPeriodId \in FirstPeriod(mpd)..LastPeriod(mpd),
           NEW tl, tl = Timeline(mpd, currentPeriodId), NEW m \in Tracks, NEW r,
           AtOrAfter(r, delivered[m].seg, tl), PushFails(m, r, tl)
    PROVE  GoneOn(m)
<1>. DEFINE d == delivered[m].seg
            q == Advance(r, tl)
            from == IF RampsDown(m) THEN r ELSE q
            s == SegmentAt(currentPeriodId, r.time)
<1>1. /\ NotCached(m, FALSE, r, q)
      /\ delivered' = [delivered EXCEPT ![m].lost =
                           @ \cup BeforeFirst(m) \cup IF RampsDown(m) THEN {} ELSE {s} \ {0}]
  BY DEF PushFails
<1>2. \A k \in Tracks : delivered[k] \in Delivered
  BY DEF Fetching
<1>3. d \in {0} \cup Segments /\ (d # 0 => Seg(d).t \in Nat)
  BY <1>2, StreamFields DEF Delivered
<1>4. r \in MediaStreamContext /\ r.enabled /\ r.row \in 1..Len(tl) /\ InTimeline(r)
      /\ Known(r, d) /\ r.time \in Nat
  BY DEF AtOrAfter, MediaStreamContext
<1>5. q \in MediaStreamContext
  BY <1>4, AdvanceMoves, TimelineType DEF Moved
<1>6. Known(q, d) /\ Ahead(q, d)
  <2>1. r.last = 0 /\ d # 0 /\ Seg(d).p = currentPeriodId =>
          r.time >= Seg(d).t /\ \A j \in r.row + 1..Len(tl) : tl[j].t > Seg(d).t
    BY <1>3, <1>4 DEF AtOrAfter
  <2>. QED  BY <1>3, <1>4, <2>1, AdvanceAhead
<1>7. Known(r, d) /\ Ahead(r, d)
  BY <1>4 DEF AtOrAfter, Ahead, GoesOn
<1>. HIDE DEF q
<1>8. Known(from, d) /\ Ahead(from, d) /\ from \in MediaStreamContext
  BY <1>4, <1>5, <1>6, <1>7
<1>. HIDE DEF from
<1>9. SamePlace(from, track'[m]) /\ \A k \in Tracks \ {m} : track'[k] = track[k]
  <2>1. \E a, b, c : track' = [track EXCEPT ![m] = [from EXCEPT !.failCount = a,
                                        !.skipOnError = b, !.profileChanged = c]]
    <3>1. [from EXCEPT !.failCount = Min({MaxSegFail, track[m].failCount
                                             + (IF track[m].skipOnError THEN 1 ELSE 0)}),
                       !.skipOnError = FALSE \/ ~RampsDown(m),
                       !.profileChanged = @ \/ RampsDown(m)]
            = [from EXCEPT !.failCount = Min({MaxSegFail, track[m].failCount
                                             + (IF track[m].skipOnError THEN 1 ELSE 0)}),
                       !.skipOnError = FALSE \/ ~RampsDown(m),
                       !.profileChanged = from.profileChanged \/ RampsDown(m)]
      BY <1>8 DEF MediaStreamContext
    <3>. QED  BY <1>1, <3>1 DEF NotCached, from
  <2>. QED  BY <1>8, <2>1 DEF Fetching, SamePlace, MediaStreamContext
<1>10. \A k \in Tracks : delivered'[k].seg = delivered[k].seg /\ delivered'[k].wrong = delivered[k].wrong
  <2>. HIDE DEF s
  <2>. QED  BY <1>1, <1>2 DEF Fetching, Delivered
<1>11. \A k \in Tracks \ {m} : SamePlace(track[k], track'[k])
  BY <1>9 DEF SamePlace
<1>12. Known(track'[m], d) /\ Ahead(track'[m], d)
  BY <1>8, <1>9, SamePlaceKeeps
<1>. QED  BY <1>10, <1>11, <1>12 DEF GoneOn

\* It is an old segment: the track goes on to the next one.
LEMMA PushSkipsGoesOn ==
    ASSUME stream \in Streams, Fetching, Window(mpd),
           currentPeriodId \in FirstPeriod(mpd)..LastPeriod(mpd),
           NEW tl, tl = Timeline(mpd, currentPeriodId), NEW m \in Tracks, NEW r,
           AtOrAfter(r, delivered[m].seg, tl), ~IsNew(r), PushSkips(m, r, tl)
    PROVE  GoneOn(m)
<1>. DEFINE d == delivered[m].seg
            f == Skipped(r, tl)
            q == Advance(f, tl)
<1>1. track' = [track EXCEPT ![m] = q] /\ delivered' = delivered
  BY DEF PushSkips
<1>2. r \in MediaStreamContext /\ r.enabled /\ r.row \in 1..Len(tl) /\ InTimeline(r)
      /\ Known(r, d) /\ r.last # 0
  BY DEF AtOrAfter, IsNew
<1>3. TimelineOK(tl) /\ d \in {0} \cup Segments
  BY TimelineType DEF Fetching, Delivered
<1>4. f \in MediaStreamContext /\ f.row = r.row /\ InTimeline(f)
      /\ f.last = r.last /\ f.lastDur = r.lastDur /\ f.enabled = r.enabled
  BY <1>2, <1>3, SkippedMoves, SkippedKeeps DEF Moved
<1>. HIDE DEF f, d
<1>5. Known(f, d)
  BY <1>2, <1>4 DEF Known
<1>6. Known(q, d) /\ Ahead(q, d)
  BY <1>2, <1>3, <1>4, <1>5, AdvanceAhead
<1>. HIDE DEF q
<1>7. track'[m] = q /\ \A k \in Tracks \ {m} : track'[k] = track[k]
  BY <1>1 DEF Fetching
<1>. QED  BY <1>1, <1>6, <1>7 DEF GoneOn, SamePlace, d

\* The start time of the period was not reset.
LEMMA NotReset ==
    ASSUME stream \in Streams, TimesAscend, NEW tl, NEW r, NEW d \in {0} \cup Segments,
           AtOrAfter(r, d, tl)
    PROVE  ~(r.last - r.time > ResetDiff)
<1>1. r.time \in Nat /\ r.last \in Nat /\ ResetDiff \in Nat
  BY MpdAssumption DEF AtOrAfter, MediaStreamContext
<1>2. CASE r.last = 0
  BY <1>1, <1>2
<1>3. CASE r.last # 0
  <2>1. d \in Segments /\ Seg(d).p = currentPeriodId /\ Seg(d).t = r.last
    BY <1>3 DEF AtOrAfter, Known
  <2>2. PICK i \in Segments : Seg(i).p = currentPeriodId /\ Seg(i).t <= r.time
    BY DEF AtOrAfter, InTimeline
  <2>3. Seg(d).t - Seg(i).t <= ResetDiff
    BY <2>1, <2>2, Ascending
  <2>4. Seg(i).t \in Nat
    BY StreamFields
  <2>. QED  BY <1>1, <2>1, <2>2, <2>3, <2>4
<1>. QED  BY <1>2, <1>3

LEMMA PushGoesOn ==
    ASSUME stream \in Streams, TimesAscend, Fetching, Window(mpd),
           currentPeriodId \in FirstPeriod(mpd)..LastPeriod(mpd), NEW m \in Tracks,
           track[m].enabled, Known(track[m], delivered[m].seg),
           Ahead(track[m], delivered[m].seg), PushNextFragment(m)
    PROVE  GoneOn(m)
<1>. DEFINE tl == Timeline(mpd, currentPeriodId)
            pto == stream.pto[currentPeriodId]
            r == Position(track[m], tl, pto)
            d == delivered[m].seg
<1>1. TimelineOK(tl) /\ pto \in Nat /\ track[m] \in MediaStreamContext
      /\ d \in {0} \cup Segments
  BY TimelineType, PeriodNotEmpty, PeriodNumbers DEF Fetching, Delivered
<1>2. CASE track[m].row > Len(tl)
  <2>1. track' = [track EXCEPT ![m].eos = TRUE] /\ delivered' = delivered
    BY <1>2 DEF PushNextFragment, PushEos
  <2>2. \A k \in Tracks : SamePlace(track[k], track'[k])
    BY <2>1 DEF Fetching, SamePlace, MediaStreamContext
  <2>3. Known(track'[m], d) /\ Ahead(track'[m], d)
    BY <2>2, SamePlaceKeeps
  <2>. QED  BY <2>1, <2>2, <2>3 DEF GoneOn
<1>3. CASE ~(track[m].row > Len(tl))
  <2>1. track[m].row <= Len(tl)
    <3>1. track[m].row \in Nat /\ Len(tl) \in Nat
      BY <1>1 DEF MediaStreamContext, TimelineOK
    <3>. HIDE DEF tl
    <3>. QED  BY <1>3, <3>1
  <2>2. AtOrAfter(r, d, tl)
    <3>. HIDE DEF pto
    <3>. QED  BY <1>1, <2>1, PositionIs
  <2>3. ~(r.last - r.time > ResetDiff)
    <3>. HIDE DEF r, d, tl
    <3>. QED  BY <1>1, <2>2, NotReset
  <2>4. \/ IsNew(r) /\ (PushCached(m, r, tl) \/ PushFails(m, r, tl))
        \/ ~IsNew(r) /\ PushSkips(m, r, tl)
    BY <1>3, <2>3 DEF PushNextFragment
  <2>. HIDE DEF r
  <2>. QED  BY <2>2, <2>4, PushCachedGoesOn, PushFailsGoesOn, PushSkipsGoesOn
<1>. QED  BY <1>2, <1>3

-----------------------------------------------------------------------------
(* The invariant of the order.                                               *)

Fetches == pc \in {"init", "audio", "video", "check"}

\* The periods are entered one after the other; only a live stream comes to one again.
Onward ==
  /\ Fetches => PeriodAt(mpd, iPeriod) = currentPeriodId
  /\ pc = "period" => PeriodAt(mpd, iPeriod) >= currentPeriodId
  /\ ~stream.live => /\ ~mpd.live /\ pc # "refresh"
                     /\ pc = "period" => PeriodAt(mpd, iPeriod) > currentPeriodId

Orderly ==
  \A m \in Tracks : /\ "order" \notin delivered[m].wrong
                    /\ Known(track[m], delivered[m].seg)
                    /\ Fetches => Ahead(track[m], delivered[m].seg)

\* The same of the tracks after a step inside a period.
LEMMA OrderlyNext ==
    ASSUME UNCHANGED <<stream, currentPeriodId>>, Fetches' => mpd' = mpd,
           \A m \in Tracks : /\ "order" \notin delivered'[m].wrong
                             /\ Known(track'[m], delivered'[m].seg)
                             /\ Fetches' => Ahead(track'[m], delivered'[m].seg)
    PROVE  Orderly'
<1>1. ASSUME NEW m \in Tracks PROVE Known(track[m], delivered[m].seg)'
  BY DEF Known, Seg
<1>2. ASSUME NEW m \in Tracks, Fetches' PROVE Ahead(track[m], delivered[m].seg)'
  <2>1. mpd' = mpd /\ Ahead(track'[m], delivered'[m].seg)
    BY <1>2
  <2>2. Timeline(mpd, currentPeriodId)' = Timeline(mpd, currentPeriodId)
    BY <2>1 DEF Timeline, InPeriod, Seg
  <2>. QED  BY <2>1, <2>2 DEF Ahead, GoesOn, InTimeline, Beyond, Seg, Segments
<1>. QED  BY <1>1, <1>2 DEF Orderly

\* The collector is where it was, or no longer fetches.
LEMMA OrderlySame ==
    ASSUME Orderly, UNCHANGED <<stream, currentPeriodId>>,
           Fetches' => Fetches /\ mpd' = mpd,
           \A m \in Tracks :
             /\ SamePlace(track[m], track'[m]) /\ delivered'[m].seg = delivered[m].seg
             /\ delivered'[m].wrong = delivered[m].wrong
    PROVE  Orderly'
<1>1. \A m \in Tracks : /\ "order" \notin delivered'[m].wrong
                        /\ Known(track'[m], delivered'[m].seg)
                        /\ Fetches' => Ahead(track'[m], delivered'[m].seg)
  BY SamePlaceKeeps DEF Orderly
<1>. QED  BY <1>1, OrderlyNext

\* The places of the tracks when a period is entered.
LEMMA ForgottenPlace ==
    ASSUME NEW T \in [Tracks -> MediaStreamContext], NEW m \in Tracks,
           ~T[m].enabled => T[m].last = 0
    PROVE  LET q == ForgetLastSegment(T)[m] IN q \in MediaStreamContext /\ q.last = 0
<1>. DEFINE r == T[m]
<1>1. r \in MediaStreamContext
  OBVIOUS
<1>2. ForgetLastSegment(T)[m] = IF r.enabled THEN [r EXCEPT !.last = 0, !.lastDur = 0] ELSE r
  BY DEF ForgetLastSegment
<1>. HIDE DEF r
<1>3. LET q == [r EXCEPT !.last = 0, !.lastDur = 0] IN q \in MediaStreamContext /\ q.last = 0
  BY <1>1 DEF MediaStreamContext
<1>. QED  BY <1>1, <1>2, <1>3 DEF r

LEMMA SelectedPlace ==
    ASSUME NEW T, NEW m \in Tracks, T[m] \in MediaStreamContext, NEW p
    PROVE  LET q == StreamSelection(T, p)[m]
           IN  q \in MediaStreamContext /\ q.last = T[m].last
<1>. DEFINE r == T[m]
            on == m = "video" \/ HasAudio(p)
            c == r.profileChanged \/ on
<1>1. r \in MediaStreamContext /\ on \in BOOLEAN /\ c \in BOOLEAN
  BY DEF HasAudio
<1>2. StreamSelection(T, p)[m] = [r EXCEPT !.enabled = on, !.profileChanged = c]
  <2>1. StreamSelection(T, p)[m] = [r EXCEPT !.enabled = on, !.profileChanged = @ \/ on]
    BY DEF StreamSelection
  <2>. HIDE DEF r, on
  <2>. QED  BY <1>1, <2>1 DEF MediaStreamContext
<1>. HIDE DEF r, on, c
<1>. QED  BY <1>1, <1>2 DEF MediaStreamContext, r

LEMMA UpdatedPlace ==
    ASSUME stream \in Streams, NEW T, NEW m \in Tracks, T[m] \in MediaStreamContext
    PROVE  LET q == UpdateTrackInfo(T)[m]
           IN  /\ q \in MediaStreamContext /\ q.enabled = T[m].enabled
               /\ q.last = T[m].last /\ q.lastDur = T[m].lastDur
               /\ q.enabled => q.row = 1 /\ q.rep = 0 /\ q.time = 0
<1>. DEFINE r == T[m]
            f == [r EXCEPT !.row = 1, !.rep = 0, !.time = 0, !.eos = FALSE]
<1>1. r \in MediaStreamContext
  OBVIOUS
<1>2. UpdateTrackInfo(T)[m] = IF r.enabled THEN f ELSE r
  BY DEF UpdateTrackInfo
<1>3. 1 \in 1..Len(stream.segs) + 1 /\ 0 \in 0..Len(stream.segs) + 1
  BY StreamFields
<1>. HIDE DEF r
<1>4. /\ f \in MediaStreamContext /\ f.enabled = r.enabled
      /\ f.last = r.last /\ f.lastDur = r.lastDur
      /\ f.row = 1 /\ f.rep = 0 /\ f.time = 0
  BY <1>1, <1>3 DEF MediaStreamContext
<1>. HIDE DEF f
<1>. QED  BY <1>1, <1>2, <1>4 DEF r

LEMMA EnteredPlaces ==
    ASSUME TypeInv, EnterPeriod, NEW m \in Tracks, ~track[m].enabled => track[m].last = 0
    PROVE  LET moved == currentPeriodId # PeriodAt(mpd, iPeriod)
               q == track'[m]
           IN  /\ q.enabled => q.row = 1 /\ q.rep = 0 /\ q.time = 0
               /\ moved => q.last = 0
               /\ ~moved => /\ q.enabled = track[m].enabled
                            /\ q.last = track[m].last /\ q.lastDur = track[m].lastDur
<1>. DEFINE p == PeriodAt(mpd, iPeriod)
            moved == currentPeriodId # p
            cleared == IF moved THEN StreamSelection(ForgetLastSegment(track), p) ELSE track
            updated == UpdateTrackInfo(cleared)
            u == updated[m]
            found == moved /\ IsDiscontinuity(p)
            q == track'[m]
<1>1. stream \in Streams /\ track \in [Tracks -> MediaStreamContext]
  BY DEF TypeInv, Fetching
<1>2. /\ cleared[m] \in MediaStreamContext
      /\ moved => cleared[m].last = 0
      /\ ~moved => cleared[m] = track[m]
  <2>1. CASE moved
    BY <1>1, <2>1, ForgottenPlace, SelectedPlace
  <2>2. CASE ~moved
    BY <1>1, <2>2
  <2>. QED  BY <2>1, <2>2
<1>3. /\ u \in MediaStreamContext /\ u.enabled = cleared[m].enabled
      /\ u.last = cleared[m].last /\ u.lastDur = cleared[m].lastDur
      /\ u.enabled => u.row = 1 /\ u.rep = 0 /\ u.time = 0
  <2>. HIDE DEF cleared
  <2>1. u \in MediaStreamContext /\ u.last = cleared[m].last /\ u.lastDur = cleared[m].lastDur
    BY <1>1, <1>2, UpdatedPlace
  <2>2. u.enabled = cleared[m].enabled
    BY <1>1, <1>2, UpdatedPlace
  <2>3. u.enabled => u.row = 1 /\ u.rep = 0 /\ u.time = 0
    BY <1>1, <1>2, UpdatedPlace
  <2>. HIDE DEF u
  <2>. QED  BY <2>1, <2>2, <2>3
<1>4. q = [u EXCEPT !.discontinuity = @ \/ (found /\ u.enabled)]
  BY DEF EnterPeriod
<1>. HIDE DEF cleared, u, found, q, moved
<1>5. SamePlace(u, q)
  BY <1>3, <1>4 DEF SamePlace, MediaStreamContext
<1>6. q.enabled => q.row = 1 /\ q.rep = 0 /\ q.time = 0
  BY <1>3, <1>5 DEF SamePlace
<1>7. moved => q.last = 0
  <2>1. q.last = u.last
    BY <1>5 DEF SamePlace
  <2>2. u.last = cleared[m].last
    BY <1>3
  <2>. QED  BY <1>2, <2>1, <2>2
<1>8. ~moved => q.enabled = track[m].enabled /\ q.last = track[m].last
                /\ q.lastDur = track[m].lastDur
  BY <1>2, <1>3, <1>5 DEF SamePlace
<1>. QED  BY <1>6, <1>7, <1>8 DEF q, moved

LEMMA EnterPeriodOrderly ==
    ASSUME TimesAscend, TypeInv, TypeInv', Onward, Orderly, EnterPeriod
    PROVE  Onward' /\ Orderly'
<1>. DEFINE p == PeriodAt(mpd, iPeriod)
            moved == currentPeriodId # p
<1>1. /\ UNCHANGED <<stream, mpd, iPeriod>> /\ pc = "period" /\ currentPeriodId' = p
      /\ pc' \in {"init", "audio"}
  BY DEF EnterPeriod, FetchInitialization
<1>2. p \in Nat /\ currentPeriodId \in Nat /\ currentPeriodId <= p
  <2>1. p \in Periods
    BY <1>1 DEF TypeInv, InPeriods, Periods, Seg
  <2>. QED  BY <1>1, <2>1 DEF Onward, TypeInv, InPeriods, Periods
<1>3. Onward'
  <2>1. PeriodAt(mpd, iPeriod)' = p
    BY <1>1 DEF PeriodAt, FirstPeriod, Seg
  <2>. QED  BY <1>1, <2>1 DEF Onward
<1>4. ~moved => stream.live
  BY <1>1, <1>2 DEF Onward
<1>5. \A m \in Tracks : delivered'[m].seg = delivered[m].seg /\ delivered'[m].wrong = delivered[m].wrong
  <2>. DEFINE e(m) == delivered[m].due
                        \/ ((moved /\ IsDiscontinuity(p)) /\ track'[m].enabled)
  <2>1. \A m \in Tracks : delivered[m] \in Delivered
    BY DEF TypeInv, Fetching
  <2>2. delivered' = [m \in Tracks |->
          [delivered[m] EXCEPT !.due = @ \/ ((moved /\ IsDiscontinuity(p)) /\ track'[m].enabled)]]
    BY EnteredTracks
  <2>. HIDE DEF moved
  <2>. QED  BY <2>1, <2>2 DEF Delivered
<1>6. ASSUME NEW m \in Tracks
      PROVE  LET d == delivered[m].seg
                 q == track'[m]
             IN  /\ d # 0 => Seg(d).p <= p
                 /\ q.last # 0 => d # 0 /\ Seg(d).p = p /\ Seg(d).t = q.last
                 /\ ~q.enabled => q.last = 0
                 /\ stream.live /\ q.enabled /\ q.last = 0 /\ d # 0 /\ Seg(d).p = p
                      => q.lastDur # 0 /\ Seg(d).t = 0
                 /\ q.enabled /\ q.last = 0 /\ d # 0 /\ Seg(d).p = p
                      => Beyond(q, Timeline(mpd, p), Seg(d).t)
                 /\ q.enabled => q.rep = 0
  <2>. DEFINE d == delivered[m].seg
              q == track'[m]
              r == track[m]
  <2>1. /\ Known(r, d) /\ (d # 0 => Seg(d).p \in Nat) /\ d \in {0} \cup Segments
    <3>1. d \in {0} \cup Segments
      BY DEF TypeInv, Fetching, Delivered
    <3>. QED  BY <3>1, StreamFields DEF Orderly, TypeInv
  <2>2. d # 0 => Seg(d).p <= currentPeriodId
    BY <2>1 DEF Known
  <2>3. /\ q.enabled => q.row = 1 /\ q.rep = 0 /\ q.time = 0
        /\ moved => q.last = 0
        /\ ~moved => q.enabled = r.enabled /\ q.last = r.last /\ q.lastDur = r.lastDur
    BY <2>1, EnteredPlaces DEF Known
  <2>. HIDE DEF d, q, r, moved
  <2>4. CASE moved
    <3>1. currentPeriodId < p
      BY <1>2, <2>4 DEF moved
    <3>2. d # 0 => Seg(d).p < p
      BY <1>2, <2>1, <2>2, <3>1
    <3>. QED  BY <1>2, <2>1, <2>3, <2>4, <3>2 DEF d, q
  <2>5. CASE ~moved
    <3>1. p = currentPeriodId /\ stream.live
      BY <1>4, <2>5 DEF moved
    <3>2. ASSUME q.enabled, q.last = 0, d # 0, Seg(d).p = p
          PROVE  Beyond(q, Timeline(mpd, p), Seg(d).t)
      <4>1. q.row = 1 /\ q.rep = 0 /\ q.time = 0 /\ q.lastDur # 0 /\ Seg(d).t = 0
        BY <2>1, <2>3, <2>5, <3>1, <3>2 DEF Known
      <4>. DEFINE tl == Timeline(mpd, p)
      <4>2. /\ p \in FirstPeriod(mpd)..LastPeriod(mpd) /\ Window(mpd) /\ TimelineOK(tl)
        <5>1. /\ FirstPeriod(mpd)' = FirstPeriod(mpd) /\ LastPeriod(mpd)' = LastPeriod(mpd)
          BY <1>1 DEF FirstPeriod, LastPeriod, Seg
        <5>2. FirstPeriod(mpd) <= p /\ p <= LastPeriod(mpd)
          BY <1>1, <5>1 DEF TypeInv, InPeriods
        <5>3. FirstPeriod(mpd) \in Nat /\ LastPeriod(mpd) \in Nat /\ Window(mpd)
          BY PeriodCounts DEF TypeInv, Windows, Periods
        <5>. QED  BY <1>2, <5>2, <5>3, TimelineType DEF TypeInv
      <4>3. ASSUME NEW j \in 1 + 1..Len(tl) PROVE tl[j].t > 0
        <5>1. Len(tl) \in Nat /\ 1 \in 1..Len(tl) /\ j \in 1..Len(tl) /\ 1 < j
          BY <4>2 DEF TimelineOK
        <5>2. tl[1].t < tl[j].t
          BY <4>2, <5>1, RowsAscend DEF TypeInv
        <5>3. tl[1].t \in Nat /\ tl[j].t \in Nat
          BY <4>2, <5>1, OneTimeline DEF TypeInv
        <5>. QED  BY <5>2, <5>3
      <4>. QED  BY <3>1, <4>1, <4>3 DEF Beyond
    <3>. QED  BY <2>1, <2>3, <2>5, <3>1, <3>2 DEF Known, d, q
  <2>. QED  BY <2>4, <2>5
<1>7. Orderly'
  <2>. HIDE DEF p
  <2>1. Timeline(mpd, currentPeriodId)' = Timeline(mpd, p)
    BY <1>1 DEF Timeline, InPeriod, Seg
  <2>2. ASSUME NEW m \in Tracks PROVE Known(track[m], delivered[m].seg)'
    BY <1>1, <1>5, <1>6 DEF Known, Seg
  <2>3. ASSUME NEW m \in Tracks PROVE Ahead(track[m], delivered[m].seg)'
    BY <1>1, <1>5, <1>6, <2>1 DEF Ahead, GoesOn, Beyond, Seg
  <2>. QED  BY <1>5, <2>2, <2>3 DEF Orderly
<1>. QED  BY <1>3, <1>7

\* A step inside a period.
LEMMA OnwardInside ==
    ASSUME Onward, Fetches, Fetches', UNCHANGED <<stream, mpd, iPeriod, currentPeriodId>>
    PROVE  Onward'
<1>1. PeriodAt(mpd, iPeriod)' = PeriodAt(mpd, iPeriod)
  BY DEF PeriodAt, FirstPeriod, Seg
<1>. QED  BY <1>1 DEF Onward, Fetches

\* A step that leaves the collector alone.
LEMMA OnwardSame ==
    ASSUME Onward, pc' \in {pc, "done"}, UNCHANGED <<stream, mpd, iPeriod, currentPeriodId>>
    PROVE  Onward'
<1>1. PeriodAt(mpd, iPeriod)' = PeriodAt(mpd, iPeriod)
  BY DEF PeriodAt, FirstPeriod, Seg
<1>. QED  BY <1>1 DEF Onward, Fetches

LEMMA FetchInitOrderly ==
    ASSUME TypeInv, Onward, Orderly, FetchInit
    PROVE  Onward' /\ Orderly'
<1>1. /\ pc = "init" /\ UNCHANGED <<stream, mpd, iPeriod, currentPeriodId>>
      /\ pc' \in {"init", "audio", "video", "check"}
  BY DEF FetchInit, FetchInitialization, period, TypeInv, Place
<1>2. PICK m \in Tracks : \E url : InitNoRoom(m) \/ InitSame(m, url) \/ InitCached(m, url)
                                     \/ InitFails(m, url)
  BY DEF FetchInit, TypeInv, Place
<1>. PICK url : InitNoRoom(m) \/ InitSame(m, url) \/ InitCached(m, url) \/ InitFails(m, url)
  BY <1>2
<1>3. /\ track \in [Tracks -> MediaStreamContext]
      /\ delivered \in [Tracks -> Delivered]
  BY DEF TypeInv, Fetching
<1>4. CASE InitNoRoom(m)
  BY <1>1, <1>4, OnwardInside, OrderlySame DEF InitNoRoom, Fetches, SamePlace
<1>5. CASE InitSame(m, url)
  <2>1. track' = [track EXCEPT ![m].profileChanged = FALSE] /\ delivered' = delivered
    BY <1>5 DEF InitSame
  <2>2. \A k \in Tracks : SamePlace(track[k], track'[k])
    BY <1>3, <2>1 DEF SamePlace, MediaStreamContext
  <2>. QED  BY <1>1, <2>1, <2>2, OnwardInside, OrderlySame DEF Fetches
<1>. DEFINE q == Requested(track[m], url)
<1>6. SamePlace(track[m], q) /\ DOMAIN q = DOMAIN track[m]
  BY <1>3 DEF SamePlace, Requested, MediaStreamContext
<1>7. CASE InitCached(m, url)
  <2>1. /\ Cached(m, q, 0)
        /\ delivered' = [delivered EXCEPT ![m].init = url,
                                          ![m].due = @ /\ ~track[m].discontinuity]
    BY <1>7 DEF InitCached
  <2>. HIDE DEF q
  <2>2. track' = [track EXCEPT ![m] = [q EXCEPT !.failCount = 0, !.ring = Append(@, 0)]]
    BY <2>1 DEF Cached
  <2>3. \A k \in Tracks : SamePlace(track[k], track'[k])
    BY <1>3, <1>6, <2>2 DEF SamePlace, MediaStreamContext
  <2>4. \A k \in Tracks : /\ delivered'[k].seg = delivered[k].seg
                          /\ delivered'[k].wrong = delivered[k].wrong
    BY <1>3, <2>1 DEF Delivered
  <2>. QED  BY <1>1, <2>3, <2>4, OnwardInside, OrderlySame DEF Fetches
<1>8. CASE InitFails(m, url)
  <2>1. /\ NotCached(m, TRUE, q, q)
        /\ delivered' = [delivered EXCEPT ![m].due = @ /\ ~track[m].discontinuity,
                                          ![m].lost = @ \cup BeforeFirst(m)]
    BY <1>8 DEF InitFails
  <2>. HIDE DEF q
  <2>2. PICK a, b : track' = [track EXCEPT ![m] =
                       [q EXCEPT !.failCount = a, !.skipOnError = b,
                                 !.profileChanged = @ \/ RampsDown(m)]]
    BY <2>1 DEF NotCached
  <2>3. \A k \in Tracks : SamePlace(track[k], track'[k])
    BY <1>3, <1>6, <2>2 DEF SamePlace, MediaStreamContext
  <2>4. \A k \in Tracks : /\ delivered'[k].seg = delivered[k].seg
                          /\ delivered'[k].wrong = delivered[k].wrong
    BY <1>3, <2>1 DEF Delivered
  <2>. QED  BY <1>1, <2>3, <2>4, OnwardInside, OrderlySame DEF Fetches
<1>. QED  BY <1>2, <1>4, <1>5, <1>7, <1>8

LEMMA FetchTrackOrderly ==
    ASSUME TimesAscend, TypeInv, Onward, Orderly, NEW m \in Tracks, FetchTrack(m)
    PROVE  Onward' /\ Orderly'
<1>1. /\ pc = m /\ UNCHANGED <<stream, mpd, iPeriod, currentPeriodId>>
      /\ pc' \in {"init", "video", "check"}
  BY DEF FetchTrack, FetchInitialization, AfterTrack, period, Tracks
<1>2. Fetches /\ Fetches'
  BY <1>1 DEF Fetches, Tracks
<1>3. Onward'
  BY <1>1, <1>2, OnwardInside
<1>4. CASE UNCHANGED <<track, delivered>>
  <2>1. \A k \in Tracks : /\ SamePlace(track[k], track'[k])
                          /\ delivered'[k].seg = delivered[k].seg
                          /\ delivered'[k].wrong = delivered[k].wrong
    BY <1>4 DEF SamePlace
  <2>. QED  BY <1>1, <1>2, <1>3, <2>1, OrderlySame
<1>5. CASE track[m].enabled /\ PushNextFragment(m)
  <2>1. /\ Window(mpd) /\ currentPeriodId \in FirstPeriod(mpd)..LastPeriod(mpd)
    <3>1. currentPeriodId \in Nat /\ FirstPeriod(mpd) \in Nat /\ LastPeriod(mpd) \in Nat
      BY PeriodCounts DEF TypeInv, InPeriods, Periods, Windows
    <3>2. FirstPeriod(mpd) <= currentPeriodId /\ currentPeriodId <= LastPeriod(mpd)
      BY <1>2 DEF TypeInv, InPeriods, Fetches
    <3>. QED  BY <3>1, <3>2 DEF TypeInv, Windows
  <2>2. GoneOn(m)
    BY <1>2, <1>5, <2>1, PushGoesOn DEF TypeInv, Orderly
  <2>3. ASSUME NEW k \in Tracks
        PROVE  /\ "order" \notin delivered'[k].wrong
               /\ Known(track'[k], delivered'[k].seg) /\ Ahead(track'[k], delivered'[k].seg)
    <3>1. CASE k = m
      BY <2>2, <3>1 DEF GoneOn, Orderly
    <3>2. CASE k # m
      <4>1. /\ Known(track[k], delivered[k].seg) /\ Ahead(track[k], delivered[k].seg)
            /\ "order" \notin delivered[k].wrong
        BY <1>2 DEF Orderly
      <4>2. /\ SamePlace(track[k], track'[k]) /\ delivered'[k].seg = delivered[k].seg
            /\ delivered'[k].wrong = delivered[k].wrong
        BY <2>2, <3>2 DEF GoneOn
      <4>. QED  BY <4>1, <4>2, SamePlaceKeeps
    <3>. QED  BY <3>1, <3>2
  <2>. QED  BY <1>1, <1>3, <2>3, OrderlyNext
<1>6. \/ UNCHANGED <<track, delivered>>
      \/ track[m].enabled /\ PushNextFragment(m)
  BY DEF FetchTrack
<1>. QED  BY <1>3, <1>4, <1>5, <1>6

LEMMA CheckEosOrderly ==
    ASSUME TypeInv, Onward, Orderly, CheckEos
    PROVE  Onward' /\ Orderly'
<1>1. /\ pc = "check" /\ UNCHANGED <<stream, mpd, currentPeriodId, delivered>>
      /\ \/ pc' = "period" /\ iPeriod' = iPeriod + 1
         \/ pc' = "audio" /\ iPeriod' = iPeriod
  BY DEF CheckEos
<1>2. \A m \in Tracks : SamePlace(track[m], track'[m])
  BY DEF CheckEos, TypeInv, Fetching, SamePlace, MediaStreamContext
<1>3. Orderly'
  BY <1>1, <1>2, OrderlySame DEF Fetches
<1>4. CASE pc' = "audio" /\ iPeriod' = iPeriod
  BY <1>1, <1>3, <1>4, OnwardInside DEF Fetches
<1>5. CASE pc' = "period" /\ iPeriod' = iPeriod + 1
  <2>1. FirstPeriod(mpd)' = FirstPeriod(mpd) /\ FirstPeriod(mpd) \in Nat
    BY <1>1, PeriodCounts DEF FirstPeriod, Seg, TypeInv, Windows, Periods
  <2>2. iPeriod \in Nat /\ currentPeriodId \in Nat
    BY PeriodCounts DEF TypeInv, InPeriods, Windows, Periods
  <2>3. PeriodAt(mpd, iPeriod)' = currentPeriodId + 1
    BY <1>1, <1>5, <2>1, <2>2 DEF PeriodAt, Onward, Fetches
  <2>4. Onward'
    BY <1>1, <1>5, <2>2, <2>3 DEF Onward, Fetches
  <2>. QED  BY <1>3, <2>4
<1>. QED  BY <1>1, <1>4, <1>5

LEMMA SkipEmptyPeriodOrderly ==
    ASSUME TypeInv, Onward, Orderly, SkipEmptyPeriod
    PROVE  Onward' /\ Orderly'
<1>1. /\ pc = "period" /\ pc' = pc /\ iPeriod' = iPeriod + 1
      /\ UNCHANGED <<stream, mpd, currentPeriodId, track, delivered>>
  BY DEF SkipEmptyPeriod, control
<1>2. FirstPeriod(mpd)' = FirstPeriod(mpd) /\ FirstPeriod(mpd) \in Nat
  BY <1>1, PeriodCounts DEF FirstPeriod, Seg, TypeInv, Windows, Periods
<1>3. iPeriod \in Nat /\ currentPeriodId \in Nat
  BY PeriodCounts DEF TypeInv, InPeriods, Windows, Periods
<1>4. PeriodAt(mpd, iPeriod)' = PeriodAt(mpd, iPeriod) + 1 /\ PeriodAt(mpd, iPeriod) \in Int
  BY <1>1, <1>2, <1>3 DEF PeriodAt
<1>5. Onward'
  BY <1>1, <1>3, <1>4 DEF Onward, Fetches
<1>6. Orderly'
  BY <1>1, OrderlySame DEF Fetches, SamePlace
<1>. QED  BY <1>5, <1>6

\* The period looked up in another manifest is not one before it.
LEMMA ReselectOnward ==
    ASSUME stream \in Streams, NEW w, Window(w), mBasePeriodId \in Periods,
           mBasePeriodId <= LastPeriod(w)
    PROVE  PeriodAt(w, Reselect(w)) >= mBasePeriodId
<1>. DEFINE f == FirstPeriod(w)
            l == LastPeriod(w)
            b == mBasePeriodId
            c == PeriodCount(w)
            known == {i \in 1..c : PeriodAt(w, i) = b}
<1>1. f \in Nat /\ l \in Nat /\ b \in Nat /\ c \in Nat \ {0} /\ l + 1 - f <= c /\ b <= l
  BY PeriodCounts DEF Periods
<1>2. CASE known # {}
  <2>1. known \subseteq Nat
    OBVIOUS
  <2>2. Min(known) \in known
    <3>. HIDE DEF known
    <3>. QED  BY <1>2, <2>1, MinIn
  <2>3. PeriodAt(w, Reselect(w)) = b
    BY <1>2, <2>2 DEF Reselect
  <2>. QED  BY <1>1, <2>3
<1>3. CASE known = {}
  <2>1. ~(f <= b)
    <3>1. SUFFICES ASSUME f <= b PROVE FALSE
      OBVIOUS
    <3>2. b + 1 - f \in 1..c /\ f + (b + 1 - f) - 1 = b
      <4>. HIDE DEF f, l, b, c
      <4>. QED  BY <1>1, <3>1
    <3>3. PeriodAt(w, b + 1 - f) = b
      BY <3>2 DEF PeriodAt
    <3>. QED  BY <1>3, <3>2, <3>3
  <2>2. PeriodAt(w, Reselect(w)) = f + 1 - 1
    BY <1>3 DEF Reselect, PeriodAt
  <2>. HIDE DEF f, b
  <2>. QED  BY <1>1, <2>1, <2>2 DEF b
<1>. QED  BY <1>2, <1>3

LEMMA RefreshOrderly ==
    ASSUME TypeInv, Onward, Orderly, UpdateMPD \/ UpdateMPDFails
    PROVE  Onward' /\ Orderly'
<1>1. /\ pc = "refresh" /\ UNCHANGED <<stream, mBasePeriodId, currentPeriodId, track, delivered>>
      /\ pc' \in {"period", "done"} /\ (pc' = "period" => iPeriod' = Reselect(mpd'))
  BY DEF UpdateMPD, UpdateMPDFails, Reselect, PeriodCount, PeriodAt, FirstPeriod, LastPeriod,
         Seg, Periods
<1>2. stream.live /\ mBasePeriodId = currentPeriodId
  BY <1>1 DEF Onward, TypeInv, InPeriods
<1>3. Orderly'
  BY <1>1, OrderlySame DEF Fetches, SamePlace
<1>4. Window(mpd') /\ LastPeriod(mpd) <= LastPeriod(mpd')
      /\ LastPeriod(mpd) \in Nat /\ LastPeriod(mpd') \in Nat
  <2>1. CASE UpdateMPD
    <3>1. Window(mpd')
      BY <1>1, <2>1, UpdateMPDWindows DEF Windows, Window, Segments
    <3>. QED  BY <2>1, <3>1, UpdateMPDWindows, PeriodCounts DEF TypeInv, Windows, Periods
  <2>2. CASE UpdateMPDFails
    <3>1. mpd' = mpd
      BY <2>2 DEF UpdateMPDFails
    <3>. QED  BY <3>1, PeriodCounts DEF TypeInv, Windows, Periods
  <2>. QED  BY <2>1, <2>2
<1>5. PeriodAt(mpd', Reselect(mpd')) >= currentPeriodId
  <2>1. mBasePeriodId \in Periods /\ mBasePeriodId <= LastPeriod(mpd) /\ mBasePeriodId \in Nat
    BY DEF TypeInv, InPeriods, Periods
  <2>2. mBasePeriodId <= LastPeriod(mpd')
    BY <1>4, <2>1
  <2>. QED  BY <1>2, <1>4, <2>1, <2>2, ReselectOnward DEF TypeInv
<1>6. pc' = "period" => PeriodAt(mpd, iPeriod)' = PeriodAt(mpd', Reselect(mpd'))
  BY <1>1 DEF PeriodAt, FirstPeriod, Seg
<1>7. Onward'
  BY <1>1, <1>2, <1>5, <1>6 DEF Onward, Fetches
<1>. QED  BY <1>3, <1>7

\* The other steps.
LEMMA OthersOrderly ==
    ASSUME TypeInv, Onward, Orderly,
           \/ RefreshDue \/ CollectorStops \/ PeriodsEnd
           \/ (\E m \in Tracks : InjectFragment(m))
           \/ FirstFrame \/ Stop \/ Publish \/ UNCHANGED vars
    PROVE  Onward' /\ Orderly'
<1>1. UNCHANGED <<stream, mpd, iPeriod, currentPeriodId, delivered>>
  BY DEF RefreshDue, CollectorStops, PeriodsEnd, InjectFragment, FirstFrame, Stop, Publish,
         vars, period
<1>2. \A m \in Tracks : SamePlace(track[m], track'[m])
  <2>1. CASE track' = track
    BY <2>1 DEF SamePlace
  <2>2. CASE \E m \in Tracks : InjectFragment(m)
    <3>1. PICK k \in Tracks : track' = [track EXCEPT ![k].ring = Tail(@)]
      BY <2>2 DEF InjectFragment
    <3>2. track \in [Tracks -> MediaStreamContext]
      BY DEF TypeInv, Fetching
    <3>. QED  BY <3>1, <3>2 DEF SamePlace, MediaStreamContext
  <2>3. track' = track \/ \E m \in Tracks : InjectFragment(m)
    BY DEF RefreshDue, CollectorStops, PeriodsEnd, FirstFrame, Stop, Publish, vars
  <2>. QED  BY <2>1, <2>2, <2>3
<1>3. pc' \in {pc, "done"} \/ (pc' = "refresh" /\ mpd.live)
  BY DEF RefreshDue, CollectorStops, PeriodsEnd, InjectFragment, FirstFrame, Stop, Publish,
         vars, control
<1>4. Orderly'
  BY <1>1, <1>2, <1>3, OrderlySame DEF Fetches
<1>5. Onward'
  <2>1. CASE pc' \in {pc, "done"}
    BY <1>1, <2>1, OnwardSame
  <2>2. CASE pc' = "refresh" /\ mpd.live
    BY <1>1, <2>2 DEF Onward, Fetches
  <2>. QED  BY <1>3, <2>1, <2>2
<1>. QED  BY <1>4, <1>5

LEMMA InitOrderly ==
    ASSUME TimesAscend, Init
    PROVE  Onward /\ Orderly
<1>. DEFINE i == stream.start
            p == Seg(i).p
<1>1. /\ stream \in Streams /\ pc = "init" /\ iPeriod = p /\ currentPeriodId = p
      /\ mpd = [first |-> 1, last |-> stream.initial, live |-> stream.live]
      /\ \A m \in Tracks : delivered[m].seg = 0 /\ delivered[m].wrong = {}
  BY DEF Init
<1>2. TypeInv
  BY InitType
<1>3. i \in Segments /\ p \in Nat /\ i <= stream.initial /\ Window(mpd) /\ mpd.first = 1
      /\ mpd.last = stream.initial
  <2>1. i \in Segments /\ p \in Nat /\ i <= stream.initial
    BY <1>1, StreamFields
  <2>2. Window(mpd)
    BY <1>2 DEF TypeInv, Windows
  <2>. QED  BY <1>1, <2>1, <2>2
<1>4. PeriodAt(mpd, iPeriod) = currentPeriodId
  <2>1. FirstPeriod(mpd) = 1
    BY <1>1, <1>3, Sequence DEF FirstPeriod
  <2>. HIDE DEF p
  <2>. QED  BY <1>1, <1>3, <2>1 DEF PeriodAt
<1>5. Onward
  BY <1>1, <1>4 DEF Onward, Fetches
<1>6. ASSUME NEW m \in Tracks PROVE Known(track[m], 0) /\ Ahead(track[m], 0)
  <2>1. track[m] \in MediaStreamContext /\ track[m].last = 0
        /\ (track[m].enabled => track[m].row = Seg(i).row /\ track[m].time = Seg(i).t)
    <3>1. track[m] \in MediaStreamContext
      BY <1>2 DEF TypeInv, Fetching
    <3>. QED  BY <3>1 DEF Init
  <2>2. Known(track[m], 0)
    <3>. HIDE DEF p, i
    <3>. QED  BY <1>1, <2>1 DEF Known
  <2>3. ASSUME track[m].enabled PROVE InTimeline(track[m])
    <3>1. Seg(i).t <= track[m].time
      BY <1>1, <1>3, <2>1, <2>3, StreamFields
    <3>. QED  BY <1>1, <1>3, <3>1 DEF InTimeline
  <2>. QED  BY <2>1, <2>2, <2>3 DEF Ahead, GoesOn
<1>7. Orderly
  BY <1>1, <1>6 DEF Orderly
<1>. QED  BY <1>5, <1>7

LEMMA NextOrderly ==
    TimesAscend /\ TypeInv /\ TypeInv' /\ Onward /\ Orderly /\ [Next]_vars => Onward' /\ Orderly'
<1>. SUFFICES ASSUME TimesAscend, TypeInv, TypeInv', Onward, Orderly, [Next]_vars
              PROVE  Onward' /\ Orderly'
  OBVIOUS
<1>1. CASE FetchInit
  BY <1>1, FetchInitOrderly
<1>2. CASE FetchTrack("audio") \/ FetchTrack("video")
  BY <1>2, FetchTrackOrderly DEF Tracks
<1>3. CASE CheckEos
  BY <1>3, CheckEosOrderly
<1>4. CASE SkipEmptyPeriod
  BY <1>4, SkipEmptyPeriodOrderly
<1>5. CASE EnterPeriod
  BY <1>5, EnterPeriodOrderly
<1>6. CASE UpdateMPD \/ UpdateMPDFails
  BY <1>6, RefreshOrderly
<1>7. CASE \/ RefreshDue \/ CollectorStops \/ PeriodsEnd \/ (\E m \in Tracks : InjectFragment(m))
           \/ FirstFrame \/ Stop \/ Publish \/ UNCHANGED vars
  BY <1>7, OthersOrderly
<1>8. CASE Done
  BY <1>8, OthersOrderly DEF Done
<1>. QED  BY <1>1, <1>2, <1>3, <1>4, <1>5, <1>6, <1>7, <1>8 DEF Next, Collector

\* No segment is given to a ring twice or after a later one, whatever is refreshed, culled,
\* skipped or lost, for every stream whose periods keep ascending times, wherever in it
\* playback starts.
THEOREM MpdInOrder ==
  ASSUME TimesAscend
  PROVE  Spec => []InOrder
<1>1. Init => TypeInv /\ Onward /\ Orderly
  BY InitType, InitOrderly
<1>2. TypeInv /\ Onward /\ Orderly /\ [Next]_vars => (TypeInv /\ Onward /\ Orderly)'
  BY NextType, NextOrderly
<1>3. TypeInv /\ Onward /\ Orderly => InOrder
  BY TypeInvTypeOK DEF InOrder, NeverWrong, Orderly
<1>. QED  BY <1>1, <1>2, <1>3, PTL DEF Spec
=============================================================================
