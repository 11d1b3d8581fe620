--------------------------- MODULE AdBreaksProofs ---------------------------
(* Ads in a live DASH stream (AdBreaks), for every stream, manifest and      *)
(* schedule of requests: placements are reported in pairs, the break that is *)
(* played stays there, and a failure costs no ad but the one that failed or  *)
(* the one behind it.  One section each; facts about manifests and about the *)
(* placement of ads come before the invariants that need them.               *)
EXTENDS AdBreaks, FiniteSetTheorems, TLAPS

-----------------------------------------------------------------------------
(* What is reported of placements.                                           *)

AdStates == {"outside", "not_playing", "playing", "wait"}
DaiFields ==
  {"mAdState", "mCurPlayingBreakId", "mCurAdIdx", "mCurAds", "mContentSeekOffset", "mAdFailed"}
DaiOK(d) == DaiFields \subseteq DOMAIN d /\ d.mAdState \in AdStates
HistoryOK(h) ==
  {"last", "adTime", "again", "failed", "reservation", "placement", "wrong"} \subseteq DOMAIN h

\* The report of a placement is open exactly while an ad is played.
Paired(h, d) ==
  /\ HistoryOK(h) /\ "placement" \notin h.wrong
  /\ h.placement = IF d.mAdState = "playing" THEN 1 ELSE 0

\* What event e of state d says of a placement is what it does.
Tells(d, e) ==
  /\ DaiOK(e.dai)
  /\ e.changed \in BOOLEAN
  /\ ~e.changed => e.dai.mAdState = d.mAdState
  /\ e.changed =>
       /\ e.placement = "start" =>
            d.mAdState # "playing" /\ e.dai.mAdState = "playing" /\ e.reservation # "end"
       /\ e.placement = "end" =>
            d.mAdState = "playing" /\ e.dai.mAdState # "playing" /\ e.reservation # "end"
       /\ e.placement \notin {"start", "end"} =>
            (d.mAdState = "playing" <=> e.dai.mAdState = "playing")
       /\ e.reservation = "end" => d.mAdState # "playing"

\* A report that is true keeps the pairs.
LEMMA ReportPairs ==
    ASSUME NEW h, NEW d, NEW e, Paired(h, d), Tells(d, e)
    PROVE  Paired(Report(h, e), e.dai)
<1>1. CASE ~e.changed
  BY <1>1 DEF Report, Paired, Tells
<1>2. CASE e.changed
  <2>1. Report(h, e).placement =
          IF e.placement = "start" THEN 1 ELSE IF e.placement = "end" THEN 0 ELSE h.placement
    BY <1>2 DEF Report, Paired, HistoryOK
  <2>2. HistoryOK(Report(h, e))
    BY <1>2 DEF Report, Paired, HistoryOK
  <2>3. ~(e.placement = "start" /\ h.placement # 0) /\ ~(e.placement = "end" /\ h.placement = 0)
          /\ ~(e.reservation = "end" /\ h.placement # 0)
    BY <1>2 DEF Paired, Tells
  <2>4. "placement" \notin Report(h, e).wrong
    BY <1>2, <2>3 DEF Report, Paired, HistoryOK
  <2>. QED  BY <1>2, <2>1, <2>2, <2>4 DEF Paired, Tells
<1>. QED  BY <1>1, <1>2 DEF Tells

LEMMA ReportFields ==
    ASSUME NEW h, NEW e, HistoryOK(h)
    PROVE  /\ HistoryOK(Report(h, e))
           /\ Report(h, e).failed = h.failed
BY DEF HistoryOK, Report

\* The events of onAdEvent do.
LEMMA PlayingState ==
    ASSUME NEW d, DaiOK(d), NEW b, NEW k
    PROVE  /\ DaiOK(Playing(d, b, k)) /\ Playing(d, b, k).mAdState = "playing"
           /\ Playing(d, b, k).mCurAds = b /\ Playing(d, b, k).mCurAdIdx = k
           /\ Playing(d, b, k).mCurPlayingBreakId = d.mCurPlayingBreakId
           /\ Playing(d, b, k).mAdFailed = d.mAdFailed
           /\ DaiOK(Outside(d)) /\ Outside(d).mAdState = "outside"
           /\ Outside(d).mAdFailed = d.mAdFailed
BY DEF DaiOK, DaiFields, Playing, Outside, AdStates

LEMMA PeriodChangeTells ==
    ASSUME DaiOK(dai), NEW p, NEW off, NEW huge
    PROVE  Tells(dai, PeriodChange(p, off, huge))
<1>. DEFINE e == PeriodChange(p, off, huge)
<1>1. Tells(dai, Unchanged)
  BY DEF Tells, Unchanged
<1>2. CASE dai.mAdState = "outside"
  <2>. DEFINE s == CheckForAdStart(p, off, huge)
              d == [dai EXCEPT !.mCurPlayingBreakId = s.brk, !.mAdState = "not_playing"]
  <2>1. DaiOK(d) /\ d.mAdState = "not_playing"
    BY DEF DaiOK, DaiFields, AdStates
  <2>2. DaiOK(Playing(d, s.brk, s.adIdx)) /\ Playing(d, s.brk, s.adIdx).mAdState = "playing"
    BY <2>1, PlayingState
  <2>3. e = OutsideAdbreak(p, off, huge)
    BY <1>2 DEF PeriodChange
  <2>4. Tells(dai, OutsideAdbreak(p, off, huge))
    <3>. HIDE DEF s
    <3>. QED  BY <1>1, <1>2, <2>1, <2>2 DEF OutsideAdbreak, Tells, Unchanged, s
  <2>. QED  BY <2>3, <2>4
<1>3. CASE dai.mAdState = "not_playing"
  <2>. DEFINE s == CheckForAdStart(p, off, huge)
  <2>1. /\ DaiOK(Playing(dai, s.brk, s.adIdx))
        /\ Playing(dai, s.brk, s.adIdx).mAdState = "playing"
        /\ DaiOK(Outside(dai)) /\ Outside(dai).mAdState = "outside"
    BY PlayingState
  <2>2. e = AdNotPlaying(p, off, huge)
    BY <1>3 DEF PeriodChange
  <2>3. Tells(dai, AdNotPlaying(p, off, huge))
    BY <1>1, <1>3, <2>1 DEF AdNotPlaying, Tells, Unchanged
  <2>. QED  BY <2>2, <2>3
<1>4. CASE dai.mAdState = "playing"
  BY <1>1, <1>4 DEF PeriodChange
<1>5. CASE dai.mAdState = "wait"
  <2>. DEFINE k == dai.mCurAdIdx + 1
              o == [Outside(dai) EXCEPT
                      !.mContentSeekOffset = mAdBreaks[dai.mCurPlayingBreakId].endPeriodOffset]
              n == [dai EXCEPT !.mAdState = "not_playing", !.mCurAdIdx = k]
  <2>1. /\ DaiOK(Playing(dai, dai.mCurAds, k))
        /\ Playing(dai, dai.mCurAds, k).mAdState = "playing"
        /\ DaiOK(Outside(dai)) /\ Outside(dai).mAdState = "outside"
    BY PlayingState
  <2>2. DaiOK(o) /\ o.mAdState = "outside" /\ DaiOK(n) /\ n.mAdState = "not_playing"
    BY <2>1 DEF DaiOK, DaiFields, AdStates
  <2>3. e = WaitToCatchup
    BY <1>5 DEF PeriodChange
  <2>4. Tells(dai, WaitToCatchup)
    BY <1>1, <1>5, <2>1, <2>2 DEF WaitToCatchup, Tells, Unchanged
  <2>. QED  BY <2>3, <2>4
<1>. QED  BY <1>2, <1>3, <1>4, <1>5 DEF DaiOK, AdStates

LEMMA AdFailedTells ==
    ASSUME NEW d, DaiOK(d)
    PROVE  Tells(d, AdFailed(d))
BY DEF AdFailed, Tells, Unchanged, DaiOK, DaiFields, AdStates

\* So does the whole collector.
PairedInv == DaiOK(dai) /\ Paired(history, dai)

LEMMA PairedStep ==
    ASSUME PairedInv, [Next]_vars
    PROVE  PairedInv'
<1>. USE DEF PairedInv
<1>1. ASSUME UNCHANGED <<dai, history>> PROVE PairedInv'
  BY <1>1 DEF Paired, DaiOK
<1>2. CASE EnterPeriod
  <2>0. PICK huge \in BOOLEAN : \E initFails \in BOOLEAN :
         Enters(AtPeriod(huge).e, NextSource(AtPeriod(huge).e.dai, PeriodAt(AtPeriod(huge).idx)),
                initFails)
    BY <1>2 DEF EnterPeriod
  <2>. DEFINE at == AtPeriod(huge)
              next == NextSource(at.e.dai, PeriodAt(at.idx))
  <2>1. PICK initFails \in BOOLEAN : Enters(at.e, next, initFails)
    BY <2>0
  <2>. DEFINE fails == dai.mAdFailed \/ initFails
              e == at.e
  <2>2. PICK e2 \in {IF fails THEN AdFailed(e.dai) ELSE [Unchanged EXCEPT !.dai = e.dai]} :
          /\ dai' = [e2.dai EXCEPT !.mAdFailed = FALSE, !.mContentSeekOffset = 0]
          /\ history' = [Report(Report(history, e), e2) EXCEPT
                           !.failed = IF initFails THEN @ \cup {next.ad} ELSE @,
                           !.again = @ \/ e2.changed]
    BY <2>1 DEF Enters
  <2>3. \E p, off, h : e = PeriodChange(p, off, h)
    BY DEF AtPeriod
  <2>4. Tells(dai, e)
    BY <2>3, PeriodChangeTells
  <2>5. Paired(Report(history, e), e.dai) /\ DaiOK(e.dai)
    BY <2>4, ReportPairs DEF Tells
  <2>6. Tells(e.dai, e2)
    <3>1. CASE fails
      BY <2>5, <3>1, AdFailedTells
    <3>2. CASE ~fails
      <4>1. e2 = [Unchanged EXCEPT !.dai = e.dai]
        BY <3>2
      <4>. HIDE DEF e
      <4>. QED  BY <2>5, <4>1 DEF Tells, Unchanged
    <3>. QED  BY <3>1, <3>2
  <2>7. Paired(Report(Report(history, e), e2), e2.dai) /\ DaiOK(e2.dai)
    <3>. HIDE DEF e
    <3>. QED  BY <2>5, <2>6, ReportPairs DEF Tells
  <2>8. DaiOK(dai') /\ dai'.mAdState = e2.dai.mAdState
    BY <2>2, <2>7 DEF DaiOK, DaiFields
  <2>9. /\ HistoryOK(history')
        /\ history'.placement = Report(Report(history, e), e2).placement
        /\ history'.wrong = Report(Report(history, e), e2).wrong
    <3>. DEFINE h == Report(Report(history, e), e2)
    <3>1. HistoryOK(h)
      BY <2>7 DEF Paired
    <3>2. history' = [h EXCEPT !.failed = IF initFails THEN @ \cup {next.ad} ELSE @,
                               !.again = @ \/ e2.changed]
      BY <2>2
    <3>. HIDE DEF h
    <3>3. HistoryOK(history') /\ history'.placement = h.placement /\ history'.wrong = h.wrong
      BY <3>1, <3>2 DEF HistoryOK
    <3>. QED  BY <3>3 DEF h
  <2>. QED  BY <2>7, <2>8, <2>9 DEF Paired
<1>3. CASE FetchContent
  <2>1. dai' = dai
    BY <1>3 DEF FetchContent
  <2>2. history' = history \/ history' = FetchedContent(history, source.next)
    BY <1>3 DEF FetchContent
  <2>3. Paired(FetchedContent(history, source.next), dai)
    BY DEF FetchedContent, Paired, HistoryOK
  <2>. QED  BY <2>1, <2>2, <2>3
<1>4. CASE FetchAd
  <2>1. dai' = dai \/ \E x : dai' = [dai EXCEPT !.mAdFailed = x]
    BY <1>4 DEF FetchAd
  <2>2. DaiOK(dai') /\ dai'.mAdState = dai.mAdState
    BY <2>1 DEF DaiOK, DaiFields
  <2>. DEFINE d == stream.ads[source.ad].frags[source.next]
  <2>3. \/ history' = history
        \/ history' = [history EXCEPT !.adTime = @ + d]
        \/ history' = [history EXCEPT !.adTime = @ + d, !.failed = @ \cup {RequestOf(dai)}]
    BY <1>4 DEF FetchAd
  <2>. HIDE DEF d
  <2>4. /\ HistoryOK(history') /\ history'.placement = history.placement
        /\ history'.wrong = history.wrong
    BY <2>3 DEF HistoryOK, Paired
  <2>. QED  BY <2>2, <2>4 DEF Paired
<1>5. CASE AdEnds
  <2>1. Tells(dai, AdFinished)
    BY <1>5 DEF AdEnds, AdFinished, Tells, Unchanged, DaiOK, DaiFields, AdStates
  <2>2. dai' = AdFinished.dai /\ history' = Report(history, AdFinished)
    BY <1>5 DEF AdEnds
  <2>3. Paired(Report(history, AdFinished), AdFinished.dai)
    BY <2>1, ReportPairs
  <2>. QED  BY <2>1, <2>2, <2>3 DEF Tells
<1>6. CASE GoOn
  <2>1. PICK huge \in BOOLEAN :
          \E e \in {IF mBasePeriodOffset # lastPrdOffset /\ dai.mAdState = "not_playing"
                   THEN AdNotPlaying(mBasePeriodId, mBasePeriodOffset, huge) ELSE Unchanged} :
            dai' = e.dai /\ history' = Report(history, e)
    BY <1>6 DEF GoOn
  <2>. DEFINE e == IF mBasePeriodOffset # lastPrdOffset /\ dai.mAdState = "not_playing"
                   THEN AdNotPlaying(mBasePeriodId, mBasePeriodOffset, huge) ELSE Unchanged
  <2>2. Tells(dai, e)
    <3>1. dai.mAdState = "not_playing" =>
            AdNotPlaying(mBasePeriodId, mBasePeriodOffset, huge)
              = PeriodChange(mBasePeriodId, mBasePeriodOffset, huge)
      BY DEF PeriodChange
    <3>2. Tells(dai, PeriodChange(mBasePeriodId, mBasePeriodOffset, huge))
      BY PeriodChangeTells
    <3>3. Tells(dai, Unchanged)
      BY DEF Tells, Unchanged
    <3>. QED  BY <3>1, <3>2, <3>3
  <2>3. Paired(Report(history, e), e.dai)
    BY <2>2, ReportPairs
  <2>. QED  BY <2>1, <2>2, <2>3 DEF Tells
<1>7. SkipEmptyPeriod \/ AwaitPlacement \/ KeepPeriod \/ PeriodsEnd \/ PeriodEnds \/ Refresh
        \/ SetAlternateContents \/ FulFillAdObject \/ FulFillFails \/ Publish \/ UNCHANGED vars
      => UNCHANGED <<dai, history>>
  BY DEF SkipEmptyPeriod, AwaitPlacement, KeepPeriod, PeriodsEnd, PeriodEnds, Refresh,
         SetAlternateContents, FulFillAdObject, FulFillFails, Publish, vars
<1>. QED  BY <1>1, <1>2, <1>3, <1>4, <1>5, <1>6, <1>7 DEF Next, CollectorMoves

\* Whatever fails and however late an ad is, the application is told of the end of every
\* placement before the beginning of the next, and before its reservation ends (onAdEvent).
THEOREM PlacementsArePaired == Spec => []PlacementsPaired
<1>1. Init => PairedInv
  BY DEF Init, PairedInv, Paired, DaiOK, DaiFields, AdStates, HistoryOK
<1>2. PairedInv /\ [Next]_vars => PairedInv'
  BY PairedStep
<1>3. PairedInv => PlacementsPaired
  BY DEF PairedInv, Paired, PlacementsPaired
<1>. QED  BY <1>1, <1>2, <1>3, PTL DEF Spec

-----------------------------------------------------------------------------
(* Numbers and sequences.                                                    *)

\* Every set of numbers has a smallest one.
LEMMA Smallest ==
    ASSUME NEW S, S \subseteq Nat, S # {}
    PROVE  \E x \in S : \A y \in S : x <= y
<1>. DEFINE F == {0..y : y \in S}
<1>1. F \subseteq FiniteSubsetsOf(Nat) /\ F # {}
  <2>1. \A y \in S : IsFiniteSet(0..y) /\ 0..y \in SUBSET Nat
    BY FS_Interval
  <2>. QED  BY <2>1 DEF FiniteSubsetsOf
<1>2. PICK U \in F : \A T \in F : <<T, U>> \notin StrictSubsetOrdering(Nat)
  <2>. HIDE DEF F
  <2>. QED BY <1>1, FS_StrictSubsetOrderingWellFounded, WFMin
<1>3. PICK x \in S : U = 0..x
  BY <1>2
<1>4. ASSUME NEW y \in S, y < x PROVE FALSE
  <2>1. 0..y \in F /\ 0..y \subseteq 0..x /\ x \notin 0..y /\ x \in 0..x
    BY <1>4
  <2>2. <<0..y, 0..x>> \in StrictSubsetOrdering(Nat)
    BY <2>1 DEF StrictSubsetOrdering
  <2>. QED  BY <1>2, <1>3, <2>1, <2>2
<1>. QED  BY <1>4

\* The larger of two numbers.
LEMMA Larger ==
    ASSUME NEW a \in Int, NEW b \in Int
    PROVE  Max({a, b}) \in {a, b} /\ Max({a, b}) >= a /\ Max({a, b}) >= b
<1>1. \E x \in {a, b} : \A y \in {a, b} : x >= y
  OBVIOUS
<1>. QED  BY <1>1 DEF Max

\* A sequence, of whatever it holds.
IsSequence(s) == s \in Seq(ToSet(s))

LEMMA SequenceOf ==
    ASSUME NEW S, NEW s \in Seq(S)
    PROVE  IsSequence(s)
BY DEF IsSequence, ToSet

LEMMA SequenceParts ==
    ASSUME NEW s, IsSequence(s)
    PROVE  Len(s) \in Nat /\ DOMAIN s = 1..Len(s)
BY DEF IsSequence

LEMMA Edited ==
    ASSUME NEW s, IsSequence(s), NEW k \in 1..Len(s), NEW x
    PROVE  /\ IsSequence([s EXCEPT ![k] = x]) /\ Len([s EXCEPT ![k] = x]) = Len(s)
           /\ [s EXCEPT ![k] = x][k] = x
           /\ \A i \in 1..Len(s) : i # k => [s EXCEPT ![k] = x][i] = s[i]
<1>. DEFINE S == ToSet(s) \cup {x}
<1>1. s \in Seq(S)
  BY DEF IsSequence
<1>2. [s EXCEPT ![k] = x] \in Seq(S) /\ Len([s EXCEPT ![k] = x]) = Len(s)
  <2>. HIDE DEF S
  <2>1. x \in S
    BY DEF S
  <2>. QED  BY <1>1, <2>1
<1>. QED  BY <1>2, SequenceOf, SequenceParts

LEMMA Appended ==
    ASSUME NEW s, IsSequence(s), NEW x
    PROVE  /\ IsSequence(Append(s, x)) /\ Len(Append(s, x)) = Len(s) + 1
           /\ Append(s, x)[Len(s) + 1] = x
           /\ \A i \in 1..Len(s) : Append(s, x)[i] = s[i]
<1>. DEFINE S == ToSet(s) \cup {x}
<1>1. s \in Seq(S) /\ x \in S
  BY DEF IsSequence
<1>2. /\ Append(s, x) \in Seq(S) /\ Len(Append(s, x)) = Len(s) + 1
      /\ Append(s, x)[Len(s) + 1] = x
      /\ \A i \in 1..Len(s) : Append(s, x)[i] = s[i]
  <2>. HIDE DEF S
  <2>. QED  BY <1>1
<1>. QED  BY <1>2, SequenceOf

-----------------------------------------------------------------------------
(* The break that is played stays there.                                     *)

MpdOK ==
  /\ stream \in Streams /\ published \in 1..Total
  /\ mpd.last \in 1..published /\ mpd = Manifest(mpd.last)

\* The break that state d of the ads names is there; that of the ad it plays is, unless it has
\* left the manifest.
Kept(d, brks, first) ==
  /\ DaiOK(d)
  /\ d.mAdState # "outside" => d.mCurPlayingBreakId \in DOMAIN brks
  /\ d.mAdState \in {"playing", "wait"} =>
       d.mCurAds \in DOMAIN brks \/ (d.mCurAds \in Nat /\ d.mCurAds < first)

KeptInv ==
  /\ MpdOK
  /\ DOMAIN mAdBreaks \subseteq 1..LastPeriod(mpd)
  /\ Kept(dai, mAdBreaks, mpd.first)

\* A later manifest begins and ends later.
Ending(n) == LastPeriod([first |-> 1, last |-> n])

LEMMA Endings ==
    ASSUME stream \in Streams, NEW i \in 1..Total, NEW j \in 1..Total, i <= j
    PROVE  /\ Ending(i) \in Nat \ {0} /\ Ending(j) \in Nat \ {0} /\ Ending(i) <= Ending(j)
           /\ \A f : LastPeriod([first |-> f, last |-> i]) = Ending(i)
<1>1. IsStream(stream)
  BY AdAssumption
<1>2. /\ DOMAIN stream.segs = 1..Total /\ Total \in Nat
      /\ \A k \in 1..Total : Seg(k).p \in Nat \ {0}
  <2>. DEFINE S == [p : Nat \ {0}, d : Nat \ {0}]
  <2>1. stream.segs \in Seq(S)
    BY <1>1 DEF IsStream
  <2>2. \A x \in S : x.p \in Nat \ {0}
    OBVIOUS
  <2>. HIDE DEF S
  <2>. QED  BY <2>1, <2>2 DEF Seg, Total
<1>3. \A k, l \in 1..Total : k <= l => Seg(k).p <= Seg(l).p
  BY <1>1, <1>2 DEF IsStream, Seg
<1>4. \A f, k : LastPeriod([first |-> f, last |-> k])
                  = IF k < Total /\ Seg(k + 1).p # Seg(k).p THEN Seg(k).p + 1 ELSE Seg(k).p
  BY DEF LastPeriod
<1>5. \A k \in 1..Total : Ending(k) \in Nat \ {0} /\ Seg(k).p <= Ending(k)
  BY <1>2, <1>4 DEF Ending
<1>6. Ending(i) <= Ending(j)
  <2>1. CASE i = j
    BY <1>5, <2>1
  <2>2. CASE i < j
    <3>1. i + 1 \in 1..Total /\ i + 1 <= j
      BY <1>2, <2>2
    <3>2. Seg(i).p <= Seg(i + 1).p /\ Seg(i + 1).p <= Seg(j).p /\ Seg(j).p <= Ending(j)
      BY <1>3, <1>5, <3>1
    <3>. QED  BY <1>2, <1>4, <1>5, <3>1, <3>2 DEF Ending
  <2>. QED  BY <1>2, <2>1, <2>2
<1>. QED  BY <1>4, <1>5, <1>6 DEF Ending

LEMMA Manifests ==
    ASSUME stream \in Streams, NEW i \in 1..Total, NEW j \in 1..Total, i <= j
    PROVE  /\ Manifest(i).first \in Nat \ {0} /\ Manifest(i).last = i
           /\ Manifest(i).first <= LastPeriod(Manifest(i))
           /\ LastPeriod(Manifest(i)) \in Nat
           /\ LastPeriod(Manifest(i)) <= LastPeriod(Manifest(j))
           /\ Manifest(i).first <= Manifest(j).first
           /\ stream.keep = 0 => Manifest(i).first = 1
<1>1. stream.keep \in Nat
  BY AdAssumption DEF IsStream
<1>2. \A k \in {i, j} :
        /\ Manifest(k) = [first |-> IF stream.keep = 0 THEN 1
                                    ELSE Max({1, Ending(k) - stream.keep + 1}), last |-> k]
        /\ LastPeriod(Manifest(k)) = Ending(k)
  <2>1. \A k \in {i, j} : Manifest(k) = [first |-> IF stream.keep = 0 THEN 1
                                    ELSE Max({1, Ending(k) - stream.keep + 1}), last |-> k]
    BY DEF Manifest, Ending
  <2>2. /\ \A f : LastPeriod([first |-> f, last |-> i]) = Ending(i)
        /\ \A f : LastPeriod([first |-> f, last |-> j]) = Ending(j)
    <3>1. i <= i /\ j <= j
      BY DEF Total
    <3>. QED  BY <3>1, Endings
  <2>. QED  BY <2>1, <2>2
<1>3. \A k \in {i, j} : Ending(k) \in Nat \ {0} /\ Ending(i) <= Ending(j)
  BY Endings
<1>4. \A k \in {i, j} :
        LET x == Max({1, Ending(k) - stream.keep + 1}) IN
        x \in {1, Ending(k) - stream.keep + 1} /\ x >= 1 /\ x >= Ending(k) - stream.keep + 1
  <2>. TAKE k \in {i, j}
  <2>. DEFINE y == Ending(k) - stream.keep + 1
  <2>1. 1 \in Int /\ y \in Int
    BY <1>1, <1>3
  <2>. HIDE DEF y
  <2>2. Max({1, y}) \in {1, y} /\ Max({1, y}) >= 1 /\ Max({1, y}) >= y
    BY ONLY <2>1, Larger
  <2>. QED  BY <2>2 DEF y
<1>. QED  BY <1>1, <1>2, <1>3, <1>4

LEMMA PeriodsOf ==
    ASSUME stream \in Streams, NEW i \in 1..Total
    PROVE  /\ Len(PeriodIds(Manifest(i))) \in Nat
           /\ ToSet(PeriodIds(Manifest(i))) = Manifest(i).first..LastPeriod(Manifest(i))
<1>. DEFINE m == Manifest(i)
            n == LastPeriod(m) + 1 - m.first
<1>1. m.first \in Nat \ {0} /\ LastPeriod(m) \in Nat /\ m.first <= LastPeriod(m)
  BY Manifests
<1>2. n \in Nat /\ PeriodIds(m) = [k \in 1..n |-> m.first + k - 1]
  BY <1>1 DEF PeriodIds
<1>. HIDE DEF m
<1>. HIDE DEF n
<1>3. PeriodIds(m) \in Seq(Int) /\ DOMAIN PeriodIds(m) = 1..n
  <2>1. \A k \in 1..n : m.first + k - 1 \in Int
    BY <1>1
  <2>. QED  BY <1>2, <2>1
<1>4. ASSUME NEW p \in m.first..LastPeriod(m) PROVE p \in ToSet(PeriodIds(m))
  <2>1. p - m.first + 1 \in 1..n /\ PeriodIds(m)[p - m.first + 1] = p
    BY <1>1, <1>2 DEF n
  <2>. QED  BY <1>3, <2>1 DEF ToSet
<1>5. ToSet(PeriodIds(m)) \subseteq m.first..LastPeriod(m)
  BY <1>1, <1>2, <1>3 DEF ToSet, n
<1>6. Len(PeriodIds(m)) \in Nat
  BY <1>3
<1>. QED  BY <1>4, <1>5, <1>6 DEF m

\* An ad begins in a break that is there.
LEMMA StartOfAd ==
    ASSUME NEW p, NEW off, NEW huge
    PROVE  LET s == CheckForAdStart(p, off, huge) IN
           s.brk # 0 \/ s.adIdx # 0 => s.brk \in DOMAIN mAdBreaks
<1>. DEFINE data == At(mPeriodMap, p)
            b == data.adBreakId
            s == CheckForAdStart(p, off, huge)
<1>1. \/ s = [adIdx |-> 0, brk |-> 0]
      \/ b \in DOMAIN mAdBreaks /\ s.adIdx = 0 /\ s.brk \in {0, b}
      \/ b \in DOMAIN mAdBreaks /\ s.brk = b
  <2>. HIDE DEF data
  <2>. QED  BY DEF CheckForAdStart, data
<1>. HIDE DEF s, data
<1>2. s.brk # 0 \/ s.adIdx # 0 => s.brk \in DOMAIN mAdBreaks
  BY <1>1
<1>. QED  BY <1>2 DEF s

LEMMA AdNotPlayingKept ==
    ASSUME NEW first, Kept(dai, mAdBreaks, first), dai.mAdState = "not_playing", NEW p, NEW off, NEW huge
    PROVE  Kept(AdNotPlaying(p, off, huge).dai, mAdBreaks, first)
<1>. DEFINE s == CheckForAdStart(p, off, huge)
            e == AdNotPlaying(p, off, huge)
<1>1. s.brk # 0 \/ s.adIdx # 0 => s.brk \in DOMAIN mAdBreaks
  BY StartOfAd
<1>2. \/ s.adIdx # 0 /\ e.dai = Playing(dai, s.brk, s.adIdx)
      \/ e.dai \in {dai, Outside(dai)}
  BY DEF AdNotPlaying, Unchanged
<1>. HIDE DEF s, e
<1>3. Kept(e.dai, mAdBreaks, first)
  BY <1>1, <1>2, PlayingState DEF Kept
<1>. QED  BY <1>3 DEF e

LEMMA PeriodChangeKept ==
    ASSUME NEW first, Kept(dai, mAdBreaks, first), NEW p, NEW off, NEW huge
    PROVE  Kept(PeriodChange(p, off, huge).dai, mAdBreaks, first)
<1>. DEFINE e == PeriodChange(p, off, huge)
<1>1. CASE dai.mAdState = "outside"
  <2>. DEFINE s == CheckForAdStart(p, off, huge)
              d == [dai EXCEPT !.mCurPlayingBreakId = s.brk, !.mAdState = "not_playing"]
  <2>1. s.brk # 0 \/ s.adIdx # 0 => s.brk \in DOMAIN mAdBreaks
    BY StartOfAd
  <2>2. e = OutsideAdbreak(p, off, huge)
    BY <1>1 DEF PeriodChange
  <2>3. \/ e.dai = dai
        \/ s.brk # 0 /\ (e.dai = d \/ e.dai = Playing(d, s.brk, s.adIdx))
    <3>. HIDE DEF e
    <3>. QED  BY <2>2 DEF OutsideAdbreak, Unchanged
  <2>4. DaiOK(d) /\ d.mAdState = "not_playing" /\ d.mCurPlayingBreakId = s.brk
    <3>. HIDE DEF s
    <3>. QED  BY DEF Kept, DaiOK, DaiFields, AdStates
  <2>. HIDE DEF e, s, d
  <2>5. Kept(e.dai, mAdBreaks, first)
    BY <1>1, <2>1, <2>3, <2>4, PlayingState DEF Kept
  <2>. QED  BY <2>5 DEF e
<1>2. CASE dai.mAdState = "not_playing"
  BY <1>2, AdNotPlayingKept DEF PeriodChange
<1>3. CASE dai.mAdState = "playing"
  BY <1>3 DEF PeriodChange, Unchanged
<1>4. CASE dai.mAdState = "wait"
  <2>. DEFINE k == dai.mCurAdIdx + 1
              brk == mAdBreaks[dai.mCurPlayingBreakId]
  <2>1. e = WaitToCatchup
    BY <1>4 DEF PeriodChange
  <2>2. \/ e.dai = dai
        \/ e.dai = [Outside(dai) EXCEPT !.mContentSeekOffset = brk.endPeriodOffset]
        \/ e.dai = [dai EXCEPT !.mAdState = "not_playing", !.mCurAdIdx = k]
        \/ e.dai = Playing(dai, dai.mCurAds, k)
    <3>. HIDE DEF e
    <3>. QED  BY <2>1 DEF WaitToCatchup, Unchanged
  <2>. HIDE DEF e, brk, k
  <2>3. Kept(e.dai, mAdBreaks, first)
    <3>1. DaiOK(dai) /\ DaiOK(Outside(dai)) /\ Outside(dai).mAdState = "outside"
      BY PlayingState DEF Kept
    <3>2. CASE e.dai = dai \/ e.dai = Playing(dai, dai.mCurAds, k)
      BY <1>4, <3>1, <3>2, PlayingState DEF Kept
    <3>3. CASE e.dai = [Outside(dai) EXCEPT !.mContentSeekOffset = brk.endPeriodOffset]
      BY <3>1, <3>3 DEF Kept, DaiOK, DaiFields
    <3>4. CASE e.dai = [dai EXCEPT !.mAdState = "not_playing", !.mCurAdIdx = k]
      BY <1>4, <3>1, <3>4 DEF Kept, DaiOK, DaiFields, AdStates
    <3>. QED  BY <2>2, <3>2, <3>3, <3>4
  <2>. QED  BY <2>3 DEF e
<1>. QED  BY <1>1, <1>2, <1>3, <1>4 DEF Kept, DaiOK, AdStates

LEMMA AdFailedKept ==
    ASSUME NEW d, NEW brks, NEW first, Kept(d, brks, first)
    PROVE  Kept(AdFailed(d).dai, brks, first)
<1>1. \/ AdFailed(d).dai = d
      \/ d.mAdState = "playing" /\ AdFailed(d).dai = [d EXCEPT !.mAdState = "not_playing"]
  BY DEF AdFailed, Unchanged
<1>. QED  BY <1>1 DEF Kept, DaiOK, DaiFields, AdStates

\* The steps that leave the breaks, but for what the collector does to their ads.
LEMMA KeptWithBreaks ==
    ASSUME KeptInv, UNCHANGED <<stream, mpd>>,
           published' \in {published, published + 1} /\ published' <= Total,
           DOMAIN mAdBreaks' = DOMAIN mAdBreaks,
           Kept(dai', mAdBreaks, mpd.first)
    PROVE  KeptInv'
<1>1. MpdOK'
  BY DEF KeptInv, MpdOK, Manifest, LastPeriod, Seg, Total
<1>2. LastPeriod(mpd)' = LastPeriod(mpd)
  BY DEF LastPeriod, Seg, Total
<1>3. Kept(dai, mAdBreaks, mpd.first)'
  BY DEF Kept
<1>. QED  BY <1>1, <1>2, <1>3 DEF KeptInv

\* No event takes a break away.
LEMMA InvalidateBreaks ==
    ASSUME NEW brks, NEW e
    PROVE  DOMAIN Invalidate(brks, e) = DOMAIN brks
BY DEF Invalidate

LEMMA KeptAtEnter ==
    ASSUME KeptInv, EnterPeriod
    PROVE  KeptInv'
<1>0. PICK huge \in BOOLEAN : \E initFails \in BOOLEAN :
       Enters(AtPeriod(huge).e, NextSource(AtPeriod(huge).e.dai, PeriodAt(AtPeriod(huge).idx)),
              initFails)
  BY DEF EnterPeriod
<1>. DEFINE at == AtPeriod(huge)
            next == NextSource(at.e.dai, PeriodAt(at.idx))
            e == at.e
<1>1. PICK initFails \in BOOLEAN : Enters(at.e, next, initFails)
  BY <1>0
<1>. DEFINE fails == dai.mAdFailed \/ initFails
            There(d) == Kept(d, mAdBreaks, mpd.first)
<1>2. PICK e2 \in {IF fails THEN AdFailed(e.dai) ELSE [Unchanged EXCEPT !.dai = e.dai]} :
        /\ mAdBreaks' = Invalidate(Invalidate(mAdBreaks, e), e2)
        /\ dai' = [e2.dai EXCEPT !.mAdFailed = FALSE, !.mContentSeekOffset = 0]
  BY <1>1 DEF Enters
<1>3. \E p, off, h : e = PeriodChange(p, off, h)
  BY DEF AtPeriod
<1>4. There(e.dai)
  BY <1>3, PeriodChangeKept DEF KeptInv
<1>5. There(e2.dai)
  <2>1. CASE fails
    BY <1>2, <1>4, <2>1, AdFailedKept
  <2>2. CASE ~fails
    <3>1. e2 = [Unchanged EXCEPT !.dai = e.dai]
      BY <1>2, <2>2
    <3>. HIDE DEF e
    <3>. QED  BY <1>4, <3>1 DEF Unchanged
  <2>. QED  BY <2>1, <2>2
<1>6. There(dai')
  BY <1>2, <1>5 DEF Kept, DaiOK, DaiFields
<1>7. DOMAIN mAdBreaks' = DOMAIN mAdBreaks
  BY <1>2, InvalidateBreaks
<1>8. UNCHANGED <<stream, mpd, published>> /\ published \in 1..Total
  BY DEF EnterPeriod, ChecksPeriod, KeptInv, MpdOK
<1>9. published' <= Total
  BY <1>8, SequenceParts DEF Total
<1>. QED  BY <1>6, <1>7, <1>8, <1>9, KeptWithBreaks

\* A new manifest brings breaks that begin in it and takes away none but earlier ones, and not
\* the one that dai names.
LEMMA BreaksAtRefresh ==
    ASSUME KeptInv, Refresh
    PROVE  LET m == Manifest(published) IN
           /\ mpd.first \in Nat /\ m.first \in Nat /\ mpd.first <= m.first
           /\ DOMAIN mAdBreaks' \subseteq 1..LastPeriod(m)
           /\ \A b \in DOMAIN mAdBreaks \ DOMAIN mAdBreaks' :
                b < m.first /\ b # dai.mCurPlayingBreakId
<1>. DEFINE m == Manifest(published)
            ids == ToSet(PeriodIds(m))
            s0 == [breaks |-> mAdBreaks, map |-> mPeriodMap]
            found == FindTimedMetadata(s0, m, FALSE)
            pruned == PrunePeriodMaps(found, m)
            placed == PlaceAds(pruned, m)
            named == {mPlacementObj.pendingAdbrkId, dai.mCurPlayingBreakId}
<1>1. mAdBreaks' = placed.breaks
  BY DEF Refresh
<1>2. /\ stream \in Streams /\ published \in 1..Total /\ mpd.last \in 1..Total
      /\ mpd.last <= published /\ mpd = Manifest(mpd.last)
  BY DEF KeptInv, MpdOK, Total
<1>3. /\ mpd.first \in Nat /\ m.first \in Nat \ {0} /\ mpd.first <= m.first
      /\ LastPeriod(mpd) \in Nat /\ LastPeriod(m) \in Nat /\ LastPeriod(mpd) <= LastPeriod(m)
      /\ ids = m.first..LastPeriod(m)
  <2>1. published <= published
    BY <1>2 DEF Total
  <2>. QED  BY <1>2, <2>1, Manifests, PeriodsOf
<1>. HIDE DEF m, ids
<1>4. DOMAIN mAdBreaks \subseteq 1..LastPeriod(m)
  BY <1>3 DEF KeptInv
<1>5. DOMAIN mAdBreaks \subseteq DOMAIN found.breaks
        /\ DOMAIN found.breaks \subseteq DOMAIN mAdBreaks \cup ids
  BY DEF FindTimedMetadata, ids
<1>. HIDE DEF found
<1>6. DOMAIN pruned.breaks = DOMAIN found.breaks \cap (ids \cup named)
  BY DEF PrunePeriodMaps, ids
<1>. HIDE DEF pruned
<1>7. DOMAIN placed.breaks = DOMAIN pruned.breaks
  <2>1. \/ placed.breaks = pruned.breaks
        \/ \E brk : /\ mPlacementObj.pendingAdbrkId \in DOMAIN pruned.breaks
                    /\ placed.breaks = Put(pruned.breaks, mPlacementObj.pendingAdbrkId, brk)
    BY DEF PlaceAds
  <2>. HIDE DEF placed
  <2>. QED  BY <2>1 DEF Put
<1>. HIDE DEF placed
<1>8. ASSUME NEW b \in DOMAIN mAdBreaks \ DOMAIN mAdBreaks'
      PROVE  b < m.first /\ b # dai.mCurPlayingBreakId
  BY <1>1, <1>3, <1>4, <1>5, <1>6, <1>7
<1>9. DOMAIN mAdBreaks' \subseteq 1..LastPeriod(m)
  BY <1>1, <1>3, <1>4, <1>5, <1>6, <1>7
<1>. QED  BY <1>3, <1>8, <1>9 DEF m

LEMMA KeptAtRefresh ==
    ASSUME KeptInv, Refresh
    PROVE  KeptInv'
<1>. DEFINE m == Manifest(published)
<1>1. /\ mpd' = m /\ UNCHANGED <<stream, published, dai>>
  BY DEF Refresh
<1>2. /\ mpd.first \in Nat /\ m.first \in Nat /\ mpd.first <= m.first
      /\ DOMAIN mAdBreaks' \subseteq 1..LastPeriod(m)
      /\ \A b \in DOMAIN mAdBreaks \ DOMAIN mAdBreaks' :
           b < m.first /\ b # dai.mCurPlayingBreakId
  BY BreaksAtRefresh
<1>3. m.last = published /\ published \in 1..Total
  BY DEF Manifest, KeptInv, MpdOK
<1>4. MpdOK' /\ LastPeriod(mpd)' = LastPeriod(m)
  BY <1>1, <1>3 DEF KeptInv, MpdOK, Manifest, LastPeriod, Seg, Total
<1>. HIDE DEF m
<1>5. Kept(dai, mAdBreaks', m.first)
  <2>1. dai.mCurAds \in Nat /\ dai.mCurAds < mpd.first => dai.mCurAds < m.first
    BY <1>2
  <2>2. dai.mCurAds \in DOMAIN mAdBreaks => dai.mCurAds \in Nat
    <3>1. LastPeriod(mpd) \in Nat
      BY Manifests DEF KeptInv, MpdOK, Total
    <3>. QED  BY <3>1 DEF KeptInv
  <2>3. DaiOK(dai) /\ (dai.mAdState # "outside" => dai.mCurPlayingBreakId \in DOMAIN mAdBreaks')
    BY <1>2 DEF KeptInv, Kept
  <2>4. dai.mAdState \in {"playing", "wait"} =>
          dai.mCurAds \in DOMAIN mAdBreaks' \/ (dai.mCurAds \in Nat /\ dai.mCurAds < m.first)
    BY <1>2, <2>1, <2>2 DEF KeptInv, Kept
  <2>. QED  BY <2>3, <2>4 DEF Kept
<1>6. Kept(dai, mAdBreaks, mpd.first)'
  BY <1>1, <1>5 DEF Kept
<1>. QED  BY <1>1, <1>2, <1>4, <1>6 DEF KeptInv, m

\* The other steps leave the breaks.
LEMMA KeptAtOther ==
    ASSUME KeptInv, Next, ~EnterPeriod, ~Refresh
    PROVE  KeptInv'
<1>1. /\ UNCHANGED <<stream, mpd>>
      /\ published' = published \/ (published' = published + 1 /\ published < Total)
  BY DEF Next, CollectorMoves, SkipEmptyPeriod, AwaitPlacement, ChecksPeriod, KeepPeriod,
         PeriodsEnd, FetchContent, FetchAd, AdEnds, PeriodEnds, GoOn, SetAlternateContents,
         FulFillAdObject, FulFillFails, Publish
<1>2. published' \in {published, published + 1} /\ published' <= Total
  <2>1. published \in 1..Total /\ Total \in Nat
    BY SequenceParts, AdAssumption DEF KeptInv, MpdOK, Total, IsStream
  <2>. QED  BY <1>1, <2>1
<1>3. DOMAIN mAdBreaks' = DOMAIN mAdBreaks
  <2>1. CASE FulFillAdObject
    BY <2>1 DEF FulFillAdObject, breaks
  <2>2. CASE GoOn
    BY <2>2, InvalidateBreaks DEF GoOn
  <2>3. CASE ~FulFillAdObject /\ ~GoOn
    <3>1. mAdBreaks' = mAdBreaks
      BY <2>3 DEF Next, CollectorMoves, SkipEmptyPeriod, AwaitPlacement, KeepPeriod, PeriodsEnd,
                  FetchContent, FetchAd, AdEnds, PeriodEnds, SetAlternateContents, FulFillFails,
                  Publish, breaks
    <3>. QED  BY <3>1
  <2>. QED  BY <2>1, <2>2, <2>3
<1>4. Kept(dai', mAdBreaks, mpd.first)
  <2>1. CASE FetchAd
    <3>1. dai' = dai \/ \E x : dai' = [dai EXCEPT !.mAdFailed = x]
      BY <2>1 DEF FetchAd
    <3>. QED  BY <3>1 DEF KeptInv, Kept, DaiOK, DaiFields
  <2>2. CASE AdEnds
    <3>1. dai.mAdState = "playing" /\ dai' = [dai EXCEPT !.mAdState = "wait"]
      BY <2>2 DEF AdEnds, AdFinished, Unchanged
    <3>. QED  BY <3>1 DEF KeptInv, Kept, DaiOK, DaiFields, AdStates
  <2>3. CASE GoOn
    <3>1. \/ dai' = dai
          \/ /\ dai.mAdState = "not_playing"
             /\ \E huge \in BOOLEAN : dai' = AdNotPlaying(mBasePeriodId, mBasePeriodOffset, huge).dai
      BY <2>3 DEF GoOn, Unchanged
    <3>. QED  BY <3>1, AdNotPlayingKept DEF KeptInv
  <2>4. CASE ~FetchAd /\ ~AdEnds /\ ~GoOn
    <3>1. dai' = dai
      BY <2>4 DEF Next, CollectorMoves, SkipEmptyPeriod, AwaitPlacement, KeepPeriod, PeriodsEnd,
                  FetchContent, PeriodEnds, SetAlternateContents, FulFillAdObject, FulFillFails,
                  Publish
    <3>. QED  BY <3>1 DEF KeptInv
  <2>. QED  BY <2>1, <2>2, <2>3, <2>4
<1>. QED  BY <1>1, <1>2, <1>3, <1>4, KeptWithBreaks

\* When the player tunes no ad is played.
LEMMA KeptInit ==
    ASSUME Init
    PROVE  KeptInv
<1>. DEFINE m == Manifest(stream.initial)
            s == FindTimedMetadata([breaks |-> <<>>, map |-> <<>>], m, TRUE)
<1>1. stream \in Streams /\ stream.initial \in 1..Total /\ Total \in Nat
  BY SequenceParts, AdAssumption DEF Init, IsStream, Total
<1>2. m.last = stream.initial
  BY DEF Manifest
<1>3. /\ m.first \in Nat \ {0} /\ LastPeriod(m) \in Nat
      /\ ToSet(PeriodIds(m)) = m.first..LastPeriod(m)
  BY <1>1, Manifests, PeriodsOf
<1>4. mpd = m /\ published = stream.initial
  BY DEF Init
<1>5. MpdOK
  BY <1>1, <1>2, <1>4 DEF MpdOK
<1>. HIDE DEF m
<1>6. DOMAIN s.breaks \subseteq ToSet(PeriodIds(m))
  BY DEF FindTimedMetadata
<1>7. mAdBreaks = s.breaks
  BY <1>4 DEF Init
<1>8. Kept(dai, mAdBreaks, mpd.first)
  <2>1. dai.mAdState = "outside" /\ DaiOK(dai)
    BY DEF Init, DaiOK, DaiFields, AdStates
  <2>. QED  BY <2>1 DEF Kept
<1>9. DOMAIN mAdBreaks \subseteq 1..LastPeriod(mpd)
  <2>1. DOMAIN mAdBreaks \subseteq m.first..LastPeriod(m)
    BY <1>3, <1>6, <1>7
  <2>2. m.first..LastPeriod(m) \subseteq 1..LastPeriod(m)
    BY <1>3
  <2>. QED  BY <1>4, <2>1, <2>2
<1>. QED  BY <1>5, <1>8, <1>9 DEF KeptInv

LEMMA KeptStep ==
    ASSUME KeptInv, [Next]_vars
    PROVE  KeptInv'
<1>1. CASE Next
  BY <1>1, KeptAtEnter, KeptAtRefresh, KeptAtOther
<1>2. CASE UNCHANGED vars
  BY <1>2 DEF vars, breaks, KeptInv, MpdOK, Manifest, LastPeriod, Seg, Total, Kept
<1>. QED  BY <1>1, <1>2

\* The break that is shown (mCurPlayingBreakId) is never erased, however many breaks and ads
\* there are and however few periods the manifest keeps; the break of the ad that is played is
\* not before its period has left the manifest.
BreakKept ==
  /\ dai.mAdState # "outside" => dai.mCurPlayingBreakId \in DOMAIN mAdBreaks
  /\ dai.mAdState \in {"playing", "wait"} =>
       dai.mCurAds \in DOMAIN mAdBreaks \/ dai.mCurAds < mpd.first

\* PrunePeriodMaps erases no break that mCurPlayingBreakId names, and none of an ad that is
\* played and in the manifest.
THEOREM TheBreakIsKept == Spec => []BreakKept
<1>1. Init => KeptInv
  BY KeptInit
<1>2. KeptInv /\ [Next]_vars => KeptInv'
  BY KeptStep
<1>3. KeptInv => BreakKept
  BY DEF KeptInv, Kept, BreakKept
<1>. QED  BY <1>1, <1>2, <1>3, PTL DEF Spec

-----------------------------------------------------------------------------
(* What fails is given up, or the ad behind it.                               *)

AdFields == {"req", "invalid", "placed", "basePeriodId", "basePeriodOffset"}
AdsOK(ads) == IsSequence(ads) /\ \A k \in 1..Len(ads) : AdFields \subseteq DOMAIN ads[k]
BreakOK(brk) == "ads" \in DOMAIN brk /\ AdsOK(brk.ads)

\* What the placement of ads leaves of them, and what a new one does.
SameAds(x, y) ==
  /\ AdsOK(y) /\ Len(y) = Len(x)
  /\ \A k \in 1..Len(x) : y[k].req = x[k].req /\ y[k].invalid = x[k].invalid
Grown(x, y) ==
  /\ AdsOK(y) /\ Len(x) <= Len(y)
  /\ \A k \in 1..Len(x) : y[k].req = x[k].req /\ y[k].invalid = x[k].invalid
  /\ \A k \in 1..Len(y) : k > Len(x) => ~y[k].invalid

\* The breaks after a step: the ads of those there were have only become more, and new ones
\* have none.
Grows(brks, brks1) ==
  \A b \in DOMAIN brks1 :
    /\ "ads" \in DOMAIN brks1[b] /\ AdsOK(brks1[b].ads)
    /\ IF b \in DOMAIN brks THEN Grown(brks[b].ads, brks1[b].ads) ELSE Len(brks1[b].ads) = 0

LEMMA SameAdsTwice ==
    ASSUME NEW x, AdsOK(x)
    PROVE  SameAds(x, x) /\ Grown(x, x)
<1>1. Len(x) \in Nat
  BY SequenceParts DEF AdsOK
<1>. QED  BY <1>1 DEF SameAds, Grown

LEMMA SameAdsGrown ==
    ASSUME NEW x, NEW y, AdsOK(x), SameAds(x, y)
    PROVE  Grown(x, y)
<1>1. Len(x) \in Nat
  BY SequenceParts DEF AdsOK
<1>. QED  BY <1>1 DEF SameAds, Grown

\* An ad that is changed in its other fields; nothing happens beyond the last one.
LEMMA EditedAds ==
    ASSUME NEW x, NEW y, SameAds(x, y), NEW k, NEW z,
           k \in 1..Len(y) =>
             AdFields \subseteq DOMAIN z /\ z.req = y[k].req /\ z.invalid = y[k].invalid
    PROVE  SameAds(x, [y EXCEPT ![k] = z])
<1>. DEFINE w == [y EXCEPT ![k] = z]
<1>1. IsSequence(y) /\ Len(y) \in Nat /\ DOMAIN y = 1..Len(y)
  BY SequenceParts DEF SameAds, AdsOK
<1>2. CASE k \in 1..Len(y)
  <2>1. /\ IsSequence(w) /\ Len(w) = Len(y) /\ w[k] = z
        /\ \A i \in 1..Len(y) : i # k => w[i] = y[i]
    BY <1>1, <1>2, Edited
  <2>. HIDE DEF w
  <2>2. SameAds(x, w)
    BY <1>2, <2>1 DEF SameAds, AdsOK
  <2>. QED  BY <2>2 DEF w
<1>3. CASE k \notin 1..Len(y)
  <2>1. y = [i \in DOMAIN y |-> y[i]]
    BY <1>1 DEF IsSequence
  <2>2. w = y
    BY <1>1, <1>3, <2>1
  <2>. QED  BY <2>2
<1>. QED  BY <1>2, <1>3

\* A record PlaceAds works on, of a break that has the given ads.
Working(s, ads) == "brk" \in DOMAIN s /\ BreakOK(s.brk) /\ SameAds(ads, s.brk.ads)

LEMMA PlaceAdKeeps ==
    ASSUME NEW s, NEW p, NEW ads, Working(s, ads)
    PROVE  Working(PlaceAd(s, p), ads)
<1>. DEFINE k == s.place.curAdIdx
            ad == s.brk.ads[k]
            offset == s.map[p].duration - s.left
            rest == ad.duration - s.place.adNextOffset
            begun == IF ad.basePeriodId # 0 THEN s
                     ELSE [s EXCEPT !.brk.ads[k] = [@ EXCEPT !.basePeriodId = p,
                                                         !.basePeriodOffset = offset],
                              !.map[p].offset2Ad =
                                 Put(@, offset - (offset % Align),
                                     [adIdx |-> k, adStartOffset |-> 0])]
            placed == [begun EXCEPT !.brk.ads[k].placed = TRUE, !.place.curAdIdx = k + 1]
<1>1. Working(begun, ads) /\ DOMAIN begun = DOMAIN s
  <2>. DEFINE ad1 == [ad EXCEPT !.basePeriodId = p, !.basePeriodOffset = offset]
              ads1 == [s.brk.ads EXCEPT ![k] = ad1]
  <2>1. SameAds(ads, ads1)
    <3>1. k \in 1..Len(s.brk.ads) =>
            AdFields \subseteq DOMAIN ad1 /\ ad1.req = ad.req /\ ad1.invalid = ad.invalid
      <4>1. k \in 1..Len(s.brk.ads) => AdFields \subseteq DOMAIN ad
        BY DEF Working, BreakOK, AdsOK
      <4>. HIDE DEF ad, k, offset
      <4>. QED  BY <4>1 DEF AdFields
    <3>. HIDE DEF ad1, k
    <3>. QED  BY <3>1, EditedAds DEF Working
  <2>2. CASE ad.basePeriodId = 0
    <3>1. begun = [s EXCEPT !.brk.ads[k] = [@ EXCEPT !.basePeriodId = p,
                                                         !.basePeriodOffset = offset],
                            !.map[p].offset2Ad =
                                 Put(@, offset - (offset % Align),
                                     [adIdx |-> k, adStartOffset |-> 0])]
      BY <2>2
    <3>2. begun.brk = [s.brk EXCEPT !.ads = ads1] /\ DOMAIN begun = DOMAIN s
      <4>. HIDE DEF begun, k, offset
      <4>. QED  BY <3>1 DEF Working, ads1, ad1
    <3>. HIDE DEF begun, ads1
    <3>3. "ads" \in DOMAIN begun.brk /\ begun.brk.ads = ads1
      BY <3>2 DEF Working, BreakOK
    <3>. QED  BY <2>1, <3>2, <3>3 DEF Working, BreakOK, SameAds
  <2>3. CASE ad.basePeriodId # 0
    BY <2>3
  <2>. QED  BY <2>2, <2>3
<1>. HIDE DEF begun
<1>2. Working(placed, ads) /\ DOMAIN placed = DOMAIN s
  <2>. DEFINE ad2 == [begun.brk.ads[k] EXCEPT !.placed = TRUE]
              ads2 == [begun.brk.ads EXCEPT ![k] = ad2]
  <2>1. SameAds(ads, ads2)
    <3>1. k \in 1..Len(begun.brk.ads) =>
            AdFields \subseteq DOMAIN ad2 /\ ad2.req = begun.brk.ads[k].req
              /\ ad2.invalid = begun.brk.ads[k].invalid
      <4>1. k \in 1..Len(begun.brk.ads) => AdFields \subseteq DOMAIN begun.brk.ads[k]
        BY <1>1 DEF Working, BreakOK, AdsOK
      <4>. HIDE DEF k
      <4>. QED  BY <4>1 DEF AdFields
    <3>. HIDE DEF ad2, k
    <3>. QED  BY <1>1, <3>1, EditedAds DEF Working
  <2>2. placed.brk = [begun.brk EXCEPT !.ads = ads2] /\ DOMAIN placed = DOMAIN begun
    <3>. HIDE DEF k
    <3>. QED  BY <1>1 DEF Working
  <2>. HIDE DEF placed, ads2
  <2>3. "ads" \in DOMAIN placed.brk /\ placed.brk.ads = ads2
    BY <1>1, <2>2 DEF Working, BreakOK
  <2>. QED  BY <1>1, <2>1, <2>2, <2>3 DEF Working, BreakOK, SameAds
<1>3. \/ PlaceAd(s, p) = s
      \/ PlaceAd(s, p) = [begun EXCEPT !.place.adNextOffset = @ + s.left, !.left = 0]
      \/ PlaceAd(s, p) = [placed EXCEPT !.place.adNextOffset = 0, !.left = @ - rest]
      \/ PlaceAd(s, p) = [placed EXCEPT !.brk.endPeriodId = p, !.brk.endPeriodOffset = offset + rest,
                                        !.brk.adjustEndPeriodOffset = TRUE, !.left = 0]
      \/ PlaceAd(s, p) = [begun EXCEPT !.left = 0]
  BY DEF PlaceAd, begun
<1>. DEFINE r == PlaceAd(s, p)
<1>. HIDE DEF placed, rest, offset, r
<1>4. \/ r = s
      \/ DOMAIN r = DOMAIN s /\ r.brk \in {begun.brk, placed.brk}
      \/ /\ DOMAIN r = DOMAIN s /\ r.brk.ads = placed.brk.ads
         /\ DOMAIN r.brk = DOMAIN placed.brk
  <2>1. CASE r = [begun EXCEPT !.place.adNextOffset = @ + s.left, !.left = 0]
    BY <1>1, <2>1 DEF Working
  <2>2. CASE r = [placed EXCEPT !.place.adNextOffset = 0, !.left = @ - rest]
    BY <1>2, <2>2 DEF Working
  <2>3. CASE r = [begun EXCEPT !.left = 0]
    BY <1>1, <2>3 DEF Working
  <2>4. CASE r = [placed EXCEPT !.brk.endPeriodId = p, !.brk.endPeriodOffset = offset + rest,
                                !.brk.adjustEndPeriodOffset = TRUE, !.left = 0]
    BY <1>2, <2>4 DEF Working, BreakOK
  <2>. QED  BY <1>3, <2>1, <2>2, <2>3, <2>4 DEF r
<1>5. Working(r, ads)
  BY <1>1, <1>2, <1>4 DEF Working, BreakOK
<1>. QED  BY <1>5 DEF r

\* The loop over the ads of a break is well defined.
LEMMA FillExists ==
    ASSUME NEW s, NEW p, NEW n \in Nat
    PROVE  \E g : g = [i \in 0..n |-> IF i = 0 THEN s ELSE PlaceAd(g[i - 1], p)]
<1>. DEFINE Upto(g, m) == g = [i \in 0..m |-> IF i = 0 THEN s ELSE PlaceAd(g[i - 1], p)]
            Bad == {m \in Nat : ~\E g : Upto(g, m)}
<1>1. ASSUME Bad # {} PROVE FALSE
  <2>1. PICK m \in Bad : \A y \in Bad : m <= y
    <3>1. Bad \subseteq Nat
      OBVIOUS
    <3>. HIDE DEF Bad
    <3>. QED  BY <1>1, <3>1, Smallest
  <2>2. m # 0
    <3>1. Upto([i \in 0..0 |-> s], 0)
      OBVIOUS
    <3>. QED  BY <2>1, <3>1
  <2>3. m - 1 \in Nat /\ m \in Nat
    BY <2>1, <2>2
  <2>4. m - 1 \notin Bad
    <3>. HIDE DEF Bad
    <3>. QED  BY <2>1, <2>3
  <2>5. PICK h : Upto(h, m - 1)
    BY <2>3, <2>4
  <2>. DEFINE k == [i \in 0..m |-> IF i = 0 THEN s ELSE PlaceAd(h[i - 1], p)]
  <2>6. \A i \in 0..m - 1 : k[i] = h[i]
    BY <2>3, <2>5
  <2>7. \A i \in 0..m : i # 0 => i - 1 \in 0..m - 1
    BY <2>3
  <2>8. Upto(k, m)
    <3>1. \A i \in 0..m : i # 0 => h[i - 1] = k[i - 1]
      <4>. HIDE DEF k
      <4>. QED  BY <2>6, <2>7
    <3>2. \A i \in 0..m : k[i] = IF i = 0 THEN s ELSE PlaceAd(k[i - 1], p)
      <4>1. \A i \in 0..m : k[i] = IF i = 0 THEN s ELSE PlaceAd(h[i - 1], p)
        OBVIOUS
      <4>. HIDE DEF k
      <4>. QED  BY <3>1, <4>1
    <3>3. k = [i \in 0..m |-> k[i]]
      OBVIOUS
    <3>. HIDE DEF k
    <3>. QED  BY <3>2, <3>3
  <2>. QED  BY <2>1, <2>8
<1>. QED  BY <1>1

LEMMA FillKeeps ==
    ASSUME NEW s, NEW p, NEW ads, Working(s, ads)
    PROVE  Working(Fill(s, p), ads)
<1>. DEFINE l == Len(s.brk.ads)
            g == CHOOSE g : g = [i \in 0..l |-> IF i = 0 THEN s ELSE PlaceAd(g[i - 1], p)]
            Bad == {i \in 0..l : ~Working(g[i], ads)}
<1>1. l \in Nat
  BY SequenceParts DEF Working, BreakOK, AdsOK
<1>2. g = [i \in 0..l |-> IF i = 0 THEN s ELSE PlaceAd(g[i - 1], p)]
  <2>. HIDE DEF l
  <2>. QED  BY <1>1, FillExists
<1>. HIDE DEF l
<1>3. g[0] = s /\ \A i \in 1..l : g[i] = PlaceAd(g[i - 1], p)
  <2>. HIDE DEF g
  <2>. QED  BY <1>1, <1>2
<1>4. Fill(s, p) = g[l]
  BY DEF Fill, l
<1>. HIDE DEF g
<1>5. ASSUME Bad # {} PROVE FALSE
  <2>1. PICK j \in Bad : \A y \in Bad : j <= y
    <3>1. Bad \subseteq Nat
      BY <1>1
    <3>. HIDE DEF Bad
    <3>. QED  BY <1>5, <3>1, Smallest
  <2>2. j \in 1..l /\ j - 1 \in 0..l
    BY <1>1, <1>3, <2>1
  <2>3. j - 1 \notin Bad
    <3>. HIDE DEF Bad
    <3>. QED  BY <2>1, <2>2
  <2>. QED  BY <1>3, <2>1, <2>2, <2>3, PlaceAdKeeps
<1>. QED  BY <1>1, <1>4, <1>5

LEMMA PlaceInPeriodKeeps ==
    ASSUME NEW s, NEW m, NEW p, NEW ads, Working(s, ads)
    PROVE  Working(PlaceInPeriod(s, m, p), ads)
<1>. DEFINE new == NewContent(m, p, s.place.curEndNumber)
            delta == DurationOf(new)
            data == At(s.map, p)
            opened == IF data.adBreakId # 0 THEN data
                      ELSE [data EXCEPT !.adBreakId = s.place.pendingAdbrkId,
                                        !.offset2Ad =
                                           Put(@, 0, [adIdx |-> s.place.curAdIdx,
                                                      adStartOffset |-> s.place.adNextOffset])]
            s1 == [s EXCEPT !.map = Put(@, p, [opened EXCEPT !.duration = @ + delta]),
                            !.place.curEndNumber = Max({@} \cup {Number(i) : i \in new}),
                            !.left = delta]
<1>1. PlaceInPeriod(s, m, p) = Fill(s1, p)
  BY DEF PlaceInPeriod
<1>2. Working(s1, ads)
  <2>. HIDE DEF new, delta, opened
  <2>. QED  BY DEF Working
<1>. QED  BY <1>1, <1>2, FillKeeps

LEMMA PlaceStepKeeps ==
    ASSUME NEW s, NEW m, NEW p, NEW ads, Working(s, ads)
    PROVE  Working(PlaceStep(s, m, p), ads)
<1>. DEFINE s1 == [s EXCEPT !.found = TRUE]
            s2 == [s EXCEPT !.map = Put(@, s.place.openPeriodId,
                                        [At(@, s.place.openPeriodId) EXCEPT !.filled = TRUE]),
                            !.place.openPeriodId = p, !.place.curEndNumber = 0]
<1>1. Working(s1, ads) /\ Working(s2, ads)
  BY DEF Working
<1>2. PlaceStep(s, m, p) \in {s, PlaceInPeriod(s1, m, p), PlaceInPeriod(s2, m, p)}
  BY DEF PlaceStep
<1>. HIDE DEF s1, s2
<1>. QED  BY <1>1, <1>2, PlaceInPeriodKeeps

\* So is the one over the periods of a manifest.
LEMMA PeriodsExist ==
    ASSUME NEW s, NEW ids, NEW mpd1, NEW n \in Nat
    PROVE  \E g : g = [i \in 0..n |-> IF i = 0 THEN s ELSE PlaceStep(g[i - 1], mpd1, ids[i])]
<1>. DEFINE Upto(g, m) == g = [i \in 0..m |-> IF i = 0 THEN s ELSE PlaceStep(g[i - 1], mpd1, ids[i])]
            Bad == {m \in Nat : ~\E g : Upto(g, m)}
<1>1. ASSUME Bad # {} PROVE FALSE
  <2>1. PICK m \in Bad : \A y \in Bad : m <= y
    <3>1. Bad \subseteq Nat
      OBVIOUS
    <3>. HIDE DEF Bad
    <3>. QED  BY <1>1, <3>1, Smallest
  <2>2. m # 0
    <3>1. Upto([i \in 0..0 |-> s], 0)
      OBVIOUS
    <3>. QED  BY <2>1, <3>1
  <2>3. m - 1 \in Nat /\ m \in Nat
    BY <2>1, <2>2
  <2>4. m - 1 \notin Bad
    <3>. HIDE DEF Bad
    <3>. QED  BY <2>1, <2>3
  <2>5. PICK h : Upto(h, m - 1)
    BY <2>3, <2>4
  <2>. DEFINE k == [i \in 0..m |-> IF i = 0 THEN s ELSE PlaceStep(h[i - 1], mpd1, ids[i])]
  <2>6. \A i \in 0..m - 1 : k[i] = h[i]
    BY <2>3, <2>5
  <2>7. \A i \in 0..m : i # 0 => i - 1 \in 0..m - 1
    BY <2>3
  <2>8. Upto(k, m)
    <3>1. \A i \in 0..m : i # 0 => h[i - 1] = k[i - 1]
      <4>. HIDE DEF k
      <4>. QED  BY <2>6, <2>7
    <3>2. \A i \in 0..m : k[i] = IF i = 0 THEN s ELSE PlaceStep(k[i - 1], mpd1, ids[i])
      <4>1. \A i \in 0..m : k[i] = IF i = 0 THEN s ELSE PlaceStep(h[i - 1], mpd1, ids[i])
        OBVIOUS
      <4>. HIDE DEF k
      <4>. QED  BY <3>1, <4>1
    <3>3. k = [i \in 0..m |-> k[i]]
      OBVIOUS
    <3>. HIDE DEF k
    <3>. QED  BY <3>2, <3>3
  <2>. QED  BY <2>1, <2>8
<1>. QED  BY <1>1

LEMMA PlacePeriodsKeeps ==
    ASSUME NEW s, NEW m, NEW ads, Working(s, ads), Len(PeriodIds(m)) \in Nat
    PROVE  Working(PlacePeriods(s, m), ads)
<1>. DEFINE l == Len(PeriodIds(m))
            g == CHOOSE g : g = [i \in 0..l |-> IF i = 0 THEN s
                                                ELSE PlaceStep(g[i - 1], m, PeriodIds(m)[i])]
            Bad == {i \in 0..l : ~Working(g[i], ads)}
<1>1. l \in Nat
  OBVIOUS
<1>2. g = [i \in 0..l |-> IF i = 0 THEN s ELSE PlaceStep(g[i - 1], m, PeriodIds(m)[i])]
  <2>. HIDE DEF l
  <2>. QED  BY <1>1, PeriodsExist
<1>. HIDE DEF l
<1>3. g[0] = s /\ \A i \in 1..l : g[i] = PlaceStep(g[i - 1], m, PeriodIds(m)[i])
  <2>. HIDE DEF g
  <2>. QED  BY <1>1, <1>2
<1>4. PlacePeriods(s, m) = g[l]
  BY DEF PlacePeriods, l
<1>. HIDE DEF g
<1>5. ASSUME Bad # {} PROVE FALSE
  <2>1. PICK j \in Bad : \A y \in Bad : j <= y
    <3>1. Bad \subseteq Nat
      BY <1>1
    <3>. HIDE DEF Bad
    <3>. QED  BY <1>5, <3>1, Smallest
  <2>2. j \in 1..l /\ j - 1 \in 0..l
    BY <1>1, <1>3, <2>1
  <2>3. j - 1 \notin Bad
    <3>. HIDE DEF Bad
    <3>. QED  BY <2>1, <2>2
  <2>. QED  BY <1>3, <2>1, <2>2, <2>3, PlaceStepKeeps
<1>. QED  BY <1>1, <1>4, <1>5

LEMMA AdjustEndKeeps ==
    ASSUME NEW s, NEW m, NEW ads, Working(s, ads)
    PROVE  Working(AdjustEnd(s, m), ads)
<1>. DEFINE moved(q) == [s EXCEPT !.brk.adjustEndPeriodOffset = FALSE, !.brk.endPeriodId = q,
                            !.brk.endPeriodOffset = 0, !.map = Put(@, q, Period2AdData)]
            kept == [s EXCEPT !.brk.adjustEndPeriodOffset = FALSE]
<1>1. \A q : Working(moved(q), ads)
  <2>. TAKE q
  <2>1. /\ DOMAIN moved(q) = DOMAIN s /\ moved(q).brk.ads = s.brk.ads
        /\ DOMAIN moved(q).brk = DOMAIN s.brk
    BY DEF Working, BreakOK
  <2>. HIDE DEF moved
  <2>. QED  BY <2>1 DEF Working, BreakOK
<1>2. Working(kept, ads)
  <2>1. DOMAIN kept = DOMAIN s /\ kept.brk.ads = s.brk.ads /\ DOMAIN kept.brk = DOMAIN s.brk
    BY DEF Working, BreakOK
  <2>. HIDE DEF kept
  <2>. QED  BY <2>1 DEF Working, BreakOK
<1>3. AdjustEnd(s, m) \in {kept, s} \/ \E q : AdjustEnd(s, m) = moved(q)
  <2>. HIDE DEF kept
  <2>. QED  BY DEF AdjustEnd, kept
<1>. HIDE DEF kept, moved
<1>. QED  BY <1>1, <1>2, <1>3

\* The placement leaves the ads there are, of every break.
LEMMA PlaceAdsKeeps ==
    ASSUME NEW s0, NEW m, \A c \in DOMAIN s0.breaks : BreakOK(s0.breaks[c]),
           Len(PeriodIds(m)) \in Nat
    PROVE  LET r == PlaceAds(s0, m) IN
           /\ DOMAIN r.breaks = DOMAIN s0.breaks
           /\ \A c \in DOMAIN s0.breaks :
                BreakOK(r.breaks[c]) /\ SameAds(s0.breaks[c].ads, r.breaks[c].ads)
<1>. DEFINE b == mPlacementObj.pendingAdbrkId
            ads == s0.breaks[b].ads
            s == [brk |-> s0.breaks[b], map |-> s0.map, place |-> mPlacementObj, found |-> FALSE,
                  left |-> 0]
            filled == IF s.brk.adjustEndPeriodOffset THEN s ELSE PlacePeriods(s, m)
            ended == IF filled.brk.adjustEndPeriodOffset THEN AdjustEnd(filled, m) ELSE filled
            r == PlaceAds(s0, m)
<1>1. \A c \in DOMAIN s0.breaks : SameAds(s0.breaks[c].ads, s0.breaks[c].ads)
  BY SameAdsTwice DEF BreakOK
<1>2. CASE mPlacementObj.curAdIdx = 0 \/ b = 0 \/ b \notin DOMAIN s0.breaks
  <2>1. r.breaks = s0.breaks
    BY <1>2 DEF PlaceAds
  <2>. QED  BY <1>1, <2>1
<1>3. CASE mPlacementObj.curAdIdx # 0 /\ b # 0 /\ b \in DOMAIN s0.breaks
  <2>1. Working(s, ads)
    BY <1>1, <1>3 DEF Working
  <2>2. Working(filled, ads)
    <3>. HIDE DEF s, ads
    <3>. QED  BY <2>1, PlacePeriodsKeeps
  <2>. HIDE DEF s, filled, ads
  <2>3. Working(ended, ads)
    BY <2>2, AdjustEndKeeps
  <2>4. r.breaks = Put(s0.breaks, b, ended.brk)
    BY <1>3 DEF PlaceAds, filled, s
  <2>. HIDE DEF ended, r
  <2>5. /\ DOMAIN r.breaks = DOMAIN s0.breaks /\ r.breaks[b] = ended.brk
        /\ \A c \in DOMAIN s0.breaks : c # b => r.breaks[c] = s0.breaks[c]
    BY <1>3, <2>4 DEF Put
  <2>6. ASSUME NEW c \in DOMAIN s0.breaks
        PROVE  BreakOK(r.breaks[c]) /\ SameAds(s0.breaks[c].ads, r.breaks[c].ads)
    BY <1>1, <2>3, <2>5 DEF Working, ads
  <2>. QED  BY <2>5, <2>6 DEF r
<1>. QED  BY <1>2, <1>3

BreaksOK(brks) == \A b \in DOMAIN brks : BreakOK(brks[b])

\* FailureCostsNeighbour, of breaks brks and the ads that failed.
Blamed(brks, failed) ==
  \A b \in DOMAIN brks : \A k \in 1..Len(brks[b].ads) :
    k # 1 /\ brks[b].ads[k].invalid =>
      brks[b].ads[k].req \in failed \/ brks[b].ads[k - 1].req \in failed

\* A failure that is not acted on yet is one of the ad that is played, or has been.
Flagged(d, brks, failed) ==
  d.mAdFailed =>
    d.mAdState \in {"playing", "wait"} /\ brks[d.mCurAds].ads[d.mCurAdIdx].req \in failed

BlameInv ==
  /\ KeptInv /\ HistoryOK(history) /\ BreaksOK(mAdBreaks)
  /\ Blamed(mAdBreaks, history.failed)
  /\ Flagged(dai, mAdBreaks, history.failed)

\* The ads there were are blamed as before.
LEMMA GrowthBlames ==
    ASSUME NEW brks, NEW brks1, BreaksOK(brks), Grows(brks, brks1), NEW failed,
           Blamed(brks, failed)
    PROVE  BreaksOK(brks1) /\ Blamed(brks1, failed)
<1>1. BreaksOK(brks1)
  BY DEF Grows, BreaksOK, BreakOK
<1>2. ASSUME NEW b \in DOMAIN brks1, NEW k \in 1..Len(brks1[b].ads), k # 1,
             brks1[b].ads[k].invalid
      PROVE  brks1[b].ads[k].req \in failed \/ brks1[b].ads[k - 1].req \in failed
  <2>. DEFINE x == brks[b].ads
              y == brks1[b].ads
  <2>1. Len(y) \in Nat
    BY <1>1, SequenceParts DEF BreaksOK, BreakOK, AdsOK
  <2>2. b \in DOMAIN brks /\ Grown(x, y)
    BY <1>2, <2>1 DEF Grows
  <2>3. Len(x) \in Nat
    BY <2>2, SequenceParts DEF BreaksOK, BreakOK, AdsOK
  <2>4. k \in 1..Len(x) /\ k - 1 \in 1..Len(x)
    <3>. HIDE DEF x, y
    <3>1. y[k].invalid
      BY <1>2 DEF y
    <3>2. k \in 1..Len(y)
      BY DEF y
    <3>. QED  BY <1>2, <2>1, <2>2, <2>3, <3>1, <3>2 DEF Grown
  <2>5. x[k].invalid /\ y[k].req = x[k].req /\ y[k - 1].req = x[k - 1].req
    BY <1>2, <2>2, <2>4 DEF Grown
  <2>6. x[k].req \in failed \/ x[k - 1].req \in failed
    BY <1>2, <2>2, <2>4, <2>5 DEF Blamed
  <2>. QED  BY <2>5, <2>6
<1>. QED  BY <1>1, <1>2 DEF Blamed

\* An event makes an ad invalid that is the first of its break, or to blame.
LEMMA InvalidateBlames ==
    ASSUME NEW brks, BreaksOK(brks), NEW failed, Blamed(brks, failed), NEW e,
           LET c == e.invalid[1]
               l == e.invalid[2] IN
           c # 0 /\ c \in DOMAIN brks /\ l \in 1..Len(brks[c].ads) /\ l # 1 =>
             brks[c].ads[l].req \in failed \/ brks[c].ads[l - 1].req \in failed
    PROVE  LET r == Invalidate(brks, e) IN
           /\ BreaksOK(r) /\ Blamed(r, failed) /\ DOMAIN r = DOMAIN brks
           /\ \A b \in DOMAIN brks :
                /\ Len(r[b].ads) = Len(brks[b].ads)
                /\ \A k \in 1..Len(brks[b].ads) : r[b].ads[k].req = brks[b].ads[k].req
<1>. DEFINE c == e.invalid[1]
            l == e.invalid[2]
            r == Invalidate(brks, e)
            ads == brks[c].ads
            ad == [ads[l] EXCEPT !.invalid = TRUE]
            ads1 == [ads EXCEPT ![l] = ad]
<1>1. CASE c = 0
  BY <1>1 DEF Invalidate
<1>2. CASE c # 0 /\ c \notin DOMAIN brks
  <2>1. r = [brks EXCEPT ![c].ads[l].invalid = TRUE]
    BY <1>2 DEF Invalidate
  <2>2. DOMAIN r = DOMAIN brks /\ \A b \in DOMAIN brks : r[b] = brks[b]
    <3>. HIDE DEF r, c, l
    <3>. QED  BY <1>2, <2>1
  <2>. HIDE DEF r
  <2>3. BreaksOK(r) /\ Blamed(r, failed)
    BY <2>2 DEF BreaksOK, Blamed
  <2>. QED  BY <2>2, <2>3 DEF r
<1>3. CASE c # 0 /\ c \in DOMAIN brks
  <2>1. r = [brks EXCEPT ![c] = [brks[c] EXCEPT !.ads = ads1]]
    BY <1>3 DEF Invalidate
  <2>2. BreakOK(brks[c]) /\ IsSequence(ads) /\ Len(ads) \in Nat /\ DOMAIN ads = 1..Len(ads)
    BY <1>3, SequenceParts DEF BreaksOK, BreakOK, AdsOK
  <2>3. l \in 1..Len(ads) => AdFields \subseteq DOMAIN ad /\ ad.req = ads[l].req
    BY <2>2 DEF BreakOK, AdsOK, AdFields
  <2>. HIDE DEF ad, ads1, r, c, l
  <2>4. /\ DOMAIN r = DOMAIN brks /\ r[c].ads = ads1 /\ "ads" \in DOMAIN r[c]
        /\ \A b \in DOMAIN brks : b # c => r[b] = brks[b]
    <3>. HIDE DEF ads
    <3>. QED  BY <1>3, <2>1, <2>2 DEF BreakOK
  <2>. HIDE DEF ads
  <2>5. /\ IsSequence(ads1) /\ Len(ads1) = Len(ads)
        /\ l \in 1..Len(ads) => ads1[l] = ad
        /\ \A i \in 1..Len(ads) : i # l => ads1[i] = ads[i]
    <3>1. CASE l \in 1..Len(ads)
      BY <2>2, <3>1, Edited DEF ads1
    <3>2. CASE l \notin 1..Len(ads)
      <4>1. ads = [i \in DOMAIN ads |-> ads[i]]
        BY <2>2 DEF IsSequence
      <4>2. ads1 = ads
        BY <2>2, <3>2, <4>1 DEF ads1
      <4>. QED  BY <2>2, <3>2, <4>2
    <3>. QED  BY <3>1, <3>2
  <2>6. AdsOK(ads1) /\ \A k \in 1..Len(ads) : ads1[k].req = ads[k].req
    BY <2>2, <2>3, <2>5 DEF BreakOK, AdsOK, ads
  <2>7. BreaksOK(r)
    BY <2>4, <2>6 DEF BreaksOK, BreakOK
  <2>8. \A b \in DOMAIN brks :
          /\ Len(r[b].ads) = Len(brks[b].ads)
          /\ \A k \in 1..Len(brks[b].ads) : r[b].ads[k].req = brks[b].ads[k].req
    BY <2>4, <2>5, <2>6 DEF ads
  <2>9. ASSUME NEW b \in DOMAIN r, NEW k \in 1..Len(r[b].ads), k # 1, r[b].ads[k].invalid
        PROVE  r[b].ads[k].req \in failed \/ r[b].ads[k - 1].req \in failed
    <3>1. CASE b # c
      BY <2>4, <2>9, <3>1 DEF Blamed
    <3>2. CASE b = c
      <4>1. k \in 1..Len(ads) /\ k - 1 \in 1..Len(ads) /\ ads1[k].invalid
        BY <2>2, <2>4, <2>5, <2>9, <3>2
      <4>2. ads[k].req \in failed \/ ads[k - 1].req \in failed
        <5>1. CASE k = l
          BY <1>3, <2>9, <4>1, <5>1 DEF ads, c, l
        <5>2. CASE k # l
          BY <1>3, <2>5, <2>9, <4>1, <5>2 DEF ads, Blamed
        <5>. QED  BY <5>1, <5>2
      <4>. QED  BY <2>4, <2>6, <3>2, <4>1, <4>2
    <3>. QED  BY <3>1, <3>2
  <2>. QED  BY <2>4, <2>7, <2>8, <2>9 DEF Blamed, r
<1>. QED  BY <1>1, <1>2, <1>3

\* What an event of a period does to the ad that is played, or has been.
LEMMA PeriodChangeBlames ==
    ASSUME DaiOK(dai), NEW p, NEW off, NEW huge
    PROVE  LET e == PeriodChange(p, off, huge) IN
           /\ e.invalid[1] # 0 => e.invalid[2] = 1
           /\ e.dai.mAdFailed = dai.mAdFailed
           /\ dai.mAdState \in {"playing", "wait"} /\ e.dai.mAdState = "playing" =>
                e.dai.mCurAds = dai.mCurAds
                  /\ e.dai.mCurAdIdx \in {dai.mCurAdIdx, dai.mCurAdIdx + 1}
<1>. DEFINE e == PeriodChange(p, off, huge)
            Fine(x) == /\ x.invalid[1] # 0 => x.invalid[2] = 1
                       /\ x.dai.mAdFailed = dai.mAdFailed
                       /\ dai.mAdState \in {"playing", "wait"} /\ x.dai.mAdState = "playing" =>
                            x.dai.mCurAds = dai.mCurAds
                              /\ x.dai.mCurAdIdx \in {dai.mCurAdIdx, dai.mCurAdIdx + 1}
<1>1. Fine(Unchanged)
  BY DEF Unchanged
<1>2. CASE dai.mAdState = "outside"
  <2>. DEFINE s == CheckForAdStart(p, off, huge)
              d == [dai EXCEPT !.mCurPlayingBreakId = s.brk, !.mAdState = "not_playing"]
  <2>1. DaiOK(d) /\ d.mAdFailed = dai.mAdFailed
    <3>. HIDE DEF s
    <3>. QED  BY DEF DaiOK, DaiFields, AdStates
  <2>2. e = OutsideAdbreak(p, off, huge)
    BY <1>2 DEF PeriodChange
  <2>3. e.invalid = <<0, 0>> /\ e.dai \in {dai, d, Playing(d, s.brk, s.adIdx)}
    <3>. HIDE DEF e
    <3>. QED  BY <2>2 DEF OutsideAdbreak, Unchanged
  <2>. HIDE DEF e, s, d
  <2>4. Fine(e)
    BY <1>2, <2>1, <2>3, PlayingState
  <2>. QED  BY <2>4 DEF e
<1>3. CASE dai.mAdState = "not_playing"
  <2>. DEFINE s == CheckForAdStart(p, off, huge)
  <2>1. e = AdNotPlaying(p, off, huge)
    BY <1>3 DEF PeriodChange
  <2>2. /\ e.invalid = <<0, 0>> \/ (e.invalid = <<s.brk, s.adIdx>> /\ Late(s, off))
        /\ e.dai \in {dai, Playing(dai, s.brk, s.adIdx), Outside(dai)}
    <3>. HIDE DEF e, s
    <3>. QED  BY <2>1 DEF AdNotPlaying, Unchanged, s
  <2>. HIDE DEF e, s
  <2>3. Fine(e)
    BY <1>3, <2>2, PlayingState DEF Late
  <2>. QED  BY <2>3 DEF e
<1>4. CASE dai.mAdState = "playing"
  BY <1>1, <1>4 DEF PeriodChange
<1>5. CASE dai.mAdState = "wait"
  <2>. DEFINE k == dai.mCurAdIdx + 1
              o == [Outside(dai) EXCEPT
                      !.mContentSeekOffset = mAdBreaks[dai.mCurPlayingBreakId].endPeriodOffset]
              n == [dai EXCEPT !.mAdState = "not_playing", !.mCurAdIdx = k]
  <2>1. e = WaitToCatchup
    BY <1>5 DEF PeriodChange
  <2>2. e.invalid = <<0, 0>> /\ e.dai \in {dai, o, n, Playing(dai, dai.mCurAds, k)}
    <3>. HIDE DEF e
    <3>. QED  BY <2>1 DEF WaitToCatchup, Unchanged
  <2>3. /\ o.mAdFailed = dai.mAdFailed /\ o.mAdState = "outside"
        /\ n.mAdFailed = dai.mAdFailed /\ n.mAdState = "not_playing"
    BY PlayingState DEF DaiOK, DaiFields
  <2>. HIDE DEF e, o, n
  <2>4. Fine(e)
    BY <1>5, <2>2, <2>3, PlayingState
  <2>. QED  BY <2>4 DEF e
<1>. QED  BY <1>2, <1>3, <1>4, <1>5 DEF DaiOK, AdStates

\* The timeline that is read next while an ad is played is the old one or that of the ad.
LEMMA NextOfAd ==
    ASSUME NEW d, NEW p, d.mAdState = "playing"
    PROVE  NextSource(d, p) = source \/ NextSource(d, p).ad = RequestOf(d)
<1>1. NextSource(d, p) = source \/ NextSource(d, p) = AdSource(RequestOf(d))
  BY DEF NextSource
<1>. QED  BY <1>1 DEF AdSource

\* The collector enters a period: a failure is acted on.
LEMMA BlameAtEnter ==
    ASSUME BlameInv, PlayingAdAlive, EnterPeriod
    PROVE  /\ HistoryOK(history') /\ BreaksOK(mAdBreaks')
           /\ Blamed(mAdBreaks', history'.failed) /\ Flagged(dai', mAdBreaks', history'.failed)
<1>0. PICK huge \in BOOLEAN : \E initFails \in BOOLEAN :
       Enters(AtPeriod(huge).e, NextSource(AtPeriod(huge).e.dai, PeriodAt(AtPeriod(huge).idx)),
              initFails)
  BY DEF EnterPeriod
<1>. DEFINE at == AtPeriod(huge)
            next == NextSource(at.e.dai, PeriodAt(at.idx))
            e == at.e
<1>1. PICK initFails \in BOOLEAN : Enters(at.e, next, initFails)
  BY <1>0
<1>. DEFINE fails == dai.mAdFailed \/ initFails
<1>2. PICK e2 \in {IF fails THEN AdFailed(e.dai) ELSE [Unchanged EXCEPT !.dai = e.dai]} :
        /\ mAdBreaks' = Invalidate(Invalidate(mAdBreaks, e), e2)
        /\ dai' = [e2.dai EXCEPT !.mAdFailed = FALSE, !.mContentSeekOffset = 0]
        /\ history' = [Report(Report(history, e), e2) EXCEPT
                         !.failed = IF initFails THEN @ \cup {next.ad} ELSE @,
                         !.again = @ \/ e2.changed]
  BY <1>1 DEF Enters
<1>3. \E p, off, h : e = PeriodChange(p, off, h)
  BY DEF AtPeriod
<1>4. /\ DaiOK(dai) /\ BreaksOK(mAdBreaks) /\ HistoryOK(history)
      /\ Blamed(mAdBreaks, history.failed) /\ Flagged(dai, mAdBreaks, history.failed)
  BY DEF BlameInv, KeptInv, Kept
<1>5. DaiOK(e.dai) /\ e.dai.mAdFailed = dai.mAdFailed
        /\ (e.invalid[1] # 0 => e.invalid[2] = 1)
        /\ (dai.mAdState \in {"playing", "wait"} /\ e.dai.mAdState = "playing" =>
              e.dai.mCurAds = dai.mCurAds
                /\ e.dai.mCurAdIdx \in {dai.mCurAdIdx, dai.mCurAdIdx + 1})
  BY <1>3, <1>4, PeriodChangeBlames, PeriodChangeTells DEF Tells
<1>6. initFails /\ e.dai.mAdState = "playing" => next.ad = RequestOf(e.dai)
  <2>1. initFails => next # source
    BY <1>1 DEF Enters
  <2>2. e.dai.mAdState = "playing" => next = source \/ next.ad = RequestOf(e.dai)
    BY NextOfAd
  <2>. HIDE DEF next, e
  <2>. QED  BY <2>1, <2>2
<1>. HIDE DEF e, at
<1>. DEFINE more == IF initFails THEN history.failed \cup {next.ad} ELSE history.failed
            b1 == Invalidate(mAdBreaks, e)
            b2 == Invalidate(b1, e2)
<1>7. HistoryOK(history') /\ history'.failed = more
  <2>. DEFINE h == Report(Report(history, e), e2)
  <2>1. HistoryOK(h) /\ h.failed = history.failed
    BY <1>4, ReportFields
  <2>2. history' = [h EXCEPT !.failed = IF initFails THEN @ \cup {next.ad} ELSE @,
                             !.again = @ \/ e2.changed]
    BY <1>2
  <2>. HIDE DEF h, next
  <2>. QED  BY <2>1, <2>2 DEF HistoryOK
<1>8. Blamed(mAdBreaks, more)
  <2>. HIDE DEF next
  <2>. QED  BY <1>4 DEF Blamed
<1>. HIDE DEF more, next
<1>9. /\ BreaksOK(b1) /\ Blamed(b1, more) /\ DOMAIN b1 = DOMAIN mAdBreaks
      /\ \A b \in DOMAIN mAdBreaks :
           /\ Len(b1[b].ads) = Len(mAdBreaks[b].ads)
           /\ \A k \in 1..Len(mAdBreaks[b].ads) : b1[b].ads[k].req = mAdBreaks[b].ads[k].req
  BY <1>4, <1>5, <1>8, InvalidateBlames
<1>. HIDE DEF b1
<1>10. ASSUME e2.invalid[1] # 0, e2.invalid[1] \in DOMAIN b1,
              e2.invalid[2] \in 1..Len(b1[e2.invalid[1]].ads), e2.invalid[2] # 1
       PROVE  \/ b1[e2.invalid[1]].ads[e2.invalid[2]].req \in more
              \/ b1[e2.invalid[1]].ads[e2.invalid[2] - 1].req \in more
  <2>. DEFINE c == e.dai.mCurAds
              l == e.dai.mCurAdIdx
  <2>1. fails /\ e.dai.mAdState = "playing" /\ e2.invalid = <<c, l>>
    <3>1. ~fails => e2.invalid = <<0, 0>>
      BY <1>2 DEF Unchanged
    <3>2. fails => e2 = AdFailed(e.dai)
      BY <1>2
    <3>3. fails /\ e.dai.mAdState # "playing" => e2.invalid = <<0, 0>>
      BY <3>2 DEF AdFailed, Unchanged
    <3>4. fails /\ e.dai.mAdState = "playing" => e2.invalid = <<c, l>>
      BY <3>2 DEF AdFailed, Unchanged
    <3>. HIDE DEF fails
    <3>. QED  BY <1>10, <3>1, <3>3, <3>4
  <2>2. c \in DOMAIN mAdBreaks /\ l \in 1..Len(mAdBreaks[c].ads) /\ l # 1
    BY <1>9, <1>10, <2>1
  <2>3. Len(mAdBreaks[c].ads) \in Nat
    BY <1>4, <2>2, SequenceParts DEF BreaksOK, BreakOK, AdsOK
  <2>4. l - 1 \in 1..Len(mAdBreaks[c].ads)
    BY <2>2, <2>3
  <2>5. mAdBreaks[c].ads[l].req \in more \/ mAdBreaks[c].ads[l - 1].req \in more
    <3>1. CASE dai.mAdFailed
      <4>1. /\ dai.mAdState \in {"playing", "wait"}
            /\ mAdBreaks[dai.mCurAds].ads[dai.mCurAdIdx].req \in history.failed
        BY <1>4, <3>1 DEF Flagged
      <4>2. c = dai.mCurAds /\ l \in {dai.mCurAdIdx, dai.mCurAdIdx + 1}
        BY <1>5, <2>1, <4>1
      <4>3. dai.mCurAdIdx \in DOMAIN mAdBreaks[dai.mCurAds].ads
        BY <4>1 DEF PlayingAdAlive
      <4>4. dai.mCurAdIdx \in Nat
        <5>1. dai.mCurAds \in DOMAIN mAdBreaks
          BY <2>2, <4>2
        <5>2. DOMAIN mAdBreaks[dai.mCurAds].ads = 1..Len(mAdBreaks[dai.mCurAds].ads)
          BY <1>4, <5>1, SequenceParts DEF BreaksOK, BreakOK, AdsOK
        <5>. QED  BY <4>3, <5>2
      <4>5. dai.mCurAdIdx \in {l, l - 1}
        BY <4>2, <4>4
      <4>. QED  BY <4>1, <4>2, <4>5 DEF more
    <3>2. CASE ~dai.mAdFailed
      <4>1. initFails
        BY <2>1, <3>2
      <4>2. next.ad = mAdBreaks[c].ads[l].req
        BY <1>6, <2>1, <4>1 DEF RequestOf
      <4>. QED  BY <4>1, <4>2 DEF more
    <3>. QED  BY <3>1, <3>2
  <2>6. e2.invalid[1] = c /\ e2.invalid[2] = l
    BY <2>1
  <2>. HIDE DEF c, l
  <2>. QED  BY <1>9, <2>2, <2>4, <2>5, <2>6
<1>11. BreaksOK(b2) /\ Blamed(b2, more)
  BY <1>9, <1>10, InvalidateBlames
<1>12. Flagged(dai', mAdBreaks', history'.failed)
  <2>1. DaiOK(e2.dai)
    <3>1. fails => e2.dai = AdFailed(e.dai).dai
      BY <1>2
    <3>2. ~fails => e2.dai = e.dai
      BY <1>2 DEF Unchanged
    <3>3. DaiOK(AdFailed(e.dai).dai)
      BY <1>5, AdFailedTells DEF Tells
    <3>. QED  BY <1>5, <3>1, <3>2, <3>3
  <2>2. dai'.mAdFailed = FALSE
    BY <1>2, <2>1 DEF DaiOK, DaiFields
  <2>. QED  BY <2>2 DEF Flagged
<1>. QED  BY <1>2, <1>7, <1>11, <1>12 DEF b1

\* A refresh leaves the ads there are.
LEMMA GrowsAtRefresh ==
    ASSUME BlameInv, Refresh
    PROVE  Grows(mAdBreaks, mAdBreaks')
<1>. DEFINE m == Manifest(published)
            s0 == [breaks |-> mAdBreaks, map |-> mPeriodMap]
            found == FindTimedMetadata(s0, m, FALSE)
            pruned == PrunePeriodMaps(found, m)
            placed == PlaceAds(pruned, m)
<1>1. mAdBreaks' = placed.breaks
  BY DEF Refresh
<1>2. Len(PeriodIds(m)) \in Nat
  <2>1. published \in 1..Total /\ stream \in Streams
    BY DEF BlameInv, KeptInv, MpdOK
  <2>. QED  BY <2>1, PeriodsOf
<1>. HIDE DEF m
<1>3. \A b \in DOMAIN found.breaks :
        IF b \in DOMAIN mAdBreaks THEN found.breaks[b] = mAdBreaks[b]
        ELSE found.breaks[b] = AdBreakObject(b)
  BY DEF FindTimedMetadata
<1>. HIDE DEF found
<1>4. \A b \in DOMAIN pruned.breaks : b \in DOMAIN found.breaks /\ pruned.breaks[b] = found.breaks[b]
  BY DEF PrunePeriodMaps
<1>. HIDE DEF pruned
<1>5. \A b : "ads" \in DOMAIN AdBreakObject(b) /\ AdsOK(AdBreakObject(b).ads)
               /\ Len(AdBreakObject(b).ads) = 0
  <2>1. <<>> \in Seq(ToSet(<<>>)) /\ Len(<<>>) = 0
    OBVIOUS
  <2>. QED  BY <2>1 DEF AdBreakObject, AdsOK, IsSequence
<1>6. \A b \in DOMAIN pruned.breaks : BreakOK(pruned.breaks[b])
  BY <1>3, <1>4, <1>5 DEF BlameInv, BreaksOK, BreakOK
<1>7. /\ DOMAIN placed.breaks = DOMAIN pruned.breaks
      /\ \A b \in DOMAIN pruned.breaks :
           BreakOK(placed.breaks[b]) /\ SameAds(pruned.breaks[b].ads, placed.breaks[b].ads)
  BY <1>2, <1>6, PlaceAdsKeeps
<1>. HIDE DEF placed
<1>8. ASSUME NEW b \in DOMAIN placed.breaks
      PROVE  /\ "ads" \in DOMAIN placed.breaks[b] /\ AdsOK(placed.breaks[b].ads)
             /\ IF b \in DOMAIN mAdBreaks THEN Grown(mAdBreaks[b].ads, placed.breaks[b].ads)
                ELSE Len(placed.breaks[b].ads) = 0
  <2>1. BreakOK(placed.breaks[b]) /\ SameAds(pruned.breaks[b].ads, placed.breaks[b].ads)
    BY <1>7
  <2>2. CASE b \in DOMAIN mAdBreaks
    <3>1. pruned.breaks[b] = mAdBreaks[b] /\ AdsOK(mAdBreaks[b].ads)
      BY <1>3, <1>4, <1>7, <2>2 DEF BlameInv, BreaksOK, BreakOK
    <3>. QED  BY <2>1, <2>2, <3>1, SameAdsGrown DEF BreakOK
  <2>3. CASE b \notin DOMAIN mAdBreaks
    <3>1. Len(pruned.breaks[b].ads) = 0
      BY <1>3, <1>4, <1>5, <1>7, <2>3
    <3>. QED  BY <2>1, <2>3, <3>1 DEF SameAds, BreakOK
  <2>. QED  BY <2>2, <2>3
<1>. QED  BY <1>1, <1>8 DEF Grows

\* An ad that has been resolved becomes the last one of its break.
LEMMA GrowsAtFulFill ==
    ASSUME BlameInv, FulFillAdObject
    PROVE  Grows(mAdBreaks, mAdBreaks')
<1>. DEFINE b == stream.ads[resolving].brk
            brk == mAdBreaks[b]
            first == brk.ads = <<>>
            duration == Min({brk.brkDuration - brk.adsDuration, AdLength(resolving)})
            ad == [req |-> resolving, invalid |-> FALSE, placed |-> FALSE, duration |-> duration,
                   basePeriodId |-> IF first THEN b ELSE 0,
                   basePeriodOffset |-> IF first THEN 0 ELSE -1]
            ads1 == Append(brk.ads, ad)
<1>1. BreaksOK(mAdBreaks)
  BY DEF BlameInv
<1>2. \A c \in DOMAIN mAdBreaks :
        BreakOK(mAdBreaks[c]) /\ Grown(mAdBreaks[c].ads, mAdBreaks[c].ads)
  BY <1>1, SameAdsTwice DEF BreaksOK, BreakOK
<1>3. CASE b \notin DOMAIN mAdBreaks
  <2>1. mAdBreaks' = mAdBreaks
    BY <1>3 DEF FulFillAdObject, breaks
  <2>. QED  BY <1>2, <2>1 DEF Grows, BreakOK
<1>4. CASE b \in DOMAIN mAdBreaks
  <2>1. mAdBreaks' = [mAdBreaks EXCEPT ![b] = [brk EXCEPT !.ads = Append(@, ad),
                                                          !.adsDuration = @ + duration]]
    BY <1>4 DEF FulFillAdObject
  <2>2. BreakOK(brk) /\ IsSequence(brk.ads) /\ Len(brk.ads) \in Nat
    BY <1>1, <1>4, SequenceParts DEF BreaksOK, BreakOK, AdsOK
  <2>3. AdFields \subseteq DOMAIN ad /\ ~ad.invalid
    BY DEF AdFields
  <2>. HIDE DEF ad, duration, first
  <2>4. /\ DOMAIN mAdBreaks' = DOMAIN mAdBreaks
        /\ "ads" \in DOMAIN mAdBreaks'[b] /\ mAdBreaks'[b].ads = ads1
        /\ \A c \in DOMAIN mAdBreaks : c # b => mAdBreaks'[c] = mAdBreaks[c]
    <3>. HIDE DEF b
    <3>. QED  BY <1>4, <2>1, <2>2 DEF BreakOK
  <2>5. /\ IsSequence(ads1) /\ Len(ads1) = Len(brk.ads) + 1 /\ ads1[Len(brk.ads) + 1] = ad
        /\ \A k \in 1..Len(brk.ads) : ads1[k] = brk.ads[k]
    <3>. HIDE DEF brk
    <3>. QED  BY <2>2, Appended
  <2>. HIDE DEF ads1, brk, b
  <2>6. \A k \in 1..Len(ads1) : k \in 1..Len(brk.ads) \/ k = Len(brk.ads) + 1
    BY <2>2, <2>5
  <2>7. AdsOK(ads1) /\ Grown(brk.ads, ads1)
    BY <2>2, <2>3, <2>5, <2>6 DEF BreakOK, AdsOK, Grown
  <2>. QED  BY <1>2, <1>4, <2>4, <2>7 DEF Grows, BreakOK, brk
<1>. QED  BY <1>3, <1>4

\* The steps that leave what the collector plays.
LEMMA BlameAtGrowth ==
    ASSUME BlameInv, PlayingAdAlive, PlayingAdAlive', UNCHANGED <<dai, history>>,
           Grows(mAdBreaks, mAdBreaks')
    PROVE  /\ HistoryOK(history') /\ BreaksOK(mAdBreaks')
           /\ Blamed(mAdBreaks', history'.failed) /\ Flagged(dai', mAdBreaks', history'.failed)
<1>1. BreaksOK(mAdBreaks') /\ Blamed(mAdBreaks', history.failed)
  BY GrowthBlames DEF BlameInv
<1>2. ASSUME dai.mAdFailed
      PROVE  /\ dai.mAdState \in {"playing", "wait"}
             /\ mAdBreaks'[dai.mCurAds].ads[dai.mCurAdIdx].req \in history.failed
  <2>. DEFINE c == dai.mCurAds
              l == dai.mCurAdIdx
  <2>1. /\ dai.mAdState \in {"playing", "wait"}
        /\ mAdBreaks[c].ads[l].req \in history.failed
    BY <1>2 DEF BlameInv, Flagged
  <2>2. c \in DOMAIN mAdBreaks /\ l \in DOMAIN mAdBreaks[c].ads /\ c \in DOMAIN mAdBreaks'
    BY <2>1 DEF PlayingAdAlive
  <2>3. l \in 1..Len(mAdBreaks[c].ads)
    BY <2>2, SequenceParts DEF BlameInv, BreaksOK, BreakOK, AdsOK
  <2>4. Grown(mAdBreaks[c].ads, mAdBreaks'[c].ads)
    BY <2>2 DEF Grows
  <2>5. mAdBreaks'[c].ads[l].req = mAdBreaks[c].ads[l].req
    BY <2>3, <2>4 DEF Grown
  <2>. QED  BY <2>1, <2>5
<1>3. Flagged(dai', mAdBreaks', history'.failed)
  BY <1>2 DEF Flagged
<1>. QED  BY <1>1, <1>3 DEF BlameInv

\* The content goes on, or an event ends it; no failure is pending then.
LEMMA BlameAtGoOn ==
    ASSUME BlameInv, GoOn
    PROVE  /\ HistoryOK(history') /\ BreaksOK(mAdBreaks')
           /\ Blamed(mAdBreaks', history'.failed) /\ Flagged(dai', mAdBreaks', history'.failed)
<1>0. PICK huge \in BOOLEAN :
        \E e \in {IF mBasePeriodOffset # lastPrdOffset /\ dai.mAdState = "not_playing"
                 THEN AdNotPlaying(mBasePeriodId, mBasePeriodOffset, huge) ELSE Unchanged} :
          dai' = e.dai /\ mAdBreaks' = Invalidate(mAdBreaks, e) /\ history' = Report(history, e)
  BY DEF GoOn
<1>1. PICK e \in {IF mBasePeriodOffset # lastPrdOffset /\ dai.mAdState = "not_playing"
                 THEN AdNotPlaying(mBasePeriodId, mBasePeriodOffset, huge) ELSE Unchanged} :
        dai' = e.dai /\ mAdBreaks' = Invalidate(mAdBreaks, e) /\ history' = Report(history, e)
  BY <1>0
<1>2. /\ DaiOK(dai) /\ BreaksOK(mAdBreaks) /\ HistoryOK(history)
      /\ Blamed(mAdBreaks, history.failed) /\ Flagged(dai, mAdBreaks, history.failed)
  BY DEF BlameInv, KeptInv, Kept
<1>3. HistoryOK(history') /\ history'.failed = history.failed
  BY <1>1, <1>2, ReportFields
<1>4. CASE e = Unchanged
  <2>1. mAdBreaks' = mAdBreaks /\ dai' = dai
    BY <1>1, <1>4 DEF Invalidate, Unchanged
  <2>2. Flagged(dai', mAdBreaks', history'.failed)
    BY <1>2, <1>3, <2>1
  <2>3. BreaksOK(mAdBreaks') /\ Blamed(mAdBreaks', history'.failed)
    BY <1>2, <1>3, <2>1
  <2>. QED  BY <1>3, <2>2, <2>3
<1>5. CASE dai.mAdState = "not_playing" /\ e = AdNotPlaying(mBasePeriodId, mBasePeriodOffset, huge)
  <2>1. e = PeriodChange(mBasePeriodId, mBasePeriodOffset, huge)
    BY <1>5 DEF PeriodChange
  <2>2. (e.invalid[1] # 0 => e.invalid[2] = 1) /\ e.dai.mAdFailed = dai.mAdFailed
    BY <1>2, <2>1, PeriodChangeBlames
  <2>3. ~dai.mAdFailed
    BY <1>2, <1>5 DEF Flagged
  <2>4. Flagged(dai', mAdBreaks', history'.failed)
    BY <1>1, <2>2, <2>3 DEF Flagged
  <2>5. BreaksOK(mAdBreaks') /\ Blamed(mAdBreaks', history.failed)
    BY <1>1, <1>2, <2>2, InvalidateBlames
  <2>. QED  BY <1>3, <2>4, <2>5
<1>. QED  BY <1>1, <1>4, <1>5

\* A fragment of an ad fails: it is one of the ad that is played.
LEMMA BlameAtFetch ==
    ASSUME BlameInv, FetchAd
    PROVE  /\ HistoryOK(history') /\ BreaksOK(mAdBreaks')
           /\ Blamed(mAdBreaks', history'.failed) /\ Flagged(dai', mAdBreaks', history'.failed)
<1>. DEFINE d == stream.ads[source.ad].frags[source.next]
            r == mAdBreaks[dai.mCurAds].ads[dai.mCurAdIdx].req
<1>1. /\ DaiOK(dai) /\ BreaksOK(mAdBreaks) /\ HistoryOK(history)
      /\ Blamed(mAdBreaks, history.failed) /\ Flagged(dai, mAdBreaks, history.failed)
  BY DEF BlameInv, KeptInv, Kept
<1>2. mAdBreaks' = mAdBreaks
  BY DEF FetchAd, breaks
<1>3. \/ dai' = dai /\ (history' = history \/ history' = [history EXCEPT !.adTime = @ + d])
      \/ /\ history' = [history EXCEPT !.adTime = @ + d, !.failed = @ \cup {r}]
         /\ dai' = [dai EXCEPT !.mAdFailed =
                      \/ @
                      \/ dai.mAdState = "playing" /\ segDLFailCount' = MaxAdSegFail]
  BY DEF FetchAd, RequestOf
<1>. HIDE DEF d, r
<1>4. /\ HistoryOK(history') /\ history.failed \subseteq history'.failed
      /\ dai' # dai => r \in history'.failed
  BY <1>1, <1>3 DEF HistoryOK
<1>5. Blamed(mAdBreaks', history'.failed)
  BY <1>1, <1>2, <1>4 DEF Blamed
<1>6. Flagged(dai', mAdBreaks', history'.failed)
  <2>1. CASE dai' = dai
    BY <1>1, <1>2, <1>4, <2>1 DEF Flagged
  <2>2. CASE dai' # dai
    <3>1. /\ dai'.mAdState = dai.mAdState /\ dai'.mCurAds = dai.mCurAds
          /\ dai'.mCurAdIdx = dai.mCurAdIdx
      BY <1>1, <1>3, <2>2 DEF DaiOK, DaiFields
    <3>2. dai'.mAdFailed => dai.mAdFailed \/ dai.mAdState = "playing"
      BY <1>1, <1>3, <2>2, Zenon DEF DaiOK, DaiFields
    <3>. QED  BY <1>1, <1>2, <1>4, <2>2, <3>1, <3>2 DEF Flagged, r
  <2>. QED  BY <2>1, <2>2
<1>. QED  BY <1>1, <1>2, <1>4, <1>5, <1>6

\* The other steps leave the ads; an ad that ends is still the one that is played.
LEMMA BlameAtOther ==
    ASSUME BlameInv,
           \/ SkipEmptyPeriod \/ AwaitPlacement \/ KeepPeriod \/ PeriodsEnd \/ FetchContent
           \/ AdEnds \/ PeriodEnds \/ SetAlternateContents \/ FulFillFails \/ Publish
           \/ UNCHANGED vars
    PROVE  /\ HistoryOK(history') /\ BreaksOK(mAdBreaks')
           /\ Blamed(mAdBreaks', history'.failed) /\ Flagged(dai', mAdBreaks', history'.failed)
<1>1. /\ DaiOK(dai) /\ BreaksOK(mAdBreaks) /\ HistoryOK(history)
      /\ Blamed(mAdBreaks, history.failed) /\ Flagged(dai, mAdBreaks, history.failed)
  BY DEF BlameInv, KeptInv, Kept
<1>2. mAdBreaks' = mAdBreaks
  BY DEF SkipEmptyPeriod, AwaitPlacement, KeepPeriod, PeriodsEnd, FetchContent, AdEnds,
         PeriodEnds, SetAlternateContents, FulFillFails, Publish, vars, breaks
<1>3. HistoryOK(history') /\ history'.failed = history.failed
  <2>1. CASE FetchContent
    <3>1. history' = history \/ history' = FetchedContent(history, source.next)
      BY <2>1 DEF FetchContent
    <3>. QED  BY <1>1, <3>1 DEF FetchedContent, HistoryOK
  <2>2. CASE AdEnds
    BY <1>1, <2>2, ReportFields DEF AdEnds
  <2>3. CASE ~FetchContent /\ ~AdEnds
    <3>1. history' = history
      BY <2>3 DEF SkipEmptyPeriod, AwaitPlacement, KeepPeriod, PeriodsEnd, PeriodEnds,
                  SetAlternateContents, FulFillFails, Publish, vars
    <3>. QED  BY <1>1, <3>1
  <2>. QED  BY <2>1, <2>2, <2>3
<1>4. Flagged(dai', mAdBreaks', history'.failed)
  <2>1. CASE AdEnds
    <3>1. dai.mAdState = "playing" /\ dai' = [dai EXCEPT !.mAdState = "wait"]
      BY <2>1 DEF AdEnds, AdFinished, Unchanged
    <3>2. /\ dai'.mAdState = "wait" /\ dai'.mAdFailed = dai.mAdFailed
          /\ dai'.mCurAds = dai.mCurAds /\ dai'.mCurAdIdx = dai.mCurAdIdx
      BY <1>1, <3>1 DEF DaiOK, DaiFields
    <3>. QED  BY <1>1, <1>2, <1>3, <3>2 DEF Flagged
  <2>2. CASE ~AdEnds
    <3>1. dai' = dai
      BY <2>2 DEF SkipEmptyPeriod, AwaitPlacement, KeepPeriod, PeriodsEnd, FetchContent,
                  PeriodEnds, SetAlternateContents, FulFillFails, Publish, vars
    <3>. QED  BY <1>1, <1>2, <1>3, <3>1
  <2>. QED  BY <2>1, <2>2
<1>5. BreaksOK(mAdBreaks') /\ Blamed(mAdBreaks', history'.failed)
  BY <1>1, <1>2, <1>3
<1>. QED  BY <1>3, <1>4, <1>5

LEMMA BlameStep ==
    ASSUME BlameInv, PlayingAdAlive, PlayingAdAlive', KeptInv', [Next]_vars
    PROVE  BlameInv'
<1>. DEFINE Goal == /\ HistoryOK(history') /\ BreaksOK(mAdBreaks')
                    /\ Blamed(mAdBreaks', history'.failed)
                    /\ Flagged(dai', mAdBreaks', history'.failed)
<1>. SUFFICES Goal
  BY DEF BlameInv
<1>1. CASE EnterPeriod
  BY <1>1, BlameAtEnter
<1>2. CASE Refresh
  <2>1. UNCHANGED <<dai, history>>
    BY <1>2 DEF Refresh
  <2>. QED  BY <1>2, <2>1, GrowsAtRefresh, BlameAtGrowth
<1>3. CASE FulFillAdObject
  <2>1. UNCHANGED <<dai, history>>
    BY <1>3 DEF FulFillAdObject
  <2>. QED  BY <1>3, <2>1, GrowsAtFulFill, BlameAtGrowth
<1>4. CASE GoOn
  BY <1>4, BlameAtGoOn
<1>5. CASE FetchAd
  BY <1>5, BlameAtFetch
<1>6. CASE \/ SkipEmptyPeriod \/ AwaitPlacement \/ KeepPeriod \/ PeriodsEnd \/ FetchContent
           \/ AdEnds \/ PeriodEnds \/ SetAlternateContents \/ FulFillFails \/ Publish
           \/ UNCHANGED vars
  BY <1>6, BlameAtOther
<1>. HIDE DEF Goal
<1>. QED  BY <1>1, <1>2, <1>3, <1>4, <1>5, <1>6 DEF Next, CollectorMoves

\* A failure that is noticed late costs no ad but the one that failed, the one right behind it
\* or the first of a break, for every stream and whatever fails, as long as the ad that the
\* collector plays is there (without it the code reads an element that is not: mCurAds->at).
THEOREM FailuresCostNeighbours == Spec /\ []PlayingAdAlive => []FailureCostsNeighbour
<1>1. Init => KeptInv /\ BlameInv
  <2>. SUFFICES ASSUME Init PROVE KeptInv /\ BlameInv
    OBVIOUS
  <2>1. KeptInv
    BY KeptInit
  <2>2. HistoryOK(history) /\ ~dai.mAdFailed
    BY DEF Init, HistoryOK
  <2>3. \A b \in DOMAIN mAdBreaks : mAdBreaks[b] = AdBreakObject(b)
    BY DEF Init, FindTimedMetadata
  <2>4. <<>> \in Seq(ToSet(<<>>)) /\ Len(<<>>) = 0
    OBVIOUS
  <2>5. \A b : BreakOK(AdBreakObject(b)) /\ Len(AdBreakObject(b).ads) = 0
    BY <2>4 DEF AdBreakObject, BreakOK, AdsOK, IsSequence
  <2>. QED  BY <2>1, <2>2, <2>3, <2>5 DEF BlameInv, BreaksOK, Blamed, Flagged
<1>2. KeptInv /\ [Next]_vars => KeptInv'
  BY KeptStep
<1>3. BlameInv /\ PlayingAdAlive /\ PlayingAdAlive' /\ KeptInv' /\ [Next]_vars => BlameInv'
  BY BlameStep
<1>4. BlameInv => FailureCostsNeighbour
  <2>. SUFFICES ASSUME BlameInv, NEW b \in DOMAIN mAdBreaks,
                       NEW k \in DOMAIN mAdBreaks[b].ads \ {1}, mAdBreaks[b].ads[k].invalid
                PROVE  {mAdBreaks[b].ads[k].req, mAdBreaks[b].ads[k - 1].req}
                         \cap history.failed # {}
    BY DEF FailureCostsNeighbour
  <2>1. DOMAIN mAdBreaks[b].ads = 1..Len(mAdBreaks[b].ads)
    BY SequenceParts DEF BlameInv, BreaksOK, BreakOK, AdsOK
  <2>. QED  BY <2>1 DEF BlameInv, Blamed
<1>. QED  BY <1>1, <1>2, <1>3, <1>4, PTL DEF Spec
=============================================================================
