------------------------------ MODULE AdBreaks ------------------------------
(***************************************************************************)
(* Client-side ad insertion into a live DASH stream at normal rate         *)
(* (admanager_mpd.cpp, and the parts of the collector that serve it): the  *)
(* application reserves ads for a break, a thread resolves each of them,   *)
(* every refresh of the manifest places the ads over the new content of    *)
(* the break, and the collector plays an ad instead of the content it      *)
(* covers and comes back behind it.                                        *)
(*                                                                         *)
(* Times are in units of which a segment lasts a few; Align of them are    *)
(* OFFSET_ALIGN_FACTOR.  A content segment is its index in stream.segs, a  *)
(* sequence of [p, d]: its period and its duration.  A break is named by   *)
(* the period it begins in.  Indices of ads start at 1, 0 stands for -1    *)
(* and for the empty id.  Both tracks are fetched alike: one stands for    *)
(* both.  Not modelled: seeks, trick play, Fog, content that fails.        *)
(*                                                                         *)
(* The stream, chosen by Init, also has                                    *)
(*   breaks  a function from the periods that begin a break to brkDuration *)
(*   ads     what the application asks for, in order: [brk, frags, pid],   *)
(*           the fragments of the ad and the period id of its manifest     *)
(*   initial segments published when the player tunes                      *)
(*   keep    number of periods the manifest keeps, 0 for all               *)
(*   lag     how many segments are published between two refreshes at most  *)
(*   prompt  whether the ads are resolved before the content of the break is *)
(*           there                                                         *)
(*   faults  what may go wrong, and budget how often (bound)               *)
(***************************************************************************)
EXTENDS Integers, Sequences, FiniteSets, FiniteSetsExt, SequencesExt, TLC

CONSTANTS Streams,        \* the streams to choose from
          Align,          \* OFFSET_ALIGN_FACTOR
          MaxAdSegFail    \* MAX_AD_SEG_DOWNLOAD_FAIL_COUNT

\* Periods come in their order.
IsStream(s) ==
  /\ s.segs \in Seq([p : Nat \ {0}, d : Nat \ {0}])
  /\ \A i, j \in DOMAIN s.segs : i <= j => s.segs[i].p <= s.segs[j].p
  /\ DOMAIN s.breaks \subseteq Nat \ {0}
  /\ s.ads \in Seq([brk : Nat \ {0}, frags : Seq(Nat \ {0}), pid : Nat \ {0}])
  /\ s.initial \in DOMAIN s.segs /\ s.keep \in Nat /\ s.budget \in Nat

ASSUME AdAssumption ==
  /\ Align \in Nat \ {0} /\ MaxAdSegFail \in Nat \ {0}
  /\ \A s \in Streams : IsStream(s)

VARIABLES
  stream,
  published,              \* number of segments on the server
  mpd,                    \* the parsed manifest: [first, last], a period and a segment
  mAdBreaks, mPeriodMap, mPlacementObj,
  resolving,              \* the request FulFillAdObject works on, 0 for none
  asked,                  \* number of requests the application has made
  dai,                    \* the other fields of PrivateCDAIObjectMPD, see TypeOK
  mBasePeriodId, mBasePeriodOffset, mCurrentPeriodIdx, iPeriod,
  adStateChanged, mpdChanged,
  source,                 \* the timeline the track reads, see TypeOK
  pc, lastPrdOffset, segDLFailCount,
  history,                \* what was played and reported, see TypeOK
  faults                  \* budget used

breaks == <<mAdBreaks, mPeriodMap, mPlacementObj>>
base   == <<mBasePeriodId, mBasePeriodOffset, mCurrentPeriodIdx, iPeriod, adStateChanged,
         mpdChanged>>
track  == <<source, lastPrdOffset, segDLFailCount>>
vars == <<stream, published, mpd, breaks, resolving, asked, dai, base, track, pc, history,
          faults>>

-----------------------------------------------------------------------------
(* The stream and its manifest *)

Sum(s) == FoldLeft(LAMBDA a, b : a + b, 0, s)
Seg(i) == stream.segs[i]
Total == Len(stream.segs)

\* The periods of manifest m; the one after a full period is announced while it is empty.
InPeriod(m, p) == {i \in 1..m.last : Seg(i).p = p}
LastPeriod(m) ==
  LET p == Seg(m.last).p IN
  IF m.last < Total /\ Seg(m.last + 1).p # p THEN p + 1 ELSE p
PeriodIds(m) == [i \in 1..LastPeriod(m) + 1 - m.first |-> m.first + i - 1]
DurationOf(I) == MapThenSumSet(LAMBDA i : Seg(i).d, I)
aamp_GetPeriodDuration(m, p) == DurationOf(InPeriod(m, p))

\* aamp_GetPeriodNewContentDuration: the segments of period p with a number beyond end.
Number(i) == Cardinality({j \in 1..i : Seg(j).p = Seg(i).p})
NewContent(m, p, end) == {i \in InPeriod(m, p) : Number(i) > end}

AdLength(r) == Sum(stream.ads[r].frags)

NoPlacement ==
  [pendingAdbrkId |-> 0, openPeriodId |-> 0, curEndNumber |-> 0, curAdIdx |-> 0,
   adNextOffset |-> 0]
Period2AdData == [filled |-> FALSE, adBreakId |-> 0, duration |-> 0, offset2Ad |-> <<>>]
AdBreakObject(p) ==
  [brkDuration |-> stream.breaks[p], ads |-> <<>>, endPeriodId |-> 0, endPeriodOffset |-> 0,
   adsDuration |-> 0, adjustEndPeriodOffset |-> FALSE]

\* An element of a map, which C++ creates when it is missing, and an assignment to it.
Put(map, p, x) == [q \in DOMAIN map \cup {p} |-> IF q = p THEN x ELSE map[q]]
At(map, p) == IF p \in DOMAIN map THEN map[p] ELSE Period2AdData

TypeOK ==
  /\ stream \in Streams
  /\ published \in 1..Total /\ mpd \in [first : 1..Seg(Total).p, last : 1..published]
  /\ \A b \in DOMAIN mAdBreaks : mAdBreaks[b] \in
       [brkDuration : Nat, endPeriodId : Nat, endPeriodOffset : Nat, adsDuration : Nat,
        adjustEndPeriodOffset : BOOLEAN,
        ads : Seq([req : 1..Len(stream.ads), invalid : BOOLEAN, placed : BOOLEAN,
                   duration : Nat, basePeriodId : Nat, basePeriodOffset : Int])]
  /\ \A p \in DOMAIN mPeriodMap :
       /\ mPeriodMap[p].filled \in BOOLEAN /\ mPeriodMap[p].adBreakId \in Nat
       /\ mPeriodMap[p].duration \in Nat
       /\ \A o \in DOMAIN mPeriodMap[p].offset2Ad :
            mPeriodMap[p].offset2Ad[o] \in [adIdx : Nat \ {0}, adStartOffset : Nat]
  /\ mPlacementObj \in [pendingAdbrkId : Nat, openPeriodId : Nat, curEndNumber : Nat,
                        curAdIdx : Nat, adNextOffset : Nat]
  /\ resolving \in 0..Len(stream.ads) /\ asked \in 0..Len(stream.ads)
  /\ dai \in
       [mAdState : {"outside", "not_playing", "playing", "wait"},
        mCurPlayingBreakId : Nat, mCurAdIdx : Nat,
        mCurAds : Nat,                    \* the break whose ads they are
        mContentSeekOffset : Nat, mAdFailed : BOOLEAN]
  /\ mBasePeriodId \in Nat /\ mBasePeriodOffset \in Int
  /\ mCurrentPeriodIdx \in Nat /\ iPeriod \in Nat
  /\ adStateChanged \in BOOLEAN /\ mpdChanged \in BOOLEAN
  /\ source \in
       [id : Nat,                         \* currentPeriodId, of the content or of an ad
        ad : 0..Len(stream.ads),          \* which ad the track reads, 0 for the content
        next : Nat,                       \* the fragment it reads next
        time : Nat,                       \* fragmentTime - periodStartOffset
        eos : BOOLEAN]
  /\ pc \in {"period", "fetch", "check", "refresh"}
  /\ lastPrdOffset \in Int /\ segDLFailCount \in 0..MaxAdSegFail
  /\ history \in
       [last : 0..Total,                  \* the content segment fetched last
        adTime : Nat,                     \* what was fetched of ads since
        again : BOOLEAN,                  \* an ad has failed since: the content is repeated
        failed : SUBSET (1..Len(stream.ads)),  \* ads a download of which failed
        reservation : Nat, placement : Nat,    \* reported as started and not as ended
        wrong : SUBSET {"order", "position", "reservation", "placement"}]
  /\ faults \in 0..stream.budget

Fault(f) == f \in stream.faults /\ faults < stream.budget /\ faults' = faults + 1

-----------------------------------------------------------------------------
(* A manifest: its breaks are found, what has left it is forgotten            *)

\* FindTimedMetadata, for s a record of mAdBreaks and mPeriodMap: a period with an event
\* that is seen for the first time begins a break; every period has an entry.
FindTimedMetadata(s, m, init) ==
  LET ids == ToSet(PeriodIds(m))
      found == {p \in ids \cap DOMAIN stream.breaks :
                  /\ p \notin DOMAIN s.map
                  /\ init => p # m.first /\ InPeriod(m, p) = {}}
      new == found \ DOMAIN s.breaks IN
  [s EXCEPT !.breaks = [p \in DOMAIN @ \cup new |->
                          IF p \in new THEN AdBreakObject(p) ELSE @[p]],
            !.map = [p \in DOMAIN @ \cup ids |->
                       IF p \in new THEN [Period2AdData EXCEPT !.adBreakId = p]
                       ELSE At(@, p)]]

\* Fault: the break that is playing is forgotten as well.
PruneAll(s, m) ==
  LET ids == ToSet(PeriodIds(m)) IN
  [s EXCEPT !.breaks = [b \in DOMAIN @ \cap ids |-> @[b]],
            !.map = [p \in DOMAIN @ \cap ids |-> @[p]]]

PrunePeriodMaps(s, m) ==
  LET ids == ToSet(PeriodIds(m))
      kept == DOMAIN s.breaks
                \cap (ids \cup {mPlacementObj.pendingAdbrkId, dai.mCurPlayingBreakId}) IN
  [s EXCEPT !.breaks = [b \in kept |-> s.breaks[b]],
            !.map = [p \in DOMAIN s.map \cap ids |-> s.map[p]]]

-----------------------------------------------------------------------------
(* PlaceAds, for s a record of the break, mPeriodMap, mPlacementObj, found    *)
(* and the content that is left to be placed                                  *)

\* The loop over the new content of period p, of which s.left is left: as long as there is
\* some, an ad is placed over it, and the next one over the rest.
PlaceAd(s, p) ==
  LET k == s.place.curAdIdx
      ad == s.brk.ads[k]
      offset == s.map[p].duration - s.left
      rest == ad.duration - s.place.adNextOffset
      begun == IF ad.basePeriodId # 0 THEN s
               ELSE [s EXCEPT !.brk.ads[k] = [@ EXCEPT !.basePeriodId = p,
                                                         !.basePeriodOffset = offset],
                              !.map[p].offset2Ad =
                                 Put(@, offset - (offset % Align),
                                     [adIdx |-> k, adStartOffset |-> 0])]
      placed == [begun EXCEPT !.brk.ads[k].placed = TRUE, !.place.curAdIdx = k + 1] IN
  IF s.left = 0 THEN s
  ELSE IF s.left < rest THEN [begun EXCEPT !.place.adNextOffset = @ + s.left, !.left = 0]
  ELSE IF k < Len(s.brk.ads)
  THEN [placed EXCEPT !.place.adNextOffset = 0, !.left = @ - rest]
  ELSE IF s.left >= Align
  THEN [placed EXCEPT !.brk.endPeriodId = p, !.brk.endPeriodOffset = offset + rest,
                      !.brk.adjustEndPeriodOffset = TRUE, !.left = 0]
  ELSE [begun EXCEPT !.left = 0]

Fill(s, p) ==
  LET n == Len(s.brk.ads)
      after[i \in 0..n] == IF i = 0 THEN s ELSE PlaceAd(after[i - 1], p) IN
  after[n]

\* What is new in the open period p.
PlaceInPeriod(s, m, p) ==
  LET new == NewContent(m, p, s.place.curEndNumber)
      delta == DurationOf(new)
      data == At(s.map, p)
      opened == IF data.adBreakId # 0 THEN data
                ELSE [data EXCEPT !.adBreakId = s.place.pendingAdbrkId,
                                  !.offset2Ad =
                                     Put(@, 0, [adIdx |-> s.place.curAdIdx,
                                                adStartOffset |-> s.place.adNextOffset])] IN
  Fill([s EXCEPT !.map = Put(@, p, [opened EXCEPT !.duration = @ + delta]),
                 !.place.curEndNumber = Max({@} \cup {Number(i) : i \in new}),
                 !.left = delta], p)

\* Fault: the ads stay in the period the break begins in.
PlaceInOpen(s, m, p) ==
  IF s.brk.adjustEndPeriodOffset \/ s.place.openPeriodId # p THEN s
  ELSE PlaceInPeriod([s EXCEPT !.found = TRUE], m, p)

\* The open period, or the first one after it that is not empty.
PlaceStep(s, m, p) ==
  IF s.brk.adjustEndPeriodOffset THEN s
  ELSE IF s.place.openPeriodId = p THEN PlaceInPeriod([s EXCEPT !.found = TRUE], m, p)
  ELSE IF s.found /\ aamp_GetPeriodDuration(m, p) > 0
  THEN PlaceInPeriod(
         [s EXCEPT !.map = Put(@, s.place.openPeriodId,
                               [At(@, s.place.openPeriodId) EXCEPT !.filled = TRUE]),
                   !.place.openPeriodId = p, !.place.curEndNumber = 0], m, p)
  ELSE s

\* The end of the break: where the content goes on.
AdjustEnd(s, m) ==
  LET p == s.brk.endPeriodId
      moved(q) == [s EXCEPT !.brk.adjustEndPeriodOffset = FALSE, !.brk.endPeriodId = q,
                            !.brk.endPeriodOffset = 0, !.map = Put(@, q, Period2AdData)]
      kept == [s EXCEPT !.brk.adjustEndPeriodOffset = FALSE] IN
  IF p \notin ToSet(PeriodIds(m)) THEN kept
  ELSE IF s.brk.endPeriodOffset < 2 * Align THEN moved(p)
  ELSE IF aamp_GetPeriodDuration(m, p) - s.brk.endPeriodOffset >= Align THEN kept
  ELSE IF p < LastPeriod(m) THEN moved(p + 1)
  ELSE s

PlacePeriods(s, m) ==
  LET n == Len(PeriodIds(m))
      after[i \in 0..n] == IF i = 0 THEN s ELSE PlaceStep(after[i - 1], m, PeriodIds(m)[i]) IN
  after[n]

PlaceAds(s0, m) ==
  LET b == mPlacementObj.pendingAdbrkId
      s == [brk |-> s0.breaks[b], map |-> s0.map, place |-> mPlacementObj, found |-> FALSE,
            left |-> 0]
      filled == IF s.brk.adjustEndPeriodOffset THEN s
                ELSE PlacePeriods(s, m)
      ended == IF filled.brk.adjustEndPeriodOffset THEN AdjustEnd(filled, m) ELSE filled
      done == filled.brk.adjustEndPeriodOffset /\ ~ended.brk.adjustEndPeriodOffset IN
  IF mPlacementObj.curAdIdx = 0 \/ b = 0 \/ b \notin DOMAIN s0.breaks
  THEN [breaks |-> s0.breaks, map |-> s0.map, place |-> mPlacementObj]
  ELSE [breaks |-> Put(s0.breaks, b, ended.brk), map |-> ended.map,
        place |-> IF done THEN NoPlacement ELSE ended.place]

-----------------------------------------------------------------------------
(* The application and the thread that resolves an ad                         *)

\* SetAlternateContents with an ad waits for the thread of the last one. Of a break that is
\* not known, or full, the thread is not started.
SetAlternateContents ==
  /\ asked < Len(stream.ads) /\ resolving = 0
  /\ LET b == stream.ads[asked + 1].brk IN
     /\ b \in DOMAIN mAdBreaks \/ b < mpd.first
     /\ resolving' = IF b \in DOMAIN mAdBreaks
                          /\ mAdBreaks[b].brkDuration > mAdBreaks[b].adsDuration
                     THEN asked + 1 ELSE 0
  /\ asked' = asked + 1
  /\ UNCHANGED <<stream, published, mpd, breaks, dai, base, track, pc, history, faults>>

\* The first ad of a break is the one to be placed next; it begins with its period.
FulFillAdObject ==
  LET b == stream.ads[resolving].brk
      brk == mAdBreaks[b]
      first == brk.ads = <<>>
      duration == Min({brk.brkDuration - brk.adsDuration, AdLength(resolving)})
      ad == [req |-> resolving, invalid |-> FALSE, placed |-> FALSE, duration |-> duration,
             basePeriodId |-> IF first THEN b ELSE 0,
             basePeriodOffset |-> IF first THEN 0 ELSE -1] IN
  /\ resolving # 0 /\ resolving' = 0
  /\ IF b \notin DOMAIN mAdBreaks
     THEN UNCHANGED <<breaks, faults>>
     ELSE /\ mAdBreaks' = [mAdBreaks EXCEPT ![b] = [brk EXCEPT !.ads = Append(@, ad),
                                                               !.adsDuration = @ + duration]]
          /\ mPeriodMap' = IF first /\ b \in DOMAIN mPeriodMap
                           THEN [mPeriodMap EXCEPT ![b] =
                                   [mPeriodMap[b] EXCEPT !.offset2Ad =
                                      Put(@, 0, [adIdx |-> 1, adStartOffset |-> 0])]]
                           ELSE mPeriodMap
          /\ mPlacementObj' = IF first
                              THEN [NoPlacement EXCEPT !.pendingAdbrkId = b,
                                                       !.openPeriodId = b, !.curAdIdx = 1]
                              ELSE mPlacementObj
          /\ UNCHANGED faults
  /\ UNCHANGED <<stream, published, mpd, asked, dai, base, track, pc, history>>

\* The manifest of the ad cannot be fetched.
FulFillFails ==
  /\ resolving # 0 /\ resolving' = 0 /\ Fault("manifest")
  /\ UNCHANGED <<stream, published, mpd, breaks, asked, dai, base, track, pc, history>>

-----------------------------------------------------------------------------
(* onAdEvent: the state machine of the ads, with the collector at offset off  *)
(* of the base period p                                                       *)

\* What an event does: the fields of the object, an ad that becomes invalid, where the
\* content goes on, and what is reported.
Unchanged ==
  [dai |-> dai, invalid |-> <<0, 0>>, basePeriodId |-> 0, changed |-> FALSE,
   reservation |-> "none", placement |-> "none"]

\* An integer division rounds towards zero.
FloorKey(off) == IF off >= 0 THEN off - (off % Align) ELSE -(-off - (-off % Align))

\* The offset converted to uint64_t is not below the end: of a negative one the conversion
\* may give anything.
Reaches(off, end, huge) == IF off < 0 THEN huge ELSE off >= end

\* The ad that begins at this offset, or just behind it, and the break.
CheckForAdStart(p, off, huge) ==
  LET data == At(mPeriodMap, p)
      b == data.adBreakId
      key == IF FloorKey(off) \in DOMAIN data.offset2Ad THEN FloorKey(off)
             ELSE FloorKey(off) + Align
      starts == key \in DOMAIN data.offset2Ad /\ data.offset2Ad[key].adStartOffset = 0
      ended == mAdBreaks[b].endPeriodId = p /\ Reaches(off, mAdBreaks[b].endPeriodOffset, huge) IN
  IF b \notin DOMAIN mAdBreaks THEN [adIdx |-> 0, brk |-> 0]
  ELSE IF starts THEN [adIdx |-> data.offset2Ad[key].adIdx, brk |-> b]
  ELSE [adIdx |-> 0, brk |-> IF ended THEN 0 ELSE b]

Playing(d, b, k) == [d EXCEPT !.mAdState = "playing", !.mCurAds = b, !.mCurAdIdx = k]
Outside(d) ==
  [d EXCEPT !.mAdState = "outside", !.mCurPlayingBreakId = 0, !.mCurAds = 0, !.mCurAdIdx = 0]

OutsideAdbreak(p, off, huge) ==
  LET s == CheckForAdStart(p, off, huge)
      d == [dai EXCEPT !.mCurPlayingBreakId = s.brk, !.mAdState = "not_playing"]
      plays == s.adIdx # 0 /\ ~mAdBreaks[s.brk].ads[s.adIdx].invalid IN
  IF s.brk = 0 THEN Unchanged
  ELSE [Unchanged EXCEPT
          !.dai = IF plays THEN Playing(d, s.brk, s.adIdx) ELSE d, !.changed = TRUE,
          !.reservation = IF s.adIdx # 0 THEN "start" ELSE "none",
          !.placement = IF plays THEN "start" ELSE "none"]

LateAny(s, off) == s.adIdx # 0 /\ off # 0    \* fault: any ad

\* The first ad has become ready behind the beginning of its break.
Late(s, off) == s.adIdx = 1 /\ off # 0

\* In the break the content is shown: an ad that is late is not played.
AdNotPlaying(p, off, huge) ==
  LET s == CheckForAdStart(p, off, huge)
      late == Late(s, off)
      plays == s.adIdx # 0 /\ ~late /\ ~mAdBreaks[s.brk].ads[s.adIdx].invalid IN
  IF plays
  THEN [Unchanged EXCEPT
          !.dai = Playing(dai, s.brk, s.adIdx), !.changed = TRUE, !.placement = "start",
          !.reservation = IF s.adIdx = Len(mAdBreaks[s.brk].ads) THEN "start" ELSE "none"]
  ELSE IF late THEN [Unchanged EXCEPT !.invalid = <<s.brk, s.adIdx>>]
  ELSE IF s.brk = 0 THEN [Unchanged EXCEPT !.dai = Outside(dai), !.changed = TRUE]
  ELSE Unchanged

\* Fault: the end of the ad is not reported.
AdFinishedSilently ==
  [Unchanged EXCEPT !.dai = [dai EXCEPT !.mAdState = "wait"], !.changed = TRUE]

AdFinished ==
  [Unchanged EXCEPT !.dai = [dai EXCEPT !.mAdState = "wait"], !.changed = TRUE,
                    !.placement = "end"]

AdFailed(d) ==
  IF d.mAdState # "playing" THEN [Unchanged EXCEPT !.dai = d]
  ELSE [Unchanged EXCEPT !.dai = [d EXCEPT !.mAdState = "not_playing"], !.changed = TRUE,
                         !.invalid = <<d.mCurAds, d.mCurAdIdx>>, !.placement = "end"]

\* The ad has been played. When it has been placed too, the next one follows, or the
\* content behind the break.
WaitToCatchup ==
  LET ads == mAdBreaks[dai.mCurAds].ads
      k == dai.mCurAdIdx + 1
      brk == mAdBreaks[dai.mCurPlayingBreakId] IN
  IF ~ads[dai.mCurAdIdx].placed THEN Unchanged
  ELSE IF k > Len(ads)
  THEN [Unchanged EXCEPT
          !.dai = [Outside(dai) EXCEPT !.mContentSeekOffset = brk.endPeriodOffset],
          !.basePeriodId = brk.endPeriodId, !.changed = TRUE, !.reservation = "end"]
  ELSE IF ads[k].invalid
  THEN [Unchanged EXCEPT !.dai = [dai EXCEPT !.mAdState = "not_playing", !.mCurAdIdx = k],
                         !.changed = TRUE]
  ELSE [Unchanged EXCEPT !.dai = Playing(dai, dai.mCurAds, k), !.changed = TRUE,
                         !.placement = "start"]

PeriodChange(p, off, huge) ==
  CASE dai.mAdState = "outside" -> OutsideAdbreak(p, off, huge)
    [] dai.mAdState = "not_playing" -> AdNotPlaying(p, off, huge)
    [] dai.mAdState = "playing" -> Unchanged
    [] dai.mAdState = "wait" -> WaitToCatchup

Invalidate(map, e) ==
  IF e.invalid[1] = 0 THEN map ELSE [map EXCEPT ![e.invalid[1]].ads[e.invalid[2]].invalid = TRUE]

\* What is wrong with the events that e sends: a start without an end, or the reverse.
Report(h, e) ==
  LET r1 == IF e.reservation = "start" THEN 1 ELSE h.reservation
      p1 == IF e.placement = "start" THEN 1 ELSE IF e.placement = "end" THEN 0 ELSE h.placement
      bad1 == \/ e.reservation = "start" /\ h.reservation # 0
              \/ e.reservation = "end" /\ h.reservation = 0
      bad2 == \/ e.placement = "start" /\ h.placement # 0
              \/ e.placement = "end" /\ h.placement = 0
              \/ e.reservation = "end" /\ h.placement # 0 IN
  IF ~e.changed THEN h
  ELSE [h EXCEPT !.reservation = IF e.reservation = "end" THEN 0 ELSE r1, !.placement = p1,
                 !.wrong = @ \cup (IF bad1 THEN {"reservation"} ELSE {})
                             \cup (IF bad2 THEN {"placement"} ELSE {})]

-----------------------------------------------------------------------------
(* The collector: a period begins, or the manifest or the state has changed   *)

Base == <<mBasePeriodId, mBasePeriodOffset, mCurrentPeriodIdx, iPeriod>>
Dai  == <<mAdBreaks, dai>>

NumPeriods == Len(PeriodIds(mpd))
PeriodAt(i) == mpd.first + i - 1
PeriodChanged == iPeriod # mCurrentPeriodIdx \/ mBasePeriodId # PeriodAt(mCurrentPeriodIdx)
FirstOf(p) == 1 + Cardinality({i \in 1..Total : Seg(i).p < p})

SeekNothing(i, t) == i    \* fault: the content begins with the period

\* SeekInPeriod: whole segments are skipped.
SeekFrom(i, t) ==
  i + Cardinality({j \in InPeriod(mpd, Seg(i).p) : j >= i /\ DurationOf(i..j) <= t})

ContentOf(p) == [id |-> p, ad |-> 0, next |-> FirstOf(p), time |-> 0, eos |-> FALSE]
AdSource(r) == [id |-> stream.ads[r].pid, ad |-> r, next |-> 1, time |-> 0, eos |-> FALSE]

\* The request of the ad that state d plays.
RequestOf(d) == mAdBreaks[d.mCurAds].ads[d.mCurAdIdx].req

\* The timeline that is read in state d with the content in period p: a new one when the
\* id of the period is not that of the last.
NextSource(d, p) ==
  LET r == RequestOf(d)
      content == IF source.id = p THEN [source EXCEPT !.eos = FALSE] ELSE ContentOf(p)
      seek == d.mContentSeekOffset IN
  IF d.mAdState # "playing"
  THEN IF seek = 0 THEN content ELSE [content EXCEPT !.next = SeekFrom(@, seek)]
  ELSE IF source.id = stream.ads[r].pid THEN source
  ELSE AdSource(r)

SkipEmptyPeriod ==
  /\ pc = "period" /\ iPeriod <= NumPeriods
  /\ PeriodChanged /\ InPeriod(mpd, PeriodAt(iPeriod)) = {}
  /\ iPeriod' = iPeriod + 1
  /\ UNCHANGED <<stream, published, mpd, breaks, resolving, asked, dai, mBasePeriodId,
                 mBasePeriodOffset, mCurrentPeriodIdx, adStateChanged, mpdChanged, track, pc,
                 history, faults>>

\* The offset goes on in the next period of a break.
BaseOffset ==
  IF ~PeriodChanged THEN mBasePeriodOffset
  ELSE IF dai.mAdState # "outside"
  THEN mBasePeriodOffset - At(mPeriodMap, mBasePeriodId).duration
  ELSE IF mBasePeriodId # PeriodAt(iPeriod) THEN 0
  ELSE mBasePeriodOffset

\* The base period, the event of its change or of its check, and where the content goes on.
AtPeriod(huge) ==
  LET p == IF PeriodChanged THEN PeriodAt(iPeriod) ELSE mBasePeriodId
      idx == IF PeriodChanged THEN iPeriod ELSE mCurrentPeriodIdx
      e == PeriodChange(p, BaseOffset, huge)
      base1 == IF e.basePeriodId # 0 THEN e.basePeriodId ELSE p
      landed == e.changed /\ e.dai.mAdState = "outside"
      there == {i \in 1..NumPeriods : PeriodAt(i) = base1} IN
  [e |-> e, id |-> base1,
   idx |-> IF landed /\ there # {} THEN Min(there) ELSE idx,
   iPeriod |-> IF ~landed THEN iPeriod ELSE IF there = {} THEN NumPeriods + 1 ELSE Min(there)]

ChecksPeriod(at) ==
  /\ PeriodChanged => InPeriod(mpd, PeriodAt(iPeriod)) # {}
  /\ PeriodChanged \/ mpdChanged \/ adStateChanged
  /\ mBasePeriodId' = at.id /\ mBasePeriodOffset' = BaseOffset /\ mCurrentPeriodIdx' = at.idx
  /\ iPeriod' = at.iPeriod /\ mpdChanged' = FALSE
  /\ UNCHANGED <<stream, published, mpd, mPeriodMap, mPlacementObj, resolving, asked>>

\* What was played is not placed yet: wait for the next manifest.
AwaitPlacement ==
  /\ pc = "period" /\ iPeriod <= NumPeriods
  /\ \E at \in {AtPeriod(huge) : huge \in BOOLEAN} : ChecksPeriod(at) /\ at.e.dai.mAdState = "wait"
  /\ adStateChanged' = FALSE /\ pc' = "refresh"
  /\ UNCHANGED <<mAdBreaks, dai, track, history, faults>>

\* After the event e the collector reads next, with an initialization of its own when that
\* is another timeline; it may fail, and a failure that was noticed before is acted on now.
Enters(e, next, initFails) ==
  LET fails == dai.mAdFailed \/ initFails IN
  /\ IF initFails THEN next.ad # 0 /\ next # source /\ Fault("init") ELSE UNCHANGED faults
  /\ source' = next /\ lastPrdOffset' = BaseOffset
  /\ segDLFailCount' = IF initFails THEN Min({segDLFailCount + 1, MaxAdSegFail})
                       ELSE IF next.id # source.id THEN 0 ELSE segDLFailCount
  /\ pc' = IF fails THEN "period" ELSE "fetch"
  /\ \E e2 \in {IF fails THEN AdFailed(e.dai) ELSE [Unchanged EXCEPT !.dai = e.dai]} :
       /\ mAdBreaks' = Invalidate(Invalidate(mAdBreaks, e), e2)
       /\ dai' = [e2.dai EXCEPT !.mAdFailed = FALSE, !.mContentSeekOffset = 0]
       /\ adStateChanged' = e2.changed
       /\ history' = [Report(Report(history, e), e2) EXCEPT
                        !.failed = IF initFails THEN @ \cup {next.ad} ELSE @,
                        !.again = @ \/ e2.changed]

EnterPeriod ==
  /\ pc = "period" /\ iPeriod <= NumPeriods
  /\ \E at \in {AtPeriod(huge) : huge \in BOOLEAN} :
       /\ ChecksPeriod(at) /\ at.e.dai.mAdState # "wait"
       /\ \E next \in {NextSource(at.e.dai, PeriodAt(at.idx))}, initFails \in BOOLEAN :
            Enters(at.e, next, initFails)

\* Nothing has changed after all.
KeepPeriod ==
  /\ pc = "period" /\ iPeriod <= NumPeriods
  /\ ~PeriodChanged /\ ~mpdChanged /\ ~adStateChanged
  /\ pc' = "fetch" /\ lastPrdOffset' = mBasePeriodOffset
  /\ UNCHANGED <<stream, published, mpd, breaks, resolving, asked, dai, base, source,
                 segDLFailCount, history, faults>>

PeriodsEnd ==
  /\ pc = "period" /\ iPeriod > NumPeriods /\ pc' = "refresh"
  /\ UNCHANGED <<stream, published, mpd, breaks, resolving, asked, dai, base, track, history,
                 faults>>

-----------------------------------------------------------------------------
(* The collector: fragments                                                   *)

\* The ads of a break and the content they stand for: an ad is cut when it is Align over, at
\* the end of a fragment.
Slack ==
  Align + Max(UNION {ToSet(stream.ads[r].frags) : r \in DOMAIN stream.ads})

\* More is left out than the ads replace, though it could be had; or what they replace is
\* played.
FetchedContent(h, i) ==
  LET between == h.last + 1..i - 1
      had == {j \in between : Seg(j).p >= mpd.first} IN
  [h EXCEPT !.last = i, !.adTime = 0, !.again = FALSE,
            !.wrong = IF h.again THEN @
                      ELSE @ \cup (IF i <= h.last THEN {"order"} ELSE {})
                             \cup (IF \/ DurationOf(had) >= h.adTime + Slack
                                      \/ h.adTime >= DurationOf(between) + Slack
                                   THEN {"position"} ELSE {})]

FetchContent ==
  /\ pc = "fetch" /\ source.ad = 0 /\ pc' = "check"
  /\ LET i == source.next IN
     IF i \in InPeriod(mpd, source.id)
     THEN /\ source' = [source EXCEPT !.next = i + 1]
          /\ mBasePeriodOffset' = mBasePeriodOffset + Seg(i).d
          /\ history' = FetchedContent(history, i) /\ segDLFailCount' = 0
     ELSE /\ source' = [source EXCEPT !.eos = TRUE]
          /\ UNCHANGED <<mBasePeriodOffset, history, segDLFailCount>>
  /\ UNCHANGED <<stream, published, mpd, breaks, resolving, asked, dai, mBasePeriodId,
                 mCurrentPeriodIdx, iPeriod, adStateChanged, mpdChanged, lastPrdOffset,
                 faults>>

CheckForAdTerminate(time) ==
  time >= mAdBreaks[dai.mCurAds].ads[dai.mCurAdIdx].duration + Align

\* A fragment that fails is skipped; after MaxAdSegFail of them the ad has failed.
FetchAd ==
  LET r == source.ad
      d == stream.ads[r].frags[source.next]
      time == source.time + d IN
  /\ pc = "fetch" /\ r # 0 /\ pc' = "check"
  /\ IF source.eos
        \/ source.next > Len(stream.ads[r].frags)
     THEN /\ source' = [source EXCEPT !.eos = TRUE]
          /\ UNCHANGED <<mBasePeriodOffset, segDLFailCount, dai, history, faults>>
     ELSE /\ source' = [source EXCEPT !.next = @ + 1, !.time = time,
                                      !.eos = CheckForAdTerminate(time)]
          /\ mBasePeriodOffset' = mBasePeriodOffset + d
          /\ \/ /\ segDLFailCount' = 0
                /\ history' = [history EXCEPT !.adTime = @ + d]
                /\ UNCHANGED <<dai, faults>>
             \/ /\ Fault("fragment")
                /\ segDLFailCount' = Min({segDLFailCount + 1, MaxAdSegFail})
                /\ dai' = [dai EXCEPT !.mAdFailed =
                              \/ @
                              \/ dai.mAdState = "playing" /\ segDLFailCount' = MaxAdSegFail]
                /\ history' = [history EXCEPT !.adTime = @ + d,
                                              !.failed = @ \cup {RequestOf(dai)}]
  /\ UNCHANGED <<stream, published, mpd, breaks, resolving, asked, mBasePeriodId,
                 mCurrentPeriodIdx, iPeriod, adStateChanged, mpdChanged, lastPrdOffset>>

\* The base period is over when the content it has is.
Completed(huge) ==
  LET data == At(mPeriodMap, mBasePeriodId) IN
  data.filled /\ Reaches(mBasePeriodOffset, data.duration, huge)

AdEnds ==
  /\ pc = "check" /\ source.eos /\ dai.mAdState = "playing" /\ pc' = "period"
  /\ dai' = AdFinished.dai /\ adStateChanged' = TRUE /\ history' = Report(history, AdFinished)
  /\ UNCHANGED <<stream, published, mpd, breaks, resolving, asked, mBasePeriodId,
                 mBasePeriodOffset, mCurrentPeriodIdx, iPeriod, mpdChanged, track, faults>>

PeriodEnds ==
  /\ pc = "check" /\ pc' = "period" /\ iPeriod' = iPeriod + 1
  /\ \/ source.eos /\ dai.mAdState # "playing"
     \/ /\ ~source.eos /\ dai.mAdState # "outside"
        /\ \E huge \in BOOLEAN : Completed(huge)
  /\ UNCHANGED <<stream, published, mpd, breaks, resolving, asked, dai, mBasePeriodId,
                 mBasePeriodOffset, mCurrentPeriodIdx, adStateChanged, mpdChanged, track,
                 history, faults>>

\* The content has come to an ad, or to the end of the break; then on to the next period.
\* Otherwise the next fragment, or the manifest is due.
GoOn ==
  /\ pc = "check" /\ ~source.eos
  /\ dai.mAdState # "outside" => \E huge \in BOOLEAN : ~Completed(huge)
  /\ \E e \in {IF mBasePeriodOffset # lastPrdOffset /\ dai.mAdState = "not_playing"
               THEN AdNotPlaying(mBasePeriodId, mBasePeriodOffset, huge) ELSE Unchanged :
                 huge \in BOOLEAN} :
       /\ dai' = e.dai /\ mAdBreaks' = Invalidate(mAdBreaks, e)
       /\ history' = Report(history, e) /\ adStateChanged' = e.changed
       /\ IF e.changed
          THEN pc' = "period" /\ iPeriod' = iPeriod + 1
          ELSE pc' \in {"fetch", "refresh"} /\ UNCHANGED iPeriod
  /\ lastPrdOffset' = IF dai.mAdState = "outside" THEN lastPrdOffset ELSE mBasePeriodOffset
  /\ UNCHANGED <<stream, published, mpd, mPeriodMap, mPlacementObj, resolving, asked,
                 mBasePeriodId, mBasePeriodOffset, mCurrentPeriodIdx, mpdChanged, source,
                 segDLFailCount, faults>>

\* UpdateMPD, and the selection of the period by its id.
Manifest(n) ==
  LET last == LastPeriod([first |-> 1, last |-> n]) IN
  [first |-> IF stream.keep = 0 THEN 1 ELSE Max({1, last - stream.keep + 1}), last |-> n]

Refresh ==
  /\ pc = "refresh" /\ pc' = "period" /\ mpd' = Manifest(published) /\ mpdChanged' = TRUE
  /\ \E found \in {FindTimedMetadata([breaks |-> mAdBreaks, map |-> mPeriodMap],
                                    Manifest(published), FALSE)} :
     \E s \in {PlaceAds(PrunePeriodMaps(found, Manifest(published)), Manifest(published))} :
       mAdBreaks' = s.breaks /\ mPeriodMap' = s.map /\ mPlacementObj' = s.place
  /\ \E ids \in {PeriodIds(Manifest(published))} :
       mCurrentPeriodIdx' = Max({1} \cup {i \in DOMAIN ids : ids[i] = mBasePeriodId})
  /\ iPeriod' = mCurrentPeriodIdx'
  /\ UNCHANGED <<stream, published, resolving, asked, dai, mBasePeriodId, mBasePeriodOffset,
                 adStateChanged, track, history, faults>>

\* In a prompt stream the requests are answered before the next segment is published.
Answered ==
  resolving = 0 /\ (asked < Len(stream.ads) => stream.ads[asked + 1].brk \notin DOMAIN mAdBreaks)

Publish ==
  /\ published < Total /\ published' = published + 1
  /\ published - mpd.last < stream.lag /\ (stream.prompt => Answered)
  /\ UNCHANGED <<stream, mpd, breaks, resolving, asked, dai, base, track, pc, history, faults>>

-----------------------------------------------------------------------------
Init ==
  /\ stream \in Streams /\ published = stream.initial /\ mpd = Manifest(stream.initial)
  /\ LET s == FindTimedMetadata([breaks |-> <<>>, map |-> <<>>], mpd, TRUE)
         p == Seg(stream.start).p IN
     /\ mAdBreaks = s.breaks /\ mPeriodMap = s.map
     /\ mBasePeriodId = p /\ mCurrentPeriodIdx = p - mpd.first + 1
     /\ source = [ContentOf(p) EXCEPT !.next = stream.start]
     /\ mBasePeriodOffset = DurationOf(FirstOf(p)..stream.start - 1)
  /\ mPlacementObj = NoPlacement /\ resolving = 0 /\ asked = 0
  /\ dai = [mAdState |-> "outside", mCurPlayingBreakId |-> 0, mCurAdIdx |-> 0, mCurAds |-> 0,
            mContentSeekOffset |-> 0, mAdFailed |-> FALSE]
  /\ iPeriod = mCurrentPeriodIdx /\ adStateChanged = FALSE /\ mpdChanged = FALSE
  /\ pc = "fetch" /\ lastPrdOffset = mBasePeriodOffset /\ segDLFailCount = 0
  /\ history = [last |-> stream.start - 1, adTime |-> 0, again |-> FALSE, failed |-> {},
                reservation |-> 0, placement |-> 0, wrong |-> {}]
  /\ faults = 0

CollectorMoves ==
  \/ SkipEmptyPeriod \/ AwaitPlacement \/ EnterPeriod \/ KeepPeriod \/ PeriodsEnd
  \/ FetchContent \/ FetchAd \/ AdEnds \/ PeriodEnds \/ GoOn \/ Refresh

Next ==
  \/ CollectorMoves
  \/ SetAlternateContents \/ FulFillAdObject \/ FulFillFails
  \/ Publish

\* Only the collector writes these, at every step; one of its steps is always possible.
CollectorSteps == <<pc, iPeriod, dai, mpdChanged>>

\* The collector runs on, the server goes on publishing, the application asks for the ads
\* of a break it is told of, and the thread that resolves one comes to an end.
Fairness ==
  /\ []<><<TRUE>>_CollectorSteps
  /\ WF_vars(Publish) /\ WF_vars(SetAlternateContents) /\ WF_vars(FulFillAdObject)

Spec == Init /\ [][Next]_vars /\ Fairness

-----------------------------------------------------------------------------
(* Properties *)

\* The content is played in order, repeated only when an ad has failed, and what the ads of a
\* break replace is left out once: no content is lost, and none is played behind its ads
\* (SeekInPeriod at mContentSeekOffset, PlaceAds and CheckForAdTerminate agree).
ContentKept == TypeOK /\ history.wrong \cap {"order", "position"} = {}

\* Every placement that is reported as started is reported as ended before the next one and
\* before the end of its reservation, whatever fails (onAdEvent, AdFinished, AdFailed).
PlacementsPaired == "placement" \notin history.wrong

\* The same of a reservation, when no ad has failed.
EventsPaired ==
  PlacementsPaired /\ ("reservation" \in history.wrong => history.failed # {})

\* What PrunePeriodMaps erases is not what the collector plays or waits for.
PlayingAdAlive ==
  dai.mAdState \in {"playing", "wait"} =>
    dai.mCurAds \in DOMAIN mAdBreaks /\ dai.mCurAdIdx \in DOMAIN mAdBreaks[dai.mCurAds].ads

\* An ad but for the first of a break, which may come too late, is given up for a download of
\* its own that failed (fragmentcollector_mpd.cpp:458: "If playingAd, we are invalidating the
\* current Ad in onAdEvent()").
OnlyFailedAdsInvalid ==
  \A b \in DOMAIN mAdBreaks : \A k \in DOMAIN mAdBreaks[b].ads \ {1} :
    mAdBreaks[b].ads[k].invalid => mAdBreaks[b].ads[k].req \in history.failed

\* What the code does: a failure that is noticed late (mAdFailed, acted on when the next period
\* is entered) costs no ad but the one that failed or the one right behind it in its break.
FailureCostsNeighbour ==
  \A b \in DOMAIN mAdBreaks : \A k \in DOMAIN mAdBreaks[b].ads \ {1} :
    mAdBreaks[b].ads[k].invalid =>
      {mAdBreaks[b].ads[k].req, mAdBreaks[b].ads[k - 1].req} \cap history.failed # {}

\* The player comes back from every break, to the end of the stream.
ReachesEnd == <>(history.last = Total)
=============================================================================
