------------------------------ MODULE MpdTrack ------------------------------
(***************************************************************************)
(* The fragment collector of a DASH stream at normal rate: one thread      *)
(* (PrivateStreamAbstractionMPD::FetcherLoop) that walks the periods and   *)
(* the segment timelines of a manifest for both tracks, downloads their    *)
(* init and media fragments into the rings of the tracks, and fetches the  *)
(* manifest again while the server publishes and culls segments.           *)
(*                                                                         *)
(* A segment is its index in stream.segs, a sequence of [p, row, t]: its   *)
(* period, its S element and its media time; all last D.  The server and   *)
(* the manifest hold the segments first..last.  Both tracks have the same  *)
(* timelines.  A ring holds the durations of its fragments, 0 for an init  *)
(* fragment and 1 for a segment; its injector takes one at a time.  A      *)
(* download is one step.  Not modelled: trick play, Fog, advertisements    *)
(* (module AdBreaks), streams without a segment timeline, segments listed  *)
(* past the end of their period.                                           *)
(*                                                                         *)
(* The stream, chosen by Init, also has                                    *)
(*   pto     for each period its presentationTimeOffset, 0 for none        *)
(*   mute    the periods without an audio adaptation set                   *)
(*   early   the period after the last one is listed, still empty          *)
(*   initial the segments published when the player tunes                  *)
(*   live    the manifest was dynamic at the tune (mIsLiveStream)          *)
(*   window  number of segments a live server keeps, 0 for all of them     *)
(*   adjust  IsLiveAdjustRequired()                                        *)
(*   shared  the profiles and periods share one init fragment              *)
(*   start   the segment to start from, newTune whether this is a tune     *)
(*   limit   mRampDownLimit, -1 for none                                   *)
(*   faults  what may go wrong or change, and budget how often (bound)     *)
(***************************************************************************)
EXTENDS Integers, Sequences, FiniteSets, FiniteSetsExt

CONSTANTS Streams,        \* the streams to choose from
          RingSize,       \* maxCachedFragmentsPerTrack
          MaxSegFail,     \* MAX_SEG_DOWNLOAD_FAIL_COUNT
          ResetDiff,      \* TIMELINE_START_RESET_DIFF
          TopProfile,     \* profiles are 1 (the lowest) to TopProfile
          MaxTime         \* the largest value of a lastSegmentTime, UINT64_MAX

Tracks == {"audio", "video"}
D == 10                   \* the duration of a segment, in units of its timeline

Stream ==
  [segs : Seq([p : Nat \ {0}, row : Nat \ {0}, t : Nat]), pto : Seq(Nat), mute : SUBSET Nat,
   early : BOOLEAN, initial : Nat \ {0}, live : BOOLEAN, window : Nat, adjust : BOOLEAN,
   shared : BOOLEAN, start : Nat \ {0}, newTune : BOOLEAN, limit : Int,
   faults : SUBSET {"audio", "video", "audioInit", "videoInit", "profile", "stale",
                    "timeout", "manifest", "stop"},
   budget : Nat]

\* Periods and their S elements are numbered from 1 and follow each other, and an S
\* element repeats one duration; their start times may be any.
InSequence(segs) ==
  /\ segs[1].p = 1
  /\ \A i \in 1..Len(segs) :
       /\ \A p \in 1..segs[i].p : \E j \in 1..Len(segs) : segs[j].p = p
       /\ \A r \in 1..segs[i].row :
            \E j \in 1..Len(segs) : segs[j].p = segs[i].p /\ segs[j].row = r
  /\ \A i, j \in 1..Len(segs) : i <= j =>
       /\ segs[i].p <= segs[j].p
       /\ segs[i].p = segs[j].p =>
            /\ segs[i].row <= segs[j].row
            /\ segs[i].row = segs[j].row => segs[j].t = segs[i].t + (j - i) * D

ASSUME MpdAssumption ==
  /\ RingSize \in Nat \ {0} /\ MaxSegFail \in Nat /\ ResetDiff \in Nat
  /\ TopProfile \in Nat \ {0} /\ MaxTime \in Nat
  /\ \A s \in Streams :
       /\ s \in Stream /\ InSequence(s.segs)
       /\ s.start <= s.initial /\ s.initial <= Len(s.segs)
       /\ s.segs[Len(s.segs)].p <= Len(s.pto)

NoInit == <<0, 0>>        \* an empty initialization URL

VARIABLES
  stream,
  server,                 \* what is published: [first, last, ended]
  mpd,                    \* the parsed manifest: [first, last, live]
  track,                  \* MediaStreamContext of each track, see TypeOK
  audioLead,              \* totalInjectedDuration of audio less that of video
  currentProfileIndex, mRampDownCount, mCheckForRampdown,
  mCurrentPeriodIdx, iPeriod, mBasePeriodId, currentPeriodId, mpdChanged,
  mMPDPeriodsInfo, culledSeconds,
  pc, todo, next,         \* program counter; tracks whose init is fetched, and then
  playing,                \* eSTATE_PLAYING: "no", "ready" for the first frame, "yes"
  mDownloadsEnabled, retune, errorSent,
  delivered,              \* history: what each ring was given, see TypeOK
  faults                  \* budget used

period  == <<mCurrentPeriodIdx, iPeriod, mBasePeriodId, currentPeriodId, mpdChanged>>
culling == <<mMPDPeriodsInfo, culledSeconds>>
ramp    == <<currentProfileIndex, mRampDownCount, mCheckForRampdown>>
control == <<pc, todo, next>>
player  == <<playing, mDownloadsEnabled, audioLead>>
vars == <<stream, server, mpd, track, ramp, period, culling, control, player, retune,
          errorSent, delivered, faults>>

-----------------------------------------------------------------------------
(* The stream and its manifests *)

Segments == 1..Len(stream.segs)
Seg(i) == stream.segs[i]
Periods == 1..Seg(Len(stream.segs)).p

\* The periods of manifest w: those it holds segments of, and maybe the next one,
\* announced without an adaptation set.
FirstPeriod(w) == Seg(w.first).p
LastPeriod(w) == Seg(w.last).p
PeriodCount(w) ==
  LastPeriod(w) + 1 - FirstPeriod(w)
    + IF stream.early /\ LastPeriod(w) + 1 \in Periods THEN 1 ELSE 0
PeriodAt(w, i) == FirstPeriod(w) + i - 1
IndexOf(w, p) == p + 1 - FirstPeriod(w)
IsEmptyPeriod(w, i) == PeriodAt(w, i) > LastPeriod(w)
HasAudio(p) == p \notin stream.mute

InPeriod(w, p) == {i \in w.first..w.last : Seg(i).p = p}

\* The segment timeline of period p: [t, repeat] for each S element.
Timeline(w, p) ==
  LET I == InPeriod(w, p)
      rows == {Seg(i).row : i \in I}
      Row(r) == {i \in I : Seg(i).row = r} IN
  [j \in 1..Cardinality(rows) |->
     LET K == Row(Min(rows) + j - 1) IN [t |-> Seg(Min(K)).t, repeat |-> Cardinality(K) - 1]]

End(S) == S.t + (S.repeat + 1) * D

\* The segment of period p that starts at time t, 0 if there is none.
SegmentAt(p, t) ==
  LET I == {i \in Segments : Seg(i).p = p /\ Seg(i).t = t} IN IF I = {} THEN 0 ELSE Min(I)

GetFirstSegmentStartTime(w, p) == Seg(Min(InPeriod(w, p))).t

PeriodInfo(w) ==
  [i \in 1..PeriodCount(w) |->
     LET p == PeriodAt(w, i) IN
     [periodId |-> p, duration |-> D * Cardinality(InPeriod(w, p)),
      startTime |-> IF IsEmptyPeriod(w, i) THEN 0 ELSE GetFirstSegmentStartTime(w, p)]]

\* Fault: the period that is still there counts as gone.
CulledWithFirst(w) ==
  LET info == mMPDPeriodsInfo
      same == {i \in DOMAIN info : info[i].periodId = PeriodInfo(w)[1].periodId} IN
  MapThenSumSet(LAMBDA i : info[i].duration, IF same = {} THEN DOMAIN info ELSE 1..Min(same))

\* A difference of two times is a uint64_t.
Unsigned(n) == IF n < 0 THEN n + MaxTime + 1 ELSE n

\* What has left the manifest since it was last looked at.
GetCulledSeconds(w) ==
  LET info == mMPDPeriodsInfo
      new == PeriodInfo(w)[1]
      same == {i \in DOMAIN info : info[i].periodId = new.periodId}
      gone == IF same = {} THEN DOMAIN info ELSE 1..Min(same) - 1
      before == IF same = {} THEN 0 ELSE info[Min(same)].startTime IN
  MapThenSumSet(LAMBDA i : info[i].duration, gone)
    + IF before # 0 /\ new.startTime # 0 THEN Unsigned(new.startTime - before) ELSE 0

\* GetFragmentUrl of the init fragment of track m.
InitUrl(m, p, profile) ==
  IF stream.shared THEN <<1, 1>> ELSE <<p, IF m = "video" THEN profile ELSE 1>>

Enabled(T) == {m \in Tracks : T[m].enabled}
\* The tracks FetchAndInjectInitialization has to fetch an init fragment for.
Pending(T) == {m \in Enabled(T) : T[m].profileChanged \/ T[m].discontinuity}

\* The part of a MediaStreamContext that the collector works with, and its injector.
MediaStreamContext ==
  [enabled : BOOLEAN,
   row : 1..Len(stream.segs) + 1,    \* timeLineIndex, from 1
   rep : 0..Len(stream.segs) + 1,    \* fragmentRepeatCount
   time : Nat,                       \* fragmentDescriptor.Time
   last : Nat, lastDur : Nat,        \* lastSegmentTime, lastSegmentDuration
   eos : BOOLEAN, eosReached : BOOLEAN,
   profileChanged : BOOLEAN, discontinuity : BOOLEAN,
   init : {NoInit} \cup (Periods \X (1..TopProfile)),   \* initialization
   failCount : 0..MaxSegFail,        \* segDLFailCount, up to the limit
   skipOnError : BOOLEAN,            \* mSkipSegmentOnError
   ring : Seq({0, 1}),               \* cachedFragment
   injecting : BOOLEAN]              \* the injector thread was started

Delivered ==
  [seg : {0} \cup Segments,          \* the last media fragment, 0 before the first
   init : {NoInit} \cup (Periods \X (1..TopProfile)),   \* the last init fragment
   due : BOOLEAN,                    \* a discontinuity was found, its init not tried
   lost : SUBSET ({0} \cup Segments), \* fragments given up, 0: one failed before the first
   wrong : SUBSET {"order", "start", "gap", "init", "discontinuity"}]

TypeOK ==
  /\ stream \in Streams
  /\ server \in [first : Segments, last : Segments, ended : BOOLEAN]
  /\ mpd \in [first : Segments, last : Segments, live : BOOLEAN]
  /\ track \in [Tracks -> MediaStreamContext]
  /\ \A m \in Tracks : Len(track[m].ring) <= RingSize
  /\ currentProfileIndex \in 1..TopProfile /\ mRampDownCount \in Nat
  /\ mCheckForRampdown \in BOOLEAN /\ audioLead \in Int
  /\ mCurrentPeriodIdx \in 1..PeriodCount(mpd) /\ iPeriod \in 1..PeriodCount(mpd) + 1
  /\ mBasePeriodId \in Periods /\ currentPeriodId \in Periods /\ mpdChanged \in BOOLEAN
  /\ mMPDPeriodsInfo \in Seq([periodId : Periods, duration : Nat, startTime : Nat])
  /\ culledSeconds \in Int
  /\ pc \in {"period", "init", "audio", "video", "check", "refresh", "done"}
  /\ todo \subseteq Tracks /\ next \in {"audio", "video", "check"}
  /\ playing \in {"no", "ready", "yes"} /\ mDownloadsEnabled \in BOOLEAN
  /\ retune \in BOOLEAN /\ errorSent \in BOOLEAN
  /\ delivered \in [Tracks -> Delivered]
  /\ faults \in 0..stream.budget

Init ==
  /\ stream \in Streams
  /\ server = [first |-> 1, last |-> stream.initial, ended |-> ~stream.live]
  /\ mpd = [first |-> 1, last |-> stream.initial, live |-> stream.live]
  /\ LET s == Seg(stream.start)
         tl == Timeline(mpd, s.p)
         audio == HasAudio(s.p)
         fresh == [enabled |-> TRUE, row |-> s.row,
                   rep |-> (s.t - tl[s.row].t) \div D, time |-> s.t,
                   last |-> 0, lastDur |-> 0, eos |-> FALSE, eosReached |-> FALSE,
                   profileChanged |-> TRUE, discontinuity |-> FALSE,
                   init |-> NoInit, failCount |-> 0, skipOnError |-> TRUE,
                   ring |-> <<>>, injecting |-> TRUE] IN
     /\ track = [m \in Tracks |->
                   IF m = "audio" /\ ~audio
                   THEN [fresh EXCEPT !.enabled = FALSE, !.profileChanged = FALSE,
                                      !.row = 1, !.rep = 0, !.time = 0, !.injecting = FALSE]
                   ELSE fresh]
     /\ mCurrentPeriodIdx = s.p /\ iPeriod = s.p
     /\ mBasePeriodId = s.p /\ currentPeriodId = s.p
  /\ audioLead = 0 /\ mpdChanged = FALSE
  /\ currentProfileIndex = TopProfile /\ mRampDownCount = 0 /\ mCheckForRampdown = FALSE
  /\ mMPDPeriodsInfo = IF stream.live /\ stream.newTune THEN PeriodInfo(mpd) ELSE <<>>
  /\ culledSeconds = 0
  /\ pc = "init" /\ todo = Pending(track) /\ next = "audio"
  /\ playing = "no" /\ mDownloadsEnabled = TRUE /\ retune = FALSE /\ errorSent = FALSE
  /\ delivered = [m \in Tracks |->
       [seg |-> 0, init |-> NoInit, due |-> FALSE, lost |-> {}, wrong |-> {}]]
  /\ faults = 0

Fault(f) == f \in stream.faults /\ faults < stream.budget /\ faults' = faults + 1

\* FetchAndInjectInitialization for the tracks in T, then the program goes on at after.
FetchInitialization(T, after) ==
  /\ todo' = T /\ next' = after
  /\ pc' = IF T = {} THEN after ELSE "init"

-----------------------------------------------------------------------------
(* One download: CacheFragment, with r the track as it asked for the fragment *)

\* The fragment is in the ring of track m.
Cached(m, r, duration) ==
  /\ Len(r.ring) < RingSize
  /\ track' = [track EXCEPT ![m] = [r EXCEPT !.failCount = 0, !.ring = Append(@, duration)]]
  /\ mCheckForRampdown' = FALSE

\* The download failed: skip the segment, or try it again from a lower profile.
RampsDown(m) ==
  /\ m = "video" /\ currentProfileIndex > 1
  /\ ~(stream.limit >= 0 /\ mRampDownCount >= stream.limit)
  /\ track[m].failCount + (IF track[m].skipOnError THEN 1 ELSE 0) < MaxSegFail

\* retry and giveUp are the track before and after the fragment it asked for.
NotCached(m, isInit, retry, giveUp) ==
  LET r == track[m]
      count == Min({MaxSegFail, r.failCount + (IF r.skipOnError THEN 1 ELSE 0)})
      tooMany == count >= MaxSegFail
      limited == stream.limit >= 0 /\ mRampDownCount >= stream.limit
      down == RampsDown(m) IN
  /\ track' = [track EXCEPT ![m] =
         [(IF down THEN retry ELSE giveUp) EXCEPT
             !.failCount = count, !.skipOnError = isInit \/ ~down,
             !.profileChanged = @ \/ down]]
  /\ mCheckForRampdown' = down
  /\ currentProfileIndex' = IF down THEN currentProfileIndex - 1 ELSE currentProfileIndex
  /\ mRampDownCount' = IF tooMany \/ m = "audio" THEN mRampDownCount
                       ELSE IF limited THEN 0
                       ELSE IF down THEN mRampDownCount + (IF stream.limit > 0 THEN 1 ELSE 0)
                       ELSE IF isInit THEN mRampDownCount ELSE 0
  /\ errorSent' = (errorSent \/ tooMany \/ (isInit /\ ~down))

-----------------------------------------------------------------------------
(* FetchAndInjectInitialization and TrackDownloader: the tracks in parallel   *)

Requested(r, url) == [r EXCEPT !.profileChanged = FALSE, !.discontinuity = FALSE, !.init = url]

\* Fault: the init fragment of another profile or period will do.
FetchedAny(r, url) == r.init # NoInit /\ ~r.discontinuity

FetchedBefore(r, url) == r.init = url /\ ~r.discontinuity

\* No free slot in the ring, or downloads are disabled: the track stays pending.
InitNoRoom(m) ==
  /\ Len(track[m].ring) = RingSize \/ ~mDownloadsEnabled
  /\ UNCHANGED <<track, ramp, errorSent, delivered, faults>>

InitSame(m, url) ==
  /\ Len(track[m].ring) < RingSize /\ mDownloadsEnabled
  /\ FetchedBefore(track[m], url)
  /\ track' = [track EXCEPT ![m].profileChanged = FALSE]
  /\ UNCHANGED <<ramp, errorSent, delivered, faults>>

InitCached(m, url) ==
  /\ mDownloadsEnabled /\ ~FetchedBefore(track[m], url)
  /\ Cached(m, Requested(track[m], url), 0)
  /\ delivered' = [delivered EXCEPT ![m].init = url,
                                    ![m].due = @ /\ ~track[m].discontinuity]
  /\ UNCHANGED <<currentProfileIndex, mRampDownCount, errorSent, faults>>

\* The history of a track whose download fails before it has a segment.
BeforeFirst(m) == IF delivered[m].seg = 0 THEN {0} ELSE {}

InitFault(m) == IF m = "audio" THEN "audioInit" ELSE "videoInit"

InitFails(m, url) ==
  /\ Len(track[m].ring) < RingSize /\ mDownloadsEnabled
  /\ ~FetchedBefore(track[m], url)
  /\ Fault(InitFault(m))
  /\ LET r == Requested(track[m], url) IN NotCached(m, TRUE, r, r)
  /\ delivered' = [delivered EXCEPT ![m].due = @ /\ ~track[m].discontinuity,
                                    ![m].lost = @ \cup BeforeFirst(m)]

FetchInit ==
  /\ pc = "init"
  /\ \E m \in todo :
       LET url == InitUrl(m, currentPeriodId, currentProfileIndex) IN
       /\ InitNoRoom(m) \/ InitSame(m, url) \/ InitCached(m, url) \/ InitFails(m, url)
       /\ FetchInitialization(todo \ {m}, next)
  /\ UNCHANGED <<stream, server, mpd, period, culling, player, retune>>

-----------------------------------------------------------------------------
(* PushNextFragment: position, fetch, advance                                *)

\* The first segment of a period whose segments begin before presentationTimeOffset.
FromOffset(r, tl, pto) ==
  LET found == {j \in DOMAIN tl : End(tl[j]) > pto + 1}
      j == Min(found)
      n == Cardinality({k \in 1..tl[j].repeat : tl[j].t + k * D <= pto + 1}) IN
  IF tl[1].t \in {0, pto} THEN [r EXCEPT !.time = pto]
  ELSE IF found = {} THEN [r EXCEPT !.time = tl[Len(tl)].t, !.rep = 0]
  ELSE [r EXCEPT !.row = j, !.rep = n, !.time = tl[j].t + n * D]

\* After a refresh, Time is 0: find the segment by lastSegmentTime. n is where the
\* loop over the repeats stops; a segment at 0 was fetched if lastSegmentDuration is set.
FromLastSegment(r, tl) ==
  LET found == {j \in r.row..Len(tl) : r.last < End(tl[j])}
      S == tl[Min(found)]
      n == IF S.t = 0 /\ r.last = 0 /\ r.lastDur # 0 THEN 1
           ELSE IF S.t >= r.last THEN 0
           ELSE Min({S.repeat, (r.last - S.t + D - 1) \div D}) IN
  IF found = {}
  THEN [r EXCEPT !.row = Len(tl), !.rep = tl[Len(tl)].repeat + 1, !.time = r.last]
  ELSE [r EXCEPT !.row = Min(found), !.rep = n, !.time = S.t + n * D]

Position(r, tl, pto) ==
  IF pto > 0 /\ r.lastDur = 0 /\ r.time = 0 THEN FromOffset(r, tl, pto)
  ELSE IF r.rep # 0 THEN r
  ELSE IF stream.live /\ r.time = 0 THEN FromLastSegment(r, tl)
  ELSE [r EXCEPT !.time = tl[r.row].t]

\* The next segment, in the next S element after the last repeat.
Advance(r, tl) ==
  IF r.rep + 1 > tl[r.row].repeat
  THEN [r EXCEPT !.time = @ + D, !.rep = 0, !.row = @ + 1]
  ELSE [r EXCEPT !.time = @ + D, !.rep = @ + 1]

\* Fault: the segment fetched last counts as new.
IsNewOrLast(r) == r.time >= r.last \/ r.last = 0

IsNew(r) == r.time > r.last \/ r.last = 0

\* Fault: lastSegmentTime is the end of the segment.
FetchedToEnd(r) == [r EXCEPT !.last = r.time + D, !.lastDur = r.time + D]

Fetched(r) == [r EXCEPT !.last = r.time, !.lastDur = r.time + D]

\* While segments before lastSegmentTime have to be skipped.
Skipped(r, tl) ==
  LET n == Min({tl[r.row].repeat - r.rep, (r.last - r.time + D - 1) \div D}) IN
  IF r.time >= r.last \/ r.rep >= tl[r.row].repeat THEN r
  ELSE [r EXCEPT !.time = @ + n * D, !.rep = @ + n]

\* What is wrong with giving segment s to the ring of m: it comes twice or too late, it is
\* before the one to start from though no download failed, a segment before it is missing
\* without a reason, its init fragment is not the last one, or a discontinuity is still due.
Explained(m, i) ==
  \/ i \in delivered[m].lost \/ i < mpd.first
  \/ delivered[m].seg = 0 /\ i < stream.start
  \/ m = "audio" /\ ~HasAudio(Seg(i).p)
  \/ Seg(i).t + D <= stream.pto[Seg(i).p] + 1
  \/ \E j \in 1..i - 1 : Seg(j).p = Seg(i).p /\ Seg(j).t >= Seg(i).t
Wrong(m, s) ==
  LET d == delivered[m] IN
  {w \in {"order", "start", "gap", "init", "discontinuity"} :
     CASE w = "order" -> s <= d.seg
       [] w = "start" -> s < stream.start /\ 0 \notin d.lost
       [] w = "gap" -> \E i \in d.seg + 1..s - 1 : ~Explained(m, i)
       [] w = "init" -> d.init # InitUrl(m, Seg(s).p, currentProfileIndex)
       [] w = "discontinuity" -> d.due}

\* CheckForProfileChange after a segment of video: the bandwidth may call for another.
MayChangeProfile(m, T) ==
  \/ /\ track' = T
     /\ UNCHANGED <<currentProfileIndex, faults>>
  \/ /\ m = "video" /\ Fault("profile")
     /\ \E q \in 1..TopProfile \ {currentProfileIndex} : currentProfileIndex' = q
     /\ track' = [T EXCEPT !.video.profileChanged = TRUE]

PushCached(m, r, tl) ==
  LET s == SegmentAt(currentPeriodId, r.time) IN
  /\ s # 0 /\ s <= server.last
  /\ MayChangeProfile(m, [track EXCEPT ![m] =
         Advance(Fetched([r EXCEPT !.failCount = 0, !.ring = Append(@, 1)]), tl)])
  /\ mCheckForRampdown' = FALSE
  /\ mRampDownCount' = IF m = "video" THEN 0 ELSE mRampDownCount
  /\ delivered' = [delivered EXCEPT ![m].seg = Max({@, s}), ![m].wrong = @ \cup Wrong(m, s)]
  /\ UNCHANGED <<errorSent, retune>>

\* The download of a segment that is not published always fails.
PushFails(m, r, tl) ==
  LET s == SegmentAt(currentPeriodId, r.time) IN
  /\ Fault(m) \/ ((s = 0 \/ s > server.last) /\ UNCHANGED faults)
  /\ NotCached(m, FALSE, r, Advance(r, tl))
  /\ delivered' = [delivered EXCEPT ![m].lost =
                       @ \cup BeforeFirst(m) \cup IF RampsDown(m) THEN {} ELSE {s} \ {0}]
  /\ UNCHANGED retune

\* A time before t, converted to an unsigned number: what it is for -1 is undefined.
BeforeTime(t) == IF t = 0 THEN {0, MaxTime} ELSE {t - 1}

\* The start time of the period has been reset.
PushReset(m, r, tl) ==
  /\ IF stream.live /\ stream.adjust
     THEN /\ track' = [track EXCEPT ![m] = Advance(r, tl)]
          /\ retune' = TRUE
     ELSE /\ \E t \in BeforeTime(r.time) : track' = [track EXCEPT ![m] = [r EXCEPT !.last = t]]
          /\ UNCHANGED retune
  /\ UNCHANGED <<ramp, errorSent, delivered, faults>>

PushSkips(m, r, tl) ==
  /\ track' = [track EXCEPT ![m] = Advance(Skipped(r, tl), tl)]
  /\ UNCHANGED <<ramp, errorSent, delivered, faults, retune>>

PushEos(m) ==
  /\ track' = [track EXCEPT ![m].eos = TRUE]
  /\ UNCHANGED <<ramp, errorSent, delivered, faults, retune>>

PushNextFragment(m) ==
  LET tl == Timeline(mpd, currentPeriodId)
      r == Position(track[m], tl, stream.pto[currentPeriodId])
      resets == m = "video" /\ r.last - r.time > ResetDiff IN
  IF track[m].row > Len(tl) THEN PushEos(m)
  ELSE IF IsNew(r) THEN PushCached(m, r, tl) \/ PushFails(m, r, tl)
  ELSE IF resets THEN PushReset(m, r, tl)
  ELSE PushSkips(m, r, tl)

-----------------------------------------------------------------------------
(* FetcherLoop                                                               *)

\* One round of the innermost loop asks first for audio, then for video. Until the player
\* plays, the collector waits for a free slot of each.
AfterTrack(m) == IF m = "audio" THEN "video" ELSE "check"
Full(m) == Len(track[m].ring) = RingSize
Waits(m) == track[m].enabled /\ Full(m) /\ playing # "yes"

FetchTrack(m) ==
  /\ pc = m /\ mDownloadsEnabled /\ ~Waits(m)
  /\ IF ~track[m].enabled \/ (~track[m].profileChanged /\ (Full(m) \/ track[m].eos))
     THEN /\ pc' = AfterTrack(m)
          /\ UNCHANGED <<track, ramp, todo, next, errorSent, delivered, faults, retune>>
     ELSE IF track[m].profileChanged
     THEN /\ FetchInitialization(Pending(track), AfterTrack(m))
          /\ UNCHANGED <<track, ramp, errorSent, delivered, faults, retune>>
     ELSE /\ PushNextFragment(m)
          /\ pc' = AfterTrack(m)
          /\ UNCHANGED <<todo, next>>
  /\ UNCHANGED <<stream, server, mpd, period, culling, player>>

\* The last period that is not empty, among those of the manifest.
UpperBoundary == IndexOf(mpd, LastPeriod(mpd))

\* The end of the round: the period is over when all its tracks are at their end.
CheckEos ==
  LET ended == {m \in Enabled(track) : track[m].eos}
      last == ~mpd.live /\ mCurrentPeriodIdx >= UpperBoundary IN
  /\ pc = "check" /\ mDownloadsEnabled
  /\ track' = [m \in Tracks |->
                 [track[m] EXCEPT !.eosReached = @ \/ (last /\ m \in ended)]]
  /\ IF ended = Enabled(track)
     THEN pc' = "period" /\ iPeriod' = iPeriod + 1
     ELSE pc' = "audio" /\ UNCHANGED iPeriod
  /\ UNCHANGED <<mCurrentPeriodIdx, mBasePeriodId, currentPeriodId, mpdChanged, todo, next,
                 stream, server, mpd, ramp, culling, player, retune, errorSent, delivered,
                 faults>>

\* MAX_DELAY_BETWEEN_MPD_UPDATE_MS have passed.
RefreshDue ==
  /\ pc = "check" /\ mpd.live
  /\ \E m \in Enabled(track) : ~track[m].eos
  /\ pc' = "refresh"
  /\ UNCHANGED <<stream, server, mpd, track, ramp, period, culling, todo, next, player,
                 retune, errorSent, delivered, faults>>

\* The collector sees that downloads are disabled.
CollectorStops ==
  /\ pc \in Tracks \cup {"check", "refresh"} /\ ~mDownloadsEnabled
  /\ pc' = "done"
  /\ UNCHANGED <<stream, server, mpd, track, ramp, period, culling, todo, next, player,
                 retune, errorSent, delivered, faults>>

\* The loop over the periods ends: the next manifest, or the end of the stream.
PeriodsEnd ==
  /\ pc = "period" /\ iPeriod > PeriodCount(mpd)
  /\ pc' = IF mpd.live THEN "refresh" ELSE "done"
  /\ UNCHANGED <<stream, server, mpd, track, ramp, period, culling, todo, next, player,
                 retune, errorSent, delivered, faults>>

PeriodChanged == iPeriod # mCurrentPeriodIdx \/ mBasePeriodId # PeriodAt(mpd, mCurrentPeriodIdx)

SkipEmptyPeriod ==
  /\ pc = "period" /\ iPeriod <= PeriodCount(mpd)
  /\ PeriodChanged /\ IsEmptyPeriod(mpd, iPeriod)
  /\ iPeriod' = iPeriod + 1 /\ mpdChanged' = FALSE
  /\ UNCHANGED <<mCurrentPeriodIdx, mBasePeriodId, currentPeriodId, stream, server, mpd, track,
                 ramp, culling, control, player, retune, errorSent, delivered, faults>>

\* Of the tracks of period p: all are selected anew when the period is another.
StreamSelection(T, p) ==
  [m \in Tracks |->
     LET on == m = "video" \/ HasAudio(p) IN
     [T[m] EXCEPT !.enabled = on, !.profileChanged = @ \/ on]]

\* The timelines are read from their first S element again.
UpdateTrackInfo(T) ==
  [m \in Tracks |->
     IF T[m].enabled
     THEN [T[m] EXCEPT !.row = 1, !.rep = 0, !.time = 0, !.eos = FALSE] ELSE T[m]]

ForgetLastSegment(T) ==
  [m \in Tracks |->
     IF T[m].enabled THEN [T[m] EXCEPT !.last = 0, !.lastDur = 0] ELSE T[m]]

\* The period starts elsewhere than the segments of video so far lead to. With its audio
\* gone while the injector of audio runs, that is ignored.
IsDiscontinuity(p) ==
  /\ track.video.time # GetFirstSegmentStartTime(mpd, p)
  /\ ~(~HasAudio(p) /\ track.audio.injecting)

\* A manifest was fetched or another period begins.
EnterPeriod ==
  LET p == PeriodAt(mpd, iPeriod)
      moved == currentPeriodId # p
      cleared == IF moved THEN StreamSelection(ForgetLastSegment(track), p) ELSE track
      updated == UpdateTrackInfo(cleared)
      found == moved /\ IsDiscontinuity(p)
      flagged == [m \in Tracks |->
                    [updated[m] EXCEPT !.discontinuity = @ \/ (found /\ updated[m].enabled)]] IN
  /\ pc = "period" /\ iPeriod <= PeriodCount(mpd)
  /\ PeriodChanged \/ mpdChanged
  /\ ~(PeriodChanged /\ IsEmptyPeriod(mpd, iPeriod))
  /\ mCurrentPeriodIdx' = iPeriod /\ mBasePeriodId' = p /\ currentPeriodId' = p
  /\ mpdChanged' = FALSE /\ UNCHANGED iPeriod
  /\ track' = flagged
  /\ IF stream.live
     THEN LET culled == GetCulledSeconds(mpd) IN
          /\ culledSeconds' = culledSeconds + (IF culled > 0 THEN culled ELSE 0)
          /\ mMPDPeriodsInfo' = PeriodInfo(mpd)
     ELSE UNCHANGED culling
  /\ FetchInitialization(Pending(flagged), "audio")
  /\ delivered' = [m \in Tracks |->
       [delivered[m] EXCEPT !.due = @ \/ (found /\ updated[m].enabled)]]
  /\ UNCHANGED <<stream, server, mpd, ramp, player, retune, errorSent, faults>>

\* The period being played is looked up by its id: if it is gone, the first one.
Reselect(w) ==
  LET known == {i \in 1..PeriodCount(w) : PeriodAt(w, i) = mBasePeriodId} IN
  IF known = {} THEN 1 ELSE Min(known)

\* The manifest is the newest one, or one without its last segment that a cache kept.
UpdateMPD ==
  /\ pc = "refresh" /\ mDownloadsEnabled
  /\ \/ /\ mpd' = [first |-> server.first, last |-> server.last, live |-> ~server.ended]
        /\ UNCHANGED faults
     \/ /\ mpd.last - 1 \in InPeriod(mpd, LastPeriod(mpd))
        /\ Fault("stale")
        /\ mpd' = [mpd EXCEPT !.last = @ - 1]
  /\ mCurrentPeriodIdx' = Reselect(mpd') /\ iPeriod' = Reselect(mpd')
  /\ mpdChanged' = TRUE /\ pc' = "period"
  /\ UNCHANGED <<stream, server, mBasePeriodId, currentPeriodId, track, ramp, culling, todo,
                 next, player, retune, errorSent, delivered>>

\* A timeout is ignored, the old manifest stays; any other failure ends the collector.
UpdateMPDFails ==
  /\ pc = "refresh" /\ mDownloadsEnabled
  /\ \/ /\ Fault("timeout")
        /\ mCurrentPeriodIdx' = Reselect(mpd) /\ iPeriod' = Reselect(mpd)
        /\ mpdChanged' = TRUE /\ pc' = "period" /\ UNCHANGED errorSent
     \/ /\ Fault("manifest")
        /\ errorSent' = TRUE /\ pc' = "done"
        /\ UNCHANGED <<mCurrentPeriodIdx, iPeriod, mpdChanged>>
  /\ UNCHANGED <<stream, server, mpd, mBasePeriodId, currentPeriodId, track, ramp, culling,
                 todo, next, player, retune, delivered>>

Collector ==
  \/ FetchInit \/ FetchTrack("audio") \/ FetchTrack("video") \/ CheckEos
  \/ CollectorStops \/ PeriodsEnd \/ SkipEmptyPeriod \/ EnterPeriod
  \/ UpdateMPD \/ UpdateMPDFails

-----------------------------------------------------------------------------
(* The injectors, the player and the server                                  *)

\* WaitForVideoTrackCatchup holds audio back while it is more than a segment ahead.
AtEndOfTrack(m) == track[m].eosReached /\ track[m].ring = <<>>

\* Fault: audio waits for each segment of video, at its end too.
CaughtUpAlways(m) == m = "video" \/ audioLead <= 0 \/ ~mDownloadsEnabled

CaughtUp(m) == m = "video" \/ audioLead <= 1 \/ AtEndOfTrack("video") \/ ~mDownloadsEnabled

InjectFragment(m) ==
  /\ track[m].injecting /\ track[m].ring # <<>> /\ CaughtUp(m)
  /\ track' = [track EXCEPT ![m].ring = Tail(@)]
  /\ LET n == Head(track[m].ring) IN
     /\ audioLead' = audioLead + IF m = "audio" THEN n ELSE -n
     /\ playing' = IF m = "video" /\ n = 1 /\ playing = "no" THEN "ready" ELSE playing
  /\ UNCHANGED <<stream, server, mpd, ramp, period, culling, control, mDownloadsEnabled,
                 retune, errorSent, delivered, faults>>

FirstFrame ==
  /\ playing = "ready" /\ playing' = "yes"
  /\ UNCHANGED <<stream, server, mpd, track, ramp, period, culling, control, audioLead,
                 mDownloadsEnabled, retune, errorSent, delivered, faults>>

Stop ==
  /\ mDownloadsEnabled /\ "stop" \in stream.faults
  /\ mDownloadsEnabled' = FALSE
  /\ UNCHANGED <<stream, server, mpd, track, ramp, period, culling, control, playing,
                 audioLead, retune, errorSent, delivered, faults>>

\* The server publishes a segment and removes the one that leaves the window; or it
\* marks the manifest static.
Publish ==
  /\ ~server.ended
  /\ server' = IF server.last < Len(stream.segs)
               THEN [server EXCEPT !.last = @ + 1,
                       !.first = IF stream.window = 0 THEN @
                                 ELSE Max({@, server.last + 2 - stream.window})]
               ELSE [server EXCEPT !.ended = TRUE]
  /\ UNCHANGED <<stream, mpd, track, ramp, period, culling, control, player, retune,
                 errorSent, delivered, faults>>

Done == pc = "done" /\ UNCHANGED vars

Next ==
  \/ Collector \/ RefreshDue \/ \E m \in Tracks : InjectFragment(m)
  \/ FirstFrame \/ Stop \/ Publish \/ Done

\* Whether the collector can go on; each of its steps changes one of these variables.
CollectorReady == pc # "done" /\ ~(pc \in Tracks /\ mDownloadsEnabled /\ Waits(pc))
CollectorMoves == <<control, iPeriod, mpdChanged>>

\* The collector and the injectors are threads, the clock makes a refresh due again and
\* again, the player shows its first frame and the server goes on publishing. The first
\* conjunct is the weak fairness of Collector \/ RefreshDue.
Fairness ==
  /\ []<>~CollectorReady \/ []<><<TRUE>>_CollectorMoves
  /\ SF_vars(RefreshDue)
  /\ \A m \in Tracks : WF_vars(InjectFragment(m))
  /\ WF_vars(FirstFrame) /\ WF_vars(Publish)

Spec == Init /\ [][Next]_vars /\ Fairness

-----------------------------------------------------------------------------
(* Properties                                                                *)

NeverWrong(w) == \A m \in Tracks : w \notin delivered[m].wrong

\* No segment is given to a ring twice or after a later one, whatever the refreshes do.
InOrder == TypeOK /\ NeverWrong("order")

\* A collector that is not stopped, sends no error and asks for no retune ends with every
\* track at its end, and has tried each segment up to the last.
EndsAtEos ==
  pc = "done" /\ mDownloadsEnabled /\ ~errorSent /\ ~retune
    => \A m \in Enabled(track) :
         /\ track[m].eosReached
         /\ \A i \in delivered[m].seg + 1..Len(stream.segs) : Explained(m, i)

\* A segment is left out only if its download failed, it left the manifest before it was
\* asked for, its period has no such track or begins after it, or the times of its period
\* had started again and it passes for an old one. A collector that ends with none left out
\* is at the end of every track. Playback begins where it was asked to, unless a download
\* fails before the first segment of the track: after the next refresh the code then starts
\* from the beginning of the period (the comment at fragmentcollector_mpd.cpp:1858).
NothingLeftOut == NeverWrong("gap") /\ NeverWrong("start") /\ EndsAtEos

\* A segment follows the init fragment of its period and profile, unless an error event
\* was sent for it; and after a discontinuity none comes before the init fragment that
\* carries the flag has been asked for.
InitFirst == (NeverWrong("init") \/ errorSent) /\ NeverWrong("discontinuity")

\* Up to the first segment of the manifest, the times of a period went back.
StartWentBack ==
  \E i, j \in 1..mpd.first : i < j /\ Seg(i).p = Seg(j).p /\ Seg(j).t < Seg(i).t

\* What was culled is never overestimated: the position of the player, counted from what
\* was culled, stays in the window, until the start time of a period goes back: the
\* difference GetCulledSeconds adds then wraps.
CulledBounded == StartWentBack \/ culledSeconds <= D * (mpd.first - 1)

\* Unless it is stopped, retuned or fails, playback reaches the end of the stream.
ReachesEnd == <>(~mDownloadsEnabled \/ errorSent \/ retune \/
                 \A m \in Enabled(track) : AtEndOfTrack(m))
=============================================================================
