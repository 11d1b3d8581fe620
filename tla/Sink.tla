-------------------------------- MODULE Sink --------------------------------
(***************************************************************************)
(* AAMPGstPlayer and the parts of PrivateInstanceAAMP that pause and un-   *)
(* pause its pipeline.  Four of them do, each with flags of its own and    *)
(* hardly aware of the others: the sink's own buffering before play (a     *)
(* timer of the main loop), the buffering after an underflow of the        *)
(* decoder (the sink's streaming thread starts it; an injector thread or   *)
(* the buffer monitor ends it), the initial caching of fragments (the      *)
(* collector ends it) and the user.  At the end of a recorded stream the   *)
(* two injectors hand the sink their ends and the main loop reports one.   *)
(*                                                                         *)
(* Of the pipeline itself, which is GStreamer's, the model keeps the state *)
(* it is asked for, whether the change is still under way, and the video   *)
(* in its source queue and in its decoder.  The video sink is Westeros',   *)
(* the stream is DASH: its buffering before play never re-tunes.           *)
(***************************************************************************)
EXTENDS Naturals, Sequences

CONSTANTS
    Scenarios,      \* the streams, settings and users checked, see Scenario
    CacheMax,       \* maxCachedFragmentsPerTrack
    CacheMin,       \* fragments that make the initial caching complete
    SourceMax,      \* fragments at which the source has enough data
    DecoderMax,     \* fragments the decoder holds
    DecoderMin,     \* DEFAULT_BUFFERING_QUEUED_..._MIN: what it needs to play
    BufferingCnt,   \* DEFAULT_BUFFERING_MAX_CNT
    MaxFragments,   \* bound: fragments of a recorded stream
    MaxUnderflows,  \* bound: underflows the decoder reports
    MaxCalls        \* bound: calls of the user, of each kind

Scenario == [vod : BOOLEAN,         \* a recorded stream ends, a live one does not
             underflow : {"never", "end", "any"}, \* when the decoder reports one
             caching : BOOLEAN,     \* mMinInitialCacheSeconds > 0
             prebuffer : BOOLEAN,   \* gstreamerBufferingBeforePlay
             audio : {"data", "empty"}, \* audio from here to the end, or none
             user : [{"pause", "seek"} -> 0..MaxCalls]] \* calls of the user

ASSUME ConstantsAssumption ==
    /\ Scenarios \subseteq Scenario
    /\ {CacheMax, CacheMin, SourceMax, DecoderMax} \subseteq Nat \ {0}
    /\ {DecoderMin, BufferingCnt, MaxFragments, MaxUnderflows, MaxCalls} \subseteq Nat
    /\ DecoderMin < DecoderMax

VARIABLES
    scenario,
    pipe,           \* the state asked of the pipeline
    async,          \* the pipeline has not finished its last change of state
    source, decoder,\* video fragments in the source and in the decoder
    prebuffering,   \* buffering_in_progress
    target,         \* buffering_target_state
    ticks,          \* buffering_timeout_cnt
    timer,          \* bufferingTimeoutTimerId is set
    sinkPaused,     \* privateContext->paused
    pendingPlay,    \* pendingPlayState
    reset,          \* stream[].resetPosition: no buffer since the last flush
    eosReached,     \* stream[].eosReached: the tracks whose end the sink knows
    sourceEnded,    \* the tracks whose source was given end-of-stream
    eosSignalled,   \* eosSignalled
    eosSent,        \* AAMP_EVENT_EOS was sent for this stream
    tasks,          \* idle tasks of the sink on the main loop, in their order
    ptsCheck,       \* ptsCheckForEosOnUnderflowIdleTaskId is set
    ptsMoved,       \* meanwhile the PTS of the decoder has left lastKnownPTS
    shown,          \* the decoder has reported its first frame
    state,          \* mState
    pipelinePaused, \* pipeline_paused
    underflow,      \* mBufUnderFlowStatus
    cachingRequired,\* mFragmentCachingRequired
    frameAwaited,   \* mFirstVideoFrameDisplayedEnabled
    pauseOnFrame,   \* mPauseOnFirstVideoFrameDisp
    downloadsBlocked, trackBlocked, \* mbDownloadsBlocked, mbTrackDownloadsBlocked
    left, cached, fetched, cachingDone, \* the video track's collector
    sinkFull,       \* MediaTrack::sinkBufferIsFull
    core,           \* owner of mLock (SyncBegin)
    bufferingLock,  \* owner of the sink's mBufferingLock
    pc,             \* where each thread is
    asked,          \* what the user asked for last, of what was not skipped
    seeking,        \* what TuneHelper does next for a seek
    calls,          \* calls the user has left
    underflows

gst == <<pipe, async, source, decoder>>
prebuf == <<prebuffering, target, ticks, timer>>
play == <<sinkPaused, pendingPlay>>
ends == <<reset, eosReached, sourceEnded, eosSignalled, eosSent>>
loop == <<tasks, ptsCheck, ptsMoved, shown>>
player == <<state, pipelinePaused, underflow>>
frame == <<cachingRequired, frameAwaited, pauseOnFrame>>
blocked == <<downloadsBlocked, trackBlocked>>
collector == <<left, cached, fetched, cachingDone, sinkFull>>
locks == <<core, bufferingLock>>
user == <<asked, seeking, calls>>
vars == <<scenario, gst, prebuf, play, ends, loop, player, frame, blocked,
          collector, locks, pc, user, underflows>>

Tracks == {"video", "audio"}
Threads == Tracks \cup {"monitor", "decoder", "collector"}
Free == "none"
EndSteps == {"endBuf", "endPlay"}

CanTake(lock, t) == lock \in {Free, t}
At(t, label) == pc[t] = label
Goto(t, label) == pc' = [pc EXCEPT ![t] = label]
Injecting(t) == At(t, "rest")

(* The streams that deliver buffers: an audio track at its end has none.   *)
Ended(t) == IF t = "video" THEN left = 0 /\ cached = 0 ELSE left = 0 \/ scenario.audio = "empty"

(* Fault: the end signalled of the last position stays.                    *)
ConfiguredKeepsEos ==
    /\ pipe' = (IF scenario.prebuffer \/ pipelinePaused THEN "PAUSED" ELSE "PLAYING")
    /\ target' = (CASE pipelinePaused -> "PAUSED"
                   [] ~pipelinePaused /\ scenario.prebuffer -> "PLAYING"
                   [] OTHER -> target)
    /\ prebuffering' = scenario.prebuffer
    /\ ticks' = BufferingCnt /\ timer' = FALSE
    /\ async' = TRUE /\ source' = 0 /\ decoder' = 0
    /\ sinkPaused' = pipelinePaused /\ pendingPlay' = FALSE
    /\ reset' = [t \in Tracks |-> TRUE] /\ eosReached' = {}
    /\ sourceEnded' = {} /\ UNCHANGED eosSignalled /\ eosSent' = FALSE
    /\ tasks' = <<>> /\ ptsCheck' = FALSE /\ ptsMoved' = FALSE /\ shown' = FALSE

(* Configure on a new pipeline: it is paused to be buffered or played at   *)
(* once, nothing was pushed and no end seen; TuneHelper then pauses it if  *)
(* the player is paused.                                                   *)
Configured ==
    /\ pipe' = (IF scenario.prebuffer \/ pipelinePaused THEN "PAUSED" ELSE "PLAYING")
    /\ target' = (CASE pipelinePaused -> "PAUSED"
                   [] ~pipelinePaused /\ scenario.prebuffer -> "PLAYING"
                   [] OTHER -> target)
    /\ prebuffering' = scenario.prebuffer
    /\ ticks' = BufferingCnt /\ timer' = FALSE
    /\ async' = TRUE /\ source' = 0 /\ decoder' = 0
    /\ sinkPaused' = pipelinePaused /\ pendingPlay' = FALSE
    /\ reset' = [t \in Tracks |-> TRUE] /\ eosReached' = {}
    /\ sourceEnded' = {} /\ eosSignalled' = FALSE /\ eosSent' = FALSE
    /\ tasks' = <<>> /\ ptsCheck' = FALSE /\ ptsMoved' = FALSE /\ shown' = FALSE

Init ==
    /\ scenario \in Scenarios
    /\ pipe = IF scenario.prebuffer THEN "PAUSED" ELSE "PLAYING"
    /\ target = IF scenario.prebuffer THEN "PLAYING" ELSE "NULL"
    /\ prebuffering = scenario.prebuffer
    /\ ticks = BufferingCnt /\ timer = FALSE
    /\ async = TRUE /\ source = 0 /\ decoder = 0
    /\ sinkPaused = FALSE /\ pendingPlay = FALSE
    /\ reset = [t \in Tracks |-> TRUE] /\ eosReached = {}
    /\ sourceEnded = {} /\ eosSignalled = FALSE /\ eosSent = FALSE
    /\ tasks = <<>> /\ ptsCheck = FALSE /\ ptsMoved = FALSE /\ shown = FALSE
    /\ state = "prepared" /\ pipelinePaused = FALSE /\ underflow = FALSE
    /\ cachingRequired = scenario.caching /\ frameAwaited = scenario.caching
    /\ pauseOnFrame = FALSE
    /\ downloadsBlocked = FALSE /\ trackBlocked = TRUE
    /\ left = MaxFragments /\ cached = 0 /\ fetched = 0 /\ cachingDone = FALSE
    /\ sinkFull = FALSE
    /\ core = Free /\ bufferingLock = Free
    /\ pc = [t \in Threads |-> "rest"]
    /\ asked = "play" /\ seeking = "no" /\ calls = scenario.user /\ underflows = 0

-----------------------------------------------------------------------------
(* Fault: the buffering before play keeps its target.                      *)
SetPauseKeepsTarget(paused, stopPrebuffering) ==
    LET next == IF paused THEN "PAUSED" ELSE "PLAYING" IN
    /\ prebuffering' = (prebuffering /\ ~(paused /\ stopPrebuffering))
    /\ pipe' = next
    /\ async' = (async \/ (paused /\ pipe = "PLAYING"))
    /\ sinkPaused' = paused /\ pendingPlay' = FALSE
    /\ UNCHANGED <<source, decoder, target, ticks, timer>>

(* AAMPGstPlayer::Pause, with mLock held by SyncBegin.                     *)
SetPause(paused, stopPrebuffering) ==
    LET next == IF paused THEN "PAUSED" ELSE "PLAYING" IN
    /\ prebuffering' = (prebuffering /\ ~(paused /\ stopPrebuffering))
    /\ pipe' = next /\ target' = next
    /\ async' = (async \/ (paused /\ pipe = "PLAYING"))
    /\ sinkPaused' = paused /\ pendingPlay' = FALSE
    /\ UNCHANGED <<source, decoder, ticks, timer>>

NotPaused == UNCHANGED <<gst, prebuf, play>>

(* Fault: the pending play is forgotten.                                   *)
ForgetPending == UNCHANGED pipe /\ pendingPlay' = FALSE

(* AAMPGstPlayer::NotifyFragmentCachingComplete, alone: play at last.      *)
PlayIfPending ==
    /\ pipe' = (IF pendingPlay THEN "PLAYING" ELSE pipe)
    /\ pendingPlay' = FALSE

(* AAMPGstPlayer::NotifyEOS: one idle task reports the end of the stream.  *)
NotifyEOS ==
    /\ tasks' = (IF eosSignalled THEN tasks ELSE Append(tasks, "eos"))
    /\ eosSignalled' = TRUE

(* IsFragmentCachingRequired.                                              *)
CachingRequired == ~pauseOnFrame /\ cachingRequired

LeaveBuffering(next) == IF state = "buffering" THEN next ELSE state

-----------------------------------------------------------------------------
(* The collector: a fragment is fetched; when enough of them are, or the   *)
(* cache and the sink are full, the initial caching is complete, which is  *)
(* announced after the track's mutex was released.                         *)

Fetch ==
    /\ At("collector", "rest") /\ seeking = "no"
    /\ left > 0 /\ cached < CacheMax
    /\ left' = (IF scenario.vod THEN left - 1 ELSE left)
    /\ cached' = cached + 1
    /\ fetched' = (IF fetched < CacheMin THEN fetched + 1 ELSE fetched)
    /\ LET complete == CachingRequired /\ ~cachingDone /\
                         (fetched' >= CacheMin \/ (sinkFull /\ cached' = CacheMax)) IN
       /\ cachingDone' = (cachingDone \/ complete)
       /\ IF complete THEN Goto("collector", "complete") ELSE UNCHANGED pc
    /\ UNCHANGED sinkFull
    /\ UNCHANGED <<scenario, gst, prebuf, play, ends, loop, player, frame,
                   blocked, locks, user, underflows>>

(* PrivateInstanceAAMP::NotifyFragmentCachingComplete.                     *)
CachingComplete ==
    /\ At("collector", "complete") /\ core = Free
    /\ Goto("collector", "rest")
    /\ cachingRequired' = FALSE
    /\ PlayIfPending
    /\ state' = LeaveBuffering("playing")
    /\ UNCHANGED <<scenario, async, source, decoder, prebuf, sinkPaused, ends,
                   loop, pipelinePaused, underflow, frameAwaited, pauseOnFrame,
                   blocked, collector, locks, user, underflows>>

-----------------------------------------------------------------------------
(* The injectors.                                                          *)

(* BlockUntilGstreamerWantsData and Send: the source takes the fragment,   *)
(* asks to stop when it has enough, and an underflow may be over.  A sink  *)
(* that has enough for the first time, with a full cache behind it, makes  *)
(* the initial caching complete too (OnSinkBufferFull).                    *)
SendVideo ==
    /\ Injecting("video") /\ seeking = "no" /\ cached > 0
    /\ ~downloadsBlocked /\ ~trackBlocked
    /\ source' = source + 1 /\ cached' = cached - 1
    /\ reset' = [reset EXCEPT !["video"] = FALSE]
    /\ trackBlocked' = (source' >= SourceMax)
    /\ sinkFull' = (sinkFull \/ trackBlocked')
    /\ IF trackBlocked' /\ ~sinkFull /\ cached = CacheMax /\ CachingRequired /\ ~cachingDone
         THEN /\ cachingDone' = TRUE /\ cachingRequired' = FALSE
              /\ PlayIfPending /\ state' = LeaveBuffering("playing")
         ELSE UNCHANGED <<cachingDone, cachingRequired, pipe, pendingPlay, state>>
    /\ Goto("video", "buf")
    /\ UNCHANGED <<scenario, async, decoder, prebuf, sinkPaused, eosReached,
                   sourceEnded, eosSignalled, eosSent, loop, pipelinePaused, underflow,
                   frameAwaited, pauseOnFrame, left, fetched, downloadsBlocked,
                   locks, user, underflows>>

SendAudio ==
    /\ Injecting("audio") /\ seeking = "no" /\ reset["audio"] /\ scenario.audio = "data"
    /\ ~downloadsBlocked
    /\ reset' = [reset EXCEPT !["audio"] = FALSE]
    /\ UNCHANGED <<scenario, gst, prebuf, play, eosReached, sourceEnded,
                   eosSignalled, eosSent, loop, player, frame, blocked, collector, locks,
                   pc, user, underflows>>

(* PrivateInstanceAAMP::EndOfStreamReached enters the sink with mLock held.*)
(* A track that pushed nothing is reported at once; another has its source *)
(* told, and ends any buffering by force, mLock still held.                *)
EndOfStream(t) ==
    /\ Injecting(t) /\ seeking = "no" /\ scenario.vod /\ core = Free
    /\ Ended(t) /\ t \notin eosReached
    /\ (t = "audio" /\ scenario.audio = "data") => ~reset["audio"]
    /\ eosReached' = eosReached \cup {t}
    /\ \/ /\ reset[t] /\ NotifyEOS
          /\ Goto(t, "ended")
          /\ UNCHANGED <<gst, play, sourceEnded, core>>
       \/ /\ ~reset[t] /\ PlayIfPending
          /\ sourceEnded' = sourceEnded \cup {t}
          /\ core' = t /\ Goto(t, "endBuf")
          /\ UNCHANGED <<async, source, decoder, sinkPaused, tasks, eosSignalled>>
    /\ UNCHANGED <<scenario, prebuf, reset, eosSent, ptsCheck, ptsMoved, shown, player,
                   frame, blocked, collector, bufferingLock, user, underflows>>

(* The rest of it, under mFragmentCachingLock.                             *)
EndOfStreamDone(t) ==
    /\ At(t, "ended") /\ Goto(t, "rest")
    /\ cachingRequired' = FALSE
    /\ state' = LeaveBuffering("playing")
    /\ UNCHANGED <<scenario, gst, prebuf, play, ends, loop, pipelinePaused,
                   underflow, frameAwaited, pauseOnFrame, blocked, collector,
                   locks, user, underflows>>

-----------------------------------------------------------------------------
(* StopBuffering: under mBufferingLock, and to un-pause under mLock too.   *)
(* Forced by the end of a track and by the monitor, else when the decoder  *)
(* has what it needs.                                                      *)

Leave(t) ==
    /\ Goto(t, IF pc[t] \in EndSteps THEN "ended" ELSE "rest")
    /\ core' = (IF core = t THEN Free ELSE core)

StopBuffering(t) ==
    /\ pc[t] \in {"buf", "endBuf"} /\ bufferingLock = Free
    /\ LET stop == /\ underflow
                   /\ t = "monitor" \/ At(t, "endBuf") \/ decoder > DecoderMin IN
       \/ /\ ~stop /\ Leave(t) /\ UNCHANGED <<underflow, bufferingLock>>
       \/ /\ stop /\ pipe = "PLAYING" /\ ~async
          /\ underflow' = FALSE /\ Leave(t) /\ UNCHANGED bufferingLock
       \/ /\ stop /\ (pipe # "PLAYING" \/ async)
          /\ bufferingLock' = t
          /\ Goto(t, IF At(t, "endBuf") THEN "endPlay" ELSE "play")
          /\ UNCHANGED <<underflow, core>>
    /\ UNCHANGED <<scenario, gst, prebuf, play, ends, loop, state, pipelinePaused,
                   frame, blocked, collector, user, underflows>>

(* aamp->PausePipeline(false, false) and the end of buffering.             *)
StopBufferingPlay(t) ==
    /\ pc[t] \in {"play", "endPlay"} /\ CanTake(core, t)
    /\ SetPause(FALSE, FALSE)
    /\ pipelinePaused' = FALSE /\ underflow' = FALSE
    /\ bufferingLock' = Free /\ Leave(t)
    /\ UNCHANGED <<scenario, ends, loop, state, frame, blocked, collector, user,
                   underflows>>

(* Fault: the monitor looks for an empty cache, not for a full source.     *)
MonitorEmptyCache ==
    /\ At("monitor", "rest") /\ seeking = "no"
    /\ underflow /\ cached = 0
    /\ Goto("monitor", "buf")
    /\ UNCHANGED <<scenario, gst, prebuf, play, ends, loop, player, frame,
                   blocked, collector, locks, user, underflows>>

(* MonitorBufferHealth: buffering, with fragments to spare that the source *)
(* does not want, would never end.                                         *)
Monitor ==
    /\ At("monitor", "rest") /\ seeking = "no"
    /\ underflow /\ cached > 0 /\ trackBlocked
    /\ Goto("monitor", "buf")
    /\ UNCHANGED <<scenario, gst, prebuf, play, ends, loop, player, frame,
                   blocked, collector, locks, user, underflows>>

-----------------------------------------------------------------------------
(* GStreamer's own threads.                                                *)

(* The source hands a fragment to the decoder.                             *)
Decode ==
    /\ pipe # "NULL" /\ source > 0 /\ decoder < DecoderMax
    /\ source' = source - 1 /\ decoder' = decoder + 1
    /\ UNCHANGED <<scenario, pipe, async, prebuf, play, ends, loop, player, frame,
                   blocked, collector, locks, pc, user, underflows>>

(* "need-data": ResumeTrackDownloads.                                      *)
NeedData ==
    /\ pipe # "NULL" /\ trackBlocked /\ source < SourceMax
    /\ trackBlocked' = FALSE
    /\ UNCHANGED <<scenario, gst, prebuf, play, ends, loop, player, frame,
                   downloadsBlocked, collector, locks, pc, user, underflows>>

(* The change of state is over once the decoder has a frame: ASYNC_DONE    *)
(* starts the buffering timer.                                             *)
AsyncDone ==
    /\ async /\ pipe # "NULL" /\ decoder > 0
    /\ async' = FALSE
    /\ timer' = (timer \/ prebuffering)
    /\ UNCHANGED <<scenario, pipe, source, decoder, prebuffering, target, ticks,
                   play, ends, loop, player, frame, blocked, collector, locks, pc,
                   user, underflows>>

Render ==
    /\ pipe = "PLAYING" /\ ~async /\ decoder > 0
    /\ decoder' = decoder - 1
    /\ ptsMoved' = (ptsMoved \/ ptsCheck)
    /\ UNCHANGED <<scenario, pipe, async, source, prebuf, play, ends, tasks, ptsCheck,
                   shown, player, frame, blocked, collector, locks, pc, user,
                   underflows>>

(* NotifyFirstFrame: idle tasks for the first frame and for its display.   *)
FirstFrame ==
    /\ ~shown /\ pipe # "NULL" /\ ~async /\ decoder > 0
    /\ shown' = TRUE
    /\ tasks' = tasks \o (IF frameAwaited THEN <<"frame", "displayed">> ELSE <<"frame">>)
    /\ state' = (IF ~frameAwaited /\ state = "seeking" THEN "playing" ELSE state)
    /\ UNCHANGED <<scenario, gst, prebuf, play, ends, ptsCheck, ptsMoved, pipelinePaused,
                   underflow, frame, blocked, collector, locks, pc, user, underflows>>

(* The underflow callback: at the end of the stream a timer watches the    *)
(* last frames out, before it ScheduleRetune goes on if the state is right.*)
(* The decoder may report one when it is not really empty.                 *)
Underflow ==
    /\ At("decoder", "rest") /\ underflows < MaxUnderflows
    /\ scenario.underflow = "any" \/ (scenario.underflow = "end" /\ "video" \in eosReached)
    /\ pipe = "PLAYING" /\ ~async /\ shown
    /\ underflows' = underflows + 1
    /\ IF "video" \in eosReached
         THEN ptsCheck' = TRUE /\ UNCHANGED pc
         ELSE /\ IF state = "playing" THEN Goto("decoder", "under") ELSE UNCHANGED pc
              /\ UNCHANGED ptsCheck
    /\ UNCHANGED <<scenario, gst, prebuf, play, ends, tasks, ptsMoved, shown, player, frame,
                   blocked, collector, locks, user>>

(* ScheduleRetune announces the buffering and only then pauses.            *)
UnderflowStarts ==
    /\ At("decoder", "under") /\ Goto("decoder", "pause")
    /\ underflow' = TRUE
    /\ UNCHANGED <<scenario, gst, prebuf, play, ends, loop, state, pipelinePaused,
                   frame, blocked, collector, locks, user, underflows>>

UnderflowPauses ==
    /\ At("decoder", "pause") /\ Goto("decoder", "rest")
    /\ pipelinePaused \/ core = Free
    /\ IF pipelinePaused \/ pipe = "NULL" THEN NotPaused /\ UNCHANGED pipelinePaused
       ELSE SetPause(TRUE, TRUE) /\ pipelinePaused' = TRUE
    /\ UNCHANGED <<scenario, ends, loop, state, underflow, frame, blocked,
                   collector, locks, user, underflows>>

-----------------------------------------------------------------------------
(* The main loop: the sink's timers and tasks, the bus, the user's calls.  *)

LoopRuns == seeking = "no"
LoopFree == LoopRuns /\ core = Free

(* buffering_timeout.                                                      *)
PrebufferTick ==
    /\ timer /\ LoopRuns
    /\ IF ~prebuffering THEN timer' = FALSE /\ UNCHANGED <<pipe, prebuffering, ticks>>
       ELSE IF decoder > DecoderMin \/ ticks = 0
       THEN pipe' = target /\ prebuffering' = FALSE /\ timer' = FALSE /\ UNCHANGED ticks
       ELSE ticks' = ticks - 1 /\ UNCHANGED <<pipe, prebuffering, timer>>
    /\ UNCHANGED <<scenario, async, source, decoder, target, play, ends, loop,
                   player, frame, blocked, collector, locks, pc, user, underflows>>

(* The bus reports the end once both sources ended and all was rendered.   *)
BusEos ==
    /\ LoopRuns /\ sourceEnded = Tracks /\ source = 0 /\ decoder = 0
    /\ pipe = "PLAYING" /\ ~eosSignalled
    /\ NotifyEOS
    /\ UNCHANGED <<scenario, gst, prebuf, play, reset, eosReached, sourceEnded, eosSent,
                   ptsCheck, ptsMoved, shown, player, frame, blocked, collector, locks, pc, user,
                   underflows>>

(* VideoDecoderPtsCheckerForEOS: the frames have stopped, or still move.   *)
PtsCheck ==
    /\ LoopRuns /\ ptsCheck /\ ptsCheck' = FALSE /\ ptsMoved' = FALSE
    /\ IF ~ptsMoved THEN NotifyEOS ELSE UNCHANGED <<tasks, eosSignalled>>
    /\ UNCHANGED <<scenario, gst, prebuf, play, reset, eosReached, sourceEnded, eosSent,
                   shown, player, frame, blocked, collector, locks, pc, user,
                   underflows>>

(* The idle tasks run in the order in which they were added.               *)
Run(task) == LoopFree /\ tasks # <<>> /\ Head(tasks) = task /\ tasks' = Tail(tasks)

(* NotifyEOSReached: believed if the collectors have reached the end.      *)
EosTask ==
    /\ Run("eos")
    /\ IF left = 0 THEN state' = "complete" /\ eosSent' = TRUE ELSE UNCHANGED <<state, eosSent>>
    /\ UNCHANGED <<scenario, gst, prebuf, play, reset, eosReached, sourceEnded,
                   eosSignalled, ptsCheck, ptsMoved, shown, pipelinePaused,
                   underflow, frame, blocked, collector, locks, pc, user, underflows>>

(* NotifyFirstFrameReceived.                                               *)
FrameTask ==
    /\ Run("frame")
    /\ state' = (IF frameAwaited THEN state ELSE "playing")
    /\ UNCHANGED <<scenario, gst, prebuf, play, ends, ptsCheck, ptsMoved, shown, pipelinePaused,
                   underflow, frame, blocked, collector, locks, pc, user, underflows>>

(* SetStateBufferingIfRequired, when it is: NotifyFragmentCachingOngoing   *)
(* pauses unless the sink was paused already.                              *)
StartCaching ==
    /\ state' = "buffering"
    /\ IF state = "buffering" THEN NotPaused
       ELSE IF sinkPaused THEN pendingPlay' = TRUE /\ UNCHANGED <<gst, prebuf, sinkPaused>>
       ELSE /\ prebuffering' = FALSE /\ pipe' = "PAUSED" /\ target' = "PAUSED"
            /\ async' = (async \/ pipe = "PLAYING")
            /\ sinkPaused' = TRUE /\ pendingPlay' = TRUE
            /\ UNCHANGED <<source, decoder, ticks, timer>>

(* NotifyFirstVideoFrameDisplayed: a seek made in pause pauses again, else *)
(* the first frame stays until enough was cached, or plays on.             *)
DisplayedTask ==
    /\ Run("displayed")
    /\ frameAwaited' = FALSE /\ pauseOnFrame' = FALSE
    /\ \/ /\ ~frameAwaited \/ (pauseOnFrame /\ state # "seeking")
          /\ NotPaused /\ UNCHANGED <<state, pipelinePaused, downloadsBlocked>>
       \/ /\ frameAwaited /\ pauseOnFrame /\ state = "seeking"
          /\ SetPause(TRUE, FALSE)
          /\ pipelinePaused' = TRUE /\ downloadsBlocked' = TRUE /\ state' = "paused"
       \/ /\ frameAwaited /\ ~pauseOnFrame
          /\ IF cachingRequired THEN StartCaching ELSE state' = "playing" /\ NotPaused
          /\ UNCHANGED <<pipelinePaused, downloadsBlocked>>
    /\ UNCHANGED <<scenario, ends, ptsCheck, ptsMoved, shown, underflow, cachingRequired,
                   trackBlocked, collector, locks, pc, user, underflows>>

Call(op) == LoopFree /\ calls[op] > 0 /\ calls' = [calls EXCEPT ![op] = @ - 1]

(* SetRate(0).  On a pipeline that is paused already, by an underflow as   *)
(* well, the call is skipped as a duplicate and nothing changes.           *)
PauseCall ==
    /\ Call("pause") /\ ~pipelinePaused /\ asked' = "pause"
    /\ SetPause(TRUE, FALSE)
    /\ downloadsBlocked' = TRUE /\ pipelinePaused' = TRUE /\ state' = "paused"
    /\ UNCHANGED <<scenario, ends, loop, underflow, frame, trackBlocked, collector,
                   locks, pc, seeking, underflows>>

(* SetRate(1), skipped likewise on one that is not paused: also while a    *)
(* seek in pause has not yet shown its first frame.                        *)
PlayCall ==
    /\ Call("pause") /\ pipelinePaused /\ asked' = "play"
    /\ IF CachingRequired THEN StartCaching ELSE SetPause(FALSE, FALSE) /\ state' = "playing"
    /\ pipelinePaused' = FALSE /\ downloadsBlocked' = FALSE
    /\ UNCHANGED <<scenario, ends, loop, underflow, frame, trackBlocked, collector,
                   locks, pc, seeking, underflows>>

(* Seek, in pause to stay paused or to play, of a stream that was seen (a  *)
(* first frame that comes while its stream is left counts for the next).   *)
SeekCall ==
    /\ Call("seek") /\ shown
    /\ \E keepPaused \in BOOLEAN :
         /\ keepPaused => pipelinePaused /\ scenario.user["pause"] > 0
         /\ asked' = (IF keepPaused THEN "pause" ELSE "play")
    /\ seeking' = "stop" /\ state' = "seeking"
    /\ pipelinePaused' = FALSE /\ downloadsBlocked' = FALSE
    /\ cachingRequired' = FALSE /\ frameAwaited' = FALSE /\ pauseOnFrame' = FALSE
    /\ UNCHANGED <<scenario, gst, prebuf, play, ends, loop, underflow,
                   trackBlocked, collector, locks, pc, underflows>>

(* TuneHelper waits for the track's threads, then stops the sink: its tasks*)
(* and timers are removed, its pipeline destroyed.                         *)
StopSink ==
    /\ seeking = "stop" /\ core = Free
    /\ \A t \in {"video", "audio", "monitor", "collector"} : At(t, "rest")
    /\ seeking' = "configure"
    /\ pipe' = "NULL" /\ async' = FALSE /\ source' = 0 /\ decoder' = 0
    /\ prebuffering' = FALSE /\ timer' = FALSE
    /\ sinkPaused' = FALSE /\ eosReached' = {} /\ sourceEnded' = {} /\ tasks' = <<>>
    /\ ptsCheck' = FALSE /\ ptsMoved' = FALSE
    /\ UNCHANGED <<scenario, target, ticks, pendingPlay, reset, eosSignalled, eosSent,
                   shown, player, frame, blocked, collector, locks, pc, asked,
                   calls, underflows>>

(* The sink is configured for the new position, and paused if the player   *)
(* is by now.                                                              *)
ConfigureSink ==
    /\ seeking = "configure" /\ core = Free
    /\ seeking' = "no"
    /\ Configured
    /\ cachingRequired' = scenario.caching
    /\ pauseOnFrame' = (asked = "pause")
    /\ frameAwaited' = (scenario.caching \/ pauseOnFrame')
    /\ trackBlocked' = TRUE
    /\ left' = MaxFragments /\ cached' = 0 /\ fetched' = 0
    /\ cachingDone' = FALSE /\ sinkFull' = FALSE
    /\ UNCHANGED <<scenario, player, downloadsBlocked, locks, pc,
                   asked, calls, underflows>>

-----------------------------------------------------------------------------
Injectors == \/ SendVideo \/ SendAudio
             \/ \E t \in Tracks : EndOfStream(t) \/ EndOfStreamDone(t)
Buffering == Monitor \/ \E t \in Tracks \cup {"monitor"} : StopBuffering(t) \/ StopBufferingPlay(t)
Pipeline == \/ Decode \/ NeedData \/ AsyncDone \/ Render \/ FirstFrame
            \/ Underflow \/ UnderflowStarts \/ UnderflowPauses
MainLoop == \/ PrebufferTick \/ BusEos \/ PtsCheck \/ EosTask \/ FrameTask
            \/ DisplayedTask \/ PauseCall \/ PlayCall \/ SeekCall
            \/ StopSink \/ ConfigureSink

Next == Fetch \/ CachingComplete \/ Injectors \/ Buffering \/ Pipeline \/ MainLoop

(* Every thread of the player and of GStreamer goes on with what it can    *)
(* do.  Underflows and calls need not happen.                              *)
Fairness ==
    /\ WF_vars(Fetch) /\ WF_vars(CachingComplete)
    /\ WF_vars(SendVideo) /\ WF_vars(SendAudio)
    /\ \A t \in Tracks : WF_vars(EndOfStream(t)) /\ WF_vars(EndOfStreamDone(t))
    /\ \A t \in Tracks \cup {"monitor"} :
         WF_vars(StopBuffering(t)) /\ WF_vars(StopBufferingPlay(t))
    /\ WF_vars(Monitor) /\ WF_vars(Decode) /\ WF_vars(NeedData)
    /\ WF_vars(AsyncDone) /\ WF_vars(Render) /\ WF_vars(FirstFrame)
    /\ WF_vars(UnderflowStarts) /\ WF_vars(UnderflowPauses)
    /\ WF_vars(PrebufferTick) /\ WF_vars(BusEos) /\ WF_vars(PtsCheck)
    /\ WF_vars(EosTask) /\ WF_vars(FrameTask) /\ WF_vars(DisplayedTask)
    /\ WF_vars(StopSink) /\ WF_vars(ConfigureSink)

Spec == Init /\ [][Next]_vars /\ Fairness
-----------------------------------------------------------------------------
PCs == {"rest", "complete", "buf", "play", "endBuf", "endPlay", "ended",
        "under", "pause"}

(* Every variable has its type.                                            *)
TypeOK ==
    /\ scenario \in Scenarios
    /\ pipe \in {"NULL", "PAUSED", "PLAYING"} /\ target \in {"NULL", "PAUSED", "PLAYING"}
    /\ {async, prebuffering, timer, ptsCheck, ptsMoved, sinkPaused, pendingPlay,
        eosSignalled, eosSent, shown, pipelinePaused, underflow, cachingRequired,
        frameAwaited, pauseOnFrame,
        downloadsBlocked, trackBlocked, cachingDone, sinkFull} \subseteq BOOLEAN
    /\ source \in 0..SourceMax /\ decoder \in 0..DecoderMax /\ ticks \in 0..BufferingCnt
    /\ reset \in [Tracks -> BOOLEAN]
    /\ eosReached \subseteq Tracks /\ sourceEnded \subseteq Tracks
    /\ tasks \in Seq({"frame", "displayed", "eos"}) /\ Len(tasks) <= 3
    /\ state \in {"prepared", "playing", "buffering", "paused", "seeking", "complete"}
    /\ left \in 0..MaxFragments /\ cached \in 0..CacheMax /\ fetched \in 0..CacheMin
    /\ core \in Threads \cup {Free} /\ bufferingLock \in Threads \cup {Free}
    /\ pc \in [Threads -> PCs]
    /\ asked \in {"play", "pause"} /\ seeking \in {"no", "stop", "configure"}
    /\ calls \in [{"pause", "seek"} -> 0..MaxCalls] /\ underflows \in 0..MaxUnderflows

(* The end was reported of a track that pushed nothing: it may be bogus.   *)
EndWithoutData == eosSent /\ \E t \in eosReached : reset[t]

(* What the user paused stays paused until the user plays or seeks (a seek *)
(* in pause shows its first frame): no timer of the buffering before play, *)
(* no fragment and no end of a track starts the pipeline again.  The code  *)
(* does so in three cases, and in no other.  The first frame is displayed  *)
(* after the pause, while the initial caching goes on, which then promises *)
(* to play (NotifyFragmentCachingOngoing, aampgstplayer.cpp:3507).  The    *)
(* pause came when a buffering had been announced for an underflow, whose  *)
(* end un-pauses (priv_aamp.cpp:6770).  An end that was reported too early *)
(* has changed the state that a seek in pause looks for when its first     *)
(* frame is displayed (priv_aamp.cpp:9169).                                *)
PauseKept ==
    /\ []TypeOK
    /\ [][asked = "pause" /\ asked' = "pause" /\ pipe = "PAUSED" /\ ~pauseOnFrame
          /\ ~pendingPlay /\ ~underflow /\ ~EndWithoutData
            => pipe' # "PLAYING"]_vars

(* Whatever paused the pipeline but the user ends: it plays again and      *)
(* again, until the recorded stream is complete.                           *)
PlaybackResumes ==
    []<>(pipe = "PLAYING" \/ asked = "pause" \/ eosSent)
PlaybackResumesWithoutUnderflow == scenario.underflow = "any" \/ PlaybackResumes

(* An underflow of a live stream ends: a pipeline that was paused for it   *)
(* plays again once the decoder has data, though the source may want none. *)
UnderflowEnds ==
    (~scenario.vod /\ underflow /\ pipe = "PAUSED" /\ At("decoder", "rest"))
        ~> (pipe = "PLAYING" \/ asked = "pause" \/ seeking # "no")

(* When both sources were given their end of stream, the player reports    *)
(* the end, unless the user pauses or seeks first.                         *)
EosReported ==
    (sourceEnded = Tracks) ~> (eosSent \/ asked = "pause" \/ seeking # "no")

(* A track that ends while the decoder starves un-pauses the pipeline: the *)
(* video still queued would otherwise never be shown.                      *)
EndUnpauses ==
    (underflow /\ \E t \in Tracks : At(t, "endBuf"))
        ~> (pipe = "PLAYING" \/ asked = "pause" \/ seeking # "no")
=============================================================================
