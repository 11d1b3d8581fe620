----------------------------- MODULE SinkProofs -----------------------------
(***************************************************************************)
(* Theorems about the GStreamer sink, for every stream and every size of   *)
(* the cache, of the source and of the decoder, and any number of calls    *)
(* and underflows: its variables keep their types, and nothing but the     *)
(* user, and the three cases that PauseKept names, ends a pause.           *)
(***************************************************************************)
EXTENDS Sink, TLAPS

-----------------------------------------------------------------------------
(* The invariant.                                                          *)

PauseFlags ==
    {async, prebuffering, timer, sinkPaused, pendingPlay} \subseteq BOOLEAN
EndFlags == {ptsCheck, ptsMoved, eosSignalled, eosSent, shown} \subseteq BOOLEAN
FrameFlags ==
    {cachingRequired, frameAwaited, pauseOnFrame, cachingDone, pipelinePaused}
        \subseteq BOOLEAN
BlockFlags == {underflow, downloadsBlocked, trackBlocked, sinkFull} \subseteq BOOLEAN
Names ==
    /\ pipe \in {"NULL", "PAUSED", "PLAYING"} /\ target \in {"NULL", "PAUSED", "PLAYING"}
    /\ state \in {"prepared", "playing", "buffering", "paused", "seeking", "complete"}
    /\ asked \in {"play", "pause"} /\ seeking \in {"no", "stop", "configure"}
Ends ==
    /\ reset \in [Tracks -> BOOLEAN]
    /\ eosReached \subseteq Tracks /\ sourceEnded \subseteq Tracks
PcTypes ==
    /\ core \in Threads \cup {Free} /\ bufferingLock \in Threads \cup {Free}
    /\ pc \in [Threads -> PCs]
CallTypes == calls \in [{"pause", "seek"} -> 0..MaxCalls]

(* A source that has not enough data has room for one fragment more.       *)
Counts ==
    /\ source \in 0..SourceMax /\ decoder \in 0..DecoderMax /\ ticks \in 0..BufferingCnt
    /\ left \in 0..MaxFragments /\ cached \in 0..CacheMax /\ fetched \in 0..CacheMin
    /\ underflows \in 0..MaxUnderflows
    /\ ~trackBlocked => source < SourceMax

(* The first frame brings two tasks at most, the end of the stream one.    *)
TaskCount ==
    /\ tasks \in Seq({"frame", "displayed", "eos"})
    /\ Len(tasks) <= (IF shown THEN 2 ELSE 0) + (IF eosSignalled THEN 1 ELSE 0)

TypeInv ==
    /\ scenario \in Scenarios
    /\ PauseFlags /\ EndFlags /\ FrameFlags /\ BlockFlags
    /\ Names /\ Counts /\ Ends /\ TaskCount /\ PcTypes /\ CallTypes

(* A track that pushed nothing has ended.                                  *)
Bogus == \E t \in eosReached : reset[t]

(* A source that was given nothing is empty, one that has ended gets no more.*)
VideoEnds ==
    /\ reset["video"] => source = 0 /\ decoder = 0
    /\ "video" \in eosReached => left = 0 /\ cached = 0
    /\ "audio" \in eosReached /\ reset["audio"] => scenario.audio # "data"
    /\ sourceEnded \subseteq eosReached
    /\ ptsCheck => shown

(* An end that is signalled before a first frame comes after all frames,   *)
(* unless it is one of a track that pushed nothing.                        *)
EndBeforeFrame ==
    eosSignalled /\ ~shown => Bogus \/ (decoder = 0 /\ source = 0 /\ cached = 0 /\ left = 0)

Queued(task) == \E i \in 1..Len(tasks) : tasks[i] = task

(* The queue and the flags agree; the display of the first frame is        *)
(* handled before such an end.                                             *)
TaskMarks ==
    /\ Queued("eos") => eosSignalled
    /\ Queued("displayed") => shown
Behind == \A i, j \in 1..Len(tasks) : tasks[i] = "eos" /\ tasks[j] = "displayed" => j < i
TaskOrder == TaskMarks /\ (Bogus \/ Behind)

(* A seek finds a stream that was seen, its state stays, and no thread of  *)
(* the last position goes on while the sink is configured.                 *)
Seeks ==
    /\ seeking # "no" => state = "seeking" /\ shown
    /\ seeking = "configure" =>
         pipe = "NULL" /\ \A t \in Threads \ {"decoder"} : pc[t] = "rest"

(* Who un-pauses for the end of a buffering has found one, alone.          *)
Stops ==
    \A t \in Threads : pc[t] \in {"play", "endPlay"} => underflow /\ bufferingLock = t

(* A seek in pause waits for its frame; an end was signalled before sent.  *)
Awaits == (pauseOnFrame => frameAwaited) /\ (eosSent => eosSignalled)

(* The timer of the buffering before play would start the pipeline.        *)
Tempted == pipe = "PAUSED" /\ target = "PLAYING" /\ asked = "pause" /\ seeking = "no"

(* The buffering before play ends in a pause: at once, or after the frame  *)
(* of a seek in pause, which finds the state of the seek but for an end    *)
(* that was sent before.                                                   *)
PausedTarget == Tempted /\ ~pauseOnFrame => EndWithoutData
FrameTarget ==
    Tempted /\ pauseOnFrame /\ state # "seeking" =>
        eosSent /\ (Bogus \/ ~Queued("displayed"))

PauseInv ==
    /\ VideoEnds /\ EndBeforeFrame /\ TaskOrder /\ Seeks /\ Stops /\ Awaits
    /\ PausedTarget /\ FrameTarget

IInv == TypeInv /\ PauseInv

-----------------------------------------------------------------------------
(* Types.                                                                  *)

(* The parts of the invariant say all that the type invariant says.        *)
LEMMA TypesImplied == TypeInv => TypeOK
<1>. SUFFICES ASSUME TypeInv PROVE TypeOK
  OBVIOUS
<1>1. Len(tasks) <= 3
  BY DEF TypeInv, TaskCount
<1>. QED
  BY <1>1 DEF TypeInv, TypeOK, PauseFlags, EndFlags, FrameFlags, BlockFlags, Names,
       Counts,
              Ends, TaskCount, PcTypes, CallTypes

(* What the settings of a stream are.                                      *)
LEMMA ScenarioTypes ==
    ASSUME NEW s \in Scenarios
    PROVE  /\ s.vod \in BOOLEAN /\ s.caching \in BOOLEAN /\ s.prebuffer \in BOOLEAN
           /\ s.user \in [{"pause", "seek"} -> 0..MaxCalls]
  BY ConstantsAssumption DEF Scenario

(* The end of the stream is reported by one task.                          *)
LEMMA OneEndTask ==
    ASSUME TaskCount, EndFlags, NotifyEOS, shown' = shown
    PROVE  TaskCount'
<1>1. CASE eosSignalled
  BY <1>1 DEF TaskCount, EndFlags, NotifyEOS
<1>2. CASE ~eosSignalled
  <2>1. tasks' = Append(tasks, "eos") /\ eosSignalled'
    BY <1>2 DEF NotifyEOS
  <2>2. tasks' \in Seq({"frame", "displayed", "eos"}) /\ Len(tasks') = Len(tasks) + 1
    BY <2>1 DEF TaskCount
  <2>. QED  BY <1>2, <2>1, <2>2 DEF TaskCount
<1>. QED  BY <1>1, <1>2

(* The first frame is reported by one task or two.                        *)
LEMMA FrameTasks ==
    ASSUME TaskCount, ~shown, shown', UNCHANGED eosSignalled,
           NEW more \in {<<"frame", "displayed">>, <<"frame">>}, tasks' = tasks \o more
    PROVE  TaskCount'
<1>1. more \in Seq({"frame", "displayed", "eos"}) /\ Len(more) \in Nat /\ Len(more) <= 2
  <2>1. CASE more = <<"frame", "displayed">>
    BY <2>1
  <2>2. CASE more = <<"frame">>
    BY <2>2
  <2>. QED  BY <2>1, <2>2
<1>2. tasks' \in Seq({"frame", "displayed", "eos"}) /\ Len(tasks') = Len(tasks) + Len(more)
      /\ Len(tasks) \in Nat
  BY <1>1 DEF TaskCount
<1>3. CASE eosSignalled
  <2>1. Len(tasks) <= 1
    BY <1>3 DEF TaskCount
  <2>2. Len(tasks') <= 3
    BY <1>1, <1>2, <2>1
  <2>. QED  BY <1>2, <1>3, <2>2 DEF TaskCount
<1>4. CASE ~eosSignalled
  <2>1. Len(tasks) <= 0
    BY <1>4 DEF TaskCount
  <2>2. Len(tasks') <= 2
    BY <1>1, <1>2, <2>1
  <2>. QED  BY <1>2, <1>4, <2>2 DEF TaskCount
<1>. QED  BY <1>3, <1>4

(* Each action keeps the types of the flags of the pipeline.               *)
LEMMA PauseFlagsStep ==
    ASSUME PauseFlags, FrameFlags, scenario.caching \in BOOLEAN,
           scenario.prebuffer \in BOOLEAN, [Next]_vars
    PROVE  PauseFlags'
<1>. USE ConstantsAssumption DEF PauseFlags, FrameFlags, gst, prebuf, play, ends, loop,
    player, frame, blocked, collector, locks, user
<1>1. CASE Fetch
  BY <1>1 DEF Fetch
<1>2. CASE CachingComplete
  BY <1>2 DEF CachingComplete, PlayIfPending, LeaveBuffering
<1>3. CASE SendVideo
  BY <1>3 DEF SendVideo, PlayIfPending, LeaveBuffering, Injecting, CachingRequired
<1>4. CASE SendAudio
  BY <1>4 DEF SendAudio, Injecting
<1>5. CASE \E t \in Tracks : EndOfStream(t)
  BY <1>5 DEF EndOfStream, Injecting, Ended, NotifyEOS, PlayIfPending
<1>6. CASE \E t \in Tracks : EndOfStreamDone(t)
  BY <1>6 DEF EndOfStreamDone, LeaveBuffering
<1>7. CASE Monitor
  BY <1>7 DEF Monitor
<1>8. CASE \E t \in Tracks \cup {"monitor"} : StopBuffering(t)
  BY <1>8 DEF StopBuffering, Leave, EndSteps
<1>9. CASE \E t \in Tracks \cup {"monitor"} : StopBufferingPlay(t)
  BY <1>9 DEF StopBufferingPlay, Leave, EndSteps, SetPause, CanTake
<1>10. CASE Decode
  BY <1>10 DEF Decode
<1>11. CASE NeedData
  BY <1>11 DEF NeedData
<1>12. CASE AsyncDone
  BY <1>12 DEF AsyncDone
<1>13. CASE Render
  BY <1>13 DEF Render
<1>14. CASE FirstFrame
  BY <1>14 DEF FirstFrame
<1>15. CASE Underflow
  BY <1>15 DEF Underflow
<1>16. CASE UnderflowStarts
  BY <1>16 DEF UnderflowStarts
<1>17. CASE UnderflowPauses
  BY <1>17 DEF UnderflowPauses, NotPaused, SetPause
<1>18. CASE PrebufferTick
  BY <1>18 DEF PrebufferTick, LoopRuns
<1>19. CASE BusEos
  BY <1>19 DEF BusEos, LoopRuns, NotifyEOS
<1>20. CASE PtsCheck
  BY <1>20 DEF PtsCheck, LoopRuns, NotifyEOS
<1>21. CASE EosTask
  BY <1>21 DEF EosTask, Run, LoopFree, LoopRuns
<1>22. CASE FrameTask
  BY <1>22 DEF FrameTask, Run, LoopFree, LoopRuns
<1>23. CASE DisplayedTask
  BY <1>23 DEF DisplayedTask, Run, LoopFree, LoopRuns, NotPaused, SetPause, StartCaching
<1>24. CASE PauseCall
  BY <1>24 DEF PauseCall, Call, LoopFree, LoopRuns, SetPause
<1>25. CASE PlayCall
  BY <1>25 DEF PlayCall, Call, LoopFree, LoopRuns, SetPause, StartCaching, NotPaused,
       CachingRequired
<1>26. CASE SeekCall
  BY <1>26 DEF SeekCall, Call, LoopFree, LoopRuns
<1>27. CASE StopSink
  BY <1>27 DEF StopSink
<1>28. CASE ConfigureSink
  BY <1>28 DEF ConfigureSink, Configured
<1>29. CASE UNCHANGED vars
  BY <1>29 DEF vars, user
<1>. QED
  BY <1>1, <1>2, <1>3, <1>4, <1>5, <1>6, <1>7, <1>8, <1>9, <1>10, <1>11, <1>12,
     <1>13, <1>14, <1>15, <1>16, <1>17, <1>18, <1>19, <1>20, <1>21, <1>22, <1>23, <1>24,
     <1>25, <1>26, <1>27, <1>28, <1>29
     DEF Next, Injectors, Buffering, Pipeline, MainLoop

(* The same of the marks of the end.                                       *)
LEMMA EndFlagsStep ==
    ASSUME EndFlags, [Next]_vars
    PROVE  EndFlags'
<1>. USE ConstantsAssumption DEF EndFlags, gst, prebuf, play, ends, loop, player, frame,
    blocked, collector, locks, user
<1>1. CASE Fetch
  BY <1>1 DEF Fetch
<1>2. CASE CachingComplete
  BY <1>2 DEF CachingComplete, PlayIfPending, LeaveBuffering
<1>3. CASE SendVideo
  BY <1>3 DEF SendVideo, PlayIfPending, LeaveBuffering, Injecting, CachingRequired
<1>4. CASE SendAudio
  BY <1>4 DEF SendAudio, Injecting
<1>5. CASE \E t \in Tracks : EndOfStream(t)
  BY <1>5 DEF EndOfStream, Injecting, Ended, NotifyEOS, PlayIfPending
<1>6. CASE \E t \in Tracks : EndOfStreamDone(t)
  BY <1>6 DEF EndOfStreamDone, LeaveBuffering
<1>7. CASE Monitor
  BY <1>7 DEF Monitor
<1>8. CASE \E t \in Tracks \cup {"monitor"} : StopBuffering(t)
  BY <1>8 DEF StopBuffering, Leave, EndSteps
<1>9. CASE \E t \in Tracks \cup {"monitor"} : StopBufferingPlay(t)
  BY <1>9 DEF StopBufferingPlay, Leave, EndSteps, SetPause, CanTake
<1>10. CASE Decode
  BY <1>10 DEF Decode
<1>11. CASE NeedData
  BY <1>11 DEF NeedData
<1>12. CASE AsyncDone
  BY <1>12 DEF AsyncDone
<1>13. CASE Render
  BY <1>13 DEF Render
<1>14. CASE FirstFrame
  BY <1>14 DEF FirstFrame
<1>15. CASE Underflow
  BY <1>15 DEF Underflow
<1>16. CASE UnderflowStarts
  BY <1>16 DEF UnderflowStarts
<1>17. CASE UnderflowPauses
  BY <1>17 DEF UnderflowPauses, NotPaused, SetPause
<1>18. CASE PrebufferTick
  BY <1>18 DEF PrebufferTick, LoopRuns
<1>19. CASE BusEos
  BY <1>19 DEF BusEos, LoopRuns, NotifyEOS
<1>20. CASE PtsCheck
  BY <1>20 DEF PtsCheck, LoopRuns, NotifyEOS
<1>21. CASE EosTask
  BY <1>21 DEF EosTask, Run, LoopFree, LoopRuns
<1>22. CASE FrameTask
  BY <1>22 DEF FrameTask, Run, LoopFree, LoopRuns
<1>23. CASE DisplayedTask
  BY <1>23 DEF DisplayedTask, Run, LoopFree, LoopRuns, NotPaused, SetPause, StartCaching
<1>24. CASE PauseCall
  BY <1>24 DEF PauseCall, Call, LoopFree, LoopRuns, SetPause
<1>25. CASE PlayCall
  BY <1>25 DEF PlayCall, Call, LoopFree, LoopRuns, SetPause, StartCaching, NotPaused,
       CachingRequired
<1>26. CASE SeekCall
  BY <1>26 DEF SeekCall, Call, LoopFree, LoopRuns
<1>27. CASE StopSink
  BY <1>27 DEF StopSink
<1>28. CASE ConfigureSink
  BY <1>28 DEF ConfigureSink, Configured
<1>29. CASE UNCHANGED vars
  BY <1>29 DEF vars, user
<1>. QED
  BY <1>1, <1>2, <1>3, <1>4, <1>5, <1>6, <1>7, <1>8, <1>9, <1>10, <1>11, <1>12,
     <1>13, <1>14, <1>15, <1>16, <1>17, <1>18, <1>19, <1>20, <1>21, <1>22, <1>23, <1>24,
     <1>25, <1>26, <1>27, <1>28, <1>29
     DEF Next, Injectors, Buffering, Pipeline, MainLoop

(* The same of what is cached and shown first.                             *)
LEMMA FrameFlagsStep ==
    ASSUME FrameFlags, scenario.caching \in BOOLEAN, scenario.prebuffer \in BOOLEAN,
           [Next]_vars
    PROVE  FrameFlags'
<1>. USE ConstantsAssumption DEF FrameFlags, gst, prebuf, play, ends, loop, player,
    frame, blocked, collector, locks, user
<1>1. CASE Fetch
  BY <1>1 DEF Fetch
<1>2. CASE CachingComplete
  BY <1>2 DEF CachingComplete, PlayIfPending, LeaveBuffering
<1>3. CASE SendVideo
  BY <1>3 DEF SendVideo, PlayIfPending, LeaveBuffering, Injecting, CachingRequired
<1>4. CASE SendAudio
  BY <1>4 DEF SendAudio, Injecting
<1>5. CASE \E t \in Tracks : EndOfStream(t)
  BY <1>5 DEF EndOfStream, Injecting, Ended, NotifyEOS, PlayIfPending
<1>6. CASE \E t \in Tracks : EndOfStreamDone(t)
  BY <1>6 DEF EndOfStreamDone, LeaveBuffering
<1>7. CASE Monitor
  BY <1>7 DEF Monitor
<1>8. CASE \E t \in Tracks \cup {"monitor"} : StopBuffering(t)
  BY <1>8 DEF StopBuffering, Leave, EndSteps
<1>9. CASE \E t \in Tracks \cup {"monitor"} : StopBufferingPlay(t)
  BY <1>9 DEF StopBufferingPlay, Leave, EndSteps, SetPause, CanTake
<1>10. CASE Decode
  BY <1>10 DEF Decode
<1>11. CASE NeedData
  BY <1>11 DEF NeedData
<1>12. CASE AsyncDone
  BY <1>12 DEF AsyncDone
<1>13. CASE Render
  BY <1>13 DEF Render
<1>14. CASE FirstFrame
  BY <1>14 DEF FirstFrame
<1>15. CASE Underflow
  BY <1>15 DEF Underflow
<1>16. CASE UnderflowStarts
  BY <1>16 DEF UnderflowStarts
<1>17. CASE UnderflowPauses
  BY <1>17 DEF UnderflowPauses, NotPaused, SetPause
<1>18. CASE PrebufferTick
  BY <1>18 DEF PrebufferTick, LoopRuns
<1>19. CASE BusEos
  BY <1>19 DEF BusEos, LoopRuns, NotifyEOS
<1>20. CASE PtsCheck
  BY <1>20 DEF PtsCheck, LoopRuns, NotifyEOS
<1>21. CASE EosTask
  BY <1>21 DEF EosTask, Run, LoopFree, LoopRuns
<1>22. CASE FrameTask
  BY <1>22 DEF FrameTask, Run, LoopFree, LoopRuns
<1>23. CASE DisplayedTask
  BY <1>23 DEF DisplayedTask, Run, LoopFree, LoopRuns, NotPaused, SetPause, StartCaching
<1>24. CASE PauseCall
  BY <1>24 DEF PauseCall, Call, LoopFree, LoopRuns, SetPause
<1>25. CASE PlayCall
  BY <1>25 DEF PlayCall, Call, LoopFree, LoopRuns, SetPause, StartCaching, NotPaused,
       CachingRequired
<1>26. CASE SeekCall
  BY <1>26 DEF SeekCall, Call, LoopFree, LoopRuns
<1>27. CASE StopSink
  BY <1>27 DEF StopSink
<1>28. CASE ConfigureSink
  BY <1>28 DEF ConfigureSink, Configured
<1>29. CASE UNCHANGED vars
  BY <1>29 DEF vars, user
<1>. QED
  BY <1>1, <1>2, <1>3, <1>4, <1>5, <1>6, <1>7, <1>8, <1>9, <1>10, <1>11, <1>12,
     <1>13, <1>14, <1>15, <1>16, <1>17, <1>18, <1>19, <1>20, <1>21, <1>22, <1>23, <1>24,
     <1>25, <1>26, <1>27, <1>28, <1>29
     DEF Next, Injectors, Buffering, Pipeline, MainLoop

(* The same of what blocks the injectors.                                  *)
LEMMA BlockFlagsStep ==
    ASSUME BlockFlags, [Next]_vars
    PROVE  BlockFlags'
<1>. USE ConstantsAssumption DEF BlockFlags, gst, prebuf, play, ends, loop, player,
    frame, blocked, collector, locks, user
<1>1. CASE Fetch
  BY <1>1 DEF Fetch
<1>2. CASE CachingComplete
  BY <1>2 DEF CachingComplete, PlayIfPending, LeaveBuffering
<1>3. CASE SendVideo
  BY <1>3 DEF SendVideo, PlayIfPending, LeaveBuffering, Injecting, CachingRequired
<1>4. CASE SendAudio
  BY <1>4 DEF SendAudio, Injecting
<1>5. CASE \E t \in Tracks : EndOfStream(t)
  BY <1>5 DEF EndOfStream, Injecting, Ended, NotifyEOS, PlayIfPending
<1>6. CASE \E t \in Tracks : EndOfStreamDone(t)
  BY <1>6 DEF EndOfStreamDone, LeaveBuffering
<1>7. CASE Monitor
  BY <1>7 DEF Monitor
<1>8. CASE \E t \in Tracks \cup {"monitor"} : StopBuffering(t)
  BY <1>8 DEF StopBuffering, Leave, EndSteps
<1>9. CASE \E t \in Tracks \cup {"monitor"} : StopBufferingPlay(t)
  BY <1>9 DEF StopBufferingPlay, Leave, EndSteps, SetPause, CanTake
<1>10. CASE Decode
  BY <1>10 DEF Decode
<1>11. CASE NeedData
  BY <1>11 DEF NeedData
<1>12. CASE AsyncDone
  BY <1>12 DEF AsyncDone
<1>13. CASE Render
  BY <1>13 DEF Render
<1>14. CASE FirstFrame
  BY <1>14 DEF FirstFrame
<1>15. CASE Underflow
  BY <1>15 DEF Underflow
<1>16. CASE UnderflowStarts
  BY <1>16 DEF UnderflowStarts
<1>17. CASE UnderflowPauses
  BY <1>17 DEF UnderflowPauses, NotPaused, SetPause
<1>18. CASE PrebufferTick
  BY <1>18 DEF PrebufferTick, LoopRuns
<1>19. CASE BusEos
  BY <1>19 DEF BusEos, LoopRuns, NotifyEOS
<1>20. CASE PtsCheck
  BY <1>20 DEF PtsCheck, LoopRuns, NotifyEOS
<1>21. CASE EosTask
  BY <1>21 DEF EosTask, Run, LoopFree, LoopRuns
<1>22. CASE FrameTask
  BY <1>22 DEF FrameTask, Run, LoopFree, LoopRuns
<1>23. CASE DisplayedTask
  BY <1>23 DEF DisplayedTask, Run, LoopFree, LoopRuns, NotPaused, SetPause, StartCaching
<1>24. CASE PauseCall
  BY <1>24 DEF PauseCall, Call, LoopFree, LoopRuns, SetPause
<1>25. CASE PlayCall
  BY <1>25 DEF PlayCall, Call, LoopFree, LoopRuns, SetPause, StartCaching, NotPaused,
       CachingRequired
<1>26. CASE SeekCall
  BY <1>26 DEF SeekCall, Call, LoopFree, LoopRuns
<1>27. CASE StopSink
  BY <1>27 DEF StopSink
<1>28. CASE ConfigureSink
  BY <1>28 DEF ConfigureSink, Configured
<1>29. CASE UNCHANGED vars
  BY <1>29 DEF vars, user
<1>. QED
  BY <1>1, <1>2, <1>3, <1>4, <1>5, <1>6, <1>7, <1>8, <1>9, <1>10, <1>11, <1>12,
     <1>13, <1>14, <1>15, <1>16, <1>17, <1>18, <1>19, <1>20, <1>21, <1>22, <1>23, <1>24,
     <1>25, <1>26, <1>27, <1>28, <1>29
     DEF Next, Injectors, Buffering, Pipeline, MainLoop

(* The same of the states.                                                 *)
LEMMA NamesStep ==
    ASSUME FrameFlags, Names, [Next]_vars
    PROVE  Names'
<1>. USE ConstantsAssumption DEF Names, FrameFlags, gst, prebuf, play, ends, loop,
    player, frame, blocked, collector, locks, user
<1>1. CASE Fetch
  BY <1>1 DEF Fetch
<1>2. CASE CachingComplete
  BY <1>2 DEF CachingComplete, PlayIfPending, LeaveBuffering
<1>3. CASE SendVideo
  BY <1>3 DEF SendVideo, PlayIfPending, LeaveBuffering, Injecting, CachingRequired
<1>4. CASE SendAudio
  BY <1>4 DEF SendAudio, Injecting
<1>5. CASE \E t \in Tracks : EndOfStream(t)
  BY <1>5 DEF EndOfStream, Injecting, Ended, NotifyEOS, PlayIfPending
<1>6. CASE \E t \in Tracks : EndOfStreamDone(t)
  BY <1>6 DEF EndOfStreamDone, LeaveBuffering
<1>7. CASE Monitor
  BY <1>7 DEF Monitor
<1>8. CASE \E t \in Tracks \cup {"monitor"} : StopBuffering(t)
  BY <1>8 DEF StopBuffering, Leave, EndSteps
<1>9. CASE \E t \in Tracks \cup {"monitor"} : StopBufferingPlay(t)
  BY <1>9 DEF StopBufferingPlay, Leave, EndSteps, SetPause, CanTake
<1>10. CASE Decode
  BY <1>10 DEF Decode
<1>11. CASE NeedData
  BY <1>11 DEF NeedData
<1>12. CASE AsyncDone
  BY <1>12 DEF AsyncDone
<1>13. CASE Render
  BY <1>13 DEF Render
<1>14. CASE FirstFrame
  BY <1>14 DEF FirstFrame
<1>15. CASE Underflow
  BY <1>15 DEF Underflow
<1>16. CASE UnderflowStarts
  BY <1>16 DEF UnderflowStarts
<1>17. CASE UnderflowPauses
  BY <1>17 DEF UnderflowPauses, NotPaused, SetPause
<1>18. CASE PrebufferTick
  BY <1>18 DEF PrebufferTick, LoopRuns
<1>19. CASE BusEos
  BY <1>19 DEF BusEos, LoopRuns, NotifyEOS
<1>20. CASE PtsCheck
  BY <1>20 DEF PtsCheck, LoopRuns, NotifyEOS
<1>21. CASE EosTask
  BY <1>21 DEF EosTask, Run, LoopFree, LoopRuns
<1>22. CASE FrameTask
  BY <1>22 DEF FrameTask, Run, LoopFree, LoopRuns
<1>23. CASE DisplayedTask
  BY <1>23 DEF DisplayedTask, Run, LoopFree, LoopRuns, NotPaused, SetPause, StartCaching
<1>24. CASE PauseCall
  BY <1>24 DEF PauseCall, Call, LoopFree, LoopRuns, SetPause
<1>25. CASE PlayCall
  BY <1>25 DEF PlayCall, Call, LoopFree, LoopRuns, SetPause, StartCaching, NotPaused,
       CachingRequired
<1>26. CASE SeekCall
  BY <1>26 DEF SeekCall, Call, LoopFree, LoopRuns
<1>27. CASE StopSink
  BY <1>27 DEF StopSink
<1>28. CASE ConfigureSink
  BY <1>28 DEF ConfigureSink, Configured
<1>29. CASE UNCHANGED vars
  BY <1>29 DEF vars, user
<1>. QED
  BY <1>1, <1>2, <1>3, <1>4, <1>5, <1>6, <1>7, <1>8, <1>9, <1>10, <1>11, <1>12,
     <1>13, <1>14, <1>15, <1>16, <1>17, <1>18, <1>19, <1>20, <1>21, <1>22, <1>23, <1>24,
     <1>25, <1>26, <1>27, <1>28, <1>29
     DEF Next, Injectors, Buffering, Pipeline, MainLoop

(* The same of what is counted: a fragment is sent when there is room.     *)
LEMMA CountsStep ==
    ASSUME BlockFlags, PauseFlags, Counts, [Next]_vars
    PROVE  Counts'
<1>. USE ConstantsAssumption DEF Counts, BlockFlags, PauseFlags, gst, prebuf, play,
    ends, loop, player, frame, blocked, collector, locks, user
<1>1. CASE Fetch
  BY <1>1 DEF Fetch
<1>2. CASE CachingComplete
  BY <1>2 DEF CachingComplete, PlayIfPending, LeaveBuffering
<1>3. CASE SendVideo
  <2>1. (trackBlocked' <=> source' >= SourceMax) /\ source' = source + 1 /\ ~trackBlocked
    BY <1>3 DEF SendVideo
  <2>2. source < SourceMax /\ source' \in 0..SourceMax
    BY <2>1
  <2>3. ~trackBlocked' => source' < SourceMax
    BY <2>1, <2>2 DEF Counts
  <2>. QED  BY <2>2, <2>3, <1>3 DEF SendVideo
<1>4. CASE SendAudio
  BY <1>4 DEF SendAudio, Injecting
<1>5. CASE \E t \in Tracks : EndOfStream(t)
  <2>1. UNCHANGED <<source, decoder, ticks, left, cached, fetched, underflows, trackBlocked>>
    <3>. PICK t \in Tracks : EndOfStream(t)
      BY <1>5
    <3>1. CASE reset[t] /\ NotifyEOS
      BY <3>1 DEF EndOfStream, NotifyEOS
    <3>2. CASE ~reset[t] /\ PlayIfPending
      BY <3>2 DEF EndOfStream, PlayIfPending
    <3>. QED  BY <3>1, <3>2 DEF EndOfStream
  <2>. QED  BY <2>1
<1>6. CASE \E t \in Tracks : EndOfStreamDone(t)
  BY <1>6 DEF EndOfStreamDone, LeaveBuffering
<1>7. CASE Monitor
  BY <1>7 DEF Monitor
<1>8. CASE \E t \in Tracks \cup {"monitor"} : StopBuffering(t)
  BY <1>8 DEF StopBuffering, Leave, EndSteps
<1>9. CASE \E t \in Tracks \cup {"monitor"} : StopBufferingPlay(t)
  BY <1>9 DEF StopBufferingPlay, Leave, EndSteps, SetPause, CanTake
<1>10. CASE Decode
  BY <1>10 DEF Decode
<1>11. CASE NeedData
  BY <1>11 DEF NeedData
<1>12. CASE AsyncDone
  BY <1>12 DEF AsyncDone
<1>13. CASE Render
  BY <1>13 DEF Render
<1>14. CASE FirstFrame
  BY <1>14 DEF FirstFrame
<1>15. CASE Underflow
  BY <1>15 DEF Underflow
<1>16. CASE UnderflowStarts
  BY <1>16 DEF UnderflowStarts
<1>17. CASE UnderflowPauses
  BY <1>17 DEF UnderflowPauses, NotPaused, SetPause
<1>18. CASE PrebufferTick
  <2>1. ticks' = ticks \/ (ticks # 0 /\ ticks' = ticks - 1)
    BY <1>18 DEF PrebufferTick
  <2>. QED  BY <2>1, <1>18 DEF PrebufferTick
<1>19. CASE BusEos
  BY <1>19 DEF BusEos, LoopRuns, NotifyEOS
<1>20. CASE PtsCheck
  BY <1>20 DEF PtsCheck, LoopRuns, NotifyEOS
<1>21. CASE EosTask
  BY <1>21 DEF EosTask, Run, LoopFree, LoopRuns
<1>22. CASE FrameTask
  BY <1>22 DEF FrameTask, Run, LoopFree, LoopRuns
<1>23. CASE DisplayedTask
  BY <1>23 DEF DisplayedTask, Run, LoopFree, LoopRuns, NotPaused, SetPause, StartCaching
<1>24. CASE PauseCall
  BY <1>24 DEF PauseCall, Call, LoopFree, LoopRuns, SetPause
<1>25. CASE PlayCall
  BY <1>25 DEF PlayCall, Call, LoopFree, LoopRuns, SetPause, StartCaching, NotPaused,
       CachingRequired
<1>26. CASE SeekCall
  BY <1>26 DEF SeekCall, Call, LoopFree, LoopRuns
<1>27. CASE StopSink
  BY <1>27 DEF StopSink
<1>28. CASE ConfigureSink
  BY <1>28 DEF ConfigureSink, Configured
<1>29. CASE UNCHANGED vars
  BY <1>29 DEF vars, user
<1>. QED
  BY <1>1, <1>2, <1>3, <1>4, <1>5, <1>6, <1>7, <1>8, <1>9, <1>10, <1>11, <1>12,
     <1>13, <1>14, <1>15, <1>16, <1>17, <1>18, <1>19, <1>20, <1>21, <1>22, <1>23, <1>24,
     <1>25, <1>26, <1>27, <1>28, <1>29
     DEF Next, Injectors, Buffering, Pipeline, MainLoop

(* The same of the tracks that have ended.                                 *)
LEMMA EndsStep ==
    ASSUME Ends, [Next]_vars
    PROVE  Ends'
<1>. USE ConstantsAssumption DEF Ends, Tracks, gst, prebuf, play, ends, loop, player,
    frame, blocked, collector, locks, user
<1>1. CASE Fetch
  BY <1>1 DEF Fetch
<1>2. CASE CachingComplete
  BY <1>2 DEF CachingComplete, PlayIfPending, LeaveBuffering
<1>3. CASE SendVideo
  BY <1>3 DEF SendVideo, PlayIfPending, LeaveBuffering, Injecting, CachingRequired
<1>4. CASE SendAudio
  BY <1>4 DEF SendAudio, Injecting
<1>5. CASE \E t \in Tracks : EndOfStream(t)
  BY <1>5 DEF EndOfStream, Injecting, Ended, NotifyEOS, PlayIfPending
<1>6. CASE \E t \in Tracks : EndOfStreamDone(t)
  BY <1>6 DEF EndOfStreamDone, LeaveBuffering
<1>7. CASE Monitor
  BY <1>7 DEF Monitor
<1>8. CASE \E t \in Tracks \cup {"monitor"} : StopBuffering(t)
  BY <1>8 DEF StopBuffering, Leave, EndSteps
<1>9. CASE \E t \in Tracks \cup {"monitor"} : StopBufferingPlay(t)
  BY <1>9 DEF StopBufferingPlay, Leave, EndSteps, SetPause, CanTake
<1>10. CASE Decode
  BY <1>10 DEF Decode
<1>11. CASE NeedData
  BY <1>11 DEF NeedData
<1>12. CASE AsyncDone
  BY <1>12 DEF AsyncDone
<1>13. CASE Render
  BY <1>13 DEF Render
<1>14. CASE FirstFrame
  BY <1>14 DEF FirstFrame
<1>15. CASE Underflow
  BY <1>15 DEF Underflow
<1>16. CASE UnderflowStarts
  BY <1>16 DEF UnderflowStarts
<1>17. CASE UnderflowPauses
  BY <1>17 DEF UnderflowPauses, NotPaused, SetPause
<1>18. CASE PrebufferTick
  BY <1>18 DEF PrebufferTick, LoopRuns
<1>19. CASE BusEos
  BY <1>19 DEF BusEos, LoopRuns, NotifyEOS
<1>20. CASE PtsCheck
  BY <1>20 DEF PtsCheck, LoopRuns, NotifyEOS
<1>21. CASE EosTask
  BY <1>21 DEF EosTask, Run, LoopFree, LoopRuns
<1>22. CASE FrameTask
  BY <1>22 DEF FrameTask, Run, LoopFree, LoopRuns
<1>23. CASE DisplayedTask
  BY <1>23 DEF DisplayedTask, Run, LoopFree, LoopRuns, NotPaused, SetPause, StartCaching
<1>24. CASE PauseCall
  BY <1>24 DEF PauseCall, Call, LoopFree, LoopRuns, SetPause
<1>25. CASE PlayCall
  BY <1>25 DEF PlayCall, Call, LoopFree, LoopRuns, SetPause, StartCaching, NotPaused,
       CachingRequired
<1>26. CASE SeekCall
  BY <1>26 DEF SeekCall, Call, LoopFree, LoopRuns
<1>27. CASE StopSink
  BY <1>27 DEF StopSink
<1>28. CASE ConfigureSink
  BY <1>28 DEF ConfigureSink, Configured
<1>29. CASE UNCHANGED vars
  BY <1>29 DEF vars, user
<1>. QED
  BY <1>1, <1>2, <1>3, <1>4, <1>5, <1>6, <1>7, <1>8, <1>9, <1>10, <1>11, <1>12,
     <1>13, <1>14, <1>15, <1>16, <1>17, <1>18, <1>19, <1>20, <1>21, <1>22, <1>23, <1>24,
     <1>25, <1>26, <1>27, <1>28, <1>29
     DEF Next, Injectors, Buffering, Pipeline, MainLoop

(* The same of the tasks.                                                  *)
LEMMA TaskCountStep ==
    ASSUME EndFlags, TaskCount, [Next]_vars
    PROVE  TaskCount'
<1>. USE ConstantsAssumption DEF TaskCount, EndFlags, gst, prebuf, play, ends, loop,
    player, frame, blocked, collector, locks, user
<1>1. CASE Fetch
  BY <1>1 DEF Fetch
<1>2. CASE CachingComplete
  BY <1>2 DEF CachingComplete, PlayIfPending, LeaveBuffering
<1>3. CASE SendVideo
  BY <1>3 DEF SendVideo, PlayIfPending, LeaveBuffering, Injecting, CachingRequired
<1>4. CASE SendAudio
  BY <1>4 DEF SendAudio, Injecting
<1>5. CASE \E t \in Tracks : EndOfStream(t)
  <2>1. PICK t \in Tracks : EndOfStream(t)
    BY <1>5
  <2>2. shown' = shown
    BY <2>1 DEF EndOfStream
  <2>3. NotifyEOS \/ UNCHANGED <<tasks, eosSignalled>>
    BY <2>1 DEF EndOfStream
  <2>. QED  BY <2>2, <2>3, OneEndTask
<1>6. CASE \E t \in Tracks : EndOfStreamDone(t)
  BY <1>6 DEF EndOfStreamDone, LeaveBuffering
<1>7. CASE Monitor
  BY <1>7 DEF Monitor
<1>8. CASE \E t \in Tracks \cup {"monitor"} : StopBuffering(t)
  BY <1>8 DEF StopBuffering, Leave, EndSteps
<1>9. CASE \E t \in Tracks \cup {"monitor"} : StopBufferingPlay(t)
  BY <1>9 DEF StopBufferingPlay, Leave, EndSteps, SetPause, CanTake
<1>10. CASE Decode
  BY <1>10 DEF Decode
<1>11. CASE NeedData
  BY <1>11 DEF NeedData
<1>12. CASE AsyncDone
  BY <1>12 DEF AsyncDone
<1>13. CASE Render
  BY <1>13 DEF Render
<1>14. CASE FirstFrame
  BY <1>14, FrameTasks DEF FirstFrame
<1>15. CASE Underflow
  BY <1>15 DEF Underflow
<1>16. CASE UnderflowStarts
  BY <1>16 DEF UnderflowStarts
<1>17. CASE UnderflowPauses
  BY <1>17 DEF UnderflowPauses, NotPaused, SetPause
<1>18. CASE PrebufferTick
  BY <1>18 DEF PrebufferTick, LoopRuns
<1>19. CASE BusEos
  BY <1>19, OneEndTask DEF BusEos
<1>20. CASE PtsCheck
  <2>1. shown' = shown /\ (NotifyEOS \/ UNCHANGED <<tasks, eosSignalled>>)
    BY <1>20 DEF PtsCheck
  <2>. QED  BY <2>1, OneEndTask
<1>21. CASE EosTask
  BY <1>21 DEF EosTask, Run, LoopFree, LoopRuns
<1>22. CASE FrameTask
  BY <1>22 DEF FrameTask, Run, LoopFree, LoopRuns
<1>23. CASE DisplayedTask
  BY <1>23 DEF DisplayedTask, Run, LoopFree, LoopRuns, NotPaused, SetPause, StartCaching
<1>24. CASE PauseCall
  BY <1>24 DEF PauseCall, Call, LoopFree, LoopRuns, SetPause
<1>25. CASE PlayCall
  BY <1>25 DEF PlayCall, Call, LoopFree, LoopRuns, SetPause, StartCaching, NotPaused,
       CachingRequired
<1>26. CASE SeekCall
  BY <1>26 DEF SeekCall, Call, LoopFree, LoopRuns
<1>27. CASE StopSink
  BY <1>27 DEF StopSink
<1>28. CASE ConfigureSink
  BY <1>28 DEF ConfigureSink, Configured
<1>29. CASE UNCHANGED vars
  BY <1>29 DEF vars, user
<1>. QED
  BY <1>1, <1>2, <1>3, <1>4, <1>5, <1>6, <1>7, <1>8, <1>9, <1>10, <1>11, <1>12,
     <1>13, <1>14, <1>15, <1>16, <1>17, <1>18, <1>19, <1>20, <1>21, <1>22, <1>23, <1>24,
     <1>25, <1>26, <1>27, <1>28, <1>29
     DEF Next, Injectors, Buffering, Pipeline, MainLoop

(* The same of the threads and their locks.                                *)
LEMMA PcTypesStep ==
    ASSUME PcTypes, [Next]_vars
    PROVE  PcTypes'
<1>. USE ConstantsAssumption DEF PcTypes, Threads, Tracks, PCs, Free, Goto, At, gst,
    prebuf, play, ends, loop, player, frame, blocked, collector, locks, user
<1>1. CASE Fetch
  BY <1>1 DEF Fetch
<1>2. CASE CachingComplete
  BY <1>2 DEF CachingComplete, PlayIfPending, LeaveBuffering
<1>3. CASE SendVideo
  BY <1>3 DEF SendVideo, PlayIfPending, LeaveBuffering, Injecting, CachingRequired
<1>4. CASE SendAudio
  BY <1>4 DEF SendAudio, Injecting
<1>5. CASE \E t \in Tracks : EndOfStream(t)
  BY <1>5 DEF EndOfStream, Injecting, Ended, NotifyEOS, PlayIfPending
<1>6. CASE \E t \in Tracks : EndOfStreamDone(t)
  BY <1>6 DEF EndOfStreamDone, LeaveBuffering
<1>7. CASE Monitor
  BY <1>7 DEF Monitor
<1>8. CASE \E t \in Tracks \cup {"monitor"} : StopBuffering(t)
  BY <1>8 DEF StopBuffering, Leave, EndSteps
<1>9. CASE \E t \in Tracks \cup {"monitor"} : StopBufferingPlay(t)
  BY <1>9 DEF StopBufferingPlay, Leave, EndSteps, SetPause, CanTake
<1>10. CASE Decode
  BY <1>10 DEF Decode
<1>11. CASE NeedData
  BY <1>11 DEF NeedData
<1>12. CASE AsyncDone
  BY <1>12 DEF AsyncDone
<1>13. CASE Render
  BY <1>13 DEF Render
<1>14. CASE FirstFrame
  BY <1>14 DEF FirstFrame
<1>15. CASE Underflow
  BY <1>15 DEF Underflow
<1>16. CASE UnderflowStarts
  BY <1>16 DEF UnderflowStarts
<1>17. CASE UnderflowPauses
  BY <1>17 DEF UnderflowPauses, NotPaused, SetPause
<1>18. CASE PrebufferTick
  BY <1>18 DEF PrebufferTick, LoopRuns
<1>19. CASE BusEos
  BY <1>19 DEF BusEos, LoopRuns, NotifyEOS
<1>20. CASE PtsCheck
  BY <1>20 DEF PtsCheck, LoopRuns, NotifyEOS
<1>21. CASE EosTask
  BY <1>21 DEF EosTask, Run, LoopFree, LoopRuns
<1>22. CASE FrameTask
  BY <1>22 DEF FrameTask, Run, LoopFree, LoopRuns
<1>23. CASE DisplayedTask
  BY <1>23 DEF DisplayedTask, Run, LoopFree, LoopRuns, NotPaused, SetPause, StartCaching
<1>24. CASE PauseCall
  BY <1>24 DEF PauseCall, Call, LoopFree, LoopRuns, SetPause
<1>25. CASE PlayCall
  BY <1>25 DEF PlayCall, Call, LoopFree, LoopRuns, SetPause, StartCaching, NotPaused,
       CachingRequired
<1>26. CASE SeekCall
  BY <1>26 DEF SeekCall, Call, LoopFree, LoopRuns
<1>27. CASE StopSink
  BY <1>27 DEF StopSink
<1>28. CASE ConfigureSink
  BY <1>28 DEF ConfigureSink, Configured
<1>29. CASE UNCHANGED vars
  BY <1>29 DEF vars, user
<1>. QED
  BY <1>1, <1>2, <1>3, <1>4, <1>5, <1>6, <1>7, <1>8, <1>9, <1>10, <1>11, <1>12,
     <1>13, <1>14, <1>15, <1>16, <1>17, <1>18, <1>19, <1>20, <1>21, <1>22, <1>23, <1>24,
     <1>25, <1>26, <1>27, <1>28, <1>29
     DEF Next, Injectors, Buffering, Pipeline, MainLoop

(* The same of the calls.                                                  *)
LEMMA CallTypesStep ==
    ASSUME CallTypes, [Next]_vars
    PROVE  CallTypes'
<1>. USE ConstantsAssumption DEF CallTypes, gst, prebuf, play, ends, loop, player,
    frame, blocked, collector, locks, user
<1>1. CASE Fetch
  BY <1>1 DEF Fetch
<1>2. CASE CachingComplete
  BY <1>2 DEF CachingComplete, PlayIfPending, LeaveBuffering
<1>3. CASE SendVideo
  BY <1>3 DEF SendVideo, PlayIfPending, LeaveBuffering, Injecting, CachingRequired
<1>4. CASE SendAudio
  BY <1>4 DEF SendAudio, Injecting
<1>5. CASE \E t \in Tracks : EndOfStream(t)
  BY <1>5 DEF EndOfStream, Injecting, Ended, NotifyEOS, PlayIfPending
<1>6. CASE \E t \in Tracks : EndOfStreamDone(t)
  BY <1>6 DEF EndOfStreamDone, LeaveBuffering
<1>7. CASE Monitor
  BY <1>7 DEF Monitor
<1>8. CASE \E t \in Tracks \cup {"monitor"} : StopBuffering(t)
  BY <1>8 DEF StopBuffering, Leave, EndSteps
<1>9. CASE \E t \in Tracks \cup {"monitor"} : StopBufferingPlay(t)
  BY <1>9 DEF StopBufferingPlay, Leave, EndSteps, SetPause, CanTake
<1>10. CASE Decode
  BY <1>10 DEF Decode
<1>11. CASE NeedData
  BY <1>11 DEF NeedData
<1>12. CASE AsyncDone
  BY <1>12 DEF AsyncDone
<1>13. CASE Render
  BY <1>13 DEF Render
<1>14. CASE FirstFrame
  BY <1>14 DEF FirstFrame
<1>15. CASE Underflow
  BY <1>15 DEF Underflow
<1>16. CASE UnderflowStarts
  BY <1>16 DEF UnderflowStarts
<1>17. CASE UnderflowPauses
  BY <1>17 DEF UnderflowPauses, NotPaused, SetPause
<1>18. CASE PrebufferTick
  BY <1>18 DEF PrebufferTick, LoopRuns
<1>19. CASE BusEos
  BY <1>19 DEF BusEos, LoopRuns, NotifyEOS
<1>20. CASE PtsCheck
  BY <1>20 DEF PtsCheck, LoopRuns, NotifyEOS
<1>21. CASE EosTask
  BY <1>21 DEF EosTask, Run, LoopFree, LoopRuns
<1>22. CASE FrameTask
  BY <1>22 DEF FrameTask, Run, LoopFree, LoopRuns
<1>23. CASE DisplayedTask
  BY <1>23 DEF DisplayedTask, Run, LoopFree, LoopRuns, NotPaused, SetPause, StartCaching
<1>24. CASE PauseCall
  BY <1>24 DEF PauseCall, Call, LoopFree, LoopRuns, SetPause
<1>25. CASE PlayCall
  BY <1>25 DEF PlayCall, Call, LoopFree, LoopRuns, SetPause, StartCaching, NotPaused,
       CachingRequired
<1>26. CASE SeekCall
  BY <1>26 DEF SeekCall, Call, LoopFree, LoopRuns
<1>27. CASE StopSink
  BY <1>27 DEF StopSink
<1>28. CASE ConfigureSink
  BY <1>28 DEF ConfigureSink, Configured
<1>29. CASE UNCHANGED vars
  BY <1>29 DEF vars, user
<1>. QED
  BY <1>1, <1>2, <1>3, <1>4, <1>5, <1>6, <1>7, <1>8, <1>9, <1>10, <1>11, <1>12,
     <1>13, <1>14, <1>15, <1>16, <1>17, <1>18, <1>19, <1>20, <1>21, <1>22, <1>23, <1>24,
     <1>25, <1>26, <1>27, <1>28, <1>29
     DEF Next, Injectors, Buffering, Pipeline, MainLoop

(* The stream stays.                                                       *)
LEMMA ScenarioKept ==
    ASSUME [Next]_vars
    PROVE  scenario' = scenario
<1>. USE ConstantsAssumption DEF gst, prebuf, play, ends, loop, player, frame, blocked,
    collector, locks, user
<1>1. CASE Fetch
  BY <1>1 DEF Fetch
<1>2. CASE CachingComplete
  BY <1>2 DEF CachingComplete, PlayIfPending, LeaveBuffering
<1>3. CASE SendVideo
  BY <1>3 DEF SendVideo, PlayIfPending, LeaveBuffering, Injecting, CachingRequired
<1>4. CASE SendAudio
  BY <1>4 DEF SendAudio, Injecting
<1>5. CASE \E t \in Tracks : EndOfStream(t)
  BY <1>5 DEF EndOfStream, Injecting, Ended, NotifyEOS, PlayIfPending
<1>6. CASE \E t \in Tracks : EndOfStreamDone(t)
  BY <1>6 DEF EndOfStreamDone, LeaveBuffering
<1>7. CASE Monitor
  BY <1>7 DEF Monitor
<1>8. CASE \E t \in Tracks \cup {"monitor"} : StopBuffering(t)
  BY <1>8 DEF StopBuffering, Leave, EndSteps
<1>9. CASE \E t \in Tracks \cup {"monitor"} : StopBufferingPlay(t)
  BY <1>9 DEF StopBufferingPlay, Leave, EndSteps, SetPause, CanTake
<1>10. CASE Decode
  BY <1>10 DEF Decode
<1>11. CASE NeedData
  BY <1>11 DEF NeedData
<1>12. CASE AsyncDone
  BY <1>12 DEF AsyncDone
<1>13. CASE Render
  BY <1>13 DEF Render
<1>14. CASE FirstFrame
  BY <1>14 DEF FirstFrame
<1>15. CASE Underflow
  BY <1>15 DEF Underflow
<1>16. CASE UnderflowStarts
  BY <1>16 DEF UnderflowStarts
<1>17. CASE UnderflowPauses
  BY <1>17 DEF UnderflowPauses, NotPaused, SetPause
<1>18. CASE PrebufferTick
  BY <1>18 DEF PrebufferTick, LoopRuns
<1>19. CASE BusEos
  BY <1>19 DEF BusEos, LoopRuns, NotifyEOS
<1>20. CASE PtsCheck
  BY <1>20 DEF PtsCheck, LoopRuns, NotifyEOS
<1>21. CASE EosTask
  BY <1>21 DEF EosTask, Run, LoopFree, LoopRuns
<1>22. CASE FrameTask
  BY <1>22 DEF FrameTask, Run, LoopFree, LoopRuns
<1>23. CASE DisplayedTask
  BY <1>23 DEF DisplayedTask, Run, LoopFree, LoopRuns, NotPaused, SetPause, StartCaching
<1>24. CASE PauseCall
  BY <1>24 DEF PauseCall, Call, LoopFree, LoopRuns, SetPause
<1>25. CASE PlayCall
  BY <1>25 DEF PlayCall, Call, LoopFree, LoopRuns, SetPause, StartCaching, NotPaused,
       CachingRequired
<1>26. CASE SeekCall
  BY <1>26 DEF SeekCall, Call, LoopFree, LoopRuns
<1>27. CASE StopSink
  BY <1>27 DEF StopSink
<1>28. CASE ConfigureSink
  BY <1>28 DEF ConfigureSink, Configured
<1>29. CASE UNCHANGED vars
  BY <1>29 DEF vars, user
<1>. QED
  BY <1>1, <1>2, <1>3, <1>4, <1>5, <1>6, <1>7, <1>8, <1>9, <1>10, <1>11, <1>12,
     <1>13, <1>14, <1>15, <1>16, <1>17, <1>18, <1>19, <1>20, <1>21, <1>22, <1>23, <1>24,
     <1>25, <1>26, <1>27, <1>28, <1>29
     DEF Next, Injectors, Buffering, Pipeline, MainLoop

(* Initially every variable has its type.                                  *)
LEMMA TypeInit == Init => TypeInv
<1>. SUFFICES ASSUME Init PROVE TypeInv
  OBVIOUS
<1>. USE ConstantsAssumption DEF Init
<1>1. scenario.caching \in BOOLEAN /\ scenario.prebuffer \in BOOLEAN
      /\ scenario.user \in [{"pause", "seek"} -> 0..MaxCalls]
  BY ScenarioTypes
<1>2. PauseFlags /\ EndFlags /\ FrameFlags /\ BlockFlags
  BY <1>1 DEF PauseFlags, EndFlags, FrameFlags, BlockFlags
<1>3. Names /\ Counts
  BY DEF Names, Counts
<1>4. Ends /\ TaskCount /\ CallTypes
  BY <1>1 DEF Ends, TaskCount, CallTypes
<1>5. PcTypes
  BY DEF PcTypes, PCs
<1>. QED  BY <1>2, <1>3, <1>4, <1>5 DEF TypeInv

(* Every step keeps the types.                                             *)
LEMMA TypeStep ==
    ASSUME TypeInv, [Next]_vars
    PROVE  TypeInv'
<1>1. scenario.caching \in BOOLEAN /\ scenario.prebuffer \in BOOLEAN
  BY ScenarioTypes DEF TypeInv
<1>2. scenario' = scenario
  BY ScenarioKept
<1>. QED
  BY <1>1, <1>2, PauseFlagsStep, EndFlagsStep, FrameFlagsStep, BlockFlagsStep,
       NamesStep,
     CountsStep, EndsStep, TaskCountStep, PcTypesStep, CallTypesStep DEF TypeInv

-----------------------------------------------------------------------------
(* Pauses.                                                                 *)

(* Queues that a step leaves alone, shortens or lengthens by an end.       *)
LEMMA EndTaskOrder ==
    ASSUME TaskCount, EndFlags, TaskMarks, NotifyEOS, shown' = shown
    PROVE  /\ TaskMarks' /\ (Behind => Behind')
           /\ Queued("displayed")' <=> Queued("displayed")
<1>1. CASE eosSignalled
  BY <1>1 DEF TaskMarks, Behind, EndFlags, Queued, NotifyEOS
<1>2. CASE ~eosSignalled
  <2>1. tasks' = Append(tasks, "eos") /\ eosSignalled'
    BY <1>2 DEF NotifyEOS
  <2>2. /\ Len(tasks) \in Nat /\ Len(tasks') = Len(tasks) + 1
        /\ \A i \in 1..Len(tasks) : tasks'[i] = tasks[i]
        /\ tasks'[Len(tasks) + 1] = "eos"
    BY <2>1 DEF TaskCount
  <2>3. \A i \in 1..Len(tasks') : i \in 1..Len(tasks) \/ i = Len(tasks) + 1
    BY <2>2
  <2>4. 1..Len(tasks) \subseteq 1..Len(tasks')
    BY <2>2
  <2>5. Queued("displayed")' <=> Queued("displayed")
    BY <2>2, <2>3, <2>4 DEF Queued
  <2>6. Behind => Behind'
    BY <1>2, <2>2, <2>3 DEF Behind, TaskMarks, Queued
  <2>. QED  BY <2>1, <2>5, <2>6 DEF TaskMarks
<1>. QED  BY <1>1, <1>2

LEMMA FrameTaskOrder ==
    ASSUME TaskCount, TaskMarks, eosSignalled' = eosSignalled, shown',
           NEW more \in {<<"frame", "displayed">>, <<"frame">>}, tasks' = tasks \o more
    PROVE  TaskMarks' /\ (~eosSignalled => Behind')
<1>1. /\ more \in Seq({"frame", "displayed"}) /\ Len(more) \in Nat
      /\ \A i \in 1..Len(more) : more[i] # "eos"
  <2>1. CASE more = <<"frame", "displayed">>
    BY <2>1
  <2>2. CASE more = <<"frame">>
    BY <2>2
  <2>. QED  BY <2>1, <2>2
<1>2. /\ Len(tasks) \in Nat /\ Len(tasks') = Len(tasks) + Len(more)
      /\ \A i \in 1..Len(tasks') :
           tasks'[i] = IF i <= Len(tasks) THEN tasks[i] ELSE more[i - Len(tasks)]
  BY <1>1 DEF TaskCount
<1>3. ASSUME NEW i \in 1..Len(tasks'), tasks'[i] = "eos" PROVE Queued("eos")
  <2>1. CASE i <= Len(tasks)
    <3>1. i \in 1..Len(tasks) /\ tasks[i] = "eos"
      BY <1>2, <1>3, <2>1
    <3>. QED  BY <3>1 DEF Queued
  <2>2. CASE ~(i <= Len(tasks))
    <3>1. i - Len(tasks) \in 1..Len(more)
      BY <1>1, <1>2, <2>2
    <3>. QED  BY <1>1, <1>2, <1>3, <2>2, <3>1
  <2>. QED  BY <2>1, <2>2
<1>4. Queued("eos")' => Queued("eos")
  BY <1>3 DEF Queued
<1>5. ~eosSignalled => Behind'
  BY <1>3 DEF TaskMarks, Behind
<1>. QED  BY <1>4, <1>5 DEF TaskMarks

LEMMA RunTaskOrder ==
    ASSUME TaskCount, TaskMarks, tasks # <<>>, tasks' = Tail(tasks),
           UNCHANGED <<shown, eosSignalled>>
    PROVE  /\ TaskMarks' /\ (Behind => Behind')
           /\ Queued("displayed")' => Queued("displayed")
           /\ Head(tasks) = "eos" => eosSignalled /\ (Behind => ~Queued("displayed")')
           /\ Head(tasks) = "displayed" => Queued("displayed")
<1>1. /\ Len(tasks) \in Nat \ {0} /\ Len(tasks') = Len(tasks) - 1 /\ Head(tasks) = tasks[1]
      /\ \A i \in 1..Len(tasks') : tasks'[i] = tasks[i + 1]
  BY DEF TaskCount
<1>2. \A i \in 1..Len(tasks') : i + 1 \in 1..Len(tasks) /\ i + 1 > 1
  BY <1>1
<1>3. 1 \in 1..Len(tasks)
  BY <1>1
<1>4. \A x : Queued(x)' => Queued(x)
  BY <1>1, <1>2 DEF Queued
<1>5. ASSUME Behind PROVE Behind'
  <2>. SUFFICES ASSUME NEW i \in 1..Len(tasks'), NEW j \in 1..Len(tasks'),
                       tasks'[i] = "eos", tasks'[j] = "displayed"
                PROVE  j < i
    BY DEF Behind
  <2>1. tasks[i + 1] = "eos" /\ tasks[j + 1] = "displayed"
    BY <1>1
  <2>2. j + 1 < i + 1
    BY <2>1, <1>2, <1>5 DEF Behind
  <2>. QED  BY <2>2
<1>6. TaskMarks'
  BY <1>4 DEF TaskMarks
<1>7. ASSUME Head(tasks) = "eos" PROVE eosSignalled /\ (Behind => ~Queued("displayed")')
  <2>1. tasks[1] = "eos"
    BY <1>1, <1>7
  <2>2. eosSignalled
    BY <1>3, <2>1 DEF TaskMarks, Queued
  <2>3. Behind => \A j \in 1..Len(tasks') : tasks'[j] # "displayed"
    BY <1>1, <1>2, <1>3, <2>1 DEF Behind
  <2>. QED  BY <2>2, <2>3 DEF Queued
<1>8. Head(tasks) = "displayed" => Queued("displayed")
  BY <1>1, <1>3 DEF Queued
<1>. QED  BY <1>4, <1>5, <1>6, <1>7, <1>8

(* No task is left when the sink stops.                                    *)
LEMMA NoTaskOrder ==
    ASSUME tasks' = <<>>
    PROVE  TaskMarks' /\ Behind' /\ \A x : ~Queued(x)'
<1>1. Len(tasks') = 0
  OBVIOUS
<1>. QED  BY <1>1 DEF TaskMarks, Behind, Queued

(* What was pushed and what has ended.                                    *)
LEMMA VideoEndsStep ==
    ASSUME VideoEnds, Counts, Ends, EndFlags, [Next]_vars
    PROVE  VideoEnds'
<1>. USE ConstantsAssumption DEF VideoEnds, Counts, Ends, EndFlags, Tracks, gst,
    prebuf, play, ends, loop, player, frame, blocked, collector, locks, user
<1>1. CASE Fetch
  BY <1>1 DEF Fetch
<1>2. CASE CachingComplete
  BY <1>2 DEF CachingComplete, PlayIfPending, LeaveBuffering
<1>3. CASE SendVideo
  BY <1>3 DEF SendVideo, PlayIfPending, LeaveBuffering, Injecting, CachingRequired
<1>4. CASE SendAudio
  BY <1>4 DEF SendAudio, Injecting
<1>5. CASE \E t \in Tracks : EndOfStream(t)
  <2>1. PICK t \in Tracks : EndOfStream(t)
    BY <1>5
  <2>2. t = "video" => left = 0 /\ cached = 0
    BY <2>1 DEF EndOfStream, Ended
  <2>3. t = "audio" /\ reset["audio"] => scenario.audio # "data"
    BY <2>1 DEF EndOfStream
  <2>4. /\ eosReached' = eosReached \cup {t}
        /\ sourceEnded' = sourceEnded \/ sourceEnded' = sourceEnded \cup {t}
        /\ UNCHANGED <<scenario, left, cached, reset, source, decoder, ptsCheck, shown>>
    BY <2>1 DEF EndOfStream, PlayIfPending
  <2>. QED  BY <2>2, <2>3, <2>4
<1>6. CASE \E t \in Tracks : EndOfStreamDone(t)
  BY <1>6 DEF EndOfStreamDone, LeaveBuffering
<1>7. CASE Monitor
  BY <1>7 DEF Monitor
<1>8. CASE \E t \in Tracks \cup {"monitor"} : StopBuffering(t)
  BY <1>8 DEF StopBuffering, Leave, EndSteps
<1>9. CASE \E t \in Tracks \cup {"monitor"} : StopBufferingPlay(t)
  BY <1>9 DEF StopBufferingPlay, Leave, EndSteps, SetPause, CanTake
<1>10. CASE Decode
  BY <1>10 DEF Decode
<1>11. CASE NeedData
  BY <1>11 DEF NeedData
<1>12. CASE AsyncDone
  BY <1>12 DEF AsyncDone
<1>13. CASE Render
  BY <1>13 DEF Render
<1>14. CASE FirstFrame
  BY <1>14 DEF FirstFrame
<1>15. CASE Underflow
  BY <1>15 DEF Underflow
<1>16. CASE UnderflowStarts
  BY <1>16 DEF UnderflowStarts
<1>17. CASE UnderflowPauses
  BY <1>17 DEF UnderflowPauses, NotPaused, SetPause
<1>18. CASE PrebufferTick
  BY <1>18 DEF PrebufferTick, LoopRuns
<1>19. CASE BusEos
  BY <1>19 DEF BusEos, LoopRuns, NotifyEOS
<1>20. CASE PtsCheck
  BY <1>20 DEF PtsCheck, LoopRuns, NotifyEOS
<1>21. CASE EosTask
  BY <1>21 DEF EosTask, Run, LoopFree, LoopRuns
<1>22. CASE FrameTask
  BY <1>22 DEF FrameTask, Run, LoopFree, LoopRuns
<1>23. CASE DisplayedTask
  BY <1>23 DEF DisplayedTask, Run, LoopFree, LoopRuns, NotPaused, SetPause, StartCaching
<1>24. CASE PauseCall
  BY <1>24 DEF PauseCall, Call, LoopFree, LoopRuns, SetPause
<1>25. CASE PlayCall
  BY <1>25 DEF PlayCall, Call, LoopFree, LoopRuns, SetPause, StartCaching, NotPaused,
       CachingRequired
<1>26. CASE SeekCall
  BY <1>26 DEF SeekCall, Call, LoopFree, LoopRuns
<1>27. CASE StopSink
  BY <1>27 DEF StopSink
<1>28. CASE ConfigureSink
  BY <1>28 DEF ConfigureSink, Configured
<1>29. CASE UNCHANGED vars
  BY <1>29 DEF vars, user
<1>. QED
  BY <1>1, <1>2, <1>3, <1>4, <1>5, <1>6, <1>7, <1>8, <1>9, <1>10, <1>11, <1>12,
     <1>13, <1>14, <1>15, <1>16, <1>17, <1>18, <1>19, <1>20, <1>21, <1>22, <1>23, <1>24,
     <1>25, <1>26, <1>27, <1>28, <1>29
     DEF Next, Injectors, Buffering, Pipeline, MainLoop

(* A track that ended without data has ended so as long as the stream lasts*)
LEMMA BogusStays ==
    ASSUME VideoEnds, Counts, Ends, [Next]_vars, ~StopSink, ~ConfigureSink
    PROVE  Bogus => Bogus'
<1>. USE ConstantsAssumption DEF Bogus, VideoEnds, Counts, Ends, Tracks, gst,
    prebuf, play, ends, loop, player, frame, blocked, collector, locks, user
<1>1. CASE Fetch
  BY <1>1 DEF Fetch
<1>2. CASE CachingComplete
  BY <1>2 DEF CachingComplete, PlayIfPending, LeaveBuffering
<1>3. CASE SendVideo
  BY <1>3 DEF SendVideo, PlayIfPending, LeaveBuffering, Injecting, CachingRequired
<1>4. CASE SendAudio
  BY <1>4 DEF SendAudio, Injecting
<1>5. CASE \E t \in Tracks : EndOfStream(t)
  BY <1>5 DEF EndOfStream, Injecting, Ended, NotifyEOS, PlayIfPending
<1>6. CASE \E t \in Tracks : EndOfStreamDone(t)
  BY <1>6 DEF EndOfStreamDone, LeaveBuffering
<1>7. CASE Monitor
  BY <1>7 DEF Monitor
<1>8. CASE \E t \in Tracks \cup {"monitor"} : StopBuffering(t)
  BY <1>8 DEF StopBuffering, Leave, EndSteps
<1>9. CASE \E t \in Tracks \cup {"monitor"} : StopBufferingPlay(t)
  BY <1>9 DEF StopBufferingPlay, Leave, EndSteps, SetPause, CanTake
<1>10. CASE Decode
  BY <1>10 DEF Decode
<1>11. CASE NeedData
  BY <1>11 DEF NeedData
<1>12. CASE AsyncDone
  BY <1>12 DEF AsyncDone
<1>13. CASE Render
  BY <1>13 DEF Render
<1>14. CASE FirstFrame
  BY <1>14 DEF FirstFrame
<1>15. CASE Underflow
  BY <1>15 DEF Underflow
<1>16. CASE UnderflowStarts
  BY <1>16 DEF UnderflowStarts
<1>17. CASE UnderflowPauses
  BY <1>17 DEF UnderflowPauses, NotPaused, SetPause
<1>18. CASE PrebufferTick
  BY <1>18 DEF PrebufferTick, LoopRuns
<1>19. CASE BusEos
  BY <1>19 DEF BusEos, LoopRuns, NotifyEOS
<1>20. CASE PtsCheck
  BY <1>20 DEF PtsCheck, LoopRuns, NotifyEOS
<1>21. CASE EosTask
  BY <1>21 DEF EosTask, Run, LoopFree, LoopRuns
<1>22. CASE FrameTask
  BY <1>22 DEF FrameTask, Run, LoopFree, LoopRuns
<1>23. CASE DisplayedTask
  BY <1>23 DEF DisplayedTask, Run, LoopFree, LoopRuns, NotPaused, SetPause, StartCaching
<1>24. CASE PauseCall
  BY <1>24 DEF PauseCall, Call, LoopFree, LoopRuns, SetPause
<1>25. CASE PlayCall
  BY <1>25 DEF PlayCall, Call, LoopFree, LoopRuns, SetPause, StartCaching, NotPaused,
       CachingRequired
<1>26. CASE SeekCall
  BY <1>26 DEF SeekCall, Call, LoopFree, LoopRuns
<1>27. CASE StopSink
  BY <1>27
<1>28. CASE ConfigureSink
  BY <1>28
<1>29. CASE UNCHANGED vars
  BY <1>29 DEF vars, user
<1>. QED
  BY <1>1, <1>2, <1>3, <1>4, <1>5, <1>6, <1>7, <1>8, <1>9, <1>10, <1>11, <1>12,
     <1>13, <1>14, <1>15, <1>16, <1>17, <1>18, <1>19, <1>20, <1>21, <1>22, <1>23, <1>24,
     <1>25, <1>26, <1>27, <1>28, <1>29
     DEF Next, Injectors, Buffering, Pipeline, MainLoop

(* Before the first frame, the end is that of a track without data or of   *)
(* the last of the video.                                                  *)
LEMMA EndBeforeFrameStep ==
    ASSUME EndBeforeFrame, VideoEnds, Seeks, Counts, Ends, EndFlags, [Next]_vars
    PROVE  EndBeforeFrame'
<1>0. ~StopSink /\ ~ConfigureSink => (Bogus => Bogus')
  BY BogusStays
<1>. USE ConstantsAssumption DEF EndBeforeFrame, Counts, EndFlags, Tracks, gst,
    prebuf, play, ends, loop, player, frame, blocked, collector, locks, user
<1>1. CASE Fetch
  BY <1>0, <1>1 DEF Fetch, StopSink, ConfigureSink
<1>2. CASE CachingComplete
  BY <1>0, <1>2 DEF CachingComplete, PlayIfPending, LeaveBuffering, StopSink,
       ConfigureSink
<1>3. CASE SendVideo
  BY <1>0, <1>3 DEF SendVideo, PlayIfPending, LeaveBuffering, Injecting,
       CachingRequired, StopSink, ConfigureSink
<1>4. CASE SendAudio
  BY <1>0, <1>4 DEF SendAudio, Injecting, StopSink, ConfigureSink
<1>5. CASE \E t \in Tracks : EndOfStream(t)
  <2>1. PICK t \in Tracks : EndOfStream(t)
    BY <1>5
  <2>1a. ~StopSink /\ ~ConfigureSink
    BY <2>1 DEF EndOfStream, StopSink, ConfigureSink
  <2>2. CASE reset[t]
    <3>1. t \in eosReached' /\ reset'[t]
      BY <2>1, <2>2 DEF EndOfStream
    <3>. QED  BY <3>1 DEF Bogus
  <2>3. CASE ~reset[t]
    BY <1>0, <2>1, <2>1a, <2>3 DEF EndOfStream, PlayIfPending
  <2>. QED  BY <2>2, <2>3
<1>6. CASE \E t \in Tracks : EndOfStreamDone(t)
  BY <1>0, <1>6 DEF EndOfStreamDone, LeaveBuffering, StopSink, ConfigureSink
<1>7. CASE Monitor
  BY <1>0, <1>7 DEF Monitor, StopSink, ConfigureSink
<1>8. CASE \E t \in Tracks \cup {"monitor"} : StopBuffering(t)
  BY <1>0, <1>8 DEF StopBuffering, Leave, EndSteps, StopSink, ConfigureSink
<1>9. CASE \E t \in Tracks \cup {"monitor"} : StopBufferingPlay(t)
  BY <1>0, <1>9 DEF StopBufferingPlay, Leave, EndSteps, SetPause, CanTake, StopSink,
       ConfigureSink
<1>10. CASE Decode
  BY <1>0, <1>10 DEF Decode, StopSink, ConfigureSink
<1>11. CASE NeedData
  BY <1>0, <1>11 DEF NeedData, StopSink, ConfigureSink
<1>12. CASE AsyncDone
  BY <1>0, <1>12 DEF AsyncDone, StopSink, ConfigureSink
<1>13. CASE Render
  BY <1>0, <1>13 DEF Render, StopSink, ConfigureSink
<1>14. CASE FirstFrame
  BY <1>0, <1>14 DEF FirstFrame, StopSink, ConfigureSink
<1>15. CASE Underflow
  BY <1>0, <1>15 DEF Underflow, StopSink, ConfigureSink
<1>16. CASE UnderflowStarts
  BY <1>0, <1>16 DEF UnderflowStarts, StopSink, ConfigureSink
<1>17. CASE UnderflowPauses
  BY <1>0, <1>17 DEF UnderflowPauses, NotPaused, SetPause, StopSink, ConfigureSink
<1>18. CASE PrebufferTick
  BY <1>0, <1>18 DEF PrebufferTick, LoopRuns, StopSink, ConfigureSink
<1>19. CASE BusEos
  BY <1>0, <1>19 DEF BusEos, LoopRuns, NotifyEOS, StopSink, ConfigureSink, VideoEnds
<1>20. CASE PtsCheck
  BY <1>0, <1>20 DEF PtsCheck, LoopRuns, NotifyEOS, StopSink, ConfigureSink, VideoEnds
<1>21. CASE EosTask
  BY <1>0, <1>21 DEF EosTask, Run, LoopFree, LoopRuns, StopSink, ConfigureSink
<1>22. CASE FrameTask
  BY <1>0, <1>22 DEF FrameTask, Run, LoopFree, LoopRuns, StopSink, ConfigureSink
<1>23. CASE DisplayedTask
  BY <1>0, <1>23 DEF DisplayedTask, Run, LoopFree, LoopRuns, NotPaused, SetPause,
       StartCaching, StopSink, ConfigureSink
<1>24. CASE PauseCall
  BY <1>0, <1>24 DEF PauseCall, Call, LoopFree, LoopRuns, SetPause, StopSink,
       ConfigureSink
<1>25. CASE PlayCall
  BY <1>0, <1>25 DEF PlayCall, Call, LoopFree, LoopRuns, SetPause, StartCaching,
       NotPaused, CachingRequired, StopSink, ConfigureSink
<1>26. CASE SeekCall
  BY <1>0, <1>26 DEF SeekCall, Call, LoopFree, LoopRuns, StopSink, ConfigureSink
<1>27. CASE StopSink
  BY <1>0, <1>27 DEF StopSink, StopSink, ConfigureSink, Seeks
<1>28. CASE ConfigureSink
  BY <1>0, <1>28 DEF ConfigureSink, Configured, StopSink, ConfigureSink
<1>29. CASE UNCHANGED vars
  BY <1>0, <1>29 DEF vars, user, StopSink, ConfigureSink
<1>. QED
  BY <1>1, <1>2, <1>3, <1>4, <1>5, <1>6, <1>7, <1>8, <1>9, <1>10, <1>11, <1>12,
     <1>13, <1>14, <1>15, <1>16, <1>17, <1>18, <1>19, <1>20, <1>21, <1>22, <1>23, <1>24,
     <1>25, <1>26, <1>27, <1>28, <1>29
     DEF Next, Injectors, Buffering, Pipeline, MainLoop

(* What a step does with the idle tasks.                                   *)
LEMMA TasksChange ==
    ASSUME [Next]_vars
    PROVE  \/ UNCHANGED <<tasks, shown, eosSignalled>>
           \/ NotifyEOS /\ shown' = shown
           \/ tasks # <<>> /\ tasks' = Tail(tasks) /\ UNCHANGED <<shown, eosSignalled>>
           \/ FirstFrame
           \/ tasks' = <<>> /\ (StopSink \/ ConfigureSink)
<1>. USE ConstantsAssumption DEF gst, prebuf, play, ends, loop, player, frame,
    blocked, collector, locks, user
<1>1. CASE Fetch
  BY <1>1 DEF Fetch
<1>2. CASE CachingComplete
  BY <1>2 DEF CachingComplete, PlayIfPending, LeaveBuffering
<1>3. CASE SendVideo
  BY <1>3 DEF SendVideo, PlayIfPending, LeaveBuffering, Injecting, CachingRequired
<1>4. CASE SendAudio
  BY <1>4 DEF SendAudio, Injecting
<1>5. CASE \E t \in Tracks : EndOfStream(t)
  BY <1>5 DEF EndOfStream, Injecting, Ended, NotifyEOS, PlayIfPending
<1>6. CASE \E t \in Tracks : EndOfStreamDone(t)
  BY <1>6 DEF EndOfStreamDone, LeaveBuffering
<1>7. CASE Monitor
  BY <1>7 DEF Monitor
<1>8. CASE \E t \in Tracks \cup {"monitor"} : StopBuffering(t)
  BY <1>8 DEF StopBuffering, Leave, EndSteps
<1>9. CASE \E t \in Tracks \cup {"monitor"} : StopBufferingPlay(t)
  BY <1>9 DEF StopBufferingPlay, Leave, EndSteps, SetPause, CanTake
<1>10. CASE Decode
  BY <1>10 DEF Decode
<1>11. CASE NeedData
  BY <1>11 DEF NeedData
<1>12. CASE AsyncDone
  BY <1>12 DEF AsyncDone
<1>13. CASE Render
  BY <1>13 DEF Render
<1>14. CASE FirstFrame
  BY <1>14
<1>15. CASE Underflow
  BY <1>15 DEF Underflow
<1>16. CASE UnderflowStarts
  BY <1>16 DEF UnderflowStarts
<1>17. CASE UnderflowPauses
  BY <1>17 DEF UnderflowPauses, NotPaused, SetPause
<1>18. CASE PrebufferTick
  BY <1>18 DEF PrebufferTick, LoopRuns
<1>19. CASE BusEos
  BY <1>19 DEF BusEos
<1>20. CASE PtsCheck
  BY <1>20 DEF PtsCheck
<1>21. CASE EosTask
  BY <1>21 DEF EosTask, Run, LoopFree, LoopRuns
<1>22. CASE FrameTask
  BY <1>22 DEF FrameTask, Run, LoopFree, LoopRuns
<1>23. CASE DisplayedTask
  BY <1>23 DEF DisplayedTask, Run, LoopFree, LoopRuns, NotPaused, SetPause, StartCaching
<1>24. CASE PauseCall
  BY <1>24 DEF PauseCall, Call, LoopFree, LoopRuns, SetPause
<1>25. CASE PlayCall
  BY <1>25 DEF PlayCall, Call, LoopFree, LoopRuns, SetPause, StartCaching, NotPaused,
       CachingRequired
<1>26. CASE SeekCall
  BY <1>26 DEF SeekCall, Call, LoopFree, LoopRuns
<1>27. CASE StopSink
  BY <1>27 DEF StopSink
<1>28. CASE ConfigureSink
  BY <1>28 DEF ConfigureSink, Configured
<1>29. CASE UNCHANGED vars
  BY <1>29 DEF vars, user
<1>. QED
  BY <1>1, <1>2, <1>3, <1>4, <1>5, <1>6, <1>7, <1>8, <1>9, <1>10, <1>11, <1>12,
     <1>13, <1>14, <1>15, <1>16, <1>17, <1>18, <1>19, <1>20, <1>21, <1>22, <1>23, <1>24,
     <1>25, <1>26, <1>27, <1>28, <1>29
     DEF Next, Injectors, Buffering, Pipeline, MainLoop

(* The display of the first frame goes before the end, unless bogus.       *)
LEMMA TaskOrderStep ==
    ASSUME TaskOrder, EndBeforeFrame, VideoEnds, TaskCount, EndFlags, FrameFlags, Counts,
           Ends, [Next]_vars
    PROVE  TaskOrder'
<1>. USE DEF TaskOrder
<1>0. ~StopSink /\ ~ConfigureSink => (Bogus => Bogus')
  BY BogusStays
<1>1. CASE StopSink \/ ConfigureSink
  <2>1. tasks' = <<>>
    BY <1>1 DEF StopSink, ConfigureSink, Configured
  <2>. QED  BY <2>1, NoTaskOrder
<1>2. CASE UNCHANGED <<tasks, shown, eosSignalled>> /\ ~StopSink /\ ~ConfigureSink
  BY <1>0, <1>2 DEF TaskMarks, Behind, Queued
<1>3. CASE NotifyEOS /\ shown' = shown /\ ~StopSink /\ ~ConfigureSink
  BY <1>0, <1>3, EndTaskOrder
<1>4. CASE tasks # <<>> /\ tasks' = Tail(tasks) /\ UNCHANGED <<shown, eosSignalled>>
           /\ ~StopSink /\ ~ConfigureSink
  BY <1>0, <1>4, RunTaskOrder
<1>5. CASE FirstFrame /\ ~StopSink /\ ~ConfigureSink
  <2>1. Bogus' \/ ~eosSignalled
    BY <1>0, <1>5 DEF FirstFrame, EndBeforeFrame, Counts, EndFlags
  <2>2. PICK more \in {<<"frame", "displayed">>, <<"frame">>} : tasks' = tasks \o more
    BY <1>5 DEF FirstFrame
  <2>3. eosSignalled' = eosSignalled /\ shown'
    BY <1>5 DEF FirstFrame, ends
  <2>. QED  BY <2>1, <2>2, <2>3, FrameTaskOrder
<1>. QED  BY <1>1, <1>2, <1>3, <1>4, <1>5, TasksChange

(* A seek starts from a stream that was seen, and its threads rest before  *)
(* the sink is configured.                                                 *)
LEMMA SeeksStep ==
    ASSUME Seeks, Names, EndFlags, PcTypes, [Next]_vars
    PROVE  Seeks'
<1>. USE ConstantsAssumption DEF Seeks, Threads, Tracks, PcTypes, gst, prebuf,
    play, ends, loop, player, frame, blocked, collector, locks, user
<1>1. CASE Fetch
  BY <1>1 DEF Fetch, At, Goto, LoopFree, LoopRuns, LeaveBuffering
<1>2. CASE CachingComplete
  BY <1>2 DEF CachingComplete, PlayIfPending, LeaveBuffering, At, Goto, LoopFree,
       LoopRuns, LeaveBuffering
<1>3. CASE SendVideo
  BY <1>3 DEF SendVideo, PlayIfPending, LeaveBuffering, Injecting, CachingRequired
<1>4. CASE SendAudio
  BY <1>4 DEF SendAudio, Injecting
<1>5. CASE \E t \in Tracks : EndOfStream(t)
  BY <1>5 DEF EndOfStream, Injecting, Ended, NotifyEOS, PlayIfPending, At, Goto,
       LoopFree, LoopRuns, LeaveBuffering
<1>6. CASE \E t \in Tracks : EndOfStreamDone(t)
  BY <1>6 DEF EndOfStreamDone, LeaveBuffering, At, Goto, LoopFree, LoopRuns,
       LeaveBuffering
<1>7. CASE Monitor
  BY <1>7 DEF Monitor, At, Goto, LoopFree, LoopRuns, LeaveBuffering
<1>8. CASE \E t \in Tracks \cup {"monitor"} : StopBuffering(t)
  BY <1>8 DEF StopBuffering, Leave, EndSteps, At, Goto
<1>9. CASE \E t \in Tracks \cup {"monitor"} : StopBufferingPlay(t)
  BY <1>9 DEF StopBufferingPlay, Leave, EndSteps, SetPause, CanTake, At, Goto
<1>10. CASE Decode
  BY <1>10 DEF Decode
<1>11. CASE NeedData
  BY <1>11 DEF NeedData
<1>12. CASE AsyncDone
  BY <1>12 DEF AsyncDone
<1>13. CASE Render
  BY <1>13 DEF Render
<1>14. CASE FirstFrame
  BY <1>14 DEF FirstFrame
<1>15. CASE Underflow
  BY <1>15 DEF Underflow, At, Goto, LoopFree, LoopRuns, LeaveBuffering
<1>16. CASE UnderflowStarts
  BY <1>16 DEF UnderflowStarts, At, Goto, LoopFree, LoopRuns, LeaveBuffering
<1>17. CASE UnderflowPauses
  BY <1>17 DEF UnderflowPauses, NotPaused, SetPause, At, Goto, LoopFree, LoopRuns,
       LeaveBuffering
<1>18. CASE PrebufferTick
  BY <1>18 DEF PrebufferTick, LoopRuns
<1>19. CASE BusEos
  BY <1>19 DEF BusEos, LoopRuns, NotifyEOS
<1>20. CASE PtsCheck
  BY <1>20 DEF PtsCheck, LoopRuns, NotifyEOS
<1>21. CASE EosTask
  BY <1>21 DEF EosTask, Run, LoopFree, LoopRuns
<1>22. CASE FrameTask
  BY <1>22 DEF FrameTask, Run, LoopFree, LoopRuns
<1>23. CASE DisplayedTask
  BY <1>23 DEF DisplayedTask, Run, LoopFree, LoopRuns, NotPaused, SetPause, StartCaching
<1>24. CASE PauseCall
  BY <1>24 DEF PauseCall, Call, LoopFree, LoopRuns, SetPause
<1>25. CASE PlayCall
  BY <1>25 DEF PlayCall, Call, LoopFree, LoopRuns, SetPause, StartCaching, NotPaused,
       CachingRequired
<1>26. CASE SeekCall
  BY <1>26 DEF SeekCall, Call, LoopFree, LoopRuns
<1>27. CASE StopSink
  BY <1>27 DEF StopSink, At
<1>28. CASE ConfigureSink
  BY <1>28 DEF ConfigureSink, Configured
<1>29. CASE UNCHANGED vars
  BY <1>29 DEF vars, user
<1>. QED
  BY <1>1, <1>2, <1>3, <1>4, <1>5, <1>6, <1>7, <1>8, <1>9, <1>10, <1>11, <1>12,
     <1>13, <1>14, <1>15, <1>16, <1>17, <1>18, <1>19, <1>20, <1>21, <1>22, <1>23, <1>24,
     <1>25, <1>26, <1>27, <1>28, <1>29
     DEF Next, Injectors, Buffering, Pipeline, MainLoop

(* Who un-pauses for an underflow holds the lock of the buffering.         *)
LEMMA StopsStep ==
    ASSUME Stops, Seeks, PcTypes, BlockFlags, [Next]_vars
    PROVE  Stops'
<1>. USE ConstantsAssumption DEF Stops, Threads, Tracks, PcTypes, Goto, gst,
    prebuf, play, ends, loop, player, frame, blocked, collector, locks, user
<1>1. CASE Fetch
  BY <1>1 DEF Fetch
<1>2. CASE CachingComplete
  BY <1>2 DEF CachingComplete, PlayIfPending, LeaveBuffering
<1>3. CASE SendVideo
  BY <1>3 DEF SendVideo, PlayIfPending, LeaveBuffering, Injecting, CachingRequired
<1>4. CASE SendAudio
  BY <1>4 DEF SendAudio, Injecting
<1>5. CASE \E t \in Tracks : EndOfStream(t)
  BY <1>5 DEF EndOfStream, Injecting, Ended, NotifyEOS, PlayIfPending
<1>6. CASE \E t \in Tracks : EndOfStreamDone(t)
  BY <1>6 DEF EndOfStreamDone, LeaveBuffering
<1>7. CASE Monitor
  BY <1>7 DEF Monitor
<1>8. CASE \E t \in Tracks \cup {"monitor"} : StopBuffering(t)
  BY <1>8 DEF StopBuffering, Leave, EndSteps, BlockFlags, At, Free
<1>9. CASE \E t \in Tracks \cup {"monitor"} : StopBufferingPlay(t)
  BY <1>9 DEF StopBufferingPlay, Leave, EndSteps, SetPause, CanTake
<1>10. CASE Decode
  BY <1>10 DEF Decode
<1>11. CASE NeedData
  BY <1>11 DEF NeedData
<1>12. CASE AsyncDone
  BY <1>12 DEF AsyncDone
<1>13. CASE Render
  BY <1>13 DEF Render
<1>14. CASE FirstFrame
  BY <1>14 DEF FirstFrame
<1>15. CASE Underflow
  BY <1>15 DEF Underflow
<1>16. CASE UnderflowStarts
  BY <1>16 DEF UnderflowStarts
<1>17. CASE UnderflowPauses
  BY <1>17 DEF UnderflowPauses, NotPaused, SetPause
<1>18. CASE PrebufferTick
  BY <1>18 DEF PrebufferTick, LoopRuns
<1>19. CASE BusEos
  BY <1>19 DEF BusEos, LoopRuns, NotifyEOS
<1>20. CASE PtsCheck
  BY <1>20 DEF PtsCheck, LoopRuns, NotifyEOS
<1>21. CASE EosTask
  BY <1>21 DEF EosTask, Run, LoopFree, LoopRuns
<1>22. CASE FrameTask
  BY <1>22 DEF FrameTask, Run, LoopFree, LoopRuns
<1>23. CASE DisplayedTask
  BY <1>23 DEF DisplayedTask, Run, LoopFree, LoopRuns, NotPaused, SetPause, StartCaching
<1>24. CASE PauseCall
  BY <1>24 DEF PauseCall, Call, LoopFree, LoopRuns, SetPause
<1>25. CASE PlayCall
  BY <1>25 DEF PlayCall, Call, LoopFree, LoopRuns, SetPause, StartCaching, NotPaused,
       CachingRequired
<1>26. CASE SeekCall
  BY <1>26 DEF SeekCall, Call, LoopFree, LoopRuns
<1>27. CASE StopSink
  BY <1>27 DEF StopSink
<1>28. CASE ConfigureSink
  BY <1>28 DEF ConfigureSink, Configured
<1>29. CASE UNCHANGED vars
  BY <1>29 DEF vars, user
<1>. QED
  BY <1>1, <1>2, <1>3, <1>4, <1>5, <1>6, <1>7, <1>8, <1>9, <1>10, <1>11, <1>12,
     <1>13, <1>14, <1>15, <1>16, <1>17, <1>18, <1>19, <1>20, <1>21, <1>22, <1>23, <1>24,
     <1>25, <1>26, <1>27, <1>28, <1>29
     DEF Next, Injectors, Buffering, Pipeline, MainLoop

(* A pause on the first frame awaits it; an end is signalled, then sent.   *)
LEMMA AwaitsStep ==
    ASSUME Awaits, TaskMarks, TaskCount, EndFlags, FrameFlags, Names, [Next]_vars
    PROVE  Awaits'
<1>. USE ConstantsAssumption DEF Awaits, EndFlags, FrameFlags, gst, prebuf,
    play, ends, loop, player, frame, blocked, collector, locks, user
<1>1. CASE Fetch
  BY <1>1 DEF Fetch
<1>2. CASE CachingComplete
  BY <1>2 DEF CachingComplete, PlayIfPending, LeaveBuffering
<1>3. CASE SendVideo
  BY <1>3 DEF SendVideo, PlayIfPending, LeaveBuffering, Injecting, CachingRequired
<1>4. CASE SendAudio
  BY <1>4 DEF SendAudio, Injecting
<1>5. CASE \E t \in Tracks : EndOfStream(t)
  BY <1>5 DEF EndOfStream, Injecting, Ended, NotifyEOS, PlayIfPending
<1>6. CASE \E t \in Tracks : EndOfStreamDone(t)
  BY <1>6 DEF EndOfStreamDone, LeaveBuffering
<1>7. CASE Monitor
  BY <1>7 DEF Monitor
<1>8. CASE \E t \in Tracks \cup {"monitor"} : StopBuffering(t)
  BY <1>8 DEF StopBuffering, Leave, EndSteps
<1>9. CASE \E t \in Tracks \cup {"monitor"} : StopBufferingPlay(t)
  BY <1>9 DEF StopBufferingPlay, Leave, EndSteps, SetPause, CanTake
<1>10. CASE Decode
  BY <1>10 DEF Decode
<1>11. CASE NeedData
  BY <1>11 DEF NeedData
<1>12. CASE AsyncDone
  BY <1>12 DEF AsyncDone
<1>13. CASE Render
  BY <1>13 DEF Render
<1>14. CASE FirstFrame
  BY <1>14 DEF FirstFrame
<1>15. CASE Underflow
  BY <1>15 DEF Underflow
<1>16. CASE UnderflowStarts
  BY <1>16 DEF UnderflowStarts
<1>17. CASE UnderflowPauses
  BY <1>17 DEF UnderflowPauses, NotPaused, SetPause
<1>18. CASE PrebufferTick
  BY <1>18 DEF PrebufferTick, LoopRuns
<1>19. CASE BusEos
  BY <1>19 DEF BusEos, LoopRuns, NotifyEOS
<1>20. CASE PtsCheck
  BY <1>20 DEF PtsCheck, LoopRuns, NotifyEOS
<1>21. CASE EosTask
  <2>1. eosSignalled
    BY <1>21, RunTaskOrder DEF EosTask, Run, ends, loop
  <2>. QED  BY <1>21, <2>1 DEF EosTask
<1>22. CASE FrameTask
  BY <1>22 DEF FrameTask, Run, LoopFree, LoopRuns
<1>23. CASE DisplayedTask
  BY <1>23 DEF DisplayedTask, Run, LoopFree, LoopRuns, NotPaused, SetPause, StartCaching
<1>24. CASE PauseCall
  BY <1>24 DEF PauseCall, Call, LoopFree, LoopRuns, SetPause
<1>25. CASE PlayCall
  BY <1>25 DEF PlayCall, Call, LoopFree, LoopRuns, SetPause, StartCaching, NotPaused,
       CachingRequired
<1>26. CASE SeekCall
  BY <1>26 DEF SeekCall, Call, LoopFree, LoopRuns
<1>27. CASE StopSink
  BY <1>27 DEF StopSink
<1>28. CASE ConfigureSink
  BY <1>28 DEF ConfigureSink, Configured
<1>29. CASE UNCHANGED vars
  BY <1>29 DEF vars, user
<1>. QED
  BY <1>1, <1>2, <1>3, <1>4, <1>5, <1>6, <1>7, <1>8, <1>9, <1>10, <1>11, <1>12,
     <1>13, <1>14, <1>15, <1>16, <1>17, <1>18, <1>19, <1>20, <1>21, <1>22, <1>23, <1>24,
     <1>25, <1>26, <1>27, <1>28, <1>29
     DEF Next, Injectors, Buffering, Pipeline, MainLoop

(* A pipeline comes to be paused to play again only in a seek in pause.    *)
LEMMA TemptedStep ==
    ASSUME Names, FrameFlags, PauseFlags, [Next]_vars, ~ConfigureSink
    PROVE  Tempted' => Tempted
<1>. USE ConstantsAssumption DEF Tempted, Names, FrameFlags, PauseFlags, gst,
    prebuf, play, ends, loop, player, frame, blocked, collector, locks, user
<1>1. CASE Fetch
  BY <1>1 DEF Fetch
<1>2. CASE CachingComplete
  BY <1>2 DEF CachingComplete, PlayIfPending, LeaveBuffering
<1>3. CASE SendVideo
  BY <1>3 DEF SendVideo, PlayIfPending, LeaveBuffering, Injecting, CachingRequired
<1>4. CASE SendAudio
  BY <1>4 DEF SendAudio, Injecting
<1>5. CASE \E t \in Tracks : EndOfStream(t)
  BY <1>5 DEF EndOfStream, Injecting, Ended, NotifyEOS, PlayIfPending
<1>6. CASE \E t \in Tracks : EndOfStreamDone(t)
  BY <1>6 DEF EndOfStreamDone, LeaveBuffering
<1>7. CASE Monitor
  BY <1>7 DEF Monitor
<1>8. CASE \E t \in Tracks \cup {"monitor"} : StopBuffering(t)
  BY <1>8 DEF StopBuffering, Leave, EndSteps
<1>9. CASE \E t \in Tracks \cup {"monitor"} : StopBufferingPlay(t)
  BY <1>9 DEF StopBufferingPlay, Leave, EndSteps, SetPause, CanTake
<1>10. CASE Decode
  BY <1>10 DEF Decode
<1>11. CASE NeedData
  BY <1>11 DEF NeedData
<1>12. CASE AsyncDone
  BY <1>12 DEF AsyncDone
<1>13. CASE Render
  BY <1>13 DEF Render
<1>14. CASE FirstFrame
  BY <1>14 DEF FirstFrame
<1>15. CASE Underflow
  BY <1>15 DEF Underflow
<1>16. CASE UnderflowStarts
  BY <1>16 DEF UnderflowStarts
<1>17. CASE UnderflowPauses
  BY <1>17 DEF UnderflowPauses, NotPaused, SetPause
<1>18. CASE PrebufferTick
  BY <1>18 DEF PrebufferTick, LoopRuns
<1>19. CASE BusEos
  BY <1>19 DEF BusEos, LoopRuns, NotifyEOS
<1>20. CASE PtsCheck
  BY <1>20 DEF PtsCheck, LoopRuns, NotifyEOS
<1>21. CASE EosTask
  BY <1>21 DEF EosTask, Run, LoopFree, LoopRuns
<1>22. CASE FrameTask
  BY <1>22 DEF FrameTask, Run, LoopFree, LoopRuns
<1>23. CASE DisplayedTask
  BY <1>23 DEF DisplayedTask, Run, LoopFree, LoopRuns, NotPaused, SetPause, StartCaching
<1>24. CASE PauseCall
  BY <1>24 DEF PauseCall, Call, LoopFree, LoopRuns, SetPause
<1>25. CASE PlayCall
  BY <1>25 DEF PlayCall, Call, LoopFree, LoopRuns, SetPause, StartCaching, NotPaused,
       CachingRequired
<1>26. CASE SeekCall
  BY <1>26 DEF SeekCall, Call, LoopFree, LoopRuns
<1>27. CASE StopSink
  BY <1>27 DEF StopSink
<1>28. CASE ConfigureSink
  BY <1>28
<1>29. CASE UNCHANGED vars
  BY <1>29 DEF vars, user
<1>. QED
  BY <1>1, <1>2, <1>3, <1>4, <1>5, <1>6, <1>7, <1>8, <1>9, <1>10, <1>11, <1>12,
     <1>13, <1>14, <1>15, <1>16, <1>17, <1>18, <1>19, <1>20, <1>21, <1>22, <1>23, <1>24,
     <1>25, <1>26, <1>27, <1>28, <1>29
     DEF Next, Injectors, Buffering, Pipeline, MainLoop

(* Few steps end a pause on the first frame or report an end, and those    *)
(* that move the state in a seek are few as well.                          *)
LEMMA PauseKeepers ==
    ASSUME Tempted, FrameFlags, Names, [Next]_vars, asked' = "pause", pipe' = "PAUSED",
           target' = "PLAYING", ~StopSink, ~ConfigureSink, ~SeekCall, ~EosTask,
           ~DisplayedTask
    PROVE  /\ UNCHANGED <<pauseOnFrame, eosSent>>
           /\ frameAwaited /\ state = "seeking" => state' = "seeking"
<1>. USE ConstantsAssumption DEF gst, prebuf, play, ends, loop, player, frame,
    blocked, collector, locks, user
<1>. USE ConstantsAssumption DEF Tempted, Names, FrameFlags, gst, prebuf, play,
    ends, loop, player, frame, blocked, collector, locks, user
<1>1. CASE Fetch
  BY <1>1 DEF Fetch
<1>2. CASE CachingComplete
  BY <1>2 DEF CachingComplete, PlayIfPending, LeaveBuffering, LeaveBuffering
<1>3. CASE SendVideo
  BY <1>3 DEF SendVideo, PlayIfPending, LeaveBuffering, Injecting, CachingRequired,
       LeaveBuffering
<1>4. CASE SendAudio
  BY <1>4 DEF SendAudio, Injecting
<1>5. CASE \E t \in Tracks : EndOfStream(t)
  BY <1>5 DEF EndOfStream, Injecting, Ended, NotifyEOS, PlayIfPending
<1>6. CASE \E t \in Tracks : EndOfStreamDone(t)
  BY <1>6 DEF EndOfStreamDone, LeaveBuffering, LeaveBuffering
<1>7. CASE Monitor
  BY <1>7 DEF Monitor
<1>8. CASE \E t \in Tracks \cup {"monitor"} : StopBuffering(t)
  BY <1>8 DEF StopBuffering, Leave, EndSteps
<1>9. CASE \E t \in Tracks \cup {"monitor"} : StopBufferingPlay(t)
  BY <1>9 DEF StopBufferingPlay, Leave, EndSteps, SetPause, CanTake, LeaveBuffering
<1>10. CASE Decode
  BY <1>10 DEF Decode
<1>11. CASE NeedData
  BY <1>11 DEF NeedData
<1>12. CASE AsyncDone
  BY <1>12 DEF AsyncDone
<1>13. CASE Render
  BY <1>13 DEF Render
<1>14. CASE FirstFrame
  BY <1>14 DEF FirstFrame
<1>15. CASE Underflow
  BY <1>15 DEF Underflow
<1>16. CASE UnderflowStarts
  BY <1>16 DEF UnderflowStarts
<1>17. CASE UnderflowPauses
  BY <1>17 DEF UnderflowPauses, NotPaused, SetPause, LeaveBuffering
<1>18. CASE PrebufferTick
  BY <1>18 DEF PrebufferTick, LoopRuns
<1>19. CASE BusEos
  BY <1>19 DEF BusEos, LoopRuns, NotifyEOS
<1>20. CASE PtsCheck
  BY <1>20 DEF PtsCheck, LoopRuns, NotifyEOS
<1>21. CASE EosTask
  BY <1>21
<1>22. CASE FrameTask
  BY <1>22 DEF FrameTask, Run, LoopFree, LoopRuns
<1>23. CASE DisplayedTask
  BY <1>23
<1>24. CASE PauseCall
  BY <1>24 DEF PauseCall, Call, LoopFree, LoopRuns, SetPause
<1>25. CASE PlayCall
  BY <1>25 DEF PlayCall, Call, LoopFree, LoopRuns, SetPause, StartCaching, NotPaused,
       CachingRequired
<1>26. CASE SeekCall
  BY <1>26
<1>27. CASE StopSink
  BY <1>27
<1>28. CASE ConfigureSink
  BY <1>28
<1>29. CASE UNCHANGED vars
  BY <1>29 DEF vars, user
<1>. QED
  BY <1>1, <1>2, <1>3, <1>4, <1>5, <1>6, <1>7, <1>8, <1>9, <1>10, <1>11, <1>12,
     <1>13, <1>14, <1>15, <1>16, <1>17, <1>18, <1>19, <1>20, <1>21, <1>22, <1>23, <1>24,
     <1>25, <1>26, <1>27, <1>28, <1>29
     DEF Next, Injectors, Buffering, Pipeline, MainLoop

(* The next task is one of the queue.                                      *)
LEMMA HeadQueued == ASSUME TaskCount, tasks # <<>> PROVE Queued(Head(tasks))
<1>1. Len(tasks) \in Nat \ {0} /\ Head(tasks) = tasks[1]
  BY DEF TaskCount
<1>. QED  BY <1>1 DEF Queued

(* The display of a first frame comes into the queue with the frame.       *)
LEMMA DisplayedQueued ==
    ASSUME TaskOrder, TaskCount, EndFlags, [Next]_vars, ~FirstFrame
    PROVE  Queued("displayed")' => Queued("displayed")
<1>1. CASE UNCHANGED tasks
  BY <1>1 DEF Queued
<1>2. CASE NotifyEOS /\ shown' = shown
  BY <1>2, EndTaskOrder DEF TaskOrder
<1>3. CASE tasks # <<>> /\ tasks' = Tail(tasks) /\ UNCHANGED <<shown, eosSignalled>>
  BY <1>3, RunTaskOrder DEF TaskOrder
<1>4. CASE tasks' = <<>>
  BY <1>4, NoTaskOrder
<1>. QED  BY <1>1, <1>2, <1>3, <1>4, TasksChange

(* The timer is stopped by the pause, or by the display of the first frame.*)
LEMMA PausedTargetStep ==
    ASSUME TypeInv, PauseInv, [Next]_vars
    PROVE  PausedTarget'
<1>. USE DEF TypeInv, PauseInv
<1>. SUFFICES ASSUME Tempted', ~pauseOnFrame' PROVE EndWithoutData'
  BY DEF PausedTarget
<1>1. ~ConfigureSink
  BY DEF ConfigureSink, Tempted
<1>2. ~StopSink /\ ~SeekCall
  BY DEF StopSink, SeekCall, Tempted
<1>3. Tempted
  BY <1>1, TemptedStep
<1>4. Bogus => Bogus'
  BY <1>1, <1>2, BogusStays
<1>5. CASE DisplayedTask
  <2>1. Queued("displayed") /\ eosSent' = eosSent
    BY <1>5, HeadQueued DEF DisplayedTask, Run, ends
  <2>2. CASE ~pauseOnFrame
    BY <1>3, <1>4, <2>1, <2>2 DEF PausedTarget, EndWithoutData, Bogus
  <2>3. CASE pauseOnFrame /\ state = "seeking"
    BY <1>5, <2>3 DEF DisplayedTask, SetPause, Tempted, Awaits
  <2>4. CASE pauseOnFrame /\ state # "seeking"
    BY <1>3, <1>4, <2>1, <2>4 DEF FrameTarget, EndWithoutData, Bogus
  <2>. QED  BY <2>2, <2>3, <2>4
<1>6. CASE EosTask
  <2>1. pauseOnFrame' = pauseOnFrame /\ (eosSent => eosSent')
    BY <1>6 DEF EosTask, frame
  <2>. QED  BY <1>3, <1>4, <2>1 DEF PausedTarget, EndWithoutData, Bogus
<1>7. CASE ~DisplayedTask /\ ~EosTask
  <2>1. UNCHANGED <<pauseOnFrame, eosSent>>
    BY <1>1, <1>2, <1>3, <1>7, PauseKeepers DEF Tempted
  <2>. QED  BY <1>3, <1>4, <2>1 DEF PausedTarget, EndWithoutData, Bogus
<1>. QED  BY <1>5, <1>6, <1>7

(* An end that was sent is after the display of the frame, or bogus.       *)
LEMMA FrameTargetStep ==
    ASSUME TypeInv, PauseInv, [Next]_vars
    PROVE  FrameTarget'
<1>. USE DEF TypeInv, PauseInv
<1>. SUFFICES ASSUME Tempted', pauseOnFrame', state' # "seeking"
              PROVE  eosSent' /\ (Bogus \/ ~Queued("displayed"))'
  BY DEF FrameTarget
<1>1. ~ConfigureSink
  BY DEF ConfigureSink, Seeks, player
<1>2. ~StopSink /\ ~SeekCall /\ ~DisplayedTask
  BY DEF StopSink, SeekCall, DisplayedTask, Tempted, FrameFlags
<1>3. Tempted
  BY <1>1, TemptedStep
<1>4. Bogus => Bogus'
  BY <1>1, <1>2, BogusStays
<1>5. CASE EosTask
  <2>1. pauseOnFrame /\ (eosSent' \/ UNCHANGED <<state, eosSent>>)
    BY <1>5 DEF EosTask, frame
  <2>2. eosSent'
    BY <1>3, <2>1 DEF FrameTarget
  <2>3. Bogus \/ ~Queued("displayed")'
    BY <1>5, RunTaskOrder DEF EosTask, Run, TaskOrder
  <2>. QED  BY <1>4, <2>2, <2>3
<1>6. CASE ~EosTask
  <2>1. /\ UNCHANGED <<pauseOnFrame, eosSent>>
        /\ frameAwaited /\ state = "seeking" => state' = "seeking"
    BY <1>1, <1>2, <1>3, <1>6, PauseKeepers DEF Tempted
  <2>2. eosSent /\ (Bogus \/ ~Queued("displayed"))
    BY <1>3, <2>1 DEF FrameTarget, Awaits
  <2>3. CASE FirstFrame
    BY <1>4, <2>1, <2>2, <2>3 DEF FirstFrame, EndBeforeFrame, Awaits, Counts
  <2>4. CASE ~FirstFrame
    BY <1>4, <2>1, <2>2, <2>4, DisplayedQueued
  <2>. QED  BY <2>3, <2>4
<1>. QED  BY <1>5, <1>6

(* At first nothing was pushed, signalled or asked for.                    *)
LEMMA PauseInit == Init => PauseInv
<1>. SUFFICES ASSUME Init PROVE PauseInv
  OBVIOUS
<1>1. VideoEnds /\ EndBeforeFrame
  BY DEF Init, VideoEnds, EndBeforeFrame
<1>2. TaskOrder
  BY DEF Init, TaskOrder, TaskMarks, Behind, Queued
<1>3. Seeks /\ Stops /\ Awaits
  BY DEF Init, Seeks, Stops, Awaits
<1>4. PausedTarget /\ FrameTarget
  BY DEF Init, PausedTarget, FrameTarget, Tempted
<1>. QED  BY <1>1, <1>2, <1>3, <1>4 DEF PauseInv

(* Every step keeps what a pause rests on.                                 *)
LEMMA PauseStep ==
    ASSUME IInv, [Next]_vars
    PROVE  PauseInv'
<1>. USE DEF TypeInv, PauseInv, IInv
<1>1. VideoEnds' /\ EndBeforeFrame'
  BY VideoEndsStep, EndBeforeFrameStep
<1>2. TaskOrder' /\ Seeks' /\ Stops'
  BY TaskOrderStep, SeeksStep, StopsStep
<1>3. Awaits'
  BY AwaitsStep DEF TaskOrder
<1>4. PausedTarget' /\ FrameTarget'
  BY PausedTargetStep, FrameTargetStep
<1>. QED  BY <1>1, <1>2, <1>3, <1>4

-----------------------------------------------------------------------------
(* Every variable has its type: the injector never puts more into the      *)
(* source than "enough-data" lets it, and no more than three idle tasks    *)
(* (first frame, its display, end of stream) wait on the main loop.        *)
THEOREM SinkTypeCorrect == Spec => []TypeOK
<1>1. Spec => []TypeInv
  BY TypeInit, TypeStep, PTL DEF Spec
<1>. QED  BY <1>1, TypesImplied, PTL

(* A step from a state of the invariant does not end a pause of the user.  *)
LEMMA StepKeepsPause ==
    ASSUME IInv, [Next]_vars, asked = "pause", asked' = "pause", pipe = "PAUSED",
           ~pauseOnFrame, ~pendingPlay, ~underflow, ~EndWithoutData
    PROVE  pipe' # "PLAYING"
<1>. USE DEF gst, prebuf, play, ends, loop, player, frame, blocked, collector,
    locks, user
<1>0. /\ seeking # "configure" /\ (seeking = "no" => target # "PLAYING")
      /\ \A t \in Threads : pc[t] \notin {"play", "endPlay"}
  BY DEF IInv, PauseInv, Stops, Seeks, PausedTarget, Tempted
<1>1. CASE Fetch
  BY <1>0, <1>1 DEF Fetch
<1>2. CASE CachingComplete
  BY <1>0, <1>2 DEF CachingComplete, PlayIfPending, LeaveBuffering
<1>3. CASE SendVideo
  BY <1>0, <1>3 DEF SendVideo, PlayIfPending, LeaveBuffering, Injecting, CachingRequired
<1>4. CASE SendAudio
  BY <1>0, <1>4 DEF SendAudio, Injecting
<1>5. CASE \E t \in Tracks : EndOfStream(t)
  BY <1>0, <1>5 DEF EndOfStream, Injecting, Ended, NotifyEOS, PlayIfPending
<1>6. CASE \E t \in Tracks : EndOfStreamDone(t)
  BY <1>0, <1>6 DEF EndOfStreamDone, LeaveBuffering
<1>7. CASE Monitor
  BY <1>0, <1>7 DEF Monitor
<1>8. CASE \E t \in Tracks \cup {"monitor"} : StopBuffering(t)
  BY <1>0, <1>8 DEF StopBuffering, Leave, EndSteps
<1>9. CASE \E t \in Tracks \cup {"monitor"} : StopBufferingPlay(t)
  BY <1>0, <1>9 DEF StopBufferingPlay, Threads, Tracks
<1>10. CASE Decode
  BY <1>0, <1>10 DEF Decode
<1>11. CASE NeedData
  BY <1>0, <1>11 DEF NeedData
<1>12. CASE AsyncDone
  BY <1>0, <1>12 DEF AsyncDone
<1>13. CASE Render
  BY <1>0, <1>13 DEF Render
<1>14. CASE FirstFrame
  BY <1>0, <1>14 DEF FirstFrame
<1>15. CASE Underflow
  BY <1>0, <1>15 DEF Underflow
<1>16. CASE UnderflowStarts
  BY <1>0, <1>16 DEF UnderflowStarts
<1>17. CASE UnderflowPauses
  BY <1>0, <1>17 DEF UnderflowPauses, NotPaused, SetPause
<1>18. CASE PrebufferTick
  BY <1>0, <1>18 DEF PrebufferTick, LoopRuns
<1>19. CASE BusEos
  BY <1>0, <1>19 DEF BusEos, LoopRuns, NotifyEOS
<1>20. CASE PtsCheck
  BY <1>0, <1>20 DEF PtsCheck, LoopRuns, NotifyEOS
<1>21. CASE EosTask
  BY <1>0, <1>21 DEF EosTask, Run, LoopFree, LoopRuns
<1>22. CASE FrameTask
  BY <1>0, <1>22 DEF FrameTask, Run, LoopFree, LoopRuns
<1>23. CASE DisplayedTask
  BY <1>0, <1>23 DEF DisplayedTask, Run, LoopFree, LoopRuns, NotPaused, SetPause,
       StartCaching
<1>24. CASE PauseCall
  BY <1>0, <1>24 DEF PauseCall, Call, LoopFree, LoopRuns, SetPause
<1>25. CASE PlayCall
  BY <1>0, <1>25 DEF PlayCall, Call, LoopFree, LoopRuns, SetPause, StartCaching,
       NotPaused, CachingRequired
<1>26. CASE SeekCall
  BY <1>0, <1>26 DEF SeekCall, Call, LoopFree, LoopRuns
<1>27. CASE StopSink
  BY <1>0, <1>27 DEF StopSink
<1>28. CASE ConfigureSink
  BY <1>0, <1>28 DEF ConfigureSink, Configured
<1>29. CASE UNCHANGED vars
  BY <1>0, <1>29 DEF vars, user
<1>. QED
  BY <1>1, <1>2, <1>3, <1>4, <1>5, <1>6, <1>7, <1>8, <1>9, <1>10, <1>11, <1>12,
     <1>13, <1>14, <1>15, <1>16, <1>17, <1>18, <1>19, <1>20, <1>21, <1>22, <1>23, <1>24,
     <1>25, <1>26, <1>27, <1>28, <1>29
     DEF Next, Injectors, Buffering, Pipeline, MainLoop

(* What the user paused stays paused until the user plays or seeks, of any *)
(* stream: the timer of the buffering before play ends it in the pause     *)
(* (Pause sets buffering_target_state), and a seek in pause is paused by   *)
(* the display of its frame.  Only a pending play, a buffering announced   *)
(* for an underflow, or an end reported of a track without data break it.  *)
THEOREM PauseIsKept == Spec => PauseKept
<1>1. Init => IInv
  BY TypeInit, PauseInit DEF IInv
<1>2. IInv /\ [Next]_vars => IInv'
  BY TypeStep, PauseStep DEF IInv
<1>3. IInv /\ [Next]_vars =>
        [asked = "pause" /\ asked' = "pause" /\ pipe = "PAUSED" /\ ~pauseOnFrame
         /\ ~pendingPlay /\ ~underflow /\ ~EndWithoutData
            => pipe' # "PLAYING"]_vars
  BY StepKeepsPause
<1>4. IInv => TypeOK
  BY TypesImplied DEF IInv
<1>. QED  BY <1>1, <1>2, <1>3, <1>4, PTL DEF Spec, PauseKept
=============================================================================
