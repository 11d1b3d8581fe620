------------------------------- MODULE AVSync -------------------------------
(* Keeping the audio and the video track of a stream together: the injector  *)
(* threads of both tracks pace each other (WaitForVideoTrackCatchup) and meet *)
(* at a discontinuity (ProcessDiscontinuity), the buffer monitors unblock a   *)
(* track whose discontinuity has no counterpart, and the player, once the    *)
(* sink has drained both tracks, flushes it and starts them again            *)
(* (ProcessPendingDiscontinuity). Downloads are assumed to keep the rings    *)
(* full, which MediaTrack models.                                            *)
EXTENDS Naturals, Sequences, FiniteSets

Tracks == {"video", "audio"}

CONSTANTS
    Streams,        \* the streams to play, each with the configuration it
                    \* is played with
    Capacity,       \* maxCachedFragmentsPerTrack
    AbortAllFirst   \* Stop aborts all tracks, then joins (MPD), or each in turn

ASSUME StreamsAssumption ==
    \A s \in Streams : /\ s.playlist \in [Tracks -> Seq(BOOLEAN)]
                      /\ s.useRetune \in BOOLEAN
                      /\ s.appStops \in BOOLEAN    \* may the application stop it?
ASSUME SyncAssumption ==
    /\ Capacity \in Nat \ {0}
    /\ AbortAllFirst \in BOOLEAN

VARIABLES
    stream,         \* one of Streams
    \* the injector threads
    injectPc, nextFragment, flagged, totalInjectedDuration,
    keepInjecting, discontinuityProcessed, injectionAborted,
    \* shared by them: the state both wait for, and a copy read outside its lock
    mTrackState, copyOfTrackState,
    \* the sink
    resetPosition, sourceEos, eosMessage,
    \* the player
    controlPc, mProcessingDiscontinuity, mDiscontinuityTuneOperationId, reTune,
    mDownloadsEnabled

injectors == <<injectPc, nextFragment, flagged, totalInjectedDuration,
               keepInjecting, discontinuityProcessed, injectionAborted>>
state == <<mTrackState, copyOfTrackState>>
sink == <<resetPosition, sourceEos, eosMessage>>
player == <<controlPc, mProcessingDiscontinuity, mDiscontinuityTuneOperationId,
            reTune, mDownloadsEnabled>>
vars == <<injectors, state, sink, player>>

\* Per track, is each fragment tagged EXT-X-DISCONTINUITY?
Playlist == stream.playlist
mUseRetuneForUnpairedDiscontinuity == stream.useRetune

InjectPcs == {"off", "loop", "discontinuity", "discWait", "discWoken",
              "signalEos", "markPending", "readState", "writeState",
              "signalOther", "inject", "catchup", "catchWait", "done"}
ControlPcs == {"idle", "abortVideo", "joinVideo", "abortAudio", "joinAudio",
               "flush", "startAudio", "clear", "stopVideo", "stopJoinVideo",
               "stopAudio", "stopJoinAudio", "stopped", "complete"}

Other(t) == CHOOSE u \in Tracks : u # t

\* The fragments of t that the ring holds, all that is left when it is short.
Cached(t) ==
    {i \in nextFragment[t] .. Len(Playlist[t]) : i < nextFragment[t] + Capacity}
\* IsAtEndOfTrack: eosReached is set when the last fragment was fetched.
IsAtEndOfTrack(t) == Len(Playlist[t]) < nextFragment[t] + Capacity
IsDiscontinuityProcessPending == \E t \in Tracks : mProcessingDiscontinuity[t]

Init ==
    /\ stream \in Streams
    /\ injectPc = [t \in Tracks |-> "loop"]
    /\ nextFragment = [t \in Tracks |-> 1]
    /\ flagged = [t \in Tracks |->
                     {i \in 1 .. Len(Playlist[t]) : Playlist[t][i]}]
    /\ totalInjectedDuration = [t \in Tracks |-> 0]
    /\ keepInjecting = [t \in Tracks |-> TRUE]
    /\ discontinuityProcessed = [t \in Tracks |-> FALSE]
    /\ injectionAborted = [t \in Tracks |-> FALSE]
    /\ mTrackState = {} /\ copyOfTrackState = [t \in Tracks |-> {}]
    /\ resetPosition = [t \in Tracks |-> TRUE]
    /\ sourceEos = [t \in Tracks |-> FALSE]
    /\ eosMessage = FALSE
    /\ controlPc = "idle"
    /\ mProcessingDiscontinuity = [t \in Tracks |-> FALSE]
    /\ mDiscontinuityTuneOperationId = FALSE
    /\ reTune = FALSE
    /\ mDownloadsEnabled = TRUE

\* pthread_cond_signal(&mStateCond): one waiting injector, if there is any.
SignalStateCond(pc) ==
    LET waiting == {t \in Tracks : pc[t] = "discWait"}
    IN  IF waiting = {} THEN {pc}
        ELSE {[pc EXCEPT ![t] = "discWoken"] : t \in waiting}

\* pthread_cond_signal(&mCond): only the audio injector waits for it, and a
\* signalled wait ends without a second look at the durations.
SignalCatchup(pc) ==
    IF pc["audio"] = "catchWait" THEN [pc EXCEPT !["audio"] = "loop"] ELSE pc

Goto(t, pc) == injectPc' = [injectPc EXCEPT ![t] = pc]

-----------------------------------------------------------------------------
(* RunInjectLoop and InjectFragment.                                         *)

\* The loop ends: abortInject tells the other track that this one is gone.
InjectLoopEnds(t) ==
    /\ injectPc[t] = "loop" /\ (~mDownloadsEnabled \/ ~keepInjecting[t])
    /\ injectionAborted' = [injectionAborted EXCEPT ![t] = TRUE]
    /\ Goto(t, "done")
    /\ UNCHANGED <<nextFragment, flagged, totalInjectedDuration,
                   keepInjecting, discontinuityProcessed, state, sink, player>>

\* No fragment: the wait was aborted, or the track is at its end and its source
\* gets EOS.
NoFragment(t) ==
    /\ injectPc[t] = "loop" /\ mDownloadsEnabled /\ keepInjecting[t]
    /\ injectionAborted[t] \/ Cached(t) = {}
    /\ keepInjecting' = [keepInjecting EXCEPT ![t] = FALSE]
    /\ sourceEos' = [sourceEos EXCEPT ![t] = @ \/ IsAtEndOfTrack(t)]
    /\ eosMessage' = (eosMessage \/ (sourceEos' # sourceEos /\ sourceEos[Other(t)]))
    /\ Goto(t, "catchup")
    /\ UNCHANGED <<nextFragment, flagged, totalInjectedDuration,
                   discontinuityProcessed, injectionAborted, state,
                   resetPosition, player>>

\* The flag in the slot is cleared before the discontinuity is processed; it is
\* ignored when this thread has not injected anything yet.
TakeFragment(t) ==
    /\ injectPc[t] = "loop" /\ mDownloadsEnabled /\ keepInjecting[t]
    /\ ~injectionAborted[t] /\ Cached(t) # {}
    /\ flagged' = [flagged EXCEPT ![t] = @ \ {nextFragment[t]}]
    /\ Goto(t, IF nextFragment[t] \in flagged[t] /\ totalInjectedDuration[t] # 0
               THEN "discontinuity" ELSE "inject")
    /\ UNCHANGED <<nextFragment, totalInjectedDuration, keepInjecting,
                   discontinuityProcessed, injectionAborted, state, sink, player>>

\* InjectFragmentInternal; a fragment processor may hold the data back, so that
\* the sink has still not seen a first buffer.
InjectFragment(t) ==
    /\ injectPc[t] = "inject"
    /\ nextFragment' = [nextFragment EXCEPT ![t] = @ + 1]
    /\ totalInjectedDuration' = [totalInjectedDuration EXCEPT ![t] = @ + 1]
    /\ \E held \in BOOLEAN :
         resetPosition' = [resetPosition EXCEPT ![t] = @ /\ held]
    /\ Goto(t, "catchup")
    /\ UNCHANGED <<flagged, keepInjecting, discontinuityProcessed,
                   injectionAborted, state, sourceEos, eosMessage, player>>

\* ReassessAndResumeAudioTrack, by the video injector after every fragment.
ReassessAndResumeAudioTrack ==
    /\ injectPc["video"] = "catchup"
    /\ LET resume == \/ totalInjectedDuration["audio"]
                          < totalInjectedDuration["video"] + 2
                     \/ ~mDownloadsEnabled
                     \/ discontinuityProcessed["video"]
                     \/ IsAtEndOfTrack("video")
           pc == IF resume THEN SignalCatchup(injectPc) ELSE injectPc
       IN  injectPc' = [pc EXCEPT !["video"] = "loop"]
    /\ UNCHANGED <<nextFragment, flagged, totalInjectedDuration,
                   keepInjecting, discontinuityProcessed, injectionAborted,
                   state, sink, player>>

\* Why the audio injector would not wait, whatever the durations.
MayWaitForVideo ==
    /\ mDownloadsEnabled /\ ~discontinuityProcessed["audio"]
    /\ ~injectionAborted["video"] /\ ~IsAtEndOfTrack("video")

\* Fault: audio may get a fragment further ahead.
CatchupTooLate ==
    /\ injectPc["audio"] = "catchup"
    /\ Goto("audio",
            IF MayWaitForVideo /\ totalInjectedDuration["audio"]
                                    > totalInjectedDuration["video"] + 2
            THEN "catchWait" ELSE "loop")
    /\ UNCHANGED <<nextFragment, flagged, totalInjectedDuration,
                   keepInjecting, discontinuityProcessed, injectionAborted,
                   state, sink, player>>

WaitForVideoTrackCatchup ==
    /\ injectPc["audio"] = "catchup"
    /\ Goto("audio",
            IF MayWaitForVideo /\ totalInjectedDuration["audio"]
                                    > totalInjectedDuration["video"] + 1
            THEN "catchWait" ELSE "loop")
    /\ UNCHANGED <<nextFragment, flagged, totalInjectedDuration,
                   keepInjecting, discontinuityProcessed, injectionAborted,
                   state, sink, player>>

\* Every 100 ms the wait is tried again, with the durations read at its start.
CatchupTimeout ==
    /\ injectPc["audio"] = "catchWait" /\ ~MayWaitForVideo
    /\ Goto("audio", "loop")
    /\ UNCHANGED <<nextFragment, flagged, totalInjectedDuration,
                   keepInjecting, discontinuityProcessed, injectionAborted,
                   state, sink, player>>

-----------------------------------------------------------------------------
(* StreamAbstractionAAMP::ProcessDiscontinuity.                              *)

\* Fault: a track waits without looking whether the other one is there.
AlwaysWaits(t) ==
    /\ injectPc[t] = "discontinuity"
    /\ mTrackState' = mTrackState \cup {t}
    /\ Goto(t, "discWait")
    /\ UNCHANGED <<nextFragment, flagged, totalInjectedDuration, keepInjecting,
                   discontinuityProcessed, injectionAborted, copyOfTrackState,
                   sink, player>>

\* Under mStateLock: the first track to get here waits for the other one,
\* without looking whether it was aborted.
EnterDiscontinuity(t) ==
    /\ injectPc[t] = "discontinuity"
    /\ mTrackState' = mTrackState \cup {t}
    /\ Goto(t, IF mTrackState' = {t} THEN "discWait" ELSE "signalEos")
    /\ UNCHANGED <<nextFragment, flagged, totalInjectedDuration, keepInjecting,
                   discontinuityProcessed, injectionAborted, copyOfTrackState,
                   sink, player>>

\* The result is known: stop at the discontinuity, or go on with the fragment.
StopsInjection(t, stop) ==
    /\ keepInjecting' = [keepInjecting EXCEPT ![t] = ~stop]
    /\ discontinuityProcessed' =
         [discontinuityProcessed EXCEPT ![t] = @ \/ stop]
    /\ Goto(t, IF stop THEN "catchup" ELSE "inject")

\* Woken: by the other track, by an abort (of this track, or for audio of the
\* video track), or by the stall monitor, which has then cleared the bit.
WokenAtDiscontinuity(t) ==
    /\ injectPc[t] = "discWoken"
    /\ LET aborted == \/ injectionAborted[t]
                      \/ t = "audio" /\ injectionAborted["video"]
           ignored == /\ ~mUseRetuneForUnpairedDiscontinuity \/ t = "audio"
                      /\ ~aborted /\ t \notin mTrackState
       IN  IF mTrackState = Tracks \/ (~aborted /\ ~ignored)
           THEN /\ Goto(t, "signalEos")
                /\ UNCHANGED <<keepInjecting, discontinuityProcessed>>
           ELSE StopsInjection(t, ~ignored)
    /\ UNCHANGED <<nextFragment, flagged, totalInjectedDuration,
                   injectionAborted, state, sink, player>>

\* AAMPGstPlayer::Discontinuity: EOS for the source, unless it got no buffer
\* since the last flush, in which case the discontinuity is ignored.
SignalEos(t) ==
    /\ injectPc[t] = "signalEos"
    /\ IF resetPosition[t]
       THEN Goto(t, "readState") /\ UNCHANGED <<sourceEos, eosMessage>>
       ELSE /\ sourceEos' = [sourceEos EXCEPT ![t] = TRUE]
            /\ eosMessage' = (eosMessage \/ sourceEos[Other(t)])
            /\ Goto(t, "markPending")
    /\ UNCHANGED <<nextFragment, flagged, totalInjectedDuration,
                   keepInjecting, discontinuityProcessed, injectionAborted,
                   state, resetPosition, player>>

\* Fault: the track is not marked.
MarkForgotten(t) ==
    /\ injectPc[t] = "markPending" /\ Goto(t, "signalOther")
    /\ UNCHANGED <<nextFragment, flagged, totalInjectedDuration,
                   keepInjecting, discontinuityProcessed, injectionAborted,
                   state, sink, player>>

\* PrivateInstanceAAMP::Discontinuity marks the track after the sink's lock is
\* released.
MarkPending(t) ==
    /\ injectPc[t] = "markPending"
    /\ mProcessingDiscontinuity' = [mProcessingDiscontinuity EXCEPT ![t] = TRUE]
    /\ Goto(t, "signalOther")
    /\ UNCHANGED <<nextFragment, flagged, totalInjectedDuration,
                   keepInjecting, discontinuityProcessed, injectionAborted,
                   state, sink, controlPc, mDiscontinuityTuneOperationId, reTune,
                   mDownloadsEnabled>>

\* An ignored discontinuity takes its bit out of mTrackState, outside the lock:
\* a read, then a write.
ReadTrackState(t) ==
    /\ injectPc[t] = "readState"
    /\ copyOfTrackState' = [copyOfTrackState EXCEPT ![t] = mTrackState]
    /\ Goto(t, "writeState")
    /\ UNCHANGED <<nextFragment, flagged, totalInjectedDuration,
                   keepInjecting, discontinuityProcessed, injectionAborted,
                   mTrackState, sink, player>>

WriteTrackState(t) ==
    /\ injectPc[t] = "writeState"
    /\ mTrackState' = copyOfTrackState[t] \ {t}
    /\ Goto(t, "signalOther")
    /\ UNCHANGED <<nextFragment, flagged, totalInjectedDuration,
                   keepInjecting, discontinuityProcessed, injectionAborted,
                   copyOfTrackState, sink, player>>

SignalOther(t) ==
    /\ injectPc[t] = "signalOther"
    /\ \E pc \in SignalStateCond(injectPc) :
         injectPc' = [pc EXCEPT ![t] = IF sourceEos[t] THEN "catchup" ELSE "inject"]
    /\ keepInjecting' = [keepInjecting EXCEPT ![t] = ~sourceEos[t]]
    /\ discontinuityProcessed' =
         [discontinuityProcessed EXCEPT ![t] = @ \/ sourceEos[t]]
    /\ UNCHANGED <<nextFragment, flagged, totalInjectedDuration,
                   injectionAborted, state, sink, player>>

-----------------------------------------------------------------------------
(* The buffer monitors: CheckForMediaTrackInjectionStall(t) and the stall     *)
(* check of a pending discontinuity.                                         *)

\* t alone waits, and the other track has played on at least as far.
Unpaired(t) ==
    /\ mDownloadsEnabled /\ mTrackState = {t}
    /\ totalInjectedDuration[Other(t)] >= totalInjectedDuration[t]
OtherWillFollow(t) == flagged[Other(t)] \cap Cached(Other(t)) # {}

\* The other track has the discontinuity in its ring: let audio run to it.
StallLetsAudioRun ==
    /\ Unpaired("video") /\ OtherWillFollow("video")
    /\ injectPc["audio"] = "catchWait"
    /\ injectPc' = SignalCatchup(injectPc)
    /\ UNCHANGED <<nextFragment, flagged, totalInjectedDuration,
                   keepInjecting, discontinuityProcessed, injectionAborted,
                   state, sink, player>>

\* The other track has none for more than two fragments.
FarFromAny(t) ==
    /\ Unpaired(t) /\ ~OtherWillFollow(t)
    /\ totalInjectedDuration[Other(t)] - totalInjectedDuration[t]
         + Cardinality(Cached(Other(t))) > 2

StallIgnoresDiscontinuity(t) ==
    /\ FarFromAny(t)
    /\ ~mUseRetuneForUnpairedDiscontinuity \/ t = "audio"
    /\ mTrackState' = mTrackState \ {t}
    /\ injectPc' \in SignalStateCond(injectPc)
    /\ UNCHANGED <<nextFragment, flagged, totalInjectedDuration,
                   keepInjecting, discontinuityProcessed, injectionAborted,
                   copyOfTrackState, sink, player>>

StallSchedulesRetune ==
    /\ FarFromAny("video") /\ mUseRetuneForUnpairedDiscontinuity /\ ~reTune
    /\ reTune' = TRUE
    /\ UNCHANGED <<injectors, state, sink, controlPc, mProcessingDiscontinuity,
                   mDiscontinuityTuneOperationId, mDownloadsEnabled>>

\* CheckForDiscontinuityStall: no new PTS for discontinuityTimeout.
DiscontinuityStall ==
    /\ mDownloadsEnabled /\ IsDiscontinuityProcessPending /\ ~reTune
    /\ mProcessingDiscontinuity' = [t \in Tracks |-> FALSE]
    /\ reTune' = TRUE
    /\ UNCHANGED <<injectors, state, sink, controlPc,
                   mDiscontinuityTuneOperationId, mDownloadsEnabled>>

-----------------------------------------------------------------------------
(* The player. The main loop handles the pipeline's EOS and the idle task    *)
(* that an underflow schedules; Stop is called by the application, or by a   *)
(* retune.                                                                   *)

\* Fault: one track at a discontinuity is enough.
BeginWithOne ==
    controlPc' = IF IsDiscontinuityProcessPending THEN "abortVideo" ELSE "idle"

\* ProcessPendingDiscontinuity wants both tracks to be at a discontinuity.
BeginOrReturn ==
    controlPc' = IF \A t \in Tracks : mProcessingDiscontinuity[t]
                 THEN "abortVideo" ELSE "idle"

\* NotifyEOSReached: a pending discontinuity, the end of the stream, or a bogus
\* EOS that is dropped.
NotifyEOSReached ==
    /\ controlPc = "idle" /\ eosMessage
    /\ eosMessage' = FALSE
    /\ IF IsDiscontinuityProcessPending THEN BeginOrReturn
       ELSE controlPc' = IF \A t \in Tracks : IsAtEndOfTrack(t)
                         THEN "complete" ELSE "idle"
    /\ UNCHANGED <<injectors, state, resetPosition, sourceEos,
                   mProcessingDiscontinuity, mDiscontinuityTuneOperationId,
                   reTune, mDownloadsEnabled>>

\* ScheduleRetune finds a discontinuity pending and no handler spawned.
ScheduleDiscontinuity ==
    /\ IsDiscontinuityProcessPending /\ ~mDiscontinuityTuneOperationId
    /\ controlPc = "idle"
    /\ mDiscontinuityTuneOperationId' = TRUE
    /\ UNCHANGED <<injectors, state, sink, controlPc, mProcessingDiscontinuity,
                   reTune, mDownloadsEnabled>>

ProcessDiscontinuityTask ==
    /\ controlPc = "idle" /\ mDiscontinuityTuneOperationId
    /\ mDiscontinuityTuneOperationId' = FALSE
    /\ BeginOrReturn
    /\ UNCHANGED <<injectors, state, sink, mProcessingDiscontinuity, reTune,
                   mDownloadsEnabled>>

\* Aborting a track: its flag, then one signal for whoever waits at a
\* discontinuity; video comes first and also lets a waiting audio track go.
Abort(tracks, pc) ==
    /\ injectionAborted' =
         [t \in Tracks |-> injectionAborted[t] \/ t \in tracks]
    /\ injectPc' \in SignalStateCond(pc)

\* StopInjection, then the flush of the sink.
AbortTrack(t) ==
    /\ controlPc = IF t = "video" THEN "abortVideo" ELSE "abortAudio"
    /\ Abort({t}, IF t = "video" THEN SignalCatchup(injectPc) ELSE injectPc)
    /\ controlPc' = IF t = "video" THEN "joinVideo" ELSE "joinAudio"
    /\ UNCHANGED <<nextFragment, flagged, totalInjectedDuration, keepInjecting,
                   discontinuityProcessed, state, sink,
                   mProcessingDiscontinuity, mDiscontinuityTuneOperationId,
                   reTune, mDownloadsEnabled>>

Joins == [joinVideo |-> <<"video", "abortAudio">>,
          joinAudio |-> <<"audio", "flush">>,
          stopJoinVideo |-> <<"video", "stopAudio">>,
          stopJoinAudio |-> <<"audio", "stopped">>]

StopInjectLoop ==
    /\ controlPc \in DOMAIN Joins
    /\ LET t == Joins[controlPc][1]
       IN  injectPc[t] \in {"off", "done"} /\ Goto(t, "off")
    /\ controlPc' = Joins[controlPc][2]
    /\ UNCHANGED <<nextFragment, flagged, totalInjectedDuration, keepInjecting,
                   discontinuityProcessed, injectionAborted, state, sink,
                   mProcessingDiscontinuity, mDiscontinuityTuneOperationId,
                   reTune, mDownloadsEnabled>>

\* StartInjectLoop of one track.
Start(t) ==
    /\ Goto(t, "loop")
    /\ injectionAborted' = [injectionAborted EXCEPT ![t] = FALSE]
    /\ discontinuityProcessed' = [discontinuityProcessed EXCEPT ![t] = FALSE]
    /\ totalInjectedDuration' = [totalInjectedDuration EXCEPT ![t] = 0]
    /\ keepInjecting' = [keepInjecting EXCEPT ![t] = TRUE]

\* The sink is flushed, and StartInjection starts video with a fresh state.
FlushAndStart ==
    /\ controlPc = "flush"
    /\ resetPosition' = [t \in Tracks |-> TRUE]
    /\ sourceEos' = [t \in Tracks |-> FALSE]
    /\ eosMessage' = FALSE
    /\ mTrackState' = {}
    /\ Start("video")
    /\ controlPc' = "startAudio"
    /\ UNCHANGED <<nextFragment, flagged, copyOfTrackState,
                   mProcessingDiscontinuity, mDiscontinuityTuneOperationId,
                   reTune, mDownloadsEnabled>>

StartAudio ==
    /\ controlPc = "startAudio"
    /\ Start("audio")
    /\ controlPc' = "clear"
    /\ UNCHANGED <<nextFragment, flagged, state, sink, mProcessingDiscontinuity,
                   mDiscontinuityTuneOperationId, reTune, mDownloadsEnabled>>

\* The discontinuity is done, after the injectors run again.
ClearPending ==
    /\ controlPc = "clear"
    /\ mProcessingDiscontinuity' = [t \in Tracks |-> FALSE]
    /\ controlPc' = "idle"
    /\ UNCHANGED <<injectors, state, sink, mDiscontinuityTuneOperationId, reTune,
                   mDownloadsEnabled>>

\* StreamAbstractionAAMP::Stop: downloads off, audio is let go, then the tracks
\* are aborted and joined.
Stop ==
    /\ controlPc = "idle" /\ (stream.appStops \/ reTune)
    /\ mDownloadsEnabled' = FALSE
    /\ injectPc' = SignalCatchup(injectPc)
    /\ controlPc' = "stopVideo"
    /\ UNCHANGED <<nextFragment, flagged, totalInjectedDuration, keepInjecting,
                   discontinuityProcessed, injectionAborted, state, sink,
                   mProcessingDiscontinuity, mDiscontinuityTuneOperationId,
                   reTune>>

StopTrack ==
    /\ \/ /\ controlPc = "stopVideo" /\ controlPc' = "stopJoinVideo"
          /\ Abort(IF AbortAllFirst THEN Tracks ELSE {"video"}, injectPc)
       \/ /\ controlPc = "stopAudio" /\ controlPc' = "stopJoinAudio"
          /\ Abort({"audio"}, injectPc)
    /\ UNCHANGED <<nextFragment, flagged, totalInjectedDuration, keepInjecting,
                   discontinuityProcessed, state, sink,
                   mProcessingDiscontinuity, mDiscontinuityTuneOperationId,
                   reTune, mDownloadsEnabled>>

-----------------------------------------------------------------------------

Injector(t) ==
    \/ InjectLoopEnds(t) \/ NoFragment(t) \/ TakeFragment(t) \/ InjectFragment(t)
    \/ EnterDiscontinuity(t) \/ WokenAtDiscontinuity(t)
    \/ SignalEos(t) \/ MarkPending(t)
    \/ ReadTrackState(t) \/ WriteTrackState(t) \/ SignalOther(t)
VideoInjector == Injector("video") \/ ReassessAndResumeAudioTrack
AudioInjector ==
    Injector("audio") \/ WaitForVideoTrackCatchup \/ CatchupTimeout
BufferMonitor ==
    \/ StallLetsAudioRun \/ StallSchedulesRetune
    \/ \E t \in Tracks : StallIgnoresDiscontinuity(t)
MainLoop ==
    \/ NotifyEOSReached \/ ProcessDiscontinuityTask
    \/ \E t \in Tracks : AbortTrack(t)
    \/ StopInjectLoop \/ FlushAndStart \/ StartAudio \/ ClearPending \/ StopTrack
Retune == reTune /\ Stop

Next == /\ \/ VideoInjector \/ AudioInjector \/ BufferMonitor
           \/ DiscontinuityStall \/ MainLoop \/ ScheduleDiscontinuity \/ Stop
        /\ UNCHANGED stream

\* Threads run, the monitors run at their interval, the main loop handles its
\* messages, and a pending discontinuity at which the sink has come to a stop
\* is noticed in the end.
Fairness == /\ WF_vars(VideoInjector) /\ WF_vars(AudioInjector)
            /\ WF_vars(BufferMonitor) /\ WF_vars(DiscontinuityStall)
            /\ WF_vars(MainLoop) /\ WF_vars(Retune)

Spec == Init /\ [][Next]_<<vars, stream>>
FairSpec == Spec /\ Fairness

-----------------------------------------------------------------------------
(* Properties.                                                               *)

\* Every variable keeps to the values the code can give it.
TypeOK ==
    /\ injectPc \in [Tracks -> InjectPcs] /\ controlPc \in ControlPcs
    /\ \A t \in Tracks :
         /\ nextFragment[t] \in 1 .. Len(Playlist[t]) + 1
         /\ flagged[t] \subseteq 1 .. Len(Playlist[t])
         /\ totalInjectedDuration[t] \in 0 .. nextFragment[t] - 1
    /\ {keepInjecting, discontinuityProcessed, injectionAborted, resetPosition,
        sourceEos, mProcessingDiscontinuity} \subseteq [Tracks -> BOOLEAN]
    /\ mTrackState \subseteq Tracks
    /\ copyOfTrackState \in [Tracks -> SUBSET Tracks]
    /\ {eosMessage, reTune, mDiscontinuityTuneOperationId, mDownloadsEnabled}
          \subseteq BOOLEAN

\* The two injectors never wait for each other at a discontinuity.
NeverBothWaiting == TypeOK /\ ~ \A t \in Tracks : injectPc[t] = "discWait"

\* The sink is flushed between two periods only, when each track stands at a
\* fragment that the playlist tags with a discontinuity; and until then a source
\* that got EOS gets no more buffers.
FlushedAtDiscontinuity ==
    [][/\ controlPc = "flush" /\ controlPc' # "flush" =>
            \A t \in Tracks : /\ nextFragment[t] <= Len(Playlist[t])
                              /\ Playlist[t][nextFragment[t]]
       /\ \A t \in Tracks : sourceEos[t] => nextFragment'[t] = nextFragment[t]]_vars

\* Up to the first discontinuity, audio gets its next fragment only when it is
\* at most one ahead of video, so that the sink does not fill up with audio and
\* starve: WaitForVideoTrackCatchup paces the two threads.
AudioLeadBounded ==
    (/\ injectPc["audio"] = "inject" /\ MayWaitForVideo
     /\ \A t \in Tracks : \A i \in 1 .. Len(Playlist[t]) :
          Playlist[t][i] => i \in flagged[t])
        => totalInjectedDuration["audio"] <= totalInjectedDuration["video"] + 1

\* While the stream plays, an injector that waits at a discontinuity gets on:
\* the other track arrives, or the monitor finds that it has no such
\* discontinuity. Near the end of the other track there may not be enough of
\* it left for the monitor to notice (streamabstraction.cpp:2294). And when both
\* sources got EOS before the end of the stream, the sink is flushed or the
\* stream is tuned again: playback does not stop there.
DiscontinuityEnds ==
    /\ \A t \in Tracks :
          injectPc[t] = "discWait" ~>
              \/ injectPc[t] # "discWait"
              \/ ~mDownloadsEnabled \/ IsAtEndOfTrack(Other(t))
    /\ (\A t \in Tracks : sourceEos[t] /\ ~IsAtEndOfTrack(t))
          ~> (\A t \in Tracks : ~sourceEos[t]) \/ ~mDownloadsEnabled
=============================================================================
