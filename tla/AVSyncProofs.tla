----------------------------- MODULE AVSyncProofs -----------------------------
(* The meeting of the audio and the video injector at a discontinuity, for    *)
(* every stream, every playlist and every size of the ring.                  *)
EXTENDS AVSync, TLAPS

-----------------------------------------------------------------------------
(* The inductive invariant.                                                  *)

\* What TypeOK says of single tracks, of the functions.
TrackInv ==
    /\ stream \in Streams
    /\ nextFragment \in [Tracks -> Nat] /\ totalInjectedDuration \in [Tracks -> Nat]
    /\ flagged \in [Tracks -> SUBSET Nat]

\* The fragment that track t has to inject next carries a discontinuity tag.
AtTagged(t) ==
    nextFragment[t] \in 1 .. Len(Playlist[t]) /\ Playlist[t][nextFragment[t]]

\* Where an injector has taken a fragment, and where it processes the
\* discontinuity of that fragment.
Discontinuing == {"discontinuity", "discWait", "discWoken", "signalEos",
                  "markPending", "readState", "writeState", "signalOther"}

\* A fragment taken is one the playlist has, and only a tagged one is processed
\* as a discontinuity.
FragmentInv ==
    \A t \in Tracks :
        /\ \A i \in flagged[t] : Playlist[t][i]
        /\ injectPc[t] = "inject" => nextFragment[t] <= Len(Playlist[t])
        /\ injectPc[t] \in Discontinuing => AtTagged(t)

\* An injector that is being restarted does not run.
RestartInv ==
    /\ controlPc \in {"abortAudio", "joinAudio", "flush"} => injectPc["video"] = "off"
    /\ controlPc \in {"flush", "startAudio"} => injectPc["audio"] = "off"

\* The bit of an injector that waits is set, unless a stale copy has just been
\* written over it by the other one, which is then about to signal.
WaitInv ==
    /\ \A t \in Tracks : injectPc[t] = "discWait" =>
         t \in mTrackState \/ injectPc[Other(t)] = "signalOther"
    /\ ~ \A t \in Tracks : injectPc[t] = "discWait"

\* A source that got EOS has an injector that has injected its last fragment.
EosInv ==
    \A t \in Tracks :
        /\ injectPc[t] = "markPending" => sourceEos[t]
        /\ sourceEos[t] =>
             /\ injectPc[t] \in {"markPending", "signalOther", "catchup",
                                 "catchWait", "loop", "done", "off"}
             /\ injectPc[t] \in {"catchup", "catchWait", "loop"} => ~keepInjecting[t]
        /\ controlPc = "startAudio" => ~sourceEos["audio"]

\* A track that is marked pending stands at its discontinuity, its source at EOS;
\* so do both tracks while the player moves the sink to the next period.
PendingInv ==
    /\ \A t \in Tracks :
         mProcessingDiscontinuity[t] /\ controlPc \notin {"startAudio", "clear"}
            => sourceEos[t] /\ AtTagged(t)
    /\ controlPc \in {"abortVideo", "joinVideo", "abortAudio", "joinAudio", "flush"}
         => \A t \in Tracks : sourceEos[t] /\ AtTagged(t)

\* No flag of the playlist was consumed yet.
NoFlagConsumed ==
    \A t \in Tracks : \A i \in 1 .. Len(Playlist[t]) :
        Playlist[t][i] => i \in flagged[t]

\* Until then no track is at a discontinuity and the player moves nothing.
QuietInv ==
    NoFlagConsumed =>
        /\ mTrackState = {}
        /\ controlPc \in {"idle", "complete", "stopVideo", "stopJoinVideo",
                          "stopAudio", "stopJoinAudio", "stopped"}
        /\ \A t \in Tracks : /\ injectPc[t] \notin Discontinuing
                             /\ ~mProcessingDiscontinuity[t]
                             /\ ~discontinuityProcessed[t]

\* And the audio injector passes WaitForVideoTrackCatchup before each fragment.
AudioPaced ==
    /\ injectPc["audio"] \in {"catchup", "catchWait"} =>
         totalInjectedDuration["audio"] <= totalInjectedDuration["video"] + 2
    /\ injectPc["audio"] \in {"loop", "inject"} =>
         totalInjectedDuration["audio"] <= totalInjectedDuration["video"] + 1
LeadInv == NoFlagConsumed /\ MayWaitForVideo => AudioPaced

IInv == /\ TypeOK /\ TrackInv /\ FragmentInv /\ RestartInv /\ WaitInv /\ EosInv
        /\ PendingInv /\ QuietInv /\ LeadInv

-----------------------------------------------------------------------------
(* Signals, and who writes what.                                             *)

\* The other track is the other one.
LEMMA Others ==
    /\ Other("video") = "audio" /\ Other("audio") = "video"
    /\ \A t \in Tracks : Tracks = {t, Other(t)} /\ t # Other(t)
BY DEF Other, Tracks

\* A signal of mStateCond wakes one waiting injector, and moves no other.
LEMMA Signals ==
    ASSUME NEW pc \in [Tracks -> InjectPcs], NEW q \in SignalStateCond(pc)
    PROVE  /\ q \in [Tracks -> InjectPcs]
           /\ \A u \in Tracks : \/ q[u] = pc[u]
                                \/ pc[u] = "discWait" /\ q[u] = "discWoken"
           /\ (\E u \in Tracks : pc[u] = "discWait")
                => \E u \in Tracks : pc[u] = "discWait" /\ q[u] = "discWoken"
BY DEF SignalStateCond, InjectPcs

\* A signal of mCond lets the audio injector go on, if it waits.
LEMMA SignalsCatchup ==
    ASSUME NEW pc \in [Tracks -> InjectPcs]
    PROVE  /\ SignalCatchup(pc) \in [Tracks -> InjectPcs]
           /\ SignalCatchup(pc)["video"] = pc["video"]
           /\ SignalCatchup(pc)["audio"] =
                IF pc["audio"] = "catchWait" THEN "loop" ELSE pc["audio"]
BY DEF SignalCatchup, InjectPcs, Tracks

\* Which steps write a variable: the playlist is fixed, a fragment is injected in
\* one place and its flag is consumed in one place.
LEMMA Writers ==
    ASSUME Next
    PROVE  /\ stream' = stream
           /\ nextFragment' = nextFragment \/ \E t \in Tracks : InjectFragment(t)
           /\ flagged' = flagged \/ \E t \in Tracks : TakeFragment(t)
           /\ \/ totalInjectedDuration' = totalInjectedDuration
              \/ \E t \in Tracks : InjectFragment(t)
              \/ FlushAndStart \/ StartAudio
           /\ mDownloadsEnabled' = mDownloadsEnabled \/ Stop
           /\ \/ injectionAborted' = injectionAborted
              \/ \E t \in Tracks : InjectLoopEnds(t) \/ AbortTrack(t)
              \/ StopTrack \/ FlushAndStart \/ StartAudio
BY DEF Next, VideoInjector, AudioInjector, Injector, BufferMonitor, MainLoop,
      Tracks, InjectFragment, TakeFragment, FlushAndStart, StartAudio,
      InjectLoopEnds, state, sink, player, NoFragment, EnterDiscontinuity,
      WokenAtDiscontinuity, StopsInjection, SignalEos, MarkPending,
      ReadTrackState, WriteTrackState, SignalOther,
      ReassessAndResumeAudioTrack, WaitForVideoTrackCatchup, CatchupTimeout,
      StallLetsAudioRun, StallSchedulesRetune, injectors,
      StallIgnoresDiscontinuity, DiscontinuityStall, NotifyEOSReached,
      BeginOrReturn, ProcessDiscontinuityTask, AbortTrack, Abort,
      StopInjectLoop, ClearPending, StopTrack, ScheduleDiscontinuity, Stop

-----------------------------------------------------------------------------
(* Every step keeps each part of the invariant.                              *)

\* The counters and flags of the tracks stay functions of the tracks.
LEMMA TrackStep == ASSUME TrackInv, Next PROVE TrackInv'
<1>. USE DEF TrackInv
<1>1. nextFragment' \in [Tracks -> Nat]
  BY Writers DEF InjectFragment
<1>2. flagged' \in [Tracks -> SUBSET Nat]
  BY Writers DEF TakeFragment
<1>3. totalInjectedDuration' \in [Tracks -> Nat]
  <2>1. CASE FlushAndStart \/ StartAudio
    BY <2>1 DEF FlushAndStart, StartAudio, Start
  <2>2. CASE \E t \in Tracks : InjectFragment(t)
    BY <2>2 DEF InjectFragment
  <2>. QED  BY <2>1, <2>2, Writers
<1>. QED  BY <1>1, <1>2, <1>3, Writers

\* Every step keeps every variable to its type.
LEMMA TypeStep == ASSUME TypeOK, TrackInv, FragmentInv, Next PROVE TypeOK'
<1>. Playlist' = Playlist /\ Playlist \in [Tracks -> Seq(BOOLEAN)]
  BY StreamsAssumption DEF Next, Playlist, TrackInv
<1>. DEFINE Vals == \A t \in Tracks : /\ nextFragment[t] \in 1 .. Len(Playlist[t]) + 1
         /\ flagged[t] \subseteq 1 .. Len(Playlist[t])
         /\ totalInjectedDuration[t] \in 0 .. nextFragment[t] - 1
<1>. USE DEF TypeOK, TrackInv, Goto
<1>1. ASSUME NEW t \in Tracks, InjectLoopEnds(t) PROVE TypeOK'
  BY <1>1 DEF InjectLoopEnds, state, sink, player, InjectPcs
<1>2. ASSUME NEW t \in Tracks, NoFragment(t) PROVE TypeOK'
  BY <1>2, Others DEF NoFragment, state, player, InjectPcs, Tracks
<1>3. ASSUME NEW t \in Tracks, TakeFragment(t) PROVE TypeOK'
  BY <1>3 DEF TakeFragment, state, sink, player, InjectPcs
<1>4. ASSUME NEW t \in Tracks, InjectFragment(t) PROVE TypeOK'
  <2>1. nextFragment[t] < Len(Playlist[t]) + 1
    BY <1>4, StreamsAssumption DEF InjectFragment, FragmentInv, Playlist
  <2>2. Vals'
    <3>. SUFFICES ASSUME NEW u \in Tracks PROVE Vals!(u)'
      OBVIOUS
    <3>1. Len(Playlist[u]) \in Nat
      OBVIOUS
    <3>2. /\ nextFragment'[u] = IF u = t THEN nextFragment[u] + 1 ELSE nextFragment[u]
          /\ totalInjectedDuration'[u] =
               IF u = t THEN totalInjectedDuration[u] + 1 ELSE totalInjectedDuration[u]
      BY <1>4 DEF InjectFragment
    <3>3. nextFragment'[u] \in 1 .. Len(Playlist[u]) + 1
      BY <2>1, <3>1, <3>2
    <3>4. totalInjectedDuration'[u] \in 0 .. nextFragment'[u] - 1
      BY <3>1, <3>2
    <3>. QED  BY <1>4, <3>3, <3>4 DEF InjectFragment
  <2>3. /\ injectPc' \in [Tracks -> InjectPcs]
        /\ resetPosition' \in [Tracks -> BOOLEAN]
    BY <1>4 DEF InjectFragment, InjectPcs
  <2>. QED  BY <1>4, <2>2, <2>3 DEF InjectFragment, sink, player, state
<1>5. ASSUME NEW t \in Tracks, EnterDiscontinuity(t) PROVE TypeOK'
  BY <1>5 DEF EnterDiscontinuity, sink, player, InjectPcs
<1>6. ASSUME NEW t \in Tracks, WokenAtDiscontinuity(t) PROVE TypeOK'
  <2>1. /\ injectPc' \in [Tracks -> InjectPcs]
        /\ keepInjecting' \in [Tracks -> BOOLEAN]
        /\ discontinuityProcessed' \in [Tracks -> BOOLEAN]
    BY <1>6 DEF WokenAtDiscontinuity, StopsInjection, InjectPcs
  <2>. QED  BY <1>6, <2>1 DEF WokenAtDiscontinuity, state, sink, player
<1>7. ASSUME NEW t \in Tracks, SignalEos(t) PROVE TypeOK'
  <2>1. injectPc' \in [Tracks -> InjectPcs]
    BY <1>7 DEF SignalEos, InjectPcs
  <2>2. sourceEos' \in [Tracks -> BOOLEAN]
    BY <1>7 DEF SignalEos
  <2>3. eosMessage' \in BOOLEAN
    BY <1>7 DEF SignalEos
  <2>. QED  BY <1>7, <2>1, <2>2, <2>3 DEF SignalEos, state, player
<1>8. ASSUME NEW t \in Tracks, MarkPending(t) PROVE TypeOK'
  BY <1>8 DEF MarkPending, state, sink, InjectPcs
<1>9. ASSUME NEW t \in Tracks, ReadTrackState(t) PROVE TypeOK'
  BY <1>9 DEF ReadTrackState, sink, player, InjectPcs
<1>10. ASSUME NEW t \in Tracks, WriteTrackState(t) PROVE TypeOK'
  BY <1>10 DEF WriteTrackState, sink, player, InjectPcs
<1>11. ASSUME NEW t \in Tracks, SignalOther(t) PROVE TypeOK'
  BY <1>11, Signals DEF SignalOther, state, sink, player, InjectPcs, Tracks
<1>12. ASSUME ReassessAndResumeAudioTrack PROVE TypeOK'
  BY <1>12, SignalsCatchup DEF ReassessAndResumeAudioTrack, state, sink,
      player, InjectPcs, Tracks
<1>13. ASSUME WaitForVideoTrackCatchup PROVE TypeOK'
  BY <1>13 DEF WaitForVideoTrackCatchup, state, sink, player, InjectPcs
<1>14. ASSUME CatchupTimeout PROVE TypeOK'
  BY <1>14 DEF CatchupTimeout, state, sink, player, InjectPcs
<1>15. ASSUME StallLetsAudioRun PROVE TypeOK'
  BY <1>15, SignalsCatchup DEF StallLetsAudioRun, state, sink, player,
      InjectPcs, Tracks
<1>16. ASSUME StallSchedulesRetune PROVE TypeOK'
  BY <1>16 DEF StallSchedulesRetune, injectors, state, sink
<1>17. ASSUME NEW t \in Tracks, StallIgnoresDiscontinuity(t) PROVE TypeOK'
  BY <1>17, Signals DEF StallIgnoresDiscontinuity, sink, player, InjectPcs
<1>18. ASSUME DiscontinuityStall PROVE TypeOK'
  BY <1>18 DEF DiscontinuityStall, injectors, state, sink
<1>19. ASSUME NotifyEOSReached PROVE TypeOK'
  BY <1>19 DEF NotifyEOSReached, injectors, state, BeginOrReturn, ControlPcs
<1>20. ASSUME ProcessDiscontinuityTask PROVE TypeOK'
  BY <1>20 DEF ProcessDiscontinuityTask, injectors, state, sink,
      BeginOrReturn, ControlPcs
<1>21. ASSUME NEW t \in Tracks, AbortTrack(t) PROVE TypeOK'
  BY <1>21, Signals, SignalsCatchup DEF AbortTrack, state, sink, Abort,
      ControlPcs, InjectPcs, Tracks
<1>22. ASSUME StopInjectLoop PROVE TypeOK'
  BY <1>22 DEF StopInjectLoop, state, sink, Joins, ControlPcs, InjectPcs,
      Tracks
<1>23. ASSUME FlushAndStart PROVE TypeOK'
  <2>1. /\ injectPc' \in [Tracks -> InjectPcs]
        /\ keepInjecting' \in [Tracks -> BOOLEAN]
        /\ discontinuityProcessed' \in [Tracks -> BOOLEAN]
        /\ injectionAborted' \in [Tracks -> BOOLEAN]
    BY <1>23 DEF FlushAndStart, Start, InjectPcs
  <2>2. /\ resetPosition' \in [Tracks -> BOOLEAN]
        /\ sourceEos' \in [Tracks -> BOOLEAN]
        /\ eosMessage' \in BOOLEAN /\ mTrackState' \subseteq Tracks
        /\ controlPc' \in ControlPcs
    BY <1>23 DEF FlushAndStart, ControlPcs
  <2>3. Vals'
    BY <1>23 DEF FlushAndStart, Start, Tracks
  <2>. QED  BY <1>23, <2>1, <2>2, <2>3 DEF FlushAndStart
<1>24. ASSUME StartAudio PROVE TypeOK'
  BY <1>24 DEF StartAudio, state, sink, Start, ControlPcs, InjectPcs, Tracks
<1>25. ASSUME ClearPending PROVE TypeOK'
  BY <1>25 DEF ClearPending, injectors, state, sink, ControlPcs
<1>26. ASSUME StopTrack PROVE TypeOK'
  <2>1. injectionAborted' \in [Tracks -> BOOLEAN]
    BY <1>26 DEF StopTrack, Abort
  <2>2. injectPc' \in [Tracks -> InjectPcs] /\ controlPc' \in ControlPcs
    BY <1>26, Signals DEF StopTrack, Abort, ControlPcs
  <2>. QED  BY <1>26, <2>1, <2>2 DEF StopTrack, state, sink
<1>27. ASSUME ScheduleDiscontinuity PROVE TypeOK'
  BY <1>27 DEF ScheduleDiscontinuity, injectors, state, sink
<1>28. ASSUME Stop PROVE TypeOK'
  BY <1>28, SignalsCatchup DEF Stop, state, sink, ControlPcs, InjectPcs
<1>. QED  BY <1>1, <1>2, <1>3, <1>4, <1>5, <1>6, <1>7, <1>8, <1>9, <1>10,
      <1>11, <1>12, <1>13, <1>14, <1>15, <1>16, <1>17, <1>18, <1>19, <1>20,
      <1>21, <1>22, <1>23, <1>24, <1>25, <1>26, <1>27, <1>28
          DEF Next, VideoInjector, AudioInjector, Injector, BufferMonitor, MainLoop, Tracks

\* Where a signal, and nothing else, may take an injector.
Woken(t) ==
    \/ injectPc'[t] = injectPc[t]
    \/ injectPc[t] = "discWait" /\ injectPc'[t] = "discWoken"
    \/ t = "audio" /\ injectPc[t] = "catchWait" /\ injectPc'[t] = "loop"

\* The steps that signal move the injectors only as a signal does.
LEMMA Wakes ==
    ASSUME TypeOK
    PROVE  /\ \A t \in Tracks : SignalOther(t) =>
                /\ injectPc'[t] = IF sourceEos[t] THEN "catchup" ELSE "inject"
                /\ Woken(Other(t))
                /\ injectPc[Other(t)] = "discWait" => injectPc'[Other(t)] = "discWoken"
           /\ ReassessAndResumeAudioTrack => injectPc'["video"] = "loop" /\ Woken("audio")
           /\ (\/ StallLetsAudioRun \/ StopTrack \/ Stop
               \/ \E t \in Tracks : StallIgnoresDiscontinuity(t) \/ AbortTrack(t))
                => \A t \in Tracks : Woken(t)
<1>. USE DEF TypeOK, Woken, Goto
<1>1. ASSUME NEW t \in Tracks, SignalOther(t)
      PROVE  /\ injectPc'[t] = IF sourceEos[t] THEN "catchup" ELSE "inject"
             /\ Woken(Other(t))
             /\ injectPc[Other(t)] = "discWait" => injectPc'[Other(t)] = "discWoken"
  <2>1. PICK pc \in SignalStateCond(injectPc) :
          injectPc' = [pc EXCEPT ![t] = IF sourceEos[t] THEN "catchup" ELSE "inject"]
    BY <1>1 DEF SignalOther
  <2>2. injectPc[t] = "signalOther" /\ t # Other(t) /\ Tracks = {t, Other(t)}
    BY <1>1, Others DEF SignalOther, Tracks
  <2>3. (\E u \in Tracks : injectPc[u] = "discWait")
          => \E u \in Tracks : injectPc[u] = "discWait" /\ pc[u] = "discWoken"
    BY Signals
  <2>4. \A u \in Tracks : \/ pc[u] = injectPc[u]
                          \/ injectPc[u] = "discWait" /\ pc[u] = "discWoken"
    BY Signals
  <2>5. pc \in [Tracks -> InjectPcs]
    BY Signals
  <2>6. /\ injectPc'[Other(t)] = pc[Other(t)]
        /\ injectPc'[t] = IF sourceEos[t] THEN "catchup" ELSE "inject"
    BY <2>1, <2>2, <2>5
  <2>. QED  BY <2>2, <2>3, <2>4, <2>6
<1>2. ReassessAndResumeAudioTrack => injectPc'["video"] = "loop" /\ Woken("audio")
  BY SignalsCatchup DEF ReassessAndResumeAudioTrack, Tracks
<1>3. StallLetsAudioRun \/ Stop => \A t \in Tracks : Woken(t)
  BY SignalsCatchup DEF StallLetsAudioRun, Stop, Tracks
<1>4. StopTrack \/ (\E t \in Tracks : StallIgnoresDiscontinuity(t)) => \A t \in Tracks : Woken(t)
  BY Signals DEF StopTrack, Abort, StallIgnoresDiscontinuity
<1>5. ASSUME NEW t \in Tracks, AbortTrack(t) PROVE \A u \in Tracks : Woken(u)
  <2>1. CASE t = "video"
    <3>. SUFFICES ASSUME NEW pc \in [Tracks -> InjectPcs],
                         injectPc' \in SignalStateCond(pc),
                         pc["video"] = injectPc["video"],
                         \/ pc["audio"] = injectPc["audio"]
                         \/ injectPc["audio"] = "catchWait" /\ pc["audio"] = "loop"
                  PROVE  \A u \in Tracks : Woken(u)
      BY <1>5, <2>1, SignalsCatchup DEF AbortTrack, Abort
    <3>1. \A u \in Tracks : \/ injectPc'[u] = pc[u]
                            \/ pc[u] = "discWait" /\ injectPc'[u] = "discWoken"
      BY Signals
    <3>. QED  BY <3>1 DEF Tracks
  <2>2. CASE t = "audio"
    BY <1>5, <2>2, Signals DEF AbortTrack, Abort
  <2>. QED  BY <2>1, <2>2 DEF Tracks
<1>. QED  BY <1>1, <1>2, <1>3, <1>4, <1>5

\* An injector never runs past the playlist, and discontinues where it says.
LEMMA FragmentStep ==
    ASSUME TypeOK, TrackInv, FragmentInv, Next
    PROVE  FragmentInv'
<1>. USE DEF TypeOK, TrackInv, FragmentInv, AtTagged, Discontinuing, Playlist
<1>1. ASSUME NEW t \in Tracks, InjectLoopEnds(t) PROVE FragmentInv'
  BY <1>1, Writers, StreamsAssumption DEF InjectLoopEnds, state, sink, player,
      Goto
<1>2. ASSUME NEW t \in Tracks, NoFragment(t) PROVE FragmentInv'
  BY <1>2, Writers, StreamsAssumption DEF NoFragment, state, player,
      IsAtEndOfTrack, Cached, Goto
<1>3. ASSUME NEW t \in Tracks, TakeFragment(t) PROVE FragmentInv'
  BY <1>3, Writers, StreamsAssumption DEF TakeFragment, state, sink, player,
      Cached, Goto
<1>4. ASSUME NEW t \in Tracks, InjectFragment(t) PROVE FragmentInv'
  BY <1>4, Writers, StreamsAssumption DEF InjectFragment, state, player, Goto
<1>5. ASSUME NEW t \in Tracks, EnterDiscontinuity(t) PROVE FragmentInv'
  BY <1>5, Writers, StreamsAssumption DEF EnterDiscontinuity, sink, player,
      Goto
<1>6. ASSUME NEW t \in Tracks, WokenAtDiscontinuity(t) PROVE FragmentInv'
  BY <1>6, Writers, StreamsAssumption DEF WokenAtDiscontinuity, state, sink,
      player, StopsInjection, Goto
<1>7. ASSUME NEW t \in Tracks, SignalEos(t) PROVE FragmentInv'
  BY <1>7, Writers, StreamsAssumption DEF SignalEos, state, player, Goto
<1>8. ASSUME NEW t \in Tracks, MarkPending(t) PROVE FragmentInv'
  BY <1>8, Writers, StreamsAssumption DEF MarkPending, state, sink, Goto
<1>9. ASSUME NEW t \in Tracks, ReadTrackState(t) PROVE FragmentInv'
  BY <1>9, Writers, StreamsAssumption DEF ReadTrackState, sink, player, Goto
<1>10. ASSUME NEW t \in Tracks, WriteTrackState(t) PROVE FragmentInv'
  BY <1>10, Writers, StreamsAssumption DEF WriteTrackState, sink, player, Goto
<1>11. ASSUME NEW t \in Tracks, SignalOther(t) PROVE FragmentInv'
  <2>1. /\ injectPc'[t] \in {"catchup", "inject"} /\ AtTagged(t) /\ Woken(Other(t))
        /\ UNCHANGED <<nextFragment, flagged>> /\ Playlist' = Playlist
    BY <1>11, Wakes, Writers DEF SignalOther
  <2>. SUFFICES ASSUME NEW u \in Tracks
                PROVE  /\ \A i \in flagged'[u] : Playlist'[u][i]
                       /\ injectPc'[u] = "inject" => nextFragment'[u] <= Len(Playlist'[u])
                       /\ injectPc'[u] \in Discontinuing => AtTagged(u)'
    OBVIOUS
  <2>. HIDE DEF Playlist
  <2>2. CASE u = t
    BY <2>1, <2>2
  <2>3. CASE u = Other(t)
    BY <2>1, <2>3 DEF Woken
  <2>. QED  BY <2>2, <2>3, Others
<1>12. ASSUME ReassessAndResumeAudioTrack PROVE FragmentInv'
  BY <1>12, Writers, StreamsAssumption, Wakes DEF ReassessAndResumeAudioTrack,
      state, sink, player, IsAtEndOfTrack, Woken, Tracks
<1>13. ASSUME WaitForVideoTrackCatchup PROVE FragmentInv'
  BY <1>13, Writers, StreamsAssumption DEF WaitForVideoTrackCatchup, state,
      sink, player, MayWaitForVideo, IsAtEndOfTrack, Goto
<1>14. ASSUME CatchupTimeout PROVE FragmentInv'
  BY <1>14, Writers, StreamsAssumption DEF CatchupTimeout, state, sink,
      player, MayWaitForVideo, IsAtEndOfTrack, Goto
<1>15. ASSUME StallLetsAudioRun PROVE FragmentInv'
  BY <1>15, Writers, StreamsAssumption, Wakes DEF StallLetsAudioRun, state,
      sink, player, Unpaired, Woken
<1>16. ASSUME StallSchedulesRetune PROVE FragmentInv'
  BY <1>16, Writers, StreamsAssumption DEF StallSchedulesRetune, injectors,
      state, sink, FarFromAny, Unpaired, Cached
<1>17. ASSUME NEW t \in Tracks, StallIgnoresDiscontinuity(t) PROVE FragmentInv'
  BY <1>17, Writers, StreamsAssumption, Wakes DEF StallIgnoresDiscontinuity,
      sink, player, FarFromAny, Unpaired, Cached, Woken
<1>18. ASSUME DiscontinuityStall PROVE FragmentInv'
  BY <1>18, Writers, StreamsAssumption DEF DiscontinuityStall, injectors,
      state, sink, IsDiscontinuityProcessPending
<1>19. ASSUME NotifyEOSReached PROVE FragmentInv'
  BY <1>19, Writers, StreamsAssumption DEF NotifyEOSReached, injectors, state,
      BeginOrReturn, IsDiscontinuityProcessPending, IsAtEndOfTrack
<1>20. ASSUME ProcessDiscontinuityTask PROVE FragmentInv'
  BY <1>20, Writers, StreamsAssumption DEF ProcessDiscontinuityTask,
      injectors, state, sink, BeginOrReturn
<1>21. ASSUME NEW t \in Tracks, AbortTrack(t) PROVE FragmentInv'
  BY <1>21, Writers, StreamsAssumption, Wakes DEF AbortTrack, state, sink,
      Woken
<1>22. ASSUME StopInjectLoop PROVE FragmentInv'
  BY <1>22, Writers, StreamsAssumption DEF StopInjectLoop, state, sink, Joins,
      Goto
<1>23. ASSUME FlushAndStart PROVE FragmentInv'
  BY <1>23, Writers, StreamsAssumption DEF FlushAndStart, Start, Goto
<1>24. ASSUME StartAudio PROVE FragmentInv'
  BY <1>24, Writers, StreamsAssumption DEF StartAudio, state, sink, Start,
      Goto
<1>25. ASSUME ClearPending PROVE FragmentInv'
  BY <1>25, Writers, StreamsAssumption DEF ClearPending, injectors, state,
      sink
<1>26. ASSUME StopTrack PROVE FragmentInv'
  BY <1>26, Writers, StreamsAssumption, Wakes DEF StopTrack, state, sink,
      Woken
<1>27. ASSUME ScheduleDiscontinuity PROVE FragmentInv'
  BY <1>27, Writers, StreamsAssumption DEF ScheduleDiscontinuity, injectors,
      state, sink, IsDiscontinuityProcessPending
<1>28. ASSUME Stop PROVE FragmentInv'
  BY <1>28, Writers, StreamsAssumption, Wakes DEF Stop, state, sink, Woken
<1>. QED  BY <1>1, <1>2, <1>3, <1>4, <1>5, <1>6, <1>7, <1>8, <1>9, <1>10,
      <1>11, <1>12, <1>13, <1>14, <1>15, <1>16, <1>17, <1>18, <1>19, <1>20,
      <1>21, <1>22, <1>23, <1>24, <1>25, <1>26, <1>27, <1>28
          DEF Next, VideoInjector, AudioInjector, Injector, BufferMonitor, MainLoop, Tracks

\* Injectors are off between StopInjectLoop and Start.
LEMMA RestartStep ==
    ASSUME TypeOK, RestartInv, Next
    PROVE  RestartInv'
<1>. USE DEF TypeOK, RestartInv, Tracks
<1>1. ASSUME NEW t \in Tracks, InjectLoopEnds(t) PROVE RestartInv'
  BY <1>1 DEF InjectLoopEnds, state, sink, player, Goto
<1>2. ASSUME NEW t \in Tracks, NoFragment(t) PROVE RestartInv'
  BY <1>2 DEF NoFragment, state, player, IsAtEndOfTrack, Cached, Goto
<1>3. ASSUME NEW t \in Tracks, TakeFragment(t) PROVE RestartInv'
  BY <1>3 DEF TakeFragment, state, sink, player, Cached, Goto
<1>4. ASSUME NEW t \in Tracks, InjectFragment(t) PROVE RestartInv'
  BY <1>4 DEF InjectFragment, state, player, Goto
<1>5. ASSUME NEW t \in Tracks, EnterDiscontinuity(t) PROVE RestartInv'
  BY <1>5 DEF EnterDiscontinuity, sink, player, Goto
<1>6. ASSUME NEW t \in Tracks, WokenAtDiscontinuity(t) PROVE RestartInv'
  BY <1>6 DEF WokenAtDiscontinuity, state, sink, player, StopsInjection, Goto
<1>7. ASSUME NEW t \in Tracks, SignalEos(t) PROVE RestartInv'
  BY <1>7 DEF SignalEos, state, player, Goto
<1>8. ASSUME NEW t \in Tracks, MarkPending(t) PROVE RestartInv'
  BY <1>8 DEF MarkPending, state, sink, Goto
<1>9. ASSUME NEW t \in Tracks, ReadTrackState(t) PROVE RestartInv'
  BY <1>9 DEF ReadTrackState, sink, player, Goto
<1>10. ASSUME NEW t \in Tracks, WriteTrackState(t) PROVE RestartInv'
  BY <1>10 DEF WriteTrackState, sink, player, Goto
<1>11. ASSUME NEW t \in Tracks, SignalOther(t) PROVE RestartInv'
  BY <1>11, Wakes, Others DEF SignalOther, state, sink, player, Woken, Tracks
<1>12. ASSUME ReassessAndResumeAudioTrack PROVE RestartInv'
  BY <1>12, Wakes DEF ReassessAndResumeAudioTrack, state, sink, player,
      IsAtEndOfTrack, Woken, Tracks
<1>13. ASSUME WaitForVideoTrackCatchup PROVE RestartInv'
  BY <1>13 DEF WaitForVideoTrackCatchup, state, sink, player, MayWaitForVideo,
      IsAtEndOfTrack, Goto
<1>14. ASSUME CatchupTimeout PROVE RestartInv'
  BY <1>14 DEF CatchupTimeout, state, sink, player, MayWaitForVideo,
      IsAtEndOfTrack, Goto
<1>15. ASSUME StallLetsAudioRun PROVE RestartInv'
  BY <1>15, Wakes DEF StallLetsAudioRun, state, sink, player, Unpaired, Woken
<1>16. ASSUME StallSchedulesRetune PROVE RestartInv'
  BY <1>16 DEF StallSchedulesRetune, injectors, state, sink, FarFromAny,
      Unpaired, Cached
<1>17. ASSUME NEW t \in Tracks, StallIgnoresDiscontinuity(t) PROVE RestartInv'
  BY <1>17, Wakes DEF StallIgnoresDiscontinuity, sink, player, FarFromAny,
      Unpaired, Cached, Woken
<1>18. ASSUME DiscontinuityStall PROVE RestartInv'
  BY <1>18 DEF DiscontinuityStall, injectors, state, sink,
      IsDiscontinuityProcessPending
<1>19. ASSUME NotifyEOSReached PROVE RestartInv'
  BY <1>19 DEF NotifyEOSReached, injectors, state, BeginOrReturn,
      IsDiscontinuityProcessPending, IsAtEndOfTrack
<1>20. ASSUME ProcessDiscontinuityTask PROVE RestartInv'
  BY <1>20 DEF ProcessDiscontinuityTask, injectors, state, sink, BeginOrReturn
<1>21. ASSUME NEW t \in Tracks, AbortTrack(t) PROVE RestartInv'
  BY <1>21, Wakes DEF AbortTrack, state, sink, Woken
<1>22. ASSUME StopInjectLoop PROVE RestartInv'
  BY <1>22 DEF StopInjectLoop, state, sink, Joins, Goto
<1>23. ASSUME FlushAndStart PROVE RestartInv'
  BY <1>23 DEF FlushAndStart, Start, Goto
<1>24. ASSUME StartAudio PROVE RestartInv'
  BY <1>24 DEF StartAudio, state, sink, Start, Goto
<1>25. ASSUME ClearPending PROVE RestartInv'
  BY <1>25 DEF ClearPending, injectors, state, sink
<1>26. ASSUME StopTrack PROVE RestartInv'
  BY <1>26, Wakes DEF StopTrack, state, sink, Woken
<1>27. ASSUME ScheduleDiscontinuity PROVE RestartInv'
  BY <1>27 DEF ScheduleDiscontinuity, injectors, state, sink,
      IsDiscontinuityProcessPending
<1>28. ASSUME Stop PROVE RestartInv'
  BY <1>28, Wakes DEF Stop, state, sink, Woken
<1>. QED  BY <1>1, <1>2, <1>3, <1>4, <1>5, <1>6, <1>7, <1>8, <1>9, <1>10,
      <1>11, <1>12, <1>13, <1>14, <1>15, <1>16, <1>17, <1>18, <1>19, <1>20,
      <1>21, <1>22, <1>23, <1>24, <1>25, <1>26, <1>27, <1>28
          DEF Next, VideoInjector, AudioInjector, Injector, BufferMonitor, MainLoop, Tracks

\* A second injector never starts to wait.
LEMMA WaitStep ==
    ASSUME TypeOK, RestartInv, WaitInv, Next
    PROVE  WaitInv'
<1>. USE DEF TypeOK, RestartInv, WaitInv, Tracks
<1>1. ASSUME NEW t \in Tracks, InjectLoopEnds(t) PROVE WaitInv'
  BY <1>1, Others DEF InjectLoopEnds, state, sink, player, Goto
<1>2. ASSUME NEW t \in Tracks, NoFragment(t) PROVE WaitInv'
  BY <1>2, Others DEF NoFragment, state, player, IsAtEndOfTrack, Cached, Goto
<1>3. ASSUME NEW t \in Tracks, TakeFragment(t) PROVE WaitInv'
  BY <1>3, Others DEF TakeFragment, state, sink, player, Cached, Goto
<1>4. ASSUME NEW t \in Tracks, InjectFragment(t) PROVE WaitInv'
  BY <1>4, Others DEF InjectFragment, state, player, Goto
<1>5. ASSUME NEW t \in Tracks, EnterDiscontinuity(t) PROVE WaitInv'
  BY <1>5, Others DEF EnterDiscontinuity, sink, player, Goto
<1>6. ASSUME NEW t \in Tracks, WokenAtDiscontinuity(t) PROVE WaitInv'
  BY <1>6, Others DEF WokenAtDiscontinuity, state, sink, player,
      StopsInjection, Goto
<1>7. ASSUME NEW t \in Tracks, SignalEos(t) PROVE WaitInv'
  BY <1>7, Others DEF SignalEos, state, player, Goto
<1>8. ASSUME NEW t \in Tracks, MarkPending(t) PROVE WaitInv'
  BY <1>8, Others DEF MarkPending, state, sink, Goto
<1>9. ASSUME NEW t \in Tracks, ReadTrackState(t) PROVE WaitInv'
  BY <1>9, Others DEF ReadTrackState, sink, player, Goto
<1>10. ASSUME NEW t \in Tracks, WriteTrackState(t) PROVE WaitInv'
  BY <1>10, Others DEF WriteTrackState, sink, player, Goto
<1>11. ASSUME NEW t \in Tracks, SignalOther(t) PROVE WaitInv'
  <2>1. /\ injectPc'[t] \in {"catchup", "inject"} /\ Woken(Other(t))
        /\ injectPc[Other(t)] = "discWait" => injectPc'[Other(t)] = "discWoken"
    BY <1>11, Wakes
  <2>. QED  BY <2>1, Others DEF Woken
<1>12. ASSUME ReassessAndResumeAudioTrack PROVE WaitInv'
  BY <1>12, Others, Wakes DEF ReassessAndResumeAudioTrack, state, sink,
      player, IsAtEndOfTrack, Woken, Tracks
<1>13. ASSUME WaitForVideoTrackCatchup PROVE WaitInv'
  BY <1>13, Others DEF WaitForVideoTrackCatchup, state, sink, player,
      MayWaitForVideo, IsAtEndOfTrack, Goto
<1>14. ASSUME CatchupTimeout PROVE WaitInv'
  BY <1>14, Others DEF CatchupTimeout, state, sink, player, MayWaitForVideo,
      IsAtEndOfTrack, Goto
<1>15. ASSUME StallLetsAudioRun PROVE WaitInv'
  BY <1>15, Others, Wakes DEF StallLetsAudioRun, state, sink, player,
      Unpaired, Woken
<1>16. ASSUME StallSchedulesRetune PROVE WaitInv'
  BY <1>16, Others DEF StallSchedulesRetune, injectors, state, sink,
      FarFromAny, Unpaired, Cached
<1>17. ASSUME NEW t \in Tracks, StallIgnoresDiscontinuity(t) PROVE WaitInv'
  <2>1. \A u \in Tracks : injectPc'[u] # "discWait"
    <3>1. injectPc' \in SignalStateCond(injectPc)
      BY <1>17 DEF StallIgnoresDiscontinuity
    <3>. QED  BY <3>1, Signals
  <2>. QED  BY <2>1
<1>18. ASSUME DiscontinuityStall PROVE WaitInv'
  BY <1>18, Others DEF DiscontinuityStall, injectors, state, sink,
      IsDiscontinuityProcessPending
<1>19. ASSUME NotifyEOSReached PROVE WaitInv'
  BY <1>19, Others DEF NotifyEOSReached, injectors, state, BeginOrReturn,
      IsDiscontinuityProcessPending, IsAtEndOfTrack
<1>20. ASSUME ProcessDiscontinuityTask PROVE WaitInv'
  BY <1>20, Others DEF ProcessDiscontinuityTask, injectors, state, sink,
      BeginOrReturn
<1>21. ASSUME NEW t \in Tracks, AbortTrack(t) PROVE WaitInv'
  BY <1>21, Others, Wakes DEF AbortTrack, state, sink, Woken
<1>22. ASSUME StopInjectLoop PROVE WaitInv'
  BY <1>22, Others DEF StopInjectLoop, state, sink, Joins, Goto
<1>23. ASSUME FlushAndStart PROVE WaitInv'
  BY <1>23, Others DEF FlushAndStart, Start, Goto
<1>24. ASSUME StartAudio PROVE WaitInv'
  BY <1>24, Others DEF StartAudio, state, sink, Start, Goto
<1>25. ASSUME ClearPending PROVE WaitInv'
  BY <1>25, Others DEF ClearPending, injectors, state, sink
<1>26. ASSUME StopTrack PROVE WaitInv'
  BY <1>26, Others, Wakes DEF StopTrack, state, sink, Woken
<1>27. ASSUME ScheduleDiscontinuity PROVE WaitInv'
  BY <1>27, Others DEF ScheduleDiscontinuity, injectors, state, sink,
      IsDiscontinuityProcessPending
<1>28. ASSUME Stop PROVE WaitInv'
  BY <1>28, Others, Wakes DEF Stop, state, sink, Woken
<1>. QED  BY <1>1, <1>2, <1>3, <1>4, <1>5, <1>6, <1>7, <1>8, <1>9, <1>10,
      <1>11, <1>12, <1>13, <1>14, <1>15, <1>16, <1>17, <1>18, <1>19, <1>20,
      <1>21, <1>22, <1>23, <1>24, <1>25, <1>26, <1>27, <1>28
          DEF Next, VideoInjector, AudioInjector, Injector, BufferMonitor, MainLoop, Tracks

\* After EOS an injector injects nothing, until it is started again.
LEMMA EosStep ==
    ASSUME TypeOK, RestartInv, EosInv, Next
    PROVE  EosInv'
<1>. USE DEF TypeOK, RestartInv, EosInv, Tracks
<1>1. ASSUME NEW t \in Tracks, InjectLoopEnds(t) PROVE EosInv'
  BY <1>1 DEF InjectLoopEnds, state, sink, player, Goto
<1>2. ASSUME NEW t \in Tracks, NoFragment(t) PROVE EosInv'
  BY <1>2 DEF NoFragment, state, player, IsAtEndOfTrack, Cached, Goto
<1>3. ASSUME NEW t \in Tracks, TakeFragment(t) PROVE EosInv'
  BY <1>3 DEF TakeFragment, state, sink, player, Cached, Goto
<1>4. ASSUME NEW t \in Tracks, InjectFragment(t) PROVE EosInv'
  BY <1>4 DEF InjectFragment, state, player, Goto
<1>5. ASSUME NEW t \in Tracks, EnterDiscontinuity(t) PROVE EosInv'
  BY <1>5 DEF EnterDiscontinuity, sink, player, Goto
<1>6. ASSUME NEW t \in Tracks, WokenAtDiscontinuity(t) PROVE EosInv'
  BY <1>6 DEF WokenAtDiscontinuity, state, sink, player, StopsInjection, Goto
<1>7. ASSUME NEW t \in Tracks, SignalEos(t) PROVE EosInv'
  BY <1>7 DEF SignalEos, state, player, Goto
<1>8. ASSUME NEW t \in Tracks, MarkPending(t) PROVE EosInv'
  BY <1>8 DEF MarkPending, state, sink, Goto
<1>9. ASSUME NEW t \in Tracks, ReadTrackState(t) PROVE EosInv'
  BY <1>9 DEF ReadTrackState, sink, player, Goto
<1>10. ASSUME NEW t \in Tracks, WriteTrackState(t) PROVE EosInv'
  BY <1>10 DEF WriteTrackState, sink, player, Goto
<1>11. ASSUME NEW t \in Tracks, SignalOther(t) PROVE EosInv'
  <2>1. /\ injectPc'[t] = IF sourceEos[t] THEN "catchup" ELSE "inject"
        /\ Woken(Other(t))
    BY <1>11, Wakes
  <2>2. /\ keepInjecting' = [keepInjecting EXCEPT ![t] = ~sourceEos[t]]
        /\ UNCHANGED <<sourceEos, controlPc>>
    BY <1>11 DEF SignalOther, sink, player
  <2>. QED  BY <2>1, <2>2, Others DEF Woken
<1>12. ASSUME ReassessAndResumeAudioTrack PROVE EosInv'
  BY <1>12, Wakes DEF ReassessAndResumeAudioTrack, state, sink, player,
      IsAtEndOfTrack, Woken, Tracks
<1>13. ASSUME WaitForVideoTrackCatchup PROVE EosInv'
  BY <1>13 DEF WaitForVideoTrackCatchup, state, sink, player, MayWaitForVideo,
      IsAtEndOfTrack, Goto
<1>14. ASSUME CatchupTimeout PROVE EosInv'
  BY <1>14 DEF CatchupTimeout, state, sink, player, MayWaitForVideo,
      IsAtEndOfTrack, Goto
<1>15. ASSUME StallLetsAudioRun PROVE EosInv'
  BY <1>15, Wakes DEF StallLetsAudioRun, state, sink, player, Unpaired, Woken
<1>16. ASSUME StallSchedulesRetune PROVE EosInv'
  BY <1>16 DEF StallSchedulesRetune, injectors, state, sink, FarFromAny,
      Unpaired, Cached
<1>17. ASSUME NEW t \in Tracks, StallIgnoresDiscontinuity(t) PROVE EosInv'
  BY <1>17, Wakes DEF StallIgnoresDiscontinuity, sink, player, FarFromAny,
      Unpaired, Cached, Woken
<1>18. ASSUME DiscontinuityStall PROVE EosInv'
  BY <1>18 DEF DiscontinuityStall, injectors, state, sink,
      IsDiscontinuityProcessPending
<1>19. ASSUME NotifyEOSReached PROVE EosInv'
  BY <1>19 DEF NotifyEOSReached, injectors, state, BeginOrReturn,
      IsDiscontinuityProcessPending, IsAtEndOfTrack
<1>20. ASSUME ProcessDiscontinuityTask PROVE EosInv'
  BY <1>20 DEF ProcessDiscontinuityTask, injectors, state, sink, BeginOrReturn
<1>21. ASSUME NEW t \in Tracks, AbortTrack(t) PROVE EosInv'
  BY <1>21, Wakes DEF AbortTrack, state, sink, Woken
<1>22. ASSUME StopInjectLoop PROVE EosInv'
  BY <1>22 DEF StopInjectLoop, state, sink, Joins, Goto
<1>23. ASSUME FlushAndStart PROVE EosInv'
  BY <1>23 DEF FlushAndStart, Start, Goto
<1>24. ASSUME StartAudio PROVE EosInv'
  BY <1>24 DEF StartAudio, state, sink, Start, Goto
<1>25. ASSUME ClearPending PROVE EosInv'
  BY <1>25 DEF ClearPending, injectors, state, sink
<1>26. ASSUME StopTrack PROVE EosInv'
  BY <1>26, Wakes DEF StopTrack, state, sink, Woken
<1>27. ASSUME ScheduleDiscontinuity PROVE EosInv'
  BY <1>27 DEF ScheduleDiscontinuity, injectors, state, sink,
      IsDiscontinuityProcessPending
<1>28. ASSUME Stop PROVE EosInv'
  BY <1>28, Wakes DEF Stop, state, sink, Woken
<1>. QED  BY <1>1, <1>2, <1>3, <1>4, <1>5, <1>6, <1>7, <1>8, <1>9, <1>10,
      <1>11, <1>12, <1>13, <1>14, <1>15, <1>16, <1>17, <1>18, <1>19, <1>20,
      <1>21, <1>22, <1>23, <1>24, <1>25, <1>26, <1>27, <1>28
          DEF Next, VideoInjector, AudioInjector, Injector, BufferMonitor, MainLoop, Tracks

\* A pending discontinuity is one a track stands at.
LEMMA PendingStep ==
    ASSUME TypeOK, TrackInv, FragmentInv, RestartInv, EosInv, PendingInv, Next
    PROVE  PendingInv'
<1>. USE DEF TypeOK, TrackInv, EosInv, PendingInv, AtTagged, Playlist
<1>1. ASSUME NEW t \in Tracks, InjectLoopEnds(t) PROVE PendingInv'
  BY <1>1, Writers DEF InjectLoopEnds, state, sink, player, Goto
<1>2. ASSUME NEW t \in Tracks, NoFragment(t) PROVE PendingInv'
  BY <1>2, Writers DEF NoFragment, state, player, IsAtEndOfTrack, Cached, Goto
<1>3. ASSUME NEW t \in Tracks, TakeFragment(t) PROVE PendingInv'
  BY <1>3, Writers DEF TakeFragment, state, sink, player, Cached, Goto
<1>4. ASSUME NEW t \in Tracks, InjectFragment(t) PROVE PendingInv'
  BY <1>4, Writers DEF InjectFragment, state, player, Goto
<1>5. ASSUME NEW t \in Tracks, EnterDiscontinuity(t) PROVE PendingInv'
  BY <1>5, Writers DEF EnterDiscontinuity, sink, player, Goto
<1>6. ASSUME NEW t \in Tracks, WokenAtDiscontinuity(t) PROVE PendingInv'
  BY <1>6, Writers DEF WokenAtDiscontinuity, state, sink, player,
      StopsInjection, Goto
<1>7. ASSUME NEW t \in Tracks, SignalEos(t) PROVE PendingInv'
  BY <1>7, Writers DEF SignalEos, state, player, Goto
<1>8. ASSUME NEW t \in Tracks, MarkPending(t) PROVE PendingInv'
  <2>1. /\ sourceEos[t] /\ AtTagged(t)
        /\ UNCHANGED <<sourceEos, controlPc, nextFragment, stream>>
    BY <1>8, Writers DEF MarkPending, sink, FragmentInv, Discontinuing
  <2>2. \A u \in Tracks \ {t} : mProcessingDiscontinuity'[u] = mProcessingDiscontinuity[u]
    BY <1>8 DEF MarkPending
  <2>. QED  BY <2>1, <2>2
<1>9. ASSUME NEW t \in Tracks, ReadTrackState(t) PROVE PendingInv'
  BY <1>9, Writers DEF ReadTrackState, sink, player, Goto
<1>10. ASSUME NEW t \in Tracks, WriteTrackState(t) PROVE PendingInv'
  BY <1>10, Writers DEF WriteTrackState, sink, player, Goto
<1>11. ASSUME NEW t \in Tracks, SignalOther(t) PROVE PendingInv'
  BY <1>11, Writers, Wakes, Others DEF SignalOther, state, sink, player,
      Woken, Tracks
<1>12. ASSUME ReassessAndResumeAudioTrack PROVE PendingInv'
  BY <1>12, Writers, Wakes DEF ReassessAndResumeAudioTrack, state, sink,
      player, IsAtEndOfTrack, Woken, Tracks
<1>13. ASSUME WaitForVideoTrackCatchup PROVE PendingInv'
  BY <1>13, Writers DEF WaitForVideoTrackCatchup, state, sink, player,
      MayWaitForVideo, IsAtEndOfTrack, Goto
<1>14. ASSUME CatchupTimeout PROVE PendingInv'
  BY <1>14, Writers DEF CatchupTimeout, state, sink, player, MayWaitForVideo,
      IsAtEndOfTrack, Goto
<1>15. ASSUME StallLetsAudioRun PROVE PendingInv'
  BY <1>15, Writers, Wakes DEF StallLetsAudioRun, state, sink, player,
      Unpaired, Woken
<1>16. ASSUME StallSchedulesRetune PROVE PendingInv'
  BY <1>16, Writers DEF StallSchedulesRetune, injectors, state, sink,
      FarFromAny, Unpaired, Cached
<1>17. ASSUME NEW t \in Tracks, StallIgnoresDiscontinuity(t) PROVE PendingInv'
  BY <1>17, Writers, Wakes DEF StallIgnoresDiscontinuity, sink, player,
      FarFromAny, Unpaired, Cached, Woken
<1>18. ASSUME DiscontinuityStall PROVE PendingInv'
  BY <1>18, Writers DEF DiscontinuityStall, injectors, state, sink,
      IsDiscontinuityProcessPending
<1>19. ASSUME NotifyEOSReached PROVE PendingInv'
  BY <1>19, Writers DEF NotifyEOSReached, injectors, state, BeginOrReturn,
      IsDiscontinuityProcessPending, IsAtEndOfTrack
<1>20. ASSUME ProcessDiscontinuityTask PROVE PendingInv'
  BY <1>20, Writers DEF ProcessDiscontinuityTask, injectors, state, sink,
      BeginOrReturn
<1>21. ASSUME NEW t \in Tracks, AbortTrack(t) PROVE PendingInv'
  BY <1>21, Writers, Wakes DEF AbortTrack, state, sink, Woken
<1>22. ASSUME StopInjectLoop PROVE PendingInv'
  <2>1. \/ controlPc \in {"joinVideo", "joinAudio"} /\ controlPc' \in {"abortAudio", "flush"}
        \/ controlPc' \in {"stopAudio", "stopped"} /\ controlPc \notin {"startAudio", "clear"}
    BY <1>22 DEF StopInjectLoop, Joins
  <2>2. UNCHANGED <<sourceEos, mProcessingDiscontinuity, nextFragment, stream>>
    BY <1>22, Writers DEF StopInjectLoop, sink
  <2>. QED  BY <2>1, <2>2
<1>23. ASSUME FlushAndStart PROVE PendingInv'
  BY <1>23, Writers DEF FlushAndStart, Start, Goto
<1>24. ASSUME StartAudio PROVE PendingInv'
  BY <1>24, Writers DEF StartAudio, state, sink, Start, Goto
<1>25. ASSUME ClearPending PROVE PendingInv'
  BY <1>25, Writers DEF ClearPending, injectors, state, sink
<1>26. ASSUME StopTrack PROVE PendingInv'
  BY <1>26, Writers, Wakes DEF StopTrack, state, sink, Woken
<1>27. ASSUME ScheduleDiscontinuity PROVE PendingInv'
  BY <1>27, Writers DEF ScheduleDiscontinuity, injectors, state, sink,
      IsDiscontinuityProcessPending
<1>28. ASSUME Stop PROVE PendingInv'
  BY <1>28, Writers, Wakes DEF Stop, state, sink, Woken
<1>. QED  BY <1>1, <1>2, <1>3, <1>4, <1>5, <1>6, <1>7, <1>8, <1>9, <1>10,
      <1>11, <1>12, <1>13, <1>14, <1>15, <1>16, <1>17, <1>18, <1>19, <1>20,
      <1>21, <1>22, <1>23, <1>24, <1>25, <1>26, <1>27, <1>28
          DEF Next, VideoInjector, AudioInjector, Injector, BufferMonitor, MainLoop, Tracks

\* While no flag is consumed, none was consumed before.
LEMMA Unconsumed ==
    ASSUME TypeOK, TrackInv, FragmentInv, Next, NoFlagConsumed'
    PROVE  NoFlagConsumed /\ flagged' = flagged
<1>1. Playlist' = Playlist
  BY Writers DEF Playlist
<1>2. CASE flagged' = flagged
  BY <1>1, <1>2 DEF NoFlagConsumed
<1>3. ASSUME NEW t \in Tracks, TakeFragment(t) PROVE flagged' = flagged
  <2>1. flagged' = [flagged EXCEPT ![t] = @ \ {nextFragment[t]}]
    BY <1>3 DEF TakeFragment
  <2>2. ASSUME nextFragment[t] \in flagged[t] PROVE FALSE
    <3>1. nextFragment[t] \in 1 .. Len(Playlist[t]) /\ Playlist[t][nextFragment[t]]
      BY <2>2 DEF TypeOK, FragmentInv
    <3>2. nextFragment[t] \in flagged'[t]
      BY <1>1, <3>1 DEF NoFlagConsumed
    <3>. QED  BY <2>1, <3>2 DEF TrackInv
  <2>. QED  BY <2>1, <2>2 DEF TrackInv
<1>. QED  BY <1>2, <1>3, Writers

\* Without a discontinuity the tracks do not meet and the player does not act.
LEMMA QuietStep ==
    ASSUME TypeOK, TrackInv, FragmentInv, QuietInv, Next
    PROVE  QuietInv'
<1>. USE DEF TypeOK, QuietInv, Discontinuing
<1>1. ASSUME NEW t \in Tracks, InjectLoopEnds(t) PROVE QuietInv'
  BY <1>1, Unconsumed DEF InjectLoopEnds, state, sink, player, Goto
<1>2. ASSUME NEW t \in Tracks, NoFragment(t) PROVE QuietInv'
  BY <1>2, Unconsumed DEF NoFragment, state, player, IsAtEndOfTrack, Cached,
      Goto
<1>3. ASSUME NEW t \in Tracks, TakeFragment(t) PROVE QuietInv'
  <2>1. CASE NoFlagConsumed'
    <3>1. nextFragment[t] \notin flagged[t]
      BY <1>3, <2>1, Unconsumed DEF TakeFragment, TrackInv
    <3>. QED  BY <1>3, <2>1, <3>1, Unconsumed DEF TakeFragment, state, player, Goto
  <2>2. CASE ~NoFlagConsumed'
    BY <2>2
  <2>. QED  BY <2>1, <2>2
<1>4. ASSUME NEW t \in Tracks, InjectFragment(t) PROVE QuietInv'
  BY <1>4, Unconsumed DEF InjectFragment, state, player, Goto
<1>5. ASSUME NEW t \in Tracks, EnterDiscontinuity(t) PROVE QuietInv'
  BY <1>5, Unconsumed DEF EnterDiscontinuity, sink, player, Goto
<1>6. ASSUME NEW t \in Tracks, WokenAtDiscontinuity(t) PROVE QuietInv'
  BY <1>6, Unconsumed DEF WokenAtDiscontinuity, state, sink, player,
      StopsInjection, Goto
<1>7. ASSUME NEW t \in Tracks, SignalEos(t) PROVE QuietInv'
  BY <1>7, Unconsumed DEF SignalEos, state, player, Goto
<1>8. ASSUME NEW t \in Tracks, MarkPending(t) PROVE QuietInv'
  BY <1>8, Unconsumed DEF MarkPending, state, sink, Goto
<1>9. ASSUME NEW t \in Tracks, ReadTrackState(t) PROVE QuietInv'
  BY <1>9, Unconsumed DEF ReadTrackState, sink, player, Goto
<1>10. ASSUME NEW t \in Tracks, WriteTrackState(t) PROVE QuietInv'
  BY <1>10, Unconsumed DEF WriteTrackState, sink, player, Goto
<1>11. ASSUME NEW t \in Tracks, SignalOther(t) PROVE QuietInv'
  BY <1>11, Unconsumed, Wakes, Others DEF SignalOther, state, sink, player,
      Woken, Tracks
<1>12. ASSUME ReassessAndResumeAudioTrack PROVE QuietInv'
  BY <1>12, Unconsumed, Wakes DEF ReassessAndResumeAudioTrack, state, sink,
      player, IsAtEndOfTrack, Woken, Tracks
<1>13. ASSUME WaitForVideoTrackCatchup PROVE QuietInv'
  BY <1>13, Unconsumed DEF WaitForVideoTrackCatchup, state, sink, player,
      MayWaitForVideo, IsAtEndOfTrack, Goto
<1>14. ASSUME CatchupTimeout PROVE QuietInv'
  BY <1>14, Unconsumed DEF CatchupTimeout, state, sink, player,
      MayWaitForVideo, IsAtEndOfTrack, Goto
<1>15. ASSUME StallLetsAudioRun PROVE QuietInv'
  BY <1>15, Unconsumed, Wakes DEF StallLetsAudioRun, state, sink, player,
      Unpaired, Woken
<1>16. ASSUME StallSchedulesRetune PROVE QuietInv'
  BY <1>16, Unconsumed DEF StallSchedulesRetune, injectors, state, sink,
      FarFromAny, Unpaired, Cached
<1>17. ASSUME NEW t \in Tracks, StallIgnoresDiscontinuity(t) PROVE QuietInv'
  BY <1>17, Unconsumed, Wakes DEF StallIgnoresDiscontinuity, sink, player,
      FarFromAny, Unpaired, Cached, Woken
<1>18. ASSUME DiscontinuityStall PROVE QuietInv'
  BY <1>18, Unconsumed DEF DiscontinuityStall, injectors, state, sink,
      IsDiscontinuityProcessPending
<1>19. ASSUME NotifyEOSReached PROVE QuietInv'
  BY <1>19, Unconsumed DEF NotifyEOSReached, injectors, state, BeginOrReturn,
      IsDiscontinuityProcessPending, IsAtEndOfTrack
<1>20. ASSUME ProcessDiscontinuityTask PROVE QuietInv'
  <2>1. /\ UNCHANGED <<injectPc, mTrackState, mProcessingDiscontinuity,
                       discontinuityProcessed>>
        /\ controlPc' = IF \A t \in Tracks : mProcessingDiscontinuity[t]
                         THEN "abortVideo" ELSE "idle"
    BY <1>20 DEF ProcessDiscontinuityTask, BeginOrReturn, injectors, state
  <2>. QED  BY <2>1, Unconsumed DEF Tracks
<1>21. ASSUME NEW t \in Tracks, AbortTrack(t) PROVE QuietInv'
  BY <1>21, Unconsumed, Wakes DEF AbortTrack, state, sink, Woken
<1>22. ASSUME StopInjectLoop PROVE QuietInv'
  BY <1>22, Unconsumed DEF StopInjectLoop, state, sink, Joins, Goto
<1>23. ASSUME FlushAndStart PROVE QuietInv'
  BY <1>23, Unconsumed DEF FlushAndStart, Start, Goto
<1>24. ASSUME StartAudio PROVE QuietInv'
  BY <1>24, Unconsumed DEF StartAudio, state, sink, Start, Goto
<1>25. ASSUME ClearPending PROVE QuietInv'
  BY <1>25, Unconsumed DEF ClearPending, injectors, state, sink
<1>26. ASSUME StopTrack PROVE QuietInv'
  BY <1>26, Unconsumed, Wakes DEF StopTrack, state, sink, Woken
<1>27. ASSUME ScheduleDiscontinuity PROVE QuietInv'
  BY <1>27, Unconsumed DEF ScheduleDiscontinuity, injectors, state, sink,
      IsDiscontinuityProcessPending
<1>28. ASSUME Stop PROVE QuietInv'
  BY <1>28, Unconsumed, Wakes DEF Stop, state, sink, Woken
<1>. QED  BY <1>1, <1>2, <1>3, <1>4, <1>5, <1>6, <1>7, <1>8, <1>9, <1>10,
      <1>11, <1>12, <1>13, <1>14, <1>15, <1>16, <1>17, <1>18, <1>19, <1>20,
      <1>21, <1>22, <1>23, <1>24, <1>25, <1>26, <1>27, <1>28
          DEF Next, VideoInjector, AudioInjector, Injector, BufferMonitor, MainLoop, Tracks

\* And what lets the audio injector wait for video only ever goes away.
LEMMA MayWaitStays ==
    ASSUME TypeOK, TrackInv, QuietInv, Next, NoFlagConsumed, MayWaitForVideo'
    PROVE  MayWaitForVideo
<1>. USE DEF QuietInv
<1>1. mDownloadsEnabled' => mDownloadsEnabled
  BY Writers DEF Stop
<1>2. injectionAborted["video"] => injectionAborted'["video"]
  <2>1. ~FlushAndStart /\ ~StartAudio
    BY DEF FlushAndStart, StartAudio
  <2>2. ASSUME NEW t \in Tracks, InjectLoopEnds(t) \/ AbortTrack(t) \/ StopTrack
        PROVE  injectionAborted["video"] => injectionAborted'["video"]
    BY <2>2 DEF InjectLoopEnds, AbortTrack, StopTrack, Abort, TypeOK, Tracks
  <2>. QED  BY <2>1, <2>2, Writers DEF Tracks
<1>3. ~discontinuityProcessed["audio"]
  BY DEF Tracks
<1>4. IsAtEndOfTrack("video") => IsAtEndOfTrack("video")'
  <2>1. nextFragment'["video"] >= nextFragment["video"]
    BY Writers DEF InjectFragment, TrackInv, Tracks
  <2>2. Len(Playlist["video"]) \in Nat /\ Playlist' = Playlist
    BY StreamsAssumption, Writers DEF Playlist, TrackInv, Tracks
  <2>3. nextFragment["video"] \in Nat /\ nextFragment'["video"] \in Nat
    BY TrackStep DEF TrackInv, Tracks
  <2>. QED  BY <2>1, <2>2, <2>3, SyncAssumption DEF IsAtEndOfTrack
<1>. QED  BY <1>1, <1>2, <1>3, <1>4 DEF MayWaitForVideo

\* While it may wait, every way to the next audio fragment leads past the check of
\* WaitForVideoTrackCatchup, or past a video fragment that closes the gap.
LEMMA PacedStep ==
    ASSUME TypeOK, TrackInv, QuietInv, NoFlagConsumed,
           MayWaitForVideo, mDownloadsEnabled', AudioPaced, Next
    PROVE  AudioPaced'
<1>. USE DEF TypeOK, TrackInv, QuietInv, AudioPaced, MayWaitForVideo, Tracks, Discontinuing
<1>1. ASSUME NEW t \in Tracks, InjectLoopEnds(t) PROVE AudioPaced'
  BY <1>1 DEF InjectLoopEnds, state, sink, player, Goto
<1>2. ASSUME NEW t \in Tracks, NoFragment(t) PROVE AudioPaced'
  BY <1>2 DEF NoFragment, state, player, IsAtEndOfTrack, Cached, Goto
<1>3. ASSUME NEW t \in Tracks, TakeFragment(t) PROVE AudioPaced'
  BY <1>3 DEF TakeFragment, state, sink, player, Cached, Goto
<1>4. ASSUME NEW t \in Tracks, InjectFragment(t) PROVE AudioPaced'
  BY <1>4 DEF InjectFragment, state, player, Goto
<1>5. ASSUME NEW t \in Tracks, EnterDiscontinuity(t) PROVE AudioPaced'
  BY <1>5 DEF EnterDiscontinuity, sink, player, Goto
<1>6. ASSUME NEW t \in Tracks, WokenAtDiscontinuity(t) PROVE AudioPaced'
  BY <1>6 DEF WokenAtDiscontinuity, state, sink, player, StopsInjection, Goto
<1>7. ASSUME NEW t \in Tracks, SignalEos(t) PROVE AudioPaced'
  BY <1>7 DEF SignalEos, state, player, Goto
<1>8. ASSUME NEW t \in Tracks, MarkPending(t) PROVE AudioPaced'
  BY <1>8 DEF MarkPending, state, sink, Goto
<1>9. ASSUME NEW t \in Tracks, ReadTrackState(t) PROVE AudioPaced'
  BY <1>9 DEF ReadTrackState, sink, player, Goto
<1>10. ASSUME NEW t \in Tracks, WriteTrackState(t) PROVE AudioPaced'
  BY <1>10 DEF WriteTrackState, sink, player, Goto
<1>11. ASSUME NEW t \in Tracks, SignalOther(t) PROVE AudioPaced'
  BY <1>11, Wakes, Others DEF SignalOther, state, sink, player, Woken, Tracks
<1>12. ASSUME ReassessAndResumeAudioTrack PROVE AudioPaced'
  BY <1>12, Wakes DEF ReassessAndResumeAudioTrack, state, sink, player,
      IsAtEndOfTrack, Woken, Tracks
<1>13. ASSUME WaitForVideoTrackCatchup PROVE AudioPaced'
  BY <1>13 DEF WaitForVideoTrackCatchup, state, sink, player, MayWaitForVideo,
      IsAtEndOfTrack, Goto
<1>14. ASSUME CatchupTimeout PROVE AudioPaced'
  BY <1>14 DEF CatchupTimeout, state, sink, player, MayWaitForVideo,
      IsAtEndOfTrack, Goto
<1>15. ASSUME StallLetsAudioRun PROVE AudioPaced'
  BY <1>15, Wakes DEF StallLetsAudioRun, state, sink, player, Unpaired, Woken
<1>16. ASSUME StallSchedulesRetune PROVE AudioPaced'
  BY <1>16 DEF StallSchedulesRetune, injectors, state, sink, FarFromAny,
      Unpaired, Cached
<1>17. ASSUME NEW t \in Tracks, StallIgnoresDiscontinuity(t) PROVE AudioPaced'
  BY <1>17, Wakes DEF StallIgnoresDiscontinuity, sink, player, FarFromAny,
      Unpaired, Cached, Woken
<1>18. ASSUME DiscontinuityStall PROVE AudioPaced'
  BY <1>18 DEF DiscontinuityStall, injectors, state, sink,
      IsDiscontinuityProcessPending
<1>19. ASSUME NotifyEOSReached PROVE AudioPaced'
  BY <1>19 DEF NotifyEOSReached, injectors, state, BeginOrReturn,
      IsDiscontinuityProcessPending, IsAtEndOfTrack
<1>20. ASSUME ProcessDiscontinuityTask PROVE AudioPaced'
  BY <1>20 DEF ProcessDiscontinuityTask, injectors, state, sink, BeginOrReturn
<1>21. ASSUME NEW t \in Tracks, AbortTrack(t) PROVE AudioPaced'
  BY <1>21, Wakes DEF AbortTrack, state, sink, Woken
<1>22. ASSUME StopInjectLoop PROVE AudioPaced'
  BY <1>22 DEF StopInjectLoop, state, sink, Joins, Goto
<1>23. ASSUME FlushAndStart PROVE AudioPaced'
  BY <1>23 DEF FlushAndStart, Start, Goto
<1>24. ASSUME StartAudio PROVE AudioPaced'
  BY <1>24 DEF StartAudio, state, sink, Start, Goto
<1>25. ASSUME ClearPending PROVE AudioPaced'
  BY <1>25 DEF ClearPending, injectors, state, sink
<1>26. ASSUME StopTrack PROVE AudioPaced'
  <2>1. injectPc' \in SignalStateCond(injectPc) /\ UNCHANGED totalInjectedDuration
    BY <1>26 DEF StopTrack, Abort
  <2>2. injectPc'["audio"] = injectPc["audio"]
    BY <2>1, Signals
  <2>. QED  BY <2>1, <2>2
<1>27. ASSUME ScheduleDiscontinuity PROVE AudioPaced'
  BY <1>27 DEF ScheduleDiscontinuity, injectors, state, sink,
      IsDiscontinuityProcessPending
<1>28. ASSUME Stop PROVE AudioPaced'
  BY <1>28, Wakes DEF Stop, state, sink, Woken
<1>. QED  BY <1>1, <1>2, <1>3, <1>4, <1>5, <1>6, <1>7, <1>8, <1>9, <1>10,
      <1>11, <1>12, <1>13, <1>14, <1>15, <1>16, <1>17, <1>18, <1>19, <1>20,
      <1>21, <1>22, <1>23, <1>24, <1>25, <1>26, <1>27, <1>28
          DEF Next, VideoInjector, AudioInjector, Injector, BufferMonitor, MainLoop, Tracks

\* So the lead stays bounded.
LEMMA LeadStep ==
    ASSUME TypeOK, TrackInv, FragmentInv, QuietInv, LeadInv, Next
    PROVE  LeadInv'
<1>. SUFFICES ASSUME NoFlagConsumed', MayWaitForVideo' PROVE AudioPaced'
  BY DEF LeadInv
<1>1. NoFlagConsumed /\ MayWaitForVideo
  BY Unconsumed, MayWaitStays
<1>2. mDownloadsEnabled'
  BY DEF MayWaitForVideo
<1>. QED  BY <1>1, <1>2, PacedStep DEF LeadInv

-----------------------------------------------------------------------------
(* The theorems.                                                             *)

\* All of it holds when the injectors start.
LEMMA InitIInv == Init => IInv
<1>. SUFFICES ASSUME Init PROVE IInv
  OBVIOUS
<1>. USE StreamsAssumption DEF Init, Playlist
<1>1. TypeOK /\ TrackInv
  <2>1. Playlist \in [Tracks -> Seq(BOOLEAN)]
    OBVIOUS
  <2>2. /\ injectPc \in [Tracks -> InjectPcs] /\ controlPc \in ControlPcs
        /\ mTrackState \subseteq Tracks /\ copyOfTrackState \in [Tracks -> SUBSET Tracks]
    BY DEF InjectPcs, ControlPcs
  <2>3. /\ {keepInjecting, discontinuityProcessed, injectionAborted, resetPosition,
            sourceEos, mProcessingDiscontinuity} \subseteq [Tracks -> BOOLEAN]
        /\ {eosMessage, reTune, mDiscontinuityTuneOperationId, mDownloadsEnabled}
              \subseteq BOOLEAN
    OBVIOUS
  <2>4. \A t \in Tracks : /\ nextFragment[t] \in 1 .. Len(Playlist[t]) + 1
                          /\ flagged[t] \subseteq 1 .. Len(Playlist[t])
                          /\ totalInjectedDuration[t] \in 0 .. nextFragment[t] - 1
    BY <2>1
  <2>5. TrackInv
    BY <2>1 DEF TrackInv
  <2>. QED  BY <2>2, <2>3, <2>4, <2>5 DEF TypeOK
<1>2. FragmentInv /\ RestartInv /\ WaitInv /\ EosInv /\ PendingInv
  BY DEF FragmentInv, Discontinuing, RestartInv, WaitInv, EosInv, PendingInv, Tracks
<1>3. QuietInv /\ LeadInv
  BY DEF QuietInv, LeadInv, AudioPaced, Discontinuing, Tracks
<1>. QED  BY <1>1, <1>2, <1>3 DEF IInv

\* Every step keeps the inductive invariant.
LEMMA IInvStep == IInv /\ [Next]_<<vars, stream>> => IInv'
<1>1. ASSUME IInv, Next PROVE IInv'
  BY <1>1, TypeStep, TrackStep, FragmentStep, RestartStep, WaitStep, EosStep,
     PendingStep, QuietStep, LeadStep DEF IInv
<1>2. ASSUME IInv, UNCHANGED <<vars, stream>> PROVE IInv'
  BY <1>2 DEF IInv, vars, injectors, state, sink, player, TypeOK, TrackInv,
     FragmentInv, RestartInv, WaitInv, EosInv, PendingInv, QuietInv, LeadInv,
     AtTagged, NoFlagConsumed, MayWaitForVideo, IsAtEndOfTrack, AudioPaced, Playlist
<1>. QED  BY <1>1, <1>2

\* It holds always.
LEMMA AlwaysIInv == Spec => []IInv
BY InitIInv, IInvStep, PTL DEF Spec

\* Every variable keeps to the values the code can give it.
THEOREM SyncTypeCorrect == Spec => []TypeOK
<1>1. IInv => TypeOK
  BY DEF IInv
<1>. QED  BY <1>1, AlwaysIInv, PTL

\* The two injectors never wait for each other in ProcessDiscontinuity, although
\* the bit of one may be lost to a stale copy that the other one writes back.
THEOREM InjectorsNeverBothWait == Spec => []NeverBothWaiting
<1>1. IInv => NeverBothWaiting
  BY DEF IInv, WaitInv, NeverBothWaiting
<1>. QED  BY <1>1, AlwaysIInv, PTL

\* WaitForVideoTrackCatchup keeps audio at most one fragment ahead when it takes its
\* next one, up to the first discontinuity.
THEOREM AudioLeadIsBounded == Spec => []AudioLeadBounded
<1>1. IInv => AudioLeadBounded
  BY DEF IInv, LeadInv, AudioPaced, NoFlagConsumed, AudioLeadBounded
<1>. QED  BY <1>1, AlwaysIInv, PTL

\* The step that FlushedAtDiscontinuity allows.
NoEarlyFlush ==
    /\ controlPc = "flush" /\ controlPc' # "flush" =>
         \A t \in Tracks : /\ nextFragment[t] <= Len(Playlist[t])
                           /\ Playlist[t][nextFragment[t]]
    /\ \A t \in Tracks : sourceEos[t] => nextFragment'[t] = nextFragment[t]

\* From a state of the invariant no step flushes too early.
LEMMA FlushOnlyBetweenPeriods ==
    ASSUME IInv, [Next]_<<vars, stream>>
    PROVE  NoEarlyFlush
<1>. USE DEF NoEarlyFlush
<1>1. controlPc = "flush" => \A t \in Tracks : AtTagged(t)
  BY DEF IInv, PendingInv
<1>2. \A t \in Tracks : Len(Playlist[t]) \in Nat
  BY StreamsAssumption DEF IInv, TrackInv, Playlist
<1>3. CASE UNCHANGED nextFragment
  BY <1>1, <1>2, <1>3 DEF AtTagged
<1>4. ASSUME NEW u \in Tracks, InjectFragment(u)
      PROVE  \A t \in Tracks : sourceEos[t] => nextFragment'[t] = nextFragment[t]
  BY <1>4 DEF InjectFragment, IInv, EosInv, TrackInv
<1>5. nextFragment' = nextFragment \/ \E u \in Tracks : InjectFragment(u)
  BY Writers DEF vars, injectors
<1>. QED  BY <1>1, <1>2, <1>3, <1>4, <1>5 DEF AtTagged

\* ProcessPendingDiscontinuity flushes the sink only when both tracks stand at a
\* tagged fragment, and until then a source at EOS gets no more buffers.
THEOREM FlushedOnlyAtDiscontinuity == Spec => FlushedAtDiscontinuity
<1>1. IInv /\ [Next]_<<vars, stream>> =>
        [NoEarlyFlush]_vars
  BY FlushOnlyBetweenPeriods
<1>. QED  BY <1>1, AlwaysIInv, PTL
          DEF Spec, FlushedAtDiscontinuity, NoEarlyFlush

====
