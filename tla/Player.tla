------------------------------- MODULE Player -------------------------------
(***************************************************************************)
(* PrivateInstanceAAMP as a set of threads that tear one stream down and   *)
(* build another: the application's calls (Tune, Stop, Seek, a change of   *)
(* language), the idle tasks of the main loop (re-tune, discontinuity, end *)
(* of stream, first frame) and the sink's streaming thread, which schedules*)
(* those tasks.  Two hand-made protocols keep them apart: the reTune and   *)
(* mIsRetuneInProgress flags under gMutex with gCond, and the discontinuity*)
(* operation's id, "in progress" and "reporting" flags under mLock with    *)
(* mCondDiscontinuity.                                                     *)
(*                                                                         *)
(* A context is an activity with a program counter.  "task" is the idle    *)
(* task the main loop is running; "call" is a call the application makes   *)
(* on the main loop, alone or from the progress event of a discontinuity;  *)
(* "app" is a call made on the application's own thread.                   *)
(***************************************************************************)
EXTENDS Naturals, Sequences, SequencesExt

CONSTANTS
    Scenarios,      \* the applications and sinks checked, see Scenario
    MaxCalls,       \* bound: calls of the application
    MaxDiscs,       \* bound: discontinuities of the stream
    MaxUnderflows   \* bound: errors the sink reports

(* A player is used from the main loop's thread or from a thread of the    *)
(* application's own, makes some of the calls, plays live or recorded      *)
(* content, and its sink reports some of the events; with "frame" the      *)
(* first frame of a stream may be shown while a call is being made.  "Zap" *)
(* is a Tune over an open session, "Tune" one after a Stop.                *)
AllOps == {"Tune", "Zap", "Stop", "Seek", "Switch"}
Scenario == [app : {"app", "call"}, live : BOOLEAN, ops : SUBSET AllOps,
             sink : SUBSET {"underflow", "eos", "internal", "frame"}]

ASSUME ConstantsAssumption ==
    /\ Scenarios \subseteq Scenario
    /\ {MaxCalls, MaxDiscs, MaxUnderflows} \subseteq Nat

(* What waits on the main loop is one of three tasks, not removed.         *)
Sources == [kind : {"retune", "disc", "eos"}, id : 0..MaxUnderflows,
            removed : {FALSE}]

VARIABLES
    scenario,
    state,          \* mState
    stream,         \* mpStreamAbstractionAAMP: none, built, running
    reTune,         \* gActivePrivAAMPs' flag of this player
    retuning,       \* mIsRetuneInProgress
    discId,         \* mDiscontinuityTuneOperationId, 0 when there is none
    discBusy,       \* mDiscontinuityTuneOperationInProgress
    reporting,      \* mProgressReportFromProcessDiscontinuity
    disc,           \* mProcessingDiscontinuity: the tracks that reached it
    seeking,        \* mSeekOperationInProgress
    framePending,   \* the first frame of the stream is not shown yet
    idle,           \* the main loop's idle sources, first to run first
    task,           \* the source the main loop is running
    pc, op, stage,  \* per context: where, in which call, tearing down for what
    sink,           \* the decision ScheduleRetune has taken and not applied
    eosSignalled,   \* the sink has reported the end since it was configured
    calls, discs, underflows

flags == <<reTune, retuning, discId, discBusy, reporting, disc, seeking>>
loop == <<idle, task>>
frames == <<pc, op, stage>>
signals == <<sink, eosSignalled>>
counters == <<calls, discs, underflows>>
vars == <<scenario, state, stream, flags, framePending, loop, frames, signals, counters>>

Ctx == {"app", "call", "task"}
Tracks == {"video", "audio"}
States == {"idle", "initializing", "prepared", "playing", "seeking",
           "complete", "error"}
NoSource == [kind |-> "none", id |-> 0, removed |-> FALSE]
Source(kind, id) == [kind |-> kind, id |-> id, removed |-> FALSE]
PCs == {"rest", "stopGate", "stopWait", "stopWoken", "stopStream", "teardown",
        "discWait", "discWoken", "delete", "stopEnd", "tuneBegin", "init",
        "start", "retuneEnd", "discEnter", "discFlags", "discMark",
        "discCheck", "discReport", "discResume", "discSwitch", "discDone",
        "discSignal", "eosEnter", "eosTuned", "eosEnd"}

(* The main loop runs one thing: a call made on it suspends its task.      *)
Runs(c, label) == /\ pc[c] = label
                  /\ c = "task" => pc["call"] = "rest"
OnLoop(c) == c # "app"

Goto(c, label) == pc' = [pc EXCEPT ![c] = label]

(* pthread_cond_signal: one of the contexts blocked at `from` is woken, and*)
(* has the mutex to take again before it goes on.                          *)
Signal(moved, from, to) ==
    LET blocked == {c \in Ctx : moved[c] = from} IN
    IF blocked = {} THEN pc' = moved
    ELSE \E c \in blocked : pc' = [moved EXCEPT ![c] = to]

Init ==
    /\ scenario \in Scenarios
    /\ state = "idle" /\ stream = "none"
    /\ reTune = FALSE /\ retuning = FALSE
    /\ discId = 0 /\ discBusy = FALSE /\ reporting = FALSE /\ disc = {}
    /\ seeking = FALSE /\ framePending = FALSE
    /\ idle = <<>> /\ task = NoSource
    /\ pc = [c \in Ctx |-> "rest"] /\ op = [c \in Ctx |-> "none"]
    /\ stage = [c \in Ctx |-> "none"]
    /\ sink = "none" /\ eosSignalled = FALSE
    /\ calls = 0 /\ discs = 0 /\ underflows = 0

-----------------------------------------------------------------------------
(* The application's calls.                                                *)

(* Where the application can call from: its own thread, or the main loop,  *)
(* which is free or delivers the progress event of a discontinuity.        *)
MayCall(c) ==
    /\ scenario.app = c /\ pc[c] = "rest" /\ calls < MaxCalls
    /\ c = "call" => pc["task"] \in {"rest", "discReport"}

Enter(c, call, label, forStage) ==
    /\ MayCall(c) /\ call \in scenario.ops
    /\ calls' = calls + 1
    /\ pc' = [pc EXCEPT ![c] = label]
    /\ op' = [op EXCEPT ![c] = call]
    /\ stage' = [stage EXCEPT ![c] = forStage]

(* PlayerInstanceAAMP::Stop returns at once in eSTATE_IDLE, else announces *)
(* eSTATE_IDLE before the work starts.                                     *)
CallStop(c) ==
    /\ state # "idle"
    /\ Enter(c, "Stop", "stopGate", "stop")
    /\ state' = "idle"
    /\ UNCHANGED <<scenario, stream, flags, framePending, loop, signals, discs,
                   underflows>>

(* PlayerInstanceAAMP::Tune: an open session is closed first, without the  *)
(* announcement, so the state is still the old one while it closes.        *)
CallTune(c) ==
    /\ \/ state = "idle" /\ Enter(c, "Tune", "tuneBegin", "tune")
       \/ state # "idle" /\ Enter(c, "Zap", "stopGate", "stop")
    /\ UNCHANGED <<scenario, state, stream, flags, framePending, loop, signals,
                   discs, underflows>>

(* PlayerInstanceAAMP::Seek while streaming.                               *)
CallSeek(c) ==
    /\ state \notin {"error", "initializing"} /\ stream # "none"
    /\ Enter(c, "Seek", "tuneBegin", "tune")
    /\ state' = "seeking"
    /\ UNCHANGED <<scenario, stream, flags, framePending, loop, signals, discs,
                   underflows>>

(* SetLanguage, SetAudioTrack, SetTextTrack and SetRateAndSeek: a teardown *)
(* of their own and the one of TuneHelper(eTUNETYPE_SEEK).                 *)
CallSwitch(c) ==
    /\ state \notin {"error", "idle"} /\ stream # "none"
    /\ Enter(c, "Switch", "teardown", "switch")
    /\ UNCHANGED <<scenario, state, stream, flags, framePending, loop, signals,
                   discs, underflows>>

-----------------------------------------------------------------------------
(* PrivateInstanceAAMP::Stop, TeardownStream and TuneHelper.               *)

\* Fault: Stop does not wait for the re-tune.
StopGateAtOnce(c) ==
    /\ Runs(c, "stopGate")
    /\ Goto(c, "stopStream") /\ reTune' = FALSE
    /\ UNCHANGED <<scenario, state, stream, retuning, discId, discBusy, reporting,
                   disc, seeking, framePending, loop, op, stage, signals, counters>>

(* Stop waits, once, for the re-tune that is in progress.                  *)
StopGate(c) ==
    /\ Runs(c, "stopGate")
    /\ IF reTune /\ retuning
       THEN Goto(c, "stopWait") /\ UNCHANGED reTune
       ELSE Goto(c, "stopStream") /\ reTune' = FALSE
    /\ UNCHANGED <<scenario, state, stream, retuning, discId, discBusy, reporting,
                   disc, seeking, framePending, loop, op, stage, signals, counters>>

StopWoken(c) ==
    /\ Runs(c, "stopWoken")
    /\ reTune' = FALSE
    /\ Goto(c, "stopStream")
    /\ UNCHANGED <<scenario, state, stream, retuning, discId, discBusy, reporting,
                   disc, seeking, framePending, loop, op, stage, signals, counters>>

(* Downloads are disabled and the stream stopped, before TeardownStream.   *)
StopStream(c) ==
    /\ Runs(c, "stopStream")
    /\ Goto(c, "teardown")
    /\ stream' = IF stream = "none" THEN "none" ELSE "built"
    /\ UNCHANGED <<scenario, state, flags, framePending, loop, op, stage, signals,
                   counters>>

(* TeardownStream's argument: true from Stop, a new tune or a re-tune.     *)
NewTune(c) == \/ stage[c] = "stop"
              \/ stage[c] = "tune" /\ op[c] \in {"Tune", "Zap", "Retune"}

(* aamp_GetSourceID: the caller is the discontinuity's own idle task.      *)
InOwnDiscTask(c) == OnLoop(c) /\ task.kind = "disc" /\ task.id = discId

(* g_source_remove: the queued source, or the one that is running, is gone. *)
Dequeue(kind, id) ==
    LET at == {i \in DOMAIN idle : idle[i].kind = kind /\ idle[i].id = id} IN
    IF at = {} THEN idle ELSE RemoveAt(idle, CHOOSE i \in at : TRUE)

RemoveDisc(id) ==
    /\ idle' = Dequeue("disc", id)
    /\ task' = IF task.kind = "disc" /\ task.id = id
               THEN [task EXCEPT !.removed = TRUE] ELSE task

\* Fault: the discontinuity's own task is told to give up and keeps its id.
TeardownKeepsId(c) ==
    /\ Runs(c, "teardown")
    /\ IF discId # 0 /\ (~NewTune(c) \/ state = "idle")
       THEN IF reporting /\ InOwnDiscTask(c)
            THEN /\ discBusy' = FALSE /\ disc' = {}
                 /\ Goto(c, "delete") /\ UNCHANGED <<discId, loop>>
            ELSE IF discBusy
            THEN Goto(c, "discWait") /\ UNCHANGED <<discBusy, discId, disc, loop>>
            ELSE /\ RemoveDisc(discId)
                 /\ discId' = 0 /\ disc' = {}
                 /\ Goto(c, "delete") /\ UNCHANGED discBusy
       ELSE /\ discBusy' = (discBusy /\ ~reporting)
            /\ disc' = {}
            /\ Goto(c, "delete") /\ UNCHANGED <<discId, loop>>
    /\ UNCHANGED <<scenario, state, stream, reTune, retuning, reporting, seeking,
                   framePending, op, stage, signals, counters>>

(* The first critical section of TeardownStream.                           *)
Teardown(c) ==
    /\ Runs(c, "teardown")
    /\ IF discId # 0 /\ (~NewTune(c) \/ state = "idle")
       THEN IF reporting /\ InOwnDiscTask(c)
            THEN /\ discBusy' = FALSE /\ discId' = 0 /\ disc' = {}
                 /\ Goto(c, "delete") /\ UNCHANGED loop
            ELSE IF discBusy
            THEN Goto(c, "discWait") /\ UNCHANGED <<discBusy, discId, disc, loop>>
            ELSE /\ RemoveDisc(discId)
                 /\ discId' = 0 /\ disc' = {}
                 /\ Goto(c, "delete") /\ UNCHANGED discBusy
       ELSE /\ discBusy' = (discBusy /\ ~reporting)
            /\ disc' = {}
            /\ Goto(c, "delete") /\ UNCHANGED <<discId, loop>>
    /\ UNCHANGED <<scenario, state, stream, reTune, retuning, reporting, seeking,
                   framePending, op, stage, signals, counters>>

TeardownWoken(c) ==
    /\ Runs(c, "discWoken")
    /\ disc' = {}
    /\ Goto(c, "delete")
    /\ UNCHANGED <<scenario, state, stream, reTune, retuning, discId, discBusy,
                   reporting, seeking, framePending, loop, op, stage, signals, counters>>

(* The stream is stopped and deleted; the sink is stopped or flushed, which*)
(* removes its end of stream and first frame callbacks.                    *)
Delete(c) ==
    /\ Runs(c, "delete")
    /\ stream' = "none" /\ framePending' = FALSE
    /\ idle' = Dequeue("eos", 0)
    /\ Goto(c, CASE stage[c] = "stop" -> "stopEnd"
                 [] stage[c] = "switch" -> "tuneBegin"
                 [] stage[c] = "tune" -> "init")
    /\ stage' = [stage EXCEPT ![c] = IF @ = "switch" THEN "tune" ELSE @]
    /\ UNCHANGED <<scenario, state, flags, task, op, signals, counters>>

(* The end of PrivateInstanceAAMP::Stop; PlayerInstanceAAMP::Tune goes on. *)
StopEnd(c) ==
    /\ Runs(c, "stopEnd")
    /\ state' = "idle" /\ seeking' = FALSE
    /\ IF op[c] = "Zap"
       THEN Goto(c, "tuneBegin") /\ stage' = [stage EXCEPT ![c] = "tune"]
       ELSE Goto(c, "rest") /\ UNCHANGED stage
    /\ UNCHANGED <<scenario, stream, reTune, retuning, discId, discBusy, reporting,
                   disc, framePending, loop, op, signals, counters>>

SeekType(c) == op[c] \in {"Seek", "Switch", "Eos"}

TuneBegin(c) ==
    /\ Runs(c, "tuneBegin")
    /\ seeking' = (seeking \/ SeekType(c))
    /\ Goto(c, "teardown")
    /\ UNCHANGED <<scenario, state, stream, reTune, retuning, discId, discBusy,
                   reporting, disc, framePending, loop, op, stage, signals, counters>>

(* Where a context goes when TuneHelper returns.                           *)
Return(c) == CASE op[c] = "Retune" -> "retuneEnd"
               [] op[c] = "Eos" -> "eosTuned"
               [] OTHER -> "rest"

(* The new stream is created and initialised.  On a failure TuneHelper     *)
(* reports the error and returns before the seek flag is cleared; a seek   *)
(* beyond the end of recorded content is handled as an end of stream.      *)
InitStream(c) ==
    /\ Runs(c, "init")
    /\ stream' = "built"
    /\ \/ /\ state' = IF op[c] \in {"Tune", "Zap"} THEN "initializing" ELSE state
          /\ Goto(c, "start")
       \/ /\ state' = "error"
          /\ Goto(c, Return(c))
       \/ /\ SeekType(c) /\ ~scenario.live
          /\ state' = "complete"
          /\ Goto(c, Return(c))
    /\ UNCHANGED <<scenario, flags, framePending, loop, op, stage, signals, counters>>

(* Start, Stream, and the end of TuneHelper.                               *)
StartStream(c) ==
    /\ Runs(c, "start")
    /\ stream' = "running" /\ framePending' = TRUE
    /\ seeking' = (seeking /\ ~SeekType(c))
    /\ state' = IF op[c] \in {"Tune", "Zap"} /\ state # "error"
              THEN "prepared" ELSE state
    /\ eosSignalled' = FALSE
    /\ Goto(c, Return(c))
    /\ UNCHANGED <<scenario, reTune, retuning, discId, discBusy, reporting, disc,
                   loop, op, stage, sink, counters>>

-----------------------------------------------------------------------------
(* The main loop.                                                          *)

LoopFree == task = NoSource /\ pc["call"] = "rest"

Dispatch(label, does) ==
    /\ task' = Head(idle) /\ idle' = Tail(idle)
    /\ pc' = [pc EXCEPT !["task"] = label]
    /\ op' = [op EXCEPT !["task"] = does]
    /\ stage' = [stage EXCEPT !["task"] = "tune"]

(* PrivateInstanceAAMP_Retune, up to TuneHelper.                           *)
RunRetune ==
    /\ LoopFree /\ idle # <<>> /\ Head(idle).kind = "retune"
    /\ IF reTune
       THEN retuning' = TRUE /\ Dispatch("tuneBegin", "Retune")
       ELSE idle' = Tail(idle) /\ UNCHANGED <<retuning, task, frames>>
    /\ UNCHANGED <<scenario, state, stream, reTune, discId, discBusy, reporting,
                   disc, seeking, framePending, signals, counters>>

RetuneEnd ==
    /\ Runs("task", "retuneEnd")
    /\ retuning' = FALSE /\ reTune' = FALSE
    /\ Signal([pc EXCEPT !["task"] = "rest"], "stopWait", "stopWoken")
    /\ task' = NoSource
    /\ UNCHANGED <<scenario, state, stream, discId, discBusy, reporting, disc,
                   seeking, framePending, idle, op, stage, signals, counters>>

(* PrivateInstanceAAMP_ProcessDiscontinuity and IdleCallbackOnEOS.         *)
RunDisc ==
    /\ LoopFree /\ idle # <<>> /\ Head(idle).kind = "disc"
    /\ Dispatch("discEnter", "Disc")
    /\ UNCHANGED <<scenario, state, stream, flags, framePending, signals, counters>>

RunEos ==
    /\ LoopFree /\ idle # <<>> /\ Head(idle).kind = "eos"
    /\ Dispatch("eosEnter", "Eos")
    /\ UNCHANGED <<scenario, state, stream, flags, framePending, signals, counters>>

(* NotifyEOSReached: at a discontinuity it is processed here and now; else,*)
(* unless a track is not at its end, recorded content is complete and live *)
(* content seeks to its live point.                                        *)
Eos ==
    /\ Runs("task", "eosEnter")
    /\ IF disc # {} THEN Goto("task", "discEnter") /\ UNCHANGED state
       ELSE \/ Goto("task", "eosEnd") /\ UNCHANGED state
            \/ scenario.live /\ Goto("task", "tuneBegin") /\ UNCHANGED state
            \/ ~scenario.live /\ Goto("task", "eosEnd") /\ state' = "complete"
    /\ UNCHANGED <<scenario, stream, flags, framePending, loop, op, stage, signals,
                   counters>>

EndTask == Goto("task", "rest") /\ task' = NoSource

(* NotifySpeedChanged, after the seek to the live point.                   *)
EosTuned ==
    /\ Runs("task", "eosTuned")
    /\ state' = "playing"
    /\ EndTask
    /\ UNCHANGED <<scenario, stream, flags, framePending, idle, op, stage, signals,
                   counters>>

EosEnd ==
    /\ Runs("task", "eosEnd")
    /\ EndTask
    /\ UNCHANGED <<scenario, state, stream, flags, framePending, idle, op, stage,
                   signals, counters>>

(* NotifyFirstFrameReceived, an idle callback of the sink.                 *)
FirstFrame ==
    /\ LoopFree /\ framePending
    /\ "frame" \in scenario.sink \/ pc["app"] = "rest"
    /\ framePending' = FALSE /\ state' = "playing"
    /\ UNCHANGED <<scenario, stream, flags, loop, frames, signals, counters>>

-----------------------------------------------------------------------------
(* ProcessPendingDiscontinuity, from its own idle task or from the one for *)
(* the end of stream.                                                      *)

(* Where the main loop goes when it returns.                               *)
AfterDisc == IF op["task"] = "Eos" THEN "eosEnd" ELSE "discSignal"

(* The idle task does nothing when its source was removed meanwhile.       *)
DiscEnter ==
    /\ Runs("task", "discEnter")
    /\ IF op["task"] = "Disc" /\ task.removed
       THEN EndTask
       ELSE /\ Goto("task", IF discBusy THEN AfterDisc ELSE "discFlags")
            /\ UNCHANGED task
    /\ UNCHANGED <<scenario, state, stream, flags, framePending, idle, op, stage,
                   signals, counters>>

DiscFlags ==
    /\ Runs("task", "discFlags")
    /\ Goto("task", IF disc = Tracks THEN "discMark" ELSE AfterDisc)
    /\ UNCHANGED <<scenario, state, stream, flags, framePending, loop, op, stage,
                   signals, counters>>

DiscMark ==
    /\ Runs("task", "discMark")
    /\ discBusy' = TRUE
    /\ Goto("task", "discCheck")
    /\ UNCHANGED <<scenario, state, stream, reTune, retuning, discId, reporting,
                   disc, seeking, framePending, loop, op, stage, signals, counters>>

\* Fault: the flags are not read again.
DiscCheckOnce ==
    /\ Runs("task", "discCheck")
    /\ reporting' = TRUE
    /\ Goto("task", "discReport")
    /\ UNCHANGED <<scenario, state, stream, reTune, retuning, discId, discBusy,
                   disc, seeking, framePending, loop, op, stage, signals, counters>>

(* The flags are read again, now that a teardown would wait.               *)
DiscCheck ==
    /\ Runs("task", "discCheck")
    /\ reporting' = (disc = Tracks)
    /\ Goto("task", IF disc = Tracks THEN "discReport" ELSE "discDone")
    /\ UNCHANGED <<scenario, state, stream, reTune, retuning, discId, discBusy,
                   disc, seeking, framePending, loop, op, stage, signals, counters>>

(* ReportProgress delivers an event; the application may call from it.     *)
DiscResume ==
    /\ Runs("task", "discReport")
    /\ reporting' = FALSE
    /\ IF discBusy THEN Goto("task", "discSwitch") /\ UNCHANGED task
       ELSE IF op["task"] = "Eos" THEN Goto("task", "eosEnd") /\ UNCHANGED task
       ELSE EndTask
    /\ UNCHANGED <<scenario, state, stream, reTune, retuning, discId, discBusy,
                   disc, seeking, framePending, idle, op, stage, signals, counters>>

(* Injection is stopped, the sink flushed and configured, injection        *)
(* resumed.  Fragmented MP4 is not flushed: its end of stream stays queued.*)
DiscSwitch ==
    /\ Runs("task", "discSwitch")
    /\ disc' = {} /\ eosSignalled' = FALSE
    /\ idle' \in {idle, Dequeue("eos", 0)}
    /\ Goto("task", "discDone")
    /\ UNCHANGED <<scenario, state, stream, reTune, retuning, discId, discBusy,
                   reporting, seeking, framePending, task, op, stage, sink, counters>>

DiscDone ==
    /\ Runs("task", "discDone")
    /\ discBusy' = FALSE
    /\ Goto("task", AfterDisc)
    /\ UNCHANGED <<scenario, state, stream, reTune, retuning, discId, reporting,
                   disc, seeking, framePending, loop, op, stage, signals, counters>>

\* Fault: the idle task does not signal mCondDiscontinuity.
DiscSignalNobody ==
    /\ Runs("task", "discSignal")
    /\ discId' = 0
    /\ EndTask
    /\ UNCHANGED <<scenario, state, stream, reTune, retuning, discBusy, reporting,
                   disc, seeking, framePending, idle, op, stage, signals, counters>>

(* The idle task clears the id and wakes a teardown.                       *)
DiscSignal ==
    /\ Runs("task", "discSignal")
    /\ discId' = 0
    /\ Signal([pc EXCEPT !["task"] = "rest"], "discWait", "discWoken")
    /\ task' = NoSource
    /\ UNCHANGED <<scenario, state, stream, reTune, retuning, discBusy, reporting,
                   disc, seeking, framePending, idle, op, stage, signals, counters>>

-----------------------------------------------------------------------------
(* The injectors and the sink.                                             *)

(* Discontinuity(track): an injector reached one and the sink took it.     *)
Discontinuity ==
    /\ stream = "running"
    /\ disc = {} => discs < MaxDiscs
    /\ \E t \in Tracks \ disc :
          /\ disc' = disc \cup {t}
          /\ discs' = discs + (IF disc = {} THEN 1 ELSE 0)
    /\ UNCHANGED <<scenario, state, stream, reTune, retuning, discId, discBusy,
                   reporting, seeking, framePending, loop, frames, signals, calls,
                   underflows>>

(* ScheduleRetune, its checks: they hold no lock, so that the decision is  *)
(* applied to whatever the player has become.                              *)
RetuneCheck ==
    /\ scenario.sink \cap {"underflow", "internal"} # {}
    /\ sink = "none" /\ underflows < MaxUnderflows
    /\ stream = "running" /\ state = "playing" /\ ~seeking
    /\ underflows' = underflows + 1
    /\ \/ disc # {} /\ "underflow" \in scenario.sink /\ sink' = "disc"
       \/ disc = {} /\ "internal" \in scenario.sink /\ sink' = "retune"
    /\ UNCHANGED <<scenario, state, stream, flags, framePending, loop, frames,
                   eosSignalled, calls, discs>>

(* Under mLock: one discontinuity task at a time.                          *)
ScheduleDisc ==
    /\ sink = "disc" /\ sink' = "none"
    /\ IF discId = 0 /\ ~discBusy
       THEN /\ discId' = underflows
            /\ idle' = Append(idle, Source("disc", underflows))
       ELSE UNCHANGED <<discId, idle>>
    /\ UNCHANGED <<scenario, state, stream, reTune, retuning, discBusy, reporting,
                   disc, seeking, framePending, task, frames, eosSignalled, counters>>

(* Under gMutex: one re-tune at a time.                                    *)
ScheduleRetune ==
    /\ sink = "retune" /\ sink' = "none"
    /\ reTune' = TRUE
    /\ idle' = IF reTune THEN idle ELSE Append(idle, Source("retune", 0))
    /\ UNCHANGED <<scenario, state, stream, retuning, discId, discBusy, reporting,
                   disc, seeking, framePending, task, frames, eosSignalled, counters>>

(* NotifyEOS: the sink played everything it was given, which ends at a     *)
(* discontinuity or at the end of the content.                             *)
NotifyEOS ==
    /\ "eos" \in scenario.sink
    /\ stream = "running" /\ ~eosSignalled
    /\ eosSignalled' = TRUE
    /\ idle' = IF \E i \in DOMAIN idle : idle[i].kind = "eos" THEN idle
               ELSE Append(idle, Source("eos", 0))
    /\ UNCHANGED <<scenario, state, stream, flags, framePending, task, frames, sink,
                   counters>>

-----------------------------------------------------------------------------
Work(c) == \/ StopGate(c) \/ StopWoken(c) \/ StopStream(c) \/ Teardown(c)
           \/ TeardownWoken(c) \/ Delete(c) \/ StopEnd(c) \/ TuneBegin(c)
           \/ InitStream(c) \/ StartStream(c)

LoopWork == \/ RunRetune \/ RetuneEnd \/ RunDisc \/ RunEos \/ Eos \/ EosTuned
            \/ EosEnd \/ FirstFrame \/ DiscEnter \/ DiscFlags \/ DiscMark
            \/ DiscCheck \/ DiscResume \/ DiscSwitch \/ DiscDone \/ DiscSignal

Schedule == ScheduleDisc \/ ScheduleRetune

Next ==
    \/ \E c \in {"app", "call"} :
          CallStop(c) \/ CallTune(c) \/ CallSeek(c) \/ CallSwitch(c)
    \/ \E c \in Ctx : Work(c)
    \/ LoopWork
    \/ Discontinuity \/ RetuneCheck \/ Schedule \/ NotifyEOS

(* Every thread is scheduled; the application, the stream's contents and   *)
(* the sink's reports owe nothing.                                         *)
Fairness ==
    /\ \A c \in Ctx : WF_vars(Work(c))
    /\ WF_vars(LoopWork) /\ WF_vars(Schedule)

Spec == Init /\ [][Next]_vars /\ Fairness

-----------------------------------------------------------------------------
TypeOK ==
    /\ scenario \in Scenarios
    /\ state \in States /\ stream \in {"none", "built", "running"}
    /\ reTune \in BOOLEAN /\ retuning \in BOOLEAN /\ discBusy \in BOOLEAN
    /\ reporting \in BOOLEAN /\ seeking \in BOOLEAN /\ framePending \in BOOLEAN
    /\ discId \in 0..MaxUnderflows /\ disc \subseteq Tracks
    /\ idle \in Seq(Sources)
    /\ task \in [kind : {"none", "retune", "disc", "eos"}, id : 0..MaxUnderflows,
                 removed : BOOLEAN]
    /\ pc \in [Ctx -> PCs] /\ sink \in {"none", "disc", "retune"}
    /\ eosSignalled \in BOOLEAN
    /\ stage \in [Ctx -> {"none", "stop", "tune", "switch"}]

(* Nothing but the discontinuity task itself is told to give up: the calls *)
(* come from the main loop, where a teardown knows the task that it runs   *)
(* in, or they are never for a new stream.                                 *)
IdKept == scenario.app = "call" \/ scenario.ops \cap {"Stop", "Zap"} = {}

(* An id of a discontinuity task that is set names a task that will run to *)
(* its end: one that is queued, or the one the main loop is in.  It is what*)
(* a teardown that waits for the task relies on.  A Stop or a Tune over an *)
(* open session from another thread can break it.                          *)
DiscontinuityIdLive ==
    /\ TypeOK
    /\ IdKept /\ discId # 0 =>
        \/ \E i \in DOMAIN idle : idle[i].kind = "disc" /\ idle[i].id = discId
        \/ task.kind = "disc" /\ task.id = discId

(* A teardown for a seek, a change of tracks or an announced stop passes   *)
(* its gate only while the main loop is not moving the sink over a         *)
(* discontinuity in the task scheduled for it: it has waited for the move, *)
(* or the move will find that there is nothing left to do.  This holds for *)
(* the first discontinuity: the teardown waits once, and the task does not *)
(* look again whether it was removed, so that the tracks that reach another*)
(* meanwhile can set the task to work.                                     *)
TeardownAwaitsDiscontinuity ==
    [][(pc["app"] \in {"teardown", "discWoken"} /\ pc'["app"] = "delete"
        /\ (~NewTune("app") \/ state = "idle") /\ discs <= 1 /\ op["task"] = "Disc")
       => /\ pc["task"] # "discSwitch"
          /\ pc["task"] = "discReport" => ~discBusy']_vars

(* Stop goes on to take the stream down only when no re-tune is being done.*)
(* This holds for the first error of the sink: Stop waits once, and another*)
(* re-tune can be scheduled and begun before it is awake.                  *)
StopAwaitsRetune ==
    [][\A c \in Ctx : pc[c] \in {"stopGate", "stopWait", "stopWoken"}
                      /\ pc'[c] = "stopStream" /\ underflows <= 1 => ~retuning]_vars

(* Every call of the application returns.                                  *)
CallsReturn == \A c \in {"app", "call"} : (pc[c] # "rest") ~> (pc[c] = "rest")
=============================================================================
