---------------------------- MODULE PlayerProofs ----------------------------
(* The player as a set of contexts that tear streams down and build them,    *)
(* for every application and sink, and any number of calls, discontinuities  *)
(* and errors of the sink.                                                   *)
EXTENDS Player, SequenceTheorems, TLAPS

-----------------------------------------------------------------------------
(* The inductive invariant.                                                  *)

\* Where a context is while it is in Stop, in TuneHelper with TeardownStream,
\* and in ProcessPendingDiscontinuity.
StopLabels == {"stopGate", "stopWait", "stopWoken", "stopStream", "stopEnd"}
TuneLabels == {"tuneBegin", "teardown", "discWait", "discWoken", "delete", "init", "start"}
DiscLabels == {"discEnter", "discFlags", "discMark", "discCheck", "discReport",
               "discSwitch", "discDone"}

QueuedDisc(id) == \E i \in DOMAIN idle : idle[i].kind = "disc" /\ idle[i].id = id

\* What TypeOK leaves out.
CountInv ==
    /\ op \in [Ctx -> AllOps \cup {"none", "Retune", "Disc", "Eos"}]
    /\ calls \in Nat /\ discs \in Nat /\ underflows \in 0..MaxUnderflows

\* The source that the main loop runs decides where the loop can be, and the
\* flags of a discontinuity are set exactly in the steps between its marks.
LoopInv ==
    /\ task.kind = "none" <=> pc["task"] = "rest"
    /\ task.kind = "retune" =>
          op["task"] = "Retune" /\ pc["task"] \in TuneLabels \cup {"retuneEnd"}
    /\ task.kind = "disc" =>
          op["task"] = "Disc" /\ pc["task"] \in DiscLabels \cup {"discSignal"}
    /\ task.kind = "eos" =>
          /\ op["task"] = "Eos"
          /\ pc["task"] \in TuneLabels \cup DiscLabels \cup {"eosEnter", "eosTuned", "eosEnd"}
    /\ pc["task"] # "rest" => stage["task"] = "tune"
    /\ reporting <=> pc["task"] = "discReport"
    /\ discBusy => pc["task"] \in {"discCheck", "discReport", "discSwitch", "discDone"}
    /\ pc["task"] \in {"discCheck", "discSwitch", "discDone"} => discBusy
    /\ retuning <=> task.kind = "retune"

\* A call comes from where the application calls, and what it tears down for
\* is told by the call and by how far it has come.
CallInv ==
    \A c \in {"app", "call"} :
        /\ c # scenario.app => pc[c] = "rest"
        /\ pc[c] \in {"rest"} \cup StopLabels \cup TuneLabels
        /\ pc[c] # "rest" => op[c] \in scenario.ops /\ stage[c] \in {"stop", "tune", "switch"}
        /\ pc[c] \in StopLabels => stage[c] = "stop"
        /\ pc[c] \in {"tuneBegin", "init", "start"} => stage[c] = "tune"
        /\ pc[c] # "rest" /\ stage[c] = "stop" => op[c] \in {"Stop", "Zap"}
        /\ pc[c] # "rest" /\ stage[c] = "tune" => op[c] # "Stop"
        /\ pc[c] # "rest" /\ stage[c] = "switch" => op[c] = "Switch"

\* The id of a discontinuity task belongs to one source for ever: the next one
\* to be scheduled is new, and a task told to give up has lost its id.
IdsInv ==
    /\ \A i \in DOMAIN idle : idle[i].kind = "disc" => idle[i].id \in 1..underflows
    /\ \A i, j \in DOMAIN idle :
          idle[i].kind = "disc" /\ idle[j].kind = "disc" /\ idle[i].id = idle[j].id => i = j
    /\ task.kind = "disc" => task.id \in 1..underflows
    /\ discId \in 0..underflows
    /\ sink = "disc" => /\ underflows > 0 /\ discId # underflows /\ ~QueuedDisc(underflows)
                        /\ task.kind = "disc" => task.id # underflows
    /\ task.kind = "disc" => ~QueuedDisc(task.id)
    /\ task.kind = "disc" /\ task.removed => task.id # discId

\* A Tune over an open session, made on the main loop, is between the teardown
\* of its Stop, which can leave the id of the task that it runs in, and its own.
Zapping ==
    /\ op["call"] = "Zap"
    /\ \/ pc["call"] \in {"delete", "stopEnd"} /\ stage["call"] = "stop"
       \/ pc["call"] \in {"tuneBegin", "teardown"} /\ stage["call"] = "tune"

\* A call that reaches TeardownStream for a new stream finds the player idle;
\* a player that an application of its own thread has not tuned does nothing.
IdleInv ==
    /\ op["call"] = "Stop" /\ pc["call"] \in (StopLabels \ {"stopEnd"}) \cup {"teardown"}
          => state = "idle"
    /\ op["call"] \in {"Tune", "Zap"} /\ pc["call"] \in {"tuneBegin", "teardown"}
       /\ stage["call"] = "tune" => state = "idle"
    /\ scenario.app = "app" /\ IdKept =>
         /\ state = "idle" => /\ stream = "none" /\ discId = 0 /\ pc["task"] = "rest"
                              /\ idle = <<>> /\ sink = "none" /\ ~framePending
         /\ op["app"] = "Tune" /\ pc["app"] \in {"tuneBegin", "teardown"} => state = "idle"
         /\ state = "idle" => pc["app"] = "rest" \/ op["app"] = "Tune"

\* DiscontinuityIdLive, and what keeps it when the task gives up in a report.
LiveInv ==
    IdKept /\ discId # 0 => QueuedDisc(discId) \/ (task.kind = "disc" /\ task.id = discId)

GivenUpInv ==
    IdKept /\ pc["task"] = "discReport" /\ op["task"] = "Disc" /\ ~discBusy
        => task.id # discId \/ Zapping

\* Until the sink's second error there is one re-tune: decided, queued or run.
StopInv ==
    underflows <= 1 =>
      /\ sink = "retune" => /\ underflows = 1 /\ task.kind # "retune"
                            /\ \A i \in DOMAIN idle : idle[i].kind # "retune"
      /\ \A i \in DOMAIN idle : idle[i].kind = "retune" =>
            /\ underflows = 1 /\ task.kind # "retune"
            /\ \A j \in DOMAIN idle : idle[j].kind = "retune" => j = i
      /\ task.kind = "retune" => underflows = 1 /\ reTune
      /\ \A c \in Ctx : pc[c] = "stopWoken" =>
           /\ underflows = 1 /\ sink # "retune" /\ task.kind # "retune"
           /\ \A i \in DOMAIN idle : idle[i].kind # "retune"

\* Whatever is done about a discontinuity is done after the first one.
DiscInv ==
    /\ disc # {} => discs > 0
    /\ task.kind = "disc" => discs > 0
    /\ sink = "disc" => discs > 0
    /\ \A i \in DOMAIN idle : idle[i].kind = "disc" => discs > 0
    /\ pc["task"] \in {"discMark", "discCheck", "discReport", "discSwitch", "discDone"}
          => discs > 0
    /\ \A c \in Ctx : pc[c] \in {"discWait", "discWoken"} => discs > 0

\* Until the second discontinuity the flags of the tracks, once cleared, stay
\* clear: a task whose id was taken away, and one that a teardown has waited
\* for, find nothing to do.
MoveInv ==
    discs <= 1 =>
      /\ pc["task"] \in {"discMark", "discCheck"} => disc \in {{}, Tracks}
      /\ pc["task"] = "discDone" => disc = {}
      /\ task.kind = "disc" /\ task.id # discId /\ pc["task"] # "discReport"
            => pc["task"] # "discSwitch" /\ disc = {}
      /\ task.kind = "disc" /\ pc["task"] = "discReport" /\ discBusy => task.id = discId
      /\ \A i \in DOMAIN idle : idle[i].kind = "disc" /\ idle[i].id # discId => disc = {}
      /\ \A c \in Ctx : pc[c] = "discWait" => discBusy \/ disc = {}
      /\ \A c \in Ctx : pc[c] = "discWoken" =>
           disc = {} /\ pc["task"] \notin {"discMark", "discCheck", "discReport", "discSwitch"}

IInv == /\ TypeOK /\ CountInv /\ LoopInv /\ CallInv /\ IdsInv /\ IdleInv
        /\ LiveInv /\ GivenUpInv /\ StopInv /\ DiscInv /\ MoveInv

-----------------------------------------------------------------------------
(* The queue of the main loop.                                               *)

\* q holds sources that are queued, each no more often than it is queued.
Drawn(q) == \A j, k \in DOMAIN q : \E i, l \in DOMAIN idle :
               q[j] = idle[i] /\ q[k] = idle[l] /\ (i = l => j = k)

\* Removing a source keeps the others, once each.
LEMMA Dequeued ==
    ASSUME TypeOK, NEW kind, NEW id
    PROVE  /\ Dequeue(kind, id) \in Seq(Sources)
           /\ \A i \in DOMAIN idle : ~(idle[i].kind = kind /\ idle[i].id = id) =>
                 \E j \in DOMAIN Dequeue(kind, id) : Dequeue(kind, id)[j] = idle[i]
           /\ Drawn(Dequeue(kind, id))
<1>. DEFINE at == {i \in DOMAIN idle : idle[i].kind = kind /\ idle[i].id = id}
<1>0. idle \in Seq(Sources)  BY DEF TypeOK
<1>1. CASE at = {}
  <2>1. Dequeue(kind, id) = idle  BY <1>1 DEF Dequeue
  <2>2. Drawn(idle)  BY DEF Drawn
  <2>. QED  BY <1>0, <1>1, <2>1, <2>2
<1>2. CASE at # {}
  <2>1. PICK a \in at : Dequeue(kind, id) = RemoveAt(idle, a)
    BY <1>2 DEF Dequeue
  <2>2. a \in 1..Len(idle) /\ Len(idle) \in Nat
    BY <1>0
  <2>. HIDE DEF at
  <2>3. /\ Dequeue(kind, id) \in Seq(Sources)
        /\ Len(Dequeue(kind, id)) = Len(idle) - 1
        /\ \A j \in 1..Len(idle) - 1 :
             Dequeue(kind, id)[j] = idle[IF j < a THEN j ELSE j + 1]
    <3>. DEFINE front == SubSeq(idle, 1, a - 1)
                back  == SubSeq(idle, a + 1, Len(idle))
    <3>1. /\ front \in Seq(Sources) /\ Len(front) = a - 1
          /\ \A j \in 1..a - 1 : front[j] = idle[j]
      BY <1>0, <2>2, SubSeqProperties
    <3>2. /\ back \in Seq(Sources) /\ Len(back) = Len(idle) - a
          /\ \A j \in 1..Len(idle) - a : back[j] = idle[a + j]
      BY <1>0, <2>2, SubSeqProperties
    <3>3. Dequeue(kind, id) = front \o back
      BY <2>1 DEF RemoveAt
    <3>. HIDE DEF front, back
    <3>4. front \o back \in Seq(Sources) /\ Len(front \o back) = Len(idle) - 1
      <4>1. Len(front \o back) = Len(front) + Len(back)
        BY <3>1, <3>2, ConcatProperties
      <4>. QED  BY <2>2, <3>1, <3>2, <4>1, ConcatProperties
    <3>5. ASSUME NEW j \in 1..Len(idle) - 1
          PROVE  (front \o back)[j] = idle[IF j < a THEN j ELSE j + 1]
      <4>1. CASE j < a
        BY <2>2, <3>1, <3>2, <4>1
      <4>2. CASE ~(j < a)
        <5>1. (front \o back)[j] = back[j - (a - 1)]
          BY <2>2, <3>1, <3>2, <4>2
        <5>2. j - (a - 1) \in 1..Len(idle) - a /\ a + (j - (a - 1)) = j + 1
          BY <2>2, <4>2
        <5>. QED  BY <3>2, <4>2, <5>1, <5>2
      <4>. QED  BY <4>1, <4>2
    <3>. QED  BY <3>3, <3>4, <3>5
  <2>4. ASSUME NEW i \in DOMAIN idle, ~(idle[i].kind = kind /\ idle[i].id = id)
        PROVE  \E j \in DOMAIN Dequeue(kind, id) : Dequeue(kind, id)[j] = idle[i]
    <3>1. i \in 1..Len(idle) /\ i # a  BY <1>0, <2>4 DEF at
    <3>2. CASE i < a
      BY <2>2, <2>3, <3>1, <3>2
    <3>3. CASE i > a
      <4>. DEFINE j == i - 1
      <4>1. j \in 1..Len(idle) - 1 /\ ~(j < a) /\ j + 1 = i  BY <2>2, <3>1, <3>3
      <4>. QED  BY <2>3, <4>1
    <3>4. i < a \/ i > a  BY <2>2, <3>1
    <3>. QED  BY <3>2, <3>3, <3>4
  <2>5. DOMAIN Dequeue(kind, id) = 1..Len(idle) - 1
    BY <2>3
  <2>6. ASSUME NEW j \in 1..Len(idle) - 1, NEW k \in 1..Len(idle) - 1
        PROVE  \E i, l \in DOMAIN idle : /\ Dequeue(kind, id)[j] = idle[i]
                                         /\ Dequeue(kind, id)[k] = idle[l]
                                         /\ i = l => j = k
    <3>. DEFINE from(m) == IF m < a THEN m ELSE m + 1
    <3>1. from(j) \in 1..Len(idle) /\ from(k) \in 1..Len(idle)
      BY <2>2
    <3>2. DOMAIN idle = 1..Len(idle)
      BY <1>0
    <3>3. Dequeue(kind, id)[j] = idle[from(j)] /\ Dequeue(kind, id)[k] = idle[from(k)]
      BY <2>3
    <3>4. from(j) = from(k) => j = k
      BY <2>2
    <3>. QED  BY <3>1, <3>2, <3>3, <3>4
  <2>7. Drawn(Dequeue(kind, id))
    BY <2>5, <2>6 DEF Drawn
  <2>. QED  BY <2>3, <2>4, <2>7
<1>. QED  BY <1>1, <1>2

\* A signal moves nobody but one of the contexts that are blocked.
LEMMA Signalled ==
    ASSUME NEW moved \in [Ctx -> PCs], NEW from, NEW to \in PCs, Signal(moved, from, to)
    PROVE  /\ pc' \in [Ctx -> PCs]
           /\ \A c \in Ctx : \/ pc'[c] = moved[c]
                             \/ moved[c] = from /\ pc'[c] = to
BY DEF Signal

\* The source the main loop is running, or none.
Tasks == [kind : {"none", "retune", "disc", "eos"}, id : 0..MaxUnderflows,
          removed : BOOLEAN]

LEMMA SourceTypes ==
    /\ NoSource \in Tasks
    /\ Sources \subseteq Tasks
    /\ \A kind \in {"retune", "disc", "eos"}, id \in 0..MaxUnderflows :
          Source(kind, id) \in Sources
<1>0. MaxUnderflows \in Nat  BY ConstantsAssumption
<1>1. NoSource \in Tasks  BY <1>0 DEF NoSource, Tasks
<1>2. Sources \subseteq Tasks  BY DEF Tasks, Sources
<1>3. ASSUME NEW kind \in {"retune", "disc", "eos"}, NEW id \in 0..MaxUnderflows
      PROVE  Source(kind, id) \in Sources
  BY DEF Sources, Source
<1>. QED  BY <1>1, <1>2, <1>3

LEMMA QueueTypes ==
    ASSUME TypeOK
    PROVE  /\ idle # <<>> => Head(idle) \in Sources /\ Tail(idle) \in Seq(Sources)
           /\ \A s \in Sources : Append(idle, s) \in Seq(Sources)
BY DEF TypeOK

LEMMA ScenarioTypes ==
    TypeOK => scenario.app \in {"app", "call"} /\ scenario.ops \subseteq AllOps
BY ConstantsAssumption DEF TypeOK, Scenario

\* Every step keeps each part of the invariant.
LEMMA TypeStep ==
    ASSUME TypeOK, CountInv, LoopInv, CallInv, Next
    PROVE  TypeOK'
<1>. USE DEF TypeOK, Ctx, PCs, States
<1>1. ASSUME NEW c \in {"app", "call"}, CallStop(c) PROVE TypeOK'
  BY <1>1, ConstantsAssumption DEF CallStop, flags, loop, signals, Enter,
      MayCall
<1>2. ASSUME NEW c \in {"app", "call"}, CallTune(c) PROVE TypeOK'
  BY <1>2, ConstantsAssumption DEF CallTune, flags, loop, signals, Enter,
      MayCall
<1>3. ASSUME NEW c \in {"app", "call"}, CallSeek(c) PROVE TypeOK'
  BY <1>3, ConstantsAssumption DEF CallSeek, flags, loop, signals, Enter,
      MayCall
<1>4. ASSUME NEW c \in {"app", "call"}, CallSwitch(c) PROVE TypeOK'
  BY <1>4, ConstantsAssumption DEF CallSwitch, flags, loop, signals, Enter,
      MayCall
<1>5. ASSUME NEW c \in Ctx, StopGate(c) PROVE TypeOK'
  <2>1. /\ scenario' \in Scenarios /\ state' \in States
          /\ stream' \in {"none", "built", "running"}
    BY <1>5 DEF StopGate, loop, signals, counters, Runs, Goto
  <2>2. /\ reTune' \in BOOLEAN /\ retuning' \in BOOLEAN /\ discBusy' \in BOOLEAN
          /\ reporting' \in BOOLEAN /\ seeking' \in BOOLEAN /\ framePending' \in BOOLEAN
    BY <1>5 DEF StopGate, loop, signals, counters, Runs, Goto
  <2>3. discId' \in 0..MaxUnderflows /\ disc' \subseteq Tracks
    BY <1>5 DEF StopGate, loop, signals, counters, Runs, Goto
  <2>4. idle' \in Seq(Sources)
    BY <1>5 DEF StopGate, loop, signals, counters, Runs, Goto
  <2>5. task' \in Tasks
    BY <1>5 DEF StopGate, loop, signals, counters, Runs, Goto, Tasks
  <2>6. sink' \in {"none", "disc", "retune"} /\ eosSignalled' \in BOOLEAN
    BY <1>5 DEF StopGate, loop, signals, counters, Runs, Goto
  <2>7. pc' \in [Ctx -> PCs]
    BY <1>5 DEF StopGate, loop, signals, counters, Runs, Goto
  <2>8. stage' \in [Ctx -> {"none", "stop", "tune", "switch"}]
    BY <1>5 DEF StopGate, loop, signals, counters, Runs, Goto
  <2>. QED  BY <2>1, <2>2, <2>3, <2>4, <2>5, <2>6, <2>7, <2>8 DEF Tasks
<1>6. ASSUME NEW c \in Ctx, StopWoken(c) PROVE TypeOK'
  <2>1. /\ scenario' \in Scenarios /\ state' \in States
          /\ stream' \in {"none", "built", "running"}
    BY <1>6 DEF StopWoken, loop, signals, counters, Runs, Goto
  <2>2. /\ reTune' \in BOOLEAN /\ retuning' \in BOOLEAN /\ discBusy' \in BOOLEAN
          /\ reporting' \in BOOLEAN /\ seeking' \in BOOLEAN /\ framePending' \in BOOLEAN
    BY <1>6 DEF StopWoken, loop, signals, counters, Runs, Goto
  <2>3. discId' \in 0..MaxUnderflows /\ disc' \subseteq Tracks
    BY <1>6 DEF StopWoken, loop, signals, counters, Runs, Goto
  <2>4. idle' \in Seq(Sources)
    BY <1>6 DEF StopWoken, loop, signals, counters, Runs, Goto
  <2>5. task' \in Tasks
    BY <1>6 DEF StopWoken, loop, signals, counters, Runs, Goto, Tasks
  <2>6. sink' \in {"none", "disc", "retune"} /\ eosSignalled' \in BOOLEAN
    BY <1>6 DEF StopWoken, loop, signals, counters, Runs, Goto
  <2>7. pc' \in [Ctx -> PCs]
    BY <1>6 DEF StopWoken, loop, signals, counters, Runs, Goto
  <2>8. stage' \in [Ctx -> {"none", "stop", "tune", "switch"}]
    BY <1>6 DEF StopWoken, loop, signals, counters, Runs, Goto
  <2>. QED  BY <2>1, <2>2, <2>3, <2>4, <2>5, <2>6, <2>7, <2>8 DEF Tasks
<1>7. ASSUME NEW c \in Ctx, StopStream(c) PROVE TypeOK'
  BY <1>7, ConstantsAssumption DEF StopStream, flags, loop, signals, counters,
      Runs, Goto
<1>8. ASSUME NEW c \in Ctx, Teardown(c) PROVE TypeOK'
  <2>1. /\ scenario' \in Scenarios /\ state' \in States
          /\ stream' \in {"none", "built", "running"}
    BY <1>8 DEF Teardown, loop, signals, counters, Runs, Goto, NewTune,
        InOwnDiscTask, RemoveDisc, OnLoop
  <2>2. /\ reTune' \in BOOLEAN /\ retuning' \in BOOLEAN /\ discBusy' \in BOOLEAN
          /\ reporting' \in BOOLEAN /\ seeking' \in BOOLEAN /\ framePending' \in BOOLEAN
    BY <1>8 DEF Teardown, loop, signals, counters, Runs, Goto, NewTune,
        InOwnDiscTask, RemoveDisc, OnLoop
  <2>3. discId' \in 0..MaxUnderflows /\ disc' \subseteq Tracks
    BY <1>8, ConstantsAssumption DEF Teardown, loop, signals, counters, Runs,
        Goto, NewTune, InOwnDiscTask, RemoveDisc, OnLoop
  <2>4. idle' \in Seq(Sources)
    BY <1>8, Dequeued DEF Teardown, loop, signals, counters, Runs, Goto,
        NewTune, InOwnDiscTask, RemoveDisc, OnLoop, RemoveDisc
  <2>5. task' \in Tasks
    BY <1>8 DEF Teardown, loop, signals, counters, Runs, Goto, NewTune,
        InOwnDiscTask, RemoveDisc, OnLoop, Tasks
  <2>6. sink' \in {"none", "disc", "retune"} /\ eosSignalled' \in BOOLEAN
    BY <1>8 DEF Teardown, loop, signals, counters, Runs, Goto, NewTune,
        InOwnDiscTask, RemoveDisc, OnLoop
  <2>7. pc' \in [Ctx -> PCs]
    BY <1>8 DEF Teardown, loop, signals, counters, Runs, Goto, NewTune,
        InOwnDiscTask, RemoveDisc, OnLoop
  <2>8. stage' \in [Ctx -> {"none", "stop", "tune", "switch"}]
    BY <1>8 DEF Teardown, loop, signals, counters, Runs, Goto, NewTune,
        InOwnDiscTask, RemoveDisc, OnLoop
  <2>. QED  BY <2>1, <2>2, <2>3, <2>4, <2>5, <2>6, <2>7, <2>8 DEF Tasks
<1>9. ASSUME NEW c \in Ctx, TeardownWoken(c) PROVE TypeOK'
  BY <1>9, ConstantsAssumption DEF TeardownWoken, loop, signals, counters,
      Runs, Goto
<1>10. ASSUME NEW c \in Ctx, Delete(c) PROVE TypeOK'
  <2>1. /\ scenario' \in Scenarios /\ state' \in States
          /\ stream' \in {"none", "built", "running"}
    BY <1>10 DEF Delete, flags, signals, counters, Runs, Goto
  <2>2. /\ reTune' \in BOOLEAN /\ retuning' \in BOOLEAN /\ discBusy' \in BOOLEAN
          /\ reporting' \in BOOLEAN /\ seeking' \in BOOLEAN /\ framePending' \in BOOLEAN
    BY <1>10 DEF Delete, flags, signals, counters, Runs, Goto
  <2>3. discId' \in 0..MaxUnderflows /\ disc' \subseteq Tracks
    BY <1>10 DEF Delete, flags, signals, counters, Runs, Goto
  <2>4. idle' \in Seq(Sources)
    BY <1>10, Dequeued DEF Delete, flags, signals, counters, Runs, Goto
  <2>5. task' \in Tasks
    BY <1>10 DEF Delete, flags, signals, counters, Runs, Goto, Tasks
  <2>6. sink' \in {"none", "disc", "retune"} /\ eosSignalled' \in BOOLEAN
    BY <1>10 DEF Delete, flags, signals, counters, Runs, Goto
  <2>7. pc' \in [Ctx -> PCs]
    <3>1. stage[c] \in {"none", "stop", "tune", "switch"}  OBVIOUS
    <3>2. stage[c] # "none"
      BY <1>10 DEF Delete, Runs, LoopInv, CallInv, StopLabels, TuneLabels, DiscLabels
    <3>. QED  BY <1>10, <3>1, <3>2 DEF Delete, Runs, Goto
  <2>8. stage' \in [Ctx -> {"none", "stop", "tune", "switch"}]
    BY <1>10 DEF Delete, flags, signals, counters, Runs, Goto
  <2>. QED  BY <2>1, <2>2, <2>3, <2>4, <2>5, <2>6, <2>7, <2>8 DEF Tasks
<1>11. ASSUME NEW c \in Ctx, StopEnd(c) PROVE TypeOK'
  <2>1. /\ scenario' \in Scenarios /\ state' \in States
          /\ stream' \in {"none", "built", "running"}
    BY <1>11 DEF StopEnd, loop, signals, counters, Runs, Goto
  <2>2. /\ reTune' \in BOOLEAN /\ retuning' \in BOOLEAN /\ discBusy' \in BOOLEAN
          /\ reporting' \in BOOLEAN /\ seeking' \in BOOLEAN /\ framePending' \in BOOLEAN
    BY <1>11 DEF StopEnd, loop, signals, counters, Runs, Goto
  <2>3. discId' \in 0..MaxUnderflows /\ disc' \subseteq Tracks
    BY <1>11 DEF StopEnd, loop, signals, counters, Runs, Goto
  <2>4. idle' \in Seq(Sources)
    BY <1>11 DEF StopEnd, loop, signals, counters, Runs, Goto
  <2>5. task' \in Tasks
    BY <1>11 DEF StopEnd, loop, signals, counters, Runs, Goto, Tasks
  <2>6. sink' \in {"none", "disc", "retune"} /\ eosSignalled' \in BOOLEAN
    BY <1>11 DEF StopEnd, loop, signals, counters, Runs, Goto
  <2>7. pc' \in [Ctx -> PCs]
    BY <1>11 DEF StopEnd, loop, signals, counters, Runs, Goto
  <2>8. stage' \in [Ctx -> {"none", "stop", "tune", "switch"}]
    BY <1>11 DEF StopEnd, loop, signals, counters, Runs, Goto
  <2>. QED  BY <2>1, <2>2, <2>3, <2>4, <2>5, <2>6, <2>7, <2>8 DEF Tasks
<1>12. ASSUME NEW c \in Ctx, TuneBegin(c) PROVE TypeOK'
  BY <1>12, ConstantsAssumption DEF TuneBegin, loop, signals, counters, Runs,
      Goto, SeekType
<1>13. ASSUME NEW c \in Ctx, InitStream(c) PROVE TypeOK'
  BY <1>13, ConstantsAssumption DEF InitStream, flags, loop, signals,
      counters, Runs, Goto, SeekType, Return
<1>14. ASSUME NEW c \in Ctx, StartStream(c) PROVE TypeOK'
  BY <1>14, ConstantsAssumption DEF StartStream, loop, counters, Runs, Goto,
      SeekType, Return
<1>15. ASSUME RunRetune PROVE TypeOK'
  <2>1. /\ scenario' \in Scenarios /\ state' \in States
          /\ stream' \in {"none", "built", "running"}
    BY <1>15 DEF RunRetune, frames, signals, counters, LoopFree, Dispatch,
        NoSource
  <2>2. /\ reTune' \in BOOLEAN /\ retuning' \in BOOLEAN /\ discBusy' \in BOOLEAN
          /\ reporting' \in BOOLEAN /\ seeking' \in BOOLEAN /\ framePending' \in BOOLEAN
    BY <1>15 DEF RunRetune, frames, signals, counters, LoopFree, Dispatch,
        NoSource
  <2>3. discId' \in 0..MaxUnderflows /\ disc' \subseteq Tracks
    BY <1>15 DEF RunRetune, frames, signals, counters, LoopFree, Dispatch,
        NoSource
  <2>4. idle' \in Seq(Sources)
    BY <1>15, QueueTypes DEF RunRetune, frames, signals, counters, LoopFree,
        Dispatch, NoSource
  <2>5. task' \in Tasks
    BY <1>15, QueueTypes, SourceTypes DEF RunRetune, frames, signals, counters,
        LoopFree, Dispatch, Tasks
  <2>6. sink' \in {"none", "disc", "retune"} /\ eosSignalled' \in BOOLEAN
    BY <1>15 DEF RunRetune, frames, signals, counters, LoopFree, Dispatch,
        NoSource
  <2>7. pc' \in [Ctx -> PCs]
    BY <1>15 DEF RunRetune, frames, signals, counters, LoopFree, Dispatch,
        NoSource
  <2>8. stage' \in [Ctx -> {"none", "stop", "tune", "switch"}]
    BY <1>15 DEF RunRetune, frames, signals, counters, LoopFree, Dispatch,
        NoSource
  <2>. QED  BY <2>1, <2>2, <2>3, <2>4, <2>5, <2>6, <2>7, <2>8 DEF Tasks
<1>16. ASSUME RetuneEnd PROVE TypeOK'
  <2>1. /\ scenario' \in Scenarios /\ state' \in States
          /\ stream' \in {"none", "built", "running"}
    BY <1>16 DEF RetuneEnd, signals, counters, Runs, NoSource
  <2>2. /\ reTune' \in BOOLEAN /\ retuning' \in BOOLEAN /\ discBusy' \in BOOLEAN
          /\ reporting' \in BOOLEAN /\ seeking' \in BOOLEAN /\ framePending' \in BOOLEAN
    BY <1>16 DEF RetuneEnd, signals, counters, Runs, NoSource
  <2>3. discId' \in 0..MaxUnderflows /\ disc' \subseteq Tracks
    BY <1>16 DEF RetuneEnd, signals, counters, Runs, NoSource
  <2>4. idle' \in Seq(Sources)
    BY <1>16 DEF RetuneEnd, signals, counters, Runs, NoSource
  <2>5. task' \in Tasks
    BY <1>16, SourceTypes DEF RetuneEnd, signals, counters, Runs, Tasks
  <2>6. sink' \in {"none", "disc", "retune"} /\ eosSignalled' \in BOOLEAN
    BY <1>16 DEF RetuneEnd, signals, counters, Runs, NoSource
  <2>7. pc' \in [Ctx -> PCs]
    BY <1>16, Signalled DEF RetuneEnd, signals, counters, Runs, NoSource
  <2>8. stage' \in [Ctx -> {"none", "stop", "tune", "switch"}]
    BY <1>16 DEF RetuneEnd, signals, counters, Runs, NoSource
  <2>. QED  BY <2>1, <2>2, <2>3, <2>4, <2>5, <2>6, <2>7, <2>8 DEF Tasks
<1>17. ASSUME RunDisc PROVE TypeOK'
  <2>1. /\ scenario' \in Scenarios /\ state' \in States
          /\ stream' \in {"none", "built", "running"}
    BY <1>17 DEF RunDisc, flags, signals, counters, LoopFree, Dispatch,
        NoSource
  <2>2. /\ reTune' \in BOOLEAN /\ retuning' \in BOOLEAN /\ discBusy' \in BOOLEAN
          /\ reporting' \in BOOLEAN /\ seeking' \in BOOLEAN /\ framePending' \in BOOLEAN
    BY <1>17 DEF RunDisc, flags, signals, counters, LoopFree, Dispatch,
        NoSource
  <2>3. discId' \in 0..MaxUnderflows /\ disc' \subseteq Tracks
    BY <1>17 DEF RunDisc, flags, signals, counters, LoopFree, Dispatch,
        NoSource
  <2>4. idle' \in Seq(Sources)
    BY <1>17, QueueTypes DEF RunDisc, flags, signals, counters, LoopFree,
        Dispatch, NoSource
  <2>5. task' \in Tasks
    BY <1>17, QueueTypes, SourceTypes DEF RunDisc, flags, signals, counters,
        LoopFree, Dispatch, Tasks
  <2>6. sink' \in {"none", "disc", "retune"} /\ eosSignalled' \in BOOLEAN
    BY <1>17 DEF RunDisc, flags, signals, counters, LoopFree, Dispatch,
        NoSource
  <2>7. pc' \in [Ctx -> PCs]
    BY <1>17 DEF RunDisc, flags, signals, counters, LoopFree, Dispatch,
        NoSource
  <2>8. stage' \in [Ctx -> {"none", "stop", "tune", "switch"}]
    BY <1>17 DEF RunDisc, flags, signals, counters, LoopFree, Dispatch,
        NoSource
  <2>. QED  BY <2>1, <2>2, <2>3, <2>4, <2>5, <2>6, <2>7, <2>8 DEF Tasks
<1>18. ASSUME RunEos PROVE TypeOK'
  <2>1. /\ scenario' \in Scenarios /\ state' \in States
          /\ stream' \in {"none", "built", "running"}
    BY <1>18 DEF RunEos, flags, signals, counters, LoopFree, Dispatch, NoSource
  <2>2. /\ reTune' \in BOOLEAN /\ retuning' \in BOOLEAN /\ discBusy' \in BOOLEAN
          /\ reporting' \in BOOLEAN /\ seeking' \in BOOLEAN /\ framePending' \in BOOLEAN
    BY <1>18 DEF RunEos, flags, signals, counters, LoopFree, Dispatch, NoSource
  <2>3. discId' \in 0..MaxUnderflows /\ disc' \subseteq Tracks
    BY <1>18 DEF RunEos, flags, signals, counters, LoopFree, Dispatch, NoSource
  <2>4. idle' \in Seq(Sources)
    BY <1>18, QueueTypes DEF RunEos, flags, signals, counters, LoopFree,
        Dispatch, NoSource
  <2>5. task' \in Tasks
    BY <1>18, QueueTypes, SourceTypes DEF RunEos, flags, signals, counters,
        LoopFree, Dispatch, Tasks
  <2>6. sink' \in {"none", "disc", "retune"} /\ eosSignalled' \in BOOLEAN
    BY <1>18 DEF RunEos, flags, signals, counters, LoopFree, Dispatch, NoSource
  <2>7. pc' \in [Ctx -> PCs]
    BY <1>18 DEF RunEos, flags, signals, counters, LoopFree, Dispatch, NoSource
  <2>8. stage' \in [Ctx -> {"none", "stop", "tune", "switch"}]
    BY <1>18 DEF RunEos, flags, signals, counters, LoopFree, Dispatch, NoSource
  <2>. QED  BY <2>1, <2>2, <2>3, <2>4, <2>5, <2>6, <2>7, <2>8 DEF Tasks
<1>19. ASSUME Eos PROVE TypeOK'
  BY <1>19, ConstantsAssumption DEF Eos, flags, loop, signals, counters, Runs,
      Goto
<1>20. ASSUME EosTuned PROVE TypeOK'
  BY <1>20, ConstantsAssumption DEF EosTuned, flags, signals, counters, Runs,
      EndTask, Goto, NoSource
<1>21. ASSUME EosEnd PROVE TypeOK'
  BY <1>21, ConstantsAssumption DEF EosEnd, flags, signals, counters, Runs,
      EndTask, Goto, NoSource
<1>22. ASSUME FirstFrame PROVE TypeOK'
  BY <1>22, ConstantsAssumption DEF FirstFrame, flags, loop, frames, signals,
      counters, LoopFree, NoSource
<1>23. ASSUME DiscEnter PROVE TypeOK'
  <2>1. /\ scenario' \in Scenarios /\ state' \in States
          /\ stream' \in {"none", "built", "running"}
    BY <1>23 DEF DiscEnter, flags, signals, counters, Runs, Goto, EndTask,
        AfterDisc, NoSource
  <2>2. /\ reTune' \in BOOLEAN /\ retuning' \in BOOLEAN /\ discBusy' \in BOOLEAN
          /\ reporting' \in BOOLEAN /\ seeking' \in BOOLEAN /\ framePending' \in BOOLEAN
    BY <1>23 DEF DiscEnter, flags, signals, counters, Runs, Goto, EndTask,
        AfterDisc, NoSource
  <2>3. discId' \in 0..MaxUnderflows /\ disc' \subseteq Tracks
    BY <1>23 DEF DiscEnter, flags, signals, counters, Runs, Goto, EndTask,
        AfterDisc, NoSource
  <2>4. idle' \in Seq(Sources)
    BY <1>23 DEF DiscEnter, flags, signals, counters, Runs, Goto, EndTask,
        AfterDisc, NoSource
  <2>5. task' \in Tasks
    BY <1>23, SourceTypes DEF DiscEnter, flags, signals, counters, Runs, Goto,
        EndTask, AfterDisc, Tasks
  <2>6. sink' \in {"none", "disc", "retune"} /\ eosSignalled' \in BOOLEAN
    BY <1>23 DEF DiscEnter, flags, signals, counters, Runs, Goto, EndTask,
        AfterDisc, NoSource
  <2>7. pc' \in [Ctx -> PCs]
    BY <1>23 DEF DiscEnter, flags, signals, counters, Runs, Goto, EndTask,
        AfterDisc, NoSource
  <2>8. stage' \in [Ctx -> {"none", "stop", "tune", "switch"}]
    BY <1>23 DEF DiscEnter, flags, signals, counters, Runs, Goto, EndTask,
        AfterDisc, NoSource
  <2>. QED  BY <2>1, <2>2, <2>3, <2>4, <2>5, <2>6, <2>7, <2>8 DEF Tasks
<1>24. ASSUME DiscFlags PROVE TypeOK'
  BY <1>24, ConstantsAssumption DEF DiscFlags, flags, loop, signals, counters,
      Runs, Goto, AfterDisc
<1>25. ASSUME DiscMark PROVE TypeOK'
  BY <1>25, ConstantsAssumption DEF DiscMark, loop, signals, counters, Runs,
      Goto
<1>26. ASSUME DiscCheck PROVE TypeOK'
  BY <1>26, ConstantsAssumption DEF DiscCheck, loop, signals, counters, Runs,
      Goto
<1>27. ASSUME DiscResume PROVE TypeOK'
  <2>1. /\ scenario' \in Scenarios /\ state' \in States
          /\ stream' \in {"none", "built", "running"}
    BY <1>27 DEF DiscResume, signals, counters, Runs, Goto, EndTask, NoSource
  <2>2. /\ reTune' \in BOOLEAN /\ retuning' \in BOOLEAN /\ discBusy' \in BOOLEAN
          /\ reporting' \in BOOLEAN /\ seeking' \in BOOLEAN /\ framePending' \in BOOLEAN
    BY <1>27 DEF DiscResume, signals, counters, Runs, Goto, EndTask, NoSource
  <2>3. discId' \in 0..MaxUnderflows /\ disc' \subseteq Tracks
    BY <1>27 DEF DiscResume, signals, counters, Runs, Goto, EndTask, NoSource
  <2>4. idle' \in Seq(Sources)
    BY <1>27 DEF DiscResume, signals, counters, Runs, Goto, EndTask, NoSource
  <2>5. task' \in Tasks
    BY <1>27, SourceTypes DEF DiscResume, signals, counters, Runs, Goto,
        EndTask, Tasks
  <2>6. sink' \in {"none", "disc", "retune"} /\ eosSignalled' \in BOOLEAN
    BY <1>27 DEF DiscResume, signals, counters, Runs, Goto, EndTask, NoSource
  <2>7. pc' \in [Ctx -> PCs]
    BY <1>27 DEF DiscResume, signals, counters, Runs, Goto, EndTask, NoSource
  <2>8. stage' \in [Ctx -> {"none", "stop", "tune", "switch"}]
    BY <1>27 DEF DiscResume, signals, counters, Runs, Goto, EndTask, NoSource
  <2>. QED  BY <2>1, <2>2, <2>3, <2>4, <2>5, <2>6, <2>7, <2>8 DEF Tasks
<1>28. ASSUME DiscSwitch PROVE TypeOK'
  <2>1. /\ scenario' \in Scenarios /\ state' \in States
          /\ stream' \in {"none", "built", "running"}
    BY <1>28 DEF DiscSwitch, counters, Runs, Goto
  <2>2. /\ reTune' \in BOOLEAN /\ retuning' \in BOOLEAN /\ discBusy' \in BOOLEAN
          /\ reporting' \in BOOLEAN /\ seeking' \in BOOLEAN /\ framePending' \in BOOLEAN
    BY <1>28 DEF DiscSwitch, counters, Runs, Goto
  <2>3. discId' \in 0..MaxUnderflows /\ disc' \subseteq Tracks
    BY <1>28 DEF DiscSwitch, counters, Runs, Goto
  <2>4. idle' \in Seq(Sources)
    BY <1>28, Dequeued DEF DiscSwitch, counters, Runs, Goto
  <2>5. task' \in Tasks
    BY <1>28 DEF DiscSwitch, counters, Runs, Goto, Tasks
  <2>6. sink' \in {"none", "disc", "retune"} /\ eosSignalled' \in BOOLEAN
    BY <1>28 DEF DiscSwitch, counters, Runs, Goto
  <2>7. pc' \in [Ctx -> PCs]
    BY <1>28 DEF DiscSwitch, counters, Runs, Goto
  <2>8. stage' \in [Ctx -> {"none", "stop", "tune", "switch"}]
    BY <1>28 DEF DiscSwitch, counters, Runs, Goto
  <2>. QED  BY <2>1, <2>2, <2>3, <2>4, <2>5, <2>6, <2>7, <2>8 DEF Tasks
<1>29. ASSUME DiscDone PROVE TypeOK'
  <2>1. /\ scenario' \in Scenarios /\ state' \in States
          /\ stream' \in {"none", "built", "running"}
    BY <1>29 DEF DiscDone, loop, signals, counters, Runs, Goto, AfterDisc
  <2>2. /\ reTune' \in BOOLEAN /\ retuning' \in BOOLEAN /\ discBusy' \in BOOLEAN
          /\ reporting' \in BOOLEAN /\ seeking' \in BOOLEAN /\ framePending' \in BOOLEAN
    BY <1>29 DEF DiscDone, loop, signals, counters, Runs, Goto, AfterDisc
  <2>3. discId' \in 0..MaxUnderflows /\ disc' \subseteq Tracks
    BY <1>29 DEF DiscDone, loop, signals, counters, Runs, Goto, AfterDisc
  <2>4. idle' \in Seq(Sources)
    BY <1>29 DEF DiscDone, loop, signals, counters, Runs, Goto, AfterDisc
  <2>5. task' \in Tasks
    BY <1>29 DEF DiscDone, loop, signals, counters, Runs, Goto, AfterDisc,
        Tasks
  <2>6. sink' \in {"none", "disc", "retune"} /\ eosSignalled' \in BOOLEAN
    BY <1>29 DEF DiscDone, loop, signals, counters, Runs, Goto, AfterDisc
  <2>7. pc' \in [Ctx -> PCs]
    BY <1>29 DEF DiscDone, loop, signals, counters, Runs, Goto, AfterDisc
  <2>8. stage' \in [Ctx -> {"none", "stop", "tune", "switch"}]
    BY <1>29 DEF DiscDone, loop, signals, counters, Runs, Goto, AfterDisc
  <2>. QED  BY <2>1, <2>2, <2>3, <2>4, <2>5, <2>6, <2>7, <2>8 DEF Tasks
<1>30. ASSUME DiscSignal PROVE TypeOK'
  <2>1. /\ scenario' \in Scenarios /\ state' \in States
          /\ stream' \in {"none", "built", "running"}
    BY <1>30 DEF DiscSignal, signals, counters, Runs, NoSource
  <2>2. /\ reTune' \in BOOLEAN /\ retuning' \in BOOLEAN /\ discBusy' \in BOOLEAN
          /\ reporting' \in BOOLEAN /\ seeking' \in BOOLEAN /\ framePending' \in BOOLEAN
    BY <1>30 DEF DiscSignal, signals, counters, Runs, NoSource
  <2>3. discId' \in 0..MaxUnderflows /\ disc' \subseteq Tracks
    BY <1>30, ConstantsAssumption DEF DiscSignal, signals, counters, Runs,
        NoSource
  <2>4. idle' \in Seq(Sources)
    BY <1>30 DEF DiscSignal, signals, counters, Runs, NoSource
  <2>5. task' \in Tasks
    BY <1>30, SourceTypes DEF DiscSignal, signals, counters, Runs, Tasks
  <2>6. sink' \in {"none", "disc", "retune"} /\ eosSignalled' \in BOOLEAN
    BY <1>30 DEF DiscSignal, signals, counters, Runs, NoSource
  <2>7. pc' \in [Ctx -> PCs]
    BY <1>30, Signalled DEF DiscSignal, signals, counters, Runs, NoSource
  <2>8. stage' \in [Ctx -> {"none", "stop", "tune", "switch"}]
    BY <1>30 DEF DiscSignal, signals, counters, Runs, NoSource
  <2>. QED  BY <2>1, <2>2, <2>3, <2>4, <2>5, <2>6, <2>7, <2>8 DEF Tasks
<1>31. ASSUME Discontinuity PROVE TypeOK'
  BY <1>31, ConstantsAssumption DEF Discontinuity, loop, frames, signals
<1>32. ASSUME RetuneCheck PROVE TypeOK'
  BY <1>32, ConstantsAssumption DEF RetuneCheck, flags, loop, frames
<1>33. ASSUME ScheduleDisc PROVE TypeOK'
  <2>1. /\ scenario' \in Scenarios /\ state' \in States
          /\ stream' \in {"none", "built", "running"}
    BY <1>33 DEF ScheduleDisc, frames, counters, Source
  <2>2. /\ reTune' \in BOOLEAN /\ retuning' \in BOOLEAN /\ discBusy' \in BOOLEAN
          /\ reporting' \in BOOLEAN /\ seeking' \in BOOLEAN /\ framePending' \in BOOLEAN
    BY <1>33 DEF ScheduleDisc, frames, counters, Source
  <2>3. discId' \in 0..MaxUnderflows /\ disc' \subseteq Tracks
    <3>1. underflows \in 0..MaxUnderflows  BY DEF CountInv
    <3>. QED  BY <1>33, <3>1 DEF ScheduleDisc, frames, counters
  <2>4. idle' \in Seq(Sources)
    <3>1. underflows \in 0..MaxUnderflows  BY DEF CountInv
    <3>2. Source("disc", underflows) \in Sources  BY <3>1, SourceTypes
    <3>3. Append(idle, Source("disc", underflows)) \in Seq(Sources)  BY <3>2, QueueTypes
    <3>. QED  BY <1>33, <3>3 DEF ScheduleDisc
  <2>5. task' \in Tasks
    BY <1>33 DEF ScheduleDisc, frames, counters, Source, Tasks
  <2>6. sink' \in {"none", "disc", "retune"} /\ eosSignalled' \in BOOLEAN
    BY <1>33 DEF ScheduleDisc, frames, counters, Source
  <2>7. pc' \in [Ctx -> PCs]
    BY <1>33 DEF ScheduleDisc, frames, counters, Source
  <2>8. stage' \in [Ctx -> {"none", "stop", "tune", "switch"}]
    BY <1>33 DEF ScheduleDisc, frames, counters, Source
  <2>. QED  BY <2>1, <2>2, <2>3, <2>4, <2>5, <2>6, <2>7, <2>8 DEF Tasks
<1>34. ASSUME ScheduleRetune PROVE TypeOK'
  <2>1. /\ scenario' \in Scenarios /\ state' \in States
          /\ stream' \in {"none", "built", "running"}
    BY <1>34 DEF ScheduleRetune, frames, counters, Source
  <2>2. /\ reTune' \in BOOLEAN /\ retuning' \in BOOLEAN /\ discBusy' \in BOOLEAN
          /\ reporting' \in BOOLEAN /\ seeking' \in BOOLEAN /\ framePending' \in BOOLEAN
    BY <1>34 DEF ScheduleRetune, frames, counters, Source
  <2>3. discId' \in 0..MaxUnderflows /\ disc' \subseteq Tracks
    BY <1>34 DEF ScheduleRetune, frames, counters, Source
  <2>4. idle' \in Seq(Sources)
    <3>1. Source("retune", 0) \in Sources  BY SourceTypes, ConstantsAssumption
    <3>2. Append(idle, Source("retune", 0)) \in Seq(Sources)  BY <3>1, QueueTypes
    <3>. QED  BY <1>34, <3>2 DEF ScheduleRetune
  <2>5. task' \in Tasks
    BY <1>34 DEF ScheduleRetune, frames, counters, Source, Tasks
  <2>6. sink' \in {"none", "disc", "retune"} /\ eosSignalled' \in BOOLEAN
    BY <1>34 DEF ScheduleRetune, frames, counters, Source
  <2>7. pc' \in [Ctx -> PCs]
    BY <1>34 DEF ScheduleRetune, frames, counters, Source
  <2>8. stage' \in [Ctx -> {"none", "stop", "tune", "switch"}]
    BY <1>34 DEF ScheduleRetune, frames, counters, Source
  <2>. QED  BY <2>1, <2>2, <2>3, <2>4, <2>5, <2>6, <2>7, <2>8 DEF Tasks
<1>35. ASSUME NotifyEOS PROVE TypeOK'
  <2>1. /\ scenario' \in Scenarios /\ state' \in States
          /\ stream' \in {"none", "built", "running"}
    BY <1>35 DEF NotifyEOS, flags, frames, counters, Source
  <2>2. /\ reTune' \in BOOLEAN /\ retuning' \in BOOLEAN /\ discBusy' \in BOOLEAN
          /\ reporting' \in BOOLEAN /\ seeking' \in BOOLEAN /\ framePending' \in BOOLEAN
    BY <1>35 DEF NotifyEOS, flags, frames, counters, Source
  <2>3. discId' \in 0..MaxUnderflows /\ disc' \subseteq Tracks
    BY <1>35 DEF NotifyEOS, flags, frames, counters, Source
  <2>4. idle' \in Seq(Sources)
    <3>1. Source("eos", 0) \in Sources  BY SourceTypes, ConstantsAssumption
    <3>2. Append(idle, Source("eos", 0)) \in Seq(Sources)  BY <3>1, QueueTypes
    <3>. QED  BY <1>35, <3>2 DEF NotifyEOS
  <2>5. task' \in Tasks
    BY <1>35 DEF NotifyEOS, flags, frames, counters, Source, Tasks
  <2>6. sink' \in {"none", "disc", "retune"} /\ eosSignalled' \in BOOLEAN
    BY <1>35 DEF NotifyEOS, flags, frames, counters, Source
  <2>7. pc' \in [Ctx -> PCs]
    BY <1>35 DEF NotifyEOS, flags, frames, counters, Source
  <2>8. stage' \in [Ctx -> {"none", "stop", "tune", "switch"}]
    BY <1>35 DEF NotifyEOS, flags, frames, counters, Source
  <2>. QED  BY <2>1, <2>2, <2>3, <2>4, <2>5, <2>6, <2>7, <2>8 DEF Tasks
<1>. QED  BY <1>1, <1>2, <1>3, <1>4, <1>5, <1>6, <1>7, <1>8, <1>9, <1>10,
      <1>11, <1>12, <1>13, <1>14, <1>15, <1>16, <1>17, <1>18, <1>19, <1>20,
      <1>21, <1>22, <1>23, <1>24, <1>25, <1>26, <1>27, <1>28, <1>29, <1>30,
      <1>31, <1>32, <1>33, <1>34, <1>35
          DEF Next, Work, LoopWork, Schedule

LEMMA CountStep ==
    ASSUME TypeOK, CountInv, CallInv, Next
    PROVE  CountInv'
<1>. USE DEF TypeOK, CountInv, Ctx, AllOps
<1>1. ASSUME NEW c \in {"app", "call"}, CallStop(c) PROVE CountInv'
  BY <1>1, ConstantsAssumption, ScenarioTypes DEF CallStop, flags, loop,
      signals, Enter, MayCall
<1>2. ASSUME NEW c \in {"app", "call"}, CallTune(c) PROVE CountInv'
  BY <1>2, ConstantsAssumption, ScenarioTypes DEF CallTune, flags, loop,
      signals, Enter, MayCall
<1>3. ASSUME NEW c \in {"app", "call"}, CallSeek(c) PROVE CountInv'
  BY <1>3, ConstantsAssumption, ScenarioTypes DEF CallSeek, flags, loop,
      signals, Enter, MayCall
<1>4. ASSUME NEW c \in {"app", "call"}, CallSwitch(c) PROVE CountInv'
  BY <1>4, ConstantsAssumption, ScenarioTypes DEF CallSwitch, flags, loop,
      signals, Enter, MayCall
<1>5. ASSUME NEW c \in Ctx, StopGate(c) PROVE CountInv'
  BY <1>5, ConstantsAssumption DEF StopGate, loop, signals, counters
<1>6. ASSUME NEW c \in Ctx, StopWoken(c) PROVE CountInv'
  BY <1>6, ConstantsAssumption DEF StopWoken, loop, signals, counters
<1>7. ASSUME NEW c \in Ctx, StopStream(c) PROVE CountInv'
  BY <1>7, ConstantsAssumption DEF StopStream, flags, loop, signals, counters
<1>8. ASSUME NEW c \in Ctx, Teardown(c) PROVE CountInv'
  BY <1>8, ConstantsAssumption DEF Teardown, loop, signals, counters, NewTune,
      InOwnDiscTask, RemoveDisc, OnLoop
<1>9. ASSUME NEW c \in Ctx, TeardownWoken(c) PROVE CountInv'
  BY <1>9, ConstantsAssumption DEF TeardownWoken, loop, signals, counters
<1>10. ASSUME NEW c \in Ctx, Delete(c) PROVE CountInv'
  BY <1>10, ConstantsAssumption DEF Delete, flags, signals, counters
<1>11. ASSUME NEW c \in Ctx, StopEnd(c) PROVE CountInv'
  BY <1>11, ConstantsAssumption DEF StopEnd, loop, signals, counters
<1>12. ASSUME NEW c \in Ctx, TuneBegin(c) PROVE CountInv'
  BY <1>12, ConstantsAssumption DEF TuneBegin, loop, signals, counters,
      SeekType
<1>13. ASSUME NEW c \in Ctx, InitStream(c) PROVE CountInv'
  BY <1>13, ConstantsAssumption DEF InitStream, flags, loop, signals,
      counters, SeekType, Return
<1>14. ASSUME NEW c \in Ctx, StartStream(c) PROVE CountInv'
  BY <1>14, ConstantsAssumption DEF StartStream, loop, counters, SeekType,
      Return
<1>15. ASSUME RunRetune PROVE CountInv'
  BY <1>15, ConstantsAssumption DEF RunRetune, frames, signals, counters,
      LoopFree, Dispatch, NoSource
<1>16. ASSUME RetuneEnd PROVE CountInv'
  BY <1>16, ConstantsAssumption DEF RetuneEnd, signals, counters, NoSource
<1>17. ASSUME RunDisc PROVE CountInv'
  BY <1>17, ConstantsAssumption DEF RunDisc, flags, signals, counters,
      LoopFree, Dispatch, NoSource
<1>18. ASSUME RunEos PROVE CountInv'
  BY <1>18, ConstantsAssumption DEF RunEos, flags, signals, counters,
      LoopFree, Dispatch, NoSource
<1>19. ASSUME Eos PROVE CountInv'
  BY <1>19, ConstantsAssumption DEF Eos, flags, loop, signals, counters
<1>20. ASSUME EosTuned PROVE CountInv'
  BY <1>20, ConstantsAssumption DEF EosTuned, flags, signals, counters,
      EndTask, NoSource
<1>21. ASSUME EosEnd PROVE CountInv'
  BY <1>21, ConstantsAssumption DEF EosEnd, flags, signals, counters, EndTask,
      NoSource
<1>22. ASSUME FirstFrame PROVE CountInv'
  BY <1>22, ConstantsAssumption DEF FirstFrame, flags, loop, frames, signals,
      counters, LoopFree, NoSource
<1>23. ASSUME DiscEnter PROVE CountInv'
  BY <1>23, ConstantsAssumption DEF DiscEnter, flags, signals, counters,
      EndTask, AfterDisc, NoSource
<1>24. ASSUME DiscFlags PROVE CountInv'
  BY <1>24, ConstantsAssumption DEF DiscFlags, flags, loop, signals, counters,
      AfterDisc
<1>25. ASSUME DiscMark PROVE CountInv'
  BY <1>25, ConstantsAssumption DEF DiscMark, loop, signals, counters
<1>26. ASSUME DiscCheck PROVE CountInv'
  BY <1>26, ConstantsAssumption DEF DiscCheck, loop, signals, counters
<1>27. ASSUME DiscResume PROVE CountInv'
  BY <1>27, ConstantsAssumption DEF DiscResume, signals, counters, EndTask,
      NoSource
<1>28. ASSUME DiscSwitch PROVE CountInv'
  BY <1>28, ConstantsAssumption DEF DiscSwitch, counters
<1>29. ASSUME DiscDone PROVE CountInv'
  BY <1>29, ConstantsAssumption DEF DiscDone, loop, signals, counters,
      AfterDisc
<1>30. ASSUME DiscSignal PROVE CountInv'
  BY <1>30, ConstantsAssumption DEF DiscSignal, signals, counters, NoSource
<1>31. ASSUME Discontinuity PROVE CountInv'
  BY <1>31, ConstantsAssumption DEF Discontinuity, loop, frames, signals
<1>32. ASSUME RetuneCheck PROVE CountInv'
  BY <1>32, ConstantsAssumption DEF RetuneCheck, flags, loop, frames
<1>33. ASSUME ScheduleDisc PROVE CountInv'
  BY <1>33, ConstantsAssumption DEF ScheduleDisc, frames, counters, Source
<1>34. ASSUME ScheduleRetune PROVE CountInv'
  BY <1>34, ConstantsAssumption DEF ScheduleRetune, frames, counters, Source
<1>35. ASSUME NotifyEOS PROVE CountInv'
  BY <1>35, ConstantsAssumption DEF NotifyEOS, flags, frames, counters, Source
<1>. QED  BY <1>1, <1>2, <1>3, <1>4, <1>5, <1>6, <1>7, <1>8, <1>9, <1>10,
      <1>11, <1>12, <1>13, <1>14, <1>15, <1>16, <1>17, <1>18, <1>19, <1>20,
      <1>21, <1>22, <1>23, <1>24, <1>25, <1>26, <1>27, <1>28, <1>29, <1>30,
      <1>31, <1>32, <1>33, <1>34, <1>35
          DEF Next, Work, LoopWork, Schedule

LEMMA LoopStep ==
    ASSUME TypeOK, CountInv, LoopInv, CallInv, Next
    PROVE  LoopInv'
<1>. USE DEF TypeOK, CountInv, LoopInv, Ctx, PCs, StopLabels, TuneLabels, DiscLabels
<1>1. ASSUME NEW c \in {"app", "call"}, CallStop(c) PROVE LoopInv'
  BY <1>1 DEF CallStop, flags, loop, signals, Enter, MayCall
<1>2. ASSUME NEW c \in {"app", "call"}, CallTune(c) PROVE LoopInv'
  BY <1>2 DEF CallTune, flags, loop, signals, Enter, MayCall
<1>3. ASSUME NEW c \in {"app", "call"}, CallSeek(c) PROVE LoopInv'
  BY <1>3 DEF CallSeek, flags, loop, signals, Enter, MayCall
<1>4. ASSUME NEW c \in {"app", "call"}, CallSwitch(c) PROVE LoopInv'
  BY <1>4 DEF CallSwitch, flags, loop, signals, Enter, MayCall
<1>5. ASSUME NEW c \in Ctx, StopGate(c) PROVE LoopInv'
  BY <1>5 DEF StopGate, loop, signals, counters, Runs, Goto
<1>6. ASSUME NEW c \in Ctx, StopWoken(c) PROVE LoopInv'
  BY <1>6 DEF StopWoken, loop, signals, counters, Runs, Goto
<1>7. ASSUME NEW c \in Ctx, StopStream(c) PROVE LoopInv'
  BY <1>7 DEF StopStream, flags, loop, signals, counters, Runs, Goto
<1>8. ASSUME NEW c \in Ctx, Teardown(c) PROVE LoopInv'
  BY <1>8 DEF Teardown, loop, signals, counters, Runs, Goto, NewTune,
      InOwnDiscTask, RemoveDisc, OnLoop
<1>9. ASSUME NEW c \in Ctx, TeardownWoken(c) PROVE LoopInv'
  BY <1>9 DEF TeardownWoken, loop, signals, counters, Runs, Goto
<1>10. ASSUME NEW c \in Ctx, Delete(c) PROVE LoopInv'
  BY <1>10 DEF Delete, flags, signals, counters, Runs, Goto
<1>11. ASSUME NEW c \in Ctx, StopEnd(c) PROVE LoopInv'
  BY <1>11 DEF StopEnd, loop, signals, counters, Runs, Goto
<1>12. ASSUME NEW c \in Ctx, TuneBegin(c) PROVE LoopInv'
  BY <1>12 DEF TuneBegin, loop, signals, counters, Runs, Goto, SeekType
<1>13. ASSUME NEW c \in Ctx, InitStream(c) PROVE LoopInv'
  BY <1>13 DEF InitStream, flags, loop, signals, counters, Runs, Goto,
      SeekType, Return
<1>14. ASSUME NEW c \in Ctx, StartStream(c) PROVE LoopInv'
  BY <1>14 DEF StartStream, loop, counters, Runs, Goto, SeekType, Return
<1>15. ASSUME RunRetune PROVE LoopInv'
  BY <1>15 DEF RunRetune, frames, signals, counters, LoopFree, Dispatch,
      NoSource
<1>16. ASSUME RetuneEnd PROVE LoopInv'
  BY <1>16 DEF RetuneEnd, signals, counters, Runs, Signal, NoSource
<1>17. ASSUME RunDisc PROVE LoopInv'
  BY <1>17 DEF RunDisc, flags, signals, counters, LoopFree, Dispatch, NoSource
<1>18. ASSUME RunEos PROVE LoopInv'
  BY <1>18 DEF RunEos, flags, signals, counters, LoopFree, Dispatch, NoSource
<1>19. ASSUME Eos PROVE LoopInv'
  BY <1>19 DEF Eos, flags, loop, signals, counters, Runs, Goto
<1>20. ASSUME EosTuned PROVE LoopInv'
  BY <1>20 DEF EosTuned, flags, signals, counters, Runs, EndTask, Goto,
      NoSource
<1>21. ASSUME EosEnd PROVE LoopInv'
  BY <1>21 DEF EosEnd, flags, signals, counters, Runs, EndTask, Goto, NoSource
<1>22. ASSUME FirstFrame PROVE LoopInv'
  BY <1>22 DEF FirstFrame, flags, loop, frames, signals, counters, LoopFree,
      NoSource
<1>23. ASSUME DiscEnter PROVE LoopInv'
  BY <1>23 DEF DiscEnter, flags, signals, counters, Runs, Goto, EndTask,
      AfterDisc, NoSource
<1>24. ASSUME DiscFlags PROVE LoopInv'
  BY <1>24 DEF DiscFlags, flags, loop, signals, counters, Runs, Goto,
      AfterDisc
<1>25. ASSUME DiscMark PROVE LoopInv'
  BY <1>25 DEF DiscMark, loop, signals, counters, Runs, Goto
<1>26. ASSUME DiscCheck PROVE LoopInv'
  BY <1>26 DEF DiscCheck, loop, signals, counters, Runs, Goto
<1>27. ASSUME DiscResume PROVE LoopInv'
  BY <1>27 DEF DiscResume, signals, counters, Runs, Goto, EndTask, NoSource
<1>28. ASSUME DiscSwitch PROVE LoopInv'
  BY <1>28 DEF DiscSwitch, counters, Runs, Goto
<1>29. ASSUME DiscDone PROVE LoopInv'
  BY <1>29 DEF DiscDone, loop, signals, counters, Runs, Goto, AfterDisc
<1>30. ASSUME DiscSignal PROVE LoopInv'
  BY <1>30 DEF DiscSignal, signals, counters, Runs, Signal, NoSource
<1>31. ASSUME Discontinuity PROVE LoopInv'
  BY <1>31 DEF Discontinuity, loop, frames, signals
<1>32. ASSUME RetuneCheck PROVE LoopInv'
  BY <1>32 DEF RetuneCheck, flags, loop, frames
<1>33. ASSUME ScheduleDisc PROVE LoopInv'
  BY <1>33 DEF ScheduleDisc, frames, counters, Source
<1>34. ASSUME ScheduleRetune PROVE LoopInv'
  BY <1>34 DEF ScheduleRetune, frames, counters, Source
<1>35. ASSUME NotifyEOS PROVE LoopInv'
  BY <1>35 DEF NotifyEOS, flags, frames, counters, Source
<1>. QED  BY <1>1, <1>2, <1>3, <1>4, <1>5, <1>6, <1>7, <1>8, <1>9, <1>10,
      <1>11, <1>12, <1>13, <1>14, <1>15, <1>16, <1>17, <1>18, <1>19, <1>20,
      <1>21, <1>22, <1>23, <1>24, <1>25, <1>26, <1>27, <1>28, <1>29, <1>30,
      <1>31, <1>32, <1>33, <1>34, <1>35
          DEF Next, Work, LoopWork, Schedule

LEMMA CallStep ==
    ASSUME TypeOK, CountInv, LoopInv, CallInv, Next
    PROVE  CallInv'
<1>. USE DEF TypeOK, CountInv, CallInv, Ctx, PCs, StopLabels, TuneLabels, DiscLabels
<1>1. ASSUME NEW c \in {"app", "call"}, CallStop(c) PROVE CallInv'
  BY <1>1 DEF CallStop, flags, loop, signals, Enter, MayCall
<1>2. ASSUME NEW c \in {"app", "call"}, CallTune(c) PROVE CallInv'
  BY <1>2 DEF CallTune, flags, loop, signals, Enter, MayCall
<1>3. ASSUME NEW c \in {"app", "call"}, CallSeek(c) PROVE CallInv'
  BY <1>3 DEF CallSeek, flags, loop, signals, Enter, MayCall
<1>4. ASSUME NEW c \in {"app", "call"}, CallSwitch(c) PROVE CallInv'
  BY <1>4 DEF CallSwitch, flags, loop, signals, Enter, MayCall
<1>5. ASSUME NEW c \in Ctx, StopGate(c) PROVE CallInv'
  BY <1>5 DEF StopGate, loop, signals, counters, Runs, Goto
<1>6. ASSUME NEW c \in Ctx, StopWoken(c) PROVE CallInv'
  BY <1>6 DEF StopWoken, loop, signals, counters, Runs, Goto
<1>7. ASSUME NEW c \in Ctx, StopStream(c) PROVE CallInv'
  BY <1>7 DEF StopStream, flags, loop, signals, counters, Runs, Goto
<1>8. ASSUME NEW c \in Ctx, Teardown(c) PROVE CallInv'
  BY <1>8 DEF Teardown, loop, signals, counters, Runs, Goto, NewTune,
      InOwnDiscTask, RemoveDisc, OnLoop
<1>9. ASSUME NEW c \in Ctx, TeardownWoken(c) PROVE CallInv'
  BY <1>9 DEF TeardownWoken, loop, signals, counters, Runs, Goto
<1>10. ASSUME NEW c \in Ctx, Delete(c) PROVE CallInv'
  BY <1>10 DEF Delete, flags, signals, counters, Runs, Goto
<1>11. ASSUME NEW c \in Ctx, StopEnd(c) PROVE CallInv'
  BY <1>11 DEF StopEnd, loop, signals, counters, Runs, Goto
<1>12. ASSUME NEW c \in Ctx, TuneBegin(c) PROVE CallInv'
  BY <1>12 DEF TuneBegin, loop, signals, counters, Runs, Goto, SeekType
<1>13. ASSUME NEW c \in Ctx, InitStream(c) PROVE CallInv'
  <2>0. c \in {"app", "call"} /\ pc[c] # "rest" => op[c] \in AllOps
    BY ScenarioTypes
  <2>1. CASE c = "task"
    BY <1>13, <2>0, <2>1 DEF InitStream, flags, loop, signals, counters, Runs,
        Goto, SeekType, Return
  <2>2. CASE c \in {"app", "call"}
    <3>1. op[c] \notin {"Retune", "Eos"}
      BY <1>13, <2>0, <2>2 DEF AllOps, InitStream, Runs
    <3>. QED
      BY <1>13, <2>0, <2>2, <3>1 DEF InitStream, flags, loop, signals, counters,
        Runs, Goto, SeekType, Return
  <2>. QED  BY <2>1, <2>2
<1>14. ASSUME NEW c \in Ctx, StartStream(c) PROVE CallInv'
  <2>0. c \in {"app", "call"} /\ pc[c] # "rest" => op[c] \in AllOps
    BY ScenarioTypes
  <2>1. CASE c = "task"
    BY <1>14, <2>0, <2>1 DEF StartStream, loop, counters, Runs, Goto, SeekType,
        Return
  <2>2. CASE c \in {"app", "call"}
    <3>1. op[c] \notin {"Retune", "Eos"}
      BY <1>14, <2>0, <2>2 DEF AllOps, StartStream, Runs
    <3>. QED
      BY <1>14, <2>0, <2>2, <3>1 DEF StartStream, loop, counters, Runs, Goto,
        SeekType, Return
  <2>. QED  BY <2>1, <2>2
<1>15. ASSUME RunRetune PROVE CallInv'
  BY <1>15 DEF RunRetune, frames, signals, counters, LoopFree, Dispatch,
      NoSource
<1>16. ASSUME RetuneEnd PROVE CallInv'
  BY <1>16 DEF RetuneEnd, signals, counters, Runs, Signal, NoSource
<1>17. ASSUME RunDisc PROVE CallInv'
  BY <1>17 DEF RunDisc, flags, signals, counters, LoopFree, Dispatch, NoSource
<1>18. ASSUME RunEos PROVE CallInv'
  BY <1>18 DEF RunEos, flags, signals, counters, LoopFree, Dispatch, NoSource
<1>19. ASSUME Eos PROVE CallInv'
  BY <1>19 DEF Eos, flags, loop, signals, counters, Runs, Goto
<1>20. ASSUME EosTuned PROVE CallInv'
  BY <1>20 DEF EosTuned, flags, signals, counters, Runs, EndTask, Goto,
      NoSource
<1>21. ASSUME EosEnd PROVE CallInv'
  BY <1>21 DEF EosEnd, flags, signals, counters, Runs, EndTask, Goto, NoSource
<1>22. ASSUME FirstFrame PROVE CallInv'
  BY <1>22 DEF FirstFrame, flags, loop, frames, signals, counters, LoopFree,
      NoSource
<1>23. ASSUME DiscEnter PROVE CallInv'
  BY <1>23 DEF DiscEnter, flags, signals, counters, Runs, Goto, EndTask,
      AfterDisc, NoSource
<1>24. ASSUME DiscFlags PROVE CallInv'
  BY <1>24 DEF DiscFlags, flags, loop, signals, counters, Runs, Goto,
      AfterDisc
<1>25. ASSUME DiscMark PROVE CallInv'
  BY <1>25 DEF DiscMark, loop, signals, counters, Runs, Goto
<1>26. ASSUME DiscCheck PROVE CallInv'
  BY <1>26 DEF DiscCheck, loop, signals, counters, Runs, Goto
<1>27. ASSUME DiscResume PROVE CallInv'
  BY <1>27 DEF DiscResume, signals, counters, Runs, Goto, EndTask, NoSource
<1>28. ASSUME DiscSwitch PROVE CallInv'
  BY <1>28 DEF DiscSwitch, counters, Runs, Goto
<1>29. ASSUME DiscDone PROVE CallInv'
  BY <1>29 DEF DiscDone, loop, signals, counters, Runs, Goto, AfterDisc
<1>30. ASSUME DiscSignal PROVE CallInv'
  BY <1>30 DEF DiscSignal, signals, counters, Runs, Signal, NoSource
<1>31. ASSUME Discontinuity PROVE CallInv'
  BY <1>31 DEF Discontinuity, loop, frames, signals
<1>32. ASSUME RetuneCheck PROVE CallInv'
  BY <1>32 DEF RetuneCheck, flags, loop, frames
<1>33. ASSUME ScheduleDisc PROVE CallInv'
  BY <1>33 DEF ScheduleDisc, frames, counters, Source
<1>34. ASSUME ScheduleRetune PROVE CallInv'
  BY <1>34 DEF ScheduleRetune, frames, counters, Source
<1>35. ASSUME NotifyEOS PROVE CallInv'
  BY <1>35 DEF NotifyEOS, flags, frames, counters, Source
<1>. QED  BY <1>1, <1>2, <1>3, <1>4, <1>5, <1>6, <1>7, <1>8, <1>9, <1>10,
      <1>11, <1>12, <1>13, <1>14, <1>15, <1>16, <1>17, <1>18, <1>19, <1>20,
      <1>21, <1>22, <1>23, <1>24, <1>25, <1>26, <1>27, <1>28, <1>29, <1>30,
      <1>31, <1>32, <1>33, <1>34, <1>35
          DEF Next, Work, LoopWork, Schedule

\* What Head, Tail and Append make of the queue.
LEMMA QueueEnds ==
    ASSUME TypeOK
    PROVE  /\ idle # <<>> =>
                /\ 1 \in DOMAIN idle /\ Head(idle) = idle[1]
                /\ \A j \in DOMAIN Tail(idle) :
                      j + 1 \in DOMAIN idle /\ j + 1 # 1 /\ Tail(idle)[j] = idle[j + 1]
                /\ \A i \in DOMAIN idle : i # 1 =>
                      \E j \in DOMAIN Tail(idle) : Tail(idle)[j] = idle[i]
                /\ Drawn(Tail(idle))
           /\ \A s \in Sources :
                /\ \A j \in DOMAIN Append(idle, s) :
                      \/ j \in DOMAIN idle /\ Append(idle, s)[j] = idle[j]
                      \/ j = Len(idle) + 1 /\ Append(idle, s)[j] = s
                /\ \A i \in DOMAIN idle :
                      i \in DOMAIN Append(idle, s) /\ Append(idle, s)[i] = idle[i]
                /\ Len(idle) + 1 \in DOMAIN Append(idle, s)
                /\ Append(idle, s)[Len(idle) + 1] = s
<1>1. idle \in Seq(Sources) /\ Len(idle) \in Nat /\ DOMAIN idle = 1..Len(idle)
  BY DEF TypeOK
<1>2. ASSUME idle # <<>>
      PROVE  /\ 1 \in DOMAIN idle /\ Head(idle) = idle[1]
             /\ \A j \in DOMAIN Tail(idle) :
                   j + 1 \in DOMAIN idle /\ j + 1 # 1 /\ Tail(idle)[j] = idle[j + 1]
             /\ \A i \in DOMAIN idle : i # 1 =>
                   \E j \in DOMAIN Tail(idle) : Tail(idle)[j] = idle[i]
             /\ Drawn(Tail(idle))
  <2>1. 1 \in DOMAIN idle /\ Head(idle) = idle[1]
    BY <1>1, <1>2
  <2>2. DOMAIN Tail(idle) = 1..Len(idle) - 1
    BY <1>1, <1>2
  <2>3. \A j \in 1..Len(idle) - 1 : Tail(idle)[j] = idle[j + 1]
    BY <1>1, <1>2
  <2>4. \A j \in 1..Len(idle) - 1 : j + 1 \in 1..Len(idle) /\ j + 1 # 1
    BY <1>1
  <2>5. ASSUME NEW i \in 1..Len(idle), i # 1
        PROVE  \E j \in 1..Len(idle) - 1 : Tail(idle)[j] = idle[i]
    <3>1. i - 1 \in 1..Len(idle) - 1 /\ (i - 1) + 1 = i
      BY <1>1, <2>5
    <3>. QED  BY <2>3, <3>1
  <2>6. \A j, k \in 1..Len(idle) - 1 : j + 1 = k + 1 => j = k
    BY <1>1
  <2>7. Drawn(Tail(idle))
    BY <1>1, <2>2, <2>3, <2>4, <2>6 DEF Drawn
  <2>. QED  BY <1>1, <2>1, <2>2, <2>3, <2>4, <2>5, <2>7
<1>3. ASSUME NEW s \in Sources
      PROVE  /\ \A j \in DOMAIN Append(idle, s) :
                   \/ j \in DOMAIN idle /\ Append(idle, s)[j] = idle[j]
                   \/ j = Len(idle) + 1 /\ Append(idle, s)[j] = s
             /\ \A i \in DOMAIN idle :
                   i \in DOMAIN Append(idle, s) /\ Append(idle, s)[i] = idle[i]
             /\ Len(idle) + 1 \in DOMAIN Append(idle, s)
             /\ Append(idle, s)[Len(idle) + 1] = s
  BY <1>1
<1>. QED  BY <1>2, <1>3

\* A queue drawn from the present one has no new ids.
LEMMA IdsDrawn ==
    ASSUME IdsInv, Drawn(idle')
    PROVE  /\ \A i \in DOMAIN idle' : idle'[i].kind = "disc" => idle'[i].id \in 1..underflows
           /\ \A i, j \in DOMAIN idle' :
                 idle'[i].kind = "disc" /\ idle'[j].kind = "disc" /\ idle'[i].id = idle'[j].id => i = j
           /\ \A n : ~QueuedDisc(n) =>
                 \A i \in DOMAIN idle' : ~(idle'[i].kind = "disc" /\ idle'[i].id = n)
BY DEF IdsInv, Drawn, QueuedDisc

LEMMA IdsStep ==
    ASSUME TypeOK, CountInv, IdsInv, Next
    PROVE  IdsInv'
<1>1. ASSUME NEW c \in {"app", "call"}, CallStop(c) PROVE IdsInv'
  BY <1>1, ConstantsAssumption DEF TypeOK, CountInv, IdsInv, QueuedDisc,
      CallStop, flags, loop, signals, Enter,
      MayCall
<1>2. ASSUME NEW c \in {"app", "call"}, CallTune(c) PROVE IdsInv'
  BY <1>2, ConstantsAssumption DEF TypeOK, CountInv, IdsInv, QueuedDisc,
      CallTune, flags, loop, signals, Enter,
      MayCall
<1>3. ASSUME NEW c \in {"app", "call"}, CallSeek(c) PROVE IdsInv'
  BY <1>3, ConstantsAssumption DEF TypeOK, CountInv, IdsInv, QueuedDisc,
      CallSeek, flags, loop, signals, Enter,
      MayCall
<1>4. ASSUME NEW c \in {"app", "call"}, CallSwitch(c) PROVE IdsInv'
  BY <1>4, ConstantsAssumption DEF TypeOK, CountInv, IdsInv, QueuedDisc,
      CallSwitch, flags, loop, signals, Enter,
      MayCall
<1>5. ASSUME NEW c \in Ctx, StopGate(c) PROVE IdsInv'
  BY <1>5, ConstantsAssumption DEF TypeOK, CountInv, IdsInv, QueuedDisc,
      StopGate, loop, signals, counters, Runs
<1>6. ASSUME NEW c \in Ctx, StopWoken(c) PROVE IdsInv'
  BY <1>6, ConstantsAssumption DEF TypeOK, CountInv, IdsInv, QueuedDisc,
      StopWoken, loop, signals, counters, Runs
<1>7. ASSUME NEW c \in Ctx, StopStream(c) PROVE IdsInv'
  BY <1>7, ConstantsAssumption DEF TypeOK, CountInv, IdsInv, QueuedDisc,
      StopStream, flags, loop, signals, counters,
      Runs
<1>8. ASSUME NEW c \in Ctx, Teardown(c) PROVE IdsInv'
  <2>1. Drawn(idle')
    BY <1>8, Dequeued DEF Teardown, RemoveDisc, loop, Drawn
  <2>2. /\ task'.kind = task.kind /\ task'.id = task.id
        /\ task'.removed => task.removed \/ discId' = 0
        /\ discId' \in {0, discId} /\ underflows' = underflows /\ sink' = sink
    BY <1>8 DEF Teardown, RemoveDisc, loop, signals, counters, TypeOK
  <2>. QED  BY <1>8, <2>1, <2>2, IdsDrawn, ConstantsAssumption
        DEF IdsInv, QueuedDisc, CountInv
<1>9. ASSUME NEW c \in Ctx, TeardownWoken(c) PROVE IdsInv'
  BY <1>9, ConstantsAssumption DEF TypeOK, CountInv, IdsInv, QueuedDisc,
      TeardownWoken, loop, signals, counters,
      Runs
<1>10. ASSUME NEW c \in Ctx, Delete(c) PROVE IdsInv'
  <2>1. Drawn(idle')
    BY <1>10, Dequeued DEF Delete, Drawn
  <2>2. task' = task /\ discId' = discId /\ underflows' = underflows /\ sink' = sink
    BY <1>10 DEF Delete, flags, signals, counters
  <2>. QED  BY <1>10, <2>1, <2>2, IdsDrawn, ConstantsAssumption
        DEF IdsInv, QueuedDisc, CountInv
<1>11. ASSUME NEW c \in Ctx, StopEnd(c) PROVE IdsInv'
  BY <1>11, ConstantsAssumption DEF TypeOK, CountInv, IdsInv, QueuedDisc,
      StopEnd, loop, signals, counters, Runs
<1>12. ASSUME NEW c \in Ctx, TuneBegin(c) PROVE IdsInv'
  BY <1>12, ConstantsAssumption DEF TypeOK, CountInv, IdsInv, QueuedDisc,
      TuneBegin, loop, signals, counters, Runs,
      SeekType
<1>13. ASSUME NEW c \in Ctx, InitStream(c) PROVE IdsInv'
  BY <1>13, ConstantsAssumption DEF TypeOK, CountInv, IdsInv, QueuedDisc,
      InitStream, flags, loop, signals,
      counters, Runs, SeekType, Return
<1>14. ASSUME NEW c \in Ctx, StartStream(c) PROVE IdsInv'
  BY <1>14, ConstantsAssumption DEF TypeOK, CountInv, IdsInv, QueuedDisc,
      StartStream, loop, counters, Runs,
      SeekType, Return
<1>15. ASSUME RunRetune PROVE IdsInv'
  <2>1. Drawn(idle')
    BY <1>15, QueueEnds DEF RunRetune, Dispatch
  <2>2. /\ task'.kind = "retune" \/ task' = task
        /\ discId' = discId /\ underflows' = underflows /\ sink' = sink
    BY <1>15 DEF RunRetune, Dispatch, signals, counters
  <2>. QED  BY <1>15, <2>1, <2>2, IdsDrawn, ConstantsAssumption
        DEF IdsInv, QueuedDisc, CountInv
<1>16. ASSUME RetuneEnd PROVE IdsInv'
  BY <1>16, ConstantsAssumption DEF TypeOK, CountInv, IdsInv, QueuedDisc,
      RetuneEnd, signals, counters, Runs,
      NoSource
<1>17. ASSUME RunDisc PROVE IdsInv'
  <2>1. Drawn(idle')
    BY <1>17, QueueEnds DEF RunDisc, Dispatch
  <2>2. /\ task' = idle[1] /\ 1 \in DOMAIN idle /\ idle[1].kind = "disc" /\ idle' = Tail(idle)
        /\ discId' = discId /\ underflows' = underflows /\ sink' = sink
    BY <1>17, QueueEnds DEF RunDisc, Dispatch, signals, counters, flags
  <2>3. idle[1].removed = FALSE
    <3>1. idle[1] \in Sources  BY <1>17, QueueEnds, QueueTypes DEF RunDisc
    <3>. QED  BY <3>1 DEF Sources
  <2>4. \A j \in DOMAIN idle' : ~(idle'[j].kind = "disc" /\ idle'[j].id = idle[1].id)
    <3>1. ASSUME NEW j \in DOMAIN Tail(idle), Tail(idle)[j].kind = "disc", Tail(idle)[j].id = idle[1].id
          PROVE  FALSE
      <4>1. j + 1 \in DOMAIN idle /\ j + 1 # 1 /\ idle[j + 1] = Tail(idle)[j]
        BY <1>17, QueueEnds DEF RunDisc
      <4>2. \A i, k \in DOMAIN idle : idle[i].kind = "disc" /\ idle[k].kind = "disc"
                                     /\ idle[i].id = idle[k].id => i = k
        BY DEF IdsInv
      <4>. QED  BY <2>2, <3>1, <4>1, <4>2
    <3>. QED  BY <2>2, <3>1
  <2>. QED  BY <2>1, <2>2, <2>3, <2>4, IdsDrawn DEF IdsInv, QueuedDisc
<1>18. ASSUME RunEos PROVE IdsInv'
  BY <1>18, ConstantsAssumption, QueueEnds DEF TypeOK, CountInv, IdsInv, QueuedDisc,
      RunEos, flags, signals,
      counters, LoopFree, Dispatch, NoSource
<1>19. ASSUME Eos PROVE IdsInv'
  BY <1>19, ConstantsAssumption DEF TypeOK, CountInv, IdsInv, QueuedDisc,
      Eos, flags, loop, signals, counters, Runs
<1>20. ASSUME EosTuned PROVE IdsInv'
  BY <1>20, ConstantsAssumption DEF TypeOK, CountInv, IdsInv, QueuedDisc,
      EosTuned, flags, signals, counters, Runs,
      EndTask, NoSource
<1>21. ASSUME EosEnd PROVE IdsInv'
  BY <1>21, ConstantsAssumption DEF TypeOK, CountInv, IdsInv, QueuedDisc,
      EosEnd, flags, signals, counters, Runs,
      EndTask, NoSource
<1>22. ASSUME FirstFrame PROVE IdsInv'
  BY <1>22, ConstantsAssumption DEF TypeOK, CountInv, IdsInv, QueuedDisc,
      FirstFrame, flags, loop, frames, signals,
      counters, LoopFree, NoSource
<1>23. ASSUME DiscEnter PROVE IdsInv'
  BY <1>23, ConstantsAssumption DEF TypeOK, CountInv, IdsInv, QueuedDisc,
      DiscEnter, flags, signals, counters, Runs,
      EndTask, AfterDisc, NoSource
<1>24. ASSUME DiscFlags PROVE IdsInv'
  BY <1>24, ConstantsAssumption DEF TypeOK, CountInv, IdsInv, QueuedDisc,
      DiscFlags, flags, loop, signals, counters,
      Runs, AfterDisc
<1>25. ASSUME DiscMark PROVE IdsInv'
  BY <1>25, ConstantsAssumption DEF TypeOK, CountInv, IdsInv, QueuedDisc,
      DiscMark, loop, signals, counters, Runs
<1>26. ASSUME DiscCheck PROVE IdsInv'
  BY <1>26, ConstantsAssumption DEF TypeOK, CountInv, IdsInv, QueuedDisc,
      DiscCheck, loop, signals, counters, Runs
<1>27. ASSUME DiscResume PROVE IdsInv'
  BY <1>27, ConstantsAssumption DEF TypeOK, CountInv, IdsInv, QueuedDisc,
      DiscResume, signals, counters, Runs,
      EndTask, NoSource
<1>28. ASSUME DiscSwitch PROVE IdsInv'
  <2>1. Drawn(idle')
    BY <1>28, Dequeued DEF DiscSwitch, Drawn
  <2>2. task' = task /\ discId' = discId /\ underflows' = underflows /\ sink' = sink
    BY <1>28 DEF DiscSwitch, counters
  <2>. QED  BY <1>28, <2>1, <2>2, IdsDrawn, ConstantsAssumption
        DEF IdsInv, QueuedDisc, CountInv
<1>29. ASSUME DiscDone PROVE IdsInv'
  BY <1>29, ConstantsAssumption DEF TypeOK, CountInv, IdsInv, QueuedDisc,
      DiscDone, loop, signals, counters, Runs,
      AfterDisc
<1>30. ASSUME DiscSignal PROVE IdsInv'
  BY <1>30, ConstantsAssumption DEF TypeOK, CountInv, IdsInv, QueuedDisc,
      DiscSignal, signals, counters, Runs,
      NoSource
<1>31. ASSUME Discontinuity PROVE IdsInv'
  BY <1>31, ConstantsAssumption DEF TypeOK, CountInv, IdsInv, QueuedDisc,
      Discontinuity, loop, frames, signals
<1>32. ASSUME RetuneCheck PROVE IdsInv'
  BY <1>32, ConstantsAssumption DEF TypeOK, CountInv, IdsInv, QueuedDisc,
      RetuneCheck, flags, loop, frames
<1>33. ASSUME ScheduleDisc PROVE IdsInv'
  <2>1. CASE discId = 0 /\ ~discBusy
    <3>. DEFINE s == Source("disc", underflows)
    <3>0. s \in Sources /\ s.kind = "disc" /\ s.id = underflows
      BY SourceTypes DEF CountInv, Source
    <3>1. /\ idle' = Append(idle, s) /\ discId' = underflows /\ sink' = "none"
          /\ task' = task /\ underflows' = underflows /\ sink = "disc"
      BY <1>33, <2>1 DEF ScheduleDisc, counters
    <3>. HIDE DEF s
    <3>2. underflows \in Nat /\ underflows > 0
      BY <3>1, ConstantsAssumption DEF IdsInv, CountInv
    <3>3. \A j \in DOMAIN idle' : \/ j \in DOMAIN idle /\ idle'[j] = idle[j]
                                  \/ j = Len(idle) + 1 /\ idle'[j] = s
      BY <3>0, <3>1, QueueEnds
    <3>4. \A i \in DOMAIN idle : idle[i].kind = "disc" => idle[i].id # underflows
      BY <3>1 DEF IdsInv, QueuedDisc
    <3>5. \A i \in DOMAIN idle' : idle'[i].kind = "disc" => idle'[i].id \in 1..underflows
      BY <3>0, <3>2, <3>3 DEF IdsInv
    <3>6. \A i, j \in DOMAIN idle' : idle'[i].kind = "disc" /\ idle'[j].kind = "disc"
                                    /\ idle'[i].id = idle'[j].id => i = j
      BY <3>0, <3>3, <3>4 DEF IdsInv
    <3>7. task.kind = "disc" => task.id # underflows /\ ~QueuedDisc(task.id)'
      BY <3>0, <3>1, <3>3 DEF IdsInv, QueuedDisc
    <3>. QED  BY <3>1, <3>2, <3>5, <3>6, <3>7 DEF IdsInv, QueuedDisc
  <2>2. CASE ~(discId = 0 /\ ~discBusy)
    BY <1>33, <2>2 DEF ScheduleDisc, counters, IdsInv, QueuedDisc
  <2>. QED  BY <2>1, <2>2
<1>34. ASSUME ScheduleRetune PROVE IdsInv'
  BY <1>34, ConstantsAssumption DEF TypeOK, CountInv, IdsInv, QueuedDisc,
      ScheduleRetune, frames, counters, Source
<1>35. ASSUME NotifyEOS PROVE IdsInv'
  BY <1>35, ConstantsAssumption DEF TypeOK, CountInv, IdsInv, QueuedDisc,
      NotifyEOS, flags, frames, counters, Source
<1>. QED  BY <1>1, <1>2, <1>3, <1>4, <1>5, <1>6, <1>7, <1>8, <1>9, <1>10,
      <1>11, <1>12, <1>13, <1>14, <1>15, <1>16, <1>17, <1>18, <1>19, <1>20,
      <1>21, <1>22, <1>23, <1>24, <1>25, <1>26, <1>27, <1>28, <1>29, <1>30,
      <1>31, <1>32, <1>33, <1>34, <1>35
          DEF Next, Work, LoopWork, Schedule

LEMMA NothingQueued ==
    idle = <<>> => \A kind, id : Dequeue(kind, id) = <<>>
BY DEF Dequeue

\* Who removes sources from the queue.
LEMMA TeardownDraws ==
    ASSUME TypeOK, NEW c \in Ctx, Teardown(c) \/ Delete(c) \/ DiscSwitch
    PROVE  Drawn(idle')
<1>1. Drawn(idle)
  BY DEF Drawn
<1>2. \A kind, id : Drawn(Dequeue(kind, id))
  BY Dequeued
<1>3. idle' = idle \/ \E kind, id : idle' = Dequeue(kind, id)
  BY DEF Teardown, Delete, DiscSwitch, RemoveDisc, loop
<1>. QED  BY <1>1, <1>2, <1>3

\* A queue drawn from the present one has no new re-tune.
LEMMA RetunesDrawn ==
    ASSUME Drawn(idle')
    PROVE  /\ \A j \in DOMAIN idle' : idle'[j].kind = "retune" =>
                 \E i \in DOMAIN idle : idle[i].kind = "retune"
           /\ (\A i, l \in DOMAIN idle : idle[i].kind = "retune" /\ idle[l].kind = "retune" => l = i)
              => \A j, k \in DOMAIN idle' : idle'[j].kind = "retune" /\ idle'[k].kind = "retune" => k = j
BY DEF Drawn

LEMMA IdleStep ==
    ASSUME TypeOK, CountInv, LoopInv, CallInv, IdsInv, IdleInv, Next
    PROVE  IdleInv'
<1>. USE DEF TypeOK, CountInv, LoopInv, CallInv, IdleInv, Ctx, IdKept, StopLabels,
      TuneLabels, DiscLabels
<1>1. ASSUME NEW c \in {"app", "call"}, CallStop(c) PROVE IdleInv'
  BY <1>1 DEF CallStop, flags, loop, signals, Enter, MayCall
<1>2. ASSUME NEW c \in {"app", "call"}, CallTune(c) PROVE IdleInv'
  BY <1>2 DEF CallTune, flags, loop, signals, Enter, MayCall
<1>3. ASSUME NEW c \in {"app", "call"}, CallSeek(c) PROVE IdleInv'
  BY <1>3 DEF CallSeek, flags, loop, signals, Enter, MayCall
<1>4. ASSUME NEW c \in {"app", "call"}, CallSwitch(c) PROVE IdleInv'
  BY <1>4 DEF CallSwitch, flags, loop, signals, Enter, MayCall
<1>5. ASSUME NEW c \in Ctx, StopGate(c) PROVE IdleInv'
  BY <1>5 DEF StopGate, loop, signals, counters, Runs, Goto
<1>6. ASSUME NEW c \in Ctx, StopWoken(c) PROVE IdleInv'
  BY <1>6 DEF StopWoken, loop, signals, counters, Runs, Goto
<1>7. ASSUME NEW c \in Ctx, StopStream(c) PROVE IdleInv'
  BY <1>7 DEF StopStream, flags, loop, signals, counters, Runs, Goto
<1>8. ASSUME NEW c \in Ctx, Teardown(c) PROVE IdleInv'
  BY <1>8 DEF Teardown, loop, signals, counters, Runs, Goto, NewTune,
      InOwnDiscTask, RemoveDisc, OnLoop
<1>9. ASSUME NEW c \in Ctx, TeardownWoken(c) PROVE IdleInv'
  BY <1>9 DEF TeardownWoken, loop, signals, counters, Runs, Goto
<1>10. ASSUME NEW c \in Ctx, Delete(c) PROVE IdleInv'
  <2>1. /\ state' = state /\ task' = task /\ discId' = discId /\ sink' = sink
        /\ op' = op /\ stream' = "none" /\ framePending' = FALSE
        /\ scenario' = scenario /\ idle' = Dequeue("eos", 0)
    BY <1>10 DEF Delete, flags, signals, counters
  <2>2. \A d \in Ctx \ {c} : pc'[d] = pc[d] /\ stage'[d] = stage[d]
    BY <1>10 DEF Delete, Goto, TypeOK
  <2>3. pc'[c] \in {"stopEnd", "tuneBegin", "init"} /\ (pc'[c] = "tuneBegin" => stage[c] = "switch")
    <3>1. stage[c] \in {"stop", "switch", "tune"}
      BY <1>10 DEF Delete, Runs, TypeOK, Ctx, LoopInv, CallInv
    <3>. QED  BY <1>10, <3>1 DEF Delete, Goto, TypeOK, PCs
  <2>4. c \in {"app", "call"} /\ pc'[c] = "tuneBegin" => op[c] = "Switch"
    BY <1>10, <2>3 DEF Delete, Runs, CallInv
  <2>5. pc[c] = "delete"
    BY <1>10 DEF Delete, Runs
  <2>. QED  BY <2>1, <2>2, <2>3, <2>4, <2>5, NothingQueued DEF IdleInv, StopLabels,
        Ctx, IdKept
<1>11. ASSUME NEW c \in Ctx, StopEnd(c) PROVE IdleInv'
  BY <1>11 DEF StopEnd, loop, signals, counters, Runs, Goto
<1>12. ASSUME NEW c \in Ctx, TuneBegin(c) PROVE IdleInv'
  BY <1>12 DEF TuneBegin, loop, signals, counters, Runs, Goto, SeekType
<1>13. ASSUME NEW c \in Ctx, InitStream(c) PROVE IdleInv'
  <2>0. c \in {"app", "call"} /\ pc[c] # "rest" => op[c] \in AllOps
    BY ScenarioTypes
  <2>1. CASE c = "task"
    BY <1>13, <2>0, <2>1 DEF InitStream, flags, loop, signals, counters, Runs, Goto,
          SeekType, Return, TypeOK, IdleInv, StopLabels, Ctx
  <2>2. CASE c = "call"
    BY <1>13, <2>0, <2>2, ScenarioTypes DEF InitStream, flags, loop, signals,
          counters, Runs, Goto, SeekType, Return, TypeOK, IdleInv, StopLabels, Ctx,
          AllOps
  <2>3. CASE c = "app"
    <3>1. ~(scenario.app = "app" /\ IdKept /\ state' = "idle")
      BY <1>13, <2>0, <2>3 DEF InitStream, flags, loop, signals, counters, Runs,
            Goto, SeekType, Return, TypeOK, IdleInv, Ctx, AllOps, LoopInv, CallInv,
            StopLabels, TuneLabels
    <3>. QED  BY <1>13, <2>0, <2>3, <3>1 DEF InitStream, flags, loop, signals,
          counters, Runs, Goto, SeekType, Return, TypeOK, IdleInv, StopLabels, Ctx,
          IdKept, AllOps
  <2>. QED  BY <2>1, <2>2, <2>3 DEF Ctx
<1>14. ASSUME NEW c \in Ctx, StartStream(c) PROVE IdleInv'
  <2>0. c \in {"app", "call"} /\ pc[c] # "rest" => op[c] \in AllOps
    BY ScenarioTypes
  <2>1. CASE c = "task"
    BY <1>14, <2>0, <2>1 DEF StartStream, loop, counters, Runs, Goto, SeekType,
          Return, TypeOK, IdleInv, StopLabels, Ctx
  <2>2. CASE c = "call"
    BY <1>14, <2>0, <2>2, ScenarioTypes DEF StartStream, loop, counters, Runs, Goto,
          SeekType, Return, TypeOK, IdleInv, StopLabels, Ctx, AllOps
  <2>3. CASE c = "app"
    <3>1. ~(scenario.app = "app" /\ IdKept /\ state' = "idle")
      BY <1>14, <2>0, <2>3 DEF StartStream, loop, counters, Runs, Goto, SeekType,
            Return, TypeOK, IdleInv, Ctx, AllOps, LoopInv, CallInv, StopLabels,
            TuneLabels
    <3>. QED  BY <1>14, <2>0, <2>3, <3>1 DEF StartStream, loop, counters, Runs, Goto,
          SeekType, Return, TypeOK, IdleInv, StopLabels, Ctx, IdKept, AllOps
  <2>. QED  BY <2>1, <2>2, <2>3 DEF Ctx
<1>15. ASSUME RunRetune PROVE IdleInv'
  BY <1>15 DEF RunRetune, frames, signals, counters, LoopFree, Dispatch,
      NoSource
<1>16. ASSUME RetuneEnd PROVE IdleInv'
  BY <1>16 DEF RetuneEnd, signals, counters, Runs, Signal, NoSource
<1>17. ASSUME RunDisc PROVE IdleInv'
  BY <1>17 DEF RunDisc, flags, signals, counters, LoopFree, Dispatch, NoSource
<1>18. ASSUME RunEos PROVE IdleInv'
  BY <1>18 DEF RunEos, flags, signals, counters, LoopFree, Dispatch, NoSource
<1>19. ASSUME Eos PROVE IdleInv'
  BY <1>19 DEF Eos, flags, loop, signals, counters, Runs, Goto
<1>20. ASSUME EosTuned PROVE IdleInv'
  BY <1>20 DEF EosTuned, flags, signals, counters, Runs, EndTask, Goto,
      NoSource
<1>21. ASSUME EosEnd PROVE IdleInv'
  BY <1>21 DEF EosEnd, flags, signals, counters, Runs, EndTask, Goto, NoSource
<1>22. ASSUME FirstFrame PROVE IdleInv'
  BY <1>22 DEF FirstFrame, flags, loop, frames, signals, counters, LoopFree,
      NoSource
<1>23. ASSUME DiscEnter PROVE IdleInv'
  BY <1>23 DEF DiscEnter, flags, signals, counters, Runs, Goto, EndTask,
      AfterDisc, NoSource
<1>24. ASSUME DiscFlags PROVE IdleInv'
  BY <1>24 DEF DiscFlags, flags, loop, signals, counters, Runs, Goto,
      AfterDisc
<1>25. ASSUME DiscMark PROVE IdleInv'
  BY <1>25 DEF DiscMark, loop, signals, counters, Runs, Goto
<1>26. ASSUME DiscCheck PROVE IdleInv'
  BY <1>26 DEF DiscCheck, loop, signals, counters, Runs, Goto
<1>27. ASSUME DiscResume PROVE IdleInv'
  BY <1>27 DEF DiscResume, signals, counters, Runs, Goto, EndTask, NoSource
<1>28. ASSUME DiscSwitch PROVE IdleInv'
  BY <1>28 DEF DiscSwitch, counters, Runs, Goto
<1>29. ASSUME DiscDone PROVE IdleInv'
  BY <1>29 DEF DiscDone, loop, signals, counters, Runs, Goto, AfterDisc
<1>30. ASSUME DiscSignal PROVE IdleInv'
  BY <1>30 DEF DiscSignal, signals, counters, Runs, Signal, NoSource
<1>31. ASSUME Discontinuity PROVE IdleInv'
  BY <1>31 DEF Discontinuity, loop, frames, signals
<1>32. ASSUME RetuneCheck PROVE IdleInv'
  BY <1>32 DEF RetuneCheck, flags, loop, frames
<1>33. ASSUME ScheduleDisc PROVE IdleInv'
  BY <1>33 DEF ScheduleDisc, frames, counters, Source
<1>34. ASSUME ScheduleRetune PROVE IdleInv'
  BY <1>34 DEF ScheduleRetune, frames, counters, Source
<1>35. ASSUME NotifyEOS PROVE IdleInv'
  BY <1>35 DEF NotifyEOS, flags, frames, counters, Source
<1>. QED  BY <1>1, <1>2, <1>3, <1>4, <1>5, <1>6, <1>7, <1>8, <1>9, <1>10,
      <1>11, <1>12, <1>13, <1>14, <1>15, <1>16, <1>17, <1>18, <1>19, <1>20,
      <1>21, <1>22, <1>23, <1>24, <1>25, <1>26, <1>27, <1>28, <1>29, <1>30,
      <1>31, <1>32, <1>33, <1>34, <1>35
          DEF Next, Work, LoopWork, Schedule

LEMMA DiscStep ==
    ASSUME TypeOK, CountInv, LoopInv, CallInv, IdsInv, DiscInv, Next
    PROVE  DiscInv'
<1>. USE DEF TypeOK, CountInv, LoopInv, DiscInv, Ctx, Tracks, StopLabels, TuneLabels,
      DiscLabels
<1>1. ASSUME NEW c \in {"app", "call"}, CallStop(c) PROVE DiscInv'
  BY <1>1 DEF CallStop, flags, loop, signals, Enter, MayCall
<1>2. ASSUME NEW c \in {"app", "call"}, CallTune(c) PROVE DiscInv'
  BY <1>2 DEF CallTune, flags, loop, signals, Enter, MayCall
<1>3. ASSUME NEW c \in {"app", "call"}, CallSeek(c) PROVE DiscInv'
  BY <1>3 DEF CallSeek, flags, loop, signals, Enter, MayCall
<1>4. ASSUME NEW c \in {"app", "call"}, CallSwitch(c) PROVE DiscInv'
  BY <1>4 DEF CallSwitch, flags, loop, signals, Enter, MayCall
<1>5. ASSUME NEW c \in Ctx, StopGate(c) PROVE DiscInv'
  BY <1>5 DEF StopGate, loop, signals, counters, Runs, Goto
<1>6. ASSUME NEW c \in Ctx, StopWoken(c) PROVE DiscInv'
  BY <1>6 DEF StopWoken, loop, signals, counters, Runs, Goto
<1>7. ASSUME NEW c \in Ctx, StopStream(c) PROVE DiscInv'
  BY <1>7 DEF StopStream, flags, loop, signals, counters, Runs, Goto
<1>8. ASSUME NEW c \in Ctx, Teardown(c) PROVE DiscInv'
  <2>1. Drawn(idle')
    BY <1>8, Dequeued DEF Teardown, RemoveDisc, loop, Drawn
  <2>. QED  BY <1>8, <2>1 DEF Drawn, DiscInv, Teardown, loop, signals,
        counters, Runs, Goto, NewTune, InOwnDiscTask, OnLoop, RemoveDisc
<1>9. ASSUME NEW c \in Ctx, TeardownWoken(c) PROVE DiscInv'
  BY <1>9 DEF TeardownWoken, loop, signals, counters, Runs, Goto
<1>10. ASSUME NEW c \in Ctx, Delete(c) PROVE DiscInv'
  <2>1. Drawn(idle')
    BY <1>10, TeardownDraws
  <2>2. /\ discs' = discs /\ disc' = disc /\ sink' = sink /\ task' = task
        /\ \A d \in Ctx \ {c} : pc'[d] = pc[d]
        /\ pc'[c] \in {"stopEnd", "tuneBegin", "init"}
    BY <1>10 DEF Delete, flags, signals, counters, Goto, Runs, CallInv
  <2>. QED  BY <2>1, <2>2 DEF Drawn, DiscInv
<1>11. ASSUME NEW c \in Ctx, StopEnd(c) PROVE DiscInv'
  BY <1>11 DEF StopEnd, loop, signals, counters, Runs, Goto
<1>12. ASSUME NEW c \in Ctx, TuneBegin(c) PROVE DiscInv'
  BY <1>12 DEF TuneBegin, loop, signals, counters, Runs, Goto, SeekType
<1>13. ASSUME NEW c \in Ctx, InitStream(c) PROVE DiscInv'
  BY <1>13 DEF InitStream, flags, loop, signals, counters, Runs, Goto,
      SeekType, Return
<1>14. ASSUME NEW c \in Ctx, StartStream(c) PROVE DiscInv'
  BY <1>14 DEF StartStream, loop, counters, Runs, Goto, SeekType, Return
<1>15. ASSUME RunRetune PROVE DiscInv'
  <2>1. Drawn(idle')
    BY <1>15, QueueEnds DEF RunRetune, Dispatch
  <2>. QED  BY <1>15, <2>1 DEF Drawn, DiscInv, RunRetune, frames, signals,
        counters, LoopFree, NoSource, Dispatch
<1>16. ASSUME RetuneEnd PROVE DiscInv'
  BY <1>16 DEF RetuneEnd, signals, counters, Runs, Signal, NoSource
<1>17. ASSUME RunDisc PROVE DiscInv'
  BY <1>17, QueueEnds DEF RunDisc, flags, signals, counters, LoopFree,
      Dispatch, NoSource
<1>18. ASSUME RunEos PROVE DiscInv'
  BY <1>18, QueueEnds DEF RunEos, flags, signals, counters, LoopFree,
      Dispatch, NoSource
<1>19. ASSUME Eos PROVE DiscInv'
  BY <1>19 DEF Eos, flags, loop, signals, counters, Runs, Goto
<1>20. ASSUME EosTuned PROVE DiscInv'
  BY <1>20 DEF EosTuned, flags, signals, counters, Runs, EndTask, Goto,
      NoSource
<1>21. ASSUME EosEnd PROVE DiscInv'
  BY <1>21 DEF EosEnd, flags, signals, counters, Runs, EndTask, Goto, NoSource
<1>22. ASSUME FirstFrame PROVE DiscInv'
  BY <1>22 DEF FirstFrame, flags, loop, frames, signals, counters, LoopFree,
      NoSource
<1>23. ASSUME DiscEnter PROVE DiscInv'
  BY <1>23 DEF DiscEnter, flags, signals, counters, Runs, Goto, EndTask,
      AfterDisc, NoSource
<1>24. ASSUME DiscFlags PROVE DiscInv'
  BY <1>24 DEF DiscFlags, flags, loop, signals, counters, Runs, Goto,
      AfterDisc
<1>25. ASSUME DiscMark PROVE DiscInv'
  BY <1>25 DEF DiscMark, loop, signals, counters, Runs, Goto
<1>26. ASSUME DiscCheck PROVE DiscInv'
  BY <1>26 DEF DiscCheck, loop, signals, counters, Runs, Goto
<1>27. ASSUME DiscResume PROVE DiscInv'
  BY <1>27 DEF DiscResume, signals, counters, Runs, Goto, EndTask, NoSource
<1>28. ASSUME DiscSwitch PROVE DiscInv'
  BY <1>28, Dequeued DEF DiscSwitch, counters, Runs, Goto
<1>29. ASSUME DiscDone PROVE DiscInv'
  BY <1>29 DEF DiscDone, loop, signals, counters, Runs, Goto, AfterDisc
<1>30. ASSUME DiscSignal PROVE DiscInv'
  BY <1>30 DEF DiscSignal, signals, counters, Runs, Signal, NoSource
<1>31. ASSUME Discontinuity PROVE DiscInv'
  BY <1>31 DEF Discontinuity, loop, frames, signals
<1>32. ASSUME RetuneCheck PROVE DiscInv'
  BY <1>32 DEF RetuneCheck, flags, loop, frames
<1>33. ASSUME ScheduleDisc PROVE DiscInv'
  BY <1>33 DEF ScheduleDisc, frames, counters, Source
<1>34. ASSUME ScheduleRetune PROVE DiscInv'
  BY <1>34 DEF ScheduleRetune, frames, counters, Source
<1>35. ASSUME NotifyEOS PROVE DiscInv'
  BY <1>35 DEF NotifyEOS, flags, frames, counters, Source
<1>. QED  BY <1>1, <1>2, <1>3, <1>4, <1>5, <1>6, <1>7, <1>8, <1>9, <1>10,
      <1>11, <1>12, <1>13, <1>14, <1>15, <1>16, <1>17, <1>18, <1>19, <1>20,
      <1>21, <1>22, <1>23, <1>24, <1>25, <1>26, <1>27, <1>28, <1>29, <1>30,
      <1>31, <1>32, <1>33, <1>34, <1>35
          DEF Next, Work, LoopWork, Schedule

LEMMA StopStep ==
    ASSUME TypeOK, CountInv, LoopInv, CallInv, StopInv, Next
    PROVE  StopInv'
<1>1. ASSUME NEW c \in {"app", "call"}, CallStop(c) PROVE StopInv'
  BY <1>1 DEF TypeOK, CountInv, LoopInv, StopInv, Ctx,
      PCs, StopLabels, TuneLabels, DiscLabels, CallStop, flags, loop, signals, Enter, MayCall
<1>2. ASSUME NEW c \in {"app", "call"}, CallTune(c) PROVE StopInv'
  BY <1>2 DEF TypeOK, CountInv, LoopInv, StopInv, Ctx,
      PCs, StopLabels, TuneLabels, DiscLabels, CallTune, flags, loop, signals, Enter, MayCall
<1>3. ASSUME NEW c \in {"app", "call"}, CallSeek(c) PROVE StopInv'
  BY <1>3 DEF TypeOK, CountInv, LoopInv, StopInv, Ctx,
      PCs, StopLabels, TuneLabels, DiscLabels, CallSeek, flags, loop, signals, Enter, MayCall
<1>4. ASSUME NEW c \in {"app", "call"}, CallSwitch(c) PROVE StopInv'
  BY <1>4 DEF TypeOK, CountInv, LoopInv, StopInv, Ctx,
      PCs, StopLabels, TuneLabels, DiscLabels, CallSwitch, flags, loop, signals, Enter, MayCall
<1>5. ASSUME NEW c \in Ctx, StopGate(c) PROVE StopInv'
  BY <1>5 DEF TypeOK, CountInv, LoopInv, StopInv, Ctx,
      PCs, StopLabels, TuneLabels, DiscLabels, StopGate, loop, signals, counters, Runs, Goto
<1>6. ASSUME NEW c \in Ctx, StopWoken(c) PROVE StopInv'
  BY <1>6 DEF TypeOK, CountInv, LoopInv, StopInv, Ctx,
      PCs, StopLabels, TuneLabels, DiscLabels, StopWoken, loop, signals, counters, Runs, Goto
<1>7. ASSUME NEW c \in Ctx, StopStream(c) PROVE StopInv'
  BY <1>7 DEF TypeOK, CountInv, LoopInv, StopInv, Ctx,
      PCs, StopLabels, TuneLabels, DiscLabels, StopStream, flags, loop, signals, counters, Runs, Goto
<1>8. ASSUME NEW c \in Ctx, Teardown(c) PROVE StopInv'
  <2>1. Drawn(idle')
    BY <1>8, TeardownDraws DEF Ctx
  <2>2. /\ underflows' = underflows /\ sink' = sink /\ task'.kind = task.kind /\ reTune' = reTune
        /\ \A d \in Ctx : pc'[d] = "stopWoken" => pc[d] = "stopWoken"
    BY <1>8 DEF Teardown, loop, signals, counters, Runs, Goto, NewTune,
          InOwnDiscTask, RemoveDisc, OnLoop, TypeOK, Ctx, PCs, LoopInv, CallInv
  <2>. QED  BY <2>1, <2>2, RetunesDrawn DEF StopInv
<1>9. ASSUME NEW c \in Ctx, TeardownWoken(c) PROVE StopInv'
  BY <1>9 DEF TypeOK, CountInv, LoopInv, StopInv, Ctx,
      PCs, StopLabels, TuneLabels, DiscLabels, TeardownWoken, loop, signals, counters, Runs, Goto
<1>10. ASSUME NEW c \in Ctx, Delete(c) PROVE StopInv'
  <2>1. Drawn(idle')
    BY <1>10, TeardownDraws DEF Ctx
  <2>2. /\ underflows' = underflows /\ sink' = sink /\ task'.kind = task.kind /\ reTune' = reTune
        /\ \A d \in Ctx : pc'[d] = "stopWoken" => pc[d] = "stopWoken"
    BY <1>10 DEF Delete, flags, signals, counters, Runs, Goto, TypeOK, Ctx, PCs,
          LoopInv, CallInv
  <2>. QED  BY <2>1, <2>2, RetunesDrawn DEF StopInv
<1>11. ASSUME NEW c \in Ctx, StopEnd(c) PROVE StopInv'
  BY <1>11 DEF TypeOK, CountInv, LoopInv, StopInv, Ctx,
      PCs, StopLabels, TuneLabels, DiscLabels, StopEnd, loop, signals, counters, Runs, Goto
<1>12. ASSUME NEW c \in Ctx, TuneBegin(c) PROVE StopInv'
  BY <1>12 DEF TypeOK, CountInv, LoopInv, StopInv, Ctx,
      PCs, StopLabels, TuneLabels, DiscLabels, TuneBegin, loop, signals, counters, Runs, Goto, SeekType
<1>13. ASSUME NEW c \in Ctx, InitStream(c) PROVE StopInv'
  BY <1>13 DEF TypeOK, CountInv, LoopInv, StopInv, Ctx,
      PCs, StopLabels, TuneLabels, DiscLabels, InitStream, flags, loop, signals, counters, Runs, Goto,
      SeekType, Return
<1>14. ASSUME NEW c \in Ctx, StartStream(c) PROVE StopInv'
  BY <1>14 DEF TypeOK, CountInv, LoopInv, StopInv, Ctx,
      PCs, StopLabels, TuneLabels, DiscLabels, StartStream, loop, counters, Runs, Goto, SeekType, Return
<1>15. ASSUME RunRetune PROVE StopInv'
  <2>1. /\ Head(idle) = idle[1] /\ 1 \in DOMAIN idle /\ idle[1].kind = "retune" /\ idle' = Tail(idle)
    BY <1>15, QueueEnds DEF RunRetune, Dispatch
  <2>2. underflows <= 1 => \A j \in DOMAIN idle' : idle'[j].kind # "retune"
    <3>1. underflows <= 1 => \A j \in DOMAIN idle : j # 1 => idle[j].kind # "retune"
      BY <2>1 DEF StopInv
    <3>. QED  BY <1>15, <2>1, <3>1, QueueEnds DEF RunRetune
  <2>3. underflows <= 1 => underflows = 1 /\ \A i \in DOMAIN idle : idle[i].kind # "retune" \/ i = 1
    BY <2>1 DEF StopInv
  <2>. QED  BY <1>15, <2>1, <2>2, <2>3 DEF StopInv, TypeOK, LoopInv, Ctx, PCs,
        RunRetune, frames, signals, counters, LoopFree, Dispatch, NoSource
<1>16. ASSUME RetuneEnd PROVE StopInv'
  BY <1>16 DEF TypeOK, CountInv, LoopInv, StopInv, Ctx,
      PCs, StopLabels, TuneLabels, DiscLabels, RetuneEnd, signals, counters, Runs, Signal, NoSource
<1>17. ASSUME RunDisc PROVE StopInv'
  <2>1. Drawn(idle') /\ Head(idle) = idle[1] /\ 1 \in DOMAIN idle
    BY <1>17, QueueEnds DEF RunDisc, Dispatch
  <2>2. /\ underflows' = underflows /\ sink' = sink /\ task' = Head(idle) /\ reTune' = reTune
        /\ Head(idle).kind = "disc" /\ task.kind = "none"
        /\ \A d \in Ctx : pc'[d] = "stopWoken" => pc[d] = "stopWoken"
    BY <1>17 DEF RunDisc, flags, signals, counters, LoopFree, Dispatch, NoSource,
          TypeOK, Ctx, PCs
  <2>3. task'.kind # "retune"
    BY <2>2
  <2>. QED  BY <2>1, <2>2, <2>3, RetunesDrawn DEF StopInv
<1>18. ASSUME RunEos PROVE StopInv'
  <2>1. Drawn(idle') /\ Head(idle) = idle[1] /\ 1 \in DOMAIN idle
    BY <1>18, QueueEnds DEF RunEos, Dispatch
  <2>2. /\ underflows' = underflows /\ sink' = sink /\ task' = Head(idle) /\ reTune' = reTune
        /\ Head(idle).kind = "eos" /\ task.kind = "none"
        /\ \A d \in Ctx : pc'[d] = "stopWoken" => pc[d] = "stopWoken"
    BY <1>18 DEF RunEos, flags, signals, counters, LoopFree, Dispatch, NoSource,
          TypeOK, Ctx, PCs
  <2>3. task'.kind # "retune"
    BY <2>2
  <2>. QED  BY <2>1, <2>2, <2>3, RetunesDrawn DEF StopInv
<1>19. ASSUME Eos PROVE StopInv'
  BY <1>19 DEF TypeOK, CountInv, LoopInv, StopInv, Ctx,
      PCs, StopLabels, TuneLabels, DiscLabels, Eos, flags, loop, signals, counters, Runs, Goto
<1>20. ASSUME EosTuned PROVE StopInv'
  BY <1>20 DEF TypeOK, CountInv, LoopInv, StopInv, Ctx,
      PCs, StopLabels, TuneLabels, DiscLabels, EosTuned, flags, signals, counters, Runs, EndTask, Goto,
      NoSource
<1>21. ASSUME EosEnd PROVE StopInv'
  BY <1>21 DEF TypeOK, CountInv, LoopInv, StopInv, Ctx,
      PCs, StopLabels, TuneLabels, DiscLabels, EosEnd, flags, signals, counters, Runs, EndTask, Goto, NoSource
<1>22. ASSUME FirstFrame PROVE StopInv'
  BY <1>22 DEF TypeOK, CountInv, LoopInv, StopInv, Ctx,
      PCs, StopLabels, TuneLabels, DiscLabels, FirstFrame, flags, loop, frames, signals, counters, LoopFree,
      NoSource
<1>23. ASSUME DiscEnter PROVE StopInv'
  BY <1>23 DEF TypeOK, CountInv, LoopInv, StopInv, Ctx,
      PCs, StopLabels, TuneLabels, DiscLabels, DiscEnter, flags, signals, counters, Runs, Goto, EndTask,
      AfterDisc, NoSource
<1>24. ASSUME DiscFlags PROVE StopInv'
  BY <1>24 DEF TypeOK, CountInv, LoopInv, StopInv, Ctx,
      PCs, StopLabels, TuneLabels, DiscLabels, DiscFlags, flags, loop, signals, counters, Runs, Goto,
      AfterDisc
<1>25. ASSUME DiscMark PROVE StopInv'
  BY <1>25 DEF TypeOK, CountInv, LoopInv, StopInv, Ctx,
      PCs, StopLabels, TuneLabels, DiscLabels, DiscMark, loop, signals, counters, Runs, Goto
<1>26. ASSUME DiscCheck PROVE StopInv'
  BY <1>26 DEF TypeOK, CountInv, LoopInv, StopInv, Ctx,
      PCs, StopLabels, TuneLabels, DiscLabels, DiscCheck, loop, signals, counters, Runs, Goto
<1>27. ASSUME DiscResume PROVE StopInv'
  BY <1>27 DEF TypeOK, CountInv, LoopInv, StopInv, Ctx,
      PCs, StopLabels, TuneLabels, DiscLabels, DiscResume, signals, counters, Runs, Goto, EndTask, NoSource
<1>28. ASSUME DiscSwitch PROVE StopInv'
  <2>1. Drawn(idle')
    BY <1>28, TeardownDraws DEF Ctx
  <2>2. /\ underflows' = underflows /\ sink' = sink /\ task'.kind = task.kind /\ reTune' = reTune
        /\ \A d \in Ctx : pc'[d] = "stopWoken" => pc[d] = "stopWoken"
    BY <1>28 DEF DiscSwitch, counters, Runs, Goto, TypeOK, Ctx, PCs, LoopInv, CallInv
  <2>. QED  BY <2>1, <2>2, RetunesDrawn DEF StopInv
<1>29. ASSUME DiscDone PROVE StopInv'
  BY <1>29 DEF TypeOK, CountInv, LoopInv, StopInv, Ctx,
      PCs, StopLabels, TuneLabels, DiscLabels, DiscDone, loop, signals, counters, Runs, Goto, AfterDisc
<1>30. ASSUME DiscSignal PROVE StopInv'
  BY <1>30 DEF TypeOK, CountInv, LoopInv, StopInv, Ctx,
      PCs, StopLabels, TuneLabels, DiscLabels, DiscSignal, signals, counters, Runs, Signal, NoSource
<1>31. ASSUME Discontinuity PROVE StopInv'
  BY <1>31 DEF TypeOK, CountInv, LoopInv, StopInv, Ctx,
      PCs, StopLabels, TuneLabels, DiscLabels, Discontinuity, loop, frames, signals
<1>32. ASSUME RetuneCheck PROVE StopInv'
  BY <1>32 DEF TypeOK, CountInv, LoopInv, StopInv, Ctx,
      PCs, StopLabels, TuneLabels, DiscLabels, RetuneCheck, flags, loop, frames
<1>33. ASSUME ScheduleDisc PROVE StopInv'
  <2>1. CASE idle' = idle
    BY <1>33, <2>1 DEF ScheduleDisc, StopInv, frames, counters
  <2>2. CASE idle' = Append(idle, Source("disc", underflows))
    <3>1. Source("disc", underflows) \in Sources /\ Source("disc", underflows).kind = "disc"
      BY SourceTypes DEF CountInv, Source
    <3>2. \A j \in DOMAIN idle' : \/ j \in DOMAIN idle /\ idle'[j] = idle[j]
                                  \/ idle'[j].kind = "disc"
      BY <2>2, <3>1, QueueEnds
    <3>. QED  BY <1>33, <3>2 DEF ScheduleDisc, StopInv, frames, counters
  <2>. QED  BY <1>33, <2>1, <2>2 DEF ScheduleDisc
<1>34. ASSUME ScheduleRetune PROVE StopInv'
  BY <1>34 DEF TypeOK, CountInv, LoopInv, StopInv, Ctx,
      PCs, StopLabels, TuneLabels, DiscLabels, ScheduleRetune, frames, counters, Source
<1>35. ASSUME NotifyEOS PROVE StopInv'
  BY <1>35 DEF TypeOK, CountInv, LoopInv, StopInv, Ctx,
      PCs, StopLabels, TuneLabels, DiscLabels, NotifyEOS, flags, frames, counters, Source
<1>. QED  BY <1>1, <1>2, <1>3, <1>4, <1>5, <1>6, <1>7, <1>8, <1>9, <1>10,
      <1>11, <1>12, <1>13, <1>14, <1>15, <1>16, <1>17, <1>18, <1>19, <1>20,
      <1>21, <1>22, <1>23, <1>24, <1>25, <1>26, <1>27, <1>28, <1>29, <1>30,
      <1>31, <1>32, <1>33, <1>34, <1>35
          DEF Next, Work, LoopWork, Schedule

LEMMA LiveStep ==
    ASSUME TypeOK, CountInv, LoopInv, CallInv, IdsInv, GivenUpInv, LiveInv, Next
    PROVE  LiveInv'
<1>. USE DEF LiveInv, IdKept, QueuedDisc
<1>1. ASSUME NEW c \in {"app", "call"}, CallStop(c) PROVE LiveInv'
  BY <1>1 DEF CallStop, flags, loop, signals, Enter, MayCall
<1>2. ASSUME NEW c \in {"app", "call"}, CallTune(c) PROVE LiveInv'
  BY <1>2 DEF CallTune, flags, loop, signals, Enter, MayCall
<1>3. ASSUME NEW c \in {"app", "call"}, CallSeek(c) PROVE LiveInv'
  BY <1>3 DEF CallSeek, flags, loop, signals, Enter, MayCall
<1>4. ASSUME NEW c \in {"app", "call"}, CallSwitch(c) PROVE LiveInv'
  BY <1>4 DEF CallSwitch, flags, loop, signals, Enter, MayCall
<1>5. ASSUME NEW c \in Ctx, StopGate(c) PROVE LiveInv'
  BY <1>5 DEF StopGate, loop, signals, counters, Runs, Goto
<1>6. ASSUME NEW c \in Ctx, StopWoken(c) PROVE LiveInv'
  BY <1>6 DEF StopWoken, loop, signals, counters, Runs, Goto
<1>7. ASSUME NEW c \in Ctx, StopStream(c) PROVE LiveInv'
  BY <1>7 DEF StopStream, flags, loop, signals, counters, Runs, Goto
<1>8. ASSUME NEW c \in Ctx, Teardown(c) PROVE LiveInv'
  BY <1>8, Dequeued DEF Teardown, loop, signals, counters, Runs, Goto,
      NewTune, InOwnDiscTask, RemoveDisc, OnLoop
<1>9. ASSUME NEW c \in Ctx, TeardownWoken(c) PROVE LiveInv'
  BY <1>9 DEF TeardownWoken, loop, signals, counters, Runs, Goto
<1>10. ASSUME NEW c \in Ctx, Delete(c) PROVE LiveInv'
  BY <1>10, Dequeued DEF Delete, flags, signals, counters, Runs, Goto
<1>11. ASSUME NEW c \in Ctx, StopEnd(c) PROVE LiveInv'
  BY <1>11 DEF StopEnd, loop, signals, counters, Runs, Goto
<1>12. ASSUME NEW c \in Ctx, TuneBegin(c) PROVE LiveInv'
  BY <1>12 DEF TuneBegin, loop, signals, counters, Runs, Goto, SeekType
<1>13. ASSUME NEW c \in Ctx, InitStream(c) PROVE LiveInv'
  BY <1>13 DEF InitStream, flags, loop, signals, counters, Runs, Goto,
      SeekType, Return
<1>14. ASSUME NEW c \in Ctx, StartStream(c) PROVE LiveInv'
  BY <1>14 DEF StartStream, loop, counters, Runs, Goto, SeekType, Return
<1>15. ASSUME RunRetune PROVE LiveInv'
  <2>1. /\ 1 \in DOMAIN idle /\ idle[1].kind = "retune" /\ idle' = Tail(idle) /\ idle # <<>>
        /\ task.kind = "none" /\ discId' = discId /\ scenario' = scenario
    BY <1>15, QueueEnds DEF RunRetune, Dispatch, LoopFree, NoSource
  <2>2. QueuedDisc(discId) => \E j \in DOMAIN Tail(idle) :
           Tail(idle)[j].kind = "disc" /\ Tail(idle)[j].id = discId
    <3>1. ASSUME NEW i \in DOMAIN idle, idle[i].kind = "disc", idle[i].id = discId
          PROVE  \E j \in DOMAIN Tail(idle) : Tail(idle)[j].kind = "disc" /\ Tail(idle)[j].id = discId
      <4>1. i # 1  BY <2>1, <3>1
      <4>. QED  BY <2>1, <3>1, <4>1, QueueEnds
    <3>. QED  BY <3>1
  <2>. QED  BY <2>1, <2>2
<1>16. ASSUME RetuneEnd PROVE LiveInv'
  <2>1. task.kind # "disc"
    BY <1>16 DEF RetuneEnd, Runs, TypeOK, LoopInv, TuneLabels, DiscLabels
  <2>2. discId' = discId /\ idle' = idle /\ scenario' = scenario
    BY <1>16 DEF RetuneEnd, flags
  <2>. QED  BY <2>1, <2>2
<1>17. ASSUME RunDisc PROVE LiveInv'
  BY <1>17, QueueEnds DEF RunDisc, flags, signals, counters, LoopFree,
      Dispatch, NoSource
<1>18. ASSUME RunEos PROVE LiveInv'
  BY <1>18, QueueEnds DEF RunEos, flags, signals, counters, LoopFree,
      Dispatch, NoSource
<1>19. ASSUME Eos PROVE LiveInv'
  BY <1>19 DEF Eos, flags, loop, signals, counters, Runs, Goto
<1>20. ASSUME EosTuned PROVE LiveInv'
  <2>1. task.kind # "disc"
    BY <1>20 DEF EosTuned, Runs, TypeOK, LoopInv, TuneLabels, DiscLabels
  <2>2. discId' = discId /\ idle' = idle /\ scenario' = scenario
    BY <1>20 DEF EosTuned, flags
  <2>. QED  BY <2>1, <2>2
<1>21. ASSUME EosEnd PROVE LiveInv'
  <2>1. task.kind # "disc"
    BY <1>21 DEF EosEnd, Runs, TypeOK, LoopInv, TuneLabels, DiscLabels
  <2>2. discId' = discId /\ idle' = idle /\ scenario' = scenario
    BY <1>21 DEF EosEnd, flags
  <2>. QED  BY <2>1, <2>2
<1>22. ASSUME FirstFrame PROVE LiveInv'
  BY <1>22 DEF FirstFrame, flags, loop, frames, signals, counters, LoopFree,
      NoSource
<1>23. ASSUME DiscEnter PROVE LiveInv'
  <2>1. task' = task \/ (task.removed /\ op["task"] = "Disc")
    BY <1>23 DEF DiscEnter
  <2>2. discId' = discId /\ idle' = idle /\ scenario' = scenario
    BY <1>23 DEF DiscEnter, flags
  <2>3. task.removed /\ task.kind = "disc" => task.id # discId
    BY DEF IdsInv
  <2>. QED  BY <2>1, <2>2, <2>3
<1>24. ASSUME DiscFlags PROVE LiveInv'
  BY <1>24 DEF DiscFlags, flags, loop, signals, counters, Runs, Goto,
      AfterDisc
<1>25. ASSUME DiscMark PROVE LiveInv'
  BY <1>25 DEF DiscMark, loop, signals, counters, Runs, Goto
<1>26. ASSUME DiscCheck PROVE LiveInv'
  BY <1>26 DEF DiscCheck, loop, signals, counters, Runs, Goto
<1>27. ASSUME DiscResume PROVE LiveInv'
  <2>1. task' = task \/ (~discBusy /\ op["task"] # "Eos")
    BY <1>27 DEF DiscResume
  <2>2. discId' = discId /\ idle' = idle /\ scenario' = scenario
    BY <1>27 DEF DiscResume
  <2>3. pc["task"] = "discReport" /\ ~Zapping
    BY <1>27 DEF DiscResume, Runs, Zapping
  <2>4. task.kind = "disc" => op["task"] = "Disc"
    BY DEF LoopInv
  <2>. QED  BY <2>1, <2>2, <2>3, <2>4 DEF GivenUpInv
<1>28. ASSUME DiscSwitch PROVE LiveInv'
  BY <1>28, Dequeued DEF DiscSwitch, counters, Runs, Goto
<1>29. ASSUME DiscDone PROVE LiveInv'
  BY <1>29 DEF DiscDone, loop, signals, counters, Runs, Goto, AfterDisc
<1>30. ASSUME DiscSignal PROVE LiveInv'
  BY <1>30 DEF DiscSignal, signals, counters, Runs, Signal, NoSource
<1>31. ASSUME Discontinuity PROVE LiveInv'
  BY <1>31 DEF Discontinuity, loop, frames, signals
<1>32. ASSUME RetuneCheck PROVE LiveInv'
  BY <1>32 DEF RetuneCheck, flags, loop, frames
<1>33. ASSUME ScheduleDisc PROVE LiveInv'
  BY <1>33 DEF ScheduleDisc, frames, counters, Source
<1>34. ASSUME ScheduleRetune PROVE LiveInv'
  BY <1>34 DEF ScheduleRetune, frames, counters, Source
<1>35. ASSUME NotifyEOS PROVE LiveInv'
  BY <1>35 DEF NotifyEOS, flags, frames, counters, Source
<1>. QED  BY <1>1, <1>2, <1>3, <1>4, <1>5, <1>6, <1>7, <1>8, <1>9, <1>10,
      <1>11, <1>12, <1>13, <1>14, <1>15, <1>16, <1>17, <1>18, <1>19, <1>20,
      <1>21, <1>22, <1>23, <1>24, <1>25, <1>26, <1>27, <1>28, <1>29, <1>30,
      <1>31, <1>32, <1>33, <1>34, <1>35
          DEF Next, Work, LoopWork, Schedule

LEMMA GivenUpStep ==
    ASSUME TypeOK, CountInv, LoopInv, CallInv, IdsInv, IdleInv, GivenUpInv, Next
    PROVE  GivenUpInv'
<1>. USE DEF TypeOK, LoopInv, GivenUpInv, Ctx, IdKept, Zapping, PCs, StopLabels,
      TuneLabels, DiscLabels
<1>1. ASSUME NEW c \in {"app", "call"}, CallStop(c) PROVE GivenUpInv'
  BY <1>1 DEF CallStop, flags, loop, signals, Enter, MayCall
<1>2. ASSUME NEW c \in {"app", "call"}, CallTune(c) PROVE GivenUpInv'
  <2>1. ~(c = "call" /\ Zapping) /\ task' = task /\ discId' = discId /\ discBusy' = discBusy
    BY <1>2 DEF CallTune, Enter, MayCall, flags, loop
  <2>2. c # "call" => pc'["call"] = pc["call"] /\ op'["call"] = op["call"] /\ stage'["call"] = stage["call"]
    BY <1>2 DEF CallTune, Enter, CountInv
  <2>3. pc'["task"] = pc["task"] /\ op'["task"] = op["task"] /\ scenario' = scenario
    BY <1>2 DEF CallTune, Enter, CountInv
  <2>. QED  BY <2>1, <2>2, <2>3
<1>3. ASSUME NEW c \in {"app", "call"}, CallSeek(c) PROVE GivenUpInv'
  BY <1>3 DEF CallSeek, flags, loop, signals, Enter, MayCall
<1>4. ASSUME NEW c \in {"app", "call"}, CallSwitch(c) PROVE GivenUpInv'
  BY <1>4 DEF CallSwitch, flags, loop, signals, Enter, MayCall
<1>5. ASSUME NEW c \in Ctx, StopGate(c) PROVE GivenUpInv'
  BY <1>5 DEF StopGate, loop, signals, counters, Runs, Goto
<1>6. ASSUME NEW c \in Ctx, StopWoken(c) PROVE GivenUpInv'
  BY <1>6 DEF StopWoken, loop, signals, counters, Runs, Goto
<1>7. ASSUME NEW c \in Ctx, StopStream(c) PROVE GivenUpInv'
  BY <1>7 DEF StopStream, flags, loop, signals, counters, Runs, Goto
<1>8. ASSUME NEW c \in Ctx, Teardown(c) PROVE GivenUpInv'
  <2>0. SUFFICES ASSUME IdKept, pc'["task"] = "discReport", op["task"] = "Disc", ~discBusy'
                 PROVE  task'.id # discId' \/ Zapping'
    BY <1>8 DEF Teardown, IdKept
  <2>1. /\ c \in {"app", "call"} /\ pc["task"] = "discReport" /\ pc[c] = "teardown"
        /\ pc'[c] \in {"delete", "discWait"}
    BY <1>8, <2>0 DEF Teardown, Runs, Goto
  <2>2. task.kind = "disc" /\ task.id # 0 /\ reporting
    BY <2>0, <2>1 DEF IdsInv
  <2>3. /\ task'.id = task.id /\ discId' \in {0, discId} /\ op' = op /\ stage' = stage
        /\ \A d \in Ctx \ {c} : pc'[d] = pc[d]
    BY <1>8 DEF Teardown, RemoveDisc, Goto, loop
  <2>4. CASE discId' = 0
    BY <2>2, <2>3, <2>4
  <2>5. CASE discId' # 0 /\ (~NewTune(c) \/ state = "idle")
    <3>1. discBusy /\ discBusy' = discBusy
      BY <1>8, <2>3, <2>5 DEF Teardown
    <3>. QED  BY <2>0, <3>1
  <2>6. CASE discId' # 0 /\ NewTune(c) /\ state # "idle"
    <3>1. op[c] \in scenario.ops /\ stage[c] \in {"stop", "tune", "switch"} /\ scenario.app = c
      BY <2>1, ScenarioTypes DEF CallInv
    <3>2. op[c] \in AllOps
      BY <3>1, ScenarioTypes
    <3>3. /\ stage[c] = "stop" => op[c] \in {"Stop", "Zap"}
          /\ stage[c] = "tune" => op[c] \in {"Tune", "Zap"}
      BY <2>1, <2>6, <3>2 DEF NewTune, CallInv, AllOps
    <3>4. c = "call" /\ op[c] = "Zap" /\ stage[c] = "stop"
      <4>1. CASE c = "app"
        <5>1. op[c] = "Tune"
          BY <2>0, <2>6, <3>1, <3>3, <4>1 DEF NewTune
        <5>. QED  BY <2>0, <2>1, <2>6, <3>1, <4>1, <5>1 DEF IdleInv
      <4>2. CASE c = "call"
        BY <2>1, <2>6, <3>3, <4>2 DEF IdleInv, NewTune
      <4>. QED  BY <2>1, <4>1, <4>2
    <3>5. pc'[c] = "delete"
      BY <1>8, <2>3, <2>6 DEF Teardown, Goto
    <3>. QED  BY <2>3, <3>4, <3>5
  <2>. QED  BY <2>4, <2>5, <2>6
<1>9. ASSUME NEW c \in Ctx, TeardownWoken(c) PROVE GivenUpInv'
  BY <1>9 DEF TeardownWoken, loop, signals, counters, Runs, Goto
<1>10. ASSUME NEW c \in Ctx, Delete(c) PROVE GivenUpInv'
  BY <1>10 DEF Delete, flags, signals, counters, Runs, Goto
<1>11. ASSUME NEW c \in Ctx, StopEnd(c) PROVE GivenUpInv'
  BY <1>11 DEF StopEnd, loop, signals, counters, Runs, Goto
<1>12. ASSUME NEW c \in Ctx, TuneBegin(c) PROVE GivenUpInv'
  BY <1>12 DEF TuneBegin, loop, signals, counters, Runs, Goto, SeekType
<1>13. ASSUME NEW c \in Ctx, InitStream(c) PROVE GivenUpInv'
  BY <1>13 DEF InitStream, flags, loop, signals, counters, Runs, Goto,
      SeekType, Return
<1>14. ASSUME NEW c \in Ctx, StartStream(c) PROVE GivenUpInv'
  BY <1>14 DEF StartStream, loop, counters, Runs, Goto, SeekType, Return
<1>15. ASSUME RunRetune PROVE GivenUpInv'
  BY <1>15 DEF RunRetune, frames, signals, counters, LoopFree, Dispatch,
      NoSource
<1>16. ASSUME RetuneEnd PROVE GivenUpInv'
  BY <1>16 DEF RetuneEnd, signals, counters, Runs, Signal, NoSource
<1>17. ASSUME RunDisc PROVE GivenUpInv'
  BY <1>17 DEF RunDisc, flags, signals, counters, LoopFree, Dispatch, NoSource
<1>18. ASSUME RunEos PROVE GivenUpInv'
  BY <1>18 DEF RunEos, flags, signals, counters, LoopFree, Dispatch, NoSource
<1>19. ASSUME Eos PROVE GivenUpInv'
  BY <1>19 DEF Eos, flags, loop, signals, counters, Runs, Goto
<1>20. ASSUME EosTuned PROVE GivenUpInv'
  BY <1>20 DEF EosTuned, flags, signals, counters, Runs, EndTask, Goto,
      NoSource
<1>21. ASSUME EosEnd PROVE GivenUpInv'
  BY <1>21 DEF EosEnd, flags, signals, counters, Runs, EndTask, Goto, NoSource
<1>22. ASSUME FirstFrame PROVE GivenUpInv'
  BY <1>22 DEF FirstFrame, flags, loop, frames, signals, counters, LoopFree,
      NoSource
<1>23. ASSUME DiscEnter PROVE GivenUpInv'
  BY <1>23 DEF DiscEnter, flags, signals, counters, Runs, Goto, EndTask,
      AfterDisc, NoSource
<1>24. ASSUME DiscFlags PROVE GivenUpInv'
  BY <1>24 DEF DiscFlags, flags, loop, signals, counters, Runs, Goto,
      AfterDisc
<1>25. ASSUME DiscMark PROVE GivenUpInv'
  BY <1>25 DEF DiscMark, loop, signals, counters, Runs, Goto
<1>26. ASSUME DiscCheck PROVE GivenUpInv'
  BY <1>26 DEF DiscCheck, loop, signals, counters, Runs, Goto
<1>27. ASSUME DiscResume PROVE GivenUpInv'
  BY <1>27 DEF DiscResume, signals, counters, Runs, Goto, EndTask, NoSource
<1>28. ASSUME DiscSwitch PROVE GivenUpInv'
  BY <1>28 DEF DiscSwitch, counters, Runs, Goto
<1>29. ASSUME DiscDone PROVE GivenUpInv'
  BY <1>29 DEF DiscDone, loop, signals, counters, Runs, Goto, AfterDisc
<1>30. ASSUME DiscSignal PROVE GivenUpInv'
  BY <1>30 DEF DiscSignal, signals, counters, Runs, Signal, NoSource
<1>31. ASSUME Discontinuity PROVE GivenUpInv'
  BY <1>31 DEF Discontinuity, loop, frames, signals
<1>32. ASSUME RetuneCheck PROVE GivenUpInv'
  BY <1>32 DEF RetuneCheck, flags, loop, frames
<1>33. ASSUME ScheduleDisc PROVE GivenUpInv'
  <2>1. discId' = discId \/ (discId' = underflows /\ sink = "disc")
    BY <1>33 DEF ScheduleDisc
  <2>2. task.kind = "disc" /\ sink = "disc" => task.id # underflows
    BY DEF IdsInv
  <2>3. /\ task' = task /\ discBusy' = discBusy /\ pc' = pc /\ op' = op /\ stage' = stage
        /\ scenario' = scenario
    BY <1>33 DEF ScheduleDisc, frames
  <2>4. pc["task"] = "discReport" /\ op["task"] = "Disc" => task.kind = "disc"
    BY DEF TypeOK, LoopInv
  <2>. QED  BY <2>1, <2>2, <2>3, <2>4
<1>34. ASSUME ScheduleRetune PROVE GivenUpInv'
  BY <1>34 DEF ScheduleRetune, frames, counters, Source
<1>35. ASSUME NotifyEOS PROVE GivenUpInv'
  BY <1>35 DEF NotifyEOS, flags, frames, counters, Source
<1>. QED  BY <1>1, <1>2, <1>3, <1>4, <1>5, <1>6, <1>7, <1>8, <1>9, <1>10,
      <1>11, <1>12, <1>13, <1>14, <1>15, <1>16, <1>17, <1>18, <1>19, <1>20,
      <1>21, <1>22, <1>23, <1>24, <1>25, <1>26, <1>27, <1>28, <1>29, <1>30,
      <1>31, <1>32, <1>33, <1>34, <1>35
          DEF Next, Work, LoopWork, Schedule

LEMMA MoveStep ==
    ASSUME TypeOK, CountInv, LoopInv, CallInv, IdsInv, DiscInv, MoveInv, Next
    PROVE  MoveInv'
<1>. USE DEF TypeOK, CountInv, LoopInv, CallInv, MoveInv, Ctx, Tracks, StopLabels,
      TuneLabels, DiscLabels
<1>1. ASSUME NEW c \in {"app", "call"}, CallStop(c) PROVE MoveInv'
  BY <1>1 DEF CallStop, flags, loop, signals, Enter, MayCall
<1>2. ASSUME NEW c \in {"app", "call"}, CallTune(c) PROVE MoveInv'
  BY <1>2 DEF CallTune, flags, loop, signals, Enter, MayCall
<1>3. ASSUME NEW c \in {"app", "call"}, CallSeek(c) PROVE MoveInv'
  BY <1>3 DEF CallSeek, flags, loop, signals, Enter, MayCall
<1>4. ASSUME NEW c \in {"app", "call"}, CallSwitch(c) PROVE MoveInv'
  BY <1>4 DEF CallSwitch, flags, loop, signals, Enter, MayCall
<1>5. ASSUME NEW c \in Ctx, StopGate(c) PROVE MoveInv'
  BY <1>5 DEF StopGate, loop, signals, counters, Runs, Goto
<1>6. ASSUME NEW c \in Ctx, StopWoken(c) PROVE MoveInv'
  BY <1>6 DEF StopWoken, loop, signals, counters, Runs, Goto
<1>7. ASSUME NEW c \in Ctx, StopStream(c) PROVE MoveInv'
  BY <1>7 DEF StopStream, flags, loop, signals, counters, Runs, Goto
<1>8. ASSUME NEW c \in Ctx, Teardown(c) PROVE MoveInv'
  BY <1>8, Dequeued DEF Teardown, loop, signals, counters, Runs, Goto,
      NewTune, InOwnDiscTask, RemoveDisc, OnLoop
<1>9. ASSUME NEW c \in Ctx, TeardownWoken(c) PROVE MoveInv'
  BY <1>9 DEF TeardownWoken, loop, signals, counters, Runs, Goto
<1>10. ASSUME NEW c \in Ctx, Delete(c) PROVE MoveInv'
  <2>1. Drawn(idle')
    BY <1>10, TeardownDraws
  <2>2. /\ discs' = discs /\ disc' = disc /\ discId' = discId /\ discBusy' = discBusy /\ task' = task
    BY <1>10 DEF Delete, flags, counters
  <2>3. /\ \A d \in Ctx \ {c} : pc'[d] = pc[d]
        /\ pc'[c] \in {"stopEnd", "tuneBegin", "init"}
    BY <1>10 DEF Delete, Goto, Runs
  <2>4. pc[c] = "delete"
    BY <1>10 DEF Delete, Runs
  <2>. QED  BY <2>1, <2>2, <2>3, <2>4 DEF Drawn
<1>11. ASSUME NEW c \in Ctx, StopEnd(c) PROVE MoveInv'
  BY <1>11 DEF StopEnd, loop, signals, counters, Runs, Goto
<1>12. ASSUME NEW c \in Ctx, TuneBegin(c) PROVE MoveInv'
  BY <1>12 DEF TuneBegin, loop, signals, counters, Runs, Goto, SeekType
<1>13. ASSUME NEW c \in Ctx, InitStream(c) PROVE MoveInv'
  BY <1>13 DEF InitStream, flags, loop, signals, counters, Runs, Goto,
      SeekType, Return
<1>14. ASSUME NEW c \in Ctx, StartStream(c) PROVE MoveInv'
  BY <1>14 DEF StartStream, loop, counters, Runs, Goto, SeekType, Return
<1>15. ASSUME RunRetune PROVE MoveInv'
  <2>0. idle # <<>> /\ idle' = Tail(idle)
    BY <1>15 DEF RunRetune, Dispatch
  <2>1. Drawn(idle')
    BY <2>0, QueueEnds
  <2>2. /\ discs' = discs /\ disc' = disc /\ discId' = discId /\ discBusy' = discBusy
        /\ task'.kind # "disc"
        /\ \A d \in Ctx \ {"task"} : pc'[d] = pc[d]
        /\ pc'["task"] \in {"rest", "tuneBegin"}
    BY <1>15 DEF RunRetune, Dispatch, counters, LoopFree, NoSource, frames
  <2>. QED  BY <2>1, <2>2 DEF Drawn
<1>16. ASSUME RetuneEnd PROVE MoveInv'
  BY <1>16 DEF RetuneEnd, signals, counters, Runs, Signal, NoSource
<1>17. ASSUME RunDisc PROVE MoveInv'
  BY <1>17, QueueEnds DEF RunDisc, flags, signals, counters, LoopFree,
      Dispatch, NoSource
<1>18. ASSUME RunEos PROVE MoveInv'
  BY <1>18, QueueEnds DEF RunEos, flags, signals, counters, LoopFree,
      Dispatch, NoSource
<1>19. ASSUME Eos PROVE MoveInv'
  BY <1>19 DEF Eos, flags, loop, signals, counters, Runs, Goto
<1>20. ASSUME EosTuned PROVE MoveInv'
  BY <1>20 DEF EosTuned, flags, signals, counters, Runs, EndTask, Goto,
      NoSource
<1>21. ASSUME EosEnd PROVE MoveInv'
  BY <1>21 DEF EosEnd, flags, signals, counters, Runs, EndTask, Goto, NoSource
<1>22. ASSUME FirstFrame PROVE MoveInv'
  BY <1>22 DEF FirstFrame, flags, loop, frames, signals, counters, LoopFree,
      NoSource
<1>23. ASSUME DiscEnter PROVE MoveInv'
  BY <1>23 DEF DiscEnter, flags, signals, counters, Runs, Goto, EndTask,
      AfterDisc, NoSource
<1>24. ASSUME DiscFlags PROVE MoveInv'
  BY <1>24 DEF DiscFlags, flags, loop, signals, counters, Runs, Goto,
      AfterDisc
<1>25. ASSUME DiscMark PROVE MoveInv'
  BY <1>25 DEF DiscMark, loop, signals, counters, Runs, Goto
<1>26. ASSUME DiscCheck PROVE MoveInv'
  BY <1>26 DEF DiscCheck, loop, signals, counters, Runs, Goto
<1>27. ASSUME DiscResume PROVE MoveInv'
  BY <1>27 DEF DiscResume, signals, counters, Runs, Goto, EndTask, NoSource
<1>28. ASSUME DiscSwitch PROVE MoveInv'
  BY <1>28, Dequeued DEF DiscSwitch, counters, Runs, Goto
<1>29. ASSUME DiscDone PROVE MoveInv'
  BY <1>29 DEF DiscDone, loop, signals, counters, Runs, Goto, AfterDisc
<1>30. ASSUME DiscSignal PROVE MoveInv'
  <2>1. /\ discs' = discs /\ disc' = disc /\ discId' = 0 /\ discBusy' = discBusy
        /\ idle' = idle /\ task'.kind = "none" /\ pc["task"] = "discSignal" /\ ~discBusy
    BY <1>30 DEF DiscSignal, counters, NoSource, Runs
  <2>2. /\ pc'["task"] = "rest"
        /\ \A d \in Ctx : pc'[d] # pc[d] => d = "task" \/ (pc[d] = "discWait" /\ pc'[d] = "discWoken")
    BY <1>30 DEF DiscSignal, Signal
  <2>3. task.kind = "disc" /\ ~QueuedDisc(task.id)
    BY <2>1 DEF IdsInv
  <2>4. discs <= 1 => \A i \in DOMAIN idle : idle[i].kind = "disc" => disc = {}
    BY <2>1, <2>3 DEF QueuedDisc
  <2>5. discs <= 1 => \A d \in Ctx : pc'[d] = "discWoken" => disc = {}
    BY <2>1, <2>2
  <2>. QED  BY <2>1, <2>2, <2>4, <2>5
<1>31. ASSUME Discontinuity PROVE MoveInv'
  <2>1. /\ idle' = idle /\ task' = task /\ pc' = pc /\ discId' = discId /\ discBusy' = discBusy
        /\ discs' = discs + (IF disc = {} THEN 1 ELSE 0) /\ disc' \subseteq Tracks
        /\ \E t \in Tracks \ disc : disc' = disc \cup {t}
    BY <1>31 DEF Discontinuity, loop, frames
  <2>2. CASE disc = {}
    <3>1. discs' <= 1 => discs = 0
      BY <2>1, <2>2
    <3>. QED  BY <2>1, <2>2, <3>1 DEF DiscInv
  <2>3. CASE disc # {}
    <3>1. disc # Tracks
      BY <2>1
    <3>2. discs' = discs
      <4>1. discs' = discs + 0  BY <2>1, <2>3
      <4>2. discs \in Nat  BY DEF CountInv
      <4>. QED  BY <4>1, <4>2
    <3>. QED  BY <2>1, <2>3, <3>1, <3>2
  <2>. QED  BY <2>2, <2>3
<1>32. ASSUME RetuneCheck PROVE MoveInv'
  BY <1>32 DEF RetuneCheck, flags, loop, frames
<1>33. ASSUME ScheduleDisc PROVE MoveInv'
  <2>1. /\ discs' = discs /\ disc' = disc /\ discBusy' = discBusy /\ task' = task /\ pc' = pc
    BY <1>33 DEF ScheduleDisc, counters, frames
  <2>2. CASE discId' = discId /\ idle' = idle
    BY <2>1, <2>2
  <2>3. CASE discId = 0 /\ ~discBusy /\ discId' = underflows /\ idle' = Append(idle, Source("disc", underflows))
    <3>1. Source("disc", underflows) \in Sources /\ Source("disc", underflows).id = underflows
      BY SourceTypes DEF Source
    <3>2. \A j \in DOMAIN idle' : \/ j \in DOMAIN idle /\ idle'[j] = idle[j]
                                  \/ idle'[j].id = underflows
      BY <2>3, <3>1, QueueEnds
    <3>3. \A i \in DOMAIN idle : idle[i].kind = "disc" => idle[i].id # 0
      BY DEF IdsInv
    <3>4. task.kind = "disc" => task.id # 0
      BY DEF IdsInv
    <3>. QED  BY <2>1, <2>3, <3>2, <3>3, <3>4
  <2>. QED  BY <1>33, <2>2, <2>3 DEF ScheduleDisc
<1>34. ASSUME ScheduleRetune PROVE MoveInv'
  BY <1>34 DEF ScheduleRetune, frames, counters, Source
<1>35. ASSUME NotifyEOS PROVE MoveInv'
  BY <1>35 DEF NotifyEOS, flags, frames, counters, Source
<1>. QED  BY <1>1, <1>2, <1>3, <1>4, <1>5, <1>6, <1>7, <1>8, <1>9, <1>10,
      <1>11, <1>12, <1>13, <1>14, <1>15, <1>16, <1>17, <1>18, <1>19, <1>20,
      <1>21, <1>22, <1>23, <1>24, <1>25, <1>26, <1>27, <1>28, <1>29, <1>30,
      <1>31, <1>32, <1>33, <1>34, <1>35
          DEF Next, Work, LoopWork, Schedule

-----------------------------------------------------------------------------
(* The theorems.                                                             *)

LEMMA InitIInv == Init => IInv
<1>. SUFFICES ASSUME Init PROVE IInv  OBVIOUS
<1>0. MaxUnderflows \in Nat  BY ConstantsAssumption
<1>1. idle = <<>> /\ DOMAIN idle = {}  BY DEF Init
<1>2. TypeOK
  <2>1. idle \in Seq(Sources)  BY <1>1
  <2>2. task \in Tasks  BY SourceTypes DEF Init
  <2>3. scenario \in Scenarios /\ discId \in 0..MaxUnderflows /\ disc \subseteq Tracks
    BY <1>0 DEF Init
  <2>4. /\ pc \in [Ctx -> PCs] /\ sink \in {"none", "disc", "retune"}
        /\ stage \in [Ctx -> {"none", "stop", "tune", "switch"}]
    BY DEF Init, PCs
  <2>5. state \in States /\ stream \in {"none", "built", "running"}
    BY DEF Init, States
  <2>6. /\ reTune \in BOOLEAN /\ retuning \in BOOLEAN /\ discBusy \in BOOLEAN
        /\ reporting \in BOOLEAN /\ seeking \in BOOLEAN /\ framePending \in BOOLEAN
        /\ eosSignalled \in BOOLEAN
    BY DEF Init
  <2>. QED  BY <2>1, <2>2, <2>3, <2>4, <2>5, <2>6 DEF TypeOK, Tasks
<1>3. task.kind = "none"  BY DEF Init, NoSource
<1>4. CountInv /\ LoopInv /\ CallInv
  BY <1>0, <1>3 DEF Init, CountInv, LoopInv, CallInv, Ctx, StopLabels, TuneLabels
<1>5. IdsInv /\ LiveInv /\ GivenUpInv
  BY <1>0, <1>1, <1>3 DEF Init, IdsInv, LiveInv, GivenUpInv, Ctx
<1>6. IdleInv
  BY <1>1 DEF Init, IdleInv, Ctx
<1>7. StopInv /\ DiscInv /\ MoveInv
  BY <1>1, <1>3 DEF Init, StopInv, DiscInv, MoveInv, Ctx
<1>. QED  BY <1>2, <1>4, <1>5, <1>6, <1>7 DEF IInv

LEMMA NextIInv == IInv /\ Next => IInv'
BY TypeStep, CountStep, LoopStep, CallStep, IdsStep, IdleStep, LiveStep, GivenUpStep,
   StopStep, DiscStep, MoveStep DEF IInv

LEMMA StutterIInv == IInv /\ UNCHANGED vars => IInv'
<1>. SUFFICES ASSUME IInv, UNCHANGED vars PROVE IInv'  OBVIOUS
<1>. USE DEF vars, flags, loop, frames, signals, counters
<1>1. TypeOK' /\ CountInv' /\ LoopInv' /\ CallInv'
  BY DEF IInv, TypeOK, CountInv, LoopInv, CallInv
<1>2. IdsInv' /\ LiveInv' /\ GivenUpInv' /\ IdleInv'
  BY DEF IInv, IdsInv, LiveInv, GivenUpInv, IdleInv, QueuedDisc, Zapping, IdKept
<1>3. StopInv' /\ DiscInv' /\ MoveInv'
  BY DEF IInv, StopInv, DiscInv, MoveInv
<1>. QED  BY <1>1, <1>2, <1>3 DEF IInv

LEMMA IInvAlways == Spec => []IInv
BY InitIInv, NextIInv, StutterIInv, PTL DEF Spec

\* Every variable has its type in every state of the player (TypeOK): a source
\* that is run was queued, and ids stay in the range of the sink's errors.
THEOREM PlayerTypeCorrect == Spec => []TypeOK
<1>1. IInv => TypeOK  BY DEF IInv
<1>. QED  BY <1>1, IInvAlways, PTL

\* The id that ScheduleRetune stores (mDiscontinuityTuneOperationId) names a task
\* that is queued or running, whatever calls are made and tasks are run: what a
\* teardown that waits on mCondDiscontinuity relies on.
THEOREM DiscontinuityIdIsLive == Spec => []DiscontinuityIdLive
<1>1. IInv => DiscontinuityIdLive
  BY DEF IInv, LiveInv, DiscontinuityIdLive, QueuedDisc
<1>. QED  BY <1>1, IInvAlways, PTL

\* Of the steps that leave Stop's gate, none is taken while a re-tune runs.
LEMMA StopStepsWait ==
    ASSUME TypeOK, LoopInv, CallInv, StopInv, NEW d \in Ctx,
           pc[d] \in {"stopGate", "stopWait", "stopWoken"}, pc'[d] = "stopStream",
           underflows <= 1, Next
    PROVE  ~retuning
<1>. USE DEF TypeOK, LoopInv, CallInv, Ctx, StopLabels, TuneLabels, DiscLabels
<1>1. ASSUME NEW c \in {"app", "call"}, CallStop(c) PROVE ~retuning
  BY <1>1 DEF CallStop, flags, loop, signals, Enter, MayCall
<1>2. ASSUME NEW c \in {"app", "call"}, CallTune(c) PROVE ~retuning
  BY <1>2 DEF CallTune, flags, loop, signals, Enter, MayCall
<1>3. ASSUME NEW c \in {"app", "call"}, CallSeek(c) PROVE ~retuning
  BY <1>3 DEF CallSeek, flags, loop, signals, Enter, MayCall
<1>4. ASSUME NEW c \in {"app", "call"}, CallSwitch(c) PROVE ~retuning
  BY <1>4 DEF CallSwitch, flags, loop, signals, Enter, MayCall
<1>5. ASSUME NEW c \in Ctx, StopGate(c) PROVE ~retuning
  BY <1>5, StopInv DEF StopInv, StopGate, loop, signals, counters, Runs, Goto
<1>6. ASSUME NEW c \in Ctx, StopWoken(c) PROVE ~retuning
  BY <1>6, StopInv DEF StopInv, StopWoken, loop, signals, counters, Runs, Goto
<1>7. ASSUME NEW c \in Ctx, StopStream(c) PROVE ~retuning
  BY <1>7 DEF StopStream, flags, loop, signals, counters, Runs, Goto
<1>8. ASSUME NEW c \in Ctx, Teardown(c) PROVE ~retuning
  BY <1>8 DEF Teardown, loop, signals, counters, Runs, Goto, NewTune,
      InOwnDiscTask, RemoveDisc, OnLoop
<1>9. ASSUME NEW c \in Ctx, TeardownWoken(c) PROVE ~retuning
  BY <1>9 DEF TeardownWoken, loop, signals, counters, Runs, Goto
<1>10. ASSUME NEW c \in Ctx, Delete(c) PROVE ~retuning
  BY <1>10 DEF Delete, flags, signals, counters, Runs, Goto
<1>11. ASSUME NEW c \in Ctx, StopEnd(c) PROVE ~retuning
  BY <1>11 DEF StopEnd, loop, signals, counters, Runs, Goto
<1>12. ASSUME NEW c \in Ctx, TuneBegin(c) PROVE ~retuning
  BY <1>12 DEF TuneBegin, loop, signals, counters, Runs, Goto, SeekType
<1>13. ASSUME NEW c \in Ctx, InitStream(c) PROVE ~retuning
  BY <1>13 DEF InitStream, flags, loop, signals, counters, Runs, Goto,
      SeekType, Return
<1>14. ASSUME NEW c \in Ctx, StartStream(c) PROVE ~retuning
  BY <1>14 DEF StartStream, loop, counters, Runs, Goto, SeekType, Return
<1>15. ASSUME RunRetune PROVE ~retuning
  BY <1>15 DEF RunRetune, frames, signals, counters, LoopFree, Dispatch,
      NoSource
<1>16. ASSUME RetuneEnd PROVE ~retuning
  BY <1>16 DEF RetuneEnd, signals, counters, Runs, Signal, NoSource
<1>17. ASSUME RunDisc PROVE ~retuning
  BY <1>17 DEF RunDisc, flags, signals, counters, LoopFree, Dispatch, NoSource
<1>18. ASSUME RunEos PROVE ~retuning
  BY <1>18 DEF RunEos, flags, signals, counters, LoopFree, Dispatch, NoSource
<1>19. ASSUME Eos PROVE ~retuning
  BY <1>19 DEF Eos, flags, loop, signals, counters, Runs, Goto
<1>20. ASSUME EosTuned PROVE ~retuning
  BY <1>20 DEF EosTuned, flags, signals, counters, Runs, EndTask, Goto,
      NoSource
<1>21. ASSUME EosEnd PROVE ~retuning
  BY <1>21 DEF EosEnd, flags, signals, counters, Runs, EndTask, Goto, NoSource
<1>22. ASSUME FirstFrame PROVE ~retuning
  BY <1>22 DEF FirstFrame, flags, loop, frames, signals, counters, LoopFree,
      NoSource
<1>23. ASSUME DiscEnter PROVE ~retuning
  BY <1>23 DEF DiscEnter, flags, signals, counters, Runs, Goto, EndTask,
      AfterDisc, NoSource
<1>24. ASSUME DiscFlags PROVE ~retuning
  BY <1>24 DEF DiscFlags, flags, loop, signals, counters, Runs, Goto,
      AfterDisc
<1>25. ASSUME DiscMark PROVE ~retuning
  BY <1>25 DEF DiscMark, loop, signals, counters, Runs, Goto
<1>26. ASSUME DiscCheck PROVE ~retuning
  BY <1>26 DEF DiscCheck, loop, signals, counters, Runs, Goto
<1>27. ASSUME DiscResume PROVE ~retuning
  BY <1>27 DEF DiscResume, signals, counters, Runs, Goto, EndTask, NoSource
<1>28. ASSUME DiscSwitch PROVE ~retuning
  BY <1>28 DEF DiscSwitch, counters, Runs, Goto
<1>29. ASSUME DiscDone PROVE ~retuning
  BY <1>29 DEF DiscDone, loop, signals, counters, Runs, Goto, AfterDisc
<1>30. ASSUME DiscSignal PROVE ~retuning
  BY <1>30 DEF DiscSignal, signals, counters, Runs, Signal, NoSource
<1>31. ASSUME Discontinuity PROVE ~retuning
  BY <1>31 DEF Discontinuity, loop, frames, signals
<1>32. ASSUME RetuneCheck PROVE ~retuning
  BY <1>32 DEF RetuneCheck, flags, loop, frames
<1>33. ASSUME ScheduleDisc PROVE ~retuning
  BY <1>33 DEF ScheduleDisc, frames, counters, Source
<1>34. ASSUME ScheduleRetune PROVE ~retuning
  BY <1>34 DEF ScheduleRetune, frames, counters, Source
<1>35. ASSUME NotifyEOS PROVE ~retuning
  BY <1>35 DEF NotifyEOS, flags, frames, counters, Source
<1>. QED  BY <1>1, <1>2, <1>3, <1>4, <1>5, <1>6, <1>7, <1>8, <1>9, <1>10,
      <1>11, <1>12, <1>13, <1>14, <1>15, <1>16, <1>17, <1>18, <1>19, <1>20,
      <1>21, <1>22, <1>23, <1>24, <1>25, <1>26, <1>27, <1>28, <1>29, <1>30,
      <1>31, <1>32, <1>33, <1>34, <1>35
          DEF Next, Work, LoopWork, Schedule

\* Stop goes on to take the stream down only when no re-tune is in progress, up to
\* the first error of the sink: its wait on gCond is enough to keep it apart from
\* PrivateInstanceAAMP_Retune.
THEOREM StopAwaitsTheRetune == Spec => StopAwaitsRetune
<1>1. ASSUME IInv, Next, NEW c \in Ctx,
             pc[c] \in {"stopGate", "stopWait", "stopWoken"}, pc'[c] = "stopStream",
             underflows <= 1
      PROVE  ~retuning
  BY <1>1, StopStepsWait DEF IInv
<1>2. IInv /\ [Next]_vars =>
        [\A c \in Ctx : pc[c] \in {"stopGate", "stopWait", "stopWoken"}
                       /\ pc'[c] = "stopStream" /\ underflows <= 1 => ~retuning]_vars
  BY <1>1
<1>. QED  BY <1>2, IInvAlways, PTL DEF Spec, StopAwaitsRetune

\* Of the steps that leave a teardown's gate, none is taken into a move.
LEMMA TeardownStepsWait ==
    ASSUME TypeOK, LoopInv, CallInv, IdsInv, MoveInv,
           pc["app"] \in {"teardown", "discWoken"}, pc'["app"] = "delete",
           ~NewTune("app") \/ state = "idle", discs <= 1, op["task"] = "Disc", Next
    PROVE  pc["task"] # "discSwitch" /\ (pc["task"] = "discReport" => ~discBusy')
<1>. USE DEF TypeOK, LoopInv, CallInv, Ctx, StopLabels, TuneLabels, DiscLabels
<1>1. ASSUME NEW c \in {"app", "call"}, CallStop(c) PROVE pc["task"] # "discSwitch" /\ (pc["task"] = "discReport" => ~discBusy')
  BY <1>1 DEF CallStop, flags, loop, signals, Enter, MayCall
<1>2. ASSUME NEW c \in {"app", "call"}, CallTune(c) PROVE pc["task"] # "discSwitch" /\ (pc["task"] = "discReport" => ~discBusy')
  BY <1>2 DEF CallTune, flags, loop, signals, Enter, MayCall
<1>3. ASSUME NEW c \in {"app", "call"}, CallSeek(c) PROVE pc["task"] # "discSwitch" /\ (pc["task"] = "discReport" => ~discBusy')
  BY <1>3 DEF CallSeek, flags, loop, signals, Enter, MayCall
<1>4. ASSUME NEW c \in {"app", "call"}, CallSwitch(c) PROVE pc["task"] # "discSwitch" /\ (pc["task"] = "discReport" => ~discBusy')
  BY <1>4 DEF CallSwitch, flags, loop, signals, Enter, MayCall
<1>5. ASSUME NEW c \in Ctx, StopGate(c) PROVE pc["task"] # "discSwitch" /\ (pc["task"] = "discReport" => ~discBusy')
  BY <1>5 DEF StopGate, loop, signals, counters, Runs, Goto
<1>6. ASSUME NEW c \in Ctx, StopWoken(c) PROVE pc["task"] # "discSwitch" /\ (pc["task"] = "discReport" => ~discBusy')
  BY <1>6 DEF StopWoken, loop, signals, counters, Runs, Goto
<1>7. ASSUME NEW c \in Ctx, StopStream(c) PROVE pc["task"] # "discSwitch" /\ (pc["task"] = "discReport" => ~discBusy')
  BY <1>7 DEF StopStream, flags, loop, signals, counters, Runs, Goto
<1>8. ASSUME NEW c \in Ctx, Teardown(c) PROVE pc["task"] # "discSwitch" /\ (pc["task"] = "discReport" => ~discBusy')
  <2>1. c = "app" /\ pc["app"] = "teardown"
    BY <1>8 DEF Teardown, Runs, Goto
  <2>0. SUFFICES ASSUME pc["task"] \in {"discSwitch", "discReport"}
                 PROVE  pc["task"] # "discSwitch" /\ (pc["task"] = "discReport" => ~discBusy')
    OBVIOUS
  <2>2. task.kind = "disc" /\ task.id # 0
    <3>1. task.kind = "disc"
      BY <2>0
    <3>. QED  BY <3>1 DEF IdsInv
  <2>3. CASE discId # 0
    <3>1. ~discBusy /\ discBusy' = discBusy
      BY <1>8, <2>1, <2>3 DEF Teardown, Goto, OnLoop, InOwnDiscTask
    <3>. QED  BY <3>1
  <2>4. CASE discId = 0
    <3>1. discBusy' = (discBusy /\ ~reporting)
      BY <1>8, <2>4 DEF Teardown
    <3>2. pc["task"] # "discSwitch"
      BY <2>2, <2>4 DEF MoveInv
    <3>3. pc["task"] = "discReport" => reporting
      OBVIOUS
    <3>. QED  BY <3>1, <3>2, <3>3
  <2>. QED  BY <2>3, <2>4
<1>9. ASSUME NEW c \in Ctx, TeardownWoken(c) PROVE pc["task"] # "discSwitch" /\ (pc["task"] = "discReport" => ~discBusy')
  BY <1>9 DEF MoveInv, TeardownWoken, loop, signals, counters, Runs, Goto
<1>10. ASSUME NEW c \in Ctx, Delete(c) PROVE pc["task"] # "discSwitch" /\ (pc["task"] = "discReport" => ~discBusy')
  BY <1>10 DEF Delete, flags, signals, counters, Runs, Goto
<1>11. ASSUME NEW c \in Ctx, StopEnd(c) PROVE pc["task"] # "discSwitch" /\ (pc["task"] = "discReport" => ~discBusy')
  BY <1>11 DEF StopEnd, loop, signals, counters, Runs, Goto
<1>12. ASSUME NEW c \in Ctx, TuneBegin(c) PROVE pc["task"] # "discSwitch" /\ (pc["task"] = "discReport" => ~discBusy')
  BY <1>12 DEF TuneBegin, loop, signals, counters, Runs, Goto, SeekType
<1>13. ASSUME NEW c \in Ctx, InitStream(c) PROVE pc["task"] # "discSwitch" /\ (pc["task"] = "discReport" => ~discBusy')
  BY <1>13 DEF InitStream, flags, loop, signals, counters, Runs, Goto,
      SeekType, Return
<1>14. ASSUME NEW c \in Ctx, StartStream(c) PROVE pc["task"] # "discSwitch" /\ (pc["task"] = "discReport" => ~discBusy')
  BY <1>14 DEF StartStream, loop, counters, Runs, Goto, SeekType, Return
<1>15. ASSUME RunRetune PROVE pc["task"] # "discSwitch" /\ (pc["task"] = "discReport" => ~discBusy')
  BY <1>15 DEF RunRetune, frames, signals, counters, LoopFree, Dispatch,
      NoSource
<1>16. ASSUME RetuneEnd PROVE pc["task"] # "discSwitch" /\ (pc["task"] = "discReport" => ~discBusy')
  BY <1>16 DEF RetuneEnd, signals, counters, Runs, Signal, NoSource
<1>17. ASSUME RunDisc PROVE pc["task"] # "discSwitch" /\ (pc["task"] = "discReport" => ~discBusy')
  BY <1>17 DEF RunDisc, flags, signals, counters, LoopFree, Dispatch, NoSource
<1>18. ASSUME RunEos PROVE pc["task"] # "discSwitch" /\ (pc["task"] = "discReport" => ~discBusy')
  BY <1>18 DEF RunEos, flags, signals, counters, LoopFree, Dispatch, NoSource
<1>19. ASSUME Eos PROVE pc["task"] # "discSwitch" /\ (pc["task"] = "discReport" => ~discBusy')
  BY <1>19 DEF Eos, flags, loop, signals, counters, Runs, Goto
<1>20. ASSUME EosTuned PROVE pc["task"] # "discSwitch" /\ (pc["task"] = "discReport" => ~discBusy')
  BY <1>20 DEF EosTuned, flags, signals, counters, Runs, EndTask, Goto,
      NoSource
<1>21. ASSUME EosEnd PROVE pc["task"] # "discSwitch" /\ (pc["task"] = "discReport" => ~discBusy')
  BY <1>21 DEF EosEnd, flags, signals, counters, Runs, EndTask, Goto, NoSource
<1>22. ASSUME FirstFrame PROVE pc["task"] # "discSwitch" /\ (pc["task"] = "discReport" => ~discBusy')
  BY <1>22 DEF FirstFrame, flags, loop, frames, signals, counters, LoopFree,
      NoSource
<1>23. ASSUME DiscEnter PROVE pc["task"] # "discSwitch" /\ (pc["task"] = "discReport" => ~discBusy')
  BY <1>23 DEF DiscEnter, flags, signals, counters, Runs, Goto, EndTask,
      AfterDisc, NoSource
<1>24. ASSUME DiscFlags PROVE pc["task"] # "discSwitch" /\ (pc["task"] = "discReport" => ~discBusy')
  BY <1>24 DEF DiscFlags, flags, loop, signals, counters, Runs, Goto,
      AfterDisc
<1>25. ASSUME DiscMark PROVE pc["task"] # "discSwitch" /\ (pc["task"] = "discReport" => ~discBusy')
  BY <1>25 DEF DiscMark, loop, signals, counters, Runs, Goto
<1>26. ASSUME DiscCheck PROVE pc["task"] # "discSwitch" /\ (pc["task"] = "discReport" => ~discBusy')
  BY <1>26 DEF DiscCheck, loop, signals, counters, Runs, Goto
<1>27. ASSUME DiscResume PROVE pc["task"] # "discSwitch" /\ (pc["task"] = "discReport" => ~discBusy')
  BY <1>27 DEF DiscResume, signals, counters, Runs, Goto, EndTask, NoSource
<1>28. ASSUME DiscSwitch PROVE pc["task"] # "discSwitch" /\ (pc["task"] = "discReport" => ~discBusy')
  BY <1>28 DEF DiscSwitch, counters, Runs, Goto
<1>29. ASSUME DiscDone PROVE pc["task"] # "discSwitch" /\ (pc["task"] = "discReport" => ~discBusy')
  BY <1>29 DEF DiscDone, loop, signals, counters, Runs, Goto, AfterDisc
<1>30. ASSUME DiscSignal PROVE pc["task"] # "discSwitch" /\ (pc["task"] = "discReport" => ~discBusy')
  BY <1>30 DEF DiscSignal, signals, counters, Runs, Signal, NoSource
<1>31. ASSUME Discontinuity PROVE pc["task"] # "discSwitch" /\ (pc["task"] = "discReport" => ~discBusy')
  BY <1>31 DEF Discontinuity, loop, frames, signals
<1>32. ASSUME RetuneCheck PROVE pc["task"] # "discSwitch" /\ (pc["task"] = "discReport" => ~discBusy')
  BY <1>32 DEF RetuneCheck, flags, loop, frames
<1>33. ASSUME ScheduleDisc PROVE pc["task"] # "discSwitch" /\ (pc["task"] = "discReport" => ~discBusy')
  BY <1>33 DEF ScheduleDisc, frames, counters, Source
<1>34. ASSUME ScheduleRetune PROVE pc["task"] # "discSwitch" /\ (pc["task"] = "discReport" => ~discBusy')
  BY <1>34 DEF ScheduleRetune, frames, counters, Source
<1>35. ASSUME NotifyEOS PROVE pc["task"] # "discSwitch" /\ (pc["task"] = "discReport" => ~discBusy')
  BY <1>35 DEF NotifyEOS, flags, frames, counters, Source
<1>. QED  BY <1>1, <1>2, <1>3, <1>4, <1>5, <1>6, <1>7, <1>8, <1>9, <1>10,
      <1>11, <1>12, <1>13, <1>14, <1>15, <1>16, <1>17, <1>18, <1>19, <1>20,
      <1>21, <1>22, <1>23, <1>24, <1>25, <1>26, <1>27, <1>28, <1>29, <1>30,
      <1>31, <1>32, <1>33, <1>34, <1>35
          DEF Next, Work, LoopWork, Schedule

\* A teardown of the application's thread passes its gate only while the task of
\* a discontinuity is not moving the sink and will not, for the stream's first
\* discontinuity.
THEOREM TeardownAwaitsTheDiscontinuity == Spec => TeardownAwaitsDiscontinuity
<1>1. ASSUME IInv, Next, pc["app"] \in {"teardown", "discWoken"}, pc'["app"] = "delete",
             ~NewTune("app") \/ state = "idle", discs <= 1, op["task"] = "Disc"
      PROVE  pc["task"] # "discSwitch" /\ (pc["task"] = "discReport" => ~discBusy')
  BY <1>1, TeardownStepsWait DEF IInv
<1>2. IInv /\ [Next]_vars =>
        [(pc["app"] \in {"teardown", "discWoken"} /\ pc'["app"] = "delete"
          /\ (~NewTune("app") \/ state = "idle") /\ discs <= 1 /\ op["task"] = "Disc")
         => /\ pc["task"] # "discSwitch"
            /\ pc["task"] = "discReport" => ~discBusy']_vars
  BY <1>1
<1>. QED  BY <1>2, IInvAlways, PTL DEF Spec, TeardownAwaitsDiscontinuity
=============================================================================
