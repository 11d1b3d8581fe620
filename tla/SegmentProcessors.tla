------------------------- MODULE SegmentProcessors -------------------------
(***************************************************************************)
(* The two media processors of an HLS stream at normal rate, behind one    *)
(* interface (mediaprocessor.h): TSProcessor demultiplexes transport       *)
(* streams (eStreamOp_DEMUX_VIDEO and eStreamOp_DEMUX_AUDIO), and          *)
(* IsoBmffProcessor passes fragmented MP4 on.  In both the audio track     *)
(* waits for the base time stamp that its peer finds in the first media    *)
(* fragment of a period.  The injector threads of the tracks call          *)
(* sendSegment; the player aborts, joins and resets around a discontinuity *)
(* and on Stop.                                                            *)
(*                                                                         *)
(* A base is the number of the period whose video it was found in, 0 for   *)
(* none.  A section under the mutex of a processor is one step, and so is  *)
(* what is done between two of them.  The ring a fragment comes from is    *)
(* MediaTrack, the meeting of the tracks at a discontinuity AVSync.  Not   *)
(* modelled: trick play, throttling, muxed and queued audio, time stamps   *)
(* below the base, fragments without the time stamps they should carry.    *)
(*                                                                         *)
(* A stream, chosen by Init: its format, "TS" or "BMFF", and for each      *)
(* period and track the kinds of its fragments, see StreamAssumption.      *)
(***************************************************************************)
EXTENDS Naturals, Sequences, SequencesExt

CONSTANT Streams

Tracks == {"video", "audio"}

\* Each period has media in its video, and begins with an init fragment when
\* it is fragmented MP4; a bad fragment is no transport stream.
Kinds(format) == IF format = "TS" THEN {"media", "bad"} ELSE {"init", "media"}

ASSUME StreamAssumption ==
  \A s \in Streams :
    /\ s.format \in {"TS", "BMFF"}
    /\ s.periods \in Seq([Tracks -> Seq(Kinds(s.format))])
    /\ s.periods # <<>>
    /\ \A p \in DOMAIN s.periods :
         /\ Contains(s.periods[p]["video"], "media")
         /\ s.format = "BMFF" => \A t \in Tracks : s.periods[p][t] # <<>>
                                                   /\ Head(s.periods[p][t]) = "init"

VARIABLES
  stream,
  \* the player: what it does, to which track, and whether it is in Stop
  ctl, ctlTrack, stopping,
  period,                 \* the period being injected
  \* the injectors: their place, and the fragment they are at
  injectPc, next, abortInject,
  processor,              \* the fields of each processor, see Constructed
  \* the sink: what it was given since the last flush, in order
  sink,
  \* history: a reset wiped the base that video had already handed over
  wiped

player   == <<ctl, ctlTrack, stopping, period>>
injector == <<injectPc, next, abortInject>>
vars == <<stream, player, injector, processor, sink, wiped>>

TS   == stream.format = "TS"
BMFF == stream.format = "BMFF"
Fragments(t) == stream.periods[period][t]

-----------------------------------------------------------------------------
(* The processors *)

\* initSegment holds the indices of the init fragments kept for later.  The
\* time scale of IsoBmffProcessor is found and handed over with its base.
Constructed ==
  IF TS THEN [m_enabled |-> TRUE, m_processing |-> FALSE, m_demuxInitialized |-> FALSE,
              m_basePTSFromPeer |-> 0, base_pts |-> 0]
  ELSE [abortAll |-> FALSE, basePTS |-> 0, processPTSComplete |-> FALSE,
        initSegmentProcessComplete |-> FALSE, initSegment |-> <<>>]

\* The base in the demultiplexer outlives the reset.
TSReset(p) == [p EXCEPT !.m_enabled = TRUE, !.m_demuxInitialized = FALSE,
                        !.m_basePTSFromPeer = 0]

BmffReset == Constructed

Reset(t) == IF TS THEN TSReset(processor[t]) ELSE BmffReset

\* setBasePTS of the peer, called by video.
SetBasePTS(p, base) ==
  IF TS THEN [p EXCEPT !.m_basePTSFromPeer = base, !.base_pts = base,
                       !.m_demuxInitialized = TRUE]
  ELSE [p EXCEPT !.basePTS = base, !.processPTSComplete = TRUE]

\* Fault: nobody is woken.
NoSignal(pc) == pc

\* Signals m_basePTSCond, or m_cond.
Signal(pc) == IF pc = "wait" THEN "woken" ELSE pc

AwaitsBase == IF TS THEN processor["audio"].m_basePTSFromPeer = 0
              ELSE ~processor["audio"].processPTSComplete

\* The base audio was given last.
Base == IF TS THEN processor["audio"].base_pts ELSE processor["audio"].basePTS

\* The processor of t was told to give up.
Aborted(t) == IF TS THEN ~processor[t].m_enabled ELSE processor[t].abortAll

\* Sent to the sink: fragment i of t, timed from a base.
Item(i, base) == [period |-> period, frag |-> i, base |-> base]

-----------------------------------------------------------------------------
(* The injector of track t *)

At(t, pc) == injectPc[t] = pc
Goto(t, pc) == injectPc' = [injectPc EXCEPT ![t] = pc]

\* sendSegment returns, and the fragment leaves the ring.
Return(t) == /\ Goto(t, "loop")
             /\ next' = [next EXCEPT ![t] = @ + 1]

\* One round of RunInjectLoop: it is aborted, or at the discontinuity behind
\* the last fragment of the period, or has a fragment to send.
InjectLoop(t) ==
  /\ At(t, "loop")
  /\ LET over == abortInject[t] \/ next[t] > Len(Fragments(t))
     IN /\ Goto(t, IF over THEN "done" ELSE "send")
        /\ abortInject' = [abortInject EXCEPT ![t] = over]
  /\ UNCHANGED <<stream, player, next, processor, sink, wiped>>

\* TSProcessor::sendSegment begins, unless it is aborted, and looks at the first packet.
TSBegin(t) ==
  /\ TS /\ At(t, "send")
  /\ IF processor[t].m_enabled
     THEN /\ processor' = [processor EXCEPT ![t].m_processing = TRUE]
          /\ Goto(t, IF Fragments(t)[next[t]] = "bad" THEN "end"
                     ELSE IF t = "audio" THEN "base" ELSE "demux")
          /\ UNCHANGED next
     ELSE Return(t) /\ UNCHANGED processor
  /\ UNCHANGED <<stream, player, abortInject, sink, wiped>>

\* Fault: audio waits even when it was aborted before.
TSWaitThoughAborted ==
  /\ TS /\ At("audio", "base")
  /\ Goto("audio", IF AwaitsBase THEN "wait" ELSE "demux")
  /\ UNCHANGED <<stream, player, next, abortInject, processor, sink, wiped>>

\* Audio waits for the base of video, unless it is aborted.
TSWaitForBase ==
  /\ TS /\ At("audio", "base")
  /\ Goto("audio", CASE ~AwaitsBase -> "demux"
                     [] AwaitsBase /\ ~Aborted("audio") -> "wait"
                     [] OTHER -> "end")
  /\ UNCHANGED <<stream, player, next, abortInject, processor, sink, wiped>>

TSWoken ==
  /\ TS /\ At("audio", "woken")
  /\ Goto("audio", IF Aborted("audio") THEN "end" ELSE "demux")
  /\ UNCHANGED <<stream, player, next, abortInject, processor, sink, wiped>>

\* demuxAndSend, to the first time stamp: the first one after a reset is the
\* base, which video hands over to its peer.
TSDemux(t) ==
  /\ TS /\ At(t, "demux")
  /\ IF t = "audio" \/ processor[t].m_demuxInitialized
     THEN /\ processor' = [processor EXCEPT ![t].m_demuxInitialized = TRUE]
          /\ Goto(t, "push")
     ELSE /\ processor' = [processor EXCEPT !["video"].m_demuxInitialized = TRUE,
                                            !["video"].base_pts = period,
                                            !["audio"] = SetBasePTS(@, period)]
          /\ injectPc' = [injectPc EXCEPT !["video"] = "push", !["audio"] = Signal(@)]
  /\ UNCHANGED <<stream, player, next, abortInject, sink, wiped>>

\* demuxAndSend, the rest: the elementary stream goes to the sink.
TSSend(t) ==
  /\ TS /\ At(t, "push")
  /\ sink' = [sink EXCEPT ![t] = Append(@, Item(next[t], processor[t].base_pts))]
  /\ Goto(t, "end")
  /\ UNCHANGED <<stream, player, next, abortInject, processor, wiped>>

\* sendSegment is over, which an abort may wait for.
TSEnd(t) ==
  /\ TS /\ At(t, "end")
  /\ processor' = [processor EXCEPT ![t].m_processing = FALSE]
  /\ Return(t)
  /\ UNCHANGED <<stream, player, abortInject, sink, wiped>>

\* IsoBmffProcessor::sendSegment begins: before the base is known an init
\* fragment is kept, media of audio waits, and media of video is the base.
BmffBegin(t) ==
  LET init == Fragments(t)[next[t]] = "init"
      p    == processor[t]
  IN /\ BMFF /\ At(t, "send")
     /\ \/ /\ p.processPTSComplete
           /\ Goto(t, IF t = "audio" THEN "ready" ELSE "push")
           /\ UNCHANGED <<next, processor>>
        \/ /\ ~p.processPTSComplete /\ init
           /\ processor' = [processor EXCEPT ![t].initSegment = Append(@, next[t])]
           /\ Return(t)
        \/ /\ ~p.processPTSComplete /\ ~init /\ t = "audio"
           /\ Goto(t, "base")
           /\ UNCHANGED <<next, processor>>
        \/ /\ ~p.processPTSComplete /\ ~init /\ t = "video"
           /\ processor' = [processor EXCEPT ![t].basePTS = period,
                                             ![t].processPTSComplete = TRUE]
           /\ Goto(t, "found")
           /\ UNCHANGED next
  /\ UNCHANGED <<stream, player, abortInject, sink, wiped>>

\* Audio waits for the base of video.  An abort before that is not looked at
\* until the wait is over.
BmffWaitForBase ==
  /\ BMFF /\ At("audio", "base")
  /\ Goto("audio", IF AwaitsBase THEN "wait" ELSE "woken")
  /\ UNCHANGED <<stream, player, next, abortInject, processor, sink, wiped>>

BmffWoken ==
  /\ BMFF /\ At("audio", "woken")
  /\ IF Aborted("audio") THEN Return("audio") ELSE Goto("audio", "ready") /\ UNCHANGED next
  /\ UNCHANGED <<stream, player, abortInject, processor, sink, wiped>>

\* The init fragments of t that were kept, or the fragment itself when there
\* was none, are pushed with the base.
PushInitSegment(t) ==
  LET p     == processor[t]
      inits == IF p.initSegment = <<>> THEN <<next[t]>> ELSE p.initSegment
  IN /\ sink' = [sink EXCEPT ![t] =
                   @ \o [i \in DOMAIN inits |-> Item(inits[i], p.basePTS)]]
     /\ processor' = [processor EXCEPT ![t].initSegment = <<>>,
                                       ![t].initSegmentProcessComplete = TRUE]

\* Audio knows the base.
BmffReady ==
  LET p == processor["audio"]
  IN /\ BMFF /\ At("audio", "ready")
     /\ IF p.initSegmentProcessComplete
        THEN Goto("audio", "push") /\ UNCHANGED <<next, processor, sink>>
        ELSE /\ PushInitSegment("audio")
             /\ IF p.initSegment = <<>> THEN Return("audio")
                ELSE Goto("audio", "push") /\ UNCHANGED next
     /\ UNCHANGED <<stream, player, abortInject, wiped>>

\* Fault: the base is handed over at once, before the flush.
BmffFoundTellsPeer ==
  /\ BMFF /\ At("video", "found")
  /\ injectPc' = [injectPc EXCEPT !["video"] = "flush", !["audio"] = Signal(@)]
  /\ processor' = [processor EXCEPT !["audio"] = SetBasePTS(@, period)]
  /\ UNCHANGED <<stream, player, next, abortInject, sink, wiped>>

\* Video has found the base, and goes on unless it was aborted.
BmffFound ==
  /\ BMFF /\ At("video", "found")
  /\ IF Aborted("video") THEN Return("video") ELSE Goto("video", "flush") /\ UNCHANGED next
  /\ UNCHANGED <<stream, player, abortInject, processor, sink, wiped>>

\* FlushStreamSink: a flushing seek to the base, in the whole pipeline.
BmffFlush ==
  /\ BMFF /\ At("video", "flush")
  /\ sink' = [t \in Tracks |-> <<>>]
  /\ Goto("video", "tellPeer")
  /\ UNCHANGED <<stream, player, next, abortInject, processor, wiped>>

BmffTellPeer ==
  /\ BMFF /\ At("video", "tellPeer")
  /\ processor' = [processor EXCEPT !["audio"] = SetBasePTS(@, processor["video"].basePTS)]
  /\ injectPc' = [injectPc EXCEPT !["video"] = "init", !["audio"] = Signal(@)]
  /\ UNCHANGED <<stream, player, next, abortInject, sink, wiped>>

BmffInit ==
  /\ BMFF /\ At("video", "init")
  /\ PushInitSegment("video")
  /\ Goto("video", "push")
  /\ UNCHANGED <<stream, player, next, abortInject, wiped>>

\* SendStream with the position of the fragment in the playlist.
BmffSend(t) ==
  /\ BMFF /\ At(t, "push")
  /\ sink' = [sink EXCEPT ![t] = Append(@, Item(next[t], period))]
  /\ Return(t)
  /\ UNCHANGED <<stream, player, abortInject, processor, wiped>>

Injector(t) ==
  \/ InjectLoop(t)
  \/ TSBegin(t) \/ TSDemux(t) \/ TSSend(t) \/ TSEnd(t)
  \/ BmffBegin(t) \/ BmffSend(t)
  \/ t = "audio" /\ (TSWaitForBase \/ TSWoken \/ BmffWaitForBase \/ BmffWoken \/ BmffReady)
  \/ t = "video" /\ (BmffFound \/ BmffFlush \/ BmffTellPeer \/ BmffInit)

-----------------------------------------------------------------------------
(* The player *)

Control(c, t) == ctl' = c /\ ctlTrack' = t

\* Start and StartInjection, track by track: the processor is reset, then the
\* injector runs.  That of video runs while the processor of audio is reset.
StartInjection ==
  LET t == ctlTrack
  IN /\ ctl = "start"
     /\ processor' = [processor EXCEPT ![t] = Reset(t)]
     /\ abortInject' = [abortInject EXCEPT ![t] = FALSE]
     /\ Goto(t, "loop")
     /\ wiped' = (t = "audio" /\ ~AwaitsBase /\ Base = period)
     /\ IF t = "video" THEN Control("start", "audio") ELSE Control("play", "video")
     /\ UNCHANGED <<stream, stopping, period, next, sink>>

\* Both tracks have met at the discontinuity: their injectors are over.
ProcessPendingDiscontinuity ==
  /\ ctl = "play" /\ period < Len(stream.periods)
  /\ \A t \in Tracks : At(t, "done")
  /\ Control("abort", "video")
  /\ UNCHANGED <<stream, stopping, period, injector, processor, sink, wiped>>

Stop ==
  /\ ctl = "play"
  /\ stopping' = TRUE
  /\ Control("abort", "video")
  /\ UNCHANGED <<stream, period, injector, processor, sink, wiped>>

\* AbortWaitForCachedFragment: the injector takes no other fragment.
AbortWaitForCachedFragment ==
  /\ ctl = "abort"
  /\ abortInject' = [abortInject EXCEPT ![ctlTrack] = TRUE]
  /\ Control("abortProcessor", ctlTrack)
  /\ UNCHANGED <<stream, stopping, period, injectPc, next, processor, sink, wiped>>

\* abort of the processor; that of TSProcessor waits for sendSegment to end.
AbortProcessor ==
  LET t == ctlTrack
  IN /\ ctl = "abortProcessor"
     /\ processor' = IF TS THEN [processor EXCEPT ![t].m_enabled = FALSE]
                     ELSE [processor EXCEPT ![t].abortAll = TRUE]
     /\ Goto(t, Signal(injectPc[t]))
     /\ Control(IF TS THEN "awaitProcessing" ELSE "join", t)
     /\ UNCHANGED <<stream, stopping, period, next, abortInject, sink, wiped>>

AwaitProcessing ==
  /\ ctl = "awaitProcessing" /\ ~processor[ctlTrack].m_processing
  /\ Control("join", ctlTrack)
  /\ UNCHANGED <<stream, stopping, period, injector, processor, sink, wiped>>

StopInjectLoop ==
  /\ ctl = "join" /\ At(ctlTrack, "done")
  /\ Goto(ctlTrack, "off")
  /\ CASE ctlTrack = "video" -> Control("abort", "audio")
       [] ctlTrack = "audio" /\ stopping -> Control("stopped", "video")
       [] OTHER -> Control("flush", "video")
  /\ UNCHANGED <<stream, stopping, period, next, abortInject, processor, sink, wiped>>

\* The rest of ProcessPendingDiscontinuity, to StartInjection.  The sink is
\* flushed here unless the stream is fragmented MP4.
FlushSink ==
  /\ ctl = "flush"
  /\ period' = period + 1
  /\ next' = [t \in Tracks |-> 1]
  /\ sink' = IF TS THEN [t \in Tracks |-> <<>>] ELSE sink
  /\ wiped' = FALSE
  /\ Control("start", "video")
  /\ UNCHANGED <<stream, stopping, injectPc, abortInject, processor>>

PlayerStep ==
  \/ StartInjection \/ ProcessPendingDiscontinuity \/ AbortWaitForCachedFragment
  \/ AbortProcessor \/ AwaitProcessing \/ StopInjectLoop \/ FlushSink

-----------------------------------------------------------------------------
Init ==
  /\ stream \in Streams
  /\ ctl = "start" /\ ctlTrack = "video" /\ stopping = FALSE /\ period = 1
  /\ injectPc = [t \in Tracks |-> "off"]
  /\ next = [t \in Tracks |-> 1]
  /\ abortInject = [t \in Tracks |-> FALSE]
  /\ processor = [t \in Tracks |-> Constructed]
  /\ sink = [t \in Tracks |-> <<>>]
  /\ wiped = FALSE

Next == PlayerStep \/ Stop \/ \E t \in Tracks : Injector(t)

Spec == Init /\ [][Next]_vars

\* Each thread is scheduled; the application need not call Stop.
Fairness == WF_vars(PlayerStep) /\ \A t \in Tracks : WF_vars(Injector(t))

FairSpec == Spec /\ Fairness

-----------------------------------------------------------------------------
(* Properties *)

Ctls == {"start", "play", "abort", "abortProcessor", "awaitProcessing", "join", "flush",
         "stopped"}
InjectPcs == {"off", "loop", "send", "base", "wait", "woken", "ready", "found", "demux",
              "flush", "tellPeer", "init", "push", "end", "done"}

TSFields == [m_enabled : BOOLEAN, m_processing : BOOLEAN, m_demuxInitialized : BOOLEAN,
             m_basePTSFromPeer : Nat, base_pts : Nat]
BmffFields == [abortAll : BOOLEAN, basePTS : Nat, processPTSComplete : BOOLEAN,
               initSegmentProcessComplete : BOOLEAN, initSegment : Seq(Nat)]
Items == [period : Nat, frag : Nat, base : Nat]

TypeOK ==
  /\ stream \in Streams
  /\ ctl \in Ctls
  /\ ctlTrack \in Tracks /\ stopping \in BOOLEAN /\ wiped \in BOOLEAN
  /\ period \in DOMAIN stream.periods
  /\ injectPc \in [Tracks -> InjectPcs]
  /\ next \in [Tracks -> Nat] /\ abortInject \in [Tracks -> BOOLEAN]
  /\ TS => processor \in [Tracks -> TSFields]
  /\ BMFF => processor \in [Tracks -> BmffFields]
  /\ sink \in [Tracks -> Seq(Items)]

\* What is in s of period p is the first n of its fragments, but the bad ones,
\* in order and timed from the base of p.
Whole(s, p, fragments, n) ==
  LET sent == {i \in DOMAIN s : s[i].period = p}
  IN /\ \A f \in 1 .. n : fragments[f] # "bad" => \E i \in sent : s[i].frag = f
     /\ \A i \in sent : /\ s[i].base = p
                        /\ s[i].frag \in 1 .. n /\ fragments[s[i].frag] # "bad"
     /\ \A i, j \in sent : i < j => s[i].frag < s[j].frag

\* Every fragment so far is kept for later, and none is sent.
AllKept(t) ==
  /\ BMFF /\ processor[t].initSegment = [f \in 1 .. (next[t] - 1) |-> f]
  /\ \A i \in DOMAIN sink[t] : sink[t][i].period # period

\* Between two fragments a track that was not aborted has given the sink
\* every fragment of the period that it took, in order, each timed from the
\* base of this period's video: none was sent before the base was known, with
\* the base of the period before, without the init fragment ahead of it, or
\* ahead of the flush that begins the period, which would discard it.
PeriodIntact ==
  /\ TypeOK
  /\ \A t \in Tracks :
       At(t, "loop") /\ ~abortInject[t] =>
         \/ AllKept(t)
         \/ /\ BMFF => processor[t].initSegment = <<>>
            /\ Whole(sink[t], period, Fragments(t), next[t] - 1)

\* An abort that came between the unlocked check of IsoBmffProcessor and its
\* wait: the one way to wait though aborted.
AbortLost == BMFF /\ Aborted("audio") /\ At("audio", "wait")

\* Audio that waits for the base of video is released, by the base or by an
\* abort, unless the base was wiped by a late reset or the abort was lost.
AudioReleased ==
  [](At("audio", "wait") /\ ~wiped /\ ~AbortLost => <>~At("audio", "wait"))

\* Stop ends: no track waits in its processor, and the abort of TSProcessor
\* does not wait for a call that is over; unless the abort was lost.
StopEnds == stopping ~> (ctl = "stopped" \/ AbortLost)
=============================================================================
