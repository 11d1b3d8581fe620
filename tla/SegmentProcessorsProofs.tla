---------------------- MODULE SegmentProcessorsProofs ----------------------
(***************************************************************************)
(* Proofs about SegmentProcessors: the variables keep their types, and     *)
(* each track gives the sink the fragments of a period whole, in order and *)
(* timed from the base of the period (PeriodIntact), for every stream of   *)
(* StreamAssumption.  The invariant IInv says where the player and the     *)
(* injectors can be together, that a processor is aborted only after its   *)
(* injector, that the base of audio is that of the period being injected,  *)
(* and what each track has sent or keeps wherever its call is.             *)
(***************************************************************************)
EXTENDS SegmentProcessors, TLAPS

Running(t) == injectPc[t] # "off"
Live(t) == Running(t) /\ ~abortInject[t]

\* Where the player is with each track.
NotStarted(t) == ctl = "start" /\ (ctlTrack = "video" \/ t = "audio")
Joined(t) == \/ ctl \in {"flush", "stopped"}
             \/ /\ ctl \in {"abort", "abortProcessor", "awaitProcessing", "join"}
                /\ ctlTrack = "audio" /\ t = "video"
CtlInv ==
  /\ \A t \in Tracks : injectPc[t] = "off" <=> NotStarted(t) \/ Joined(t)
  /\ ctl \in {"abortProcessor", "awaitProcessing", "join"} => abortInject[ctlTrack]
  /\ stopping => ctl \notin {"start", "play", "flush"}
  /\ ~stopping => ctl # "stopped"
  /\ ctl \notin {"start", "play"} /\ ~stopping => period < Len(stream.periods)

\* Where a call can be in each kind of processor.
PlaceInv ==
  /\ TS => injectPc["video"] \in {"off", "loop", "send", "demux", "push", "end", "done"}
           /\ injectPc["audio"] \in {"off", "loop", "send", "base", "wait", "woken", "demux",
                                     "push", "end", "done"}
  /\ BMFF => injectPc["video"] \in {"off", "loop", "send", "found", "flush", "tellPeer",
                                    "init", "push", "done"}
             /\ injectPc["audio"] \in {"off", "loop", "send", "base", "wait", "woken", "ready",
                                       "push", "done"}

\* A call has a fragment of the period.
RangeInv ==
  \A t \in Tracks :
    /\ next[t] \in 1 .. (Len(Fragments(t)) + 1)
    /\ injectPc[t] \notin {"off", "loop", "done"} => next[t] <= Len(Fragments(t))
    /\ NotStarted(t) => next[t] = 1

\* A processor is aborted after its injector, and starts anew with it.
HaltInv ==
  \A t \in Tracks : /\ injectPc[t] = "done" => abortInject[t]
                    /\ Live(t) => ~Aborted(t)

\* Items are of the period or of one before.
PastInv ==
  \A t \in Tracks : \A i \in DOMAIN sink[t] :
    sink[t][i].period <= period /\ (NotStarted(t) => sink[t][i].period < period)

\* The demultiplexers of this period have its base, once audio is told.
TSBaseInv ==
  TS =>
    /\ Running("video") /\ processor["video"].m_demuxInitialized =>
         processor["video"].base_pts = period
    /\ injectPc["video"] = "push" => processor["video"].m_demuxInitialized
    /\ Running("audio") /\ processor["audio"].m_basePTSFromPeer # 0 =>
         processor["audio"].base_pts = period
    /\ injectPc["audio"] \in {"demux", "push"} => processor["audio"].m_basePTSFromPeer # 0
    /\ injectPc["audio"] = "woken" /\ processor["audio"].m_enabled =>
         processor["audio"].m_basePTSFromPeer # 0

\* What a track of a transport stream has sent.
TSSent(t) ==
  /\ injectPc[t] \in {"base", "wait", "woken", "demux", "push"} =>
       Fragments(t)[next[t]] # "bad"
  /\ Live(t) => Whole(sink[t], period, Fragments(t),
                      IF injectPc[t] = "end" THEN next[t] ELSE next[t] - 1)
TSSentInv == TS => \A t \in Tracks : TSSent(t)

\* Audio is told the base after the flush, and pushes its init fragments after that.
BmffBaseInv ==
  BMFF =>
    /\ \A t \in Tracks :
         /\ Running(t) /\ processor[t].initSegmentProcessComplete =>
              processor[t].processPTSComplete
         /\ Running(t) /\ processor[t].processPTSComplete => processor[t].basePTS = period
    /\ injectPc["video"] \in {"found", "flush", "tellPeer", "init"} =>
         /\ Fragments("video")[next["video"]] # "init"
         /\ processor["video"].processPTSComplete
         /\ ~processor["video"].initSegmentProcessComplete
    /\ Running("audio") /\ processor["audio"].processPTSComplete =>
         /\ processor["video"].processPTSComplete
         /\ injectPc["video"] \notin {"found", "flush", "tellPeer"}
    /\ injectPc["audio"] = "ready" => processor["audio"].processPTSComplete
    /\ injectPc["audio"] = "woken" /\ ~processor["audio"].abortAll =>
         processor["audio"].processPTSComplete

\* What a track of fragmented MP4 has sent, or keeps.
BmffSent(t) ==
  Live(t) =>
    /\ injectPc[t] = "push" => processor[t].initSegmentProcessComplete
    /\ ~processor[t].initSegmentProcessComplete => AllKept(t)
    /\ processor[t].initSegmentProcessComplete =>
         /\ processor[t].initSegment = <<>>
         /\ Whole(sink[t], period, Fragments(t), next[t] - 1)
BmffSentInv == BMFF => \A t \in Tracks : BmffSent(t)

\* Video pushes its init fragments when it has found the base.
BmffFoundInv ==
  BMFF => (Live("video") /\ processor["video"].processPTSComplete
           /\ ~processor["video"].initSegmentProcessComplete =>
             injectPc["video"] \in {"found", "flush", "tellPeer", "init"})

IInv == TypeOK /\ CtlInv /\ PlaceInv /\ RangeInv /\ HaltInv /\ PastInv
        /\ TSBaseInv /\ TSSentInv /\ BmffBaseInv /\ BmffSentInv /\ BmffFoundInv

\* What the stream of a state is like.
LEMMA Formats ==
    ASSUME TypeOK
    PROVE  /\ TS \/ BMFF
           /\ ~(TS /\ BMFF)
           /\ Len(stream.periods) \in Nat /\ DOMAIN stream.periods = 1 .. Len(stream.periods)
           /\ period \in 1 .. Len(stream.periods)
           /\ \A t \in Tracks : Len(Fragments(t)) \in Nat
           /\ BMFF => \A t \in Tracks : /\ \A i \in 1 .. Len(Fragments(t)) : Fragments(t)[i] # "bad"
                                       /\ Len(Fragments(t)) # 0 /\ Fragments(t)[1] = "init"
<1>1. stream \in Streams /\ period \in DOMAIN stream.periods
  BY DEF TypeOK
<1>2. /\ stream.format \in {"TS", "BMFF"}
      /\ stream.periods \in Seq([Tracks -> Seq(Kinds(stream.format))])
  BY <1>1, StreamAssumption
<1>3. stream.periods[period] \in [Tracks -> Seq(Kinds(stream.format))]
  BY <1>1, <1>2
<1>4. \A t \in Tracks : Fragments(t) \in Seq(Kinds(stream.format))
  BY <1>3 DEF Fragments
<1>5. BMFF => \A t \in Tracks : Fragments(t) # <<>> /\ Head(Fragments(t)) = "init"
  BY <1>1, StreamAssumption DEF BMFF, Fragments
<1>6. BMFF => \A t \in Tracks : \A i \in 1 .. Len(Fragments(t)) : Fragments(t)[i] # "bad"
  BY <1>4 DEF BMFF, Kinds
<1>. QED  BY <1>1, <1>2, <1>4, <1>5, <1>6 DEF TS, BMFF

\* The stream stays what it is.
LEMMA StreamFixed == ASSUME Next PROVE stream' = stream /\ TS' = TS /\ BMFF' = BMFF
<1>1. stream' = stream
  BY DEF Next, PlayerStep, Injector, player, injector, InjectLoop, TSBegin,
      TSDemux, TSSend, TSEnd, BmffBegin, BmffSend, TSWaitForBase, TSWoken,
      BmffWaitForBase, BmffWoken, BmffReady, BmffFound, BmffFlush, BmffTellPeer,
      BmffInit, StartInjection, ProcessPendingDiscontinuity,
      AbortWaitForCachedFragment, AbortProcessor, AwaitProcessing,
      StopInjectLoop, FlushSink, Stop
<1>. QED  BY <1>1 DEF TS, BMFF

-----------------------------------------------------------------------------
(* Sequences and records *)

\* What Whole asks for is not disturbed by a fragment that is none, ...
LEMMA WholeSkips ==
    ASSUME NEW q, NEW p, NEW fs, NEW n \in Nat, Whole(q, p, fs, n), fs[n + 1] = "bad"
    PROVE  Whole(q, p, fs, n + 1)
BY DEF Whole

\* ... and is kept by the next fragment of the period, timed from its base.
LEMMA WholeAppends ==
    ASSUME NEW q \in Seq(Items), NEW p \in Nat, NEW fs, NEW n \in Nat,
           Whole(q, p, fs, n), fs[n + 1] # "bad",
           NEW x \in Items, x = [period |-> p, frag |-> n + 1, base |-> p]
    PROVE  Whole(Append(q, x), p, fs, n + 1)
<1>. DEFINE r == Append(q, x)
<1>1. /\ Len(q) \in Nat /\ DOMAIN q = 1 .. Len(q) /\ DOMAIN r = 1 .. (Len(q) + 1)
      /\ \A i \in 1 .. Len(q) : r[i] = q[i]
      /\ r[Len(q) + 1] = x
  OBVIOUS
<1>2. x.period = p /\ x.frag = n + 1 /\ x.base = p
  OBVIOUS
<1>. HIDE DEF r
<1>3. \A f \in 1 .. (n + 1) : fs[f] # "bad" => \E i \in DOMAIN r : r[i].period = p /\ r[i].frag = f
  <2>. SUFFICES ASSUME NEW f \in 1 .. (n + 1), fs[f] # "bad"
                PROVE  \E i \in DOMAIN r : r[i].period = p /\ r[i].frag = f
    OBVIOUS
  <2>1. CASE f = n + 1
    BY <1>1, <1>2, <2>1
  <2>2. CASE f # n + 1
    <3>1. \E i \in DOMAIN q : q[i].period = p /\ q[i].frag = f
      BY <2>2 DEF Whole
    <3>. QED  BY <1>1, <3>1
  <2>. QED  BY <2>1, <2>2
<1>4. \A i \in DOMAIN r : r[i].period = p =>
         r[i].base = p /\ r[i].frag \in 1 .. (n + 1) /\ fs[r[i].frag] # "bad"
  BY <1>1, <1>2 DEF Whole
<1>5. \A i, j \in DOMAIN r : r[i].period = p /\ r[j].period = p /\ i < j => r[i].frag < r[j].frag
  BY <1>1, <1>2 DEF Whole
<1>. QED  BY <1>3, <1>4, <1>5 DEF Whole, r

\* A track that has sent nothing of the period has sent its first 0 fragments.
LEMMA WholeStarts ==
    ASSUME NEW q, NEW p, NEW fs, \A i \in DOMAIN q : q[i].period # p
    PROVE  Whole(q, p, fs, 0)
BY DEF Whole

\* An item that is appended is a sequence of one.
LEMMA Appends ==
    ASSUME NEW q \in Seq(Items), NEW x \in Items
    PROVE  /\ <<x>> \in Seq(Items) /\ Len(<<x>>) = 1 /\ <<x>>[1] = x
           /\ Append(q, x) = q \o <<x>>
OBVIOUS

\* The places in a concatenation.
LEMMA Concats ==
    ASSUME NEW q \in Seq(Items), NEW r \in Seq(Items)
    PROVE  /\ q \o r \in Seq(Items)
           /\ Len(q) \in Nat /\ DOMAIN q = 1 .. Len(q) /\ Len(r) \in Nat
           /\ DOMAIN (q \o r) = 1 .. (Len(q) + Len(r))
           /\ \A i \in 1 .. Len(q) : (q \o r)[i] = q[i]
           /\ \A k \in 1 .. Len(r) : (q \o r)[Len(q) + k] = r[k]
OBVIOUS

\* The first fragments of the period, pushed together.
LEMMA WholePushes ==
    ASSUME NEW q \in Seq(Items), NEW p \in Nat, NEW fs, NEW m \in Nat,
           \A i \in DOMAIN q : q[i].period # p,
           \A f \in 1 .. m : fs[f] # "bad",
           NEW r \in Seq(Items), Len(r) = m,
           \A k \in 1 .. m : r[k] = [period |-> p, frag |-> k, base |-> p]
    PROVE  Whole(q \o r, p, fs, m)
<1>. DEFINE w == q \o r
<1>0. /\ Len(q) \in Nat /\ DOMAIN q = 1 .. Len(q) /\ DOMAIN w = 1 .. (Len(q) + m)
      /\ \A i \in 1 .. Len(q) : w[i] = q[i]
  BY Concats
<1>1. /\ Len(q) \in Nat /\ DOMAIN q = 1 .. Len(q) /\ DOMAIN w = 1 .. (Len(q) + m)
      /\ \A i \in 1 .. Len(q) : w[i].period # p
  BY <1>0
<1>2. \A k \in 1 .. m : w[Len(q) + k] = r[k] /\ Len(q) + k \in 1 .. (Len(q) + m)
  OBVIOUS
<1>3. \A k \in 1 .. m : /\ w[Len(q) + k].period = p /\ w[Len(q) + k].frag = k
                        /\ w[Len(q) + k].base = p
  BY <1>2
<1>4. \A i \in DOMAIN w : w[i].period = p => i - Len(q) \in 1 .. m /\ i = Len(q) + (i - Len(q))
  BY <1>1
<1>5. \A i \in DOMAIN w : w[i].period = p => w[i].frag = i - Len(q) /\ w[i].base = p
  BY <1>3, <1>4
<1>. HIDE DEF w
<1>6. \A f \in 1 .. m : \E i \in DOMAIN w : w[i].period = p /\ w[i].frag = f
  BY <1>1, <1>2, <1>3
<1>7. \A i, j \in DOMAIN w : w[i].period = p /\ w[j].period = p /\ i < j => w[i].frag < w[j].frag
  BY <1>1, <1>5
<1>. QED  BY <1>4, <1>5, <1>6, <1>7 DEF Whole, w

\* What a push of init fragments gives the sink.
LEMMA PushedItems ==
    ASSUME NEW inits \in Seq(Nat), NEW p \in Nat, NEW b \in Nat
    PROVE  /\ [i \in DOMAIN inits |-> [period |-> p, frag |-> inits[i], base |-> b]] \in Seq(Items)
           /\ Len([i \in DOMAIN inits |-> [period |-> p, frag |-> inits[i], base |-> b]]) = Len(inits)
<1>1. DOMAIN inits = 1 .. Len(inits) /\ Len(inits) \in Nat
  OBVIOUS
<1>. QED  BY <1>1 DEF Items

\* One more init fragment is kept.
LEMMA KeepsOneMore ==
    ASSUME NEW n \in Nat \ {0}, NEW s, s = [f \in 1 .. (n - 1) |-> f]
    PROVE  Append(s, n) = [f \in 1 .. ((n + 1) - 1) |-> f]
<1>1. s \in Seq(Nat) /\ Len(s) = n - 1
  OBVIOUS
<1>2. Append(s, n) \in Seq(Nat) /\ Len(Append(s, n)) = n
  BY <1>1
<1>3. DOMAIN Append(s, n) = 1 .. n
  BY <1>2
<1>4. \A i \in 1 .. n : Append(s, n)[i] = i
  BY <1>1
<1>5. Append(s, n) = [i \in 1 .. n |-> Append(s, n)[i]]
  BY <1>2, <1>3
<1>6. [i \in 1 .. n |-> Append(s, n)[i]] = [i \in 1 .. n |-> i]
  BY <1>4
<1>7. (n + 1) - 1 = n
  OBVIOUS
<1>. QED  BY <1>5, <1>6, <1>7

\* The processors stay what they are when a field is set.
LEMMA TSUpdates ==
    ASSUME NEW p \in TSFields, NEW b \in BOOLEAN, NEW n \in Nat
    PROVE  /\ [p EXCEPT !.m_processing = b] \in TSFields
           /\ [p EXCEPT !.m_enabled = b] \in TSFields
           /\ [p EXCEPT !.m_demuxInitialized = b] \in TSFields
           /\ [p EXCEPT !.m_demuxInitialized = b, !.base_pts = n] \in TSFields
BY DEF TSFields

\* ... whatever they are.
LEMMA BmffUpdates ==
    ASSUME NEW p \in BmffFields
    PROVE  /\ [p EXCEPT !.abortAll = TRUE] \in BmffFields
           /\ \A s \in Seq(Nat) : [p EXCEPT !.initSegment = s] \in BmffFields
           /\ [p EXCEPT !.initSegment = <<>>, !.initSegmentProcessComplete = TRUE] \in BmffFields
           /\ \A n \in Nat : [p EXCEPT !.basePTS = n, !.processPTSComplete = TRUE] \in BmffFields
<1>1. [p EXCEPT !.abortAll = TRUE] \in BmffFields
  BY DEF BmffFields
<1>2. \A s \in Seq(Nat) : [p EXCEPT !.initSegment = s] \in BmffFields
  BY DEF BmffFields
<1>3. [p EXCEPT !.initSegment = <<>>, !.initSegmentProcessComplete = TRUE] \in BmffFields
  <2>1. \A s \in Seq(Nat) :
          [p EXCEPT !.initSegment = s, !.initSegmentProcessComplete = TRUE] \in BmffFields
    BY DEF BmffFields
  <2>2. <<>> \in Seq(Nat)
    OBVIOUS
  <2>. QED  BY <2>1, <2>2
<1>4. \A n \in Nat : [p EXCEPT !.basePTS = n, !.processPTSComplete = TRUE] \in BmffFields
  BY DEF BmffFields
<1>. QED  BY <1>1, <1>2, <1>3, <1>4

\* What the base does to the processor that is told it.
LEMMA SetsBaseTS ==
    ASSUME TS, NEW p \in TSFields, NEW b \in Nat
    PROVE  /\ SetBasePTS(p, b) \in TSFields
           /\ SetBasePTS(p, b).m_basePTSFromPeer = b /\ SetBasePTS(p, b).base_pts = b
           /\ SetBasePTS(p, b).m_enabled = p.m_enabled
BY DEF SetBasePTS, TSFields

\* ... and to that of fragmented MP4.
LEMMA SetsBaseBmff ==
    ASSUME ~TS, NEW p \in BmffFields, NEW b \in Nat
    PROVE  /\ SetBasePTS(p, b) \in BmffFields
           /\ SetBasePTS(p, b).basePTS = b /\ SetBasePTS(p, b).processPTSComplete
           /\ SetBasePTS(p, b).abortAll = p.abortAll
           /\ SetBasePTS(p, b).initSegment = p.initSegment
           /\ SetBasePTS(p, b).initSegmentProcessComplete = p.initSegmentProcessComplete
BY DEF SetBasePTS, BmffFields

-----------------------------------------------------------------------------
(* The steps of a call *)

\* What the first look at a fragment of a transport stream does.
LEMMA TSBeginFields ==
    ASSUME TypeOK, TS, NEW t \in Tracks, TSBegin(t)
    PROVE  \A u \in Tracks :
             /\ processor'[u].m_enabled = processor[u].m_enabled
             /\ processor'[u].m_demuxInitialized = processor[u].m_demuxInitialized
             /\ processor'[u].m_basePTSFromPeer = processor[u].m_basePTSFromPeer
             /\ processor'[u].base_pts = processor[u].base_pts
<1>1. processor' = processor \/ processor' = [processor EXCEPT ![t].m_processing = TRUE]
  BY DEF TSBegin
<1>2. processor \in [Tracks -> TSFields]
  BY DEF TypeOK, TS
<1>. QED  BY <1>1, <1>2 DEF TSFields

\* Video of a transport stream hands over its base, ...
LEMMA DemuxTellsPeer ==
    ASSUME TypeOK, TS, NEW t \in Tracks, TSDemux(t)
    PROVE  \/ processor' = [processor EXCEPT ![t].m_demuxInitialized = TRUE]
              /\ injectPc' = [injectPc EXCEPT ![t] = "push"]
              /\ (t = "audio" \/ processor[t].m_demuxInitialized)
           \/ /\ t = "video" /\ ~processor[t].m_demuxInitialized
              /\ processor' = [processor EXCEPT
                   !["video"] = [processor["video"] EXCEPT !.m_demuxInitialized = TRUE, !.base_pts = period],
                   !["audio"] = SetBasePTS(processor["audio"], period)]
              /\ injectPc' = [injectPc EXCEPT !["video"] = "push", !["audio"] = Signal(injectPc["audio"])]
BY DEF TSDemux, TypeOK, Tracks, Goto

\* ... and leaves both processors with it.
LEMMA DemuxFields ==
    ASSUME TypeOK, TS, NEW t \in Tracks, TSDemux(t)
    PROVE  /\ \A u \in Tracks : processor'[u].m_enabled = processor[u].m_enabled
           /\ \/ /\ \A u \in Tracks : /\ processor'[u].base_pts = processor[u].base_pts
                                      /\ processor'[u].m_basePTSFromPeer = processor[u].m_basePTSFromPeer
                 /\ t = "video" => processor[t].m_demuxInitialized
                 /\ \A u \in Tracks \ {t} :
                      processor'[u].m_demuxInitialized = processor[u].m_demuxInitialized
                 /\ injectPc' = [injectPc EXCEPT ![t] = "push"]
              \/ /\ t = "video"
                 /\ \A u \in Tracks : processor'[u].base_pts = period
                 /\ processor'["audio"].m_basePTSFromPeer = period
                 /\ injectPc' = [injectPc EXCEPT !["video"] = "push", !["audio"] = Signal(injectPc["audio"])]
           /\ processor'[t].m_demuxInitialized
<1>. DEFINE v == processor["video"]  a == processor["audio"]
            w == [v EXCEPT !.m_demuxInitialized = TRUE, !.base_pts = period]
            b == SetBasePTS(a, period)
<1>1. processor \in [Tracks -> TSFields] /\ v \in TSFields /\ a \in TSFields /\ period \in Nat
  BY Formats DEF TypeOK, TS, Tracks
<1>2. b.m_basePTSFromPeer = period /\ b.base_pts = period /\ b.m_enabled = a.m_enabled
  BY <1>1, SetsBaseTS
<1>3. w.m_demuxInitialized /\ w.base_pts = period /\ w.m_enabled = v.m_enabled
  BY <1>1 DEF TSFields
<1>4. CASE /\ processor' = [processor EXCEPT ![t].m_demuxInitialized = TRUE]
           /\ injectPc' = [injectPc EXCEPT ![t] = "push"]
           /\ t = "audio" \/ processor[t].m_demuxInitialized
  BY <1>1, <1>4 DEF TSFields, Tracks
<1>. HIDE DEF b, w, v, a
<1>5. CASE /\ t = "video" /\ ~processor[t].m_demuxInitialized
           /\ processor' = [processor EXCEPT !["video"] = w, !["audio"] = b]
           /\ injectPc' = [injectPc EXCEPT !["video"] = "push", !["audio"] = Signal(injectPc["audio"])]
  <2>1. processor'["video"] = w /\ processor'["audio"] = b
    BY <1>1, <1>5 DEF Tracks
  <2>. QED  BY <1>2, <1>3, <1>5, <2>1 DEF Tracks, v, a
<1>. QED  BY <1>4, <1>5, DemuxTellsPeer DEF b, w, v, a

\* The first fragments of fragmented MP4 are kept, or give the base, ...
LEMMA BeginFields ==
    ASSUME TypeOK, BMFF, NEW t \in Tracks, BmffBegin(t)
    PROVE  /\ \A u \in Tracks : /\ processor'[u].abortAll = processor[u].abortAll
                                /\ processor'[u].initSegmentProcessComplete
                                     = processor[u].initSegmentProcessComplete
           /\ \A u \in Tracks \ {t} : processor'[u] = processor[u]
           /\ \/ /\ processor[t].processPTSComplete /\ processor' = processor
                 /\ next' = next
                 /\ injectPc' = [injectPc EXCEPT ![t] = IF t = "audio" THEN "ready" ELSE "push"]
              \/ /\ ~processor[t].processPTSComplete /\ Fragments(t)[next[t]] = "init"
                 /\ processor'[t].initSegment = Append(processor[t].initSegment, next[t])
                 /\ processor'[t].processPTSComplete = processor[t].processPTSComplete
                 /\ processor'[t].basePTS = processor[t].basePTS
                 /\ next' = [next EXCEPT ![t] = next[t] + 1]
                 /\ injectPc' = [injectPc EXCEPT ![t] = "loop"]
              \/ /\ ~processor[t].processPTSComplete /\ Fragments(t)[next[t]] # "init"
                 /\ t = "audio" /\ processor' = processor
                 /\ next' = next
                 /\ injectPc' = [injectPc EXCEPT ![t] = "base"]
              \/ /\ ~processor[t].processPTSComplete /\ Fragments(t)[next[t]] # "init"
                 /\ t = "video" /\ processor'[t].processPTSComplete
                 /\ processor'[t].basePTS = period
                 /\ processor'[t].initSegment = processor[t].initSegment
                 /\ next' = next
                 /\ injectPc' = [injectPc EXCEPT ![t] = "found"]
<1>1. processor \in [Tracks -> BmffFields]
  BY DEF TypeOK, BMFF
<1>2. CASE processor[t].processPTSComplete
  BY <1>1, <1>2 DEF BmffBegin, Goto, Return, Tracks
<1>3. CASE ~processor[t].processPTSComplete /\ Fragments(t)[next[t]] = "init"
  <2>1. /\ processor' = [processor EXCEPT ![t].initSegment = Append(@, next[t])]
        /\ next' = [next EXCEPT ![t] = next[t] + 1]
        /\ injectPc' = [injectPc EXCEPT ![t] = "loop"]
    BY <1>3 DEF BmffBegin, Return, Goto
  <2>. QED  BY <1>1, <1>3, <2>1 DEF BmffFields
<1>4. CASE ~processor[t].processPTSComplete /\ Fragments(t)[next[t]] # "init" /\ t = "audio"
  BY <1>1, <1>4 DEF BmffBegin, Goto, Return
<1>5. CASE ~processor[t].processPTSComplete /\ Fragments(t)[next[t]] # "init" /\ t = "video"
  <2>1. /\ processor' = [processor EXCEPT ![t].basePTS = period, ![t].processPTSComplete = TRUE]
        /\ next' = next
        /\ injectPc' = [injectPc EXCEPT ![t] = "found"]
    BY <1>5 DEF BmffBegin, Goto
  <2>. QED  BY <1>1, <1>5, <2>1 DEF BmffFields
<1>. QED  BY <1>2, <1>3, <1>4, <1>5 DEF Tracks

\* An item is an item.
LEMMA ItemTypes ==
    ASSUME TypeOK, NEW i \in Nat, NEW b \in Nat
    PROVE  /\ Item(i, b) \in Items
           /\ Item(i, b) = [period |-> period, frag |-> i, base |-> b]
BY Formats DEF Item, Items

\* ... and pushes of init fragments of fragmented MP4.
LEMMA Pushes ==
    ASSUME TypeOK, BMFF, NEW t \in Tracks, PushInitSegment(t)
    PROVE  \E inits \in Seq(Nat), r \in Seq(Items) :
             /\ inits = IF processor[t].initSegment = <<>> THEN <<next[t]>>
                        ELSE processor[t].initSegment
             /\ Len(r) = Len(inits)
             /\ \A k \in 1 .. Len(inits) :
                  r[k] = [period |-> period, frag |-> inits[k], base |-> processor[t].basePTS]
             /\ \A k \in 1 .. Len(r) : r[k].period = period
             /\ sink' = [sink EXCEPT ![t] = sink[t] \o r]
             /\ processor' = [processor EXCEPT ![t].initSegment = <<>>,
                                               ![t].initSegmentProcessComplete = TRUE]
<1>. DEFINE inits == IF processor[t].initSegment = <<>> THEN <<next[t]>>
                     ELSE processor[t].initSegment
            b == processor[t].basePTS
            r == [i \in DOMAIN inits |-> Item(inits[i], b)]
<1>1. processor[t] \in BmffFields /\ period \in Nat
  BY Formats DEF TypeOK
<1>2. inits \in Seq(Nat) /\ b \in Nat
  BY <1>1 DEF BmffFields, TypeOK
<1>3. r = [i \in DOMAIN inits |-> [period |-> period, frag |-> inits[i], base |-> b]]
  BY DEF Item
<1>4. sink' = [sink EXCEPT ![t] = sink[t] \o r]
  BY DEF PushInitSegment, TypeOK
<1>5. processor' = [processor EXCEPT ![t].initSegment = <<>>,
                                     ![t].initSegmentProcessComplete = TRUE]
  BY DEF PushInitSegment
<1>. HIDE DEF inits, b
<1>6. r \in Seq(Items) /\ Len(r) = Len(inits)
  <2>. HIDE DEF r
  <2>. QED  BY <1>1, <1>2, <1>3, PushedItems
<1>7. \A k \in 1 .. Len(inits) : r[k] = [period |-> period, frag |-> inits[k], base |-> b]
  BY <1>2, <1>3
<1>8. \A k \in 1 .. Len(inits) : r[k].period = period
  BY <1>2, <1>3
<1>. HIDE DEF r
<1>. QED  BY <1>2, <1>4, <1>5, <1>6, <1>7, <1>8 DEF inits, b

\* What a push of init fragments does to the processors.
LEMMA PushFields ==
    ASSUME TypeOK, BMFF, NEW t \in Tracks, PushInitSegment(t)
    PROVE  /\ \A u \in Tracks \ {t} : processor'[u] = processor[u]
           /\ processor'[t].initSegment = <<>> /\ processor'[t].initSegmentProcessComplete
           /\ processor'[t].abortAll = processor[t].abortAll
           /\ processor'[t].basePTS = processor[t].basePTS
           /\ processor'[t].processPTSComplete = processor[t].processPTSComplete
<1>1. processor' = [processor EXCEPT ![t].initSegment = <<>>, ![t].initSegmentProcessComplete = TRUE]
  BY DEF PushInitSegment
<1>2. processor \in [Tracks -> BmffFields]
  BY DEF TypeOK, BMFF
<1>. QED  BY <1>1, <1>2 DEF BmffFields

\* The init fragments that were kept are pushed with the base of the period.
LEMMA PushesKept ==
    ASSUME TypeOK, BMFF, NEW t \in Tracks, PushInitSegment(t), AllKept(t),
           processor[t].basePTS = period, next[t] \in 1 .. Len(Fragments(t))
    PROVE  /\ processor[t].initSegment = <<>> <=> next[t] = 1
           /\ processor[t].initSegment = <<>> => Whole(sink'[t], period, Fragments(t), 1)
           /\ processor[t].initSegment # <<>> =>
                Whole(sink'[t], period, Fragments(t), next[t] - 1)
<1>. DEFINE kept == processor[t].initSegment
            k == IF kept = <<>> THEN 1 ELSE next[t] - 1
<1>1. /\ Len(Fragments(t)) \in Nat /\ period \in Nat
      /\ \A f \in 1 .. Len(Fragments(t)) : Fragments(t)[f] # "bad"
  BY Formats
<1>2. next[t] \in Nat /\ 1 <= next[t] /\ next[t] <= Len(Fragments(t)) /\ next[t] - 1 \in Nat
  BY <1>1
<1>3. kept = [f \in 1 .. (next[t] - 1) |-> f]
  BY DEF AllKept
<1>4. kept \in Seq(Nat) /\ Len(kept) = next[t] - 1
  BY <1>2, <1>3
<1>5. kept = <<>> <=> next[t] = 1
  BY <1>2, <1>4
<1>6. k \in Nat /\ k <= Len(Fragments(t))
  BY <1>1, <1>2
<1>7. PICK inits \in Seq(Nat), r \in Seq(Items) :
        /\ inits = IF processor[t].initSegment = <<>> THEN <<next[t]>>
                   ELSE processor[t].initSegment
        /\ Len(r) = Len(inits)
        /\ \A j \in 1 .. Len(inits) :
             r[j] = [period |-> period, frag |-> inits[j], base |-> processor[t].basePTS]
        /\ \A j \in 1 .. Len(r) : r[j].period = period
        /\ sink' = [sink EXCEPT ![t] = sink[t] \o r]
        /\ processor' = [processor EXCEPT ![t].initSegment = <<>>,
                                          ![t].initSegmentProcessComplete = TRUE]
  BY Pushes
<1>8. Len(inits) = k /\ \A j \in 1 .. k : inits[j] = j
  <2>1. CASE kept = <<>>
    BY <1>5, <1>7, <2>1
  <2>2. CASE kept # <<>>
    <3>1. inits = [f \in 1 .. (next[t] - 1) |-> f] /\ Len(inits) = next[t] - 1 /\ k = next[t] - 1
      BY <1>3, <1>4, <1>7, <2>2
    <3>. QED  BY <3>1
  <2>. QED  BY <2>1, <2>2
<1>9. sink[t] \in Seq(Items) /\ sink'[t] = sink[t] \o r
  BY <1>7 DEF TypeOK
<1>10. \A i \in DOMAIN sink[t] : sink[t][i].period # period
  BY DEF AllKept
<1>. HIDE DEF k, kept
<1>11. Len(r) = k /\ \A j \in 1 .. k : r[j] = [period |-> period, frag |-> j, base |-> period]
  BY <1>7, <1>8
<1>12. \A f \in 1 .. k : Fragments(t)[f] # "bad"
  BY <1>1, <1>6
<1>13. Whole(sink[t] \o r, period, Fragments(t), k)
  BY <1>1, <1>6, <1>9, <1>10, <1>11, <1>12, WholePushes
<1>. QED  BY <1>5, <1>9, <1>13 DEF k, kept

-----------------------------------------------------------------------------
(* Types *)

\* The places of the injectors are places, ...
LEMMA PcStep ==
    ASSUME TypeOK, Next
    PROVE  injectPc' \in [Tracks -> InjectPcs]
<1>. USE DEF TypeOK, InjectPcs
<1>1. ASSUME NEW t \in Tracks, InjectLoop(t) PROVE injectPc' \in [Tracks -> InjectPcs]
  BY <1>1 DEF InjectLoop, player, At, Goto
<1>2. ASSUME NEW t \in Tracks, TSBegin(t) PROVE injectPc' \in [Tracks -> InjectPcs]
  <2>1. \E c \in {"end", "base", "demux", "loop"} : injectPc' = [injectPc EXCEPT ![t] = c]
    BY <1>2 DEF TSBegin, Goto, Return
  <2>. QED  BY <2>1
<1>3. ASSUME NEW t \in Tracks, TSDemux(t) PROVE injectPc' \in [Tracks -> InjectPcs]
  BY <1>3 DEF TSDemux, player, Signal, At, Goto
<1>4. ASSUME NEW t \in Tracks, TSSend(t) PROVE injectPc' \in [Tracks -> InjectPcs]
  BY <1>4 DEF TSSend, player, At, Goto
<1>5. ASSUME NEW t \in Tracks, TSEnd(t) PROVE injectPc' \in [Tracks -> InjectPcs]
  BY <1>5 DEF TSEnd, player, At, Return, Goto
<1>6. ASSUME NEW t \in Tracks, BmffBegin(t) PROVE injectPc' \in [Tracks -> InjectPcs]
  <2>1. \/ injectPc' = injectPc
        \/ \E c \in {"ready", "push", "loop", "base", "found"} :
             injectPc' = [injectPc EXCEPT ![t] = c]
    BY <1>6 DEF BmffBegin, Goto, Return
  <2>. QED  BY <2>1
<1>7. ASSUME NEW t \in Tracks, BmffSend(t) PROVE injectPc' \in [Tracks -> InjectPcs]
  BY <1>7 DEF BmffSend, player, At, Return, Goto
<1>8. ASSUME TSWaitForBase PROVE injectPc' \in [Tracks -> InjectPcs]
  BY <1>8 DEF TSWaitForBase, player, At, Goto
<1>9. ASSUME TSWoken PROVE injectPc' \in [Tracks -> InjectPcs]
  BY <1>9 DEF TSWoken, player, At, Goto
<1>10. ASSUME BmffWaitForBase PROVE injectPc' \in [Tracks -> InjectPcs]
  BY <1>10 DEF BmffWaitForBase, player, At, Goto
<1>11. ASSUME BmffWoken PROVE injectPc' \in [Tracks -> InjectPcs]
  BY <1>11 DEF BmffWoken, player, At, Goto, Return
<1>12. ASSUME BmffReady PROVE injectPc' \in [Tracks -> InjectPcs]
  <2>1. \E c \in {"push", "loop"} : injectPc' = [injectPc EXCEPT !["audio"] = c]
    BY <1>12 DEF BmffReady, Goto, Return
  <2>. QED  BY <2>1 DEF Tracks
<1>13. ASSUME BmffFound PROVE injectPc' \in [Tracks -> InjectPcs]
  BY <1>13 DEF BmffFound, player, At, Goto, Return
<1>14. ASSUME BmffFlush PROVE injectPc' \in [Tracks -> InjectPcs]
  BY <1>14 DEF BmffFlush, player, At, Goto
<1>15. ASSUME BmffTellPeer PROVE injectPc' \in [Tracks -> InjectPcs]
  BY <1>15 DEF BmffTellPeer, player, Signal, At
<1>16. ASSUME BmffInit PROVE injectPc' \in [Tracks -> InjectPcs]
  BY <1>16 DEF BmffInit, player, At, Goto
<1>17. ASSUME StartInjection PROVE injectPc' \in [Tracks -> InjectPcs]
  BY <1>17 DEF StartInjection, Goto
<1>18. ASSUME ProcessPendingDiscontinuity PROVE injectPc' \in [Tracks -> InjectPcs]
  BY <1>18 DEF ProcessPendingDiscontinuity, injector, At
<1>19. ASSUME AbortWaitForCachedFragment PROVE injectPc' \in [Tracks -> InjectPcs]
  BY <1>19 DEF AbortWaitForCachedFragment
<1>20. ASSUME AbortProcessor PROVE injectPc' \in [Tracks -> InjectPcs]
  BY <1>20 DEF AbortProcessor, Signal, Goto
<1>21. ASSUME AwaitProcessing PROVE injectPc' \in [Tracks -> InjectPcs]
  BY <1>21 DEF AwaitProcessing, injector
<1>22. ASSUME StopInjectLoop PROVE injectPc' \in [Tracks -> InjectPcs]
  BY <1>22 DEF StopInjectLoop, At, Goto
<1>23. ASSUME FlushSink PROVE injectPc' \in [Tracks -> InjectPcs]
  BY <1>23 DEF FlushSink
<1>24. ASSUME Stop PROVE injectPc' \in [Tracks -> InjectPcs]
  BY <1>24 DEF Stop, injector
<1>. QED  BY <1>1, <1>2, <1>3, <1>4, <1>5, <1>6, <1>7, <1>8, <1>9, <1>10, <1>11,
      <1>12, <1>13, <1>14, <1>15, <1>16, <1>17, <1>18, <1>19, <1>20, <1>21,
      <1>22, <1>23, <1>24
          DEF Next, PlayerStep, Injector, Tracks

\* ... the fragments they are at are numbers, ...
LEMMA NextStep ==
    ASSUME TypeOK, Next
    PROVE  next' \in [Tracks -> Nat]
<1>. USE DEF TypeOK
<1>1. ASSUME NEW t \in Tracks, InjectLoop(t) PROVE next' \in [Tracks -> Nat]
  BY <1>1 DEF InjectLoop, player, Goto
<1>2. ASSUME NEW t \in Tracks, TSBegin(t) PROVE next' \in [Tracks -> Nat]
  <2>1. UNCHANGED next \/ Return(t)
    BY <1>2 DEF TSBegin
  <2>2. ASSUME Return(t) PROVE next' \in [Tracks -> Nat]
    BY <2>2 DEF Return
  <2>. QED  BY <2>1, <2>2
<1>3. ASSUME NEW t \in Tracks, TSDemux(t) PROVE next' \in [Tracks -> Nat]
  BY <1>3 DEF TSDemux, player, Goto
<1>4. ASSUME NEW t \in Tracks, TSSend(t) PROVE next' \in [Tracks -> Nat]
  BY <1>4 DEF TSSend, player, Goto
<1>5. ASSUME NEW t \in Tracks, TSEnd(t) PROVE next' \in [Tracks -> Nat]
  BY <1>5 DEF TSEnd, player, Return, Goto
<1>6. ASSUME NEW t \in Tracks, BmffBegin(t) PROVE next' \in [Tracks -> Nat]
  BY <1>6 DEF BmffBegin, player, Goto, Return
<1>7. ASSUME NEW t \in Tracks, BmffSend(t) PROVE next' \in [Tracks -> Nat]
  BY <1>7 DEF BmffSend, player, Return, Goto
<1>8. ASSUME TSWaitForBase PROVE next' \in [Tracks -> Nat]
  BY <1>8 DEF TSWaitForBase, player, Goto
<1>9. ASSUME TSWoken PROVE next' \in [Tracks -> Nat]
  BY <1>9 DEF TSWoken, player, Goto
<1>10. ASSUME BmffWaitForBase PROVE next' \in [Tracks -> Nat]
  BY <1>10 DEF BmffWaitForBase, player, Goto
<1>11. ASSUME BmffWoken PROVE next' \in [Tracks -> Nat]
  BY <1>11 DEF BmffWoken, Goto, Return, Aborted, TS
<1>12. ASSUME BmffReady PROVE next' \in [Tracks -> Nat]
  BY <1>12 DEF BmffReady, player, Goto, Return
<1>13. ASSUME BmffFound PROVE next' \in [Tracks -> Nat]
  BY <1>13 DEF BmffFound, Goto, Return, Aborted, TS
<1>14. ASSUME BmffFlush PROVE next' \in [Tracks -> Nat]
  BY <1>14 DEF BmffFlush, player, Goto
<1>15. ASSUME BmffTellPeer PROVE next' \in [Tracks -> Nat]
  BY <1>15 DEF BmffTellPeer, player
<1>16. ASSUME BmffInit PROVE next' \in [Tracks -> Nat]
  BY <1>16 DEF BmffInit, player, Goto
<1>17. ASSUME StartInjection PROVE next' \in [Tracks -> Nat]
  BY <1>17 DEF StartInjection, Goto
<1>18. ASSUME ProcessPendingDiscontinuity PROVE next' \in [Tracks -> Nat]
  BY <1>18 DEF ProcessPendingDiscontinuity, injector
<1>19. ASSUME AbortWaitForCachedFragment PROVE next' \in [Tracks -> Nat]
  BY <1>19 DEF AbortWaitForCachedFragment
<1>20. ASSUME AbortProcessor PROVE next' \in [Tracks -> Nat]
  BY <1>20 DEF AbortProcessor, Goto
<1>21. ASSUME AwaitProcessing PROVE next' \in [Tracks -> Nat]
  BY <1>21 DEF AwaitProcessing, injector
<1>22. ASSUME StopInjectLoop PROVE next' \in [Tracks -> Nat]
  BY <1>22 DEF StopInjectLoop, Goto
<1>23. ASSUME FlushSink PROVE next' \in [Tracks -> Nat]
  BY <1>23 DEF FlushSink
<1>24. ASSUME Stop PROVE next' \in [Tracks -> Nat]
  BY <1>24 DEF Stop, injector
<1>. QED  BY <1>1, <1>2, <1>3, <1>4, <1>5, <1>6, <1>7, <1>8, <1>9, <1>10, <1>11,
      <1>12, <1>13, <1>14, <1>15, <1>16, <1>17, <1>18, <1>19, <1>20, <1>21,
      <1>22, <1>23, <1>24
          DEF Next, PlayerStep, Injector, Tracks

\* ... the player is where it can be, with a period behind each discontinuity, ...
LEMMA PlayerTypeStep ==
    ASSUME TypeOK, CtlInv, Next
    PROVE  /\ ctl' \in Ctls /\ ctlTrack' \in Tracks /\ stopping' \in BOOLEAN
           /\ period' \in 1 .. Len(stream.periods)
<1>1. /\ ctl \in Ctls /\ ctlTrack \in Tracks /\ stopping \in BOOLEAN
      /\ period \in 1 .. Len(stream.periods) /\ Len(stream.periods) \in Nat
  BY Formats DEF TypeOK
<1>2. ASSUME NEW t \in Tracks, Injector(t) PROVE UNCHANGED player
  BY <1>2 DEF Injector, player, InjectLoop, TSBegin, TSDemux, TSSend, TSEnd, BmffBegin,
      BmffSend, TSWaitForBase, TSWoken, BmffWaitForBase, BmffWoken, BmffReady, BmffFound,
      BmffFlush, BmffTellPeer, BmffInit
<1>3. CASE \E t \in Tracks : Injector(t)
  BY <1>1, <1>2, <1>3 DEF player
<1>4. CASE FlushSink
  BY <1>1, <1>4 DEF CtlInv, FlushSink, Control, Ctls, Tracks
<1>5. CASE (PlayerStep /\ ~FlushSink) \/ Stop
  <2>1. period' = period
    BY <1>5 DEF PlayerStep, StartInjection, ProcessPendingDiscontinuity,
        AbortWaitForCachedFragment, AbortProcessor, AwaitProcessing, StopInjectLoop, Stop
  <2>2. stopping' \in BOOLEAN
    BY <1>1, <1>5 DEF PlayerStep, StartInjection, ProcessPendingDiscontinuity,
        AbortWaitForCachedFragment, AbortProcessor, AwaitProcessing, StopInjectLoop, Stop
  <2>3. \E c \in Ctls, t \in Tracks : Control(c, t)
    BY <1>1, <1>5 DEF PlayerStep, StartInjection, ProcessPendingDiscontinuity,
        AbortWaitForCachedFragment, AbortProcessor, AwaitProcessing, StopInjectLoop, Stop,
        Ctls, Tracks
  <2>. QED  BY <1>1, <2>1, <2>2, <2>3 DEF Control
<1>. QED  BY <1>3, <1>4, <1>5 DEF Next, PlayerStep

\* ... the flags are flags, ...
LEMMA AbortTypeStep ==
    ASSUME TypeOK, Next
    PROVE  abortInject' \in [Tracks -> BOOLEAN] /\ wiped' \in BOOLEAN
<1>. USE DEF TypeOK
<1>1. ASSUME NEW t \in Tracks, InjectLoop(t)
     PROVE  abortInject' \in [Tracks -> BOOLEAN] /\ wiped' \in BOOLEAN
  BY <1>1 DEF InjectLoop, player, At
<1>2. ASSUME NEW t \in Tracks, TSBegin(t)
     PROVE  abortInject' \in [Tracks -> BOOLEAN] /\ wiped' \in BOOLEAN
  BY <1>2 DEF TSBegin, player, At, Return
<1>3. ASSUME NEW t \in Tracks, TSDemux(t)
     PROVE  abortInject' \in [Tracks -> BOOLEAN] /\ wiped' \in BOOLEAN
  BY <1>3 DEF TSDemux, player, At
<1>4. ASSUME NEW t \in Tracks, TSSend(t)
     PROVE  abortInject' \in [Tracks -> BOOLEAN] /\ wiped' \in BOOLEAN
  BY <1>4 DEF TSSend, player, At
<1>5. ASSUME NEW t \in Tracks, TSEnd(t)
     PROVE  abortInject' \in [Tracks -> BOOLEAN] /\ wiped' \in BOOLEAN
  BY <1>5 DEF TSEnd, player, At, Return
<1>6. ASSUME NEW t \in Tracks, BmffBegin(t)
     PROVE  abortInject' \in [Tracks -> BOOLEAN] /\ wiped' \in BOOLEAN
  BY <1>6 DEF BmffBegin, player, At, Return
<1>7. ASSUME NEW t \in Tracks, BmffSend(t)
     PROVE  abortInject' \in [Tracks -> BOOLEAN] /\ wiped' \in BOOLEAN
  BY <1>7 DEF BmffSend, player, At, Return
<1>8. ASSUME TSWaitForBase PROVE abortInject' \in [Tracks -> BOOLEAN] /\ wiped' \in BOOLEAN
  BY <1>8 DEF TSWaitForBase, player, At
<1>9. ASSUME TSWoken PROVE abortInject' \in [Tracks -> BOOLEAN] /\ wiped' \in BOOLEAN
  BY <1>9 DEF TSWoken, player, At
<1>10. ASSUME BmffWaitForBase
     PROVE  abortInject' \in [Tracks -> BOOLEAN] /\ wiped' \in BOOLEAN
  BY <1>10 DEF BmffWaitForBase, player, At
<1>11. ASSUME BmffWoken PROVE abortInject' \in [Tracks -> BOOLEAN] /\ wiped' \in BOOLEAN
  BY <1>11 DEF BmffWoken, player, At, Return
<1>12. ASSUME BmffReady PROVE abortInject' \in [Tracks -> BOOLEAN] /\ wiped' \in BOOLEAN
  BY <1>12 DEF BmffReady, player, At, Return
<1>13. ASSUME BmffFound PROVE abortInject' \in [Tracks -> BOOLEAN] /\ wiped' \in BOOLEAN
  BY <1>13 DEF BmffFound, player, At, Return
<1>14. ASSUME BmffFlush PROVE abortInject' \in [Tracks -> BOOLEAN] /\ wiped' \in BOOLEAN
  BY <1>14 DEF BmffFlush, player, At
<1>15. ASSUME BmffTellPeer PROVE abortInject' \in [Tracks -> BOOLEAN] /\ wiped' \in BOOLEAN
  BY <1>15 DEF BmffTellPeer, player, At
<1>16. ASSUME BmffInit PROVE abortInject' \in [Tracks -> BOOLEAN] /\ wiped' \in BOOLEAN
  BY <1>16 DEF BmffInit, player, At
<1>17. ASSUME StartInjection
     PROVE  abortInject' \in [Tracks -> BOOLEAN] /\ wiped' \in BOOLEAN
  BY <1>17 DEF StartInjection
<1>18. ASSUME ProcessPendingDiscontinuity
     PROVE  abortInject' \in [Tracks -> BOOLEAN] /\ wiped' \in BOOLEAN
  BY <1>18 DEF ProcessPendingDiscontinuity, injector, At
<1>19. ASSUME AbortWaitForCachedFragment
     PROVE  abortInject' \in [Tracks -> BOOLEAN] /\ wiped' \in BOOLEAN
  BY <1>19 DEF AbortWaitForCachedFragment
<1>20. ASSUME AbortProcessor
     PROVE  abortInject' \in [Tracks -> BOOLEAN] /\ wiped' \in BOOLEAN
  BY <1>20 DEF AbortProcessor
<1>21. ASSUME AwaitProcessing
     PROVE  abortInject' \in [Tracks -> BOOLEAN] /\ wiped' \in BOOLEAN
  BY <1>21 DEF AwaitProcessing, injector
<1>22. ASSUME StopInjectLoop
     PROVE  abortInject' \in [Tracks -> BOOLEAN] /\ wiped' \in BOOLEAN
  BY <1>22 DEF StopInjectLoop, At
<1>23. ASSUME FlushSink PROVE abortInject' \in [Tracks -> BOOLEAN] /\ wiped' \in BOOLEAN
  BY <1>23 DEF FlushSink
<1>24. ASSUME Stop PROVE abortInject' \in [Tracks -> BOOLEAN] /\ wiped' \in BOOLEAN
  BY <1>24 DEF Stop, injector
<1>. QED  BY <1>1, <1>2, <1>3, <1>4, <1>5, <1>6, <1>7, <1>8, <1>9, <1>10, <1>11,
      <1>12, <1>13, <1>14, <1>15, <1>16, <1>17, <1>18, <1>19, <1>20, <1>21,
      <1>22, <1>23, <1>24
          DEF Next, PlayerStep, Injector, Tracks

\* ... the processors of a transport stream stay that, ...
LEMMA TSTypeStep ==
    ASSUME TypeOK, TS, Next
    PROVE  processor' \in [Tracks -> TSFields]
<1>. USE DEF TypeOK
<1>1. ASSUME NEW t \in Tracks, InjectLoop(t) PROVE processor' \in [Tracks -> TSFields]
  BY <1>1, Formats DEF InjectLoop, player, At
<1>2. ASSUME NEW t \in Tracks, TSBegin(t) PROVE processor' \in [Tracks -> TSFields]
  <2>1. \/ processor' = processor
        \/ processor' = [processor EXCEPT ![t] = [processor[t] EXCEPT !.m_processing = TRUE]]
    BY <1>2 DEF TSBegin
  <2>2. processor \in [Tracks -> TSFields] /\ [processor[t] EXCEPT !.m_processing = TRUE] \in TSFields
    BY TSUpdates DEF TS
  <2>. QED  BY <2>1, <2>2
<1>3. ASSUME NEW t \in Tracks, TSDemux(t) PROVE processor' \in [Tracks -> TSFields]
  <2>1. period \in Nat /\ processor \in [Tracks -> TSFields]
    BY Formats DEF TS
  <2>2. SetBasePTS(processor["audio"], period) \in TSFields
    BY <2>1, SetsBaseTS DEF Tracks
  <2>3. [processor["video"] EXCEPT !.m_demuxInitialized = TRUE, !.base_pts = period] \in TSFields
    BY <2>1, TSUpdates DEF Tracks
  <2>4. [processor[t] EXCEPT !.m_demuxInitialized = TRUE] \in TSFields
    BY <2>1, TSUpdates
  <2>5. \/ processor' = [processor EXCEPT ![t] = [processor[t] EXCEPT !.m_demuxInitialized = TRUE]]
        \/ processor' = [processor EXCEPT
              !["video"] = [processor["video"] EXCEPT !.m_demuxInitialized = TRUE, !.base_pts = period],
              !["audio"] = SetBasePTS(processor["audio"], period)]
    BY <1>3, <2>1, DemuxTellsPeer
  <2>. QED  BY <2>1, <2>2, <2>3, <2>4, <2>5
<1>4. ASSUME NEW t \in Tracks, TSSend(t) PROVE processor' \in [Tracks -> TSFields]
  BY <1>4, Formats DEF TSSend, player, TS, Item, At
<1>5. ASSUME NEW t \in Tracks, TSEnd(t) PROVE processor' \in [Tracks -> TSFields]
  BY <1>5, Formats, TSUpdates DEF TSEnd, player, TS, At
<1>6. ASSUME NEW t \in Tracks, BmffBegin(t) PROVE processor' \in [Tracks -> TSFields]
  BY <1>6, Formats DEF BmffBegin, player, At
<1>7. ASSUME NEW t \in Tracks, BmffSend(t) PROVE processor' \in [Tracks -> TSFields]
  BY <1>7, Formats DEF BmffSend, player, Item, At
<1>8. ASSUME TSWaitForBase PROVE processor' \in [Tracks -> TSFields]
  BY <1>8, Formats DEF TSWaitForBase, player, TS, AwaitsBase, Aborted, At
<1>9. ASSUME TSWoken PROVE processor' \in [Tracks -> TSFields]
  BY <1>9, Formats DEF TSWoken, player, TS, Aborted, At
<1>10. ASSUME BmffWaitForBase PROVE processor' \in [Tracks -> TSFields]
  BY <1>10, Formats DEF BmffWaitForBase, player, AwaitsBase, At, TS
<1>11. ASSUME BmffWoken PROVE processor' \in [Tracks -> TSFields]
  BY <1>11, Formats DEF BmffWoken, player, Aborted, At, TS
<1>12. ASSUME BmffReady PROVE processor' \in [Tracks -> TSFields]
  BY <1>12, Formats DEF BmffReady, player, At, PushInitSegment, Item
<1>13. ASSUME BmffFound PROVE processor' \in [Tracks -> TSFields]
  BY <1>13, Formats DEF BmffFound, player, Aborted, At, TS
<1>14. ASSUME BmffFlush PROVE processor' \in [Tracks -> TSFields]
  BY <1>14, Formats DEF BmffFlush, player, At
<1>15. ASSUME BmffTellPeer PROVE processor' \in [Tracks -> TSFields]
  BY <1>15, Formats DEF BmffTellPeer, player, SetBasePTS, Signal, At, TS
<1>16. ASSUME BmffInit PROVE processor' \in [Tracks -> TSFields]
  BY <1>16, Formats DEF BmffInit, player, At, PushInitSegment, Item
<1>17. ASSUME StartInjection PROVE processor' \in [Tracks -> TSFields]
  <2>1. processor' = [processor EXCEPT ![ctlTrack] = TSReset(processor[ctlTrack])]
    BY <1>17 DEF StartInjection, Reset
  <2>2. \A p \in TSFields : TSReset(p) \in TSFields
    BY DEF TSReset, TSFields
  <2>. QED  BY <2>1, <2>2
<1>18. ASSUME ProcessPendingDiscontinuity PROVE processor' \in [Tracks -> TSFields]
  BY <1>18, Formats DEF ProcessPendingDiscontinuity, injector, At, Control
<1>19. ASSUME AbortWaitForCachedFragment PROVE processor' \in [Tracks -> TSFields]
  BY <1>19, Formats DEF AbortWaitForCachedFragment, Control
<1>20. ASSUME AbortProcessor PROVE processor' \in [Tracks -> TSFields]
  BY <1>20, Formats, TSUpdates DEF AbortProcessor, TS, Signal, Control
<1>21. ASSUME AwaitProcessing PROVE processor' \in [Tracks -> TSFields]
  BY <1>21, Formats DEF AwaitProcessing, injector, Control
<1>22. ASSUME StopInjectLoop PROVE processor' \in [Tracks -> TSFields]
  BY <1>22, Formats DEF StopInjectLoop, At, Control
<1>23. ASSUME FlushSink PROVE processor' \in [Tracks -> TSFields]
  BY <1>23, Formats DEF FlushSink, TS, Control
<1>24. ASSUME Stop PROVE processor' \in [Tracks -> TSFields]
  BY <1>24, Formats DEF Stop, injector, Control
<1>. QED  BY <1>1, <1>2, <1>3, <1>4, <1>5, <1>6, <1>7, <1>8, <1>9, <1>10, <1>11,
      <1>12, <1>13, <1>14, <1>15, <1>16, <1>17, <1>18, <1>19, <1>20, <1>21,
      <1>22, <1>23, <1>24
          DEF Next, PlayerStep, Injector, Tracks

\* ... and those of fragmented MP4, ...
LEMMA BmffTypeStep ==
    ASSUME TypeOK, BMFF, Next
    PROVE  processor' \in [Tracks -> BmffFields]
<1>. USE DEF TypeOK
<1>1. ASSUME NEW t \in Tracks, InjectLoop(t) PROVE processor' \in [Tracks -> BmffFields]
  BY <1>1, Formats DEF InjectLoop, player, At
<1>2. ASSUME NEW t \in Tracks, TSBegin(t) PROVE processor' \in [Tracks -> BmffFields]
  BY <1>2, Formats DEF TSBegin, player, At
<1>3. ASSUME NEW t \in Tracks, TSDemux(t) PROVE processor' \in [Tracks -> BmffFields]
  BY <1>3, Formats DEF TSDemux, player, SetBasePTS, Signal, At
<1>4. ASSUME NEW t \in Tracks, TSSend(t) PROVE processor' \in [Tracks -> BmffFields]
  BY <1>4, Formats DEF TSSend, player, Item, At
<1>5. ASSUME NEW t \in Tracks, TSEnd(t) PROVE processor' \in [Tracks -> BmffFields]
  BY <1>5, Formats DEF TSEnd, player, At
<1>6. ASSUME NEW t \in Tracks, BmffBegin(t) PROVE processor' \in [Tracks -> BmffFields]
  <2>1. \/ processor' = processor
        \/ processor' = [processor EXCEPT ![t] = [processor[t] EXCEPT !.initSegment = Append(@, next[t])]]
        \/ processor' = [processor EXCEPT
              ![t] = [processor[t] EXCEPT !.basePTS = period, !.processPTSComplete = TRUE]]
    BY <1>6 DEF BmffBegin
  <2>2. period \in Nat /\ Append(processor[t].initSegment, next[t]) \in Seq(Nat)
    BY Formats DEF BmffFields
  <2>3. processor \in [Tracks -> BmffFields] /\ processor[t] \in BmffFields
    BY DEF BMFF
  <2>4. /\ [processor[t] EXCEPT !.initSegment = Append(@, next[t])] \in BmffFields
        /\ [processor[t] EXCEPT !.basePTS = period, !.processPTSComplete = TRUE] \in BmffFields
    BY <2>2, <2>3, BmffUpdates
  <2>. QED  BY <2>1, <2>3, <2>4
<1>7. ASSUME NEW t \in Tracks, BmffSend(t) PROVE processor' \in [Tracks -> BmffFields]
  BY <1>7, Formats DEF BmffSend, player, Item, At
<1>8. ASSUME TSWaitForBase PROVE processor' \in [Tracks -> BmffFields]
  BY <1>8, Formats DEF TSWaitForBase, player, Aborted, At
<1>9. ASSUME TSWoken PROVE processor' \in [Tracks -> BmffFields]
  BY <1>9, Formats DEF TSWoken, player, Aborted, At
<1>10. ASSUME BmffWaitForBase PROVE processor' \in [Tracks -> BmffFields]
  BY <1>10, Formats DEF BmffWaitForBase, player, At
<1>11. ASSUME BmffWoken PROVE processor' \in [Tracks -> BmffFields]
  BY <1>11, Formats DEF BmffWoken, player, Aborted, At
<1>12. ASSUME BmffReady PROVE processor' \in [Tracks -> BmffFields]
  <2>1. processor' = processor \/ processor' = [processor EXCEPT
            !["audio"] = [processor["audio"] EXCEPT !.initSegment = <<>>,
                                              !.initSegmentProcessComplete = TRUE]]
    BY <1>12 DEF BmffReady, PushInitSegment
  <2>2. processor \in [Tracks -> BmffFields] /\ processor["audio"] \in BmffFields
    BY DEF BMFF, Tracks
  <2>3. [processor["audio"] EXCEPT !.initSegment = <<>>, !.initSegmentProcessComplete = TRUE] \in BmffFields
    BY <2>2, BmffUpdates
  <2>. QED  BY <2>1, <2>2, <2>3
<1>13. ASSUME BmffFound PROVE processor' \in [Tracks -> BmffFields]
  BY <1>13, Formats DEF BmffFound, player, Aborted, At
<1>14. ASSUME BmffFlush PROVE processor' \in [Tracks -> BmffFields]
  BY <1>14, Formats DEF BmffFlush, player, At
<1>15. ASSUME BmffTellPeer PROVE processor' \in [Tracks -> BmffFields]
  <2>1. SetBasePTS(processor["audio"], processor["video"].basePTS) \in BmffFields
    BY SetsBaseBmff, Formats DEF Tracks, BmffFields
  <2>2. processor' = [processor EXCEPT !["audio"] =
                        SetBasePTS(processor["audio"], processor["video"].basePTS)]
    BY <1>15 DEF BmffTellPeer, Tracks
  <2>. QED  BY <2>1, <2>2
<1>16. ASSUME BmffInit PROVE processor' \in [Tracks -> BmffFields]
  <2>1. processor' = [processor EXCEPT
            !["video"] = [processor["video"] EXCEPT !.initSegment = <<>>,
                                              !.initSegmentProcessComplete = TRUE]]
    BY <1>16 DEF BmffInit, PushInitSegment
  <2>2. processor \in [Tracks -> BmffFields] /\ processor["video"] \in BmffFields
    BY DEF BMFF, Tracks
  <2>3. [processor["video"] EXCEPT !.initSegment = <<>>, !.initSegmentProcessComplete = TRUE] \in BmffFields
    BY <2>2, BmffUpdates
  <2>. QED  BY <2>1, <2>2, <2>3
<1>17. ASSUME StartInjection PROVE processor' \in [Tracks -> BmffFields]
  <2>1. processor' = [processor EXCEPT ![ctlTrack] = BmffReset]
    BY <1>17, Formats DEF StartInjection, Reset
  <2>2. BmffReset \in BmffFields
    BY Formats DEF BmffReset, Constructed, BmffFields
  <2>. QED  BY <2>1, <2>2
<1>18. ASSUME ProcessPendingDiscontinuity PROVE processor' \in [Tracks -> BmffFields]
  BY <1>18, Formats DEF ProcessPendingDiscontinuity, injector, At, Control
<1>19. ASSUME AbortWaitForCachedFragment PROVE processor' \in [Tracks -> BmffFields]
  BY <1>19, Formats DEF AbortWaitForCachedFragment, Control
<1>20. ASSUME AbortProcessor PROVE processor' \in [Tracks -> BmffFields]
  <2>1. processor' = [processor EXCEPT ![ctlTrack] = [processor[ctlTrack] EXCEPT !.abortAll = TRUE]]
    BY <1>20, Formats DEF AbortProcessor
  <2>2. processor \in [Tracks -> BmffFields] /\ processor[ctlTrack] \in BmffFields
    BY DEF BMFF
  <2>3. [processor[ctlTrack] EXCEPT !.abortAll = TRUE] \in BmffFields
    BY <2>2, BmffUpdates
  <2>. QED  BY <2>1, <2>2, <2>3
<1>21. ASSUME AwaitProcessing PROVE processor' \in [Tracks -> BmffFields]
  BY <1>21, Formats DEF AwaitProcessing, injector, Control
<1>22. ASSUME StopInjectLoop PROVE processor' \in [Tracks -> BmffFields]
  BY <1>22, Formats DEF StopInjectLoop, At, Control
<1>23. ASSUME FlushSink PROVE processor' \in [Tracks -> BmffFields]
  BY <1>23, Formats DEF FlushSink, Control
<1>24. ASSUME Stop PROVE processor' \in [Tracks -> BmffFields]
  BY <1>24, Formats DEF Stop, injector, Control
<1>. QED  BY <1>1, <1>2, <1>3, <1>4, <1>5, <1>6, <1>7, <1>8, <1>9, <1>10, <1>11,
      <1>12, <1>13, <1>14, <1>15, <1>16, <1>17, <1>18, <1>19, <1>20, <1>21,
      <1>22, <1>23, <1>24
          DEF Next, PlayerStep, Injector, Tracks

\* ... and the sink is given items.
LEMMA SinkTypeStep ==
    ASSUME TypeOK, Next
    PROVE  sink' \in [Tracks -> Seq(Items)]
<1>. USE DEF TypeOK
<1>1. ASSUME NEW t \in Tracks, InjectLoop(t) PROVE sink' \in [Tracks -> Seq(Items)]
  BY <1>1, Formats DEF InjectLoop, player, At, Goto
<1>2. ASSUME NEW t \in Tracks, TSBegin(t) PROVE sink' \in [Tracks -> Seq(Items)]
  BY <1>2, Formats DEF TSBegin, player, At, Goto, Return
<1>3. ASSUME NEW t \in Tracks, TSDemux(t) PROVE sink' \in [Tracks -> Seq(Items)]
  BY <1>3, Formats DEF TSDemux, player, SetBasePTS, Signal, At, Goto
<1>4. ASSUME NEW t \in Tracks, TSSend(t) PROVE sink' \in [Tracks -> Seq(Items)]
  <2>1. Item(next[t], processor[t].base_pts) \in Items
    BY <1>4, ItemTypes, Formats DEF TSSend, TSFields, Tracks
  <2>2. sink' = [sink EXCEPT ![t] = Append(@, Item(next[t], processor[t].base_pts))]
    BY <1>4 DEF TSSend
  <2>. QED  BY <2>1, <2>2
<1>5. ASSUME NEW t \in Tracks, TSEnd(t) PROVE sink' \in [Tracks -> Seq(Items)]
  BY <1>5, Formats DEF TSEnd, player, At, Return, Goto
<1>6. ASSUME NEW t \in Tracks, BmffBegin(t) PROVE sink' \in [Tracks -> Seq(Items)]
  BY <1>6, Formats DEF BmffBegin, player, At, Goto, Return
<1>7. ASSUME NEW t \in Tracks, BmffSend(t) PROVE sink' \in [Tracks -> Seq(Items)]
  <2>1. Item(next[t], period) \in Items
    BY ItemTypes, Formats DEF TSFields, Tracks
  <2>2. sink' = [sink EXCEPT ![t] = Append(@, Item(next[t], period))]
    BY <1>7 DEF BmffSend
  <2>. QED  BY <2>1, <2>2
<1>8. ASSUME TSWaitForBase PROVE sink' \in [Tracks -> Seq(Items)]
  BY <1>8, Formats DEF TSWaitForBase, player, AwaitsBase, Aborted, At, Goto
<1>9. ASSUME TSWoken PROVE sink' \in [Tracks -> Seq(Items)]
  BY <1>9, Formats DEF TSWoken, player, Aborted, At, Goto
<1>10. ASSUME BmffWaitForBase PROVE sink' \in [Tracks -> Seq(Items)]
  BY <1>10, Formats DEF BmffWaitForBase, player, AwaitsBase, At, Goto
<1>11. ASSUME BmffWoken PROVE sink' \in [Tracks -> Seq(Items)]
  BY <1>11, Formats DEF BmffWoken, player, Aborted, At, Goto, Return
<1>12. ASSUME BmffReady PROVE sink' \in [Tracks -> Seq(Items)]
  <2>1. CASE PushInitSegment("audio")
    <3>1. \E r \in Seq(Items) : sink' = [sink EXCEPT !["audio"] = sink["audio"] \o r]
      BY <1>12, <2>1, Pushes DEF BmffReady, Tracks
    <3>. QED  BY <3>1, Concats DEF Tracks
  <2>2. CASE UNCHANGED sink
    BY <2>2
  <2>. QED  BY <1>12, <2>1, <2>2 DEF BmffReady
<1>13. ASSUME BmffFound PROVE sink' \in [Tracks -> Seq(Items)]
  BY <1>13, Formats DEF BmffFound, player, Aborted, At, Goto, Return
<1>14. ASSUME BmffFlush PROVE sink' \in [Tracks -> Seq(Items)]
  BY <1>14, Formats DEF BmffFlush, player, At, Goto
<1>15. ASSUME BmffTellPeer PROVE sink' \in [Tracks -> Seq(Items)]
  BY <1>15, Formats DEF BmffTellPeer, player, SetBasePTS, Signal, At
<1>16. ASSUME BmffInit PROVE sink' \in [Tracks -> Seq(Items)]
  <2>1. \E r \in Seq(Items) : sink' = [sink EXCEPT !["video"] = sink["video"] \o r]
    BY <1>16, Pushes DEF BmffInit, Tracks
  <2>. QED  BY <2>1, Concats DEF Tracks
<1>17. ASSUME StartInjection PROVE sink' \in [Tracks -> Seq(Items)]
  BY <1>17, Formats DEF StartInjection, Reset, AwaitsBase, Base, Goto, Control,
      TSReset, BmffReset, Constructed
<1>18. ASSUME ProcessPendingDiscontinuity PROVE sink' \in [Tracks -> Seq(Items)]
  BY <1>18, Formats DEF ProcessPendingDiscontinuity, injector, At, Control
<1>19. ASSUME AbortWaitForCachedFragment PROVE sink' \in [Tracks -> Seq(Items)]
  BY <1>19, Formats DEF AbortWaitForCachedFragment, Control
<1>20. ASSUME AbortProcessor PROVE sink' \in [Tracks -> Seq(Items)]
  BY <1>20, Formats DEF AbortProcessor, Signal, Goto, Control
<1>21. ASSUME AwaitProcessing PROVE sink' \in [Tracks -> Seq(Items)]
  BY <1>21, Formats DEF AwaitProcessing, injector, Control
<1>22. ASSUME StopInjectLoop PROVE sink' \in [Tracks -> Seq(Items)]
  BY <1>22, Formats DEF StopInjectLoop, At, Goto, Control
<1>23. ASSUME FlushSink PROVE sink' \in [Tracks -> Seq(Items)]
  BY <1>23, Formats DEF FlushSink, Control
<1>24. ASSUME Stop PROVE sink' \in [Tracks -> Seq(Items)]
  BY <1>24, Formats DEF Stop, injector, Control
<1>. QED  BY <1>1, <1>2, <1>3, <1>4, <1>5, <1>6, <1>7, <1>8, <1>9, <1>10, <1>11,
      <1>12, <1>13, <1>14, <1>15, <1>16, <1>17, <1>18, <1>19, <1>20, <1>21,
      <1>22, <1>23, <1>24
          DEF Next, PlayerStep, Injector, Tracks

\* A step keeps the types.
LEMMA TypeStep ==
    ASSUME TypeOK, CtlInv, Next
    PROVE  TypeOK'
<1>1. stream' = stream /\ TS' = TS /\ BMFF' = BMFF
  BY StreamFixed
<1>2. stream' \in Streams
  BY <1>1 DEF TypeOK
<1>3. period' \in DOMAIN stream'.periods
  <2>1. DOMAIN stream'.periods = 1 .. Len(stream.periods)
    BY <1>1, Formats
  <2>. QED  BY <2>1, PlayerTypeStep
<1>4. TS' => processor' \in [Tracks -> TSFields]
  BY <1>1, TSTypeStep
<1>5. BMFF' => processor' \in [Tracks -> BmffFields]
  BY <1>1, BmffTypeStep
<1>. QED  BY <1>2, <1>3, <1>4, <1>5, PcStep, NextStep, PlayerTypeStep, AbortTypeStep,
             SinkTypeStep DEF TypeOK

-----------------------------------------------------------------------------
(* The player and the calls *)

\* The player and the injectors it starts, aborts and joins.
LEMMA CtlStep ==
    ASSUME TypeOK, CtlInv, Next
    PROVE  CtlInv'
<1>. USE DEF TypeOK, CtlInv, NotStarted, Joined, InjectPcs, Ctls, Tracks
<1>1. ASSUME NEW t \in Tracks, InjectLoop(t) PROVE CtlInv'
  BY <1>1, Formats DEF InjectLoop, player, At, Goto
<1>2. ASSUME NEW t \in Tracks, TSBegin(t) PROVE CtlInv'
  BY <1>2, Formats DEF TSBegin, player, At, Goto, Return
<1>3. ASSUME NEW t \in Tracks, TSDemux(t) PROVE CtlInv'
  BY <1>3, Formats DEF TSDemux, player, Signal, At, Goto
<1>4. ASSUME NEW t \in Tracks, TSSend(t) PROVE CtlInv'
  BY <1>4, Formats DEF TSSend, player, At, Goto
<1>5. ASSUME NEW t \in Tracks, TSEnd(t) PROVE CtlInv'
  BY <1>5, Formats DEF TSEnd, player, At, Return, Goto
<1>6. ASSUME NEW t \in Tracks, BmffBegin(t) PROVE CtlInv'
  BY <1>6, Formats DEF BmffBegin, player, At, Goto, Return
<1>7. ASSUME NEW t \in Tracks, BmffSend(t) PROVE CtlInv'
  BY <1>7, Formats DEF BmffSend, player, At, Return, Goto
<1>8. ASSUME TSWaitForBase PROVE CtlInv'
  BY <1>8, Formats DEF TSWaitForBase, player, At, Goto
<1>9. ASSUME TSWoken PROVE CtlInv'
  BY <1>9, Formats DEF TSWoken, player, At, Goto
<1>10. ASSUME BmffWaitForBase PROVE CtlInv'
  BY <1>10, Formats DEF BmffWaitForBase, player, At, Goto
<1>11. ASSUME BmffWoken PROVE CtlInv'
  BY <1>11, Formats DEF BmffWoken, player, At, Goto, Return
<1>12. ASSUME BmffReady PROVE CtlInv'
  BY <1>12, Formats DEF BmffReady, player, At, Goto, Return
<1>13. ASSUME BmffFound PROVE CtlInv'
  BY <1>13, Formats DEF BmffFound, player, At, Goto, Return
<1>14. ASSUME BmffFlush PROVE CtlInv'
  BY <1>14, Formats DEF BmffFlush, player, At, Goto
<1>15. ASSUME BmffTellPeer PROVE CtlInv'
  BY <1>15, Formats DEF BmffTellPeer, player, Signal, At
<1>16. ASSUME BmffInit PROVE CtlInv'
  BY <1>16, Formats DEF BmffInit, player, At, Goto
<1>17. ASSUME StartInjection PROVE CtlInv'
  BY <1>17, Formats DEF StartInjection, Goto, Control
<1>18. ASSUME ProcessPendingDiscontinuity PROVE CtlInv'
  BY <1>18, Formats DEF ProcessPendingDiscontinuity, injector, At, Control
<1>19. ASSUME AbortWaitForCachedFragment PROVE CtlInv'
  BY <1>19, Formats DEF AbortWaitForCachedFragment, Control
<1>20. ASSUME AbortProcessor PROVE CtlInv'
  BY <1>20, Formats DEF AbortProcessor, Signal, Goto, Control
<1>21. ASSUME AwaitProcessing PROVE CtlInv'
  BY <1>21, Formats DEF AwaitProcessing, injector, Control
<1>22. ASSUME StopInjectLoop PROVE CtlInv'
  BY <1>22, Formats DEF StopInjectLoop, At, Goto, Control
<1>23. ASSUME FlushSink PROVE CtlInv'
  BY <1>23, Formats DEF FlushSink, Control
<1>24. ASSUME Stop PROVE CtlInv'
  BY <1>24, Formats DEF Stop, injector, Control
<1>. QED  BY <1>1, <1>2, <1>3, <1>4, <1>5, <1>6, <1>7, <1>8, <1>9, <1>10, <1>11,
      <1>12, <1>13, <1>14, <1>15, <1>16, <1>17, <1>18, <1>19, <1>20, <1>21,
      <1>22, <1>23, <1>24
          DEF Next, PlayerStep, Injector, Tracks

\* A call stays in the code of its processor.
LEMMA PlaceStep ==
    ASSUME TypeOK, PlaceInv, Next
    PROVE  PlaceInv'
<1>. USE DEF TypeOK, PlaceInv, InjectPcs, Tracks
<1>1. ASSUME NEW t \in Tracks, InjectLoop(t) PROVE PlaceInv'
  BY <1>1, Formats, StreamFixed DEF InjectLoop, player, At, Goto
<1>2. ASSUME NEW t \in Tracks, TSBegin(t) PROVE PlaceInv'
  BY <1>2, Formats, StreamFixed DEF TSBegin, player, At, Goto, Return
<1>3. ASSUME NEW t \in Tracks, TSDemux(t) PROVE PlaceInv'
  BY <1>3, Formats, StreamFixed DEF TSDemux, player, Signal, At, Goto
<1>4. ASSUME NEW t \in Tracks, TSSend(t) PROVE PlaceInv'
  BY <1>4, Formats, StreamFixed DEF TSSend, player, At, Goto
<1>5. ASSUME NEW t \in Tracks, TSEnd(t) PROVE PlaceInv'
  BY <1>5, Formats, StreamFixed DEF TSEnd, player, At, Return, Goto
<1>6. ASSUME NEW t \in Tracks, BmffBegin(t) PROVE PlaceInv'
  BY <1>6, Formats, StreamFixed DEF BmffBegin, player, At, Goto, Return
<1>7. ASSUME NEW t \in Tracks, BmffSend(t) PROVE PlaceInv'
  BY <1>7, Formats, StreamFixed DEF BmffSend, player, At, Return, Goto
<1>8. ASSUME TSWaitForBase PROVE PlaceInv'
  BY <1>8, Formats, StreamFixed DEF TSWaitForBase, player, At, Goto
<1>9. ASSUME TSWoken PROVE PlaceInv'
  BY <1>9, Formats, StreamFixed DEF TSWoken, player, At, Goto
<1>10. ASSUME BmffWaitForBase PROVE PlaceInv'
  BY <1>10, Formats, StreamFixed DEF BmffWaitForBase, player, At, Goto
<1>11. ASSUME BmffWoken PROVE PlaceInv'
  BY <1>11, Formats, StreamFixed DEF BmffWoken, player, At, Goto, Return
<1>12. ASSUME BmffReady PROVE PlaceInv'
  BY <1>12, Formats, StreamFixed DEF BmffReady, player, At, Goto, Return
<1>13. ASSUME BmffFound PROVE PlaceInv'
  BY <1>13, Formats, StreamFixed DEF BmffFound, player, At, Goto, Return
<1>14. ASSUME BmffFlush PROVE PlaceInv'
  BY <1>14, Formats, StreamFixed DEF BmffFlush, player, At, Goto
<1>15. ASSUME BmffTellPeer PROVE PlaceInv'
  BY <1>15, Formats, StreamFixed DEF BmffTellPeer, player, Signal, At
<1>16. ASSUME BmffInit PROVE PlaceInv'
  BY <1>16, Formats, StreamFixed DEF BmffInit, player, At, Goto
<1>17. ASSUME StartInjection PROVE PlaceInv'
  BY <1>17, Formats, StreamFixed DEF StartInjection, Goto, Control
<1>18. ASSUME ProcessPendingDiscontinuity PROVE PlaceInv'
  BY <1>18, Formats, StreamFixed DEF ProcessPendingDiscontinuity, injector, At,
      Control
<1>19. ASSUME AbortWaitForCachedFragment PROVE PlaceInv'
  BY <1>19, Formats, StreamFixed DEF AbortWaitForCachedFragment, Control
<1>20. ASSUME AbortProcessor PROVE PlaceInv'
  BY <1>20, Formats, StreamFixed DEF AbortProcessor, Signal, Goto, Control
<1>21. ASSUME AwaitProcessing PROVE PlaceInv'
  BY <1>21, Formats, StreamFixed DEF AwaitProcessing, injector, Control
<1>22. ASSUME StopInjectLoop PROVE PlaceInv'
  BY <1>22, Formats, StreamFixed DEF StopInjectLoop, At, Goto, Control
<1>23. ASSUME FlushSink PROVE PlaceInv'
  BY <1>23, Formats, StreamFixed DEF FlushSink, Control
<1>24. ASSUME Stop PROVE PlaceInv'
  BY <1>24, Formats, StreamFixed DEF Stop, injector, Control
<1>. QED  BY <1>1, <1>2, <1>3, <1>4, <1>5, <1>6, <1>7, <1>8, <1>9, <1>10, <1>11,
      <1>12, <1>13, <1>14, <1>15, <1>16, <1>17, <1>18, <1>19, <1>20, <1>21,
      <1>22, <1>23, <1>24
          DEF Next, PlayerStep, Injector, Tracks

\* What keeps the two above.
LEMMA RangeKept ==
    ASSUME NEW t \in Tracks, TypeOK, RangeInv, stream' = stream, period' = period,
           ctl' = ctl, ctlTrack' = ctlTrack, ~NotStarted(t),
           next[t] <= Len(Fragments(t)),
           \A u \in Tracks \ {t} : next'[u] = next[u] /\ injectPc'[u] = injectPc[u],
           next'[t] = next[t] \/ (next'[t] = next[t] + 1 /\ injectPc'[t] = "loop")
    PROVE  RangeInv'
<1>. SUFFICES ASSUME NEW u \in Tracks
              PROVE  /\ next'[u] \in 1 .. (Len(Fragments(u)) + 1)
                     /\ injectPc'[u] \notin {"off", "loop", "done"} => next'[u] <= Len(Fragments(u))
                     /\ NotStarted(u) => next'[u] = 1
  BY DEF RangeInv, Fragments, NotStarted
<1>1. Len(Fragments(u)) \in Nat /\ next[u] \in Nat
  BY Formats DEF TypeOK
<1>. QED  BY <1>1 DEF RangeInv

\* A call has a fragment of the period.
LEMMA RangeStep ==
    ASSUME TypeOK, CtlInv, RangeInv, Next
    PROVE  RangeInv'
<1>. USE DEF TypeOK, CtlInv, NotStarted, Joined, RangeInv, Fragments
<1>1. ASSUME NEW t \in Tracks, InjectLoop(t) PROVE RangeInv'
  BY <1>1, Formats, StreamFixed DEF InjectLoop, player, At, Goto
<1>2. ASSUME NEW t \in Tracks, TSBegin(t) PROVE RangeInv'
  <2>1. t \in Tracks /\ next[t] <= Len(Fragments(t))
    BY <1>2 DEF TSBegin, At, Tracks
  <2>2. /\ \A u \in Tracks \ {t} : next'[u] = next[u] /\ injectPc'[u] = injectPc[u]
        /\ \/ next'[t] = next[t]
           \/ next'[t] = next[t] + 1 /\ injectPc'[t] = "loop"
    BY <1>2 DEF TSBegin, Goto, Return, Tracks
  <2>3. stream' = stream /\ period' = period /\ ctl' = ctl /\ ctlTrack' = ctlTrack /\ ~NotStarted(t)
    BY <1>2 DEF TSBegin, player, At, Tracks
  <2>. QED  BY <2>1, <2>2, <2>3, RangeKept
<1>3. ASSUME NEW t \in Tracks, TSDemux(t) PROVE RangeInv'
  <2>1. next' = next /\ stream' = stream /\ period' = period /\ ctl' = ctl /\ ctlTrack' = ctlTrack
    BY <1>3 DEF TSDemux, player
  <2>2. \A u \in Tracks : injectPc[u] \in {"off", "loop", "done"} => injectPc'[u] = injectPc[u]
    BY <1>3 DEF TSDemux, Goto, At, Signal, Tracks
  <2>. QED  BY <2>1, <2>2
<1>4. ASSUME NEW t \in Tracks, TSSend(t) PROVE RangeInv'
  BY <1>4, Formats, StreamFixed DEF TSSend, player, At, Goto
<1>5. ASSUME NEW t \in Tracks, TSEnd(t) PROVE RangeInv'
  BY <1>5, Formats, StreamFixed DEF TSEnd, player, At, Return, Goto
<1>6. ASSUME NEW t \in Tracks, BmffBegin(t) PROVE RangeInv'
  <2>1. t \in Tracks /\ next[t] <= Len(Fragments(t))
    BY <1>6 DEF BmffBegin, At, Tracks
  <2>2. /\ \A u \in Tracks \ {t} : next'[u] = next[u] /\ injectPc'[u] = injectPc[u]
        /\ \/ next'[t] = next[t]
           \/ next'[t] = next[t] + 1 /\ injectPc'[t] = "loop"
    BY <1>6 DEF BmffBegin, Goto, Return, Tracks
  <2>3. stream' = stream /\ period' = period /\ ctl' = ctl /\ ctlTrack' = ctlTrack /\ ~NotStarted(t)
    BY <1>6 DEF BmffBegin, player, At, Tracks
  <2>. QED  BY <2>1, <2>2, <2>3, RangeKept
<1>7. ASSUME NEW t \in Tracks, BmffSend(t) PROVE RangeInv'
  <2>1. t \in Tracks /\ next[t] <= Len(Fragments(t))
    BY <1>7 DEF BmffSend, At, Tracks
  <2>2. /\ \A u \in Tracks \ {t} : next'[u] = next[u] /\ injectPc'[u] = injectPc[u]
        /\ \/ next'[t] = next[t]
           \/ next'[t] = next[t] + 1 /\ injectPc'[t] = "loop"
    BY <1>7 DEF BmffSend, Goto, Return, Tracks
  <2>3. stream' = stream /\ period' = period /\ ctl' = ctl /\ ctlTrack' = ctlTrack /\ ~NotStarted(t)
    BY <1>7 DEF BmffSend, player, At, Tracks
  <2>. QED  BY <2>1, <2>2, <2>3, RangeKept
<1>8. ASSUME TSWaitForBase PROVE RangeInv'
  BY <1>8, Formats, StreamFixed DEF TSWaitForBase, player, At, Goto
<1>9. ASSUME TSWoken PROVE RangeInv'
  BY <1>9, Formats, StreamFixed DEF TSWoken, player, At, Goto
<1>10. ASSUME BmffWaitForBase PROVE RangeInv'
  BY <1>10, Formats, StreamFixed DEF BmffWaitForBase, player, At, Goto
<1>11. ASSUME BmffWoken PROVE RangeInv'
  <2>1. "audio" \in Tracks /\ next["audio"] <= Len(Fragments("audio"))
    BY <1>11 DEF BmffWoken, At, Tracks
  <2>2. /\ \A u \in Tracks \ {"audio"} : next'[u] = next[u] /\ injectPc'[u] = injectPc[u]
        /\ \/ next'["audio"] = next["audio"]
           \/ next'["audio"] = next["audio"] + 1 /\ injectPc'["audio"] = "loop"
    BY <1>11 DEF BmffWoken, Goto, Return, Tracks
  <2>3. stream' = stream /\ period' = period /\ ctl' = ctl /\ ctlTrack' = ctlTrack /\ ~NotStarted("audio")
    BY <1>11 DEF BmffWoken, player, At, Tracks
  <2>. QED  BY <2>1, <2>2, <2>3, RangeKept
<1>12. ASSUME BmffReady PROVE RangeInv'
  <2>1. "audio" \in Tracks /\ next["audio"] <= Len(Fragments("audio"))
    BY <1>12 DEF BmffReady, At, Tracks
  <2>2. /\ \A u \in Tracks \ {"audio"} : next'[u] = next[u] /\ injectPc'[u] = injectPc[u]
        /\ \/ next'["audio"] = next["audio"]
           \/ next'["audio"] = next["audio"] + 1 /\ injectPc'["audio"] = "loop"
    BY <1>12 DEF BmffReady, Goto, Return, Tracks
  <2>3. stream' = stream /\ period' = period /\ ctl' = ctl /\ ctlTrack' = ctlTrack /\ ~NotStarted("audio")
    BY <1>12 DEF BmffReady, player, At, Tracks
  <2>. QED  BY <2>1, <2>2, <2>3, RangeKept
<1>13. ASSUME BmffFound PROVE RangeInv'
  <2>1. "video" \in Tracks /\ next["video"] <= Len(Fragments("video"))
    BY <1>13 DEF BmffFound, At, Tracks
  <2>2. /\ \A u \in Tracks \ {"video"} : next'[u] = next[u] /\ injectPc'[u] = injectPc[u]
        /\ \/ next'["video"] = next["video"]
           \/ next'["video"] = next["video"] + 1 /\ injectPc'["video"] = "loop"
    BY <1>13 DEF BmffFound, Goto, Return, Tracks
  <2>3. stream' = stream /\ period' = period /\ ctl' = ctl /\ ctlTrack' = ctlTrack /\ ~NotStarted("video")
    BY <1>13 DEF BmffFound, player, At, Tracks
  <2>. QED  BY <2>1, <2>2, <2>3, RangeKept
<1>14. ASSUME BmffFlush PROVE RangeInv'
  BY <1>14, Formats, StreamFixed DEF BmffFlush, player, At, Goto
<1>15. ASSUME BmffTellPeer PROVE RangeInv'
  BY <1>15, Formats, StreamFixed DEF BmffTellPeer, player, Signal, At
<1>16. ASSUME BmffInit PROVE RangeInv'
  BY <1>16, Formats, StreamFixed DEF BmffInit, player, At, Goto
<1>17. ASSUME StartInjection PROVE RangeInv'
  BY <1>17, Formats, StreamFixed DEF StartInjection, Goto, Control
<1>18. ASSUME ProcessPendingDiscontinuity PROVE RangeInv'
  BY <1>18, Formats, StreamFixed DEF ProcessPendingDiscontinuity, injector, At,
      Control
<1>19. ASSUME AbortWaitForCachedFragment PROVE RangeInv'
  BY <1>19, Formats, StreamFixed DEF AbortWaitForCachedFragment, Control
<1>20. ASSUME AbortProcessor PROVE RangeInv'
  BY <1>20, Formats, StreamFixed DEF AbortProcessor, Signal, Goto, Control
<1>21. ASSUME AwaitProcessing PROVE RangeInv'
  BY <1>21, Formats, StreamFixed DEF AwaitProcessing, injector, Control
<1>22. ASSUME StopInjectLoop PROVE RangeInv'
  BY <1>22, Formats, StreamFixed DEF StopInjectLoop, At, Goto, Control
<1>23. ASSUME FlushSink PROVE RangeInv'
  BY <1>23, Formats, StreamFixed DEF FlushSink, Control
<1>24. ASSUME Stop PROVE RangeInv'
  BY <1>24, Formats, StreamFixed DEF Stop, injector, Control
<1>. QED  BY <1>1, <1>2, <1>3, <1>4, <1>5, <1>6, <1>7, <1>8, <1>9, <1>10, <1>11,
      <1>12, <1>13, <1>14, <1>15, <1>16, <1>17, <1>18, <1>19, <1>20, <1>21,
      <1>22, <1>23, <1>24
          DEF Next, PlayerStep, Injector, Tracks

\* A call leaves the order to give up alone.
LEMMA HaltKept ==
    ASSUME TypeOK, HaltInv, TS' = TS, abortInject' = abortInject,
           TS => \A u \in Tracks : processor'[u].m_enabled = processor[u].m_enabled,
           BMFF => \A u \in Tracks : processor'[u].abortAll = processor[u].abortAll,
           \A u \in Tracks : (injectPc'[u] # "done" \/ injectPc'[u] = injectPc[u])
                        /\ (injectPc[u] = "off" => injectPc'[u] = "off")
    PROVE  HaltInv'
<1>. SUFFICES ASSUME NEW u \in Tracks
              PROVE  /\ injectPc'[u] = "done" => abortInject'[u]
                     /\ injectPc'[u] # "off" /\ ~abortInject'[u] => ~Aborted(u)'
  BY DEF HaltInv, Live, Running
<1>1. /\ injectPc[u] = "done" => abortInject[u]
      /\ injectPc[u] # "off" /\ ~abortInject[u] => ~Aborted(u)
  BY DEF HaltInv, Live, Running
<1>2. (TS' <=> TS) /\ (TS \/ BMFF)
  BY Formats
<1>3. CASE TS
  BY <1>1, <1>2, <1>3 DEF Aborted
<1>4. CASE ~TS
  BY <1>1, <1>2, <1>4 DEF Aborted
<1>. QED  BY <1>3, <1>4

\* A processor is aborted after its injector, and starts anew with it.
LEMMA HaltStep ==
    ASSUME TypeOK, CtlInv, HaltInv, Next
    PROVE  HaltInv'
<1>. USE DEF TypeOK, CtlInv, HaltInv, Live, Running, Tracks, Aborted, TS, BMFF
<1>1. ASSUME NEW t \in Tracks, InjectLoop(t) PROVE HaltInv'
  BY <1>1, Formats DEF InjectLoop, player, At, Goto
<1>2. ASSUME NEW t \in Tracks, TSBegin(t) PROVE HaltInv'
  <2>1. TS /\ \A u \in Tracks : processor'[u].m_enabled = processor[u].m_enabled
    BY <1>2, Formats DEF TSBegin, TSFields
  <2>2. \A u \in Tracks : (injectPc'[u] # "done" \/ injectPc'[u] = injectPc[u])
                        /\ (injectPc[u] = "off" => injectPc'[u] = "off")
    BY <1>2 DEF TSBegin, Goto, Return, At, Signal, InjectPcs
  <2>3. abortInject' = abortInject
    BY <1>2 DEF TSBegin
  <2>. QED  BY <2>1, <2>2, <2>3, HaltKept, StreamFixed
<1>3. ASSUME NEW t \in Tracks, TSDemux(t) PROVE HaltInv'
  <2>1. TS /\ \A u \in Tracks : processor'[u].m_enabled = processor[u].m_enabled
    BY <1>3, DemuxFields DEF TSDemux
  <2>2. \A u \in Tracks : (injectPc'[u] # "done" \/ injectPc'[u] = injectPc[u])
                        /\ (injectPc[u] = "off" => injectPc'[u] = "off")
    BY <1>3 DEF TSDemux, Goto, Return, At, Signal, InjectPcs
  <2>3. abortInject' = abortInject
    BY <1>3 DEF TSDemux
  <2>. QED  BY <2>1, <2>2, <2>3, HaltKept, StreamFixed
<1>4. ASSUME NEW t \in Tracks, TSSend(t) PROVE HaltInv'
  BY <1>4, Formats DEF TSSend, player, At, Goto
<1>5. ASSUME NEW t \in Tracks, TSEnd(t) PROVE HaltInv'
  BY <1>5, Formats DEF TSEnd, player, At, Return, Goto
<1>6. ASSUME NEW t \in Tracks, BmffBegin(t) PROVE HaltInv'
  <2>1. BMFF /\ \A u \in Tracks : processor'[u].abortAll = processor[u].abortAll
    BY <1>6, BeginFields DEF BmffBegin
  <2>2. \A u \in Tracks : (injectPc'[u] # "done" \/ injectPc'[u] = injectPc[u])
                        /\ (injectPc[u] = "off" => injectPc'[u] = "off")
    BY <1>6 DEF BmffBegin, Goto, Return, At, Signal, InjectPcs
  <2>3. abortInject' = abortInject
    BY <1>6 DEF BmffBegin
  <2>. QED  BY <2>1, <2>2, <2>3, HaltKept, StreamFixed
<1>7. ASSUME NEW t \in Tracks, BmffSend(t) PROVE HaltInv'
  BY <1>7, Formats DEF BmffSend, player, At, Return, Goto
<1>8. ASSUME TSWaitForBase PROVE HaltInv'
  BY <1>8, Formats DEF TSWaitForBase, player, At, Goto
<1>9. ASSUME TSWoken PROVE HaltInv'
  BY <1>9, Formats DEF TSWoken, player, At, Goto
<1>10. ASSUME BmffWaitForBase PROVE HaltInv'
  BY <1>10, Formats DEF BmffWaitForBase, player, At, Goto
<1>11. ASSUME BmffWoken PROVE HaltInv'
  BY <1>11, Formats DEF BmffWoken, player, At, Goto, Return
<1>12. ASSUME BmffReady PROVE HaltInv'
  <2>1. BMFF /\ \A u \in Tracks : processor'[u].abortAll = processor[u].abortAll
    <3>1. /\ BMFF
          /\ \/ processor' = processor
             \/ processor' = [processor EXCEPT !["audio"].initSegment = <<>>,
                                               !["audio"].initSegmentProcessComplete = TRUE]
      BY <1>12 DEF BmffReady, PushInitSegment
    <3>2. processor \in [Tracks -> BmffFields]
      BY <3>1 DEF BMFF
    <3>. QED  BY <3>1, <3>2 DEF BmffFields, Tracks
  <2>2. \A u \in Tracks : (injectPc'[u] # "done" \/ injectPc'[u] = injectPc[u])
                        /\ (injectPc[u] = "off" => injectPc'[u] = "off")
    BY <1>12 DEF BmffReady, Goto, Return, At, Signal, InjectPcs
  <2>3. abortInject' = abortInject
    BY <1>12 DEF BmffReady
  <2>. QED  BY <2>1, <2>2, <2>3, HaltKept, StreamFixed
<1>13. ASSUME BmffFound PROVE HaltInv'
  BY <1>13, Formats DEF BmffFound, player, At, Goto, Return
<1>14. ASSUME BmffFlush PROVE HaltInv'
  BY <1>14, Formats DEF BmffFlush, player, At, Goto
<1>15. ASSUME BmffTellPeer PROVE HaltInv'
  BY <1>15, Formats DEF BmffTellPeer, player, SetBasePTS, Signal, At
<1>16. ASSUME BmffInit PROVE HaltInv'
  <2>1. BMFF /\ \A u \in Tracks : processor'[u].abortAll = processor[u].abortAll
    BY <1>16, Formats DEF BmffInit, BmffFields, PushInitSegment
  <2>2. \A u \in Tracks : (injectPc'[u] # "done" \/ injectPc'[u] = injectPc[u])
                        /\ (injectPc[u] = "off" => injectPc'[u] = "off")
    BY <1>16 DEF BmffInit, Goto, Return, At, Signal, InjectPcs
  <2>3. abortInject' = abortInject
    BY <1>16 DEF BmffInit
  <2>. QED  BY <2>1, <2>2, <2>3, HaltKept, StreamFixed
<1>17. ASSUME StartInjection PROVE HaltInv'
  BY <1>17, Formats DEF StartInjection, Reset, Goto, Control, TSReset,
      BmffReset, Constructed
<1>18. ASSUME ProcessPendingDiscontinuity PROVE HaltInv'
  BY <1>18, Formats DEF ProcessPendingDiscontinuity, injector, At, Control
<1>19. ASSUME AbortWaitForCachedFragment PROVE HaltInv'
  BY <1>19, Formats DEF AbortWaitForCachedFragment, Control
<1>20. ASSUME AbortProcessor PROVE HaltInv'
  BY <1>20, Formats DEF AbortProcessor, Signal, Goto, Control
<1>21. ASSUME AwaitProcessing PROVE HaltInv'
  BY <1>21, Formats DEF AwaitProcessing, injector, Control
<1>22. ASSUME StopInjectLoop PROVE HaltInv'
  BY <1>22, Formats DEF StopInjectLoop, At, Goto, Control
<1>23. ASSUME FlushSink PROVE HaltInv'
  BY <1>23, Formats DEF FlushSink, Control
<1>24. ASSUME Stop PROVE HaltInv'
  BY <1>24, Formats DEF Stop, injector, Control
<1>. QED  BY <1>1, <1>2, <1>3, <1>4, <1>5, <1>6, <1>7, <1>8, <1>9, <1>10, <1>11,
      <1>12, <1>13, <1>14, <1>15, <1>16, <1>17, <1>18, <1>19, <1>20, <1>21,
      <1>22, <1>23, <1>24
          DEF Next, PlayerStep, Injector, Tracks

-----------------------------------------------------------------------------
(* The base *)

\* Items of the period keep the items in their periods.
LEMMA PastKept ==
    ASSUME TypeOK, PastInv, NEW t \in Tracks, ~NotStarted(t),
           ctl' = ctl, ctlTrack' = ctlTrack, period' = period,
           NEW r \in Seq(Items), \A k \in 1 .. Len(r) : r[k].period = period,
           sink' = [sink EXCEPT ![t] = sink[t] \o r]
    PROVE  PastInv'
<1>. SUFFICES ASSUME NEW u \in Tracks, NEW i \in DOMAIN sink'[u]
              PROVE  sink'[u][i].period <= period /\ (NotStarted(u) => sink'[u][i].period < period)
  BY DEF PastInv, NotStarted
<1>1. sink \in [Tracks -> Seq(Items)] /\ period \in Nat
  BY Formats DEF TypeOK
<1>2. CASE u # t
  BY <1>1, <1>2 DEF PastInv
<1>3. CASE u = t
  <2>1. sink'[u] = sink[u] \o r /\ sink[u] \in Seq(Items)
    BY <1>1, <1>3
  <2>2. CASE i \in 1 .. Len(sink[u])
    <3>1. sink'[u][i] = sink[u][i] /\ i \in DOMAIN sink[u]
      BY <2>1, <2>2, Concats
    <3>. QED  BY <3>1 DEF PastInv
  <2>3. CASE i \notin 1 .. Len(sink[u])
    <3>1. i \in 1 .. (Len(sink[u]) + Len(r)) /\ Len(sink[u]) \in Nat /\ Len(r) \in Nat
      BY <2>1, Concats
    <3>2. i - Len(sink[u]) \in 1 .. Len(r) /\ i = Len(sink[u]) + (i - Len(sink[u]))
      BY <2>3, <3>1
    <3>3. sink'[u][i] = r[i - Len(sink[u])]
      BY <2>1, <3>2, Concats
    <3>. QED  BY <1>1, <1>3, <3>2, <3>3
  <2>. QED  BY <2>2, <2>3
<1>. QED  BY <1>2, <1>3

\* No item is of a period to come.
LEMMA PastStep ==
    ASSUME TypeOK, CtlInv, PastInv, Next
    PROVE  PastInv'
<1>. USE DEF TypeOK, CtlInv, PastInv, NotStarted, Joined, Tracks
<1>1. ASSUME NEW t \in Tracks, InjectLoop(t) PROVE PastInv'
  BY <1>1, Formats DEF InjectLoop, player, At, Goto
<1>2. ASSUME NEW t \in Tracks, TSBegin(t) PROVE PastInv'
  BY <1>2, Formats DEF TSBegin, player, At, Goto, Return
<1>3. ASSUME NEW t \in Tracks, TSDemux(t) PROVE PastInv'
  BY <1>3, Formats DEF TSDemux, player, At, Goto
<1>4. ASSUME NEW t \in Tracks, TSSend(t) PROVE PastInv'
  <2>1. Item(next[t], processor[t].base_pts) \in Items /\ Item(next[t], processor[t].base_pts).period = period
    BY <1>4, ItemTypes, Formats DEF TSSend, TSFields
  <2>. DEFINE x == Item(next[t], processor[t].base_pts)
  <2>2. sink' = [sink EXCEPT ![t] = Append(sink[t], x)]
    BY <1>4 DEF TSSend
  <2>3. ctl' = ctl /\ ctlTrack' = ctlTrack /\ period' = period /\ ~NotStarted(t)
    BY <1>4 DEF TSSend, player, At
  <2>. HIDE DEF x
  <2>4. Append(sink[t], x) = sink[t] \o <<x>> /\ <<x>> \in Seq(Items)
    BY <1>4, <2>1, Appends DEF x
  <2>5. \A k \in 1 .. Len(<<x>>) : <<x>>[k].period = period
    BY <2>1, Appends DEF x
  <2>. QED  BY <1>4, <2>2, <2>3, <2>4, <2>5, PastKept
<1>5. ASSUME NEW t \in Tracks, TSEnd(t) PROVE PastInv'
  BY <1>5, Formats DEF TSEnd, player, At, Return, Goto
<1>6. ASSUME NEW t \in Tracks, BmffBegin(t) PROVE PastInv'
  BY <1>6, Formats DEF BmffBegin, player, At, Goto, Return
<1>7. ASSUME NEW t \in Tracks, BmffSend(t) PROVE PastInv'
  <2>1. Item(next[t], period) \in Items /\ Item(next[t], period).period = period
    BY <1>7, ItemTypes, Formats DEF BmffSend, TSFields
  <2>. DEFINE x == Item(next[t], period)
  <2>2. sink' = [sink EXCEPT ![t] = Append(sink[t], x)]
    BY <1>7 DEF BmffSend
  <2>3. ctl' = ctl /\ ctlTrack' = ctlTrack /\ period' = period /\ ~NotStarted(t)
    BY <1>7 DEF BmffSend, player, At
  <2>. HIDE DEF x
  <2>4. Append(sink[t], x) = sink[t] \o <<x>> /\ <<x>> \in Seq(Items)
    BY <1>7, <2>1, Appends DEF x
  <2>5. \A k \in 1 .. Len(<<x>>) : <<x>>[k].period = period
    BY <2>1, Appends DEF x
  <2>. QED  BY <1>7, <2>2, <2>3, <2>4, <2>5, PastKept
<1>8. ASSUME TSWaitForBase PROVE PastInv'
  BY <1>8, Formats DEF TSWaitForBase, player, At, Goto
<1>9. ASSUME TSWoken PROVE PastInv'
  BY <1>9, Formats DEF TSWoken, player, At, Goto
<1>10. ASSUME BmffWaitForBase PROVE PastInv'
  BY <1>10, Formats DEF BmffWaitForBase, player, At, Goto
<1>11. ASSUME BmffWoken PROVE PastInv'
  BY <1>11, Formats DEF BmffWoken, player, At, Goto, Return
<1>12. ASSUME BmffReady PROVE PastInv'
  <2>1. ctl' = ctl /\ ctlTrack' = ctlTrack /\ period' = period /\ ~NotStarted("audio")
    BY <1>12 DEF BmffReady, player, At
  <2>2. CASE PushInitSegment("audio")
    <3>1. PICK r \in Seq(Items) : /\ \A k \in 1 .. Len(r) : r[k].period = period
                               /\ sink' = [sink EXCEPT !["audio"] = sink["audio"] \o r]
      BY <1>12, <2>2, Pushes DEF BmffReady
    <3>. QED  BY <2>1, <3>1, PastKept
  <2>3. CASE UNCHANGED sink
    BY <2>1, <2>3
  <2>. QED  BY <1>12, <2>2, <2>3 DEF BmffReady
<1>13. ASSUME BmffFound PROVE PastInv'
  BY <1>13, Formats DEF BmffFound, player, At, Goto, Return
<1>14. ASSUME BmffFlush PROVE PastInv'
  BY <1>14, Formats DEF BmffFlush, player, At, Goto
<1>15. ASSUME BmffTellPeer PROVE PastInv'
  BY <1>15, Formats DEF BmffTellPeer, player, At
<1>16. ASSUME BmffInit PROVE PastInv'
  <2>1. ctl' = ctl /\ ctlTrack' = ctlTrack /\ period' = period /\ ~NotStarted("video")
    BY <1>16 DEF BmffInit, player, At
  <2>2. CASE PushInitSegment("video")
    <3>1. PICK r \in Seq(Items) : /\ \A k \in 1 .. Len(r) : r[k].period = period
                               /\ sink' = [sink EXCEPT !["video"] = sink["video"] \o r]
      BY <1>16, <2>2, Pushes DEF BmffInit
    <3>. QED  BY <2>1, <3>1, PastKept
  <2>3. CASE UNCHANGED sink
    BY <2>1, <2>3
  <2>. QED  BY <1>16, <2>2, <2>3 DEF BmffInit
<1>17. ASSUME StartInjection PROVE PastInv'
  BY <1>17, Formats DEF StartInjection, Goto, Control
<1>18. ASSUME ProcessPendingDiscontinuity PROVE PastInv'
  BY <1>18, Formats DEF ProcessPendingDiscontinuity, injector, At, Control
<1>19. ASSUME AbortWaitForCachedFragment PROVE PastInv'
  BY <1>19, Formats DEF AbortWaitForCachedFragment, Control
<1>20. ASSUME AbortProcessor PROVE PastInv'
  BY <1>20, Formats DEF AbortProcessor, Goto, Control
<1>21. ASSUME AwaitProcessing PROVE PastInv'
  BY <1>21, Formats DEF AwaitProcessing, injector, Control
<1>22. ASSUME StopInjectLoop PROVE PastInv'
  BY <1>22, Formats DEF StopInjectLoop, At, Goto, Control
<1>23. ASSUME FlushSink PROVE PastInv'
  <2>1. ctl' = "start" /\ period' = period + 1 /\ period \in Nat
    BY <1>23, Formats DEF FlushSink, Control
  <2>2. sink' = sink \/ sink' = [u \in Tracks |-> <<>>]
    BY <1>23 DEF FlushSink
  <2>3. \A u \in Tracks : \A i \in DOMAIN sink[u] : sink[u][i].period \in Nat
    <3>. SUFFICES ASSUME NEW u \in Tracks, NEW i \in DOMAIN sink[u] PROVE sink[u][i].period \in Nat
      OBVIOUS
    <3>1. sink[u] \in Seq(Items)
      OBVIOUS
    <3>2. sink[u][i] \in Items
      BY <3>1
    <3>. QED  BY <3>2 DEF Items
  <2>. QED  BY <2>1, <2>2, <2>3
<1>24. ASSUME Stop PROVE PastInv'
  BY <1>24, Formats DEF Stop, injector, Control
<1>. QED  BY <1>1, <1>2, <1>3, <1>4, <1>5, <1>6, <1>7, <1>8, <1>9, <1>10, <1>11,
      <1>12, <1>13, <1>14, <1>15, <1>16, <1>17, <1>18, <1>19, <1>20, <1>21,
      <1>22, <1>23, <1>24
          DEF Next, PlayerStep, Injector, Tracks

\* The demultiplexers have the base of the period, once audio is told.
LEMMA TSBaseStep ==
    ASSUME TypeOK, CtlInv, TS, TSBaseInv, Next
    PROVE  TSBaseInv'
<1>. USE DEF CtlInv, TSBaseInv, NotStarted, Joined, Running, Tracks, TypeOK,
      BMFF
<1>1. ASSUME NEW t \in Tracks, InjectLoop(t) PROVE TSBaseInv'
  BY <1>1, Formats, StreamFixed DEF InjectLoop, player, At, Goto
<1>2. ASSUME NEW t \in Tracks, TSBegin(t) PROVE TSBaseInv'
  <2>1. /\ \A u \in Tracks : injectPc'[u] = injectPc[u] \/ injectPc'[u] \in {"end", "base", "demux", "loop"}
        /\ injectPc'["audio"] # "demux" \/ injectPc["audio"] = "demux"
        /\ \A u \in Tracks : injectPc[u] = "off" => injectPc'[u] = "off"
    BY <1>2 DEF TSBegin, Goto, Return, At
  <2>2. period' = period
    BY <1>2 DEF TSBegin, player
  <2>. QED  BY <1>2, <2>1, <2>2, TSBeginFields, StreamFixed
<1>3. ASSUME NEW t \in Tracks, TSDemux(t) PROVE TSBaseInv'
  <2>1. injectPc[t] = "demux" /\ period' = period /\ period # 0
    BY <1>3, Formats DEF TSDemux, player, At
  <2>2. CASE \A u \in Tracks : /\ processor'[u].base_pts = processor[u].base_pts
                             /\ processor'[u].m_basePTSFromPeer = processor[u].m_basePTSFromPeer
    BY <1>3, <2>1, <2>2, DemuxFields, StreamFixed
  <2>3. CASE t = "video" /\ \A u \in Tracks : processor'[u].base_pts = period
    BY <1>3, <2>1, <2>3, DemuxFields, StreamFixed DEF Signal
  <2>. QED  BY <1>3, <2>2, <2>3, DemuxFields
<1>4. ASSUME NEW t \in Tracks, TSSend(t) PROVE TSBaseInv'
  BY <1>4, Formats, StreamFixed DEF TSSend, player, TS, At, Goto
<1>5. ASSUME NEW t \in Tracks, TSEnd(t) PROVE TSBaseInv'
  BY <1>5, Formats, StreamFixed DEF TSEnd, player, TS, At, Return, Goto
<1>6. ASSUME NEW t \in Tracks, BmffBegin(t) PROVE TSBaseInv'
  BY <1>6, Formats, StreamFixed DEF BmffBegin, player, At, Goto, Return
<1>7. ASSUME NEW t \in Tracks, BmffSend(t) PROVE TSBaseInv'
  BY <1>7, Formats, StreamFixed DEF BmffSend, player, At, Return, Goto
<1>8. ASSUME TSWaitForBase PROVE TSBaseInv'
  BY <1>8, Formats, StreamFixed DEF TSWaitForBase, player, TS, AwaitsBase,
      Aborted, At, Goto
<1>9. ASSUME TSWoken PROVE TSBaseInv'
  BY <1>9, Formats, StreamFixed DEF TSWoken, player, TS, Aborted, At, Goto
<1>10. ASSUME BmffWaitForBase PROVE TSBaseInv'
  BY <1>10, Formats, StreamFixed DEF BmffWaitForBase, player, AwaitsBase, At,
      Goto, TS
<1>11. ASSUME BmffWoken PROVE TSBaseInv'
  BY <1>11, Formats, StreamFixed DEF BmffWoken, player, Aborted, At, Goto,
      Return, TS
<1>12. ASSUME BmffReady PROVE TSBaseInv'
  BY <1>12, Formats, StreamFixed DEF BmffReady, player, At, Goto, Return,
      PushInitSegment
<1>13. ASSUME BmffFound PROVE TSBaseInv'
  BY <1>13, Formats, StreamFixed DEF BmffFound, player, Aborted, At, Goto,
      Return, TS
<1>14. ASSUME BmffFlush PROVE TSBaseInv'
  BY <1>14, Formats, StreamFixed DEF BmffFlush, player, At, Goto
<1>15. ASSUME BmffTellPeer PROVE TSBaseInv'
  BY <1>15, Formats, StreamFixed DEF BmffTellPeer, player, SetBasePTS, Signal,
      At, TS
<1>16. ASSUME BmffInit PROVE TSBaseInv'
  BY <1>16, Formats, StreamFixed DEF BmffInit, player, At, Goto, PushInitSegment
<1>17. ASSUME StartInjection PROVE TSBaseInv'
  BY <1>17, Formats, StreamFixed DEF StartInjection, Reset, AwaitsBase, Base,
      Goto, Control, TS, TSReset, BmffReset, Constructed
<1>18. ASSUME ProcessPendingDiscontinuity PROVE TSBaseInv'
  BY <1>18, Formats, StreamFixed DEF ProcessPendingDiscontinuity, injector, At,
      Control
<1>19. ASSUME AbortWaitForCachedFragment PROVE TSBaseInv'
  BY <1>19, Formats, StreamFixed DEF AbortWaitForCachedFragment, Control
<1>20. ASSUME AbortProcessor PROVE TSBaseInv'
  BY <1>20, Formats, StreamFixed DEF AbortProcessor, TS, Signal, Goto, Control
<1>21. ASSUME AwaitProcessing PROVE TSBaseInv'
  BY <1>21, Formats, StreamFixed DEF AwaitProcessing, injector, Control
<1>22. ASSUME StopInjectLoop PROVE TSBaseInv'
  BY <1>22, Formats, StreamFixed DEF StopInjectLoop, At, Goto, Control
<1>23. ASSUME FlushSink PROVE TSBaseInv'
  BY <1>23, Formats, StreamFixed DEF FlushSink, TS, Control
<1>24. ASSUME Stop PROVE TSBaseInv'
  BY <1>24, Formats, StreamFixed DEF Stop, injector, Control
<1>. QED  BY <1>1, <1>2, <1>3, <1>4, <1>5, <1>6, <1>7, <1>8, <1>9, <1>10, <1>11,
      <1>12, <1>13, <1>14, <1>15, <1>16, <1>17, <1>18, <1>19, <1>20, <1>21,
      <1>22, <1>23, <1>24
          DEF Next, PlayerStep, Injector, Tracks

\* Audio of fragmented MP4 is told the base after the flush.
LEMMA BmffBaseStep ==
    ASSUME TypeOK, CtlInv, BMFF, BmffBaseInv, Next
    PROVE  BmffBaseInv'
<1>. USE DEF CtlInv, BmffBaseInv, NotStarted, Joined, Running, Tracks, TypeOK,
      BMFF, Fragments
<1>1. ASSUME NEW t \in Tracks, InjectLoop(t) PROVE BmffBaseInv'
  BY <1>1, Formats, StreamFixed DEF InjectLoop, player, At, Goto
<1>2. ASSUME NEW t \in Tracks, TSBegin(t) PROVE BmffBaseInv'
  BY <1>2, Formats, StreamFixed DEF TSBegin, player, TS, At, Goto, Return
<1>3. ASSUME NEW t \in Tracks, TSDemux(t) PROVE BmffBaseInv'
  BY <1>3, Formats, StreamFixed DEF TSDemux, player, TS, SetBasePTS, Signal, At,
      Goto
<1>4. ASSUME NEW t \in Tracks, TSSend(t) PROVE BmffBaseInv'
  BY <1>4, Formats, StreamFixed DEF TSSend, player, TS, At, Goto
<1>5. ASSUME NEW t \in Tracks, TSEnd(t) PROVE BmffBaseInv'
  BY <1>5, Formats, StreamFixed DEF TSEnd, player, TS, At, Return, Goto
<1>6. ASSUME NEW t \in Tracks, BmffBegin(t) PROVE BmffBaseInv'
  <2>1. stream' = stream /\ period' = period /\ injectPc[t] = "send"
    BY <1>6 DEF BmffBegin, player, At
  <2>2. CASE t = "audio"
    <3>1. injectPc'["video"] = injectPc["video"] /\ next'["video"] = next["video"]
      BY <1>6, <2>2, BeginFields
    <3>2. injectPc'["audio"] \in {"loop", "base", "ready"} /\ injectPc["audio"] # "off"
      BY <1>6, <2>1, <2>2, BeginFields
    <3>4. injectPc'["audio"] = "ready" => processor["audio"].processPTSComplete
      BY <1>6, <2>2, BeginFields
    <3>3. /\ processor'["video"] = processor["video"]
          /\ processor'["audio"].processPTSComplete = processor["audio"].processPTSComplete
          /\ processor'["audio"].basePTS = processor["audio"].basePTS
          /\ processor'["audio"].initSegmentProcessComplete = processor["audio"].initSegmentProcessComplete
      BY <1>6, <2>2, BeginFields
    <3>. QED  BY <2>1, <2>2, <3>1, <3>2, <3>3, <3>4
  <2>3. CASE t = "video"
    <3>1. processor'["audio"] = processor["audio"] /\ injectPc'["audio"] = injectPc["audio"]
      BY <1>6, <2>3, BeginFields
    <3>2. \/ /\ processor' = processor /\ injectPc'["video"] = "push"
          \/ /\ ~processor["video"].processPTSComplete /\ injectPc'["video"] = "loop"
             /\ processor'["video"].processPTSComplete = processor["video"].processPTSComplete
             /\ processor'["video"].basePTS = processor["video"].basePTS
          \/ /\ ~processor["video"].processPTSComplete /\ injectPc'["video"] = "found"
             /\ stream.periods[period]["video"][next["video"]] # "init" /\ next' = next
             /\ processor'["video"].processPTSComplete /\ processor'["video"].basePTS = period
      BY <1>6, <2>3, BeginFields
    <3>3. processor'["video"].initSegmentProcessComplete = processor["video"].initSegmentProcessComplete
      BY <1>6, <2>3, BeginFields
    <3>. QED  BY <2>1, <2>3, <3>1, <3>2, <3>3
  <2>. QED  BY <2>2, <2>3
<1>7. ASSUME NEW t \in Tracks, BmffSend(t) PROVE BmffBaseInv'
  BY <1>7, Formats, StreamFixed DEF BmffSend, player, At, Return, Goto
<1>8. ASSUME TSWaitForBase PROVE BmffBaseInv'
  BY <1>8, Formats, StreamFixed DEF TSWaitForBase, player, TS, AwaitsBase,
      Aborted, At, Goto
<1>9. ASSUME TSWoken PROVE BmffBaseInv'
  BY <1>9, Formats, StreamFixed DEF TSWoken, player, TS, Aborted, At, Goto
<1>10. ASSUME BmffWaitForBase PROVE BmffBaseInv'
  BY <1>10, Formats, StreamFixed DEF BmffWaitForBase, player, AwaitsBase, At,
      Goto, TS
<1>11. ASSUME BmffWoken PROVE BmffBaseInv'
  BY <1>11, Formats, StreamFixed DEF BmffWoken, player, Aborted, At, Goto,
      Return, TS
<1>12. ASSUME BmffReady PROVE BmffBaseInv'
  <2>1. stream' = stream /\ period' = period /\ injectPc["audio"] = "ready" /\ next'["video"] = next["video"]
        /\ injectPc' = [injectPc EXCEPT !["audio"] = injectPc'["audio"]]
        /\ injectPc'["audio"] \in {"push", "loop"}
    BY <1>12 DEF BmffReady, player, At, Goto, Return
  <2>2. CASE PushInitSegment("audio")
    BY <1>12, <2>1, <2>2, PushFields
  <2>3. CASE UNCHANGED processor
    BY <2>1, <2>3
  <2>. QED  BY <1>12, <2>2, <2>3 DEF BmffReady
<1>13. ASSUME BmffFound PROVE BmffBaseInv'
  BY <1>13, Formats, StreamFixed DEF BmffFound, player, Aborted, At, Goto,
      Return, TS
<1>14. ASSUME BmffFlush PROVE BmffBaseInv'
  BY <1>14, Formats, StreamFixed DEF BmffFlush, player, At, Goto
<1>15. ASSUME BmffTellPeer PROVE BmffBaseInv'
  BY <1>15, Formats, StreamFixed DEF BmffTellPeer, player, SetBasePTS, Signal,
      At, TS
<1>16. ASSUME BmffInit PROVE BmffBaseInv'
  <2>1. stream' = stream /\ period' = period /\ injectPc["video"] = "init" /\ next' = next
        /\ injectPc' = [injectPc EXCEPT !["video"] = "push"]
    BY <1>16 DEF BmffInit, player, At, Goto
  <2>2. PushInitSegment("video")
    BY <1>16 DEF BmffInit
  <2>. QED  BY <1>16, <2>1, <2>2, PushFields
<1>17. ASSUME StartInjection PROVE BmffBaseInv'
  BY <1>17, Formats, StreamFixed DEF StartInjection, Reset, AwaitsBase, Base,
      Goto, Control, TS, TSReset, BmffReset, Constructed
<1>18. ASSUME ProcessPendingDiscontinuity PROVE BmffBaseInv'
  BY <1>18, Formats, StreamFixed DEF ProcessPendingDiscontinuity, injector, At,
      Control
<1>19. ASSUME AbortWaitForCachedFragment PROVE BmffBaseInv'
  BY <1>19, Formats, StreamFixed DEF AbortWaitForCachedFragment, Control
<1>20. ASSUME AbortProcessor PROVE BmffBaseInv'
  BY <1>20, Formats, StreamFixed DEF AbortProcessor, TS, Signal, Goto, Control
<1>21. ASSUME AwaitProcessing PROVE BmffBaseInv'
  BY <1>21, Formats, StreamFixed DEF AwaitProcessing, injector, Control
<1>22. ASSUME StopInjectLoop PROVE BmffBaseInv'
  BY <1>22, Formats, StreamFixed DEF StopInjectLoop, At, Goto, Control
<1>23. ASSUME FlushSink PROVE BmffBaseInv'
  BY <1>23, Formats, StreamFixed DEF FlushSink, TS, Control
<1>24. ASSUME Stop PROVE BmffBaseInv'
  BY <1>24, Formats, StreamFixed DEF Stop, injector, Control
<1>. QED  BY <1>1, <1>2, <1>3, <1>4, <1>5, <1>6, <1>7, <1>8, <1>9, <1>10, <1>11,
      <1>12, <1>13, <1>14, <1>15, <1>16, <1>17, <1>18, <1>19, <1>20, <1>21,
      <1>22, <1>23, <1>24
          DEF Next, PlayerStep, Injector, Tracks

\* Video of fragmented MP4 pushes its init fragments when it has found the base.
LEMMA BmffFoundStep ==
    ASSUME TypeOK, CtlInv, HaltInv, BMFF, BmffFoundInv, Next
    PROVE  BmffFoundInv'
<1>. USE DEF BmffFoundInv, Live, Running, Tracks, TypeOK
<1>1. ASSUME NEW t \in Tracks, InjectLoop(t) PROVE BmffFoundInv'
  BY <1>1, Formats, StreamFixed DEF InjectLoop, player, At, Goto
<1>2. ASSUME NEW t \in Tracks, BmffBegin(t) PROVE BmffFoundInv'
  <2>1. injectPc[t] = "send" /\ abortInject' = abortInject
    BY <1>2 DEF BmffBegin, At
  <2>2. CASE t = "audio"
    <3>1. injectPc'["video"] = injectPc["video"] /\ processor'["video"] = processor["video"]
      BY <1>2, <2>2, BeginFields DEF Tracks
    <3>. QED  BY <2>1, <3>1, StreamFixed
  <2>3. CASE t = "video"
    <3>1. \/ processor' = processor
          \/ /\ ~processor["video"].processPTSComplete
             /\ processor'["video"].processPTSComplete = processor["video"].processPTSComplete
          \/ injectPc'["video"] = "found"
      BY <1>2, <2>3, BeginFields
    <3>2. /\ processor["video"].processPTSComplete => injectPc'["video"] # "off"
      BY <1>2, <2>3, BeginFields
    <3>. QED  BY <2>1, <2>3, <3>1, <3>2, StreamFixed
  <2>. QED  BY <2>2, <2>3 DEF Tracks
<1>3. ASSUME NEW t \in Tracks, BmffSend(t) PROVE BmffFoundInv'
  BY <1>3, Formats, StreamFixed DEF BmffSend, player, At, Return, Goto
<1>4. ASSUME BmffWaitForBase PROVE BmffFoundInv'
  BY <1>4, Formats, StreamFixed DEF BmffWaitForBase, player, AwaitsBase, At,
      Goto
<1>5. ASSUME BmffWoken PROVE BmffFoundInv'
  BY <1>5, Formats, StreamFixed DEF BmffWoken, player, Aborted, At, Goto, Return
<1>6. ASSUME BmffReady PROVE BmffFoundInv'
  <2>1. abortInject' = abortInject /\ injectPc'["video"] = injectPc["video"]
    BY <1>6 DEF BmffReady, Goto, Return
  <2>2. CASE PushInitSegment("audio")
    <3>1. processor'["video"] = processor["video"]
      BY <2>2, PushFields DEF Tracks
    <3>. QED  BY <2>1, <3>1, StreamFixed
  <2>3. CASE UNCHANGED processor
    BY <2>1, <2>3, StreamFixed
  <2>. QED  BY <1>6, <2>2, <2>3 DEF BmffReady
<1>7. ASSUME BmffFound PROVE BmffFoundInv'
  <2>1. /\ abortInject' = abortInject /\ injectPc["video"] = "found" 
        /\ injectPc'["video"] \in {"loop", "flush"} /\ processor' = processor
    BY <1>7 DEF BmffFound, Goto, Return, At, Tracks
  <2>2. processor["video"].abortAll => ~Live("video")
    BY Formats DEF HaltInv, Aborted, Tracks, Live, Running
  <2>3. ~processor["video"].abortAll => injectPc'["video"] = "flush"
    BY <1>7, Formats DEF BmffFound, Goto, Aborted, Tracks
  <2>. QED  BY <2>1, <2>2, <2>3, StreamFixed
<1>8. ASSUME BmffFlush PROVE BmffFoundInv'
  BY <1>8, Formats, StreamFixed DEF BmffFlush, player, At, Goto
<1>9. ASSUME BmffTellPeer PROVE BmffFoundInv'
  BY <1>9, Formats, StreamFixed DEF BmffTellPeer, player, SetBasePTS, Signal, At
<1>10. ASSUME BmffInit PROVE BmffFoundInv'
  <2>1. PushInitSegment("video")
    BY <1>10 DEF BmffInit
  <2>. QED  BY <2>1, PushFields DEF Tracks
<1>11. ASSUME StartInjection PROVE BmffFoundInv'
  BY <1>11, Formats, StreamFixed DEF StartInjection, Reset, AwaitsBase, Base,
      Goto, Control, TSReset, BmffReset, Constructed
<1>12. ASSUME ProcessPendingDiscontinuity PROVE BmffFoundInv'
  BY <1>12, Formats, StreamFixed DEF ProcessPendingDiscontinuity, injector, At,
      Control
<1>13. ASSUME AbortWaitForCachedFragment PROVE BmffFoundInv'
  BY <1>13, Formats, StreamFixed DEF AbortWaitForCachedFragment, Control
<1>14. ASSUME AbortProcessor PROVE BmffFoundInv'
  BY <1>14, Formats, StreamFixed DEF AbortProcessor, Signal, Goto, Control
<1>15. ASSUME AwaitProcessing PROVE BmffFoundInv'
  BY <1>15, Formats, StreamFixed DEF AwaitProcessing, injector, Control
<1>16. ASSUME StopInjectLoop PROVE BmffFoundInv'
  BY <1>16, Formats, StreamFixed DEF StopInjectLoop, At, Goto, Control
<1>17. ASSUME FlushSink PROVE BmffFoundInv'
  BY <1>17, Formats, StreamFixed DEF FlushSink, Control
<1>18. ASSUME Stop PROVE BmffFoundInv'
  BY <1>18, Formats, StreamFixed DEF Stop, injector, Control
<1>19. /\ ~(\E t \in Tracks : TSBegin(t) \/ TSDemux(t) \/ TSSend(t) \/ TSEnd(t))
      /\ ~TSWaitForBase /\ ~TSWoken
  BY Formats DEF TSBegin, TSDemux, TSSend, TSEnd, TSWaitForBase, TSWoken
<1>. QED  BY <1>1, <1>2, <1>3, <1>4, <1>5, <1>6, <1>7, <1>8, <1>9, <1>10, <1>11,
      <1>12, <1>13, <1>14, <1>15, <1>16, <1>17, <1>18, <1>19
          DEF Next, PlayerStep, Injector

-----------------------------------------------------------------------------
(* What was sent *)

\* A step that leaves a track of a transport stream alone, ...
LEMMA TSSentFrame ==
    ASSUME NEW t \in Tracks, TSSent(t), stream' = stream, period' = period,
           sink'[t] = sink[t], next'[t] = next[t], Live(t)' => Live(t),
           injectPc'[t] = "end" <=> injectPc[t] = "end",
           injectPc'[t] \in {"base", "wait", "woken", "demux", "push"} =>
             injectPc[t] \in {"base", "wait", "woken", "demux", "push"}
    PROVE  TSSent(t)'
<1>1. Fragments(t)' = Fragments(t)
  BY DEF Fragments
<1>2. injectPc'[t] \in {"base", "wait", "woken", "demux", "push"} =>
        Fragments(t)'[next'[t]] # "bad"
  BY <1>1 DEF TSSent
<1>3. ASSUME Live(t)'
      PROVE  Whole(sink'[t], period', Fragments(t)', IF injectPc'[t] = "end" THEN next'[t] ELSE next'[t] - 1)
  BY <1>1, <1>3 DEF TSSent
<1>. QED  BY <1>2, <1>3 DEF TSSent

\* ... and all the steps: what was taken was sent.
LEMMA TSSentStep ==
    ASSUME TypeOK, CtlInv, PlaceInv, RangeInv, HaltInv, PastInv, TSBaseInv, TSSentInv, TS, Next
    PROVE  TSSentInv'
<1>. USE DEF TypeOK, TSSentInv, Live, Running
<1>0. /\ stream' = stream /\ TS' = TS
      /\ \A t \in Tracks : TSSent(t)
      /\ \A t \in Tracks : Live(t) => processor[t].m_enabled
  BY StreamFixed DEF HaltInv, Aborted
<1>1. ASSUME NEW t \in Tracks, InjectLoop(t) PROVE TSSentInv'
  <2>. SUFFICES ASSUME NEW u \in Tracks PROVE TSSent(u)'
    BY <1>0
  <2>1. /\ period' = period /\ sink'[u] = sink[u] /\ next'[u] = next[u] /\ (Live(u)' => Live(u))
        /\ (injectPc'[u] = "end" <=> injectPc[u] = "end")
        /\ (injectPc'[u] \in {"base", "wait", "woken", "demux", "push"} =>
              injectPc[u] \in {"base", "wait", "woken", "demux", "push"})
    BY <1>1 DEF InjectLoop, player, At, Goto
  <2>. QED  BY <1>0, <2>1, TSSentFrame
<1>2. ASSUME NEW t \in Tracks, TSBegin(t) PROVE TSSentInv'
  <2>0. t \in Tracks /\ period' = period
    BY <1>2 DEF TSBegin, player, Tracks
  <2>1. ASSUME NEW u \in Tracks \ {t} PROVE TSSent(u)'
    <3>1. /\ period' = period /\ sink'[u] = sink[u] /\ next'[u] = next[u] /\ (Live(u)' => Live(u))
          /\ (injectPc'[u] = "end" <=> injectPc[u] = "end")
          /\ (injectPc'[u] \in {"base", "wait", "woken", "demux", "push"} =>
                injectPc[u] \in {"base", "wait", "woken", "demux", "push"})
      BY <1>2 DEF TSBegin, player, At, Goto, Return
    <3>. QED  BY <1>0, <3>1, TSSentFrame
  <2>2. TSSent(t)'
    <3>0. injectPc[t] = "send" /\ abortInject' = abortInject /\ sink' = sink /\ Fragments(t)' = Fragments(t)
      BY <1>2, <1>0 DEF TSBegin, At, player, Fragments
    <3>1. CASE ~processor[t].m_enabled
      <4>1. ~Live(t) /\ injectPc'[t] = "loop"
        BY <1>2, <1>0, <3>1 DEF TSBegin, Return, Goto
      <4>. QED  BY <3>0, <4>1 DEF TSSent
    <3>2. CASE processor[t].m_enabled /\ Fragments(t)[next[t]] = "bad"
      <4>1. injectPc'[t] = "end" /\ next' = next
        BY <1>2, <2>0, <3>2 DEF TSBegin, Goto
      <4>2. Live(t) => Whole(sink[t], period, Fragments(t), next[t] - 1)
        BY <1>0, <3>0 DEF TSSent
      <4>3. next[t] - 1 \in Nat /\ (next[t] - 1) + 1 = next[t]
        BY <1>2 DEF RangeInv
      <4>4. Live(t) => Whole(sink[t], period, Fragments(t), next[t])
        BY <3>2, <4>2, <4>3, WholeSkips
      <4>. QED  BY <2>0, <3>0, <4>1, <4>4 DEF TSSent
    <3>3. CASE processor[t].m_enabled /\ Fragments(t)[next[t]] # "bad"
      <4>1. injectPc'[t] \in {"base", "demux"} /\ next' = next
        BY <1>2, <2>0, <3>3 DEF TSBegin, Goto
      <4>. QED  BY <1>0, <2>0, <3>0, <3>3, <4>1 DEF TSSent
    <3>. QED  BY <3>1, <3>2, <3>3
  <2>. QED  BY <1>0, <2>1, <2>2
<1>3. ASSUME NEW t \in Tracks, TSDemux(t) PROVE TSSentInv'
  <2>1. /\ t \in Tracks /\ period' = period /\ sink' = sink /\ next' = next
        /\ abortInject' = abortInject /\ injectPc[t] = "demux"
    BY <1>3 DEF TSDemux, At, player
  <2>2. /\ injectPc'[t] = "push"
        /\ \A u \in Tracks \ {t} : injectPc'[u] = injectPc[u] \/ injectPc'[u] = Signal(injectPc[u])
    BY <1>3, DemuxFields DEF Tracks
  <2>3. \A u \in Tracks \ {t} :
          injectPc'[u] = injectPc[u] \/ (injectPc'[u] = "woken" /\ injectPc[u] = "wait")
    BY <2>2 DEF Signal
  <2>. SUFFICES ASSUME NEW u \in Tracks PROVE TSSent(u)'
    BY <1>0
  <2>4. /\ sink'[u] = sink[u] /\ next'[u] = next[u] /\ (Live(u)' => Live(u))
        /\ (injectPc'[u] = "end" <=> injectPc[u] = "end")
        /\ (injectPc'[u] \in {"base", "wait", "woken", "demux", "push"} =>
              injectPc[u] \in {"base", "wait", "woken", "demux", "push"})
    BY <2>1, <2>2, <2>3
  <2>. QED  BY <1>0, <2>1, <2>4, TSSentFrame
<1>4. ASSUME NEW t \in Tracks, TSSend(t) PROVE TSSentInv'
  <2>0. t \in Tracks /\ period' = period
    BY <1>4 DEF TSSend, player, Tracks
  <2>1. ASSUME NEW u \in Tracks \ {t} PROVE TSSent(u)'
    <3>1. /\ period' = period /\ sink'[u] = sink[u] /\ next'[u] = next[u] /\ (Live(u)' => Live(u))
          /\ (injectPc'[u] = "end" <=> injectPc[u] = "end")
          /\ (injectPc'[u] \in {"base", "wait", "woken", "demux", "push"} =>
                injectPc[u] \in {"base", "wait", "woken", "demux", "push"})
      BY <1>4 DEF TSSend, player, At, Goto
    <3>. QED  BY <1>0, <3>1, TSSentFrame
  <2>2. TSSent(t)'
    <3>1. /\ injectPc[t] = "push" /\ injectPc'[t] = "end" /\ abortInject' = abortInject /\ next' = next
          /\ Fragments(t)' = Fragments(t)
      BY <1>4, <1>0 DEF TSSend, At, Goto, player, Fragments
    <3>2. processor[t].base_pts = period
      BY <1>4, <3>1 DEF TSBaseInv, Tracks
    <3>. DEFINE x == Item(next[t], period)
    <3>3. sink'[t] = Append(sink[t], x)
      BY <1>4, <3>2 DEF TSSend
    <3>4. x \in Items /\ x = [period |-> period, frag |-> next[t], base |-> period] /\ period \in Nat
      BY ItemTypes, Formats
    <3>. HIDE DEF x
    <3>5. next[t] - 1 \in Nat /\ (next[t] - 1) + 1 = next[t]
      BY <1>4 DEF RangeInv
    <3>6. Live(t) => Whole(sink[t], period, Fragments(t), next[t] - 1)
      BY <1>0, <3>1 DEF TSSent
    <3>7. Fragments(t)[next[t]] # "bad"
      BY <1>0, <3>1 DEF TSSent
    <3>8. sink[t] \in Seq(Items)
      BY <1>4
    <3>9. Live(t) => Whole(Append(sink[t], x), period, Fragments(t), next[t])
      BY <3>4, <3>5, <3>6, <3>7, <3>8, WholeAppends
    <3>. QED  BY <2>0, <3>1, <3>3, <3>9 DEF TSSent
  <2>. QED  BY <1>0, <2>1, <2>2
<1>5. ASSUME NEW t \in Tracks, TSEnd(t) PROVE TSSentInv'
  <2>0. t \in Tracks /\ period' = period
    BY <1>5 DEF TSEnd, player, Tracks
  <2>1. ASSUME NEW u \in Tracks \ {t} PROVE TSSent(u)'
    <3>1. /\ period' = period /\ sink'[u] = sink[u] /\ next'[u] = next[u] /\ (Live(u)' => Live(u))
          /\ (injectPc'[u] = "end" <=> injectPc[u] = "end")
          /\ (injectPc'[u] \in {"base", "wait", "woken", "demux", "push"} =>
                injectPc[u] \in {"base", "wait", "woken", "demux", "push"})
      BY <1>5 DEF TSEnd, player, At, Return, Goto
    <3>. QED  BY <1>0, <3>1, TSSentFrame
  <2>2. TSSent(t)'
    <3>1. /\ injectPc[t] = "end" /\ injectPc'[t] = "loop" /\ abortInject' = abortInject
          /\ next'[t] = next[t] + 1
          /\ Fragments(t)' = Fragments(t) /\ sink' = sink
      BY <1>5, <1>0 DEF TSEnd, At, Goto, Return, player, Fragments
    <3>2. next'[t] - 1 = next[t]
      BY <1>5, <3>1
    <3>. QED  BY <1>0, <2>0, <3>1, <3>2 DEF TSSent
  <2>. QED  BY <1>0, <2>1, <2>2
<1>6. ASSUME TSWaitForBase PROVE TSSentInv'
  <2>0. "audio" \in Tracks /\ period' = period
    BY <1>6 DEF TSWaitForBase, player, Tracks
  <2>1. ASSUME NEW u \in Tracks \ {"audio"} PROVE TSSent(u)'
    <3>1. /\ period' = period /\ sink'[u] = sink[u] /\ next'[u] = next[u] /\ (Live(u)' => Live(u))
          /\ (injectPc'[u] = "end" <=> injectPc[u] = "end")
          /\ (injectPc'[u] \in {"base", "wait", "woken", "demux", "push"} =>
                injectPc[u] \in {"base", "wait", "woken", "demux", "push"})
      BY <1>6 DEF TSWaitForBase, player, At, Goto, Tracks
    <3>. QED  BY <1>0, <3>1, TSSentFrame
  <2>2. TSSent("audio")'
    <3>1. /\ injectPc["audio"] \in {"base", "woken"} /\ injectPc'["audio"] \in {"wait", "demux", "end"}
          /\ abortInject' = abortInject /\ sink' = sink /\ next' = next
      BY <1>6 DEF TSWaitForBase, At, Goto, Tracks
    <3>2. CASE injectPc'["audio"] # "end"
      BY <1>0, <2>0, <3>1, <3>2, TSSentFrame
    <3>3. CASE injectPc'["audio"] = "end"
      <4>1. ~processor["audio"].m_enabled
        BY <1>6, <3>3 DEF TSWaitForBase, Aborted, Goto, Tracks
      <4>. QED  BY <1>0, <2>0, <3>1, <3>3, <4>1 DEF TSSent
    <3>. QED  BY <3>2, <3>3
  <2>. QED  BY <1>0, <2>1, <2>2
<1>7. ASSUME TSWoken PROVE TSSentInv'
  <2>0. "audio" \in Tracks /\ period' = period
    BY <1>7 DEF TSWoken, player, Tracks
  <2>1. ASSUME NEW u \in Tracks \ {"audio"} PROVE TSSent(u)'
    <3>1. /\ period' = period /\ sink'[u] = sink[u] /\ next'[u] = next[u] /\ (Live(u)' => Live(u))
          /\ (injectPc'[u] = "end" <=> injectPc[u] = "end")
          /\ (injectPc'[u] \in {"base", "wait", "woken", "demux", "push"} =>
                injectPc[u] \in {"base", "wait", "woken", "demux", "push"})
      BY <1>7 DEF TSWoken, player, At, Goto, Tracks
    <3>. QED  BY <1>0, <3>1, TSSentFrame
  <2>2. TSSent("audio")'
    <3>1. /\ injectPc["audio"] \in {"base", "woken"} /\ injectPc'["audio"] \in {"wait", "demux", "end"}
          /\ abortInject' = abortInject /\ sink' = sink /\ next' = next
      BY <1>7 DEF TSWoken, At, Goto, Tracks
    <3>2. CASE injectPc'["audio"] # "end"
      BY <1>0, <2>0, <3>1, <3>2, TSSentFrame
    <3>3. CASE injectPc'["audio"] = "end"
      <4>1. ~processor["audio"].m_enabled
        BY <1>7, <3>3 DEF TSWoken, Aborted, Goto, Tracks
      <4>. QED  BY <1>0, <2>0, <3>1, <3>3, <4>1 DEF TSSent
    <3>. QED  BY <3>2, <3>3
  <2>. QED  BY <1>0, <2>1, <2>2
<1>8. ASSUME StartInjection PROVE TSSentInv'
  <2>0. PICK t \in Tracks : t = ctlTrack
    BY DEF TypeOK
  <2>1. /\ injectPc' = [injectPc EXCEPT ![t] = "loop"] /\ next' = next /\ sink' = sink
        /\ abortInject' = [abortInject EXCEPT ![t] = FALSE]
        /\ NotStarted(t) /\ period' = period
    BY <1>8, <2>0 DEF StartInjection, Goto, NotStarted, Tracks
  <2>2. ASSUME NEW u \in Tracks \ {t} PROVE TSSent(u)'
    <3>1. sink'[u] = sink[u] /\ next'[u] = next[u] /\ (Live(u)' => Live(u)) /\ injectPc'[u] = injectPc[u]
      BY <2>1, <2>2
    <3>. QED  BY <1>0, <2>1, <2>2, <3>1, TSSentFrame
  <2>3. TSSent(t)'
    <3>1. Fragments(t)' = Fragments(t) /\ injectPc'[t] = "loop"
      BY <1>0, <2>0, <2>1 DEF Fragments
    <3>2. next'[t] - 1 = 0
      BY <2>0, <2>1 DEF RangeInv
    <3>3. \A i \in DOMAIN sink[t] : sink[t][i].period # period
      <4>1. \A i \in DOMAIN sink[t] : sink[t][i].period < period
        BY <2>0, <2>1 DEF PastInv
      <4>2. \A i \in DOMAIN sink[t] : sink[t][i].period \in Nat
        <5>. SUFFICES ASSUME NEW i \in DOMAIN sink[t] PROVE sink[t][i].period \in Nat
          OBVIOUS
        <5>1. sink[t] \in Seq(Items)
          BY <2>0
        <5>2. sink[t][i] \in Items
          BY <5>1
        <5>. QED  BY <5>2 DEF Items
      <4>3. period \in Nat
        BY Formats
      <4>. QED  BY <4>1, <4>2, <4>3
    <3>4. Whole(sink[t], period, Fragments(t), 0)
      BY <3>3, WholeStarts
    <3>. QED  BY <2>1, <3>1, <3>2, <3>4 DEF TSSent
  <2>. QED  BY <1>0, <2>2, <2>3
<1>9. ASSUME ProcessPendingDiscontinuity PROVE TSSentInv'
  <2>. SUFFICES ASSUME NEW u \in Tracks PROVE TSSent(u)'
    BY <1>0
  <2>1. /\ period' = period /\ sink'[u] = sink[u] /\ next'[u] = next[u] /\ (Live(u)' => Live(u))
        /\ (injectPc'[u] = "end" <=> injectPc[u] = "end")
        /\ (injectPc'[u] \in {"base", "wait", "woken", "demux", "push"} =>
              injectPc[u] \in {"base", "wait", "woken", "demux", "push"})
    BY <1>9 DEF ProcessPendingDiscontinuity, injector, At, Control
  <2>. QED  BY <1>0, <2>1, TSSentFrame
<1>10. ASSUME AbortWaitForCachedFragment PROVE TSSentInv'
  <2>. SUFFICES ASSUME NEW u \in Tracks PROVE TSSent(u)'
    BY <1>0
  <2>1. /\ period' = period /\ sink'[u] = sink[u] /\ next'[u] = next[u] /\ (Live(u)' => Live(u))
        /\ (injectPc'[u] = "end" <=> injectPc[u] = "end")
        /\ (injectPc'[u] \in {"base", "wait", "woken", "demux", "push"} =>
              injectPc[u] \in {"base", "wait", "woken", "demux", "push"})
    BY <1>10 DEF AbortWaitForCachedFragment, Control
  <2>. QED  BY <1>0, <2>1, TSSentFrame
<1>11. ASSUME AwaitProcessing PROVE TSSentInv'
  <2>. SUFFICES ASSUME NEW u \in Tracks PROVE TSSent(u)'
    BY <1>0
  <2>1. /\ period' = period /\ sink'[u] = sink[u] /\ next'[u] = next[u] /\ (Live(u)' => Live(u))
        /\ (injectPc'[u] = "end" <=> injectPc[u] = "end")
        /\ (injectPc'[u] \in {"base", "wait", "woken", "demux", "push"} =>
              injectPc[u] \in {"base", "wait", "woken", "demux", "push"})
    BY <1>11 DEF AwaitProcessing, injector, Control
  <2>. QED  BY <1>0, <2>1, TSSentFrame
<1>12. ASSUME Stop PROVE TSSentInv'
  <2>. SUFFICES ASSUME NEW u \in Tracks PROVE TSSent(u)'
    BY <1>0
  <2>1. /\ period' = period /\ sink'[u] = sink[u] /\ next'[u] = next[u] /\ (Live(u)' => Live(u))
        /\ (injectPc'[u] = "end" <=> injectPc[u] = "end")
        /\ (injectPc'[u] \in {"base", "wait", "woken", "demux", "push"} =>
              injectPc[u] \in {"base", "wait", "woken", "demux", "push"})
    BY <1>12 DEF Stop, injector, Control
  <2>. QED  BY <1>0, <2>1, TSSentFrame
<1>13. ASSUME AbortProcessor PROVE TSSentInv'
  <2>. SUFFICES ASSUME NEW u \in Tracks PROVE TSSent(u)'
    BY <1>0
  <2>1. /\ period' = period /\ sink'[u] = sink[u] /\ next'[u] = next[u] /\ (Live(u)' => Live(u))
        /\ (injectPc'[u] = "end" <=> injectPc[u] = "end")
        /\ (injectPc'[u] \in {"base", "wait", "woken", "demux", "push"} =>
              injectPc[u] \in {"base", "wait", "woken", "demux", "push"})
    BY <1>13 DEF AbortProcessor, Signal, Goto, Control
  <2>. QED  BY <1>0, <2>1, TSSentFrame
<1>14. ASSUME StopInjectLoop PROVE TSSentInv'
  <2>. SUFFICES ASSUME NEW u \in Tracks PROVE TSSent(u)'
    BY <1>0
  <2>1. /\ period' = period /\ sink'[u] = sink[u] /\ next'[u] = next[u] /\ (Live(u)' => Live(u))
        /\ (injectPc'[u] = "end" <=> injectPc[u] = "end")
        /\ (injectPc'[u] \in {"base", "wait", "woken", "demux", "push"} =>
              injectPc[u] \in {"base", "wait", "woken", "demux", "push"})
    BY <1>14 DEF StopInjectLoop, At, Goto, Control
  <2>. QED  BY <1>0, <2>1, TSSentFrame
<1>15. ASSUME FlushSink PROVE TSSentInv'
  <2>1. \A u \in Tracks : injectPc'[u] = "off"
    BY <1>15 DEF FlushSink, CtlInv, Joined
  <2>. QED  BY <1>0, <2>1 DEF TSSent
<1>16. /\ ~ \E t \in Tracks : BmffBegin(t) \/ BmffSend(t)
      /\ ~(BmffWaitForBase \/ BmffWoken \/ BmffReady)
      /\ ~(BmffFound \/ BmffFlush \/ BmffTellPeer \/ BmffInit)
  BY Formats DEF BmffBegin, BmffSend, BmffWaitForBase, BmffWoken, BmffReady,
      BmffFound, BmffFlush, BmffTellPeer, BmffInit
<1>. QED  BY <1>1, <1>2, <1>3, <1>4, <1>5, <1>6, <1>7, <1>8, <1>9, <1>10, <1>11,
      <1>12, <1>13, <1>14, <1>15, <1>16
          DEF Next, PlayerStep, Injector, Tracks

\* A step that leaves a track alone leaves what it has sent.
LEMMA BmffSentFrame ==
    ASSUME NEW t \in Tracks, BmffSent(t), stream' = stream, period' = period,
           BMFF' = BMFF, sink'[t] = sink[t], next'[t] = next[t],
           processor'[t].initSegment = processor[t].initSegment,
           processor'[t].initSegmentProcessComplete = processor[t].initSegmentProcessComplete,
           Live(t)' => Live(t),
           Live(t) /\ injectPc'[t] = "push" =>
             injectPc[t] = "push" \/ processor[t].initSegmentProcessComplete
    PROVE  BmffSent(t)'
<1>1. Fragments(t)' = Fragments(t)
  BY DEF Fragments
<1>2. AllKept(t) => AllKept(t)'
  BY DEF AllKept
<1>. SUFFICES ASSUME Live(t)'
     PROVE  /\ injectPc'[t] = "push" => processor'[t].initSegmentProcessComplete
            /\ ~processor'[t].initSegmentProcessComplete => AllKept(t)'
            /\ processor'[t].initSegmentProcessComplete =>
                 /\ processor'[t].initSegment = <<>>
                 /\ Whole(sink'[t], period', Fragments(t)', next'[t] - 1)
  BY DEF BmffSent
<1>3. Live(t)
  OBVIOUS
<1>4. Whole(sink[t], period, Fragments(t), next[t] - 1) =>
        Whole(sink'[t], period', Fragments(t)', next'[t] - 1)
  BY <1>1
<1>. QED  BY <1>2, <1>3, <1>4 DEF BmffSent

\* An injector that is over or aborted owes nothing.
LEMMA BmffSentIdle ==
    ASSUME NEW t \in Tracks, ~Live(t)'
    PROVE  BmffSent(t)'
BY DEF BmffSent

\* What fragmented MP4 has taken it keeps, or has sent.
LEMMA BmffSentStep ==
    ASSUME TypeOK, CtlInv, PlaceInv, RangeInv, HaltInv, PastInv, BmffBaseInv, BmffSentInv,
           BmffFoundInv, BMFF, Next
    PROVE  BmffSentInv'
<1>. USE DEF TypeOK
<1>0. /\ stream' = stream /\ BMFF' = BMFF /\ BMFF' /\ ~TS
      /\ processor \in [Tracks -> BmffFields]
      /\ \A t \in Tracks : BmffSent(t)
      /\ \A t \in Tracks : Live(t) => ~processor[t].abortAll
  BY StreamFixed, Formats DEF HaltInv, Aborted, BmffSentInv, BMFF
<1>1. ASSUME NEW t \in Tracks, InjectLoop(t) PROVE BmffSentInv'
  <2>. SUFFICES ASSUME NEW u \in Tracks PROVE BmffSent(u)'
    BY <1>0 DEF BmffSentInv
  <2>1. /\ period' = period /\ sink'[u] = sink[u] /\ next'[u] = next[u] /\ (Live(u)' => Live(u))
        /\ (injectPc'[u] = "push" => injectPc[u] = "push")
        /\ processor'[u].initSegment = processor[u].initSegment
        /\ processor'[u].initSegmentProcessComplete = processor[u].initSegmentProcessComplete
    BY <1>0, <1>1 DEF InjectLoop, player, At, Goto, Live, Running
  <2>. QED  BY <1>0, <2>1, BmffSentFrame
<1>2. ASSUME NEW t \in Tracks, BmffBegin(t) PROVE BmffSentInv'
  <2>0. t \in Tracks /\ period' = period
    BY <1>2 DEF BmffBegin, player, Tracks
  <2>1. ASSUME NEW u \in Tracks \ {t} PROVE BmffSent(u)'
    <3>1. /\ period' = period /\ sink'[u] = sink[u] /\ next'[u] = next[u] /\ (Live(u)' => Live(u))
          /\ (injectPc'[u] = "push" => injectPc[u] = "push")
          /\ processor'[u].initSegment = processor[u].initSegment
          /\ processor'[u].initSegmentProcessComplete = processor[u].initSegmentProcessComplete
      BY <1>0, <1>2, BeginFields DEF BmffBegin, At, player, Goto, Return, Live, Running
    <3>. QED  BY <1>0, <3>1, BmffSentFrame
  <2>2. BmffSent(t)'
    <3>1. /\ injectPc[t] = "send" /\ abortInject' = abortInject /\ sink' = sink
          /\ Fragments(t)' = Fragments(t)
          /\ processor'[t].initSegmentProcessComplete = processor[t].initSegmentProcessComplete
          /\ Live(t)' => Live(t)
      BY <1>0, <1>2, BeginFields DEF BmffBegin, At, player, Fragments, Live, Running
    <3>2. CASE /\ ~processor[t].processPTSComplete /\ Fragments(t)[next[t]] = "init"
               /\ processor'[t].initSegment = Append(processor[t].initSegment, next[t])
               /\ next' = [next EXCEPT ![t] = next[t] + 1]
               /\ injectPc' = [injectPc EXCEPT ![t] = "loop"]
      <4>1. ~processor[t].initSegmentProcessComplete
        BY <2>0, <3>1, <3>2 DEF BmffBaseInv, Running
      <4>2. next'[t] = next[t] + 1 /\ next[t] \in Nat \ {0} /\ injectPc'[t] = "loop"
        BY <2>0, <3>2 DEF RangeInv
      <4>3. Live(t)' => AllKept(t)'
        <5>. SUFFICES ASSUME Live(t)' PROVE AllKept(t)'
          OBVIOUS
        <5>1. AllKept(t)
          BY <1>0, <2>0, <3>1, <4>1 DEF BmffSent
        <5>2. processor'[t].initSegment = [f \in 1 .. ((next[t] + 1) - 1) |-> f]
          BY <3>2, <4>2, <5>1, KeepsOneMore DEF AllKept
        <5>. QED  BY <1>0, <2>0, <3>1, <4>2, <5>1, <5>2 DEF AllKept
      <4>. QED  BY <3>1, <4>1, <4>2, <4>3 DEF BmffSent
    <3>3. CASE /\ next' = next /\ processor'[t].initSegment = processor[t].initSegment
               /\ injectPc'[t] # "push" \/ (t = "video" /\ processor[t].processPTSComplete)
      <4>1. Live(t) /\ injectPc'[t] = "push" => processor[t].initSegmentProcessComplete
        BY <3>1, <3>3 DEF BmffFoundInv
      <4>. QED  BY <1>0, <2>0, <3>1, <3>3, <4>1, BmffSentFrame
    <3>4. injectPc \in [Tracks -> InjectPcs] /\ t \in Tracks
      BY <2>0
    <3>. QED  BY <1>2, <3>2, <3>3, <3>4, BeginFields DEF Tracks
  <2>. QED  BY <1>0, <2>0, <2>1, <2>2 DEF BmffSentInv
<1>3. ASSUME BmffWaitForBase PROVE BmffSentInv'
  <2>. SUFFICES ASSUME NEW u \in Tracks PROVE BmffSent(u)'
    BY <1>0 DEF BmffSentInv
  <2>1. /\ period' = period /\ sink'[u] = sink[u] /\ next'[u] = next[u] /\ (Live(u)' => Live(u))
        /\ (injectPc'[u] = "push" => injectPc[u] = "push")
        /\ processor'[u].initSegment = processor[u].initSegment
        /\ processor'[u].initSegmentProcessComplete = processor[u].initSegmentProcessComplete
    BY <1>0, <1>3 DEF BmffWaitForBase, player, At, Goto, Live, Running
  <2>. QED  BY <1>0, <2>1, BmffSentFrame
<1>4. ASSUME BmffWoken PROVE BmffSentInv'
  <2>0. "audio" \in Tracks /\ period' = period
    BY <1>4 DEF BmffWoken, player, Tracks
  <2>1. ASSUME NEW u \in Tracks \ {"audio"} PROVE BmffSent(u)'
    <3>1. /\ period' = period /\ sink'[u] = sink[u] /\ next'[u] = next[u] /\ (Live(u)' => Live(u))
          /\ (injectPc'[u] = "push" => injectPc[u] = "push")
          /\ processor'[u].initSegment = processor[u].initSegment
          /\ processor'[u].initSegmentProcessComplete = processor[u].initSegmentProcessComplete
      BY <1>0, <1>4 DEF BmffWoken, player, At, Goto, Return, Live, Running, Tracks
    <3>. QED  BY <1>0, <3>1, BmffSentFrame
  <2>2. BmffSent("audio")'
    <3>1. /\ injectPc["audio"] = "woken" /\ injectPc'["audio"] \in {"loop", "ready"}
          /\ abortInject' = abortInject /\ sink' = sink /\ processor' = processor
      BY <2>0, <1>4 DEF BmffWoken, At, Goto, Return
    <3>2. CASE processor["audio"].abortAll
      <4>1. ~Live("audio")'
        BY <1>0, <2>0, <3>1, <3>2 DEF Live, Running
      <4>. QED  BY <2>0, <4>1, BmffSentIdle
    <3>3. CASE ~processor["audio"].abortAll
      <4>1. next' = next
        BY <1>0, <1>4, <3>3 DEF BmffWoken, Aborted
      <4>2. Live("audio")' => Live("audio")
        BY <3>1 DEF Live, Running
      <4>. QED  BY <1>0, <2>0, <3>1, <4>1, <4>2, BmffSentFrame
    <3>. QED  BY <3>2, <3>3
  <2>. QED  BY <1>0, <2>0, <2>1, <2>2 DEF BmffSentInv
<1>5. ASSUME BmffReady PROVE BmffSentInv'
  <2>0. "audio" \in Tracks /\ period' = period
    BY <1>5 DEF BmffReady, player, Tracks
  <2>1. ASSUME NEW u \in Tracks \ {"audio"} PROVE BmffSent(u)'
    <3>1. /\ period' = period /\ sink'[u] = sink[u] /\ next'[u] = next[u] /\ (Live(u)' => Live(u))
          /\ (injectPc'[u] = "push" => injectPc[u] = "push")
          /\ processor'[u].initSegment = processor[u].initSegment
          /\ processor'[u].initSegmentProcessComplete = processor[u].initSegmentProcessComplete
      <4>1. /\ period' = period /\ next'[u] = next[u] /\ injectPc'[u] = injectPc[u]
            /\ abortInject' = abortInject /\ u \in Tracks /\ u # "audio"
        BY <2>1, <1>5 DEF BmffReady, Goto, Return, player
      <4>2. CASE PushInitSegment("audio")
        <5>1. processor'[u] = processor[u]
          BY <2>0, <4>1, <4>2, PushFields
        <5>2. sink'[u] = sink[u]
          BY <4>1, <4>2 DEF PushInitSegment
        <5>. QED  BY <4>1, <5>1, <5>2 DEF Live, Running
      <4>3. CASE UNCHANGED <<processor, sink>>
        BY <4>1, <4>3 DEF Live, Running
      <4>. QED  BY <1>5, <4>2, <4>3 DEF BmffReady
    <3>. QED  BY <1>0, <3>1, BmffSentFrame
  <2>2. BmffSent("audio")'
    <3>1. /\ injectPc["audio"] = "ready" /\ injectPc'["audio"] \in {"push", "loop"}
          /\ abortInject' = abortInject /\ Fragments("audio")' = Fragments("audio")
          /\ Live("audio")' => Live("audio")
      BY <1>0, <2>0, <1>5 DEF BmffReady, At, Goto, Return, player, Fragments, Live, Running
    <3>2. CASE processor["audio"].initSegmentProcessComplete
      <4>1. next' = next /\ sink' = sink /\ processor' = processor
        BY <1>5, <3>2 DEF BmffReady
      <4>. QED  BY <1>0, <2>0, <3>1, <3>2, <4>1, BmffSentFrame
    <3>3. CASE ~processor["audio"].initSegmentProcessComplete
      <4>1. PushInitSegment("audio")
        BY <1>5, <3>3 DEF BmffReady
      <4>2. processor'["audio"].initSegment = <<>> /\ processor'["audio"].initSegmentProcessComplete
        BY <2>0, <4>1, PushFields
      <4>3. processor["audio"].basePTS = period /\ next["audio"] \in 1 .. Len(Fragments("audio"))
        <5>1. processor["audio"].basePTS = period
          BY <2>0, <3>1 DEF BmffBaseInv, Running
        <5>2. /\ next["audio"] \in 1 .. (Len(Fragments("audio")) + 1)
              /\ next["audio"] <= Len(Fragments("audio")) /\ Len(Fragments("audio")) \in Nat
          BY <2>0, <3>1, Formats DEF RangeInv
        <5>. QED  BY <5>1, <5>2
      <4>4. /\ processor["audio"].initSegment = <<>> => next'["audio"] = next["audio"] + 1
            /\ processor["audio"].initSegment # <<>> => next' = next
        BY <2>0, <1>5, <3>3 DEF BmffReady, Return
      <4>5. next["audio"] = 1 => (next["audio"] + 1) - 1 = 1
        OBVIOUS
      <4>6. Live("audio") => Whole(sink'["audio"], period, Fragments("audio"), next'["audio"] - 1)
        <5>. SUFFICES ASSUME Live("audio")
                      PROVE  Whole(sink'["audio"], period, Fragments("audio"), next'["audio"] - 1)
          OBVIOUS
        <5>1. AllKept("audio")
          BY <1>0, <2>0, <3>3 DEF BmffSent
        <5>2. /\ processor["audio"].initSegment = <<>> <=> next["audio"] = 1
              /\ processor["audio"].initSegment = <<>> =>
                   Whole(sink'["audio"], period, Fragments("audio"), 1)
              /\ processor["audio"].initSegment # <<>> =>
                   Whole(sink'["audio"], period, Fragments("audio"), next["audio"] - 1)
          BY <2>0, <4>1, <4>3, <5>1, PushesKept
        <5>3. CASE processor["audio"].initSegment = <<>>
          <6>1. next'["audio"] - 1 = 1
            BY <4>4, <4>5, <5>2, <5>3
          <6>. QED  BY <5>2, <5>3, <6>1
        <5>4. CASE processor["audio"].initSegment # <<>>
          BY <4>4, <5>2, <5>4
        <5>. QED  BY <5>3, <5>4
      <4>. QED  BY <2>0, <3>1, <4>2, <4>6 DEF BmffSent
    <3>. QED  BY <3>2, <3>3
  <2>. QED  BY <1>0, <2>0, <2>1, <2>2 DEF BmffSentInv
<1>6. ASSUME BmffInit PROVE BmffSentInv'
  <2>0. "video" \in Tracks /\ period' = period
    BY <1>6 DEF BmffInit, player, Tracks
  <2>1. ASSUME NEW u \in Tracks \ {"video"} PROVE BmffSent(u)'
    <3>1. /\ period' = period /\ sink'[u] = sink[u] /\ next'[u] = next[u] /\ (Live(u)' => Live(u))
          /\ (injectPc'[u] = "push" => injectPc[u] = "push")
          /\ processor'[u].initSegment = processor[u].initSegment
          /\ processor'[u].initSegmentProcessComplete = processor[u].initSegmentProcessComplete
      <4>1. /\ period' = period /\ next'[u] = next[u] /\ injectPc'[u] = injectPc[u]
            /\ abortInject' = abortInject /\ u \in Tracks /\ u # "video"
        BY <2>1, <1>6 DEF BmffInit, Goto, player
      <4>2. PushInitSegment("video")
        BY <1>6 DEF BmffInit
      <4>3. processor'[u] = processor[u]
        BY <2>0, <4>1, <4>2, PushFields
      <4>4. sink'[u] = sink[u]
        BY <4>1, <4>2 DEF PushInitSegment
      <4>. QED  BY <4>1, <4>3, <4>4 DEF Live, Running
    <3>. QED  BY <1>0, <3>1, BmffSentFrame
  <2>2. BmffSent("video")'
    <3>1. /\ injectPc["video"] = "init" /\ injectPc'["video"] = "push" /\ next' = next
          /\ abortInject' = abortInject /\ Fragments("video")' = Fragments("video")
          /\ Live("video")' => Live("video")
      BY <1>0, <2>0, <1>6 DEF BmffInit, At, Goto, player, Fragments, Live, Running
    <3>2. PushInitSegment("video")
      BY <1>6 DEF BmffInit
    <3>3. processor'["video"].initSegment = <<>> /\ processor'["video"].initSegmentProcessComplete
      BY <2>0, <3>2, PushFields
    <3>4. /\ processor["video"].basePTS = period /\ ~processor["video"].initSegmentProcessComplete
          /\ Fragments("video")[next["video"]] # "init"
      BY <2>0, <3>1 DEF BmffBaseInv, Running
    <3>5. next["video"] \in 1 .. Len(Fragments("video")) /\ next["video"] # 1
      <4>1. /\ next["video"] \in 1 .. (Len(Fragments("video")) + 1)
            /\ next["video"] <= Len(Fragments("video")) /\ Len(Fragments("video")) \in Nat
        BY <2>0, <3>1, Formats DEF RangeInv
      <4>2. Fragments("video")[1] = "init"
        BY <2>0, Formats
      <4>. QED  BY <3>4, <4>1, <4>2
    <3>6. Live("video") => AllKept("video")
      BY <1>0, <2>0, <3>4 DEF BmffSent
    <3>7. Live("video") => Whole(sink'["video"], period, Fragments("video"), next["video"] - 1)
      BY <2>0, <3>2, <3>4, <3>5, <3>6, PushesKept
    <3>. QED  BY <2>0, <3>1, <3>3, <3>7 DEF BmffSent
  <2>. QED  BY <1>0, <2>0, <2>1, <2>2 DEF BmffSentInv
<1>7. ASSUME BmffFound PROVE BmffSentInv'
  <2>0. "video" \in Tracks /\ period' = period
    BY <1>7 DEF BmffFound, player, Tracks
  <2>1. ASSUME NEW u \in Tracks \ {"video"} PROVE BmffSent(u)'
    <3>1. /\ period' = period /\ sink'[u] = sink[u] /\ next'[u] = next[u] /\ (Live(u)' => Live(u))
          /\ (injectPc'[u] = "push" => injectPc[u] = "push")
          /\ processor'[u].initSegment = processor[u].initSegment
          /\ processor'[u].initSegmentProcessComplete = processor[u].initSegmentProcessComplete
      BY <1>0, <1>7 DEF BmffFound, player, At, Goto, Return, Live, Running, Tracks
    <3>. QED  BY <1>0, <3>1, BmffSentFrame
  <2>2. BmffSent("video")'
    <3>1. /\ injectPc["video"] = "found" /\ injectPc'["video"] \in {"loop", "flush"}
          /\ abortInject' = abortInject /\ sink' = sink /\ processor' = processor
      BY <2>0, <1>7 DEF BmffFound, At, Goto, Return
    <3>2. CASE processor["video"].abortAll
      <4>1. ~Live("video")'
        BY <1>0, <2>0, <3>1, <3>2 DEF Live, Running
      <4>. QED  BY <2>0, <4>1, BmffSentIdle
    <3>3. CASE ~processor["video"].abortAll
      <4>1. next' = next
        BY <1>0, <1>7, <3>3 DEF BmffFound, Aborted
      <4>2. Live("video")' => Live("video")
        BY <3>1 DEF Live, Running
      <4>. QED  BY <1>0, <2>0, <3>1, <4>1, <4>2, BmffSentFrame
    <3>. QED  BY <3>2, <3>3
  <2>. QED  BY <1>0, <2>0, <2>1, <2>2 DEF BmffSentInv
<1>8. ASSUME BmffFlush PROVE BmffSentInv'
  <2>. SUFFICES ASSUME NEW u \in Tracks PROVE BmffSent(u)'
    BY <1>0 DEF BmffSentInv
  <2>1. /\ period' = period /\ sink'[u] = <<>> /\ next' = next /\ processor' = processor
        /\ injectPc["video"] = "flush" /\ (Live(u)' => Live(u))
        /\ (injectPc'[u] = "push" => injectPc[u] = "push")
    BY <1>8 DEF BmffFlush, At, Goto, player, Live, Running
  <2>2. ~processor["video"].initSegmentProcessComplete
    BY <2>1 DEF BmffBaseInv
  <2>3. Running("audio") => ~processor["audio"].initSegmentProcessComplete
    BY <2>1 DEF BmffBaseInv, Tracks
  <2>4. Live(u) => ~processor[u].initSegmentProcessComplete /\ AllKept(u) /\ injectPc[u] # "push"
    BY <1>0, <2>2, <2>3 DEF Tracks, BmffSent, Live
  <2>5. AllKept(u) => AllKept(u)'
    BY <1>0, <2>1 DEF AllKept
  <2>. QED  BY <2>1, <2>4, <2>5 DEF BmffSent
<1>9. ASSUME BmffTellPeer PROVE BmffSentInv'
  <2>1. /\ period' = period /\ sink' = sink /\ next' = next /\ abortInject' = abortInject
        /\ "video" \in Tracks /\ "audio" \in Tracks
    BY <1>9 DEF BmffTellPeer, player, Tracks
  <2>2. processor' = [processor EXCEPT !["audio"] =
                        SetBasePTS(processor["audio"], processor["video"].basePTS)]
    BY <1>9 DEF BmffTellPeer
  <2>3. injectPc' = [injectPc EXCEPT !["video"] = "init", !["audio"] = Signal(injectPc["audio"])]
    BY <1>9 DEF BmffTellPeer
  <2>4. \A u \in Tracks : injectPc'[u] # "push" \/ injectPc'[u] = injectPc[u]
    BY <2>3 DEF Signal, Tracks
  <2>5. injectPc["video"] = "tellPeer" /\ \A u \in Tracks : injectPc[u] = "off" => injectPc'[u] = "off"
    BY <1>9, <2>3 DEF Signal, Tracks, BmffTellPeer, At
  <2>6. processor["video"] \in BmffFields /\ processor["audio"] \in BmffFields
    BY <1>0, <2>1
  <2>7. processor["video"].basePTS \in Nat
    BY <2>6 DEF BmffFields
  <2>8. /\ SetBasePTS(processor["audio"], processor["video"].basePTS).initSegment
             = processor["audio"].initSegment
        /\ SetBasePTS(processor["audio"], processor["video"].basePTS).initSegmentProcessComplete
             = processor["audio"].initSegmentProcessComplete
    BY <1>0, <2>6, <2>7, SetsBaseBmff
  <2>. SUFFICES ASSUME NEW u \in Tracks PROVE BmffSent(u)'
    BY <1>0 DEF BmffSentInv
  <2>9. /\ processor'[u].initSegment = processor[u].initSegment
        /\ processor'[u].initSegmentProcessComplete = processor[u].initSegmentProcessComplete
    BY <1>0, <2>2, <2>8 DEF Tracks
  <2>10. Live(u)' => Live(u)
    BY <2>1, <2>5 DEF Live, Running
  <2>. QED  BY <1>0, <2>1, <2>4, <2>9, <2>10, BmffSentFrame
<1>10. ASSUME NEW t \in Tracks, BmffSend(t) PROVE BmffSentInv'
  <2>0. t \in Tracks /\ period' = period
    BY <1>10 DEF BmffSend, player, Tracks
  <2>1. ASSUME NEW u \in Tracks \ {t} PROVE BmffSent(u)'
    <3>1. /\ period' = period /\ sink'[u] = sink[u] /\ next'[u] = next[u] /\ (Live(u)' => Live(u))
          /\ (injectPc'[u] = "push" => injectPc[u] = "push")
          /\ processor'[u].initSegment = processor[u].initSegment
          /\ processor'[u].initSegmentProcessComplete = processor[u].initSegmentProcessComplete
      BY <1>0, <1>10 DEF BmffSend, player, At, Return, Goto, Live, Running
    <3>. QED  BY <1>0, <3>1, BmffSentFrame
  <2>2. BmffSent(t)'
    <3>1. /\ injectPc[t] = "push" /\ injectPc'[t] = "loop" /\ processor' = processor
          /\ next'[t] = next[t] + 1 /\ Fragments(t)' = Fragments(t)
          /\ Live(t)' => Live(t)
      BY <1>0, <2>0, <1>10 DEF BmffSend, At, Goto, Return, player, Fragments, Live, Running
    <3>. DEFINE x == Item(next[t], period)
    <3>3. sink'[t] = Append(sink[t], x)
      BY <2>0, <1>10 DEF BmffSend
    <3>4. x \in Items /\ x = [period |-> period, frag |-> next[t], base |-> period] /\ period \in Nat
      BY <2>0, ItemTypes, Formats
    <3>. HIDE DEF x
    <3>5. next[t] - 1 \in Nat /\ (next[t] - 1) + 1 = next[t] /\ (next[t] + 1) - 1 = next[t]
      BY <2>0 DEF RangeInv
    <3>6. Live(t) => /\ processor[t].initSegmentProcessComplete /\ processor[t].initSegment = <<>>
                     /\ Whole(sink[t], period, Fragments(t), next[t] - 1)
      BY <1>0, <2>0, <3>1 DEF BmffSent
    <3>7. Fragments(t)[next[t]] # "bad"
      <4>1. /\ next[t] \in 1 .. (Len(Fragments(t)) + 1) /\ next[t] <= Len(Fragments(t))
            /\ Len(Fragments(t)) \in Nat
        BY <2>0, <3>1, Formats DEF RangeInv
      <4>2. \A i \in 1 .. Len(Fragments(t)) : Fragments(t)[i] # "bad"
        BY <2>0, Formats
      <4>. QED  BY <4>1, <4>2
    <3>8. sink[t] \in Seq(Items)
      BY <2>0
    <3>9. Live(t) => Whole(Append(sink[t], x), period, Fragments(t), next[t])
      BY <3>4, <3>5, <3>6, <3>7, <3>8, WholeAppends
    <3>. QED  BY <2>0, <3>1, <3>3, <3>5, <3>6, <3>9 DEF BmffSent
  <2>. QED  BY <1>0, <2>0, <2>1, <2>2 DEF BmffSentInv
<1>11. ASSUME StartInjection PROVE BmffSentInv'
  <2>0. PICK t \in Tracks : t = ctlTrack
    OBVIOUS
  <2>1. /\ injectPc' = [injectPc EXCEPT ![t] = "loop"] /\ next' = next /\ sink' = sink
        /\ abortInject' = [abortInject EXCEPT ![t] = FALSE]
        /\ processor' = [processor EXCEPT ![t] = Constructed]
        /\ NotStarted(t) /\ period' = period
    BY <1>0, <1>11, <2>0 DEF StartInjection, Goto, NotStarted, Tracks, Reset, BmffReset
  <2>2. ASSUME NEW u \in Tracks \ {t} PROVE BmffSent(u)'
    <3>1. /\ sink'[u] = sink[u] /\ next'[u] = next[u] /\ injectPc'[u] = injectPc[u]
          /\ processor'[u] = processor[u] /\ abortInject'[u] = abortInject[u]
      BY <1>0, <2>1, <2>2
    <3>2. Live(u)' => Live(u)
      BY <3>1 DEF Live, Running
    <3>. QED  BY <1>0, <2>1, <2>2, <3>1, <3>2, BmffSentFrame
  <2>3. BmffSent(t)'
    <3>1. injectPc'[t] = "loop" /\ processor'[t] = Constructed
      BY <1>0, <2>0, <2>1
    <3>2. processor'[t].initSegment = <<>> /\ ~processor'[t].initSegmentProcessComplete
      BY <1>0, <3>1 DEF Constructed
    <3>3. next[t] = 1
      BY <2>0, <2>1 DEF RangeInv
    <3>4. \A i \in DOMAIN sink[t] : sink[t][i].period # period
      <4>1. \A i \in DOMAIN sink[t] : sink[t][i].period < period
        BY <2>0, <2>1 DEF PastInv
      <4>2. \A i \in DOMAIN sink[t] : sink[t][i].period \in Nat
        <5>. SUFFICES ASSUME NEW i \in DOMAIN sink[t] PROVE sink[t][i].period \in Nat
          OBVIOUS
        <5>1. sink[t] \in Seq(Items)
          BY <2>0
        <5>2. sink[t][i] \in Items
          BY <5>1
        <5>. QED  BY <5>2 DEF Items
      <4>3. period \in Nat
        BY Formats
      <4>. QED  BY <4>1, <4>2, <4>3
    <3>5. next'[t] = 1 /\ sink'[t] = sink[t]
      BY <2>1, <3>3
    <3>6. <<>> = [f \in 1 .. (1 - 1) |-> f]
      OBVIOUS
    <3>7. AllKept(t)'
      BY <1>0, <2>1, <3>2, <3>4, <3>5, <3>6 DEF AllKept
    <3>. QED  BY <3>1, <3>2, <3>7 DEF BmffSent
  <2>. QED  BY <1>0, <2>2, <2>3 DEF BmffSentInv
<1>12. ASSUME ProcessPendingDiscontinuity PROVE BmffSentInv'
  <2>. SUFFICES ASSUME NEW u \in Tracks PROVE BmffSent(u)'
    BY <1>0 DEF BmffSentInv
  <2>1. /\ period' = period /\ sink'[u] = sink[u] /\ next'[u] = next[u] /\ (Live(u)' => Live(u))
        /\ (injectPc'[u] = "push" => injectPc[u] = "push")
        /\ processor'[u].initSegment = processor[u].initSegment
        /\ processor'[u].initSegmentProcessComplete = processor[u].initSegmentProcessComplete
    BY <1>0, <1>12 DEF ProcessPendingDiscontinuity, injector, At, Control, Live,
      Running
  <2>. QED  BY <1>0, <2>1, BmffSentFrame
<1>13. ASSUME AbortWaitForCachedFragment PROVE BmffSentInv'
  <2>. SUFFICES ASSUME NEW u \in Tracks PROVE BmffSent(u)'
    BY <1>0 DEF BmffSentInv
  <2>1. /\ period' = period /\ sink'[u] = sink[u] /\ next'[u] = next[u] /\ (Live(u)' => Live(u))
        /\ (injectPc'[u] = "push" => injectPc[u] = "push")
        /\ processor'[u].initSegment = processor[u].initSegment
        /\ processor'[u].initSegmentProcessComplete = processor[u].initSegmentProcessComplete
    BY <1>0, <1>13 DEF AbortWaitForCachedFragment, Control, Live, Running
  <2>. QED  BY <1>0, <2>1, BmffSentFrame
<1>14. ASSUME AwaitProcessing PROVE BmffSentInv'
  <2>. SUFFICES ASSUME NEW u \in Tracks PROVE BmffSent(u)'
    BY <1>0 DEF BmffSentInv
  <2>1. /\ period' = period /\ sink'[u] = sink[u] /\ next'[u] = next[u] /\ (Live(u)' => Live(u))
        /\ (injectPc'[u] = "push" => injectPc[u] = "push")
        /\ processor'[u].initSegment = processor[u].initSegment
        /\ processor'[u].initSegmentProcessComplete = processor[u].initSegmentProcessComplete
    BY <1>0, <1>14 DEF AwaitProcessing, injector, Control, Live, Running
  <2>. QED  BY <1>0, <2>1, BmffSentFrame
<1>15. ASSUME Stop PROVE BmffSentInv'
  <2>. SUFFICES ASSUME NEW u \in Tracks PROVE BmffSent(u)'
    BY <1>0 DEF BmffSentInv
  <2>1. /\ period' = period /\ sink'[u] = sink[u] /\ next'[u] = next[u] /\ (Live(u)' => Live(u))
        /\ (injectPc'[u] = "push" => injectPc[u] = "push")
        /\ processor'[u].initSegment = processor[u].initSegment
        /\ processor'[u].initSegmentProcessComplete = processor[u].initSegmentProcessComplete
    BY <1>0, <1>15 DEF Stop, injector, Control, Live, Running
  <2>. QED  BY <1>0, <2>1, BmffSentFrame
<1>16. ASSUME StopInjectLoop PROVE BmffSentInv'
  <2>. SUFFICES ASSUME NEW u \in Tracks PROVE BmffSent(u)'
    BY <1>0 DEF BmffSentInv
  <2>1. /\ period' = period /\ sink'[u] = sink[u] /\ next'[u] = next[u] /\ (Live(u)' => Live(u))
        /\ (injectPc'[u] = "push" => injectPc[u] = "push")
        /\ processor'[u].initSegment = processor[u].initSegment
        /\ processor'[u].initSegmentProcessComplete = processor[u].initSegmentProcessComplete
    BY <1>0, <1>16 DEF StopInjectLoop, At, Goto, Control, Live, Running
  <2>. QED  BY <1>0, <2>1, BmffSentFrame
<1>17. ASSUME AbortProcessor PROVE BmffSentInv'
  <2>. SUFFICES ASSUME NEW u \in Tracks PROVE BmffSent(u)'
    BY <1>0 DEF BmffSentInv
  <2>1. processor' = [processor EXCEPT ![ctlTrack].abortAll = TRUE]
    BY <1>0, <1>17 DEF AbortProcessor
  <2>2. /\ processor'[u].initSegment = processor[u].initSegment
        /\ processor'[u].initSegmentProcessComplete = processor[u].initSegmentProcessComplete
    BY <1>0, <2>1 DEF BmffFields
  <2>3. /\ period' = period /\ sink' = sink /\ next' = next /\ (Live(u)' => Live(u))
        /\ (injectPc'[u] = "push" => injectPc[u] = "push")
    BY <1>17 DEF AbortProcessor, Goto, Signal, Live, Running
  <2>. QED  BY <1>0, <2>2, <2>3, BmffSentFrame
<1>18. ASSUME FlushSink PROVE BmffSentInv'
  <2>. SUFFICES ASSUME NEW u \in Tracks PROVE BmffSent(u)'
    BY <1>0 DEF BmffSentInv
  <2>1. injectPc'[u] = "off"
    BY <1>18 DEF FlushSink, CtlInv, Joined
  <2>2. ~Live(u)'
    BY <2>1 DEF Live, Running
  <2>. QED  BY <2>2, BmffSentIdle
<1>19. /\ ~(\E t \in Tracks : TSBegin(t) \/ TSDemux(t) \/ TSSend(t) \/ TSEnd(t))
      /\ ~TSWaitForBase /\ ~TSWoken
  BY <1>0 DEF TSBegin, TSDemux, TSSend, TSEnd, TSWaitForBase, TSWoken
<1>. QED  BY <1>1, <1>2, <1>3, <1>4, <1>5, <1>6, <1>7, <1>8, <1>9, <1>10, <1>11,
      <1>12, <1>13, <1>14, <1>15, <1>16, <1>17, <1>18, <1>19
          DEF Next, PlayerStep, Injector, Tracks

-----------------------------------------------------------------------------
(* The invariant *)

\* A player that is about to start has sent nothing.
LEMMA InitIInv == Init => IInv
<1>. SUFFICES ASSUME Init PROVE IInv
  OBVIOUS
<1>. USE DEF Init
<1>1. /\ stream.format \in {"TS", "BMFF"}
      /\ stream.periods \in Seq([Tracks -> Seq(Kinds(stream.format))])
      /\ stream.periods # <<>>
  BY StreamAssumption
<1>2. /\ DOMAIN stream.periods = 1 .. Len(stream.periods) /\ Len(stream.periods) \in Nat
      /\ 1 \in DOMAIN stream.periods
  BY <1>1
<1>3. stream.periods[1] \in [Tracks -> Seq(Kinds(stream.format))]
  BY <1>1, <1>2
<1>4. \A t \in Tracks : Len(Fragments(t)) \in Nat
  BY <1>3 DEF Fragments
<1>5. TypeOK
  <2>1. TS => Constructed \in TSFields
    BY DEF Constructed, TSFields
  <2>2. BMFF => Constructed \in BmffFields
    BY DEF Constructed, BmffFields, TS, BMFF
  <2>3. sink \in [Tracks -> Seq(Items)]
    OBVIOUS
  <2>. QED  BY <1>2, <2>1, <2>2, <2>3 DEF TypeOK, Ctls, InjectPcs, Tracks
<1>6. CtlInv
  BY DEF CtlInv, NotStarted, Joined
<1>7. PlaceInv /\ TSBaseInv /\ TSSentInv
  BY DEF PlaceInv, TSBaseInv, TSSentInv, TSSent, Running, Live, Tracks
<1>8. RangeInv
  BY <1>4 DEF RangeInv
<1>9. HaltInv
  BY DEF HaltInv, Live, Running
<1>10. PastInv
  BY DEF PastInv
<1>11. BmffBaseInv /\ BmffSentInv /\ BmffFoundInv
  BY DEF BmffBaseInv, BmffSentInv, BmffSent, BmffFoundInv, Running, Live, Tracks
<1>. QED  BY <1>5, <1>6, <1>7, <1>8, <1>9, <1>10, <1>11 DEF IInv

\* A step of the player or of an injector keeps it, and so does a stutter.
LEMMA IInvStep == IInv /\ [Next]_vars => IInv'
<1>. SUFFICES ASSUME IInv, [Next]_vars PROVE IInv'
  OBVIOUS
<1>1. ASSUME Next PROVE IInv'
  <2>. USE <1>1 DEF IInv
  <2>1. TypeOK'
    BY TypeStep
  <2>2. TS' = TS /\ BMFF' = BMFF
    BY StreamFixed
  <2>3. CtlInv' /\ PlaceInv' /\ RangeInv' /\ HaltInv' /\ PastInv'
    BY CtlStep, PlaceStep, RangeStep, HaltStep, PastStep
  <2>4. TSBaseInv'
    BY <2>2, TSBaseStep DEF TSBaseInv
  <2>5. TSSentInv'
    BY <2>2, TSSentStep DEF TSSentInv
  <2>6. BmffBaseInv'
    BY <2>2, BmffBaseStep DEF BmffBaseInv
  <2>7. BmffSentInv'
    BY <2>2, BmffSentStep DEF BmffSentInv
  <2>8. BmffFoundInv'
    BY <2>2, BmffFoundStep DEF BmffFoundInv
  <2>. QED  BY <2>1, <2>3, <2>4, <2>5, <2>6, <2>7, <2>8
<1>2. CASE UNCHANGED vars
  <2>. USE <1>2 DEF IInv, vars, player, injector, TS, BMFF, Fragments, Running, Live,
                    NotStarted, Joined
  <2>1. TypeOK'
    BY DEF TypeOK
  <2>2. CtlInv' /\ PlaceInv' /\ RangeInv' /\ PastInv'
    BY DEF CtlInv, PlaceInv, RangeInv, PastInv
  <2>3. HaltInv'
    BY DEF HaltInv, Aborted
  <2>4. TSBaseInv' /\ BmffBaseInv' /\ BmffFoundInv'
    BY DEF TSBaseInv, BmffBaseInv, BmffFoundInv
  <2>5. TSSentInv'
    BY DEF TSSentInv, TSSent
  <2>6. BmffSentInv'
    BY DEF BmffSentInv, BmffSent, AllKept
  <2>. QED  BY <2>1, <2>2, <2>3, <2>4, <2>5, <2>6
<1>. QED  BY <1>1, <1>2

LEMMA AlwaysIInv == Spec => []IInv
BY InitIInv, IInvStep, PTL DEF Spec

\* The variables keep their types, for every stream.
THEOREM SegmentTypeCorrect == Spec => []TypeOK
<1>1. IInv => TypeOK
  BY DEF IInv
<1>. QED  BY <1>1, AlwaysIInv, PTL

\* Between two fragments the invariant says what PeriodIntact does.
LEMMA IntactBetweenFragments == IInv => PeriodIntact
<1>. SUFFICES ASSUME IInv, NEW t \in Tracks, At(t, "loop"), ~abortInject[t]
              PROVE  \/ AllKept(t)
                     \/ /\ BMFF => processor[t].initSegment = <<>>
                        /\ Whole(sink[t], period, Fragments(t), next[t] - 1)
  BY DEF PeriodIntact, IInv
<1>1. Live(t) /\ injectPc[t] # "end"
  BY DEF Live, Running, At
<1>2. CASE TS
  <2>1. Whole(sink[t], period, Fragments(t), next[t] - 1)
    BY <1>1, <1>2 DEF IInv, TSSentInv, TSSent
  <2>. QED  BY <1>2, <2>1, Formats DEF IInv
<1>3. CASE BMFF
  BY <1>1, <1>3 DEF IInv, BmffSentInv, BmffSent
<1>. QED  BY <1>2, <1>3, Formats DEF IInv

\* Whatever the stream, its periods and their fragments, a track that was not
\* aborted has given the sink what it took, in order and timed from the base
\* of the period, or keeps all of it until the base is known.
THEOREM PeriodsStayIntact == Spec => []PeriodIntact
BY IntactBetweenFragments, AlwaysIInv, PTL
=============================================================================
