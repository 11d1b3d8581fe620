----------------------------- MODULE MCMpdTrack -----------------------------
(* MpdTrack on small streams: each has one or two of the cases the code      *)
(* handles, and the faults that bear on them.                                *)
EXTENDS MpdTrack

S(p, row, t) == [p |-> p, row |-> row, t |-> t]

\* Two periods, the second with times of its own.
Vod ==
  [segs |-> <<S(1, 1, 10), S(1, 2, 20), S(2, 1, 100), S(2, 1, 110)>>,
   pto |-> <<0, 0>>, mute |-> {}, early |-> FALSE, initial |-> 4, live |-> FALSE, window |-> 0,
   adjust |-> FALSE, shared |-> FALSE, start |-> 1, newTune |-> TRUE, limit |-> -1,
   faults |-> {"audio", "video", "videoInit", "audioInit"}, budget |-> 2]

\* Two periods around an advertisement: the second begins before its offset; video may
\* ramp down once.
VodOffset ==
  [Vod EXCEPT !.segs = <<S(1, 1, 10), S(2, 1, 90), S(2, 1, 100), S(2, 2, 110)>>,
              !.pto = <<0, 105>>, !.limit = 1, !.faults = {"video", "stop"},
              !.budget = 3]

\* A period without audio, between two that have it.
VodMute ==
  [Vod EXCEPT !.segs = <<S(1, 1, 10), S(2, 1, 20), S(3, 1, 90), S(3, 1, 100)>>,
              !.pto = <<0, 0, 0>>, !.mute = {2}, !.faults = {"profile"}]

\* A window of three segments over two periods, the next period announced before it
\* has segments.
Live ==
  [segs |-> <<S(1, 1, 10), S(1, 1, 20), S(1, 2, 30), S(2, 1, 40)>>,
   pto |-> <<0, 0>>, mute |-> {}, early |-> TRUE, initial |-> 3, live |-> TRUE, window |-> 3,
   adjust |-> FALSE, shared |-> FALSE, start |-> 1, newTune |-> TRUE, limit |-> -1,
   faults |-> {"video", "profile", "stale", "timeout", "manifest"}, budget |-> 1]

\* All segments stay; the first one starts at 0, playback starts from the second. One
\* init fragment serves all.
LiveSeek ==
  [Live EXCEPT !.segs = <<S(1, 1, 0), S(1, 1, 10), S(1, 1, 20), S(2, 1, 90)>>,
               !.window = 0, !.early = FALSE, !.initial = 2, !.start = 2, !.newTune = FALSE,
               !.shared = TRUE, !.faults = {"audio", "video", "stale", "timeout"},
               !.budget = 2]

\* The times of a period start again: on demand, and on a stream that is kept at live.
VodReset ==
  [Vod EXCEPT !.segs = <<S(1, 1, 200), S(1, 2, 100), S(1, 2, 110)>>,
              !.pto = <<0>>, !.initial = 3, !.faults = {"video"}]
LiveReset ==
  [VodReset EXCEPT !.live = TRUE, !.initial = 1, !.window = 2, !.adjust = TRUE,
                   !.faults = {"timeout"}]

\* Playback starts from the segment at 0, the only one published.
LiveFirst ==
  [LiveSeek EXCEPT !.segs = SubSeq(@, 1, 3), !.start = 1, !.initial = 1, !.budget = 0]

MCStreams ==
  {Vod, VodOffset, VodMute, Live, LiveSeek, LiveFirst, VodReset, LiveReset}
=============================================================================
