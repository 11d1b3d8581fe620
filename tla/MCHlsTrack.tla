----------------------------- MODULE MCHlsTrack -----------------------------
(***************************************************************************)
(* Streams to check HlsTrack with.                                         *)
(***************************************************************************)
EXTENDS HlsTrack, TLC

Vod == [live |-> FALSE, window |-> 0, ends |-> FALSE, lag |-> 0, map |-> "none",
        disc |-> <<>>, video |-> TRUE, start |-> 0, delta |-> 0, limit |-> -1,
        faults |-> {"fragment", "init", "playlist"}]

TypicalStreams == {
  \* a VOD asset of transport streams with a discontinuity, from mid-fragment
  [Vod EXCEPT !.disc = 3 :> 0, !.start = 1, !.limit = 1],
  \* the other track has none around; its own is later, by one fragment and a half
  [Vod EXCEPT !.disc = 2 :> NoMatch @@ 4 :> 3, !.faults = {"playlist"}],
  \* fragmented MP4, one init fragment for all, or one for each period
  [Vod EXCEPT !.map = "once", !.disc = 3 :> 2, !.faults = {"playlist"}],
  [Vod EXCEPT !.map = "each", !.disc = 2 :> 0 @@ 4 :> 0, !.faults = @ \cup {"stop"}],
  \* an audio track without adaptive bitrate
  [Vod EXCEPT !.map = "each", !.video = FALSE, !.disc = 3 :> 0],
  \* trick play in both directions, over one fragment and a half at a time
  [Vod EXCEPT !.map = "once", !.delta = 3, !.limit = 0],
  [Vod EXCEPT !.delta = 1],
  [Vod EXCEPT !.map = "once", !.delta = -3, !.start = 2 * LastFragment - 1],
  \* a live window of two fragments that slides, profiles one fragment apart
  [Vod EXCEPT !.live = TRUE, !.window = 2, !.lag = 1, !.disc = 3 :> 0,
              !.faults = {"playlist", "ring", "fragment"}],
  [Vod EXCEPT !.live = TRUE, !.window = 3, !.map = "once", !.faults = {"ring", "fragment"}],
  \* an event that ends, fragmented MP4 with periods
  [Vod EXCEPT !.live = TRUE, !.ends = TRUE, !.lag = 1, !.map = "each", !.disc = 3 :> 0,
              !.faults = {"ring", "fragment", "init", "stop"}]}
=============================================================================
