------------------------------- MODULE MCSink -------------------------------
EXTENDS Sink, TLC

Stream(isVod, starves, caches, buffers, hasAudio, pauses, seeks) ==
    [vod |-> isVod, underflow |-> starves, caching |-> caches,
     prebuffer |-> buffers, audio |-> hasAudio,
     user |-> ("pause" :> pauses @@ "seek" :> seeks)]

(* Recorded streams: one that the sink buffers and the user pauses and     *)
(* seeks, two that are cached before they play, paused meanwhile or        *)
(* sought, and one whose audio has ended.  Live ones with underflows, one  *)
(* of them cached.                                                         *)
PlaySet ==
    {Stream(TRUE, "never", FALSE, TRUE, "data", 2, 1),
     Stream(TRUE, "end", TRUE, FALSE, "data", 1, 0),
     Stream(TRUE, "end", TRUE, FALSE, "data", 0, 1),
     Stream(TRUE, "never", FALSE, TRUE, "empty", 1, 1),
     Stream(FALSE, "any", FALSE, TRUE, "data", 1, 0),
     Stream(FALSE, "any", TRUE, FALSE, "data", 1, 0)}
(* A recorded stream that starves before its end.                          *)
StarvingSet == {Stream(TRUE, "any", FALSE, TRUE, "data", 0, 0)}
=============================================================================
