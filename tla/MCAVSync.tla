------------------------------- MODULE MCAVSync ------------------------------
(* AVSync on small playlists.                                                *)
EXTENDS AVSync

\* Both tracks have the discontinuity, audio two fragments later than video.
Paired == [video |-> <<FALSE, TRUE, FALSE, FALSE, FALSE, FALSE>>,
           audio |-> <<FALSE, FALSE, FALSE, TRUE, FALSE, FALSE, FALSE>>]
\* Only video has one.
VideoAlone == [video |-> <<FALSE, TRUE, FALSE, FALSE, FALSE, FALSE, FALSE>>,
               audio |-> [i \in 1 .. 7 |-> FALSE]]
\* Audio has one that video has not, then both have one.
AudioFirst == [video |-> <<FALSE, FALSE, FALSE, FALSE, TRUE, FALSE, FALSE>>,
               audio |-> <<FALSE, TRUE, FALSE, FALSE, TRUE, FALSE, FALSE>>]
\* Each stream as it is played by default, the first one until it is stopped, and
\* one played with a retune for a discontinuity of video that audio has not.
Stream(playlist, useRetune, appStops) ==
    [playlist |-> playlist, useRetune |-> useRetune, appStops |-> appStops]
PlayedThrough == {Stream(Paired, FALSE, TRUE), Stream(AudioFirst, FALSE, FALSE),
                  Stream(VideoAlone, TRUE, FALSE)}
=============================================================================
