---------------------------- MODULE MCMediaTrack ----------------------------
(* MediaTrack on small instances. One discontinuity, in the middle of the    *)
(* playlist, so that the ring can be full while the injector waits there.    *)
EXTENDS MediaTrack

MCDiscontinuities == {2}
NoDiscontinuities == {}
NoEmptyBodies == {}
LastBodyEmpty == {3}
LiveAndVod == {TRUE, FALSE}
VodOnly == {FALSE}
StateCondOnly == {"mStateCond"}
NoSpuriousWakeups == {}
=============================================================================
