------------------------- MODULE MCDrmSessionManager -------------------------
(* DrmSessionManager with a cache that is smaller than the set of keys.      *)
EXTENDS DrmSessionManager

CONSTANTS video, audio, k1, k2, k3

TwoTracks == {video, audio}
ThreeKeys == {k1, k2, k3}
KeyRotation == [t \in TwoTracks |-> IF t = video THEN {k1} ELSE {k1, k2, k3}]
=============================================================================
