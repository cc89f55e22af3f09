---------------------------- MODULE MCDrmSetCrtc ----------------------------
(* A small instance of DrmSetCrtc for TLC.                                 *)
EXTENDS DrmSetCrtc

CONSTANTS c1, c2

TwoConnectors == {c1, c2}
=============================================================================
