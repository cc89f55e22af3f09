-------------------------- MODULE MCDmabufSamples --------------------------
(* DmabufSamples for TLC, with three buffers as in the programs.            *)
EXTENDS DmabufSamples
=============================================================================
