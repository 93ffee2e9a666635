---------------------------- MODULE MCH2cWrite ------------------------------
(* Two or three calls with chains of up to MaxDescs descriptors, in any of *)
(* three buffers of consistent memory.                                     *)
EXTENDS H2cWrite

MCBuffers == 1..3
============================================================================
