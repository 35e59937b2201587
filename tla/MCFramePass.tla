---------------------------- MODULE MCFramePass ----------------------------
(* A small instance of FramePass: frames of different sizes.               *)
EXTENDS FramePass

MCSamples == [f \in 0 .. 2 |-> <<3, 2, 5>>[f + 1]]
MCDestination == [f \in 0 .. 2 |-> <<5, 0, 9>>[f + 1]]
============================================================================
