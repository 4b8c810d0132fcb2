---------------------------- MODULE MCFrameStream ----------------------------
EXTENDS FrameStream, TLC

CONSTANTS w1, w2

(* A frame one byte longer than its header, then one of two.               *)
MCLength == [f \in Frames |-> Header + f]

(* An empty message, and one that swallows a byte of the next frame.       *)
MCGarbageSizes == {Header, Header + 1}
=============================================================================
