---------------------------- MODULE MCChannelConfig ----------------------------
(* Values for ChannelConfig: two complete contents of a part, and one that the *)
(* device completes to the second whatever it holds.                           *)
EXTENDS ChannelConfig

CONSTANTS v1, v2, lacking

CompletedToSecond == [x \in {lacking} \X {v1, v2} |-> v2]
================================================================================
