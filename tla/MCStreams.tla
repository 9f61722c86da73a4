------------------------------- MODULE MCStreams -------------------------------
(* Instances of ApiStreams for TLC. *)
EXTENDS ApiStreams, TLC

CONSTANTS here

MCAddressOf == [c \in Clients |-> here]
===============================================================================
