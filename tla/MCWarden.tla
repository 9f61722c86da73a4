------------------------------- MODULE MCWarden -------------------------------
(* Instances of Warden for TLC. *)
EXTENDS Warden, TLC

CONSTANTS c1, c2, c3, near, far

\* Two clients behind one address, one behind another.
MCAddressOf == [c \in Clients |-> IF c = c3 THEN far ELSE near]

\* Requests are interchangeable, and so are the clients of one address.
Symmetry == Permutations(Requests) \union Permutations({c1, c2} \cap Clients)
===============================================================================
