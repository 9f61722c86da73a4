-------------------------------- MODULE MCConfig --------------------------------
(* Instances of ConfigStore for TLC: the name a is a prefix of the name ab. *)
EXTENDS ConfigStore, TLC

CONSTANTS a, ab

MCPrefixes == {<<a, a>>, <<ab, ab>>, <<a, ab>>}
===============================================================================
