------------------------------ MODULE MCUpdater ------------------------------
(* Instances of Updater for TLC. *)
EXTENDS Updater, TLC

\* Images of repositories of their own, and the last two of one repository.
OwnRepos == [i \in 1 .. NumImages |-> i]
LastShared == [i \in 1 .. NumImages |-> IF i = NumImages /\ i > 1 THEN i - 1 ELSE i]

\* Triggers, verifiers and digests are interchangeable: no action and no safety
\* property names one.
Symmetry == Permutations(Triggers) \union Permutations(Verifiers) \union Permutations(Digests)
=============================================================================
