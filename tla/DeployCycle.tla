----------------------------- MODULE DeployCycle -----------------------------
(***************************************************************************)
(* What the deploy guard promises of one service, with no goroutine in     *)
(* sight: operations follow one another; each takes the guard, may save    *)
(* what runs, replaces it, is verified, may put back what it saved unless  *)
(* it was lost meanwhile, and gives the guard back.  Containers of other   *)
(* digests appear only while an operation composes or restores.            *)
(***************************************************************************)
CONSTANTS Images,   \* images of the service
          Digests,  \* digests a container may run
          None      \* what an image without a container runs

VARIABLES guard,    \* the deploying flag
          phase,    \* where the operation is
          running,  \* digest of each image's container
          saved     \* what a rollback puts back: of each image a digest, or none

vars == <<guard, phase, running, saved>>

MaybeDigest == Digests \union {None}
Nothing == [i \in Images |-> {}]

Init ==
    /\ guard = FALSE
    /\ phase = "free"
    /\ running \in [Images -> MaybeDigest]
    /\ saved = Nothing

\* Any containers, and any containers among which the saved ones are back.
Recreated == running' \in [Images -> MaybeDigest]
Restored == Recreated /\ \A i \in Images : saved[i] \subseteq {running'[i]}

Begin ==
    /\ phase = "free"
    /\ phase' = "composing"
    /\ guard' = TRUE
    /\ UNCHANGED <<running, saved>>

Save ==
    /\ phase = "composing"
    /\ saved' \in [Images -> SUBSET Digests]
    /\ \A i \in Images : saved'[i] \subseteq {running[i]}
    /\ UNCHANGED <<guard, phase, running>>

\* Somebody else overwrites or removes what was saved.
Lose ==
    /\ saved' \in [Images -> SUBSET Digests]
    /\ \A i \in Images : saved'[i] \subseteq saved[i]
    /\ UNCHANGED <<guard, phase, running>>

\* compose is done.
Compose ==
    /\ phase = "composing"
    /\ phase' = "verifying"
    /\ Recreated
    /\ UNCHANGED <<guard, saved>>

Accept ==
    /\ phase = "verifying"
    /\ phase' = "done"
    /\ UNCHANGED <<guard, running, saved>>

RollBack ==
    /\ phase = "verifying"
    /\ phase' = "restoring"
    /\ UNCHANGED <<guard, running, saved>>

Restore ==
    /\ phase = "restoring"
    /\ phase' = "done"
    /\ Restored
    /\ UNCHANGED <<guard, saved>>

\* An operation may end in any phase: complete, cancelled, or failed.  Only a
\* compose that failed leaves other containers behind.
End ==
    /\ phase # "free"
    /\ phase' = "free"
    /\ guard' = FALSE
    /\ saved' = Nothing
    /\ running' = running \/ (phase \in {"composing", "restoring"} /\ Recreated)

\* The operator takes the project down.
Down ==
    /\ running' = [i \in Images |-> None]
    /\ UNCHANGED <<guard, phase, saved>>

Next == Begin \/ Save \/ Lose \/ Compose \/ Accept \/ RollBack \/ Restore \/ End \/ Down

Spec == Init /\ [][Next]_vars
=============================================================================
