-------------------------------- MODULE EventLog --------------------------------
(***************************************************************************)
(* What the warden promises of its events: it keeps the last Capacity of   *)
(* them in the order they came, and a process starts with what the file    *)
(* holds, which is something that was kept at one time, or nothing if the  *)
(* writing of it was interrupted.                                          *)
(***************************************************************************)
EXTENDS Naturals, Sequences

CONSTANTS Capacity, Broken

VARIABLES
    kept,    \* events, oldest first
    saved,   \* the copy made for the file
    disk     \* what the file holds, or Broken

Latest(s) == IF Len(s) <= Capacity THEN s ELSE SubSeq(s, Len(s) - Capacity + 1, Len(s))

Init == kept = <<>> /\ saved = <<>> /\ disk = <<>>

\* An event arrives and is the last of those kept.
Record ==
    /\ kept' # <<>>
    /\ kept' = Latest(Append(kept, kept'[Len(kept')]))
    /\ UNCHANGED <<saved, disk>>

Copy == saved' = kept /\ UNCHANGED <<kept, disk>>
Write == disk' = saved /\ UNCHANGED <<kept, saved>>
Interrupt == disk' = Broken /\ UNCHANGED <<kept, saved>>

Restart ==
    /\ kept' = IF disk = Broken THEN <<>> ELSE disk
    /\ saved' = <<>>
    /\ UNCHANGED disk

Next == Record \/ Copy \/ Write \/ Interrupt \/ Restart

Spec == Init /\ [][Next]_<<kept, saved, disk>>
================================================================================
