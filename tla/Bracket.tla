-------------------------------- MODULE Bracket --------------------------------
(***************************************************************************)
(* What a bracket order promises, as build_bracket_order and               *)
(* place_bracket_order of execution/engine.py describe it: an entry with a *)
(* protective stop and a target, placed as a whole or not at all.  The     *)
(* entry never trades without its exits waiting, one exit closes the       *)
(* position and takes the other with it, and a bracket loses its exits     *)
(* only together with every other order: in a kill, or at the close.       *)
(***************************************************************************)
CONSTANT Brackets

VARIABLE phase

Phases == {"absent", "working", "open", "closed", "bare"}

Init == phase = [b \in Brackets |-> "absent"]

\* The bracket comes to work, all of it.
Place(b) ==
    /\ phase[b] = "absent"
    /\ phase' = [phase EXCEPT ![b] = "working"]

\* The entry trades.
Enter(b) ==
    /\ phase[b] = "working"
    /\ phase' = [phase EXCEPT ![b] = "open"]

\* The stop or the target trades.
Exit(b) ==
    /\ phase[b] = "open"
    /\ phase' = [phase EXCEPT ![b] = "closed"]

\* Every order is cancelled: brackets that were waiting are gone, positions
\* are left without exits.
Cancelled(p) == CASE p = "working" -> "absent" [] p = "open" -> "bare" [] OTHER -> p
CancelEverything == phase' = [b \in Brackets |-> Cancelled(phase[b])]

Next ==
    \/ \E b \in Brackets : Place(b) \/ Enter(b) \/ Exit(b)
    \/ CancelEverything

Spec == Init /\ [][Next]_phase
=============================================================================
