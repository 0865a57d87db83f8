-------------------------- MODULE LaneSetIteration --------------------------
(***************************************************************************)
(* What a range-for over a BitMask (bit_mask.h) promises the loop that    *)
(* walks it, such as the probe loops' `for (uint32_t i : g.Match(h2))`:   *)
(* the lanes of the mask come out one at a time, each once, lowest first. *)
(* The loop may be left at any lane (find returns on a hit) and another   *)
(* mask taken, and a loop that is not left runs to its end.               *)
(***************************************************************************)
EXTENDS FiniteSets, Sequences, FiniteSetsExt

CONSTANT Lanes

VARIABLES remaining, out
avars == <<remaining, out>>

TypeOK == remaining \subseteq Lanes /\ out \in Seq(Lanes)

Init == remaining \in SUBSET Lanes /\ out = <<>>

\* The loop body sees the lowest lane still to come.
Yield ==
    /\ remaining # {}
    /\ out' = Append(out, Min(remaining))
    /\ remaining' = remaining \ {Min(remaining)}

\* The loop is left, or has ended, and a new mask is walked.
Restart ==
    /\ remaining' \in SUBSET Lanes
    /\ out' = <<>>

Next == Yield \/ Restart

Spec == Init /\ [][Next]_avars /\ WF_avars(Yield)
=============================================================================
