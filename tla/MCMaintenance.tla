----------------------------- MODULE MCMaintenance -----------------------------
EXTENDS Maintenance

CONSTANT w1

OneWindow == {w1}

(* A window that begins and ends while the clock runs.                     *)
StartsAtOne == [w \in {w1} |-> 1]
EndsAtThree == [w \in {w1} |-> 3]
=============================================================================
