----------------------------- MODULE MCExecution -----------------------------
(***************************************************************************)
(* Instances of Execution for TLC.                                         *)
(***************************************************************************)
EXTENDS Execution

\* The planner keeps the opportunity's quantity, or clamps it to a balance
\* (nothing reads it later but OrdersFollowThePlan).
Unclamped == {Qty}
Clamped   == 0..Qty
=============================================================================
