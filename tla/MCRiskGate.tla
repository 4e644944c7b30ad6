----------------------------- MODULE MCRiskGate -----------------------------
(***************************************************************************)
(* Instances of RiskGate for TLC.                                          *)
(***************************************************************************)
EXTENDS RiskGate

CONSTANTS e1, e2, e3

ThreeExecs == {e1, e2, e3}

\* All of them come from the API: see PnlAccumulates.
NoExecs == {}

\* A loss beyond the limit of 1, and a profit that crosses it the second time.
MixedGains == {-2, 1}
=============================================================================
