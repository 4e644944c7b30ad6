--------------------------- MODULE MCAutoExecution ---------------------------
(***************************************************************************)
(* Instances of AutoExecution for TLC.                                     *)
(***************************************************************************)
EXTENDS AutoExecution

CONSTANTS t1, t2, t3, r1, btc

ThreeScans == {t1, t2, t3}
OneRequest == {r1}
OneSymbol  == {btc}
=============================================================================
