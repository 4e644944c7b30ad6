---------------------------- MODULE MCInventory ----------------------------
(***************************************************************************)
(* Instances of Inventory for TLC.                                         *)
(***************************************************************************)
EXTENDS Inventory

CONSTANTS e1, e2, e3, x1, x2, h1

ThreeExchanges == <<e1, e2, e3>>
OneAsset       == <<"eth">>
TwoExecutions  == {x1, x2}
OneHook        == {h1}

\* The asset has no price in USDT, but one in BTC.
MCUsdtPrice == [a \in {"eth"} |-> 0]
MCBtcPrice  == [a \in {"eth"} |-> 2]
=============================================================================
