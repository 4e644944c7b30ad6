---------------------------- MODULE MCMarketData ----------------------------
(***************************************************************************)
(* Instances of MarketData for TLC.                                        *)
(***************************************************************************)
EXTENDS MarketData

CONSTANTS okx, binance

OnePrivate == {okx}
OnePublic  == {binance}
TwoPrices  == 1..2
=============================================================================
