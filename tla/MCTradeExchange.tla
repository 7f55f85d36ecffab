-------------------------- MODULE MCTradeExchange --------------------------
(***************************************************************************)
(* Small instances of TradeExchange.                                       *)
(***************************************************************************)
EXTENDS TradeExchange
============================================================================
