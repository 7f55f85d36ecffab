---------------------------- MODULE QueryScripts ----------------------------
(***************************************************************************)
(* The scripts that look at what the server answers: history, candles,     *)
(* symbol specifications, and the ws_debug_* scripts, some of which send a *)
(* trade to see its events.                                                *)
(***************************************************************************)
EXTENDS ScriptSteps

(* A trade whose messages are collected for some seconds, then a list of   *)
(* what is open.                                                           *)
TradeAndList == Ask(12) \o Gather \o Call(4)

(* ws_history.py: positions is unbound without the first list, and the     *)
(* symbol of the order comes from the table.                               *)
HistoryLists == Login \o Ask(3) \o Ask(34) \o Gather \o Call(4) \o Call(5)
HistoryTrades ==
    Need(4) \o Maybe(TradeAndList)
    \o Need(34) \o Ask(7) \o Await(8) \o IfGot(8, TradeAndList)
History == HistoryLists \o HistoryTrades

(* ws_test_candles.py *)
CandlesRequest == Call(11)
CandlesMain == Login \o Call(34) \o Stop(34) \o ForEach(CandlesRequest)

(* ws_test_candle_range.py: four tests, the last a binary search.          *)
RangeCandles == Call(11)
RangeSymbols == Call(34)
RangeMain ==
    Login \o RangeSymbols \o Need(34)
    \o ForEach(RangeCandles) \o ForEach(RangeCandles) \o ForEach(RangeCandles)
    \o ForSome(RangeCandles)

(* ws_check_deals.py, ws_check_deals2.py *)
CheckDeals == Login \o CallEver(4) \o Call(5)
CheckDeals2 == Login \o CallEver(4) \o Call(5)

(* ws_scan_spec.py, ws_get_symbol_spec.py *)
ScanSpec == Login \o Call(18) \o Stop(18)
SymbolSpec == Login \o Call(6)

(* ws_scan_all_symbols.py: a symbol without an answer is left out.         *)
ScanOne == Call(18)
ScanAll == Login \o Call(34) \o Stop(34) \o ForEach(ScanOne)

(* ws_diag_exemode.py: each trade ends at its first event.                 *)
ExemodeFind ==
    Login \o Ask(3) \o Ask(34) \o Gather \o Stop(34)
    \o Call(18) \o IfNot(18, Call(6))
ExemodeTrade ==
    Ask(7) \o Await(8) \o IfNot(8, Ask(7) \o Await(8)) \o Stop(8)
    \o ForEach(Ask(12) \o Await(19))
Exemode == ExemodeFind \o ExemodeTrade

(* ws_debug_trade.py, ws_debug_trade2.py: the symbols, and in the second   *)
(* the specification, are asked for twice.                                 *)
DebugTradeFind ==
    Login \o Call(3) \o Ask(34) \o Call(34) \o Need(34) \o Call(11)
DebugTradeTests ==
    TradeAndList \o TradeAndList \o TradeAndList \o Call(5) \o Call(3)
DebugTrade == DebugTradeFind \o DebugTradeTests

DebugTrade2Find ==
    Login \o Call(3) \o Ask(34) \o Call(34) \o Need(34) \o Call(11)
    \o Ask(17) \o Call(17)
DebugTrade2Tests == TradeAndList \o TradeAndList
DebugTrade2 == DebugTrade2Find \o DebugTrade2Tests

(* ws_debug_trade3.py *)
DebugTrade3Find == Login \o Call(11)
DebugTrade3Tests ==
    TradeAndList \o TradeAndList \o TradeAndList \o TradeAndList \o TradeAndList
DebugTrade3 == DebugTrade3Find \o DebugTrade3Tests

(* ws_debug_positions.py: without a quote the price is that of a deal.     *)
DebugPositionsFind ==
    Login \o Ask(3) \o Ask(34) \o Gather \o Need(34)
    \o Ask(7) \o Ask(22) \o Await(8) \o IfNot(8, Call(5))
DebugPositionsTest == TradeAndList \o Call(5) \o Call(3)
DebugPositions == DebugPositionsFind \o DebugPositionsTest

(* ws_debug_rates.py *)
DebugRates ==
    Login \o Call(3) \o Ask(34) \o Call(34) \o Need(34) \o Call(11) \o Call(11)

(* ws_debug_modify.py *)
DebugModifyList == Call(4)
DebugModifyTrade == Ask(12) \o Deal(TRUE) \o Need(19)
DebugModifyMain ==
    Login \o Ask(3) \o Ask(34) \o Ask(7) \o Quote
    \o DebugModifyList \o DebugModifyTrade \o DebugModifyList
    \o DebugModifyTrade \o DebugModifyList \o DebugModifyTrade

(* ws_debug_deals.py and its three successors, ws_debug_size.py,           *)
(* ws_debug_verify.py; ws_debug_cmd4.py                                    *)
DebugDeals == Login \o Call(5)
DebugDeals2 == Login \o Call(5)
DebugDeals3 == Login \o Call(5)
DebugDeals4 == Login \o Call(5)
DebugSize == Login \o Call(5)
DebugVerify == Login \o Call(5)
DebugCmd4 == Login \o Call(4)
=============================================================================
