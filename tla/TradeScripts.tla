---------------------------- MODULE TradeScripts ----------------------------
(***************************************************************************)
(* The scripts that trade: what each sends, what it waits for, and what it *)
(* does without an answer.                                                 *)
(***************************************************************************)
EXTENDS ScriptSteps

(* ws_client.py *)
ClientMain ==
    Login \o Ask(3) \o Ask(34) \o Gather \o Stop(34)
    \o Ask(7) \o Await(8) \o IfNot(8, Ask(7) \o Await(8)) \o Stop(8)
    \o Call(3) \o Call(4)

ClientTrade == Ask(12) \o Gather \o Call(4) \o Call(3) \o IfGot(3, Need(4))

Client == ClientMain \o ClientTrade

(* ws_trade_clean.py *)
CleanPositions == Call(4)

(* Mutant of CleanTrade: the acknowledgement is taken for the result.      *)
CleanTradeFirst == Ask(12) \o Await(19)

CleanTrade == Ask(12) \o Deal(TRUE)
Clean ==
    Login \o Ask(3) \o Ask(34) \o Ask(7) \o Quote
    \o CleanPositions \o Maybe(ForSome(CleanTrade) \o CleanPositions)
    \o CleanTrade \o CleanPositions

(* ws_trade_full.py: the first event of a trade is its result.             *)
FullPositions == Call(4)
FullTrade == Ask(12) \o Await(19)
FullMain ==
    Login \o Ask(3) \o Ask(34) \o Ask(7) \o Await(8)
    \o FullPositions \o Maybe(ForSome(FullTrade) \o FullPositions)
    \o FullTrade \o FullPositions

(* ws_trade_single.py *)
SingleMain ==
    Login \o Ask(3) \o Ask(34) \o Ask(7) \o Await(8)
    \o Ask(12) \o Gather
SingleCheck == Call(4) \o Call(5)
Single == SingleMain \o SingleCheck

(* ws_trade_test.py: send_and_drain sends a second, empty command 12.      *)
TestDrain == Ask(12) \o Await(19)
TestMain ==
    Login \o Ask(3) \o Ask(34) \o Ask(7) \o Await(8)
    \o ForEach(Ask(12) \o TestDrain \o IfNot(19, Await(AnyCmd)))
    \o Ask(12) \o TestDrain

(* ws_test_cancel.py *)
CancelTrade == Ask(12) \o Deal(TRUE) \o Need(19)
CancelOrders == CallEver(4)
Cancel ==
    Login \o Ask(34) \o Ask(7) \o Quote
    \o ForEach(CancelTrade) \o MayStop \o CancelOrders
    \o ForSome(CancelTrade) \o CancelOrders \o ForSome(CancelTrade)

(* ws_test_cancel2.py *)
Cancel2Trade == Ask(12) \o Deal(TRUE) \o Need(19)
Cancel2Orders == CallEver(4)
Cancel2 ==
    Login \o Ask(34) \o Ask(7) \o Quote
    \o ForEach(Cancel2Trade) \o ForSome(Cancel2Trade)
    \o Cancel2Orders \o ForSome(Cancel2Trade) \o Cancel2Orders

(* ws_test_pending.py *)
PendingTrade == Ask(12) \o Deal(TRUE) \o Need(19)
Pending == Login \o Ask(34) \o Ask(7) \o Quote \o ForEach(PendingTrade) \o CallEver(5)

(* ws_test_pending2.py *)
Pending2Trade == Ask(12) \o Deal(TRUE) \o Need(19)

(* Mutant of Pending2: the list is asked for before the trades, whose      *)
(* waits read it away.                                                     *)
Pending2Early ==
    Login \o Ask(34) \o Ask(7) \o Quote
    \o Ask(4) \o ForEach(Pending2Trade) \o AwaitEver(4) \o ForSome(Pending2Trade)

Pending2 ==
    Login \o Ask(34) \o Ask(7) \o Quote
    \o ForEach(Pending2Trade) \o CallEver(4) \o ForSome(Pending2Trade)

(* ws_test_partial_close.py: an acknowledgement does not do.               *)
PartialTrade == Ask(12) \o Deal(FALSE) \o Need(19)
Partial ==
    Login \o Ask(3) \o Ask(34) \o Ask(7) \o Quote
    \o PartialTrade \o PartialTrade \o Call(5) \o PartialTrade

(* ws_test_modify_sltp.py *)
SltpPositions == Call(4)

(* Mutant of SltpTrade: the first event is the result.                     *)
SltpTradeFirst == Ask(12) \o Await(19) \o Need(19)

SltpTrade == Ask(12) \o Deal(TRUE) \o Need(19)
SltpMain ==
    Login \o Ask(3) \o Ask(34) \o Ask(7) \o Quote
    \o SltpPositions \o ForSome(SltpTrade) \o SltpPositions
    \o SltpTrade \o SltpPositions \o Stop(4) \o MayStop
    \o SltpTrade \o SltpPositions
    \o IfGot(4, Maybe(SltpTrade \o SltpPositions)) \o SltpTrade

(* ws_test_modify_v3.py *)
Modify3Positions == Call(4)
Modify3Trade == Ask(12) \o Deal(TRUE) \o Need(19)
Modify3Open ==
    Login \o Ask(3) \o Ask(34) \o Ask(7) \o Quote
    \o Modify3Positions \o Modify3Trade \o Modify3Positions
    \o IfGot(4, Maybe(Modify3Trade \o Modify3Positions))
    \o Modify3Trade \o Modify3Positions \o Stop(4) \o MayStop
Modify3Change == ForEach(Modify3Trade) \o Modify3Positions
Modify3 == Modify3Open \o Modify3Change

(* ws_test_modify_v4.py *)
Modify4Positions == Call(4)
Modify4Trade == Ask(12) \o Deal(TRUE) \o Need(19)
Modify4 ==
    Login \o Ask(3) \o Ask(34) \o Ask(7) \o Quote
    \o Modify4Trade \o Modify4Positions \o ForEach(Modify4Trade)
    \o IfGot(4, Maybe(Modify4Trade \o Modify4Trade)) \o Modify4Trade \o Modify4Trade

(* ws_test_modify_final.py *)
FinalPositions == Call(4)

(* Mutant of FinalTrade: the first event is the result.                    *)
FinalTradeFirst == Ask(12) \o Await(19) \o Need(19)

FinalTrade == Ask(12) \o Deal(TRUE) \o Need(19)
Final ==
    Login \o Ask(3) \o Ask(34) \o Ask(7) \o Quote
    \o FinalTrade \o FinalPositions \o FinalTrade \o FinalPositions \o FinalTrade
    \o FinalTrade \o Maybe(FinalPositions \o FinalTrade \o FinalTrade)

(* ws_test_modify_order.py *)
OrderOrders == CallEver(4)
OrderTrade == Ask(12) \o Deal(TRUE) \o Need(19)
Order ==
    Login \o Ask(34) \o Ask(7) \o Quote
    \o OrderTrade \o OrderOrders \o MayStop
    \o OrderTrade \o OrderOrders \o OrderOrders \o ForSome(OrderTrade)

(* ws_test_stoplimit.py *)
StopOrders == CallEver(4)
StopTrade == Ask(12) \o Deal(TRUE) \o Need(19)
StopLimit ==
    Login \o Ask(34) \o Ask(7) \o Quote
    \o StopTrade \o StopTrade \o StopOrders \o Maybe(StopTrade) \o StopOrders
    \o StopOrders \o ForSome(StopTrade) \o StopOrders

(* ws_test_all_orders.py *)
AllTrade == Ask(12) \o Deal(TRUE) \o Need(19)
AllPositions == Call(4)
All ==
    Login \o Ask(34) \o Ask(7) \o Quote
    \o ForEach(AllTrade) \o AllPositions \o CallEver(5)

(* ws_test_all_orders2.py: the second quote may be missing.                *)
All2Trade == Ask(12) \o Deal(TRUE) \o Need(19)
All2 ==
    Login \o Ask(34) \o Ask(7) \o Quote
    \o ForEach(All2Trade) \o CallEver(4) \o Ask(7) \o Await(8)

(* ws_test_all_orders3.py *)
All3Trade == Ask(12) \o Deal(TRUE) \o Need(19)
All3 == Login \o Ask(34) \o Ask(7) \o Quote \o ForEach(All3Trade) \o CallEver(4)

(* ws_test_multisymbol.py: a trade without result gives a record all the   *)
(* same, with retcode -1.                                                  *)
MultiSymbols == Call(34)
MultiQuotes == Ask(7) \o Gather
MultiTrade == Ask(12) \o Deal(FALSE)
MultiPositions == Call(4)
Multi ==
    Login \o MultiSymbols \o MultiQuotes \o ForSome(MultiTrade)
    \o MultiPositions \o MultiQuotes \o ForSome(MultiTrade) \o MultiPositions
=============================================================================
