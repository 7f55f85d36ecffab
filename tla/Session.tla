------------------------------ MODULE Session ------------------------------
(***************************************************************************)
(* One of the stand-alone scripts in conversation with the server.  The    *)
(* socket is the only thing between them: what the server has answered and *)
(* the script has not read waits in it, and the next read of the script,   *)
(* whatever it is for, can meet it.  No answer names its request, so a     *)
(* script that gave up waiting can take a late answer for the next one.    *)
(***************************************************************************)
EXTENDS TradeScripts, QueryScripts, FiniteSets

CONSTANT MaxFaults     \* bound: requests left unanswered, and answers late

ASSUME SessionAssumption == MaxFaults \in Nat

Scripts ==
    [client |-> Client, trade_clean |-> Clean, trade_full |-> FullMain,
     trade_single |-> Single, trade_test |-> TestMain,
     test_cancel |-> Cancel, test_cancel2 |-> Cancel2,
     test_pending |-> Pending, test_pending2 |-> Pending2,
     test_partial_close |-> Partial, test_modify_sltp |-> SltpMain,
     test_modify_v3 |-> Modify3, test_modify_v4 |-> Modify4,
     test_modify_final |-> Final, test_modify_order |-> Order,
     test_stoplimit |-> StopLimit, test_all_orders |-> All,
     test_all_orders2 |-> All2, test_all_orders3 |-> All3,
     test_multisymbol |-> Multi, history |-> History,
     test_candles |-> CandlesMain, test_candle_range |-> RangeMain,
     check_deals |-> CheckDeals, check_deals2 |-> CheckDeals2,
     scan_spec |-> ScanSpec, get_symbol_spec |-> SymbolSpec,
     scan_all_symbols |-> ScanAll, diag_exemode |-> Exemode,
     debug_trade |-> DebugTrade, debug_trade2 |-> DebugTrade2,
     debug_trade3 |-> DebugTrade3, debug_positions |-> DebugPositions,
     debug_rates |-> DebugRates, debug_modify |-> DebugModifyMain,
     debug_deals |-> DebugDeals, debug_deals2 |-> DebugDeals2,
     debug_deals3 |-> DebugDeals3, debug_deals4 |-> DebugDeals4,
     debug_size |-> DebugSize, debug_verify |-> DebugVerify,
     debug_cmd4 |-> DebugCmd4]

VARIABLES
    script,     \* which one runs
    pc,         \* its next step
    asks,       \* how often it has sent each command
    owed,       \* answers sent and not read: of which command, to which request
    got,        \* commands of which its latest wait had a message
    stray,      \* it took an answer for that of a later request
    faults,     \* requests unanswered, and answers waited for in vain
    status      \* "running", "done" (end of main) or "raised"

vars == <<script, pc, asks, owed, got, stray, faults, status>>

Cmds == {0, 3, 4, 5, 6, 7, 8, 11, 12, 17, 18, 19, 22, 28, 34}
Kinds == {"answer", "ack", "final"}
Messages == [cmd : Cmds, req : Cmds, of : Nat, kind : Kinds]

TypeOK ==
    /\ script \in DOMAIN Scripts
    /\ pc \in 1 .. Len(Scripts[script]) + 1
    /\ asks \in [Cmds -> Nat]
    /\ owed \subseteq Messages
    /\ got \subseteq Cmds
    /\ stray \in BOOLEAN
    /\ faults \in 0 .. MaxFaults
    /\ status \in {"running", "done", "raised"}
    /\ (status = "running") => (pc <= Len(Scripts[script]))

Init ==
    /\ script \in DOMAIN Scripts
    /\ pc = 1
    /\ asks = [c \in Cmds |-> 0]
    /\ owed = {}
    /\ got = {}
    /\ stray = FALSE
    /\ faults = 0
    /\ status = "running"

Step == Scripts[script][pc]

At(what) == status = "running" /\ Step.do \in what

(* Mutant of Go: nothing ends main.                                        *)
GoOn(n) == pc' = pc + 1 + n /\ UNCHANGED status

(* The script goes on after n more steps; behind its last one it is done.  *)
Go(n) ==
    /\ pc' = pc + 1 + n
    /\ status' = IF pc' > Len(Scripts[script]) THEN "done" ELSE "running"

Quit(how) ==
    /\ status' = how
    /\ UNCHANGED <<script, pc, asks, owed, got, stray, faults>>

Fault == faults < MaxFaults /\ faults' = faults + 1

(* The command in which the answers to a request come.                     *)
AnsweredAs(c) == IF c = 7 THEN 8 ELSE IF c = 12 THEN 19 ELSE c

(* What the server sends in answer to the n-th request with command c: a   *)
(* trade that is taken up is first acknowledged, a refused one is not.     *)
Answers(c, n) ==
    LET message(kind) == [cmd |-> AnsweredAs(c), req |-> c, of |-> n, kind |-> kind]
    IN IF c = 12 THEN {{message("ack"), message("final")}, {message("final")}}
       ELSE {{message("answer")}}

(* The next request, which the server answers, or, with a fault, does not. *)
Send ==
    /\ At({"ask"})
    /\ LET c == Step.cmd
       IN /\ asks' = [asks EXCEPT ![c] = @ + 1]
          /\ got' = got \ {AnsweredAs(c)}
          /\ \/ /\ \E sent \in Answers(c, asks'[c]) : owed' = owed \cup sent
                /\ UNCHANGED faults
             \/ Fault /\ UNCHANGED owed
    /\ Go(0)
    /\ UNCHANGED <<script, stray>>

(* What can be read next: the acknowledgement of a trade comes before its  *)
(* result, otherwise the server answers in any order.                      *)
Readable ==
    {m \in owed : m.kind = "final" =>
        ~\E a \in owed : a.kind = "ack" /\ a.of = m.of}

(* Messages that end the wait, and messages that are kept without that.    *)
Ending ==
    CASE Step.do = "deal" -> {m \in owed : m.kind = "final"}
      [] Step.do = "gather" -> {}
      [] Step.do = "hear" -> owed
      [] OTHER -> {m \in owed : Step.cmd \in {m.cmd, AnyCmd}}

Kept ==
    CASE Step.do = "gather" -> owed
      [] Step.do = "deal" -> {m \in owed : m.kind = "ack" /\ Step.keep}
      [] OTHER -> {}

Waits == {"await", "ever", "deal", "gather", "hear"}

Learn(m) ==
    /\ got' = got \cup {m.cmd}
    /\ stray' = (stray \/ m.of < asks[m.req])

(* A message is read: it ends the wait, is kept, or is dropped.            *)
Read(m) ==
    /\ At(Waits) /\ m \in Readable
    /\ owed' = owed \ {m}
    /\ UNCHANGED <<script, asks, faults>>

Take == At(Waits) /\ \E m \in Ending : Read(m) /\ Learn(m) /\ Go(0)

Keep ==
    At(Waits) /\ \E m \in Kept : Read(m) /\ Learn(m) /\ UNCHANGED <<pc, status>>

Drop ==
    /\ At(Waits)
    /\ \E m \in owed \ (Ending \cup Kept) : Read(m)
    /\ UNCHANGED <<got, stray, pc, status>>

(* Mutant of GiveUp: no deadline for the result of a trade.                *)
GiveUpButDeals ==
    /\ At({"await", "gather", "hear"})
    /\ IF Ending \cup Kept = {} THEN UNCHANGED faults ELSE Fault
    /\ IF Step.do = "hear" THEN status' = "raised" /\ UNCHANGED pc ELSE Go(0)
    /\ UNCHANGED <<script, asks, owed, got, stray>>

(* The deadline passes.  When what is waited for is on its way, that is a  *)
(* fault; a login that hears nothing raises TimeoutError.                  *)
GiveUp ==
    /\ At(Waits \ {"ever"})
    /\ IF Ending \cup Kept = {} THEN UNCHANGED faults ELSE Fault
    /\ IF Step.do = "hear" THEN status' = "raised" /\ UNCHANGED pc ELSE Go(0)
    /\ UNCHANGED <<script, asks, owed, got, stray>>

(* What the script does next depends on what it got.                       *)
Check ==
    /\ At({"need", "stop"})
    /\ IF Step.cmd \in got
       THEN Go(0) /\ UNCHANGED <<script, asks, owed, got, stray, faults>>
       ELSE Quit(IF Step.do = "need" THEN "raised" ELSE "done")

Branch ==
    /\ At({"ifgot", "ifnot"})
    /\ Go(IF (Step.cmd \in got) = (Step.do = "ifgot") THEN 0 ELSE Step.skip)
    /\ UNCHANGED <<script, asks, owed, got, stray, faults>>

(* It depends on the contents, which the model leaves open.                *)
Choose ==
    /\ At({"maybe"})
    /\ \E n \in {0, Step.skip} : Go(n)
    /\ UNCHANGED <<script, asks, owed, got, stray, faults>>

Leave ==
    /\ At({"maystop"})
    /\ \/ Go(0) /\ UNCHANGED <<script, asks, owed, got, stray, faults>>
       \/ Quit("done")

Next ==
    \/ Send \/ Take \/ Keep \/ Drop \/ GiveUp
    \/ Check \/ Branch \/ Choose \/ Leave

Spec == Init /\ [][Next]_vars
FairSpec == Spec /\ WF_vars(Next)
-----------------------------------------------------------------------------
(* Scripts that take the first event of a trade for its result.            *)
Hasty == {"trade_full", "trade_test", "diag_exemode"}

(* Scripts that send one request twice and do not know whose answer it is. *)
Twice == {"debug_trade", "debug_trade2", "debug_rates"}

(* While every request is answered in time, a script never takes an answer *)
(* for that of a later request of the same kind.                           *)
OwnAnswers == stray => faults > 0 \/ script \in Hasty \cup Twice

(* A script that ends in time has read the result of every trade it sent.  *)
KnowsOutcome ==
    status = "done" /\ faults = 0 /\ script \notin Hasty =>
        ~\E m \in owed : m.kind = "final"

(* It waits for good only in a loop without a deadline, for what is not    *)
(* coming.                                                                 *)
Stuck == At({"ever"}) /\ Ending = {}

(* A script raises, or hangs, only after a request that was not answered   *)
(* in time: no step reads away what a later one needs.                     *)
FailsForReason == status = "raised" \/ Stuck => faults > 0

(* Each answer that came too late, or never, puts a script behind by at    *)
(* most one: it never has more results of earlier trades unread than that. *)
Backlog ==
    script \notin Hasty =>
        Cardinality({m \in owed : m.kind = "final" /\ m.of < asks[12]}) <= faults

(* Every script ends, or hangs in a loop without a deadline.               *)
Ends == <>(status # "running" \/ Stuck)
=============================================================================
