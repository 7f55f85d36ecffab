---------------------------- MODULE TradeExchange ----------------------------
(***************************************************************************)
(* Placing trades: MT5Client._trade and _send_trade, the queue             *)
(* _trade_events that _handle_trade_event fills, and the slot _pending[12] *)
(* for the short reply to a trade command.                                 *)
(*                                                                         *)
(* A trade replaces the queue and the slot when it starts, sends, and then *)
(* looks every 0.05 s for the first event that is not the intermediate     *)
(* 10002, or, 3 s after it started, for the reply; 15 s after it was sent  *)
(* it gives up.  Nothing in an event names the trade that caused it.       *)
(*                                                                         *)
(* Trades are numbered in the order they start.  The number also names the *)
(* ticket the server gives the trade's position or order.                  *)
(***************************************************************************)
EXTENDS Integers, Sequences

CONSTANTS MaxTrades,     \* bound: trades in a behaviour
          Kinds,         \* the kinds of trade the tasks place
          Unruly         \* may answers be late, lost or reordered, and tasks end early

ASSUME TradeAssumption ==
    /\ MaxTrades \in Nat
    /\ Kinds \subseteq {"open", "pending", "close", "modify"}
    /\ Unruly \in BOOLEAN

Trades == 1..MaxTrades
Nobody == 0

VARIABLES begun,         \* number of trades started
          kind,          \* what each trade asks for
          phase,         \* where each trade is in _send_trade
          clock,         \* "fresh"; older than 3 s: "late"; at its deadline: "overdue"
          tardy,         \* trades answered late or never, or the reply not first
          done,          \* trades whose result is 10009; other results refuse
          owed,          \* messages the server has still to deliver for each trade
          queue,         \* _trade_events
          slot,          \* _pending[12]: the trade whose future is registered
          reply,         \* the trade whose reply each cmd12_future holds
          outcome,       \* what each trade returned: which message, of which trade
          book,          \* _position_cache and _order_cache: for each ticket the
                         \* trade whose symbol, side and magic it is stored with
          overlapped     \* history: trades that were active together with another

vars == <<begun, kind, phase, clock, tardy, done, owed, queue, slot, reply,
          outcome, book, overlapped>>

Active == {"sending", "polling"}
Ended == {"returned", "timedout", "aborted"}
InFlight == {t \in Trades : phase[t] \in Active}

(* A trade on the market or a new order is followed by two events; a       *)
(* modification or a cancellation by the reply alone, as the docstring of  *)
(* _send_trade says.  If it has events too, it goes as kind "close" does.  *)
Messages(k) == IF k = "modify" THEN {"reply"} ELSE {"reply", "ack", "result"}

(* _trade stores what it opened; close_position and modify_* store nothing.*)
Books == {"open", "pending"}

NoOutcome == [by |-> "none", of |-> Nobody]

Init ==
    /\ begun = 0
    /\ kind = [t \in Trades |-> "none"]
    /\ phase = [t \in Trades |-> "unused"]
    /\ clock = [t \in Trades |-> "fresh"]
    /\ tardy = {}
    /\ done = {}
    /\ owed = [t \in Trades |-> {}]
    /\ queue = <<>>
    /\ slot = Nobody
    /\ reply = [t \in Trades |-> Nobody]
    /\ outcome = [t \in Trades |-> NoOutcome]
    /\ book = [t \in Trades |-> Nobody]
    /\ overlapped = {}

(* _send_trade up to the send: it replaces the queue, with whatever is in  *)
(* it, and the slot.                                                       *)
Start(k) ==
    LET t == begun + 1
    IN  /\ begun < MaxTrades
        /\ begun' = t
        /\ kind' = [kind EXCEPT ![t] = k]
        /\ phase' = [phase EXCEPT ![t] = "sending"]
        /\ queue' = <<>>
        /\ slot' = t
        /\ overlapped' = IF InFlight = {} THEN overlapped
                         ELSE overlapped \cup InFlight \cup {t}
        /\ UNCHANGED <<clock, tardy, done, owed, reply, outcome, book>>

(* The command goes out, in the order of the send lock; how the server     *)
(* will treat it is decided here.                                          *)
Send(t) ==
    /\ phase[t] = "sending"
    /\ \A u \in InFlight : phase[u] = "sending" => t <= u
    /\ phase' = [phase EXCEPT ![t] = "polling"]
    /\ owed' = [owed EXCEPT ![t] = Messages(kind[t])]
    /\ tardy' \in {tardy} \cup (IF Unruly THEN {tardy \cup {t}} ELSE {})
    /\ done' \in {done} \cup (IF kind[t] = "modify" THEN {} ELSE {done \cup {t}})
    /\ UNCHANGED <<begun, kind, clock, queue, slot, reply, outcome, book, overlapped>>

Delivered(t, m) == owed' = [owed EXCEPT ![t] = @ \ {m}]

(* Mutant of DeliverReply: the slot is read and not emptied.               *)
DeliverReplyKeepingSlot(t) ==
    /\ "reply" \in owed[t]
    /\ Delivered(t, "reply")
    /\ IF slot = Nobody THEN UNCHANGED reply ELSE reply' = [reply EXCEPT ![slot] = t]
    /\ UNCHANGED <<begun, kind, phase, clock, tardy, done, queue, slot, outcome, book,
                   overlapped>>

(* _recv_loop reads the reply to t: the future in the slot gets it; with   *)
(* an empty slot it is dropped.                                            *)
DeliverReply(t) ==
    /\ "reply" \in owed[t]
    /\ Delivered(t, "reply")
    /\ slot' = Nobody
    /\ IF slot = Nobody THEN UNCHANGED reply ELSE reply' = [reply EXCEPT ![slot] = t]
    /\ UNCHANGED <<begun, kind, phase, clock, tardy, done, queue, outcome, book,
                   overlapped>>

(* _handle_trade_event puts the event in whatever queue is there now.  The *)
(* 10002 comes before the result, and an orderly server replies first.     *)
DeliverEvent(t, m) ==
    /\ m \in owed[t]
    /\ m = "result" => "ack" \notin owed[t]
    /\ t \notin tardy => "reply" \notin owed[t]
    /\ Delivered(t, m)
    /\ queue' = Append(queue, [of |-> t, final |-> m = "result"])
    /\ UNCHANGED <<begun, kind, phase, clock, tardy, done, slot, reply, outcome,
                   book, overlapped>>

Deliver(t) == DeliverReply(t) \/ \E m \in {"ack", "result"} : DeliverEvent(t, m)

(* Mutant of FirstResult: the intermediate 10002 counts as a result.       *)
FirstEvent(n) == n = 1

(* Mutant of HasReply: the reply is taken at once, not after 3 s.          *)
HasReplyAtOnce(t) == reply[t] # Nobody

(* The first result in the queue is at n.                                  *)
FirstResult(n) == queue[n].final /\ \A m \in 1..(n - 1) : ~queue[m].final
NoResult == \A n \in 1..Len(queue) : ~queue[n].final
HasReply(t) == clock[t] = "late" /\ reply[t] # Nobody

Finish(t, how, out) ==
    /\ phase' = [phase EXCEPT ![t] = how]
    /\ outcome' = [outcome EXCEPT ![t] = out]
    /\ slot' = Nobody

(* Mutant of TakeResult: the result is read and left in the queue.         *)
PeekResult(t) ==
    /\ phase[t] = "polling"
    /\ clock[t] # "overdue"
    /\ \E n \in 1..Len(queue) :
          /\ FirstResult(n)
          /\ LET of == queue[n].of
             IN  /\ Finish(t, "returned", [by |-> "result", of |-> of])
                 /\ book' = IF kind[t] \in Books /\ of \in done
                              THEN [book EXCEPT ![of] = t] ELSE book
    /\ UNCHANGED <<begun, kind, clock, tardy, done, owed, queue, reply, overlapped>>

(* A look at the queue that finds a result: _send_trade returns it, and    *)
(* _trade, in the same step, stores the ticket the result names under the  *)
(* symbol that this trade was for.                                         *)
TakeResult(t) ==
    /\ phase[t] = "polling"
    /\ clock[t] # "overdue"
    /\ \E n \in 1..Len(queue) :
          /\ FirstResult(n)
          /\ LET of == queue[n].of
             IN  /\ Finish(t, "returned", [by |-> "result", of |-> of])
                 /\ book' = IF kind[t] \in Books /\ of \in done
                              THEN [book EXCEPT ![of] = t] ELSE book
          /\ queue' = SubSeq(queue, n + 1, Len(queue))
    /\ UNCHANGED <<begun, kind, clock, tardy, done, owed, reply, overlapped>>

(* A look that finds only 10002 events discards them.                      *)
DropAcks(t) ==
    /\ phase[t] = "polling"
    /\ clock[t] # "overdue"
    /\ queue # <<>> /\ NoResult /\ ~HasReply(t)
    /\ queue' = <<>>
    /\ UNCHANGED <<begun, kind, phase, clock, tardy, done, owed, slot, reply,
                   outcome, book, overlapped>>

(* No result, and the reply is there 3 s after the start: the TradeResult  *)
(* has a retcode and no order, so nothing is stored.                       *)
TakeReply(t) ==
    /\ phase[t] = "polling"
    /\ NoResult /\ HasReply(t)
    /\ Finish(t, "returned", [by |-> "reply", of |-> reply[t]])
    /\ queue' = <<>>
    /\ UNCHANGED <<begun, kind, clock, tardy, done, owed, reply, book, overlapped>>

(* Time passes.  A trade that is answered in order gets older than 3 s, or *)
(* reaches its deadline, only if all its messages have been read and none  *)
(* that it can use is left.                                                *)
Age(t) ==
    /\ phase[t] = "polling"
    /\ t \notin tardy => owed[t] = {} /\ NoResult /\ ~HasReply(t)
    /\ \/ clock[t] = "fresh" /\ clock' = [clock EXCEPT ![t] = "late"]
       \/ clock[t] = "late" /\ clock' = [clock EXCEPT ![t] = "overdue"]
    /\ UNCHANGED <<begun, kind, phase, tardy, done, owed, queue, slot, reply,
                   outcome, book, overlapped>>

(* Mutant of GiveUp: the deadline counts only while the slot is its own.   *)
GiveUpInSlot(t) ==
    /\ phase[t] = "polling"
    /\ clock[t] = "overdue"
    /\ slot = t
    /\ Finish(t, "timedout", NoOutcome)
    /\ UNCHANGED <<begun, kind, clock, tardy, done, owed, queue, reply, book,
                   overlapped>>

(* 15 s after the send: the slot is emptied and TimeoutError raised.       *)
GiveUp(t) ==
    /\ phase[t] = "polling"
    /\ clock[t] = "overdue"
    /\ Finish(t, "timedout", NoOutcome)
    /\ UNCHANGED <<begun, kind, clock, tardy, done, owed, queue, reply, book,
                   overlapped>>

(* The send raises or the task is cancelled: queue and slot stay as they   *)
(* are.                                                                    *)
Abort(t) ==
    /\ Unruly
    /\ phase[t] \in Active
    /\ phase' = [phase EXCEPT ![t] = "aborted"]
    /\ UNCHANGED <<begun, kind, clock, tardy, done, owed, queue, slot, reply,
                   outcome, book, overlapped>>

Over ==
    /\ begun = MaxTrades
    /\ InFlight = {}
    /\ UNCHANGED vars

Look(t) == TakeResult(t) \/ TakeReply(t) \/ GiveUp(t)

Next ==
    \/ \E k \in Kinds : Start(k)
    \/ \E t \in Trades : \/ Send(t)
                         \/ DeliverReply(t)
                         \/ \E m \in {"ack", "result"} : DeliverEvent(t, m)
                         \/ TakeResult(t)
                         \/ DropAcks(t)
                         \/ TakeReply(t)
                         \/ Age(t)
                         \/ GiveUp(t)
                         \/ Abort(t)
    \/ Over

Spec == Init /\ [][Next]_vars

(* The connection takes what is sent, an orderly server answers, and the   *)
(* event loop runs the polling task and the clock.                         *)
Fairness ==
    \A t \in Trades : /\ WF_vars(Send(t))
                      /\ WF_vars(t \notin tardy /\ Deliver(t))
                      /\ WF_vars(Look(t))
                      /\ WF_vars(Age(t))

FairSpec == Spec /\ Fairness

-----------------------------------------------------------------------------

Outcomes == [by : {"none", "result", "reply"}, of : Trades \cup {Nobody}]
Events == [of : Trades, final : BOOLEAN]

TypeOK ==
    /\ begun \in 0..MaxTrades
    /\ kind \in [Trades -> Kinds \cup {"none"}]
    /\ phase \in [Trades -> {"unused"} \cup Active \cup Ended]
    /\ clock \in [Trades -> {"fresh", "late", "overdue"}]
    /\ tardy \subseteq Trades
    /\ done \subseteq Trades
    /\ owed \in [Trades -> SUBSET {"reply", "ack", "result"}]
    /\ queue \in Seq(Events)
    /\ slot \in Trades \cup {Nobody}
    /\ reply \in [Trades -> Trades \cup {Nobody}]
    /\ outcome \in [Trades -> Outcomes]
    /\ book \in [Trades -> Trades \cup {Nobody}]
    /\ overlapped \subseteq Trades
    /\ \A t \in Trades : phase[t] # "unused" <=> t <= begun
    /\ \A t \in Trades : reply[t] # Nobody => phase[t] # "unused"
    /\ slot # Nobody => slot <= begun /\ reply[slot] = Nobody

(* Trade t and all before it were answered in order and in time, ended by  *)
(* themselves and never ran together with another.                         *)
Undisturbed(t) ==
    \A u \in 1..t : u \notin tardy /\ u \notin overlapped /\ phase[u] # "aborted"

(* A trade returns a message of another only once something went wrong:    *)
(* the messages of an undisturbed trade never reach another trade, nor is  *)
(* its ticket ever stored under another trade's symbol.                    *)
OnlyDisturbedStray ==
    \A t, u \in Trades : t # u /\ (outcome[t].of = u \/ book[u] = t) => ~Undisturbed(u)

(* An undisturbed trade ends with its own outcome: the result event if it  *)
(* has one, never a timeout, and what it opened is in the cache.           *)
UndisturbedExact ==
    \A t \in Trades :
        /\ Undisturbed(t)
        /\ phase[t] \in Ended
        => /\ outcome[t] = [by |-> IF kind[t] = "modify" THEN "reply" ELSE "result",
                            of |-> t]
           /\ kind[t] \in Books /\ t \in done => book[t] = t

(* No two trades return the same message, however they overlap.            *)
EachMessageOnce ==
    \A t, u \in Trades : outcome[t].by # "none" /\ outcome[t] = outcome[u] => t = u

(* A ticket that is in a cache never moves to another trade, and with that *)
(* to another symbol or side, whatever results come later.                 *)
BookOnce ==
    [][\A u \in Trades : book[u] # Nobody => book'[u] = book[u]]_vars

(* _send_trade always ends: with a result, a reply or its TimeoutError.    *)
EveryTradeEnds == \A t \in Trades : phase[t] \in Active ~> phase[t] \in Ended

(* How the state of a trade looks to its caller.                           *)
StatusOf(t) ==
    IF phase[t] \in Active THEN "active"
    ELSE IF phase[t] \in Ended THEN "ended" ELSE "unused"

Spoiled == tardy \cup overlapped \cup {t \in Trades : phase[t] = "aborted"}
Opened == {t \in done : kind[t] \in Books}

Promise == INSTANCE PromisedTrades
    WITH status <- [t \in Trades |-> StatusOf(t)], spoiled <- Spoiled, opened <- Opened

(* However trades overlap and whatever the server does, _send_trade and    *)
(* _trade keep what PromisedTrades promises: a step of theirs is one of    *)
(* its steps or nothing a caller sees.                                     *)
PromiseKept == Promise!Spec

(* README, multi-account use: "All trades run in parallel within this      *)
(* account".  Each of them returns its own outcome.                        *)
OwnOutcome == \A t \in Trades : outcome[t].by # "none" => outcome[t].of = t
=============================================================================
