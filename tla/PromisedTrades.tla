--------------------------- MODULE PromisedTrades ---------------------------
(***************************************************************************)
(* What a caller of buy, sell, close_position and their like is promised:  *)
(* a trade returns one message of the server, which no other trade ever    *)
(* returns, and a trade that nothing went wrong for, nor for one before    *)
(* it, returns its own and finds its ticket in the cache.                  *)
(***************************************************************************)
EXTENDS Naturals

CONSTANT MaxTrades       \* bound: trades in a behaviour

VARIABLES status,        \* how far each trade has come
          spoiled,       \* trades that something went wrong for
          opened,        \* trades whose ticket is to be stored
          outcome,       \* what each trade returned: which message, of which trade
          book           \* for each ticket the trade it is stored for

vars == <<status, spoiled, opened, outcome, book>>

Trades == 1..MaxTrades
Nobody == 0
Messages == [by : {"result", "reply"}, of : Trades]
Open == {t \in Trades : status[t] = "active"}
Whole(t) == \A u \in 1..t : u \notin spoiled

Init ==
    /\ status = [t \in Trades |-> "unused"]
    /\ spoiled = {}
    /\ opened = {}
    /\ outcome = [t \in Trades |-> [by |-> "none", of |-> Nobody]]
    /\ book = [t \in Trades |-> Nobody]

Becomes(t, new) == status' = [status EXCEPT ![t] = new]

(* Trades begin in the order of their numbers.  Those that meet spoil each *)
(* other.                                                                  *)
Begin(t) ==
    /\ status[t] = "unused"
    /\ \A u \in Trades : u < t => status[u] # "unused"
    /\ Becomes(t, "active")
    /\ spoiled' = IF Open = {} THEN spoiled ELSE spoiled \cup Open \cup {t}
    /\ UNCHANGED <<opened, outcome, book>>

(* The server carries the command out or refuses it, in order or not.      *)
Serve(t) ==
    /\ status[t] = "active"
    /\ spoiled' \in {spoiled, spoiled \cup {t}}
    /\ opened' \in {opened, opened \cup {t}}
    /\ UNCHANGED <<status, outcome, book>>

Returns(t, m) ==
    /\ status[t] = "active"
    /\ Becomes(t, "ended")
    /\ outcome' = [outcome EXCEPT ![t] = m]
    /\ \A u \in Trades : outcome[u] # m
    /\ Whole(t) \/ Whole(m.of) => m.of = t

(* The ticket a message names is stored for the trade that returns it, if  *)
(* it is not stored yet; that of a whole trade always is.                  *)
Return(t, m) ==
    /\ Returns(t, m)
    /\ \/ book' = book
       \/ book[m.of] = Nobody /\ book' = [book EXCEPT ![m.of] = t]
    /\ Whole(t) /\ t \in opened => book'[t] = t
    /\ UNCHANGED <<spoiled, opened>>

(* Only a trade that something went wrong for, or for one before it, ends  *)
(* with nothing.                                                           *)
GiveUp(t) ==
    /\ status[t] = "active" /\ ~Whole(t)
    /\ Becomes(t, "ended")
    /\ UNCHANGED <<spoiled, opened, outcome, book>>

Abort(t) ==
    /\ status[t] = "active"
    /\ Becomes(t, "ended")
    /\ spoiled' = spoiled \cup {t}
    /\ UNCHANGED <<opened, outcome, book>>

Next ==
    \E t \in Trades :
        \/ Begin(t) \/ Serve(t) \/ GiveUp(t) \/ Abort(t)
        \/ \E m \in Messages : Return(t, m)

Spec == Init /\ [][Next]_vars
=============================================================================
