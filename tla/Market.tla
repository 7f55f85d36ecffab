------------------------------- MODULE Market -------------------------------
(***************************************************************************)
(* Quotes and pending orders: the subscriptions that must bring a quote    *)
(* before an order can be sent, MT5Client._order_cache, and the calls that *)
(* place, modify and cancel pending orders.                                *)
(*                                                                         *)
(* An entry of the order cache is written when a placed order is accepted, *)
(* with the price that was asked for, and is never changed or removed:     *)
(* modify_order and cancel_order look there first, and ask the server for  *)
(* its list only for an order that is not there.  Neither the entry nor    *)
(* what _parse_orders reads of a list has the stops of the order.          *)
(* The server's list lags behind its book: a new order is not there at     *)
(* once, and a price that was changed is not the one in the list.          *)
(*                                                                         *)
(* The calls are tasks of one event loop; each runs from one await to the  *)
(* next in one step.  sl and tp are one field here, stops, with 0 for      *)
(* none, and a price is a small number.  Position lists use the same slot  *)
(* as order lists; how calls of one command disturb each other in general  *)
(* is the subject of RequestTable and TradeExchange, and here only noted   *)
(* in the history variable crowded.                                        *)
(***************************************************************************)
EXTENDS Naturals, FiniteSets

CONSTANTS Tasks,        \* user tasks
          Tickets,      \* orders at the server
          Foreign,      \* those that were there before the client
          Own,          \* those that it placed a while ago
          Symbols,      \* symbols a caller may name
          Known,        \* those in the symbol table
          MaxPrice,     \* bound: prices are 1 .. MaxPrice
          MaxStop,      \* bound: stops are 0 .. MaxStop
          MaxCalls,     \* bound: calls of the user tasks
          MaxFaults     \* bound: lists not answered, late answers, outside changes

ASSUME MarketAssumption ==
    /\ IsFiniteSet(Tasks) /\ IsFiniteSet(Tickets)
    /\ Foreign \subseteq Tickets /\ Own \subseteq Tickets \ Foreign
    /\ Known \subseteq Symbols
    /\ MaxPrice \in Nat \ {0} /\ MaxStop \in Nat /\ MaxCalls \in Nat /\ MaxFaults \in Nat

Prices == 1 .. MaxPrice
Stops == 0 .. MaxStop
Orders == [price : Prices, stops : Stops]
Closed == [price |-> 0, stops |-> 0]
Unset == MaxPrice + MaxStop + 1      \* an argument that is None

VARIABLES
    quoted,     \* symbols in _quotes
    wanted,     \* symbols the server was asked to stream
    cache,      \* _order_cache: the price of an entry, 0 for none
    calls,      \* what each task is doing
    made,       \* number of calls made so far
    slot4,      \* _pending[4]: the task waiting for a list, if any
    lists,      \* list requests the server has not answered
    listed,     \* the server's list: the price of each order in it, 0 for none
    slot12,     \* _pending[12]: the task waiting for a reply, if any
    replied,    \* tasks whose reply to command 12 has come
    trades,     \* trade commands on their way to the server
    answers,    \* its replies and trade events, on their way back
    queue,      \* the events in _trade_events
    book,       \* the pending orders at the server
    faults,     \* faults and outside changes so far
    placed,     \* history: the price each order was placed with
    asked,      \* history: price and stops last asked for, for each order
    repriced,   \* history: orders whose price was changed
    overtaken,  \* history: those where a call had read the former price
    outdated,   \* history: orders of which a list gave a former price
    mixed,      \* history: orders cached by a call whose exchange met another
    crowded     \* history: tasks whose exchange met another

client == <<quoted, wanted, cache>>
listing == <<slot4, lists, listed, outdated>>
trading == <<slot12, replied, trades, answers, queue>>
server == <<book, placed, asked, repriced, overtaken>>
vars == <<client, calls, made, listing, trading, server, faults, mixed, crowded>>

(* The public calls.  Without a type, volume and symbol cancel_order looks *)
(* the order up; with them ("direct") it does not.                         *)
Call(op, t, s, p, st) ==
    [at |-> "idle", op |-> op, ticket |-> t, symbols |-> s, price |-> p, stops |-> st,
     known |-> FALSE, seen |-> 0, closed |-> FALSE, unlisted |-> FALSE]

NoCall == Call("none", 0, {}, 0, 0)

UserCalls ==
    {Call("subscribe", 0, {s}, 0, 0) : s \in Symbols}
    \cup {Call("batch", 0, Symbols, 0, 0)}
    \cup {Call("place", 0, {s}, p, st) : s \in Symbols, p \in Prices, st \in Stops}
    \cup {k \in {Call("modify", t, {}, p, st) :
                t \in Tickets, p \in Prices \cup {Unset}, st \in Stops \cup {Unset}} :
            {k.price, k.stops} # {Unset}}
    \cup {Call("cancel", t, {}, Unset, Unset) : t \in Tickets}
    \cup {Call("direct", t, {}, 1, Unset) : t \in Tickets}

Ops == {"none", "subscribe", "batch", "place", "modify", "cancel", "direct"}
Places == {"idle", "poll", "list", "listed", "sent", "unfound"}

Init ==
    /\ quoted \in SUBSET Known /\ wanted = quoted
    /\ cache = [t \in Tickets |-> IF t \in Own THEN 1 ELSE 0]
    /\ calls = [c \in Tasks |-> NoCall] /\ made = 0
    /\ slot4 = {} /\ lists = 0
    /\ slot12 = {} /\ replied = {} /\ trades = {} /\ answers = {} /\ queue = {}
    /\ book = [t \in Tickets |-> IF t \in Foreign \cup Own THEN [price |-> 1, stops |-> MaxStop]
                                 ELSE Closed]
    /\ placed = [t \in Tickets |-> book[t].price]
    /\ asked = book
    /\ \E new \in SUBSET Foreign :
          listed = [t \in Tickets |-> IF t \in new THEN 0 ELSE book[t].price]
    /\ faults = 0 /\ repriced = {} /\ overtaken = {} /\ outdated = {}
    /\ mixed = {} /\ crowded = {}

TypeOK ==
    /\ quoted \subseteq wanted /\ wanted \subseteq Known
    /\ cache \in [Tickets -> Prices \cup {0}]
    /\ \A c \in Tasks : calls[c].at \in Places /\ calls[c].op \in Ops
    /\ slot4 \subseteq {c \in Tasks : calls[c].at = "list"} /\ Cardinality(slot4) <= 1
    /\ lists \in 0 .. MaxCalls
    /\ listed \in [Tickets -> Prices \cup {0}] /\ outdated \subseteq Tickets
    /\ slot12 \subseteq {c \in Tasks : calls[c].at = "sent"} /\ Cardinality(slot12) <= 1
    /\ replied \subseteq Tasks /\ queue \subseteq {a \in answers \cup queue : a.kind = "event"}
    /\ book \in [Tickets -> Orders \cup {Closed}]
    /\ made \in 0 .. MaxCalls /\ faults \in 0 .. MaxFaults

Fault == faults < MaxFaults /\ faults' = faults + 1

(* A call ends, by return or exception, and nothing of it stays.           *)
End(c) ==
    /\ calls' = [calls EXCEPT ![c] = NoCall]
    /\ replied' = replied \ {c}
-----------------------------------------------------------------------------
(* send_subscribe leaves out names that are not in the table.              *)
SendSubscribe(symbols) == wanted' = wanted \cup (symbols \cap Known)

(* The quotes of a message are stored; the server streams what it was      *)
(* asked for.                                                              *)
HandleQuote ==
    /\ \E s \in SUBSET wanted \ {{}} : quoted' = quoted \cup s
    /\ UNCHANGED <<made, wanted, cache, calls, listing, trading, server, faults, mixed, crowded>>

Begins(c, k, at) == calls' = [calls EXCEPT ![c] = [k EXCEPT !.at = at]]

Subscribe(c, k) ==
    /\ k.op = "subscribe"
    /\ IF k.symbols \subseteq Known
       THEN SendSubscribe(k.symbols) /\ Begins(c, k, "poll")
       ELSE UNCHANGED wanted /\ UNCHANGED calls
    /\ UNCHANGED <<quoted, cache, listing, trading, crowded>>

SubscribeBatch(c, k) ==
    /\ k.op = "batch"
    /\ SendSubscribe(k.symbols) /\ Begins(c, k, "poll")
    /\ UNCHANGED <<quoted, cache, listing, trading, crowded>>

(* Both look every so often whether all quotes are there, up to a          *)
(* deadline, when subscribe raises and subscribe_batch returns what it has.*)
Poll(c) ==
    /\ calls[c].at = "poll"
    /\ End(c)
    /\ UNCHANGED <<made, client, listing, slot12, trades, answers, queue, server, faults, mixed, crowded>>
-----------------------------------------------------------------------------
(* A trade and what it meets: another one that waits, or anything that is  *)
(* left of one that does not wait any more.                                *)
Trading == {c \in Tasks : calls[c].at = "sent"}
LeftOver == {m.by : m \in trades \cup answers}

Command(c, k, price, stops) ==
    [by |-> c, do |-> IF k.op = "direct" THEN "cancel" ELSE k.op,
     ticket |-> k.ticket, price |-> price, stops |-> stops,
     priced |-> k.op # "modify" \/ k.price # Unset,
     stopped |-> k.op # "modify" \/ k.stops # Unset]

Crowding(c) ==
    (crowded \ {c}) \cup Trading \cup (IF Trading \cup LeftOver = {} THEN {} ELSE {c})

(* Mutant of SendTrade: the queue of the last trade is used again.         *)
SendTradeSameQueue(c, k, price, stops) ==
    /\ slot12' = {c}
    /\ trades' = trades \cup {Command(c, k, price, stops)}
    /\ crowded' = Crowding(c)
    /\ UNCHANGED <<queue, replied, answers>>
    /\ Begins(c, k, "sent")

(* _send_trade up to its first await: the slot of command 12 is taken over *)
(* and the event queue is a new one.                                       *)
SendTrade(c, k, price, stops) ==
    /\ slot12' = {c}
    /\ queue' = {}
    /\ trades' = trades \cup {Command(c, k, price, stops)}
    /\ crowded' = Crowding(c)
    /\ UNCHANGED <<replied, answers>>
    /\ Begins(c, k, "sent")

(* buy_limit and its like: a symbol of the table, and a quote of it.       *)
Place(c, k) ==
    /\ k.op = "place"
    /\ IF k.symbols \subseteq Known \cap quoted
       THEN SendTrade(c, k, k.price, k.stops)
       ELSE UNCHANGED calls /\ UNCHANGED <<trading, crowded>>
    /\ UNCHANGED <<client, listing>>

(* Mutant of Price: a price that is not given is the lowest one, whatever  *)
(* the order has.                                                          *)
PriceOrNone(k, price) == IF k.op = "modify" /\ k.price = Unset THEN 1 ELSE price

(* What modify_order sends for what it is not given: the price of the      *)
(* order it found, and stops of 0, which is all an entry has.              *)
Price(k, price) == IF k.op = "modify" /\ k.price # Unset THEN k.price ELSE price
StopsOf(k) == IF k.stops = Unset THEN 0 ELSE k.stops

(* get_orders: the slot of command 4 is taken over.                        *)
AskForList(c, call) ==
    /\ slot4' = {c} /\ lists' = lists + 1
    /\ LET rivals == {r \in Tasks : calls[r].at = "list"}
       IN crowded' = crowded \cup rivals \cup
              (IF rivals = {} /\ lists = 0 THEN {} ELSE {c})
    /\ Begins(c, call, "list")
    /\ UNCHANGED <<trading, listed, outdated>>

(* Mutant of LookUp: only the server's list counts, as in close_position   *)
(* before it falls back to the cache.                                      *)
LookUpInList(c, k) ==
    /\ k.op \in {"modify", "cancel"}
    /\ AskForList(c, [k EXCEPT !.known = cache[k.ticket] # 0,
                               !.closed = book[k.ticket] = Closed,
                               !.unlisted = listed[k.ticket] = 0])
    /\ UNCHANGED client

(* modify_order and cancel_order: the cache first, then the server's list. *)
LookUp(c, k) ==
    /\ k.op \in {"modify", "cancel"}
    /\ LET known == cache[k.ticket]
           call == [k EXCEPT !.known = known # 0, !.closed = book[k.ticket] = Closed,
                             !.unlisted = listed[k.ticket] = 0]
       IN IF known # 0
          THEN SendTrade(c, call, Price(k, known), StopsOf(k)) /\ UNCHANGED listing
          ELSE AskForList(c, call)
    /\ UNCHANGED client

CancelDirect(c, k) ==
    /\ k.op = "direct"
    /\ SendTrade(c, k, k.price, 0)
    /\ UNCHANGED <<client, listing>>

Start(c) ==
    /\ calls[c].at \in {"idle", "unfound"} /\ made < MaxCalls
    /\ made' = made + 1
    /\ \E k \in UserCalls :
         \/ Subscribe(c, k) \/ SubscribeBatch(c, k)
         \/ Place(c, k) \/ LookUp(c, k) \/ CancelDirect(c, k)
    /\ UNCHANGED <<server, faults, mixed>>
-----------------------------------------------------------------------------
(* The server's list catches up with its book, some time after a change.   *)
Relist ==
    /\ listed' = [t \in Tickets |-> book[t].price]
    /\ listed' # listed
    /\ UNCHANGED <<made, client, calls, slot4, lists, outdated, trading, server, faults,
                   mixed, crowded>>

(* The list comes, as it is then, and goes to the task in the slot.        *)
ListComes ==
    /\ lists > 0 /\ lists' = lists - 1
    /\ slot4' = {}
    /\ calls' = [c \in Tasks |-> IF c \notin slot4 THEN calls[c] ELSE
           [calls[c] EXCEPT !.at = "listed", !.seen = listed[calls[c].ticket]]]
    /\ outdated' = outdated \cup
           {t \in {calls[c].ticket : c \in slot4} : listed[t] \notin {0, book[t].price}}
    /\ UNCHANGED <<made, client, listed, trading, server, faults, mixed, crowded>>

ListLost ==
    /\ lists > 0 /\ lists' = lists - 1 /\ Fault
    /\ UNCHANGED <<made, client, calls, slot4, listed, outdated, trading, server, mixed, crowded>>

(* "Order not found" is raised.                                            *)
Unfound(c) == calls' = [calls EXCEPT ![c].at = "unfound"]

(* The order is in the list, or "Order not found" is raised.               *)
Listed(c) ==
    /\ calls[c].at = "listed"
    /\ IF calls[c].seen # 0
       THEN SendTrade(c, calls[c], Price(calls[c], calls[c].seen), StopsOf(calls[c]))
       ELSE Unfound(c) /\ UNCHANGED <<trading, crowded>>
    /\ UNCHANGED <<made, client, listing, server, faults, mixed>>

(* No list within the time: send_and_wait empties the slot, whoever is in  *)
(* it, and get_orders returns an empty list.                               *)
ListTimeout(c) ==
    /\ calls[c].at = "list"
    /\ IF c \in slot4 /\ lists > 0 THEN Fault ELSE UNCHANGED faults
    /\ slot4' = {}
    /\ Unfound(c)
    /\ UNCHANGED <<made, client, lists, listed, outdated, trading, server, mixed, crowded>>
-----------------------------------------------------------------------------
Answer(kind, m, t, ok) == [kind |-> kind, by |-> m.by, ticket |-> t, ok |-> ok]

(* The server carries a command out, or refuses it.  A placed order has an *)
(* event, a change only the reply (the docstring of _send_trade).          *)
PlaceOrder(m) ==
    /\ m.do = "place"
    /\ \/ \E t \in Tickets :
            /\ placed[t] = 0
            /\ book' = [book EXCEPT ![t] = [price |-> m.price, stops |-> m.stops]]
            /\ placed' = [placed EXCEPT ![t] = m.price]
            /\ asked' = [asked EXCEPT ![t] = [price |-> m.price, stops |-> m.stops]]
            /\ answers' = answers \cup {Answer("event", m, t, TRUE), Answer("reply", m, 0, TRUE)}
       \/ /\ answers' = answers \cup {Answer("event", m, 0, FALSE), Answer("reply", m, 0, FALSE)}
          /\ UNCHANGED <<book, placed, asked>>
    /\ UNCHANGED <<repriced, overtaken>>

(* The price of an order changes.  Another change may have been worked out *)
(* from the former one and be still to come.                               *)
Reprice(t, coming) ==
    /\ repriced' = repriced \cup {t}
    /\ overtaken' = overtaken \cup
         (IF \/ \E c \in Tasks : calls[c].at = "listed" /\ calls[c].ticket = t
             \/ \E m \in coming : m.ticket = t
          THEN {t} ELSE {})

ModifyOrder(m) ==
    /\ m.do = "modify" /\ book[m.ticket] # Closed
    /\ book' = [book EXCEPT ![m.ticket] = [price |-> m.price, stops |-> m.stops]]
    /\ asked' = [asked EXCEPT ![m.ticket] =
           [price |-> IF m.priced THEN m.price ELSE @.price,
            stops |-> IF m.stopped THEN m.stops ELSE @.stops]]
    /\ IF m.priced THEN Reprice(m.ticket, trades \ {m}) ELSE UNCHANGED <<repriced, overtaken>>
    /\ answers' = answers \cup {Answer("reply", m, 0, TRUE)}
    /\ UNCHANGED placed

CancelOrder(m) ==
    /\ m.do = "cancel" /\ book[m.ticket] # Closed
    /\ book' = [book EXCEPT ![m.ticket] = Closed]
    /\ answers' = answers \cup {Answer("reply", m, 0, TRUE)}
    /\ UNCHANGED <<placed, asked, repriced, overtaken>>

Refuse(m) ==
    /\ m.do # "place" /\ book[m.ticket] = Closed
    /\ answers' = answers \cup {Answer("reply", m, 0, FALSE)}
    /\ UNCHANGED <<book, placed, asked, repriced, overtaken>>

NoteClosed ==
    calls' = [c \in Tasks |-> [calls[c] EXCEPT !.closed =
                  @ \/ (calls[c].op \in {"modify", "cancel"} /\ book'[calls[c].ticket] = Closed)]]

Execute ==
    /\ \E m \in trades :
         /\ trades' = trades \ {m}
         /\ PlaceOrder(m) \/ ModifyOrder(m) \/ CancelOrder(m) \/ Refuse(m)
    /\ NoteClosed
    /\ UNCHANGED <<made, client, listing, slot12, replied, queue, faults, mixed, crowded>>

(* An order is filled or removed, or its price is changed in a terminal.   *)
Elsewhere ==
    /\ Fault
    /\ \E t \in Tickets :
         /\ book[t] # Closed
         /\ \/ /\ book' = [book EXCEPT ![t] = Closed]
               /\ UNCHANGED <<asked, repriced, overtaken>>
            \/ \E p \in Prices :
                 /\ book' = [book EXCEPT ![t].price = p]
                 /\ asked' = [asked EXCEPT ![t].price = p]
                 /\ Reprice(t, trades)
    /\ NoteClosed
    /\ UNCHANGED <<made, client, listing, trading, placed, mixed, crowded>>
-----------------------------------------------------------------------------
(* The receive loop: a reply goes to the task in the slot, an event to the *)
(* queue of the moment.                                                    *)
AnswerComes ==
    /\ \E a \in answers :
         /\ answers' = answers \ {a}
         /\ IF a.kind = "event"
            THEN queue' = queue \cup {a} /\ UNCHANGED <<slot12, replied>>
            ELSE replied' = replied \cup slot12 /\ slot12' = {} /\ UNCHANGED queue
    /\ UNCHANGED <<made, client, calls, listing, trades, server, faults, mixed, crowded>>

(* The waiting task finds an event, whosever it is; what was placed and    *)
(* accepted goes into the cache with the price this task asked for.        *)
Result(c) ==
    /\ calls[c].at = "sent"
    /\ \E e \in queue :
         /\ queue' = queue \ {e}
         /\ IF calls[c].op = "place" /\ e.ok
            THEN /\ cache' = [cache EXCEPT ![e.ticket] = calls[c].price]
                 /\ mixed' = IF c \in crowded THEN mixed \cup {e.ticket} ELSE mixed
            ELSE UNCHANGED <<cache, mixed>>
    /\ slot12' = {}
    /\ End(c)
    /\ UNCHANGED <<made, quoted, wanted, listing, trades, answers, server, faults, crowded>>

(* After three seconds the reply will do; it names no order.               *)
Reply(c) ==
    /\ calls[c].at = "sent" /\ queue = {} /\ c \in replied
    /\ slot12' = {}
    /\ End(c)
    /\ UNCHANGED <<made, client, listing, trades, answers, queue, server, faults, mixed, crowded>>

(* Mutant of TradeTimeout: the slot is left to the future given up.        *)
TradeTimeoutInSlot(c) ==
    /\ calls[c].at = "sent"
    /\ IF c \in replied \cup LeftOver \/ queue # {} THEN Fault ELSE UNCHANGED faults
    /\ End(c)
    /\ UNCHANGED <<made, client, listing, slot12, trades, answers, queue, server, mixed, crowded>>

(* "No trade response received": the slot is emptied, whoever is in it.    *)
TradeTimeout(c) ==
    /\ calls[c].at = "sent"
    /\ IF c \in replied \cup LeftOver \/ queue # {} THEN Fault ELSE UNCHANGED faults
    /\ slot12' = {}
    /\ End(c)
    /\ UNCHANGED <<made, client, listing, trades, answers, queue, server, mixed, crowded>>
-----------------------------------------------------------------------------
Goes(c) == Poll(c) \/ Listed(c) \/ ListTimeout(c) \/ Result(c) \/ Reply(c) \/ TradeTimeout(c)

Arrives == Relist \/ ListComes \/ Execute \/ AnswerComes

Next ==
    \/ HandleQuote \/ ListLost \/ Elsewhere \/ Arrives
    \/ \E c \in Tasks : Start(c) \/ Goes(c)

Spec == Init /\ [][Next]_vars
-----------------------------------------------------------------------------
(* An entry of the order cache has the price its order was placed with,    *)
(* unless the trade that wrote it met another one and took its event.      *)
CachedAsPlaced == \A t \in Tickets \ mixed : cache[t] \in {0, placed[t]}

(* A change of its stops undoes the price of an order only if that price   *)
(* was changed before, and the order is one of the cache, the change of    *)
(* the price overtook that of the stops, or a list still had a former one. *)
PriceSticks ==
    \A t \in Tickets \ mixed :
        book[t] # Closed /\ book[t].price # asked[t].price =>
            t \in repriced /\ (cache[t] # 0 \/ t \in overtaken \cup outdated)

(* "Order not found" is raised only for an order that is not in the cache. *)
(* If it was open all the while, and the server's list had it when the     *)
(* call began, there was a fault or two tasks asked for the list at once.  *)
FoundWhileOpen ==
    \A c \in Tasks : calls[c].at = "unfound" =>
        /\ ~calls[c].known
        /\ calls[c].closed \/ calls[c].unlisted \/ faults > 0 \/ c \in crowded

(* A change of its price leaves the stops of an order as they were asked   *)
(* for: what the README of the package says of modify_order ("modifies a   *)
(* pending order's price, SL, and/or TP").                                 *)
ChangesKeepStops ==
    \A t \in Tickets : book[t] # Closed => book[t].stops = asked[t].stops
=============================================================================
