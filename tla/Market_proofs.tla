--------------------------- MODULE Market_proofs ---------------------------
(***************************************************************************)
(* The invariants of Market hold for any number of tasks, orders, prices,  *)
(* calls and faults.                                                       *)
(***************************************************************************)
EXTENDS Market, FiniteSetTheorems, TLAPS

(* The types of the records.                                               *)
CallTypes ==
    [at : Places, op : Ops, ticket : Tickets \cup {0}, symbols : SUBSET Symbols,
     price : Prices \cup {0, Unset}, stops : Stops \cup {Unset},
     known : BOOLEAN, seen : Prices \cup {0}, closed : BOOLEAN, unlisted : BOOLEAN]

Commands ==
    [by : Tasks, do : {"place", "modify", "cancel"}, ticket : Tickets \cup {0},
     price : Prices, stops : Stops, priced : BOOLEAN, stopped : BOOLEAN]

Answered ==
    [kind : {"reply", "event"}, by : Tasks, ticket : Tickets \cup {0}, ok : BOOLEAN]

(* The types, in parts.                                                    *)
CallsTyped == calls \in [Tasks -> CallTypes]

ClientTyped ==
    /\ quoted \subseteq wanted /\ wanted \subseteq Known
    /\ cache \in [Tickets -> Prices \cup {0}]

WireTyped ==
    /\ trades \subseteq Commands /\ answers \subseteq Answered
    /\ queue \subseteq Answered /\ (\A a \in queue : a.kind = "event")
    /\ replied \subseteq Tasks

BookTyped ==
    /\ book \in [Tickets -> Orders \cup {Closed}]
    /\ asked \in [Tickets -> [price : Prices \cup {0}, stops : Stops]]
    /\ placed \in [Tickets -> Prices \cup {0}]

ListTyped == listed \in [Tickets -> Prices \cup {0}] /\ outdated \subseteq Tickets

Counts ==
    /\ made \in 0 .. MaxCalls /\ faults \in 0 .. MaxFaults
    /\ lists \in Nat /\ lists <= made

Slots ==
    /\ slot4 = {} \/ \E c \in Tasks : slot4 = {c} /\ calls[c].at = "list"
    /\ slot12 = {} \/ \E c \in Tasks : slot12 = {c} /\ calls[c].at = "sent"

(* What a call carries, by its operation.                                  *)
Carried ==
    \A c \in Tasks :
        /\ calls[c].op \in {"modify", "cancel"} => calls[c].ticket \in Tickets
        /\ calls[c].op = "modify" => calls[c].price \in Prices \cup {Unset}
        /\ calls[c].op = "place" => calls[c].price \in Prices
        /\ calls[c].at \in {"list", "listed", "unfound"} =>
              calls[c].op \in {"modify", "cancel"} /\ ~calls[c].known

(* What there is of an order came after it was placed.                     *)
Since ==
    /\ \A t \in Tickets : placed[t] = 0 => cache[t] = 0 /\ book[t] = Closed /\ listed[t] = 0
    /\ \A a \in answers \cup queue :
          a.kind = "event" /\ a.ok => a.ticket \in Tickets /\ placed[a.ticket] # 0
    /\ \A m \in trades : m.do # "place" => m.ticket \in Tickets
    /\ \A m \in trades : m.do = "modify" /\ ~m.priced => placed[m.ticket] # 0
    /\ \A c \in Tasks : calls[c].at = "listed" /\ calls[c].seen # 0 => placed[calls[c].ticket] # 0

(* An exchange that has met no other has the wire to itself.               *)
Alone ==
    \A c \in Tasks : calls[c].at = "sent" /\ c \notin crowded =>
        /\ \A m \in trades : m.by = c
        /\ \A a \in answers \cup queue : a.by = c
        /\ \A d \in Tasks : calls[d].at = "sent" => d = c

OwnPrice ==
    \A c \in Tasks : calls[c].at = "sent" /\ c \notin crowded =>
        /\ \A m \in trades : m.do = "place" => m.price = calls[c].price
        /\ \A a \in answers \cup queue :
              a.kind = "event" /\ a.ok => placed[a.ticket] = calls[c].price

(* Tickets whose price may be lost: repriced ones that are in the cache,   *)
(* overtaken or read from an old list, and those cached with a price that  *)
(* is another order's.                                                     *)
Blurred(t) ==
    t \in mixed \/ (t \in repriced /\ (cache[t] # 0 \/ t \in overtaken \cup outdated))

Clear(t) == ~Blurred(t) /\ book[t] # Closed

Faithful == \A t \in Tickets : Clear(t) => book[t].price = asked[t].price

FaithfulTrades ==
    \A m \in trades : m.do = "modify" /\ ~m.priced /\ Clear(m.ticket) =>
        m.price = asked[m.ticket].price

FaithfulSeen ==
    \A c \in Tasks :
        calls[c].at = "listed" /\ calls[c].seen # 0 /\ Clear(calls[c].ticket) =>
            calls[c].seen = asked[calls[c].ticket].price

AskedAsPlaced ==
    \A t \in Tickets : t \notin repriced /\ book[t] # Closed => asked[t].price = placed[t]

(* However old the list is, of an order that has had only one price it     *)
(* has that price or none.                                                 *)
ListedAsPlaced == \A t \in Tickets \ (repriced \cup mixed) : listed[t] \in {0, placed[t]}

(* A call that waits for the list, or has it, knows of an order that is    *)
(* not open, or was not in the list when it began.                         *)
ClosedKnown ==
    \A c \in Tasks :
        /\ calls[c].at \in {"list", "listed"} /\ book[calls[c].ticket] = Closed => calls[c].closed
        /\ calls[c].at = "list" /\ listed[calls[c].ticket] = 0 =>
              calls[c].closed \/ calls[c].unlisted
        /\ calls[c].at = "listed" /\ calls[c].seen = 0 => calls[c].closed \/ calls[c].unlisted

(* A call loses the slot of command 4 only to another one, and the answer  *)
(* only by a fault.                                                        *)
Listing ==
    /\ \A c \in Tasks : calls[c].at = "list" => c \in slot4 \/ c \in crowded
    /\ \A c, d \in Tasks : calls[c].at = "list" /\ calls[d].at = "list" /\ c # d => c \in crowded
    /\ slot4 # {} => lists > 0 \/ faults > 0

(* The inductive invariant.                                                *)
IInv ==
    /\ CallsTyped /\ ClientTyped /\ WireTyped /\ BookTyped /\ ListTyped /\ Counts /\ Slots
    /\ Carried /\ Since /\ Alone /\ OwnPrice /\ AskedAsPlaced /\ CachedAsPlaced
    /\ Faithful /\ FaithfulTrades /\ FaithfulSeen /\ ListedAsPlaced
    /\ ClosedKnown /\ Listing /\ FoundWhileOpen
-----------------------------------------------------------------------------
(* The steps by what they do to each variable; for the calls task by task. *)

Others(c) == \A d \in Tasks \ {c} : calls'[d] = calls[d]

(* A call that sends nothing: a subscription, or a refusal.                *)
Quiet(c) ==
    /\ CallsTyped' /\ Others(c) /\ calls[c].at \in {"idle", "unfound"}
    /\ calls'[c] = calls[c] \/ (calls'[c].at = "poll" /\ calls'[c].op \in {"subscribe", "batch"})
    /\ made' = made + 1 /\ made' <= MaxCalls
    /\ wanted \subseteq wanted' /\ wanted' \subseteq Known
    /\ UNCHANGED <<quoted, cache, lists, listed, outdated, slot4, slot12, replied, trades, answers, queue>>
    /\ UNCHANGED <<book, placed, asked, repriced, overtaken, faults, mixed, crowded>>

(* A command goes out; what it has for the price of a modification comes   *)
(* from the cache or from a list.                                          *)
Sent(c) ==
    /\ CallsTyped' /\ Others(c) /\ calls[c].at \in {"idle", "unfound", "listed"}
    /\ calls'[c].at = "sent"
    /\ calls'[c].op \in {"modify", "cancel"} => calls'[c].ticket \in Tickets
    /\ calls'[c].op = "place" => calls'[c].price \in Prices
    /\ calls'[c].op = "modify" => calls'[c].price \in Prices \cup {Unset}
    /\ \E m \in Commands :
          /\ trades' = trades \cup {m} /\ m.by = c
          /\ m.do = "place" => m.price = calls'[c].price
          /\ m.do # "place" => m.ticket \in Tickets
          /\ m.do = "modify" /\ ~m.priced =>
                \/ cache[m.ticket] # 0 /\ m.price = cache[m.ticket]
                \/ /\ calls[c].at = "listed" /\ calls[c].ticket = m.ticket
                   /\ calls[c].seen # 0 /\ m.price = calls[c].seen
    /\ slot12' = {c} /\ queue' = {} /\ crowded' = Crowding(c)
    /\ made' \in {made, made + 1} /\ made' <= MaxCalls
    /\ UNCHANGED <<quoted, wanted, cache, lists, listed, outdated, slot4, replied, answers>>
    /\ UNCHANGED <<book, placed, asked, repriced, overtaken, faults, mixed>>

(* The list is asked for.                                                  *)
Asks(c) ==
    /\ CallsTyped' /\ Others(c) /\ calls[c].at \in {"idle", "unfound"}
    /\ calls'[c].at = "list" /\ ~calls'[c].known
    /\ calls'[c].op \in {"modify", "cancel"} /\ calls'[c].ticket \in Tickets
    /\ calls'[c].op = "modify" => calls'[c].price \in Prices \cup {Unset}
    /\ book[calls'[c].ticket] = Closed => calls'[c].closed
    /\ listed[calls'[c].ticket] = 0 => calls'[c].unlisted
    /\ slot4' = {c} /\ lists' = lists + 1
    /\ \E more \in SUBSET Tasks :
          /\ crowded' = crowded \cup more
          /\ \A r \in Tasks : calls[r].at = "list" => r \in more /\ c \in more
    /\ made' = made + 1 /\ made' <= MaxCalls
    /\ UNCHANGED <<quoted, wanted, cache, listed, outdated>>
    /\ UNCHANGED <<slot12, replied, trades, answers, queue>>
    /\ UNCHANGED <<book, placed, asked, repriced, overtaken, faults, mixed>>

(* A call ends that was polling or waiting for its trade.                  *)
Ends(c) ==
    /\ CallsTyped' /\ Others(c) /\ calls[c].at \in {"poll", "sent"}
    /\ calls'[c].at = "idle" /\ calls'[c].op = "none"
    /\ calls[c].at = "sent" => slot12' = {}
    /\ slot12' \in {slot12, {}} /\ replied' \subseteq replied
    /\ faults' \in {faults, faults + 1} /\ faults' <= MaxFaults
    /\ UNCHANGED <<quoted, wanted, cache, made, lists, listed, outdated, slot4, trades, answers, queue>>
    /\ UNCHANGED <<book, placed, asked, repriced, overtaken, mixed, crowded>>

(* It ends with an event, and may write the cache.                         *)
EndsWith(c, e) ==
    /\ CallsTyped' /\ Others(c) /\ calls[c].at = "sent"
    /\ calls'[c].at = "idle" /\ calls'[c].op = "none"
    /\ e \in queue /\ queue' = queue \ {e}
    /\ \/ /\ cache' = cache /\ mixed' = mixed
       \/ /\ calls[c].op = "place" /\ e.ok
          /\ cache' = [cache EXCEPT ![e.ticket] = calls[c].price]
          /\ mixed' = IF c \in crowded THEN mixed \cup {e.ticket} ELSE mixed
    /\ slot12' = {} /\ replied' \subseteq replied
    /\ UNCHANGED <<quoted, wanted, made, lists, listed, outdated, slot4, trades, answers>>
    /\ UNCHANGED <<book, placed, asked, repriced, overtaken, faults, crowded>>

(* "Order not found", after a list or without one.                         *)
NotFound(c) ==
    /\ CallsTyped' /\ Others(c)
    /\ \/ /\ calls[c].at = "listed" /\ calls[c].seen = 0
          /\ slot4' = slot4 /\ faults' = faults
       \/ /\ calls[c].at = "list"
          /\ faults' \in {faults, faults + 1} /\ faults' <= MaxFaults
          /\ c \in slot4 /\ lists > 0 => faults' = faults + 1
          /\ slot4' = {}
    /\ calls'[c].at = "unfound"
    /\ calls'[c].op = calls[c].op /\ calls'[c].ticket = calls[c].ticket
    /\ calls'[c].price = calls[c].price
    /\ (calls'[c].known <=> calls[c].known) /\ (calls'[c].closed <=> calls[c].closed)
    /\ calls'[c].unlisted <=> calls[c].unlisted
    /\ UNCHANGED <<quoted, wanted, cache, made, lists, listed, outdated>>
    /\ UNCHANGED <<slot12, replied, trades, answers, queue>>
    /\ UNCHANGED <<book, placed, asked, repriced, overtaken, mixed, crowded>>

(* The list comes to whoever is in the slot.                               *)
Lists ==
    /\ CallsTyped' /\ lists > 0 /\ lists' = lists - 1 /\ slot4' = {}
    /\ \A d \in Tasks \ slot4 : calls'[d] = calls[d]
    /\ \A d \in slot4 :
          /\ calls'[d].at = "listed" /\ calls'[d].seen = listed[calls[d].ticket]
          /\ calls'[d].op = calls[d].op /\ calls'[d].ticket = calls[d].ticket
          /\ calls'[d].price = calls[d].price
          /\ (calls'[d].known <=> calls[d].known) /\ (calls'[d].closed <=> calls[d].closed)
          /\ calls'[d].unlisted <=> calls[d].unlisted
          /\ listed[calls[d].ticket] \in {0, book[calls[d].ticket].price}
             \/ calls[d].ticket \in outdated'
    /\ outdated \subseteq outdated' /\ outdated' \subseteq outdated \cup Tickets
    /\ listed' = listed
    /\ UNCHANGED <<quoted, wanted, cache, made, slot12, replied, trades, answers, queue>>
    /\ UNCHANGED <<book, placed, asked, repriced, overtaken, faults, mixed, crowded>>

(* What a change of the book does to the calls.                            *)
Noted ==
    /\ CallsTyped'
    /\ \A d \in Tasks :
          /\ calls'[d].at = calls[d].at /\ calls'[d].op = calls[d].op
          /\ calls'[d].ticket = calls[d].ticket /\ calls'[d].price = calls[d].price
          /\ calls'[d].seen = calls[d].seen /\ (calls'[d].known <=> calls[d].known)
          /\ calls[d].closed => calls'[d].closed
          /\ calls'[d].unlisted <=> calls[d].unlisted
          /\ calls[d].op \in {"modify", "cancel"} /\ book'[calls[d].ticket] = Closed => calls'[d].closed

(* The server carries out a command m.                                     *)
Executed(m) ==
    /\ m \in trades /\ trades' = trades \ {m} /\ Noted
    /\ UNCHANGED <<quoted, wanted, cache, made, lists, listed, outdated, slot4, slot12, replied, queue>>
    /\ UNCHANGED <<faults, mixed, crowded>>

(* An order is filled or removed elsewhere, or its price is changed.       *)
Removed(t) ==
    /\ Noted /\ book[t] # Closed /\ book' = [book EXCEPT ![t] = Closed]
    /\ faults' = faults + 1 /\ faults' <= MaxFaults
    /\ UNCHANGED <<quoted, wanted, cache, made, lists, listed, outdated, slot4, slot12, replied, trades, answers>>
    /\ UNCHANGED <<queue, placed, asked, repriced, overtaken, mixed, crowded>>

Moved(t, p) ==
    /\ Noted /\ book[t] # Closed /\ book' = [book EXCEPT ![t].price = p]
    /\ asked' = [asked EXCEPT ![t].price = p] /\ Reprice(t, trades)
    /\ faults' = faults + 1 /\ faults' <= MaxFaults
    /\ UNCHANGED <<quoted, wanted, cache, made, lists, listed, outdated, slot4, slot12, replied, trades, answers>>
    /\ UNCHANGED <<queue, placed, mixed, crowded>>
-----------------------------------------------------------------------------
(* Every action has one of these forms.                                    *)

(* The calls of a user task.                                               *)
Shape(k) ==
    /\ k \in CallTypes /\ ~k.known
    /\ k.op \in {"modify", "cancel", "direct"} => k.ticket \in Tickets
    /\ k.op \in {"place", "direct"} => k.price \in Prices
    /\ k.op = "place" => k.stops \in Stops
    /\ k.op = "modify" => k.price \in Prices \cup {Unset}

LEMMA CallShape ==
  ASSUME NEW op \in Ops, NEW t \in Tickets \cup {0}, NEW s \in SUBSET Symbols,
         NEW p \in Prices \cup {0, Unset}, NEW st \in Stops \cup {Unset},
         op \in {"modify", "cancel", "direct"} => t \in Tickets,
         op \in {"place", "direct"} => p \in Prices, op = "place" => st \in Stops,
         op = "modify" => p \in Prices \cup {Unset}
  PROVE  Shape(Call(op, t, s, p, st))
BY DEF Shape, Call, CallTypes, Places

LEMMA UserCallShape ==
  ASSUME NEW k \in UserCalls
  PROVE  Shape(k)
<1>1. 1 \in Prices /\ 0 \in Stops
  BY MarketAssumption DEF MarketAssumption, Prices, Stops
<1>2. CASE k \in {Call("subscribe", 0, {s}, 0, 0) : s \in Symbols}
  <2>1. PICK s \in Symbols : k = Call("subscribe", 0, {s}, 0, 0)
    BY <1>2
  <2>2. Shape(Call("subscribe", 0, {s}, 0, 0))
    BY <1>1, CallShape DEF Ops
  <2> QED BY <2>1, <2>2
<1>3. CASE k = Call("batch", 0, Symbols, 0, 0)
  <2>1. Shape(Call("batch", 0, Symbols, 0, 0))
    BY <1>1, CallShape DEF Ops
  <2> QED BY <1>3, <2>1
<1>4. CASE k \in {Call("place", 0, {s}, p, st) : s \in Symbols, p \in Prices, st \in Stops}
  <2>1. PICK s \in Symbols, p \in Prices, st \in Stops : k = Call("place", 0, {s}, p, st)
    BY <1>4, SMT DEF Call
  <2>2. Shape(Call("place", 0, {s}, p, st))
    BY CallShape DEF Ops
  <2> QED BY <2>1, <2>2
<1>5. CASE k \in {Call("modify", t, {}, p, st) :
                    t \in Tickets, p \in Prices \cup {Unset}, st \in Stops \cup {Unset}}
  <2>1. PICK t \in Tickets, p \in Prices \cup {Unset}, st \in Stops \cup {Unset} :
          k = Call("modify", t, {}, p, st)
    BY <1>5
  <2>2. Shape(Call("modify", t, {}, p, st))
    BY CallShape DEF Ops
  <2> QED BY <2>1, <2>2
<1>6. CASE k \in {Call("cancel", t, {}, Unset, Unset) : t \in Tickets}
  <2>1. PICK t \in Tickets : k = Call("cancel", t, {}, Unset, Unset)
    BY <1>6
  <2>2. Shape(Call("cancel", t, {}, Unset, Unset))
    BY CallShape DEF Ops
  <2> QED BY <2>1, <2>2
<1>7. CASE k \in {Call("direct", t, {}, 1, Unset) : t \in Tickets}
  <2>1. PICK t \in Tickets : k = Call("direct", t, {}, 1, Unset)
    BY <1>7
  <2>2. Shape(Call("direct", t, {}, 1, Unset))
    BY <1>1, CallShape DEF Ops
  <2> QED BY <2>1, <2>2
<1>8. k \in {j \in {Call("modify", t, {}, p, st) :
                    t \in Tickets, p \in Prices \cup {Unset}, st \in Stops \cup {Unset}} :
               {j.price, j.stops} # {Unset}} => Shape(k)
  BY <1>5, SMT
<1> QED BY <1>2, <1>3, <1>4, <1>6, <1>7, <1>8, SMT DEF UserCalls, Call

LEMMA BeginsEffect ==
  ASSUME CallsTyped, NEW c \in Tasks, NEW k \in CallTypes, NEW at \in Places, Begins(c, k, at)
  PROVE  /\ CallsTyped' /\ Others(c)
         /\ calls'[c].at = at /\ calls'[c].op = k.op /\ calls'[c].ticket = k.ticket
         /\ calls'[c].price = k.price /\ calls'[c].known = k.known
         /\ calls'[c].closed = k.closed /\ calls'[c].unlisted = k.unlisted
<1>1. [k EXCEPT !.at = at] \in CallTypes
  BY DEF CallTypes
<1>2. calls' = [calls EXCEPT ![c] = [k EXCEPT !.at = at]]
  BY DEF Begins
<1>3. calls'[c] = [k EXCEPT !.at = at]
  BY <1>2 DEF CallsTyped
<1>4. CallsTyped' /\ Others(c)
  BY <1>1, <1>2 DEF CallsTyped, Others
<1> QED BY <1>3, <1>4 DEF CallTypes

LEMMA EndEffect ==
  ASSUME CallsTyped, NEW c \in Tasks, End(c)
  PROVE  /\ CallsTyped' /\ Others(c) /\ calls'[c].at = "idle" /\ calls'[c].op = "none"
         /\ replied' \subseteq replied
<1>1. NoCall \in CallTypes /\ NoCall.at = "idle" /\ NoCall.op = "none"
  BY MarketAssumption
     DEF NoCall, Call, CallTypes, Places, Ops, Prices, Stops, MarketAssumption
<1> QED BY <1>1 DEF End, CallsTyped, Others

LEMMA UnfoundEffect ==
  ASSUME CallsTyped, NEW c \in Tasks, Unfound(c)
  PROVE  /\ CallsTyped' /\ Others(c) /\ calls'[c].at = "unfound"
         /\ calls'[c].op = calls[c].op /\ calls'[c].ticket = calls[c].ticket
         /\ calls'[c].price = calls[c].price
         /\ calls'[c].known = calls[c].known /\ calls'[c].closed = calls[c].closed
         /\ calls'[c].unlisted = calls[c].unlisted
<1>1. calls[c] \in CallTypes
  BY DEF CallsTyped
<1>2. [calls[c] EXCEPT !.at = "unfound"] \in CallTypes
  BY <1>1 DEF CallTypes, Places
<1>3. calls' = [calls EXCEPT ![c] = [calls[c] EXCEPT !.at = "unfound"]]
  BY DEF Unfound
<1>4. calls'[c] = [calls[c] EXCEPT !.at = "unfound"]
  BY <1>3 DEF CallsTyped
<1>5. CallsTyped' /\ Others(c)
  BY <1>2, <1>3 DEF CallsTyped, Others
<1> QED BY <1>1, <1>4, <1>5 DEF CallTypes

LEMMA NotedEffect ==
  ASSUME CallsTyped, NoteClosed
  PROVE  Noted
<1>1. ASSUME NEW d \in Tasks
      PROVE  /\ calls'[d] \in CallTypes
             /\ calls'[d].at = calls[d].at /\ calls'[d].op = calls[d].op
             /\ calls'[d].ticket = calls[d].ticket /\ calls'[d].price = calls[d].price
             /\ calls'[d].seen = calls[d].seen /\ calls'[d].known = calls[d].known
             /\ calls[d].closed => calls'[d].closed
             /\ calls'[d].unlisted = calls[d].unlisted
             /\ calls[d].op \in {"modify", "cancel"} /\ book'[calls[d].ticket] = Closed
                  => calls'[d].closed
  <2> DEFINE note == calls[d].closed \/
                (calls[d].op \in {"modify", "cancel"} /\ book'[calls[d].ticket] = Closed)
  <2>1. calls[d] \in CallTypes
    BY DEF CallsTyped
  <2>2. calls'[d] = [calls[d] EXCEPT !.closed = note]
    BY DEF NoteClosed
  <2>3. note \in BOOLEAN
    OBVIOUS
  <2> HIDE DEF note
  <2>4. /\ calls'[d] \in CallTypes
        /\ calls'[d].at = calls[d].at /\ calls'[d].op = calls[d].op
        /\ calls'[d].ticket = calls[d].ticket /\ calls'[d].price = calls[d].price
        /\ calls'[d].seen = calls[d].seen /\ calls'[d].known = calls[d].known
        /\ calls'[d].closed = note /\ calls'[d].unlisted = calls[d].unlisted
    BY <2>1, <2>2, <2>3 DEF CallTypes
  <2> QED BY <2>4 DEF note
<1>2. CallsTyped'
  BY <1>1 DEF NoteClosed, CallsTyped
<1> QED BY <1>1, <1>2 DEF Noted

LEMMA ListsEffect ==
  ASSUME CallsTyped, ListTyped, Slots, Carried, ListComes
  PROVE  Lists
<1> DEFINE old == {t \in {calls[c].ticket : c \in slot4} : listed[t] \notin {0, book[t].price}}
<1>1. ASSUME NEW d \in slot4
      PROVE  /\ d \in Tasks /\ calls'[d] \in CallTypes /\ calls[d].ticket \in Tickets
             /\ calls'[d].at = "listed" /\ calls'[d].seen = listed[calls[d].ticket]
             /\ calls'[d].op = calls[d].op /\ calls'[d].ticket = calls[d].ticket
             /\ calls'[d].price = calls[d].price
             /\ calls'[d].known = calls[d].known /\ calls'[d].closed = calls[d].closed
             /\ calls'[d].unlisted = calls[d].unlisted
  <2>1. d \in Tasks /\ calls[d] \in CallTypes /\ calls[d].ticket \in Tickets
    BY DEF Slots, Carried, CallsTyped
  <2>2. listed[calls[d].ticket] \in Prices \cup {0}
    BY <2>1 DEF ListTyped
  <2>3. calls'[d] = [calls[d] EXCEPT !.at = "listed", !.seen = listed[calls[d].ticket]]
    BY <2>1 DEF ListComes
  <2> QED BY <2>1, <2>2, <2>3 DEF CallTypes, Places
<1>2. \A d \in Tasks \ slot4 : calls'[d] = calls[d]
  BY DEF ListComes
<1>3. CallsTyped'
  BY <1>1, <1>2 DEF CallsTyped, ListComes
<1>4. lists > 0 /\ lists' = lists - 1 /\ slot4' = {} /\ listed' = listed
  BY DEF ListComes
<1>5. /\ UNCHANGED <<quoted, wanted, cache, made, slot12, replied, trades, answers, queue>>
      /\ UNCHANGED <<book, placed, asked, repriced, overtaken, faults, mixed, crowded>>
  BY DEF ListComes, client, trading, server
<1>6. outdated' = outdated \cup old
  BY DEF ListComes
<1>7. \A d \in slot4 :
        listed[calls[d].ticket] \in {0, book[calls[d].ticket].price} \/ calls[d].ticket \in old
  OBVIOUS
<1>8. old \subseteq Tickets
  BY <1>1
<1> HIDE DEF old
<1>9. /\ outdated \subseteq outdated' /\ outdated' \subseteq outdated \cup Tickets
      /\ \A d \in slot4 : listed[calls[d].ticket] \in {0, book[calls[d].ticket].price}
                           \/ calls[d].ticket \in outdated'
  BY <1>6, <1>7, <1>8
<1> QED BY <1>1, <1>2, <1>3, <1>4, <1>5, <1>9 DEF Lists

LEMMA CommandShape ==
  ASSUME NEW c \in Tasks, NEW k \in CallTypes, k.op \in {"place", "modify", "cancel", "direct"},
         NEW price \in Prices, NEW stops \in Stops
  PROVE  LET m == Command(c, k, price, stops)
         IN  /\ m \in Commands /\ m.by = c /\ m.ticket = k.ticket /\ m.price = price
             /\ m.do = "place" <=> k.op = "place"
             /\ m.do = "modify" <=> k.op = "modify"
             /\ m.priced <=> (k.op # "modify" \/ k.price # Unset)
BY DEF Command, Commands, CallTypes

LEMMA SendEffect ==
  ASSUME CallsTyped, NEW c \in Tasks, NEW k \in CallTypes, NEW price \in Prices, NEW stops \in Stops,
         calls[c].at \in {"idle", "unfound", "listed"}, SendTrade(c, k, price, stops),
         k.op \in {"place", "modify", "cancel", "direct"},
         k.op = "place" => price = k.price, k.op # "place" => k.ticket \in Tickets,
         k.op = "modify" => k.price \in Prices \cup {Unset},
         k.op = "modify" /\ k.price = Unset =>
            \/ cache[k.ticket] # 0 /\ price = cache[k.ticket]
            \/ /\ calls[c].at = "listed" /\ calls[c].ticket = k.ticket
               /\ calls[c].seen # 0 /\ price = calls[c].seen,
         made' \in {made, made + 1}, made' <= MaxCalls,
         UNCHANGED <<quoted, wanted, cache, lists, listed, outdated, slot4>>,
         UNCHANGED <<book, placed, asked, repriced, overtaken, faults, mixed>>
  PROVE  Sent(c)
<1> DEFINE m == Command(c, k, price, stops)
<1>1. /\ m \in Commands /\ m.by = c /\ m.ticket = k.ticket /\ m.price = price
      /\ m.do = "place" <=> k.op = "place"
      /\ m.do = "modify" <=> k.op = "modify"
      /\ m.priced <=> (k.op # "modify" \/ k.price # Unset)
  BY CommandShape
<1>2. /\ CallsTyped' /\ Others(c) /\ calls'[c].at = "sent" /\ calls'[c].op = k.op
      /\ calls'[c].ticket = k.ticket /\ calls'[c].price = k.price
  <2>1. Begins(c, k, "sent") /\ "sent" \in Places
    BY DEF SendTrade, Places
  <2> QED BY <2>1, BeginsEffect
<1>3. /\ trades' = trades \cup {m} /\ slot12' = {c} /\ queue' = {} /\ crowded' = Crowding(c)
      /\ UNCHANGED <<replied, answers>>
  BY DEF SendTrade
<1> HIDE DEF m
<1>4. /\ trades' = trades \cup {m} /\ m.by = c
      /\ m.do = "place" => m.price = calls'[c].price
      /\ m.do # "place" => m.ticket \in Tickets
      /\ m.do = "modify" /\ ~m.priced =>
            \/ cache[m.ticket] # 0 /\ m.price = cache[m.ticket]
            \/ /\ calls[c].at = "listed" /\ calls[c].ticket = m.ticket
               /\ calls[c].seen # 0 /\ m.price = calls[c].seen
  BY <1>1, <1>2, <1>3
<1>5. /\ calls'[c].op \in {"modify", "cancel"} => calls'[c].ticket \in Tickets
      /\ calls'[c].op = "place" => calls'[c].price \in Prices
      /\ calls'[c].op = "modify" => calls'[c].price \in Prices \cup {Unset}
  BY <1>2
<1> QED BY <1>1, <1>2, <1>3, <1>4, <1>5 DEF Sent

LEMMA AskEffect ==
  ASSUME CallsTyped, NEW c \in Tasks, NEW k \in CallTypes,
         calls[c].at \in {"idle", "unfound"}, AskForList(c, k), ~k.known,
         k.op \in {"modify", "cancel"}, k.ticket \in Tickets,
         k.op = "modify" => k.price \in Prices \cup {Unset},
         book[k.ticket] = Closed => k.closed, listed[k.ticket] = 0 => k.unlisted,
         made' = made + 1, made' <= MaxCalls, UNCHANGED <<quoted, wanted, cache>>,
         UNCHANGED <<book, placed, asked, repriced, overtaken, faults, mixed>>
  PROVE  Asks(c)
<1> DEFINE rivals == {r \in Tasks : calls[r].at = "list"}
           more == rivals \cup (IF rivals = {} /\ lists = 0 THEN {} ELSE {c})
<1>1. /\ CallsTyped' /\ Others(c) /\ calls'[c].at = "list" /\ calls'[c].op = k.op
      /\ calls'[c].ticket = k.ticket /\ calls'[c].price = k.price
      /\ calls'[c].known = k.known /\ calls'[c].closed = k.closed
      /\ calls'[c].unlisted = k.unlisted
  <2>1. Begins(c, k, "list") /\ "list" \in Places
    BY DEF AskForList, Places
  <2> QED BY <2>1, BeginsEffect
<1>2. /\ slot4' = {c} /\ lists' = lists + 1
      /\ UNCHANGED <<slot12, replied, trades, answers, queue, listed, outdated>>
  BY DEF AskForList, trading
<1>3. crowded' = crowded \cup more
  BY DEF AskForList
<1>4. more \in SUBSET Tasks /\ \A r \in Tasks : calls[r].at = "list" => r \in more /\ c \in more
  OBVIOUS
<1> HIDE DEF more
<1> QED BY <1>1, <1>2, <1>3, <1>4 DEF Asks

LEMMA QuietEffect ==
  ASSUME CallsTyped, ClientTyped, NEW c \in Tasks, NEW k \in UserCalls,
         calls[c].at \in {"idle", "unfound"}, Subscribe(c, k) \/ SubscribeBatch(c, k),
         made' = made + 1, made' <= MaxCalls,
         UNCHANGED <<book, placed, asked, repriced, overtaken, faults, mixed>>
  PROVE  Quiet(c)
<1>1. k \in CallTypes /\ k.op \in {"subscribe", "batch"}
  BY UserCallShape DEF Shape, Subscribe, SubscribeBatch
<1>2. /\ CallsTyped' /\ Others(c)
      /\ calls'[c] = calls[c] \/ (calls'[c].at = "poll" /\ calls'[c].op \in {"subscribe", "batch"})
  <2>1. CASE Begins(c, k, "poll")
    <3>1. "poll" \in Places
      BY DEF Places
    <3> QED BY <1>1, <2>1, <3>1, BeginsEffect
  <2>2. CASE UNCHANGED calls
    BY <2>2 DEF CallsTyped, Others
  <2> QED BY <2>1, <2>2 DEF Subscribe, SubscribeBatch
<1>3. wanted \subseteq wanted' /\ wanted' \subseteq Known
  BY DEF Subscribe, SubscribeBatch, SendSubscribe, ClientTyped
<1>4. /\ UNCHANGED <<quoted, cache, lists, listed, outdated, slot4, slot12, replied, trades, answers, queue>>
      /\ UNCHANGED crowded
  BY DEF Subscribe, SubscribeBatch, listing, trading
<1> QED BY <1>2, <1>3, <1>4 DEF Quiet

LEMMA PlaceEffect ==
  ASSUME CallsTyped, ClientTyped, NEW c \in Tasks, NEW k \in UserCalls,
         calls[c].at \in {"idle", "unfound"}, Place(c, k),
         made' = made + 1, made' <= MaxCalls,
         UNCHANGED <<book, placed, asked, repriced, overtaken, faults, mixed>>
  PROVE  Quiet(c) \/ Sent(c)
<1>1. k \in CallTypes /\ k.op = "place" /\ k.price \in Prices /\ k.stops \in Stops
  BY UserCallShape DEF Shape, Place
<1>2. UNCHANGED <<quoted, wanted, cache, lists, listed, outdated, slot4>>
  BY DEF Place, client, listing
<1>3. CASE SendTrade(c, k, k.price, k.stops)
  BY <1>1, <1>2, <1>3, SendEffect
<1>4. CASE UNCHANGED calls /\ UNCHANGED <<trading, crowded>>
  BY <1>2, <1>4 DEF Quiet, CallsTyped, Others, ClientTyped, trading
<1> QED BY <1>3, <1>4 DEF Place

LEMMA CancelEffect ==
  ASSUME CallsTyped, NEW c \in Tasks, NEW k \in UserCalls,
         calls[c].at \in {"idle", "unfound"}, CancelDirect(c, k),
         made' = made + 1, made' <= MaxCalls,
         UNCHANGED <<book, placed, asked, repriced, overtaken, faults, mixed>>
  PROVE  Sent(c)
<1>1. k \in CallTypes /\ k.op = "direct" /\ k.price \in Prices /\ k.ticket \in Tickets
  BY UserCallShape DEF Shape, CancelDirect
<1>2. UNCHANGED <<quoted, wanted, cache, lists, listed, outdated, slot4>>
  BY DEF CancelDirect, client, listing
<1>3. 0 \in Stops
  BY MarketAssumption DEF Stops, MarketAssumption
<1>4. SendTrade(c, k, k.price, 0)
  BY DEF CancelDirect
<1> QED BY <1>1, <1>2, <1>3, <1>4, SendEffect

LEMMA LookUpEffect ==
  ASSUME CallsTyped, ClientTyped, NEW c \in Tasks, NEW k \in UserCalls,
         calls[c].at \in {"idle", "unfound"}, LookUp(c, k),
         made' = made + 1, made' <= MaxCalls,
         UNCHANGED <<book, placed, asked, repriced, overtaken, faults, mixed>>
  PROVE  Sent(c) \/ Asks(c)
<1> DEFINE known == cache[k.ticket]
           call == [k EXCEPT !.known = known # 0, !.closed = book[k.ticket] = Closed,
                             !.unlisted = listed[k.ticket] = 0]
<1>1. /\ k \in CallTypes /\ k.op \in {"modify", "cancel"} /\ k.ticket \in Tickets
      /\ k.op = "modify" => k.price \in Prices \cup {Unset}
  BY UserCallShape DEF Shape, LookUp
<1>2. /\ call \in CallTypes /\ call.op = k.op /\ call.ticket = k.ticket /\ call.price = k.price
      /\ call.known = (known # 0) /\ call.closed = (book[k.ticket] = Closed)
      /\ call.unlisted = (listed[k.ticket] = 0)
  BY <1>1 DEF CallTypes
<1>3. UNCHANGED <<quoted, wanted, cache>>
  BY DEF LookUp, client
<1>4. known \in Prices \cup {0}
  BY <1>1 DEF ClientTyped
<1>5. StopsOf(k) \in Stops
  BY <1>1, MarketAssumption DEF StopsOf, CallTypes, Stops, MarketAssumption
<1>6. CASE known # 0
  <2>1. SendTrade(c, call, Price(k, known), StopsOf(k)) /\ UNCHANGED <<lists, listed, outdated, slot4>>
    BY <1>6 DEF LookUp, listing
  <2>2. /\ Price(k, known) \in Prices
      /\ (k.op = "modify" /\ k.price = Unset => Price(k, known) = known)
    BY <1>1, <1>4, <1>6 DEF Price
  <2> HIDE DEF call, known
  <2>3. k.op = "modify" /\ k.price = Unset =>
          cache[k.ticket] # 0 /\ Price(k, known) = cache[k.ticket]
    BY <2>2, <1>6 DEF known
  <2> QED BY <1>1, <1>2, <1>3, <1>5, <2>1, <2>2, <2>3, SendEffect
<1>7. CASE known = 0
  <2>1. AskForList(c, call)
    BY <1>7 DEF LookUp
  <2> HIDE DEF call, known
  <2> QED BY <1>1, <1>2, <1>3, <1>7, <2>1, AskEffect
<1> QED BY <1>6, <1>7

LEMMA StartEffect ==
  ASSUME CallsTyped, ClientTyped, Counts, NEW c \in Tasks, Start(c)
  PROVE  Quiet(c) \/ Sent(c) \/ Asks(c)
<1>1. /\ calls[c].at \in {"idle", "unfound"} /\ made' = made + 1 /\ made' <= MaxCalls
      /\ UNCHANGED <<book, placed, asked, repriced, overtaken, faults, mixed>>
  BY MarketAssumption DEF Start, server, Counts, MarketAssumption
<1>2. PICK k \in UserCalls :
        \/ Subscribe(c, k) \/ SubscribeBatch(c, k)
        \/ Place(c, k) \/ LookUp(c, k) \/ CancelDirect(c, k)
  BY DEF Start
<1> QED BY <1>1, <1>2, QuietEffect, PlaceEffect, LookUpEffect, CancelEffect

LEMMA ListedEffect ==
  ASSUME CallsTyped, Counts, Carried, NEW c \in Tasks, Listed(c)
  PROVE  Sent(c) \/ NotFound(c)
<1> DEFINE k == calls[c]
<1>1. /\ k \in CallTypes /\ k.at = "listed" /\ k.op \in {"modify", "cancel"}
      /\ k.ticket \in Tickets /\ (k.op = "modify" => k.price \in Prices \cup {Unset})
  BY DEF Listed, CallsTyped, Carried
<1>2. /\ UNCHANGED <<quoted, wanted, cache, lists, listed, outdated, slot4>> /\ made' = made
      /\ UNCHANGED <<book, placed, asked, repriced, overtaken, faults, mixed>>
  BY DEF Listed, client, listing, server
<1>3. CASE k.seen # 0
  <2>1. SendTrade(c, k, Price(k, k.seen), StopsOf(k))
    BY <1>3 DEF Listed
  <2>2. StopsOf(k) \in Stops
    BY <1>1, MarketAssumption DEF StopsOf, CallTypes, Stops, MarketAssumption
  <2>3. k.seen \in Prices
    BY <1>1, <1>3 DEF CallTypes
  <2>4. /\ Price(k, k.seen) \in Prices
      /\ (k.op = "modify" /\ k.price = Unset => Price(k, k.seen) = k.seen)
    BY <1>1, <2>3 DEF Price
  <2>5. made' \in {made, made + 1} /\ made' <= MaxCalls
    BY <1>2 DEF Counts
  <2> QED BY <1>1, <1>2, <1>3, <2>1, <2>2, <2>4, <2>5, SendEffect
<1>4. CASE k.seen = 0
  <2>1. Unfound(c) /\ UNCHANGED <<trading, crowded>>
    BY <1>4 DEF Listed
  <2> QED BY <1>1, <1>2, <1>4, <2>1, UnfoundEffect DEF NotFound, trading
<1> QED BY <1>3, <1>4

LEMMA ListTimeoutEffect ==
  ASSUME CallsTyped, Counts, NEW c \in Tasks, ListTimeout(c)
  PROVE  NotFound(c)
<1>1. Unfound(c) /\ calls[c].at = "list" /\ slot4' = {}
  BY DEF ListTimeout
<1>2. /\ faults' \in {faults, faults + 1} /\ faults' <= MaxFaults
      /\ c \in slot4 /\ lists > 0 => faults' = faults + 1
  BY MarketAssumption DEF ListTimeout, Fault, Counts, MarketAssumption
<1>3. /\ UNCHANGED <<quoted, wanted, cache, made, lists, listed, outdated>>
      /\ UNCHANGED <<slot12, replied, trades, answers, queue>>
      /\ UNCHANGED <<book, placed, asked, repriced, overtaken, mixed, crowded>>
  BY DEF ListTimeout, client, trading, server
<1> QED BY <1>1, <1>2, <1>3, UnfoundEffect DEF NotFound

LEMMA EndsEffect ==
  ASSUME CallsTyped, Counts, NEW c \in Tasks, Poll(c) \/ Reply(c) \/ TradeTimeout(c)
  PROVE  Ends(c)
<1>1. End(c) /\ calls[c].at \in {"poll", "sent"} /\ (calls[c].at = "sent" => slot12' = {})
      /\ slot12' \in {slot12, {}}
  BY DEF Poll, Reply, TradeTimeout
<1>2. faults' \in {faults, faults + 1} /\ faults' <= MaxFaults
  BY MarketAssumption DEF Poll, Reply, TradeTimeout, Fault, Counts, MarketAssumption
<1>3. /\ UNCHANGED <<quoted, wanted, cache, made, lists, listed, outdated, slot4, trades, answers, queue>>
      /\ UNCHANGED <<book, placed, asked, repriced, overtaken, mixed, crowded>>
  BY DEF Poll, Reply, TradeTimeout, client, listing, server
<1> QED BY <1>1, <1>2, <1>3, EndEffect DEF Ends

LEMMA ResultEffect ==
  ASSUME CallsTyped, NEW c \in Tasks, Result(c)
  PROVE  \E e \in queue : EndsWith(c, e)
<1>1. End(c) /\ calls[c].at = "sent" /\ slot12' = {}
  BY DEF Result
<1>2. PICK e \in queue :
         /\ queue' = queue \ {e}
         /\ IF calls[c].op = "place" /\ e.ok
            THEN /\ cache' = [cache EXCEPT ![e.ticket] = calls[c].price]
                 /\ mixed' = IF c \in crowded THEN mixed \cup {e.ticket} ELSE mixed
            ELSE UNCHANGED <<cache, mixed>>
  BY DEF Result
<1>3. /\ UNCHANGED <<quoted, wanted, made, lists, listed, outdated, slot4, trades, answers>>
      /\ UNCHANGED <<book, placed, asked, repriced, overtaken, faults, crowded>>
  BY DEF Result, listing, server
<1>4. EndsWith(c, e)
  BY <1>1, <1>2, <1>3, EndEffect DEF EndsWith
<1> QED BY <1>4

LEMMA ExecuteEffect ==
  ASSUME CallsTyped, Execute
  PROVE  \E m : Executed(m) /\ (PlaceOrder(m) \/ ModifyOrder(m) \/ CancelOrder(m) \/ Refuse(m))
<1>1. PICK m \in trades :
         /\ trades' = trades \ {m}
         /\ PlaceOrder(m) \/ ModifyOrder(m) \/ CancelOrder(m) \/ Refuse(m)
  BY DEF Execute
<1>2. Noted
  BY NotedEffect DEF Execute
<1>3. /\ UNCHANGED <<quoted, wanted, cache, made, lists, listed, outdated, slot4, slot12, replied, queue>>
      /\ UNCHANGED <<faults, mixed, crowded>>
  BY DEF Execute, client, listing
<1>4. Executed(m)
  BY <1>1, <1>2, <1>3 DEF Executed
<1> QED BY <1>1, <1>4

LEMMA ElsewhereEffect ==
  ASSUME CallsTyped, Counts, Elsewhere
  PROVE  \E t \in Tickets : Removed(t) \/ \E p \in Prices : Moved(t, p)
<1>1. PICK t \in Tickets :
         /\ book[t] # Closed
         /\ \/ /\ book' = [book EXCEPT ![t] = Closed]
               /\ UNCHANGED <<asked, repriced, overtaken>>
            \/ \E p \in Prices :
                 /\ book' = [book EXCEPT ![t].price = p]
                 /\ asked' = [asked EXCEPT ![t].price = p]
                 /\ Reprice(t, trades)
  BY DEF Elsewhere
<1>2. Noted
  BY NotedEffect DEF Elsewhere
<1>3. faults' = faults + 1 /\ faults' <= MaxFaults
  BY MarketAssumption DEF Elsewhere, Fault, Counts, MarketAssumption
<1>4. /\ UNCHANGED <<quoted, wanted, cache, made, lists, listed, outdated, slot4, slot12, replied, trades, answers>>
      /\ UNCHANGED <<queue, placed, mixed, crowded>>
  BY DEF Elsewhere, client, listing, trading
<1>5. CASE book' = [book EXCEPT ![t] = Closed] /\ UNCHANGED <<asked, repriced, overtaken>>
  BY <1>1, <1>2, <1>3, <1>4, <1>5 DEF Removed
<1>6. ASSUME NEW p \in Prices,
             book' = [book EXCEPT ![t].price = p], asked' = [asked EXCEPT ![t].price = p],
             Reprice(t, trades)
      PROVE  Moved(t, p)
  BY <1>1, <1>2, <1>3, <1>4, <1>6 DEF Moved
<1> QED BY <1>1, <1>5, <1>6

(* The steps of a call and of the server, and all steps, in this form.     *)
CallStep(c) ==
    \/ Quiet(c) \/ Sent(c) \/ Asks(c) \/ Ends(c) \/ NotFound(c)
    \/ \E e \in queue : EndsWith(c, e)

ServerStep ==
    \/ \E m : Executed(m) /\ (PlaceOrder(m) \/ ModifyOrder(m) \/ CancelOrder(m) \/ Refuse(m))
    \/ \E t \in Tickets : Removed(t) \/ \E p \in Prices : Moved(t, p)

Step ==
    \/ HandleQuote \/ ListLost \/ AnswerComes \/ Relist \/ UNCHANGED vars
    \/ Lists \/ ServerStep \/ \E c \in Tasks : CallStep(c)

LEMMA StepCases ==
  ASSUME CallsTyped, ClientTyped, ListTyped, Counts, Slots, Carried, [Next]_vars
  PROVE  Step
<1>1. CASE HandleQuote \/ ListLost \/ AnswerComes \/ Relist \/ UNCHANGED vars
  BY <1>1 DEF Step
<1>2. CASE ListComes
  BY <1>2, ListsEffect DEF Step
<1>3. CASE Execute
  BY <1>3, ExecuteEffect DEF ServerStep, Step
<1>4. CASE Elsewhere
  BY <1>4, ElsewhereEffect DEF ServerStep, Step
<1>5. ASSUME NEW c \in Tasks, Start(c) \/ Goes(c) PROVE CallStep(c)
  BY <1>5, StartEffect, ListedEffect, ListTimeoutEffect, EndsEffect, ResultEffect
     DEF Goes, CallStep
<1> QED BY <1>1, <1>2, <1>3, <1>4, <1>5 DEF Next, Arrives, Step
-----------------------------------------------------------------------------
(* The steps that touch what an invariant is about.                        *)

LEMMA AnswerTyped ==
  ASSUME NEW m \in Commands, NEW kind \in {"reply", "event"},
         NEW t \in Tickets \cup {0}, NEW ok \in BOOLEAN
  PROVE  Answer(kind, m, t, ok) \in Answered
BY DEF Answer, Answered, Commands

LEMMA PlaceWire ==
  ASSUME WireTyped, NEW m, Executed(m), PlaceOrder(m)
  PROVE  WireTyped'
<1>1. m \in Commands /\ trades' \subseteq Commands /\ queue' = queue /\ replied' = replied
  BY DEF Executed, WireTyped
<1>2. answers' \subseteq Answered
  <2>1. ASSUME NEW t \in Tickets,
               answers' = answers \cup {Answer("event", m, t, TRUE), Answer("reply", m, 0, TRUE)}
        PROVE  answers' \subseteq Answered
    <3>1. Answer("event", m, t, TRUE) \in Answered
      BY <1>1, AnswerTyped
    <3>2. Answer("reply", m, 0, TRUE) \in Answered
      BY <1>1, AnswerTyped
    <3> QED BY <2>1, <3>1, <3>2 DEF WireTyped
  <2>2. CASE answers' = answers \cup {Answer("event", m, 0, FALSE), Answer("reply", m, 0, FALSE)}
    <3>1. Answer("event", m, 0, FALSE) \in Answered
      BY <1>1, AnswerTyped
    <3>2. Answer("reply", m, 0, FALSE) \in Answered
      BY <1>1, AnswerTyped
    <3> QED BY <2>2, <3>1, <3>2 DEF WireTyped
  <2> QED BY <2>1, <2>2 DEF PlaceOrder
<1> QED BY <1>1, <1>2 DEF WireTyped

LEMMA ChangeWire ==
  ASSUME WireTyped, NEW m, Executed(m), ModifyOrder(m) \/ CancelOrder(m) \/ Refuse(m)
  PROVE  WireTyped'
<1>1. m \in Commands /\ trades' \subseteq Commands /\ queue' = queue /\ replied' = replied
  BY DEF Executed, WireTyped
<1>2. \/ answers' = answers \cup {Answer("reply", m, 0, TRUE)}
      \/ answers' = answers \cup {Answer("reply", m, 0, FALSE)}
  BY DEF ModifyOrder, CancelOrder, Refuse
<1>3. Answer("reply", m, 0, TRUE) \in Answered
  BY <1>1, AnswerTyped
<1>4. Answer("reply", m, 0, FALSE) \in Answered
  BY <1>1, AnswerTyped
<1>5. answers' \subseteq Answered
  BY <1>2, <1>3, <1>4 DEF WireTyped
<1> QED BY <1>1, <1>5 DEF WireTyped

LEMMA ComesWire ==
  ASSUME WireTyped, Slots, AnswerComes
  PROVE  WireTyped'
<1>1. trades' = trades /\ answers' \subseteq answers
  BY DEF AnswerComes
<1>2. replied' = replied \/ replied' = replied \cup slot12
  BY DEF AnswerComes
<1>3. replied' \subseteq Tasks
  BY <1>2 DEF WireTyped, Slots
<1>4. queue' = queue \/ \E a \in answers : a.kind = "event" /\ queue' = queue \cup {a}
  BY DEF AnswerComes
<1>5. queue' \subseteq Answered /\ \A a \in queue' : a.kind = "event"
  BY <1>4 DEF WireTyped
<1> QED BY <1>1, <1>3, <1>5 DEF WireTyped

LEMMA PlaceBook ==
  ASSUME BookTyped, WireTyped, NEW m, Executed(m), PlaceOrder(m)
  PROVE  BookTyped'
<1>1. m \in Commands
  BY DEF Executed, WireTyped
<1>2. /\ m.price \in Prices /\ [price |-> m.price, stops |-> m.stops] \in Orders
      /\ [price |-> m.price, stops |-> m.stops] \in [price : Prices \cup {0}, stops : Stops]
  BY <1>1 DEF Commands, Orders
<1>3. ASSUME NEW t \in Tickets,
             book' = [book EXCEPT ![t] = [price |-> m.price, stops |-> m.stops]],
             placed' = [placed EXCEPT ![t] = m.price],
             asked' = [asked EXCEPT ![t] = [price |-> m.price, stops |-> m.stops]]
      PROVE  BookTyped'
  <2>1. book' \in [Tickets -> Orders \cup {Closed}]
    BY <1>2, <1>3 DEF BookTyped
  <2>2. asked' \in [Tickets -> [price : Prices \cup {0}, stops : Stops]]
    BY <1>2, <1>3 DEF BookTyped
  <2>3. placed' \in [Tickets -> Prices \cup {0}]
    BY <1>2, <1>3 DEF BookTyped
  <2> QED BY <2>1, <2>2, <2>3 DEF BookTyped
<1>4. CASE UNCHANGED <<book, placed, asked>>
  BY <1>4 DEF BookTyped
<1> QED BY <1>3, <1>4 DEF PlaceOrder

LEMMA ModifyBook ==
  ASSUME BookTyped, WireTyped, NEW m, Executed(m), ModifyOrder(m)
  PROVE  BookTyped'
<1>1. m \in Commands /\ placed' = placed
  BY DEF Executed, WireTyped, ModifyOrder
<1>2. [price |-> m.price, stops |-> m.stops] \in Orders
  BY <1>1 DEF Commands, Orders
<1>3. book' \in [Tickets -> Orders \cup {Closed}]
  BY <1>2 DEF ModifyOrder, BookTyped
<1>4. [price |-> IF m.priced THEN m.price ELSE asked[m.ticket].price,
       stops |-> IF m.stopped THEN m.stops ELSE asked[m.ticket].stops]
         \in [price : Prices \cup {0}, stops : Stops] \/ m.ticket \notin Tickets
  BY <1>1 DEF Commands, BookTyped
<1>5. asked' \in [Tickets -> [price : Prices \cup {0}, stops : Stops]]
  BY <1>4 DEF ModifyOrder, BookTyped
<1> QED BY <1>1, <1>3, <1>5 DEF BookTyped

LEMMA CancelBook ==
  ASSUME BookTyped, NEW m, CancelOrder(m)
  PROVE  BookTyped'
<1>1. placed' = placed /\ asked' = asked /\ book' = [book EXCEPT ![m.ticket] = Closed]
  BY DEF CancelOrder
<1> QED BY <1>1 DEF BookTyped

LEMMA MovedBook ==
  ASSUME BookTyped, NEW t \in Tickets, NEW p \in Prices, Moved(t, p)
  PROVE  BookTyped'
<1>1. book[t] \in Orders
  BY DEF Moved, BookTyped
<1>2. [book[t] EXCEPT !.price = p] \in Orders
  BY <1>1 DEF Orders
<1>3. book' = [book EXCEPT ![t] = [book[t] EXCEPT !.price = p]]
  BY DEF Moved
<1>4. [asked[t] EXCEPT !.price = p] \in [price : Prices \cup {0}, stops : Stops]
  BY DEF BookTyped
<1>5. asked' = [asked EXCEPT ![t] = [asked[t] EXCEPT !.price = p]]
  BY DEF Moved
<1>6. placed' = placed
  BY DEF Moved
<1> QED BY <1>2, <1>3, <1>4, <1>5, <1>6 DEF BookTyped

LEMMA PlaceSince ==
  ASSUME BookTyped, WireTyped, Since, Carried, NEW m, Executed(m), PlaceOrder(m)
  PROVE  Since'
<1>1. /\ m \in Commands /\ trades' \subseteq trades
      /\ queue' = queue /\ cache' = cache /\ listed' = listed
  BY DEF Executed, WireTyped
<1>2. \A d \in Tasks : calls'[d].at = calls[d].at /\ calls'[d].ticket = calls[d].ticket
                       /\ calls'[d].seen = calls[d].seen
  BY DEF Executed, Noted
<1>3. CASE placed' = placed /\ book' = book
           /\ answers' = answers \cup {Answer("event", m, 0, FALSE), Answer("reply", m, 0, FALSE)}
  <2>1. \A a \in answers' \cup queue' : a.kind = "event" /\ a.ok => a \in answers \cup queue
    <3>1. Answer("event", m, 0, FALSE).ok = FALSE
      BY DEF Answer
    <3>2. Answer("reply", m, 0, FALSE).ok = FALSE
      BY DEF Answer
    <3> QED BY <1>1, <1>3, <3>1, <3>2
  <2> QED BY <1>1, <1>2, <1>3, <2>1 DEF Since
<1>4. ASSUME NEW t \in Tickets, placed[t] = 0, placed' = [placed EXCEPT ![t] = m.price],
             book' = [book EXCEPT ![t] = [price |-> m.price, stops |-> m.stops]],
             answers' = answers \cup {Answer("event", m, t, TRUE), Answer("reply", m, 0, TRUE)}
      PROVE  Since'
  <2>1. m.price # 0
    BY <1>1, MarketAssumption DEF Commands, Prices, MarketAssumption
  <2>2. \A u \in Tickets : u # t => placed'[u] = placed[u] /\ book'[u] = book[u]
    BY <1>4 DEF BookTyped
  <2>3. placed'[t] # 0
    BY <1>4, <2>1 DEF BookTyped
  <2>4. \A u \in Tickets : placed[u] # 0 => placed'[u] # 0
    BY <2>2, <2>3
  <2>5. \A a \in answers' \cup queue' :
          a.kind = "event" /\ a.ok => a \in answers \cup queue \/ a.ticket = t
    <3>1. Answer("event", m, t, TRUE).ticket = t
      BY DEF Answer
    <3>2. Answer("reply", m, 0, TRUE).kind = "reply"
      BY DEF Answer
    <3> QED BY <1>1, <1>4, <3>1, <3>2
  <2>6. \A a \in answers' \cup queue' :
          a.kind = "event" /\ a.ok => a.ticket \in Tickets /\ placed'[a.ticket] # 0
    BY <2>3, <2>4, <2>5 DEF Since
  <2>7. \A u \in Tickets : placed'[u] = 0 => cache'[u] = 0 /\ book'[u] = Closed /\ listed'[u] = 0
    BY <1>1, <2>2, <2>3 DEF Since
  <2>8. \A n \in trades' : /\ n.do # "place" => n.ticket \in Tickets
                           /\ n.do = "modify" /\ ~n.priced => placed'[n.ticket] # 0
    BY <1>1, <2>4 DEF Since
  <2>9. \A c \in Tasks : calls'[c].at = "listed" /\ calls'[c].seen # 0 =>
          placed'[calls'[c].ticket] # 0
    BY <1>2, <2>4 DEF Since, Carried
  <2> QED BY <2>6, <2>7, <2>8, <2>9 DEF Since
<1> QED BY <1>3, <1>4 DEF PlaceOrder

LEMMA WrittenFaithful ==
  ASSUME ClientTyped, Carried, NEW c \in Tasks, NEW e \in queue, EndsWith(c, e)
  PROVE  /\ \A t \in Tickets : Clear(t)' => Clear(t)
         /\ asked' = asked /\ book' = book
<1>1. /\ book' = book /\ repriced' = repriced /\ overtaken' = overtaken
      /\ outdated' = outdated /\ mixed \subseteq mixed' /\ asked' = asked
  BY DEF EndsWith
<1>2. ASSUME NEW t \in Tickets, cache[t] # 0 PROVE cache'[t] # 0
  <2>1. CASE cache' = cache
    BY <1>2, <2>1
  <2>2. CASE cache' = [cache EXCEPT ![e.ticket] = calls[c].price] /\ calls[c].op = "place"
    <3>1. calls[c].price # 0
      BY <2>2, MarketAssumption DEF EndsWith, Carried, Prices, MarketAssumption
    <3> QED BY <1>2, <2>2, <3>1 DEF ClientTyped
  <2> QED BY <2>1, <2>2 DEF EndsWith
<1> QED BY <1>1, <1>2 DEF Clear, Blurred

LEMMA WrittenPrices ==
  ASSUME ClientTyped, Since, Carried, Faithful, FaithfulTrades, FaithfulSeen,
         NEW c \in Tasks, NEW e \in queue, EndsWith(c, e)
  PROVE  Faithful' /\ FaithfulTrades' /\ FaithfulSeen'
<1>1. (\A t \in Tickets : Clear(t)' => Clear(t)) /\ asked' = asked /\ book' = book
  BY WrittenFaithful
<1>2. trades' = trades /\ \A m \in trades : m.do = "modify" => m.ticket \in Tickets
  BY DEF EndsWith, Since
<1>3. \A d \in Tasks : calls'[d].at = "listed" => calls'[d] = calls[d] /\ calls[d].ticket \in Tickets
  BY DEF EndsWith, Others, Carried
<1>4. Faithful'
  BY <1>1 DEF Faithful
<1>5. FaithfulTrades'
  BY <1>1, <1>2 DEF FaithfulTrades
<1>6. FaithfulSeen'
  BY <1>1, <1>3 DEF FaithfulSeen
<1> QED BY <1>4, <1>5, <1>6

LEMMA ModifyFaithful ==
  ASSUME BookTyped, WireTyped, Since, Faithful, FaithfulTrades, NEW m, Executed(m), ModifyOrder(m)
  PROVE  Faithful'
<1>1. m \in Commands /\ m \in trades /\ m.ticket \in Tickets /\ cache' = cache /\ mixed' = mixed
  BY DEF Executed, WireTyped, ModifyOrder, Since
<1>2. /\ book'[m.ticket].price = m.price
      /\ asked'[m.ticket].price = IF m.priced THEN m.price ELSE asked[m.ticket].price
      /\ \A t \in Tickets : t # m.ticket => book'[t] = book[t] /\ asked'[t] = asked[t]
  BY <1>1 DEF ModifyOrder, BookTyped
<1>3. repriced \subseteq repriced' /\ overtaken \subseteq overtaken' /\ outdated' = outdated
  BY DEF Executed, ModifyOrder, Reprice
<1>4. \A t \in Tickets : ~Blurred(t)' => ~Blurred(t)
  BY <1>1, <1>3 DEF Blurred
<1>5. ~Blurred(m.ticket) /\ ~m.priced => m.price = asked[m.ticket].price
  BY <1>1 DEF FaithfulTrades, Clear, ModifyOrder
<1> QED BY <1>1, <1>2, <1>4, <1>5 DEF Faithful, Clear

LEMMA SentFaithful ==
  ASSUME FaithfulTrades, FaithfulSeen, AskedAsPlaced, CachedAsPlaced, NEW c \in Tasks, Sent(c)
  PROVE  FaithfulTrades'
<1>1. /\ cache' = cache /\ mixed' = mixed /\ repriced' = repriced
      /\ overtaken' = overtaken /\ outdated' = outdated /\ book' = book /\ asked' = asked
  BY DEF Sent
<1>2. \A t : Clear(t)' <=> Clear(t)
  BY <1>1 DEF Clear, Blurred
<1>3. PICK m \in Commands :
        /\ trades' = trades \cup {m}
        /\ m.do # "place" => m.ticket \in Tickets
        /\ m.do = "modify" /\ ~m.priced =>
                \/ cache[m.ticket] # 0 /\ m.price = cache[m.ticket]
                \/ /\ calls[c].at = "listed" /\ calls[c].ticket = m.ticket
                   /\ calls[c].seen # 0 /\ m.price = calls[c].seen
  BY DEF Sent
<1>4. ASSUME m.do = "modify", ~m.priced, Clear(m.ticket), cache[m.ticket] # 0, m.price = cache[m.ticket]
      PROVE  m.price = asked[m.ticket].price
  BY <1>3, <1>4 DEF Clear, Blurred, AskedAsPlaced, CachedAsPlaced
<1>5. ASSUME m.do = "modify", ~m.priced, Clear(m.ticket), calls[c].at = "listed",
             calls[c].ticket = m.ticket, calls[c].seen # 0, m.price = calls[c].seen
      PROVE  m.price = asked[m.ticket].price
  BY <1>5 DEF FaithfulSeen
<1> QED BY <1>1, <1>2, <1>3, <1>4, <1>5 DEF FaithfulTrades

LEMMA PlacePrices ==
  ASSUME BookTyped, Since, Carried, FaithfulTrades, FaithfulSeen, NEW m, Executed(m), PlaceOrder(m)
  PROVE  FaithfulTrades' /\ FaithfulSeen'
<1>1. /\ trades' \subseteq trades /\ cache' = cache /\ mixed' = mixed
      /\ repriced' = repriced /\ overtaken' = overtaken /\ outdated' = outdated
  BY DEF Executed, PlaceOrder
<1>2. \A u \in Tickets : placed[u] # 0 => book'[u] = book[u] /\ asked'[u] = asked[u]
  BY DEF PlaceOrder, BookTyped
<1>3. \A u \in Tickets : placed[u] # 0 /\ Clear(u)' => Clear(u)
  BY <1>1, <1>2 DEF Clear, Blurred
<1>4. FaithfulTrades'
  BY <1>1, <1>2, <1>3 DEF FaithfulTrades, Since
<1>5. \A d \in Tasks : calls'[d].at = calls[d].at /\ calls'[d].ticket = calls[d].ticket
                       /\ calls'[d].seen = calls[d].seen
  BY DEF Executed, Noted
<1>6. FaithfulSeen'
  BY <1>2, <1>3, <1>5 DEF FaithfulSeen, Since, Carried
<1> QED BY <1>4, <1>6

LEMMA ListsSeen ==
  ASSUME Slots, Carried, Faithful, FaithfulSeen, AskedAsPlaced, ListedAsPlaced, Lists
  PROVE  FaithfulSeen'
<1>1. /\ cache' = cache /\ mixed' = mixed /\ repriced' = repriced /\ overtaken' = overtaken
      /\ outdated \subseteq outdated' /\ book' = book /\ asked' = asked
  BY DEF Lists
<1>2. \A t : Clear(t)' => Clear(t)
  BY <1>1 DEF Clear, Blurred
<1>3. \A d \in slot4 : d \in Tasks /\ calls[d].ticket \in Tickets
  BY DEF Slots, Carried
<1>4. \A d \in slot4 :
        calls'[d].ticket = calls[d].ticket /\ calls'[d].seen = listed[calls[d].ticket]
  BY DEF Lists
<1>5. \A d \in Tasks \ slot4 : calls'[d] = calls[d]
  BY DEF Lists
<1>6. ASSUME NEW t \in Tickets, Clear(t)', listed[t] # 0,
             listed[t] \in {0, book[t].price} \/ t \in outdated'
      PROVE  listed[t] = asked[t].price
  <2>1. Clear(t)
    BY <1>2, <1>6
  <2>2. CASE t \in repriced
    <3>1. t \notin outdated'
      BY <1>1, <1>6, <2>2 DEF Clear, Blurred
    <3> QED BY <1>6, <2>1, <3>1 DEF Faithful
  <2>3. CASE t \notin repriced
    <3>1. t \notin mixed /\ book[t] # Closed
      BY <2>1 DEF Clear, Blurred
    <3> QED BY <1>6, <2>3, <3>1 DEF ListedAsPlaced, AskedAsPlaced
  <2> QED BY <2>2, <2>3
<1>7. ASSUME NEW d \in Tasks, calls'[d].at = "listed", calls'[d].seen # 0,
             Clear(calls[d].ticket)'
      PROVE  calls'[d].seen = asked'[calls'[d].ticket].price
  <2>1. CASE d \in slot4
    <3>1. PICK t \in Tickets : t = calls[d].ticket
      BY <1>3, <2>1
    <3>2. calls'[d].ticket = t /\ calls'[d].seen = listed[t] /\ Clear(t)'
      BY <1>4, <1>7, <2>1, <3>1
    <3>3. listed[t] \in {0, book[t].price} \/ t \in outdated'
      BY <2>1, <3>1 DEF Lists
    <3> QED BY <1>1, <1>6, <1>7, <3>2, <3>3
  <2>2. CASE d \notin slot4
    BY <1>1, <1>2, <1>5, <1>7, <2>2 DEF FaithfulSeen
  <2> QED BY <2>1, <2>2
<1> QED BY <1>7 DEF FaithfulSeen

LEMMA WrittenSince ==
  ASSUME ClientTyped, WireTyped, Since, NEW c \in Tasks, NEW e \in queue, EndsWith(c, e)
  PROVE  Since'
<1>1. /\ book' = book /\ placed' = placed /\ trades' = trades /\ answers' = answers
      /\ queue' \subseteq queue /\ listed' = listed
  BY DEF EndsWith
<1>2. ASSUME NEW t \in Tickets, placed[t] = 0 PROVE cache'[t] = 0
  <2>1. CASE cache' = cache
    BY <1>2, <2>1 DEF Since
  <2>2. CASE cache' = [cache EXCEPT ![e.ticket] = calls[c].price] /\ e.ok
    <3>1. t # e.ticket
      BY <1>2, <2>2 DEF Since, WireTyped
    <3> QED BY <1>2, <2>2, <3>1 DEF Since, ClientTyped
  <2> QED BY <2>1, <2>2 DEF EndsWith
<1>3. \A d \in Tasks : calls'[d].at = "listed" => calls'[d] = calls[d]
  BY DEF EndsWith, Others
<1> QED BY <1>1, <1>2, <1>3 DEF Since
-----------------------------------------------------------------------------
(* Each part of the invariant is kept.                                     *)

LEMMA CallsTypedStep ==
  ASSUME CallsTyped, Step
  PROVE  CallsTyped'
<1>1. CASE HandleQuote \/ ListLost \/ AnswerComes \/ Relist \/ UNCHANGED vars
  BY <1>1 DEF HandleQuote, Relist, ListLost, AnswerComes, vars, CallsTyped
<1>2. CASE Lists
  BY <1>2 DEF Lists
<1>3. ASSUME NEW c \in Tasks, Quiet(c) \/ Sent(c) \/ Asks(c) \/ Ends(c) \/
            NotFound(c) \/ (\E e \in queue : EndsWith(c, e)) PROVE CallsTyped'
  BY <1>3 DEF Quiet, Sent, Asks, Ends, EndsWith, NotFound
<1>4. ASSUME NEW m, Executed(m), PlaceOrder(m) \/ ModifyOrder(m) \/
            CancelOrder(m) \/ Refuse(m) PROVE CallsTyped'
  BY <1>4 DEF Executed, Noted
<1>5. ASSUME NEW t \in Tickets, Removed(t) \/ (\E p \in Prices : Moved(t, p))
            PROVE CallsTyped'
  BY <1>5 DEF Removed, Noted, Moved
<1> QED BY <1>1, <1>2, <1>3, <1>4, <1>5 DEF Step, CallStep, ServerStep

LEMMA ClientTypedStep ==
  ASSUME ClientTyped, Carried, Step
  PROVE  ClientTyped'
<1>1. CASE HandleQuote \/ ListLost \/ AnswerComes \/ Relist \/ UNCHANGED vars
  BY <1>1 DEF HandleQuote, Relist, ListLost, client, AnswerComes, vars, ClientTyped
<1>2. CASE Lists
  BY <1>2 DEF Lists, ClientTyped
<1>3. ASSUME NEW c \in Tasks, Quiet(c) \/ Sent(c) \/ Asks(c) \/ Ends(c) \/
            NotFound(c) PROVE ClientTyped'
  BY <1>3 DEF Quiet, Sent, Asks, Ends, NotFound, ClientTyped
<1>4. ASSUME NEW c \in Tasks, NEW e \in queue, EndsWith(c, e) PROVE ClientTyped'
  BY <1>4 DEF EndsWith, ClientTyped, Carried
<1>5. ASSUME NEW m, Executed(m), PlaceOrder(m) \/ ModifyOrder(m) \/
            CancelOrder(m) \/ Refuse(m) PROVE ClientTyped'
  BY <1>5 DEF Executed, ClientTyped
<1>6. ASSUME NEW t \in Tickets, Removed(t) \/ (\E p \in Prices : Moved(t, p))
            PROVE ClientTyped'
  BY <1>6 DEF Removed, Moved, ClientTyped
<1> QED BY <1>1, <1>2, <1>3, <1>4, <1>5, <1>6 DEF Step, CallStep, ServerStep

LEMMA WireTypedStep ==
  ASSUME WireTyped, Slots, Step
  PROVE  WireTyped'
<1>1. CASE HandleQuote \/ ListLost \/ Relist \/ UNCHANGED vars
  BY <1>1 DEF HandleQuote, Relist, trading, ListLost, vars, WireTyped
<1>2. CASE AnswerComes
  BY <1>2, ComesWire
<1>3. CASE Lists
  BY <1>3 DEF Lists, WireTyped
<1>4. ASSUME NEW c \in Tasks, Quiet(c) \/ Sent(c) \/ Asks(c) \/ Ends(c) \/
            NotFound(c) \/ (\E e \in queue : EndsWith(c, e)) PROVE WireTyped'
  BY <1>4 DEF Quiet, Sent, Asks, Ends, EndsWith, NotFound, WireTyped
<1>5. ASSUME NEW m, Executed(m), PlaceOrder(m) PROVE WireTyped'
  BY <1>5, PlaceWire
<1>6. ASSUME NEW m, Executed(m), ModifyOrder(m) \/ CancelOrder(m) \/ Refuse(m)
            PROVE WireTyped'
  BY <1>6, ChangeWire
<1>7. ASSUME NEW t \in Tickets, Removed(t) \/ (\E p \in Prices : Moved(t, p))
            PROVE WireTyped'
  BY <1>7 DEF Removed, Moved, WireTyped
<1> QED BY <1>1, <1>2, <1>3, <1>4, <1>5, <1>6, <1>7 DEF Step, CallStep,
        ServerStep

LEMMA BookTypedStep ==
  ASSUME BookTyped, WireTyped, Step
  PROVE  BookTyped'
<1>1. CASE HandleQuote \/ ListLost \/ AnswerComes \/ Relist \/ UNCHANGED vars
  BY <1>1 DEF HandleQuote, Relist, server, ListLost, AnswerComes, vars, BookTyped
<1>2. CASE Lists
  BY <1>2 DEF Lists, BookTyped
<1>3. ASSUME NEW c \in Tasks, Quiet(c) \/ Sent(c) \/ Asks(c) \/ Ends(c) \/
            NotFound(c) \/ (\E e \in queue : EndsWith(c, e)) PROVE BookTyped'
  BY <1>3 DEF Quiet, Sent, Asks, Ends, EndsWith, NotFound, BookTyped
<1>4. ASSUME NEW m, Executed(m), PlaceOrder(m) PROVE BookTyped'
  BY <1>4, PlaceBook
<1>5. ASSUME NEW m, Executed(m), ModifyOrder(m) PROVE BookTyped'
  BY <1>5, ModifyBook
<1>6. ASSUME NEW m, Executed(m), CancelOrder(m) PROVE BookTyped'
  BY <1>6, CancelBook
<1>7. ASSUME NEW m, Executed(m), Refuse(m) PROVE BookTyped'
  BY <1>7 DEF Refuse, BookTyped
<1>8. ASSUME NEW t \in Tickets, Removed(t) PROVE BookTyped'
  BY <1>8 DEF Removed, BookTyped
<1>9. ASSUME NEW t \in Tickets, NEW p \in Prices, Moved(t, p) PROVE BookTyped'
  BY <1>9, MovedBook
<1> QED BY <1>1, <1>2, <1>3, <1>4, <1>5, <1>6, <1>7, <1>8, <1>9 DEF Step,
        CallStep, ServerStep

LEMMA CountsStep ==
  ASSUME Counts, Step
  PROVE  Counts'
<1>1. CASE HandleQuote \/ ListLost \/ AnswerComes \/ Relist \/ UNCHANGED vars
  BY <1>1, MarketAssumption DEF HandleQuote, Relist, listing, ListLost, Fault,
         AnswerComes, vars, Counts, MarketAssumption
<1>2. CASE Lists
  BY <1>2 DEF Lists, Counts
<1>3. ASSUME NEW c \in Tasks, Quiet(c) \/ Sent(c) \/ Asks(c) \/ Ends(c) \/
            NotFound(c) \/ (\E e \in queue : EndsWith(c, e)) PROVE Counts'
  BY <1>3 DEF Quiet, Sent, Asks, Ends, EndsWith, NotFound, Counts
<1>4. ASSUME NEW m, Executed(m), PlaceOrder(m) \/ ModifyOrder(m) \/
            CancelOrder(m) \/ Refuse(m) PROVE Counts'
  BY <1>4 DEF Executed, Counts
<1>5. ASSUME NEW t \in Tickets, Removed(t) \/ (\E p \in Prices : Moved(t, p))
            PROVE Counts'
  BY <1>5 DEF Removed, Moved, Counts
<1> QED BY <1>1, <1>2, <1>3, <1>4, <1>5 DEF Step, CallStep, ServerStep

LEMMA SlotsStep ==
  ASSUME Slots, Step
  PROVE  Slots'
<1>1. CASE HandleQuote \/ ListLost \/ AnswerComes \/ Relist \/ UNCHANGED vars
  BY <1>1 DEF HandleQuote, Relist, listing, trading, ListLost, AnswerComes, vars, Slots
<1>2. CASE Lists
  BY <1>2 DEF Lists, Slots
<1>3. ASSUME NEW c \in Tasks, Quiet(c) \/ Sent(c) \/ Asks(c) \/ Ends(c) \/
            NotFound(c) \/ (\E e \in queue : EndsWith(c, e)) PROVE Slots'
  BY <1>3 DEF Quiet, Others, Sent, Asks, Ends, EndsWith, NotFound, Slots
<1>4. ASSUME NEW m, Executed(m), PlaceOrder(m) \/ ModifyOrder(m) \/
            CancelOrder(m) \/ Refuse(m) PROVE Slots'
  BY <1>4 DEF Executed, Noted, Slots
<1>5. ASSUME NEW t \in Tickets, Removed(t) \/ (\E p \in Prices : Moved(t, p))
            PROVE Slots'
  BY <1>5 DEF Removed, Noted, Moved, Slots
<1> QED BY <1>1, <1>2, <1>3, <1>4, <1>5 DEF Step, CallStep, ServerStep

LEMMA CarriedStep ==
  ASSUME Carried, Slots, Step
  PROVE  Carried'
<1>1. CASE HandleQuote \/ ListLost \/ AnswerComes \/ Relist \/ UNCHANGED vars
  BY <1>1 DEF HandleQuote, Relist, ListLost, AnswerComes, vars, Carried
<1>2. CASE Lists
  BY <1>2 DEF Lists, Carried, Slots
<1>3. ASSUME NEW c \in Tasks, Quiet(c) \/ Sent(c) \/ Asks(c) \/ Ends(c) \/
            NotFound(c) \/ (\E e \in queue : EndsWith(c, e)) PROVE Carried'
  BY <1>3 DEF Quiet, Others, Sent, Asks, Ends, EndsWith, NotFound, Carried
<1>4. ASSUME NEW m, Executed(m), PlaceOrder(m) \/ ModifyOrder(m) \/
            CancelOrder(m) \/ Refuse(m) PROVE Carried'
  BY <1>4 DEF Executed, Noted, Carried
<1>5. ASSUME NEW t \in Tickets, Removed(t) \/ (\E p \in Prices : Moved(t, p))
            PROVE Carried'
  BY <1>5 DEF Removed, Noted, Moved, Carried
<1> QED BY <1>1, <1>2, <1>3, <1>4, <1>5 DEF Step, CallStep, ServerStep

LEMMA SinceStep ==
  ASSUME Since, Carried, Slots, ClientTyped, WireTyped, BookTyped, Step
  PROVE  Since'
<1>1. CASE HandleQuote \/ ListLost \/ AnswerComes \/ Relist \/ UNCHANGED vars
  BY <1>1 DEF HandleQuote, Relist, listing, Closed, trading, server, ListLost, client, AnswerComes, vars,
         Since
<1>2. CASE Lists
  BY <1>2 DEF Lists, Since, Closed, Carried, Slots
<1>3. ASSUME NEW c \in Tasks, Quiet(c) \/ Sent(c) \/ Asks(c) \/ Ends(c) \/
            NotFound(c) PROVE Since'
  BY <1>3 DEF Quiet, Others, Sent, Asks, Ends, NotFound, Since
<1>4. ASSUME NEW c \in Tasks, NEW e \in queue, EndsWith(c, e) PROVE Since'
  BY <1>4, WrittenSince
<1>5. ASSUME NEW m, Executed(m), PlaceOrder(m) PROVE Since'
  BY <1>5, PlaceSince
<1>6. ASSUME NEW m, Executed(m), ModifyOrder(m) PROVE Since'
  BY <1>6 DEF Executed, Noted, ModifyOrder, Answer, Since
<1>7. ASSUME NEW m, Executed(m), CancelOrder(m) PROVE Since'
  BY <1>7 DEF Executed, Noted, CancelOrder, Answer, Since
<1>8. ASSUME NEW m, Executed(m), Refuse(m) PROVE Since'
  BY <1>8 DEF Executed, Noted, Refuse, Answer, Since
<1>9. ASSUME NEW t \in Tickets, Removed(t) PROVE Since'
  BY <1>9 DEF Removed, Noted, Since
<1>10. ASSUME NEW t \in Tickets, NEW p \in Prices, Moved(t, p) PROVE Since'
  BY <1>10 DEF Moved, Noted, Since
<1> QED BY <1>1, <1>2, <1>3, <1>4, <1>5, <1>6, <1>7, <1>8, <1>9, <1>10 DEF Step,
        CallStep, ServerStep

LEMMA AloneStep ==
  ASSUME Alone, Step
  PROVE  Alone'
<1>1. CASE HandleQuote \/ ListLost \/ AnswerComes \/ Relist \/ UNCHANGED vars
  BY <1>1 DEF HandleQuote, Relist, trading, ListLost, AnswerComes, vars, Alone
<1>2. CASE Lists
  BY <1>2 DEF Lists, Alone
<1>3. ASSUME NEW c \in Tasks, Quiet(c) \/ Sent(c) \/ Asks(c) \/ Ends(c) \/
            NotFound(c) \/ (\E e \in queue : EndsWith(c, e)) PROVE Alone'
  BY <1>3 DEF Quiet, Others, Sent, Crowding, Trading, LeftOver, Asks, Ends,
         EndsWith, NotFound, Alone
<1>4. ASSUME NEW m, Executed(m), PlaceOrder(m) \/ ModifyOrder(m) \/
            CancelOrder(m) \/ Refuse(m) PROVE Alone'
  BY <1>4 DEF Executed, Noted, PlaceOrder, Answer, ModifyOrder, CancelOrder,
         Refuse, Alone
<1>5. ASSUME NEW t \in Tickets, Removed(t) \/ (\E p \in Prices : Moved(t, p))
            PROVE Alone'
  BY <1>5 DEF Removed, Noted, Moved, Alone
<1> QED BY <1>1, <1>2, <1>3, <1>4, <1>5 DEF Step, CallStep, ServerStep

LEMMA OwnPriceStep ==
  ASSUME OwnPrice, Since, BookTyped, Step
  PROVE  OwnPrice'
<1>1. CASE HandleQuote \/ ListLost \/ AnswerComes \/ Relist \/ UNCHANGED vars
  BY <1>1 DEF HandleQuote, Relist, trading, server, ListLost, AnswerComes, vars,
         OwnPrice
<1>2. CASE Lists
  BY <1>2 DEF Lists, OwnPrice
<1>3. ASSUME NEW c \in Tasks, Quiet(c) \/ Sent(c) \/ Asks(c) \/ Ends(c) \/
            NotFound(c) \/ (\E e \in queue : EndsWith(c, e)) PROVE OwnPrice'
  BY <1>3, MarketAssumption DEF Quiet, Others, Sent, Crowding, Trading,
         LeftOver, Asks, Ends, EndsWith, NotFound, OwnPrice, MarketAssumption
<1>4. ASSUME NEW m, Executed(m), PlaceOrder(m) PROVE OwnPrice'
  BY <1>4 DEF Executed, Noted, PlaceOrder, Answer, OwnPrice, Since, BookTyped
<1>5. ASSUME NEW m, Executed(m), ModifyOrder(m) \/ CancelOrder(m) \/ Refuse(m)
            PROVE OwnPrice'
  BY <1>5 DEF Executed, Noted, ModifyOrder, Answer, CancelOrder, Refuse,
         OwnPrice
<1>6. ASSUME NEW t \in Tickets, Removed(t) \/ (\E p \in Prices : Moved(t, p))
            PROVE OwnPrice'
  BY <1>6 DEF Removed, Noted, Moved, OwnPrice
<1> QED BY <1>1, <1>2, <1>3, <1>4, <1>5, <1>6 DEF Step, CallStep, ServerStep

LEMMA AskedAsPlacedStep ==
  ASSUME AskedAsPlaced, BookTyped, Step
  PROVE  AskedAsPlaced'
<1>1. CASE HandleQuote \/ ListLost \/ AnswerComes \/ Relist \/ UNCHANGED vars
  BY <1>1 DEF HandleQuote, Relist, server, ListLost, AnswerComes, vars, AskedAsPlaced
<1>2. CASE Lists
  BY <1>2 DEF Lists, AskedAsPlaced
<1>3. ASSUME NEW c \in Tasks, Quiet(c) \/ Sent(c) \/ Asks(c) \/ Ends(c) \/
            NotFound(c) \/ (\E e \in queue : EndsWith(c, e)) PROVE
            AskedAsPlaced'
  BY <1>3 DEF Quiet, Sent, Asks, Ends, EndsWith, NotFound, AskedAsPlaced
<1>4. ASSUME NEW m, Executed(m), PlaceOrder(m) PROVE AskedAsPlaced'
  BY <1>4 DEF PlaceOrder, Answer, AskedAsPlaced, BookTyped
<1>5. ASSUME NEW m, Executed(m), ModifyOrder(m) PROVE AskedAsPlaced'
  BY <1>5 DEF ModifyOrder, Reprice, AskedAsPlaced
<1>6. ASSUME NEW m, Executed(m), CancelOrder(m) PROVE AskedAsPlaced'
  BY <1>6 DEF CancelOrder, AskedAsPlaced
<1>7. ASSUME NEW m, Executed(m), Refuse(m) PROVE AskedAsPlaced'
  BY <1>7 DEF Refuse, AskedAsPlaced
<1>8. ASSUME NEW t \in Tickets, Removed(t) PROVE AskedAsPlaced'
  BY <1>8 DEF Removed, AskedAsPlaced
<1>9. ASSUME NEW t \in Tickets, NEW p \in Prices, Moved(t, p) PROVE
            AskedAsPlaced'
  BY <1>9 DEF Moved, Reprice, AskedAsPlaced
<1> QED BY <1>1, <1>2, <1>3, <1>4, <1>5, <1>6, <1>7, <1>8, <1>9 DEF Step,
        CallStep, ServerStep

LEMMA CachedAsPlacedStep ==
  ASSUME CachedAsPlaced, OwnPrice, ClientTyped, WireTyped, BookTyped, Step
  PROVE  CachedAsPlaced'
<1>1. CASE HandleQuote \/ ListLost \/ AnswerComes \/ Relist \/ UNCHANGED vars
  BY <1>1 DEF HandleQuote, Relist, server, ListLost, client, AnswerComes, vars,
         CachedAsPlaced
<1>2. CASE Lists
  BY <1>2 DEF Lists, CachedAsPlaced
<1>3. ASSUME NEW c \in Tasks, Quiet(c) \/ Sent(c) \/ Asks(c) \/ Ends(c) \/
            NotFound(c) PROVE CachedAsPlaced'
  BY <1>3 DEF Quiet, Sent, Asks, Ends, NotFound, CachedAsPlaced
<1>4. ASSUME NEW c \in Tasks, NEW e \in queue, EndsWith(c, e) PROVE
            CachedAsPlaced'
  BY <1>4 DEF EndsWith, CachedAsPlaced, OwnPrice, ClientTyped, WireTyped
<1>5. ASSUME NEW m, Executed(m), PlaceOrder(m) PROVE CachedAsPlaced'
  BY <1>5 DEF Executed, PlaceOrder, Answer, CachedAsPlaced, BookTyped
<1>6. ASSUME NEW m, Executed(m), ModifyOrder(m) \/ CancelOrder(m) \/ Refuse(m)
            PROVE CachedAsPlaced'
  BY <1>6 DEF Executed, ModifyOrder, Answer, CancelOrder, Refuse, CachedAsPlaced
<1>7. ASSUME NEW t \in Tickets, Removed(t) \/ (\E p \in Prices : Moved(t, p))
            PROVE CachedAsPlaced'
  BY <1>7 DEF Removed, Moved, CachedAsPlaced
<1> QED BY <1>1, <1>2, <1>3, <1>4, <1>5, <1>6, <1>7 DEF Step, CallStep,
        ServerStep

LEMMA FaithfulStep ==
  ASSUME Faithful, ClientTyped, Carried, Since, FaithfulTrades, FaithfulSeen,
         BookTyped, WireTyped, Step
  PROVE  Faithful'
<1>1. CASE HandleQuote \/ ListLost \/ AnswerComes \/ Relist \/ UNCHANGED vars
  BY <1>1 DEF HandleQuote, Relist, listing, server, ListLost, client, AnswerComes, vars,
         Faithful, Clear, Blurred
<1>2. CASE Lists
  BY <1>2 DEF Lists, Faithful, Clear, Blurred
<1>3. ASSUME NEW c \in Tasks, Quiet(c) \/ Sent(c) \/ Asks(c) \/ Ends(c) \/
            NotFound(c) PROVE Faithful'
  BY <1>3 DEF Quiet, Sent, Asks, Ends, NotFound, Faithful, Clear, Blurred
<1>4. ASSUME NEW c \in Tasks, NEW e \in queue, EndsWith(c, e) PROVE Faithful'
  BY <1>4, WrittenPrices
<1>5. ASSUME NEW m, Executed(m), PlaceOrder(m) PROVE Faithful'
  BY <1>5 DEF Executed, PlaceOrder, Answer, Faithful, BookTyped, Clear, Blurred
<1>6. ASSUME NEW m, Executed(m), ModifyOrder(m) PROVE Faithful'
  BY <1>6, ModifyFaithful
<1>7. ASSUME NEW m, Executed(m), CancelOrder(m) PROVE Faithful'
  BY <1>7 DEF Executed, CancelOrder, Faithful, Clear, Blurred
<1>8. ASSUME NEW m, Executed(m), Refuse(m) PROVE Faithful'
  BY <1>8 DEF Executed, Refuse, Faithful, Clear, Blurred
<1>9. ASSUME NEW t \in Tickets, Removed(t) PROVE Faithful'
  BY <1>9 DEF Removed, Faithful, Clear, Blurred
<1>10. ASSUME NEW t \in Tickets, NEW p \in Prices, Moved(t, p) PROVE Faithful'
  BY <1>10 DEF Moved, Reprice, Faithful, BookTyped, Clear, Blurred
<1> QED BY <1>1, <1>2, <1>3, <1>4, <1>5, <1>6, <1>7, <1>8, <1>9, <1>10 DEF Step,
        CallStep, ServerStep

LEMMA FaithfulTradesStep ==
  ASSUME FaithfulTrades, AskedAsPlaced, CachedAsPlaced, FaithfulSeen,
         ClientTyped, Carried, Since, Faithful, BookTyped, Step
  PROVE  FaithfulTrades'
<1>1. CASE HandleQuote \/ ListLost \/ AnswerComes \/ Relist \/ UNCHANGED vars
  BY <1>1 DEF HandleQuote, Relist, listing, trading, server, ListLost, client, AnswerComes, vars,
         FaithfulTrades, Clear, Blurred
<1>2. CASE Lists
  BY <1>2 DEF Lists, FaithfulTrades, Clear, Blurred
<1>3. ASSUME NEW c \in Tasks, Quiet(c) \/ Asks(c) \/ Ends(c) \/ NotFound(c)
            PROVE FaithfulTrades'
  BY <1>3 DEF Quiet, Asks, Ends, NotFound, FaithfulTrades, Clear, Blurred
<1>4. ASSUME NEW c \in Tasks, Sent(c) PROVE FaithfulTrades'
  BY <1>4, SentFaithful
<1>5. ASSUME NEW c \in Tasks, NEW e \in queue, EndsWith(c, e) PROVE
            FaithfulTrades'
  BY <1>5, WrittenPrices
<1>6. ASSUME NEW m, Executed(m), PlaceOrder(m) PROVE FaithfulTrades'
  BY <1>6, PlacePrices
<1>7. ASSUME NEW m, Executed(m), ModifyOrder(m) PROVE FaithfulTrades'
  BY <1>7 DEF Executed, ModifyOrder, Reprice, FaithfulTrades, Clear, Blurred
<1>8. ASSUME NEW m, Executed(m), CancelOrder(m) PROVE FaithfulTrades'
  BY <1>8 DEF Executed, CancelOrder, FaithfulTrades, Clear, Blurred
<1>9. ASSUME NEW m, Executed(m), Refuse(m) PROVE FaithfulTrades'
  BY <1>9 DEF Executed, Refuse, FaithfulTrades, Clear, Blurred
<1>10. ASSUME NEW t \in Tickets, Removed(t) PROVE FaithfulTrades'
  BY <1>10 DEF Removed, FaithfulTrades, Clear, Blurred
<1>11. ASSUME NEW t \in Tickets, NEW p \in Prices, Moved(t, p) PROVE
            FaithfulTrades'
  BY <1>11 DEF Moved, Reprice, FaithfulTrades, Clear, Blurred
<1> QED BY <1>1, <1>2, <1>3, <1>4, <1>5, <1>6, <1>7, <1>8, <1>9, <1>10, <1>11
        DEF Step, CallStep, ServerStep

LEMMA FaithfulSeenStep ==
  ASSUME FaithfulSeen, Slots, Carried, Faithful, ClientTyped, Since, AskedAsPlaced,
         ListedAsPlaced, FaithfulTrades, BookTyped, Step
  PROVE  FaithfulSeen'
<1>1. CASE HandleQuote \/ ListLost \/ AnswerComes \/ Relist \/ UNCHANGED vars
  BY <1>1 DEF HandleQuote, Relist, listing, server, ListLost, client, AnswerComes, vars,
         FaithfulSeen, Clear, Blurred
<1>2. CASE Lists
  BY <1>2, ListsSeen
<1>3. ASSUME NEW c \in Tasks, Quiet(c) \/ Sent(c) \/ Asks(c) \/ Ends(c) \/
            NotFound(c) PROVE FaithfulSeen'
  BY <1>3 DEF Quiet, Others, Sent, Asks, Ends, NotFound, FaithfulSeen, Clear,
         Blurred
<1>4. ASSUME NEW c \in Tasks, NEW e \in queue, EndsWith(c, e) PROVE
            FaithfulSeen'
  BY <1>4, WrittenPrices
<1>5. ASSUME NEW m, Executed(m), PlaceOrder(m) PROVE FaithfulSeen'
  BY <1>5, PlacePrices
<1>6. ASSUME NEW m, Executed(m), ModifyOrder(m) PROVE FaithfulSeen'
  BY <1>6 DEF Executed, Noted, ModifyOrder, Reprice, FaithfulSeen, Clear,
         Blurred
<1>7. ASSUME NEW m, Executed(m), CancelOrder(m) PROVE FaithfulSeen'
  BY <1>7 DEF Executed, Noted, CancelOrder, FaithfulSeen, Clear, Blurred
<1>8. ASSUME NEW m, Executed(m), Refuse(m) PROVE FaithfulSeen'
  BY <1>8 DEF Executed, Noted, Refuse, FaithfulSeen, Clear, Blurred
<1>9. ASSUME NEW t \in Tickets, Removed(t) PROVE FaithfulSeen'
  BY <1>9 DEF Removed, Noted, FaithfulSeen, Clear, Blurred
<1>10. ASSUME NEW t \in Tickets, NEW p \in Prices, Moved(t, p) PROVE
            FaithfulSeen'
  BY <1>10 DEF Moved, Noted, Reprice, FaithfulSeen, Clear, Blurred
<1> QED BY <1>1, <1>2, <1>3, <1>4, <1>5, <1>6, <1>7, <1>8, <1>9, <1>10 DEF Step,
        CallStep, ServerStep

LEMMA ListTypedStep ==
  ASSUME ListTyped, BookTyped, Step
  PROVE  ListTyped'
<1>1. CASE HandleQuote \/ ListLost \/ AnswerComes \/ UNCHANGED vars
  BY <1>1 DEF HandleQuote, listing, ListLost, AnswerComes, vars, ListTyped
<1>2. CASE Relist
  <2>1. \A t \in Tickets : book[t].price \in Prices \cup {0}
    BY DEF BookTyped, Orders, Closed
  <2> QED BY <1>2, <2>1 DEF Relist, ListTyped
<1>3. CASE Lists
  BY <1>3 DEF Lists, ListTyped
<1>4. ASSUME NEW c \in Tasks, Quiet(c) \/ Sent(c) \/ Asks(c) \/ Ends(c) \/
            NotFound(c) \/ (\E e \in queue : EndsWith(c, e)) PROVE ListTyped'
  BY <1>4 DEF Quiet, Sent, Asks, Ends, EndsWith, NotFound, ListTyped
<1>5. ASSUME NEW m, Executed(m) PROVE ListTyped'
  BY <1>5 DEF Executed, ListTyped
<1>6. ASSUME NEW t \in Tickets, Removed(t) \/ (\E p \in Prices : Moved(t, p))
            PROVE ListTyped'
  BY <1>6 DEF Removed, Moved, ListTyped
<1> QED BY <1>1, <1>2, <1>3, <1>4, <1>5, <1>6 DEF Step, CallStep, ServerStep

LEMMA ListedAsPlacedStep ==
  ASSUME ListedAsPlaced, Faithful, AskedAsPlaced, Since, BookTyped, Step
  PROVE  ListedAsPlaced'
<1>1. CASE HandleQuote \/ ListLost \/ AnswerComes \/ UNCHANGED vars
  BY <1>1 DEF HandleQuote, listing, server, ListLost, AnswerComes, vars, ListedAsPlaced
<1>2. CASE Relist
  <2>1. /\ placed' = placed /\ repriced' = repriced /\ mixed' = mixed
        /\ \A t \in Tickets : listed'[t] = book[t].price
    BY <1>2 DEF Relist, server
  <2>2. ASSUME NEW t \in Tickets, t \notin repriced, t \notin mixed, book[t] # Closed
        PROVE  book[t].price = placed[t]
    BY <2>2 DEF Faithful, AskedAsPlaced, Clear, Blurred
  <2>3. \A t \in Tickets : book[t] = Closed => book[t].price = 0
    BY DEF Closed
  <2> QED BY <2>1, <2>2, <2>3 DEF ListedAsPlaced
<1>3. CASE Lists
  BY <1>3 DEF Lists, ListedAsPlaced
<1>4. ASSUME NEW c \in Tasks, Quiet(c) \/ Sent(c) \/ Asks(c) \/ Ends(c) \/
            NotFound(c) PROVE ListedAsPlaced'
  BY <1>4 DEF Quiet, Sent, Asks, Ends, NotFound, ListedAsPlaced
<1>5. ASSUME NEW c \in Tasks, NEW e \in queue, EndsWith(c, e) PROVE ListedAsPlaced'
  BY <1>5 DEF EndsWith, ListedAsPlaced
<1>6. ASSUME NEW m, Executed(m), PlaceOrder(m) PROVE ListedAsPlaced'
  BY <1>6 DEF Executed, PlaceOrder, ListedAsPlaced, Since, BookTyped
<1>7. ASSUME NEW m, Executed(m), ModifyOrder(m) \/ CancelOrder(m) \/ Refuse(m)
      PROVE  ListedAsPlaced'
  BY <1>7 DEF Executed, ModifyOrder, Reprice, CancelOrder, Refuse, ListedAsPlaced
<1>8. ASSUME NEW t \in Tickets, Removed(t) \/ (\E p \in Prices : Moved(t, p))
      PROVE  ListedAsPlaced'
  BY <1>8 DEF Removed, Moved, Reprice, ListedAsPlaced
<1> QED BY <1>1, <1>2, <1>3, <1>4, <1>5, <1>6, <1>7, <1>8 DEF Step, CallStep, ServerStep

LEMMA ClosedKnownStep ==
  ASSUME ClosedKnown, Carried, Slots, BookTyped, Step
  PROVE  ClosedKnown'
<1>1. CASE HandleQuote \/ ListLost \/ AnswerComes \/ UNCHANGED vars
  BY <1>1 DEF HandleQuote, listing, server, ListLost, AnswerComes, vars, ClosedKnown
<1>7. CASE Relist
  <2>1. calls' = calls /\ book' = book /\ \A t \in Tickets : listed'[t] = book[t].price
    BY <1>7 DEF Relist, server
  <2>2. \A t \in Tickets : book[t].price = 0 => book[t] = Closed
    BY MarketAssumption DEF BookTyped, Orders, Prices, MarketAssumption
  <2> QED BY <2>1, <2>2 DEF ClosedKnown, Carried
<1>2. CASE Lists
  BY <1>2 DEF Lists, ClosedKnown, Carried, Slots
<1>3. ASSUME NEW c \in Tasks, Quiet(c) \/ Sent(c) \/ Asks(c) \/ Ends(c) \/
            NotFound(c) \/ (\E e \in queue : EndsWith(c, e)) PROVE ClosedKnown'
  BY <1>3 DEF Quiet, Others, Sent, Asks, Ends, EndsWith, NotFound, ClosedKnown
<1>4. ASSUME NEW m, Executed(m), PlaceOrder(m) \/ ModifyOrder(m) \/
            CancelOrder(m) PROVE ClosedKnown'
  BY <1>4 DEF Executed, Noted, ClosedKnown, Carried
<1>5. ASSUME NEW m, Executed(m), Refuse(m) PROVE ClosedKnown'
  BY <1>5 DEF Executed, Noted, Refuse, ClosedKnown
<1>6. ASSUME NEW t \in Tickets, Removed(t) \/ (\E p \in Prices : Moved(t, p))
            PROVE ClosedKnown'
  BY <1>6 DEF Removed, Noted, Moved, ClosedKnown, Carried
<1> QED BY <1>1, <1>2, <1>3, <1>4, <1>5, <1>6, <1>7 DEF Step, CallStep, ServerStep

LEMMA ListingStep ==
  ASSUME Listing, Counts, Step
  PROVE  Listing'
<1>1. CASE HandleQuote \/ AnswerComes \/ Relist \/ UNCHANGED vars
  BY <1>1 DEF HandleQuote, Relist, listing, AnswerComes, vars, Listing
<1>2. CASE ListLost
  BY <1>2 DEF ListLost, Fault, Listing, Counts
<1>3. CASE Lists
  BY <1>3 DEF Lists, Listing
<1>4. ASSUME NEW c \in Tasks, Quiet(c) \/ Sent(c) \/ NotFound(c) \/ (\E e \in
            queue : EndsWith(c, e)) PROVE Listing'
  BY <1>4 DEF Quiet, Others, Sent, Crowding, EndsWith, NotFound, Listing
<1>5. ASSUME NEW c \in Tasks, Asks(c) \/ Ends(c) PROVE Listing'
  BY <1>5 DEF Asks, Others, Ends, Listing, Counts
<1>6. ASSUME NEW m, Executed(m), PlaceOrder(m) \/ ModifyOrder(m) \/
            CancelOrder(m) \/ Refuse(m) PROVE Listing'
  BY <1>6 DEF Executed, Noted, Listing
<1>7. ASSUME NEW t \in Tickets, Removed(t) \/ (\E p \in Prices : Moved(t, p))
            PROVE Listing'
  BY <1>7 DEF Removed, Noted, Moved, Listing, Counts
<1> QED BY <1>1, <1>2, <1>3, <1>4, <1>5, <1>6, <1>7 DEF Step, CallStep,
        ServerStep

LEMMA FoundWhileOpenStep ==
  ASSUME FoundWhileOpen, Counts, Carried, ClosedKnown, Listing, Step
  PROVE  FoundWhileOpen'
<1>1. CASE HandleQuote \/ AnswerComes \/ Relist \/ UNCHANGED vars
  BY <1>1 DEF HandleQuote, Relist, AnswerComes, vars, FoundWhileOpen
<1>2. CASE ListLost
  BY <1>2 DEF ListLost, Fault, FoundWhileOpen, Counts
<1>3. CASE Lists
  BY <1>3 DEF Lists, FoundWhileOpen
<1>4. ASSUME NEW c \in Tasks, Quiet(c) \/ Sent(c) \/ Asks(c) \/ (\E e \in queue
            : EndsWith(c, e)) PROVE FoundWhileOpen'
  BY <1>4 DEF Quiet, Others, Sent, Crowding, Asks, EndsWith, FoundWhileOpen
<1>5. ASSUME NEW c \in Tasks, Ends(c) \/ NotFound(c) PROVE FoundWhileOpen'
  BY <1>5 DEF Ends, Others, NotFound, FoundWhileOpen, Carried, ClosedKnown,
         Listing, Counts
<1>6. ASSUME NEW m, Executed(m), PlaceOrder(m) \/ ModifyOrder(m) \/
            CancelOrder(m) \/ Refuse(m) PROVE FoundWhileOpen'
  BY <1>6 DEF Executed, Noted, FoundWhileOpen
<1>7. ASSUME NEW t \in Tickets, Removed(t) \/ (\E p \in Prices : Moved(t, p))
            PROVE FoundWhileOpen'
  BY <1>7 DEF Removed, Noted, Moved, FoundWhileOpen, Counts
<1> QED BY <1>1, <1>2, <1>3, <1>4, <1>5, <1>6, <1>7 DEF Step, CallStep,
        ServerStep
-----------------------------------------------------------------------------
LEMMA InitInvariant ==
  ASSUME Init
  PROVE  IInv
<1>1. 0 \in Nat /\ 1 \in Prices /\ 0 \in Stops /\ MaxStop \in Stops /\ 0 \notin Prices
  BY MarketAssumption DEF Prices, Stops, MarketAssumption
<1>2. NoCall \in CallTypes /\ NoCall.at = "idle" /\ NoCall.op = "none"
  BY <1>1 DEF NoCall, Call, CallTypes, Places, Ops
<1>3. \A c \in Tasks : calls[c] = NoCall
  BY DEF Init
<1>4. \A t \in Tickets :
        /\ t \in Foreign \cup Own => book[t] = [price |-> 1, stops |-> MaxStop]
        /\ t \notin Foreign \cup Own => book[t] = Closed
        /\ placed[t] = book[t].price /\ asked[t] = book[t]
        /\ cache[t] = IF t \in Own THEN 1 ELSE 0
  BY DEF Init
<1>11. /\ listed \in [Tickets -> {0, 1}] /\ outdated = {}
       /\ \A t \in Tickets : listed[t] \in {0, book[t].price}
  <2>1. PICK new \in SUBSET Foreign :
           listed = [t \in Tickets |-> IF t \in new THEN 0 ELSE book[t].price]
    BY DEF Init
  <2>2. \A t \in Tickets : book[t].price \in {0, 1}
    BY <1>4 DEF Closed
  <2> QED BY <2>1, <2>2 DEF Init
<1>5. CallsTyped /\ Carried /\ ClosedKnown /\ FoundWhileOpen /\ FaithfulSeen
  BY <1>2, <1>3 DEF Init, CallsTyped, Carried, ClosedKnown, FoundWhileOpen, FaithfulSeen
<1>6. ClientTyped /\ WireTyped /\ Slots
  BY <1>1, <1>4 DEF Init, ClientTyped, WireTyped, Slots
<1>7. BookTyped
  <2>1. [price |-> 1, stops |-> MaxStop] \in Orders
    BY <1>1 DEF Orders
  <2>2. [price |-> 1, stops |-> MaxStop] \in [price : Prices \cup {0}, stops : Stops]
    BY <1>1
  <2>3. Closed \in [price : Prices \cup {0}, stops : Stops]
    BY <1>1 DEF Closed
  <2>4. \A t \in Tickets : book[t] \in Orders \cup {Closed}
    BY <1>4, <2>1
  <2>5. \A t \in Tickets : asked[t] \in [price : Prices \cup {0}, stops : Stops]
    BY <1>4, <2>2, <2>3
  <2>6. \A t \in Tickets : placed[t] \in Prices \cup {0}
    BY <1>4, <2>5
  <2> QED BY <2>4, <2>5, <2>6 DEF Init, BookTyped
<1>12. ListTyped /\ ListedAsPlaced
  BY <1>1, <1>4, <1>11 DEF ListTyped, ListedAsPlaced
<1>8. Counts /\ Listing
  BY <1>2, <1>3, MarketAssumption DEF Init, Counts, Listing, MarketAssumption
<1>9. Since /\ AskedAsPlaced /\ CachedAsPlaced /\ Faithful
  <2>1. Since
    BY <1>2, <1>3, <1>4, <1>11 DEF Init, Since
  <2>2. AskedAsPlaced /\ CachedAsPlaced /\ Faithful
    BY <1>4 DEF AskedAsPlaced, CachedAsPlaced, Faithful
  <2> QED BY <2>1, <2>2
<1>10. Alone /\ OwnPrice /\ FaithfulTrades
  BY <1>2, <1>3 DEF Init, Alone, OwnPrice, FaithfulTrades
<1> QED BY <1>5, <1>6, <1>7, <1>8, <1>9, <1>10, <1>12 DEF IInv

LEMMA NextInvariant ==
  ASSUME IInv, [Next]_vars
  PROVE  IInv'
<1>1. CallsTyped /\ ClientTyped /\ WireTyped /\ BookTyped /\ ListTyped /\ Counts /\ Slots /\
      ListedAsPlaced /\ Carried /\ Since /\ Alone /\ OwnPrice /\ AskedAsPlaced /\ CachedAsPlaced
      /\ Faithful /\ FaithfulTrades /\ FaithfulSeen /\ ClosedKnown /\ Listing /\
      FoundWhileOpen
  BY DEF IInv
<1>2. Step
  BY <1>1, StepCases
<1>3. CallsTyped'
  BY <1>1, <1>2, CallsTypedStep
<1>4. ClientTyped'
  BY <1>1, <1>2, ClientTypedStep
<1>5. WireTyped'
  BY <1>1, <1>2, WireTypedStep
<1>6. BookTyped'
  BY <1>1, <1>2, BookTypedStep
<1>7. Counts'
  BY <1>1, <1>2, CountsStep
<1>8. Slots'
  BY <1>1, <1>2, SlotsStep
<1>9. Carried'
  BY <1>1, <1>2, CarriedStep
<1>10. Since'
  BY <1>1, <1>2, SinceStep
<1>11. Alone'
  BY <1>1, <1>2, AloneStep
<1>12. OwnPrice'
  BY <1>1, <1>2, OwnPriceStep
<1>13. AskedAsPlaced'
  BY <1>1, <1>2, AskedAsPlacedStep
<1>14. CachedAsPlaced'
  BY <1>1, <1>2, CachedAsPlacedStep
<1>15. Faithful'
  BY <1>1, <1>2, FaithfulStep
<1>16. FaithfulTrades'
  BY <1>1, <1>2, FaithfulTradesStep
<1>17. FaithfulSeen'
  BY <1>1, <1>2, FaithfulSeenStep
<1>18. ClosedKnown'
  BY <1>1, <1>2, ClosedKnownStep
<1>19. Listing'
  BY <1>1, <1>2, ListingStep
<1>20. FoundWhileOpen'
  BY <1>1, <1>2, FoundWhileOpenStep
<1>21. ListTyped'
  BY <1>1, <1>2, ListTypedStep
<1>22. ListedAsPlaced'
  BY <1>1, <1>2, ListedAsPlacedStep
<1> QED BY <1>3, <1>4, <1>5, <1>6, <1>7, <1>8, <1>9, <1>10, <1>11, <1>12, <1>13,
        <1>14, <1>15, <1>16, <1>17, <1>18, <1>19, <1>20, <1>21, <1>22 DEF IInv

(* The inductive invariant holds in every behaviour, for any number of     *)
(* tasks, orders, prices, calls and faults.                                *)
THEOREM MarketInvariant == Spec => []IInv
<1>1. Init => IInv
  BY InitInvariant
<1>2. IInv /\ [Next]_vars => IInv'
  BY NextInvariant
<1> QED BY <1>1, <1>2, PTL DEF Spec

LEMMA AtMostOne ==
  ASSUME NEW S, S = {} \/ \E c : S = {c}
  PROVE  Cardinality(S) <= 1
<1>1. CASE S = {}
  BY <1>1, FS_EmptySet
<1>2. CASE \E c : S = {c}
  <2>1. PICK c : S = {c}
    BY <1>2
  <2>2. Cardinality({c}) = 1
    BY FS_Singleton
  <2> QED BY <2>1, <2>2
<1> QED BY <1>1, <1>2

(* The types of the client's and the server's state; a slot holds one      *)
(* task, and that task is waiting.                                         *)
THEOREM MarketTypes == Spec => []TypeOK
<1>1. ASSUME IInv PROVE TypeOK
  <2>1. \A c \in Tasks : calls[c].at \in Places /\ calls[c].op \in Ops
    BY <1>1 DEF IInv, CallsTyped, CallTypes
  <2>2. /\ slot4 \subseteq {c \in Tasks : calls[c].at = "list"}
        /\ slot12 \subseteq {c \in Tasks : calls[c].at = "sent"}
    BY <1>1 DEF IInv, Slots
  <2>3. (slot4 = {} \/ \E c : slot4 = {c}) /\ (slot12 = {} \/ \E c : slot12 = {c})
    BY <1>1 DEF IInv, Slots
  <2>4. Cardinality(slot4) <= 1 /\ Cardinality(slot12) <= 1
    BY <2>3, AtMostOne
  <2>5. lists \in 0 .. MaxCalls /\ made \in 0 .. MaxCalls /\ faults \in 0 .. MaxFaults
    BY <1>1, MarketAssumption DEF IInv, Counts, MarketAssumption
  <2>6. replied \subseteq Tasks /\ queue \subseteq {a \in answers \cup queue : a.kind = "event"}
    BY <1>1 DEF IInv, WireTyped
  <2> QED BY <1>1, <2>1, <2>2, <2>4, <2>5, <2>6 DEF IInv, TypeOK, ClientTyped, BookTyped, ListTyped
<1> QED BY <1>1, MarketInvariant, PTL

(* An entry of the order cache has the price its order was placed with,    *)
(* unless the trade that wrote it met another one: _send_trade takes       *)
(* whatever event is in the queue.                                         *)
THEOREM CachedTrue == Spec => []CachedAsPlaced
<1>1. IInv => CachedAsPlaced
  BY DEF IInv
<1> QED BY <1>1, MarketInvariant, PTL

(* modify_order puts a former price back only onto an order whose price    *)
(* was changed before and that is in the cache, was overtaken, or was read *)
(* from a list that still had the former price.                            *)
THEOREM PriceKept == Spec => []PriceSticks
<1>1. IInv => PriceSticks
  BY DEF IInv, Faithful, Clear, Blurred, PriceSticks
<1> QED BY <1>1, MarketInvariant, PTL

(* Without a fault or a second list at once, "Order not found" is raised   *)
(* only for an order that was not open all the while, or that the server's *)
(* list did not have when the call began.                                  *)
THEOREM FoundOpen == Spec => []FoundWhileOpen
<1>1. IInv => FoundWhileOpen
  BY DEF IInv
<1> QED BY <1>1, MarketInvariant, PTL
=============================================================================
