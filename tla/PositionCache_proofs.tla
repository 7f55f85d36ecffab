------------------------ MODULE PositionCache_proofs ------------------------
(***************************************************************************)
(* The invariants of PositionCache hold for any number of tickets, lots,   *)
(* stops, calls and lists under way.                                       *)
(***************************************************************************)
EXTENDS PositionCache, FiniteSetTheorems, TLAPS

Listing == [Tickets -> Holdings]

Messages ==
    [is : {"push"}, ticket : Tickets, pos : Holdings]
    \cup [is : {"list"}, list : Listing]
    \cup [is : {"result"}, ticket : 0..MaxTickets, done : BOOLEAN]

Operations ==
    [phase : {"idle", "looking", "sent", "taken", "done", "refused"},
     call : {"none", "buy", "look", "close", "partial", "modify"},
     ticket : 0..MaxTickets, lots : Lots, stop : Stops,
     keep : BOOLEAN, looked : BOOLEAN]

Types ==
    /\ opened \in 0..MaxTickets
    /\ held \in Listing
    /\ listed \in Listing
    /\ ops \in Nat
    /\ asked \in Nat
    /\ net \in Seq(Messages)
    /\ slot \in Readers \cup {"none"}
    /\ got \in [Readers -> {NoList} \cup Listing]
    /\ waiting \subseteq Readers
    /\ op \in Operations
    /\ cache \in Listing
    /\ shown \subseteq Tickets
    /\ cut \in [Tickets -> Nat]
    /\ rewritten \subseteq Tickets

(* What the user task is doing is well formed.                             *)
OpShape ==
    /\ op.phase = "looking" <=> "user" \in waiting
    /\ op.phase = "looking" => op.call \in {"look", "close", "partial", "modify"}
    /\ op.phase \in {"sent", "taken", "done", "refused"}
         => op.call \in {"buy", "close", "partial", "modify"}
    /\ op.call \in {"close", "partial", "modify"} => op.ticket \in 1..opened
    /\ op.phase = "done" => op.ticket \in 1..opened
    /\ op.call \in {"buy", "partial"} => op.lots > 0

(* What is said of ticket t, now or earlier, does not say too little.      *)
Says(p, t) == p.lots = 0 \/ (t <= opened /\ p.lots >= held[t].lots)

SaysAll(l) == \A t \in Tickets : Says(l[t], t)

(* Nothing under way or remembered says less than the server holds.        *)
Enough ==
    /\ \A t \in Tickets : opened < t => held[t] = Nothing
    /\ SaysAll(listed)
    /\ \A r \in Readers : got[r] # NoList => SaysAll(got[r])
    /\ \A n \in 1..Len(net) :
          /\ net[n].is = "list" => SaysAll(net[n].list)
          /\ net[n].is = "push" =>
                Says(net[n].pos, net[n].ticket) /\ net[n].ticket \in 1..opened

(* There is one result under way, to the trade the server has taken, and   *)
(* the ticket of a position opened by buy has the volume asked for.        *)
ResultShape ==
    /\ \A n \in 1..Len(net) : net[n].is = "result" =>
          /\ op.phase = "taken"
          /\ \A k \in 1..Len(net) : net[k].is = "result" => k = n
          /\ net[n].done =>
                /\ net[n].ticket \in 1..opened
                /\ IF op.call = "buy" THEN op.lots >= held[net[n].ticket].lots
                   ELSE net[n].ticket = op.ticket
    /\ op.phase = "done" /\ op.call = "buy" => op.lots >= held[op.ticket].lots

(* An entry is there once its ticket was shown, until partial_close takes  *)
(* it away.                                                                *)
Remembered ==
    /\ shown \subseteq 1..opened
    /\ \A t \in Tickets : cache[t].lots > 0 => t \in shown
    /\ \A t \in Tickets : cache[t].lots = 0 => cache[t] = Nothing

IInv ==
    /\ Types
    /\ OpShape
    /\ Enough
    /\ ResultShape
    /\ Remembered
    /\ NeverUnderstated
    /\ CloseWhole


-----------------------------------------------------------------------------
(* The queue of messages.                                                  *)

LEMMA TailElements ==
  ASSUME NEW s \in Seq(Messages), s # <<>>
  PROVE  /\ Head(s) \in Messages /\ Head(s) = s[1] /\ 1 \in 1..Len(s)
         /\ Tail(s) \in Seq(Messages)
         /\ \A n \in 1..Len(Tail(s)) : n + 1 \in 1..Len(s) /\ Tail(s)[n] = s[n + 1]
         /\ Len(Tail(s)) = Len(s) - 1
  OBVIOUS

LEMMA AppendElements ==
  ASSUME NEW s \in Seq(Messages), NEW m \in Messages
  PROVE  /\ Append(s, m) \in Seq(Messages)
         /\ Len(Append(s, m)) = Len(s) + 1
         /\ Append(s, m)[Len(s) + 1] = m
         /\ \A n \in 1..Len(s) : Append(s, m)[n] = s[n]
  OBVIOUS

LEMMA PairElements ==
  ASSUME NEW s \in Seq(Messages), NEW a \in Messages, NEW b \in Messages
  PROVE  /\ s \o <<a, b>> \in Seq(Messages)
         /\ Len(s \o <<a, b>>) = Len(s) + 2
         /\ (s \o <<a, b>>)[Len(s) + 1] = a
         /\ (s \o <<a, b>>)[Len(s) + 2] = b
         /\ \A n \in 1..Len(s) : (s \o <<a, b>>)[n] = s[n]
<1>1. <<a, b>> \in Seq(Messages) /\ Len(<<a, b>>) = 2
  OBVIOUS
<1> QED BY <1>1

LEMMA NothingHolds == Nothing \in Holdings /\ Nothing.lots = 0
  BY PositionAssumption DEF Nothing, Holdings, Lots

LEMMA MakesMessages ==
  /\ \A t \in Tickets, h \in Holdings : Push(t, h) \in Messages
  /\ \A l \in Listing : List(l) \in Messages
  /\ \A t \in Tickets : Result(t, TRUE) \in Messages
  /\ Result(0, FALSE) \in Messages
  BY PositionAssumption DEF Push, List, Result, Messages, Tickets

LEMMA CallsTyped ==
  /\ NoOp \in Operations
  /\ \A o \in WithLookup \cup AtOnce :
        /\ o \in Operations
        /\ [o EXCEPT !.phase = "looking"] \in Operations
        /\ [o EXCEPT !.phase = "sent"] \in Operations
  /\ \A o \in WithLookup : o.call \in {"look", "close", "partial", "modify"}
  /\ \A o \in AtOnce : o.call \in {"buy", "close", "partial", "modify"} /\ ~(o.call = "close" /\ o.looked)
  /\ \A o \in WithLookup \cup AtOnce :
        /\ o.call \in {"close", "partial", "modify"} => o.ticket \in Tickets
        /\ o.call \in {"buy", "partial"} => o.lots > 0
<1> USE PositionAssumption DEF Call, Lots, Tickets
<1>1. NoOp \in Operations
  BY DEF NoOp, Operations
<1>2. ASSUME NEW o \in Buys PROVE o \in Operations /\ o.call = "buy" /\ o.lots > 0
  <2>1. PICK l \in Lots \ {0}, s \in Stops : o = Call("buy", 0, l, s, FALSE, FALSE)
    BY <1>2 DEF Buys
  <2>2. Call("buy", 0, l, s, FALSE, FALSE) \in Operations
    BY DEF Operations
  <2> QED BY <2>1, <2>2
<1>3. ASSUME NEW k \in BOOLEAN, NEW o \in Changes(k)
      PROVE  /\ o \in Operations /\ o.call \in {"close", "partial", "modify"}
             /\ o.ticket \in Tickets /\ (o.call = "partial" => o.lots > 0)
             /\ o.looked = k
  <2>1. PICK t \in Tickets :
           o \in {Call("close", t, i, 0, FALSE, k) : i \in IF k THEN {0} ELSE Lots \ {0}}
                 \cup {Call("partial", t, i, 0, FALSE, k) : i \in Lots \ {0}}
                 \cup {Call("modify", t, 0, s, FALSE, k) : s \in Stops}
                 \cup {Call("modify", t, 0, 0, TRUE, k)}
    BY <1>3 DEF Changes
  <2>2. \A i \in Lots : Call("close", t, i, 0, FALSE, k) \in Operations
    BY DEF Operations
  <2>3. \A i \in Lots : Call("partial", t, i, 0, FALSE, k) \in Operations
    BY DEF Operations
  <2>4. \A s \in Stops, b \in BOOLEAN : Call("modify", t, 0, s, b, k) \in Operations
    BY DEF Operations
  <2>5. CASE \E i \in Lots : o = Call("close", t, i, 0, FALSE, k)
    BY <2>5, <2>2
  <2>6. CASE \E i \in Lots \ {0} : o = Call("partial", t, i, 0, FALSE, k)
    BY <2>6, <2>3
  <2>7. CASE \E s \in Stops, b \in BOOLEAN : o = Call("modify", t, 0, s, b, k)
    BY <2>7, <2>4
  <2>8. \/ \E i \in Lots : o = Call("close", t, i, 0, FALSE, k)
        \/ \E i \in Lots \ {0} : o = Call("partial", t, i, 0, FALSE, k)
        \/ \E s \in Stops, b \in BOOLEAN : o = Call("modify", t, 0, s, b, k)
    <3>1. 0 \in Lots /\ 0 \in Stops
      OBVIOUS
    <3> HIDE DEF Call, Lots, Tickets
    <3>2. CASE o \in {Call("close", t, i, 0, FALSE, k) : i \in IF k THEN {0} ELSE Lots \ {0}}
      BY <3>1, <3>2
    <3>3. CASE o \in {Call("partial", t, i, 0, FALSE, k) : i \in Lots \ {0}}
      BY <3>3
    <3>4. CASE o \in {Call("modify", t, 0, s, FALSE, k) : s \in Stops}
      BY <3>4
    <3>5. CASE o = Call("modify", t, 0, 0, TRUE, k)
      BY <3>1, <3>5
    <3> QED BY <2>1, <3>2, <3>3, <3>4, <3>5
  <2> QED BY <2>5, <2>6, <2>7, <2>8
<1>4. Call("look", 0, 0, 0, FALSE, TRUE) \in Operations
  BY DEF Operations
<1>5. \A o \in WithLookup : o \in Changes(TRUE) \/ o = Call("look", 0, 0, 0, FALSE, TRUE)
  BY DEF WithLookup
<1>6. \A o \in AtOnce : o \in Buys \/ o \in Changes(FALSE)
  BY DEF AtOnce
<1>7. \A o \in Operations : /\ [o EXCEPT !.phase = "looking"] \in Operations
                            /\ [o EXCEPT !.phase = "sent"] \in Operations
  BY DEF Operations
<1>8. ASSUME NEW o \in WithLookup
      PROVE  /\ o \in Operations
             /\ o.call \in {"look", "close", "partial", "modify"}
             /\ o.call \in {"close", "partial", "modify"} => o.ticket \in Tickets
             /\ o.call = "partial" => o.lots > 0
  <2>1. CASE o \in Changes(TRUE)
    BY <2>1, <1>3
  <2>2. CASE o = Call("look", 0, 0, 0, FALSE, TRUE)
    BY <2>2, <1>4
  <2> QED BY <2>1, <2>2, <1>5
<1>9. ASSUME NEW o \in AtOnce
      PROVE  /\ o \in Operations
             /\ o.call \in {"buy", "close", "partial", "modify"}
             /\ ~(o.call = "close" /\ o.looked)
             /\ o.call \in {"close", "partial", "modify"} => o.ticket \in Tickets
             /\ o.call \in {"buy", "partial"} => o.lots > 0
  <2>1. CASE o \in Changes(FALSE)
    BY <2>1, <1>3
  <2>2. CASE o \in Buys
    BY <2>2, <1>2
  <2> QED BY <2>1, <2>2, <1>6
<1> HIDE DEF Tickets, Lots, Call
<1> QED BY <1>1, <1>7, <1>8, <1>9

-----------------------------------------------------------------------------
(* Types.                                                                  *)

LEMMA InitTypes == Init => Types /\ OpShape
<1> SUFFICES ASSUME Init PROVE Types /\ OpShape
  OBVIOUS
<1> USE PositionAssumption DEF Init
<1>1. PICK h \in {Nothing} \cup {x \in Holdings : x.lots > 0} :
         /\ held = [t \in Tickets |-> IF t = 1 THEN h ELSE Nothing]
         /\ opened = IF h = Nothing THEN 0 ELSE 1
  OBVIOUS
<1>2. opened \in 0..MaxTickets /\ held \in Listing
  BY <1>1, NothingHolds DEF Listing
<1>3. op = NoOp /\ op \in Operations
  BY CallsTyped
<1>4. cache \in Listing
  BY NothingHolds DEF Listing
<1>5. got \in [Readers -> {NoList} \cup Listing]
  OBVIOUS
<1>6. Types
  BY <1>2, <1>3, <1>4, <1>5 DEF Types
<1>7. OpShape
  BY <1>3 DEF OpShape, NoOp, Call
<1> QED BY <1>6, <1>7

LEMMA AskTypes ==
  ASSUME Types, NEW r \in Readers, Ask(r)
  PROVE  /\ slot' \in Readers \cup {"none"} /\ asked' \in Nat
         /\ got' \in [Readers -> {NoList} \cup Listing] /\ waiting' \subseteq Readers
  BY DEF Ask, Types

LEMMA ExecuteTypes ==
  ASSUME Types, NEW t \in Tickets, NEW h \in Holdings, Execute(t, h)
  PROVE  held' \in Listing /\ net' \in Seq(Messages)
<1>1. held' \in Listing /\ held'[t] \in Holdings
  BY NothingHolds DEF Execute, Types, Listing
<1>2. Push(t, held'[t]) \in Messages /\ Result(t, TRUE) \in Messages
  BY <1>1, MakesMessages
<1>3. \/ net' = net \o <<Push(t, held'[t]), Result(t, TRUE)>>
      \/ net' = net \o <<Result(t, TRUE), Push(t, held'[t])>>
  BY DEF Execute
<1>4. net \in Seq(Messages)
  BY DEF Types
<1>5. net' \in Seq(Messages)
  <2> DEFINE a == Push(t, held'[t])
             b == Result(t, TRUE)
  <2>1. a \in Messages /\ b \in Messages /\ (net' = net \o <<a, b>> \/ net' = net \o <<b, a>>)
    BY <1>2, <1>3
  <2> HIDE DEF a, b
  <2>2. net \o <<a, b>> \in Seq(Messages) /\ net \o <<b, a>> \in Seq(Messages)
    BY <2>1, <1>4, PairElements
  <2> QED BY <2>1, <2>2
<1> QED BY <1>1, <1>5

LEMMA MessageFields ==
  ASSUME NEW m \in Messages
  PROVE  /\ m.is = "push" => m.ticket \in Tickets /\ m.pos \in Holdings
         /\ m.is = "list" => m.list \in Listing
         /\ m.is = "result" => m.ticket \in 0..MaxTickets /\ m.done \in BOOLEAN
         /\ m.is \in {"push", "list", "result"}
  BY DEF Messages

LEMMA OpKept ==
  ASSUME OpShape, op' = op, Types, opened' \in Nat, opened <= opened',
         "user" \in waiting <=> "user" \in waiting'
  PROVE  OpShape'
  BY PositionAssumption DEF OpShape, Types

(* What goes into the trade after a lookup is well formed.                 *)
LEMMA LookTypes ==
  ASSUME Types, OpShape, op.phase = "looking", UNCHANGED opened, waiting' = waiting \ {"user"},
         op' = NoOp \/ \E pos \in Holdings : op' = Look(pos) /\ op.call # "look"
  PROVE  op' \in Operations /\ OpShape'
<1>1. op \in Operations
  BY DEF Types
<1>2. CASE op' = NoOp
  BY <1>2, CallsTyped DEF OpShape, NoOp, Call
<1>3. CASE op' # NoOp
  <2>1. PICK pos \in Holdings : op' = Look(pos) /\ op.call # "look"
    BY <1>3
  <2>2. op' = [op EXCEPT !.phase = "sent",
                         !.lots = IF op.call = "close" THEN pos.lots ELSE @,
                         !.stop = IF op.keep THEN pos.stop ELSE @]
    BY <1>3, <2>1 DEF Look
  <2>3. pos.lots \in Lots /\ pos.stop \in Stops
    BY DEF Holdings
  <2>4. op' \in Operations
    BY <1>1, <2>2, <2>3 DEF Operations
  <2>5. /\ op'.phase = "sent" /\ op'.call = op.call /\ op'.ticket = op.ticket
        /\ op.call # "close" => op'.lots = op.lots
    BY <1>1, <2>2 DEF Operations
  <2>6. OpShape'
    BY <2>1, <2>5 DEF OpShape
  <2> QED BY <2>4, <2>6
<1> QED BY <1>2, <1>3

LEMMA NextTypes ==
  ASSUME Types, OpShape, ResultShape, [Next]_vars
  PROVE  Types' /\ OpShape' /\ opened' \in Nat /\ opened <= opened'
<1> USE PositionAssumption
<1>0. opened \in Nat
  BY DEF Types
<1>1. ASSUME NEW t \in Tickets, NEW h \in Holdings, OutsideChange(t, h)
      PROVE  Types' /\ OpShape' /\ opened' \in Nat /\ opened <= opened'
  <2>1. held' \in Listing /\ held'[t] \in Holdings
    <3> DEFINE now == IF h.lots = 0 THEN Nothing ELSE h
    <3>1. held \in [Tickets -> Holdings]
      BY DEF Types, Listing
    <3>2. held' = [held EXCEPT ![t] = h] \/ held' = [held EXCEPT ![t] = now]
      BY <1>1 DEF OutsideChange, Open
    <3>3. now \in Holdings
      BY NothingHolds
    <3> HIDE DEF now
    <3> QED BY <3>1, <3>2, <3>3 DEF Listing
  <2>2. opened' \in 0..MaxTickets /\ opened <= opened'
    BY <1>1 DEF OutsideChange, Open, Types, Tickets
  <2>3. net' \in Seq(Messages)
    BY <1>1, <2>1, MakesMessages, AppendElements DEF OutsideChange, Types
  <2>4. Types'
    BY <1>1, <2>1, <2>2, <2>3 DEF OutsideChange, Spend, Types, reading, memory
  <2> QED BY <1>1, <2>2, <2>4, OpKept DEF OutsideChange, reading
<1>2. CASE Relist
  <2>1. Types' /\ opened' = opened /\ op' = op /\ ("user" \in waiting <=> "user" \in waiting')
    BY <1>2 DEF Relist, Types, reading, memory
  <2> QED BY <1>0, <2>1, OpKept
<1>3. CASE AnswerList
  <2>1. net' \in Seq(Messages)
    BY <1>3, MakesMessages, AppendElements DEF AnswerList, Types
  <2>2. Types' /\ opened' = opened /\ op' = op /\ ("user" \in waiting <=> "user" \in waiting')
    BY <1>3, <2>1 DEF AnswerList, Types, server, reading, memory
  <2> QED BY <1>0, <2>2, OpKept
<1>4. CASE ServerTrade
  <2>1. op' = [op EXCEPT !.phase = "taken"] /\ op' \in Operations /\ op.phase = "sent"
    BY <1>4 DEF ServerTrade, Types, Operations
  <2>2. UNCHANGED <<listed, ops, asked, reading, memory>>
    BY <1>4 DEF ServerTrade
  <2>0. /\ op.call \in {"buy", "close", "partial", "modify"}
        /\ op'.phase = "taken" /\ op'.call = op.call /\ op'.ticket = op.ticket
        /\ op'.lots = op.lots /\ UNCHANGED waiting
    BY <2>1, <2>2 DEF OpShape, Types, Operations, reading
  <2>7. opened <= opened' /\ opened' \in Nat => OpShape'
    BY <1>0, <2>0, <2>1 DEF OpShape
  <2>3. CASE /\ op.call = "buy" /\ opened < MaxTickets /\ opened' = opened + 1
             /\ Execute(opened + 1, [lots |-> op.lots, stop |-> op.stop])
    <3>1. opened + 1 \in Tickets /\ [lots |-> op.lots, stop |-> op.stop] \in Holdings
      BY <1>0, <2>3 DEF Types, Operations, Tickets, Holdings
    <3>2. held' \in Listing /\ net' \in Seq(Messages)
      BY <2>3, <3>1, ExecuteTypes
    <3>3. opened' \in 0..MaxTickets
      BY <1>0, <2>3 DEF Types
    <3>4. Types'
      BY <2>1, <2>2, <3>2, <3>3 DEF Types, reading, memory
    <3> QED BY <1>0, <2>3, <2>7, <3>4
  <2>4. CASE /\ op.call \in {"close", "partial"} /\ op.lots \in 1..held[op.ticket].lots
             /\ Execute(op.ticket, [held[op.ticket] EXCEPT !.lots = @ - op.lots])
             /\ UNCHANGED opened
    <3>1. op.ticket \in Tickets /\ held[op.ticket] \in Holdings
      BY <2>1, <2>4 DEF OpShape, Types, Tickets, Listing
    <3>2. [held[op.ticket] EXCEPT !.lots = @ - op.lots] \in Holdings
      BY <2>4, <3>1 DEF Holdings, Lots
    <3>3. held' \in Listing /\ net' \in Seq(Messages)
      BY <2>4, <3>1, <3>2, ExecuteTypes
    <3>4. Types'
      BY <2>1, <2>2, <2>4, <3>3 DEF Types, reading, memory
    <3> QED BY <1>0, <2>4, <2>7, <3>4
  <2>5. CASE /\ op.call = "modify" /\ held[op.ticket].lots > 0
             /\ Execute(op.ticket, [held[op.ticket] EXCEPT !.stop = op.stop])
             /\ UNCHANGED opened
    <3>1. op.ticket \in Tickets /\ held[op.ticket] \in Holdings /\ op.stop \in Stops
      BY <2>1, <2>5 DEF OpShape, Types, Tickets, Listing, Operations
    <3>2. [held[op.ticket] EXCEPT !.stop = op.stop] \in Holdings
      BY <2>5, <3>1 DEF Holdings
    <3>3. held' \in Listing /\ net' \in Seq(Messages)
      BY <2>5, <3>1, <3>2, ExecuteTypes
    <3>4. Types'
      BY <2>1, <2>2, <2>5, <3>3 DEF Types, reading, memory
    <3> QED BY <1>0, <2>5, <2>7, <3>4
  <2>6. CASE net' = Append(net, Result(0, FALSE)) /\ UNCHANGED <<opened, held>>
    <3>1. Result(0, FALSE) \in Messages
      BY MakesMessages
    <3>2. net' \in Seq(Messages)
      BY <2>6, <3>1, AppendElements DEF Types
    <3>3. Types'
      BY <2>1, <2>2, <2>6, <3>2 DEF Types, reading, memory
    <3> QED BY <1>0, <2>6, <2>7, <3>3
  <2> QED BY <1>4, <2>3, <2>4, <2>5, <2>6 DEF ServerTrade
<1>5. CASE Receive
  <2> DEFINE m == Head(net)
  <2>1. m \in Messages /\ net' = Tail(net) /\ net' \in Seq(Messages) /\ m = net[1] /\ 1 \in 1..Len(net)
    BY <1>5, TailElements DEF Receive, Types
  <2>2. UNCHANGED <<opened, held, listed, ops>>
    BY <1>5 DEF Receive, server
  <2>3. CASE m.is = "push" /\ ReadPush(m)
    <3>0. m.ticket \in Tickets /\ m.pos \in Holdings
      BY <2>1, <2>3, MessageFields
    <3>1. cache' \in Listing /\ shown' \subseteq Tickets /\ UNCHANGED <<cut, rewritten, op>>
      BY <2>3, <3>0 DEF ReadPush, Show, Types, Listing, memory
    <3>2. \/ UNCHANGED <<reading, asked>>
          \/ Ask("extra")
      BY <2>3 DEF ReadPush
    <3>5. "user" \in waiting <=> "user" \in waiting'
      BY <3>2 DEF Ask, reading
    <3>3. /\ slot' \in Readers \cup {"none"} /\ asked' \in Nat
          /\ got' \in [Readers -> {NoList} \cup Listing] /\ waiting' \subseteq Readers
      BY <3>2, AskTypes DEF reading, Types, Readers, Pollers
    <3>4. Types'
      BY <2>1, <2>2, <3>1, <3>3 DEF Types
    <3> QED BY <1>0, <2>2, <3>1, <3>4, <3>5, OpKept
  <2>4. CASE m.is = "list" /\ ReadList(m)
    <3>1. m.list \in Listing
      BY <2>1, <2>4, MessageFields
    <3>2. got' \in [Readers -> {NoList} \cup Listing]
      BY <2>4, <3>1 DEF ReadList, Types
    <3>3. Types' /\ op' = op /\ ("user" \in waiting <=> "user" \in waiting')
      BY <2>1, <2>2, <2>4, <3>2 DEF ReadList, Types, memory
    <3> QED BY <1>0, <2>2, <3>3, OpKept
  <2>5. CASE m.is = "result" /\ ReadResult(m)
    <3>1. m.ticket \in 0..MaxTickets /\ m.done \in BOOLEAN /\ op.phase = "taken"
          /\ (m.done => m.ticket \in 1..opened)
      BY <2>1, <2>5, MessageFields DEF ResultShape
    <3>2. op' \in Operations /\ op'.call = op.call /\ op'.lots = op.lots
          /\ (op'.phase = "done" \/ op'.phase = "refused")
          /\ op'.ticket = (IF m.done THEN m.ticket ELSE op.ticket)
          /\ (op'.phase = "done" => m.done)
      BY <2>5, <3>1 DEF ReadResult, Types, Operations
    <3>3. Types'
      BY <2>1, <2>2, <2>5, <3>2 DEF ReadResult, Types, reading, memory
    <3>4. op.call \in {"buy", "close", "partial", "modify"}
      BY <3>1 DEF OpShape
    <3>6. "user" \notin waiting'
      BY <2>5, <3>1 DEF ReadResult, OpShape, reading
    <3>5. OpShape'
      BY <1>0, <2>2, <3>1, <3>2, <3>4, <3>6 DEF OpShape
    <3> QED BY <1>0, <2>2, <3>3, <3>5
  <2> QED BY <1>5, <2>3, <2>4, <2>5 DEF Receive
<1>6. ASSUME NEW p \in Pollers, StartPoll(p)
      PROVE  Types' /\ OpShape' /\ opened' \in Nat /\ opened <= opened'
  <2>1. p \in Readers /\ p # "user" /\ Ask(p)
    BY <1>6 DEF StartPoll, Readers, Pollers
  <2>2. /\ slot' \in Readers \cup {"none"} /\ asked' \in Nat
        /\ got' \in [Readers -> {NoList} \cup Listing] /\ waiting' \subseteq Readers
    BY <2>1, AskTypes
  <2>3. ops' \in Nat
    BY <1>6 DEF StartPoll, Spend, Types
  <2>4. "user" \in waiting <=> "user" \in waiting'
    BY <2>1 DEF Ask
  <2>5. Types' /\ opened' = opened /\ op' = op
    BY <1>6, <2>2, <2>3 DEF StartPoll, Types, server, memory
  <2> QED BY <1>0, <2>4, <2>5, OpKept
<1>7. ASSUME NEW p \in Pollers, ApplyPoll(p)
      PROVE  Types' /\ OpShape' /\ opened' \in Nat /\ opened <= opened'
  <2>1. p \in Readers /\ got[p] \in Listing
    BY <1>7 DEF ApplyPoll, Resume, Readers, Types
  <2>2. cache' \in Listing
    <3> SUFFICES ASSUME NEW t \in Tickets
                 PROVE  (IF cache[t].lots > 0 /\ got[p][t].lots > 0
                           THEN [cache[t] EXCEPT !.stop = got[p][t].stop] ELSE cache[t]) \in Holdings
      BY <1>7 DEF ApplyPoll, Listing
    <3>1. cache[t] \in Holdings /\ got[p][t] \in Holdings
      BY <2>1 DEF Types, Listing
    <3> QED BY <3>1 DEF Holdings
  <2>3. Types' /\ opened' = opened /\ op' = op /\ ("user" \in waiting <=> "user" \in waiting')
    BY <1>7, <2>1, <2>2 DEF ApplyPoll, Resume, Pollers, Types, server
  <2> QED BY <1>0, <2>3, OpKept
<1>8. ASSUME NEW p \in Pollers, PollTimesOut(p)
      PROVE  Types' /\ OpShape' /\ opened' \in Nat /\ opened <= opened'
  <2>1. Types' /\ opened' = opened /\ op' = op /\ ("user" \in waiting <=> "user" \in waiting')
    BY <1>8 DEF PollTimesOut, TimesOut, Pollers, Types, server, memory, Spend
  <2> QED BY <1>0, <2>1, OpKept
<1>9. ASSUME NEW o \in WithLookup, CallWithLookup(o)
      PROVE  Types' /\ OpShape' /\ opened' \in Nat /\ opened <= opened'
  <2>1. op' \in Operations /\ op' = [o EXCEPT !.phase = "looking"] /\ o \in Operations
    BY <1>9, CallsTyped DEF CallWithLookup
  <2>2. "user" \in Readers /\ Ask("user")
    BY <1>9 DEF CallWithLookup, Readers
  <2>3. Types' /\ opened' = opened /\ "user" \in waiting'
    <3>1. /\ slot' \in Readers \cup {"none"} /\ asked' \in Nat
          /\ got' \in [Readers -> {NoList} \cup Listing] /\ waiting' \subseteq Readers
      BY <2>2, AskTypes
    <3>2. ops' \in Nat /\ "user" \in waiting'
      BY <1>9, <2>2 DEF CallWithLookup, Ask, Spend, Types
    <3> QED BY <1>9, <2>1, <3>1, <3>2 DEF CallWithLookup, Types, server, memory
  <2>4. /\ op'.phase = "looking" /\ op'.call = o.call /\ op'.ticket = o.ticket
        /\ op'.lots = o.lots
    BY <2>1 DEF Operations
  <2>5. /\ o.call \in {"look", "close", "partial", "modify"}
        /\ o.call \in {"close", "partial", "modify"} => o.ticket \in Tickets
        /\ o.call = "partial" => o.lots > 0
        /\ o.ticket <= opened
    BY <1>9, CallsTyped DEF CallWithLookup
  <2>6. OpShape'
    BY <1>0, <2>3, <2>4, <2>5 DEF OpShape, Tickets
  <2> QED BY <1>0, <2>3, <2>6
<1>10. ASSUME NEW o \in AtOnce, CallAtOnce(o)
      PROVE  Types' /\ OpShape' /\ opened' \in Nat /\ opened <= opened'
  <2>1. op' \in Operations /\ op' = [o EXCEPT !.phase = "sent"] /\ o \in Operations
    BY <1>10, CallsTyped DEF CallAtOnce
  <2>3. Types' /\ opened' = opened /\ "user" \notin waiting'
    BY <1>10, <2>1 DEF OpShape, CallAtOnce, Types, server, reading, memory, Spend
  <2>4. /\ op'.phase = "sent" /\ op'.call = o.call /\ op'.ticket = o.ticket
        /\ op'.lots = o.lots
    BY <2>1 DEF Operations
  <2>5. /\ o.call \in {"buy", "close", "partial", "modify"}
        /\ o.call \in {"close", "partial", "modify"} => o.ticket \in Tickets
        /\ o.call \in {"buy", "partial"} => o.lots > 0
        /\ o.ticket <= opened
    BY <1>10, CallsTyped DEF CallAtOnce
  <2>6. OpShape'
    BY <1>0, <2>3, <2>4, <2>5 DEF OpShape, Tickets
  <2> QED BY <1>0, <2>3, <2>6
<1>11. CASE ApplyLookup
  <2> DEFINE list == got["user"]
  <2>1. "user" \in waiting /\ list \in Listing /\ op.phase = "looking" /\ op \in Operations
    BY <1>11 DEF ApplyLookup, Resume, Readers, Types, OpShape
  <2>2. cache' \in Listing /\ shown' \subseteq Tickets
    BY <1>11, <2>1 DEF ApplyLookup, Types, Listing
  <2>3. op' = NoOp \/ \E pos \in Holdings : op' = Look(pos) /\ op.call # "look"
    <3>1. CASE op.call = "look"
      BY <1>11, <3>1 DEF ApplyLookup
    <3>2. CASE op.call # "look"
      <4>1. op.ticket \in Tickets
        BY <2>1, <3>2 DEF OpShape, Types, Tickets
      <4>2. list[op.ticket] \in Holdings /\ cache'[op.ticket] \in Holdings
        BY <2>1, <2>2, <4>1 DEF Listing
      <4> QED BY <1>11, <3>2, <4>2 DEF ApplyLookup
    <3> QED BY <3>1, <3>2
  <2>4. op' \in Operations /\ OpShape' /\ UNCHANGED opened
    BY <1>0, <1>11, <2>1, <2>3, LookTypes DEF ApplyLookup, Resume, server
  <2>5. Types'
    BY <1>11, <2>1, <2>2, <2>4 DEF ApplyLookup, Resume, Types, server
  <2> QED BY <1>0, <2>4, <2>5
<1>12. CASE LookupTimesOut
  <2>1. "user" \in waiting /\ op.phase = "looking" /\ op \in Operations
    BY <1>12 DEF LookupTimesOut, TimesOut, Types, OpShape
  <2>2. op' = NoOp \/ \E pos \in Holdings : op' = Look(pos) /\ op.call # "look"
    <3>1. CASE op.call = "look"
      BY <1>12, <3>1 DEF LookupTimesOut
    <3>2. CASE op.call # "look"
      <4>1. op.ticket \in Tickets
        BY <2>1, <3>2 DEF OpShape, Types, Tickets
      <4>2. cache[op.ticket] \in Holdings
        BY <4>1 DEF Types, Listing
      <4> QED BY <1>12, <3>2, <4>2 DEF LookupTimesOut
    <3> QED BY <3>1, <3>2
  <2>3. op' \in Operations /\ OpShape' /\ UNCHANGED opened
    BY <1>0, <1>12, <2>1, <2>2, LookTypes DEF LookupTimesOut, TimesOut, server
  <2>4. Types'
    BY <1>12, <2>3 DEF LookupTimesOut, TimesOut, Spend, Types, server, memory
  <2> QED BY <1>0, <2>3, <2>4
<1>13. CASE FinishTrade
  <2>1. /\ op' = NoOp /\ op.phase \in {"done", "refused"} /\ op \in Operations
        /\ UNCHANGED <<opened, waiting>>
    BY <1>13 DEF FinishTrade, Types, server, reading
  <2>2. OpShape'
    BY <2>1 DEF OpShape, NoOp, Call
  <2>3. cache' \in Listing /\ shown' \subseteq Tickets /\ cut' \in [Tickets -> Nat]
        /\ rewritten' \subseteq Tickets
    <3>1. CASE Stores
      <4>1. op.ticket \in Tickets /\ [lots |-> op.lots, stop |-> 0] \in Holdings
        BY <2>1, <3>1 DEF Stores, OpShape, Operations, Holdings, Types, Tickets
      <4>2. /\ Show(op.ticket, [lots |-> op.lots, stop |-> 0])
            /\ rewritten' = IF cache[op.ticket] = Nothing THEN rewritten ELSE rewritten \cup {op.ticket}
            /\ UNCHANGED cut
        BY <1>13, <3>1 DEF FinishTrade, Stores, Cuts
      <4> QED BY <4>1, <4>2 DEF Show, Types, Listing
    <3>2. CASE Cuts
      <4>1. op.ticket \in Tickets /\ op.lots \in Nat
        BY <2>1, <3>2 DEF Cuts, OpShape, Operations, Lots, Types, Tickets
      <4>2. cache[op.ticket] \in Holdings
        BY <4>1 DEF Types, Listing
      <4>3. Without(cache[op.ticket], op.lots) \in Holdings
        BY <4>1, <4>2, NothingHolds DEF Without, Holdings, Lots
      <4>4. /\ cache' = [cache EXCEPT ![op.ticket] = Without(@, op.lots)]
            /\ cut' = [cut EXCEPT ![op.ticket] = @ + (IF op.phase = "done" THEN op.lots ELSE 0)]
            /\ UNCHANGED <<shown, rewritten>>
        BY <1>13, <3>2 DEF FinishTrade, Stores, Cuts
      <4>5. cache' \in Listing
        BY <4>1, <4>3, <4>4 DEF Types, Listing
      <4>6. cut' \in [Tickets -> Nat]
        BY <4>1, <4>4 DEF Types
      <4> QED BY <4>4, <4>5, <4>6 DEF Types
    <3>3. CASE ~Stores /\ ~Cuts
      BY <1>13, <3>3 DEF FinishTrade, memory, Types
    <3> QED BY <3>1, <3>2, <3>3
  <2>4. Types'
    BY <1>13, <2>1, <2>3, CallsTyped DEF FinishTrade, Types, server, reading
  <2> QED BY <1>0, <2>1, <2>2, <2>4
<1>14. CASE UNCHANGED vars
  BY <1>0, <1>14, OpKept DEF vars, Types
<1> QED BY <1>1, <1>2, <1>3, <1>4, <1>5, <1>6, <1>7, <1>8, <1>9, <1>10, <1>11, <1>12, <1>13, <1>14
      DEF Next

-----------------------------------------------------------------------------
(* What is said of a position stays enough: no step adds lots to one.      *)

Shrinks == \A t \in Tickets : t <= opened => held'[t].lots <= held[t].lots

StillSays(p, t) == p.lots = 0 \/ (t <= opened' /\ p.lots >= held'[t].lots)

StillSound(m) ==
    /\ m.is = "list" => \A t \in Tickets : StillSays(m.list[t], t)
    /\ m.is = "push" => StillSays(m.pos, m.ticket) /\ m.ticket \in 1..opened'

LEMMA SaysKept ==
  ASSUME Types, Types', opened <= opened', Shrinks
  PROVE  /\ \A t \in Tickets, p \in Holdings : Says(p, t) => StillSays(p, t)
         /\ \A l \in Listing : SaysAll(l) => \A t \in Tickets : StillSays(l[t], t)
         /\ Enough => \A n \in 1..Len(net) : StillSound(net[n])
<1>1. ASSUME NEW t \in Tickets, NEW p \in Holdings, Says(p, t) PROVE StillSays(p, t)
  <2>1. held[t].lots \in Nat /\ p.lots \in Nat /\ t \in Nat /\ opened \in Nat
    BY PositionAssumption DEF Types, Listing, Holdings, Lots, Tickets
  <2>2. held'[t].lots \in Nat /\ opened' \in Nat
    BY PositionAssumption DEF Types, Listing, Holdings, Lots, Tickets
  <2> QED BY <1>1, <2>1, <2>2 DEF Says, StillSays, Shrinks
<1>2. ASSUME NEW l \in Listing, SaysAll(l), NEW t \in Tickets PROVE StillSays(l[t], t)
  BY <1>1, <1>2 DEF SaysAll, Listing
<1>3. ASSUME Enough, NEW n \in 1..Len(net) PROVE StillSound(net[n])
  <2>1. net[n] \in Messages
    BY DEF Types
  <2>2. CASE net[n].is = "list"
    BY <1>2, <1>3, <2>1, <2>2, MessageFields DEF Enough, StillSound
  <2>3. CASE net[n].is = "push"
    <3>1. net[n].ticket \in Tickets /\ net[n].pos \in Holdings
      BY <2>1, <2>3, MessageFields
    <3>2. Says(net[n].pos, net[n].ticket) /\ net[n].ticket \in 1..opened
      BY <1>3, <2>3 DEF Enough
    <3>3. net[n].ticket \in 1..opened'
      BY <3>2 DEF Types
    <3> QED BY <1>1, <2>3, <3>1, <3>2, <3>3 DEF StillSound
  <2> QED BY <2>2, <2>3 DEF StillSound
<1> QED BY <1>1, <1>2, <1>3

LEMMA ExecuteShrinks ==
  ASSUME Types, NEW t \in Tickets, NEW h \in Holdings, Execute(t, h),
         t <= opened => h.lots <= held[t].lots
  PROVE  /\ Shrinks
         /\ \A u \in Tickets \ {t} : held'[u] = held[u]
         /\ held'[t].lots = h.lots /\ held'[t] \in Holdings
         /\ held'[t].lots = 0 => held'[t] = Nothing
<1>1. held' = [held EXCEPT ![t] = IF h.lots = 0 THEN Nothing ELSE h]
  BY DEF Execute
<1>2. held \in Listing /\ Nothing.lots = 0 /\ Nothing \in Holdings
  BY NothingHolds DEF Types
<1>3. /\ held'[t].lots = h.lots /\ held'[t] \in Holdings
      /\ held'[t].lots = 0 => held'[t] = Nothing
  BY <1>1, <1>2 DEF Listing
<1>4. \A u \in Tickets \ {t} : held'[u] = held[u]
  BY <1>1, <1>2 DEF Listing
<1>5. \A u \in Tickets : held[u].lots \in Nat
  BY <1>2, PositionAssumption DEF Listing, Holdings, Lots
<1> QED BY <1>3, <1>4, <1>5 DEF Shrinks

(* The trade was carried out on ticket t and is announced.                 *)
Traded(t) ==
    /\ t <= opened'
    /\ op.call = "buy" => held'[t].lots <= op.lots /\ opened < t
    /\ op.call # "buy" => t = op.ticket
    /\ \A u \in Tickets \ {t} : held'[u] = held[u]
    /\ held'[t].lots = 0 => held'[t] = Nothing
    /\ net' \in {net \o <<Push(t, held'[t]), Result(t, TRUE)>>,
                 net \o <<Result(t, TRUE), Push(t, held'[t])>>}

(* What a trade does at the server.                                        *)
LEMMA TradeEffect ==
  ASSUME Types, OpShape, Enough, ServerTrade
  PROVE  /\ Shrinks
         /\ \A t \in Tickets : opened' < t => held'[t] = Nothing
         /\ op' = [op EXCEPT !.phase = "taken"] /\ op.phase = "sent"
         /\ UNCHANGED <<listed, reading, memory>>
         /\ \/ net' = Append(net, Result(0, FALSE)) /\ UNCHANGED held
            \/ \E t \in Tickets : Traded(t)
<1> USE PositionAssumption
<1>1. /\ op' = [op EXCEPT !.phase = "taken"] /\ op.phase = "sent" /\ op \in Operations
      /\ UNCHANGED <<listed, reading, memory>> /\ opened \in Nat
  BY DEF ServerTrade, Types
<1>2. \A t \in Tickets : held[t].lots \in Nat /\ held[t] \in Holdings
  BY DEF Types, Listing, Holdings, Lots
<1>3. CASE /\ op.call = "buy" /\ opened < MaxTickets /\ opened' = opened + 1
           /\ Execute(opened + 1, [lots |-> op.lots, stop |-> op.stop])
  <2>1. opened + 1 \in Tickets /\ [lots |-> op.lots, stop |-> op.stop] \in Holdings
    BY <1>1, <1>3 DEF Types, Operations, Tickets, Holdings
  <2>2. /\ Shrinks
        /\ \A u \in Tickets \ {opened + 1} : held'[u] = held[u]
        /\ held'[opened + 1].lots = op.lots
        /\ held'[opened + 1].lots = 0 => held'[opened + 1] = Nothing
    BY <1>1, <1>3, <2>1, ExecuteShrinks
  <2>3. \A t \in Tickets : opened' < t => held'[t] = Nothing
    BY <1>1, <1>3, <2>2 DEF Enough, Tickets
  <2>4. op.lots \in Nat
    BY <1>1 DEF Operations, Lots
  <2>6. opened + 1 <= opened' /\ held'[opened + 1].lots <= op.lots /\ opened < opened + 1
    BY <1>1, <1>3, <2>2, <2>4
  <2>5. Traded(opened + 1)
    BY <1>3, <2>2, <2>6 DEF Execute, Traded
  <2> QED BY <1>1, <2>1, <2>2, <2>3, <2>5
<1>4. ASSUME NEW h \in Holdings, op.call \in {"close", "partial", "modify"}, UNCHANGED opened,
             Execute(op.ticket, h), h.lots <= held[op.ticket].lots
      PROVE  /\ Shrinks
             /\ \A t \in Tickets : opened' < t => held'[t] = Nothing
             /\ op.ticket \in Tickets /\ Traded(op.ticket)
  <2>1. op.ticket \in Tickets /\ op.ticket \in 1..opened
    BY <1>4 DEF OpShape, Types, Tickets
  <2>2. /\ Shrinks /\ \A u \in Tickets \ {op.ticket} : held'[u] = held[u]
        /\ held'[op.ticket].lots = 0 => held'[op.ticket] = Nothing
    BY <1>4, <2>1, ExecuteShrinks
  <2>3. \A t \in Tickets : opened' < t => held'[t] = Nothing
    BY <1>1, <1>4, <2>1, <2>2 DEF Enough, Tickets
  <2>4. op.ticket <= opened' /\ op.call # "buy"
    BY <1>1, <1>4, <2>1
  <2>5. Traded(op.ticket)
    BY <1>4, <2>2, <2>4 DEF Execute, Traded
  <2> QED BY <2>1, <2>2, <2>3, <2>5
<1>5. CASE /\ op.call \in {"close", "partial"} /\ op.lots \in 1..held[op.ticket].lots
           /\ Execute(op.ticket, [held[op.ticket] EXCEPT !.lots = @ - op.lots])
           /\ UNCHANGED opened
  <2> DEFINE h == [held[op.ticket] EXCEPT !.lots = @ - op.lots]
  <2>1. op.ticket \in Tickets
    BY <1>5 DEF OpShape, Types, Tickets
  <2>2. h \in Holdings /\ h.lots <= held[op.ticket].lots
    BY <1>2, <1>5, <2>1 DEF Holdings, Lots
  <2>3. Execute(op.ticket, h) /\ UNCHANGED opened /\ op.call \in {"close", "partial", "modify"}
    BY <1>5
  <2> HIDE DEF h
  <2>4. /\ Shrinks /\ \A t \in Tickets : opened' < t => held'[t] = Nothing
        /\ op.ticket \in Tickets /\ Traded(op.ticket)
    BY <1>4, <2>2, <2>3
  <2> QED BY <1>1, <2>4
<1>6. CASE /\ op.call = "modify" /\ held[op.ticket].lots > 0
           /\ Execute(op.ticket, [held[op.ticket] EXCEPT !.stop = op.stop])
           /\ UNCHANGED opened
  <2> DEFINE h == [held[op.ticket] EXCEPT !.stop = op.stop]
  <2>1. op.ticket \in Tickets
    BY <1>6 DEF OpShape, Types, Tickets
  <2>2. h \in Holdings /\ h.lots <= held[op.ticket].lots
    BY <1>1, <1>2, <1>6, <2>1 DEF Holdings, Operations
  <2>3. Execute(op.ticket, h) /\ UNCHANGED opened /\ op.call \in {"close", "partial", "modify"}
    BY <1>6
  <2> HIDE DEF h
  <2>4. /\ Shrinks /\ \A t \in Tickets : opened' < t => held'[t] = Nothing
        /\ op.ticket \in Tickets /\ Traded(op.ticket)
    BY <1>4, <2>2, <2>3
  <2> QED BY <1>1, <2>4
<1>7. CASE net' = Append(net, Result(0, FALSE)) /\ UNCHANGED <<opened, held>>
  <2>1. Shrinks
    BY <1>2, <1>7 DEF Shrinks
  <2> QED BY <1>1, <1>7, <2>1 DEF Enough
<1> QED BY <1>3, <1>5, <1>6, <1>7 DEF ServerTrade

(* What a change from outside does.                                        *)
LEMMA OutsideEffect ==
  ASSUME Types, Enough, NEW t \in Tickets, NEW h \in Holdings, OutsideChange(t, h)
  PROVE  /\ Shrinks
         /\ \A u \in Tickets : opened' < u => held'[u] = Nothing
         /\ t <= opened' /\ held'[t] \in Holdings
         /\ \A u \in Tickets \ {t} : held'[u] = held[u]
         /\ held'[t].lots = 0 => held'[t] = Nothing
         /\ net' = Append(net, Push(t, held'[t]))
         /\ UNCHANGED <<listed, reading, memory, op>>
<1> USE PositionAssumption
<1>1. /\ opened \in Nat /\ held \in Listing /\ h.lots \in Nat
      /\ \A u \in Tickets : held[u] \in Holdings /\ held[u].lots \in Nat
  BY DEF Types, Listing, Holdings, Lots
<1>2. net' = Append(net, Push(t, held'[t])) /\ UNCHANGED <<listed, reading, memory, op>>
  BY DEF OutsideChange
<1>3. CASE Open(t, h) /\ h.lots > 0
  <2>1. /\ t <= opened' /\ held'[t] \in Holdings /\ held'[t].lots > 0
        /\ \A u \in Tickets \ {t} : held'[u] = held[u]
    BY <1>1, <1>3 DEF Open, Listing
  <2> QED BY <1>1, <1>2, <1>3, <2>1 DEF Open, Enough, Shrinks, Tickets
<1>4. CASE /\ held[t].lots > 0 /\ h.lots <= held[t].lots /\ UNCHANGED opened
           /\ held' = [held EXCEPT ![t] = IF h.lots = 0 THEN Nothing ELSE h]
  <2>1. /\ held'[t] \in Holdings /\ held'[t].lots = h.lots
        /\ held'[t].lots = 0 => held'[t] = Nothing
        /\ \A u \in Tickets \ {t} : held'[u] = held[u]
    BY <1>1, <1>4, NothingHolds DEF Listing
  <2>2. t <= opened
    BY <1>1, <1>4, NothingHolds DEF Enough, Tickets
  <2> QED BY <1>1, <1>2, <1>4, <2>1, <2>2 DEF Enough, Shrinks, Tickets
<1> QED BY <1>1, <1>3, <1>4 DEF OutsideChange

LEMMA ServerKept ==
  ASSUME Types, UNCHANGED <<opened, held>>
  PROVE  Shrinks /\ (Enough => \A u \in Tickets : opened' < u => held'[u] = Nothing)
<1>1. \A u \in Tickets : held[u].lots \in Nat
  BY PositionAssumption DEF Types, Listing, Holdings, Lots
<1> QED BY <1>1 DEF Shrinks, Enough

LEMMA HeldStep ==
  ASSUME Types, OpShape, Enough, [Next]_vars
  PROVE  Shrinks /\ \A u \in Tickets : opened' < u => held'[u] = Nothing
<1>1. CASE ServerTrade
  BY <1>1, TradeEffect
<1>2. CASE \E t \in Tickets, h \in Holdings : OutsideChange(t, h)
  BY <1>2, OutsideEffect
<1>3. CASE ~ServerTrade /\ ~(\E t \in Tickets, h \in Holdings : OutsideChange(t, h))
  <2>1. UNCHANGED <<opened, held>>
    BY <1>3 DEF Next, Relist, AnswerList, Receive, StartPoll, ApplyPoll, PollTimesOut,
                CallWithLookup, CallAtOnce, ApplyLookup, LookupTimesOut, FinishTrade, server, vars
  <2> QED BY <2>1, ServerKept
<1> QED BY <1>1, <1>2, <1>3

-----------------------------------------------------------------------------
(* Messages that are sound stay so, and those that are sent are sound.     *)

(* What the steps do to the messages under way.                            *)
LEMMA NetStep ==
  ASSUME Types, OpShape, Enough, Types', opened <= opened', Shrinks, [Next]_vars
  PROVE  \/ net' = net
         \/ net # <<>> /\ net' = Tail(net)
         \/ \E m \in Messages : net' = Append(net, m) /\ StillSound(m)
         \/ \E a, b \in Messages : net' = net \o <<a, b>> /\ StillSound(a) /\ StillSound(b)
<1>1. \A t \in Tickets : t <= opened' => StillSound(Push(t, held'[t])) /\ Push(t, held'[t]) \in Messages
  <2> SUFFICES ASSUME NEW t \in Tickets, t <= opened'
               PROVE  StillSound(Push(t, held'[t])) /\ Push(t, held'[t]) \in Messages
    OBVIOUS
  <2>0. held' \in Listing /\ opened' \in 0..MaxTickets /\ t \in 1..MaxTickets
    BY DEF Types, Tickets
  <2>1. held'[t] \in Holdings /\ t \in 1..opened' /\ held'[t].lots \in Nat
    BY <2>0, PositionAssumption DEF Listing, Holdings, Lots
  <2>2. Push(t, held'[t]) \in Messages
    BY <2>1, MakesMessages
  <2>3. StillSound(Push(t, held'[t]))
    BY <2>1 DEF StillSound, StillSays, Push
  <2> QED BY <2>2, <2>3
<1>2. /\ \A t \in Tickets : StillSound(Result(t, TRUE)) /\ Result(t, TRUE) \in Messages
      /\ StillSound(Result(0, FALSE)) /\ Result(0, FALSE) \in Messages
  BY MakesMessages DEF StillSound, Result
<1>3. CASE ServerTrade
  <2>1. net' = Append(net, Result(0, FALSE)) \/ \E t \in Tickets : Traded(t)
    BY <1>3, TradeEffect
  <2>2. ASSUME NEW t \in Tickets, Traded(t)
        PROVE  \E a, b \in Messages : net' = net \o <<a, b>> /\ StillSound(a) /\ StillSound(b)
    BY <1>1, <1>2, <2>2 DEF Traded
  <2> QED BY <1>2, <2>1, <2>2
<1>4. ASSUME NEW t \in Tickets, NEW h \in Holdings, OutsideChange(t, h)
      PROVE  \E m \in Messages : net' = Append(net, m) /\ StillSound(m)
  <2>1. t <= opened' /\ net' = Append(net, Push(t, held'[t]))
    BY <1>4, OutsideEffect
  <2> QED BY <1>1, <2>1
<1>5. CASE AnswerList
  <2>1. \A t \in Tickets : StillSays(listed[t], t)
    BY SaysKept DEF Enough, Types
  <2>2. List(listed) \in Messages /\ StillSound(List(listed))
    BY <2>1, MakesMessages DEF Types, StillSound, List
  <2> QED BY <1>5, <2>2 DEF AnswerList
<1>6. CASE Receive
  BY <1>6 DEF Receive
<1>7. CASE /\ ~ServerTrade /\ ~AnswerList /\ ~Receive
           /\ ~(\E t \in Tickets, h \in Holdings : OutsideChange(t, h))
  BY <1>7 DEF Next, Relist, StartPoll, ApplyPoll, PollTimesOut,
              CallWithLookup, CallAtOnce, ApplyLookup, LookupTimesOut, FinishTrade, vars
<1> QED BY <1>3, <1>4, <1>5, <1>6, <1>7

LEMMA EnoughStep ==
  ASSUME Types, OpShape, Enough, Types', opened <= opened', [Next]_vars
  PROVE  Enough'
<1>1. Shrinks /\ \A u \in Tickets : opened' < u => held'[u] = Nothing
  BY HeldStep
<1>2. /\ \A l \in Listing : SaysAll(l) => \A t \in Tickets : StillSays(l[t], t)
      /\ \A n \in 1..Len(net) : StillSound(net[n])
  BY <1>1, SaysKept
<1>3. \A t \in Tickets : StillSays(held'[t], t)
  <2> SUFFICES ASSUME NEW t \in Tickets PROVE StillSays(held'[t], t)
    OBVIOUS
  <2>1. held'[t].lots \in Nat /\ t \in Nat /\ opened' \in Nat
    BY PositionAssumption DEF Types, Listing, Holdings, Lots, Tickets
  <2>2. CASE t <= opened'
    BY <2>1, <2>2 DEF StillSays
  <2>3. CASE opened' < t
    BY <1>1, <2>3, NothingHolds DEF StillSays
  <2> QED BY <2>1, <2>2, <2>3
<1>4. listed' = listed \/ listed' = held'
  BY DEF Next, OutsideChange, Relist, AnswerList, ServerTrade, Receive, StartPoll, ApplyPoll,
         PollTimesOut, CallWithLookup, CallAtOnce, ApplyLookup, LookupTimesOut, FinishTrade,
         server, vars
<1>5. \A t \in Tickets : StillSays(listed'[t], t)
  BY <1>2, <1>3, <1>4 DEF Enough, Types
<1>6. \A n \in 1..Len(net') : StillSound(net'[n])
  <2>1. net \in Seq(Messages)
    BY DEF Types
  <2>2. CASE net' = net
    BY <1>2, <2>2
  <2>3. CASE net # <<>> /\ net' = Tail(net)
    BY <1>2, <2>1, <2>3, TailElements
  <2>4. ASSUME NEW m \in Messages, net' = Append(net, m), StillSound(m)
        PROVE  \A n \in 1..Len(net') : StillSound(net'[n])
    <3>1. /\ Len(net') = Len(net) + 1 /\ net'[Len(net) + 1] = m
          /\ \A n \in 1..Len(net) : net'[n] = net[n]
      BY <2>1, <2>4, AppendElements
    <3> QED BY <1>2, <2>1, <2>4, <3>1
  <2>5. ASSUME NEW a \in Messages, NEW b \in Messages, net' = net \o <<a, b>>,
               StillSound(a), StillSound(b)
        PROVE  \A n \in 1..Len(net') : StillSound(net'[n])
    <3>1. /\ Len(net') = Len(net) + 2 /\ net'[Len(net) + 1] = a /\ net'[Len(net) + 2] = b
          /\ \A n \in 1..Len(net) : net'[n] = net[n]
      BY <2>1, <2>5, PairElements
    <3> QED BY <1>2, <2>1, <2>5, <3>1
  <2> QED BY <1>1, <2>2, <2>3, <2>4, <2>5, NetStep
<1>7. ASSUME NEW r \in Readers, got'[r] # NoList
      PROVE  \A t \in Tickets : StillSays(got'[r][t], t)
  <2>1. got'[r] = got[r] \/ \E n \in 1..Len(net) : net[n].is = "list" /\ got'[r] = net[n].list
    <3>1. ASSUME Receive, Head(net).is = "list", ReadList(Head(net))
          PROVE  got'[r] = got[r] \/ \E n \in 1..Len(net) : net[n].is = "list" /\ got'[r] = net[n].list
      <4>1. Head(net) = net[1] /\ 1 \in 1..Len(net)
        BY <3>1, TailElements DEF Receive, Types
      <4> QED BY <3>1, <4>1 DEF ReadList, Types
    <3>2. CASE Receive /\ ~(Head(net).is = "list" /\ ReadList(Head(net)))
      BY <1>7, <3>2 DEF Receive, ReadPush, ReadResult, Ask, reading, Types
    <3>3. CASE ~Receive
      BY <1>7, <3>3 DEF Next, OutsideChange, Relist, AnswerList, ServerTrade, StartPoll, ApplyPoll,
         PollTimesOut, CallWithLookup, CallAtOnce, ApplyLookup, LookupTimesOut, FinishTrade,
         Ask, TimesOut, Resume, reading, vars, Types
    <3> QED BY <3>1, <3>2, <3>3
  <2>2. CASE got'[r] = got[r]
    BY <1>2, <1>7, <2>2 DEF Enough, Types
  <2>3. CASE \E n \in 1..Len(net) : net[n].is = "list" /\ got'[r] = net[n].list
    BY <1>2, <2>3 DEF StillSound
  <2> QED BY <2>1, <2>2, <2>3
<1> QED
  <2>1. SaysAll(listed)'
    BY <1>5 DEF SaysAll, Says, StillSays
  <2>2. (\A r \in Readers : got[r] # NoList => SaysAll(got[r]))'
    BY <1>7 DEF SaysAll, Says, StillSays
  <2>3. (\A n \in 1..Len(net) : net[n].is = "list" => SaysAll(net[n].list))'
    BY <1>6 DEF SaysAll, Says, StillSays, StillSound
  <2>4. (\A n \in 1..Len(net) : net[n].is = "push" =>
            Says(net[n].pos, net[n].ticket) /\ net[n].ticket \in 1..opened)'
    BY <1>6 DEF Says, StillSays, StillSound
  <2> QED BY <1>1, <2>1, <2>2, <2>3, <2>4 DEF Enough

-----------------------------------------------------------------------------
(* The result of the trade.                                                *)

LEMMA NoResult ==
  ASSUME ResultShape, op.phase # "taken", NEW n \in 1..Len(net)
  PROVE  net[n].is # "result"
  BY DEF ResultShape

(* A result that is there says enough.                                     *)
Answers(m) ==
    m.done => /\ m.ticket \in 1..opened'
              /\ IF op.call = "buy" THEN op.lots >= held'[m.ticket].lots
                 ELSE m.ticket = op.ticket

(* A step that keeps the trade and adds no result keeps the result under   *)
(* way and its answer.                                                     *)
LEMMA ResultKept ==
  ASSUME Types, Types', OpShape, ResultShape, opened <= opened', Shrinks, op' = op,
         \/ net' = net
         \/ net # <<>> /\ net' = Tail(net)
         \/ \E m \in Messages : net' = Append(net, m) /\ m.is # "result"
  PROVE  ResultShape'
<1>1. \A t \in 1..opened : t \in 1..opened' /\ held'[t].lots <= held[t].lots
                           /\ held[t].lots \in Nat /\ held'[t].lots \in Nat
  <2> SUFFICES ASSUME NEW t \in 1..opened
               PROVE  t \in 1..opened' /\ held'[t].lots <= held[t].lots
                      /\ held[t].lots \in Nat /\ held'[t].lots \in Nat
    OBVIOUS
  <2>1. opened \in 0..MaxTickets /\ opened' \in 0..MaxTickets /\ held \in Listing /\ held' \in Listing
    BY DEF Types
  <2>2. t \in Tickets
    BY <2>1, PositionAssumption DEF Tickets
  <2>3. held[t].lots \in Nat /\ held'[t].lots \in Nat
    BY <2>1, <2>2, PositionAssumption DEF Listing, Holdings, Lots
  <2> QED BY <2>1, <2>2, <2>3, PositionAssumption DEF Shrinks
<1>2. op.lots \in Nat
  BY PositionAssumption DEF Types, Operations, Lots
<1>3. op.phase = "done" /\ op.call = "buy" => op.lots >= held'[op.ticket].lots
  BY <1>1, <1>2 DEF ResultShape, OpShape
<1>4. \A j \in 1..Len(net) : net[j].is = "result" =>
         /\ op.phase = "taken"
         /\ \A k \in 1..Len(net) : net[k].is = "result" => k = j
         /\ Answers(net[j])
  <2> SUFFICES ASSUME NEW j \in 1..Len(net), net[j].is = "result"
               PROVE  /\ op.phase = "taken"
                      /\ \A k \in 1..Len(net) : net[k].is = "result" => k = j
                      /\ Answers(net[j])
    OBVIOUS
  <2>1. /\ op.phase = "taken"
        /\ \A k \in 1..Len(net) : net[k].is = "result" => k = j
        /\ net[j].done =>
              /\ net[j].ticket \in 1..opened
              /\ IF op.call = "buy" THEN op.lots >= held[net[j].ticket].lots
                 ELSE net[j].ticket = op.ticket
    BY DEF ResultShape
  <2>2. ASSUME net[j].done
        PROVE  /\ net[j].ticket \in 1..opened'
               /\ op.call = "buy" => op.lots >= held'[net[j].ticket].lots
    <3> DEFINE t == net[j].ticket
    <3>1. t \in 1..opened
      BY <2>1, <2>2
    <3>2. t \in 1..opened' /\ held'[t].lots <= held[t].lots
          /\ held[t].lots \in Nat /\ held'[t].lots \in Nat
      BY <1>1, <3>1
    <3>3. op.call = "buy" => op.lots >= held[t].lots
      BY <2>1, <2>2
    <3> HIDE DEF t
    <3>4. op.call = "buy" => op.lots >= held'[t].lots
      BY <1>2, <3>2, <3>3
    <3> QED BY <3>2, <3>4 DEF t
  <2> QED BY <2>1, <2>2 DEF Answers
<1>5. \A n \in 1..Len(net') : net'[n].is = "result" =>
         /\ op.phase = "taken"
         /\ \A k \in 1..Len(net') : net'[k].is = "result" => k = n
         /\ Answers(net'[n])
  <2>1. net \in Seq(Messages)
    BY DEF Types
  <2>2. CASE net' = net
    BY <1>4, <2>2
  <2>3. CASE net # <<>> /\ net' = Tail(net)
    <3>1. \A n \in 1..Len(net') : n + 1 \in 1..Len(net) /\ net'[n] = net[n + 1]
      BY <2>1, <2>3, TailElements
    <3>2. ASSUME NEW n \in 1..Len(net'), net'[n].is = "result",
                 NEW k \in 1..Len(net'), net'[k].is = "result"
          PROVE  k = n
      <4>1. k + 1 = n + 1
        BY <1>4, <3>1, <3>2
      <4> QED BY <4>1
    <3> QED BY <1>4, <3>1, <3>2
  <2>4. ASSUME NEW m \in Messages, net' = Append(net, m), m.is # "result"
        PROVE  \A n \in 1..Len(net') : net'[n].is = "result" =>
                  /\ op.phase = "taken"
                  /\ \A k \in 1..Len(net') : net'[k].is = "result" => k = n
                  /\ Answers(net'[n])
    <3>1. /\ Len(net') = Len(net) + 1 /\ net'[Len(net) + 1] = m
          /\ \A n \in 1..Len(net) : net'[n] = net[n]
      BY <2>1, <2>4, AppendElements
    <3>2. \A n \in 1..Len(net') : net'[n].is = "result" => n \in 1..Len(net)
      BY <2>1, <2>4, <3>1
    <3> QED BY <1>4, <3>1, <3>2
  <2> QED BY <2>2, <2>3, <2>4
<1>6. ResultShape'
  BY <1>3, <1>5 DEF ResultShape, Answers
<1> QED BY <1>6

LEMMA ResultStep ==
  ASSUME Types, OpShape, Enough, ResultShape, Types', opened <= opened', [Next]_vars
  PROVE  ResultShape'
<1>1. Shrinks
  BY HeldStep
<1>2. CASE ServerTrade
  <2>1. /\ op' = [op EXCEPT !.phase = "taken"] /\ op.phase = "sent"
        /\ net' = Append(net, Result(0, FALSE)) \/ \E t \in Tickets : Traded(t)
    BY <1>2, TradeEffect
  <2>2. /\ op'.phase = "taken" /\ op'.call = op.call /\ op'.ticket = op.ticket
        /\ op'.lots = op.lots
    BY <2>1 DEF Types, Operations
  <2>3. net \in Seq(Messages) /\ \A n \in 1..Len(net) : net[n].is # "result"
    BY <2>1, NoResult DEF Types
  <2>4. \E i \in 1..Len(net') : /\ \A n \in 1..Len(net') \ {i} : net'[n].is # "result"
                                /\ Answers(net'[i])
    <3>1. CASE net' = Append(net, Result(0, FALSE))
      <4>1. /\ Len(net') = Len(net) + 1 /\ net'[Len(net) + 1] = Result(0, FALSE)
            /\ \A n \in 1..Len(net) : net'[n] = net[n]
        BY <2>3, <3>1, MakesMessages, AppendElements
      <4>2. Answers(Result(0, FALSE))
        BY DEF Answers, Result
      <4>3. /\ Len(net) + 1 \in 1..Len(net')
            /\ \A n \in 1..Len(net') \ {Len(net) + 1} : net'[n].is # "result"
        BY <2>3, <4>1
      <4>4. Answers(net'[Len(net) + 1])
        BY <4>1, <4>2
      <4> QED BY <4>3, <4>4
    <3>2. ASSUME NEW t \in Tickets, Traded(t)
          PROVE  \E i \in 1..Len(net') : /\ \A n \in 1..Len(net') \ {i} : net'[n].is # "result"
                                         /\ Answers(net'[i])
      <4> DEFINE a == Push(t, held'[t])
                 b == Result(t, TRUE)
      <4>1. /\ t \in 1..opened' /\ held'[t] \in Holdings
            /\ held'[t].lots \in Nat /\ op.lots \in Nat
        <5>1. opened' \in 0..MaxTickets /\ held' \in Listing /\ op \in Operations /\ t \in 1..MaxTickets
          BY DEF Types, Tickets
        <5> QED BY <3>2, <5>1, PositionAssumption DEF Traded, Listing, Holdings, Operations, Lots
      <4>2. Answers(b)
        BY <3>2, <4>1 DEF Answers, Result, Traded
      <4>3. a \in Messages /\ b \in Messages /\ a.is # "result"
        <5>1. a \in Messages /\ b \in Messages
          BY <4>1, MakesMessages
        <5> QED BY <5>1 DEF Push
      <4>4. net' = net \o <<a, b>> \/ net' = net \o <<b, a>>
        BY <3>2 DEF Traded
      <4> HIDE DEF a, b
      <4>5. CASE net' = net \o <<a, b>>
        <5>1. /\ Len(net') = Len(net) + 2 /\ net'[Len(net) + 1] = a /\ net'[Len(net) + 2] = b
              /\ \A n \in 1..Len(net) : net'[n] = net[n]
          BY <2>3, <4>3, <4>5, PairElements
        <5> QED BY <2>3, <4>2, <4>3, <5>1
      <4>6. CASE net' = net \o <<b, a>>
        <5>1. /\ Len(net') = Len(net) + 2 /\ net'[Len(net) + 1] = b /\ net'[Len(net) + 2] = a
              /\ \A n \in 1..Len(net) : net'[n] = net[n]
          BY <2>3, <4>3, <4>6, PairElements
        <5> QED BY <2>3, <4>2, <4>3, <5>1
      <4> QED BY <4>4, <4>5, <4>6
    <3> QED BY <2>1, <3>1, <3>2
  <2> QED BY <2>2, <2>4 DEF ResultShape, Answers
<1>3. CASE Receive /\ Head(net).is = "result" /\ ReadResult(Head(net))
  <2> DEFINE m == Head(net)
  <2>1. /\ net' = Tail(net) /\ net \in Seq(Messages) /\ net # <<>> /\ m = net[1] /\ 1 \in 1..Len(net)
        /\ m \in Messages
    BY <1>3, TailElements DEF Receive, Types
  <2>2. \A n \in 1..Len(net') : net'[n].is # "result"
    <3>1. \A n \in 1..Len(net') : n + 1 \in 1..Len(net) /\ net'[n] = net[n + 1]
      BY <2>1, TailElements
    <3>2. \A k \in 1..Len(net) : net[k].is = "result" => k = 1
      BY <1>3, <2>1 DEF ResultShape
    <3>3. \A n \in 1..Len(net') : n + 1 # 1
      OBVIOUS
    <3> QED BY <3>1, <3>2, <3>3
  <2>3. /\ op.phase = "taken"
        /\ m.done => /\ m.ticket \in 1..opened
                     /\ op.call = "buy" => op.lots >= held[m.ticket].lots
    BY <1>3, <2>1 DEF ResultShape
  <2>4. /\ op'.phase = (IF m.done THEN "done" ELSE "refused") /\ op'.call = op.call
        /\ op'.ticket = (IF m.done THEN m.ticket ELSE op.ticket) /\ op'.lots = op.lots
        /\ held' = held
    BY <1>3 DEF ReadResult, Receive, Types, Operations, server
  <2> QED BY <2>2, <2>3, <2>4 DEF ResultShape
<1>4. CASE Receive /\ ~(Head(net).is = "result" /\ ReadResult(Head(net)))
  <2>1. op' = op /\ net # <<>> /\ net' = Tail(net)
    BY <1>4 DEF Receive, ReadPush, ReadList
  <2> QED BY <1>1, <2>1, ResultKept
<1>5. ASSUME NEW t \in Tickets, NEW h \in Holdings, OutsideChange(t, h)
      PROVE  ResultShape'
  <2>1. op' = op /\ held'[t] \in Holdings /\ net' = Append(net, Push(t, held'[t]))
    BY <1>5, OutsideEffect
  <2>2. Push(t, held'[t]) \in Messages /\ Push(t, held'[t]).is # "result"
    BY <2>1, MakesMessages DEF Push
  <2> QED BY <1>1, <2>1, <2>2, ResultKept
<1>6. CASE AnswerList
  <2>1. List(listed) \in Messages /\ List(listed).is # "result"
    BY MakesMessages DEF List, Types
  <2> QED BY <1>1, <1>6, <2>1, ResultKept DEF AnswerList
<1>7. CASE op' = op /\ net' = net
  BY <1>1, <1>7, ResultKept
<1>8. CASE net' = net /\ op.phase # "taken" /\ op'.phase # "done"
  <2>1. \A n \in 1..Len(net) : net[n].is # "result"
    BY <1>8, NoResult
  <2> QED BY <1>8, <2>1 DEF ResultShape
<1>9. ASSUME NEW p \in Pollers, StartPoll(p) \/ ApplyPoll(p) \/ PollTimesOut(p)
      PROVE  op' = op /\ net' = net
  BY <1>9 DEF StartPoll, ApplyPoll, PollTimesOut
<1>10. ASSUME \/ \E o \in WithLookup : CallWithLookup(o)
              \/ \E o \in AtOnce : CallAtOnce(o)
              \/ ApplyLookup
              \/ LookupTimesOut
              \/ FinishTrade
       PROVE  net' = net /\ op.phase # "taken" /\ op'.phase # "done"
  <2>1. ASSUME NEW o \in WithLookup, CallWithLookup(o)
        PROVE  net' = net /\ op.phase # "taken" /\ op'.phase # "done"
    BY <2>1, CallsTyped DEF CallWithLookup, Operations
  <2>2. ASSUME NEW o \in AtOnce, CallAtOnce(o)
        PROVE  net' = net /\ op.phase # "taken" /\ op'.phase # "done"
    BY <2>2, CallsTyped DEF CallAtOnce, Operations
  <2>3. ASSUME ApplyLookup \/ LookupTimesOut
        PROVE  net' = net /\ op.phase # "taken" /\ op'.phase # "done"
    <3>1. net' = net /\ op.phase = "looking"
      BY <2>3 DEF ApplyLookup, LookupTimesOut, Resume, TimesOut, OpShape
    <3>2. op' = NoOp \/ op'.phase = "sent"
      BY <2>3 DEF ApplyLookup, LookupTimesOut, Look, Types, Operations
    <3> QED BY <3>1, <3>2 DEF NoOp, Call
  <2>4. CASE FinishTrade
    BY <2>4 DEF FinishTrade, NoOp, Call
  <2> QED BY <1>10, <2>1, <2>2, <2>3, <2>4
<1> QED BY <1>2, <1>3, <1>4, <1>5, <1>6, <1>7, <1>8, <1>9, <1>10 DEF Next, Relist, vars

-----------------------------------------------------------------------------
(* The cache.                                                              *)

LEMMA CacheStep ==
  ASSUME Types, OpShape, Enough, ResultShape, Remembered, NeverUnderstated,
         Types', opened <= opened', Shrinks, [Next]_vars
  PROVE  Remembered' /\ NeverUnderstated'
<1>1. /\ opened \in Nat /\ opened' \in Nat /\ cache \in Listing /\ held \in Listing
      /\ held' \in Listing /\ cache' \in Listing /\ cut \in [Tickets -> Nat]
      /\ op \in Operations /\ shown \subseteq Tickets
  BY DEF Types
<1>2. \A t \in Tickets : /\ held[t].lots \in Nat /\ held'[t].lots \in Nat
                         /\ cache[t].lots \in Nat /\ cut[t] \in Nat
  BY <1>1, PositionAssumption DEF Listing, Holdings, Lots
<1>3. \A t \in shown : /\ t \in Tickets /\ t \in 1..opened /\ t <= opened'
                       /\ held'[t].lots <= held[t].lots
  BY <1>1 DEF Remembered, Shrinks, Tickets
<1>4. \A t \in shown : cache[t].lots + cut[t] >= held'[t].lots
  BY <1>2, <1>3 DEF NeverUnderstated
<1>5. CASE UNCHANGED memory
  BY <1>1, <1>3, <1>4, <1>5 DEF Remembered, NeverUnderstated, memory
<1>6. CASE Receive /\ Head(net).is = "push" /\ ReadPush(Head(net)) /\ Head(net).pos.lots # 0
  <2> DEFINE m == Head(net)
  <2>1. m = net[1] /\ 1 \in 1..Len(net) /\ m \in Messages
    BY <1>6, TailElements DEF Receive, Types
  <2>2. /\ m.ticket \in Tickets /\ m.pos \in Holdings /\ Says(m.pos, m.ticket)
        /\ m.ticket \in 1..opened
    BY <1>6, <2>1, MessageFields DEF Enough
  <2>3. /\ cache' = [cache EXCEPT ![m.ticket] = m.pos] /\ shown' = shown \cup {m.ticket}
        /\ UNCHANGED <<cut, held, opened>>
    BY <1>6 DEF ReadPush, Show, Receive, server
  <2>4. m.pos.lots >= held[m.ticket].lots /\ m.pos.lots \in Nat
    BY <1>6, <2>2, PositionAssumption DEF Says, Holdings, Lots
  <2>5. Remembered'
    BY <1>1, <1>2, <1>6, <2>2, <2>3, <2>4 DEF Remembered, Listing
  <2>6. NeverUnderstated'
    BY <1>1, <1>2, <2>2, <2>3, <2>4 DEF NeverUnderstated, Listing
  <2> QED BY <2>5, <2>6
<1>7. ASSUME NEW p \in Pollers, ApplyPoll(p)
      PROVE  Remembered' /\ NeverUnderstated'
  <2>1. /\ UNCHANGED <<opened, held, shown, cut>>
        /\ \A t \in Tickets : /\ cache'[t].lots = cache[t].lots
                              /\ cache[t].lots = 0 => cache'[t] = cache[t]
    <3>1. \A t \in Tickets : cache'[t] = IF cache[t].lots > 0 /\ got[p][t].lots > 0
                     THEN [cache[t] EXCEPT !.stop = got[p][t].stop] ELSE cache[t]
      BY <1>7 DEF ApplyPoll
    <3>2. ASSUME NEW t \in Tickets
          PROVE  /\ cache'[t].lots = cache[t].lots
                 /\ cache[t].lots = 0 => cache'[t] = cache[t]
      <4>1. cache[t] \in Holdings /\ cache[t].lots \in Nat
        BY <1>1, <1>2 DEF Listing
      <4> DEFINE g == [cache[t] EXCEPT !.stop = got[p][t].stop]
      <4>2. g.lots = cache[t].lots
        BY <4>1 DEF Holdings
      <4>3. cache'[t] = IF cache[t].lots > 0 /\ got[p][t].lots > 0 THEN g ELSE cache[t]
        BY <3>1
      <4> HIDE DEF g
      <4> QED BY <4>1, <4>2, <4>3
    <3> QED BY <1>7, <3>2 DEF ApplyPoll, server
  <2> QED BY <1>1, <1>4, <2>1 DEF Remembered, NeverUnderstated
<1>8. CASE ApplyLookup
  <2> DEFINE list == got["user"]
             new == {t \in Tickets : cache[t] = Nothing /\ list[t].lots > 0}
  <2>1. /\ list \in Listing /\ SaysAll(list)
    BY <1>8 DEF ApplyLookup, Resume, Readers, Types, Enough
  <2>2. /\ cache' = [t \in Tickets |-> IF t \in new THEN list[t] ELSE cache[t]]
        /\ shown' = shown \cup new /\ UNCHANGED <<opened, held, cut>>
    BY <1>8 DEF ApplyLookup, server
  <2>3. \A t \in new : /\ t \in 1..opened /\ list[t].lots >= held[t].lots /\ list[t].lots > 0
                       /\ list[t].lots \in Nat
    <3> SUFFICES ASSUME NEW t \in Tickets, list[t].lots > 0
                 PROVE  t \in 1..opened /\ list[t].lots >= held[t].lots /\ list[t].lots \in Nat
      OBVIOUS
    <3>1. list[t].lots \in Nat /\ t \in Nat \ {0}
      BY <2>1, PositionAssumption DEF Listing, Holdings, Lots, Tickets
    <3>2. Says(list[t], t)
      BY <2>1 DEF SaysAll
    <3> QED BY <1>1, <3>1, <3>2 DEF Says
  <2>4. new \subseteq Tickets
    OBVIOUS
  <2> HIDE DEF new, list
  <2>7. \A t \in Tickets : cache'[t] = IF t \in new THEN list[t] ELSE cache[t]
    BY <2>2
  <2>8. \A t \in Tickets : cache'[t].lots > 0 => t \in shown'
    BY <2>2, <2>7 DEF Remembered
  <2>9. \A t \in Tickets : cache'[t].lots = 0 => cache'[t] = Nothing
    BY <2>3, <2>7 DEF Remembered
  <2>5. Remembered'
    BY <1>1, <2>2, <2>3, <2>8, <2>9 DEF Remembered
  <2>6. NeverUnderstated'
    BY <1>1, <1>2, <2>2, <2>3, <2>4 DEF NeverUnderstated
  <2> QED BY <2>5, <2>6
<1>9. CASE FinishTrade /\ Stores
  <2> DEFINE h == [lots |-> op.lots, stop |-> 0]
  <2>1. /\ op.ticket \in Tickets /\ op.ticket \in 1..opened
        /\ op.lots \in Nat /\ op.lots > 0 /\ op.lots >= held[op.ticket].lots
    BY <1>1, <1>9, PositionAssumption DEF Stores, OpShape, ResultShape, Operations, Lots, Tickets, Types
  <2>2. /\ cache' = [cache EXCEPT ![op.ticket] = h] /\ shown' = shown \cup {op.ticket}
        /\ UNCHANGED <<opened, held, cut>>
    BY <1>9 DEF FinishTrade, Stores, Cuts, Show, server
  <2>3. h.lots = op.lots
    OBVIOUS
  <2> HIDE DEF h
  <2>6. \A t \in Tickets : cache'[t] = IF t = op.ticket THEN h ELSE cache[t]
    BY <1>1, <2>2 DEF Listing
  <2>7. /\ \A t \in Tickets : cache'[t].lots > 0 => t \in shown'
        /\ \A t \in Tickets : cache'[t].lots = 0 => cache'[t] = Nothing
    BY <2>1, <2>2, <2>3, <2>6 DEF Remembered
  <2>4. Remembered'
    BY <1>1, <2>1, <2>2, <2>7 DEF Remembered
  <2>5. NeverUnderstated'
    BY <1>1, <1>2, <2>1, <2>2, <2>3 DEF NeverUnderstated, Listing
  <2> QED BY <2>4, <2>5
<1>10. CASE FinishTrade /\ Cuts
  <2> DEFINE h == Without(cache[op.ticket], op.lots)
  <2>1. /\ op.ticket \in Tickets /\ op.lots \in Nat /\ op.lots > 0 /\ cache[op.ticket] \in Holdings
        /\ op.phase = "done"
    BY <1>1, <1>10, PositionAssumption DEF Cuts, OpShape, Operations, Lots, Tickets, Types, Listing
  <2>2. /\ cache' = [cache EXCEPT ![op.ticket] = h]
        /\ cut' = [cut EXCEPT ![op.ticket] = @ + op.lots]
        /\ UNCHANGED <<opened, held, shown>>
    BY <1>10, <2>1 DEF FinishTrade, Stores, Cuts, server
  <2>3. /\ h.lots \in Nat /\ h.lots + op.lots >= cache[op.ticket].lots
        /\ h.lots = 0 => h = Nothing
        /\ h.lots > 0 => cache[op.ticket].lots > 0
    BY <1>2, <2>1, NothingHolds DEF Without, Holdings
  <2> HIDE DEF h
  <2>4. Remembered'
    BY <1>1, <1>2, <2>1, <2>2, <2>3 DEF Remembered, Listing
  <2>5. NeverUnderstated'
    BY <1>1, <1>2, <2>1, <2>2, <2>3 DEF NeverUnderstated, Listing
  <2> QED BY <2>4, <2>5
<1>11. CASE /\ ~ApplyLookup /\ ~(FinishTrade /\ (Stores \/ Cuts))
            /\ ~(\E p \in Pollers : ApplyPoll(p))
            /\ ~(Receive /\ Head(net).is = "push" /\ ReadPush(Head(net)) /\ Head(net).pos.lots # 0)
  <2>1. UNCHANGED memory
    BY <1>11 DEF Next, OutsideChange, Relist, AnswerList, ServerTrade, Receive, ReadPush, ReadList,
       ReadResult, StartPoll, PollTimesOut, CallWithLookup, CallAtOnce, LookupTimesOut,
       FinishTrade, memory, vars
  <2> QED BY <1>5, <2>1
<1> QED BY <1>6, <1>7, <1>8, <1>9, <1>10, <1>11

-----------------------------------------------------------------------------
(* Closing.                                                                *)

LEMMA CloseStep ==
  ASSUME Types, OpShape, Enough, Remembered, NeverUnderstated, CloseWhole,
         Types', OpShape', Remembered', NeverUnderstated', opened <= opened', Shrinks, [Next]_vars
  PROVE  CloseWhole'
<1>1. /\ opened \in Nat /\ cache \in Listing /\ held \in Listing /\ held' \in Listing
      /\ cut \in [Tickets -> Nat] /\ op \in Operations
  BY DEF Types
<1>2. \A t \in Tickets : /\ held[t].lots \in Nat /\ held'[t].lots \in Nat
                         /\ cache[t].lots \in Nat /\ cut[t] \in Nat
  BY <1>1, PositionAssumption DEF Listing, Holdings, Lots
<1>3. op.call = "close" => op.ticket \in Tickets /\ op.ticket \in 1..opened /\ op.lots \in Nat
  BY <1>1, PositionAssumption DEF OpShape, Tickets, Types, Operations, Lots
<1>0. op.call \in {"close", "partial", "modify"} => op.ticket \in Tickets
  <2>1. opened \in 0..MaxTickets
    BY DEF Types
  <2> QED BY <2>1, PositionAssumption DEF OpShape, Tickets
<1>4. CASE op' = op /\ UNCHANGED cut
  BY <1>2, <1>3, <1>4 DEF CloseWhole, Shrinks
<1>5. CASE op'.phase # "sent"
  BY <1>5 DEF CloseWhole
<1>6. ASSUME NEW o \in AtOnce, CallAtOnce(o)
      PROVE  CloseWhole'
  <2>1. op' = [o EXCEPT !.phase = "sent"] /\ o \in Operations /\ ~(o.call = "close" /\ o.looked)
    BY <1>6, CallsTyped DEF CallAtOnce
  <2>2. op'.call = o.call /\ op'.looked = o.looked
    BY <2>1 DEF Operations
  <2> QED BY <2>1, <2>2 DEF CloseWhole
<1>7. ASSUME NEW pos \in Holdings, op.call = "close" => pos = Nothing
                                     \/ pos.lots + cut[op.ticket] >= held[op.ticket].lots,
             op' = Look(pos), UNCHANGED <<held, cut>>
      PROVE  CloseWhole'
  <2>1. CASE op.call = "look" \/ pos = Nothing
    BY <1>7, <2>1 DEF Look, NoOp, Call, CloseWhole
  <2>2. CASE ~(op.call = "look" \/ pos = Nothing)
    <3>1. /\ op'.call = op.call /\ op'.ticket = op.ticket
          /\ op.call = "close" => op'.lots = pos.lots
      BY <1>1, <1>7, <2>2 DEF Look, Operations
    <3> QED BY <1>7, <2>2, <3>1 DEF CloseWhole
  <2> QED BY <2>1, <2>2
<1>8. CASE ApplyLookup
  <2> DEFINE list == got["user"]
  <2>1. /\ list \in Listing /\ SaysAll(list) /\ UNCHANGED <<held, cut, opened>>
        /\ op.phase = "looking" /\ op.call \in {"look", "close", "partial", "modify"}
    BY <1>8 DEF ApplyLookup, Resume, Readers, Types, Enough, server, OpShape
  <2>2. CASE op.call = "look"
    BY <1>8, <2>2 DEF ApplyLookup, NoOp, Call, CloseWhole
  <2>3. CASE op.call # "look"
    <3> DEFINE pos == IF list[op.ticket].lots > 0 THEN list[op.ticket] ELSE cache'[op.ticket]
    <3>1. op.ticket \in Tickets
      BY <1>0, <2>1, <2>3
    <3>2. op' = Look(pos)
      BY <1>8, <2>3 DEF ApplyLookup
    <3>3. pos \in Holdings
      BY <2>1, <3>1 DEF Listing, Types
    <3>4. pos = Nothing \/ pos.lots + cut[op.ticket] >= held[op.ticket].lots
      <4>1. CASE list[op.ticket].lots > 0
        <5>1. list[op.ticket].lots >= held[op.ticket].lots /\ list[op.ticket].lots \in Nat
          BY <2>1, <3>1, <4>1, PositionAssumption DEF SaysAll, Says, Listing, Holdings, Lots
        <5> QED BY <1>2, <3>1, <4>1, <5>1
      <4>2. CASE ~(list[op.ticket].lots > 0)
        <5>1. cache'[op.ticket] = Nothing \/ op.ticket \in shown'
          <6>1. cache'[op.ticket].lots \in Nat
            BY <3>1, PositionAssumption DEF Types, Listing, Holdings, Lots
          <6> QED BY <3>1, <6>1 DEF Remembered
        <5>2. op.ticket \in shown' => cache'[op.ticket].lots + cut'[op.ticket] >= held'[op.ticket].lots
          BY DEF NeverUnderstated
        <5> QED BY <2>1, <4>2, <5>1, <5>2
      <4> QED BY <4>1, <4>2
    <3> HIDE DEF pos
    <3> QED BY <1>7, <2>1, <3>2, <3>3, <3>4
  <2> QED BY <2>2, <2>3
<1>9. CASE LookupTimesOut
  <2>1. /\ UNCHANGED <<held, cut, opened>>
        /\ op.phase = "looking" /\ op.call \in {"look", "close", "partial", "modify"}
    BY <1>9 DEF LookupTimesOut, TimesOut, OpShape, server, memory
  <2>2. CASE op.call = "look"
    BY <1>9, <2>2 DEF LookupTimesOut, NoOp, Call, CloseWhole
  <2>3. CASE op.call # "look"
    <3>1. op.ticket \in Tickets
      BY <1>0, <2>1, <2>3
    <3>2. op' = Look(cache[op.ticket]) /\ cache[op.ticket] \in Holdings
      BY <1>1, <1>9, <2>3, <3>1 DEF LookupTimesOut, Listing
    <3>3. cache[op.ticket] = Nothing \/ op.ticket \in shown
      BY <1>2, <3>1 DEF Remembered
    <3>4. cache[op.ticket] = Nothing \/ cache[op.ticket].lots + cut[op.ticket] >= held[op.ticket].lots
      BY <3>3 DEF NeverUnderstated
    <3> QED BY <1>7, <2>1, <3>2, <3>4
  <2> QED BY <2>2, <2>3
<1>10. ASSUME NEW o \in WithLookup, CallWithLookup(o)
       PROVE  op'.phase # "sent"
  BY <1>10, CallsTyped DEF CallWithLookup, Operations
<1>11. CASE ServerTrade \/ FinishTrade \/ (Receive /\ Head(net).is = "result" /\ ReadResult(Head(net)))
  <2>1. CASE ServerTrade
    BY <1>1, <1>5, <2>1 DEF ServerTrade, Operations
  <2>2. CASE FinishTrade
    BY <1>5, <2>2 DEF FinishTrade, NoOp, Call
  <2>3. CASE ReadResult(Head(net))
    BY <1>1, <1>5, <2>3 DEF ReadResult, Operations
  <2> QED BY <1>11, <2>1, <2>2, <2>3
<1>12. CASE /\ ~ServerTrade /\ ~FinishTrade /\ ~ApplyLookup /\ ~LookupTimesOut
            /\ ~(Receive /\ Head(net).is = "result" /\ ReadResult(Head(net)))
            /\ ~(\E o \in WithLookup : CallWithLookup(o)) /\ ~(\E o \in AtOnce : CallAtOnce(o))
  <2>1. op' = op /\ UNCHANGED cut
    BY <1>12 DEF Next, OutsideChange, Relist, AnswerList, Receive, ReadPush, ReadList, StartPoll,
       ApplyPoll, PollTimesOut, memory, vars
  <2> QED BY <1>4, <2>1
<1> QED BY <1>5, <1>6, <1>8, <1>9, <1>10, <1>11, <1>12

-----------------------------------------------------------------------------

LEMMA InitInvariant == Init => IInv
<1> SUFFICES ASSUME Init PROVE IInv
  OBVIOUS
<1>1. Types /\ OpShape
  BY InitTypes
<1>2. PICK h \in {Nothing} \cup {x \in Holdings : x.lots > 0} :
         /\ held = [t \in Tickets |-> IF t = 1 THEN h ELSE Nothing]
         /\ opened = IF h = Nothing THEN 0 ELSE 1
  BY DEF Init
<1>3. Enough
  <2>1. \A t \in Tickets : t \in Nat /\ held[t].lots \in Nat
    BY <1>1, PositionAssumption DEF Types, Listing, Holdings, Lots, Tickets
  <2>2. \A t \in Tickets : held[t] = Nothing \/ t <= opened
    BY <1>2, <2>1
  <2>3. \A t \in Tickets : opened < t => held[t] = Nothing
    BY <1>2, <2>1, PositionAssumption DEF Tickets
  <2>4. SaysAll(listed)
    BY <2>1, <2>2, NothingHolds DEF SaysAll, Says, Init
  <2> QED BY <2>3, <2>4 DEF Enough, Init
<1>4. ResultShape /\ NeverUnderstated /\ CloseWhole
  BY DEF Init, NoOp, Call, ResultShape, NeverUnderstated, CloseWhole
<1>5. Remembered
  BY NothingHolds DEF Init, Remembered
<1> QED BY <1>1, <1>3, <1>4, <1>5 DEF IInv

LEMMA NextInvariant == IInv /\ [Next]_vars => IInv'
<1> SUFFICES ASSUME IInv, [Next]_vars PROVE IInv'
  OBVIOUS
<1>1. Types' /\ OpShape' /\ opened <= opened'
  BY NextTypes DEF IInv
<1>2. Shrinks
  BY HeldStep DEF IInv
<1>3. Enough' /\ ResultShape'
  BY <1>1, EnoughStep, ResultStep DEF IInv
<1>4. Remembered' /\ NeverUnderstated'
  BY <1>1, <1>2, CacheStep DEF IInv
<1>5. CloseWhole'
  BY <1>1, <1>2, <1>4, CloseStep DEF IInv
<1> QED BY <1>1, <1>3, <1>4, <1>5 DEF IInv

(* The invariant behind the promises of the position cache.                *)
THEOREM PositionInvariant == Spec => []IInv
<1>1. Init => IInv
  BY InitInvariant
<1>2. IInv /\ [Next]_vars => IInv'
  BY NextInvariant
<1> QED BY <1>1, <1>2, PTL DEF Spec

(* A position that was shown is never understated by more than             *)
(* partial_close took off its entry.                                       *)
THEOREM PositionsNeverUnderstated == Spec => []NeverUnderstated
<1>1. IInv => NeverUnderstated
  BY DEF IInv
<1> QED BY <1>1, PositionInvariant, PTL

(* close_position after a lookup asks for the whole position or more.      *)
THEOREM ClosesWhole == Spec => []CloseWhole
<1>1. IInv => CloseWhole
  BY DEF IInv
<1> QED BY <1>1, PositionInvariant, PTL

-----------------------------------------------------------------------------
(* Volumes settle.  The last push of a ticket says what the server holds,  *)
(* and of a ticket that the cache has not shown yet, everything under way  *)
(* does once its pushes have been read.                                    *)

PushOf(m, t) == m.is = "push" /\ m.ticket = t

Silent(s, t) == \A n \in 1..Len(s) : s[n].is = "push" => s[n].ticket # t

Current(s, h) ==
    \A n \in 1..Len(s) : s[n].is = "push" =>
        \/ s[n].pos = h[s[n].ticket]
        \/ \E k \in n+1..Len(s) : PushOf(s[k], s[n].ticket)

Hears(m, t) ==
    /\ m.is = "list" => m.list[t].lots = held[t].lots
    /\ m.is = "result" /\ op.call = "buy" => m.ticket # t

Unseen(t) ==
    /\ listed[t].lots = held[t].lots
    /\ \A r \in Readers : got[r] # NoList => got[r][t].lots = held[t].lots
    /\ \A n \in 1..Len(net) : Hears(net[n], t)
    /\ op.phase = "done" /\ op.call = "buy" => op.ticket # t

SInv ==
    /\ \A t \in Tickets : held[t].lots = 0 => held[t] = Nothing
    /\ \A t \in Tickets : t \in shown /\ cache[t] = Nothing => cut[t] > 0
    /\ Current(net, held)
    /\ LotsSettle
    /\ \A t \in Tickets \ shown : held[t] # Nothing /\ Silent(net, t) => Unseen(t)

LEMMA SilentAppend ==
  ASSUME NEW s \in Seq(Messages), NEW m \in Messages, NEW t
  PROVE  Silent(Append(s, m), t) <=> Silent(s, t) /\ ~PushOf(m, t)
<1>1. /\ Len(Append(s, m)) = Len(s) + 1 /\ Append(s, m)[Len(s) + 1] = m
      /\ \A n \in 1..Len(s) : Append(s, m)[n] = s[n] /\ n \in 1..Len(s) + 1
      /\ Len(s) + 1 \in 1..Len(s) + 1
      /\ \A n \in 1..Len(s) + 1 : n \in 1..Len(s) \/ n = Len(s) + 1
  BY AppendElements
<1> HIDE DEF Messages
<1> QED BY <1>1 DEF Silent, PushOf

LEMMA SilentTail ==
  ASSUME NEW s \in Seq(Messages), s # <<>>, NEW t
  PROVE  Silent(s, t) <=> Silent(Tail(s), t) /\ ~PushOf(Head(s), t)
<1>1. /\ Head(s) = s[1] /\ 1 \in 1..Len(s)
      /\ \A n \in 1..Len(Tail(s)) : n + 1 \in 1..Len(s) /\ Tail(s)[n] = s[n + 1]
      /\ Len(Tail(s)) = Len(s) - 1 /\ Len(s) \in Nat
  BY TailElements
<1>2. ASSUME Silent(Tail(s), t), ~PushOf(Head(s), t) PROVE Silent(s, t)
  <2> SUFFICES ASSUME NEW n \in 1..Len(s), s[n].is = "push" PROVE s[n].ticket # t
    BY DEF Silent
  <2>1. CASE n = 1
    BY <1>1, <1>2, <2>1 DEF PushOf
  <2>2. CASE n # 1
    <3>1. n - 1 \in 1..Len(Tail(s)) /\ (n - 1) + 1 = n
      BY <1>1, <2>2
    <3>2. Tail(s)[n - 1] = s[n]
      BY <1>1, <3>1
    <3> QED BY <1>2, <3>1, <3>2 DEF Silent
  <2> QED BY <2>1, <2>2
<1>3. ASSUME Silent(s, t) PROVE Silent(Tail(s), t) /\ ~PushOf(Head(s), t)
  BY <1>1, <1>3 DEF Silent, PushOf
<1> QED BY <1>2, <1>3

LEMMA CurrentTail ==
  ASSUME NEW s \in Seq(Messages), s # <<>>, NEW h, Current(s, h)
  PROVE  /\ Current(Tail(s), h)
         /\ \A t : PushOf(Head(s), t) /\ Silent(Tail(s), t) => Head(s).pos = h[t]
<1>1. /\ Head(s) = s[1] /\ 1 \in 1..Len(s)
      /\ \A n \in 1..Len(Tail(s)) : n + 1 \in 1..Len(s) /\ Tail(s)[n] = s[n + 1]
      /\ Len(Tail(s)) = Len(s) - 1 /\ Len(s) \in Nat
  BY TailElements
<1>2. \A n \in 0..Len(Tail(s)) : \A k \in (n+1)+1..Len(s) :
         k - 1 \in n+1..Len(Tail(s)) /\ k - 1 \in 1..Len(Tail(s)) /\ Tail(s)[k - 1] = s[k]
  <2> SUFFICES ASSUME NEW n \in 0..Len(Tail(s)), NEW k \in (n+1)+1..Len(s)
               PROVE  k - 1 \in n+1..Len(Tail(s)) /\ k - 1 \in 1..Len(Tail(s)) /\ Tail(s)[k - 1] = s[k]
    OBVIOUS
  <2>1. k - 1 \in n+1..Len(Tail(s)) /\ k - 1 \in 1..Len(Tail(s)) /\ (k - 1) + 1 = k
    BY <1>1
  <2> QED BY <1>1, <2>1
<1>3. Current(Tail(s), h)
  <2> SUFFICES ASSUME NEW n \in 1..Len(Tail(s)), Tail(s)[n].is = "push",
                      Tail(s)[n].pos # h[Tail(s)[n].ticket]
               PROVE  \E k \in n+1..Len(Tail(s)) : PushOf(Tail(s)[k], Tail(s)[n].ticket)
    BY DEF Current
  <2>1. n + 1 \in 1..Len(s) /\ Tail(s)[n] = s[n + 1]
    BY <1>1
  <2>2. PICK k \in (n+1)+1..Len(s) : PushOf(s[k], s[n + 1].ticket)
    BY <2>1 DEF Current
  <2>3. n \in 0..Len(Tail(s))
    OBVIOUS
  <2>4. k - 1 \in n+1..Len(Tail(s)) /\ Tail(s)[k - 1] = s[k]
    BY <1>2, <2>3
  <2> QED BY <2>1, <2>2, <2>4
<1>4. ASSUME NEW t, PushOf(Head(s), t), Silent(Tail(s), t) PROVE Head(s).pos = h[t]
  <2>1. s[1].is = "push" /\ s[1].ticket = t
    BY <1>1, <1>4 DEF PushOf
  <2>2. ASSUME NEW k \in 1+1..Len(s), PushOf(s[k], t) PROVE FALSE
    <3>1. 0 \in 0..Len(Tail(s)) /\ k \in (0+1)+1..Len(s)
      BY <1>1
    <3>2. k - 1 \in 1..Len(Tail(s)) /\ Tail(s)[k - 1] = s[k]
      BY <1>2, <3>1
    <3> QED BY <1>4, <2>2, <3>2 DEF Silent, PushOf
  <2> QED BY <1>1, <2>1, <2>2 DEF Current
<1> QED BY <1>3, <1>4

LEMMA CurrentAppend ==
  ASSUME NEW s \in Seq(Messages), NEW m \in Messages, NEW h, NEW g,
         \/ Current(s, h) /\ m.is # "push" /\ g = h
         \/ \E t \in Tickets : /\ m = Push(t, g[t])
                               /\ Current(s, h)
                               /\ \A u \in Tickets \ {t} : g[u] = h[u]
  PROVE  Current(Append(s, m), g)
<1>1. /\ Len(Append(s, m)) = Len(s) + 1 /\ Append(s, m)[Len(s) + 1] = m
      /\ \A n \in 1..Len(s) : Append(s, m)[n] = s[n]
      /\ Len(s) \in Nat
  BY AppendElements
<1> SUFFICES ASSUME NEW n \in 1..Len(Append(s, m)), Append(s, m)[n].is = "push"
             PROVE  \/ Append(s, m)[n].pos = g[Append(s, m)[n].ticket]
                    \/ \E k \in n+1..Len(Append(s, m)) : PushOf(Append(s, m)[k], Append(s, m)[n].ticket)
  BY DEF Current
<1>2. CASE n = Len(s) + 1
  BY <1>1, <1>2 DEF Push
<1>3. CASE n \in 1..Len(s)
  <2>1. Append(s, m)[n] = s[n] /\ s[n].is = "push" /\ s[n] \in Messages
    BY <1>1, <1>3
  <2>2. CASE s[n].pos = h[s[n].ticket]
    <3>1. CASE g = h
      BY <2>1, <2>2, <3>1
    <3>2. ASSUME NEW t \in Tickets, m = Push(t, g[t]), \A u \in Tickets \ {t} : g[u] = h[u]
          PROVE  \/ s[n].pos = g[s[n].ticket]
                 \/ \E k \in n+1..Len(Append(s, m)) : PushOf(Append(s, m)[k], s[n].ticket)
      <4>1. s[n].ticket \in Tickets
        BY <2>1, MessageFields
      <4>2. CASE s[n].ticket = t
        <5>1. PushOf(Append(s, m)[Len(s) + 1], s[n].ticket) /\ Len(s) + 1 \in n+1..Len(Append(s, m))
          BY <1>1, <1>3, <3>2, <4>2 DEF PushOf, Push
        <5> QED BY <5>1
      <4>3. CASE s[n].ticket # t
        BY <2>2, <3>2, <4>1, <4>3
      <4> QED BY <4>2, <4>3
    <3> QED BY <2>1, <3>1, <3>2
  <2>3. CASE s[n].pos # h[s[n].ticket]
    <3>1. PICK k \in n+1..Len(s) : PushOf(s[k], s[n].ticket)
      BY <1>3, <2>1, <2>3 DEF Current
    <3>2. k \in n+1..Len(Append(s, m)) /\ Append(s, m)[k] = s[k]
      BY <1>1, <1>3
    <3> QED BY <2>1, <3>1, <3>2
  <2> QED BY <2>2, <2>3
<1> QED BY <1>1, <1>2, <1>3

LEMMA PairAppends ==
  ASSUME NEW s \in Seq(Messages), NEW a \in Messages, NEW b \in Messages
  PROVE  s \o <<a, b>> = Append(Append(s, a), b) /\ Append(s, a) \in Seq(Messages)
  OBVIOUS

(* A step that leaves the positions and the cache's volumes alone.         *)
LEMMA SettleKept ==
  ASSUME SInv, held' = held, UNCHANGED <<shown, cut, rewritten>>, Current(net', held),
         \A t \in Tickets : /\ cache'[t].lots = cache[t].lots
                            /\ cache'[t] = Nothing => cache[t] = Nothing
                            /\ held[t] # Nothing /\ Silent(net', t) => Silent(net, t)
                            /\ held[t] # Nothing /\ Silent(net, t) /\ Unseen(t) => Unseen(t)',
         shown \subseteq Tickets
  PROVE  SInv'
<1>1. LotsSettle'
  <2>1. \A t \in shown \ rewritten : held[t] # Nothing /\ cut[t] = 0 /\ Silent(net, t)
           => cache[t].lots = held[t].lots
    BY DEF SInv, LotsSettle, Silent
  <2>2. \A t \in shown \ rewritten : held[t] # Nothing /\ cut[t] = 0 /\ Silent(net', t)
           => cache'[t].lots = held[t].lots
    BY <2>1
  <2> QED BY <2>2 DEF LotsSettle, Silent
<1>2. \A t \in Tickets \ shown : held[t] # Nothing /\ Silent(net', t) => Unseen(t)'
  BY DEF SInv
<1>3. (\A t \in Tickets \ shown : held[t] # Nothing /\ Silent(net, t) => Unseen(t))'
  BY <1>2
<1>4. Current(net, held)'
  OBVIOUS
<1> QED BY <1>1, <1>3, <1>4 DEF SInv

(* A change of one position, announced by a push.                          *)
LEMMA SettleChanged ==
  ASSUME SInv, NEW t \in Tickets, \A u \in Tickets \ {t} : held'[u] = held[u],
         held'[t].lots = 0 => held'[t] = Nothing,
         UNCHANGED memory, Current(net', held'), ~Silent(net', t),
         \A u \in Tickets : Silent(net', u) => Silent(net, u),
         \A u \in Tickets \ {t} : Unseen(u) => Unseen(u)',
         shown \subseteq Tickets
  PROVE  SInv'
<1>1. LotsSettle'
  <2>1. \A u \in shown \ rewritten : held[u] # Nothing /\ cut[u] = 0 /\ Silent(net, u)
           => cache[u].lots = held[u].lots
    BY DEF SInv, LotsSettle, Silent
  <2>2. \A u \in shown' \ rewritten' : held'[u] # Nothing /\ cut'[u] = 0 /\ Silent(net', u)
           => cache'[u].lots = held'[u].lots
    BY <2>1 DEF memory
  <2> QED BY <2>2 DEF LotsSettle, Silent
<1>2. \A u \in Tickets \ shown' : held'[u] # Nothing /\ Silent(net', u) => Unseen(u)'
  BY DEF SInv, memory
<1>3. (\A u \in Tickets \ shown : held[u] # Nothing /\ Silent(net, u) => Unseen(u))'
  BY <1>2
<1>4. Current(net, held)'
  OBVIOUS
<1>5. /\ \A u \in Tickets : held'[u].lots = 0 => held'[u] = Nothing
      /\ \A u \in Tickets : u \in shown' /\ cache'[u] = Nothing => cut'[u] > 0
  BY DEF SInv, memory
<1> QED BY <1>1, <1>3, <1>4, <1>5 DEF SInv

(* After the step.                                                         *)
WillHear(m, t) ==
    /\ m.is = "list" => m.list[t].lots = held'[t].lots
    /\ m.is = "result" /\ op'.call = "buy" => m.ticket # t

LEMMA UnseenKept ==
  ASSUME NEW t \in Tickets, Unseen(t), net \in Seq(Messages), held'[t] = held[t],
         op'.call = op.call \/ \A n \in 1..Len(net) : net[n].is # "result",
         \/ net' = net
         \/ net # <<>> /\ net' = Tail(net)
         \/ \E m \in Messages : net' = Append(net, m) /\ WillHear(m, t)
         \/ \E a, b \in Messages : net' = net \o <<a, b>> /\ WillHear(a, t) /\ WillHear(b, t),
         listed' = listed \/ listed'[t].lots = held[t].lots,
         \A r \in Readers : got'[r] # NoList => got'[r] = got[r] \/ got'[r][t].lots = held[t].lots,
         op' = op \/ (op'.phase = "done" /\ op'.call = "buy" => op'.ticket # t)
  PROVE  Unseen(t)'
<1>1. \A n \in 1..Len(net) : WillHear(net[n], t)
  BY DEF Unseen, Hears, WillHear
<1>2. \A n \in 1..Len(net') : WillHear(net'[n], t)
  <2>1. CASE net' = net
    BY <1>1, <2>1
  <2>2. CASE net # <<>> /\ net' = Tail(net)
    BY <1>1, <2>2, TailElements
  <2>3. ASSUME NEW m \in Messages, net' = Append(net, m), WillHear(m, t)
        PROVE  \A n \in 1..Len(net') : WillHear(net'[n], t)
    <3>1. /\ Len(net') = Len(net) + 1 /\ net'[Len(net) + 1] = m
          /\ \A n \in 1..Len(net) : net'[n] = net[n]
      BY <2>3, AppendElements
    <3> QED BY <1>1, <2>3, <3>1
  <2>4. ASSUME NEW a \in Messages, NEW b \in Messages, net' = net \o <<a, b>>,
               WillHear(a, t), WillHear(b, t)
        PROVE  \A n \in 1..Len(net') : WillHear(net'[n], t)
    <3>1. /\ Len(net') = Len(net) + 2 /\ net'[Len(net) + 1] = a /\ net'[Len(net) + 2] = b
          /\ \A n \in 1..Len(net) : net'[n] = net[n]
      BY <2>4, PairElements
    <3> QED BY <1>1, <2>4, <3>1
  <2> QED BY <2>1, <2>2, <2>3, <2>4
<1>3. \A r \in Readers : got'[r] # NoList => got'[r][t].lots = held'[t].lots
  BY DEF Unseen
<1>4. listed'[t].lots = held'[t].lots
  BY DEF Unseen
<1>5. op'.phase = "done" /\ op'.call = "buy" => op'.ticket # t
  BY DEF Unseen
<1> QED BY <1>2, <1>3, <1>4, <1>5 DEF Unseen, Hears, WillHear

LEMMA SettleStep ==
  ASSUME IInv, SInv, IInv', [Next]_vars
  PROVE  SInv'
<1>1. /\ net \in Seq(Messages) /\ shown \subseteq Tickets /\ cache \in Listing /\ held \in Listing
      /\ held' \in Listing /\ op \in Operations /\ cut \in [Tickets -> Nat] /\ Types /\ Current(net, held)
      /\ op' \in Operations
  BY DEF IInv, Types, SInv
<1>2. \A t \in Tickets : /\ held[t].lots \in Nat /\ cache[t].lots \in Nat /\ cut[t] \in Nat
  BY <1>1, PositionAssumption DEF Listing, Holdings, Lots
<1>3. CASE ServerTrade
  <2>1. /\ \/ net' = Append(net, Result(0, FALSE)) /\ UNCHANGED held
           \/ \E t \in Tickets : Traded(t)
        /\ op' = [op EXCEPT !.phase = "taken"] /\ UNCHANGED <<listed, reading, memory>>
    BY <1>3, TradeEffect DEF IInv
  <2>2. op'.phase = "taken" /\ op'.call = op.call
    BY <1>1, <2>1 DEF Operations
  <2>3. CASE net' = Append(net, Result(0, FALSE)) /\ UNCHANGED held
    <3> DEFINE m == Result(0, FALSE)
    <3>1. m \in Messages /\ m.is = "result" /\ m.ticket = 0 /\ \A t \in Tickets : ~PushOf(m, t)
      BY MakesMessages DEF Result, PushOf
    <3> HIDE DEF m
    <3>2. Current(net', held)
      BY <1>1, <2>3, <3>1, CurrentAppend DEF m
    <3>3. \A t \in Tickets : Silent(net', t) => Silent(net, t)
      BY <1>1, <2>3, <3>1, SilentAppend DEF m
    <3>4. ASSUME NEW t \in Tickets, Unseen(t) PROVE Unseen(t)'
      <4>0. t # 0
        BY PositionAssumption DEF Tickets
      <4>1. WillHear(m, t) /\ net' = Append(net, m)
        BY <2>3, <3>1, <4>0 DEF WillHear, m
      <4> QED BY <1>1, <2>1, <2>2, <2>3, <3>1, <3>4, <4>1, UnseenKept DEF reading
    <3> QED BY <1>1, <2>1, <2>3, <3>2, <3>3, <3>4, SettleKept DEF memory
  <2>4. ASSUME NEW t \in Tickets, Traded(t) PROVE SInv'
    <3> DEFINE a == Push(t, held'[t])
               b == Result(t, TRUE)
    <3>1. /\ a \in Messages /\ b \in Messages /\ b.is = "result" /\ b.ticket = t /\ a.is = "push"
          /\ \A u \in Tickets : (PushOf(a, u) <=> u = t) /\ ~PushOf(b, u)
      BY <1>1, MakesMessages DEF Listing, Result, Push, PushOf
    <3>2. /\ net' = net \o <<a, b>> \/ net' = net \o <<b, a>>
          /\ \A u \in Tickets \ {t} : held'[u] = held[u]
          /\ held'[t].lots = 0 => held'[t] = Nothing
      BY <2>4 DEF Traded
    <3>3. \A s \in Seq(Messages) : Current(s, held) => Current(Append(s, a), held')
      <4> SUFFICES ASSUME NEW s \in Seq(Messages), Current(s, held)
                   PROVE  Current(Append(s, a), held')
        OBVIOUS
      <4>1. a = Push(t, held'[t])
        OBVIOUS
      <4> HIDE DEF a, b
      <4> QED BY <3>1, <3>2, <4>1, CurrentAppend
    <3> HIDE DEF a, b
    <3>4. ASSUME NEW s \in Seq(Messages), NEW h, Current(s, h)
          PROVE  Current(Append(s, b), h)
      <4>1. b \in Messages /\ b.is # "push"
        BY <3>1
      <4> QED BY <3>4, <4>1, CurrentAppend
    <3>5. /\ net' = Append(Append(net, a), b) \/ net' = Append(Append(net, b), a)
          /\ Append(net, a) \in Seq(Messages) /\ Append(net, b) \in Seq(Messages)
      BY <1>1, <3>1, <3>2, PairAppends
    <3>6. Current(net', held')
      BY <1>1, <3>3, <3>4, <3>5
    <3>7. /\ ~Silent(net', t)
          /\ \A u \in Tickets : Silent(net', u) => Silent(net, u)
      <4>1. ASSUME NEW u \in Tickets
            PROVE  Silent(net', u) => Silent(net, u) /\ ~PushOf(a, u)
        <5>1. /\ Silent(Append(net, a), u) <=> Silent(net, u) /\ ~PushOf(a, u)
              /\ Silent(Append(net, b), u) <=> Silent(net, u) /\ ~PushOf(b, u)
          BY <1>1, <3>1, SilentAppend
        <5>2. /\ Silent(Append(Append(net, a), b), u) <=> Silent(Append(net, a), u) /\ ~PushOf(b, u)
              /\ Silent(Append(Append(net, b), a), u) <=> Silent(Append(net, b), u) /\ ~PushOf(a, u)
          BY <3>1, <3>5, SilentAppend
        <5> QED BY <3>5, <5>1, <5>2
      <4>2. PushOf(a, t)
        BY <3>1
      <4> QED BY <4>1, <4>2
    <3>8. ASSUME NEW u \in Tickets \ {t}, Unseen(u) PROVE Unseen(u)'
      <4>1. WillHear(a, u) /\ WillHear(b, u)
        BY <3>1, <3>8 DEF WillHear
      <4>2. \E x, y \in Messages : net' = net \o <<x, y>> /\ WillHear(x, u) /\ WillHear(y, u)
        BY <3>1, <3>2, <4>1
      <4> QED BY <1>1, <2>1, <2>2, <3>2, <3>8, <4>2, UnseenKept DEF reading
    <3> QED BY <1>1, <2>1, <3>2, <3>6, <3>7, <3>8, SettleChanged
  <2> QED BY <2>1, <2>3, <2>4
<1>4. ASSUME NEW t \in Tickets, NEW h \in Holdings, OutsideChange(t, h)
      PROVE  SInv'
  <2> DEFINE m == Push(t, held'[t])
  <2>1. /\ m \in Messages /\ net' = Append(net, m) /\ PushOf(m, t)
        /\ \A u \in Tickets \ {t} : held'[u] = held[u]
        /\ held'[t].lots = 0 => held'[t] = Nothing
        /\ UNCHANGED <<listed, reading, memory, op>>
        /\ \A u \in Tickets \ {t} : ~PushOf(m, u)
    BY <1>4, OutsideEffect, MakesMessages DEF IInv, PushOf, Push
  <2>2. Current(net', held')
    BY <1>1, <2>1, CurrentAppend
  <2> HIDE DEF m
  <2>3. /\ ~Silent(net', t)
        /\ \A u \in Tickets : Silent(net', u) => Silent(net, u)
    BY <1>1, <2>1, SilentAppend
  <2>4. ASSUME NEW u \in Tickets \ {t}, Unseen(u) PROVE Unseen(u)'
    <3>1. WillHear(m, u)
      BY <2>1 DEF PushOf, WillHear
    <3> QED BY <1>1, <2>1, <2>4, <3>1, UnseenKept DEF reading
  <2> QED BY <1>1, <2>1, <2>2, <2>3, <2>4, SettleChanged
<1>5. CASE AnswerList
  <2> DEFINE m == List(listed)
  <2>1. /\ m \in Messages /\ net' = Append(net, m) /\ m.is = "list" /\ m.list = listed
        /\ \A u \in Tickets : ~PushOf(m, u)
        /\ UNCHANGED <<held, listed, reading, memory, op>>
    BY <1>1, <1>5, MakesMessages DEF AnswerList, List, PushOf, Types, server
  <2> HIDE DEF m
  <2>2. Current(net', held) /\ \A t \in Tickets : Silent(net', t) => Silent(net, t)
    BY <1>1, <2>1, CurrentAppend, SilentAppend
  <2>3. ASSUME NEW u \in Tickets, Unseen(u) PROVE Unseen(u)'
    <3>1. WillHear(m, u)
      BY <2>1, <2>3 DEF WillHear, Unseen
    <3> QED BY <1>1, <2>1, <2>3, <3>1, UnseenKept DEF reading
  <2> QED BY <1>1, <2>1, <2>2, <2>3, SettleKept DEF memory
<1>6. CASE Relist
  <2>1. listed' = held /\ UNCHANGED <<held, net, reading, memory, op>>
    BY <1>6 DEF Relist
  <2>2. ASSUME NEW u \in Tickets, Unseen(u) PROVE Unseen(u)'
    BY <1>1, <2>1, <2>2, UnseenKept DEF reading
  <2> QED BY <1>1, <2>1, <2>2, SettleKept DEF memory
<1>7. CASE Receive
  <2> DEFINE m == Head(net)
  <2>1. /\ net # <<>> /\ net' = Tail(net) /\ UNCHANGED <<opened, held, listed>>
        /\ m \in Messages /\ m = net[1] /\ 1 \in 1..Len(net)
    BY <1>1, <1>7, TailElements DEF Receive, server
  <2>2. /\ Current(net', held)
        /\ \A t \in Tickets : Silent(net, t) <=> Silent(net', t) /\ ~PushOf(m, t)
        /\ \A t \in Tickets : PushOf(m, t) /\ Silent(net', t) => m.pos = held[t]
    BY <1>1, <2>1, CurrentTail, SilentTail
  <2>3. CASE m.is = "push" /\ ReadPush(m) /\ m.pos.lots = 0
    <3>1. UNCHANGED <<memory, reading, op>>
      BY <2>3 DEF ReadPush
    <3>2. \A t \in Tickets : held[t] # Nothing /\ Silent(net', t) => Silent(net, t)
      BY <2>2, <2>3 DEF SInv
    <3>3. ASSUME NEW u \in Tickets, Unseen(u) PROVE Unseen(u)'
      BY <1>1, <2>1, <3>1, <3>3, UnseenKept DEF reading
    <3> QED BY <1>1, <2>1, <2>2, <3>1, <3>2, <3>3, SettleKept DEF memory
  <2>4. CASE m.is = "push" /\ ReadPush(m) /\ m.pos.lots # 0
    <3> DEFINE t == m.ticket
    <3>1. /\ t \in Tickets /\ m.pos \in Holdings /\ cache' = [cache EXCEPT ![t] = m.pos]
          /\ shown' = shown \cup {t} /\ UNCHANGED <<cut, rewritten, op>>
          /\ UNCHANGED got \/ got' = [got EXCEPT !["extra"] = NoList]
      BY <2>1, <2>4, MessageFields DEF ReadPush, Show, Ask, reading
    <3>2. /\ cache'[t] = m.pos /\ m.pos # Nothing
          /\ \A u \in Tickets \ {t} : cache'[u] = cache[u] /\ ~PushOf(m, u)
          /\ PushOf(m, t)
      BY <1>1, <2>4, <3>1, NothingHolds DEF Listing, PushOf
    <3> HIDE DEF t
    <3>3. LotsSettle'
      <4>1. \A u \in shown \ rewritten : held[u] # Nothing /\ cut[u] = 0 /\ Silent(net, u)
               => cache[u].lots = held[u].lots
        BY DEF SInv, LotsSettle, Silent
      <4>2. \A u \in shown' \ rewritten' : held[u] # Nothing /\ cut[u] = 0 /\ Silent(net', u)
               => cache'[u].lots = held[u].lots
        BY <1>1, <2>2, <3>1, <3>2, <4>1
      <4> QED BY <2>1, <3>1, <4>2 DEF LotsSettle, Silent
    <3>4. ASSUME NEW u \in Tickets \ shown', held[u] # Nothing, Silent(net', u)
          PROVE  Unseen(u)'
      <4>1. Unseen(u)
        BY <2>2, <3>1, <3>2, <3>4 DEF SInv
      <4>2. \A r \in Readers : got'[r] # NoList => got'[r] = got[r]
        BY <3>1 DEF Types, IInv
      <4> QED BY <1>1, <2>1, <3>1, <4>1, <4>2, UnseenKept
    <3>5. (\A u \in Tickets \ shown : held[u] # Nothing /\ Silent(net, u) => Unseen(u))'
      BY <2>1, <3>4
    <3>6. \A u \in Tickets : u \in shown' /\ cache'[u] = Nothing => cut'[u] > 0
      BY <3>1, <3>2 DEF SInv
    <3>7. Current(net, held)' /\ \A u \in Tickets : held'[u].lots = 0 => held'[u] = Nothing
      BY <2>1, <2>2 DEF SInv
    <3> QED BY <3>3, <3>5, <3>6, <3>7 DEF SInv
  <2>5. CASE m.is = "list" /\ ReadList(m)
    <3>1. /\ UNCHANGED <<memory, op>> /\ \A u \in Tickets : ~PushOf(m, u)
          /\ \A r \in Readers : got'[r] = got[r] \/ got'[r] = m.list
      BY <2>5 DEF ReadList, PushOf, Types, IInv
    <3>3. ASSUME NEW u \in Tickets, Unseen(u) PROVE Unseen(u)'
      <4>1. m.list[u].lots = held[u].lots
        BY <2>1, <2>5, <3>3 DEF Unseen, Hears
      <4> QED BY <1>1, <2>1, <3>1, <3>3, <4>1, UnseenKept
    <3> QED BY <1>1, <2>1, <2>2, <3>1, <3>3, SettleKept DEF memory
  <2>6. CASE m.is = "result" /\ ReadResult(m)
    <3>1. /\ UNCHANGED <<memory, reading>> /\ \A u \in Tickets : ~PushOf(m, u)
          /\ op' = [op EXCEPT !.phase = IF m.done THEN "done" ELSE "refused",
                              !.ticket = IF m.done THEN m.ticket ELSE @]
      BY <2>6 DEF ReadResult, PushOf
    <3>2. /\ op'.call = op.call /\ op'.phase = "done" => m.done /\ op'.ticket = m.ticket
      BY <1>1, <3>1 DEF Operations
    <3>3. ASSUME NEW u \in Tickets, Unseen(u) PROVE Unseen(u)'
      <4>1. op.call = "buy" => m.ticket # u
        BY <2>1, <2>6, <3>3 DEF Unseen, Hears
      <4> QED BY <1>1, <2>1, <3>1, <3>2, <3>3, <4>1, UnseenKept DEF reading
    <3> QED BY <1>1, <2>1, <2>2, <3>1, <3>3, SettleKept DEF memory
  <2> QED BY <1>7, <2>3, <2>4, <2>5, <2>6 DEF Receive
<1>8. ASSUME UNCHANGED <<held, listed, net, shown, cut, rewritten>>,
             \A t \in Tickets : /\ cache'[t].lots = cache[t].lots
                                /\ cache'[t] = Nothing => cache[t] = Nothing,
             \A r \in Readers : got'[r] # NoList => got'[r] = got[r],
             op' = op \/ (op'.phase # "done" /\ op.phase # "taken")
      PROVE  SInv'
  <2>1. op' = op \/ \A n \in 1..Len(net) : net[n].is # "result"
    BY <1>8, NoResult DEF IInv
  <2>2. ASSUME NEW u \in Tickets, Unseen(u) PROVE Unseen(u)'
    BY <1>1, <1>8, <2>1, <2>2, UnseenKept
  <2> QED BY <1>1, <1>8, <2>2, SettleKept
<1>9. ASSUME NEW p \in Pollers, StartPoll(p) \/ PollTimesOut(p) PROVE SInv'
  <2>1. /\ UNCHANGED <<held, listed, net, shown, cut, rewritten, cache, op>>
        /\ \A r \in Readers : got'[r] # NoList => got'[r] = got[r]
    BY <1>9 DEF StartPoll, PollTimesOut, TimesOut, Ask, Types, IInv, server, memory
  <2> QED BY <1>8, <2>1
<1>10. ASSUME NEW p \in Pollers, ApplyPoll(p) PROVE SInv'
  <2>1. /\ UNCHANGED <<held, listed, net, shown, cut, rewritten, op>>
        /\ \A r \in Readers : got'[r] # NoList => got'[r] = got[r]
    BY <1>10 DEF ApplyPoll, Resume, Types, IInv, server
  <2>2. ASSUME NEW t \in Tickets
        PROVE  /\ cache'[t].lots = cache[t].lots
               /\ cache'[t] = Nothing => cache[t] = Nothing
    <3> DEFINE g == [cache[t] EXCEPT !.stop = got[p][t].stop]
    <3>1. cache'[t] = IF cache[t].lots > 0 /\ got[p][t].lots > 0 THEN g ELSE cache[t]
      BY <1>10 DEF ApplyPoll
    <3>2. g.lots = cache[t].lots
      BY <1>1 DEF Listing, Holdings
    <3> HIDE DEF g
    <3> QED BY <1>2, <3>1, <3>2, NothingHolds
  <2> QED BY <1>8, <2>1, <2>2
<1>11. ASSUME NEW o \in WithLookup, CallWithLookup(o) PROVE SInv'
  <2>1. /\ UNCHANGED <<held, listed, net, shown, cut, rewritten, cache>>
        /\ \A r \in Readers : got'[r] # NoList => got'[r] = got[r]
        /\ op.phase # "taken"
    BY <1>11 DEF CallWithLookup, Ask, Types, IInv, server, memory
  <2>2. op'.phase # "done"
    BY <1>11, CallsTyped DEF CallWithLookup, Operations
  <2> QED BY <1>8, <2>1, <2>2
<1>12. ASSUME NEW o \in AtOnce, CallAtOnce(o) PROVE SInv'
  <2>1. /\ UNCHANGED <<held, listed, net, shown, cut, rewritten, cache, got>>
        /\ op.phase # "taken"
    BY <1>12 DEF CallAtOnce, server, memory, reading
  <2>2. op'.phase # "done"
    BY <1>12, CallsTyped DEF CallAtOnce, Operations
  <2> QED BY <1>8, <2>1, <2>2
<1>13. ASSUME ApplyLookup \/ LookupTimesOut
       PROVE  op.phase # "taken" /\ op'.phase # "done"
  <2>1. op.phase = "looking"
    BY <1>13 DEF ApplyLookup, LookupTimesOut, Resume, TimesOut, OpShape, IInv
  <2>2. op' = NoOp \/ op'.phase = "sent"
    BY <1>1, <1>13 DEF ApplyLookup, LookupTimesOut, Look, Operations
  <2> QED BY <2>1, <2>2 DEF NoOp, Call
<1>14. CASE LookupTimesOut
  <2>1. UNCHANGED <<held, listed, net, shown, cut, rewritten, cache, got>>
    BY <1>14 DEF LookupTimesOut, TimesOut, server, memory
  <2> QED BY <1>8, <1>13, <1>14, <2>1
<1>15. CASE ApplyLookup
  <2> DEFINE list == got["user"]
             new == {t \in Tickets : cache[t] = Nothing /\ list[t].lots > 0}
  <2>1. /\ UNCHANGED <<held, listed, net, cut, rewritten>> /\ list # NoList /\ "user" \in Readers
        /\ shown' = shown \cup new /\ cache' = [t \in Tickets |-> IF t \in new THEN list[t] ELSE cache[t]]
        /\ \A r \in Readers : got'[r] # NoList => got'[r] = got[r]
    BY <1>1, <1>15 DEF ApplyLookup, Resume, Types, server, Readers
  <2>2. /\ \A t \in Tickets : cache'[t] = IF t \in new THEN list[t] ELSE cache[t]
        /\ \A t \in new : cache[t] = Nothing /\ list[t].lots > 0 /\ t \in Tickets
    BY <2>1
  <2> HIDE DEF new, list
  <2>3. \A n \in 1..Len(net) : net[n].is # "result"
    BY <1>13, <1>15, NoResult DEF IInv
  <2>4. \A u \in Tickets : Unseen(u) => list[u].lots = held[u].lots
    BY <2>1 DEF Unseen, list
  <2>5. LotsSettle'
    <3>1. \A u \in shown \ rewritten : held[u] # Nothing /\ cut[u] = 0 /\ Silent(net, u)
             => cache[u].lots = held[u].lots
      BY DEF SInv, LotsSettle, Silent
    <3>2. ASSUME NEW u \in shown' \ rewritten, held[u] # Nothing, cut[u] = 0, Silent(net, u)
          PROVE  cache'[u].lots = held[u].lots
      <4>1. CASE u \in new /\ u \in shown
        BY <1>2, <2>2, <3>2, <4>1 DEF SInv
      <4>2. CASE u \in new /\ u \notin shown
        BY <2>2, <2>4, <3>2, <4>2 DEF SInv
      <4>3. CASE u \notin new
        BY <1>1, <2>1, <2>2, <3>1, <3>2, <4>3
      <4> QED BY <4>1, <4>2, <4>3
    <3> QED BY <2>1, <3>2 DEF LotsSettle, Silent
  <2>6. ASSUME NEW u \in Tickets \ shown', held[u] # Nothing, Silent(net, u)
        PROVE  Unseen(u)'
    <3>1. Unseen(u)
      BY <2>1, <2>6 DEF SInv
    <3> QED BY <1>1, <1>13, <1>15, <2>1, <2>3, <3>1, UnseenKept
  <2>7. (\A u \in Tickets \ shown : held[u] # Nothing /\ Silent(net, u) => Unseen(u))'
    BY <2>1, <2>6
  <2>8. \A u \in Tickets : u \in shown' /\ cache'[u] = Nothing => cut'[u] > 0
    BY <2>1, <2>2, NothingHolds DEF SInv
  <2>9. Current(net, held)' /\ \A u \in Tickets : held'[u].lots = 0 => held'[u] = Nothing
    BY <1>1, <2>1 DEF SInv
  <2> QED BY <2>5, <2>7, <2>8, <2>9 DEF SInv
<1>16. CASE FinishTrade
  <2> DEFINE t == op.ticket
  <2>1. /\ UNCHANGED <<held, listed, net, got>> /\ op' = NoOp /\ op.phase # "taken" /\ op'.phase # "done"
    BY <1>16 DEF FinishTrade, server, reading, NoOp, Call
  <2>2. \A n \in 1..Len(net) : net[n].is # "result"
    BY <2>1, NoResult DEF IInv
  <2>3. CASE ~Stores /\ ~Cuts
    <3>1. UNCHANGED memory
      BY <1>16, <2>3 DEF FinishTrade
    <3> QED BY <1>8, <2>1, <3>1 DEF memory
  <2>4. CASE Stores \/ Cuts
    <3>1. /\ t \in Tickets /\ shown \subseteq shown' /\ shown' \subseteq shown \cup {t}
          /\ rewritten \subseteq rewritten' /\ \A u \in Tickets \ {t} : cache'[u] = cache[u] /\ cut'[u] = cut[u]
          /\ \/ Stores /\ cache'[t] # Nothing /\ cut'[t] = cut[t] /\ (cache[t] # Nothing => t \in rewritten')
             \/ Cuts /\ cut'[t] > 0 /\ shown' = shown
      <4>0. op.ticket \in 1..opened /\ opened \in 0..MaxTickets
        BY <1>16, <2>4 DEF Stores, Cuts, OpShape, Types, IInv
      <4>1. t \in Tickets
        BY <4>0, PositionAssumption DEF Tickets
      <4>2. CASE Stores
        <5>1. /\ cache' = [cache EXCEPT ![t] = [lots |-> op.lots, stop |-> 0]]
              /\ shown' = shown \cup {t} /\ UNCHANGED cut
              /\ rewritten' = IF cache[t] = Nothing THEN rewritten ELSE rewritten \cup {t}
          BY <1>16, <4>2 DEF FinishTrade, Stores, Cuts, Show
        <5>2. op.lots > 0
          BY <4>2 DEF Stores, OpShape, IInv
        <5>3. [lots |-> op.lots, stop |-> 0] # Nothing
          BY <5>2 DEF Nothing
        <5> HIDE DEF t
        <5> QED BY <1>1, <4>1, <4>2, <5>1, <5>3 DEF Listing
      <4>3. CASE Cuts
        <5>1. /\ \E h : cache' = [cache EXCEPT ![t] = h]
              /\ cut' = [cut EXCEPT ![t] = @ + op.lots] /\ UNCHANGED <<shown, rewritten>>
          BY <1>16, <4>3 DEF FinishTrade, Stores, Cuts
        <5>2. op.lots > 0 /\ op.lots \in Nat
          BY <1>1, <4>3, PositionAssumption DEF Cuts, OpShape, IInv, Operations, Lots
        <5> HIDE DEF t
        <5> QED BY <1>1, <1>2, <4>1, <4>3, <5>1, <5>2 DEF Listing
      <4> QED BY <2>4, <4>2, <4>3
    <3>2. Stores => op.phase = "done" /\ op.call = "buy"
      BY DEF Stores
    <3>3. \A u \in Tickets : cache[u] # Nothing => u \in shown
      BY <1>2 DEF IInv, Remembered
    <3>4. LotsSettle'
      <4>1. \A u \in shown \ rewritten : held[u] # Nothing /\ cut[u] = 0 /\ Silent(net, u)
               => cache[u].lots = held[u].lots
        BY DEF SInv, LotsSettle, Silent
      <4>2. ASSUME NEW u \in shown' \ rewritten', held[u] # Nothing, cut'[u] = 0, Silent(net, u)
            PROVE  cache'[u].lots = held[u].lots
        <5>1. CASE u # t
          BY <1>1, <3>1, <4>1, <4>2, <5>1
        <5>2. CASE u = t
          <6>1. Stores /\ cut[t] = 0 /\ cache[t] = Nothing
            BY <3>1, <4>2, <5>2
          <6>2. t \notin shown
            BY <3>1, <6>1 DEF SInv
          <6>3. Unseen(t)
            BY <3>1, <4>2, <5>2, <6>2 DEF SInv
          <6> QED BY <3>2, <6>1, <6>3 DEF Unseen
        <5> QED BY <5>1, <5>2
      <4> QED BY <2>1, <4>2 DEF LotsSettle, Silent
    <3>5. ASSUME NEW u \in Tickets \ shown', held[u] # Nothing, Silent(net, u)
          PROVE  Unseen(u)'
      <4>1. Unseen(u)
        BY <3>1, <3>5 DEF SInv
      <4> QED BY <1>1, <2>1, <2>2, <4>1, UnseenKept
    <3>6. (\A u \in Tickets \ shown : held[u] # Nothing /\ Silent(net, u) => Unseen(u))'
      BY <2>1, <3>5
    <3>7. \A u \in Tickets : u \in shown' /\ cache'[u] = Nothing => cut'[u] > 0
      BY <3>1, <3>3 DEF SInv
    <3>8. Current(net, held)' /\ \A u \in Tickets : held'[u].lots = 0 => held'[u] = Nothing
      BY <1>1, <2>1 DEF SInv
    <3> QED BY <3>4, <3>6, <3>7, <3>8 DEF SInv
  <2> QED BY <2>3, <2>4
<1>17. CASE UNCHANGED vars
  BY <1>8, <1>17 DEF vars
<1> QED BY <1>3, <1>4, <1>5, <1>6, <1>7, <1>9, <1>10, <1>11, <1>12, <1>14, <1>15, <1>16, <1>17
      DEF Next

LEMMA InitSettle == Init => SInv
<1> SUFFICES ASSUME Init PROVE SInv
  OBVIOUS
<1>1. PICK h \in {Nothing} \cup {x \in Holdings : x.lots > 0} :
         held = [t \in Tickets |-> IF t = 1 THEN h ELSE Nothing]
  BY DEF Init
<1>2. \A t \in Tickets : held[t].lots = 0 => held[t] = Nothing
  BY <1>1
<1>3. \A t \in Tickets : Unseen(t)
  BY DEF Init, Unseen, NoOp, Call
<1> QED BY <1>2, <1>3 DEF Init, SInv, Current, LotsSettle

(* When every push of a position has been read the cache has its volume,   *)
(* but for the entries that partial_close or the result of buy wrote.      *)
THEOREM VolumesSettle == Spec => []LotsSettle
<1>1. Init => IInv /\ SInv
  BY InitInvariant, InitSettle
<1>2. IInv /\ SInv /\ [Next]_vars => (IInv /\ SInv)'
  BY NextInvariant, SettleStep
<1>3. IInv /\ SInv => LotsSettle
  BY DEF SInv
<1> QED BY <1>1, <1>2, <1>3, PTL DEF Spec

-----------------------------------------------------------------------------
(* The bounds.                                                             *)

Bounded == ops \in 0..MaxOps /\ asked \in 0..MaxLists

LEMMA RoomForOne ==
  ASSUME Types, Room
  PROVE  asked + 1 \in 0..MaxLists
<1> DEFINE lists == {n \in 1..Len(net) : net[n].is = "list"}
<1>1. Len(net) \in Nat /\ asked \in Nat
  BY DEF Types
<1>2. IsFiniteSet(1..Len(net))
  BY <1>1, FS_Interval
<1>3. Cardinality(lists) \in Nat
  BY <1>2, FS_Subset, FS_CardinalityType
<1>4. asked + Cardinality(lists) < MaxLists
  BY DEF Room
<1> HIDE DEF lists
<1> QED BY <1>1, <1>3, <1>4, PositionAssumption

LEMMA NextBounded ==
  ASSUME Types, Bounded, [Next]_vars
  PROVE  Bounded'
<1>1. ops' \in 0..MaxOps
  <2>1. UNCHANGED ops \/ Spend
    BY DEF Next, OutsideChange, Relist, AnswerList, ServerTrade, Receive, StartPoll, ApplyPoll,
           PollTimesOut, TimesOut, CallWithLookup, CallAtOnce, ApplyLookup, LookupTimesOut,
           FinishTrade, server, vars
  <2> QED BY <2>1, PositionAssumption DEF Spend, Bounded
<1>2. asked' \in 0..MaxLists
  <2>1. \/ UNCHANGED asked
        \/ AnswerList
        \/ Room /\ \E r \in Readers : Ask(r)
    <3>1. CASE Receive
      BY <3>1 DEF Receive, ReadPush, ReadList, ReadResult, Readers, Pollers
    <3>2. CASE ~Receive
      BY <3>2 DEF Next, OutsideChange, Relist, AnswerList, ServerTrade, StartPoll, ApplyPoll,
           PollTimesOut, CallWithLookup, CallAtOnce, ApplyLookup, LookupTimesOut,
           FinishTrade, Readers, Pollers, server, vars
    <3> QED BY <3>1, <3>2
  <2>2. CASE AnswerList
    BY <2>2, PositionAssumption DEF AnswerList, Bounded
  <2>3. CASE Room /\ \E r \in Readers : Ask(r)
    BY <2>3, RoomForOne DEF Ask
  <2> QED BY <2>1, <2>2, <2>3 DEF Bounded
<1> QED BY <1>1, <1>2 DEF Bounded

(* Every variable keeps its type, an entry is there once its ticket was    *)
(* shown, and the user task waits for a list when it looks one up.         *)
THEOREM PositionTypes == Spec => []TypeOK
<1>1. Init => IInv /\ SInv /\ Bounded
  BY InitInvariant, InitSettle, PositionAssumption DEF Init, Bounded
<1>2. IInv /\ SInv /\ Bounded /\ [Next]_vars => (IInv /\ SInv /\ Bounded)'
  BY NextInvariant, SettleStep, NextBounded DEF IInv
<1>3. IInv /\ SInv /\ Bounded => TypeOK
  <2> SUFFICES ASSUME IInv, SInv, Bounded PROVE TypeOK
    OBVIOUS
  <2>1. Types /\ shown \subseteq 1..opened /\ (op.phase = "looking" <=> "user" \in waiting)
    BY DEF IInv, Remembered, OpShape
  <2>2. \A t \in Tickets : cache[t] # Nothing => t \in shown
    <3>1. \A t \in Tickets : cache[t].lots \in Nat
      BY <2>1, PositionAssumption DEF Types, Listing, Holdings, Lots
    <3> QED BY <3>1 DEF IInv, Remembered
  <2> QED BY <2>1, <2>2 DEF IInv, SInv, Bounded, Remembered, Types, Listing, TypeOK
<1> QED BY <1>1, <1>2, <1>3, PTL DEF Spec

-----------------------------------------------------------------------------
(* The volume of an entry only falls.  Below: no push of ticket t says more *)
(* than v; Within: m says of t at least l.                                 *)

Below(s, t, v) == \A n \in 1..Len(s) : PushOf(s[n], t) => s[n].pos.lots <= v

Within(l, m, t) ==
    /\ PushOf(m, t) => l <= m.pos.lots
    /\ m.is = "list" /\ m.list[t].lots > 0 => l <= m.list[t].lots

(* A push says no more than what was sent before it.                       *)
Falling(s) ==
    \A k \in 1..Len(s) : s[k].is = "push" =>
        \A n \in 1..k-1 : Within(s[k].pos.lots, s[n], s[k].ticket)

(* The client was told that ticket t has v lots: a reader, the cache, or   *)
(* the task whose buy opened it.                                           *)
Told(t, v) ==
    \/ \E r \in Readers : got[r] # NoList /\ got[r][t].lots = v /\ v > 0
    \/ cache[t] # Nothing /\ cut[t] = 0 /\ cache[t].lots = v
    \/ /\ op.call = "buy" /\ op.lots = v
       /\ \/ op.phase = "done" /\ op.ticket = t
          \/ \E n \in 1..Len(net) :
                net[n].is = "result" /\ net[n].done /\ net[n].ticket = t

(* No push under way says more of a position than the client was told, and *)
(* a push of a close is about a position that is closed.                   *)
VInv ==
    /\ Falling(net)
    /\ \A n \in 1..Len(net) :
          net[n].is = "push" /\ net[n].pos.lots = 0 => held[net[n].ticket].lots = 0
    /\ \A t \in Tickets, v \in Lots : Told(t, v) => Below(net, t, v)

LEMMA BelowTail ==
  ASSUME NEW s \in Seq(Messages), s # <<>>, NEW t, NEW v, Below(s, t, v)
  PROVE  Below(Tail(s), t, v)
  BY TailElements DEF Below

LEMMA BelowAppend ==
  ASSUME NEW s \in Seq(Messages), NEW m \in Messages, NEW t, NEW v, Below(s, t, v),
         PushOf(m, t) => m.pos.lots <= v
  PROVE  Below(Append(s, m), t, v)
<1>1. /\ Len(Append(s, m)) = Len(s) + 1 /\ Append(s, m)[Len(s) + 1] = m
      /\ \A n \in 1..Len(s) : Append(s, m)[n] = s[n]
  BY AppendElements
<1> QED BY <1>1 DEF Below

LEMMA FallingTail ==
  ASSUME NEW s \in Seq(Messages), s # <<>>, Falling(s)
  PROVE  /\ Falling(Tail(s))
         /\ \A n \in 1..Len(Tail(s)) : Tail(s)[n].is = "push" =>
               Within(Tail(s)[n].pos.lots, Head(s), Tail(s)[n].ticket)
<1>1. /\ Head(s) = s[1] /\ 1 \in 1..Len(s)
      /\ \A n \in 1..Len(Tail(s)) : n + 1 \in 1..Len(s) /\ Tail(s)[n] = s[n + 1]
  BY TailElements
<1>2. ASSUME NEW k \in 1..Len(Tail(s)), Tail(s)[k].is = "push", NEW n \in 1..k-1
      PROVE  Within(Tail(s)[k].pos.lots, Tail(s)[n], Tail(s)[k].ticket)
  <2>1. k + 1 \in 1..Len(s) /\ Tail(s)[k] = s[k + 1] /\ n + 1 \in 1..(k + 1)-1
    BY <1>1
  <2>2. n \in 1..Len(Tail(s))
    OBVIOUS
  <2> QED BY <1>1, <1>2, <2>1, <2>2 DEF Falling
<1>3. ASSUME NEW k \in 1..Len(Tail(s)), Tail(s)[k].is = "push"
      PROVE  Within(Tail(s)[k].pos.lots, Head(s), Tail(s)[k].ticket)
  <2>1. k + 1 \in 1..Len(s) /\ Tail(s)[k] = s[k + 1] /\ 1 \in 1..(k + 1)-1
    BY <1>1
  <2> QED BY <1>1, <1>3, <2>1 DEF Falling
<1> QED BY <1>2, <1>3 DEF Falling

LEMMA FallingAppend ==
  ASSUME NEW s \in Seq(Messages), NEW m \in Messages, Falling(s),
         m.is = "push" => \A n \in 1..Len(s) : Within(m.pos.lots, s[n], m.ticket)
  PROVE  Falling(Append(s, m))
<1>1. /\ Len(Append(s, m)) = Len(s) + 1 /\ Append(s, m)[Len(s) + 1] = m
      /\ \A n \in 1..Len(s) : Append(s, m)[n] = s[n]
      /\ Len(s) \in Nat
  BY AppendElements
<1> SUFFICES ASSUME NEW k \in 1..Len(Append(s, m)), Append(s, m)[k].is = "push",
                    NEW n \in 1..k-1
             PROVE  Within(Append(s, m)[k].pos.lots, Append(s, m)[n], Append(s, m)[k].ticket)
  BY DEF Falling
<1>2. n \in 1..Len(s) /\ Append(s, m)[n] = s[n]
  BY <1>1
<1>3. CASE k = Len(s) + 1
  BY <1>1, <1>2, <1>3
<1>4. CASE k # Len(s) + 1
  <2>1. k \in 1..Len(s) /\ Append(s, m)[k] = s[k]
    BY <1>1, <1>4
  <2> QED BY <1>2, <2>1 DEF Falling
<1> QED BY <1>3, <1>4

(* A push that is sent says what the server holds.                         *)
Fresh(m) ==
    m.is = "push" => m.ticket \in Tickets /\ m.ticket <= opened' /\ m.pos = held'[m.ticket]

LEMMA Announced ==
  ASSUME IInv, Types', [Next]_vars
  PROVE  \/ net' = net
         \/ net # <<>> /\ net' = Tail(net)
         \/ \E m \in Messages : net' = Append(net, m) /\ Fresh(m)
         \/ \E a, b \in Messages :
               /\ net' = Append(Append(net, a), b) /\ Append(net, a) \in Seq(Messages)
               /\ Fresh(a) /\ Fresh(b) /\ "result" \in {a.is, b.is} /\ a.is # "list"
<1> USE DEF IInv
<1>1. ASSUME NEW t \in Tickets
      PROVE  /\ Result(t, TRUE) \in Messages /\ Push(t, held'[t]) \in Messages
             /\ t <= opened' => Fresh(Push(t, held'[t]))
             /\ Fresh(Result(t, TRUE))
  <2>1. held'[t] \in Holdings
    BY DEF Types, Listing
  <2> QED BY <2>1, MakesMessages DEF Fresh, Push, Result
<1>2. CASE ServerTrade
  <2>1. net' = Append(net, Result(0, FALSE)) \/ \E t \in Tickets : Traded(t)
    BY <1>2, TradeEffect
  <2>2. CASE net' = Append(net, Result(0, FALSE))
    BY <2>2, MakesMessages DEF Fresh, Result
  <2>3. ASSUME NEW t \in Tickets, Traded(t)
        PROVE  \E a, b \in Messages :
                  /\ net' = Append(Append(net, a), b) /\ Append(net, a) \in Seq(Messages)
                  /\ Fresh(a) /\ Fresh(b) /\ "result" \in {a.is, b.is} /\ a.is # "list"
    <3> DEFINE p == Push(t, held'[t])
               r == Result(t, TRUE)
    <3>1. /\ p \in Messages /\ r \in Messages /\ Fresh(p) /\ Fresh(r)
          /\ p.is = "push" /\ r.is = "result"
      BY <1>1, <2>3 DEF Traded, Push, Result
    <3>2. net' = net \o <<p, r>> \/ net' = net \o <<r, p>>
      BY <2>3 DEF Traded
    <3>3. net \in Seq(Messages)
      BY DEF Types
    <3> HIDE DEF p, r
    <3>4. CASE net' = net \o <<p, r>>
      BY <3>1, <3>3, <3>4, PairAppends
    <3>5. CASE net' = net \o <<r, p>>
      BY <3>1, <3>3, <3>5, PairAppends
    <3> QED BY <3>2, <3>4, <3>5
  <2> QED BY <2>1, <2>2, <2>3
<1>3. ASSUME NEW t \in Tickets, NEW h \in Holdings, OutsideChange(t, h)
      PROVE  \E m \in Messages : net' = Append(net, m) /\ Fresh(m)
  <2>1. t <= opened' /\ net' = Append(net, Push(t, held'[t]))
    BY <1>3, OutsideEffect
  <2> QED BY <1>1, <2>1
<1>4. CASE AnswerList
  <2>1. List(listed) \in Messages /\ Fresh(List(listed))
    BY MakesMessages DEF Types, Fresh, List
  <2> QED BY <1>4, <2>1 DEF AnswerList
<1>5. CASE Receive
  BY <1>5 DEF Receive
<1>6. CASE /\ ~ServerTrade /\ ~AnswerList /\ ~Receive
           /\ ~(\E t \in Tickets, h \in Holdings : OutsideChange(t, h))
  BY <1>6 DEF Next, Relist, StartPoll, ApplyPoll, PollTimesOut,
              CallWithLookup, CallAtOnce, ApplyLookup, LookupTimesOut, FinishTrade, vars
<1> QED BY <1>2, <1>3, <1>4, <1>5, <1>6

(* What the server holds after a step is no more than was ever said of it. *)
LEMMA HeldFits ==
  ASSUME IInv, VInv, Types', Shrinks, NEW t \in Tickets
  PROVE  /\ \A n \in 1..Len(net) : Within(held'[t].lots, net[n], t)
         /\ \A v \in Lots : Told(t, v) => held'[t].lots <= v
<1> USE DEF IInv
<1>0. /\ opened \in Nat /\ t \in Nat /\ held'[t].lots \in Nat /\ held[t].lots \in Nat
      /\ opened \in 0..MaxTickets
  <2>1. held \in Listing /\ held' \in Listing /\ opened \in 0..MaxTickets
    BY DEF Types
  <2>2. \A h \in Holdings : h.lots \in Nat
    BY PositionAssumption DEF Holdings, Lots
  <2>3. held[t] \in Holdings /\ held'[t] \in Holdings
    BY <2>1 DEF Listing
  <2> QED BY <2>1, <2>2, <2>3, PositionAssumption DEF Tickets
<1>1. t <= opened => held'[t].lots <= held[t].lots
  BY DEF Shrinks
<1>2. ASSUME NEW p \in Holdings, Says(p, t), p.lots > 0 PROVE held'[t].lots <= p.lots
  <2>1. p.lots \in Nat
    BY PositionAssumption DEF Holdings, Lots
  <2> QED BY <1>0, <1>1, <1>2, <2>1 DEF Says
<1>3. ASSUME NEW n \in 1..Len(net) PROVE Within(held'[t].lots, net[n], t)
  <2>1. net[n] \in Messages
    BY DEF Types
  <2>2. ASSUME PushOf(net[n], t) PROVE held'[t].lots <= net[n].pos.lots
    <3>1. /\ net[n].is = "push" /\ net[n].ticket = t /\ net[n].pos \in Holdings
          /\ Says(net[n].pos, t) /\ t \in 1..opened
      BY <2>1, <2>2, MessageFields DEF PushOf, Enough
    <3>2. CASE net[n].pos.lots = 0
      <4>1. held[t].lots = 0
        BY <3>1, <3>2 DEF VInv
      <4> QED BY <1>0, <1>1, <3>1, <3>2, <4>1
    <3>3. CASE net[n].pos.lots > 0
      BY <1>2, <3>1, <3>3
    <3>4. net[n].pos.lots \in Nat
      BY <3>1, PositionAssumption DEF Holdings, Lots
    <3> QED BY <3>2, <3>3, <3>4
  <2>3. ASSUME net[n].is = "list", net[n].list[t].lots > 0
        PROVE  held'[t].lots <= net[n].list[t].lots
    <3>1. net[n].list \in Listing /\ SaysAll(net[n].list)
      BY <2>1, <2>3, MessageFields DEF Enough
    <3> QED BY <1>2, <2>3, <3>1 DEF SaysAll, Listing
  <2> QED BY <2>2, <2>3 DEF Within
<1>4. ASSUME NEW v \in Lots, Told(t, v) PROVE held'[t].lots <= v
  <2>1. ASSUME NEW r \in Readers, got[r] # NoList, got[r][t].lots = v, v > 0
        PROVE  held'[t].lots <= v
    <3>1. got[r] \in Listing /\ SaysAll(got[r])
      BY <2>1 DEF Types, Enough
    <3> QED BY <1>2, <2>1, <3>1 DEF SaysAll, Listing
  <2>2. CASE cache[t] # Nothing /\ cut[t] = 0 /\ cache[t].lots = v
    <3>1. cache[t] \in Holdings /\ cache[t].lots \in Nat
      BY PositionAssumption DEF Types, Listing, Holdings, Lots
    <3>2. t \in shown /\ t \in 1..opened
      <4>1. cache[t].lots # 0
        BY <2>2 DEF Remembered
      <4>2. t \in shown
        BY <3>1, <4>1 DEF Remembered
      <4> QED BY <4>2 DEF Remembered
    <3>3. cache[t].lots + cut[t] >= held[t].lots
      BY <3>2 DEF NeverUnderstated
    <3> QED BY <1>0, <1>1, <2>2, <3>1, <3>2, <3>3
  <2>3. op.lots \in Nat
    BY PositionAssumption DEF Types, Operations, Lots
  <2>4. CASE op.call = "buy" /\ op.lots = v /\ op.phase = "done" /\ op.ticket = t
    <3>1. t \in 1..opened /\ op.lots >= held[t].lots
      BY <2>4 DEF OpShape, ResultShape
    <3> QED BY <1>0, <1>1, <2>3, <2>4, <3>1
  <2>5. ASSUME op.call = "buy", op.lots = v, NEW n \in 1..Len(net), net[n].is = "result",
               net[n].done, net[n].ticket = t
        PROVE  held'[t].lots <= v
    <3>1. t \in 1..opened /\ op.lots >= held[t].lots
      BY <2>5 DEF ResultShape
    <3> QED BY <1>0, <1>1, <2>3, <2>5, <3>1
  <2> QED BY <1>4, <2>1, <2>2, <2>4, <2>5 DEF Told
<1> QED BY <1>3, <1>4

(* What is under way stays in order, and below what the client was told.   *)
LEMMA UnderwayStep ==
  ASSUME IInv, VInv, Types', [Next]_vars
  PROVE  /\ Falling(net')
         /\ \A n \in 1..Len(net') : net'[n].is = "push" /\ net'[n].pos.lots = 0
               => held'[net'[n].ticket].lots = 0
         /\ \A t \in Tickets, v \in Lots : Told(t, v) => Below(net', t, v)
<1> DEFINE Over(s) == \A n \in 1..Len(s) : s[n].is = "push" /\ s[n].pos.lots = 0
                         => held'[s[n].ticket].lots = 0
           Fits(s) == \A t \in Tickets : \A n \in 1..Len(s) : Within(held'[t].lots, s[n], t)
           Kept(s) == \A t \in Tickets, v \in Lots : Told(t, v) => Below(s, t, v)
<1>1. net \in Seq(Messages) /\ Shrinks
  BY HeldStep DEF IInv, Types
<1>2. Falling(net) /\ Kept(net)
  BY DEF VInv
<1>3. Fits(net) /\ \A t \in Tickets, v \in Lots : Told(t, v) => held'[t].lots <= v
  BY <1>1, HeldFits
<1>4. Over(net)
  <2> SUFFICES ASSUME NEW n \in 1..Len(net), net[n].is = "push", net[n].pos.lots = 0
               PROVE  held'[net[n].ticket].lots = 0
    OBVIOUS
  <2>1. net[n].ticket \in 1..opened /\ held[net[n].ticket].lots = 0
    BY DEF VInv, IInv, Enough
  <2>2. net[n].ticket \in Tickets /\ net[n].ticket <= opened
    BY <2>1, PositionAssumption DEF IInv, Types, Tickets
  <2>3. held'[net[n].ticket].lots \in Nat
    BY <2>2, PositionAssumption DEF Types, Listing, Holdings, Lots
  <2> QED BY <1>1, <2>1, <2>2, <2>3 DEF Shrinks
<1>5. ASSUME NEW s \in Seq(Messages), NEW m \in Messages, Fresh(m),
             Falling(s), Over(s), Fits(s), Kept(s)
      PROVE  Falling(Append(s, m)) /\ Over(Append(s, m)) /\ Kept(Append(s, m))
  <2>1. Falling(Append(s, m))
    BY <1>5, FallingAppend DEF Fresh
  <2>2. Over(Append(s, m))
    <3>1. /\ Len(Append(s, m)) = Len(s) + 1 /\ Append(s, m)[Len(s) + 1] = m
          /\ \A n \in 1..Len(s) : Append(s, m)[n] = s[n]
          /\ Len(s) \in Nat
      BY AppendElements
    <3> SUFFICES ASSUME NEW n \in 1..Len(Append(s, m)), Append(s, m)[n].is = "push",
                        Append(s, m)[n].pos.lots = 0
                 PROVE  held'[Append(s, m)[n].ticket].lots = 0
      OBVIOUS
    <3>2. CASE n = Len(s) + 1
      BY <1>5, <3>1, <3>2 DEF Fresh
    <3>3. CASE n # Len(s) + 1
      <4>1. n \in 1..Len(s)
        BY <3>1, <3>3
      <4> QED BY <1>5, <3>1, <4>1
    <3> QED BY <3>2, <3>3
  <2>3. Kept(Append(s, m))
    <3> SUFFICES ASSUME NEW t \in Tickets, NEW v \in Lots, Told(t, v)
                 PROVE  Below(Append(s, m), t, v)
      OBVIOUS
    <3>1. PushOf(m, t) => m.pos.lots <= v
      BY <1>3, <1>5 DEF Fresh, PushOf
    <3> QED BY <1>5, <3>1, BelowAppend
  <2> QED BY <2>1, <2>2, <2>3
<1>6. ASSUME NEW s \in Seq(Messages), NEW m \in Messages, m.is = "result", Fits(s)
      PROVE  Fits(Append(s, m))
  <2>1. /\ Len(Append(s, m)) = Len(s) + 1 /\ Append(s, m)[Len(s) + 1] = m
        /\ \A n \in 1..Len(s) : Append(s, m)[n] = s[n]
        /\ Len(s) \in Nat
    BY AppendElements
  <2> QED BY <1>6, <2>1 DEF Within, PushOf
<1>7. CASE net # <<>> /\ net' = Tail(net)
  <2>1. Falling(net')
    BY <1>1, <1>2, <1>7, FallingTail
  <2>2. Kept(net')
    BY <1>1, <1>2, <1>7, BelowTail
  <2>3. Over(net')
    BY <1>1, <1>4, <1>7, TailElements
  <2> QED BY <2>1, <2>2, <2>3
<1>8. ASSUME NEW m \in Messages, net' = Append(net, m), Fresh(m)
      PROVE  Falling(net') /\ Over(net') /\ Kept(net')
  BY <1>1, <1>2, <1>3, <1>4, <1>5, <1>8
<1>9. ASSUME NEW a \in Messages, NEW b \in Messages, net' = Append(Append(net, a), b),
             Append(net, a) \in Seq(Messages), Fresh(a), Fresh(b), "result" \in {a.is, b.is}
      PROVE  Falling(net') /\ Over(net') /\ Kept(net')
  <2> DEFINE s == Append(net, a)
  <2>1. s \in Seq(Messages) /\ net' = Append(s, b)
    BY <1>9
  <2>2. Falling(s) /\ Over(s) /\ Kept(s)
    BY <1>1, <1>2, <1>3, <1>4, <1>5, <1>9
  <2>3. CASE a.is = "result"
    <3>1. Fits(s)
      BY <1>1, <1>3, <1>6, <2>3
    <3> HIDE DEF s, Falling, Over, Fits, Kept
    <3> QED BY <1>5, <1>9, <2>1, <2>2, <3>1
  <2>4. CASE b.is = "result"
    <3> HIDE DEF s
    <3>1. Falling(Append(s, b))
      BY <2>1, <2>2, <2>4, FallingAppend
    <3>2. Kept(Append(s, b))
      BY <2>1, <2>2, <2>4, BelowAppend DEF PushOf
    <3>3. /\ Len(Append(s, b)) = Len(s) + 1 /\ Append(s, b)[Len(s) + 1] = b
          /\ \A n \in 1..Len(s) : Append(s, b)[n] = s[n]
          /\ Len(s) \in Nat
      BY <2>1, AppendElements
    <3>4. Over(Append(s, b))
      BY <2>2, <2>4, <3>3
    <3> QED BY <2>1, <3>1, <3>2, <3>4
  <2> QED BY <1>9, <2>3, <2>4
<1>10. CASE net' = net
  BY <1>2, <1>4, <1>10
<1> HIDE DEF Over, Kept
<1>11. Falling(net') /\ Over(net') /\ Kept(net')
  BY <1>7, <1>8, <1>9, <1>10, Announced DEF Over, Kept
<1> QED BY <1>11 DEF Over, Kept

(* What the client is told in a step bounds the pushes to come.            *)
LEMMA ToldStep ==
  ASSUME IInv, VInv, Types', [Next]_vars, NEW t \in Tickets, NEW v \in Lots, Told(t, v)'
  PROVE  Told(t, v) \/ Below(net', t, v)
<1> USE DEF IInv
<1>0. /\ net \in Seq(Messages) /\ cache \in Listing /\ got \in [Readers -> {NoList} \cup Listing]
      /\ op \in Operations /\ cut \in [Tickets -> Nat] /\ op' \in Operations
  BY DEF Types
<1>1. ASSUME UNCHANGED <<got, cache, cut, op>>,
             \A n \in 1..Len(net') : net'[n].is = "result" =>
                \E k \in 1..Len(net) : net'[n] = net[k]
      PROVE  Told(t, v)
  BY <1>1 DEF Told
<1>2. ASSUME NEW m \in Messages, net' = Append(net, m), m.is # "result",
             UNCHANGED <<got, cache, cut, op>>
      PROVE  Told(t, v)
  <2>1. /\ Len(net') = Len(net) + 1 /\ net'[Len(net) + 1] = m
        /\ \A n \in 1..Len(net) : net'[n] = net[n]
        /\ Len(net) \in Nat
    BY <1>0, <1>2, AppendElements
  <2> QED BY <1>1, <1>2, <2>1
<1>3. ASSUME NEW u \in Tickets, NEW h \in Holdings, OutsideChange(u, h) PROVE Told(t, v)
  <2>1. net' = Append(net, Push(u, held'[u])) /\ UNCHANGED <<got, cache, cut, op>>
    BY <1>3, OutsideEffect DEF reading, memory
  <2>2. Push(u, held'[u]) \in Messages /\ Push(u, held'[u]).is # "result"
    BY MakesMessages DEF Types, Listing, Push
  <2> QED BY <1>2, <2>1, <2>2
<1>4. CASE AnswerList
  <2>1. List(listed) \in Messages /\ List(listed).is # "result"
    BY MakesMessages DEF Types, List
  <2> QED BY <1>2, <1>4, <2>1 DEF AnswerList, reading, memory
<1>5. CASE Relist
  BY <1>1, <1>5 DEF Relist, reading, memory
<1>6. CASE ServerTrade
  <2>1. /\ op' = [op EXCEPT !.phase = "taken"] /\ op.phase = "sent"
        /\ UNCHANGED <<got, cache, cut>>
        /\ net' = Append(net, Result(0, FALSE)) \/ \E u \in Tickets : Traded(u)
    BY <1>6, TradeEffect DEF reading, memory
  <2>2. op'.phase = "taken" /\ op'.call = op.call /\ op'.lots = op.lots
    BY <1>0, <2>1 DEF Operations
  <2>3. \A n \in 1..Len(net) : net[n].is # "result"
    BY <2>1, NoResult
  <2>4. CASE ~\E n \in 1..Len(net') :
                net'[n].is = "result" /\ net'[n].done /\ net'[n].ticket = t
    BY <2>1, <2>2, <2>4 DEF Told
  <2>5. ASSUME NEW n \in 1..Len(net'), net'[n].is = "result", net'[n].done,
               net'[n].ticket = t, op.call = "buy", op.lots = v
        PROVE  Below(net', t, v)
    <3>1. CASE net' = Append(net, Result(0, FALSE))
      <4>1. /\ Len(net') = Len(net) + 1 /\ net'[Len(net) + 1] = Result(0, FALSE)
            /\ \A k \in 1..Len(net) : net'[k] = net[k]
        BY <1>0, <3>1, MakesMessages, AppendElements
      <4>3. Len(net) \in Nat
        BY <1>0
      <4>2. n = Len(net) + 1
        BY <2>3, <2>5, <4>1, <4>3
      <4> QED BY <2>5, <4>1, <4>2 DEF Result
    <3>2. ASSUME NEW u \in Tickets, Traded(u) PROVE Below(net', t, v)
      <4> DEFINE p == Push(u, held'[u])
                 r == Result(u, TRUE)
      <4>1. /\ p \in Messages /\ r \in Messages /\ p.is = "push" /\ p.ticket = u
            /\ p.pos = held'[u] /\ r.is = "result" /\ r.ticket = u
        BY MakesMessages DEF Types, Listing, Push, Result
      <4>2. net' = net \o <<p, r>> \/ net' = net \o <<r, p>>
        BY <3>2 DEF Traded
      <4>3. held'[u].lots <= op.lots /\ opened < u
        BY <2>5, <3>2 DEF Traded
      <4> HIDE DEF p, r
      <4>4. Below(net, u, v)
        <5>1. opened \in Nat /\ u \in Nat
          BY PositionAssumption DEF Types, Tickets
        <5> QED BY <4>3, <5>1 DEF Below, PushOf, Enough
      <4>5. /\ Len(net') = Len(net) + 2
            /\ net'[Len(net) + 1] \in {p, r} /\ net'[Len(net) + 2] \in {p, r}
            /\ \A k \in 1..Len(net) : net'[k] = net[k]
            /\ Len(net) \in Nat
        BY <1>0, <4>1, <4>2, PairElements
      <4>6. t = u
        <5>1. n \notin 1..Len(net)
          BY <2>3, <2>5, <4>5
        <5>2. n = Len(net) + 1 \/ n = Len(net) + 2
          BY <2>5, <4>5, <5>1
        <5>3. net'[n] \in {p, r}
          BY <4>5, <5>2
        <5> QED BY <2>5, <4>1, <5>3
      <4>7. Below(Append(net, p), u, v) /\ Below(Append(net, r), u, v)
        BY <1>0, <2>5, <4>1, <4>3, <4>4, BelowAppend DEF PushOf
      <4>8. /\ net \o <<p, r>> = Append(Append(net, p), r) /\ Append(net, p) \in Seq(Messages)
            /\ net \o <<r, p>> = Append(Append(net, r), p) /\ Append(net, r) \in Seq(Messages)
        BY <1>0, <4>1, PairAppends
      <4>9. Below(Append(Append(net, p), r), u, v) /\ Below(Append(Append(net, r), p), u, v)
        BY <2>5, <4>1, <4>3, <4>7, <4>8, BelowAppend DEF PushOf
      <4> QED BY <4>2, <4>6, <4>8, <4>9
    <3> QED BY <2>1, <3>1, <3>2
  <2>6. CASE op.call = "buy" /\ op.lots = v
    BY <2>4, <2>5, <2>6
  <2>7. CASE ~(op.call = "buy" /\ op.lots = v)
    BY <2>1, <2>2, <2>7 DEF Told
  <2> QED BY <2>6, <2>7
<1>7. CASE Receive
  <2> DEFINE m == Head(net)
  <2>1. /\ net # <<>> /\ net' = Tail(net) /\ m = net[1] /\ 1 \in 1..Len(net) /\ m \in Messages
        /\ \A n \in 1..Len(net') : n + 1 \in 1..Len(net) /\ net'[n] = net[n + 1]
    BY <1>0, <1>7, TailElements DEF Receive
  <2>2. \A n \in 1..Len(net') : net'[n].is = "push" =>
           Within(net'[n].pos.lots, m, net'[n].ticket)
    BY <1>0, <2>1, FallingTail DEF VInv
  <2>3. CASE m.is = "push" /\ ReadPush(m)
    <3>1. CASE cache'[t] = cache[t]
      <4>1. /\ UNCHANGED <<cut, op>>
            /\ \A r \in Readers : got'[r] # NoList => got'[r] = got[r]
        BY <1>0, <2>3 DEF ReadPush, Ask, reading, memory
      <4> QED BY <2>1, <3>1, <4>1 DEF Told
    <3>2. CASE cache'[t] # cache[t]
      <4>1. t = m.ticket /\ cache'[t] = m.pos /\ UNCHANGED <<cut, op>>
            /\ \A r \in Readers : got'[r] # NoList => got'[r] = got[r]
        BY <1>0, <2>3, <3>2 DEF ReadPush, Show, Ask, reading, memory, Listing
      <4>2. CASE v = m.pos.lots
        BY <2>2, <2>3, <4>1, <4>2 DEF Below, Within, PushOf
      <4>3. CASE v # m.pos.lots
        BY <2>1, <4>1, <4>3 DEF Told
      <4> QED BY <4>2, <4>3
    <3> QED BY <3>1, <3>2
  <2>4. CASE m.is = "list" /\ ReadList(m)
    <3>1. /\ UNCHANGED <<cache, cut, op>>
          /\ \A r \in Readers : got'[r] = got[r] \/ got'[r] = m.list
      BY <1>0, <2>4 DEF ReadList, memory
    <3>2. CASE m.list[t].lots = v /\ v > 0
      BY <2>2, <2>4, <3>2 DEF Below, Within, PushOf
    <3>3. CASE ~(m.list[t].lots = v /\ v > 0)
      <4>1. \A r \in Readers : got'[r] # NoList /\ got'[r][t].lots = v /\ v > 0 => got'[r] = got[r]
        BY <3>1, <3>3
      <4> QED BY <2>1, <3>1, <4>1 DEF Told
    <3> QED BY <3>2, <3>3
  <2>5. CASE m.is = "result" /\ ReadResult(m)
    <3>1. UNCHANGED <<got, cache, cut>>
      BY <2>5 DEF ReadResult, reading, memory
    <3>2. op'.call = op.call /\ op'.lots = op.lots
      BY <1>0, <2>5 DEF ReadResult, Operations
    <3>3. op'.phase = "done" /\ op'.ticket = t => m.done /\ m.ticket = t
      BY <1>0, <2>5 DEF ReadResult, Operations
    <3> QED BY <2>1, <2>5, <3>1, <3>2, <3>3 DEF Told
  <2> QED BY <1>7, <2>3, <2>4, <2>5 DEF Receive
<1>8. ASSUME NEW r \in Readers, Ask(r), UNCHANGED <<net, cache, cut>>,
             op' = op \/ (op'.phase = "looking" /\ op.phase = "idle")
      PROVE  Told(t, v)
  <2>1. \A s \in Readers : got'[s] # NoList => got'[s] = got[s]
    BY <1>0, <1>8 DEF Ask
  <2>2. CASE op' = op
    BY <1>8, <2>1, <2>2 DEF Told
  <2>3. CASE op'.phase = "looking" /\ op.phase = "idle"
    <3>1. \A n \in 1..Len(net) : net[n].is # "result"
      BY <2>3, NoResult
    <3> QED BY <1>8, <2>1, <2>3, <3>1 DEF Told
  <2> QED BY <1>8, <2>2, <2>3
<1>9. ASSUME NEW p \in Pollers, StartPoll(p) PROVE Told(t, v)
  BY <1>8, <1>9 DEF StartPoll, memory, Readers
<1>10. ASSUME NEW o \in WithLookup, CallWithLookup(o) PROVE Told(t, v)
  <2>1. o \in Operations
    BY CallsTyped
  <2>2. op'.phase = "looking" /\ op.phase = "idle"
    BY <1>10, <2>1 DEF CallWithLookup, Operations
  <2> QED BY <1>8, <1>10, <2>2 DEF CallWithLookup, memory, Readers
<1>11. ASSUME NEW p \in Pollers, ApplyPoll(p) PROVE Told(t, v)
  <2>1. \A r \in Readers : got'[r] # NoList => got'[r] = got[r]
    BY <1>0, <1>11 DEF ApplyPoll, Resume
  <2>2. cache[t].lots \in Nat /\ cache[t] \in Holdings
    BY <1>0, PositionAssumption DEF Listing, Holdings, Lots
  <2>3. cache'[t].lots = cache[t].lots /\ (cache'[t] # Nothing => cache[t] # Nothing)
    <3> DEFINE g == [cache[t] EXCEPT !.stop = got[p][t].stop]
    <3>1. cache'[t] = IF cache[t].lots > 0 /\ got[p][t].lots > 0 THEN g ELSE cache[t]
      BY <1>11 DEF ApplyPoll
    <3>2. g.lots = cache[t].lots
      BY <2>2 DEF Holdings
    <3> HIDE DEF g
    <3> QED BY <2>2, <3>1, <3>2, NothingHolds
  <2>4. UNCHANGED <<net, op, cut>>
    BY <1>11 DEF ApplyPoll
  <2> QED BY <2>1, <2>3, <2>4 DEF Told
<1>12. ASSUME NEW p \in Pollers, PollTimesOut(p) PROVE Told(t, v)
  BY <1>1, <1>12 DEF PollTimesOut, TimesOut, memory
<1>13. CASE LookupTimesOut \/ ApplyLookup
  <2>1. op.phase = "looking"
    BY <1>13 DEF LookupTimesOut, ApplyLookup, TimesOut, Resume, OpShape
  <2>2. \A n \in 1..Len(net) : net[n].is # "result"
    BY <2>1, NoResult
  <2>3. op'.phase # "done" /\ UNCHANGED <<net, cut>>
    <3>1. \A pos : Look(pos).phase # "done"
      BY <1>0 DEF Look, NoOp, Call, Operations
    <3> QED BY <1>13, <3>1 DEF LookupTimesOut, ApplyLookup, NoOp, Call, memory
  <2>4. CASE LookupTimesOut
    BY <2>2, <2>3, <2>4 DEF LookupTimesOut, TimesOut, memory, Told
  <2>5. CASE ApplyLookup
    <3>1. \A r \in Readers : got'[r] # NoList => got'[r] = got[r]
      BY <1>0, <2>5 DEF ApplyLookup, Resume
    <3>2. /\ got["user"] # NoList /\ "user" \in Readers
          /\ cache'[t] = IF cache[t] = Nothing /\ got["user"][t].lots > 0
                         THEN got["user"][t] ELSE cache[t]
      BY <2>5 DEF ApplyLookup, Resume, Readers
    <3>3. CASE cache'[t] = cache[t]
      BY <2>2, <2>3, <3>1, <3>3 DEF Told
    <3>4. CASE cache'[t] # cache[t]
      BY <2>2, <2>3, <3>1, <3>2, <3>4 DEF Told
    <3> QED BY <3>3, <3>4
  <2> QED BY <1>13, <2>4, <2>5
<1>14. ASSUME NEW o \in AtOnce, CallAtOnce(o) PROVE Told(t, v)
  <2>1. o \in Operations
    BY CallsTyped
  <2>2. op'.phase = "sent" /\ op.phase = "idle" /\ UNCHANGED <<net, got, cache, cut>>
    BY <1>14, <2>1 DEF CallAtOnce, Operations, reading, memory
  <2>3. \A n \in 1..Len(net) : net[n].is # "result"
    BY <2>2, NoResult
  <2> QED BY <2>2, <2>3 DEF Told
<1>15. CASE FinishTrade
  <2>1. /\ op.phase \in {"done", "refused"} /\ op'.call = "none"
        /\ UNCHANGED <<net, got>>
    BY <1>15 DEF FinishTrade, NoOp, Call, reading
  <2>2. CASE Stores
    <3>1. /\ cache' = [cache EXCEPT ![op.ticket] = [lots |-> op.lots, stop |-> 0]]
          /\ UNCHANGED cut
      BY <1>15, <2>2 DEF FinishTrade, Stores, Cuts, Show
    <3>2. CASE t = op.ticket
      <4>1. cache'[t].lots = op.lots
        BY <1>0, <3>1, <3>2 DEF Listing
      <4> QED BY <2>1, <2>2, <3>1, <3>2, <4>1 DEF Told, Stores
    <3>3. CASE t # op.ticket
      <4>1. cache'[t] = cache[t]
        BY <1>0, <3>1, <3>3 DEF Listing
      <4> QED BY <2>1, <3>1, <4>1 DEF Told
    <3> QED BY <3>2, <3>3
  <2>3. CASE Cuts
    <3>1. /\ cache' = [cache EXCEPT ![op.ticket] = Without(@, op.lots)]
          /\ cut' = [cut EXCEPT ![op.ticket] = @ + op.lots]
      BY <1>15, <2>3 DEF FinishTrade, Stores, Cuts
    <3>2. op.lots \in Nat /\ op.lots > 0
      BY <1>0, <2>3, PositionAssumption DEF Cuts, OpShape, Operations, Lots
    <3>3. CASE t = op.ticket
      <4>1. cut'[t] # 0
        BY <1>0, <3>1, <3>2, <3>3
      <4> QED BY <2>1, <4>1 DEF Told
    <3>4. CASE t # op.ticket
      <4>1. cache'[t] = cache[t] /\ cut'[t] = cut[t]
        BY <1>0, <3>1, <3>4 DEF Listing
      <4> QED BY <2>1, <4>1 DEF Told
    <3> QED BY <3>3, <3>4
  <2>4. CASE ~Stores /\ ~Cuts
    <3>1. UNCHANGED <<cache, cut>>
      BY <1>15, <2>4 DEF FinishTrade, memory
    <3> QED BY <2>1, <3>1 DEF Told
  <2> QED BY <2>2, <2>3, <2>4
<1>16. CASE UNCHANGED vars
  BY <1>1, <1>16 DEF vars
<1> QED
  BY <1>3, <1>4, <1>5, <1>6, <1>7, <1>9, <1>10, <1>11, <1>12, <1>13, <1>14, <1>15, <1>16
     DEF Next

LEMMA NextFalls ==
  ASSUME IInv, VInv, [Next]_vars PROVE VInv'
<1>1. Types'
  BY NextTypes DEF IInv
<1>2. /\ Falling(net')
      /\ \A n \in 1..Len(net') : net'[n].is = "push" /\ net'[n].pos.lots = 0
            => held'[net'[n].ticket].lots = 0
      /\ \A t \in Tickets, v \in Lots : Told(t, v) => Below(net', t, v)
  BY <1>1, UnderwayStep
<1>3. \A t \in Tickets, v \in Lots : Told(t, v)' => Told(t, v) \/ Below(net', t, v)
  BY <1>1, ToldStep
<1> QED BY <1>2, <1>3 DEF VInv

LEMMA InitFalls == Init => VInv
<1> SUFFICES ASSUME Init PROVE VInv
  OBVIOUS
<1>1. net = <<>> /\ Len(net) = 0
  BY DEF Init
<1> QED BY <1>1 DEF VInv, Falling, Below

(* The step itself.                                                        *)
LEMMA EntryFalls ==
  ASSUME IInv, VInv, [Next]_vars, NEW t \in Tickets, cache[t] # Nothing,
         cache'[t].lots > cache[t].lots, cut[t] = 0
  PROVE  FinishTrade /\ t \in rewritten'
<1> USE DEF IInv
<1>0. /\ cache \in Listing /\ cache[t] \in Holdings /\ cache[t].lots \in Lots
      /\ cache[t].lots \in Nat /\ op \in Operations
  BY PositionAssumption DEF Types, Listing, Holdings, Lots
<1>1. CASE Receive
  <2> DEFINE m == Head(net)
  <2>1. m = net[1] /\ 1 \in 1..Len(net)
    BY <1>1, TailElements DEF Receive, Types
  <2>2. m.is = "push" /\ m.ticket = t /\ cache'[t] = m.pos
    BY <1>0, <1>1 DEF Receive, ReadPush, ReadList, ReadResult, Show, memory, Listing
  <2>3. Told(t, cache[t].lots)
    BY DEF Told
  <2>4. m.pos.lots <= cache[t].lots
    BY <1>0, <2>1, <2>2, <2>3 DEF VInv, Below, PushOf
  <2>5. m.pos.lots \in Nat
    BY <2>1, <2>2, MessageFields, PositionAssumption DEF Types, Holdings, Lots
  <2> QED BY <1>0, <2>2, <2>4, <2>5
<1>2. ASSUME NEW p \in Pollers, ApplyPoll(p) PROVE FALSE
  <2> DEFINE g == [cache[t] EXCEPT !.stop = got[p][t].stop]
  <2>1. cache'[t] = IF cache[t].lots > 0 /\ got[p][t].lots > 0 THEN g ELSE cache[t]
    BY <1>2 DEF ApplyPoll
  <2>2. g.lots = cache[t].lots
    BY <1>0 DEF Holdings
  <2> HIDE DEF g
  <2> QED BY <1>0, <2>1, <2>2
<1>3. CASE ApplyLookup
  <2>1. cache'[t] = cache[t]
    BY <1>3 DEF ApplyLookup
  <2> QED BY <1>0, <2>1
<1>4. CASE FinishTrade
  <2>1. CASE Stores
    <3>1. /\ cache' = [cache EXCEPT ![op.ticket] = [lots |-> op.lots, stop |-> 0]]
          /\ rewritten' = IF cache[op.ticket] = Nothing THEN rewritten
                          ELSE rewritten \cup {op.ticket}
      BY <1>4, <2>1 DEF FinishTrade, Stores, Cuts, Show
    <3>2. t = op.ticket
      BY <1>0, <3>1 DEF Listing
    <3> QED BY <1>4, <3>1, <3>2
  <2>2. CASE Cuts
    <3>1. cache' = [cache EXCEPT ![op.ticket] = Without(@, op.lots)]
      BY <1>4, <2>2 DEF FinishTrade, Stores, Cuts
    <3>2. op.lots \in Nat
      BY <1>0, PositionAssumption DEF Operations, Lots
    <3>3. Without(cache[t], op.lots).lots <= cache[t].lots
      BY <1>0, <3>2, NothingHolds DEF Without, Holdings
    <3>4. cache'[t] = cache[t] \/ cache'[t] = Without(cache[t], op.lots)
      BY <1>0, <3>1 DEF Listing
    <3>5. Without(cache[t], op.lots).lots \in Nat
      BY <1>0, <3>2, NothingHolds DEF Without, Holdings
    <3> QED BY <1>0, <3>3, <3>4, <3>5
  <2>3. CASE ~Stores /\ ~Cuts
    BY <1>0, <1>4, <2>3 DEF FinishTrade, memory
  <2> QED BY <2>1, <2>2, <2>3
<1>5. CASE ~Receive /\ ~ApplyLookup /\ ~FinishTrade /\ ~\E p \in Pollers : ApplyPoll(p)
  <2>1. cache' = cache
    BY <1>5 DEF Next, OutsideChange, Relist, AnswerList, ServerTrade, StartPoll, PollTimesOut,
       CallWithLookup, CallAtOnce, LookupTimesOut, memory, vars
  <2> QED BY <1>0, <2>1
<1> QED BY <1>1, <1>2, <1>3, <1>4, <1>5

(* Pushes, lists and results that are read late never raise the volume of  *)
(* an entry (_parse_one_position_record, _do_poll_positions, get_positions),*)
(* but for what partial_close and buy do themselves.                       *)
THEOREM VolumesOnlyFall == Spec => VolumeOnlyFalls
<1>1. IInv /\ VInv /\ [Next]_vars => VInv'
  BY NextFalls
<1>2. IInv /\ VInv /\ [Next]_vars =>
        [\A t \in Tickets :
            cache[t] # Nothing /\ cache'[t].lots > cache[t].lots
            => cut[t] > 0 \/ (FinishTrade /\ t \in rewritten')]_vars
  <2> SUFFICES ASSUME IInv, VInv, [Next]_vars, NEW t \in Tickets, cache[t] # Nothing,
                      cache'[t].lots > cache[t].lots, ~(cut[t] > 0)
               PROVE  FinishTrade /\ t \in rewritten'
    OBVIOUS
  <2>1. cut[t] = 0
    BY DEF IInv, Types
  <2> QED BY <2>1, EntryFalls
<1> QED BY <1>1, <1>2, InitFalls, PositionInvariant, PTL DEF Spec, VolumeOnlyFalls
=============================================================================
