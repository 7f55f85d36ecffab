---------------------------- MODULE PositionCache ----------------------------
(***************************************************************************)
(* What the client knows of the open positions: MT5Client._position_cache, *)
(* its writers, and the trades that read it.                               *)
(*                                                                         *)
(* Four paths write the cache: a push (cmd 10 or 22) in the receive loop,  *)
(* a position list (cmd 4) in a poll, a position list in get_positions,    *)
(* and a task that resumes with the result of its trade.  A message is     *)
(* read in one step and a task that waited for it goes on in a later one,  *)
(* so what a task writes may be older than what the cache holds.           *)
(*                                                                         *)
(* Volumes are small numbers of lots and a position has one stop price.    *)
(* The list of the server lags behind what it holds.  One user task trades *)
(* at a time and each of its trades is answered: parallel and lost trades  *)
(* are the subject of TradeExchange.  Besides the poll loop at most one    *)
(* poll runs at a time: a second one is not started (a bound).             *)
(***************************************************************************)
EXTENDS Integers, Sequences, FiniteSets

CONSTANTS MaxTickets,    \* bound: positions opened in a behaviour
          MaxLots,       \* bound: volume of a position
          Stops,         \* stop prices; 0 is none
          MaxOps,        \* bound: user calls, outside changes and timeouts that
                         \*        fire while the answer is on its way
          MaxLists,      \* bound: position lists asked for and not yet read
          UserCalls,     \* what the user task does
          Outside        \* what else changes positions at the server

ASSUME PositionAssumption ==
    /\ MaxTickets \in Nat \ {0} /\ MaxLots \in Nat /\ MaxOps \in Nat /\ MaxLists \in Nat
    /\ Stops \subseteq Nat /\ 0 \in Stops
    /\ UserCalls \subseteq {"buy", "look", "close", "partial", "modify", "bypass"}
    /\ Outside \subseteq {"open", "reduce", "stop"}

Tickets == 1..MaxTickets
Lots == 0..MaxLots
Pollers == {"loop", "extra"}
Readers == Pollers \cup {"user"}
Holdings == [lots : Lots, stop : Stops]
Nothing == [lots |-> 0, stop |-> 0]
NoList == <<>>

VARIABLES opened,        \* number of positions opened so far
          held,          \* the positions at the server; Nothing when closed
          listed,        \* what the server's list of positions says
          ops,           \* user calls, outside changes, early timeouts so far
          asked,         \* lists asked for and not yet sent
          net,           \* messages on their way to the client, in order
          slot,          \* _pending[4]
          got,           \* the list each reader's future holds
          waiting,       \* readers in send_and_wait
          op,            \* the user's trade
          cache,         \* _position_cache; Nothing: the ticket is not in it
          shown,         \* history: tickets that have been in the cache
          cut,           \* history: lots that partial_close took off each entry
          rewritten      \* history: tickets whose entry buy's result replaced

vars == <<opened, held, listed, ops, asked, net, slot, got, waiting, op, cache,
          shown, cut, rewritten>>

server == <<opened, held, listed>>
reading == <<slot, got, waiting>>
memory == <<cache, shown, cut, rewritten>>

(* A call of the user task: keep is modify_position's sl=None, and looked  *)
(* says that the position was looked up and not given by the caller.       *)
Call(c, t, l, s, keep, looked) ==
    [phase |-> "idle", call |-> c, ticket |-> t, lots |-> l, stop |-> s,
     keep |-> keep, looked |-> looked]
NoOp == Call("none", 0, 0, 0, FALSE, FALSE)

Buys == {Call("buy", 0, l, s, FALSE, FALSE) : l \in Lots \ {0}, s \in Stops}

Changes(looked) ==
    UNION {{Call("close", t, l, 0, FALSE, looked) : l \in IF looked THEN {0} ELSE Lots \ {0}}
           \cup {Call("partial", t, l, 0, FALSE, looked) : l \in Lots \ {0}}
           \cup {Call("modify", t, 0, s, FALSE, looked) : s \in Stops}
           \cup {Call("modify", t, 0, 0, TRUE, looked)} : t \in Tickets}

WithLookup == {o \in Changes(TRUE) \cup {Call("look", 0, 0, 0, FALSE, TRUE)} :
                 o.call \in UserCalls}

(* buy, and calls with the bypass parameters.                              *)
AtOnce == {o \in Buys \cup (IF "bypass" \in UserCalls THEN Changes(FALSE) ELSE {}) :
             o.call \in UserCalls}

Push(t, h) == [is |-> "push", ticket |-> t, pos |-> h]
List(l) == [is |-> "list", list |-> l]
Result(t, ok) == [is |-> "result", ticket |-> t, done |-> ok]

(* The first position may have been open before the client connected.      *)
Init ==
    /\ \E h \in {Nothing} \cup {x \in Holdings : x.lots > 0} :
          /\ held = [t \in Tickets |-> IF t = 1 THEN h ELSE Nothing]
          /\ opened = IF h = Nothing THEN 0 ELSE 1
    /\ listed = held
    /\ ops = 0
    /\ asked = 0
    /\ net = <<>>
    /\ slot = "none"
    /\ got = [r \in Readers |-> NoList]
    /\ waiting = {}
    /\ op = NoOp
    /\ cache = [t \in Tickets |-> Nothing]
    /\ shown = {}
    /\ cut = [t \in Tickets |-> 0]
    /\ rewritten = {}

-----------------------------------------------------------------------------
(* The server.  It pushes each change of a position; the push of a close   *)
(* says zero lots.                                                         *)

Open(t, h) == opened' = opened + 1 /\ t = opened + 1 /\ held' = [held EXCEPT ![t] = h]

Spend == ops < MaxOps /\ ops' = ops + 1

(* Another terminal, or a stop that is hit.                                *)
OutsideChange(t, h) ==
    /\ Spend
    /\ \/ "open" \in Outside /\ h.lots > 0 /\ Open(t, h)
       \/ /\ held[t].lots > 0
          /\ \/ "reduce" \in Outside /\ h.lots < held[t].lots /\ h.stop = held[t].stop
             \/ "stop" \in Outside /\ h.lots = held[t].lots /\ h.stop # held[t].stop
          /\ held' = [held EXCEPT ![t] = IF h.lots = 0 THEN Nothing ELSE h]
          /\ UNCHANGED opened
    /\ net' = Append(net, Push(t, held'[t]))
    /\ UNCHANGED <<listed, asked, reading, op, memory>>

Relist ==
    /\ listed # held
    /\ listed' = held
    /\ UNCHANGED <<opened, held, ops, asked, net, reading, op, memory>>

AnswerList ==
    /\ asked > 0
    /\ asked' = asked - 1
    /\ net' = Append(net, List(listed))
    /\ UNCHANGED <<server, ops, reading, op, memory>>

(* The server carries the trade out, and says so in a push and a result in *)
(* either order, or it refuses.                                            *)
Execute(t, h) ==
    /\ held' = [held EXCEPT ![t] = IF h.lots = 0 THEN Nothing ELSE h]
    /\ net' \in {net \o <<Push(t, held'[t]), Result(t, TRUE)>>,
                 net \o <<Result(t, TRUE), Push(t, held'[t])>>}

ServerTrade ==
    LET t == op.ticket
    IN  /\ op.phase = "sent"
        /\ op' = [op EXCEPT !.phase = "taken"]
        /\ \/ /\ op.call = "buy"
              /\ opened < MaxTickets
              /\ opened' = opened + 1
              /\ Execute(opened + 1, [lots |-> op.lots, stop |-> op.stop])
           \/ /\ op.call \in {"close", "partial"}
              /\ op.lots \in 1..held[t].lots
              /\ Execute(t, [held[t] EXCEPT !.lots = @ - op.lots])
              /\ UNCHANGED opened
           \/ /\ op.call = "modify"
              /\ held[t].lots > 0
              /\ Execute(t, [held[t] EXCEPT !.stop = op.stop])
              /\ UNCHANGED opened
           \/ /\ net' = Append(net, Result(0, FALSE))
              /\ UNCHANGED <<opened, held>>
        /\ UNCHANGED <<listed, ops, asked, reading, memory>>

-----------------------------------------------------------------------------
(* Asking for the list: send_and_wait(4).                                  *)

Ask(r) ==
    /\ slot' = r
    /\ asked' = asked + 1
    /\ got' = [got EXCEPT ![r] = NoList]
    /\ waiting' = waiting \cup {r}

Room == asked + Cardinality({n \in 1..Len(net) : net[n].is = "list"}) < MaxLists

(* The timer of _account_poll_loop, or a call of poll_positions.           *)
StartPoll(p) ==
    /\ p \notin waiting
    /\ Room
    /\ IF p = "loop" THEN UNCHANGED ops ELSE Spend
    /\ Ask(p)
    /\ UNCHANGED <<server, net, op, memory>>

OnItsWay == asked > 0 \/ \E n \in 1..Len(net) : net[n].is = "list"

(* No answer will come: it went to another reader, or to nobody.           *)
GoneWait(r) == slot # r \/ ~OnItsWay

(* A wait that ends without an answer, or before it.                       *)
TimesOut(r) ==
    /\ r \in waiting
    /\ got[r] = NoList
    /\ IF GoneWait(r) THEN UNCHANGED ops ELSE Spend
    /\ slot' = "none"
    /\ waiting' = waiting \ {r}
    /\ UNCHANGED got

PollTimesOut(p) ==
    /\ TimesOut(p)
    /\ UNCHANGED <<server, asked, net, op, memory>>

-----------------------------------------------------------------------------
(* The receive loop.                                                       *)

Show(t, h) == cache' = [cache EXCEPT ![t] = h] /\ shown' = shown \cup {t}

(* Mutant of ReadPush: an entry that is there keeps its volume.            *)
ReadPushKeepingLots(m) ==
    /\ IF m.pos.lots = 0
         THEN UNCHANGED <<memory, reading, asked>>
         ELSE /\ Show(m.ticket, IF cache[m.ticket] = Nothing THEN m.pos
                                ELSE [cache[m.ticket] EXCEPT !.stop = m.pos.stop])
              /\ UNCHANGED <<cut, rewritten>>
              /\ IF cache[m.ticket] = Nothing /\ "extra" \notin waiting /\ Room
                   THEN Ask("extra")
                   ELSE UNCHANGED <<reading, asked>>
    /\ UNCHANGED op

(* _parse_one_position_record: a record with no volume is skipped; a       *)
(* ticket that is new to the cache starts a poll.                          *)
ReadPush(m) ==
    /\ IF m.pos.lots = 0
         THEN UNCHANGED <<memory, reading, asked>>
         ELSE /\ Show(m.ticket, m.pos)
              /\ UNCHANGED <<cut, rewritten>>
              /\ IF cache[m.ticket] = Nothing /\ "extra" \notin waiting /\ Room
                   THEN Ask("extra")
                   ELSE UNCHANGED <<reading, asked>>
    /\ UNCHANGED op

ReadList(m) ==
    /\ slot' = "none"
    /\ IF slot = "none" THEN UNCHANGED got ELSE got' = [got EXCEPT ![slot] = m.list]
    /\ UNCHANGED <<waiting, asked, op, memory>>

(* The result goes into the queue that _send_trade looks at.               *)
ReadResult(m) ==
    /\ op' = [op EXCEPT !.phase = IF m.done THEN "done" ELSE "refused",
                        !.ticket = IF m.done THEN m.ticket ELSE @]
    /\ UNCHANGED <<reading, asked, memory>>

Receive ==
    /\ net # <<>>
    /\ net' = Tail(net)
    /\ \/ Head(net).is = "push" /\ ReadPush(Head(net))
       \/ Head(net).is = "list" /\ ReadList(Head(net))
       \/ Head(net).is = "result" /\ ReadResult(Head(net))
    /\ UNCHANGED <<server, ops>>

-----------------------------------------------------------------------------
(* The tasks.                                                              *)

Resume(r) ==
    /\ r \in waiting
    /\ got[r] # NoList
    /\ waiting' = waiting \ {r}
    /\ got' = [got EXCEPT ![r] = NoList]
    /\ UNCHANGED slot

(* Mutant of ApplyPoll: what is not in the list is dropped.                *)
ApplyPollPruning(p) ==
    /\ Resume(p)
    /\ cache' = [t \in Tickets |->
                   IF cache[t].lots > 0 /\ got[p][t].lots > 0
                     THEN [cache[t] EXCEPT !.stop = got[p][t].stop] ELSE Nothing]
    /\ UNCHANGED <<server, ops, asked, net, op, shown, cut, rewritten>>

(* Mutant of ApplyPoll: the whole record of the list goes into the entry.  *)
ApplyPollWhole(p) ==
    /\ Resume(p)
    /\ cache' = [t \in Tickets |->
                   IF cache[t].lots > 0 /\ got[p][t].lots > 0 THEN got[p][t] ELSE cache[t]]
    /\ UNCHANGED <<server, ops, asked, net, op, shown, cut, rewritten>>

(* Mutant of ApplyPoll: only a stop that is missing is filled in.          *)
ApplyPollIfUnset(p) ==
    /\ Resume(p)
    /\ cache' = [t \in Tickets |->
                   IF cache[t].lots > 0 /\ got[p][t].lots > 0 /\ cache[t].stop = 0
                     THEN [cache[t] EXCEPT !.stop = got[p][t].stop] ELSE cache[t]]
    /\ UNCHANGED <<server, ops, asked, net, op, shown, cut, rewritten>>

(* _do_poll_positions: only tickets of both the list and the cache change, *)
(* and only in the stop.                                                   *)
ApplyPoll(p) ==
    /\ Resume(p)
    /\ cache' = [t \in Tickets |->
                   IF cache[t].lots > 0 /\ got[p][t].lots > 0
                     THEN [cache[t] EXCEPT !.stop = got[p][t].stop] ELSE cache[t]]
    /\ UNCHANGED <<server, ops, asked, net, op, shown, cut, rewritten>>

(* A user call that looks the position up first, or only reads the list.   *)
CallWithLookup(o) ==
    /\ op.phase = "idle"
    /\ o.ticket <= opened
    /\ Spend
    /\ Room
    /\ op' = [o EXCEPT !.phase = "looking"]
    /\ Ask("user")
    /\ UNCHANGED <<server, net, memory>>

(* What the lookup found goes into the trade; a close is for all of it.    *)
Look(pos) ==
    IF op.call = "look" \/ pos = Nothing
      THEN NoOp
      ELSE [op EXCEPT !.phase = "sent",
                      !.lots = IF op.call = "close" THEN pos.lots ELSE @,
                      !.stop = IF op.keep THEN pos.stop ELSE @]

(* get_positions adds what the cache lacks, and the caller falls back on   *)
(* the cache for a ticket that is not in the list.                         *)
ApplyLookup ==
    LET list == got["user"]
        new == {t \in Tickets : cache[t] = Nothing /\ list[t].lots > 0}
    IN  /\ Resume("user")
        /\ cache' = [t \in Tickets |-> IF t \in new THEN list[t] ELSE cache[t]]
        /\ shown' = shown \cup new
        /\ op' = IF op.call = "look" THEN NoOp
                 ELSE Look(IF list[op.ticket].lots > 0 THEN list[op.ticket]
                           ELSE cache'[op.ticket])
        /\ UNCHANGED <<server, ops, asked, net, cut, rewritten>>

LookupTimesOut ==
    /\ TimesOut("user")
    /\ op' = IF op.call = "look" THEN NoOp ELSE Look(cache[op.ticket])
    /\ UNCHANGED <<server, asked, net, memory>>

(* A call that looks nothing up: modify_position's own Position has no     *)
(* stop to keep.                                                           *)
CallAtOnce(o) ==
    /\ op.phase = "idle"
    /\ o.ticket <= opened
    /\ Spend
    /\ op' = [o EXCEPT !.phase = "sent"]
    /\ UNCHANGED <<server, asked, net, reading, memory>>

(* Mutant of Without: an entry that is used up stays.                      *)
WithoutDropping(h, l) == [h EXCEPT !.lots = @ - l]

Without(h, l) == IF h.lots > l THEN [h EXCEPT !.lots = @ - l] ELSE Nothing

Stores == op.phase = "done" /\ op.call = "buy"

(* Mutant of Cuts: partial_close does not look at the retcode.             *)
CutsUnchecked == op.call = "partial" /\ cache[op.ticket] # Nothing

Cuts == op.phase = "done" /\ op.call = "partial" /\ cache[op.ticket] # Nothing

(* _trade stores what it opened, without its stop; partial_close takes its *)
(* volume off the entry; the others leave the cache alone.                 *)
FinishTrade ==
    LET t == op.ticket
    IN  /\ op.phase \in {"done", "refused"}
        /\ op' = NoOp
        /\ \/ /\ Stores
              /\ Show(t, [lots |-> op.lots, stop |-> 0])
              /\ rewritten' = IF cache[t] = Nothing THEN rewritten ELSE rewritten \cup {t}
              /\ UNCHANGED cut
           \/ /\ Cuts
              /\ cache' = [cache EXCEPT ![t] = Without(@, op.lots)]
              /\ cut' = [cut EXCEPT ![t] = @ + (IF op.phase = "done" THEN op.lots ELSE 0)]
              /\ UNCHANGED <<shown, rewritten>>
           \/ ~Stores /\ ~Cuts /\ UNCHANGED memory
        /\ UNCHANGED <<server, ops, asked, net, reading>>

Next ==
    \/ \E t \in Tickets, h \in Holdings : OutsideChange(t, h)
    \/ Relist
    \/ AnswerList
    \/ ServerTrade
    \/ Receive
    \/ \E p \in Pollers : StartPoll(p) \/ ApplyPoll(p) \/ PollTimesOut(p)
    \/ \E o \in WithLookup : CallWithLookup(o)
    \/ \E o \in AtOnce : CallAtOnce(o)
    \/ ApplyLookup
    \/ LookupTimesOut
    \/ FinishTrade

Spec == Init /\ [][Next]_vars

(* The server answers and its list catches up; the event loop runs the     *)
(* receive loop, the poll loop and the tasks.                              *)
Fairness ==
    /\ WF_vars(Relist) /\ WF_vars(AnswerList) /\ WF_vars(ServerTrade)
    /\ WF_vars(Receive)
    /\ WF_vars(StartPoll("loop"))
    /\ \A p \in Pollers : WF_vars(ApplyPoll(p)) /\ WF_vars(GoneWait(p) /\ PollTimesOut(p))
    /\ WF_vars(ApplyLookup) /\ WF_vars(GoneWait("user") /\ LookupTimesOut)
    /\ WF_vars(FinishTrade)

FairSpec == Spec /\ Fairness

-----------------------------------------------------------------------------

TypeOK ==
    /\ opened \in 0..MaxTickets
    /\ held \in [Tickets -> Holdings]
    /\ listed \in [Tickets -> Holdings]
    /\ ops \in 0..MaxOps
    /\ asked \in 0..MaxLists
    /\ slot \in Readers \cup {"none"}
    /\ \A r \in Readers : got[r] \in {NoList} \cup [Tickets -> Holdings]
    /\ waiting \subseteq Readers
    /\ op.phase = "looking" <=> "user" \in waiting
    /\ cache \in [Tickets -> Holdings]
    /\ shown \subseteq 1..opened
    /\ \A t \in Tickets : held[t].lots = 0 => held[t] = Nothing
    /\ \A t \in Tickets : cache[t].lots = 0 => cache[t] = Nothing
    /\ \A t \in Tickets : cache[t] # Nothing => t \in shown

(* A position that the cache has shown is never understated by more than   *)
(* partial_close took off its entry: whatever is stale in a push, a list   *)
(* or a result overstates it.                                              *)
NeverUnderstated ==
    \A t \in shown : cache[t].lots + cut[t] >= held[t].lots

(* close_position after a lookup closes the whole position or is refused,  *)
(* however stale the list and the cache are, unless partial_close has been *)
(* used on it.                                                             *)
CloseWhole ==
    op.phase = "sent" /\ op.call = "close" /\ op.looked
    => op.lots + cut[op.ticket] >= held[op.ticket].lots

(* When every push has been read, the volume that the cache has for an     *)
(* open position is right, but where partial_close took its volume off a   *)
(* second time or the result of buy replaced a push.                       *)
LotsSettle ==
    \A t \in shown \ rewritten :
        /\ held[t] # Nothing
        /\ cut[t] = 0
        /\ \A n \in 1..Len(net) : net[n].is = "push" => net[n].ticket # t
        => cache[t].lots = held[t].lots

(* The volume of an entry never rises again: no push, list or result that  *)
(* is read late brings a former volume back, but where partial_close took  *)
(* its volume off before the push came, and when the result of buy replaces *)
(* a push.                                                                 *)
VolumeOnlyFalls ==
    [][\A t \in Tickets :
          cache[t] # Nothing /\ cache'[t].lots > cache[t].lots
          => cut[t] > 0 \/ (FinishTrade /\ t \in rewritten')]_vars

(* When the positions change no more, the polls bring every stop in the    *)
(* cache up to date, for good.                                             *)
StopsConverge ==
    <>[](\A t \in Tickets :
            cache[t] # Nothing /\ held[t] # Nothing => cache[t].stop = held[t].stop)

(* README, modify_position: "None = keep current".                         *)
KeepsCurrent ==
    [][ServerTrade /\ op.call = "modify" /\ op.keep =>
          \A t \in Tickets : held'[t].stop = held[t].stop]_vars
=============================================================================
