------------------------ MODULE TradeExchange_proofs ------------------------
(***************************************************************************)
(* What a trade returns, for any number of trades, parallel or not.        *)
(***************************************************************************)
EXTENDS TradeExchange, TLAPS

Unsent == {"unused", "sending"}
Places == 1..Len(queue)

(* Nothing the server says about a trade is around before it is sent, and  *)
(* a trade has no outcome before it ended.                                 *)
NothingEarly ==
    /\ \A t \in Trades : phase[t] \in Unsent => owed[t] = {} /\ clock[t] = "fresh"
    /\ \A n \in Places : phase[queue[n].of] \notin Unsent
    /\ \A t \in Trades : reply[t] # Nobody => phase[reply[t]] \notin Unsent
    /\ \A t \in Trades : outcome[t].of # Nobody => phase[outcome[t].of] \notin Unsent
    /\ \A t \in Trades : phase[t] \notin Ended => outcome[t] = NoOutcome
    /\ \A t \in Trades : outcome[t].by = "none" <=> outcome[t].of = Nobody

(* A result is owed, or in the queue once, or returned by one trade; a     *)
(* reply is owed, or in one future.                                        *)
ResultOnce ==
    /\ \A n \in Places : queue[n].final => "result" \notin owed[queue[n].of]
    /\ \A n, m \in Places :
          queue[n].final /\ queue[m].final /\ queue[n].of = queue[m].of => n = m
    /\ \A n \in Places, t \in Trades :
          queue[n].final /\ outcome[t].by = "result" => outcome[t].of # queue[n].of
    /\ \A t \in Trades : outcome[t].by = "result" => "result" \notin owed[outcome[t].of]
    /\ \A t, u \in Trades :
          outcome[t].by = "result" /\ outcome[t] = outcome[u] => t = u

ReplyOnce ==
    /\ \A t \in Trades : reply[t] # Nobody => "reply" \notin owed[reply[t]]
    /\ \A t, u \in Trades : reply[t] # Nobody /\ reply[t] = reply[u] => t = u
    /\ \A t \in Trades : outcome[t].by = "reply" => outcome[t].of = reply[t]

(* A ticket is stored when its result is returned.                         *)
BookReturned ==
    \A t, u \in Trades : book[u] = t => outcome[t] = [by |-> "result", of |-> u]

(* A modification gets no event; of a trade's events the result is last.   *)
ResultLast ==
    /\ \A t \in Trades : owed[t] \subseteq Messages(kind[t])
    /\ \A n \in Places : kind[queue[n].of] # "modify"
    /\ \A t \in Trades : "ack" \in owed[t] => "result" \in owed[t]
    /\ \A n \in Places : queue[n].final => "ack" \notin owed[queue[n].of]
    /\ \A n, m \in Places : queue[n].final /\ queue[m].of = queue[n].of => m <= n

(* Trades that are active together are on record.                          *)
OverlapSeen ==
    /\ \A t, u \in Trades :
          phase[t] \in Active /\ phase[u] \in Active /\ t # u => t \in overlapped
    /\ \A t \in Trades : phase[t] \in Active /\ t < begun => t \in overlapped

(* An undisturbed trade, while it is active, finds what it was sent where  *)
(* it looks, and leaves nothing behind when it has ended.                  *)
WellServed(t) ==
    /\ IF phase[t] = "sending" \/ "reply" \in owed[t] THEN slot = t ELSE reply[t] = t
    /\ phase[t] = "polling" /\ kind[t] # "modify" /\ "result" \notin owed[t] =>
          \E n \in Places : queue[n] = [of |-> t, final |-> TRUE]
    /\ "reply" \in owed[t] /\ kind[t] # "modify" => "result" \in owed[t]
    /\ clock[t] # "overdue"
    /\ clock[t] = "late" => kind[t] = "modify" /\ reply[t] = t

UndisturbedActive ==
    \A t \in Trades : Undisturbed(t) /\ phase[t] \in Active => WellServed(t)

UndisturbedEnded ==
    /\ \A t \in Trades : Undisturbed(t) /\ phase[t] \in Ended => owed[t] = {}
    /\ \A n \in Places : Undisturbed(queue[n].of) => phase[queue[n].of] \in Active
    /\ \A t \in Trades : reply[t] # Nobody /\ Undisturbed(reply[t]) => reply[t] = t

IInv ==
    /\ TypeOK
    /\ NothingEarly
    /\ ResultOnce
    /\ ReplyOnce
    /\ BookReturned
    /\ ResultLast
    /\ OverlapSeen
    /\ UndisturbedActive
    /\ UndisturbedEnded
    /\ OnlyDisturbedStray
    /\ UndisturbedExact

-----------------------------------------------------------------------------
(* What the two steps that do most leave behind.                           *)

Started(k, b) ==
    /\ b = begun + 1
    /\ phase[b] = "unused"
    /\ begun' = b
    /\ kind' = [kind EXCEPT ![b] = k]
    /\ phase' = [phase EXCEPT ![b] = "sending"]
    /\ queue' = <<>> /\ Len(queue') = 0
    /\ slot' = b
    /\ overlapped' = IF InFlight = {} THEN overlapped
                     ELSE overlapped \cup InFlight \cup {b}
    /\ UNCHANGED <<clock, tardy, done, owed, reply, outcome, book>>

Took(t, n, u) ==
    /\ queue[n] = [of |-> u, final |-> TRUE]
    /\ phase[t] = "polling" /\ clock[t] # "overdue"
    /\ phase' = [phase EXCEPT ![t] = "returned"]
    /\ outcome' = [outcome EXCEPT ![t] = [by |-> "result", of |-> u]]
    /\ slot' = Nobody
    /\ book' = IF kind[t] \in Books /\ u \in done
                 THEN [book EXCEPT ![u] = t] ELSE book
    /\ queue' \in Seq(Events)
    /\ Len(queue') = Len(queue) - n
    /\ \A m \in 1..Len(queue') : m + n \in Places /\ queue'[m] = queue[m + n]
    /\ UNCHANGED <<begun, kind, clock, tardy, done, owed, reply, overlapped>>

LEMMA QueueTyped ==
  ASSUME TypeOK
  PROVE  /\ Len(queue) \in Nat
         /\ \A n \in Places : queue[n] \in Events /\ queue[n].of \in Trades
<1>1. queue \in Seq(Events)
  BY DEF TypeOK
<1>2. Len(queue) \in Nat /\ \A n \in 1..Len(queue) : queue[n] \in Events
  BY <1>1
<1> QED BY <1>2 DEF Places, Events

LEMMA StartFacts ==
  ASSUME TypeOK, NEW k \in Kinds, Start(k)
  PROVE  \E b \in Trades : Started(k, b)
<1>1. begun + 1 \in Trades /\ phase[begun + 1] = "unused"
  BY TradeAssumption DEF Start, TypeOK, Trades
<1> QED BY <1>1 DEF Start, Started

LEMMA TakeResultFacts ==
  ASSUME TypeOK, NEW t \in Trades, TakeResult(t)
  PROVE  \E n \in Places, u \in Trades : Took(t, n, u)
<1>1. PICK n \in 1..Len(queue) :
        /\ FirstResult(n)
        /\ Finish(t, "returned", [by |-> "result", of |-> queue[n].of])
        /\ book' = IF kind[t] \in Books /\ queue[n].of \in done
                     THEN [book EXCEPT ![queue[n].of] = t] ELSE book
        /\ queue' = SubSeq(queue, n + 1, Len(queue))
  BY DEF TakeResult
<1>2. queue[n] \in Events /\ queue \in Seq(Events)
  BY <1>1 DEF TypeOK
<1>3. queue[n].of \in Trades /\ queue[n] = [of |-> queue[n].of, final |-> TRUE]
  BY <1>1, <1>2 DEF Events, FirstResult
<1>4. /\ queue' \in Seq(Events)
      /\ Len(queue') = Len(queue) - n
      /\ \A m \in 1..Len(queue') : m + n \in 1..Len(queue) /\ queue'[m] = queue[m + n]
  BY <1>1, <1>2
<1> QED BY <1>1, <1>3, <1>4 DEF TakeResult, Finish, Places, Took

LEMMA NextType ==
  ASSUME TypeOK, [Next]_vars PROVE TypeOK'
<1> USE TradeAssumption DEF Trades, Nobody, Active, Ended
<1>1. ASSUME NEW k \in Kinds, Start(k) PROVE TypeOK'
  <2>1. PICK b \in Trades : Started(k, b)
    BY <1>1, StartFacts
  <2>2. queue' \in Seq(Events)
    BY <2>1 DEF Started
  <2>3. /\ kind' \in [Trades -> Kinds \cup {"none"}]
        /\ phase' \in [Trades -> {"unused"} \cup Active \cup Ended]
    BY <2>1 DEF Started, TypeOK
  <2>4. overlapped' \subseteq Trades
    BY <2>1 DEF Started, TypeOK, InFlight
  <2>5. b <= MaxTrades /\ begun' \in 0..MaxTrades /\ reply'[b] = Nobody
    BY <2>1 DEF Started, TypeOK
  <2>6. \A v \in Trades : phase'[v] # "unused" <=> v <= begun'
    BY <2>1 DEF Started, TypeOK
  <2>7. \A v \in Trades : reply'[v] # Nobody => phase'[v] # "unused"
    BY <2>1 DEF Started, TypeOK
  <2> QED BY <2>1, <2>2, <2>3, <2>4, <2>5, <2>6, <2>7 DEF Started, TypeOK
<1>2. ASSUME NEW t \in Trades, Send(t) PROVE TypeOK'
  BY <1>2 DEF Send, TypeOK, Events, Outcomes, NoOutcome, Messages, FirstResult, HasReply
<1>3. ASSUME NEW t \in Trades, DeliverReply(t) PROVE TypeOK'
  BY <1>3 DEF DeliverReply, Delivered, TypeOK, Events, Outcomes, NoOutcome, Messages, FirstResult, HasReply
<1>4. ASSUME NEW t \in Trades, NEW m \in {"ack", "result"}, DeliverEvent(t, m) PROVE TypeOK'
  BY <1>4 DEF DeliverEvent, Delivered, TypeOK, Events, Outcomes, NoOutcome, Messages, FirstResult, HasReply
<1>5. ASSUME NEW t \in Trades, TakeResult(t) PROVE TypeOK'
  <2>1. PICK n \in Places, u \in Trades : Took(t, n, u)
    BY <1>5, TakeResultFacts
  <2> QED BY <2>1 DEF Took, TypeOK, Events, Outcomes, NoOutcome, Messages, FirstResult, HasReply
<1>6. ASSUME NEW t \in Trades, DropAcks(t) PROVE TypeOK'
  BY <1>6 DEF DropAcks, TypeOK, Events, Outcomes, NoOutcome, Messages, FirstResult, HasReply
<1>7. ASSUME NEW t \in Trades, TakeReply(t) PROVE TypeOK'
  BY <1>7 DEF TakeReply, Finish, TypeOK, Events, Outcomes, NoOutcome, Messages, FirstResult, HasReply
<1>8. ASSUME NEW t \in Trades, Age(t) PROVE TypeOK'
  BY <1>8 DEF Age, TypeOK, Events, Outcomes, NoOutcome, Messages, FirstResult, HasReply
<1>9. ASSUME NEW t \in Trades, GiveUp(t) PROVE TypeOK'
  BY <1>9 DEF GiveUp, Finish, TypeOK, Events, Outcomes, NoOutcome, Messages, FirstResult, HasReply
<1>10. ASSUME NEW t \in Trades, Abort(t) PROVE TypeOK'
  BY <1>10 DEF Abort, TypeOK, Events, Outcomes, NoOutcome, Messages, FirstResult, HasReply
<1>11. CASE UNCHANGED vars
  BY <1>11 DEF vars, TypeOK, Events, Outcomes, NoOutcome, Messages, FirstResult, HasReply
<1> QED
  BY <1>1, <1>2, <1>3, <1>4, <1>5, <1>6, <1>7, <1>8, <1>9, <1>10, <1>11 DEF Next, Over

LEMMA NextNothingEarly ==
  ASSUME TypeOK, NothingEarly, [Next]_vars PROVE NothingEarly'
<1> USE TradeAssumption DEF Trades, Nobody, Active, Ended
<1>1. ASSUME NEW k \in Kinds, Start(k) PROVE NothingEarly'
  <2>1. PICK b \in Trades : Started(k, b)
    BY <1>1, StartFacts
  <2>2. \A v \in Trades : v # b => phase'[v] = phase[v]
    BY <2>1 DEF Started, TypeOK
  <2>3. phase[b] = "unused" /\ phase'[b] = "sending"
    BY <2>1 DEF Started, TypeOK
  <2>4. Places' = {} /\ UNCHANGED <<owed, reply, outcome, clock>>
    BY <2>1 DEF Started, Places
  <2>5. \A v \in Trades : phase'[v] \in Unsent <=> phase[v] \in Unsent
    BY <2>2, <2>3 DEF Unsent
  <2>6. \A v \in Trades : phase'[v] \in Ended <=> phase[v] \in Ended
    BY <2>2, <2>3
  <2>7. \A v \in Trades : outcome[v].of # Nobody => phase'[outcome[v].of] \notin Unsent
    <3> SUFFICES ASSUME NEW v \in Trades, outcome[v].of # Nobody
                 PROVE  phase'[outcome[v].of] \notin Unsent
      OBVIOUS
    <3>1. outcome[v].of \in Trades
      BY DEF TypeOK, Outcomes
    <3> QED BY <2>5, <3>1 DEF NothingEarly
  <2>8. \A v \in Trades : reply[v] # Nobody => phase'[reply[v]] \notin Unsent
    BY <2>5 DEF NothingEarly, TypeOK
  <2> QED BY <2>4, <2>5, <2>6, <2>7, <2>8 DEF NothingEarly
<1>2. ASSUME NEW t \in Trades, Send(t) PROVE NothingEarly'
  <2>1. /\ phase[t] = "sending" /\ phase' = [phase EXCEPT ![t] = "polling"]
        /\ owed' = [owed EXCEPT ![t] = Messages(kind[t])]
        /\ UNCHANGED <<clock, queue, reply, outcome>>
    BY <1>2 DEF Send
  <2>2. \A v \in Trades : v # t => phase'[v] = phase[v] /\ owed'[v] = owed[v]
    BY <2>1 DEF TypeOK
  <2>3. phase'[t] = "polling"
    BY <2>1 DEF TypeOK
  <2>4. \A v \in Trades : phase[v] \notin Unsent => phase'[v] \notin Unsent
    BY <2>2, <2>3 DEF Unsent
  <2>5. \A v \in Trades : phase'[v] \in Unsent => owed'[v] = {} /\ clock[v] = "fresh"
    BY <2>2, <2>3 DEF NothingEarly, Unsent
  <2>6. \A n \in Places : phase'[queue[n].of] \notin Unsent
    BY <2>4, QueueTyped DEF NothingEarly
  <2>7. \A v \in Trades : reply[v] # Nobody => phase'[reply[v]] \notin Unsent
    BY <2>4 DEF NothingEarly, TypeOK
  <2>8. \A v \in Trades : outcome[v].of # Nobody => phase'[outcome[v].of] \notin Unsent
    BY <2>4 DEF NothingEarly, TypeOK, Outcomes
  <2>9. \A v \in Trades : phase'[v] \notin Ended => phase[v] \notin Ended
    BY <2>1, <2>2
  <2> QED BY <2>1, <2>5, <2>6, <2>7, <2>8, <2>9 DEF NothingEarly, Places
<1>3. ASSUME NEW t \in Trades, DeliverReply(t) PROVE NothingEarly'
  BY <1>3 DEF DeliverReply, Delivered, TypeOK, Events, Outcomes, NoOutcome, NothingEarly, Unsent, Places, HasReply
<1>4. ASSUME NEW t \in Trades, NEW m \in {"ack", "result"}, DeliverEvent(t, m) PROVE NothingEarly'
  BY <1>4 DEF DeliverEvent, Delivered, TypeOK, Events, Outcomes, NoOutcome, NothingEarly, Unsent, Places, HasReply
<1>5. ASSUME NEW t \in Trades, TakeResult(t) PROVE NothingEarly'
  <2>1. PICK n \in Places, u \in Trades : Took(t, n, u)
    BY <1>5, TakeResultFacts
  <2>2. phase[u] \notin Unsent
    BY <2>1 DEF Took, NothingEarly
  <2>3. \A v \in Trades : phase[v] \notin Unsent => phase'[v] \notin Unsent
    BY <2>1 DEF Took, TypeOK, Unsent
  <2>4. \A v \in Trades : phase'[v] \in Unsent => phase[v] \in Unsent
    BY <2>1 DEF Took, TypeOK, Unsent
  <2>5. \A m \in Places' : phase'[queue'[m].of] \notin Unsent
    <3>1. \A m \in Places' : m + n \in Places /\ queue'[m] = queue[m + n]
      BY <2>1 DEF Took, Places
    <3> QED BY <3>1, <2>3, QueueTyped DEF NothingEarly
  <2>6. \A v \in Trades : v # t => outcome'[v] = outcome[v]
    BY <2>1 DEF Took, TypeOK
  <2>7. outcome'[t] = [by |-> "result", of |-> u] /\ phase'[t] = "returned"
    BY <2>1 DEF Took, TypeOK
  <2>8. \A v \in Trades : outcome'[v].of # Nobody => phase'[outcome'[v].of] \notin Unsent
    <3> SUFFICES ASSUME NEW v \in Trades, outcome'[v].of # Nobody
                 PROVE  phase'[outcome'[v].of] \notin Unsent
      OBVIOUS
    <3>1. CASE v = t
      BY <3>1, <2>2, <2>3, <2>7
    <3>2. CASE v # t
      <4>1. outcome[v].of \in Trades
        BY <2>6, <3>2 DEF TypeOK, Outcomes
      <4> QED BY <2>3, <2>6, <3>2, <4>1 DEF NothingEarly
    <3> QED BY <3>1, <3>2
  <2>9. UNCHANGED <<owed, reply>> /\ \A v \in Trades : v # t => phase'[v] = phase[v]
    BY <2>1 DEF Took, TypeOK
  <2>10. \A v \in Trades : phase'[v] \in Unsent => owed'[v] = {} /\ clock'[v] = "fresh"
    BY <2>1, <2>4, <2>9 DEF NothingEarly, Took
  <2>11. \A v \in Trades : reply'[v] # Nobody => phase'[reply'[v]] \notin Unsent
    BY <2>3, <2>9 DEF NothingEarly, TypeOK
  <2>12. \A v \in Trades : phase'[v] \notin Ended => outcome'[v] = NoOutcome
    BY <2>6, <2>7, <2>9 DEF NothingEarly
  <2>13. \A v \in Trades : outcome'[v].by = "none" <=> outcome'[v].of = Nobody
    BY <2>6, <2>7 DEF NothingEarly
  <2> QED BY <2>5, <2>8, <2>10, <2>11, <2>12, <2>13 DEF NothingEarly
<1>6. ASSUME NEW t \in Trades, DropAcks(t) PROVE NothingEarly'
  BY <1>6 DEF DropAcks, TypeOK, Events, Outcomes, NoOutcome, NothingEarly, Unsent, Places, HasReply
<1>7. ASSUME NEW t \in Trades, TakeReply(t) PROVE NothingEarly'
  BY <1>7 DEF TakeReply, Finish, TypeOK, Events, Outcomes, NoOutcome, NothingEarly, Unsent, Places, HasReply
<1>8. ASSUME NEW t \in Trades, Age(t) PROVE NothingEarly'
  BY <1>8 DEF Age, TypeOK, Events, Outcomes, NoOutcome, NothingEarly, Unsent, Places, HasReply
<1>9. ASSUME NEW t \in Trades, GiveUp(t) PROVE NothingEarly'
  BY <1>9 DEF GiveUp, Finish, TypeOK, Events, Outcomes, NoOutcome, NothingEarly, Unsent, Places, HasReply
<1>10. ASSUME NEW t \in Trades, Abort(t) PROVE NothingEarly'
  BY <1>10 DEF Abort, TypeOK, Events, Outcomes, NoOutcome, NothingEarly, Unsent, Places, HasReply
<1>11. CASE UNCHANGED vars
  BY <1>11 DEF vars, TypeOK, Events, Outcomes, NoOutcome, NothingEarly, Unsent, Places, HasReply
<1> QED
  BY <1>1, <1>2, <1>3, <1>4, <1>5, <1>6, <1>7, <1>8, <1>9, <1>10, <1>11 DEF Next, Over

LEMMA NextOverlapSeen ==
  ASSUME TypeOK, OverlapSeen, [Next]_vars PROVE OverlapSeen'
<1> USE TradeAssumption DEF Trades, Nobody, Active, Ended
<1>1. ASSUME NEW k \in Kinds, Start(k) PROVE OverlapSeen'
  <2>1. PICK b \in Trades : Started(k, b)
    BY <1>1, StartFacts
  <2>2. \A v \in Trades : v # b => phase'[v] = phase[v]
    BY <2>1 DEF Started, TypeOK
  <2>3. phase'[b] = "sending" /\ overlapped \subseteq overlapped'
    BY <2>1 DEF Started, TypeOK
  <2>4. \A v \in Trades : phase[v] \in Active => v \in overlapped' /\ b \in overlapped'
    BY <2>1 DEF Started, InFlight
  <2>5. b = begun + 1 /\ begun' = b
    BY <2>1 DEF Started
  <2>6. \A v \in Trades : phase'[v] \in Active /\ v # b => v \in overlapped'
    BY <2>2, <2>4
  <2>7. \A v \in Trades : phase'[v] \in Active /\ v < begun' => v \in overlapped'
    BY <2>5, <2>6
  <2>8. \A v, w \in Trades :
           phase'[v] \in Active /\ phase'[w] \in Active /\ v # w => v \in overlapped'
    BY <2>2, <2>4
  <2> QED BY <2>7, <2>8 DEF OverlapSeen
<1>2. ASSUME NEW t \in Trades, Send(t) PROVE OverlapSeen'
  BY <1>2 DEF Send, TypeOK, OverlapSeen, InFlight
<1>3. ASSUME NEW t \in Trades, DeliverReply(t) PROVE OverlapSeen'
  BY <1>3 DEF DeliverReply, Delivered, TypeOK, OverlapSeen, InFlight
<1>4. ASSUME NEW t \in Trades, NEW m \in {"ack", "result"}, DeliverEvent(t, m) PROVE OverlapSeen'
  BY <1>4 DEF DeliverEvent, Delivered, TypeOK, OverlapSeen, InFlight
<1>5. ASSUME NEW t \in Trades, TakeResult(t) PROVE OverlapSeen'
  <2>1. PICK n \in Places, u \in Trades : Took(t, n, u)
    BY <1>5, TakeResultFacts
  <2> QED BY <2>1 DEF Took, TypeOK, OverlapSeen, InFlight
<1>6. ASSUME NEW t \in Trades, DropAcks(t) PROVE OverlapSeen'
  BY <1>6 DEF DropAcks, TypeOK, OverlapSeen, InFlight
<1>7. ASSUME NEW t \in Trades, TakeReply(t) PROVE OverlapSeen'
  BY <1>7 DEF TakeReply, Finish, TypeOK, OverlapSeen, InFlight
<1>8. ASSUME NEW t \in Trades, Age(t) PROVE OverlapSeen'
  BY <1>8 DEF Age, TypeOK, OverlapSeen, InFlight
<1>9. ASSUME NEW t \in Trades, GiveUp(t) PROVE OverlapSeen'
  BY <1>9 DEF GiveUp, Finish, TypeOK, OverlapSeen, InFlight
<1>10. ASSUME NEW t \in Trades, Abort(t) PROVE OverlapSeen'
  BY <1>10 DEF Abort, TypeOK, OverlapSeen, InFlight
<1>11. CASE UNCHANGED vars
  BY <1>11 DEF vars, TypeOK, OverlapSeen, InFlight
<1> QED
  BY <1>1, <1>2, <1>3, <1>4, <1>5, <1>6, <1>7, <1>8, <1>9, <1>10, <1>11 DEF Next, Over

LEMMA NextReplyOnce ==
  ASSUME TypeOK, NothingEarly, ReplyOnce, [Next]_vars PROVE ReplyOnce'
<1> USE TradeAssumption DEF Trades, Nobody, Active, Ended
<1>1. ASSUME NEW k \in Kinds, Start(k) PROVE ReplyOnce'
  <2>1. PICK b \in Trades : Started(k, b)
    BY <1>1, StartFacts
  <2> QED BY <2>1 DEF Started, TypeOK, ReplyOnce, NothingEarly, Unsent, NoOutcome, Outcomes, HasReply
<1>2. ASSUME NEW t \in Trades, Send(t) PROVE ReplyOnce'
  BY <1>2 DEF Send, TypeOK, ReplyOnce, NothingEarly, Unsent, NoOutcome, Outcomes, HasReply
<1>3. ASSUME NEW t \in Trades, DeliverReply(t) PROVE ReplyOnce'
  <2>1. "reply" \in owed[t] /\ owed' = [owed EXCEPT ![t] = @ \ {"reply"}]
    BY <1>3 DEF DeliverReply, Delivered
  <2>2. \A v \in Trades : owed'[v] \subseteq owed[v]
    BY <2>1 DEF TypeOK
  <2>3. CASE slot = Nobody
    BY <1>3, <2>2, <2>3 DEF DeliverReply, ReplyOnce, TypeOK
  <2>4. CASE slot # Nobody
    <3>1. slot \in Trades /\ reply[slot] = Nobody
      BY <2>4 DEF TypeOK
    <3>2. reply' = [reply EXCEPT ![slot] = t] /\ outcome' = outcome
      BY <1>3, <2>4 DEF DeliverReply
    <3>3. reply'[slot] = t /\ \A v \in Trades : v # slot => reply'[v] = reply[v]
      BY <3>1, <3>2 DEF TypeOK
    <3>4. \A v \in Trades : reply[v] # t
      BY <2>1 DEF ReplyOnce
    <3>5. outcome[slot].by # "reply"
      BY <3>1 DEF ReplyOnce, NothingEarly
    <3>6. "reply" \notin owed'[t]
      BY <2>1 DEF TypeOK
    <3> QED BY <2>2, <3>1, <3>2, <3>3, <3>4, <3>5, <3>6 DEF ReplyOnce, TypeOK
  <2> QED BY <2>3, <2>4
<1>4. ASSUME NEW t \in Trades, NEW m \in {"ack", "result"}, DeliverEvent(t, m) PROVE ReplyOnce'
  BY <1>4 DEF DeliverEvent, Delivered, TypeOK, ReplyOnce, NothingEarly, Unsent, NoOutcome, Outcomes, HasReply
<1>5. ASSUME NEW t \in Trades, TakeResult(t) PROVE ReplyOnce'
  <2>1. PICK n \in Places, u \in Trades : Took(t, n, u)
    BY <1>5, TakeResultFacts
  <2> QED BY <2>1 DEF Took, TypeOK, ReplyOnce, NothingEarly, Unsent, NoOutcome, Outcomes, HasReply
<1>6. ASSUME NEW t \in Trades, DropAcks(t) PROVE ReplyOnce'
  BY <1>6 DEF DropAcks, TypeOK, ReplyOnce, NothingEarly, Unsent, NoOutcome, Outcomes, HasReply
<1>7. ASSUME NEW t \in Trades, TakeReply(t) PROVE ReplyOnce'
  BY <1>7 DEF TakeReply, Finish, TypeOK, ReplyOnce, NothingEarly, Unsent, NoOutcome, Outcomes, HasReply
<1>8. ASSUME NEW t \in Trades, Age(t) PROVE ReplyOnce'
  BY <1>8 DEF Age, TypeOK, ReplyOnce, NothingEarly, Unsent, NoOutcome, Outcomes, HasReply
<1>9. ASSUME NEW t \in Trades, GiveUp(t) PROVE ReplyOnce'
  BY <1>9 DEF GiveUp, Finish, TypeOK, ReplyOnce, NothingEarly, Unsent, NoOutcome, Outcomes, HasReply
<1>10. ASSUME NEW t \in Trades, Abort(t) PROVE ReplyOnce'
  BY <1>10 DEF Abort, TypeOK, ReplyOnce, NothingEarly, Unsent, NoOutcome, Outcomes, HasReply
<1>11. CASE UNCHANGED vars
  BY <1>11 DEF vars, TypeOK, ReplyOnce, NothingEarly, Unsent, NoOutcome, Outcomes, HasReply
<1> QED
  BY <1>1, <1>2, <1>3, <1>4, <1>5, <1>6, <1>7, <1>8, <1>9, <1>10, <1>11 DEF Next, Over

LEMMA NextResultOnce ==
  ASSUME TypeOK, NothingEarly, ResultOnce, [Next]_vars PROVE ResultOnce'
<1> USE TradeAssumption DEF Trades, Nobody, Active, Ended
<1>1. ASSUME NEW k \in Kinds, Start(k) PROVE ResultOnce'
  <2>1. PICK b \in Trades : Started(k, b)
    BY <1>1, StartFacts
  <2> QED BY <2>1 DEF Started, TypeOK, Events, Outcomes, NoOutcome, ResultOnce, NothingEarly, Unsent, Places
<1>2. ASSUME NEW t \in Trades, Send(t) PROVE ResultOnce'
  BY <1>2 DEF Send, TypeOK, Events, Outcomes, NoOutcome, ResultOnce, NothingEarly, Unsent, Places
<1>3. ASSUME NEW t \in Trades, DeliverReply(t) PROVE ResultOnce'
  BY <1>3 DEF DeliverReply, Delivered, TypeOK, Events, Outcomes, NoOutcome, ResultOnce, NothingEarly, Unsent, Places
<1>4. ASSUME NEW t \in Trades, NEW m \in {"ack", "result"}, DeliverEvent(t, m) PROVE ResultOnce'
  <2>1. /\ m \in owed[t] /\ owed' = [owed EXCEPT ![t] = @ \ {m}]
        /\ queue' = Append(queue, [of |-> t, final |-> m = "result"])
        /\ outcome' = outcome
    BY <1>4 DEF DeliverEvent, Delivered
  <2> DEFINE e == [of |-> t, final |-> m = "result"]
  <2>2. /\ Len(queue') = Len(queue) + 1
        /\ queue'[Len(queue) + 1] = e
        /\ \A n \in Places : queue'[n] = queue[n]
        /\ Len(queue) \in Nat
        /\ \A n \in Places : queue[n] \in Events
    <3>1. e \in Events /\ queue \in Seq(Events)
      BY DEF Events, TypeOK
    <3>2. queue' = Append(queue, e)
      BY <2>1
    <3> HIDE DEF e
    <3> QED BY <3>1, <3>2, QueueTyped DEF Places
  <2>3. \A v \in Trades : owed'[v] \subseteq owed[v]
    BY <2>1 DEF TypeOK
  <2>4. e.final => m = "result" /\ "result" \in owed[t] /\ "result" \notin owed'[t]
    BY <2>1 DEF TypeOK
  <2>5. \A n \in Places : queue[n].final /\ e.final => queue[n].of # t
    BY <2>4 DEF ResultOnce
  <2>6. \A v \in Trades : outcome[v].by = "result" /\ e.final => outcome[v].of # t
    BY <2>4 DEF ResultOnce
  <2>7. e.of = t
    OBVIOUS
  <2> HIDE DEF e
  <2>8. \A n \in Places' : n \in Places \/ (n = Len(queue) + 1 /\ queue'[n] = e)
    BY <2>2 DEF Places
  <2>9. \A n \in Places' : queue'[n].final => "result" \notin owed'[queue'[n].of]
    BY <2>2, <2>3, <2>4, <2>7, <2>8 DEF ResultOnce, Events
  <2>10. \A n, p \in Places' :
            queue'[n].final /\ queue'[p].final /\ queue'[n].of = queue'[p].of => n = p
    BY <2>2, <2>5, <2>7, <2>8 DEF ResultOnce
  <2>11. \A n \in Places', v \in Trades :
            queue'[n].final /\ outcome[v].by = "result" => outcome[v].of # queue'[n].of
    BY <2>2, <2>6, <2>7, <2>8 DEF ResultOnce
  <2>12. \A v \in Trades : outcome[v].by = "result" => "result" \notin owed'[outcome[v].of]
    <3> SUFFICES ASSUME NEW v \in Trades, outcome[v].by = "result"
                 PROVE  "result" \notin owed'[outcome[v].of]
      OBVIOUS
    <3>1. outcome[v].of \in Trades
      BY DEF TypeOK, Outcomes, NothingEarly
    <3> QED BY <2>3, <3>1 DEF ResultOnce
  <2> QED BY <2>1, <2>9, <2>10, <2>11, <2>12 DEF ResultOnce
<1>5. ASSUME NEW t \in Trades, TakeResult(t) PROVE ResultOnce'
  <2>1. PICK n \in Places, u \in Trades : Took(t, n, u)
    BY <1>5, TakeResultFacts
  <2>2. /\ queue[n].final /\ queue[n].of = u
        /\ n \in Nat /\ n >= 1 /\ Len(queue) \in Nat
    BY <2>1 DEF Took, Places, TypeOK
  <2>3. \A m \in Places' : m + n \in Places /\ m + n # n /\ queue'[m] = queue[m + n]
    BY <2>1, <2>2 DEF Took, Places
  <2>4. /\ outcome'[t] = [by |-> "result", of |-> u]
        /\ \A v \in Trades : v # t => outcome'[v] = outcome[v]
        /\ owed' = owed
    BY <2>1 DEF Took, TypeOK
  <2>5. \A v \in Trades : outcome[v].by = "result" => outcome[v].of # u
    BY <2>2 DEF ResultOnce
  <2>6. \A m \in Places' : queue'[m].final => queue'[m].of # u
    BY <2>2, <2>3 DEF ResultOnce
  <2>7. \A m \in Places' : queue'[m].final => "result" \notin owed'[queue'[m].of]
    BY <2>3, <2>4 DEF ResultOnce
  <2>8. \A m, p \in Places' :
           queue'[m].final /\ queue'[p].final /\ queue'[m].of = queue'[p].of => m = p
    <3> SUFFICES ASSUME NEW m \in Places', NEW p \in Places',
                        queue'[m].final, queue'[p].final, queue'[m].of = queue'[p].of
                 PROVE  m = p
      OBVIOUS
    <3>1. m + n = p + n
      BY <2>3 DEF ResultOnce
    <3> QED BY <2>2, <3>1 DEF Places
  <2>9. \A m \in Places', v \in Trades :
           queue'[m].final /\ outcome'[v].by = "result" => outcome'[v].of # queue'[m].of
    BY <2>3, <2>4, <2>6 DEF ResultOnce
  <2>10. \A v \in Trades : outcome'[v].by = "result" => "result" \notin owed'[outcome'[v].of]
    BY <2>2, <2>4 DEF ResultOnce
  <2>11. \A v, w \in Trades :
            outcome'[v].by = "result" /\ outcome'[v] = outcome'[w] => v = w
    BY <2>4, <2>5 DEF ResultOnce
  <2> QED BY <2>7, <2>8, <2>9, <2>10, <2>11 DEF ResultOnce
<1>6. ASSUME NEW t \in Trades, DropAcks(t) PROVE ResultOnce'
  BY <1>6 DEF DropAcks, TypeOK, Events, Outcomes, NoOutcome, ResultOnce, NothingEarly, Unsent, Places
<1>7. ASSUME NEW t \in Trades, TakeReply(t) PROVE ResultOnce'
  BY <1>7 DEF TakeReply, Finish, TypeOK, Events, Outcomes, NoOutcome, ResultOnce, NothingEarly, Unsent, Places
<1>8. ASSUME NEW t \in Trades, Age(t) PROVE ResultOnce'
  BY <1>8 DEF Age, TypeOK, Events, Outcomes, NoOutcome, ResultOnce, NothingEarly, Unsent, Places
<1>9. ASSUME NEW t \in Trades, GiveUp(t) PROVE ResultOnce'
  BY <1>9 DEF GiveUp, Finish, TypeOK, Events, Outcomes, NoOutcome, ResultOnce, NothingEarly, Unsent, Places
<1>10. ASSUME NEW t \in Trades, Abort(t) PROVE ResultOnce'
  BY <1>10 DEF Abort, TypeOK, Events, Outcomes, NoOutcome, ResultOnce, NothingEarly, Unsent, Places
<1>11. CASE UNCHANGED vars
  BY <1>11 DEF vars, TypeOK, Events, Outcomes, NoOutcome, ResultOnce, NothingEarly, Unsent, Places
<1> QED
  BY <1>1, <1>2, <1>3, <1>4, <1>5, <1>6, <1>7, <1>8, <1>9, <1>10, <1>11 DEF Next, Over

LEMMA NextBook ==
  ASSUME TypeOK, NothingEarly, BookReturned, ResultOnce, [Next]_vars PROVE BookReturned'
<1> USE TradeAssumption DEF Trades, Nobody, Active, Ended
<1>1. ASSUME NEW k \in Kinds, Start(k) PROVE BookReturned'
  <2>1. PICK b \in Trades : Started(k, b)
    BY <1>1, StartFacts
  <2> QED BY <2>1 DEF Started, TypeOK, Events, Outcomes, NoOutcome, BookReturned, NothingEarly, ResultOnce, Places
<1>2. ASSUME NEW t \in Trades, Send(t) PROVE BookReturned'
  BY <1>2 DEF Send, TypeOK, Events, Outcomes, NoOutcome, BookReturned, NothingEarly, ResultOnce, Places
<1>3. ASSUME NEW t \in Trades, DeliverReply(t) PROVE BookReturned'
  BY <1>3 DEF DeliverReply, Delivered, TypeOK, Events, Outcomes, NoOutcome, BookReturned, NothingEarly, ResultOnce, Places
<1>4. ASSUME NEW t \in Trades, NEW m \in {"ack", "result"}, DeliverEvent(t, m) PROVE BookReturned'
  BY <1>4 DEF DeliverEvent, Delivered, TypeOK, Events, Outcomes, NoOutcome, BookReturned, NothingEarly, ResultOnce, Places
<1>5. ASSUME NEW t \in Trades, TakeResult(t) PROVE BookReturned'
  <2>1. PICK n \in Places, u \in Trades : Took(t, n, u)
    BY <1>5, TakeResultFacts
  <2>2. queue[n].final /\ queue[n].of = u
    BY <2>1 DEF Took
  <2>3. /\ outcome'[t] = [by |-> "result", of |-> u]
        /\ \A v \in Trades : v # t => outcome'[v] = outcome[v]
        /\ outcome[t].by = "none"
    <3>1. phase[t] = "polling" /\ outcome' = [outcome EXCEPT ![t] = [by |-> "result", of |-> u]]
      BY <2>1 DEF Took
    <3>2. outcome[t] = NoOutcome
      BY <3>1 DEF NothingEarly
    <3> QED BY <3>1, <3>2 DEF TypeOK, NoOutcome
  <2>4. \A v \in Trades : book[v] # t
    <3> SUFFICES ASSUME NEW v \in Trades, book[v] = t PROVE FALSE
      OBVIOUS
    <3>1. outcome[t] = [by |-> "result", of |-> v]
      BY DEF BookReturned
    <3> QED BY <2>3, <3>1
  <2>5. \A v \in Trades : book'[v] # book[v] => v = u /\ book'[v] = t
    BY <2>1 DEF Took, TypeOK
  <2> QED BY <2>3, <2>4, <2>5 DEF BookReturned
<1>6. ASSUME NEW t \in Trades, DropAcks(t) PROVE BookReturned'
  BY <1>6 DEF DropAcks, TypeOK, Events, Outcomes, NoOutcome, BookReturned, NothingEarly, ResultOnce, Places
<1>7. ASSUME NEW t \in Trades, TakeReply(t) PROVE BookReturned'
  <2>1. outcome[t] = NoOutcome /\ book' = book
        /\ \A v \in Trades : v # t => outcome'[v] = outcome[v]
    BY <1>7 DEF TakeReply, Finish, TypeOK, NothingEarly
  <2>2. \A u \in Trades : book[u] # t
    <3> SUFFICES ASSUME NEW u \in Trades, book[u] = t PROVE FALSE
      OBVIOUS
    <3>1. outcome[t].by = "none"
      BY <2>1 DEF NoOutcome
    <3>2. outcome[t] = [by |-> "result", of |-> u]
      BY DEF BookReturned
    <3> QED BY <3>1, <3>2
  <2> QED BY <2>1, <2>2 DEF BookReturned
<1>8. ASSUME NEW t \in Trades, Age(t) PROVE BookReturned'
  BY <1>8 DEF Age, TypeOK, Events, Outcomes, NoOutcome, BookReturned, NothingEarly, ResultOnce, Places
<1>9. ASSUME NEW t \in Trades, GiveUp(t) PROVE BookReturned'
  <2>1. outcome[t] = NoOutcome /\ book' = book
        /\ \A v \in Trades : v # t => outcome'[v] = outcome[v]
    BY <1>9 DEF GiveUp, Finish, TypeOK, NothingEarly
  <2>2. \A u \in Trades : book[u] # t
    <3> SUFFICES ASSUME NEW u \in Trades, book[u] = t PROVE FALSE
      OBVIOUS
    <3>1. outcome[t].by = "none"
      BY <2>1 DEF NoOutcome
    <3>2. outcome[t] = [by |-> "result", of |-> u]
      BY DEF BookReturned
    <3> QED BY <3>1, <3>2
  <2> QED BY <2>1, <2>2 DEF BookReturned
<1>10. ASSUME NEW t \in Trades, Abort(t) PROVE BookReturned'
  BY <1>10 DEF Abort, TypeOK, Events, Outcomes, NoOutcome, BookReturned, NothingEarly, ResultOnce, Places
<1>11. CASE UNCHANGED vars
  BY <1>11 DEF vars, TypeOK, Events, Outcomes, NoOutcome, BookReturned, NothingEarly, ResultOnce, Places
<1> QED
  BY <1>1, <1>2, <1>3, <1>4, <1>5, <1>6, <1>7, <1>8, <1>9, <1>10, <1>11 DEF Next, Over

LEMMA NextResultLast ==
  ASSUME TypeOK, NothingEarly, ResultOnce, ResultLast, [Next]_vars PROVE ResultLast'
<1> USE TradeAssumption DEF Trades, Nobody, Active, Ended
<1>1. ASSUME NEW k \in Kinds, Start(k) PROVE ResultLast'
  <2>1. PICK b \in Trades : Started(k, b)
    BY <1>1, StartFacts
  <2>2. owed[b] = {} /\ owed' = owed /\ Places' = {}
    BY <2>1 DEF Started, NothingEarly, Unsent, Places
  <2>3. \A v \in Trades : v # b => kind'[v] = kind[v]
    BY <2>1 DEF Started, TypeOK
  <2> QED BY <2>2, <2>3 DEF ResultLast
<1>2. ASSUME NEW t \in Trades, Send(t) PROVE ResultLast'
  BY <1>2 DEF Send, TypeOK, ResultLast, NothingEarly, ResultOnce, Unsent, Places, Messages
<1>3. ASSUME NEW t \in Trades, DeliverReply(t) PROVE ResultLast'
  BY <1>3 DEF DeliverReply, Delivered, TypeOK, ResultLast, NothingEarly, ResultOnce, Unsent, Places, Messages
<1>4. ASSUME NEW t \in Trades, NEW m \in {"ack", "result"}, DeliverEvent(t, m) PROVE ResultLast'
  <2>1. /\ m \in owed[t] /\ owed' = [owed EXCEPT ![t] = @ \ {m}]
        /\ m = "result" => "ack" \notin owed[t]
        /\ queue' = Append(queue, [of |-> t, final |-> m = "result"])
        /\ kind' = kind
    BY <1>4 DEF DeliverEvent, Delivered
  <2> DEFINE e == [of |-> t, final |-> m = "result"]
  <2>2. /\ Len(queue') = Len(queue) + 1
        /\ queue'[Len(queue) + 1] = e
        /\ \A n \in Places : queue'[n] = queue[n]
        /\ Len(queue) \in Nat
        /\ \A n \in Places : queue[n].of \in Trades
    <3>1. e \in Events /\ queue \in Seq(Events)
      BY DEF Events, TypeOK
    <3>2. queue' = Append(queue, e)
      BY <2>1
    <3> HIDE DEF e
    <3> QED BY <3>1, <3>2, QueueTyped DEF Places
  <2>3. e.of = t /\ (e.final <=> m = "result")
    OBVIOUS
  <2> HIDE DEF e
  <2>4. kind[t] # "modify"
    BY <2>1 DEF ResultLast, Messages
  <2>5. \A n \in Places' : n \in Places \/ (n = Len(queue) + 1 /\ queue'[n] = e)
    BY <2>2 DEF Places
  <2>6. \A v \in Trades : owed'[v] \subseteq owed[v] /\ (v # t => owed'[v] = owed[v])
    BY <2>1 DEF TypeOK
  <2>7. \A v \in Trades : "ack" \in owed'[v] => "result" \in owed'[v]
    BY <2>1 DEF TypeOK, ResultLast
  <2>8. \A n \in Places' : kind[queue'[n].of] # "modify"
    BY <2>2, <2>3, <2>4, <2>5 DEF ResultLast
  <2>9. \A n \in Places' : queue'[n].final => "ack" \notin owed'[queue'[n].of]
    <3>1. ASSUME NEW n \in Places, queue'[n].final
          PROVE  "ack" \notin owed'[queue'[n].of]
      BY <3>1, <2>2, <2>6 DEF ResultLast
    <3>2. e.final => "ack" \notin owed'[t]
      BY <2>1, <2>3, <2>6
    <3> QED BY <3>1, <3>2, <2>3, <2>5
  <2>10. \A n \in Places : queue[n].final => queue[n].of # t
    BY <2>1 DEF ResultLast, ResultOnce
  <2>11. \A n, p \in Places' : queue'[n].final /\ queue'[p].of = queue'[n].of => p <= n
    BY <2>2, <2>3, <2>5, <2>10 DEF ResultLast, Places
  <2> QED BY <2>1, <2>6, <2>7, <2>8, <2>9, <2>11 DEF ResultLast
<1>5. ASSUME NEW t \in Trades, TakeResult(t) PROVE ResultLast'
  <2>1. PICK n \in Places, u \in Trades : Took(t, n, u)
    BY <1>5, TakeResultFacts
  <2>2. \A m \in Places' : m + n \in Places /\ queue'[m] = queue[m + n]
    BY <2>1 DEF Took, Places
  <2>3. owed' = owed /\ kind' = kind
    BY <2>1 DEF Took
  <2>4. \A m, p \in Places' : queue'[m].final /\ queue'[p].of = queue'[m].of => p <= m
    <3> SUFFICES ASSUME NEW m \in Places', NEW p \in Places',
                        queue'[m].final, queue'[p].of = queue'[m].of
                 PROVE  p <= m
      OBVIOUS
    <3>1. p + n <= m + n
      BY <2>2 DEF ResultLast
    <3>2. m \in Int /\ p \in Int /\ n \in Int
      BY DEF Places
    <3> QED BY <3>1, <3>2
  <2> QED BY <2>2, <2>3, <2>4 DEF ResultLast
<1>6. ASSUME NEW t \in Trades, DropAcks(t) PROVE ResultLast'
  BY <1>6 DEF DropAcks, TypeOK, ResultLast, NothingEarly, ResultOnce, Unsent, Places, Messages
<1>7. ASSUME NEW t \in Trades, TakeReply(t) PROVE ResultLast'
  BY <1>7 DEF TakeReply, Finish, TypeOK, ResultLast, NothingEarly, ResultOnce, Unsent, Places, Messages
<1>8. ASSUME NEW t \in Trades, Age(t) PROVE ResultLast'
  BY <1>8 DEF Age, TypeOK, ResultLast, NothingEarly, ResultOnce, Unsent, Places, Messages
<1>9. ASSUME NEW t \in Trades, GiveUp(t) PROVE ResultLast'
  BY <1>9 DEF GiveUp, Finish, TypeOK, ResultLast, NothingEarly, ResultOnce, Unsent, Places, Messages
<1>10. ASSUME NEW t \in Trades, Abort(t) PROVE ResultLast'
  BY <1>10 DEF Abort, TypeOK, ResultLast, NothingEarly, ResultOnce, Unsent, Places, Messages
<1>11. CASE UNCHANGED vars
  BY <1>11 DEF vars, TypeOK, ResultLast, NothingEarly, ResultOnce, Unsent, Places, Messages
<1> QED
  BY <1>1, <1>2, <1>3, <1>4, <1>5, <1>6, <1>7, <1>8, <1>9, <1>10, <1>11 DEF Next, Over

-----------------------------------------------------------------------------
(* A trade that was disturbed stays so.                                    *)
LEMMA NeverCleared ==
  ASSUME TypeOK, [Next]_vars, NEW t \in Trades, Undisturbed(t)'
  PROVE  Undisturbed(t)
<1>1. tardy \subseteq tardy' /\ overlapped \subseteq overlapped'
  BY DEF Next, Over, vars, Start, Send, DeliverReply, DeliverEvent, TakeResult, DropAcks,
         TakeReply, Age, GiveUp, Abort
<1>2. \A u \in Trades : phase[u] = "aborted" => phase'[u] = "aborted"
  <2>1. ASSUME NEW k \in Kinds, Start(k)
        PROVE  \A u \in Trades : phase[u] = "aborted" => phase'[u] = "aborted"
    <3>1. PICK b \in Trades : Started(k, b)
      BY <2>1, StartFacts
    <3> QED BY <3>1 DEF Started, TypeOK
  <2>2. ASSUME NEW v \in Trades, NEW p \in {"polling"} \cup Ended, phase[v] \in Active,
               phase' = [phase EXCEPT ![v] = p]
        PROVE  \A u \in Trades : phase[u] = "aborted" => phase'[u] = "aborted"
    BY <2>2 DEF Active, TypeOK
  <2>3. ASSUME phase' = phase
        PROVE  \A u \in Trades : phase[u] = "aborted" => phase'[u] = "aborted"
    BY <2>3
  <2>4. ASSUME NEW v \in Trades,
               \/ Send(v) \/ TakeResult(v) \/ TakeReply(v) \/ GiveUp(v) \/ Abort(v)
        PROVE  \A u \in Trades : phase[u] = "aborted" => phase'[u] = "aborted"
    BY <2>2, <2>4 DEF Send, TakeResult, TakeReply, GiveUp, Abort, Finish, Active, Ended
  <2> QED
    BY <2>1, <2>3, <2>4
    DEF Next, Over, vars, DeliverReply, DeliverEvent, DropAcks, Age
<1>3. \A u \in 1..t : u \in Trades
  BY TradeAssumption DEF Trades
<1>4. \A u \in 1..t : u \notin tardy' /\ u \notin overlapped' /\ phase'[u] # "aborted"
  BY DEF Undisturbed
<1> QED BY <1>1, <1>2, <1>3, <1>4 DEF Undisturbed

(* While an undisturbed trade is active, nothing is around but what is     *)
(* meant for it.                                                           *)
LEMMA Alone ==
  ASSUME TypeOK, NothingEarly, OverlapSeen, UndisturbedEnded,
         NEW t \in Trades, Undisturbed(t), phase[t] \in Active
  PROVE  /\ t = begun
         /\ \A u \in Trades \ {t} : owed[u] = {} /\ phase[u] \notin Active
         /\ \A n \in Places : queue[n].of = t
         /\ reply[t] \in {Nobody, t}
<1>1. t \notin tardy /\ t \notin overlapped
  BY DEF Undisturbed, Trades
<1>2. t = begun
  <2>1. t <= begun
    BY DEF TypeOK, Active
  <2> QED BY <1>1, <2>1 DEF OverlapSeen, TypeOK, Trades
<1>3. \A u \in Trades \ {t} : phase[u] \notin Active
  BY <1>1 DEF OverlapSeen
<1>4. \A u \in Trades : u < t => Undisturbed(u) /\ phase[u] \in Ended
  <2> SUFFICES ASSUME NEW u \in Trades, u < t PROVE Undisturbed(u) /\ phase[u] \in Ended
    OBVIOUS
  <2>1. Undisturbed(u)
    BY DEF Undisturbed, Trades
  <2>2. phase[u] # "unused" /\ phase[u] \notin Active
    BY <1>2, <1>3 DEF TypeOK, Trades
  <2> QED BY <2>1, <2>2 DEF TypeOK
<1>5. \A u \in Trades : t < u => phase[u] = "unused"
  BY <1>2 DEF TypeOK, Trades
<1>6. \A u \in Trades : u # t => u < t \/ t < u
  BY DEF Trades
<1>7. \A u \in Trades \ {t} : owed[u] = {}
  BY <1>4, <1>5, <1>6 DEF UndisturbedEnded, NothingEarly, Unsent
<1>8. \A n \in Places : queue[n].of = t
  <2> SUFFICES ASSUME NEW n \in Places, queue[n].of # t PROVE FALSE
    OBVIOUS
  <2>1. queue[n].of \in Trades /\ phase[queue[n].of] \notin Unsent
    BY QueueTyped DEF NothingEarly
  <2>2. queue[n].of < t
    BY <1>5, <1>6, <2>1 DEF Unsent
  <2> QED BY <1>3, <1>4, <2>1, <2>2 DEF UndisturbedEnded
<1>9. reply[t] \in {Nobody, t}
  <2> SUFFICES ASSUME reply[t] # Nobody, reply[t] # t PROVE FALSE
    OBVIOUS
  <2>1. reply[t] \in Trades /\ phase[reply[t]] \notin Unsent
    BY DEF TypeOK, NothingEarly
  <2>2. reply[t] < t
    BY <1>5, <1>6, <2>1 DEF Unsent
  <2> QED BY <1>4, <2>1, <2>2 DEF UndisturbedEnded
<1> QED BY <1>2, <1>3, <1>7, <1>8, <1>9

-----------------------------------------------------------------------------
(* The invariants that the steps below start from.                         *)
Base ==
    /\ TypeOK /\ NothingEarly /\ ResultOnce /\ ReplyOnce /\ BookReturned
    /\ ResultLast /\ OverlapSeen /\ UndisturbedActive /\ UndisturbedEnded

LEMMA NextBase ==
  ASSUME Base, [Next]_vars
  PROVE  /\ TypeOK' /\ NothingEarly' /\ ResultOnce' /\ ReplyOnce' /\ BookReturned'
         /\ ResultLast' /\ OverlapSeen'
  BY NextType, NextNothingEarly, NextResultOnce, NextReplyOnce, NextBook, NextResultLast,
     NextOverlapSeen DEF Base

(* The outcome an undisturbed trade takes is its own.                      *)
LEMMA TakesOwn ==
  ASSUME Base, NEW t \in Trades, Undisturbed(t), NEW n \in Places, NEW u \in Trades,
         Took(t, n, u)
  PROVE  /\ u = t /\ kind[t] # "modify" /\ owed[t] = {}
         /\ Len(queue') = 0
<1>1. phase[t] \in Active /\ queue[n].of = u /\ queue[n].final
  BY DEF Took, Active
<1>2. \A m \in Places : queue[m].of = t
  BY <1>1, Alone DEF Base
<1>3. u = t
  BY <1>1, <1>2
<1>4. kind[t] # "modify"
  BY <1>1, <1>3 DEF Base, ResultLast
<1>5. "result" \notin owed[t] /\ "ack" \notin owed[t]
  BY <1>1, <1>3 DEF Base, ResultOnce, ResultLast
<1>6. WellServed(t)
  BY <1>1 DEF Base, UndisturbedActive
<1>7. "reply" \notin owed[t]
  BY <1>4, <1>5, <1>6 DEF WellServed
<1>8. owed[t] \subseteq {"reply", "ack", "result"}
  BY DEF Base, TypeOK
<1>9. \A m \in Places : m <= n
  BY <1>1, <1>2, <1>3 DEF Base, ResultLast
<1>10. n = Len(queue)
  <2>1. Len(queue) \in Nat /\ n \in 1..Len(queue)
    BY QueueTyped DEF Base, Places
  <2>2. Len(queue) \in Places
    BY <2>1 DEF Places
  <2> QED BY <1>9, <2>1, <2>2
<1>11. Len(queue') = 0
  BY <1>10, QueueTyped DEF Took, Base
<1> QED BY <1>3, <1>4, <1>5, <1>7, <1>8, <1>11

LEMMA RepliesOwn ==
  ASSUME Base, NEW t \in Trades, Undisturbed(t), TakeReply(t)
  PROVE  reply[t] = t /\ kind[t] = "modify" /\ owed[t] = {}
<1>1. WellServed(t)
  BY DEF Base, UndisturbedActive, TakeReply, Active
<1>2. reply[t] = t /\ kind[t] = "modify"
  BY <1>1 DEF TakeReply, HasReply, WellServed
<1>3. "reply" \notin owed[t]
  BY <1>2 DEF Base, ReplyOnce, Nobody, Trades
<1>4. owed[t] \subseteq {"reply"}
  BY <1>2 DEF Base, ResultLast, Messages
<1> QED BY <1>2, <1>3, <1>4

LEMMA NeverOverdue ==
  ASSUME Base, NEW t \in Trades, Undisturbed(t) PROVE ~GiveUp(t)
  BY DEF Base, UndisturbedActive, WellServed, GiveUp, Active

(* No other trade moves while an undisturbed trade is active, and none     *)
(* starts.                                                                 *)
LEMMA OnlyOwnSteps ==
  ASSUME Base, NEW t \in Trades, phase[t] \in Active, Undisturbed(t), Undisturbed(t)', Next
  PROVE  \/ Send(t)
         \/ DeliverReply(t)
         \/ \E m \in {"ack", "result"} : DeliverEvent(t, m)
         \/ TakeResult(t) \/ DropAcks(t) \/ TakeReply(t) \/ Age(t)
         \/ UNCHANGED vars
<1>1. \A u \in Trades \ {t} : owed[u] = {} /\ phase[u] \notin Active
  BY Alone DEF Base
<1>2. ASSUME NEW k \in Kinds, Start(k) PROVE FALSE
  <2>1. PICK b \in Trades : Started(k, b)
    BY <1>2, StartFacts DEF Base
  <2>2. t \in overlapped'
    BY <2>1 DEF Started, InFlight
  <2> QED BY <2>2 DEF Undisturbed, Trades
<1>3. ASSUME Abort(t) PROVE FALSE
  <2>1. phase'[t] = "aborted"
    BY <1>3 DEF Abort, Base, TypeOK
  <2> QED BY <2>1 DEF Undisturbed, Trades
<1>4. ~GiveUp(t)
  BY NeverOverdue
<1>5. ASSUME NEW u \in Trades \ {t}
      PROVE  /\ ~Send(u) /\ ~DeliverReply(u)
             /\ \A m \in {"ack", "result"} : ~DeliverEvent(u, m)
             /\ ~TakeResult(u) /\ ~DropAcks(u) /\ ~TakeReply(u) /\ ~Age(u)
             /\ ~GiveUp(u) /\ ~Abort(u)
  BY <1>1, <1>5 DEF Send, DeliverReply, DeliverEvent, TakeResult, DropAcks, TakeReply,
         Age, GiveUp, Abort, Active
<1> QED BY <1>2, <1>3, <1>4, <1>5 DEF Next, Over

LEMMA NextActive ==
  ASSUME Base, [Next]_vars PROVE UndisturbedActive'
<1> SUFFICES ASSUME NEW t \in Trades, Undisturbed(t)', phase'[t] \in Active
             PROVE  WellServed(t)'
  BY DEF UndisturbedActive
<1>1. Undisturbed(t)
  BY NeverCleared DEF Base
<1>2. CASE UNCHANGED vars
  <2>1. WellServed(t)
    BY <1>1, <1>2 DEF Base, UndisturbedActive, vars
  <2> QED BY <1>2, <2>1 DEF WellServed, vars, Places
<1>3. CASE phase[t] \notin Active /\ Next
  <2>1. PICK k \in Kinds : Start(k)
    BY <1>3 DEF Next, Over, vars, Send, DeliverReply, DeliverEvent, TakeResult, DropAcks,
         TakeReply, Age, GiveUp, Abort, Active, Finish, Base, TypeOK
  <2>2. PICK b \in Trades : Started(k, b)
    BY <2>1, StartFacts DEF Base
  <2>3. b = t /\ phase'[t] = "sending" /\ slot' = t
    BY <1>3, <2>2 DEF Started, Base, TypeOK, Active
  <2>4. owed'[t] = {} /\ clock'[t] = clock[t]
    BY <2>2, <2>3 DEF Started, Base, NothingEarly, Unsent
  <2>5. clock[t] = "fresh"
    BY <2>2, <2>3 DEF Started, Base, NothingEarly, Unsent
  <2> QED BY <2>3, <2>4, <2>5 DEF WellServed
<1>4. CASE phase[t] \in Active /\ Next
  <2>1. WellServed(t) /\ t \notin tardy
    BY <1>1, <1>4, 1 \in Nat DEF Base, UndisturbedActive, Undisturbed, Trades
  <2>2. reply[t] \in {Nobody, t} /\ \A n \in Places : queue[n].of = t
    BY <1>1, <1>4, Alone DEF Base
  <2>3. CASE Send(t)
    BY <2>1, <2>3 DEF Send, WellServed, Base, TypeOK, Messages, NothingEarly, Unsent
  <2>4. CASE DeliverReply(t)
    <3>1. "reply" \in owed[t] /\ slot = t /\ slot # Nobody
      BY <2>1, <2>4 DEF DeliverReply, WellServed, Nobody, Trades
    <3>2. /\ reply' = [reply EXCEPT ![t] = t]
          /\ owed' = [owed EXCEPT ![t] = @ \ {"reply"}]
          /\ UNCHANGED <<phase, kind, clock, queue>>
      BY <2>4, <3>1 DEF DeliverReply, Delivered
    <3>3. /\ reply'[t] = t /\ "reply" \notin owed'[t]
          /\ "result" \in owed'[t] <=> "result" \in owed[t]
      BY <3>2 DEF Base, TypeOK
    <3>4. phase[t] # "sending"
      BY <3>1 DEF Base, NothingEarly, Unsent
    <3> QED BY <2>1, <3>2, <3>3, <3>4 DEF WellServed, Places
  <2>5. ASSUME NEW m \in {"ack", "result"}, DeliverEvent(t, m) PROVE WellServed(t)'
    <3>1. /\ m \in owed[t] /\ "reply" \notin owed[t]
          /\ owed' = [owed EXCEPT ![t] = @ \ {m}]
          /\ queue' = Append(queue, [of |-> t, final |-> m = "result"])
          /\ UNCHANGED <<phase, kind, clock, slot, reply>>
      BY <2>1, <2>5 DEF DeliverEvent, Delivered
    <3>2. phase[t] # "sending"
      BY <3>1 DEF Base, NothingEarly, Unsent
    <3>3. owed'[t] = owed[t] \ {m}
      BY <3>1 DEF Base, TypeOK
    <3> DEFINE e == [of |-> t, final |-> m = "result"]
    <3>4. /\ Len(queue') = Len(queue) + 1 /\ Len(queue) \in Nat
          /\ queue'[Len(queue) + 1] = e
          /\ \A n \in Places : n \in Places' /\ queue'[n] = queue[n]
      <4>1. e \in Events /\ queue \in Seq(Events)
        BY DEF Events, Base, TypeOK
      <4>2. queue' = Append(queue, e)
        BY <3>1
      <4> HIDE DEF e
      <4> QED BY <4>1, <4>2, QueueTyped DEF Places, Base
    <3>5. "result" \notin owed'[t] /\ kind[t] # "modify" /\ phase[t] = "polling" =>
            \E n \in Places' : queue'[n] = [of |-> t, final |-> TRUE]
      <4>1. CASE m = "result"
        <5>1. Len(queue) + 1 \in Places'
          BY <3>4 DEF Places
        <5> QED BY <4>1, <5>1, <3>4
      <4>2. CASE m # "result"
        BY <4>2, <2>1, <3>3, <3>4 DEF WellServed
      <4> QED BY <4>1, <4>2
    <3> QED BY <2>1, <3>1, <3>2, <3>3, <3>5 DEF WellServed
  <2>6. CASE TakeResult(t)
    BY <2>6 DEF TakeResult, Finish, Base, TypeOK, Active
  <2>7. CASE DropAcks(t)
    BY <2>1, <2>7 DEF DropAcks, WellServed, NoResult, Places
  <2>8. CASE TakeReply(t)
    BY <2>8 DEF TakeReply, Finish, Base, TypeOK, Active
  <2>9. CASE Age(t)
    <3>1. phase[t] = "polling" /\ owed[t] = {} /\ NoResult /\ ~HasReply(t)
      BY <2>1, <2>9 DEF Age
    <3>2. reply[t] = t
      BY <2>1, <3>1 DEF WellServed
    <3>3. kind[t] = "modify"
      BY <2>1, <3>1 DEF WellServed, NoResult, Places
    <3>4. clock[t] # "late"
      BY <3>1, <3>2 DEF HasReply, Nobody, Trades
    <3>5. clock'[t] = "late" /\ UNCHANGED <<phase, kind, owed, queue, slot, reply>>
      BY <2>9, <3>4 DEF Age, Base, TypeOK
    <3> QED BY <2>1, <3>1, <3>2, <3>3, <3>5 DEF WellServed
  <2> QED BY <1>1, <1>2, <1>4, <2>3, <2>4, <2>5, <2>6, <2>7, <2>8, <2>9, OnlyOwnSteps
<1> QED BY <1>2, <1>3, <1>4

(* Where an event in the queue comes from.                                 *)
LEMMA QueueOrigin ==
  ASSUME TypeOK, [Next]_vars, NEW n \in 1..Len(queue')
  PROVE  \/ \E m \in Places : queue'[n] = queue[m]
         \/ \E v \in Trades, m \in {"ack", "result"} :
               DeliverEvent(v, m) /\ queue'[n].of = v
<1> DEFINE Old == \E m \in Places : queue'[n] = queue[m]
<1>1. CASE queue' = queue
  BY <1>1 DEF Places
<1>2. CASE queue' = <<>>
  BY <1>2
<1>3. ASSUME NEW t \in Trades, TakeResult(t) PROVE Old
  <2>1. PICK m \in Places, u \in Trades : Took(t, m, u)
    BY <1>3, TakeResultFacts
  <2> QED BY <2>1 DEF Took
<1>4. ASSUME NEW v \in Trades, NEW m \in {"ack", "result"}, DeliverEvent(v, m)
      PROVE  Old \/ queue'[n].of = v
  <2> DEFINE e == [of |-> v, final |-> m = "result"]
  <2>1. e \in Events /\ queue \in Seq(Events) /\ queue' = Append(queue, e) /\ e.of = v
    BY <1>4 DEF Events, TypeOK, DeliverEvent
  <2> HIDE DEF e
  <2>2. (n \in 1..Len(queue) /\ queue'[n] = queue[n]) \/ queue'[n] = e
    BY <2>1
  <2> QED BY <2>1, <2>2 DEF Places
<1> HIDE DEF Old
<1>5. Old \/ \E v \in Trades, m \in {"ack", "result"} :
               DeliverEvent(v, m) /\ queue'[n].of = v
  <2> USE DEF Old
  <2>1. CASE \E v \in Trades, m \in {"ack", "result"} : DeliverEvent(v, m)
    BY <1>4, <2>1
  <2>2. CASE \E t \in Trades : TakeResult(t)
    BY <1>3, <2>2
  <2>3. CASE queue' = queue \/ queue' = <<>>
    BY <1>1, <1>2, <2>3
  <2> HIDE DEF Old
  <2> QED
    BY <2>1, <2>2, <2>3 DEF Next, Over, vars, Start, Send, DeliverReply, DropAcks, TakeReply,
         Age, GiveUp, Abort
<1> QED BY <1>5 DEF Old

(* Something of an undisturbed trade is still to come only while it is     *)
(* active.                                                                 *)
LEMMA OwedActive ==
  ASSUME Base, NEW t \in Trades, Undisturbed(t), owed[t] # {}
  PROVE  phase[t] \in Active
  BY DEF Base, UndisturbedEnded, NothingEarly, Unsent, TypeOK, Active

LEMMA NextEnded ==
  ASSUME Base, [Next]_vars PROVE UndisturbedEnded'
<1>1. \A t \in Trades : Undisturbed(t)' => Undisturbed(t)
  BY NeverCleared DEF Base
<1>2. TypeOK' /\ NothingEarly'
  BY NextBase
<1>3. ASSUME NEW t \in Trades, Undisturbed(t)', phase'[t] \in Ended
      PROVE  owed'[t] = {}
  <2>1. Undisturbed(t) /\ t \notin tardy'
    BY <1>1, <1>3 DEF Undisturbed, Trades
  <2>2. CASE phase[t] \in Ended
    <3>1. owed[t] = {}
      BY <2>1, <2>2 DEF Base, UndisturbedEnded
    <3> QED
      BY <2>2, <3>1 DEF Base, TypeOK, Next, Over, vars, Start, Send, DeliverReply,
         DeliverEvent, Delivered, TakeResult, DropAcks, TakeReply, Age, GiveUp, Abort, Ended
  <2>3. CASE phase[t] \in Active
    <3>1. phase'[t] \notin Active
      BY <1>3 DEF Active, Ended
    <3>2. CASE Next
      <4>1. TakeResult(t) \/ TakeReply(t)
        BY <2>1, <2>3, <3>1, <3>2, <1>3, OnlyOwnSteps
        DEF Send, DeliverReply, DeliverEvent, DropAcks, Age, vars, Base, TypeOK, Active
      <4>2. CASE TakeResult(t)
        <5>1. PICK n \in Places, u \in Trades : Took(t, n, u)
          BY <4>2, TakeResultFacts DEF Base
        <5> QED BY <5>1, <2>1, TakesOwn DEF Took
      <4>3. CASE TakeReply(t)
        BY <4>3, <2>1, RepliesOwn DEF TakeReply
      <4> QED BY <4>1, <4>2, <4>3
    <3>3. CASE UNCHANGED vars
      BY <2>3, <3>1, <3>3 DEF vars
    <3> QED BY <3>2, <3>3
  <2>4. CASE phase[t] = "unused"
    <3>1. phase'[t] \in {"unused", "sending"}
      BY <2>4 DEF Base, TypeOK, Next, Over, vars, Start, Send, DeliverReply,
         DeliverEvent, TakeResult, DropAcks, TakeReply, Age, GiveUp, Abort, Finish, Active
    <3> QED BY <1>3, <3>1 DEF Ended
  <2> QED BY <2>2, <2>3, <2>4 DEF Base, TypeOK, Active, Ended
<1>4. ASSUME NEW n \in 1..Len(queue'), NEW t \in Trades, queue'[n].of = t,
             Undisturbed(t)'
      PROVE  phase'[t] \in Active
  <2>1. t = queue'[n].of
    BY <1>4
  <2>2. Undisturbed(t)
    BY <1>1, <1>4
  <2>3. phase[t] \in Active
    <3>1. CASE \E m \in Places : queue'[n] = queue[m]
      BY <2>1, <2>2, <3>1 DEF Base, UndisturbedEnded
    <3>2. CASE \E v \in Trades, m \in {"ack", "result"} :
                 DeliverEvent(v, m) /\ queue'[n].of = v
      <4>1. owed[t] # {}
        BY <2>1, <3>2 DEF DeliverEvent
      <4> QED BY <2>2, <4>1, OwedActive
    <3> QED BY <3>1, <3>2, QueueOrigin DEF Base
  <2>4. CASE Next
    <3>1. ~TakeResult(t)
      <4> SUFFICES ASSUME TakeResult(t) PROVE FALSE
        OBVIOUS
      <4>1. PICK m \in Places, u \in Trades : Took(t, m, u)
        BY TakeResultFacts DEF Base
      <4>2. Len(queue') = 0
        BY <2>2, <4>1, TakesOwn
      <4> QED BY <4>2
    <3>2. ~TakeReply(t)
      BY DEF TakeReply
    <3>3. phase'[t] \in Active
      BY <1>4, <2>2, <2>3, <2>4, <3>1, <3>2, OnlyOwnSteps
      DEF Send, DeliverReply, DeliverEvent, DropAcks, Age, vars, Base, TypeOK, Active
    <3> QED BY <3>3
  <2>5. CASE UNCHANGED vars
    BY <2>3, <2>5 DEF vars
  <2> QED BY <2>4, <2>5
<1>5. ASSUME NEW t \in Trades, NEW v \in Trades, reply'[t] = v, Undisturbed(v)'
      PROVE  v = t
  <2>1. v = reply'[t] /\ v # Nobody
    BY <1>5 DEF Trades, Nobody
  <2>2. Undisturbed(v)
    BY <1>1, <1>5
  <2>3. CASE reply' = reply
    BY <1>5, <2>1, <2>2, <2>3 DEF Base, UndisturbedEnded
  <2>4. CASE reply' # reply
    <3>1. PICK w \in Trades : DeliverReply(w)
      BY <2>4 DEF Next, Over, vars, Start, Send, DeliverEvent, TakeResult, DropAcks,
         TakeReply, Age, GiveUp, Abort, Finish
    <3>2. slot \in Trades /\ reply' = [reply EXCEPT ![slot] = w] /\ "reply" \in owed[w]
      BY <2>4, <3>1 DEF DeliverReply, Base, TypeOK
    <3>3. CASE t # slot
      BY <1>5, <2>1, <2>2, <3>2, <3>3 DEF Base, UndisturbedEnded, TypeOK
    <3>4. CASE t = slot
      <4>1. v = w
        BY <2>1, <3>2, <3>4 DEF Base, TypeOK
      <4>2. phase[v] \in Active
        BY <2>2, <3>2, <4>1, OwedActive
      <4>3. slot = v
        BY <2>2, <3>2, <4>1, <4>2 DEF Base, UndisturbedActive, WellServed
      <4> QED BY <2>1, <3>4, <4>3
    <3> QED BY <3>3, <3>4
  <2> QED BY <2>3, <2>4
<1>6. \A n \in 1..Len(queue') : queue'[n].of \in Trades
  <2>1. queue' \in Seq(Events)
    BY <1>2 DEF TypeOK
  <2>2. \A n \in 1..Len(queue') : queue'[n] \in Events
    BY <2>1
  <2> QED BY <2>2 DEF Events
<1>7. \A n \in 1..Len(queue') : Undisturbed(queue[n].of)' => phase'[queue'[n].of] \in Active
  BY <1>4, <1>6 DEF Undisturbed
<1>8. \A t \in Trades : reply'[t] # Nobody /\ Undisturbed(reply[t])' => reply'[t] = t
  BY <1>2, <1>5 DEF Undisturbed, TypeOK
<1> QED BY <1>3, <1>7, <1>8 DEF UndisturbedEnded, Places

LEMMA NextStray ==
  ASSUME Base, OnlyDisturbedStray, [Next]_vars PROVE OnlyDisturbedStray'
<1> SUFFICES ASSUME NEW t \in Trades, NEW u \in Trades, t # u, Undisturbed(u)',
                    outcome'[t].of = u \/ book'[u] = t
             PROVE  FALSE
  BY DEF OnlyDisturbedStray
<1>1. Undisturbed(u)
  BY NeverCleared DEF Base
<1>2. outcome'[t].of = u
  <2>1. BookReturned'
    BY NextBase
  <2>2. book'[u] = t => outcome'[t] = [by |-> "result", of |-> u]
    BY <2>1 DEF BookReturned
  <2> QED BY <2>2
<1>3. outcome'[t] # outcome[t]
  BY <1>1, <1>2 DEF OnlyDisturbedStray
<1>4. TakeResult(t) \/ TakeReply(t) \/ GiveUp(t)
  <2>1. PICK v \in Trades : TakeResult(v) \/ TakeReply(v) \/ GiveUp(v)
    BY <1>3 DEF Next, Over, vars, Start, Send, DeliverReply, DeliverEvent, DropAcks, Age, Abort
  <2>2. \E o : outcome' = [outcome EXCEPT ![v] = o]
    BY <2>1 DEF TakeResult, TakeReply, GiveUp, Finish
  <2>3. v = t
    BY <1>3, <2>2 DEF Base, TypeOK
  <2> QED BY <2>1, <2>3
<1>5. CASE TakeResult(t)
  <2>1. PICK n \in Places, v \in Trades : Took(t, n, v)
    BY <1>5, TakeResultFacts DEF Base
  <2>2. outcome'[t].of = v
    BY <2>1 DEF Took, Base, TypeOK
  <2>3. queue[n].of = u /\ phase[t] \in Active
    BY <1>2, <2>1, <2>2 DEF Took, Active
  <2>4. phase[u] \in Active
    BY <1>1, <2>3 DEF Base, UndisturbedEnded
  <2> QED BY <1>1, <2>3, <2>4, Alone DEF Base
<1>6. CASE TakeReply(t)
  <2>1. reply[t] = u
    BY <1>2, <1>6 DEF TakeReply, Finish, Base, TypeOK
  <2> QED BY <1>1, <2>1 DEF Base, UndisturbedEnded, Nobody, Trades
<1>7. CASE GiveUp(t)
  <2>1. outcome'[t].of = Nobody
    BY <1>7 DEF GiveUp, Finish, NoOutcome, Base, TypeOK
  <2> QED BY <1>2, <2>1 DEF Nobody, Trades
<1> QED BY <1>4, <1>5, <1>6, <1>7

LEMMA NextExact ==
  ASSUME Base, UndisturbedExact, [Next]_vars PROVE UndisturbedExact'
<1> DEFINE Right(t) ==
      /\ outcome[t] = [by |-> IF kind[t] = "modify" THEN "reply" ELSE "result", of |-> t]
      /\ kind[t] \in Books /\ t \in done => book[t] = t
<1> SUFFICES ASSUME NEW t \in Trades, Undisturbed(t)', phase'[t] \in Ended PROVE Right(t)'
  BY DEF UndisturbedExact
<1>1. Undisturbed(t)
  BY NeverCleared DEF Base
<1>2. CASE UNCHANGED vars
  <2>1. Right(t)
    BY <1>1, <1>2 DEF UndisturbedExact, vars
  <2> QED BY <1>2, <2>1 DEF vars
<1>3. CASE Next /\ phase[t] \in Ended
  <2>1. Right(t)
    BY <1>1, <1>3 DEF UndisturbedExact
  <2>2. outcome'[t] = outcome[t] /\ kind'[t] = kind[t] /\ (t \in done' => t \in done)
    <3>1. ASSUME NEW k \in Kinds, Start(k)
          PROVE  outcome'[t] = outcome[t] /\ kind'[t] = kind[t] /\ done' = done
      <4>1. PICK b \in Trades : Started(k, b)
        BY <3>1, StartFacts DEF Base
      <4> QED BY <1>3, <4>1 DEF Started, Ended, Base, TypeOK
    <3>2. ASSUME NEW v \in Trades, Send(v)
          PROVE  outcome' = outcome /\ kind' = kind /\ (t \in done' => t \in done)
      BY <1>3, <3>2 DEF Send, Ended
    <3>3. ASSUME NEW v \in Trades, TakeResult(v) \/ TakeReply(v) \/ GiveUp(v)
          PROVE  outcome'[t] = outcome[t] /\ kind' = kind /\ done' = done
      <4>1. v # t
        BY <1>3, <3>3 DEF TakeResult, TakeReply, GiveUp, Ended
      <4>2. \E o : outcome' = [outcome EXCEPT ![v] = o]
        BY <3>3 DEF TakeResult, TakeReply, GiveUp, Finish
      <4>3. outcome'[t] = outcome[t]
        BY <4>1, <4>2 DEF Base, TypeOK
      <4> QED BY <3>3, <4>3 DEF TakeResult, TakeReply, GiveUp
    <3> QED
      BY <1>3, <3>1, <3>2, <3>3 DEF Next, Over, vars, DeliverReply, DeliverEvent, DropAcks,
         Age, Abort
  <2>3. CASE \E v \in Trades : TakeResult(v)
    <3>1. PICK v \in Trades : TakeResult(v)
      BY <2>3
    <3>2. PICK n \in Places, w \in Trades : Took(v, n, w)
      BY <3>1, TakeResultFacts DEF Base
    <3>3. w # t
      BY <1>1, <1>3, <3>2 DEF Took, Base, UndisturbedEnded, Active, Ended
    <3>4. book'[t] = book[t]
      BY <3>2, <3>3 DEF Took, Base, TypeOK
    <3> QED BY <2>1, <2>2, <3>4
  <2>4. CASE book' = book
    BY <2>1, <2>2, <2>4
  <2> QED
    BY <1>3, <2>3, <2>4 DEF Next, Over, vars, Start, Send, DeliverReply, DeliverEvent,
       DropAcks, TakeReply, Age, GiveUp, Abort
<1>4. CASE Next /\ phase[t] \in Active
  <2>1. TakeResult(t) \/ TakeReply(t)
    BY <1>1, <1>4, OnlyOwnSteps
    DEF Send, DeliverReply, DeliverEvent, DropAcks, Age, vars, Base, TypeOK, Active, Ended
  <2>2. CASE TakeResult(t)
    <3>1. PICK n \in Places, u \in Trades : Took(t, n, u)
      BY <2>2, TakeResultFacts DEF Base
    <3>2. u = t /\ kind[t] # "modify"
      BY <1>1, <3>1, TakesOwn
    <3>3. /\ outcome'[t] = [by |-> "result", of |-> t]
          /\ kind' = kind /\ done' = done
          /\ kind[t] \in Books /\ t \in done => book'[t] = t
      BY <3>1, <3>2 DEF Took, Base, TypeOK
    <3> QED BY <3>2, <3>3
  <2>3. CASE TakeReply(t)
    <3>1. reply[t] = t /\ kind[t] = "modify"
      BY <1>1, <2>3, RepliesOwn
    <3>2. outcome'[t] = [by |-> "reply", of |-> t] /\ kind' = kind
      BY <2>3, <3>1 DEF TakeReply, Finish, Base, TypeOK
    <3> QED BY <3>1, <3>2 DEF Books
  <2> QED BY <2>1, <2>2, <2>3
<1>5. CASE Next /\ phase[t] = "unused"
  BY <1>5 DEF Base, TypeOK, Next, Over, vars, Start, Send, DeliverReply,
     DeliverEvent, TakeResult, DropAcks, TakeReply, Age, GiveUp, Abort, Finish, Active, Ended
<1> QED BY <1>2, <1>3, <1>4, <1>5 DEF Base, TypeOK, Active, Ended

(* The tickets of the cache keep the trade they are stored for.            *)
LEMMA NextBookOnce ==
  ASSUME TypeOK, ResultOnce, BookReturned, [Next]_vars
  PROVE  \A u \in Trades : book[u] # Nobody => book'[u] = book[u]
<1>1. ASSUME NEW t \in Trades, TakeResult(t), NEW u \in Trades, book[u] # Nobody
      PROVE  book'[u] = book[u]
  <2>1. PICK n \in Places, w \in Trades : Took(t, n, w)
    BY <1>1, TakeResultFacts
  <2>2. CASE u # w
    BY <2>1, <2>2 DEF Took, TypeOK
  <2>3. CASE u = w
    <3>1. PICK x \in Trades : x = book[u]
      BY <1>1 DEF TypeOK
    <3>2. outcome[x] = [by |-> "result", of |-> w]
      BY <2>3, <3>1 DEF BookReturned
    <3>3. queue[n].final /\ queue[n].of = w
      BY <2>1 DEF Took
    <3> QED BY <3>2, <3>3 DEF ResultOnce
  <2> QED BY <2>2, <2>3
<1>2. CASE book' = book
  BY <1>2
<1> QED
  BY <1>1, <1>2 DEF Next, Over, vars, Start, Send, DeliverReply, DeliverEvent,
     DropAcks, TakeReply, Age, GiveUp, Abort

LEMMA OnceFromParts ==
  ASSUME TypeOK, NothingEarly, ResultOnce, ReplyOnce PROVE EachMessageOnce
<1> SUFFICES ASSUME NEW t \in Trades, NEW u \in Trades, outcome[t].by # "none",
                    outcome[t] = outcome[u]
             PROVE  t = u
  BY DEF EachMessageOnce
<1>1. outcome[t].by \in {"result", "reply"}
  BY DEF TypeOK, Outcomes
<1>2. CASE outcome[t].by = "result"
  BY <1>2 DEF ResultOnce
<1>3. CASE outcome[t].by = "reply"
  <2>1. outcome[t].of = reply[t] /\ outcome[u].of = reply[u]
    BY <1>3 DEF ReplyOnce
  <2>2. outcome[t].of # Nobody
    BY DEF NothingEarly
  <2> QED BY <2>1, <2>2 DEF ReplyOnce
<1> QED BY <1>1, <1>2, <1>3

-----------------------------------------------------------------------------
LEMMA InitInvariant ==
  ASSUME Init PROVE IInv
<1> USE DEF Init
<1>1. Places = {} /\ Len(queue) = 0 /\ queue \in Seq(Events)
  BY DEF Places
<1>2. TypeOK
  BY <1>1, TradeAssumption DEF TypeOK, Outcomes, NoOutcome, Trades, Nobody, Active, Ended
<1>3. NothingEarly /\ ResultOnce /\ ReplyOnce /\ BookReturned /\ ResultLast /\ OverlapSeen
  BY <1>1 DEF NothingEarly, ResultOnce, ReplyOnce, BookReturned, ResultLast, OverlapSeen,
     NoOutcome, Nobody, Trades, Unsent, Active, Ended
<1>4. UndisturbedActive /\ UndisturbedEnded /\ UndisturbedExact
  BY <1>1 DEF UndisturbedActive, UndisturbedEnded, UndisturbedExact, Active, Ended, Nobody
<1>5. OnlyDisturbedStray
  BY DEF OnlyDisturbedStray, NoOutcome, Nobody, Trades
<1> QED BY <1>2, <1>3, <1>4, <1>5 DEF IInv

LEMMA NextInvariant ==
  ASSUME IInv, [Next]_vars PROVE IInv'
<1>1. Base
  BY DEF IInv, Base
<1>2. OnlyDisturbedStray' /\ UndisturbedExact'
  BY <1>1, NextStray, NextExact DEF IInv
<1> QED BY <1>1, <1>2, NextBase, NextActive, NextEnded DEF IInv

(* The inductive invariant.                                                *)
THEOREM Invariance == Spec => []IInv
<1>1. Init => IInv
  BY InitInvariant
<1>2. IInv /\ [Next]_vars => IInv'
  BY NextInvariant
<1> QED BY <1>1, <1>2, PTL DEF Spec

(* The types of the trade layer's state.                                   *)
THEOREM TypeCorrect == Spec => []TypeOK
<1>1. IInv => TypeOK
  BY DEF IInv
<1> QED BY <1>1, Invariance, PTL

(* Messages and tickets go astray only after a disturbance (_send_trade).  *)
THEOREM StrayIfDisturbed == Spec => []OnlyDisturbedStray
<1>1. IInv => OnlyDisturbedStray
  BY DEF IInv
<1> QED BY <1>1, Invariance, PTL

(* An undisturbed trade returns its own outcome and its ticket is cached   *)
(* (_send_trade, _trade).                                                  *)
THEOREM UndisturbedIsExact == Spec => []UndisturbedExact
<1>1. IInv => UndisturbedExact
  BY DEF IInv
<1> QED BY <1>1, Invariance, PTL

(* No message is returned by two trades (_send_trade, _recv_loop).         *)
THEOREM MessageOnce == Spec => []EachMessageOnce
<1>1. IInv => EachMessageOnce
  BY OnceFromParts DEF IInv
<1> QED BY <1>1, Invariance, PTL

(* A cached ticket never moves to another trade (_trade).                  *)
THEOREM BookedOnce == Spec => BookOnce
<1>1. IInv /\ [Next]_vars =>
        [\A u \in Trades : book[u] # Nobody => book'[u] = book[u]]_vars
  BY NextBookOnce DEF IInv
<1> QED BY <1>1, Invariance, PTL DEF Spec, BookOnce

-----------------------------------------------------------------------------
(* What is promised to the callers.  A trade is carried out after it was   *)
(* sent.                                                                   *)
CarriedOut == \A t \in done : phase[t] \notin Unsent

Statuses == [t \in Trades |-> StatusOf(t)]

LEMMA NextCarriedOut ==
  ASSUME TypeOK, CarriedOut, [Next]_vars PROVE CarriedOut'
<1> USE DEF CarriedOut, Unsent
<1>1. ASSUME NEW k \in Kinds, Start(k) PROVE CarriedOut'
  <2>1. PICK b \in Trades : Started(k, b)
    BY <1>1, StartFacts
  <2> QED BY <2>1 DEF Started, TypeOK
<1>2. ASSUME NEW t \in Trades, Send(t) PROVE CarriedOut'
  BY <1>2 DEF Send, TypeOK
<1>3. ASSUME NEW t \in Trades, DeliverReply(t) PROVE CarriedOut'
  BY <1>3 DEF DeliverReply
<1>4. ASSUME NEW t \in Trades, NEW m \in {"ack", "result"}, DeliverEvent(t, m)
      PROVE  CarriedOut'
  BY <1>4 DEF DeliverEvent
<1>5. ASSUME NEW t \in Trades, TakeResult(t) PROVE CarriedOut'
  BY <1>5 DEF TakeResult, Finish, TypeOK
<1>6. ASSUME NEW t \in Trades, DropAcks(t) PROVE CarriedOut'
  BY <1>6 DEF DropAcks
<1>7. ASSUME NEW t \in Trades, TakeReply(t) PROVE CarriedOut'
  BY <1>7 DEF TakeReply, Finish, TypeOK
<1>8. ASSUME NEW t \in Trades, Age(t) PROVE CarriedOut'
  BY <1>8 DEF Age
<1>9. ASSUME NEW t \in Trades, GiveUp(t) PROVE CarriedOut'
  BY <1>9 DEF GiveUp, Finish, TypeOK
<1>10. ASSUME NEW t \in Trades, Abort(t) PROVE CarriedOut'
  BY <1>10 DEF Abort, TypeOK
<1>11. CASE UNCHANGED vars
  BY <1>11 DEF vars
<1> QED BY <1>1, <1>2, <1>3, <1>4, <1>5, <1>6, <1>7, <1>8, <1>9, <1>10, <1>11
        DEF Next, Over

(* A trade whose phase changes changes its status, and no other does.      *)
LEMMA StatusMoves ==
  ASSUME TypeOK, NEW t \in Trades, NEW p, phase' = [phase EXCEPT ![t] = p]
  PROVE  /\ p \in Active => Statuses' = [Statuses EXCEPT ![t] = "active"]
         /\ p \in Ended => Statuses' = [Statuses EXCEPT ![t] = "ended"]
<1>1. phase'[t] = p /\ \A u \in Trades \ {t} : phase'[u] = phase[u]
  BY DEF TypeOK
<1>2. \A u \in Trades \ {t} : StatusOf(u)' = StatusOf(u)
  BY <1>1 DEF StatusOf
<1>3. /\ p \in Active => StatusOf(t)' = "active"
      /\ p \in Ended => StatusOf(t)' = "ended"
  BY <1>1 DEF StatusOf, Active, Ended
<1> QED BY <1>2, <1>3 DEF Statuses

(* For a caller a trade is whole as long as it is undisturbed.             *)
LEMMA WholeIs ==
  ASSUME NEW t \in Trades PROVE Promise!Whole(t) <=> Undisturbed(t)
<1>1. \A u \in 1..t : u \in Trades
  BY TradeAssumption DEF Trades
<1> QED BY <1>1 DEF Promise!Whole, Undisturbed, Spoiled

LEMMA StartRefines ==
  ASSUME TypeOK, CarriedOut, NEW k \in Kinds, Start(k)
  PROVE  \E b \in Trades : Promise!Begin(b)
<1>1. PICK b \in Trades : Started(k, b)
  BY StartFacts
<1>2. Statuses[b] = "unused" /\ Statuses' = [Statuses EXCEPT ![b] = "active"]
  <2>1. Statuses[b] = "unused"
    BY <1>1 DEF Started, Statuses, StatusOf, Active, Ended
  <2>2. phase' = [phase EXCEPT ![b] = "sending"] /\ "sending" \in Active
    BY <1>1 DEF Started, Active
  <2> QED BY <2>1, <2>2, StatusMoves
<1>3. \A u \in Trades : u < b => Statuses[u] # "unused"
  <2>1. \A u \in Trades : u < b => phase[u] \in Active \cup Ended
    BY <1>1, TradeAssumption DEF Started, TypeOK, Trades
  <2> QED BY <2>1 DEF Statuses, StatusOf
<1>4. Promise!Open = InFlight
  BY Zenon DEF Promise!Open, Promise!Trades, InFlight, Trades, StatusOf
<1>5. Spoiled' = IF Promise!Open = {} THEN Spoiled ELSE Spoiled \cup Promise!Open \cup {b}
  <2>1. {t \in Trades : phase[t] = "aborted"}' = {t \in Trades : phase[t] = "aborted"}
    BY <1>1 DEF Started, TypeOK
  <2> QED BY <1>1, <1>4, <2>1 DEF Started, Spoiled
<1>6. Opened' = Opened
  <2>1. b \notin done
    BY <1>1 DEF Started, CarriedOut, Unsent
  <2> QED BY <1>1, <2>1 DEF Started, Opened, TypeOK
<1> QED
  BY <1>1, <1>2, <1>3, <1>5, <1>6
     DEF Promise!Begin, Promise!Becomes, Promise!Trades, Trades, Statuses, Started

LEMMA SendRefines ==
  ASSUME TypeOK, NEW t \in Trades, Send(t) PROVE Promise!Serve(t)
<1>1. Statuses' = Statuses /\ Statuses[t] = "active"
  BY DEF Statuses, StatusOf, Send, TypeOK, Active
<1>2. Spoiled' = Spoiled \/ Spoiled' = Spoiled \cup {t}
  <2>1. {u \in Trades : phase[u] = "aborted"}' = {u \in Trades : phase[u] = "aborted"}
    BY DEF Send, TypeOK
  <2> QED BY <2>1 DEF Send, Spoiled
<1>3. Opened' = Opened \/ Opened' = Opened \cup {t}
  BY DEF Send, Opened
<1> QED BY <1>1, <1>2, <1>3 DEF Promise!Serve, Statuses, Send

(* The messages of a trade, and the marks it leaves.                       *)
LEMMA SameMarks ==
  ASSUME TypeOK, NEW t \in Trades, NEW p, p # "aborted", phase[t] # "aborted",
         phase' = [phase EXCEPT ![t] = p], UNCHANGED <<tardy, overlapped, done, kind>>
  PROVE  /\ Spoiled' = Spoiled /\ Opened' = Opened
         /\ \A u \in Trades : Undisturbed(u)' <=> Undisturbed(u)
<1>1. \A u \in Trades : phase'[u] = "aborted" <=> phase[u] = "aborted"
  BY DEF TypeOK
<1>2. \A u \in Trades : \A v \in 1..u : v \in Trades
  BY TradeAssumption DEF Trades
<1>3. \A u \in Trades : Undisturbed(u)' <=> Undisturbed(u)
  BY <1>1, <1>2 DEF Undisturbed
<1> QED BY <1>1, <1>3 DEF Spoiled, Opened

(* An undisturbed trade returns its own message, and nobody else does.     *)
LEMMA ReturnsOwn ==
  ASSUME OnlyDisturbedStray', UndisturbedExact', NEW t \in Trades, NEW u \in Trades,
         phase'[t] \in Ended, outcome'[t].of = u,
         Undisturbed(t)' \/ Undisturbed(u)'
  PROVE  u = t
<1>1. CASE Undisturbed(t)'
  <2>1. outcome'[t] = [by |-> IF kind'[t] = "modify" THEN "reply" ELSE "result", of |-> t]
    BY <1>1 DEF UndisturbedExact
  <2> QED BY <2>1
<1>2. CASE Undisturbed(u)'
  BY <1>2 DEF OnlyDisturbedStray
<1> QED BY <1>1, <1>2

LEMMA TakeResultRefines ==
  ASSUME IInv, IInv', NEW t \in Trades, TakeResult(t)
  PROVE  \E m \in Promise!Messages : Promise!Return(t, m)
<1> USE DEF IInv
<1>1. PICK n \in Places, u \in Trades : Took(t, n, u)
  BY TakeResultFacts
<1> DEFINE m == [by |-> "result", of |-> u]
<1>2. m \in Promise!Messages /\ m.of = u
  BY DEF Promise!Messages, Promise!Trades, Trades
<1>3. Statuses[t] = "active" /\ Statuses' = [Statuses EXCEPT ![t] = "ended"]
  <2>1. Statuses[t] = "active"
    BY <1>1 DEF Took, Statuses, StatusOf, Active
  <2>2. phase' = [phase EXCEPT ![t] = "returned"] /\ "returned" \in Ended
    BY <1>1 DEF Took, Ended
  <2> QED BY <2>1, <2>2, StatusMoves
<1>4. /\ Spoiled' = Spoiled /\ Opened' = Opened
      /\ \A v \in Trades : Undisturbed(v)' <=> Undisturbed(v)
  BY <1>1, SameMarks DEF Took
<1>5. phase'[t] \in Ended /\ outcome'[t] = m /\ outcome' = [outcome EXCEPT ![t] = m]
  BY <1>1 DEF Took, TypeOK, Ended
<1>6. \A v \in Trades : outcome[v] # m
  BY <1>1 DEF Took, ResultOnce
<1>7. Promise!Whole(t) \/ Promise!Whole(u) => u = t
  BY <1>4, <1>5, WholeIs, ReturnsOwn
<1>8. book' = book \/ (book[u] = Nobody /\ book' = [book EXCEPT ![u] = t])
  <2>1. book[u] = Nobody
    <3>1. \A v \in Trades : book[u] # v
      BY <1>6 DEF BookReturned
    <3> QED BY <3>1 DEF TypeOK
  <2> QED BY <1>1, <2>1 DEF Took
<1>9. Promise!Whole(t) /\ t \in Opened => book'[t] = t
  <2> SUFFICES ASSUME Undisturbed(t)', t \in Opened' PROVE book'[t] = t
    BY <1>4, WholeIs
  <2> QED BY <1>5 DEF UndisturbedExact, Opened
<1>10. Promise!Return(t, m)
  BY <1>2, <1>3, <1>4, <1>5, <1>6, <1>7, <1>8, <1>9
     DEF Promise!Return, Promise!Returns, Promise!Becomes, Promise!Trades, Trades,
         Promise!Nobody, Nobody, Statuses
<1> QED BY <1>2, <1>10

LEMMA TakeReplyRefines ==
  ASSUME IInv, IInv', NEW t \in Trades, TakeReply(t)
  PROVE  \E m \in Promise!Messages : Promise!Return(t, m)
<1> USE DEF IInv
<1> DEFINE u == reply[t]
<1> DEFINE m == [by |-> "reply", of |-> u]
<1>1. u \in Trades
  BY DEF TakeReply, HasReply, TypeOK
<1>2. m \in Promise!Messages /\ m.of = u
  BY <1>1 DEF Promise!Messages, Promise!Trades, Trades
<1>3. Statuses[t] = "active" /\ Statuses' = [Statuses EXCEPT ![t] = "ended"]
  <2>1. Statuses[t] = "active"
    BY DEF TakeReply, Statuses, StatusOf, Active
  <2>2. phase' = [phase EXCEPT ![t] = "returned"] /\ "returned" \in Ended
    BY DEF TakeReply, Finish, Ended
  <2> QED BY <2>1, <2>2, StatusMoves
<1>4. /\ Spoiled' = Spoiled /\ Opened' = Opened
      /\ \A v \in Trades : Undisturbed(v)' <=> Undisturbed(v)
  BY SameMarks DEF TakeReply, Finish
<1>5. phase'[t] \in Ended /\ outcome'[t] = m /\ outcome' = [outcome EXCEPT ![t] = m]
  BY DEF TakeReply, Finish, TypeOK, Ended
<1>6. \A v \in Trades : outcome[v] # m
  <2> SUFFICES ASSUME NEW v \in Trades, outcome[v] = m PROVE FALSE
    OBVIOUS
  <2>1. reply[v] = u /\ v = t
    BY <1>1 DEF ReplyOnce, Nobody, Trades
  <2>2. outcome[t] = NoOutcome
    BY DEF TakeReply, NothingEarly, Ended
  <2> QED BY <2>1, <2>2 DEF NoOutcome
<1>7. Promise!Whole(t) \/ Promise!Whole(u) => u = t
  BY <1>1, <1>4, <1>5, WholeIs, ReturnsOwn
<1>8. book' = book
  BY DEF TakeReply
<1>9. Promise!Whole(t) /\ t \in Opened => book'[t] = t
  <2> SUFFICES ASSUME Undisturbed(t)', t \in Opened' PROVE book'[t] = t
    BY <1>4, WholeIs
  <2> QED BY <1>5 DEF UndisturbedExact, Opened
<1>10. Promise!Return(t, m)
  BY <1>2, <1>3, <1>4, <1>5, <1>6, <1>7, <1>8, <1>9
     DEF Promise!Return, Promise!Returns, Promise!Becomes, Promise!Trades, Trades, Statuses
<1> QED BY <1>2, <1>10

LEMMA GiveUpRefines ==
  ASSUME IInv, NEW t \in Trades, GiveUp(t) PROVE Promise!GiveUp(t)
<1>1. Base /\ TypeOK /\ NothingEarly
  BY DEF IInv, Base
<1>2. ~Undisturbed(t)
  BY <1>1, NeverOverdue
<1>3. Statuses[t] = "active" /\ Statuses' = [Statuses EXCEPT ![t] = "ended"]
  <2>1. Statuses[t] = "active"
    BY DEF GiveUp, Statuses, StatusOf, Active
  <2>2. phase' = [phase EXCEPT ![t] = "timedout"] /\ "timedout" \in Ended
    BY DEF GiveUp, Finish, Ended
  <2> QED BY <1>1, <2>1, <2>2, StatusMoves
<1>4. Spoiled' = Spoiled /\ Opened' = Opened
  BY <1>1, SameMarks DEF GiveUp, Finish
<1>5. outcome[t] = NoOutcome
  BY <1>1 DEF GiveUp, NothingEarly, Ended
<1>6. outcome' = outcome /\ book' = book
  BY <1>1, <1>5 DEF GiveUp, Finish, TypeOK
<1> QED
  BY <1>2, <1>3, <1>4, <1>6, WholeIs DEF Promise!GiveUp, Promise!Becomes, Statuses

LEMMA AbortRefines ==
  ASSUME TypeOK, NEW t \in Trades, Abort(t) PROVE Promise!Abort(t)
<1>1. Statuses[t] = "active" /\ Statuses' = [Statuses EXCEPT ![t] = "ended"]
  <2>1. Statuses[t] = "active"
    BY DEF Abort, Statuses, StatusOf, Active
  <2>2. phase' = [phase EXCEPT ![t] = "aborted"] /\ "aborted" \in Ended
    BY DEF Abort, Ended
  <2> QED BY <2>1, <2>2, StatusMoves
<1>2. Spoiled' = Spoiled \cup {t}
  <2>1. \A u \in Trades : phase'[u] = "aborted" <=> phase[u] = "aborted" \/ u = t
    BY DEF Abort, TypeOK
  <2> QED BY <2>1 DEF Abort, Spoiled
<1>3. Opened' = Opened
  BY DEF Abort, Opened
<1> QED BY <1>1, <1>2, <1>3 DEF Promise!Abort, Promise!Becomes, Statuses, Abort

(* The other steps change nothing a caller sees.                           *)
LEMMA StepRefines ==
  ASSUME IInv, IInv', CarriedOut, [Next]_vars PROVE [Promise!Next]_(Promise!vars)
<1>0. Promise!Trades = Trades /\ TypeOK
  BY DEF Promise!Trades, Trades, IInv
<1>1. ASSUME UNCHANGED <<kind, phase, tardy, done, outcome, book, overlapped>>
      PROVE  UNCHANGED Promise!vars
  <2>1. Statuses' = Statuses /\ Spoiled' = Spoiled /\ Opened' = Opened
    BY <1>1 DEF Statuses, StatusOf, Spoiled, Opened
  <2> QED BY <1>1, <2>1 DEF Promise!vars, Statuses
<1>2. ASSUME NEW k \in Kinds, Start(k) PROVE Promise!Next
  BY <1>0, <1>2, StartRefines DEF Promise!Next
<1>3. ASSUME NEW t \in Trades, Send(t) PROVE Promise!Next
  BY <1>0, <1>3, SendRefines DEF Promise!Next
<1>4. ASSUME NEW t \in Trades, DeliverReply(t) PROVE UNCHANGED Promise!vars
  BY <1>1, <1>4 DEF DeliverReply
<1>5. ASSUME NEW t \in Trades, NEW m \in {"ack", "result"}, DeliverEvent(t, m)
      PROVE  UNCHANGED Promise!vars
  BY <1>1, <1>5 DEF DeliverEvent
<1>6. ASSUME NEW t \in Trades, TakeResult(t) PROVE Promise!Next
  BY <1>0, <1>6, TakeResultRefines DEF Promise!Next
<1>7. ASSUME NEW t \in Trades, DropAcks(t) PROVE UNCHANGED Promise!vars
  BY <1>1, <1>7 DEF DropAcks
<1>8. ASSUME NEW t \in Trades, TakeReply(t) PROVE Promise!Next
  BY <1>0, <1>8, TakeReplyRefines DEF Promise!Next
<1>9. ASSUME NEW t \in Trades, Age(t) PROVE UNCHANGED Promise!vars
  BY <1>1, <1>9 DEF Age
<1>10. ASSUME NEW t \in Trades, GiveUp(t) PROVE Promise!Next
  BY <1>0, <1>10, GiveUpRefines DEF Promise!Next
<1>11. ASSUME NEW t \in Trades, Abort(t) PROVE Promise!Next
  BY <1>0, <1>11, AbortRefines DEF Promise!Next
<1>12. CASE UNCHANGED vars
  BY <1>1, <1>12 DEF vars
<1> QED BY <1>2, <1>3, <1>4, <1>5, <1>6, <1>7, <1>8, <1>9, <1>10, <1>11, <1>12
        DEF Next, Over

(* However trades overlap, whatever is late or lost: what a caller sees of *)
(* _send_trade and _trade is what PromisedTrades promises.                 *)
THEOREM PromisesKept == Spec => PromiseKept
<1>1. ASSUME Init PROVE Promise!Init /\ CarriedOut
  BY <1>1 DEF Init, Promise!Init, Promise!Trades, Promise!Nobody, Trades, Nobody, NoOutcome,
              StatusOf, Spoiled, Opened, CarriedOut, Active, Ended
<1>2. TypeOK /\ CarriedOut /\ [Next]_vars => CarriedOut'
  BY NextCarriedOut
<1>3. IInv => TypeOK
  BY DEF IInv
<1>4. IInv /\ IInv' /\ CarriedOut /\ [Next]_vars => [Promise!Next]_(Promise!vars)
  BY StepRefines
<1> QED BY <1>1, <1>2, <1>3, <1>4, Invariance, PTL DEF Spec, PromiseKept, Promise!Spec
=============================================================================
