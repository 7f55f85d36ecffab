------------------------- MODULE RequestTable_proofs -------------------------
(***************************************************************************)
(* The invariants of RequestTable hold for any set of callers and          *)
(* commands and any number of calls.                                       *)
(***************************************************************************)
EXTENDS RequestTable, TLAPS

(* Calls not made yet are blank, and what was sent or registered was made. *)
Blank ==
    /\ \A i \in Calls : issued < i => cmd[i] = "none" /\ future[i] = Nobody
    /\ \A i \in outstanding : i <= issued
    /\ \A k \in Cmds : pending[k] <= issued

(* A call that has not returned has no result.                             *)
NoEarlyResult == \A i \in Calls : phase[i] # "returned" => result[i] = Nobody

(* The inductive invariant.                                                *)
IInv ==
    /\ TypeOK
    /\ Blank
    /\ NoEarlyResult
    /\ SlotHoldsLatest
    /\ AnswerNotNewer
    /\ LostOnlyToRival

LEMMA InitInvariant == Init => IInv
  BY RequestAssumption
  DEF Init, IInv, TypeOK, Blank, NoEarlyResult, SlotHoldsLatest, AnswerNotNewer,
      LostOnlyToRival, Calls, Nobody, Cancelled, Phases

LEMMA NextType == ASSUME TypeOK, Blank, [Next]_vars PROVE TypeOK' /\ Blank'
<1> USE RequestAssumption DEF TypeOK, Blank, Calls, Nobody, Cancelled, Phases, Active
<1>1. ASSUME NEW c \in Callers, NEW k \in Cmds, Begin(c, k) PROVE TypeOK' /\ Blank'
  <2>1. issued + 1 \in Calls
    BY <1>1 DEF Begin
  <2>2. TypeOK'
    BY <1>1, <2>1 DEF Begin
  <2>3. /\ cmd' = [cmd EXCEPT ![issued + 1] = k]
        /\ pending' = [pending EXCEPT ![k] = issued + 1]
        /\ issued' = issued + 1
        /\ UNCHANGED <<future, outstanding>>
    BY <1>1 DEF Begin
  <2>4. \A i \in Calls : issued' < i => cmd'[i] = "none" /\ future'[i] = Nobody
    BY <2>1, <2>3
  <2>5. \A i \in outstanding' : i <= issued'
    BY <2>3
  <2>6. \A l \in Cmds : pending'[l] <= issued'
    BY <2>3
  <2> QED BY <2>2, <2>4, <2>5, <2>6
<1>2. ASSUME NEW i \in Calls, Transmit(i) PROVE TypeOK' /\ Blank'
  BY <1>2 DEF Transmit, HoldsLock
<1>3. ASSUME NEW i \in Calls, SendFails(i) PROVE TypeOK' /\ Blank'
  BY <1>3 DEF SendFails, HoldsLock
<1>4. ASSUME NEW i \in Calls, CancelTask(i) PROVE TypeOK' /\ Blank'
  BY <1>4 DEF CancelTask, CancelFuture
<1>5. ASSUME NEW i \in Calls, Receive(i) PROVE TypeOK' /\ Blank'
  <2>1. cmd[i] \in Cmds /\ i \in Calls
    BY <1>5 DEF Receive
  <2>2. CASE pending[cmd[i]] = Nobody
    BY <1>5, <2>2 DEF Receive
  <2>3. CASE pending[cmd[i]] # Nobody
    <3> DEFINE h == pending[cmd[i]]
    <3>1. h \in Calls /\ h <= issued
      BY <2>1, <2>3
    <3>2. /\ pending' = [pending EXCEPT ![cmd[i]] = Nobody]
          /\ future' = [future EXCEPT ![h] = IF @ = Nobody THEN i ELSE @]
          /\ outstanding' = outstanding \ {i}
          /\ UNCHANGED <<issued, owner, cmd, phase, result>>
      BY <1>5, <2>3 DEF Receive
    <3> HIDE DEF h
    <3>3. future' \in [Calls -> Calls \cup {Nobody, Cancelled}]
      BY <3>1, <3>2, <2>1
    <3>4. TypeOK'
      BY <3>2, <3>3
    <3>5. \A j \in Calls : issued < j => future'[j] = future[j]
      BY <3>1, <3>2
    <3>6. Blank'
      BY <3>2, <3>5
    <3> QED BY <3>4, <3>6
  <2> QED BY <2>2, <2>3
<1>6. ASSUME NEW i \in Calls, TimerFires(i) PROVE TypeOK' /\ Blank'
  BY <1>6 DEF TimerFires, CancelFuture
<1>7. ASSUME NEW i \in Calls, ReturnAnswer(i) PROVE TypeOK' /\ Blank'
  BY <1>7 DEF ReturnAnswer
<1>8. ASSUME NEW i \in Calls, ReturnNone(i) PROVE TypeOK' /\ Blank'
  BY <1>8 DEF ReturnNone
<1>9. CASE UNCHANGED vars
  BY <1>9 DEF vars
<1> QED
  BY <1>1, <1>2, <1>3, <1>4, <1>5, <1>6, <1>7, <1>8, <1>9 DEF Next, Finished

LEMMA NextSlot ==
  ASSUME TypeOK, Blank, SlotHoldsLatest, [Next]_vars PROVE SlotHoldsLatest'
<1> USE RequestAssumption DEF TypeOK, Blank, SlotHoldsLatest, Calls, Nobody
<1>1. ASSUME NEW c \in Callers, NEW k \in Cmds, Begin(c, k)
      PROVE  SlotHoldsLatest'
  BY <1>1 DEF Begin
<1>2. ASSUME NEW i \in Calls, Receive(i) PROVE SlotHoldsLatest'
  BY <1>2 DEF Receive
<1>3. ASSUME NEW i \in Calls, ReturnNone(i) PROVE SlotHoldsLatest'
  BY <1>3 DEF ReturnNone
<1>4. ASSUME UNCHANGED <<pending, cmd>> PROVE SlotHoldsLatest'
  BY <1>4
<1> QED
  BY <1>1, <1>2, <1>3, <1>4
  DEF Next, Finished, vars, Transmit, SendFails, CancelTask, TimerFires, ReturnAnswer

LEMMA NextAnswer ==
  ASSUME TypeOK, Blank, SlotHoldsLatest, AnswerNotNewer, [Next]_vars
  PROVE  AnswerNotNewer'
<1> USE RequestAssumption
    DEF TypeOK, Blank, SlotHoldsLatest, AnswerNotNewer, Calls, Nobody, Cancelled
<1>1. ASSUME NEW c \in Callers, NEW k \in Cmds, Begin(c, k)
      PROVE  AnswerNotNewer'
  BY <1>1 DEF Begin
<1>2. ASSUME NEW i \in Calls, Receive(i) PROVE AnswerNotNewer'
  BY <1>2 DEF Receive
<1>3. ASSUME NEW i \in Calls, CancelFuture(i), UNCHANGED cmd
      PROVE  AnswerNotNewer'
  BY <1>3 DEF CancelFuture
<1>4. ASSUME UNCHANGED <<future, cmd>> PROVE AnswerNotNewer'
  BY <1>4
<1> QED
  BY <1>1, <1>2, <1>3, <1>4
  DEF Next, Finished, vars, Transmit, SendFails, CancelTask, TimerFires,
      ReturnAnswer, ReturnNone

LEMMA NextNoEarlyResult ==
  ASSUME TypeOK, NoEarlyResult, [Next]_vars PROVE NoEarlyResult'
<1> USE RequestAssumption DEF TypeOK, NoEarlyResult, Calls, Nobody
<1>1. ASSUME NEW c \in Callers, NEW k \in Cmds, Begin(c, k)
      PROVE  NoEarlyResult'
  BY <1>1 DEF Begin
<1>2. ASSUME NEW i \in Calls, ReturnAnswer(i) PROVE NoEarlyResult'
  BY <1>2 DEF ReturnAnswer
<1>3. ASSUME NEW i \in Calls, NEW p \in Phases,
             phase' = [phase EXCEPT ![i] = p], phase[i] \in Active,
             UNCHANGED result
      PROVE  NoEarlyResult'
  BY <1>3 DEF Active
<1>4. ASSUME UNCHANGED <<phase, result>> PROVE NoEarlyResult'
  BY <1>4
<1> QED
  BY <1>1, <1>2, <1>3, <1>4
  DEF Next, Finished, vars, Transmit, SendFails, CancelTask, Receive, TimerFires,
      ReturnNone, HoldsLock, Active, Phases

LEMMA NextLost ==
  ASSUME TypeOK, Blank, NoEarlyResult, LostOnlyToRival, [Next]_vars
  PROVE  LostOnlyToRival'
<1> USE RequestAssumption
    DEF TypeOK, Blank, NoEarlyResult, LostOnlyToRival, Calls, Nobody, Cancelled
<1>1. ASSUME NEW c \in Callers, NEW k \in Cmds, Begin(c, k)
      PROVE  LostOnlyToRival'
  <2>1. issued + 1 \in Calls
    BY <1>1 DEF Begin
  <2>2. \A i \in Calls : i # issued + 1 =>
          cmd'[i] = cmd[i] /\ phase'[i] = phase[i]
    BY <1>1 DEF Begin
  <2>3. /\ cmd'[issued + 1] = k
        /\ pending' = [pending EXCEPT ![k] = issued + 1]
        /\ UNCHANGED <<future, result>>
    BY <1>1, <2>1 DEF Begin
  <2> SUFFICES ASSUME NEW i \in Calls, phase'[i] \in {"sending", "waiting"},
                      future'[i] = Nobody, pending'[cmd'[i]] # i
               PROVE  \E j \in Calls \ {i} :
                        /\ cmd'[j] = cmd'[i]
                        /\ j > i \/ (phase'[j] = "returned" /\ result'[j] = Nobody)
    OBVIOUS
  <2>4. i # issued + 1
    BY <2>3
  <2>5. i <= issued /\ cmd[i] \in Cmds
    BY <2>2, <2>4
  <2>6. CASE cmd[i] = k
    BY <2>1, <2>2, <2>3, <2>4, <2>5, <2>6
  <2>7. CASE cmd[i] # k
    <3>1. PICK j \in Calls \ {i} :
            /\ cmd[j] = cmd[i]
            /\ j > i \/ (phase[j] = "returned" /\ result[j] = Nobody)
      BY <2>2, <2>3, <2>4, <2>5, <2>7
    <3>2. j # issued + 1
      BY <3>1, <2>5
    <3>3. cmd'[j] = cmd'[i] /\ phase'[j] = phase[j]
      BY <3>1, <3>2, <2>2, <2>4
    <3>4. result'[j] = result[j]
      BY <2>3
    <3> QED BY <3>1, <3>3, <3>4
  <2> QED BY <2>6, <2>7
<1>2. ASSUME NEW i \in Calls, Transmit(i) PROVE LostOnlyToRival'
  BY <1>2 DEF Transmit, HoldsLock
<1>3. ASSUME NEW i \in Calls, SendFails(i) PROVE LostOnlyToRival'
  BY <1>3 DEF SendFails, HoldsLock
<1>4. ASSUME NEW i \in Calls, CancelTask(i) PROVE LostOnlyToRival'
  BY <1>4 DEF CancelTask, CancelFuture, Active
<1>5. ASSUME NEW i \in Calls, Receive(i) PROVE LostOnlyToRival'
  BY <1>5 DEF Receive
<1>6. ASSUME NEW i \in Calls, TimerFires(i) PROVE LostOnlyToRival'
  BY <1>6 DEF TimerFires, CancelFuture
<1>7. ASSUME NEW i \in Calls, ReturnAnswer(i) PROVE LostOnlyToRival'
  BY <1>7 DEF ReturnAnswer
<1>8. ASSUME NEW i \in Calls, ReturnNone(i) PROVE LostOnlyToRival'
  BY <1>8 DEF ReturnNone
<1>9. CASE UNCHANGED vars
  BY <1>9 DEF vars
<1> QED
  BY <1>1, <1>2, <1>3, <1>4, <1>5, <1>6, <1>7, <1>8, <1>9 DEF Next, Finished

THEOREM Invariance == Spec => []IInv
<1>1. IInv /\ [Next]_vars => IInv'
  BY NextType, NextSlot, NextAnswer, NextNoEarlyResult, NextLost DEF IInv
<1> QED
  BY InitInvariant, <1>1, PTL DEF Spec

(* The types of the request layer's state (send_and_wait, _recv_loop).     *)
THEOREM TypeCorrect == Spec => []TypeOK
  BY Invariance, PTL DEF IInv

(* A replaced call never gets its slot back.                               *)
THEOREM SlotLatest == Spec => []SlotHoldsLatest
  BY Invariance, PTL DEF IInv

(* No call is given an answer to a request made after it.                  *)
THEOREM NotNewer == Spec => []AnswerNotNewer
  BY Invariance, PTL DEF IInv

(* Only a rival of the same command cuts a waiting call off.               *)
THEOREM LostToRival == Spec => []LostOnlyToRival
  BY Invariance, PTL DEF IInv

-----------------------------------------------------------------------------

(* Where Exclusive holds: a caller has one active call, no two active      *)
(* calls share a command, and an active call either still holds its slot   *)
(* or has its own answer.                                                  *)
OneEach ==
    \A i, j \in Calls :
        phase[i] \in Active /\ phase[j] \in Active /\ owner[i] = owner[j] => i = j

Uncontended ==
    /\ \A i \in Calls : i <= issued => cmd[i] \in Uses[owner[i]]
    /\ \A i \in Calls : phase[i] \in {"unused", "sending", "waiting", "returned"}
    /\ \A i \in Calls : phase[i] = "sending" => future[i] = Nobody
    /\ \A i \in Calls : phase[i] = "waiting" =>
          (future[i] = Nobody /\ i \in outstanding) \/ (future[i] = i)
    /\ \A i \in Calls : phase[i] \in Active /\ future[i] = Nobody =>
          pending[cmd[i]] = i
    /\ \A i \in outstanding : phase[i] = "waiting" /\ future[i] = Nobody
    /\ \A i \in Calls : phase[i] = "returned" => result[i] = i

XInv == TypeOK /\ Blank /\ OneEach /\ Uncontended

LEMMA OneEachCommand ==
  ASSUME Exclusive, TypeOK, OneEach, Uncontended,
         NEW i \in Calls, NEW j \in Calls,
         phase[i] \in Active, phase[j] \in Active, cmd[i] = cmd[j]
  PROVE  i = j
<1>1. owner[i] \in Callers /\ owner[j] \in Callers
  BY DEF TypeOK, Active
<1>2. cmd[i] \in Uses[owner[i]] /\ cmd[j] \in Uses[owner[j]]
  BY DEF Uncontended, TypeOK, Active
<1>3. owner[i] = owner[j]
  BY <1>1, <1>2 DEF Exclusive
<1> QED BY <1>3 DEF OneEach

LEMMA InitExclusive == Init => XInv
  BY InitInvariant
  DEF IInv, Init, XInv, OneEach, Uncontended, Active, Calls

LEMMA NextOneEach ==
  ASSUME Exclusive, TypeOK, Blank, OneEach, [Next]_vars PROVE OneEach'
<1> USE RequestAssumption DEF TypeOK, Calls, Active
<1>1. ASSUME NEW c \in Callers, NEW k \in Cmds, Begin(c, k) PROVE OneEach'
  <2>1. issued + 1 \in Calls
    BY <1>1 DEF Begin
  <2>2. /\ owner' = [owner EXCEPT ![issued + 1] = c]
        /\ phase' = [phase EXCEPT ![issued + 1] = "sending"]
    BY <1>1 DEF Begin
  <2>3. \A i \in Calls : ~(owner[i] = c /\ phase[i] \in Active)
    BY <1>1 DEF Begin, Busy
  <2> QED BY <2>1, <2>2, <2>3 DEF OneEach
<1>2. ASSUME owner' = owner,
             \A i \in Calls : phase'[i] \in Active => phase[i] \in Active
      PROVE  OneEach'
  BY <1>2 DEF OneEach
<1>3. ASSUME owner' = owner, NEW i \in Calls, NEW p \in Phases,
             phase[i] \in Active, phase' = [phase EXCEPT ![i] = p]
      PROVE  OneEach'
  BY <1>2, <1>3
<1> QED
  BY <1>1, <1>2, <1>3
  DEF Next, Finished, vars, Transmit, SendFails, CancelTask, Receive, TimerFires,
      ReturnAnswer, ReturnNone, HoldsLock, Phases

(* The steps that are possible where Exclusive holds.                      *)
LEMMA ExclusiveSteps ==
  ASSUME Exclusive, XInv, Next
  PROVE  \/ \E c \in Callers, k \in Cmds : Begin(c, k)
         \/ \E i \in Calls : Transmit(i) \/ Receive(i) \/ ReturnAnswer(i)
         \/ UNCHANGED vars
<1>1. ASSUME NEW i \in Calls PROVE ~SendFails(i) /\ ~CancelTask(i)
  BY DEF Exclusive, SendFails, CancelTask
<1>2. ASSUME NEW i \in Calls PROVE ~TimerFires(i)
  BY DEF Exclusive, TimerFires, XInv, Uncontended, Calls, Nobody
<1>3. ASSUME NEW i \in Calls PROVE ~ReturnNone(i)
  BY DEF ReturnNone, XInv, Uncontended
<1> QED BY <1>1, <1>2, <1>3 DEF Next, Finished

(* What each of those steps does to the calls.                             *)
LEMMA BeginExact ==
  ASSUME Exclusive, XInv, NEW c \in Callers, NEW k \in Cmds, Begin(c, k)
  PROVE  Uncontended'
<1> USE RequestAssumption DEF Calls, Active, Nobody, TypeOK, XInv
<1>1. issued + 1 \in Calls
  BY DEF Begin
<1>2. /\ owner' = [owner EXCEPT ![issued + 1] = c]
      /\ cmd' = [cmd EXCEPT ![issued + 1] = k]
      /\ phase' = [phase EXCEPT ![issued + 1] = "sending"]
      /\ pending' = [pending EXCEPT ![k] = issued + 1]
      /\ issued' = issued + 1
      /\ UNCHANGED <<future, outstanding, result>>
  BY DEF Begin
<1>3. k \in Uses[c]
  BY DEF Begin
<1>4. \A i \in Calls : phase[i] \in Active => i # issued + 1 /\ cmd[i] # k
  <2> SUFFICES ASSUME NEW i \in Calls, phase[i] \in Active, cmd[i] = k
               PROVE  FALSE
    BY <1>1
  <2>1. owner[i] \in Callers /\ cmd[i] \in Uses[owner[i]]
    BY DEF Uncontended
  <2>2. owner[i] = c
    BY <2>1, <1>3 DEF Exclusive
  <2> QED BY <2>2 DEF Begin, Busy
<1>5. future[issued + 1] = Nobody
  BY <1>1 DEF Blank
<1> QED BY <1>1, <1>2, <1>3, <1>4, <1>5 DEF Uncontended

LEMMA TransmitExact ==
  ASSUME Exclusive, XInv, NEW i \in Calls, Transmit(i)
  PROVE  Uncontended'
  BY DEF Transmit, HoldsLock, XInv, TypeOK, Uncontended, Calls, Active, Nobody

(* The answer goes to the call that asked for it.                          *)
LEMMA ReceiveHits ==
  ASSUME Exclusive, XInv, NEW i \in Calls, Receive(i)
  PROVE  /\ phase[i] = "waiting" /\ future[i] = Nobody
         /\ pending' = [pending EXCEPT ![cmd[i]] = Nobody]
         /\ future' = [future EXCEPT ![i] = i]
         /\ outstanding' = outstanding \ {i}
         /\ UNCHANGED <<issued, owner, cmd, phase, result>>
<1>1. i \in outstanding
  BY DEF Receive
<1>2. phase[i] = "waiting" /\ future[i] = Nobody /\ pending[cmd[i]] = i
  BY <1>1 DEF XInv, Uncontended, Active
<1>3. pending[cmd[i]] # Nobody
  BY <1>2 DEF Calls, Nobody
<1> QED BY <1>2, <1>3 DEF Receive, XInv, TypeOK

LEMMA ReceiveExact ==
  ASSUME Exclusive, XInv, NEW i \in Calls, Receive(i)
  PROVE  Uncontended'
<1>1. \A j \in Calls : phase[j] \in Active /\ cmd[j] = cmd[i] => j = i
  BY ReceiveHits, OneEachCommand DEF XInv, Active
<1>2. /\ phase[i] = "waiting"
      /\ pending' = [pending EXCEPT ![cmd[i]] = Nobody]
      /\ future' = [future EXCEPT ![i] = i]
      /\ outstanding' = outstanding \ {i}
      /\ UNCHANGED <<issued, owner, cmd, phase, result>>
  BY ReceiveHits
<1> USE DEF XInv, TypeOK, Calls, Active, Nobody
<1>3. \A j \in Calls : j # i => future'[j] = future[j]
  BY <1>2
<1>4. future'[i] = i
  BY <1>2
<1>5. \A j \in Calls : phase[j] \in Active /\ j # i => pending'[cmd[j]] = pending[cmd[j]]
  BY <1>1, <1>2
<1> QED BY <1>2, <1>3, <1>4, <1>5 DEF Uncontended

LEMMA ReturnExact ==
  ASSUME Exclusive, XInv, NEW i \in Calls, ReturnAnswer(i)
  PROVE  /\ Uncontended'
         /\ phase[i] = "waiting" /\ future[i] = i
  BY DEF ReturnAnswer, XInv, TypeOK, Uncontended, Calls, Active, Nobody

LEMMA NextExclusive == ASSUME Exclusive, XInv, [Next]_vars PROVE XInv'
<1>1. TypeOK' /\ Blank'
  BY NextType DEF XInv
<1>2. OneEach'
  BY NextOneEach DEF XInv
<1>3. CASE UNCHANGED vars
  BY <1>1, <1>2, <1>3 DEF XInv, Uncontended, vars
<1>4. CASE Next
  BY <1>1, <1>2, <1>3, <1>4, ExclusiveSteps, BeginExact, TransmitExact,
     ReceiveExact, ReturnExact
  DEF XInv
<1> QED BY <1>3, <1>4

(* A step that moves one call moves the mapped state so.                   *)
LEMMA MovesOne ==
  ASSUME NEW i \in Calls, \A j \in Calls \ {i} : StatusOf(j)' = StatusOf(j)
  PROVE  CallStatus' = [CallStatus EXCEPT ![i] = StatusOf(i)']
  BY DEF CallStatus, Calls

LEMMA BeginRefines ==
  ASSUME XInv, XInv', NEW c \in Callers, NEW k \in Cmds, Begin(c, k)
  PROVE  issued + 1 \in Calls /\ Exact!Open(issued + 1)
<1> USE DEF Calls, Nobody, Active
<1>1. issued + 1 \in Calls
  BY DEF Begin, XInv, TypeOK
<1>2. /\ phase' = [phase EXCEPT ![issued + 1] = "sending"]
      /\ future' = future /\ result' = result
  BY DEF Begin
<1>3. phase[issued + 1] = "unused" /\ future[issued + 1] = Nobody
  BY <1>1 DEF XInv, TypeOK, Blank
<1>4. StatusOf(issued + 1) = "unused"
  BY <1>3 DEF StatusOf
<1>5. ASSUME NEW n \in Calls, n = issued + 1 PROVE StatusOf(n)' = "open"
  BY <1>2, <1>3, <1>5 DEF StatusOf, XInv, TypeOK
<1>6. \A j \in Calls \ {issued + 1} : StatusOf(j)' = StatusOf(j)
  BY <1>2 DEF StatusOf, XInv, TypeOK
<1>7. \A j \in Calls : j < issued + 1 => StatusOf(j) # "unused"
  BY DEF StatusOf, XInv, TypeOK
<1>8. CallStatus' = [CallStatus EXCEPT ![issued + 1] = "open"]
  <2>1. PICK n \in Calls : n = issued + 1
    BY <1>1
  <2>2. CallStatus' = [CallStatus EXCEPT ![n] = StatusOf(n)']
    BY <1>6, <2>1, MovesOne
  <2> QED BY <1>5, <2>1, <2>2
<1>9. \A j \in Exact!Calls : j < issued + 1 => CallStatus[j] # "unused"
  BY <1>7 DEF Exact!Calls, CallStatus
<1>10. CallStatus[issued + 1] = "unused"
  BY <1>1, <1>4 DEF CallStatus
<1> QED
  BY <1>1, <1>8, <1>9, <1>10 DEF Exact!Open, Exact!Move

LEMMA TransmitRefines ==
  ASSUME XInv, NEW i \in Calls, Transmit(i)
  PROVE  UNCHANGED CallStatus
<1>1. \A j \in Calls : StatusOf(j)' = StatusOf(j)
  BY DEF Transmit, HoldsLock, XInv, TypeOK, StatusOf, Active
<1> QED BY <1>1 DEF CallStatus

LEMMA ReceiveRefines ==
  ASSUME Exclusive, XInv, NEW i \in Calls, Receive(i)
  PROVE  Exact!Answer(i)
<1>1. /\ phase[i] = "waiting" /\ future[i] = Nobody
      /\ future' = [future EXCEPT ![i] = i]
      /\ phase' = phase /\ result' = result
  BY ReceiveHits
<1> USE DEF XInv, TypeOK, Active
<1>2. StatusOf(i) = "open"
  BY <1>1 DEF StatusOf
<1>3. StatusOf(i)' = "answered"
  BY <1>1 DEF StatusOf, Calls, Nobody
<1>4. \A j \in Calls \ {i} : StatusOf(j)' = StatusOf(j)
  BY <1>1 DEF StatusOf
<1> QED
  BY <1>2, <1>3, <1>4, MovesOne DEF Exact!Answer, Exact!Move, CallStatus

LEMMA ReturnRefines ==
  ASSUME Exclusive, XInv, NEW i \in Calls, ReturnAnswer(i)
  PROVE  Exact!Return(i)
<1> USE DEF XInv, TypeOK, Active
<1>1. /\ phase[i] = "waiting" /\ future[i] = i
      /\ phase' = [phase EXCEPT ![i] = "returned"]
      /\ result' = [result EXCEPT ![i] = i]
      /\ future' = future
  BY ReturnExact DEF ReturnAnswer
<1>2. StatusOf(i) = "answered"
  BY <1>1 DEF StatusOf, Calls, Nobody
<1>3. StatusOf(i)' = "returned"
  BY <1>1 DEF StatusOf
<1>4. \A j \in Calls \ {i} : StatusOf(j)' = StatusOf(j)
  BY <1>1 DEF StatusOf
<1> QED
  BY <1>2, <1>3, <1>4, MovesOne DEF Exact!Return, Exact!Move, CallStatus

LEMMA StepRefines ==
  ASSUME Exclusive, XInv, XInv', [Next]_vars
  PROVE  [Exact!Next]_(Exact!vars)
<1> USE DEF Exact!vars, Exact!Next, Exact!Calls, Calls
<1>1. CASE UNCHANGED vars
  BY <1>1 DEF vars, CallStatus, StatusOf
<1>2. CASE Next
  BY <1>1, <1>2, ExclusiveSteps, BeginRefines, TransmitRefines, ReceiveRefines,
     ReturnRefines
<1> QED BY <1>1, <1>2

(* With one caller per command, an answer in time and no aborted call, the *)
(* table implements exact calls, for any number of callers and calls.      *)
THEOREM ExclusiveIsExact ==
  Exclusive => (Spec => Exact!Init /\ [][Exact!Next]_(Exact!vars))
<1> SUFFICES ASSUME Exclusive PROVE Spec => Exact!Init /\ [][Exact!Next]_(Exact!vars)
  OBVIOUS
<1>1. ASSUME Init PROVE Exact!Init
  <2>1. \A i \in Calls : StatusOf(i) = "unused"
    BY <1>1 DEF Init, StatusOf
  <2> QED BY <2>1 DEF Exact!Init, Exact!Calls, CallStatus, Calls
<1>2. XInv /\ [Next]_vars => XInv'
  BY NextExclusive
<1>3. XInv /\ XInv' /\ [Next]_vars => [Exact!Next]_(Exact!vars)
  BY StepRefines
<1> QED BY InitExclusive, <1>1, <1>2, <1>3, PTL DEF Spec
=============================================================================
