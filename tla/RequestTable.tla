---------------------------- MODULE RequestTable ----------------------------
(***************************************************************************)
(* The request/answer layer of the client: MT5Client.send_and_wait, the    *)
(* table _pending it registers in, the send lock of Connection, and the    *)
(* branch of _recv_loop that resolves a registered future.                 *)
(*                                                                         *)
(* The table has one slot per command id.  A call overwrites the slot, the *)
(* receive loop empties it, and a call that timed out empties it whatever  *)
(* it holds.  Calls are numbered in the order they register; the number of *)
(* a call also names its request and the answer to it.                     *)
(*                                                                         *)
(* One step is the code a task runs between two awaits.  The server may    *)
(* answer in any order and may never answer: nothing in the client relies  *)
(* on more.                                                                *)
(***************************************************************************)
EXTENDS Integers

CONSTANTS Callers,      \* tasks that use the client: poll loop, user tasks
          Cmds,         \* command ids that send_and_wait is called with
          Uses,         \* the commands each caller issues
          Slow,         \* commands whose answer may come after the timeout
          Abortable,    \* callers whose send may fail or whose task is cancelled
          MaxCalls      \* bound: calls in a behaviour

ASSUME RequestAssumption ==
    /\ Uses \in [Callers -> SUBSET Cmds]
    /\ Slow \subseteq Cmds
    /\ Abortable \subseteq Callers
    /\ MaxCalls \in Nat
    /\ "none" \notin Callers \cup Cmds

Calls == 1..MaxCalls
Nobody == 0              \* an empty slot of the table, and the answer None
Cancelled == -1          \* a future that was cancelled

VARIABLES issued,        \* number of calls begun
          owner,         \* who made each call
          cmd,           \* the command of each call
          phase,         \* where each call is in send_and_wait
          future,        \* Nobody: unresolved; Cancelled; or the answer it holds
          pending,       \* _pending: the call registered for each command
          outstanding,   \* requests sent and not yet answered
          result         \* what each call returned: Nobody for None, or an answer

vars == <<issued, owner, cmd, phase, future, pending, outstanding, result>>

Phases == {"unused", "sending", "waiting", "expired", "returned", "aborted"}
Active == {"sending", "waiting", "expired"}

-----------------------------------------------------------------------------

Init ==
    /\ issued = 0
    /\ owner = [i \in Calls |-> "none"]
    /\ cmd = [i \in Calls |-> "none"]
    /\ phase = [i \in Calls |-> "unused"]
    /\ future = [i \in Calls |-> Nobody]
    /\ pending = [k \in Cmds |-> Nobody]
    /\ outstanding = {}
    /\ result = [i \in Calls |-> Nobody]

Busy(c) == \E i \in Calls : owner[i] = c /\ phase[i] \in Active

(* Mutant of Begin: the slot is taken with setdefault.                     *)
BeginIfFree(c, k) ==
    /\ issued < MaxCalls
    /\ k \in Uses[c]
    /\ ~Busy(c)
    /\ issued' = issued + 1
    /\ owner' = [owner EXCEPT ![issued + 1] = c]
    /\ cmd' = [cmd EXCEPT ![issued + 1] = k]
    /\ phase' = [phase EXCEPT ![issued + 1] = "sending"]
    /\ pending' = [pending EXCEPT ![k] = IF @ = Nobody THEN issued + 1 ELSE @]
    /\ UNCHANGED <<future, outstanding, result>>

(* A task enters send_and_wait: it takes the command's slot and queues on  *)
(* the send lock.                                                          *)
Begin(c, k) ==
    /\ issued < MaxCalls
    /\ k \in Uses[c]
    /\ ~Busy(c)
    /\ issued' = issued + 1
    /\ owner' = [owner EXCEPT ![issued + 1] = c]
    /\ cmd' = [cmd EXCEPT ![issued + 1] = k]
    /\ phase' = [phase EXCEPT ![issued + 1] = "sending"]
    /\ pending' = [pending EXCEPT ![k] = issued + 1]
    /\ UNCHANGED <<future, outstanding, result>>

(* The lock is an asyncio.Lock: waiters get it in the order they asked.    *)
HoldsLock(i) ==
    /\ phase[i] = "sending"
    /\ \A j \in Calls : phase[j] = "sending" => i <= j

Transmit(i) ==
    /\ HoldsLock(i)
    /\ phase' = [phase EXCEPT ![i] = "waiting"]
    /\ outstanding' = outstanding \cup {i}
    /\ UNCHANGED <<issued, owner, cmd, future, pending, result>>

(* The send raises, or the task is cancelled.  The exception leaves        *)
(* send_and_wait, and no handler takes the call out of the table; a        *)
(* cancelled wait_for has cancelled the future.                            *)
SendFails(i) ==
    /\ owner[i] \in Abortable
    /\ HoldsLock(i)
    /\ phase' = [phase EXCEPT ![i] = "aborted"]
    /\ UNCHANGED <<issued, owner, cmd, future, pending, outstanding, result>>

CancelFuture(i) ==
    future' = [future EXCEPT ![i] = IF @ = Nobody THEN Cancelled ELSE @]

CancelTask(i) ==
    /\ owner[i] \in Abortable
    /\ phase[i] \in Active
    /\ phase' = [phase EXCEPT ![i] = "aborted"]
    /\ IF phase[i] = "sending" THEN UNCHANGED future ELSE CancelFuture(i)
    /\ UNCHANGED <<issued, owner, cmd, pending, outstanding, result>>

(* Mutant of Receive: the slot is emptied, the future is not resolved.     *)
ReceiveUnresolved(r) ==
    /\ r \in outstanding
    /\ outstanding' = outstanding \ {r}
    /\ pending' = [pending EXCEPT ![cmd[r]] = Nobody]
    /\ UNCHANGED <<issued, owner, cmd, phase, future, result>>

(* Mutant of Receive: the answer goes to the last call, whatever it asked. *)
ReceiveForLast(r) ==
    /\ r \in outstanding
    /\ outstanding' = outstanding \ {r}
    /\ pending' = [pending EXCEPT ![cmd[r]] = Nobody]
    /\ future' = [future EXCEPT ![issued] = IF @ = Nobody THEN r ELSE @]
    /\ UNCHANGED <<issued, owner, cmd, phase, result>>

(* _recv_loop takes the answer to request r: whoever holds the slot gets   *)
(* it, unless that future is already done; with an empty slot the message  *)
(* falls through every branch.                                             *)
Receive(r) ==
    LET i == pending[cmd[r]]
    IN  /\ r \in outstanding
        /\ outstanding' = outstanding \ {r}
        /\ IF i = Nobody
             THEN UNCHANGED <<pending, future>>
             ELSE /\ pending' = [pending EXCEPT ![cmd[r]] = Nobody]
                  /\ future' = [future EXCEPT ![i] = IF @ = Nobody THEN r ELSE @]
        /\ UNCHANGED <<issued, owner, cmd, phase, result>>

ReceiveInTime(r) == Receive(r) /\ cmd[r] \notin Slow

(* Mutant of TimerFires: the timer looks for its call in the table.        *)
TimerFiresInTable(i) ==
    /\ phase[i] = "waiting"
    /\ pending[cmd[i]] = i
    /\ cmd[i] \in Slow \/ (i \notin outstanding /\ future[i] = Nobody)
    /\ phase' = [phase EXCEPT ![i] = "expired"]
    /\ CancelFuture(i)
    /\ UNCHANGED <<issued, owner, cmd, pending, outstanding, result>>

(* wait_for's timer: it cancels the future if that is not done.  For a     *)
(* command that is not Slow it fires only on a call whose answer has been  *)
(* given to somebody else or dropped.                                      *)
TimerFires(i) ==
    /\ phase[i] = "waiting"
    /\ cmd[i] \in Slow \/ (i \notin outstanding /\ future[i] = Nobody)
    /\ phase' = [phase EXCEPT ![i] = "expired"]
    /\ CancelFuture(i)
    /\ UNCHANGED <<issued, owner, cmd, pending, outstanding, result>>

(* Mutant of ReturnAnswer: a done future is taken to hold an answer.       *)
ReturnWhenDone(i) ==
    /\ phase[i] \in {"waiting", "expired"}
    /\ future[i] # Nobody
    /\ phase' = [phase EXCEPT ![i] = "returned"]
    /\ result' = [result EXCEPT ![i] = future[i]]
    /\ UNCHANGED <<issued, owner, cmd, future, pending, outstanding>>

(* The task resumes with the answer.  One whose timer fired after the      *)
(* future was resolved returns the answer on Python 3.11 and before.       *)
ReturnAnswer(i) ==
    /\ phase[i] \in {"waiting", "expired"}
    /\ future[i] \in Calls
    /\ phase' = [phase EXCEPT ![i] = "returned"]
    /\ result' = [result EXCEPT ![i] = future[i]]
    /\ UNCHANGED <<issued, owner, cmd, future, pending, outstanding>>

(* The task resumes with TimeoutError: it empties the command's slot,      *)
(* whoever is in it, and returns None.  On Python 3.12 and later that      *)
(* happens to a future resolved before the task ran, too.                  *)
ReturnNone(i) ==
    /\ phase[i] = "expired"
    /\ phase' = [phase EXCEPT ![i] = "returned"]
    /\ pending' = [pending EXCEPT ![cmd[i]] = Nobody]
    /\ UNCHANGED <<issued, owner, cmd, future, outstanding, result>>

(* Every call was made and has ended, and every answer was read.           *)
Finished ==
    /\ issued = MaxCalls
    /\ outstanding = {}
    /\ \A i \in Calls : phase[i] \notin Active
    /\ UNCHANGED vars

Next ==
    \/ \E c \in Callers, k \in Cmds : Begin(c, k)
    \/ \E i \in Calls : \/ Transmit(i)
                        \/ SendFails(i)
                        \/ CancelTask(i)
                        \/ Receive(i)
                        \/ TimerFires(i)
                        \/ ReturnAnswer(i)
                        \/ ReturnNone(i)
    \/ Finished

Spec == Init /\ [][Next]_vars

(* The event loop runs every ready task and timer, the connection takes    *)
(* what is sent, and a command that is not Slow is answered.               *)
Fairness ==
    \A i \in Calls : /\ WF_vars(Transmit(i))
                     /\ WF_vars(ReceiveInTime(i))
                     /\ WF_vars(TimerFires(i))
                     /\ WF_vars(ReturnAnswer(i) \/ ReturnNone(i))

FairSpec == Spec /\ Fairness

-----------------------------------------------------------------------------

TypeOK ==
    /\ issued \in 0..MaxCalls
    /\ owner \in [Calls -> Callers \cup {"none"}]
    /\ cmd \in [Calls -> Cmds \cup {"none"}]
    /\ phase \in [Calls -> Phases]
    /\ future \in [Calls -> Calls \cup {Nobody, Cancelled}]
    /\ pending \in [Cmds -> Calls \cup {Nobody}]
    /\ outstanding \subseteq Calls
    /\ result \in [Calls -> Calls \cup {Nobody}]
    /\ \A i \in Calls : phase[i] # "unused" <=> i <= issued
    /\ \A i \in Calls : i <= issued => owner[i] \in Callers /\ cmd[i] \in Cmds

(* The slot of a command holds the last call registered for it, or nobody: *)
(* a call that was replaced never gets its slot back, however the          *)
(* replacements time out (send_and_wait, _recv_loop).                      *)
SlotHoldsLatest ==
    \A k \in Cmds : pending[k] # Nobody =>
        /\ cmd[pending[k]] = k
        /\ \A j \in Calls : cmd[j] = k => j <= pending[k]

(* An answer handed to a call belongs to a request of the same command     *)
(* that was made no later: a call may get the answer to an older request,  *)
(* never one to a request made after it, whatever the server's order.      *)
AnswerNotNewer ==
    \A i \in Calls : future[i] \in Calls =>
        cmd[future[i]] = cmd[i] /\ future[i] <= i

(* A call that waits is cut off from the table only by a rival of the same *)
(* command: one that registered after it, or an older one whose timeout    *)
(* emptied the slot.                                                       *)
LostOnlyToRival ==
    \A i \in Calls :
        /\ phase[i] \in {"sending", "waiting"}
        /\ future[i] = Nobody
        /\ pending[cmd[i]] # i
        => \E j \in Calls \ {i} :
              /\ cmd[j] = cmd[i]
              /\ j > i \/ (phase[j] = "returned" /\ result[j] = Nobody)

(* Every call ends, if only by its timeout: also one whose slot was taken  *)
(* over or emptied by another call.                                        *)
EveryCallEnds ==
    \A i \in Calls : phase[i] \in Active ~> phase[i] \in {"returned", "aborted"}

(* What the README says of the receive loop, "matches pending requests":   *)
(* the answer a call returns is the answer to its own request.             *)
OwnAnswer == \A i \in Calls : result[i] # Nobody => result[i] = i

-----------------------------------------------------------------------------

(* Each command has one caller, the server answers in time and no call is  *)
(* aborted.                                                                *)
Exclusive ==
    /\ \A c, d \in Callers : c # d => Uses[c] \cap Uses[d] = {}
    /\ Slow = {}
    /\ Abortable = {}

(* How far a call has come, for a caller that wants its own answer.        *)
StatusOf(i) ==
    IF phase[i] = "unused" THEN "unused"
    ELSE IF phase[i] \in Active /\ future[i] = Nobody THEN "open"
    ELSE IF phase[i] \in Active /\ future[i] = i THEN "answered"
    ELSE IF phase[i] = "returned" /\ result[i] = i THEN "returned"
    ELSE "wrong"

CallStatus == [i \in Calls |-> StatusOf(i)]

Exact == INSTANCE MatchedCalls WITH status <- CallStatus

(* Where Exclusive holds, send_and_wait is an exact remote call: each call *)
(* is answered, with the answer to its own request, and returns it.        *)
ExactCalls == Exact!Spec
=============================================================================
