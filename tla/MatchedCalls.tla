---------------------------- MODULE MatchedCalls ----------------------------
(***************************************************************************)
(* What a caller of send_and_wait expects: each call is answered once,     *)
(* with the answer to its own request, and returns it.                     *)
(***************************************************************************)
EXTENDS Naturals

CONSTANT MaxCalls        \* bound: calls in a behaviour

VARIABLE status          \* how far each call has come

vars == <<status>>

Calls == 1..MaxCalls
Init == status = [i \in Calls |-> "unused"]

Move(i, from, to) == status[i] = from /\ status' = [status EXCEPT ![i] = to]

(* Calls begin in the order of their numbers.                              *)
Open(i) ==
    /\ \A j \in Calls : j < i => status[j] # "unused"
    /\ Move(i, "unused", "open")

Answer(i) == Move(i, "open", "answered")

Return(i) == Move(i, "answered", "returned")

Next == \E i \in Calls : Open(i) \/ Answer(i) \/ Return(i)

Spec == Init /\ [][Next]_vars
             /\ \A i \in Calls : WF_vars(Answer(i)) /\ WF_vars(Return(i))
=============================================================================
