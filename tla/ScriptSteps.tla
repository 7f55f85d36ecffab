---------------------------- MODULE ScriptSteps ----------------------------
(***************************************************************************)
(* The stand-alone scripts of the repository are sequential: each sends a  *)
(* request, reads the socket until the message it waits for comes, and     *)
(* drops every other message on the way.  This module is the vocabulary in *)
(* which their main() functions are written down: a script is a sequence   *)
(* of steps, and Session runs it.  What is left out is what does not touch *)
(* the socket: the fields of a payload, what is printed, and the sleeps,   *)
(* in which a script reads nothing.                                        *)
(*                                                                         *)
(* Commands have the numbers of the protocol: 0 and 28 log in, 3 account,  *)
(* 4 positions and orders, 5 deals, 7 subscribe (8 is a quote), 11 candles,*)
(* 12 trade (19 is a trade event), 17 symbol spec, 34 symbols.             *)
(***************************************************************************)
EXTENDS Naturals, Sequences

CONSTANT MaxRounds     \* bound: rounds of a loop over a list

ASSUME StepsAssumption == MaxRounds \in Nat \ {0}

(* A request is sent.                                                      *)
Ask(c) == <<[do |-> "ask", cmd |-> c]>>

(* One message is read, whatever it is; none in time raises TimeoutError.  *)
Hear == <<[do |-> "hear"]>>

(* Messages are read until one of command c comes, up to a deadline.       *)
Await(c) == <<[do |-> "await", cmd |-> c]>>

AnyCmd == 256          \* no command: a wait that any message ends

(* The same without a deadline: while True, a timeout of recv is ignored.  *)
AwaitEver(c) == <<[do |-> "ever", cmd |-> c]>>

(* Trade events are read up to a deadline until one has another retcode    *)
(* than 10002, the acknowledgement; at the deadline an acknowledgement     *)
(* that was read is returned when keep says so, and None otherwise.        *)
Deal(keep) == <<[do |-> "deal", cmd |-> 19, keep |-> keep]>>

(* Whatever comes within a time is read.                                   *)
Gather == <<[do |-> "gather"]>>

(* Without a message of command c: an exception, or the end of main.       *)
Need(c) == <<[do |-> "need", cmd |-> c]>>
Stop(c) == <<[do |-> "stop", cmd |-> c]>>

(* The body is skipped without (with) a message of command c.              *)
IfGot(c, body) == <<[do |-> "ifgot", cmd |-> c, skip |-> Len(body)]>> \o body
IfNot(c, body) == <<[do |-> "ifnot", cmd |-> c, skip |-> Len(body)]>> \o body

(* What the script finds in a body decides.                                *)
Maybe(body) == <<[do |-> "maybe", skip |-> Len(body)]>> \o body
MayStop == <<[do |-> "maystop"]>>

(* A loop over a list written in the script, and over one that was read;   *)
(* both are cut at MaxRounds.                                              *)
ForEach(body) ==
    [i \in 1 .. MaxRounds * Len(body) |-> body[((i - 1) % Len(body)) + 1]]

ForSome(body) == ForEach(Maybe(body))

Call(c) == Ask(c) \o Await(c)
CallEver(c) == Ask(c) \o AwaitEver(c)

(* Authentication with the fixed key, then login with the session's.       *)
Login == Ask(0) \o Hear \o Ask(28) \o Hear

(* A quote of the symbol, or None after some tries; formatting None raises.*)
Quote == Await(8) \o Need(8)
=============================================================================
