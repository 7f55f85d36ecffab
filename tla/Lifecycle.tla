------------------------------ MODULE Lifecycle ------------------------------
(***************************************************************************)
(* The life of an MT5Client: __aenter__, the three tasks it starts (the    *)
(* receive loop, the heartbeat, the poll loop) and __aexit__, with a       *)
(* connection that can be lost at any time and a user task that can be     *)
(* cancelled at any await.  One client object may be entered again, after  *)
(* an exit or after an entry that failed; its tasks then read self.conn,   *)
(* which is the new connection, whatever entry started them.               *)
(*                                                                         *)
(* Whether the answers that a task waits for come is left open (the table  *)
(* of waiting calls is the subject of RequestTable): a wait ends by an     *)
(* answer that a receive loop reads, or by its timer.                      *)
(***************************************************************************)
EXTENDS Integers, FiniteSets

CONSTANTS MaxEntries,    \* bound: async with blocks of one client object
          MaxCancels     \* bound: cancellations of the user task

ASSUME LifecycleAssumption == MaxEntries \in Nat \ {0} /\ MaxCancels \in Nat

Entries == 1..MaxEntries

VARIABLES main,          \* where the user task is
          entry,         \* the entry it is in, or was in last
          linked,        \* self.conn: the entry that made it, 0 for None
          ws,            \* the socket of each entry's Connection
          cancelled,     \* the event _cancelled
          recv,          \* the receive loop of each entry
          reads,         \* the connection in whose recv it waits
          beat,          \* the heartbeat of each entry
          poll,          \* the poll loop of each entry
          reply,         \* the answer the user task waits for is there
          loaded,        \* what this entry has loaded
          hung,          \* a task has seized the event loop for good
          yields,        \* wait_for gives way before an exception (Python 3.11)
          cancels,       \* cancellations so far
          failed,        \* history: entries that raised
          exited,        \* history: entries that went through __aexit__
          broken,        \* history: entries whose close was cancelled
          rounds         \* history: callback rounds of each poll after its exit

vars == <<main, entry, linked, ws, cancelled, recv, reads, beat, poll, reply, loaded,
          hung, yields, cancels, failed, exited, broken, rounds>>

tasks == <<recv, reads, beat, poll>>
history == <<failed, exited, broken, rounds>>

Entering == {"connecting", "authorising", "logging_in", "asking_account", "asking_symbols"}
Exiting == {"stopping_beat", "stopping_recv", "closing"}
Asking == {"asking_account", "asking_symbols"}

Init ==
    /\ main = "out"
    /\ entry = 0
    /\ linked = 0
    /\ ws = [e \in Entries |-> "none"]
    /\ cancelled = FALSE
    /\ recv = [e \in Entries |-> "none"]
    /\ reads = [e \in Entries |-> 0]
    /\ beat = [e \in Entries |-> "none"]
    /\ poll = [e \in Entries |-> "none"]
    /\ reply = FALSE
    /\ loaded = {}
    /\ hung = FALSE
    /\ yields \in BOOLEAN
    /\ cancels = 0
    /\ failed = {}
    /\ exited = {}
    /\ broken = {}
    /\ rounds = [e \in Entries |-> 0]

Open(c) == c # 0 /\ ws[c] = "open"

-----------------------------------------------------------------------------
(* Entering.                                                               *)

(* What the two search services say of the server; the second one is asked *)
(* when the first does not list it or raises.                              *)
Replies == {"listed", "listed_without_address", "not_listed", "raises"}

Found(first, second) ==
    \/ first = "listed"
    \/ first \in {"not_listed", "raises"} /\ second = "listed"

Fail(e) == main' = "out" /\ failed' = failed \cup {e}

(* Mutant of Enter: goes on though no server was found.                    *)
EnterUnlisted ==
    /\ ~hung
    /\ main = "out"
    /\ entry < MaxEntries
    /\ entry' = entry + 1
    /\ loaded' = {}
    /\ \E first, second \in Replies :
          /\ main' = "connecting"
          /\ linked' = IF Found(first, second) THEN entry' ELSE linked
    /\ UNCHANGED <<ws, cancelled, tasks, reply, hung, yields, cancels, history>>

(* Mutant of Enter: the receive loop is started before the connection.     *)
EnterReceiving ==
    /\ ~hung
    /\ main = "out"
    /\ entry < MaxEntries
    /\ entry' = entry + 1
    /\ loaded' = {}
    /\ main' = "connecting" /\ linked' = entry'
    /\ recv' = [recv EXCEPT ![entry'] = "starting"]
    /\ UNCHANGED <<ws, cancelled, reads, beat, poll, reply, hung, yields, cancels, history>>

Enter ==
    /\ ~hung
    /\ main = "out"
    /\ entry < MaxEntries
    /\ entry' = entry + 1
    /\ loaded' = {}
    /\ \E first, second \in Replies :
          IF Found(first, second)
            THEN main' = "connecting" /\ linked' = entry' /\ UNCHANGED failed
            ELSE Fail(entry + 1) /\ UNCHANGED linked
    /\ UNCHANGED <<ws, cancelled, tasks, reply, hung, yields, cancels, exited, broken, rounds>>

Connect ==
    /\ ~hung
    /\ main = "connecting"
    /\ ws' = [ws EXCEPT ![linked] = "open"]
    /\ main' = "authorising"
    /\ UNCHANGED <<entry, linked, cancelled, tasks, reply, loaded, hung, yields, cancels, history>>

(* The answer to cmd 0 may still be read when the connection is lost.      *)
Authorise ==
    /\ ~hung
    /\ main = "authorising"
    /\ main' = "logging_in"
    /\ UNCHANGED <<entry, linked, ws, cancelled, tasks, reply, loaded, hung, yields, cancels, history>>

(* No server, no connection, a refusal, a timeout.                         *)
Refuse ==
    /\ ~hung
    /\ main \in {"connecting", "authorising", "logging_in"}
    /\ Fail(entry)
    /\ UNCHANGED <<entry, linked, ws, cancelled, tasks, reply, loaded, hung, yields, cancels,
                   exited, broken, rounds>>

(* A request of the entry goes out and is waited for, or the send raises.  *)
AskFor(what) ==
    IF Open(linked) THEN main' = what /\ reply' = FALSE /\ UNCHANGED failed
                    ELSE Fail(entry) /\ UNCHANGED reply

(* Mutant of Looped: the poll loop does not look at _cancelled.            *)
LoopedOn == "sleeping"

Looped == IF cancelled THEN "ended" ELSE "sleeping"

(* Any message of cmd 28 will do.  The three tasks are created and look at *)
(* _cancelled in the next turn, before the user task can; the receive loop *)
(* then reads self.conn, which a new entry may have replaced.  Then the    *)
(* account is asked for.                                                   *)
Login ==
    /\ ~hung
    /\ main = "logging_in"
    /\ recv' = [recv EXCEPT ![entry] = "starting"]
    /\ beat' = [beat EXCEPT ![entry] = IF cancelled THEN "ended" ELSE "running"]
    /\ poll' = [poll EXCEPT ![entry] = Looped]
    /\ AskFor("asking_account")
    /\ UNCHANGED <<entry, linked, ws, cancelled, reads, loaded, hung, yields, cancels,
                   exited, broken, rounds>>

(* Mutant of LoadAccount: waits without a timer.                           *)
LoadAccountAnswered ==
    /\ ~hung
    /\ main = "asking_account" /\ reply
    /\ loaded' = {"account"}
    /\ AskFor("asking_symbols")
    /\ UNCHANGED <<entry, linked, ws, cancelled, tasks, hung, yields, cancels,
                   exited, broken, rounds>>

(* The wait ends with the answer, or with None after 10 s.                 *)
LoadAccount ==
    /\ ~hung
    /\ main = "asking_account"
    /\ loaded' = IF reply THEN {"account"} ELSE {}
    /\ AskFor("asking_symbols")
    /\ UNCHANGED <<entry, linked, ws, cancelled, tasks, hung, yields, cancels,
                   exited, broken, rounds>>

LoadSymbols ==
    /\ ~hung
    /\ main = "asking_symbols"
    /\ loaded' = IF reply THEN loaded \cup {"symbols"} ELSE loaded
    /\ main' = "in"
    /\ UNCHANGED <<entry, linked, ws, cancelled, tasks, reply, hung, yields, cancels, history>>

-----------------------------------------------------------------------------
(* Exiting.                                                                *)

Stopping(s) == IF s \in {"none", "ended"} THEN s ELSE "stopping"

(* Mutant of StartExit: the event is not set, the cancellations must do.   *)
StartExitUnset ==
    /\ ~hung
    /\ main = "in"
    /\ beat' = [beat EXCEPT ![entry] = Stopping(@)]
    /\ main' = "stopping_beat"
    /\ UNCHANGED <<entry, linked, ws, cancelled, recv, reads, poll, reply, loaded, hung, yields,
                   cancels, history>>

(* The body ends, returns or raises.                                       *)
StartExit ==
    /\ ~hung
    /\ main = "in"
    /\ cancelled' = TRUE
    /\ beat' = [beat EXCEPT ![entry] = Stopping(@)]
    /\ main' = "stopping_beat"
    /\ UNCHANGED <<entry, linked, ws, recv, reads, poll, reply, loaded, hung, yields, cancels, history>>

(* Mutant of StopRecv: the receive loop is cancelled and not waited for.   *)
StopRecvUnwaited ==
    /\ ~hung
    /\ main = "stopping_beat" /\ beat[entry] = "ended"
    /\ recv' = [recv EXCEPT ![entry] = Stopping(@)]
    /\ main' = "closing"
    /\ UNCHANGED <<entry, linked, ws, cancelled, reads, beat, poll, reply, loaded, hung, yields,
                   cancels, history>>

StopRecv ==
    /\ ~hung
    /\ main = "stopping_beat" /\ beat[entry] = "ended"
    /\ recv' = [recv EXCEPT ![entry] = Stopping(@)]
    /\ main' = "stopping_recv"
    /\ UNCHANGED <<entry, linked, ws, cancelled, reads, beat, poll, reply, loaded, hung, yields,
                   cancels, history>>

StartClose ==
    /\ ~hung
    /\ main = "stopping_recv" /\ recv[entry] = "ended"
    /\ main' = "closing"
    /\ UNCHANGED <<entry, linked, ws, cancelled, tasks, reply, loaded, hung, yields, cancels, history>>

Close ==
    /\ ~hung
    /\ main = "closing"
    /\ ws' = [ws EXCEPT ![linked] = "none"]
    /\ main' = "out"
    /\ exited' = exited \cup {entry}
    /\ UNCHANGED <<entry, linked, cancelled, tasks, reply, loaded, hung, yields, cancels,
                   failed, broken, rounds>>

(* The user task is cancelled at an await: an entry raises, a close is     *)
(* left off; the waits for the two tasks swallow it.                       *)
Cancel ==
    /\ ~hung
    /\ cancels < MaxCancels
    /\ cancels' = cancels + 1
    /\ \/ main \in Entering /\ Fail(entry) /\ UNCHANGED <<exited, broken>>
       \/ /\ main = "closing" /\ main' = "out"
          /\ exited' = exited \cup {entry} /\ broken' = broken \cup {entry}
          /\ UNCHANGED failed
    /\ UNCHANGED <<entry, linked, ws, cancelled, tasks, reply, loaded, hung, yields, rounds>>

-----------------------------------------------------------------------------
(* The tasks.                                                              *)

(* The receive loop looks at _cancelled and reads self.conn.  It never     *)
(* gives way again when there is no socket, nor, from Python 3.12 on, when *)
(* the read raises at once: connection lost, or another task reads it.     *)
LoopRecv(e) ==
    IF cancelled
      THEN recv' = [recv EXCEPT ![e] = "ended"] /\ UNCHANGED <<reads, hung>>
      ELSE /\ recv' = [recv EXCEPT ![e] = "waiting"]
           /\ reads' = [reads EXCEPT ![e] = linked]
           /\ hung' = \/ ws[linked] = "none"
                      \/ ~yields /\ ws[linked] = "lost"
                      \/ ~yields /\ \E o \in Entries \ {e} : recv[o] = "waiting" /\ reads[o] = linked

(* Mutant of StartRecv: the loop reads before it looks at _cancelled.      *)
StartRecvReading(e) ==
    /\ ~hung
    /\ recv[e] = "starting"
    /\ recv' = [recv EXCEPT ![e] = "waiting"]
    /\ reads' = [reads EXCEPT ![e] = linked]
    /\ UNCHANGED <<main, entry, linked, ws, cancelled, beat, poll, reply, loaded, hung, yields, cancels, history>>

StartRecv(e) ==
    /\ ~hung
    /\ recv[e] = "starting"
    /\ LoopRecv(e)
    /\ UNCHANGED <<main, entry, linked, ws, cancelled, beat, poll, reply, loaded, yields, cancels, history>>

(* A message, that may be the answer the user task waits for.              *)
ReadOne(e) ==
    \/ UNCHANGED reply
    \/ main \in Asking /\ reads[e] = linked /\ reply' = TRUE

(* Mutant of Receive: any exception ends the loop.                         *)
ReceiveOrEnd(e) ==
    /\ ~hung
    /\ recv[e] = "waiting"
    /\ \/ ReadOne(e) /\ LoopRecv(e)
       \/ UNCHANGED <<reply, reads, hung>> /\ recv' = [recv EXCEPT ![e] = "ended"]
    /\ UNCHANGED <<main, entry, linked, ws, cancelled, beat, poll, loaded, yields, cancels, history>>

(* A message is read, or the read raises: 30 s without one, connection     *)
(* lost or closed, an error in a handler.                                  *)
Receive(e) ==
    /\ ~hung
    /\ recv[e] = "waiting"
    /\ ReadOne(e)
    /\ LoopRecv(e)
    /\ UNCHANGED <<main, entry, linked, ws, cancelled, beat, poll, loaded, yields, cancels, history>>

(* The cancellation reaches the loop.                                      *)
EndRecv(e) ==
    /\ ~hung
    /\ recv[e] = "stopping"
    /\ recv' = [recv EXCEPT ![e] = "ended"]
    /\ UNCHANGED <<main, entry, linked, ws, cancelled, reads, beat, poll, reply, loaded, hung,
                   yields, cancels, history>>

(* Up to Python 3.11, wait_for drops a cancellation that comes in the same *)
(* turn as a message; the loop then finds _cancelled set.                  *)
MissCancel(e) ==
    /\ ~hung /\ yields
    /\ recv[e] = "stopping" /\ reads[e] # 0
    /\ ReadOne(e)
    /\ LoopRecv(e)
    /\ UNCHANGED <<main, entry, linked, ws, cancelled, beat, poll, loaded, yields, cancels, history>>

(* Cancelled, or _cancelled is set, or the send raises.                    *)
EndBeat(e) ==
    /\ ~hung
    /\ \/ beat[e] = "stopping"
       \/ beat[e] = "running" /\ (cancelled \/ ~Open(linked))
    /\ beat' = [beat EXCEPT ![e] = "ended"]
    /\ UNCHANGED <<main, entry, linked, ws, cancelled, recv, reads, poll, reply, loaded, hung,
                   yields, cancels, history>>

(* The poll loop sleeps, asks for the positions, calls back, asks for the  *)
(* account and calls back; each wait ends by the answer or by its timer,   *)
(* and a send that raises ends the round.                                  *)
PollStep(e) ==
    /\ ~hung
    /\ poll' = [poll EXCEPT ![e] =
                  CASE @ = "sleeping" -> IF Open(linked) THEN "positions" ELSE Looped
                    [] @ = "positions" -> IF Open(linked) THEN "account" ELSE Looped
                    [] @ = "account" -> Looped
                    [] OTHER -> @]
    /\ poll[e] \notin {"none", "ended"}
    /\ rounds' = IF e \in exited /\ poll[e] \in {"positions", "account"}
                   THEN [rounds EXCEPT ![e] = @ + 1] ELSE rounds
    /\ UNCHANGED <<main, entry, linked, ws, cancelled, recv, reads, beat, reply, loaded, hung,
                   yields, cancels, failed, exited, broken>>

LoseLink(c) ==
    /\ ws[c] = "open"
    /\ ws' = [ws EXCEPT ![c] = "lost"]
    /\ UNCHANGED <<main, entry, linked, cancelled, tasks, reply, loaded, hung, yields, cancels, history>>

MainSteps ==
    \/ Connect \/ Authorise \/ Refuse \/ Login \/ LoadAccount \/ LoadSymbols
    \/ StartExit \/ StopRecv \/ StartClose \/ Close

RecvSteps(e) == StartRecv(e) \/ Receive(e) \/ EndRecv(e) \/ MissCancel(e)

Next ==
    \/ Enter
    \/ MainSteps
    \/ Cancel
    \/ \E e \in Entries : RecvSteps(e) \/ EndBeat(e) \/ PollStep(e) \/ LoseLink(e)

Spec == Init /\ [][Next]_vars

(* The event loop runs what is ready, timers fire; whether and when the    *)
(* body ends is up to the user.                                            *)
Fairness ==
    /\ WF_vars(MainSteps /\ main # "in")
    /\ \A e \in Entries : WF_vars(RecvSteps(e)) /\ WF_vars(EndBeat(e)) /\ WF_vars(PollStep(e))

FairSpec == Spec /\ Fairness

-----------------------------------------------------------------------------

TypeOK ==
    /\ main \in {"out", "in"} \cup Entering \cup Exiting
    /\ entry \in 0..MaxEntries /\ linked \in 0..entry
    /\ main # "out" => linked = entry
    /\ ws \in [Entries -> {"none", "open", "lost"}]
    /\ cancelled \in BOOLEAN
    /\ recv \in [Entries -> {"none", "starting", "waiting", "stopping", "ended"}]
    /\ reads \in [Entries -> 0..MaxEntries]
    /\ beat \in [Entries -> {"none", "running", "stopping", "ended"}]
    /\ poll \in [Entries -> {"none", "sleeping", "positions", "account", "ended"}]
    /\ reply \in BOOLEAN
    /\ loaded \subseteq {"account", "symbols"}
    /\ hung \in BOOLEAN /\ yields \in BOOLEAN
    /\ cancels \in 0..MaxCancels
    /\ failed \subseteq 1..entry /\ exited \subseteq 1..entry /\ broken \subseteq exited
    /\ rounds \in [Entries -> Nat]

(* In the body of the first async with the client is attended: messages    *)
(* are read, whatever was read before and however the last read ended, and *)
(* the heartbeat goes on as long as the connection does.                   *)
Attended ==
    main = "in" /\ entry = 1 =>
        /\ recv[1] \in {"starting", "waiting"}
        /\ beat[1] = "running" \/ ws[1] = "lost"

(* __aexit__ leaves neither a receive loop nor a heartbeat behind, nor the *)
(* connection, unless it is cancelled in close.                            *)
ExitStops ==
    \A e \in exited :
        /\ recv[e] = "ended" /\ beat[e] = "ended"
        /\ ws[e] = "none" \/ e \in broken

(* The receive loop seizes the event loop only when the connection is lost *)
(* under Python 3.12, or after an entry that raised.                       *)
HungOnlyIf ==
    hung => failed # {} \/ (~yields /\ ws[linked] = "lost")

(* A client that was exited once never hears an answer again: a second     *)
(* async with starts with no account and no symbols of its own.            *)
ReentryDeaf == cancelled => ~(main \in Asking /\ reply) /\ (main = "in" => loaded = {})

(* After __aexit__ the poll loop calls back in one round at most: its next *)
(* request has no socket to go to.  It is two when close was left off, or  *)
(* when the object was entered again.                                      *)
LastRounds ==
    \A e \in exited : rounds[e] <= IF e \in broken \/ e < entry THEN 2 ELSE 1

(* An entry ends, in the body or with an exception, unless a receive loop  *)
(* left over from an entry that raised seizes the event loop.              *)
EntersOrFails == main \in Entering ~> main \in {"in", "out"} \/ hung

(* An exit always ends, though a cancellation can be dropped.              *)
ExitEnds == main \in Exiting ~> main = "out"

(* After an exit all tasks of the client end, the poll loop too, which     *)
(* nothing cancels.                                                        *)
TasksEnd ==
    cancelled ~> \A e \in Entries : {recv[e], beat[e], poll[e]} \subseteq {"none", "ended"}
=============================================================================
