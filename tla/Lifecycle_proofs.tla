-------------------------- MODULE Lifecycle_proofs --------------------------
(***************************************************************************)
(* The invariants of Lifecycle hold for any number of entries and          *)
(* cancellations.                                                          *)
(***************************************************************************)
EXTENDS Lifecycle, TLAPS

Before == {"connecting", "authorising", "logging_in"}
Tasked == Asking \cup {"in"}

(* The types, in parts.                                                    *)
Counts == entry \in 0..MaxEntries /\ linked \in 0..entry /\ cancels \in 0..MaxCancels

Functional ==
    /\ ws \in [Entries -> {"none", "open", "lost"}]
    /\ recv \in [Entries -> {"none", "starting", "waiting", "stopping", "ended"}]
    /\ reads \in [Entries -> 0..MaxEntries]
    /\ beat \in [Entries -> {"none", "running", "stopping", "ended"}]
    /\ poll \in [Entries -> {"none", "sleeping", "positions", "account", "ended"}]
    /\ rounds \in [Entries -> Nat]

Flags ==
    /\ main \in {"out", "in"} \cup Entering \cup Exiting
    /\ cancelled \in BOOLEAN /\ reply \in BOOLEAN
    /\ hung \in BOOLEAN /\ yields \in BOOLEAN
    /\ loaded \subseteq {"account", "symbols"}

Past == failed \subseteq 1..entry /\ exited \subseteq 1..entry /\ broken \subseteq exited

(* Inside a block the client has the connection of that block, which has   *)
(* neither failed nor been exited.                                         *)
Within ==
    main # "out" =>
        /\ entry \in Entries /\ linked = entry
        /\ entry \notin failed /\ entry \notin exited

(* The entries to come have no tasks and no connection.                    *)
FreshTasks ==
    \A e \in Entries : entry < e =>
        recv[e] = "none" /\ beat[e] = "none" /\ poll[e] = "none" /\ ws[e] = "none"

(* An entry has no tasks before it has logged in.                          *)
FreshEntry ==
    /\ main \in Before => recv[entry] = "none" /\ beat[entry] = "none" /\ poll[entry] = "none"
    /\ main = "connecting" => ws[entry] = "none"

FreshReads == \A e \in Entries : reads[e] <= entry

(* Each entry that is over has failed or was exited.                       *)
OverOnce ==
    /\ \A e \in 1..entry : e \in failed \/ e \in exited \/ (e = entry /\ main # "out")
    /\ \A e \in failed : e \notin exited

(* The last exit leaves self.conn as it is.                                *)
LinkKept == entry \in exited => linked = entry

(* The first exit sets _cancelled for good.                                *)
Flagged ==
    /\ cancelled => exited # {} \/ main \in Exiting
    /\ exited # {} \/ main \in Exiting => cancelled

(* The tasks of the entry that is on.                                      *)
RecvOn == main \in Tasked => recv[entry] \in {"starting", "waiting"} \/ (recv[entry] = "ended" /\ cancelled)
BeatOn == main \in Tasked => beat[entry] = "running" \/ (beat[entry] = "ended" /\ (cancelled \/ ws[entry] # "open"))
LinkOn == main \in Tasked => ws[entry] # "none"

(* An exit stops them one after the other.                                 *)
StopsBeat ==
    /\ main \in Exiting => beat[entry] \in {"stopping", "ended"}
    /\ main \in {"stopping_recv", "closing"} => beat[entry] = "ended"
StopsRecv ==
    /\ main \in Exiting => recv[entry] # "none"
    /\ main = "stopping_recv" => recv[entry] \in {"stopping", "ended"}
    /\ main = "closing" => recv[entry] = "ended"

(* What is left of earlier entries reads earlier connections, once         *)
(* _cancelled is set.                                                      *)
DeafReads == cancelled /\ main \in Entering \cup {"in"} => \A e \in Entries : reads[e] # entry
DeafLoads == cancelled /\ main \in Entering \cup {"in"} => loaded = {} /\ (main \in Asking => ~reply)

(* A poll loop after its exit: how far it can still come.                  *)
RoundsLater == \A e \in Entries : e \notin exited => rounds[e] = 0
PollOn == main \in Tasked \cup Exiting => poll[entry] # "none"
PollLeft ==
    \A e \in exited :
        /\ poll[e] # "none"
        /\ poll[e] \in {"sleeping", "positions"} => rounds[e] = 0
        /\ poll[e] = "account" => rounds[e] <= IF e \in broken \/ e < entry THEN 1 ELSE 0

StoppedTasks == \A e \in exited : recv[e] = "ended" /\ beat[e] = "ended"
StoppedLink == \A e \in exited : ws[e] = "none" \/ e \in broken

(* The event loop hangs in the first entry on a lost connection, or after  *)
(* an entry that failed.                                                   *)
Hangs == hung => failed # {} \/ (linked \in Entries /\ ~yields /\ ws[linked] = "lost")

(* The inductive invariant.                                                *)
IInv ==
    /\ Counts /\ Functional /\ Flags /\ Past /\ Within /\ FreshTasks
    /\ FreshEntry /\ FreshReads /\ OverOnce /\ LinkKept /\ Flagged /\ RecvOn
    /\ BeatOn /\ LinkOn /\ StopsBeat /\ StopsRecv /\ DeafReads /\ DeafLoads
    /\ RoundsLater /\ PollOn /\ PollLeft /\ LastRounds /\ StoppedTasks
    /\ StoppedLink /\ Hangs

-----------------------------------------------------------------------------
(* The steps.                                                              *)

(* One turn of the receive loop, however it was reached.                   *)
Turn(e) ==
    /\ ~hung
    /\ recv[e] \in {"starting", "waiting"} \/ (recv[e] = "stopping" /\ reads[e] # 0)
    /\ recv' = [recv EXCEPT ![e] = IF cancelled THEN "ended" ELSE "waiting"]
    /\ \/ reads' = reads
       \/ ~cancelled /\ reads' = [reads EXCEPT ![e] = linked]
    /\ \/ reply' = reply
       \/ main \in Asking /\ recv[e] # "starting" /\ reads[e] = linked /\ reply' = TRUE
    /\ \/ hung' = hung
       \/ /\ ~cancelled
          /\ hung' = \/ ws[linked] = "none"
                     \/ ~yields /\ ws[linked] = "lost"
                     \/ ~yields /\ \E o \in Entries \ {e} : recv[o] = "waiting" /\ reads[o] = linked
    /\ UNCHANGED <<main, entry, linked, ws, cancelled, beat, poll, loaded, yields, cancels, history>>

LEMMA TurnEffect ==
  ASSUME NEW d \in Entries, StartRecv(d) \/ Receive(d) \/ MissCancel(d)
  PROVE  Turn(d)
<1>1. CASE StartRecv(d)
  BY <1>1 DEF StartRecv, LoopRecv, Turn
<1>2. CASE Receive(d)
  BY <1>2 DEF Receive, LoopRecv, ReadOne, Turn
<1>3. CASE MissCancel(d)
  BY <1>3 DEF MissCancel, LoopRecv, ReadOne, Turn
<1> QED BY <1>1, <1>2, <1>3

TaskStep(d) == Turn(d) \/ EndRecv(d) \/ EndBeat(d) \/ PollStep(d) \/ LoseLink(d)

LEMMA TaskFrame ==
  ASSUME NEW d \in Entries, TaskStep(d)
  PROVE  /\ main' = main /\ entry' = entry /\ linked' = linked
         /\ cancels' = cancels /\ failed' = failed /\ exited' = exited /\ broken' = broken
         /\ cancelled' <=> cancelled
<1>1. CASE Turn(d)
  BY <1>1 DEF Turn, history
<1>2. CASE EndRecv(d)
  BY <1>2 DEF EndRecv, history
<1>3. CASE EndBeat(d)
  BY <1>3 DEF EndBeat, history
<1>4. CASE PollStep(d)
  BY <1>4 DEF PollStep
<1>5. CASE LoseLink(d)
  BY <1>5 DEF LoseLink, history
<1> QED BY <1>1, <1>2, <1>3, <1>4, <1>5 DEF TaskStep

LEMMA StepCases ==
  ASSUME [Next]_vars
  PROVE  \/ Enter \/ Connect \/ Authorise \/ Refuse \/ Login \/ LoadAccount \/ LoadSymbols
         \/ StartExit \/ StopRecv \/ StartClose \/ Close \/ Cancel
         \/ \E d \in Entries : TaskStep(d)
         \/ UNCHANGED vars
BY TurnEffect DEF Next, MainSteps, RecvSteps, TaskStep

LEMMA AskEffect ==
  ASSUME NEW what, AskFor(what)
  PROVE  \/ main' = what /\ reply' = FALSE /\ failed' = failed
         \/ main' = "out" /\ reply' = reply /\ failed' = failed \cup {entry}
BY DEF AskFor, Fail

LEMMA LoginFlags ==
  ASSUME Flags, Login
  PROVE  Flags'
<1>1. \/ main' = "asking_account" /\ reply' = FALSE
      \/ main' = "out" /\ reply' = reply
  BY AskEffect DEF Login
<1>2. main' \in {"out", "in"} \cup Entering \cup Exiting
  BY <1>1 DEF Entering
<1>3. reply' \in BOOLEAN
  BY <1>1 DEF Flags
<1>4. /\ cancelled' \in BOOLEAN /\ hung' \in BOOLEAN /\ yields' \in BOOLEAN
      /\ loaded' \subseteq {"account", "symbols"}
  BY DEF Flags, Login
<1> QED BY <1>2, <1>3, <1>4 DEF Flags

LEMMA LoadFlags ==
  ASSUME Flags, LoadAccount
  PROVE  Flags'
<1>1. \/ main' = "asking_symbols" /\ reply' = FALSE
      \/ main' = "out" /\ reply' = reply
  BY AskEffect DEF LoadAccount
<1>2. main' \in {"out", "in"} \cup Entering \cup Exiting
  BY <1>1 DEF Entering
<1>3. reply' \in BOOLEAN
  BY <1>1 DEF Flags
<1>4. cancelled' \in BOOLEAN /\ hung' \in BOOLEAN /\ yields' \in BOOLEAN
  BY DEF Flags, LoadAccount
<1>5. loaded' \subseteq {"account", "symbols"}
  BY DEF LoadAccount
<1> QED BY <1>2, <1>3, <1>4, <1>5 DEF Flags

LEMMA TurnFlags ==
  ASSUME Flags, NEW d \in Entries, Turn(d)
  PROVE  Flags'
<1>1. main' = main /\ loaded' = loaded
  BY DEF Turn
<1>2. cancelled' \in BOOLEAN /\ yields' \in BOOLEAN
  BY DEF Turn, Flags
<1>3. hung' \in BOOLEAN
  BY DEF Turn, Flags
<1>4. reply' \in BOOLEAN
  BY DEF Turn, Flags
<1> QED BY <1>1, <1>2, <1>3, <1>4 DEF Flags

LEMMA EnterPast ==
  ASSUME Counts, Past, Enter
  PROVE  Past'
<1>1. /\ exited' = exited /\ broken' = broken /\ entry' = entry + 1
      /\ failed' = failed \/ failed' = failed \cup {entry + 1}
  BY DEF Enter, Fail
<1>2. 1..entry \subseteq 1..(entry + 1) /\ entry + 1 \in 1..(entry + 1)
  BY DEF Counts
<1> QED BY <1>1, <1>2 DEF Past

LEMMA LoginPast ==
  ASSUME Past, Within, Login
  PROVE  Past'
<1>1. entry \in 1..entry
  BY LifecycleAssumption DEF Login, Within, Entries, LifecycleAssumption
<1>2. exited' = exited /\ broken' = broken /\ entry' = entry
  BY DEF Login
<1>3. failed' = failed \/ failed' = failed \cup {entry}
  BY AskEffect DEF Login
<1> QED BY <1>1, <1>2, <1>3 DEF Past

LEMMA LoadPast ==
  ASSUME Past, Within, LoadAccount
  PROVE  Past'
<1>1. entry \in 1..entry
  BY LifecycleAssumption DEF LoadAccount, Within, Entries, LifecycleAssumption
<1>2. exited' = exited /\ broken' = broken /\ entry' = entry
  BY DEF LoadAccount
<1>3. failed' = failed \/ failed' = failed \cup {entry}
  BY AskEffect DEF LoadAccount
<1> QED BY <1>1, <1>2, <1>3 DEF Past

LEMMA CancelPast ==
  ASSUME Past, Within, Cancel
  PROVE  Past'
<1>1. /\ entry' = entry /\ entry \in 1..entry
      /\ \/ failed' = failed \cup {entry} /\ exited' = exited /\ broken' = broken
         \/ failed' = failed /\ exited' = exited \cup {entry} /\ broken' = broken \cup {entry}
  BY LifecycleAssumption
     DEF Cancel, Fail, Within, Entries, Entering, LifecycleAssumption
<1> QED BY <1>1 DEF Past

LEMMA EnterWithin ==
  ASSUME Counts, Past, Enter
  PROVE  Within'
<1>1. entry' = entry + 1 /\ entry' \in Entries /\ exited' = exited
  BY LifecycleAssumption DEF Enter, Entries, Counts, LifecycleAssumption
<1>2. main' = "out" \/ (linked' = entry + 1 /\ failed' = failed)
  BY DEF Enter, Fail
<1>3. entry + 1 \notin failed /\ entry + 1 \notin exited
  BY DEF Past, Counts
<1> QED BY <1>1, <1>2, <1>3 DEF Within

LEMMA EnterOver ==
  ASSUME Counts, Past, OverOnce, Enter
  PROVE  OverOnce'
<1>1. entry' = entry + 1 /\ exited' = exited /\ main = "out"
  BY DEF Enter
<1>2. \/ main' = "out" /\ failed' = failed \cup {entry + 1}
      \/ main' = "connecting" /\ failed' = failed
  BY DEF Enter, Fail
<1>3. entry + 1 \notin failed /\ entry + 1 \notin exited
  BY DEF Past, Counts
<1>4. \A e \in 1..(entry + 1) : e \in 1..entry \/ e = entry + 1
  BY DEF Counts
<1> QED BY <1>1, <1>2, <1>3, <1>4 DEF OverOnce

(* While an exit waits for the receive loop, _cancelled is set: a turn of  *)
(* the loop is its last.                                                   *)
LEMMA TurnStops ==
  ASSUME Functional, Within, Flagged, StopsRecv, NEW d \in Entries, Turn(d)
  PROVE  StopsRecv'
<1>1. main' = main /\ entry' = entry
  BY DEF Turn
<1>2. recv' = [recv EXCEPT ![d] = IF cancelled THEN "ended" ELSE "waiting"]
  BY DEF Turn
<1>3. main \in Exiting => cancelled /\ entry \in Entries
  BY DEF Flagged, Within, Exiting
<1>4. recv'[d] \in {"ended", "waiting"} /\ (cancelled => recv'[d] = "ended")
  BY <1>2 DEF Functional
<1>5. \A e \in Entries \ {d} : recv'[e] = recv[e]
  BY <1>2 DEF Functional
<1> QED BY <1>1, <1>3, <1>4, <1>5 DEF StopsRecv, Exiting

LEMMA EnterRounds ==
  ASSUME Counts, Functional, Past, LastRounds, Enter
  PROVE  LastRounds'
<1>1. exited' = exited /\ broken' = broken /\ rounds' = rounds /\ entry' = entry + 1
  BY DEF Enter
<1>2. \A e \in exited : e \in Entries /\ e < entry + 1
  BY LifecycleAssumption DEF Past, Counts, Entries, LifecycleAssumption
<1>3. \A e \in exited : rounds[e] <= 2
  BY <1>2 DEF LastRounds, Functional
<1> QED BY <1>1, <1>2, <1>3 DEF LastRounds

(* A close that is left off: the tasks have ended, the rounds begin.       *)
LEMMA CancelExits ==
  ASSUME Within, StopsRecv, StopsBeat, RoundsLater, PollOn, PollLeft, LastRounds,
         StoppedTasks, Cancel
  PROVE  PollLeft' /\ LastRounds' /\ StoppedTasks'
<1>1. entry' = entry /\ poll' = poll /\ recv' = recv /\ beat' = beat /\ rounds' = rounds
  BY DEF Cancel, tasks
<1>2. CASE exited' = exited /\ broken' = broken
  BY <1>1, <1>2 DEF LastRounds, PollLeft, StoppedTasks
<1>3. CASE exited' = exited \cup {entry} /\ broken' = broken \cup {entry} /\ main = "closing"
  <2>1. entry \in Entries /\ rounds[entry] = 0 /\ poll[entry] # "none"
    BY <1>3 DEF RoundsLater, Within, PollOn, Exiting
  <2>2. recv[entry] = "ended" /\ beat[entry] = "ended"
    BY <1>3 DEF StopsRecv, StopsBeat, Exiting
  <2> QED BY <1>1, <1>3, <2>1, <2>2 DEF LastRounds, PollLeft, StoppedTasks
<1> QED BY <1>2, <1>3 DEF Cancel

(* After its exit a poll loop gets from one request to the next only with  *)
(* a socket, which it has when close was left off, or from a later entry;  *)
(* and it does not begin again.                                            *)
LEMMA PollRounds ==
  ASSUME Counts, Functional, Past, Flagged, LinkKept, StoppedLink, PollLeft, LastRounds,
         NEW d \in Entries, PollStep(d)
  PROVE  PollLeft' /\ LastRounds'
<1>1. entry' = entry /\ exited' = exited /\ broken' = broken
  BY DEF PollStep
<1>2. /\ \A e \in Entries \ {d} : poll'[e] = poll[e] /\ rounds'[e] = rounds[e]
      /\ rounds'[d] = IF d \in exited /\ poll[d] \in {"positions", "account"}
                        THEN rounds[d] + 1 ELSE rounds[d]
  BY DEF PollStep, Functional
<1>3. poll[d] \in {"sleeping", "positions", "account"}
  BY DEF PollStep, Functional
<1>4. /\ poll[d] = "sleeping" => poll'[d] \in {"positions", Looped}
      /\ poll[d] = "positions" => poll'[d] = IF Open(linked) THEN "account" ELSE Looped
      /\ poll[d] = "account" => poll'[d] = Looped
  BY <1>3 DEF PollStep, Functional
<1>5. exited \subseteq Entries /\ rounds \in [Entries -> Nat] /\ \A e \in exited : e <= entry
  BY LifecycleAssumption DEF Past, Counts, Entries, LifecycleAssumption, Functional
<1>6. ASSUME NEW e \in exited, e # d
      PROVE  /\ poll'[e] # "none"
             /\ poll'[e] \in {"sleeping", "positions"} => rounds'[e] = 0
             /\ poll'[e] = "account" => rounds'[e] <= IF e \in broken \/ e < entry THEN 1 ELSE 0
             /\ rounds'[e] <= IF e \in broken \/ e < entry THEN 2 ELSE 1
  BY <1>2, <1>5, <1>6 DEF PollLeft, LastRounds
<1>7. ASSUME d \in exited
      PROVE  /\ poll'[d] # "none"
             /\ poll'[d] \in {"sleeping", "positions"} => rounds'[d] = 0
             /\ poll'[d] = "account" => rounds'[d] <= IF d \in broken \/ d < entry THEN 1 ELSE 0
             /\ rounds'[d] <= IF d \in broken \/ d < entry THEN 2 ELSE 1
  <2>1. Looped = "ended"
    BY <1>7 DEF Looped, Flagged
  <2>2. CASE poll[d] = "sleeping"
    BY <2>1, <2>2, <1>2, <1>4, <1>7 DEF PollLeft
  <2>3. CASE poll[d] = "positions"
    <3>1. rounds'[d] = 1
      BY <2>3, <1>2, <1>7, <1>5 DEF PollLeft
    <3>2. Open(linked) => d \in broken \/ d < entry
      BY <1>7, <1>5 DEF Open, LinkKept, StoppedLink, Entries, Counts
    <3> QED BY <2>1, <2>3, <3>1, <3>2, <1>4
  <2>4. CASE poll[d] = "account"
    BY <2>1, <2>4, <1>2, <1>4, <1>5, <1>7 DEF PollLeft
  <2> QED BY <1>3, <2>2, <2>3, <2>4
<1> QED BY <1>1, <1>6, <1>7 DEF PollLeft, LastRounds

(* In the first entry, while none has failed and _cancelled is not set,    *)
(* the loop is the only one and has a connection.                          *)
LEMMA TurnHangs ==
  ASSUME Counts, Flags, Within, FreshTasks, FreshEntry, OverOnce, Flagged, LinkOn, Hangs,
         NEW d \in Entries, Turn(d)
  PROVE  Hangs'
<1>1. linked' = linked /\ ws' = ws /\ yields' = yields /\ failed' = failed
  BY DEF Turn, history
<1>2. CASE hung' = hung
  BY <1>1, <1>2 DEF Hangs
<1>3. CASE /\ ~cancelled /\ failed = {}
           /\ hung' = \/ ws[linked] = "none"
                      \/ ~yields /\ ws[linked] = "lost"
                      \/ ~yields /\ \E o \in Entries \ {d} : recv[o] = "waiting" /\ reads[o] = linked
  <2>1. \A e \in 1..entry : e = entry /\ main # "out"
    BY <1>3 DEF OverOnce, Flagged
  <2>2. \A o \in Entries : recv[o] # "none" => o \in 1..entry
    BY LifecycleAssumption DEF FreshTasks, Entries, Counts, LifecycleAssumption
  <2>3. d = entry /\ main # "out"
    BY <2>1, <2>2 DEF Turn
  <2>4. \A o \in Entries \ {d} : recv[o] = "none"
    BY <2>1, <2>2, <2>3
  <2>5. main \in Tasked
    BY <1>3, <2>3
       DEF Turn, FreshEntry, Flagged, Flags, Entering, Exiting, Asking, Before, Tasked
  <2>6. linked = entry /\ linked \in Entries /\ ws[linked] # "none"
    BY <2>3, <2>5 DEF Within, LinkOn
  <2> QED BY <1>1, <1>3, <2>4, <2>6 DEF Hangs
<1>4. CASE failed # {}
  BY <1>1, <1>4 DEF Hangs
<1> QED BY <1>2, <1>3, <1>4 DEF Turn

LEMMA TurnFunctional ==
  ASSUME Counts, Functional, NEW d \in Entries, Turn(d)
  PROVE  Functional'
<1>1. ws' = ws /\ beat' = beat /\ poll' = poll /\ rounds' = rounds
  BY DEF Turn, history
<1>2. recv' \in [Entries -> {"none", "starting", "waiting", "stopping", "ended"}]
  BY DEF Turn, Functional
<1>3. linked \in 0..MaxEntries
  BY LifecycleAssumption DEF Counts, LifecycleAssumption
<1>4. reads' \in [Entries -> 0..MaxEntries]
  BY <1>3 DEF Turn, Functional
<1> QED BY <1>1, <1>2, <1>4 DEF Functional

LEMMA TurnReads ==
  ASSUME Counts, Functional, FreshReads, NEW d \in Entries, Turn(d)
  PROVE  FreshReads'
<1>1. entry' = entry /\ linked <= entry
  BY DEF Turn, Counts
<1>2. \A e \in Entries : reads'[e] \in {reads[e], linked}
  BY DEF Turn, Functional
<1> QED BY <1>1, <1>2 DEF FreshReads

LEMMA EnterPolls ==
  ASSUME Counts, Functional, Past, PollLeft, Enter
  PROVE  PollLeft'
<1>1. /\ exited' = exited /\ broken' = broken /\ rounds' = rounds /\ poll' = poll
      /\ entry' = entry + 1
  BY DEF Enter, tasks
<1>2. \A e \in exited : e \in Entries /\ e < entry + 1
  BY LifecycleAssumption DEF Past, Counts, Entries, LifecycleAssumption
<1>3. \A e \in exited : poll[e] = "account" => rounds[e] <= 1
  BY <1>2 DEF PollLeft, Functional
<1> QED BY <1>1, <1>2, <1>3 DEF PollLeft

-----------------------------------------------------------------------------
(* Each part of the invariant is kept.                                     *)

LEMMA CountsStep ==
  ASSUME Counts, [Next]_vars
  PROVE  Counts'
<1>1. CASE Enter \/ Connect \/ Authorise \/ Refuse \/ Login \/ LoadAccount \/
            LoadSymbols \/ StartExit \/ StopRecv \/ StartClose \/ Close \/
            Cancel
  BY <1>1, LifecycleAssumption DEF Enter, Found, Fail, Connect, Authorise,
          Refuse, Login, AskFor, Open, Looped, LoadAccount, LoadSymbols,
          StartExit, Stopping, StopRecv, StartClose, Close, Cancel, tasks,
          history, Entering, Exiting, Asking, Counts, LifecycleAssumption
<1>2. ASSUME NEW d \in Entries, TaskStep(d) PROVE Counts'
  BY <1>2, TaskFrame DEF Entering, Exiting, Counts
<1>3. CASE UNCHANGED vars
  BY <1>3 DEF vars, tasks, history, Counts
<1> QED BY <1>1, <1>2, <1>3, StepCases DEF TaskStep

LEMMA FunctionalStep ==
  ASSUME Functional, Within, Counts, [Next]_vars
  PROVE  Functional'
<1>1. CASE Connect
  BY <1>1 DEF Connect, tasks, history, Functional, Within
<1>2. CASE Login
  BY <1>2 DEF Login, AskFor, Fail, Open, Looped, tasks, history, Functional,
          Within
<1>3. CASE StartExit
  BY <1>3 DEF StartExit, Stopping, tasks, history, Functional, Within
<1>4. CASE StopRecv
  BY <1>4 DEF StopRecv, Stopping, tasks, history, Functional, Within
<1>5. CASE Close
  BY <1>5 DEF Close, tasks, history, Functional, Within
<1>6. ASSUME NEW d \in Entries, Turn(d) PROVE Functional'
  BY <1>6, TurnFunctional
<1>7. ASSUME NEW d \in Entries, EndRecv(d) PROVE Functional'
  BY <1>7 DEF EndRecv, tasks, history, Functional
<1>8. ASSUME NEW d \in Entries, EndBeat(d) PROVE Functional'
  BY <1>8 DEF EndBeat, Open, tasks, history, Functional
<1>9. ASSUME NEW d \in Entries, PollStep(d) PROVE Functional'
  BY <1>9 DEF PollStep, Looped, Open, tasks, history, Functional
<1>10. ASSUME NEW d \in Entries, LoseLink(d) PROVE Functional'
  BY <1>10 DEF LoseLink, tasks, history, Functional
<1>11. CASE Enter \/ Authorise \/ Refuse \/ LoadAccount \/ LoadSymbols \/
            StartClose \/ Cancel
  BY <1>11 DEF Enter, Found, Fail, Authorise, Refuse, LoadAccount, AskFor, Open,
          LoadSymbols, StartClose, Cancel, tasks, history, Entering, Exiting,
          Asking, Functional
<1>12. CASE UNCHANGED vars
  BY <1>12 DEF vars, tasks, history, Functional
<1> QED BY <1>1, <1>2, <1>3, <1>4, <1>5, <1>6, <1>7, <1>8, <1>9, <1>10, <1>11,
        <1>12, StepCases DEF TaskStep

LEMMA FlagsStep ==
  ASSUME Flags, [Next]_vars
  PROVE  Flags'
<1>1. CASE Login
  BY <1>1, LoginFlags
<1>2. CASE LoadAccount
  BY <1>2, LoadFlags
<1>3. ASSUME NEW d \in Entries, Turn(d) PROVE Flags'
  BY <1>3, TurnFlags
<1>4. ASSUME NEW d \in Entries, EndRecv(d) PROVE Flags'
  BY <1>4 DEF EndRecv, tasks, history, Entering, Exiting, Flags
<1>5. ASSUME NEW d \in Entries, EndBeat(d) PROVE Flags'
  BY <1>5 DEF EndBeat, Open, tasks, history, Entering, Exiting, Flags
<1>6. ASSUME NEW d \in Entries, PollStep(d) PROVE Flags'
  BY <1>6 DEF PollStep, Looped, Open, tasks, history, Entering, Exiting, Flags
<1>7. ASSUME NEW d \in Entries, LoseLink(d) PROVE Flags'
  BY <1>7 DEF LoseLink, tasks, history, Entering, Exiting, Flags
<1>8. CASE Enter \/ Connect \/ Authorise \/ Refuse \/ LoadSymbols \/ StartExit
            \/ StopRecv \/ StartClose \/ Close \/ Cancel
  BY <1>8 DEF Enter, Found, Fail, Connect, Authorise, Refuse, LoadSymbols,
          StartExit, Stopping, StopRecv, StartClose, Close, Cancel, tasks,
          history, Entering, Exiting, Asking, Flags
<1>9. CASE UNCHANGED vars
  BY <1>9 DEF vars, tasks, history, Entering, Exiting, Flags
<1> QED BY <1>1, <1>2, <1>3, <1>4, <1>5, <1>6, <1>7, <1>8, <1>9, StepCases DEF
        TaskStep

LEMMA PastStep ==
  ASSUME Past, Counts, Functional, Within, [Next]_vars
  PROVE  Past'
<1>1. CASE Enter
  BY <1>1, EnterPast
<1>2. CASE Refuse
  BY <1>2, LifecycleAssumption DEF Refuse, Fail, tasks, history, Past,
          Functional, Within, Counts, Entries, LifecycleAssumption
<1>3. CASE Login
  BY <1>3, LoginPast
<1>4. CASE LoadAccount
  BY <1>4, LoadPast
<1>5. CASE Close
  BY <1>5, LifecycleAssumption DEF Close, tasks, history, Past, Functional,
          Within, Counts, Entries, LifecycleAssumption
<1>6. CASE Cancel
  BY <1>6, CancelPast
<1>7. CASE Connect \/ Authorise \/ LoadSymbols \/ StartExit \/ StopRecv \/
            StartClose
  BY <1>7 DEF Connect, Authorise, LoadSymbols, StartExit, Stopping, StopRecv,
          StartClose, tasks, history, Past
<1>8. ASSUME NEW d \in Entries, TaskStep(d) PROVE Past'
  BY <1>8, TaskFrame DEF Past
<1>9. CASE UNCHANGED vars
  BY <1>9 DEF vars, tasks, history, Past
<1> QED BY <1>1, <1>2, <1>3, <1>4, <1>5, <1>6, <1>7, <1>8, <1>9, StepCases DEF
        TaskStep

LEMMA WithinStep ==
  ASSUME Within, Counts, Past, [Next]_vars
  PROVE  Within'
<1>1. CASE Enter
  BY <1>1, EnterWithin
<1>2. CASE Connect \/ Authorise \/ Refuse \/ Login \/ LoadAccount \/ LoadSymbols
            \/ StartExit \/ StopRecv \/ StartClose \/ Close \/ Cancel
  BY <1>2 DEF Connect, Authorise, Refuse, Fail, Login, AskFor, Open, Looped,
          LoadAccount, LoadSymbols, StartExit, Stopping, StopRecv, StartClose,
          Close, Cancel, tasks, history, Entering, Exiting, Asking, Within
<1>3. ASSUME NEW d \in Entries, TaskStep(d) PROVE Within'
  BY <1>3, TaskFrame DEF Within
<1>4. CASE UNCHANGED vars
  BY <1>4 DEF vars, tasks, history, Within
<1> QED BY <1>1, <1>2, <1>3, <1>4, StepCases DEF TaskStep

LEMMA FreshTasksStep ==
  ASSUME FreshTasks, Functional, Within, Counts, [Next]_vars
  PROVE  FreshTasks'
<1>1. CASE Enter
  BY <1>1, LifecycleAssumption DEF Enter, Found, Fail, tasks, history,
          FreshTasks, Functional, Within, Counts, Entries, LifecycleAssumption
<1>2. CASE Connect
  BY <1>2, LifecycleAssumption DEF Connect, tasks, history, FreshTasks,
          Functional, Within, Counts, Entries, LifecycleAssumption
<1>3. CASE Authorise
  BY <1>3 DEF Authorise, tasks, history, FreshTasks
<1>4. CASE Refuse
  BY <1>4 DEF Refuse, Fail, tasks, history, FreshTasks
<1>5. CASE Login
  BY <1>5, LifecycleAssumption DEF Login, AskFor, Fail, Open, Looped, tasks,
          history, FreshTasks, Functional, Within, Counts, Entries,
          LifecycleAssumption
<1>6. CASE LoadAccount
  BY <1>6 DEF LoadAccount, AskFor, Fail, Open, tasks, history, FreshTasks
<1>7. CASE LoadSymbols
  BY <1>7 DEF LoadSymbols, tasks, history, FreshTasks
<1>8. CASE StartExit
  BY <1>8 DEF StartExit, Stopping, tasks, history, FreshTasks
<1>9. CASE StopRecv
  BY <1>9 DEF StopRecv, Stopping, tasks, history, FreshTasks
<1>10. CASE StartClose
  BY <1>10 DEF StartClose, tasks, history, FreshTasks
<1>11. CASE Close
  BY <1>11 DEF Close, tasks, history, FreshTasks
<1>12. CASE Cancel
  BY <1>12 DEF Cancel, Fail, tasks, history, Entering, Exiting, Asking,
          FreshTasks
<1>13. ASSUME NEW d \in Entries, Turn(d) PROVE FreshTasks'
  BY <1>13 DEF Turn, tasks, history, Entering, Exiting, Asking, FreshTasks
<1>14. ASSUME NEW d \in Entries, EndRecv(d) PROVE FreshTasks'
  BY <1>14 DEF EndRecv, tasks, history, FreshTasks
<1>15. ASSUME NEW d \in Entries, EndBeat(d) PROVE FreshTasks'
  BY <1>15 DEF EndBeat, Open, tasks, history, FreshTasks
<1>16. ASSUME NEW d \in Entries, PollStep(d) PROVE FreshTasks'
  BY <1>16 DEF PollStep, Looped, Open, tasks, history, FreshTasks
<1>17. ASSUME NEW d \in Entries, LoseLink(d) PROVE FreshTasks'
  BY <1>17 DEF LoseLink, tasks, history, FreshTasks
<1>18. CASE UNCHANGED vars
  BY <1>18 DEF vars, tasks, history, FreshTasks
<1> QED BY <1>1, <1>2, <1>3, <1>4, <1>5, <1>6, <1>7, <1>8, <1>9, <1>10, <1>11,
        <1>12, <1>13, <1>14, <1>15, <1>16, <1>17, <1>18, StepCases DEF TaskStep

LEMMA FreshEntryStep ==
  ASSUME FreshEntry, Functional, Within, Counts, FreshTasks, [Next]_vars
  PROVE  FreshEntry'
<1>1. CASE Enter
  BY <1>1, LifecycleAssumption DEF Enter, Found, Fail, tasks, history, Before,
          FreshEntry, Functional, Within, Counts, Entries, FreshTasks,
          LifecycleAssumption
<1>2. ASSUME NEW d \in Entries, Turn(d) PROVE FreshEntry'
  BY <1>2 DEF Turn, tasks, history, Entering, Exiting, Asking, Before,
          FreshEntry
<1>3. ASSUME NEW d \in Entries, EndRecv(d) PROVE FreshEntry'
  BY <1>3 DEF EndRecv, tasks, history, Before, FreshEntry
<1>4. ASSUME NEW d \in Entries, EndBeat(d) PROVE FreshEntry'
  BY <1>4 DEF EndBeat, Open, tasks, history, Before, FreshEntry
<1>5. ASSUME NEW d \in Entries, PollStep(d) PROVE FreshEntry'
  BY <1>5 DEF PollStep, Looped, Open, tasks, history, Before, FreshEntry
<1>6. ASSUME NEW d \in Entries, LoseLink(d) PROVE FreshEntry'
  BY <1>6 DEF LoseLink, tasks, history, Before, FreshEntry
<1>7. CASE Connect \/ Authorise \/ Refuse \/ Login \/ LoadAccount \/ LoadSymbols
            \/ StartExit \/ StopRecv \/ StartClose \/ Close \/ Cancel
  BY <1>7 DEF Connect, Authorise, Refuse, Fail, Login, AskFor, Open, Looped,
          LoadAccount, LoadSymbols, StartExit, Stopping, StopRecv, StartClose,
          Close, Cancel, tasks, history, Entering, Exiting, Asking, Before,
          FreshEntry
<1>8. CASE UNCHANGED vars
  BY <1>8 DEF vars, tasks, history, Before, FreshEntry
<1> QED BY <1>1, <1>2, <1>3, <1>4, <1>5, <1>6, <1>7, <1>8, StepCases DEF
        TaskStep

LEMMA FreshReadsStep ==
  ASSUME FreshReads, Functional, Within, Counts, [Next]_vars
  PROVE  FreshReads'
<1>1. CASE Enter
  BY <1>1, LifecycleAssumption DEF Enter, Found, Fail, tasks, history,
          FreshReads, Functional, Within, Counts, Entries, LifecycleAssumption
<1>2. ASSUME NEW d \in Entries, Turn(d) PROVE FreshReads'
  BY <1>2, TurnReads
<1>3. ASSUME NEW d \in Entries, EndRecv(d) PROVE FreshReads'
  BY <1>3 DEF EndRecv, tasks, history, FreshReads
<1>4. ASSUME NEW d \in Entries, EndBeat(d) PROVE FreshReads'
  BY <1>4 DEF EndBeat, Open, tasks, history, FreshReads
<1>5. ASSUME NEW d \in Entries, PollStep(d) PROVE FreshReads'
  BY <1>5 DEF PollStep, Looped, Open, tasks, history, FreshReads
<1>6. ASSUME NEW d \in Entries, LoseLink(d) PROVE FreshReads'
  BY <1>6 DEF LoseLink, tasks, history, FreshReads
<1>7. CASE Connect \/ Authorise \/ Refuse \/ Login \/ LoadAccount \/ LoadSymbols
            \/ StartExit \/ StopRecv \/ StartClose \/ Close \/ Cancel
  BY <1>7 DEF Connect, Authorise, Refuse, Fail, Login, AskFor, Open, Looped,
          LoadAccount, LoadSymbols, StartExit, Stopping, StopRecv, StartClose,
          Close, Cancel, tasks, history, Entering, Exiting, Asking, FreshReads
<1>8. CASE UNCHANGED vars
  BY <1>8 DEF vars, tasks, history, FreshReads
<1> QED BY <1>1, <1>2, <1>3, <1>4, <1>5, <1>6, <1>7, <1>8, StepCases DEF
        TaskStep

LEMMA OverOnceStep ==
  ASSUME OverOnce, Counts, Past, Within, [Next]_vars
  PROVE  OverOnce'
<1>1. CASE Enter
  BY <1>1, EnterOver
<1>2. CASE Refuse
  BY <1>2 DEF Refuse, Fail, tasks, history, OverOnce, Within
<1>3. CASE Login
  BY <1>3 DEF Login, AskFor, Fail, Open, Looped, tasks, history, OverOnce,
          Within
<1>4. CASE LoadAccount
  BY <1>4 DEF LoadAccount, AskFor, Fail, Open, tasks, history, OverOnce, Within
<1>5. CASE Close
  BY <1>5 DEF Close, tasks, history, OverOnce, Within
<1>6. CASE Cancel
  BY <1>6 DEF Cancel, Fail, tasks, history, Entering, Exiting, Asking, OverOnce,
          Within
<1>7. CASE Connect \/ Authorise \/ LoadSymbols \/ StartExit \/ StopRecv \/
            StartClose
  BY <1>7 DEF Connect, Authorise, LoadSymbols, StartExit, Stopping, StopRecv,
          StartClose, tasks, history, OverOnce
<1>8. ASSUME NEW d \in Entries, TaskStep(d) PROVE OverOnce'
  BY <1>8, TaskFrame DEF OverOnce
<1>9. CASE UNCHANGED vars
  BY <1>9 DEF vars, tasks, history, OverOnce
<1> QED BY <1>1, <1>2, <1>3, <1>4, <1>5, <1>6, <1>7, <1>8, <1>9, StepCases DEF
        TaskStep

LEMMA LinkKeptStep ==
  ASSUME LinkKept, Functional, Within, Counts, Past, OverOnce, [Next]_vars
  PROVE  LinkKept'
<1>1. CASE Enter
  BY <1>1, LifecycleAssumption DEF Enter, Found, Fail, tasks, history, LinkKept,
          Functional, Within, Counts, Entries, Past, OverOnce,
          LifecycleAssumption
<1>2. CASE Close
  BY <1>2 DEF Close, tasks, history, LinkKept, Within
<1>3. CASE Cancel
  BY <1>3 DEF Cancel, Fail, tasks, history, Entering, Exiting, Asking, LinkKept,
          Within
<1>4. CASE Connect \/ Authorise \/ Refuse \/ Login \/ LoadAccount \/ LoadSymbols
            \/ StartExit \/ StopRecv \/ StartClose
  BY <1>4 DEF Connect, Authorise, Refuse, Fail, Login, AskFor, Open, Looped,
          LoadAccount, LoadSymbols, StartExit, Stopping, StopRecv, StartClose,
          tasks, history, LinkKept
<1>5. ASSUME NEW d \in Entries, TaskStep(d) PROVE LinkKept'
  BY <1>5, TaskFrame DEF LinkKept
<1>6. CASE UNCHANGED vars
  BY <1>6 DEF vars, tasks, history, LinkKept
<1> QED BY <1>1, <1>2, <1>3, <1>4, <1>5, <1>6, StepCases DEF TaskStep

LEMMA FlaggedStep ==
  ASSUME Flagged, [Next]_vars
  PROVE  Flagged'
<1>1. CASE Enter \/ Connect \/ Authorise \/ Refuse \/ Login \/ LoadAccount \/
            LoadSymbols \/ StartExit \/ StopRecv \/ StartClose \/ Close \/
            Cancel
  BY <1>1 DEF Enter, Found, Fail, Connect, Authorise, Refuse, Login, AskFor,
          Open, Looped, LoadAccount, LoadSymbols, StartExit, Stopping, StopRecv,
          StartClose, Close, Cancel, tasks, history, Entering, Exiting, Asking,
          Flagged
<1>2. ASSUME NEW d \in Entries, TaskStep(d) PROVE Flagged'
  BY <1>2, TaskFrame DEF Exiting, Flagged
<1>3. CASE UNCHANGED vars
  BY <1>3 DEF vars, tasks, history, Exiting, Flagged
<1> QED BY <1>1, <1>2, <1>3, StepCases DEF TaskStep

LEMMA RecvOnStep ==
  ASSUME RecvOn, Functional, Within, Counts, [Next]_vars
  PROVE  RecvOn'
<1>1. CASE Login
  BY <1>1, LifecycleAssumption DEF Login, AskFor, Fail, Open, Looped, tasks,
          history, Tasked, Asking, RecvOn, Functional, Within, Counts, Entries,
          LifecycleAssumption
<1>2. ASSUME NEW d \in Entries, Turn(d) PROVE RecvOn'
  BY <1>2 DEF Turn, tasks, history, Entering, Exiting, Asking, Tasked, RecvOn
<1>3. ASSUME NEW d \in Entries, EndRecv(d) PROVE RecvOn'
  BY <1>3 DEF EndRecv, tasks, history, Tasked, Asking, RecvOn
<1>4. ASSUME NEW d \in Entries, EndBeat(d) PROVE RecvOn'
  BY <1>4 DEF EndBeat, Open, tasks, history, Tasked, Asking, RecvOn
<1>5. ASSUME NEW d \in Entries, PollStep(d) PROVE RecvOn'
  BY <1>5 DEF PollStep, Looped, Open, tasks, history, Tasked, Asking, RecvOn
<1>6. ASSUME NEW d \in Entries, LoseLink(d) PROVE RecvOn'
  BY <1>6 DEF LoseLink, tasks, history, Tasked, Asking, RecvOn
<1>7. CASE Enter \/ Connect \/ Authorise \/ Refuse \/ LoadAccount \/ LoadSymbols
            \/ StartExit \/ StopRecv \/ StartClose \/ Close \/ Cancel
  BY <1>7 DEF Enter, Found, Fail, Connect, Authorise, Refuse, LoadAccount,
          AskFor, Open, LoadSymbols, StartExit, Stopping, StopRecv, StartClose,
          Close, Cancel, tasks, history, Entering, Exiting, Asking, Tasked,
          RecvOn
<1>8. CASE UNCHANGED vars
  BY <1>8 DEF vars, tasks, history, Tasked, Asking, RecvOn
<1> QED BY <1>1, <1>2, <1>3, <1>4, <1>5, <1>6, <1>7, <1>8, StepCases DEF
        TaskStep

LEMMA BeatOnStep ==
  ASSUME BeatOn, Functional, Within, Counts, [Next]_vars
  PROVE  BeatOn'
<1>1. CASE Login
  BY <1>1, LifecycleAssumption DEF Login, AskFor, Fail, Open, Looped, tasks,
          history, Tasked, Asking, BeatOn, Functional, Within, Counts, Entries,
          LifecycleAssumption
<1>2. ASSUME NEW d \in Entries, Turn(d) PROVE BeatOn'
  BY <1>2 DEF Turn, tasks, history, Entering, Exiting, Asking, Tasked, BeatOn
<1>3. ASSUME NEW d \in Entries, EndRecv(d) PROVE BeatOn'
  BY <1>3 DEF EndRecv, tasks, history, Tasked, Asking, BeatOn
<1>4. ASSUME NEW d \in Entries, EndBeat(d) PROVE BeatOn'
  BY <1>4, LifecycleAssumption DEF EndBeat, Open, tasks, history, Tasked,
          Asking, BeatOn, Functional, Within, Counts, Entries,
          LifecycleAssumption
<1>5. ASSUME NEW d \in Entries, PollStep(d) PROVE BeatOn'
  BY <1>5 DEF PollStep, Looped, Open, tasks, history, Tasked, Asking, BeatOn
<1>6. ASSUME NEW d \in Entries, LoseLink(d) PROVE BeatOn'
  BY <1>6 DEF LoseLink, tasks, history, Tasked, Asking, BeatOn
<1>7. CASE Enter \/ Connect \/ Authorise \/ Refuse \/ LoadAccount \/ LoadSymbols
            \/ StartExit \/ StopRecv \/ StartClose \/ Close \/ Cancel
  BY <1>7 DEF Enter, Found, Fail, Connect, Authorise, Refuse, LoadAccount,
          AskFor, Open, LoadSymbols, StartExit, Stopping, StopRecv, StartClose,
          Close, Cancel, tasks, history, Entering, Exiting, Asking, Tasked,
          BeatOn
<1>8. CASE UNCHANGED vars
  BY <1>8 DEF vars, tasks, history, Tasked, Asking, BeatOn
<1> QED BY <1>1, <1>2, <1>3, <1>4, <1>5, <1>6, <1>7, <1>8, StepCases DEF
        TaskStep

LEMMA LinkOnStep ==
  ASSUME LinkOn, Within, [Next]_vars
  PROVE  LinkOn'
<1>1. CASE Login
  BY <1>1 DEF Login, AskFor, Fail, Open, Looped, tasks, history, Tasked, Asking,
          LinkOn, Within
<1>2. ASSUME NEW d \in Entries, Turn(d) PROVE LinkOn'
  BY <1>2 DEF Turn, tasks, history, Entering, Exiting, Asking, Tasked, LinkOn
<1>3. ASSUME NEW d \in Entries, EndRecv(d) PROVE LinkOn'
  BY <1>3 DEF EndRecv, tasks, history, Tasked, Asking, LinkOn
<1>4. ASSUME NEW d \in Entries, EndBeat(d) PROVE LinkOn'
  BY <1>4 DEF EndBeat, Open, tasks, history, Tasked, Asking, LinkOn
<1>5. ASSUME NEW d \in Entries, PollStep(d) PROVE LinkOn'
  BY <1>5 DEF PollStep, Looped, Open, tasks, history, Tasked, Asking, LinkOn
<1>6. ASSUME NEW d \in Entries, LoseLink(d) PROVE LinkOn'
  BY <1>6 DEF LoseLink, tasks, history, Tasked, Asking, LinkOn
<1>7. CASE Enter \/ Connect \/ Authorise \/ Refuse \/ LoadAccount \/ LoadSymbols
            \/ StartExit \/ StopRecv \/ StartClose \/ Close \/ Cancel
  BY <1>7 DEF Enter, Found, Fail, Connect, Authorise, Refuse, LoadAccount,
          AskFor, Open, LoadSymbols, StartExit, Stopping, StopRecv, StartClose,
          Close, Cancel, tasks, history, Entering, Exiting, Asking, Tasked,
          LinkOn
<1>8. CASE UNCHANGED vars
  BY <1>8 DEF vars, tasks, history, Tasked, Asking, LinkOn
<1> QED BY <1>1, <1>2, <1>3, <1>4, <1>5, <1>6, <1>7, <1>8, StepCases DEF
        TaskStep

LEMMA StopsBeatStep ==
  ASSUME StopsBeat, Functional, Within, Counts, BeatOn, FreshTasks, [Next]_vars
  PROVE  StopsBeat'
<1>1. CASE StartExit
  BY <1>1, LifecycleAssumption DEF StartExit, Stopping, tasks, history, Exiting,
          Tasked, Asking, StopsBeat, Functional, Within, Counts, Entries,
          BeatOn, FreshTasks, LifecycleAssumption
<1>2. ASSUME NEW d \in Entries, Turn(d) PROVE StopsBeat'
  BY <1>2 DEF Turn, tasks, history, Entering, Exiting, Asking, StopsBeat
<1>3. ASSUME NEW d \in Entries, EndRecv(d) PROVE StopsBeat'
  BY <1>3 DEF EndRecv, tasks, history, Exiting, StopsBeat
<1>4. ASSUME NEW d \in Entries, EndBeat(d) PROVE StopsBeat'
  BY <1>4 DEF EndBeat, Open, tasks, history, Exiting, StopsBeat
<1>5. ASSUME NEW d \in Entries, PollStep(d) PROVE StopsBeat'
  BY <1>5 DEF PollStep, Looped, Open, tasks, history, Exiting, StopsBeat
<1>6. ASSUME NEW d \in Entries, LoseLink(d) PROVE StopsBeat'
  BY <1>6 DEF LoseLink, tasks, history, Exiting, StopsBeat
<1>7. CASE Enter \/ Connect \/ Authorise \/ Refuse \/ Login \/ LoadAccount \/
            LoadSymbols \/ StopRecv \/ StartClose \/ Close \/ Cancel
  BY <1>7 DEF Enter, Found, Fail, Connect, Authorise, Refuse, Login, AskFor,
          Open, Looped, LoadAccount, LoadSymbols, StopRecv, Stopping,
          StartClose, Close, Cancel, tasks, history, Entering, Exiting, Asking,
          StopsBeat
<1>8. CASE UNCHANGED vars
  BY <1>8 DEF vars, tasks, history, Exiting, StopsBeat
<1> QED BY <1>1, <1>2, <1>3, <1>4, <1>5, <1>6, <1>7, <1>8, StepCases DEF
        TaskStep

LEMMA StopsRecvStep ==
  ASSUME StopsRecv, Functional, Within, Counts, StopsBeat, RecvOn, Flagged,
         [Next]_vars
  PROVE  StopsRecv'
<1>1. CASE StartExit
  BY <1>1, LifecycleAssumption DEF StartExit, Stopping, tasks, history, Exiting,
          Tasked, Asking, StopsRecv, Functional, Within, Counts, Entries,
          StopsBeat, RecvOn, LifecycleAssumption
<1>2. CASE StopRecv
  BY <1>2, LifecycleAssumption DEF StopRecv, Stopping, tasks, history, Exiting,
          StopsRecv, Functional, Within, Counts, Entries, LifecycleAssumption
<1>3. ASSUME NEW d \in Entries, Turn(d) PROVE StopsRecv'
  BY <1>3, TurnStops
<1>4. ASSUME NEW d \in Entries, EndRecv(d) PROVE StopsRecv'
  BY <1>4 DEF EndRecv, tasks, history, Exiting, StopsRecv
<1>5. ASSUME NEW d \in Entries, EndBeat(d) PROVE StopsRecv'
  BY <1>5 DEF EndBeat, Open, tasks, history, Exiting, StopsRecv
<1>6. ASSUME NEW d \in Entries, PollStep(d) PROVE StopsRecv'
  BY <1>6 DEF PollStep, Looped, Open, tasks, history, Exiting, StopsRecv
<1>7. ASSUME NEW d \in Entries, LoseLink(d) PROVE StopsRecv'
  BY <1>7 DEF LoseLink, tasks, history, Exiting, StopsRecv
<1>8. CASE Enter \/ Connect \/ Authorise \/ Refuse \/ Login \/ LoadAccount \/
            LoadSymbols \/ StartClose \/ Close \/ Cancel
  BY <1>8 DEF Enter, Found, Fail, Connect, Authorise, Refuse, Login, AskFor,
          Open, Looped, LoadAccount, LoadSymbols, StartClose, Close, Cancel,
          tasks, history, Entering, Exiting, Asking, StopsRecv
<1>9. CASE UNCHANGED vars
  BY <1>9 DEF vars, tasks, history, Exiting, StopsRecv
<1> QED BY <1>1, <1>2, <1>3, <1>4, <1>5, <1>6, <1>7, <1>8, <1>9, StepCases DEF
        TaskStep

LEMMA DeafReadsStep ==
  ASSUME DeafReads, Functional, Within, Counts, FreshReads, FreshTasks,
         [Next]_vars
  PROVE  DeafReads'
<1>1. CASE Enter
  BY <1>1, LifecycleAssumption DEF Enter, Found, Fail, tasks, history, Entering,
          DeafReads, Functional, Within, Counts, Entries, FreshReads,
          FreshTasks, LifecycleAssumption
<1>2. ASSUME NEW d \in Entries, Turn(d) PROVE DeafReads'
  BY <1>2 DEF Turn, tasks, history, Entering, Exiting, Asking, DeafReads
<1>3. ASSUME NEW d \in Entries, EndRecv(d) PROVE DeafReads'
  BY <1>3 DEF EndRecv, tasks, history, Entering, DeafReads
<1>4. ASSUME NEW d \in Entries, EndBeat(d) PROVE DeafReads'
  BY <1>4 DEF EndBeat, Open, tasks, history, Entering, DeafReads
<1>5. ASSUME NEW d \in Entries, PollStep(d) PROVE DeafReads'
  BY <1>5 DEF PollStep, Looped, Open, tasks, history, Entering, DeafReads
<1>6. ASSUME NEW d \in Entries, LoseLink(d) PROVE DeafReads'
  BY <1>6 DEF LoseLink, tasks, history, Entering, DeafReads
<1>7. CASE Connect \/ Authorise \/ Refuse \/ Login \/ LoadAccount \/ LoadSymbols
            \/ StartExit \/ StopRecv \/ StartClose \/ Close \/ Cancel
  BY <1>7 DEF Connect, Authorise, Refuse, Fail, Login, AskFor, Open, Looped,
          LoadAccount, LoadSymbols, StartExit, Stopping, StopRecv, StartClose,
          Close, Cancel, tasks, history, Entering, Exiting, Asking, DeafReads
<1>8. CASE UNCHANGED vars
  BY <1>8 DEF vars, tasks, history, Entering, DeafReads
<1> QED BY <1>1, <1>2, <1>3, <1>4, <1>5, <1>6, <1>7, <1>8, StepCases DEF
        TaskStep

LEMMA DeafLoadsStep ==
  ASSUME DeafLoads, Functional, Within, Counts, DeafReads, [Next]_vars
  PROVE  DeafLoads'
<1>1. ASSUME NEW d \in Entries, Turn(d) PROVE DeafLoads'
  BY <1>1, LifecycleAssumption DEF Turn, tasks, history, Entering, Exiting,
          Asking, DeafLoads, Functional, Within, Counts, Entries, DeafReads,
          LifecycleAssumption
<1>2. ASSUME NEW d \in Entries, EndRecv(d) PROVE DeafLoads'
  BY <1>2 DEF EndRecv, tasks, history, Entering, Asking, DeafLoads
<1>3. ASSUME NEW d \in Entries, EndBeat(d) PROVE DeafLoads'
  BY <1>3 DEF EndBeat, Open, tasks, history, Entering, Asking, DeafLoads
<1>4. ASSUME NEW d \in Entries, PollStep(d) PROVE DeafLoads'
  BY <1>4 DEF PollStep, Looped, Open, tasks, history, Entering, Asking,
          DeafLoads
<1>5. ASSUME NEW d \in Entries, LoseLink(d) PROVE DeafLoads'
  BY <1>5 DEF LoseLink, tasks, history, Entering, Asking, DeafLoads
<1>6. CASE Enter \/ Connect \/ Authorise \/ Refuse \/ Login \/ LoadAccount \/
            LoadSymbols \/ StartExit \/ StopRecv \/ StartClose \/ Close \/
            Cancel
  BY <1>6 DEF Enter, Found, Fail, Connect, Authorise, Refuse, Login, AskFor,
          Open, Looped, LoadAccount, LoadSymbols, StartExit, Stopping, StopRecv,
          StartClose, Close, Cancel, tasks, history, Entering, Exiting, Asking,
          DeafLoads
<1>7. CASE UNCHANGED vars
  BY <1>7 DEF vars, tasks, history, Entering, Asking, DeafLoads
<1> QED BY <1>1, <1>2, <1>3, <1>4, <1>5, <1>6, <1>7, StepCases DEF TaskStep

LEMMA RoundsLaterStep ==
  ASSUME RoundsLater, [Next]_vars
  PROVE  RoundsLater'
<1>1. ASSUME NEW d \in Entries, Turn(d) PROVE RoundsLater'
  BY <1>1 DEF Turn, tasks, history, Entering, Exiting, Asking, RoundsLater
<1>2. ASSUME NEW d \in Entries, EndRecv(d) PROVE RoundsLater'
  BY <1>2 DEF EndRecv, tasks, history, RoundsLater
<1>3. ASSUME NEW d \in Entries, EndBeat(d) PROVE RoundsLater'
  BY <1>3 DEF EndBeat, Open, tasks, history, RoundsLater
<1>4. ASSUME NEW d \in Entries, PollStep(d) PROVE RoundsLater'
  BY <1>4 DEF PollStep, Looped, Open, tasks, history, RoundsLater
<1>5. ASSUME NEW d \in Entries, LoseLink(d) PROVE RoundsLater'
  BY <1>5 DEF LoseLink, tasks, history, RoundsLater
<1>6. CASE Enter \/ Connect \/ Authorise \/ Refuse \/ Login \/ LoadAccount \/
            LoadSymbols \/ StartExit \/ StopRecv \/ StartClose \/ Close \/
            Cancel
  BY <1>6 DEF Enter, Found, Fail, Connect, Authorise, Refuse, Login, AskFor,
          Open, Looped, LoadAccount, LoadSymbols, StartExit, Stopping, StopRecv,
          StartClose, Close, Cancel, tasks, history, Entering, Exiting, Asking,
          RoundsLater
<1>7. CASE UNCHANGED vars
  BY <1>7 DEF vars, tasks, history, RoundsLater
<1> QED BY <1>1, <1>2, <1>3, <1>4, <1>5, <1>6, <1>7, StepCases DEF TaskStep

LEMMA PollOnStep ==
  ASSUME PollOn, Functional, Within, Counts, [Next]_vars
  PROVE  PollOn'
<1>1. CASE Login
  BY <1>1, LifecycleAssumption DEF Login, AskFor, Fail, Open, Looped, tasks,
          history, Exiting, Tasked, Asking, PollOn, Functional, Within, Counts,
          Entries, LifecycleAssumption
<1>2. ASSUME NEW d \in Entries, Turn(d) PROVE PollOn'
  BY <1>2 DEF Turn, tasks, history, Entering, Exiting, Asking, Tasked, PollOn
<1>3. ASSUME NEW d \in Entries, EndRecv(d) PROVE PollOn'
  BY <1>3 DEF EndRecv, tasks, history, Exiting, Tasked, Asking, PollOn
<1>4. ASSUME NEW d \in Entries, EndBeat(d) PROVE PollOn'
  BY <1>4 DEF EndBeat, Open, tasks, history, Exiting, Tasked, Asking, PollOn
<1>5. ASSUME NEW d \in Entries, PollStep(d) PROVE PollOn'
  BY <1>5 DEF PollStep, Looped, Open, tasks, history, Exiting, Tasked, Asking,
          PollOn
<1>6. ASSUME NEW d \in Entries, LoseLink(d) PROVE PollOn'
  BY <1>6 DEF LoseLink, tasks, history, Exiting, Tasked, Asking, PollOn
<1>7. CASE Enter \/ Connect \/ Authorise \/ Refuse \/ LoadAccount \/ LoadSymbols
            \/ StartExit \/ StopRecv \/ StartClose \/ Close \/ Cancel
  BY <1>7 DEF Enter, Found, Fail, Connect, Authorise, Refuse, LoadAccount,
          AskFor, Open, LoadSymbols, StartExit, Stopping, StopRecv, StartClose,
          Close, Cancel, tasks, history, Entering, Exiting, Asking, Tasked,
          PollOn
<1>8. CASE UNCHANGED vars
  BY <1>8 DEF vars, tasks, history, Exiting, Tasked, Asking, PollOn
<1> QED BY <1>1, <1>2, <1>3, <1>4, <1>5, <1>6, <1>7, <1>8, StepCases DEF
        TaskStep

LEMMA PollLeftStep ==
  ASSUME PollLeft, Counts, Functional, Past, Within, RoundsLater, PollOn,
         StopsRecv, StopsBeat, LastRounds, StoppedTasks, Flagged, LinkKept,
         StoppedLink, [Next]_vars
  PROVE  PollLeft'
<1>1. CASE Enter
  BY <1>1, EnterPolls
<1>2. CASE Login
  BY <1>2 DEF Login, AskFor, Fail, Open, Looped, tasks, history, PollLeft,
          Within
<1>3. CASE Close
  BY <1>3, LifecycleAssumption DEF Close, tasks, history, Exiting, Tasked,
          Asking, PollLeft, Functional, Within, Counts, Entries, RoundsLater,
          PollOn, Past, LifecycleAssumption
<1>4. CASE Cancel
  BY <1>4, CancelExits
<1>5. ASSUME NEW d \in Entries, Turn(d) PROVE PollLeft'
  BY <1>5 DEF Turn, tasks, history, Entering, Exiting, Asking, PollLeft
<1>6. ASSUME NEW d \in Entries, EndRecv(d) PROVE PollLeft'
  BY <1>6 DEF EndRecv, tasks, history, PollLeft
<1>7. ASSUME NEW d \in Entries, EndBeat(d) PROVE PollLeft'
  BY <1>7 DEF EndBeat, Open, tasks, history, PollLeft
<1>8. ASSUME NEW d \in Entries, PollStep(d) PROVE PollLeft'
  BY <1>8, PollRounds
<1>9. ASSUME NEW d \in Entries, LoseLink(d) PROVE PollLeft'
  BY <1>9 DEF LoseLink, tasks, history, PollLeft
<1>10. CASE Connect \/ Authorise \/ Refuse \/ LoadAccount \/ LoadSymbols \/
            StartExit \/ StopRecv \/ StartClose
  BY <1>10 DEF Connect, Authorise, Refuse, Fail, LoadAccount, AskFor, Open,
          LoadSymbols, StartExit, Stopping, StopRecv, StartClose, tasks,
          history, PollLeft
<1>11. CASE UNCHANGED vars
  BY <1>11 DEF vars, tasks, history, PollLeft
<1> QED BY <1>1, <1>2, <1>3, <1>4, <1>5, <1>6, <1>7, <1>8, <1>9, <1>10, <1>11,
        StepCases DEF TaskStep

LEMMA LastRoundsStep ==
  ASSUME LastRounds, Counts, Functional, Past, Within, PollLeft, RoundsLater,
         StopsRecv, StopsBeat, PollOn, StoppedTasks, Flagged, LinkKept,
         StoppedLink, [Next]_vars
  PROVE  LastRounds'
<1>1. CASE Enter
  BY <1>1, EnterRounds
<1>2. CASE Close
  BY <1>2, LifecycleAssumption DEF Close, tasks, history, LastRounds,
          Functional, Within, Counts, Entries, PollLeft, RoundsLater, Past,
          LifecycleAssumption
<1>3. CASE Cancel
  BY <1>3, CancelExits
<1>4. ASSUME NEW d \in Entries, Turn(d) PROVE LastRounds'
  BY <1>4 DEF Turn, tasks, history, Entering, Exiting, Asking, LastRounds
<1>5. ASSUME NEW d \in Entries, EndRecv(d) PROVE LastRounds'
  BY <1>5 DEF EndRecv, tasks, history, LastRounds
<1>6. ASSUME NEW d \in Entries, EndBeat(d) PROVE LastRounds'
  BY <1>6 DEF EndBeat, Open, tasks, history, LastRounds
<1>7. ASSUME NEW d \in Entries, PollStep(d) PROVE LastRounds'
  BY <1>7, PollRounds
<1>8. ASSUME NEW d \in Entries, LoseLink(d) PROVE LastRounds'
  BY <1>8 DEF LoseLink, tasks, history, LastRounds
<1>9. CASE Connect \/ Authorise \/ Refuse \/ Login \/ LoadAccount \/ LoadSymbols
            \/ StartExit \/ StopRecv \/ StartClose
  BY <1>9 DEF Connect, Authorise, Refuse, Fail, Login, AskFor, Open, Looped,
          LoadAccount, LoadSymbols, StartExit, Stopping, StopRecv, StartClose,
          tasks, history, LastRounds
<1>10. CASE UNCHANGED vars
  BY <1>10 DEF vars, tasks, history, LastRounds
<1> QED BY <1>1, <1>2, <1>3, <1>4, <1>5, <1>6, <1>7, <1>8, <1>9, <1>10,
        StepCases DEF TaskStep

LEMMA StoppedTasksStep ==
  ASSUME StoppedTasks, Within, Functional, Counts, StopsRecv, StopsBeat, Past,
         RoundsLater, PollOn, PollLeft, LastRounds, [Next]_vars
  PROVE  StoppedTasks'
<1>1. CASE Enter
  BY <1>1 DEF Enter, Found, Fail, tasks, history, StoppedTasks
<1>2. CASE Connect
  BY <1>2 DEF Connect, tasks, history, StoppedTasks
<1>3. CASE Authorise
  BY <1>3 DEF Authorise, tasks, history, StoppedTasks
<1>4. CASE Refuse
  BY <1>4 DEF Refuse, Fail, tasks, history, StoppedTasks
<1>5. CASE Login
  BY <1>5 DEF Login, AskFor, Fail, Open, Looped, tasks, history, StoppedTasks,
          Within
<1>6. CASE LoadAccount
  BY <1>6 DEF LoadAccount, AskFor, Fail, Open, tasks, history, StoppedTasks
<1>7. CASE LoadSymbols
  BY <1>7 DEF LoadSymbols, tasks, history, StoppedTasks
<1>8. CASE StartExit
  BY <1>8 DEF StartExit, Stopping, tasks, history, StoppedTasks
<1>9. CASE StopRecv
  BY <1>9 DEF StopRecv, Stopping, tasks, history, StoppedTasks
<1>10. CASE StartClose
  BY <1>10 DEF StartClose, tasks, history, StoppedTasks
<1>11. CASE Close
  BY <1>11, LifecycleAssumption DEF Close, tasks, history, Exiting,
          StoppedTasks, Functional, Within, Counts, Entries, StopsRecv,
          StopsBeat, Past, LifecycleAssumption
<1>12. CASE Cancel
  BY <1>12, CancelExits
<1>13. ASSUME NEW d \in Entries, Turn(d) PROVE StoppedTasks'
  BY <1>13 DEF Turn, tasks, history, Entering, Exiting, Asking, StoppedTasks
<1>14. ASSUME NEW d \in Entries, EndRecv(d) PROVE StoppedTasks'
  BY <1>14 DEF EndRecv, tasks, history, StoppedTasks
<1>15. ASSUME NEW d \in Entries, EndBeat(d) PROVE StoppedTasks'
  BY <1>15 DEF EndBeat, Open, tasks, history, StoppedTasks
<1>16. ASSUME NEW d \in Entries, PollStep(d) PROVE StoppedTasks'
  BY <1>16 DEF PollStep, Looped, Open, tasks, history, StoppedTasks
<1>17. ASSUME NEW d \in Entries, LoseLink(d) PROVE StoppedTasks'
  BY <1>17 DEF LoseLink, tasks, history, StoppedTasks
<1>18. CASE UNCHANGED vars
  BY <1>18 DEF vars, tasks, history, StoppedTasks
<1> QED BY <1>1, <1>2, <1>3, <1>4, <1>5, <1>6, <1>7, <1>8, <1>9, <1>10, <1>11,
        <1>12, <1>13, <1>14, <1>15, <1>16, <1>17, <1>18, StepCases DEF TaskStep

LEMMA StoppedLinkStep ==
  ASSUME StoppedLink, Within, Functional, Counts, [Next]_vars
  PROVE  StoppedLink'
<1>1. CASE Connect
  BY <1>1 DEF Connect, tasks, history, StoppedLink, Within
<1>2. CASE Close
  BY <1>2, LifecycleAssumption DEF Close, tasks, history, StoppedLink,
          Functional, Within, Counts, Entries, LifecycleAssumption
<1>3. ASSUME NEW d \in Entries, Turn(d) PROVE StoppedLink'
  BY <1>3 DEF Turn, tasks, history, Entering, Exiting, Asking, StoppedLink
<1>4. ASSUME NEW d \in Entries, EndRecv(d) PROVE StoppedLink'
  BY <1>4 DEF EndRecv, tasks, history, StoppedLink
<1>5. ASSUME NEW d \in Entries, EndBeat(d) PROVE StoppedLink'
  BY <1>5 DEF EndBeat, Open, tasks, history, StoppedLink
<1>6. ASSUME NEW d \in Entries, PollStep(d) PROVE StoppedLink'
  BY <1>6 DEF PollStep, Looped, Open, tasks, history, StoppedLink
<1>7. ASSUME NEW d \in Entries, LoseLink(d) PROVE StoppedLink'
  BY <1>7 DEF LoseLink, tasks, history, StoppedLink
<1>8. CASE Enter \/ Authorise \/ Refuse \/ Login \/ LoadAccount \/ LoadSymbols
            \/ StartExit \/ StopRecv \/ StartClose \/ Cancel
  BY <1>8 DEF Enter, Found, Fail, Authorise, Refuse, Login, AskFor, Open,
          Looped, LoadAccount, LoadSymbols, StartExit, Stopping, StopRecv,
          StartClose, Cancel, tasks, history, Entering, Exiting, Asking,
          StoppedLink
<1>9. CASE UNCHANGED vars
  BY <1>9 DEF vars, tasks, history, StoppedLink
<1> QED BY <1>1, <1>2, <1>3, <1>4, <1>5, <1>6, <1>7, <1>8, <1>9, StepCases DEF
        TaskStep

LEMMA HangsStep ==
  ASSUME Hangs, Counts, Flags, Within, FreshTasks, FreshEntry, OverOnce,
         Flagged, LinkOn, [Next]_vars
  PROVE  Hangs'
<1>1. ASSUME NEW d \in Entries, Turn(d) PROVE Hangs'
  BY <1>1, TurnHangs
<1>2. ASSUME NEW d \in Entries, EndRecv(d) PROVE Hangs'
  BY <1>2 DEF EndRecv, tasks, history, Hangs
<1>3. ASSUME NEW d \in Entries, EndBeat(d) PROVE Hangs'
  BY <1>3 DEF EndBeat, Open, tasks, history, Hangs
<1>4. ASSUME NEW d \in Entries, PollStep(d) PROVE Hangs'
  BY <1>4 DEF PollStep, Looped, Open, tasks, history, Hangs
<1>5. ASSUME NEW d \in Entries, LoseLink(d) PROVE Hangs'
  BY <1>5 DEF LoseLink, tasks, history, Hangs
<1>6. CASE Enter \/ Connect \/ Authorise \/ Refuse \/ Login \/ LoadAccount \/
            LoadSymbols \/ StartExit \/ StopRecv \/ StartClose \/ Close \/
            Cancel
  BY <1>6 DEF Enter, Found, Fail, Connect, Authorise, Refuse, Login, AskFor,
          Open, Looped, LoadAccount, LoadSymbols, StartExit, Stopping, StopRecv,
          StartClose, Close, Cancel, tasks, history, Entering, Exiting, Asking,
          Hangs
<1>7. CASE UNCHANGED vars
  BY <1>7 DEF vars, tasks, history, Hangs
<1> QED BY <1>1, <1>2, <1>3, <1>4, <1>5, <1>6, <1>7, StepCases DEF TaskStep

-----------------------------------------------------------------------------
LEMMA InitInvariant ==
  ASSUME Init
  PROVE  IInv
<1>1. Counts
  BY LifecycleAssumption DEF Init, Entries, Counts, LifecycleAssumption
<1>2. Functional
  BY LifecycleAssumption DEF Init, Entries, Functional, LifecycleAssumption
<1>3. Flags
  BY DEF Init, Entering, Exiting, Entries, Flags
<1>4. Past
  BY DEF Init, Entries, Past
<1>5. Within
  BY DEF Init, Entries, Within
<1>6. FreshTasks
  BY DEF Init, Before, Entries, FreshTasks
<1>7. FreshEntry
  BY DEF Init, Before, Entries, FreshEntry
<1>8. FreshReads
  BY DEF Init, Entries, FreshReads
<1>9. OverOnce
  BY DEF Init, Entries, OverOnce
<1>10. LinkKept
  BY DEF Init, Exiting, Tasked, Asking, Entries, LinkKept
<1>11. Flagged
  BY DEF Init, Exiting, Tasked, Asking, Entries, Flagged
<1>12. RecvOn
  BY DEF Init, Exiting, Tasked, Asking, Entries, RecvOn
<1>13. BeatOn
  BY DEF Init, Exiting, Tasked, Asking, Entries, BeatOn
<1>14. LinkOn
  BY DEF Init, Exiting, Tasked, Asking, Entries, LinkOn
<1>15. StopsBeat
  BY DEF Init, Exiting, Entries, StopsBeat
<1>16. StopsRecv
  BY DEF Init, Entering, Exiting, Entries, StopsRecv
<1>17. DeafReads
  BY DEF Init, Entering, Exiting, Asking, Tasked, Entries, DeafReads
<1>18. DeafLoads
  BY DEF Init, Entering, Exiting, Asking, Tasked, Entries, DeafLoads
<1>19. RoundsLater
  BY DEF Init, Exiting, Tasked, Asking, Entries, RoundsLater
<1>20. PollOn
  BY DEF Init, Exiting, Tasked, Asking, Entries, PollOn
<1>21. PollLeft
  BY DEF Init, Entries, PollLeft
<1>22. LastRounds
  BY DEF Init, Entries, LastRounds
<1>23. StoppedTasks
  BY DEF Init, Entries, StoppedTasks
<1>24. StoppedLink
  BY DEF Init, Entries, StoppedLink
<1>25. Hangs
  BY DEF Init, Entries, Hangs
<1> QED BY <1>1, <1>2, <1>3, <1>4, <1>5, <1>6, <1>7, <1>8, <1>9, <1>10, <1>11,
        <1>12, <1>13, <1>14, <1>15, <1>16, <1>17, <1>18, <1>19, <1>20, <1>21,
        <1>22, <1>23, <1>24, <1>25 DEF IInv

LEMMA NextInvariant ==
  ASSUME IInv, [Next]_vars
  PROVE  IInv'
<1>1. Counts /\ Functional /\ Flags /\ Past /\ Within /\ FreshTasks /\
      FreshEntry /\ FreshReads /\ OverOnce /\ LinkKept /\ Flagged /\ RecvOn /\
      BeatOn /\ LinkOn /\ StopsBeat /\ StopsRecv /\ DeafReads /\ DeafLoads /\
      RoundsLater /\ PollOn /\ PollLeft /\ LastRounds /\ StoppedTasks /\
      StoppedLink /\ Hangs
  BY DEF IInv
<1>2. Counts'
  BY <1>1, CountsStep
<1>3. Functional'
  BY <1>1, FunctionalStep
<1>4. Flags'
  BY <1>1, FlagsStep
<1>5. Past'
  BY <1>1, PastStep
<1>6. Within'
  BY <1>1, WithinStep
<1>7. FreshTasks'
  BY <1>1, FreshTasksStep
<1>8. FreshEntry'
  BY <1>1, FreshEntryStep
<1>9. FreshReads'
  BY <1>1, FreshReadsStep
<1>10. OverOnce'
  BY <1>1, OverOnceStep
<1>11. LinkKept'
  BY <1>1, LinkKeptStep
<1>12. Flagged'
  BY <1>1, FlaggedStep
<1>13. RecvOn'
  BY <1>1, RecvOnStep
<1>14. BeatOn'
  BY <1>1, BeatOnStep
<1>15. LinkOn'
  BY <1>1, LinkOnStep
<1>16. StopsBeat'
  BY <1>1, StopsBeatStep
<1>17. StopsRecv'
  BY <1>1, StopsRecvStep
<1>18. DeafReads'
  BY <1>1, DeafReadsStep
<1>19. DeafLoads'
  BY <1>1, DeafLoadsStep
<1>20. RoundsLater'
  BY <1>1, RoundsLaterStep
<1>21. PollOn'
  BY <1>1, PollOnStep
<1>22. PollLeft'
  BY <1>1, PollLeftStep
<1>23. LastRounds'
  BY <1>1, LastRoundsStep
<1>24. StoppedTasks'
  BY <1>1, StoppedTasksStep
<1>25. StoppedLink'
  BY <1>1, StoppedLinkStep
<1>26. Hangs'
  BY <1>1, HangsStep
<1> QED BY <1>2, <1>3, <1>4, <1>5, <1>6, <1>7, <1>8, <1>9, <1>10, <1>11, <1>12,
        <1>13, <1>14, <1>15, <1>16, <1>17, <1>18, <1>19, <1>20, <1>21, <1>22,
        <1>23, <1>24, <1>25, <1>26 DEF IInv

(* The inductive invariant holds in every behaviour: an exit stops the     *)
(* tasks one by one, and the first one leaves the client deaf.             *)
THEOREM LifecycleInvariant == Spec => []IInv
<1>1. Init => IInv
  BY InitInvariant
<1>2. IInv /\ [Next]_vars => IInv'
  BY NextInvariant
<1> QED BY <1>1, <1>2, PTL DEF Spec

(* The types of the client's state.                                        *)
THEOREM LifecycleTypes == Spec => []TypeOK
<1>1. IInv => TypeOK
  BY DEF IInv, TypeOK, Counts, Functional, Flags, Past, Within
<1> QED BY <1>1, LifecycleInvariant, PTL

(* In the body of the first async with messages are read, and the          *)
(* heartbeat runs as long as the connection is there, though no task of    *)
(* the client watches another.                                             *)
THEOREM Attendance == Spec => []Attended
<1>1. IInv => Attended
  <2> SUFFICES ASSUME IInv, main = "in", entry = 1
               PROVE  /\ recv[1] \in {"starting", "waiting"}
                      /\ beat[1] = "running" \/ ws[1] = "lost"
    BY DEF Attended
  <2>1. main \in Tasked /\ main \notin Exiting
    BY DEF Tasked, Exiting
  <2>2. exited = {}
    BY DEF IInv, Past, Within
  <2>3. ~cancelled
    BY <2>1, <2>2 DEF IInv, Flagged
  <2>4. 1 \in Entries /\ ws[1] \in {"none", "open", "lost"}
    BY DEF IInv, Within, Functional
  <2> QED BY <2>1, <2>3, <2>4 DEF IInv, RecvOn, BeatOn, LinkOn
<1> QED BY <1>1, LifecycleInvariant, PTL

(* An exit leaves no receive loop and no heartbeat, and no connection      *)
(* unless it is cancelled in close, however often the object was entered.  *)
THEOREM ExitStopsTasks == Spec => []ExitStops
<1>1. IInv => ExitStops
  BY DEF IInv, ExitStops, StoppedTasks, StoppedLink
<1> QED BY <1>1, LifecycleInvariant, PTL

(* The event loop is seized only on a lost connection with a wait_for that *)
(* does not give way, or after an entry that failed.                       *)
THEOREM HangsForReason == Spec => []HungOnlyIf
<1>1. IInv => HungOnlyIf
  BY DEF IInv, HungOnlyIf, Hangs
<1> QED BY <1>1, LifecycleInvariant, PTL

(* After the first exit no entry of the same object hears an answer.       *)
THEOREM DeafAfterExit == Spec => []ReentryDeaf
<1>1. IInv => ReentryDeaf
  BY DEF IInv, ReentryDeaf, DeafLoads, Entering, Asking
<1> QED BY <1>1, LifecycleInvariant, PTL

(* A poll loop, which nothing cancels, ends soon after its exit.           *)
THEOREM RoundsAfterExit == Spec => []LastRounds
<1>1. IInv => LastRounds
  BY DEF IInv
<1> QED BY <1>1, LifecycleInvariant, PTL
=============================================================================
