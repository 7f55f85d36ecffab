--------------------------- MODULE Session_proofs ---------------------------
(***************************************************************************)
(* The invariants of a conversation, for any number of rounds of the loops *)
(* and any number of faults.  The facts that Script_proofs finds for each  *)
(* step are what the invariant says of the messages unread.                *)
(***************************************************************************)
EXTENDS Script_proofs, FiniteSetTheorems

(* The facts that go with the steps of a script, and those of the next     *)
(* step.                                                                   *)
Guide(n) ==
    CHOOSE cert :
        /\ Certifies(Doubled(n), Scripts[n], cert)
        /\ cert[1] = Known({}, {}, {})
        /\ n \notin Hasty => 12 \notin cert[Len(Scripts[n]) + 1].open

KnownNow == Guide(script)[pc]

(* Every script has them (ScriptsFlow).                                    *)
LEMMA Guided ==
    ASSUME NEW n \in DOMAIN Scripts
    PROVE  /\ Certifies(Doubled(n), Scripts[n], Guide(n))
           /\ Guide(n)[1] = Known({}, {}, {})
           /\ n \notin Hasty => 12 \notin Guide(n)[Len(Scripts[n]) + 1].open
           /\ Scripts[n] \in Seq(Steps) /\ Len(Scripts[n]) > 0
  <1>1. PICK O \in SUBSET Cmds :
           Opens(Doubled(n), O, Scripts[n]) /\ (n \notin Hasty => 12 \notin O) /\ O # {}
    BY ScriptsFlow
  <1>2. PICK cert : /\ Certifies(Doubled(n), Scripts[n], cert)
                    /\ cert[1] = Known({}, {}, {})
                    /\ cert[Len(Scripts[n]) + 1] = Known(O, {}, {})
    BY <1>1 DEF Opens, Leads
  <1>3. Known(O, {}, {}).open = O
    BY DEF Known
  <1>4. n \notin Hasty => 12 \notin cert[Len(Scripts[n]) + 1].open
    BY <1>1, <1>2, <1>3
  <1>5. Scripts[n] \in Seq(Steps)
    BY <1>1 DEF Opens, Leads
  <1>6. Len(Scripts[n]) # 0
    <2>1. Known({}, {}, {}).open = {}
      BY DEF Known
    <2> QED BY <1>1, <1>2, <1>3, <2>1
  <1> QED BY <1>2, <1>4, <1>5, <1>6 DEF Guide

(* The next step is one of a script, and what it needs is known.           *)
LEMMA StepKnown ==
    ASSUME TypeOK, status = "running"
    PROVE  /\ Step \in Steps /\ KnownNow \in Facts
           /\ Right(Doubled(script), Step, KnownNow)
           /\ Scripts[script] \in Seq(Steps)
           /\ pc \in 1 .. Len(Scripts[script])
           /\ Step.do \in Branches => pc + 1 + Step.skip \in 1 .. Len(Scripts[script]) + 1
  <1>1. script \in DOMAIN Scripts /\ pc \in 1 .. Len(Scripts[script]) + 1 /\ pc <= Len(Scripts[script])
    BY DEF TypeOK
  <1> DEFINE s == Scripts[script]
  <1>2. /\ Certifies(Doubled(script), s, Guide(script)) /\ s \in Seq(Steps)
    BY <1>1, Guided
  <1>3. pc \in 1 .. Len(s) /\ Len(s) \in Nat
    BY <1>1, <1>2
  <1>4. s[pc] \in Steps
    BY <1>2, <1>3
  <1> HIDE DEF s
  <1>5. /\ Guide(script)[pc] \in Facts
        /\ Fits(Doubled(script), s[pc], Guide(script)[pc], Guide(script)[pc + 1])
        /\ s[pc].do \in Branches => pc + 1 + s[pc].skip \in 1 .. Len(s) + 1
    BY <1>2, <1>3 DEF Certifies
  <1> QED BY <1>2, <1>3, <1>4, <1>5 DEF Step, KnownNow, Fits, s

(* What is known after a step that is not skipped.                         *)
LEMMA MoveKnown ==
    ASSUME TypeOK, status = "running", script' = script, pc' = pc + 1
    PROVE  KnownNow' \in Facts /\ Weaker(After(Doubled(script), Step, KnownNow), KnownNow')
  <1> DEFINE s == Scripts[script]
  <1>1. script \in DOMAIN Scripts /\ pc \in 1 .. Len(s) /\ Len(s) \in Nat
    BY StepKnown DEF TypeOK
  <1>2. Certifies(Doubled(script), s, Guide(script))
    BY <1>1, Guided
  <1> HIDE DEF s
  <1>3. /\ Guide(script)[pc + 1] \in Facts
        /\ Fits(Doubled(script), s[pc], Guide(script)[pc], Guide(script)[pc + 1])
    BY <1>1, <1>2 DEF Certifies
  <1>4. KnownNow' = Guide(script)[pc + 1]
    BY DEF KnownNow
  <1> QED BY <1>3, <1>4 DEF Step, KnownNow, Fits, s

(* What is known after a body that is skipped.                             *)
LEMMA SkipKnown ==
    ASSUME TypeOK, status = "running", Step.do \in Branches,
           script' = script, pc' = pc + 1 + Step.skip
    PROVE  KnownNow' \in Facts /\ Weaker(Skipping(Step, KnownNow), KnownNow')
  <1> DEFINE s == Scripts[script]
  <1>1. script \in DOMAIN Scripts /\ pc \in 1 .. Len(s) /\ Len(s) \in Nat
        /\ s[pc].do \in Branches
    BY StepKnown DEF TypeOK, Step
  <1>2. Certifies(Doubled(script), s, Guide(script))
    BY <1>1, Guided
  <1> HIDE DEF s
  <1>3. /\ pc + 1 + s[pc].skip \in 1 .. Len(s) + 1
        /\ Guide(script)[pc + 1 + s[pc].skip] \in Facts
        /\ Jumps(s[pc], Guide(script)[pc], Guide(script)[pc + 1 + s[pc].skip])
    BY <1>1, <1>2 DEF Certifies
  <1>4. KnownNow' = Guide(script)[pc + 1 + s[pc].skip]
    BY DEF KnownNow, Step, s
  <1> QED BY <1>3, <1>4 DEF Step, KnownNow, Jumps, s

(* While a wait goes on, the same is known.                                *)
LEMMA StayKnown ==
    ASSUME script' = script, pc' = pc PROVE KnownNow' = KnownNow /\ Step' = Step
  BY DEF KnownNow, Step

(* Which commands may be doubled.                                          *)
LEMMA DoubledIs ==
    /\ script \notin Hasty => 12 \notin Doubled(script)
    /\ script \notin Hasty \cup Twice => Doubled(script) = {}
  BY DEF Doubled, Twofold

-----------------------------------------------------------------------------
(* The fields of the steps.                                                *)
LEMMA StepFields ==
    ASSUME NEW k \in Steps
    PROVE  /\ k.do \in {"ask", "hear", "gather", "maystop", "await", "ever", "need",
                        "stop", "deal", "ifgot", "ifnot", "maybe"}
           /\ k.do = "ask" => k.cmd \in Asks
           /\ k.do \in {"ever", "need", "stop", "ifgot", "ifnot"} => k.cmd \in Cmds
           /\ k.do = "await" => k.cmd \in Cmds \cup {AnyCmd}
           /\ k.do = "deal" => k.cmd = 19
           /\ k.do \in Branches => k.skip \in Nat
  BY DEF Steps, Branches

(* What the server sends in answer.                                        *)
LEMMA AnswersAre ==
    ASSUME NEW c \in Asks, NEW n \in Nat, NEW sent \in Answers(c, n)
    PROVE  /\ sent \subseteq Messages /\ IsFiniteSet(sent) /\ sent # {}
           /\ \A m \in sent : /\ m.cmd = AnsweredAs(c) /\ m.req = c /\ m.of = n
                              /\ m.kind = "answer" <=> c # 12
           /\ c = 12 => \E m \in sent : m.kind = "final"
  <1> DEFINE message(kind) == [cmd |-> AnsweredAs(c), req |-> c, of |-> n, kind |-> kind]
  <1>1. ASSUME NEW kind \in Kinds
        PROVE  /\ message(kind) \in Messages /\ message(kind).cmd = AnsweredAs(c)
               /\ message(kind).req = c /\ message(kind).of = n /\ message(kind).kind = kind
    BY AnsweredIn DEF Messages, Asks
  <1>2. sent \in (IF c = 12 THEN {{message("ack"), message("final")}, {message("final")}}
                  ELSE {{message("answer")}})
    BY DEF Answers
  <1>3. "ack" \in Kinds /\ "final" \in Kinds /\ "answer" \in Kinds
    BY DEF Kinds
  <1> HIDE DEF message
  <1>4. IsFiniteSet({message("final")}) /\ IsFiniteSet({message("answer")})
    BY FS_Singleton
  <1>5. IsFiniteSet({message("ack"), message("final")})
    <2>1. IsFiniteSet({message("final")} \cup {message("ack")})
      BY <1>4, FS_AddElement
    <2>2. {message("ack"), message("final")} = {message("final")} \cup {message("ack")}
      OBVIOUS
    <2> QED BY <2>1, <2>2
  <1> QED BY <1>1, <1>2, <1>3, <1>4, <1>5

(* A conversation starts at the first of at least one step.                *)
LEMMA TypesInit == Init => TypeOK
  <1> SUFFICES ASSUME Init PROVE TypeOK
    OBVIOUS
  <1>1. script \in DOMAIN Scripts
    BY DEF Init
  <1>2. Scripts[script] \in Seq(Steps) /\ Len(Scripts[script]) > 0
    BY <1>1, Guided
  <1>3. Len(Scripts[script]) \in Nat /\ 1 <= Len(Scripts[script])
    BY <1>2
  <1>4. pc \in 1 .. Len(Scripts[script]) + 1 /\ pc <= Len(Scripts[script])
    <2> DEFINE n == Len(Scripts[script])
    <2>1. n \in Nat /\ 1 <= n /\ pc = 1
      BY <1>3 DEF Init
    <2> HIDE DEF n
    <2>2. pc \in 1 .. n + 1 /\ pc <= n
      BY <2>1
    <2> QED BY <2>2 DEF n
  <1>5. 0 \in 0 .. MaxFaults
    BY SessionAssumption
  <1> QED BY <1>1, <1>4, <1>5 DEF Init, TypeOK

(* The place in the script, and whether main goes on, after a step.        *)
Walk ==
    /\ script' = script /\ pc' \in 1 .. Len(Scripts[script]) + 1
    /\ status' \in {"running", "done", "raised"}
    /\ status' = "running" => pc' <= Len(Scripts[script])

(* Each way to go on stays within the script.                              *)
LEMMA Walks ==
    ASSUME TypeOK, status = "running", script' = script
    PROVE  /\ Go(0) => Walk
           /\ Step.do \in Branches => (Go(Step.skip) => Walk)
           /\ UNCHANGED pc /\ status' \in {"done", "raised"} => Walk
           /\ UNCHANGED <<pc, status>> => Walk
  <1> DEFINE n == Len(Scripts[script])
  <1>1. n \in Nat /\ pc \in 1 .. n
    BY StepKnown
  <1>2. Step.do \in Branches => Step.skip \in Nat /\ pc + 1 + Step.skip \in 1 .. n + 1
    BY StepKnown, StepFields
  <1>3. Go(0) => pc' = pc + 1 /\ status' = IF pc' > n THEN "done" ELSE "running"
    <2>1. pc + 1 + 0 = pc + 1
      BY <1>1
    <2> QED BY <2>1 DEF Go
  <1>4. Go(Step.skip) => /\ pc' = pc + 1 + Step.skip
                         /\ status' = IF pc' > n THEN "done" ELSE "running"
    BY DEF Go
  <1> HIDE DEF n
  <1>5. Go(0) => Walk
    <2>1. ASSUME Go(0) PROVE pc' \in 1 .. n + 1 /\ (status' = "running" => pc' <= n)
      BY <2>1, <1>1, <1>3
    <2> QED BY <2>1, <1>3 DEF Walk, n
  <1>6. Step.do \in Branches => (Go(Step.skip) => Walk)
    <2>1. ASSUME Step.do \in Branches, Go(Step.skip)
          PROVE  pc' \in 1 .. n + 1 /\ (status' = "running" => pc' <= n)
      BY <2>1, <1>1, <1>2, <1>4
    <2> QED BY <2>1, <1>4 DEF Walk, n
  <1>7. pc \in 1 .. n + 1 /\ pc <= n
    BY <1>1
  <1> QED BY <1>5, <1>6, <1>7 DEF Walk, n

(* A step that does so keeps the types, if what it reads has its type.     *)
LEMMA WalkTypes ==
    ASSUME TypeOK, Walk, asks' \in [Cmds -> Nat], owed' \subseteq Messages,
           got' \subseteq Cmds, stray' \in BOOLEAN, faults' \in 0 .. MaxFaults
    PROVE  TypeOK'
  BY DEF Walk, TypeOK

(* Faults only become more.                                                *)
LEMMA FaultBound ==
    ASSUME TypeOK, Fault \/ UNCHANGED faults
    PROVE  faults' \in 0 .. MaxFaults /\ faults' >= faults /\ (Fault => faults' > 0)
  BY SessionAssumption DEF TypeOK, Fault

(* What is learnt from a message has its type.                             *)
LEMMA LearnTypes ==
    ASSUME TypeOK, NEW m \in owed, Learn(m)
    PROVE  got' \subseteq Cmds /\ stray' \in BOOLEAN
  BY DEF TypeOK, Learn, Messages

(* What a read does.                                                       *)
LEMMA ReadFacts ==
    ASSUME NEW m, Read(m)
    PROVE  /\ status = "running" /\ Step.do \in Waits /\ m \in owed
           /\ m.kind = "final" => ~\E a \in owed : a.kind = "ack" /\ a.of = m.of
           /\ owed' = owed \ {m} /\ UNCHANGED <<script, asks, faults>>
  BY DEF Read, At, Readable

(* What sending a request does.                                            *)
LEMMA SendFacts ==
    ASSUME TypeOK, Send
    PROVE  /\ status = "running" /\ Step.do = "ask" /\ Step.cmd \in Asks
           /\ script' = script /\ stray' = stray
           /\ asks' = [asks EXCEPT ![Step.cmd] = @ + 1]
           /\ asks' \in [Cmds -> Nat] /\ asks'[Step.cmd] = asks[Step.cmd] + 1
           /\ got' = got \ {AnsweredAs(Step.cmd)}
           /\ \/ /\ \E sent \in Answers(Step.cmd, asks'[Step.cmd]) : owed' = owed \cup sent
                 /\ UNCHANGED faults
              \/ Fault /\ UNCHANGED owed
           /\ Go(0)
  <1>1. status = "running" /\ Step.do = "ask"
    BY DEF Send, At
  <1>2. Step.cmd \in Asks
    BY <1>1, StepKnown, StepFields
  <1>3. asks' = [asks EXCEPT ![Step.cmd] = @ + 1]
    BY DEF Send
  <1>4. asks' \in [Cmds -> Nat] /\ asks'[Step.cmd] = asks[Step.cmd] + 1
    BY <1>2, <1>3 DEF TypeOK, Asks
  <1> QED BY <1>1, <1>2, <1>3, <1>4 DEF Send

(* Every step keeps the types.                                             *)
LEMMA TypesNext == TypeOK /\ [Next]_vars => TypeOK'
  <1> SUFFICES ASSUME TypeOK, [Next]_vars PROVE TypeOK'
    OBVIOUS
  <1>1. /\ asks \in [Cmds -> Nat] /\ owed \subseteq Messages /\ got \subseteq Cmds
        /\ stray \in BOOLEAN /\ faults \in 0 .. MaxFaults
    BY DEF TypeOK
  <1>2. CASE Send
    <2>1. owed' \subseteq Messages
      <3>1. CASE UNCHANGED owed
        BY <1>1, <3>1
      <3>2. CASE \E sent \in Answers(Step.cmd, asks'[Step.cmd]) : owed' = owed \cup sent
        <4>1. Step.cmd \in Asks /\ asks'[Step.cmd] \in Nat
          BY <1>2, SendFacts DEF Asks
        <4> QED BY <1>1, <4>1, <3>2, AnswersAre
      <3> QED BY <1>2, <3>1, <3>2, SendFacts
    <2>2. Walk
      BY <1>2, SendFacts, Walks
    <2>3. faults' \in 0 .. MaxFaults
      BY <1>2, SendFacts, FaultBound
    <2> QED BY <1>1, <1>2, <2>1, <2>2, <2>3, SendFacts, WalkTypes
  <1>3. CASE Take
    <2>1. PICK m : Read(m) /\ Learn(m) /\ Go(0)
      BY <1>3 DEF Take
    <2>2. Walk
      BY <2>1, ReadFacts, Walks
    <2> QED BY <1>1, <2>1, <2>2, ReadFacts, LearnTypes, WalkTypes
  <1>4. CASE Keep
    <2>1. PICK m : Read(m) /\ Learn(m) /\ UNCHANGED <<pc, status>>
      BY <1>4 DEF Keep
    <2>2. Walk
      BY <2>1, ReadFacts, Walks
    <2> QED BY <1>1, <2>1, <2>2, ReadFacts, LearnTypes, WalkTypes
  <1>5. CASE Drop
    <2>1. PICK m : Read(m)
      BY <1>5 DEF Drop
    <2>2. UNCHANGED <<got, stray, pc, status>>
      BY <1>5 DEF Drop
    <2>3. Walk
      BY <2>1, <2>2, ReadFacts, Walks
    <2> QED BY <1>1, <2>1, <2>2, <2>3, ReadFacts, WalkTypes
  <1>6. CASE GiveUp
    <2>1. /\ status = "running" /\ UNCHANGED <<script, asks, owed, got, stray>>
          /\ Fault \/ UNCHANGED faults
          /\ (status' = "raised" /\ UNCHANGED pc) \/ Go(0)
      BY <1>6 DEF GiveUp, At
    <2>2. Walk
      BY <2>1, Walks
    <2> QED BY <1>1, <2>1, <2>2, FaultBound, WalkTypes
  <1>7. CASE Check
    <2>1. /\ status = "running" /\ UNCHANGED <<script, asks, owed, got, stray, faults>>
          /\ Go(0) \/ (UNCHANGED pc /\ status' \in {"done", "raised"})
      BY <1>7 DEF Check, At, Quit
    <2>2. Walk
      BY <2>1, Walks
    <2> QED BY <1>1, <2>1, <2>2, WalkTypes
  <1>8. CASE Branch
    <2>1. /\ status = "running" /\ UNCHANGED <<script, asks, owed, got, stray, faults>>
          /\ Step.do \in Branches /\ (Go(0) \/ Go(Step.skip))
      BY <1>8 DEF Branch, At, Branches
    <2>2. Walk
      BY <2>1, Walks
    <2> QED BY <1>1, <2>1, <2>2, WalkTypes
  <1>9. CASE Choose
    <2>1. /\ status = "running" /\ UNCHANGED <<script, asks, owed, got, stray, faults>>
          /\ Step.do \in Branches /\ (Go(0) \/ Go(Step.skip))
      BY <1>9 DEF Choose, At, Branches
    <2>2. Walk
      BY <2>1, Walks
    <2> QED BY <1>1, <2>1, <2>2, WalkTypes
  <1>10. CASE Leave
    <2>1. /\ status = "running" /\ UNCHANGED <<script, asks, owed, got, stray, faults>>
          /\ Go(0) \/ (UNCHANGED pc /\ status' \in {"done", "raised"})
      BY <1>10 DEF Leave, At, Quit
    <2>2. Walk
      BY <2>1, Walks
    <2> QED BY <1>1, <2>1, <2>2, WalkTypes
  <1>11. CASE UNCHANGED vars
    BY <1>11 DEF vars, TypeOK
  <1> QED BY <1>2, <1>3, <1>4, <1>5, <1>6, <1>7, <1>8, <1>9, <1>10, <1>11 DEF Next

(* A script never leaves its steps: no branch skips past the end of main,  *)
(* and main has ended when no step is left.                                *)
THEOREM SessionTypes == Spec => []TypeOK
  BY TypesInit, TypesNext, PTL DEF Spec

-----------------------------------------------------------------------------
(* The parts of the invariant.  Every message answers a request that was   *)
(* sent.                                                                   *)
Genuine ==
    \A m \in owed : /\ m.cmd = AnsweredAs(m.req) /\ m.req \in Asks
                    /\ m.of <= asks[m.req]
                    /\ m.kind = "answer" <=> m.req # 12

(* An acknowledgement that is unread is followed by the result.            *)
Acknowledged ==
    \A a \in owed : a.kind = "ack" => \E m \in owed : m.kind = "final" /\ m.of = a.of

(* Without faults: only open requests have answers unread, what is held    *)
(* has been received, and what is due is on its way, or has been gathered. *)
OnlyOpen == faults = 0 => \A m \in owed : m.req \in KnownNow.open

HasHeld == faults = 0 => KnownNow.held \subseteq got

Coming ==
    faults = 0 /\ status = "running" =>
        \A c \in KnownNow.due :
            \/ \E m \in owed : m.cmd = c
            \/ Step.do = "gather" /\ c \in got

(* Without faults, only answers to the latest request of their command are *)
(* unread, but for the doubled ones.                                       *)
Newest ==
    faults = 0 =>
        \A m \in owed : m.req \notin Doubled(script) => m.of = asks[m.req]

(* The results unread, and those of earlier trades.                        *)
Results == {m \in owed : m.kind = "final"}
Old == {m \in owed : m.kind = "final" /\ m.of < asks[12]}

(* With faults: of earlier trades no more results are unread than there    *)
(* were faults, and as long as no trade is open, of all trades.            *)
Behind ==
    script \notin Hasty =>
        /\ Cardinality(Old) <= faults
        /\ 12 \notin KnownNow.open => Cardinality(Results) <= faults

(* Why main has ended.                                                     *)
Ended ==
    /\ status = "raised" => faults > 0
    /\ status = "done" /\ script \notin Hasty => 12 \notin KnownNow.open

(* The inductive invariant.                                                *)
Sound ==
    /\ TypeOK /\ IsFiniteSet(owed) /\ Genuine /\ Acknowledged /\ OnlyOpen /\ HasHeld
    /\ Coming /\ Newest /\ OwnAnswers /\ Behind /\ Ended

(* An answer's command names the command of the request.                   *)
LEMMA Commands ==
    ASSUME NEW r \in Asks, NEW s \in Asks, AnsweredAs(r) = AnsweredAs(s)
    PROVE  r = s
  BY DEF Asks, Cmds, AnsweredAs

(* Trade events answer trades.                                             *)
LEMMA TradeEvents == AnsweredAs(12) = 19 /\ \A r \in Asks : AnsweredAs(r) = 19 => r = 12
  BY DEF Asks, Cmds, AnsweredAs

(* The types, for a message at hand; two with the same fields are one.     *)
LEMMA Typed ==
    ASSUME TypeOK
    PROVE  /\ asks \in [Cmds -> Nat] /\ faults \in Nat
           /\ \A m \in owed : /\ m \in Messages /\ m.cmd \in Cmds /\ m.req \in Cmds
                              /\ m.of \in Nat /\ m.kind \in {"answer", "ack", "final"}
           /\ \A m \in owed : \A n \in owed :
                 m.cmd = n.cmd /\ m.req = n.req /\ m.of = n.of /\ m.kind = n.kind => m = n
  BY SessionAssumption DEF TypeOK, Messages, Kinds

(* What a step leaves known, kind by kind.                                 *)
LEMMA AfterMeans ==
    ASSUME NEW d, NEW k, NEW f, NEW g, Weaker(After(d, k, f), g)
    PROVE  /\ k.do = "ask" => /\ f.open \cup {k.cmd} \subseteq g.open
                              /\ g.due \subseteq f.due \cup {AnsweredAs(k.cmd)}
                              /\ g.held \subseteq f.held \ {AnsweredAs(k.cmd)}
           /\ k.do = "hear" => /\ f.open \subseteq g.open /\ g.due = {}
                               /\ g.held \subseteq f.held
           /\ k.do \in {"await", "ever"} =>
                 /\ \A r \in f.open : r \in d \/ r = 12 \/ AnsweredAs(r) # k.cmd => r \in g.open
                 /\ g.due = {} /\ g.held \subseteq f.held \cup f.due
           /\ k.do = "deal" =>
                 /\ \A r \in f.open : r \in d \/ r # 12 => r \in g.open
                 /\ g.due = {} /\ g.held \subseteq f.held \cup f.due
           /\ k.do = "gather" => g.due = {} /\ g.held \subseteq f.held \cup f.due
           /\ k.do \in {"need", "stop", "ifgot"} =>
                 /\ f.open \subseteq g.open /\ g.due \subseteq f.due
                 /\ g.held \subseteq f.held \cup {k.cmd}
           /\ k.do \in {"ifnot", "maybe", "maystop"} => Weaker(f, g)
  <1>1. k.do = "ask" => /\ f.open \cup {k.cmd} \subseteq g.open
                        /\ g.due \subseteq f.due \cup {AnsweredAs(k.cmd)}
                        /\ g.held \subseteq f.held \ {AnsweredAs(k.cmd)}
    BY DEF After, Weaker, Known
  <1>2. k.do = "hear" => /\ f.open \subseteq g.open /\ g.due = {}
                         /\ g.held \subseteq f.held
    BY DEF After, Weaker, Known
  <1>3. k.do \in {"await", "ever"} =>
           /\ \A r \in f.open : r \in d \/ r = 12 \/ AnsweredAs(r) # k.cmd => r \in g.open
           /\ g.due = {} /\ g.held \subseteq f.held \cup f.due
    BY DEF After, Weaker, Known
  <1>4. k.do = "deal" =>
           /\ \A r \in f.open : r \in d \/ r # 12 => r \in g.open
           /\ g.due = {} /\ g.held \subseteq f.held \cup f.due
    BY DEF After, Weaker, Known
  <1>5. k.do = "gather" => g.due = {} /\ g.held \subseteq f.held \cup f.due
    BY DEF After, Weaker, Known
  <1>6. k.do \in {"need", "stop", "ifgot"} =>
           /\ f.open \subseteq g.open /\ g.due \subseteq f.due
           /\ g.held \subseteq f.held \cup {k.cmd}
    BY DEF After, Weaker, Known
  <1>7. k.do \in {"ifnot", "maybe", "maystop"} => Weaker(f, g)
    BY DEF After
  <1> QED BY <1>1, <1>2, <1>3, <1>4, <1>5, <1>6, <1>7

(* At most one result unread is that of the latest trade.                  *)
LEMMA LateResult ==
    ASSUME TypeOK, IsFiniteSet(owed), Genuine
    PROVE  /\ IsFiniteSet(Old) /\ IsFiniteSet(Results)
           /\ Cardinality(Old) \in Nat /\ Cardinality(Results) \in Nat
           /\ Cardinality(Results) <= Cardinality(Old) + 1
           /\ \A m \in Results : m.req = 12 /\ m.cmd = 19
  <1>1. \A m \in Results : m.req = 12 /\ m.cmd = 19 /\ m.of \in Nat /\ m.of <= asks[12]
    BY Typed, TradeEvents DEF Results, Genuine
  <1>2. /\ IsFiniteSet(Old) /\ IsFiniteSet(Results) /\ Old \subseteq Results
        /\ Cardinality(Old) \in Nat /\ Cardinality(Results) \in Nat
    BY FS_Subset, FS_CardinalityType DEF Old, Results
  <1>3. Results = Old \/ \E n : Results \subseteq Old \cup {n}
    <2>1. CASE Results \subseteq Old
      BY <2>1, <1>2
    <2>2. CASE ~(Results \subseteq Old)
      <3>1. PICK n \in Results : n \notin Old
        BY <2>2
      <3>2. asks[12] \in Nat
        BY Typed DEF Cmds
      <3>3. n.of = asks[12]
        <4>1. ~(n.of < asks[12])
          BY <3>1 DEF Old, Results
        <4> QED BY <4>1, <3>1, <3>2, <1>1
      <3>4. ASSUME NEW m \in Results, m \notin Old PROVE m = n
        <4>1. ~(m.of < asks[12])
          BY <3>4 DEF Old, Results
        <4>2. m.of = asks[12]
          BY <4>1, <3>2, <1>1
        <4> QED BY <4>2, <3>1, <3>3, <1>1, Typed DEF Results
      <3> QED BY <3>4
    <2> QED BY <2>1, <2>2
  <1>4. Cardinality(Results) <= Cardinality(Old) + 1
    <2>1. CASE Results = Old
      BY <2>1, <1>2
    <2>2. CASE \E n : Results \subseteq Old \cup {n}
      <3>1. PICK n : Results \subseteq Old \cup {n}
        BY <2>2
      <3>2. /\ IsFiniteSet(Old \cup {n})
            /\ Cardinality(Old \cup {n}) = Cardinality(Old) \/ Cardinality(Old \cup {n}) = Cardinality(Old) + 1
        BY <1>2, FS_AddElement
      <3>3. Cardinality(Results) <= Cardinality(Old \cup {n})
        BY <3>1, <3>2, FS_Subset
      <3> QED BY <3>2, <3>3, <1>2
    <2> QED BY <2>1, <2>2, <1>3
  <1> QED BY <1>1, <1>2, <1>4

(* When no step is left, no trade is open.                                 *)
LEMMA Arrives ==
    ASSUME TypeOK, TypeOK', status = "running", script' = script,
           pc' > Len(Scripts[script]), script \notin Hasty
    PROVE  12 \notin KnownNow'.open
  <1>1. script \in DOMAIN Scripts /\ Len(Scripts[script]) \in Nat
    BY StepKnown DEF TypeOK
  <1>2. pc' \in 1 .. Len(Scripts[script]) + 1
    BY DEF TypeOK
  <1>3. pc' = Len(Scripts[script]) + 1
    BY <1>1, <1>2
  <1>4. KnownNow' = Guide(script)[Len(Scripts[script]) + 1]
    BY <1>3 DEF KnownNow
  <1> QED BY <1>1, <1>4, Guided

(* A script that goes on, or comes to its end, has not failed.             *)
LEMMA GoEnds ==
    ASSUME TypeOK, TypeOK', status = "running", script' = script,
           Go(0) \/ Go(Step.skip)
    PROVE  Ended'
  <1>1. status' \in {"running", "done"} /\ (status' = "done" => pc' > Len(Scripts[script]))
    BY DEF Go
  <1>2. status' = "done" /\ script \notin Hasty => 12 \notin KnownNow'.open
    BY <1>1, Arrives
  <1> QED BY <1>1, <1>2 DEF Ended

(* A request: as none with its command is open, no answer to an earlier    *)
(* one is left that could be taken for its own, and of the results of      *)
(* trades all become those of earlier ones.                                *)
LEMMA SendSound == ASSUME Sound, Send PROVE Sound'
  <1> DEFINE c == Step.cmd  d == Doubled(script)
  <1>1. /\ TypeOK /\ IsFiniteSet(owed) /\ Genuine /\ Acknowledged /\ OnlyOpen /\ HasHeld
        /\ Coming /\ Newest /\ OwnAnswers /\ Behind /\ Ended
    BY DEF Sound
  <1>2. /\ status = "running" /\ Step.do = "ask" /\ c \in Asks /\ c \in Cmds
        /\ script' = script /\ stray' = stray
        /\ asks' \in [Cmds -> Nat] /\ asks'[c] = asks[c] + 1 /\ asks[c] \in Nat
        /\ \A r \in Cmds : r # c => asks'[r] = asks[r]
        /\ got' = got \ {AnsweredAs(c)} /\ Go(0)
    <2>1. c \in Cmds
      BY <1>1, SendFacts DEF Asks
    <2> QED BY <1>1, <2>1, SendFacts, Typed
  <1>3. pc' = pc + 1
    <2>1. pc \in Nat
      BY <1>1, <1>2, StepKnown
    <2> QED BY <1>2, <2>1 DEF Go
  <1>4. /\ KnownNow.open \cup {c} \subseteq KnownNow'.open
        /\ KnownNow'.due \subseteq KnownNow.due \cup {AnsweredAs(c)}
        /\ KnownNow'.held \subseteq KnownNow.held \ {AnsweredAs(c)}
    BY <1>1, <1>2, <1>3, MoveKnown, AfterMeans
  <1>5. c \notin KnownNow.open \/ c \in d
    BY <1>1, <1>2, StepKnown DEF Right
  <1>6. PICK sent :
           /\ owed' = owed \cup sent /\ IsFiniteSet(sent)
           /\ \A m \in sent : /\ m.cmd = AnsweredAs(c) /\ m.req = c /\ m.of = asks[c] + 1
                              /\ m.kind = "answer" <=> c # 12
           /\ \/ sent = {} /\ Fault
              \/ sent # {} /\ UNCHANGED faults
           /\ c = 12 /\ sent # {} => \E m \in sent : m.kind = "final"
    <2>1. CASE Fault /\ UNCHANGED owed
      <3>1. owed' = owed \cup {}
        BY <2>1
      <3> QED BY <2>1, <3>1, FS_EmptySet
    <2>2. CASE /\ \E sent \in Answers(c, asks'[c]) : owed' = owed \cup sent
               /\ UNCHANGED faults
      <3>1. PICK sent \in Answers(c, asks'[c]) : owed' = owed \cup sent
        BY <2>2
      <3>2. asks[c] + 1 \in Nat
        BY <1>2
      <3> QED BY <1>2, <2>2, <3>1, <3>2, AnswersAre
    <2> QED BY <1>1, <2>1, <2>2, SendFacts
  <1>7. faults' \in Nat /\ faults' >= faults /\ faults \in Nat /\ (Fault => faults' > 0)
    <2>1. Fault \/ UNCHANGED faults
      BY <1>6
    <2> QED BY <1>1, <2>1, FaultBound, Typed
  <1>8. faults' = 0 => faults = 0 /\ sent # {}
    BY <1>6, <1>7
  <1> HIDE DEF c, d
  <1>9. TypeOK'
    BY <1>1, TypesNext DEF Next
  <1>10. IsFiniteSet(owed')
    BY <1>1, <1>6, FS_Union
  <1>11. Genuine'
    <2>1. ASSUME NEW m \in owed PROVE m.of <= asks'[m.req] /\ m.req \in Asks
      BY <1>1, <1>2, Typed DEF Genuine
    <2>2. ASSUME NEW m \in sent PROVE m.of <= asks'[m.req]
      BY <1>2, <1>6
    <2> QED BY <1>1, <1>2, <1>6, <2>1, <2>2 DEF Genuine
  <1>12. Acknowledged'
    <2>1. ASSUME NEW a \in sent, a.kind = "ack"
          PROVE  \E m \in owed' : m.kind = "final" /\ m.of = a.of
      <3>1. c = 12
        BY <2>1, <1>6
      <3> QED BY <2>1, <3>1, <1>6
    <2> QED BY <1>1, <1>6, <2>1 DEF Acknowledged
  <1>13. OnlyOpen'
    BY <1>1, <1>4, <1>6, <1>8 DEF OnlyOpen
  <1>14. HasHeld'
    BY <1>1, <1>2, <1>4, <1>8 DEF HasHeld
  <1>15. Coming'
    <2>1. ASSUME faults' = 0, NEW e \in KnownNow'.due PROVE \E m \in owed' : m.cmd = e
      <3>1. CASE e \in KnownNow.due
        BY <1>1, <1>2, <1>6, <1>8, <2>1, <3>1 DEF Coming
      <3>2. CASE e = AnsweredAs(c)
        BY <1>6, <1>8, <2>1, <3>2
      <3> QED BY <1>4, <2>1, <3>1, <3>2
    <2> QED BY <2>1 DEF Coming
  <1>16. Newest'
    <2>1. ASSUME faults' = 0, NEW m \in owed, m.req \notin Doubled(script)
          PROVE  m.of = asks'[m.req]
      <3>1. m.req \in KnownNow.open /\ m.of = asks[m.req] /\ m.req \in Cmds
        BY <1>1, <1>8, <2>1, Typed DEF OnlyOpen, Newest
      <3>2. m.req # c
        BY <1>5, <2>1, <3>1 DEF d
      <3> QED BY <1>2, <3>1, <3>2
    <2> QED BY <1>2, <1>6, <2>1 DEF Newest
  <1>17. OwnAnswers'
    BY <1>1, <1>2, <1>7 DEF OwnAnswers
  <1>18. Behind'
    <2> SUFFICES ASSUME script \notin Hasty
                 PROVE  /\ Cardinality(Old') <= faults'
                        /\ 12 \notin KnownNow'.open => Cardinality(Results') <= faults'
      BY <1>2 DEF Behind
    <2>1. /\ Cardinality(Old) \in Nat /\ Cardinality(Results) \in Nat
          /\ Cardinality(Old) <= faults
          /\ 12 \notin KnownNow.open => Cardinality(Results) <= faults
      BY <1>1, LateResult DEF Behind
    <2>2. \A m \in owed : m.kind = "final" => m.of \in Nat /\ m.of <= asks[12]
      BY <1>1, Typed DEF Genuine
    <2>3. 12 \in Cmds /\ asks[12] \in Nat
      BY <1>1, Typed DEF Cmds
    <2>4. CASE c = 12
      <3>1. 12 \notin KnownNow.open
        BY <1>5, <2>4, DoubledIs DEF d
      <3>2. Old' = Results
        <4>1. \A m \in owed : m.kind = "final" => m.of < asks'[12]
          BY <1>2, <2>2, <2>3, <2>4
        <4>2. \A m \in sent : ~(m.of < asks'[12])
          BY <1>2, <1>6, <2>3, <2>4
        <4> QED BY <1>6, <4>1, <4>2 DEF Old, Results
      <3>3. 12 \in KnownNow'.open
        BY <1>4, <2>4
      <3> QED BY <1>7, <2>1, <3>1, <3>2, <3>3
    <2>5. CASE c # 12
      <3>1. Old' = Old /\ Results' = Results
        <4>1. \A m \in sent : m.kind # "final"
          BY <1>6, <2>5
        <4>2. asks'[12] = asks[12]
          BY <1>2, <2>3, <2>5
        <4> QED BY <1>6, <4>1, <4>2 DEF Old, Results
      <3>2. 12 \notin KnownNow'.open => 12 \notin KnownNow.open
        BY <1>4
      <3> QED BY <1>7, <2>1, <3>1, <3>2
    <2> QED BY <2>4, <2>5
  <1>19. Ended'
    BY <1>1, <1>2, <1>9, GoEnds
  <1> QED BY <1>9, <1>10, <1>11, <1>12, <1>13, <1>14, <1>15, <1>16, <1>17, <1>18, <1>19 DEF Sound

(* What any read keeps: an acknowledgement is read before its result, and  *)
(* a result that is read is one less.                                      *)
LEMMA ReadKeeps ==
    ASSUME Sound, NEW m, Read(m)
    PROVE  /\ IsFiniteSet(owed') /\ Genuine' /\ Acknowledged' /\ Newest'
           /\ script \notin Hasty =>
                 /\ Cardinality(Old') <= faults'
                 /\ Cardinality(Results') <= Cardinality(Results)
                 /\ m.kind = "final" => Cardinality(Results') <= faults'
  <1>1. /\ TypeOK /\ IsFiniteSet(owed) /\ Genuine /\ Acknowledged /\ Newest /\ Behind
    BY DEF Sound
  <1>2. /\ m \in owed /\ owed' = owed \ {m} /\ UNCHANGED <<script, asks, faults>>
        /\ m.kind = "final" => ~\E a \in owed : a.kind = "ack" /\ a.of = m.of
    BY ReadFacts
  <1>3. IsFiniteSet(owed')
    BY <1>1, <1>2, FS_RemoveElement
  <1>4. Genuine'
    BY <1>1, <1>2 DEF Genuine
  <1>5. Acknowledged'
    BY <1>1, <1>2 DEF Acknowledged
  <1>6. Newest'
    BY <1>1, <1>2 DEF Newest
  <1>7. ASSUME script \notin Hasty
        PROVE  /\ Cardinality(Old') <= faults'
               /\ Cardinality(Results') <= Cardinality(Results)
               /\ m.kind = "final" => Cardinality(Results') <= faults'
    <2>1. /\ IsFiniteSet(Old) /\ IsFiniteSet(Results)
          /\ Cardinality(Old) \in Nat /\ Cardinality(Results) \in Nat
          /\ Cardinality(Results) <= Cardinality(Old) + 1
          /\ Cardinality(Old) <= faults /\ faults \in Nat
      BY <1>1, <1>7, LateResult, Typed DEF Behind
    <2>2. Old' \subseteq Old /\ Results' \subseteq Results
      BY <1>2 DEF Old, Results
    <2>3. /\ Cardinality(Old') <= Cardinality(Old) /\ Cardinality(Old') \in Nat
          /\ Cardinality(Results') <= Cardinality(Results) /\ Cardinality(Results') \in Nat
      BY <2>1, <2>2, FS_Subset, FS_CardinalityType
    <2>4. ASSUME m.kind = "final" PROVE Cardinality(Results') <= faults'
      <3>1. Results' = Results \ {m} /\ m \in Results
        BY <1>2, <2>4 DEF Results
      <3>2. Cardinality(Results') = Cardinality(Results) - 1
        BY <2>1, <3>1, FS_RemoveElement
      <3> QED BY <1>2, <2>1, <3>2
    <2> QED BY <1>2, <2>1, <2>3, <2>4
  <1> QED BY <1>3, <1>4, <1>5, <1>6, <1>7

(* Without faults, what is taken answers the latest request.               *)
LEMMA LearnSound ==
    ASSUME Sound, NEW m \in owed, Learn(m), UNCHANGED <<script, asks, faults>>
    PROVE  OwnAnswers' /\ got' = got \cup {m.cmd}
  <1>1. TypeOK /\ Newest /\ OwnAnswers
    BY DEF Sound
  <1>2. ASSUME faults = 0, script \notin Hasty \cup Twice PROVE ~(m.of < asks[m.req])
    <2>1. m.of = asks[m.req] /\ m.req \in Cmds
      BY <1>1, <1>2, DoubledIs, Typed DEF Newest
    <2> QED BY <2>1, <1>1, Typed
  <1>3. faults \in Nat
    BY <1>1, Typed
  <1>4. stray' => stray \/ m.of < asks[m.req]
    BY Zenon DEF Learn
  <1>5. faults # 0 => faults > 0
    BY <1>3
  <1>6. OwnAnswers'
    BY <1>1, <1>2, <1>4, <1>5 DEF OwnAnswers
  <1> QED BY <1>6 DEF Learn

(* The message that was waited for: no other answer to its request is      *)
(* left.                                                                   *)
LEMMA TakeSound == ASSUME Sound, Take PROVE Sound'
  <1>1. PICK m \in Ending : Read(m) /\ Learn(m) /\ Go(0)
    BY DEF Take
  <1>2. /\ TypeOK /\ IsFiniteSet(owed) /\ Genuine /\ Acknowledged /\ OnlyOpen /\ HasHeld
        /\ Coming /\ Newest /\ OwnAnswers /\ Behind /\ Ended
    BY DEF Sound
  <1>3. /\ status = "running" /\ Step.do \in Waits /\ m \in owed
        /\ m.kind = "final" => ~\E a \in owed : a.kind = "ack" /\ a.of = m.of
        /\ owed' = owed \ {m} /\ script' = script /\ asks' = asks /\ faults' = faults
    BY <1>1, ReadFacts
  <1>4. /\ IsFiniteSet(owed') /\ Genuine' /\ Acknowledged' /\ Newest'
        /\ OwnAnswers' /\ got' = got \cup {m.cmd}
    BY <1>1, <1>3, ReadKeeps, LearnSound
  <1>5. TypeOK'
    BY <1>2, TypesNext DEF Next
  <1>6. Ended'
    BY <1>1, <1>2, <1>3, <1>5, GoEnds
  <1>7. pc' = pc + 1
    <2>1. pc \in Nat
      BY <1>2, <1>3, StepKnown
    <2> QED BY <1>1, <2>1 DEF Go
  <1>8. Weaker(After(Doubled(script), Step, KnownNow), KnownNow') /\ Right(Doubled(script), Step, KnownNow)
    BY <1>2, <1>3, <1>7, MoveKnown, StepKnown
  <1> DEFINE d == Doubled(script)  c == Step.cmd
  <1>9. Step.do \in {"hear", "await", "ever", "deal"}
    BY <1>1, <1>3 DEF Ending, Waits
  <1>10. /\ Step.do \in {"await", "ever"} => c \in {m.cmd, AnyCmd} /\ c \in Cmds \cup {AnyCmd}
         /\ Step.do = "deal" => m.kind = "final" /\ m.req = 12 /\ m.cmd = 19 /\ c = 19
         /\ Step \in Steps
    <2>1. Step \in Steps
      BY <1>2, <1>3, StepKnown
    <2>2. Step.do \in {"await", "ever"} => c \in {m.cmd, AnyCmd}
      BY <1>1 DEF Ending
    <2>3. Step.do = "deal" => m.kind = "final"
      BY <1>1 DEF Ending
    <2>4. m.kind = "final" => m.req = 12 /\ m.cmd = 19
      BY <1>2, <1>3, LateResult DEF Results
    <2> QED BY <2>1, <2>2, <2>3, <2>4, StepFields
  <1>11. KnownNow'.due = {}
    BY <1>8, <1>9, AfterMeans
  <1>12. KnownNow'.held \subseteq KnownNow.held \cup KnownNow.due /\ (Step.do = "hear" => KnownNow'.held \subseteq KnownNow.held)
    BY <1>8, <1>9, AfterMeans
  <1>13. KnownNow.due \subseteq Cmds
    BY <1>2, <1>3, StepKnown DEF Facts
  <1>14. OnlyOpen'
    <2> SUFFICES ASSUME faults = 0, NEW n \in owed, n # m PROVE n.req \in KnownNow'.open
      BY <1>3 DEF OnlyOpen
    <2>1. n.req \in KnownNow.open /\ m.req \in KnownNow.open /\ n.req \in Asks /\ m.req \in Asks
      BY <1>2, <1>3 DEF OnlyOpen, Genuine
    <2>2. n.req = m.req => \/ n.req \in d
                           \/ n.of = m.of /\ n.cmd = m.cmd
      BY <1>2, <1>3 DEF Newest, Genuine
    <2>3. CASE Step.do = "hear"
      BY <1>8, <2>1, <2>3, AfterMeans
    <2>4. CASE Step.do \in {"await", "ever"}
      <3>1. n.req \in d \/ n.req = 12 \/ AnsweredAs(n.req) # c
        <4> SUFFICES ASSUME n.req \notin d, n.req # 12, AnsweredAs(n.req) = c PROVE FALSE
          OBVIOUS
        <4>1. n.cmd = c /\ n.cmd \in Cmds /\ m.cmd \in Cmds
          BY <1>2, <1>3, Typed DEF Genuine
        <4>2. AnyCmd \notin Cmds
          BY DEF AnyCmd, Cmds
        <4>3. m.cmd = c
          BY <1>10, <2>4, <4>1, <4>2
        <4>4. AnsweredAs(m.req) = AnsweredAs(n.req)
          BY <1>2, <1>3, <4>1, <4>3 DEF Genuine
        <4>5. m.req = n.req
          BY <2>1, <4>4, Commands
        <4>6. m.kind = "answer" /\ n.kind = "answer"
          BY <1>2, <1>3, <4>5 DEF Genuine
        <4> QED BY <1>2, <1>3, <2>2, <4>5, <4>6, Typed
      <3> QED BY <1>8, <2>1, <2>4, <3>1, AfterMeans
    <2>5. CASE Step.do = "deal"
      <3>1. n.req \in d \/ n.req # 12
        <4> SUFFICES ASSUME n.req \notin d, n.req = 12 PROVE FALSE
          OBVIOUS
        <4>1. n.of = m.of /\ n.cmd = m.cmd /\ n.req = m.req
          BY <1>10, <2>2, <2>5
        <4>2. n.kind # "ack"
          BY <1>3, <1>10, <2>5, <4>1
        <4>3. n.kind = "final"
          BY <1>2, <4>2, Typed DEF Genuine
        <4> QED BY <1>2, <1>3, <1>10, <2>5, <4>1, <4>3, Typed
      <3> QED BY <1>8, <2>1, <2>5, <3>1, AfterMeans
    <2> QED BY <1>9, <2>3, <2>4, <2>5
  <1>15. HasHeld'
    <2> SUFFICES ASSUME faults = 0, NEW e \in KnownNow'.held PROVE e \in got \cup {m.cmd}
      BY <1>3, <1>4 DEF HasHeld
    <2>1. CASE e \in KnownNow.held
      BY <1>2, <2>1 DEF HasHeld
    <2>2. CASE e \in KnownNow.due /\ Step.do # "hear"
      <3>1. e = c
        BY <1>8, <1>9, <2>2 DEF Right
      <3>2. e \in Cmds /\ AnyCmd \notin Cmds
        BY <1>13, <2>2 DEF AnyCmd, Cmds
      <3> QED BY <1>9, <1>10, <2>2, <3>1, <3>2
    <2> QED BY <1>12, <2>1, <2>2
  <1>16. Coming'
    BY <1>11 DEF Coming
  <1>17. Behind'
    <2> SUFFICES ASSUME script \notin Hasty
                 PROVE  /\ Cardinality(Old') <= faults'
                        /\ 12 \notin KnownNow'.open => Cardinality(Results') <= faults'
      BY <1>3 DEF Behind
    <2>1. /\ Cardinality(Old') <= faults'
          /\ Cardinality(Results') <= Cardinality(Results)
          /\ m.kind = "final" => Cardinality(Results') <= faults'
      BY <1>1, ReadKeeps
    <2>2. /\ Cardinality(Results') \in Nat /\ Cardinality(Results) \in Nat /\ faults \in Nat
      <3>1. IsFiniteSet(Results')
        BY <1>4, FS_Subset DEF Results
      <3> QED BY <1>2, <3>1, LateResult, FS_CardinalityType, Typed
    <2>3. ASSUME Step.do # "deal", 12 \notin KnownNow'.open
          PROVE  12 \notin KnownNow.open
      BY <1>8, <1>9, <2>3, AfterMeans
    <2>4. 12 \notin KnownNow.open => Cardinality(Results) <= faults
      BY <1>2 DEF Behind
    <2>5. CASE Step.do = "deal"
      BY <1>10, <2>1, <2>5
    <2>6. CASE Step.do # "deal"
      BY <1>3, <2>1, <2>2, <2>3, <2>4, <2>6
    <2> QED BY <2>5, <2>6
  <1> QED BY <1>4, <1>5, <1>6, <1>14, <1>15, <1>16, <1>17 DEF Sound

(* A message that is kept: the wait goes on, and its result is still to    *)
(* come, or the time has not passed.                                       *)
LEMMA KeepSound == ASSUME Sound, Keep PROVE Sound'
  <1>1. PICK m \in Kept : Read(m) /\ Learn(m) /\ UNCHANGED <<pc, status>>
    BY DEF Keep
  <1>2. /\ TypeOK /\ IsFiniteSet(owed) /\ Genuine /\ Acknowledged /\ OnlyOpen /\ HasHeld
        /\ Coming /\ Newest /\ OwnAnswers /\ Behind /\ Ended
    BY DEF Sound
  <1>3. /\ status = "running" /\ Step.do \in Waits /\ m \in owed
        /\ owed' = owed \ {m} /\ script' = script /\ asks' = asks /\ faults' = faults
        /\ pc' = pc /\ status' = status
    BY <1>1, ReadFacts
  <1>4. /\ IsFiniteSet(owed') /\ Genuine' /\ Acknowledged' /\ Newest'
        /\ OwnAnswers' /\ got' = got \cup {m.cmd}
    BY <1>1, <1>3, ReadKeeps, LearnSound
  <1>5. TypeOK'
    BY <1>2, TypesNext DEF Next
  <1>6. KnownNow' = KnownNow /\ Step' = Step
    BY <1>3, StayKnown
  <1>7. Step.do = "gather" \/ (Step.do = "deal" /\ m.kind = "ack")
    BY <1>1, <1>3 DEF Kept, Waits
  <1>8. OnlyOpen' /\ HasHeld' /\ Ended'
    BY <1>2, <1>3, <1>4, <1>6 DEF OnlyOpen, HasHeld, Ended
  <1>9. Coming'
    <2> SUFFICES ASSUME faults = 0, NEW e \in KnownNow.due
                 PROVE  \/ \E n \in owed' : n.cmd = e
                        \/ Step.do = "gather" /\ e \in got'
      BY <1>3, <1>6 DEF Coming
    <2>1. (\E n \in owed : n.cmd = e) \/ (Step.do = "gather" /\ e \in got)
      BY <1>2, <1>3 DEF Coming
    <2>2. CASE Step.do = "gather"
      BY <1>3, <1>4, <2>1, <2>2
    <2>3. CASE Step.do = "deal" /\ m.kind = "ack"
      <3>1. m.cmd = 19
        BY <1>2, <1>3, <2>3, TradeEvents DEF Genuine
      <3>2. PICK n \in owed : n.kind = "final" /\ n.cmd = 19
        BY <1>2, <1>3, <2>3, LateResult DEF Acknowledged, Results
      <3>3. n \in owed'
        BY <1>3, <2>3, <3>2
      <3> QED BY <1>3, <2>1, <2>3, <3>1, <3>2, <3>3
    <2> QED BY <1>7, <2>2, <2>3
  <1>10. Behind'
    <2> SUFFICES ASSUME script \notin Hasty
                 PROVE  /\ Cardinality(Old') <= faults'
                        /\ 12 \notin KnownNow.open => Cardinality(Results') <= faults'
      BY <1>3, <1>6 DEF Behind
    <2>1. /\ Cardinality(Old') <= faults'
          /\ Cardinality(Results') <= Cardinality(Results)
      BY <1>1, ReadKeeps
    <2>2. /\ Cardinality(Results') \in Nat /\ Cardinality(Results) \in Nat /\ faults \in Nat
      <3>1. IsFiniteSet(Results')
        BY <1>4, FS_Subset DEF Results
      <3> QED BY <1>2, <3>1, LateResult, FS_CardinalityType, Typed
    <2>3. 12 \notin KnownNow.open => Cardinality(Results) <= faults
      BY <1>2 DEF Behind
    <2> QED BY <1>3, <2>1, <2>2, <2>3
  <1> QED BY <1>4, <1>5, <1>8, <1>9, <1>10 DEF Sound

(* A message that is dropped was not due.                                  *)
LEMMA DropSound == ASSUME Sound, Drop PROVE Sound'
  <1>1. PICK m \in owed \ (Ending \cup Kept) : Read(m)
    BY DEF Drop
  <1>2. /\ TypeOK /\ IsFiniteSet(owed) /\ Genuine /\ Acknowledged /\ OnlyOpen /\ HasHeld
        /\ Coming /\ Newest /\ OwnAnswers /\ Behind /\ Ended
    BY DEF Sound
  <1>3. /\ status = "running" /\ Step.do \in Waits /\ m \in owed
        /\ owed' = owed \ {m} /\ script' = script /\ asks' = asks /\ faults' = faults
        /\ pc' = pc /\ status' = status /\ got' = got /\ stray' = stray
    BY <1>1, ReadFacts DEF Drop
  <1>4. IsFiniteSet(owed') /\ Genuine' /\ Acknowledged' /\ Newest'
    BY <1>1, ReadKeeps
  <1>5. TypeOK'
    BY <1>2, TypesNext DEF Next
  <1>6. KnownNow' = KnownNow /\ Step' = Step
    BY <1>3, StayKnown
  <1>7. OnlyOpen' /\ HasHeld' /\ Ended' /\ OwnAnswers'
    BY <1>2, <1>3, <1>6 DEF OnlyOpen, HasHeld, Ended, OwnAnswers
  <1>8. Coming'
    <2> SUFFICES ASSUME faults = 0, NEW e \in KnownNow.due
                 PROVE  \E n \in owed' : n.cmd = e
      BY <1>3, <1>6 DEF Coming
    <2>1. Step.do \in {"await", "ever", "deal"}
      BY <1>1, <1>3 DEF Ending, Kept, Waits
    <2>2. PICK n \in owed : n.cmd = e
      BY <1>2, <1>3, <2>1 DEF Coming
    <2>3. e = Step.cmd
      BY <1>2, <1>3, <2>1, StepKnown DEF Right
    <2>4. CASE Step.do \in {"await", "ever"}
      <3>1. m.cmd # Step.cmd
        BY <1>1, <1>3, <2>4 DEF Ending
      <3> QED BY <1>3, <2>2, <2>3, <3>1
    <2>5. CASE Step.do = "deal"
      <3>1. e = 19
        BY <1>2, <1>3, <2>3, <2>5, StepKnown, StepFields
      <3>2. n.req = 12 /\ n.kind \in {"ack", "final"}
        BY <1>2, <2>2, <3>1, TradeEvents, Typed DEF Genuine
      <3>3. PICK r \in owed : r.kind = "final" /\ r.cmd = 19
        BY <1>2, <2>2, <3>1, <3>2, LateResult DEF Acknowledged, Results
      <3>4. m.kind # "final"
        BY <1>1, <1>3, <2>5 DEF Ending
      <3> QED BY <1>3, <3>1, <3>3, <3>4
    <2> QED BY <2>1, <2>4, <2>5
  <1>9. Behind'
    <2> SUFFICES ASSUME script \notin Hasty
                 PROVE  /\ Cardinality(Old') <= faults'
                        /\ 12 \notin KnownNow.open => Cardinality(Results') <= faults'
      BY <1>3, <1>6 DEF Behind
    <2>1. /\ Cardinality(Old') <= faults'
          /\ Cardinality(Results') <= Cardinality(Results)
      BY <1>1, ReadKeeps
    <2>2. /\ Cardinality(Results') \in Nat /\ Cardinality(Results) \in Nat /\ faults \in Nat
      <3>1. IsFiniteSet(Results')
        BY <1>4, FS_Subset DEF Results
      <3> QED BY <1>2, <3>1, LateResult, FS_CardinalityType, Typed
    <2>3. 12 \notin KnownNow.open => Cardinality(Results) <= faults
      BY <1>2 DEF Behind
    <2> QED BY <1>3, <2>1, <2>2, <2>3
  <1> QED BY <1>4, <1>5, <1>7, <1>8, <1>9 DEF Sound

(* Without faults, what is due has come before the deadline: a wait that   *)
(* ends with nothing had nothing to wait for, and a login always hears     *)
(* something.                                                              *)
LEMMA Missed ==
    ASSUME Sound, status = "running", Step.do \in Waits, faults = 0
    PROVE  /\ Step.do = "hear" => Ending # {}
           /\ Ending \cup Kept = {} =>
                 /\ Step.do = "gather" => owed = {} /\ KnownNow.due \subseteq got
                 /\ Step.do # "gather" => KnownNow.due = {}
                 /\ Step.do = "deal" => \A n \in owed : n.req # 12
                 /\ Step.do \in {"await", "ever"} => \A n \in owed : n.cmd # Step.cmd
  <1>1. TypeOK /\ Genuine /\ Acknowledged /\ Coming /\ Right(Doubled(script), Step, KnownNow)
        /\ Step \in Steps
    BY StepKnown DEF Sound
  <1>2. Step.do = "hear" => Ending # {}
    <2> SUFFICES ASSUME Step.do = "hear" PROVE Ending # {}
      OBVIOUS
    <2>1. PICK e \in KnownNow.due : TRUE
      BY <1>1 DEF Right
    <2>2. PICK n \in owed : n.cmd = e
      BY <1>1, <2>1 DEF Coming
    <2> QED BY <2>2 DEF Ending
  <1>3. ASSUME Ending \cup Kept = {}, Step.do = "gather"
        PROVE  owed = {} /\ KnownNow.due \subseteq got
    <2>1. owed = {}
      BY <1>3 DEF Kept
    <2> QED BY <1>1, <2>1 DEF Coming
  <1>4. ASSUME Ending \cup Kept = {}, Step.do \in {"await", "ever"}
        PROVE  KnownNow.due = {} /\ \A n \in owed : n.cmd # Step.cmd
    <2>1. \A n \in owed : n.cmd # Step.cmd
      BY <1>4 DEF Ending
    <2>2. \A e \in KnownNow.due : e = Step.cmd
      BY <1>1, <1>4 DEF Right
    <2>3. \A e \in KnownNow.due : \E n \in owed : n.cmd = e
      BY <1>1, <1>4 DEF Coming
    <2> QED BY <2>1, <2>2, <2>3
  <1>5. ASSUME Ending \cup Kept = {}, Step.do = "deal"
        PROVE  KnownNow.due = {} /\ \A n \in owed : n.req # 12
    <2>1. \A n \in owed : n.kind # "final"
      BY <1>5 DEF Ending
    <2>2. \A n \in owed : n.kind # "ack"
      BY <1>1, <2>1 DEF Acknowledged
    <2>3. \A n \in owed : n.req # 12
      BY <1>1, <2>1, <2>2, Typed DEF Genuine
    <2>4. \A n \in owed : n.cmd # 19
      BY <1>1, <2>3, TradeEvents DEF Genuine
    <2>5. \A e \in KnownNow.due : e = 19
      BY <1>1, <1>5, StepFields DEF Right
    <2>6. \A e \in KnownNow.due : \E n \in owed : n.cmd = e
      BY <1>1, <1>5 DEF Coming
    <2> QED BY <2>3, <2>4, <2>5, <2>6
  <1> QED BY <1>2, <1>3, <1>4, <1>5 DEF Waits

(* The deadline passes.                                                    *)
LEMMA GiveUpSound == ASSUME Sound, GiveUp PROVE Sound'
  <1>1. /\ TypeOK /\ IsFiniteSet(owed) /\ Genuine /\ Acknowledged /\ OnlyOpen /\ HasHeld
        /\ Coming /\ Newest /\ OwnAnswers /\ Behind /\ Ended
    BY DEF Sound
  <1>2. /\ status = "running" /\ Step.do \in Waits
        /\ IF Ending \cup Kept = {} THEN UNCHANGED faults ELSE Fault
        /\ Step.do = "hear" => status' = "raised" /\ pc' = pc
        /\ Step.do # "hear" => Go(0)
        /\ script' = script /\ asks' = asks /\ owed' = owed /\ got' = got /\ stray' = stray
    BY DEF GiveUp, At
  <1>3. /\ faults \in Nat /\ faults' \in Nat /\ faults' >= faults
        /\ Ending \cup Kept # {} => faults' = faults + 1
        /\ faults' = 0 => faults = 0 /\ Ending \cup Kept = {}
    <2>1. Fault \/ UNCHANGED faults
      BY <1>2
    <2>2. faults \in Nat
      BY <1>1, Typed
    <2> QED BY <1>2, <2>1, <2>2 DEF Fault
  <1>4. TypeOK'
    BY <1>1, TypesNext DEF Next
  <1>5. /\ IsFiniteSet(owed') /\ Genuine' /\ Acknowledged' /\ OwnAnswers'
    BY <1>1, <1>2, <1>3 DEF Genuine, Acknowledged, OwnAnswers
  <1>6. Newest'
    BY <1>1, <1>2, <1>3 DEF Newest
  <1>7. /\ Old' = Old /\ Results' = Results
        /\ Cardinality(Old) \in Nat /\ Cardinality(Results) \in Nat
        /\ Cardinality(Results) <= Cardinality(Old) + 1
    BY <1>1, <1>2, LateResult DEF Old, Results
  <1>8. CASE Step.do = "hear"
    <2>1. KnownNow' = KnownNow
      BY <1>2, <1>8, StayKnown
    <2>2. faults' > 0
      <3>1. CASE faults = 0
        <4>1. Ending # {}
          BY <1>2, <3>1, <1>8, Missed
        <4> QED BY <1>3, <4>1
      <3>2. CASE faults # 0
        BY <1>3, <3>2
      <3> QED BY <3>1, <3>2
    <2>3. OnlyOpen' /\ HasHeld' /\ Coming' /\ Ended'
      BY <1>2, <1>8, <2>2 DEF OnlyOpen, HasHeld, Coming, Ended
    <2>4. Behind'
      BY <1>1, <1>2, <1>3, <1>7, <2>1 DEF Behind
    <2> QED BY <1>4, <1>5, <1>6, <2>3, <2>4 DEF Sound
  <1>9. CASE Step.do # "hear"
    <2>1. Go(0) /\ pc' = pc + 1
      <3>1. pc \in Nat
        BY <1>1, <1>2, StepKnown
      <3> QED BY <1>2, <1>9, <3>1 DEF Go
    <2>2. Weaker(After(Doubled(script), Step, KnownNow), KnownNow')
      BY <1>1, <1>2, <2>1, MoveKnown
    <2>3. Step.do \in {"await", "ever", "deal", "gather"}
      BY <1>2, <1>9 DEF Waits
    <2>4. /\ KnownNow'.due = {}
          /\ KnownNow'.held \subseteq KnownNow.held \cup KnownNow.due
      BY <2>2, <2>3, AfterMeans
    <2>5. Ended'
      BY <1>1, <1>2, <1>4, <2>1, GoEnds
    <2>6. Coming'
      BY <2>4 DEF Coming
    <2>7. ASSUME faults' = 0
          PROVE  /\ Step.do = "gather" => owed = {} /\ KnownNow.due \subseteq got
                 /\ Step.do # "gather" => KnownNow.due = {}
                 /\ Step.do = "deal" => \A n \in owed : n.req # 12
                 /\ Step.do \in {"await", "ever"} => \A n \in owed : n.cmd # Step.cmd
      BY <1>2, <1>3, <2>7, Missed
    <2>8. HasHeld'
      BY <1>1, <1>2, <1>3, <2>4, <2>7 DEF HasHeld
    <2>9. OnlyOpen'
      <3> SUFFICES ASSUME faults' = 0, NEW n \in owed PROVE n.req \in KnownNow'.open
        BY <1>2 DEF OnlyOpen
      <3>1. n.req \in KnownNow.open /\ n.cmd = AnsweredAs(n.req)
        BY <1>1, <1>3 DEF OnlyOpen, Genuine
      <3>2. CASE Step.do \in {"await", "ever"}
        BY <2>2, <2>7, <3>1, <3>2, AfterMeans
      <3>3. CASE Step.do = "deal"
        BY <2>2, <2>7, <3>1, <3>3, AfterMeans
      <3>4. CASE Step.do = "gather"
        BY <2>7, <3>4
      <3> QED BY <2>3, <3>2, <3>3, <3>4
    <2>10. Behind'
      <3> SUFFICES ASSUME script \notin Hasty
                   PROVE  /\ Cardinality(Old) <= faults'
                          /\ 12 \notin KnownNow'.open => Cardinality(Results) <= faults'
        BY <1>2, <1>7 DEF Behind
      <3>1. /\ Cardinality(Old) <= faults
            /\ 12 \notin KnownNow.open => Cardinality(Results) <= faults
        BY <1>1 DEF Behind
      <3>2. CASE Step.do \in {"await", "ever"}
        <4>1. 12 \notin KnownNow'.open => 12 \notin KnownNow.open
          BY <2>2, <3>2, AfterMeans
        <4> QED BY <1>3, <1>7, <3>1, <4>1
      <3>3. CASE Step.do \in {"deal", "gather"}
        <4>1. Ending \cup Kept = {} => Results = {}
          BY <3>3 DEF Ending, Kept, Results
        <4>2. Cardinality({}) = 0
          BY FS_EmptySet
        <4> QED BY <1>3, <1>7, <3>1, <4>1, <4>2
      <3> QED BY <2>3, <3>2, <3>3
    <2> QED BY <1>4, <1>5, <1>6, <2>5, <2>6, <2>8, <2>9, <2>10 DEF Sound
  <1> QED BY <1>8, <1>9

(* Steps that neither send nor read.                                       *)
LEMMA QuietSound ==
    ASSUME Sound, TypeOK', UNCHANGED <<script, asks, owed, got, stray, faults>>,
           Step.do # "gather", status = "running", Ended',
           faults = 0 => /\ KnownNow.open \subseteq KnownNow'.open
                         /\ KnownNow'.due \subseteq KnownNow.due
                         /\ KnownNow'.held \subseteq KnownNow.held \cup got,
           12 \notin KnownNow'.open => 12 \notin KnownNow.open
    PROVE  Sound'
  <1>1. /\ IsFiniteSet(owed') /\ Genuine' /\ Acknowledged' /\ Newest' /\ OwnAnswers'
    BY DEF Sound, Genuine, Acknowledged, Newest, OwnAnswers
  <1>2. OnlyOpen'
    BY DEF Sound, OnlyOpen
  <1>3. HasHeld'
    BY DEF Sound, HasHeld
  <1>4. Coming'
    BY DEF Sound, Coming
  <1>5. Behind'
    <2>1. Old' = Old /\ Results' = Results
      BY DEF Old, Results
    <2> QED BY <2>1 DEF Sound, Behind
  <1> QED BY <1>1, <1>2, <1>3, <1>4, <1>5 DEF Sound

(* A check that lets the script go on, or a body that is run.              *)
LEMMA PassSound ==
    ASSUME Sound, UNCHANGED <<script, asks, owed, got, stray, faults>>,
           status = "running", Go(0), TypeOK',
           \/ Step.do \in {"need", "stop", "ifgot"} /\ Step.cmd \in got
           \/ Step.do \in {"ifnot", "maybe", "maystop"}
    PROVE  Sound'
  <1>1. TypeOK
    BY DEF Sound
  <1>2. pc' = pc + 1
    <2>1. pc \in Nat
      BY <1>1, StepKnown
    <2> QED BY <2>1 DEF Go
  <1>3. Weaker(After(Doubled(script), Step, KnownNow), KnownNow')
    BY <1>1, <1>2, MoveKnown
  <1>4. Ended'
    BY <1>1, GoEnds
  <1>5. /\ KnownNow.open \subseteq KnownNow'.open
        /\ KnownNow'.due \subseteq KnownNow.due
        /\ KnownNow'.held \subseteq KnownNow.held \cup got
    BY <1>3, AfterMeans DEF Weaker
  <1> QED BY <1>4, <1>5, QuietSound

(* A body that is skipped.                                                 *)
LEMMA SkipSound ==
    ASSUME Sound, UNCHANGED <<script, asks, owed, got, stray, faults>>,
           status = "running", Go(Step.skip), TypeOK', Step.do \in Branches,
           Step.do = "ifnot" => Step.cmd \in got
    PROVE  Sound'
  <1>1. TypeOK
    BY DEF Sound
  <1>2. pc' = pc + 1 + Step.skip
    BY DEF Go
  <1>3. Weaker(Skipping(Step, KnownNow), KnownNow')
    BY <1>1, <1>2, SkipKnown
  <1>4. Ended'
    BY <1>1, GoEnds
  <1>5. /\ KnownNow.open \subseteq KnownNow'.open
        /\ KnownNow'.due \subseteq KnownNow.due
        /\ KnownNow'.held \subseteq KnownNow.held \cup got
    BY <1>3 DEF Weaker, Skipping, Known
  <1>6. Step.do # "gather"
    BY DEF Branches
  <1> QED BY <1>4, <1>5, <1>6, QuietSound

(* main ends: without faults not for want of a message, and with no trade  *)
(* open.                                                                   *)
LEMMA QuitSound ==
    ASSUME Sound, status = "running", TypeOK',
           \/ Step.do = "need" /\ Step.cmd \notin got /\ Quit("raised")
           \/ Step.do \in {"stop", "maystop"} /\ Quit("done")
    PROVE  Sound'
  <1>1. TypeOK /\ HasHeld /\ UNCHANGED <<script, pc, asks, owed, got, stray, faults>>
    BY DEF Sound, Quit
  <1>2. Right(Doubled(script), Step, KnownNow) /\ faults \in Nat
    BY <1>1, StepKnown, Typed
  <1>3. KnownNow' = KnownNow
    BY <1>1, StayKnown
  <1>4. Step.do = "need" => faults > 0
    BY <1>1, <1>2 DEF Right, HasHeld
  <1>5. Step.do \in {"stop", "maystop"} /\ script \notin Hasty => 12 \notin KnownNow.open
    BY <1>2, DoubledIs DEF Right
  <1>6. Ended'
    BY <1>1, <1>3, <1>4, <1>5 DEF Ended, Quit
  <1> QED BY <1>1, <1>3, <1>6, QuietSound

(* Every step keeps the invariant.                                         *)
LEMMA SoundNext == Sound /\ [Next]_vars => Sound'
  <1> SUFFICES ASSUME Sound, [Next]_vars PROVE Sound'
    OBVIOUS
  <1>1. TypeOK'
    BY TypesNext DEF Sound
  <1>2. CASE Check
    <2>1. /\ status = "running" /\ Step.do \in {"need", "stop"}
          /\ IF Step.cmd \in got
             THEN Go(0) /\ UNCHANGED <<script, asks, owed, got, stray, faults>>
             ELSE Quit(IF Step.do = "need" THEN "raised" ELSE "done")
      BY <1>2 DEF Check, At
    <2>2. CASE Step.cmd \in got
      BY <1>1, <2>1, <2>2, PassSound
    <2>3. CASE Step.cmd \notin got
      BY <1>1, <2>1, <2>3, QuitSound
    <2> QED BY <2>2, <2>3
  <1>3. CASE Branch
    <2>1. /\ status = "running" /\ Step.do \in {"ifgot", "ifnot"}
          /\ Go(IF (Step.cmd \in got) = (Step.do = "ifgot") THEN 0 ELSE Step.skip)
          /\ UNCHANGED <<script, asks, owed, got, stray, faults>>
      BY <1>3 DEF Branch, At
    <2>2. CASE (Step.cmd \in got) = (Step.do = "ifgot")
      <3>1. Go(0)
        BY <2>1, <2>2
      <3>2. Step.do = "ifgot" => Step.cmd \in got
        BY <2>2
      <3> QED BY <1>1, <2>1, <3>1, <3>2, PassSound
    <2>3. CASE ~((Step.cmd \in got) = (Step.do = "ifgot"))
      <3>1. Go(Step.skip)
        BY <2>1, <2>3
      <3>2. Step.do = "ifnot" => Step.cmd \in got
        BY <2>3
      <3> QED BY <1>1, <2>1, <3>1, <3>2, SkipSound DEF Branches
    <2> QED BY <2>2, <2>3
  <1>4. CASE Choose
    <2>1. /\ status = "running" /\ Step.do = "maybe" /\ (Go(0) \/ Go(Step.skip))
          /\ UNCHANGED <<script, asks, owed, got, stray, faults>>
      BY <1>4 DEF Choose, At
    <2> QED BY <1>1, <2>1, PassSound, SkipSound DEF Branches
  <1>5. CASE Leave
    <2>1. /\ status = "running" /\ Step.do = "maystop"
          /\ \/ Go(0) /\ UNCHANGED <<script, asks, owed, got, stray, faults>>
             \/ Quit("done")
      BY <1>5 DEF Leave, At
    <2> QED BY <1>1, <2>1, PassSound, QuitSound
  <1>6. CASE UNCHANGED vars
    <2>1. KnownNow' = KnownNow /\ Step' = Step
      BY <1>6, StayKnown DEF vars
    <2>2. Old' = Old /\ Results' = Results
      BY <1>6 DEF vars, Old, Results
    <2>3. /\ script' = script /\ asks' = asks /\ owed' = owed /\ got' = got
          /\ stray' = stray /\ faults' = faults /\ status' = status
      BY <1>6 DEF vars
    <2>4. IsFiniteSet(owed') /\ Genuine' /\ Acknowledged' /\ OnlyOpen' /\ HasHeld'
      BY <2>1, <2>3 DEF Sound, Genuine, Acknowledged, OnlyOpen, HasHeld
    <2>5. Coming' /\ Newest' /\ OwnAnswers'
      BY <2>1, <2>3 DEF Sound, Coming, Newest, OwnAnswers
    <2>6. Behind' /\ Ended'
      BY <2>1, <2>2, <2>3 DEF Sound, Behind, Ended
    <2> QED BY <1>1, <2>4, <2>5, <2>6 DEF Sound
  <1> QED BY <1>2, <1>3, <1>4, <1>5, <1>6, SendSound, TakeSound, KeepSound, DropSound,
             GiveUpSound DEF Next

(* It holds before the first request.                                      *)
LEMMA SoundInit == Init => Sound
  <1> SUFFICES ASSUME Init PROVE Sound
    OBVIOUS
  <1>1. TypeOK /\ owed = {} /\ faults = 0 /\ stray = FALSE /\ status = "running"
    BY TypesInit DEF Init
  <1>2. KnownNow = Known({}, {}, {})
    BY Guided DEF KnownNow, Init
  <1>3. KnownNow.open = {} /\ KnownNow.due = {} /\ KnownNow.held = {}
    BY <1>2 DEF Known
  <1>4. Old = {} /\ Results = {} /\ IsFiniteSet({}) /\ Cardinality({}) = 0
    BY <1>1, FS_EmptySet DEF Old, Results
  <1>5. Behind /\ Ended
    BY <1>1, <1>3, <1>4 DEF Behind, Ended
  <1>6. Genuine /\ Acknowledged /\ OnlyOpen /\ HasHeld /\ Coming /\ Newest /\ OwnAnswers
    BY <1>1, <1>3 DEF Genuine, Acknowledged, OnlyOpen, HasHeld, Coming, Newest, OwnAnswers
  <1> QED BY <1>1, <1>4, <1>5, <1>6 DEF Sound

(* The inductive invariant holds in every conversation, whatever the       *)
(* rounds of the loops and the number of faults.                           *)
THEOREM AlwaysSound == Spec => []Sound
  BY SoundInit, SoundNext, PTL DEF Spec

(* While every request is answered in time, a script never takes an answer *)
(* for that of a later request, unless it takes the first event of a trade *)
(* for its result or doubles a request.                                    *)
THEOREM AnswersAreOwn == Spec => []OwnAnswers
  <1>1. Sound => OwnAnswers
    BY DEF Sound
  <1> QED BY <1>1, AlwaysSound, PTL

(* A script that was answered in time ends main with the result of every   *)
(* trade it sent read.                                                     *)
THEOREM OutcomeKnown == Spec => []KnowsOutcome
  <1>1. Sound => KnowsOutcome
    <2> SUFFICES ASSUME Sound, status = "done", faults = 0, script \notin Hasty,
                        NEW m \in owed, m.kind = "final"
                 PROVE  FALSE
      BY DEF KnowsOutcome
    <2>1. m.req \in KnownNow.open /\ 12 \notin KnownNow.open
      BY DEF Sound, OnlyOpen, Ended
    <2>2. m.req = 12
      BY DEF Sound, Genuine
    <2> QED BY <2>1, <2>2
  <1> QED BY <1>1, AlwaysSound, PTL

(* A script raises, or waits for good, only after a request that was not   *)
(* answered in time: no wait reads away the message that a later step      *)
(* needs.                                                                  *)
THEOREM FailsOnlyForReason == Spec => []FailsForReason
  <1>1. Sound => FailsForReason
    <2> SUFFICES ASSUME Sound, status = "raised" \/ Stuck PROVE faults > 0
      BY DEF FailsForReason
    <2>1. CASE status = "raised"
      BY <2>1 DEF Sound, Ended
    <2>2. CASE Stuck
      <3>1. /\ TypeOK /\ Coming /\ faults \in Nat
            /\ status = "running" /\ Step.do = "ever" /\ Ending = {}
        BY <2>2, Typed DEF Sound, Stuck, At
      <3>2. Step.cmd \in KnownNow.due
        BY <3>1, StepKnown DEF Right
      <3>3. faults = 0 => \E m \in owed : m.cmd = Step.cmd
        BY <3>1, <3>2 DEF Coming
      <3>4. \A m \in owed : m.cmd # Step.cmd
        BY <3>1 DEF Ending
      <3> QED BY <3>1, <3>3, <3>4
    <2> QED BY <2>1, <2>2
  <1> QED BY <1>1, AlwaysSound, PTL

(* Each request that was answered late, or never, puts a script behind by  *)
(* one result at most, in any number of trades.                            *)
THEOREM BacklogBounded == Spec => []Backlog
  <1>1. Sound => Backlog
    BY DEF Sound, Behind, Old, Backlog
  <1> QED BY <1>1, AlwaysSound, PTL
=============================================================================
