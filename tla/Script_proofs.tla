--------------------------- MODULE Script_proofs ---------------------------
(***************************************************************************)
(* What is known of a conversation at each step of a script, by a proof    *)
(* system for scripts in the manner of Hoare: Leads(d, f, s, g) says that  *)
(* where f is known the script s can be run, and leads to where g is       *)
(* known.  It is shown for each step, for sequences, branches and loops    *)
(* with any number of rounds, and with that for each of the 42 scripts.    *)
(***************************************************************************)
EXTENDS Session, TLAPS

(* The commands of requests.  8 and 19 only come as messages.              *)
Asks == Cmds \ {8, 19}
(* The steps that may skip the steps behind them.                          *)
Branches == {"ifgot", "ifnot", "maybe"}

(* The steps that ScriptSteps can write down.                              *)
Steps ==
    [do : {"ask"}, cmd : Asks]
    \cup [do : {"hear", "gather", "maystop"}]
    \cup [do : {"await"}, cmd : Cmds \cup {AnyCmd}]
    \cup [do : {"ever", "need", "stop"}, cmd : Cmds]
    \cup [do : {"deal"}, cmd : {19}, keep : BOOLEAN]
    \cup [do : {"ifgot", "ifnot"}, cmd : Cmds, skip : Nat]
    \cup [do : {"maybe"}, skip : Nat]

(* What is known before a step, as long as every request was answered in   *)
(* time: the commands of requests that may have an answer unread (open),   *)
(* the commands one of whose answers is on its way or being gathered       *)
(* (due), and the commands that have been received since they were last    *)
(* asked for (held).                                                       *)
Facts == [open : SUBSET Cmds, due : SUBSET Cmds, held : SUBSET Cmds]

Known(O, D, H) == [open |-> O, due |-> D, held |-> H]

(* What g knows follows from what f knows.                                 *)
Weaker(f, g) ==
    f.open \subseteq g.open /\ g.due \subseteq f.due /\ g.held \subseteq f.held

(* What has to be known before a step k of a script.  A request is sent    *)
(* when none with its command is open, except those of d, which the script *)
(* doubles; a login waits for a message that comes; a wait drops nothing   *)
(* that is due, and a wait without a deadline has its answer due; an       *)
(* exception for want of a message is excluded; and main ends with no      *)
(* trade open.                                                             *)
Right(d, k, f) ==
    /\ k.do = "ask" => k.cmd \notin f.open \/ k.cmd \in d
    /\ k.do = "hear" => f.due # {}
    /\ k.do \in {"await", "ever", "deal"} => f.due \subseteq {k.cmd}
    /\ k.do = "ever" => k.cmd \in f.due
    /\ k.do = "need" => k.cmd \in f.held
    /\ k.do \in {"stop", "maystop"} => 12 \notin f.open \/ 12 \in d

(* What is known after the step: a wait for a command closes the requests  *)
(* it answers, except the doubled ones and a trade, whose first event may  *)
(* be an acknowledgement; the wait of Deal closes the trade; and a gather, *)
(* which reads for its whole time, closes everything.                      *)
After(d, k, f) ==
    CASE k.do = "ask" ->
             Known(f.open \cup {k.cmd}, f.due \cup {AnsweredAs(k.cmd)},
                   f.held \ {AnsweredAs(k.cmd)})
      [] k.do = "hear" -> Known(f.open, {}, f.held)
      [] k.do \in {"await", "ever"} ->
             Known({r \in f.open : r \in d \cup {12} \/ AnsweredAs(r) # k.cmd},
                   {}, f.held \cup f.due)
      [] k.do = "deal" ->
             Known({r \in f.open : r \in d \/ r # 12}, {}, f.held \cup f.due)
      [] k.do = "gather" -> Known({}, {}, f.held \cup f.due)
      [] k.do \in {"need", "stop", "ifgot"} ->
             Known(f.open, f.due, f.held \cup {k.cmd})
      [] OTHER -> f

(* What is known when the body behind a branch is skipped.                 *)
Skipping(k, f) ==
    IF k.do = "ifnot" THEN Known(f.open, f.due, f.held \cup {k.cmd}) ELSE f

(* A step from f to g, and a branch from f past its body to g.             *)
Fits(d, k, f, g) == Right(d, k, f) /\ Weaker(After(d, k, f), g)
Jumps(k, f, g) == Weaker(Skipping(k, f), g)

(* Facts for every step of a script, each right before its step, and each  *)
(* following from those before the steps that lead to it.                  *)
Certifies(d, s, cert) ==
    /\ cert \in [1 .. Len(s) + 1 -> Facts]
    /\ \A i \in 1 .. Len(s) :
           /\ Fits(d, s[i], cert[i], cert[i + 1])
           /\ s[i].do \in Branches =>
                  /\ i + 1 + s[i].skip \in 1 .. Len(s) + 1
                  /\ Jumps(s[i], cert[i], cert[i + 1 + s[i].skip])

(* The script s can be run where f is known, and leads to where g is       *)
(* known.                                                                  *)
Leads(d, f, s, g) ==
    /\ s \in Seq(Steps)
    /\ \E cert : /\ Certifies(d, s, cert)
                 /\ cert[1] = f /\ cert[Len(s) + 1] = g

(* Every branch has a length.                                              *)
LEMMA StepsTyped ==
    ASSUME NEW k \in Steps PROVE k.do \in Branches => k.skip \in Nat
  BY DEF Steps, Branches

(* A script of one step.                                                   *)
LEMMA OneStep ==
    ASSUME NEW d, NEW k \in Steps, NEW f \in Facts, NEW g \in Facts,
           k.do \notin Branches, Fits(d, k, f, g)
    PROVE  Leads(d, f, <<k>>, g)
  <1> DEFINE cert == [i \in 1 .. 2 |-> IF i = 1 THEN f ELSE g]
  <1>1. <<k>> \in Seq(Steps) /\ Len(<<k>>) = 1 /\ <<k>>[1] = k
    OBVIOUS
  <1>2. cert \in [1 .. 2 -> Facts] /\ cert[1] = f /\ cert[2] = g
    OBVIOUS
  <1>3. Certifies(d, <<k>>, cert)
    BY <1>1, <1>2 DEF Certifies
  <1> QED BY <1>1, <1>2, <1>3 DEF Leads

(* One script after another.                                               *)
LEMMA InTurn ==
    ASSUME NEW d, NEW f, NEW g, NEW h, NEW s, NEW t,
           Leads(d, f, s, g), Leads(d, g, t, h)
    PROVE  Leads(d, f, s \o t, h)
  <1> DEFINE n == Len(s)  m == Len(t)
  <1>1. PICK c1 : Certifies(d, s, c1) /\ c1[1] = f /\ c1[n + 1] = g
    BY DEF Leads
  <1>2. PICK c2 : Certifies(d, t, c2) /\ c2[1] = g /\ c2[m + 1] = h
    BY DEF Leads
  <1>3. s \in Seq(Steps) /\ t \in Seq(Steps)
    BY DEF Leads
  <1>4. /\ s \o t \in Seq(Steps) /\ Len(s \o t) = n + m /\ n \in Nat /\ m \in Nat
        /\ \A i \in 1 .. n : (s \o t)[i] = s[i] /\ s[i] \in Steps
        /\ \A i \in n + 1 .. n + m : (s \o t)[i] = t[i - n] /\ t[i - n] \in Steps
    BY <1>3
  <1> DEFINE cert == [i \in 1 .. n + m + 1 |-> IF i <= n THEN c1[i] ELSE c2[i - n]]
  <1>5. /\ cert \in [1 .. n + m + 1 -> Facts]
        /\ \A i \in 1 .. n + 1 : cert[i] = c1[i]
        /\ \A i \in n + 1 .. n + m + 1 : cert[i] = c2[i - n]
    BY <1>1, <1>2, <1>4 DEF Certifies
  <1> HIDE DEF cert
  <1>6. ASSUME NEW i \in 1 .. n + m
        PROVE  /\ Fits(d, (s \o t)[i], cert[i], cert[i + 1])
               /\ (s \o t)[i].do \in Branches =>
                  /\ i + 1 + (s \o t)[i].skip \in 1 .. n + m + 1
                  /\ Jumps((s \o t)[i], cert[i], cert[i + 1 + (s \o t)[i].skip])
    <2>1. CASE i \in 1 .. n
      <3>1. (s \o t)[i] = s[i] /\ s[i] \in Steps /\ cert[i] = c1[i] /\ cert[i + 1] = c1[i + 1]
        BY <2>1, <1>4, <1>5
      <3>2. Fits(d, s[i], c1[i], c1[i + 1])
        BY <2>1, <1>1 DEF Certifies
      <3>3. ASSUME s[i].do \in Branches
            PROVE /\ i + 1 + s[i].skip \in 1 .. n + 1
                  /\ Jumps(s[i], c1[i], c1[i + 1 + s[i].skip])
        BY <3>3, <2>1, <1>1 DEF Certifies
      <3> QED BY <3>1, <3>2, <3>3, <1>5, <1>4, StepsTyped
    <2>2. CASE i \in n + 1 .. n + m
      <3> DEFINE j == i - n
      <3>1. j \in 1 .. m /\ i = n + j
        BY <2>2, <1>4
      <3>2. (s \o t)[i] = t[j] /\ t[j] \in Steps /\ cert[i] = c2[j] /\ cert[i + 1] = c2[j + 1]
        BY <2>2, <1>4, <1>5
      <3>3. Fits(d, t[j], c2[j], c2[j + 1])
        BY <3>1, <1>2 DEF Certifies
      <3>4. ASSUME t[j].do \in Branches
            PROVE /\ j + 1 + t[j].skip \in 1 .. m + 1
                  /\ Jumps(t[j], c2[j], c2[j + 1 + t[j].skip])
        BY <3>4, <3>1, <1>2 DEF Certifies
      <3>5. ASSUME t[j].do \in Branches
            PROVE /\ i + 1 + t[j].skip \in n + 1 .. n + m + 1
                  /\ cert[i + 1 + t[j].skip] = c2[j + 1 + t[j].skip]
        <4>1. t[j].skip \in Nat
          BY <3>5, <3>2, StepsTyped
        <4>2. i + 1 + t[j].skip \in n + 1 .. n + m + 1
          BY <4>1, <3>4, <3>5, <3>1, <1>4
        <4>3. (i + 1 + t[j].skip) - n = j + 1 + t[j].skip
          BY <4>1, <3>1, <1>4
        <4> QED BY <4>2, <4>3, <1>5
      <3> QED BY <3>1, <3>2, <3>3, <3>4, <3>5, <1>4
    <2> QED BY <2>1, <2>2, <1>4
  <1>7. Certifies(d, s \o t, cert)
    BY <1>4, <1>5, <1>6 DEF Certifies
  <1>8. cert[1] = f /\ cert[n + m + 1] = h
    <2>1. cert[1] = c1[1]
      BY <1>4, <1>5
    <2>2. cert[n + m + 1] = c2[m + 1]
      BY <1>4, <1>5
    <2> QED BY <2>1, <2>2, <1>1, <1>2
  <1> QED BY <1>4, <1>7, <1>8 DEF Leads

(* A branch with its body.                                                 *)
LEMMA InBranch ==
    ASSUME NEW d, NEW f \in Facts, NEW e, NEW g, NEW k, NEW body,
           k.do \in Branches, k.skip = Len(body), k \in Steps,
           Fits(d, k, f, e), Jumps(k, f, g), Leads(d, e, body, g)
    PROVE  Leads(d, f, <<k>> \o body, g)
  <1> DEFINE n == Len(body)
  <1>1. PICK c : Certifies(d, body, c) /\ c[1] = e /\ c[n + 1] = g
    BY DEF Leads
  <1>2. body \in Seq(Steps)
    BY DEF Leads
  <1>3. /\ <<k>> \o body \in Seq(Steps) /\ Len(<<k>> \o body) = n + 1 /\ n \in Nat
        /\ (<<k>> \o body)[1] = k
        /\ \A i \in 2 .. n + 1 : (<<k>> \o body)[i] = body[i - 1] /\ body[i - 1] \in Steps
    BY <1>2
  <1> DEFINE cert == [i \in 1 .. n + 2 |-> IF i = 1 THEN f ELSE c[i - 1]]
  <1>4. /\ cert \in [1 .. n + 2 -> Facts] /\ cert[1] = f
        /\ \A i \in 2 .. n + 2 : cert[i] = c[i - 1]
    BY <1>1, <1>3 DEF Certifies
  <1> HIDE DEF cert
  <1>5. cert[2] = e /\ cert[n + 2] = g
    <2>1. cert[2] = c[1]
      BY <1>3, <1>4
    <2>2. cert[n + 2] = c[n + 1]
      BY <1>3, <1>4
    <2> QED BY <2>1, <2>2, <1>1
  <1>6. ASSUME NEW i \in 2 .. n + 1
        PROVE  /\ Fits(d, body[i - 1], cert[i], cert[i + 1])
               /\ body[i - 1].do \in Branches =>
                  /\ i + 1 + body[i - 1].skip \in 1 .. n + 2
                  /\ Jumps(body[i - 1], cert[i], cert[i + 1 + body[i - 1].skip])
    <2> DEFINE j == i - 1
    <2>1. j \in 1 .. n /\ i = j + 1 /\ body[j] \in Steps
      BY <1>3
    <2>2. cert[i] = c[j] /\ cert[i + 1] = c[j + 1]
      BY <1>3, <1>4
    <2>3. Fits(d, body[j], c[j], c[j + 1])
      BY <2>1, <1>1 DEF Certifies
    <2>4. ASSUME body[j].do \in Branches
          PROVE  /\ i + 1 + body[j].skip \in 2 .. n + 2
                 /\ Jumps(body[j], c[j], cert[i + 1 + body[j].skip])
      <3>1. body[j].skip \in Nat
        BY <2>1, <2>4, StepsTyped
      <3>2. /\ j + 1 + body[j].skip \in 1 .. n + 1
            /\ Jumps(body[j], c[j], c[j + 1 + body[j].skip])
        BY <2>1, <2>4, <1>1 DEF Certifies
      <3>3. i + 1 + body[j].skip \in 2 .. n + 2
        BY <3>1, <3>2, <2>1, <1>3
      <3>4. (i + 1 + body[j].skip) - 1 = j + 1 + body[j].skip
        BY <3>1, <2>1
      <3>5. cert[i + 1 + body[j].skip] = c[j + 1 + body[j].skip]
        BY <3>3, <3>4, <1>4
      <3> QED BY <3>2, <3>3, <3>5
    <2> QED BY <2>2, <2>3, <2>4, <1>3
  <1>7. Certifies(d, <<k>> \o body, cert)
    <2>1. cert \in [1 .. Len(<<k>> \o body) + 1 -> Facts]
      BY <1>3, <1>4
    <2> SUFFICES ASSUME NEW i \in 1 .. n + 1
                 PROVE  LET x == (<<k>> \o body)[i]
                        IN /\ Fits(d, x, cert[i], cert[i + 1])
                           /\ x.do \in Branches =>
                              /\ i + 1 + x.skip \in 1 .. n + 2
                              /\ Jumps(x, cert[i], cert[i + 1 + x.skip])
      BY <2>1, <1>3 DEF Certifies
    <2>2. CASE i = 1
      BY <2>2, <1>3, <1>4, <1>5
    <2>3. CASE i \in 2 .. n + 1
      BY <2>3, <1>3, <1>6
    <2> QED BY <2>2, <2>3, <1>3
  <1> QED BY <1>3, <1>4, <1>5, <1>7 DEF Leads

(* Where a round of a loop with a body of n steps begins: at i - j, when   *)
(* step i is the j-th of its round.                                        *)
LEMMA InRounds ==
    ASSUME NEW n \in 2 .. 5, NEW i \in 1 .. MaxRounds * n
    PROVE  LET j == ((i - 1) % n) + 1
           IN /\ j \in 1 .. n
              /\ i - j \in Nat
              /\ i - j + n <= MaxRounds * n
              /\ \A k \in 0 .. n - 1 : ((i - j + k) % n) = k
              /\ ((i - j + n) % n) = 0
  <1> USE StepsAssumption
  <1>1. CASE n = 2 BY <1>1
  <1>2. CASE n = 3 BY <1>2
  <1>3. CASE n = 4 BY <1>3
  <1>4. CASE n = 5 BY <1>4
  <1> QED BY <1>1, <1>2, <1>3, <1>4

(* A loop over a body that leads from f to f leads from f to f, whatever   *)
(* the number of its rounds.                                               *)
LEMMA InLoop ==
    ASSUME NEW d, NEW f, NEW body, Len(body) \in 2 .. 5, Leads(d, f, body, f)
    PROVE  Leads(d, f, ForEach(body), f)
  <1> DEFINE n == Len(body)
             all == MaxRounds * n
             loop == ForEach(body)
  <1>1. PICK c : Certifies(d, body, c) /\ c[1] = f /\ c[n + 1] = f
    BY DEF Leads
  <1>2. body \in Seq(Steps)
    BY DEF Leads
  <1>3. MaxRounds \in Nat \ {0} /\ n \in 2 .. 5 /\ all \in Nat
    <2>1. n \in 2 .. 5
      OBVIOUS
    <2> HIDE DEF n
    <2> QED BY <2>1, StepsAssumption
  <1> DEFINE place(i) == ((i - 1) % n) + 1
             cert == [i \in 1 .. all + 1 |-> c[place(i)]]
  <1>4. \A i \in 1 .. all + 1 : place(i) \in 1 .. n
    <2> HIDE DEF n
    <2>1. CASE n = 2 BY <2>1, <1>3
    <2>2. CASE n = 3 BY <2>2, <1>3
    <2>3. CASE n = 4 BY <2>3, <1>3
    <2>4. CASE n = 5 BY <2>4, <1>3
    <2> QED BY <2>1, <2>2, <2>3, <2>4, <1>3
  <1>5. \A x \in 1 .. n : body[x] \in Steps
    BY <1>2
  <1>6. /\ loop \in Seq(Steps) /\ Len(loop) = all
        /\ \A i \in 1 .. all : loop[i] = body[place(i)] /\ loop[i] \in Steps
    <2>1. loop = [i \in 1 .. all |-> body[place(i)]]
      BY DEF ForEach
    <2>2. \A i \in 1 .. all : body[place(i)] \in Steps
      BY <1>3, <1>4, <1>5
    <2> HIDE DEF loop, all, place, n
    <2> QED BY <2>1, <2>2, <1>3
  <1>7. /\ cert \in [1 .. all + 1 -> Facts]
        /\ \A i \in 1 .. all + 1 : cert[i] = c[place(i)]
    <2>1. \A i \in 1 .. all + 1 : c[place(i)] \in Facts
      BY <1>1, <1>3, <1>4 DEF Certifies
    <2> HIDE DEF place, all
    <2> QED BY <2>1
  <1> HIDE DEF cert, loop
  <1>8. ASSUME NEW i \in 1 .. all, NEW p \in 1 .. n + 1
        PROVE  LET b == i - place(i)
               IN b + p \in 1 .. all + 1 /\ cert[b + p] = c[p]
    <2> DEFINE b == i - place(i)
    <2>1. /\ b \in Nat /\ b + n <= all
          /\ \A x \in 0 .. n - 1 : ((b + x) % n) = x
          /\ ((b + n) % n) = 0
      <3> HIDE DEF n
      <3> QED BY <1>3, InRounds
    <2> HIDE DEF b
    <2>2. b + p \in 1 .. all + 1
      <3> HIDE DEF all, n
      <3> QED BY <2>1, <1>3
    <2>3. ASSUME p \in 1 .. n PROVE cert[b + p] = c[p]
      <3>1. p - 1 \in 0 .. n - 1 /\ (b + p) - 1 = b + (p - 1)
        BY <2>3, <2>1, <1>3
      <3>2. place(b + p) = p
        <4>1. ((b + (p - 1)) % n) = p - 1
          BY <3>1, <2>1
        <4> QED BY <4>1, <3>1, <2>3, <1>3
      <3> QED BY <3>2, <2>2, <1>7
    <2>4. ASSUME p = n + 1 PROVE cert[b + p] = c[p]
      <3>1. (b + p) - 1 = b + n
        BY <2>4, <2>1, <1>3
      <3>2. place(b + p) = 1
        <4>1. (((b + p) - 1) % n) = 0
          BY <3>1, <2>1
        <4> QED BY <4>1
      <3> QED BY <3>2, <2>2, <2>4, <1>7, <1>1
    <2>5. b + p \in 1 .. all + 1 /\ cert[b + p] = c[p]
      BY <2>2, <2>3, <2>4, <1>3
    <2> QED BY <2>5 DEF b
  <1>9. ASSUME NEW i \in 1 .. all
        PROVE  /\ Fits(d, loop[i], cert[i], cert[i + 1])
               /\ loop[i].do \in Branches =>
                  /\ i + 1 + loop[i].skip \in 1 .. all + 1
                  /\ Jumps(loop[i], cert[i], cert[i + 1 + loop[i].skip])
    <2> DEFINE j == place(i)  b == i - j
    <2>1. j \in 1 .. n /\ b + j = i /\ b \in Nat /\ i + 1 = b + (j + 1) /\ loop[i] = body[j]
      <3>1. j \in 1 .. n /\ loop[i] = body[j]
        BY <1>3, <1>4, <1>6
      <3>2. b \in Nat
        <4> HIDE DEF n
        <4> QED BY <1>3, InRounds
      <3> HIDE DEF j, n
      <3> QED BY <3>1, <3>2, <1>3
    <2>2. cert[i] = c[j] /\ cert[i + 1] = c[j + 1]
      <3>1. j \in 1 .. n + 1 /\ j + 1 \in 1 .. n + 1
        BY <2>1, <1>3
      <3>2. cert[b + j] = c[j] /\ cert[b + (j + 1)] = c[j + 1]
        BY <3>1, <1>8
      <3> HIDE DEF j, b
      <3> QED BY <3>2, <2>1
    <2>3. Fits(d, body[j], c[j], c[j + 1])
      BY <2>1, <1>1 DEF Certifies
    <2>4. ASSUME body[j].do \in Branches
          PROVE  /\ i + 1 + body[j].skip \in 1 .. all + 1
                 /\ Jumps(body[j], c[j], cert[i + 1 + body[j].skip])
      <3> DEFINE p == j + 1 + body[j].skip
      <3>1. body[j].skip \in Nat
        BY <2>1, <2>4, <1>5, StepsTyped
      <3>2. p \in 1 .. n + 1 /\ Jumps(body[j], c[j], c[p])
        BY <2>1, <2>4, <1>1 DEF Certifies
      <3>3. b + p \in 1 .. all + 1 /\ cert[b + p] = c[p]
        BY <3>2, <1>8
      <3>4. i + 1 + body[j].skip = b + p
        <4> HIDE DEF j, b
        <4> QED BY <3>1, <2>1, <1>3
      <3> QED BY <3>2, <3>3, <3>4
    <2> QED BY <2>1, <2>2, <2>3, <2>4
  <1>10. Certifies(d, loop, cert)
    BY <1>6, <1>7, <1>9 DEF Certifies
  <1>11. cert[1] = f /\ cert[all + 1] = f
    <2>1. 1 \in 1 .. all /\ all \in 1 .. all
      <3> HIDE DEF n
      <3>1. CASE n = 2 BY <3>1, <1>3
      <3>2. CASE n = 3 BY <3>2, <1>3
      <3>3. CASE n = 4 BY <3>3, <1>3
      <3>4. CASE n = 5 BY <3>4, <1>3
      <3> QED BY <3>1, <3>2, <3>3, <3>4, <1>3
    <2>2. place(1) = 1 /\ place(all + 1) = 1
      <3> HIDE DEF n
      <3>1. CASE n = 2 BY <3>1, <1>3
      <3>2. CASE n = 3 BY <3>2, <1>3
      <3>3. CASE n = 4 BY <3>3, <1>3
      <3>4. CASE n = 5 BY <3>4, <1>3
      <3> QED BY <3>1, <3>2, <3>3, <3>4, <1>3
    <2>3. 1 \in 1 .. all + 1 /\ all + 1 \in 1 .. all + 1
      <3> HIDE DEF all
      <3> QED BY <2>1, <1>3
    <2> QED BY <2>2, <2>3, <1>1, <1>7
  <1> QED BY <1>6, <1>10, <1>11 DEF Leads, loop

-----------------------------------------------------------------------------
(* Where nothing is due and O is open, s leads to where that is so again;  *)
(* and at the start of a script, where nothing has been asked, s leads     *)
(* there.                                                                  *)
Keeps(d, O, s) == Leads(d, Known(O, {}, {}), s, Known(O, {}, {}))
Opens(d, O, s) == Leads(d, Known({}, {}, {}), s, Known(O, {}, {}))

(* The parts of what is known.                                             *)
LEMMA KnownFacts ==
    ASSUME NEW O \in SUBSET Cmds, NEW D \in SUBSET Cmds, NEW H \in SUBSET Cmds
    PROVE  /\ Known(O, D, H) \in Facts
           /\ Known(O, D, H).open = O /\ Known(O, D, H).due = D
           /\ Known(O, D, H).held = H
  BY DEF Known, Facts

(* Requests are answered with commands.                                    *)
LEMMA AnsweredIn == \A c \in Cmds : AnsweredAs(c) \in Cmds
  BY DEF AnsweredAs, Cmds

(* A request opens its command, and its answer is due.                     *)
LEMMA AskLeads ==
    ASSUME NEW d, NEW O \in SUBSET Cmds, NEW P \in SUBSET Cmds,
           NEW D \in SUBSET Cmds, NEW E \in SUBSET Cmds,
           NEW H \in SUBSET Cmds, NEW K \in SUBSET Cmds, NEW c \in Asks,
           c \notin O \/ c \in d,
           O \cup {c} \subseteq P, E \subseteq D \cup {AnsweredAs(c)},
           K \subseteq H \ {AnsweredAs(c)}
    PROVE  Leads(d, Known(O, D, H), Ask(c), Known(P, E, K))
  <1> DEFINE k == [do |-> "ask", cmd |-> c]
  <1>1. k \in Steps /\ k.do = "ask" /\ k.cmd = c
    BY DEF Steps
  <1>2. Fits(d, k, Known(O, D, H), Known(P, E, K))
    BY <1>1 DEF Fits, Right, After, Weaker, Known
  <1> QED BY <1>1, <1>2, OneStep, KnownFacts DEF Ask, Branches

(* One message of a login.                                                 *)
LEMMA HearLeads ==
    ASSUME NEW d, NEW O \in SUBSET Cmds, NEW D \in SUBSET Cmds, NEW P \in SUBSET Cmds,
           D # {}, O \subseteq P
    PROVE  Leads(d, Known(O, D, {}), Hear, Known(P, {}, {}))
  <1> DEFINE k == [do |-> "hear"]
  <1>1. k \in Steps /\ k.do = "hear"
    BY DEF Steps
  <1>2. Fits(d, k, Known(O, D, {}), Known(P, {}, {}))
    BY <1>1 DEF Fits, Right, After, Weaker, Known
  <1> QED BY <1>1, <1>2, OneStep, KnownFacts DEF Hear, Branches

(* A wait up to a deadline, in which at most its own command is due.       *)
LEMMA AwaitLeads ==
    ASSUME NEW d, NEW O \in SUBSET Cmds, NEW D \in SUBSET Cmds, NEW H \in SUBSET Cmds,
           NEW P \in SUBSET Cmds, NEW K \in SUBSET Cmds, NEW c \in Cmds \cup {AnyCmd},
           D \subseteq {c}, K \subseteq H \cup D,
           {r \in O : r \in d \cup {12} \/ AnsweredAs(r) # c} \subseteq P
    PROVE  Leads(d, Known(O, D, H), Await(c), Known(P, {}, K))
  <1> DEFINE k == [do |-> "await", cmd |-> c]
  <1>1. k \in Steps /\ k.do = "await" /\ k.cmd = c
    BY DEF Steps
  <1>2. Fits(d, k, Known(O, D, H), Known(P, {}, K))
    BY <1>1 DEF Fits, Right, After, Weaker, Known
  <1> QED BY <1>1, <1>2, OneStep, KnownFacts DEF Await, Branches

(* A wait without a deadline, whose command is due.                        *)
LEMMA AwaitEverLeads ==
    ASSUME NEW d, NEW O \in SUBSET Cmds, NEW H \in SUBSET Cmds,
           NEW P \in SUBSET Cmds, NEW K \in SUBSET Cmds, NEW c \in Cmds,
           K \subseteq H \cup {c},
           {r \in O : r \in d \cup {12} \/ AnsweredAs(r) # c} \subseteq P
    PROVE  Leads(d, Known(O, {c}, H), AwaitEver(c), Known(P, {}, K))
  <1> DEFINE k == [do |-> "ever", cmd |-> c]
  <1>1. k \in Steps /\ k.do = "ever" /\ k.cmd = c
    BY DEF Steps
  <1>2. Fits(d, k, Known(O, {c}, H), Known(P, {}, K))
    BY <1>1 DEF Fits, Right, After, Weaker, Known
  <1> QED BY <1>1, <1>2, OneStep, KnownFacts DEF AwaitEver, Branches

(* The wait for the result of a trade.                                     *)
LEMMA DealLeads ==
    ASSUME NEW d, NEW O \in SUBSET Cmds, NEW D \in SUBSET {19}, NEW H \in SUBSET Cmds,
           NEW P \in SUBSET Cmds, NEW K \in SUBSET Cmds, NEW keep \in BOOLEAN,
           K \subseteq H \cup D, {r \in O : r \in d \/ r # 12} \subseteq P
    PROVE  Leads(d, Known(O, D, H), Deal(keep), Known(P, {}, K))
  <1> DEFINE k == [do |-> "deal", cmd |-> 19, keep |-> keep]
  <1>1. k \in Steps /\ k.do = "deal" /\ k.cmd = 19
    BY DEF Steps
  <1>2. Fits(d, k, Known(O, D, H), Known(P, {}, K))
    BY <1>1 DEF Fits, Right, After, Weaker, Known
  <1>3. D \in SUBSET Cmds
    BY DEF Cmds
  <1> QED BY <1>1, <1>2, <1>3, OneStep, KnownFacts DEF Deal, Branches

(* A time in which everything is read.                                     *)
LEMMA GatherLeads ==
    ASSUME NEW d, NEW O \in SUBSET Cmds, NEW D \in SUBSET Cmds, NEW H \in SUBSET Cmds,
           NEW P \in SUBSET Cmds, NEW K \in SUBSET Cmds, K \subseteq H \cup D
    PROVE  Leads(d, Known(O, D, H), Gather, Known(P, {}, K))
  <1> DEFINE k == [do |-> "gather"]
  <1>1. k \in Steps /\ k.do = "gather"
    BY DEF Steps
  <1>2. Fits(d, k, Known(O, D, H), Known(P, {}, K))
    BY <1>1 DEF Fits, Right, After, Weaker, Known
  <1> QED BY <1>1, <1>2, OneStep, KnownFacts DEF Gather, Branches

(* An exception that is not raised, as the message is there.               *)
LEMMA NeedLeads ==
    ASSUME NEW d, NEW O \in SUBSET Cmds, NEW H \in SUBSET Cmds, NEW K \in SUBSET Cmds,
           NEW c \in H, K \subseteq H
    PROVE  Leads(d, Known(O, {}, H), Need(c), Known(O, {}, K))
  <1> DEFINE k == [do |-> "need", cmd |-> c]
  <1>1. k \in Steps /\ k.do = "need" /\ k.cmd = c
    BY DEF Steps
  <1>2. Fits(d, k, Known(O, {}, H), Known(O, {}, K))
    BY <1>1 DEF Fits, Right, After, Weaker, Known
  <1> QED BY <1>1, <1>2, OneStep, KnownFacts DEF Need, Branches

(* An end of main for want of a message.                                   *)
LEMMA StopKeeps ==
    ASSUME NEW d, NEW O \in SUBSET Cmds, NEW c \in Cmds, 12 \notin O \/ 12 \in d
    PROVE  Keeps(d, O, Stop(c))
  <1> DEFINE k == [do |-> "stop", cmd |-> c]
  <1>1. k \in Steps /\ k.do = "stop" /\ k.cmd = c
    BY DEF Steps
  <1>2. Fits(d, k, Known(O, {}, {}), Known(O, {}, {}))
    BY <1>1 DEF Fits, Right, After, Weaker, Known
  <1> QED BY <1>1, <1>2, OneStep, KnownFacts DEF Stop, Branches, Keeps

(* An end of main for a reason of its own.                                 *)
LEMMA MayStopKeeps ==
    ASSUME NEW d, NEW O \in SUBSET Cmds, 12 \notin O \/ 12 \in d
    PROVE  Keeps(d, O, MayStop)
  <1> DEFINE k == [do |-> "maystop"]
  <1>1. k \in Steps /\ k.do = "maystop"
    BY DEF Steps
  <1>2. Fits(d, k, Known(O, {}, {}), Known(O, {}, {}))
    BY <1>1 DEF Fits, Right, After, Weaker, Known
  <1> QED BY <1>1, <1>2, OneStep, KnownFacts DEF MayStop, Branches, Keeps

(* A body that leads from where H is held to where less is held can be     *)
(* skipped.                                                                *)
LEMMA BranchKeeps ==
    ASSUME NEW d, NEW O \in SUBSET Cmds, NEW H \in SUBSET Cmds, NEW K \in SUBSET H,
           NEW body,
           Leads(d, Known(O, {}, H), body, Known(O, {}, K))
    PROVE  /\ \A c \in Cmds :
                  /\ Leads(d, Known(O, {}, H), IfGot(c, body), Known(O, {}, K))
                  /\ Leads(d, Known(O, {}, H), IfNot(c, body), Known(O, {}, K))
           /\ Leads(d, Known(O, {}, H), Maybe(body), Known(O, {}, K))
  <1>1. body \in Seq(Steps) /\ Len(body) \in Nat /\ K \in SUBSET Cmds
    BY DEF Leads
  <1>2. ASSUME NEW c \in Cmds, NEW do \in {"ifgot", "ifnot"}
        PROVE  LET k == [do |-> do, cmd |-> c, skip |-> Len(body)]
               IN Leads(d, Known(O, {}, H), <<k>> \o body, Known(O, {}, K))
    <2> DEFINE k == [do |-> do, cmd |-> c, skip |-> Len(body)]
    <2>1. k \in Steps /\ k.do = do /\ k.cmd = c /\ k.skip = Len(body)
      BY <1>1 DEF Steps
    <2>2. Fits(d, k, Known(O, {}, H), Known(O, {}, H)) /\ Jumps(k, Known(O, {}, H), Known(O, {}, K))
      BY <2>1 DEF Fits, Jumps, Skipping, Right, After, Weaker, Known
    <2> QED BY <2>1, <2>2, <1>1, InBranch, KnownFacts DEF Branches
  <1>3. LET k == [do |-> "maybe", skip |-> Len(body)]
        IN Leads(d, Known(O, {}, H), <<k>> \o body, Known(O, {}, K))
    <2> DEFINE k == [do |-> "maybe", skip |-> Len(body)]
    <2>1. k \in Steps /\ k.do = "maybe" /\ k.skip = Len(body)
      BY <1>1 DEF Steps
    <2>2. Fits(d, k, Known(O, {}, H), Known(O, {}, H)) /\ Jumps(k, Known(O, {}, H), Known(O, {}, K))
      BY <2>1 DEF Fits, Jumps, Skipping, Right, After, Weaker, Known
    <2> QED BY <2>1, <2>2, <1>1, InBranch, KnownFacts DEF Branches
  <1> QED BY <1>2, <1>3 DEF IfGot, IfNot, Maybe

(* Scripts one after another that keep what is known.                      *)
LEMMA Chains ==
    /\ \A d, O, s, t : Keeps(d, O, s) /\ Keeps(d, O, t) => Keeps(d, O, s \o t)
    /\ \A d, O, s, t : Opens(d, O, s) /\ Keeps(d, O, t) => Opens(d, O, s \o t)
  BY InTurn DEF Keeps, Opens

(* Branches and loops keep what their body keeps; the bodies in the        *)
(* scripts have one to five steps.                                         *)
LEMMA LoopKeeps ==
    ASSUME NEW d, NEW O \in SUBSET Cmds, NEW body, Keeps(d, O, body)
    PROVE  /\ Keeps(d, O, Maybe(body))
           /\ \A c \in Cmds : Keeps(d, O, IfGot(c, body)) /\ Keeps(d, O, IfNot(c, body))
           /\ Len(body) \in 2 .. 5 => Keeps(d, O, ForEach(body))
           /\ Len(body) \in 1 .. 4 => Keeps(d, O, ForSome(body))
  <1>1. /\ Keeps(d, O, Maybe(body))
        /\ \A c \in Cmds : Keeps(d, O, IfGot(c, body)) /\ Keeps(d, O, IfNot(c, body))
    BY BranchKeeps DEF Keeps
  <1>2. ASSUME NEW s, Keeps(d, O, s), Len(s) \in 2 .. 5
        PROVE  Keeps(d, O, ForEach(s))
    BY <1>2, InLoop DEF Keeps
  <1>3. body \in Seq(Steps)
    BY DEF Keeps, Leads
  <1>4. ASSUME Len(body) \in 1 .. 4 PROVE Len(Maybe(body)) \in 2 .. 5
    <2>1. Len(Maybe(body)) = 1 + Len(body)
      <3>1. <<[do |-> "maybe", skip |-> Len(body)]>> \in Seq(Steps)
        BY <1>3 DEF Steps
      <3> QED BY <3>1, <1>3 DEF Maybe
    <2> DEFINE n == Len(body)  m == Len(Maybe(body))
    <2>2. m = 1 + n /\ n \in 1 .. 4
      BY <2>1, <1>4
    <2> HIDE DEF n, m
    <2>3. m \in 2 .. 5
      BY <2>2
    <2> QED BY <2>3 DEF m
  <1> QED BY <1>1, <1>2, <1>4 DEF ForSome

(* A request and the wait for its answer leave nothing open, unless the    *)
(* script doubles the request.                                             *)
LEMMA CallLeads ==
    ASSUME NEW d, NEW O \in SUBSET Cmds, NEW H \in SUBSET Cmds, NEW K \in SUBSET Cmds,
           NEW c \in Asks \ {7, 12}, c \in O <=> c \in d, K \subseteq H \cup {c}
    PROVE  /\ Leads(d, Known(O, {}, H), Call(c), Known(O, {}, K))
           /\ Leads(d, Known(O, {}, H), CallEver(c), Known(O, {}, K))
  <1> DEFINE P == O \cup {c}
  <1>1. c \in Cmds /\ AnsweredAs(c) = c /\ P \in SUBSET Cmds
    BY DEF Asks, AnsweredAs
  <1>2. Leads(d, Known(O, {}, H), Ask(c), Known(P, {c}, H \ {c}))
    BY <1>1, AskLeads
  <1>3. {r \in P : r \in d \cup {12} \/ AnsweredAs(r) # c} \subseteq O
    BY <1>1
  <1>4. /\ Leads(d, Known(P, {c}, H \ {c}), Await(c), Known(O, {}, K))
        /\ Leads(d, Known(P, {c}, H \ {c}), AwaitEver(c), Known(O, {}, K))
    BY <1>1, <1>3, AwaitLeads, AwaitEverLeads
  <1> QED BY <1>2, <1>4, InTurn DEF Call, CallEver

(* The same, where what is held does not matter.                           *)
LEMMA CallKeeps ==
    ASSUME NEW d, NEW O \in SUBSET Cmds, NEW c \in Asks \ {7, 12}, c \in O <=> c \in d
    PROVE  Keeps(d, O, Call(c)) /\ Keeps(d, O, CallEver(c)) /\ Len(Call(c)) = 2
  <1>1. Len(Call(c)) = 2
    BY DEF Call, Ask, Await
  <1> QED BY <1>1, CallLeads DEF Keeps

(* A trade with the wait for its result, or with a time in which           *)
(* everything is read, leaves no trade open.                               *)
LEMMA TradeLeads ==
    ASSUME NEW d, NEW O \in SUBSET Cmds, NEW H \in SUBSET Cmds \ {19},
           12 \notin O, 12 \notin d
    PROVE  /\ Leads(d, Known(O, {}, H), Ask(12) \o Gather, Known(O, {}, H))
           /\ 4 \notin O \cup d => Leads(d, Known(O, {}, H), TradeAndList, Known(O, {}, H))
           /\ \A keep \in BOOLEAN : Keeps(d, O, Ask(12) \o Deal(keep))
           /\ \A keep \in BOOLEAN : Keeps(d, O, Ask(12) \o Deal(keep) \o Need(19))

  <1> DEFINE P == O \cup {12}
  <1>1. 12 \in Asks /\ AnsweredAs(12) = 19 /\ P \in SUBSET Cmds /\ {19} \in SUBSET Cmds
    BY DEF Asks, AnsweredAs, Cmds
  <1>2. /\ Leads(d, Known(O, {}, H), Ask(12), Known(P, {}, H))
        /\ Leads(d, Known(O, {}, {}), Ask(12), Known(P, {19}, {}))
    BY <1>1, AskLeads
  <1>3. Leads(d, Known(P, {}, H), Gather, Known(O, {}, H))
    BY <1>1, GatherLeads
  <1>4. {r \in P : r \in d \/ r # 12} \subseteq O
    OBVIOUS
  <1>5. ASSUME NEW keep \in BOOLEAN
        PROVE  /\ Leads(d, Known(P, {19}, {}), Deal(keep), Known(O, {}, {}))
               /\ Leads(d, Known(P, {19}, {}), Deal(keep), Known(O, {}, {19}))
    BY <1>1, <1>4, DealLeads
  <1>6. Leads(d, Known(O, {}, {19}), Need(19), Known(O, {}, {}))
    BY <1>1, NeedLeads
  <1>7. Leads(d, Known(O, {}, H), Ask(12) \o Gather, Known(O, {}, H))
    BY <1>2, <1>3, InTurn
  <1>8. ASSUME 4 \notin O \cup d
        PROVE  Leads(d, Known(O, {}, H), TradeAndList, Known(O, {}, H))
    <2>1. Leads(d, Known(O, {}, H), Call(4), Known(O, {}, H))
      BY <1>8, CallLeads DEF Asks, Cmds
    <2> QED BY <2>1, <1>7, InTurn DEF TradeAndList
  <1>9. ASSUME NEW keep \in BOOLEAN
        PROVE  /\ Keeps(d, O, Ask(12) \o Deal(keep))
               /\ Keeps(d, O, Ask(12) \o Deal(keep) \o Need(19))
    BY <1>2, <1>5, <1>6, InTurn DEF Keeps
  <1> QED BY <1>7, <1>8, <1>9

(* The lengths of those bodies.                                            *)
LEMMA TradeLength ==
    \A keep \in BOOLEAN : /\ Len(Ask(12) \o Deal(keep)) = 2
                          /\ Len(Ask(12) \o Deal(keep) \o Need(19)) = 3
  BY DEF Ask, Deal, Need

(* Trades, alone and in loops.                                             *)
LEMMA TradeKeeps ==
    ASSUME NEW d, NEW O \in SUBSET Cmds, 12 \notin O, 12 \notin d
    PROVE  /\ Keeps(d, O, Ask(12) \o Gather)
           /\ 4 \notin O \cup d => Keeps(d, O, TradeAndList)
           /\ \A keep \in BOOLEAN :
                 /\ Keeps(d, O, Ask(12) \o Deal(keep))
                 /\ Keeps(d, O, ForSome(Ask(12) \o Deal(keep)))
                 /\ Keeps(d, O, Ask(12) \o Deal(keep) \o Need(19))
                 /\ Keeps(d, O, ForEach(Ask(12) \o Deal(keep) \o Need(19)))
                 /\ Keeps(d, O, ForSome(Ask(12) \o Deal(keep) \o Need(19)))
  <1>1. {} \in SUBSET Cmds \ {19}
    OBVIOUS
  <1>2. /\ Keeps(d, O, Ask(12) \o Gather)
        /\ 4 \notin O \cup d => Keeps(d, O, TradeAndList)
    BY <1>1, TradeLeads DEF Keeps
  <1>3. \A keep \in BOOLEAN :
           /\ Keeps(d, O, Ask(12) \o Deal(keep))
           /\ Keeps(d, O, Ask(12) \o Deal(keep) \o Need(19))
    BY <1>1, TradeLeads
  <1>4. \A keep \in BOOLEAN :
           /\ Keeps(d, O, ForSome(Ask(12) \o Deal(keep)))
           /\ Keeps(d, O, ForEach(Ask(12) \o Deal(keep) \o Need(19)))
           /\ Keeps(d, O, ForSome(Ask(12) \o Deal(keep) \o Need(19)))
    <2> TAKE keep \in BOOLEAN
    <2> DEFINE two == Ask(12) \o Deal(keep)  three == Ask(12) \o Deal(keep) \o Need(19)
    <2>1. Keeps(d, O, two) /\ Keeps(d, O, three) /\ Len(two) = 2 /\ Len(three) = 3
      BY <1>3, TradeLength
    <2> HIDE DEF two, three
    <2>2. Keeps(d, O, ForSome(two))
      BY <2>1, LoopKeeps
    <2>3. Keeps(d, O, ForEach(three)) /\ Keeps(d, O, ForSome(three))
      BY <2>1, LoopKeeps
    <2> QED BY <2>2, <2>3 DEF two, three
  <1> QED BY <1>2, <1>3, <1>4

(* A subscription with its first quote, or with what comes in a time.      *)
LEMMA QuoteLeads ==
    ASSUME NEW d, NEW O \in SUBSET Cmds, 7 \notin O, 7 \notin d, NEW f, NEW s,
           Leads(d, f, s, Known(O, {}, {}))
    PROVE  /\ Leads(d, f, s \o Ask(7) \o Await(8), Known(O, {}, {}))
           /\ Leads(d, f, s \o Ask(7) \o Quote, Known(O, {}, {}))
           /\ Leads(d, f, s \o Ask(7) \o Gather, Known(O, {}, {}))
           /\ Keeps(d, O, Ask(7) \o Await(8))
           /\ Keeps(d, O, Ask(7) \o Gather)
  <1> DEFINE P == O \cup {7}
  <1>1. 7 \in Asks /\ AnsweredAs(7) = 8 /\ P \in SUBSET Cmds /\ {8} \in SUBSET Cmds /\ 8 \in Cmds
    BY DEF Asks, AnsweredAs, Cmds
  <1>2. Leads(d, Known(O, {}, {}), Ask(7), Known(P, {8}, {}))
    BY <1>1, AskLeads
  <1>3. {r \in P : r \in d \cup {12} \/ AnsweredAs(r) # 8} \subseteq O
    BY DEF AnsweredAs
  <1>4. Leads(d, Known(P, {8}, {}), Await(8), Known(O, {}, {}))
    BY <1>1, <1>3, AwaitLeads
  <1>5. Leads(d, Known(P, {8}, {}), Await(8), Known(O, {}, {8}))
    BY <1>1, <1>3, AwaitLeads
  <1>6. Leads(d, Known(O, {}, {8}), Need(8), Known(O, {}, {}))
    BY <1>1, NeedLeads
  <1>7. Leads(d, Known(P, {8}, {}), Quote, Known(O, {}, {}))
    BY <1>5, <1>6, InTurn DEF Quote
  <1>8. Leads(d, Known(P, {8}, {}), Gather, Known(O, {}, {}))
    BY <1>1, GatherLeads
  <1>9. Leads(d, f, s \o Ask(7), Known(P, {8}, {}))
    BY <1>2, InTurn
  <1> QED BY <1>2, <1>4, <1>7, <1>8, <1>9, InTurn DEF Keeps

(* The two requests of the login, and what is read for them.               *)
LEMMA LoginLeads ==
    ASSUME NEW d, NEW O \in SUBSET Cmds, {0, 28} \subseteq O
    PROVE  Opens(d, O, Login)
  <1>1. /\ 0 \in Asks /\ 28 \in Asks /\ {0} \in SUBSET Cmds
        /\ {28} \in SUBSET Cmds /\ {0, 28} \in SUBSET Cmds
        /\ AnsweredAs(0) = 0 /\ AnsweredAs(28) = 28
    BY DEF Asks, Cmds, AnsweredAs
  <1>2. Leads(d, Known({}, {}, {}), Ask(0), Known({0}, {0}, {}))
    BY <1>1, AskLeads
  <1>3. Leads(d, Known({0}, {0}, {}), Hear, Known({0}, {}, {}))
    BY <1>1, HearLeads
  <1>4. Leads(d, Known({0}, {}, {}), Ask(28), Known({0, 28}, {28}, {}))
    BY <1>1, AskLeads
  <1>5. Leads(d, Known({0, 28}, {28}, {}), Hear, Known(O, {}, {}))
    BY <1>1, HearLeads
  <1> QED BY <1>2, <1>3, <1>4, <1>5, InTurn DEF Login, Opens

(* Scripts that trade ask for the account and the symbols first and read   *)
(* the answers in the waits that follow, or never.                         *)
Early == {0, 3, 28, 34}

(* Such a start leaves the answers open, and nothing else.                 *)
LEMMA EarlyOpens ==
    ASSUME NEW d, NEW O \in SUBSET Cmds, Early \subseteq O, 3 \notin d, 34 \notin d
    PROVE  /\ Opens(d, O, Login \o Ask(34))
           /\ Opens(d, O, Login \o Ask(3) \o Ask(34))
  <1>1. /\ 3 \in Asks /\ 34 \in Asks /\ {0, 28} \in SUBSET Cmds
        /\ {0, 3, 28} \in SUBSET Cmds
    BY DEF Asks, Cmds
  <1>2. Leads(d, Known({}, {}, {}), Login, Known({0, 28}, {}, {}))
    BY <1>1, LoginLeads DEF Opens
  <1>3. Leads(d, Known({0, 28}, {}, {}), Ask(34), Known(O, {}, {}))
    BY <1>1, AskLeads DEF Early
  <1>4. Leads(d, Known({0, 28}, {}, {}), Ask(3), Known({0, 3, 28}, {}, {}))
    BY <1>1, AskLeads
  <1>5. Leads(d, Known({0, 3, 28}, {}, {}), Ask(34), Known(O, {}, {}))
    BY <1>1, AskLeads DEF Early
  <1> QED BY <1>2, <1>3, <1>4, <1>5, InTurn DEF Opens

(* When everything is read after it, the symbols are there.                *)
LEMMA GatherOpens ==
    ASSUME NEW d, NEW O \in SUBSET Cmds, 3 \notin d, 34 \notin d
    PROVE  /\ Leads(d, Known({}, {}, {}), Login \o Ask(3) \o Ask(34) \o Gather, Known(O, {}, {34}))
           /\ Opens(d, O, Login \o Ask(3) \o Ask(34) \o Gather)
  <1>1. /\ 3 \in Asks /\ 34 \in Asks /\ AnsweredAs(34) = 34 /\ {34} \in SUBSET Cmds
        /\ {0, 28} \in SUBSET Cmds /\ {0, 3, 28} \in SUBSET Cmds /\ {0, 3, 28, 34} \in SUBSET Cmds
    BY DEF Asks, Cmds, AnsweredAs
  <1>2. Leads(d, Known({}, {}, {}), Login, Known({0, 28}, {}, {}))
    BY <1>1, LoginLeads DEF Opens
  <1>3. Leads(d, Known({0, 28}, {}, {}), Ask(3), Known({0, 3, 28}, {}, {}))
    BY <1>1, AskLeads
  <1>4. Leads(d, Known({0, 3, 28}, {}, {}), Ask(34), Known({0, 3, 28, 34}, {34}, {}))
    BY <1>1, AskLeads
  <1>5. /\ Leads(d, Known({0, 3, 28, 34}, {34}, {}), Gather, Known(O, {}, {34}))
        /\ Leads(d, Known({0, 3, 28, 34}, {34}, {}), Gather, Known(O, {}, {}))
    BY <1>1, GatherLeads
  <1> QED BY <1>2, <1>3, <1>4, <1>5, InTurn DEF Opens

-----------------------------------------------------------------------------
(* What the scripts that start so are made of.                             *)
LEMMA EarlyPieces ==
    /\ Opens({}, Early, Login \o Ask(34) \o Ask(7) \o Quote)
    /\ Opens({}, Early, Login \o Ask(3) \o Ask(34) \o Ask(7) \o Quote)
    /\ Opens({}, Early, Login \o Ask(3) \o Ask(34) \o Ask(7) \o Await(8))
    /\ \A c \in {4, 5} : Keeps({}, Early, Call(c)) /\ Keeps({}, Early, CallEver(c))
    /\ Keeps({}, Early, MayStop) /\ Keeps({}, Early, Stop(4))
    /\ Keeps({}, Early, Ask(12) \o Gather)
    /\ Keeps({}, Early, Ask(7) \o Await(8))
    /\ \A keep \in BOOLEAN :
          /\ Keeps({}, Early, Ask(12) \o Deal(keep))
          /\ Keeps({}, Early, ForSome(Ask(12) \o Deal(keep)))
          /\ Keeps({}, Early, Ask(12) \o Deal(keep) \o Need(19))
          /\ Keeps({}, Early, ForEach(Ask(12) \o Deal(keep) \o Need(19)))
          /\ Keeps({}, Early, ForSome(Ask(12) \o Deal(keep) \o Need(19)))
    /\ \A s : Keeps({}, Early, s) => Keeps({}, Early, Maybe(s)) /\ Keeps({}, Early, IfGot(4, s))
  <1>1. Early \in SUBSET Cmds /\ 12 \notin Early /\ 7 \notin Early /\ 4 \notin Early /\ 5 \notin Early
    BY DEF Early, Cmds
  <1>2. /\ Opens({}, Early, Login \o Ask(34) \o Ask(7) \o Quote)
        /\ Opens({}, Early, Login \o Ask(3) \o Ask(34) \o Ask(7) \o Quote)
        /\ Opens({}, Early, Login \o Ask(3) \o Ask(34) \o Ask(7) \o Await(8))
    BY <1>1, EarlyOpens, QuoteLeads DEF Opens
  <1>3. \A c \in {4, 5} : Keeps({}, Early, Call(c)) /\ Keeps({}, Early, CallEver(c))
    BY <1>1, CallKeeps DEF Asks, Cmds
  <1>4. /\ Keeps({}, Early, MayStop) /\ Keeps({}, Early, Stop(4))
        /\ Keeps({}, Early, Ask(7) \o Await(8))
    BY <1>1, <1>2, MayStopKeeps, StopKeeps, QuoteLeads DEF Cmds, Opens
  <1>5. \A s : Keeps({}, Early, s) => Keeps({}, Early, Maybe(s)) /\ Keeps({}, Early, IfGot(4, s))
    BY <1>1, LoopKeeps DEF Cmds
  <1> QED BY <1>1, <1>2, <1>3, <1>4, <1>5, TradeKeeps

(* The scripts that do, one by one.                                        *)
LEMMA FlowClean == Opens({}, Early, Clean)
  BY EarlyPieces, Chains DEF Clean, CleanTrade, CleanPositions

LEMMA FlowCancel == Opens({}, Early, Cancel)
  BY EarlyPieces, Chains DEF Cancel, CancelTrade, CancelOrders

LEMMA FlowCancel2 == Opens({}, Early, Cancel2)
  BY EarlyPieces, Chains DEF Cancel2, Cancel2Trade, Cancel2Orders

LEMMA FlowPending == Opens({}, Early, Pending)
  BY EarlyPieces, Chains DEF Pending, PendingTrade

LEMMA FlowPending2 == Opens({}, Early, Pending2)
  BY EarlyPieces, Chains DEF Pending2, Pending2Trade

LEMMA FlowPartial == Opens({}, Early, Partial)
  BY EarlyPieces, Chains DEF Partial, PartialTrade

LEMMA FlowSltpMain == Opens({}, Early, SltpMain)
  BY EarlyPieces, Chains DEF SltpMain, SltpTrade, SltpPositions

LEMMA FlowModify3 == Opens({}, Early, Modify3)
  BY EarlyPieces, Chains DEF Modify3, Modify3Change, Modify3Open, Modify3Trade, Modify3Positions

LEMMA FlowModify4 == Opens({}, Early, Modify4)
  BY EarlyPieces, Chains DEF Modify4, Modify4Trade, Modify4Positions

LEMMA FlowFinal == Opens({}, Early, Final)
  BY EarlyPieces, Chains DEF Final, FinalTrade, FinalPositions

LEMMA FlowOrder == Opens({}, Early, Order)
  BY EarlyPieces, Chains DEF Order, OrderTrade, OrderOrders

LEMMA FlowStopLimit == Opens({}, Early, StopLimit)
  BY EarlyPieces, Chains DEF StopLimit, StopTrade, StopOrders

LEMMA FlowAll == Opens({}, Early, All)
  BY EarlyPieces, Chains DEF All, AllTrade, AllPositions

LEMMA FlowAll3 == Opens({}, Early, All3)
  BY EarlyPieces, Chains DEF All3, All3Trade

LEMMA FlowDebugModifyMain == Opens({}, Early, DebugModifyMain)
  BY EarlyPieces, Chains DEF DebugModifyMain, DebugModifyList, DebugModifyTrade

(* A request and its wait written out in a longer script.                  *)
LEMMA Regroup ==
    ASSUME NEW d, NEW O \in SUBSET Cmds, NEW s, NEW c \in Asks, NEW t,
           Keeps(d, O, Ask(c) \o t), t \in Seq(Steps)
    PROVE  /\ Opens(d, O, s) => Opens(d, O, s \o Ask(c) \o t)
           /\ Keeps(d, O, s) => Keeps(d, O, s \o Ask(c) \o t)
  <1>1. Ask(c) \in Seq(Steps)
    BY DEF Ask, Steps
  <1>2. s \in Seq(Steps) => s \o Ask(c) \o t = s \o (Ask(c) \o t)
    BY <1>1
  <1>3. Opens(d, O, s) \/ Keeps(d, O, s) => s \in Seq(Steps)
    BY DEF Opens, Keeps, Leads
  <1> QED BY <1>2, <1>3, Chains

(* The two waits of that kind.                                             *)
LEMMA PlainSteps ==
    /\ Gather \in Seq(Steps) /\ \A c \in Cmds : Await(c) \in Seq(Steps)
  BY DEF Gather, Await, Steps

(* ws_trade_single.py: the trade is sent and read for in main.             *)
LEMMA FlowSingle == Opens({}, Early, Single)
  <1>1. Early \in SUBSET Cmds /\ 12 \in Asks
    BY DEF Early, Cmds, Asks
  <1>2. Opens({}, Early, SingleMain)
    BY <1>1, EarlyPieces, PlainSteps, Regroup DEF SingleMain
  <1> QED BY <1>2, EarlyPieces, Chains DEF Single, SingleCheck

(* ws_test_all_orders2.py: a second subscription at the end.               *)
LEMMA FlowAll2 == Opens({}, Early, All2)
  <1>1. Early \in SUBSET Cmds /\ 7 \in Asks /\ 8 \in Cmds
    BY DEF Early, Cmds, Asks
  <1> DEFINE front == Login \o Ask(34) \o Ask(7) \o Quote \o ForEach(All2Trade) \o CallEver(4)
  <1>2. Opens({}, Early, front)
    BY EarlyPieces, Chains DEF All2Trade
  <1> HIDE DEF front
  <1>3. Opens({}, Early, front \o Ask(7) \o Await(8))
    BY <1>1, <1>2, EarlyPieces, PlainSteps, Regroup
  <1> QED BY <1>3 DEF front, All2

(* The scripts that read each answer before the next request leave open    *)
(* only the two logins, which are not sent again.                          *)
First == {0, 28}

(* What those scripts are made of.                                         *)
LEMMA FirstPieces ==
    /\ Opens({}, First, Login)
    /\ \A c \in {3, 4, 5, 6, 11, 18, 34} :
          /\ Keeps({}, First, Call(c)) /\ Keeps({}, First, CallEver(c))
          /\ Keeps({}, First, ForEach(Call(c))) /\ Keeps({}, First, ForSome(Call(c)))
    /\ \A c \in Cmds : Keeps({}, First, Stop(c))
    /\ Keeps({}, First, TradeAndList)
    /\ Keeps({}, First, Ask(7) \o Gather)
    /\ Keeps({}, First, Ask(7) \o Await(8))
    /\ \A keep \in BOOLEAN :
          /\ Keeps({}, First, Ask(12) \o Deal(keep))
          /\ Keeps({}, First, ForSome(Ask(12) \o Deal(keep)))
  <1>1. First \in SUBSET Cmds /\ First \cap {3, 4, 5, 6, 7, 11, 12, 18, 34} = {}
    BY DEF First, Cmds
  <1>2. Opens({}, First, Login)
    BY <1>1, LoginLeads DEF First
  <1>3. \A c \in {3, 4, 5, 6, 11, 18, 34} :
           Keeps({}, First, Call(c)) /\ Keeps({}, First, CallEver(c)) /\ Len(Call(c)) = 2
    BY <1>1, CallKeeps DEF Asks, Cmds
  <1>4. \A c \in {3, 4, 5, 6, 11, 18, 34} :
           Keeps({}, First, ForEach(Call(c))) /\ Keeps({}, First, ForSome(Call(c)))
    <2> TAKE c \in {3, 4, 5, 6, 11, 18, 34}
    <2> DEFINE body == Call(c)
    <2>1. Keeps({}, First, body) /\ Len(body) = 2
      BY <1>3
    <2> HIDE DEF body
    <2>2. Keeps({}, First, ForEach(body)) /\ Keeps({}, First, ForSome(body))
      BY <1>1, <2>1, LoopKeeps
    <2> QED BY <2>2 DEF body
  <1>5. \A c \in Cmds : Keeps({}, First, Stop(c))
    BY <1>1, StopKeeps
  <1>6. Keeps({}, First, Ask(7) \o Gather) /\ Keeps({}, First, Ask(7) \o Await(8))
    BY <1>1, <1>2, QuoteLeads DEF Opens
  <1> QED BY <1>1, <1>2, <1>3, <1>4, <1>5, <1>6, TradeKeeps

(* The scripts that do, one by one.                                        *)
LEMMA FlowMulti == Opens({}, First, Multi)
  BY FirstPieces, Chains DEF Multi, MultiSymbols, MultiQuotes, MultiTrade, MultiPositions, Cmds

LEMMA FlowCandlesMain == Opens({}, First, CandlesMain)
  BY FirstPieces, Chains DEF CandlesMain, CandlesRequest, Cmds

LEMMA FlowScanAll == Opens({}, First, ScanAll)
  BY FirstPieces, Chains DEF ScanAll, ScanOne, Cmds

LEMMA FlowDebugTrade3 == Opens({}, First, DebugTrade3)
  BY FirstPieces, Chains DEF DebugTrade3, DebugTrade3Find, DebugTrade3Tests, Cmds

(* The scripts that send one request, or two, and end.                     *)
LEMMA FlowLists ==
    /\ Opens({}, First, CheckDeals)
    /\ Opens({}, First, CheckDeals2)
    /\ Opens({}, First, ScanSpec)
    /\ Opens({}, First, SymbolSpec)
    /\ Opens({}, First, DebugDeals)
    /\ Opens({}, First, DebugDeals2)
    /\ Opens({}, First, DebugDeals3)
    /\ Opens({}, First, DebugDeals4)
    /\ Opens({}, First, DebugSize)
    /\ Opens({}, First, DebugVerify)
    /\ Opens({}, First, DebugCmd4)
  BY FirstPieces, Chains
     DEF Cmds, CheckDeals, CheckDeals2, ScanSpec, SymbolSpec, DebugDeals, DebugDeals2,
         DebugDeals3, DebugDeals4, DebugSize, DebugVerify, DebugCmd4

(* The symbols are there when the candles of one are asked for.            *)
LEMMA FlowRange == Opens({}, First, RangeMain)
  <1>1. /\ First \in SUBSET Cmds /\ 34 \in Asks \ {7, 12} /\ 34 \notin First
        /\ {34} \in SUBSET Cmds
    BY DEF First, Cmds, Asks
  <1>2. Leads({}, Known(First, {}, {}), RangeSymbols, Known(First, {}, {34}))
    BY <1>1, CallLeads DEF RangeSymbols
  <1>3. Leads({}, Known(First, {}, {34}), Need(34), Known(First, {}, {}))
    BY <1>1, NeedLeads
  <1>4. Opens({}, First, Login \o RangeSymbols \o Need(34))
    BY <1>2, <1>3, FirstPieces, InTurn DEF Opens
  <1>5. Keeps({}, First, ForEach(RangeCandles)) /\ Keeps({}, First, ForSome(RangeCandles))
    BY FirstPieces DEF RangeCandles
  <1> QED BY <1>4, <1>5, Chains DEF RangeMain

(* ws_client.py: the list of positions is there when it is read.           *)
LEMMA FlowClient == Opens({}, {0}, Client)
  <1> DEFINE start == Login \o Ask(3) \o Ask(34) \o Gather \o Stop(34)
             retry == IfNot(8, Ask(7) \o Await(8))
  <1>1. /\ {0} \in SUBSET Cmds /\ 34 \in Cmds /\ 8 \in Cmds /\ 3 \in Cmds /\ 7 \in Asks /\ 12 \in Asks
        /\ 3 \in Asks \ {7, 12} /\ 4 \in Asks \ {7, 12} /\ {4} \in SUBSET Cmds
    BY DEF Asks, Cmds
  <1>2. Opens({}, {0}, start)
    <2>1. Opens({}, {0}, Login \o Ask(3) \o Ask(34) \o Gather)
      BY <1>1, GatherOpens
    <2>2. Keeps({}, {0}, Stop(34))
      <3>1. 12 \notin {0}
        OBVIOUS
      <3> QED BY <1>1, <3>1, StopKeeps
    <2> QED BY <2>1, <2>2, Chains
  <1>3. Keeps({}, {0}, Ask(7) \o Await(8))
    BY <1>1, <1>2, QuoteLeads DEF Opens
  <1>4. Keeps({}, {0}, retry)
    BY <1>1, <1>3, LoopKeeps
  <1> HIDE DEF start, retry
  <1>5. Opens({}, {0}, start \o Ask(7) \o Await(8))
    BY <1>1, <1>2, <1>3, PlainSteps, Regroup
  <1>6. Keeps({}, {0}, Stop(8)) /\ Keeps({}, {0}, Call(3)) /\ Keeps({}, {0}, Call(4))
    BY <1>1, StopKeeps, CallKeeps
  <1>7. Opens({}, {0}, ClientMain)
    BY <1>4, <1>5, <1>6, Chains DEF ClientMain, start, retry
  <1>8. Keeps({}, {0}, Ask(12) \o Gather)
    BY <1>1, TradeKeeps
  <1>9. /\ Leads({}, Known({0}, {}, {}), Call(4), Known({0}, {}, {4}))
        /\ Leads({}, Known({0}, {}, {4}), Call(3), Known({0}, {}, {4}))
    BY <1>1, CallLeads
  <1>10. Leads({}, Known({0}, {}, {4}), IfGot(3, Need(4)), Known({0}, {}, {}))
    <2>1. Leads({}, Known({0}, {}, {4}), Need(4), Known({0}, {}, {}))
      BY <1>1, NeedLeads
    <2> QED BY <1>1, <2>1, BranchKeeps
  <1>11. Keeps({}, {0}, ClientTrade)
    BY <1>8, <1>9, <1>10, InTurn DEF Keeps, ClientTrade
  <1> QED BY <1>7, <1>11, Chains DEF Client

(* ws_history.py: the list of positions and the symbols are there when     *)
(* they are read, the second after a trade.                                *)
LEMMA FlowHistory == Opens({}, {0}, History)
  <1>1. /\ {0} \in SUBSET Cmds /\ {34} \in SUBSET Cmds /\ {4, 34} \in SUBSET Cmds /\ 8 \in Cmds /\ 7 \in Asks
        /\ 4 \in Asks \ {7, 12} /\ 5 \in Asks \ {7, 12} /\ {34} \in SUBSET Cmds \ {19}
    BY DEF Asks, Cmds
  <1>2. Leads({}, Known({}, {}, {}), Login \o Ask(3) \o Ask(34) \o Gather, Known({0}, {}, {34}))
    BY <1>1, GatherOpens
  <1>3. /\ Leads({}, Known({0}, {}, {34}), Call(4), Known({0}, {}, {4, 34}))
        /\ Leads({}, Known({0}, {}, {4, 34}), Call(5), Known({0}, {}, {4, 34}))
    BY <1>1, CallLeads
  <1>4. Leads({}, Known({}, {}, {}), HistoryLists, Known({0}, {}, {4, 34}))
    BY <1>2, <1>3, InTurn DEF HistoryLists
  <1>5. Leads({}, Known({0}, {}, {4, 34}), Need(4), Known({0}, {}, {34}))
    BY <1>1, NeedLeads
  <1>6. Leads({}, Known({0}, {}, {34}), TradeAndList, Known({0}, {}, {34}))
    <2>1. 12 \notin {0} /\ 12 \notin {} /\ 4 \notin {0} \cup {}
      OBVIOUS
    <2> QED BY <1>1, <2>1, TradeLeads
  <1>7. Leads({}, Known({0}, {}, {34}), Maybe(TradeAndList), Known({0}, {}, {34}))
    BY <1>1, <1>6, BranchKeeps
  <1>8. Leads({}, Known({0}, {}, {34}), Need(34), Known({0}, {}, {}))
    BY <1>1, NeedLeads
  <1>9. /\ Keeps({}, {0}, TradeAndList) /\ Keeps({}, {0}, IfGot(8, TradeAndList))
    BY <1>1, TradeKeeps, LoopKeeps
  <1> DEFINE front == Need(4) \o Maybe(TradeAndList) \o Need(34)
  <1>10. Leads({}, Known({0}, {}, {4, 34}), front, Known({0}, {}, {}))
    BY <1>5, <1>7, <1>8, InTurn
  <1> HIDE DEF front
  <1>11. Leads({}, Known({0}, {}, {4, 34}), front \o Ask(7) \o Await(8), Known({0}, {}, {}))
    BY <1>1, <1>10, QuoteLeads
  <1>12. Leads({}, Known({0}, {}, {4, 34}), HistoryTrades, Known({0}, {}, {}))
    BY <1>9, <1>11, InTurn DEF Keeps, HistoryTrades, front
  <1> QED BY <1>4, <1>12, InTurn DEF Opens, History

(* ws_debug_positions.py: the answer to command 22 is never waited for.    *)
LEMMA FlowDebugPositions == Opens({}, {22}, DebugPositions)
  <1> DEFINE S == {22}  P == {7}  Q == {7, 22}
  <1>1. /\ S \in SUBSET Cmds /\ P \in SUBSET Cmds /\ Q \in SUBSET Cmds
        /\ {34} \in SUBSET Cmds /\ {8} \in SUBSET Cmds /\ 8 \in Cmds
        /\ 7 \in Asks /\ 22 \in Asks /\ AnsweredAs(7) = 8 /\ AnsweredAs(22) = 22
        /\ 3 \in Asks \ {7, 12} /\ 5 \in Asks \ {7, 12}
    BY DEF Asks, Cmds, AnsweredAs
  <1>2. Leads({}, Known({}, {}, {}), Login \o Ask(3) \o Ask(34) \o Gather, Known({}, {}, {34}))
    BY GatherOpens
  <1>3. Leads({}, Known({}, {}, {34}), Need(34), Known({}, {}, {}))
    BY <1>1, NeedLeads
  <1>4. Leads({}, Known({}, {}, {}), Ask(7), Known(P, {8}, {}))
    BY <1>1, AskLeads
  <1>5. Leads({}, Known(P, {8}, {}), Ask(22), Known(Q, {8}, {}))
    BY <1>1, AskLeads
  <1>6. {r \in Q : r \in {} \cup {12} \/ AnsweredAs(r) # 8} \subseteq S
    BY <1>1
  <1>7. Leads({}, Known(Q, {8}, {}), Await(8), Known(S, {}, {}))
    BY <1>1, <1>6, AwaitLeads
  <1>8. /\ Keeps({}, S, Call(5)) /\ Keeps({}, S, Call(3))
        /\ Keeps({}, S, IfNot(8, Call(5))) /\ Keeps({}, S, TradeAndList)
    BY <1>1, CallKeeps, LoopKeeps, TradeKeeps
  <1> HIDE DEF S, P, Q
  <1>9. Opens({}, S, Login \o Ask(3) \o Ask(34) \o Gather \o Need(34) \o Ask(7) \o Ask(22) \o Await(8))
    BY <1>2, <1>3, <1>4, <1>5, <1>7, InTurn DEF Opens
  <1>10. Opens({}, S, DebugPositionsFind)
    BY <1>8, <1>9, Chains DEF DebugPositionsFind
  <1>11. Keeps({}, S, DebugPositionsTest)
    BY <1>8, Chains DEF DebugPositionsTest
  <1> QED BY <1>10, <1>11, Chains DEF DebugPositions, S

(* The commands that are asked for twice before an answer is read, in the  *)
(* three scripts of Twice.                                                 *)
Twofold == {17, 34}

(* What stays open in them.                                                *)
Again == {0, 17, 28, 34}

(* What those scripts are made of.                                         *)
LEMMA AgainPieces ==
    /\ Opens(Twofold, Again, Login)
    /\ \A c \in {3, 4, 5, 11, 17} : Keeps(Twofold, Again, Call(c))
    /\ Keeps(Twofold, Again, Ask(34)) /\ Keeps(Twofold, Again, Ask(17))
    /\ Keeps(Twofold, Again, Call(34) \o Need(34))
    /\ Keeps(Twofold, Again, TradeAndList)
  <1>1. /\ Again \in SUBSET Cmds /\ 17 \in Asks /\ 34 \in Asks \ {7, 12}
        /\ {0, 28} \subseteq Again /\ {34} \in SUBSET Cmds
        /\ Again \cap {3, 4, 5, 11, 12} = {} /\ Twofold \cap {3, 4, 5, 11, 12} = {}
        /\ 17 \in Again \cap Twofold /\ 34 \in Again \cap Twofold
    BY DEF Again, Twofold, Asks, Cmds
  <1>2. Opens(Twofold, Again, Login)
    BY <1>1, LoginLeads
  <1>3. \A c \in {3, 4, 5, 11, 17} : Keeps(Twofold, Again, Call(c))
    BY <1>1, CallKeeps DEF Asks, Cmds
  <1>4. Keeps(Twofold, Again, Ask(34)) /\ Keeps(Twofold, Again, Ask(17))
    BY <1>1, AskLeads DEF Keeps
  <1>5. /\ Leads(Twofold, Known(Again, {}, {}), Call(34), Known(Again, {}, {34}))
        /\ Leads(Twofold, Known(Again, {}, {34}), Need(34), Known(Again, {}, {}))
    BY <1>1, CallLeads, NeedLeads
  <1>6. Keeps(Twofold, Again, Call(34) \o Need(34))
    BY <1>5, InTurn DEF Keeps
  <1>7. Keeps(Twofold, Again, TradeAndList)
    BY <1>1, TradeKeeps
  <1> QED BY <1>2, <1>3, <1>4, <1>6, <1>7

(* How they start: the symbols are there, though nobody knows for which of *)
(* the two requests.                                                       *)
LEMMA FindsSymbols ==
    Opens(Twofold, Again,
          Login \o Call(3) \o Ask(34) \o Call(34) \o Need(34) \o Call(11))
  <1> DEFINE front == Login \o Call(3) \o Ask(34)
  <1>1. Opens(Twofold, Again, front)
    BY AgainPieces, Chains
  <1>2. front \in Seq(Steps)
    BY <1>1 DEF Opens, Leads
  <1> HIDE DEF front
  <1>3. Call(34) \in Seq(Steps) /\ Need(34) \in Seq(Steps)
    BY DEF Call, Ask, Await, Need, Steps, Cmds, Asks
  <1>4. front \o Call(34) \o Need(34) = front \o (Call(34) \o Need(34))
    BY <1>2, <1>3
  <1>5. Opens(Twofold, Again, front \o Call(34) \o Need(34))
    BY <1>1, <1>4, AgainPieces, Chains
  <1> QED BY <1>5, AgainPieces, Chains DEF front

(* The three scripts.                                                      *)
LEMMA FlowDebugRates == Opens(Twofold, Again, DebugRates)
  BY FindsSymbols, AgainPieces, Chains DEF DebugRates

LEMMA FlowDebugTrade == Opens(Twofold, Again, DebugTrade)
  BY FindsSymbols, AgainPieces, Chains DEF DebugTrade, DebugTradeFind, DebugTradeTests

LEMMA FlowDebugTrade2 == Opens(Twofold, Again, DebugTrade2)
  BY FindsSymbols, AgainPieces, Chains DEF DebugTrade2, DebugTrade2Find, DebugTrade2Tests

(* Scripts that take the first event of a trade for its result leave       *)
(* trades open.                                                            *)
Loose == Early \cup {12}

(* What those scripts are made of.                                         *)
LEMMA LoosePieces ==
    /\ Opens({12}, Loose, Login \o Ask(3) \o Ask(34) \o Ask(7) \o Await(8))
    /\ Opens({12}, Loose, Login \o Ask(3) \o Ask(34) \o Gather)
    /\ \A c \in {4, 6, 18} : Keeps({12}, Loose, Call(c))
    /\ Keeps({12}, Loose, Ask(12) \o Await(19))
    /\ Keeps({12}, Loose, Ask(12) \o (Ask(12) \o Await(19)))
    /\ Keeps({12}, Loose, Ask(7) \o Await(8))
    /\ Keeps({12}, Loose, Await(AnyCmd))
    /\ \A c \in Cmds : Keeps({12}, Loose, Stop(c))
    /\ Loose \in SUBSET Cmds
  <1>1. /\ Loose \in SUBSET Cmds /\ 12 \in Asks /\ 19 \in Cmds /\ 12 \in Loose
        /\ Early \subseteq Loose /\ Loose \cap {4, 6, 7, 18} = {}
    BY DEF Loose, Early, Asks, Cmds
  <1>2. Opens({12}, Loose, Login \o Ask(3) \o Ask(34))
    BY <1>1, EarlyOpens
  <1>3. /\ Opens({12}, Loose, Login \o Ask(3) \o Ask(34) \o Ask(7) \o Await(8))
        /\ Keeps({12}, Loose, Ask(7) \o Await(8))
    BY <1>1, <1>2, QuoteLeads DEF Opens
  <1>4. Opens({12}, Loose, Login \o Ask(3) \o Ask(34) \o Gather)
    BY <1>1, GatherOpens
  <1>5. \A c \in {4, 6, 18} : Keeps({12}, Loose, Call(c))
    BY <1>1, CallKeeps DEF Asks, Cmds
  <1>6. Keeps({12}, Loose, Ask(12))
    BY <1>1, AskLeads DEF Keeps
  <1>7. Keeps({12}, Loose, Await(19)) /\ Keeps({12}, Loose, Await(AnyCmd))
    BY <1>1, AwaitLeads DEF Keeps
  <1>8. Keeps({12}, Loose, Ask(12) \o Await(19))
    BY <1>6, <1>7, Chains
  <1>9. Keeps({12}, Loose, Ask(12) \o (Ask(12) \o Await(19)))
    BY <1>6, <1>8, Chains
  <1>10. \A c \in Cmds : Keeps({12}, Loose, Stop(c))
    BY <1>1, StopKeeps
  <1> QED BY <1>1, <1>3, <1>4, <1>5, <1>7, <1>8, <1>9, <1>10

(* ws_trade_full.py                                                        *)
LEMMA FlowFull == Opens({12}, Loose, FullMain)
  <1>1. Keeps({12}, Loose, FullTrade) /\ Len(FullTrade) = 2
    BY LoosePieces DEF FullTrade, Ask, Await
  <1>2. Keeps({12}, Loose, ForSome(FullTrade))
    BY <1>1, LoosePieces, LoopKeeps
  <1>3. Keeps({12}, Loose, FullPositions)
    BY LoosePieces DEF FullPositions
  <1>4. Keeps({12}, Loose, Maybe(ForSome(FullTrade) \o FullPositions))
    BY <1>2, <1>3, LoosePieces, LoopKeeps, Chains
  <1> QED BY <1>1, <1>3, <1>4, LoosePieces, Chains DEF FullMain

(* ws_trade_test.py                                                        *)
LEMMA FlowTest == Opens({12}, Loose, TestMain)
  <1> DEFINE tail == IfNot(19, Await(AnyCmd))
             body == Ask(12) \o TestDrain \o tail
             front == Login \o Ask(3) \o Ask(34) \o Ask(7) \o Await(8)
                      \o ForEach(body)
  <1>1. 19 \in Cmds /\ 12 \in Asks
    BY DEF Cmds, Asks
  <1>2. Keeps({12}, Loose, tail)
    BY <1>1, LoosePieces, LoopKeeps
  <1>3. Keeps({12}, Loose, Ask(12) \o TestDrain) /\ TestDrain \in Seq(Steps)
    BY LoosePieces DEF TestDrain, Keeps, Leads
  <1>4. Keeps({12}, Loose, body)
    BY <1>2, <1>3, Chains
  <1>5. Len(body) = 5
    BY DEF TestDrain, Ask, Await, IfNot
  <1>6. Keeps({12}, Loose, ForEach(body))
    <2> HIDE DEF body
    <2> QED BY <1>4, <1>5, LoosePieces, LoopKeeps
  <1>7. Opens({12}, Loose, front)
    BY <1>6, LoosePieces, Chains
  <1> HIDE DEF front
  <1>8. Opens({12}, Loose, front \o Ask(12) \o TestDrain)
    BY <1>1, <1>3, <1>7, LoosePieces, Regroup
  <1> QED BY <1>8 DEF front, TestMain

(* ws_diag_exemode.py                                                      *)
LEMMA FlowExemode == Opens({12}, Loose, Exemode)
  <1> DEFINE body == Ask(12) \o Await(19)
             retry == IfNot(8, Ask(7) \o Await(8))
  <1>1. 8 \in Cmds /\ 18 \in Cmds /\ 34 \in Cmds /\ 7 \in Asks
    BY DEF Cmds, Asks
  <1>2. Keeps({12}, Loose, body) /\ Len(body) = 2
    BY LoosePieces DEF Ask, Await
  <1>3. Keeps({12}, Loose, ForEach(body))
    <2>1. Len(body) \in 2 .. 5
      BY <1>2
    <2>2. Loose \in SUBSET Cmds
      BY LoosePieces
    <2> HIDE DEF body
    <2> QED BY <1>2, <2>1, <2>2, LoopKeeps
  <1>4. Keeps({12}, Loose, retry) /\ Keeps({12}, Loose, IfNot(18, Call(6)))
    BY <1>1, LoosePieces, LoopKeeps
  <1>5. Opens({12}, Loose, ExemodeFind)
    BY <1>1, <1>4, LoosePieces, Chains DEF ExemodeFind
  <1>6. Keeps({12}, Loose, ExemodeTrade)
    BY <1>1, <1>3, <1>4, LoosePieces, Chains DEF ExemodeTrade
  <1> QED BY <1>5, <1>6, Chains DEF Exemode

-----------------------------------------------------------------------------
(* The commands a script may ask for while a request with the same command *)
(* is open.                                                                *)
Doubled(n) == IF n \in Hasty THEN {12} ELSE IF n \in Twice THEN Twofold ELSE {}

(* The scripts by the way they start.                                      *)
EarlyScripts ==
    {"trade_clean", "trade_single", "test_cancel", "test_cancel2", "test_pending",
     "test_pending2", "test_partial_close", "test_modify_sltp", "test_modify_v3",
     "test_modify_v4", "test_modify_final", "test_modify_order", "test_stoplimit",
     "test_all_orders", "test_all_orders2", "test_all_orders3", "debug_modify"}

FirstScripts ==
    {"test_multisymbol", "test_candles", "test_candle_range", "check_deals",
     "check_deals2", "scan_spec", "get_symbol_spec", "scan_all_symbols",
     "debug_trade3", "debug_deals", "debug_deals2", "debug_deals3", "debug_deals4",
     "debug_size", "debug_verify", "debug_cmd4"}

(* Each of them leads from nothing asked to nothing due.                   *)
LEMMA EarlyFlow == \A n \in EarlyScripts : Opens({}, Early, Scripts[n])
  BY FlowClean, FlowSingle, FlowCancel, FlowCancel2, FlowPending, FlowPending2,
     FlowPartial, FlowSltpMain, FlowModify3, FlowModify4, FlowFinal, FlowOrder,
     FlowStopLimit, FlowAll, FlowAll2, FlowAll3, FlowDebugModifyMain
     DEF EarlyScripts, Scripts

LEMMA FirstFlow == \A n \in FirstScripts : Opens({}, First, Scripts[n])
  BY FlowMulti, FlowCandlesMain, FlowRange, FlowScanAll, FlowDebugTrade3, FlowLists
     DEF FirstScripts, Scripts

LEMMA OtherFlow ==
    /\ Opens({}, {0}, Scripts["client"]) /\ Opens({}, {0}, Scripts["history"])
    /\ Opens({}, {22}, Scripts["debug_positions"])
    /\ \A n \in Twice : Opens(Twofold, Again, Scripts[n])
    /\ \A n \in Hasty : Opens({12}, Loose, Scripts[n])
  BY FlowClient, FlowHistory, FlowDebugPositions, FlowDebugRates, FlowDebugTrade,
     FlowDebugTrade2, FlowFull, FlowTest, FlowExemode
     DEF Twice, Hasty, Scripts

(* There are no others.                                                    *)
LEMMA Named ==
    DOMAIN Scripts = EarlyScripts \cup FirstScripts \cup Twice \cup Hasty
                     \cup {"client", "history", "debug_positions"}
  BY DEF Scripts, EarlyScripts, FirstScripts, Twice, Hasty

(* Every script, whatever the number of rounds of its loops, can be run so *)
(* that each wait drops nothing that a later step needs, no request is     *)
(* sent while another with its command is open unless it is one the script *)
(* doubles, what an exception checks for has come, and, but for the three  *)
(* hasty ones, main ends with no trade open.                               *)
THEOREM ScriptsFlow ==
    \A n \in DOMAIN Scripts :
        \E O \in SUBSET Cmds :
            /\ Opens(Doubled(n), O, Scripts[n])
            /\ n \notin Hasty => 12 \notin O
            /\ O # {}
  <1> SUFFICES ASSUME NEW n \in DOMAIN Scripts
               PROVE  \E O \in SUBSET Cmds :
                        /\ Opens(Doubled(n), O, Scripts[n])
                        /\ n \notin Hasty => 12 \notin O
                        /\ O # {}
    OBVIOUS
  <1>1. /\ Early \in SUBSET Cmds /\ First \in SUBSET Cmds /\ Again \in SUBSET Cmds
        /\ Loose \in SUBSET Cmds /\ {22} \in SUBSET Cmds /\ {0} \in SUBSET Cmds
        /\ Early # {} /\ First # {} /\ Again # {} /\ Loose # {}
        /\ 12 \notin Early /\ 12 \notin First /\ 12 \notin Again /\ 12 \notin {22}
    BY DEF Early, First, Again, Loose, Cmds
  <1>2. CASE n \in EarlyScripts
    <2>1. Doubled(n) = {}
      BY <1>2 DEF Doubled, EarlyScripts, Hasty, Twice
    <2> QED BY <1>1, <1>2, <2>1, EarlyFlow
  <1>3. CASE n \in FirstScripts
    <2>1. Doubled(n) = {}
      BY <1>3 DEF Doubled, FirstScripts, Hasty, Twice
    <2> QED BY <1>1, <1>3, <2>1, FirstFlow
  <1>4. CASE n \in Twice
    <2>1. Doubled(n) = Twofold
      BY <1>4 DEF Doubled, Hasty, Twice
    <2> QED BY <1>1, <1>4, <2>1, OtherFlow
  <1>5. CASE n \in Hasty
    <2>1. Doubled(n) = {12}
      BY <1>5 DEF Doubled
    <2> QED BY <1>1, <1>5, <2>1, OtherFlow
  <1>6. CASE n \in {"client", "history", "debug_positions"}
    <2>1. Doubled(n) = {}
      BY <1>6 DEF Doubled, Hasty, Twice
    <2> QED BY <1>1, <1>6, <2>1, OtherFlow
  <1> QED BY <1>2, <1>3, <1>4, <1>5, <1>6, Named
=============================================================================
