# Verification of the MT5 WebSocket client

TLA+ models of the Python package `MT5API/mt5client` and of the stand-alone
`ws_*.py` scripts around it, their TLC runs, and theorems checked by TLAPS. Line
numbers without a file are of `MT5API/mt5client/client.py`.

## 1. The system

The package is an asyncio client of a trade server: one WebSocket, one event
loop, four kinds of task. The tasks interleave only at an `await`; every model
here takes the code between two awaits as one step.

| Part | State | Operations | Talks to |
|---|---|---|---|
| Request layer (310-319, 150-189, `connection.py` 33-37) | `_pending`: command id -> future; the send lock | `send_and_wait`, the receive loop's match, the timeout | all parts below, through `_pending` |
| Trade exchange (413-505, 784-802) | `_trade_events`, `_pending[12]`, a future and two clocks per trade | `_send_trade`, `_trade`, `_handle_trade_event` | request layer (slot 12), both caches |
| Position cache (234-286, 507-516, 549-697, 848-1001) | `_position_cache` | pushes, polls, `get_positions`, `buy`/`sell`, `close_position`, `partial_close`, `modify_position` | request layer (slot 4), trade exchange |
| Order cache (496-503, 518-522, 636-664, 699-725) | `_order_cache` | pending orders, `cancel_order`, `modify_order`, `get_orders` | the same |
| Account (288-300, 323-327, 1003-1033) | `_account` | `get_account`, the poll, the push of cmd 14 | request layer (slot 3), position cache (profit) |
| Quotes (335-375, 753-782, 804-846) | `_quotes`, `_symbols`, `_spec_data` | `subscribe*`, `get_quote`, pushes of cmd 8 and 17 | trades read prices from it |
| Lifecycle (76-148, 191-232) | the tasks, `_cancelled`, `conn` | `__aenter__`, `__aexit__`, heartbeat, poll loop | creates and ends all of them |
| Wire format (`protocol.py`, `crypto.py`, 29-42, 1021-1166) | none | pack, parse, encrypt | every message |
| Search (`search.py`) | none | two HTTP look-ups | used once by `__aenter__` |
| Stand-alone scripts (`ws_client.py`, `ws_trade_*.py`, `ws_test_*.py`, `ws_debug_*.py`, `ws_history.py` and others) | the socket, and what was read last | one `main()` each: log in, then requests and waits in turn | the server, with no task beside them |

The rest of the repository is scripts that capture a browser's traffic, live
tests of the package, and the protocol notes.

**What is hard in this code.** (a) `_pending` has one slot per command id and is
written from four places: a call that begins, the receive loop, a timeout, and
nothing at all when a send fails. (b) A trade finds its result by taking the
first result there is, from a queue that the next trade replaces. (c) The
position cache has four writers, and two of them write what they read some time
ago. (d) The order cache is written once per order and never again. (e) Tasks are
created in the background and not all are ended; a client object that is entered
again keeps the event that ended its tasks. (f) A script reads until it finds
what it waits for and drops the rest; no answer names its request, so that a
late one can be taken for the next. (g) Numbers: lots as integers, comments cut
to a field, times per candle.

**What makes each part correct.** Request layer: a call ends, is answered once,
and with its own answer where only one task uses the command. Trade exchange: a
trade returns its own result, a result is returned once, a ticket is stored for
the trade that caused it. Position cache: it does not lose or understate an open
position, and catches up with the server. Order cache: an entry is what was
placed, and a change of one field leaves the others. Lifecycle: a client that is
entered is attended, nothing runs after exit, the event loop is never seized.
Scripts: each takes its own answers, knows the outcome of its trades, and ends.
Wire format: what is packed is what is parsed.

## 2. Modules

| Module | Models | Extends |
|---|---|---|
| `MatchedCalls` | abstract: what a caller of `send_and_wait` expects | |
| `RequestTable` | the request layer | |
| `RequestTable_proofs` | its theorems | `RequestTable`, `TLAPS` |
| `PromisedTrades` | abstract: what a caller of a trade is promised | |
| `TradeExchange` | the trade exchange | |
| `TradeExchange_proofs` | its theorems | `TradeExchange`, `TLAPS` |
| `PositionCache` | the position cache with the list requests of slot 4 | |
| `PositionCache_proofs` | its theorems | `PositionCache`, `FiniteSetTheorems`, `TLAPS` |
| `Market` | subscriptions, the order cache and the order trades | |
| `Market_proofs` | its theorems | `Market`, `FiniteSetTheorems`, `TLAPS` |
| `Lifecycle` | entry, exit, the three tasks, lost connections | |
| `Lifecycle_proofs` | its theorems | `Lifecycle`, `TLAPS` |
| `ScriptSteps` | the steps a script is made of | |
| `TradeScripts`, `QueryScripts` | 42 scripts as sequences of steps | `ScriptSteps` |
| `Session` | one script in conversation with the server | both |
| `Script_proofs` | what is known at each step of the scripts | `Session`, `TLAPS` |
| `Session_proofs` | the theorems about conversations | `Script_proofs`, `FiniteSetTheorems` |
| `MC...` | instances for TLC | the module of the same name |

A definition that is introduced as "Mutant of X" is a plausible mistake in the
code that X models. No specification uses it; put in the place of X it breaks a
property, which shows that the property depends on that code.

### RequestTable

Calls are numbered as they register; a number names the call, its request and
the answer to it. `Begin` is 310-313 (take the slot), `Transmit`/`SendFails` the
send lock, which is fair, `Receive` the branch 164-168 of the receive loop,
`TimerFires` and `ReturnNone` the two halves of a timeout: the timer cancels the
future in one turn of the event loop and the task empties the slot in a later
one, so that others run in between. `CancelTask` is a task ended from outside.
When a timer fires on a future that is already resolved, Python up to 3.11
returns the answer and 3.12 drops it: both are in the model. The server may
answer in any order; for commands in `Slow` it may also be late or silent.

### TradeExchange

Trades are numbered as they start, and the number names the ticket too. `Start`
replaces queue and slot (421-422). `DeliverReply` and `DeliverEvent` are the
receive loop; the server owes a market or pending trade a reply, an
acknowledgement (10002) and a result, and a modification or cancellation the
reply alone. So says the docstring of `_send_trade` (416-418), while
WEBSOCKET_PROTOCOL.md (540-543, 1376) speaks of two events for every trade, which
the scripts of `Session` count on; `_send_trade` takes either, and a modification
with events is the case of a `close` here. `TakeResult`, `DropAcks`,
`TakeReply` and `GiveUp` are what one turn of the loop 428-446 can find;
`TakeResult` includes what `_trade` does with the result (488-503), since no
await lies between. The clock of a trade has three values: up to 3 s, later, and
past the deadline. The messages of a trade outside `tardy` come before it gets
older, the reply first; those of a `tardy` one come late, out of order or never.

`PromisedTrades` has no queue, slot or clock. It knows which trades are active,
which have been `spoiled` (by a late server, by meeting another trade or by an
abort), what each returned and for whom each ticket is stored. A trade may return
any message that nobody returned before; but if it and all before it are unspoiled
(`Whole`), only its own, and nobody else may return that; and a whole trade finds
its ticket stored and never ends with nothing. `PromiseKept` says that
`TradeExchange` implements this.

### PositionCache

`held` is the server's truth, `listed` its position list, which lags behind (the
protocol notes say so), `net` the stream of messages. `ReadPush` is
`_parse_one_position_record`, `ApplyPoll` is `_do_poll_positions`, `ApplyLookup`
is `get_positions` in its own right or at the start of a close, partial close or
modification, `FinishTrade` is what `buy` and `partial_close` do to the cache
when their result is there. Requests for the list go through the one slot of
command 4 with its takeovers and timeouts, as in `RequestTable`. The first
position may have been open before the client connected. Trades are one at a
time and always answered; `TradeExchange` says when that is so.

### Market

Two tasks subscribe, place, change and cancel pending orders. `Subscribe` and
`SubscribeBatch` are the calls that must bring a quote before an order can be
sent; `HandleQuote` is the push. A pending order of any of the four kinds is
`Place` with a price; `Result` writes its cache entry (498-503), which no other
action touches. `LookUp` is the beginning of `modify_order` and `cancel_order`,
which look in the cache and ask for the list only when it has no entry;
`CancelDirect` is `cancel_order` with type, volume and symbol. `SendTrade` is the
first step of `_send_trade`, `Result`, `Reply` and `TradeTimeout` its ends.
Slots 4 and 12 are sets of at most one task, since a later call replaces an
earlier one. The server keeps `book`, and the list it answers with is `listed`,
which lags behind: `Relist` brings it up to date at some time or never, and
`ListComes` hands it out as it is (MT5API/README.md:727-731 and
WEBSOCKET_PROTOCOL.md:1381, 1408-1412 say that command 4 is not real-time). So an
open order may be missing from a list, and a list may have a former price. The
rest is history: `placed`, `asked` and `repriced` say what the orders should be;
`overtaken` has the orders whose price changed while a call had read the former
one, `outdated` those of which a list gave a former one, `unlisted` (of a call)
that the list did not have its order when it looked; `mixed` and `crowded` are the
disturbances known from `TradeExchange` and `RequestTable`. `sl` and `tp` are one field. Lists of positions, which share slot 4,
are not told apart from lists of orders.

### Lifecycle

`Enter`, `Connect`, `Authorise`, `Login`, `LoadAccount` and `LoadSymbols` are the
awaits of `__aenter__`, `StartExit` to `Close` those of `__aexit__`. Login starts
the three tasks; they look at `_cancelled` in the next turn of the loop. A task
that reads `self.conn` reads the connection of the latest entry, whichever entry
started it: hence `linked` beside `entry`, and `reads` for the connection in
whose `recv` a receive loop waits. `Cancel` cancels the user's task at any await,
`LoseLink` loses a connection at any time. `asyncio.wait_for` differs between
Python versions in two ways that matter here, and `yields` stands for both: up to
3.11 it gives way once before it hands on an exception, and it drops a
cancellation that comes together with a result. Without the first, a receive loop
whose read raises at once never lets another task run: `hung`. Whether an answer
comes is left open; that is the subject of `RequestTable`.

### ScriptSteps, TradeScripts, QueryScripts, Session

A script is sequential: it sends, reads until a message of some command comes or
a deadline passes, and branches on whether it came or on what was in it. Each
`main()` is written down as a sequence of such steps (`Ask`, `Await`, `Deal`,
`Gather`, `Need`, `IfGot`, ...), with a definition for every function of the
script that reads or writes the socket; the names of the files stand beside the
definitions and in the map. `Session` runs one of the 42 against a server that
answers each request in any order, leaves some out, or lets the script give up
before the answer is read. What is left out touches no socket: the fields of a
payload, what is printed, sleeps. Further simplifications: a subscription is
answered by one quote; the reply of command 12 is left out, because every script
reads past it to the event; the contents of a body, where they decide a branch,
are a free choice; a connection does not break; an exception raised by the
contents of a body is not modelled. `Hasty` names the scripts that take an
acknowledgement for the result, `Twice` those that send one request twice; both
are what the code does, and the properties except them by name.

## 3. Runs

| Run | Instance | Result |
|---|---|---|
| `requests_shared` | 3 callers, 2 commands all of them use, one command slow, one caller that may be aborted, 3 calls | passes: types, `SlotHoldsLatest`, `AnswerNotNewer`, `LostOnlyToRival`, `EveryCallEnds` |
| `requests_exclusive` | 3 callers with commands of their own, answers in time, 4 calls | passes: `ExactCalls`, the refinement of `MatchedCalls` with its liveness |
| `requests_rivals` | 2 callers of one command, answers in time | violated: `OwnAnswer` |
| `trades_any` | 2 trades, opening or modifying, everything may go wrong | passes: types, `OnlyDisturbedStray`, `UndisturbedExact`, `EachMessageOnce`, `BookOnce`, `EveryTradeEnds`, and `PromiseKept`, the refinement of `PromisedTrades` |
| `trades_parallel` | 3 trades, an orderly server, no aborts | violated: `OwnOutcome` |
| `positions_volumes` | 2 tickets of up to 2 lots, 3 calls or changes, one list under way | passes: `NeverUnderstated`, `CloseWhole`, `LotsSettle`, `VolumeOnlyFalls` |
| `positions_stops` | 1 ticket, 2 stops, 2 calls, changes or early timeouts, two lists under way | passes: types, `StopsConverge` |
| `positions_keep` | 1 ticket, one `modify_position` | violated: `KeepsCurrent` |
| `market` | 2 tasks, 3 orders (one placed before, one foreign, one to be placed), 2 symbols of which one is unknown, 2 prices, 2 calls, 1 fault or outside change, any lag of the list; the two tasks are symmetric | passes: types, `CachedAsPlaced`, `PriceSticks`, `FoundWhileOpen` |
| `orders_keep` | the same with stops, one call, no fault | violated: `ChangesKeepStops` |
| `lifecycle` | 2 entries of one object, 1 cancellation, both behaviours of `wait_for` | passes: types, `Attended`, `ExitStops`, `HungOnlyIf`, `ReentryDeaf`, `LastRounds`, `EntersOrFails`, `ExitEnds`, `TasksEnd` |
| `sessions` | each of 42 scripts, loops over lists cut at 2 rounds, 2 answers late or missing | passes: types, `OwnAnswers`, `KnowsOutcome`, `FailsForReason`, `Backlog`, `Ends` |

**Properties that record a limit.** `ReentryDeaf` and `HungOnlyIf` record
how the code behaves, not how one would wish it: a client object that was exited
once never hears an answer again, because `_cancelled` is never cleared, and under
Python 3.12 a lost connection, and in any version an entry that failed, can leave
a receive loop that seizes the event loop. The invariants say that nothing else
does. `Backlog` bounds what a script can get wrong by the number of answers that
came late.

**Why the bounds are enough.** A slot or queue is lost to one rival, and what the
rival does may be undone by a third call: three calls show each of these and
four calls let one caller call twice in the exclusive run. Two trades give every
order of takeover, and the theorems cover any number. Tickets of the cache do
not touch each other except through a list, so two are enough; two lots make a
partial close, and three calls or changes a partial close with another change on
each side. `Room` keeps the lists under way below `MaxLists`, `Spend` the calls
and changes below `MaxOps`. In `Market` the three orders are one of each origin,
and two tasks with a call each give every interleaving of two exchanges; an order
in `Own` or `Foreign` stands for what earlier calls left behind, and the list need
not have the foreign one yet. A list that is behind by one change is as old as two
calls can make it; the theorems cover any number. The symmetry is sound: no
action or property names a task, and all properties of the run are invariants. In `Lifecycle`
two entries show what an exit or a failed entry does to the next; three were
tried for the invariants and showed no more. In `Session` a script that is one
answer behind and then falls behind again needs two faults, and two rounds of a
loop let an answer of the first reach the second.

**Deadlock** is checked in the runs of `RequestTable` and `TradeExchange`, which
end in `Finished` and `Over`, steps that change nothing and are enabled only when
every call or trade has ended, and of `PositionCache`, whose poll loop never
stops. It is off in `lifecycle`, `market`, `orders_keep` and `sessions`, where the
program really stops: the client has left its last block, the calls are used up,
the script has ended. What must not stop earlier there is stated as liveness or by
`Stuck`.

**Fairness.** Weak fairness of the tasks and timers is what an asyncio event loop
does: it runs every ready callback and every timer that is due. `Transmit` and
`Send`: a WebSocket that is open takes what is sent. Answers are fair only for
commands that are not `Slow` and trades that are not `tardy`; `EveryCallEnds`
and `EveryTradeEnds` do not depend on them. In `PositionCache` a wait is assumed
to time out only when no answer can come (`GoneWait`); earlier timeouts are
counted by `ops`, and so are polls on demand. Without the last condition
`StopsConverge` fails: two tasks that poll for ever can empty each other's slot
in every round, so that no list is ever applied. In `Lifecycle` every task goes
on, since each of its waits has a timer or ends with the connection; only the body
of the `async with` need not end (`main # "in"`), nor is the user's task ever
obliged to enter. In `Session` the script goes on (`WF_vars(Next)`): each read has
a deadline, except `AwaitEver`, which `Ends` excepts when nothing is coming.

## 4. What disagrees with the documentation

1. `OwnAnswer`: "matches pending requests" (MT5API/README.md:614). It matches
   command ids. Two tasks that call `get_candles` get each other's candles.
2. `OwnOutcome`: "All trades run in parallel within this account"
   (MT5API/README.md:708). Parallel trades return and store each other's results.
3. `KeepsCurrent`: "None = keep current" (MT5API/README.md:370). With the bypass
   parameters the stop is taken away.
4. `ChangesKeepStops`: `modify_order(ticket, price=1.10)`, "Modify price"
   (MT5API/README.md:405-409), and `sl`, `tp` among the fields of an order
   (448-449). Neither a list nor the order cache has them, `modify_order` sends 0
   for what is None (720-721), and the stops of the order are gone.

A position that was closed stays in the position cache: a push or a poll removes
nothing, and neither does `close_position`. Only `partial_close` drops an entry,
when nothing is left of it (633). No document says otherwise.

What is documented as a limit is not a divergence: the lag of command 4 makes
`modify_order` and `cancel_order` raise "Order not found" for an open order that is
neither in the cache nor in the list yet, and makes a change of the stops of an
uncached order send back a price that was changed a moment ago. `FoundWhileOpen`
and `PriceSticks` name both, and say that, faults and rivals apart, nothing else
does it.

## 5. Theorems

All hold for every value of the constants, under the assumptions on their types
that the modules name (`RequestAssumption`, `TradeAssumption`,
`PositionAssumption`,
`MarketAssumption`, `LifecycleAssumption`, `StepsAssumption`, `SessionAssumption`).

**RequestTable.** `IInv` of `RequestTable_proofs` is inductive and gives
`TypeCorrect`, `SlotLatest`, `NotNewer` and `LostToRival`. Its core: a call is in
the slot only under its own command, a slot holds the latest call of its
command, and an answer is to a request that has gone out and is not newer than
the call. `ExclusiveIsExact` is the refinement: if no two callers share a
command, nothing is slow and nobody is aborted, each step of the table is a step
of `MatchedCalls` or changes no status. It needs one more invariant: an active
call holds its slot until it has its own answer (`Uncontended` and what goes with
it), since with one active call per caller there is nobody to take it over.

**TradeExchange.** The theorems are about *undisturbed* trades: answered in order
and in time, as were all before them, and never active together with another.
`IInv` has two layers. The first speaks of all trades: messages exist once
(`ResultOnce`, `ReplyOnce`), and the result is the last event of a trade
(`ResultLast`). It gives `MessageOnce` and `BookedOnce`, which hold however trades
overlap. The second speaks of undisturbed ones: while active, the slot is its own
until its reply is there, its result is owed or in the queue, and it does not
grow old unless it is a modification that has its reply (`WellServed`); once
ended, nothing of it is owed, queued or in another's future (`UndisturbedEnded`).
From these, `Alone` says that while an undisturbed trade is active nothing in
queue or future belongs to anybody else, and `StrayIfDisturbed` and
`UndisturbedIsExact` follow. `PromisesKept` is the refinement of `PromisedTrades`,
for trades that may overlap and a server that may do anything. Its mapping reads
`status` off the phase, `spoiled` off `tardy`, `overlapped` and the aborted trades,
`opened` off what the server carried out; each action has a lemma that says which
abstract step it is (`StartRefines` to `StepRefines`), and most are none. It needs
one invariant more than `IInv`, `CarriedOut`: what the server carried out had been
sent, so that a trade that starts has nothing in `opened`.

**PositionCache.** `IInv` says that nothing under way or remembered says less of a
position than the server holds: the server's own list, the lists and pushes in the
net, a lookup's result and the cache (`Enough`), which is inductive because a
volume only falls once a ticket exists, so that old news overstate and never
understate. With the shape of the trade under way (`OpShape`, `ResultShape`) it
gives `NeverUnderstated` and `CloseWhole`, `partial_close` excepted, which writes
the rest it worked out from a lookup and so can cut too much. `LotsSettle` needs a
second invariant, `SInv`: the last push of a ticket under way is current, so that
the cache is the server's when all have been read. `VolumesOnlyFall` needs a third,
`VInv`, which bounds what is under way from the other side: the pushes of a ticket
that are still in the net say no more than what was sent before them (`Falling`),
and none says more than the client was told already, by a list it read, by an entry
that no `partial_close` cut or by the result of `buy` (`Told`). Lists and results
may be older than the cache; a poll raises no volume because it writes stops only. `TypeOK` adds a bound on the counters.

**Market.** The actions are brought first into a form that says what becomes of the
calls task by task (`StepCases`), and each part of `IInv` is kept by each form.
`CachedAsPlaced` needs to know that an exchange that met no other has the wire to
itself (`Alone`): then the event it takes is about the order it placed
(`OwnPrice`), also when the command is still to be carried out. For `PriceSticks`
an order is `Clear` while it is open and nothing has blurred its price (`Blurred`:
an event taken by another exchange, or a change of price that the cache, a call on
its way or a list given out did not have), and whatever holds the price of a clear
order has the one last asked for: the server (`Faithful`), a modification under way
(`FaithfulTrades`), a list that was read (`FaithfulSeen`) and the cache
(`CachedAsPlaced` with `AskedAsPlaced`). `ListedAsPlaced` makes up for the lag: of
an order that has had one price only, the oldest list has that price or none. All
of them need that nothing is known of an order before it is placed (`Since`).
`FoundWhileOpen` follows from what a waiting call has been told (`ClosedKnown`),
that its order was not open or that the list did not have it when the call began,
which rests on the list losing only orders that are closed, and from who can have
emptied its slot (`Listing`). Tasks, orders, prices, calls and
faults are any number.

**Lifecycle.** `IInv` has one part for each thing an entry or an exit hands on. What
an exit leaves (`StoppedTasks`, `StoppedLink`) rests on its order: the heartbeat is
waited for before the receive loop is cancelled, and that before close, and
`_cancelled` is set first, so that a receive loop which misses its cancellation
ends at its next turn (`TurnStops`). `Attended` and `HungOnlyIf` rest on there
being no other receive loop than that of the entry while none has failed and
`_cancelled` is not set (`OverOnce`, `FreshTasks`). `ReentryDeaf` follows from what
the loops left over read: earlier connections only (`DeafReads`). `LastRounds`
counts how far a poll loop can come that nothing cancels (`PollLeft`). The entries
and cancellations are any number.

**Scripts and Session.** The invariants are about 42 given scripts, so the proof
has two layers. `Script_proofs` says once per script what is known before each of
its steps while no answer has been late: which commands may have an answer unread
(`open`), which answers are on their way or being read (`due`), which commands have
been received since they were last asked for (`held`). `Leads(d, f, s, g)` says that
a script `s` may run where `f` is known, each step being in order there (`Right`), and
leads to where `g` is known; it is shown for a step, and then for a sequence
(`InTurn`), a branch (`InBranch`) and a loop (`InLoop`), and with these for every
function of the scripts and every script (`ScriptsFlow`). A loop has any number
of rounds: what is known at its head is kept by its body. `ForEach` is
written as a function of the place for that reason, since a proof about a repeated
concatenation would need induction. `Session_proofs` ties the facts to the state.
`Sound` is inductive: without a fault an unread message is of an open
command (`OnlyOpen`), what is held has been received (`HasHeld`), what is due is
unread or being gathered (`Coming`), and of each command only the latest request
is unread (`Newest`); with any number of faults, the results left behind by
earlier trades are no more than the faults, and so are all results where no trade
is open (`Behind`). Every step of `Session` keeps it because the step is `Right` where it stands.
`AnswersAreOwn`, `OutcomeKnown`, `FailsOnlyForReason` and `BacklogBounded` follow. They
lift the bounds of the run: rounds and faults are any number.

**Model-checked only.** All liveness (`EveryCallEnds`, `EveryTradeEnds`,
`StopsConverge`, `EntersOrFails`, `ExitEnds`, `TasksEnd`, `Ends`, the fairness of
`MatchedCalls`), which TLAPS cannot prove.

## 6. Not modelled

- AES, TLS, the WebSocket library, the HTTP look-ups: libraries and pure I/O.
- Wire format (`protocol.py`, `crypto.py`, 29-42, 1021-1166): functions without
  state, from bytes to records. Their hazards are offsets, floating point and
  text; a model would have to repeat them byte by byte. What the rest makes of a
  message that parses is modelled.
- Profit, equity, current price: floating-point arithmetic on quotes.
- The search for records in pushes of several records (871-898): their layout is
  unknown to the authors as well (Key_Discovery.md).
- User callbacks: they run inside a handler and their exceptions are dropped.
- What `get_deals`, `get_candles` and `get_account` make of a body; as calls they
  are calls of the request layer.
- Scripts that drive a browser and write down its traffic, and live tests of the
  package, which have no state beside the client's; the scripts that search for
  servers over HTTP.
- The order in which `asyncio` runs two tasks that are both ready is left open.

## 7. Plan

1. *Done*: `RequestTable`, `MatchedCalls`, `TradeExchange`, `PositionCache` with
   runs and proofs; `Market` and `Lifecycle` likewise; the scripts with `Session`;
   `PromisedTrades` and the refinement of it; every invariant of a run is proved.
2. *Left*: a composition of `TradeExchange` with `PositionCache`, to show
   what parallel trades do to the cache; the framing of commands, `parse_series`
   against `series_size` and the XOR chain against its inverse, as operators over
   bounded inputs.
