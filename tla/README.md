# A verification of signal-copier

The repository holds three programs. `src/` itself is a job applier, a
sequential browser script. `signal-copier` copies trading signals to broker
accounts, places and guards the orders, and survives restarts and lost
answers; `signal-portfolio-commercial` receives its record of what happened and
keeps ledgers over it. The hard behaviour is in `signal-copier`, on the way in
(one alert over several channels), in the middle (one signal, one order; one
position, one stop) and on the way out (the export path between the two
services), so that is what these TLA+ modules are about.

Contents: [inventory](#inventory), [plan](#plan), [the modules](#the-modules),
[the runs](#the-runs), [where code and documents differ](#where-code-and-documents-differ),
[the proofs](#the-proofs), [what is left out](#what-is-left-out).

## Inventory

One `signal-copier` process is one asyncio event loop: coroutines interleave
only at an `await`. FastAPI handlers declared `def` run on threads. State that
must survive is in one SQLite file. Two processes may exist during a deployment
or a failover.

| component | state | operations | interacts with |
|---|---|---|---|
| writer lease (`writer_lease.py`, `db.py`, `promote_cli.py`, `main.py`) | one `writer_lease` row per database file; per process a guard with a token | acquire, renew, require_active, promote, restore | every path that writes to a broker |
| close arbiter (`lifecycle/close_arbiter.py`) | per (account, symbol): owned, reserved, halted; an asyncio lock | reserve, release, settle, set_owned, halt, snapshot, restore | called by the lifecycle manager only |
| position lifecycle manager (`lifecycle/manager.py`, `lifecycle/models.py`) | per position a `PositionLifecycle`: stop record, pending exit, owned; persisted in `lifecycle_state` | entry fill, stop placement, adoption, amendment, cancel; exits; stop fills; repricing; restart | arbiter, broker, command ledger; called by signals, price ticks, reconciler |
| order reconciler (`reconciliation.py`) | none of its own: re-reads the database and the broker | passes over pending exits, broker positions, unprotected positions, child orders, plain orders, lost entries, unknown submissions | manager, broker, database; `run_now` may overlap the loop |
| broker adapters (`brokers/`) | the venue's orders and position | place, replace, cancel, status, position | asked by manager, engine and reconciler |
| command ledger (`command_ledger.py`, `db.py`) | a row per broker command, resolved or not | open, record response, resolve | lets a restart find what was sent |
| signal intake (`main.py`, `sources/`, `db.py`, `workflow/signal_correlation.py`, the Android bridge) | the phone's queue; `signals` and bridge-event rows; collectors' checkpoints | capture, upload, ingest, recognize, correlate, decide, deliver again | hands a signal id to the entry dispatch |
| entry dispatch (`engine.py`, `workflow/admission.py`) | allocation intents, order rows, positions | accept a delivery, claim, pick an account, reserve, bind, submit, record, sweep at startup | command ledger, budget, broker, reconciler, manager |
| durable outbox (`workflow/intents.py`) | `outbox_intents` rows and their states | prepare, claim, respond, recover | entry dispatch |
| budget (`workflow/budget.py`, `capital_allocator.py`) | reservations of exposure and of capital | reserve, commit, release | entry dispatch, reconciler |
| export outbox and relay (`export_events.py`, `relay_worker.py`, `relay_scheduler.py`) | `export_events` rows: a sequence per stream, delivered, parked | append, poll, mark delivered or parked | the inbox, over HTTP |
| integration inbox (`integration_inbox.py`, `relay_routes.py` of the commercial service) | inbox rows per stream, ledger entries, snapshot floor | ingest, park, apply, cascade, activate a snapshot | the relay |
| halts, escalation, sources, parsers, statistics, web, commercial services | see `PROJECT.json` | | |

### What is hard, and what must hold

* **Writer lease.** Threads race into `acquire`; a hung process lives beside its
  replacement; a heartbeat is missed; an operator promotes a site over a
  replicated file. *At most one process per file may command; a superseded
  one stays superseded; the writer moves to another site only deliberately.*
* **Close arbiter.** `max(0, ...)` in release and settle could hide that the count
  of reserved shares has drifted; overfills and stop fills come while exits are
  reserved; a restart restores an older ledger. *Reserved is what is in flight;
  nothing not owned is in flight unless halted; a halt is final.*
* **Position lifecycle.** A stop is one order that several coroutines resize,
  cancel, replace and re-place while exits fill in parts and calls lose their
  answers. *Never more resting sells than shares; one stop; the record names the
  order that rests; a closed position is flat; an exposed position is protected
  again; every ended exit is settled; what was done is in the row.*
* **Reconciler.** It acts on what it read before an await, and its passes may
  overlap. *A stale read never closes, settles or resizes the wrong thing.*
* **Entry dispatch, command ledger, budget.** A crash between the broker's
  acceptance and the recorded outcome; deliveries of one signal that overlap;
  capital released by the submission, by a pass and by the operator. *One order
  per signal and account, and one account per signal where they are alternatives;
  what the venue may fill stays covered; a fill is booked once; every claimed
  signal is decided and every ambiguous submission settled.*
* **Signal intake.** A phone shows every version of a notification, repeats what
  was not answered, and the provider's own channel brings the same alert;
  handlers of both stand between two awaits at once. *One alert, one trade;
  nothing on one source alone where two are asked for; no capture is lost.*
* **Export.** Lost responses, redelivery, gaps, restarts of either service,
  parked events, snapshots. *Every event is applied once and in order, and none
  blocks its successors for ever.*

`PROJECT.json` lists each hazard at its line, with the property that covers it
or the reason none does.

## Plan

Order of work, the most important behaviour first.

1. `WriterLease`, with proofs in `WriterLeaseProofs`. Done.
2. `CloseArbiter`, pure ledger operators and the promise the arbiter makes to
   callers that settle what they reserve, with proofs in `CloseArbiterProofs`. Done.
   It is the abstract specification of item 3.
3. `PositionLifecycle`: manager, reconciler passes, venue, restart, over the
   operators of `CloseArbiter`. Done, with proofs in three modules, the last of
   which shows that it implements `CloseArbiter`. Left: pending entries, time
   exits, a second symbol.
4. `ExportRelay`: outbox, relay, and the commercial service's inbox, shown to
   implement `OrderedLog`, a log applied once and in order, with proofs in
   `ExportRelayProofs`. Done. Left: position snapshots, producer generations with
   the restore of an older outbox, fees, malformed envelopes.
5. `EntryDispatch`: signals over accounts with the command ledger, the budget and
   the capital reservations, against restarts, redelivery, the reconciler and the
   operator; shown to implement `SubmitOnce`, with proofs in
   `EntryDispatchProofs`. Done for the plain entry path. Left: bracket and managed
   entries, closes, the `outbox_intents` table.
6. `SignalIntake`: how one alert becomes one signal. Done, with proofs in
   `SignalIntakeProofs`. Left: e-mail and chat sources' own state.
7. Left: daily loss halts, phone escalation; child orders of plain entries (both
   legs filled before the sibling is cancelled); capital arithmetic in fractions.

## The modules

Each `MC...` module extends a specification with what only TLC needs (values of
function constants, symmetry sets). A definition whose name begins with `Bug` is
a plausible error in the code beside the definition it would replace; nothing
uses it, and with it in place the property named in `PROJECT.json` fails.

### WriterLease

`row[f]` is the `writer_lease` row of a database file; `FileOf` says which file a
site opens, so that one module covers the shared database the fence was written
for and the replicated one of `deploy/RUNBOOK.md`. `expires_at` is abstracted to
whether it has passed. `token[p]` is the guard's `_token`; `pc[p][t]` the place
of a thread in the double-checked `acquire`. `AcquireInStore`, `Renew`, `Promote`
are the three store transactions; `RequireActive` and `BrokerWrite` are a command
with everything that may happen between its check and its call. `Restore`
(Litestream) is external.

### CloseArbiter

The operators (`ReserveIn`, `SettleIn`, ...) are the methods of the transition
handle, one per method, and they are all `PositionLifecycle` uses. The
specification adds `inflight`, which the code does not have: what callers have
reserved and not yet settled. The quantity is a whole number of lots, so the
tolerance `_EPSILON` is zero.

### PositionLifecycle

An action is the code between two awaits. The tasks are two kinds of coroutine,
`Sig` (signals and price ticks) and `Rec` (reconciler passes), each at a label of
`pc` with the locals in `loc`. `lock` is the arbiter's lock for the one position.
The venue (`vstop`, `vexit`, `held`) is the adapters' contract. `row` and
`stopRows` are what a restart reads.

What kind of account it is, is frozen in `env.may`, one of the records of the
constant `Setting`: `replace` is how `replace_stop_quantity` behaves (not at all,
as ccxt; in place, as the paper broker; a new id, as Alpaca), `readback` whether
the position can be read, `works` whether an exit may keep working, `rejects`
whether the venue reports cancelled orders as rejected; the rest says which tasks
there are and how many lots, orders, entries, faults, ratchets and crashes. So one
run looks at several accounts, and a theorem is about all of them. Where a property
does not hold of every account, it says of which: `NoCallFails`, `NoLostAnswers`
(also no crash and no readback), `AnswersAtOnce` (also no working exits), `OnePass`
(one reconciler pass at a time, no crash, no readback).

Abstractions that matter: a free lock goes to any waiter (asyncio serves them in
turn, so every real order is among the modelled ones); replace and cancel take
effect and answer in one step; prices are gone, so a trigger may come at any
time; a stop fills whole.

### EntryDispatch and SubmitOnce

A delivery (`task`) is `_handle_signal` from the replay gate to the last write; its
labels are the points where it awaits or has written something durable. `running`
names the task between two awaits: nobody else moves then, but a crash may fall
between its writes: after the broker's answer these are the reservation (`Answer`), the
ledger row (`Mark`), the capital (`Settle`), the position (`Book`) and the order row
(`Save`). `Claim`, `Bind` and the ledger's `INSERT` are the three places
where the database decides which of two deliveries goes on. `venue` counts the orders
the broker was sent for a signal and account; an order may arrive after its caller
gave up (`late`), and a lookup may go unanswered (`reads` is FALSE). A pass
(`Poll`, `Lookup`) is the reconciler over plain orders and unknown submissions; the
operator settles the same rows from the web page. `Crash` keeps what is durable, with
the sweeps of the startup; sources then deliver again. Every entry has notional 1 and
`ceiling` is what an account may hold.

`SubmitOnce` is the promise to the provider of a signal whose accounts are
alternatives: bound once, to one account, then at most one order, there.

### SignalIntake

`queue` is what the phone captured and has not been told is recorded, `posts` the
messages of the direct channel. A handler (`job`) is one upload request or one
message of a collector, walking `take`, `route`, `place`, `answer`, `record`: recognize
by provider identity and revision, correlate with what the other channel brought
inside the window, decide by the provider's conflict policy, hand the id to the
entry path (`EntryDispatch`, here: traded at most once, or declined, with an order row that
replays or without one), record. `clock` moves only
as far as the window and the staleness threshold (`window` and `fresh` of a setting)
can tell. `checkpoint` is how far a
collector will not look back after a restart. Texts are values with a price and a
form (parsed, cut off, not a signal); all are about one instrument.

### ExportRelay

`slot[e]` is the `export_sequence` of an event's outbox row; `delivered` and
`parked` are the rows that have `delivered_at` and `terminal_park_reason`. `pc`,
`batch` and `ans` are the relay's one poll at a time (`run_once` under
`RelayScheduler._loop`): `Poll`, the post, `MarkDelivered` and then
`MarkTerminallyParked`, two transactions with a restart possible between them.

The server handles one request at a time, since `ingest_batch` does not await
once it has read the body, and commits after each event; `server`, `todo` and
`said` are that request. A request the relay gave up on is lost, is still to
arrive (`late`), or is being served (`"stale"`). `RegisterExportStream` may come
between any two events of a batch.

`received`, `applied` and `reason` are the inbox rows. An event of a batch is
refused (`Refuse`), answered from its row (`Redeliver`), stored ahead of its turn
(`IngestGap`) or taken in its turn (`IngestInTurn`). The last is the whole
transaction with the walk of `_apply_and_cascade`: `Reached` is the rows it comes
to, given which of them apply. What an event carries is reduced to `Kind` and
`About`, which is what `_apply_projection` tells apart: whether a receipt books a
ledger entry, whether a revision or an outcome finds its target, whether the inbox
knows the schema. `Resolutions` is the choice that `first()` without an order makes
among the receipts of one message.

`OrderedLog` is what the two services promise together: positions without holes,
application once and in order, acknowledgement after application.

## The runs

Passing runs. Every bound is a constant or a field of a setting and appears in the
guards, except `MaxShort` of `ca_ledger`, a state constraint on how far an overfill
may go. Where a run looks at several settings, each is one small world, and the
properties say in their preconditions which worlds they are about.

| run | question | bounds, and why they suffice |
|---|---|---|
| `wl_fence` | `TypeOK`, `OneActivePerFile`, `NotSelfFenced`, `FencedForGood`, `TakeoverIsDeliberate` with a file per site and restores between them | two processes of one site and one of another, two threads, three tokens: a race, a restart and a promotion fit in one behaviour. The five are proved for all values |
| `ca_ledger` | `TypeOK`, `ReservedIsInFlight`, `NeverOvercommitted`, `HaltHolds` | two lots: one may be filled and one pending; two keys and overfills of one. Proved for all values |
| `pl_safe` | `TypeOK`, `NeverOversold`, `OneStop`, `ClosedIsFlat`, `CopiesAgree`, `Checkpointed` | `Amending` (Alpaca: two signals and a pass, two entries, three exits, a ratchet), `Crashing` (ccxt: a signal and two passes that overlap, a restart anywhere, readback, exits that keep working) and `Reading` (readback and a lost or refused call). The six are proved for all values |
| `pl_live` | `Truthful`, `WorkingIsPending`, `ArbiterSpec` (proved), `ExitsResolve`, `EventuallyProtected` | `Exiting`: three lots, so that an exit fills in two parts and leaves one; `Failing` (the paper broker): two faults and seven stop orders, so that the bound on orders never stops a retry |
| `ex_relay` | `TypeOK`, `AppliedInOrder`, `HonestOutbox`, `LogSpec`, `EventuallyDelivered` | four events over two streams and batches of two, so that the limit bites; a revision and an event the inbox cannot take; two faults: a request given up and a restart |
| `ed_safe` | `TypeOK`, `AtMostOnce`, `OneAccount`, `ReservationCovers`, `HeldUntilKnown`, `NeverOvercommitted`, `BookedOnce` | two accounts, two deliveries at once, two passes. `Racing`: deliveries of one signal with the operator, sizing that differs, late orders, a crash; `Crashing`: two crashes and two lost answers, overlapping passes; `Competing`: two signals under a ceiling of one; `Copying`: a replicated signal; `Restarting` and `Repairing`: after a crash one pass, or the operator, settles what was in flight; dispatches that fail in all but the last two. The seven are proved for all values |
| `ed_live` | `DecisionReached`, `AmbiguityResolved`, `CapitalFreed` | the same, one hazard at a time: overlap with a lost answer, a crash, competition, replication |
| `si_safe` | `TypeOK`, `TradedOnce`, `OneTradePerAlert`, `NeverAlone`, `EveryCaptureRecorded` | three captures, two messages, two handlers, a window of one tick. `Retrying`, `Updating` and `Repeating` are the phone alone, `Posting` two messages without it and with a crash; in `Reaching` two collectors repeat what the phone shows too, in `Agreeing` each message comes once, under each conflict policy, in `Changing` the notification changes twice, in `Lasting` it is sent again while fresh. The first four are proved for all values |

A property leaves out of its precondition what the code gets wrong for it. Dropping
the precondition shows it, and the hazard is in `PROJECT.json` or below:

| precondition | what happens without it |
|---|---|
| `NoLostAnswers` of `OneStop` | a stop accepted under a lost answer has no id to be adopted by, and a second one is placed |
| `AnswersAtOnce` of `NeverOversold`, `OneStop` and `ClosedIsFlat` | a late repricing resizes or replaces the stop over an exit that works (`pl_late_check`) |
| no readback, of `ClosedIsFlat` and `WorkingIsPending` | a position read before an exit closes the lifecycle after it, with the exit still at work and its reservation left; a later plan then starts from a ledger that differs from the lifecycle |
| `OnePass` of `WorkingIsPending` and `ArbiterSpec` | a slow pass applies its answer to the exit that came next |
| no crash, of `ArbiterSpec` | a tick checkpoints a reservation that no pending exit explains after the restart |
| `rejects` is FALSE in `Failing` | the unresolved command row of a cancelled stop answers "rejected" to every retry, and the position stays unprotected |
| `Undisturbed` of `HeldUntilKnown`, `NeverOvercommitted` | a second release by another delivery, a pass or the operator takes another signal's reservation of the account; a submission whose dispatch failed before a crash keeps a ledger row and no capital, so that the release that settles it does the same |
| `Calm` of `NeverOvercommitted`, `CapitalFreed` | a crash between the release and the saved row frees capital whose fill is nowhere recorded; a lookup that fails counts as "not placed" |
| one pass, of `BookedOnce` | two overlapping passes both correct the position by the delta each read |
| no crash and no resizing, of `DecisionReached` | rows saved for rejected accounts make the redelivered signal look processed; a mismatching fingerprint escapes from the delivery |
| `Forward` of `TradedOnce` | after a lost answer, or from a worker that overlaps, `[A, update B]` comes again, and A is no longer the latest version: it is traded twice. So is a notification that returns from B to A. One notification that never changes has no such versions, and without a phone there are none |
| no `Repeats` of the primary channel, of `TradedOnce` | under `REQUIRE_PRIMARY_SOURCE` what the primary channel says in conflict gets an id of its own; the row that the other channel then wrote over hides it, and said again it is traded again |
| `Once` of `OneTradePerAlert` and `NeverAlone` | what was held is found by its exact identity when delivered again, skips correlation and is traded. A version taken up again after a later one is such a delivery, so `Once` asks for `Forward` or a single notification |
| `fresh <= window` of `OneTradePerAlert` | a notification that is sent again while it is fresh, but after the window, is no longer compared with the message of its alert and is traded beside it |
| one notification and one message, of `OneTradePerAlert` under `REQUIRE_PRIMARY_SOURCE` | a conflict with another alert is decided by the earliest candidate alone, and the id it gives is not that of the alert the two channels agree on |

Deadlock is not checked: a system that received its last signal within the bounds
really is at rest.

**Fairness.** Only the `FairSpec`s have any, and only over what the event loop, the
scheduler and the phone do by themselves.

* `PositionLifecycle`: a coroutine past its first await goes on (`SF` of `GoesOn`): it
  may wait for the lock, which asyncio hands out in order, so that it is served if the
  lock is free again and again. The reconciler's loop repeats for ever and finds what
  there is to do (`SF` of `PollExit`, `RetryUnprotected`, `ReadPosition`). Signals,
  ticks, fills, cancellations, faults and crashes have none.
* `ExportRelay`: one weak fairness condition over relay and server together: the
  scheduler polls for ever, and the server goes on with a request it took up.
* `EntryDispatch`: weak fairness of each delivery's next step (the loop resumes a
  coroutine whose await has ended), of an order's arrival, and of each pass, which the
  reconciler's loop starts again. Deliveries, the operator, what becomes of an order
  that works, faults and crashes have none.
* `SignalIntake`: weak fairness of each handler, and of the phone's periodic worker.

## Where code and documents differ

Each violation run checks one statement that the repository makes; the trace is
what the code does instead. The last entry is the other way about: the run passes, and
comments say that the code does not do what the property asks. The lines are in
`PROJECT.json`, under findings.

* `wl_split`: after a promotion the old writer still passes `require_active`, since
  it reads its own copy of the file.
* `pl_late_check`: a repricing tests `pending_exit` before it waits for the lock, and
  resizes the stop over an exit that began meanwhile.
* `pl_adopt_fill`: adopting a filled stop awaits a lock its caller holds.
* `ex_starved`: a row parked for a reason called transient is never looked at again,
  and once such rows and the rows behind them fill the batch of every poll, no event
  of a later stream is sent. Two ways the code brings a stream to that state, both
  inside `Applies`: an edit of a message that was never a signal, and an edit of a
  signal whose receipt had no quantity or price.

* `ed_safe`: the capital of an ambiguous submission is held until its outcome is
  known (ALLOC-05, `engine.py:2413-2426`), as `HeldUntilKnown` says. Three older
  comments say it is not: `capital_allocator.py:66-69` that a reservation is released
  "as soon as that order call returns for REJECTED/ERROR", `capital_allocator.py:86-93`
  that a PENDING result without an order id, and an ERROR, "still releases
  immediately" and that deferring the release "would be worse", and
  `engine.py:2389-2397`, directly above the code, that "everything else" than a PENDING
  with an order id "releases immediately instead". `BugHoldsForIdsOnly`, the mutant of
  `HeldUntilKnown`, is what they describe. With it `NeverOvercommitted` falls too: an
  order whose answer was lost would count neither as a fill nor as reserved, and the
  next signal would be admitted beside it.

Other differences the models show, without a run of their own:

* Entry path. Outbox rows are written and never read again:
  `recover_outbox_on_restart` has no caller. A lookup that finds a lost order confirms
  its ledger row, but neither frees the capital when the order ends nor records the
  fill; where the venue also finds orders it dropped (Alpaca), so is one of those. A `PENDING_SUBMISSION` left by a crash or by `DispatchFails`, which
  `models.py:646` says is never observed, keeps the account ineligible, after a crash
  between `Answer` and `Mark` even where the broker had answered and the budget
  reservation says so. The comment on
  the sweep at startup speaks of claimed or selected intents;
  `skip_allocation_intent` touches claimed ones only, while the alert is raised for
  both. An account refused by its resources after the binding keeps the binding.
* Intake. `main.py:6134` and `db.py:1264` say that a retried upload is idempotent;
  a batch whose middle version was overtaken is not. Signals that were only imported,
  or set aside as stale, are candidates of the correlation. Under
  `REQUIRE_PRIMARY_SOURCE` two collectors of the primary channel trade one message
  twice. A message in flight is lost in a crash if a later one finished first and
  advanced the checkpoint.
* Reconciler, outside the model: for a managed entry still filling, the pass over
  broker positions adopts the venue's quantity and the poll of the entry adds the same
  fill again; a flat lifecycle whose entry ends after an exit sold everything stays
  open and blocks its symbol.

## The proofs

TLAPS checks them from no assumption but those on the constants: sites are known and
at least one exists, the operator is not a process (`SiteAssumption`,
`OperatorAssumption`); signals are finitely many (`SignalAssumption`, which counting needs); bounds are numbers (`BoundAssumption`, `MaxOwnedAssumption`);
an event has a stream and a kind (`StreamOfAssumption`, `KindAssumption`,
`AboutAssumption`); accounts are numbered, null values are no values, settings are
records of their type (`AccountAssumption`, `NobodyAssumption`, `SettingAssumption`,
`ConstantsAssumption`); texts have a price and a form, and signal ids are positive numbers
(`TextAssumption`, `IdAssumption`). TLC evaluates each in a run.

**`WriterLeaseProofs`.** `OneActivePerFile` is not inductive: a thread between the
store and its assignment to `_token` will hold a token that no guard has yet.
The inductive `IInv` adds that the guard's lock is held by one thread
(`GuardLock`), that what a thread was issued waits to be assigned
(`IssuedPending`), and what the tokens claimed by guards and threads over one file
have in common (`Claims`): none exceeds the row's, no two are equal, and the row's
holder has the newest. `QuietStep` settles every action that only forgets claims,
leaving `AcquireInStore`, `Promote` and `Restore`. For the action property
`TakeoverStep` shows that a process only writes into a row of its own site. Proved:
`TypeCorrect`, `SingleWriter`, `NeverSelfFenced`, `FencedStaysFenced`,
`TakeoversDeliberate`.

**`CloseArbiterProofs`.** `IInv` says that the ledger counts what is in flight, that an
unhalted ledger owns it, and the same of the saved copy, which a restart makes
current. Each ledger operator has a lemma. Proved: `TypeCorrect`,
`CountsWhatIsInFlight`, `NoOvercommitment`, `HaltIsFinal`. The first of these is
the answer to whether `max(0.0, ...)` can hide a drift: not for a caller that
settles at most what it reserved, and `KeepsTheArbiter` below is that the manager
is such a caller.

**The lifecycle**, in three modules, each of which takes over the invariants of the one
before and adds the next.

* `PositionLifecycleProofs`: `IInv` types the state and locates the tasks: who stands
  where holds the lock, and whose locals mean what. `SInv` adds that whoever has
  changed something without saving it stands at a label after which it will save
  (`Unsaved`). Proved: `TypeCorrect`, `RowsKeepUp`.
* `PositionLifecycleOrder`: `OInv`, for accounts whose quantity is not read (`Blind`):
  a position that is not open owns nothing, one task at most is in an entry, nothing
  is placed or sold while it is, and only a pass resolves. `CInv`: through one entry
  the two copies of the owned quantity are equal, in memory and in the row. `RInv`:
  what a `StopRecord`, or the task that edits it, says of the stop is so
  (`Recorded`). Proved: `RecordsTrue`.
* `PositionLifecycleSales`: `MInv` (`Calm`): the one stop that rests is the record's, or
  that of the task about to record it (`Alone`), and covers no more than an exit in
  flight leaves (`Fits`); until the stop fills, what is held is what the ledger owns,
  less what was sold and is not booked, plus what was bought and is not booked
  (`Tracks`). Proved: `OneStopRests`, `NothingOversold`, `ClosedNothingLeft`, which are
  one induction: that no second stop is placed depends on the first's quantity, and
  that a closed position is flat on both. `AInv` (`Accounted`): what is reserved is in
  flight, in the submitting task or as the pending exit, and is owned; every exit that
  works is the pending one or the one a task is about to make so (`Expected`). Each
  step is then one of the arbiter's `Reserve`, `Settle`, `SetOwned` or none (`Deals`).
  Proved: `WaitsForWhatWorks`, `OwnedOnce`, and `KeepsTheArbiter`, that the manager
  implements `CloseArbiter`.

**`ExportRelayProofs`.** `AppliedInOrder` is not inductive: both sequences in the code are
a maximum plus one, and mean what they should only if no two rows of a stream have the
same (`OwnSlots`) and no slot below the last is free (`NoHole`). With these,
`ExportSequence` and `ExpectedSequence` say what the two maxima are (over `Greatest`,
that a bounded set of numbers has a greatest element), and `IngestInTurnStep` follows
the walk of the cascade. `HonestOutbox` needs that answers under way are true and stay
so (`HonestAnswers`, `ForeignStays`). Proved: `TypeCorrect`, `AppliesInOrder`,
`HonestyOfOutbox`, and `ImplementsLog`, that the whole implements `OrderedLog`, where a
sequence is the number of events before it (`SequenceIsLength`).

**`EntryDispatchProofs`.** `Dispatching` is inductive: `Typed`; `Owned`, that one
delivery at most stands between opening a ledger row and its outcome; `Sent`, that
the venue has an order only after a row was opened and has one at most; `Covered`,
that what may fill is reserved; `Bound`, that a delivery past `Bind` works at the
account its signal is bound to. Under one pass at a time, `Booking` adds who will book
a fill: `RowsAndBookings`, `TasksAndBookings`, `PassesAndRows`. Proved: `TypeCorrect`,
`OrdersAtMostOnce`, `OrdersCovered`, `FillsBookedOnce`, and `ImplementsSubmitOnce`.

A release takes whatever reservation of the account there is, so nothing about the
capital of one signal is inductive alone. `Capital` says who is still to release:
`Obliged` (a submission under way, ambiguous or pending at the venue, or a task about to
settle it) and `Reserved` (a delivery that has not opened its row) come to `Needed`, and
`Owing` says that at least so much is owed, for every opportunity: then a release finds a
reservation of its own (`FreedOwn`). A dispatch that failed is the exception, `Aborted`: its
capital is gone, its row is not, and no delivery may come back to it (`OnTheWay`,
`GivenUp`). `Balanced` says of each step that it takes no more than it ends to need.
Proved: `CapitalHeld`.

For the ceiling, `Ceiling` adds, in the runs `Calm` admits: `Within`, that fills
(`Spent`: a filled row, or a fill whose capital is released and whose row is about to be
saved) and reservations are together under the ceiling, which `Exposure` compares with
when it admits one more; `Kept`, that an order a lookup found keeps one reservation more
than anybody will release; and `Landed`, where an order may be by what is recorded of
it. A fill takes the place of a reservation (`Traded`), and every order alive is counted
on one side or the other (`AliveCounted`). Proved: `NothingOvercommitted`.

**`SignalIntakeProofs`.** `IInv` types the state; `BInv` says that whatever is stored or
at hand was said by its channel, and that time has gone on since. `TradedOnce` is not
inductive: it depends on what has left no trace yet. `DInv` says that a message
delivered once is new when it is routed (`EachOnce`). `FInv` says the same of a version
of the notification taken up once: one worker, at one place of the queue (`Last`), with
the latest event before it. Where a single notification or message comes
again instead, `SInv` and `PInv` say that it has one row for as long as it may be
routed, and that the row an order was given is older than what was set aside later. On these rest `NInv`
(`Corroborated`: nothing is on its way to the venue under `REQUIRE_MATCHING_SOURCES`
unless both channels said its price), `TInv` (`SameIds`: orders for one thing said have
one id) and `OInv` (`Rows`, `Apart`, `OneId`: what the channels say alike meets in one
row). Proved: `TypeCorrect`, `TradedUnderOneId`, `AlertTradedUnderOneId`,
`NothingTradedAlone`. Attempts that failed showed what the preconditions of the last three
left out: a notification that returns to an earlier text, one that is routable for
longer than the window, and a second alert under `REQUIRE_PRIMARY_SOURCE`. The settings
`Changing`, `Posting` and `Lasting` of `si_safe` come from there.

**Only model-checked.** All liveness (`ExitsResolve`, `EventuallyProtected`,
`EventuallyDelivered`, `DecisionReached`, `AmbiguityResolved`, `CapitalFreed`,
`EveryCaptureRecorded`), which the prover does not reach.

## What is left out

Components with status `not_modelled` in `PROJECT.json`, each with its reason: decimal
arithmetic without state, parsers and network clients, reports, configuration, web
pages, the commercial service's record-keeping, the job applier. They are most of the
91 000 lines; what coordinates, retries and recovers is a few thousand, which is why
the share of mapped lines is small.

Within modelled components:

* Manager: `resolve_pending_entry`, time exits, duplicate-exit replay, excursion
  statistics, prices of stops and targets, a second symbol (so that the
  `STOP_CHANGE` rows, filtered by account only, do not meet those of another symbol).
* Reconciler: child orders, lost entries and pending entries.
* Entry path: brackets, managed entries, plain closes, dry runs, amounts other than 1.
  The outbox rows are no state: the caller of `claim_next_outbox_item` uses nothing of
  what it claims, and a crash before the call is one whose order has not left.
* Intake: e-mail and chat sources' own state, edits and deletions of messages, more
  than one instrument, the review page. `_handle_signal_edit` answers None for every
  update the phone sends, as the original has another revision.
* Export path: position snapshots, producer generations, signing, the backlog
  ceiling. An event of kind "edit" is in the model and the proofs but in neither run. A type the
  inbox does not implement, which it applies and parks at once, is not: the producer
  sends none.
