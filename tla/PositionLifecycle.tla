------------------------- MODULE PositionLifecycle --------------------------
(* One managed position of signal-copier: PositionLifecycleManager           *)
(* (app/lifecycle/manager.py) over the CloseArbiter, the coroutines that     *)
(* call it (signal and price tasks; the passes of OrderReconciler, of which  *)
(* the loop's and a run_now's may overlap), the venue, and the two SQLite    *)
(* tables a restart reads: lifecycle_state and the STOP_CHANGE rows of       *)
(* command_ledger.                                                           *)
(*                                                                           *)
(* The tasks share one event loop, so an action is the code between two      *)
(* awaits.  Every await on the arbiter's lock is a step boundary, and so is  *)
(* every broker call that moves quantity or whose answer is recorded later   *)
(* (place, submit, readback, status); replace and cancel take effect and     *)
(* return in one step.  A free lock goes to any task that waits for it,      *)
(* where asyncio.Lock serves them in turn.  Quantities are whole lots,       *)
(* prices are left out (every plan has an initial stop, validate_plan), and  *)
(* a stop fills whole.                                                       *)
EXTENDS Integers, FiniteSetsExt

CONSTANTS
  Sig, Rec,        \* coroutines: signal/price tasks, reconciliation passes
  NoTask,
  Setting,         \* the accounts looked at; a behaviour is about one of them
  MaxLot, MaxStops, MaxExits, MaxEntries \* the largest bounds of a setting

(* What the adapter of an account can do, and the bounds of its behaviours.  *)
SettingType ==
  [tasks : SUBSET (Sig \cup Rec),
   lot : 1..MaxLot,                   \* quantity an entry buys
   replace : {"none", "same", "new"}, \* the id replace_stop_quantity answers
   readback : BOOLEAN,                \* is get_broker_position implemented?
   works : BOOLEAN,                   \* may place_order answer PENDING, working?
   rejects : BOOLEAN,                 \* is a cancelled order REJECTED, or None?
   stops : 0..MaxStops, exits : 0..MaxExits, entries : 0..MaxEntries,
   faults : Nat,    \* broker calls that fail or whose answer is lost
   ratchets : Nat,  \* stop price improvements
   crashes : Nat]   \* restarts

ASSUME ConstantsAssumption ==
  /\ Sig \cap Rec = {} /\ NoTask \notin Sig \cup Rec
  /\ {MaxLot, MaxStops, MaxExits, MaxEntries} \subseteq Nat
  /\ \A w \in Setting : w \in SettingType

Task == Sig \cup Rec
StopId == 1..MaxStops
ExitId == 1..MaxExits

VARIABLES
  held,    \* venue: net quantity of the account in this symbol
  vstop,   \* venue: stop orders, [st, qty]
  vexit,   \* venue: exit orders, [st, qty, filled]
  ledger,  \* the arbiter's _Ledger
  lock,    \* task that holds the arbiter's lock
  life,    \* the PositionLifecycle
  row,     \* durable: the lifecycle_state row, [life, ledger]
  stopRows,\* durable: ids in unresolved STOP_CHANGE rows of command_ledger
  pc, loc, \* where each task is, and its locals
  env      \* may: the setting (frozen); did: bounded events so far

venue == <<held, vstop, vexit>>
durable == <<row, stopRows>>
vars == <<venue, ledger, lock, life, durable, pc, loc, env>>

NoStop == [status |-> "unprotected", id |-> 0, qty |-> 0]
NoPending == [st |-> "none", id |-> 0, requested |-> 0, confirmed |-> 0, amended |-> FALSE]
NoLife == [st |-> "none", owned |-> 0, stop |-> NoStop, pending |-> NoPending]

NoLocals == [want |-> 0, stopped |-> FALSE, amended |-> FALSE, target |-> 0,
             ans |-> "none", id |-> 0, seen |-> 0]

(* The arbiter: its operators, and the specification this one implements.    *)
InTransit == IF lock # NoTask /\ pc[lock] \in {"submit", "answered"} THEN loc[lock].want ELSE 0
RestOf(p) == IF p.st = "none" THEN 0 ELSE p.requested - p.confirmed
Arbiter == INSTANCE CloseArbiter WITH
  Key <- {"position"}, MaxOwned <- MaxLot * MaxEntries,
  ledger <- [k \in {"position"} |-> ledger],
  inflight <- [k \in {"position"} |-> RestOf(life.pending) + InTransit],
  saved <- [k \in {"position"} |->
             [ledger |-> row.ledger, inflight |-> RestOf(row.life.pending)]]

NoRow == [life |-> NoLife, ledger |-> Arbiter!NewLedger]

TypeOK ==
  /\ held \in Int
  /\ vstop \in [StopId -> [st : {"none", "resting", "filled", "cancelled", "replaced"}, qty : Nat]]
  /\ vexit \in [ExitId -> [st : {"none", "working", "done"}, qty : Nat, filled : Nat]]
  /\ ledger \in Arbiter!Ledger
  /\ lock \in Task \cup {NoTask}
  /\ life.st \in {"none", "open", "closed"} /\ life.owned \in Int
  /\ life.stop \in [status : {"unprotected", "pending", "confirmed"},
                    id : 0..MaxStops, qty : Nat]
  /\ life.pending \in [st : {"none", "id", "noid"}, id : 0..MaxExits,
                       requested : Nat, confirmed : Nat, amended : BOOLEAN]
  /\ row.life.st \in {"none", "open", "closed"} /\ stopRows \subseteq StopId

Init ==
  /\ held = 0
  /\ vstop = [s \in StopId |-> [st |-> "none", qty |-> 0]]
  /\ vexit = [e \in ExitId |-> [st |-> "none", qty |-> 0, filled |-> 0]]
  /\ ledger = Arbiter!NewLedger /\ lock = NoTask /\ life = NoLife
  /\ row = NoRow /\ stopRows = {}
  /\ pc = [t \in Task |-> "idle"] /\ loc = [t \in Task |-> NoLocals]
  /\ \E w \in Setting :
       env = [may |-> w, did |-> [entries |-> 0, faults |-> 0, ratchets |-> 0, crashes |-> 0]]

-----------------------------------------------------------------------------
(* The venue (brokers/base.py's contract, as paper, alpaca and ccxt keep it).*)

FreshStops == {s \in 1..env.may.stops : vstop[s].st = "none"}
Rests(s) == s # 0 /\ vstop[s].st = "resting"
FreshExits == {e \in 1..env.may.exits : vexit[e].st = "none"}

StopTriggers(s) ==
  /\ vstop[s].st = "resting"
  /\ vstop' = [vstop EXCEPT ![s].st = "filled"]
  /\ held' = held - vstop[s].qty
  /\ UNCHANGED <<vexit, ledger, lock, life, durable, pc, loc, env>>

ExitProgresses(e, f) ==
  /\ vexit[e].st = "working" /\ f \in 1..(vexit[e].qty - vexit[e].filled)
  /\ held' = held - f
  /\ vexit' = [vexit EXCEPT ![e].filled = @ + f,
                            ![e].st = IF vexit[e].filled + f = vexit[e].qty THEN "done" ELSE @]
  /\ UNCHANGED <<vstop, ledger, lock, life, durable, pc, loc, env>>

(* What is left of an exit order is cancelled or expires.                    *)
ExitEnds(e) ==
  /\ vexit[e].st = "working"
  /\ vexit' = [vexit EXCEPT ![e].st = "done"]
  /\ UNCHANGED <<held, vstop, ledger, lock, life, durable, pc, loc, env>>

(* A broker call goes wrong.                                                 *)
Fault == env.did.faults < env.may.faults /\ env' = [env EXCEPT !.did.faults = @ + 1]

(* get_order_status of a stop: terminal answers only, None for one at rest.  *)
StopStatus(s) ==
  CASE vstop[s].st = "filled" -> "FILLED"
    [] vstop[s].st = "cancelled" /\ env.may.rejects -> "REJECTED"
    [] OTHER -> "None"

(* replace_stop_quantity(s, q): ans is the id that now rests, 0 for None and *)
(* -1 for an answer of REJECTED.                                             *)
Replaced(s, q, id) ==
  IF id = s THEN [vstop EXCEPT ![s].qty = q]
  ELSE [vstop EXCEPT ![s].st = "replaced", ![id] = [st |-> "resting", qty |-> q]]
VenueReplace(s, q, ans) ==
  \/ /\ Rests(s)
     /\ \/ env.may.replace = "same" /\ ans = s
        \/ env.may.replace = "new" /\ FreshStops # {} /\ ans = Min(FreshStops)
     /\ vstop' = Replaced(s, q, ans)
     /\ UNCHANGED env
  \/ /\ Rests(s) /\ env.may.replace = "new" /\ FreshStops # {} /\ Fault
     /\ ans \in {0, -1}
     /\ vstop' \in {vstop} \cup (IF ans = 0 THEN {Replaced(s, q, Min(FreshStops))} ELSE {})
  \/ /\ ans = 0 /\ (~Rests(s) \/ env.may.replace = "none")
     /\ UNCHANGED <<vstop, env>>

(* cancel_order(s): TRUE only when the cancellation is confirmed.            *)
VenueCancel(s, ans) ==
  \/ /\ Rests(s) /\ ans = TRUE
     /\ vstop' = [vstop EXCEPT ![s].st = "cancelled"]
     /\ UNCHANGED env
  \/ /\ Rests(s) /\ ans = FALSE /\ Fault
     /\ vstop' \in {vstop, [vstop EXCEPT ![s].st = "cancelled"]}
  \/ /\ ~Rests(s) /\ ans = FALSE
     /\ UNCHANGED <<vstop, env>>

-----------------------------------------------------------------------------
(* Steps every operation shares.                                             *)

At(t, label) == pc[t] = label
Idle(t) == t \in env.may.tasks /\ At(t, "idle")
Go(t, label) == pc' = [pc EXCEPT ![t] = label]
Active == life.st = "open"
NoUnresolvedExit == life.pending.st = "none"

(* _persist and record_fill(lifecycle_state=...): the row as it will be read *)
(* by a restart; a closed position has none.                                 *)
RowOf(lf, l) == IF lf.st = "closed" THEN NoRow ELSE [life |-> lf, ledger |-> l]
Persist == row' = RowOf(life', ledger')

(* The end of an operation: the lock is released and the task is done.       *)
Done(t) ==
  /\ pc' = [pc EXCEPT ![t] = "idle"] /\ loc' = [loc EXCEPT ![t] = NoLocals]
  /\ lock' = IF lock = t THEN NoTask ELSE lock
BugForgetsToPersist(t) == UNCHANGED row /\ Done(t)
Finish(t) == Persist /\ Done(t)

(* _place_stop_locked up to its first await.                                 *)
Placing(lf) == [lf EXCEPT !.stop.status = "pending"]
Unprotected(lf) == [lf EXCEPT !.stop.status = "unprotected", !.stop.qty = 0]

-----------------------------------------------------------------------------
(* Entry: start_plan, the entry order, on_entry_fill.                        *)

MayEnter == ~Active
StartPlan(s) ==
  /\ Idle(s) /\ MayEnter /\ env.did.entries < env.may.entries
  /\ env' = [env EXCEPT !.did.entries = @ + 1]
  /\ life' = [NoLife EXCEPT !.st = "open"]
  /\ UNCHANGED ledger /\ Persist
  /\ Go(s, "entry")
  /\ UNCHANGED <<venue, lock, stopRows, loc>>

EntryFills(s) ==
  /\ At(s, "entry")
  /\ held' = held + env.may.lot
  /\ Go(s, "bought")
  /\ UNCHANGED <<vstop, vexit, ledger, lock, life, durable, loc, env>>

OnEntryFill(s) ==
  /\ At(s, "bought") /\ lock = NoTask
  /\ lock' = s
  /\ ledger' = Arbiter!SetOwnedIn(ledger, env.may.lot)
  /\ life' = Placing([life EXCEPT !.owned = env.may.lot])
  /\ loc' = [loc EXCEPT ![s].target = env.may.lot]
  /\ Go(s, "place")
  /\ UNCHANGED <<venue, durable, env>>

-----------------------------------------------------------------------------
(* _place_stop_locked: _try_adopt_unresolved_stop, then a new stop order.    *)
(* The rows are asked newest first until one has an answer.                  *)

Answering == {s \in stopRows : StopStatus(s) # "None"}

AdoptionFindsNothing(t) ==
  /\ At(t, "place") /\ Answering = {}
  /\ Go(t, "order")
  /\ UNCHANGED <<venue, ledger, lock, life, durable, loc, env>>

AdoptionRejected(t) ==
  /\ At(t, "place") /\ Answering # {} /\ StopStatus(Max(Answering)) = "REJECTED"
  /\ life' = Unprotected(life)
  /\ UNCHANGED ledger
  /\ Finish(t)
  /\ UNCHANGED <<venue, stopRows, env>>

(* on_stop_filled is awaited with the arbiter's lock still held.             *)
AdoptionFilled(t) ==
  /\ At(t, "place") /\ Answering # {} /\ StopStatus(Max(Answering)) = "FILLED"
  /\ loc' = [loc EXCEPT ![t].seen = vstop[Max(Answering)].qty]
  /\ Go(t, "stopfill")
  /\ UNCHANGED <<venue, ledger, lock, life, durable, env>>

(* place_protective_stop at the venue; the answer may be lost or be no.      *)
OrderStop(t) ==
  /\ At(t, "order") /\ FreshStops # {}
  /\ LET s == Min(FreshStops)
         Accepted == vstop' = [vstop EXCEPT ![s] = [st |-> "resting", qty |-> loc[t].target]]
     IN \/ Accepted /\ loc' = [loc EXCEPT ![t].id = s] /\ UNCHANGED env
        \/ (Accepted \/ UNCHANGED vstop) /\ Fault /\ loc' = [loc EXCEPT ![t].id = 0]
  /\ Go(t, "ordered")
  /\ UNCHANGED <<held, vexit, ledger, lock, life, durable>>

BugRecordsWant(t) == life.owned + loc[t].want \* the quantity before the exit
Covered(t) == loc[t].target

StopOrdered(t) ==
  /\ At(t, "ordered")
  /\ stopRows' = stopRows \cup ({loc[t].id} \ {0})
  /\ life' = IF loc[t].id = 0 THEN Unprotected(life)
             ELSE [life EXCEPT !.stop = [status |-> "confirmed", id |-> loc[t].id, qty |-> Covered(t)]]
  /\ UNCHANGED ledger
  /\ Finish(t)
  /\ UNCHANGED <<venue, env>>

(* A broker call raises: the exception leaves the arbiter's transition, so   *)
(* the lock is free, and it leaves the operation before it has persisted.    *)
BrokerCallRaises(t) ==
  /\ \/ pc[t] \in {"place", "amend", "cancel", "restore", "resize", "recancel", "fit"} /\ Fault
     \/ At(t, "ordered") /\ loc[t].id = 0 /\ UNCHANGED env
  /\ Done(t)
  /\ UNCHANGED <<venue, ledger, life, durable>>

-----------------------------------------------------------------------------
(* request_exit: one transition of the arbiter, under its lock throughout.   *)

BugAllowsSecond == Active /\ ~ledger.halted \* pending_exit is not looked at
MayExit == Active /\ ~ledger.halted /\ NoUnresolvedExit

(* tx.reserve, after which place_order is called.                            *)
ReserveFor(t, want) ==
  /\ Arbiter!MayReserve(ledger, want)
  /\ ledger' = Arbiter!ReserveIn(ledger, want)
  /\ Go(t, "submit")

ExitBegins(s, q) ==
  LET want == Min({q, Arbiter!Available(ledger)})
      stopped == life.stop.id # 0
      amend == stopped /\ ledger.owned > want /\ env.may.replace # "none"
  IN
  /\ Idle(s) /\ lock = NoTask /\ MayExit /\ want > 0 /\ FreshExits # {}
  /\ lock' = s
  /\ loc' = [loc EXCEPT ![s].want = want, ![s].stopped = stopped, ![s].id = life.stop.id]
  /\ IF stopped THEN Go(s, IF amend THEN "amend" ELSE "cancel") /\ UNCHANGED ledger
     ELSE ReserveFor(s, want)
  /\ UNCHANGED <<venue, life, durable, env>>

BugLeavesAll(l, want) == l.owned \* the quantity before the exit
LeftBy(l, want) == l.owned - want

(* The stop is resized to what will remain, or else it will be cancelled.    *)
ExitAmends(s) ==
  /\ At(s, "amend")
  /\ \E id \in -1..MaxStops :
       /\ VenueReplace(loc[s].id, LeftBy(ledger, loc[s].want), id)
       /\ IF id > 0
          THEN /\ life' = [life EXCEPT !.stop.id = id, !.stop.qty = LeftBy(ledger, loc[s].want)]
               /\ loc' = [loc EXCEPT ![s].amended = TRUE]
               /\ ReserveFor(s, loc[s].want)
          ELSE Go(s, "cancel") /\ UNCHANGED <<ledger, life, loc>>
  /\ UNCHANGED <<held, vexit, lock, durable>>

ExitCancels(s) ==
  /\ At(s, "cancel")
  /\ \E ans \in BOOLEAN :
       /\ VenueCancel(loc[s].id, ans)
       /\ IF ans
          THEN /\ life' = [life EXCEPT !.stop.status = "unprotected", !.stop.id = 0]
               /\ ReserveFor(s, loc[s].want)
               /\ UNCHANGED <<lock, loc>>
          ELSE Done(s) /\ UNCHANGED <<ledger, life>>
  /\ UNCHANGED <<held, vexit, durable>>

(* place_order at the venue: filled at once, in part or whole, rejected,     *)
(* accepted and working, or an ERROR (or exception) that leaves that open.   *)
ExitSubmits(s) ==
  LET e == Min(FreshExits)
      Becomes(st, f) ==
        /\ vexit' = [vexit EXCEPT ![e] = [st |-> st, qty |-> loc[s].want, filled |-> f]]
        /\ held' = held - f
      Answer(a) == loc' = [loc EXCEPT ![s].ans = a, ![s].id = e]
  IN
  /\ At(s, "submit") /\ FreshExits # {}
  /\ \/ (\E f \in 0..loc[s].want : Becomes("done", f)) /\ Answer("terminal") /\ UNCHANGED env
     \/ env.may.works /\ Becomes("working", 0) /\ Answer("PENDING") /\ UNCHANGED env
     \/ (Becomes("working", 0) \/ Becomes("done", 0)) /\ Answer("ERROR") /\ Fault
  /\ Go(s, "answered")
  /\ UNCHANGED <<vstop, ledger, lock, life, durable>>

PendingExit(s) ==
  [st |-> IF loc[s].ans = "PENDING" THEN "id" ELSE "noid",
   id |-> IF loc[s].ans = "PENDING" THEN loc[s].id ELSE 0,
   requested |-> loc[s].want, confirmed |-> 0, amended |-> loc[s].amended]

ExitUnresolved(s) ==
  /\ At(s, "answered") /\ loc[s].ans \in {"PENDING", "ERROR"}
  /\ life' = [life EXCEPT !.pending = PendingExit(s)]
  /\ UNCHANGED ledger
  /\ Finish(s)
  /\ UNCHANGED <<venue, stopRows, env>>

(* After a settlement: closed when nothing is left, else the stop is put     *)
(* back over what is (_restore_stop_coverage), else only the fill is booked. *)
BugDustIsFlat(lf) == lf.owned <= 1 \* closed one lot early
Flat(lf) == lf.owned <= 0
BugAlwaysPlaces(lf, amended) == FALSE \* an amended stop gets a second one beside it
MayResize(lf, amended) == amended /\ lf.stop.id # 0
AfterSettlement(t, lf, restore, amended) ==
  IF Flat(lf)
  THEN life' = [lf EXCEPT !.st = "closed"] /\ Finish(t) /\ UNCHANGED stopRows
  ELSE IF ~restore THEN life' = lf /\ Finish(t) /\ UNCHANGED stopRows
  ELSE /\ lock' = t
       /\ loc' = [loc EXCEPT ![t].target = lf.owned, ![t].id = lf.stop.id]
       /\ IF MayResize(lf, amended) THEN Go(t, "restore") /\ life' = lf
          ELSE Go(t, "place") /\ life' = Placing(lf)
       /\ UNCHANGED durable

ExitAnswered(s) ==
  LET l == Arbiter!SettleIn(ledger, loc[s].want, vexit[loc[s].id].filled) IN
  /\ At(s, "answered") /\ loc[s].ans = "terminal"
  /\ ledger' = l
  /\ AfterSettlement(s, [life EXCEPT !.owned = l.owned], loc[s].stopped, loc[s].amended)
  /\ UNCHANGED <<venue, env>>

(* A failed replacement leaves the amended stop as it was.                   *)
RestoreCoverage(t) ==
  /\ At(t, "restore")
  /\ \E id \in -1..MaxStops :
       /\ VenueReplace(loc[t].id, loc[t].target, id)
       /\ life' = IF id > 0 THEN [life EXCEPT !.stop.id = id, !.stop.qty = loc[t].target] ELSE life
  /\ UNCHANGED ledger
  /\ Finish(t)
  /\ UNCHANGED <<held, vexit, stopRows>>

-----------------------------------------------------------------------------
(* _reconcile_pending_exits polls the order of a PendingExit, then calls     *)
(* resolve_pending_exit with the answer; _reconcile_broker_positions calls   *)
(* it for an exit that has no order id.                                      *)

BugAwaitsFill(e) == \* an order that ended unfilled is no news
  e.filled > life.pending.confirmed
HasNews(e) == e.st = "done" \/ e.filled > life.pending.confirmed

PollExit(r) ==
  LET e == vexit[life.pending.id] IN
  /\ Idle(r) /\ Active /\ life.pending.st = "id" /\ HasNews(e)
  /\ loc' = [loc EXCEPT ![r].seen = e.filled, ![r].ans = IF e.st = "done" THEN "final" ELSE "partial"]
  /\ Go(r, "resolve")
  /\ UNCHANGED <<venue, ledger, lock, life, durable, env>>

Increase(r) == Arbiter!AtLeastZero(loc[r].seen - life.pending.confirmed)

BugForgetsReservation(p, delta) == delta \* the unfilled part stays reserved
StillReserved(p, delta) == Arbiter!AtLeastZero(p.requested - p.confirmed)

NothingToResolve(r) ==
  /\ At(r, "resolve") /\ lock = NoTask /\ NoUnresolvedExit
  /\ Done(r)
  /\ UNCHANGED <<venue, ledger, life, durable, env>>

ResolvePartial(r) ==
  LET l == Arbiter!SettleIn(ledger, Increase(r), Increase(r)) IN
  /\ At(r, "resolve") /\ lock = NoTask /\ ~NoUnresolvedExit
  /\ loc[r].ans = "partial" /\ loc[r].seen < life.pending.requested
  /\ ledger' = IF Increase(r) > 0 THEN l ELSE ledger
  /\ life' = [life EXCEPT !.owned = IF Increase(r) > 0 THEN l.owned ELSE @,
                          !.pending.confirmed = loc[r].seen]
  /\ Finish(r)
  /\ UNCHANGED <<venue, stopRows, env>>

ResolveFinal(r) ==
  LET l == Arbiter!SettleIn(ledger, StillReserved(life.pending, Increase(r)), Increase(r)) IN
  /\ At(r, "resolve") /\ lock = NoTask /\ ~NoUnresolvedExit
  /\ loc[r].ans = "final" \/ loc[r].seen >= life.pending.requested
  /\ ledger' = l
  /\ AfterSettlement(r, [life EXCEPT !.owned = l.owned, !.pending = NoPending],
                     TRUE, life.pending.amended)
  /\ UNCHANGED <<venue, env>>

-----------------------------------------------------------------------------
(* _replace_stop_price, called by a price task that ratchets the stop and by *)
(* retry_unprotected_positions.  pending_exit is looked at before the lock   *)
(* is awaited.                                                               *)

Ratchet(s) ==
  /\ Idle(s) /\ Active /\ ~ledger.halted /\ NoUnresolvedExit
  /\ env.did.ratchets < env.may.ratchets /\ env' = [env EXCEPT !.did.ratchets = @ + 1]
  /\ Go(s, "reprice")
  /\ UNCHANGED <<venue, ledger, lock, life, durable, loc>>

Protected == life.stop.status = "confirmed" /\ life.owned <= life.stop.qty
NeedsStop == Active /\ life.owned > 0 /\ ~Protected /\ NoUnresolvedExit

BugSkipsPending == \* a stop left STOP_PENDING is taken for protection
  NeedsStop /\ life.stop.status = "unprotected"
ToRetry == NeedsStop

RetryUnprotected(r) ==
  /\ Idle(r) /\ ToRetry
  /\ Go(r, "reprice")
  /\ UNCHANGED <<venue, ledger, lock, life, durable, loc, env>>

RepriceBegins(t) ==
  /\ At(t, "reprice") /\ lock = NoTask
  /\ IF ledger.owned <= 0 THEN Done(t) /\ UNCHANGED life
     ELSE /\ lock' = t
          /\ loc' = [loc EXCEPT ![t].target = ledger.owned, ![t].id = life.stop.id]
          /\ IF life.stop.id # 0 THEN Go(t, "resize") /\ UNCHANGED life
             ELSE Go(t, "place") /\ life' = Placing(life)
  /\ UNCHANGED <<venue, ledger, durable, env>>

RepriceReplaces(t) ==
  /\ At(t, "resize")
  /\ \E id \in -1..MaxStops :
       /\ VenueReplace(loc[t].id, loc[t].target, id)
       /\ life' = IF id > 0 THEN [life EXCEPT !.stop.id = id, !.stop.qty = loc[t].target] ELSE life
       /\ UNCHANGED ledger
       /\ IF id = 0 THEN Go(t, "recancel") /\ UNCHANGED <<lock, loc, row>> ELSE Finish(t)
  /\ UNCHANGED <<held, vexit, stopRows>>

RepriceCancels(t) ==
  /\ At(t, "recancel")
  /\ \E ans \in BOOLEAN :
       /\ VenueCancel(loc[t].id, ans)
       /\ IF ans
          THEN life' = Placing([life EXCEPT !.stop.id = 0]) /\ Go(t, "place") /\ UNCHANGED <<lock, loc>>
          ELSE Done(t) /\ UNCHANGED life
  /\ UNCHANGED <<held, vexit, ledger, durable>>

-----------------------------------------------------------------------------
(* _reconcile_broker_positions: the venue's quantity is read, and what it    *)
(* differs by from the tracked one is computed when the read returns.        *)

ReadPosition(r) ==
  /\ Idle(r) /\ env.may.readback /\ Active /\ life.pending.st # "id" /\ held >= 0
  /\ loc' = [loc EXCEPT ![r].seen = held, ![r].ans = life.pending.st]
  /\ Go(r, "read")
  /\ UNCHANGED <<venue, ledger, lock, life, durable, env>>

Deficit(r) == life.owned - loc[r].seen

(* An exit without an order id: the venue's quantity says what was filled.   *)
ReadResolves(r) ==
  /\ At(r, "read") /\ loc[r].ans = "noid"
  /\ IF NoUnresolvedExit THEN Done(r)
     ELSE /\ loc' = [loc EXCEPT ![r].ans = "final",
                     ![r].seen = Min({Arbiter!AtLeastZero(Deficit(r)), life.pending.requested})]
          /\ Go(r, "resolve") /\ UNCHANGED lock
  /\ UNCHANGED <<venue, ledger, life, durable, env>>

ReadAgrees(r) ==
  /\ At(r, "read") /\ loc[r].ans = "none" /\ Deficit(r) = 0
  /\ Done(r)
  /\ UNCHANGED <<venue, ledger, life, durable, env>>

(* adopt_venue_ownership, then _replace_stop_price.                          *)
BugAdoptsStopOnly(l, q) == l \* the lifecycle follows the venue, the ledger does not
AdoptIn(l, q) == Arbiter!SetOwnedIn(l, q)
ReadAdopts(r) ==
  /\ At(r, "read") /\ loc[r].ans = "none" /\ Deficit(r) < 0
  /\ Go(r, "adopt")
  /\ UNCHANGED <<venue, ledger, lock, life, durable, loc, env>>

AdoptVenueOwnership(r) ==
  /\ At(r, "adopt") /\ lock = NoTask
  /\ ledger' = AdoptIn(ledger, loc[r].seen)
  /\ life' = [life EXCEPT !.owned = loc[r].seen]
  /\ Persist
  /\ Go(r, IF NoUnresolvedExit THEN "reprice" ELSE "idle")
  /\ loc' = [loc EXCEPT ![r] = NoLocals]
  /\ UNCHANGED <<venue, lock, stopRows, env>>

(* The venue holds less: the stop is polled, and what it filled, or else the *)
(* deficit, goes through on_stop_filled.                                     *)
ReadFindsDeficit(r) ==
  /\ At(r, "read") /\ loc[r].ans = "none" /\ Deficit(r) > 0
  /\ loc' = [loc EXCEPT ![r].seen = Deficit(r), ![r].target = loc[r].seen, ![r].id = life.stop.id]
  /\ Go(r, IF life.stop.id # 0 THEN "pollstop" ELSE "stopfill")
  /\ UNCHANGED <<venue, ledger, lock, life, durable, env>>

PollStop(r) ==
  /\ At(r, "pollstop")
  /\ IF StopStatus(loc[r].id) = "FILLED"
     THEN loc' = [loc EXCEPT ![r].seen = vstop[loc[r].id].qty] /\ Go(r, "stopfill")
     ELSE Go(r, "fit") /\ UNCHANGED loc
  /\ UNCHANGED <<venue, ledger, lock, life, durable, env>>

(* resize_stop_to_owned, which does not take the lock.                       *)
ResizeStopToOwned(r) ==
  /\ At(r, "fit")
  /\ IF life.stop.id = 0 \/ life.stop.qty = loc[r].target
     THEN UNCHANGED <<vstop, life, env>>
     ELSE \/ /\ loc[r].target = 0
             /\ \E ans \in BOOLEAN :
                  /\ VenueCancel(life.stop.id, ans)
                  /\ life' = IF ans THEN [life EXCEPT !.stop = NoStop, !.st = "closed"] ELSE life
          \/ /\ loc[r].target > 0
             /\ \E id \in -1..MaxStops :
                  /\ VenueReplace(life.stop.id, loc[r].target, id)
                  /\ life' = IF id > 0
                             THEN [life EXCEPT !.stop.id = id, !.stop.qty = loc[r].target] ELSE life
  /\ Go(r, "stopfill")
  /\ UNCHANGED <<held, vexit, ledger, lock, durable, loc>>

BugNoFloor(lf, f) == \* a fill of more than the stop covers is not told apart
  [lf EXCEPT !.st = IF lf.owned <= 0 THEN "closed" ELSE @, !.stop.qty = @ - f]
StopAfter(lf, f) ==
  IF lf.owned <= 0 THEN [lf EXCEPT !.st = "closed", !.stop = NoStop]
  ELSE IF lf.stop.qty <= f THEN [lf EXCEPT !.stop = NoStop]
  ELSE [lf EXCEPT !.stop.qty = @ - f]

OnStopFilled(t) ==
  LET l == Arbiter!SettleIn(ledger, 0, loc[t].seen) IN
  /\ At(t, "stopfill") /\ lock = NoTask
  /\ ledger' = l
  /\ life' = StopAfter([life EXCEPT !.owned = l.owned], loc[t].seen)
  /\ Finish(t)
  /\ UNCHANGED <<venue, stopRows, env>>

-----------------------------------------------------------------------------
(* on_price_update checkpoints the lifecycle without the lock; a restart     *)
(* reads the row back (restore_from_store).  No stop is adopted then: at     *)
(* rest it has the status None, _adopt_unresolved_stops_at_startup acts on   *)
(* PENDING only.                                                             *)

PriceTick ==
  /\ Active /\ env.did.crashes < env.may.crashes
  /\ row' = RowOf(life, ledger)
  /\ UNCHANGED <<venue, ledger, lock, life, stopRows, pc, loc, env>>

CrashAndRestart ==
  /\ env.did.crashes < env.may.crashes /\ env' = [env EXCEPT !.did.crashes = @ + 1]
  /\ life' = row.life /\ ledger' = row.ledger /\ lock' = NoTask
  /\ pc' = [t \in Task |-> "idle"] /\ loc' = [t \in Task |-> NoLocals]
  /\ UNCHANGED <<venue, durable>>

-----------------------------------------------------------------------------
Entering(s) == StartPlan(s) \/ EntryFills(s) \/ OnEntryFill(s)
PlacingStop(t) ==
  \/ AdoptionFindsNothing(t) \/ AdoptionRejected(t) \/ AdoptionFilled(t)
  \/ OrderStop(t) \/ StopOrdered(t) \/ BrokerCallRaises(t)
ExitProceeds(s) ==
  \/ ExitAmends(s) \/ ExitCancels(s) \/ ExitSubmits(s)
  \/ ExitUnresolved(s) \/ ExitAnswered(s)
Restoring(t) == RestoreCoverage(t)
Repricing(t) == RepriceBegins(t) \/ RepriceReplaces(t) \/ RepriceCancels(t)
Resolving(r) ==
  \/ PollExit(r) \/ NothingToResolve(r) \/ ResolvePartial(r) \/ ResolveFinal(r)
ReconcilingPosition(r) ==
  \/ ReadPosition(r) \/ ReadResolves(r) \/ ReadAgrees(r) \/ ReadAdopts(r)
  \/ AdoptVenueOwnership(r) \/ ReadFindsDeficit(r) \/ PollStop(r) \/ ResizeStopToOwned(r)

Venue ==
  \/ \E s \in StopId : StopTriggers(s)
  \/ \E e \in ExitId : ExitEnds(e) \/ \E f \in 1..env.may.lot : ExitProgresses(e, f)

Next ==
  \/ \E s \in Sig : \/ Entering(s) \/ ExitProceeds(s) \/ Ratchet(s)
                    \/ \E q \in 1..env.may.lot : ExitBegins(s, q)
  \/ \E t \in Task : PlacingStop(t) \/ Restoring(t) \/ Repricing(t) \/ OnStopFilled(t)
  \/ \E r \in Rec : Resolving(r) \/ RetryUnprotected(r) \/ ReconcilingPosition(r)
  \/ Venue \/ PriceTick \/ CrashAndRestart

Spec == Init /\ [][Next]_vars

(* Fairness: the event loop runs what can run, so a coroutine past its first *)
(* await goes on; the loop's pass is repeated for ever, so what it finds to  *)
(* do it does.  Signals, the venue's fills, faults and crashes are free.     *)
GoesOn(t) ==
  \/ EntryFills(t) \/ OnEntryFill(t) \/ PlacingStop(t) \/ ExitProceeds(t)
  \/ Restoring(t) \/ Repricing(t) \/ OnStopFilled(t)
  \/ NothingToResolve(t) \/ ResolvePartial(t) \/ ResolveFinal(t)
  \/ ReadResolves(t) \/ ReadAgrees(t) \/ ReadAdopts(t) \/ AdoptVenueOwnership(t)
  \/ ReadFindsDeficit(t) \/ PollStop(t) \/ ResizeStopToOwned(t)
FairSpec ==
  /\ Spec
  /\ \A t \in Task : SF_vars(GoesOn(t))
  /\ \A r \in Rec : SF_vars(PollExit(r)) /\ SF_vars(RetryUnprotected(r)) /\ SF_vars(ReadPosition(r))

-----------------------------------------------------------------------------
(* Where a property does not hold of every account, it says of which ones.   *)
NoCallFails == env.may.faults = 0
NoLostAnswers == NoCallFails /\ env.may.crashes = 0 /\ ~env.may.readback
AnswersAtOnce == NoLostAnswers /\ ~env.may.works
OnePass ==
  /\ env.may.crashes = 0 /\ ~env.may.readback
  /\ \A p, q \in env.may.tasks \cap Rec : p = q

(* The exit arithmetic of the module's docstring ("The stop-resize           *)
(* transition"): what rests as a stop and what still works as an exit order  *)
(* never adds up to more than the account holds, so no run of fills sells    *)
(* more than is owned.                                                       *)
Resting == {s \in StopId : Rests(s)}
Working == {e \in ExitId : vexit[e].st = "working"}
Sellable == MapThenSumSet(LAMBDA s : vstop[s].qty, Resting)
            + MapThenSumSet(LAMBDA e : vexit[e].qty - vexit[e].filled, Working)
Solvent == Sellable <= Arbiter!AtLeastZero(held)
NeverOversold == AnswersAtOnce => Solvent

(* At most one protective stop rests at the venue, whoever places, replaces, *)
(* cancels or adopts it (_try_adopt_unresolved_stop is there for this).      *)
OneStop == AnswersAtOnce => Cardinality(Resting) <= 1

(* A StopRecord that says STOP_CONFIRMED names an order that rests, or has   *)
(* just filled, with the quantity the record says it protects.               *)
Truthful ==
  NoLostAnswers /\ lock = NoTask /\ Active /\ life.stop.status = "confirmed" =>
    /\ life.stop.id # 0
    /\ vstop[life.stop.id].st \in {"resting", "filled"}
    /\ vstop[life.stop.id].qty = life.stop.qty

(* A lifecycle is closed (its row deleted, no pass ever looks at it again)   *)
(* only when the account is flat and no order of it is left at the venue.    *)
ClosedIsFlat ==
  AnswersAtOnce /\ life.st = "closed" => held <= 0 /\ Sellable = 0

(* No coroutine waits for the arbiter's lock while it holds it.              *)
NoSelfDeadlock == \A t \in Task : ~(At(t, "stopfill") /\ lock = t)

(* An exit order that still works at the venue is the one the lifecycle      *)
(* waits for as its PendingExit, with all that may still fill reserved; so   *)
(* request_exit, which refuses while one is pending, never adds a second.    *)
WorkingIsPending ==
  OnePass /\ NoCallFails /\ lock = NoTask => \A e \in Working :
    life.pending.id = e /\ ledger.reserved >= vexit[e].qty - vexit[e].filled

(* The owned quantity is kept twice, in the arbiter's ledger and in the      *)
(* lifecycle; whenever the lock is free the two are equal, through every     *)
(* entry of an account that has one pass at a time, and through the first of *)
(* any account.                                                              *)
CopiesAgree ==
  (OnePass \/ env.may.entries <= 1) /\ lock = NoTask /\ Active => ledger.owned = life.owned

(* Whatever a finished operation changed is in the row a restart reads.      *)
Checkpointed ==
  NoCallFails /\ (\A t \in Task : At(t, "idle")) => row = RowOf(life, ledger)

(* retry_unprotected_positions, as its docstring has it: a position that     *)
(* owns something and has no stop over it, and no exit to wait for, does not *)
(* stay so, if its StopRecord is not stale (it names no order, or one that   *)
(* still rests).                                                             *)
Exposed == NeedsStop /\ (life.stop.id = 0 \/ Rests(life.stop.id))
EventuallyProtected == ~env.may.rejects /\ Exposed ~> ~Exposed

(* A PendingExit whose order has ended at the venue is settled, and its      *)
(* reservation returned, by some later pass.                                 *)
ExitsResolve == \A e \in ExitId :
  (~env.may.readback /\ Active /\ life.pending.id = e /\ vexit[e].st = "done") ~> life.pending.id # e

(* The manager uses the arbiter as CloseArbiter allows: what is reserved is  *)
(* what is in flight, in the submitting coroutine or as a PendingExit.  It   *)
(* implements CloseArbiter!Spec in an account with one pass at a time, where *)
(* no restart comes in between (a tick may have saved a reservation whose    *)
(* PendingExit is not saved) and no position is read back.                   *)
ArbiterSpec ==
  Arbiter!Init /\ [][OnePass => Arbiter!Next]_(Arbiter!vars)

=============================================================================
