----------------------------- MODULE EntryDispatch -----------------------------
(***************************************************************************)
(* The plain entry path of signal-copier: deliveries of signals run         *)
(* Engine._handle_signal concurrently in one event loop, choose an account, *)
(* reserve capital, write the command ledger and call the broker; the order *)
(* reconciler and the operator settle what the path left open; the process  *)
(* may die between any two durable writes and the sources redeliver.        *)
(*                                                                         *)
(* A task runs without interruption from one await to the next.  `running` *)
(* names the task that is between two awaits, so that its durable writes   *)
(* are separate steps a crash can fall between, and no other task's step.  *)
(* Every entry has the same notional, 1, and every account a ceiling.      *)
(***************************************************************************)
EXTENDS Naturals, FiniteSets

CONSTANTS
  Signal,      \* signal ids
  Account,     \* destination accounts, tried in the order of their numbers
  Task,        \* concurrent deliveries
  Pass,        \* concurrent reconciliation passes
  NoSignal,
  NoAccount,
  Nobody,
  Setting      \* what may happen in a run: a set of records of SettingType

VARIABLES
  intent,      \* allocation_intents: [Signal -> [state, account]]
  ledger,      \* command_ledger row of the entry: [Opp -> LedgerState]
  resv,        \* budget_reservations: [Opp -> ReservationState]
  owed,        \* unresolved capital_reservations: [Opp -> Nat]
  rows,        \* the statuses of the order rows: [Opp -> SUBSET RowState]
  booked,      \* what fills added to positions.net_quantity: [Opp -> Nat]
  venue,       \* the broker's side: [Opp -> [sent, state]]
  task,        \* [Task -> local state of a delivery]
  pass,        \* [Pass -> local state of a reconciliation pass]
  running,     \* the task between two awaits, or Nobody
  env          \* the setting of this run and what has been spent of it

durable == <<intent, ledger, resv, owed, rows, booked>>
vars == <<durable, venue, task, pass, running, env>>

Opp == Signal \X Account

IntentState == {"none", "claimed", "selected", "committed", "skipped"}
LedgerState == {"NONE", "PENDING_SUBMISSION", "SUBMITTED_UNCONFIRMED",
                "UNKNOWN_AMBIGUOUS", "CONFIRMED", "REJECTED_CONFIRMED"}
ReservationState == {"NONE", "HELD", "COMMITTED_TO_PENDING_ORDER",
                     "FILLED_EXPOSURE", "UNKNOWN_HELD", "RELEASED"}
RowState == {"PENDING", "FILLED", "REJECTED", "ERROR"}
VenueState == {"none", "sending", "working", "filled", "gone"}
AnswerState == {"none", "FILLED", "PENDING", "REJECTED", "LOST"}
TaskPc == {"idle", "gate", "claim", "pick", "reserve", "bind", "resources",
           "open", "dispatch", "call", "answer", "mark", "settle", "book", "save"}

\* signals: the signals of the run; single: accounts are alternatives, not
\* replicas; overlap: two deliveries of a signal may run at once; refuse: a
\* screen may reject an account; resize: sizing may differ between deliveries;
\* late: an order may reach the venue after its caller has given up; reads: the
\* reconciler's questions to the broker are all answered; operator: the operator
\* settles submissions; aborts: the outbox or the commit of a reservation may
\* fail; ceiling: max_notional_exposure of every account; passes: which
\* reconciliation passes run; the rest bounds what happens.
SettingType ==
  [signals : SUBSET Signal, passes : SUBSET Pass, ceiling : Nat,
   single : BOOLEAN, overlap : BOOLEAN, refuse : BOOLEAN, resize : BOOLEAN,
   late : BOOLEAN, reads : BOOLEAN, operator : BOOLEAN, aborts : BOOLEAN,
   deliveries : Nat, crashes : Nat, faults : Nat]
DeliveryType ==
  [pc : TaskPc, sig : Signal \cup {NoSignal}, at : Account \cup {NoAccount},
   left : SUBSET Account, fit : SUBSET Account,
   mine : Account \cup {NoAccount}, answer : AnswerState]
PassType ==
  [doing : {"idle", "poll", "lookup"}, todo : SUBSET Opp, asked : SUBSET Opp,
   found : BOOLEAN]
IntentType == [state : IntentState, account : Account \cup {NoAccount}]
Count == [deliveries : Nat, crashes : Nat, faults : Nat]

ASSUME AccountAssumption == Account \subseteq Nat /\ NoAccount \notin Account
ASSUME NobodyAssumption == Nobody \notin Task /\ NoSignal \notin Signal
ASSUME SettingAssumption == Setting \subseteq SettingType
ASSUME SignalAssumption == IsFiniteSet(Signal)

TypeOK ==
  /\ intent \in [Signal -> IntentType]
  /\ ledger \in [Opp -> LedgerState]
  /\ resv \in [Opp -> ReservationState]
  /\ owed \in [Opp -> Nat]
  /\ rows \in [Opp -> SUBSET RowState]
  /\ booked \in [Opp -> Nat]
  /\ venue \in [Opp -> [sent : Nat, state : VenueState]]
  /\ task \in [Task -> DeliveryType]
  /\ pass \in [Pass -> PassType]
  /\ running \in Task \cup {Nobody}
  /\ env \in [may : Setting, did : Count]

-----------------------------------------------------------------------------
(* What the operations read and write *)

IsFirst(a, S) == a \in S /\ \A b \in S : a <= b
OnAccount(a) == Signal \X {a}
Of(s) == {s} \X Account

\* The opportunity task t is working on: its signal at its current account.
Op(t) == <<task[t].sig, task[t].at>>
Resting == [pc |-> "idle", sig |-> NoSignal, at |-> NoAccount, left |-> {},
            fit |-> {}, mine |-> NoAccount, answer |-> "none"]
Waiting == [doing |-> "idle", todo |-> {}, asked |-> {}, found |-> FALSE]

At(t, label) == task[t].pc = label /\ running = t
Woken(t, label) == task[t].pc = label /\ running = Nobody

\* A step of task t that moves it to `label`; `on` is t when the task runs on
\* to its next statement and Nobody when that statement is an await.
Goto(t, label, on) ==
  /\ task' = [task EXCEPT ![t].pc = label]
  /\ running' = on

\* handle_signal answers from the recorded results: nothing more is decided.
Replayed(s) ==
  /\ \E o \in Of(s) : rows[o] # {}
  /\ intent[s].state \in {"none", "committed", "skipped"}

Uncertain(a) ==
  \E o \in OnAccount(a) : ledger[o] \in {"UNKNOWN_AMBIGUOUS", "PENDING_SUBMISSION"}

BugCountsFillsOnly(a) == \* reservations in flight are not added
  Cardinality({o \in OnAccount(a) : "FILLED" \in rows[o]})

\* The unresolved reservations of an account, as many for an opportunity as are
\* owed for it.
Reservations(a) == UNION {{o} \X (1 .. owed[o]) : o \in OnAccount(a)}

\* Confirmed and reserved notional: the filled order rows and what is owed.
Exposure(a) ==
  Cardinality({o \in OnAccount(a) : "FILLED" \in rows[o]}) + Cardinality(Reservations(a))

\* The venue holds an order that fills or has filled.
Alive(o) == venue[o].state \in {"working", "filled"}

Row(o, status) == rows' = [rows EXCEPT ![o] = @ \cup {status}]

BugRebinds(s, a) == intent[s].state \in {"claimed", "selected", "committed"}

\* bind_allocation_intent: nobody is bound yet, or it is this account already.
Bindable(s, a) ==
  \/ intent[s] = [state |-> "claimed", account |-> NoAccount]
  \/ intent[s].account = a /\ intent[s].state \in {"selected", "committed"}

BugGoesBelowZero(o) == {[p \in Opp |-> IF p = o THEN owed[o] - 1 ELSE owed[p]]}

\* release prefers the reservation of the same signal and takes any other of
\* the account when there is none; the in-memory sum follows the rows.
Freed(o) ==
  LET mine == {p \in {o} : owed[p] > 0}
      others == {p \in OnAccount(o[2]) : owed[p] > 0}
      victims == IF mine # {} THEN mine ELSE others
  IN  IF victims = {} THEN {owed}
      ELSE {[owed EXCEPT ![p] = @ - 1] : p \in victims}
Release(o) == owed' \in Freed(o)

\* The opportunity id: the signal, or the signal and the account of a replica.
Claimed(o) ==
  \E p \in (IF env.may.single THEN Of(o[1]) ELSE {o}) : resv[p] # "NONE"

\* Is the ledger row this task opens a new one?
BugTrustsPending(o) == ledger[o] \in {"NONE", "PENDING_SUBMISSION"}
IsNew(o) == ledger[o] = "NONE"

Spend(what) == env' = [env EXCEPT !.did[what] = @ + 1]
CanSpend(what, limit) == env.did[what] < limit
Fails == CanSpend("faults", env.may.faults) /\ Spend("faults")

-----------------------------------------------------------------------------
(* A delivery, up to the choice of an account *)

Deliver(t, s) ==
  /\ Woken(t, "idle")
  /\ s \in env.may.signals
  /\ env.may.overlap \/ \A u \in Task : task[u].sig # s
  /\ CanSpend("deliveries", env.may.deliveries)
  /\ Spend("deliveries")
  /\ IF Replayed(s) THEN UNCHANGED <<task, running>>
     ELSE LET gated == env.may.single /\ intent[s].state = "none"
          IN  /\ task' = [task EXCEPT ![t] =
                   [Resting EXCEPT !.sig = s, !.left = Account,
                                   !.pc = IF gated THEN "gate"
                                          ELSE IF env.may.single THEN "claim" ELSE "pick"]]
              /\ running' = IF gated THEN Nobody ELSE t
  /\ UNCHANGED <<durable, venue, pass>>

\* The admission gate asks about one candidate at a time, with awaits between;
\* a halt, a daily loss, a margin regime or a budget may exclude it (refuse).
Gate(t) ==
  /\ Woken(t, "gate")
  /\ \E a \in Account, fit \in BOOLEAN :
       /\ IsFirst(a, task[t].left)
       /\ fit => ~Uncertain(a)
       /\ ~fit => Uncertain(a) \/ env.may.refuse
       /\ task' = [task EXCEPT ![t].left = @ \ {a},
                               ![t].fit = IF fit THEN @ \cup {a} ELSE @]
  /\ UNCHANGED <<durable, venue, pass, running, env>>

Admit(t) ==
  /\ Woken(t, "gate")
  /\ task[t].left = {} /\ task[t].fit # {}
  /\ task' = [task EXCEPT ![t].pc = "claim", ![t].left = task[t].fit, ![t].fit = {}]
  /\ running' = t
  /\ UNCHANGED <<durable, venue, pass, env>>

\* Nobody eligible: a REJECTED row for every candidate, and no intent.
Exclude(t) ==
  /\ Woken(t, "gate")
  /\ task[t].left = {} /\ task[t].fit = {}
  /\ rows' = [o \in Opp |-> IF o \in Of(task[t].sig) THEN rows[o] \cup {"REJECTED"} ELSE rows[o]]
  /\ task' = [task EXCEPT ![t] = Resting]
  /\ UNCHANGED <<intent, ledger, resv, owed, booked, venue, pass, running, env>>

\* claim_allocation_intent: the first claimant creates the row, all read it.
\* A delivery whose pool lacks the account the intent is bound to stops.
Claim(t) ==
  LET s == task[t].sig
      row == IF intent[s].state = "none"
             THEN [state |-> "claimed", account |-> NoAccount] ELSE intent[s]
      left == IF row.account = NoAccount THEN task[t].left
              ELSE task[t].left \cap {row.account}
  IN  /\ At(t, "claim")
      /\ intent' = [intent EXCEPT ![s] = row]
      /\ task' = [task EXCEPT ![t] =
           IF left = {} THEN Resting
           ELSE [@ EXCEPT !.pc = "pick", !.left = left, !.mine = row.account]]
      /\ running' = IF left = {} THEN Nobody ELSE t
      /\ UNCHANGED <<ledger, resv, owed, rows, booked, venue, pass, env>>

Wanted(t) ==
  {a \in task[t].left : task[t].mine \in {a, NoAccount}}

Pick(t) ==
  /\ At(t, "pick")
  /\ \E a \in Account :
       /\ IsFirst(a, Wanted(t))
       /\ task' = [task EXCEPT ![t].pc = "reserve", ![t].at = a, ![t].left = @ \ {a}]
  /\ running' = Nobody
  /\ UNCHANGED <<durable, venue, pass, env>>

\* A screen (settings, sizing, protection) rejects the account, or passes it
\* over without a row.
Screen(t) ==
  /\ At(t, "pick")
  /\ env.may.refuse
  /\ \E a \in Account :
       /\ IsFirst(a, Wanted(t))
       /\ Row(<<task[t].sig, a>>, "REJECTED") \/ UNCHANGED rows
       /\ task' = [task EXCEPT ![t].left = @ \ {a}]
  /\ UNCHANGED <<intent, ledger, resv, owed, booked, venue, pass, running, env>>

BugCommitsClaimed(i, mine) == \* a bound intent is taken for claimed
  CASE mine # NoAccount /\ i.state = "claimed" -> [i EXCEPT !.state = "committed"]
    [] mine = NoAccount /\ i.state = "claimed" -> [i EXCEPT !.state = "skipped"]
    [] OTHER -> i

\* commit_allocation_intent of the account this delivery bound, or
\* skip_allocation_intent when none could take the trade.
Decided(i, mine) ==
  CASE mine # NoAccount /\ i.account = mine /\ i.state \in {"selected", "committed"}
         -> [i EXCEPT !.state = "committed"]
    [] mine = NoAccount /\ i.state = "claimed" -> [i EXCEPT !.state = "skipped"]
    [] OTHER -> i

\* The loop over the accounts is over.
Conclude(t) ==
  /\ At(t, "pick")
  /\ Wanted(t) = {}
  /\ intent' = [intent EXCEPT ![task[t].sig] = Decided(@, task[t].mine)]
  /\ task' = [task EXCEPT ![t] = Resting]
  /\ running' = Nobody
  /\ UNCHANGED <<ledger, resv, owed, rows, booked, venue, pass, env>>

-----------------------------------------------------------------------------
(* A delivery, at one account *)

\* _try_reserve_capital, under the account's lock: the ceiling, then the row.
Reserve(t) ==
  /\ Woken(t, "reserve")
  /\ Exposure(task[t].at) + 1 <= env.may.ceiling
  /\ owed' = [owed EXCEPT ![Op(t)] = @ + 1]
  /\ IF env.may.single THEN Goto(t, "bind", t) ELSE Goto(t, "resources", Nobody)
  /\ UNCHANGED <<intent, ledger, resv, rows, booked, venue, pass, env>>

OverCeiling(t) ==
  /\ Woken(t, "reserve")
  /\ Exposure(task[t].at) + 1 > env.may.ceiling
  /\ Row(Op(t), "REJECTED")
  /\ Goto(t, "pick", t)
  /\ UNCHANGED <<intent, ledger, resv, owed, booked, venue, pass, env>>

Bind(t) ==
  LET s == task[t].sig
      a == task[t].at
  IN  /\ At(t, "bind")
      /\ IF Bindable(s, a)
         THEN /\ intent' = [intent EXCEPT ![s] =
                   IF @.account = a THEN @ ELSE [state |-> "selected", account |-> a]]
              /\ task' = [task EXCEPT ![t].pc = "resources", ![t].mine = a]
              /\ running' = Nobody
              /\ UNCHANGED owed
         ELSE Release(Op(t)) /\ Goto(t, "pick", t) /\ UNCHANGED intent
      /\ UNCHANGED <<ledger, resv, rows, booked, venue, pass, env>>

\* _check_and_reserve_resources: resume the reservation of a crashed delivery,
\* or claim the opportunity id, which a RELEASED row still occupies.
Resources(t) ==
  /\ Woken(t, "resources")
  /\ \/ /\ resv[Op(t)] \notin {"NONE", "RELEASED"}
        /\ UNCHANGED resv
     \/ /\ ~Claimed(Op(t))
        /\ resv' = [resv EXCEPT ![Op(t)] = "HELD"]
  /\ Goto(t, "open", t)
  /\ UNCHANGED <<intent, ledger, owed, rows, booked, venue, pass, env>>

\* No price, no balance, a level of the hierarchy, or a claimed opportunity id:
\* the first two are asked for even when a reservation could be resumed.
Blocked(t) ==
  /\ Woken(t, "resources")
  /\ \/ env.may.refuse
     \/ resv[Op(t)] \in {"NONE", "RELEASED"} /\ Claimed(Op(t))
  /\ Release(Op(t))
  /\ Row(Op(t), "REJECTED")
  /\ Goto(t, "pick", t)
  /\ UNCHANGED <<intent, ledger, resv, booked, venue, pass, env>>

\* open_command_ledger_entry: a new row goes to the broker ...
Open(t) ==
  /\ At(t, "open")
  /\ IsNew(Op(t))
  /\ ledger' = [ledger EXCEPT ![Op(t)] = "PENDING_SUBMISSION"]
  /\ Goto(t, "dispatch", t)
  /\ UNCHANGED <<intent, resv, owed, rows, booked, venue, pass, env>>

\* ... an existing one never does, and one without an outcome is ambiguous.
Duplicate(t) ==
  /\ At(t, "open")
  /\ ~IsNew(Op(t))
  /\ ledger' = [ledger EXCEPT ![Op(t)] =
                  IF @ = "PENDING_SUBMISSION" THEN "UNKNOWN_AMBIGUOUS" ELSE @]
  /\ Release(Op(t))
  /\ Goto(t, "pick", t)
  /\ UNCHANGED <<intent, resv, rows, booked, venue, pass, env>>

\* The sizing gave another quantity than the recorded command: the mismatch
\* escapes handle_signal, and with it the capital just reserved.
Mismatch(t) ==
  /\ At(t, "open")
  /\ ~IsNew(Op(t))
  /\ env.may.resize
  /\ task' = [task EXCEPT ![t] = Resting]
  /\ running' = Nobody
  /\ UNCHANGED <<durable, venue, pass, env>>

\* The intent is enqueued and claimed and the reservation committed; then the
\* broker is called.  What the claim returns is not used, and a crash before the
\* call is one whose order has not left (Abandoned).
Dispatch(t) ==
  /\ At(t, "dispatch")
  /\ resv' = [resv EXCEPT ![Op(t)] = "COMMITTED_TO_PENDING_ORDER"]
  /\ venue' = [venue EXCEPT ![Op(t)].state = "sending"]
  /\ Goto(t, "call", Nobody)
  /\ UNCHANGED <<intent, ledger, owed, rows, booked, pass, env>>

\* The outbox or the commit of the reservation failed: nothing is sent, and
\* the ledger row is left as it is.
DispatchFails(t) ==
  /\ At(t, "dispatch")
  /\ env.may.aborts
  /\ Fails
  /\ Release(Op(t))
  /\ \E state \in {resv[Op(t)], "RELEASED"} : resv' = [resv EXCEPT ![Op(t)] = state]
  /\ Row(Op(t), "ERROR")
  /\ Goto(t, "pick", t)
  /\ UNCHANGED <<intent, ledger, booked, venue, pass>>

\* The order arrives at the venue, which takes or refuses it.
VenueTakes(o) ==
  /\ venue[o].state = "sending"
  /\ \E to \in {"working", "filled", "gone"} :
       venue' = [venue EXCEPT ![o] = [sent |-> @.sent + 1, state |-> to]]
  /\ UNCHANGED <<durable, task, pass, running, env>>

\* The broker's answer, true when the venue gave it.
Hear(t) ==
  /\ task[t].pc = "call"
  /\ \E answer \in {"FILLED", "PENDING", "REJECTED"} :
       /\ answer = "FILLED" => venue[Op(t)].state = "filled"
       /\ answer = "PENDING" => venue[Op(t)].state \in {"working", "filled"}
       /\ answer = "REJECTED" => venue[Op(t)].state = "gone"
       /\ task' = [task EXCEPT ![t].pc = "answer", ![t].answer = answer]
  /\ UNCHANGED <<durable, venue, pass, running, env>>

\* Orders on their way whose caller gives up either still arrive or never do.
Abandoned(S) ==
  [o \in Opp |-> IF o \in S /\ venue[o].state = "sending" /\ ~env.may.late
                 THEN [venue[o] EXCEPT !.state = "none"] ELSE venue[o]]

\* The call raises or answers ERROR, whatever has become of the order.
CallLost(t) ==
  /\ task[t].pc = "call"
  /\ Fails
  /\ task' = [task EXCEPT ![t].pc = "answer", ![t].answer = "LOST"]
  /\ venue' = Abandoned({Op(t)})
  /\ UNCHANGED <<durable, pass, running>>

Outcome(answer) ==
  CASE answer = "FILLED" -> "CONFIRMED"
    [] answer = "PENDING" -> "SUBMITTED_UNCONFIRMED"
    [] answer = "REJECTED" -> "REJECTED_CONFIRMED"
    [] OTHER -> "UNKNOWN_AMBIGUOUS"

BugReleasesOnDoubt(answer) ==
  CASE answer = "FILLED" -> {"FILLED_EXPOSURE"}
    [] answer = "PENDING" -> {"COMMITTED_TO_PENDING_ORDER"}
    [] OTHER -> {"RELEASED"}

\* An ERROR result leaves the reservation committed, an exception holds it.
Committed(answer) ==
  CASE answer = "FILLED" -> {"FILLED_EXPOSURE"}
    [] answer = "PENDING" -> {"COMMITTED_TO_PENDING_ORDER"}
    [] answer = "REJECTED" -> {"RELEASED"}
    [] OTHER -> {"COMMITTED_TO_PENDING_ORDER", "UNKNOWN_HELD"}

\* What the answer makes of the reservation,
Answer(t) ==
  /\ Woken(t, "answer")
  /\ \E state \in Committed(task[t].answer) : resv' = [resv EXCEPT ![Op(t)] = state]
  /\ Goto(t, "mark", t)
  /\ UNCHANGED <<intent, ledger, owed, rows, booked, venue, pass, env>>

\* and then of the ledger row: mark_command_ledger_outcome.
Mark(t) ==
  /\ At(t, "mark")
  /\ ledger' = [ledger EXCEPT ![Op(t)] = Outcome(task[t].answer)]
  /\ Goto(t, "settle", t)
  /\ UNCHANGED <<intent, resv, owed, rows, booked, venue, pass, env>>

\* Capital stays reserved for an order that may still fill.
BugHoldsForIdsOnly(answer) == answer = "PENDING"
Holds(answer) == answer \in {"PENDING", "LOST"}

Settle(t) ==
  /\ At(t, "settle")
  /\ IF Holds(task[t].answer) THEN UNCHANGED owed ELSE Release(Op(t))
  /\ Goto(t, "book", t)
  /\ UNCHANGED <<intent, ledger, resv, rows, booked, venue, pass, env>>

Book(t) ==
  /\ At(t, "book")
  /\ booked' = [booked EXCEPT ![Op(t)] = IF task[t].answer = "FILLED" THEN @ + 1 ELSE @]
  /\ Goto(t, "save", t)
  /\ UNCHANGED <<intent, ledger, resv, owed, rows, venue, pass, env>>

Save(t) ==
  /\ At(t, "save")
  /\ Row(Op(t), IF task[t].answer = "LOST" THEN "ERROR" ELSE task[t].answer)
  /\ task' = [task EXCEPT ![t].pc = "pick", ![t].at = NoAccount, ![t].answer = "none"]
  /\ UNCHANGED <<intent, ledger, resv, owed, booked, venue, pass, running, env>>

-----------------------------------------------------------------------------
(* The order reconciler, the operator, the venue, a crash *)

\* reconcile_once reads the pending rows once and then asks about each.
StartPass(r) ==
  /\ pass[r].doing = "idle" /\ running = Nobody
  /\ r \in env.may.passes
  /\ pass' = [pass EXCEPT ![r] =
       [Waiting EXCEPT !.doing = "poll", !.todo = {o \in Opp : "PENDING" \in rows[o]}]]
  /\ UNCHANGED <<durable, venue, task, running, env>>

BugAwaitsFill(o) == venue[o].state = "filled"
Ended(o) == venue[o].state \in {"filled", "gone"}

BugLeavesPending(o) == rows[o] \cup {"FILLED"} \* a later pass books it again
Closed(o) ==
  (rows[o] \ {"PENDING"}) \cup {IF venue[o].state = "filled" THEN "FILLED" ELSE "REJECTED"}

\* A terminal answer corrects the position by the delta from the row as it
\* was read, closes the row and releases its capital; no row is read again.
Poll(r, o) ==
  /\ pass[r].doing = "poll" /\ o \in pass[r].todo /\ running = Nobody
  /\ pass' = [pass EXCEPT ![r].todo = @ \ {o}]
  /\ \/ /\ Ended(o)
        /\ booked' = [booked EXCEPT ![o] = IF venue[o].state = "filled" THEN @ + 1 ELSE @]
        /\ rows' = [rows EXCEPT ![o] = Closed(o)]
        /\ Release(o)
     \/ /\ ~Ended(o) \/ ~env.may.reads
        /\ UNCHANGED <<booked, rows, owed>>
  /\ UNCHANGED <<intent, ledger, resv, venue, task, running, env>>

BugNeedsRow == {o \in Opp : ledger[o] = "UNKNOWN_AMBIGUOUS" /\ rows[o] # {}}
Ambiguous == {o \in Opp : ledger[o] = "UNKNOWN_AMBIGUOUS"}

\* _reconcile_unknown_submissions lists the ambiguous entries of the ledger,
StartLookups(r) ==
  /\ pass[r].doing = "poll" /\ pass[r].todo = {} /\ running = Nobody
  /\ pass' = [pass EXCEPT ![r].doing = "lookup", ![r].todo = Ambiguous]
  /\ UNCHANGED <<durable, venue, task, running, env>>

\* asks the brokers that can find an order by its client id, and awaits (no
\* such broker, or one that fails, finds nothing; some also find what was dropped);
Lookup(r, o) ==
  /\ pass[r].doing = "lookup" /\ pass[r].asked = {}
  /\ o \in pass[r].todo /\ running = Nobody
  /\ \E found \in BOOLEAN :
       /\ found => Alive(o) \/ venue[o].state = "gone"
       /\ ~found => ~Alive(o) \/ ~env.may.reads
       /\ pass' = [pass EXCEPT ![r].todo = @ \ {o}, ![r].asked = {o}, ![r].found = found]
  /\ UNCHANGED <<durable, venue, task, running, env>>

\* what is found is confirmed, and everything else was not placed.
Resolve(r, o) ==
  /\ pass[r].doing = "lookup" /\ pass[r].asked = {o} /\ running = Nobody
  /\ pass' = [pass EXCEPT ![r].asked = {}]
  /\ IF pass[r].found
     THEN /\ ledger' = [ledger EXCEPT ![o] = "CONFIRMED"]
          /\ UNCHANGED owed
     ELSE /\ ledger' = [ledger EXCEPT ![o] = "REJECTED_CONFIRMED"]
          /\ Release(o)
  /\ UNCHANGED <<intent, resv, rows, booked, venue, task, running, env>>

EndPass(r) ==
  /\ pass[r].doing = "lookup" /\ pass[r].todo = {} /\ pass[r].asked = {}
  /\ pass' = [pass EXCEPT ![r] = Waiting]
  /\ UNCHANGED <<durable, venue, task, running, env>>

\* resolve_unknown_submission: the operator saw no order at the venue.
NotPlaced(o) ==
  /\ env.may.operator /\ running = Nobody
  /\ ledger[o] = "UNKNOWN_AMBIGUOUS"
  /\ ~Alive(o)
  /\ ledger' = [ledger EXCEPT ![o] = "REJECTED_CONFIRMED"]
  /\ Release(o)
  /\ UNCHANGED <<intent, resv, rows, booked, venue, task, pass, running, env>>

VenueMoves(o) ==
  /\ venue[o].state = "working"
  /\ \E to \in {"filled", "gone"} : venue' = [venue EXCEPT ![o].state = to]
  /\ UNCHANGED <<durable, task, pass, running, env>>

\* The process dies and starts again with what is durable; the start skips the
\* claimed intents that have become too old.
Crash ==
  /\ CanSpend("crashes", env.may.crashes) /\ Spend("crashes")
  /\ task' = [t \in Task |-> Resting]
  /\ pass' = [r \in Pass |-> Waiting]
  /\ running' = Nobody
  /\ venue' = Abandoned(Opp)
  /\ \E S \in SUBSET {s \in Signal : intent[s].state = "claimed"} :
       intent' = [s \in Signal |->
                    IF s \in S THEN [intent[s] EXCEPT !.state = "skipped"] ELSE intent[s]]
  /\ UNCHANGED <<ledger, resv, owed, rows, booked>>

-----------------------------------------------------------------------------

Init ==
  /\ intent = [s \in Signal |-> [state |-> "none", account |-> NoAccount]]
  /\ ledger = [o \in Opp |-> "NONE"]
  /\ resv = [o \in Opp |-> "NONE"]
  /\ owed = [o \in Opp |-> 0]
  /\ rows = [o \in Opp |-> {}]
  /\ booked = [o \in Opp |-> 0]
  /\ venue = [o \in Opp |-> [sent |-> 0, state |-> "none"]]
  /\ task = [t \in Task |-> Resting]
  /\ pass = [r \in Pass |-> Waiting]
  /\ running = Nobody
  /\ env \in [may : Setting, did : {[deliveries |-> 0, crashes |-> 0, faults |-> 0]}]

Advance(t) ==
  \/ Gate(t) \/ Admit(t) \/ Exclude(t) \/ Claim(t) \/ Pick(t) \/ Screen(t)
  \/ Conclude(t) \/ Reserve(t) \/ OverCeiling(t) \/ Bind(t) \/ Resources(t)
  \/ Blocked(t) \/ Open(t) \/ Duplicate(t) \/ Mismatch(t) \/ Dispatch(t)
  \/ DispatchFails(t) \/ Hear(t) \/ CallLost(t) \/ Answer(t)
  \/ Mark(t) \/ Settle(t) \/ Book(t) \/ Save(t)

Examine(r) ==
  \/ StartLookups(r) \/ EndPass(r)
  \/ \E o \in Opp : Poll(r, o) \/ Lookup(r, o) \/ Resolve(r, o)

Next ==
  \/ \E t \in Task, s \in Signal : Deliver(t, s)
  \/ \E t \in Task : Advance(t)
  \/ \E r \in Pass : StartPass(r) \/ Examine(r)
  \/ \E o \in Opp : NotPlaced(o) \/ VenueTakes(o) \/ VenueMoves(o)
  \/ Crash

Spec == Init /\ [][Next]_vars

\* The event loop resumes a delivery whose await has ended, orders arrive at
\* the venue, and the reconciler's loop keeps running its passes.
Fairness ==
  /\ \A t \in Task : WF_vars(Advance(t))
  /\ \A o \in Opp : WF_vars(VenueTakes(o))
  /\ \A r \in Pass : WF_vars(StartPass(r)) /\ WF_vars(Examine(r))

FairSpec == Spec /\ Fairness

-----------------------------------------------------------------------------
(* Properties *)

\* Capital is released by whoever learns the outcome; two of them at once
\* would release it twice.  A ledger row whose dispatch failed keeps no
\* capital, and a delivery after a crash takes it for an ambiguous submission.
Undisturbed ==
  /\ ~env.may.overlap
  /\ env.may.aborts => env.may.crashes = 0
  /\ IF env.may.operator THEN env.may.passes = {}
     ELSE \A p, q \in env.may.passes : p = q

Calm ==
  Undisturbed /\ env.may.crashes = 0 /\ env.may.reads /\ ~env.may.late /\ ~env.may.resize

\* The venue never receives a second order for an opportunity, however its
\* deliveries overlap, crash and are repeated (the command ledger's promise).
AtMostOnce == \A o \in Opp : venue[o].sent <= 1

\* Of the alternative accounts of a signal one is chosen, durably and for good,
\* before anything is sent, and the only order goes there.
Promise == INSTANCE SubmitOnce WITH
  bound <- [s \in Signal |-> intent[s].account],
  placed <- [s \in Signal |-> [a \in Account |-> venue[<<s, a>>].sent]]
OneAccount ==
  Promise!Init /\ [][env.may.single => Promise!Next]_(Promise!vars)

\* An order the venue may fill is covered by a budget reservation nobody has
\* released.
ReservationCovers ==
  \A o \in Opp : Alive(o) => resv[o] \notin {"NONE", "RELEASED"}

\* While the outcome of a submission is unknown its capital stays reserved.
HeldUntilKnown ==
  Undisturbed => \A o \in Opp : ledger[o] = "UNKNOWN_AMBIGUOUS" => owed[o] > 0

\* The orders alive at the venue never exceed the account's ceiling.
NeverOvercommitted ==
  Calm => \A a \in Account :
    Cardinality({o \in OnAccount(a) : Alive(o)}) <= env.may.ceiling

\* A fill is added to the position once, and only a fill is.
BookedOnce ==
  (\A p, q \in env.may.passes : p = q) =>
    \A o \in Opp : booked[o] <= (IF venue[o].state = "filled" THEN 1 ELSE 0)

\* Every signal that was claimed is decided: committed to an account or skipped.
DecisionReached ==
  \A s \in Signal :
    (intent[s].state \in {"claimed", "selected"} /\ env.may.crashes = 0 /\ ~env.may.resize)
      ~> intent[s].state \in {"committed", "skipped"}

\* No submission stays ambiguous while the reconciler runs.
AmbiguityResolved ==
  \A o \in Opp :
    (ledger[o] = "UNKNOWN_AMBIGUOUS" /\ env.may.passes # {})
      ~> ledger[o] # "UNKNOWN_AMBIGUOUS"

\* The capital of an order the venue has dropped is freed, when no answer was
\* lost: the lookup that finds a lost order confirms it and nothing polls it.
CapitalFreed ==
  \A o \in Opp :
    (venue[o].state = "gone" /\ Calm /\ env.may.faults = 0 /\ env.may.passes # {})
      ~> owed[o] = 0
=============================================================================
