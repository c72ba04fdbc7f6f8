---------------------------- MODULE CloseArbiter ----------------------------
(* The CloseArbiter of signal-copier (app/lifecycle/close_arbiter.py): for   *)
(* each key (account, symbol) the quantity owned and the quantity reserved   *)
(* for sells in flight, and the self-halt when the two stop agreeing.        *)
(*                                                                           *)
(* The ledger operations are pure operators, so that PositionLifecycle makes *)
(* its calls with the same definitions.  The specification below is what the *)
(* arbiter promises to callers that settle what they reserved: inflight is   *)
(* the quantity callers have reserved and not settled yet, which the arbiter *)
(* itself never sees.  Each action runs with the asyncio.Lock of its key     *)
(* held, hence is one step; quantities are whole lots, so _EPSILON is zero.  *)
EXTENDS Integers

CONSTANTS Key, MaxOwned

ASSUME MaxOwnedAssumption == MaxOwned \in Nat

VARIABLES
  ledger,   \* ledger[k]: the _Ledger of key k
  inflight, \* inflight[k]: reserved by callers and not settled by them yet
  saved     \* saved[k]: the ledger and inflight last written to lifecycle_state

vars == <<ledger, inflight, saved>>

Ledger == [owned : Int, reserved : Nat, halted : BOOLEAN]
NewLedger == [owned |-> 0, reserved |-> 0, halted |-> FALSE]
Nothing == [ledger |-> NewLedger, inflight |-> 0]

-----------------------------------------------------------------------------
(* The operations on one _Ledger.                                            *)

AtLeastZero(n) == IF n < 0 THEN 0 ELSE n

Available(l) == AtLeastZero(l.owned - l.reserved)

BugOnlyNegative(l) == IF l.owned < 0 THEN [l EXCEPT !.halted = TRUE] ELSE l
CheckInvariant(l) ==
  IF l.owned < 0 \/ l.reserved > l.owned THEN [l EXCEPT !.halted = TRUE] ELSE l

MayReserve(l, q) == ~l.halted /\ q <= l.owned - l.reserved
ReserveIn(l, q) == CheckInvariant([l EXCEPT !.reserved = @ + q])

ReleaseIn(l, q) == [l EXCEPT !.reserved = AtLeastZero(@ - q)]

BugSettlesFilled(l, r, f) == \* the unfilled part stays reserved
  CheckInvariant([l EXCEPT !.reserved = AtLeastZero(@ - f), !.owned = @ - f])
BugUnhalts(l, r, f) == \* the halt is recomputed instead of kept
  CheckInvariant([owned |-> l.owned - f, reserved |-> AtLeastZero(l.reserved - r), halted |-> FALSE])
SettleIn(l, r, f) ==
  CheckInvariant([l EXCEPT !.reserved = AtLeastZero(@ - r), !.owned = @ - f])

SetOwnedIn(l, q) == [l EXCEPT !.owned = q]

-----------------------------------------------------------------------------
TypeOK ==
  /\ ledger \in [Key -> Ledger]
  /\ inflight \in [Key -> Nat]
  /\ saved \in [Key -> [ledger : Ledger, inflight : Nat]]

Init ==
  /\ ledger = [k \in Key |-> NewLedger]
  /\ inflight = [k \in Key |-> 0]
  /\ saved = [k \in Key |-> Nothing]

Reserve(k, q) ==
  /\ q > 0 /\ MayReserve(ledger[k], q)
  /\ ledger' = [ledger EXCEPT ![k] = ReserveIn(@, q)]
  /\ inflight' = [inflight EXCEPT ![k] = @ + q]

BugReleasesTwice(k, q) == \* release without having reserved
  /\ ledger' = [ledger EXCEPT ![k] = ReleaseIn(@, q)]
  /\ inflight' = [inflight EXCEPT ![k] = @ - q]
(* An order that did not execute gives all it reserved back.                 *)
Release(k, q) ==
  /\ q <= inflight[k]
  /\ ledger' = [ledger EXCEPT ![k] = ReleaseIn(@, q)]
  /\ inflight' = [inflight EXCEPT ![k] = @ - q]

(* A sell of r is over, or r of it is: f was filled, f = r while it works on.*)
(* With r = 0 it is a sell that never reserved, the protective stop's.  The  *)
(* venue may report more filled than was reserved, or than is owned.         *)
Settle(k, r, f) ==
  /\ r <= inflight[k]
  /\ ledger' = [ledger EXCEPT ![k] = SettleIn(@, r, f)]
  /\ inflight' = [inflight EXCEPT ![k] = @ - r]

(* set_owned_quantity and set_owned do not check the invariant.  Callers set *)
(* what an entry filled or what the venue holds beyond what was tracked, and *)
(* never less than they have reserved.                                       *)
SetOwned(k, q) ==
  /\ q >= ledger[k].reserved
  /\ ledger' = [ledger EXCEPT ![k] = SetOwnedIn(@, q)]
  /\ UNCHANGED inflight

Halt(k) ==
  /\ ledger' = [ledger EXCEPT ![k].halted = TRUE]
  /\ UNCHANGED inflight

Operate(k) ==
  \/ \E q \in 1..MaxOwned : Reserve(k, q) \/ Release(k, q)
  \/ \E r, f \in 0..MaxOwned : Settle(k, r, f)
  \/ \E q \in 0..MaxOwned : SetOwned(k, q)
  \/ Halt(k)
  \/ UNCHANGED <<ledger, inflight>>

(* The caller may go on to write arbiter.snapshot into the row beside its    *)
(* pending exit (_lifecycle_to_state), or to delete the row of a position    *)
(* that closed.                                                              *)
Save(k) ==
  \/ UNCHANGED saved
  \/ saved' = [saved EXCEPT ![k] = [ledger |-> ledger'[k], inflight |-> inflight'[k]]]
  \/ saved' = [saved EXCEPT ![k] = Nothing]

(* A new process: restore for every row, defaultdict for every other key.    *)
Restart ==
  /\ ledger' = [k \in Key |-> saved[k].ledger]
  /\ inflight' = [k \in Key |-> saved[k].inflight]
  /\ UNCHANGED saved

Next == (\E k \in Key : Operate(k) /\ Save(k)) \/ Restart

Spec == Init /\ [][Next]_vars

-----------------------------------------------------------------------------
(* No sequence of partial fills, rejections, overfills and restarts makes    *)
(* the arbiter's own count drift from what callers have in flight: the       *)
(* max(0.0, ...) of release and settle never hides a difference.             *)
ReservedIsInFlight == \A k \in Key : ledger[k].reserved = inflight[k]

(* The key invariant of the module: unless the position is halted, what is   *)
(* in flight to be sold is owned, however sells and stop fills interleave.   *)
NeverOvercommitted ==
  \A k \in Key : ~ledger[k].halted => inflight[k] <= ledger[k].owned

(* A halted position stays halted and sends nothing further, whatever is     *)
(* settled or adopted afterwards; only a restart from a row that was never   *)
(* halted lets it sell again.                                                *)
HaltHolds ==
  [][\A k \in Key : ledger[k].halted =>
       \/ Restart
       \/ ledger'[k].halted /\ inflight'[k] <= inflight[k]]_vars

=============================================================================
