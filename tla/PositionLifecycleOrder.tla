----------------------- MODULE PositionLifecycleOrder -----------------------
(* Second part: who may be where.  OInv says what the lock, the entry and a  *)
(* position at rest exclude; CInv that the two copies of the owned quantity  *)
(* move together; RInv that the stop a record names is the stop at the       *)
(* venue.                                                                    *)
EXTENDS PositionLifecycleProofs

-----------------------------------------------------------------------------
(* Blind: the venue's quantity is not read.  Rested: a position that is not  *)
(* open owns nothing.  Orderly: who may be where.                            *)
Blind == ~env.may.readback
Exiting == {"amend", "cancel", "submit", "answered"}
Entry == {"entry", "bought"}

Rested(lf, l) == lf.st # "open" => l.owned <= 0 /\ lf.pending.st = "none"
Placed(t) ==
  /\ pc[t] \in Entry => Active /\ ledger.owned <= 0 /\ NoUnresolvedExit /\ lock = NoTask
  /\ pc[t] \in Exiting => NoUnresolvedExit
  /\ pc[t] = "stopfill" => lock = t
  /\ pc[t] \notin {"read", "adopt", "pollstop", "fit"}
  /\ pc[t] = "resolve" => t \in env.may.tasks \cap Rec
OneEntry == \A t, u \in Task : pc[t] \in Entry /\ pc[u] \in Entry => t = u
Locked == lock # NoTask => Active /\ pc[lock] \in Holding \cup {"stopfill"}
Orderly ==
  /\ Rested(life, ledger) /\ Rested(row.life, row.ledger)
  /\ Locked /\ OneEntry
  /\ \A t \in Task : Placed(t)
OInv == IInv /\ (Blind => Orderly)

(* A row written of a position at rest is one at rest.                       *)
LEMMA RestedRow ==
  ASSUME Rested(life', ledger'), Persist
  PROVE  Rested(row'.life, row'.ledger)
BY DEF Rested, Persist, RowOf, NoRow, NoLife, NoPending, Arbiter!NewLedger

(* The task that holds the lock, and the one that takes it, keep Orderly.    *)
LEMMA HolderMoves ==
  ASSUME OInv, Blind, env'.may = env.may, NEW t \in Task, NEW label, lock = t,
         pc' = [pc EXCEPT ![t] = label],
         \/ lock' = t /\ Active' /\ label \in Holding \cup {"stopfill"}
         \/ lock' = NoTask /\ label = "idle",
         label \in Exiting => NoUnresolvedExit',
         Rested(life', ledger'), UNCHANGED row \/ Persist
  PROVE  Orderly'
<1>1. \A u \in Task \ {t} : pc[u] \notin Entry \cup Exiting \cup {"stopfill"}
  BY Bounds DEF OInv, IInv, TypedTasks, Located, Orderly, Placed, Holding, Exiting
<1>2. label \notin Entry \cup {"read", "adopt", "pollstop", "fit", "resolve"}
  BY DEF Holding, Entry
<1>3. \A u \in Task : pc'[u] = IF u = t THEN label ELSE pc[u]
  BY DEF OInv, IInv, TypedTasks
<1>4. Locked' /\ OneEntry'
  BY <1>1, <1>2, <1>3 DEF Locked, OneEntry
<1>5. \A u \in Task : Placed(u)'
  BY <1>1, <1>2, <1>3 DEF OInv, Orderly, Placed, Exiting
<1>6. Rested(row.life, row.ledger)'
  BY RestedRow DEF OInv, Orderly
<1> QED BY <1>4, <1>5, <1>6 DEF Orderly

LEMMA TakerMoves ==
  ASSUME OInv, Blind, env'.may = env.may, NEW t \in Task, NEW label,
         lock = NoTask, lock' = t, label \in Holding, Active',
         pc' = [pc EXCEPT ![t] = label],
         \A u \in Task \ {t} : pc[u] \notin Entry,
         label \in Exiting => NoUnresolvedExit', UNCHANGED row
  PROVE  Orderly'
<1>1. \A u \in Task : pc[u] \notin Exiting \cup {"stopfill"}
  BY Bounds DEF OInv, IInv, TypedTasks, Located, Orderly, Placed, Holding, Exiting
<1>2. label \notin Entry \cup {"read", "adopt", "pollstop", "fit", "resolve", "stopfill"}
  BY DEF Holding, Entry
<1>3. \A u \in Task : pc'[u] = IF u = t THEN label ELSE pc[u]
  BY DEF OInv, IInv, TypedTasks
<1>4. Locked' /\ OneEntry'
  BY <1>1, <1>2, <1>3 DEF Locked, OneEntry
<1>5. \A u \in Task : Placed(u)'
  BY <1>1, <1>2, <1>3 DEF OInv, Orderly, Placed
<1>6. Rested(life', ledger') /\ Rested(row.life, row.ledger)'
  BY DEF Rested, Active, OInv, Orderly
<1> QED BY <1>4, <1>5, <1>6 DEF Orderly

(* Who is at a label under the lock holds it.                                *)
LEMMA Holds ==
  ASSUME OInv, NEW t \in Task, pc[t] \in Holding
  PROVE  lock = t /\ t # NoTask /\ (Blind => Active)
BY Bounds DEF OInv, IInv, TypedTasks, Located, Orderly, Locked

(* Where the venue's quantity is not read, no operation of the position      *)
(* reconciliation is under way.                                              *)
LEMMA NothingIsRead ==
  ASSUME OInv, Blind
  PROVE  /\ \A t \in Task : ~OnStopFilled(t)
         /\ \A r \in Rec : ~ReconcilingPosition(r)
<1>1. \A t \in Task : ~OnStopFilled(t)
  BY Bounds DEF OnStopFilled, At, OInv, Orderly, Placed
<1>2. ASSUME NEW r \in Rec PROVE ~ReconcilingPosition(r)
  <2>1. r \in Task /\ Placed(r)
    BY Bounds DEF OInv, Orderly
  <2> QED BY <2>1 DEF Blind, Placed, ReconcilingPosition, ReadPosition, ReadResolves, ReadAgrees,
        ReadAdopts, AdoptVenueOwnership, ReadFindsDeficit, PollStop, ResizeStopToOwned, At
<1> QED BY <1>1, <1>2

(* A settlement keeps Orderly.                                               *)
LEMMA AfterOrderly ==
  ASSUME OInv, Blind, env'.may = env.may, NEW t \in Task, NEW lf, NEW restore, NEW amended,
         AfterSettlement(t, lf, restore, amended), lf \in Life,
         lf.st = "open", lf.pending.st = "none", ledger'.owned = lf.owned,
         lock = t \/ (lock = NoTask /\ \A u \in Task : pc[u] \notin Entry),
         pc[t] \notin Entry
  PROVE  Orderly'
<1>0. pc[t] \in Label /\ t # NoTask /\ lf.owned \in Int
  BY Bounds DEF OInv, IInv, TypedTasks, Life
<1>1. CASE Flat(lf) \/ ~restore
  <2>1. Finish(t) /\ life' \in {lf, [lf EXCEPT !.st = "closed"]} /\ (~Flat(lf) => life' = lf)
    BY <1>1 DEF AfterSettlement
  <2>2. Rested(life', ledger') /\ lock' = NoTask /\ pc' = [pc EXCEPT ![t] = "idle"]
    BY <2>1, <1>0 DEF Finish, Done, Rested, Flat, Life
  <2>3. Persist
    BY <2>1 DEF Finish
  <2>4. CASE lock = t
    BY <2>2, <2>3, <2>4, HolderMoves DEF Exiting
  <2>5. CASE lock = NoTask /\ \A u \in Task : pc[u] \notin Entry
    <3>1. \A u \in Task : pc'[u] = IF u = t THEN "idle" ELSE pc[u]
      BY <2>2 DEF OInv, IInv, TypedTasks
    <3>2. \A u \in Task : pc[u] \notin Exiting \cup {"stopfill"}
      BY <2>5, Bounds DEF OInv, IInv, TypedTasks, Located, Orderly, Placed, Holding, Exiting
    <3>3. Locked' /\ OneEntry'
      BY <2>2, <2>5, <3>1 DEF Locked, OneEntry, Entry
    <3>4. \A u \in Task : Placed(u)'
      BY <2>5, <3>1, <3>2 DEF OInv, Orderly, Placed, Entry, Exiting
    <3> QED BY <2>2, <2>3, <3>3, <3>4, RestedRow DEF Orderly
  <2> QED BY <2>4, <2>5
<1>2. CASE ~Flat(lf) /\ restore
  <2>1. /\ lock' = t /\ life' \in {lf, Placing(lf)} /\ UNCHANGED row
        /\ \E label \in {"restore", "place"} : pc' = [pc EXCEPT ![t] = label]
    BY <1>2 DEF AfterSettlement, Go, durable
  <2>2. Active'
    BY <2>1 DEF Active, Placing, Life
  <2>3. Rested(life', ledger')
    BY <2>2 DEF Rested, Active
  <2> QED BY <1>0, <2>1, <2>2, <2>3, HolderMoves, TakerMoves DEF Holding, Exiting
<1> QED BY <1>1, <1>2

(* Every action keeps Orderly.                                               *)
LEMMA StartPlanOrderly ==
  ASSUME OInv, Blind, env'.may = env.may, NEW t \in Sig, StartPlan(t)
  PROVE  Orderly'
<1>1. /\ t \in Task /\ ~Active /\ lock = NoTask /\ ledger.owned <= 0
      /\ UNCHANGED <<lock, ledger>> /\ Persist /\ pc' = [pc EXCEPT ![t] = "entry"]
  BY Bounds DEF StartPlan, MayEnter, Go, OInv, Orderly, Locked, Rested, Active
<1>2. Active' /\ NoUnresolvedExit'
  BY DEF StartPlan, Active, NoUnresolvedExit, NoLife, NoPending
<1>3. \A u \in Task : pc'[u] = IF u = t THEN "entry" ELSE pc[u]
  BY <1>1 DEF OInv, IInv, TypedTasks
<1>4. \A u \in Task : pc[u] \notin Entry
  BY <1>1 DEF OInv, Orderly, Placed
<1>5. Rested(life', ledger')
  BY <1>2 DEF Rested, Active
<1>6. Locked' /\ OneEntry'
  BY <1>1, <1>3, <1>4 DEF Locked, OneEntry
<1>7. \A u \in Task : Placed(u)'
  BY <1>1, <1>2, <1>3, <1>4 DEF OInv, Orderly, Placed, Exiting
<1> QED BY <1>1, <1>5, <1>6, <1>7, RestedRow DEF Orderly

LEMMA EntryFillsOrderly ==
  ASSUME OInv, Blind, env'.may = env.may, NEW t \in Sig, EntryFills(t)
  PROVE  Orderly'
<1>0. t \in Task /\ pc[t] \in Label
  BY Bounds DEF OInv, IInv, TypedTasks
<1>1. Rested(life, ledger)'
  BY <1>0 DEF EntryFills, At, Idle, Go, Done, Finish, OInv, Orderly, Rested, Active, NoUnresolvedExit
<1>2. Rested(row.life, row.ledger)'
  BY <1>0, <1>1, RestedRow DEF EntryFills, durable, Finish, OInv, Orderly
<1>3. Locked'
  BY <1>0 DEF EntryFills, At, Idle, Go, Done, Finish, OInv, IInv, TypedTasks, Located, Orderly, Locked, Placed, Active, Holding
<1>4. OneEntry'
  BY <1>0 DEF EntryFills, At, Idle, Go, Done, Finish, OInv, IInv, TypedTasks, Orderly, OneEntry, Placed, Entry, Active
<1>5. \A u \in Task : Placed(u)'
  BY <1>0 DEF EntryFills, At, Idle, Go, Done, Finish, OInv, IInv, TypedTasks, Located, Orderly, Placed, Active, NoUnresolvedExit, Holding, Exiting, Entry
<1> QED BY <1>1, <1>2, <1>3, <1>4, <1>5 DEF Orderly

LEMMA OnEntryFillOrderly ==
  ASSUME OInv, Blind, env'.may = env.may, NEW t \in Sig, OnEntryFill(t)
  PROVE  Orderly'
<1>1. /\ t \in Task /\ pc[t] = "bought" /\ lock = NoTask /\ lock' = t
      /\ pc' = [pc EXCEPT ![t] = "place"] /\ UNCHANGED row
  BY Bounds DEF OnEntryFill, At, Go, durable
<1>2. Active /\ \A u \in Task \ {t} : pc[u] \notin Entry
  BY <1>1 DEF OInv, Orderly, OneEntry, Placed, Entry
<1>3. Active'
  BY <1>2 DEF OnEntryFill, Active, Placing, OInv, IInv, TypedBooks, Life
<1> QED BY <1>1, <1>2, <1>3, TakerMoves DEF Holding, Exiting

LEMMA ExitAmendsOrderly ==
  ASSUME OInv, Blind, env'.may = env.may, NEW t \in Sig, ExitAmends(t)
  PROVE  Orderly'
<1>0. t \in Task /\ pc[t] \in Holding /\ lock = t /\ t # NoTask /\ Active
  BY Bounds, Holds DEF ExitAmends, At, Holding
<1>1. PICK label \in {"submit", "cancel"} : pc' = [pc EXCEPT ![t] = label]
  BY DEF ExitAmends, ReserveFor, Go
<1>2. Active' /\ NoUnresolvedExit' /\ lock' = t /\ UNCHANGED row
  <2>1. NoUnresolvedExit
    BY <1>0 DEF ExitAmends, At, OInv, Orderly, Placed, Exiting
  <2>2. life' = life \/ \E i, q : life' = [life EXCEPT !.stop.id = i, !.stop.qty = q]
    BY DEF ExitAmends
  <2> QED BY <1>0, <2>1, <2>2 DEF ExitAmends, durable, Active, NoUnresolvedExit, OInv, IInv, TypedBooks, Life
<1>3. Rested(life', ledger')
  BY <1>2 DEF Rested, Active
<1> QED BY <1>0, <1>1, <1>2, <1>3, HolderMoves DEF Holding

LEMMA ExitCancelsOrderly ==
  ASSUME OInv, Blind, env'.may = env.may, NEW t \in Sig, ExitCancels(t)
  PROVE  Orderly'
<1>0. t \in Task /\ pc[t] \in Holding /\ lock = t /\ t # NoTask /\ Active
  BY Bounds, Holds DEF ExitCancels, At, Holding
<1>n. NoUnresolvedExit
  BY <1>0 DEF ExitCancels, At, OInv, Orderly, Placed, Exiting
<1>p. \/ /\ life' = [life EXCEPT !.stop.status = "unprotected", !.stop.id = 0]
         /\ Go(t, "submit") /\ UNCHANGED lock
      \/ Done(t) /\ UNCHANGED <<ledger, life>>
  BY DEF ExitCancels, ReserveFor
<1>r. UNCHANGED row
  BY DEF ExitCancels, durable
<1>1. CASE life' = [life EXCEPT !.stop.status = "unprotected", !.stop.id = 0] /\ Go(t, "submit") /\ UNCHANGED lock
  <2>1. Active' /\ NoUnresolvedExit'
    BY <1>0, <1>1, <1>n DEF Active, NoUnresolvedExit, OInv, IInv, TypedBooks, Life
  <2>2. Rested(life', ledger')
    BY <2>1 DEF Rested, Active
  <2> QED BY <1>0, <1>1, <1>r, <2>1, <2>2, HolderMoves DEF Go, Holding
<1>2. CASE Done(t) /\ UNCHANGED <<ledger, life>>
  <2>1. Rested(life', ledger')
    BY <1>2 DEF OInv, Orderly
  <2> QED BY <1>0, <1>2, <1>r, <2>1, HolderMoves DEF Done, Exiting
<1> QED BY <1>p, <1>1, <1>2

LEMMA ExitSubmitsOrderly ==
  ASSUME OInv, Blind, env'.may = env.may, NEW t \in Sig, ExitSubmits(t)
  PROVE  Orderly'
<1>0. t \in Task /\ pc[t] \in Label
  BY Bounds DEF OInv, IInv, TypedTasks
<1>1. Rested(life, ledger)'
  BY <1>0 DEF ExitSubmits, At, Idle, Go, Done, Finish, OInv, Orderly, Rested, Active, NoUnresolvedExit
<1>2. Rested(row.life, row.ledger)'
  BY <1>0, <1>1, RestedRow DEF ExitSubmits, durable, Finish, OInv, Orderly
<1>3. Locked'
  BY <1>0 DEF ExitSubmits, At, Idle, Go, Done, Finish, OInv, IInv, TypedTasks, Located, Orderly, Locked, Placed, Active, Holding
<1>4. OneEntry'
  BY <1>0 DEF ExitSubmits, At, Idle, Go, Done, Finish, OInv, IInv, TypedTasks, Orderly, OneEntry, Placed, Entry, Active
<1>5. \A u \in Task : Placed(u)'
  BY <1>0 DEF ExitSubmits, At, Idle, Go, Done, Finish, OInv, IInv, TypedTasks, Located, Orderly, Placed, Active, NoUnresolvedExit, Holding, Exiting, Entry
<1> QED BY <1>1, <1>2, <1>3, <1>4, <1>5 DEF Orderly

LEMMA ExitUnresolvedOrderly ==
  ASSUME OInv, Blind, env'.may = env.may, NEW t \in Sig, ExitUnresolved(t)
  PROVE  Orderly'
<1>0. t \in Task /\ pc[t] \in Holding /\ lock = t /\ t # NoTask /\ Active
  BY Bounds, Holds DEF ExitUnresolved, At, Holding
<1>1. Active'
  BY <1>0 DEF ExitUnresolved, Active, OInv, IInv, TypedBooks, Life
<1>2. Rested(life', ledger')
  BY <1>1 DEF Rested, Active
<1>3. pc' = [pc EXCEPT ![t] = "idle"] /\ lock' = NoTask /\ Persist
  BY <1>0 DEF ExitUnresolved, Finish, Done
<1> QED BY <1>0, <1>2, <1>3, HolderMoves DEF Exiting

LEMMA ExitAnsweredOrderly ==
  ASSUME OInv, Blind, env'.may = env.may, NEW t \in Sig, ExitAnswered(t)
  PROVE  Orderly'
<1>0. t \in Task /\ pc[t] \in Holding /\ lock = t /\ t # NoTask /\ Active
  BY Bounds, Holds DEF ExitAnswered, At, Holding
<1>1. NoUnresolvedExit /\ pc[t] = "answered"
  BY <1>0 DEF ExitAnswered, At, OInv, Orderly, Placed, Exiting
<1>2. ledger' \in Arbiter!Ledger
  BY ExitAnsweredStep DEF OInv, IInv, TypedBooks
<1>3. AfterSettlement(t, [life EXCEPT !.owned = ledger'.owned], loc[t].stopped, loc[t].amended)
  BY DEF ExitAnswered
<1> DEFINE lf == [life EXCEPT !.owned = ledger'.owned]
<1>4. lf \in Life /\ lf.st = "open" /\ lf.pending.st = "none" /\ ledger'.owned = lf.owned
  BY <1>0, <1>1, <1>2 DEF Active, NoUnresolvedExit, OInv, IInv, TypedBooks, Life, Arbiter!Ledger
<1> HIDE DEF lf
<1> QED BY <1>0, <1>1, <1>3, <1>4, AfterOrderly DEF Entry, lf

LEMMA RatchetOrderly ==
  ASSUME OInv, Blind, env'.may = env.may, NEW t \in Sig, Ratchet(t)
  PROVE  Orderly'
<1>0. t \in Task /\ pc[t] \in Label
  BY Bounds DEF OInv, IInv, TypedTasks
<1>1. Rested(life, ledger)'
  BY <1>0 DEF Ratchet, At, Idle, Go, Done, Finish, OInv, Orderly, Rested, Active, NoUnresolvedExit
<1>2. Rested(row.life, row.ledger)'
  BY <1>0, <1>1, RestedRow DEF Ratchet, durable, Finish, OInv, Orderly
<1>3. Locked'
  BY <1>0 DEF Ratchet, At, Idle, Go, Done, Finish, OInv, IInv, TypedTasks, Located, Orderly, Locked, Placed, Active, Holding
<1>4. OneEntry'
  BY <1>0 DEF Ratchet, At, Idle, Go, Done, Finish, OInv, IInv, TypedTasks, Orderly, OneEntry, Placed, Entry, Active
<1>5. \A u \in Task : Placed(u)'
  BY <1>0 DEF Ratchet, At, Idle, Go, Done, Finish, OInv, IInv, TypedTasks, Located, Orderly, Placed, Active, NoUnresolvedExit, Holding, Exiting, Entry
<1> QED BY <1>1, <1>2, <1>3, <1>4, <1>5 DEF Orderly

LEMMA AdoptionFindsNothingOrderly ==
  ASSUME OInv, Blind, env'.may = env.may, NEW t \in Task, AdoptionFindsNothing(t)
  PROVE  Orderly'
<1>0. t \in Task /\ pc[t] \in Label
  BY Bounds DEF OInv, IInv, TypedTasks
<1>1. Rested(life, ledger)'
  BY <1>0 DEF AdoptionFindsNothing, At, Idle, Go, Done, Finish, OInv, Orderly, Rested, Active, NoUnresolvedExit
<1>2. Rested(row.life, row.ledger)'
  BY <1>0, <1>1, RestedRow DEF AdoptionFindsNothing, durable, Finish, OInv, Orderly
<1>3. Locked'
  BY <1>0 DEF AdoptionFindsNothing, At, Idle, Go, Done, Finish, OInv, IInv, TypedTasks, Located, Orderly, Locked, Placed, Active, Holding
<1>4. OneEntry'
  BY <1>0 DEF AdoptionFindsNothing, At, Idle, Go, Done, Finish, OInv, IInv, TypedTasks, Orderly, OneEntry, Placed, Entry, Active
<1>5. \A u \in Task : Placed(u)'
  BY <1>0 DEF AdoptionFindsNothing, At, Idle, Go, Done, Finish, OInv, IInv, TypedTasks, Located, Orderly, Placed, Active, NoUnresolvedExit, Holding, Exiting, Entry
<1> QED BY <1>1, <1>2, <1>3, <1>4, <1>5 DEF Orderly

LEMMA AdoptionRejectedOrderly ==
  ASSUME OInv, Blind, env'.may = env.may, NEW t \in Task, AdoptionRejected(t)
  PROVE  Orderly'
<1>0. t \in Task /\ pc[t] \in Holding /\ lock = t /\ t # NoTask /\ Active
  BY Bounds, Holds DEF AdoptionRejected, At, Holding
<1>1. Active'
  BY <1>0 DEF AdoptionRejected, Unprotected, Active, OInv, IInv, TypedBooks, Life
<1>2. Rested(life', ledger')
  BY <1>1 DEF Rested, Active
<1>3. pc' = [pc EXCEPT ![t] = "idle"] /\ lock' = NoTask /\ Persist
  BY <1>0 DEF AdoptionRejected, Finish, Done
<1> QED BY <1>0, <1>2, <1>3, HolderMoves DEF Exiting

LEMMA AdoptionFilledOrderly ==
  ASSUME OInv, Blind, env'.may = env.may, NEW t \in Task, AdoptionFilled(t)
  PROVE  Orderly'
<1>0. t \in Task /\ pc[t] \in Label
  BY Bounds DEF OInv, IInv, TypedTasks
<1>1. Rested(life, ledger)'
  BY <1>0 DEF AdoptionFilled, At, Idle, Go, Done, Finish, OInv, Orderly, Rested, Active, NoUnresolvedExit
<1>2. Rested(row.life, row.ledger)'
  BY <1>0, <1>1, RestedRow DEF AdoptionFilled, durable, Finish, OInv, Orderly
<1>3. Locked'
  BY <1>0 DEF AdoptionFilled, At, Idle, Go, Done, Finish, OInv, IInv, TypedTasks, Located, Orderly, Locked, Placed, Active, Holding
<1>4. OneEntry'
  BY <1>0 DEF AdoptionFilled, At, Idle, Go, Done, Finish, OInv, IInv, TypedTasks, Orderly, OneEntry, Placed, Entry, Active
<1>5. \A u \in Task : Placed(u)'
  BY <1>0 DEF AdoptionFilled, At, Idle, Go, Done, Finish, OInv, IInv, TypedTasks, Located, Orderly, Placed, Active, NoUnresolvedExit, Holding, Exiting, Entry
<1> QED BY <1>1, <1>2, <1>3, <1>4, <1>5 DEF Orderly

LEMMA OrderStopOrderly ==
  ASSUME OInv, Blind, env'.may = env.may, NEW t \in Task, OrderStop(t)
  PROVE  Orderly'
<1>0. t \in Task /\ pc[t] \in Label
  BY Bounds DEF OInv, IInv, TypedTasks
<1>1. Rested(life, ledger)'
  BY <1>0 DEF OrderStop, At, Idle, Go, Done, Finish, OInv, Orderly, Rested, Active, NoUnresolvedExit
<1>2. Rested(row.life, row.ledger)'
  BY <1>0, <1>1, RestedRow DEF OrderStop, durable, Finish, OInv, Orderly
<1>3. Locked'
  BY <1>0 DEF OrderStop, At, Idle, Go, Done, Finish, OInv, IInv, TypedTasks, Located, Orderly, Locked, Placed, Active, Holding
<1>4. OneEntry'
  BY <1>0 DEF OrderStop, At, Idle, Go, Done, Finish, OInv, IInv, TypedTasks, Orderly, OneEntry, Placed, Entry, Active
<1>5. \A u \in Task : Placed(u)'
  BY <1>0 DEF OrderStop, At, Idle, Go, Done, Finish, OInv, IInv, TypedTasks, Located, Orderly, Placed, Active, NoUnresolvedExit, Holding, Exiting, Entry
<1> QED BY <1>1, <1>2, <1>3, <1>4, <1>5 DEF Orderly

LEMMA StopOrderedOrderly ==
  ASSUME OInv, Blind, env'.may = env.may, NEW t \in Task, StopOrdered(t)
  PROVE  Orderly'
<1>0. t \in Task /\ pc[t] \in Holding /\ lock = t /\ t # NoTask /\ Active
  BY Bounds, Holds DEF StopOrdered, At, Holding
<1>1. Active'
  BY <1>0 DEF StopOrdered, Unprotected, Active, OInv, IInv, TypedBooks, Life
<1>2. Rested(life', ledger')
  BY <1>1 DEF Rested, Active
<1>3. pc' = [pc EXCEPT ![t] = "idle"] /\ lock' = NoTask /\ Persist
  BY <1>0 DEF StopOrdered, Finish, Done
<1> QED BY <1>0, <1>2, <1>3, HolderMoves DEF Exiting

LEMMA BrokerCallRaisesOrderly ==
  ASSUME OInv, Blind, env'.may = env.may, NEW t \in Task, BrokerCallRaises(t)
  PROVE  Orderly'
<1>0. t \in Task /\ pc[t] \in Label
  BY Bounds DEF OInv, IInv, TypedTasks
<1>1. Rested(life, ledger)'
  BY <1>0 DEF BrokerCallRaises, At, Idle, Go, Done, Finish, OInv, Orderly, Rested, Active, NoUnresolvedExit
<1>2. Rested(row.life, row.ledger)'
  BY <1>0, <1>1, RestedRow DEF BrokerCallRaises, durable, Finish, OInv, Orderly
<1>3. Locked'
  BY <1>0 DEF BrokerCallRaises, At, Idle, Go, Done, Finish, OInv, IInv, TypedTasks, Located, Orderly, Locked, Placed, Active, Holding
<1>4. OneEntry'
  BY <1>0 DEF BrokerCallRaises, At, Idle, Go, Done, Finish, OInv, IInv, TypedTasks, Orderly, OneEntry, Placed, Entry, Active
<1>5. \A u \in Task : Placed(u)'
  BY <1>0 DEF BrokerCallRaises, At, Idle, Go, Done, Finish, OInv, IInv, TypedTasks, Located, Orderly, Placed, Active, NoUnresolvedExit, Holding, Exiting, Entry
<1> QED BY <1>1, <1>2, <1>3, <1>4, <1>5 DEF Orderly

LEMMA RestoreCoverageOrderly ==
  ASSUME OInv, Blind, env'.may = env.may, NEW t \in Task, RestoreCoverage(t)
  PROVE  Orderly'
<1>0. t \in Task /\ pc[t] \in Label
  BY Bounds DEF OInv, IInv, TypedTasks
<1>1. Rested(life, ledger)'
  BY <1>0 DEF RestoreCoverage, At, Idle, Go, Done, Finish, OInv, Orderly, Rested, Active, NoUnresolvedExit
<1>2. Rested(row.life, row.ledger)'
  BY <1>0, <1>1, RestedRow DEF RestoreCoverage, durable, Finish, OInv, Orderly
<1>3. Locked'
  BY <1>0 DEF RestoreCoverage, At, Idle, Go, Done, Finish, OInv, IInv, TypedTasks, Located, Orderly, Locked, Placed, Active, Holding
<1>4. OneEntry'
  BY <1>0 DEF RestoreCoverage, At, Idle, Go, Done, Finish, OInv, IInv, TypedTasks, Orderly, OneEntry, Placed, Entry, Active
<1>5. \A u \in Task : Placed(u)'
  BY <1>0 DEF RestoreCoverage, At, Idle, Go, Done, Finish, OInv, IInv, TypedTasks, Located, Orderly, Placed, Active, NoUnresolvedExit, Holding, Exiting, Entry
<1> QED BY <1>1, <1>2, <1>3, <1>4, <1>5 DEF Orderly

LEMMA RepriceBeginsOrderly ==
  ASSUME OInv, Blind, env'.may = env.may, NEW t \in Task, RepriceBegins(t)
  PROVE  Orderly'
<1>0. pc[t] = "reprice" /\ lock = NoTask /\ UNCHANGED <<ledger, row>>
  BY DEF RepriceBegins, At, durable
<1>1. CASE ledger.owned <= 0
  <2>1. Done(t) /\ UNCHANGED life
    BY <1>1 DEF RepriceBegins
  <2> QED BY <1>0, <2>1 DEF Done, OInv, IInv, TypedTasks, Located, Orderly, Locked, OneEntry, Placed,
        Rested, Active, NoUnresolvedExit, Entry, Exiting
<1>2. CASE ~(ledger.owned <= 0)
  <2>1. Active /\ \A u \in Task : pc[u] \notin Entry
    BY <1>2 DEF OInv, Orderly, Rested, Active, Placed
  <2>2. /\ lock' = t /\ life' \in {life, Placing(life)}
        /\ \E label \in {"resize", "place"} : pc' = [pc EXCEPT ![t] = label]
    BY <1>2 DEF RepriceBegins, Go
  <2>3. Active'
    BY <2>1, <2>2 DEF Active, Placing, OInv, IInv, TypedBooks, Life
  <2> QED BY <1>0, <2>1, <2>2, <2>3, TakerMoves DEF Holding, Exiting
<1> QED BY <1>1, <1>2

LEMMA RepriceReplacesOrderly ==
  ASSUME OInv, Blind, env'.may = env.may, NEW t \in Task, RepriceReplaces(t)
  PROVE  Orderly'
<1>0. t \in Task /\ pc[t] \in Label
  BY Bounds DEF OInv, IInv, TypedTasks
<1>1. Rested(life, ledger)'
  BY <1>0 DEF RepriceReplaces, At, Idle, Go, Done, Finish, OInv, Orderly, Rested, Active, NoUnresolvedExit
<1>2. Rested(row.life, row.ledger)'
  BY <1>0, <1>1, RestedRow DEF RepriceReplaces, durable, Finish, OInv, Orderly
<1>3. Locked'
  BY <1>0 DEF RepriceReplaces, At, Idle, Go, Done, Finish, OInv, IInv, TypedTasks, Located, Orderly, Locked, Placed, Active, Holding
<1>4. OneEntry'
  BY <1>0 DEF RepriceReplaces, At, Idle, Go, Done, Finish, OInv, IInv, TypedTasks, Orderly, OneEntry, Placed, Entry, Active
<1>5. \A u \in Task : Placed(u)'
  BY <1>0 DEF RepriceReplaces, At, Idle, Go, Done, Finish, OInv, IInv, TypedTasks, Located, Orderly, Placed, Active, NoUnresolvedExit, Holding, Exiting, Entry
<1> QED BY <1>1, <1>2, <1>3, <1>4, <1>5 DEF Orderly

LEMMA RepriceCancelsOrderly ==
  ASSUME OInv, Blind, env'.may = env.may, NEW t \in Task, RepriceCancels(t)
  PROVE  Orderly'
<1>0. t \in Task /\ pc[t] \in Holding /\ lock = t /\ t # NoTask /\ Active
  BY Bounds, Holds DEF RepriceCancels, At, Holding
<1>p. \/ life' = Placing([life EXCEPT !.stop.id = 0]) /\ Go(t, "place") /\ UNCHANGED lock
      \/ Done(t) /\ UNCHANGED life
  BY DEF RepriceCancels
<1>r. UNCHANGED <<row, ledger>>
  BY DEF RepriceCancels, durable
<1>1. CASE life' = Placing([life EXCEPT !.stop.id = 0]) /\ Go(t, "place") /\ UNCHANGED lock
  <2>1. Active'
    BY <1>0, <1>1 DEF Active, Placing, OInv, IInv, TypedBooks, Life
  <2>2. Rested(life', ledger')
    BY <2>1 DEF Rested, Active
  <2> QED BY <1>0, <1>1, <1>r, <2>1, <2>2, HolderMoves DEF Go, Holding, Exiting
<1>2. CASE Done(t) /\ UNCHANGED life
  <2>1. Rested(life', ledger')
    BY <1>2, <1>r DEF OInv, Orderly
  <2> QED BY <1>0, <1>2, <1>r, <2>1, HolderMoves DEF Done, Exiting
<1> QED BY <1>p, <1>1, <1>2

LEMMA PollExitOrderly ==
  ASSUME OInv, Blind, env'.may = env.may, NEW t \in Rec, PollExit(t)
  PROVE  Orderly'
<1>0. t \in Task /\ pc[t] \in Label
  BY Bounds DEF OInv, IInv, TypedTasks
<1>1. Rested(life, ledger)'
  BY <1>0 DEF PollExit, At, Idle, Go, Done, Finish, OInv, Orderly, Rested, Active, NoUnresolvedExit
<1>2. Rested(row.life, row.ledger)'
  BY <1>0, <1>1, RestedRow DEF PollExit, durable, Finish, OInv, Orderly
<1>3. Locked'
  BY <1>0 DEF PollExit, At, Idle, Go, Done, Finish, OInv, IInv, TypedTasks, Located, Orderly, Locked, Placed, Active, Holding
<1>4. OneEntry'
  BY <1>0 DEF PollExit, At, Idle, Go, Done, Finish, OInv, IInv, TypedTasks, Orderly, OneEntry, Placed, Entry, Active
<1>5. \A u \in Task : Placed(u)'
  BY <1>0 DEF PollExit, At, Idle, Go, Done, Finish, OInv, IInv, TypedTasks, Located, Orderly, Placed, Active, NoUnresolvedExit, Holding, Exiting, Entry
<1> QED BY <1>1, <1>2, <1>3, <1>4, <1>5 DEF Orderly

LEMMA NothingToResolveOrderly ==
  ASSUME OInv, Blind, env'.may = env.may, NEW t \in Rec, NothingToResolve(t)
  PROVE  Orderly'
<1>0. t \in Task /\ pc[t] \in Label
  BY Bounds DEF OInv, IInv, TypedTasks
<1>1. Rested(life, ledger)'
  BY <1>0 DEF NothingToResolve, At, Idle, Go, Done, Finish, OInv, Orderly, Rested, Active, NoUnresolvedExit
<1>2. Rested(row.life, row.ledger)'
  BY <1>0, <1>1, RestedRow DEF NothingToResolve, durable, Finish, OInv, Orderly
<1>3. Locked'
  BY <1>0 DEF NothingToResolve, At, Idle, Go, Done, Finish, OInv, IInv, TypedTasks, Located, Orderly, Locked, Placed, Active, Holding
<1>4. OneEntry'
  BY <1>0 DEF NothingToResolve, At, Idle, Go, Done, Finish, OInv, IInv, TypedTasks, Orderly, OneEntry, Placed, Entry, Active
<1>5. \A u \in Task : Placed(u)'
  BY <1>0 DEF NothingToResolve, At, Idle, Go, Done, Finish, OInv, IInv, TypedTasks, Located, Orderly, Placed, Active, NoUnresolvedExit, Holding, Exiting, Entry
<1> QED BY <1>1, <1>2, <1>3, <1>4, <1>5 DEF Orderly

LEMMA ResolvePartialOrderly ==
  ASSUME OInv, Blind, env'.may = env.may, NEW t \in Rec, ResolvePartial(t)
  PROVE  Orderly'
<1>0. t \in Task /\ pc[t] \in Label
  BY Bounds DEF OInv, IInv, TypedTasks
<1>1. Rested(life, ledger)'
  BY <1>0 DEF ResolvePartial, At, Idle, Go, Done, Finish, OInv, Orderly, Rested, Active, NoUnresolvedExit
<1>2. Rested(row.life, row.ledger)'
  BY <1>0, <1>1, RestedRow DEF ResolvePartial, durable, Finish, OInv, Orderly
<1>3. Locked'
  BY <1>0 DEF ResolvePartial, At, Idle, Go, Done, Finish, OInv, IInv, TypedTasks, Located, Orderly, Locked, Placed, Active, Holding
<1>4. OneEntry'
  BY <1>0 DEF ResolvePartial, At, Idle, Go, Done, Finish, OInv, IInv, TypedTasks, Orderly, OneEntry, Placed, Entry, Active
<1>5. \A u \in Task : Placed(u)'
  BY <1>0 DEF ResolvePartial, At, Idle, Go, Done, Finish, OInv, IInv, TypedTasks, Located, Orderly, Placed, Active, NoUnresolvedExit, Holding, Exiting, Entry
<1> QED BY <1>1, <1>2, <1>3, <1>4, <1>5 DEF Orderly

LEMMA ResolveFinalOrderly ==
  ASSUME OInv, Blind, env'.may = env.may, NEW t \in Rec, ResolveFinal(t)
  PROVE  Orderly'
<1>1. t \in Task /\ pc[t] = "resolve" /\ lock = NoTask /\ Active /\ ~NoUnresolvedExit
  BY Bounds DEF ResolveFinal, At, OInv, Orderly, Rested, Active, NoUnresolvedExit
<1>2. ledger' \in Arbiter!Ledger
  BY ResolveFinalStep DEF OInv, IInv, TypedBooks
<1> DEFINE lf == [life EXCEPT !.owned = ledger'.owned, !.pending = NoPending]
<1>3. AfterSettlement(t, lf, TRUE, life.pending.amended)
  BY DEF ResolveFinal
<1>4. lf \in Life /\ lf.st = "open" /\ lf.pending.st = "none" /\ ledger'.owned = lf.owned
  BY <1>1, <1>2, StartTyped DEF Active, NoPending, OInv, IInv, TypedBooks, Life, Arbiter!Ledger
<1>5. \A u \in Task : pc[u] \notin Entry
  BY <1>1 DEF OInv, Orderly, Placed
<1> HIDE DEF lf
<1> QED BY <1>1, <1>3, <1>4, <1>5, AfterOrderly

LEMMA RetryUnprotectedOrderly ==
  ASSUME OInv, Blind, env'.may = env.may, NEW t \in Rec, RetryUnprotected(t)
  PROVE  Orderly'
<1>0. t \in Task /\ pc[t] \in Label
  BY Bounds DEF OInv, IInv, TypedTasks
<1>1. Rested(life, ledger)'
  BY <1>0 DEF RetryUnprotected, At, Idle, Go, Done, Finish, OInv, Orderly, Rested, Active, NoUnresolvedExit
<1>2. Rested(row.life, row.ledger)'
  BY <1>0, <1>1, RestedRow DEF RetryUnprotected, durable, Finish, OInv, Orderly
<1>3. Locked'
  BY <1>0 DEF RetryUnprotected, At, Idle, Go, Done, Finish, OInv, IInv, TypedTasks, Located, Orderly, Locked, Placed, Active, Holding
<1>4. OneEntry'
  BY <1>0 DEF RetryUnprotected, At, Idle, Go, Done, Finish, OInv, IInv, TypedTasks, Orderly, OneEntry, Placed, Entry, Active
<1>5. \A u \in Task : Placed(u)'
  BY <1>0 DEF RetryUnprotected, At, Idle, Go, Done, Finish, OInv, IInv, TypedTasks, Located, Orderly, Placed, Active, NoUnresolvedExit, Holding, Exiting, Entry
<1> QED BY <1>1, <1>2, <1>3, <1>4, <1>5 DEF Orderly

LEMMA ExitBeginsOrderly ==
  ASSUME OInv, Blind, env'.may = env.may, NEW t \in Sig, NEW q, ExitBegins(t, q), q \in Nat
  PROVE  Orderly'
<1>1. /\ t \in Task /\ lock = NoTask /\ lock' = t /\ Active /\ NoUnresolvedExit
      /\ UNCHANGED <<life, row>> /\ Min({q, Arbiter!Available(ledger)}) > 0
      /\ \E label \in {"submit", "amend", "cancel"} : pc' = [pc EXCEPT ![t] = label]
  BY Bounds DEF ExitBegins, MayExit, durable, ReserveFor, Go
<1>2. ledger.owned > 0
  <2>1. Arbiter!Available(ledger) \in Nat /\ ledger \in Arbiter!Ledger
    BY LedgerTyped DEF OInv, IInv, TypedBooks
  <2>2. Arbiter!Available(ledger) > 0
    BY <1>1, <2>1, MinOfTwo
  <2> QED BY <2>1, <2>2 DEF Arbiter!Available, Arbiter!AtLeastZero, Arbiter!Ledger
<1>3. \A u \in Task : pc[u] \notin Entry
  BY <1>2 DEF OInv, IInv, TypedBooks, Arbiter!Ledger, Orderly, Placed
<1> QED BY <1>1, <1>3, TakerMoves DEF Holding, Active, NoUnresolvedExit

(* OInv is inductive.                                                        *)
LEMMA NextOInv == OInv /\ [Next]_vars => OInv'
<1> SUFFICES ASSUME OInv, [Next]_vars PROVE OInv'
  OBVIOUS
<1>0. IInv' /\ env'.may = env.may
  BY NextIInv, SettingStays DEF OInv
<1> SUFFICES ASSUME Blind PROVE Orderly'
  BY <1>0 DEF OInv, Blind
<1>1. ASSUME NEW s \in Sig, NEW q \in 1..env.may.lot, ExitBegins(s, q) PROVE Orderly'
  <2>1. q \in Nat
    BY Bounds DEF OInv, IInv, Env
  <2> QED BY <1>0, <1>1, <2>1, ExitBeginsOrderly
<1>2. ASSUME NEW s \in Sig, Entering(s) \/ ExitProceeds(s) \/ Ratchet(s) PROVE Orderly'
  BY <1>0, <1>2, StartPlanOrderly, EntryFillsOrderly, OnEntryFillOrderly, ExitAmendsOrderly,
     ExitCancelsOrderly, ExitSubmitsOrderly, ExitUnresolvedOrderly, ExitAnsweredOrderly, RatchetOrderly
  DEF Entering, ExitProceeds
<1>3. ASSUME NEW t \in Task, PlacingStop(t) \/ Restoring(t) \/ Repricing(t) \/ OnStopFilled(t)
      PROVE  Orderly'
  BY <1>0, <1>3, AdoptionFindsNothingOrderly, AdoptionRejectedOrderly, AdoptionFilledOrderly,
     OrderStopOrderly, StopOrderedOrderly, BrokerCallRaisesOrderly, RestoreCoverageOrderly,
     RepriceBeginsOrderly, RepriceReplacesOrderly, RepriceCancelsOrderly, NothingIsRead
  DEF PlacingStop, Restoring, Repricing
<1>4. ASSUME NEW r \in Rec, Resolving(r) \/ RetryUnprotected(r) \/ ReconcilingPosition(r)
      PROVE  Orderly'
  BY <1>0, <1>4, PollExitOrderly, NothingToResolveOrderly, ResolvePartialOrderly,
     ResolveFinalOrderly, RetryUnprotectedOrderly, NothingIsRead
  DEF Resolving
<1>5. CASE Venue \/ UNCHANGED vars
  BY <1>0, <1>5 DEF Venue, StopTriggers, ExitEnds, ExitProgresses, vars, durable, OInv, Orderly, Rested,
     Locked, OneEntry, Placed, Active, NoUnresolvedExit
<1>6. CASE PriceTick
  <2>1. Rested(row'.life, row'.ledger)
    BY <1>6 DEF PriceTick, RowOf, NoRow, NoLife, NoPending, Arbiter!NewLedger, Rested, Active
  <2> QED BY <1>0, <1>6, <2>1 DEF PriceTick, OInv, Orderly, Rested, Locked, OneEntry, Placed,
        Active, NoUnresolvedExit
<1>7. CASE CrashAndRestart
  BY <1>0, <1>7 DEF CrashAndRestart, durable, OInv, Orderly, Rested, Locked, OneEntry, Placed,
     Active, NoUnresolvedExit, Entry, Exiting
<1> QED BY <1>1, <1>2, <1>3, <1>4, <1>5, <1>6, <1>7 DEF Next

(* What holds at the start.                                                  *)
LEMMA InitOInv == Init => OInv
<1> SUFFICES ASSUME Init PROVE Orderly
  BY InitIInv DEF OInv
<1> QED BY DEF Init, Orderly, Rested, Locked, OneEntry, Placed, Entry, Exiting,
       NoRow, NoLife, NoPending, Arbiter!NewLedger

-----------------------------------------------------------------------------
(* One entry: the two copies of the owned quantity never differ, and until   *)
(* the entry nothing has moved.                                              *)
Single == env.may.entries <= 1
Equal(lf, l) == l.owned = lf.owned
Untouched ==
  /\ life = NoLife /\ ledger = Arbiter!NewLedger /\ row = NoRow
  /\ lock = NoTask /\ \A t \in Task : pc[t] = "idle"
Copies ==
  /\ Equal(life, ledger) /\ Equal(row.life, row.ledger)
  /\ env.did.entries = 0 => Untouched
CInv == IInv /\ (Single => Copies)

(* A row written of two equal copies holds two equal copies.                 *)
LEMMA EqualRow ==
  ASSUME NEW lf, NEW l, Equal(lf, l)
  PROVE  Equal(RowOf(lf, l).life, RowOf(lf, l).ledger)
BY DEF Equal, RowOf, NoRow, NoLife, Arbiter!NewLedger

(* Only start_plan counts an entry.                                          *)
LEMMA EntriesCount ==
  ASSUME IInv, [Next]_vars
  PROVE  \/ env'.did.entries = env.did.entries
         \/ env'.did.entries = env.did.entries + 1 /\ \E s \in Sig : StartPlan(s)
<1>e. env \in Env
  BY DEF IInv
<1> DEFINE Kept == env'.did.entries = env.did.entries
<1>f. Fault => Kept
  BY <1>e DEF Fault, Env
<1>r. \A s, q, id : VenueReplace(s, q, id) => Kept
  BY <1>f DEF VenueReplace
<1>c. \A s, ans : VenueCancel(s, ans) => Kept
  BY <1>f DEF VenueCancel

<1>1. ASSUME NEW t \in Sig, EntryFills(t) \/ OnEntryFill(t) \/ ExitAmends(t) \/ ExitCancels(t) \/ ExitSubmits(t)
      PROVE  Kept
  BY <1>1, <1>e, <1>f, <1>r, <1>c
  DEF EntryFills, OnEntryFill, ExitAmends, ExitCancels, ExitSubmits, Env

<1>2. ASSUME NEW t \in Sig, ExitUnresolved(t) \/ ExitAnswered(t) \/ Ratchet(t)
      PROVE  Kept
  BY <1>2, <1>e, <1>f, <1>r, <1>c
  DEF ExitUnresolved, ExitAnswered, Ratchet, Env

<1>3. ASSUME NEW t \in Task, AdoptionFindsNothing(t) \/ AdoptionRejected(t) \/ AdoptionFilled(t) \/ OrderStop(t) \/ StopOrdered(t)
      PROVE  Kept
  BY <1>3, <1>e, <1>f, <1>r, <1>c
  DEF AdoptionFindsNothing, AdoptionRejected, AdoptionFilled, OrderStop, StopOrdered, Env

<1>4. ASSUME NEW t \in Task, BrokerCallRaises(t) \/ RestoreCoverage(t) \/ RepriceBegins(t) \/ RepriceReplaces(t) \/ RepriceCancels(t)
      PROVE  Kept
  BY <1>4, <1>e, <1>f, <1>r, <1>c
  DEF BrokerCallRaises, RestoreCoverage, RepriceBegins, RepriceReplaces, RepriceCancels, Env

<1>5. ASSUME NEW t \in Task, OnStopFilled(t)
      PROVE  Kept
  BY <1>5, <1>e, <1>f, <1>r, <1>c
  DEF OnStopFilled, Env

<1>6. ASSUME NEW t \in Rec, PollExit(t) \/ NothingToResolve(t) \/ ResolvePartial(t) \/ ResolveFinal(t) \/ RetryUnprotected(t)
      PROVE  Kept
  BY <1>6, <1>e, <1>f, <1>r, <1>c
  DEF PollExit, NothingToResolve, ResolvePartial, ResolveFinal, RetryUnprotected, Env

<1>7. ASSUME NEW t \in Rec, ReadPosition(t) \/ ReadResolves(t) \/ ReadAgrees(t) \/ ReadAdopts(t) \/ AdoptVenueOwnership(t)
      PROVE  Kept
  BY <1>7, <1>e, <1>f, <1>r, <1>c
  DEF ReadPosition, ReadResolves, ReadAgrees, ReadAdopts, AdoptVenueOwnership, Env

<1>8. ASSUME NEW t \in Rec, ReadFindsDeficit(t) \/ PollStop(t) \/ ResizeStopToOwned(t)
      PROVE  Kept
  BY <1>8, <1>e, <1>f, <1>r, <1>c
  DEF ReadFindsDeficit, PollStop, ResizeStopToOwned, Env

<1>9. ASSUME NEW t \in Sig, NEW q, ExitBegins(t, q) PROVE Kept
  BY <1>9 DEF ExitBegins
<1>10. CASE Venue \/ PriceTick \/ UNCHANGED vars
  BY <1>10 DEF Venue, StopTriggers, ExitEnds, ExitProgresses, PriceTick, vars
<1>11. CASE CrashAndRestart
  BY <1>11, <1>e DEF CrashAndRestart, Env
<1>12. ASSUME NEW s \in Sig, StartPlan(s) PROVE env'.did.entries = env.did.entries + 1
  BY <1>12, <1>e DEF StartPlan, Env
<1> QED
  BY <1>1, <1>2, <1>3, <1>4, <1>5, <1>6, <1>7, <1>8, <1>9, <1>10, <1>11, <1>12
  DEF Next, Entering, ExitProceeds, PlacingStop, Restoring, Repricing, Resolving, ReconcilingPosition

(* A settlement and the ledger's operations, seen from the owned quantity.   *)
LEMMA AfterEqual ==
  ASSUME NEW t \in Task, NEW lf \in Life, NEW restore, NEW amended,
         AfterSettlement(t, lf, restore, amended), ledger'.owned = lf.owned
  PROVE  Equal(life', ledger') /\ (UNCHANGED row \/ Persist)
<1>1. life' \in {lf, [lf EXCEPT !.st = "closed"], Placing(lf)}
  BY DEF AfterSettlement
<1>2. life'.owned = lf.owned
  BY <1>1 DEF Placing, Life
<1> QED BY <1>2 DEF AfterSettlement, Finish, durable, Equal

LEMMA LedgerOwned ==
  ASSUME NEW l \in Arbiter!Ledger, NEW q
  PROVE  /\ Arbiter!ReserveIn(l, q).owned = l.owned
         /\ Arbiter!SetOwnedIn(l, q).owned = q
BY DEF Arbiter!ReserveIn, Arbiter!CheckInvariant, Arbiter!SetOwnedIn, Arbiter!Ledger

(* Every step moves the owned quantity of the lifecycle and the arbiter's    *)
(* together, and writes the row of one moment; a new plan must find the      *)
(* ledger empty.                                                             *)
LEMMA MovesTogether ==
  ASSUME IInv, Equal(life, ledger), Equal(row.life, row.ledger), [Next]_vars,
         \A s \in Sig : StartPlan(s) => ledger.owned = 0
  PROVE  /\ Equal(life', ledger')
         /\ UNCHANGED row \/ row' = RowOf(life', ledger') \/ row' = RowOf(life, ledger)
<1> DEFINE Good == Equal(life', ledger') /\ (UNCHANGED row \/ Persist)
<1>t. life \in Life /\ ledger \in Arbiter!Ledger /\ Equal(life, ledger) /\ env \in Env
  BY DEF IInv, TypedBooks
<1>l. \A q : Arbiter!ReserveIn(ledger, q).owned = ledger.owned /\ Arbiter!SetOwnedIn(ledger, q).owned = q
  BY <1>t, LedgerOwned
<1>h. env.may.lot \in Int
  BY <1>t, Bounds DEF Env
<1>s. \A f \in Nat : StopAfter(life, f).owned = life.owned
  BY <1>t DEF StopAfter, Life
<1>b. ASSUME NEW s \in Sig, StartPlan(s) PROVE Good
  BY <1>b DEF StartPlan, Equal, NoLife
<1>a. ASSUME NEW t \in Sig, ExitAnswered(t) PROVE Good
  <2>1. t \in Task /\ ledger' \in Arbiter!Ledger
    BY <1>a, ExitAnsweredStep, Bounds DEF IInv, TypedBooks
  <2> DEFINE lf == [life EXCEPT !.owned = ledger'.owned]
  <2>2. lf \in Life /\ ledger'.owned = lf.owned
    BY <2>1, <1>t DEF Life, Arbiter!Ledger
  <2>3. AfterSettlement(t, lf, loc[t].stopped, loc[t].amended)
    BY <1>a DEF ExitAnswered
  <2> HIDE DEF lf
  <2> QED BY <2>1, <2>2, <2>3, AfterEqual
<1>z. ASSUME NEW t \in Rec, ResolveFinal(t) PROVE Good
  <2>1. t \in Task /\ ledger' \in Arbiter!Ledger
    BY <1>z, ResolveFinalStep, Bounds DEF IInv, TypedBooks
  <2> DEFINE lf == [life EXCEPT !.owned = ledger'.owned, !.pending = NoPending]
  <2>2. lf \in Life /\ ledger'.owned = lf.owned
    BY <2>1, <1>t, StartTyped DEF Life, Arbiter!Ledger
  <2>3. AfterSettlement(t, lf, TRUE, life.pending.amended)
    BY <1>z DEF ResolveFinal
  <2> HIDE DEF lf
  <2> QED BY <2>1, <2>2, <2>3, AfterEqual
<1>o. ASSUME NEW t \in Task, OnStopFilled(t) PROVE Good
  <2> DEFINE l == Arbiter!SettleIn(ledger, 0, loc[t].seen)
  <2>1. l \in Arbiter!Ledger /\ loc[t].seen \in Nat
    BY <1>t, LedgerTyped DEF IInv, TypedTasks, Locals
  <2>2. life' = StopAfter([life EXCEPT !.owned = l.owned], loc[t].seen) /\ ledger' = l /\ Persist
    BY <1>o DEF OnStopFilled, Finish
  <2> HIDE DEF l
  <2>3. life'.owned = l.owned
    BY <2>1, <2>2, <1>t DEF StopAfter, Life, Arbiter!Ledger
  <2> QED BY <2>2, <2>3 DEF Equal
<1>f. ASSUME NEW t \in Sig, OnEntryFill(t) PROVE Good
  <2>1. life'.owned = env.may.lot
    BY <1>f, <1>t DEF OnEntryFill, Placing, Life
  <2> QED BY <1>f, <2>1, <1>l DEF OnEntryFill, durable, Equal
<1>m. ASSUME NEW t \in Sig, ExitAmends(t) PROVE Good
  <2>1. life' = life \/ \E i, q : life' = [life EXCEPT !.stop.id = i, !.stop.qty = q]
    BY <1>m DEF ExitAmends
  <2>2. life'.owned = life.owned
    BY <2>1, <1>t DEF Life
  <2>3. ledger'.owned = ledger.owned
    BY <1>m, <1>l DEF ExitAmends, ReserveFor
  <2> QED BY <1>m, <2>2, <2>3, <1>t DEF ExitAmends, durable, Equal
<1>p. ASSUME NEW t \in Rec, ResolvePartial(t) PROVE Good
  <2>1. life'.owned = (IF Increase(t) > 0 THEN ledger'.owned ELSE life.owned)
    BY <1>p, <1>t DEF ResolvePartial, Life
  <2>2. ~(Increase(t) > 0) => ledger' = ledger
    BY <1>p DEF ResolvePartial
  <2> QED BY <1>p, <2>1, <2>2, <1>t DEF ResolvePartial, Finish, Equal

<1>1. ASSUME NEW t \in Sig, EntryFills(t) \/ ExitCancels(t) \/ ExitSubmits(t) \/ ExitUnresolved(t)
      PROVE  Good
  BY <1>1, <1>t, <1>l, <1>h
  DEF EntryFills, ExitCancels, ExitSubmits, ExitUnresolved, ReserveFor, AdoptIn, Finish, Placing, Unprotected, durable, Equal, Life

<1>2. ASSUME NEW t \in Sig, Ratchet(t)
      PROVE  Good
  BY <1>2, <1>t, <1>l, <1>h
  DEF Ratchet, ReserveFor, AdoptIn, Finish, Placing, Unprotected, durable, Equal, Life

<1>3. ASSUME NEW t \in Task, AdoptionFindsNothing(t) \/ AdoptionRejected(t) \/ AdoptionFilled(t) \/ OrderStop(t)
      PROVE  Good
  BY <1>3, <1>t, <1>l, <1>h
  DEF AdoptionFindsNothing, AdoptionRejected, AdoptionFilled, OrderStop, ReserveFor, AdoptIn, Finish, Placing, Unprotected, durable, Equal, Life

<1>4. ASSUME NEW t \in Task, StopOrdered(t) \/ BrokerCallRaises(t) \/ RestoreCoverage(t) \/ RepriceBegins(t)
      PROVE  Good
  BY <1>4, <1>t, <1>l, <1>h
  DEF StopOrdered, BrokerCallRaises, RestoreCoverage, RepriceBegins, ReserveFor, AdoptIn, Finish, Placing, Unprotected, durable, Equal, Life

<1>5. ASSUME NEW t \in Task, RepriceReplaces(t) \/ RepriceCancels(t)
      PROVE  Good
  BY <1>5, <1>t, <1>l, <1>h
  DEF RepriceReplaces, RepriceCancels, ReserveFor, AdoptIn, Finish, Placing, Unprotected, durable, Equal, Life

<1>6. ASSUME NEW t \in Rec, PollExit(t) \/ NothingToResolve(t) \/ RetryUnprotected(t) \/ ReadPosition(t)
      PROVE  Good
  BY <1>6, <1>t, <1>l, <1>h
  DEF PollExit, NothingToResolve, RetryUnprotected, ReadPosition, ReserveFor, AdoptIn, Finish, Placing, Unprotected, durable, Equal, Life

<1>7. ASSUME NEW t \in Rec, ReadResolves(t) \/ ReadAgrees(t) \/ ReadAdopts(t) \/ AdoptVenueOwnership(t)
      PROVE  Good
  BY <1>7, <1>t, <1>l, <1>h
  DEF ReadResolves, ReadAgrees, ReadAdopts, AdoptVenueOwnership, ReserveFor, AdoptIn, Finish, Placing, Unprotected, durable, Equal, Life

<1>8. ASSUME NEW t \in Rec, ReadFindsDeficit(t) \/ PollStop(t) \/ ResizeStopToOwned(t)
      PROVE  Good
  BY <1>8, <1>t, <1>l, <1>h
  DEF ReadFindsDeficit, PollStop, ResizeStopToOwned, ReserveFor, AdoptIn, Finish, Placing, Unprotected, durable, Equal, Life

<1>9. ASSUME NEW t \in Sig, NEW q, ExitBegins(t, q) PROVE Good
  BY <1>9, <1>t, <1>l DEF ExitBegins, ReserveFor, durable, Equal
<1>10. CASE Venue \/ UNCHANGED vars
  BY <1>10, <1>t DEF Venue, StopTriggers, ExitEnds, ExitProgresses, vars, durable
<1>11. CASE PriceTick
  BY <1>11, <1>t DEF PriceTick
<1>12. CASE CrashAndRestart
  BY <1>12 DEF CrashAndRestart, durable, Equal
<1> QED
  BY <1>b, <1>a, <1>z, <1>o, <1>f, <1>m, <1>p, <1>1, <1>2, <1>3, <1>4, <1>5, <1>6, <1>7, <1>8, <1>9, <1>10, <1>11, <1>12
  DEF Next, Entering, ExitProceeds, PlacingStop, Restoring, Repricing, Resolving, ReconcilingPosition, Persist

(* Until the entry nothing moves.                                            *)
LEMMA NothingYet ==
  ASSUME IInv, Untouched, [Next]_vars, ~\E s \in Sig : StartPlan(s)
  PROVE  Untouched'
<1>1. ~Active /\ life.pending.st = "none" /\ \A t \in Task : pc[t] = "idle"
  BY DEF Untouched, Active, NoLife, NoPending
<1>2. ASSUME NEW s \in Sig PROVE ~(Entering(s) \/ ExitProceeds(s) \/ Ratchet(s) \/ \E q : ExitBegins(s, q))
  BY <1>1, Bounds DEF Entering, EntryFills, OnEntryFill, ExitProceeds, ExitAmends, ExitCancels, ExitSubmits,
     ExitUnresolved, ExitAnswered, Ratchet, ExitBegins, MayExit, At
<1>3. ASSUME NEW t \in Task PROVE ~(PlacingStop(t) \/ Restoring(t) \/ Repricing(t) \/ OnStopFilled(t))
  BY <1>1 DEF PlacingStop, AdoptionFindsNothing, AdoptionRejected, AdoptionFilled, OrderStop, StopOrdered,
     BrokerCallRaises, Restoring, RestoreCoverage, Repricing, RepriceBegins, RepriceReplaces, RepriceCancels,
     OnStopFilled, At
<1>4. ASSUME NEW r \in Rec PROVE ~(Resolving(r) \/ RetryUnprotected(r) \/ ReconcilingPosition(r))
  BY <1>1, Bounds DEF Resolving, PollExit, NothingToResolve, ResolvePartial, ResolveFinal, RetryUnprotected,
     ToRetry, NeedsStop, ReconcilingPosition, ReadPosition, ReadResolves, ReadAgrees, ReadAdopts,
     AdoptVenueOwnership, ReadFindsDeficit, PollStop, ResizeStopToOwned, At
<1>5. CASE Venue \/ PriceTick \/ UNCHANGED vars
  BY <1>1, <1>5 DEF Venue, StopTriggers, ExitEnds, ExitProgresses, PriceTick, vars, durable, Untouched
<1>6. CASE CrashAndRestart
  BY <1>6 DEF CrashAndRestart, durable, Untouched, NoRow
<1> QED BY <1>2, <1>3, <1>4, <1>5, <1>6 DEF Next

(* CInv is inductive.                                                        *)
LEMMA NextCInv == CInv /\ [Next]_vars => CInv'
<1> SUFFICES ASSUME CInv, [Next]_vars PROVE CInv'
  OBVIOUS
<1>0. IInv' /\ env'.may = env.may /\ env \in Env
  BY NextIInv, SettingStays DEF CInv, IInv
<1> SUFFICES ASSUME Single PROVE Copies'
  BY <1>0 DEF CInv, Single
<1>c. Copies
  BY DEF CInv
<1>1. Equal(life, ledger)' /\ Equal(row.life, row.ledger)'
  <2>1. ASSUME NEW s \in Sig, StartPlan(s) PROVE ledger.owned = 0
    <3>1. env.did.entries = 0
      BY <1>0, <2>1, Bounds DEF StartPlan, Single, Env
    <3> QED BY <1>c, <3>1 DEF Copies, Untouched, Arbiter!NewLedger
  <2> QED BY <1>c, <2>1, MovesTogether, EqualRow DEF Copies, CInv
<1>2. ASSUME env'.did.entries = 0 PROVE Untouched'
  <2>1. env.did.entries = 0 /\ ~\E s \in Sig : StartPlan(s)
    BY <1>0, <1>2, EntriesCount DEF CInv, IInv, StartPlan, Env
  <2> QED BY <1>c, <2>1, NothingYet DEF CInv, Copies
<1> QED BY <1>1, <1>2 DEF Copies

(* CInv holds for ever.                                                      *)
LEMMA CopyInductive == Spec => []CInv
<1>1. Init => CInv
  <2> SUFFICES ASSUME Init PROVE Copies
    BY InitIInv DEF CInv
  <2> QED BY DEF Init, Copies, Untouched, Equal, NoRow, NoLife, Arbiter!NewLedger
<1> QED BY <1>1, NextCInv, PTL DEF Spec

-----------------------------------------------------------------------------
(* No answer is lost: what a StopRecord, or the task that edits it, says of  *)
(* the stop order is so.                                                     *)
Aiming == {"amend", "cancel", "restore", "resize", "recancel"}
AtVenue(s) == s \in StopId /\ vstop[s].st \in {"resting", "filled"}
Named ==
  /\ life.stop.id # 0 => AtVenue(life.stop.id)
  /\ life.stop.status = "confirmed" => life.stop.id # 0 /\ vstop[life.stop.id].qty = life.stop.qty
Aimed(t) ==
  /\ pc[t] \in Aiming => loc[t].id = life.stop.id /\ loc[t].id # 0
  /\ pc[t] = "ordered" => AtVenue(loc[t].id) /\ vstop[loc[t].id].qty = loc[t].target
Recorded == Named /\ \A t \in Task : Aimed(t)
RInv == OInv /\ (NoLostAnswers => Recorded)
Elsewhere(t) == \A u \in Task \ {t} : pc'[u] = pc[u] /\ loc'[u] = loc[u]

(* What NoLostAnswers rules out.                                             *)
LEMMA Undisturbed ==
  ASSUME OInv, NoLostAnswers
  PROVE  Blind /\ Orderly /\ ~Fault /\ ~PriceTick /\ ~CrashAndRestart
BY Bounds, NoFault DEF NoLostAnswers, NoCallFails, Blind, OInv, IInv, Env, PriceTick, CrashAndRestart

(* An answer of the venue is what the venue did.                             *)
LEMMA ReplaceAnswers ==
  ASSUME RInv, NoLostAnswers, NEW s \in StopId, NEW q \in Nat, NEW id, VenueReplace(s, q, id)
  PROVE  /\ id > 0 => /\ Rests(s) /\ vstop' = Replaced(s, q, id)
                      /\ id \in StopId /\ (id = s \/ vstop[id].st = "none")
         /\ ~(id > 0) => id = 0 /\ UNCHANGED vstop
<1>1. ~Fault
  BY Undisturbed DEF RInv
<1>2. FreshStops # {} => Min(FreshStops) \in StopId /\ vstop[Min(FreshStops)].st = "none"
  BY Fresh DEF RInv, OInv, StopId
<1>3. s > 0 /\ \A x \in StopId : x > 0
  BY Bounds DEF StopId
<1> QED BY <1>1, <1>2, <1>3 DEF VenueReplace

LEMMA CancelAnswers ==
  ASSUME RInv, NoLostAnswers, NEW s \in Nat, NEW ans, VenueCancel(s, ans)
  PROVE  /\ ans => Rests(s) /\ vstop' = [vstop EXCEPT ![s].st = "cancelled"]
         /\ ~ans => UNCHANGED vstop
BY Undisturbed DEF VenueCancel, RInv

(* The holder of the lock, or who takes it, edits the record.                *)
LEMMA HolderRecords ==
  ASSUME RInv, NoLostAnswers, NEW t \in Task, lock \in {t, NoTask}, Elsewhere(t), Named', Aimed(t)'
  PROVE  Recorded'
<1>1. \A u \in Task \ {t} : pc[u] \notin Holding
  BY Bounds DEF RInv, OInv, IInv, TypedTasks, Located
<1>2. \A u \in Task \ {t} : Aimed(u)'
  BY <1>1 DEF Elsewhere, Aimed, Aiming, Holding
<1> QED BY <1>2 DEF Recorded

(* Who does not edit it goes on beside it.                                   *)
LEMMA OthersRecord ==
  ASSUME RInv, NoLostAnswers, NEW t \in Task, Elsewhere(t), pc'[t] \notin Aiming \cup {"ordered"},
         vstop' = vstop, life'.stop = life.stop
  PROVE  Recorded'
BY DEF RInv, Recorded, Named, Aimed, AtVenue, Elsewhere

(* A settlement leaves the record as it is.                                  *)
LEMMA AfterRecords ==
  ASSUME RInv, NoLostAnswers, NEW t \in Task, NEW lf \in Life, NEW restore, NEW amended,
         AfterSettlement(t, lf, restore, amended), lf.stop = life.stop, vstop' = vstop,
         lock \in {t, NoTask}
  PROVE  Recorded'
<1>t. loc[t] \in Locals
  BY DEF RInv, OInv, IInv, TypedTasks
<1>e. Elsewhere(t)
  BY DEF AfterSettlement, Finish, Done, Go, Elsewhere, RInv, OInv, IInv, TypedTasks
<1>1. CASE Flat(lf) \/ ~restore
  <2>1. life'.stop = life.stop
    BY <1>1 DEF AfterSettlement, Life
  <2>2. pc'[t] = "idle"
    BY <1>1 DEF AfterSettlement, Finish, Done, RInv, OInv, IInv, TypedTasks
  <2> QED BY <1>e, <2>1, <2>2, OthersRecord DEF Aiming
<1>2. CASE ~Flat(lf) /\ restore
  <2>1. CASE MayResize(lf, amended)
    <3>1. pc'[t] = "restore" /\ loc'[t].id = lf.stop.id /\ life' = lf /\ lf.stop.id # 0
      BY <1>2, <1>t, <2>1 DEF AfterSettlement, Go, MayResize, RInv, OInv, IInv, TypedTasks, Locals
    <3>2. Named' /\ Aimed(t)'
      BY <3>1 DEF RInv, Recorded, Named, Aimed, AtVenue
    <3> QED BY <1>e, <3>2, HolderRecords
  <2>2. CASE ~MayResize(lf, amended)
    <3>1. life'.stop.id = life.stop.id /\ life'.stop.status = "pending"
      BY <1>2, <2>2 DEF AfterSettlement, Placing, Life, Stop
    <3>2. pc'[t] = "place"
      BY <1>2, <2>2 DEF AfterSettlement, Go, RInv, OInv, IInv, TypedTasks
    <3>3. Named' /\ Aimed(t)'
      BY <3>1, <3>2 DEF RInv, Recorded, Named, Aimed, Aiming, AtVenue
    <3> QED BY <1>e, <3>3, HolderRecords
  <2> QED BY <2>1, <2>2
<1> QED BY <1>1, <1>2

(* Every action keeps Recorded.                                              *)
LEMMA EntryFillsRecords ==
  ASSUME RInv, NoLostAnswers, NEW t \in Sig, EntryFills(t)
  PROVE  Recorded'
<1>t. t \in Task /\ pc[t] \in Label /\ loc[t] \in Locals /\ life \in Life
  BY Bounds DEF RInv, OInv, IInv, TypedTasks, TypedBooks
<1>e. Elsewhere(t)
  BY <1>t DEF EntryFills, Finish, Done, Go, ReserveFor, Elsewhere, RInv, OInv, IInv, TypedTasks
<1>1. life'.stop = life.stop /\ vstop' = vstop
  BY <1>t DEF EntryFills, Finish, Done, venue, Life
<1>2. pc'[t] = "bought"
  BY <1>t DEF EntryFills, Finish, Done, Go, RInv, OInv, IInv, TypedTasks
<1> QED BY <1>t, <1>e, <1>1, <1>2, OthersRecord DEF Aiming

LEMMA ExitSubmitsRecords ==
  ASSUME RInv, NoLostAnswers, NEW t \in Sig, ExitSubmits(t)
  PROVE  Recorded'
<1>t. t \in Task /\ pc[t] \in Label /\ loc[t] \in Locals /\ life \in Life
  BY Bounds DEF RInv, OInv, IInv, TypedTasks, TypedBooks
<1>e. Elsewhere(t)
  BY <1>t DEF ExitSubmits, Finish, Done, Go, ReserveFor, Elsewhere, RInv, OInv, IInv, TypedTasks
<1>1. life'.stop = life.stop /\ vstop' = vstop
  BY <1>t DEF ExitSubmits, Finish, Done, venue, Life
<1>2. pc'[t] = "answered"
  BY <1>t DEF ExitSubmits, Finish, Done, Go, RInv, OInv, IInv, TypedTasks
<1> QED BY <1>t, <1>e, <1>1, <1>2, OthersRecord DEF Aiming

LEMMA ExitUnresolvedRecords ==
  ASSUME RInv, NoLostAnswers, NEW t \in Sig, ExitUnresolved(t)
  PROVE  Recorded'
<1>t. t \in Task /\ pc[t] \in Label /\ loc[t] \in Locals /\ life \in Life
  BY Bounds DEF RInv, OInv, IInv, TypedTasks, TypedBooks
<1>e. Elsewhere(t)
  BY <1>t DEF ExitUnresolved, Finish, Done, Go, ReserveFor, Elsewhere, RInv, OInv, IInv, TypedTasks
<1>1. life'.stop = life.stop /\ vstop' = vstop
  BY <1>t DEF ExitUnresolved, Finish, Done, venue, Life
<1>2. pc'[t] = "idle"
  BY <1>t DEF ExitUnresolved, Finish, Done, Go, RInv, OInv, IInv, TypedTasks
<1> QED BY <1>t, <1>e, <1>1, <1>2, OthersRecord DEF Aiming

LEMMA RatchetRecords ==
  ASSUME RInv, NoLostAnswers, NEW t \in Sig, Ratchet(t)
  PROVE  Recorded'
<1>t. t \in Task /\ pc[t] \in Label /\ loc[t] \in Locals /\ life \in Life
  BY Bounds DEF RInv, OInv, IInv, TypedTasks, TypedBooks
<1>e. Elsewhere(t)
  BY <1>t DEF Ratchet, Finish, Done, Go, ReserveFor, Elsewhere, RInv, OInv, IInv, TypedTasks
<1>1. life'.stop = life.stop /\ vstop' = vstop
  BY <1>t DEF Ratchet, Finish, Done, venue, Life
<1>2. pc'[t] = "reprice"
  BY <1>t DEF Ratchet, Finish, Done, Go, RInv, OInv, IInv, TypedTasks
<1> QED BY <1>t, <1>e, <1>1, <1>2, OthersRecord DEF Aiming

LEMMA AdoptionFindsNothingRecords ==
  ASSUME RInv, NoLostAnswers, NEW t \in Task, AdoptionFindsNothing(t)
  PROVE  Recorded'
<1>t. t \in Task /\ pc[t] \in Label /\ loc[t] \in Locals /\ life \in Life
  BY Bounds DEF RInv, OInv, IInv, TypedTasks, TypedBooks
<1>e. Elsewhere(t)
  BY <1>t DEF AdoptionFindsNothing, Finish, Done, Go, ReserveFor, Elsewhere, RInv, OInv, IInv, TypedTasks
<1>1. life'.stop = life.stop /\ vstop' = vstop
  BY <1>t DEF AdoptionFindsNothing, Finish, Done, venue, Life
<1>2. pc'[t] = "order"
  BY <1>t DEF AdoptionFindsNothing, Finish, Done, Go, RInv, OInv, IInv, TypedTasks
<1> QED BY <1>t, <1>e, <1>1, <1>2, OthersRecord DEF Aiming

LEMMA AdoptionFilledRecords ==
  ASSUME RInv, NoLostAnswers, NEW t \in Task, AdoptionFilled(t)
  PROVE  Recorded'
<1>t. t \in Task /\ pc[t] \in Label /\ loc[t] \in Locals /\ life \in Life
  BY Bounds DEF RInv, OInv, IInv, TypedTasks, TypedBooks
<1>e. Elsewhere(t)
  BY <1>t DEF AdoptionFilled, Finish, Done, Go, ReserveFor, Elsewhere, RInv, OInv, IInv, TypedTasks
<1>1. life'.stop = life.stop /\ vstop' = vstop
  BY <1>t DEF AdoptionFilled, Finish, Done, venue, Life
<1>2. pc'[t] = "stopfill"
  BY <1>t DEF AdoptionFilled, Finish, Done, Go, RInv, OInv, IInv, TypedTasks
<1> QED BY <1>t, <1>e, <1>1, <1>2, OthersRecord DEF Aiming

LEMMA PollExitRecords ==
  ASSUME RInv, NoLostAnswers, NEW t \in Rec, PollExit(t)
  PROVE  Recorded'
<1>t. t \in Task /\ pc[t] \in Label /\ loc[t] \in Locals /\ life \in Life
  BY Bounds DEF RInv, OInv, IInv, TypedTasks, TypedBooks
<1>e. Elsewhere(t)
  BY <1>t DEF PollExit, Finish, Done, Go, ReserveFor, Elsewhere, RInv, OInv, IInv, TypedTasks
<1>1. life'.stop = life.stop /\ vstop' = vstop
  BY <1>t DEF PollExit, Finish, Done, venue, Life
<1>2. pc'[t] = "resolve"
  BY <1>t DEF PollExit, Finish, Done, Go, RInv, OInv, IInv, TypedTasks
<1> QED BY <1>t, <1>e, <1>1, <1>2, OthersRecord DEF Aiming

LEMMA NothingToResolveRecords ==
  ASSUME RInv, NoLostAnswers, NEW t \in Rec, NothingToResolve(t)
  PROVE  Recorded'
<1>t. t \in Task /\ pc[t] \in Label /\ loc[t] \in Locals /\ life \in Life
  BY Bounds DEF RInv, OInv, IInv, TypedTasks, TypedBooks
<1>e. Elsewhere(t)
  BY <1>t DEF NothingToResolve, Finish, Done, Go, ReserveFor, Elsewhere, RInv, OInv, IInv, TypedTasks
<1>1. life'.stop = life.stop /\ vstop' = vstop
  BY <1>t DEF NothingToResolve, Finish, Done, venue, Life
<1>2. pc'[t] = "idle"
  BY <1>t DEF NothingToResolve, Finish, Done, Go, RInv, OInv, IInv, TypedTasks
<1> QED BY <1>t, <1>e, <1>1, <1>2, OthersRecord DEF Aiming

LEMMA ResolvePartialRecords ==
  ASSUME RInv, NoLostAnswers, NEW t \in Rec, ResolvePartial(t)
  PROVE  Recorded'
<1>t. t \in Task /\ pc[t] \in Label /\ loc[t] \in Locals /\ life \in Life
  BY Bounds DEF RInv, OInv, IInv, TypedTasks, TypedBooks
<1>e. Elsewhere(t)
  BY <1>t DEF ResolvePartial, Finish, Done, Go, ReserveFor, Elsewhere, RInv, OInv, IInv, TypedTasks
<1>1. life'.stop = life.stop /\ vstop' = vstop
  BY <1>t DEF ResolvePartial, Finish, Done, venue, Life
<1>2. pc'[t] = "idle"
  BY <1>t DEF ResolvePartial, Finish, Done, Go, RInv, OInv, IInv, TypedTasks
<1> QED BY <1>t, <1>e, <1>1, <1>2, OthersRecord DEF Aiming

LEMMA RetryUnprotectedRecords ==
  ASSUME RInv, NoLostAnswers, NEW t \in Rec, RetryUnprotected(t)
  PROVE  Recorded'
<1>t. t \in Task /\ pc[t] \in Label /\ loc[t] \in Locals /\ life \in Life
  BY Bounds DEF RInv, OInv, IInv, TypedTasks, TypedBooks
<1>e. Elsewhere(t)
  BY <1>t DEF RetryUnprotected, Finish, Done, Go, ReserveFor, Elsewhere, RInv, OInv, IInv, TypedTasks
<1>1. life'.stop = life.stop /\ vstop' = vstop
  BY <1>t DEF RetryUnprotected, Finish, Done, venue, Life
<1>2. pc'[t] = "reprice"
  BY <1>t DEF RetryUnprotected, Finish, Done, Go, RInv, OInv, IInv, TypedTasks
<1> QED BY <1>t, <1>e, <1>1, <1>2, OthersRecord DEF Aiming

LEMMA StartPlanRecords ==
  ASSUME RInv, NoLostAnswers, NEW t \in Sig, StartPlan(t)
  PROVE  Recorded'
<1>t. t \in Task /\ pc[t] \in Label /\ loc[t] \in Locals /\ life \in Life
  BY Bounds DEF RInv, OInv, IInv, TypedTasks, TypedBooks
<1>e. Elsewhere(t)
  BY <1>t DEF StartPlan, Finish, Done, Go, ReserveFor, Elsewhere, RInv, OInv, IInv, TypedTasks
<1>1. lock = NoTask
  BY Undisturbed DEF StartPlan, MayEnter, RInv, Orderly, Locked
<1>2. Named' /\ Aimed(t)'
  BY <1>t DEF StartPlan, Go, NoLife, NoStop, Named, Aimed, Aiming, RInv, OInv, IInv, TypedTasks
<1> QED BY <1>t, <1>e, <1>1, <1>2, HolderRecords

LEMMA OnEntryFillRecords ==
  ASSUME RInv, NoLostAnswers, NEW t \in Sig, OnEntryFill(t)
  PROVE  Recorded'
<1>t. t \in Task /\ pc[t] \in Label /\ loc[t] \in Locals /\ life \in Life
  BY Bounds DEF RInv, OInv, IInv, TypedTasks, TypedBooks
<1>e. Elsewhere(t)
  BY <1>t DEF OnEntryFill, Finish, Done, Go, ReserveFor, Elsewhere, RInv, OInv, IInv, TypedTasks
<1>1. life'.stop.id = life.stop.id /\ life'.stop.status = "pending" /\ vstop' = vstop
  BY <1>t DEF OnEntryFill, Placing, Life, Stop, venue
<1>2. pc'[t] = "place" /\ lock = NoTask
  BY <1>t DEF OnEntryFill, Go, RInv, OInv, IInv, TypedTasks
<1>3. Named' /\ Aimed(t)'
  BY <1>1, <1>2 DEF RInv, Recorded, Named, AtVenue, Aimed, Aiming
<1> QED BY <1>t, <1>e, <1>2, <1>3, HolderRecords

LEMMA ExitBeginsRecords ==
  ASSUME RInv, NoLostAnswers, NEW t \in Sig, NEW q, ExitBegins(t, q)
  PROVE  Recorded'
<1>t. t \in Task /\ pc[t] \in Label /\ loc[t] \in Locals /\ life \in Life
  BY Bounds DEF RInv, OInv, IInv, TypedTasks, TypedBooks
<1>e. Elsewhere(t)
  BY <1>t DEF ExitBegins, Finish, Done, Go, ReserveFor, Elsewhere, RInv, OInv, IInv, TypedTasks
<1>1. Named' /\ lock = NoTask /\ UNCHANGED life
  BY DEF ExitBegins, venue, RInv, Recorded, Named, AtVenue
<1>2. loc'[t].id = life.stop.id
  BY <1>t DEF ExitBegins, RInv, OInv, IInv, TypedTasks, Locals
<1>3. (pc'[t] \in {"amend", "cancel"} /\ life.stop.id # 0) \/ pc'[t] = "submit"
  BY <1>t DEF ExitBegins, ReserveFor, Go, RInv, OInv, IInv, TypedTasks
<1>4. Aimed(t)'
  BY <1>1, <1>2, <1>3 DEF Aimed, Aiming
<1> QED BY <1>t, <1>e, <1>1, <1>4, HolderRecords

LEMMA ExitAmendsRecords ==
  ASSUME RInv, NoLostAnswers, NEW t \in Sig, ExitAmends(t)
  PROVE  Recorded'
<1>t. t \in Task /\ pc[t] \in Label /\ loc[t] \in Locals /\ life \in Life
  BY Bounds DEF RInv, OInv, IInv, TypedTasks, TypedBooks
<1>e. Elsewhere(t)
  BY <1>t DEF ExitAmends, Finish, Done, Go, ReserveFor, Elsewhere, RInv, OInv, IInv, TypedTasks
<1>h. lock = t /\ pc[t] = "amend" /\ loc[t].id = life.stop.id /\ loc[t].id \in StopId
  BY <1>t DEF ExitAmends, At, RInv, Recorded, OInv, IInv, TypedTasks, Located, Holding, Aimed, Aiming, Named, AtVenue
<1> DEFINE q == LeftBy(ledger, loc[t].want)
<1>l. q \in Nat
  BY <1>t, <1>h DEF RInv, OInv, IInv, TypedTasks, TypedBooks, Located, LeftBy, Locals, Arbiter!Ledger
<1>1. PICK id \in -1..MaxStops :
        /\ VenueReplace(loc[t].id, q, id)
        /\ IF id > 0
           THEN life' = [life EXCEPT !.stop.id = id, !.stop.qty = q] /\ Go(t, "submit")
           ELSE Go(t, "cancel") /\ UNCHANGED <<life, loc>>
  BY DEF ExitAmends, ReserveFor
<1> HIDE DEF q
<1>2. CASE id > 0
  <2>1. /\ id \in StopId /\ vstop' = Replaced(loc[t].id, q, id)
        /\ Rests(loc[t].id) /\ (id = loc[t].id \/ vstop[id].st = "none")
    BY <1>h, <1>l, <1>1, <1>2, ReplaceAnswers
  <2>2. AtVenue(id)' /\ vstop'[id].qty = q
    BY <1>h, <2>1 DEF Replaced, Rests, AtVenue, RInv, OInv, IInv, TypedVenue, StopOrder
  <2>3. life'.stop.id = id /\ life'.stop.qty = q /\ id # 0
    <3>1. life' = [life EXCEPT !.stop.id = id, !.stop.qty = q]
      BY <1>1, <1>2
    <3>2. id # 0
      BY <1>2
    <3>3. [life EXCEPT !.stop.id = id, !.stop.qty = q].stop.id = id /\ [life EXCEPT !.stop.id = id, !.stop.qty = q].stop.qty = q
      BY <1>t DEF Life, Stop
    <3> QED BY <3>1, <3>2, <3>3
  <2>4. pc'[t] = "submit"
    BY <1>t, <1>1, <1>2 DEF Go, RInv, OInv, IInv, TypedTasks
  <2>5. Named' /\ Aimed(t)'
    BY <2>2, <2>3, <2>4 DEF Named, Aimed, Aiming
  <2> QED BY <1>t, <1>e, <1>h, <2>5, HolderRecords
<1>3. CASE ~(id > 0)
  <2>1. UNCHANGED <<vstop, life, loc>>
    BY <1>h, <1>l, <1>1, <1>3, ReplaceAnswers
  <2>2. pc'[t] = "cancel"
    BY <1>t, <1>1, <1>3 DEF Go, RInv, OInv, IInv, TypedTasks
  <2>3. Named' /\ Aimed(t)'
    BY <1>t, <1>h, <2>1, <2>2 DEF RInv, Recorded, Named, AtVenue, Aimed, Aiming
  <2> QED BY <1>t, <1>e, <1>h, <2>3, HolderRecords
<1> QED BY <1>2, <1>3

LEMMA ExitCancelsRecords ==
  ASSUME RInv, NoLostAnswers, NEW t \in Sig, ExitCancels(t)
  PROVE  Recorded'
<1>t. t \in Task /\ pc[t] \in Label /\ loc[t] \in Locals /\ life \in Life
  BY Bounds DEF RInv, OInv, IInv, TypedTasks, TypedBooks
<1>e. Elsewhere(t)
  BY <1>t DEF ExitCancels, Finish, Done, Go, ReserveFor, Elsewhere, RInv, OInv, IInv, TypedTasks
<1>h. lock = t /\ pc[t] = "cancel" /\ loc[t].id = life.stop.id /\ loc[t].id \in StopId
  BY <1>t DEF ExitCancels, At, RInv, Recorded, OInv, IInv, TypedTasks, Located, Holding, Aimed, Aiming, Named, AtVenue
<1>1. PICK ans \in BOOLEAN :
        /\ VenueCancel(loc[t].id, ans)
        /\ IF ans THEN life' = [life EXCEPT !.stop.status = "unprotected", !.stop.id = 0] /\ Go(t, "submit") ELSE Done(t) /\ UNCHANGED life
  BY DEF ExitCancels, ReserveFor
<1>a. loc[t].id \in Nat
  BY <1>h, Bounds DEF StopId
<1>2. CASE ans
  <2>1. life'.stop.id = 0 /\ life'.stop.status # "confirmed"
    <3>1. life' = [life EXCEPT !.stop.status = "unprotected", !.stop.id = 0]
      BY <1>1, <1>2
    <3>2. [life EXCEPT !.stop.status = "unprotected", !.stop.id = 0].stop.id = 0 /\ [life EXCEPT !.stop.status = "unprotected", !.stop.id = 0].stop.status # "confirmed"
      BY <1>t DEF Life, Stop, Placing
    <3> QED BY <3>1, <3>2
  <2>p. pc'[t] = "submit"
    BY <1>t, <1>1, <1>2 DEF Go, RInv, OInv, IInv, TypedTasks
  <2>2. Named' /\ Aimed(t)'
    BY <2>1, <2>p DEF Named, Aimed, Aiming
  <2> QED BY <1>t, <1>e, <1>h, <2>2, HolderRecords
<1>3. CASE ~ans
  <2>1. vstop' = vstop
    BY <1>a, <1>1, <1>3, CancelAnswers
  <2>2. pc'[t] = "idle" /\ life' = life
    BY <1>t, <1>1, <1>3 DEF Done, RInv, OInv, IInv, TypedTasks
  <2> QED BY <1>t, <1>e, <2>1, <2>2, OthersRecord DEF Aiming
<1> QED BY <1>2, <1>3

LEMMA RepriceCancelsRecords ==
  ASSUME RInv, NoLostAnswers, NEW t \in Task, RepriceCancels(t)
  PROVE  Recorded'
<1>t. t \in Task /\ pc[t] \in Label /\ loc[t] \in Locals /\ life \in Life
  BY Bounds DEF RInv, OInv, IInv, TypedTasks, TypedBooks
<1>e. Elsewhere(t)
  BY <1>t DEF RepriceCancels, Finish, Done, Go, ReserveFor, Elsewhere, RInv, OInv, IInv, TypedTasks
<1>h. lock = t /\ pc[t] = "recancel" /\ loc[t].id = life.stop.id /\ loc[t].id \in StopId
  BY <1>t DEF RepriceCancels, At, RInv, Recorded, OInv, IInv, TypedTasks, Located, Holding, Aimed, Aiming, Named, AtVenue
<1>1. PICK ans \in BOOLEAN :
        /\ VenueCancel(loc[t].id, ans)
        /\ IF ans THEN life' = Placing([life EXCEPT !.stop.id = 0]) /\ Go(t, "place") ELSE Done(t) /\ UNCHANGED life
  BY DEF RepriceCancels, ReserveFor
<1>a. loc[t].id \in Nat
  BY <1>h, Bounds DEF StopId
<1>2. CASE ans
  <2>1. life'.stop.id = 0 /\ life'.stop.status # "confirmed"
    <3>1. life' = Placing([life EXCEPT !.stop.id = 0])
      BY <1>1, <1>2
    <3>2. Placing([life EXCEPT !.stop.id = 0]).stop.id = 0 /\ Placing([life EXCEPT !.stop.id = 0]).stop.status # "confirmed"
      BY <1>t DEF Life, Stop, Placing
    <3> QED BY <3>1, <3>2
  <2>p. pc'[t] = "place"
    BY <1>t, <1>1, <1>2 DEF Go, RInv, OInv, IInv, TypedTasks
  <2>2. Named' /\ Aimed(t)'
    BY <2>1, <2>p DEF Named, Aimed, Aiming
  <2> QED BY <1>t, <1>e, <1>h, <2>2, HolderRecords
<1>3. CASE ~ans
  <2>1. vstop' = vstop
    BY <1>a, <1>1, <1>3, CancelAnswers
  <2>2. pc'[t] = "idle" /\ life' = life
    BY <1>t, <1>1, <1>3 DEF Done, RInv, OInv, IInv, TypedTasks
  <2> QED BY <1>t, <1>e, <2>1, <2>2, OthersRecord DEF Aiming
<1> QED BY <1>2, <1>3

LEMMA ExitAnsweredRecords ==
  ASSUME RInv, NoLostAnswers, NEW t \in Sig, ExitAnswered(t)
  PROVE  Recorded'
<1>t. t \in Task /\ pc[t] \in Label /\ loc[t] \in Locals /\ life \in Life
  BY Bounds DEF RInv, OInv, IInv, TypedTasks, TypedBooks
<1> DEFINE lf == [life EXCEPT !.owned = ledger'.owned]
<1>1. ledger' \in Arbiter!Ledger
  BY ExitAnsweredStep DEF RInv, OInv, IInv, TypedBooks
<1>2. lf \in Life /\ lf.stop = life.stop
  BY <1>t, <1>1, StartTyped DEF Life, Arbiter!Ledger
<1>3. AfterSettlement(t, lf, loc[t].stopped, loc[t].amended) /\ vstop' = vstop
  BY DEF ExitAnswered, venue
<1>4. lock \in {t, NoTask}
  BY <1>t DEF ExitAnswered, At, RInv, OInv, IInv, TypedTasks, Located, Holding
<1> HIDE DEF lf
<1> QED BY <1>t, <1>2, <1>3, <1>4, AfterRecords

LEMMA ResolveFinalRecords ==
  ASSUME RInv, NoLostAnswers, NEW t \in Rec, ResolveFinal(t)
  PROVE  Recorded'
<1>t. t \in Task /\ pc[t] \in Label /\ loc[t] \in Locals /\ life \in Life
  BY Bounds DEF RInv, OInv, IInv, TypedTasks, TypedBooks
<1> DEFINE lf == [life EXCEPT !.owned = ledger'.owned, !.pending = NoPending]
<1>1. ledger' \in Arbiter!Ledger
  BY ResolveFinalStep DEF RInv, OInv, IInv, TypedBooks
<1>2. lf \in Life /\ lf.stop = life.stop
  BY <1>t, <1>1, StartTyped DEF Life, Arbiter!Ledger
<1>3. AfterSettlement(t, lf, TRUE, life.pending.amended) /\ vstop' = vstop
  BY DEF ResolveFinal, venue
<1>4. lock \in {t, NoTask}
  BY <1>t DEF ResolveFinal, At, RInv, OInv, IInv, TypedTasks, Located, Holding
<1> HIDE DEF lf
<1> QED BY <1>t, <1>2, <1>3, <1>4, AfterRecords

LEMMA AdoptionRejectedRecords ==
  ASSUME RInv, NoLostAnswers, NEW t \in Task, AdoptionRejected(t)
  PROVE  Recorded'
<1>t. t \in Task /\ pc[t] \in Label /\ loc[t] \in Locals /\ life \in Life
  BY Bounds DEF RInv, OInv, IInv, TypedTasks, TypedBooks
<1>e. Elsewhere(t)
  BY <1>t DEF AdoptionRejected, Finish, Done, Go, ReserveFor, Elsewhere, RInv, OInv, IInv, TypedTasks
<1>1. /\ life'.stop.id = life.stop.id /\ life'.stop.status = "unprotected" /\ vstop' = vstop
      /\ lock = t /\ pc'[t] = "idle"
  BY <1>t DEF AdoptionRejected, Finish, Done, Unprotected, Life, Stop, venue, At, RInv, OInv, IInv, TypedTasks, Located, Holding
<1>2. Named' /\ Aimed(t)'
  BY <1>1 DEF RInv, Recorded, Named, AtVenue, Aimed, Aiming
<1> QED BY <1>t, <1>e, <1>1, <1>2, HolderRecords

LEMMA OrderStopRecords ==
  ASSUME RInv, NoLostAnswers, NEW t \in Task, OrderStop(t)
  PROVE  Recorded'
<1>t. t \in Task /\ pc[t] \in Label /\ loc[t] \in Locals /\ life \in Life
  BY Bounds DEF RInv, OInv, IInv, TypedTasks, TypedBooks
<1>e. Elsewhere(t)
  BY <1>t DEF OrderStop, Finish, Done, Go, ReserveFor, Elsewhere, RInv, OInv, IInv, TypedTasks
<1>1. PICK s \in StopId :
        /\ vstop[s].st = "none"
        /\ vstop' = [vstop EXCEPT ![s] = [st |-> "resting", qty |-> loc[t].target]]
        /\ loc'[t].id = s /\ loc'[t].target = loc[t].target
  BY <1>t, Fresh, Undisturbed DEF OrderStop, RInv, OInv, IInv, TypedTasks, StopId, Locals
<1>2. lock = t /\ UNCHANGED life /\ pc'[t] = "ordered"
  BY <1>t DEF OrderStop, Go, At, RInv, OInv, IInv, TypedTasks, Located, Holding
<1>v. vstop'[s] = [st |-> "resting", qty |-> loc[t].target] /\ \A x \in StopId \ {s} : vstop'[x] = vstop[x]
  BY <1>1 DEF RInv, OInv, IInv, TypedVenue
<1>3. vstop'[s].st = "resting" /\ vstop'[s].qty = loc[t].target
  BY <1>1, <1>v
<1>4. Named'
  <2>1. \A x : AtVenue(x) => x # s
    BY <1>1 DEF AtVenue
  <2>3. \A x : AtVenue(x) => AtVenue(x)' /\ vstop'[x].qty = vstop[x].qty
    BY <1>v, <2>1 DEF AtVenue
  <2>2. life.stop.status = "confirmed" => life.stop.id # 0
    BY DEF RInv, Recorded, Named
  <2> QED BY <1>2, <2>3, <2>2 DEF RInv, Recorded, Named
<1>5. Aimed(t)'
  <2>1. AtVenue(loc[t].id)' /\ vstop'[loc'[t].id].qty = loc'[t].target
    <3>1. loc'[t].id \in StopId /\ vstop'[loc'[t].id].st = "resting" /\ vstop'[loc'[t].id].qty = loc'[t].target
      BY <1>1, <1>3
    <3> QED BY <3>1 DEF AtVenue
  <2> QED BY <1>2, <2>1 DEF Aimed, Aiming, AtVenue
<1> QED BY <1>t, <1>e, <1>2, <1>4, <1>5, HolderRecords

LEMMA StopOrderedRecords ==
  ASSUME RInv, NoLostAnswers, NEW t \in Task, StopOrdered(t)
  PROVE  Recorded'
<1>t. t \in Task /\ pc[t] \in Label /\ loc[t] \in Locals /\ life \in Life
  BY Bounds DEF RInv, OInv, IInv, TypedTasks, TypedBooks
<1>e. Elsewhere(t)
  BY <1>t DEF StopOrdered, Finish, Done, Go, ReserveFor, Elsewhere, RInv, OInv, IInv, TypedTasks
<1>1. AtVenue(loc[t].id) /\ vstop[loc[t].id].qty = loc[t].target /\ lock = t
  BY <1>t DEF StopOrdered, At, RInv, Recorded, Aimed, OInv, IInv, TypedTasks, Located, Holding
<1>2. life'.stop = [status |-> "confirmed", id |-> loc[t].id, qty |-> loc[t].target] /\ vstop' = vstop
  BY <1>t, <1>1, Bounds DEF StopOrdered, Covered, venue, AtVenue, StopId, Life
<1>3. pc'[t] = "idle"
  BY <1>t DEF StopOrdered, Finish, Done, RInv, OInv, IInv, TypedTasks
<1>4. Named' /\ Aimed(t)'
  BY <1>1, <1>2, <1>3, Bounds DEF Named, AtVenue, StopId, Aimed, Aiming
<1> QED BY <1>t, <1>e, <1>1, <1>4, HolderRecords

(* No broker call raises.                                                    *)
LEMMA BrokerCallRaisesNever ==
  ASSUME RInv, NoLostAnswers, NEW t \in Task
  PROVE  ~BrokerCallRaises(t)
<1>1. ~Fault /\ Aimed(t)
  BY Undisturbed DEF RInv, Recorded
<1>2. 0 \notin StopId
  BY Bounds DEF StopId
<1> QED BY <1>1, <1>2 DEF BrokerCallRaises, At, Aimed, AtVenue

LEMMA RestoreCoverageRecords ==
  ASSUME RInv, NoLostAnswers, NEW t \in Task, RestoreCoverage(t)
  PROVE  Recorded'
<1>t. t \in Task /\ pc[t] \in Label /\ loc[t] \in Locals /\ life \in Life
  BY Bounds DEF RInv, OInv, IInv, TypedTasks, TypedBooks
<1>e. Elsewhere(t)
  BY <1>t DEF RestoreCoverage, Finish, Done, Go, ReserveFor, Elsewhere, RInv, OInv, IInv, TypedTasks
<1>h. lock = t /\ pc[t] = "restore" /\ loc[t].id = life.stop.id /\ loc[t].id \in StopId
  BY <1>t DEF RestoreCoverage, At, RInv, Recorded, OInv, IInv, TypedTasks, Located, Holding, Aimed, Aiming, Named, AtVenue
<1>a. loc[t].target \in Nat
  BY <1>t DEF Locals
<1>1. PICK id \in -1..MaxStops :
        /\ VenueReplace(loc[t].id, loc[t].target, id)
        /\ life' = IF id > 0 THEN [life EXCEPT !.stop.id = id, !.stop.qty = loc[t].target] ELSE life
        /\ \/ Done(t)
           \/ id = 0 /\ UNCHANGED loc /\ Go(t, "recancel")
  BY DEF RestoreCoverage, Finish
<1>2. Named'
  <2>1. CASE id > 0
    <3>1. /\ id \in StopId /\ vstop' = Replaced(loc[t].id, loc[t].target, id)
          /\ Rests(loc[t].id) /\ (id = loc[t].id \/ vstop[id].st = "none")
      BY <1>a, <1>h, <1>1, <2>1, ReplaceAnswers
    <3>2. AtVenue(id)' /\ vstop'[id].qty = loc[t].target
      BY <1>h, <3>1 DEF Replaced, Rests, AtVenue, RInv, OInv, IInv, TypedVenue, StopOrder
    <3>3. life'.stop.id = id /\ life'.stop.qty = loc[t].target /\ id # 0
      <4>1. life' = [life EXCEPT !.stop.id = id, !.stop.qty = loc[t].target]
        BY <1>1, <2>1
      <4>2. [life EXCEPT !.stop.id = id, !.stop.qty = loc[t].target].stop.id = id /\ [life EXCEPT !.stop.id = id, !.stop.qty = loc[t].target].stop.qty = loc[t].target
        BY <1>t DEF Life, Stop
      <4> QED BY <2>1, <4>1, <4>2
    <3> QED BY <3>2, <3>3 DEF Named
  <2>2. CASE ~(id > 0)
    BY <1>a, <1>h, <1>1, <2>2, ReplaceAnswers DEF RInv, Recorded, Named, AtVenue
  <2> QED BY <2>1, <2>2
<1>3. Aimed(t)'
  <2>1. CASE Done(t)
    BY <1>t, <2>1 DEF Done, Aimed, Aiming, RInv, OInv, IInv, TypedTasks
  <2>2. CASE id = 0 /\ UNCHANGED loc /\ Go(t, "recancel")
    <3>1. pc'[t] = "recancel" /\ loc' = loc /\ life' = life
      BY <1>t, <1>1, <2>2 DEF Go, RInv, OInv, IInv, TypedTasks
    <3> QED BY <1>t, <1>h, <3>1 DEF RInv, Recorded, Aimed, Aiming
  <2> QED BY <1>1, <2>1, <2>2
<1> QED BY <1>t, <1>e, <1>h, <1>2, <1>3, HolderRecords

LEMMA RepriceReplacesRecords ==
  ASSUME RInv, NoLostAnswers, NEW t \in Task, RepriceReplaces(t)
  PROVE  Recorded'
<1>t. t \in Task /\ pc[t] \in Label /\ loc[t] \in Locals /\ life \in Life
  BY Bounds DEF RInv, OInv, IInv, TypedTasks, TypedBooks
<1>e. Elsewhere(t)
  BY <1>t DEF RepriceReplaces, Finish, Done, Go, ReserveFor, Elsewhere, RInv, OInv, IInv, TypedTasks
<1>h. lock = t /\ pc[t] = "resize" /\ loc[t].id = life.stop.id /\ loc[t].id \in StopId
  BY <1>t DEF RepriceReplaces, At, RInv, Recorded, OInv, IInv, TypedTasks, Located, Holding, Aimed, Aiming, Named, AtVenue
<1>a. loc[t].target \in Nat
  BY <1>t DEF Locals
<1>1. PICK id \in -1..MaxStops :
        /\ VenueReplace(loc[t].id, loc[t].target, id)
        /\ life' = IF id > 0 THEN [life EXCEPT !.stop.id = id, !.stop.qty = loc[t].target] ELSE life
        /\ \/ Done(t)
           \/ id = 0 /\ UNCHANGED loc /\ Go(t, "recancel")
  BY DEF RepriceReplaces, Finish
<1>2. Named'
  <2>1. CASE id > 0
    <3>1. /\ id \in StopId /\ vstop' = Replaced(loc[t].id, loc[t].target, id)
          /\ Rests(loc[t].id) /\ (id = loc[t].id \/ vstop[id].st = "none")
      BY <1>a, <1>h, <1>1, <2>1, ReplaceAnswers
    <3>2. AtVenue(id)' /\ vstop'[id].qty = loc[t].target
      BY <1>h, <3>1 DEF Replaced, Rests, AtVenue, RInv, OInv, IInv, TypedVenue, StopOrder
    <3>3. life'.stop.id = id /\ life'.stop.qty = loc[t].target /\ id # 0
      <4>1. life' = [life EXCEPT !.stop.id = id, !.stop.qty = loc[t].target]
        BY <1>1, <2>1
      <4>2. [life EXCEPT !.stop.id = id, !.stop.qty = loc[t].target].stop.id = id /\ [life EXCEPT !.stop.id = id, !.stop.qty = loc[t].target].stop.qty = loc[t].target
        BY <1>t DEF Life, Stop
      <4> QED BY <2>1, <4>1, <4>2
    <3> QED BY <3>2, <3>3 DEF Named
  <2>2. CASE ~(id > 0)
    BY <1>a, <1>h, <1>1, <2>2, ReplaceAnswers DEF RInv, Recorded, Named, AtVenue
  <2> QED BY <2>1, <2>2
<1>3. Aimed(t)'
  <2>1. CASE Done(t)
    BY <1>t, <2>1 DEF Done, Aimed, Aiming, RInv, OInv, IInv, TypedTasks
  <2>2. CASE id = 0 /\ UNCHANGED loc /\ Go(t, "recancel")
    <3>1. pc'[t] = "recancel" /\ loc' = loc /\ life' = life
      BY <1>t, <1>1, <2>2 DEF Go, RInv, OInv, IInv, TypedTasks
    <3> QED BY <1>t, <1>h, <3>1 DEF RInv, Recorded, Aimed, Aiming
  <2> QED BY <1>1, <2>1, <2>2
<1> QED BY <1>t, <1>e, <1>h, <1>2, <1>3, HolderRecords

LEMMA RepriceBeginsRecords ==
  ASSUME RInv, NoLostAnswers, NEW t \in Task, RepriceBegins(t)
  PROVE  Recorded'
<1>t. t \in Task /\ pc[t] \in Label /\ loc[t] \in Locals /\ life \in Life
  BY Bounds DEF RInv, OInv, IInv, TypedTasks, TypedBooks
<1>e. Elsewhere(t)
  BY <1>t DEF RepriceBegins, Finish, Done, Go, ReserveFor, Elsewhere, RInv, OInv, IInv, TypedTasks
<1>0. lock = NoTask /\ vstop' = vstop
  BY DEF RepriceBegins, venue
<1>1. CASE ledger.owned <= 0
  <2>1. pc'[t] = "idle" /\ life' = life
    BY <1>t, <1>1 DEF RepriceBegins, Done, RInv, OInv, IInv, TypedTasks
  <2> QED BY <1>t, <1>e, <1>0, <2>1, OthersRecord DEF Aiming
<1>2. CASE ~(ledger.owned <= 0)
  <2>1. loc'[t].id = life.stop.id
    BY <1>t, <1>2 DEF RepriceBegins, RInv, OInv, IInv, TypedTasks, Locals
  <2>2. CASE life.stop.id # 0
    <3>1. life' = life /\ pc'[t] = "resize"
      BY <1>t, <1>2, <2>2 DEF RepriceBegins, Go, RInv, OInv, IInv, TypedTasks
    <3>2. Named' /\ Aimed(t)'
      BY <1>0, <2>1, <2>2, <3>1 DEF RInv, Recorded, Named, AtVenue, Aimed, Aiming
    <3> QED BY <1>t, <1>e, <1>0, <3>2, HolderRecords
  <2>3. CASE life.stop.id = 0
    <3>1. life'.stop.id = 0 /\ life'.stop.status = "pending" /\ pc'[t] = "place"
      BY <1>t, <1>2, <2>3 DEF RepriceBegins, Go, Placing, Life, Stop, RInv, OInv, IInv, TypedTasks
    <3>2. Named' /\ Aimed(t)'
      BY <3>1 DEF Named, Aimed, Aiming
    <3> QED BY <1>t, <1>e, <1>0, <3>2, HolderRecords
  <2> QED BY <2>2, <2>3
<1> QED BY <1>1, <1>2

(* RInv is inductive.                                                        *)
LEMMA NextRInv == RInv /\ [Next]_vars => RInv'
<1> SUFFICES ASSUME RInv, [Next]_vars PROVE RInv'
  OBVIOUS
<1>0. OInv' /\ env'.may = env.may
  BY NextOInv, SettingStays DEF RInv, OInv
<1> SUFFICES ASSUME NoLostAnswers PROVE Recorded'
  BY <1>0 DEF RInv, NoLostAnswers, NoCallFails
<1>b. Blind /\ Orderly /\ ~PriceTick /\ ~CrashAndRestart
  BY Undisturbed DEF RInv
<1>1. ASSUME NEW s \in Sig, NEW q, ExitBegins(s, q) PROVE Recorded'
  BY <1>1, ExitBeginsRecords
<1>2. ASSUME NEW s \in Sig, Entering(s) \/ ExitProceeds(s) \/ Ratchet(s)
      PROVE  Recorded'
  BY <1>2, StartPlanRecords, EntryFillsRecords, OnEntryFillRecords, ExitAmendsRecords, ExitCancelsRecords,
     ExitSubmitsRecords, ExitUnresolvedRecords, ExitAnsweredRecords, RatchetRecords
  DEF Entering, ExitProceeds
<1>3. ASSUME NEW t \in Task, PlacingStop(t) \/ Restoring(t) \/ Repricing(t) \/ OnStopFilled(t)
      PROVE  Recorded'
  BY <1>b, <1>3, AdoptionFindsNothingRecords, AdoptionRejectedRecords, AdoptionFilledRecords,
     OrderStopRecords, StopOrderedRecords, BrokerCallRaisesNever, RestoreCoverageRecords,
     RepriceBeginsRecords, RepriceReplacesRecords, RepriceCancelsRecords, NothingIsRead
  DEF PlacingStop, Restoring, Repricing, RInv
<1>4. ASSUME NEW r \in Rec, Resolving(r) \/ RetryUnprotected(r) \/ ReconcilingPosition(r)
      PROVE  Recorded'
  BY <1>b, <1>4, PollExitRecords, NothingToResolveRecords, ResolvePartialRecords, ResolveFinalRecords,
     RetryUnprotectedRecords, NothingIsRead
  DEF Resolving, RInv
<1>5. ASSUME NEW s \in StopId, StopTriggers(s) PROVE Recorded'
  <2>1. UNCHANGED <<life, pc, loc>> /\ \A x : AtVenue(x) => AtVenue(x)' /\ vstop'[x].qty = vstop[x].qty
    BY <1>5 DEF StopTriggers, AtVenue, RInv, OInv, IInv, TypedVenue, StopOrder
  <2> QED BY <2>1 DEF RInv, Recorded, Named, Aimed
<1>6. CASE UNCHANGED <<vstop, life, pc, loc>>
  BY <1>6 DEF RInv, Recorded, Named, Aimed, AtVenue
<1> QED BY <1>b, <1>1, <1>2, <1>3, <1>4, <1>5, <1>6 DEF Next, Venue, ExitEnds, ExitProgresses, vars, venue

(* Where every answer of the broker arrives, a StopRecord says CONFIRMED     *)
(* only of an order that rests at the venue, or has just filled there, under *)
(* the id and the quantity it names: so what the retry loop skips as         *)
(* protected is protected.                                                   *)
THEOREM RecordsTrue == Spec => []Truthful
<1>1. Init => RInv
  <2> SUFFICES ASSUME Init PROVE Recorded
    BY InitOInv DEF RInv
  <2> QED BY DEF Init, Recorded, Named, Aimed, NoLife, NoStop, Aiming
<1>2. RInv => Truthful
  BY DEF RInv, Recorded, Truthful, Named, AtVenue
<1> QED BY <1>1, <1>2, NextRInv, PTL DEF Spec
=============================================================================
