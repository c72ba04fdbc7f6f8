---------------------- MODULE PositionLifecycleProofs -----------------------
(* Proofs about one position, first part: the types, where each task stands  *)
(* with the arbiter's lock (IInv), and that what is in memory reaches the    *)
(* row before the lock is free (SInv).  The theorems hold for every set of   *)
(* tasks, every setting and every bound.                                     *)
EXTENDS PositionLifecycle, FiniteSetTheorems, WellFoundedInduction, TLAPS

(* The labels under the arbiter's lock, and all labels.                      *)
Holding == {"place", "order", "ordered", "amend", "cancel", "submit", "answered",
            "restore", "resize", "recancel"}
Label == Holding \cup {"idle", "entry", "bought", "stopfill", "resolve", "reprice",
                       "read", "adopt", "pollstop", "fit"}

(* The types.                                                                *)
StopOrder == [st : {"none", "resting", "filled", "cancelled", "replaced"}, qty : Nat]
ExitOrder == [st : {"none", "working", "done"}, qty : Nat, filled : Nat]
Stop == [status : {"unprotected", "pending", "confirmed"}, id : 0..MaxStops, qty : Nat]
PendingRecord == [st : {"none", "id", "noid"}, id : 0..MaxExits,
                  requested : Nat, confirmed : Nat, amended : BOOLEAN]
Pending == {p \in PendingRecord : p.st = "id" => p.id \in ExitId}
Life == [st : {"none", "open", "closed"}, owned : Int, stop : Stop, pending : Pending]
Row == [life : Life, ledger : Arbiter!Ledger]
Locals == [want : Nat, stopped : BOOLEAN, amended : BOOLEAN, target : Nat,
           ans : {"none", "id", "noid", "terminal", "PENDING", "ERROR", "partial", "final"},
           id : Nat, seen : Nat]
Env == [may : Setting, did : [entries : Nat, faults : Nat, ratchets : Nat, crashes : Nat]]

TypedVenue ==
  /\ held \in Int
  /\ vstop \in [StopId -> StopOrder]
  /\ vexit \in [ExitId -> ExitOrder]
TypedBooks ==
  /\ ledger \in Arbiter!Ledger
  /\ life \in Life
  /\ row \in Row /\ row.life.st # "closed"
  /\ stopRows \subseteq StopId
(* Where a task is, so is the lock, and so are its locals.                   *)
Located(t) ==
  /\ pc[t] \in Holding => lock = t
  /\ pc[t] = "amend" => loc[t].want <= ledger.owned
  /\ pc[t] = "ordered" => loc[t].id \in 0..MaxStops
  /\ pc[t] = "answered" => loc[t].id \in ExitId
  /\ pc[t] = "pollstop" => loc[t].id \in StopId
TypedTasks ==
  /\ lock \in Task \cup {NoTask}
  /\ pc \in [Task -> Label] /\ loc \in [Task -> Locals]
  /\ \A t \in Task : Located(t)
IInv == TypedVenue /\ TypedBooks /\ TypedTasks /\ env \in Env

-----------------------------------------------------------------------------
(* What the assumption on the constants says, in the form it is cited.       *)
LEMMA Bounds ==
  /\ MaxStops \in Nat /\ MaxExits \in Nat /\ MaxLot \in Nat /\ MaxEntries \in Nat
  /\ NoTask \notin Task /\ Sig \subseteq Task /\ Rec \subseteq Task
  /\ \A w \in Setting : /\ w.lot \in Nat \ {0} /\ w.stops \in 0..MaxStops /\ w.exits \in 0..MaxExits
                        /\ w.faults \in Nat /\ w.crashes \in Nat /\ w.ratchets \in Nat
                        /\ w.entries \in 0..MaxEntries /\ w.lot <= MaxLot
                        /\ w.tasks \subseteq Task
BY ConstantsAssumption DEF SettingType, Task

(* A set of naturals that is not empty has a least element, hence Min and    *)
(* Max are in their sets.                                                    *)
LEMMA Least ==
  ASSUME NEW S, S # {}, S \subseteq Nat
  PROVE  \E k \in S : \A j \in S : k <= j
<1> DEFINE R == OpToRel(<, Nat)
<1>1. PICK k \in S : \A j \in S : ~(<<j, k>> \in R)
  <2>1. IsWellFoundedOn(R, Nat)
    BY NatLessThanWellFounded
  <2> HIDE DEF R
  <2> QED BY <2>1, WFMin
<1>2. ASSUME NEW j \in S, ~(k <= j) PROVE FALSE
  <2>1. <<j, k>> \in Nat \X Nat /\ j < k
    BY <1>2
  <2>2. <<j, k>> \in R
    BY <2>1 DEF OpToRel
  <2> QED BY <1>1, <2>2
<1> QED BY <1>2

LEMMA MinOf ==
  ASSUME NEW S, S # {}, S \subseteq Nat
  PROVE  Min(S) \in S
BY Least DEF Min

LEMMA MaxOf ==
  ASSUME NEW S, S # {}, NEW n \in Nat, S \subseteq 0..n
  PROVE  Max(S) \in S
<1> DEFINE T == {n - j : j \in S}
<1>1. T # {} /\ T \subseteq Nat
  <2>1. \A j \in S : n - j \in Nat
    OBVIOUS
  <2> QED BY <2>1
<1>2. PICK x \in T : \A y \in T : x <= y
  <2> HIDE DEF T
  <2> QED BY <1>1, Least
<1>3. PICK k \in S : x = n - k
  OBVIOUS
<1>4. \A j \in S : n - j \in T
  OBVIOUS
<1>5. \A j \in S : k >= j
  BY <1>2, <1>3, <1>4
<1> QED BY <1>5 DEF Max

(* The least of two numbers.                                                 *)
LEMMA MinOfTwo ==
  ASSUME NEW a \in Int, NEW b \in Int
  PROVE  Min({a, b}) = IF a <= b THEN a ELSE b
<1> DEFINE m == IF a <= b THEN a ELSE b
<1>1. m \in {a, b} /\ \A y \in {a, b} : m <= y
  OBVIOUS
<1>2. \A x \in {a, b} : (\A y \in {a, b} : x <= y) => x = m
  OBVIOUS
<1> QED BY <1>1, <1>2 DEF Min

(* The arbiter's operations keep a ledger a ledger.                          *)
LEMMA LedgerTyped ==
  ASSUME NEW l \in Arbiter!Ledger, NEW q \in Nat, NEW f \in Nat
  PROVE  /\ Arbiter!ReserveIn(l, q) \in Arbiter!Ledger
         /\ Arbiter!SettleIn(l, q, f) \in Arbiter!Ledger
         /\ Arbiter!SetOwnedIn(l, q) \in Arbiter!Ledger
         /\ Arbiter!Available(l) \in Nat
<1>1. \A m \in Arbiter!Ledger : Arbiter!CheckInvariant(m) \in Arbiter!Ledger
  BY DEF Arbiter!Ledger, Arbiter!CheckInvariant
<1>2. l.owned \in Int /\ l.reserved \in Nat
  BY DEF Arbiter!Ledger
<1>3. [l EXCEPT !.reserved = @ + q] \in Arbiter!Ledger
  BY <1>2 DEF Arbiter!Ledger
<1>4. [l EXCEPT !.reserved = Arbiter!AtLeastZero(@ - q), !.owned = @ - f] \in Arbiter!Ledger
  <2>1. Arbiter!AtLeastZero(l.reserved - q) \in Nat /\ l.owned - f \in Int
    BY <1>2 DEF Arbiter!AtLeastZero
  <2> QED BY <2>1 DEF Arbiter!Ledger
<1>5. Arbiter!Available(l) \in Nat
  BY <1>2 DEF Arbiter!Available, Arbiter!AtLeastZero
<1>6. Arbiter!ReserveIn(l, q) \in Arbiter!Ledger
  BY <1>1, <1>3 DEF Arbiter!ReserveIn
<1>7. Arbiter!SettleIn(l, q, f) \in Arbiter!Ledger
  BY <1>1, <1>4 DEF Arbiter!SettleIn
<1>8. Arbiter!SetOwnedIn(l, q) \in Arbiter!Ledger
  BY DEF Arbiter!SetOwnedIn, Arbiter!Ledger
<1> QED BY <1>5, <1>6, <1>7, <1>8

(* The records everything starts from are records of their types, and so are *)
(* their parts.                                                              *)
LEMMA StartTyped ==
  /\ NoLife \in Life /\ Arbiter!NewLedger \in Arbiter!Ledger /\ NoLocals \in Locals
  /\ NoRow \in Row /\ NoRow.life.st # "closed"
  /\ NoStop \in Stop /\ NoPending \in Pending
BY Bounds DEF NoLife, Life, NoStop, Stop, NoPending, Pending, PendingRecord, Arbiter!NewLedger, NoRow, Row,
   Arbiter!Ledger, NoLocals, Locals

LEMMA LifeParts ==
  ASSUME NEW lf \in Life
  PROVE  /\ lf.stop \in Stop /\ lf.pending \in Pending /\ lf.owned \in Int
         /\ lf.stop.id \in 0..MaxStops /\ lf.stop.id \in Nat /\ lf.stop.qty \in Nat
         /\ lf.pending.st \in {"none", "id", "noid"}
         /\ lf.pending.requested \in Nat /\ lf.pending.confirmed \in Nat
BY Bounds DEF Life, Stop, Pending, PendingRecord

(* The edits the handlers make to the stop of a lifecycle keep it a          *)
(* lifecycle.                                                                *)
LEMMA StopEdits ==
  ASSUME NEW lf \in Life
  PROVE  /\ \A id \in 0..MaxStops, q \in Nat :
              [lf EXCEPT !.stop.id = id, !.stop.qty = q] \in Life
         /\ [lf EXCEPT !.stop.status = "unprotected", !.stop.id = 0] \in Life
         /\ Placing([lf EXCEPT !.stop.id = 0]) \in Life
         /\ \A f \in Nat : StopAfter(lf, f) \in Life
<1>z. 0 \in 0..MaxStops
  BY Bounds
<1>1. ASSUME NEW id \in 0..MaxStops, NEW q \in Nat
      PROVE  [lf EXCEPT !.stop.id = id, !.stop.qty = q] \in Life
  <2>1. [lf.stop EXCEPT !.id = id, !.qty = q] \in Stop
    BY LifeParts DEF Stop
  <2>2. [lf EXCEPT !.stop.id = id, !.stop.qty = q] = [lf EXCEPT !.stop = [lf.stop EXCEPT !.id = id, !.qty = q]]
    OBVIOUS
  <2> QED BY <2>1, <2>2 DEF Life
<1>2. [lf EXCEPT !.stop.status = "unprotected", !.stop.id = 0] \in Life
  <2>1. [lf.stop EXCEPT !.status = "unprotected", !.id = 0] \in Stop
    BY <1>z, LifeParts DEF Stop
  <2>2. [lf EXCEPT !.stop.status = "unprotected", !.stop.id = 0]
          = [lf EXCEPT !.stop = [lf.stop EXCEPT !.status = "unprotected", !.id = 0]]
    OBVIOUS
  <2> QED BY <2>1, <2>2 DEF Life
<1>3. Placing([lf EXCEPT !.stop.id = 0]) \in Life
  <2>1. [lf.stop EXCEPT !.id = 0, !.status = "pending"] \in Stop
    BY <1>z, LifeParts DEF Stop
  <2>2. Placing([lf EXCEPT !.stop.id = 0])
          = [lf EXCEPT !.stop = [lf.stop EXCEPT !.id = 0, !.status = "pending"]]
    BY DEF Placing
  <2> QED BY <2>1, <2>2 DEF Life
<1>4. ASSUME NEW f \in Nat PROVE StopAfter(lf, f) \in Life
  <2>1. ~(lf.stop.qty <= f) => [lf.stop EXCEPT !.qty = @ - f] \in Stop
    <3>1. ~(lf.stop.qty <= f) => lf.stop.qty - f \in Nat
      BY LifeParts
    <3> QED BY <3>1, LifeParts DEF Stop
  <2>2. [lf EXCEPT !.stop.qty = @ - f] = [lf EXCEPT !.stop = [lf.stop EXCEPT !.qty = @ - f]]
    OBVIOUS
  <2>3. [lf EXCEPT !.st = "closed", !.stop = NoStop] \in Life /\ [lf EXCEPT !.stop = NoStop] \in Life
    BY StartTyped DEF Life
  <2>4. ~(lf.stop.qty <= f) => [lf EXCEPT !.stop.qty = @ - f] \in Life
    BY <2>1, <2>2 DEF Life
  <2> QED BY <2>3, <2>4 DEF StopAfter
<1> QED BY <1>1, <1>2, <1>3, <1>4

(* A row that is written is a row.                                           *)
LEMMA RowTyped ==
  ASSUME life' \in Life, ledger' \in Arbiter!Ledger, Persist
  PROVE  row' \in Row /\ row'.life.st # "closed"
BY StartTyped DEF Persist, RowOf, Row

(* What holds at the start.                                                  *)
LEMMA InitIInv == Init => IInv
<1> SUFFICES ASSUME Init PROVE IInv
  OBVIOUS
<1>1. TypedVenue /\ TypedBooks
  BY StartTyped DEF Init, TypedVenue, TypedBooks, StopOrder, ExitOrder
<1>2. TypedTasks
  BY StartTyped DEF Init, TypedTasks, Located, Holding, Label
<1>3. env \in Env
  BY DEF Init, Env
<1> QED BY <1>1, <1>2, <1>3 DEF IInv

-----------------------------------------------------------------------------
(* A task that is done, one that goes on to a label, and one that does so    *)
(* with its locals unchanged keep the tasks typed and the lock with its      *)
(* holder.                                                                   *)
LEMMA Ends ==
  ASSUME IInv, NEW t \in Task, Done(t), ledger' = ledger \/ lock \in {t, NoTask}
  PROVE  TypedTasks'
BY StartTyped, Bounds DEF IInv, TypedTasks, TypedBooks, Done, Located, Holding, Label

LEMMA Goes ==
  ASSUME IInv, NEW t \in Task, NEW label \in Label, NEW m \in Locals,
         pc' = [pc EXCEPT ![t] = label], loc' = [loc EXCEPT ![t] = m],
         lock' = lock \/ (lock = NoTask /\ lock' = t),
         ledger' = ledger \/ lock \in {t, NoTask},
         label \in Holding => lock' = t,
         label = "amend" => m.want <= ledger'.owned,
         label = "ordered" => m.id \in 0..MaxStops,
         label = "answered" => m.id \in ExitId,
         label = "pollstop" => m.id \in StopId
  PROVE  TypedTasks'
<1> SUFFICES ASSUME NEW u \in Task PROVE Located(u)'
  BY DEF IInv, TypedTasks
<1>1. CASE u = t
  BY <1>1 DEF IInv, TypedTasks, Located
<1>2. CASE u # t
  BY <1>2, Bounds DEF IInv, TypedTasks, Located, Holding
<1> QED BY <1>1, <1>2

LEMMA Stays ==
  ASSUME IInv, NEW t \in Task, NEW label \in Label,
         pc' = [pc EXCEPT ![t] = label], UNCHANGED loc,
         lock' = lock \/ (lock = NoTask /\ lock' = t),
         ledger' = ledger \/ lock \in {t, NoTask},
         label \in Holding => lock' = t,
         label = "amend" => loc[t].want <= ledger'.owned,
         label = "ordered" => loc[t].id \in 0..MaxStops,
         label = "answered" => loc[t].id \in ExitId,
         label = "pollstop" => loc[t].id \in StopId
  PROVE  TypedTasks'
<1>1. loc' = [loc EXCEPT ![t] = loc[t]] /\ loc[t] \in Locals
  BY DEF IInv, TypedTasks
<1> QED BY <1>1, Goes

(* The end of a settlement keeps everything typed.                           *)
LEMMA AfterTyped ==
  ASSUME IInv, NEW t \in Task, NEW lf \in Life, NEW restore, NEW amended,
         AfterSettlement(t, lf, restore, amended),
         ledger' \in Arbiter!Ledger, lock \in {t, NoTask}
  PROVE  /\ life' \in Life /\ row' \in Row /\ row'.life.st # "closed"
         /\ stopRows' \subseteq StopId /\ TypedTasks'
<1>0. t \in Task /\ pc[t] \in Label /\ loc[t] \in Locals
  BY DEF IInv, TypedTasks
<1>1. CASE Flat(lf) \/ ~restore
  <2>1. life' \in Life /\ Finish(t) /\ UNCHANGED stopRows
    BY <1>1 DEF AfterSettlement, Life
  <2> QED BY <2>1, RowTyped, Ends DEF Finish, IInv, TypedBooks
<1>2. CASE ~Flat(lf) /\ restore
  <2> DEFINE m == [loc[t] EXCEPT !.target = lf.owned, !.id = lf.stop.id]
  <2>1. m \in Locals
    <3>1. lf.owned \in Nat /\ lf.stop.id \in Nat
      BY <1>2, LifeParts DEF Flat
    <3> QED BY <1>0, <3>1 DEF Locals
  <2>2. life' \in Life
    BY <1>2 DEF AfterSettlement, Placing, Life, Stop
  <2>3. PICK label \in {"restore", "place"} :
          loc' = [loc EXCEPT ![t] = m] /\ pc' = [pc EXCEPT ![t] = label]
    BY <1>0, <1>2 DEF AfterSettlement, Go, IInv, TypedTasks
  <2>4. lock' = t /\ UNCHANGED durable
    BY <1>2 DEF AfterSettlement
  <2> HIDE DEF m
  <2>5. TypedTasks'
    BY <1>0, <2>1, <2>3, <2>4, Goes DEF Label, Holding
  <2> QED BY <2>2, <2>4, <2>5 DEF durable, IInv, TypedBooks
<1> QED BY <1>1, <1>2

(* A fault is counted and changes nothing of the setting.                    *)
LEMMA FaultTyped ==
  ASSUME IInv, Fault PROVE env' \in Env /\ env'.may = env.may
BY DEF IInv, Env, Fault

(* A fresh order number is one nothing has used.                             *)
LEMMA Fresh ==
  ASSUME IInv
  PROVE  /\ FreshStops # {} => Min(FreshStops) \in 1..MaxStops /\ vstop[Min(FreshStops)].st = "none"
         /\ FreshExits # {} => Min(FreshExits) \in ExitId /\ vexit[Min(FreshExits)].st = "none"
<1>1. env.may \in Setting
  BY DEF IInv, Env
<1>2. FreshStops \subseteq 1..MaxStops /\ FreshExits \subseteq 1..MaxExits
  BY <1>1, Bounds DEF FreshStops, FreshExits
<1>n. FreshStops \subseteq Nat /\ FreshExits \subseteq Nat
  BY <1>2
<1>3. FreshStops # {} => Min(FreshStops) \in FreshStops
  BY <1>n, MinOf
<1>4. FreshExits # {} => Min(FreshExits) \in FreshExits
  BY <1>n, MinOf
<1> QED BY <1>2, <1>3, <1>4 DEF FreshStops, FreshExits, ExitId

(* What the venue does to a stop keeps its orders typed.                     *)
LEMMA ReplaceTyped ==
  ASSUME IInv, NEW s \in Nat, NEW q \in Nat, NEW id, VenueReplace(s, q, id)
  PROVE  /\ vstop' \in [StopId -> StopOrder] /\ env' \in Env /\ env'.may = env.may
<1>1. \A i : Replaced(s, q, i) \in [StopId -> StopOrder]
  BY DEF IInv, TypedVenue, Replaced, StopOrder
<1> QED BY <1>1, FaultTyped DEF VenueReplace, IInv, TypedVenue

LEMMA CancelTyped ==
  ASSUME IInv, NEW s \in Nat, NEW ans, VenueCancel(s, ans)
  PROVE  /\ vstop' \in [StopId -> StopOrder] /\ env' \in Env /\ env'.may = env.may
<1>1. [vstop EXCEPT ![s].st = "cancelled"] \in [StopId -> StopOrder]
  BY DEF IInv, TypedVenue, StopOrder
<1> QED BY <1>1, FaultTyped DEF VenueCancel, IInv, TypedVenue

(* Every action keeps IInv, one lemma each: what it writes is typed, and the *)
(* lock is where the label says.                                             *)
LEMMA StartPlanStep ==
  ASSUME IInv, NEW t \in Sig, StartPlan(t)
  PROVE  IInv'
<1>0. t \in Task /\ pc[t] \in Label /\ loc[t] \in Locals
  BY Bounds DEF IInv, TypedTasks
<1>1. TypedVenue'
  BY <1>0, Fresh, Bounds DEF StartPlan, IInv, TypedVenue, venue, StopOrder, ExitOrder, Env, Locals
<1>2. TypedBooks'
  BY <1>0, StartTyped, RowTyped, Bounds DEF StartPlan, IInv, TypedBooks, durable, Finish, Life, Stop, Pending, PendingRecord, Locals, Env, Placing, Unprotected
<1>3. TypedTasks'
  BY <1>0, StartTyped, Ends, Goes, Stays, Bounds DEF StartPlan, Go, At, Idle, Finish, IInv, TypedTasks, Label, Holding, Located
<1>4. env' \in Env
  BY FaultTyped DEF StartPlan, IInv, Env
<1> QED BY <1>1, <1>2, <1>3, <1>4 DEF IInv

LEMMA EntryFillsStep ==
  ASSUME IInv, NEW t \in Sig, EntryFills(t)
  PROVE  IInv'
<1>0. t \in Task /\ pc[t] \in Label /\ loc[t] \in Locals
  BY Bounds DEF IInv, TypedTasks
<1>1. TypedVenue'
  BY <1>0, Fresh, Bounds DEF EntryFills, IInv, TypedVenue, venue, StopOrder, ExitOrder, Env, Locals
<1>2. TypedBooks'
  BY <1>0, StartTyped, RowTyped, Bounds DEF EntryFills, IInv, TypedBooks, durable, Finish, Life, Stop, Pending, PendingRecord, Locals, Env, Placing, Unprotected
<1>3. TypedTasks'
  BY <1>0, StartTyped, Ends, Goes, Stays, Bounds DEF EntryFills, Go, At, Idle, Finish, IInv, TypedTasks, Label, Holding, Located
<1>4. env' \in Env
  BY FaultTyped DEF EntryFills, IInv, Env
<1> QED BY <1>1, <1>2, <1>3, <1>4 DEF IInv

LEMMA OnEntryFillStep ==
  ASSUME IInv, NEW t \in Sig, OnEntryFill(t)
  PROVE  IInv'
<1>0. t \in Task /\ pc[t] \in Label /\ loc[t] \in Locals
  BY Bounds DEF IInv, TypedTasks
<1>l. env.may.lot \in Nat /\ env.may.lot \in Int
  BY Bounds DEF IInv, Env
<1>1. TypedVenue'
  BY <1>0, Fresh, Bounds DEF OnEntryFill, IInv, TypedVenue, venue, StopOrder, ExitOrder, Env, Locals
<1>2. TypedBooks'
  <2>1. ledger' \in Arbiter!Ledger
    BY <1>l, LedgerTyped DEF OnEntryFill, IInv, TypedBooks
  <2>2. life' \in Life
    BY <1>l DEF OnEntryFill, Placing, IInv, TypedBooks, Life, Stop
  <2> QED BY <2>1, <2>2 DEF OnEntryFill, IInv, TypedBooks, durable
<1>3. TypedTasks'
  <2> DEFINE m == [loc[t] EXCEPT !.target = env.may.lot]
  <2>1. m \in Locals
    BY <1>0, <1>l DEF Locals, IInv, TypedVenue, TypedBooks, Env, Life, Pending, PendingRecord, Stop
  <2>2. loc' = [loc EXCEPT ![t] = m] /\ pc' = [pc EXCEPT ![t] = "place"]
    BY <1>0 DEF OnEntryFill, Go, IInv, TypedTasks
  <2> HIDE DEF m
  <2> QED BY <1>0, <2>1, <2>2, Goes DEF OnEntryFill, Label, Holding
<1>4. env' \in Env
  BY FaultTyped DEF OnEntryFill, IInv, Env
<1> QED BY <1>1, <1>2, <1>3, <1>4 DEF IInv

LEMMA ExitAmendsStep ==
  ASSUME IInv, NEW t \in Sig, ExitAmends(t)
  PROVE  IInv'
<1>0. t \in Task /\ pc[t] \in Label /\ loc[t] \in Locals
  BY Bounds DEF IInv, TypedTasks
<1>p. PICK id \in -1..MaxStops :
       /\ VenueReplace(loc[t].id, LeftBy(ledger, loc[t].want), id)
       /\ IF id > 0
          THEN /\ life' = [life EXCEPT !.stop.id = id, !.stop.qty = LeftBy(ledger, loc[t].want)]
               /\ loc' = [loc EXCEPT ![t].amended = TRUE]
               /\ ReserveFor(t, loc[t].want)
          ELSE Go(t, "cancel") /\ UNCHANGED <<ledger, life, loc>>
  BY DEF ExitAmends
<1>q. /\ LeftBy(ledger, loc[t].want) \in Nat /\ loc[t].id \in Nat /\ loc[t].want \in Nat
      /\ lock = t
  BY <1>0 DEF ExitAmends, At, LeftBy, IInv, TypedTasks, TypedBooks, Located, Holding, Locals, Arbiter!Ledger
<1>r. vstop' \in [StopId -> StopOrder] /\ env' \in Env
  BY <1>p, <1>q, ReplaceTyped
<1>1. TypedVenue'
  BY <1>r DEF ExitAmends, IInv, TypedVenue
<1>2. TypedBooks'
  <2>1. ledger' \in Arbiter!Ledger
    BY <1>p, <1>q, LedgerTyped DEF ReserveFor, IInv, TypedBooks
  <2>2. life' \in Life
    <3>1. CASE id > 0
      <4>1. id \in 0..MaxStops
        BY <3>1, Bounds
      <4>2. life' = [life EXCEPT !.stop.id = id, !.stop.qty = LeftBy(ledger, loc[t].want)]
        BY <1>p, <3>1
      <4> QED BY <1>q, <4>1, <4>2, StopEdits DEF IInv, TypedBooks
    <3>2. CASE ~(id > 0)
      BY <1>p, <3>2 DEF IInv, TypedBooks
    <3> QED BY <3>1, <3>2
  <2> QED BY <2>1, <2>2 DEF ExitAmends, IInv, TypedBooks, durable
<1>3. TypedTasks'
  <2> DEFINE m == [loc[t] EXCEPT !.amended = TRUE]
  <2>1. m \in Locals
    BY <1>0 DEF Locals
  <2>2. CASE id > 0
    <3>1. loc' = [loc EXCEPT ![t] = m] /\ pc' = [pc EXCEPT ![t] = "submit"] /\ UNCHANGED lock
      BY <1>0, <1>p, <2>2 DEF ExitAmends, ReserveFor, Go, IInv, TypedTasks
    <3> HIDE DEF m
    <3> QED BY <1>0, <1>q, <2>1, <3>1, Goes DEF Label, Holding
  <2>3. CASE ~(id > 0)
    BY <1>0, <1>p, <1>q, <2>3, Stays DEF ExitAmends, Go, Label, Holding
  <2> QED BY <2>2, <2>3
<1>4. env' \in Env
  BY <1>r
<1> QED BY <1>1, <1>2, <1>3, <1>4 DEF IInv

LEMMA ExitCancelsStep ==
  ASSUME IInv, NEW t \in Sig, ExitCancels(t)
  PROVE  IInv'
<1>0. t \in Task /\ pc[t] \in Label /\ loc[t] \in Locals
  BY Bounds DEF IInv, TypedTasks
<1>p. PICK ans \in BOOLEAN :
       /\ VenueCancel(loc[t].id, ans)
       /\ IF ans
          THEN /\ life' = [life EXCEPT !.stop.status = "unprotected", !.stop.id = 0]
               /\ ReserveFor(t, loc[t].want)
               /\ UNCHANGED <<lock, loc>>
          ELSE Done(t) /\ UNCHANGED <<ledger, life>>
  BY DEF ExitCancels
<1>q. /\ loc[t].id \in Nat /\ loc[t].want \in Nat /\ lock = t
  BY <1>0 DEF ExitCancels, At, IInv, TypedTasks, Located, Holding, Locals
<1>r. vstop' \in [StopId -> StopOrder] /\ env' \in Env
  BY <1>p, <1>q, CancelTyped
<1>1. TypedVenue'
  BY <1>r DEF ExitCancels, IInv, TypedVenue
<1>2. TypedBooks'
  <2>1. ledger' \in Arbiter!Ledger
    BY <1>p, <1>q, LedgerTyped DEF ReserveFor, IInv, TypedBooks
  <2>2. life' \in Life
    BY <1>p, StopEdits DEF IInv, TypedBooks
  <2> QED BY <2>1, <2>2 DEF ExitCancels, IInv, TypedBooks, durable
<1>3. TypedTasks'
  <2>1. CASE ans
    BY <1>0, <1>p, <1>q, <2>1, Stays DEF ReserveFor, Go, Label, Holding
  <2>2. CASE ~ans
    BY <1>0, <1>p, <2>2, Ends
  <2> QED BY <2>1, <2>2
<1>4. env' \in Env
  BY <1>r
<1> QED BY <1>1, <1>2, <1>3, <1>4 DEF IInv

LEMMA ExitSubmitsStep ==
  ASSUME IInv, NEW t \in Sig, ExitSubmits(t)
  PROVE  IInv'
<1>0. t \in Task /\ pc[t] \in Label /\ loc[t] \in Locals
  BY Bounds DEF IInv, TypedTasks
<1>1. TypedVenue'
  BY <1>0, Fresh, Bounds DEF ExitSubmits, IInv, TypedVenue, venue, StopOrder, ExitOrder, Env, Locals
<1>2. TypedBooks'
  BY <1>0, StartTyped, RowTyped, Bounds DEF ExitSubmits, IInv, TypedBooks, durable, Finish, Life, Stop, Pending, PendingRecord, Locals, Env, Placing, Unprotected
<1>3. TypedTasks'
  <2>1. PICK a \in {"terminal", "PENDING", "ERROR"} :
          loc' = [loc EXCEPT ![t].ans = a, ![t].id = Min(FreshExits)]
    BY DEF ExitSubmits
  <2>2. Min(FreshExits) \in ExitId /\ Min(FreshExits) \in Nat
    BY Fresh DEF ExitSubmits, ExitId
  <2> DEFINE m == [loc[t] EXCEPT !.ans = a, !.id = Min(FreshExits)]
  <2>3. m \in Locals /\ m.id \in ExitId
    BY <1>0, <2>2 DEF Locals
  <2>4. loc' = [loc EXCEPT ![t] = m] /\ pc' = [pc EXCEPT ![t] = "answered"]
    BY <1>0, <2>1 DEF ExitSubmits, Go, IInv, TypedTasks
  <2>5. lock' = t /\ UNCHANGED <<lock, ledger>>
    BY <1>0 DEF ExitSubmits, At, IInv, TypedTasks, Located, Holding
  <2> HIDE DEF m
  <2> QED BY <1>0, <2>3, <2>4, <2>5, Goes DEF Label, Holding
<1>4. env' \in Env
  BY FaultTyped DEF ExitSubmits, IInv, Env
<1> QED BY <1>1, <1>2, <1>3, <1>4 DEF IInv

LEMMA ExitUnresolvedStep ==
  ASSUME IInv, NEW t \in Sig, ExitUnresolved(t)
  PROVE  IInv'
<1>0. t \in Task /\ pc[t] \in Label /\ loc[t] \in Locals
  BY Bounds DEF IInv, TypedTasks
<1>1. TypedVenue'
  BY <1>0, Fresh, Bounds DEF ExitUnresolved, IInv, TypedVenue, venue, StopOrder, ExitOrder, Env, Locals
<1>2. TypedBooks'
  <2>1. PendingExit(t) \in Pending
    <3>1. loc[t].id \in ExitId /\ loc[t].id \in 0..MaxExits
      BY <1>0, Bounds DEF ExitUnresolved, At, IInv, TypedTasks, Located, ExitId
    <3>2. loc[t].want \in Nat /\ loc[t].amended \in BOOLEAN
      BY <1>0 DEF Locals
    <3>3. 0 \in 0..MaxExits
      BY Bounds
    <3> QED BY <3>1, <3>2, <3>3 DEF PendingExit, Pending, PendingRecord, PendingRecord
  <2>2. life' \in Life
    BY <2>1 DEF ExitUnresolved, IInv, TypedBooks, Life
  <2> QED BY <2>2, RowTyped DEF ExitUnresolved, Finish, IInv, TypedBooks
<1>3. TypedTasks'
  BY <1>0, StartTyped, Ends, Goes, Stays, Bounds DEF ExitUnresolved, Go, At, Idle, Finish, IInv, TypedTasks, Label, Holding, Located
<1>4. env' \in Env
  BY FaultTyped DEF ExitUnresolved, IInv, Env
<1> QED BY <1>1, <1>2, <1>3, <1>4 DEF IInv

LEMMA ExitAnsweredStep ==
  ASSUME IInv, NEW t \in Sig, ExitAnswered(t)
  PROVE  IInv'
<1>0. t \in Task /\ pc[t] \in Label /\ loc[t] \in Locals
  BY Bounds DEF IInv, TypedTasks
<1>l. ledger' \in Arbiter!Ledger
  <2>1. loc[t].want \in Nat /\ vexit[loc[t].id].filled \in Nat
    BY <1>0 DEF ExitAnswered, At, IInv, TypedTasks, TypedVenue, Located, Locals, ExitOrder
  <2> QED BY <2>1, LedgerTyped DEF ExitAnswered, IInv, TypedBooks
<1>m. [life EXCEPT !.owned = ledger'.owned] \in Life
  BY <1>l DEF IInv, TypedBooks, Life, Arbiter!Ledger
<1>s. /\ life' \in Life /\ row' \in Row /\ row'.life.st # "closed"
      /\ stopRows' \subseteq StopId /\ TypedTasks'
  <2>1. lock = t
    BY <1>0 DEF ExitAnswered, At, IInv, TypedTasks, Located, Holding
  <2> QED BY <1>0, <1>l, <1>m, <2>1, AfterTyped DEF ExitAnswered
<1>1. TypedVenue'
  BY <1>0, Fresh, Bounds DEF ExitAnswered, IInv, TypedVenue, venue, StopOrder, ExitOrder, Env, Locals
<1>2. TypedBooks'
  BY <1>l, <1>s DEF TypedBooks
<1>3. TypedTasks'
  BY <1>s
<1>4. env' \in Env
  BY FaultTyped DEF ExitAnswered, IInv, Env
<1> QED BY <1>1, <1>2, <1>3, <1>4 DEF IInv

LEMMA RatchetStep ==
  ASSUME IInv, NEW t \in Sig, Ratchet(t)
  PROVE  IInv'
<1>0. t \in Task /\ pc[t] \in Label /\ loc[t] \in Locals
  BY Bounds DEF IInv, TypedTasks
<1>1. TypedVenue'
  BY <1>0, Fresh, Bounds DEF Ratchet, IInv, TypedVenue, venue, StopOrder, ExitOrder, Env, Locals
<1>2. TypedBooks'
  BY <1>0, StartTyped, RowTyped, Bounds DEF Ratchet, IInv, TypedBooks, durable, Finish, Life, Stop, Pending, PendingRecord, Locals, Env, Placing, Unprotected
<1>3. TypedTasks'
  BY <1>0, StartTyped, Ends, Goes, Stays, Bounds DEF Ratchet, Go, At, Idle, Finish, IInv, TypedTasks, Label, Holding, Located
<1>4. env' \in Env
  BY FaultTyped DEF Ratchet, IInv, Env
<1> QED BY <1>1, <1>2, <1>3, <1>4 DEF IInv

LEMMA AdoptionFindsNothingStep ==
  ASSUME IInv, NEW t \in Task, AdoptionFindsNothing(t)
  PROVE  IInv'
<1>0. t \in Task /\ pc[t] \in Label /\ loc[t] \in Locals
  BY Bounds DEF IInv, TypedTasks
<1>1. TypedVenue'
  BY <1>0, Fresh, Bounds DEF AdoptionFindsNothing, IInv, TypedVenue, venue, StopOrder, ExitOrder, Env, Locals
<1>2. TypedBooks'
  BY <1>0, StartTyped, RowTyped, Bounds DEF AdoptionFindsNothing, IInv, TypedBooks, durable, Finish, Life, Stop, Pending, PendingRecord, Locals, Env, Placing, Unprotected
<1>3. TypedTasks'
  BY <1>0, StartTyped, Ends, Goes, Stays, Bounds DEF AdoptionFindsNothing, Go, At, Idle, Finish, IInv, TypedTasks, Label, Holding, Located
<1>4. env' \in Env
  BY FaultTyped DEF AdoptionFindsNothing, IInv, Env
<1> QED BY <1>1, <1>2, <1>3, <1>4 DEF IInv

LEMMA AdoptionRejectedStep ==
  ASSUME IInv, NEW t \in Task, AdoptionRejected(t)
  PROVE  IInv'
<1>0. t \in Task /\ pc[t] \in Label /\ loc[t] \in Locals
  BY Bounds DEF IInv, TypedTasks
<1>1. TypedVenue'
  BY <1>0, Fresh, Bounds DEF AdoptionRejected, IInv, TypedVenue, venue, StopOrder, ExitOrder, Env, Locals
<1>2. TypedBooks'
  BY <1>0, StartTyped, RowTyped, Bounds DEF AdoptionRejected, IInv, TypedBooks, durable, Finish, Life, Stop, Pending, PendingRecord, Locals, Env, Placing, Unprotected
<1>3. TypedTasks'
  BY <1>0, StartTyped, Ends, Goes, Stays, Bounds DEF AdoptionRejected, Go, At, Idle, Finish, IInv, TypedTasks, Label, Holding, Located
<1>4. env' \in Env
  BY FaultTyped DEF AdoptionRejected, IInv, Env
<1> QED BY <1>1, <1>2, <1>3, <1>4 DEF IInv

LEMMA AdoptionFilledStep ==
  ASSUME IInv, NEW t \in Task, AdoptionFilled(t)
  PROVE  IInv'
<1>0. t \in Task /\ pc[t] \in Label /\ loc[t] \in Locals
  BY Bounds DEF IInv, TypedTasks
<1>a. Max(Answering) \in StopId
  <2>1. Answering \subseteq 0..MaxStops /\ Answering \subseteq StopId
    <3>1. StopId \subseteq 0..MaxStops
      BY Bounds DEF StopId
    <3> QED BY <3>1 DEF Answering, IInv, TypedBooks
  <2>2. Answering # {}
    BY DEF AdoptionFilled
  <2>3. Max(Answering) \in Answering
    BY <2>1, <2>2, MaxOf, Bounds
  <2> QED BY <2>1, <2>3
<1>1. TypedVenue'
  BY <1>0, Fresh, Bounds DEF AdoptionFilled, IInv, TypedVenue, venue, StopOrder, ExitOrder, Env, Locals
<1>2. TypedBooks'
  BY <1>0, StartTyped, RowTyped, Bounds DEF AdoptionFilled, IInv, TypedBooks, durable, Finish, Life, Stop, Pending, PendingRecord, Locals, Env, Placing, Unprotected
<1>3. TypedTasks'
  <2> DEFINE m == [loc[t] EXCEPT !.seen = vstop[Max(Answering)].qty]
  <2>1. m \in Locals
    BY <1>0, <1>a DEF Locals, IInv, TypedVenue, TypedBooks, Env, Life, Pending, PendingRecord, Stop, StopOrder
  <2>2. loc' = [loc EXCEPT ![t] = m] /\ pc' = [pc EXCEPT ![t] = "stopfill"]
    BY <1>0 DEF AdoptionFilled, Go, IInv, TypedTasks
  <2> HIDE DEF m
  <2> QED BY <1>0, <2>1, <2>2, Goes DEF AdoptionFilled, Label, Holding
<1>4. env' \in Env
  BY FaultTyped DEF AdoptionFilled, IInv, Env
<1> QED BY <1>1, <1>2, <1>3, <1>4 DEF IInv

LEMMA OrderStopStep ==
  ASSUME IInv, NEW t \in Task, OrderStop(t)
  PROVE  IInv'
<1>0. t \in Task /\ pc[t] \in Label /\ loc[t] \in Locals
  BY Bounds DEF IInv, TypedTasks
<1>f. Min(FreshStops) \in 1..MaxStops
  BY Fresh DEF OrderStop
<1>g. loc[t].target \in Nat
  BY <1>0 DEF Locals
<1>1. TypedVenue'
  <2>1. [vstop EXCEPT ![Min(FreshStops)] = [st |-> "resting", qty |-> loc[t].target]]
          \in [StopId -> StopOrder]
    BY <1>g DEF IInv, TypedVenue, StopOrder
  <2> QED BY <2>1 DEF OrderStop, IInv, TypedVenue
<1>2. TypedBooks'
  BY <1>0, StartTyped, RowTyped, Bounds DEF OrderStop, IInv, TypedBooks, durable, Finish, Life, Stop, Pending, PendingRecord, Locals, Env, Placing, Unprotected
<1>3. TypedTasks'
  <2>1. PICK i \in 0..MaxStops : loc' = [loc EXCEPT ![t].id = i]
    BY <1>f, Bounds DEF OrderStop
  <2> DEFINE m == [loc[t] EXCEPT !.id = i]
  <2>2. m \in Locals /\ m.id \in 0..MaxStops
    BY <1>0, <2>1 DEF Locals
  <2>3. loc' = [loc EXCEPT ![t] = m] /\ pc' = [pc EXCEPT ![t] = "ordered"]
    BY <1>0, <2>1 DEF OrderStop, Go, IInv, TypedTasks
  <2>4. lock' = t /\ UNCHANGED <<lock, ledger>>
    BY <1>0 DEF OrderStop, At, IInv, TypedTasks, Located, Holding
  <2> HIDE DEF m
  <2> QED BY <1>0, <2>2, <2>3, <2>4, Goes DEF Label, Holding
<1>4. env' \in Env
  BY FaultTyped DEF OrderStop, IInv, Env
<1> QED BY <1>1, <1>2, <1>3, <1>4 DEF IInv

LEMMA StopOrderedStep ==
  ASSUME IInv, NEW t \in Task, StopOrdered(t)
  PROVE  IInv'
<1>0. t \in Task /\ pc[t] \in Label /\ loc[t] \in Locals
  BY Bounds DEF IInv, TypedTasks
<1>1. TypedVenue'
  BY <1>0, Fresh, Bounds DEF StopOrdered, IInv, TypedVenue, venue, StopOrder, ExitOrder, Env, Locals
<1>2. TypedBooks'
  <2>1. loc[t].id \in 0..MaxStops /\ loc[t].target \in Nat
    BY <1>0 DEF StopOrdered, At, IInv, TypedTasks, Located, Locals
  <2>2. life' \in Life
    BY <2>1 DEF StopOrdered, Unprotected, Covered, IInv, TypedBooks, Life, Stop
  <2>3. stopRows' \subseteq StopId
    BY <2>1 DEF StopOrdered, IInv, TypedBooks, StopId
  <2> QED BY <2>2, <2>3, RowTyped DEF StopOrdered, Finish, IInv, TypedBooks
<1>3. TypedTasks'
  BY <1>0, StartTyped, Ends, Goes, Stays, Bounds DEF StopOrdered, Go, At, Idle, Finish, IInv, TypedTasks, Label, Holding, Located
<1>4. env' \in Env
  BY FaultTyped DEF StopOrdered, IInv, Env
<1> QED BY <1>1, <1>2, <1>3, <1>4 DEF IInv

LEMMA BrokerCallRaisesStep ==
  ASSUME IInv, NEW t \in Task, BrokerCallRaises(t)
  PROVE  IInv'
<1>0. t \in Task /\ pc[t] \in Label /\ loc[t] \in Locals
  BY Bounds DEF IInv, TypedTasks
<1>1. TypedVenue'
  BY <1>0, Fresh, Bounds DEF BrokerCallRaises, IInv, TypedVenue, venue, StopOrder, ExitOrder, Env, Locals
<1>2. TypedBooks'
  BY <1>0, StartTyped, RowTyped, Bounds DEF BrokerCallRaises, IInv, TypedBooks, durable, Finish, Life, Stop, Pending, PendingRecord, Locals, Env, Placing, Unprotected
<1>3. TypedTasks'
  BY <1>0, StartTyped, Ends, Goes, Stays, Bounds DEF BrokerCallRaises, Go, At, Idle, Finish, IInv, TypedTasks, Label, Holding, Located
<1>4. env' \in Env
  BY FaultTyped DEF BrokerCallRaises, IInv, Env
<1> QED BY <1>1, <1>2, <1>3, <1>4 DEF IInv

LEMMA RestoreCoverageStep ==
  ASSUME IInv, NEW t \in Task, RestoreCoverage(t)
  PROVE  IInv'
<1>0. t \in Task /\ pc[t] \in Label /\ loc[t] \in Locals
  BY Bounds DEF IInv, TypedTasks
<1>p. PICK id \in -1..MaxStops :
       /\ VenueReplace(loc[t].id, loc[t].target, id)
       /\ life' = IF id > 0 THEN [life EXCEPT !.stop.id = id, !.stop.qty = loc[t].target] ELSE life
  BY DEF RestoreCoverage
<1>q. loc[t].target \in Nat /\ loc[t].id \in Nat /\ lock = t
  BY <1>0 DEF RestoreCoverage, At, IInv, TypedTasks, Located, Holding, Locals
<1>r. vstop' \in [StopId -> StopOrder] /\ env' \in Env
  BY <1>p, <1>q, ReplaceTyped
<1>l. life' \in Life
  <2>1. id > 0 => id \in 0..MaxStops
    BY Bounds
  <2> QED BY <1>p, <1>q, <2>1, StopEdits DEF IInv, TypedBooks
<1>1. TypedVenue'
  BY <1>r DEF RestoreCoverage, IInv, TypedVenue
<1>2. TypedBooks'
  BY <1>l, RowTyped DEF RestoreCoverage, Finish, IInv, TypedBooks
<1>3. TypedTasks'
  BY <1>0, StartTyped, Ends, Goes, Stays, Bounds DEF RestoreCoverage, Go, At, Idle, Finish, IInv, TypedTasks, Label, Holding, Located
<1>4. env' \in Env
  BY <1>r
<1> QED BY <1>1, <1>2, <1>3, <1>4 DEF IInv

LEMMA RepriceBeginsStep ==
  ASSUME IInv, NEW t \in Task, RepriceBegins(t)
  PROVE  IInv'
<1>0. t \in Task /\ pc[t] \in Label /\ loc[t] \in Locals
  BY Bounds DEF IInv, TypedTasks
<1>1. TypedVenue'
  BY <1>0, Fresh, Bounds DEF RepriceBegins, IInv, TypedVenue, venue, StopOrder, ExitOrder, Env, Locals
<1>2. TypedBooks'
  BY <1>0, StartTyped, RowTyped, Bounds DEF RepriceBegins, IInv, TypedBooks, durable, Finish, Life, Stop, Pending, PendingRecord, Locals, Env, Placing, Unprotected
<1>3. TypedTasks'
  <2> DEFINE m == [loc[t] EXCEPT !.target = ledger.owned, !.id = life.stop.id]
  <2>1. CASE ledger.owned <= 0
    BY <1>0, <2>1, Ends DEF RepriceBegins
  <2>2. CASE ~(ledger.owned <= 0)
    <3>1. m \in Locals
      <4>1. ledger.owned \in Nat /\ life.stop.id \in Nat
        BY <2>2, LifeParts DEF IInv, TypedBooks, Arbiter!Ledger
      <4> QED BY <1>0, <4>1 DEF Locals
    <3>2. PICK label \in {"resize", "place"} :
            loc' = [loc EXCEPT ![t] = m] /\ pc' = [pc EXCEPT ![t] = label]
      BY <1>0, <2>2 DEF RepriceBegins, Go, IInv, TypedTasks
    <3> HIDE DEF m
    <3> QED BY <1>0, <2>2, <3>1, <3>2, Goes DEF RepriceBegins, Label, Holding
  <2> QED BY <2>1, <2>2
<1>4. env' \in Env
  BY FaultTyped DEF RepriceBegins, IInv, Env
<1> QED BY <1>1, <1>2, <1>3, <1>4 DEF IInv

LEMMA RepriceReplacesStep ==
  ASSUME IInv, NEW t \in Task, RepriceReplaces(t)
  PROVE  IInv'
<1>0. t \in Task /\ pc[t] \in Label /\ loc[t] \in Locals
  BY Bounds DEF IInv, TypedTasks
<1>p. PICK id \in -1..MaxStops :
       /\ VenueReplace(loc[t].id, loc[t].target, id)
       /\ life' = IF id > 0 THEN [life EXCEPT !.stop.id = id, !.stop.qty = loc[t].target] ELSE life
       /\ UNCHANGED ledger
       /\ IF id = 0 THEN Go(t, "recancel") /\ UNCHANGED <<lock, loc, row>> ELSE Finish(t)
  BY DEF RepriceReplaces
<1>q. loc[t].target \in Nat /\ loc[t].id \in Nat /\ lock = t
  BY <1>0 DEF RepriceReplaces, At, IInv, TypedTasks, Located, Holding, Locals
<1>r. vstop' \in [StopId -> StopOrder] /\ env' \in Env
  BY <1>p, <1>q, ReplaceTyped
<1>l. life' \in Life
  <2>1. id > 0 => id \in 0..MaxStops
    BY Bounds
  <2> QED BY <1>p, <1>q, <2>1, StopEdits DEF IInv, TypedBooks
<1>1. TypedVenue'
  BY <1>r DEF RepriceReplaces, IInv, TypedVenue
<1>2. TypedBooks'
  BY <1>l, <1>p, RowTyped DEF RepriceReplaces, Finish, IInv, TypedBooks
<1>3. TypedTasks'
  <2>1. CASE id = 0
    BY <1>0, <1>p, <1>q, <2>1, Stays DEF Go, Label, Holding
  <2>2. CASE id # 0
    BY <1>0, <1>p, <2>2, Ends DEF Finish
  <2> QED BY <2>1, <2>2
<1>4. env' \in Env
  BY <1>r
<1> QED BY <1>1, <1>2, <1>3, <1>4 DEF IInv

LEMMA RepriceCancelsStep ==
  ASSUME IInv, NEW t \in Task, RepriceCancels(t)
  PROVE  IInv'
<1>0. t \in Task /\ pc[t] \in Label /\ loc[t] \in Locals
  BY Bounds DEF IInv, TypedTasks
<1>p. PICK ans \in BOOLEAN :
       /\ VenueCancel(loc[t].id, ans)
       /\ IF ans
          THEN life' = Placing([life EXCEPT !.stop.id = 0]) /\ Go(t, "place") /\ UNCHANGED <<lock, loc>>
          ELSE Done(t) /\ UNCHANGED life
  BY DEF RepriceCancels
<1>q. /\ loc[t].id \in Nat /\ lock = t
  BY <1>0 DEF RepriceCancels, At, IInv, TypedTasks, Located, Holding, Locals
<1>r. vstop' \in [StopId -> StopOrder] /\ env' \in Env
  BY <1>p, <1>q, CancelTyped
<1>1. TypedVenue'
  BY <1>r DEF RepriceCancels, IInv, TypedVenue
<1>2. TypedBooks'
  <2>2. life' \in Life
    BY <1>p, StopEdits DEF IInv, TypedBooks
  <2> QED BY <2>2 DEF RepriceCancels, IInv, TypedBooks, durable
<1>3. TypedTasks'
  <2>1. CASE ans
    BY <1>0, <1>p, <1>q, <2>1, Stays DEF RepriceCancels, Go, Label, Holding
  <2>2. CASE ~ans
    BY <1>0, <1>p, <2>2, Ends DEF RepriceCancels
  <2> QED BY <2>1, <2>2
<1>4. env' \in Env
  BY <1>r
<1> QED BY <1>1, <1>2, <1>3, <1>4 DEF IInv

LEMMA OnStopFilledStep ==
  ASSUME IInv, NEW t \in Task, OnStopFilled(t)
  PROVE  IInv'
<1>0. t \in Task /\ pc[t] \in Label /\ loc[t] \in Locals
  BY Bounds DEF IInv, TypedTasks
<1>1. TypedVenue'
  BY <1>0, Fresh, Bounds DEF OnStopFilled, IInv, TypedVenue, venue, StopOrder, ExitOrder, Env, Locals
<1>2. TypedBooks'
  <2>1. ledger' \in Arbiter!Ledger
    <3>1. loc[t].seen \in Nat
      BY <1>0 DEF Locals
    <3> QED BY <3>1, LedgerTyped DEF OnStopFilled, IInv, TypedBooks
  <2>2. life' \in Life
    <3>1. [life EXCEPT !.owned = ledger'.owned] \in Life
      BY <2>1 DEF IInv, TypedBooks, Life, Arbiter!Ledger
    <3>2. loc[t].seen \in Nat
      BY <1>0 DEF Locals
    <3> QED BY <3>1, <3>2, StopEdits DEF OnStopFilled
  <2> QED BY <2>1, <2>2, RowTyped DEF OnStopFilled, Finish, IInv, TypedBooks
<1>3. TypedTasks'
  BY <1>0, StartTyped, Ends, Goes, Stays, Bounds DEF OnStopFilled, Go, At, Idle, Finish, IInv, TypedTasks, Label, Holding, Located
<1>4. env' \in Env
  BY FaultTyped DEF OnStopFilled, IInv, Env
<1> QED BY <1>1, <1>2, <1>3, <1>4 DEF IInv

LEMMA PollExitStep ==
  ASSUME IInv, NEW t \in Rec, PollExit(t)
  PROVE  IInv'
<1>0. t \in Task /\ pc[t] \in Label /\ loc[t] \in Locals
  BY Bounds DEF IInv, TypedTasks
<1>1. TypedVenue'
  BY <1>0, Fresh, Bounds DEF PollExit, IInv, TypedVenue, venue, StopOrder, ExitOrder, Env, Locals
<1>2. TypedBooks'
  BY <1>0, StartTyped, RowTyped, Bounds DEF PollExit, IInv, TypedBooks, durable, Finish, Life, Stop, Pending, PendingRecord, Locals, Env, Placing, Unprotected
<1>3. TypedTasks'
  <2> DEFINE e == vexit[life.pending.id]
             m == [loc[t] EXCEPT !.seen = e.filled, !.ans = IF e.st = "done" THEN "final" ELSE "partial"]
  <2>1. m \in Locals
    <3>1. e.filled \in Nat
      BY DEF PollExit, IInv, TypedBooks, TypedVenue, Life, Pending, PendingRecord, ExitOrder
    <3> HIDE DEF e
    <3> QED BY <1>0, <3>1 DEF Locals
  <2>2. loc' = [loc EXCEPT ![t] = m] /\ pc' = [pc EXCEPT ![t] = "resolve"]
    BY <1>0 DEF PollExit, Go, IInv, TypedTasks
  <2> HIDE DEF m
  <2> QED BY <1>0, <2>1, <2>2, Goes DEF PollExit, Label, Holding
<1>4. env' \in Env
  BY FaultTyped DEF PollExit, IInv, Env
<1> QED BY <1>1, <1>2, <1>3, <1>4 DEF IInv

LEMMA NothingToResolveStep ==
  ASSUME IInv, NEW t \in Rec, NothingToResolve(t)
  PROVE  IInv'
<1>0. t \in Task /\ pc[t] \in Label /\ loc[t] \in Locals
  BY Bounds DEF IInv, TypedTasks
<1>1. TypedVenue'
  BY <1>0, Fresh, Bounds DEF NothingToResolve, IInv, TypedVenue, venue, StopOrder, ExitOrder, Env, Locals
<1>2. TypedBooks'
  BY <1>0, StartTyped, RowTyped, Bounds DEF NothingToResolve, IInv, TypedBooks, durable, Finish, Life, Stop, Pending, PendingRecord, Locals, Env, Placing, Unprotected
<1>3. TypedTasks'
  BY <1>0, StartTyped, Ends, Goes, Stays, Bounds DEF NothingToResolve, Go, At, Idle, Finish, IInv, TypedTasks, Label, Holding, Located
<1>4. env' \in Env
  BY FaultTyped DEF NothingToResolve, IInv, Env
<1> QED BY <1>1, <1>2, <1>3, <1>4 DEF IInv

LEMMA ResolvePartialStep ==
  ASSUME IInv, NEW t \in Rec, ResolvePartial(t)
  PROVE  IInv'
<1>0. t \in Task /\ pc[t] \in Label /\ loc[t] \in Locals
  BY Bounds DEF IInv, TypedTasks
<1>i. Increase(t) \in Nat /\ loc[t].seen \in Nat
  BY <1>0, LifeParts DEF Increase, Arbiter!AtLeastZero, Locals, IInv, TypedBooks
<1>l. Arbiter!SettleIn(ledger, Increase(t), Increase(t)) \in Arbiter!Ledger
  BY <1>i, LedgerTyped DEF IInv, TypedBooks
<1>1. TypedVenue'
  BY <1>0, Fresh, Bounds DEF ResolvePartial, IInv, TypedVenue, venue, StopOrder, ExitOrder, Env, Locals
<1>2. TypedBooks'
  <2>1. ledger' \in Arbiter!Ledger
    BY <1>l DEF ResolvePartial, IInv, TypedBooks
  <2>2. life' \in Life
    BY <1>i, <1>l DEF ResolvePartial, IInv, TypedBooks, Life, Pending, PendingRecord, Arbiter!Ledger
  <2> QED BY <2>1, <2>2, RowTyped DEF ResolvePartial, Finish, IInv, TypedBooks
<1>3. TypedTasks'
  BY <1>0, StartTyped, Ends, Goes, Stays, Bounds DEF ResolvePartial, Go, At, Idle, Finish, IInv, TypedTasks, Label, Holding, Located
<1>4. env' \in Env
  BY FaultTyped DEF ResolvePartial, IInv, Env
<1> QED BY <1>1, <1>2, <1>3, <1>4 DEF IInv

LEMMA ResolveFinalStep ==
  ASSUME IInv, NEW t \in Rec, ResolveFinal(t)
  PROVE  IInv'
<1>0. t \in Task /\ pc[t] \in Label /\ loc[t] \in Locals
  BY Bounds DEF IInv, TypedTasks
<1>i. Increase(t) \in Nat /\ StillReserved(life.pending, Increase(t)) \in Nat
  BY <1>0, LifeParts DEF Increase, StillReserved, Arbiter!AtLeastZero, Locals, IInv, TypedBooks
<1>l. ledger' \in Arbiter!Ledger
  BY <1>i, LedgerTyped DEF ResolveFinal, IInv, TypedBooks
<1>m. [life EXCEPT !.owned = ledger'.owned, !.pending = NoPending] \in Life
  BY <1>l, StartTyped DEF IInv, TypedBooks, Life, Arbiter!Ledger
<1>s. /\ life' \in Life /\ row' \in Row /\ row'.life.st # "closed"
      /\ stopRows' \subseteq StopId /\ TypedTasks'
  BY <1>0, <1>l, <1>m, AfterTyped DEF ResolveFinal
<1>1. TypedVenue'
  BY <1>0, Fresh, Bounds DEF ResolveFinal, IInv, TypedVenue, venue, StopOrder, ExitOrder, Env, Locals
<1>2. TypedBooks'
  BY <1>l, <1>s DEF TypedBooks
<1>3. TypedTasks'
  BY <1>s
<1>4. env' \in Env
  BY FaultTyped DEF ResolveFinal, IInv, Env
<1> QED BY <1>1, <1>2, <1>3, <1>4 DEF IInv

LEMMA RetryUnprotectedStep ==
  ASSUME IInv, NEW t \in Rec, RetryUnprotected(t)
  PROVE  IInv'
<1>0. t \in Task /\ pc[t] \in Label /\ loc[t] \in Locals
  BY Bounds DEF IInv, TypedTasks
<1>1. TypedVenue'
  BY <1>0, Fresh, Bounds DEF RetryUnprotected, IInv, TypedVenue, venue, StopOrder, ExitOrder, Env, Locals
<1>2. TypedBooks'
  BY <1>0, StartTyped, RowTyped, Bounds DEF RetryUnprotected, IInv, TypedBooks, durable, Finish, Life, Stop, Pending, PendingRecord, Locals, Env, Placing, Unprotected
<1>3. TypedTasks'
  BY <1>0, StartTyped, Ends, Goes, Stays, Bounds DEF RetryUnprotected, Go, At, Idle, Finish, IInv, TypedTasks, Label, Holding, Located
<1>4. env' \in Env
  BY FaultTyped DEF RetryUnprotected, IInv, Env
<1> QED BY <1>1, <1>2, <1>3, <1>4 DEF IInv

LEMMA ReadPositionStep ==
  ASSUME IInv, NEW t \in Rec, ReadPosition(t)
  PROVE  IInv'
<1>0. t \in Task /\ pc[t] \in Label /\ loc[t] \in Locals
  BY Bounds DEF IInv, TypedTasks
<1>h. held \in Nat /\ life.pending.st \in {"none", "id", "noid"}
  BY LifeParts DEF ReadPosition, IInv, TypedVenue, TypedBooks
<1>1. TypedVenue'
  BY <1>0, Fresh, Bounds DEF ReadPosition, IInv, TypedVenue, venue, StopOrder, ExitOrder, Env, Locals
<1>2. TypedBooks'
  BY <1>0, StartTyped, RowTyped, Bounds DEF ReadPosition, IInv, TypedBooks, durable, Finish, Life, Stop, Pending, PendingRecord, Locals, Env, Placing, Unprotected
<1>3. TypedTasks'
  <2> DEFINE m == [loc[t] EXCEPT !.seen = held, !.ans = life.pending.st]
  <2>1. m \in Locals
    BY <1>0, <1>h DEF Locals, IInv, TypedVenue, TypedBooks, Env, Life, Pending, PendingRecord, Stop
  <2>2. loc' = [loc EXCEPT ![t] = m] /\ pc' = [pc EXCEPT ![t] = "read"]
    BY <1>0 DEF ReadPosition, Go, IInv, TypedTasks
  <2> HIDE DEF m
  <2> QED BY <1>0, <2>1, <2>2, Goes DEF ReadPosition, Label, Holding
<1>4. env' \in Env
  BY FaultTyped DEF ReadPosition, IInv, Env
<1> QED BY <1>1, <1>2, <1>3, <1>4 DEF IInv

LEMMA ReadResolvesStep ==
  ASSUME IInv, NEW t \in Rec, ReadResolves(t)
  PROVE  IInv'
<1>0. t \in Task /\ pc[t] \in Label /\ loc[t] \in Locals
  BY Bounds DEF IInv, TypedTasks
<1>1. TypedVenue'
  BY <1>0, Fresh, Bounds DEF ReadResolves, IInv, TypedVenue, venue, StopOrder, ExitOrder, Env, Locals
<1>2. TypedBooks'
  BY <1>0, StartTyped, RowTyped, Bounds DEF ReadResolves, IInv, TypedBooks, durable, Finish, Life, Stop, Pending, PendingRecord, Locals, Env, Placing, Unprotected
<1>3. TypedTasks'
  <2>1. CASE NoUnresolvedExit
    BY <1>0, <2>1, Ends DEF ReadResolves
  <2>2. CASE ~NoUnresolvedExit
    <3> DEFINE n == Min({Arbiter!AtLeastZero(Deficit(t)), life.pending.requested})
               m == [loc[t] EXCEPT !.ans = "final", !.seen = n]
    <3>1. n \in Nat
      <4>1. Arbiter!AtLeastZero(Deficit(t)) \in Nat /\ life.pending.requested \in Nat
        BY <1>0 DEF Arbiter!AtLeastZero, Deficit, IInv, TypedBooks, Life, Pending, PendingRecord, Locals
      <4> QED BY <4>1, MinOfTwo
    <3>2. m \in Locals
      <4> HIDE DEF n
      <4> QED BY <1>0, <3>1 DEF Locals
    <3>3. loc' = [loc EXCEPT ![t] = m] /\ pc' = [pc EXCEPT ![t] = "resolve"] /\ UNCHANGED <<lock, ledger>>
      <4>1. loc' = [loc EXCEPT ![t].ans = "final", ![t].seen = n]
        BY <2>2 DEF ReadResolves
      <4> HIDE DEF n
      <4> QED BY <1>0, <2>2, <4>1 DEF ReadResolves, Go, IInv, TypedTasks
    <3> HIDE DEF m
    <3> QED BY <1>0, <3>2, <3>3, Goes DEF Label, Holding
  <2> QED BY <2>1, <2>2
<1>4. env' \in Env
  BY FaultTyped DEF ReadResolves, IInv, Env
<1> QED BY <1>1, <1>2, <1>3, <1>4 DEF IInv

LEMMA ReadAgreesStep ==
  ASSUME IInv, NEW t \in Rec, ReadAgrees(t)
  PROVE  IInv'
<1>0. t \in Task /\ pc[t] \in Label /\ loc[t] \in Locals
  BY Bounds DEF IInv, TypedTasks
<1>1. TypedVenue'
  BY <1>0, Fresh, Bounds DEF ReadAgrees, IInv, TypedVenue, venue, StopOrder, ExitOrder, Env, Locals
<1>2. TypedBooks'
  BY <1>0, StartTyped, RowTyped, Bounds DEF ReadAgrees, IInv, TypedBooks, durable, Finish, Life, Stop, Pending, PendingRecord, Locals, Env, Placing, Unprotected
<1>3. TypedTasks'
  BY <1>0, StartTyped, Ends, Goes, Stays, Bounds DEF ReadAgrees, Go, At, Idle, Finish, IInv, TypedTasks, Label, Holding, Located
<1>4. env' \in Env
  BY FaultTyped DEF ReadAgrees, IInv, Env
<1> QED BY <1>1, <1>2, <1>3, <1>4 DEF IInv

LEMMA ReadAdoptsStep ==
  ASSUME IInv, NEW t \in Rec, ReadAdopts(t)
  PROVE  IInv'
<1>0. t \in Task /\ pc[t] \in Label /\ loc[t] \in Locals
  BY Bounds DEF IInv, TypedTasks
<1>1. TypedVenue'
  BY <1>0, Fresh, Bounds DEF ReadAdopts, IInv, TypedVenue, venue, StopOrder, ExitOrder, Env, Locals
<1>2. TypedBooks'
  BY <1>0, StartTyped, RowTyped, Bounds DEF ReadAdopts, IInv, TypedBooks, durable, Finish, Life, Stop, Pending, PendingRecord, Locals, Env, Placing, Unprotected
<1>3. TypedTasks'
  BY <1>0, StartTyped, Ends, Goes, Stays, Bounds DEF ReadAdopts, Go, At, Idle, Finish, IInv, TypedTasks, Label, Holding, Located
<1>4. env' \in Env
  BY FaultTyped DEF ReadAdopts, IInv, Env
<1> QED BY <1>1, <1>2, <1>3, <1>4 DEF IInv

LEMMA AdoptVenueOwnershipStep ==
  ASSUME IInv, NEW t \in Rec, AdoptVenueOwnership(t)
  PROVE  IInv'
<1>0. t \in Task /\ pc[t] \in Label /\ loc[t] \in Locals
  BY Bounds DEF IInv, TypedTasks
<1>1. TypedVenue'
  BY <1>0, Fresh, Bounds DEF AdoptVenueOwnership, IInv, TypedVenue, venue, StopOrder, ExitOrder, Env, Locals
<1>2. TypedBooks'
  <2>0. loc[t].seen \in Nat /\ loc[t].seen \in Int
    BY <1>0 DEF Locals
  <2>1. ledger' \in Arbiter!Ledger
    BY <2>0, LedgerTyped DEF AdoptVenueOwnership, AdoptIn, IInv, TypedBooks
  <2>2. life' \in Life
    BY <2>0 DEF AdoptVenueOwnership, IInv, TypedBooks, Life
  <2> QED BY <2>1, <2>2, RowTyped DEF AdoptVenueOwnership, IInv, TypedBooks
<1>3. TypedTasks'
  BY <1>0, StartTyped, Ends, Goes, Stays, Bounds DEF AdoptVenueOwnership, Go, At, Idle, Finish, IInv, TypedTasks, Label, Holding, Located
<1>4. env' \in Env
  BY FaultTyped DEF AdoptVenueOwnership, IInv, Env
<1> QED BY <1>1, <1>2, <1>3, <1>4 DEF IInv

LEMMA ReadFindsDeficitStep ==
  ASSUME IInv, NEW t \in Rec, ReadFindsDeficit(t)
  PROVE  IInv'
<1>0. t \in Task /\ pc[t] \in Label /\ loc[t] \in Locals
  BY Bounds DEF IInv, TypedTasks
<1>1. TypedVenue'
  BY <1>0, Fresh, Bounds DEF ReadFindsDeficit, IInv, TypedVenue, venue, StopOrder, ExitOrder, Env, Locals
<1>2. TypedBooks'
  BY <1>0, StartTyped, RowTyped, Bounds DEF ReadFindsDeficit, IInv, TypedBooks, durable, Finish, Life, Stop, Pending, PendingRecord, Locals, Env, Placing, Unprotected
<1>3. TypedTasks'
  <2> DEFINE m == [loc[t] EXCEPT !.seen = Deficit(t), !.target = loc[t].seen, !.id = life.stop.id]
             label == IF life.stop.id # 0 THEN "pollstop" ELSE "stopfill"
  <2>1. Deficit(t) \in Nat /\ life.stop.id \in 0..MaxStops
    BY <1>0 DEF ReadFindsDeficit, Deficit, IInv, TypedBooks, Life, Stop, Locals
  <2>2. /\ m \in Locals
        /\ label \in Label /\ label \notin Holding
        /\ label = "pollstop" => m.id \in StopId
    <3>1. loc[t].seen \in Nat /\ life.stop.id \in Nat
      BY <1>0, <2>1, Bounds DEF Locals
    <3>2. m \in Locals
      BY <1>0, <2>1, <3>1 DEF Locals
    <3>3. label = "pollstop" => m.id \in StopId
      BY <1>0, <2>1, Bounds DEF Locals, StopId
    <3> QED BY <3>2, <3>3 DEF Label, Holding
  <2>3. loc' = [loc EXCEPT ![t] = m] /\ pc' = [pc EXCEPT ![t] = label] /\ UNCHANGED <<lock, ledger>>
    BY <1>0 DEF ReadFindsDeficit, Go, IInv, TypedTasks
  <2>4. label \notin {"amend", "ordered", "answered"}
    OBVIOUS
  <2> HIDE DEF m, label
  <2> QED BY <1>0, <2>2, <2>3, <2>4, Goes
<1>4. env' \in Env
  BY FaultTyped DEF ReadFindsDeficit, IInv, Env
<1> QED BY <1>1, <1>2, <1>3, <1>4 DEF IInv

LEMMA PollStopStep ==
  ASSUME IInv, NEW t \in Rec, PollStop(t)
  PROVE  IInv'
<1>0. t \in Task /\ pc[t] \in Label /\ loc[t] \in Locals
  BY Bounds DEF IInv, TypedTasks
<1>1. TypedVenue'
  BY <1>0, Fresh, Bounds DEF PollStop, IInv, TypedVenue, venue, StopOrder, ExitOrder, Env, Locals
<1>2. TypedBooks'
  BY <1>0, StartTyped, RowTyped, Bounds DEF PollStop, IInv, TypedBooks, durable, Finish, Life, Stop, Pending, PendingRecord, Locals, Env, Placing, Unprotected
<1>3. TypedTasks'
  <2>1. CASE StopStatus(loc[t].id) = "FILLED"
    <3> DEFINE m == [loc[t] EXCEPT !.seen = vstop[loc[t].id].qty]
    <3>1. m \in Locals
      <4>1. loc[t].id \in StopId
        BY <1>0 DEF PollStop, At, IInv, TypedTasks, Located
      <4> QED BY <1>0, <4>1 DEF Locals, IInv, TypedVenue, StopOrder
    <3>2. loc' = [loc EXCEPT ![t] = m] /\ pc' = [pc EXCEPT ![t] = "stopfill"]
      BY <1>0, <2>1 DEF PollStop, Go, IInv, TypedTasks
    <3> HIDE DEF m
    <3> QED BY <1>0, <3>1, <3>2, Goes DEF PollStop, Label, Holding
  <2>2. CASE StopStatus(loc[t].id) # "FILLED"
    BY <1>0, <2>2, Stays DEF PollStop, Go, Label, Holding
  <2> QED BY <2>1, <2>2
<1>4. env' \in Env
  BY FaultTyped DEF PollStop, IInv, Env
<1> QED BY <1>1, <1>2, <1>3, <1>4 DEF IInv

LEMMA ResizeStopToOwnedStep ==
  ASSUME IInv, NEW t \in Rec, ResizeStopToOwned(t)
  PROVE  IInv'
<1>0. t \in Task /\ pc[t] \in Label /\ loc[t] \in Locals
  BY Bounds DEF IInv, TypedTasks
<1>q. loc[t].target \in Nat /\ life.stop.id \in Nat
  BY <1>0, Bounds DEF IInv, TypedBooks, Life, Stop, Locals
<1>r. vstop' \in [StopId -> StopOrder] /\ env' \in Env
  BY <1>q, ReplaceTyped, CancelTyped DEF ResizeStopToOwned, IInv, TypedVenue
<1>1. TypedVenue'
  BY <1>r DEF ResizeStopToOwned, IInv, TypedVenue
<1>2. TypedBooks'
  <2>1. life' \in Life
    <3>1. [life EXCEPT !.stop = NoStop, !.st = "closed"] \in Life
      BY StartTyped DEF IInv, TypedBooks, Life
    <3>2. \A id \in -1..MaxStops : id > 0 =>
            [life EXCEPT !.stop.id = id, !.stop.qty = loc[t].target] \in Life
      <4>1. \A id \in -1..MaxStops : id > 0 => id \in 0..MaxStops
        BY Bounds
      <4> QED BY <1>q, <4>1, StopEdits DEF IInv, TypedBooks
    <3> QED BY <3>1, <3>2 DEF ResizeStopToOwned, IInv, TypedBooks
  <2> QED BY <2>1 DEF ResizeStopToOwned, IInv, TypedBooks, durable
<1>3. TypedTasks'
  BY <1>0, StartTyped, Ends, Goes, Stays, Bounds DEF ResizeStopToOwned, Go, At, Idle, Finish, IInv, TypedTasks, Label, Holding, Located
<1>4. env' \in Env
  BY <1>r
<1> QED BY <1>1, <1>2, <1>3, <1>4 DEF IInv

LEMMA ExitBeginsStep ==
  ASSUME IInv, NEW t \in Sig, NEW q \in Nat, ExitBegins(t, q)
  PROVE  IInv'
<1> DEFINE want == Min({q, Arbiter!Available(ledger)})
           stopped == life.stop.id # 0
           amend == stopped /\ ledger.owned > want /\ env.may.replace # "none"
           m == [loc[t] EXCEPT !.want = want, !.stopped = stopped, !.id = life.stop.id]
           label == IF ~stopped THEN "submit" ELSE IF amend THEN "amend" ELSE "cancel"
<1>0. t \in Task /\ pc[t] \in Label /\ loc[t] \in Locals
  BY Bounds DEF IInv, TypedTasks
<1>a. /\ lock = NoTask /\ lock' = t
      /\ loc' = [loc EXCEPT ![t].want = want, ![t].stopped = stopped, ![t].id = life.stop.id]
      /\ IF stopped THEN Go(t, IF amend THEN "amend" ELSE "cancel") /\ UNCHANGED ledger
         ELSE ReserveFor(t, want)
      /\ UNCHANGED <<venue, life, durable, env>>
  BY DEF ExitBegins
<1>b. want \in Nat /\ life.stop.id \in Nat
  <2>1. Arbiter!Available(ledger) \in Nat
    BY LedgerTyped DEF IInv, TypedBooks
  <2> QED BY <2>1, MinOfTwo, LifeParts DEF IInv, TypedBooks
<1>c. /\ label \in {"submit", "amend", "cancel"} /\ pc' = [pc EXCEPT ![t] = label]
      /\ amend => want <= ledger.owned
  <2> HIDE DEF want
  <2> QED BY <1>a, <1>b DEF ReserveFor, Go, IInv, TypedBooks, Arbiter!Ledger
<1>d. label = "amend" => amend /\ UNCHANGED ledger
  BY <1>a
<1>1. TypedVenue'
  BY <1>a DEF IInv, TypedVenue, venue
<1>2. TypedBooks'
  <2>1. ledger' \in Arbiter!Ledger
    <3> HIDE DEF want
    <3> QED BY <1>a, <1>b, LedgerTyped DEF ReserveFor, IInv, TypedBooks
  <2> QED BY <1>a, <2>1 DEF IInv, TypedBooks, durable
<1>3. TypedTasks'
  <2>1. m \in Locals /\ m.want = want
    <3> HIDE DEF want
    <3> QED BY <1>0, <1>b DEF Locals
  <2>2. loc' = [loc EXCEPT ![t] = m]
    <3> HIDE DEF want
    <3> QED BY <1>a, <1>0 DEF IInv, TypedTasks
  <2> HIDE DEF m, label, want, amend
  <2>3. label \in Label /\ label \notin {"ordered", "answered", "pollstop"}
    BY <1>c DEF Label, Holding
  <2>4. label = "amend" => m.want <= ledger'.owned
    BY <1>c, <1>d, <2>1
  <2> QED BY <1>0, <1>a, <1>c, <2>1, <2>2, <2>3, <2>4, Goes
<1>4. env' \in Env
  BY <1>a DEF IInv
<1> QED BY <1>1, <1>2, <1>3, <1>4 DEF IInv

LEMMA VenueStep ==
  ASSUME IInv, Venue
  PROVE  IInv'
<1>1. ASSUME NEW s \in StopId, StopTriggers(s) PROVE TypedVenue' /\ UNCHANGED <<ledger, lock, life, durable, pc, loc, env>>
  BY <1>1 DEF StopTriggers, IInv, TypedVenue, StopOrder
<1>2. ASSUME NEW e \in ExitId, ExitEnds(e) PROVE TypedVenue' /\ UNCHANGED <<ledger, lock, life, durable, pc, loc, env>>
  BY <1>2 DEF ExitEnds, IInv, TypedVenue, ExitOrder
<1>3. ASSUME NEW e \in ExitId, NEW f \in 1..env.may.lot, ExitProgresses(e, f)
      PROVE  TypedVenue' /\ UNCHANGED <<ledger, lock, life, durable, pc, loc, env>>
  <2>1. f \in Nat /\ vexit[e].filled + f \in Nat /\ held - f \in Int
    BY Bounds DEF IInv, Env, TypedVenue, ExitOrder
  <2>2. \A st \in {"working", "done"} :
          [vexit EXCEPT ![e].filled = @ + f, ![e].st = st] \in [ExitId -> ExitOrder]
    BY <2>1 DEF IInv, TypedVenue, ExitOrder
  <2>3. PICK st \in {"working", "done"} : vexit' = [vexit EXCEPT ![e].filled = @ + f, ![e].st = st]
    BY <1>3 DEF ExitProgresses
  <2> QED BY <1>3, <2>1, <2>2, <2>3 DEF ExitProgresses, IInv, TypedVenue
<1>4. TypedVenue' /\ UNCHANGED <<ledger, lock, life, durable, pc, loc, env>>
  BY <1>1, <1>2, <1>3 DEF Venue
<1> QED BY <1>4 DEF IInv, TypedBooks, TypedTasks, Located, durable

LEMMA PriceTickStep ==
  ASSUME IInv, PriceTick
  PROVE  IInv'
<1>1. TypedBooks'
  BY StartTyped DEF PriceTick, RowOf, Row, IInv, TypedBooks
<1> QED BY <1>1 DEF PriceTick, venue, IInv, TypedVenue, TypedTasks, Located

LEMMA CrashStep ==
  ASSUME IInv, CrashAndRestart
  PROVE  IInv'
<1>1. TypedBooks'
  BY DEF CrashAndRestart, durable, Row, IInv, TypedBooks
<1>2. TypedTasks'
  BY StartTyped DEF CrashAndRestart, TypedTasks, Label, Located, Holding
<1>3. env' \in Env
  BY DEF CrashAndRestart, IInv, Env
<1> QED BY <1>1, <1>2, <1>3 DEF CrashAndRestart, venue, IInv, TypedVenue

(* IInv is inductive.                                                        *)
LEMMA NextIInv == IInv /\ [Next]_vars => IInv'
<1> SUFFICES ASSUME IInv, [Next]_vars PROVE IInv'
  OBVIOUS
<1>1. ASSUME NEW s \in Sig, Entering(s) \/ ExitProceeds(s) \/ Ratchet(s) PROVE IInv'
  BY <1>1, StartPlanStep, EntryFillsStep, OnEntryFillStep, ExitAmendsStep, ExitCancelsStep,
     ExitSubmitsStep, ExitUnresolvedStep, ExitAnsweredStep, RatchetStep
  DEF Entering, ExitProceeds
<1>2. ASSUME NEW s \in Sig, NEW q \in 1..env.may.lot, ExitBegins(s, q) PROVE IInv'
  <2>1. q \in Nat
    BY Bounds DEF IInv, Env
  <2> QED BY <1>2, <2>1, ExitBeginsStep
<1>3. ASSUME NEW t \in Task, PlacingStop(t) \/ Restoring(t) \/ Repricing(t) \/ OnStopFilled(t)
      PROVE  IInv'
  BY <1>3, AdoptionFindsNothingStep, AdoptionRejectedStep, AdoptionFilledStep, OrderStopStep,
     StopOrderedStep, BrokerCallRaisesStep, RestoreCoverageStep, RepriceBeginsStep,
     RepriceReplacesStep, RepriceCancelsStep, OnStopFilledStep
  DEF PlacingStop, Restoring, Repricing
<1>4. ASSUME NEW r \in Rec, Resolving(r) \/ RetryUnprotected(r) \/ ReconcilingPosition(r)
      PROVE  IInv'
  BY <1>4, PollExitStep, NothingToResolveStep, ResolvePartialStep, ResolveFinalStep,
     RetryUnprotectedStep, ReadPositionStep, ReadResolvesStep, ReadAgreesStep, ReadAdoptsStep,
     AdoptVenueOwnershipStep, ReadFindsDeficitStep, PollStopStep, ResizeStopToOwnedStep
  DEF Resolving, ReconcilingPosition
<1>5. CASE Venue
  BY <1>5, VenueStep
<1>6. CASE PriceTick
  BY <1>6, PriceTickStep
<1>7. CASE CrashAndRestart
  BY <1>7, CrashStep
<1>8. CASE UNCHANGED vars
  BY <1>8 DEF vars, venue, durable, IInv, TypedVenue, TypedBooks, TypedTasks, Located
<1> QED BY <1>1, <1>2, <1>3, <1>4, <1>5, <1>6, <1>7, <1>8 DEF Next

(* IInv holds for ever.                                                      *)
LEMMA Inductive == Spec => []IInv
BY InitIInv, NextIInv, PTL DEF Spec

(* Whatever the setting, every variable keeps its type: no interleaving      *)
(* leaves a lifecycle, a ledger, a stored row or an order of a shape the     *)
(* handlers do not know.                                                     *)
THEOREM TypeCorrect == Spec => []TypeOK
<1>1. IInv => TypeOK
  BY DEF IInv, TypedVenue, TypedBooks, TypedTasks, TypeOK, Life, Stop, Pending, PendingRecord,
     StopOrder, ExitOrder, Row
<1> QED BY <1>1, Inductive, PTL

-----------------------------------------------------------------------------
(* What the setting allows never changes.                                    *)
LEMMA SettingStays ==
  ASSUME IInv, [Next]_vars
  PROVE  env'.may = env.may
<1>e. env \in Env
  BY DEF IInv
<1>f. Fault => env'.may = env.may
  BY FaultTyped
<1>r. \A s, q, id : VenueReplace(s, q, id) => env'.may = env.may
  BY <1>f DEF VenueReplace
<1>c. \A s, ans : VenueCancel(s, ans) => env'.may = env.may
  BY <1>f DEF VenueCancel

<1>1. ASSUME NEW t \in Sig, StartPlan(t) \/ EntryFills(t) \/ OnEntryFill(t) \/ ExitAmends(t) \/ ExitCancels(t)
      PROVE  env'.may = env.may
  BY <1>1, <1>e, <1>f, <1>r, <1>c
  DEF StartPlan, EntryFills, OnEntryFill, ExitAmends, ExitCancels, Env

<1>2. ASSUME NEW t \in Sig, ExitSubmits(t) \/ ExitUnresolved(t) \/ ExitAnswered(t) \/ Ratchet(t)
      PROVE  env'.may = env.may
  BY <1>2, <1>e, <1>f, <1>r, <1>c
  DEF ExitSubmits, ExitUnresolved, ExitAnswered, Ratchet, Env

<1>3. ASSUME NEW t \in Task, AdoptionFindsNothing(t) \/ AdoptionRejected(t) \/ AdoptionFilled(t) \/ OrderStop(t) \/ StopOrdered(t)
      PROVE  env'.may = env.may
  BY <1>3, <1>e, <1>f, <1>r, <1>c
  DEF AdoptionFindsNothing, AdoptionRejected, AdoptionFilled, OrderStop, StopOrdered, Env

<1>4. ASSUME NEW t \in Task, BrokerCallRaises(t) \/ RestoreCoverage(t) \/ RepriceBegins(t) \/ RepriceReplaces(t) \/ RepriceCancels(t)
      PROVE  env'.may = env.may
  BY <1>4, <1>e, <1>f, <1>r, <1>c
  DEF BrokerCallRaises, RestoreCoverage, RepriceBegins, RepriceReplaces, RepriceCancels, Env

<1>5. ASSUME NEW t \in Task, OnStopFilled(t)
      PROVE  env'.may = env.may
  BY <1>5, <1>e, <1>f, <1>r, <1>c
  DEF OnStopFilled, Env

<1>6. ASSUME NEW t \in Rec, PollExit(t) \/ NothingToResolve(t) \/ ResolvePartial(t) \/ ResolveFinal(t) \/ RetryUnprotected(t)
      PROVE  env'.may = env.may
  BY <1>6, <1>e, <1>f, <1>r, <1>c
  DEF PollExit, NothingToResolve, ResolvePartial, ResolveFinal, RetryUnprotected, Env

<1>7. ASSUME NEW t \in Rec, ReadPosition(t) \/ ReadResolves(t) \/ ReadAgrees(t) \/ ReadAdopts(t) \/ AdoptVenueOwnership(t)
      PROVE  env'.may = env.may
  BY <1>7, <1>e, <1>f, <1>r, <1>c
  DEF ReadPosition, ReadResolves, ReadAgrees, ReadAdopts, AdoptVenueOwnership, Env

<1>8. ASSUME NEW t \in Rec, ReadFindsDeficit(t) \/ PollStop(t) \/ ResizeStopToOwned(t)
      PROVE  env'.may = env.may
  BY <1>8, <1>e, <1>f, <1>r, <1>c
  DEF ReadFindsDeficit, PollStop, ResizeStopToOwned, Env

<1>9. ASSUME NEW t \in Sig, NEW q, ExitBegins(t, q) PROVE env'.may = env.may
  BY <1>9 DEF ExitBegins
<1>10. CASE Venue \/ PriceTick \/ UNCHANGED vars
  BY <1>10 DEF Venue, StopTriggers, ExitEnds, ExitProgresses, PriceTick, vars
<1>11. CASE CrashAndRestart
  BY <1>11, <1>e DEF CrashAndRestart, Env
<1> QED
  BY <1>1, <1>2, <1>3, <1>4, <1>5, <1>6, <1>7, <1>8, <1>9, <1>10, <1>11
  DEF Next, Entering, ExitProceeds, PlacingStop, Restoring, Repricing, Resolving, ReconcilingPosition

-----------------------------------------------------------------------------
(* The labels of a task that has changed what is to be saved and has not     *)
(* saved yet; at no other label does the row lag.                            *)
Unsaved == {"place", "order", "ordered", "submit", "answered", "restore", "stopfill"}
Saved == (\A t \in Task : pc[t] \notin Unsaved) => row = RowOf(life, ledger)
OrdersKnown == \A t \in Task : pc[t] = "ordered" => loc[t].id # 0
SInv == IInv /\ (NoCallFails => Saved /\ OrdersKnown)

(* A task that goes on to a label where saving is still to come, or that has *)
(* saved, keeps Saved; one that knows its order keeps OrdersKnown.           *)
LEMMA SavedStays ==
  ASSUME SInv, NoCallFails, NEW t \in Task, NEW label,
         pc' = [pc EXCEPT ![t] = label],
         \/ Persist
         \/ label \in Unsaved
         \/ UNCHANGED <<life, ledger, row>> /\ pc[t] \notin Unsaved
  PROVE  Saved'
BY DEF SInv, Saved, Persist, IInv, TypedTasks

LEMMA OrdersStay ==
  ASSUME SInv, NoCallFails, NEW t \in Task, NEW label, NEW m,
         pc' = [pc EXCEPT ![t] = label], loc' = [loc EXCEPT ![t] = m],
         label = "ordered" => m.id # 0
  PROVE  OrdersKnown'
BY DEF SInv, OrdersKnown, IInv, TypedTasks

(* Where the setting has no faults there is none.                            *)
LEMMA NoFault ==
  ASSUME IInv, NoCallFails
  PROVE  ~Fault
BY Bounds DEF IInv, Env, NoCallFails, Fault

(* A settlement saves, or goes on to what will.                              *)
LEMMA AfterSaves ==
  ASSUME SInv, NoCallFails, NEW t \in Task, NEW lf, NEW restore, NEW amended,
         AfterSettlement(t, lf, restore, amended)
  PROVE  Saved' /\ OrdersKnown'
<1>1. CASE Flat(lf) \/ ~restore
  <2>1. Finish(t)
    BY <1>1 DEF AfterSettlement
  <2> QED BY <2>1, SavedStays, OrdersStay DEF Finish, Done
<1>2. CASE ~Flat(lf) /\ restore
  <2> DEFINE m == [loc[t] EXCEPT !.target = lf.owned, !.id = lf.stop.id]
  <2>1. PICK label \in {"restore", "place"} :
          loc' = [loc EXCEPT ![t] = m] /\ pc' = [pc EXCEPT ![t] = label]
    BY <1>2 DEF AfterSettlement, Go, SInv, IInv, TypedTasks
  <2> HIDE DEF m
  <2> QED BY <2>1, SavedStays, OrdersStay DEF Unsaved
<1> QED BY <1>1, <1>2

(* Every action keeps SInv.                                                  *)
LEMMA StartPlanSaves ==
  ASSUME SInv, NoCallFails, NEW t \in Sig, StartPlan(t)
  PROVE  Saved' /\ OrdersKnown'
<1>0. t \in Task
  BY Bounds
<1>1. Saved'
  BY <1>0, SavedStays DEF StartPlan, At, Idle, Go, Done, Finish, durable, Unsaved, SInv, IInv, TypedTasks
<1>2. OrdersKnown'
  BY <1>0, OrdersStay DEF StartPlan, At, Idle, Go, Done, Finish, SInv, OrdersKnown, IInv, TypedTasks
<1> QED BY <1>1, <1>2

LEMMA EntryFillsSaves ==
  ASSUME SInv, NoCallFails, NEW t \in Sig, EntryFills(t)
  PROVE  Saved' /\ OrdersKnown'
<1>0. t \in Task
  BY Bounds
<1>1. Saved'
  BY <1>0, SavedStays DEF EntryFills, At, Idle, Go, Done, Finish, durable, Unsaved, SInv, IInv, TypedTasks
<1>2. OrdersKnown'
  BY <1>0, OrdersStay DEF EntryFills, At, Idle, Go, Done, Finish, SInv, OrdersKnown, IInv, TypedTasks
<1> QED BY <1>1, <1>2

LEMMA OnEntryFillSaves ==
  ASSUME SInv, NoCallFails, NEW t \in Sig, OnEntryFill(t)
  PROVE  Saved' /\ OrdersKnown'
<1>0. t \in Task
  BY Bounds
<1>1. Saved'
  BY <1>0, SavedStays DEF OnEntryFill, At, Idle, Go, Done, Finish, durable, Unsaved, SInv, IInv, TypedTasks
<1>2. OrdersKnown'
  BY <1>0, OrdersStay DEF OnEntryFill, At, Idle, Go, Done, Finish, SInv, OrdersKnown, IInv, TypedTasks
<1> QED BY <1>1, <1>2

LEMMA ExitAmendsSaves ==
  ASSUME SInv, NoCallFails, NEW t \in Sig, ExitAmends(t)
  PROVE  Saved' /\ OrdersKnown'
<1>0. t \in Task /\ pc[t] = "amend"
  BY Bounds DEF ExitAmends, At
<1>p. PICK id \in -1..MaxStops :
        IF id > 0
        THEN loc' = [loc EXCEPT ![t].amended = TRUE] /\ Go(t, "submit")
        ELSE Go(t, "cancel") /\ UNCHANGED <<ledger, life, loc>>
  BY DEF ExitAmends, ReserveFor
<1>1. CASE id > 0
  <2>1. loc' = [loc EXCEPT ![t] = [loc[t] EXCEPT !.amended = TRUE]] /\ pc' = [pc EXCEPT ![t] = "submit"]
    BY <1>0, <1>1, <1>p DEF Go, SInv, IInv, TypedTasks
  <2> QED BY <1>0, <2>1, SavedStays, OrdersStay DEF Unsaved
<1>2. CASE ~(id > 0)
  <2>1. /\ loc' = [loc EXCEPT ![t] = loc[t]] /\ pc' = [pc EXCEPT ![t] = "cancel"]
        /\ UNCHANGED <<life, ledger, row>>
    BY <1>0, <1>2, <1>p DEF ExitAmends, durable, Go, SInv, IInv, TypedTasks
  <2> QED BY <1>0, <2>1, SavedStays, OrdersStay DEF Unsaved
<1> QED BY <1>1, <1>2

LEMMA ExitCancelsSaves ==
  ASSUME SInv, NoCallFails, NEW t \in Sig, ExitCancels(t)
  PROVE  Saved' /\ OrdersKnown'
<1>0. t \in Task /\ pc[t] = "cancel"
  BY Bounds DEF ExitCancels, At
<1>p. \/ Go(t, "submit") /\ UNCHANGED loc
      \/ Done(t) /\ UNCHANGED <<ledger, life, row>>
  BY DEF ExitCancels, ReserveFor, durable
<1>1. CASE Go(t, "submit") /\ UNCHANGED loc
  <2>1. loc' = [loc EXCEPT ![t] = loc[t]] /\ pc' = [pc EXCEPT ![t] = "submit"]
    BY <1>0, <1>1 DEF Go, SInv, IInv, TypedTasks
  <2> QED BY <1>0, <2>1, SavedStays, OrdersStay DEF Unsaved
<1>2. CASE Done(t) /\ UNCHANGED <<ledger, life, row>>
  BY <1>0, <1>2, SavedStays, OrdersStay DEF Done, Unsaved
<1> QED BY <1>p, <1>1, <1>2

LEMMA ExitSubmitsSaves ==
  ASSUME SInv, NoCallFails, NEW t \in Sig, ExitSubmits(t)
  PROVE  Saved' /\ OrdersKnown'
<1>0. t \in Task
  BY Bounds
<1>1. Saved'
  BY <1>0, SavedStays DEF ExitSubmits, At, Idle, Go, Done, Finish, durable, Unsaved, SInv, IInv, TypedTasks
<1>2. OrdersKnown'
  BY <1>0, OrdersStay DEF ExitSubmits, At, Idle, Go, Done, Finish, SInv, OrdersKnown, IInv, TypedTasks
<1> QED BY <1>1, <1>2

LEMMA ExitUnresolvedSaves ==
  ASSUME SInv, NoCallFails, NEW t \in Sig, ExitUnresolved(t)
  PROVE  Saved' /\ OrdersKnown'
<1>0. t \in Task
  BY Bounds
<1>1. Saved'
  BY <1>0, SavedStays DEF ExitUnresolved, At, Idle, Go, Done, Finish, durable, Unsaved, SInv, IInv, TypedTasks
<1>2. OrdersKnown'
  BY <1>0, OrdersStay DEF ExitUnresolved, At, Idle, Go, Done, Finish, SInv, OrdersKnown, IInv, TypedTasks
<1> QED BY <1>1, <1>2

LEMMA ExitAnsweredSaves ==
  ASSUME SInv, NoCallFails, NEW t \in Sig, ExitAnswered(t)
  PROVE  Saved' /\ OrdersKnown'
BY AfterSaves, Bounds DEF ExitAnswered

LEMMA RatchetSaves ==
  ASSUME SInv, NoCallFails, NEW t \in Sig, Ratchet(t)
  PROVE  Saved' /\ OrdersKnown'
<1>0. t \in Task
  BY Bounds
<1>1. Saved'
  BY <1>0, SavedStays DEF Ratchet, At, Idle, Go, Done, Finish, durable, Unsaved, SInv, IInv, TypedTasks
<1>2. OrdersKnown'
  BY <1>0, OrdersStay DEF Ratchet, At, Idle, Go, Done, Finish, SInv, OrdersKnown, IInv, TypedTasks
<1> QED BY <1>1, <1>2

LEMMA AdoptionFindsNothingSaves ==
  ASSUME SInv, NoCallFails, NEW t \in Task, AdoptionFindsNothing(t)
  PROVE  Saved' /\ OrdersKnown'
<1>0. t \in Task
  BY Bounds
<1>1. Saved'
  BY <1>0, SavedStays DEF AdoptionFindsNothing, At, Idle, Go, Done, Finish, durable, Unsaved, SInv, IInv, TypedTasks
<1>2. OrdersKnown'
  BY <1>0, OrdersStay DEF AdoptionFindsNothing, At, Idle, Go, Done, Finish, SInv, OrdersKnown, IInv, TypedTasks
<1> QED BY <1>1, <1>2

LEMMA AdoptionRejectedSaves ==
  ASSUME SInv, NoCallFails, NEW t \in Task, AdoptionRejected(t)
  PROVE  Saved' /\ OrdersKnown'
<1>0. t \in Task
  BY Bounds
<1>1. Saved'
  BY <1>0, SavedStays DEF AdoptionRejected, At, Idle, Go, Done, Finish, durable, Unsaved, SInv, IInv, TypedTasks
<1>2. OrdersKnown'
  BY <1>0, OrdersStay DEF AdoptionRejected, At, Idle, Go, Done, Finish, SInv, OrdersKnown, IInv, TypedTasks
<1> QED BY <1>1, <1>2

LEMMA AdoptionFilledSaves ==
  ASSUME SInv, NoCallFails, NEW t \in Task, AdoptionFilled(t)
  PROVE  Saved' /\ OrdersKnown'
<1>0. t \in Task
  BY Bounds
<1>1. Saved'
  BY <1>0, SavedStays DEF AdoptionFilled, At, Idle, Go, Done, Finish, durable, Unsaved, SInv, IInv, TypedTasks
<1>2. OrdersKnown'
  BY <1>0, OrdersStay DEF AdoptionFilled, At, Idle, Go, Done, Finish, SInv, OrdersKnown, IInv, TypedTasks
<1> QED BY <1>1, <1>2

LEMMA OrderStopSaves ==
  ASSUME SInv, NoCallFails, NEW t \in Task, OrderStop(t)
  PROVE  Saved' /\ OrdersKnown'
<1>1. Min(FreshStops) # 0 /\ loc' = [loc EXCEPT ![t].id = Min(FreshStops)]
  BY Fresh, NoFault DEF OrderStop, SInv
<1>2. /\ loc' = [loc EXCEPT ![t] = [loc[t] EXCEPT !.id = Min(FreshStops)]]
      /\ [loc[t] EXCEPT !.id = Min(FreshStops)].id # 0
      /\ pc' = [pc EXCEPT ![t] = "ordered"]
  BY <1>1 DEF OrderStop, Go, SInv, IInv, TypedTasks, Locals
<1> QED BY <1>2, SavedStays, OrdersStay DEF Unsaved

LEMMA StopOrderedSaves ==
  ASSUME SInv, NoCallFails, NEW t \in Task, StopOrdered(t)
  PROVE  Saved' /\ OrdersKnown'
<1>0. t \in Task
  BY Bounds
<1>1. Saved'
  BY <1>0, SavedStays DEF StopOrdered, At, Idle, Go, Done, Finish, durable, Unsaved, SInv, IInv, TypedTasks
<1>2. OrdersKnown'
  BY <1>0, OrdersStay DEF StopOrdered, At, Idle, Go, Done, Finish, SInv, OrdersKnown, IInv, TypedTasks
<1> QED BY <1>1, <1>2

LEMMA BrokerCallRaisesSaves ==
  ASSUME SInv, NoCallFails, NEW t \in Task, BrokerCallRaises(t)
  PROVE  Saved' /\ OrdersKnown'
BY NoFault DEF BrokerCallRaises, At, SInv, OrdersKnown

LEMMA RestoreCoverageSaves ==
  ASSUME SInv, NoCallFails, NEW t \in Task, RestoreCoverage(t)
  PROVE  Saved' /\ OrdersKnown'
<1>0. t \in Task
  BY Bounds
<1>1. Saved'
  BY <1>0, SavedStays DEF RestoreCoverage, At, Idle, Go, Done, Finish, durable, Unsaved, SInv, IInv, TypedTasks
<1>2. OrdersKnown'
  BY <1>0, OrdersStay DEF RestoreCoverage, At, Idle, Go, Done, Finish, SInv, OrdersKnown, IInv, TypedTasks
<1> QED BY <1>1, <1>2

LEMMA RepriceBeginsSaves ==
  ASSUME SInv, NoCallFails, NEW t \in Task, RepriceBegins(t)
  PROVE  Saved' /\ OrdersKnown'
<1>0. t \in Task
  BY Bounds
<1>1. Saved'
  BY <1>0, SavedStays DEF RepriceBegins, At, Idle, Go, Done, Finish, durable, Unsaved, SInv, IInv, TypedTasks
<1>2. OrdersKnown'
  BY <1>0, OrdersStay DEF RepriceBegins, At, Idle, Go, Done, Finish, SInv, OrdersKnown, IInv, TypedTasks
<1> QED BY <1>1, <1>2

LEMMA RepriceReplacesSaves ==
  ASSUME SInv, NoCallFails, NEW t \in Task, RepriceReplaces(t)
  PROVE  Saved' /\ OrdersKnown'
<1>0. t \in Task
  BY Bounds
<1>1. Saved'
  BY <1>0, SavedStays DEF RepriceReplaces, At, Idle, Go, Done, Finish, durable, Unsaved, SInv, IInv, TypedTasks
<1>2. OrdersKnown'
  BY <1>0, OrdersStay DEF RepriceReplaces, At, Idle, Go, Done, Finish, SInv, OrdersKnown, IInv, TypedTasks
<1> QED BY <1>1, <1>2

LEMMA RepriceCancelsSaves ==
  ASSUME SInv, NoCallFails, NEW t \in Task, RepriceCancels(t)
  PROVE  Saved' /\ OrdersKnown'
<1>0. t \in Task
  BY Bounds
<1>1. Saved'
  BY <1>0, SavedStays DEF RepriceCancels, At, Idle, Go, Done, Finish, durable, Unsaved, SInv, IInv, TypedTasks
<1>2. OrdersKnown'
  BY <1>0, OrdersStay DEF RepriceCancels, At, Idle, Go, Done, Finish, SInv, OrdersKnown, IInv, TypedTasks
<1> QED BY <1>1, <1>2

LEMMA OnStopFilledSaves ==
  ASSUME SInv, NoCallFails, NEW t \in Task, OnStopFilled(t)
  PROVE  Saved' /\ OrdersKnown'
<1>0. t \in Task
  BY Bounds
<1>1. Saved'
  BY <1>0, SavedStays DEF OnStopFilled, At, Idle, Go, Done, Finish, durable, Unsaved, SInv, IInv, TypedTasks
<1>2. OrdersKnown'
  BY <1>0, OrdersStay DEF OnStopFilled, At, Idle, Go, Done, Finish, SInv, OrdersKnown, IInv, TypedTasks
<1> QED BY <1>1, <1>2

LEMMA PollExitSaves ==
  ASSUME SInv, NoCallFails, NEW t \in Rec, PollExit(t)
  PROVE  Saved' /\ OrdersKnown'
<1>0. t \in Task
  BY Bounds
<1>1. Saved'
  BY <1>0, SavedStays DEF PollExit, At, Idle, Go, Done, Finish, durable, Unsaved, SInv, IInv, TypedTasks
<1>2. OrdersKnown'
  BY <1>0, OrdersStay DEF PollExit, At, Idle, Go, Done, Finish, SInv, OrdersKnown, IInv, TypedTasks
<1> QED BY <1>1, <1>2

LEMMA NothingToResolveSaves ==
  ASSUME SInv, NoCallFails, NEW t \in Rec, NothingToResolve(t)
  PROVE  Saved' /\ OrdersKnown'
<1>0. t \in Task
  BY Bounds
<1>1. Saved'
  BY <1>0, SavedStays DEF NothingToResolve, At, Idle, Go, Done, Finish, durable, Unsaved, SInv, IInv, TypedTasks
<1>2. OrdersKnown'
  BY <1>0, OrdersStay DEF NothingToResolve, At, Idle, Go, Done, Finish, SInv, OrdersKnown, IInv, TypedTasks
<1> QED BY <1>1, <1>2

LEMMA ResolvePartialSaves ==
  ASSUME SInv, NoCallFails, NEW t \in Rec, ResolvePartial(t)
  PROVE  Saved' /\ OrdersKnown'
<1>0. t \in Task
  BY Bounds
<1>1. Saved'
  BY <1>0, SavedStays DEF ResolvePartial, At, Idle, Go, Done, Finish, durable, Unsaved, SInv, IInv, TypedTasks
<1>2. OrdersKnown'
  BY <1>0, OrdersStay DEF ResolvePartial, At, Idle, Go, Done, Finish, SInv, OrdersKnown, IInv, TypedTasks
<1> QED BY <1>1, <1>2

LEMMA ResolveFinalSaves ==
  ASSUME SInv, NoCallFails, NEW t \in Rec, ResolveFinal(t)
  PROVE  Saved' /\ OrdersKnown'
BY AfterSaves, Bounds DEF ResolveFinal

LEMMA RetryUnprotectedSaves ==
  ASSUME SInv, NoCallFails, NEW t \in Rec, RetryUnprotected(t)
  PROVE  Saved' /\ OrdersKnown'
<1>0. t \in Task
  BY Bounds
<1>1. Saved'
  BY <1>0, SavedStays DEF RetryUnprotected, At, Idle, Go, Done, Finish, durable, Unsaved, SInv, IInv, TypedTasks
<1>2. OrdersKnown'
  BY <1>0, OrdersStay DEF RetryUnprotected, At, Idle, Go, Done, Finish, SInv, OrdersKnown, IInv, TypedTasks
<1> QED BY <1>1, <1>2

LEMMA ReadPositionSaves ==
  ASSUME SInv, NoCallFails, NEW t \in Rec, ReadPosition(t)
  PROVE  Saved' /\ OrdersKnown'
<1>0. t \in Task
  BY Bounds
<1>1. Saved'
  BY <1>0, SavedStays DEF ReadPosition, At, Idle, Go, Done, Finish, durable, Unsaved, SInv, IInv, TypedTasks
<1>2. OrdersKnown'
  BY <1>0, OrdersStay DEF ReadPosition, At, Idle, Go, Done, Finish, SInv, OrdersKnown, IInv, TypedTasks
<1> QED BY <1>1, <1>2

LEMMA ReadResolvesSaves ==
  ASSUME SInv, NoCallFails, NEW t \in Rec, ReadResolves(t)
  PROVE  Saved' /\ OrdersKnown'
<1>0. t \in Task
  BY Bounds
<1>1. Saved'
  BY <1>0, SavedStays DEF ReadResolves, At, Idle, Go, Done, Finish, durable, Unsaved, SInv, IInv, TypedTasks
<1>2. OrdersKnown'
  BY <1>0, OrdersStay DEF ReadResolves, At, Idle, Go, Done, Finish, SInv, OrdersKnown, IInv, TypedTasks
<1> QED BY <1>1, <1>2

LEMMA ReadAgreesSaves ==
  ASSUME SInv, NoCallFails, NEW t \in Rec, ReadAgrees(t)
  PROVE  Saved' /\ OrdersKnown'
<1>0. t \in Task
  BY Bounds
<1>1. Saved'
  BY <1>0, SavedStays DEF ReadAgrees, At, Idle, Go, Done, Finish, durable, Unsaved, SInv, IInv, TypedTasks
<1>2. OrdersKnown'
  BY <1>0, OrdersStay DEF ReadAgrees, At, Idle, Go, Done, Finish, SInv, OrdersKnown, IInv, TypedTasks
<1> QED BY <1>1, <1>2

LEMMA ReadAdoptsSaves ==
  ASSUME SInv, NoCallFails, NEW t \in Rec, ReadAdopts(t)
  PROVE  Saved' /\ OrdersKnown'
<1>0. t \in Task
  BY Bounds
<1>1. Saved'
  BY <1>0, SavedStays DEF ReadAdopts, At, Idle, Go, Done, Finish, durable, Unsaved, SInv, IInv, TypedTasks
<1>2. OrdersKnown'
  BY <1>0, OrdersStay DEF ReadAdopts, At, Idle, Go, Done, Finish, SInv, OrdersKnown, IInv, TypedTasks
<1> QED BY <1>1, <1>2

LEMMA AdoptVenueOwnershipSaves ==
  ASSUME SInv, NoCallFails, NEW t \in Rec, AdoptVenueOwnership(t)
  PROVE  Saved' /\ OrdersKnown'
<1>0. t \in Task
  BY Bounds
<1>1. Saved'
  BY <1>0, SavedStays DEF AdoptVenueOwnership, At, Idle, Go, Done, Finish, durable, Unsaved, SInv, IInv, TypedTasks
<1>2. OrdersKnown'
  BY <1>0, OrdersStay DEF AdoptVenueOwnership, At, Idle, Go, Done, Finish, SInv, OrdersKnown, IInv, TypedTasks
<1> QED BY <1>1, <1>2

LEMMA ReadFindsDeficitSaves ==
  ASSUME SInv, NoCallFails, NEW t \in Rec, ReadFindsDeficit(t)
  PROVE  Saved' /\ OrdersKnown'
<1>0. t \in Task
  BY Bounds
<1>1. Saved'
  BY <1>0, SavedStays DEF ReadFindsDeficit, At, Idle, Go, Done, Finish, durable, Unsaved, SInv, IInv, TypedTasks
<1>2. OrdersKnown'
  BY <1>0, OrdersStay DEF ReadFindsDeficit, At, Idle, Go, Done, Finish, SInv, OrdersKnown, IInv, TypedTasks
<1> QED BY <1>1, <1>2

LEMMA PollStopSaves ==
  ASSUME SInv, NoCallFails, NEW t \in Rec, PollStop(t)
  PROVE  Saved' /\ OrdersKnown'
<1>0. t \in Task
  BY Bounds
<1>1. Saved'
  BY <1>0, SavedStays DEF PollStop, At, Idle, Go, Done, Finish, durable, Unsaved, SInv, IInv, TypedTasks
<1>2. OrdersKnown'
  BY <1>0, OrdersStay DEF PollStop, At, Idle, Go, Done, Finish, SInv, OrdersKnown, IInv, TypedTasks
<1> QED BY <1>1, <1>2

LEMMA ResizeStopToOwnedSaves ==
  ASSUME SInv, NoCallFails, NEW t \in Rec, ResizeStopToOwned(t)
  PROVE  Saved' /\ OrdersKnown'
<1>0. t \in Task
  BY Bounds
<1>1. Saved'
  BY <1>0, SavedStays DEF ResizeStopToOwned, At, Idle, Go, Done, Finish, durable, Unsaved, SInv, IInv, TypedTasks
<1>2. OrdersKnown'
  BY <1>0, OrdersStay DEF ResizeStopToOwned, At, Idle, Go, Done, Finish, SInv, OrdersKnown, IInv, TypedTasks
<1> QED BY <1>1, <1>2

(* SInv is inductive.                                                        *)
LEMMA NextSInv == SInv /\ [Next]_vars => SInv'
<1> SUFFICES ASSUME SInv, [Next]_vars PROVE SInv'
  OBVIOUS
<1>0. IInv'
  BY NextIInv DEF SInv
<1>m. NoCallFails' => NoCallFails
  BY SettingStays DEF SInv, NoCallFails
<1> SUFFICES ASSUME NoCallFails PROVE Saved' /\ OrdersKnown'
  BY <1>0, <1>m DEF SInv
<1>1. ASSUME NEW s \in Sig, NEW q, ExitBegins(s, q) PROVE Saved' /\ OrdersKnown'
  <2> DEFINE m == [loc[s] EXCEPT !.want = Min({q, Arbiter!Available(ledger)}),
                                 !.stopped = (life.stop.id # 0), !.id = life.stop.id]
  <2>0. s \in Task /\ pc[s] = "idle"
    BY <1>1, Bounds DEF ExitBegins, Idle, At
  <2>1. loc' = [loc EXCEPT ![s] = m]
    BY <1>1, <2>0 DEF ExitBegins, SInv, IInv, TypedTasks
  <2>2. PICK label \in {"submit", "amend", "cancel"} :
          /\ pc' = [pc EXCEPT ![s] = label]
          /\ label # "submit" => UNCHANGED <<life, ledger, row>>
    BY <1>1 DEF ExitBegins, ReserveFor, Go, durable
  <2> HIDE DEF m
  <2> QED BY <2>0, <2>1, <2>2, SavedStays, OrdersStay DEF Unsaved
<1>2. ASSUME NEW s \in Sig, Entering(s) \/ ExitProceeds(s) \/ Ratchet(s)
      PROVE  Saved' /\ OrdersKnown'
  BY <1>2, StartPlanSaves, EntryFillsSaves, OnEntryFillSaves, ExitAmendsSaves, ExitCancelsSaves,
     ExitSubmitsSaves, ExitUnresolvedSaves, ExitAnsweredSaves, RatchetSaves
  DEF Entering, ExitProceeds
<1>3. ASSUME NEW t \in Task, PlacingStop(t) \/ Restoring(t) \/ Repricing(t) \/ OnStopFilled(t)
      PROVE  Saved' /\ OrdersKnown'
  BY <1>3, AdoptionFindsNothingSaves, AdoptionRejectedSaves, AdoptionFilledSaves, OrderStopSaves,
     StopOrderedSaves, BrokerCallRaisesSaves, RestoreCoverageSaves, RepriceBeginsSaves,
     RepriceReplacesSaves, RepriceCancelsSaves, OnStopFilledSaves
  DEF PlacingStop, Restoring, Repricing
<1>4. ASSUME NEW r \in Rec, Resolving(r) \/ RetryUnprotected(r) \/ ReconcilingPosition(r)
      PROVE  Saved' /\ OrdersKnown'
  BY <1>4, PollExitSaves, NothingToResolveSaves, ResolvePartialSaves, ResolveFinalSaves,
     RetryUnprotectedSaves, ReadPositionSaves, ReadResolvesSaves, ReadAgreesSaves, ReadAdoptsSaves,
     AdoptVenueOwnershipSaves, ReadFindsDeficitSaves, PollStopSaves, ResizeStopToOwnedSaves
  DEF Resolving, ReconcilingPosition
<1>5. CASE Venue \/ UNCHANGED vars
  BY <1>5 DEF Venue, StopTriggers, ExitEnds, ExitProgresses, vars, durable, SInv, Saved, OrdersKnown
<1>6. CASE PriceTick
  BY <1>6 DEF PriceTick, SInv, Saved, OrdersKnown
<1>7. CASE CrashAndRestart
  <2>1. row = RowOf(row.life, row.ledger)
    BY DEF RowOf, Row, SInv, IInv, TypedBooks
  <2> QED BY <1>7, <2>1 DEF CrashAndRestart, durable, Saved, OrdersKnown
<1> QED BY <1>1, <1>2, <1>3, <1>4, <1>5, <1>6, <1>7 DEF Next

(* Where no broker call fails, at any point where no operation holds the     *)
(* arbiter's lock the stored row is what a restart must find: nothing the    *)
(* manager has changed (lifecycle, pending exit, arbiter snapshot) is in     *)
(* memory only.                                                              *)
THEOREM RowsKeepUp == Spec => []Checkpointed
<1>1. Init => SInv
  <2>1. Init => Saved /\ OrdersKnown
    BY DEF Init, Saved, OrdersKnown, RowOf, NoRow, NoLife
  <2> QED BY <2>1, InitIInv DEF SInv
<1>2. SInv => Checkpointed
  BY DEF SInv, Saved, Unsaved, Checkpointed, At
<1> QED BY <1>1, <1>2, NextSInv, PTL DEF Spec
=============================================================================
