----------------------- MODULE PositionLifecycleSales -----------------------
(* Third part: what can be sold.  Calm says where the one resting stop is,   *)
(* what it covers and what the account holds, at every label of every        *)
(* handler; it is what NeverOversold needs to be inductive.  AInv says that  *)
(* what the arbiter has reserved is what is in flight: hence a working exit  *)
(* is never forgotten and the manager's use of the arbiter implements the    *)
(* arbiter's own specification (the refinement mapping is in                 *)
(* PositionLifecycle).                                                       *)
EXTENDS PositionLifecycleOrder

-----------------------------------------------------------------------------
(* Exits answer at once: one stop at most rests, it is the one the record    *)
(* (or the task placing it) names, and covers no more than an exit in flight *)
(* leaves; and until it fills, the account holds what the books say.         *)
Submitting == {"submit", "answered"}
Current == IF lock # NoTask /\ pc[lock] = "ordered" THEN loc[lock].id ELSE life.stop.id
Spared == IF lock # NoTask /\ pc[lock] \in Submitting THEN loc[lock].want ELSE 0
Sold == IF lock # NoTask /\ pc[lock] = "answered" THEN vexit[loc[lock].id].filled ELSE 0
Bought == IF \E t \in Task : pc[t] = "bought" THEN env.may.lot ELSE 0

Books ==
  /\ NoUnresolvedExit /\ ledger.owned = life.owned /\ ledger.owned >= 0
  /\ ~Active => life.stop.id = 0 /\ ledger.owned = 0
  /\ \A e \in ExitId : vexit[e].st # "working"
Alone == \A s \in StopId : Rests(s) => s = Current
Fits == Rests(Current) => vstop[Current].qty <= ledger.owned - Spared
Tracks ==
  Current = 0 \/ vstop[Current].st # "filled" => held = ledger.owned - Sold + Bought
Ready(t) ==
  /\ pc[t] \in Entry \cup {"place", "order", "ordered", "stopfill"} => life.stop.id = 0
  /\ pc[t] \in {"place", "order", "ordered", "restore", "resize", "recancel"}
       => loc[t].target = ledger.owned
  /\ pc[t] = "amend" => loc[t].want < ledger.owned
  /\ pc[t] \in {"cancel"} \cup Submitting => loc[t].want <= ledger.owned
  /\ pc[t] \in Submitting /\ life.stop.id # 0 => loc[t].amended /\ loc[t].want < ledger.owned
  /\ pc[t] = "answered" => loc[t].ans = "terminal" /\ vexit[loc[t].id].filled <= loc[t].want
  /\ pc[t] # "resolve"
Calm == Books /\ Alone /\ Fits /\ Tracks /\ \A t \in Task : Ready(t)
MInv == RInv /\ (AnswersAtOnce => Calm)

(* What AnswersAtOnce gives, in one place.                                   *)
LEMMA Known ==
  ASSUME MInv, AnswersAtOnce
  PROVE  /\ RInv /\ IInv /\ NoLostAnswers /\ Recorded /\ Blind /\ Orderly /\ ~Fault
         /\ Books /\ Alone /\ Fits /\ Tracks /\ \A t \in Task : Ready(t) /\ Placed(t) /\ Located(t) /\ Aimed(t)
         /\ pc \in [Task -> Label] /\ loc \in [Task -> Locals] /\ life \in Life
         /\ ledger \in Arbiter!Ledger /\ lock \in Task \cup {NoTask} /\ NoTask \notin Task
         /\ env \in Env /\ env.may \in Setting /\ env.may.lot \in Nat
         /\ ledger.owned \in Nat /\ life.stop.id \in 0..MaxStops /\ life.stop.id \in Nat
         /\ Sig \subseteq Task /\ Rec \subseteq Task /\ ~env.may.works
<1>1. RInv /\ IInv /\ NoLostAnswers /\ Recorded /\ Calm
  BY DEF MInv, RInv, OInv, AnswersAtOnce
<1>2. Blind /\ Orderly /\ ~Fault
  BY <1>1, Undisturbed DEF RInv
<1>3. env \in Env /\ env.may \in Setting /\ env.may.lot \in Nat
  BY <1>1, Bounds DEF IInv, Env
<1>4. life \in Life /\ ledger \in Arbiter!Ledger
  BY <1>1 DEF IInv, TypedBooks
<1>5. ledger.owned \in Nat
  BY <1>1, <1>4 DEF Calm, Books, Arbiter!Ledger
<1> QED BY <1>1, <1>2, <1>3, <1>4, <1>5, Bounds, LifeParts
     DEF Calm, Recorded, Orderly, IInv, TypedTasks, AnswersAtOnce

(* What the stop, the exit and the entry under way are, where one task alone *)
(* is under way.                                                             *)
Others(t) == \A u \in Task \ {t} : pc[u] \in {"idle", "reprice"}
CurrentOf(t) == IF pc[t] = "ordered" THEN loc[t].id ELSE life.stop.id
SparedOf(t) == IF pc[t] \in Submitting THEN loc[t].want ELSE 0
SoldOf(t) == IF pc[t] = "answered" THEN vexit[loc[t].id].filled ELSE 0
BoughtOf(t) == IF pc[t] = "bought" THEN env.may.lot ELSE 0
Seen(t) ==
  /\ \A s \in StopId : Rests(s) => s = CurrentOf(t)
  /\ Rests(CurrentOf(t)) => vstop[CurrentOf(t)].qty <= ledger.owned - SparedOf(t)
  /\ CurrentOf(t) = 0 \/ vstop[CurrentOf(t)].st # "filled"
       => held = ledger.owned - SoldOf(t) + BoughtOf(t)

Solitary ==
  OInv /\ Orderly => \A t \in Task : Others(t) =>
    /\ Current = CurrentOf(t) /\ Spared = SparedOf(t)
    /\ Sold = SoldOf(t) /\ Bought = BoughtOf(t)

(* What the stop, the exit and the entry under way are, told from the one    *)
(* task that moves.                                                          *)
LEMMA Own == Solitary
<1> SUFFICES ASSUME OInv, Orderly, NEW t \in Task, Others(t)
             PROVE  /\ Current = CurrentOf(t) /\ Spared = SparedOf(t)
                    /\ Sold = SoldOf(t) /\ Bought = BoughtOf(t)
  BY DEF Solitary
<1>1. lock = t \/ (lock = NoTask /\ pc[t] \notin Holding)
  <2>1. lock \in Task \cup {NoTask} /\ Located(t) /\ NoTask \notin Task /\ Locked
    BY Bounds DEF OInv, IInv, TypedTasks, Orderly
  <2>2. lock # NoTask => lock = t
    BY <2>1 DEF Locked, Others, Holding
  <2>3. pc[t] \in Holding => lock = t
    BY <2>1 DEF Located
  <2>4. CASE lock = NoTask
    BY <2>3, <2>4, Bounds
  <2> QED BY <2>2, <2>4
<1>2. t # NoTask
  BY Bounds
<1>3. Bought = BoughtOf(t)
  BY DEF Bought, BoughtOf, Others
<1> QED BY <1>1, <1>2, <1>3 DEF Current, CurrentOf, Spared, SparedOf, Sold, SoldOf, Holding, Submitting

LEMMA SeenNow ==
  ASSUME MInv, AnswersAtOnce, NEW t \in Task, Others(t)
  PROVE  Seen(t)
BY Known, Own DEF Solitary, RInv, Seen, Alone, Fits, Tracks

(* Who holds the lock, enters, sells, or finds no position moves alone.      *)
LEMMA Moving ==
  ASSUME MInv, AnswersAtOnce, NEW t \in Task,
         \/ lock = t
         \/ lock = NoTask /\ pc[t] \in Entry
         \/ lock = NoTask /\ ledger.owned > 0
         \/ ~Active
  PROVE  Others(t) /\ lock \in {t, NoTask}
<1>1. lock \in {t, NoTask}
  BY Known DEF Orderly, Locked
<1> SUFFICES ASSUME NEW u \in Task \ {t} PROVE pc[u] \in {"idle", "reprice"}
  BY <1>1 DEF Others
<1>2. pc[u] \notin Holding \cup {"stopfill"}
  BY <1>1, Known DEF Located, Placed
<1>3. pc[u] \notin Entry
  BY Known DEF Orderly, Placed, OneEntry
<1>4. pc[u] \notin {"resolve", "read", "adopt", "pollstop", "fit"}
  BY Known DEF Ready, Placed
<1> QED BY <1>2, <1>3, <1>4, Known DEF Label, Entry

(* A step of the one task that moves keeps Calm if what it sees does; a step *)
(* of a task that stays out of it keeps Calm.                                *)
LEMMA MoverCalm ==
  ASSUME MInv, RInv', AnswersAtOnce, env'.may = env.may, NEW t \in Task,
         Others(t), Elsewhere(t), Books', Ready(t)', Seen(t)'
  PROVE  Calm'
<1>1. OInv' /\ Orderly'
  BY Known DEF RInv, OInv, Blind
<1>2. Others(t)'
  BY DEF Others, Elsewhere
<1>3. /\ Current' = CurrentOf(t)' /\ Spared' = SparedOf(t)'
      /\ Sold' = SoldOf(t)' /\ Bought' = BoughtOf(t)'
  <2>1. Solitary'
    BY Own, PTL
  <2> QED BY <1>1, <1>2, <2>1 DEF Solitary
<1>4. Alone' /\ Fits' /\ Tracks'
  BY <1>3 DEF Seen, Alone, Fits, Tracks
<1>5. \A u \in Task : Ready(u)'
  BY <1>2 DEF Others, Ready, Entry, Submitting
<1> QED BY <1>4, <1>5 DEF Calm

LEMMA BystanderCalm ==
  ASSUME MInv, AnswersAtOnce, env'.may = env.may, NEW t \in Task, Elsewhere(t),
         pc[t] \in {"idle", "reprice"}, pc'[t] \in {"idle", "reprice"},
         UNCHANGED <<held, vstop, vexit, ledger, lock, life>>
  PROVE  Calm'
<1>1. \A u \in Task : Ready(u)'
  BY Known DEF Elsewhere, Ready, Entry, Submitting
<1>2. Books'
  BY Known DEF Books, NoUnresolvedExit, Active
<1>3. lock # NoTask => lock \in Task \ {t}
  BY Known DEF Orderly, Locked, Holding
<1>4. UNCHANGED <<Current, Spared, Sold>>
  BY <1>3 DEF Current, Spared, Sold, Elsewhere
<1>5. UNCHANGED Bought
  BY DEF Bought, Elsewhere
<1>6. Alone' /\ Fits' /\ Tracks'
  BY <1>4, <1>5, Known DEF Alone, Fits, Tracks, Rests
<1> QED BY <1>1, <1>2, <1>6 DEF Calm

(* Every action keeps Calm.                                                  *)
LEMMA StartPlanCalm ==
  ASSUME MInv, RInv', AnswersAtOnce, env'.may = env.may, NEW t \in Sig, StartPlan(t)
  PROVE  Calm'
<1>t. t \in Task /\ pc[t] \in Label /\ loc[t] \in Locals
  BY Known
<1>e. Elsewhere(t)
  BY Known DEF StartPlan, Finish, Done, Go, ReserveFor, Elsewhere
<1>o. Others(t) /\ Seen(t) /\ ~Active /\ Books
  BY <1>t, Moving, SeenNow, Known DEF StartPlan, MayEnter
<1>0. /\ life'.st = "open" /\ life'.owned = 0 /\ life'.stop.id = 0 /\ life'.pending.st = "none"
      /\ pc[t] = "idle" /\ pc'[t] = "entry" /\ UNCHANGED <<held, vstop, vexit, ledger>>
  BY <1>t, Known DEF StartPlan, Idle, At, Go, venue, NoLife, NoStop, NoPending
<1>1. Books'
  BY <1>o, <1>0 DEF Books, NoUnresolvedExit, Active
<1>2. Ready(t)'
  BY <1>0 DEF Ready, Entry, Submitting
<1>3. Seen(t)'
  BY <1>o, <1>0 DEF Seen, CurrentOf, SparedOf, SoldOf, BoughtOf, Submitting, Rests, Books
<1> QED BY <1>t, <1>e, <1>o, <1>1, <1>2, <1>3, MoverCalm

LEMMA EntryFillsCalm ==
  ASSUME MInv, RInv', AnswersAtOnce, env'.may = env.may, NEW t \in Sig, EntryFills(t)
  PROVE  Calm'
<1>t. t \in Task /\ pc[t] \in Label /\ loc[t] \in Locals
  BY Known
<1>e. Elsewhere(t)
  BY Known DEF EntryFills, Finish, Done, Go, ReserveFor, Elsewhere
<1>o. pc[t] = "entry" /\ Others(t) /\ Seen(t) /\ Ready(t)
  <2>1. pc[t] = "entry" /\ lock = NoTask
    BY <1>t, Known DEF EntryFills, At, Placed, Entry
  <2> QED BY <1>t, <2>1, Moving, SeenNow, Known DEF Entry
<1>0. /\ pc'[t] = "bought" /\ held' = held + env.may.lot /\ UNCHANGED <<vstop, vexit, ledger, life>>
  BY <1>t, Known DEF EntryFills, Go
<1>1. Books'
  BY <1>0, Known DEF Books, NoUnresolvedExit, Active
<1>2. Ready(t)'
  BY <1>o, <1>0 DEF Ready, Entry, Submitting
<1>3. Seen(t)'
  <2>1. held \in Int /\ env.may.lot \in Nat /\ ledger.owned \in Nat
    BY Known DEF IInv, TypedVenue
  <2> QED BY <1>o, <1>0, <2>1 DEF Seen, CurrentOf, SparedOf, SoldOf, BoughtOf, Submitting, Rests, Ready, Entry
<1> QED BY <1>t, <1>e, <1>o, <1>1, <1>2, <1>3, MoverCalm

LEMMA OnEntryFillCalm ==
  ASSUME MInv, RInv', AnswersAtOnce, env'.may = env.may, NEW t \in Sig, OnEntryFill(t)
  PROVE  Calm'
<1>t. t \in Task /\ pc[t] \in Label /\ loc[t] \in Locals
  BY Known
<1>e. Elsewhere(t)
  BY Known DEF OnEntryFill, Finish, Done, Go, ReserveFor, Elsewhere
<1>o. pc[t] = "bought" /\ Others(t) /\ Seen(t) /\ Ready(t) /\ Active /\ ledger.owned = 0
  <2>1. pc[t] = "bought" /\ lock = NoTask
    BY <1>t, Known DEF OnEntryFill, At, Placed, Entry
  <2> QED BY <1>t, <2>1, Moving, SeenNow, Known DEF Entry, Placed
<1>0. /\ pc'[t] = "place" /\ UNCHANGED <<held, vstop, vexit>> /\ loc'[t].target = env.may.lot
      /\ ledger'.owned = env.may.lot /\ life'.owned = env.may.lot /\ life'.st = life.st
      /\ life'.stop.id = life.stop.id /\ life'.pending = life.pending
  BY <1>t, Known, LedgerOwned DEF OnEntryFill, Go, venue, Placing, Life, Stop, Locals
<1>1. Books'
  BY <1>o, <1>0, Known DEF Books, NoUnresolvedExit, Active
<1>2. Ready(t)'
  BY <1>o, <1>0 DEF Ready, Entry, Submitting
<1>3. Seen(t)'
  BY <1>o, <1>0, Known DEF Seen, CurrentOf, SparedOf, SoldOf, BoughtOf, Submitting, Rests, Ready, Entry
<1> QED BY <1>t, <1>e, <1>o, <1>1, <1>2, <1>3, MoverCalm

LEMMA ExitBeginsCalm ==
  ASSUME MInv, RInv', AnswersAtOnce, env'.may = env.may, NEW t \in Sig, NEW q \in Nat, ExitBegins(t, q)
  PROVE  Calm'
<1>t. t \in Task /\ pc[t] \in Label /\ loc[t] \in Locals
  BY Known
<1>e. Elsewhere(t)
  BY Known DEF ExitBegins, Go, ReserveFor, Elsewhere
<1> DEFINE want == Min({q, Arbiter!Available(ledger)})
<1>w. want \in Nat /\ want > 0 /\ want <= ledger.owned /\ ledger.owned > 0
  <2>1. Arbiter!Available(ledger) \in Nat /\ Arbiter!Available(ledger) <= ledger.owned
    BY Known DEF Arbiter!Available, Arbiter!AtLeastZero, Arbiter!Ledger
  <2>2. want = q \/ want = Arbiter!Available(ledger)
    BY <2>1, MinOfTwo
  <2>3. want <= Arbiter!Available(ledger)
    BY <2>1, MinOfTwo
  <2>4. want > 0
    BY DEF ExitBegins
  <2> HIDE DEF want
  <2> QED BY <2>1, <2>2, <2>3, <2>4, Known
<1>0. /\ lock = NoTask /\ pc[t] = "idle" /\ UNCHANGED <<held, vstop, vexit, life>>
      /\ loc'[t].want = want
  BY <1>t, Known DEF ExitBegins, Idle, At, venue, Locals
<1>p. \/ pc'[t] = "amend" /\ want < ledger.owned /\ UNCHANGED ledger
      \/ pc'[t] = "cancel" /\ UNCHANGED ledger
      \/ pc'[t] = "submit" /\ life.stop.id = 0 /\ ledger' = Arbiter!ReserveIn(ledger, want)
  BY <1>t, <1>w, Known DEF ExitBegins, ReserveFor, Go
<1>l. ledger'.owned = ledger.owned
  BY <1>p, Known, LedgerOwned
<1> HIDE DEF want
<1>o. Others(t) /\ Seen(t)
  BY <1>t, <1>w, <1>0, Moving, SeenNow, Known
<1>1. Books'
  BY <1>0, <1>l, Known DEF Books, NoUnresolvedExit, Active
<1>2. Ready(t)'
  BY <1>w, <1>0, <1>p, <1>l DEF Ready, Entry, Submitting
<1>3. Seen(t)'
  BY <1>o, <1>0, <1>p, <1>l DEF Seen, CurrentOf, SparedOf, SoldOf, BoughtOf, Submitting, Rests
<1> QED BY <1>t, <1>e, <1>o, <1>1, <1>2, <1>3, MoverCalm

LEMMA ExitAmendsCalm ==
  ASSUME MInv, RInv', AnswersAtOnce, env'.may = env.may, NEW t \in Sig, ExitAmends(t)
  PROVE  Calm'
<1>t. t \in Task /\ pc[t] \in Label /\ loc[t] \in Locals
  BY Known
<1>e. Elsewhere(t)
  BY Known DEF ExitAmends, Finish, Done, Go, ReserveFor, Elsewhere
<1>o. lock = t /\ pc[t] = "amend" /\ Others(t) /\ Seen(t) /\ Ready(t) /\ Active
  <2>1. pc[t] = "amend" /\ lock = t
    BY <1>t, Known DEF ExitAmends, At, Located, Holding
  <2> QED BY <1>t, <2>1, Moving, SeenNow, Known DEF Orderly, Locked
<1>i. loc[t].id = life.stop.id /\ loc[t].id \in StopId /\ 0 \notin StopId
  BY <1>t, <1>o, Known, Bounds DEF Aimed, Aiming, Recorded, Named, AtVenue, StopId
<1> DEFINE q == LeftBy(ledger, loc[t].want)
<1>l. q \in Nat /\ q = ledger.owned - loc[t].want /\ loc[t].want \in Nat /\ loc[t].want < ledger.owned
  BY <1>t, <1>o, Known DEF LeftBy, Ready, Locals
<1>p. PICK id \in -1..MaxStops :
        /\ VenueReplace(loc[t].id, q, id)
        /\ IF id > 0
           THEN /\ life' = [life EXCEPT !.stop.id = id, !.stop.qty = q]
                /\ loc' = [loc EXCEPT ![t].amended = TRUE]
                /\ ledger' = Arbiter!ReserveIn(ledger, loc[t].want)
                /\ Go(t, "submit")
           ELSE Go(t, "cancel") /\ UNCHANGED <<ledger, life, loc>>
  BY DEF ExitAmends, ReserveFor
<1> HIDE DEF q
<1>n. RInv /\ NoLostAnswers
  BY Known
<1>h. UNCHANGED <<held, vexit>>
  BY DEF ExitAmends
<1>y. CASE id > 0
  <2>a. id > 0
    BY <1>y
  <2>1. /\ id \in StopId /\ vstop' = Replaced(loc[t].id, q, id)
        /\ Rests(loc[t].id) /\ (id = loc[t].id \/ vstop[id].st = "none")
    BY <1>i, <1>l, <1>n, <1>p, <2>a, Known, ReplaceAnswers
  <2>2. \A s \in StopId : Rests(s)' => s = id
    <3>1. \A s \in StopId : Rests(s) => s = loc[t].id
      BY <1>o, <1>i DEF Seen, CurrentOf
    <3> QED BY <1>i, <2>1, <3>1, Known DEF Replaced, Rests, IInv, TypedVenue, StopOrder
  <2>3. vstop'[id].st = "resting" /\ vstop'[id].qty = q
    BY <1>i, <2>1, Known DEF Replaced, Rests, IInv, TypedVenue, StopOrder
  <2>4. life'.st = life.st /\ life'.owned = life.owned /\ life'.pending = life.pending /\ life'.stop.id = id
    <3>1. life' = [life EXCEPT !.stop.id = id, !.stop.qty = q]
      BY <1>p, <2>a
    <3>2. [life EXCEPT !.stop.id = id, !.stop.qty = q].stop.id = id
      BY Known DEF Life, Stop
    <3> QED BY <3>1, <3>2, Known DEF Life
  <2>5. pc'[t] = "submit" /\ loc'[t].want = loc[t].want /\ loc'[t].amended /\ ledger'.owned = ledger.owned
    BY <1>t, <1>p, <2>a, Known, LedgerOwned DEF Go, Locals
  <2>6. Books'
    BY <1>h, <1>o, <2>4, <2>5, Known DEF Books, NoUnresolvedExit, Active
  <2>7. Ready(t)'
    BY <1>l, <2>5, Known DEF Ready, Entry, Submitting
  <2>8. Seen(t)'
    <3>1. held = ledger.owned
      BY <1>o, <1>i, <2>1, Known DEF Seen, CurrentOf, SparedOf, SoldOf, BoughtOf, Submitting, Rests
    <3>2. held' = ledger'.owned - 0 + 0
      BY <1>h, <2>5, <3>1, Known
    <3> QED BY <1>l, <2>2, <2>3, <2>4, <2>5, <3>2 DEF Seen, CurrentOf, SparedOf, SoldOf, BoughtOf, Submitting, Rests
  <2> QED BY <1>t, <1>e, <1>o, <2>6, <2>7, <2>8, MoverCalm
<1>z. CASE ~(id > 0)
  <2>1. UNCHANGED <<vstop, life, loc, ledger>>
    BY <1>i, <1>l, <1>n, <1>p, <1>z, ReplaceAnswers
  <2>2. pc'[t] = "cancel"
    BY <1>t, <1>p, <1>z, Known DEF Go
  <2>6. Books'
    BY <1>h, <2>1, Known DEF Books, NoUnresolvedExit, Active
  <2>7. Ready(t)'
    BY <1>l, <2>1, <2>2, Known DEF Ready, Entry, Submitting
  <2>8. Seen(t)'
    BY <1>o, <1>h, <2>1, <2>2 DEF Seen, CurrentOf, SparedOf, SoldOf, BoughtOf, Submitting, Rests
  <2> QED BY <1>t, <1>e, <1>o, <2>6, <2>7, <2>8, MoverCalm
<1> QED BY <1>y, <1>z

LEMMA ExitCancelsCalm ==
  ASSUME MInv, RInv', AnswersAtOnce, env'.may = env.may, NEW t \in Sig, ExitCancels(t)
  PROVE  Calm'
<1>t. t \in Task /\ pc[t] \in Label /\ loc[t] \in Locals
  BY Known
<1>e. Elsewhere(t)
  BY Known DEF ExitCancels, Finish, Done, Go, ReserveFor, Elsewhere
<1>o. lock = t /\ pc[t] = "cancel" /\ Others(t) /\ Seen(t) /\ Ready(t) /\ Active
  <2>1. pc[t] = "cancel" /\ lock = t
    BY <1>t, Known DEF ExitCancels, At, Located, Holding
  <2> QED BY <1>t, <2>1, Moving, SeenNow, Known DEF Orderly, Locked
<1>i. loc[t].id = life.stop.id /\ loc[t].id \in StopId /\ 0 \notin StopId
  BY <1>t, <1>o, Known, Bounds DEF Aimed, Aiming, Recorded, Named, AtVenue, StopId
<1>p. PICK ans \in BOOLEAN :
        /\ VenueCancel(loc[t].id, ans)
        /\ IF ans
           THEN life' = [life EXCEPT !.stop.status = "unprotected", !.stop.id = 0] /\ Go(t, "submit") /\ ledger' = Arbiter!ReserveIn(ledger, loc[t].want) /\ loc' = loc
           ELSE Done(t) /\ UNCHANGED <<ledger, life>>
  BY DEF ExitCancels, ReserveFor
<1>h. UNCHANGED <<held, vexit>>
  BY DEF ExitCancels
<1>n. RInv /\ NoLostAnswers /\ loc[t].id \in Nat
  BY <1>i, Known
<1>y. CASE ans
  <2>1. Rests(loc[t].id) /\ vstop' = [vstop EXCEPT ![loc[t].id].st = "cancelled"]
    BY <1>n, <1>p, <1>y, CancelAnswers
  <2>2. \A s \in StopId : ~Rests(s)'
    <3>1. \A s \in StopId : Rests(s) => s = loc[t].id
      BY <1>o, <1>i DEF Seen, CurrentOf
    <3> QED BY <1>i, <2>1, <3>1, Known DEF Rests, IInv, TypedVenue, StopOrder
  <2>4. life'.st = life.st /\ life'.owned = life.owned /\ life'.pending = life.pending /\ life'.stop.id = 0
    <3>1. life' = [life EXCEPT !.stop.status = "unprotected", !.stop.id = 0]
      BY <1>p, <1>y
    <3> DEFINE lf == [life EXCEPT !.stop.status = "unprotected", !.stop.id = 0]
    <3>2. lf.stop.id = 0 /\ lf.st = life.st /\ lf.owned = life.owned /\ lf.pending = life.pending
      BY Known DEF Life, Stop, Placing
    <3> QED BY <3>1, <3>2
  <2>5. pc'[t] = "submit" /\ loc'[t] = loc[t] /\ ledger'.owned = ledger.owned
    BY <1>t, <1>p, <1>y, Known, LedgerOwned DEF Go
  <2>6. Books'
    BY <1>h, <1>o, <2>4, <2>5, Known DEF Books, NoUnresolvedExit, Active
  <2>7. Ready(t)'
    BY <1>o, <2>4, <2>5 DEF Ready, Entry, Submitting
  <2>8. Seen(t)'
    <3>1. held = ledger.owned
      BY <1>o, <1>i, <2>1, Known DEF Seen, CurrentOf, SparedOf, SoldOf, BoughtOf, Submitting, Rests
    <3>2. held' = ledger'.owned - 0 + 0
      BY <1>h, <2>5, <3>1, Known
    <3> QED BY <2>2, <2>4, <2>5, <3>2 DEF Seen, CurrentOf, SparedOf, SoldOf, BoughtOf, Submitting, Rests
  <2> QED BY <1>t, <1>e, <1>o, <2>6, <2>7, <2>8, MoverCalm
<1>z. CASE ~ans
  <2>1. UNCHANGED <<vstop, life, ledger>>
    BY <1>n, <1>p, <1>z, CancelAnswers
  <2>2. pc'[t] = "idle"
    BY <1>t, <1>p, <1>z, Known DEF Done
  <2>6. Books'
    BY <1>h, <2>1, Known DEF Books, NoUnresolvedExit, Active
  <2>7. Ready(t)'
    BY <2>2 DEF Ready, Entry, Submitting
  <2>8. Seen(t)'
    BY <1>o, <1>h, <2>1, <2>2 DEF Seen, CurrentOf, SparedOf, SoldOf, BoughtOf, Submitting, Rests
  <2> QED BY <1>t, <1>e, <1>o, <2>6, <2>7, <2>8, MoverCalm
<1> QED BY <1>y, <1>z

LEMMA RepriceCancelsCalm ==
  ASSUME MInv, RInv', AnswersAtOnce, env'.may = env.may, NEW t \in Task, RepriceCancels(t)
  PROVE  Calm'
<1>t. t \in Task /\ pc[t] \in Label /\ loc[t] \in Locals
  BY Known
<1>e. Elsewhere(t)
  BY Known DEF RepriceCancels, Finish, Done, Go, ReserveFor, Elsewhere
<1>o. lock = t /\ pc[t] = "recancel" /\ Others(t) /\ Seen(t) /\ Ready(t) /\ Active
  <2>1. pc[t] = "recancel" /\ lock = t
    BY <1>t, Known DEF RepriceCancels, At, Located, Holding
  <2> QED BY <1>t, <2>1, Moving, SeenNow, Known DEF Orderly, Locked
<1>i. loc[t].id = life.stop.id /\ loc[t].id \in StopId /\ 0 \notin StopId
  BY <1>t, <1>o, Known, Bounds DEF Aimed, Aiming, Recorded, Named, AtVenue, StopId
<1>p. PICK ans \in BOOLEAN :
        /\ VenueCancel(loc[t].id, ans)
        /\ IF ans
           THEN life' = Placing([life EXCEPT !.stop.id = 0]) /\ Go(t, "place") /\ UNCHANGED <<ledger, loc>>
           ELSE Done(t) /\ UNCHANGED <<ledger, life>>
  BY DEF RepriceCancels, ReserveFor
<1>h. UNCHANGED <<held, vexit>>
  BY DEF RepriceCancels
<1>n. RInv /\ NoLostAnswers /\ loc[t].id \in Nat
  BY <1>i, Known
<1>y. CASE ans
  <2>1. Rests(loc[t].id) /\ vstop' = [vstop EXCEPT ![loc[t].id].st = "cancelled"]
    BY <1>n, <1>p, <1>y, CancelAnswers
  <2>2. \A s \in StopId : ~Rests(s)'
    <3>1. \A s \in StopId : Rests(s) => s = loc[t].id
      BY <1>o, <1>i DEF Seen, CurrentOf
    <3> QED BY <1>i, <2>1, <3>1, Known DEF Rests, IInv, TypedVenue, StopOrder
  <2>4. life'.st = life.st /\ life'.owned = life.owned /\ life'.pending = life.pending /\ life'.stop.id = 0
    <3>1. life' = Placing([life EXCEPT !.stop.id = 0])
      BY <1>p, <1>y
    <3> DEFINE lf == Placing([life EXCEPT !.stop.id = 0])
    <3>2. lf.stop.id = 0 /\ lf.st = life.st /\ lf.owned = life.owned /\ lf.pending = life.pending
      BY Known DEF Life, Stop, Placing
    <3> QED BY <3>1, <3>2
  <2>5. pc'[t] = "place" /\ loc'[t] = loc[t] /\ ledger'.owned = ledger.owned
    BY <1>t, <1>p, <1>y, Known, LedgerOwned DEF Go
  <2>6. Books'
    BY <1>h, <1>o, <2>4, <2>5, Known DEF Books, NoUnresolvedExit, Active
  <2>7. Ready(t)'
    BY <1>o, <2>4, <2>5 DEF Ready, Entry, Submitting
  <2>8. Seen(t)'
    <3>1. held = ledger.owned
      BY <1>o, <1>i, <2>1, Known DEF Seen, CurrentOf, SparedOf, SoldOf, BoughtOf, Submitting, Rests
    <3>2. held' = ledger'.owned - 0 + 0
      BY <1>h, <2>5, <3>1, Known
    <3> QED BY <2>2, <2>4, <2>5, <3>2 DEF Seen, CurrentOf, SparedOf, SoldOf, BoughtOf, Submitting, Rests
  <2> QED BY <1>t, <1>e, <1>o, <2>6, <2>7, <2>8, MoverCalm
<1>z. CASE ~ans
  <2>1. UNCHANGED <<vstop, life, ledger>>
    BY <1>n, <1>p, <1>z, CancelAnswers
  <2>2. pc'[t] = "idle"
    BY <1>t, <1>p, <1>z, Known DEF Done
  <2>6. Books'
    BY <1>h, <2>1, Known DEF Books, NoUnresolvedExit, Active
  <2>7. Ready(t)'
    BY <2>2 DEF Ready, Entry, Submitting
  <2>8. Seen(t)'
    BY <1>o, <1>h, <2>1, <2>2 DEF Seen, CurrentOf, SparedOf, SoldOf, BoughtOf, Submitting, Rests
  <2> QED BY <1>t, <1>e, <1>o, <2>6, <2>7, <2>8, MoverCalm
<1> QED BY <1>y, <1>z

LEMMA ExitSubmitsCalm ==
  ASSUME MInv, RInv', AnswersAtOnce, env'.may = env.may, NEW t \in Sig, ExitSubmits(t)
  PROVE  Calm'
<1>t. t \in Task /\ pc[t] \in Label /\ loc[t] \in Locals
  BY Known
<1>e. Elsewhere(t)
  BY Known DEF ExitSubmits, Finish, Done, Go, ReserveFor, Elsewhere
<1>o. lock = t /\ pc[t] = "submit" /\ Others(t) /\ Seen(t) /\ Ready(t) /\ Active
  <2>1. pc[t] = "submit" /\ lock = t
    BY <1>t, Known DEF ExitSubmits, At, Located, Holding
  <2> QED BY <1>t, <2>1, Moving, SeenNow, Known DEF Orderly, Locked
<1>0. PICK e \in ExitId, f \in 0..loc[t].want :
        /\ vexit' = [vexit EXCEPT ![e] = [st |-> "done", qty |-> loc[t].want, filled |-> f]]
        /\ held' = held - f /\ loc' = [loc EXCEPT ![t].ans = "terminal", ![t].id = e]
  BY Known, Fresh DEF ExitSubmits
<1>f. f \in Int /\ 0 <= f /\ f <= loc[t].want /\ loc[t].want \in Nat /\ held \in Int
  BY <1>t, Known DEF Locals, IInv, TypedVenue
<1>5. pc'[t] = "answered" /\ UNCHANGED <<vstop, ledger, life>>
  BY <1>t, Known DEF ExitSubmits, Go
<1>6. /\ loc'[t].ans = "terminal" /\ loc'[t].id = e /\ loc'[t].want = loc[t].want
      /\ loc'[t].amended = loc[t].amended
  BY <1>t, <1>0, Known DEF Locals
<1>7. vexit'[e].filled = f /\ \A x \in ExitId : vexit'[x].st = vexit[x].st \/ vexit'[x].st = "done"
  BY <1>0, Known DEF IInv, TypedVenue
<1>1. Books'
  BY <1>5, <1>7, Known DEF Books, NoUnresolvedExit, Active
<1>2. Ready(t)'
  BY <1>o, <1>f, <1>5, <1>6, <1>7 DEF Ready, Entry, Submitting
<1>3. Seen(t)'
  <2>1. CurrentOf(t) = life.stop.id /\ SparedOf(t) = loc[t].want /\ SoldOf(t) = 0 /\ BoughtOf(t) = 0
    BY <1>o DEF Seen, CurrentOf, SparedOf, SoldOf, BoughtOf, Submitting, Rests
  <2>2. CurrentOf(t)' = life.stop.id /\ SparedOf(t)' = loc[t].want /\ SoldOf(t)' = f /\ BoughtOf(t)' = 0
    BY <1>5, <1>6, <1>7 DEF Seen, CurrentOf, SparedOf, SoldOf, BoughtOf, Submitting, Rests
  <2>3. held = ledger.owned - 0 + 0 => held - f = ledger.owned - f + 0
    BY <1>f, Known
  <2> QED BY <1>o, <1>0, <1>5, <2>1, <2>2, <2>3 DEF Seen, Rests
<1> QED BY <1>t, <1>e, <1>o, <1>1, <1>2, <1>3, MoverCalm

(* No exit is left open.                                                     *)
LEMMA ExitUnresolvedNever ==
  ASSUME MInv, AnswersAtOnce, NEW t \in Sig
  PROVE  ~ExitUnresolved(t)
BY Known DEF ExitUnresolved, At, Ready

LEMMA ExitAnsweredCalm ==
  ASSUME MInv, RInv', AnswersAtOnce, env'.may = env.may, NEW t \in Sig, ExitAnswered(t)
  PROVE  Calm'
<1>t. t \in Task /\ pc[t] \in Label /\ loc[t] \in Locals
  BY Known
<1>e. Elsewhere(t)
  BY Known DEF ExitAnswered, AfterSettlement, Finish, Done, Go, Elsewhere
<1>o. lock = t /\ pc[t] = "answered" /\ Others(t) /\ Seen(t) /\ Ready(t) /\ Active
  <2>1. pc[t] = "answered" /\ lock = t
    BY <1>t, Known DEF ExitAnswered, At, Located, Holding
  <2> QED BY <1>t, <2>1, Moving, SeenNow, Known DEF Orderly, Locked
<1> DEFINE f == vexit[loc[t].id].filled
           left == ledger.owned - f
           lf == [life EXCEPT !.owned = ledger'.owned]
<1>f. f \in Nat /\ f <= loc[t].want /\ loc[t].want \in Nat /\ loc[t].want <= ledger.owned
  BY <1>t, <1>o, Known DEF Ready, Submitting, Located, Locals, IInv, TypedVenue, ExitOrder
<1>l. ledger'.owned = left
  BY <1>f, Known DEF ExitAnswered, Arbiter!SettleIn, Arbiter!CheckInvariant, Arbiter!Ledger
<1>s. AfterSettlement(t, lf, loc[t].stopped, loc[t].amended) /\ UNCHANGED <<held, vstop, vexit>>
  BY DEF ExitAnswered, venue
<1>5. /\ lf.owned = left /\ lf.st = "open" /\ lf.pending = life.pending /\ lf.stop = life.stop
      /\ lf.pending.st = "none" /\ lf \in Life
  BY <1>f, <1>l, <1>o, Known DEF Life, Active, Books, NoUnresolvedExit
<1>6. left \in Nat /\ left >= ledger.owned - loc[t].want
  BY <1>f, Known
<1>7. lf.stop.id # 0 => loc[t].amended /\ loc[t].want < ledger.owned
  BY <1>o, <1>5 DEF Ready, Submitting
<1>8. held = ledger.owned - f + 0 \/ ~(life.stop.id = 0 \/ vstop[life.stop.id].st # "filled")
  BY <1>o DEF Seen, CurrentOf, SparedOf, SoldOf, BoughtOf, Submitting, Rests
<1>9. life.stop.id \in StopId /\ vstop[life.stop.id].st = "resting" => vstop[life.stop.id].qty <= left
  <2> SUFFICES ASSUME life.stop.id \in StopId, vstop[life.stop.id].st = "resting"
               PROVE  vstop[life.stop.id].qty <= left
    OBVIOUS
  <2>1. life.stop.id # 0 /\ vstop[life.stop.id].qty \in Nat
    BY Bounds, Known DEF StopId, IInv, TypedVenue, StopOrder
  <2>2. vstop[life.stop.id].qty <= ledger.owned - loc[t].want
    BY <1>o, <2>1 DEF Seen, CurrentOf, SparedOf, SoldOf, BoughtOf, Submitting, Rests
  <2> QED BY <1>f, <1>6, <2>1, <2>2, Known
<1> HIDE DEF f, left, lf
<1>a. CASE Flat(lf) \/ ~loc[t].stopped
  <2>1. /\ pc'[t] = "idle" /\ life'.stop = lf.stop /\ life'.owned = left /\ life'.pending = life.pending
        /\ life'.st = IF left <= 0 THEN "closed" ELSE "open"
    BY <1>a, <1>t, <1>s, <1>5, Known DEF AfterSettlement, Finish, Done, Flat, Life
  <2>2. left <= 0 => life.stop.id = 0
    BY <1>f, <1>5, <1>6, <1>7, Known
  <2>3. Books'
    BY <1>l, <1>s, <1>5, <1>6, <2>1, <2>2, Known DEF Books, NoUnresolvedExit, Active
  <2>4. Ready(t)'
    BY <2>1 DEF Ready, Entry, Submitting
  <2>5. Seen(t)'
    <3>1. CurrentOf(t)' = life.stop.id /\ SparedOf(t)' = 0 /\ SoldOf(t)' = 0 /\ BoughtOf(t)' = 0
      BY <1>5, <2>1 DEF Seen, CurrentOf, SparedOf, SoldOf, BoughtOf, Submitting, Rests
    <3>2. CurrentOf(t) = life.stop.id
      BY <1>o DEF Seen, CurrentOf, SparedOf, SoldOf, BoughtOf, Submitting, Rests
    <3>3. left = left - 0 + 0 /\ left = ledger.owned - f + 0
      BY <1>f, <1>6, Known DEF left
    <3>4. life.stop.id # 0 => life.stop.id \in StopId
      BY Known DEF StopId
    <3> QED BY <1>o, <1>l, <1>s, <1>8, <1>9, <3>1, <3>2, <3>3, <3>4 DEF Seen, Rests
  <2> QED BY <1>t, <1>e, <1>o, <2>3, <2>4, <2>5, MoverCalm
<1>b. CASE ~(Flat(lf) \/ ~loc[t].stopped)
  <2>1. /\ loc'[t].target = left
        /\ pc'[t] = IF MayResize(lf, loc[t].amended) THEN "restore" ELSE "place"
        /\ life' = IF MayResize(lf, loc[t].amended) THEN lf ELSE Placing(lf)
    BY <1>b, <1>t, <1>s, <1>5, Known DEF AfterSettlement, Go, Locals
  <2>2. life'.stop.id = life.stop.id /\ life'.st = "open" /\ life'.owned = left /\ life'.pending = life.pending
    BY <1>5, <2>1 DEF Placing, Life, Stop
  <2>3. pc'[t] = "place" => life'.stop.id = 0
    BY <1>5, <1>7, <2>1, <2>2 DEF MayResize
  <2>4. Books'
    BY <1>l, <1>s, <1>5, <1>6, <2>2, Known DEF Books, NoUnresolvedExit, Active
  <2>5. Ready(t)'
    BY <1>l, <2>1, <2>3 DEF Ready, Entry, Submitting
  <2>6. Seen(t)'
    <3>1. CurrentOf(t)' = life.stop.id /\ SparedOf(t)' = 0 /\ SoldOf(t)' = 0 /\ BoughtOf(t)' = 0
      BY <2>1, <2>2 DEF Seen, CurrentOf, SparedOf, SoldOf, BoughtOf, Submitting, Rests
    <3>2. CurrentOf(t) = life.stop.id
      BY <1>o DEF Seen, CurrentOf, SparedOf, SoldOf, BoughtOf, Submitting, Rests
    <3>3. left = left - 0 + 0 /\ left = ledger.owned - f + 0
      BY <1>f, <1>6, Known DEF left
    <3>4. life.stop.id # 0 => life.stop.id \in StopId
      BY Known DEF StopId
    <3> QED BY <1>o, <1>l, <1>s, <1>8, <1>9, <3>1, <3>2, <3>3, <3>4 DEF Seen, Rests
  <2> QED BY <1>t, <1>e, <1>o, <2>4, <2>5, <2>6, MoverCalm
<1> QED BY <1>a, <1>b

LEMMA RatchetCalm ==
  ASSUME MInv, RInv', AnswersAtOnce, env'.may = env.may, NEW t \in Sig, Ratchet(t)
  PROVE  Calm'
<1>t. t \in Task /\ pc[t] \in Label /\ loc[t] \in Locals
  BY Known
<1>e. Elsewhere(t)
  BY Known DEF Ratchet, Finish, Done, Go, ReserveFor, Elsewhere
<1>1. pc[t] = "idle" /\ pc'[t] = "reprice" /\ UNCHANGED <<held, vstop, vexit, ledger, lock, life>>
  BY <1>t, Known DEF Ratchet, Idle, At, Go, venue
<1> QED BY <1>t, <1>e, <1>1, BystanderCalm

LEMMA RetryUnprotectedCalm ==
  ASSUME MInv, RInv', AnswersAtOnce, env'.may = env.may, NEW t \in Rec, RetryUnprotected(t)
  PROVE  Calm'
<1>t. t \in Task /\ pc[t] \in Label /\ loc[t] \in Locals
  BY Known
<1>e. Elsewhere(t)
  BY Known DEF RetryUnprotected, Finish, Done, Go, ReserveFor, Elsewhere
<1>1. pc[t] = "idle" /\ pc'[t] = "reprice" /\ UNCHANGED <<held, vstop, vexit, ledger, lock, life>>
  BY <1>t, Known DEF RetryUnprotected, Idle, At, Go, venue
<1> QED BY <1>t, <1>e, <1>1, BystanderCalm

LEMMA AdoptionFindsNothingCalm ==
  ASSUME MInv, RInv', AnswersAtOnce, env'.may = env.may, NEW t \in Task, AdoptionFindsNothing(t)
  PROVE  Calm'
<1>t. t \in Task /\ pc[t] \in Label /\ loc[t] \in Locals
  BY Known
<1>e. Elsewhere(t)
  BY Known DEF AdoptionFindsNothing, Finish, Done, Go, ReserveFor, Elsewhere
<1>o. lock = t /\ pc[t] = "place" /\ Others(t) /\ Seen(t) /\ Ready(t) /\ Active
  <2>1. pc[t] = "place" /\ lock = t
    BY <1>t, Known DEF AdoptionFindsNothing, At, Located, Holding
  <2> QED BY <1>t, <2>1, Moving, SeenNow, Known DEF Orderly, Locked
<1>0. /\ pc'[t] = "order" /\ UNCHANGED <<held, vstop, vexit, ledger>>
      /\ life'.st = life.st /\ life'.owned = life.owned /\ life'.pending = life.pending
      /\ life'.stop.id = life.stop.id /\ loc[t].target = loc'[t].target
  BY <1>t, Known DEF AdoptionFindsNothing, venue, Life, Stop, Locals, Go
<1>1. Books'
  BY <1>0, Known DEF Books, NoUnresolvedExit, Active
<1>2. Ready(t)'
  BY <1>o, <1>0 DEF Ready, Entry, Submitting
<1>3. Seen(t)'
  BY <1>o, <1>0 DEF Seen, CurrentOf, SparedOf, SoldOf, BoughtOf, Submitting, Rests
<1> QED BY <1>t, <1>e, <1>o, <1>1, <1>2, <1>3, MoverCalm

LEMMA AdoptionFilledCalm ==
  ASSUME MInv, RInv', AnswersAtOnce, env'.may = env.may, NEW t \in Task, AdoptionFilled(t)
  PROVE  Calm'
<1>t. t \in Task /\ pc[t] \in Label /\ loc[t] \in Locals
  BY Known
<1>e. Elsewhere(t)
  BY Known DEF AdoptionFilled, Finish, Done, Go, ReserveFor, Elsewhere
<1>o. lock = t /\ pc[t] = "place" /\ Others(t) /\ Seen(t) /\ Ready(t) /\ Active
  <2>1. pc[t] = "place" /\ lock = t
    BY <1>t, Known DEF AdoptionFilled, At, Located, Holding
  <2> QED BY <1>t, <2>1, Moving, SeenNow, Known DEF Orderly, Locked
<1>0. /\ pc'[t] = "stopfill" /\ UNCHANGED <<held, vstop, vexit, ledger>>
      /\ life'.st = life.st /\ life'.owned = life.owned /\ life'.pending = life.pending
      /\ life'.stop.id = life.stop.id /\ loc[t].target = loc'[t].target
  BY <1>t, Known DEF AdoptionFilled, venue, Life, Stop, Locals, Go
<1>1. Books'
  BY <1>0, Known DEF Books, NoUnresolvedExit, Active
<1>2. Ready(t)'
  BY <1>o, <1>0 DEF Ready, Entry, Submitting
<1>3. Seen(t)'
  BY <1>o, <1>0 DEF Seen, CurrentOf, SparedOf, SoldOf, BoughtOf, Submitting, Rests
<1> QED BY <1>t, <1>e, <1>o, <1>1, <1>2, <1>3, MoverCalm

LEMMA AdoptionRejectedCalm ==
  ASSUME MInv, RInv', AnswersAtOnce, env'.may = env.may, NEW t \in Task, AdoptionRejected(t)
  PROVE  Calm'
<1>t. t \in Task /\ pc[t] \in Label /\ loc[t] \in Locals
  BY Known
<1>e. Elsewhere(t)
  BY Known DEF AdoptionRejected, Finish, Done, Go, ReserveFor, Elsewhere
<1>o. lock = t /\ pc[t] = "place" /\ Others(t) /\ Seen(t) /\ Ready(t) /\ Active
  <2>1. pc[t] = "place" /\ lock = t
    BY <1>t, Known DEF AdoptionRejected, At, Located, Holding
  <2> QED BY <1>t, <2>1, Moving, SeenNow, Known DEF Orderly, Locked
<1>0. /\ pc'[t] = "idle" /\ UNCHANGED <<held, vstop, vexit, ledger>>
      /\ life'.st = life.st /\ life'.owned = life.owned /\ life'.pending = life.pending
      /\ life'.stop.id = life.stop.id 
  BY <1>t, Known DEF AdoptionRejected, venue, Life, Stop, Locals, Unprotected, Finish, Done
<1>1. Books'
  BY <1>0, Known DEF Books, NoUnresolvedExit, Active
<1>2. Ready(t)'
  BY <1>o, <1>0 DEF Ready, Entry, Submitting
<1>3. Seen(t)'
  BY <1>o, <1>0 DEF Seen, CurrentOf, SparedOf, SoldOf, BoughtOf, Submitting, Rests
<1> QED BY <1>t, <1>e, <1>o, <1>1, <1>2, <1>3, MoverCalm

LEMMA OrderStopCalm ==
  ASSUME MInv, RInv', AnswersAtOnce, env'.may = env.may, NEW t \in Task, OrderStop(t)
  PROVE  Calm'
<1>t. t \in Task /\ pc[t] \in Label /\ loc[t] \in Locals
  BY Known
<1>e. Elsewhere(t)
  BY Known DEF OrderStop, Finish, Done, Go, ReserveFor, Elsewhere
<1>o. lock = t /\ pc[t] = "order" /\ Others(t) /\ Seen(t) /\ Ready(t) /\ Active
  <2>1. pc[t] = "order" /\ lock = t
    BY <1>t, Known DEF OrderStop, At, Located, Holding
  <2> QED BY <1>t, <2>1, Moving, SeenNow, Known DEF Orderly, Locked
<1>0. PICK s \in StopId :
        /\ vstop[s].st = "none"
        /\ vstop' = [vstop EXCEPT ![s] = [st |-> "resting", qty |-> loc[t].target]]
        /\ loc'[t].id = s /\ loc'[t].target = loc[t].target
  BY <1>t, Fresh, Known DEF OrderStop, StopId, Locals
<1>5. pc'[t] = "ordered" /\ UNCHANGED <<held, vexit, ledger, life>>
  BY <1>t, Known DEF OrderStop, Go
<1>6. life.stop.id = 0 /\ loc[t].target = ledger.owned /\ 0 \notin StopId
  BY <1>o, Bounds DEF Ready, Entry, Submitting, StopId
<1>1. Books'
  BY <1>5, Known DEF Books, NoUnresolvedExit, Active
<1>2. Ready(t)'
  BY <1>0, <1>5, <1>6 DEF Ready, Entry, Submitting
<1>3. Seen(t)'
  <2>1. \A x \in StopId : ~Rests(x)
    BY <1>o, <1>6 DEF Seen, CurrentOf, SparedOf, SoldOf, BoughtOf, Submitting, Rests
  <2>2. /\ vstop'[s].st = "resting" /\ vstop'[s].qty = ledger.owned
        /\ \A x \in StopId \ {s} : vstop'[x] = vstop[x]
    BY <1>0, <1>6, Known DEF IInv, TypedVenue
  <2>3. \A x \in StopId : Rests(x)' => x = s
    BY <2>1, <2>2 DEF Rests
  <2>4. CurrentOf(t)' = s /\ SparedOf(t)' = 0 /\ SoldOf(t)' = 0 /\ BoughtOf(t)' = 0
    BY <1>0, <1>5 DEF Seen, CurrentOf, SparedOf, SoldOf, BoughtOf, Submitting, Rests
  <2>5. held = ledger.owned - 0 + 0 /\ ledger.owned - 0 = ledger.owned
    BY <1>o, <1>6, Known DEF Seen, CurrentOf, SparedOf, SoldOf, BoughtOf, Submitting, Rests
  <2>6. ledger.owned <= ledger.owned
    BY Known
  <2> QED BY <1>5, <2>2, <2>3, <2>4, <2>5, <2>6 DEF Seen, Rests
<1> QED BY <1>t, <1>e, <1>o, <1>1, <1>2, <1>3, MoverCalm

LEMMA StopOrderedCalm ==
  ASSUME MInv, RInv', AnswersAtOnce, env'.may = env.may, NEW t \in Task, StopOrdered(t)
  PROVE  Calm'
<1>t. t \in Task /\ pc[t] \in Label /\ loc[t] \in Locals
  BY Known
<1>e. Elsewhere(t)
  BY Known DEF StopOrdered, Finish, Done, Go, ReserveFor, Elsewhere
<1>o. lock = t /\ pc[t] = "ordered" /\ Others(t) /\ Seen(t) /\ Ready(t) /\ Active
  <2>1. pc[t] = "ordered" /\ lock = t
    BY <1>t, Known DEF StopOrdered, At, Located, Holding
  <2> QED BY <1>t, <2>1, Moving, SeenNow, Known DEF Orderly, Locked
<1>a. loc[t].id \in StopId /\ loc[t].id # 0
  BY <1>t, <1>o, Known, Bounds DEF Aimed, AtVenue, StopId
<1>0. /\ pc'[t] = "idle" /\ UNCHANGED <<held, vstop, vexit, ledger>>
      /\ life'.st = life.st /\ life'.owned = life.owned /\ life'.pending = life.pending
      /\ life'.stop.id = loc[t].id
  BY <1>t, <1>a, Known DEF StopOrdered, Covered, venue, Life, Finish, Done
<1>1. Books'
  BY <1>o, <1>0, Known DEF Books, NoUnresolvedExit, Active
<1>2. Ready(t)'
  BY <1>0 DEF Ready, Entry, Submitting
<1>3. Seen(t)'
  BY <1>o, <1>0 DEF Seen, CurrentOf, SparedOf, SoldOf, BoughtOf, Submitting, Rests
<1> QED BY <1>t, <1>e, <1>o, <1>1, <1>2, <1>3, MoverCalm

LEMMA RestoreCoverageCalm ==
  ASSUME MInv, RInv', AnswersAtOnce, env'.may = env.may, NEW t \in Task, RestoreCoverage(t)
  PROVE  Calm'
<1>t. t \in Task /\ pc[t] \in Label /\ loc[t] \in Locals
  BY Known
<1>e. Elsewhere(t)
  BY Known DEF RestoreCoverage, Finish, Done, Go, ReserveFor, Elsewhere
<1>o. lock = t /\ pc[t] = "restore" /\ Others(t) /\ Seen(t) /\ Ready(t) /\ Active
  <2>1. pc[t] = "restore" /\ lock = t
    BY <1>t, Known DEF RestoreCoverage, At, Located, Holding
  <2> QED BY <1>t, <2>1, Moving, SeenNow, Known DEF Orderly, Locked
<1>i. loc[t].id = life.stop.id /\ loc[t].id \in StopId /\ 0 \notin StopId
  BY <1>t, <1>o, Known, Bounds DEF Aimed, Aiming, Recorded, Named, AtVenue, StopId
<1>p. PICK id \in -1..MaxStops :
        /\ VenueReplace(loc[t].id, loc[t].target, id)
        /\ life' = IF id > 0 THEN [life EXCEPT !.stop.id = id, !.stop.qty = loc[t].target] ELSE life
        /\ \/ Done(t)
           \/ id = 0 /\ UNCHANGED loc /\ Go(t, "recancel")
  BY DEF RestoreCoverage, Finish
<1>h. UNCHANGED <<held, vexit, ledger>>
  BY DEF RestoreCoverage
<1>n. RInv /\ NoLostAnswers
  BY Known
<1>l. loc[t].target = ledger.owned /\ loc[t].target \in Nat
  BY <1>t, <1>o, Known DEF Ready, Entry, Submitting
<1>d. pc'[t] = "idle" \/ (pc'[t] = "recancel" /\ loc'[t].target = loc[t].target)
  <2>1. CASE Done(t)
    BY <1>t, <2>1, Known DEF Done
  <2>2. CASE UNCHANGED loc /\ Go(t, "recancel")
    BY <1>t, <2>2, Known DEF Go
  <2> QED BY <1>p, <2>1, <2>2
<1>2. Ready(t)'
  BY <1>d, <1>h, <1>l DEF Ready, Entry, Submitting
<1>y. CASE id > 0
  <2>a. id > 0
    BY <1>y
  <2>1. /\ id \in StopId /\ vstop' = Replaced(loc[t].id, loc[t].target, id)
        /\ Rests(loc[t].id) /\ (id = loc[t].id \/ vstop[id].st = "none")
    BY <1>i, <1>l, <1>n, <1>p, <2>a, Known, ReplaceAnswers
  <2>2. \A s \in StopId : Rests(s)' => s = id
    <3>1. \A s \in StopId : Rests(s) => s = loc[t].id
      BY <1>o, <1>i DEF Seen, CurrentOf
    <3> QED BY <1>i, <2>1, <3>1, Known DEF Replaced, Rests, IInv, TypedVenue, StopOrder
  <2>3. vstop'[id].st = "resting" /\ vstop'[id].qty = loc[t].target
    BY <1>i, <2>1, Known DEF Replaced, Rests, IInv, TypedVenue, StopOrder
  <2>4. life'.st = life.st /\ life'.owned = life.owned /\ life'.pending = life.pending /\ life'.stop.id = id
    <3>1. life' = [life EXCEPT !.stop.id = id, !.stop.qty = loc[t].target]
      BY <1>p, <2>a
    <3>2. [life EXCEPT !.stop.id = id, !.stop.qty = loc[t].target].stop.id = id
      BY Known DEF Life, Stop
    <3> QED BY <3>1, <3>2, Known DEF Life
  <2>6. Books'
    BY <1>h, <1>o, <2>4, Known DEF Books, NoUnresolvedExit, Active
  <2>8. Seen(t)'
    <3>1. held = ledger.owned
      BY <1>o, <1>i, <2>1, Known DEF Seen, CurrentOf, SparedOf, SoldOf, BoughtOf, Submitting, Rests
    <3>2. held' = ledger'.owned - 0 + 0 /\ ledger'.owned - 0 = ledger.owned
      BY <1>h, <3>1, Known
    <3> QED BY <1>l, <1>d, <2>2, <2>3, <2>4, <3>2 DEF Seen, CurrentOf, SparedOf, SoldOf, BoughtOf, Submitting, Rests
  <2> QED BY <1>t, <1>e, <1>o, <1>2, <2>6, <2>8, MoverCalm
<1>z. CASE ~(id > 0)
  <2>1. UNCHANGED <<vstop, life>>
    BY <1>i, <1>l, <1>n, <1>p, <1>z, ReplaceAnswers
  <2>6. Books'
    BY <1>h, <2>1, Known DEF Books, NoUnresolvedExit, Active
  <2>8. Seen(t)'
    BY <1>o, <1>h, <1>d, <2>1 DEF Seen, CurrentOf, SparedOf, SoldOf, BoughtOf, Submitting, Rests
  <2> QED BY <1>t, <1>e, <1>o, <1>2, <2>6, <2>8, MoverCalm
<1> QED BY <1>y, <1>z

LEMMA RepriceReplacesCalm ==
  ASSUME MInv, RInv', AnswersAtOnce, env'.may = env.may, NEW t \in Task, RepriceReplaces(t)
  PROVE  Calm'
<1>t. t \in Task /\ pc[t] \in Label /\ loc[t] \in Locals
  BY Known
<1>e. Elsewhere(t)
  BY Known DEF RepriceReplaces, Finish, Done, Go, ReserveFor, Elsewhere
<1>o. lock = t /\ pc[t] = "resize" /\ Others(t) /\ Seen(t) /\ Ready(t) /\ Active
  <2>1. pc[t] = "resize" /\ lock = t
    BY <1>t, Known DEF RepriceReplaces, At, Located, Holding
  <2> QED BY <1>t, <2>1, Moving, SeenNow, Known DEF Orderly, Locked
<1>i. loc[t].id = life.stop.id /\ loc[t].id \in StopId /\ 0 \notin StopId
  BY <1>t, <1>o, Known, Bounds DEF Aimed, Aiming, Recorded, Named, AtVenue, StopId
<1>p. PICK id \in -1..MaxStops :
        /\ VenueReplace(loc[t].id, loc[t].target, id)
        /\ life' = IF id > 0 THEN [life EXCEPT !.stop.id = id, !.stop.qty = loc[t].target] ELSE life
        /\ \/ Done(t)
           \/ id = 0 /\ UNCHANGED loc /\ Go(t, "recancel")
  BY DEF RepriceReplaces, Finish
<1>h. UNCHANGED <<held, vexit, ledger>>
  BY DEF RepriceReplaces
<1>n. RInv /\ NoLostAnswers
  BY Known
<1>l. loc[t].target = ledger.owned /\ loc[t].target \in Nat
  BY <1>t, <1>o, Known DEF Ready, Entry, Submitting
<1>d. pc'[t] = "idle" \/ (pc'[t] = "recancel" /\ loc'[t].target = loc[t].target)
  <2>1. CASE Done(t)
    BY <1>t, <2>1, Known DEF Done
  <2>2. CASE UNCHANGED loc /\ Go(t, "recancel")
    BY <1>t, <2>2, Known DEF Go
  <2> QED BY <1>p, <2>1, <2>2
<1>2. Ready(t)'
  BY <1>d, <1>h, <1>l DEF Ready, Entry, Submitting
<1>y. CASE id > 0
  <2>a. id > 0
    BY <1>y
  <2>1. /\ id \in StopId /\ vstop' = Replaced(loc[t].id, loc[t].target, id)
        /\ Rests(loc[t].id) /\ (id = loc[t].id \/ vstop[id].st = "none")
    BY <1>i, <1>l, <1>n, <1>p, <2>a, Known, ReplaceAnswers
  <2>2. \A s \in StopId : Rests(s)' => s = id
    <3>1. \A s \in StopId : Rests(s) => s = loc[t].id
      BY <1>o, <1>i DEF Seen, CurrentOf
    <3> QED BY <1>i, <2>1, <3>1, Known DEF Replaced, Rests, IInv, TypedVenue, StopOrder
  <2>3. vstop'[id].st = "resting" /\ vstop'[id].qty = loc[t].target
    BY <1>i, <2>1, Known DEF Replaced, Rests, IInv, TypedVenue, StopOrder
  <2>4. life'.st = life.st /\ life'.owned = life.owned /\ life'.pending = life.pending /\ life'.stop.id = id
    <3>1. life' = [life EXCEPT !.stop.id = id, !.stop.qty = loc[t].target]
      BY <1>p, <2>a
    <3>2. [life EXCEPT !.stop.id = id, !.stop.qty = loc[t].target].stop.id = id
      BY Known DEF Life, Stop
    <3> QED BY <3>1, <3>2, Known DEF Life
  <2>6. Books'
    BY <1>h, <1>o, <2>4, Known DEF Books, NoUnresolvedExit, Active
  <2>8. Seen(t)'
    <3>1. held = ledger.owned
      BY <1>o, <1>i, <2>1, Known DEF Seen, CurrentOf, SparedOf, SoldOf, BoughtOf, Submitting, Rests
    <3>2. held' = ledger'.owned - 0 + 0 /\ ledger'.owned - 0 = ledger.owned
      BY <1>h, <3>1, Known
    <3> QED BY <1>l, <1>d, <2>2, <2>3, <2>4, <3>2 DEF Seen, CurrentOf, SparedOf, SoldOf, BoughtOf, Submitting, Rests
  <2> QED BY <1>t, <1>e, <1>o, <1>2, <2>6, <2>8, MoverCalm
<1>z. CASE ~(id > 0)
  <2>1. UNCHANGED <<vstop, life>>
    BY <1>i, <1>l, <1>n, <1>p, <1>z, ReplaceAnswers
  <2>6. Books'
    BY <1>h, <2>1, Known DEF Books, NoUnresolvedExit, Active
  <2>8. Seen(t)'
    BY <1>o, <1>h, <1>d, <2>1 DEF Seen, CurrentOf, SparedOf, SoldOf, BoughtOf, Submitting, Rests
  <2> QED BY <1>t, <1>e, <1>o, <1>2, <2>6, <2>8, MoverCalm
<1> QED BY <1>y, <1>z

LEMMA RepriceBeginsCalm ==
  ASSUME MInv, RInv', AnswersAtOnce, env'.may = env.may, NEW t \in Task, RepriceBegins(t)
  PROVE  Calm'
<1>t. t \in Task /\ pc[t] \in Label /\ loc[t] \in Locals
  BY Known
<1>e. Elsewhere(t)
  BY Known DEF RepriceBegins, Finish, Done, Go, ReserveFor, Elsewhere
<1>0. lock = NoTask /\ pc[t] = "reprice" /\ UNCHANGED <<held, vstop, vexit, ledger>>
  BY DEF RepriceBegins, At, venue
<1>y. CASE ledger.owned <= 0
  <2>1. pc'[t] = "idle" /\ lock' = lock /\ life' = life
    BY <1>t, <1>0, <1>y, Known DEF RepriceBegins, Done
  <2> QED BY <1>t, <1>e, <1>0, <2>1, BystanderCalm
<1>z. CASE ~(ledger.owned <= 0)
  <2>o. Others(t) /\ Seen(t) /\ Active
    BY <1>t, <1>0, <1>z, Moving, SeenNow, Known DEF Books
  <2>1. /\ loc'[t].target = ledger.owned
        /\ pc'[t] = IF life.stop.id # 0 THEN "resize" ELSE "place"
        /\ life' = IF life.stop.id # 0 THEN life ELSE Placing(life)
    BY <1>t, <1>z, Known DEF RepriceBegins, Go, Locals
  <2>2. life'.st = life.st /\ life'.owned = life.owned /\ life'.pending = life.pending /\ life'.stop.id = life.stop.id
    BY <2>1, Known DEF Placing, Life, Stop
  <2>3. Books'
    BY <1>0, <2>2, Known DEF Books, NoUnresolvedExit, Active
  <2>4. Ready(t)'
    BY <1>0, <2>1, <2>2 DEF Ready, Entry, Submitting
  <2>5. Seen(t)'
    BY <1>0, <2>o, <2>1, <2>2 DEF Seen, CurrentOf, SparedOf, SoldOf, BoughtOf, Submitting, Rests
  <2> QED BY <1>t, <1>e, <2>o, <2>3, <2>4, <2>5, MoverCalm
<1> QED BY <1>y, <1>z

(* Nothing is left to resolve.                                               *)
LEMMA ResolvingNever ==
  ASSUME MInv, AnswersAtOnce, NEW t \in Rec
  PROVE  ~Resolving(t)
BY Known DEF Resolving, PollExit, NothingToResolve, ResolvePartial, ResolveFinal, At, Ready, Books, NoUnresolvedExit

(* MInv is inductive.                                                        *)
LEMMA NextMInv == MInv /\ [Next]_vars => MInv'
<1> SUFFICES ASSUME MInv, [Next]_vars PROVE MInv'
  OBVIOUS
<1>0. RInv' /\ env'.may = env.may
  BY NextRInv, SettingStays DEF MInv, RInv, OInv
<1> SUFFICES ASSUME AnswersAtOnce PROVE Calm'
  BY <1>0 DEF MInv, AnswersAtOnce, NoLostAnswers, NoCallFails
<1>b. RInv /\ NoLostAnswers /\ OInv /\ Blind /\ ~PriceTick /\ ~CrashAndRestart
  BY Known, Undisturbed DEF RInv
<1>1. ASSUME NEW s \in Sig, NEW q \in 1..env.may.lot, ExitBegins(s, q) PROVE Calm'
  <2>1. q \in Nat
    BY Known
  <2> QED BY <1>0, <1>1, <2>1, ExitBeginsCalm
<1>2. ASSUME NEW s \in Sig, Entering(s) \/ ExitProceeds(s) \/ Ratchet(s)
      PROVE  Calm'
  BY <1>0, <1>2, StartPlanCalm, EntryFillsCalm, OnEntryFillCalm, ExitAmendsCalm, ExitCancelsCalm,
     ExitSubmitsCalm, ExitUnresolvedNever, ExitAnsweredCalm, RatchetCalm
  DEF Entering, ExitProceeds
<1>3. ASSUME NEW t \in Task, PlacingStop(t) \/ Restoring(t) \/ Repricing(t) \/ OnStopFilled(t)
      PROVE  Calm'
  BY <1>0, <1>b, <1>3, AdoptionFindsNothingCalm, AdoptionRejectedCalm, AdoptionFilledCalm,
     OrderStopCalm, StopOrderedCalm, BrokerCallRaisesNever, RestoreCoverageCalm,
     RepriceBeginsCalm, RepriceReplacesCalm, RepriceCancelsCalm, NothingIsRead
  DEF PlacingStop, Restoring, Repricing
<1>4. ASSUME NEW r \in Rec, Resolving(r) \/ RetryUnprotected(r) \/ ReconcilingPosition(r)
      PROVE  Calm'
  BY <1>0, <1>b, <1>4, ResolvingNever, RetryUnprotectedCalm, NothingIsRead
<1>5. ASSUME NEW s \in StopId, StopTriggers(s) PROVE Calm'
  <2>1. /\ Rests(s) /\ vstop' = [vstop EXCEPT ![s].st = "filled"]
        /\ UNCHANGED <<vexit, ledger, lock, life, pc, loc, env>>
    BY <1>5, Bounds DEF StopTriggers, Rests, StopId
  <2>2. UNCHANGED <<Current, Spared, Sold, Bought>>
    BY <2>1 DEF Current, Spared, Sold, Bought
  <2>3. s = Current /\ s # 0
    BY <2>1, Known, Bounds DEF Alone, StopId
  <2>4. vstop'[s].st = "filled" /\ \A x \in StopId \ {s} : vstop'[x] = vstop[x]
    BY <2>1, Known DEF IInv, TypedVenue, StopOrder
  <2>5. Alone' /\ Fits' /\ Tracks'
    BY <2>2, <2>3, <2>4, Known DEF Alone, Fits, Tracks, Rests
  <2> QED BY <2>1, <2>5, Known DEF Calm, Books, NoUnresolvedExit, Active, Ready
<1>6. ASSUME NEW e \in ExitId PROVE ~ExitEnds(e) /\ \A f \in 1..env.may.lot : ~ExitProgresses(e, f)
  BY Known DEF ExitEnds, ExitProgresses, Books
<1>7. CASE UNCHANGED vars
  BY <1>7, Known DEF vars, venue, Calm, Books, NoUnresolvedExit, Active, Ready, Alone, Fits, Tracks, Rests,
     Current, Spared, Sold, Bought
<1> QED BY <1>b, <1>1, <1>2, <1>3, <1>4, <1>5, <1>6, <1>7 DEF Next, Venue

(* What holds at the start.                                                  *)
LEMMA InitMInv == Init => MInv
<1> SUFFICES ASSUME Init PROVE MInv
  OBVIOUS
<1>1. RInv
  <2> SUFFICES Recorded
    BY InitOInv DEF RInv
  <2> QED BY DEF Init, Recorded, Named, Aimed, NoLife, NoStop, Aiming
<1>2. Calm
  BY DEF Init, Calm, Books, NoUnresolvedExit, Active, Ready, Alone, Fits, Tracks, Rests,
     Current, Spared, Sold, Bought, NoLife, NoStop, NoPending, Arbiter!NewLedger, Entry, Submitting
<1> QED BY <1>1, <1>2 DEF MInv

-----------------------------------------------------------------------------
(* A sum over one element, which MapThenSumSet takes from a CHOOSE'd         *)
(* recursive function, is that element's term.                               *)
LEMMA SumOne ==
  ASSUME NEW w, NEW x, w[x].qty \in Nat
  PROVE  MapThenSumSet(LAMBDA s : w[s].qty, {x}) = w[x].qty
<1> DEFINE One(s) == CHOOSE y \in s : TRUE
           G(iter) == [s \in SUBSET {x} |-> IF s = {} THEN 0 ELSE w[One(s)].qty + iter[s \ {One(s)}]]
           g0 == [s \in SUBSET {x} |-> IF s = {} THEN 0 ELSE w[x].qty]
<1>0. One({x}) = x
  OBVIOUS
<1>s. SUBSET {x} = {{}, {x}}
  OBVIOUS
<1>1. g0 = G(g0)
  <2>1. \A s \in SUBSET {x} : g0[s] = IF s = {} THEN 0 ELSE w[One(s)].qty + g0[s \ {One(s)}]
    <3> SUFFICES ASSUME NEW s \in {{}, {x}} PROVE g0[s] = IF s = {} THEN 0 ELSE w[One(s)].qty + g0[s \ {One(s)}]
      BY <1>s
    <3>1. CASE s = {}
      BY <3>1
    <3>2. CASE s = {x}
      <4>1. s \ {One(s)} = {} /\ {} \in SUBSET {x} /\ One(s) = x /\ s # {}
        BY <1>0, <3>2
      <4>2. g0[s] = w[x].qty /\ g0[{}] = 0
        BY <3>2, <4>1
      <4> QED BY <4>1, <4>2
    <3> QED BY <3>1, <3>2
  <2> QED BY <2>1
<1> DEFINE iter == CHOOSE g : g = G(g)
<1>2. iter = G(iter)
  <2> HIDE DEF G, g0
  <2> QED BY <1>1
<1>3. {} \in SUBSET {x} /\ {x} \in SUBSET {x} /\ {x} # {} /\ {x} \ {x} = {}
  OBVIOUS
<1>4. iter[{}] = 0
  <2> HIDE DEF iter
  <2> QED BY <1>2, <1>3
<1>5. iter[{x}] = w[x].qty + iter[{}]
  <2>1. G(iter)[{x}] = w[One({x})].qty + iter[{x} \ {One({x})}]
    <3> HIDE DEF iter, One
    <3> QED BY <1>3
  <2> HIDE DEF iter, One, G
  <2> QED BY <2>1, <1>0, <1>2, <1>3
<1>6. MapThenSumSet(LAMBDA s : w[s].qty, {x}) = iter[{x}]
  BY DEF MapThenSumSet, MapThenFoldSet
<1> QED
  <2> HIDE DEF iter
  <2> QED BY <1>4, <1>5, <1>6

(* MInv holds for ever.                                                      *)
LEMMA CalmInductive == Spec => []MInv
BY InitMInv, NextMInv, PTL DEF Spec

(* At most one order can sell, and it is the stop the record names.          *)
LEMMA AtMostOne ==
  ASSUME MInv, AnswersAtOnce
  PROVE  /\ Working = {}
         /\ Resting = {} \/ (Resting = {Current} /\ Current \in StopId /\ vstop[Current].st = "resting")
<1>1. Working = {}
  BY Known DEF Working, Books
<1>2. Resting \subseteq {Current}
  BY Known DEF Resting, Alone
<1>3. Current \in Resting => Current \in StopId /\ vstop[Current].st = "resting"
  BY DEF Resting, Rests
<1> QED BY <1>1, <1>2, <1>3

(* Where every call is answered and exits answer at once, at most one        *)
(* protective stop of a position rests at the venue, however entries, exits, *)
(* ratchets and retries interleave.                                          *)
THEOREM OneStopRests == Spec => []OneStop
<1>1. MInv => OneStop
  <2> SUFFICES ASSUME MInv, AnswersAtOnce PROVE Cardinality(Resting) <= 1
    BY DEF OneStop
  <2>1. Cardinality({}) = 0 /\ Cardinality({Current}) = 1
    BY FS_EmptySet, FS_Singleton
  <2> QED BY <2>1, AtMostOne
<1> QED BY <1>1, CalmInductive, PTL

(* What can still be sold is what the one stop covers.                       *)
LEMMA SellableIs ==
  ASSUME MInv, AnswersAtOnce
  PROVE  Sellable = IF Resting = {} THEN 0 ELSE vstop[Current].qty
<1> DEFINE stops == MapThenSumSet(LAMBDA s : vstop[s].qty, Resting)
           exits == MapThenSumSet(LAMBDA e : vexit[e].qty - vexit[e].filled, Working)
<1>0. Sellable = stops + exits
  BY DEF Sellable
<1>1. exits = 0
  BY AtMostOne DEF MapThenSumSet, MapThenFoldSet
<1>2. Resting = {} => stops = 0
  BY DEF MapThenSumSet, MapThenFoldSet
<1>3. Resting # {} => stops = vstop[Current].qty /\ vstop[Current].qty \in Nat
  <2> SUFFICES ASSUME Resting # {} PROVE stops = vstop[Current].qty /\ vstop[Current].qty \in Nat
    OBVIOUS
  <2>1. Resting = {Current} /\ vstop[Current].qty \in Nat
    BY AtMostOne, Known DEF IInv, TypedVenue, StopOrder
  <2>2. MapThenSumSet(LAMBDA s : vstop[s].qty, {Current}) = vstop[Current].qty
    BY <2>1, SumOne
  <2>3. stops = MapThenSumSet(LAMBDA s : vstop[s].qty, {Current})
    BY <2>1
  <2> QED BY <2>1, <2>2, <2>3
<1> HIDE DEF stops, exits
<1> QED BY <1>0, <1>1, <1>2, <1>3

(* In the same setting all orders at the venue together never sell more than *)
(* the account holds, although an exit and the stop would both sell it.      *)
THEOREM NothingOversold == Spec => []NeverOversold
<1>1. MInv => NeverOversold
  <2> SUFFICES ASSUME MInv, AnswersAtOnce PROVE Sellable <= Arbiter!AtLeastZero(held)
    BY DEF NeverOversold, Solvent
  <2>0. held \in Int /\ ledger.owned \in Nat
    BY Known DEF IInv, TypedVenue
  <2>1. CASE Resting = {}
    BY <2>0, <2>1, SellableIs DEF Arbiter!AtLeastZero
  <2>2. CASE Resting # {}
    <3>1. /\ Current \in StopId /\ Current # 0 /\ vstop[Current].st = "resting"
          /\ vstop[Current].qty \in Nat
      BY <2>2, AtMostOne, Known, Bounds DEF StopId, IInv, TypedVenue, StopOrder
    <3>2. vstop[Current].qty <= ledger.owned - Spared /\ held = ledger.owned - Sold + Bought
      BY <3>1, Known DEF Fits, Tracks, Rests
    <3>3. Spared \in Nat /\ Sold \in Nat /\ Sold <= Spared
      <4>1. lock # NoTask => loc[lock].want \in Nat /\ lock \in Task
        BY Known DEF Locals
      <4>2. lock # NoTask /\ pc[lock] = "answered" =>
              vexit[loc[lock].id].filled \in Nat /\ vexit[loc[lock].id].filled <= loc[lock].want
        BY <4>1, Known DEF Ready, Located, IInv, TypedVenue, ExitOrder
      <4> QED BY <4>1, <4>2 DEF Spared, Sold, Submitting
    <3>4. Bought \in Nat
      BY Known DEF Bought
    <3>5. vstop[Current].qty <= held
      BY <2>0, <3>1, <3>2, <3>3, <3>4
    <3> QED BY <2>0, <2>2, <3>1, <3>5, SellableIs DEF Arbiter!AtLeastZero
  <2> QED BY <2>1, <2>2
<1> QED BY <1>1, CalmInductive, PTL

(* In the same setting a lifecycle marked closed leaves nothing held and no  *)
(* stop at rest.                                                             *)
THEOREM ClosedNothingLeft == Spec => []ClosedIsFlat
<1>1. MInv => ClosedIsFlat
  <2> SUFFICES ASSUME MInv, AnswersAtOnce, life.st = "closed" PROVE held <= 0 /\ Sellable = 0
    BY DEF ClosedIsFlat
  <2>1. lock = NoTask /\ ledger.owned = 0 /\ life.stop.id = 0
    BY Known DEF Orderly, Locked, Books, Active
  <2>2. Current = 0 /\ Sold = 0 /\ Bought = 0
    BY <2>1, Known DEF Current, Sold, Bought, Placed, Entry, Active
  <2>3. held = 0
    BY <2>1, <2>2, Known DEF Tracks
  <2>4. Resting = {}
    BY <2>2, AtMostOne, Bounds DEF StopId
  <2> QED BY <2>3, <2>4, SellableIs
<1> QED BY <1>1, CalmInductive, PTL

-----------------------------------------------------------------------------
(* One pass at a time: what the arbiter has reserved is what the submitting  *)
(* coroutine and the PendingExit have in flight, and a pass settles what it  *)
(* read.                                                                     *)
InFlight == RestOf(life.pending) + InTransit
Ordered(e) ==
  /\ vexit[e].filled <= vexit[e].qty /\ vexit[e].qty <= MaxLot
  /\ vexit[e].st = "working" => vexit[e].filled < vexit[e].qty
Waits(p) ==
  /\ p.st # "none" => p.confirmed <= p.requested /\ p.requested <= MaxLot
  /\ p.st = "id" => vexit[p.id].qty = p.requested /\ p.confirmed <= vexit[p.id].filled
Sells(t) ==
  /\ pc[t] \in Exiting => loc[t].want \in 1..MaxLot
  /\ pc[t] = "answered" => vexit[loc[t].id].qty = loc[t].want
  /\ pc[t] = "resolve" =>
       /\ life.pending.st = "id" /\ life.pending.confirmed <= loc[t].seen
       /\ loc[t].seen <= vexit[life.pending.id].filled
       /\ loc[t].ans \in {"partial", "final"}
       /\ loc[t].ans = "final" => vexit[life.pending.id].st = "done"
Expected == \A e \in ExitId : vexit[e].st = "working" =>
  \/ life.pending.st = "id" /\ life.pending.id = e
  \/ lock # NoTask /\ pc[lock] = "answered" /\ loc[lock].ans = "PENDING" /\ loc[lock].id = e
Sound ==
  /\ Active => env.may.entries > 0
  /\ \A e \in ExitId : Ordered(e)
  /\ Waits(life.pending)
  /\ \A t \in Task : Sells(t)
  /\ NoCallFails => Expected
Accounted ==
  /\ Equal(life, ledger) /\ Equal(row.life, row.ledger)
  /\ ledger.reserved = InFlight /\ ledger.reserved <= ledger.owned
  /\ Sound
AInv == OInv /\ (OnePass => Accounted)

(* What a step may do to the arbiter's ledger.                               *)
Deals ==
  \/ ledger' = ledger /\ InFlight' = InFlight
  \/ \E q \in 1..MaxLot : /\ Arbiter!MayReserve(ledger, q)
                          /\ ledger' = Arbiter!ReserveIn(ledger, q) /\ InFlight' = InFlight + q
  \/ \E r, f \in 0..MaxLot : /\ f <= r /\ r <= InFlight
                             /\ ledger' = Arbiter!SettleIn(ledger, r, f) /\ InFlight' = InFlight - r
  \/ \E q \in 0..MaxLot : /\ Active /\ ledger.reserved <= q
                          /\ ledger' = Arbiter!SetOwnedIn(ledger, q) /\ InFlight' = InFlight

(* What OnePass gives, in one place.                                         *)
LEMMA KnownToPass ==
  ASSUME AInv, OnePass
  PROVE  /\ OInv /\ IInv /\ Blind /\ Orderly /\ Sound /\ Accounted
         /\ \A t \in Task : Sells(t) /\ Placed(t) /\ Located(t)
         /\ pc \in [Task -> Label] /\ loc \in [Task -> Locals] /\ life \in Life
         /\ vexit \in [ExitId -> ExitOrder]
         /\ ledger \in Arbiter!Ledger /\ lock \in Task \cup {NoTask} /\ NoTask \notin Task
         /\ env \in Env /\ env.may \in Setting /\ env.may.lot \in 1..MaxLot /\ MaxLot \in Nat
         /\ ledger.reserved \in Nat /\ ledger.owned \in Nat /\ InFlight \in Nat
         /\ life.pending \in Pending
         /\ Sig \subseteq Task /\ Rec \subseteq Task /\ 0 \in 0..MaxLot
<1>1. OInv /\ IInv /\ Blind /\ Accounted
  BY DEF AInv, OInv, OnePass, Blind
<1>2. env \in Env /\ env.may \in Setting /\ env.may.lot \in 1..MaxLot
  BY <1>1, Bounds DEF IInv, Env
<1>3. life \in Life /\ ledger \in Arbiter!Ledger
  BY <1>1 DEF IInv, TypedBooks
<1>4. ledger.reserved \in Nat /\ ledger.owned \in Nat /\ InFlight \in Nat
  BY <1>1, <1>3 DEF Accounted, Arbiter!Ledger
<1> QED BY <1>1, <1>2, <1>3, <1>4, Bounds, LifeParts
     DEF OInv, Accounted, Sound, Orderly, IInv, TypedVenue, TypedTasks

(* What is in transit, where no other task holds the lock.                   *)
TransitOf(t) == IF pc[t] \in Submitting THEN loc[t].want ELSE 0
Transits == OInv => \A t \in Task : lock \in {t, NoTask} => InTransit = TransitOf(t)
(* What is in transit is what the holder of the lock submits.                *)
LEMMA Transit == Transits
<1> SUFFICES ASSUME OInv, NEW t \in Task, lock \in {t, NoTask} PROVE InTransit = TransitOf(t)
  BY DEF Transits
<1>1. Located(t) /\ t # NoTask
  BY Bounds DEF OInv, IInv, TypedTasks
<1>2. CASE lock = t
  BY <1>1, <1>2 DEF InTransit, TransitOf, Submitting
<1>3. CASE lock = NoTask
  BY <1>1, <1>3 DEF Located, InTransit, TransitOf, Submitting, Holding
<1> QED BY <1>2, <1>3

(* What is in flight before and after a step of the one task that can        *)
(* submit.                                                                   *)
LEMMA FlightBefore ==
  ASSUME AInv, OnePass, NEW t \in Task, lock \in {t, NoTask}
  PROVE  InFlight = RestOf(life.pending) + TransitOf(t)
BY KnownToPass, Transit DEF Transits, InFlight

LEMMA FlightAfter ==
  ASSUME OInv', NEW t \in Task, lock' \in {t, NoTask}
  PROVE  InFlight' = RestOf(life'.pending) + TransitOf(t)'
<1>1. Transits'
  BY Transit, PTL
<1> QED BY <1>1 DEF Transits, InFlight

(* A step of any other task leaves it alone.                                 *)
LEMMA Alike ==
  ASSUME AInv, OnePass, NEW t \in Task, Elsewhere(t), lock' = lock, lock # t,
         life'.pending = life.pending
  PROVE  InFlight' = InFlight
<1>1. lock # NoTask => lock \in Task \ {t}
  BY KnownToPass
<1> QED BY <1>1 DEF InFlight, InTransit, Elsewhere

(* While an exit can begin, or a pass resolves, nobody else does.            *)
LEMMA Solo ==
  ASSUME AInv, OnePass, NEW t \in Task, lock \in {t, NoTask},
         NoUnresolvedExit \/ (pc[t] = "resolve" /\ t \in Rec)
  PROVE  \A u \in Task \ {t} : pc[u] \notin Exiting \cup {"resolve"}
<1> SUFFICES ASSUME NEW u \in Task \ {t} PROVE pc[u] \notin Exiting \cup {"resolve"}
  OBVIOUS
<1>1. pc[u] \notin Exiting
  BY KnownToPass DEF Located, Exiting, Holding
<1>2. ASSUME pc[u] = "resolve" PROVE FALSE
  <2>1. ~NoUnresolvedExit
    BY <1>2, KnownToPass DEF Sells, NoUnresolvedExit
  <2>2. t \in env.may.tasks \cap Rec /\ u \in env.may.tasks \cap Rec
    BY <1>2, <2>1, KnownToPass DEF Placed
  <2> QED BY <2>2 DEF OnePass
<1> QED BY <1>1, <1>2

(* Steps that leave the exit, the ledger and what is in flight alone.        *)
LEMMA QuietAccounts ==
  ASSUME AInv, OInv', OnePass, env'.may = env.may, NEW t \in Task, Elsewhere(t),
         pc[t] \notin Submitting, pc'[t] \notin Exiting \cup {"resolve"},
         UNCHANGED <<vexit, ledger>>, life'.pending = life.pending, life'.st = life.st,
         \/ lock' = lock
         \/ lock \in {t, NoTask} /\ lock' \in {t, NoTask}
  PROVE  Deals /\ Sound'
<1>1. InFlight' = InFlight
  <2>1. CASE lock \in {t, NoTask} /\ lock' \in {t, NoTask}
    <3>1. TransitOf(t) = 0 /\ TransitOf(t)' = 0
      BY DEF TransitOf, Submitting, Exiting
    <3> QED BY <2>1, <3>1, FlightBefore, FlightAfter
  <2>2. CASE lock' = lock /\ lock \notin {t, NoTask}
    BY <2>2, Alike
  <2> QED BY <2>1, <2>2
<1>2. \A u \in Task : Sells(u)'
  BY KnownToPass DEF Elsewhere, Sells, Exiting
<1>3. Expected => Expected'
  <2>1. t # NoTask /\ pc[t] # "answered"
    BY KnownToPass DEF Submitting
  <2> QED BY <2>1, KnownToPass DEF Expected, Elsewhere
<1>4. (Active => env.may.entries > 0)' /\ (\A e \in ExitId : Ordered(e))' /\ Waits(life.pending)'
  BY KnownToPass DEF Sound, Active, Ordered, Waits
<1> QED BY <1>1, <1>2, <1>3, <1>4, KnownToPass DEF Deals, Sound, NoCallFails

(* Every action deals with the ledger in one of these ways and keeps Sound.  *)
LEMMA EntryFillsAccounts ==
  ASSUME AInv, OInv', OnePass, env'.may = env.may, NEW t \in Sig, EntryFills(t)
  PROVE  Deals /\ Sound'
<1>t. t \in Task /\ pc[t] \in Label /\ loc[t] \in Locals
  BY KnownToPass
<1>e. Elsewhere(t)
  BY KnownToPass DEF EntryFills, AfterSettlement, Finish, Done, Go, ReserveFor, Elsewhere
<1>1. UNCHANGED <<vexit, ledger>> /\ life'.pending = life.pending /\ life'.st = life.st
  BY <1>t, KnownToPass DEF EntryFills, Finish, Done, venue, Life, Unprotected, Placing
<1>2. pc[t] \notin Submitting /\ pc'[t] \notin Exiting \cup {"resolve"}
  BY <1>t, KnownToPass DEF EntryFills, At, Idle, Go, Finish, Done, Submitting, Exiting
<1>3. \/ lock' = lock
      \/ lock \in {t, NoTask} /\ lock' \in {t, NoTask}
  BY <1>t, KnownToPass DEF EntryFills, At, Finish, Done, Located, Holding
<1> QED BY <1>t, <1>e, <1>1, <1>2, <1>3, QuietAccounts

LEMMA RatchetAccounts ==
  ASSUME AInv, OInv', OnePass, env'.may = env.may, NEW t \in Sig, Ratchet(t)
  PROVE  Deals /\ Sound'
<1>t. t \in Task /\ pc[t] \in Label /\ loc[t] \in Locals
  BY KnownToPass
<1>e. Elsewhere(t)
  BY KnownToPass DEF Ratchet, AfterSettlement, Finish, Done, Go, ReserveFor, Elsewhere
<1>1. UNCHANGED <<vexit, ledger>> /\ life'.pending = life.pending /\ life'.st = life.st
  BY <1>t, KnownToPass DEF Ratchet, Finish, Done, venue, Life, Unprotected, Placing
<1>2. pc[t] \notin Submitting /\ pc'[t] \notin Exiting \cup {"resolve"}
  BY <1>t, KnownToPass DEF Ratchet, At, Idle, Go, Finish, Done, Submitting, Exiting
<1>3. \/ lock' = lock
      \/ lock \in {t, NoTask} /\ lock' \in {t, NoTask}
  BY <1>t, KnownToPass DEF Ratchet, At, Finish, Done, Located, Holding
<1> QED BY <1>t, <1>e, <1>1, <1>2, <1>3, QuietAccounts

LEMMA AdoptionFindsNothingAccounts ==
  ASSUME AInv, OInv', OnePass, env'.may = env.may, NEW t \in Task, AdoptionFindsNothing(t)
  PROVE  Deals /\ Sound'
<1>t. t \in Task /\ pc[t] \in Label /\ loc[t] \in Locals
  BY KnownToPass
<1>e. Elsewhere(t)
  BY KnownToPass DEF AdoptionFindsNothing, AfterSettlement, Finish, Done, Go, ReserveFor, Elsewhere
<1>1. UNCHANGED <<vexit, ledger>> /\ life'.pending = life.pending /\ life'.st = life.st
  BY <1>t, KnownToPass DEF AdoptionFindsNothing, Finish, Done, venue, Life, Unprotected, Placing
<1>2. pc[t] \notin Submitting /\ pc'[t] \notin Exiting \cup {"resolve"}
  BY <1>t, KnownToPass DEF AdoptionFindsNothing, At, Idle, Go, Finish, Done, Submitting, Exiting
<1>3. \/ lock' = lock
      \/ lock \in {t, NoTask} /\ lock' \in {t, NoTask}
  BY <1>t, KnownToPass DEF AdoptionFindsNothing, At, Finish, Done, Located, Holding
<1> QED BY <1>t, <1>e, <1>1, <1>2, <1>3, QuietAccounts

LEMMA AdoptionRejectedAccounts ==
  ASSUME AInv, OInv', OnePass, env'.may = env.may, NEW t \in Task, AdoptionRejected(t)
  PROVE  Deals /\ Sound'
<1>t. t \in Task /\ pc[t] \in Label /\ loc[t] \in Locals
  BY KnownToPass
<1>e. Elsewhere(t)
  BY KnownToPass DEF AdoptionRejected, AfterSettlement, Finish, Done, Go, ReserveFor, Elsewhere
<1>1. UNCHANGED <<vexit, ledger>> /\ life'.pending = life.pending /\ life'.st = life.st
  BY <1>t, KnownToPass DEF AdoptionRejected, Finish, Done, venue, Life, Unprotected, Placing
<1>2. pc[t] \notin Submitting /\ pc'[t] \notin Exiting \cup {"resolve"}
  BY <1>t, KnownToPass DEF AdoptionRejected, At, Idle, Go, Finish, Done, Submitting, Exiting
<1>3. \/ lock' = lock
      \/ lock \in {t, NoTask} /\ lock' \in {t, NoTask}
  BY <1>t, KnownToPass DEF AdoptionRejected, At, Finish, Done, Located, Holding
<1> QED BY <1>t, <1>e, <1>1, <1>2, <1>3, QuietAccounts

LEMMA AdoptionFilledAccounts ==
  ASSUME AInv, OInv', OnePass, env'.may = env.may, NEW t \in Task, AdoptionFilled(t)
  PROVE  Deals /\ Sound'
<1>t. t \in Task /\ pc[t] \in Label /\ loc[t] \in Locals
  BY KnownToPass
<1>e. Elsewhere(t)
  BY KnownToPass DEF AdoptionFilled, AfterSettlement, Finish, Done, Go, ReserveFor, Elsewhere
<1>1. UNCHANGED <<vexit, ledger>> /\ life'.pending = life.pending /\ life'.st = life.st
  BY <1>t, KnownToPass DEF AdoptionFilled, Finish, Done, venue, Life, Unprotected, Placing
<1>2. pc[t] \notin Submitting /\ pc'[t] \notin Exiting \cup {"resolve"}
  BY <1>t, KnownToPass DEF AdoptionFilled, At, Idle, Go, Finish, Done, Submitting, Exiting
<1>3. \/ lock' = lock
      \/ lock \in {t, NoTask} /\ lock' \in {t, NoTask}
  BY <1>t, KnownToPass DEF AdoptionFilled, At, Finish, Done, Located, Holding
<1> QED BY <1>t, <1>e, <1>1, <1>2, <1>3, QuietAccounts

LEMMA OrderStopAccounts ==
  ASSUME AInv, OInv', OnePass, env'.may = env.may, NEW t \in Task, OrderStop(t)
  PROVE  Deals /\ Sound'
<1>t. t \in Task /\ pc[t] \in Label /\ loc[t] \in Locals
  BY KnownToPass
<1>e. Elsewhere(t)
  BY KnownToPass DEF OrderStop, AfterSettlement, Finish, Done, Go, ReserveFor, Elsewhere
<1>1. UNCHANGED <<vexit, ledger>> /\ life'.pending = life.pending /\ life'.st = life.st
  BY <1>t, KnownToPass DEF OrderStop, Finish, Done, venue, Life, Unprotected, Placing
<1>2. pc[t] \notin Submitting /\ pc'[t] \notin Exiting \cup {"resolve"}
  BY <1>t, KnownToPass DEF OrderStop, At, Idle, Go, Finish, Done, Submitting, Exiting
<1>3. \/ lock' = lock
      \/ lock \in {t, NoTask} /\ lock' \in {t, NoTask}
  BY <1>t, KnownToPass DEF OrderStop, At, Finish, Done, Located, Holding
<1> QED BY <1>t, <1>e, <1>1, <1>2, <1>3, QuietAccounts

LEMMA StopOrderedAccounts ==
  ASSUME AInv, OInv', OnePass, env'.may = env.may, NEW t \in Task, StopOrdered(t)
  PROVE  Deals /\ Sound'
<1>t. t \in Task /\ pc[t] \in Label /\ loc[t] \in Locals
  BY KnownToPass
<1>e. Elsewhere(t)
  BY KnownToPass DEF StopOrdered, AfterSettlement, Finish, Done, Go, ReserveFor, Elsewhere
<1>1. UNCHANGED <<vexit, ledger>> /\ life'.pending = life.pending /\ life'.st = life.st
  BY <1>t, KnownToPass DEF StopOrdered, Finish, Done, venue, Life, Unprotected, Placing
<1>2. pc[t] \notin Submitting /\ pc'[t] \notin Exiting \cup {"resolve"}
  BY <1>t, KnownToPass DEF StopOrdered, At, Idle, Go, Finish, Done, Submitting, Exiting
<1>3. \/ lock' = lock
      \/ lock \in {t, NoTask} /\ lock' \in {t, NoTask}
  BY <1>t, KnownToPass DEF StopOrdered, At, Finish, Done, Located, Holding
<1> QED BY <1>t, <1>e, <1>1, <1>2, <1>3, QuietAccounts

LEMMA BrokerCallRaisesAccounts ==
  ASSUME AInv, OInv', OnePass, env'.may = env.may, NEW t \in Task, BrokerCallRaises(t)
  PROVE  Deals /\ Sound'
<1>t. t \in Task /\ pc[t] \in Label /\ loc[t] \in Locals
  BY KnownToPass
<1>e. Elsewhere(t)
  BY KnownToPass DEF BrokerCallRaises, AfterSettlement, Finish, Done, Go, ReserveFor, Elsewhere
<1>1. UNCHANGED <<vexit, ledger>> /\ life'.pending = life.pending /\ life'.st = life.st
  BY <1>t, KnownToPass DEF BrokerCallRaises, Finish, Done, venue, Life, Unprotected, Placing
<1>2. pc[t] \notin Submitting /\ pc'[t] \notin Exiting \cup {"resolve"}
  BY <1>t, KnownToPass DEF BrokerCallRaises, At, Idle, Go, Finish, Done, Submitting, Exiting
<1>3. \/ lock' = lock
      \/ lock \in {t, NoTask} /\ lock' \in {t, NoTask}
  BY <1>t, KnownToPass DEF BrokerCallRaises, At, Finish, Done, Located, Holding
<1> QED BY <1>t, <1>e, <1>1, <1>2, <1>3, QuietAccounts

LEMMA RestoreCoverageAccounts ==
  ASSUME AInv, OInv', OnePass, env'.may = env.may, NEW t \in Task, RestoreCoverage(t)
  PROVE  Deals /\ Sound'
<1>t. t \in Task /\ pc[t] \in Label /\ loc[t] \in Locals
  BY KnownToPass
<1>e. Elsewhere(t)
  BY KnownToPass DEF RestoreCoverage, AfterSettlement, Finish, Done, Go, ReserveFor, Elsewhere
<1>1. UNCHANGED <<vexit, ledger>> /\ life'.pending = life.pending /\ life'.st = life.st
  BY <1>t, KnownToPass DEF RestoreCoverage, Finish, Done, venue, Life, Unprotected, Placing
<1>2. pc[t] \notin Submitting /\ pc'[t] \notin Exiting \cup {"resolve"}
  BY <1>t, KnownToPass DEF RestoreCoverage, At, Idle, Go, Finish, Done, Submitting, Exiting
<1>3. \/ lock' = lock
      \/ lock \in {t, NoTask} /\ lock' \in {t, NoTask}
  BY <1>t, KnownToPass DEF RestoreCoverage, At, Finish, Done, Located, Holding
<1> QED BY <1>t, <1>e, <1>1, <1>2, <1>3, QuietAccounts

LEMMA RepriceBeginsAccounts ==
  ASSUME AInv, OInv', OnePass, env'.may = env.may, NEW t \in Task, RepriceBegins(t)
  PROVE  Deals /\ Sound'
<1>t. t \in Task /\ pc[t] \in Label /\ loc[t] \in Locals
  BY KnownToPass
<1>e. Elsewhere(t)
  BY KnownToPass DEF RepriceBegins, AfterSettlement, Finish, Done, Go, ReserveFor, Elsewhere
<1>1. UNCHANGED <<vexit, ledger>> /\ life'.pending = life.pending /\ life'.st = life.st
  BY <1>t, KnownToPass DEF RepriceBegins, Finish, Done, venue, Life, Unprotected, Placing
<1>2. pc[t] \notin Submitting /\ pc'[t] \notin Exiting \cup {"resolve"}
  BY <1>t, KnownToPass DEF RepriceBegins, At, Idle, Go, Finish, Done, Submitting, Exiting
<1>3. \/ lock' = lock
      \/ lock \in {t, NoTask} /\ lock' \in {t, NoTask}
  BY <1>t, KnownToPass DEF RepriceBegins, At, Finish, Done, Located, Holding
<1> QED BY <1>t, <1>e, <1>1, <1>2, <1>3, QuietAccounts

LEMMA RepriceReplacesAccounts ==
  ASSUME AInv, OInv', OnePass, env'.may = env.may, NEW t \in Task, RepriceReplaces(t)
  PROVE  Deals /\ Sound'
<1>t. t \in Task /\ pc[t] \in Label /\ loc[t] \in Locals
  BY KnownToPass
<1>e. Elsewhere(t)
  BY KnownToPass DEF RepriceReplaces, AfterSettlement, Finish, Done, Go, ReserveFor, Elsewhere
<1>1. UNCHANGED <<vexit, ledger>> /\ life'.pending = life.pending /\ life'.st = life.st
  BY <1>t, KnownToPass DEF RepriceReplaces, Finish, Done, venue, Life, Unprotected, Placing
<1>2. pc[t] \notin Submitting /\ pc'[t] \notin Exiting \cup {"resolve"}
  BY <1>t, KnownToPass DEF RepriceReplaces, At, Idle, Go, Finish, Done, Submitting, Exiting
<1>3. \/ lock' = lock
      \/ lock \in {t, NoTask} /\ lock' \in {t, NoTask}
  BY <1>t, KnownToPass DEF RepriceReplaces, At, Finish, Done, Located, Holding
<1> QED BY <1>t, <1>e, <1>1, <1>2, <1>3, QuietAccounts

LEMMA RepriceCancelsAccounts ==
  ASSUME AInv, OInv', OnePass, env'.may = env.may, NEW t \in Task, RepriceCancels(t)
  PROVE  Deals /\ Sound'
<1>t. t \in Task /\ pc[t] \in Label /\ loc[t] \in Locals
  BY KnownToPass
<1>e. Elsewhere(t)
  BY KnownToPass DEF RepriceCancels, AfterSettlement, Finish, Done, Go, ReserveFor, Elsewhere
<1>1. UNCHANGED <<vexit, ledger>> /\ life'.pending = life.pending /\ life'.st = life.st
  BY <1>t, KnownToPass DEF RepriceCancels, Finish, Done, venue, Life, Unprotected, Placing
<1>2. pc[t] \notin Submitting /\ pc'[t] \notin Exiting \cup {"resolve"}
  BY <1>t, KnownToPass DEF RepriceCancels, At, Idle, Go, Finish, Done, Submitting, Exiting
<1>3. \/ lock' = lock
      \/ lock \in {t, NoTask} /\ lock' \in {t, NoTask}
  BY <1>t, KnownToPass DEF RepriceCancels, At, Finish, Done, Located, Holding
<1> QED BY <1>t, <1>e, <1>1, <1>2, <1>3, QuietAccounts

LEMMA RetryUnprotectedAccounts ==
  ASSUME AInv, OInv', OnePass, env'.may = env.may, NEW t \in Rec, RetryUnprotected(t)
  PROVE  Deals /\ Sound'
<1>t. t \in Task /\ pc[t] \in Label /\ loc[t] \in Locals
  BY KnownToPass
<1>e. Elsewhere(t)
  BY KnownToPass DEF RetryUnprotected, AfterSettlement, Finish, Done, Go, ReserveFor, Elsewhere
<1>1. UNCHANGED <<vexit, ledger>> /\ life'.pending = life.pending /\ life'.st = life.st
  BY <1>t, KnownToPass DEF RetryUnprotected, Finish, Done, venue, Life, Unprotected, Placing
<1>2. pc[t] \notin Submitting /\ pc'[t] \notin Exiting \cup {"resolve"}
  BY <1>t, KnownToPass DEF RetryUnprotected, At, Idle, Go, Finish, Done, Submitting, Exiting
<1>3. \/ lock' = lock
      \/ lock \in {t, NoTask} /\ lock' \in {t, NoTask}
  BY <1>t, KnownToPass DEF RetryUnprotected, At, Finish, Done, Located, Holding
<1> QED BY <1>t, <1>e, <1>1, <1>2, <1>3, QuietAccounts

LEMMA NothingToResolveAccounts ==
  ASSUME AInv, OInv', OnePass, env'.may = env.may, NEW t \in Rec, NothingToResolve(t)
  PROVE  Deals /\ Sound'
<1>t. t \in Task /\ pc[t] \in Label /\ loc[t] \in Locals
  BY KnownToPass
<1>e. Elsewhere(t)
  BY KnownToPass DEF NothingToResolve, AfterSettlement, Finish, Done, Go, ReserveFor, Elsewhere
<1>1. UNCHANGED <<vexit, ledger>> /\ life'.pending = life.pending /\ life'.st = life.st
  BY <1>t, KnownToPass DEF NothingToResolve, Finish, Done, venue, Life, Unprotected, Placing
<1>2. pc[t] \notin Submitting /\ pc'[t] \notin Exiting \cup {"resolve"}
  BY <1>t, KnownToPass DEF NothingToResolve, At, Idle, Go, Finish, Done, Submitting, Exiting
<1>3. \/ lock' = lock
      \/ lock \in {t, NoTask} /\ lock' \in {t, NoTask}
  BY <1>t, KnownToPass DEF NothingToResolve, At, Finish, Done, Located, Holding
<1> QED BY <1>t, <1>e, <1>1, <1>2, <1>3, QuietAccounts

LEMMA StartPlanAccounts ==
  ASSUME AInv, OInv', OnePass, env'.may = env.may, NEW t \in Sig, StartPlan(t)
  PROVE  Deals /\ Sound'
<1>t. t \in Task /\ pc[t] \in Label /\ loc[t] \in Locals
  BY KnownToPass
<1>e. Elsewhere(t)
  BY KnownToPass DEF StartPlan, AfterSettlement, Finish, Done, Go, ReserveFor, Elsewhere
<1>0. /\ ~Active /\ lock = NoTask /\ lock' = NoTask /\ life.pending.st = "none" /\ env.may.entries > 0
      /\ UNCHANGED <<vexit, ledger>> /\ life'.pending.st = "none"
  <2>1. env.may.entries > env.did.entries /\ env.did.entries \in Nat /\ env.may.entries \in Nat
    BY KnownToPass, Bounds DEF StartPlan, Env
  <2> QED BY <2>1, KnownToPass DEF StartPlan, MayEnter, Active, Orderly, Locked, Rested, venue, NoLife, NoPending
<1>p. pc[t] = "idle" /\ pc'[t] = "entry"
  BY <1>t, KnownToPass DEF StartPlan, Idle, At, Go
<1>s. \A u \in Task \ {t} : pc[u] \notin Exiting \cup {"resolve"}
  BY <1>t, <1>0, Solo DEF NoUnresolvedExit
<1>u. \A u \in Task \ {t} : Sells(u)'
  BY <1>e, <1>s DEF Elsewhere, Sells, Exiting
<1>1. Deals
  BY <1>t, <1>0, <1>p, FlightBefore, FlightAfter DEF Deals, RestOf, TransitOf, Submitting
<1>2. (Active => env.may.entries > 0)'
  BY <1>0
<1>3. \A e \in ExitId : Ordered(e)'
  BY <1>0, KnownToPass DEF Sound, Ordered
<1>4. Waits(life.pending)'
  BY <1>0 DEF Waits
<1>5. Sells(t)'
  BY <1>p DEF Sells, Exiting
<1>6. NoCallFails' => Expected'
  BY <1>0, KnownToPass DEF Sound, NoCallFails, Expected
<1> QED BY <1>t, <1>u, <1>1, <1>2, <1>3, <1>4, <1>5, <1>6 DEF Sound

LEMMA OnEntryFillAccounts ==
  ASSUME AInv, OInv', OnePass, env'.may = env.may, NEW t \in Sig, OnEntryFill(t)
  PROVE  Deals /\ Sound'
<1>t. t \in Task /\ pc[t] \in Label /\ loc[t] \in Locals
  BY KnownToPass
<1>e. Elsewhere(t)
  BY KnownToPass DEF OnEntryFill, AfterSettlement, Finish, Done, Go, ReserveFor, Elsewhere
<1>0. /\ pc[t] = "bought" /\ lock = NoTask /\ lock' = t /\ NoUnresolvedExit /\ vexit' = vexit /\ Active
      /\ ledger' = Arbiter!SetOwnedIn(ledger, env.may.lot)
      /\ life'.pending = life.pending /\ life'.st = life.st
  BY <1>t, KnownToPass DEF OnEntryFill, At, Placed, Entry, venue, Life, Placing
<1>p. pc'[t] = "place"
  BY <1>t, KnownToPass DEF OnEntryFill, Go
<1>s. \A u \in Task \ {t} : pc[u] \notin Exiting \cup {"resolve"}
  BY <1>t, <1>0, Solo
<1>u. \A u \in Task \ {t} : Sells(u)'
  BY <1>e, <1>s DEF Elsewhere, Sells, Exiting
<1>1. Deals
  <2>1. InFlight = 0 /\ InFlight' = InFlight
    BY <1>t, <1>0, <1>p, FlightBefore, FlightAfter DEF RestOf, TransitOf, Submitting, NoUnresolvedExit
  <2>2. ledger.reserved <= env.may.lot /\ env.may.lot \in 0..MaxLot
    BY <2>1, KnownToPass DEF Accounted
  <2> QED BY <1>0, <2>1, <2>2 DEF Deals
<1>2. (Active => env.may.entries > 0)'
  BY <1>0, KnownToPass DEF Sound, Active
<1>3. \A e \in ExitId : Ordered(e)'
  BY <1>0, KnownToPass DEF Sound, Ordered
<1>4. Waits(life.pending)'
  BY <1>0 DEF Waits, NoUnresolvedExit
<1>5. Sells(t)'
  BY <1>p DEF Sells, Exiting
<1>6. NoCallFails' => Expected'
  BY <1>0, KnownToPass DEF Sound, NoCallFails, Expected, NoUnresolvedExit
<1> QED BY <1>t, <1>u, <1>1, <1>2, <1>3, <1>4, <1>5, <1>6 DEF Sound

LEMMA ExitBeginsAccounts ==
  ASSUME AInv, OInv', OnePass, env'.may = env.may, NEW t \in Sig, NEW q \in 1..env.may.lot, ExitBegins(t, q)
  PROVE  Deals /\ Sound'
<1>t. t \in Task /\ pc[t] \in Label /\ loc[t] \in Locals
  BY KnownToPass
<1>e. Elsewhere(t)
  BY KnownToPass DEF ExitBegins, AfterSettlement, Finish, Done, Go, ReserveFor, Elsewhere
<1> DEFINE want == Min({q, Arbiter!Available(ledger)})
<1>w. want \in 1..MaxLot
  <2>0. q \in Nat /\ q <= MaxLot /\ ledger \in Arbiter!Ledger
    BY KnownToPass
  <2>1. q \in Nat /\ q <= MaxLot /\ Arbiter!Available(ledger) \in Nat
    BY <2>0, LedgerTyped
  <2>2. want \in Nat /\ want <= q
    BY <2>1, MinOfTwo
  <2>3. want > 0
    BY DEF ExitBegins
  <2> HIDE DEF want
  <2> QED BY <2>1, <2>2, <2>3, KnownToPass
<1>0. /\ pc[t] = "idle" /\ lock = NoTask /\ lock' = t /\ NoUnresolvedExit /\ UNCHANGED <<vexit, life>>
  BY DEF ExitBegins, Idle, At, MayExit, venue
<1>p. /\ loc'[t].want = want
      /\ \/ pc'[t] \in {"amend", "cancel"} /\ UNCHANGED ledger
         \/ /\ pc'[t] = "submit" /\ Arbiter!MayReserve(ledger, want)
            /\ ledger' = Arbiter!ReserveIn(ledger, want)
  BY <1>t, <1>w, KnownToPass DEF ExitBegins, ReserveFor, Go, Locals
<1> HIDE DEF want
<1>s. \A u \in Task \ {t} : pc[u] \notin Exiting \cup {"resolve"}
  BY <1>t, <1>0, Solo
<1>u. \A u \in Task \ {t} : Sells(u)'
  BY <1>e, <1>s DEF Elsewhere, Sells, Exiting
<1>1. Deals
  BY <1>t, <1>0, <1>p, <1>w, FlightBefore, FlightAfter, KnownToPass DEF Deals, RestOf, TransitOf, Submitting, NoUnresolvedExit
<1>2. (Active => env.may.entries > 0)'
  BY <1>0, KnownToPass DEF Sound, Active
<1>3. \A e \in ExitId : Ordered(e)'
  BY <1>0, KnownToPass DEF Sound, Ordered
<1>4. Waits(life.pending)'
  BY <1>0 DEF Waits, NoUnresolvedExit
<1>5. Sells(t)'
  BY <1>w, <1>p DEF Sells, Exiting
<1>6. NoCallFails' => Expected'
  BY <1>t, <1>0, <1>p, KnownToPass DEF Sound, NoCallFails, Expected, NoUnresolvedExit
<1> QED BY <1>t, <1>u, <1>1, <1>2, <1>3, <1>4, <1>5, <1>6 DEF Sound

LEMMA ExitAmendsAccounts ==
  ASSUME AInv, OInv', OnePass, env'.may = env.may, NEW t \in Sig, ExitAmends(t)
  PROVE  Deals /\ Sound'
<1>t. t \in Task /\ pc[t] \in Label /\ loc[t] \in Locals
  BY KnownToPass
<1>e. Elsewhere(t)
  BY KnownToPass DEF ExitAmends, AfterSettlement, Finish, Done, Go, ReserveFor, Elsewhere
<1>0. /\ pc[t] = "amend" /\ lock = t /\ lock' \in {t, NoTask} /\ NoUnresolvedExit /\ vexit' = vexit
      /\ life'.pending = life.pending /\ life'.st = life.st
  BY <1>t, KnownToPass DEF ExitAmends, At, Located, Holding, Placed, Exiting, Done, Life
<1>w. loc[t].want \in 1..MaxLot
  BY <1>t, <1>0, KnownToPass DEF Sells, Exiting
<1>p. \/ pc'[t] = "cancel" /\ UNCHANGED ledger /\ loc'[t].want \in {loc[t].want, 0} /\ (pc'[t] = "cancel" => loc' = loc)
      \/ /\ pc'[t] = "submit" /\ Arbiter!MayReserve(ledger, loc[t].want) /\ loc'[t].want = loc[t].want
         /\ ledger' = Arbiter!ReserveIn(ledger, loc[t].want)
  BY <1>t, KnownToPass DEF ExitAmends, ReserveFor, Go, Done, Locals, NoLocals
<1>s. \A u \in Task \ {t} : pc[u] \notin Exiting \cup {"resolve"}
  BY <1>t, <1>0, Solo
<1>u. \A u \in Task \ {t} : Sells(u)'
  BY <1>e, <1>s DEF Elsewhere, Sells, Exiting
<1>1. Deals
  BY <1>t, <1>0, <1>p, <1>w, FlightBefore, FlightAfter, KnownToPass DEF Deals, RestOf, TransitOf, Submitting, NoUnresolvedExit
<1>2. (Active => env.may.entries > 0)'
  BY <1>0, KnownToPass DEF Sound, Active
<1>3. \A e \in ExitId : Ordered(e)'
  BY <1>0, KnownToPass DEF Sound, Ordered
<1>4. Waits(life.pending)'
  BY <1>0 DEF Waits, NoUnresolvedExit
<1>5. Sells(t)'
  BY <1>w, <1>p DEF Sells, Exiting
<1>6. NoCallFails' => Expected'
  BY <1>t, <1>0, <1>p, KnownToPass DEF Sound, NoCallFails, Expected, NoUnresolvedExit
<1> QED BY <1>t, <1>u, <1>1, <1>2, <1>3, <1>4, <1>5, <1>6 DEF Sound

LEMMA ExitCancelsAccounts ==
  ASSUME AInv, OInv', OnePass, env'.may = env.may, NEW t \in Sig, ExitCancels(t)
  PROVE  Deals /\ Sound'
<1>t. t \in Task /\ pc[t] \in Label /\ loc[t] \in Locals
  BY KnownToPass
<1>e. Elsewhere(t)
  BY KnownToPass DEF ExitCancels, AfterSettlement, Finish, Done, Go, ReserveFor, Elsewhere
<1>0. /\ pc[t] = "cancel" /\ lock = t /\ lock' \in {t, NoTask} /\ NoUnresolvedExit /\ vexit' = vexit
      /\ life'.pending = life.pending /\ life'.st = life.st
  BY <1>t, KnownToPass DEF ExitCancels, At, Located, Holding, Placed, Exiting, Done, Life
<1>w. loc[t].want \in 1..MaxLot
  BY <1>t, <1>0, KnownToPass DEF Sells, Exiting
<1>p. \/ pc'[t] = "idle" /\ UNCHANGED ledger /\ loc'[t].want \in {loc[t].want, 0} /\ (pc'[t] = "cancel" => loc' = loc)
      \/ /\ pc'[t] = "submit" /\ Arbiter!MayReserve(ledger, loc[t].want) /\ loc'[t].want = loc[t].want
         /\ ledger' = Arbiter!ReserveIn(ledger, loc[t].want)
  BY <1>t, KnownToPass DEF ExitCancels, ReserveFor, Go, Done, Locals, NoLocals
<1>s. \A u \in Task \ {t} : pc[u] \notin Exiting \cup {"resolve"}
  BY <1>t, <1>0, Solo
<1>u. \A u \in Task \ {t} : Sells(u)'
  BY <1>e, <1>s DEF Elsewhere, Sells, Exiting
<1>1. Deals
  BY <1>t, <1>0, <1>p, <1>w, FlightBefore, FlightAfter, KnownToPass DEF Deals, RestOf, TransitOf, Submitting, NoUnresolvedExit
<1>2. (Active => env.may.entries > 0)'
  BY <1>0, KnownToPass DEF Sound, Active
<1>3. \A e \in ExitId : Ordered(e)'
  BY <1>0, KnownToPass DEF Sound, Ordered
<1>4. Waits(life.pending)'
  BY <1>0 DEF Waits, NoUnresolvedExit
<1>5. Sells(t)'
  BY <1>w, <1>p DEF Sells, Exiting
<1>6. NoCallFails' => Expected'
  BY <1>t, <1>0, <1>p, KnownToPass DEF Sound, NoCallFails, Expected, NoUnresolvedExit
<1> QED BY <1>t, <1>u, <1>1, <1>2, <1>3, <1>4, <1>5, <1>6 DEF Sound

LEMMA ExitSubmitsAccounts ==
  ASSUME AInv, OInv', OnePass, env'.may = env.may, NEW t \in Sig, ExitSubmits(t)
  PROVE  Deals /\ Sound'
<1>t. t \in Task /\ pc[t] \in Label /\ loc[t] \in Locals
  BY KnownToPass
<1>e. Elsewhere(t)
  BY KnownToPass DEF ExitSubmits, AfterSettlement, Finish, Done, Go, ReserveFor, Elsewhere
<1>0. /\ pc[t] = "submit" /\ lock = t /\ lock' = t /\ NoUnresolvedExit /\ UNCHANGED <<ledger, life>>
      /\ pc'[t] = "answered" /\ loc[t].want \in 1..MaxLot
  BY <1>t, KnownToPass DEF ExitSubmits, At, Located, Holding, Placed, Exiting, Go, Sells
<1>w. PICK e \in ExitId, st \in {"done", "working"}, f \in 0..loc[t].want, a \in {"terminal", "PENDING", "ERROR"} :
        /\ vexit' = [vexit EXCEPT ![e] = [st |-> st, qty |-> loc[t].want, filled |-> f]]
        /\ loc' = [loc EXCEPT ![t].ans = a, ![t].id = e]
        /\ st = "working" => f = 0
        /\ a = "ERROR" => Fault
        /\ a = "terminal" => st = "done"
  <2>1. 0 \in 0..loc[t].want
    BY <1>0, KnownToPass
  <2> QED BY <2>1, Fresh, KnownToPass DEF ExitSubmits, OInv
<1>p. loc'[t].want = loc[t].want /\ loc'[t].ans = a /\ loc'[t].id = e
  BY <1>t, <1>w, KnownToPass DEF Locals
<1>v. /\ vexit'[e] = [st |-> st, qty |-> loc[t].want, filled |-> f]
      /\ \A x \in ExitId \ {e} : vexit'[x] = vexit[x]
  BY <1>w, KnownToPass
<1>s. \A u \in Task \ {t} : pc[u] \notin Exiting \cup {"resolve"}
  BY <1>t, <1>0, Solo
<1>u. \A u \in Task \ {t} : Sells(u)'
  BY <1>e, <1>s DEF Elsewhere, Sells, Exiting
<1>1. Deals
  BY <1>t, <1>0, <1>p, FlightBefore, FlightAfter DEF Deals, TransitOf, Submitting
<1>2. (Active => env.may.entries > 0)'
  BY <1>0, KnownToPass DEF Sound, Active
<1>3. \A x \in ExitId : Ordered(x)'
  <2>1. Ordered(e)'
    BY <1>0, <1>w, <1>v, KnownToPass DEF Ordered
  <2> QED BY <2>1, <1>v, KnownToPass DEF Sound, Ordered
<1>4. Waits(life.pending)'
  BY <1>0 DEF Waits, NoUnresolvedExit
<1>5. Sells(t)'
  BY <1>0, <1>p, <1>v DEF Sells, Exiting
<1>6. NoCallFails' => Expected'
  <2> SUFFICES ASSUME NoCallFails, NEW x \in ExitId, vexit'[x].st = "working"
               PROVE  x = e /\ a = "PENDING"
    BY <1>t, <1>0, <1>p, KnownToPass DEF Expected, NoCallFails
  <2>1. vexit[x].st # "working"
    BY <1>0, KnownToPass DEF Sound, Expected, NoUnresolvedExit
  <2>2. x = e /\ st = "working"
    BY <1>v, <2>1
  <2>3. ~Fault
    BY KnownToPass, Bounds, NoFault DEF NoCallFails, Fault, Env
  <2> QED BY <1>w, <2>2, <2>3
<1> QED BY <1>t, <1>u, <1>1, <1>2, <1>3, <1>4, <1>5, <1>6 DEF Sound

LEMMA ExitUnresolvedAccounts ==
  ASSUME AInv, OInv', OnePass, env'.may = env.may, NEW t \in Sig, ExitUnresolved(t)
  PROVE  Deals /\ Sound'
<1>t. t \in Task /\ pc[t] \in Label /\ loc[t] \in Locals
  BY KnownToPass
<1>e. Elsewhere(t)
  BY KnownToPass DEF ExitUnresolved, AfterSettlement, Finish, Done, Go, ReserveFor, Elsewhere
<1>0. /\ pc[t] = "answered" /\ lock = t /\ lock' = NoTask /\ NoUnresolvedExit /\ UNCHANGED <<ledger, vexit>>
      /\ pc'[t] = "idle" /\ loc[t].want \in 1..MaxLot /\ loc[t].id \in ExitId
      /\ vexit[loc[t].id].qty = loc[t].want /\ life'.st = life.st /\ life'.pending = PendingExit(t)
  BY <1>t, KnownToPass DEF ExitUnresolved, At, Located, Holding, Placed, Exiting, Finish, Done, Sells, venue, Life
<1>p. /\ life'.pending.requested = loc[t].want /\ life'.pending.confirmed = 0
      /\ life'.pending.st = IF loc[t].ans = "PENDING" THEN "id" ELSE "noid"
      /\ loc[t].ans = "PENDING" => life'.pending.id = loc[t].id
  BY <1>0 DEF PendingExit
<1>s. \A u \in Task \ {t} : pc[u] \notin Exiting \cup {"resolve"}
  BY <1>t, <1>0, Solo
<1>u. \A u \in Task \ {t} : Sells(u)'
  BY <1>e, <1>s DEF Elsewhere, Sells, Exiting
<1>1. Deals
  <2>1. InFlight = 0 + loc[t].want
    BY <1>t, <1>0, FlightBefore DEF RestOf, TransitOf, Submitting, NoUnresolvedExit
  <2>2. InFlight' = (loc[t].want - 0) + 0
    BY <1>t, <1>0, <1>p, FlightAfter DEF RestOf, TransitOf, Submitting
  <2> QED BY <1>0, <2>1, <2>2 DEF Deals
<1>2. (Active => env.may.entries > 0)'
  BY <1>0, KnownToPass DEF Sound, Active
<1>3. \A e \in ExitId : Ordered(e)'
  BY <1>0, KnownToPass DEF Sound, Ordered
<1>4. Waits(life.pending)'
  <2>1. vexit[loc[t].id].filled >= 0 /\ loc[t].want >= 0 /\ loc[t].want <= MaxLot
    BY <1>0, KnownToPass DEF ExitOrder
  <2> QED BY <1>0, <1>p, <2>1 DEF Waits
<1>5. Sells(t)'
  BY <1>0 DEF Sells, Exiting
<1>6. NoCallFails' => Expected'
  BY <1>t, <1>0, <1>p, KnownToPass DEF Sound, NoCallFails, Expected, NoUnresolvedExit
<1> QED BY <1>t, <1>u, <1>1, <1>2, <1>3, <1>4, <1>5, <1>6 DEF Sound

(* The end of a settlement, seen from the pending exit.                      *)
LEMMA AfterAccounts ==
  ASSUME AInv, OnePass, NEW t \in Task, NEW lf \in Life, NEW restore, NEW amended,
         AfterSettlement(t, lf, restore, amended), lock \in {t, NoTask}
  PROVE  /\ life'.pending = lf.pending /\ (life'.st = "open" => lf.st = "open")
         /\ pc'[t] \in {"idle", "restore", "place"} /\ lock' \in {t, NoTask}
<1>1. life' \in {lf, [lf EXCEPT !.st = "closed"], Placing(lf)}
  BY DEF AfterSettlement
<1>2. life'.pending = lf.pending /\ (life'.st = "open" => lf.st = "open")
  BY <1>1 DEF Life, Placing
<1>3. Finish(t) \/ (lock' = t /\ (Go(t, "restore") \/ Go(t, "place")))
  BY DEF AfterSettlement
<1> QED BY <1>2, <1>3, KnownToPass DEF Finish, Done, Go

LEMMA ExitAnsweredAccounts ==
  ASSUME AInv, OInv', OnePass, env'.may = env.may, NEW t \in Sig, ExitAnswered(t)
  PROVE  Deals /\ Sound'
<1>t. t \in Task /\ pc[t] \in Label /\ loc[t] \in Locals
  BY KnownToPass
<1>e. Elsewhere(t)
  BY KnownToPass DEF ExitAnswered, AfterSettlement, Finish, Done, Go, ReserveFor, Elsewhere
<1> DEFINE f == vexit[loc[t].id].filled
           lf == [life EXCEPT !.owned = ledger'.owned]
<1>0. /\ pc[t] = "answered" /\ lock = t /\ NoUnresolvedExit /\ vexit' = vexit /\ Active
      /\ loc[t].want \in 1..MaxLot /\ loc[t].id \in ExitId /\ loc[t].ans = "terminal"
      /\ vexit[loc[t].id].qty = loc[t].want
  BY <1>t, KnownToPass DEF ExitAnswered, At, Located, Holding, Placed, Exiting, Sells, venue, Orderly, Locked
<1>l. ledger' \in Arbiter!Ledger /\ ledger' = Arbiter!SettleIn(ledger, loc[t].want, f)
  BY DEF ExitAnswered, OInv, IInv, TypedBooks
<1>f. f \in 0..MaxLot /\ f <= loc[t].want
  BY <1>0, KnownToPass DEF Sound, Ordered, ExitOrder
<1>a. lf \in Life /\ lf.pending = life.pending /\ lf.st = life.st
  BY <1>l, KnownToPass DEF Life, Arbiter!Ledger
<1>b. AfterSettlement(t, lf, loc[t].stopped, loc[t].amended)
  BY DEF ExitAnswered
<1> HIDE DEF f, lf
<1>p. /\ life'.pending = life.pending /\ (Active' => Active) /\ lock' \in {t, NoTask}
      /\ pc'[t] \in {"idle", "restore", "place"}
  BY <1>t, <1>0, <1>a, <1>b, AfterAccounts DEF Active
<1>s. \A u \in Task \ {t} : pc[u] \notin Exiting \cup {"resolve"}
  BY <1>t, <1>0, Solo
<1>u. \A u \in Task \ {t} : Sells(u)'
  BY <1>e, <1>s DEF Elsewhere, Sells, Exiting
<1>1. Deals
  <2>1. InFlight = 0 + loc[t].want
    BY <1>t, <1>0, FlightBefore DEF RestOf, TransitOf, Submitting, NoUnresolvedExit
  <2>2. InFlight' = 0 + 0
    BY <1>t, <1>0, <1>p, FlightAfter DEF RestOf, TransitOf, Submitting, NoUnresolvedExit
  <2>3. loc[t].want \in 0..MaxLot /\ loc[t].want <= InFlight /\ InFlight' = InFlight - loc[t].want
    BY <1>0, <2>1, <2>2, KnownToPass
  <2> QED BY <1>l, <1>f, <2>3 DEF Deals
<1>2. (Active => env.may.entries > 0)'
  BY <1>p, KnownToPass DEF Sound
<1>3. \A e \in ExitId : Ordered(e)'
  BY <1>0, KnownToPass DEF Sound, Ordered
<1>4. Waits(life.pending)'
  BY <1>0, <1>p DEF Waits, NoUnresolvedExit
<1>5. Sells(t)'
  BY <1>p DEF Sells, Exiting
<1>6. NoCallFails' => Expected'
  BY <1>0, KnownToPass DEF Sound, NoCallFails, Expected, NoUnresolvedExit
<1> QED BY <1>t, <1>u, <1>1, <1>2, <1>3, <1>4, <1>5, <1>6 DEF Sound

LEMMA PollExitAccounts ==
  ASSUME AInv, OInv', OnePass, env'.may = env.may, NEW t \in Rec, PollExit(t)
  PROVE  Deals /\ Sound'
<1>t. t \in Task /\ pc[t] \in Label /\ loc[t] \in Locals
  BY KnownToPass
<1>e. Elsewhere(t)
  BY KnownToPass DEF PollExit, AfterSettlement, Finish, Done, Go, ReserveFor, Elsewhere
<1>0. /\ pc[t] = "idle" /\ UNCHANGED <<ledger, vexit, lock, life>> /\ life.pending.st = "id"
      /\ t \in env.may.tasks /\ HasNews(vexit[life.pending.id]) /\ life.pending.id \in ExitId
  BY KnownToPass DEF PollExit, Idle, At, venue, Pending
<1>p. /\ pc'[t] = "resolve" /\ loc'[t].seen = vexit[life.pending.id].filled
      /\ loc'[t].ans = IF vexit[life.pending.id].st = "done" THEN "final" ELSE "partial"
  BY <1>t, KnownToPass DEF PollExit, Go, Locals
<1>l. lock # t
  BY <1>t, <1>0, KnownToPass DEF Orderly, Locked, Holding
<1>u. \A u \in Task \ {t} : Sells(u)'
  <2>1. \A u \in Task \ {t} : Sells(u)
    BY KnownToPass
  <2> QED BY <1>e, <1>0, <2>1 DEF Elsewhere, Sells
<1>1. Deals
  BY <1>t, <1>e, <1>0, <1>l, Alike DEF Deals
<1>2. (Active => env.may.entries > 0)'
  BY <1>0, KnownToPass DEF Sound, Active
<1>3. \A e \in ExitId : Ordered(e)'
  BY <1>0, KnownToPass DEF Sound, Ordered
<1>4. Waits(life.pending)'
  BY <1>0, KnownToPass DEF Sound, Waits
<1>5. Sells(t)'
  <2>1. life.pending.confirmed <= vexit[life.pending.id].filled /\ vexit[life.pending.id].filled \in Nat
    BY <1>0, KnownToPass DEF Sound, Waits, ExitOrder
  <2> QED BY <1>0, <1>p, <2>1 DEF Sells, Exiting
<1>6. NoCallFails' => Expected'
  <2>1. lock # NoTask => lock \in Task \ {t}
    BY <1>l, KnownToPass
  <2> QED BY <1>0, <1>e, <2>1, KnownToPass DEF Sound, NoCallFails, Expected, Elsewhere
<1> QED BY <1>t, <1>u, <1>1, <1>2, <1>3, <1>4, <1>5, <1>6 DEF Sound

LEMMA ResolvePartialAccounts ==
  ASSUME AInv, OInv', OnePass, env'.may = env.may, NEW t \in Rec, ResolvePartial(t)
  PROVE  Deals /\ Sound'
<1>t. t \in Task /\ pc[t] \in Label /\ loc[t] \in Locals
  BY KnownToPass
<1>e. Elsewhere(t)
  BY KnownToPass DEF ResolvePartial, AfterSettlement, Finish, Done, Go, ReserveFor, Elsewhere
<1> DEFINE p == life.pending
           e == vexit[p.id]
<1>0. /\ pc[t] = "resolve" /\ lock = NoTask /\ vexit' = vexit
      /\ p.st = "id" /\ p.id \in ExitId /\ p.confirmed <= loc[t].seen /\ loc[t].seen <= e.filled
      /\ loc[t].ans \in {"partial", "final"} /\ (loc[t].ans = "final" => e.st = "done")
      /\ p.requested = e.qty /\ e.filled <= e.qty /\ e.qty <= MaxLot /\ Active
      /\ (e.st = "working" => e.filled < e.qty)
  BY <1>t, KnownToPass DEF ResolvePartial, At, Sells, venue, Pending, Sound, Waits, Ordered, Orderly, Rested, Active
<1>n. /\ p.confirmed \in Nat /\ p.requested \in Nat /\ loc[t].seen \in Nat /\ e.filled \in Nat /\ e.qty \in Nat
      /\ e.st \in {"none", "working", "done"}
  BY <1>t, <1>0, KnownToPass DEF Pending, PendingRecord, Locals, ExitOrder
<1>i. Increase(t) = loc[t].seen - p.confirmed
  BY <1>0, <1>n DEF Increase, Arbiter!AtLeastZero
<1>f. InFlight = p.requested - p.confirmed
  <2>1. InFlight = (p.requested - p.confirmed) + 0
    BY <1>t, <1>0, FlightBefore DEF RestOf, TransitOf, Submitting
  <2> QED BY <1>n, <2>1
<1>s. \A u \in Task \ {t} : pc[u] \notin Exiting \cup {"resolve"}
  BY <1>t, <1>0, Solo
<1>u. \A u \in Task \ {t} : Sells(u)'
  BY <1>e, <1>s DEF Elsewhere, Sells, Exiting
<1>p. /\ loc[t].seen < p.requested /\ pc'[t] = "idle" /\ lock' = NoTask
      /\ ledger' = IF Increase(t) > 0 THEN Arbiter!SettleIn(ledger, Increase(t), Increase(t)) ELSE ledger
  BY <1>t, <1>0, KnownToPass DEF ResolvePartial, Finish, Done
<1>v. /\ life'.st = life.st /\ life'.pending.st = p.st /\ life'.pending.id = p.id
      /\ life'.pending.requested = p.requested /\ life'.pending.confirmed = loc[t].seen
  <2>1. \E x \in Int : life' = [life EXCEPT !.owned = x, !.pending.confirmed = loc[t].seen]
    <3>1. (IF Increase(t) > 0 THEN Arbiter!SettleIn(ledger, Increase(t), Increase(t)).owned ELSE life.owned) \in Int
      <4>1. Increase(t) > 0 => Arbiter!SettleIn(ledger, Increase(t), Increase(t)) \in Arbiter!Ledger
        <5>1. ledger \in Arbiter!Ledger /\ (Increase(t) > 0 => Increase(t) \in Nat)
          BY <1>n, <1>i, KnownToPass
        <5> QED BY <5>1, LedgerTyped
      <4> QED BY <4>1, KnownToPass DEF Arbiter!Ledger, Life
    <3>2. life' = [life EXCEPT !.owned = IF Increase(t) > 0 THEN Arbiter!SettleIn(ledger, Increase(t), Increase(t)).owned ELSE @,
                               !.pending.confirmed = loc[t].seen]
      BY DEF ResolvePartial
    <3> QED BY <3>1, <3>2, KnownToPass DEF Life
  <2> QED BY <2>1, KnownToPass DEF Life, Pending, PendingRecord
<1>1. Deals
  <2>1. InFlight' = (p.requested - loc[t].seen) + 0
    BY <1>t, <1>0, <1>p, <1>v, FlightAfter DEF RestOf, TransitOf, Submitting
  <2>2. InFlight' = InFlight - Increase(t) /\ Increase(t) \in 0..MaxLot /\ Increase(t) <= InFlight
    BY <1>0, <1>n, <1>i, <1>f, <1>p, <2>1, KnownToPass
  <2>3. ~(Increase(t) > 0) => InFlight' = InFlight
    BY <1>n, <1>f, <2>2
  <2>4. Increase(t) <= Increase(t)
    BY <2>2
  <2> QED BY <1>p, <2>2, <2>3, <2>4 DEF Deals
<1>2. (Active => env.may.entries > 0)'
  BY <1>v, KnownToPass DEF Sound, Active
<1>3. \A x \in ExitId : Ordered(x)'
  BY <1>0, KnownToPass DEF Sound, Ordered
<1>4. Waits(life.pending)'
  BY <1>0, <1>n, <1>p, <1>v, KnownToPass DEF Waits
<1>5. Sells(t)'
  BY <1>p DEF Sells, Exiting
<1>6. NoCallFails' => Expected'
  BY <1>0, <1>p, <1>v, KnownToPass DEF Sound, NoCallFails, Expected
<1> QED BY <1>t, <1>u, <1>1, <1>2, <1>3, <1>4, <1>5, <1>6 DEF Sound

LEMMA ResolveFinalAccounts ==
  ASSUME AInv, OInv', OnePass, env'.may = env.may, NEW t \in Rec, ResolveFinal(t)
  PROVE  Deals /\ Sound'
<1>t. t \in Task /\ pc[t] \in Label /\ loc[t] \in Locals
  BY KnownToPass
<1>e. Elsewhere(t)
  BY KnownToPass DEF ResolveFinal, AfterSettlement, Finish, Done, Go, ReserveFor, Elsewhere
<1> DEFINE p == life.pending
           e == vexit[p.id]
<1>0. /\ pc[t] = "resolve" /\ lock = NoTask /\ vexit' = vexit
      /\ p.st = "id" /\ p.id \in ExitId /\ p.confirmed <= loc[t].seen /\ loc[t].seen <= e.filled
      /\ loc[t].ans \in {"partial", "final"} /\ (loc[t].ans = "final" => e.st = "done")
      /\ p.requested = e.qty /\ e.filled <= e.qty /\ e.qty <= MaxLot /\ Active
      /\ (e.st = "working" => e.filled < e.qty)
  BY <1>t, KnownToPass DEF ResolveFinal, At, Sells, venue, Pending, Sound, Waits, Ordered, Orderly, Rested, Active
<1>n. /\ p.confirmed \in Nat /\ p.requested \in Nat /\ loc[t].seen \in Nat /\ e.filled \in Nat /\ e.qty \in Nat
      /\ e.st \in {"none", "working", "done"}
  BY <1>t, <1>0, KnownToPass DEF Pending, PendingRecord, Locals, ExitOrder
<1>i. Increase(t) = loc[t].seen - p.confirmed
  BY <1>0, <1>n DEF Increase, Arbiter!AtLeastZero
<1>f. InFlight = p.requested - p.confirmed
  <2>1. InFlight = (p.requested - p.confirmed) + 0
    BY <1>t, <1>0, FlightBefore DEF RestOf, TransitOf, Submitting
  <2> QED BY <1>n, <2>1
<1>s. \A u \in Task \ {t} : pc[u] \notin Exiting \cup {"resolve"}
  BY <1>t, <1>0, Solo
<1>u. \A u \in Task \ {t} : Sells(u)'
  BY <1>e, <1>s DEF Elsewhere, Sells, Exiting
<1> DEFINE lf == [life EXCEPT !.owned = ledger'.owned, !.pending = NoPending]
<1>l. /\ ledger' \in Arbiter!Ledger
      /\ ledger' = Arbiter!SettleIn(ledger, StillReserved(life.pending, Increase(t)), Increase(t))
  BY DEF ResolveFinal, OInv, IInv, TypedBooks
<1>r. StillReserved(life.pending, Increase(t)) = InFlight
  BY <1>0, <1>n, <1>f DEF StillReserved, Arbiter!AtLeastZero
<1>a. lf \in Life /\ lf.pending = NoPending /\ lf.st = life.st
  BY <1>l, StartTyped, KnownToPass DEF Life, Arbiter!Ledger
<1>b. AfterSettlement(t, lf, TRUE, life.pending.amended)
  BY DEF ResolveFinal
<1>c. loc[t].ans = "final" \/ loc[t].seen >= p.requested
  BY DEF ResolveFinal
<1> HIDE DEF lf
<1>p. /\ life'.pending = NoPending /\ (Active' => Active) /\ lock' \in {t, NoTask}
      /\ pc'[t] \in {"idle", "restore", "place"}
  BY <1>t, <1>0, <1>a, <1>b, AfterAccounts DEF Active
<1>1. Deals
  <2>1. InFlight' = 0 + 0
    BY <1>t, <1>0, <1>p, FlightAfter DEF RestOf, TransitOf, Submitting, NoPending
  <2>2. InFlight \in 0..MaxLot /\ Increase(t) \in 0..MaxLot /\ Increase(t) <= InFlight
    BY <1>0, <1>n, <1>i, <1>f, KnownToPass
  <2>3. InFlight <= InFlight /\ InFlight' = InFlight - InFlight
    BY <2>1, <2>2
  <2> QED BY <1>l, <1>r, <2>2, <2>3 DEF Deals
<1>2. (Active => env.may.entries > 0)'
  BY <1>p, KnownToPass DEF Sound
<1>3. \A x \in ExitId : Ordered(x)'
  BY <1>0, KnownToPass DEF Sound, Ordered
<1>4. Waits(life.pending)'
  BY <1>p DEF Waits, NoPending
<1>5. Sells(t)'
  BY <1>p DEF Sells, Exiting
<1>6. NoCallFails' => Expected'
  <2>1. e.st # "working"
    BY <1>0, <1>n, <1>c
  <2> QED BY <1>0, <2>1, KnownToPass DEF Sound, NoCallFails, Expected
<1> QED BY <1>t, <1>u, <1>1, <1>2, <1>3, <1>4, <1>5, <1>6 DEF Sound

LEMMA VenueAccounts ==
  ASSUME AInv, OInv', OnePass, env'.may = env.may, Venue
  PROVE  Deals /\ Sound'
<1>1. UNCHANGED <<ledger, lock, life, pc, loc>> /\ InFlight' = InFlight
  BY DEF Venue, StopTriggers, ExitEnds, ExitProgresses, InFlight, InTransit
<1>2. \A x \in ExitId : /\ vexit'[x].qty = vexit[x].qty /\ vexit'[x].filled >= vexit[x].filled
                        /\ vexit'[x].st = "working" => vexit[x].st = "working"
                        /\ vexit[x].st = "done" => vexit'[x].st = "done"
                        /\ Ordered(x)'
  <2>1. ASSUME NEW s \in StopId, StopTriggers(s)
        PROVE  \A x \in ExitId : vexit'[x] = vexit[x] /\ vexit[x].filled >= vexit[x].filled /\ Ordered(x)'
    BY <2>1, KnownToPass DEF StopTriggers, Sound, Ordered, ExitOrder
  <2>2. ASSUME NEW e \in ExitId, ExitEnds(e)
        PROVE  \A x \in ExitId : /\ vexit'[x].qty = vexit[x].qty /\ vexit'[x].filled >= vexit[x].filled
                                 /\ vexit'[x].st = "working" => vexit[x].st = "working"
                                 /\ vexit[x].st = "done" => vexit'[x].st = "done" /\ Ordered(x)'
                                 /\ Ordered(x)'
    BY <2>2, KnownToPass DEF ExitEnds, Sound, Ordered, ExitOrder
  <2>3. ASSUME NEW e \in ExitId, NEW f \in 1..env.may.lot, ExitProgresses(e, f)
        PROVE  \A x \in ExitId : /\ vexit'[x].qty = vexit[x].qty /\ vexit'[x].filled >= vexit[x].filled
                                 /\ vexit'[x].st = "working" => vexit[x].st = "working"
                                 /\ vexit[x].st = "done" => vexit'[x].st = "done"
                                 /\ Ordered(x)'
    <3>1. /\ vexit[e].st = "working" /\ f \in Nat /\ f <= vexit[e].qty - vexit[e].filled
          /\ vexit[e].qty \in Nat /\ vexit[e].filled \in Nat /\ vexit[e].qty <= MaxLot
      BY <2>3, KnownToPass DEF ExitProgresses, ExitOrder, Sound, Ordered
    <3>2. /\ vexit'[e].filled = vexit[e].filled + f /\ vexit'[e].qty = vexit[e].qty
          /\ vexit'[e].st = IF vexit[e].filled + f = vexit[e].qty THEN "done" ELSE "working"
          /\ \A x \in ExitId \ {e} : vexit'[x] = vexit[x]
      BY <2>3, <3>1, KnownToPass DEF ExitProgresses, ExitOrder
    <3>3. \A x \in ExitId \ {e} : Ordered(x)' /\ vexit'[x].filled >= vexit[x].filled
      BY <3>2, KnownToPass DEF Sound, Ordered, ExitOrder
    <3>4. Ordered(e)' /\ vexit'[e].filled >= vexit[e].filled
      BY <3>1, <3>2, KnownToPass DEF Ordered
    <3> QED BY <3>1, <3>2, <3>3, <3>4
  <2> QED BY <2>1, <2>2, <2>3 DEF Venue
<1>n. \A x \in ExitId : vexit[x].filled \in Nat /\ vexit'[x].filled \in Nat
  BY KnownToPass DEF OInv, IInv, TypedVenue, ExitOrder
<1>3. Waits(life.pending)'
  BY <1>1, <1>2, <1>n, KnownToPass DEF Sound, Waits, Pending, PendingRecord
<1>4. ASSUME NEW u \in Task PROVE Sells(u)'
  <2>1. Sells(u) /\ Located(u) /\ loc[u].seen \in Nat
    BY KnownToPass DEF Locals
  <2> QED BY <1>1, <1>2, <1>n, <2>1, KnownToPass DEF Sells, Located, Pending
<1>5. NoCallFails' => Expected'
  BY <1>1, <1>2, KnownToPass DEF Sound, NoCallFails, Expected
<1>6. (Active => env.may.entries > 0)'
  BY <1>1, KnownToPass DEF Sound, Active
<1> QED BY <1>1, <1>2, <1>3, <1>4, <1>5, <1>6 DEF Deals, Sound

(* So does every step.                                                       *)
LEMMA StepAccounts ==
  ASSUME AInv, OnePass, [Next]_vars
  PROVE  Deals /\ Sound' /\ OInv' /\ env'.may = env.may
<1>0. OInv' /\ env'.may = env.may
  BY NextOInv, SettingStays DEF AInv, OInv
<1>b. OInv /\ Blind
  BY KnownToPass
<1>1. ASSUME NEW s \in Sig, NEW q \in 1..env.may.lot, ExitBegins(s, q) PROVE Deals /\ Sound'
  BY <1>0, <1>1, ExitBeginsAccounts
<1>2. ASSUME NEW s \in Sig, Entering(s) \/ ExitProceeds(s) \/ Ratchet(s)
      PROVE  Deals /\ Sound'
  BY <1>0, <1>2, StartPlanAccounts, EntryFillsAccounts, OnEntryFillAccounts, ExitAmendsAccounts, ExitCancelsAccounts,
     ExitSubmitsAccounts, ExitUnresolvedAccounts, ExitAnsweredAccounts, RatchetAccounts
  DEF Entering, ExitProceeds
<1>3. ASSUME NEW t \in Task, PlacingStop(t) \/ Restoring(t) \/ Repricing(t) \/ OnStopFilled(t)
      PROVE  Deals /\ Sound'
  BY <1>0, <1>b, <1>3, AdoptionFindsNothingAccounts, AdoptionRejectedAccounts, AdoptionFilledAccounts,
     OrderStopAccounts, StopOrderedAccounts, BrokerCallRaisesAccounts, RestoreCoverageAccounts,
     RepriceBeginsAccounts, RepriceReplacesAccounts, RepriceCancelsAccounts, NothingIsRead
  DEF PlacingStop, Restoring, Repricing
<1>4. ASSUME NEW r \in Rec, Resolving(r) \/ RetryUnprotected(r) \/ ReconcilingPosition(r)
      PROVE  Deals /\ Sound'
  BY <1>0, <1>b, <1>4, PollExitAccounts, NothingToResolveAccounts, ResolvePartialAccounts, ResolveFinalAccounts,
     RetryUnprotectedAccounts, NothingIsRead
  DEF Resolving
<1>5. CASE Venue
  BY <1>0, <1>5, VenueAccounts
<1>6. ~PriceTick /\ ~CrashAndRestart
  BY KnownToPass DEF OnePass, PriceTick, CrashAndRestart, Env
<1>7. CASE UNCHANGED vars
  <2>1. UNCHANGED <<vexit, ledger, lock, life, pc, loc, env>>
    BY <1>7 DEF vars, venue
  <2>2. InFlight' = InFlight
    BY <2>1 DEF InFlight, InTransit
  <2>3. /\ (\A e \in ExitId : Ordered(e))' /\ Waits(life.pending)' /\ (\A t \in Task : Sells(t))'
        /\ (Active => env.may.entries > 0)'
    BY <2>1, KnownToPass DEF Sound, Active, Ordered, Waits, Sells
  <2>4. NoCallFails' => Expected'
    BY <2>1, KnownToPass DEF Sound, NoCallFails, Expected
  <2> QED BY <1>0, <2>1, <2>2, <2>3, <2>4 DEF Sound, Deals
<1> QED BY <1>0, <1>1, <1>2, <1>3, <1>4, <1>5, <1>6, <1>7 DEF Next

(* Each dealing keeps the reservation equal to what is in flight, and owned. *)
LEMMA DealsBalance ==
  ASSUME AInv, OnePass, Deals
  PROVE  ledger'.reserved = InFlight' /\ ledger'.reserved <= ledger'.owned
<1>0. /\ ledger.reserved = InFlight /\ ledger.reserved <= ledger.owned /\ InFlight \in Nat
      /\ ledger.reserved \in Nat /\ ledger.owned \in Nat /\ ledger \in Arbiter!Ledger
  BY KnownToPass DEF Accounted
<1>1. CASE ledger' = ledger /\ InFlight' = InFlight
  BY <1>0, <1>1
<1>2. ASSUME NEW q \in 1..MaxLot, Arbiter!MayReserve(ledger, q), ledger' = Arbiter!ReserveIn(ledger, q), InFlight' = InFlight + q
      PROVE  ledger'.reserved = InFlight' /\ ledger'.reserved <= ledger'.owned
  <2>1. ledger'.reserved = ledger.reserved + q /\ ledger'.owned = ledger.owned
    BY <1>0, <1>2 DEF Arbiter!ReserveIn, Arbiter!CheckInvariant, Arbiter!Ledger
  <2>2. q <= ledger.owned - ledger.reserved /\ q \in Nat
    BY <1>2, KnownToPass DEF Arbiter!MayReserve
  <2> QED BY <1>0, <1>2, <2>1, <2>2
<1>3. ASSUME NEW r \in 0..MaxLot, NEW f \in 0..MaxLot, f <= r, r <= InFlight,
             ledger' = Arbiter!SettleIn(ledger, r, f), InFlight' = InFlight - r
      PROVE  ledger'.reserved = InFlight' /\ ledger'.reserved <= ledger'.owned
  <2>1. ledger'.reserved = Arbiter!AtLeastZero(ledger.reserved - r) /\ ledger'.owned = ledger.owned - f
    BY <1>0, <1>3 DEF Arbiter!SettleIn, Arbiter!CheckInvariant, Arbiter!Ledger
  <2>2. r \in Nat /\ f \in Nat
    BY KnownToPass
  <2>3. ledger'.reserved = ledger.reserved - r
    BY <1>0, <1>3, <2>1, <2>2 DEF Arbiter!AtLeastZero
  <2> QED BY <1>0, <1>3, <2>1, <2>2, <2>3
<1>4. ASSUME NEW q \in 0..MaxLot, ledger.reserved <= q, ledger' = Arbiter!SetOwnedIn(ledger, q), InFlight' = InFlight
      PROVE  ledger'.reserved = InFlight' /\ ledger'.reserved <= ledger'.owned
  BY <1>0, <1>4 DEF Arbiter!SetOwnedIn, Arbiter!Ledger
<1> QED BY <1>1, <1>2, <1>3, <1>4 DEF Deals

(* AInv is inductive.                                                        *)
LEMMA NextAInv == AInv /\ [Next]_vars => AInv'
<1> SUFFICES ASSUME AInv, [Next]_vars PROVE AInv'
  OBVIOUS
<1>0. OInv' /\ env'.may = env.may
  BY NextOInv, SettingStays DEF AInv, OInv
<1> SUFFICES ASSUME OnePass PROVE Accounted'
  BY <1>0 DEF AInv, OnePass
<1>1. Sound' /\ ledger'.reserved = InFlight' /\ ledger'.reserved <= ledger'.owned
  BY StepAccounts, DealsBalance
<1>2. Equal(life, ledger)' /\ Equal(row.life, row.ledger)'
  <2>1. \A s \in Sig : StartPlan(s) => ledger.owned = 0
    BY KnownToPass DEF StartPlan, MayEnter, Active, Orderly, Rested
  <2>2. IInv /\ Equal(life, ledger) /\ Equal(row.life, row.ledger)
    BY KnownToPass DEF Accounted
  <2> QED BY <2>1, <2>2, MovesTogether, EqualRow
<1> QED BY <1>1, <1>2 DEF Accounted

(* AInv holds for ever.                                                      *)
LEMMA PassInductive == Spec => []AInv
<1>1. Init => AInv
  <2> SUFFICES ASSUME Init PROVE Accounted
    BY InitOInv DEF AInv
  <2>1. \A e \in ExitId : Ordered(e) /\ vexit[e].st # "working"
    BY Bounds DEF Init, Ordered
  <2>2. InFlight = 0
    BY DEF Init, InFlight, InTransit, RestOf, NoLife, NoPending
  <2>3. Sound
    BY <2>1 DEF Init, Sound, Active, Waits, Sells, Exiting, Expected, NoLife, NoPending
  <2> QED BY <2>2, <2>3 DEF Init, Accounted, Equal, NoRow, NoLife, Arbiter!NewLedger
<1> QED BY <1>1, NextAInv, PTL DEF Spec

(* Where no call fails, one pass runs at a time and nothing else moves the   *)
(* position, an exit order that still works at the venue is the pending      *)
(* exit, with its unfilled part reserved, whenever the lock is free: no exit *)
(* is forgotten or superseded while it can fill.                             *)
THEOREM WaitsForWhatWorks == Spec => []WorkingIsPending
<1>1. AInv => WorkingIsPending
  <2> SUFFICES ASSUME AInv, OnePass, NoCallFails, lock = NoTask, NEW e \in Working
               PROVE  life.pending.id = e /\ ledger.reserved >= vexit[e].qty - vexit[e].filled
    BY DEF WorkingIsPending
  <2>1. life.pending.st = "id" /\ life.pending.id = e /\ e \in ExitId
    BY KnownToPass DEF Working, Sound, Expected
  <2>2. ledger.reserved = (life.pending.requested - life.pending.confirmed) + 0
    BY <2>1, KnownToPass DEF Accounted, InFlight, InTransit, RestOf
  <2>3. vexit[e].qty = life.pending.requested /\ life.pending.confirmed <= vexit[e].filled
    BY <2>1, KnownToPass DEF Sound, Waits
  <2>4. vexit[e].qty \in Nat /\ vexit[e].filled \in Nat /\ life.pending.confirmed \in Nat
    BY <2>1, KnownToPass DEF ExitOrder, Pending, PendingRecord
  <2> QED BY <2>1, <2>2, <2>3, <2>4
<1> QED BY <1>1, PassInductive, PTL

(* The lifecycle and the arbiter agree on the quantity owned whenever the    *)
(* lock is free, with one entry through crashes, lost answers and readback,  *)
(* and with any number of entries where one pass runs at a time.             *)
THEOREM OwnedOnce == Spec => []CopiesAgree
<1>1. CInv /\ AInv => CopiesAgree
  BY DEF CInv, Single, Copies, AInv, Accounted, Equal, CopiesAgree
<1> QED BY <1>1, CopyInductive, PassInductive, PTL

(* A row is written only when the lock is free again: what it holds is then  *)
(* all there is in flight.                                                   *)
LEMMA RowIsWhole ==
  ASSUME AInv, OnePass, [Next]_vars
  PROVE  UNCHANGED row \/ (Persist /\ lock' = NoTask)
<1> DEFINE Whole == UNCHANGED row \/ (Persist /\ lock' = NoTask)
<1>f. \A t \in Task : Finish(t) /\ lock \in {t, NoTask} => Whole
  BY DEF Finish, Done
<1>1. ASSUME NEW s \in Sig, Entering(s) \/ Ratchet(s) \/ \E q \in 1..env.may.lot : ExitBegins(s, q)
      PROVE  Whole
  <2>1. CASE StartPlan(s)
    BY <2>1, KnownToPass DEF StartPlan, MayEnter, Active, Orderly, Locked
  <2> QED BY <1>1, <2>1 DEF Entering, EntryFills, OnEntryFill, Ratchet, ExitBegins, durable
<1>2. ASSUME NEW s \in Sig, ExitProceeds(s) PROVE Whole
  <2>1. CASE ExitAmends(s) \/ ExitCancels(s) \/ ExitSubmits(s)
    BY <2>1 DEF ExitAmends, ExitCancels, ExitSubmits, durable
  <2>2. s \in Task /\ (pc[s] = "answered" => lock = s)
    BY KnownToPass DEF Located, Holding
  <2>3. CASE ExitUnresolved(s)
    BY <1>f, <2>2, <2>3 DEF ExitUnresolved, At
  <2>4. CASE ExitAnswered(s)
    BY <1>f, <2>2, <2>4 DEF ExitAnswered, AfterSettlement, At, durable
  <2> QED BY <1>2, <2>1, <2>3, <2>4 DEF ExitProceeds
<1>3. ASSUME NEW t \in Task, PlacingStop(t) \/ Restoring(t) \/ Repricing(t) \/ OnStopFilled(t)
      PROVE  Whole
  <2>1. CASE AdoptionFindsNothing(t) \/ AdoptionFilled(t) \/ OrderStop(t) \/ BrokerCallRaises(t)
             \/ RepriceBegins(t) \/ RepriceCancels(t)
    BY <2>1 DEF AdoptionFindsNothing, AdoptionFilled, OrderStop, BrokerCallRaises, RepriceBegins, RepriceCancels, durable
  <2>2. pc[t] \in Holding => lock = t
    BY KnownToPass DEF Located
  <2>3. CASE AdoptionRejected(t) \/ StopOrdered(t)
    BY <1>f, <2>2, <2>3 DEF AdoptionRejected, StopOrdered, At, Holding
  <2>4. CASE RestoreCoverage(t) \/ RepriceReplaces(t)
    BY <1>f, <2>2, <2>4 DEF RestoreCoverage, RepriceReplaces, At, Holding
  <2>5. CASE OnStopFilled(t)
    BY <1>f, <2>5 DEF OnStopFilled
  <2> QED BY <1>3, <2>1, <2>3, <2>4, <2>5 DEF PlacingStop, Restoring, Repricing
<1>4. ASSUME NEW r \in Rec, Resolving(r) \/ RetryUnprotected(r) \/ ReconcilingPosition(r)
      PROVE  Whole
  <2>0. r \in Task
    BY KnownToPass
  <2>1. CASE PollExit(r) \/ NothingToResolve(r) \/ RetryUnprotected(r)
    BY <2>1 DEF PollExit, NothingToResolve, RetryUnprotected, durable
  <2>2. CASE ResolvePartial(r) \/ ResolveFinal(r)
    BY <1>f, <2>0, <2>2 DEF ResolvePartial, ResolveFinal, AfterSettlement, durable
  <2>3. CASE ReconcilingPosition(r)
    BY <2>3 DEF ReconcilingPosition, ReadPosition, ReadResolves, ReadAgrees, ReadAdopts, AdoptVenueOwnership,
       ReadFindsDeficit, PollStop, ResizeStopToOwned, durable
  <2> QED BY <1>4, <2>1, <2>2, <2>3 DEF Resolving
<1>5. CASE Venue \/ UNCHANGED vars
  BY <1>5 DEF Venue, StopTriggers, ExitEnds, ExitProgresses, vars, durable
<1>6. ~PriceTick /\ ~CrashAndRestart
  BY KnownToPass DEF OnePass, PriceTick, CrashAndRestart, Env
<1> QED BY <1>1, <1>2, <1>3, <1>4, <1>5, <1>6 DEF Next

(* A function of one key.                                                    *)
LEMMA OneKey ==
  ASSUME NEW x, NEW y
  PROVE  /\ [[k \in {"position"} |-> x] EXCEPT !["position"] = y] = [k \in {"position"} |-> y]
         /\ [k \in {"position"} |-> x]["position"] = x
OBVIOUS

(* One lot is within the arbiter's bound.                                    *)
LEMMA LotsFit == ASSUME AInv, OnePass, Active PROVE MaxLot <= MaxLot * MaxEntries
<1>1. env.may.entries \in Nat /\ env.may.entries > 0 /\ env.may.entries <= MaxEntries
  BY KnownToPass, Bounds DEF Sound
<1>2. MaxEntries \in Nat /\ MaxEntries >= 1 /\ MaxLot \in Nat
  BY <1>1, Bounds, KnownToPass
<1> QED BY <1>2

(* Each of these dealings is a step of the arbiter's specification.          *)
LEMMA DealsOperate ==
  ASSUME AInv, OnePass, Deals
  PROVE  Arbiter!Operate("position")
<1>0. /\ ledger.reserved = InFlight /\ ledger.reserved <= ledger.owned /\ ledger \in Arbiter!Ledger
      /\ ledger.reserved \in Nat /\ ledger.owned \in Nat /\ (ledger.owned > 0 => Active)
      /\ MaxLot \in Nat /\ MaxEntries \in Nat
  BY KnownToPass, Bounds DEF Accounted, Orderly, Rested, Active
<1>1. CASE ledger' = ledger /\ InFlight' = InFlight
  BY <1>1 DEF Arbiter!Operate, InFlight
<1>2. ASSUME NEW q \in 1..MaxLot, Arbiter!MayReserve(ledger, q), ledger' = Arbiter!ReserveIn(ledger, q),
             InFlight' = InFlight + q
      PROVE  Arbiter!Operate("position")
  <2>1. q \in 1..(MaxLot * MaxEntries)
    <3>1. ledger.owned > 0
      BY <1>0, <1>2 DEF Arbiter!MayReserve
    <3> QED BY <1>0, <3>1, LotsFit
  <2>2. Arbiter!Reserve("position", q)
    BY <1>0, <1>2, OneKey DEF Arbiter!Reserve, InFlight
  <2> QED BY <2>1, <2>2 DEF Arbiter!Operate
<1>3. ASSUME NEW r \in 0..MaxLot, NEW f \in 0..MaxLot, f <= r, r <= InFlight,
             ledger' = Arbiter!SettleIn(ledger, r, f), InFlight' = InFlight - r
      PROVE  Arbiter!Operate("position")
  <2>1. r \in 0..(MaxLot * MaxEntries) /\ f \in 0..(MaxLot * MaxEntries)
    <3>0. 0 \in 0..(MaxLot * MaxEntries)
      BY <1>0
    <3>1. CASE r = 0
      BY <1>0, <1>3, <3>0, <3>1
    <3>2. CASE r > 0
      <4>1. Active
        BY <1>0, <1>3, <3>2
      <4> QED BY <1>0, <1>3, <4>1, LotsFit
    <3> QED BY <1>0, <1>3, <3>1, <3>2
  <2>2. Arbiter!Settle("position", r, f)
    BY <1>0, <1>3, OneKey DEF Arbiter!Settle, InFlight
  <2> QED BY <2>1, <2>2 DEF Arbiter!Operate
<1>4. ASSUME NEW q \in 0..MaxLot, Active, ledger.reserved <= q, ledger' = Arbiter!SetOwnedIn(ledger, q),
             InFlight' = InFlight
      PROVE  Arbiter!Operate("position")
  <2>1. q \in 0..(MaxLot * MaxEntries)
    BY <1>0, <1>4, LotsFit
  <2>2. Arbiter!SetOwned("position", q)
    BY <1>0, <1>4, OneKey DEF Arbiter!SetOwned, InFlight
  <2> QED BY <2>1, <2>2 DEF Arbiter!Operate
<1> QED BY <1>1, <1>2, <1>3, <1>4 DEF Deals

(* Every step is a step of the arbiter's specification, or none.             *)
LEMMA StepArbitrates ==
  ASSUME AInv, OnePass, [Next]_vars
  PROVE  Arbiter!Next
<1>1. Arbiter!Operate("position")
  BY StepAccounts, DealsOperate
<1>2. Arbiter!Save("position")
  <2>1. CASE UNCHANGED row
    BY <2>1 DEF Arbiter!Save
  <2>2. CASE Persist /\ lock' = NoTask
    <3>1. InTransit' = 0
      BY <2>2 DEF InTransit
    <3>2. CASE row' = NoRow
      BY <3>2, OneKey DEF Arbiter!Save, NoRow, NoLife, NoPending, RestOf, Arbiter!Nothing
    <3>3. CASE row' = [life |-> life', ledger |-> ledger']
      <4>1. RestOf(life'.pending) + InTransit' = RestOf(row'.life.pending) /\ row'.ledger = ledger'
        <5>1. RestOf(life'.pending) \in Int
          BY StepAccounts, LifeParts DEF OInv, IInv, TypedBooks, RestOf, Pending, PendingRecord
        <5> QED BY <3>1, <3>3, <5>1 DEF RestOf
      <4> QED BY <4>1, OneKey DEF Arbiter!Save
    <3> QED BY <2>2, <3>2, <3>3 DEF Persist, RowOf
  <2> QED BY <2>1, <2>2, RowIsWhole
<1> QED BY <1>1, <1>2 DEF Arbiter!Next

(* Under one pass at a time, and whatever fails, the manager uses the        *)
(* arbiter as its specification promises its callers do: it settles what it  *)
(* reserved and no more, adopts no quantity below what it has reserved, and  *)
(* saves a snapshot only together with the pending exit it belongs to. So    *)
(* what CloseArbiterProofs proves of the arbiter holds of the position.      *)
THEOREM KeepsTheArbiter == Spec => ArbiterSpec
<1>1. Init => Arbiter!Init
  <2> SUFFICES ASSUME Init PROVE Arbiter!Init
    OBVIOUS
  <2>1. InTransit = 0 /\ RestOf(life.pending) = 0 /\ RestOf(row.life.pending) = 0
    BY DEF Init, InTransit, RestOf, NoRow, NoLife, NoPending
  <2> QED BY <2>1 DEF Init, Arbiter!Init, Arbiter!Nothing, NoRow
<1>2. AInv /\ [Next]_vars => [OnePass => Arbiter!Next]_(Arbiter!vars)
  BY StepArbitrates
<1> QED BY <1>1, <1>2, PassInductive, PTL DEF Spec, ArbiterSpec
=============================================================================
