-------------------------- MODULE EntryDispatchProofs --------------------------
(***************************************************************************)
(* Proofs about the entry path, for every set of signals, accounts, tasks, *)
(* passes and settings.                                                    *)
(***************************************************************************)
EXTENDS EntryDispatch, FiniteSetTheorems, TLAPS

AtAccount == {"reserve", "bind", "resources", "open", "dispatch", "call",
              "answer", "mark", "settle", "book", "save"}

Answered == {"answer", "mark", "settle", "book", "save"}

\* A delivery that is not at rest has a signal, then an account, and then an
\* answer of the broker.
Placed ==
  \A t \in Task :
    /\ task[t].pc # "idle" => task[t].sig \in Signal
    /\ task[t].pc \in AtAccount => task[t].at \in Account
    /\ task[t].pc \in Answered => task[t].answer # "none"

Typed == TypeOK /\ Placed

-----------------------------------------------------------------------------
(* What the operators return *)

LEMMA OppOfTask ==
  ASSUME TypeOK, Placed, NEW t \in Task, task[t].pc \in AtAccount
  PROVE  Op(t) \in Opp
BY DEF TypeOK, Placed, Op, Opp, AtAccount, TaskPc

LEMMA FreedType ==
  ASSUME owed \in [Opp -> Nat], NEW o \in Opp
  PROVE  Freed(o) \subseteq [Opp -> Nat]
<1>1. ASSUME NEW p \in Opp, owed[p] > 0
      PROVE  [owed EXCEPT ![p] = @ - 1] \in [Opp -> Nat]
  <2>1. owed[p] \in Nat /\ owed[p] - 1 \in Nat
    BY <1>1
  <2> QED
    BY <2>1
<1>2. OnAccount(o[2]) \subseteq Opp
  BY DEF OnAccount, Opp
<1> QED
  BY <1>1, <1>2 DEF Freed

LEMMA ReleaseType ==
  ASSUME owed \in [Opp -> Nat], NEW o \in Opp, Release(o)
  PROVE  owed' \in [Opp -> Nat]
BY FreedType DEF Release

LEMMA RowType ==
  ASSUME rows \in [Opp -> SUBSET RowState], NEW o \in Opp,
         NEW status \in RowState, Row(o, status)
  PROVE  rows' \in [Opp -> SUBSET RowState]
BY DEF Row

LEMMA AbandonedType ==
  ASSUME venue \in [Opp -> [sent : Nat, state : VenueState]], NEW S
  PROVE  Abandoned(S) \in [Opp -> [sent : Nat, state : VenueState]]
BY DEF Abandoned, VenueState

LEMMA SpendType ==
  ASSUME env \in [may : Setting, did : Count],
         NEW what \in {"deliveries", "crashes", "faults"}, Spend(what)
  PROVE  env' \in [may : Setting, did : Count] /\ env'.may = env.may
BY DEF Spend, Count

LEMMA CrashSweeps ==
  ASSUME intent \in [Signal -> IntentType], Crash
  PROVE  /\ intent' \in [Signal -> IntentType]
         /\ \A s \in Signal : /\ intent'[s].account = intent[s].account
                            /\ intent'[s].state = "none" => intent[s].state = "none"
<1>1. PICK S \in SUBSET {s \in Signal : intent[s].state = "claimed"} :
        intent' = [s \in Signal |->
                     IF s \in S THEN [intent[s] EXCEPT !.state = "skipped"] ELSE intent[s]]
  BY DEF Crash
<1>2. ASSUME NEW s \in Signal
      PROVE  /\ intent'[s] \in IntentType /\ intent'[s].account = intent[s].account
             /\ intent'[s].state = "none" => intent[s].state = "none"
  BY <1>1 DEF IntentType, IntentState
<1> QED
  BY <1>1, <1>2

LEMMA TaskStep ==
  ASSUME Typed, NEW t \in Task, NEW d \in DeliveryType,
         d.pc # "idle" => d.sig \in Signal, d.pc \in AtAccount => d.at \in Account,
         d.pc \in Answered => d.answer # "none",
         task' = [task EXCEPT ![t] = d]
  PROVE  task' \in [Task -> DeliveryType] /\ Placed'
BY DEF Typed, TypeOK, Placed

LEMMA GotoStep ==
  ASSUME Typed, NEW t \in Task, NEW label \in TaskPc, NEW on \in Task \cup {Nobody},
         Goto(t, label, on), task[t].pc # "idle",
         label \in AtAccount => task[t].at \in Account,
         label \in Answered => task[t].answer # "none"
  PROVE  task' \in [Task -> DeliveryType] /\ Placed' /\ running' \in Task \cup {Nobody}
<1> DEFINE d == [task[t] EXCEPT !.pc = label]
<1>1. task[t] \in DeliveryType /\ task[t].sig \in Signal
  BY DEF Typed, TypeOK, Placed
<1>2. d \in DeliveryType /\ d.pc = label /\ d.sig = task[t].sig /\ d.at = task[t].at
      /\ d.answer = task[t].answer
  BY <1>1 DEF DeliveryType
<1>3. task' = [task EXCEPT ![t] = d] /\ running' = on
  BY DEF Goto, Typed, TypeOK
<1> HIDE DEF d
<1> QED
  BY <1>1, <1>2, <1>3, TaskStep

LEMMA PassStep ==
  ASSUME Typed, NEW r \in Pass, NEW d \in PassType, pass' = [pass EXCEPT ![r] = d]
  PROVE  pass' \in [Pass -> PassType]
BY DEF Typed, TypeOK

-----------------------------------------------------------------------------
(* Types *)

LEMMA TypesInit == Init => Typed
BY AccountAssumption, NobodyAssumption
   DEF Init, Typed, TypeOK, Placed, Answered, DeliveryType, PassType, IntentType, Resting, Waiting, Count, Opp, AtAccount, TaskPc,
       IntentState, LedgerState, ReservationState, VenueState, AnswerState

LEMMA TypesStep ==
  ASSUME Typed, [Next]_vars
  PROVE  Typed'
<1> USE DEF Typed, TypeOK, Placed, AtAccount, Answered, durable
<1>0. \A t \in Task : task[t] \in DeliveryType
  OBVIOUS
<1>1. ASSUME NEW t \in Task, Reserve(t) PROVE Typed'
  <2>1. Op(t) \in Opp /\ task[t].at \in Account /\ task[t].pc # "idle"
    BY <1>1, OppOfTask DEF Reserve, At, Woken
  <2>2. task' \in [Task -> DeliveryType] /\ Placed' /\ running' \in Task \cup {Nobody}
    BY <1>1, <2>1, GotoStep DEF Reserve, TaskPc
  <2> QED
    BY <1>1, <2>1, <2>2 DEF Reserve
<1>2. ASSUME NEW t \in Task, OverCeiling(t) PROVE Typed'
  <2>1. Op(t) \in Opp /\ task[t].at \in Account /\ task[t].pc # "idle"
    BY <1>2, OppOfTask DEF OverCeiling, At, Woken
  <2>2. task' \in [Task -> DeliveryType] /\ Placed' /\ running' \in Task \cup {Nobody}
    BY <1>2, <2>1, GotoStep DEF OverCeiling, TaskPc
  <2> QED
    BY <1>2, <2>1, <2>2, RowType DEF OverCeiling, RowState
<1>3. ASSUME NEW t \in Task, Resources(t) PROVE Typed'
  <2>1. Op(t) \in Opp /\ task[t].at \in Account /\ task[t].pc # "idle"
    BY <1>3, OppOfTask DEF Resources, At, Woken
  <2>2. task' \in [Task -> DeliveryType] /\ Placed' /\ running' \in Task \cup {Nobody}
    BY <1>3, <2>1, GotoStep DEF Resources, TaskPc
  <2> QED
    BY <1>3, <2>1, <2>2 DEF Resources, ReservationState
<1>4. ASSUME NEW t \in Task, Blocked(t) PROVE Typed'
  <2>1. Op(t) \in Opp /\ task[t].at \in Account /\ task[t].pc # "idle"
    BY <1>4, OppOfTask DEF Blocked, At, Woken
  <2>2. task' \in [Task -> DeliveryType] /\ Placed' /\ running' \in Task \cup {Nobody}
    BY <1>4, <2>1, GotoStep DEF Blocked, TaskPc
  <2> QED
    BY <1>4, <2>1, <2>2, ReleaseType, RowType DEF Blocked, RowState
<1>5. ASSUME NEW t \in Task, Open(t) PROVE Typed'
  <2>1. Op(t) \in Opp /\ task[t].at \in Account /\ task[t].pc # "idle"
    BY <1>5, OppOfTask DEF Open, At, Woken
  <2>2. task' \in [Task -> DeliveryType] /\ Placed' /\ running' \in Task \cup {Nobody}
    BY <1>5, <2>1, GotoStep DEF Open, TaskPc
  <2> QED
    BY <1>5, <2>1, <2>2 DEF Open, LedgerState
<1>6. ASSUME NEW t \in Task, Duplicate(t) PROVE Typed'
  <2>1. Op(t) \in Opp /\ task[t].at \in Account /\ task[t].pc # "idle"
    BY <1>6, OppOfTask DEF Duplicate, At, Woken
  <2>2. task' \in [Task -> DeliveryType] /\ Placed' /\ running' \in Task \cup {Nobody}
    BY <1>6, <2>1, GotoStep DEF Duplicate, TaskPc
  <2> QED
    BY <1>6, <2>1, <2>2, ReleaseType DEF Duplicate, LedgerState
<1>7. ASSUME NEW t \in Task, Dispatch(t) PROVE Typed'
  <2>1. Op(t) \in Opp /\ task[t].at \in Account /\ task[t].pc # "idle"
    BY <1>7, OppOfTask DEF Dispatch, At, Woken
  <2>2. task' \in [Task -> DeliveryType] /\ Placed' /\ running' \in Task \cup {Nobody}
    BY <1>7, <2>1, GotoStep DEF Dispatch, TaskPc
  <2> QED
    BY <1>7, <2>1, <2>2 DEF Dispatch, ReservationState, VenueState
<1>8. ASSUME NEW t \in Task, DispatchFails(t) PROVE Typed'
  <2>1. Op(t) \in Opp /\ task[t].at \in Account /\ task[t].pc # "idle"
    BY <1>8, OppOfTask DEF DispatchFails, At, Woken
  <2>2. task' \in [Task -> DeliveryType] /\ Placed' /\ running' \in Task \cup {Nobody}
    BY <1>8, <2>1, GotoStep DEF DispatchFails, TaskPc
  <2>3. resv' \in [Opp -> ReservationState]
    BY <1>8, <2>1 DEF DispatchFails, ReservationState
  <2>4. env' \in [may : Setting, did : Count]
    BY <1>8, SpendType DEF DispatchFails, Fails
  <2>5. rows' \in [Opp -> SUBSET RowState] /\ owed' \in [Opp -> Nat]
    BY <1>8, <2>1, ReleaseType, RowType DEF DispatchFails, RowState
  <2> QED
    BY <1>8, <2>2, <2>3, <2>4, <2>5 DEF DispatchFails
<1>9. ASSUME NEW t \in Task, Answer(t) PROVE Typed'
  <2>1. Op(t) \in Opp /\ task[t].at \in Account /\ task[t].pc # "idle"
        /\ task[t].answer # "none"
    BY <1>9, OppOfTask DEF Answer, At, Woken
  <2>2. task' \in [Task -> DeliveryType] /\ Placed' /\ running' \in Task \cup {Nobody}
    BY <1>9, <2>1, GotoStep DEF Answer, TaskPc
  <2> QED
    BY <1>9, <2>1, <2>2 DEF Answer, Committed, ReservationState
<1>38. ASSUME NEW t \in Task, Mark(t) PROVE Typed'
  <2>1. Op(t) \in Opp /\ task[t].at \in Account /\ task[t].pc # "idle"
        /\ task[t].answer # "none"
    BY <1>38, OppOfTask DEF Mark, At, Woken
  <2>2. task' \in [Task -> DeliveryType] /\ Placed' /\ running' \in Task \cup {Nobody}
    BY <1>38, <2>1, GotoStep DEF Mark, TaskPc
  <2> QED
    BY <1>38, <2>1, <2>2 DEF Mark, Outcome, LedgerState
<1>10. ASSUME NEW t \in Task, Settle(t) PROVE Typed'
  <2>1. Op(t) \in Opp /\ task[t].at \in Account /\ task[t].pc # "idle"
        /\ task[t].answer # "none"
    BY <1>10, OppOfTask DEF Settle, At, Woken
  <2>2. task' \in [Task -> DeliveryType] /\ Placed' /\ running' \in Task \cup {Nobody}
    BY <1>10, <2>1, GotoStep DEF Settle, TaskPc
  <2> QED
    BY <1>10, <2>1, <2>2, ReleaseType DEF Settle
<1>11. ASSUME NEW t \in Task, Book(t) PROVE Typed'
  <2>1. Op(t) \in Opp /\ task[t].at \in Account /\ task[t].pc # "idle"
        /\ task[t].answer # "none"
    BY <1>11, OppOfTask DEF Book, At, Woken
  <2>2. task' \in [Task -> DeliveryType] /\ Placed' /\ running' \in Task \cup {Nobody}
    BY <1>11, <2>1, GotoStep DEF Book, TaskPc
  <2> QED
    BY <1>11, <2>1, <2>2 DEF Book
<1>12. ASSUME NEW t \in Task, NEW s \in Signal, Deliver(t, s) PROVE Typed'
  <2>1. ASSUME NEW label \in TaskPc \ AtAccount
        PROVE  [Resting EXCEPT !.sig = s, !.left = Account, !.pc = label] \in DeliveryType
    BY DEF Resting, DeliveryType, TaskPc, AnswerState
  <2>2. CASE UNCHANGED <<task, running>>
    BY <1>12, <2>2, SpendType DEF Deliver
  <2>3. CASE ~UNCHANGED <<task, running>>
    <3>1. PICK label \in TaskPc \ AtAccount :
            task' = [task EXCEPT ![t] = [Resting EXCEPT !.sig = s, !.left = Account, !.pc = label]]
      BY <1>12, <2>3 DEF Deliver, TaskPc
    <3> DEFINE d == [Resting EXCEPT !.sig = s, !.left = Account, !.pc = label]
    <3>2. d \in DeliveryType /\ d.sig = s /\ d.pc \notin AtAccount /\ d.pc \notin Answered
      BY <2>1 DEF Resting
    <3>3. task' = [task EXCEPT ![t] = d]
      BY <3>1
    <3> HIDE DEF d
    <3>4. task' \in [Task -> DeliveryType] /\ Placed'
      BY <3>2, <3>3, TaskStep
    <3>5. running' \in Task \cup {Nobody}
      BY <1>12 DEF Deliver
    <3> QED
      BY <1>12, <3>4, <3>5, SpendType DEF Deliver
  <2> QED
    BY <2>2, <2>3
<1>13. ASSUME NEW t \in Task, Gate(t) PROVE Typed'
  <2>1. PICK a \in Account, fit \in BOOLEAN :
          task' = [task EXCEPT ![t].left = @ \ {a},
                               ![t].fit = IF fit THEN @ \cup {a} ELSE @]
    BY <1>13 DEF Gate
  <2> DEFINE d == [task[t] EXCEPT !.left = @ \ {a}, !.fit = IF fit THEN @ \cup {a} ELSE @]
  <2>2. d \in DeliveryType /\ d.pc = task[t].pc /\ d.sig = task[t].sig
    BY <1>0 DEF DeliveryType
  <2>3. task' = [task EXCEPT ![t] = d]
    BY <2>1
  <2> HIDE DEF d
  <2>4. task' \in [Task -> DeliveryType] /\ Placed'
    BY <1>13, <2>2, <2>3, TaskStep DEF Gate, Woken
  <2> QED
    BY <1>13, <2>4 DEF Gate
<1>14. ASSUME NEW t \in Task, Admit(t) PROVE Typed'
  <2> DEFINE d == [task[t] EXCEPT !.pc = "claim", !.left = task[t].fit, !.fit = {}]
  <2>1. d \in DeliveryType /\ d.pc = "claim" /\ d.sig \in Signal
    BY <1>14 DEF Admit, Woken, DeliveryType, TaskPc
  <2>2. task' = [task EXCEPT ![t] = d]
    BY <1>14 DEF Admit
  <2> HIDE DEF d
  <2>3. task' \in [Task -> DeliveryType] /\ Placed'
    BY <2>1, <2>2, TaskStep
  <2> QED
    BY <1>14, <2>3 DEF Admit
<1>15. ASSUME NEW t \in Task, task' = [task EXCEPT ![t] = Resting]
       PROVE  task' \in [Task -> DeliveryType] /\ Placed'
  <2>1. Resting \in DeliveryType /\ Resting.pc = "idle"
    BY DEF Resting, DeliveryType, TaskPc, AnswerState
  <2> QED
    BY <1>15, <2>1, TaskStep
<1>16. ASSUME NEW t \in Task, Exclude(t) PROVE Typed'
  BY <1>16, <1>15 DEF Exclude, RowState
<1>17. ASSUME NEW t \in Task, Mismatch(t) PROVE Typed'
  BY <1>17, <1>15 DEF Mismatch
<1>18. ASSUME NEW t \in Task, Conclude(t) PROVE Typed'
  <2>1. ASSUME NEW i \in IntentType, NEW a PROVE Decided(i, a) \in IntentType
    BY DEF Decided, IntentType, IntentState
  <2>2. task[t].sig \in Signal
    BY <1>18 DEF Conclude, At
  <2> QED
    BY <1>18, <1>15, <2>1, <2>2 DEF Conclude
<1>19. ASSUME NEW t \in Task, Claim(t) PROVE Typed'
  <2> DEFINE s == task[t].sig
             row == IF intent[s].state = "none"
                    THEN [state |-> "claimed", account |-> NoAccount] ELSE intent[s]
             left == IF row.account = NoAccount THEN task[t].left
                     ELSE task[t].left \cap {row.account}
             d == IF left = {} THEN Resting
                  ELSE [task[t] EXCEPT !.pc = "pick", !.left = left, !.mine = row.account]
  <2>1. s \in Signal
    BY <1>19 DEF Claim, At
  <2>2. row \in IntentType
    BY <2>1 DEF IntentType, IntentState
  <2>3. row.account \in Account \cup {NoAccount} /\ left \in SUBSET Account
    BY <2>2 DEF IntentType, DeliveryType
  <2>4. intent' = [intent EXCEPT ![s] = row] /\ task' = [task EXCEPT ![t] = d]
        /\ running' = (IF left = {} THEN Nobody ELSE t)
    BY <1>19 DEF Claim
  <2> HIDE DEF row, left
  <2>5. d \in DeliveryType /\ d.pc \in {"idle", "pick"} /\ (d.pc = "pick" => d.sig \in Signal)
    BY <1>0, <2>1, <2>3 DEF Resting, DeliveryType, TaskPc, AnswerState
  <2> HIDE DEF d
  <2>6. task' \in [Task -> DeliveryType] /\ Placed'
    BY <2>4, <2>5, TaskStep
  <2>7. intent' \in [Signal -> IntentType] /\ running' \in Task \cup {Nobody}
    BY <2>1, <2>2, <2>4
  <2> QED
    BY <1>19, <2>6, <2>7 DEF Claim
<1>20. ASSUME NEW t \in Task, Pick(t) PROVE Typed'
  <2>1. PICK a \in Account :
          task' = [task EXCEPT ![t].pc = "reserve", ![t].at = a, ![t].left = @ \ {a}]
    BY <1>20 DEF Pick
  <2> DEFINE d == [task[t] EXCEPT !.pc = "reserve", !.at = a, !.left = @ \ {a}]
  <2>2. d \in DeliveryType /\ d.pc = "reserve" /\ d.sig = task[t].sig /\ d.at = a
    BY <1>0 DEF DeliveryType, TaskPc
  <2>3. task' = [task EXCEPT ![t] = d]
    BY <2>1
  <2> HIDE DEF d
  <2>4. task' \in [Task -> DeliveryType] /\ Placed'
    BY <1>20, <2>2, <2>3, TaskStep DEF Pick, At
  <2> QED
    BY <1>20, <2>4 DEF Pick
<1>21. ASSUME NEW t \in Task, Screen(t) PROVE Typed'
  <2>1. PICK a \in Account :
          /\ Row(<<task[t].sig, a>>, "REJECTED") \/ UNCHANGED rows
          /\ task' = [task EXCEPT ![t].left = @ \ {a}]
    BY <1>21 DEF Screen
  <2> DEFINE d == [task[t] EXCEPT !.left = @ \ {a}]
  <2>2. d \in DeliveryType /\ d.pc = "pick" /\ d.sig = task[t].sig
    BY <1>0, <1>21 DEF Screen, At, DeliveryType
  <2>3. task' = [task EXCEPT ![t] = d]
    BY <2>1
  <2>4. <<task[t].sig, a>> \in Opp
    BY <1>21 DEF Screen, At, Opp
  <2> HIDE DEF d
  <2>5. task' \in [Task -> DeliveryType] /\ Placed'
    BY <2>2, <2>3, <2>4, TaskStep DEF Opp
  <2> QED
    BY <1>21, <2>1, <2>4, <2>5, RowType DEF Screen, RowState
<1>22. ASSUME NEW t \in Task, Bind(t) PROVE Typed'
  <2> DEFINE d == [task[t] EXCEPT !.pc = "resources", !.mine = task[t].at]
  <2>1. Op(t) \in Opp /\ task[t].sig \in Signal /\ task[t].at \in Account
    BY <1>22, OppOfTask DEF Bind, At
  <2>2. CASE Bindable(task[t].sig, task[t].at)
    <3>1. d \in DeliveryType /\ d.pc = "resources" /\ d.sig \in Signal /\ d.at \in Account
      BY <1>0, <2>1 DEF DeliveryType, TaskPc
    <3>2. task' = [task EXCEPT ![t] = d]
      BY <1>22, <2>2 DEF Bind
    <3> HIDE DEF d
    <3>3. task' \in [Task -> DeliveryType] /\ Placed'
      BY <3>1, <3>2, TaskStep
    <3>4. intent' \in [Signal -> IntentType]
      BY <1>22, <2>1, <2>2 DEF Bind, IntentType, IntentState
    <3> QED
      BY <1>22, <2>2, <3>3, <3>4 DEF Bind
  <2>3. CASE ~Bindable(task[t].sig, task[t].at)
    <3>1. task' \in [Task -> DeliveryType] /\ Placed' /\ running' \in Task \cup {Nobody}
      BY <1>22, <2>3, GotoStep DEF Bind, At, TaskPc
    <3> QED
      BY <1>22, <2>1, <2>3, <3>1, ReleaseType DEF Bind
  <2> QED
    BY <2>2, <2>3
<1>23. ASSUME NEW t \in Task, NEW answer \in AnswerState \ {"none"}, task[t].pc = "call",
              task' = [task EXCEPT ![t] = [@ EXCEPT !.pc = "answer", !.answer = answer]]
       PROVE  task' \in [Task -> DeliveryType] /\ Placed'
  <2> DEFINE d == [task[t] EXCEPT !.pc = "answer", !.answer = answer]
  <2>1. d \in DeliveryType /\ d.sig \in Signal /\ d.at \in Account /\ d.answer # "none"
    BY <1>0, <1>23 DEF DeliveryType, TaskPc
  <2>2. task' = [task EXCEPT ![t] = d]
    BY <1>23
  <2> HIDE DEF d
  <2> QED
    BY <2>1, <2>2, TaskStep
<1>24. ASSUME NEW t \in Task, Hear(t) PROVE Typed'
  BY <1>24, <1>23 DEF Hear, AnswerState
<1>25. ASSUME NEW t \in Task, CallLost(t) PROVE Typed'
  BY <1>25, <1>23, AbandonedType, SpendType DEF CallLost, Fails, AnswerState
<1>26. ASSUME NEW t \in Task, Save(t) PROVE Typed'
  <2> DEFINE d == [task[t] EXCEPT !.pc = "pick", !.at = NoAccount, !.answer = "none"]
  <2>1. d \in DeliveryType /\ d.pc = "pick" /\ d.sig = task[t].sig
    BY <1>0 DEF DeliveryType, TaskPc, AnswerState
  <2>2. task' = [task EXCEPT ![t] = d]
    BY <1>26 DEF Save
  <2> HIDE DEF d
  <2>3. task' \in [Task -> DeliveryType] /\ Placed'
    BY <1>26, <2>1, <2>2, TaskStep DEF Save, At
  <2>4. rows' \in [Opp -> SUBSET RowState]
    <3>1. Op(t) \in Opp
      BY <1>26, OppOfTask DEF Save, At
    <3>2. task[t].answer \in AnswerState \ {"none"}
      BY <1>0, <1>26 DEF Save, At, DeliveryType
    <3>3. (IF task[t].answer = "LOST" THEN "ERROR" ELSE task[t].answer) \in RowState
      BY <3>2 DEF AnswerState, RowState
    <3> QED
      BY <1>26, <3>1, <3>3, RowType DEF Save
  <2> QED
    BY <1>26, <2>3, <2>4 DEF Save
<1>27. ASSUME NEW r \in Pass, StartPass(r) PROVE Typed'
  <2> DEFINE d == [Waiting EXCEPT !.doing = "poll", !.todo = {o \in Opp : "PENDING" \in rows[o]}]
  <2>1. d \in PassType
    BY DEF Waiting, PassType
  <2> QED
    BY <1>27, <2>1, PassStep DEF StartPass
<1>28. ASSUME NEW r \in Pass, StartLookups(r) PROVE Typed'
  <2> DEFINE d == [pass[r] EXCEPT !.doing = "lookup", !.todo = Ambiguous]
  <2>1. d \in PassType
    <3>1. pass[r] \in PassType
      OBVIOUS
    <3> QED
      BY <3>1 DEF PassType, Ambiguous
  <2>2. pass' = [pass EXCEPT ![r] = d]
    BY <1>28 DEF StartLookups
  <2> QED
    BY <1>28, <2>1, <2>2, PassStep DEF StartLookups
<1>29. ASSUME NEW r \in Pass, EndPass(r) PROVE Typed'
  <2>1. Waiting \in PassType
    BY DEF Waiting, PassType
  <2> QED
    BY <1>29, <2>1, PassStep DEF EndPass
<1>30. ASSUME NEW r \in Pass, NEW o \in Opp, Poll(r, o) PROVE Typed'
  <2> DEFINE d == [pass[r] EXCEPT !.todo = @ \ {o}]
  <2>1. d \in PassType
    <3>1. pass[r] \in PassType
      OBVIOUS
    <3> QED
      BY <3>1 DEF PassType
  <2>2. pass' = [pass EXCEPT ![r] = d]
    BY <1>30 DEF Poll
  <2>3. Closed(o) \in SUBSET RowState
    BY DEF Closed, RowState
  <2>4. pass' \in [Pass -> PassType]
    BY <2>1, <2>2, PassStep
  <2>5. rows' \in [Opp -> SUBSET RowState]
    BY <1>30, <2>3 DEF Poll
  <2>6. booked' \in [Opp -> Nat]
    BY <1>30 DEF Poll
  <2>7. owed' \in [Opp -> Nat]
    BY <1>30, ReleaseType DEF Poll
  <2> QED
    BY <1>30, <2>4, <2>5, <2>6, <2>7 DEF Poll
<1>31. ASSUME NEW r \in Pass, NEW o \in Opp, Lookup(r, o) PROVE Typed'
  <2>1. PICK found \in BOOLEAN :
          pass' = [pass EXCEPT ![r].todo = @ \ {o}, ![r].asked = {o}, ![r].found = found]
    BY <1>31 DEF Lookup
  <2> DEFINE d == [pass[r] EXCEPT !.todo = @ \ {o}, !.asked = {o}, !.found = found]
  <2>2. d \in PassType
    <3>1. pass[r] \in PassType
      OBVIOUS
    <3> QED
      BY <3>1 DEF PassType
  <2>3. pass' = [pass EXCEPT ![r] = d]
    BY <2>1
  <2>4. pass' \in [Pass -> PassType]
    BY <2>2, <2>3, PassStep
  <2> QED
    BY <1>31, <2>4 DEF Lookup
<1>32. ASSUME NEW r \in Pass, NEW o \in Opp, Resolve(r, o) PROVE Typed'
  <2> DEFINE d == [pass[r] EXCEPT !.asked = {}]
  <2>1. d \in PassType
    <3>1. pass[r] \in PassType
      OBVIOUS
    <3> QED
      BY <3>1 DEF PassType
  <2>2. pass' = [pass EXCEPT ![r] = d]
    BY <1>32 DEF Resolve
  <2>3. pass' \in [Pass -> PassType]
    BY <2>1, <2>2, PassStep
  <2> QED
    BY <1>32, <2>3, ReleaseType DEF Resolve, LedgerState
<1>33. ASSUME NEW o \in Opp, NotPlaced(o) PROVE Typed'
  BY <1>33, ReleaseType DEF NotPlaced, LedgerState
<1>34. ASSUME NEW o \in Opp, VenueTakes(o) PROVE Typed'
  <2>1. PICK to \in {"working", "filled", "gone"} :
          venue' = [venue EXCEPT ![o] = [sent |-> venue[o].sent + 1, state |-> to]]
    BY <1>34 DEF VenueTakes
  <2>2. [sent |-> venue[o].sent + 1, state |-> to] \in [sent : Nat, state : VenueState]
    BY DEF VenueState
  <2> QED
    BY <1>34, <2>1, <2>2 DEF VenueTakes
<1>35. ASSUME NEW o \in Opp, VenueMoves(o) PROVE Typed'
  BY <1>35 DEF VenueMoves, VenueState
<1>36. CASE Crash
  <2>1. Resting \in DeliveryType /\ Resting.pc = "idle" /\ Waiting \in PassType
    BY DEF Resting, Waiting, DeliveryType, PassType, TaskPc, AnswerState
  <2>2. task' \in [Task -> DeliveryType] /\ Placed' /\ pass' \in [Pass -> PassType]
    BY <1>36, <2>1 DEF Crash
  <2> QED
    BY <1>36, <2>2, CrashSweeps, AbandonedType, SpendType DEF Crash
<1>37. CASE UNCHANGED vars
  BY <1>37 DEF vars
<1> QED
  BY <1>1, <1>2, <1>3, <1>4, <1>5, <1>6, <1>7, <1>8, <1>9, <1>10, <1>11, <1>12, <1>13, <1>14, <1>16, <1>17, <1>18, <1>19, <1>20, <1>21, <1>22, <1>24, <1>25, <1>26, <1>27, <1>28, <1>29, <1>30, <1>31, <1>32, <1>33, <1>34, <1>35, <1>36, <1>37, <1>38
     DEF Next, Advance, Examine
\* The types of the intents, the ledger, the reservations, the rows, the venue
\* and the tasks hold whatever is delivered, lost, repeated or restarted.
THEOREM TypeCorrect == Spec => []TypeOK
<1>1. Typed /\ [Next]_vars => Typed'
  BY TypesStep
<1>2. Typed => TypeOK
  BY DEF Typed
<1> QED
  BY <1>1, <1>2, TypesInit, PTL DEF Spec

-----------------------------------------------------------------------------
(* What most of the steps leave alone *)

\* A task handles an opportunity from the ledger row it opened to the order
\* row it saves.
Handling == {"dispatch", "call", "answer", "mark", "settle", "book", "save"}

\* The steps of a task that is not handling one, but for Open and Duplicate.
Before(t) ==
  \/ Gate(t) \/ Admit(t) \/ Exclude(t) \/ Claim(t) \/ Pick(t) \/ Screen(t)
  \/ Conclude(t) \/ Reserve(t) \/ OverCeiling(t) \/ Bind(t) \/ Resources(t)
  \/ Blocked(t) \/ Mismatch(t) \/ \E s \in Signal : Deliver(t, s)

OthersRest(t) == \A u \in Task \ {t} : task'[u] = task[u]

SameFlags == \A o \in Opp : "PENDING" \in rows'[o] <=> "PENDING" \in rows[o]

LEMMA GotoMoves ==
  ASSUME Typed, NEW t \in Task, NEW label, NEW on, Goto(t, label, on)
  PROVE  /\ task'[t].pc = label /\ Op(t)' = Op(t)
         /\ task'[t].answer = task[t].answer
         /\ OthersRest(t)
<1>1. task[t] \in DeliveryType
  BY DEF Typed, TypeOK
<1>2. task' = [task EXCEPT ![t] = [task[t] EXCEPT !.pc = label]]
  BY DEF Goto
<1> QED
  BY <1>1, <1>2 DEF Typed, TypeOK, DeliveryType, Op, OthersRest

LEMMA RowFlags ==
  ASSUME Typed, NEW o \in Opp, NEW status \in RowState \ {"PENDING"}, Row(o, status)
  PROVE  SameFlags
BY DEF Typed, TypeOK, Row, SameFlags

LEMMA DeliverMoves ==
  ASSUME Typed, NEW t \in Task, NEW s \in Signal, Deliver(t, s)
  PROVE  /\ task[t].pc = "idle" /\ OthersRest(t)
         /\ task'[t].pc \in {"idle", "gate", "claim", "pick"}
<1>1. task \in [Task -> DeliveryType]
  BY DEF Typed, TypeOK
<1>2. task[t].pc = "idle" /\ OthersRest(t)
  BY <1>1 DEF Deliver, Woken, OthersRest
<1>3. task'[t].pc \in {"idle", "gate", "claim", "pick"}
  BY <1>1, <1>2 DEF Deliver, Resting
<1> QED
  BY <1>2, <1>3

LEMMA BeforeFrame ==
  ASSUME Typed, NEW t \in Task, Before(t)
  PROVE  /\ UNCHANGED <<ledger, venue, booked, pass>> /\ env'.may = env.may
         /\ task'[t].pc \notin Handling /\ task[t].pc \notin Handling /\ OthersRest(t)
         /\ SameFlags
         /\ \A o \in Opp : resv'[o] = resv[o] \/ (resv[o] = "NONE" /\ resv'[o] = "HELD")
<1> DEFINE Frame ==
      /\ UNCHANGED <<ledger, venue, booked, pass>> /\ env'.may = env.may
      /\ task'[t].pc \notin Handling /\ task[t].pc \notin Handling /\ OthersRest(t)
      /\ SameFlags
      /\ \A o \in Opp : resv'[o] = resv[o] \/ (resv[o] = "NONE" /\ resv'[o] = "HELD")
<1>0. task \in [Task -> DeliveryType] /\ task[t] \in DeliveryType
  BY DEF Typed, TypeOK
<1>1. ASSUME NEW s \in Signal, Deliver(t, s) PROVE Frame
  <2>1. env'.may = env.may
    BY <1>1, SpendType DEF Deliver, Typed, TypeOK
  <2>2. UNCHANGED <<ledger, venue, booked, pass, rows, resv>>
    BY <1>1 DEF Deliver, durable
  <2> QED
    BY <1>1, <2>1, <2>2, DeliverMoves DEF Handling, SameFlags
<1>2. CASE Gate(t) \/ Admit(t) \/ Pick(t)
  <2>1. UNCHANGED <<ledger, venue, booked, pass, rows, resv, env>>
    BY <1>2 DEF Gate, Admit, Pick, durable
  <2>2. task[t].pc \in {"gate", "pick"} /\ OthersRest(t)
    BY <1>0, <1>2 DEF Gate, Admit, Pick, At, Woken, OthersRest
  <2>3. task'[t].pc \in {"gate", "claim", "reserve"}
    <3>1. CASE Gate(t)
      BY <1>0, <3>1 DEF Gate, Woken, DeliveryType
    <3>2. CASE Admit(t) \/ Pick(t)
      BY <1>0, <3>2 DEF Admit, Pick, DeliveryType
    <3> QED
      BY <1>2, <3>1, <3>2
  <2> QED
    BY <2>1, <2>2, <2>3 DEF Handling, SameFlags
<1>3. CASE Exclude(t)
  BY <1>0, <1>3 DEF Exclude, Woken, Resting, Handling, OthersRest, SameFlags, Typed, TypeOK
<1>4. CASE Claim(t)
  BY <1>0, <1>4 DEF Claim, At, Resting, Handling, OthersRest, SameFlags
<1>5. CASE Screen(t)
  <2>1. PICK a \in Account : Row(<<task[t].sig, a>>, "REJECTED") \/ UNCHANGED rows
    BY <1>5 DEF Screen
  <2>2. <<task[t].sig, a>> \in Opp
    BY <1>5 DEF Screen, At, Typed, Placed, Opp
  <2>3. SameFlags
    BY <2>1, <2>2, RowFlags DEF SameFlags, RowState
  <2> QED
    BY <1>0, <1>5, <2>3 DEF Screen, At, Handling, OthersRest
<1>6. CASE Conclude(t) \/ Mismatch(t)
  BY <1>0, <1>6 DEF Conclude, Mismatch, At, Resting, Handling, OthersRest, SameFlags, durable
<1>7. CASE Reserve(t) \/ Resources(t)
  <2>1. Op(t) \in Opp
    BY <1>7, OppOfTask DEF Reserve, Resources, Woken, Typed, AtAccount
  <2>2. \A o \in Opp : resv'[o] = resv[o] \/ (resv[o] = "NONE" /\ resv'[o] = "HELD")
    BY <1>7, <2>1 DEF Reserve, Resources, Claimed, Of, Opp, Typed, TypeOK
  <2> QED
    BY <1>7, <2>2, GotoMoves DEF Reserve, Resources, Woken, Handling, SameFlags
<1>8. CASE OverCeiling(t) \/ Blocked(t)
  <2>1. Op(t) \in Opp
    BY <1>8, OppOfTask DEF OverCeiling, Blocked, Woken, Typed, AtAccount
  <2>2. SameFlags
    BY <1>8, <2>1, RowFlags DEF OverCeiling, Blocked, RowState
  <2> QED
    BY <1>8, <2>2, GotoMoves DEF OverCeiling, Blocked, Woken, Handling
<1>9. CASE Bind(t)
  <2>1. UNCHANGED <<ledger, venue, booked, pass, rows, resv, env>> /\ task[t].pc = "bind"
    BY <1>9 DEF Bind, At
  <2>2. task'[t].pc \in {"resources", "pick"} /\ OthersRest(t)
    <3>1. CASE Bindable(task[t].sig, task[t].at)
      BY <1>0, <1>9, <3>1 DEF Bind, OthersRest, DeliveryType
    <3>2. CASE ~Bindable(task[t].sig, task[t].at)
      BY <1>9, <3>2, GotoMoves DEF Bind
    <3> QED
      BY <3>1, <3>2
  <2> QED
    BY <2>1, <2>2 DEF Handling, SameFlags
<1> QED
  BY <1>1, <1>2, <1>3, <1>4, <1>5, <1>6, <1>7, <1>8, <1>9 DEF Before

LEMMA AbandonedVenue ==
  ASSUME Typed, NEW S, NEW o \in Opp
  PROVE  /\ Abandoned(S)[o].sent = venue[o].sent
         /\ \/ Abandoned(S)[o] = venue[o]
            \/ venue[o].state = "sending" /\ Abandoned(S)[o].state = "none"
BY DEF Typed, TypeOK, Abandoned, VenueState

\* The steps of the reconciler and the operator that change no order row.
Asks ==
  \/ \E r \in Pass : StartPass(r) \/ StartLookups(r) \/ EndPass(r)
  \/ \E r \in Pass, o \in Opp : Lookup(r, o) \/ Resolve(r, o)
  \/ \E o \in Opp : NotPlaced(o)

LEMMA AsksFrame ==
  ASSUME Typed, Asks
  PROVE  /\ UNCHANGED <<intent, resv, rows, booked, venue, task, env>>
         /\ \A o \in Opp : ledger'[o] = "NONE" => ledger[o] = "NONE"
<1> DEFINE Frame == /\ UNCHANGED <<intent, resv, rows, booked, venue, task, env>>
                    /\ \A o \in Opp : ledger'[o] = "NONE" => ledger[o] = "NONE"
<1>1. ASSUME NEW r \in Pass, StartPass(r) \/ StartLookups(r) \/ EndPass(r) PROVE Frame
  BY <1>1 DEF StartPass, StartLookups, EndPass, durable
<1>2. ASSUME NEW r \in Pass, NEW o \in Opp, Lookup(r, o) \/ Resolve(r, o) PROVE Frame
  <2>1. UNCHANGED <<intent, resv, rows, booked, venue, task, env>>
    BY <1>2 DEF Lookup, Resolve, durable
  <2>2. \A p \in Opp : ledger'[p] = "NONE" => ledger[p] = "NONE"
    BY <1>2 DEF Lookup, Resolve, durable, Typed, TypeOK
  <2> QED
    BY <2>1, <2>2
<1>3. ASSUME NEW o \in Opp, NotPlaced(o) PROVE Frame
  BY <1>3 DEF NotPlaced, Typed, TypeOK
<1> QED
  BY <1>1, <1>2, <1>3 DEF Asks

LedgerGrows == \A o \in Opp : ledger'[o] = "NONE" => ledger[o] = "NONE"

Handles(t) == Dispatch(t) \/ Hear(t) \/ CallLost(t) \/ Answer(t) \/ Mark(t)
              \/ Settle(t) \/ Book(t)
Leaves(t) == Duplicate(t) \/ DispatchFails(t) \/ Save(t)

LEMMA HandlesFrame ==
  ASSUME Typed, NEW t \in Task, Handles(t)
  PROVE  /\ task[t].pc \in Handling /\ task'[t].pc \in Handling \ {"dispatch"}
         /\ Op(t)' = Op(t) /\ Op(t) \in Opp
         /\ OthersRest(t) /\ LedgerGrows
         /\ env'.may = env.may /\ UNCHANGED <<intent, rows, pass>>
<1>0. task \in [Task -> DeliveryType] /\ task[t] \in DeliveryType
  BY DEF Typed, TypeOK
<1>1. task[t].pc \in Handling
  BY DEF Handles, Dispatch, Hear, CallLost, Answer, Mark, Settle, Book, At, Woken, Handling
<1>2. Op(t) \in Opp
  BY <1>1, OppOfTask DEF Handling, AtAccount, Typed
<1>3. /\ task'[t].pc \in Handling \ {"dispatch"} /\ Op(t)' = Op(t) /\ OthersRest(t)
  <2>1. CASE Hear(t) \/ CallLost(t)
    BY <1>0, <2>1 DEF Hear, CallLost, Handling, Op, OthersRest, DeliveryType
  <2>2. CASE ~(Hear(t) \/ CallLost(t))
    BY <2>2, GotoMoves DEF Handles, Dispatch, Answer, Mark, Settle, Book, Handling
  <2> QED
    BY <2>1, <2>2
<1>4. LedgerGrows
  <2>1. CASE Mark(t)
    BY <1>2, <2>1 DEF Mark, Outcome, LedgerGrows, Typed, TypeOK
  <2>2. CASE ~Mark(t)
    BY <2>2 DEF Handles, Dispatch, Hear, CallLost, Answer, Settle, Book, LedgerGrows, durable
  <2> QED
    BY <2>1, <2>2
<1>5. env'.may = env.may
  BY SpendType DEF Handles, Dispatch, Hear, CallLost, Fails, Answer, Mark, Settle, Book, Typed,
     TypeOK
<1>6. UNCHANGED <<intent, rows, pass>>
  BY DEF Handles, Dispatch, Hear, CallLost, Answer, Mark, Settle, Book, durable
<1> QED
  BY <1>1, <1>2, <1>3, <1>4, <1>5, <1>6

LEMMA LeavesFrame ==
  ASSUME Typed, NEW t \in Task, Leaves(t)
  PROVE  /\ task'[t].pc = "pick" /\ Op(t) \in Opp
         /\ OthersRest(t) /\ LedgerGrows
         /\ env'.may = env.may /\ UNCHANGED <<intent, venue, booked, pass>>
<1>0. task \in [Task -> DeliveryType] /\ task[t] \in DeliveryType
  BY DEF Typed, TypeOK
<1>1. Op(t) \in Opp
  BY OppOfTask DEF Leaves, Duplicate, DispatchFails, Save, At, AtAccount, Typed
<1>2. task'[t].pc = "pick" /\ OthersRest(t)
  <2>1. CASE Save(t)
    BY <1>0, <2>1 DEF Save, OthersRest, DeliveryType
  <2>2. CASE ~Save(t)
    BY <2>2, GotoMoves DEF Leaves, Duplicate, DispatchFails
  <2> QED
    BY <2>1, <2>2
<1>3. LedgerGrows
  BY <1>1 DEF Leaves, Duplicate, DispatchFails, Save, IsNew, LedgerGrows, Typed, TypeOK
<1>4. env'.may = env.may
  BY SpendType DEF Leaves, Duplicate, DispatchFails, Fails, Save, Typed, TypeOK
<1>5. UNCHANGED <<intent, venue, booked, pass>>
  BY DEF Leaves, Duplicate, DispatchFails, Save
<1> QED
  BY <1>1, <1>2, <1>3, <1>4, <1>5

LEMMA OpenFrame ==
  ASSUME Typed, NEW t \in Task, Open(t)
  PROVE  /\ task[t].pc = "open" /\ task'[t].pc = "dispatch" /\ Op(t)' = Op(t)
         /\ task'[t].answer = task[t].answer
         /\ Op(t) \in Opp /\ OthersRest(t) /\ LedgerGrows
         /\ ledger[Op(t)] = "NONE" /\ ledger'[Op(t)] # "NONE"
         /\ UNCHANGED <<intent, resv, rows, booked, venue, pass, env>>
<1>1. Op(t) \in Opp
  BY OppOfTask DEF Open, At, AtAccount, Typed
<1> QED
  BY <1>1, GotoMoves DEF Open, At, IsNew, LedgerGrows, Typed, TypeOK

\* Whatever happens is one of these.
Outside ==
  \/ \E r \in Pass, o \in Opp : Poll(r, o)
  \/ \E o \in Opp : VenueTakes(o) \/ VenueMoves(o)

LEMMA StepCases ==
  ASSUME [Next]_vars
  PROVE  \/ \E t \in Task : Before(t) \/ Open(t) \/ Handles(t) \/ Leaves(t)
         \/ Asks \/ Outside \/ Crash \/ UNCHANGED vars
BY DEF Next, Advance, Examine, Before, Handles, Leaves, Asks, Outside

-----------------------------------------------------------------------------
(* One order for an opportunity *)

\* The opportunity a task handles has a ledger row, and no other task
\* handles it.
Owned ==
  /\ \A t \in Task : task[t].pc \in Handling => ledger[Op(t)] # "NONE"
  /\ \A t, u \in Task :
       task[t].pc \in Handling /\ task[u].pc \in Handling /\ Op(t) = Op(u) => t = u

Untouched(o) == venue[o] = [sent |-> 0, state |-> "none"]

\* Before its ledger row is opened, and until its task dispatches it, nothing
\* of an opportunity has gone to the venue.
Sent ==
  /\ \A o \in Opp : ledger[o] = "NONE" => Untouched(o)
  /\ \A t \in Task : task[t].pc = "dispatch" => Untouched(Op(t))
  /\ \A o \in Opp : venue[o].state = "sending" => venue[o].sent = 0
  /\ \A o \in Opp : venue[o].sent <= 1

LEMMA OwnedStep ==
  ASSUME Typed, Owned, [Next]_vars
  PROVE  Owned'
<1>1. ASSUME NEW t \in Task, Before(t) PROVE Owned'
  BY <1>1, BeforeFrame DEF Owned, OthersRest, Op
<1>2. ASSUME NEW t \in Task, Open(t) PROVE Owned'
  <2>1. \A u \in Task \ {t} : task[u].pc \in Handling => Op(u) # Op(t)
    BY <1>2, OpenFrame DEF Owned
  <2>2. \A u \in Task \ {t} : task'[u] = task[u] /\ Op(u)' = Op(u)
    BY <1>2, OpenFrame DEF OthersRest, Op
  <2>3. \A u \in Task \ {t} : task[u].pc \in Handling => Op(u) \in Opp
    BY OppOfTask DEF Handling, AtAccount, Typed
  <2> QED
    BY <1>2, <2>1, <2>2, <2>3, OpenFrame DEF Owned, LedgerGrows
<1>3. ASSUME NEW t \in Task, Handles(t) \/ Leaves(t) PROVE Owned'
  <2>1. \A u \in Task \ {t} : task'[u] = task[u] /\ Op(u)' = Op(u)
    BY <1>3, HandlesFrame, LeavesFrame DEF OthersRest, Op
  <2>2. \A u \in Task : task[u].pc \in Handling => Op(u) \in Opp
    BY OppOfTask DEF Handling, AtAccount, Typed
  <2>3. task'[t].pc \in Handling => task[t].pc \in Handling /\ Op(t)' = Op(t)
    BY <1>3, HandlesFrame, LeavesFrame DEF Handling
  <2> QED
    BY <1>3, <2>1, <2>2, <2>3, HandlesFrame, LeavesFrame DEF Owned, LedgerGrows
<1>4. CASE Asks
  <2>1. \A u \in Task : task[u].pc \in Handling => Op(u) \in Opp
    BY OppOfTask DEF Handling, AtAccount, Typed
  <2> QED
    BY <1>4, <2>1, AsksFrame DEF Owned, Op
<1>5. CASE Outside \/ UNCHANGED vars
  BY <1>5 DEF Outside, Poll, VenueTakes, VenueMoves, vars, durable, Owned, Op
<1>6. CASE Crash
  BY <1>6 DEF Crash, Resting, Handling, Owned
<1> QED
  BY <1>1, <1>2, <1>3, <1>4, <1>5, <1>6, StepCases

LEMMA SentStep ==
  ASSUME Typed, Owned, Sent, [Next]_vars
  PROVE  Sent'
<1>0. \A u \in Task : task[u].pc \in Handling => Op(u) \in Opp
  BY OppOfTask DEF Handling, AtAccount, Typed
<1>1. ASSUME NEW t \in Task, Before(t) \/ Leaves(t) PROVE Sent'
  <2>1. UNCHANGED venue /\ LedgerGrows
    BY <1>1, BeforeFrame, LeavesFrame DEF LedgerGrows
  <2>2. \A u \in Task : task'[u].pc = "dispatch" => task'[u] = task[u] /\ Op(u)' = Op(u)
    BY <1>1, BeforeFrame, LeavesFrame DEF OthersRest, Handling, Op
  <2> QED
    BY <1>0, <2>1, <2>2 DEF Sent, Untouched, LedgerGrows, Handling
<1>2. ASSUME NEW t \in Task, Open(t) PROVE Sent'
  <2>1. UNCHANGED venue /\ LedgerGrows
    BY <1>2, OpenFrame
  <2>2. Op(t) \in Opp /\ Op(t)' = Op(t) /\ Untouched(Op(t))
    BY <1>2, OpenFrame DEF Sent
  <2>3. \A u \in Task \ {t} : task'[u] = task[u] /\ Op(u)' = Op(u)
    BY <1>2, OpenFrame DEF OthersRest, Op
  <2> QED
    BY <1>0, <2>1, <2>2, <2>3 DEF Sent, Untouched, LedgerGrows, Handling
<1>3. ASSUME NEW t \in Task, Dispatch(t) PROVE Sent'
  <2>1. task[t].pc = "dispatch" /\ Op(t) \in Opp
    BY <1>3, <1>0 DEF Dispatch, At, Handling
  <2>2. venue' = [venue EXCEPT ![Op(t)].state = "sending"] /\ Untouched(Op(t))
    BY <1>3, <2>1 DEF Dispatch, Sent
  <2>3. venue'[Op(t)] = [sent |-> 0, state |-> "sending"]
        /\ \A o \in Opp \ {Op(t)} : venue'[o] = venue[o]
    BY <2>1, <2>2 DEF Untouched, Typed, TypeOK
  <2>4. ledger[Op(t)] # "NONE" /\ UNCHANGED ledger
    BY <1>3, <2>1 DEF Dispatch, Owned, Handling
  <2>5. \A u \in Task : task'[u].pc = "dispatch" =>
          task'[u] = task[u] /\ Op(u)' = Op(u) /\ Op(u) # Op(t) /\ Op(u) \in Opp
    BY <1>0, <1>3, <2>1, HandlesFrame DEF Handles, OthersRest, Owned, Handling, Op
  <2> QED
    BY <2>1, <2>3, <2>4, <2>5 DEF Sent, Untouched
<1>4. ASSUME NEW t \in Task, Handles(t), ~Dispatch(t) PROVE Sent'
  <2>1. \A o \in Opp : venue'[o].sent = venue[o].sent
          /\ (venue'[o] = venue[o] \/ (venue[o].state = "sending" /\ venue'[o].state = "none"))
    <3>1. CASE CallLost(t)
      <4>1. PICK S : venue' = Abandoned(S)
        BY <3>1 DEF CallLost
      <4> QED
        BY <4>1, AbandonedVenue
    <3>2. CASE UNCHANGED venue
      BY <3>2
    <3> QED
      BY <1>4, <3>1, <3>2 DEF Handles, Hear, Answer, Mark, Settle, Book
  <2>2. \A u \in Task : task'[u].pc = "dispatch" => task'[u] = task[u] /\ Op(u)' = Op(u)
    BY <1>4, HandlesFrame DEF OthersRest, Op
  <2>3. LedgerGrows
    BY <1>4, HandlesFrame
  <2> QED
    BY <1>0, <2>1, <2>2, <2>3 DEF Sent, Untouched, LedgerGrows, Handling
<1>5. CASE Asks
  BY <1>5, AsksFrame DEF Sent, Untouched, Op
<1>6. ASSUME NEW o \in Opp, VenueTakes(o) \/ VenueMoves(o) PROVE Sent'
  <2>1. venue[o].state \in {"sending", "working"} /\ UNCHANGED <<task, ledger>>
    BY <1>6 DEF VenueTakes, VenueMoves, durable
  <2>2. ~Untouched(o)
    BY <2>1 DEF Untouched
  <2>3. \A p \in Opp \ {o} : venue'[p] = venue[p]
    BY <1>6 DEF VenueTakes, VenueMoves, Typed, TypeOK
  <2>4. venue'[o].sent <= 1 /\ venue'[o].state # "sending"
    BY <1>6 DEF VenueTakes, VenueMoves, Typed, TypeOK, Sent
  <2> QED
    BY <1>0, <2>1, <2>2, <2>3, <2>4 DEF Sent, Untouched, Op, Handling
<1>7. CASE (\E r \in Pass, o \in Opp : Poll(r, o)) \/ UNCHANGED vars
  BY <1>7 DEF Poll, vars, durable, Sent, Untouched, Op
<1>8. CASE Crash
  BY <1>8, AbandonedVenue DEF Crash, Resting, Sent, Untouched, durable
<1> QED
  BY <1>1, <1>2, <1>3, <1>4, <1>5, <1>6, <1>7, <1>8, StepCases DEF Outside

-----------------------------------------------------------------------------
(* A reservation under every order *)

\* An order on its way to the venue, working or filled has a reservation that
\* holds, and a rejection is only answered when the venue has dropped the order.
Covered ==
  /\ \A o \in Opp : venue[o].state \in {"sending", "working", "filled"} =>
                      resv[o] \notin {"NONE", "RELEASED"}
  /\ \A t \in Task : task[t].pc \in {"answer", "mark"} /\ task[t].answer = "REJECTED" =>
                       venue[Op(t)].state = "gone"

LEMMA CoveredStep ==
  ASSUME Typed, Owned, Sent, Covered, [Next]_vars
  PROVE  Covered'
<1>0. \A u \in Task : task[u].pc \in Handling => Op(u) \in Opp
  BY OppOfTask DEF Handling, AtAccount, Typed
<1>1. ASSUME NEW t \in Task, Before(t) PROVE Covered'
  BY <1>1, BeforeFrame DEF Covered, OthersRest, Op, Handling
<1>2. ASSUME NEW t \in Task, Open(t) PROVE Covered'
  <2>1. UNCHANGED <<venue, resv>> /\ task'[t].pc \notin {"answer", "mark"} /\ OthersRest(t)
    BY <1>2, OpenFrame
  <2> QED
    BY <2>1 DEF Covered, OthersRest, Op
<1>3. ASSUME NEW t \in Task, Dispatch(t) PROVE Covered'
  <2>1. task[t].pc = "dispatch" /\ Op(t) \in Opp /\ Untouched(Op(t))
    BY <1>0, <1>3 DEF Dispatch, At, Handling, Sent
  <2>2. \A o \in Opp \ {Op(t)} : venue'[o] = venue[o] /\ resv'[o] = resv[o]
    BY <1>3, <2>1 DEF Dispatch, Typed, TypeOK
  <2>3. resv'[Op(t)] = "COMMITTED_TO_PENDING_ORDER"
    BY <1>3, <2>1 DEF Dispatch, Typed, TypeOK
  <2>4. \A u \in Task : task'[u].pc \in {"answer", "mark"} =>
          task'[u] = task[u] /\ Op(u)' = Op(u) /\ Op(u) # Op(t) /\ Op(u) \in Opp
    <3>1. task'[t].pc = "call"
      BY <1>3, GotoMoves DEF Dispatch
    <3> QED
      BY <1>0, <1>3, <2>1, <3>1, HandlesFrame DEF Handles, OthersRest, Owned, Handling, Op
  <2> QED
    BY <2>1, <2>2, <2>3, <2>4 DEF Covered
<1>4. ASSUME NEW t \in Task, Hear(t) PROVE Covered'
  <2>1. task'[t].answer = "REJECTED" => venue[Op(t)].state = "gone"
    BY <1>4 DEF Hear, Typed, TypeOK, DeliveryType
  <2>2. UNCHANGED <<venue, resv>> /\ Op(t)' = Op(t) /\ OthersRest(t)
    BY <1>4, HandlesFrame DEF Handles, Hear, durable
  <2> QED
    BY <2>1, <2>2 DEF Covered, OthersRest, Op
<1>5. ASSUME NEW t \in Task, CallLost(t) PROVE Covered'
  <2>1. task'[t].answer = "LOST" /\ UNCHANGED resv
    BY <1>5 DEF CallLost, Typed, TypeOK, DeliveryType, durable
  <2>2. \A o \in Opp : venue'[o] = venue[o] \/ (venue[o].state = "sending" /\ venue'[o].state = "none")
    <3>1. PICK S : venue' = Abandoned(S)
      BY <1>5 DEF CallLost
    <3> QED
      BY <3>1, AbandonedVenue
  <2>3. OthersRest(t)
    BY <1>5, HandlesFrame DEF Handles
  <2> QED
    BY <1>0, <2>1, <2>2, <2>3 DEF Covered, OthersRest, Op, Handling
<1>6. ASSUME NEW t \in Task, Answer(t) PROVE Covered'
  <2>1. task[t].pc = "answer" /\ Op(t) \in Opp
    BY <1>0, <1>6 DEF Answer, Woken, Handling
  <2>2. resv'[Op(t)] \in {"NONE", "RELEASED"} => venue[Op(t)].state = "gone"
    BY <1>6, <2>1 DEF Answer, Committed, Covered, Typed, TypeOK
  <2>3. \A o \in Opp \ {Op(t)} : resv'[o] = resv[o]
    BY <1>6 DEF Answer, Typed, TypeOK
  <2>4. UNCHANGED venue /\ OthersRest(t) /\ Op(t)' = Op(t) /\ task'[t].answer = task[t].answer
    BY <1>6, GotoMoves DEF Answer
  <2> QED
    BY <2>1, <2>2, <2>3, <2>4 DEF Covered, OthersRest, Op
<1>7. ASSUME NEW t \in Task, Mark(t) \/ Settle(t) \/ Book(t) PROVE Covered'
  BY <1>7, GotoMoves DEF Mark, Settle, Book, Covered, OthersRest, Op
<1>8. ASSUME NEW t \in Task, Leaves(t) PROVE Covered'
  <2>1. \A o \in Opp : resv'[o] = resv[o] \/ venue[o].state = "none"
    BY <1>0, <1>8 DEF Leaves, Duplicate, DispatchFails, Save, At, Handling, Sent, Untouched,
       Typed, TypeOK
  <2> QED
    BY <1>8, <2>1, LeavesFrame DEF Covered, OthersRest, Op
<1>9. CASE Asks
  BY <1>9, AsksFrame DEF Covered, Op
<1>10. ASSUME NEW o \in Opp, VenueTakes(o) \/ VenueMoves(o) PROVE Covered'
  <2>1. venue[o].state \in {"sending", "working"} /\ UNCHANGED <<task, resv>>
    BY <1>10 DEF VenueTakes, VenueMoves, durable
  <2>2. \A p \in Opp \ {o} : venue'[p] = venue[p]
    BY <1>10 DEF VenueTakes, VenueMoves, Typed, TypeOK
  <2> QED
    BY <1>0, <2>1, <2>2 DEF Covered, Op, Handling
<1>11. CASE (\E r \in Pass, o \in Opp : Poll(r, o)) \/ UNCHANGED vars
  BY <1>11 DEF Poll, vars, durable, Covered, Op
<1>12. CASE Crash
  BY <1>12, AbandonedVenue DEF Crash, Resting, Covered, durable
<1> QED
  BY <1>1, <1>2, <1>3, <1>4, <1>5, <1>6, <1>7, <1>8, <1>9, <1>10, <1>11, <1>12, StepCases
     DEF Outside, Handles

-----------------------------------------------------------------------------
(* The account a signal is bound to *)

Bound ==
  /\ \A s \in Signal : intent[s].state = "none" => intent[s].account = NoAccount
  /\ env.may.single =>
       /\ \A t \in Task : task[t].pc \in {"resources", "open", "dispatch"} =>
                            intent[task[t].sig].account = task[t].at
       /\ \A o \in Opp : venue[o].state = "sending" => intent[o[1]].account = o[2]

KeepsAccounts == \A s \in Signal : intent'[s].account = intent[s].account

\* Signal s, bound to no account, is bound to a.
Binds(s, a) ==
  /\ intent[s].account = NoAccount /\ intent'[s].account = a
  /\ \A r \in Signal \ {s} : intent'[r].account = intent[r].account

LEMMA IntentStep ==
  ASSUME Typed, Bound, NEW t \in Task, Before(t)
  PROVE  /\ KeepsAccounts \/ \E s \in Signal, a \in Account : Binds(s, a)
         /\ \A s \in Signal : intent'[s].state = "none" => intent'[s].account = NoAccount
         /\ env.may.single /\ task'[t].pc \in {"resources", "open"} =>
              intent'[task'[t].sig].account = task'[t].at
<1> DEFINE Goal ==
      /\ KeepsAccounts \/ \E s \in Signal, a \in Account : Binds(s, a)
      /\ \A s \in Signal : intent'[s].state = "none" => intent'[s].account = NoAccount
      /\ env.may.single /\ task'[t].pc \in {"resources", "open"} =>
           intent'[task'[t].sig].account = task'[t].at
<1>0. /\ task \in [Task -> DeliveryType] /\ task[t] \in DeliveryType
      /\ intent \in [Signal -> IntentType]
  BY DEF Typed, TypeOK
<1>1. CASE UNCHANGED intent /\ task'[t].pc \notin {"resources", "open"}
  BY <1>1 DEF KeepsAccounts, Bound
<1>2. ASSUME NEW s \in Signal, Deliver(t, s) PROVE Goal
  <2>1. UNCHANGED intent
    BY <1>2 DEF Deliver, durable
  <2> QED
    BY <1>1, <1>2, <2>1, DeliverMoves
<1>3. CASE Gate(t)
  BY <1>0, <1>1, <1>3 DEF Gate, Woken, DeliveryType, durable
<1>4. CASE Admit(t) \/ Pick(t) \/ Screen(t)
  <2>1. UNCHANGED intent
    BY <1>4 DEF Admit, Pick, Screen, durable
  <2>2. CASE Admit(t)
    <3>1. task'[t].pc = "claim"
      BY <1>0, <2>2 DEF Admit, DeliveryType
    <3> QED
      BY <1>1, <2>1, <3>1
  <2>3. CASE Pick(t)
    <3>1. PICK a \in Account :
            task' = [task EXCEPT ![t].pc = "reserve", ![t].at = a, ![t].left = @ \ {a}]
      BY <2>3 DEF Pick
    <3>2. task'[t].pc = "reserve"
      BY <1>0, <3>1 DEF DeliveryType
    <3> QED
      BY <1>1, <2>1, <3>2
  <2>4. CASE Screen(t)
    BY <1>0, <1>1, <2>1, <2>4 DEF Screen, At, DeliveryType
  <2> QED
    BY <1>4, <2>2, <2>3, <2>4
<1>5. CASE Exclude(t) \/ Mismatch(t)
  BY <1>0, <1>1, <1>5 DEF Exclude, Mismatch, Resting, durable
<1>6. CASE OverCeiling(t) \/ Blocked(t)
  BY <1>1, <1>6, GotoMoves DEF OverCeiling, Blocked
<1>7. CASE Reserve(t)
  <2>1. UNCHANGED intent /\ (env.may.single => task'[t].pc = "bind")
    BY <1>7, GotoMoves DEF Reserve
  <2> QED
    BY <2>1 DEF KeepsAccounts, Bound
<1>8. CASE Resources(t)
  <2>1. UNCHANGED intent /\ task[t].pc = "resources"
    BY <1>8 DEF Resources, Woken
  <2>2. task'[t].sig = task[t].sig /\ task'[t].at = task[t].at
    BY <1>0, <1>8 DEF Resources, Goto, DeliveryType
  <2> QED
    BY <2>1, <2>2 DEF KeepsAccounts, Bound
<1>9. CASE Claim(t)
  <2>1. task[t].sig \in Signal
    BY <1>9 DEF Claim, At, Typed, Placed
  <2>2. task'[t].pc \notin {"resources", "open"}
    BY <1>0, <1>9 DEF Claim, Resting, DeliveryType
  <2>3. /\ \A r \in Signal \ {task[t].sig} : intent'[r] = intent[r]
        /\ intent'[task[t].sig] = IF intent[task[t].sig].state = "none"
                                  THEN [state |-> "claimed", account |-> NoAccount]
                                  ELSE intent[task[t].sig]
    BY <1>0, <1>9, <2>1 DEF Claim
  <2> QED
    BY <2>1, <2>2, <2>3 DEF KeepsAccounts, Bound
<1>10. CASE Conclude(t)
  <2>1. task[t].sig \in Signal
    BY <1>10 DEF Conclude, At, Typed, Placed
  <2>2. task'[t].pc \notin {"resources", "open"}
    BY <1>0, <1>10 DEF Conclude, Resting
  <2>3. ASSUME NEW i \in IntentType, NEW a
        PROVE  Decided(i, a).account = i.account /\ (Decided(i, a).state = "none" => i.state = "none")
    BY DEF Decided, IntentType
  <2>4. /\ \A r \in Signal \ {task[t].sig} : intent'[r] = intent[r]
        /\ intent'[task[t].sig] = Decided(intent[task[t].sig], task[t].mine)
    BY <1>0, <1>10, <2>1 DEF Conclude
  <2> QED
    BY <1>0, <2>1, <2>2, <2>3, <2>4 DEF KeepsAccounts, Bound
<1>11. CASE Bind(t)
  <2> DEFINE s == task[t].sig
             a == task[t].at
  <2>1. s \in Signal /\ a \in Account
    BY <1>11 DEF Bind, At, Typed, Placed, AtAccount
  <2>2. CASE ~Bindable(s, a)
    BY <1>1, <1>11, <2>2, GotoMoves DEF Bind
  <2>3. CASE Bindable(s, a)
    <3>1. intent' = [intent EXCEPT ![s] = IF @.account = a THEN @
                                          ELSE [state |-> "selected", account |-> a]]
      BY <1>11, <2>3 DEF Bind
    <3>2. task'[t].sig = s /\ task'[t].at = a
      BY <1>0, <1>11, <2>3 DEF Bind, DeliveryType
    <3>3. /\ \A r \in Signal \ {s} : intent'[r] = intent[r]
          /\ intent'[s] = IF intent[s].account = a THEN intent[s]
                          ELSE [state |-> "selected", account |-> a]
      BY <1>0, <2>1, <3>1
    <3>4. intent'[s].account = a /\ (intent[s].account = a \/ intent[s].account = NoAccount)
      BY <2>3, <3>3 DEF Bindable
    <3>5. KeepsAccounts \/ Binds(s, a)
      BY <3>3, <3>4 DEF KeepsAccounts, Binds
    <3>6. \A r \in Signal : intent'[r].state = "none" => intent'[r].account = NoAccount
      BY <3>3 DEF Bound
    <3> QED
      BY <2>1, <3>2, <3>4, <3>5, <3>6
  <2> QED
    BY <2>2, <2>3
<1> QED
  BY <1>2, <1>3, <1>4, <1>5, <1>6, <1>7, <1>8, <1>9, <1>10, <1>11 DEF Before

LEMMA BoundStep ==
  ASSUME Typed, Owned, Bound, [Next]_vars
  PROVE  Bound'
<1>0. /\ \A t \in Task : task[t].pc \in {"resources", "open", "dispatch"} =>
           task[t].sig \in Signal /\ task[t].at \in Account
      /\ NoAccount \notin Account
  BY AccountAssumption DEF Typed, Placed, AtAccount
<1>1. ASSUME NEW t \in Task, Before(t) PROVE Bound'
  <2>1. env'.may = env.may /\ UNCHANGED venue /\ OthersRest(t)
    BY <1>1, BeforeFrame
  <2>2. task'[t].pc # "dispatch"
    BY <1>1, BeforeFrame DEF Handling
  <2>3. \A s \in Signal : intent[s].account # NoAccount => intent'[s].account = intent[s].account
    BY <1>1, IntentStep DEF KeepsAccounts, Binds
  <2>4. \A o \in Opp : o[1] \in Signal /\ o[2] \in Account
    BY DEF Opp
  <2>5. /\ \A s \in Signal : intent'[s].state = "none" => intent'[s].account = NoAccount
        /\ env.may.single /\ task'[t].pc \in {"resources", "open"} =>
             intent'[task'[t].sig].account = task'[t].at
    BY <1>1, IntentStep
  <2> QED
    BY <1>0, <2>1, <2>2, <2>3, <2>4, <2>5 DEF Bound, OthersRest
<1>2. ASSUME NEW t \in Task, Open(t) PROVE Bound'
  <2>1. task[t].pc = "open" /\ task'[t].sig = task[t].sig /\ task'[t].at = task[t].at
    BY <1>2, OpenFrame DEF Op
  <2> QED
    BY <1>2, <2>1, OpenFrame DEF Bound, OthersRest
<1>3. ASSUME NEW t \in Task, Handles(t) \/ Leaves(t) PROVE Bound'
  <2>1. UNCHANGED intent /\ env'.may = env.may /\ OthersRest(t)
    BY <1>3, HandlesFrame, LeavesFrame
  <2>2. task'[t].pc \notin {"resources", "open", "dispatch"}
    BY <1>3, HandlesFrame, LeavesFrame DEF Handling
  <2>3. ASSUME NEW o \in Opp, env.may.single, venue'[o].state = "sending"
        PROVE  intent[o[1]].account = o[2]
    <3>1. CASE Dispatch(t)
      <4>1. task[t].pc = "dispatch" /\ venue' = [venue EXCEPT ![Op(t)].state = "sending"]
        BY <3>1 DEF Dispatch, At
      <4>2. o = Op(t) \/ venue[o].state = "sending"
        BY <2>3, <4>1 DEF Typed, TypeOK
      <4> QED
        BY <2>3, <4>1, <4>2 DEF Bound, Op
    <3>2. CASE CallLost(t)
      <4>1. PICK S : venue' = Abandoned(S)
        BY <3>2 DEF CallLost
      <4> QED
        BY <2>3, <4>1, AbandonedVenue DEF Bound
    <3>3. CASE UNCHANGED venue
      BY <2>3, <3>3 DEF Bound
    <3> QED
      BY <1>3, <3>1, <3>2, <3>3, LeavesFrame DEF Handles, Hear, Answer, Mark, Settle, Book
  <2> QED
    BY <2>1, <2>2, <2>3 DEF Bound, OthersRest
<1>4. CASE Asks
  BY <1>4, AsksFrame DEF Bound
<1>5. ASSUME NEW o \in Opp, VenueTakes(o) \/ VenueMoves(o) PROVE Bound'
  <2>1. \A p \in Opp : venue'[p].state = "sending" => venue[p].state = "sending"
    BY <1>5 DEF VenueTakes, VenueMoves, Typed, TypeOK
  <2> QED
    BY <1>5, <2>1 DEF VenueTakes, VenueMoves, Bound, durable
<1>6. CASE (\E r \in Pass, o \in Opp : Poll(r, o)) \/ UNCHANGED vars
  BY <1>6 DEF Poll, vars, durable, Bound
<1>7. CASE Crash
  <2>1. \A s \in Signal : /\ intent'[s].account = intent[s].account
                          /\ intent'[s].state = "none" => intent[s].state = "none"
    <3>1. intent \in [Signal -> IntentType]
      BY DEF Typed, TypeOK
    <3> QED
      BY <1>7, <3>1, CrashSweeps DEF Crash
  <2>2. env'.may = env.may /\ \A t \in Task : task'[t].pc = "idle"
    BY <1>7, SpendType DEF Crash, Resting, Typed, TypeOK
  <2>3. \A o \in Opp : /\ o[1] \in Signal
                       /\ venue'[o].state = "sending" => venue[o].state = "sending"
    BY <1>7, AbandonedVenue DEF Crash, Opp
  <2> QED
    BY <2>1, <2>2, <2>3 DEF Bound
<1> QED
  BY <1>1, <1>2, <1>3, <1>4, <1>5, <1>6, <1>7, StepCases DEF Outside

-----------------------------------------------------------------------------
(* The theorems about orders *)

Dispatching == Typed /\ Owned /\ Sent /\ Covered /\ Bound

LEMMA DispatchingInit == Init => Dispatching
<1> SUFFICES ASSUME Init PROVE Dispatching
  OBVIOUS
<1>1. \A t \in Task : task[t].pc = "idle"
  BY DEF Init, Resting
<1>2. \A o \in Opp : Untouched(o)
  BY DEF Init, Untouched
<1>3. \A s \in Signal : intent[s].account = NoAccount
  BY DEF Init
<1> QED
  BY <1>1, <1>2, <1>3, TypesInit
     DEF Dispatching, Owned, Sent, Covered, Bound, Untouched, Handling

LEMMA DispatchingStep == Dispatching /\ [Next]_vars => Dispatching'
BY TypesStep, OwnedStep, SentStep, CoveredStep, BoundStep DEF Dispatching

\* However deliveries overlap, crash and are repeated, and however late an
\* order arrives, the venue receives at most one for an opportunity.
THEOREM OrdersAtMostOnce == Spec => []AtMostOnce
<1>1. Dispatching => AtMostOnce
  BY DEF Dispatching, Sent, AtMostOnce
<1> QED
  BY <1>1, DispatchingInit, DispatchingStep, PTL DEF Spec

\* An order the venue holds never loses its budget reservation.
THEOREM OrdersCovered == Spec => []ReservationCovers
<1>1. Dispatching => ReservationCovers
  BY DEF Dispatching, Covered, ReservationCovers, Alive
<1> QED
  BY <1>1, DispatchingInit, DispatchingStep, PTL DEF Spec

placement == [s \in Signal |-> [a \in Account |-> venue[<<s, a>>].sent]]
binding == [s \in Signal |-> intent[s].account]

LEMMA PromiseStep ==
  ASSUME Dispatching, [Next]_vars, env.may.single
  PROVE  [Promise!Next]_(Promise!vars)
<1>0. /\ Typed /\ Owned /\ Sent /\ Bound
  BY DEF Dispatching
<1>1. ASSUME \A o \in Opp : venue'[o].sent = venue[o].sent
      PROVE  placement' = placement
  BY <1>1 DEF placement, Opp
<1>2. ASSUME KeepsAccounts PROVE binding' = binding
  BY <1>2 DEF binding, KeepsAccounts
<1>3. ASSUME binding' = binding, placement' = placement PROVE [Promise!Next]_(Promise!vars)
  BY <1>3 DEF binding, placement, Promise!vars
<1>4. ASSUME NEW t \in Task, Before(t) PROVE [Promise!Next]_(Promise!vars)
  <2>1. placement' = placement
    BY <1>0, <1>1, <1>4, BeforeFrame
  <2>2. CASE KeepsAccounts
    BY <1>2, <1>3, <2>1, <2>2
  <2>3. ASSUME NEW s \in Signal, NEW a \in Account, Binds(s, a)
        PROVE  [Promise!Next]_(Promise!vars)
    <3>1. binding[s] = NoAccount /\ binding' = [binding EXCEPT ![s] = a]
      BY <2>3 DEF Binds, binding
    <3>2. Promise!Choose(s, a)
      BY <2>1, <3>1 DEF Promise!Choose, binding, placement
    <3> QED
      BY <3>2 DEF Promise!Next
  <2> QED
    BY <1>0, <1>4, <2>2, <2>3, IntentStep
<1>5. ASSUME NEW o \in Opp, VenueTakes(o) PROVE [Promise!Next]_(Promise!vars)
  <2> DEFINE s == o[1]
             a == o[2]
  <2>1. s \in Signal /\ a \in Account /\ o = <<s, a>>
    BY DEF Opp
  <2>2. venue[o].sent = 0 /\ intent[s].account = a
    BY <1>0, <1>5 DEF VenueTakes, Sent, Bound
  <2>3. venue'[o].sent = 1 /\ \A p \in Opp \ {o} : venue'[p] = venue[p]
    BY <1>0, <1>5, <2>2 DEF VenueTakes, Typed, TypeOK
  <2>4. binding' = binding /\ binding[s] = a
    BY <1>5, <2>1, <2>2 DEF VenueTakes, durable, binding
  <2>5. placement' = [placement EXCEPT ![s][a] = 1] /\ placement[s][a] = 0
    <3>1. \A r \in Signal, b \in Account :
            venue'[<<r, b>>].sent = IF r = s /\ b = a THEN 1 ELSE venue[<<r, b>>].sent
      BY <2>1, <2>3 DEF Opp
    <3>2. placement'[s] = [placement[s] EXCEPT ![a] = 1]
      <4>1. /\ placement'[s] = [b \in Account |-> venue'[<<s, b>>].sent]
            /\ placement[s] = [b \in Account |-> venue[<<s, b>>].sent]
        BY <2>1 DEF placement
      <4> HIDE DEF s, a
      <4>2. \A b \in Account : venue'[<<s, b>>].sent = IF b = a THEN 1 ELSE placement[s][b]
        BY <2>1, <3>1, <4>1
      <4>3. placement'[s] = [b \in Account |-> IF b = a THEN 1 ELSE placement[s][b]]
        BY <4>1, <4>2
      <4>4. DOMAIN placement[s] = Account
        BY <4>1
      <4> QED
        BY <2>1, <4>3, <4>4
    <3>3. \A r \in Signal \ {s} : placement'[r] = placement[r]
      BY <3>1 DEF placement
    <3>4. placement[s][a] = 0
      BY <2>1, <2>2 DEF placement
    <3> QED
      <4>1. /\ placement \in [Signal -> [Account -> Nat]]
            /\ placement' = [r \in Signal |-> placement'[r]]
        BY <1>0 DEF placement, Typed, TypeOK, Opp
      <4> HIDE DEF s, a
      <4> QED
        BY <2>1, <3>2, <3>3, <3>4, <4>1
  <2>6. Promise!Place(s, a)
    BY <2>4, <2>5 DEF Promise!Place, binding, placement
  <2> QED
    BY <2>1, <2>6 DEF Promise!Next
<1>6. ASSUME NEW t \in Task, Open(t) \/ Handles(t) \/ Leaves(t)
      PROVE  [Promise!Next]_(Promise!vars)
  <2>1. UNCHANGED intent
    BY <1>0, <1>6, OpenFrame, HandlesFrame, LeavesFrame
  <2>2. \A o \in Opp : venue'[o].sent = venue[o].sent
    <3>1. CASE Dispatch(t)
      BY <1>0, <3>1 DEF Dispatch, Typed, TypeOK
    <3>2. CASE CallLost(t)
      <4>1. PICK S : venue' = Abandoned(S)
        BY <3>2 DEF CallLost
      <4> QED
        BY <1>0, <4>1, AbandonedVenue
    <3>3. CASE UNCHANGED venue
      BY <3>3
    <3> QED
      BY <1>0, <1>6, <3>1, <3>2, <3>3, LeavesFrame, OpenFrame
         DEF Handles, Hear, Answer, Mark, Settle, Book
  <2> QED
    BY <1>1, <1>2, <1>3, <2>1, <2>2 DEF KeepsAccounts
<1>7. CASE Asks
  BY <1>0, <1>1, <1>2, <1>3, <1>7, AsksFrame DEF KeepsAccounts
<1>8. CASE (\E o \in Opp : VenueMoves(o)) \/ (\E r \in Pass, o \in Opp : Poll(r, o))
           \/ UNCHANGED vars
  <2>1. UNCHANGED intent /\ \A o \in Opp : venue'[o].sent = venue[o].sent
    BY <1>0, <1>8 DEF VenueMoves, Poll, vars, durable, Typed, TypeOK
  <2> QED
    BY <1>1, <1>2, <1>3, <2>1 DEF KeepsAccounts
<1>9. CASE Crash
  <2>1. \A o \in Opp : venue'[o].sent = venue[o].sent
    BY <1>0, <1>9, AbandonedVenue DEF Crash
  <2>2. \A s \in Signal : intent'[s].account = intent[s].account
    <3>1. intent \in [Signal -> IntentType]
      BY <1>0 DEF Typed, TypeOK
    <3> QED
      BY <1>9, <3>1, CrashSweeps DEF Crash
  <2> QED
    BY <1>1, <1>2, <1>3, <2>1, <2>2 DEF KeepsAccounts
<1> QED
  BY <1>4, <1>5, <1>6, <1>7, <1>8, <1>9, StepCases DEF Outside

\* The accounts of a signal that are alternatives get one order between them,
\* at the account the signal was bound to first: the entry path implements
\* SubmitOnce.
THEOREM ImplementsSubmitOnce == Spec => OneAccount
<1>1. Init => Promise!Init
  BY DEF Init, Promise!Init, Opp
<1>2. Dispatching /\ [Next]_vars => [env.may.single => Promise!Next]_(Promise!vars)
  BY PromiseStep
<1> QED
  BY <1>1, <1>2, DispatchingInit, DispatchingStep, PTL DEF Spec, OneAccount

-----------------------------------------------------------------------------
(* A fill is booked once *)

OnePass == \A p, q \in env.may.passes : p = q

\* A polled row, a row a task is about to save, and a fill already booked
\* exclude each other.
RowsAndBookings ==
  /\ \A o \in Opp : ledger[o] = "NONE" => "PENDING" \notin rows[o] /\ booked[o] = 0
  /\ \A o \in Opp : "PENDING" \in rows[o] => booked[o] = 0
  /\ \A o \in Opp : booked[o] <= (IF venue[o].state = "filled" THEN 1 ELSE 0)
TasksAndBookings ==
  \A t \in Task :
    /\ task[t].pc \in Handling => "PENDING" \notin rows[Op(t)]
    /\ task[t].pc \in Handling \ {"save"} => booked[Op(t)] = 0
    /\ task[t].pc = "save" /\ task[t].answer # "FILLED" => booked[Op(t)] = 0
    /\ task[t].pc \in Answered /\ task[t].answer = "FILLED" => venue[Op(t)].state = "filled"
PassesAndRows ==
  \A r \in Pass :
    /\ pass[r].doing # "idle" => r \in env.may.passes
    /\ pass[r].doing = "poll" => \A o \in pass[r].todo : "PENDING" \in rows[o]

Booking == OnePass => RowsAndBookings /\ TasksAndBookings /\ PassesAndRows

LEMMA BookingStep ==
  ASSUME Dispatching, Booking, [Next]_vars
  PROVE  Booking'
<1>0. Typed /\ Owned /\ Sent
  BY DEF Dispatching
<1>1. env'.may = env.may
  <2>1. ASSUME NEW t \in Task, Before(t) \/ Open(t) \/ Handles(t) \/ Leaves(t)
        PROVE  env'.may = env.may
    BY <1>0, <2>1, BeforeFrame, OpenFrame, HandlesFrame, LeavesFrame
  <2>2. CASE Asks
    BY <1>0, <2>2, AsksFrame
  <2>3. CASE Outside \/ UNCHANGED vars
    BY <2>3 DEF Outside, Poll, VenueTakes, VenueMoves, vars
  <2>4. CASE Crash
    BY <1>0, <2>4, SpendType DEF Crash, Typed, TypeOK
  <2> QED
    BY <2>1, <2>2, <2>3, <2>4, StepCases
<1> SUFFICES ASSUME OnePass, RowsAndBookings, TasksAndBookings, PassesAndRows
             PROVE  RowsAndBookings' /\ TasksAndBookings' /\ PassesAndRows'
  BY <1>1 DEF Booking, OnePass
<1> DEFINE Goal == RowsAndBookings' /\ TasksAndBookings' /\ PassesAndRows'
<1>2. \A u \in Task : task[u].pc \in Handling => Op(u) \in Opp
  BY <1>0, OppOfTask DEF Handling, AtAccount, Typed
<1>3. "save" \in Handling /\ Answered \subseteq Handling \ {"dispatch", "call"}
  BY DEF Answered, Handling
<1>4. ASSUME NEW t \in Task, Before(t) PROVE Goal
  <2>1. /\ UNCHANGED <<ledger, venue, booked, pass>> /\ SameFlags
        /\ task'[t].pc \notin Handling /\ OthersRest(t)
    BY <1>0, <1>4, BeforeFrame
  <2>2. \A u \in Task : task'[u].pc \in Handling => task'[u] = task[u] /\ Op(u)' = Op(u)
    BY <2>1 DEF OthersRest, Op
  <2>3. \A r \in Pass : pass[r].todo \in SUBSET Opp
    BY <1>0 DEF Typed, TypeOK, PassType
  <2>4. RowsAndBookings'
    BY <2>1 DEF RowsAndBookings, SameFlags
  <2>5. TasksAndBookings'
    BY <1>2, <1>3, <2>1, <2>2 DEF TasksAndBookings, SameFlags
  <2>6. PassesAndRows'
    BY <1>1, <2>1, <2>3 DEF PassesAndRows, SameFlags
  <2> QED
    BY <2>4, <2>5, <2>6
<1>5. ASSUME NEW t \in Task, Open(t) PROVE Goal
  <2>1. /\ UNCHANGED <<rows, venue, booked, pass>> /\ LedgerGrows /\ OthersRest(t)
        /\ task'[t].pc = "dispatch" /\ Op(t)' = Op(t)
        /\ Op(t) \in Opp /\ ledger[Op(t)] = "NONE"
    BY <1>0, <1>5, OpenFrame
  <2>2. \A u \in Task \ {t} : task'[u] = task[u] /\ Op(u)' = Op(u)
    BY <2>1 DEF OthersRest, Op
  <2> QED
    BY <1>1, <1>3, <2>1, <2>2
       DEF RowsAndBookings, TasksAndBookings, PassesAndRows, LedgerGrows
<1>6. ASSUME NEW t \in Task, Handles(t) PROVE Goal
  <2>1. /\ UNCHANGED <<rows, pass>> /\ LedgerGrows /\ OthersRest(t)
        /\ task[t].pc \in Handling /\ Op(t)' = Op(t) /\ Op(t) \in Opp
    BY <1>0, <1>6, HandlesFrame
  <2>2. \A u \in Task \ {t} :
          /\ task'[u] = task[u] /\ Op(u)' = Op(u)
          /\ task[u].pc \in Handling => Op(u) # Op(t) /\ Op(u) \in Opp
    BY <1>0, <1>2, <2>1 DEF OthersRest, Op, Owned
  <2>3. PassesAndRows'
    BY <1>1, <2>1 DEF PassesAndRows
  <2>4. CASE Dispatch(t)
    <3>1. /\ UNCHANGED booked /\ \A o \in Opp \ {Op(t)} : venue'[o] = venue[o]
          /\ task[t].pc = "dispatch" /\ task'[t].pc = "call"
      BY <1>0, <2>1, <2>4, GotoMoves DEF Dispatch, At, Typed, TypeOK
    <3> QED
      <4>1. booked[Op(t)] = 0 /\ "PENDING" \notin rows[Op(t)]
        BY <3>1 DEF TasksAndBookings, Handling
      <4>2. RowsAndBookings'
        BY <2>1, <3>1, <4>1 DEF RowsAndBookings, LedgerGrows
      <4>3. TasksAndBookings'
        BY <1>3, <2>1, <2>2, <3>1, <4>1 DEF TasksAndBookings
      <4> QED
        BY <2>3, <4>2, <4>3
  <2>5. CASE Hear(t) \/ CallLost(t)
    <3>1. UNCHANGED booked /\ task[t].pc = "call" /\ task'[t].pc = "answer"
      BY <1>0, <2>5 DEF Hear, CallLost, durable, Typed, TypeOK, DeliveryType
    <3>2. \A o \in Opp : venue[o].state = "filled" => venue'[o].state = "filled"
      <4>1. CASE CallLost(t)
        <5>1. PICK S : venue' = Abandoned(S)
          BY <4>1 DEF CallLost
        <5> QED
          BY <1>0, <5>1, AbandonedVenue
      <4>2. CASE Hear(t)
        BY <4>2 DEF Hear
      <4> QED
        BY <2>5, <4>1, <4>2
    <3>3. task'[t].answer = "FILLED" => venue'[Op(t)].state = "filled"
      BY <1>0, <2>5 DEF Hear, CallLost, Typed, TypeOK, DeliveryType
    <3>4. \A o \in Opp : booked[o] \in Nat
      BY <1>0 DEF Typed, TypeOK
    <3> QED
      <4>1. booked[Op(t)] = 0 /\ "PENDING" \notin rows[Op(t)]
        BY <3>1 DEF TasksAndBookings, Handling
      <4>2. RowsAndBookings'
        BY <2>1, <3>1, <3>2, <3>4 DEF RowsAndBookings, LedgerGrows
      <4>3. TasksAndBookings'
        BY <1>3, <2>1, <2>2, <3>1, <3>2, <3>3, <4>1 DEF TasksAndBookings
      <4> QED
        BY <2>3, <4>2, <4>3
  <2>6. CASE Answer(t) \/ Mark(t) \/ Settle(t)
    <3>1. /\ UNCHANGED <<booked, venue>> /\ task'[t].answer = task[t].answer
          /\ task[t].pc \in {"answer", "mark", "settle"}
          /\ task'[t].pc \in {"mark", "settle", "book"}
      BY <1>0, <2>6, GotoMoves DEF Answer, Mark, Settle, At, Woken
    <3> QED
      BY <1>3, <2>1, <2>2, <2>3, <3>1
         DEF RowsAndBookings, TasksAndBookings, LedgerGrows, Handling, Answered
  <2>7. CASE Book(t)
    <3>1. /\ UNCHANGED <<venue, ledger>> /\ task'[t].answer = task[t].answer
          /\ task[t].pc = "book" /\ task'[t].pc = "save"
      BY <1>0, <2>7, GotoMoves DEF Book, At
    <3>2. /\ \A o \in Opp \ {Op(t)} : booked'[o] = booked[o]
          /\ booked'[Op(t)] = IF task[t].answer = "FILLED" THEN booked[Op(t)] + 1
                              ELSE booked[Op(t)]
      BY <1>0, <2>1, <2>7 DEF Book, Typed, TypeOK
    <3>3. ledger[Op(t)] # "NONE" /\ "PENDING" \notin rows[Op(t)] /\ booked[Op(t)] = 0
          /\ (task[t].answer = "FILLED" => venue[Op(t)].state = "filled")
      BY <1>0, <2>1, <3>1 DEF Owned, TasksAndBookings, Answered, Handling
    <3> QED
      BY <1>3, <2>1, <2>2, <2>3, <3>1, <3>2, <3>3
         DEF RowsAndBookings, TasksAndBookings, Handling
  <2> QED
    BY <1>6, <2>4, <2>5, <2>6, <2>7 DEF Handles
<1>7. ASSUME NEW t \in Task, Leaves(t) PROVE Goal
  <2>1. /\ UNCHANGED <<venue, booked, pass>> /\ LedgerGrows /\ OthersRest(t)
        /\ task'[t].pc = "pick" /\ Op(t) \in Opp
    BY <1>0, <1>7, LeavesFrame
  <2>2. \A u \in Task : task'[u].pc \in Handling => u # t /\ task'[u] = task[u] /\ Op(u)' = Op(u)
    BY <2>1 DEF OthersRest, Op, Handling
  <2>3. \A r \in Pass : pass[r].todo \in SUBSET Opp
    BY <1>0 DEF Typed, TypeOK, PassType
  <2>4. CASE SameFlags
    <3>1. RowsAndBookings'
      BY <2>1, <2>4 DEF RowsAndBookings, LedgerGrows, SameFlags
    <3>2. TasksAndBookings'
      BY <1>2, <1>3, <2>1, <2>2, <2>4 DEF TasksAndBookings, SameFlags
    <3>3. PassesAndRows'
      BY <1>1, <2>1, <2>3, <2>4 DEF PassesAndRows, SameFlags
    <3> QED
      BY <3>1, <3>2, <3>3
  <2>5. CASE Save(t)
    <3>1. task[t].pc = "save" /\ UNCHANGED ledger
      BY <2>5 DEF Save, At
    <3>2. /\ \A o \in Opp \ {Op(t)} : rows'[o] = rows[o]
          /\ rows'[Op(t)] = rows[Op(t)] \cup
               {IF task[t].answer = "LOST" THEN "ERROR" ELSE task[t].answer}
      BY <1>0, <2>1, <2>5 DEF Save, Row, Typed, TypeOK
    <3>3. ledger[Op(t)] # "NONE"
      BY <1>0, <3>1 DEF Owned, Handling
    <3>4. "PENDING" \in rows'[Op(t)] => booked[Op(t)] = 0
      BY <3>1, <3>2 DEF RowsAndBookings, TasksAndBookings, Handling
    <3>5. \A u \in Task : task'[u].pc \in Handling => Op(u) # Op(t)
      BY <1>0, <2>2, <3>1 DEF Owned, Handling
    <3>6. RowsAndBookings'
      BY <2>1, <3>1, <3>2, <3>3, <3>4 DEF RowsAndBookings
    <3>7. TasksAndBookings'
      <4>1. \A u \in Task : task'[u].pc \in Handling =>
              Op(u) \in Opp /\ rows'[Op(u)] = rows[Op(u)]
        BY <1>2, <2>2, <3>2, <3>5
      <4> QED
        BY <1>3, <2>1, <2>2, <4>1 DEF TasksAndBookings
    <3>8. PassesAndRows'
      BY <1>1, <2>1, <2>3, <3>2 DEF PassesAndRows
    <3> QED
      BY <3>6, <3>7, <3>8
  <2>6. SameFlags \/ Save(t)
    <3>1. CASE Duplicate(t)
      BY <3>1 DEF Duplicate, SameFlags
    <3>2. CASE DispatchFails(t)
      BY <1>0, <2>1, <3>2, RowFlags DEF DispatchFails, RowState
    <3> QED
      BY <1>7, <3>1, <3>2 DEF Leaves
  <2> QED
    BY <2>4, <2>5, <2>6
<1>8. CASE Asks
  <2>1. UNCHANGED <<rows, booked, venue, task>> /\ LedgerGrows
    BY <1>0, <1>8, AsksFrame DEF LedgerGrows
  <2>2. RowsAndBookings' /\ TasksAndBookings'
    BY <2>1 DEF RowsAndBookings, TasksAndBookings, LedgerGrows, Op
  <2> DEFINE Kept(r) ==
        /\ pass'[r].doing # "idle" => r \in env.may.passes
        /\ pass'[r].doing = "poll" => \A o \in pass'[r].todo : "PENDING" \in rows[o]
  <2>3. ASSUME NEW r \in Pass PROVE Kept(r)
    <3>0. pass \in [Pass -> PassType]
      BY <1>0 DEF Typed, TypeOK
    <3>1. ASSUME NEW q \in Pass, StartPass(q) PROVE Kept(r)
      BY <3>0, <3>1 DEF StartPass, Waiting, PassesAndRows
    <3>2. ASSUME NEW q \in Pass, StartLookups(q) PROVE Kept(r)
      BY <3>0, <3>2 DEF StartLookups, PassesAndRows, PassType
    <3>3. ASSUME NEW q \in Pass, EndPass(q) PROVE Kept(r)
      BY <3>0, <3>3 DEF EndPass, Waiting, PassesAndRows
    <3>4. ASSUME NEW q \in Pass, NEW o \in Opp, Lookup(q, o) \/ Resolve(q, o) PROVE Kept(r)
      BY <3>0, <3>4 DEF Lookup, Resolve, PassesAndRows, PassType
    <3>5. ASSUME NEW o \in Opp, NotPlaced(o) PROVE Kept(r)
      BY <3>5 DEF NotPlaced, PassesAndRows
    <3> QED
      BY <1>8, <3>1, <3>2, <3>3, <3>4, <3>5 DEF Asks
  <2> QED
    BY <1>1, <2>1, <2>2, <2>3 DEF PassesAndRows
<1>9. ASSUME NEW r \in Pass, NEW o \in Opp, Poll(r, o) PROVE Goal
  <2>0. pass \in [Pass -> PassType] /\ UNCHANGED <<venue, task, ledger>>
    BY <1>0, <1>9 DEF Typed, TypeOK, Poll
  <2>1. "PENDING" \in rows[o] /\ booked[o] = 0 /\ ledger[o] # "NONE"
    BY <1>9 DEF Poll, PassesAndRows, RowsAndBookings
  <2>2. \A t \in Task : task[t].pc \in Handling => Op(t) # o /\ Op(t) \in Opp
    BY <1>2, <2>1 DEF TasksAndBookings
  <2>3. \A p \in Opp \ {o} : rows'[p] = rows[p] /\ booked'[p] = booked[p]
    BY <1>0, <1>9 DEF Poll, Typed, TypeOK
  <2>4. /\ booked'[o] <= (IF venue[o].state = "filled" THEN 1 ELSE 0)
        /\ "PENDING" \in rows'[o] => booked'[o] = 0
    <3>1. CASE UNCHANGED <<booked, rows>>
      BY <2>1, <3>1 DEF RowsAndBookings
    <3>2. CASE /\ booked' = [booked EXCEPT ![o] = IF venue[o].state = "filled" THEN @ + 1 ELSE @]
               /\ rows' = [rows EXCEPT ![o] = Closed(o)]
      <4>1. "PENDING" \notin Closed(o)
        BY DEF Closed
      <4> QED
        BY <1>0, <2>1, <3>2, <4>1 DEF Typed, TypeOK
    <3> QED
      BY <1>9, <3>1, <3>2 DEF Poll
  <2>5. RowsAndBookings'
    BY <2>0, <2>1, <2>3, <2>4 DEF RowsAndBookings
  <2>6. TasksAndBookings'
    <3>1. \A t \in Task : task[t].pc \in Handling =>
            Op(t)' = Op(t) /\ rows'[Op(t)] = rows[Op(t)] /\ booked'[Op(t)] = booked[Op(t)]
      BY <2>0, <2>2, <2>3 DEF Op
    <3> QED
      BY <1>3, <2>0, <3>1 DEF TasksAndBookings, Handling
  <2>7. PassesAndRows'
    <3>1. /\ pass'[r].doing = "poll" /\ pass'[r].todo = pass[r].todo \ {o}
          /\ \A q \in Pass \ {r} : pass'[q] = pass[q]
          /\ pass[r].doing = "poll"
      BY <1>9, <2>0 DEF Poll, PassType
    <3>2. \A q \in Pass \ {r} : pass[q].doing = "idle"
      BY <3>1 DEF PassesAndRows, OnePass
    <3>3. pass[r].todo \in SUBSET Opp
      BY <2>0 DEF PassType
    <3> QED
      BY <1>1, <2>3, <3>1, <3>2, <3>3 DEF PassesAndRows
  <2> QED
    BY <2>5, <2>6, <2>7
<1>10. ASSUME NEW o \in Opp, VenueTakes(o) \/ VenueMoves(o) PROVE Goal
  <2>1. /\ UNCHANGED <<ledger, rows, booked, task, pass>>
        /\ venue[o].state # "filled" /\ \A p \in Opp \ {o} : venue'[p] = venue[p]
    BY <1>0, <1>10 DEF VenueTakes, VenueMoves, durable, Typed, TypeOK
  <2>2. booked[o] = 0
    BY <1>0, <2>1 DEF RowsAndBookings, Typed, TypeOK
  <2>3. TasksAndBookings'
    BY <1>2, <1>3, <2>1 DEF TasksAndBookings, Op
  <2> QED
    BY <1>1, <2>1, <2>2, <2>3 DEF RowsAndBookings, PassesAndRows
<1>11. CASE UNCHANGED vars
  BY <1>11 DEF vars, durable, RowsAndBookings, TasksAndBookings, PassesAndRows, Op
<1>12. CASE Crash
  <2>1. /\ UNCHANGED <<ledger, rows, booked>>
        /\ \A o \in Opp : venue[o].state = "filled" => venue'[o].state = "filled"
        /\ \A t \in Task : task'[t].pc = "idle"
        /\ \A r \in Pass : pass'[r].doing = "idle"
    BY <1>0, <1>12, AbandonedVenue DEF Crash, Resting, Waiting, durable
  <2>2. \A o \in Opp : booked[o] \in Nat
    BY <1>0 DEF Typed, TypeOK
  <2> QED
    BY <2>1, <2>2 DEF RowsAndBookings, TasksAndBookings, PassesAndRows, Handling, Answered
<1> QED
  BY <1>4, <1>5, <1>6, <1>7, <1>8, <1>9, <1>10, <1>11, <1>12, StepCases DEF Outside

\* With reconciliation passes that do not overlap, what is added to a position
\* for an order is its fill and is added once, by the delivery that saw it or
\* by the pass that polled it.
THEOREM FillsBookedOnce == Spec => []BookedOnce
<1>1. Init => Booking
  BY DEF Init, Booking, RowsAndBookings, TasksAndBookings, PassesAndRows, Resting, Waiting,
         Handling, Answered
<1>2. Dispatching /\ Booking /\ [Next]_vars => Booking'
  BY BookingStep
<1>3. Booking => BookedOnce
  BY DEF Booking, OnePass, RowsAndBookings, BookedOnce
<1> QED
  BY <1>1, <1>2, <1>3, DispatchingInit, DispatchingStep, PTL DEF Spec

-----------------------------------------------------------------------------
(* The capital of a submission whose outcome is unknown *)

Dispatches(t) == task[t].pc \in {"dispatch", "call", "answer", "mark"}
Records(t) == task[t].pc \in {"settle", "book", "save"}
HasOwn(t) == task[t].pc \in {"bind", "resources", "open"}

\* The task will settle what it sent, or has found that it must wait.
Settles(t) == task[t].pc = "settle" \/ (Records(t) /\ Holds(task[t].answer))

\* One delivery of a signal at a time.
OneDelivery ==
  \A t, u \in Task : task[t].sig = task[u].sig /\ task[t].sig # NoSignal => t = u

\* What the ledger says of the opportunity a task dispatches or records; a
\* task records without an await.
TasksAndLedger ==
  \A t \in Task :
    /\ Dispatches(t) => ledger[Op(t)] = "PENDING_SUBMISSION"
    /\ Records(t) => ledger[Op(t)] = Outcome(task[t].answer) /\ running = t

\* The rows a pass polls and the submissions a pass looks up are apart.
RowsAndLedger ==
  \A o \in Opp : "PENDING" \in rows[o] => ledger[o] = "SUBMITTED_UNCONFIRMED"
PassesAndLedger ==
  \A r \in Pass :
    /\ pass[r].doing # "idle" => r \in env.may.passes
    /\ pass[r].doing # "lookup" => pass[r].asked = {}
    /\ pass[r].asked \cap pass[r].todo = {}
    /\ \A o \in pass[r].asked : ledger[o] = "UNKNOWN_AMBIGUOUS"
    /\ pass[r].doing = "lookup" =>
         \A o \in pass[r].todo : ledger[o] = "UNKNOWN_AMBIGUOUS"

\* A ledger row was opened and the dispatch failed: nothing was sent, the
\* capital is released and the row stays as it is.
Aborted(o) ==
  /\ env.may.aborts /\ ledger[o] = "PENDING_SUBMISSION"
  /\ \A t \in Task : Dispatches(t) => Op(t) # o

\* Somebody will release the capital of o, and nobody before him may.
Obliged(o) ==
  \/ ledger[o] = "PENDING_SUBMISSION" /\ ~Aborted(o)
  \/ ledger[o] = "UNKNOWN_AMBIGUOUS"
  \/ "PENDING" \in rows[o]
  \/ \E t \in Task : Op(t) = o /\ Settles(t)

\* A delivery of o that has not opened a ledger row holds capital of its own.
Reserved(o) == \E t \in Task : HasOwn(t) /\ Op(t) = o

Needed(o) == (IF Obliged(o) THEN 1 ELSE 0) + (IF Reserved(o) THEN 1 ELSE 0)
Owing == \A o \in Opp : owed[o] >= Needed(o)

\* Where a dispatch may fail no process dies: a delivery knows what it bound.
OnTheWay ==
  /\ ~env.may.single =>
       /\ \A s \in Signal : intent[s].state = "none"
       /\ \A t \in Task : task[t].pc \notin {"gate", "claim", "bind"}
  /\ \A t \in Task : task[t].pc \in AtAccount => task[t].at \notin task[t].left
  /\ env.may.single =>
       \A t \in Task : task[t].pc \in {"resources", "open"} \cup Handling =>
         /\ task[t].mine = task[t].at
         /\ intent[task[t].sig].account = task[t].at
         /\ intent[task[t].sig].state \in {"selected", "committed"}

\* No delivery of the signal returns to an aborted opportunity.
GivenUp ==
  \A o \in Opp : Aborted(o) =>
    /\ rows[o] # {}
    /\ env.may.single =>
         /\ intent[o[1]].account = o[2]
         /\ \/ intent[o[1]].state = "committed"
            \/ intent[o[1]].state = "selected" /\ \E t \in Task : task[t].sig = o[1]
    /\ \A t \in Task : task[t].sig = o[1] =>
         /\ o[2] \notin task[t].left
         /\ task[t].pc \in AtAccount => task[t].at # o[2]
         /\ env.may.single => task[t].pc = "pick" /\ task[t].mine = o[2]

Capital ==
  Undisturbed =>
    /\ OneDelivery /\ TasksAndLedger /\ RowsAndLedger /\ PassesAndLedger /\ Owing
    /\ env.may.aborts => OnTheWay /\ GivenUp

\* A step of a delivery.
Turn(t) == Before(t) \/ Open(t) \/ Handles(t) \/ Leaves(t)

LEMMA TurnFrame ==
  ASSUME Typed, NEW t \in Task, Turn(t)
  PROVE  /\ OthersRest(t) /\ env'.may = env.may /\ UNCHANGED pass
         /\ \A o \in Opp : o # Op(t) => ledger'[o] = ledger[o]
         /\ running \in {t, Nobody} \/ Hear(t) \/ CallLost(t)
<1>0. \A o \in Opp : o # Op(t) => ledger'[o] = ledger[o]
  <2>1. CASE Open(t) \/ Mark(t) \/ Duplicate(t)
    BY <2>1 DEF Open, Mark, Duplicate, Typed, TypeOK
  <2>2. CASE Before(t)
    BY <2>2, BeforeFrame
  <2>3. CASE ~(Open(t) \/ Mark(t) \/ Duplicate(t)) /\ ~Before(t)
    BY <2>3 DEF Turn, Handles, Leaves, Dispatch, Hear, CallLost, Answer, Settle, Book,
                DispatchFails, Save, durable
  <2> QED
    BY <2>1, <2>2, <2>3
<1>1. running \in {t, Nobody} \/ Hear(t) \/ CallLost(t)
  <2>1. CASE Before(t)
    BY <2>1 DEF Before, Deliver, Gate, Admit, Exclude, Claim, Pick, Screen, Conclude, Reserve,
                OverCeiling, Bind, Resources, Blocked, Mismatch, At, Woken
  <2>2. CASE ~Before(t)
    BY <2>2 DEF Turn, Open, Handles, Leaves, Dispatch, Answer, Mark, Settle, Book, Duplicate,
                DispatchFails, Save, At, Woken
  <2> QED
    BY <2>1, <2>2
<1>2. OthersRest(t) /\ env'.may = env.may /\ UNCHANGED pass
  BY BeforeFrame, OpenFrame, HandlesFrame, LeavesFrame DEF Turn
<1> QED
  BY <1>0, <1>1, <1>2

LEMMA SignalKept ==
  ASSUME Typed, NEW t \in Task, Turn(t)
  PROVE  \/ \E s \in Signal : Deliver(t, s)
         \/ task'[t].sig = task[t].sig /\ task[t].sig \in Signal
         \/ task'[t] = Resting
<1>0. task \in [Task -> DeliveryType] /\ task[t] \in DeliveryType
  BY DEF Typed, TypeOK
<1> DEFINE Same == task'[t].sig = task[t].sig /\ task[t].sig \in Signal
<1>1. CASE Gate(t) \/ Admit(t) \/ Pick(t) \/ Screen(t)
  <2>1. task[t].sig \in Signal
    BY <1>1 DEF Gate, Admit, Pick, Screen, At, Woken, Typed, Placed
  <2>2. CASE Gate(t)
    BY <1>0, <2>1, <2>2 DEF Gate, DeliveryType
  <2>3. CASE Admit(t)
    BY <1>0, <2>1, <2>3 DEF Admit, DeliveryType
  <2>4. CASE Pick(t)
    <3>1. PICK a \in Account :
            task' = [task EXCEPT ![t].pc = "reserve", ![t].at = a, ![t].left = @ \ {a}]
      BY <2>4 DEF Pick
    <3> QED
      BY <1>0, <2>1, <3>1 DEF DeliveryType
  <2>5. CASE Screen(t)
    BY <1>0, <2>1, <2>5 DEF Screen, DeliveryType
  <2> QED
    BY <1>1, <2>2, <2>3, <2>4, <2>5
<1>2. CASE Exclude(t) \/ Conclude(t) \/ Mismatch(t)
  BY <1>0, <1>2 DEF Exclude, Conclude, Mismatch
<1>3. CASE Claim(t)
  BY <1>0, <1>3 DEF Claim, At, DeliveryType, Typed, Placed
<1>4. CASE Bind(t)
  <2>1. task[t].sig \in Signal
    BY <1>4 DEF Bind, At, Typed, Placed
  <2>2. CASE Bindable(task[t].sig, task[t].at)
    BY <1>0, <1>4, <2>1, <2>2 DEF Bind, DeliveryType
  <2>3. CASE ~Bindable(task[t].sig, task[t].at)
    BY <1>0, <1>4, <2>1, <2>3 DEF Bind, Goto, DeliveryType
  <2> QED
    BY <2>2, <2>3
<1>5. CASE Reserve(t) \/ OverCeiling(t) \/ Resources(t) \/ Blocked(t) \/ Open(t) \/ Duplicate(t)
           \/ DispatchFails(t) \/ Dispatch(t) \/ Answer(t) \/ Mark(t) \/ Settle(t) \/ Book(t)
  <2>1. task[t].sig \in Signal
    BY <1>5 DEF Reserve, OverCeiling, Resources, Blocked, Open, Duplicate, DispatchFails,
                Dispatch, Answer, Mark, Settle, Book, At, Woken, Typed, Placed
  <2>2. PICK label, on : Goto(t, label, on)
    BY <1>5 DEF Reserve, OverCeiling, Resources, Blocked, Open, Duplicate, DispatchFails,
                Dispatch, Answer, Mark, Settle, Book
  <2>3. task'[t].sig = task[t].sig
    BY <1>0, <2>2 DEF Goto, DeliveryType
  <2> QED
    BY <2>1, <2>3
<1>6. CASE Hear(t) \/ CallLost(t) \/ Save(t)
  BY <1>0, <1>6 DEF Hear, CallLost, Save, At, DeliveryType, Typed, Placed
<1> QED
  BY <1>1, <1>2, <1>3, <1>4, <1>5, <1>6 DEF Turn, Before, Handles, Leaves

LEMMA DeliverTakes ==
  ASSUME Typed, NEW t \in Task, NEW s \in Signal, Deliver(t, s)
  PROVE  UNCHANGED task \/ task'[t].sig = s
<1>1. task \in [Task -> DeliveryType]
  BY DEF Typed, TypeOK
<1>2. CASE Replayed(s)
  BY <1>2 DEF Deliver
<1>3. CASE ~Replayed(s)
  BY <1>1, <1>3 DEF Deliver, Resting
<1> QED
  BY <1>2, <1>3

LEMMA OneDeliveryStep ==
  ASSUME Typed, OneDelivery, ~env.may.overlap, [Next]_vars
  PROVE  OneDelivery'
<1>1. ASSUME NEW t \in Task, Turn(t) PROVE OneDelivery'
  <2>1. \A u \in Task \ {t} : task'[u] = task[u]
    BY <1>1, TurnFrame DEF OthersRest
  <2>2. ASSUME NEW s \in Signal, Deliver(t, s) PROVE OneDelivery'
    <3>1. \A u \in Task : task[u].sig # s
      BY <2>2 DEF Deliver
    <3>2. task'[t] = task[t] \/ task'[t].sig = s
      BY <2>2, DeliverTakes
    <3> QED
      BY <2>1, <3>1, <3>2 DEF OneDelivery
  <2>3. CASE task'[t].sig \in {task[t].sig, NoSignal}
    BY <2>1, <2>3 DEF OneDelivery
  <2> QED
    BY <1>1, <2>2, <2>3, SignalKept DEF Resting
<1>2. CASE Asks \/ Outside \/ UNCHANGED vars
  <2>1. UNCHANGED task
    BY <1>2, AsksFrame DEF Outside, Poll, VenueTakes, VenueMoves, vars, durable
  <2> QED
    BY <2>1 DEF OneDelivery
<1>3. CASE Crash
  BY <1>3 DEF Crash, Resting, OneDelivery
<1> QED
  BY <1>1, <1>2, <1>3, StepCases DEF Turn

LEMMA TasksAndLedgerStep ==
  ASSUME Typed, Owned, OneDelivery, TasksAndLedger, PassesAndLedger, [Next]_vars
  PROVE  TasksAndLedger'
<1>0. \A u \in Task : Dispatches(u) \/ Records(u) =>
        Op(u) \in Opp /\ task[u].pc \in Handling
  BY OppOfTask DEF Dispatches, Records, Handling, AtAccount, Typed
<1>1. \A u \in Task : Dispatches(u) => ~Records(u)
  BY DEF Dispatches, Records
<1> DEFINE Ok(u) ==
      /\ Dispatches(u) => ledger[Op(u)] = "PENDING_SUBMISSION"
      /\ Records(u) => ledger[Op(u)] = Outcome(task[u].answer) /\ running = u
<1>2. ASSUME NEW t \in Task, Turn(t) PROVE TasksAndLedger'
  <2>1. /\ OthersRest(t)
        /\ running \in {t, Nobody} \/ Hear(t) \/ CallLost(t)
        /\ \A o \in Opp : o # Op(t) => ledger'[o] = ledger[o]
    BY <1>2, TurnFrame
  <2>2. ASSUME NEW u \in Task \ {t} PROVE Ok(u)'
    <3>1. task'[u] = task[u] /\ Op(u)' = Op(u)
      BY <2>1 DEF OthersRest, Op
    <3>2. CASE Records(u)
      <4>1. Hear(t) \/ CallLost(t)
        BY <2>1, <3>2, NobodyAssumption DEF TasksAndLedger
      <4>2. UNCHANGED <<ledger, running>>
        BY <4>1 DEF Hear, CallLost, durable
      <4> QED
        BY <3>1, <4>2 DEF TasksAndLedger, Dispatches, Records
    <3>3. CASE Dispatches(u)
      <4>1. Op(u) # Op(t) \/ UNCHANGED ledger
        <5>1. CASE Before(t)
          BY <5>1, BeforeFrame
        <5>2. CASE Open(t)
          BY <3>3, <5>2, OpenFrame DEF TasksAndLedger
        <5>3. CASE Handles(t)
          BY <1>0, <3>3, <5>3, HandlesFrame DEF Owned
        <5>4. CASE Duplicate(t)
          <6>1. task[t].sig \in Signal
            BY <5>4 DEF Duplicate, At, Typed, Placed
          <6>2. task[u].sig # task[t].sig
            BY <6>1, NobodyAssumption DEF OneDelivery
          <6> QED
            BY <6>2 DEF Op
        <5>5. CASE DispatchFails(t) \/ Save(t)
          BY <5>5 DEF DispatchFails, Save
        <5> QED
          BY <1>2, <5>1, <5>2, <5>3, <5>4, <5>5 DEF Turn, Leaves
      <4>2. ledger'[Op(u)] = ledger[Op(u)]
        BY <1>0, <2>1, <3>3, <4>1
      <4> QED
        BY <1>1, <3>1, <3>3, <4>2 DEF TasksAndLedger, Dispatches, Records
    <3>4. CASE ~Records(u) /\ ~Dispatches(u)
      BY <3>1, <3>4 DEF Dispatches, Records
    <3> QED
      BY <3>2, <3>3, <3>4
  <2>3. Ok(t)'
    <3>1. CASE Before(t) \/ Leaves(t)
      BY <3>1, BeforeFrame, LeavesFrame DEF Dispatches, Records, Handling
    <3>2. CASE Open(t)
      BY <3>2, OpenFrame DEF Open, Dispatches, Records, Typed, TypeOK
    <3>3. CASE Dispatch(t)
      <4>1. task[t].pc = "dispatch" /\ task'[t].pc = "call" /\ Op(t)' = Op(t) /\ UNCHANGED ledger
        BY <3>3, GotoMoves DEF Dispatch, At
      <4> QED
        BY <4>1 DEF TasksAndLedger, Dispatches, Records
    <3>4. CASE Hear(t) \/ CallLost(t)
      <4>1. task[t].pc = "call" /\ Op(t)' = Op(t) /\ UNCHANGED ledger
        BY <3>4, HandlesFrame DEF Handles, Hear, CallLost, durable
      <4>2. task'[t].pc = "answer"
        BY <3>4 DEF Hear, CallLost, Typed, TypeOK, DeliveryType
      <4> QED
        BY <4>1, <4>2 DEF TasksAndLedger, Dispatches, Records
    <3>7. CASE Answer(t)
      <4>1. /\ task[t].pc = "answer" /\ task'[t].pc = "mark" /\ Op(t)' = Op(t)
            /\ UNCHANGED ledger
        BY <3>7, GotoMoves DEF Answer, Woken
      <4> QED
        BY <4>1 DEF TasksAndLedger, Dispatches, Records
    <3>5. CASE Mark(t)
      <4>1. /\ task'[t].pc = "settle" /\ Op(t)' = Op(t) /\ running' = t
            /\ task'[t].answer = task[t].answer
        BY <3>5, GotoMoves DEF Mark, Goto
      <4>2. Op(t) \in Opp
        BY <3>5, HandlesFrame DEF Handles
      <4>3. ledger'[Op(t)] = Outcome(task[t].answer)
        BY <3>5, <4>2 DEF Mark, Typed, TypeOK
      <4>4. Outcome(task'[t].answer) = Outcome(task[t].answer)
        BY <4>1
      <4>5. Outcome(task[t].answer)' = Outcome(task[t].answer)
        BY <4>1 DEF Outcome
      <4> QED
        BY <4>1, <4>3, <4>5 DEF Dispatches, Records
    <3>6. CASE Settle(t) \/ Book(t)
      <4>1. /\ task[t].pc \in {"settle", "book"} /\ task'[t].pc \in {"book", "save"}
            /\ Op(t)' = Op(t) /\ running' = t
            /\ task'[t].answer = task[t].answer /\ UNCHANGED ledger
        BY <3>6, GotoMoves DEF Settle, Book, Goto, At
      <4>2. Outcome(task[t].answer)' = Outcome(task[t].answer)
        BY <4>1 DEF Outcome
      <4> QED
        BY <4>1, <4>2 DEF TasksAndLedger, Dispatches, Records
    <3> QED
      BY <1>2, <3>1, <3>2, <3>3, <3>4, <3>5, <3>6, <3>7 DEF Turn, Handles
  <2> QED
    BY <2>2, <2>3 DEF TasksAndLedger
<1>3. CASE Asks
  <2>1. UNCHANGED task
    BY <1>3, AsksFrame
  <2>2. ASSUME NEW u \in Task PROVE Ok(u)'
    <3>1. ASSUME NEW r \in Pass, StartPass(r) \/ StartLookups(r) \/ EndPass(r) PROVE Ok(u)'
      BY <2>1, <3>1 DEF StartPass, StartLookups, EndPass, durable, TasksAndLedger, Dispatches,
                        Records, Op, Outcome
    <3>2. ASSUME NEW r \in Pass, NEW o \in Opp, Lookup(r, o) PROVE Ok(u)'
      BY <2>1, <3>2 DEF Lookup, durable, TasksAndLedger, Dispatches, Records, Op, Outcome
    <3>3. ASSUME NEW o \in Opp, \/ NotPlaced(o)
                                \/ \E r \in Pass : Resolve(r, o)
          PROVE  Ok(u)'
      <4>1. ledger[o] = "UNKNOWN_AMBIGUOUS" /\ running = Nobody
        BY <3>3 DEF NotPlaced, Resolve, PassesAndLedger
      <4>2. ~Records(u)
        BY <4>1, NobodyAssumption DEF TasksAndLedger
      <4>3. Dispatches(u) => ledger'[Op(u)] = ledger[Op(u)]
        <5>1. Dispatches(u) => Op(u) # o
          BY <4>1 DEF TasksAndLedger
        <5> QED
          BY <1>0, <3>3, <5>1 DEF NotPlaced, Resolve, Typed, TypeOK
      <4> QED
        BY <2>1, <4>2, <4>3 DEF TasksAndLedger, Dispatches, Records, Op
    <3> QED
      BY <1>3, <3>1, <3>2, <3>3 DEF Asks
  <2> QED
    BY <2>2 DEF TasksAndLedger
<1>4. CASE Outside \/ UNCHANGED vars
  <2>1. UNCHANGED <<task, ledger, running>>
    BY <1>4 DEF Outside, Poll, VenueTakes, VenueMoves, vars, durable
  <2> QED
    BY <2>1 DEF TasksAndLedger, Dispatches, Records, Op, Outcome
<1>5. CASE Crash
  BY <1>5 DEF Crash, Resting, TasksAndLedger, Dispatches, Records
<1> QED
  BY <1>2, <1>3, <1>4, <1>5, StepCases DEF Turn

LEMMA RowsAndLedgerStep ==
  ASSUME Typed, OneDelivery, TasksAndLedger, RowsAndLedger, PassesAndLedger, [Next]_vars
  PROVE  RowsAndLedger'
<1>1. CASE \A o \in Opp : /\ "PENDING" \in rows'[o] => "PENDING" \in rows[o]
                          /\ ledger[o] = "SUBMITTED_UNCONFIRMED" => ledger'[o] = ledger[o]
  BY <1>1 DEF RowsAndLedger
<1>2. ASSUME NEW t \in Task, Before(t) PROVE RowsAndLedger'
  BY <1>1, <1>2, BeforeFrame DEF SameFlags
<1>3. ASSUME NEW t \in Task, Open(t) PROVE RowsAndLedger'
  BY <1>1, <1>3, OpenFrame DEF Open, Typed, TypeOK
<1>4. ASSUME NEW t \in Task, Mark(t) PROVE RowsAndLedger'
  <2>1. ledger[Op(t)] = "PENDING_SUBMISSION" /\ UNCHANGED rows
    BY <1>4 DEF Mark, At, TasksAndLedger, Dispatches
  <2>2. \A o \in Opp : o # Op(t) => ledger'[o] = ledger[o]
    BY <1>4 DEF Mark, Typed, TypeOK
  <2> QED
    BY <1>1, <2>1, <2>2
<1>5. ASSUME NEW t \in Task, Handles(t), ~Mark(t) PROVE RowsAndLedger'
  <2>1. UNCHANGED <<rows, ledger>>
    BY <1>5 DEF Handles, Dispatch, Hear, CallLost, Answer, Settle, Book, durable
  <2> QED
    BY <2>1 DEF RowsAndLedger
<1>6. ASSUME NEW t \in Task, Duplicate(t) PROVE RowsAndLedger'
  <2>1. \A o \in Opp : ledger[o] = "SUBMITTED_UNCONFIRMED" => ledger'[o] = ledger[o]
    BY <1>6 DEF Duplicate, Typed, TypeOK
  <2> QED
    BY <1>1, <1>6, <2>1 DEF Duplicate
<1>7. ASSUME NEW t \in Task, DispatchFails(t) PROVE RowsAndLedger'
  <2>1. SameFlags
    BY <1>7, LeavesFrame, RowFlags DEF Leaves, DispatchFails, RowState
  <2> QED
    BY <1>1, <1>7, <2>1 DEF DispatchFails, SameFlags
<1>8. ASSUME NEW t \in Task, Save(t) PROVE RowsAndLedger'
  <2>1. /\ Op(t) \in Opp /\ task[t].pc = "save" /\ UNCHANGED ledger
        /\ \A o \in Opp \ {Op(t)} : rows'[o] = rows[o]
        /\ rows'[Op(t)] = rows[Op(t)] \cup
             {IF task[t].answer = "LOST" THEN "ERROR" ELSE task[t].answer}
    BY <1>8, LeavesFrame DEF Leaves, Save, At, Row, Typed, TypeOK
  <2>2. "PENDING" \in rows'[Op(t)] =>
          "PENDING" \in rows[Op(t)] \/ ledger[Op(t)] = "SUBMITTED_UNCONFIRMED"
    BY <2>1 DEF TasksAndLedger, Records, Outcome
  <2> QED
    BY <2>1, <2>2 DEF RowsAndLedger
<1>9. CASE Asks
  <2>1. UNCHANGED rows
    BY <1>9, AsksFrame
  <2>2. \A o \in Opp : ledger[o] = "SUBMITTED_UNCONFIRMED" => ledger'[o] = ledger[o]
    <3>1. CASE UNCHANGED ledger
      BY <3>1
    <3>2. ASSUME NEW o \in Opp, NotPlaced(o) \/ \E r \in Pass : Resolve(r, o)
          PROVE  \A p \in Opp : ledger[p] = "SUBMITTED_UNCONFIRMED" => ledger'[p] = ledger[p]
      <4>1. ledger[o] = "UNKNOWN_AMBIGUOUS"
        BY <3>2 DEF NotPlaced, Resolve, PassesAndLedger
      <4> QED
        BY <3>2, <4>1 DEF NotPlaced, Resolve, Typed, TypeOK
    <3> QED
      BY <1>9, <3>1, <3>2 DEF Asks, StartPass, StartLookups, EndPass, Lookup, durable
  <2> QED
    BY <1>1, <2>1, <2>2
<1>10. ASSUME NEW r \in Pass, NEW o \in Opp, Poll(r, o) PROVE RowsAndLedger'
  <2>1. \A p \in Opp : "PENDING" \in rows'[p] => "PENDING" \in rows[p]
    BY <1>10 DEF Poll, Closed, Typed, TypeOK
  <2> QED
    BY <1>1, <1>10, <2>1 DEF Poll
<1>11. CASE (\E o \in Opp : VenueTakes(o) \/ VenueMoves(o)) \/ Crash \/ UNCHANGED vars
  <2>1. UNCHANGED <<rows, ledger>>
    BY <1>11 DEF VenueTakes, VenueMoves, Crash, durable, vars
  <2> QED
    BY <2>1 DEF RowsAndLedger
<1> QED
  BY <1>2, <1>3, <1>4, <1>5, <1>6, <1>7, <1>8, <1>9, <1>10, <1>11, StepCases
     DEF Outside, Leaves

LEMMA PassesAndLedgerStep ==
  ASSUME Typed, Undisturbed, TasksAndLedger, PassesAndLedger, [Next]_vars
  PROVE  PassesAndLedger'
<1> DEFINE Ok(r) ==
      /\ pass[r].doing # "idle" => r \in env.may.passes
      /\ pass[r].doing # "lookup" => pass[r].asked = {}
      /\ pass[r].asked \cap pass[r].todo = {}
      /\ \A o \in pass[r].asked : ledger[o] = "UNKNOWN_AMBIGUOUS"
      /\ pass[r].doing = "lookup" =>
           \A o \in pass[r].todo : ledger[o] = "UNKNOWN_AMBIGUOUS"
<1>0. /\ pass \in [Pass -> PassType]
      /\ \A r \in Pass : pass[r].todo \in SUBSET Opp /\ pass[r].asked \in SUBSET Opp
  BY DEF Typed, TypeOK, PassType
<1>1. CASE /\ UNCHANGED pass /\ env'.may = env.may
           /\ \A o \in Opp : ledger[o] = "UNKNOWN_AMBIGUOUS" => ledger'[o] = ledger[o]
  BY <1>0, <1>1 DEF PassesAndLedger
<1>2. ASSUME NEW t \in Task, Turn(t) PROVE PassesAndLedger'
  <2>1. UNCHANGED pass /\ env'.may = env.may
    BY <1>2, TurnFrame
  <2>2. \A o \in Opp : ledger[o] = "UNKNOWN_AMBIGUOUS" => ledger'[o] = ledger[o]
    <3>1. CASE Mark(t)
      BY <3>1 DEF Mark, At, TasksAndLedger, Dispatches, Typed, TypeOK
    <3>2. CASE Open(t)
      BY <3>2 DEF Open, IsNew, Typed, TypeOK
    <3>3. CASE Duplicate(t)
      BY <3>3 DEF Duplicate, Typed, TypeOK
    <3>4. CASE Before(t)
      BY <3>4, BeforeFrame
    <3>5. CASE UNCHANGED ledger
      BY <3>5
    <3> QED
      BY <1>2, <3>1, <3>2, <3>3, <3>4, <3>5
         DEF Turn, Handles, Leaves, Dispatch, Hear, CallLost, Answer, Settle, Book, DispatchFails,
             Save, durable
  <2> QED
    BY <1>1, <2>1, <2>2
<1>3. ASSUME NEW q \in Pass, NEW r \in Pass,
             StartPass(q) \/ StartLookups(q) \/ EndPass(q)
      PROVE  Ok(r)'
  <2>1. UNCHANGED <<ledger, env>>
    BY <1>3 DEF StartPass, StartLookups, EndPass, durable
  <2>2. CASE r # q
    <3>1. pass'[r] = pass[r]
      BY <1>0, <1>3, <2>2 DEF StartPass, StartLookups, EndPass
    <3> QED
      BY <2>1, <3>1 DEF PassesAndLedger
  <2>3. CASE r = q /\ StartPass(q)
    BY <1>0, <2>1, <2>3 DEF StartPass, Waiting
  <2>4. CASE r = q /\ StartLookups(q)
    BY <1>0, <2>1, <2>4 DEF StartLookups, Ambiguous, PassesAndLedger, PassType
  <2>5. CASE r = q /\ EndPass(q)
    BY <1>0, <2>1, <2>5 DEF EndPass, Waiting
  <2> QED
    BY <1>3, <2>2, <2>3, <2>4, <2>5
<1>4. ASSUME NEW q \in Pass, NEW r \in Pass, NEW o \in Opp, Lookup(q, o)
      PROVE  Ok(r)'
  <2>1. UNCHANGED <<ledger, env>>
    BY <1>4 DEF Lookup, durable
  <2>2. CASE r # q
    BY <1>0, <1>4, <2>1, <2>2 DEF Lookup, PassesAndLedger
  <2>3. CASE r = q
    <3>1. /\ pass'[q].doing = "lookup" /\ pass[q].doing = "lookup" /\ pass'[q].asked = {o}
          /\ pass'[q].todo = pass[q].todo \ {o} /\ o \in pass[q].todo
      BY <1>0, <1>4 DEF Lookup, PassType
    <3> QED
      BY <2>1, <2>3, <3>1 DEF PassesAndLedger
  <2> QED
    BY <2>2, <2>3
<1>5. ASSUME NEW q \in Pass, NEW r \in Pass, NEW o \in Opp, Resolve(q, o)
      PROVE  Ok(r)'
  <2>1. /\ pass[q].doing = "lookup" /\ pass[q].asked = {o} /\ UNCHANGED env
        /\ \A p \in Opp : p # o => ledger'[p] = ledger[p]
    BY <1>5 DEF Resolve, Typed, TypeOK
  <2>2. CASE r # q
    <3>1. pass'[r] = pass[r]
      BY <1>0, <1>5, <2>2 DEF Resolve
    <3>2. pass[r].doing = "idle"
      BY <2>1, <2>2 DEF PassesAndLedger, Undisturbed
    <3> QED
      BY <2>1, <3>1, <3>2 DEF PassesAndLedger
  <2>3. CASE r = q
    <3>1. /\ pass'[q].doing = "lookup" /\ pass'[q].asked = {} /\ pass'[q].todo = pass[q].todo
      BY <1>0, <1>5, <2>1 DEF Resolve, PassType
    <3> QED
      BY <1>0, <2>1, <2>3, <3>1 DEF PassesAndLedger
  <2> QED
    BY <2>2, <2>3
<1>6. ASSUME NEW o \in Opp, NotPlaced(o) PROVE PassesAndLedger'
  <2>1. env.may.passes = {} /\ UNCHANGED <<pass, env>>
    BY <1>6 DEF NotPlaced, Undisturbed
  <2> QED
    BY <2>1 DEF PassesAndLedger
<1>7. CASE Asks
  <2>1. CASE \E o \in Opp : NotPlaced(o)
    BY <1>6, <2>1
  <2>2. CASE \A r \in Pass : Ok(r)'
    BY <2>2 DEF PassesAndLedger
  <2> QED
    BY <1>3, <1>4, <1>5, <1>7, <2>1, <2>2 DEF Asks
<1>8. ASSUME NEW q \in Pass, NEW o \in Opp, Poll(q, o) PROVE PassesAndLedger'
  <2>1. /\ UNCHANGED <<ledger, env>> /\ \A r \in Pass \ {q} : pass'[r] = pass[r]
        /\ pass[q].doing = "poll" /\ pass'[q].doing = "poll"
        /\ pass'[q].asked = pass[q].asked
    BY <1>0, <1>8 DEF Poll, PassType
  <2>2. ASSUME NEW r \in Pass PROVE Ok(r)'
    <3>1. CASE r = q
      BY <2>1, <3>1 DEF PassesAndLedger
    <3>2. CASE r # q
      BY <2>1, <3>2 DEF PassesAndLedger
    <3> QED
      BY <3>1, <3>2
  <2> QED
    BY <2>2 DEF PassesAndLedger
<1>9. CASE (\E o \in Opp : VenueTakes(o) \/ VenueMoves(o)) \/ UNCHANGED vars
  <2>1. UNCHANGED <<pass, ledger, env>>
    BY <1>9 DEF VenueTakes, VenueMoves, durable, vars
  <2> QED
    BY <1>1, <2>1
<1>10. CASE Crash
  BY <1>10 DEF Crash, Waiting, PassesAndLedger
<1> QED
  BY <1>2, <1>7, <1>8, <1>9, <1>10, StepCases DEF Turn, Outside

LEMMA FreedOwn ==
  ASSUME Typed, NEW o \in Opp, owed[o] > 0, Release(o)
  PROVE  owed' = [owed EXCEPT ![o] = @ - 1]
<1>1. Freed(o) = {[owed EXCEPT ![p] = @ - 1] : p \in {o}}
  BY DEF Freed
<1> QED
  BY <1>1 DEF Release

\* No aborted opportunity is in the hands of a delivery.
InHand == \A t \in Task : task[t].pc \in AtAccount => ~Aborted(Op(t))

\* One delivery at a time: whoever else is at an account is elsewhere.
LEMMA Elsewhere ==
  ASSUME Typed, OneDelivery, NEW t \in Task, NEW u \in Task \ {t},
         task[t].pc # "idle"
  PROVE  Op(u) # Op(t)
<1>1. task[t].sig \in Signal
  BY DEF Typed, Placed
<1>2. task[u].sig # task[t].sig
  BY <1>1, NobodyAssumption DEF OneDelivery
<1> QED
  BY <1>2 DEF Op

LEMMA ReservedMoves ==
  ASSUME NEW t \in Task, OthersRest(t), NEW o, HasOwn(t)' => HasOwn(t) /\ Op(t)' = Op(t),
         Reserved(o)'
  PROVE  Reserved(o)
<1>1. PICK u \in Task : HasOwn(u)' /\ Op(u)' = o
  BY DEF Reserved
<1>2. HasOwn(u) /\ Op(u) = o
  BY <1>1 DEF OthersRest, HasOwn, Op
<1> QED
  BY <1>2 DEF Reserved

\* A task that neither begins nor ends to owe for an opportunity.
LEMMA ObligedMoves ==
  ASSUME NEW t \in Task, OthersRest(t), env'.may = env.may,
         NEW o, ledger'[o] = ledger[o], "PENDING" \in rows'[o] => "PENDING" \in rows[o],
         Dispatches(t) /\ Op(t) = o <=> Dispatches(t)' /\ Op(t)' = o,
         Settles(t)' /\ Op(t)' = o => Settles(t) /\ Op(t) = o,
         Obliged(o)'
  PROVE  Obliged(o)
<1>1. \A u \in Task \ {t} : task'[u] = task[u] /\ Op(u)' = Op(u)
  BY DEF OthersRest, Op
<1>2. Aborted(o) => Aborted(o)'
  BY <1>1 DEF Aborted, Dispatches
<1>3. ASSUME NEW u \in Task, Op(u)' = o, Settles(u)'
      PROVE  Op(u) = o /\ Settles(u)
  <2>1. CASE u = t
    BY <1>3, <2>1
  <2>2. CASE u # t
    BY <1>1, <1>3, <2>2 DEF Settles, Records, Holds
  <2> QED
    BY <2>1, <2>2
<1> QED
  BY <1>2, <1>3 DEF Obliged

\* A step never takes more capital away than it ends to need.
Balanced == \A o \in Opp : owed'[o] + Needed(o) >= owed[o] + Needed(o)'

LEMMA OwingAt ==
  ASSUME Typed, Owing, NEW o \in Opp,
         \A p \in Opp \ {o} : /\ owed'[p] = owed[p]
                              /\ Obliged(p)' => Obliged(p)
                              /\ Reserved(p)' => Reserved(p),
         owed'[o] + Needed(o) >= owed[o] + Needed(o)'
  PROVE  Balanced
<1>1. ASSUME NEW p \in Opp \ {o} PROVE owed'[p] + Needed(p) >= owed[p] + Needed(p)'
  <2>1. owed[p] \in Nat
    BY DEF Typed, TypeOK
  <2> QED
    BY <2>1 DEF Needed
<1> QED
  BY <1>1 DEF Balanced

LEMMA OwingKept ==
  ASSUME Typed, Owing, UNCHANGED owed,
         \A o \in Opp : (Obliged(o)' => Obliged(o)) /\ (Reserved(o)' => Reserved(o))
  PROVE  Balanced
<1>1. ASSUME NEW p \in Opp PROVE owed'[p] + Needed(p) >= owed[p] + Needed(p)'
  <2>1. owed[p] \in Nat
    BY DEF Typed, TypeOK
  <2> QED
    BY <2>1 DEF Needed
<1> QED
  BY <1>1 DEF Balanced

\* The task gives back the capital it reserved itself.
LEMMA OwnReleased ==
  ASSUME Typed, OneDelivery, Owing, NEW t \in Task, HasOwn(t), NEW o \in Opp, Op(t) = o,
         OthersRest(t), ~HasOwn(t)', Release(o),
         \A p \in Opp : Obliged(p)' => Obliged(p)
  PROVE  Balanced
<1>1. Reserved(o)
  BY DEF Reserved
<1>2. owed[o] \in Nat /\ owed[o] >= Needed(o) /\ Needed(o) \in {1, 2}
  BY <1>1 DEF Needed, Owing, Typed, TypeOK
<1>3. owed[o] > 0
  BY <1>2
<1>4. owed' = [owed EXCEPT ![o] = @ - 1]
  BY <1>3, FreedOwn
<1>5. owed'[o] = owed[o] - 1 /\ \A p \in Opp \ {o} : owed'[p] = owed[p]
  BY <1>4 DEF Typed, TypeOK
<1>6. ~Reserved(o)'
  <2>1. \A u \in Task \ {t} : Op(u) # o
    BY Elsewhere DEF HasOwn
  <2>2. \A u \in Task \ {t} : Op(u)' # o
    BY <2>1 DEF OthersRest, Op
  <2> QED
    BY <2>2 DEF Reserved
<1>7. \A p \in Opp : Reserved(p)' => Reserved(p)
  BY ReservedMoves
<1>8. owed'[o] + Needed(o) >= owed[o] + Needed(o)'
  <2>1. Obliged(o)' => Obliged(o)
    OBVIOUS
  <2> QED
    BY <1>1, <1>2, <1>5, <1>6, <2>1 DEF Needed
<1> QED
  BY <1>5, <1>7, <1>8, OwingAt

LEMMA OwingBefore ==
  ASSUME Typed, OneDelivery, Owing, NEW t \in Task, Before(t)
  PROVE  Balanced
<1>0. task \in [Task -> DeliveryType] /\ task[t] \in DeliveryType
  BY DEF Typed, TypeOK
<1>1. OthersRest(t)
  BY BeforeFrame
<1>2. ASSUME NEW o \in Opp, Obliged(o)' PROVE Obliged(o)
  <2>1. /\ ~Dispatches(t) /\ ~Settles(t) /\ ~Dispatches(t)' /\ ~Settles(t)'
        /\ UNCHANGED ledger /\ env'.may = env.may
        /\ "PENDING" \in rows'[o] => "PENDING" \in rows[o]
    BY BeforeFrame DEF Dispatches, Records, Settles, Handling, SameFlags
  <2> QED
    BY <1>1, <1>2, <2>1, ObligedMoves
<1>3. CASE UNCHANGED owed /\ (HasOwn(t)' => HasOwn(t) /\ Op(t)' = Op(t))
  BY <1>1, <1>2, <1>3, OwingKept, ReservedMoves
<1>4. CASE \/ (\E s \in Signal : Deliver(t, s)) \/ Gate(t) \/ Admit(t) \/ Exclude(t) \/ Claim(t)
           \/ Pick(t) \/ Screen(t) \/ Conclude(t) \/ OverCeiling(t) \/ Mismatch(t)
  <2>1. UNCHANGED owed
    BY <1>4 DEF Deliver, Gate, Admit, Exclude, Claim, Pick, Screen, Conclude, OverCeiling,
                Mismatch, durable
  <2>2. ~HasOwn(t)'
    <3>1. CASE \E s \in Signal : Deliver(t, s)
      BY <3>1, DeliverMoves DEF HasOwn
    <3>2. CASE Gate(t)
      BY <1>0, <3>2 DEF Gate, Woken, HasOwn, DeliveryType
    <3>3. CASE Admit(t)
      BY <1>0, <3>3 DEF Admit, HasOwn, DeliveryType
    <3>4. CASE Pick(t)
      <4>1. PICK a \in Account :
              task' = [task EXCEPT ![t].pc = "reserve", ![t].at = a, ![t].left = @ \ {a}]
        BY <3>4 DEF Pick
      <4> QED
        BY <1>0, <4>1 DEF HasOwn, DeliveryType
    <3>5. CASE Screen(t)
      BY <1>0, <3>5 DEF Screen, At, HasOwn, DeliveryType
    <3>6. CASE Exclude(t) \/ Conclude(t) \/ Mismatch(t)
      BY <1>0, <3>6 DEF Exclude, Conclude, Mismatch, Resting, HasOwn
    <3>7. CASE Claim(t)
      BY <1>0, <3>7 DEF Claim, Resting, HasOwn, DeliveryType
    <3>8. CASE OverCeiling(t)
      BY <3>8, GotoMoves DEF OverCeiling, HasOwn
    <3> QED
      BY <1>4, <3>1, <3>2, <3>3, <3>4, <3>5, <3>6, <3>7, <3>8
  <2> QED
    BY <1>3, <2>1, <2>2
<1>5. CASE Resources(t)
  BY <1>3, <1>5, GotoMoves DEF Resources, Woken, HasOwn
<1>6. CASE Reserve(t)
  <2>1. PICK o \in Opp : o = Op(t)
    BY <1>6, OppOfTask DEF Reserve, Woken, AtAccount, Typed
  <2>2. Op(t)' = o
    BY <1>6, <2>1, GotoMoves DEF Reserve
  <2>3. owed' = [owed EXCEPT ![o] = @ + 1]
    BY <1>6, <2>1 DEF Reserve
  <2>4. \A p \in Opp \ {o} : Reserved(p)' => Reserved(p)
    BY <1>1, <2>1, <2>2 DEF Reserved, HasOwn, OthersRest, Op
  <2>5. owed[o] \in Nat /\ owed[o] >= Needed(o)
    BY <2>1 DEF Owing, Typed, TypeOK
  <2>6. owed'[o] = owed[o] + 1 /\ \A p \in Opp \ {o} : owed'[p] = owed[p]
    BY <2>1, <2>3 DEF Typed, TypeOK
  <2>7. Obliged(o)' => Obliged(o)
    BY <1>2, <2>1
  <2>8. owed'[o] + Needed(o) >= owed[o] + Needed(o)'
    BY <2>5, <2>6, <2>7 DEF Needed
  <2> QED
    BY <1>2, <2>4, <2>6, <2>8, OwingAt
<1>7. CASE Bind(t)
  <2>1. HasOwn(t) /\ Op(t) \in Opp
    BY <1>7, OppOfTask DEF Bind, At, HasOwn, AtAccount, Typed
  <2>2. CASE Bindable(task[t].sig, task[t].at)
    <3>1. UNCHANGED owed
      BY <1>7, <2>2 DEF Bind
    <3>2. Op(t)' = Op(t)
      BY <1>0, <1>7, <2>2 DEF Bind, Op, DeliveryType
    <3> QED
      BY <1>3, <2>1, <3>1, <3>2
  <2>3. CASE ~Bindable(task[t].sig, task[t].at)
    <3>1. Release(Op(t)) /\ task'[t].pc = "pick"
      BY <1>7, <2>3, GotoMoves DEF Bind
    <3> QED
      BY <1>1, <1>2, <2>1, <3>1, OwnReleased DEF HasOwn
  <2> QED
    BY <2>2, <2>3
<1>8. CASE Blocked(t)
  <2>1. HasOwn(t) /\ Op(t) \in Opp
    BY <1>8, OppOfTask DEF Blocked, Woken, HasOwn, AtAccount, Typed
  <2>2. Release(Op(t)) /\ task'[t].pc = "pick"
    BY <1>8, GotoMoves DEF Blocked
  <2> QED
    BY <1>1, <1>2, <2>1, <2>2, OwnReleased DEF HasOwn
<1> QED
  BY <1>4, <1>5, <1>6, <1>7, <1>8 DEF Before

\* Whoever learned the outcome releases the capital.
LEMMA OwedReleased ==
  ASSUME Typed, Owing, NEW o \in Opp, Obliged(o), Release(o), ~Obliged(o)',
         \A p \in Opp : Reserved(p)' => Reserved(p),
         \A p \in Opp \ {o} : Obliged(p)' => Obliged(p)
  PROVE  Balanced
<1>1. owed[o] \in Nat /\ owed[o] >= Needed(o) /\ Needed(o) \in {1, 2}
  BY DEF Needed, Owing, Typed, TypeOK
<1>2. owed[o] > 0
  BY <1>1
<1>3. owed' = [owed EXCEPT ![o] = @ - 1]
  BY <1>2, FreedOwn
<1>4. owed'[o] = owed[o] - 1 /\ \A p \in Opp \ {o} : owed'[p] = owed[p]
  BY <1>3 DEF Typed, TypeOK
<1>5. owed'[o] + Needed(o) >= owed[o] + Needed(o)'
  <2>1. Reserved(o)' => Reserved(o)
    OBVIOUS
  <2> QED
    BY <1>1, <1>4, <2>1 DEF Needed
<1> QED
  BY <1>4, <1>5, OwingAt

LEMMA OwingOpen ==
  ASSUME Typed, OneDelivery, Owing, NEW t \in Task, Open(t)
  PROVE  Balanced
<1>1. PICK o \in Opp : o = Op(t) /\ o = Op(t)'
  BY OpenFrame
<1>2. /\ OthersRest(t) /\ task[t].pc = "open" /\ task'[t].pc = "dispatch"
      /\ UNCHANGED <<owed, rows, env>>
  BY OpenFrame DEF Open
<1>3. HasOwn(t) /\ ~HasOwn(t)' /\ ~Settles(t) /\ ~Settles(t)'
  BY <1>2 DEF HasOwn, Settles, Records
<1>4. \A p \in Opp : Reserved(p)' => Reserved(p)
  BY <1>2, <1>3, ReservedMoves
<1>5. ~Reserved(o)'
  <2>1. \A u \in Task \ {t} : Op(u) # o
    BY <1>1, <1>2, Elsewhere
  <2>2. \A u \in Task \ {t} : Op(u)' # o
    BY <1>2, <2>1 DEF OthersRest, Op
  <2> QED
    BY <1>3, <2>2 DEF Reserved
<1>6. ASSUME NEW p \in Opp \ {o}, Obliged(p)' PROVE Obliged(p)
  <2>1. ledger'[p] = ledger[p]
    BY <1>1, TurnFrame DEF Turn
  <2> QED
    BY <1>1, <1>2, <1>3, <1>6, <2>1, ObligedMoves
<1>7. owed'[o] + Needed(o) >= owed[o] + Needed(o)'
  <2>1. Reserved(o)
    BY <1>1, <1>3 DEF Reserved
  <2>2. owed[o] \in Nat /\ owed[o] >= Needed(o)
    BY DEF Owing, Typed, TypeOK
  <2> QED
    BY <1>2, <1>5, <2>1, <2>2 DEF Needed
<1> QED
  BY <1>2, <1>4, <1>6, <1>7, OwingAt

LEMMA OwingHandles ==
  ASSUME Typed, Owned, OneDelivery, TasksAndLedger, RowsAndLedger, Owing,
         NEW t \in Task, Handles(t)
  PROVE  Balanced
<1>1. PICK o \in Opp : o = Op(t) /\ o = Op(t)'
  BY HandlesFrame
<1>2. /\ OthersRest(t) /\ UNCHANGED rows /\ env'.may = env.may
      /\ task[t].pc \in Handling /\ task'[t].pc \in Handling
  BY HandlesFrame
<1>3. \A p \in Opp : Reserved(p)' => Reserved(p)
  BY <1>2, ReservedMoves DEF HasOwn, Handling
<1>4. ASSUME NEW p \in Opp \ {o}, Obliged(p)' PROVE Obliged(p)
  <2>1. ledger'[p] = ledger[p]
    BY <1>1, TurnFrame DEF Turn
  <2> QED
    BY <1>1, <1>2, <1>4, <2>1, ObligedMoves
<1>5. CASE UNCHANGED owed /\ Obliged(o)
  BY <1>3, <1>4, <1>5, OwingKept
<1>6. Dispatches(t) => Obliged(o)
  BY <1>1 DEF TasksAndLedger, Aborted, Obliged
<1>7. CASE Dispatch(t) \/ Hear(t) \/ CallLost(t) \/ Answer(t) \/ Mark(t)
  <2>1. UNCHANGED owed
    BY <1>7 DEF Dispatch, Hear, CallLost, Answer, Mark, durable
  <2>2. Dispatches(t)
    BY <1>7 DEF Dispatch, Hear, CallLost, Answer, Mark, At, Woken, Dispatches
  <2> QED
    BY <1>5, <1>6, <2>1, <2>2
<1>8. CASE Settle(t)
  <2>1. /\ task[t].pc = "settle" /\ task'[t].pc = "book" /\ UNCHANGED ledger
        /\ task'[t].answer = task[t].answer
    BY <1>8, GotoMoves DEF Settle, At
  <2>2. Obliged(o)
    BY <1>1, <2>1 DEF Obliged, Settles
  <2>3. CASE Holds(task[t].answer)
    BY <1>5, <1>8, <2>2, <2>3 DEF Settle
  <2>4. CASE ~Holds(task[t].answer)
    <3>1. Release(o)
      BY <1>1, <1>8, <2>4 DEF Settle
    <3>2. ledger[o] \in {"CONFIRMED", "REJECTED_CONFIRMED"}
      <4>1. task[t].answer \in {"FILLED", "REJECTED"}
        BY <2>1, <2>4 DEF Typed, TypeOK, Placed, DeliveryType, AnswerState, Answered, Holds
      <4> QED
        BY <1>1, <2>1, <4>1 DEF TasksAndLedger, Records, Outcome
    <3>3. "PENDING" \notin rows[o]
      BY <3>2 DEF RowsAndLedger
    <3>4. ~Settles(t)'
      BY <2>1, <2>4 DEF Settles, Holds
    <3>5. \A u \in Task \ {t} : Op(u)' # o
      <4>1. \A u \in Task \ {t} : Op(u) # o
        BY <1>1, <2>1, Elsewhere
      <4> QED
        BY <1>2, <4>1 DEF OthersRest, Op
    <3>6. ~Obliged(o)'
      BY <1>2, <2>1, <3>2, <3>3, <3>4, <3>5 DEF Obliged
    <3> QED
      BY <1>3, <1>4, <2>2, <3>1, <3>6, OwedReleased
  <2> QED
    BY <2>3, <2>4
<1>9. CASE Book(t)
  <2>1. /\ task[t].pc = "book" /\ task'[t].pc = "save" /\ UNCHANGED <<ledger, owed>>
        /\ task'[t].answer = task[t].answer
    BY <1>9, GotoMoves DEF Book, At
  <2>2. ~Dispatches(t) /\ ~Dispatches(t)' /\ (Settles(t)' => Settles(t))
    BY <2>1 DEF Dispatches, Settles, Records, Holds
  <2>3. \A p \in Opp : Obliged(p)' => Obliged(p)
    BY <1>1, <1>2, <2>1, <2>2, ObligedMoves
  <2> QED
    BY <1>3, <2>1, <2>3, OwingKept
<1> QED
  BY <1>7, <1>8, <1>9 DEF Handles

LEMMA OwingLeaves ==
  ASSUME Typed, OneDelivery, TasksAndLedger, RowsAndLedger, InHand, Owing,
         NEW t \in Task, Leaves(t)
  PROVE  Balanced
<1>1. PICK o \in Opp : o = Op(t)
  BY LeavesFrame
<1>2. /\ OthersRest(t) /\ env'.may = env.may /\ task'[t].pc = "pick"
  BY LeavesFrame
<1>3. ~HasOwn(t)' /\ ~Settles(t)' /\ ~Dispatches(t)'
  BY <1>2 DEF HasOwn, Settles, Records, Dispatches
<1>4. \A p \in Opp : Reserved(p)' => Reserved(p)
  BY <1>2, <1>3, ReservedMoves
<1>5. ASSUME NEW p \in Opp \ {o}, Obliged(p)' PROVE Obliged(p)
  <2>1. ledger'[p] = ledger[p]
    BY <1>1, TurnFrame DEF Turn
  <2>2. rows'[p] = rows[p]
    BY <1>1 DEF Leaves, Duplicate, DispatchFails, Save, Row, Typed, TypeOK
  <2> QED
    BY <1>1, <1>2, <1>3, <1>5, <2>1, <2>2, ObligedMoves
<1>6. \A u \in Task \ {t} : task[t].pc # "idle" => Op(u) # o
  BY <1>1, Elsewhere
<1>7. CASE Duplicate(t)
  <2>1. /\ task[t].pc = "open" /\ HasOwn(t) /\ ~Dispatches(t) /\ Release(o) /\ UNCHANGED rows
    BY <1>1, <1>7 DEF Duplicate, At, HasOwn, Dispatches
  <2>2. Obliged(o)' => Obliged(o)
    <3>1. ledger'[o] = IF ledger[o] = "PENDING_SUBMISSION" THEN "UNKNOWN_AMBIGUOUS"
                       ELSE ledger[o]
      BY <1>1, <1>7 DEF Duplicate, Typed, TypeOK
    <3>2. CASE ledger[o] = "PENDING_SUBMISSION"
      <4>1. ~Aborted(o)
        BY <1>1, <2>1 DEF InHand, AtAccount
      <4> QED
        BY <3>2, <4>1 DEF Obliged
    <3>3. CASE ledger[o] # "PENDING_SUBMISSION"
      BY <1>2, <1>3, <2>1, <3>1, <3>3, ObligedMoves
    <3> QED
      BY <3>2, <3>3
  <2> QED
    BY <1>1, <1>2, <1>3, <1>5, <2>1, <2>2, OwnReleased
<1>8. CASE DispatchFails(t)
  <2>1. /\ task[t].pc = "dispatch" /\ Release(o) /\ UNCHANGED ledger /\ env.may.aborts
        /\ Row(o, "ERROR")
    BY <1>1, <1>8 DEF DispatchFails, At
  <2>2. ledger[o] = "PENDING_SUBMISSION" /\ Obliged(o)
    BY <1>1, <2>1 DEF TasksAndLedger, Dispatches, Aborted, Obliged
  <2>3. \A u \in Task \ {t} : Op(u)' # o
    BY <1>2, <1>6, <2>1 DEF OthersRest, Op
  <2>4. Aborted(o)'
    BY <1>2, <1>3, <2>1, <2>2, <2>3 DEF Aborted
  <2>5. "PENDING" \notin rows'[o]
    BY <2>1, <2>2 DEF RowsAndLedger, Row, Typed, TypeOK
  <2>6. ~Obliged(o)'
    BY <1>3, <2>1, <2>2, <2>3, <2>4, <2>5 DEF Obliged
  <2> QED
    BY <1>4, <1>5, <2>1, <2>2, <2>6, OwedReleased
<1>9. CASE Save(t)
  <2>1. /\ task[t].pc = "save" /\ UNCHANGED <<ledger, owed>>
        /\ rows'[o] = rows[o] \cup
             {IF task[t].answer = "LOST" THEN "ERROR" ELSE task[t].answer}
    BY <1>1, <1>9 DEF Save, At, Row, Typed, TypeOK
  <2>2. CASE task[t].answer = "PENDING"
    <3>1. Obliged(o)
      BY <1>1, <2>1, <2>2 DEF Obliged, Settles, Records, Holds
    <3> QED
      BY <1>4, <1>5, <2>1, <3>1, OwingKept
  <2>3. CASE task[t].answer # "PENDING"
    <3>1. "PENDING" \in rows'[o] => "PENDING" \in rows[o]
      BY <2>1, <2>3
    <3>2. ~Dispatches(t)
      BY <2>1 DEF Dispatches
    <3>3. Obliged(o)' => Obliged(o)
      BY <1>2, <1>3, <2>1, <3>1, <3>2, ObligedMoves
    <3> QED
      BY <1>4, <1>5, <2>1, <3>3, OwingKept
  <2> QED
    BY <2>2, <2>3
<1> QED
  BY <1>7, <1>8, <1>9 DEF Leaves

\* A step that is no delivery's.
LEMMA ObligedStays ==
  ASSUME UNCHANGED task, env'.may = env.may, NEW o, ledger'[o] = ledger[o],
         "PENDING" \in rows'[o] => "PENDING" \in rows[o], Obliged(o)'
  PROVE  Obliged(o)
<1>1. Aborted(o) => Aborted(o)'
  BY DEF Aborted, Dispatches, Op
<1>2. \A u \in Task : Op(u)' = Op(u) /\ (Settles(u)' => Settles(u))
  BY DEF Settles, Records, Holds, Op
<1> QED
  BY <1>1, <1>2 DEF Obliged

LEMMA OwingAsks ==
  ASSUME Typed, TasksAndLedger, RowsAndLedger, PassesAndLedger, Owing, Asks
  PROVE  Balanced
<1>1. UNCHANGED <<task, rows, env>>
  BY AsksFrame
<1>2. \A p \in Opp : Reserved(p)' => Reserved(p)
  BY <1>1 DEF Reserved, HasOwn, Op
<1>3. CASE UNCHANGED <<ledger, owed>>
  BY <1>1, <1>2, <1>3, ObligedStays, OwingKept
<1>4. ASSUME NEW o \in Opp, NotPlaced(o) \/ \E r \in Pass : Resolve(r, o)
      PROVE  Balanced
  <2>1. ledger[o] = "UNKNOWN_AMBIGUOUS" /\ running = Nobody
    BY <1>4 DEF NotPlaced, Resolve, PassesAndLedger
  <2>2. /\ ledger'[o] \in {"CONFIRMED", "REJECTED_CONFIRMED"}
        /\ \A p \in Opp \ {o} : ledger'[p] = ledger[p]
    BY <1>4 DEF NotPlaced, Resolve, Typed, TypeOK
  <2>3. Obliged(o)
    BY <2>1 DEF Obliged
  <2>4. \A p \in Opp \ {o} : Obliged(p)' => Obliged(p)
    BY <1>1, <2>2, ObligedStays
  <2>5. CASE UNCHANGED owed
    BY <1>2, <2>3, <2>4, <2>5, OwingKept
  <2>6. CASE Release(o)
    <3>1. "PENDING" \notin rows'[o]
      BY <1>1, <2>1 DEF RowsAndLedger
    <3>2. \A u \in Task : ~Settles(u)'
      BY <1>1, <2>1, NobodyAssumption DEF TasksAndLedger, Settles, Records
    <3>3. ~Obliged(o)'
      BY <2>2, <3>1, <3>2 DEF Obliged
    <3> QED
      BY <1>2, <2>3, <2>4, <2>6, <3>3, OwedReleased
  <2> QED
    BY <1>4, <2>5, <2>6 DEF NotPlaced, Resolve
<1> QED
  BY <1>3, <1>4 DEF Asks, StartPass, StartLookups, EndPass, Lookup, durable

LEMMA OwingOutside ==
  ASSUME Typed, TasksAndLedger, RowsAndLedger, PassesAndRows, Owing, Outside
  PROVE  Balanced
<1>1. UNCHANGED <<task, ledger, env>>
  BY DEF Outside, Poll, VenueTakes, VenueMoves, durable
<1>2. \A p \in Opp : Reserved(p)' => Reserved(p)
  BY <1>1 DEF Reserved, HasOwn, Op
<1>3. CASE UNCHANGED <<rows, owed>>
  BY <1>1, <1>2, <1>3, ObligedStays, OwingKept
<1>4. ASSUME NEW r \in Pass, NEW o \in Opp, Poll(r, o), Release(o), rows' = [rows EXCEPT ![o] = Closed(o)]
      PROVE  Balanced
  <2>1. "PENDING" \in rows[o] /\ running = Nobody
    BY <1>4 DEF Poll, PassesAndRows
  <2>2. Obliged(o)
    BY <2>1 DEF Obliged
  <2>3. "PENDING" \notin rows'[o] /\ \A p \in Opp \ {o} : rows'[p] = rows[p]
    BY <1>4 DEF Closed, Typed, TypeOK
  <2>4. \A p \in Opp \ {o} : Obliged(p)' => Obliged(p)
    BY <1>1, <2>3, ObligedStays
  <2>5. \A u \in Task : ~Settles(u)'
    BY <1>1, <2>1, NobodyAssumption DEF TasksAndLedger, Settles, Records
  <2>6. ledger'[o] = "SUBMITTED_UNCONFIRMED"
    BY <1>1, <2>1 DEF RowsAndLedger
  <2>7. ~Obliged(o)'
    BY <2>3, <2>5, <2>6 DEF Obliged
  <2> QED
    BY <1>2, <1>4, <2>2, <2>4, <2>7, OwedReleased
<1> QED
  BY <1>3, <1>4 DEF Outside, Poll, VenueTakes, VenueMoves, durable

LEMMA CrashMeans ==
  ASSUME Typed, Undisturbed, Crash
  PROVE  env'.may = env.may /\ ~env.may.aborts
<1>1. env \in [may : Setting, did : Count] /\ env.may \in SettingType
  BY SettingAssumption DEF Typed, TypeOK
<1>2. env'.may = env.may
  BY <1>1, SpendType DEF Crash
<1>3. env.did["crashes"] \in Nat /\ env.may.crashes \in Nat /\ env.did["crashes"] < env.may.crashes
  BY <1>1 DEF Crash, CanSpend, Count, SettingType
<1>4. env.may.crashes # 0
  BY <1>3
<1> QED
  BY <1>2, <1>4 DEF Undisturbed

LEMMA OwingCrash ==
  ASSUME Typed, Undisturbed, Owing, Crash
  PROVE  Balanced
<1>1. env'.may = env.may /\ ~env.may.aborts
  BY CrashMeans
<1>2. UNCHANGED <<ledger, rows, owed>> /\ \A t \in Task : task'[t].pc = "idle"
  BY DEF Crash, Resting, durable
<1>3. \A p \in Opp : ~Reserved(p)'
  BY <1>2 DEF Reserved, HasOwn
<1>4. \A p \in Opp : Obliged(p)' => Obliged(p)
  BY <1>1, <1>2 DEF Obliged, Aborted, Settles, Records
<1> QED
  BY <1>2, <1>3, <1>4, OwingKept

LEMMA OwingStep ==
  ASSUME Typed, Owned, Undisturbed, OneDelivery, TasksAndLedger, RowsAndLedger,
         PassesAndLedger, PassesAndRows, InHand, Owing, [Next]_vars
  PROVE  Balanced /\ Owing'
<1>1. Balanced
  <2>1. CASE UNCHANGED vars
    <3>1. \A o \in Opp : owed'[o] = owed[o] /\ Needed(o)' = Needed(o)
      BY <2>1 DEF vars, durable, Needed, Obliged, Reserved, Aborted, Settles, Records,
                  Dispatches, HasOwn, Holds, Op
    <3>2. \A o \in Opp : owed[o] \in Nat /\ Needed(o) \in 0 .. 2
      BY DEF Needed, Typed, TypeOK
    <3> QED
      BY <3>1, <3>2 DEF Balanced
  <2> QED
    BY <2>1, StepCases, OwingBefore, OwingOpen, OwingHandles, OwingLeaves, OwingAsks,
       OwingOutside, OwingCrash
<1>2. ASSUME NEW o \in Opp PROVE owed'[o] >= Needed(o)'
  <2>1. owed[o] \in Nat /\ owed'[o] \in Nat
    BY TypesStep DEF Typed, TypeOK
  <2>2. Needed(o) \in 0 .. 2 /\ Needed(o)' \in 0 .. 2
    BY DEF Needed
  <2>3. owed[o] >= Needed(o) /\ owed'[o] + Needed(o) >= owed[o] + Needed(o)'
    BY <1>1 DEF Owing, Balanced
  <2> QED
    BY <2>1, <2>2, <2>3
<1> QED
  BY <1>1, <1>2 DEF Owing

\* What a step of a delivery leaves as it is.
LEMMA GotoKeeps ==
  ASSUME Typed, NEW t \in Task, NEW label, NEW on, Goto(t, label, on)
  PROVE  /\ task'[t].pc = label /\ task'[t].sig = task[t].sig /\ task'[t].at = task[t].at
         /\ task'[t].left = task[t].left /\ task'[t].mine = task[t].mine
<1>1. task[t] \in DeliveryType
  BY DEF Typed, TypeOK
<1>2. task' = [task EXCEPT ![t] = [task[t] EXCEPT !.pc = label]]
  BY DEF Goto
<1> QED
  BY <1>1, <1>2 DEF Typed, TypeOK, DeliveryType

LEMMA CallKeeps ==
  ASSUME Typed, NEW t \in Task, Hear(t) \/ CallLost(t)
  PROVE  /\ task[t].pc = "call" /\ task'[t].pc = "answer"
         /\ task'[t].sig = task[t].sig /\ task'[t].at = task[t].at
         /\ task'[t].left = task[t].left /\ task'[t].mine = task[t].mine
         /\ UNCHANGED intent
<1>1. task \in [Task -> DeliveryType] /\ task[t] \in DeliveryType
  BY DEF Typed, TypeOK
<1> QED
  BY <1>1 DEF Hear, CallLost, DeliveryType, durable

LEMMA IntentMoves ==
  ASSUME Typed, NEW t \in Task, Turn(t), NEW s \in Signal, s # task[t].sig
  PROVE  intent'[s] = intent[s]
<1>1. CASE Claim(t)
  BY <1>1 DEF Claim, Typed, TypeOK
<1>2. CASE Bind(t)
  <2>1. CASE Bindable(task[t].sig, task[t].at)
    BY <1>2, <2>1 DEF Bind, Typed, TypeOK
  <2>2. CASE ~Bindable(task[t].sig, task[t].at)
    BY <1>2, <2>2 DEF Bind
  <2> QED
    BY <2>1, <2>2
<1>3. CASE Conclude(t)
  BY <1>3 DEF Conclude, Typed, TypeOK
<1>4. CASE Before(t) /\ ~(Claim(t) \/ Bind(t) \/ Conclude(t))
  BY <1>4 DEF Before, Deliver, Gate, Admit, Exclude, Pick, Screen, Reserve, OverCeiling,
              Resources, Blocked, Mismatch, durable
<1>5. CASE ~Before(t)
  BY <1>5, OpenFrame, HandlesFrame, LeavesFrame DEF Turn
<1> QED
  BY <1>1, <1>2, <1>3, <1>4, <1>5

\* A delivery either leaves the accounts, or picks one it has not tried.
LEMMA LeftShrinks ==
  ASSUME Typed, NEW t \in Task, Turn(t)
  PROVE  \/ \E s \in Signal : Deliver(t, s)
         \/ Gate(t) \/ Admit(t) \/ Claim(t)
         \/ task'[t] = Resting
         \/ /\ task'[t].left \subseteq task[t].left
            /\ \/ task'[t].pc = "pick"
               \/ task'[t].pc = "reserve" /\ task'[t].at \in task[t].left
                    /\ task'[t].at \notin task'[t].left
               \/ /\ task[t].pc \in AtAccount /\ task'[t].pc \in AtAccount
                  /\ task'[t].at = task[t].at
<1> DEFINE Goal ==
      /\ task'[t].left \subseteq task[t].left
      /\ \/ task'[t].pc = "pick"
         \/ task'[t].pc = "reserve" /\ task'[t].at \in task[t].left
              /\ task'[t].at \notin task'[t].left
         \/ /\ task[t].pc \in AtAccount /\ task'[t].pc \in AtAccount
            /\ task'[t].at = task[t].at
<1>0. task \in [Task -> DeliveryType] /\ task[t] \in DeliveryType
  BY DEF Typed, TypeOK
<1>1. CASE Exclude(t) \/ Conclude(t) \/ Mismatch(t)
  BY <1>0, <1>1 DEF Exclude, Conclude, Mismatch
<1>2. CASE Pick(t)
  <2>1. PICK a \in Account :
          /\ IsFirst(a, Wanted(t))
          /\ task' = [task EXCEPT ![t].pc = "reserve", ![t].at = a, ![t].left = @ \ {a}]
    BY <1>2 DEF Pick
  <2>2. /\ task'[t].pc = "reserve" /\ task'[t].at = a /\ task'[t].left = task[t].left \ {a}
    BY <1>0, <2>1 DEF DeliveryType
  <2>3. a \in task[t].left
    BY <2>1 DEF IsFirst, Wanted
  <2> QED
    BY <2>2, <2>3
<1>3. CASE Screen(t)
  <2>1. task[t].pc = "pick"
    BY <1>3 DEF Screen, At
  <2>2. PICK a \in Account : task' = [task EXCEPT ![t].left = @ \ {a}]
    BY <1>3 DEF Screen
  <2> QED
    BY <1>0, <2>1, <2>2 DEF DeliveryType
<1>4. CASE Bind(t)
  <2>1. task[t].pc \in AtAccount
    BY <1>4 DEF Bind, At, AtAccount
  <2>2. CASE Bindable(task[t].sig, task[t].at)
    <3>1. task'[t].pc = "resources" /\ task'[t].at = task[t].at /\ task'[t].left = task[t].left
      BY <1>0, <1>4, <2>2 DEF Bind, DeliveryType
    <3> QED
      BY <2>1, <3>1 DEF AtAccount
  <2>3. CASE ~Bindable(task[t].sig, task[t].at)
    BY <1>4, <2>3, GotoKeeps DEF Bind
  <2> QED
    BY <2>2, <2>3
<1>5. CASE Hear(t) \/ CallLost(t)
  BY <1>5, CallKeeps DEF AtAccount
<1>6. CASE Save(t)
  <2>1. task'[t].pc = "pick" /\ task'[t].left = task[t].left
    BY <1>0, <1>6 DEF Save, DeliveryType
  <2> QED
    BY <2>1
<1>7. CASE \/ Reserve(t) \/ Resources(t) \/ Open(t) \/ Dispatch(t)
           \/ Answer(t) \/ Mark(t) \/ Settle(t) \/ Book(t)
  <2>1. PICK label, on : label \in AtAccount /\ Goto(t, label, on)
    BY <1>7 DEF Reserve, Resources, Open, Dispatch, Answer, Mark, Settle, Book, AtAccount
  <2>2. task[t].pc \in AtAccount
    BY <1>7 DEF Reserve, Resources, Open, Dispatch, Answer, Mark, Settle, Book, AtAccount,
       At, Woken
  <2> QED
    BY <2>1, <2>2, GotoKeeps
<1>8. CASE OverCeiling(t) \/ Blocked(t) \/ Duplicate(t) \/ DispatchFails(t)
  <2>1. PICK on : Goto(t, "pick", on)
    BY <1>8 DEF OverCeiling, Blocked, Duplicate, DispatchFails
  <2> QED
    BY <2>1, GotoKeeps
<1> QED
  BY <1>1, <1>2, <1>3, <1>4, <1>5, <1>6, <1>7, <1>8 DEF Turn, Before, Handles, Leaves

LEMMA GateMoves ==
  ASSUME Typed, NEW t \in Task, Gate(t) \/ Admit(t)
  PROVE  task'[t].pc \in {"gate", "claim"}
<1>0. task \in [Task -> DeliveryType] /\ task[t] \in DeliveryType
  BY DEF Typed, TypeOK
<1>1. CASE Gate(t)
  BY <1>0, <1>1 DEF Gate, Woken, DeliveryType
<1>2. CASE Admit(t)
  BY <1>0, <1>2 DEF Admit, DeliveryType
<1> QED
  BY <1>1, <1>2

LEMMA OnTheWayStep ==
  ASSUME Typed, OneDelivery, OnTheWay, ~Crash, [Next]_vars
  PROVE  OnTheWay'
<1> DEFINE Certain == {"resources", "open"} \cup Handling
           Knows(u) == /\ task[u].mine = task[u].at
                       /\ intent[task[u].sig].account = task[u].at
                       /\ intent[task[u].sig].state \in {"selected", "committed"}
<1>1. ASSUME NEW t \in Task, Turn(t) PROVE OnTheWay'
  <2>0. /\ task \in [Task -> DeliveryType] /\ task[t] \in DeliveryType
        /\ intent \in [Signal -> IntentType]
    BY DEF Typed, TypeOK
  <2>1. OthersRest(t) /\ env'.may = env.may
    BY <1>1, TurnFrame
  <2>2. task[t].pc \in Certain /\ env.may.single => Knows(t)
    BY DEF OnTheWay
  <2>3. ASSUME ~env.may.single PROVE \A s \in Signal : intent'[s].state = "none"
    <3>1. task[t].pc \notin {"gate", "claim", "bind"} /\ \A s \in Signal : intent[s].state = "none"
      BY <2>3 DEF OnTheWay
    <3>2. CASE Conclude(t)
      <4>1. intent' = [intent EXCEPT ![task[t].sig] = Decided(@, task[t].mine)]
        BY <3>2 DEF Conclude
      <4>2. ASSUME NEW s \in Signal PROVE Decided(intent[s], task[t].mine) = intent[s]
        BY <3>1 DEF Decided
      <4> QED
        BY <2>0, <3>1, <4>1, <4>2
    <3>3. CASE Before(t) /\ ~Conclude(t)
      BY <3>1, <3>3 DEF Before, Deliver, Gate, Admit, Exclude, Claim, Pick, Screen, Reserve,
                        OverCeiling, Bind, Resources, Blocked, Mismatch, At, durable
    <3>4. CASE ~Before(t)
      BY <1>1, <3>1, <3>4, OpenFrame, HandlesFrame, LeavesFrame DEF Turn
    <3> QED
      BY <3>2, <3>3, <3>4
  <2>4. ASSUME ~env.may.single PROVE task'[t].pc \notin {"gate", "claim", "bind"}
    <3>1. task[t].pc \notin {"gate", "claim", "bind"}
      BY <2>4 DEF OnTheWay
    <3>2. ASSUME NEW s \in Signal, Deliver(t, s) PROVE task'[t].pc \in {"idle", "pick"}
      <4>1. CASE Replayed(s)
        BY <3>2, <4>1 DEF Deliver, Woken
      <4>2. CASE ~Replayed(s)
        BY <2>0, <2>4, <3>2, <4>2 DEF Deliver, Resting
      <4> QED
        BY <4>1, <4>2
    <3>3. CASE Bind(t) \/ Gate(t) \/ Admit(t) \/ Claim(t)
      BY <3>1, <3>3 DEF Bind, Gate, Admit, Claim, At, Woken
    <3>4. CASE Reserve(t)
      BY <2>4, <3>4, GotoKeeps DEF Reserve
    <3>5. CASE Exclude(t) \/ Conclude(t) \/ Mismatch(t)
      BY <2>0, <3>5 DEF Exclude, Conclude, Mismatch, Resting
    <3>6. CASE Pick(t)
      <4>1. PICK a \in Account :
              task' = [task EXCEPT ![t].pc = "reserve", ![t].at = a, ![t].left = @ \ {a}]
        BY <3>6 DEF Pick
      <4> QED
        BY <2>0, <4>1 DEF DeliveryType
    <3>7. CASE Screen(t)
      BY <2>0, <3>1, <3>7 DEF Screen, DeliveryType
    <3>8. CASE OverCeiling(t) \/ Blocked(t) \/ Resources(t)
      BY <3>8, GotoKeeps DEF OverCeiling, Blocked, Resources
    <3>9. CASE Open(t) \/ Handles(t) \/ Leaves(t)
      BY <3>9, OpenFrame, HandlesFrame, LeavesFrame DEF Handling
    <3> QED
      BY <1>1, <3>2, <3>3, <3>4, <3>5, <3>6, <3>7, <3>8, <3>9 DEF Turn, Before
  <2>5. task'[t].pc \in AtAccount => task'[t].at \notin task'[t].left
    <3>1. task[t].pc \in AtAccount => task[t].at \notin task[t].left
      BY DEF OnTheWay
    <3>2. CASE \E s \in Signal : Deliver(t, s)
      BY <3>2, DeliverMoves DEF AtAccount
    <3>3. CASE Gate(t) \/ Admit(t)
      BY <3>3, GateMoves DEF AtAccount
    <3>4. CASE Claim(t)
      BY <2>0, <3>4 DEF Claim, Resting, AtAccount, DeliveryType
    <3>5. CASE task'[t] = Resting
      BY <3>5 DEF Resting, AtAccount
    <3>6. "pick" \notin AtAccount
      BY DEF AtAccount
    <3> QED
      BY <1>1, <3>1, <3>2, <3>3, <3>4, <3>5, <3>6, LeftShrinks
  <2>6. ASSUME env.may.single, task'[t].pc \in Certain PROVE Knows(t)'
    <3>1. CASE Bind(t)
      <4>1. /\ task[t].sig \in Signal /\ task[t].at \in Account
        BY <3>1 DEF Bind, At, Typed, Placed, AtAccount
      <4>2. CASE Bindable(task[t].sig, task[t].at)
        <5>1. /\ task'[t].sig = task[t].sig /\ task'[t].at = task[t].at
              /\ task'[t].mine = task[t].at
          BY <2>0, <3>1, <4>2 DEF Bind, DeliveryType
        <5>2. intent'[task[t].sig] =
                IF intent[task[t].sig].account = task[t].at THEN intent[task[t].sig]
                ELSE [state |-> "selected", account |-> task[t].at]
          BY <2>0, <3>1, <4>1, <4>2 DEF Bind
        <5>3. intent[task[t].sig].account = task[t].at =>
                intent[task[t].sig].state \in {"selected", "committed"}
          BY <4>1, <4>2, AccountAssumption DEF Bindable
        <5> QED
          BY <5>1, <5>2, <5>3
      <4>3. CASE ~Bindable(task[t].sig, task[t].at)
        BY <2>6, <3>1, <4>3, GotoKeeps DEF Bind, Handling
      <4> QED
        BY <4>2, <4>3
    <3>2. CASE \/ Resources(t) \/ Open(t) \/ Dispatch(t)
               \/ Answer(t) \/ Mark(t) \/ Settle(t) \/ Book(t)
      <4>1. task[t].pc \in Certain /\ UNCHANGED intent
        BY <3>2 DEF Resources, Open, Dispatch, Answer, Mark, Settle, Book, At, Woken, Handling,
           durable
      <4>2. PICK label, on : Goto(t, label, on)
        BY <3>2 DEF Resources, Open, Dispatch, Answer, Mark, Settle, Book
      <4> QED
        BY <2>2, <2>6, <4>1, <4>2, GotoKeeps
    <3>3. CASE Hear(t) \/ CallLost(t)
      BY <2>2, <2>6, <3>3, CallKeeps DEF Handling
    <3>4. CASE Reserve(t)
      BY <2>6, <3>4, GotoKeeps DEF Reserve, Handling
    <3>5. CASE Before(t) /\ ~Bind(t) /\ ~Resources(t) /\ ~Reserve(t)
      <4>1. CASE task'[t] = Resting
        BY <2>6, <4>1 DEF Resting, Handling
      <4>2. CASE \E s \in Signal : Deliver(t, s)
        BY <2>6, <4>2, DeliverMoves DEF Handling
      <4>3. CASE Gate(t) \/ Admit(t)
        BY <2>6, <4>3, GateMoves DEF Handling
      <4>4. CASE Claim(t)
        BY <2>0, <2>6, <4>4 DEF Claim, Resting, Handling, DeliveryType
      <4>5. CASE Pick(t) \/ Screen(t) \/ OverCeiling(t) \/ Blocked(t)
        <5>1. task'[t].pc \in {"reserve", "pick"}
          <6>1. CASE OverCeiling(t) \/ Blocked(t)
            BY <6>1, GotoKeeps DEF OverCeiling, Blocked
          <6>2. CASE Screen(t)
            BY <2>0, <6>2 DEF Screen, At, DeliveryType
          <6>3. CASE Pick(t)
            <7>1. PICK a \in Account :
                    task' = [task EXCEPT ![t].pc = "reserve", ![t].at = a, ![t].left = @ \ {a}]
              BY <6>3 DEF Pick
            <7> QED
              BY <2>0, <7>1 DEF DeliveryType
          <6> QED
            BY <4>5, <6>1, <6>2, <6>3
        <5> QED
          BY <2>6, <5>1 DEF Handling
      <4>6. CASE Exclude(t) \/ Conclude(t) \/ Mismatch(t)
        BY <2>0, <4>1, <4>6 DEF Exclude, Conclude, Mismatch
      <4> QED
        BY <3>5, <4>2, <4>3, <4>4, <4>5, <4>6 DEF Before
    <3>6. CASE Leaves(t)
      BY <2>6, <3>6, LeavesFrame DEF Handling
    <3> QED
      BY <1>1, <3>1, <3>2, <3>3, <3>4, <3>5, <3>6 DEF Turn, Handles
  <2>7. ASSUME NEW u \in Task \ {t}, env.may.single, task'[u].pc \in Certain PROVE Knows(u)'
    <3>1. task'[u] = task[u]
      BY <2>1 DEF OthersRest
    <3>2. task[u].sig \in Signal
      BY <2>7, <3>1 DEF Typed, Placed, Handling
    <3>3. task[u].sig # task[t].sig
      BY <3>2, NobodyAssumption DEF OneDelivery
    <3>4. intent'[task[u].sig] = intent[task[u].sig]
      BY <1>1, <3>2, <3>3, IntentMoves
    <3>5. Knows(u)
      BY <2>7, <3>1 DEF OnTheWay
    <3> QED
      BY <3>1, <3>4, <3>5
  <2>8. \A u \in Task \ {t} : task'[u] = task[u]
    BY <2>1 DEF OthersRest
  <2>9. ~env.may.single => \A u \in Task : task'[u].pc \notin {"gate", "claim", "bind"}
    BY <2>4, <2>8 DEF OnTheWay
  <2>10. \A u \in Task : task'[u].pc \in AtAccount => task'[u].at \notin task'[u].left
    BY <2>5, <2>8 DEF OnTheWay
  <2>11. env.may.single => \A u \in Task : task'[u].pc \in Certain => Knows(u)'
    BY <2>6, <2>7
  <2> QED
    BY <2>1, <2>3, <2>9, <2>10, <2>11 DEF OnTheWay
<1>2. CASE Asks \/ Outside \/ UNCHANGED vars
  <2>1. UNCHANGED <<task, intent>> /\ env'.may = env.may
    BY <1>2, AsksFrame DEF Outside, Poll, VenueTakes, VenueMoves, vars, durable
  <2> QED
    BY <2>1 DEF OnTheWay
<1> QED
  BY <1>1, <1>2, StepCases DEF Turn

LEMMA NewlyAborted ==
  ASSUME Typed, OneDelivery, TasksAndLedger, NEW t \in Task, Turn(t), NEW o \in Opp,
         Aborted(o)', ~Aborted(o)
  PROVE  DispatchFails(t) /\ Op(t) = o
<1>1. /\ OthersRest(t) /\ env'.may = env.may
      /\ o # Op(t) => ledger'[o] = ledger[o]
  BY TurnFrame
<1>2. ledger'[o] = "PENDING_SUBMISSION" /\ env.may.aborts
  BY <1>1 DEF Aborted
<1>3. ~(Dispatches(t)' /\ Op(t)' = o)
  BY DEF Aborted
<1>4. \A u \in Task \ {t} : ~(Dispatches(u) /\ Op(u) = o)
  BY <1>1 DEF Aborted, Dispatches, OthersRest, Op
<1>5. CASE Open(t)
  <2>1. o # Op(t)
    BY <1>3, <1>5, OpenFrame DEF Dispatches
  <2>2. ~Dispatches(t)
    BY <1>5, OpenFrame DEF Dispatches
  <2> QED
    BY <1>1, <1>2, <1>4, <2>1, <2>2 DEF Aborted
<1>6. CASE Before(t)
  <2>1. ~Dispatches(t) /\ UNCHANGED ledger
    BY <1>6, BeforeFrame DEF Dispatches, Handling
  <2> QED
    BY <1>2, <1>4, <2>1 DEF Aborted
<1>7. CASE Dispatch(t) \/ Hear(t) \/ CallLost(t) \/ Answer(t)
  <2>1. UNCHANGED ledger
    BY <1>7 DEF Dispatch, Hear, CallLost, Answer, durable
  <2>2. Op(t)' = Op(t)
    BY <1>7, HandlesFrame DEF Handles
  <2>3. Dispatches(t)'
    BY <1>7, GotoKeeps, CallKeeps DEF Dispatch, Answer, Dispatches
  <2> QED
    BY <1>2, <1>3, <1>4, <2>1, <2>2, <2>3 DEF Aborted
<1>8. CASE Mark(t)
  <2>1. o = Op(t) => ledger'[o] = Outcome(task[t].answer)
    BY <1>8 DEF Mark, Typed, TypeOK
  <2>2. o # Op(t)
    BY <1>2, <2>1 DEF Outcome
  <2> QED
    BY <1>1, <1>2, <1>4, <2>2 DEF Aborted
<1>9. CASE Settle(t) \/ Book(t) \/ Save(t)
  <2>1. UNCHANGED ledger /\ ~Dispatches(t)
    BY <1>9 DEF Settle, Book, Save, At, Dispatches
  <2> QED
    BY <1>2, <1>4, <2>1 DEF Aborted
<1>10. CASE Duplicate(t)
  <2>1. ~Dispatches(t)
    BY <1>10 DEF Duplicate, At, Dispatches
  <2>2. o = Op(t) => ledger'[o] # "PENDING_SUBMISSION"
    BY <1>10 DEF Duplicate, Typed, TypeOK
  <2> QED
    BY <1>1, <1>2, <1>4, <2>1, <2>2 DEF Aborted
<1>11. CASE DispatchFails(t)
  <2>1. UNCHANGED ledger
    BY <1>11 DEF DispatchFails
  <2>2. Dispatches(t) /\ Op(t) = o
    BY <1>2, <1>4, <2>1 DEF Aborted
  <2> QED
    BY <1>11, <2>2
<1> QED
  BY <1>5, <1>6, <1>7, <1>8, <1>9, <1>10, <1>11 DEF Turn, Handles, Leaves

LEMMA RowsStay ==
  ASSUME Typed, [Next]_vars, NEW o \in Opp, rows[o] # {}
  PROVE  rows'[o] # {}
<1>0. rows \in [Opp -> SUBSET RowState]
  BY DEF Typed, TypeOK
<1>1. ASSUME NEW p \in Opp, NEW status, Row(p, status) PROVE rows'[o] # {}
  BY <1>0, <1>1 DEF Row
<1>2. CASE UNCHANGED rows
  BY <1>2
<1>3. ASSUME NEW t \in Task, Before(t) PROVE rows'[o] # {}
  <2>1. CASE Exclude(t)
    BY <1>0, <2>1 DEF Exclude
  <2>2. CASE Screen(t)
    <3>1. PICK a \in Account : Row(<<task[t].sig, a>>, "REJECTED") \/ UNCHANGED rows
      BY <2>2 DEF Screen
    <3>2. <<task[t].sig, a>> \in Opp
      BY <2>2 DEF Screen, At, Typed, Placed, Opp
    <3> QED
      BY <1>1, <1>2, <3>1, <3>2
  <2>3. CASE OverCeiling(t) \/ Blocked(t)
    <3>1. Op(t) \in Opp
      BY <2>3, OppOfTask DEF OverCeiling, Blocked, Woken, AtAccount, Typed
    <3> QED
      BY <1>1, <2>3, <3>1 DEF OverCeiling, Blocked
  <2>4. CASE ~(Exclude(t) \/ Screen(t) \/ OverCeiling(t) \/ Blocked(t))
    <3>1. UNCHANGED rows
      BY <1>3, <2>4 DEF Before, Deliver, Gate, Admit, Claim, Pick, Conclude, Reserve, Bind,
                        Resources, Mismatch, durable
    <3> QED
      BY <1>2, <3>1
  <2> QED
    BY <2>1, <2>2, <2>3, <2>4
<1>4. ASSUME NEW t \in Task, Open(t) \/ Handles(t) PROVE rows'[o] # {}
  BY <1>2, <1>4, OpenFrame, HandlesFrame
<1>5. ASSUME NEW t \in Task, Leaves(t) PROVE rows'[o] # {}
  <2>1. Op(t) \in Opp
    BY <1>5, LeavesFrame
  <2> QED
    BY <1>1, <1>2, <1>5, <2>1 DEF Leaves, Duplicate, DispatchFails, Save
<1>6. CASE Asks
  BY <1>2, <1>6, AsksFrame
<1>7. ASSUME NEW r \in Pass, NEW p \in Opp, Poll(r, p) PROVE rows'[o] # {}
  BY <1>0, <1>7 DEF Poll, Closed
<1>8. CASE (\E p \in Opp : VenueTakes(p) \/ VenueMoves(p)) \/ Crash \/ UNCHANGED vars
  BY <1>2, <1>8 DEF VenueTakes, VenueMoves, Crash, durable, vars
<1> QED
  BY <1>3, <1>4, <1>5, <1>6, <1>7, <1>8, StepCases DEF Outside

\* A delivery stands where GivenUp wants it with regard to o.
Past(u, o) ==
  /\ o[2] \notin task[u].left
  /\ task[u].pc \in AtAccount => task[u].at # o[2]
  /\ env.may.single => task[u].pc = "pick" /\ task[u].mine = o[2]

LEMMA PastStep ==
  ASSUME Typed, OnTheWay, ~env.may.overlap, NEW t \in Task, Turn(t), NEW o \in Opp,
         task[t].sig = o[1], task'[t].sig = o[1], Past(t, o)
  PROVE  Past(t, o)' /\ UNCHANGED intent
<1>0. /\ env'.may = env.may /\ o[1] \in Signal /\ o[2] \in Account
      /\ task \in [Task -> DeliveryType] /\ task[t] \in DeliveryType
      /\ task[t].sig # NoSignal /\ task'[t] # Resting
  BY TurnFrame, NobodyAssumption DEF Opp, Typed, TypeOK, Resting
<1>1. CASE env.may.single
  <2>1. task[t].pc = "pick" /\ o[2] \notin task[t].left /\ task[t].mine = o[2] /\ o[2] # NoAccount
    BY <1>0, <1>1, AccountAssumption DEF Past
  <2>2. Wanted(t) = {}
    BY <2>1 DEF Wanted
  <2>3. Pick(t) \/ Screen(t) \/ Conclude(t)
    <3>1. CASE Before(t)
      BY <2>1, <3>1 DEF Before, Deliver, Gate, Admit, Exclude, Claim, Reserve, OverCeiling, Bind,
                        Resources, Blocked, Mismatch, At, Woken
    <3>2. CASE ~Before(t)
      BY <2>1, <3>2, OpenFrame, HandlesFrame DEF Turn, Handling, Leaves, Duplicate,
                        DispatchFails, Save, At
    <3> QED
      BY <3>1, <3>2
  <2>4. ~Pick(t) /\ ~Screen(t)
    BY <2>2 DEF Pick, Screen, IsFirst
  <2>5. ~Conclude(t)
    BY <1>0 DEF Conclude
  <2> QED
    BY <2>3, <2>4, <2>5
<1>2. CASE ~env.may.single
  <2>1. task[t].pc \notin {"gate", "claim", "bind"} /\ task'[t] # Resting
    BY <1>0, <1>2 DEF OnTheWay
  <2>2. ~Gate(t) /\ ~Admit(t) /\ ~Claim(t) /\ ~Bind(t)
    BY <2>1 DEF Gate, Admit, Claim, Bind, At, Woken
  <2>3. CASE \E s \in Signal : Deliver(t, s)
    <3>1. PICK s \in Signal : Deliver(t, s)
      BY <2>3
    <3>2. s # task[t].sig
      BY <3>1 DEF Deliver
    <3>3. UNCHANGED <<task, intent>>
      BY <1>0, <3>1, <3>2, DeliverTakes DEF Deliver, durable
    <3> QED
      BY <1>0, <3>3 DEF Past
  <2>4. CASE ~\E s \in Signal : Deliver(t, s)
    <3>1. Past(t, o)'
      BY <1>0, <1>2, <2>1, <2>2, <2>4, LeftShrinks DEF Past, AtAccount
    <3>2. ~Conclude(t)
      BY <1>0, <2>1 DEF Conclude
    <3>3. UNCHANGED intent
      BY <2>2, <2>4, <3>2, OpenFrame, HandlesFrame, LeavesFrame
         DEF Turn, Before, Exclude, Pick, Screen, Reserve, OverCeiling, Resources, Blocked,
             Mismatch, durable
    <3> QED
      BY <3>1, <3>3
  <2> QED
    BY <2>3, <2>4
<1> QED
  BY <1>1, <1>2

LEMMA GivenUpStep ==
  ASSUME Typed, ~env.may.overlap, OneDelivery, TasksAndLedger, PassesAndLedger,
         OnTheWay, GivenUp, ~Crash, [Next]_vars
  PROVE  GivenUp'
<1> DEFINE Fits(o) ==
      /\ rows[o] # {}
      /\ env.may.single =>
           /\ intent[o[1]].account = o[2]
           /\ \/ intent[o[1]].state = "committed"
              \/ intent[o[1]].state = "selected" /\ \E t \in Task : task[t].sig = o[1]
      /\ \A t \in Task : task[t].sig = o[1] => Past(t, o)
<1>1. \A o \in Opp : Aborted(o) => Fits(o)
  BY DEF GivenUp, Past
<1>2. ASSUME NEW t \in Task, Turn(t), NEW o \in Opp, Aborted(o)', Aborted(o) PROVE Fits(o)'
  <2>0. /\ task \in [Task -> DeliveryType] /\ intent \in [Signal -> IntentType]
        /\ o[1] \in Signal /\ o[2] \in Account /\ o[1] # NoSignal /\ o[2] # NoAccount
        /\ env'.may = env.may /\ OthersRest(t) /\ o \in Of(o[1])
    BY <1>2, TurnFrame, NobodyAssumption, AccountAssumption DEF Typed, TypeOK, Opp, Of
  <2>1. Fits(o) /\ rows'[o] # {}
    BY <1>1, <1>2, RowsStay
  <2>2. \A u \in Task \ {t} : task'[u] = task[u]
    BY <2>0 DEF OthersRest
  <2>3. \A u \in Task \ {t} : task'[u].sig = o[1] => Past(u, o)'
    BY <2>0, <2>1, <2>2 DEF Past
  <2>4. CASE task[t].sig = o[1]
    <3>1. CASE task'[t].sig = o[1]
      <4>1. Past(t, o)' /\ UNCHANGED intent
        BY <1>2, <2>0, <2>1, <2>4, <3>1, PastStep
      <4> QED
        BY <2>0, <2>1, <2>3, <2>4, <3>1, <4>1
    <3>2. CASE task'[t].sig # o[1] /\ env.may.single
      <4>1. /\ task[t].pc = "pick" /\ task[t].mine = o[2] /\ intent[o[1]].account = o[2]
            /\ intent[o[1]].state \in {"selected", "committed"}
        BY <2>1, <2>4, <3>2 DEF Past
      <4>2. Conclude(t)
        <5>1. ~\E s \in Signal : Deliver(t, s)
          BY <4>1 DEF Deliver, Woken
        <5>2. task'[t] = Resting
          BY <1>2, <2>4, <3>2, <5>1, SignalKept
        <5>3. ~Open(t) /\ ~Handles(t) /\ ~Leaves(t)
          BY <4>1, OpenFrame, HandlesFrame
             DEF Handling, Leaves, Duplicate, DispatchFails, Save, At
        <5>4. ~Pick(t) /\ ~Screen(t)
          <6>1. Wanted(t) = {}
            BY <2>0, <2>1, <2>4, <4>1 DEF Wanted, Past
          <6> QED
            BY <6>1 DEF Pick, Screen, IsFirst
        <5> QED
          BY <1>2, <4>1, <5>1, <5>3, <5>4
             DEF Turn, Before, Gate, Admit, Exclude, Claim, Reserve, OverCeiling, Bind,
                 Resources, Blocked, Mismatch, At, Woken
      <4>3. intent'[o[1]] = [intent[o[1]] EXCEPT !.state = "committed"]
        BY <2>0, <2>4, <4>1, <4>2 DEF Conclude, Decided
      <4>4. intent'[o[1]].account = o[2] /\ intent'[o[1]].state = "committed"
        BY <2>0, <4>1, <4>3 DEF IntentType
      <4> QED
        BY <2>0, <2>1, <2>3, <3>2, <4>4
    <3>3. CASE task'[t].sig # o[1] /\ ~env.may.single
      BY <2>0, <2>1, <2>3, <3>3
    <3> QED
      BY <3>1, <3>2, <3>3
  <2>5. CASE task[t].sig # o[1]
    <3>1. intent'[o[1]] = intent[o[1]]
      BY <1>2, <2>0, <2>5, IntentMoves
    <3>2. task'[t].sig # o[1]
      <4>1. ASSUME Deliver(t, o[1]) PROVE UNCHANGED task
        <5>1. \A u \in Task : task[u].sig # o[1]
          BY <2>0, <4>1 DEF Deliver
        <5>2. CASE env.may.single
          <6>1. intent[o[1]].state = "committed"
            BY <2>1, <5>1, <5>2
          <6>2. Replayed(o[1])
            BY <2>0, <2>1, <6>1 DEF Replayed
          <6> QED
            BY <4>1, <6>2 DEF Deliver
        <5>3. CASE ~env.may.single
          <6>1. intent[o[1]].state = "none"
            BY <2>0, <5>3 DEF OnTheWay
          <6>2. Replayed(o[1])
            BY <2>0, <2>1, <6>1 DEF Replayed
          <6> QED
            BY <4>1, <6>2 DEF Deliver
        <5> QED
          BY <5>2, <5>3
      <4>2. ASSUME NEW s \in Signal, Deliver(t, s), s # o[1] PROVE task'[t].sig # o[1]
        BY <2>5, <4>2, DeliverTakes
      <4> QED
        BY <1>2, <2>0, <2>5, <4>1, <4>2, SignalKept DEF Resting
    <3> QED
      BY <2>0, <2>1, <2>2, <2>3, <2>5, <3>1, <3>2
  <2> QED
    BY <2>4, <2>5
<1>3. ASSUME NEW t \in Task, Turn(t), NEW o \in Opp, Aborted(o)', ~Aborted(o) PROVE Fits(o)'
  <2>1. DispatchFails(t) /\ Op(t) = o
    BY <1>3, NewlyAborted
  <2>2. task \in [Task -> DeliveryType] /\ env'.may = env.may /\ OthersRest(t)
    BY <1>3, TurnFrame DEF Typed, TypeOK
  <2>3. /\ task[t].pc = "dispatch" /\ task[t].sig = o[1] /\ task[t].at = o[2]
        /\ task[t].sig \in Signal /\ UNCHANGED intent
    BY <2>1 DEF DispatchFails, At, Op, Typed, Placed
  <2>4. rows'[o] # {}
    BY <2>1 DEF DispatchFails, Row, Typed, TypeOK
  <2>5. /\ o[2] \notin task[t].left
        /\ env.may.single => /\ task[t].mine = o[2] /\ intent[o[1]].account = o[2]
                             /\ intent[o[1]].state \in {"selected", "committed"}
    BY <2>3 DEF OnTheWay, AtAccount, Handling
  <2>6. /\ task'[t].pc = "pick" /\ task'[t].sig = o[1] /\ task'[t].left = task[t].left
        /\ task'[t].mine = task[t].mine
    BY <2>1, <2>3, GotoKeeps DEF DispatchFails
  <2>7. Past(t, o)'
    BY <2>2, <2>5, <2>6 DEF Past, AtAccount
  <2>8. \A u \in Task \ {t} : task'[u].sig # o[1]
    BY <2>2, <2>3, NobodyAssumption DEF OneDelivery, OthersRest
  <2> QED
    BY <2>2, <2>3, <2>4, <2>5, <2>6, <2>7, <2>8
<1>4. ASSUME Asks \/ Outside \/ UNCHANGED vars, NEW o \in Opp, Aborted(o)' PROVE Fits(o)'
  <2>1. UNCHANGED <<task, intent>> /\ env'.may = env.may
    BY <1>4, AsksFrame DEF Outside, Poll, VenueTakes, VenueMoves, vars, durable
  <2>2. ledger'[o] = "PENDING_SUBMISSION" => ledger[o] = "PENDING_SUBMISSION"
    <3>1. CASE UNCHANGED ledger
      BY <3>1
    <3>2. ASSUME NEW p \in Opp, NotPlaced(p) \/ \E r \in Pass : Resolve(r, p)
          PROVE  ledger'[o] = "PENDING_SUBMISSION" => ledger[o] = "PENDING_SUBMISSION"
      BY <3>2 DEF NotPlaced, Resolve, Typed, TypeOK
    <3> QED
      BY <1>4, <3>1, <3>2 DEF Asks, StartPass, StartLookups, EndPass, Lookup, Outside, Poll,
                              VenueTakes, VenueMoves, vars, durable
  <2>3. Aborted(o)
    BY <1>4, <2>1, <2>2 DEF Aborted, Dispatches, Op
  <2>4. Fits(o) /\ rows'[o] # {}
    BY <1>1, <2>3, RowsStay
  <2> QED
    BY <2>1, <2>4 DEF Past
<1>5. ASSUME NEW o \in Opp, Aborted(o)' PROVE Fits(o)'
  BY <1>2, <1>3, <1>4, <1>5, StepCases DEF Turn
<1> QED
  BY <1>5 DEF GivenUp, Past

LEMMA MayKept ==
  ASSUME Typed, [Next]_vars
  PROVE  env'.may = env.may
<1>1. CASE Asks \/ Outside \/ UNCHANGED vars
  BY <1>1, AsksFrame DEF Outside, Poll, VenueTakes, VenueMoves, vars
<1>2. CASE Crash
  BY <1>2, SpendType DEF Crash, Typed, TypeOK
<1> QED
  BY <1>1, <1>2, StepCases, TurnFrame DEF Turn

LEMMA InHandHolds ==
  ASSUME Typed, env.may.aborts => OnTheWay /\ GivenUp
  PROVE  InHand
<1>1. ASSUME NEW t \in Task, task[t].pc \in AtAccount, Aborted(Op(t)) PROVE FALSE
  <2>1. Op(t) \in Opp /\ Op(t)[1] = task[t].sig /\ Op(t)[2] = task[t].at
    BY <1>1, OppOfTask DEF Typed, Op
  <2>2. GivenUp
    BY <1>1 DEF Aborted
  <2> QED
    BY <1>1, <2>1, <2>2 DEF GivenUp
<1> QED
  BY <1>1 DEF InHand

LEMMA CapitalStep ==
  ASSUME Dispatching, Booking, Capital, [Next]_vars
  PROVE  Capital'
<1>1. Typed /\ Owned
  BY DEF Dispatching
<1>2. env'.may = env.may
  BY <1>1, MayKept
<1> SUFFICES ASSUME Undisturbed
             PROVE  /\ OneDelivery' /\ TasksAndLedger' /\ RowsAndLedger' /\ PassesAndLedger'
                    /\ Owing'
                    /\ env.may.aborts => OnTheWay' /\ GivenUp'
  BY <1>2 DEF Capital, Undisturbed
<1>3. /\ OneDelivery /\ TasksAndLedger /\ RowsAndLedger /\ PassesAndLedger /\ Owing
      /\ env.may.aborts => OnTheWay /\ GivenUp
      /\ ~env.may.overlap
  BY DEF Capital, Undisturbed
<1>4. OnePass
  BY DEF Undisturbed, OnePass
<1>5. PassesAndRows
  BY <1>4 DEF Booking
<1>6. InHand
  BY <1>1, <1>3, InHandHolds
<1>7. OneDelivery' /\ TasksAndLedger' /\ RowsAndLedger' /\ PassesAndLedger' /\ Owing'
  BY <1>1, <1>3, <1>5, <1>6, OneDeliveryStep, TasksAndLedgerStep, RowsAndLedgerStep,
     PassesAndLedgerStep, OwingStep
<1>8. env.may.aborts => OnTheWay' /\ GivenUp'
  <2>1. env.may.aborts => ~Crash
    BY <1>1, CrashMeans
  <2> QED
    BY <1>1, <1>3, <2>1, OnTheWayStep, GivenUpStep
<1> QED
  BY <1>7, <1>8

LEMMA CapitalInit == Init => Capital
<1> SUFFICES ASSUME Init PROVE Capital
  OBVIOUS
<1>1. \A t \in Task : task[t] = Resting
  BY DEF Init
<1>2. \A t \in Task : task[t].pc = "idle" /\ task[t].sig = NoSignal
  BY <1>1 DEF Resting
<1>3. \A o \in Opp : ledger[o] = "NONE" /\ rows[o] = {} /\ owed[o] = 0
  BY DEF Init
<1>4. \A r \in Pass : pass[r].doing = "idle" /\ pass[r].asked = {} /\ pass[r].todo = {}
  BY DEF Init, Waiting
<1>5. \A s \in Signal : intent[s].state = "none"
  BY DEF Init
<1>6. OneDelivery /\ TasksAndLedger /\ RowsAndLedger
  BY <1>2, <1>3 DEF OneDelivery, TasksAndLedger, RowsAndLedger, Dispatches, Records
<1>7. PassesAndLedger
  BY <1>4 DEF PassesAndLedger
<1>8. Owing
  BY <1>2, <1>3 DEF Owing, Needed, Obliged, Reserved, Settles, Records, HasOwn
<1>9. OnTheWay /\ GivenUp
  BY <1>2, <1>3, <1>5, NobodyAssumption DEF OnTheWay, GivenUp, Aborted, AtAccount, Handling, Opp
<1> QED
  BY <1>6, <1>7, <1>8, <1>9 DEF Capital

\* While the outcome of a submission is unknown its capital stays reserved: no
\* release of another outcome takes it, whichever deliveries, faults, crashes
\* and passes come in between (of those Undisturbed admits).
THEOREM CapitalHeld == Spec => []HeldUntilKnown
<1>1. Init => Booking
  BY DEF Init, Booking, RowsAndBookings, TasksAndBookings, PassesAndRows, Resting, Waiting,
         Handling, Answered
<1>2. Dispatching /\ Booking /\ [Next]_vars => Booking'
  BY BookingStep
<1>3. Dispatching /\ Booking /\ Capital /\ [Next]_vars => Capital'
  BY CapitalStep
<1>4. Dispatching /\ Capital => HeldUntilKnown
  <2>1. ASSUME Dispatching, Capital, Undisturbed, NEW o \in Opp, ledger[o] = "UNKNOWN_AMBIGUOUS"
        PROVE  owed[o] > 0
    <3>1. Obliged(o)
      BY <2>1 DEF Obliged
    <3>2. owed[o] \in Nat /\ owed[o] >= Needed(o) /\ Needed(o) \in {1, 2}
      BY <2>1, <3>1 DEF Capital, Owing, Needed, Dispatching, Typed, TypeOK
    <3> QED
      BY <3>2
  <2> QED
    BY <2>1 DEF HeldUntilKnown
<1> QED
  BY <1>1, <1>2, <1>3, <1>4, CapitalInit, DispatchingInit, DispatchingStep, PTL DEF Spec

-----------------------------------------------------------------------------
(* The orders alive stay under the account's ceiling *)

\* A task records a fill; the fill of o has freed the capital and has no row yet.
Fills(t) == Records(t) /\ task[t].answer = "FILLED"
Due(o) ==
  \E t \in Task :
    /\ task[t].pc \in {"book", "save"} /\ task[t].answer = "FILLED"
    /\ Op(t) = o

\* The ceiling counts o as a fill.
Spent(o) == "FILLED" \in rows[o] \/ Due(o)
SpentOn(a) == {o \in OnAccount(a) : Spent(o)}

\* A lookup found the order of o: nobody polls it, nobody frees its capital.
Found(o) ==
  /\ ledger[o] = "CONFIRMED" /\ "FILLED" \notin rows[o]
  /\ ~ \E t \in Task : Fills(t) /\ Op(t) = o
Kept == \A o \in Opp : Found(o) => owed[o] > Needed(o)

\* Where an order may be, by what is recorded of it.
Landed ==
  /\ \A o \in Opp : venue[o].state = "sending" => \E t \in Task : task[t].pc = "call" /\ Op(t) = o
  /\ \A o \in Opp : Aborted(o) => Untouched(o)
  /\ \A o \in Opp : ledger[o] = "SUBMITTED_UNCONFIRMED" =>
       \/ rows[o] \cap {"PENDING", "FILLED"} # {} \/ venue[o].state = "gone"
       \/ \E t \in Task : Records(t) /\ Op(t) = o
  /\ \A o \in Opp : ledger[o] = "REJECTED_CONFIRMED" => venue[o].state \in {"none", "gone"}
  /\ \A r \in Pass : ~pass[r].found =>
       \A o \in pass[r].asked : venue[o].state \in {"none", "gone"}

\* Fills and reservations of an account are under its ceiling.
Within(a) ==
  /\ IsFiniteSet(Reservations(a))
  /\ Cardinality(SpentOn(a)) + Cardinality(Reservations(a)) <= env.may.ceiling

Ceiling == Calm => Kept /\ Landed /\ \A a \in Account : Within(a)

\* What Capital gives, and what a calm run rules out.
Steady ==
  /\ Dispatching /\ OneDelivery /\ TasksAndLedger /\ RowsAndLedger /\ PassesAndLedger
  /\ PassesAndRows /\ Owing /\ InHand /\ Balanced
  /\ ~Crash /\ Typed' /\ env'.may = env.may
  /\ env.may.reads /\ ~env.may.late /\ ~env.may.overlap

LEMMA SteadyStep ==
  ASSUME Dispatching, Booking, Capital, Calm, [Next]_vars
  PROVE  Steady
<1>1. Typed /\ Owned /\ Undisturbed
  BY DEF Dispatching, Calm
<1>2. /\ OneDelivery /\ TasksAndLedger /\ RowsAndLedger /\ PassesAndLedger /\ Owing
      /\ env.may.aborts => OnTheWay /\ GivenUp
  BY <1>1 DEF Capital
<1>3. PassesAndRows
  BY <1>1 DEF Undisturbed, OnePass, Booking
<1>4. InHand
  BY <1>1, <1>2, InHandHolds
<1>5. Balanced
  BY <1>1, <1>2, <1>3, <1>4, OwingStep
<1>6. ~Crash
  <2>1. env.did["crashes"] \in Nat /\ env.may.crashes = 0
    BY <1>1 DEF Typed, TypeOK, Count, Calm
  <2> QED
    BY <2>1 DEF Crash, CanSpend
<1> QED
  BY <1>1, <1>2, <1>3, <1>4, <1>5, <1>6, TypesStep, MayKept DEF Steady, Calm, Undisturbed

\* No step takes the mark of a fill from a row, and only these set it.
LEMMA FilledRows ==
  ASSUME Typed, [Next]_vars, NEW o \in Opp
  PROVE  /\ "FILLED" \in rows[o] => "FILLED" \in rows'[o]
         /\ "FILLED" \in rows'[o] =>
              \/ "FILLED" \in rows[o]
              \/ \E t \in Task : Save(t) /\ Op(t) = o /\ task[t].answer = "FILLED"
              \/ \E r \in Pass : Poll(r, o) /\ Release(o)
<1> DEFINE Same == "FILLED" \in rows[o] <=> "FILLED" \in rows'[o]
<1>0. rows \in [Opp -> SUBSET RowState]
  BY DEF Typed, TypeOK
<1>1. CASE UNCHANGED rows
  BY <1>1
<1>2. ASSUME NEW p \in Opp, NEW status \in {"ERROR", "REJECTED"}, Row(p, status) PROVE Same
  BY <1>0, <1>2 DEF Row
<1>3. ASSUME NEW t \in Task, Before(t) PROVE Same
  <2>1. CASE Exclude(t)
    BY <1>0, <2>1 DEF Exclude
  <2>2. CASE OverCeiling(t) \/ Blocked(t)
    <3>1. Op(t) \in Opp
      BY <2>2, OppOfTask DEF OverCeiling, Blocked, Woken, AtAccount, Typed
    <3> QED
      BY <1>2, <2>2, <3>1 DEF OverCeiling, Blocked
  <2>3. CASE Screen(t)
    <3>1. task[t].sig \in Signal
      BY <2>3 DEF Screen, At, Typed, Placed
    <3>2. PICK a \in Account : Row(<<task[t].sig, a>>, "REJECTED") \/ UNCHANGED rows
      BY <2>3 DEF Screen
    <3> QED
      BY <1>1, <1>2, <3>1, <3>2 DEF Opp
  <2>4. CASE ~(Exclude(t) \/ OverCeiling(t) \/ Blocked(t) \/ Screen(t))
    <3>1. UNCHANGED rows
      <4>1. CASE \E s \in Signal : Deliver(t, s)
        BY <4>1 DEF Deliver, durable
      <4>2. CASE Gate(t) \/ Admit(t) \/ Claim(t) \/ Pick(t) \/ Conclude(t)
        BY <4>2 DEF Gate, Admit, Claim, Pick, Conclude, durable
      <4>3. CASE Reserve(t) \/ Bind(t) \/ Resources(t) \/ Mismatch(t)
        BY <4>3 DEF Reserve, Bind, Resources, Mismatch, durable
      <4> QED
        BY <1>3, <2>4, <4>1, <4>2, <4>3 DEF Before
    <3> QED
      BY <3>1
  <2> QED
    BY <2>1, <2>2, <2>3, <2>4
<1>4. ASSUME NEW t \in Task, Open(t) \/ Handles(t) PROVE Same
  BY <1>4, OpenFrame, HandlesFrame
<1>5. ASSUME NEW t \in Task, Duplicate(t) \/ DispatchFails(t) PROVE Same
  <2>1. Op(t) \in Opp
    BY <1>5, LeavesFrame DEF Leaves
  <2> QED
    BY <1>2, <1>5, <2>1 DEF Duplicate, DispatchFails
<1>6. ASSUME NEW t \in Task, Save(t)
      PROVE  \/ Same
             \/ "FILLED" \in rows'[o] /\ Op(t) = o /\ task[t].answer = "FILLED"
  <2>1. Op(t) \in Opp
    BY <1>6, LeavesFrame DEF Leaves
  <2> QED
    BY <1>0, <1>6, <2>1 DEF Save, Row
<1>7. CASE Asks
  BY <1>7, AsksFrame
<1>8. ASSUME NEW r \in Pass, NEW p \in Opp, Poll(r, p)
      PROVE  \/ Same
             \/ "FILLED" \in rows'[o] /\ o = p /\ Release(o)
  BY <1>0, <1>8 DEF Poll, Closed
<1>9. CASE (\E p \in Opp : VenueTakes(p) \/ VenueMoves(p)) \/ Crash \/ UNCHANGED vars
  BY <1>9 DEF VenueTakes, VenueMoves, Crash, durable, vars
<1> QED
  BY <1>3, <1>4, <1>5, <1>6, <1>7, <1>8, <1>9, StepCases DEF Outside, Leaves

\* A fill being recorded stays so until its row says it.
LEMMA FillsStay ==
  ASSUME Steady, [Next]_vars, NEW t \in Task, Fills(t), ~ (Fills(t)' /\ Op(t)' = Op(t))
  PROVE  Save(t)
<1>1. Typed /\ running = t /\ t # Nobody
  BY NobodyAssumption DEF Steady, Dispatching, TasksAndLedger, Fills
<1>2. CASE Asks \/ Outside \/ UNCHANGED vars
  <2>1. UNCHANGED task
    BY <1>1, <1>2, AsksFrame DEF Outside, Poll, VenueTakes, VenueMoves, vars, durable
  <2> QED
    BY <2>1 DEF Fills, Records, Op
<1>3. ASSUME NEW u \in Task \ {t}, Turn(u) PROVE FALSE
  <2>1. OthersRest(u)
    BY <1>1, <1>3, TurnFrame
  <2> QED
    BY <1>3, <2>1 DEF OthersRest, Fills, Records, Op
<1>4. CASE Turn(t)
  <2>1. Handles(t) \/ Leaves(t)
    BY <1>1, <1>4, BeforeFrame, OpenFrame DEF Turn, Fills, Records, Handling
  <2>2. CASE Settle(t) \/ Book(t)
    BY <1>1, <2>2, GotoMoves DEF Settle, Book, Fills, Records
  <2> QED
    BY <2>1, <2>2 DEF Handles, Leaves, Dispatch, Hear, CallLost, Answer, Mark, Duplicate,
       DispatchFails,
                      At, Woken, Fills, Records
<1> QED
  BY <1>2, <1>3, <1>4, StepCases DEF Turn, Steady

LEMMA NewlyFound ==
  ASSUME Steady, [Next]_vars, NEW o \in Opp, Found(o)', ~Found(o)
  PROVE  \E r \in Pass : Resolve(r, o) /\ UNCHANGED owed
<1>0. Typed /\ "FILLED" \notin rows[o]
  BY FilledRows DEF Found, Steady, Dispatching
<1>1. ASSUME ledger[o] = "CONFIRMED" PROVE FALSE
  <2>1. PICK t \in Task : Fills(t) /\ Op(t) = o
    BY <1>0, <1>1 DEF Found
  <2>2. Save(t)
    BY <2>1, FillsStay DEF Found
  <2>3. "FILLED" \in rows'[o]
    BY <1>0, <2>1, <2>2 DEF Save, Row, Fills, Typed, TypeOK
  <2> QED
    BY <2>3 DEF Found
<1>2. ledger'[o] = "CONFIRMED" /\ ledger[o] # "CONFIRMED"
  BY <1>1 DEF Found
<1>3. ASSUME NEW t \in Task, Turn(t) PROVE FALSE
  <2>1. o = Op(t)
    BY <1>0, <1>2, <1>3, TurnFrame
  <2>2. CASE Mark(t)
    <3>1. ledger'[o] = Outcome(task[t].answer)
      BY <1>0, <2>1, <2>2 DEF Mark, Typed, TypeOK
    <3>2. task[t].answer = "FILLED"
      BY <1>2, <3>1 DEF Outcome
    <3>3. Fills(t)' /\ Op(t)' = o
      BY <1>0, <2>1, <2>2, <3>2, GotoMoves DEF Mark, Fills, Records
    <3> QED
      BY <3>3 DEF Found
  <2>3. CASE Open(t) \/ Duplicate(t)
    BY <1>0, <1>2, <2>3 DEF Open, Duplicate, Typed, TypeOK
  <2>4. CASE ~ (Mark(t) \/ Open(t) \/ Duplicate(t))
    <3>1. UNCHANGED ledger
      BY <1>0, <1>3, <2>4, BeforeFrame DEF Turn, Handles, Leaves, Dispatch, Hear, CallLost,
         Answer, Settle, Book, DispatchFails, Save, durable
    <3> QED
      BY <1>2, <3>1
  <2> QED
    BY <2>2, <2>3, <2>4
<1>4. CASE Outside \/ UNCHANGED vars
  BY <1>2, <1>4 DEF Outside, Poll, VenueTakes, VenueMoves, vars, durable
<1>5. CASE Asks
  <2>1. ASSUME NEW p \in Opp, NotPlaced(p) PROVE FALSE
    BY <1>0, <1>2, <2>1 DEF NotPlaced, Typed, TypeOK
  <2>2. ASSUME NEW r \in Pass, NEW p \in Opp, Resolve(r, p) PROVE o = p /\ UNCHANGED owed
    BY <1>0, <1>2, <2>2 DEF Resolve, Typed, TypeOK
  <2>3. ASSUME NEW r \in Pass, StartPass(r) \/ StartLookups(r) \/ EndPass(r) PROVE FALSE
    BY <1>2, <2>3 DEF StartPass, StartLookups, EndPass, durable
  <2>4. ASSUME NEW r \in Pass, NEW p \in Opp, Lookup(r, p) PROVE FALSE
    BY <1>2, <2>4 DEF Lookup, durable
  <2> QED
    BY <1>5, <2>1, <2>2, <2>3, <2>4 DEF Asks
<1> QED
  BY <1>3, <1>4, <1>5, StepCases DEF Turn, Steady

LEMMA KeptStep ==
  ASSUME Steady, Kept, [Next]_vars
  PROVE  Kept'
<1>1. ASSUME NEW o \in Opp, Found(o)' PROVE owed'[o] > Needed(o)'
  <2>1. /\ owed[o] \in Nat /\ owed'[o] \in Nat
        /\ Needed(o) \in 0 .. 2 /\ Needed(o)' \in 0 .. 2
    BY DEF Steady, Dispatching, Typed, TypeOK, Needed
  <2>2. CASE Found(o)
    <3>1. owed[o] > Needed(o) /\ owed'[o] + Needed(o) >= owed[o] + Needed(o)'
      BY <2>2 DEF Kept, Steady, Balanced
    <3> QED
      BY <2>1, <3>1
  <2>3. CASE ~Found(o)
    <3>1. PICK r \in Pass : Resolve(r, o) /\ UNCHANGED owed
      BY <1>1, <2>3, NewlyFound
    <3>2. ledger[o] = "UNKNOWN_AMBIGUOUS" /\ running = Nobody /\ UNCHANGED <<rows, task>>
      BY <3>1 DEF Resolve, Steady, PassesAndLedger
    <3>3. Obliged(o)
      BY <3>2 DEF Obliged
    <3>4. ~Obliged(o)'
      <4>1. ledger'[o] = "CONFIRMED" /\ "PENDING" \notin rows'[o]
        BY <1>1, <3>2 DEF Found, Steady, RowsAndLedger
      <4>2. \A u \in Task : ~Settles(u)'
        BY <3>2, NobodyAssumption DEF Steady, TasksAndLedger, Settles, Records
      <4> QED
        BY <4>1, <4>2 DEF Obliged
    <3>5. Reserved(o)' <=> Reserved(o)
      BY <3>2 DEF Reserved, HasOwn, Op
    <3>6. Needed(o)' = Needed(o) - 1
      BY <3>3, <3>4, <3>5 DEF Needed
    <3>7. owed[o] >= Needed(o)
      BY DEF Steady, Owing
    <3> QED
      BY <2>1, <3>1, <3>6, <3>7
  <2> QED
    BY <2>2, <2>3
<1> QED
  BY <1>1 DEF Kept

\* Who changes what the venue has of o.
LEMMA VenueSteps ==
  ASSUME Steady, [Next]_vars, NEW o \in Opp, venue'[o] # venue[o]
  PROVE  \/ \E t \in Task : Dispatch(t) /\ Op(t) = o
         \/ \E t \in Task : CallLost(t) /\ Op(t) = o /\ venue[o].state = "sending"
                            /\ venue'[o].state = "none"
         \/ VenueTakes(o) \/ VenueMoves(o)
<1>0. Typed /\ venue \in [Opp -> [sent : Nat, state : VenueState]]
  BY DEF Steady, Dispatching, Typed, TypeOK
<1>1. ASSUME NEW t \in Task, Turn(t)
      PROVE  \/ Dispatch(t) /\ Op(t) = o
             \/ CallLost(t) /\ Op(t) = o /\ venue[o].state = "sending" /\ venue'[o].state = "none"
  <2>1. CASE Dispatch(t)
    BY <1>0, <2>1 DEF Dispatch
  <2>2. CASE CallLost(t)
    <3>1. venue' = Abandoned({Op(t)})
      BY <2>2 DEF CallLost
    <3> QED
      BY <1>0, <2>2, <3>1 DEF Abandoned
  <2>3. CASE ~Dispatch(t) /\ ~CallLost(t)
    <3>1. UNCHANGED venue
      BY <1>0, <1>1, <2>3, BeforeFrame, OpenFrame, LeavesFrame
         DEF Turn, Handles, Hear, Answer, Mark, Settle, Book
    <3> QED
      BY <3>1
  <2> QED
    BY <2>1, <2>2, <2>3
<1>2. CASE Asks \/ UNCHANGED vars
  BY <1>0, <1>2, AsksFrame DEF vars
<1>3. ASSUME NEW r \in Pass, NEW p \in Opp, Poll(r, p) PROVE FALSE
  BY <1>3 DEF Poll
<1>4. ASSUME NEW p \in Opp, VenueTakes(p) \/ VenueMoves(p) PROVE p = o
  BY <1>0, <1>4 DEF VenueTakes, VenueMoves
<1> QED
  BY <1>1, <1>2, <1>3, <1>4, StepCases DEF Turn, Outside, Steady

\* What is not at the venue, or has left it, and is no longer to be sent.
LEMMA RestStays ==
  ASSUME Steady, [Next]_vars, NEW o \in Opp, ledger[o] # "PENDING_SUBMISSION",
         venue[o].state \in {"none", "gone"}
  PROVE  venue'[o] = venue[o]
<1>1. ASSUME NEW t \in Task, Dispatch(t), Op(t) = o PROVE FALSE
  BY <1>1 DEF Dispatch, At, Steady, TasksAndLedger, Dispatches
<1>2. ~VenueTakes(o) /\ ~VenueMoves(o)
  BY DEF VenueTakes, VenueMoves
<1> QED
  BY <1>1, <1>2, VenueSteps

LEMMA SendingStep ==
  ASSUME Steady, Landed, [Next]_vars, NEW o \in Opp, venue'[o].state = "sending"
  PROVE  \E t \in Task : task'[t].pc = "call" /\ Op(t)' = o
<1>0. Typed /\ venue \in [Opp -> [sent : Nat, state : VenueState]]
      /\ task \in [Task -> DeliveryType]
  BY DEF Steady, Dispatching, Typed, TypeOK
<1>1. CASE \E t \in Task : Dispatch(t) /\ Op(t) = o
  BY <1>0, <1>1, GotoMoves DEF Dispatch
<1>2. CASE VenueTakes(o) \/ VenueMoves(o)
  BY <1>0, <1>2 DEF VenueTakes, VenueMoves
<1>3. CASE venue'[o] = venue[o]
  <2>1. PICK t \in Task : task[t].pc = "call" /\ Op(t) = o
    BY <1>3 DEF Landed
  <2>2. CASE Asks \/ Outside \/ UNCHANGED vars
    <3>1. UNCHANGED task
      BY <1>0, <2>2, AsksFrame DEF Outside, Poll, VenueTakes, VenueMoves, vars, durable
    <3> QED
      BY <2>1, <3>1 DEF Op
  <2>3. ASSUME NEW u \in Task \ {t}, Turn(u) PROVE task'[t] = task[t]
    BY <1>0, <2>3, TurnFrame DEF OthersRest
  <2>4. ASSUME Turn(t) PROVE FALSE
    <3>1. Hear(t) \/ CallLost(t)
      <4>1. ~Before(t) /\ ~Open(t)
        BY <1>0, <2>1, BeforeFrame, OpenFrame DEF Handling
      <4> QED
        BY <2>1, <2>4, <4>1 DEF Turn, Handles, Leaves, Dispatch, Answer, Mark, Settle, Book,
           Duplicate,
           DispatchFails, Save, At, Woken
    <3>2. CASE Hear(t)
      BY <1>3, <2>1, <3>2 DEF Hear
    <3>3. CASE CallLost(t)
      <4>1. venue' = Abandoned({o}) /\ ~env.may.late
        BY <2>1, <3>3 DEF CallLost, Steady
      <4> QED
        BY <1>0, <1>3, <4>1 DEF Abandoned
    <3> QED
      BY <3>1, <3>2, <3>3
  <2> QED
    BY <2>1, <2>2, <2>3, <2>4, StepCases DEF Turn, Steady, Op
<1> QED
  BY <1>1, <1>2, <1>3, VenueSteps

LEMMA AbortedStep ==
  ASSUME Steady, Landed, [Next]_vars, NEW o \in Opp, Aborted(o)'
  PROVE  Untouched(o)'
<1>0. Typed
  BY DEF Steady, Dispatching
<1>1. \/ Untouched(o) /\ UNCHANGED venue
      \/ Aborted(o)
  <2>1. ASSUME NEW t \in Task, Turn(t), ~Aborted(o) PROVE Untouched(o) /\ UNCHANGED venue
    <3>1. DispatchFails(t) /\ Op(t) = o
      BY <1>0, <2>1, NewlyAborted DEF Steady
    <3> QED
      BY <3>1 DEF DispatchFails, At, Steady, Dispatching, Sent
  <2>2. CASE Outside \/ UNCHANGED vars
    BY <2>2 DEF Outside, Poll, VenueTakes, VenueMoves, vars, durable, Aborted, Dispatches, Op
  <2>3. CASE Asks
    <3>1. UNCHANGED <<task, env>>
      BY <1>0, <2>3, AsksFrame
    <3>2. ledger'[o] = "PENDING_SUBMISSION" => ledger[o] = "PENDING_SUBMISSION"
      <4>1. ASSUME NEW p \in Opp, NotPlaced(p) \/ \E r \in Pass : Resolve(r, p)
            PROVE  ledger'[o] = "PENDING_SUBMISSION" => ledger[o] = "PENDING_SUBMISSION"
        BY <1>0, <4>1 DEF NotPlaced, Resolve, Typed, TypeOK
      <4> QED
        BY <2>3, <4>1 DEF Asks, StartPass, StartLookups, EndPass, Lookup, durable
    <3> QED
      BY <3>1, <3>2 DEF Aborted, Dispatches, Op
  <2> QED
    BY <2>1, <2>2, <2>3, StepCases DEF Turn, Steady
<1>2. CASE Aborted(o)
  <2>1. Untouched(o) /\ ~ \E t \in Task : Dispatch(t) /\ Op(t) = o
    BY <1>2 DEF Landed, Aborted, Dispatch, At, Dispatches
  <2>2. venue'[o] = venue[o]
    BY <2>1, VenueSteps DEF Untouched, VenueTakes, VenueMoves
  <2> QED
    BY <2>1, <2>2 DEF Untouched
<1> QED
  BY <1>1, <1>2 DEF Untouched

\* A row that waits for the venue waits on, or says how the order ended.
LEMMA PendingRows ==
  ASSUME Steady, [Next]_vars, NEW o \in Opp, "PENDING" \in rows[o]
  PROVE  rows'[o] \cap {"PENDING", "FILLED"} # {} \/ venue'[o].state = "gone"
<1>0. Typed /\ rows \in [Opp -> SUBSET RowState]
  BY DEF Steady, Dispatching, Typed, TypeOK
<1>1. CASE "PENDING" \in rows'[o]
  BY <1>1
<1>2. ASSUME NEW t \in Task, Turn(t) PROVE "PENDING" \in rows'[o]
  <2>1. CASE Leaves(t)
    <3>1. Op(t) \in Opp
      BY <1>0, <2>1, LeavesFrame
    <3> QED
      BY <1>0, <2>1, <3>1 DEF Leaves, Duplicate, DispatchFails, Save, Row
  <2>2. CASE ~Leaves(t)
    BY <1>0, <1>2, <2>2, BeforeFrame, OpenFrame, HandlesFrame DEF Turn, SameFlags
  <2> QED
    BY <2>1, <2>2
<1>3. ASSUME NEW r \in Pass, NEW p \in Opp, Poll(r, p)
      PROVE  rows'[o] \cap {"PENDING", "FILLED"} # {} \/ venue'[o].state = "gone"
  <2>1. CASE rows' = [rows EXCEPT ![p] = Closed(p)] /\ Ended(p)
    BY <1>0, <1>3, <2>1 DEF Poll, Closed, Ended
  <2> QED
    BY <1>3, <2>1 DEF Poll
<1>4. CASE Asks \/ UNCHANGED vars
  BY <1>0, <1>4, AsksFrame DEF vars, durable
<1>5. ASSUME NEW p \in Opp, VenueTakes(p) \/ VenueMoves(p) PROVE "PENDING" \in rows'[o]
  BY <1>5 DEF VenueTakes, VenueMoves, durable
<1> QED
  BY <1>2, <1>3, <1>4, <1>5, StepCases DEF Turn, Outside, Steady

LEMMA SubmittedStep ==
  ASSUME Steady, Landed, [Next]_vars, NEW o \in Opp, ledger'[o] = "SUBMITTED_UNCONFIRMED"
  PROVE  \/ rows'[o] \cap {"PENDING", "FILLED"} # {} \/ venue'[o].state = "gone"
         \/ \E t \in Task : Records(t)' /\ Op(t)' = o
<1>0. Typed /\ task \in [Task -> DeliveryType]
  BY DEF Steady, Dispatching, Typed, TypeOK
<1>1. CASE ledger[o] # "SUBMITTED_UNCONFIRMED"
  <2>1. PICK t \in Task : Mark(t) /\ Op(t) = o
    <3>1. ASSUME NEW t \in Task, Turn(t) PROVE Mark(t) /\ Op(t) = o
      <4>1. Op(t) = o
        BY <1>0, <1>1, <3>1, TurnFrame
      <4>2. CASE Open(t) \/ Duplicate(t)
        BY <1>0, <1>1, <4>2 DEF Open, Duplicate, Typed, TypeOK
      <4>3. CASE ~ (Mark(t) \/ Open(t) \/ Duplicate(t))
        <5>1. UNCHANGED ledger
          BY <1>0, <3>1, <4>3, BeforeFrame DEF Turn, Handles, Leaves, Dispatch, Hear, CallLost,
             Answer, Settle, Book, DispatchFails, Save, durable
        <5> QED
          BY <1>1, <5>1
      <4> QED
        BY <4>1, <4>2, <4>3
    <3>2. ~Asks
      <4>1. ASSUME NEW p \in Opp, NotPlaced(p) \/ \E r \in Pass : Resolve(r, p)
            PROVE  FALSE
        BY <1>0, <1>1, <4>1 DEF NotPlaced, Resolve, Typed, TypeOK
      <4> QED
        BY <1>1, <4>1 DEF Asks, StartPass, StartLookups, EndPass, Lookup, durable
    <3>3. ~Outside /\ ~UNCHANGED vars
      BY <1>1 DEF Outside, Poll, VenueTakes, VenueMoves, vars, durable
    <3> QED
      BY <3>1, <3>2, <3>3, StepCases DEF Turn, Steady
  <2>2. Records(t)' /\ Op(t)' = o
    BY <1>0, <2>1, GotoMoves DEF Mark, Records
  <2> QED
    BY <2>2
<1>2. CASE ledger[o] = "SUBMITTED_UNCONFIRMED"
  <2>1. CASE "PENDING" \in rows[o]
    BY <2>1, PendingRows
  <2>2. CASE "FILLED" \in rows[o]
    BY <1>0, <2>2, FilledRows
  <2>3. CASE venue[o].state = "gone"
    BY <1>2, <2>3, RestStays
  <2>4. ASSUME NEW t \in Task, Records(t), Op(t) = o, ~ (Records(t)' /\ Op(t)' = o)
        PROVE  "PENDING" \in rows'[o]
    <3>1. Save(t)
      <4>1. CASE Asks \/ Outside \/ UNCHANGED vars
        <5>1. UNCHANGED task
          BY <1>0, <4>1, AsksFrame DEF Outside, Poll, VenueTakes, VenueMoves, vars, durable
        <5> QED
          BY <2>4, <5>1 DEF Records, Op
      <4>2. ASSUME NEW u \in Task \ {t}, Turn(u) PROVE FALSE
        <5>1. OthersRest(u)
          BY <1>0, <4>2, TurnFrame
        <5> QED
          BY <2>4, <4>2, <5>1 DEF OthersRest, Records, Op
      <4>3. CASE Turn(t)
        <5>1. Handles(t) \/ Leaves(t)
          BY <1>0, <2>4, <4>3, BeforeFrame, OpenFrame DEF Turn, Records, Handling
        <5>2. CASE Settle(t) \/ Book(t)
          BY <1>0, <2>4, <5>2, GotoMoves DEF Settle, Book, Records
        <5> QED
          BY <2>4, <5>1, <5>2 DEF Handles, Leaves, Dispatch, Hear, CallLost, Answer, Mark,
             Duplicate,
             DispatchFails, At, Woken, Records
      <4> QED
        BY <4>1, <4>2, <4>3, StepCases DEF Turn, Steady
    <3>2. task[t].answer = "PENDING"
      BY <1>2, <2>4 DEF Steady, TasksAndLedger, Outcome
    <3> QED
      BY <1>0, <2>4, <3>1, <3>2 DEF Save, Row, Typed, TypeOK
  <2> QED
    BY <1>2, <2>1, <2>2, <2>3, <2>4 DEF Landed
<1> QED
  BY <1>1, <1>2

\* An ambiguous order is no longer on its way.
LEMMA AmbiguousLanded ==
  ASSUME Steady, Landed, NEW o \in Opp, ledger[o] = "UNKNOWN_AMBIGUOUS", ~Alive(o)
  PROVE  venue[o].state \in {"none", "gone"}
<1>1. venue[o].state # "sending"
  BY DEF Landed, Steady, TasksAndLedger, Dispatches
<1> QED
  BY <1>1 DEF Alive, Steady, Dispatching, Typed, TypeOK, VenueState

LEMMA RejectedStep ==
  ASSUME Steady, Landed, [Next]_vars, NEW o \in Opp, ledger'[o] = "REJECTED_CONFIRMED"
  PROVE  venue'[o].state \in {"none", "gone"}
<1>0. Typed
  BY DEF Steady, Dispatching
<1>1. CASE ledger[o] = "REJECTED_CONFIRMED"
  BY <1>1, RestStays DEF Landed
<1>2. CASE ledger[o] # "REJECTED_CONFIRMED"
  <2>1. ASSUME NEW t \in Task, Turn(t) PROVE venue'[o].state = "gone"
    <3>1. Op(t) = o
      BY <1>0, <1>2, <2>1, TurnFrame
    <3>2. CASE Mark(t)
      <4>1. Outcome(task[t].answer) = "REJECTED_CONFIRMED"
        BY <1>0, <3>1, <3>2 DEF Mark, Typed, TypeOK
      <4>2. task[t].answer = "REJECTED" /\ task[t].pc = "mark" /\ UNCHANGED venue
        BY <3>2, <4>1 DEF Outcome, Mark, At
      <4> QED
        BY <3>1, <4>2 DEF Steady, Dispatching, Covered
    <3>3. CASE Open(t) \/ Duplicate(t)
      BY <1>0, <1>2, <3>3 DEF Open, Duplicate, Typed, TypeOK
    <3>4. CASE ~ (Mark(t) \/ Open(t) \/ Duplicate(t))
      <4>1. UNCHANGED ledger
        BY <1>0, <2>1, <3>4, BeforeFrame DEF Turn, Handles, Leaves, Dispatch, Hear, CallLost,
           Answer, Settle, Book, DispatchFails, Save, durable
      <4> QED
        BY <1>2, <4>1
    <3> QED
      BY <3>2, <3>3, <3>4
  <2>2. CASE Asks
    <3>1. ASSUME NEW p \in Opp, NotPlaced(p) PROVE o = p /\ venue[o].state \in {"none", "gone"}
      BY <1>0, <1>2, <3>1, AmbiguousLanded DEF NotPlaced, Typed, TypeOK
    <3>2. ASSUME NEW r \in Pass, NEW p \in Opp, Resolve(r, p)
          PROVE  o = p /\ venue[o].state \in {"none", "gone"}
      BY <1>0, <1>2, <3>2 DEF Resolve, Landed, Typed, TypeOK
    <3>3. ASSUME NEW r \in Pass, StartPass(r) \/ StartLookups(r) \/ EndPass(r) PROVE FALSE
      BY <1>2, <3>3 DEF StartPass, StartLookups, EndPass, durable
    <3>4. ASSUME NEW r \in Pass, NEW p \in Opp, Lookup(r, p) PROVE FALSE
      BY <1>2, <3>4 DEF Lookup, durable
    <3>5. UNCHANGED venue
      BY <1>0, <2>2, AsksFrame
    <3> QED
      BY <2>2, <3>1, <3>2, <3>3, <3>4, <3>5 DEF Asks
  <2>3. ~Outside /\ ~UNCHANGED vars
    BY <1>2 DEF Outside, Poll, VenueTakes, VenueMoves, vars, durable
  <2> QED
    BY <2>1, <2>2, <2>3, StepCases DEF Turn, Steady
<1> QED
  BY <1>1, <1>2

LEMMA AskedStep ==
  ASSUME Steady, Landed, [Next]_vars, NEW r \in Pass, ~pass'[r].found, NEW o \in pass'[r].asked
  PROVE  venue'[o].state \in {"none", "gone"}
<1>0. Typed /\ pass \in [Pass -> PassType]
  BY DEF Steady, Dispatching, Typed, TypeOK
<1>1. o \in Opp
  BY DEF Steady, Typed, TypeOK, PassType
<1>2. CASE o \in pass[r].asked /\ ~pass[r].found
  <2>1. ledger[o] = "UNKNOWN_AMBIGUOUS" /\ venue[o].state \in {"none", "gone"}
    BY <1>2 DEF Landed, Steady, PassesAndLedger
  <2> QED
    BY <1>1, <2>1, RestStays
<1>3. CASE ~ (o \in pass[r].asked /\ ~pass[r].found)
  <2>1. pass'[r] # pass[r]
    BY <1>3
  <2>2. ASSUME NEW q \in Pass, NEW p \in Opp, Lookup(q, p)
        PROVE  venue'[o].state \in {"none", "gone"}
    <3>1. PICK found \in BOOLEAN :
            /\ ~found => ~Alive(p) \/ ~env.may.reads
            /\ pass' = [pass EXCEPT ![q].todo = @ \ {p}, ![q].asked = {p}, ![q].found = found]
      BY <2>2 DEF Lookup
    <3>2. r = q /\ o = p /\ ~found
      BY <1>0, <2>1, <3>1 DEF PassType
    <3>3. ledger[o] = "UNKNOWN_AMBIGUOUS" /\ UNCHANGED venue
      BY <2>2, <3>2 DEF Lookup, Steady, PassesAndLedger
    <3> QED
      BY <1>1, <3>1, <3>2, <3>3, AmbiguousLanded DEF Steady
  <2>3. ASSUME NEW q \in Pass, NEW p \in Opp, Resolve(q, p) PROVE FALSE
    BY <1>0, <1>3, <2>3 DEF Resolve, PassType
  <2>4. ASSUME NEW q \in Pass, StartPass(q) \/ StartLookups(q) \/ EndPass(q) PROVE FALSE
    <3>1. pass[q].asked = {}
      BY <2>4 DEF StartPass, StartLookups, EndPass, Steady, PassesAndLedger
    <3>2. pass'[q].asked = {} /\ (q # r => pass'[r] = pass[r])
      <4>1. CASE StartPass(q)
        BY <1>0, <4>1 DEF StartPass, Waiting
      <4>2. CASE StartLookups(q)
        BY <1>0, <3>1, <4>2 DEF StartLookups, PassType
      <4>3. CASE EndPass(q)
        BY <1>0, <4>3 DEF EndPass, Waiting
      <4> QED
        BY <2>4, <4>1, <4>2, <4>3
    <3> QED
      BY <2>1, <3>2
  <2>5. ASSUME NEW q \in Pass, NEW p \in Opp, Poll(q, p) PROVE FALSE
    BY <1>0, <1>3, <2>5 DEF Poll, PassType
  <2>6. ASSUME NEW p \in Opp, NotPlaced(p) \/ VenueTakes(p) \/ VenueMoves(p) PROVE FALSE
    BY <2>1, <2>6 DEF NotPlaced, VenueTakes, VenueMoves
  <2>7. ASSUME NEW t \in Task, Turn(t) PROVE FALSE
    BY <1>0, <2>1, <2>7, TurnFrame
  <2>8. ~UNCHANGED vars
    BY <2>1 DEF vars
  <2> QED
    BY <2>2, <2>3, <2>4, <2>5, <2>6, <2>7, <2>8, StepCases DEF Asks, Outside, Turn, Steady
<1> QED
  BY <1>2, <1>3

LEMMA LandedStep ==
  ASSUME Steady, Landed, [Next]_vars
  PROVE  Landed'
BY SendingStep, AbortedStep, SubmittedStep, RejectedStep, AskedStep DEF Landed

\* No release adds capital.
LEMMA FreedLess ==
  ASSUME Typed, NEW o \in Opp, Release(o)
  PROVE  \A p \in Opp : owed'[p] <= owed[p]
<1>1. owed \in [Opp -> Nat] /\ OnAccount(o[2]) \subseteq Opp
  BY DEF Typed, TypeOK, OnAccount, Opp
<1>2. ASSUME NEW q \in Opp, owed[q] > 0, owed' = [owed EXCEPT ![q] = @ - 1]
      PROVE  \A p \in Opp : owed'[p] <= owed[p]
  BY <1>1, <1>2
<1>3. CASE owed' = owed
  BY <1>1, <1>3
<1>4. owed' = owed \/ \E q \in Opp : owed[q] > 0 /\ owed' = [owed EXCEPT ![q] = @ - 1]
  BY <1>1 DEF Release, Freed
<1> QED
  BY <1>2, <1>3, <1>4

LEMMA ReservationsMean ==
  ASSUME NEW a \in Account, NEW r
  PROVE  r \in Reservations(a)
           <=> \E o \in OnAccount(a) : \E k \in 1 .. owed[o] : r = <<o, k>>
<1>1. ASSUME NEW o \in OnAccount(a), r \in {o} \X (1 .. owed[o])
      PROVE  \E k \in 1 .. owed[o] : r = <<o, k>>
  BY <1>1
<1> QED
  BY <1>1 DEF Reservations

LEMMA ReservationsLess ==
  ASSUME Typed, Typed', NEW a \in Account, \A p \in Opp : owed'[p] <= owed[p]
  PROVE  Reservations(a)' \subseteq Reservations(a)
<1>1. \A o \in OnAccount(a) : owed[o] \in Nat /\ owed'[o] \in Nat /\ owed'[o] <= owed[o]
  BY DEF Typed, TypeOK, OnAccount, Opp
<1>2. \A o \in OnAccount(a) : 1 .. owed'[o] \subseteq 1 .. owed[o]
  BY <1>1
<1> QED
  BY <1>2 DEF Reservations, OnAccount

\* One reservation less, the last one of o.
LEMMA ReservationsTraded ==
  ASSUME Typed, NEW a \in Account, NEW o \in OnAccount(a), owed[o] > 0,
         owed' = [owed EXCEPT ![o] = @ - 1]
  PROVE  /\ <<o, owed[o]>> \in Reservations(a)
         /\ Reservations(a)' \subseteq Reservations(a) \ {<<o, owed[o]>>}
<1>1. \A p \in OnAccount(a) : p \in Opp /\ owed[p] \in Nat
  BY DEF Typed, TypeOK, OnAccount, Opp
<1>2. /\ owed'[o] = owed[o] - 1
      /\ \A p \in OnAccount(a) \ {o} : owed'[p] = owed[p]
  BY <1>1 DEF Typed, TypeOK
<1>3. owed[o] \in 1 .. owed[o]
  BY <1>1
<1>4. \A p \in OnAccount(a) : 1 .. owed'[p] \subseteq 1 .. owed[p]
  BY <1>1, <1>2
<1>5. owed[o] \notin 1 .. owed'[o]
  BY <1>1, <1>2
<1>6. ASSUME NEW p \in OnAccount(a), NEW k \in 1 .. owed'[p]
      PROVE  <<p, k>> \in Reservations(a) \ {<<o, owed[o]>>}
  <2>1. k \in 1 .. owed[p]
    BY <1>4
  <2>2. <<p, k>> \in Reservations(a)
    BY <2>1, ReservationsMean
  <2>3. p = o => k # owed[o]
    BY <1>5
  <2> QED
    BY <2>2, <2>3
<1>7. <<o, owed[o]>> \in Reservations(a)
  BY <1>3, ReservationsMean
<1>8. Reservations(a)' \subseteq Reservations(a) \ {<<o, owed[o]>>}
  <2>1. ASSUME NEW r \in Reservations(a)' PROVE r \in Reservations(a) \ {<<o, owed[o]>>}
    <3>1. PICK p \in OnAccount(a) : r \in {p} \X (1 .. owed'[p])
      BY DEF Reservations, OnAccount
    <3>2. PICK k \in 1 .. owed'[p] : r = <<p, k>>
      BY <3>1
    <3> QED
      BY <1>6, <3>2
  <2> QED
    BY <2>1
<1> QED
  BY <1>7, <1>8

\* One reservation more, for o.
LEMMA ReservationsMore ==
  ASSUME Typed, NEW a \in Account, NEW o \in Opp, owed' = [owed EXCEPT ![o] = @ + 1]
  PROVE  /\ Reservations(a)' \subseteq Reservations(a) \cup {<<o, owed[o] + 1>>}
         /\ o[2] # a => Reservations(a)' \subseteq Reservations(a)
<1>1. \A p \in OnAccount(a) : p \in Opp /\ owed[p] \in Nat /\ p[2] = a
  BY DEF Typed, TypeOK, OnAccount, Opp
<1>2. owed'[o] = owed[o] + 1 /\ \A p \in Opp \ {o} : owed'[p] = owed[p]
  BY DEF Typed, TypeOK
<1>3. ASSUME NEW p \in OnAccount(a), NEW k \in 1 .. owed'[p]
      PROVE  <<p, k>> \in Reservations(a) \/ (p = o /\ k = owed[o] + 1)
  <2>1. k \in 1 .. owed[p] \/ (p = o /\ k = owed[o] + 1)
    BY <1>1, <1>2
  <2> QED
    BY <2>1, ReservationsMean
<1>4. ASSUME NEW r \in Reservations(a)'
      PROVE  r \in Reservations(a) \/ (r = <<o, owed[o] + 1>> /\ o[2] = a)
  <2>1. PICK p \in OnAccount(a) : r \in {p} \X (1 .. owed'[p])
    BY DEF Reservations, OnAccount
  <2>2. PICK k \in 1 .. owed'[p] : r = <<p, k>>
    BY <2>1
  <2> QED
    BY <1>1, <1>3, <2>2
<1> QED
  BY <1>4

\* Only a reservation adds to what is owed.
NoneAdded == \A p \in Opp : owed'[p] <= owed[p]

LEMMA OwedKept ==
  ASSUME Typed, UNCHANGED owed
  PROVE  NoneAdded
BY DEF Typed, TypeOK, NoneAdded

LEMMA OwedSteps ==
  ASSUME Typed, [Next]_vars
  PROVE  (\E t \in Task : Reserve(t)) \/ NoneAdded
<1>1. ASSUME NEW o \in Opp, Release(o) \/ UNCHANGED owed PROVE NoneAdded
  BY <1>1, FreedLess, OwedKept DEF NoneAdded
<1>2. ASSUME NEW t \in Task, Turn(t), ~Reserve(t) PROVE NoneAdded
  <2>1. CASE Bind(t) \/ Blocked(t) \/ Leaves(t) \/ Settle(t)
    <3>1. Op(t) \in Opp
      BY <2>1, OppOfTask, LeavesFrame DEF Bind, Blocked, Settle, At, Woken, AtAccount, Typed
    <3>2. Release(Op(t)) \/ UNCHANGED owed
      BY <2>1 DEF Bind, Blocked, Leaves, Duplicate, DispatchFails, Settle, Save
    <3> QED
      BY <1>1, <3>1, <3>2
  <2>2. CASE ~ (Bind(t) \/ Blocked(t) \/ Leaves(t) \/ Settle(t))
    <3>1. ASSUME Before(t) PROVE UNCHANGED owed
      BY <1>2, <2>2, <3>1 DEF Before, Gate, Admit, Exclude, Claim, Pick, Screen, Conclude,
         OverCeiling, Resources, Mismatch, Deliver, durable
    <3>2. ASSUME Open(t) \/ Handles(t) PROVE UNCHANGED owed
      BY <2>2, <3>2 DEF Open, Handles, Dispatch, Hear, CallLost, Answer, Mark, Book, durable
    <3>3. UNCHANGED owed
      BY <1>2, <2>2, <3>1, <3>2 DEF Turn
    <3> QED
      BY <3>3, OwedKept
  <2> QED
    BY <2>1, <2>2
<1>3. ASSUME NEW o \in Opp, NotPlaced(o) \/ \E r \in Pass : Resolve(r, o) \/ Poll(r, o)
      PROVE  NoneAdded
  <2>1. Release(o) \/ UNCHANGED owed
    BY <1>3 DEF NotPlaced, Resolve, Poll
  <2> QED
    BY <1>1, <2>1
<1>4. ASSUME NEW r \in Pass,
             StartPass(r) \/ StartLookups(r) \/ EndPass(r) \/ \E o \in Opp : Lookup(r, o)
      PROVE  NoneAdded
  <2>1. UNCHANGED owed
    BY <1>4 DEF StartPass, StartLookups, EndPass, Lookup, durable
  <2> QED
    BY <2>1, OwedKept
<1>5. CASE (\E o \in Opp : VenueTakes(o) \/ VenueMoves(o)) \/ Crash \/ UNCHANGED vars
  <2>1. UNCHANGED owed
    BY <1>5 DEF VenueTakes, VenueMoves, Crash, durable, vars
  <2> QED
    BY <2>1, OwedKept
<1> QED
  BY <1>2, <1>3, <1>4, <1>5, StepCases DEF Turn, Asks, Outside

\* What begins to count as a fill.
LEMMA SpentSteps ==
  ASSUME Steady, [Next]_vars, NEW o \in Opp, Spent(o)'
  PROVE  \/ Spent(o)
         \/ \E t \in Task : Settle(t) /\ task[t].answer = "FILLED" /\ Op(t) = o
         \/ \E r \in Pass : Poll(r, o) /\ Release(o)
<1>0. Typed
  BY DEF Steady, Dispatching
<1>1. CASE "FILLED" \in rows'[o]
  <2>1. ASSUME NEW t \in Task, Save(t), Op(t) = o, task[t].answer = "FILLED" PROVE Spent(o)
    BY <2>1 DEF Save, At, Spent, Due
  <2> QED
    BY <1>0, <1>1, <2>1, FilledRows DEF Spent
<1>2. CASE Due(o)'
  <2>1. PICK t \in Task : /\ task'[t].pc \in {"book", "save"} /\ task'[t].answer = "FILLED"
                          /\ Op(t)' = o
    BY <1>2 DEF Due
  <2>2. CASE task'[t] = task[t]
    BY <2>1, <2>2 DEF Spent, Due, Op
  <2>3. CASE task'[t] # task[t]
    <3>1. Turn(t)
      <4>1. ASSUME NEW u \in Task \ {t}, Turn(u) PROVE FALSE
        BY <1>0, <2>3, <4>1, TurnFrame DEF OthersRest
      <4>2. CASE Asks \/ Outside \/ UNCHANGED vars
        BY <1>0, <2>3, <4>2, AsksFrame DEF Outside, Poll, VenueTakes, VenueMoves, vars, durable
      <4> QED
        BY <4>1, <4>2, StepCases DEF Turn, Steady
    <3>2. Settle(t) \/ Book(t)
      <4>1. Handles(t)
        BY <1>0, <2>1, <3>1, BeforeFrame, OpenFrame, LeavesFrame DEF Turn, Handling
      <4>2. ~Dispatch(t) /\ ~Answer(t) /\ ~Mark(t)
        BY <1>0, <2>1, GotoMoves DEF Dispatch, Answer, Mark
      <4>3. ~Hear(t) /\ ~CallLost(t)
        <5>1. task \in [Task -> DeliveryType]
          BY <1>0 DEF Typed, TypeOK
        <5> QED
          BY <2>1, <5>1 DEF Hear, CallLost, DeliveryType
      <4> QED
        BY <4>1, <4>2, <4>3 DEF Handles
    <3>3. task[t].answer = "FILLED" /\ Op(t) = o
      BY <1>0, <2>1, <3>2, GotoMoves DEF Settle, Book
    <3>4. Book(t) => Spent(o)
      BY <3>3 DEF Book, At, Spent, Due
    <3> QED
      BY <3>2, <3>3, <3>4
  <2> QED
    BY <2>2, <2>3
<1> QED
  BY <1>1, <1>2 DEF Spent

LEMMA SpentFinite ==
  ASSUME NEW a \in Account, NEW T, T \subseteq OnAccount(a)
  PROVE  IsFiniteSet(T) /\ Cardinality(T) \in Nat
<1>1. IsFiniteSet(OnAccount(a))
  BY SignalAssumption, FS_Singleton, FS_Product DEF OnAccount
<1> QED
  BY <1>1, FS_Subset, FS_CardinalityType

LEMMA WithinKept ==
  ASSUME Typed, NEW a \in Account, Within(a), env'.may = env.may,
         SpentOn(a)' \subseteq SpentOn(a), Reservations(a)' \subseteq Reservations(a)
  PROVE  Within(a)'
<1> DEFINE S == SpentOn(a)  T == SpentOn(a)'  R == Reservations(a)  Q == Reservations(a)'
<1>1. S \subseteq OnAccount(a) /\ IsFiniteSet(S) /\ Cardinality(S) \in Nat
  BY SpentFinite DEF SpentOn
<1>2. IsFiniteSet(T) /\ Cardinality(T) <= Cardinality(S) /\ Cardinality(T) \in Nat
  BY <1>1, FS_Subset, FS_CardinalityType
<1>3. IsFiniteSet(R) /\ Cardinality(R) \in Nat
  BY FS_CardinalityType DEF Within
<1>4. IsFiniteSet(Q) /\ Cardinality(Q) <= Cardinality(R) /\ Cardinality(Q) \in Nat
  BY <1>3, FS_Subset, FS_CardinalityType
<1>5. env.may.ceiling \in Nat /\ Cardinality(S) + Cardinality(R) <= env.may.ceiling
  BY SettingAssumption DEF Within, Typed, TypeOK, SettingType
<1>6. Cardinality(T) + Cardinality(Q) <= env.may.ceiling
  BY <1>1, <1>2, <1>3, <1>4, <1>5
<1> QED
  BY <1>4, <1>6 DEF Within

\* A reservation is traded for a fill.
LEMMA WithinTraded ==
  ASSUME Typed, NEW a \in Account, Within(a), env'.may = env.may,
         NEW o, SpentOn(a)' \subseteq SpentOn(a) \cup {o},
         NEW r \in Reservations(a), Reservations(a)' \subseteq Reservations(a) \ {r}
  PROVE  Within(a)'
<1> DEFINE S == SpentOn(a)  T == SpentOn(a)'  R == Reservations(a)  Q == Reservations(a)'
<1>1. IsFiniteSet(S) /\ Cardinality(S) \in Nat
  BY SpentFinite DEF SpentOn
<1>2. IsFiniteSet(S \cup {o}) /\ Cardinality(S \cup {o}) <= Cardinality(S) + 1
  <2>1. /\ IsFiniteSet(S \cup {o})
        /\ Cardinality(S \cup {o}) = IF o \in S THEN Cardinality(S) ELSE Cardinality(S) + 1
    BY <1>1, FS_AddElement
  <2> HIDE DEF S
  <2> QED
    BY <1>1, <2>1
<1>3. IsFiniteSet(T) /\ Cardinality(T) <= Cardinality(S) + 1 /\ Cardinality(T) \in Nat
  <2>1. Cardinality(S \cup {o}) \in Nat
    BY <1>2, FS_CardinalityType
  <2>2. IsFiniteSet(T) /\ Cardinality(T) <= Cardinality(S \cup {o})
    BY <1>2, FS_Subset
  <2>3. Cardinality(T) \in Nat
    BY <2>2, FS_CardinalityType
  <2> QED
    BY <1>1, <1>2, <2>1, <2>2, <2>3
<1>4. IsFiniteSet(R) /\ Cardinality(R) \in Nat
  BY FS_CardinalityType DEF Within
<1>5. IsFiniteSet(R \ {r}) /\ Cardinality(R \ {r}) = Cardinality(R) - 1
  BY <1>4, FS_RemoveElement
<1>6. IsFiniteSet(Q) /\ Cardinality(Q) <= Cardinality(R) - 1 /\ Cardinality(Q) \in Nat
  BY <1>5, FS_Subset, FS_CardinalityType
<1>7. env.may.ceiling \in Nat /\ Cardinality(S) + Cardinality(R) <= env.may.ceiling
  BY SettingAssumption DEF Within, Typed, TypeOK, SettingType
<1>8. Cardinality(T) + Cardinality(Q) <= env.may.ceiling
  BY <1>1, <1>3, <1>4, <1>6, <1>7
<1> QED
  BY <1>6, <1>8 DEF Within

\* A fill takes the place of the capital that was held for it.
LEMMA Traded ==
  ASSUME Steady, \A a \in Account : Within(a), NEW o \in Opp, Obliged(o), Release(o),
         \A p \in Opp \ {o} : Spent(p)' => Spent(p)
  PROVE  \A a \in Account : Within(a)'
<1>0. Typed /\ Typed' /\ env'.may = env.may
  BY DEF Steady, Dispatching
<1>1. owed[o] > 0
  <2>1. owed[o] \in Nat /\ owed[o] >= Needed(o) /\ Needed(o) \in {1, 2}
    BY <1>0 DEF Steady, Owing, Needed, Typed, TypeOK
  <2> QED
    BY <2>1
<1>2. owed' = [owed EXCEPT ![o] = @ - 1]
  BY <1>0, <1>1, FreedOwn
<1>3. ASSUME NEW a \in Account, o \in OnAccount(a) PROVE Within(a)'
  <2>1. SpentOn(a)' \subseteq SpentOn(a) \cup {o}
    BY DEF SpentOn, OnAccount, Opp
  <2>2. /\ <<o, owed[o]>> \in Reservations(a)
        /\ Reservations(a)' \subseteq Reservations(a) \ {<<o, owed[o]>>}
    BY <1>0, <1>1, <1>2, <1>3, ReservationsTraded
  <2> QED
    BY <1>0, <2>1, <2>2, WithinTraded
<1>4. ASSUME NEW a \in Account, o \notin OnAccount(a) PROVE Within(a)'
  <2>1. SpentOn(a)' \subseteq SpentOn(a)
    BY <1>4 DEF SpentOn, OnAccount, Opp
  <2>2. Reservations(a)' \subseteq Reservations(a)
    BY <1>0, FreedLess, ReservationsLess
  <2> QED
    BY <1>0, <2>1, <2>2, WithinKept
<1> QED
  BY <1>3, <1>4

\* The ceiling admits the reservation: no fill is on its way to a row.
LEMMA WithinReserved ==
  ASSUME Steady, [Next]_vars, \A a \in Account : Within(a), NEW t \in Task, Reserve(t)
  PROVE  \A a \in Account : Within(a)'
<1>0. Typed /\ Typed' /\ env'.may = env.may
  BY DEF Steady, Dispatching
<1>1. /\ running = Nobody /\ UNCHANGED <<rows, pass>> /\ Op(t) \in Opp
      /\ task[t].at \in Account
  BY <1>0, OppOfTask DEF Reserve, Woken, AtAccount, Typed, Placed
<1>2. \A o \in Opp : ~Due(o)
  BY <1>1, NobodyAssumption DEF Steady, TasksAndLedger, Records, Due
<1>3. \A o \in Opp : Spent(o)' => Spent(o)
  <2>1. ASSUME NEW u \in Task, Settle(u) PROVE FALSE
    BY <1>1, <2>1, NobodyAssumption DEF Settle, At
  <2>2. ASSUME NEW r \in Pass, NEW o \in Opp, Poll(r, o) PROVE FALSE
    BY <1>0, <1>1, <2>2 DEF Poll, Typed, TypeOK, PassType
  <2> QED
    BY <2>1, <2>2, SpentSteps
<1>4. owed' = [owed EXCEPT ![Op(t)] = @ + 1]
  BY DEF Reserve
<1>5. ASSUME NEW a \in Account PROVE SpentOn(a)' \subseteq SpentOn(a)
  BY <1>3 DEF SpentOn, OnAccount, Opp
<1>6. ASSUME NEW a \in Account, a # task[t].at PROVE Within(a)'
  <2>1. Reservations(a)' \subseteq Reservations(a)
    BY <1>0, <1>1, <1>4, <1>6, ReservationsMore DEF Op
  <2> QED
    BY <1>0, <1>5, <2>1, WithinKept
<1>7. ASSUME NEW a \in Account, a = task[t].at PROVE Within(a)'
  <2> DEFINE S == SpentOn(a)  T == SpentOn(a)'  R == Reservations(a)  Q == Reservations(a)'
             new == <<Op(t), owed[Op(t)] + 1>>
  <2>1. Cardinality(S) + Cardinality(R) + 1 <= env.may.ceiling
    <3>1. S = {o \in OnAccount(a) : "FILLED" \in rows[o]}
      BY <1>2 DEF SpentOn, Spent, OnAccount, Opp
    <3> QED
      BY <1>7, <3>1 DEF Reserve, Exposure
  <2>2. IsFiniteSet(S) /\ Cardinality(S) \in Nat /\ IsFiniteSet(R) /\ Cardinality(R) \in Nat
    BY SpentFinite, FS_CardinalityType DEF SpentOn, Within
  <2>3. IsFiniteSet(T) /\ Cardinality(T) <= Cardinality(S) /\ Cardinality(T) \in Nat
    BY <1>5, <2>2, FS_Subset, FS_CardinalityType
  <2>4. Q \subseteq R \cup {new}
    BY <1>0, <1>1, <1>4, ReservationsMore
  <2>5. IsFiniteSet(R \cup {new}) /\ Cardinality(R \cup {new}) <= Cardinality(R) + 1
    <3>1. /\ IsFiniteSet(R \cup {new})
          /\ Cardinality(R \cup {new}) = IF new \in R THEN Cardinality(R) ELSE Cardinality(R) + 1
      BY <2>2, FS_AddElement
    <3> HIDE DEF R, new
    <3> QED
      BY <2>2, <3>1
  <2>6. /\ IsFiniteSet(Q) /\ Cardinality(Q) <= Cardinality(R \cup {new}) /\ Cardinality(Q) \in Nat
        /\ Cardinality(R \cup {new}) \in Nat
    BY <2>4, <2>5, FS_Subset, FS_CardinalityType
  <2>7. env.may.ceiling \in Nat
    BY <1>0, SettingAssumption DEF Typed, TypeOK, SettingType
  <2>8. Cardinality(T) + Cardinality(Q) <= env.may.ceiling
    <3> HIDE DEF S, T, R, Q, new
    <3> QED
      BY <2>1, <2>2, <2>3, <2>5, <2>6, <2>7
  <2> QED
    BY <1>0, <2>6, <2>8 DEF Within
<1> QED
  BY <1>6, <1>7

LEMMA WithinStep ==
  ASSUME Steady, [Next]_vars, \A a \in Account : Within(a)
  PROVE  \A a \in Account : Within(a)'
<1>0. Typed /\ Typed' /\ env'.may = env.may
  BY DEF Steady, Dispatching
<1>1. CASE \E t \in Task : Reserve(t)
  BY <1>1, WithinReserved
<1>2. ASSUME NEW t \in Task, Settle(t), task[t].answer = "FILLED"
      PROVE  \A a \in Account : Within(a)'
  <2>1. Op(t) \in Opp /\ Settles(t) /\ running = t
    BY <1>0, <1>2, OppOfTask DEF Settle, At, Settles, AtAccount, Typed
  <2>2. Obliged(Op(t)) /\ Release(Op(t))
    BY <1>2, <2>1 DEF Obliged, Settle, Holds
  <2>3. ASSUME NEW p \in Opp \ {Op(t)}, Spent(p)' PROVE Spent(p)
    <3>1. ASSUME NEW u \in Task, Settle(u) PROVE u = t
      BY <2>1, <3>1 DEF Settle, At
    <3>2. ASSUME NEW r \in Pass, Poll(r, p) PROVE FALSE
      BY <2>1, <3>2, NobodyAssumption DEF Poll
    <3> QED
      BY <2>3, <3>1, <3>2, SpentSteps
  <2> QED
    BY <2>1, <2>2, <2>3, Traded
<1>3. ASSUME NEW r \in Pass, NEW o \in Opp, Poll(r, o), Release(o)
      PROVE  \A a \in Account : Within(a)'
  <2>1. Obliged(o) /\ running = Nobody
    BY <1>3 DEF Poll, Obliged, Steady, PassesAndRows
  <2>2. ASSUME NEW p \in Opp \ {o}, Spent(p)' PROVE Spent(p)
    <3>1. ASSUME NEW u \in Task, Settle(u) PROVE FALSE
      BY <2>1, <3>1, NobodyAssumption DEF Settle, At
    <3>2. ASSUME NEW q \in Pass, Poll(q, p) PROVE FALSE
      <4>1. pass \in [Pass -> PassType] /\ o \in pass[r].todo /\ p \in pass[q].todo
        BY <1>0, <1>3, <3>2 DEF Typed, TypeOK, Poll
      <4>2. pass'[r].todo = pass[r].todo \ {o} /\ \A s \in Pass \ {r} : pass'[s] = pass[s]
        BY <1>3, <4>1 DEF Poll, PassType
      <4>3. pass'[q].todo = pass[q].todo \ {p}
        BY <3>2, <4>1 DEF Poll, PassType
      <4> QED
        BY <4>1, <4>2, <4>3
    <3> QED
      BY <2>2, <3>1, <3>2, SpentSteps
  <2> QED
    BY <1>3, <2>1, <2>2, Traded
<1>4. CASE /\ NoneAdded
           /\ \A o \in Opp : Spent(o)' => Spent(o)
  <2>1. ASSUME NEW a \in Account PROVE Within(a)'
    <3>1. SpentOn(a)' \subseteq SpentOn(a)
      BY <1>4 DEF SpentOn, OnAccount, Opp
    <3>2. Reservations(a)' \subseteq Reservations(a)
      BY <1>0, <1>4, ReservationsLess DEF NoneAdded
    <3> QED
      BY <1>0, <3>1, <3>2, WithinKept
  <2> QED
    BY <2>1
<1> QED
  BY <1>0, <1>1, <1>2, <1>3, <1>4, OwedSteps, SpentSteps

LEMMA CeilingStep ==
  ASSUME Dispatching, Booking, Capital, Ceiling, [Next]_vars
  PROVE  Ceiling'
<1>1. env'.may = env.may
  BY MayKept DEF Dispatching
<1> SUFFICES ASSUME Calm PROVE Kept' /\ Landed' /\ \A a \in Account : Within(a)'
  BY <1>1 DEF Ceiling, Calm, Undisturbed
<1>2. Steady
  BY SteadyStep
<1> QED
  BY <1>2, KeptStep, LandedStep, WithinStep DEF Ceiling

LEMMA CeilingInit == Init => Ceiling
<1> SUFFICES ASSUME Init PROVE Ceiling
  OBVIOUS
<1>0. /\ \A t \in Task : task[t].pc = "idle"
      /\ \A o \in Opp : ledger[o] = "NONE" /\ rows[o] = {} /\ owed[o] = 0 /\ venue[o].state = "none"
      /\ \A r \in Pass : pass[r].asked = {}
  BY DEF Init, Resting, Waiting
<1>1. Kept
  BY <1>0 DEF Kept, Found
<1>2. Landed
  BY <1>0 DEF Landed, Aborted
<1>3. ASSUME NEW a \in Account PROVE Within(a)
  <2>1. \A o \in OnAccount(a) : 1 .. owed[o] = {}
    BY <1>0 DEF OnAccount, Opp
  <2>2. Reservations(a) = {}
    BY <2>1 DEF Reservations
  <2>3. SpentOn(a) = {}
    BY <1>0 DEF SpentOn, Spent, Due, OnAccount, Opp
  <2>4. env.may.ceiling \in Nat
    BY SettingAssumption DEF Init, SettingType
  <2>5. IsFiniteSet({}) /\ Cardinality({}) = 0
    BY FS_EmptySet
  <2> QED
    BY <2>2, <2>3, <2>4, <2>5 DEF Within
<1> QED
  BY <1>1, <1>2, <1>3 DEF Ceiling

\* Every order alive counts: as a fill or with capital reserved for it.
LEMMA AliveCounted ==
  ASSUME Dispatching, TasksAndLedger, Owing, Kept, Landed, NEW o \in Opp, Alive(o)
  PROVE  Spent(o) \/ owed[o] >= 1
<1>0. owed[o] \in Nat /\ Needed(o) \in 0 .. 2 /\ owed[o] >= Needed(o)
  BY DEF Dispatching, Typed, TypeOK, Needed, Owing
<1>1. ASSUME Obliged(o) PROVE owed[o] >= 1
  BY <1>0, <1>1 DEF Needed
<1>2. ledger[o] \notin {"NONE", "REJECTED_CONFIRMED"}
  BY DEF Dispatching, Sent, Untouched, Landed, Alive
<1>3. CASE ledger[o] = "PENDING_SUBMISSION"
  BY <1>1, <1>3 DEF Landed, Untouched, Alive, Obliged
<1>4. CASE ledger[o] = "UNKNOWN_AMBIGUOUS"
  BY <1>1, <1>4 DEF Obliged
<1>5. CASE ledger[o] = "SUBMITTED_UNCONFIRMED"
  <2>1. ASSUME NEW t \in Task, Records(t), Op(t) = o PROVE Obliged(o)
    <3>1. task[t].answer = "PENDING"
      BY <1>5, <2>1 DEF TasksAndLedger, Outcome
    <3> QED
      BY <2>1, <3>1 DEF Obliged, Settles, Holds
  <2>2. "PENDING" \in rows[o] \/ "FILLED" \in rows[o] \/ \E t \in Task : Records(t) /\ Op(t) = o
    BY <1>5 DEF Landed, Alive
  <2> QED
    BY <1>1, <2>1, <2>2 DEF Obliged, Spent
<1>6. CASE ledger[o] = "CONFIRMED"
  <2>1. CASE Found(o)
    BY <1>0, <2>1 DEF Kept
  <2>2. ASSUME NEW t \in Task, Fills(t), Op(t) = o PROVE Spent(o) \/ Obliged(o)
    BY <2>2 DEF Fills, Records, Spent, Due, Obliged, Settles
  <2> QED
    BY <1>1, <1>6, <2>1, <2>2 DEF Found, Spent
<1> QED
  BY <1>2, <1>3, <1>4, <1>5, <1>6 DEF Dispatching, Typed, TypeOK, LedgerState

LEMMA CountedUnder ==
  ASSUME NEW S, NEW T, NEW R, IsFiniteSet(T), IsFiniteSet(R),
         \A o \in S \ T : <<o, 1>> \in R
  PROVE  Cardinality(S) <= Cardinality(T) + Cardinality(R)
<1> DEFINE U == S \ T  f == [o \in U |-> <<o, 1>>]
<1>1. f \in Injection(U, R)
  BY DEF Injection, IsInjective
<1>2. IsFiniteSet(U) /\ Cardinality(U) <= Cardinality(R)
  BY <1>1, FS_Injection
<1>3. /\ IsFiniteSet(T \cup U)
      /\ Cardinality(T \cup U) = Cardinality(T) + Cardinality(U) - Cardinality(T \cap U)
  BY <1>2, FS_Union
<1>4. IsFiniteSet(T \cap U) /\ S \subseteq T \cup U
  BY <1>2, FS_Subset
<1>5. Cardinality(S) <= Cardinality(T \cup U) /\ IsFiniteSet(S)
  BY <1>3, <1>4, FS_Subset
<1>6. /\ Cardinality(S) \in Nat /\ Cardinality(T) \in Nat /\ Cardinality(R) \in Nat
      /\ Cardinality(U) \in Nat /\ Cardinality(T \cap U) \in Nat
  BY <1>2, <1>4, <1>5, FS_CardinalityType
<1> HIDE DEF U
<1> QED
  BY <1>2, <1>3, <1>5, <1>6

\* The orders alive at the venue never exceed the account's ceiling, whichever
\* deliveries race for it, answers are lost, dispatches fail and passes run, in
\* the runs Calm admits.
THEOREM NothingOvercommitted == Spec => []NeverOvercommitted
<1>1. Init => Booking
  BY DEF Init, Booking, RowsAndBookings, TasksAndBookings, PassesAndRows, Resting, Waiting,
         Handling, Answered
<1>2. Dispatching /\ Booking /\ [Next]_vars => Booking'
  BY BookingStep
<1>3. Dispatching /\ Booking /\ Capital /\ [Next]_vars => Capital'
  BY CapitalStep
<1>4. Dispatching /\ Booking /\ Capital /\ Ceiling /\ [Next]_vars => Ceiling'
  BY CeilingStep
<1>5. Dispatching /\ Capital /\ Ceiling => NeverOvercommitted
  <2>1. ASSUME Dispatching, Capital, Ceiling, Calm, NEW a \in Account
        PROVE  Cardinality({o \in OnAccount(a) : Alive(o)}) <= env.may.ceiling
    <3> DEFINE S == {o \in OnAccount(a) : Alive(o)}  T == SpentOn(a)  R == Reservations(a)
    <3>1. TasksAndLedger /\ Owing /\ Kept /\ Landed /\ Within(a)
      BY <2>1 DEF Capital, Ceiling, Calm
    <3>2. /\ S \subseteq OnAccount(a) /\ IsFiniteSet(S) /\ Cardinality(S) \in Nat
          /\ IsFiniteSet(T) /\ Cardinality(T) \in Nat
      BY SpentFinite DEF SpentOn
    <3>3. IsFiniteSet(R) /\ Cardinality(R) \in Nat
      BY <3>1, FS_CardinalityType DEF Within
    <3>4. ASSUME NEW o \in S \ T PROVE <<o, 1>> \in R
      <4>1. o \in OnAccount(a) /\ o \in Opp /\ owed[o] \in Nat
        BY <2>1 DEF OnAccount, Opp, Dispatching, Typed, TypeOK
      <4>2. owed[o] >= 1
        BY <2>1, <3>1, <3>4, <4>1, AliveCounted DEF SpentOn
      <4>3. 1 \in 1 .. owed[o]
        BY <4>1, <4>2
      <4> QED
        BY <4>1, <4>3, ReservationsMean
    <3>5. Cardinality(S) <= Cardinality(T) + Cardinality(R)
      BY <3>2, <3>3, <3>4, CountedUnder
    <3>6. env.may.ceiling \in Nat /\ Cardinality(T) + Cardinality(R) <= env.may.ceiling
      BY <2>1, <3>1, SettingAssumption DEF Within, Dispatching, Typed, TypeOK, SettingType
    <3> HIDE DEF S, T, R
    <3>7. Cardinality(S) <= env.may.ceiling
      BY <3>2, <3>3, <3>5, <3>6
    <3> QED
      BY <3>7 DEF S
  <2> QED
    BY <2>1 DEF NeverOvercommitted
<1> QED
  BY <1>1, <1>2, <1>3, <1>4, <1>5, CapitalInit, CeilingInit, DispatchingInit, DispatchingStep, PTL
     DEF Spec
=============================================================================
