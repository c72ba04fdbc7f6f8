------------------------- MODULE ExportRelayProofs --------------------------
(* Proofs about ExportRelay for any events, streams, batch sizes and faults.  *)
EXTENDS ExportRelay, FiniteSetTheorems, WellFoundedInduction, TLAPS

-----------------------------------------------------------------------------
(* A nonempty set of numbers below a bound has a greatest element: the sets   *)
(* of numbers above its members are finite, and one of them is smallest.      *)
LEMMA Greatest ==
  ASSUME NEW n \in Nat, NEW S, S \subseteq 0..n, S # {}
  PROVE  \E k \in S : \A j \in S : k >= j
<1> DEFINE Above(k) == {j \in 0..n : j > k}
           T == {Above(k) : k \in S}
           R == StrictSubsetOrdering(0..n)
<1>1. IsFiniteSet(0..n)
  BY FS_Interval
<1>2. IsWellFoundedOn(R, FiniteSubsetsOf(0..n))
  BY <1>1, FS_StrictSubsetOrderingWellFounded
<1>3. T \subseteq FiniteSubsetsOf(0..n) /\ T # {}
  <2>1. \A k \in S : Above(k) \subseteq 0..n  OBVIOUS
  <2>2. \A k \in S : IsFiniteSet(Above(k))  BY <1>1, <2>1, FS_Subset
  <2> QED BY <2>1, <2>2 DEF FiniteSubsetsOf
<1>4. \E x \in T : \A y \in T : ~(<<y, x>> \in R)
  <2> HIDE DEF R, T
  <2> QED BY <1>2, <1>3, WFMin
<1>5. PICK k \in S : \A j \in S : ~(<<Above(j), Above(k)>> \in R)
  BY <1>4
<1>6. ASSUME NEW j \in S, ~(k >= j)  PROVE FALSE
  <2>1. Above(j) \subseteq Above(k) /\ j \in Above(k) /\ j \notin Above(j)
    BY <1>6
  <2>2. <<Above(j), Above(k)>> \in R
    BY <2>1 DEF StrictSubsetOrdering
  <2> QED BY <1>5, <2>2
<1> QED BY <1>6

LEMMA MaxOf ==
  ASSUME NEW n \in Nat, NEW S, S \subseteq 0..n, S # {}
  PROVE  Max(S) \in S /\ \A j \in S : Max(S) >= j
BY Greatest DEF Max

-----------------------------------------------------------------------------
(* The inductive invariant.                                                  *)

\* No two rows of a stream have one sequence, and a stream has no hole.
OwnSlots == \A e, f \in Recorded : StreamOf[e] = StreamOf[f] /\ slot[e] = slot[f] => e = f
NoHole(s) == \E n \in Nat : {slot[e] : e \in Peers(s)} = 0..(n - 1)

\* An answer is not ahead of the inbox, and parked for good is for ever.
Told(e, status) ==
  /\ status = "applied" => e \in applied
  /\ status = "structural" => reason[e] = "structural"
HonestAnswers == \A e \in Event : Told(e, said[e]) /\ Told(e, ans[e])
ForeignStays ==
  /\ \A e \in applied : Kind[e] # "foreign"
  /\ \A e \in Event : reason[e] = "structural" => Kind[e] = "foreign"

IInv ==
  /\ TypeOK
  /\ OwnSlots /\ \A s \in Nat : NoHole(s)
  /\ AppliedInOrder /\ HonestOutbox
  /\ HonestAnswers /\ ForeignStays

LEMMA InitIInv == Init => IInv
<1> SUFFICES ASSUME Init PROVE IInv
  OBVIOUS
<1>1. Recorded = {} /\ Recorded \subseteq Event
  BY DEF Init, Recorded
<1>2. TypeOK
  BY <1>1, BoundAssumption DEF Init, TypeOK, NoAnswer, Status, None
<1>3. ASSUME NEW s \in Nat PROVE NoHole(s)
  <2>1. {slot[e] : e \in Peers(s)} = 0..(0 - 1)
    BY <1>1 DEF Peers
  <2> QED BY <2>1 DEF NoHole
<1>4. HonestAnswers
  BY DEF Init, HonestAnswers, Told, NoAnswer
<1> QED
  BY <1>1, <1>2, <1>3, <1>4 DEF Init, IInv, OwnSlots, AppliedInOrder, HonestOutbox, ForeignStays

-----------------------------------------------------------------------------
(* The two sequences the code computes as a maximum plus one.                *)

LEMMA ExportSequence ==
  ASSUME IInv, NEW s \in Nat
  PROVE  /\ NextExportSequence(s) \in Nat
         /\ {slot[e] : e \in Peers(s)} = 0..(NextExportSequence(s) - 1)
<1> DEFINE S == {slot[e] : e \in Peers(s)}
<1>1. PICK n \in Nat : S = 0..(n - 1)
  BY DEF IInv, NoHole
<1>2. CASE Peers(s) = {}
  <2>1. NextExportSequence(s) = 0 /\ S = {}
    BY <1>2 DEF NextExportSequence
  <2> QED BY <2>1
<1>3. CASE Peers(s) # {}
  <2>1. S # {} /\ S \subseteq 0..n
    BY <1>1, <1>3
  <2>2. Max(S) \in S /\ \A j \in S : Max(S) >= j
    <3> HIDE DEF S
    <3> QED BY <2>1, MaxOf
  <2>3. n - 1 \in S
    BY <1>1, <2>1
  <2>4. Max(S) = n - 1
    <3> HIDE DEF S
    <3> QED BY <1>1, <2>2, <2>3
  <2>5. NextExportSequence(s) = Max(S) + 1
    BY <1>3 DEF NextExportSequence
  <2>6. NextExportSequence(s) = n
    <3> HIDE DEF S
    <3> QED BY <2>4, <2>5
  <2> QED BY <1>1, <2>6
<1> QED BY <1>2, <1>3

LEMMA ExpectedSequence ==
  ASSUME IInv, NEW s \in Nat
  PROVE  /\ NextExpectedSequence(s) \in Nat
         /\ \A e \in Peers(s) : e \in applied <=> slot[e] < NextExpectedSequence(s)
<1> DEFINE S == {slot[e] : e \in AppliedIn(s)}
           N == NextExpectedSequence(s)
<1>1. AppliedIn(s) \subseteq Peers(s) /\ \A e \in Peers(s) : e \in AppliedIn(s) <=> e \in applied
  BY DEF IInv, TypeOK, AppliedIn, Peers
<1>2. \A e \in Peers(s) : slot[e] \in Nat
  BY DEF IInv, TypeOK, Peers, Recorded
<1>3. CASE AppliedIn(s) = {}
  <2>1. N = 0
    BY <1>3 DEF NextExpectedSequence
  <2> QED BY <1>1, <1>2, <1>3, <2>1
<1>4. CASE AppliedIn(s) # {}
  <2>1. PICK n \in Nat : {slot[e] : e \in Peers(s)} = 0..(n - 1)
    BY DEF IInv, NoHole
  <2>2. S # {} /\ S \subseteq 0..n
    BY <1>1, <1>4, <2>1
  <2>3. Max(S) \in S /\ \A j \in S : Max(S) >= j
    <3> HIDE DEF S
    <3> QED BY <2>2, MaxOf
  <2>4. N = Max(S) + 1
    BY <1>4 DEF NextExpectedSequence
  <2>5. PICK f \in AppliedIn(s) : slot[f] = Max(S)
    BY <2>3
  <2>6. ASSUME NEW e \in Peers(s), e \in applied PROVE slot[e] < N
    BY <1>1, <1>2, <2>3, <2>4, <2>5, <2>6
  <2>7. ASSUME NEW e \in Peers(s), slot[e] < N PROVE e \in applied
    <3>1. slot[e] <= slot[f] /\ f \in applied /\ f \in Peers(s)
      BY <1>1, <1>2, <2>4, <2>5, <2>7
    <3>2. CASE slot[e] = slot[f]
      BY <3>1, <3>2 DEF IInv, OwnSlots, Peers
    <3>3. CASE slot[e] < slot[f]
      BY <3>1, <3>3 DEF IInv, AppliedInOrder, Peers
    <3> QED BY <1>2, <3>1, <3>2, <3>3
  <2>8. N \in Nat
    BY <1>1, <1>2, <2>4, <2>5
  <2> QED BY <2>6, <2>7, <2>8
<1> QED BY <1>3, <1>4

-----------------------------------------------------------------------------
(* The steps.  A step that leaves rows, applied events and reasons as they    *)
(* are keeps all of the invariant that is about them alone.                   *)

LEMMA SameRows ==
  ASSUME IInv, UNCHANGED <<slot, applied, reason>>
  PROVE  /\ Recorded' = Recorded
         /\ OwnSlots' /\ (\A s \in Nat : NoHole(s))'
         /\ AppliedInOrder' /\ ForeignStays'
BY DEF IInv, Recorded, OwnSlots, NoHole, Peers, AppliedInOrder, ForeignStays

(* Nothing that the inbox cannot take is ever applied.                        *)
LEMMA ForeignNeverApplies ==
  ASSUME NEW e, NEW R, Kind[e] = "foreign"
  PROVE  ~Applies(e, R)
BY DEF Applies

LEMMA StatusType ==
  ASSUME NEW e, NEW app, NEW rsn
  PROVE  /\ StatusIn(e, app, rsn) \in Status
         /\ StatusIn(e, app, rsn) = "applied" => e \in app
         /\ StatusIn(e, app, rsn) = "structural" => rsn[e] = "structural"
BY DEF StatusIn, ParkClass, Status

LEMMA AppendStep ==
  ASSUME IInv, NEW e \in Event, AppendExportEvent(e)
  PROVE  IInv'
<1> DEFINE s == StreamOf[e]
           n == NextExportSequence(s)
<1>0. s \in Nat
  BY StreamOfAssumption
<1>1. n \in Nat /\ {slot[f] : f \in Peers(s)} = 0..(n - 1)
  BY <1>0, ExportSequence
<1>2. e \notin Recorded /\ Recorded \subseteq Event
  BY DEF AppendExportEvent, MayRecord, Recorded
<1>3. slot' = [slot EXCEPT ![e] = n] /\ slot \in [Event -> Nat \cup {None}]
  BY DEF AppendExportEvent, IInv, TypeOK
<1> HIDE DEF n
<1>4. /\ Recorded' = Recorded \cup {e}
      /\ slot'[e] = n /\ \A f \in Recorded : slot'[f] = slot[f]
  BY <1>1, <1>2, <1>3 DEF Recorded, None
<1>5. TypeOK'
  <2>1. slot' \in [Event -> Nat \cup {None}]
    BY <1>1, <1>3
  <2>2. UNCHANGED <<delivered, parked, poll, request, inbox, faults>>
    BY DEF AppendExportEvent
  <2> QED
    BY <1>4, <2>1, <2>2 DEF IInv, TypeOK, poll, request, inbox, Status, Stream
<1>6. OwnSlots'
  <2>1. \A f \in Recorded : StreamOf[f] = s => slot[f] \in 0..(n - 1)
    BY <1>1 DEF Peers
  <2>2. \A f \in Recorded : StreamOf[f] = s => slot[f] # n
    BY <1>1, <2>1
  <2> QED BY <1>4, <2>2 DEF IInv, OwnSlots
<1>7. ASSUME NEW r \in Nat PROVE NoHole(r)'
  <2>1. CASE r # s
    <3>1. Peers(r)' = Peers(r) /\ \A f \in Peers(r) : slot'[f] = slot[f]
      BY <1>4, <2>1 DEF Peers
    <3>2. {slot'[f] : f \in Peers(r)'} = {slot[f] : f \in Peers(r)}
      BY <3>1
    <3> QED BY <3>2 DEF IInv, NoHole
  <2>2. CASE r = s
    <3>1. Peers(r)' = Peers(r) \cup {e} /\ \A f \in Peers(r) : slot'[f] = slot[f]
      BY <1>4, <2>2 DEF Peers
    <3>2. {slot'[f] : f \in Peers(r)'} = {slot[f] : f \in Peers(r)} \cup {n}
      BY <1>4, <3>1
    <3>3. 0..(n - 1) \cup {n} = 0..((n + 1) - 1)
      BY <1>1
    <3>4. n + 1 \in Nat
      BY <1>1
    <3>5. {slot'[f] : f \in Peers(r)'} = 0..((n + 1) - 1)
      BY <1>1, <2>2, <3>2, <3>3
    <3> QED BY <3>4, <3>5 DEF NoHole
  <2> QED BY <2>1, <2>2
<1>8. AppliedInOrder'
  <2>1. applied' = applied /\ applied \subseteq Recorded
    BY DEF AppendExportEvent, inbox, IInv, TypeOK
  <2>2. ASSUME NEW x \in applied, NEW f \in Recorded', StreamOf[f] = StreamOf[x], slot'[f] < slot'[x]
        PROVE  f \in applied
    <3>1. CASE f = e
      <4>1. slot[x] \in 0..(n - 1) /\ slot'[x] = slot[x]
        BY <1>1, <1>4, <2>1, <2>2, <3>1 DEF Peers
      <4> QED BY <1>1, <1>4, <2>2, <3>1, <4>1
    <3>2. CASE f # e
      BY <1>4, <2>1, <2>2, <3>2 DEF IInv, AppliedInOrder
    <3> QED BY <3>1, <3>2
  <2> QED BY <2>1, <2>2 DEF AppliedInOrder
<1>9. HonestOutbox' /\ HonestAnswers' /\ ForeignStays'
  BY DEF AppendExportEvent, poll, request, inbox, IInv, HonestOutbox, HonestAnswers, Told, ForeignStays
<1> QED BY <1>5, <1>6, <1>7, <1>8, <1>9 DEF IInv

(* Steps of the relay and of the server that apply nothing.                   *)
QuietStep ==
  \/ Relaying \/ Faults \/ TakeUp \/ Respond
  \/ \E b \in late : TakeUpLate(b)
  \/ \E s \in Stream : RegisterExportStream(s)
  \/ \E e \in Event : Refuse(e) \/ Redeliver(e) \/ IngestGap(e)
  \/ UNCHANGED vars

LEMMA QuietStepKeeps ==
  ASSUME IInv, QuietStep
  PROVE  IInv'
<1> USE DEF IInv, TypeOK, HonestOutbox, HonestAnswers, Told, Status, Stream, Recorded,
            outbox, poll, request, inbox, NoAnswer
<1> DEFINE Goal == TypeOK' /\ HonestOutbox' /\ HonestAnswers' /\ UNCHANGED <<slot, applied, reason>>
<1>1. ASSUME Poll PROVE Goal
  BY <1>1 DEF Poll, ListUndelivered, Pending
<1>2. ASSUME MarkDelivered PROVE Goal
  BY <1>2 DEF MarkDelivered, ToDeliver
<1>3. ASSUME MarkTerminallyParked PROVE Goal
  BY <1>3 DEF MarkTerminallyParked, ToPark, PollEnds, ForeignStays
<1>4. ASSUME TimeOut PROVE Goal
  BY <1>4, BoundAssumption DEF TimeOut, PollEnds
<1>5. ASSUME ProducerRestarts PROVE Goal
  BY <1>5, BoundAssumption DEF ProducerRestarts, PollEnds
<1>6. ASSUME ServerRestarts PROVE Goal
  BY <1>6, BoundAssumption DEF ServerRestarts, PollEnds
<1>7. ASSUME TakeUp PROVE Goal
  BY <1>7 DEF TakeUp
<1>8. ASSUME Respond PROVE Goal
  BY <1>8 DEF Respond
<1>9. ASSUME NEW b \in late, TakeUpLate(b) PROVE Goal
  BY <1>9 DEF TakeUpLate
<1>10. ASSUME NEW s \in Stream, RegisterExportStream(s) PROVE Goal
  BY <1>10 DEF RegisterExportStream
<1>11. ASSUME NEW e \in Event, Refuse(e) PROVE Goal
  BY <1>11 DEF Refuse, Say
<1>12. ASSUME NEW e \in Event, Redeliver(e) PROVE Goal
  BY <1>12, StatusType DEF Redeliver, Say
<1>13. ASSUME NEW e \in Event, IngestGap(e) PROVE Goal
  BY <1>13 DEF IngestGap, Arrive, InTurn, Say
<1>14. ASSUME UNCHANGED vars PROVE Goal
  BY <1>14 DEF vars
<1>15. Goal
  BY <1>1, <1>2, <1>3, <1>4, <1>5, <1>6, <1>7, <1>8, <1>9, <1>10, <1>11, <1>12, <1>13, <1>14
  DEF QuietStep, Relaying, Faults
<1> QED BY <1>15, SameRows

(* The walk applies a run of slots from the expected one on.                  *)
LEMMA IngestInTurnStep ==
  ASSUME IInv, NEW e \in Event, IngestInTurn(e)
  PROVE  IInv'
<1> DEFINE s == StreamOf[e]
           n == NextExpectedSequence(s)
           Walk(R) == Reached(e, R)
<1>1. s \in Nat /\ e \in Recorded /\ e \in todo /\ e \notin received
  BY StreamOfAssumption DEF IngestInTurn, Arrive, InTurn, IInv, TypeOK
<1>2. n \in Nat /\ \A f \in Peers(s) : f \in applied <=> slot[f] < n
  BY <1>1, ExpectedSequence
<1>3. PICK R \in Resolutions :
        /\ applied' = applied \cup {f \in Walk(R) : Applies(f, R)}
        /\ reason' = [f \in Event |-> IF f \in Walk(R) \ applied' THEN ParkReason(f) ELSE reason[f]]
        /\ Say(e, StatusIn(e, applied', reason'))
  BY DEF IngestInTurn
<1>4. /\ received' = received \cup {e}
      /\ UNCHANGED <<outbox, poll, late, server, registered, faults>>
  BY DEF IngestInTurn
<1>5. Recorded' = Recorded /\ slot' = slot
  BY <1>4 DEF outbox, Recorded
<1>6. Walk(R) \subseteq (received \cup {e}) \ applied
  BY DEF Reached
<1>7. \A f \in Walk(R) : /\ StreamOf[f] = s
                         /\ f = e \/ slot[f] >= n
                         /\ \A k \in n..(slot[f] - 1) : \E g \in received \cup {e} :
                              StreamOf[g] = s /\ slot[g] = k /\ Applies(g, R)
  BY DEF Reached
<1>8. \A f \in received \cup {e} :
        /\ f \notin applied
        /\ StreamOf[f] = s
        /\ slot[f] >= n
        /\ \A k \in n..(slot[f] - 1) : \E g \in received \cup {e} :
             StreamOf[g] = s /\ slot[g] = k /\ Applies(g, R)
        => f \in Walk(R)
  BY DEF Reached
<1> HIDE DEF n, Walk
<1>9. received \subseteq Recorded /\ applied \subseteq received /\ Recorded \subseteq Event
  BY DEF IInv, TypeOK, Recorded
<1>10. TypeOK'
  <2>1. reason' \in [Event -> {"none", "target", "structural"}]
    BY <1>3 DEF ParkReason, IInv, TypeOK
  <2>2. todo' \subseteq Recorded /\ said' \in [Event -> Status \cup {"none"}]
    BY <1>3, StatusType DEF Say, IInv, TypeOK
  <2>3. applied' \subseteq received' /\ received' \subseteq Recorded
    BY <1>1, <1>3, <1>4, <1>6, <1>9
  <2> QED BY <1>4, <1>5, <2>1, <2>2, <2>3 DEF IInv, TypeOK, outbox, poll, Stream, Status
<1>11. OwnSlots' /\ (\A r \in Nat : NoHole(r))'
  <2>1. OwnSlots'
    BY <1>5 DEF IInv, OwnSlots
  <2>2. ASSUME NEW r \in Nat PROVE NoHole(r)'
    <3>1. Peers(r)' = Peers(r)
      BY <1>5 DEF Peers
    <3> QED BY <1>5, <3>1 DEF IInv, NoHole
  <2> QED BY <2>1, <2>2
<1>12. AppliedInOrder'
  <2>1. SUFFICES ASSUME NEW x \in applied', NEW f \in Recorded,
                        StreamOf[f] = StreamOf[x], slot[f] < slot[x]
                 PROVE  f \in applied'
    BY <1>5 DEF AppliedInOrder
  <2>2. slot[f] \in Nat /\ (x \in Recorded => slot[x] \in Nat)
    BY DEF IInv, TypeOK, Recorded
  <2>3. CASE x \in applied
    BY <1>3, <2>1, <2>3 DEF IInv, AppliedInOrder
  <2>4. CASE x \in Walk(R)
    <3>1. StreamOf[f] = s /\ f \in Peers(s) /\ x \in Recorded
      BY <1>1, <1>6, <1>7, <1>9, <2>1, <2>4 DEF Peers
    <3>2. CASE slot[f] < n
      BY <1>2, <1>3, <3>1, <3>2
    <3>3. CASE slot[f] >= n
      <4>1. slot[f] \in n..(slot[x] - 1)
        BY <1>2, <2>1, <2>2, <3>1, <3>3
      <4>2. PICK g \in received \cup {e} : StreamOf[g] = s /\ slot[g] = slot[f] /\ Applies(g, R)
        BY <1>7, <2>4, <4>1
      <4>3. g = f
        BY <1>1, <1>9, <3>1, <4>2 DEF IInv, OwnSlots
      <4>4. f \notin applied
        BY <1>2, <2>2, <3>1, <3>3
      <4>5. n..(slot[f] - 1) \subseteq n..(slot[x] - 1)
        BY <1>2, <2>1, <2>2, <3>1
      <4>6. f \in Walk(R)
        BY <1>7, <1>8, <2>4, <3>1, <3>3, <4>2, <4>3, <4>4, <4>5
      <4> QED BY <1>3, <4>2, <4>3, <4>6
    <3> QED BY <1>2, <2>2, <3>2, <3>3
  <2> QED BY <1>3, <2>3, <2>4
<1>13. ForeignStays'
  <2>1. \A f \in applied' : Kind[f] # "foreign"
    BY <1>3, ForeignNeverApplies DEF IInv, ForeignStays
  <2>2. \A f \in Event : reason'[f] = "structural" => Kind[f] = "foreign"
    BY <1>3 DEF ParkReason, IInv, ForeignStays
  <2> QED BY <2>1, <2>2 DEF ForeignStays
<1>14. \A f \in Event : reason[f] = "structural" => reason'[f] = "structural"
  BY <1>3 DEF ParkReason, IInv, ForeignStays
<1>15. HonestOutbox'
  BY <1>3, <1>4, <1>5, <1>9, <1>13, <1>14 DEF IInv, TypeOK, HonestOutbox, ForeignStays, outbox
<1>16. HonestAnswers'
  BY <1>3, <1>4, <1>14, StatusType DEF IInv, TypeOK, HonestAnswers, Told, poll, Say
<1> QED BY <1>10, <1>11, <1>12, <1>13, <1>15, <1>16 DEF IInv

LEMMA NextKeeps == IInv /\ [Next]_vars => IInv'
<1> SUFFICES ASSUME IInv, [Next]_vars PROVE IInv'
  OBVIOUS
<1>1. ASSUME NEW e \in Event, AppendExportEvent(e) PROVE IInv'
  BY <1>1, AppendStep
<1>2. ASSUME NEW e \in Event, IngestInTurn(e) PROVE IInv'
  BY <1>2, IngestInTurnStep
<1>3. CASE QuietStep
  BY <1>3, QuietStepKeeps
<1> QED BY <1>1, <1>2, <1>3 DEF Next, Ingest, QuietStep

LEMMA Invariant == Spec => []IInv
BY InitIInv, NextKeeps, PTL DEF Spec

(* The variables of outbox, relay, server and inbox keep their types.         *)
THEOREM TypeCorrect == Spec => []TypeOK
<1>1. IInv => TypeOK
  BY DEF IInv
<1> QED BY <1>1, Invariant, PTL

(* The applied rows of a stream are always its first ones, however requests   *)
(* were lost, repeated or delayed and whichever process restarted.            *)
THEOREM AppliesInOrder == Spec => []AppliedInOrder
<1>1. IInv => AppliedInOrder
  BY DEF IInv
<1> QED BY <1>1, Invariant, PTL

(* A row is marked delivered only when the inbox applied it, and parked for   *)
(* good only when the inbox will never apply it.                              *)
THEOREM HonestyOfOutbox == Spec => []HonestOutbox
<1>1. IInv => HonestOutbox
  BY DEF IInv
<1> QED BY <1>1, Invariant, PTL

-----------------------------------------------------------------------------
(* The refinement.  The sequence an event is given is the number of events    *)
(* its stream had, since the sequences given so far have no hole.             *)
LEMMA SequenceIsLength ==
  ASSUME IInv, NEW s \in Nat
  PROVE  NextExportSequence(s) = Cardinality(Peers(s))
<1> DEFINE n == NextExportSequence(s)
           row == [k \in 0..(n - 1) |-> CHOOSE e \in Peers(s) : slot[e] = k]
<1>1. n \in Nat /\ {slot[e] : e \in Peers(s)} = 0..(n - 1)
  BY ExportSequence
<1> HIDE DEF n
<1>2. \A k \in 0..(n - 1) : row[k] \in Peers(s) /\ slot[row[k]] = k
  <2> SUFFICES ASSUME NEW k \in 0..(n - 1) PROVE row[k] \in Peers(s) /\ slot[row[k]] = k
    OBVIOUS
  <2>1. \E e \in Peers(s) : slot[e] = k
    BY <1>1
  <2>2. row[k] = CHOOSE e \in Peers(s) : slot[e] = k
    OBVIOUS
  <2> HIDE DEF row
  <2> QED BY <2>1, <2>2
<1>3. row \in [0..(n - 1) -> Peers(s)]
  BY <1>2
<1>4. \A e \in Peers(s) : slot[e] \in 0..(n - 1)
  BY <1>1
<1>5. \A e \in Peers(s) : row[slot[e]] = e
  BY <1>2, <1>4 DEF IInv, OwnSlots, Peers
<1> HIDE DEF row
<1>6. row \in Bijection(0..(n - 1), Peers(s))
  BY <1>2, <1>3, <1>4, <1>5 DEF Bijection, Injection, Surjection, IsInjective
<1>7. Cardinality(Peers(s)) = Cardinality(0..(n - 1)) /\ IsFiniteSet(0..(n - 1))
  BY <1>1, <1>6, FS_Bijection, FS_Interval DEF ExistsBijection
<1>8. Cardinality(0..(n - 1)) = n
  BY <1>1, FS_Interval
<1> QED BY <1>7, <1>8 DEF n

LEMMA LogStep == IInv /\ IInv' /\ [Next]_vars => [Log!Next]_(Log!vars)
<1> SUFFICES ASSUME IInv, IInv', [Next]_vars PROVE [Log!Next]_(Log!vars)
  OBVIOUS
<1>1. Log!Recorded = Recorded
  BY DEF Log!Recorded, Recorded, Log!None, None
<1>2. ASSUME NEW e \in Event, AppendExportEvent(e) PROVE Log!Next
  <2>1. StreamOf[e] \in Nat
    BY StreamOfAssumption
  <2>2. Log!Length(StreamOf[e]) = NextExportSequence(StreamOf[e])
    <3>1. Log!Length(StreamOf[e]) = Cardinality(Peers(StreamOf[e]))
      BY <1>1 DEF Log!Length, Peers, Log!Cardinality, Cardinality
    <3> QED BY <2>1, <3>1, SequenceIsLength
  <2>3. Log!Record(e)
    BY <1>1, <1>2, <2>2 DEF AppendExportEvent, MayRecord, inbox, Log!Record
  <2> QED BY <2>3 DEF Log!Next
<1>3. ASSUME NEW e \in Event, IngestInTurn(e) PROVE Log!Next
  <2>1. Recorded' = Recorded /\ slot' = slot /\ delivered' = delivered
    BY <1>3 DEF IngestInTurn, outbox, Recorded
  <2>2. applied \subseteq applied' /\ applied' \subseteq Recorded
    BY <1>3, <2>1 DEF IngestInTurn, IInv, TypeOK
  <2>3. \A x \in applied', f \in Recorded : Log!Earlier(f, x) => f \in applied'
    BY <2>1 DEF IInv, AppliedInOrder, Log!Earlier
  <2>4. Log!Apply
    BY <1>1, <2>1, <2>2, <2>3 DEF Log!Apply
  <2> QED BY <2>4 DEF Log!Next
<1>4. CASE MarkDelivered
  BY <1>4 DEF MarkDelivered, inbox, IInv, HonestOutbox, Log!Next, Log!Acknowledge
<1>5. ASSUME UNCHANGED <<slot, applied, delivered>> PROVE UNCHANGED Log!vars
  BY <1>5 DEF Log!vars
<1>6. ASSUME QuietStep, ~MarkDelivered PROVE UNCHANGED <<slot, applied, delivered>>
  BY <1>6 DEF QuietStep, Relaying, Faults, Poll, MarkTerminallyParked, TimeOut, ProducerRestarts,
     ServerRestarts, TakeUp, TakeUpLate, Respond, RegisterExportStream, Refuse, Redeliver, IngestGap,
     outbox, inbox, vars
<1> QED BY <1>2, <1>3, <1>4, <1>5, <1>6 DEF Next, Ingest, QuietStep

(* Outbox, relay and inbox together implement the log: an event is applied    *)
(* once, after all that came before it in its stream, and then acknowledged.  *)
THEOREM ImplementsLog == Spec => LogSpec
<1>1. Init => Log!Init
  BY DEF Init, Log!Init, None, Log!None
<1> QED BY <1>1, LogStep, Invariant, PTL DEF Spec, LogSpec, Log!Spec
=============================================================================
