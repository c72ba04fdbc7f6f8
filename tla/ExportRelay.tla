---------------------------- MODULE ExportRelay -----------------------------
(* The export path: signal-copier appends events to an outbox, its relay      *)
(* polls the rows not yet settled and posts them in a batch, the commercial   *)
(* service stores each in its inbox, applies it when its turn has come, and   *)
(* answers for each what became of it.  A request that timed out may still be *)
(* served; either process may restart between any two transactions.           *)
EXTENDS Integers, FiniteSets, FiniteSetsExt

CONSTANTS
  Event,        \* the events the producer may come to record, by event_id
  StreamOf,     \* source_stream of an event; a number, the ORDER BY of the poll
  Kind,         \* what an event carries, as far as the inbox tells it apart
  About,        \* the first receipt of the message an event is about
  BatchSize,    \* RELAY_BATCH_SIZE
  MaxFaults     \* bound: time-outs and restarts in a behaviour

ASSUME StreamOfAssumption == StreamOf \in [Event -> Nat]
\* "booked": an execution, or a receipt with quantity and price.  "bare": a
\* receipt without them.  "revision": a receipt with them whose
\* original_source_event_id is set.  "edit": the SOURCE_EVENT of an edit.
\* "outcome": the routing outcome of a receipt.  "foreign": an event of a
\* schema version, or an edit without the id, that the inbox cannot take.
ASSUME KindAssumption == Kind \in [Event -> {"booked", "bare", "revision", "edit", "outcome", "foreign"}]
ASSUME AboutAssumption == About \in [Event -> Event]
ASSUME BoundAssumption == BatchSize \in Nat \ {0} /\ MaxFaults \in Nat

VARIABLES
  slot,         \* export_sequence in the outbox row, None if not recorded
  delivered,    \* rows with delivered_at
  parked,       \* rows with terminal_park_reason
  pc,           \* where the relay's poll stands
  batch,        \* the envelopes the poll has posted
  ans,          \* the response it has got
  late,         \* requests given up before the server took them up
  server,       \* whether the server is at a request, and one still awaited
  todo,         \* events of that request not yet ingested
  said,         \* its results so far
  registered,   \* export_stream_registrations
  received,     \* inbox rows
  applied,      \* inbox rows with applied_at
  reason,       \* parked_reason of an inbox row
  faults

outbox == <<slot, delivered, parked>>
poll == <<pc, batch, ans>>
request == <<late, server, todo, said>>
inbox == <<registered, received, applied, reason>>
vars == <<outbox, poll, request, inbox, faults>>

Stream == {StreamOf[e] : e \in Event}
None == -1
Status == {"applied", "transient", "structural", "refused"}
NoAnswer == [e \in Event |-> "none"]

Recorded == {e \in Event : slot[e] # None}
Peers(s) == {e \in Recorded : StreamOf[e] = s}
Pending == Recorded \ (delivered \cup parked)

TypeOK ==
  /\ slot \in [Event -> Nat \cup {None}]
  /\ delivered \subseteq Recorded /\ parked \subseteq Recorded
  /\ pc \in {"idle", "sent", "served", "answered", "marked"}
  /\ batch \subseteq Recorded
  /\ ans \in [Event -> Status \cup {"none"}]
  /\ late \subseteq SUBSET Recorded
  /\ server \in {"idle", "live", "stale"}
  /\ todo \subseteq Recorded
  /\ said \in [Event -> Status \cup {"none"}]
  /\ registered \subseteq Stream
  /\ received \subseteq Recorded /\ applied \subseteq received
  /\ reason \in [Event -> {"none", "target", "structural"}]
  /\ faults \in 0..MaxFaults

Init ==
  /\ slot = [e \in Event |-> None] /\ delivered = {} /\ parked = {}
  /\ pc = "idle" /\ batch = {} /\ ans = NoAnswer
  /\ late = {} /\ server = "idle" /\ todo = {} /\ said = NoAnswer
  /\ registered = {} /\ received = {} /\ applied = {}
  /\ reason = [e \in Event |-> "none"]
  /\ faults = 0

-----------------------------------------------------------------------------
(* The producer.  An event is built and appended without an await between.   *)

BugNumbersTheUnsettled(s) == Cardinality(Peers(s) \cap Pending)
NextExportSequence(s) == IF Peers(s) = {} THEN 0 ELSE Max({slot[e] : e \in Peers(s)}) + 1

\* A message is received before it is edited, if it is received as a signal at
\* all; an outcome is exported after the receipt of its signal.
MayRecord(e) ==
  /\ e \notin Recorded
  /\ Kind[e] = "outcome" => About[e] \in Recorded
  /\ About[e] = e => \A f \in Recorded : About[f] # e

\* A second append of the same event_id is ignored.
AppendExportEvent(e) ==
  /\ MayRecord(e)
  /\ slot' = [slot EXCEPT ![e] = NextExportSequence(StreamOf[e])]
  /\ UNCHANGED <<delivered, parked, poll, request, inbox, faults>>

-----------------------------------------------------------------------------
(* The relay: one poll at a time.                                            *)

Before(f, e) ==
  \/ StreamOf[f] < StreamOf[e]
  \/ StreamOf[f] = StreamOf[e] /\ slot[f] < slot[e]

ListUndelivered == {e \in Pending : Cardinality({f \in Pending : Before(f, e)}) < BatchSize}

Poll ==
  /\ pc = "idle" /\ Pending # {}
  /\ pc' = "sent" /\ batch' = ListUndelivered
  /\ UNCHANGED <<outbox, ans, request, inbox, faults>>

PollEnds == pc' = "idle" /\ batch' = {} /\ ans' = NoAnswer

\* The request is given up: it may be lost, still arrive, or be served already.
TimeOut ==
  /\ pc \in {"sent", "served"} /\ faults < MaxFaults
  /\ late' \in IF pc = "sent" THEN {late, late \cup {batch}} ELSE {late}
  /\ server' = IF pc = "served" THEN "stale" ELSE server
  /\ PollEnds /\ faults' = faults + 1
  /\ UNCHANGED <<outbox, todo, said, inbox>>

\* A restart while it waits for the response is like a time-out.
ProducerRestarts ==
  /\ pc \in {"answered", "marked"} /\ faults < MaxFaults
  /\ PollEnds /\ faults' = faults + 1
  /\ UNCHANGED <<outbox, request, inbox>>

ToDeliver == {e \in batch : ans[e] = "applied"}
ToPark == {e \in batch : ans[e] = "structural"}

MarkDelivered ==
  /\ pc = "answered"
  /\ delivered' = delivered \cup ToDeliver
  /\ pc' = "marked"
  /\ UNCHANGED <<slot, parked, batch, ans, request, inbox, faults>>

MarkTerminallyParked ==
  /\ pc = "marked"
  /\ parked' = parked \cup ToPark
  /\ PollEnds
  /\ UNCHANGED <<slot, delivered, request, inbox, faults>>

-----------------------------------------------------------------------------
(* The server: one request at a time, one transaction for each event.        *)

TakeUp ==
  /\ server = "idle" /\ pc = "sent"
  /\ server' = "live" /\ pc' = "served" /\ todo' = batch
  /\ UNCHANGED <<outbox, batch, ans, late, said, inbox, faults>>

TakeUpLate(b) ==
  /\ server = "idle" /\ b \in late
  /\ server' = "stale" /\ todo' = b /\ late' = late \ {b}
  /\ UNCHANGED <<outbox, poll, said, inbox, faults>>

RegisterExportStream(s) ==
  /\ s \notin registered
  /\ registered' = registered \cup {s}
  /\ UNCHANGED <<outbox, poll, request, received, applied, reason, faults>>

InTurn(e) == server # "idle" /\ e \in todo /\ \A f \in todo : ~Before(f, e)
Say(e, status) == todo' = todo \ {e} /\ said' = [said EXCEPT ![e] = status]

\* UnregisteredStreamError: nothing is stored.
Refuse(e) ==
  /\ InTurn(e) /\ StreamOf[e] \notin registered
  /\ Say(e, "refused")
  /\ UNCHANGED <<outbox, poll, late, server, inbox, faults>>

BugPassesTheReason(r) == r
\* How the relay classifies what the inbox says of a row that is not applied.
ParkClass(r) == IF r = "structural" THEN "structural" ELSE "transient"
BugReportsApplied(e, app, rsn) == "applied"
StatusIn(e, app, rsn) == IF e \in app THEN "applied" ELSE ParkClass(rsn[e])

\* A redelivered event is answered from its row as it is.
Redeliver(e) ==
  /\ InTurn(e) /\ StreamOf[e] \in registered /\ e \in received
  /\ Say(e, StatusIn(e, applied, reason))
  /\ UNCHANGED <<outbox, poll, late, server, inbox, faults>>

AppliedIn(s) == {e \in applied : StreamOf[e] = s}
BugCountsReceived(s) == Cardinality({e \in received : StreamOf[e] = s})
NextExpectedSequence(s) == IF AppliedIn(s) = {} THEN 0 ELSE Max({slot[e] : e \in AppliedIn(s)}) + 1

Arrive(e) == InTurn(e) /\ StreamOf[e] \in registered /\ e \notin received

\* Ahead of its turn: stored, and waits for the sequences before it.
IngestGap(e) ==
  /\ Arrive(e) /\ slot[e] > NextExpectedSequence(StreamOf[e])
  /\ received' = received \cup {e}
  /\ Say(e, "transient")
  /\ UNCHANGED <<outbox, poll, late, server, registered, applied, reason, faults>>

\* What is applied by the time e is looked at, the walk included.
AppliedBy(e) == applied \cup {f \in Peers(StreamOf[e]) : slot[f] < slot[e]}
Receipts(e) == {f \in AppliedBy(e) : About[f] = About[e] /\ Kind[f] \in {"booked", "bare", "revision"}}

\* The receipt a revision resolves to is the first() of an unordered query over
\* the receipts of its message; it resolves if that one booked a ledger entry.
Resolutions == {R \in SUBSET {e \in Event : Kind[e] = "revision"} :
                  \A e \in Event : Kind[e] = "revision" /\ e \in Recorded =>
                    IF e \in R THEN \E f \in Receipts(e) : Kind[f] # "bare"
                               ELSE \A f \in Receipts(e) : Kind[f] # "bare" => \E g \in Receipts(e) : Kind[g] = "bare"}

\* _apply_projection, for an event whose turn has come.
Applies(e, resolved) ==
  CASE Kind[e] \in {"booked", "bare"} -> TRUE
    [] Kind[e] = "revision" -> e \in resolved
    [] Kind[e] = "outcome"  -> About[e] \in AppliedBy(e)
    [] Kind[e] = "edit"     -> \E f \in AppliedBy(e) : About[f] = About[e] /\ Kind[f] # "outcome"
    [] Kind[e] = "foreign"  -> FALSE
ParkReason(e) == IF Kind[e] = "foreign" THEN "structural" ELSE "target"

BugNoCascade(e, resolved) == {e}
\* _apply_and_cascade: e is applied, then the rows of the slots that follow as
\* long as each is there and applies; the first that does not is parked.
Reached(e, resolved) ==
  LET rec == received \cup {e}  s == StreamOf[e]  n == NextExpectedSequence(s) IN
  {f \in rec \ applied : /\ StreamOf[f] = s
                         /\ f = e \/ slot[f] >= n
                         /\ \A k \in n..(slot[f] - 1) :
                              \E g \in rec : StreamOf[g] = s /\ slot[g] = k /\ Applies(g, resolved)}

IngestInTurn(e) ==
  /\ Arrive(e) /\ slot[e] <= NextExpectedSequence(StreamOf[e])
  /\ \E resolved \in Resolutions :
       LET reached == Reached(e, resolved)
           app == applied \cup {f \in reached : Applies(f, resolved)}
           rsn == [f \in Event |-> IF f \in reached \ app THEN ParkReason(f) ELSE reason[f]] IN
       /\ applied' = app /\ reason' = rsn
       /\ Say(e, StatusIn(e, app, rsn))
  /\ received' = received \cup {e}
  /\ UNCHANGED <<outbox, poll, late, server, registered, faults>>

Respond ==
  /\ server # "idle" /\ todo = {}
  /\ server' = "idle" /\ said' = NoAnswer
  /\ IF server = "live" THEN pc' = "answered" /\ ans' = said ELSE UNCHANGED <<pc, ans>>
  /\ UNCHANGED <<outbox, batch, late, todo, inbox, faults>>

\* What was committed stays; the relay sees the connection fail.
ServerRestarts ==
  /\ server # "idle" /\ faults < MaxFaults
  /\ server' = "idle" /\ todo' = {} /\ said' = NoAnswer
  /\ IF server = "live" THEN PollEnds ELSE UNCHANGED poll
  /\ faults' = faults + 1
  /\ UNCHANGED <<outbox, late, inbox>>

-----------------------------------------------------------------------------
Ingest(e) == Refuse(e) \/ Redeliver(e) \/ IngestGap(e) \/ IngestInTurn(e)
Relaying == Poll \/ MarkDelivered \/ MarkTerminallyParked
Faults == TimeOut \/ ProducerRestarts \/ ServerRestarts

Next ==
  \/ \E e \in Event : AppendExportEvent(e) \/ Ingest(e)
  \/ Relaying \/ Faults \/ TakeUp \/ Respond
  \/ \E b \in late : TakeUpLate(b)
  \/ \E s \in Stream : RegisterExportStream(s)

Spec == Init /\ [][Next]_vars

\* The scheduler polls for ever and the server goes on with what it has taken up;
\* no fairness between the two is needed, nor any of appends and registrations.
FairSpec == Spec /\ WF_vars(Relaying \/ TakeUp \/ (\E e \in Event : Ingest(e)) \/ Respond)

-----------------------------------------------------------------------------
(* _next_expected_sequence: "a received-but-parked event must never advance  *)
(* this boundary, or a real gap would be invisible".  Whatever was refused,  *)
(* parked, late or restarted, the applied rows of a stream are its first.    *)
AppliedInOrder ==
  \A e \in applied, f \in Recorded : StreamOf[f] = StreamOf[e] /\ slot[f] < slot[e] => f \in applied

(* run_once: only what the inbox applied is marked delivered, and what is    *)
(* parked for good was not applied and never will be.                        *)
HonestOutbox ==
  /\ delivered \subseteq applied
  /\ \A e \in parked : e \notin applied /\ reason[e] = "structural"

(* The outbox and the inbox together are a log applied once and in order.    *)
Log == INSTANCE OrderedLog WITH position <- slot, acked <- delivered
LogSpec == Log!Spec

\* A row of the stream, at or before e, that the inbox holds for a named reason.
Blocked(e) ==
  \E f \in received : StreamOf[f] = StreamOf[e] /\ slot[f] <= slot[e] /\ reason[f] # "none"

(* relay_worker.py on rows left for the next poll: "harmless".  Every event  *)
(* of a registered stream is delivered in the end, unless a row of its own   *)
(* stream is in its way.                                                     *)
EventuallyDelivered ==
  \A e \in Event : e \in Recorded /\ registered = Stream ~> e \in delivered \/ Blocked(e)
=============================================================================
