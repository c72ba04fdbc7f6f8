------------------------------ MODULE SignalIntake ------------------------------
(***************************************************************************)
(* How one alert that reaches signal-copier several times becomes one      *)
(* signal: a phone captures every version of a notification and uploads    *)
(* what is pending until the server answers; collectors of the provider's  *)
(* own channel deliver its messages, again after a reconnect; the server   *)
(* records the phone's events, recognizes what it has seen by provider     *)
(* identity, correlates what comes over another channel, and trades.       *)
(*                                                                         *)
(* Every text is about the same instrument and side, so that any two are   *)
(* correlated; the phone shows one notification.  What happens below       *)
(* handle_signal is EntryDispatch: here a signal id is traded at most once.*)
(* A handler runs without interruption from one await to the next;         *)
(* `running` names the one that is between two awaits.                     *)
(***************************************************************************)
EXTENDS Naturals, Sequences, FiniteSets

CONSTANTS
  Text,        \* what a notification or a message may say
  Price,       \* [Text -> Nat]: the price the parser finds, 0 when there is none
  Form,        \* [Text -> FormType]: complete and parsed, cut off yet parsed, other
  Id,          \* signal ids, 1 .. some bound
  Handler,     \* requests and collector tasks of the server's event loop
  Collector,   \* collectors of the direct channel
  NoText, NoRow, Nobody,
  Setting      \* what may happen in a run: a set of records of SettingType

VARIABLES
  queue,       \* the phone's queued_notifications: Seq([text, at, up])
  posts,       \* the messages of the direct channel: Seq(Text)
  signals,     \* the signals table: [Id -> RowType \cup {NoRow}]
  events,      \* notification_bridge_events: a set of [text, seq]
  decided,     \* ids whose order rows replay, see EntryDispatch!Replayed
  trades,      \* what the venue was sent: a set of TradeType
  checkpoint,  \* last message admitted live: [Collector -> Nat]
  job,         \* [Handler -> JobType]
  running,     \* the handler between two awaits, or Nobody
  clock,
  env          \* the setting of this run and what has been spent of it

outside == <<queue, posts, clock>>
stored == <<signals, events, decided, checkpoint>>
vars == <<outside, stored, trades, job, running, env>>

FormType == {"whole", "cut", "other"}
Channel == {"phone", "direct"}
Pc == {"idle", "take", "route", "place", "answer", "record"}

\* captures, posts: how many there may be, of the texts in says; fresh, window:
\* NOTIFICATION_BRIDGE_STALE_THRESHOLD_SECONDS and
\* SIGNAL_CORRELATION_TIMESTAMP_WINDOW_SECONDS, in ticks; policy: the provider's
\* conflict_resolution_policy, with the channel of its primary source; overlap:
\* two upload workers may run at once; again: messages are delivered by several
\* collectors, or again after a reconnect; refuse: the engine may decline a
\* signal; the rest bounds what happens.
SettingType ==
  [says : SUBSET Text, captures : Nat, posts : Nat, collectors : SUBSET Collector,
   fresh : Nat, window : Nat, policy : {"HOLD", "REQUIRE_PRIMARY_SOURCE", "REQUIRE_MATCHING_SOURCES"},
   primary : Channel, overlap : BOOLEAN, again : BOOLEAN, refuse : BOOLEAN,
   deliveries : Nat, faults : Nat, crashes : Nat, ticks : Nat]
CaptureType == [text : Text, at : Nat, up : BOOLEAN]
RowType ==
  [chan : Channel, msg : Nat, rev : Text \cup {NoText}, text : Text, at : Nat]
TradeType == [id : Id, chan : Channel, msg : Nat, text : Text, at : Nat]
JobType ==
  [pc : Pc, chan : Channel, batch : SUBSET Nat, left : SUBSET Nat, heard : BOOLEAN,
   by : Collector \cup {Nobody}, msg : Nat, rev : Text \cup {NoText},
   text : Text \cup {NoText}, at : Nat, seq : Nat, id : Id \cup {0}]
Count == [deliveries : Nat, faults : Nat, crashes : Nat]

ASSUME TextAssumption ==
  Price \in [Text -> Nat] /\ Form \in [Text -> FormType] /\ NoText \notin Text
ASSUME IdAssumption == Id \subseteq Nat \ {0} /\ NoRow \notin RowType
ASSUME NobodyAssumption == Nobody \notin Handler \cup Collector
ASSUME SettingAssumption == Setting \subseteq SettingType

TypeOK ==
  /\ queue \in Seq(CaptureType)
  /\ posts \in Seq(Text)
  /\ signals \in [Id -> RowType \cup {NoRow}]
  /\ events \subseteq [text : Text, seq : Nat \ {0}]
  /\ decided \subseteq Id
  /\ trades \subseteq TradeType
  /\ checkpoint \in [Collector -> Nat]
  /\ job \in [Handler -> JobType]
  /\ running \in Handler \cup {Nobody}
  /\ clock \in Nat
  /\ env \in [may : Setting, did : Count]

-----------------------------------------------------------------------------
(* What the operations read *)

Resting ==
  [pc |-> "idle", chan |-> "phone", batch |-> {}, left |-> {}, heard |-> FALSE,
   by |-> Nobody, msg |-> 0, rev |-> NoText, text |-> NoText, at |-> 0, seq |-> 0,
   id |-> 0]

Turn(h, label) == job[h].pc = label /\ running \in {h, Nobody}
Least(n, S) == n \in S /\ \A k \in S : n <= k
Spend(what) == env' = [env EXCEPT !.did[what] = @ + 1]
CanSpend(what, limit) == env.did[what] < limit

Near(a, b) == a <= b + env.may.window /\ b <= a + env.may.window
Recorded == {i \in Id : signals[i] # NoRow}
Earliest(S) == {i \in S : \A k \in S : signals[i].at <= signals[k].at}
NewId == {i \in Id : Least(i, Id \ Recorded)}
Traded == {t.id : t \in trades}

BugMatchesOriginals(j) == \* rev = rev is not true of two NULLs
  {i \in Recorded : /\ signals[i].chan = j.chan /\ signals[i].msg = j.msg
                    /\ signals[i].rev = j.rev /\ j.rev # NoText}

\* find_signal_id_by_provider_identity
Known(j) ==
  {i \in Recorded : /\ signals[i].chan = j.chan /\ signals[i].msg = j.msg
                    /\ signals[i].rev = j.rev}

BugComparesOwnChannel(j) ==
  {i \in Recorded : /\ Near(signals[i].at, j.at)
                    /\ (Price[signals[i].text] = 0) = (Price[j.text] = 0)}

BugComparesEarlier(j) ==
  {i \in Recorded : /\ signals[i].chan # j.chan
                    /\ signals[i].at < j.at /\ Near(signals[i].at, j.at)
                    /\ (Price[signals[i].text] = 0) = (Price[j.text] = 0)}

\* The candidates classify_candidate compares: from another channel, within the
\* window, with a price if and only if the new signal has one.  Signals that
\* were only imported or held are candidates too.
Comparable(j) ==
  {i \in Recorded : /\ signals[i].chan # j.chan
                    /\ Near(signals[i].at, j.at)
                    /\ (Price[signals[i].text] = 0) = (Price[j.text] = 0)}

\* What one candidate makes of the new signal: it takes the candidate's id,
\* or goes its own way, or is held.
Resolution(j, i) ==
  LET agree == Price[signals[i].text] = Price[j.text]
      primary == /\ Price[j.text] # 0 /\ ~agree
                 /\ env.may.policy = "REQUIRE_PRIMARY_SOURCE"
  IN  CASE Price[j.text] # 0 /\ agree -> [go |-> TRUE, ids |-> {i}]
        [] primary /\ j.chan = env.may.primary -> [go |-> TRUE, ids |-> NewId]
        [] primary /\ signals[i].chan = env.may.primary -> [go |-> TRUE, ids |-> {i}]
        [] OTHER -> [go |-> FALSE, ids |-> NewId]

\* handle_signal's identity: exact first, then the earliest candidate decides.
Verdicts(j) ==
  IF Known(j) # {} THEN {[go |-> TRUE, ids |-> Earliest(Known(j))]}
  ELSE IF Comparable(j) # {} THEN {Resolution(j, i) : i \in Earliest(Comparable(j))}
  ELSE {[go |-> env.may.policy # "REQUIRE_MATCHING_SOURCES", ids |-> NewId]}

Row(j) == [chan |-> j.chan, msg |-> j.msg, rev |-> j.rev, text |-> j.text, at |-> j.at]

\* The latest event of the notification: find_notification_bridge_event.
Latest == {e \in events : \A f \in events : f.seq <= e.seq}

BugCountsFromZero == Cardinality(events)
NextSeq == IF events = {} THEN 1 ELSE (CHOOSE e \in Latest : TRUE).seq + 1

-----------------------------------------------------------------------------
(* The phone, the direct channel, time *)

Capture(x) ==
  /\ x \in env.may.says
  /\ Len(queue) < env.may.captures
  /\ queue' = Append(queue, [text |-> x, at |-> clock, up |-> FALSE])
  /\ UNCHANGED <<posts, clock, stored, trades, job, running, env>>

Post(x) ==
  /\ x \in env.may.says /\ Form[x] # "other"
  /\ Len(posts) < env.may.posts
  /\ posts' = Append(posts, x)
  /\ UNCHANGED <<queue, clock, stored, trades, job, running, env>>

Tick ==
  /\ clock < env.may.ticks
  /\ clock' = clock + 1
  /\ UNCHANGED <<queue, posts, stored, trades, job, running, env>>

Pending == {n \in DOMAIN queue : ~queue[n].up}

\* A worker sends all that is pending and waits; the server turns to the request
\* when it can.  The periodic and the immediate worker may overlap, and one that
\* has given up leaves its request behind.
Upload(h) ==
  /\ job[h].pc = "idle"
  /\ Pending # {}
  /\ env.may.overlap \/ \A g \in Handler : ~job[g].heard
  /\ job' = [job EXCEPT ![h] = [Resting EXCEPT !.pc = "take", !.batch = Pending,
                                               !.left = Pending, !.heard = TRUE]]
  /\ UNCHANGED <<outside, stored, trades, running, env>>

\* The connection breaks: the request goes on and nobody hears the answer.
LoseReply(h) ==
  /\ job[h].heard
  /\ CanSpend("faults", env.may.faults) /\ Spend("faults")
  /\ job' = [job EXCEPT ![h].heard = FALSE]
  /\ UNCHANGED <<outside, stored, trades, running>>

BugMarksPending(j) == IF j.heard THEN Pending ELSE {}
Acknowledged(j) == IF j.heard THEN j.batch ELSE {}

\* The batch is answered, and the worker marks it uploaded.
Reply(h) ==
  /\ Turn(h, "take")
  /\ job[h].left = {}
  /\ queue' = [n \in DOMAIN queue |->
                 IF n \in Acknowledged(job[h]) THEN [queue[n] EXCEPT !.up = TRUE]
                 ELSE queue[n]]
  /\ job' = [job EXCEPT ![h] = Resting]
  /\ running' = Nobody
  /\ UNCHANGED <<posts, clock, stored, trades, env>>

-----------------------------------------------------------------------------
(* The server takes what it is sent *)

\* The event of notification n, read before anything is awaited: its text, the
\* revision it is of the latest event, and the number it will be saved under.
Event(h, n) ==
  [job[h] EXCEPT !.left = @ \ {n}, !.text = queue[n].text, !.at = clock,
                 !.rev = IF events = {} THEN NoText ELSE queue[n].text,
                 !.seq = NextSeq]

Takes(h, n) == Turn(h, "take") /\ Least(n, job[h].left)

Repeated(x) == \E e \in Latest : e.text = x

\* An exact retry of the latest event is answered from it.
Retry(h, n) ==
  /\ Takes(h, n)
  /\ Repeated(queue[n].text)
  /\ job' = [job EXCEPT ![h].left = @ \ {n}]
  /\ running' = h
  /\ UNCHANGED <<outside, stored, trades, env>>

Routable(n) == Form[queue[n].text] = "whole" /\ clock <= queue[n].at + env.may.fresh

\* Incomplete, stale or not a signal: stored for review if it parses, not routed.
SetAside(h, n) ==
  /\ Takes(h, n)
  /\ ~Repeated(queue[n].text) /\ ~Routable(n)
  /\ LET j == Event(h, n)
     IN  /\ job' = [job EXCEPT ![h] = [j EXCEPT !.pc = "record"]]
         /\ IF Form[j.text] = "other" THEN UNCHANGED signals
            ELSE \E i \in NewId : signals' = [signals EXCEPT ![i] = Row(j)]
  /\ running' = h
  /\ UNCHANGED <<outside, events, decided, checkpoint, trades, env>>

Examine(h, n) ==
  /\ Takes(h, n)
  /\ ~Repeated(queue[n].text) /\ Routable(n)
  /\ job' = [job EXCEPT ![h] = [Event(h, n) EXCEPT !.pc = "route"]]
  /\ running' = h
  /\ UNCHANGED <<outside, stored, trades, env>>

AdmitsLive(c, m) == m > checkpoint[c]

\* A collector is given a message, for the first time or again.
Deliver(h, c, m) ==
  /\ Turn(h, "idle")
  /\ c \in env.may.collectors /\ AdmitsLive(c, m)
  /\ env.may.again \/ m = env.did.deliveries + 1
  /\ CanSpend("deliveries", env.may.deliveries) /\ Spend("deliveries")
  /\ job' = [job EXCEPT ![h] = [Resting EXCEPT !.pc = "route", !.chan = "direct",
                                  !.by = c, !.msg = m, !.text = posts[m], !.at = clock]]
  /\ running' = h
  /\ UNCHANGED <<outside, stored, trades>>

-----------------------------------------------------------------------------
(* handle_signal *)

\* Held: recorded for a human, and never routed by this delivery.
Hold(h) ==
  /\ Turn(h, "route")
  /\ \E v \in Verdicts(job[h]) : \E i \in v.ids :
       /\ ~v.go
       /\ signals' = [signals EXCEPT ![i] = Row(job[h])]
  /\ job' = [job EXCEPT ![h].pc = "record"]
  /\ running' = h
  /\ UNCHANGED <<outside, events, decided, checkpoint, trades, env>>

\* The id has been decided: its results are replayed.
Replay(h) ==
  /\ Turn(h, "route")
  /\ \E v \in Verdicts(job[h]) : v.go /\ v.ids \cap decided # {}
  /\ job' = [job EXCEPT ![h].pc = "record"]
  /\ running' = h
  /\ UNCHANGED <<outside, stored, trades, env>>

\* The row is written under the id before the first await.  For an updated
\* notification _handle_signal_edit has answered None, as the original has another
\* revision.
Admit(h) ==
  /\ Turn(h, "route")
  /\ \E v \in Verdicts(job[h]) : \E i \in v.ids \ decided :
       /\ v.go
       /\ signals' = [signals EXCEPT ![i] = Row(job[h])]
       /\ job' = [job EXCEPT ![h].pc = "place", ![h].id = i]
  /\ running' = Nobody
  /\ UNCHANGED <<outside, events, decided, checkpoint, trades, env>>

\* The order is sent unless one was: EntryDispatch!AtMostOnce.
Place(h) ==
  LET j == job[h]
      order == [id |-> j.id, chan |-> j.chan, msg |-> j.msg, text |-> j.text, at |-> j.at]
  IN  /\ Turn(h, "place")
      /\ j.id \notin Traded /\ trades' = trades \cup {order}
      /\ job' = [job EXCEPT ![h].pc = "answer"]
      /\ UNCHANGED <<outside, stored, running, env>>

\* Declined, with an order row that says so or without one: a stale signal and one
\* that no account is to trade leave none, and are not replayed.
Decline(h) ==
  /\ Turn(h, "place")
  /\ env.may.refuse
  /\ \E label \in {"answer", "record"} : job' = [job EXCEPT ![h].pc = label]
  /\ UNCHANGED <<outside, stored, trades, running, env>>

\* The other delivery of the id owns its outcome and its rows.
Yield(h) ==
  /\ Turn(h, "place")
  /\ job[h].id \in Traded
  /\ job' = [job EXCEPT ![h].pc = "record"]
  /\ UNCHANGED <<outside, stored, trades, running, env>>

Answer(h) ==
  /\ Turn(h, "answer")
  /\ decided' = decided \cup {job[h].id}
  /\ job' = [job EXCEPT ![h].pc = "record"]
  /\ UNCHANGED <<outside, signals, events, checkpoint, trades, running, env>>

\* save_notification_bridge_event, under the number read before the awaits.
Record(h) ==
  /\ Turn(h, "record") /\ job[h].chan = "phone"
  /\ events' = events \cup {[text |-> job[h].text, seq |-> job[h].seq]}
  /\ job' = [job EXCEPT ![h].pc = "take"]
  /\ running' = h
  /\ UNCHANGED <<outside, signals, decided, checkpoint, trades, env>>

\* advance_telegram_collector_checkpoint, which never moves it back.
Advance(h) ==
  LET j == job[h]
  IN  /\ Turn(h, "record") /\ j.chan = "direct"
      /\ checkpoint' = [checkpoint EXCEPT ![j.by] = IF @ < j.msg THEN j.msg ELSE @]
      /\ job' = [job EXCEPT ![h] = Resting]
      /\ running' = Nobody
      /\ UNCHANGED <<outside, signals, events, decided, trades, env>>

\* handle_signal raises: the request answers 500, the collector's task ends.
Fail(h) ==
  /\ job[h].pc \in {"place", "answer"} /\ running \in {h, Nobody}
  /\ CanSpend("faults", env.may.faults) /\ Spend("faults")
  /\ job' = [job EXCEPT ![h] = Resting]
  /\ running' = Nobody
  /\ UNCHANGED <<outside, stored, trades>>

Crash ==
  /\ CanSpend("crashes", env.may.crashes) /\ Spend("crashes")
  /\ job' = [h \in Handler |-> Resting]
  /\ running' = Nobody
  /\ UNCHANGED <<outside, stored, trades>>

-----------------------------------------------------------------------------

Init ==
  /\ queue = <<>> /\ posts = <<>>
  /\ signals = [i \in Id |-> NoRow]
  /\ events = {} /\ decided = {} /\ trades = {}
  /\ checkpoint = [c \in Collector |-> 0]
  /\ job = [h \in Handler |-> Resting]
  /\ running = Nobody
  /\ clock = 0
  /\ env \in [may : Setting, did : {[deliveries |-> 0, faults |-> 0, crashes |-> 0]}]

Work(h) ==
  \/ Reply(h) \/ Hold(h) \/ Replay(h) \/ Admit(h) \/ Place(h) \/ Decline(h)
  \/ Yield(h) \/ Answer(h) \/ Record(h) \/ Advance(h)
  \/ \E n \in job[h].left : Retry(h, n) \/ SetAside(h, n) \/ Examine(h, n)

Next ==
  \/ \E x \in Text : Capture(x) \/ Post(x)
  \/ Tick
  \/ \E h \in Handler : Upload(h) \/ LoseReply(h) \/ Fail(h) \/ Work(h)
  \/ \E h \in Handler, c \in Collector : \E m \in DOMAIN posts : Deliver(h, c, m)
  \/ Crash

Spec == Init /\ [][Next]_vars

\* The event loop resumes a handler whose await has ended, and the phone's
\* periodic worker keeps uploading what is pending.
Fairness ==
  /\ \A h \in Handler : WF_vars(Work(h))
  /\ WF_vars(\E h \in Handler : Upload(h))

FairSpec == Spec /\ Fairness

-----------------------------------------------------------------------------
(* Properties *)

\* What a channel said is delivered again: by a worker or a collector that runs
\* beside another, or after a failure.
Repeats(chan) ==
  IF chan = "direct" THEN env.may.again
  ELSE env.may.overlap \/ env.may.faults > 0 \/ env.may.crashes > 0

\* A notification that was updated does not return to an earlier text.
NoReturn ==
  \A k, n, m \in DOMAIN queue :
    k < n /\ n < m /\ queue[k].text = queue[m].text => queue[n].text = queue[k].text

\* The server takes each version of the notification up once.
Forward == ~Repeats("phone") /\ NoReturn

\* One notification text or one message is never traded under two ids.  That is
\* so where nothing is delivered twice; where there is no phone; and of a single
\* notification and a single message, unless what the primary channel says twice
\* wins every conflict.
TradedOnce ==
  (\/ Forward /\ ~Repeats("direct")
   \/ queue = <<>>
   \/ /\ Len(queue) <= 1 /\ Len(posts) <= 1
      /\ env.may.policy = "REQUIRE_PRIMARY_SOURCE" => ~Repeats(env.may.primary)) =>
    \A t, u \in trades :
      (t.chan = u.chan /\ t.msg = u.msg /\ t.text = u.text /\ Near(t.at, u.at))
        => t.id = u.id

\* Nothing that was held is delivered again.
Once == ~Repeats("direct") /\ env.may.crashes = 0 /\ (Forward \/ Len(queue) <= 1)

\* What each channel says once, and both alike within the window, is traded under
\* one id.
SaidOnce(price) ==
  /\ \A k, n \in DOMAIN queue :
       Price[queue[k].text] = price /\ Price[queue[n].text] = price => k = n
  /\ \A k, n \in DOMAIN posts : Price[posts[k]] = price /\ Price[posts[n]] = price => k = n
OneTradePerAlert ==
  (/\ Once
   /\ Forward \/ env.may.fresh <= env.may.window
   /\ env.may.policy = "REQUIRE_PRIMARY_SOURCE" => Len(queue) <= 1 /\ Len(posts) <= 1) =>
    \A t, u \in trades :
      (/\ t.chan # u.chan /\ Price[t.text] = Price[u.text]
       /\ Price[t.text] # 0 /\ SaidOnce(Price[t.text]) /\ Near(t.at, u.at))
        => t.id = u.id

\* Under REQUIRE_MATCHING_SOURCES nothing is traded on one source alone.
NeverAlone ==
  (Once /\ env.may.policy = "REQUIRE_MATCHING_SOURCES") =>
    \A t \in trades :
      /\ \E n \in DOMAIN queue : Price[queue[n].text] = Price[t.text]
      /\ \E m \in DOMAIN posts : Price[posts[m]] = Price[t.text]

\* A captured notification reaches the server and is recorded there.
EveryCaptureRecorded ==
  \A n \in 1 .. 3 : \* no setting has more
    n \in DOMAIN queue ~> n \in DOMAIN queue /\ queue[n].up
                             /\ \E e \in events : e.text = queue[n].text
=============================================================================
