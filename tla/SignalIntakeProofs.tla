-------------------------- MODULE SignalIntakeProofs ---------------------------
(***************************************************************************)
(* Proofs about the intake of alerts, for every set of texts, prices, ids, *)
(* handlers, collectors and settings.                                      *)
(*                                                                         *)
(* IInv types the state and BInv says that all of it was said by its       *)
(* channel.  DInv: a message delivered once is new when it is routed.      *)
(* FInv: so is a version of the notification that is taken up once.  SInv  *)
(* and PInv: one notification and one message have one row each, for as    *)
(* long as they may be routed.  On these rest NInv, TInv and OInv, which   *)
(* give NeverAlone, TradedOnce and OneTradePerAlert.                       *)
(***************************************************************************)
EXTENDS SignalIntake, TLAPS

(* Where a handler has a text at hand, and where its signal has an id.       *)
Busy == {"route", "place", "answer", "record"}
Underway == {h \in Handler : job[h].pc \in {"place", "answer"}}

(* Orders: what was sent to the venue, and what is on its way there.         *)
Order(j) == [id |-> j.id, chan |-> j.chan, msg |-> j.msg, text |-> j.text, at |-> j.at]
Orders == trades \cup {Order(job[h]) : h \in Underway}

-----------------------------------------------------------------------------
(* The types, with what the guards keep of the locals of a handler.          *)
JobTyped(j) ==
  /\ j.left \subseteq DOMAIN queue
  /\ j.pc \in Busy =>
       /\ j.text \in Text
       /\ IF j.chan = "phone" THEN j.seq # 0 ELSE j.by \in Collector
  /\ j.pc \in {"place", "answer"} => j.id \in Id
  /\ j.pc = "take" => j.chan = "phone"
HasLatest == events # {} => Latest # {}
IInv == TypeOK /\ HasLatest /\ \A h \in Handler : JobTyped(job[h])

-----------------------------------------------------------------------------
(* Said: what a row, an order or a handler holds was said by its channel.    *)
Shown(x) == \E n \in DOMAIN queue : queue[n].text = x
Said(x) ==
  IF x.chan = "direct" THEN x.msg \in DOMAIN posts /\ posts[x.msg] = x.text
  ELSE x.msg = 0 /\ Shown(x.text)
Revises(x) == x.rev = NoText \/ (x.chan = "phone" /\ x.rev = x.text)

(* Who is where, and that time goes on from what is stored to what is routed.*)
Placed(h) ==
  /\ job[h].pc = "idle" => ~job[h].heard
  /\ job[h].heard => job[h].chan = "phone"
  /\ job[h].pc = "take" => job[h].msg = 0
  /\ job[h].pc = "route" => running = h
  /\ job[h].pc \in Busy => Said(job[h]) /\ Revises(job[h]) /\ job[h].at <= clock
  /\ job[h].pc = "route" => \A i \in Recorded : signals[i].at <= job[h].at
RowHonest(i) == Said(signals[i]) /\ Revises(signals[i]) /\ signals[i].at <= clock
OrderKept(a) == Said(a) /\ a.id \in Recorded /\ a.at <= signals[a.id].at
BInv ==
  /\ IInv
  /\ \A h \in Handler : Placed(h)
  /\ \A i \in Recorded : RowHonest(i)
  /\ \A a \in Orders : OrderKept(a)
  /\ \A e \in events : Shown(e.text)
  /\ \A n \in DOMAIN queue : queue[n].at <= clock

-----------------------------------------------------------------------------
(* Each message is delivered once: the one at hand has left no trace.        *)
Taken(x) == x.chan = "direct" => x.msg <= env.did.deliveries
NewTo(x, j) == x.chan = "direct" /\ j.chan = "direct" => x.msg # j.msg
EachOnce ==
  /\ \A h \in Handler : job[h].pc = "route" => Taken(job[h])
  /\ \A i \in Recorded : Taken(signals[i])
  /\ \A a \in Orders : Taken(a)
  /\ \A h \in Handler : job[h].pc = "route" =>
       /\ \A i \in Recorded : NewTo(signals[i], job[h])
       /\ \A a \in Orders : NewTo(a, job[h])
DInv == BInv /\ (~Repeats("direct") => EachOnce)

-----------------------------------------------------------------------------
(* Each version of the notification is taken up once, in order.              *)
Seen(n) == queue[n].up \/ \E h \in Handler : job[h].heard /\ n \in job[h].batch \ job[h].left
Last(c) == c \in DOMAIN queue /\ Seen(c) /\ \A n \in DOMAIN queue : Seen(n) => n <= c
Working(h) == job[h].chan = "phone" /\ job[h].pc \in Busy
OneWorker ==
  /\ \A g, h \in Handler : job[g].heard /\ job[h].heard => g = h
  /\ \A h \in Handler : job[h].chan = "phone" /\ job[h].pc # "idle" => job[h].heard
InTurn ==
  /\ \A n, m \in DOMAIN queue : n < m /\ queue[m].up => queue[n].up
  /\ \A h \in Handler : job[h].heard =>
       /\ job[h].left \subseteq job[h].batch /\ job[h].batch \subseteq DOMAIN queue
       /\ \A n \in job[h].batch \ job[h].left : \A m \in job[h].left : n < m
       /\ \A n \in job[h].batch : ~queue[n].up
       /\ \A n \in DOMAIN queue \ job[h].batch : ~queue[n].up => \A m \in job[h].batch : m < n
OneLatest ==
  /\ \A e, f \in events : e.seq = f.seq => e = f
  /\ \A h \in Handler : Working(h) => \A e \in events : e.seq < job[h].seq
SeenText(x) == \E n \in DOMAIN queue : Seen(n) /\ queue[n].text = x
\* What was taken up last is the latest event, or at hand.
UpToDate ==
  /\ \A h \in Handler : Working(h) => SeenText(job[h].text)
  /\ \A c \in DOMAIN queue : Last(c) =>
       \/ \E h \in Handler : Working(h) /\ job[h].text = queue[c].text
       \/ /\ \A h \in Handler : ~Working(h)
          /\ events # {} /\ \A e \in Latest : e.text = queue[c].text
Differs(x, j) == x.chan = "phone" /\ j.chan = "phone" => x.text # j.text
NewVersion ==
  /\ \A i \in Recorded : signals[i].chan = "phone" => SeenText(signals[i].text)
  /\ \A a \in Orders : a.chan = "phone" => SeenText(a.text)
  /\ \A h \in Handler : job[h].pc = "route" =>
       /\ \A i \in Recorded : Differs(signals[i], job[h])
       /\ \A a \in Orders : Differs(a, job[h])
       /\ job[h].chan = "phone" /\ job[h].rev = NoText =>
            \A i \in Recorded : signals[i].chan = "direct"
Uploads == OneWorker /\ InTurn /\ OneLatest /\ UpToDate
FInv == DInv /\ (Forward => Uploads /\ NewVersion)

-----------------------------------------------------------------------------
(* One notification.  It is Live while a request may still route it.         *)
Single == Len(queue) <= 1
PhoneRow(i) == i \in Recorded /\ signals[i].chan = "phone"
DirectRow(i) == i \in Recorded /\ signals[i].chan = "direct"
RoutesPhone(h) == job[h].pc = "route" /\ job[h].chan = "phone"
Live ==
  \A n \in DOMAIN queue :
    /\ Form[queue[n].text] = "whole"
    /\ clock <= queue[n].at + env.may.fresh \/ \E h \in Handler : RoutesPhone(h)
\* A request that routes it finds no event, and is in time.
Timely(at) == \A n \in DOMAIN queue : queue[n].at <= at /\ at <= queue[n].at + env.may.fresh
FirstText ==
  /\ \A i \in Id : PhoneRow(i) => signals[i].rev = NoText
  /\ \A h \in Handler : RoutesPhone(h) =>
       /\ events = {} /\ job[h].rev = NoText /\ Form[job[h].text] = "whole"
       /\ Timely(job[h].at)
AfterShown ==
  \A i \in Id : PhoneRow(i) => \A n \in DOMAIN queue : queue[n].at <= signals[i].at
OneRow == \A i, k \in Id : PhoneRow(i) /\ PhoneRow(k) => i = k
\* The row an order was given precedes the rows of what was set aside.
OrdersFirst ==
  \A a \in Orders : signals[a.id].chan = "phone" =>
    /\ Form[signals[a.id].text] = "whole" /\ Timely(signals[a.id].at)
    /\ \A k \in Id \ {a.id} : PhoneRow(k) => signals[a.id].at < signals[k].at
SInv == BInv /\ (Single => FirstText /\ AfterShown /\ OrdersFirst /\ (Live => OneRow))

(* One message.                                                              *)
OneMessage == Len(posts) <= 1
PInv == BInv /\ (OneMessage => \A i, k \in Id : DirectRow(i) /\ DirectRow(k) => i = k)

(* One version, one message: one id.                                         *)
SameIds ==
  \A a, b \in Orders : a.chan = b.chan /\ a.msg = b.msg /\ a.text = b.text => a.id = b.id

(* One of each: what is ordered keeps its row, or the other channel has      *)
(* joined it, and then whatever its own channel brought came too late.       *)
Brief ==
  /\ Single /\ OneMessage
  /\ env.may.policy = "REQUIRE_PRIMARY_SOURCE" => ~Repeats(env.may.primary)
Exempt(chan) == env.may.policy = "REQUIRE_PRIMARY_SOURCE" /\ chan = env.may.primary
Joined(a) ==
  /\ Price[signals[a.id].text] = Price[a.text] /\ Price[a.text] # 0
  /\ \A k \in Recorded : signals[k].chan = a.chan => a.at + env.may.window < signals[k].at
Identified ==
  /\ \A a, b \in Orders : a.chan = b.chan /\ Near(a.at, b.at) => a.id = b.id
  /\ \A a \in Orders :
       ~Exempt(a.chan) /\ (a.chan = "phone" => Live) => signals[a.id].chan = a.chan \/ Joined(a)
\* No phone: each message has its row.
PerMessage ==
  /\ \A i, k \in Recorded : signals[i].msg = signals[k].msg => i = k
  /\ \A a \in Orders : signals[a.id].msg = a.msg
TInv ==
  /\ SInv /\ PInv /\ FInv
  /\ Forward /\ ~Repeats("direct") => SameIds
  /\ queue = <<>> => PerMessage
  /\ Brief => Identified

-----------------------------------------------------------------------------
(* Open: nothing has been put away for a human, or recorded.                 *)
Open ==
  /\ events = {}
  /\ \A h \in Handler : running = h /\ job[h].pc = "record" => job[h].chan = "direct"
Matched(x) ==
  /\ \E n \in DOMAIN queue : Price[queue[n].text] = Price[x]
  /\ \E m \in DOMAIN posts : Price[posts[m]] = Price[x]
Corroborated ==
  /\ \A a \in Orders : Matched(a.text)
  /\ Single /\ Open => \A i \in Id : PhoneRow(i) => Matched(signals[i].text)
NInv ==
  /\ SInv /\ FInv
  /\ Once /\ env.may.policy = "REQUIRE_MATCHING_SOURCES" => Corroborated

-----------------------------------------------------------------------------
(* What is said once, of a price.                                            *)
Priced(x) == Price[x.text] # 0 /\ SaidOnce(Price[x.text])
SamePrice(x, y) == Price[x.text] = Price[y.text]
Alike ==
  env.may.policy = "REQUIRE_PRIMARY_SOURCE" =>
    \A n \in DOMAIN queue, m \in DOMAIN posts : Price[queue[n].text] = Price[posts[m]]
OneRowEach(chan) ==
  \A i, k \in Recorded :
    /\ signals[i].chan = chan /\ signals[k].chan = chan
    /\ Priced(signals[i]) /\ SamePrice(signals[i], signals[k])
    => i = k
Keeps(a) ==
  /\ SamePrice(signals[a.id], a)
  /\ signals[a.id].chan = a.chan /\ (a.chan = "direct" \/ Forward) => signals[a.id].at = a.at
OneId ==
  \A t, u \in Orders :
    t.chan # u.chan /\ SamePrice(t, u) /\ Priced(t) /\ Near(t.at, u.at) => t.id = u.id
\* The one notification came too late for, or too long before, what was not joined.
Apart ==
  \A u \in Orders : u.chan = "direct" /\ Priced(u) /\ signals[u.id].chan = "direct" =>
    \A k \in Id : PhoneRow(k) /\ SamePrice(signals[k], u) => ~Near(signals[k].at, u.at)
Rows ==
  /\ OneRowEach("direct")
  /\ Forward => OneRowEach("phone")
  /\ \A a \in Orders : Priced(a) => Keeps(a)
  /\ Single /\ Open => OneRow
OInv ==
  /\ NInv
  /\ Once /\ Alike =>
       /\ Rows
       /\ Single /\ Open /\ env.may.fresh <= env.may.window => Apart
       /\ Forward \/ env.may.fresh <= env.may.window => OneId
LEMMA RestingTyped == Resting \in JobType /\ JobTyped(Resting)
  BY DEF Resting, JobType, Pc, Channel, JobTyped, Busy

LEMMA NextSeqIs ==
  ASSUME IInv
  PROVE  NextSeq \in Nat \ {0} /\ \A e \in events : e.seq < NextSeq
<1>1. CASE events = {}
  BY <1>1 DEF NextSeq
<1>2. CASE events # {}
  <2>1. PICK e \in Latest : e = CHOOSE f \in Latest : TRUE
    BY <1>2 DEF IInv, HasLatest
  <2>2. e \in events /\ e.seq \in Nat /\ \A f \in events : f.seq <= e.seq /\ f.seq \in Nat
    BY DEF IInv, TypeOK, Latest
  <2>3. NextSeq = e.seq + 1
    BY <1>2, <2>1 DEF NextSeq
  <2> QED
    BY <2>2, <2>3
<1> QED BY <1>1, <1>2

(* One more event, and there is still a latest.                              *)
LEMMA LatestKept ==
  ASSUME IInv, NEW x \in Text, NEW s \in Nat \ {0},
         events' = events \cup {[text |-> x, seq |-> s]}
  PROVE  HasLatest'
<1> DEFINE e == [text |-> x, seq |-> s]
<1>1. \A f \in events : f.seq \in Nat
  BY DEF IInv, TypeOK
<1>2. CASE \A f \in events : f.seq <= s
  <2>1. e \in Latest'
    BY <1>1, <1>2 DEF Latest
  <2> QED BY <2>1 DEF HasLatest
<1>3. CASE \E f \in events : ~(f.seq <= s)
  <2>1. PICK f \in events : s < f.seq
    BY <1>1, <1>3
  <2>2. PICK l \in Latest : TRUE
    BY <2>1 DEF IInv, HasLatest
  <2>3. l \in Latest'
    BY <1>1, <2>1, <2>2 DEF Latest
  <2> QED BY <2>3 DEF HasLatest
<1> QED BY <1>2, <1>3

LEMMA InitIInv == Init => IInv
<1> SUFFICES ASSUME Init PROVE IInv
  OBVIOUS
<1>1. TypeOK
  BY RestingTyped DEF Init, TypeOK, Count
<1>2. HasLatest
  BY DEF Init, HasLatest
<1>3. \A h \in Handler : JobTyped(job[h])
  <2>1. \A h \in Handler : job[h] = Resting /\ queue = <<>>
    BY DEF Init
  <2> QED BY <2>1 DEF JobTyped, Resting, Busy
<1> QED BY <1>1, <1>2, <1>3 DEF IInv

(* One handler moves.                                                        *)
Moves(h) == job' \in [Handler -> JobType] /\ \A g \in Handler \ {h} : job'[g] = job[g]

LEMMA JobsTyped ==
  ASSUME IInv, NEW h \in Handler, Moves(h), JobTyped(job[h])', queue' = queue
  PROVE  \A g \in Handler : JobTyped(job[g])'
  BY DEF IInv, Moves, JobTyped

LEMMA Moved ==
  ASSUME IInv, NEW h \in Handler, NEW j \in JobType, job' = [job EXCEPT ![h] = j]
  PROVE  Moves(h) /\ job'[h] = j
  BY DEF IInv, TypeOK, Moves

(* A row is written under an id.                                             *)
LEMMA RowTyped ==
  ASSUME IInv, NEW j \in JobType, j.text \in Text
  PROVE  Row(j) \in RowType
  BY DEF Row, RowType, JobType

LEMMA SpendTyped ==
  ASSUME IInv, NEW w \in {"deliveries", "faults", "crashes"}, Spend(w)
  PROVE  env' \in [may : Setting, did : Count] /\ env'.may = env.may
<1>1. env \in [may : Setting, did : Count] /\ env.did[w] + 1 \in Nat
  BY DEF IInv, TypeOK, Count
<1>2. env' = [env EXCEPT !.did = [env.did EXCEPT ![w] = env.did[w] + 1]]
  BY <1>1 DEF Spend
<1>3. [env.did EXCEPT ![w] = env.did[w] + 1] \in Count
  BY <1>1 DEF Count
<1> QED BY <1>1, <1>2, <1>3

LEMMA SettingTyped == IInv => env.may \in SettingType
  BY SettingAssumption DEF IInv, TypeOK

(* What the phone, the channel and time do.                                  *)
LEMMA CaptureIInv == ASSUME IInv, NEW x \in Text, Capture(x) PROVE IInv'
<1>1. queue' \in Seq(CaptureType) /\ DOMAIN queue \subseteq DOMAIN queue'
  BY DEF IInv, TypeOK, Capture, CaptureType
<1> QED
  BY <1>1 DEF IInv, TypeOK, Capture, stored, HasLatest, Latest, JobTyped

LEMMA PostIInv == ASSUME IInv, NEW x \in Text, Post(x) PROVE IInv'
  BY DEF IInv, TypeOK, Post, stored, HasLatest, Latest, JobTyped

LEMMA TickIInv == ASSUME IInv, Tick PROVE IInv'
  BY DEF IInv, TypeOK, Tick, stored, HasLatest, Latest, JobTyped

LEMMA UploadIInv == ASSUME IInv, NEW h \in Handler, Upload(h) PROVE IInv'
<1> DEFINE j == [Resting EXCEPT !.pc = "take", !.batch = Pending, !.left = Pending,
                               !.heard = TRUE]
<1>1. Pending \subseteq DOMAIN queue /\ Pending \in SUBSET Nat
  BY DEF Pending, IInv, TypeOK
<1>2. j \in JobType /\ j.left = Pending /\ j.pc = "take" /\ j.chan = "phone"
  BY <1>1, RestingTyped DEF JobType, Pc, Resting
<1>3. Moves(h) /\ job'[h] = j
  BY <1>2, Moved DEF Upload
<1>4. JobTyped(job[h])'
  BY <1>1, <1>2, <1>3 DEF JobTyped, Busy, Upload, outside
<1>5. TypeOK'
  BY <1>3 DEF IInv, TypeOK, Upload, outside, stored, Moves
<1> QED
  BY <1>3, <1>4, <1>5, JobsTyped DEF IInv, Upload, outside, stored, HasLatest, Latest

LEMMA LoseReplyIInv == ASSUME IInv, NEW h \in Handler, LoseReply(h) PROVE IInv'
<1> DEFINE j == [job[h] EXCEPT !.heard = FALSE]
<1>1. j \in JobType /\ j.left = job[h].left /\ j.pc = job[h].pc /\ j.text = job[h].text
      /\ j.chan = job[h].chan /\ j.seq = job[h].seq /\ j.by = job[h].by /\ j.id = job[h].id
  BY DEF IInv, TypeOK, JobType
<1>2. Moves(h) /\ job'[h] = j
  BY <1>1, Moved DEF LoseReply
<1>3. JobTyped(job[h])'
  BY <1>1, <1>2 DEF JobTyped, LoseReply, outside, IInv
<1>4. env' \in [may : Setting, did : Count]
  BY SpendTyped DEF LoseReply
<1>5. TypeOK'
  BY <1>2, <1>4 DEF IInv, TypeOK, LoseReply, outside, stored, Moves
<1> QED
  BY <1>2, <1>3, <1>5, JobsTyped DEF IInv, LoseReply, outside, stored, HasLatest, Latest

(* What the actions leave in the handler that moves.                         *)
Carries(h) ==
  /\ job'[h].chan = job[h].chan /\ job'[h].heard = job[h].heard
  /\ job'[h].batch = job[h].batch /\ job'[h].left = job[h].left
  /\ job'[h].by = job[h].by /\ job'[h].msg = job[h].msg /\ job'[h].rev = job[h].rev
  /\ job'[h].text = job[h].text /\ job'[h].at = job[h].at /\ job'[h].seq = job[h].seq

LEMMA PcMoves ==
  ASSUME IInv, NEW h \in Handler, NEW p \in Pc, job' = [job EXCEPT ![h].pc = p]
  PROVE  Moves(h) /\ Carries(h) /\ job'[h].pc = p /\ job'[h].id = job[h].id
<1> DEFINE j == [job[h] EXCEPT !.pc = p]
<1>1. job[h] \in JobType
  BY DEF IInv, TypeOK
<1>2. j \in JobType
  BY <1>1 DEF JobType
<1>3. Moves(h) /\ job'[h] = j
  BY <1>2, Moved
<1> QED BY <1>1, <1>3 DEF Carries, JobType

LEMMA AdmitMoves ==
  ASSUME IInv, NEW h \in Handler, NEW i \in Id,
         job' = [job EXCEPT ![h].pc = "place", ![h].id = i]
  PROVE  Moves(h) /\ Carries(h) /\ job'[h].pc = "place" /\ job'[h].id = i
<1> DEFINE j == [job[h] EXCEPT !.pc = "place", !.id = i]
<1>1. job[h] \in JobType
  BY DEF IInv, TypeOK
<1>2. j \in JobType
  BY <1>1 DEF JobType, Pc
<1>3. job' = [job EXCEPT ![h] = j]
  BY DEF IInv, TypeOK
<1>4. Moves(h) /\ job'[h] = j
  BY <1>2, <1>3, Moved
<1>5. /\ j.chan = job[h].chan /\ j.heard = job[h].heard /\ j.batch = job[h].batch
      /\ j.left = job[h].left /\ j.by = job[h].by /\ j.msg = job[h].msg
      /\ j.rev = job[h].rev /\ j.text = job[h].text /\ j.at = job[h].at
      /\ j.seq = job[h].seq /\ j.pc = "place" /\ j.id = i
  BY <1>1 DEF JobType
<1> QED
  <2> HIDE DEF j
  <2> QED BY <1>4, <1>5 DEF Carries

(* What a phone's request holds when it has turned to notification n.        *)
TurnsTo(h, n) ==
  /\ n \in DOMAIN queue /\ n \in job[h].left /\ job[h].pc = "take"
  /\ \A k \in job[h].left : n <= k
  /\ job'[h].left = job[h].left \ {n}
  /\ job'[h].heard = job[h].heard /\ job'[h].batch = job[h].batch
  /\ job'[h].chan = job[h].chan /\ job'[h].by = job[h].by /\ job'[h].msg = job[h].msg
  /\ job'[h].id = job[h].id

AtHand(h, n) ==
  /\ job'[h].text = queue[n].text /\ job'[h].at = clock /\ job'[h].seq = NextSeq
  /\ job'[h].rev = IF events = {} THEN NoText ELSE queue[n].text

LEMMA CaptureIs ==
  ASSUME IInv, NEW n \in DOMAIN queue
  PROVE  queue[n] \in CaptureType /\ queue[n].text \in Text /\ queue[n].at \in Nat
<1>1. queue[n] \in CaptureType
  BY DEF IInv, TypeOK
<1> QED BY <1>1 DEF CaptureType

LEMMA TakesIs ==
  ASSUME IInv, NEW h \in Handler, NEW n, Takes(h, n)
  PROVE  /\ n \in DOMAIN queue /\ n \in job[h].left /\ queue[n].text \in Text
         /\ job[h].pc = "take" /\ \A k \in job[h].left : n <= k
<1>1. n \in job[h].left /\ job[h].pc = "take" /\ \A k \in job[h].left : n <= k
  BY DEF Takes, Turn, Least
<1>2. n \in DOMAIN queue
  BY <1>1 DEF IInv, JobTyped
<1> QED BY <1>1, <1>2, CaptureIs

LEMMA RetryMoves ==
  ASSUME IInv, NEW h \in Handler, NEW n, Retry(h, n)
  PROVE  /\ Moves(h) /\ TurnsTo(h, n) /\ job'[h].pc = "take" /\ job'[h].text = job[h].text
         /\ job'[h].seq = job[h].seq /\ job'[h].rev = job[h].rev /\ job'[h].at = job[h].at
<1> DEFINE j == [job[h] EXCEPT !.left = job[h].left \ {n}]
<1>1. job[h] \in JobType
  BY DEF IInv, TypeOK
<1>2. j \in JobType
  BY <1>1 DEF JobType
<1>3. Moves(h) /\ job'[h] = j
  BY <1>2, Moved DEF Retry
<1>4. Takes(h, n)
  BY DEF Retry
<1> QED BY <1>1, <1>3, <1>4, TakesIs DEF TurnsTo, JobType

LEMMA EventMoves ==
  ASSUME IInv, NEW h \in Handler, NEW n, Takes(h, n), NEW p \in Pc,
         job' = [job EXCEPT ![h] = [Event(h, n) EXCEPT !.pc = p]]
  PROVE  Moves(h) /\ TurnsTo(h, n) /\ AtHand(h, n) /\ job'[h].pc = p
<1> DEFINE r == IF events = {} THEN NoText ELSE queue[n].text
           j == [job[h] EXCEPT !.left = job[h].left \ {n}, !.text = queue[n].text,
                               !.at = clock, !.rev = r, !.seq = NextSeq]
           k == [j EXCEPT !.pc = p]
<1>1. job[h] \in JobType /\ clock \in Nat
  BY DEF IInv, TypeOK
<1>2. queue[n].text \in Text /\ r \in Text \cup {NoText} /\ NextSeq \in Nat
  BY TakesIs, NextSeqIs
<1>3. k \in JobType
  <2> HIDE DEF r
  <2> QED BY <1>1, <1>2 DEF JobType
<1>4. job' = [job EXCEPT ![h] = k]
  BY DEF Event
<1>5. Moves(h) /\ job'[h] = k
  <2> HIDE DEF k
  <2> QED BY <1>3, <1>4, Moved
<1>6. k.left = job[h].left \ {n} /\ k.heard = job[h].heard /\ k.batch = job[h].batch
      /\ k.chan = job[h].chan /\ k.by = job[h].by /\ k.msg = job[h].msg /\ k.pc = p
      /\ k.text = queue[n].text /\ k.at = clock /\ k.seq = NextSeq /\ k.rev = r
      /\ k.id = job[h].id
  <2> HIDE DEF r
  <2> QED BY <1>1, <1>2 DEF JobType
<1>7. TurnsTo(h, n)
  <2> HIDE DEF k
  <2> QED BY <1>5, <1>6, TakesIs DEF TurnsTo
<1>8. AtHand(h, n)
  <2> HIDE DEF k
  <2> QED BY <1>5, <1>6 DEF AtHand
<1> QED
  <2> HIDE DEF k
  <2> QED BY <1>5, <1>6, <1>7, <1>8

SetAsideWrites(h) ==
  \/ signals' = signals /\ Form[job'[h].text] = "other"
  \/ \E i \in NewId : signals' = [signals EXCEPT ![i] = Row(job'[h])]

LEMMA SetAsideMoves ==
  ASSUME IInv, NEW h \in Handler, NEW n, SetAside(h, n)
  PROVE  /\ Moves(h) /\ TurnsTo(h, n) /\ AtHand(h, n) /\ job'[h].pc = "record"
         /\ SetAsideWrites(h)
<1>1. Takes(h, n) /\ job' = [job EXCEPT ![h] = [Event(h, n) EXCEPT !.pc = "record"]]
  BY DEF SetAside
<1>2. Moves(h) /\ TurnsTo(h, n) /\ AtHand(h, n) /\ job'[h].pc = "record"
  BY <1>1, EventMoves DEF Pc
<1>3. /\ Event(h, n).text = queue[n].text /\ Event(h, n).at = clock
      /\ Event(h, n).chan = job[h].chan /\ Event(h, n).msg = job[h].msg
      /\ Event(h, n).rev = IF events = {} THEN NoText ELSE queue[n].text
  BY DEF Event, IInv, TypeOK, JobType
<1>4. Event(h, n).text = job'[h].text /\ Row(Event(h, n)) = Row(job'[h])
  BY <1>2, <1>3 DEF TurnsTo, AtHand, Row
<1> QED BY <1>2, <1>4 DEF SetAside, SetAsideWrites

LEMMA ExamineMoves ==
  ASSUME IInv, NEW h \in Handler, NEW n, Examine(h, n)
  PROVE  Moves(h) /\ TurnsTo(h, n) /\ AtHand(h, n) /\ job'[h].pc = "route"
  BY EventMoves DEF Examine, Pc

LEMMA DeliverMoves ==
  ASSUME IInv, NEW h \in Handler, NEW c \in Collector, NEW m \in DOMAIN posts,
         Deliver(h, c, m)
  PROVE  /\ Moves(h) /\ job'[h].pc = "route" /\ job'[h].chan = "direct"
         /\ job'[h].by = c /\ job'[h].msg = m /\ job'[h].text = posts[m]
         /\ job'[h].at = clock /\ job'[h].rev = NoText /\ job'[h].heard = FALSE
         /\ job'[h].left = {} /\ job'[h].batch = {} /\ posts[m] \in Text
<1> DEFINE j == [Resting EXCEPT !.pc = "route", !.chan = "direct", !.by = c, !.msg = m,
                               !.text = posts[m], !.at = clock]
<1>1. posts[m] \in Text /\ m \in Nat /\ clock \in Nat
  BY DEF IInv, TypeOK
<1>2. j \in JobType
  BY <1>1, RestingTyped DEF JobType, Pc, Channel
<1>3. Moves(h) /\ job'[h] = j
  BY <1>2, Moved DEF Deliver
<1>4. /\ j.pc = "route" /\ j.chan = "direct" /\ j.by = c /\ j.msg = m /\ j.text = posts[m]
      /\ j.at = clock /\ j.rev = NoText /\ j.heard = FALSE /\ j.left = {} /\ j.batch = {}
  BY DEF Resting
<1> QED
  <2> HIDE DEF j
  <2> QED BY <1>1, <1>3, <1>4

LEMMA RestMoves ==
  ASSUME IInv, NEW h \in Handler, job' = [job EXCEPT ![h] = Resting]
  PROVE  Moves(h) /\ job'[h] = Resting
  BY RestingTyped, Moved

LEMMA ReplyIInv == ASSUME IInv, NEW h \in Handler, Reply(h) PROVE IInv'
<1>1. Moves(h) /\ job'[h] = Resting
  BY RestMoves DEF Reply
<1>2. queue' \in Seq(CaptureType) /\ DOMAIN queue' = DOMAIN queue
  <2>1. \A n \in DOMAIN queue : [queue[n] EXCEPT !.up = TRUE] \in CaptureType
    BY CaptureIs DEF CaptureType
  <2>2. \A n \in 1 .. Len(queue) : queue[n] \in CaptureType
    BY DEF IInv, TypeOK
  <2>3. DOMAIN queue = 1 .. Len(queue) /\ Len(queue) \in Nat
    BY DEF IInv, TypeOK
  <2>4. queue' \in [1 .. Len(queue) -> CaptureType]
    BY <2>1, <2>2, <2>3 DEF Reply
  <2> QED BY <2>3, <2>4
<1>3. \A g \in Handler : JobTyped(job[g])'
  BY <1>1, <1>2, RestingTyped DEF IInv, Moves, JobTyped, Resting, Busy
<1> QED
  BY <1>1, <1>2, <1>3 DEF IInv, TypeOK, Reply, stored, HasLatest, Latest, Moves

(* A step of one handler that leaves the phone, the channel and the events.  *)
LEMMA StepTyped ==
  ASSUME IInv, NEW h \in Handler, Moves(h), JobTyped(job[h])',
         UNCHANGED <<outside, events>>, running' \in Handler \cup {Nobody},
         signals' \in [Id -> RowType \cup {NoRow}], decided' \subseteq Id,
         trades' \subseteq TradeType, checkpoint' \in [Collector -> Nat],
         env' \in [may : Setting, did : Count]
  PROVE  IInv'
<1>1. \A g \in Handler : JobTyped(job[g])'
  BY JobsTyped DEF outside
<1> QED
  BY <1>1 DEF IInv, TypeOK, outside, Moves, HasLatest, Latest

LEMMA JobIs == ASSUME IInv, NEW h \in Handler PROVE job[h] \in JobType
  BY DEF IInv, TypeOK

LEMMA RetryIInv == ASSUME IInv, NEW h \in Handler, NEW n, Retry(h, n) PROVE IInv'
<1>1. Moves(h) /\ TurnsTo(h, n) /\ job'[h].pc = "take"
  BY RetryMoves
<1>2. JobTyped(job[h])'
  BY <1>1 DEF IInv, JobTyped, TurnsTo, Retry, outside, Busy
<1> QED
  BY <1>1, <1>2, StepTyped DEF Retry, stored, IInv, TypeOK

LEMMA AtHandTyped ==
  ASSUME IInv, NEW h \in Handler, NEW n, TurnsTo(h, n), AtHand(h, n), queue' = queue,
         job'[h].pc \in {"route", "record"}
  PROVE  JobTyped(job[h])'
<1>1. queue[n].text \in Text
  BY CaptureIs DEF TurnsTo
<1>2. NextSeq # 0
  BY NextSeqIs
<1> QED
  BY <1>1, <1>2 DEF TurnsTo, AtHand, JobTyped, IInv, Busy

LEMMA ExamineIInv == ASSUME IInv, NEW h \in Handler, NEW n, Examine(h, n) PROVE IInv'
<1>1. Moves(h) /\ TurnsTo(h, n) /\ AtHand(h, n) /\ job'[h].pc = "route"
  BY ExamineMoves
<1>2. JobTyped(job[h])'
  BY <1>1, AtHandTyped DEF Examine, outside
<1> QED
  BY <1>1, <1>2, StepTyped DEF Examine, stored, IInv, TypeOK

LEMMA SetAsideIInv == ASSUME IInv, NEW h \in Handler, NEW n, SetAside(h, n) PROVE IInv'
<1>1. /\ Moves(h) /\ TurnsTo(h, n) /\ AtHand(h, n) /\ job'[h].pc = "record"
      /\ SetAsideWrites(h)
  BY SetAsideMoves
<1>2. JobTyped(job[h])'
  BY <1>1, AtHandTyped DEF SetAside, outside
<1>3. Row(job'[h]) \in RowType
  <2>1. job'[h] \in JobType /\ job'[h].text \in Text
    BY <1>1, <1>2 DEF Moves, JobTyped, Busy
  <2> QED BY <2>1 DEF Row, RowType, JobType
<1>4. signals' \in [Id -> RowType \cup {NoRow}]
  BY <1>1, <1>3 DEF SetAsideWrites, IInv, TypeOK
<1> QED
  BY <1>1, <1>2, <1>4, StepTyped DEF SetAside, IInv, TypeOK

LEMMA DeliverIInv ==
  ASSUME IInv, NEW h \in Handler, NEW c \in Collector, NEW m \in DOMAIN posts,
         Deliver(h, c, m)
  PROVE  IInv'
<1>1. /\ Moves(h) /\ job'[h].pc = "route" /\ job'[h].chan = "direct" /\ job'[h].by = c
      /\ job'[h].text \in Text /\ job'[h].left = {}
  BY DeliverMoves
<1>2. JobTyped(job[h])'
  BY <1>1 DEF JobTyped, Busy
<1>3. env' \in [may : Setting, did : Count]
  BY SpendTyped DEF Deliver
<1> QED
  BY <1>1, <1>2, <1>3, StepTyped DEF Deliver, stored, IInv, TypeOK

(* A step inside handle_signal.                                              *)
LEMMA CarriedTyped ==
  ASSUME IInv, NEW h \in Handler, job[h].pc \in Busy, Carries(h), queue' = queue,
         job'[h].pc \in {"place", "answer"} => job'[h].id \in Id,
         job'[h].pc = "take" => job[h].chan = "phone"
  PROVE  JobTyped(job[h])'
  BY DEF IInv, JobTyped, Carries, Busy

(* The row of what is at hand is written under some id.                      *)
LEMMA WrittenTyped ==
  ASSUME IInv, NEW h \in Handler, job[h].pc \in Busy, NEW i \in Id,
         signals' = [signals EXCEPT ![i] = Row(job[h])]
  PROVE  signals' \in [Id -> RowType \cup {NoRow}]
<1>1. Row(job[h]) \in RowType
  BY JobIs, RowTyped DEF IInv, JobTyped
<1> QED BY <1>1 DEF IInv, TypeOK

(* Whatever is decided, the id is one.                                       *)
LEMMA VerdictIds ==
  ASSUME NEW j, NEW v \in Verdicts(j)
  PROVE  v.ids \subseteq Id
<1>1. Earliest(Known(j)) \subseteq Id /\ NewId \subseteq Id
  BY DEF Earliest, Known, Recorded, NewId, Least
<1>2. \A i \in Earliest(Comparable(j)) : i \in Id
  BY DEF Earliest, Comparable, Recorded
<1>3. \A i \in Id : Resolution(j, i).ids \subseteq Id
  BY <1>1 DEF Resolution
<1> QED BY <1>1, <1>2, <1>3 DEF Verdicts

LEMMA HoldIInv == ASSUME IInv, NEW h \in Handler, Hold(h) PROVE IInv'
<1>1. Moves(h) /\ Carries(h) /\ job'[h].pc = "record" /\ job[h].pc = "route"
  BY PcMoves DEF Hold, Turn, Pc
<1>2. PICK i \in Id : signals' = [signals EXCEPT ![i] = Row(job[h])]
  BY VerdictIds DEF Hold
<1>3. JobTyped(job[h])' /\ signals' \in [Id -> RowType \cup {NoRow}]
  BY <1>1, <1>2, CarriedTyped, WrittenTyped DEF Busy, Hold, outside
<1> QED
  BY <1>1, <1>3, StepTyped DEF Hold, IInv, TypeOK

LEMMA ReplayIInv == ASSUME IInv, NEW h \in Handler, Replay(h) PROVE IInv'
<1>1. Moves(h) /\ Carries(h) /\ job'[h].pc = "record" /\ job[h].pc = "route"
  BY PcMoves DEF Replay, Turn, Pc
<1>2. JobTyped(job[h])'
  BY <1>1, CarriedTyped DEF Busy, Replay, outside
<1> QED
  BY <1>1, <1>2, StepTyped DEF Replay, stored, IInv, TypeOK

LEMMA AdmitIInv == ASSUME IInv, NEW h \in Handler, Admit(h) PROVE IInv'
<1>1. PICK i \in Id : /\ signals' = [signals EXCEPT ![i] = Row(job[h])]
                      /\ job' = [job EXCEPT ![h].pc = "place", ![h].id = i]
  BY VerdictIds DEF Admit
<1>2. /\ Moves(h) /\ Carries(h) /\ job'[h].pc = "place" /\ job[h].pc = "route"
      /\ job'[h].id = i
  BY <1>1, AdmitMoves DEF Admit, Turn
<1>3. JobTyped(job[h])' /\ signals' \in [Id -> RowType \cup {NoRow}]
  BY <1>1, <1>2, CarriedTyped, WrittenTyped DEF Busy, Admit, outside
<1> QED
  BY <1>2, <1>3, StepTyped DEF Admit, IInv, TypeOK

LEMMA OrderTyped ==
  ASSUME IInv, NEW h \in Underway PROVE Order(job[h]) \in TradeType /\ job[h].id \in Id
  BY JobIs DEF Underway, IInv, JobTyped, Order, TradeType, JobType, Busy

LEMMA PlaceIInv == ASSUME IInv, NEW h \in Handler, Place(h) PROVE IInv'
<1>1. Moves(h) /\ Carries(h) /\ job'[h].pc = "answer" /\ job[h].pc = "place"
      /\ job'[h].id = job[h].id
  BY PcMoves DEF Place, Turn, Pc
<1>2. job[h].id \in Id /\ trades' \subseteq TradeType
  <2>1. h \in Underway
    BY <1>1 DEF Underway
  <2> QED BY <2>1, OrderTyped DEF Place, Order, IInv, TypeOK
<1>3. JobTyped(job[h])'
  BY <1>1, <1>2, CarriedTyped DEF Busy, Place, outside
<1> QED
  BY <1>1, <1>2, <1>3, StepTyped DEF Place, stored, IInv, TypeOK

LEMMA YieldIInv == ASSUME IInv, NEW h \in Handler, Yield(h) PROVE IInv'
<1>1. Moves(h) /\ Carries(h) /\ job'[h].pc = "record" /\ job[h].pc = "place"
  BY PcMoves DEF Yield, Turn, Pc
<1>2. JobTyped(job[h])'
  BY <1>1, CarriedTyped DEF Busy, Yield, outside
<1> QED
  BY <1>1, <1>2, StepTyped DEF Yield, stored, IInv, TypeOK

LEMMA DeclineIInv == ASSUME IInv, NEW h \in Handler, Decline(h) PROVE IInv'
<1>1. /\ Moves(h) /\ Carries(h) /\ job'[h].pc \in {"answer", "record"} /\ job[h].pc = "place"
      /\ job'[h].id = job[h].id
  BY PcMoves DEF Decline, Turn, Pc
<1>2. job[h].id \in Id
  <2>1. h \in Underway
    BY <1>1 DEF Underway
  <2> QED BY <2>1, OrderTyped
<1>3. JobTyped(job[h])'
  BY <1>1, <1>2, CarriedTyped DEF Busy, Decline, outside
<1> QED
  BY <1>1, <1>3, StepTyped DEF Decline, stored, IInv, TypeOK

LEMMA AnswerIInv == ASSUME IInv, NEW h \in Handler, Answer(h) PROVE IInv'
<1>1. Moves(h) /\ Carries(h) /\ job'[h].pc = "record" /\ job[h].pc = "answer"
  BY PcMoves DEF Answer, Turn, Pc
<1>2. JobTyped(job[h])'
  BY <1>1, CarriedTyped DEF Busy, Answer, outside
<1>3. decided' \subseteq Id
  BY <1>1 DEF Answer, IInv, TypeOK, JobTyped
<1> QED
  BY <1>1, <1>2, <1>3, StepTyped DEF Answer, IInv, TypeOK

LEMMA RecordIInv == ASSUME IInv, NEW h \in Handler, Record(h) PROVE IInv'
<1>1. Moves(h) /\ Carries(h) /\ job'[h].pc = "take" /\ job[h].pc = "record"
      /\ job[h].chan = "phone"
  BY PcMoves DEF Record, Turn, Pc
<1>2. JobTyped(job[h])'
  BY <1>1, CarriedTyped DEF Busy, Record, outside
<1>3. job[h].text \in Text /\ job[h].seq \in Nat \ {0}
  BY <1>1, JobIs DEF IInv, JobTyped, Busy, JobType
<1>4. HasLatest'
  BY <1>3, LatestKept DEF Record
<1>5. \A g \in Handler : JobTyped(job[g])'
  BY <1>1, <1>2, JobsTyped DEF Record, outside
<1> QED
  BY <1>1, <1>3, <1>4, <1>5 DEF Record, outside, IInv, TypeOK, Moves

LEMMA AdvanceIInv == ASSUME IInv, NEW h \in Handler, Advance(h) PROVE IInv'
<1>1. Moves(h) /\ job'[h] = Resting
  BY RestMoves DEF Advance
<1>2. checkpoint' \in [Collector -> Nat]
  BY JobIs DEF Advance, IInv, TypeOK, JobType
<1> QED
  BY <1>1, <1>2, RestingTyped, StepTyped DEF Advance, JobTyped, Resting, Busy, IInv, TypeOK

LEMMA FailIInv == ASSUME IInv, NEW h \in Handler, Fail(h) PROVE IInv'
<1>1. Moves(h) /\ job'[h] = Resting
  BY RestMoves DEF Fail
<1>2. env' \in [may : Setting, did : Count]
  BY SpendTyped DEF Fail
<1>3. JobTyped(job[h])'
  BY <1>1 DEF JobTyped, Resting, Busy
<1> QED
  BY <1>1, <1>2, <1>3, StepTyped DEF Fail, stored, IInv, TypeOK

LEMMA CrashIInv == ASSUME IInv, Crash PROVE IInv'
<1>1. env' \in [may : Setting, did : Count]
  BY SpendTyped DEF Crash
<1>2. \A h \in Handler : job'[h] = Resting
  BY DEF Crash
<1>3. \A h \in Handler : JobTyped(job[h])'
  BY <1>2 DEF JobTyped, Resting, Busy
<1> QED
  BY <1>1, <1>3, RestingTyped DEF Crash, outside, stored, IInv, TypeOK, HasLatest, Latest

LEMMA NextIInv == IInv /\ [Next]_vars => IInv'
<1> SUFFICES ASSUME IInv, [Next]_vars PROVE IInv'
  OBVIOUS
<1>1. ASSUME NEW x \in Text, Capture(x) \/ Post(x) PROVE IInv'
  BY <1>1, CaptureIInv, PostIInv
<1>2. ASSUME NEW h \in Handler, Upload(h) \/ LoseReply(h) \/ Fail(h) PROVE IInv'
  BY <1>2, UploadIInv, LoseReplyIInv, FailIInv
<1>3. ASSUME NEW h \in Handler, Work(h) PROVE IInv'
  BY <1>3, ReplyIInv, HoldIInv, ReplayIInv, AdmitIInv, PlaceIInv, DeclineIInv, YieldIInv,
     AnswerIInv, RecordIInv, AdvanceIInv, RetryIInv, SetAsideIInv, ExamineIInv DEF Work
<1>4. ASSUME NEW h \in Handler, NEW c \in Collector, NEW m \in DOMAIN posts, Deliver(h, c, m)
      PROVE IInv'
  BY <1>4, DeliverIInv
<1>5. CASE UNCHANGED vars
  BY <1>5 DEF vars, outside, stored, IInv, TypeOK, HasLatest, Latest, JobTyped
<1> QED BY <1>1, <1>2, <1>3, <1>4, <1>5, TickIInv, CrashIInv DEF Next

(* In every reachable state the variables have their types.                  *)

\* The phone's queue, the signals table, the bridge's events, the checkpoints, the
\* handlers and the clock hold what they are meant to, whatever is captured,
\* delivered, repeated, lost or restarted.
THEOREM TypeCorrect == Spec => []TypeOK
<1>1. IInv => TypeOK
  BY DEF IInv
<1> QED BY <1>1, InitIInv, NextIInv, PTL DEF Spec

-----------------------------------------------------------------------------
(* What was said stays said, and time does not go back.                      *)
Grows ==
  /\ DOMAIN queue \subseteq DOMAIN queue' /\ DOMAIN posts \subseteq DOMAIN posts'
  /\ \A n \in DOMAIN queue : queue'[n].text = queue[n].text /\ queue'[n].at = queue[n].at
  /\ \A n \in DOMAIN queue' \ DOMAIN queue : queue'[n].at <= clock'
  /\ \A m \in DOMAIN posts : posts'[m] = posts[m]
  /\ clock \in Nat /\ clock' \in Nat /\ clock <= clock'

LEMMA SameGrows == ASSUME IInv, UNCHANGED outside PROVE Grows
  BY DEF IInv, TypeOK, outside, Grows

LEMMA RowIs ==
  ASSUME IInv, NEW i \in Recorded
  PROVE  signals[i] \in RowType /\ i \in Id /\ signals[i].at \in Nat
<1>1. signals[i] \in RowType /\ i \in Id
  BY DEF Recorded, IInv, TypeOK
<1> QED BY <1>1 DEF RowType

LEMMA RowsKept ==
  ASSUME BInv, Grows, signals' = signals
  PROVE  \A i \in Recorded' : RowHonest(i)'
<1> SUFFICES ASSUME NEW i \in Recorded' PROVE RowHonest(i)'
  OBVIOUS
<1>1. i \in Recorded
  BY DEF Recorded
<1>2. RowHonest(i) /\ signals[i].at \in Nat
  BY <1>1, RowIs DEF BInv
<1> QED BY <1>2 DEF RowHonest, Said, Shown, Revises, Grows

LEMMA RowsWritten ==
  ASSUME BInv, Grows, NEW k \in Id, NEW r, signals' = [signals EXCEPT ![k] = r],
         Said(r), Revises(r), r.at \in Nat, r.at <= clock'
  PROVE  \A i \in Recorded' : RowHonest(i)'
<1> SUFFICES ASSUME NEW i \in Recorded' PROVE RowHonest(i)'
  OBVIOUS
<1>1. CASE i = k
  <2>1. signals'[i] = r
    BY <1>1 DEF BInv, IInv, TypeOK
  <2> QED BY <2>1 DEF RowHonest, Said, Shown, Revises, Grows
<1>2. CASE i # k
  <2>1. i \in Recorded /\ signals'[i] = signals[i]
    BY <1>2 DEF Recorded, BInv, IInv, TypeOK
  <2>2. RowHonest(i) /\ signals[i].at \in Nat
    BY <2>1, RowIs DEF BInv
  <2> QED BY <2>1, <2>2 DEF RowHonest, Said, Shown, Revises, Grows
<1> QED BY <1>1, <1>2

LEMMA OrderIs ==
  ASSUME IInv, NEW a \in Orders PROVE a \in TradeType /\ a.id \in Id /\ a.at \in Nat
<1>1. a \in TradeType
  BY OrderTyped DEF Orders, IInv, TypeOK
<1> QED BY <1>1 DEF TradeType

(* Rows stay, and are written later than they were.                          *)
Later == \A i \in Recorded : i \in Recorded' /\ signals[i].at <= signals'[i].at

LEMMA OrderStays ==
  ASSUME BInv, IInv', Grows, Later, NEW a \in Orders PROVE OrderKept(a)'
<1>1. OrderKept(a) /\ a.at \in Nat
  BY OrderIs DEF BInv
<1>2. a.id \in Recorded /\ signals[a.id].at \in Nat
  BY <1>1, RowIs DEF OrderKept, BInv
<1>3. signals'[a.id].at \in Nat /\ a.id \in Recorded'
  <2>1. a.id \in Recorded' /\ a.id \in Id
    BY <1>2 DEF Later, Recorded
  <2>2. signals'[a.id] \in RowType
    BY <2>1 DEF Recorded, IInv, TypeOK
  <2> QED BY <2>1, <2>2 DEF RowType
<1>4. signals[a.id].at <= signals'[a.id].at
  BY <1>2 DEF Later
<1> QED BY <1>1, <1>2, <1>3, <1>4 DEF OrderKept, Said, Shown, Grows

LEMMA SameLater == ASSUME IInv, signals' = signals PROVE Later
  BY RowIs DEF Later, Recorded

LEMMA WrittenLater ==
  ASSUME IInv, NEW k \in Id, NEW r, r # NoRow, signals' = [signals EXCEPT ![k] = r],
         k \in Recorded => signals[k].at <= r.at
  PROVE  Later /\ Recorded' = Recorded \cup {k}
<1>1. \A i \in Id : signals'[i] = IF i = k THEN r ELSE signals[i]
  BY DEF IInv, TypeOK
<1> QED BY <1>1, RowIs DEF Later, Recorded

(* A step that admits nothing adds no order.                                 *)
LEMMA NoMoreOrders ==
  ASSUME NEW h \in Handler, Moves(h), trades' \subseteq Orders,
         job'[h].pc \in {"place", "answer"} =>
           job[h].pc \in {"place", "answer"} /\ Order(job'[h]) = Order(job[h])
  PROVE  Orders' \subseteq Orders
<1> SUFFICES ASSUME NEW g \in Underway' PROVE Order(job'[g]) \in Orders
  BY DEF Orders
<1>1. CASE g = h
  BY <1>1 DEF Underway, Orders
<1>2. CASE g # h
  <2>1. job'[g] = job[g]
    BY <1>2 DEF Moves, Underway
  <2> QED BY <2>1 DEF Underway, Orders
<1> QED BY <1>1, <1>2

(* A handler in its turn: nobody else is between two awaits.                 *)
LEMMA OthersWait ==
  ASSUME BInv, NEW h \in Handler, running \in {h, Nobody}, NEW g \in Handler \ {h}
  PROVE  job[g].pc # "route"
  BY NobodyAssumption DEF BInv, Placed

LEMMA ShownBefore ==
  ASSUME BInv, Grows PROVE \A n \in DOMAIN queue' : queue'[n].at <= clock'
<1>1. IInv /\ \A n \in DOMAIN queue : queue[n].at \in Nat /\ queue[n].at <= clock
  BY CaptureIs DEF BInv
<1> QED BY <1>1 DEF Grows

LEMMA TurnKeeps ==
  ASSUME BInv, IInv', NEW h \in Handler, Moves(h), Grows, running \in {h, Nobody},
         Placed(h)', \A i \in Recorded' : RowHonest(i)', \A a \in Orders' : OrderKept(a)',
         \A e \in events' : Shown(e.text)'
  PROVE  BInv'
<1>1. ASSUME NEW g \in Handler \ {h} PROVE Placed(g)'
  <2>1. job'[g] = job[g] /\ job[g].pc # "route" /\ Placed(g) /\ job[g].at \in Nat
    BY OthersWait, JobIs DEF Moves, BInv, JobType
  <2> QED BY <2>1 DEF Placed, Said, Shown, Revises, Grows
<1> QED BY <1>1, ShownBefore DEF BInv

LEMMA EventsShown ==
  ASSUME BInv, Grows, NEW e \in events PROVE Shown(e.text)'
  BY DEF BInv, Shown, Grows

(* A step between two turns, of a handler or of nobody.                      *)
LEMMA AsideKeeps ==
  ASSUME BInv, IInv', Grows, UNCHANGED <<signals, events, running>>,
         Orders' \subseteq Orders,
         \A g \in Handler : \/ /\ job'[g].pc = job[g].pc /\ job'[g].chan = job[g].chan
                               /\ job'[g].heard => job[g].heard
                               /\ job'[g].msg = job[g].msg /\ job'[g].rev = job[g].rev
                               /\ job'[g].text = job[g].text /\ job'[g].at = job[g].at
                            \/ job'[g].pc = "take" /\ job'[g].chan = "phone" /\ job'[g].msg = 0
  PROVE  BInv'
<1>1. ASSUME NEW g \in Handler PROVE Placed(g)'
  <2>1. Placed(g) /\ job[g].at \in Nat
    BY JobIs DEF BInv, JobType
  <2>2. job'[g].heard \in BOOLEAN
    BY DEF IInv, TypeOK, JobType
  <2>3. CASE job'[g].pc = "take" /\ job'[g].chan = "phone" /\ job'[g].msg = 0
    BY <2>3 DEF Placed, Busy
  <2>4. CASE /\ job'[g].pc = job[g].pc /\ job'[g].chan = job[g].chan
             /\ job'[g].heard => job[g].heard
             /\ job'[g].msg = job[g].msg /\ job'[g].rev = job[g].rev
             /\ job'[g].text = job[g].text /\ job'[g].at = job[g].at
    BY <2>1, <2>2, <2>4 DEF Placed, Said, Shown, Revises, Grows, Recorded
  <2> QED BY <2>3, <2>4
<1>2. \A a \in Orders' : OrderKept(a)'
  BY OrderStays, SameLater DEF BInv
<1> QED BY <1>1, <1>2, RowsKept, EventsShown, ShownBefore DEF BInv

LEMMA CarriedOrder ==
  ASSUME NEW h \in Handler, Carries(h), job'[h].id = job[h].id
  PROVE  Order(job'[h]) = Order(job[h])
  BY DEF Carries, Order

LEMMA SameOrders == ASSUME UNCHANGED <<job, trades>> PROVE Orders' = Orders
  BY DEF Orders, Underway

LEMMA CaptureGrows == ASSUME IInv, NEW x \in Text, Capture(x) PROVE Grows
<1>1. queue \in Seq(CaptureType) /\ queue' = Append(queue, [text |-> x, at |-> clock, up |-> FALSE])
  BY DEF IInv, TypeOK, Capture
<1>2. DOMAIN queue' = 1 .. Len(queue) + 1 /\ DOMAIN queue = 1 .. Len(queue) /\ Len(queue) \in Nat
      /\ \A n \in 1 .. Len(queue) : queue'[n] = queue[n]
      /\ queue'[Len(queue) + 1].at = clock
  BY <1>1
<1>3. \A n \in DOMAIN queue' \ DOMAIN queue : n = Len(queue) + 1
  BY <1>2
<1> QED BY <1>2, <1>3 DEF Grows, Capture, IInv, TypeOK

LEMMA CaptureBInv == ASSUME BInv, IInv', NEW x \in Text, Capture(x) PROVE BInv'
  BY CaptureGrows, SameOrders, AsideKeeps DEF Capture, stored, BInv

LEMMA PostGrows == ASSUME IInv, NEW x \in Text, Post(x) PROVE Grows
<1>1. posts \in Seq(Text) /\ posts' = Append(posts, x)
  BY DEF IInv, TypeOK, Post
<1>2. DOMAIN posts' = 1 .. Len(posts) + 1 /\ DOMAIN posts = 1 .. Len(posts) /\ Len(posts) \in Nat
      /\ \A n \in 1 .. Len(posts) : posts'[n] = posts[n]
  BY <1>1
<1> QED BY <1>2 DEF Grows, Post, IInv, TypeOK

LEMMA PostBInv == ASSUME BInv, IInv', NEW x \in Text, Post(x) PROVE BInv'
  BY PostGrows, SameOrders, AsideKeeps DEF Post, stored, BInv

(* An answered batch is the same batch, marked.                              *)
LEMMA ReplyGrows ==
  ASSUME IInv, NEW h \in Handler, Reply(h)
  PROVE  /\ Grows /\ DOMAIN queue' = DOMAIN queue
         /\ \A n \in DOMAIN queue :
              queue'[n].text = queue[n].text /\ queue'[n].at = queue[n].at
<1>1. \A n \in DOMAIN queue : queue[n] \in CaptureType
  BY CaptureIs
<1>2. \A n \in DOMAIN queue : /\ [queue[n] EXCEPT !.up = TRUE].text = queue[n].text
                               /\ [queue[n] EXCEPT !.up = TRUE].at = queue[n].at
  BY <1>1 DEF CaptureType
<1>3. DOMAIN queue' = DOMAIN queue /\ \A n \in DOMAIN queue :
        queue'[n].text = queue[n].text /\ queue'[n].at = queue[n].at
  BY <1>2 DEF Reply
<1> QED BY <1>3 DEF Grows, Reply, IInv, TypeOK

LEMMA TickBInv == ASSUME BInv, IInv', Tick PROVE BInv'
<1>1. Grows
  BY DEF Grows, Tick, BInv, IInv, TypeOK
<1> QED BY <1>1, SameOrders, AsideKeeps DEF Tick, stored, BInv

LEMMA UploadBInv == ASSUME BInv, IInv', NEW h \in Handler, Upload(h) PROVE BInv'
<1>1. IInv /\ Grows
  BY SameGrows DEF BInv, Upload
<1>2. job'[h].pc = "take" /\ job'[h].chan = "phone" /\ job'[h].msg = 0
      /\ \A g \in Handler \ {h} : job'[g] = job[g]
  BY <1>1 DEF IInv, TypeOK, Upload, Resting
<1>3. Orders' \subseteq Orders
  BY <1>1, <1>2, NoMoreOrders DEF Moves, Upload, IInv, TypeOK, Orders
<1> QED BY <1>1, <1>2, <1>3, AsideKeeps DEF Upload, stored, BInv

LEMMA LoseReplyBInv == ASSUME BInv, IInv', NEW h \in Handler, LoseReply(h) PROVE BInv'
<1>1. IInv /\ Grows
  BY SameGrows DEF BInv, LoseReply
<1>2. /\ job'[h].pc = job[h].pc /\ job'[h].chan = job[h].chan /\ ~job'[h].heard
      /\ job'[h].msg = job[h].msg /\ job'[h].rev = job[h].rev
      /\ job'[h].text = job[h].text /\ job'[h].at = job[h].at /\ job'[h].id = job[h].id
      /\ \A g \in Handler \ {h} : job'[g] = job[g]
  BY <1>1 DEF IInv, TypeOK, LoseReply, JobType
<1>3. Orders' \subseteq Orders
  BY <1>1, <1>2, NoMoreOrders DEF Moves, LoseReply, IInv, TypeOK, Orders, Order
<1> QED BY <1>1, <1>2, <1>3, AsideKeeps DEF LoseReply, stored, BInv

(* A step inside a turn that writes no row.                                  *)
LEMMA UnwrittenKeeps ==
  ASSUME BInv, IInv', NEW h \in Handler, Moves(h), UNCHANGED <<posts, clock, signals>>,
         DOMAIN queue' = DOMAIN queue,
         \A n \in DOMAIN queue : queue'[n].text = queue[n].text /\ queue'[n].at = queue[n].at,
         running \in {h, Nobody}, Placed(h)', Orders' \subseteq Orders,
         \A e \in events' : e \in events \/ Shown(e.text)
  PROVE  BInv'
<1>1. Grows
  BY DEF Grows, BInv, IInv, TypeOK
<1>2. \A a \in Orders' : OrderKept(a)'
  BY <1>1, OrderStays, SameLater DEF BInv
<1>3. \A e \in events' : Shown(e.text)'
  BY <1>1, EventsShown DEF Shown, Grows
<1> QED BY <1>1, <1>2, <1>3, RowsKept, TurnKeeps

LEMMA RestingPlaced ==
  ASSUME NEW h \in Handler, job'[h] = Resting PROVE Placed(h)'
  BY DEF Placed, Resting, Busy

LEMMA RestBInv ==
  ASSUME BInv, IInv', NEW h \in Handler, Reply(h) \/ Advance(h) \/ Fail(h) PROVE BInv'
<1>1. IInv
  BY DEF BInv
<1>2. Moves(h) /\ job'[h] = Resting
  BY <1>1, RestMoves DEF Reply, Advance, Fail
<1>3. Orders' \subseteq Orders
  BY <1>2, NoMoreOrders DEF Reply, Advance, Fail, stored, Orders, Resting
<1>4. running \in {h, Nobody} /\ UNCHANGED <<posts, clock, signals, events>>
  BY DEF Reply, Advance, Fail, Turn, stored, outside
<1>5. DOMAIN queue' = DOMAIN queue /\ \A n \in DOMAIN queue :
        queue'[n].text = queue[n].text /\ queue'[n].at = queue[n].at
  <2>1. CASE queue' = queue
    BY <2>1
  <2>2. CASE Reply(h)
    BY <1>1, <2>2, ReplyGrows
  <2> QED BY <2>1, <2>2 DEF Advance, Fail, outside
<1> QED BY <1>2, <1>3, <1>4, <1>5, RestingPlaced, UnwrittenKeeps

LEMMA RetryBInv == ASSUME BInv, IInv', NEW h \in Handler, NEW n, Retry(h, n) PROVE BInv'
<1>1. IInv
  BY DEF BInv
<1>2. Moves(h) /\ TurnsTo(h, n) /\ job'[h].pc = "take"
  BY <1>1, RetryMoves
<1>3. Placed(h)'
  BY <1>2 DEF TurnsTo, Placed, BInv, Busy, IInv, JobTyped
<1>4. Orders' \subseteq Orders
  BY <1>2, NoMoreOrders DEF Retry, Orders
<1> QED BY <1>2, <1>3, <1>4, UnwrittenKeeps DEF Retry, Takes, Turn, stored, outside

(* The notification at hand is shown, and its event is new.                  *)
LEMMA AtHandSaid ==
  ASSUME BInv, NEW h \in Handler, NEW n, TurnsTo(h, n), AtHand(h, n), UNCHANGED outside
  PROVE  /\ Said(job'[h]) /\ Revises(job'[h]) /\ job'[h].at = clock /\ clock \in Nat
         /\ job'[h].chan = "phone" /\ job'[h].msg = 0 /\ job'[h].text = queue[n].text
<1>1. job[h].chan = "phone" /\ job[h].msg = 0
  BY DEF TurnsTo, BInv, IInv, JobTyped, Placed
<1> QED
  BY <1>1 DEF TurnsTo, AtHand, Said, Shown, Revises, outside, BInv, IInv, TypeOK

LEMMA ExamineBInv == ASSUME BInv, IInv', NEW h \in Handler, NEW n, Examine(h, n) PROVE BInv'
<1>1. IInv
  BY DEF BInv
<1>2. Moves(h) /\ TurnsTo(h, n) /\ AtHand(h, n) /\ job'[h].pc = "route"
  BY <1>1, ExamineMoves
<1>3. /\ Said(job'[h]) /\ Revises(job'[h]) /\ job'[h].at = clock /\ clock \in Nat
      /\ job'[h].chan = "phone" /\ job'[h].msg = 0
  BY <1>2, AtHandSaid DEF Examine
<1>4. Placed(h)'
  <2>1. \A i \in Recorded' : i \in Recorded /\ signals'[i] = signals[i]
    BY DEF Examine, stored, Recorded
  <2>2. \A i \in Recorded : signals[i].at <= clock
    BY DEF BInv, RowHonest
  <2>3. running' = h /\ clock' = clock
    BY DEF Examine, outside
  <2> QED BY <1>2, <1>3, <2>1, <2>2, <2>3 DEF Placed, Revises, Said, Shown, Examine, outside
<1>5. Orders' \subseteq Orders
  BY <1>2, NoMoreOrders DEF Examine, Orders
<1> QED BY <1>2, <1>4, <1>5, UnwrittenKeeps DEF Examine, Takes, Turn, stored, outside

LEMMA RowOf ==
  ASSUME IInv', NEW h \in Handler, job'[h].text \in Text, Said(job'[h]), Revises(job'[h])
  PROVE  /\ Row(job'[h]) # NoRow /\ Said(Row(job'[h])) /\ Revises(Row(job'[h]))
         /\ Row(job'[h]).at = job'[h].at /\ job'[h].at \in Nat
<1>1. job'[h] \in JobType
  BY DEF IInv, TypeOK
<1>2. Row(job'[h]) \in RowType
  BY <1>1 DEF Row, RowType, JobType
<1>3. job'[h].at \in Nat
  BY <1>1 DEF JobType
<1> QED BY <1>2, <1>3, IdAssumption DEF Row, Said, Revises

LEMMA SetAsideBInv ==
  ASSUME BInv, IInv', NEW h \in Handler, NEW n, SetAside(h, n) PROVE BInv'
<1>1. IInv
  BY DEF BInv
<1>2. /\ Moves(h) /\ TurnsTo(h, n) /\ AtHand(h, n) /\ job'[h].pc = "record"
      /\ SetAsideWrites(h)
  BY <1>1, SetAsideMoves
<1>3. /\ Said(job'[h]) /\ Revises(job'[h]) /\ job'[h].at = clock /\ clock \in Nat
      /\ job'[h].chan = "phone" /\ job'[h].msg = 0
  BY <1>2, AtHandSaid DEF SetAside
<1>4. Placed(h)'
  <2>1. running' = h /\ clock' = clock
    BY DEF SetAside, outside
  <2> QED BY <1>2, <1>3, <2>1 DEF Placed, Revises, Said, Shown, SetAside, outside
<1>5. Orders' \subseteq Orders
  BY <1>2, NoMoreOrders DEF SetAside, Orders
<1>6. Grows
  BY <1>1, SameGrows DEF SetAside
<1>7. /\ Row(job'[h]) # NoRow /\ Said(Row(job'[h])) /\ Revises(Row(job'[h]))
      /\ Row(job'[h]).at = clock
  <2>1. job'[h].text \in Text
    BY <1>1, <1>2, TakesIs DEF SetAside, AtHand
  <2> QED BY <2>1, <1>3, RowOf
<1>8. Later /\ \A i \in Recorded' : RowHonest(i)'
  <2>1. CASE signals' = signals
    BY <2>1, <1>1, <1>6, SameLater, RowsKept
  <2>2. CASE \E i \in NewId : signals' = [signals EXCEPT ![i] = Row(job'[h])]
    <3>1. PICK i \in NewId : signals' = [signals EXCEPT ![i] = Row(job'[h])]
      BY <2>2
    <3>2. i \in Id /\ i \notin Recorded
      BY DEF NewId, Least
    <3>3. DEFINE r == Row(job'[h])
    <3>4. Later
      BY <1>1, <1>7, <3>1, <3>2, WrittenLater
    <3>5. \A k \in Recorded' : RowHonest(k)'
      <4>1. r.at <= clock' /\ r.at \in Nat
        BY <1>3, <1>7 DEF SetAside, outside
      <4> HIDE DEF r
      <4> QED BY <1>6, <3>1, <3>2, <4>1, <1>7, RowsWritten DEF r
    <3> QED BY <3>4, <3>5
  <2> QED BY <2>1, <2>2, <1>2 DEF SetAsideWrites
<1>9. \A a \in Orders' : OrderKept(a)'
  BY <1>5, <1>6, <1>8, OrderStays
<1>10. \A e \in events' : Shown(e.text)'
  BY <1>6, EventsShown DEF SetAside
<1> QED BY <1>2, <1>4, <1>6, <1>8, <1>9, <1>10, TurnKeeps DEF SetAside, Takes, Turn

LEMMA DeliverBInv ==
  ASSUME BInv, IInv', NEW h \in Handler, NEW c \in Collector, NEW m \in DOMAIN posts,
         Deliver(h, c, m)
  PROVE  BInv'
<1>1. IInv
  BY DEF BInv
<1>2. /\ Moves(h) /\ job'[h].pc = "route" /\ job'[h].chan = "direct" /\ job'[h].msg = m
      /\ job'[h].text = posts[m] /\ job'[h].at = clock /\ job'[h].rev = NoText
      /\ job'[h].heard = FALSE
  BY <1>1, DeliverMoves
<1>3. Placed(h)'
  <2>1. \A i \in Recorded' : i \in Recorded /\ signals'[i] = signals[i]
    BY DEF Deliver, stored, Recorded
  <2>2. \A i \in Recorded : signals[i].at <= clock
    BY DEF BInv, RowHonest
  <2>3. running' = h /\ clock' = clock /\ posts' = posts /\ clock \in Nat
    BY <1>1 DEF Deliver, outside, IInv, TypeOK
  <2> QED BY <1>2, <2>1, <2>2, <2>3 DEF Placed, Revises, Said
<1>4. Orders' \subseteq Orders
  BY <1>2, NoMoreOrders DEF Deliver, Orders
<1> QED BY <1>2, <1>3, <1>4, UnwrittenKeeps DEF Deliver, Turn, stored, outside

(* The row of what is at hand is written: it is as honest as the handler.    *)
LEMMA RouteWrites ==
  ASSUME BInv, NEW h \in Handler, job[h].pc = "route", NEW i \in Id, UNCHANGED outside,
         signals' = [signals EXCEPT ![i] = Row(job[h])]
  PROVE  /\ Later /\ Recorded' = Recorded \cup {i} /\ \A k \in Recorded' : RowHonest(k)'
         /\ signals'[i] = Row(job[h]) /\ \A k \in Id \ {i} : signals'[k] = signals[k]
<1> DEFINE r == Row(job[h])
<1>1. IInv /\ Grows
  BY SameGrows DEF BInv
<1>2. job[h] \in JobType /\ job[h].text \in Text
  BY <1>1, JobIs DEF IInv, JobTyped, Busy
<1>3. r \in RowType
  BY <1>1, <1>2, RowTyped
<1>4. Said(r) /\ Revises(r) /\ r.at = job[h].at /\ r.at \in Nat /\ r.at <= clock /\ r # NoRow
  BY <1>2, <1>3, IdAssumption DEF BInv, Placed, Busy, Row, Said, Revises, JobType
<1>5. i \in Recorded => signals[i].at <= r.at
  BY <1>4 DEF BInv, Placed
<1>6. signals' = [signals EXCEPT ![i] = r]
  OBVIOUS
<1>7. signals'[i] = r /\ \A k \in Id \ {i} : signals'[k] = signals[k]
  BY <1>1, <1>6 DEF IInv, TypeOK
<1> HIDE DEF r
<1>8. Later /\ Recorded' = Recorded \cup {i}
  BY <1>1, <1>4, <1>5, <1>6, WrittenLater
<1>9. \A k \in Recorded' : RowHonest(k)'
  <2>1. r.at <= clock'
    BY <1>4 DEF outside
  <2> QED BY <1>1, <1>4, <1>6, <2>1, RowsWritten
<1> QED BY <1>7, <1>8, <1>9 DEF r

LEMMA CarriedPlaced ==
  ASSUME BInv, NEW h \in Handler, job[h].pc \in Busy, Carries(h), UNCHANGED outside,
         job'[h].pc \in Busy \ {"route"}
  PROVE  Placed(h)'
<1>1. job[h].pc # "idle" /\ job'[h].pc # "idle" /\ job'[h].pc # "route" /\ job'[h].pc # "take"
  BY DEF Busy
<1> QED
  BY <1>1 DEF BInv, Placed, Carries, Said, Shown, Revises, outside

LEMMA HoldBInv == ASSUME BInv, IInv', NEW h \in Handler, Hold(h) PROVE BInv'
<1>1. IInv /\ job[h].pc = "route" /\ UNCHANGED <<outside, events, trades>>
  BY DEF BInv, Hold, Turn
<1>2. Moves(h) /\ Carries(h) /\ job'[h].pc = "record"
  BY <1>1, PcMoves DEF Hold, Pc
<1>3. PICK i \in Id : signals' = [signals EXCEPT ![i] = Row(job[h])]
  BY VerdictIds DEF Hold
<1>4. Later /\ \A k \in Recorded' : RowHonest(k)'
  BY <1>1, <1>3, RouteWrites
<1>5. Orders' \subseteq Orders
  BY <1>1, <1>2, NoMoreOrders DEF Orders
<1>6. Grows /\ \A a \in Orders' : OrderKept(a)'
  BY <1>1, <1>4, <1>5, SameGrows, OrderStays
<1>7. Placed(h)'
  BY <1>1, <1>2, CarriedPlaced DEF Busy
<1> QED BY <1>1, <1>2, <1>4, <1>6, <1>7, EventsShown, TurnKeeps DEF Hold, Turn

LEMMA AdmitIs ==
  ASSUME BInv, NEW h \in Handler, Admit(h)
  PROVE  /\ Moves(h) /\ Carries(h) /\ job'[h].pc = "place" /\ job[h].pc = "route"
         /\ running = h /\ UNCHANGED <<outside, events, decided, trades, env>>
         /\ \E v \in Verdicts(job[h]) : v.go /\ job'[h].id \in v.ids
         /\ job'[h].id \in Id /\ Later /\ Recorded' = Recorded \cup {job'[h].id}
         /\ signals' = [signals EXCEPT ![job'[h].id] = Row(job[h])]
         /\ signals'[job'[h].id] = Row(job[h])
         /\ \A k \in Id \ {job'[h].id} : signals'[k] = signals[k]
         /\ \A k \in Recorded' : RowHonest(k)'
         /\ Orders' = Orders \cup {Order(job'[h])}
<1>1. IInv /\ job[h].pc = "route" /\ UNCHANGED <<outside, events, decided, trades, env>>
  BY DEF BInv, Admit, Turn
<1>2. PICK v \in Verdicts(job[h]), i \in Id :
        /\ v.go /\ i \in v.ids
        /\ signals' = [signals EXCEPT ![i] = Row(job[h])]
        /\ job' = [job EXCEPT ![h].pc = "place", ![h].id = i]
  BY VerdictIds DEF Admit
<1>3. Moves(h) /\ Carries(h) /\ job'[h].pc = "place" /\ job'[h].id = i
  BY <1>1, <1>2, AdmitMoves
<1>4. running = h
  BY <1>1 DEF BInv, Placed
<1>5. /\ Later /\ Recorded' = Recorded \cup {i} /\ signals'[i] = Row(job[h])
      /\ \A k \in Id \ {i} : signals'[k] = signals[k] /\ \A l \in Recorded' : RowHonest(l)'
  BY <1>1, <1>2, RouteWrites
<1>6. Orders' = Orders \cup {Order(job'[h])}
  <2>1. Underway' = Underway \cup {h} /\ \A g \in Handler \ {h} : job'[g] = job[g]
    BY <1>3 DEF Underway, Moves
  <2>2. h \notin Underway
    BY <1>1 DEF Underway
  <2>3. ASSUME NEW a \in Orders' PROVE a \in Orders \cup {Order(job'[h])}
    <3>1. CASE a \in trades'
      BY <1>1, <3>1 DEF Orders
    <3>2. CASE a \notin trades'
      <4>1. PICK g \in Underway' : a = Order(job'[g])
        BY <3>2 DEF Orders
      <4>2. CASE g = h
        BY <4>1, <4>2
      <4>3. CASE g # h
        BY <2>1, <4>1, <4>3 DEF Orders, Underway
      <4> QED BY <4>2, <4>3
    <3> QED BY <3>1, <3>2
  <2>4. ASSUME NEW a \in Orders PROVE a \in Orders'
    <3>1. CASE a \in trades
      BY <1>1, <3>1 DEF Orders
    <3>2. CASE a \notin trades
      <4>1. PICK g \in Underway : a = Order(job[g])
        BY <3>2 DEF Orders
      <4>2. g \in Underway' /\ job'[g] = job[g]
        BY <2>1, <2>2, <4>1 DEF Underway
      <4> QED BY <4>1, <4>2 DEF Orders
    <3> QED BY <3>1, <3>2
  <2>5. Order(job'[h]) \in Orders'
    BY <2>1 DEF Orders
  <2> QED BY <2>3, <2>4, <2>5
<1>7. \A l \in Recorded' : RowHonest(l)'
  BY <1>1, <1>2, RouteWrites
<1> QED BY <1>1, <1>2, <1>3, <1>4, <1>5, <1>6, <1>7

LEMMA AdmitBInv == ASSUME BInv, IInv', NEW h \in Handler, Admit(h) PROVE BInv'
<1>1. /\ Moves(h) /\ Carries(h) /\ job'[h].pc = "place" /\ job[h].pc = "route"
      /\ running = h /\ UNCHANGED <<outside, events>> /\ Later
      /\ signals'[job'[h].id] = Row(job[h])
      /\ Recorded' = Recorded \cup {job'[h].id}
      /\ \A k \in Recorded' : RowHonest(k)'
      /\ Orders' = Orders \cup {Order(job'[h])}
  BY AdmitIs
<1>2. Grows /\ IInv
  BY <1>1, SameGrows DEF BInv
<1>3. Placed(h)'
  BY <1>1, CarriedPlaced DEF Busy
<1>4. ASSUME NEW a \in Orders' PROVE OrderKept(a)'
  <2>1. CASE a = Order(job'[h])
    <3>1. Said(job[h]) /\ job[h].at \in Nat
      BY <1>1, <1>2, JobIs DEF BInv, Placed, Busy, JobType
    <3>2. a.chan = job[h].chan /\ a.msg = job[h].msg /\ a.text = job[h].text
          /\ a.at = job[h].at /\ a.id = job'[h].id
      BY <1>1, <2>1 DEF Order, Carries
    <3> QED BY <1>1, <3>1, <3>2 DEF OrderKept, Row, Said, Shown, outside
  <2>2. CASE a \in Orders
    BY <1>1, <1>2, <2>2, OrderStays
  <2> QED BY <1>1, <2>1, <2>2
<1> QED BY <1>1, <1>2, <1>3, <1>4, EventsShown, TurnKeeps DEF Admit

(* The other steps inside handle_signal, and what is saved after it.         *)
LEMMA InsideBInv ==
  ASSUME BInv, IInv', NEW h \in Handler,
         Replay(h) \/ Place(h) \/ Decline(h) \/ Yield(h) \/ Answer(h)
  PROVE  BInv'
<1>1. IInv /\ UNCHANGED <<outside, signals, events>> /\ running \in {h, Nobody}
  BY DEF BInv, Replay, Place, Decline, Yield, Answer, Turn, stored
<1>2. /\ Moves(h) /\ Carries(h) /\ job[h].pc \in Busy /\ job'[h].id = job[h].id
      /\ job'[h].pc \in Busy \ {"route", "place"}
      /\ job'[h].pc = "answer" => job[h].pc = "place"
  BY <1>1, PcMoves DEF Replay, Place, Decline, Yield, Answer, Turn, Pc, Busy
<1>3. trades' \subseteq Orders
  BY DEF Replay, Place, Decline, Yield, Answer, stored, Orders, Underway, Turn, Order
<1>4. Orders' \subseteq Orders
  BY <1>2, <1>3, CarriedOrder, NoMoreOrders DEF Busy
<1>5. Placed(h)'
  BY <1>1, <1>2, CarriedPlaced
<1> QED BY <1>1, <1>2, <1>4, <1>5, UnwrittenKeeps DEF outside

LEMMA RecordBInv == ASSUME BInv, IInv', NEW h \in Handler, Record(h) PROVE BInv'
<1>1. /\ IInv /\ UNCHANGED <<outside, signals, trades>> /\ running \in {h, Nobody}
      /\ job[h].pc = "record" /\ job[h].chan = "phone"
  BY DEF BInv, Record, Turn
<1>2. Moves(h) /\ Carries(h) /\ job'[h].pc = "take"
  BY <1>1, PcMoves DEF Record, Pc
<1>3. Said(job[h])
  BY <1>1 DEF BInv, Placed, Busy
<1>4. Placed(h)'
  BY <1>1, <1>2, <1>3 DEF BInv, Placed, Carries, Said, Busy
<1>5. Orders' \subseteq Orders
  BY <1>1, <1>2, NoMoreOrders DEF Orders
<1>6. \A e \in events' : e \in events \/ Shown(e.text)
  BY <1>1, <1>3 DEF Record, Said
<1> QED BY <1>1, <1>2, <1>4, <1>5, <1>6, UnwrittenKeeps DEF outside

LEMMA CrashBInv == ASSUME BInv, IInv', Crash PROVE BInv'
<1>1. IInv /\ Grows /\ UNCHANGED <<signals, events, trades>>
  BY SameGrows DEF BInv, Crash, stored
<1>2. \A h \in Handler : job'[h] = Resting
  BY DEF Crash
<1>3. \A h \in Handler : Placed(h)'
  BY <1>2, RestingPlaced
<1>4. Orders' \subseteq Orders
  BY <1>1, <1>2 DEF Orders, Underway, Resting
<1>5. \A a \in Orders' : OrderKept(a)'
  BY <1>1, <1>4, OrderStays, SameLater
<1> QED BY <1>1, <1>3, <1>5, RowsKept, EventsShown, ShownBefore DEF BInv

LEMMA InitBInv == Init => BInv
<1> SUFFICES ASSUME Init PROVE BInv
  OBVIOUS
<1>1. IInv
  BY InitIInv
<1>2. Recorded = {} /\ Orders = {} /\ events = {}
  BY DEF Init, Recorded, Orders, Underway, Resting
<1>3. queue = <<>> /\ \A h \in Handler : job[h] = Resting
  BY DEF Init
<1> QED BY <1>1, <1>2, <1>3 DEF BInv, Placed, Resting, Busy

LEMMA NextBInv == BInv /\ [Next]_vars => BInv'
<1> SUFFICES ASSUME BInv, [Next]_vars PROVE BInv'
  OBVIOUS
<1>0. IInv'
  BY NextIInv DEF BInv
<1>1. ASSUME NEW x \in Text, Capture(x) \/ Post(x) PROVE BInv'
  BY <1>0, <1>1, CaptureBInv, PostBInv
<1>2. ASSUME NEW h \in Handler, Upload(h) \/ LoseReply(h) \/ Fail(h) PROVE BInv'
  BY <1>0, <1>2, UploadBInv, LoseReplyBInv, RestBInv
<1>3. ASSUME NEW h \in Handler, Work(h) PROVE BInv'
  BY <1>0, <1>3, RestBInv, HoldBInv, AdmitBInv, InsideBInv, RecordBInv, RetryBInv,
     SetAsideBInv, ExamineBInv DEF Work
<1>4. ASSUME NEW h \in Handler, NEW c \in Collector, NEW m \in DOMAIN posts, Deliver(h, c, m)
      PROVE BInv'
  BY <1>0, <1>4, DeliverBInv
<1>5. CASE UNCHANGED vars
  BY <1>0, <1>5, SameGrows, SameOrders, AsideKeeps DEF vars, outside, stored, BInv
<1> QED BY <1>0, <1>1, <1>2, <1>3, <1>4, <1>5, TickBInv, CrashBInv DEF Next

-----------------------------------------------------------------------------
(* The verdicts, by case.                                                    *)
Agrees(j, k) == Price[signals[k].text] = Price[j.text]
Follows(j, v, k) ==
  \/ v.go /\ Agrees(j, k) /\ Price[j.text] # 0 /\ v.ids = {k}
  \/ /\ v.go /\ ~Agrees(j, k) /\ env.may.policy = "REQUIRE_PRIMARY_SOURCE"
     /\ \/ j.chan = env.may.primary /\ v.ids = NewId
        \/ signals[k].chan = env.may.primary /\ v.ids = {k}
  \/ ~v.go /\ v.ids = NewId /\ (Price[j.text] = 0 \/ ~Agrees(j, k))

LEMMA ResolutionFollows ==
  ASSUME NEW j, NEW k \in Comparable(j) PROVE Follows(j, Resolution(j, k), k)
<1> DEFINE agree == Price[signals[k].text] = Price[j.text]
           primary == /\ Price[j.text] # 0 /\ ~agree
                      /\ env.may.policy = "REQUIRE_PRIMARY_SOURCE"
<1>0. signals[k].chan # j.chan
  BY DEF Comparable
<1>1. CASE Price[j.text] # 0 /\ agree
  BY <1>1 DEF Resolution, Follows, Agrees
<1>2. CASE primary /\ j.chan = env.may.primary
  BY <1>0, <1>2 DEF Resolution, Follows, Agrees
<1>3. CASE primary /\ signals[k].chan = env.may.primary
  BY <1>0, <1>3 DEF Resolution, Follows, Agrees
<1>4. CASE /\ ~(Price[j.text] # 0 /\ agree) /\ ~(primary /\ j.chan = env.may.primary)
           /\ ~(primary /\ signals[k].chan = env.may.primary)
  BY <1>4 DEF Resolution, Follows, Agrees
<1> QED BY <1>1, <1>2, <1>3, <1>4

LEMMA VerdictKnown ==
  ASSUME NEW j, NEW v \in Verdicts(j), Known(j) # {}
  PROVE  v.go /\ v.ids = Earliest(Known(j))
  BY DEF Verdicts

LEMMA VerdictNew ==
  ASSUME NEW j, NEW v \in Verdicts(j), Known(j) = {}
  PROVE  \/ /\ Comparable(j) = {} /\ v.ids = NewId
            /\ v.go <=> env.may.policy # "REQUIRE_MATCHING_SOURCES"
         \/ \E k \in Earliest(Comparable(j)) : Follows(j, v, k)
<1>1. CASE Comparable(j) = {}
  <2>1. v = [go |-> env.may.policy # "REQUIRE_MATCHING_SOURCES", ids |-> NewId]
    BY <1>1 DEF Verdicts
  <2> QED BY <1>1, <2>1
<1>2. CASE Comparable(j) # {}
  <2>1. PICK k \in Earliest(Comparable(j)) : v = Resolution(j, k)
    BY <1>2 DEF Verdicts
  <2> QED BY <2>1, ResolutionFollows DEF Earliest
<1> QED BY <1>1, <1>2

LEMMA HeldIsNew ==
  ASSUME NEW j, NEW v \in Verdicts(j), ~v.go
  PROVE  Known(j) = {} /\ v.ids = NewId
<1>1. Known(j) = {}
  BY VerdictKnown
<1> QED BY <1>1, VerdictNew DEF Follows

LEMMA NewIdIs == ASSUME NEW i \in NewId PROVE i \in Id /\ i \notin Recorded
  BY DEF NewId, Least

(* What an admission makes of an id.                                         *)
LEMMA AdmitsOne ==
  ASSUME NEW j, NEW v \in Verdicts(j), v.go, NEW i \in v.ids
  PROVE  \/ i \in Earliest(Known(j))
         \/ /\ Known(j) = {} /\ i \in NewId
            /\ env.may.policy # "REQUIRE_MATCHING_SOURCES"
            /\ \/ Comparable(j) = {}
               \/ /\ env.may.policy = "REQUIRE_PRIMARY_SOURCE"
                  /\ \E k \in Earliest(Comparable(j)) : ~Agrees(j, k)
         \/ /\ Known(j) = {} /\ i \in Earliest(Comparable(j))
            /\ \/ Agrees(j, i) /\ Price[j.text] # 0
               \/ /\ ~Agrees(j, i) /\ env.may.policy = "REQUIRE_PRIMARY_SOURCE"
                  /\ signals[i].chan = env.may.primary
<1>1. CASE Known(j) # {}
  BY <1>1, VerdictKnown
<1>2. CASE Known(j) = {}
  BY <1>2, VerdictNew DEF Follows
<1> QED BY <1>1, <1>2

-----------------------------------------------------------------------------
(* The steps by what they do to rows, orders and what is being routed.       *)
Flow ==
  /\ Grows /\ env'.may = env.may /\ events \subseteq events'
  /\ env.did.deliveries \in Nat /\ env'.did.deliveries \in Nat
  /\ env.did.deliveries <= env'.did.deliveries
Steady ==
  /\ signals' = signals /\ Orders' \subseteq Orders
  /\ \A g \in Handler : job'[g].pc = "route" =>
       job[g].pc = "route" /\ Row(job'[g]) = Row(job[g]) /\ events' = events

LEMMA SteadyAside ==
  ASSUME UNCHANGED <<signals, events, trades, job>> PROVE Steady
  BY SameOrders DEF Steady

LEMMA SteadyMove ==
  ASSUME BInv, NEW h \in Handler, Moves(h), job'[h].pc # "route", signals' = signals,
         Orders' \subseteq Orders, events' = events \/ running \in {h, Nobody}
  PROVE  Steady
<1> SUFFICES ASSUME NEW g \in Handler, job'[g].pc = "route"
             PROVE  job[g].pc = "route" /\ Row(job'[g]) = Row(job[g]) /\ events' = events
  BY DEF Steady
<1>1. g # h /\ job'[g] = job[g]
  BY DEF Moves
<1> QED BY <1>1, OthersWait

LEMMA RestSteady ==
  ASSUME BInv, NEW h \in Handler, Reply(h) \/ Advance(h) \/ Fail(h) PROVE Steady
<1>1. Moves(h) /\ job'[h] = Resting
  BY RestMoves DEF Reply, Advance, Fail, BInv
<1>2. Orders' \subseteq Orders
  BY <1>1, NoMoreOrders DEF Reply, Advance, Fail, stored, Orders, Resting
<1> QED BY <1>1, <1>2, SteadyMove DEF Reply, Advance, Fail, stored, Resting

LEMMA InsideSteady ==
  ASSUME BInv, NEW h \in Handler,
         Replay(h) \/ Place(h) \/ Decline(h) \/ Yield(h) \/ Answer(h) \/ Record(h)
  PROVE  Steady
<1>1. IInv /\ signals' = signals /\ running \in {h, Nobody}
  BY DEF BInv, Replay, Place, Decline, Yield, Answer, Record, Turn, stored
<1>2. /\ Moves(h) /\ Carries(h) /\ job[h].pc \in Busy /\ job'[h].id = job[h].id
      /\ job'[h].pc \notin {"route", "place"}
      /\ job'[h].pc = "answer" => job[h].pc = "place"
  BY <1>1, PcMoves DEF Replay, Place, Decline, Yield, Answer, Record, Turn, Pc, Busy
<1>3. trades' \subseteq Orders
  BY DEF Replay, Place, Decline, Yield, Answer, Record, stored, Orders, Underway, Turn, Order
<1>4. Orders' \subseteq Orders
  BY <1>2, <1>3, CarriedOrder, NoMoreOrders
<1> QED BY <1>1, <1>2, <1>4, SteadyMove

LEMMA UploadSteady ==
  ASSUME BInv, NEW h \in Handler, Upload(h) \/ LoseReply(h) PROVE Steady
<1>1. IInv /\ UNCHANGED <<signals, events, trades>>
  BY DEF BInv, Upload, LoseReply, stored
<1>2. CASE Upload(h)
  <2>1. job'[h].pc = "take" /\ \A g \in Handler \ {h} : job'[g] = job[g]
    BY <1>1, <1>2 DEF IInv, TypeOK, Upload, Resting
  <2>2. Orders' \subseteq Orders
    BY <1>1, <2>1 DEF Orders, Underway
  <2> QED BY <1>1, <2>1, <2>2 DEF Steady
<1>3. CASE LoseReply(h)
  <2>1. \A g \in Handler : /\ job'[g].pc = job[g].pc /\ Row(job'[g]) = Row(job[g])
                           /\ Order(job'[g]) = Order(job[g])
    BY <1>1, <1>3 DEF IInv, TypeOK, LoseReply, JobType, Row, Order
  <2>2. Underway' = Underway
    BY <2>1 DEF Underway
  <2>3. Orders' = Orders
    BY <1>1, <2>1, <2>2 DEF Orders, Underway
  <2> QED BY <1>1, <2>1, <2>3 DEF Steady
<1> QED BY <1>2, <1>3

LEMMA RetrySteady == ASSUME BInv, NEW h \in Handler, NEW n, Retry(h, n) PROVE Steady
<1>1. Moves(h) /\ job'[h].pc = "take"
  BY RetryMoves DEF BInv
<1>2. Orders' \subseteq Orders
  BY <1>1, NoMoreOrders DEF Retry, Orders
<1> QED BY <1>1, <1>2, SteadyMove DEF Retry, stored

LEMMA CrashSteady == ASSUME BInv, Crash PROVE Steady
<1>1. \A h \in Handler : job'[h] = Resting
  BY DEF Crash
<1>2. Orders' \subseteq Orders
  BY <1>1 DEF Orders, Underway, Resting, Crash
<1> QED BY <1>1, <1>2 DEF Steady, Crash, stored, Resting

Examines(h) == \E n \in job[h].left : Examine(h, n)
SetsAside(h) == \E n \in job[h].left : SetAside(h, n)
Delivers(h) == \E c \in Collector : \E m \in DOMAIN posts : Deliver(h, c, m)

LEMMA StepSorts ==
  ASSUME BInv, [Next]_vars
  PROVE  Steady \/ \E h \in Handler :
           Examines(h) \/ SetsAside(h) \/ Delivers(h) \/ Hold(h) \/ Admit(h)
<1>1. ASSUME NEW x \in Text, Capture(x) \/ Post(x) PROVE Steady
  BY <1>1, SteadyAside DEF Capture, Post, stored
<1>2. CASE Tick \/ UNCHANGED vars
  BY <1>2, SteadyAside DEF Tick, vars, outside, stored
<1>3. ASSUME NEW h \in Handler, Upload(h) \/ LoseReply(h) \/ Fail(h) PROVE Steady
  BY <1>3, UploadSteady, RestSteady
<1>4. ASSUME NEW h \in Handler, Work(h)
      PROVE  Steady \/ Examines(h) \/ SetsAside(h) \/ Hold(h) \/ Admit(h)
  BY <1>4, RestSteady, InsideSteady, RetrySteady DEF Work, Examines, SetsAside
<1> QED BY <1>1, <1>2, <1>3, <1>4, CrashSteady DEF Next, Delivers

LEMMA StepFlows == ASSUME BInv, BInv', [Next]_vars PROVE Flow
<1>1. IInv /\ env.did \in Count /\ env.did.deliveries \in Nat
  BY DEF BInv, IInv, TypeOK, Count
<1>2. env'.may = env.may /\ env'.did.deliveries \in Nat
      /\ env.did.deliveries <= env'.did.deliveries
  <2>1. CASE env' = env
    BY <1>1, <2>1
  <2>2. ASSUME NEW w \in {"deliveries", "faults", "crashes"}, Spend(w)
        PROVE  env'.may = env.may /\ env'.did.deliveries \in {env.did.deliveries, env.did.deliveries + 1}
    <3>1. env' = [env EXCEPT !.did = [env.did EXCEPT ![w] = env.did[w] + 1]]
      BY <1>1, <2>2 DEF Spend, IInv, TypeOK
    <3> QED BY <1>1, <3>1 DEF Count, IInv, TypeOK
  <2>3. env' = env \/ \E w \in {"deliveries", "faults", "crashes"} : Spend(w)
    BY DEF Next, Work, Capture, Post, Tick, Upload, LoseReply, Fail, Reply, Hold, Replay, Admit,
       Place, Decline, Yield, Answer, Record, Advance, Retry, SetAside, Examine, Deliver,
       Crash, vars
  <2> QED BY <1>1, <2>1, <2>2, <2>3
<1>3. events \subseteq events'
  BY DEF Next, Work, Capture, Post, Tick, Upload, LoseReply, Fail, Reply, Hold, Replay, Admit,
     Place, Decline, Yield, Answer, Record, Advance, Retry, SetAside, Examine, Deliver,
     Crash, vars,
     stored
<1>4. Grows
  <2>1. ASSUME NEW x \in Text, Capture(x) PROVE Grows
    BY <2>1, CaptureGrows DEF BInv
  <2>2. ASSUME NEW x \in Text, Post(x) PROVE Grows
    BY <2>2, PostGrows DEF BInv
  <2>3. CASE Tick
    BY <1>1, <2>3 DEF Tick, Grows, IInv, TypeOK
  <2>4. ASSUME NEW h \in Handler, Reply(h) PROVE Grows
    BY <1>1, <2>4, ReplyGrows
  <2>5. CASE UNCHANGED outside
    BY <1>1, <2>5, SameGrows
  <2> QED
    BY <2>1, <2>2, <2>3, <2>4, <2>5 DEF Next, Work, Upload, LoseReply, Fail, Hold, Replay, Admit,
       Place, Decline, Yield, Answer, Record, Advance, Retry, SetAside, Examine, Deliver,
       Crash, vars
<1> QED BY <1>1, <1>2, <1>3, <1>4 DEF Flow

(* What the five other steps do.                                             *)
Solo(h) ==
  /\ \A g \in Handler \ {h} : job'[g] = job[g] /\ job[g].pc # "route"
  /\ running' = h /\ UNCHANGED <<outside, trades>>

LEMMA SoloIs ==
  ASSUME BInv, NEW h \in Handler, Moves(h), running \in {h, Nobody}, running' = h,
         UNCHANGED <<outside, trades>>
  PROVE  Solo(h)
  BY OthersWait DEF Solo, Moves

LEMMA HoldIs ==
  ASSUME BInv, NEW h \in Handler, Hold(h)
  PROVE  /\ Solo(h) /\ Carries(h) /\ job[h].pc = "route" /\ job'[h].pc = "record"
         /\ running = h /\ UNCHANGED <<events, env>> /\ Known(job[h]) = {}
         /\ \E v \in Verdicts(job[h]) : ~v.go
         /\ \E i \in NewId :
              /\ Recorded' = Recorded \cup {i} /\ signals'[i] = Row(job[h])
              /\ \A k \in Id \ {i} : signals'[k] = signals[k]
         /\ Orders' \subseteq Orders
<1>1. IInv /\ job[h].pc = "route" /\ UNCHANGED <<outside, events, trades, env>> /\ running' = h
  BY DEF BInv, Hold, Turn
<1>2. Moves(h) /\ Carries(h) /\ job'[h].pc = "record"
  BY <1>1, PcMoves DEF Hold, Pc
<1>3. running = h
  BY <1>1 DEF BInv, Placed
<1>4. PICK v \in Verdicts(job[h]), i \in Id :
        ~v.go /\ i \in v.ids /\ signals' = [signals EXCEPT ![i] = Row(job[h])]
  BY VerdictIds DEF Hold
<1>5. Known(job[h]) = {} /\ i \in NewId
  BY <1>4, HeldIsNew
<1>6. /\ Recorded' = Recorded \cup {i} /\ signals'[i] = Row(job[h])
      /\ \A k \in Id \ {i} : signals'[k] = signals[k]
  BY <1>1, <1>4, RouteWrites
<1>7. Orders' \subseteq Orders
  BY <1>1, <1>2, NoMoreOrders DEF Orders
<1> QED BY <1>1, <1>2, <1>3, <1>4, <1>5, <1>6, <1>7, SoloIs

LEMMA SetAsideIs ==
  ASSUME BInv, NEW h \in Handler, NEW n, SetAside(h, n)
  PROVE  /\ Solo(h) /\ TurnsTo(h, n) /\ AtHand(h, n) /\ job'[h].pc = "record"
         /\ job'[h].chan = "phone" /\ job'[h].msg = 0
         /\ UNCHANGED <<events, env>> /\ ~Repeated(queue[n].text) /\ ~Routable(n)
         /\ \/ signals' = signals
            \/ \E i \in NewId :
                 /\ Recorded' = Recorded \cup {i} /\ signals'[i] = Row(job'[h])
                 /\ \A k \in Id \ {i} : signals'[k] = signals[k]
         /\ Orders' \subseteq Orders
<1>1. IInv /\ UNCHANGED <<outside, events, trades, env>> /\ running' = h
      /\ running \in {h, Nobody} /\ ~Repeated(queue[n].text) /\ ~Routable(n)
  BY DEF BInv, SetAside, Takes, Turn
<1>2. /\ Moves(h) /\ TurnsTo(h, n) /\ AtHand(h, n) /\ job'[h].pc = "record"
      /\ SetAsideWrites(h)
  BY <1>1, SetAsideMoves
<1>3. job'[h].chan = "phone" /\ job'[h].msg = 0
  BY <1>1, <1>2, AtHandSaid
<1>4. Orders' \subseteq Orders
  BY <1>1, <1>2, NoMoreOrders DEF Orders
<1>5. ASSUME NEW i \in NewId, signals' = [signals EXCEPT ![i] = Row(job'[h])]
      PROVE  /\ Recorded' = Recorded \cup {i} /\ signals'[i] = Row(job'[h])
             /\ \A k \in Id \ {i} : signals'[k] = signals[k]
  <2>1. i \in Id /\ signals'[i] = Row(job'[h]) /\ \A k \in Id \ {i} : signals'[k] = signals[k]
    BY <1>1, <1>5, NewIdIs DEF IInv, TypeOK
  <2>2. Row(job'[h]) # NoRow
    <3>1. job'[h] \in JobType /\ job'[h].text \in Text
      BY <1>1, <1>2, TakesIs DEF Moves, SetAside, AtHand
    <3>2. Row(job'[h]) \in RowType
      BY <3>1 DEF Row, RowType, JobType
    <3> QED BY <3>2, IdAssumption
  <2> QED BY <2>1, <2>2 DEF Recorded
<1>6. \/ signals' = signals
      \/ \E i \in NewId : signals' = [signals EXCEPT ![i] = Row(job'[h])]
  BY <1>2 DEF SetAsideWrites
<1> QED BY <1>1, <1>2, <1>3, <1>4, <1>5, <1>6, SoloIs

LEMMA ExamineIs ==
  ASSUME BInv, NEW h \in Handler, NEW n, Examine(h, n)
  PROVE  /\ Solo(h) /\ TurnsTo(h, n) /\ AtHand(h, n) /\ job'[h].pc = "route"
         /\ job'[h].chan = "phone" /\ job'[h].msg = 0
         /\ UNCHANGED <<stored, env>> /\ ~Repeated(queue[n].text) /\ Routable(n)
         /\ Orders' \subseteq Orders
<1>1. IInv /\ UNCHANGED <<outside, stored, trades, env>> /\ running' = h
      /\ running \in {h, Nobody} /\ ~Repeated(queue[n].text) /\ Routable(n)
  BY DEF BInv, Examine, Takes, Turn
<1>2. Moves(h) /\ TurnsTo(h, n) /\ AtHand(h, n) /\ job'[h].pc = "route"
  BY <1>1, ExamineMoves
<1>3. job'[h].chan = "phone" /\ job'[h].msg = 0
  BY <1>1, <1>2, AtHandSaid
<1>4. Orders' \subseteq Orders
  BY <1>1, <1>2, NoMoreOrders DEF Orders
<1> QED BY <1>1, <1>2, <1>3, <1>4, SoloIs

LEMMA DeliverIs ==
  ASSUME BInv, NEW h \in Handler, NEW c \in Collector, NEW m \in DOMAIN posts,
         Deliver(h, c, m)
  PROVE  /\ Solo(h) /\ job'[h].pc = "route" /\ job'[h].chan = "direct" /\ job'[h].msg = m
         /\ job'[h].text = posts[m] /\ job'[h].rev = NoText /\ job'[h].at = clock
         /\ job'[h].heard = FALSE /\ UNCHANGED stored
         /\ env.may.again \/ m = env.did.deliveries + 1
         /\ env'.did.deliveries = env.did.deliveries + 1
         /\ Orders' \subseteq Orders
<1>1. IInv /\ UNCHANGED <<outside, stored, trades>> /\ running' = h
      /\ running \in {h, Nobody} /\ (env.may.again \/ m = env.did.deliveries + 1)
  BY DEF BInv, Deliver, Turn
<1>2. /\ Moves(h) /\ job'[h].pc = "route" /\ job'[h].chan = "direct" /\ job'[h].msg = m
      /\ job'[h].text = posts[m] /\ job'[h].rev = NoText /\ job'[h].at = clock
      /\ job'[h].heard = FALSE
  BY <1>1, DeliverMoves
<1>3. Orders' \subseteq Orders
  BY <1>1, <1>2, NoMoreOrders DEF Orders
<1>4. env'.did.deliveries = env.did.deliveries + 1
  BY <1>1 DEF Deliver, Spend, IInv, TypeOK, Count
<1> QED BY <1>1, <1>2, <1>3, <1>4, SoloIs

(* Admission, as the others.                                                 *)
LEMMA AdmitSteps ==
  ASSUME BInv, NEW h \in Handler, Admit(h)
  PROVE  /\ \A g \in Handler \ {h} : job'[g] = job[g] /\ job[g].pc # "route"
         /\ UNCHANGED <<outside, events, trades, env>> /\ Carries(h)
         /\ job[h].pc = "route" /\ job'[h].pc = "place"
         /\ \E v \in Verdicts(job[h]) : v.go /\ job'[h].id \in v.ids
         /\ job'[h].id \in Id /\ Recorded' = Recorded \cup {job'[h].id}
         /\ signals'[job'[h].id] = Row(job[h])
         /\ \A k \in Id \ {job'[h].id} : signals'[k] = signals[k]
         /\ Order(job'[h]) \in Orders' /\ \A a \in Orders' : a \in Orders \/ a = Order(job'[h])
         /\ \A a \in Orders : a \in Orders'
  BY AdmitIs, OthersWait DEF Moves

LEMMA OrderFields ==
  ASSUME NEW h \in Handler, Carries(h)
  PROVE  /\ Order(job'[h]).id = job'[h].id /\ Order(job'[h]).chan = job[h].chan
         /\ Order(job'[h]).msg = job[h].msg /\ Order(job'[h]).text = job[h].text
         /\ Order(job'[h]).at = job[h].at
  BY DEF Order, Carries

LEMMA RowFields ==
  ASSUME NEW j
  PROVE  /\ Row(j).chan = j.chan /\ Row(j).msg = j.msg /\ Row(j).rev = j.rev
         /\ Row(j).text = j.text /\ Row(j).at = j.at
  BY DEF Row

-----------------------------------------------------------------------------
(* Each message once.                                                        *)
LEMMA DirectMessage ==
  ASSUME BInv
  PROVE  /\ \A i \in Recorded : signals[i].chan = "direct" => signals[i].msg \in Nat
         /\ \A a \in Orders : a.chan = "direct" => a.msg \in Nat
         /\ \A h \in Handler : job[h].pc = "route" /\ job[h].chan = "direct" => job[h].msg \in Nat
  BY DEF BInv, RowHonest, OrderKept, Placed, Busy, Said, IInv, TypeOK

LEMMA EachOnceStep ==
  ASSUME BInv, BInv', EachOnce, ~env.may.again, Flow, [Next]_vars PROVE EachOnce'
<1>0. env.did.deliveries \in Nat /\ env'.did.deliveries \in Nat
      /\ env.did.deliveries <= env'.did.deliveries
  BY DEF Flow
<1>1. CASE Steady
  <2>1. \A i \in Recorded' : i \in Recorded /\ signals'[i] = signals[i]
    BY <1>1 DEF Steady, Recorded
  <2>2. \A i \in Recorded' : Taken(signals[i])'
    BY <1>0, <2>1, DirectMessage DEF EachOnce, Taken
  <2>3. \A a \in Orders' : Taken(a)'
    BY <1>0, <1>1, DirectMessage DEF EachOnce, Taken, Steady
  <2>4. ASSUME NEW g \in Handler, job'[g].pc = "route"
        PROVE  /\ Taken(job[g])' /\ \A i \in Recorded' : NewTo(signals[i], job[g])'
               /\ \A a \in Orders' : NewTo(a, job[g])'
    <3>1. job[g].pc = "route" /\ job'[g].chan = job[g].chan /\ job'[g].msg = job[g].msg
      BY <1>1, <2>4, RowFields DEF Steady
    <3> QED BY <1>0, <1>1, <2>1, <3>1, DirectMessage DEF EachOnce, Taken, NewTo, Steady
  <2> QED BY <2>2, <2>3, <2>4 DEF EachOnce
<1>2. ASSUME NEW h \in Handler, Examines(h) PROVE EachOnce'
  <2>1. PICK n \in job[h].left : Examine(h, n)
    BY <1>2 DEF Examines
  <2>2. /\ Solo(h) /\ job'[h].chan = "phone" /\ UNCHANGED <<signals, env>> /\ Orders' \subseteq Orders
    BY <2>1, ExamineIs DEF stored
  <2> QED BY <2>2 DEF EachOnce, Taken, NewTo, Solo, Recorded
<1>3. ASSUME NEW h \in Handler, SetsAside(h) PROVE EachOnce'
  <2>1. PICK n \in job[h].left : SetAside(h, n)
    BY <1>3 DEF SetsAside
  <2>2. /\ Solo(h) /\ job'[h].chan = "phone" /\ job'[h].pc = "record" /\ env' = env
        /\ Orders' \subseteq Orders
        /\ \/ signals' = signals
           \/ \E i \in NewId :
                /\ Recorded' = Recorded \cup {i} /\ signals'[i] = Row(job'[h])
                /\ \A k \in Id \ {i} : signals'[k] = signals[k]
    BY <2>1, SetAsideIs
  <2>3. \A i \in Recorded' : (i \in Recorded /\ signals'[i] = signals[i]) \/ signals'[i].chan = "phone"
    BY <2>2, RowFields DEF Recorded
  <2>4. \A g \in Handler : job'[g].pc # "route"
    BY <2>2 DEF Solo
  <2> QED BY <2>2, <2>3, <2>4 DEF EachOnce, Taken
<1>4. ASSUME NEW h \in Handler, Delivers(h) PROVE EachOnce'
  <2>1. PICK c \in Collector, m \in DOMAIN posts : Deliver(h, c, m)
    BY <1>4 DEF Delivers
  <2>2. /\ Solo(h) /\ job'[h].msg = env.did.deliveries + 1 /\ signals' = signals
        /\ env'.did.deliveries = env.did.deliveries + 1 /\ Orders' \subseteq Orders
    BY <2>1, DeliverIs DEF stored
  <2>3. \A i \in Recorded' : i \in Recorded /\ signals'[i] = signals[i]
    BY <2>2 DEF Recorded
  <2> QED BY <1>0, <2>2, <2>3, DirectMessage DEF EachOnce, Taken, NewTo, Solo
<1>5. ASSUME NEW h \in Handler, Hold(h) PROVE EachOnce'
  <2>1. /\ Solo(h) /\ job[h].pc = "route" /\ job'[h].pc = "record" /\ env' = env
        /\ Orders' \subseteq Orders
        /\ \E i \in NewId :
              /\ Recorded' = Recorded \cup {i} /\ signals'[i] = Row(job[h])
              /\ \A k \in Id \ {i} : signals'[k] = signals[k]
    BY <1>5, HoldIs
  <2>2. \A i \in Recorded' :
          \/ i \in Recorded /\ signals'[i] = signals[i]
          \/ signals'[i].chan = job[h].chan /\ signals'[i].msg = job[h].msg
    BY <2>1, RowFields DEF Recorded
  <2>3. \A g \in Handler : job'[g].pc # "route"
    BY <2>1 DEF Solo
  <2> QED BY <2>1, <2>2, <2>3 DEF EachOnce, Taken
<1>6. ASSUME NEW h \in Handler, Admit(h) PROVE EachOnce'
  <2>1. /\ \A g \in Handler \ {h} : job'[g] = job[g] /\ job[g].pc # "route"
        /\ Carries(h) /\ job[h].pc = "route" /\ job'[h].pc = "place" /\ env' = env
        /\ Recorded' = Recorded \cup {job'[h].id} /\ signals'[job'[h].id] = Row(job[h])
        /\ \A k \in Id \ {job'[h].id} : signals'[k] = signals[k]
        /\ \A a \in Orders' : a \in Orders \/ a = Order(job'[h])
    BY <1>6, AdmitSteps
  <2>2. \A i \in Recorded' :
          \/ i \in Recorded /\ signals'[i] = signals[i]
          \/ signals'[i].chan = job[h].chan /\ signals'[i].msg = job[h].msg
    BY <2>1, RowFields DEF Recorded
  <2>3. \A a \in Orders' :
          \/ a \in Orders
          \/ a.chan = job[h].chan /\ a.msg = job[h].msg
    BY <2>1, OrderFields
  <2>4. \A g \in Handler : job'[g].pc # "route"
    BY <2>1
  <2> QED BY <2>1, <2>2, <2>3, <2>4 DEF EachOnce, Taken
<1> QED BY <1>1, <1>2, <1>3, <1>4, <1>5, <1>6, StepSorts

LEMMA NothingYet == Init => Recorded = {} /\ Orders = {} /\ \A h \in Handler : job[h] = Resting
  BY DEF Init, Recorded, Orders, Underway, Resting

LEMMA InitDInv == Init => DInv
  BY InitBInv, NothingYet DEF DInv, EachOnce, Resting

LEMMA NextDInv == DInv /\ [Next]_vars => DInv'
<1> SUFFICES ASSUME DInv, [Next]_vars PROVE DInv'
  OBVIOUS
<1>1. BInv /\ BInv' /\ Flow
  BY NextBInv, StepFlows DEF DInv
<1>2. ASSUME ~env.may.again PROVE EachOnce'
  BY <1>1, <1>2, EachOnceStep DEF DInv, Repeats
<1> QED BY <1>1, <1>2 DEF DInv, Repeats, Flow

-----------------------------------------------------------------------------
(* One version after the other.                                              *)
SeenStays == \A n \in DOMAIN queue : Seen(n) => Seen(n)'

(* The uploads, the notification and the events stay as they are.            *)
LEMMA StaysInTurn ==
  ASSUME Uploads, queue' = queue, events' = events,
         \A g \in Handler : /\ job'[g].heard <=> job[g].heard
                            /\ job[g].heard => job'[g].batch = job[g].batch
                                               /\ job'[g].left = job[g].left
                            /\ Working(g)' <=> Working(g)
                            /\ Working(g) => job'[g].text = job[g].text
                                             /\ job'[g].seq = job[g].seq
                            /\ job'[g].chan = "phone" /\ job'[g].pc # "idle" =>
                                 job[g].chan = "phone" /\ job[g].pc # "idle"
  PROVE  Uploads' /\ SeenStays
<1>1. \A n : Seen(n)' <=> Seen(n)
  BY DEF Seen
<1>2. OneWorker'
  BY DEF Uploads, OneWorker
<1>3. InTurn'
  BY DEF Uploads, InTurn
<1>4. OneLatest'
  BY DEF Uploads, OneLatest
<1>5. \A c : Last(c)' <=> Last(c)
  BY <1>1 DEF Last
<1>6. \A x : SeenText(x)' <=> SeenText(x)
  BY <1>1 DEF SeenText
<1>7. ASSUME NEW g \in Handler, Working(g)' PROVE SeenText(job[g].text)'
  <2>1. Working(g) /\ job'[g].text = job[g].text /\ SeenText(job[g].text)
    BY <1>7 DEF Uploads, UpToDate
  <2> QED BY <1>1, <2>1 DEF SeenText
<1>8. UpToDate'
  BY <1>5, <1>7 DEF Uploads, UpToDate, Latest
<1> QED BY <1>1, <1>2, <1>3, <1>4, <1>8 DEF Uploads, SeenStays

LEMMA CarriedInTurn ==
  ASSUME BInv, Uploads, NEW h \in Handler, Moves(h), Carries(h), UNCHANGED <<queue, events>>,
         job[h].pc \in Busy, job'[h].pc \in Busy
  PROVE  Uploads' /\ SeenStays
<1>1. job[h].pc # "idle" /\ job'[h].pc # "idle"
  BY DEF Busy
<1> QED BY <1>1, StaysInTurn DEF Moves, Carries, Working

LEMMA AsideInTurn ==
  ASSUME BInv, Uploads, NEW h \in Handler, Moves(h), UNCHANGED <<queue, events>>,
         ~job[h].heard, ~job'[h].heard, ~Working(h),
         job'[h].chan = "direct" \/ job'[h].pc = "idle"
  PROVE  Uploads' /\ SeenStays
  BY StaysInTurn DEF Moves, Working, Busy

(* What is at hand is next: all before it was taken up, nothing after it.    *)
LEMMA NextInTurn ==
  ASSUME BInv, Uploads, NEW h \in Handler, job[h].pc = "take", NEW n \in job[h].left,
         \A k \in job[h].left : n <= k
  PROVE  /\ n \in DOMAIN queue /\ job[h].heard
         /\ \A g \in Handler : ~Working(g)
         /\ \A k \in DOMAIN queue : Seen(k) <=> k < n
<1>1. job[h].heard /\ job[h].chan = "phone"
  BY DEF BInv, IInv, JobTyped, Uploads, OneWorker
<1>2. /\ job[h].left \subseteq job[h].batch /\ job[h].batch \subseteq DOMAIN queue
      /\ \A l \in job[h].batch \ job[h].left : \A m \in job[h].left : l < m
      /\ \A l \in job[h].batch : ~queue[l].up
      /\ \A l \in DOMAIN queue \ job[h].batch : ~queue[l].up => \A m \in job[h].batch : m < l
  BY <1>1 DEF Uploads, InTurn
<1>3. \A g \in Handler : job[g].heard => g = h
  BY <1>1 DEF Uploads, OneWorker
<1>4. \A g \in Handler : ~Working(g)
  BY <1>3 DEF Working, Uploads, OneWorker, Busy
<1>5. DOMAIN queue \subseteq Nat
  BY DEF BInv, IInv, TypeOK
<1>6. ASSUME NEW k \in DOMAIN queue, Seen(k) PROVE k < n
  <2>1. CASE queue[k].up
    <3>1. ~(n < k) /\ n # k
      BY <1>2, <2>1 DEF Uploads, InTurn
    <3> QED BY <1>2, <1>5, <3>1
  <2>2. CASE k \in job[h].batch \ job[h].left
    BY <1>2, <2>2
  <2> QED BY <1>3, <1>6, <2>1, <2>2 DEF Seen
<1>7. ASSUME NEW k \in DOMAIN queue, k < n PROVE Seen(k)
  <2>1. k \in job[h].batch \/ queue[k].up
    <3>1. n \in job[h].batch /\ ~(n < k)
      BY <1>2, <1>5, <1>7
    <3> QED BY <1>2, <3>1
  <2>2. k \notin job[h].left
    BY <1>2, <1>5, <1>7
  <2> QED BY <1>1, <2>1, <2>2 DEF Seen
<1> QED BY <1>1, <1>2, <1>4, <1>6, <1>7

(* Taking it up.                                                             *)
LEMMA TakeInTurn ==
  ASSUME BInv, Uploads, NEW h \in Handler, NEW n, Moves(h), TurnsTo(h, n),
         queue' = queue
  PROVE  /\ OneWorker' \/ job'[h].pc = "idle"
         /\ InTurn' /\ SeenStays /\ n \in DOMAIN queue /\ Seen(n)'
         /\ \A k \in DOMAIN queue : Seen(k)' <=> k <= n
         /\ \A c \in DOMAIN queue : Last(c)' => c = n
         /\ \A g \in Handler : ~Working(g)
         /\ \A g \in Handler \ {h} : ~Working(g)'
<1>1. /\ n \in job[h].left /\ job[h].pc = "take" /\ \A k \in job[h].left : n <= k
      /\ job'[h].left = job[h].left \ {n} /\ job'[h].heard = job[h].heard
      /\ job'[h].batch = job[h].batch /\ job'[h].chan = job[h].chan
  BY DEF TurnsTo
<1>2. /\ n \in DOMAIN queue /\ job[h].heard
      /\ \A g \in Handler : ~Working(g)
      /\ \A k \in DOMAIN queue : Seen(k) <=> k < n
  BY <1>1, NextInTurn
<1>3. \A g \in Handler \ {h} : job'[g] = job[g] /\ ~job[g].heard
  BY <1>2 DEF Moves, Uploads, OneWorker
<1>4. DOMAIN queue \subseteq Nat /\ n \in Nat
  BY <1>2 DEF BInv, IInv, TypeOK
<1>5. OneWorker' \/ job'[h].pc = "idle"
  BY <1>1, <1>3 DEF Uploads, OneWorker
<1>6. n \in job[h].batch /\ job[h].left \subseteq DOMAIN queue /\ job[h].batch \subseteq DOMAIN queue
  BY <1>1, <1>2 DEF Uploads, InTurn
<1>7. \A m \in job'[h].left : n < m
  BY <1>1, <1>4, <1>6
<1>8. InTurn'
  BY <1>1, <1>3, <1>7 DEF Uploads, InTurn
<1>9. \A k \in DOMAIN queue : Seen(k)' <=> Seen(k) \/ k = n
  BY <1>1, <1>2, <1>3, <1>6 DEF Seen
<1>10. \A k \in DOMAIN queue : Seen(k)' <=> k <= n
  BY <1>2, <1>4, <1>9
<1>11. \A c \in DOMAIN queue : Last(c)' => c = n
  BY <1>2, <1>4, <1>10 DEF Last
<1>12. \A g \in Handler \ {h} : ~Working(g)'
  BY <1>2, <1>3 DEF Working
<1> QED BY <1>2, <1>4, <1>5, <1>8, <1>9, <1>10, <1>11, <1>12 DEF SeenStays

LEMMA RetryInTurn ==
  ASSUME BInv, Uploads, NEW h \in Handler, NEW n, Retry(h, n) PROVE Uploads' /\ SeenStays
<1>1. /\ Moves(h) /\ TurnsTo(h, n) /\ job'[h].pc = "take" /\ UNCHANGED <<queue, events>>
  BY RetryMoves DEF BInv, Retry, outside, stored
<1>2. /\ OneWorker' /\ InTurn' /\ SeenStays /\ n \in DOMAIN queue
      /\ \A c \in DOMAIN queue : Last(c)' => c = n
      /\ \A g \in Handler \ {h} : ~Working(g)'
  BY <1>1, TakeInTurn
<1>3. ~Working(h)'
  BY <1>1 DEF Working, Busy
<1>4. PICK e \in Latest : e.text = queue[n].text
  BY DEF Retry, Repeated
<1>5. \A f \in Latest : f = e
  <2>1. ASSUME NEW f \in Latest PROVE f.seq = e.seq /\ f \in events /\ e \in events
    <3>1. f \in events /\ e \in events /\ f.seq <= e.seq /\ e.seq <= f.seq
      BY <1>4 DEF Latest
    <3> QED BY <3>1 DEF BInv, IInv, TypeOK
  <2> QED BY <2>1 DEF Uploads, OneLatest
<1>6. OneLatest'
  BY <1>1, <1>2, <1>3 DEF Uploads, OneLatest
<1>7. events # {}
  BY <1>4 DEF Latest
<1>8. UpToDate'
  BY <1>1, <1>2, <1>3, <1>4, <1>5, <1>7 DEF UpToDate, Latest
<1> QED BY <1>2, <1>6, <1>8 DEF Uploads

LEMMA EventInTurn ==
  ASSUME BInv, Uploads, NEW h \in Handler, NEW n, Moves(h), TurnsTo(h, n), AtHand(h, n),
         job'[h].pc \in {"route", "record"}, UNCHANGED <<queue, events>>
  PROVE  Uploads' /\ SeenStays /\ Seen(n)' /\ n \in DOMAIN queue
<1>1. /\ OneWorker' /\ InTurn' /\ SeenStays /\ n \in DOMAIN queue /\ Seen(n)'
      /\ \A c \in DOMAIN queue : Last(c)' => c = n
      /\ \A g \in Handler \ {h} : ~Working(g)'
  BY TakeInTurn
<1>2. Working(h)'
  BY DEF TurnsTo, BInv, IInv, JobTyped, Working, Busy
<1>3. \A e \in events : e.seq < NextSeq
  BY NextSeqIs DEF BInv
<1>4. OneLatest'
  BY <1>1, <1>3 DEF Uploads, OneLatest, AtHand
<1>5. UpToDate'
  BY <1>1, <1>2 DEF UpToDate, AtHand, SeenText
<1> QED BY <1>1, <1>4, <1>5 DEF Uploads

LEMMA RecordInTurn ==
  ASSUME BInv, Uploads, NEW h \in Handler, Record(h) PROVE Uploads' /\ SeenStays
<1>1. /\ job[h].pc = "record" /\ job[h].chan = "phone" /\ queue' = queue
      /\ events' = events \cup {[text |-> job[h].text, seq |-> job[h].seq]}
  BY DEF Record, Turn, outside
<1>2. Moves(h) /\ Carries(h) /\ job'[h].pc = "take"
  BY <1>1, PcMoves DEF Record, Pc, BInv
<1>3. Working(h) /\ job[h].heard /\ ~Working(h)'
  BY <1>1, <1>2 DEF Working, Busy, Uploads, OneWorker
<1>4. \A g \in Handler \ {h} : job'[g] = job[g] /\ ~job[g].heard /\ ~Working(g) /\ ~Working(g)'
  <2>1. \A g \in Handler \ {h} : job'[g] = job[g] /\ ~job[g].heard
    BY <1>2, <1>3 DEF Moves, Uploads, OneWorker
  <2>2. \A g \in Handler : Working(g) => job[g].heard
    BY DEF Working, Busy, Uploads, OneWorker
  <2> QED BY <2>1, <2>2 DEF Working
<1>5. \A n \in DOMAIN queue : Seen(n)' <=> Seen(n)
  BY <1>1, <1>2, <1>4 DEF Seen, Carries
<1>6. OneWorker' /\ InTurn'
  <2>1. \A g \in Handler : /\ job'[g].heard = job[g].heard
                          /\ job'[g].batch = job[g].batch /\ job'[g].left = job[g].left
    BY <1>2, <1>4 DEF Carries
  <2>2. \A g \in Handler : job'[g].chan = "phone" /\ job'[g].pc # "idle" => job'[g].heard
    BY <1>2, <1>3, <1>4 DEF Uploads, OneWorker, Carries
  <2>3. OneWorker'
    BY <2>1, <2>2 DEF Uploads, OneWorker
  <2>4. InTurn'
    BY <1>1, <2>1 DEF Uploads, InTurn
  <2> QED BY <2>3, <2>4
<1> DEFINE new == [text |-> job[h].text, seq |-> job[h].seq]
<1>7. job[h].seq \in Nat /\ \A e \in events : e.seq < job[h].seq /\ e.seq \in Nat
  BY <1>3, JobIs DEF Uploads, OneLatest, BInv, IInv, TypeOK, JobType
<1>8. OneLatest'
  BY <1>1, <1>3, <1>4, <1>7 DEF Uploads, OneLatest
<1>9. \A e \in Latest' : e.text = job[h].text
  <2>1. ASSUME NEW e \in Latest' PROVE e = new
    <3>1. e \in events' /\ new \in events' /\ new.seq <= e.seq
      BY <1>1 DEF Latest
    <3> QED BY <1>1, <1>7, <3>1
  <2> QED BY <2>1
<1>10. ASSUME NEW c \in DOMAIN queue, Last(c)' PROVE job[h].text = queue[c].text
  <2>1. Last(c)
    BY <1>1, <1>5, <1>10 DEF Last
  <2> QED BY <2>1, <1>3, <1>4 DEF Uploads, UpToDate
<1>11. UpToDate'
  BY <1>1, <1>3, <1>4, <1>9, <1>10 DEF UpToDate
<1> QED BY <1>5, <1>6, <1>8, <1>11 DEF Uploads, SeenStays

LEMMA CaptureInTurn ==
  ASSUME BInv, Uploads, NEW x \in Text, Capture(x) PROVE Uploads' /\ SeenStays
<1>0. PICK N \in Nat : N = Len(queue) + 1
  BY DEF BInv, IInv, TypeOK
<1>1. queue \in Seq(CaptureType) /\ queue' = Append(queue, [text |-> x, at |-> clock, up |-> FALSE])
      /\ UNCHANGED <<job, events>>
  BY DEF BInv, IInv, TypeOK, Capture, stored
<1>2. DOMAIN queue' = DOMAIN queue \cup {N} /\ N \notin DOMAIN queue /\ N \in Nat
      /\ \A n \in DOMAIN queue : n \in Nat /\ n < N /\ queue'[n] = queue[n]
      /\ queue'[N].up = FALSE
  <2>1. DOMAIN queue' = 1 .. Len(queue) + 1 /\ DOMAIN queue = 1 .. Len(queue) /\ Len(queue) \in Nat
        /\ \A n \in 1 .. Len(queue) : queue'[n] = queue[n]
        /\ queue'[Len(queue) + 1].up = FALSE
    BY <1>1
  <2> QED BY <1>0, <2>1
<1>3. \A h \in Handler : job[h].heard => job[h].batch \subseteq DOMAIN queue
  BY DEF Uploads, InTurn
<1>4. (\A n \in DOMAIN queue : Seen(n)' <=> Seen(n)) /\ ~Seen(N)'
  <2>1. ASSUME NEW n \in DOMAIN queue PROVE Seen(n)' <=> Seen(n)
    <3>1. queue'[n] = queue[n] /\ job' = job
      BY <1>1, <1>2
    <3> QED BY <3>1 DEF Seen
  <2>2. ~Seen(N)'
    <3>1. ~queue'[N].up /\ job' = job /\ \A h \in Handler : job[h].heard => N \notin job[h].batch
      BY <1>1, <1>2, <1>3
    <3> QED BY <3>1 DEF Seen
  <2> QED BY <2>1, <2>2
<1>5. ASSUME NEW c \in DOMAIN queue', Last(c)' PROVE Last(c) /\ c \in DOMAIN queue
  <2>1. Seen(c)' /\ \A n \in DOMAIN queue' : Seen(n)' => n <= c
    BY <1>5 DEF Last
  <2>2. c # N /\ c \in DOMAIN queue
    BY <1>2, <1>4, <1>5, <2>1
  <2> QED BY <1>2, <1>4, <2>1, <2>2 DEF Last
<1>6. OneWorker' /\ OneLatest'
  BY <1>1 DEF Uploads, OneWorker, OneLatest, Working
<1>7. InTurn'
  BY <1>1, <1>2, <1>3 DEF Uploads, InTurn
<1>8. ASSUME NEW g \in Handler, Working(g)' PROVE SeenText(job[g].text)'
  <2>1. SeenText(job[g].text)
    BY <1>1, <1>8 DEF Uploads, UpToDate, Working
  <2> QED BY <1>1, <1>2, <1>4, <2>1 DEF SeenText
<1>9. UpToDate'
  BY <1>1, <1>2, <1>5, <1>8 DEF Uploads, UpToDate, Latest, Working
<1> QED BY <1>4, <1>6, <1>7, <1>9 DEF Uploads, SeenStays

LEMMA UploadInTurn ==
  ASSUME BInv, Uploads, ~env.may.overlap, NEW h \in Handler, Upload(h)
  PROVE  Uploads' /\ SeenStays
<1>1. UNCHANGED <<queue, events>> /\ \A g \in Handler : ~job[g].heard
  BY DEF Upload, outside, stored
<1>2. /\ \A g \in Handler \ {h} : job'[g] = job[g]
      /\ job'[h].pc = "take" /\ job'[h].batch = Pending /\ job'[h].left = Pending
      /\ job'[h].heard
  BY DEF Upload, BInv, IInv, TypeOK, Resting
<1>3. \A g \in Handler : ~Working(g) /\ ~Working(g)'
  BY <1>1, <1>2 DEF Working, Busy, Uploads, OneWorker
<1>4. \A n \in DOMAIN queue : Seen(n)' <=> Seen(n)
  BY <1>1, <1>2 DEF Seen
<1>5. OneWorker' /\ OneLatest'
  BY <1>1, <1>2, <1>3 DEF Uploads, OneWorker, OneLatest
<1>6. InTurn'
  BY <1>1, <1>2 DEF Uploads, InTurn, Pending
<1>7. UpToDate'
  BY <1>1, <1>3, <1>4 DEF Uploads, UpToDate, Last, Latest
<1> QED BY <1>4, <1>5, <1>6, <1>7 DEF Uploads, SeenStays

LEMMA ReplyInTurn ==
  ASSUME BInv, Uploads, NEW h \in Handler, Reply(h) PROVE Uploads' /\ SeenStays
<1>1. /\ job[h].pc = "take" /\ job[h].left = {} /\ events' = events
      /\ Moves(h) /\ job'[h] = Resting
  BY RestMoves DEF Reply, Turn, stored, BInv
<1>2. job[h].heard /\ job[h].chan = "phone"
  BY <1>1 DEF BInv, IInv, JobTyped, Uploads, OneWorker
<1>3. /\ DOMAIN queue' = DOMAIN queue
      /\ \A n \in DOMAIN queue : queue'[n].text = queue[n].text
      /\ \A n \in DOMAIN queue : queue'[n].up <=> n \in job[h].batch \/ queue[n].up
  <2>1. \A n \in DOMAIN queue : [queue[n] EXCEPT !.up = TRUE].up = TRUE
    BY CaptureIs DEF BInv, CaptureType
  <2>2. \A n \in DOMAIN queue : queue'[n] = IF n \in job[h].batch
                                            THEN [queue[n] EXCEPT !.up = TRUE] ELSE queue[n]
    BY <1>2 DEF Reply, Acknowledged
  <2>3. \A n \in DOMAIN queue : queue'[n].up <=> n \in job[h].batch \/ queue[n].up
    BY <2>1, <2>2
  <2> QED BY <2>3, ReplyGrows DEF BInv
<1>4. \A g \in Handler \ {h} : job'[g] = job[g] /\ ~job[g].heard /\ ~Working(g)
  <2>1. \A g \in Handler \ {h} : job'[g] = job[g] /\ ~job[g].heard
    BY <1>1, <1>2 DEF Moves, Uploads, OneWorker
  <2>2. \A g \in Handler : Working(g) => job[g].heard
    BY DEF Working, Busy, Uploads, OneWorker
  <2> QED BY <2>1, <2>2
<1>5. \A g \in Handler : ~Working(g) /\ ~Working(g)' /\ ~job'[g].heard
  BY <1>1, <1>4 DEF Working, Busy, Resting
<1>6. \A n \in DOMAIN queue : Seen(n)' <=> Seen(n)
  BY <1>1, <1>2, <1>3, <1>4, <1>5 DEF Seen
<1>7. OneWorker' /\ OneLatest'
  BY <1>1, <1>4, <1>5 DEF Uploads, OneWorker, OneLatest, Resting
<1>8. InTurn'
  <2>1. /\ job[h].batch \subseteq DOMAIN queue
        /\ \A n \in DOMAIN queue \ job[h].batch : ~queue[n].up => \A m \in job[h].batch : m < n
    BY <1>2 DEF Uploads, InTurn
  <2>2. DOMAIN queue \subseteq Nat
    BY DEF BInv, IInv, TypeOK
  <2>3. ASSUME NEW n \in DOMAIN queue, NEW m \in DOMAIN queue, n < m, queue'[m].up
        PROVE  queue'[n].up
    <3>1. CASE m \in job[h].batch
      BY <1>3, <2>1, <2>2, <2>3, <3>1
    <3>2. CASE queue[m].up
      BY <1>3, <2>3, <3>2 DEF Uploads, InTurn
    <3> QED BY <1>3, <2>3, <3>1, <3>2
  <2> QED BY <1>3, <1>5, <2>3 DEF InTurn
<1>9. UpToDate'
  BY <1>1, <1>3, <1>5, <1>6 DEF Uploads, UpToDate, Last, Latest
<1> QED BY <1>6, <1>7, <1>8, <1>9 DEF Uploads, SeenStays

(* Where nothing goes wrong each step of the uploads is in turn.             *)
LEMMA Calm ==
  ASSUME IInv, ~Repeats("phone")
  PROVE  ~env.may.overlap /\ ~Crash /\ \A h \in Handler : ~LoseReply(h) /\ ~Fail(h)
<1>1. /\ env.did.faults \in Nat /\ env.did.crashes \in Nat
      /\ env.may.faults \in Nat /\ env.may.crashes \in Nat
  BY SettingTyped DEF IInv, TypeOK, Count, SettingType
<1>2. ~env.may.overlap /\ ~(env.may.faults > 0) /\ ~(env.may.crashes > 0)
  BY DEF Repeats
<1>3. ~CanSpend("faults", env.may.faults) /\ ~CanSpend("crashes", env.may.crashes)
  BY <1>1, <1>2 DEF CanSpend
<1> QED BY <1>2, <1>3 DEF Crash, LoseReply, Fail

LEMMA ForwardBefore == ASSUME IInv, Flow, Forward' PROVE Forward
<1>1. ~Repeats("phone")
  BY DEF Flow, Forward, Repeats
<1>2. NoReturn
  BY DEF Flow, Grows, Forward, NoReturn
<1> QED BY <1>1, <1>2 DEF Forward

LEMMA StillInTurn ==
  ASSUME BInv, Uploads, UNCHANGED <<queue, events, job>> PROVE Uploads' /\ SeenStays
  BY StaysInTurn DEF Working

LEMMA UploadsStep ==
  ASSUME BInv, Uploads, ~Repeats("phone"), [Next]_vars PROVE Uploads' /\ SeenStays
<1>0. IInv
  BY DEF BInv
<1>1. ASSUME NEW x \in Text, Capture(x) \/ Post(x) PROVE Uploads' /\ SeenStays
  BY <1>1, CaptureInTurn, StillInTurn DEF Post, stored
<1>2. CASE Tick \/ UNCHANGED vars
  BY <1>2, StillInTurn DEF Tick, vars, stored, outside
<1>3. ASSUME NEW h \in Handler, Upload(h) \/ LoseReply(h) \/ Fail(h) PROVE Uploads' /\ SeenStays
  BY <1>0, <1>3, Calm, UploadInTurn
<1>4. ASSUME NEW h \in Handler,
             Hold(h) \/ Replay(h) \/ Admit(h) \/ Place(h) \/ Decline(h) \/ Yield(h) \/ Answer(h)
      PROVE  Uploads' /\ SeenStays
  <2>1. UNCHANGED <<queue, events>> /\ job[h].pc \in Busy
    BY <1>4 DEF Hold, Replay, Admit, Place, Decline, Yield, Answer, Turn, Busy, outside, stored
  <2>2. Moves(h) /\ Carries(h) /\ job'[h].pc \in Busy
    BY <1>0, <1>4, AdmitIs, PcMoves DEF Hold, Replay, Place, Decline, Yield, Answer, Pc, Busy
  <2> QED BY <2>1, <2>2, CarriedInTurn
<1>5. ASSUME NEW h \in Handler, Advance(h) PROVE Uploads' /\ SeenStays
  <2>1. /\ UNCHANGED <<queue, events>> /\ Moves(h) /\ job'[h] = Resting
        /\ job[h].chan = "direct" /\ ~job[h].heard
    BY <1>0, <1>5, RestMoves DEF Advance, Turn, outside, BInv, Placed
  <2> QED BY <2>1, AsideInTurn DEF Working, Resting
<1>6. ASSUME NEW h \in Handler, NEW n, Retry(h, n) \/ SetAside(h, n) \/ Examine(h, n)
      PROVE  Uploads' /\ SeenStays
  <2>1. CASE Retry(h, n)
    BY <2>1, RetryInTurn
  <2>2. CASE SetAside(h, n)
    BY <1>0, <2>2, SetAsideMoves, EventInTurn DEF SetAside, outside
  <2>3. CASE Examine(h, n)
    BY <1>0, <2>3, ExamineMoves, EventInTurn DEF Examine, outside, stored
  <2> QED BY <1>6, <2>1, <2>2, <2>3
<1>7. ASSUME NEW h \in Handler, NEW c \in Collector, NEW m \in DOMAIN posts, Deliver(h, c, m)
      PROVE  Uploads' /\ SeenStays
  <2>1. UNCHANGED <<queue, events>> /\ job[h].pc = "idle"
    BY <1>7 DEF Deliver, Turn, outside, stored
  <2>2. /\ Moves(h) /\ job'[h].chan = "direct" /\ job'[h].heard = FALSE /\ ~job[h].heard
    BY <1>0, <1>7, <2>1, DeliverMoves DEF BInv, Placed
  <2> QED BY <2>1, <2>2, AsideInTurn DEF Working, Busy
<1>8. ASSUME NEW h \in Handler, Work(h) PROVE Uploads' /\ SeenStays
  BY <1>4, <1>5, <1>6, <1>8, ReplyInTurn, RecordInTurn DEF Work
<1> QED BY <1>0, <1>1, <1>2, <1>3, <1>7, <1>8, Calm DEF Next

LEMMA SeenTextStays ==
  ASSUME SeenStays, Grows, NEW x, SeenText(x) PROVE SeenText(x)'
  BY DEF SeenStays, Grows, SeenText

(* What is neither a retry nor a return was not taken up before.             *)
LEMMA FreshText ==
  ASSUME BInv, Uploads, NoReturn, NEW h \in Handler, NEW n, Takes(h, n),
         ~Repeated(queue[n].text), NEW k \in DOMAIN queue, Seen(k)
  PROVE  queue[k].text # queue[n].text /\ events # {}
<1> DEFINE m == n - 1
<1>1. /\ n \in DOMAIN queue /\ n \in job[h].left /\ job[h].pc = "take"
      /\ \A l \in job[h].left : n <= l
  BY TakesIs DEF BInv
<1>2. /\ \A g \in Handler : ~Working(g)
      /\ \A l \in DOMAIN queue : Seen(l) <=> l < n
  BY <1>1, NextInTurn
<1>3. DOMAIN queue = 1 .. Len(queue) /\ Len(queue) \in Nat
  BY DEF BInv, IInv, TypeOK
<1>4. k < n /\ m \in DOMAIN queue /\ m < n /\ k <= m /\ \A l \in DOMAIN queue : l < n => l <= m
  BY <1>1, <1>2, <1>3
<1>5. Last(m)
  BY <1>2, <1>4 DEF Last
<1>6. events # {} /\ \A e \in Latest : e.text = queue[m].text
  BY <1>2, <1>4, <1>5 DEF Uploads, UpToDate
<1>7. queue[m].text # queue[n].text
  BY <1>6 DEF BInv, IInv, HasLatest, Repeated
<1>8. queue[k].text # queue[n].text
  <2>1. CASE k = m
    BY <1>7, <2>1
  <2>2. CASE k < m
    BY <1>1, <1>4, <1>7, <2>2 DEF NoReturn
  <2> QED BY <1>1, <1>3, <1>4, <2>1, <2>2
<1> QED BY <1>6, <1>8

LEMMA NewVersionStep ==
  ASSUME BInv, BInv', Uploads, NewVersion, NoReturn, Uploads', SeenStays, Flow, [Next]_vars
  PROVE  NewVersion'
<1>0. IInv /\ Grows /\ \A x : SeenText(x) => SeenText(x)'
  BY SeenTextStays DEF BInv, Flow
<1>1. CASE Steady
  <2>1. \A i \in Recorded' : i \in Recorded /\ signals'[i] = signals[i]
    BY <1>1 DEF Steady, Recorded
  <2>2. \A i \in Recorded' : signals'[i].chan = "phone" => SeenText(signals[i].text)'
    BY <1>0, <2>1 DEF NewVersion
  <2>3. \A a \in Orders' : a.chan = "phone" => SeenText(a.text)'
    BY <1>0, <1>1 DEF NewVersion, Steady
  <2>4. ASSUME NEW g \in Handler, job'[g].pc = "route"
        PROVE  /\ \A i \in Recorded' : Differs(signals[i], job[g])'
               /\ \A a \in Orders' : Differs(a, job[g])'
               /\ job'[g].chan = "phone" /\ job'[g].rev = NoText =>
                    \A i \in Recorded' : signals'[i].chan = "direct"
    <3>1. /\ job[g].pc = "route" /\ job'[g].chan = job[g].chan /\ job'[g].text = job[g].text
          /\ job'[g].rev = job[g].rev
      BY <1>1, <2>4, RowFields DEF Steady
    <3> QED BY <1>1, <2>1, <3>1 DEF NewVersion, Differs, Steady
  <2> QED BY <2>2, <2>3, <2>4 DEF NewVersion
<1>2. ASSUME NEW h \in Handler, Examines(h) PROVE NewVersion'
  <2>1. PICK n \in job[h].left : Examine(h, n)
    BY <1>2 DEF Examines
  <2>2. /\ Solo(h) /\ AtHand(h, n) /\ UNCHANGED <<signals, queue>> /\ Orders' \subseteq Orders
        /\ ~Repeated(queue[n].text) /\ Takes(h, n)
    BY <2>1, ExamineIs DEF stored, Solo, outside, Examine
  <2>3. \A x : SeenText(x) => x # queue[n].text /\ events # {}
    BY <2>2, FreshText DEF SeenText
  <2>4. \A i \in Recorded' : i \in Recorded /\ signals'[i] = signals[i]
    BY <2>2 DEF Recorded
  <2>5. /\ \A i \in Recorded' : Differs(signals[i], job[h])'
        /\ \A a \in Orders' : Differs(a, job[h])'
    BY <2>2, <2>3, <2>4 DEF NewVersion, Differs, AtHand
  <2>6. ASSUME job'[h].rev = NoText, NEW i \in Recorded' PROVE signals'[i].chan = "direct"
    <3>1. events = {}
      BY <1>0, <2>2, <2>6, TakesIs, TextAssumption DEF AtHand
    <3>2. signals[i].chan # "phone"
      BY <2>3, <2>4, <3>1 DEF NewVersion
    <3> QED BY <1>0, <2>4, <3>2, RowIs DEF RowType, Channel
  <2>7. \A g \in Handler \ {h} : job'[g].pc # "route"
    BY <2>2 DEF Solo
  <2>8. /\ \A i \in Recorded' : signals'[i].chan = "phone" => SeenText(signals[i].text)'
        /\ \A a \in Orders' : a.chan = "phone" => SeenText(a.text)'
    BY <1>0, <2>2, <2>4 DEF NewVersion
  <2> QED BY <2>5, <2>6, <2>7, <2>8 DEF NewVersion
<1>3. ASSUME NEW h \in Handler, SetsAside(h) PROVE NewVersion'
  <2>1. PICK n \in job[h].left : SetAside(h, n)
    BY <1>3 DEF SetsAside
  <2>2. /\ Solo(h) /\ TurnsTo(h, n) /\ AtHand(h, n) /\ job'[h].pc = "record" /\ events' = events
        /\ Orders' \subseteq Orders
        /\ \/ signals' = signals
           \/ \E i \in NewId :
                /\ Recorded' = Recorded \cup {i} /\ signals'[i] = Row(job'[h])
                /\ \A k \in Id \ {i} : signals'[k] = signals[k]
    BY <2>1, SetAsideIs
  <2>3. \A i \in Recorded' :
          (i \in Recorded /\ signals'[i] = signals[i]) \/ signals'[i].text = queue[n].text
    BY <2>2, RowFields DEF Recorded, AtHand
  <2>4. \A g \in Handler : job'[g].pc # "route"
    BY <2>2 DEF Solo
  <2>5. SeenText(queue[n].text)'
    <3>1. Moves(h) /\ UNCHANGED <<queue, events>>
      BY <1>0, <2>1, SetAsideMoves DEF SetAside, outside
    <3>2. Seen(n)' /\ n \in DOMAIN queue
      BY <2>2, <3>1, EventInTurn
    <3> QED BY <3>1, <3>2 DEF SeenText
  <2>6. queue' = queue
    BY <2>2 DEF Solo, outside
  <2>7. /\ \A i \in Recorded' : signals'[i].chan = "phone" => SeenText(signals[i].text)'
        /\ \A a \in Orders' : a.chan = "phone" => SeenText(a.text)'
    BY <1>0, <2>2, <2>3, <2>5, <2>6 DEF NewVersion
  <2> QED BY <2>4, <2>7 DEF NewVersion
<1>4. ASSUME NEW h \in Handler, Delivers(h) PROVE NewVersion'
  <2>1. PICK c \in Collector, m \in DOMAIN posts : Deliver(h, c, m)
    BY <1>4 DEF Delivers
  <2>2. Solo(h) /\ job'[h].chan = "direct" /\ signals' = signals /\ Orders' \subseteq Orders
    BY <2>1, DeliverIs DEF stored
  <2>3. \A i \in Recorded' : i \in Recorded /\ signals'[i] = signals[i]
    BY <2>2 DEF Recorded
  <2>4. /\ \A i \in Recorded' : signals'[i].chan = "phone" => SeenText(signals[i].text)'
        /\ \A a \in Orders' : a.chan = "phone" => SeenText(a.text)'
    BY <1>0, <2>2, <2>3 DEF NewVersion
  <2>5. \A g \in Handler : job'[g].pc = "route" => job'[g].chan = "direct"
    BY <2>2 DEF Solo
  <2> QED BY <2>4, <2>5 DEF NewVersion, Differs
<1>5. ASSUME NEW h \in Handler, job[h].pc = "route", job[h].chan = "phone"
      PROVE  \E x : x = job[h].text /\ SeenText(x)'
  BY <1>0, <1>5 DEF Uploads, UpToDate, Working, Busy
<1>6. ASSUME NEW h \in Handler, Hold(h) PROVE NewVersion'
  <2>1. /\ Solo(h) /\ job[h].pc = "route" /\ job'[h].pc = "record" /\ Orders' \subseteq Orders
        /\ \E i \in NewId :
              /\ Recorded' = Recorded \cup {i} /\ signals'[i] = Row(job[h])
              /\ \A k \in Id \ {i} : signals'[k] = signals[k]
    BY <1>6, HoldIs
  <2>2. \A i \in Recorded' :
          \/ i \in Recorded /\ signals'[i] = signals[i]
          \/ signals'[i].chan = job[h].chan /\ signals'[i].text = job[h].text
    BY <2>1, RowFields DEF Recorded
  <2>3. \A g \in Handler : job'[g].pc # "route"
    BY <2>1 DEF Solo
  <2>4. /\ \A i \in Recorded' : signals'[i].chan = "phone" => SeenText(signals[i].text)'
        /\ \A a \in Orders' : a.chan = "phone" => SeenText(a.text)'
    BY <1>0, <1>5, <2>1, <2>2 DEF NewVersion
  <2> QED BY <2>3, <2>4 DEF NewVersion
<1>7. ASSUME NEW h \in Handler, Admit(h) PROVE NewVersion'
  <2>1. /\ \A g \in Handler \ {h} : job'[g] = job[g] /\ job[g].pc # "route"
        /\ Carries(h) /\ job[h].pc = "route" /\ job'[h].pc = "place"
        /\ Recorded' = Recorded \cup {job'[h].id} /\ signals'[job'[h].id] = Row(job[h])
        /\ \A k \in Id \ {job'[h].id} : signals'[k] = signals[k]
        /\ \A a \in Orders' : a \in Orders \/ a = Order(job'[h])
    BY <1>7, AdmitSteps
  <2>2. \A i \in Recorded' :
          \/ i \in Recorded /\ signals'[i] = signals[i]
          \/ signals'[i].chan = job[h].chan /\ signals'[i].text = job[h].text
    BY <2>1, RowFields DEF Recorded
  <2>3. \A a \in Orders' :
          \/ a \in Orders
          \/ a.chan = job[h].chan /\ a.text = job[h].text
    BY <2>1, OrderFields
  <2>4. \A g \in Handler : job'[g].pc # "route"
    BY <2>1
  <2>5. /\ \A i \in Recorded' : signals'[i].chan = "phone" => SeenText(signals[i].text)'
        /\ \A a \in Orders' : a.chan = "phone" => SeenText(a.text)'
    BY <1>0, <1>5, <2>1, <2>2, <2>3 DEF NewVersion
  <2> QED BY <2>4, <2>5 DEF NewVersion
<1> QED BY <1>1, <1>2, <1>3, <1>4, <1>6, <1>7, StepSorts

LEMMA InitFInv == Init => FInv
<1> SUFFICES ASSUME Init PROVE FInv
  OBVIOUS
<1>1. /\ queue = <<>> /\ events = {} /\ \A h \in Handler : job[h] = Resting
      /\ Recorded = {} /\ Orders = {}
  BY NothingYet DEF Init
<1>2. /\ \A h \in Handler : /\ job[h].pc = "idle" /\ ~job[h].heard
                            /\ ~Working(h)
  BY <1>1 DEF Resting, Working, Busy
<1>3. Uploads
  BY <1>1, <1>2 DEF Uploads, OneWorker, InTurn, OneLatest, UpToDate
<1>4. NewVersion
  BY <1>1, <1>2 DEF NewVersion
<1> QED BY <1>3, <1>4, InitDInv DEF FInv

LEMMA NextFInv == FInv /\ [Next]_vars => FInv'
<1> SUFFICES ASSUME FInv, [Next]_vars PROVE FInv'
  OBVIOUS
<1>1. DInv /\ DInv' /\ BInv /\ BInv' /\ IInv /\ Flow
  BY NextDInv, StepFlows DEF FInv, DInv, BInv
<1>2. ASSUME Forward' PROVE Uploads' /\ NewVersion'
  <2>1. Forward
    BY <1>1, <1>2, ForwardBefore
  <2>2. Uploads /\ NewVersion /\ ~Repeats("phone") /\ NoReturn
    BY <2>1 DEF FInv, Forward
  <2>3. Uploads' /\ SeenStays
    BY <1>1, <2>2, UploadsStep
  <2> QED BY <1>1, <2>2, <2>3, NewVersionStep
<1> QED BY <1>1, <1>2 DEF FInv

-----------------------------------------------------------------------------
(* A row written under an id.                                                *)
Wrote(i, r) ==
  /\ i \in Id /\ Recorded' = Recorded \cup {i} /\ signals'[i] = r
  /\ \A k \in Id \ {i} : signals'[k] = signals[k]

LEMMA HoldWrote ==
  ASSUME BInv, NEW h \in Handler, Hold(h)
  PROVE  \E i \in NewId : Wrote(i, Row(job[h]))
  BY HoldIs, NewIdIs DEF Wrote

LEMMA SetAsideWrote ==
  ASSUME BInv, NEW h \in Handler, NEW n, SetAside(h, n)
  PROVE  signals' = signals \/ \E i \in NewId : Wrote(i, Row(job'[h]))
  BY SetAsideIs, NewIdIs DEF Wrote

LEMMA AdmitWrote ==
  ASSUME BInv, NEW h \in Handler, Admit(h)
  PROVE  /\ Wrote(job'[h].id, Row(job[h]))
         /\ \E v \in Verdicts(job[h]) : v.go /\ job'[h].id \in v.ids
  BY AdmitSteps DEF Wrote

LEMMA WroteRows ==
  ASSUME NEW i, NEW r, Wrote(i, r)
  PROVE  /\ \A k \in Id : PhoneRow(k)' => PhoneRow(k) \/ (k = i /\ r.chan = "phone")
         /\ \A k \in Id : DirectRow(k)' => DirectRow(k) \/ (k = i /\ r.chan = "direct")
         /\ \A k \in Recorded : k # i => k \in Recorded' /\ signals'[k] = signals[k]
  BY DEF Wrote, PhoneRow, DirectRow, Recorded

LEMMA SameRows ==
  ASSUME signals' = signals
  PROVE  /\ Recorded' = Recorded
         /\ \A k \in Id : (PhoneRow(k)' <=> PhoneRow(k)) /\ (DirectRow(k)' <=> DirectRow(k))
  BY DEF Recorded, PhoneRow, DirectRow

(* One notification has one text.                                            *)
LEMMA SameText ==
  ASSUME BInv, Grows, BInv', Single', NEW x, Shown(x)
  PROVE  DOMAIN queue' = DOMAIN queue /\ Single
<1>1. /\ DOMAIN queue = 1 .. Len(queue) /\ Len(queue) \in Nat
      /\ DOMAIN queue' = 1 .. Len(queue') /\ Len(queue') \in Nat
  BY DEF BInv, IInv, TypeOK
<1>2. Len(queue) >= 1 /\ Len(queue') <= 1 /\ DOMAIN queue \subseteq DOMAIN queue'
  BY <1>1 DEF Shown, Single, Grows
<1>3. Len(queue) = 1 /\ Len(queue') = 1
  <2>1. 1 \in DOMAIN queue /\ Len(queue) \in DOMAIN queue'
    BY <1>1, <1>2
  <2> QED BY <1>1, <1>2, <2>1
<1> QED BY <1>1, <1>3 DEF Single

LEMMA SingleBefore == ASSUME BInv, BInv', Grows, Single' PROVE Single
<1>1. /\ DOMAIN queue = 1 .. Len(queue) /\ Len(queue) \in Nat
      /\ DOMAIN queue' = 1 .. Len(queue') /\ Len(queue') \in Nat
  BY DEF BInv, IInv, TypeOK
<1> QED BY <1>1 DEF Single, Grows

LEMMA OneText ==
  ASSUME BInv, Single, NEW n \in DOMAIN queue
  PROVE  /\ \A k \in DOMAIN queue : k = n
         /\ \A x : Shown(x) => x = queue[n].text
<1>1. DOMAIN queue = 1 .. Len(queue) /\ Len(queue) \in Nat
  BY DEF BInv, IInv, TypeOK
<1> QED BY <1>1 DEF Single, Shown

LEMMA PhoneRowIs ==
  ASSUME BInv, NEW i \in Id, PhoneRow(i)
  PROVE  /\ i \in Recorded /\ signals[i].chan = "phone" /\ signals[i].msg = 0
         /\ Shown(signals[i].text) /\ signals[i].at \in Nat /\ signals[i].at <= clock
  BY RowIs DEF BInv, PhoneRow, RowHonest, Said

LEMMA RoutesPhoneIs ==
  ASSUME BInv, NEW h \in Handler, RoutesPhone(h)
  PROVE  /\ job[h].msg = 0 /\ Shown(job[h].text) /\ job[h].at \in Nat /\ job[h].at <= clock
         /\ running = h
  BY JobIs DEF BInv, RoutesPhone, Placed, Said, Busy, JobType

LEMMA FirstEvent ==
  ASSUME BInv, Single, NEW n \in DOMAIN queue, ~Repeated(queue[n].text) PROVE events = {}
  BY OneText DEF BInv, IInv, HasLatest, Repeated, Latest

LEMMA KnownPhone ==
  ASSUME BInv, FirstText, NEW h \in Handler, RoutesPhone(h), NEW k \in Id, PhoneRow(k)
  PROVE  k \in Known(job[h])
  BY PhoneRowIs, RoutesPhoneIs DEF Known, FirstText, RoutesPhone

LEMMA RoutesLive ==
  ASSUME BInv, Single, FirstText, NEW h \in Handler, RoutesPhone(h) PROVE Live
<1> SUFFICES ASSUME NEW n \in DOMAIN queue PROVE Form[queue[n].text] = "whole"
  BY DEF Live
<1>1. job[h].text = queue[n].text
  BY OneText, RoutesPhoneIs
<1> QED BY <1>1 DEF FirstText

(* While it can still be routed, it could before.                            *)
LEMMA StepRoutes ==
  ASSUME BInv, [Next]_vars, NEW g \in Handler, RoutesPhone(g)'
  PROVE  \/ Steady /\ RoutesPhone(g)
         \/ \E n \in job[g].left : Examine(g, n)
<1>1. CASE Steady
  BY <1>1, RowFields DEF Steady, RoutesPhone
<1>2. ASSUME NEW h \in Handler, Examines(h) PROVE \E n \in job[g].left : Examine(g, n)
  BY <1>2, ExamineIs DEF Examines, Solo, RoutesPhone
<1>3. ASSUME NEW h \in Handler, SetsAside(h) PROVE FALSE
  BY <1>3, SetAsideIs DEF SetsAside, Solo, RoutesPhone
<1>4. ASSUME NEW h \in Handler, Delivers(h) PROVE FALSE
  <2>1. PICK c \in Collector, m \in DOMAIN posts : Deliver(h, c, m)
    BY <1>4 DEF Delivers
  <2>2. Solo(h) /\ job'[h].chan = "direct"
    BY <2>1, DeliverIs
  <2> QED BY <2>2 DEF Solo, RoutesPhone
<1>5. ASSUME NEW h \in Handler, Hold(h) \/ Admit(h) PROVE FALSE
  BY <1>5, HoldIs, AdmitSteps DEF Solo, RoutesPhone
<1> QED BY <1>1, <1>2, <1>3, <1>4, <1>5, StepSorts

LEMMA LiveBefore ==
  ASSUME BInv, BInv', Flow, Single', [Next]_vars, Live' PROVE Live
<1> SUFFICES ASSUME NEW n \in DOMAIN queue
             PROVE  /\ Form[queue[n].text] = "whole"
                    /\ clock <= queue[n].at + env.may.fresh \/ \E h \in Handler : RoutesPhone(h)
  BY DEF Live
<1>0. /\ n \in DOMAIN queue' /\ queue'[n].text = queue[n].text /\ queue'[n].at = queue[n].at
      /\ env'.may = env.may /\ clock \in Nat /\ clock' \in Nat /\ clock <= clock'
      /\ env.may.fresh \in Nat /\ queue[n].at \in Nat
  BY CaptureIs, SettingTyped DEF Flow, Grows, BInv, SettingType
<1>1. Form[queue[n].text] = "whole"
  BY <1>0 DEF Live
<1>2. CASE clock' <= queue[n].at + env.may.fresh
  BY <1>0, <1>1, <1>2
<1>3. ASSUME NEW g \in Handler, RoutesPhone(g)'
      PROVE clock <= queue[n].at + env.may.fresh \/ RoutesPhone(g)
  <2>1. ASSUME NEW k \in job[g].left, Examine(g, k) PROVE clock <= queue[n].at + env.may.fresh
    <3>1. Single
      BY SingleBefore DEF Flow
    <3>2. k = n /\ Routable(k)
      BY <2>1, <3>1, ExamineIs, OneText DEF TurnsTo
    <3> QED BY <3>2 DEF Routable
  <2> QED BY <1>3, <2>1, StepRoutes
<1> QED BY <1>0, <1>1, <1>2, <1>3 DEF Live

LEMMA FirstTextStep ==
  ASSUME BInv, BInv', Flow, Single', FirstText, [Next]_vars PROVE FirstText'
<1>0. Grows /\ IInv /\ Single
  BY SingleBefore DEF Flow, BInv
<1>1. ASSUME NEW g \in Handler, RoutesPhone(g)'
      PROVE  /\ events' = {} /\ job'[g].rev = NoText /\ Form[job'[g].text] = "whole"
             /\ Timely(job[g].at)'
  <2>1. CASE Steady /\ RoutesPhone(g)
    <3>1. /\ events' = events /\ job'[g].rev = job[g].rev /\ job'[g].text = job[g].text
          /\ job'[g].at = job[g].at
      BY <1>1, <2>1, RowFields DEF Steady, RoutesPhone
    <3>2. DOMAIN queue' = DOMAIN queue
      BY <1>0, <2>1, RoutesPhoneIs, SameText
    <3> QED BY <1>0, <2>1, <3>1, <3>2 DEF FirstText, Timely, Grows, Flow
  <2>2. ASSUME NEW n \in job[g].left, Examine(g, n)
        PROVE  /\ events' = {} /\ job'[g].rev = NoText /\ Form[job'[g].text] = "whole"
               /\ Timely(job[g].at)'
    <3>1. /\ AtHand(g, n) /\ n \in DOMAIN queue /\ UNCHANGED <<queue, events, clock, env>>
          /\ ~Repeated(queue[n].text) /\ Routable(n)
      BY <2>2, ExamineIs DEF Solo, outside, stored, TurnsTo
    <3>2. events = {}
      BY <1>0, <3>1, FirstEvent
    <3>3. Timely(job[g].at)'
      <4> SUFFICES ASSUME NEW k \in DOMAIN queue
                   PROVE  queue[k].at <= clock /\ clock <= queue[k].at + env.may.fresh
        BY <3>1 DEF Timely, AtHand
      <4>1. k = n
        BY <1>0, <3>1, OneText
      <4> QED BY <3>1, <4>1 DEF BInv, Routable
    <3> QED BY <3>1, <3>2, <3>3 DEF AtHand, Routable
  <2> QED BY <1>1, <2>1, <2>2, StepRoutes
<1>2. ASSUME NEW i \in Id, PhoneRow(i)' PROVE signals'[i].rev = NoText
  <2>1. CASE signals' = signals
    BY <1>2, <2>1, SameRows DEF FirstText
  <2>2. ASSUME NEW h \in Handler, SetsAside(h) PROVE signals'[i].rev = NoText
    <3>1. PICK n \in job[h].left : SetAside(h, n)
      BY <2>2 DEF SetsAside
    <3>2. n \in DOMAIN queue /\ AtHand(h, n) /\ ~Repeated(queue[n].text)
      BY <3>1, SetAsideIs DEF TurnsTo
    <3>3. job'[h].rev = NoText
      BY <1>0, <3>2, FirstEvent DEF AtHand
    <3>4. ASSUME NEW k \in NewId, Wrote(k, Row(job'[h])) PROVE signals'[i].rev = NoText
      <4>1. CASE i = k
        BY <3>3, <3>4, <4>1, RowFields DEF Wrote
      <4>2. CASE i # k
        BY <1>2, <3>4, <4>2, WroteRows DEF FirstText, PhoneRow, Wrote
      <4> QED BY <4>1, <4>2
    <3> QED BY <2>1, <3>1, <3>4, SetAsideWrote
  <2>3. ASSUME NEW h \in Handler, NEW k, job[h].pc = "route", Wrote(k, Row(job[h]))
        PROVE  signals'[i].rev = NoText
    <3>1. CASE i = k
      <4>1. signals'[i].rev = job[h].rev /\ job[h].chan = "phone"
        BY <1>2, <2>3, <3>1, RowFields DEF Wrote, PhoneRow
      <4> QED BY <2>3, <4>1 DEF FirstText, RoutesPhone
    <3>2. CASE i # k
      BY <1>2, <2>3, <3>2, WroteRows DEF FirstText, PhoneRow, Wrote
    <3> QED BY <3>1, <3>2
  <2>4. ASSUME NEW h \in Handler, Hold(h) \/ Admit(h) PROVE signals'[i].rev = NoText
    BY <2>3, <2>4, HoldWrote, AdmitWrote, HoldIs, AdmitSteps
  <2>5. ASSUME NEW h \in Handler, Examines(h) \/ Delivers(h) PROVE signals' = signals
    BY <2>5, ExamineIs, DeliverIs DEF Examines, Delivers, stored
  <2> QED BY <2>1, <2>2, <2>4, <2>5, StepSorts DEF Steady
<1> QED BY <1>1, <1>2 DEF FirstText

(* The rows that an id may be given while its notification is routed.        *)
LEMMA AdmitPhone ==
  ASSUME BInv, Single, FirstText, Live => OneRow, NEW h \in Handler, Admit(h),
         job[h].chan = "phone"
  PROVE  \A k \in Id : PhoneRow(k)' => k = job'[h].id
<1> DEFINE i == job'[h].id
<1>1. RoutesPhone(h) /\ Wrote(i, Row(job[h]))
  BY AdmitSteps, AdmitWrote DEF RoutesPhone
<1>2. PICK v \in Verdicts(job[h]) : v.go /\ i \in v.ids
  BY AdmitWrote
<1>3. OneRow
  BY <1>1, RoutesLive
<1>4. ASSUME NEW k \in Id, PhoneRow(k) PROVE k = i
  <2>1. k \in Known(job[h])
    BY <1>1, <1>4, KnownPhone
  <2>2. i \in Known(job[h])
    BY <1>2, <2>1, VerdictKnown DEF Earliest
  <2>3. PhoneRow(i)
    BY <2>2 DEF PhoneRow, Known
  <2> QED BY <1>1, <1>3, <1>4, <2>3 DEF OneRow, Wrote
<1> QED BY <1>1, <1>4, WroteRows

LEMMA HoldPhone ==
  ASSUME BInv, FirstText, NEW h \in Handler, Hold(h), job[h].chan = "phone", NEW k \in Id
  PROVE  ~PhoneRow(k)
<1>1. RoutesPhone(h) /\ Known(job[h]) = {}
  BY HoldIs DEF RoutesPhone
<1> QED BY <1>1, KnownPhone

LEMMA OneRowStep ==
  ASSUME BInv, BInv', Flow, Single', FirstText, Live => OneRow, [Next]_vars, Live'
  PROVE  OneRow'
<1>0. Grows /\ IInv /\ Single /\ OneRow
  BY SingleBefore, LiveBefore DEF Flow, BInv
<1>1. CASE signals' = signals
  BY <1>0, <1>1, SameRows DEF OneRow
<1>2. ASSUME NEW h \in Handler, SetsAside(h) PROVE FALSE
  <2>1. PICK n \in job[h].left : SetAside(h, n)
    BY <1>2 DEF SetsAside
  <2>2. /\ n \in DOMAIN queue /\ UNCHANGED <<queue, clock, env>> /\ ~Routable(n)
        /\ \A g \in Handler : job'[g].pc # "route"
    BY <2>1, SetAsideIs DEF TurnsTo, Solo, outside
  <2>3. Form[queue[n].text] = "whole" /\ clock <= queue[n].at + env.may.fresh
    BY <2>2 DEF Live, RoutesPhone
  <2> QED BY <2>2, <2>3 DEF Routable
<1>3. ASSUME NEW h \in Handler, Hold(h) PROVE OneRow'
  <2>1. PICK i \in NewId : Wrote(i, Row(job[h]))
    BY <1>3, HoldWrote
  <2>2. CASE job[h].chan = "phone"
    BY <1>3, <2>1, <2>2, HoldPhone, WroteRows DEF OneRow
  <2>3. CASE job[h].chan # "phone"
    BY <1>0, <2>1, <2>3, WroteRows, RowFields DEF OneRow
  <2> QED BY <2>2, <2>3
<1>4. ASSUME NEW h \in Handler, Admit(h) PROVE OneRow'
  <2>1. Wrote(job'[h].id, Row(job[h]))
    BY <1>4, AdmitWrote
  <2>2. CASE job[h].chan = "phone"
    BY <1>0, <1>4, <2>2, AdmitPhone DEF OneRow
  <2>3. CASE job[h].chan # "phone"
    BY <1>0, <2>1, <2>3, WroteRows, RowFields DEF OneRow
  <2> QED BY <2>2, <2>3
<1>5. ASSUME NEW h \in Handler, Examines(h) \/ Delivers(h) PROVE signals' = signals
  BY <1>5, ExamineIs, DeliverIs DEF Examines, Delivers, stored
<1> QED BY <1>1, <1>2, <1>3, <1>4, <1>5, StepSorts DEF Steady

LEMMA OrderRow ==
  ASSUME BInv, NEW a \in Orders
  PROVE  /\ a.id \in Id /\ a.id \in Recorded /\ a.at \in Nat /\ signals[a.id].at \in Nat
         /\ a.at <= signals[a.id].at
  BY OrderIs, RowIs DEF BInv, OrderKept

LEMMA OrdersFirstStep ==
  ASSUME BInv, BInv', Flow, Single', FirstText, OrdersFirst, Live => OneRow, [Next]_vars
  PROVE  OrdersFirst'
<1> DEFINE First(a) ==
      signals[a.id].chan = "phone" =>
        /\ Form[signals[a.id].text] = "whole" /\ Timely(signals[a.id].at)
        /\ \A k \in Id \ {a.id} : PhoneRow(k) => signals[a.id].at < signals[k].at
<1>0. Grows /\ IInv /\ Single /\ \A a \in Orders : First(a)
  BY SingleBefore DEF Flow, BInv, OrdersFirst
<1>t. ASSUME NEW t \in Nat, NEW x, Shown(x), Timely(t) PROVE \A u : u = t => Timely(u)'
  <2>1. DOMAIN queue' = DOMAIN queue
    BY <1>0, <1>t, SameText
  <2> QED BY <1>0, <1>t, <2>1 DEF Timely, Grows, Flow
<1>s. ASSUME NEW a \in Orders, signals'[a.id] = signals[a.id],
             \A k \in Id \ {a.id} : PhoneRow(k)' =>
               (PhoneRow(k) /\ signals'[k] = signals[k])
                 \/ (signals[a.id].chan = "phone" => signals[a.id].at < signals'[k].at)
      PROVE  \A b : b = a => First(b)'
  <2> SUFFICES ASSUME signals[a.id].chan = "phone"
               PROVE  /\ Form[signals[a.id].text] = "whole"
                      /\ \A u : u = signals[a.id].at => Timely(u)'
                      /\ \A k \in Id \ {a.id} : PhoneRow(k)' => signals[a.id].at < signals'[k].at
    BY <1>s
  <2>1. /\ Form[signals[a.id].text] = "whole" /\ Timely(signals[a.id].at)
        /\ \A k \in Id \ {a.id} : PhoneRow(k) => signals[a.id].at < signals[k].at
    BY <1>0, <1>s
  <2>2. Shown(signals[a.id].text) /\ signals[a.id].at \in Nat
    BY OrderRow, PhoneRowIs DEF PhoneRow
  <2> QED BY <1>t, <1>s, <2>1, <2>2
<1>1. CASE signals' = signals /\ Orders' \subseteq Orders
  <2>1. ASSUME NEW a \in Orders PROVE \A b : b = a => First(b)'
    BY <1>1, <1>s, <2>1, SameRows
  <2> QED BY <1>1, <2>1 DEF OrdersFirst
<1>2. ASSUME NEW h \in Handler, SetsAside(h) PROVE OrdersFirst'
  <2>1. PICK n \in job[h].left : SetAside(h, n)
    BY <1>2 DEF SetsAside
  <2>2. /\ n \in DOMAIN queue /\ AtHand(h, n) /\ ~Routable(n) /\ Orders' \subseteq Orders
        /\ job'[h].chan = "phone"
    BY <2>1, SetAsideIs DEF TurnsTo
  <2>3. ASSUME NEW i \in NewId, Wrote(i, Row(job'[h])) PROVE OrdersFirst'
    <3>1. ASSUME NEW a \in Orders PROVE \A b : b = a => First(b)'
      <4>1. a.id \in Recorded /\ a.id # i /\ signals'[a.id] = signals[a.id]
        BY <2>3, <3>1, OrderRow, WroteRows, NewIdIs
      <4>2. signals'[i].at = clock
        BY <2>2, <2>3, RowFields DEF Wrote, AtHand
      <4>3. ASSUME signals[a.id].chan = "phone" PROVE signals[a.id].at < clock
        <5>1. Shown(signals[a.id].text) /\ signals[a.id].at \in Nat
          BY <3>1, <4>3, OrderRow, PhoneRowIs DEF PhoneRow
        <5>2. queue[n].text = signals[a.id].text
          BY <1>0, <2>2, <5>1, OneText
        <5>3. Form[queue[n].text] = "whole" /\ Timely(signals[a.id].at)
          BY <1>0, <3>1, <4>3, <5>2
        <5>4. clock \in Nat /\ env.may.fresh \in Nat /\ queue[n].at \in Nat
          BY <1>0, <2>2, CaptureIs, SettingTyped DEF SettingType, IInv, TypeOK
        <5> QED BY <2>2, <5>1, <5>3, <5>4 DEF Routable, Timely
      <4>4. \A k \in Id \ {a.id} : PhoneRow(k)' =>
               (PhoneRow(k) /\ signals'[k] = signals[k])
                 \/ (signals[a.id].chan = "phone" => signals[a.id].at < signals'[k].at)
        BY <2>3, <4>2, <4>3, WroteRows DEF Wrote, PhoneRow
      <4> QED BY <1>s, <3>1, <4>1, <4>4
    <3> QED BY <2>2, <3>1 DEF OrdersFirst
  <2> QED BY <1>1, <2>1, <2>2, <2>3, SetAsideWrote
<1>3. ASSUME NEW h \in Handler, Hold(h) PROVE OrdersFirst'
  <2>1. PICK i \in NewId : Wrote(i, Row(job[h]))
    BY <1>3, HoldWrote
  <2>2. ASSUME NEW a \in Orders PROVE \A b : b = a => First(b)'
    <3>1. a.id \in Recorded /\ a.id # i /\ signals'[a.id] = signals[a.id]
      BY <2>1, <2>2, OrderRow, WroteRows, NewIdIs
    <3>2. CASE job[h].chan = "phone"
      <4>1. signals[a.id].chan # "phone"
        BY <1>3, <2>2, <3>1, <3>2, HoldPhone, OrderRow DEF PhoneRow
      <4> QED BY <3>1, <4>1
    <3>3. CASE job[h].chan # "phone"
      <4>1. \A k \in Id : PhoneRow(k)' => PhoneRow(k) /\ signals'[k] = signals[k]
        BY <2>1, <3>3, WroteRows, RowFields DEF PhoneRow, Wrote
      <4> QED BY <1>s, <2>2, <3>1, <4>1
    <3> QED BY <3>2, <3>3
  <2> QED BY <1>3, <2>2, HoldIs DEF OrdersFirst
<1>4. ASSUME NEW h \in Handler, Admit(h) PROVE OrdersFirst'
  <2>0. PICK i \in Id : i = job'[h].id
    BY <1>4, AdmitSteps
  <2>1. /\ Wrote(i, Row(job[h])) /\ job[h].pc = "route" /\ UNCHANGED <<queue, env>>
        /\ \A a \in Orders' : a \in Orders \/ a = Order(job'[h])
    BY <1>4, <2>0, AdmitWrote, AdmitSteps DEF outside
  <2>2. CASE job[h].chan = "phone"
    <3>1. /\ signals'[i].text = job[h].text /\ signals'[i].at = job[h].at
          /\ Form[job[h].text] = "whole" /\ Timely(job[h].at)
      BY <2>1, <2>2, RowFields DEF Wrote, FirstText, RoutesPhone
    <3>2. \A k \in Id : PhoneRow(k)' => k = i
      BY <1>0, <1>4, <2>0, <2>2, AdmitPhone
    <3>3. Timely(signals[i].at)'
      BY <2>1, <3>1 DEF Timely
    <3>4. ASSUME NEW a \in Orders', signals'[a.id].chan = "phone" PROVE a.id = i
      BY <3>2, <3>4 DEF PhoneRow, BInv, OrderKept, Recorded
    <3> QED BY <3>1, <3>2, <3>3, <3>4 DEF OrdersFirst
  <2>3. CASE job[h].chan # "phone"
    <3>1. signals'[i].chan # "phone"
      BY <2>1, <2>3, RowFields DEF Wrote
    <3>2. \A k \in Id : PhoneRow(k)' => PhoneRow(k) /\ signals'[k] = signals[k]
      BY <2>1, <2>3, WroteRows, RowFields DEF PhoneRow, Wrote
    <3>3. ASSUME NEW a \in Orders', signals'[a.id].chan = "phone" PROVE First(a)'
      <4>1. a.id # i
        BY <3>1, <3>3
      <4>2. a \in Orders
        BY <1>4, <2>0, <2>1, <3>3, <4>1, OrderFields, AdmitSteps
      <4>3. signals'[a.id] = signals[a.id]
        BY <2>1, <4>1, <4>2, OrderRow DEF Wrote
      <4>4. \A b : b = a => First(b)'
        BY <1>s, <3>2, <4>2, <4>3
      <4> QED BY <4>4
    <3> QED BY <3>3 DEF OrdersFirst
  <2> QED BY <2>2, <2>3
<1>5. ASSUME NEW h \in Handler, Examines(h) \/ Delivers(h)
      PROVE  signals' = signals /\ Orders' \subseteq Orders
  BY <1>5, ExamineIs, DeliverIs DEF Examines, Delivers, stored
<1> QED BY <1>1, <1>2, <1>3, <1>4, <1>5, StepSorts DEF Steady

LEMMA AfterShownStep ==
  ASSUME BInv, BInv', Flow, Single', FirstText, AfterShown, [Next]_vars PROVE AfterShown'
<1> SUFFICES ASSUME NEW i \in Id, PhoneRow(i)', NEW n \in DOMAIN queue'
             PROVE  queue'[n].at <= signals'[i].at
  BY DEF AfterShown
<1>0. Grows
  BY DEF Flow
<1>1. CASE signals' = signals
  <2>1. PhoneRow(i) /\ Shown(signals[i].text)
    BY <1>1, SameRows, PhoneRowIs
  <2>2. n \in DOMAIN queue /\ queue'[n].at = queue[n].at
    BY <1>0, <2>1, SameText DEF Grows
  <2> QED BY <1>1, <2>1, <2>2 DEF AfterShown
<1>2. ASSUME NEW k, NEW r, Wrote(k, r), queue' = queue,
             r.chan = "phone" => queue[n].at <= r.at
      PROVE  queue'[n].at <= signals'[i].at
  <2>1. CASE i = k /\ r.chan = "phone"
    BY <1>2, <2>1 DEF Wrote
  <2>2. CASE i # k
    BY <1>2, <2>2, WroteRows DEF Wrote, AfterShown
  <2> QED BY <1>2, <2>1, <2>2 DEF Wrote, PhoneRow
<1>3. ASSUME NEW h \in Handler, NEW m, SetAside(h, m) PROVE queue'[n].at <= signals'[i].at
  <2>1. queue' = queue /\ AtHand(h, m)
    BY <1>3, SetAsideIs DEF Solo, outside
  <2>2. queue[n].at <= Row(job'[h]).at
    BY <2>1, RowFields DEF BInv, AtHand
  <2> QED BY <1>1, <1>2, <1>3, <2>1, <2>2, SetAsideWrote
<1>4. ASSUME NEW h \in Handler, Hold(h) \/ Admit(h) PROVE queue'[n].at <= signals'[i].at
  <2>1. queue' = queue /\ job[h].pc = "route" /\ \E k : Wrote(k, Row(job[h]))
    BY <1>4, HoldIs, HoldWrote, AdmitSteps, AdmitWrote DEF Solo, outside
  <2>2. Row(job[h]).chan = "phone" => queue[n].at <= Row(job[h]).at
    BY <2>1, RowFields DEF FirstText, RoutesPhone, Timely
  <2> QED BY <1>2, <2>1, <2>2
<1>5. ASSUME NEW h \in Handler, Examines(h) \/ Delivers(h) PROVE signals' = signals
  BY <1>5, ExamineIs, DeliverIs DEF Examines, Delivers, stored
<1> QED BY <1>1, <1>3, <1>4, <1>5, StepSorts DEF Steady, SetsAside

LEMMA InitSInv == Init => SInv
<1> SUFFICES ASSUME Init PROVE SInv
  OBVIOUS
<1>1. Recorded = {} /\ Orders = {} /\ \A h \in Handler : ~RoutesPhone(h)
  BY NothingYet DEF RoutesPhone, Resting
<1> QED BY <1>1, InitBInv DEF SInv, FirstText, AfterShown, OrdersFirst, OneRow, PhoneRow

LEMMA NextSInv == SInv /\ [Next]_vars => SInv'
<1> SUFFICES ASSUME SInv, [Next]_vars PROVE SInv'
  OBVIOUS
<1>1. BInv /\ BInv' /\ Flow
  BY NextBInv, StepFlows DEF SInv
<1>2. ASSUME Single' PROVE FirstText' /\ AfterShown' /\ OrdersFirst' /\ (Live' => OneRow')
  <2>1. FirstText /\ AfterShown /\ OrdersFirst /\ (Live => OneRow)
    BY <1>1, <1>2, SingleBefore DEF SInv, Flow
  <2> QED BY <1>1, <1>2, <2>1, FirstTextStep, AfterShownStep, OrdersFirstStep, OneRowStep
<1> QED BY <1>1, <1>2 DEF SInv

-----------------------------------------------------------------------------
(* One message has one row.                                                  *)
LEMMA DirectRowIs ==
  ASSUME BInv, OneMessage, NEW i \in Id, DirectRow(i)
  PROVE  signals[i].msg = 1 /\ signals[i].rev = NoText /\ signals[i].text = posts[1]
<1>1. signals[i].msg \in DOMAIN posts /\ signals[i].text = posts[signals[i].msg]
  BY DEF BInv, DirectRow, RowHonest, Said
<1>2. DOMAIN posts = 1 .. Len(posts) /\ Len(posts) \in Nat
  BY DEF BInv, IInv, TypeOK
<1> QED BY <1>1, <1>2 DEF OneMessage, BInv, DirectRow, RowHonest, Revises

LEMMA RoutesDirectIs ==
  ASSUME BInv, OneMessage, NEW h \in Handler, job[h].pc = "route", job[h].chan = "direct"
  PROVE  job[h].msg = 1 /\ job[h].rev = NoText /\ job[h].text = posts[1]
<1>1. job[h].msg \in DOMAIN posts /\ job[h].text = posts[job[h].msg]
  BY DEF BInv, Placed, Busy, Said
<1>2. DOMAIN posts = 1 .. Len(posts) /\ Len(posts) \in Nat
  BY DEF BInv, IInv, TypeOK
<1> QED BY <1>1, <1>2 DEF OneMessage, BInv, Placed, Busy, Revises

LEMMA KnownDirect ==
  ASSUME BInv, OneMessage, NEW h \in Handler, job[h].pc = "route", job[h].chan = "direct",
         NEW k \in Id, DirectRow(k)
  PROVE  k \in Known(job[h])
  BY DirectRowIs, RoutesDirectIs DEF Known, DirectRow

LEMMA MessageBefore == ASSUME BInv, BInv', Grows, OneMessage' PROVE OneMessage
<1>1. /\ DOMAIN posts = 1 .. Len(posts) /\ Len(posts) \in Nat
      /\ DOMAIN posts' = 1 .. Len(posts') /\ Len(posts') \in Nat
  BY DEF BInv, IInv, TypeOK
<1> QED BY <1>1 DEF OneMessage, Grows

LEMMA InitPInv == Init => PInv
  BY NothingYet, InitBInv DEF PInv, DirectRow

LEMMA NextPInv == PInv /\ [Next]_vars => PInv'
<1> DEFINE One == \A i, k \in Id : DirectRow(i) /\ DirectRow(k) => i = k
<1> SUFFICES ASSUME PInv, [Next]_vars, OneMessage' PROVE One'
  BY NextBInv DEF PInv
<1>1. BInv /\ OneMessage /\ One
  BY NextBInv, StepFlows, MessageBefore DEF PInv, Flow
<1>2. CASE signals' = signals
  BY <1>1, <1>2, SameRows
<1>3. ASSUME NEW h \in Handler, NEW n, SetAside(h, n) PROVE One'
  <2>1. job'[h].chan = "phone"
    BY <1>1, <1>3, SetAsideIs
  <2>2. ASSUME NEW i \in NewId, Wrote(i, Row(job'[h])) PROVE One'
    BY <1>1, <2>1, <2>2, WroteRows, RowFields
  <2> QED BY <1>1, <1>2, <1>3, <2>2, SetAsideWrote
<1>4. ASSUME NEW h \in Handler, Hold(h) PROVE One'
  <2>1. PICK i \in NewId : Wrote(i, Row(job[h]))
    BY <1>1, <1>4, HoldWrote
  <2>2. job[h].chan = "direct" => \A k \in Id : ~DirectRow(k)
    BY <1>1, <1>4, HoldIs, KnownDirect
  <2> QED BY <1>1, <2>1, <2>2, WroteRows, RowFields
<1>5. ASSUME NEW h \in Handler, Admit(h) PROVE One'
  <2>1. Wrote(job'[h].id, Row(job[h])) /\ job[h].pc = "route"
    BY <1>1, <1>5, AdmitWrote, AdmitSteps
  <2>2. ASSUME job[h].chan = "direct", NEW k \in Id, DirectRow(k) PROVE k = job'[h].id
    <3>1. k \in Known(job[h])
      BY <1>1, <2>1, <2>2, KnownDirect
    <3>2. job'[h].id \in Known(job[h])
      BY <1>1, <1>5, <3>1, AdmitWrote, VerdictKnown DEF Earliest
    <3> QED BY <1>1, <2>1, <2>2, <3>2 DEF Known, DirectRow, Wrote
  <2> QED BY <1>1, <2>1, <2>2, WroteRows, RowFields
<1>6. ASSUME NEW h \in Handler, Examines(h) \/ Delivers(h) PROVE signals' = signals
  BY <1>1, <1>6, ExamineIs, DeliverIs DEF Examines, Delivers, stored
<1> QED BY <1>1, <1>2, <1>3, <1>4, <1>5, <1>6, StepSorts DEF Steady, SetsAside

-----------------------------------------------------------------------------
(* What is delivered or taken up for the first time is not known.            *)
LEMMA NothingKnown ==
  ASSUME FInv, NEW h \in Handler, job[h].pc = "route",
         IF job[h].chan = "phone" THEN Forward ELSE ~Repeats("direct")
  PROVE  Known(job[h]) = {}
<1> SUFFICES ASSUME NEW i \in Known(job[h]) PROVE FALSE
  OBVIOUS
<1>1. /\ i \in Recorded /\ signals[i].chan = job[h].chan /\ signals[i].msg = job[h].msg
      /\ signals[i].rev = job[h].rev
  BY DEF Known
<1>2. BInv /\ job[h] \in JobType
  BY JobIs DEF FInv, DInv, BInv
<1>3. CASE job[h].chan = "phone"
  <2>1. Differs(signals[i], job[h]) /\ (job[h].rev = NoText => signals[i].chan = "direct")
    BY <1>1, <1>3 DEF FInv, NewVersion
  <2>2. signals[i].text # job[h].text /\ job[h].rev # NoText
    BY <1>1, <1>3, <2>1 DEF Differs
  <2>3. Revises(signals[i]) /\ Revises(job[h])
    BY <1>1, <1>2 DEF BInv, RowHonest, Placed, Busy
  <2> QED BY <1>1, <2>2, <2>3 DEF Revises
<1>4. CASE job[h].chan # "phone"
  <2>1. EachOnce /\ job[h].chan = "direct"
    BY <1>2, <1>4 DEF FInv, DInv, JobType, Channel
  <2> QED BY <1>1, <2>1 DEF EachOnce, NewTo
<1> QED BY <1>3, <1>4

LEMMA OnceBefore == ASSUME BInv, BInv', Flow, Once' PROVE Once
<1>1. IInv /\ Grows
  BY DEF BInv, Flow
<1>2. Single' => Single
  BY <1>1, SingleBefore
<1> QED BY <1>1, <1>2, ForwardBefore DEF Once, Single, Flow, Repeats

LEMMA OpenBefore ==
  ASSUME BInv, Flow, env.may.crashes = 0, Open', [Next]_vars PROVE Open
<1>1. IInv /\ events = {}
  BY DEF Flow, Open, BInv
<1> SUFFICES ASSUME NEW g \in Handler, running = g, job[g].pc = "record", job[g].chan # "direct"
             PROVE  FALSE
  BY <1>1 DEF Open
<1> DEFINE Put == running' = g /\ job'[g].pc = "record" /\ job'[g].chan # "direct"
<1>2. ~Put
  BY DEF Open
<1>3. \A h \in Handler : running \in {h, Nobody} => h = g
  BY NobodyAssumption
<1>4. ASSUME UNCHANGED <<job, running>> PROVE Put
  BY <1>4
<1>5. ASSUME NEW h \in Handler, Upload(h) PROVE Put
  <2>1. h # g /\ running' = running /\ job'[g] = job[g]
    BY <1>1, <1>5 DEF Upload, IInv, TypeOK
  <2> QED BY <2>1
<1>6. ASSUME NEW h \in Handler, LoseReply(h) PROVE Put
  <2>1. running' = running /\ job'[g].pc = job[g].pc /\ job'[g].chan = job[g].chan
    BY <1>1, <1>6 DEF LoseReply, IInv, TypeOK, JobType
  <2> QED BY <2>1
<1>7. ~Crash
  <2>1. env.did.crashes \in Nat
    BY <1>1 DEF IInv, TypeOK, Count
  <2> QED BY <2>1 DEF Crash, CanSpend
<1>8. ASSUME NEW h \in Handler, Work(h) PROVE FALSE
  <2>1. ~Record(h)
    BY DEF Record, Open
  <2>2. ~Advance(h)
    BY <1>3 DEF Advance, Turn
  <2> QED
    BY <1>3, <1>8, <2>1, <2>2 DEF Work, Reply, Hold, Replay, Admit, Place, Decline, Yield,
       Answer, Retry,
       SetAside, Examine, Takes, Turn
<1>9. ASSUME NEW h \in Handler, Fail(h) PROVE FALSE
  BY <1>3, <1>9 DEF Fail
<1>10. ASSUME NEW h \in Handler, NEW c \in Collector, NEW m \in DOMAIN posts, Deliver(h, c, m)
       PROVE  FALSE
  BY <1>3, <1>10 DEF Deliver, Turn
<1> QED
  BY <1>2, <1>4, <1>5, <1>6, <1>7, <1>8, <1>9, <1>10 DEF Next, Capture, Post, Tick, vars

LEMMA MatchedStays == ASSUME Grows, NEW x, Matched(x) PROVE Matched(x)'
  BY DEF Grows, Matched

LEMMA RoutesOpen ==
  ASSUME BInv, FirstText, NEW h \in Handler, RoutesPhone(h) PROVE Open
  BY RoutesPhoneIs, NobodyAssumption DEF Open, FirstText, RoutesPhone

(* Two channels that say the same price.                                     *)
LEMMA MatchedBy ==
  ASSUME BInv, NEW h \in Handler, job[h].pc = "route", NEW i \in Recorded,
         signals[i].chan # job[h].chan, Price[signals[i].text] = Price[job[h].text]
  PROVE  Matched(job[h].text)
<1>1. /\ Said(signals[i]) /\ Said(job[h])
      /\ signals[i].chan \in Channel /\ job[h].chan \in Channel
  BY JobIs, RowIs DEF BInv, RowHonest, Placed, Busy, JobType, RowType
<1>2. CASE job[h].chan = "phone"
  BY <1>1, <1>2 DEF Said, Shown, Channel, Matched
<1>3. CASE job[h].chan = "direct"
  BY <1>1, <1>3 DEF Said, Shown, Channel, Matched
<1> QED BY <1>1, <1>2, <1>3 DEF Channel

LEMMA AdmitMatched ==
  ASSUME NInv, Once, env.may.policy = "REQUIRE_MATCHING_SOURCES", NEW h \in Handler, Admit(h)
  PROVE  Matched(job[h].text)
<1> DEFINE i == job'[h].id
<1>1. BInv /\ job[h].pc = "route" /\ job[h].chan \in Channel /\ FInv /\ SInv /\ Corroborated
  BY AdmitSteps, JobIs DEF NInv, SInv, BInv, JobType
<1>2. PICK v \in Verdicts(job[h]) : v.go /\ i \in v.ids
  BY <1>1, AdmitWrote
<1>3. CASE i \in Known(job[h])
  <2>1. job[h].chan = "phone" /\ Single
    BY <1>1, <1>3, NothingKnown DEF Once, Channel, Single
  <2>2. RoutesPhone(h) /\ PhoneRow(i)
    BY <1>1, <1>3, <2>1 DEF RoutesPhone, Known, PhoneRow
  <2>3. FirstText
    BY <1>1, <2>1 DEF SInv
  <2>4. Open /\ i \in Id
    BY <1>1, <2>2, <2>3, RoutesOpen DEF PhoneRow, Recorded
  <2>5. Matched(signals[i].text) /\ Shown(signals[i].text) /\ Shown(job[h].text)
    BY <1>1, <2>1, <2>2, <2>4, PhoneRowIs, RoutesPhoneIs DEF Corroborated
  <2>6. signals[i].text = job[h].text
    BY <1>1, <2>1, <2>5, OneText DEF Shown
  <2> QED BY <2>5, <2>6
<1>4. CASE i \in Earliest(Comparable(job[h])) /\ Agrees(job[h], i)
  BY <1>1, <1>4, MatchedBy DEF Earliest, Comparable, Agrees
<1> QED BY <1>2, <1>3, <1>4, AdmitsOne DEF Earliest

LEMMA InitNInv == Init => NInv
<1> SUFFICES ASSUME Init PROVE Corroborated
  BY InitSInv, InitFInv DEF NInv
<1> QED BY NothingYet DEF Corroborated, PhoneRow

LEMMA CorroboratedStep ==
  ASSUME NInv, BInv', Once, Corroborated, env.may.policy = "REQUIRE_MATCHING_SOURCES",
         [Next]_vars
  PROVE  Corroborated'
<1>1. BInv /\ IInv /\ Flow /\ Grows
  BY StepFlows DEF NInv, SInv, BInv, Flow
<1>2. ASSUME \A i \in Id : PhoneRow(i)' => PhoneRow(i) /\ signals'[i] = signals[i],
             Orders' \subseteq Orders
      PROVE  Corroborated'
  <2>1. ASSUME NEW a \in Orders' PROVE Matched(a.text)'
    BY <1>1, <1>2, <2>1, MatchedStays DEF Corroborated
  <2>2. ASSUME Single', Open', NEW i \in Id, PhoneRow(i)' PROVE Matched(signals[i].text)'
    <3>1. Single /\ Open
      BY <1>1, <2>2, SingleBefore, OpenBefore DEF Once
    <3>2. Matched(signals[i].text) /\ signals'[i].text = signals[i].text
      BY <1>2, <2>2, <3>1 DEF Corroborated
    <3>3. \A x : x = signals[i].text => Matched(x)'
      BY <1>1, <3>2, MatchedStays
    <3> QED BY <3>2, <3>3
  <2> QED BY <2>1, <2>2 DEF Corroborated
<1>3. ASSUME ~Open', Orders' \subseteq Orders PROVE Corroborated'
  <2>1. ASSUME NEW a \in Orders' PROVE Matched(a.text)'
    BY <1>1, <1>3, <2>1, MatchedStays DEF Corroborated
  <2> QED BY <1>3, <2>1 DEF Corroborated
<1>4. CASE signals' = signals /\ Orders' \subseteq Orders
  BY <1>2, <1>4, SameRows
<1>5. ASSUME NEW h \in Handler, NEW n, SetAside(h, n) PROVE Corroborated'
  <2>1. /\ running' = h /\ job'[h].pc = "record" /\ job'[h].chan = "phone"
        /\ Orders' \subseteq Orders
    BY <1>1, <1>5, SetAsideIs DEF Solo
  <2> QED BY <1>3, <2>1 DEF Open
<1>6. ASSUME NEW h \in Handler, Hold(h) PROVE Corroborated'
  <2>1. /\ running' = h /\ job'[h].pc = "record" /\ job'[h].chan = job[h].chan
        /\ Orders' \subseteq Orders
    BY <1>1, <1>6, HoldIs DEF Solo, Carries
  <2>2. CASE job[h].chan = "direct"
    <3>1. PICK i \in NewId : Wrote(i, Row(job[h]))
      BY <1>1, <1>6, HoldWrote
    <3>2. \A k \in Id : PhoneRow(k)' => PhoneRow(k) /\ signals'[k] = signals[k]
      BY <2>2, <3>1, WroteRows, RowFields DEF PhoneRow, Wrote
    <3> QED BY <1>2, <2>1, <3>2
  <2> QED BY <1>3, <2>1, <2>2 DEF Open
<1>7. ASSUME NEW h \in Handler, Admit(h) PROVE Corroborated'
  <2>0. PICK i \in Id : i = job'[h].id
    BY <1>1, <1>7, AdmitSteps
  <2>1. /\ Wrote(i, Row(job[h])) /\ UNCHANGED <<events, env, queue>>
        /\ \A a \in Orders' : a \in Orders \/ a = Order(job'[h])
        /\ Order(job'[h]).text = job[h].text
    BY <1>1, <1>7, <2>0, AdmitWrote, AdmitSteps, OrderFields DEF outside
  <2>2. \A x : x = job[h].text => Matched(x)'
    BY <1>1, <1>7, AdmitMatched, MatchedStays
  <2>3. ASSUME NEW a \in Orders' PROVE Matched(a.text)'
    <3>1. CASE a \in Orders
      BY <1>1, <3>1, MatchedStays DEF Corroborated
    <3>2. CASE a = Order(job'[h])
      BY <2>1, <2>2, <3>2
    <3> QED BY <2>1, <3>1, <3>2
  <2>4. ASSUME Single', Open', NEW k \in Id, PhoneRow(k)' PROVE Matched(signals[k].text)'
    <3>1. Single /\ Open
      BY <1>1, <2>4, SingleBefore, OpenBefore DEF Once
    <3>2. CASE k = i
      BY <2>1, <2>2, <3>2, RowFields DEF Wrote
    <3>3. CASE k # i
      <4>1. PhoneRow(k) /\ signals'[k] = signals[k]
        BY <2>1, <2>4, <3>3, WroteRows DEF Wrote
      <4>2. \A x : x = signals[k].text => Matched(x)'
        BY <1>1, <3>1, <4>1, MatchedStays DEF Corroborated
      <4> QED BY <4>1, <4>2
    <3> QED BY <3>2, <3>3
  <2> QED BY <2>3, <2>4 DEF Corroborated
<1>8. ASSUME NEW h \in Handler, Examines(h) \/ Delivers(h)
      PROVE  signals' = signals /\ Orders' \subseteq Orders
  BY <1>1, <1>8, ExamineIs, DeliverIs DEF Examines, Delivers, stored
<1> QED BY <1>1, <1>4, <1>5, <1>6, <1>7, <1>8, StepSorts DEF Steady, SetsAside

LEMMA NextNInv == NInv /\ [Next]_vars => NInv'
<1> SUFFICES ASSUME NInv, [Next]_vars PROVE NInv'
  OBVIOUS
<1>1. SInv' /\ FInv' /\ BInv /\ BInv' /\ Flow
  BY NextSInv, NextFInv, StepFlows DEF NInv, SInv
<1>2. ASSUME Once', env'.may.policy = "REQUIRE_MATCHING_SOURCES" PROVE Corroborated'
  <2>1. Once /\ env.may.policy = "REQUIRE_MATCHING_SOURCES"
    BY <1>1, <1>2, OnceBefore DEF Flow
  <2> QED BY <1>1, <2>1, CorroboratedStep DEF NInv
<1> QED BY <1>1, <1>2 DEF NInv

\* Under REQUIRE_MATCHING_SOURCES classify_candidate lets nothing through on one
\* source: the price of every order was said by the phone and by the channel,
\* where nothing that was held is delivered again.
THEOREM NothingTradedAlone == Spec => []NeverAlone
<1>1. NInv => NeverAlone
  BY DEF NInv, NeverAlone, Corroborated, Orders, Matched
<1> QED BY <1>1, InitNInv, NextNInv, PTL DEF Spec

-----------------------------------------------------------------------------
(* Each version and each message ordered once.                               *)
LEMMA SameIdsStep ==
  ASSUME FInv, Forward, ~Repeats("direct"), SameIds, [Next]_vars PROVE SameIds'
<1>1. BInv /\ NewVersion /\ EachOnce
  BY DEF FInv, DInv
<1>2. CASE Orders' \subseteq Orders
  BY <1>2 DEF SameIds
<1>3. ASSUME NEW h \in Handler, Admit(h) PROVE SameIds'
  <2>1. /\ job[h].pc = "route" /\ \A a \in Orders' : a \in Orders \/ a = Order(job'[h])
        /\ Order(job'[h]).chan = job[h].chan /\ Order(job'[h]).msg = job[h].msg
        /\ Order(job'[h]).text = job[h].text /\ job[h].chan \in Channel
    BY <1>1, <1>3, AdmitSteps, OrderFields, JobIs DEF BInv, JobType
  <2>2. ASSUME NEW a \in Orders
        PROVE  ~(a.chan = job[h].chan /\ a.msg = job[h].msg /\ a.text = job[h].text)
    <3>1. NewTo(a, job[h]) /\ Differs(a, job[h])
      BY <1>1, <2>1 DEF NewVersion, EachOnce
    <3> QED BY <2>1, <3>1 DEF NewTo, Differs, Channel
  <2> QED BY <2>1, <2>2 DEF SameIds
<1>4. ASSUME NEW h \in Handler, Examines(h) \/ SetsAside(h) \/ Delivers(h) \/ Hold(h)
      PROVE  Orders' \subseteq Orders
  BY <1>1, <1>4, ExamineIs, SetAsideIs, DeliverIs, HoldIs DEF Examines, SetsAside, Delivers
<1> QED BY <1>1, <1>2, <1>3, <1>4, StepSorts DEF Steady

(* No phone: the row of a message is found by it.                            *)
LEMMA AllDirect ==
  ASSUME BInv, queue = <<>>
  PROVE  /\ \A i \in Recorded : signals[i].chan = "direct" /\ signals[i].rev = NoText
         /\ \A h \in Handler : job[h].pc = "route" =>
              job[h].chan = "direct" /\ job[h].rev = NoText
<1>1. \A x : ~Shown(x)
  BY DEF Shown
<1>2. ASSUME NEW i \in Recorded PROVE signals[i].chan = "direct" /\ signals[i].rev = NoText
  BY <1>1 DEF BInv, RowHonest, Said, Revises
<1>3. ASSUME NEW h \in Handler, job[h].pc = "route"
      PROVE  job[h].chan = "direct" /\ job[h].rev = NoText
  BY <1>1, <1>3 DEF BInv, Placed, Busy, Said, Revises
<1> QED BY <1>2, <1>3

LEMMA PerMessageStep ==
  ASSUME BInv, queue = <<>>, PerMessage, [Next]_vars PROVE PerMessage'
<1>1. CASE signals' = signals /\ Orders' \subseteq Orders
  BY <1>1, SameRows DEF PerMessage
<1>2. ASSUME NEW h \in Handler, job[h].pc = "route"
      PROVE  /\ \A k \in Recorded : signals[k].msg = job[h].msg <=> k \in Known(job[h])
             /\ Comparable(job[h]) = {}
  BY <1>2, AllDirect DEF Known, Comparable
<1>3. ASSUME NEW h \in Handler, Hold(h) PROVE PerMessage'
  <2>1. PICK i \in NewId : Wrote(i, Row(job[h]))
    BY <1>3, HoldWrote
  <2>2. /\ job[h].pc = "route" /\ Known(job[h]) = {} /\ Orders' \subseteq Orders
        /\ i \notin Recorded
    BY <1>3, <2>1, HoldIs, NewIdIs
  <2>3. \A k \in Recorded : k # i /\ signals'[k] = signals[k] /\ signals[k].msg # signals'[i].msg
    BY <1>2, <2>1, <2>2, WroteRows, RowFields DEF Wrote
  <2>4. \A j, k \in Recorded' : signals'[j].msg = signals'[k].msg => j = k
    BY <2>1, <2>3 DEF PerMessage, Wrote
  <2>5. \A a \in Orders' : signals'[a.id].msg = a.msg
    BY <2>2, <2>3, OrderRow DEF PerMessage
  <2> QED BY <2>4, <2>5 DEF PerMessage
<1>4. ASSUME NEW h \in Handler, Admit(h) PROVE PerMessage'
  <2>0. PICK i \in Id : i = job'[h].id
    BY <1>4, AdmitSteps
  <2>1. /\ Wrote(i, Row(job[h])) /\ job[h].pc = "route"
        /\ \A a \in Orders' : a \in Orders \/ a = Order(job'[h])
        /\ Order(job'[h]).msg = job[h].msg /\ Order(job'[h]).id = i
    BY <1>4, <2>0, AdmitWrote, AdmitSteps, OrderFields
  <2>2. PICK v \in Verdicts(job[h]) : v.go /\ i \in v.ids
    BY <1>4, <2>0, AdmitWrote
  <2>3. signals'[i].msg = job[h].msg
    BY <2>1, RowFields DEF Wrote
  <2>4. \/ i \in Known(job[h])
        \/ i \notin Recorded /\ Known(job[h]) = {}
    BY <1>2, <2>1, <2>2, AdmitsOne, NewIdIs DEF Earliest
  <2>5. \A k \in Recorded \ {i} : signals'[k] = signals[k] /\ signals[k].msg # job[h].msg
    <3>1. CASE i \in Known(job[h])
      BY <1>2, <2>1, <3>1, WroteRows DEF PerMessage, Known
    <3>2. CASE Known(job[h]) = {}
      BY <1>2, <2>1, <3>2, WroteRows
    <3> QED BY <2>4, <3>1, <3>2
  <2>6. \A j, k \in Recorded' : signals'[j].msg = signals'[k].msg => j = k
    BY <2>1, <2>3, <2>5 DEF PerMessage, Wrote
  <2>7. ASSUME NEW a \in Orders' PROVE signals'[a.id].msg = a.msg
    <3>1. CASE a = Order(job'[h])
      BY <2>1, <2>3, <3>1
    <3>2. CASE a \in Orders /\ a.id # i
      BY <2>5, <3>2, OrderRow DEF PerMessage
    <3>3. CASE a \in Orders /\ a.id = i
      <4>1. i \in Recorded /\ signals[i].msg = a.msg
        BY <3>3, OrderRow DEF PerMessage
      <4> QED BY <2>3, <2>4, <3>3, <4>1 DEF Known
    <3> QED BY <2>1, <3>1, <3>2, <3>3
  <2> QED BY <2>6, <2>7 DEF PerMessage
<1>5. ASSUME NEW h \in Handler, Examines(h) \/ SetsAside(h) PROVE FALSE
  <2>1. job[h].left # {}
    BY <1>5 DEF Examines, SetsAside
  <2>2. job[h].left \subseteq {}
    BY DEF BInv, IInv, JobTyped
  <2> QED BY <2>1, <2>2
<1>6. ASSUME NEW h \in Handler, Delivers(h) PROVE signals' = signals /\ Orders' \subseteq Orders
  BY <1>6, DeliverIs DEF Delivers, stored
<1> QED BY <1>1, <1>3, <1>4, <1>5, <1>6, StepSorts DEF Steady

(* One of each.                                                              *)
LEMMA OrderSaid ==
  ASSUME BInv, Single, OneMessage, NEW h \in Handler, job[h].pc = "route"
  PROVE  /\ \A a \in Orders : a.chan = job[h].chan => a.text = job[h].text /\ a.msg = job[h].msg
         /\ \A i \in Recorded : signals[i].chan = job[h].chan =>
              signals[i].text = job[h].text /\ signals[i].msg = job[h].msg
<1>1. \A x, y : Shown(x) /\ Shown(y) => x = y
  BY OneText DEF Shown
<1>2. \A m, n \in DOMAIN posts : m = n
  <2>1. DOMAIN posts = 1 .. Len(posts) /\ Len(posts) \in Nat
    BY DEF BInv, IInv, TypeOK
  <2> QED BY <2>1 DEF OneMessage
<1>3. Said(job[h]) /\ (\A a \in Orders : Said(a)) /\ \A i \in Recorded : Said(signals[i])
  BY DEF BInv, Placed, Busy, OrderKept, RowHonest
<1> QED BY <1>1, <1>2, <1>3 DEF Said

\* What is known of each side when there is one of each.
Sides ==
  /\ BInv /\ Single /\ OneMessage /\ FirstText /\ OrdersFirst /\ (Live => OneRow)
  /\ \A i, k \in Id : DirectRow(i) /\ DirectRow(k) => i = k

LEMMA OwnRows ==
  ASSUME Sides, NEW h \in Handler, job[h].pc = "route", NEW i \in Recorded, NEW k \in Recorded,
         signals[i].chan = job[h].chan, signals[k].chan = job[h].chan
  PROVE  i = k /\ i \in Known(job[h])
<1>1. BInv /\ i \in Id /\ k \in Id /\ job[h] \in JobType
  BY JobIs DEF Sides, BInv, Recorded
<1>2. CASE job[h].chan = "phone"
  <2>1. RoutesPhone(h) /\ PhoneRow(i) /\ PhoneRow(k)
    BY <1>2 DEF RoutesPhone, PhoneRow
  <2> QED BY <1>1, <2>1, RoutesLive, KnownPhone DEF Sides, OneRow
<1>3. CASE job[h].chan = "direct"
  <2>1. DirectRow(i) /\ DirectRow(k)
    BY <1>3 DEF DirectRow
  <2> QED BY <1>1, <1>3, <2>1, KnownDirect DEF Sides
<1> QED BY <1>1, <1>2, <1>3 DEF JobType, Channel

\* The other channel's first row is the one that has an order.
LEMMA OtherFirst ==
  ASSUME Sides, NEW j, j.chan \in Channel, NEW a \in Orders, a.id \in Comparable(j)
  PROVE  \A k \in Earliest(Comparable(j)) : k = a.id
<1> SUFFICES ASSUME NEW k \in Earliest(Comparable(j)), k # a.id PROVE FALSE
  OBVIOUS
<1>1. /\ BInv /\ k \in Recorded /\ a.id \in Recorded /\ k \in Id /\ a.id \in Id
      /\ signals[k].at <= signals[a.id].at
      /\ signals[k].chan # j.chan /\ signals[a.id].chan # j.chan
      /\ signals[k].chan \in Channel /\ signals[a.id].chan \in Channel
      /\ signals[k].at \in Nat /\ signals[a.id].at \in Nat
  BY RowIs DEF Earliest, Comparable, Recorded, Sides, BInv, RowType
<1>2. CASE signals[k].chan = "phone" /\ signals[a.id].chan = "phone"
  <2>1. signals[a.id].at < signals[k].at
    BY <1>1, <1>2 DEF Sides, OrdersFirst, PhoneRow
  <2> QED BY <1>1, <2>1
<1>3. CASE signals[k].chan = "direct" /\ signals[a.id].chan = "direct"
  BY <1>1, <1>3 DEF Sides, DirectRow
<1>4. CASE signals[k].chan # signals[a.id].chan
  <2>1. j.chan \notin Channel
    BY <1>1, <1>4 DEF Channel
  <2> QED BY <1>1, <2>1
<1> QED BY <1>1, <1>2, <1>3, <1>4 DEF Channel

\* Its channel's order is at hand: the verdict is that order's id.
LEMMA SameVerdict ==
  ASSUME Sides, NEW h \in Handler, job[h].pc = "route", NEW a \in Orders,
         a.chan = job[h].chan, job[h].at <= a.at + env.may.window,
         signals[a.id].chan = a.chan \/ Joined(a), NEW v \in Verdicts(job[h])
  PROVE  v.go /\ v.ids \subseteq {a.id}
<1>0. BInv /\ IInv /\ job[h].chan \in Channel /\ job[h].at \in Nat /\ env.may.window \in Nat
  BY JobIs, SettingTyped DEF Sides, BInv, JobType, SettingType
<1>1. a.id \in Recorded /\ a.at \in Nat /\ signals[a.id].at \in Nat /\ a.at <= signals[a.id].at
  BY <1>0, OrderRow
<1>2. \A k \in Recorded : signals[k].at <= job[h].at /\ signals[k].at \in Nat
  BY <1>0, RowIs DEF BInv, Placed
<1>3. CASE signals[a.id].chan = a.chan
  <2>1. a.id \in Known(job[h])
    BY <1>0, <1>1, <1>3, OwnRows
  <2>2. \A k \in Known(job[h]) : k = a.id
    BY <1>1, <1>3, OwnRows DEF Known
  <2>3. v.go /\ v.ids = Earliest(Known(job[h]))
    BY <2>1, VerdictKnown
  <2> QED BY <2>2, <2>3 DEF Earliest
<1>4. CASE signals[a.id].chan # a.chan /\ Joined(a)
  <2>1. Known(job[h]) = {}
    <3> SUFFICES ASSUME NEW k \in Known(job[h]) PROVE FALSE
      OBVIOUS
    <3>1. k \in Recorded /\ signals[k].chan = a.chan
      BY DEF Known
    <3>2. a.at + env.may.window < signals[k].at
      BY <1>4, <3>1 DEF Joined
    <3> QED BY <1>0, <1>1, <1>2, <3>1, <3>2
  <2>2. Agrees(job[h], a.id) /\ Price[job[h].text] # 0
    BY <1>0, <1>4, OrderSaid DEF Joined, Agrees, Sides
  <2>3. a.id \in Comparable(job[h])
    <3>1. Near(signals[a.id].at, job[h].at)
      BY <1>0, <1>1, <1>2 DEF Near
    <3> QED BY <1>1, <1>4, <2>2, <3>1 DEF Comparable, Agrees
  <2>4. PICK k \in Earliest(Comparable(job[h])) : Follows(job[h], v, k)
    BY <2>1, <2>3, VerdictNew
  <2>5. k = a.id
    BY <1>0, <2>3, OtherFirst
  <2> QED BY <2>2, <2>4, <2>5 DEF Follows
<1> QED BY <1>3, <1>4

\* An exempt channel's one text is at hand for the first time.
LEMMA ExemptOnce ==
  ASSUME FInv, Brief, NEW h \in Handler, job[h].pc = "route", Exempt(job[h].chan),
         NEW a \in Orders
  PROVE  a.chan # job[h].chan
<1> SUFFICES ASSUME a.chan = job[h].chan PROVE FALSE
  OBVIOUS
<1>1. BInv /\ job[h].chan \in Channel /\ ~Repeats(job[h].chan)
  BY JobIs DEF FInv, DInv, BInv, Brief, Exempt, JobType
<1>2. a.text = job[h].text /\ a.msg = job[h].msg
  BY <1>1, OrderSaid DEF Brief
<1>3. CASE job[h].chan = "phone"
  <2>1. NoReturn
    <3>1. DOMAIN queue = 1 .. Len(queue) /\ Len(queue) \in Nat /\ Len(queue) <= 1
      BY <1>1 DEF BInv, IInv, TypeOK, Brief, Single
    <3> QED BY <3>1 DEF NoReturn
  <2>2. Differs(a, job[h])
    BY <1>1, <1>3, <2>1 DEF FInv, Forward, NewVersion
  <2> QED BY <1>2, <1>3, <2>2 DEF Differs
<1>4. CASE job[h].chan = "direct"
  <2>1. NewTo(a, job[h])
    BY <1>1, <1>4 DEF FInv, DInv, EachOnce
  <2> QED BY <1>2, <1>4, <2>1 DEF NewTo
<1> QED BY <1>1, <1>3, <1>4 DEF Channel

LEMMA NewOrderNamed ==
  ASSUME FInv, Sides, Brief, Identified, NEW h \in Handler, Admit(h),
         NEW a \in Orders, a.chan = job[h].chan, job[h].at <= a.at + env.may.window
  PROVE  job'[h].id = a.id
<1>1. BInv /\ job[h].pc = "route"
  BY AdmitSteps DEF Sides
<1>2. ~Exempt(a.chan)
  BY <1>1, ExemptOnce
<1>3. a.chan = "phone" => Live
  BY <1>1, RoutesLive DEF Sides, RoutesPhone
<1>4. signals[a.id].chan = a.chan \/ Joined(a)
  BY <1>2, <1>3 DEF Identified
<1>5. PICK v \in Verdicts(job[h]) : job'[h].id \in v.ids
  BY <1>1, AdmitWrote
<1> QED BY <1>1, <1>4, <1>5, SameVerdict

Kept(a) == signals[a.id].chan = a.chan \/ Joined(a)

\* Its row and the rows of its channel stay as they are, or come later.
LEMMA KeptStays ==
  ASSUME BInv, Flow, NEW a \in Orders, Kept(a), signals'[a.id] = signals[a.id],
         \A k \in Recorded' : signals'[k].chan = a.chan =>
           \/ k \in Recorded /\ signals'[k] = signals[k]
           \/ a.at + env.may.window < signals'[k].at
           \/ signals[a.id].chan = a.chan
  PROVE  Kept(a)'
<1>1. CASE signals[a.id].chan = a.chan
  BY <1>1 DEF Kept
<1>2. CASE signals[a.id].chan # a.chan /\ Joined(a)
  BY <1>2 DEF Kept, Joined, Flow
<1> QED BY <1>1, <1>2 DEF Kept

LEMMA AsideNotLive ==
  ASSUME BInv, NEW h \in Handler, NEW n, SetAside(h, n) PROVE ~Live'
<1>1. /\ n \in DOMAIN queue /\ UNCHANGED <<queue, clock, env>> /\ ~Routable(n)
      /\ \A g \in Handler : job'[g].pc # "route"
  BY SetAsideIs DEF TurnsTo, Solo, outside
<1> QED BY <1>1 DEF Live, RoutesPhone, Routable

\* An order whose row another channel's admission takes over has been joined.
LEMMA TakenOver ==
  ASSUME FInv, Sides, Brief, Identified, Flow, NEW h \in Handler, Admit(h),
         NEW a \in Orders, a.id = job'[h].id, a.chan # job[h].chan,
         ~Exempt(a.chan), a.chan = "phone" => Live
  PROVE  Kept(a)'
<1> DEFINE j == job[h]
<1>0. PICK i \in Id : i = job'[h].id
  BY AdmitSteps DEF Sides
<1>1. /\ BInv /\ j.pc = "route" /\ Wrote(i, Row(j)) /\ a.id = i /\ i \in Recorded
      /\ j.chan \in Channel /\ a.chan \in Channel /\ signals[i].chan \in Channel
  BY <1>0, AdmitSteps, AdmitWrote, JobIs, OrderIs, OrderRow, RowIs
     DEF Sides, BInv, JobType, TradeType, RowType
<1>2. PICK v \in Verdicts(j) : v.go /\ i \in v.ids
  BY <1>0, <1>1, AdmitWrote
<1>3. Kept(a)
  BY DEF Identified, Kept
<1>4. signals'[i].text = j.text /\ signals'[i].chan = j.chan
  BY <1>1, RowFields DEF Wrote
<1>5. \A k \in Recorded' : signals'[k].chan = a.chan =>
        k \in Recorded \ {i} /\ signals'[k] = signals[k]
  BY <1>1, <1>4, WroteRows DEF Wrote
<1>6. CASE i \in Known(j)
  <2>1. signals[i].chan = j.chan /\ signals[i].text = j.text
    BY <1>1, <1>6, OrderSaid DEF Known, Sides
  <2>2. Joined(a)
    BY <1>1, <1>3, <2>1 DEF Kept
  <2> QED BY <1>1, <1>4, <1>5, <2>1, <2>2 DEF Kept, Joined, Flow
<1>7. CASE i \in Earliest(Comparable(j)) /\ Agrees(j, i) /\ Price[j.text] # 0
  <2>1. signals[i].chan = a.chan
    BY <1>1, <1>7 DEF Earliest, Comparable, Channel
  <2>2. signals[i].text = a.text
    <3>1. Said(signals[i]) /\ Said(a)
      BY <1>1 DEF BInv, RowHonest, OrderKept
    <3>2. CASE a.chan = "phone"
      BY <1>1, <2>1, <3>1, <3>2, OneText DEF Said, Sides, Shown
    <3>3. CASE a.chan = "direct"
      <4>1. DOMAIN posts = 1 .. Len(posts) /\ Len(posts) \in Nat /\ Len(posts) <= 1
        BY <1>1 DEF BInv, IInv, TypeOK, Sides, OneMessage
      <4> QED BY <1>1, <2>1, <3>1, <3>3, <4>1 DEF Said
    <3> QED BY <1>1, <3>2, <3>3 DEF Channel
  <2>3. \A k \in Recorded \ {i} : signals[k].chan # a.chan
    <3>1. CASE a.chan = "phone"
      BY <1>1, <2>1, <3>1 DEF Sides, OneRow, PhoneRow, Recorded
    <3>2. CASE a.chan = "direct"
      BY <1>1, <2>1, <3>2 DEF Sides, DirectRow, Recorded
    <3> QED BY <1>1, <3>1, <3>2 DEF Channel
  <2> QED BY <1>1, <1>4, <1>5, <1>7, <2>2, <2>3 DEF Kept, Joined, Agrees
<1>8. CASE env.may.policy = "REQUIRE_PRIMARY_SOURCE" /\ signals[i].chan = env.may.primary
           /\ i \in Earliest(Comparable(j))
  BY <1>1, <1>8 DEF Exempt, Earliest, Comparable, Channel
<1> QED BY <1>1, <1>2, <1>6, <1>7, <1>8, AdmitsOne, NewIdIs DEF Earliest

LEMMA IdentifiedStep ==
  ASSUME FInv, Sides, Brief, Identified, BInv', Flow, Single', [Next]_vars PROVE Identified'
<1>0. BInv /\ IInv /\ env'.may = env.may /\ (Live' => Live)
  BY LiveBefore DEF Sides, BInv, Flow
<1> DEFINE Must(a) == ~Exempt(a.chan) /\ (a.chan = "phone" => Live)
<1>m. ASSUME NEW a, Must(a)' PROVE Must(a)
  BY <1>0, <1>m DEF Exempt
<1>1. CASE signals' = signals /\ Orders' \subseteq Orders
  <2>1. ASSUME NEW a \in Orders', Must(a)' PROVE Kept(a)'
    BY <1>0, <1>1, <1>m, <2>1, SameRows, KeptStays DEF Identified, Kept
  <2>2. \A a, b \in Orders' : a.chan = b.chan /\ Near(a.at, b.at)' => a.id = b.id
    BY <1>0, <1>1 DEF Identified, Near
  <2> QED BY <2>1, <2>2 DEF Identified, Kept
<1>2. ASSUME Orders' \subseteq Orders,
             \A a \in Orders : Must(a)' => Kept(a)'
      PROVE  Identified'
  BY <1>0, <1>2 DEF Identified, Kept, Near
<1>3. ASSUME NEW h \in Handler, NEW n, SetAside(h, n) PROVE Identified'
  <2>1. ~Live' /\ Orders' \subseteq Orders /\ job'[h].chan = "phone"
    BY <1>0, <1>3, AsideNotLive, SetAsideIs
  <2>2. ASSUME NEW i \in NewId, Wrote(i, Row(job'[h])), NEW a \in Orders, Must(a)'
        PROVE  Kept(a)'
    <3>1. a.chan = "direct" /\ Kept(a)
      BY <1>0, <1>m, <2>1, <2>2, OrderIs DEF TradeType, Channel, Identified, Kept
    <3>2. a.id # i /\ signals'[a.id] = signals[a.id]
      BY <1>0, <2>2, OrderRow, NewIdIs DEF Wrote
    <3>3. \A k \in Recorded' : signals'[k].chan = "direct" => k \in Recorded /\ signals'[k] = signals[k]
      BY <2>1, <2>2, RowFields DEF Wrote, Recorded
    <3> QED BY <1>0, <3>1, <3>2, <3>3, KeptStays
  <2> QED BY <1>0, <1>1, <1>2, <1>3, <2>1, <2>2, SetAsideWrote
<1>4. ASSUME NEW h \in Handler, NEW i, Hold(h) \/ Admit(h), Wrote(i, Row(job[h])),
             NEW a \in Orders, a.id # i, Must(a),
             a.chan = job[h].chan => signals[a.id].chan = a.chan
                                     \/ a.at + env.may.window < job[h].at
      PROVE  Kept(a)'
  <2>1. Kept(a) /\ signals'[a.id] = signals[a.id] /\ job[h].chan = signals'[i].chan
        /\ signals'[i].at = job[h].at
    BY <1>0, <1>4, OrderRow, RowFields DEF Identified, Kept, Wrote
  <2>2. \A k \in Recorded' : k = i \/ (k \in Recorded /\ signals'[k] = signals[k])
    BY <1>4 DEF Wrote, Recorded
  <2> QED BY <1>0, <1>4, <2>1, <2>2, KeptStays
<1>5. ASSUME NEW h \in Handler, Hold(h) PROVE Identified'
  <2>1. PICK i \in NewId : Wrote(i, Row(job[h]))
    BY <1>0, <1>5, HoldWrote
  <2>2. /\ job[h].pc = "route" /\ job[h].at \in Nat /\ env.may.window \in Nat
        /\ Orders' \subseteq Orders
    BY <1>0, <1>5, HoldIs, JobIs, SettingTyped DEF JobType, SettingType
  <2>3. PICK v \in Verdicts(job[h]) : ~v.go
    BY <1>0, <1>5, HoldIs
  <2>4. ASSUME NEW a \in Orders, Must(a)' PROVE Kept(a)'
    <3>1. Must(a) /\ a.at \in Nat /\ a.id # i
      BY <1>0, <1>m, <2>1, <2>4, OrderRow, NewIdIs
    <3>2. Kept(a)
      BY <3>1 DEF Identified, Kept
    <3>3. a.chan = job[h].chan => ~(job[h].at <= a.at + env.may.window)
      BY <2>2, <2>3, <3>2, SameVerdict DEF Kept
    <3>4. a.chan = job[h].chan => a.at + env.may.window < job[h].at
      BY <2>2, <3>1, <3>3
    <3> QED BY <1>4, <1>5, <2>1, <3>1, <3>4
  <2> QED BY <1>2, <2>2, <2>4
<1>6. ASSUME NEW h \in Handler, Admit(h) PROVE Identified'
  <2>0. PICK i \in Id : i = job'[h].id
    BY <1>0, <1>6, AdmitSteps
  <2> DEFINE o == Order(job'[h])
  <2>1. /\ Wrote(i, Row(job[h])) /\ job[h].pc = "route" /\ job[h].at \in Nat
        /\ env.may.window \in Nat
        /\ \A a \in Orders' : a \in Orders \/ a = o
        /\ o.chan = job[h].chan /\ o.id = i /\ o.at = job[h].at
    BY <1>0, <1>6, <2>0, AdmitWrote, AdmitSteps, OrderFields, JobIs, SettingTyped
       DEF JobType, SettingType
  <2>2. ASSUME NEW a \in Orders, a.chan = job[h].chan, job[h].at <= a.at + env.may.window
        PROVE  a.id = i
    BY <1>6, <2>0, <2>2, NewOrderNamed
  <2>3. ASSUME NEW a \in Orders', NEW b \in Orders', a.chan = b.chan, Near(a.at, b.at)'
        PROVE  a.id = b.id
    <3>1. Near(a.at, b.at) /\ a.at <= b.at + env.may.window /\ b.at <= a.at + env.may.window
      BY <1>0, <2>3 DEF Near
    <3>2. CASE a \in Orders /\ b \in Orders
      BY <2>3, <3>1, <3>2 DEF Identified
    <3> HIDE DEF o
    <3>3. CASE a = o /\ b \in Orders
      BY <2>1, <2>2, <2>3, <3>1, <3>3
    <3>4. CASE a \in Orders /\ b = o
      BY <2>1, <2>2, <2>3, <3>1, <3>4
    <3> QED BY <2>1, <3>2, <3>3, <3>4
  <2>4. ASSUME NEW a \in Orders', Must(a)' PROVE Kept(a)'
    <3>0. Must(a)
      BY <1>m, <2>4
    <3>1. CASE a.id = i /\ a.chan = job[h].chan
      BY <2>1, <3>1, RowFields DEF Kept, Wrote
    <3>2. CASE a \in Orders /\ a.id = i /\ a.chan # job[h].chan
      BY <1>6, <2>0, <3>0, <3>2, TakenOver
    <3>3. CASE a \in Orders /\ a.id # i
      <4>1. a.chan = job[h].chan => ~(job[h].at <= a.at + env.may.window)
        BY <2>2, <3>3
      <4>2. a.at \in Nat
        BY <1>0, <3>3, OrderRow
      <4>3. a.chan = job[h].chan => a.at + env.may.window < job[h].at
        BY <2>1, <4>1, <4>2
      <4> QED BY <1>4, <1>6, <2>1, <3>0, <3>3, <4>3
    <3> QED BY <2>1, <3>1, <3>2, <3>3
  <2> QED BY <2>3, <2>4 DEF Identified, Kept
<1>7. ASSUME NEW h \in Handler, Examines(h) \/ Delivers(h)
      PROVE  signals' = signals /\ Orders' \subseteq Orders
  BY <1>0, <1>7, ExamineIs, DeliverIs DEF Examines, Delivers, stored
<1> QED BY <1>0, <1>1, <1>3, <1>5, <1>6, <1>7, StepSorts DEF Steady, SetsAside

LEMMA InitTInv == Init => TInv
<1> SUFFICES ASSUME Init PROVE SameIds /\ PerMessage /\ Identified
  BY InitSInv, InitPInv, InitFInv DEF TInv
<1> QED BY NothingYet DEF SameIds, PerMessage, Identified

LEMMA NextTInv == TInv /\ [Next]_vars => TInv'
<1> SUFFICES ASSUME TInv, [Next]_vars PROVE TInv'
  OBVIOUS
<1>1. /\ SInv /\ PInv /\ FInv /\ SInv' /\ PInv' /\ FInv' /\ BInv /\ BInv' /\ IInv /\ Flow /\ Grows
  BY NextSInv, NextPInv, NextFInv, StepFlows DEF TInv, SInv, BInv, Flow
<1>2. ASSUME Forward', ~Repeats("direct")' PROVE SameIds'
  <2>1. Forward /\ ~Repeats("direct")
    BY <1>1, <1>2, ForwardBefore DEF Repeats, Flow
  <2> QED BY <1>1, <2>1, SameIdsStep DEF TInv
<1>3. ASSUME queue' = <<>> PROVE PerMessage'
  <2>1. queue = <<>>
    BY <1>1, <1>3 DEF Grows, IInv, TypeOK
  <2> QED BY <1>1, <2>1, PerMessageStep DEF TInv
<1>4. ASSUME Brief' PROVE Identified'
  <2>1. Single' /\ Single /\ OneMessage
    BY <1>1, <1>4, SingleBefore, MessageBefore DEF Brief
  <2>2. Brief
    BY <1>1, <1>4, <2>1 DEF Brief, Flow, Repeats
  <2>3. Sides
    BY <1>1, <2>1 DEF Sides, SInv, PInv
  <2> QED BY <1>1, <2>1, <2>2, <2>3, IdentifiedStep DEF TInv
<1> QED BY <1>1, <1>2, <1>3, <1>4 DEF TInv

\* However deliveries of one notification version or of one message overlap and
\* are joined to what the other channel brought, handle_signal gives them one
\* signal id, in the runs TradedOnce speaks of.
THEOREM TradedUnderOneId == Spec => []TradedOnce
<1>1. ASSUME TInv PROVE TradedOnce
  <2> SUFFICES ASSUME \/ Forward /\ ~Repeats("direct")
                      \/ queue = <<>>
                      \/ Brief,
                      NEW t \in trades, NEW u \in trades,
                      t.chan = u.chan, t.msg = u.msg, t.text = u.text, Near(t.at, u.at)
               PROVE  t.id = u.id
    BY DEF TradedOnce, Brief, Single, OneMessage
  <2>1. t \in Orders /\ u \in Orders /\ BInv
    BY <1>1 DEF Orders, TInv, SInv
  <2>2. CASE Forward /\ ~Repeats("direct")
    BY <1>1, <2>1, <2>2 DEF TInv, SameIds
  <2>3. CASE queue = <<>>
    BY <1>1, <2>1, <2>3, OrderRow DEF TInv, PerMessage
  <2>4. CASE Brief
    BY <1>1, <2>1, <2>4 DEF TInv, Identified
  <2> QED BY <2>2, <2>3, <2>4
<1> QED BY <1>1, InitTInv, NextTInv, PTL DEF Spec

-----------------------------------------------------------------------------
(* What says a price once, and before it anything new of that price.         *)
LEMMA PricedBefore == ASSUME Grows, NEW x, Priced(x)' PROVE Priced(x)
  BY DEF Grows, Priced, SaidOnce

LEMMA AlikeBefore == ASSUME Flow, Alike' PROVE Alike
  BY DEF Flow, Grows, Alike

LEMMA NothingLike ==
  ASSUME FInv, NEW h \in Handler, job[h].pc = "route", Priced(job[h]),
         IF job[h].chan = "phone" THEN Forward ELSE ~Repeats("direct")
  PROVE  /\ \A i \in Recorded : ~(signals[i].chan = job[h].chan /\ SamePrice(signals[i], job[h]))
         /\ \A a \in Orders : ~(a.chan = job[h].chan /\ SamePrice(a, job[h]))
<1>1. BInv /\ job[h].chan \in Channel /\ Said(job[h])
  BY JobIs DEF FInv, DInv, BInv, JobType, Placed, Busy
<1>2. ASSUME NEW x, Said(x), NewTo(x, job[h]) \/ job[h].chan = "phone",
             Differs(x, job[h]) \/ job[h].chan # "phone",
             x.chan = job[h].chan, SamePrice(x, job[h])
      PROVE  FALSE
  <2>1. SaidOnce(Price[job[h].text]) /\ Price[x.text] = Price[job[h].text]
    BY <1>2 DEF Priced, SamePrice
  <2>2. CASE job[h].chan = "phone"
    <3>1. Shown(x.text) /\ Shown(job[h].text) /\ x.text # job[h].text
      BY <1>1, <1>2, <2>2 DEF Said, Differs
    <3> QED BY <2>1, <3>1 DEF Shown, SaidOnce
  <2>3. CASE job[h].chan = "direct"
    <3>1. /\ x.msg \in DOMAIN posts /\ posts[x.msg] = x.text
          /\ job[h].msg \in DOMAIN posts /\ posts[job[h].msg] = job[h].text
          /\ x.msg # job[h].msg
      BY <1>1, <1>2, <2>3 DEF Said, NewTo
    <3> QED BY <2>1, <3>1 DEF SaidOnce
  <2> QED BY <1>1, <2>2, <2>3 DEF Channel
<1>3. ASSUME NEW i \in Recorded, signals[i].chan = job[h].chan, SamePrice(signals[i], job[h])
      PROVE  FALSE
  <2>1. Said(signals[i])
    BY <1>1 DEF BInv, RowHonest
  <2>2. /\ NewTo(signals[i], job[h]) \/ job[h].chan = "phone"
        /\ Differs(signals[i], job[h]) \/ job[h].chan # "phone"
    BY DEF FInv, DInv, EachOnce, NewVersion
  <2> QED BY <1>2, <1>3, <2>1, <2>2
<1>4. ASSUME NEW a \in Orders, a.chan = job[h].chan, SamePrice(a, job[h]) PROVE FALSE
  <2>1. Said(a)
    BY <1>1 DEF BInv, OrderKept
  <2>2. /\ NewTo(a, job[h]) \/ job[h].chan = "phone"
        /\ Differs(a, job[h]) \/ job[h].chan # "phone"
    BY DEF FInv, DInv, EachOnce, NewVersion
  <2> QED BY <1>2, <1>4, <2>1, <2>2
<1> QED BY <1>3, <1>4

\* What a conflict resolution would let through is alike.
LEMMA AlikeAgrees ==
  ASSUME BInv, Alike, env.may.policy = "REQUIRE_PRIMARY_SOURCE",
         NEW h \in Handler, job[h].pc = "route", NEW k \in Comparable(job[h])
  PROVE  Agrees(job[h], k)
<1>1. /\ k \in Recorded /\ signals[k].chan # job[h].chan
      /\ signals[k].chan \in Channel /\ job[h].chan \in Channel
      /\ Said(signals[k]) /\ Said(job[h])
  BY JobIs, RowIs DEF BInv, Comparable, RowType, JobType, RowHonest, Placed, Busy
<1>2. CASE job[h].chan = "phone"
  BY <1>1, <1>2 DEF Channel, Said, Shown, Alike, Agrees
<1>3. CASE job[h].chan = "direct"
  BY <1>1, <1>3 DEF Channel, Said, Shown, Alike, Agrees
<1> QED BY <1>1, <1>2, <1>3 DEF Channel

\* So an admission takes the id of what it agrees with, or a new one.
LEMMA AdmitAgrees ==
  ASSUME BInv, Alike, NEW h \in Handler, Admit(h)
  PROVE  \/ job'[h].id \in Earliest(Known(job[h]))
         \/ /\ Known(job[h]) = {} /\ job'[h].id \in NewId
            /\ Comparable(job[h]) = {}
         \/ /\ Known(job[h]) = {} /\ job'[h].id \in Earliest(Comparable(job[h]))
            /\ Agrees(job[h], job'[h].id) /\ Price[job[h].text] # 0
<1>1. job[h].pc = "route" /\ \E v \in Verdicts(job[h]) : v.go /\ job'[h].id \in v.ids
  BY AdmitSteps, AdmitWrote
<1>2. env.may.policy = "REQUIRE_PRIMARY_SOURCE" =>
        \A k \in Earliest(Comparable(job[h])) : Agrees(job[h], k)
  BY <1>1, AlikeAgrees DEF Earliest
<1> QED BY <1>1, <1>2, AdmitsOne

LEMMA OneRowEachStep ==
  ASSUME FInv, Once, Flow, NEW c \in Channel, c = "phone" => Forward, OneRowEach(c),
         [Next]_vars
  PROVE  OneRowEach(c)'
<1>0. BInv /\ IInv /\ Grows /\ ~Repeats("direct")
  BY DEF FInv, DInv, BInv, Flow, Once
<1> SUFFICES ASSUME NEW i \in Recorded', NEW k \in Recorded',
                    signals'[i].chan = c, signals'[k].chan = c,
                    Priced(signals[i])', SamePrice(signals[i], signals[k])'
             PROVE  i = k
  BY DEF OneRowEach
<1>1. PICK x, y : /\ x = signals'[i] /\ y = signals'[k]
                  /\ Priced(x)' /\ SamePrice(x, y) /\ SamePrice(y, x)
  BY DEF SamePrice, Priced, SaidOnce
<1>2. Priced(x) /\ Priced(y)
  <2>1. Priced(x)
    BY <1>0, <1>1, PricedBefore
  <2> QED BY <1>1, <2>1 DEF Priced, SamePrice
<1>3. CASE signals' = signals
  BY <1>1, <1>2, <1>3, SameRows DEF OneRowEach
<1>4. ASSUME NEW m, NEW r, Wrote(m, r),
             r.chan = c /\ Priced(r) =>
               \A l \in Recorded : ~(signals[l].chan = c /\ SamePrice(signals[l], r))
      PROVE  i = k
  <2>1. CASE i # m /\ k # m
    BY <1>1, <1>2, <1>4, <2>1, WroteRows DEF OneRowEach, Wrote
  <2>2. CASE i = m /\ k # m
    BY <1>1, <1>2, <1>4, <2>2, WroteRows DEF Wrote
  <2>3. CASE k = m /\ i # m
    BY <1>1, <1>2, <1>4, <2>3, WroteRows DEF Wrote
  <2> QED BY <2>1, <2>2, <2>3
<1>5. ASSUME NEW h \in Handler, NEW n, SetAside(h, n) PROVE i = k
  <2>1. /\ n \in DOMAIN queue /\ AtHand(h, n) /\ ~Repeated(queue[n].text) /\ Takes(h, n)
        /\ job'[h].chan = "phone"
    BY <1>0, <1>5, SetAsideIs DEF TurnsTo, SetAside
  <2> DEFINE r == Row(job'[h])
  <2>2. r.chan = "phone" /\ r.text = queue[n].text
    BY <2>1, RowFields DEF AtHand
  <2>3. ASSUME r.chan = c, Priced(r), NEW l \in Recorded, signals[l].chan = c,
               SamePrice(signals[l], r)
        PROVE  FALSE
    <3>1. Uploads /\ NewVersion /\ NoReturn
      BY <2>2, <2>3 DEF FInv, Forward
    <3>2. PICK o \in DOMAIN queue : Seen(o) /\ queue[o].text = signals[l].text
      BY <2>2, <2>3, <3>1 DEF NewVersion, SeenText
    <3>3. queue[o].text # queue[n].text
      BY <1>0, <2>1, <3>1, <3>2, FreshText
    <3> QED BY <2>1, <2>2, <2>3, <3>2, <3>3 DEF Priced, SaidOnce, SamePrice
  <2> HIDE DEF r
  <2>4. ASSUME NEW m \in NewId, Wrote(m, r) PROVE i = k
    BY <1>4, <2>3, <2>4
  <2> QED BY <1>0, <1>3, <1>5, <2>4, SetAsideWrote DEF r
<1>6. ASSUME NEW h \in Handler, NEW m, job[h].pc = "route", Wrote(m, Row(job[h])) PROVE i = k
  <2> DEFINE r == Row(job[h])
  <2>1. r.chan = job[h].chan /\ r.text = job[h].text
    BY RowFields
  <2> HIDE DEF r
  <2>2. ASSUME r.chan = c, Priced(r)
        PROVE  \A l \in Recorded : ~(signals[l].chan = c /\ SamePrice(signals[l], r))
    <3>1. Priced(job[h])
      BY <2>1, <2>2 DEF Priced
    <3>2. \A l \in Recorded : ~(signals[l].chan = c /\ SamePrice(signals[l], job[h]))
      BY <1>0, <1>6, <2>1, <2>2, <3>1, NothingLike
    <3> QED BY <2>1, <3>2 DEF SamePrice
  <2> QED BY <1>4, <1>6, <2>2 DEF r
<1>7. ASSUME NEW h \in Handler, Hold(h) \/ Admit(h) PROVE i = k
  BY <1>0, <1>6, <1>7, HoldIs, HoldWrote, AdmitSteps, AdmitWrote
<1>8. ASSUME NEW h \in Handler, Examines(h) \/ Delivers(h) PROVE signals' = signals
  BY <1>0, <1>8, ExamineIs, DeliverIs DEF Examines, Delivers, stored
<1> QED BY <1>0, <1>3, <1>5, <1>7, <1>8, StepSorts DEF Steady, SetsAside

LEMMA OpenRowStep ==
  ASSUME SInv, BInv', Flow, env.may.crashes = 0, Single', Open', Single /\ Open => OneRow,
         [Next]_vars
  PROVE  OneRow'
<1>0. BInv /\ Single /\ OneRow /\ FirstText /\ (Live => OneRow)
  BY SingleBefore, OpenBefore DEF SInv, Flow
<1>1. CASE signals' = signals
  BY <1>0, <1>1, SameRows DEF OneRow
<1>2. ASSUME NEW h \in Handler, SetsAside(h) PROVE FALSE
  <2>1. running' = h /\ job'[h].pc = "record" /\ job'[h].chan = "phone"
    BY <1>0, <1>2, SetAsideIs DEF SetsAside, Solo
  <2> QED BY <2>1 DEF Open
<1>3. ASSUME NEW h \in Handler, Hold(h) PROVE OneRow'
  <2>1. running' = h /\ job'[h].pc = "record" /\ job'[h].chan = job[h].chan
    BY <1>0, <1>3, HoldIs DEF Solo, Carries
  <2>2. job[h].chan # "phone"
    BY <2>1 DEF Open
  <2> QED BY <1>0, <1>3, <2>2, HoldWrote, WroteRows, RowFields DEF OneRow
<1>4. ASSUME NEW h \in Handler, Admit(h) PROVE OneRow'
  <2>1. CASE job[h].chan = "phone"
    BY <1>0, <1>4, <2>1, AdmitPhone DEF OneRow
  <2>2. CASE job[h].chan # "phone"
    BY <1>0, <1>4, <2>2, AdmitWrote, WroteRows, RowFields DEF OneRow
  <2> QED BY <2>1, <2>2
<1>5. ASSUME NEW h \in Handler, Examines(h) \/ Delivers(h) PROVE signals' = signals
  BY <1>0, <1>5, ExamineIs, DeliverIs DEF Examines, Delivers, stored
<1> QED BY <1>0, <1>1, <1>2, <1>3, <1>4, <1>5, StepSorts DEF Steady

LEMMA KeepsStep ==
  ASSUME NInv, Once, Alike, \A a \in Orders : Priced(a) => Keeps(a), BInv', Flow, [Next]_vars
  PROVE  \A a \in Orders' : Priced(a)' => Keeps(a)'
<1>0. BInv /\ IInv /\ Grows /\ FInv /\ ~Repeats("direct") /\ (Forward' => Forward)
  BY ForwardBefore DEF NInv, SInv, BInv, Flow, Once
<1>1. ASSUME NEW a \in Orders, Priced(a)', signals'[a.id] = signals[a.id] PROVE Keeps(a)'
  <2>1. Keeps(a)
    BY <1>0, <1>1, PricedBefore
  <2> QED BY <1>0, <1>1, <2>1 DEF Keeps, SamePrice
<1>2. CASE signals' = signals /\ Orders' \subseteq Orders
  BY <1>1, <1>2
<1>3. ASSUME NEW i \in NewId, NEW r, Wrote(i, r), NEW a \in Orders, Priced(a)' PROVE Keeps(a)'
  BY <1>0, <1>1, <1>3, OrderRow, NewIdIs, WroteRows
<1>4. ASSUME NEW h \in Handler, NEW n, SetAside(h, n)
      PROVE  \A a \in Orders' : Priced(a)' => Keeps(a)'
  BY <1>0, <1>2, <1>3, <1>4, SetAsideWrote, SetAsideIs
<1>5. ASSUME NEW h \in Handler, Hold(h) PROVE \A a \in Orders' : Priced(a)' => Keeps(a)'
  BY <1>0, <1>3, <1>5, HoldWrote, HoldIs
<1>6. ASSUME NEW h \in Handler, Admit(h), NEW a \in Orders', Priced(a)' PROVE Keeps(a)'
  <2>0. PICK i \in Id : i = job'[h].id
    BY <1>0, <1>6, AdmitSteps
  <2> DEFINE j == job[h]
             o == Order(job'[h])
  <2>1. /\ Wrote(i, Row(j)) /\ j.pc = "route" /\ j.chan \in Channel
        /\ a \in Orders \/ a = o
        /\ o.chan = j.chan /\ o.id = i /\ o.at = j.at /\ o.text = j.text
        /\ signals'[i].text = j.text /\ signals'[i].chan = j.chan /\ signals'[i].at = j.at
    BY <1>0, <1>6, <2>0, AdmitWrote, AdmitSteps, OrderFields, RowFields, JobIs
       DEF Wrote, JobType
  <2> HIDE DEF o
  <2>2. CASE a = o
    BY <2>1, <2>2 DEF Keeps, SamePrice
  <2>3. CASE a \in Orders /\ a.id # i
    BY <1>0, <1>1, <1>6, <2>1, <2>3, OrderRow, WroteRows
  <2>4. CASE a \in Orders /\ a.id = i
    <3>1. Keeps(a) /\ i \in Recorded /\ Priced(a)
      BY <1>0, <1>6, <2>4, PricedBefore, OrderRow
    <3>2. SamePrice(signals[i], a)
      BY <2>4, <3>1 DEF Keeps
    <3>3. CASE i \in Known(j)
      <4>1. j.chan = "phone" /\ Single /\ ~Forward
        BY <1>0, <2>1, <3>3, NothingKnown DEF Once, Channel, Single
      <4>2. RoutesPhone(h) /\ PhoneRow(i)
        BY <2>1, <3>3, <4>1 DEF RoutesPhone, Known, PhoneRow
      <4>3. Shown(j.text) /\ Shown(signals[i].text)
        BY <1>0, <4>2, RoutesPhoneIs, PhoneRowIs
      <4>4. signals[i].text = j.text
        BY <1>0, <4>1, <4>3, OneText DEF Shown
      <4> QED BY <1>0, <2>1, <2>4, <3>2, <4>1, <4>4 DEF Keeps, SamePrice
    <3>4. CASE Agrees(j, i)
      <4>1. SamePrice(a, j)
        BY <3>2, <3>4 DEF SamePrice, Agrees
      <4>2. Priced(j)
        BY <3>1, <4>1 DEF Priced, SamePrice
      <4>3. ~(a.chan = j.chan /\ (a.chan = "direct" \/ Forward))
        BY <1>0, <2>1, <2>4, <4>1, <4>2, NothingLike
      <4> QED BY <1>0, <2>1, <2>4, <4>1, <4>3 DEF Keeps, SamePrice
    <3> QED BY <1>0, <1>6, <2>0, <3>1, <3>3, <3>4, AdmitAgrees, NewIdIs DEF Earliest
  <2> QED BY <2>1, <2>2, <2>3, <2>4
<1>7. ASSUME NEW h \in Handler, Examines(h) \/ Delivers(h)
      PROVE  signals' = signals /\ Orders' \subseteq Orders
  BY <1>0, <1>7, ExamineIs, DeliverIs DEF Examines, Delivers, stored
<1> QED BY <1>0, <1>2, <1>4, <1>5, <1>6, <1>7, StepSorts DEF Steady, SetsAside

\* The order of another channel, of the price at hand and within the window.
Counterpart(u, h) ==
  /\ u.chan # job[h].chan /\ SamePrice(u, job[h]) /\ Priced(u)
  /\ u.at <= job[h].at + env.may.window /\ job[h].at <= u.at + env.may.window

LEMMA CounterpartIs ==
  ASSUME NInv, Once, Rows, NEW h \in Handler, job[h].pc = "route",
         NEW u \in Orders, Counterpart(u, h)
  PROVE  /\ BInv /\ u.id \in Id /\ u.id \in Recorded /\ u.chan \in Channel
         /\ job[h].chan \in Channel /\ signals[u.id].chan \in Channel
         /\ u.at \in Nat /\ job[h].at \in Nat /\ env.may.window \in Nat
         /\ Keeps(u) /\ SamePrice(signals[u.id], job[h]) /\ Priced(job[h])
         /\ signals[u.id].chan = u.chan => u.id \in Comparable(job[h])
         /\ u.at <= signals[u.id].at /\ signals[u.id].at <= job[h].at
<1>1. /\ BInv /\ u.id \in Id /\ u.id \in Recorded /\ u.chan \in Channel
      /\ job[h].chan \in Channel /\ signals[u.id].chan \in Channel
      /\ u.at \in Nat /\ job[h].at \in Nat /\ env.may.window \in Nat
      /\ signals[u.id].at \in Nat /\ u.at <= signals[u.id].at
  BY OrderRow, OrderIs, RowIs, JobIs, SettingTyped
     DEF NInv, SInv, BInv, TradeType, RowType, JobType, SettingType
<1>2. Keeps(u)
  BY DEF Rows, Counterpart
<1>3. SamePrice(signals[u.id], job[h]) /\ Priced(job[h])
  BY <1>2 DEF Keeps, SamePrice, Counterpart, Priced
<1>4. signals[u.id].at <= job[h].at
  BY <1>1 DEF BInv, Placed
<1>5. Near(signals[u.id].at, job[h].at)
  BY <1>1, <1>4 DEF Near, Counterpart
<1>6. signals[u.id].chan = u.chan => u.id \in Comparable(job[h])
  BY <1>1, <1>3, <1>5 DEF Comparable, SamePrice, Counterpart
<1> QED BY <1>1, <1>2, <1>3, <1>4, <1>6

\* What is compared and agrees is its row, where each has one.
LEMMA AgreedRow ==
  ASSUME NInv, Once, Rows, NEW h \in Handler, job[h].pc = "route",
         NEW u \in Orders, Counterpart(u, h), signals[u.id].chan = u.chan,
         OneRowEach(u.chan), NEW k \in Comparable(job[h]), Agrees(job[h], k)
  PROVE  k = u.id
<1>1. /\ k \in Recorded /\ signals[k].chan # job[h].chan /\ signals[k].chan \in Channel
      /\ u.id \in Recorded /\ u.chan \in Channel /\ job[h].chan \in Channel
      /\ SamePrice(signals[u.id], job[h]) /\ Priced(job[h])
  BY CounterpartIs, RowIs DEF Comparable, BInv, RowType
<1>2. signals[k].chan = u.chan
  BY <1>1 DEF Channel, Counterpart
<1>3. Priced(signals[k]) /\ SamePrice(signals[k], signals[u.id])
  BY <1>1 DEF Agrees, SamePrice, Priced
<1> QED BY <1>1, <1>2, <1>3 DEF OneRowEach

LEMMA ForwardNamed ==
  ASSUME NInv, Once, Alike, Rows, Forward, NEW h \in Handler, Admit(h),
         NEW u \in Orders, Counterpart(u, h)
  PROVE  job'[h].id = u.id
<1>1. BInv /\ FInv /\ ~Repeats("direct") /\ job[h].pc = "route"
  BY AdmitSteps DEF NInv, SInv, Once
<1>2. Known(job[h]) = {}
  BY <1>1, NothingKnown
<1>3. /\ u.id \in Recorded /\ u.chan \in Channel /\ job[h].chan \in Channel
      /\ signals[u.id].chan \in Channel /\ SamePrice(signals[u.id], job[h]) /\ Priced(job[h])
      /\ signals[u.id].chan = u.chan => u.id \in Comparable(job[h])
  BY <1>1, CounterpartIs
<1>4. signals[u.id].chan = u.chan
  <2>1. signals[u.id].chan # job[h].chan
    BY <1>1, <1>3, NothingLike
  <2> QED BY <1>3, <2>1 DEF Channel, Counterpart
<1>5. OneRowEach(u.chan)
  BY <1>3 DEF Rows, Channel
<1>6. job'[h].id \in Comparable(job[h]) /\ Agrees(job[h], job'[h].id)
  BY <1>1, <1>2, <1>3, <1>4, AdmitAgrees DEF Earliest
<1>7. \A k : k \in Comparable(job[h]) /\ Agrees(job[h], k) => k = u.id
  BY <1>1, <1>4, <1>5, AgreedRow
<1> QED BY <1>6, <1>7

LEMMA SingleNamed ==
  ASSUME NInv, Once, Alike, Rows, Single, env.may.fresh <= env.may.window,
         Open => Apart, NEW h \in Handler, Admit(h), NEW u \in Orders, Counterpart(u, h)
  PROVE  job'[h].id = u.id
<1>1. /\ BInv /\ FInv /\ ~Repeats("direct") /\ job[h].pc = "route"
      /\ FirstText /\ AfterShown /\ OrdersFirst
  BY AdmitSteps DEF NInv, SInv, Once
<1>2. /\ u.id \in Id /\ u.id \in Recorded /\ u.chan \in Channel /\ job[h].chan \in Channel
      /\ signals[u.id].chan \in Channel /\ SamePrice(signals[u.id], job[h]) /\ Priced(job[h])
      /\ signals[u.id].chan = u.chan => u.id \in Comparable(job[h])
      /\ u.at \in Nat /\ job[h].at \in Nat /\ env.may.window \in Nat /\ Keeps(u)
      /\ u.at <= signals[u.id].at /\ signals[u.id].at <= job[h].at
  BY <1>1, CounterpartIs
<1>3. CASE job[h].chan = "phone"
  <2>1. RoutesPhone(h) /\ u.chan = "direct"
    BY <1>1, <1>2, <1>3 DEF RoutesPhone, Channel, Counterpart
  <2>2. OneRow /\ Apart
    BY <1>1, <2>1, RoutesOpen DEF Rows
  <2>3. CASE signals[u.id].chan = "phone"
    <3>1. PhoneRow(u.id)
      BY <1>2, <2>3 DEF PhoneRow
    <3>2. u.id \in Known(job[h])
      BY <1>1, <1>2, <2>1, <3>1, KnownPhone
    <3>3. job'[h].id \in Known(job[h])
      BY <1>1, <3>2, AdmitAgrees DEF Earliest
    <3>4. job'[h].id \in Id /\ PhoneRow(job'[h].id)
      BY <1>1, <1>3, <3>3, AdmitSteps DEF Known, PhoneRow
    <3> QED BY <1>2, <2>2, <3>1, <3>4 DEF OneRow
  <2>4. CASE signals[u.id].chan = "direct"
    <3>1. signals[u.id].at = u.at
      BY <1>2, <2>1, <2>4 DEF Keeps
    <3>2. ASSUME NEW k \in Id, PhoneRow(k) PROVE FALSE
      <4>1. /\ signals[k].at \in Nat /\ Shown(signals[k].text) /\ Shown(job[h].text)
            /\ k \in Recorded
        BY <1>1, <2>1, <3>2, PhoneRowIs, RoutesPhoneIs
      <4>2. PICK n \in DOMAIN queue : queue[n].text = job[h].text
        BY <4>1 DEF Shown
      <4>3. signals[k].text = job[h].text
        BY <1>1, <4>1, <4>2, OneText
      <4>4. SamePrice(signals[k], u)
        BY <4>3 DEF SamePrice, Counterpart
      <4>5. ~Near(signals[k].at, u.at)
        BY <2>1, <2>2, <2>4, <3>2, <4>4 DEF Apart, Counterpart
      <4>6. signals[k].at <= job[h].at
        BY <1>1, <4>1 DEF BInv, Placed
      <4>7. queue[n].at <= signals[k].at /\ job[h].at <= queue[n].at + env.may.fresh
        BY <1>1, <2>1, <3>2 DEF AfterShown, FirstText, Timely
      <4>8. queue[n].at \in Nat /\ env.may.fresh \in Nat
        BY <1>1, CaptureIs, SettingTyped DEF BInv, SettingType
      <4>9. u.at <= signals[k].at + env.may.window
        BY <1>2, <3>1, <4>1, <4>7, <4>8
      <4>10. signals[k].at <= u.at + env.may.window
        BY <1>2, <4>1, <4>6 DEF Counterpart
      <4> QED BY <4>5, <4>9, <4>10 DEF Near
    <3>3. Known(job[h]) = {}
      BY <1>3, <3>2 DEF Known, PhoneRow, Recorded
    <3>4. job'[h].id \in Comparable(job[h]) /\ Agrees(job[h], job'[h].id)
      BY <1>1, <1>2, <2>1, <2>4, <3>3, AdmitAgrees DEF Earliest
    <3>5. \A k : k \in Comparable(job[h]) /\ Agrees(job[h], k) => k = u.id
      BY <1>1, <2>1, <2>4, AgreedRow DEF Rows
    <3> QED BY <3>4, <3>5
  <2> QED BY <1>2, <2>3, <2>4 DEF Channel
<1>4. CASE job[h].chan = "direct"
  <2>1. u.chan = "phone" /\ Known(job[h]) = {}
    BY <1>1, <1>2, <1>4, NothingKnown DEF Channel, Counterpart
  <2>2. signals[u.id].chan = "phone"
    <3>1. signals[u.id].chan # job[h].chan
      BY <1>1, <1>2, <1>4, NothingLike
    <3> QED BY <1>2, <1>4, <3>1 DEF Channel
  <2>3. u.id \in Comparable(job[h])
    BY <1>2, <2>1, <2>2
  <2>4. job'[h].id \in Earliest(Comparable(job[h]))
    BY <1>1, <2>1, <2>3, AdmitAgrees DEF Earliest
  <2>5. ASSUME job'[h].id # u.id PROVE FALSE
    <3>1. PICK k : k = job'[h].id
      OBVIOUS
    <3>2. /\ k \in Id \ {u.id} /\ k \in Recorded /\ signals[k].chan # "direct"
          /\ signals[k].at <= signals[u.id].at
      BY <1>1, <1>4, <2>3, <2>4, <2>5, <3>1, AdmitSteps DEF Earliest, Comparable
    <3>3. signals[k].chan \in Channel /\ signals[k].at \in Nat /\ signals[u.id].at \in Nat
      BY <1>1, <1>2, <3>2, RowIs DEF BInv, RowType
    <3>4. signals[u.id].at < signals[k].at
      BY <1>1, <2>2, <3>2, <3>3 DEF OrdersFirst, PhoneRow, Channel
    <3> QED BY <3>2, <3>3, <3>4
  <2> QED BY <2>5
<1> QED BY <1>2, <1>3, <1>4 DEF Channel

LEMMA ApartStep ==
  ASSUME NInv, Once, Alike, Rows, BInv', Flow, Single', Open',
         env.may.fresh <= env.may.window, Single /\ Open => Apart, [Next]_vars
  PROVE  Apart'
<1>0. /\ BInv /\ IInv /\ Grows /\ env'.may = env.may /\ Single /\ Open /\ OneRow /\ Apart
      /\ FInv /\ FirstText /\ (Live => OneRow) /\ ~Repeats("direct")
  BY SingleBefore, OpenBefore DEF NInv, SInv, BInv, Flow, Once, Rows
<1> DEFINE Clear(u) ==
      u.chan = "direct" /\ Priced(u) /\ signals[u.id].chan = "direct" =>
        \A k \in Id : PhoneRow(k) /\ SamePrice(signals[k], u) => ~Near(signals[k].at, u.at)
<1>1. ASSUME NEW u \in Orders, signals'[u.id] = signals[u.id],
             \A k \in Id : PhoneRow(k)' => PhoneRow(k) /\ signals'[k] = signals[k]
      PROVE  Clear(u)'
  <2> SUFFICES ASSUME u.chan = "direct", Priced(u)', signals'[u.id].chan = "direct",
                      NEW k \in Id, PhoneRow(k)', SamePrice(signals[k], u)'
               PROVE  ~Near(signals[k].at, u.at)'
    OBVIOUS
  <2>1. Priced(u) /\ PhoneRow(k) /\ signals'[k] = signals[k] /\ SamePrice(signals[k], u)
    BY <1>0, <1>1, PricedBefore DEF SamePrice
  <2>2. ~Near(signals[k].at, u.at)
    BY <1>0, <1>1, <2>1 DEF Apart
  <2> QED BY <1>0, <2>1, <2>2 DEF Near
<1>2. CASE signals' = signals /\ Orders' \subseteq Orders
  <2>1. ASSUME NEW u \in Orders PROVE Clear(u)'
    BY <1>1, <1>2, <2>1, SameRows
  <2> QED BY <1>2, <2>1 DEF Apart
<1>3. ASSUME NEW h \in Handler, SetsAside(h) PROVE FALSE
  <2>1. running' = h /\ job'[h].pc = "record" /\ job'[h].chan = "phone"
    BY <1>0, <1>3, SetAsideIs DEF SetsAside, Solo
  <2> QED BY <2>1 DEF Open
<1>4. ASSUME NEW h \in Handler, Hold(h) PROVE Apart'
  <2>1. /\ running' = h /\ job'[h].pc = "record" /\ job'[h].chan = job[h].chan
        /\ Orders' \subseteq Orders
    BY <1>0, <1>4, HoldIs DEF Solo, Carries
  <2>2. job[h].chan # "phone"
    BY <2>1 DEF Open
  <2>3. PICK i \in NewId : Wrote(i, Row(job[h]))
    BY <1>0, <1>4, HoldWrote
  <2>4. \A k \in Id : PhoneRow(k)' => PhoneRow(k) /\ signals'[k] = signals[k]
    BY <2>2, <2>3, WroteRows, RowFields DEF PhoneRow, Wrote
  <2>5. ASSUME NEW u \in Orders PROVE Clear(u)'
    <3>1. signals'[u.id] = signals[u.id]
      BY <1>0, <2>3, <2>5, OrderRow, NewIdIs, WroteRows
    <3> QED BY <1>1, <2>4, <2>5, <3>1
  <2> QED BY <2>1, <2>5 DEF Apart
<1>5. ASSUME NEW h \in Handler, Admit(h) PROVE Apart'
  <2>0. PICK i \in Id : i = job'[h].id
    BY <1>0, <1>5, AdmitSteps
  <2> DEFINE j == job[h]
             o == Order(job'[h])
  <2>1. /\ Wrote(i, Row(j)) /\ j.pc = "route" /\ j.chan \in Channel
        /\ \A a \in Orders' : a \in Orders \/ a = o
        /\ o.chan = j.chan /\ o.id = i /\ o.at = j.at /\ o.text = j.text
        /\ signals'[i].text = j.text /\ signals'[i].chan = j.chan /\ signals'[i].at = j.at
    BY <1>0, <1>5, <2>0, AdmitWrote, AdmitSteps, OrderFields, RowFields, JobIs
       DEF Wrote, JobType
  <2> HIDE DEF o
  <2> SUFFICES ASSUME NEW u \in Orders', u.chan = "direct", Priced(u)',
                      signals'[u.id].chan = "direct",
                      NEW k \in Id, PhoneRow(k)', SamePrice(signals[k], u)',
                      Near(signals[k].at, u.at)'
               PROVE  FALSE
    BY DEF Apart
  <2>2. /\ Priced(u) /\ Price[signals'[k].text] = Price[u.text]
        /\ signals'[k].at <= u.at + env.may.window /\ u.at <= signals'[k].at + env.may.window
    BY <1>0, PricedBefore DEF SamePrice, Near
  <2>3. CASE j.chan = "phone"
    <3>1. k = i
      BY <1>0, <1>5, <2>0, <2>3, AdmitPhone
    <3>2. u \in Orders /\ u.id # i
      BY <2>1, <2>3
    <3>3. Counterpart(u, h)
      BY <2>1, <2>2, <2>3, <3>1 DEF Counterpart, SamePrice
    <3>4. i = u.id
      BY <1>0, <1>5, <2>0, <3>2, <3>3, SingleNamed
    <3> QED BY <3>2, <3>4
  <2>4. CASE j.chan = "direct"
    <3>1. k # i /\ PhoneRow(k) /\ signals'[k] = signals[k] /\ k \in Recorded
      BY <2>1, <2>4, WroteRows DEF PhoneRow, Wrote
    <3>2. Known(j) = {}
      BY <1>0, <2>1, <2>4, NothingKnown
    <3>3. i \in Comparable(j) => FALSE
      <4>1. ASSUME i \in Comparable(j) PROVE PhoneRow(i)
        BY <1>0, <2>4, <4>1, RowIs DEF Comparable, PhoneRow, RowType, Channel
      <4> QED BY <1>0, <3>1, <4>1 DEF OneRow
    <3>4. Comparable(j) = {} /\ i \in NewId
      BY <1>0, <1>5, <2>0, <3>2, <3>3, AdmitAgrees DEF Earliest
    <3>5. CASE u = o
      <4>1. Near(signals[k].at, j.at)
        BY <2>1, <2>2, <3>1, <3>5 DEF Near
      <4>2. k \in Comparable(j)
        BY <2>1, <2>2, <2>4, <3>1, <3>5, <4>1 DEF Comparable, PhoneRow
      <4> QED BY <3>4, <4>2
    <3>6. CASE u \in Orders
      <4>1. u.id # i /\ u.id \in Recorded
        BY <1>0, <3>4, <3>6, OrderRow, NewIdIs
      <4>2. signals'[u.id] = signals[u.id]
        BY <2>1, <4>1, WroteRows
      <4>3. SamePrice(signals[k], u) /\ Near(signals[k].at, u.at)
        BY <2>2, <3>1 DEF SamePrice, Near
      <4> QED BY <1>0, <2>2, <3>1, <3>6, <4>2, <4>3 DEF Apart
    <3> QED BY <2>1, <3>5, <3>6
  <2> QED BY <2>1, <2>3, <2>4 DEF Channel
<1>6. ASSUME NEW h \in Handler, Examines(h) \/ Delivers(h)
      PROVE  signals' = signals /\ Orders' \subseteq Orders
  BY <1>0, <1>6, ExamineIs, DeliverIs DEF Examines, Delivers, stored
<1> QED BY <1>0, <1>2, <1>3, <1>4, <1>5, <1>6, StepSorts DEF Steady

LEMMA OneIdStep ==
  ASSUME NInv, Once, Alike, Rows, BInv', Flow, OneId,
         Forward \/ (Single /\ env.may.fresh <= env.may.window /\ (Open => Apart)),
         [Next]_vars
  PROVE  OneId'
<1>0. BInv /\ Grows /\ env'.may = env.may
  BY DEF NInv, SInv, Flow
<1>1. CASE Orders' \subseteq Orders
  <2> SUFFICES ASSUME NEW t \in Orders, NEW u \in Orders, t.chan # u.chan, SamePrice(t, u)',
                      Priced(t)', Near(t.at, u.at)'
               PROVE  t.id = u.id
    BY <1>1 DEF OneId
  <2>1. SamePrice(t, u) /\ Priced(t) /\ Near(t.at, u.at)
    BY <1>0, PricedBefore DEF SamePrice, Near
  <2> QED BY <2>1 DEF OneId
<1>2. ASSUME NEW h \in Handler, Admit(h) PROVE OneId'
  <2>0. PICK i \in Id : i = job'[h].id
    BY <1>0, <1>2, AdmitSteps
  <2> DEFINE j == job[h]
             o == Order(job'[h])
  <2>1. /\ \A a \in Orders' : a \in Orders \/ a = o
        /\ o.chan = j.chan /\ o.id = i /\ o.at = j.at /\ o.text = j.text
    BY <1>0, <1>2, <2>0, AdmitSteps, OrderFields
  <2> HIDE DEF o
  <2> SUFFICES ASSUME NEW t \in Orders', NEW u \in Orders', t.chan # u.chan, SamePrice(t, u)',
                      Priced(t)', Near(t.at, u.at)'
               PROVE  t.id = u.id
    BY DEF OneId
  <2>2. SamePrice(t, u) /\ Priced(t) /\ Near(t.at, u.at) /\ Priced(u)
    <3>1. SamePrice(t, u) /\ Priced(t) /\ Near(t.at, u.at)
      BY <1>0, PricedBefore DEF SamePrice, Near
    <3> QED BY <3>1 DEF Priced, SamePrice
  <2>3. ASSUME NEW w \in Orders, Counterpart(w, h) PROVE w.id = i
    BY <1>2, <2>0, <2>3, ForwardNamed, SingleNamed
  <2>4. CASE t \in Orders /\ u \in Orders
    BY <2>2, <2>4 DEF OneId
  <2>5. CASE t = o /\ u \in Orders
    <3>1. Counterpart(u, h)
      BY <2>1, <2>2, <2>5 DEF Counterpart, SamePrice, Near
    <3> QED BY <2>1, <2>3, <2>5, <3>1
  <2>6. CASE u = o /\ t \in Orders
    <3>1. Counterpart(t, h)
      BY <2>1, <2>2, <2>6 DEF Counterpart, SamePrice, Near
    <3> QED BY <2>1, <2>3, <2>6, <3>1
  <2> QED BY <2>1, <2>4, <2>5, <2>6
<1>3. ASSUME NEW h \in Handler, Examines(h) \/ SetsAside(h) \/ Delivers(h) \/ Hold(h)
      PROVE  Orders' \subseteq Orders
  BY <1>0, <1>3, ExamineIs, SetAsideIs, DeliverIs, HoldIs DEF Examines, SetsAside, Delivers
<1> QED BY <1>0, <1>1, <1>2, <1>3, StepSorts DEF Steady

LEMMA InitOInv == Init => OInv
<1> SUFFICES ASSUME Init PROVE Rows /\ Apart /\ OneId
  BY InitNInv DEF OInv
<1> QED BY NothingYet DEF Rows, OneRowEach, OneRow, PhoneRow, Apart, OneId

LEMMA NextOInv == OInv /\ [Next]_vars => OInv'
<1> SUFFICES ASSUME OInv, [Next]_vars PROVE OInv'
  OBVIOUS
<1>1. /\ NInv /\ NInv' /\ SInv /\ FInv /\ BInv /\ BInv' /\ IInv /\ Flow /\ Grows
  BY NextNInv, StepFlows DEF OInv, NInv, SInv, BInv, Flow
<1> SUFFICES ASSUME Once', Alike'
             PROVE  /\ Rows'
                    /\ Single' /\ Open' /\ (env.may.fresh <= env.may.window)' => Apart'
                    /\ Forward' \/ (env.may.fresh <= env.may.window)' => OneId'
  BY <1>1 DEF OInv
<1>2. Once /\ Alike /\ env'.may = env.may /\ env.may.crashes = 0
  BY <1>1, OnceBefore, AlikeBefore DEF Once, Flow
<1>3. /\ Rows
      /\ Single /\ Open /\ env.may.fresh <= env.may.window => Apart
      /\ Forward \/ env.may.fresh <= env.may.window => OneId
  BY <1>2 DEF OInv
<1>4. Rows'
  <2>1. OneRowEach("direct")'
    BY <1>1, <1>2, <1>3, OneRowEachStep DEF Rows, Channel
  <2>2. Forward' => OneRowEach("phone")'
    BY <1>1, <1>2, <1>3, ForwardBefore, OneRowEachStep DEF Rows, Channel
  <2>3. \A a \in Orders' : Priced(a)' => Keeps(a)'
    BY <1>1, <1>2, <1>3, KeepsStep DEF Rows
  <2>4. Single' /\ Open' => OneRow'
    BY <1>1, <1>2, <1>3, OpenRowStep DEF Rows
  <2> QED BY <2>1, <2>2, <2>3, <2>4 DEF Rows
<1>5. ASSUME Single', Open', env.may.fresh <= env.may.window PROVE Apart'
  BY <1>1, <1>2, <1>3, <1>5, ApartStep
<1>6. ASSUME Forward' \/ env.may.fresh <= env.may.window PROVE OneId'
  <2>1. Forward' => Forward
    BY <1>1, ForwardBefore
  <2>2. OneId
    BY <1>3, <1>6, <2>1
  <2>3. Forward \/ Single
    BY <1>2 DEF Once, Single
  <2>4. Forward \/ (Single /\ env.may.fresh <= env.may.window /\ (Open => Apart))
    BY <1>3, <1>6, <2>1, <2>3
  <2> QED BY <1>1, <1>2, <1>3, <2>2, <2>4, OneIdStep
<1> QED BY <1>2, <1>4, <1>5, <1>6

\* What the phone and the channel each say once, alike and within the correlation
\* window, handle_signal trades under one signal id, whatever else both say, in
\* the runs OneTradePerAlert speaks of.
THEOREM AlertTradedUnderOneId == Spec => []OneTradePerAlert
<1>1. ASSUME OInv PROVE OneTradePerAlert
  <2> SUFFICES ASSUME Once, Forward \/ env.may.fresh <= env.may.window,
                      env.may.policy = "REQUIRE_PRIMARY_SOURCE" => Single /\ OneMessage,
                      NEW t \in trades, NEW u \in trades, t.chan # u.chan, SamePrice(t, u),
                      Priced(t), Near(t.at, u.at)
               PROVE  t.id = u.id
    BY DEF OneTradePerAlert, Single, OneMessage, SamePrice, Priced
  <2>1. BInv /\ t \in Orders /\ u \in Orders /\ t.chan \in Channel /\ u.chan \in Channel
    BY <1>1, OrderIs DEF OInv, NInv, SInv, BInv, Orders, TradeType
  <2>2. Alike
    <3> SUFFICES ASSUME Single, OneMessage, NEW n \in DOMAIN queue, NEW m \in DOMAIN posts
                 PROVE  Price[queue[n].text] = Price[posts[m]]
      BY DEF Alike
    <3>1. \A x : Shown(x) => x = queue[n].text
      BY <2>1, OneText
    <3>2. \A k \in DOMAIN posts : k = m
      <4>1. DOMAIN posts = 1 .. Len(posts) /\ Len(posts) \in Nat
        BY <2>1 DEF BInv, IInv, TypeOK
      <4> QED BY <4>1 DEF OneMessage
    <3>3. Said(t) /\ Said(u)
      BY <2>1 DEF BInv, OrderKept
    <3> QED BY <2>1, <3>1, <3>2, <3>3 DEF Said, Channel, SamePrice
  <2> QED BY <1>1, <2>1, <2>2 DEF OInv, OneId
<1> QED BY <1>1, InitOInv, NextOInv, PTL DEF Spec

=============================================================================
