---------------------------- MODULE WriterLease ----------------------------
(* The single-writer fence of signal-copier: the one-row writer_lease table  *)
(* (app/db.py) and the WriterLeaseGuard each process keeps over it           *)
(* (app/writer_lease.py), with the promotion command (app/promote_cli.py),   *)
(* the heartbeat of app/main.py, and the commands the fence protects.        *)
(*                                                                           *)
(* A process belongs to a site; a site opens one SQLite file.  FileOf says   *)
(* which: one file for all sites is the shared database the fence was        *)
(* written for, one file per site is the Litestream deployment of            *)
(* deploy/RUNBOOK.md, where a site starts from a restored copy.              *)
(* expires_at is abstracted to the question the code asks of it: has it      *)
(* passed?  A holder_id is the process that generated it.                    *)
EXTENDS Naturals

CONSTANTS Process, Thread, Site, File,
          SiteOf,      \* the WRITER_SITE_ID of a process
          FileOf,      \* the database file of a site (config.DATABASE_PATH)
          Operator,    \* the holder of a lease taken by promote_cli
          MaxToken,    \* bound: fencing tokens issued
          MaxInFlight  \* bound: commands of one process between check and write

ASSUME SiteAssumption == Site # {} /\ SiteOf \in [Process -> Site] /\ FileOf \in [Site -> File]
ASSUME BoundAssumption == MaxToken \in Nat /\ MaxInFlight \in Nat
ASSUME OperatorAssumption == Operator \notin Process

VARIABLES
  row,      \* row[f]: the writer_lease row of file f; token 0 is "no row"
  up,       \* up[p]: process p runs as an active (not STANDBY_MODE) writer
  token,    \* token[p]: WriterLeaseGuard._token, 0 for None
  pc,       \* pc[p][t]: where thread t of p is inside acquire()
  got,      \* got[p][t]: the record thread t's store call returned
  inflight  \* inflight[p]: commands of p past require_active, not yet written

vars == <<row, up, token, pc, got, inflight>>

AnySite == CHOOSE s \in Site : TRUE
NoRow == [token |-> 0, site |-> AnySite, holder |-> Operator, expired |-> TRUE]
Row == [token : 0..MaxToken, site : Site, holder : Process \cup {Operator}, expired : BOOLEAN]

MyFile(p) == FileOf[SiteOf[p]]
MyRow(p) == row[MyFile(p)]

(* The values the variables take, and that a stopped process keeps nothing.  *)
TypeOK ==
  /\ row \in [File -> Row]
  /\ up \in [Process -> BOOLEAN]
  /\ token \in [Process -> 0..MaxToken]
  /\ pc \in [Process -> [Thread -> {"idle", "waiting", "locked", "issued"}]]
  /\ got \in [Process -> [Thread -> 0..MaxToken]]
  /\ inflight \in [Process -> 0..MaxInFlight]
  /\ \A p \in Process : ~up[p] =>
       token[p] = 0 /\ inflight[p] = 0 /\ \A t \in Thread : pc[p][t] = "idle"

Init ==
  /\ row = [f \in File |-> NoRow]
  /\ up = [p \in Process |-> FALSE]
  /\ token = [p \in Process |-> 0]
  /\ pc = [p \in Process |-> [t \in Thread |-> "idle"]]
  /\ got = [p \in Process |-> [t \in Thread |-> 0]]
  /\ inflight = [p \in Process |-> 0]

-----------------------------------------------------------------------------
(* Process life.  A new process always has a new guard with _token None.     *)

Start(p) ==
  /\ ~up[p]
  /\ up' = [up EXCEPT ![p] = TRUE]
  /\ UNCHANGED <<row, token, pc, got, inflight>>

BugKeepsToken(p) == \* _token outlives the process
  /\ up[p]
  /\ up' = [up EXCEPT ![p] = FALSE]
  /\ pc' = [pc EXCEPT ![p] = [t \in Thread |-> "idle"]]
  /\ got' = [got EXCEPT ![p] = [t \in Thread |-> 0]]
  /\ UNCHANGED <<row, token, inflight>>
Stop(p) ==
  /\ up[p]
  /\ up' = [up EXCEPT ![p] = FALSE]
  /\ token' = [token EXCEPT ![p] = 0]
  /\ pc' = [pc EXCEPT ![p] = [t \in Thread |-> "idle"]]
  /\ got' = [got EXCEPT ![p] = [t \in Thread |-> 0]]
  /\ inflight' = [inflight EXCEPT ![p] = 0]
  /\ UNCHANGED row

-----------------------------------------------------------------------------
(* WriterLeaseGuard.acquire, entered by several threads of one process.      *)

LockFree(p) == \A t \in Thread : pc[p][t] \notin {"locked", "issued"}

AcquireSeesNoToken(p, t) ==
  /\ up[p] /\ pc[p][t] = "idle" /\ token[p] = 0
  /\ pc' = [pc EXCEPT ![p][t] = "waiting"]
  /\ UNCHANGED <<row, up, token, got, inflight>>

TakeGuardLock(p, t) ==
  /\ pc[p][t] = "waiting" /\ LockFree(p)
  /\ pc' = [pc EXCEPT ![p][t] = "locked"]
  /\ UNCHANGED <<row, up, token, got, inflight>>

(* The second test of _token, under the lock.                                *)
BugNoRecheck(p) == FALSE
AlreadyAcquired(p) == token[p] # 0

AcquireFindsToken(p, t) ==
  /\ pc[p][t] = "locked" /\ AlreadyAcquired(p)
  /\ pc' = [pc EXCEPT ![p][t] = "idle"]
  /\ UNCHANGED <<row, up, token, got, inflight>>

BugNoBump(f) == IF row[f].token = 0 THEN 1 ELSE row[f].token
NextToken(f) == row[f].token + 1

BugExpiredIsFree(p) ==
  MyRow(p).token = 0 \/ MyRow(p).site = SiteOf[p] \/ MyRow(p).expired
MayReacquire(p) == MyRow(p).token = 0 \/ MyRow(p).site = SiteOf[p]

(* acquire_or_reacquire_writer_lease: one BEGIN IMMEDIATE transaction.       *)
AcquireInStore(p, t) ==
  LET f == MyFile(p) IN
  /\ pc[p][t] = "locked" /\ ~AlreadyAcquired(p) /\ MayReacquire(p)
  /\ row[f].token < MaxToken
  /\ row' = [row EXCEPT ![f] = [token |-> NextToken(f), site |-> SiteOf[p],
                                holder |-> p, expired |-> FALSE]]
  /\ got' = [got EXCEPT ![p][t] = NextToken(f)]
  /\ pc' = [pc EXCEPT ![p][t] = "issued"]
  /\ UNCHANGED <<up, token, inflight>>

SetToken(p, t) ==
  /\ pc[p][t] = "issued"
  /\ token' = [token EXCEPT ![p] = got[p][t]]
  /\ got' = [got EXCEPT ![p][t] = 0]
  /\ pc' = [pc EXCEPT ![p][t] = "idle"]
  /\ UNCHANGED <<row, up, inflight>>

(* WriterLeaseHeldByAnotherSiteError is not caught: the import fails and the *)
(* process with it.                                                          *)
AcquireRefused(p, t) ==
  /\ pc[p][t] = "locked" /\ ~AlreadyAcquired(p) /\ ~MayReacquire(p)
  /\ Stop(p)

-----------------------------------------------------------------------------
(* The heartbeat, the passing of expires_at, promotion, and restore.         *)

BugRenewRearms(p) == \* a fenced heartbeat takes the new token over
  /\ up[p] /\ token[p] # 0 /\ LockFree(p)
  /\ token' = [token EXCEPT ![p] = MyRow(p).token]
  /\ UNCHANGED <<row, up, pc, got, inflight>>
Renew(p) ==
  /\ up[p] /\ token[p] # 0 /\ LockFree(p)
  /\ MyRow(p).holder = p /\ MyRow(p).token = token[p]
  /\ row' = [row EXCEPT ![MyFile(p)].expired = FALSE]
  /\ UNCHANGED <<up, token, pc, got, inflight>>

Expire(f) ==
  /\ row[f].token # 0
  /\ row' = [row EXCEPT ![f].expired = TRUE]
  /\ UNCHANGED <<up, token, pc, got, inflight>>

MayPromote(f) == row[f].token = 0 \/ row[f].expired

Promote(s) ==
  LET f == FileOf[s] IN
  /\ MayPromote(f)
  /\ row[f].token < MaxToken
  /\ row' = [row EXCEPT ![f] = [token |-> NextToken(f), site |-> s,
                                holder |-> Operator, expired |-> FALSE]]
  /\ UNCHANGED <<up, token, pc, got, inflight>>

(* RUNBOOK step 3: a stopped site replaces its file by a Litestream restore  *)
(* of another site's (external).                                             *)
Restore(f, g) ==
  /\ f # g
  /\ \A p \in Process : MyFile(p) = f => ~up[p]
  /\ row' = [row EXCEPT ![f] = row[g]]
  /\ UNCHANGED <<up, token, pc, got, inflight>>

-----------------------------------------------------------------------------
(* Commands.  require_active reads the row; the broker call comes after      *)
(* further awaits, and the row is not read again.                            *)

IsActive(p) == up[p] /\ token[p] # 0 /\ MyRow(p).token = token[p]

RequireActive(p) ==
  /\ IsActive(p) /\ inflight[p] < MaxInFlight
  /\ inflight' = [inflight EXCEPT ![p] = @ + 1]
  /\ UNCHANGED <<row, up, token, pc, got>>

BrokerWrite(p) ==
  /\ inflight[p] > 0
  /\ inflight' = [inflight EXCEPT ![p] = @ - 1]
  /\ UNCHANGED <<row, up, token, pc, got>>

Next ==
  \/ \E p \in Process :
       \/ Start(p) \/ Stop(p) \/ Renew(p)
       \/ RequireActive(p) \/ BrokerWrite(p)
       \/ \E t \in Thread :
            \/ AcquireSeesNoToken(p, t) \/ TakeGuardLock(p, t)
            \/ AcquireFindsToken(p, t) \/ AcquireInStore(p, t)
            \/ SetToken(p, t) \/ AcquireRefused(p, t)
  \/ \E f \in File : Expire(f)
  \/ \E s \in Site : Promote(s)
  \/ \E f, g \in File : Restore(f, g)

Spec == Init /\ [][Next]_vars

-----------------------------------------------------------------------------
(* Properties.                                                               *)

(* Of all processes over one database file at most one passes require_active *)
(* (docs/FAILOVER.md, "what keeps a second writer from executing"): a token  *)
(* is never held twice, through restarts, promotions and racing threads.     *)
OneActivePerFile ==
  \A p, q \in Process :
    p # q /\ MyFile(p) = MyFile(q) => ~(IsActive(p) /\ IsActive(q))

(* The same claim for the deployment as a whole, as RUNBOOK step 2 makes it: *)
(* a promotion leaves no other process, on either site, able to pass.        *)
OneActive == \A p, q \in Process : p # q => ~(IsActive(p) /\ IsActive(q))

(* A process is fenced by others, never by itself: while the row names it as *)
(* holder its own guard has the row's token (the race the comment on         *)
(* WriterLeaseGuard._lock describes).                                        *)
NotSelfFenced ==
  \A p \in Process :
    token[p] # 0 /\ MyRow(p).holder = p => token[p] = MyRow(p).token

Superseded(p) == up[p] /\ token[p] # 0 /\ MyRow(p).token # token[p]

(* A superseded process never becomes the writer again in the same run of it *)
(* and starts no further command: what it can still write is what was past   *)
(* its check when the new token was issued.                                  *)
FencedForGood ==
  [][\A p \in Process :
       Superseded(p) /\ up'[p] => Superseded(p)' /\ inflight'[p] <= inflight[p]]_vars

(* In a file the writer role moves to another site only by what an operator  *)
(* does: a promotion once the lease has expired, or a restore of the whole   *)
(* file.  Neither a crash nor a missed heartbeat hands it over               *)
(* (docs/FAILOVER.md).                                                       *)
TakeoverIsDeliberate ==
  [][\A f \in File :
       row[f].token # 0 /\ row'[f].site # row[f].site =>
          \/ row[f].expired /\ row'[f].holder = Operator
          \/ \E g \in File : Restore(f, g)]_vars
=============================================================================
