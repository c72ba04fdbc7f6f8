------------------------- MODULE WriterLeaseProofs -------------------------
(* Proofs about WriterLease, for every set of processes, threads, sites and  *)
(* files and every assignment of sites to files.                             *)
EXTENDS WriterLease, TLAPS

(* The guard's _lock admits one thread to the acquisition.                   *)
GuardLock ==
  \A p \in Process : \A t, u \in Thread :
    pc[p][t] \in {"locked", "issued"} /\ pc[p][u] \in {"locked", "issued"} => t = u

(* A token just issued is not yet in the guard, and nothing else is.         *)
IssuedPending ==
  \A p \in Process : \A t \in Thread :
    pc[p][t] = "issued" => token[p] = 0 /\ got[p][t] # 0

(* The tokens a process holds: in its guard, or on the way to it.            *)
Claim(p, k) ==
  /\ k # 0
  /\ \/ token[p] = k
     \/ \E t \in Thread : pc[p][t] = "issued" /\ got[p][t] = k

ClaimsBounded == \A p \in Process : \A k \in Nat : Claim(p, k) => k <= MyRow(p).token

ClaimsDistinct ==
  \A p, q \in Process : \A k \in Nat :
    Claim(p, k) /\ Claim(q, k) /\ MyFile(p) = MyFile(q) => p = q

HolderClaims ==
  \A p \in Process : \A k \in Nat :
    Claim(p, k) /\ MyRow(p).holder = p => k = MyRow(p).token

IInv ==
  /\ TypeOK
  /\ GuardLock
  /\ IssuedPending
  /\ ClaimsBounded
  /\ ClaimsDistinct
  /\ HolderClaims

(* Every process has a file, whatever the assignment.                        *)
LEMMA MyFileType == ASSUME NEW p \in Process PROVE MyFile(p) \in File
  BY SiteAssumption DEF MyFile

LEMMA ExpiryType ==
  ASSUME NEW r \in Row, NEW e \in BOOLEAN PROVE [r EXCEPT !.expired = e] \in Row
  BY DEF Row

LEMMA InitIInv == Init => IInv
<1> SUFFICES ASSUME Init PROVE IInv
  OBVIOUS
<1>1. TypeOK
  <2>1. NoRow \in Row
    BY SiteAssumption, BoundAssumption DEF NoRow, Row, AnySite
  <2> QED
    BY <2>1, BoundAssumption DEF Init, TypeOK
<1>2. GuardLock /\ IssuedPending
  BY DEF Init, GuardLock, IssuedPending
<1>3. \A p \in Process : \A k \in Nat : ~Claim(p, k)
  BY DEF Init, Claim
<1> QED
  BY <1>1, <1>2, <1>3 DEF IInv, ClaimsBounded, ClaimsDistinct, HolderClaims

LEMMA TypeStep == TypeOK /\ [Next]_vars => TypeOK'
<1> SUFFICES ASSUME TypeOK, [Next]_vars PROVE TypeOK'
  OBVIOUS
<1> USE DEF TypeOK
<1>1. ASSUME NEW p \in Process, Start(p) PROVE TypeOK'
  BY <1>1 DEF Start
<1>2. ASSUME NEW p \in Process, Stop(p) PROVE TypeOK'
  BY <1>2, BoundAssumption DEF Stop
<1>3. ASSUME NEW p \in Process, Renew(p) PROVE TypeOK'
  <2>1. [row[MyFile(p)] EXCEPT !.expired = FALSE] \in Row
    BY ExpiryType, MyFileType
  <2> QED
    BY <1>3, <2>1, MyFileType DEF Renew
<1>4. ASSUME NEW p \in Process, RequireActive(p) PROVE TypeOK'
  BY <1>4, BoundAssumption DEF RequireActive, IsActive
<1>5. ASSUME NEW p \in Process, BrokerWrite(p) PROVE TypeOK'
  BY <1>5, BoundAssumption DEF BrokerWrite
<1>7. ASSUME NEW p \in Process, NEW t \in Thread, AcquireSeesNoToken(p, t) PROVE TypeOK'
  BY <1>7 DEF AcquireSeesNoToken
<1>8. ASSUME NEW p \in Process, NEW t \in Thread, TakeGuardLock(p, t) PROVE TypeOK'
  BY <1>8 DEF TakeGuardLock
<1>9. ASSUME NEW p \in Process, NEW t \in Thread, AcquireFindsToken(p, t) PROVE TypeOK'
  BY <1>9 DEF AcquireFindsToken
<1>10. ASSUME NEW p \in Process, NEW t \in Thread, AcquireInStore(p, t) PROVE TypeOK'
  <2>1. NextToken(MyFile(p)) \in 0..MaxToken
    BY <1>10, MyFileType, BoundAssumption DEF AcquireInStore, NextToken, Row
  <2> QED
    BY <1>10, <2>1, MyFileType, SiteAssumption DEF AcquireInStore, Row
<1>11. ASSUME NEW p \in Process, NEW t \in Thread, SetToken(p, t) PROVE TypeOK'
  BY <1>11, BoundAssumption DEF SetToken
<1>12. ASSUME NEW p \in Process, NEW t \in Thread, AcquireRefused(p, t) PROVE TypeOK'
  BY <1>2, <1>12 DEF AcquireRefused
<1>13. ASSUME NEW f \in File, Expire(f) PROVE TypeOK'
  <2>1. [row[f] EXCEPT !.expired = TRUE] \in Row
    BY ExpiryType
  <2> QED
    BY <1>13, <2>1 DEF Expire
<1>14. ASSUME NEW s \in Site, Promote(s) PROVE TypeOK'
  <2>1. FileOf[s] \in File
    BY SiteAssumption
  <2>2. NextToken(FileOf[s]) \in 0..MaxToken
    BY <1>14, <2>1, BoundAssumption DEF Promote, NextToken, Row
  <2> QED
    BY <1>14, <2>1, <2>2 DEF Promote, Row
<1>15. ASSUME NEW f \in File, NEW g \in File, Restore(f, g) PROVE TypeOK'
  BY <1>15 DEF Restore
<1>16. CASE UNCHANGED vars
  BY <1>16 DEF vars
<1> QED
  BY <1>1, <1>2, <1>3, <1>4, <1>5, <1>7, <1>8, <1>9, <1>10, <1>11, <1>12,
     <1>13, <1>14, <1>15, <1>16 DEF Next

(* The part of the invariant about one process: its lock and what it has     *)
(* been issued.                                                              *)
LEMMA LockStep == IInv /\ [Next]_vars => GuardLock' /\ IssuedPending'
<1> SUFFICES ASSUME IInv, [Next]_vars PROVE GuardLock' /\ IssuedPending'
  OBVIOUS
<1> USE DEF IInv, TypeOK, GuardLock, IssuedPending
<1>1. ASSUME NEW p \in Process, Stop(p) PROVE GuardLock' /\ IssuedPending'
  BY <1>1 DEF Stop
<1>2. ASSUME NEW p \in Process, NEW t \in Thread, AcquireSeesNoToken(p, t)
      PROVE GuardLock' /\ IssuedPending'
  BY <1>2 DEF AcquireSeesNoToken
<1>3. ASSUME NEW p \in Process, NEW t \in Thread, TakeGuardLock(p, t)
      PROVE GuardLock' /\ IssuedPending'
  BY <1>3 DEF TakeGuardLock, LockFree
<1>4. ASSUME NEW p \in Process, NEW t \in Thread, AcquireFindsToken(p, t)
      PROVE GuardLock' /\ IssuedPending'
  BY <1>4 DEF AcquireFindsToken
<1>5. ASSUME NEW p \in Process, NEW t \in Thread, AcquireInStore(p, t)
      PROVE GuardLock' /\ IssuedPending'
  <2>1. NextToken(MyFile(p)) # 0
    BY MyFileType DEF NextToken, Row
  <2>2. token[p] = 0
    BY <1>5 DEF AcquireInStore, AlreadyAcquired
  <2> QED
    BY <1>5, <2>1, <2>2 DEF AcquireInStore
<1>6. ASSUME NEW p \in Process, NEW t \in Thread, SetToken(p, t)
      PROVE GuardLock' /\ IssuedPending'
  BY <1>6 DEF SetToken
<1>7. ASSUME NEW p \in Process, NEW t \in Thread, AcquireRefused(p, t)
      PROVE GuardLock' /\ IssuedPending'
  BY <1>1, <1>7 DEF AcquireRefused
<1>8. ASSUME UNCHANGED <<token, pc, got>> PROVE GuardLock' /\ IssuedPending'
  BY <1>8
<1> QED
  BY <1>1, <1>2, <1>3, <1>4, <1>5, <1>6, <1>7, <1>8
     DEF Next, Start, Renew, RequireActive, BrokerWrite, Expire, Promote,
         Restore, vars

Claims == ClaimsBounded /\ ClaimsDistinct /\ HolderClaims

(* A step that issues nothing: no process claims more, no row's token or     *)
(* holder changes.                                                           *)
Quiet ==
  /\ \A p \in Process : \A k \in Nat : Claim(p, k)' => Claim(p, k)
  /\ \A f \in File : row'[f].token = row[f].token /\ row'[f].holder = row[f].holder

LEMMA QuietStep == ASSUME Claims, Quiet PROVE Claims'
<1>1. \A p \in Process : MyRow(p)'.token = MyRow(p).token /\ MyRow(p)'.holder = MyRow(p).holder
  BY MyFileType DEF Quiet, MyRow, MyFile
<1>2. ClaimsBounded'
  BY <1>1 DEF Claims, ClaimsBounded, Quiet
<1>3. ClaimsDistinct'
  BY DEF Claims, ClaimsDistinct, Quiet, MyFile
<1>4. HolderClaims'
  BY <1>1 DEF Claims, HolderClaims, Quiet
<1> QED
  BY <1>2, <1>3, <1>4 DEF Claims

LEMMA StopQuiet == ASSUME IInv, NEW p \in Process, Stop(p) PROVE Quiet
<1>1. \A q \in Process : \A k \in Nat : Claim(q, k)' => Claim(q, k)
  BY DEF Stop, Claim, IInv, TypeOK
<1> QED
  BY <1>1 DEF Stop, Quiet

LEMMA SetTokenQuiet ==
  ASSUME IInv, NEW p \in Process, NEW t \in Thread, SetToken(p, t) PROVE Quiet
<1>1. \A q \in Process : \A k \in Nat : Claim(q, k)' => Claim(q, k)
  <2> SUFFICES ASSUME NEW q \in Process, NEW k \in Nat, Claim(q, k)' PROVE Claim(q, k)
    OBVIOUS
  <2>1. CASE q = p
    BY <2>1 DEF SetToken, Claim, IInv, TypeOK
  <2>2. CASE q # p
    BY <2>2 DEF SetToken, Claim, IInv, TypeOK
  <2> QED
    BY <2>1, <2>2
<1> QED
  BY <1>1 DEF SetToken, Quiet

(* A step that issues nothing and moves a thread only between the places     *)
(* before the store call.                                                    *)
LEMMA ThreadQuiet ==
  ASSUME IInv, UNCHANGED <<row, token, got>>,
         \A q \in Process : \A u \in Thread : pc'[q][u] = "issued" => pc[q][u] = "issued"
  PROVE  Quiet
  BY DEF Quiet, Claim

LEMMA ExpiryQuiet ==
  ASSUME IInv, NEW f \in File, NEW e \in BOOLEAN, UNCHANGED <<token, pc, got>>,
         row' = [row EXCEPT ![f].expired = e]
  PROVE  Quiet
<1>1. \A q \in Process : \A k \in Nat : Claim(q, k)' => Claim(q, k)
  BY DEF Claim
<1>2. \A g \in File : row'[g].token = row[g].token /\ row'[g].holder = row[g].holder
  BY DEF IInv, TypeOK, Row
<1> QED
  BY <1>1, <1>2 DEF Quiet

(* The transaction issues one more than every token ever claimed on the      *)
(* file, to a process that held none.                                        *)
LEMMA AcquireClaims ==
  ASSUME IInv, NEW p \in Process, NEW t \in Thread, AcquireInStore(p, t)
  PROVE  Claims'
<1> DEFINE f == MyFile(p)
           n == row[f].token + 1
<1>1. f \in File /\ row[f].token \in Nat /\ n \in Nat /\ n # 0
  BY MyFileType DEF IInv, TypeOK, Row
<1>2. /\ row' = [row EXCEPT ![f] = [token |-> n, site |-> SiteOf[p], holder |-> p, expired |-> FALSE]]
      /\ got' = [got EXCEPT ![p][t] = n]
      /\ pc' = [pc EXCEPT ![p][t] = "issued"]
      /\ token' = token
  BY DEF AcquireInStore, NextToken
<1>3. token[p] = 0 /\ \A u \in Thread : u # t => pc[p][u] # "issued"
  BY DEF AcquireInStore, AlreadyAcquired, IInv, GuardLock
<1>4. \A k \in Nat : Claim(p, k)' => k = n
  BY <1>1, <1>2, <1>3 DEF Claim, IInv, TypeOK
<1>5. \A q \in Process : q # p => \A k \in Nat : Claim(q, k)' => Claim(q, k)
  BY <1>2 DEF Claim, IInv, TypeOK
<1>6. \A q \in Process : MyFile(q) \in File /\
        IF MyFile(q) = f THEN MyRow(q)'.token = n /\ MyRow(q)'.holder = p
                         ELSE MyRow(q)' = MyRow(q)
  BY <1>1, <1>2, MyFileType DEF MyRow, MyFile, IInv, TypeOK
<1>7. \A q \in Process : \A k \in Nat : q # p /\ MyFile(q) = f /\ Claim(q, k) => k < n
  BY <1>1 DEF IInv, ClaimsBounded, MyRow
<1>8. ClaimsBounded'
  <2> SUFFICES ASSUME NEW q \in Process, NEW k \in Nat, Claim(q, k)' PROVE k <= MyRow(q)'.token
    BY DEF ClaimsBounded
  <2>1. CASE q = p
    BY <2>1, <1>4, <1>6
  <2>2. CASE q # p /\ MyFile(q) = f
    BY <2>2, <1>1, <1>5, <1>6, <1>7
  <2>3. CASE q # p /\ MyFile(q) # f
    BY <2>3, <1>5, <1>6 DEF IInv, ClaimsBounded
  <2> QED
    BY <2>1, <2>2, <2>3
<1>9. ClaimsDistinct'
  <2> SUFFICES ASSUME NEW q \in Process, NEW r \in Process, NEW k \in Nat,
                      Claim(q, k)', Claim(r, k)', MyFile(q) = MyFile(r)
               PROVE  q = r
    BY DEF ClaimsDistinct, MyFile
  <2>1. CASE q # p /\ r # p
    BY <2>1, <1>5 DEF IInv, ClaimsDistinct
  <2>2. CASE q = p /\ r # p
    BY <2>2, <1>1, <1>4, <1>5, <1>7
  <2>3. CASE q # p /\ r = p
    BY <2>3, <1>1, <1>4, <1>5, <1>7
  <2> QED
    BY <2>1, <2>2, <2>3
<1>10. HolderClaims'
  <2> SUFFICES ASSUME NEW q \in Process, NEW k \in Nat, Claim(q, k)', MyRow(q)'.holder = q
               PROVE  k = MyRow(q)'.token
    BY DEF HolderClaims
  <2>1. CASE q = p
    BY <2>1, <1>4, <1>6
  <2>2. CASE q # p
    BY <2>2, <1>5, <1>6 DEF IInv, HolderClaims
  <2> QED
    BY <2>1, <2>2
<1> QED
  BY <1>8, <1>9, <1>10 DEF Claims

LEMMA PromoteClaims ==
  ASSUME IInv, NEW s \in Site, Promote(s), OperatorAssumption PROVE Claims'
<1> DEFINE f == FileOf[s]
<1>1. f \in File /\ row[f].token \in Nat
  BY SiteAssumption DEF IInv, TypeOK, Row
<1>2. \A q \in Process : \A k \in Nat : Claim(q, k)' <=> Claim(q, k)
  BY DEF Promote, Claim
<1>3. \A q \in Process :
        IF MyFile(q) = f
          THEN MyRow(q).token = row[f].token /\ MyRow(q)'.token = row[f].token + 1
               /\ MyRow(q)'.holder = Operator
          ELSE MyRow(q)' = MyRow(q)
  BY <1>1, MyFileType DEF Promote, NextToken, MyRow, MyFile, IInv, TypeOK
<1>4. ClaimsBounded'
  BY <1>1, <1>2, <1>3 DEF IInv, ClaimsBounded
<1>5. ClaimsDistinct'
  BY <1>2 DEF IInv, ClaimsDistinct, MyFile
<1>6. HolderClaims'
  BY <1>2, <1>3, OperatorAssumption DEF IInv, HolderClaims
<1> QED
  BY <1>4, <1>5, <1>6 DEF Claims

(* Restore replaces a file none of whose processes runs, so none claims.     *)
LEMMA RestoreClaims ==
  ASSUME IInv, NEW f \in File, NEW g \in File, Restore(f, g) PROVE Claims'
<1>1. \A q \in Process : \A k \in Nat : Claim(q, k)' <=> Claim(q, k)
  BY DEF Restore, Claim
<1>2. \A q \in Process : \A k \in Nat : MyFile(q) = f => ~Claim(q, k)
  BY DEF Restore, Claim, IInv, TypeOK
<1>3. \A q \in Process : MyFile(q) # f => MyRow(q)' = MyRow(q)
  BY MyFileType DEF Restore, MyRow, MyFile, IInv, TypeOK
<1>4. ClaimsBounded' /\ HolderClaims'
  BY <1>1, <1>2, <1>3 DEF IInv, ClaimsBounded, HolderClaims
<1>5. ClaimsDistinct'
  BY <1>1 DEF IInv, ClaimsDistinct, MyFile
<1> QED
  BY <1>4, <1>5 DEF Claims

LEMMA ClaimsStep == IInv /\ [Next]_vars => Claims'
<1> SUFFICES ASSUME IInv, [Next]_vars PROVE Claims'
  OBVIOUS
<1>1. Quiet => Claims'
  BY QuietStep DEF IInv, Claims
<1>2. ASSUME NEW p \in Process, Stop(p) PROVE Claims'
  BY <1>1, <1>2, StopQuiet
<1>3. ASSUME NEW p \in Process, Renew(p) PROVE Claims'
  BY <1>1, <1>3, ExpiryQuiet, MyFileType DEF Renew
<1>4. ASSUME NEW f \in File, Expire(f) PROVE Claims'
  BY <1>1, <1>4, ExpiryQuiet DEF Expire
<1>5. ASSUME NEW p \in Process, NEW t \in Thread,
             AcquireSeesNoToken(p, t) \/ TakeGuardLock(p, t) \/ AcquireFindsToken(p, t)
      PROVE  Claims'
  <2>1. \A q \in Process : \A u \in Thread : pc'[q][u] = "issued" => pc[q][u] = "issued"
    <3>1. pc \in [Process -> [Thread -> {"idle", "waiting", "locked", "issued"}]]
      BY DEF IInv, TypeOK
    <3>2. CASE AcquireSeesNoToken(p, t)
      BY <3>1, <3>2 DEF AcquireSeesNoToken
    <3>3. CASE TakeGuardLock(p, t)
      BY <3>1, <3>3 DEF TakeGuardLock
    <3>4. CASE AcquireFindsToken(p, t)
      BY <3>1, <3>4 DEF AcquireFindsToken
    <3> QED
      BY <1>5, <3>2, <3>3, <3>4
  <2>2. UNCHANGED <<row, token, got>>
    BY <1>5 DEF AcquireSeesNoToken, TakeGuardLock, AcquireFindsToken
  <2> QED
    BY <1>1, <2>1, <2>2, ThreadQuiet
<1>6. ASSUME NEW p \in Process, NEW t \in Thread, SetToken(p, t) PROVE Claims'
  BY <1>1, <1>6, SetTokenQuiet
<1>7. ASSUME NEW p \in Process, NEW t \in Thread, AcquireRefused(p, t) PROVE Claims'
  BY <1>2, <1>7 DEF AcquireRefused
<1>8. ASSUME NEW p \in Process, NEW t \in Thread, AcquireInStore(p, t) PROVE Claims'
  BY <1>8, AcquireClaims
<1>9. ASSUME NEW s \in Site, Promote(s) PROVE Claims'
  BY <1>9, PromoteClaims, OperatorAssumption
<1>10. ASSUME NEW f \in File, NEW g \in File, Restore(f, g) PROVE Claims'
  BY <1>10, RestoreClaims
<1>11. ASSUME UNCHANGED <<row, token, pc, got>> PROVE Claims'
  BY <1>1, <1>11, ThreadQuiet
<1> QED
  BY <1>2, <1>3, <1>4, <1>5, <1>6, <1>7, <1>8, <1>9, <1>10, <1>11
     DEF Next, Start, RequireActive, BrokerWrite, vars

LEMMA Inductive == Spec => []IInv
<1>1. IInv /\ [Next]_vars => IInv'
  BY TypeStep, LockStep, ClaimsStep DEF IInv, Claims
<1> QED
  BY InitIInv, <1>1, PTL DEF Spec

(* Type correctness of the fence, and that a stopped process keeps nothing.  *)
THEOREM TypeCorrect == Spec => []TypeOK
  BY Inductive, PTL DEF IInv

(* At most one process over a database file passes require_active.           *)
THEOREM SingleWriter == Spec => []OneActivePerFile
<1>1. IInv => OneActivePerFile
  BY MyFileType DEF IInv, TypeOK, Row, ClaimsDistinct, OneActivePerFile, IsActive, Claim, MyRow
<1> QED
  BY <1>1, Inductive, PTL

(* No process is fenced by its own acquisition.                              *)
THEOREM NeverSelfFenced == Spec => []NotSelfFenced
<1>1. IInv => NotSelfFenced
  BY DEF IInv, TypeOK, HolderClaims, NotSelfFenced, Claim
<1> QED
  BY <1>1, Inductive, PTL

(* The token of a file whose process runs on never goes down.                *)
LEMMA TokenMonotonic ==
  ASSUME IInv, [Next]_vars, NEW p \in Process, up[p], up'[p]
  PROVE  MyRow(p).token <= MyRow(p)'.token
<1>1. MyFile(p) \in File /\ MyRow(p).token \in Nat /\ MyRow(p)' = row'[MyFile(p)]
  BY MyFileType DEF IInv, TypeOK, Row, MyRow, MyFile
<1>2. ASSUME row' = row PROVE MyRow(p).token <= MyRow(p)'.token
  BY <1>1, <1>2 DEF MyRow
<1>3. ASSUME NEW q \in Process, Renew(q) PROVE MyRow(p).token <= MyRow(p)'.token
  BY <1>1, <1>3, ExpiryQuiet, MyFileType DEF Renew, Quiet, MyRow
<1>4. ASSUME NEW f \in File, Expire(f) PROVE MyRow(p).token <= MyRow(p)'.token
  BY <1>1, <1>4, ExpiryQuiet DEF Expire, Quiet, MyRow
<1>5. ASSUME NEW q \in Process, NEW t \in Thread, AcquireInStore(q, t)
      PROVE  MyRow(p).token <= MyRow(p)'.token
  BY <1>1, <1>5, MyFileType DEF AcquireInStore, NextToken, MyRow, IInv, TypeOK
<1>6. ASSUME NEW s \in Site, Promote(s) PROVE MyRow(p).token <= MyRow(p)'.token
  BY <1>1, <1>6, SiteAssumption DEF Promote, NextToken, MyRow, IInv, TypeOK
<1>7. ASSUME NEW f \in File, NEW g \in File, Restore(f, g)
      PROVE  MyRow(p).token <= MyRow(p)'.token
  BY <1>1, <1>7 DEF Restore, MyRow, IInv, TypeOK
<1> QED
  BY <1>2, <1>3, <1>4, <1>5, <1>6, <1>7
     DEF Next, Start, Stop, RequireActive, BrokerWrite, AcquireSeesNoToken,
         TakeGuardLock, AcquireFindsToken, SetToken, AcquireRefused, vars

(* A superseded process keeps the token it has and begins no command.        *)
LEMMA FencedStep ==
  ASSUME IInv, [Next]_vars, NEW p \in Process, Superseded(p), up'[p]
  PROVE  Superseded(p)' /\ inflight'[p] <= inflight[p]
<1>1. /\ token[p] \in Nat /\ token[p] # 0 /\ inflight[p] \in Nat
      /\ MyRow(p).token \in Nat /\ MyRow(p)'.token \in Nat
  BY TypeStep, MyFileType DEF Superseded, IInv, TypeOK, Row, MyRow, MyFile
<1>2. token[p] < MyRow(p).token
  BY <1>1 DEF Superseded, IInv, ClaimsBounded, Claim
<1>3. MyRow(p).token <= MyRow(p)'.token
  BY TokenMonotonic DEF Superseded
<1>4. token'[p] = token[p]
  <2>1. ASSUME NEW q \in Process, Stop(q) PROVE token'[p] = token[p]
    BY <2>1 DEF Stop, IInv, TypeOK
  <2>2. ASSUME NEW q \in Process, NEW t \in Thread, AcquireRefused(q, t) PROVE token'[p] = token[p]
    BY <2>1, <2>2 DEF AcquireRefused
  <2>3. ASSUME NEW q \in Process, NEW t \in Thread, SetToken(q, t) PROVE token'[p] = token[p]
    BY <2>3, <1>1 DEF SetToken, IInv, TypeOK, IssuedPending
  <2> QED
    BY <2>1, <2>2, <2>3
       DEF Next, Start, Renew, RequireActive, BrokerWrite, AcquireSeesNoToken,
           TakeGuardLock, AcquireFindsToken, AcquireInStore, Expire, Promote, Restore, vars
<1>5. inflight'[p] <= inflight[p]
  <2>1. ASSUME NEW q \in Process, Stop(q) PROVE inflight'[p] <= inflight[p]
    BY <2>1, <1>1 DEF Stop, IInv, TypeOK
  <2>2. ASSUME NEW q \in Process, NEW t \in Thread, AcquireRefused(q, t)
        PROVE  inflight'[p] <= inflight[p]
    BY <2>1, <2>2 DEF AcquireRefused
  <2>3. ASSUME NEW q \in Process, RequireActive(q) PROVE inflight'[p] <= inflight[p]
    BY <2>3, <1>1 DEF RequireActive, IsActive, Superseded, IInv, TypeOK
  <2>4. ASSUME NEW q \in Process, BrokerWrite(q) PROVE inflight'[p] <= inflight[p]
    BY <2>4, <1>1 DEF BrokerWrite, IInv, TypeOK
  <2>5. ASSUME UNCHANGED inflight PROVE inflight'[p] <= inflight[p]
    BY <2>5, <1>1
  <2> QED
    BY <2>1, <2>2, <2>3, <2>4, <2>5
       DEF Next, Start, Renew, AcquireSeesNoToken, TakeGuardLock,
           AcquireFindsToken, AcquireInStore, SetToken, Expire, Promote, Restore, vars
<1> QED
  BY <1>1, <1>2, <1>3, <1>4, <1>5 DEF Superseded

(* A fenced process stays fenced until it stops, and writes no more than it  *)
(* had already been cleared for.                                             *)
THEOREM FencedStaysFenced == Spec => FencedForGood
<1>1. IInv /\ [Next]_vars =>
        [\A p \in Process :
           Superseded(p) /\ up'[p] => Superseded(p)' /\ inflight'[p] <= inflight[p]]_vars
  BY FencedStep
<1> QED
  BY <1>1, Inductive, PTL DEF Spec, FencedForGood

(* Where the site of an acquired row changes, an operator made the change.   *)
LEMMA TakeoverStep ==
  ASSUME IInv, [Next]_vars, NEW f \in File, row[f].token # 0, row'[f].site # row[f].site
  PROVE  \/ row[f].expired /\ row'[f].holder = Operator
         \/ \E g \in File : Restore(f, g)
<1>1. row \in [File -> Row]
  BY DEF IInv, TypeOK
<1>2. ASSUME row' = row PROVE FALSE
  BY <1>2
<1>3. ASSUME NEW p \in Process, Renew(p) PROVE FALSE
  BY <1>1, <1>3, MyFileType DEF Renew, Row
<1>4. ASSUME NEW g \in File, Expire(g) PROVE FALSE
  BY <1>1, <1>4 DEF Expire, Row
<1>5. ASSUME NEW p \in Process, NEW t \in Thread, AcquireInStore(p, t) PROVE FALSE
  BY <1>1, <1>5, MyFileType DEF AcquireInStore, MayReacquire, MyRow
<1>6. ASSUME NEW s \in Site, Promote(s) PROVE row[f].expired /\ row'[f].holder = Operator
  BY <1>1, <1>6, SiteAssumption DEF Promote, MayPromote
<1>7. ASSUME NEW g \in File, NEW h \in File, Restore(g, h) PROVE \E k \in File : Restore(f, k)
  <2>1. f = g
    BY <1>1, <1>7 DEF Restore
  <2> QED
    BY <1>7, <2>1
<1> QED
  BY <1>2, <1>3, <1>4, <1>5, <1>6, <1>7
     DEF Next, Start, Stop, RequireActive, BrokerWrite, AcquireSeesNoToken,
         TakeGuardLock, AcquireFindsToken, SetToken, AcquireRefused, vars

(* The writer role leaves a site only by a promotion over an expired lease   *)
(* or by a restore of the file.                                              *)
THEOREM TakeoversDeliberate == Spec => TakeoverIsDeliberate
<1>1. IInv /\ [Next]_vars =>
        [\A f \in File :
           row[f].token # 0 /\ row'[f].site # row[f].site =>
              \/ row[f].expired /\ row'[f].holder = Operator
              \/ \E g \in File : Restore(f, g)]_vars
  BY TakeoverStep
<1> QED
  BY <1>1, Inductive, PTL DEF Spec, TakeoverIsDeliberate
=============================================================================
