------------------------- MODULE CloseArbiterProofs -------------------------
(* What the arbiter guarantees, for any set of keys and any quantities.      *)
(*                                                                           *)
(* The inductive invariant says of every pair of a ledger and the quantity   *)
(* callers have in flight, the live one and the one in the saved row, that   *)
(* they agree and that an unhalted ledger owns what is in flight.  The saved *)
(* pair is needed because Restart makes it the live one.                     *)
EXTENDS CloseArbiter, TLAPS

(* What a ledger l and a quantity n in flight have to do with each other.    *)
Sound(l, n) ==
  /\ l \in Ledger
  /\ n \in Nat
  /\ l.reserved = n
  /\ ~l.halted => n <= l.owned

IInv ==
  /\ ledger \in [Key -> Ledger]
  /\ inflight \in [Key -> Nat]
  /\ saved \in [Key -> [ledger : Ledger, inflight : Nat]]
  /\ \A k \in Key : Sound(ledger[k], inflight[k])
  /\ \A k \in Key : Sound(saved[k].ledger, saved[k].inflight)

-----------------------------------------------------------------------------
(* The lemmas: each operation on a sound ledger gives a sound ledger.        *)

(* _check_invariant establishes what it checks.                              *)
LEMMA CheckIsSound ==
  ASSUME NEW l \in Ledger
  PROVE  Sound(CheckInvariant(l), l.reserved)
<1>1. l.owned \in Int /\ l.reserved \in Nat
  BY DEF Ledger
<1>2. CASE l.owned < 0 \/ l.reserved > l.owned
  <2> DEFINE m == [l EXCEPT !.halted = TRUE]
  <2>1. m \in Ledger /\ m.reserved = l.reserved /\ m.halted
    BY DEF Ledger
  <2>2. CheckInvariant(l) = m
    BY <1>2 DEF CheckInvariant
  <2> HIDE DEF m
  <2> QED BY <1>1, <2>1, <2>2 DEF Sound
<1>3. CASE ~(l.owned < 0 \/ l.reserved > l.owned)
  BY <1>1, <1>3 DEF CheckInvariant, Sound
<1> QED BY <1>2, <1>3

(* A reservation that is granted leaves reserved within owned.               *)
LEMMA ReserveIsSound ==
  ASSUME NEW l \in Ledger, NEW n, Sound(l, n),
         NEW q \in 1..MaxOwned, MayReserve(l, q)
  PROVE  Sound(ReserveIn(l, q), n + q)
<1> DEFINE m == [l EXCEPT !.reserved = @ + q]
<1>1. m \in Ledger /\ m.reserved = n + q
  BY MaxOwnedAssumption DEF Ledger, Sound
<1>2. ReserveIn(l, q) = CheckInvariant(m)
  BY DEF ReserveIn
<1> HIDE DEF m
<1> QED BY <1>1, <1>2, CheckIsSound

(* A settlement or a release takes away exactly what was in flight.          *)
LEMMA SettleIsSound ==
  ASSUME NEW l \in Ledger, NEW n, Sound(l, n),
         NEW r \in 0..MaxOwned, NEW f \in 0..MaxOwned, r <= n
  PROVE  Sound(SettleIn(l, r, f), n - r)
<1> DEFINE m == [l EXCEPT !.reserved = AtLeastZero(@ - r), !.owned = @ - f]
<1>0. /\ l.owned \in Int /\ n \in Nat /\ l.reserved = n
      /\ r \in Nat /\ f \in Nat /\ r <= n
  BY MaxOwnedAssumption DEF Ledger, Sound
<1>1. m \in Ledger /\ m.reserved = n - r
  <2>1. AtLeastZero(l.reserved - r) = n - r /\ n - r \in Nat
    BY <1>0 DEF AtLeastZero
  <2>2. l.owned - f \in Int
    BY <1>0
  <2> QED BY <2>1, <2>2 DEF Ledger
<1>2. SettleIn(l, r, f) = CheckInvariant(m)
  BY DEF SettleIn
<1> HIDE DEF m
<1> QED BY <1>1, <1>2, CheckIsSound

LEMMA ReleaseIsSound ==
  ASSUME NEW l \in Ledger, NEW n, Sound(l, n), NEW q \in 1..MaxOwned, q <= n
  PROVE  Sound(ReleaseIn(l, q), n - q)
BY MaxOwnedAssumption DEF Ledger, Sound, ReleaseIn, AtLeastZero

(* Owned may be set outright as long as it covers what is reserved.          *)
LEMMA SetOwnedIsSound ==
  ASSUME NEW l \in Ledger, NEW n, Sound(l, n), NEW q \in 0..MaxOwned, q >= l.reserved
  PROVE  Sound(SetOwnedIn(l, q), n)
BY MaxOwnedAssumption DEF Ledger, Sound, SetOwnedIn

-----------------------------------------------------------------------------
LEMMA InitIInv == Init => IInv
<1>1. NewLedger \in Ledger /\ Sound(NewLedger, 0)
  BY DEF Ledger, NewLedger, Sound
<1> QED BY <1>1 DEF Init, IInv, Nothing

(* An operation leaves the live pairs sound, and touches no key but its own. *)
LEMMA OperateIsSound ==
  ASSUME IInv, NEW k \in Key, Operate(k)
  PROVE  \E l, n : /\ Sound(l, n)
                   /\ ledger' = [ledger EXCEPT ![k] = l]
                   /\ inflight' = [inflight EXCEPT ![k] = n]
<1>k. /\ Sound(ledger[k], inflight[k])
      /\ ledger[k] \in Ledger /\ inflight[k] \in Nat
      /\ inflight = [inflight EXCEPT ![k] = inflight[k]]
      /\ ledger = [ledger EXCEPT ![k] = ledger[k]]
  BY DEF IInv
<1>1. ASSUME NEW q \in 1..MaxOwned, Reserve(k, q)
      PROVE  \E l, n : /\ Sound(l, n)
                       /\ ledger' = [ledger EXCEPT ![k] = l]
                       /\ inflight' = [inflight EXCEPT ![k] = n]
  BY <1>k, <1>1, ReserveIsSound DEF Reserve
<1>2. ASSUME NEW q \in 1..MaxOwned, Release(k, q)
      PROVE  \E l, n : /\ Sound(l, n)
                       /\ ledger' = [ledger EXCEPT ![k] = l]
                       /\ inflight' = [inflight EXCEPT ![k] = n]
  BY <1>k, <1>2, ReleaseIsSound DEF Release
<1>3. ASSUME NEW r \in 0..MaxOwned, NEW f \in 0..MaxOwned, Settle(k, r, f)
      PROVE  \E l, n : /\ Sound(l, n)
                       /\ ledger' = [ledger EXCEPT ![k] = l]
                       /\ inflight' = [inflight EXCEPT ![k] = n]
  BY <1>k, <1>3, SettleIsSound DEF Settle
<1>4. ASSUME NEW q \in 0..MaxOwned, SetOwned(k, q)
      PROVE  \E l, n : /\ Sound(l, n)
                       /\ ledger' = [ledger EXCEPT ![k] = l]
                       /\ inflight' = [inflight EXCEPT ![k] = n]
  BY <1>k, <1>4, SetOwnedIsSound DEF SetOwned
<1>5. ASSUME Halt(k)
      PROVE  \E l, n : /\ Sound(l, n)
                       /\ ledger' = [ledger EXCEPT ![k] = l]
                       /\ inflight' = [inflight EXCEPT ![k] = n]
  <2>1. Sound([ledger[k] EXCEPT !.halted = TRUE], inflight[k])
    BY <1>k DEF Sound, Ledger
  <2> QED BY <1>5, <1>k, <2>1 DEF Halt
<1>6. CASE UNCHANGED <<ledger, inflight>>
  BY <1>6, <1>k
<1> QED BY <1>1, <1>2, <1>3, <1>4, <1>5, <1>6 DEF Operate

LEMMA NextIInv == IInv /\ [Next]_vars => IInv'
<1> SUFFICES ASSUME IInv, [Next]_vars PROVE IInv'
  OBVIOUS
<1>1. ASSUME NEW k \in Key, Operate(k), Save(k) PROVE IInv'
  <2>1. PICK l, n : /\ Sound(l, n)
                    /\ ledger' = [ledger EXCEPT ![k] = l]
                    /\ inflight' = [inflight EXCEPT ![k] = n]
    BY <1>1, OperateIsSound
  <2>2. /\ ledger' \in [Key -> Ledger]
        /\ inflight' \in [Key -> Nat]
        /\ \A j \in Key : Sound(ledger'[j], inflight'[j])
    BY <2>1 DEF IInv, Sound
  <2>3. /\ saved' \in [Key -> [ledger : Ledger, inflight : Nat]]
        /\ \A j \in Key : Sound(saved'[j].ledger, saved'[j].inflight)
    <3>1. CASE UNCHANGED saved
      BY <3>1 DEF IInv
    <3>2. CASE saved' = [saved EXCEPT ![k] = [ledger |-> ledger'[k], inflight |-> inflight'[k]]]
      BY <2>2, <3>2 DEF IInv
    <3>3. CASE saved' = [saved EXCEPT ![k] = Nothing]
      <4>1. NewLedger \in Ledger /\ Sound(NewLedger, 0)
        BY DEF Ledger, NewLedger, Sound
      <4> QED BY <3>3, <4>1 DEF IInv, Nothing
    <3> QED BY <1>1, <3>1, <3>2, <3>3 DEF Save
  <2> QED BY <2>2, <2>3 DEF IInv
<1>2. CASE Restart
  BY <1>2 DEF Restart, IInv, Sound
<1>3. CASE UNCHANGED vars
  BY <1>3 DEF vars, IInv
<1> QED BY <1>1, <1>2, <1>3 DEF Next

LEMMA Inductive == Spec => []IInv
BY InitIInv, NextIInv, PTL DEF Spec

-----------------------------------------------------------------------------
(* The variables keep their types, owned included when it goes negative.     *)
THEOREM TypeCorrect == Spec => []TypeOK
<1>1. IInv => TypeOK
  BY DEF IInv, TypeOK
<1> QED BY <1>1, Inductive, PTL

(* _reserve_locked, _settle_locked and _release_locked count exactly what is *)
(* in flight, through any interleaving of fills, rejections and restarts.    *)
THEOREM CountsWhatIsInFlight == Spec => []ReservedIsInFlight
<1>1. IInv => ReservedIsInFlight
  BY DEF IInv, Sound, ReservedIsInFlight
<1> QED BY <1>1, Inductive, PTL

(* The key invariant of close_arbiter.py: sells in flight never exceed what  *)
(* is owned unless the position has halted itself.                           *)
THEOREM NoOvercommitment == Spec => []NeverOvercommitted
<1>1. IInv => NeverOvercommitted
  BY DEF IInv, Sound, NeverOvercommitted
<1> QED BY <1>1, Inductive, PTL

(* Only a restart ends a halt; until then nothing new is reserved.           *)
THEOREM HaltIsFinal == Spec => HaltHolds
<1> DEFINE A == \A k \in Key : ledger[k].halted =>
                  \/ Restart
                  \/ ledger'[k].halted /\ inflight'[k] <= inflight[k]
<1>1. ASSUME IInv, [Next]_vars PROVE A \/ UNCHANGED vars
  <2> SUFFICES ASSUME NEW k \in Key, ledger[k].halted, ~Restart, Next
               PROVE  ledger'[k].halted /\ inflight'[k] <= inflight[k]
    BY <1>1
  <2>t. ledger \in [Key -> Ledger] /\ inflight \in [Key -> Nat]
    BY <1>1 DEF IInv
  <2>j. PICK j \in Key : Operate(j)
    BY DEF Next
  <2>1. ASSUME NEW q \in 1..MaxOwned, Reserve(j, q)
        PROVE  ledger'[k].halted /\ inflight'[k] <= inflight[k]
    <3>1. j # k
      BY <2>1 DEF Reserve, MayReserve
    <3> QED BY <2>1, <3>1, <2>t DEF Reserve
  <2>2. ASSUME NEW q \in 1..MaxOwned, Release(j, q)
        PROVE  ledger'[k].halted /\ inflight'[k] <= inflight[k]
    BY <2>2, <2>t, MaxOwnedAssumption DEF Release, ReleaseIn, Ledger
  <2>3. ASSUME NEW r \in 0..MaxOwned, NEW f \in 0..MaxOwned, Settle(j, r, f)
        PROVE  ledger'[k].halted /\ inflight'[k] <= inflight[k]
    BY <2>3, <2>t, MaxOwnedAssumption DEF Settle, SettleIn, CheckInvariant, Ledger
  <2>4. ASSUME NEW q \in 0..MaxOwned, SetOwned(j, q)
        PROVE  ledger'[k].halted /\ inflight'[k] <= inflight[k]
    BY <2>4, <2>t DEF SetOwned, SetOwnedIn, Ledger
  <2>5. CASE Halt(j) \/ UNCHANGED <<ledger, inflight>>
    BY <2>5, <2>t DEF Halt, Ledger
  <2> QED BY <2>j, <2>1, <2>2, <2>3, <2>4, <2>5 DEF Operate
<1>2. Spec => [][A]_vars
  BY <1>1, Inductive, PTL DEF Spec
<1> QED BY <1>2 DEF HaltHolds
=============================================================================
