------------------------------ MODULE SubmitOnce ------------------------------
(***************************************************************************)
(* What the entry path promises of a signal whose destination accounts are *)
(* alternatives for one trade: the signal is bound to an account, for good,*)
(* and then one order, and never a second, goes to the venue of that       *)
(* account.  A signal may stay undecided, and a bound one unsent.          *)
(***************************************************************************)
EXTENDS Naturals

CONSTANTS Signal, Account, NoAccount

VARIABLES
  bound,    \* [Signal -> Account \cup {NoAccount}], the account chosen
  placed    \* [Signal -> [Account -> Nat]], the orders the venue received

vars == <<bound, placed>>

Init ==
  /\ bound = [s \in Signal |-> NoAccount]
  /\ placed = [s \in Signal |-> [a \in Account |-> 0]]

Choose(s, a) ==
  /\ bound[s] = NoAccount
  /\ bound' = [bound EXCEPT ![s] = a]
  /\ UNCHANGED placed

Place(s, a) ==
  /\ bound[s] = a
  /\ placed[s][a] = 0
  /\ placed' = [placed EXCEPT ![s][a] = 1]
  /\ UNCHANGED bound

Next == \E s \in Signal, a \in Account : Choose(s, a) \/ Place(s, a)

Spec == Init /\ [][Next]_vars
=============================================================================
