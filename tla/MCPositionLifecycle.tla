------------------------ MODULE MCPositionLifecycle -------------------------
(* PositionLifecycle for TLC: the accounts looked at, and how many tasks     *)
(* each has.  Signal tasks are interchangeable, and so are reconciliation    *)
(* passes; runs without a temporal property use it.                          *)
EXTENDS PositionLifecycle, TLC

MCSymmetry == Permutations(Sig) \cup Permutations(Rec)

Tasks(sigs, recs) ==
  {S \cup R : S \in {S \in SUBSET Sig : Cardinality(S) = sigs},
              R \in {R \in SUBSET Rec : Cardinality(R) = recs}}

(* Alpaca-like: stops amended under a new id; exits answer at once.          *)
Amending(ts) ==
  [tasks |-> ts, lot |-> 2, replace |-> "new", readback |-> FALSE, works |-> FALSE,
   rejects |-> TRUE, stops |-> 8, exits |-> 3, entries |-> 2,
   faults |-> 0, ratchets |-> 1, crashes |-> 0]

(* A ccxt exchange, which cannot amend; a restart at any point.              *)
Crashing(ts) ==
  [tasks |-> ts, lot |-> 2, replace |-> "none", readback |-> TRUE, works |-> TRUE,
   rejects |-> TRUE, stops |-> 3, exits |-> 2, entries |-> 1,
   faults |-> 0, ratchets |-> 0, crashes |-> 1]

(* Exits that keep working at the venue.                                     *)
Exiting(ts) ==
  [tasks |-> ts, lot |-> 3, replace |-> "new", readback |-> FALSE, works |-> TRUE,
   rejects |-> TRUE, stops |-> 8, exits |-> 2, entries |-> 1,
   faults |-> 0, ratchets |-> 0, crashes |-> 0]

(* Paper-like: stops amended in place; calls fail.                           *)
Failing(ts) ==
  [tasks |-> ts, lot |-> 2, replace |-> "same", readback |-> FALSE, works |-> FALSE,
   rejects |-> FALSE, stops |-> 7, exits |-> 2, entries |-> 1,
   faults |-> 2, ratchets |-> 0, crashes |-> 0]

(* The venue's quantity is read; exits keep working; a call fails.           *)
Reading(ts) ==
  [tasks |-> ts, lot |-> 2, replace |-> "new", readback |-> TRUE, works |-> TRUE,
   rejects |-> TRUE, stops |-> 4, exits |-> 2, entries |-> 1,
   faults |-> 1, ratchets |-> 0, crashes |-> 0]

Safe ==
  {Amending(ts) : ts \in Tasks(2, 1)} \cup {Crashing(ts) : ts \in Tasks(1, 2)}
  \cup {Reading(ts) : ts \in Tasks(1, 1)}
Live == {Exiting(Task), Failing(CHOOSE ts \in Tasks(1, 1) : TRUE)}

(* The two smallest accounts that show the divergences.                      *)
LateCheck ==
  {[Exiting(ts) EXCEPT !.lot = 2, !.stops = 4, !.exits = 1] : ts \in Tasks(1, 1)}
AdoptFill ==
  {[Reading(ts) EXCEPT !.works = FALSE, !.exits = 1, !.faults = 0] : ts \in Tasks(1, 1)}
=============================================================================
