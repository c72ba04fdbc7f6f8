---------------------------- MODULE MCEntryDispatch ----------------------------
EXTENDS EntryDispatch, TLC

CONSTANTS s1, s2, t1, t2, p1, p2

Signals == {s1, s2}
Tasks == {t1, t2}
Passes == {p1, p2}
Symmetry == Permutations(Signals) \cup Permutations(Tasks) \cup Permutations(Passes)

Quiet == [signals |-> {s1}, single |-> TRUE, overlap |-> FALSE, refuse |-> FALSE,
          resize |-> FALSE, late |-> FALSE, reads |-> TRUE,
          operator |-> FALSE, aborts |-> TRUE, ceiling |-> 1,
          deliveries |-> 2, crashes |-> 0, faults |-> 1, passes |-> {p1}]

\* Deliveries of one signal race each other, the reconciler and the operator.
Racing == [Quiet EXCEPT !.overlap = TRUE, !.refuse = TRUE, !.operator = TRUE,
                        !.resize = TRUE, !.ceiling = 2,
                        !.late = TRUE, !.reads = FALSE,
                        !.deliveries = 3, !.crashes = 1]
\* The process dies and the source delivers again.
Crashing == [Quiet EXCEPT !.crashes = 2, !.deliveries = 3, !.ceiling = 2,
                          !.faults = 2, !.late = TRUE, !.passes = Passes]
\* Two signals compete for two accounts.
Competing == [Quiet EXCEPT !.signals = Signals, !.refuse = TRUE, !.deliveries = 3]
\* A signal is copied to every account.
Copying == [Quiet EXCEPT !.single = FALSE, !.crashes = 1, !.refuse = TRUE]

\* After a crash the reconciler, or the operator, settles what was in flight.
Restarting == [Quiet EXCEPT !.aborts = FALSE, !.crashes = 1, !.faults = 2, !.deliveries = 3,
                            !.late = TRUE, !.reads = FALSE, !.ceiling = 2]
Repairing == [Restarting EXCEPT !.operator = TRUE, !.passes = {}]

Safe == {Racing, Crashing, Competing, Copying, Restarting, Repairing}
Live == {[Quiet EXCEPT !.overlap = TRUE, !.ceiling = 2],
         [Quiet EXCEPT !.crashes = 1],
         [Quiet EXCEPT !.signals = Signals, !.faults = 0],
         [Quiet EXCEPT !.single = FALSE, !.faults = 0]}
=============================================================================
