----------------------------- MODULE OrderedLog -----------------------------
(* What the export path between signal-copier and the commercial service      *)
(* promises, without saying how: an event recorded in a stream takes the next *)
(* position of that stream, is applied once and only after everything before  *)
(* it in its stream, and is acknowledged only when applied.  ExportRelay is   *)
(* shown to implement it.                                                     *)
EXTENDS Integers, FiniteSets

CONSTANTS
  Event,
  StreamOf      \* the stream an event belongs to

VARIABLES
  position,     \* position of an event in its stream, None if not recorded
  applied,      \* events the commercial side has applied
  acked         \* events the producer knows to be applied

vars == <<position, applied, acked>>

None == -1
Recorded == {e \in Event : position[e] # None}
Earlier(f, e) == StreamOf[f] = StreamOf[e] /\ position[f] < position[e]

Init ==
  /\ position = [e \in Event |-> None]
  /\ applied = {} /\ acked = {}

Length(s) == Cardinality({e \in Recorded : StreamOf[e] = s})

Record(e) ==
  /\ e \notin Recorded
  /\ position' = [position EXCEPT ![e] = Length(StreamOf[e])]
  /\ UNCHANGED <<applied, acked>>

Apply ==
  /\ applied \subseteq applied' /\ applied' \subseteq Recorded
  /\ \A e \in applied', f \in Recorded : Earlier(f, e) => f \in applied'
  /\ UNCHANGED <<position, acked>>

Acknowledge ==
  /\ acked \subseteq acked' /\ acked' \subseteq applied
  /\ UNCHANGED <<position, applied>>

Next == (\E e \in Event : Record(e)) \/ Apply \/ Acknowledge
Spec == Init /\ [][Next]_vars
=============================================================================
