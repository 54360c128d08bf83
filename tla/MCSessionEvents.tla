--------------------------- MODULE MCSessionEvents ---------------------------
(***************************************************************************)
(* The instance of SessionEvents that TLC checks.  The queue holds two     *)
(* events and four bytes, so the count cap and the byte cap each evict,    *)
(* and one event alone is over the byte cap.                               *)
(***************************************************************************)
EXTENDS SessionEvents, TLC

Sizes == <<1, 3, 2, 5>>
MCEventSize == [e \in 1 .. MaxEvents |-> Sizes[e]]

\* Bound: the events of one session; a second session has a queue, a channel
\* and a client of its own.
OneSession == Cardinality({s \in Sessions : Created(s)}) <= 1

EventsSymmetry == Permutations(Conns) \cup Permutations(Producers)
=============================================================================
