------------------------------- MODULE Position -------------------------------
(***************************************************************************)
(* TTD::Position (src/TTD/TTD.hpp): a place in a recording, ordered by the *)
(* major number (sequence) and then by the minor one (steps).              *)
(***************************************************************************)
EXTENDS Naturals

CONSTANT MaxWord  \* largest value of an unsigned __int64

ASSUME MaxWordAssumption == MaxWord \in Nat

Position == [Major : 0 .. MaxWord, Minor : 0 .. MaxWord]

\* operator <
Before(p, q) ==
  \/ p.Major = q.Major /\ p.Minor < q.Minor
  \/ p.Major # q.Major /\ p.Major < q.Major

POSITION_MAX == [Major |-> MaxWord, Minor |-> MaxWord]
=============================================================================
