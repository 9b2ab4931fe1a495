------------------------------ MODULE MCTimeline ------------------------------
(***************************************************************************)
(* Instances of Timeline for TLC.                                          *)
(***************************************************************************)
EXTENDS Timeline, FiniteSets

At(major, minor) == [Major |-> major, Minor |-> minor]

\* Minor numbers restart with each major one.
Positions == {At(0, 2), At(1, 0), At(1, 1), At(2, 0), At(2, 1)}

\* The list of the positions that f gives to kind k, and the four lists.
ListOf(f, k) ==
  LET held == {p \in DOMAIN f : k \in f[p]}
  IN  CHOOSE s \in [1 .. Cardinality(held) -> held] :
        \A m, n \in 1 .. Cardinality(held) : m < n => Before(s[m], s[n])

Lists(f) ==
  [ moduleLoaded |-> ListOf(f, Kinds[1]), moduleUnloaded |-> ListOf(f, Kinds[2]),
    threadCreate |-> ListOf(f, Kinds[3]), threadTerminate |-> ListOf(f, Kinds[4]) ]

\* At most one event at a position.
DistinctLists ==
  { Lists(f) :
      f \in [Positions -> {{k} : k \in Kind} \cup {{}}] }

\* Events of several kinds may share a position.
AnyLists ==
  { Lists(f) :
      f \in [{At(0, 2), At(1, 0), At(1, 1)} -> SUBSET Kind] }

MCLists == DistinctLists \cup AnyLists

\* The hypothesis of some properties holds of the first lists.
ASSUME DistinctAssumption == \A e \in DistinctLists : Distinct(e)
=============================================================================
