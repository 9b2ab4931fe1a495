------------------------------- MODULE Timeline -------------------------------
(***************************************************************************)
(* The timeline of src/example_api/main.cpp: the events of a recording are *)
(* four lists, each in order of position, and a loop merges them into one  *)
(* listing.  An action is one iteration of the loop: the heads of the four *)
(* lists are read first, then each list is asked whether its head is the   *)
(* smallest.                                                               *)
(***************************************************************************)
EXTENDS Position, Sequences

CONSTANT EventLists  \* what the engine may return: one sorted list per kind

\* The kinds of events, in the order the loop asks them.
Kinds == <<"moduleLoaded", "moduleUnloaded", "threadCreate", "threadTerminate">>
Kind == {Kinds[n] : n \in 1 .. 4}

SortedList(s) == \A m, n \in 1 .. Len(s) : m < n => ~ Before(s[n], s[m])

ASSUME EventListsAssumption ==
  /\ EventLists \subseteq [Kind -> Seq(Position)]
  /\ \A e \in EventLists : \A k \in Kind : SortedList(e[k])

VARIABLES
  events,   \* the four vectors
  it,       \* the four iterators, as an index from 1
  printed   \* the events printed: <<kind, index>>

vars == <<events, it, printed>>

Event == Kind \X (Nat \ {0})

TypeOK ==
  /\ events \in [Kind -> Seq(Position)]
  /\ it \in [Kind -> Nat \ {0}]
  /\ \A k \in Kind : it[k] <= Len(events[k]) + 1
  /\ printed \in Seq(Event)

Init ==
  /\ events \in EventLists
  /\ it = [k \in Kind |-> 1]
  /\ printed = <<>>

AtEnd(k) == it[k] = Len(events[k]) + 1

\* Mutation: a default position for a list that is at its end.
NextPosition_Zero(k) == IF AtEnd(k) THEN [Major |-> 0, Minor |-> 0] ELSE events[k][it[k]]

NextPosition(k) == IF AtEnd(k) THEN POSITION_MAX ELSE events[k][it[k]]

\* Mutation: a creation is only compared with the loading of a module.
Compared_OnlyLoaded(k) ==
  CASE k = "moduleLoaded" -> {"moduleUnloaded", "threadCreate", "threadTerminate"}
    [] k = "moduleUnloaded" -> {"moduleLoaded", "threadCreate", "threadTerminate"}
    [] k = "threadCreate" -> {"moduleLoaded"}
    [] k = "threadTerminate" -> {"moduleLoaded", "threadCreate"}

\* The lists whose head must be after the head of list k for it to be printed.
\* The two thread lists compare with moduleLoaded twice, and so never with
\* moduleUnloaded.
Compared(k) ==
  CASE k = "moduleLoaded" -> {"moduleUnloaded", "threadCreate", "threadTerminate"}
    [] k = "moduleUnloaded" -> {"moduleLoaded", "threadCreate", "threadTerminate"}
    [] k = "threadCreate" -> {"moduleLoaded", "threadTerminate"}
    [] k = "threadTerminate" -> {"moduleLoaded", "threadCreate"}

\* Mutation: <= instead of <.
Smallest_OrEqual(k) == \A j \in Compared(k) : ~ Before(NextPosition(j), NextPosition(k))

Smallest(k) == \A j \in Compared(k) : Before(NextPosition(k), NextPosition(j))

\* What list k contributes to an iteration.
Line(k) == IF Smallest(k) THEN <<<<k, it[k]>>>> ELSE <<>>

\* What an iteration prints.
Lines == Line(Kinds[1]) \o Line(Kinds[2]) \o Line(Kinds[3]) \o Line(Kinds[4])

\* Mutation: the last branch does not advance its iterator.
Iteration_KeepsTerminate ==
  /\ \E k \in Kind : ~ AtEnd(k)
  /\ printed' = printed \o Lines
  /\ it' = [k \in Kind |->
              IF Smallest(k) /\ k # "threadTerminate" THEN it[k] + 1 ELSE it[k]]
  /\ UNCHANGED events

Iteration ==
  /\ \E k \in Kind : ~ AtEnd(k)
  /\ printed' = printed \o Lines
  /\ it' = [k \in Kind |-> IF Smallest(k) THEN it[k] + 1 ELSE it[k]]
  /\ UNCHANGED events

\* The loop is over.
Finished ==
  /\ \A k \in Kind : AtEnd(k)
  /\ UNCHANGED vars

Next == Iteration \/ Finished

Spec == Init /\ [][Next]_vars
-----------------------------------------------------------------------------
Pos(e) == events[e[1]][e[2]]

\* Every event of the recording is printed once when the loop ends, and none
\* twice before that.
EveryEventOnce ==
  /\ \A m, n \in 1 .. Len(printed) : printed[m] = printed[n] => m = n
  /\ (\A k \in Kind : AtEnd(k)) =>
       \A k \in Kind : \A i \in 1 .. Len(events[k]) :
         \E n \in 1 .. Len(printed) : printed[n] = <<k, i>>

\* What the comparisons guarantee whatever the lists are: an event printed
\* after a later one is the unloading of a module, and the later one is a
\* thread event.
OnlyUnloadsLate ==
  \A m, n \in 1 .. Len(printed) :
    m < n /\ Before(Pos(printed[n]), Pos(printed[m])) =>
      /\ printed[n][1] = "moduleUnloaded"
      /\ printed[m][1] \in {"threadCreate", "threadTerminate"}

\* No two lists that are compared hold the same position, and none holds the
\* one that stands for the end of a list.
Distinct(e) ==
  \A k, j \in Kind :
    \A n \in 1 .. Len(e[k]) :
      /\ e[k][n] # POSITION_MAX
      /\ j \in Compared(k) => \A i \in 1 .. Len(e[j]) : e[k][n] # e[j][i]

\* With such lists an iteration always prints something.
Progress ==
  Distinct(events) /\ (\E k \in Kind : ~ AtEnd(k)) => \E k \in Kind : Smallest(k)

\* example_api.py prints the same events with sorted(..., key = position).
Sorted ==
  \A m, n \in 1 .. Len(printed) : m < n => ~ Before(Pos(printed[n]), Pos(printed[m]))
=============================================================================
