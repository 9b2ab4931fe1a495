---------------------------- MODULE Timeline_proof ----------------------------
(***************************************************************************)
(* Theorems about Timeline, for any four sorted lists of events.           *)
(***************************************************************************)
EXTENDS Timeline, SequenceTheorems, TLAPS

Threads == {"threadCreate", "threadTerminate"}
Modules == {"moduleLoaded", "moduleUnloaded"}

\* Kind, spelled out.
LEMMA KindList == Kind = Modules \cup Threads
<1>1. \A n \in 1 .. 4 : n = 1 \/ n = 2 \/ n = 3 \/ n = 4
  OBVIOUS
<1>2. 1 \in 1 .. 4 /\ 2 \in 1 .. 4 /\ 3 \in 1 .. 4 /\ 4 \in 1 .. 4
  OBVIOUS
<1> QED
  BY <1>1, <1>2 DEF Kind, Kinds, Modules, Threads

\* operator < of Position is a strict total order, and nothing is after
\* POSITION_MAX.
LEMMA Order ==
  ASSUME NEW p \in Position, NEW q \in Position, NEW r \in Position
  PROVE  /\ ~ Before(p, p)
         /\ Before(p, q) => ~ Before(q, p)
         /\ ~ Before(p, q) /\ ~ Before(q, r) => ~ Before(p, r)
         /\ Before(p, q) /\ ~ Before(r, q) => Before(p, r)
         /\ p # q => Before(p, q) \/ Before(q, p)
         /\ POSITION_MAX \in Position
         /\ ~ Before(POSITION_MAX, p)
  BY MaxWordAssumption DEF Position, Before, POSITION_MAX

-----------------------------------------------------------------------------
TypeInv == TypeOK /\ events \in EventLists

LEMMA NextPositionType ==
  ASSUME TypeInv, NEW k \in Kind
  PROVE  /\ NextPosition(k) \in Position
         /\ ~ AtEnd(k) => it[k] \in 1 .. Len(events[k]) /\ NextPosition(k) = events[k][it[k]]
<1>1. events[k] \in Seq(Position) /\ it[k] \in Nat \ {0} /\ it[k] <= Len(events[k]) + 1
  BY DEF TypeInv, TypeOK
<1>2. POSITION_MAX \in Position
  BY MaxWordAssumption DEF Position, POSITION_MAX
<1> QED
  BY <1>1, <1>2 DEF NextPosition, AtEnd

\* A list that is at its end is never the smallest.
LEMMA SmallestNotAtEnd ==
  ASSUME TypeInv, NEW k \in Kind, Smallest(k)
  PROVE  ~ AtEnd(k)
<1>1. \E j \in Kind : j \in Compared(k)
  BY KindList DEF Compared, Modules, Threads
<1>2. PICK j \in Kind : j \in Compared(k)
  BY <1>1
<1>3. Before(NextPosition(k), NextPosition(j)) /\ NextPosition(j) \in Position
  BY <1>2, NextPositionType DEF Smallest
<1> QED
  BY <1>3, Order DEF NextPosition

LEMMA Concat ==
  ASSUME NEW a, NEW b
  PROVE  /\ <<>> \o <<>> = <<>>
         /\ <<>> \o <<a>> = <<a>>
         /\ <<a>> \o <<>> = <<a>>
         /\ <<a>> \o <<b>> = <<a, b>>
         /\ <<a, b>> \o <<>> = <<a, b>>
<1> DEFINE S == {a, b}
<1>1. <<>> \in Seq(S) /\ <<a>> \in Seq(S) /\ <<b>> \in Seq(S) /\ <<a, b>> \in Seq(S)
  OBVIOUS
<1>2. /\ <<>> \o <<>> = <<>> /\ <<>> \o <<a>> = <<a>> /\ <<a>> \o <<>> = <<a>>
      /\ <<a, b>> \o <<>> = <<a, b>>
  BY <1>1, ConcatEmptySeq
<1>3. <<a>> \o <<b>> = <<a, b>>
  <2> DEFINE c == <<a>> \o <<b>>
             d == <<a, b>>
  <2>1. c \in Seq(S) /\ Len(c) = 2 /\ c[1] = a /\ c[2] = b
    BY <1>1, ConcatProperties
  <2>2. d \in Seq(S) /\ Len(d) = 2 /\ d[1] = a /\ d[2] = b
    OBVIOUS
  <2> HIDE DEF c, d
  <2>3. \A i \in 1 .. 2 : c[i] = d[i]
    BY <2>1, <2>2
  <2>4. c = d
    BY <2>1, <2>2, <2>3, SeqEqual
  <2> QED BY <2>4 DEF c, d
<1> QED
  BY <1>2, <1>3

\* What one iteration may print: nothing, the head of one list, or an unload
\* and a later thread event.
LEMMA Outcomes ==
  ASSUME TypeInv
  PROVE  \/ /\ Lines = <<>>
            /\ \A j \in Kind : ~ Smallest(j)
         \/ \E k \in Kind :
              /\ Lines = <<<<k, it[k]>>>>
              /\ \A j \in Kind : Smallest(j) <=> j = k
         \/ \E k \in Threads :
              /\ Lines = <<<<"moduleUnloaded", it["moduleUnloaded"]>>, <<k, it[k]>>>>
              /\ \A j \in Kind : Smallest(j) <=> j \in {"moduleUnloaded", k}
<1> DEFINE L == "moduleLoaded"
           U == "moduleUnloaded"
           C == "threadCreate"
           T == "threadTerminate"
<1>1. Kind = {L, U, C, T}
  BY KindList DEF Modules, Threads
<1>2. /\ NextPosition(L) \in Position /\ NextPosition(U) \in Position
      /\ NextPosition(C) \in Position /\ NextPosition(T) \in Position
  BY <1>1, NextPositionType
<1>3. /\ Smallest(L) => ~ Smallest(U) /\ ~ Smallest(C) /\ ~ Smallest(T)
      /\ Smallest(U) => ~ Smallest(L)
      /\ Smallest(C) => ~ Smallest(L) /\ ~ Smallest(T)
  BY <1>2, Order DEF Smallest, Compared
<1>4. Lines = Line(L) \o Line(U) \o Line(C) \o Line(T)
  BY DEF Lines, Kinds
<1>5. CASE Smallest(L)
  <2>1. Line(L) = <<<<L, it[L]>>>> /\ Line(U) = <<>> /\ Line(C) = <<>> /\ Line(T) = <<>>
    BY <1>3, <1>5 DEF Line
  <2>2. Lines = <<<<L, it[L]>>>>
    BY <1>4, <2>1, Concat
  <2>3. \A j \in Kind : Smallest(j) <=> j = L
    BY <1>1, <1>3, <1>5
  <2>4. L \in Kind
    BY <1>1
  <2> QED BY <2>2, <2>3, <2>4
<1>6. CASE Smallest(U) /\ Smallest(C)
  <2>1. /\ Line(L) = <<>> /\ Line(U) = <<<<U, it[U]>>>>
        /\ Line(C) = <<<<C, it[C]>>>> /\ Line(T) = <<>>
    BY <1>3, <1>6 DEF Line
  <2>2. Lines = <<<<U, it[U]>>, <<C, it[C]>>>>
    BY <1>4, <2>1, Concat
  <2>3. \A j \in Kind : Smallest(j) <=> j \in {U, C}
    BY <1>1, <1>3, <1>6
  <2>4. C \in Threads
    BY DEF Threads
  <2> QED BY <2>2, <2>3, <2>4
<1>7. CASE Smallest(U) /\ Smallest(T)
  <2>1. /\ Line(L) = <<>> /\ Line(U) = <<<<U, it[U]>>>>
        /\ Line(C) = <<>> /\ Line(T) = <<<<T, it[T]>>>>
    BY <1>3, <1>7 DEF Line
  <2>2. Lines = <<<<U, it[U]>>, <<T, it[T]>>>>
    BY <1>4, <2>1, Concat
  <2>3. \A j \in Kind : Smallest(j) <=> j \in {U, T}
    BY <1>1, <1>3, <1>7
  <2>4. T \in Threads
    BY DEF Threads
  <2> QED BY <2>2, <2>3, <2>4
<1>8. CASE Smallest(U) /\ ~ Smallest(C) /\ ~ Smallest(T)
  <2>1. Line(L) = <<>> /\ Line(U) = <<<<U, it[U]>>>> /\ Line(C) = <<>> /\ Line(T) = <<>>
    BY <1>3, <1>8 DEF Line
  <2>2. Lines = <<<<U, it[U]>>>>
    BY <1>4, <2>1, Concat
  <2>3. \A j \in Kind : Smallest(j) <=> j = U
    BY <1>1, <1>3, <1>8
  <2>4. U \in Kind
    BY <1>1
  <2> QED BY <2>2, <2>3, <2>4
<1>9. CASE ~ Smallest(U) /\ Smallest(C)
  <2>1. Line(L) = <<>> /\ Line(U) = <<>> /\ Line(C) = <<<<C, it[C]>>>> /\ Line(T) = <<>>
    BY <1>3, <1>9 DEF Line
  <2>2. Lines = <<<<C, it[C]>>>>
    BY <1>4, <2>1, Concat
  <2>3. \A j \in Kind : Smallest(j) <=> j = C
    BY <1>1, <1>3, <1>9
  <2>4. C \in Kind
    BY <1>1
  <2> QED BY <2>2, <2>3, <2>4
<1>10. CASE ~ Smallest(U) /\ Smallest(T)
  <2>1. Line(L) = <<>> /\ Line(U) = <<>> /\ Line(C) = <<>> /\ Line(T) = <<<<T, it[T]>>>>
    BY <1>3, <1>10 DEF Line
  <2>2. Lines = <<<<T, it[T]>>>>
    BY <1>4, <2>1, Concat
  <2>3. \A j \in Kind : Smallest(j) <=> j = T
    BY <1>1, <1>3, <1>10
  <2>4. T \in Kind
    BY <1>1
  <2> QED BY <2>2, <2>3, <2>4
<1>11. CASE \A j \in Kind : ~ Smallest(j)
  <2>1. Line(L) = <<>> /\ Line(U) = <<>> /\ Line(C) = <<>> /\ Line(T) = <<>>
    BY <1>1, <1>11 DEF Line
  <2> QED BY <1>4, <1>11, <2>1
<1> QED
  BY <1>1, <1>5, <1>6, <1>7, <1>8, <1>9, <1>10, <1>11
-----------------------------------------------------------------------------
(* The inductive invariant, stated of any iterators i and listing p, so    *)
(* that an iteration that prints two events is two steps of one kind.      *)

HeadOf(i, k) == IF i[k] = Len(events[k]) + 1 THEN POSITION_MAX ELSE events[k][i[k]]

\* An event of kind j printed in front of the head of list k cannot be late.
Guarded(k, j) == k # "moduleUnloaded" \/ j \notin Threads

InvOf(i, p) ==
  /\ i \in [Kind -> Nat \ {0}]
  /\ \A k \in Kind : i[k] <= Len(events[k]) + 1
  /\ p \in Seq(Event)
  /\ \A n \in 1 .. Len(p) : p[n][2] < i[p[n][1]]
  /\ \A k \in Kind : \A x \in 1 .. i[k] - 1 : \E n \in 1 .. Len(p) : p[n] = <<k, x>>
  /\ \A m, n \in 1 .. Len(p) : p[m] = p[n] => m = n
  /\ \A n \in 1 .. Len(p), k \in Kind :
       Guarded(k, p[n][1]) => ~ Before(HeadOf(i, k), Pos(p[n]))
  /\ \A m, n \in 1 .. Len(p) :
       m < n /\ Guarded(p[n][1], p[m][1]) => ~ Before(Pos(p[n]), Pos(p[m]))

Inv == events \in EventLists /\ InvOf(it, printed)

\* An iterator moves to a position that is not before the one it leaves.
LEMMA HeadGrows ==
  ASSUME events \in EventLists, NEW k \in Kind,
         NEW i \in [Kind -> Nat \ {0}], i[k] <= Len(events[k]),
         NEW j \in [Kind -> Nat \ {0}], j[k] = i[k] + 1
  PROVE  /\ HeadOf(i, k) = events[k][i[k]]
         /\ HeadOf(i, k) \in Position
         /\ HeadOf(j, k) \in Position
         /\ ~ Before(HeadOf(j, k), HeadOf(i, k))
<1>1. events[k] \in Seq(Position) /\ SortedList(events[k])
  BY EventListsAssumption
<1>2. Len(events[k]) \in Nat
  BY <1>1
<1>3. i[k] \in 1 .. Len(events[k])
  BY <1>2
<1>4. HeadOf(i, k) = events[k][i[k]] /\ events[k][i[k]] \in Position
  BY <1>1, <1>2, <1>3 DEF HeadOf
<1>5. CASE j[k] = Len(events[k]) + 1
  BY <1>4, <1>5, Order DEF HeadOf
<1>6. CASE j[k] # Len(events[k]) + 1
  <2>1. j[k] \in 1 .. Len(events[k]) /\ i[k] < j[k]
    BY <1>2, <1>3, <1>6
  <2>2. HeadOf(j, k) = events[k][j[k]] /\ events[k][j[k]] \in Position
    BY <1>1, <1>6, <2>1 DEF HeadOf
  <2> QED BY <1>1, <1>3, <1>4, <2>1, <2>2 DEF SortedList
<1> QED
  BY <1>5, <1>6, <1>4

\* Printing the head of list k, when no list it is guarded from is before it.
LEMMA PrintOne ==
  ASSUME events \in EventLists,
         NEW i, NEW p, InvOf(i, p), NEW k \in Kind, i[k] <= Len(events[k]),
         \A j \in Kind : Guarded(j, k) => ~ Before(HeadOf(i, j), HeadOf(i, k))
  PROVE  InvOf([i EXCEPT ![k] = @ + 1], Append(p, <<k, i[k]>>))
<1> DEFINE i2 == [i EXCEPT ![k] = @ + 1]
           e == <<k, i[k]>>
           p2 == Append(p, e)
           N == Len(p)
<1>1. /\ i \in [Kind -> Nat \ {0}] /\ p \in Seq(Event) /\ N \in Nat
      /\ \A j \in Kind : i[j] <= Len(events[j]) + 1 /\ Len(events[j]) \in Nat
  BY EventListsAssumption DEF InvOf
<1>2. /\ i2 \in [Kind -> Nat \ {0}] /\ i2[k] = i[k] + 1
      /\ \A j \in Kind : j # k => i2[j] = i[j]
      /\ \A j \in Kind : i2[j] <= Len(events[j]) + 1 /\ i2[j] >= i[j]
  BY <1>1
<1>3. e \in Event /\ e[1] = k /\ e[2] = i[k]
  BY <1>1 DEF Event
<1>4. /\ p2 \in Seq(Event) /\ Len(p2) = N + 1 /\ p2[N + 1] = e
      /\ \A n \in 1 .. N : p2[n] = p[n] /\ p[n] \in Event
      /\ 1 .. Len(p2) = 1 .. N \cup {N + 1}
  BY <1>1, <1>3
<1>5. \A n \in 1 .. N : /\ p[n] = <<p[n][1], p[n][2]>>
                       /\ p[n][1] \in Kind /\ p[n][2] \in Nat \ {0}
                       /\ p[n][2] < i[p[n][1]]
  BY <1>1, <1>4 DEF Event, InvOf
<1>6. /\ Pos(e) = HeadOf(i, k)
      /\ HeadOf(i, k) \in Position /\ HeadOf(i2, k) \in Position
      /\ ~ Before(HeadOf(i2, k), HeadOf(i, k))
  BY <1>1, <1>2, <1>3, HeadGrows DEF Pos
<1>7. \A n \in 1 .. N : Pos(p[n]) \in Position
  BY <1>1, <1>5, EventListsAssumption DEF Pos
<1>8. \A j \in Kind : j # k => HeadOf(i2, j) = HeadOf(i, j)
  BY <1>2 DEF HeadOf
<1> HIDE DEF i2, e, p2, N
<1>10. \A n \in 1 .. Len(p2) : p2[n][2] < i2[p2[n][1]]
  <2>1. ASSUME NEW n \in 1 .. N
        PROVE  p2[n][2] < i2[p2[n][1]]
    BY <1>1, <1>2, <1>4, <1>5, <2>1
  <2>2. p2[N + 1][2] < i2[p2[N + 1][1]]
    BY <1>1, <1>2, <1>3, <1>4
  <2> QED BY <1>4, <2>1, <2>2
<1>11. \A j \in Kind : \A x \in 1 .. i2[j] - 1 : \E n \in 1 .. Len(p2) : p2[n] = <<j, x>>
  <2> SUFFICES ASSUME NEW j \in Kind, NEW x \in 1 .. i2[j] - 1
               PROVE  \E n \in 1 .. Len(p2) : p2[n] = <<j, x>>
    OBVIOUS
  <2>1. CASE x \in 1 .. i[j] - 1
    <3>1. PICK n \in 1 .. N : p[n] = <<j, x>>
      BY <2>1 DEF InvOf, N
    <3> QED BY <1>4, <3>1
  <2>2. CASE x \notin 1 .. i[j] - 1
    <3>1. j = k /\ x = i[k]
      BY <1>1, <1>2, <2>2
    <3> QED BY <1>1, <1>4, <3>1 DEF e
  <2> QED BY <2>1, <2>2
<1>12. \A m, n \in 1 .. Len(p2) : p2[m] = p2[n] => m = n
  <2>1. \A m, n \in 1 .. N : p2[m] = p2[n] => m = n
    BY <1>4 DEF InvOf, N
  <2>2. \A n \in 1 .. N : p2[n] # e
    BY <1>1, <1>3, <1>4, <1>5
  <2> QED BY <1>4, <2>1, <2>2
<1>13. \A n \in 1 .. Len(p2), j \in Kind :
         Guarded(j, p2[n][1]) => ~ Before(HeadOf(i2, j), Pos(p2[n]))
  <2> SUFFICES ASSUME NEW n \in 1 .. Len(p2), NEW j \in Kind, Guarded(j, p2[n][1])
               PROVE  ~ Before(HeadOf(i2, j), Pos(p2[n]))
    OBVIOUS
  <2>1. CASE n \in 1 .. N /\ j # k
    BY <1>4, <1>8, <2>1 DEF InvOf, N
  <2>2. CASE n \in 1 .. N /\ j = k
    <3>1. ~ Before(HeadOf(i, k), Pos(p[n])) /\ p2[n] = p[n]
      BY <1>4, <2>2 DEF InvOf, N
    <3> QED BY <1>6, <1>7, <2>2, <3>1, Order
  <2>3. CASE n = N + 1 /\ j # k
    BY <1>3, <1>4, <1>6, <1>8, <2>3
  <2>4. CASE n = N + 1 /\ j = k
    BY <1>4, <1>6, <2>4
  <2> QED BY <1>4, <2>1, <2>2, <2>3, <2>4
<1>14. \A m, n \in 1 .. Len(p2) :
         m < n /\ Guarded(p2[n][1], p2[m][1]) => ~ Before(Pos(p2[n]), Pos(p2[m]))
  <2> SUFFICES ASSUME NEW m \in 1 .. Len(p2), NEW n \in 1 .. Len(p2), m < n,
                      Guarded(p2[n][1], p2[m][1])
               PROVE  ~ Before(Pos(p2[n]), Pos(p2[m]))
    OBVIOUS
  <2>0. m \in 1 .. N
    BY <1>1, <1>4 DEF N
  <2>1. CASE n \in 1 .. N
    BY <1>4, <2>0, <2>1 DEF InvOf, N
  <2>2. CASE n = N + 1
    BY <1>3, <1>4, <1>6, <2>0, <2>2 DEF InvOf, N
  <2> QED BY <1>4, <2>1, <2>2
<1> QED
  BY <1>2, <1>4, <1>10, <1>11, <1>12, <1>13, <1>14 DEF InvOf, i2, p2, e
LEMMA InvType == Inv => TypeInv
  BY EventListsAssumption DEF Inv, InvOf, TypeInv, TypeOK

LEMMA InitInv == Init => Inv
<1> SUFFICES ASSUME Init PROVE Inv
  OBVIOUS
<1>1. /\ \A k \in Kind : it[k] = 1 /\ Len(events[k]) \in Nat
      /\ it \in [Kind -> Nat \ {0}] /\ events \in EventLists
  BY EventListsAssumption DEF Init
<1>2. printed \in Seq(Event) /\ Len(printed) = 0 /\ 1 .. Len(printed) = {}
  BY DEF Init
<1>3. \A k \in Kind : 1 .. it[k] - 1 = {}
  BY <1>1
<1> QED
  BY <1>1, <1>2, <1>3 DEF Inv, InvOf

LEMMA IterationInv ==
  ASSUME Inv, Iteration
  PROVE  Inv'
<1>1. TypeInv /\ InvOf(it, printed) /\ events \in EventLists /\ events' = events
  BY InvType DEF Inv, Iteration
<1>2. printed' = printed \o Lines
  BY DEF Iteration
<1>3. it' = [k \in Kind |-> IF Smallest(k) THEN it[k] + 1 ELSE it[k]]
  BY DEF Iteration
<1>4. /\ it \in [Kind -> Nat \ {0}] /\ printed \in Seq(Event)
      /\ \A k \in Kind : HeadOf(it, k) = NextPosition(k) /\ NextPosition(k) \in Position
      /\ \A k \in Kind : Smallest(k) => it[k] <= Len(events[k])
  BY <1>1, NextPositionType, SmallestNotAtEnd DEF TypeInv, TypeOK, HeadOf, NextPosition, AtEnd
<1>5. \A j, k \in Kind : Smallest(k) /\ j \in Compared(k) => ~ Before(HeadOf(it, j), HeadOf(it, k))
  BY <1>4, Order DEF Smallest
<1>6. \A j, k \in Kind : Guarded(j, k) => j = k \/ j \in Compared(k)
  BY KindList DEF Guarded, Compared, Modules, Threads
<1>7. \A j, k \in Kind : Smallest(k) /\ Guarded(j, k) => ~ Before(HeadOf(it, j), HeadOf(it, k))
  BY <1>4, <1>5, <1>6, Order
<1>8. CASE Lines = <<>> /\ \A j \in Kind : ~ Smallest(j)
  <2>1. printed' = printed
    BY <1>2, <1>4, <1>8, ConcatEmptySeq
  <2>2. it' = it
    BY <1>3, <1>4, <1>8
  <2> QED BY <1>1, <2>1, <2>2 DEF Inv, InvOf, HeadOf, Pos
<1>9. ASSUME NEW k \in Kind, Lines = <<<<k, it[k]>>>>, \A j \in Kind : Smallest(j) <=> j = k
      PROVE  Inv'
  <2>1. it' = [it EXCEPT ![k] = @ + 1]
    BY <1>3, <1>4, <1>9
  <2>2. printed' = Append(printed, <<k, it[k]>>)
    BY <1>2, <1>4, <1>9, AppendIsConcat DEF Event
  <2>3. InvOf([it EXCEPT ![k] = @ + 1], Append(printed, <<k, it[k]>>))
    BY <1>1, <1>4, <1>7, <1>9, PrintOne
  <2> QED BY <1>1, <2>1, <2>2, <2>3 DEF Inv, InvOf, HeadOf, Pos
<1>10. ASSUME NEW k \in Threads,
              Lines = <<<<"moduleUnloaded", it["moduleUnloaded"]>>, <<k, it[k]>>>>,
              \A j \in Kind : Smallest(j) <=> j \in {"moduleUnloaded", k}
       PROVE  Inv'
  <2> DEFINE U == "moduleUnloaded"
             i2 == [it EXCEPT ![U] = @ + 1]
             p2 == Append(printed, <<U, it[U]>>)
  <2>1. U \in Kind /\ k \in Kind /\ k # U
    BY KindList DEF Modules, Threads
  <2>2. /\ it' = [i2 EXCEPT ![k] = @ + 1] /\ i2[k] = it[k]
        /\ \A j \in Kind : j # U => i2[j] = it[j]
    BY <1>3, <1>4, <1>10, <2>1
  <2>3. printed' = Append(p2, <<k, i2[k]>>)
    <3>1. <<U, it[U]>> \in Event /\ <<k, it[k]>> \in Event
      BY <1>4, <2>1 DEF Event
    <3>2. \A a, b \in Event : printed \o <<a, b>> = Append(Append(printed, a), b)
      <4> SUFFICES ASSUME NEW a \in Event, NEW b \in Event
                   PROVE  printed \o <<a, b>> = Append(Append(printed, a), b)
        OBVIOUS
      <4>1. <<a>> \in Seq(Event) /\ <<b>> \in Seq(Event) /\ Append(printed, a) \in Seq(Event)
        BY <1>4
      <4>2. /\ Append(Append(printed, a), b) = Append(printed, a) \o <<b>>
            /\ Append(printed, a) = printed \o <<a>>
        BY <1>4, <4>1, AppendIsConcat
      <4>3. (printed \o <<a>>) \o <<b>> = printed \o (<<a>> \o <<b>>)
        BY <1>4, <4>1, ConcatAssociative
      <4> QED BY <4>2, <4>3, Concat
    <3> QED BY <1>2, <1>10, <2>2, <3>1, <3>2
  <2>4. InvOf(i2, p2)
    BY <1>1, <1>4, <1>7, <1>10, <2>1, PrintOne
  <2>5. \A j \in Kind : Guarded(j, k) => ~ Before(HeadOf(i2, j), HeadOf(i2, k))
    <3>1. \A j \in Kind : j # U => HeadOf(i2, j) = HeadOf(it, j)
      BY <2>2 DEF HeadOf
    <3>2. \A j \in Kind : Guarded(j, k) => j # U
      BY DEF Guarded
    <3>3. Smallest(k)
      BY <1>10, <2>1
    <3> QED BY <1>7, <2>1, <3>1, <3>2, <3>3
  <2>6. i2[k] <= Len(events[k])
    BY <1>4, <1>10, <2>1, <2>2
  <2> HIDE DEF i2, p2
  <2>7. InvOf([i2 EXCEPT ![k] = @ + 1], Append(p2, <<k, i2[k]>>))
    BY <1>1, <2>1, <2>4, <2>5, <2>6, PrintOne
  <2> QED BY <1>1, <2>2, <2>3, <2>7 DEF Inv, InvOf, HeadOf, Pos
<1> QED
  BY <1>1, <1>8, <1>9, <1>10, Outcomes

LEMMA SpecInv == Spec => []Inv
<1>1. Inv /\ [Next]_vars => Inv'
  <2> SUFFICES ASSUME Inv, [Next]_vars PROVE Inv'
    OBVIOUS
  <2>1. CASE Iteration
    BY <2>1, IterationInv
  <2>2. CASE Finished \/ UNCHANGED vars
    BY <2>2 DEF Finished, vars, Inv, InvOf, HeadOf, Pos
  <2> QED BY <2>1, <2>2 DEF Next
<1> QED
  BY <1>1, InitInv, PTL DEF Spec

-----------------------------------------------------------------------------
\* No iterator of the merge loop passes the end of its vector, for any lists
\* of events.
THEOREM TimelineTypeCorrect == Spec => []TypeOK
<1>1. Inv => TypeOK
  BY InvType DEF TypeInv
<1> QED
  BY <1>1, SpecInv, PTL

\* The merge loop prints no event twice and, when it ends, has printed every
\* event of the four vectors.
THEOREM NothingLost == Spec => []EveryEventOnce
<1>1. Inv => EveryEventOnce
  <2> SUFFICES ASSUME Inv PROVE EveryEventOnce
    OBVIOUS
  <2>1. \A k \in Kind : AtEnd(k) => 1 .. Len(events[k]) = 1 .. it[k] - 1
    BY EventListsAssumption DEF Inv, InvOf, AtEnd
  <2> QED BY <2>1 DEF Inv, InvOf, EveryEventOnce
<1> QED
  BY <1>1, SpecInv, PTL

\* The comparisons of lines 202 to 220 keep everything in order but the
\* unloading of modules, which thread events may overtake.
THEOREM UnloadsOvertaken == Spec => []OnlyUnloadsLate
<1>1. Inv => OnlyUnloadsLate
  BY DEF Inv, InvOf, OnlyUnloadsLate, Guarded, Threads
<1> QED
  BY <1>1, SpecInv, PTL

\* When no two compared lists share a position, every iteration of the loop
\* prints an event.
THEOREM AlwaysProgress == Spec => []Progress
<1> DEFINE NP(k) == NextPosition(k)
<1>1. Inv => Progress
  <2> SUFFICES ASSUME Inv, Distinct(events), NEW a \in Kind, ~ AtEnd(a)
               PROVE  \E k \in Kind : Smallest(k)
    BY DEF Progress
  <2>1. TypeInv /\ Distinct(events)
    BY InvType DEF Inv
  <2>2. \A k \in Kind :
          /\ NP(k) \in Position
          /\ AtEnd(k) => NP(k) = POSITION_MAX
          /\ ~ AtEnd(k) => it[k] \in 1 .. Len(events[k]) /\ NP(k) = events[k][it[k]]
    BY <2>1, NextPositionType DEF NextPosition
  <2>3. \A k \in Kind : ~ AtEnd(k) => NP(k) # POSITION_MAX
    BY <2>1, <2>2 DEF Distinct
  <2>4. \A k, j \in Kind : ~ AtEnd(k) /\ j \in Compared(k) => NP(k) # NP(j)
    BY <2>1, <2>2, <2>3 DEF Distinct
  <2>5. PICK k \in Kind : ~ AtEnd(k) /\ \A j \in Kind : ~ Before(NP(j), NP(k))
    <3>1. \A p, q, r \in Position :
            /\ ~ Before(p, p)
            /\ ~ Before(p, q) \/ ~ Before(q, p)
            /\ ~ Before(p, q) /\ ~ Before(q, r) => ~ Before(p, r)
      BY Order
    <3>2. \E k \in Kind : \A j \in Kind : ~ Before(NP(j), NP(k))
      BY <2>2, <3>1, KindList DEF Modules, Threads
    <3>3. PICK k \in Kind : \A j \in Kind : ~ Before(NP(j), NP(k))
      BY <3>2
    <3>4. CASE AtEnd(k)
      <4>1. ~ Before(NP(a), POSITION_MAX) /\ NP(a) # POSITION_MAX
        BY <2>2, <2>3, <3>3, <3>4
      <4> QED BY <2>2, <4>1, Order
    <3> QED BY <3>3, <3>4
  <2>6. \A j \in Compared(k) : j \in Kind
    BY KindList DEF Compared, Modules, Threads
  <2>7. \A j \in Compared(k) : Before(NP(k), NP(j))
    BY <2>2, <2>4, <2>5, <2>6, Order
  <2> QED BY <2>7 DEF Smallest
<1> QED
  BY <1>1, SpecInv, PTL
=============================================================================
