------------------------------ MODULE Tenet_proof ------------------------------
(***************************************************************************)
(* Proofs about Tenet, for any recording, registers, module and options:   *)
(* types, a line for every position that should have one, each access on   *)
(* the next line, and the registers and the memory can be read back.       *)
(*                                                                         *)
(* The inductive invariant says that memsinfo has the accesses since the   *)
(* last line and that a line has those since the line before; what the     *)
(* file says of memory follows from it.                                    *)
(***************************************************************************)
EXTENDS Tenet, SequenceTheorems, FiniteSetTheorems, TLAPS

-----------------------------------------------------------------------------
(* What the operators on cursors keep and what they set. *)

LEMMA SetPositionType ==
  ASSUME NEW c \in CursorType, NEW p \in Nat \ {0}
  PROVE  /\ SetPosition(c, p) \in CursorType
         /\ SetPosition(c, p).pos = p
         /\ SetPosition(c, p).callback = c.callback
         /\ SetPosition(c, p).watch = c.watch
  BY DEF CursorType, SetPosition

LEMMA ReplayForwardType ==
  ASSUME NEW c \in CursorType, NEW n \in Nat \cup {NO_LIMIT}
  PROVE  /\ ReplayForward(c, n) \in CursorType
         /\ ReplayForward(c, n).pos = c.pos
         /\ ReplayForward(c, n).todo = n
         /\ ReplayForward(c, n).callback = c.callback
         /\ ReplayForward(c, n).watch = c.watch
  BY DEF CursorType, ReplayForward

\* A step moves the cursor to the next position of the recording.
LEMMA StepType ==
  ASSUME NEW c \in CursorType, NEW t, NEW last \in Nat, CanStep(c, last)
  PROVE  /\ Step(t, c) \in CursorType
         /\ Step(t, c).pos = c.pos + 1
         /\ c.pos + 1 \in 1 .. last
         /\ Step(t, c).callback = c.callback
         /\ Step(t, c).watch = c.watch
         /\ Step(t, c).todo = TodoAfterStep(t, c)
<1>1. c.pos \in Nat \ {0} /\ c.todo \in Nat \cup {NO_LIMIT} /\ c.todo # 0 /\ c.pos < last
  BY DEF CursorType, CanStep
<1>2. TodoAfterStep(t, c) \in Nat \cup {NO_LIMIT}
  BY <1>1 DEF TodoAfterStep, NO_LIMIT
<1>3. c.pos + 1 \in Nat \ {0} /\ c.pos + 1 \in 1 .. last
  BY <1>1
<1>4. Step(t, c) = [c EXCEPT !.pos = c.pos + 1, !.todo = TodoAfterStep(t, c)]
  BY DEF Step
<1> QED BY <1>2, <1>3, <1>4 DEF CursorType

-----------------------------------------------------------------------------
(* FlattenSeq: the library has no facts about it. *)

LEMMA LeastNumber ==
  ASSUME NEW T, T \subseteq Nat, T # {}
  PROVE  \E n \in T : \A m \in T : n <= m
<1> DEFINE Below == {0 .. n - 1 : n \in T}
<1>1. Below \subseteq FiniteSubsetsOf(Nat)
  <2> SUFFICES ASSUME NEW n \in T PROVE 0 .. n - 1 \in FiniteSubsetsOf(Nat)
    OBVIOUS
  <2>1. n \in Nat /\ IsFiniteSet(0 .. n - 1) /\ 0 .. n - 1 \subseteq Nat
    BY FS_Interval
  <2> QED
    BY <2>1 DEF FiniteSubsetsOf
<1>2. Below # {}
  OBVIOUS
<1>3. PICK B \in Below : \A A \in Below : <<A, B>> \notin StrictSubsetOrdering(Nat)
  BY <1>1, <1>2, FS_StrictSubsetOrderingWellFounded, WFMin
<1>4. PICK n \in T : B = 0 .. n - 1
  BY <1>3
<1>5. ASSUME NEW m \in T, m < n PROVE FALSE
  <2>1. m \in Nat /\ n \in Nat
    OBVIOUS
  <2>2. 0 .. m - 1 \subseteq Nat /\ B \subseteq Nat /\ 0 .. m - 1 \subseteq B /\ m \in B /\ m \notin 0 .. m - 1
    BY <1>4, <1>5, <2>1
  <2>3. <<0 .. m - 1, B>> \in StrictSubsetOrdering(Nat)
    BY <2>2 DEF StrictSubsetOrdering
  <2> QED
    BY <1>3, <2>3
<1> QED
  BY <1>5

\* Induction, for a property given as the set of the numbers that have it.
LEMMA AllNumbers ==
  ASSUME NEW S, 0 \in S, \A n \in Nat : n \in S => n + 1 \in S
  PROVE  Nat \subseteq S
<1> SUFFICES ASSUME Nat \ S # {} PROVE FALSE
  OBVIOUS
<1>1. PICK n \in Nat \ S : \A m \in Nat \ S : n <= m
  BY LeastNumber
<1>2. n # 0 /\ n - 1 \in Nat /\ n - 1 \notin Nat \ S /\ n = (n - 1) + 1
  BY <1>1
<1> QED
  BY <1>2

\* The recursion of FlattenSeq: f[i] is the first i sequences of ss joined.
Joins(f, ss, n) ==
  \A i \in 1 .. n : f[i] = IF i = 1 THEN ss[i] ELSE f[i - 1] \o ss[i]

LEMMA JoinsUnique ==
  ASSUME NEW n \in Nat, NEW ss, NEW tt, NEW f, NEW g,
         Joins(f, ss, n), Joins(g, tt, n), \A i \in 1 .. n : ss[i] = tt[i]
  PROVE  \A i \in 1 .. n : f[i] = g[i]
<1> DEFINE S == {k \in Nat : k \in 1 .. n => f[k] = g[k]}
<1>1. 0 \in S
  OBVIOUS
<1>2. ASSUME NEW k \in Nat, k \in S PROVE k + 1 \in S
  <2> SUFFICES ASSUME k + 1 \in 1 .. n PROVE f[k + 1] = g[k + 1]
    OBVIOUS
  <2>1. ss[k + 1] = tt[k + 1] /\ (k + 1) - 1 = k
    OBVIOUS
  <2>2. /\ f[k + 1] = IF k + 1 = 1 THEN ss[k + 1] ELSE f[k] \o ss[k + 1]
        /\ g[k + 1] = IF k + 1 = 1 THEN tt[k + 1] ELSE g[k] \o tt[k + 1]
    BY <2>1 DEF Joins
  <2>3. CASE k = 0
    BY <2>1, <2>2, <2>3
  <2>4. CASE k # 0
    <3>1. k \in 1 .. n /\ k + 1 # 1
      BY <2>4
    <3>2. f[k] = g[k]
      BY <1>2, <3>1
    <3> QED
      BY <2>1, <2>2, <3>1, <3>2
  <2> QED
    BY <2>3, <2>4
<1>3. Nat \subseteq S
  <2> HIDE DEF S
  <2> QED
    BY <1>1, <1>2, AllNumbers
<1> QED
  BY <1>3

LEMMA JoinsExists ==
  ASSUME NEW A, NEW ss \in Seq(Seq(A))
  PROVE  \E f \in [1 .. Len(ss) -> Seq(A)] : Joins(f, ss, Len(ss))
<1> DEFINE S == {n \in Nat : n <= Len(ss) => \E f \in [1 .. n -> Seq(A)] : Joins(f, ss, n)}
<1>1. 0 \in S
  <2>1. [i \in 1 .. 0 |-> <<>>] \in [1 .. 0 -> Seq(A)] /\ Joins([i \in 1 .. 0 |-> <<>>], ss, 0)
    BY DEF Joins
  <2> QED
    BY <2>1
<1>2. ASSUME NEW n \in Nat, n \in S PROVE n + 1 \in S
  <2> SUFFICES ASSUME n + 1 <= Len(ss)
               PROVE  \E f \in [1 .. n + 1 -> Seq(A)] : Joins(f, ss, n + 1)
    OBVIOUS
  <2>1. Len(ss) \in Nat /\ ss[n + 1] \in Seq(A) /\ n <= Len(ss)
    OBVIOUS
  <2>2. PICK f \in [1 .. n -> Seq(A)] : Joins(f, ss, n)
    BY <1>2, <2>1
  <2> DEFINE last == IF n = 0 THEN ss[n + 1] ELSE f[n] \o ss[n + 1]
             g == [i \in 1 .. n + 1 |-> IF i = n + 1 THEN last ELSE f[i]]
  <2>3. last \in Seq(A)
    <3>1. CASE n = 0
      BY <2>1, <3>1
    <3>2. CASE n # 0
      <4>1. f[n] \in Seq(A)
        BY <3>2
      <4>2. f[n] \o ss[n + 1] \in Seq(A)
        BY <4>1, <2>1, ConcatProperties
      <4> QED
        BY <3>2, <4>2
    <3> QED
      BY <3>1, <3>2
  <2>4. last = IF n = 0 THEN ss[n + 1] ELSE f[n] \o ss[n + 1]
    OBVIOUS
  <2> HIDE DEF last
  <2>5. g \in [1 .. n + 1 -> Seq(A)] /\ g[n + 1] = last /\ \A i \in 1 .. n : g[i] = f[i]
    BY <2>3
  <2> HIDE DEF g
  <2>6. ASSUME NEW i \in 1 .. n + 1
        PROVE  g[i] = IF i = 1 THEN ss[i] ELSE g[i - 1] \o ss[i]
    <3>1. CASE i = n + 1
      <4>1. (n + 1) - 1 = n
        OBVIOUS
      <4>2. CASE n = 0
        BY <2>4, <2>5, <3>1, <4>2
      <4>3. CASE n # 0
        <5>1. n \in 1 .. n /\ n + 1 # 1
          BY <4>3
        <5>2. g[n] = f[n]
          BY <2>5, <5>1
        <5> QED
          BY <2>4, <2>5, <3>1, <4>1, <4>3, <5>1, <5>2
      <4> QED
        BY <4>2, <4>3
    <3>2. CASE i # n + 1
      <4>1. i \in 1 .. n /\ (i # 1 => i - 1 \in 1 .. n)
        BY <3>2
      <4>2. f[i] = IF i = 1 THEN ss[i] ELSE f[i - 1] \o ss[i]
        BY <4>1, <2>2 DEF Joins
      <4>3. g[i] = f[i] /\ (i # 1 => g[i - 1] = f[i - 1])
        BY <4>1, <2>5
      <4> QED
        BY <4>2, <4>3
    <3> QED
      BY <3>1, <3>2
  <2> QED
    BY <2>5, <2>6 DEF Joins
<1>3. Nat \subseteq S
  <2> HIDE DEF S
  <2> QED
    BY <1>1, <1>2, AllNumbers
<1> QED
  BY <1>3

\* FlattenSeq is what its recursion says.
LEMMA FlattenJoins ==
  ASSUME NEW A, NEW ss \in Seq(Seq(A)), NEW f, Joins(f, ss, Len(ss))
  PROVE  /\ FlattenSeq(ss) = IF Len(ss) = 0 THEN <<>> ELSE f[Len(ss)]
         /\ FlattenSeq(ss) \in Seq(A)
<1>1. Len(ss) \in Nat /\ (Len(ss) = 0 => ss = <<>>)
  OBVIOUS
<1>2. PICK g \in [1 .. Len(ss) -> Seq(A)] : Joins(g, ss, Len(ss))
  BY JoinsExists
<1>3. \A i \in 1 .. Len(ss) : f[i] = g[i]
  BY <1>1, <1>2, JoinsUnique
<1> DEFINE IsFlatten(h) == h = [i \in 1 .. Len(ss) |-> IF i = 1 THEN ss[i] ELSE h[i - 1] \o ss[i]]
           h == CHOOSE h : IsFlatten(h)
<1>4. IsFlatten(g)
  <2>1. DOMAIN g = 1 .. Len(ss) /\ g = [i \in DOMAIN g |-> g[i]]
    BY <1>2
  <2>2. \A i \in 1 .. Len(ss) : g[i] = IF i = 1 THEN ss[i] ELSE g[i - 1] \o ss[i]
    BY <1>2 DEF Joins
  <2> QED
    BY <2>1, <2>2, Zenon
<1>5. IsFlatten(h)
  BY <1>4, Zenon
<1>6. Joins(h, ss, Len(ss))
  BY <1>5 DEF Joins
<1>7. \A i \in 1 .. Len(ss) : h[i] = g[i]
  BY <1>1, <1>2, <1>6, JoinsUnique
<1>8. FlattenSeq(ss) = IF Len(ss) = 0 THEN ss ELSE h[Len(ss)]
  BY DEF FlattenSeq
<1> HIDE DEF h, IsFlatten
<1>9. CASE Len(ss) = 0
  BY <1>1, <1>8, <1>9
<1>10. CASE Len(ss) # 0
  <2>1. Len(ss) \in 1 .. Len(ss)
    BY <1>1, <1>10
  <2>2. h[Len(ss)] = f[Len(ss)] /\ h[Len(ss)] \in Seq(A)
    BY <1>2, <1>3, <1>7, <2>1
  <2> QED
    BY <1>8, <1>10, <2>2
<1> QED
  BY <1>9, <1>10

LEMMA FlattenType ==
  ASSUME NEW A, NEW ss \in Seq(Seq(A))
  PROVE  FlattenSeq(ss) \in Seq(A)
<1>1. PICK f \in [1 .. Len(ss) -> Seq(A)] : Joins(f, ss, Len(ss))
  BY JoinsExists
<1> QED
  BY <1>1, FlattenJoins

LEMMA FlattenEmpty == FlattenSeq(<<>>) = <<>>
  BY DEF FlattenSeq

LEMMA FlattenAppend ==
  ASSUME NEW A, NEW ss \in Seq(Seq(A)), NEW s \in Seq(A)
  PROVE  /\ FlattenSeq(ss) \in Seq(A)
         /\ FlattenSeq(Append(ss, s)) = FlattenSeq(ss) \o s
<1> DEFINE tt == Append(ss, s)
           n == Len(ss)
<1>1. /\ tt \in Seq(Seq(A)) /\ Len(tt) = n + 1 /\ n \in Nat /\ tt[n + 1] = s
      /\ \A i \in 1 .. n : tt[i] = ss[i]
  BY AppendProperties
<1> HIDE DEF tt
<1>2. PICK f \in [1 .. Len(ss) -> Seq(A)] : Joins(f, ss, Len(ss))
  BY JoinsExists
<1>3. PICK g \in [1 .. Len(tt) -> Seq(A)] : Joins(g, tt, Len(tt))
  BY <1>1, JoinsExists
<1> HIDE DEF n
<1>4. Joins(g, tt, n) /\ Joins(f, ss, n)
  <2>1. \A i \in 1 .. n : i \in 1 .. Len(tt)
    BY <1>1
  <2>2. Joins(g, tt, n)
    BY <1>3, <2>1, Zenon DEF Joins
  <2> QED
    BY <1>2, <2>2 DEF n
<1>5. \A i \in 1 .. n : f[i] = g[i]
  <2>1. \A i \in 1 .. n : ss[i] = tt[i]
    BY <1>1
  <2>2. n \in Nat
    BY <1>1
  <2>3. Joins(f, ss, n)
    BY <1>4
  <2>4. Joins(g, tt, n)
    BY <1>4
  <2> QED
    BY <2>1, <2>2, <2>3, <2>4, JoinsUnique, Z3
<1>6. /\ FlattenSeq(ss) = IF n = 0 THEN <<>> ELSE f[n]
      /\ FlattenSeq(ss) \in Seq(A)
  BY <1>2, FlattenJoins DEF n
<1>7. FlattenSeq(tt) = g[n + 1]
  <2>1. FlattenSeq(tt) = IF Len(tt) = 0 THEN <<>> ELSE g[Len(tt)]
    BY <1>1, <1>3, FlattenJoins
  <2> QED
    BY <1>1, <2>1
<1>8. g[n + 1] = IF n + 1 = 1 THEN s ELSE g[n] \o s
  <2>1. n + 1 \in 1 .. Len(tt) /\ (n + 1) - 1 = n
    BY <1>1
  <2>2. g[n + 1] = IF n + 1 = 1 THEN tt[n + 1] ELSE g[(n + 1) - 1] \o tt[n + 1]
    BY <1>3, <2>1 DEF Joins
  <2> QED
    BY <1>1, <2>1, <2>2
<1>9. FlattenSeq(tt) = FlattenSeq(ss) \o s
  <2>1. CASE n = 0
    <3>1. <<>> \o s = s
      BY ConcatEmptySeq
    <3> QED
      BY <1>6, <1>7, <1>8, <2>1, <3>1
  <2>2. CASE n # 0
    <3>1. n \in 1 .. n /\ n + 1 # 1
      BY <1>1, <2>2
    <3> QED
      BY <1>5, <1>6, <1>7, <1>8, <2>2, <3>1
  <2> QED
    BY <2>1, <2>2
<1> QED
  BY <1>6, <1>9 DEF tt

\* An element of the joined sequence is an element of one of them.
LEMMA FlattenRange ==
  ASSUME NEW A, NEW ss \in Seq(Seq(A))
  PROVE  Range(FlattenSeq(ss)) = UNION {Range(ss[i]) : i \in 1 .. Len(ss)}
<1>1. PICK f \in [1 .. Len(ss) -> Seq(A)] : Joins(f, ss, Len(ss))
  BY JoinsExists
<1>2. Len(ss) \in Nat /\ \A i \in 1 .. Len(ss) : ss[i] \in Seq(A)
  OBVIOUS
<1> DEFINE S == {n \in Nat : n \in 1 .. Len(ss) => Range(f[n]) = UNION {Range(ss[i]) : i \in 1 .. n}}
<1>3. 0 \in S
  OBVIOUS
<1>4. ASSUME NEW n \in Nat, n \in S PROVE n + 1 \in S
  <2> SUFFICES ASSUME n + 1 \in 1 .. Len(ss)
               PROVE  Range(f[n + 1]) = UNION {Range(ss[i]) : i \in 1 .. n + 1}
    OBVIOUS
  <2>1. f[n + 1] = IF n + 1 = 1 THEN ss[n + 1] ELSE f[n] \o ss[n + 1]
    <3>1. (n + 1) - 1 = n
      OBVIOUS
    <3> QED
      BY <1>1, <3>1 DEF Joins
  <2>2. 1 .. n + 1 = (1 .. n) \cup {n + 1}
    OBVIOUS
  <2>3. UNION {Range(ss[i]) : i \in 1 .. n + 1} = (UNION {Range(ss[i]) : i \in 1 .. n}) \cup Range(ss[n + 1])
    BY <2>2
  <2>4. CASE n = 0
    <3>1. 1 .. n = {}
      BY <2>4
    <3>2. UNION {Range(ss[i]) : i \in 1 .. n} = {}
      BY <3>1
    <3> QED
      BY <2>1, <2>3, <2>4, <3>2
  <2>5. CASE n # 0
    <3>1. n \in 1 .. Len(ss) /\ n + 1 # 1
      BY <1>2, <2>5
    <3>2. Range(f[n]) = UNION {Range(ss[i]) : i \in 1 .. n}
      BY <1>4, <3>1
    <3>3. f[n] \in Seq(A) /\ ss[n + 1] \in Seq(A)
      BY <1>2, <3>1
    <3>4. Range(f[n] \o ss[n + 1]) = Range(f[n]) \cup Range(ss[n + 1])
      BY <3>3, RangeConcatenation
    <3> QED
      BY <2>1, <2>3, <3>1, <3>2, <3>4
  <2> QED
    BY <2>4, <2>5
<1>5. Nat \subseteq S
  <2> HIDE DEF S
  <2> QED
    BY <1>3, <1>4, AllNumbers
<1>6. FlattenSeq(ss) = IF Len(ss) = 0 THEN <<>> ELSE f[Len(ss)]
  BY <1>1, FlattenJoins
<1>7. CASE Len(ss) = 0
  <2>1. Range(<<>>) = {}
    BY DEF Range
  <2>2. {Range(ss[i]) : i \in 1 .. Len(ss)} = {}
    BY <1>7
  <2> QED
    BY <1>6, <1>7, <2>1, <2>2
<1>8. CASE Len(ss) # 0
  BY <1>2, <1>5, <1>6, <1>8
<1> QED
  BY <1>7, <1>8

-----------------------------------------------------------------------------
(* The inductive invariant. *)

Types ==
  /\ session \in Sessions
  /\ cursor \in CursorType
  /\ cursor.pos \in 1 .. Len(session.instr)
  /\ end \in 0 .. Len(session.instr)
  /\ module \in 0 .. Len(session.modules)
  /\ old_context \in {NoContext} \cup [Register -> Value \cup GuestAddress]
  /\ memsinfo \in Seq(Access)
  /\ lines \in Seq(OutLine)
  /\ pc \in {"args", "loop", "done", "exit"}
  /\ pc \in {"args", "exit"} => lines = <<>>

\* While it replays, there is a line, the old context is the one of the last
\* line, and the module is the first one of the name.
Started ==
  pc \in {"loop", "done"} =>
    /\ lines # <<>>
    /\ old_context = ContextAt(LastLine.at)
    /\ LastLine.at \in Begin .. cursor.pos
    /\ module \in 1 .. Len(session.modules)
    /\ FirstNamed(module)

\* The accesses since the last line are kept, and a line has the accesses since
\* the line before.
AccessesKept ==
  /\ lines = <<>> => memsinfo = <<>>
  /\ lines # <<>> => /\ lines[1].at = Begin
                     /\ memsinfo = AccessesBetween(LastLine.at, cursor.pos)
  /\ \A n \in 2 .. Len(lines) :
       lines[n].mem = MemoryFields(AccessesBetween(lines[n - 1].at, lines[n].at),
                                   session.instr[lines[n].at].mem)

Inv == Types /\ Started /\ RegistersExact /\ LinesExact /\ AccessesKept

-----------------------------------------------------------------------------
(* Typing facts. *)

LEMMA SessionType ==
  ASSUME session \in Sessions
  PROVE  /\ session \in Session
         /\ Len(session.instr) \in Nat \ {0}
         /\ Len(session.modules) \in Nat
         /\ Begin \in 1 .. Len(session.instr)
         /\ session.end_arg \in 0 .. Len(session.instr)
         /\ \A n \in 1 .. Len(session.instr) :
              /\ session.instr[n].pc \in GuestAddress
              /\ session.instr[n].pc \in Nat
              /\ session.instr[n].regs \in [Register \ {"Rip"} -> Value]
              /\ session.instr[n].mem \in [Address -> Value \cup {UNMAPPED, PARTIAL}]
              /\ session.instr[n].accesses \in Seq(Access)
         /\ \A k \in 1 .. Len(session.modules) :
              /\ session.modules[k].base_addr \in Nat
              /\ session.modules[k].imageSize \in Nat
<1>1. session \in Session /\ session.begin_arg \in 0 .. Len(session.instr)
      /\ session.end_arg \in 0 .. Len(session.instr) /\ NULL = 0 /\ GuestAddress \subseteq Nat
  BY SessionsAssumption
<1>2. session.instr \in Seq(Instr) /\ session.instr # <<>>
  BY <1>1 DEF Session
<1>3. session.modules \in Seq(Module)
  BY <1>1 DEF Session
<1>4. Len(session.instr) \in Nat \ {0} /\ Len(session.modules) \in Nat
  BY <1>2, <1>3
<1>5. Begin \in 1 .. Len(session.instr)
  BY <1>1, <1>4 DEF Begin
<1>6. \A n \in 1 .. Len(session.instr) : session.instr[n] \in Instr
  BY <1>2
<1>7. \A k \in 1 .. Len(session.modules) : session.modules[k] \in Module
  BY <1>3
<1> QED
  BY <1>1, <1>4, <1>5, <1>6, <1>7 DEF Instr, Module

LEMMA ContextType ==
  ASSUME session \in Sessions, NEW p \in 1 .. Len(session.instr)
  PROVE  ContextAt(p) \in [Register -> Value \cup GuestAddress]
BY SessionType DEF ContextAt

-----------------------------------------------------------------------------
(* The memory fields of a line, and the accesses between two lines. *)

Field == [addr : Address, flags : {"READ", "WRITE", "OTHER"}, value : Value \cup {PARTIAL}]
Memory == [Address -> Value \cup {UNMAPPED, PARTIAL}]

LEMMA FieldOfType ==
  ASSUME NEW a \in Access, NEW m \in Memory
  PROVE  /\ FieldOf(a, m) \in Seq(Field)
         /\ Range(FieldOf(a, m)) =
              { e \in Field : /\ m[a.addr] # UNMAPPED
                              /\ e = [addr |-> a.addr, flags |-> a.flags, value |-> m[a.addr]] }
<1> DEFINE e == [addr |-> a.addr, flags |-> a.flags, value |-> m[a.addr]]
<1>1. CASE m[a.addr] = UNMAPPED
  <2>1. FieldOf(a, m) = <<>>
    BY <1>1 DEF FieldOf
  <2>2. Range(<<>>) = {}
    BY DEF Range
  <2> QED
    BY <1>1, <2>1, <2>2
<1>2. CASE m[a.addr] # UNMAPPED
  <2>1. e \in Field
    BY <1>2 DEF Memory, Access, Field
  <2>2. FieldOf(a, m) = <<e>>
    BY <1>2 DEF FieldOf
  <2> HIDE DEF e
  <2>3. <<e>> \in Seq(Field) /\ Range(<<e>>) = {e}
    BY <2>1 DEF Range
  <2> QED
    BY <1>2, <2>1, <2>2, <2>3 DEF e
<1> QED
  BY <1>1, <1>2

\* A line has an access exactly when its memory is there, with its value.
LEMMA FieldsType ==
  ASSUME NEW a \in Seq(Access), NEW m \in Memory
  PROVE  /\ MemoryFields(a, m) \in Seq(Field)
         /\ \A e \in Range(MemoryFields(a, m)) : e.value = m[e.addr]
         /\ \A x \in 1 .. Len(a) :
              m[a[x].addr] # UNMAPPED =>
                \E e \in Range(MemoryFields(a, m)) : e.addr = a[x].addr
<1> DEFINE ss == [x \in 1 .. Len(a) |-> FieldOf(a[x], m)]
<1>1. Len(a) \in Nat /\ \A x \in 1 .. Len(a) : a[x] \in Access
  OBVIOUS
<1>2. \A x \in 1 .. Len(a) : FieldOf(a[x], m) \in Seq(Field)
  BY <1>1, FieldOfType
<1>3. ss \in Seq(Seq(Field)) /\ Len(ss) = Len(a)
  BY <1>1, <1>2
<1>4. \A x \in 1 .. Len(a) : ss[x] = FieldOf(a[x], m)
  OBVIOUS
<1>5. MemoryFields(a, m) = FlattenSeq(ss)
  BY DEF MemoryFields
<1> HIDE DEF ss
<1>6. MemoryFields(a, m) \in Seq(Field)
  BY <1>3, <1>5, FlattenType
<1>7. Range(MemoryFields(a, m)) = UNION {Range(ss[x]) : x \in 1 .. Len(ss)}
  BY <1>3, <1>5, FlattenRange
<1>8. ASSUME NEW e \in Range(MemoryFields(a, m)) PROVE e.value = m[e.addr]
  <2>1. PICK x \in 1 .. Len(a) : e \in Range(FieldOf(a[x], m))
    BY <1>3, <1>4, <1>7
  <2>2. e = [addr |-> a[x].addr, flags |-> a[x].flags, value |-> m[a[x].addr]]
    BY <1>1, <2>1, FieldOfType
  <2> QED
    BY <2>2
<1>9. ASSUME NEW x \in 1 .. Len(a), m[a[x].addr] # UNMAPPED
      PROVE  \E e \in Range(MemoryFields(a, m)) : e.addr = a[x].addr
  <2> DEFINE e == [addr |-> a[x].addr, flags |-> a[x].flags, value |-> m[a[x].addr]]
  <2>1. e \in Field
    BY <1>1, <1>9 DEF Field, Access, Memory
  <2>2. e \in Range(FieldOf(a[x], m))
    BY <1>1, <1>9, <2>1, FieldOfType
  <2>3. e \in Range(MemoryFields(a, m))
    BY <1>3, <1>4, <1>7, <2>2
  <2> QED
    BY <2>3
<1> QED
  BY <1>6, <1>8, <1>9

\* The accesses in a sequence of fields.
Strip(s) == [y \in 1 .. Len(s) |-> [addr |-> s[y].addr, flags |-> s[y].flags]]

LEMMA StripConcat ==
  ASSUME NEW s \in Seq(Field), NEW t \in Seq(Field)
  PROVE  /\ Strip(s) \in Seq(Access)
         /\ Strip(s \o t) = Strip(s) \o Strip(t)
<1>1. /\ s \o t \in Seq(Field) /\ Len(s \o t) = Len(s) + Len(t)
      /\ Len(s) \in Nat /\ Len(t) \in Nat
      /\ \A i \in 1 .. Len(s) + Len(t) :
           (s \o t)[i] = IF i <= Len(s) THEN s[i] ELSE t[i - Len(s)]
  BY ConcatProperties
<1>2. ASSUME NEW u \in Seq(Field)
      PROVE  /\ Strip(u) \in Seq(Access) /\ Len(Strip(u)) = Len(u)
             /\ \A i \in 1 .. Len(u) : Strip(u)[i] = [addr |-> u[i].addr, flags |-> u[i].flags]
  <2> DEFINE strip(i) == [addr |-> u[i].addr, flags |-> u[i].flags]
  <2>1. Len(u) \in Nat /\ \A i \in 1 .. Len(u) : strip(i) \in Access
    <3>1. Len(u) \in Nat /\ \A i \in 1 .. Len(u) : u[i] \in Field
      OBVIOUS
    <3>2. \A e \in Field : [addr |-> e.addr, flags |-> e.flags] \in Access
      BY DEF Field, Access
    <3> QED
      BY <3>1, <3>2
  <2>2. Strip(u) = [i \in 1 .. Len(u) |-> strip(i)]
    BY DEF Strip
  <2>3. \A i \in 1 .. Len(u) : strip(i) = [addr |-> u[i].addr, flags |-> u[i].flags]
    OBVIOUS
  <2> HIDE DEF strip
  <2> QED
    BY <2>1, <2>2, <2>3
<1>3. /\ Strip(s) \in Seq(Access) /\ Strip(t) \in Seq(Access) /\ Strip(s \o t) \in Seq(Access)
      /\ Len(Strip(s)) = Len(s) /\ Len(Strip(t)) = Len(t) /\ Len(Strip(s \o t)) = Len(s) + Len(t)
  BY <1>1, <1>2
<1>4. /\ Strip(s) \o Strip(t) \in Seq(Access)
      /\ Len(Strip(s) \o Strip(t)) = Len(s) + Len(t)
      /\ \A i \in 1 .. Len(s) + Len(t) :
           (Strip(s) \o Strip(t))[i] = IF i <= Len(s) THEN Strip(s)[i] ELSE Strip(t)[i - Len(s)]
  BY <1>3, ConcatProperties
<1>5. ASSUME NEW i \in 1 .. Len(s) + Len(t)
      PROVE  Strip(s \o t)[i] = (Strip(s) \o Strip(t))[i]
  <2>1. Strip(s \o t)[i] = [addr |-> (s \o t)[i].addr, flags |-> (s \o t)[i].flags]
    BY <1>1, <1>2
  <2>2. CASE i <= Len(s)
    <3>1. i \in 1 .. Len(s)
      BY <2>2, <1>1
    <3>2. (s \o t)[i] = s[i] /\ (Strip(s) \o Strip(t))[i] = Strip(s)[i]
      BY <1>1, <1>4, <2>2
    <3>3. Strip(s)[i] = [addr |-> s[i].addr, flags |-> s[i].flags]
      BY <1>2, <3>1
    <3> QED
      BY <2>1, <3>2, <3>3
  <2>3. CASE ~ (i <= Len(s))
    <3>1. i - Len(s) \in 1 .. Len(t)
      BY <2>3, <1>1
    <3>2. (s \o t)[i] = t[i - Len(s)] /\ (Strip(s) \o Strip(t))[i] = Strip(t)[i - Len(s)]
      BY <1>1, <1>4, <2>3
    <3>3. Strip(t)[i - Len(s)] = [addr |-> t[i - Len(s)].addr, flags |-> t[i - Len(s)].flags]
      BY <1>2, <3>1
    <3> QED
      BY <2>1, <3>2, <3>3
  <2> QED
    BY <2>2, <2>3
<1> QED
  BY <1>3, <1>4, <1>5, SeqEqual

\* Without the values, the fields of a line are the accesses to memory that is
\* there.
LEMMA StripFields ==
  ASSUME NEW a \in Seq(Access), NEW m \in Memory
  PROVE  Strip(MemoryFields(a, m)) = There(a, m)
<1> DEFINE n == Len(a)
           ss == [x \in 1 .. n |-> FieldOf(a[x], m)]
           tt == [x \in 1 .. n |-> IF m[a[x].addr] = UNMAPPED THEN <<>> ELSE << a[x] >>]
<1>1. n \in Nat /\ \A x \in 1 .. n : a[x] \in Access
  OBVIOUS
<1>2. \A x \in 1 .. n : FieldOf(a[x], m) \in Seq(Field)
  BY <1>1, FieldOfType
<1>3. MemoryFields(a, m) = FlattenSeq(ss) /\ There(a, m) = FlattenSeq(tt)
  BY DEF MemoryFields, There
<1>4. \A x \in 1 .. n : /\ ss[x] = FieldOf(a[x], m)
                        /\ m[a[x].addr] = UNMAPPED => tt[x] = <<>>
                        /\ m[a[x].addr] # UNMAPPED => tt[x] = << a[x] >>
  OBVIOUS
<1>5. ss \in Seq(Seq(Field)) /\ Len(ss) = n
  BY <1>1, <1>2
<1>6. tt \in Seq(Seq(Access)) /\ Len(tt) = n
  <2>1. \A x \in 1 .. n : (IF m[a[x].addr] = UNMAPPED THEN <<>> ELSE << a[x] >>) \in Seq(Access)
    BY <1>1
  <2> HIDE DEF n
  <2> QED
    BY <1>1, <2>1
<1> HIDE DEF n, ss, tt
<1>7. ASSUME NEW x \in 1 .. n PROVE Strip(ss[x]) = tt[x]
  <2>1. CASE m[a[x].addr] = UNMAPPED
    <3>1. ss[x] = <<>>
      BY <1>4, <2>1 DEF FieldOf
    <3>2. Strip(<<>>) = <<>>
      BY DEF Strip
    <3> QED
      BY <1>4, <2>1, <3>1, <3>2
  <2>2. CASE m[a[x].addr] # UNMAPPED
    <3> DEFINE e == [addr |-> a[x].addr, flags |-> a[x].flags, value |-> m[a[x].addr]]
    <3>1. ss[x] = <<e>>
      BY <1>4, <2>2 DEF FieldOf
    <3>2. e.addr = a[x].addr /\ e.flags = a[x].flags
      OBVIOUS
    <3> HIDE DEF e
    <3>3. Strip(<<e>>) = << [addr |-> e.addr, flags |-> e.flags] >>
      BY DEF Strip
    <3>4. a[x] = [addr |-> a[x].addr, flags |-> a[x].flags]
      BY <1>1 DEF Access
    <3> QED
      BY <1>4, <2>2, <3>1, <3>2, <3>3, <3>4
  <2> QED
    BY <2>1, <2>2
<1>8. PICK f \in [1 .. Len(ss) -> Seq(Field)] : Joins(f, ss, Len(ss))
  BY <1>5, JoinsExists
<1> DEFINE h == [i \in 1 .. n |-> Strip(f[i])]
<1>9. \A i \in 1 .. n : h[i] = Strip(f[i])
  OBVIOUS
<1> HIDE DEF h
<1>10. ASSUME NEW i \in 1 .. n
       PROVE  h[i] = IF i = 1 THEN tt[i] ELSE h[i - 1] \o tt[i]
  <2>1. f[i] = IF i = 1 THEN ss[i] ELSE f[i - 1] \o ss[i]
    BY <1>5, <1>8 DEF Joins
  <2>2. CASE i = 1
    BY <1>7, <1>9, <2>1, <2>2
  <2>3. CASE i # 1
    <3>1. i - 1 \in 1 .. n
      BY <1>1, <2>3
    <3>2. f[i - 1] \in Seq(Field) /\ ss[i] \in Seq(Field)
      BY <1>2, <1>4, <1>5, <1>8, <3>1
    <3>3. Strip(f[i - 1] \o ss[i]) = Strip(f[i - 1]) \o Strip(ss[i])
      BY <3>2, StripConcat
    <3> QED
      BY <1>7, <1>9, <2>1, <2>3, <3>1, <3>3
  <2> QED
    BY <2>2, <2>3
<1>11. Joins(h, tt, n)
  BY <1>10 DEF Joins
<1>12. FlattenSeq(tt) = IF n = 0 THEN <<>> ELSE h[n]
  BY <1>6, <1>11, FlattenJoins
<1>13. FlattenSeq(ss) = IF n = 0 THEN <<>> ELSE f[n]
  BY <1>5, <1>8, FlattenJoins
<1>14. CASE n = 0
  <2>1. Strip(<<>>) = <<>>
    BY DEF Strip
  <2> QED
    BY <1>3, <1>12, <1>13, <1>14, <2>1
<1>15. CASE n # 0
  <2>1. n \in 1 .. n
    BY <1>1, <1>15
  <2> QED
    BY <1>3, <1>9, <1>12, <1>13, <1>15, <2>1
<1> QED
  BY <1>14, <1>15

\* The accesses up to the next position.
LEMMA AccessesGrow ==
  ASSUME session \in Sessions, NEW lo \in Nat \ {0}, NEW hi \in Nat,
         lo <= hi, hi <= Len(session.instr)
  PROVE  /\ AccessesBetween(lo, lo) = <<>>
         /\ AccessesBetween(lo, hi) \in Seq(Access)
         /\ AccessesBetween(lo, hi + 1) = AccessesBetween(lo, hi) \o session.instr[hi].accesses
         /\ \A n \in lo .. hi - 1 : \A x \in 1 .. Len(session.instr[n].accesses) :
              session.instr[n].accesses[x] \in Range(AccessesBetween(lo, hi))
<1> DEFINE acc(n) == session.instr[n].accesses
           ss == [k \in 1 .. hi - lo |-> acc(lo + k - 1)]
<1>1. \A n \in 1 .. Len(session.instr) : acc(n) \in Seq(Access)
  BY SessionType
<1> HIDE DEF acc
<1>2. hi - lo \in Nat /\ Len(session.instr) \in Nat
  BY SessionType
<1>3. \A k \in 1 .. (hi - lo) + 1 : lo + k - 1 \in 1 .. Len(session.instr)
  BY <1>2
<1>4. ss \in Seq(Seq(Access)) /\ Len(ss) = hi - lo
  BY <1>1, <1>2, <1>3
<1>5. [k \in 1 .. (hi + 1) - lo |-> acc(lo + k - 1)] = Append(ss, acc(hi))
  <2> DEFINE uu == [k \in 1 .. (hi + 1) - lo |-> acc(lo + k - 1)]
  <2>1. (hi + 1) - lo = (hi - lo) + 1 /\ lo + ((hi - lo) + 1) - 1 = hi
    OBVIOUS
  <2>2. uu \in Seq(Seq(Access)) /\ Len(uu) = (hi - lo) + 1
    BY <1>1, <1>2, <1>3, <2>1
  <2>3. hi \in 1 .. Len(session.instr)
    BY <1>2
  <2>4. acc(hi) \in Seq(Access)
    BY <1>1, <2>3
  <2>5. /\ Append(ss, acc(hi)) \in Seq(Seq(Access)) /\ Len(Append(ss, acc(hi))) = (hi - lo) + 1
        /\ \A i \in 1 .. hi - lo : Append(ss, acc(hi))[i] = ss[i]
        /\ Append(ss, acc(hi))[(hi - lo) + 1] = acc(hi)
    <3> HIDE DEF ss
    <3> QED
      BY <1>4, <2>4, AppendProperties
  <2>6. \A i \in 1 .. hi - lo : uu[i] = ss[i]
    BY <1>2
  <2>7. uu[(hi - lo) + 1] = acc(hi)
    BY <1>2, <2>1
  <2> HIDE DEF uu, ss
  <2>8. ASSUME NEW i \in 1 .. (hi - lo) + 1
        PROVE  uu[i] = Append(ss, acc(hi))[i]
    <3>1. i \in 1 .. hi - lo \/ i = (hi - lo) + 1
      BY <1>2
    <3> QED
      BY <2>5, <2>6, <2>7, <3>1
  <2>9. uu = Append(ss, acc(hi))
    BY <2>2, <2>5, <2>8, SeqEqual
  <2> QED
    BY <2>9 DEF uu
<1>6. AccessesBetween(lo, hi) = FlattenSeq(ss)
  BY DEF AccessesBetween, acc
<1>7. AccessesBetween(lo, hi + 1) = FlattenSeq(Append(ss, acc(hi)))
  <2>1. AccessesBetween(lo, hi + 1) = FlattenSeq([k \in 1 .. (hi + 1) - lo |-> acc(lo + k - 1)])
    BY DEF AccessesBetween, acc
  <2> HIDE DEF ss
  <2> QED
    BY <1>5, <2>1
<1>8. AccessesBetween(lo, lo) = <<>>
  <2>1. 1 .. lo - lo = {}
    OBVIOUS
  <2>2. [k \in 1 .. lo - lo |-> session.instr[lo + k - 1].accesses] = <<>>
    BY <2>1
  <2> QED
    BY <2>2, FlattenEmpty DEF AccessesBetween
<1>9. acc(hi) \in Seq(Access)
  BY <1>1, <1>2
<1>10. ASSUME NEW n \in lo .. hi - 1, NEW x \in 1 .. Len(acc(n))
       PROVE  acc(n)[x] \in Range(FlattenSeq(ss))
  <2>1. n - lo + 1 \in 1 .. hi - lo /\ lo + (n - lo + 1) - 1 = n /\ n \in 1 .. Len(session.instr)
    BY <1>2
  <2>2. ss[n - lo + 1] = acc(n)
    BY <2>1
  <2>3. acc(n) \in Seq(Access)
    BY <1>1, <2>1
  <2>4. acc(n)[x] \in Range(acc(n))
    BY <2>3 DEF Range
  <2> HIDE DEF ss
  <2>5. Range(FlattenSeq(ss)) = UNION {Range(ss[i]) : i \in 1 .. Len(ss)}
    BY <1>4, FlattenRange
  <2> QED
    BY <1>4, <2>1, <2>2, <2>4, <2>5
<1> HIDE DEF ss
<1>11. /\ FlattenSeq(ss) \in Seq(Access)
       /\ FlattenSeq(Append(ss, acc(hi))) = FlattenSeq(ss) \o acc(hi)
  BY <1>4, <1>9, FlattenAppend
<1> QED
  BY <1>6, <1>7, <1>8, <1>10, <1>11 DEF acc

-----------------------------------------------------------------------------
(* The lines, and the module that they are of. *)

\* A line is at its position, and has the registers that changed and the
\* fields of the accesses.
IsLine(line, old, a, p) ==
  /\ line \in OutLine
  /\ line.at = p
  /\ line.mem = MemoryFields(a, session.instr[p].mem)
  /\ DOMAIN line.regs = Changed(old, ContextAt(p))
  /\ \A r \in Changed(old, ContextAt(p)) : line.regs[r] = ContextAt(p)[r]

LEMMA LineType ==
  ASSUME session \in Sessions, NEW p \in 1 .. Len(session.instr),
         NEW old, NEW a \in Seq(Access)
  PROVE  IsLine(dumpContext(old, ContextAt(p), a, p), old, a, p)
<1> DEFINE R == Changed(old, ContextAt(p))
           c == ContextAt(p)
           fields == MemoryFields(a, session.instr[p].mem)
<1>1. c \in [Register -> Value \cup GuestAddress]
  BY ContextType
<1>2. session.instr[p].mem \in Memory /\ p \in Nat \ {0}
  BY SessionType DEF Memory
<1>3. R \in SUBSET Register
  BY DEF Changed
<1>4. fields \in Seq(Field)
  BY <1>2, FieldsType
<1>5. dumpContext(old, c, a, p) = [regs |-> [r \in R |-> c[r]], mem |-> fields, at |-> p]
  BY DEF dumpContext
<1> HIDE DEF R, c, fields
<1>6. [r \in R |-> c[r]] \in [R -> Value \cup GuestAddress]
  BY <1>1, <1>3
<1>7. dumpContext(old, c, a, p) \in OutLine
  BY <1>2, <1>3, <1>4, <1>5, <1>6 DEF OutLine, Field
<1>8. /\ dumpContext(old, c, a, p).at = p
      /\ dumpContext(old, c, a, p).mem = fields
      /\ DOMAIN dumpContext(old, c, a, p).regs = R
      /\ \A r \in R : dumpContext(old, c, a, p).regs[r] = c[r]
  BY <1>5
<1> QED
  BY <1>7, <1>8 DEF IsLine, R, c, fields

\* The module found by name is the one that LinesExact speaks of.
LEMMA InModuleIsTraced ==
  ASSUME session \in Sessions, module \in 1 .. Len(session.modules), FirstNamed(module)
  PROVE  \A p \in 1 .. Len(session.instr) :
           InModule(session.instr[p].pc) <=> session.instr[p].pc \in Traced
<1>1. ASSUME NEW k \in 1 .. Len(session.modules), FirstNamed(k)
      PROVE  k = module
  <2>1. ~ (k < module) /\ ~ (module < k)
    BY <1>1, SessionType DEF FirstNamed
  <2> QED
    BY <2>1, SessionType
<1>2. TracedModule = module
  BY <1>1 DEF TracedModule
<1>3. /\ session.modules[module].base_addr \in Nat
      /\ session.modules[module].imageSize \in Nat
  BY SessionType
<1> SUFFICES ASSUME NEW p \in 1 .. Len(session.instr)
             PROVE  InModule(session.instr[p].pc) <=> session.instr[p].pc \in Traced
  OBVIOUS
<1>4. session.instr[p].pc \in Nat
  BY SessionType
<1> DEFINE lo == session.modules[module].base_addr
           hi == session.modules[module].base_addr + session.modules[module].imageSize
<1>5. Traced = lo .. hi - 1
  <2> DEFINE n == session.modules[module].imageSize
  <2>1. session.modules[TracedModule] = session.modules[module]
    BY <1>2
  <2>2. Traced = lo .. lo + n - 1
    BY <2>1, Zenon DEF Traced
  <2>3. lo \in Nat /\ n \in Nat /\ hi = lo + n
    BY <1>3
  <2> HIDE DEF lo, hi, n
  <2>4. lo + n - 1 = hi - 1
    BY <2>3
  <2> QED
    BY <2>2, <2>4
<1>6. InModule(session.instr[p].pc) <=> lo <= session.instr[p].pc /\ session.instr[p].pc < hi
  BY DEF InModule
<1>7. lo \in Int /\ hi \in Int
  BY <1>3
<1> HIDE DEF lo, hi
<1> QED
  BY <1>4, <1>5, <1>6, <1>7

-----------------------------------------------------------------------------
(* One lemma for each action. *)

LEMMA InitInv == Init => Inv
<1> SUFFICES ASSUME Init PROVE Inv
  OBVIOUS
<1>1. Types
  BY SessionType DEF Init, Types, NewCursor, CursorType, NO_CALLBACK
<1> QED
  BY <1>1 DEF Init, Inv, Started, RegistersExact, LinesExact, AccessesKept

\* A step that leaves the file and the module alone keeps what is said of them.
LEMMA NoModuleInv == ASSUME Inv, NoModule PROVE Inv'
<1> USE DEF NoModule
<1>1. Types'
  BY DEF Inv, Types
<1>2. Started' /\ LinesExact'
  BY DEF Started, LinesExact
<1>3. RegistersExact'
  BY DEF Inv, Types, RegistersExact
<1>4. AccessesKept'
  BY DEF Inv, Types, AccessesKept
<1> QED
  BY <1>1, <1>2, <1>3, <1>4 DEF Inv

LEMMA StartInv == ASSUME Inv, Start PROVE Inv'
<1> USE DEF Start
<1>1. session' = session /\ session \in Sessions /\ Begin' = Begin
      /\ Begin \in 1 .. Len(session.instr)
  BY SessionType DEF Inv, Types, Begin
<1>2. cursor' \in CursorType /\ cursor'.pos = Begin
  <2>1. Begin \in Nat \ {0} /\ cursor \in CursorType
    BY <1>1, SessionType DEF Inv, Types
  <2> QED
    BY <2>1, SetPositionType
<1> DEFINE line == dumpContext(NoContext, ContextAt(Begin), <<>>, Begin)
<1>3. /\ line \in OutLine
      /\ line.at = Begin
      /\ DOMAIN line.regs = Changed(NoContext, ContextAt(Begin))
      /\ \A r \in Changed(NoContext, ContextAt(Begin)) : line.regs[r] = ContextAt(Begin)[r]
  <2>1. <<>> \in Seq(Access)
    OBVIOUS
  <2>2. IsLine(line, NoContext, <<>>, Begin)
    BY <1>1, <2>1, LineType
  <2> QED
    BY <2>2 DEF IsLine
<1>4. Changed(NoContext, ContextAt(Begin)) = Register
  BY DEF Changed, NoContext
<1>5. lines' = <<line>>
  OBVIOUS
<1> HIDE DEF line
<1>6. Types'
  <2>1. end' \in 0 .. Len(session.instr)
    BY <1>1, SessionType DEF GetLastPosition
  <2>2. lines' \in Seq(OutLine)
    BY <1>3, <1>5
  <2>3. old_context' \in [Register -> Value \cup GuestAddress]
    BY <1>1, ContextType
  <2>4. module' \in 0 .. Len(session.modules)
    BY <1>1, SessionType
  <2> QED
    BY <1>1, <1>2, <2>1, <2>2, <2>3, <2>4 DEF Inv, Types
<1>7. lines' # <<>> /\ Len(lines') = 1 /\ LastLine' = line /\ lines'[1] = line
  BY <1>5 DEF LastLine
<1>8. \A p : ContextAt(p)' = ContextAt(p)
  BY <1>1 DEF ContextAt
<1>9. Started'
  <2>1. module' \in 1 .. Len(session.modules) /\ FirstNamed(module)'
    BY <1>1 DEF FirstNamed
  <2> QED
    BY <1>1, <1>2, <1>3, <1>7, <1>8, <2>1 DEF Started, ContextAt
<1>10. RegistersExact'
  <2> SUFFICES ASSUME NEW r \in Register
               PROVE  \E j \in 1 .. Len(lines') :
                        /\ r \in DOMAIN lines'[j].regs
                        /\ lines'[j].regs[r] = ContextAt(LastLine'.at)[r]
                        /\ \A m \in j + 1 .. Len(lines') : r \notin DOMAIN lines'[m].regs
    BY <1>1 DEF RegistersExact, ContextAt
  <2>1. r \in DOMAIN lines'[1].regs /\ lines'[1].regs[r] = ContextAt(LastLine'.at)[r]
    BY <1>3, <1>4, <1>7
  <2> QED
    BY <2>1, <1>7
<1>11. LinesExact'
  BY <1>1, <1>2, <1>3, <1>7 DEF LinesExact
<1>12. AccessesKept'
  <2>1. memsinfo' = <<>>
    BY DEF Inv, Types, AccessesKept
  <2>2. AccessesBetween(Begin, Begin) = <<>>
    BY <1>1, SessionType, AccessesGrow
  <2>3. \A lo, hi : AccessesBetween(lo, hi)' = AccessesBetween(lo, hi)
    BY <1>1 DEF AccessesBetween
  <2>4. LastLine'.at = Begin /\ lines'[1].at = Begin
    BY <1>3, <1>7
  <2>5. AccessesBetween(LastLine.at, cursor.pos)' = <<>>
    BY <1>2, <2>2, <2>3, <2>4
  <2> QED
    BY <1>1, <1>7, <2>1, <2>4, <2>5 DEF AccessesKept
<1> QED
  BY <1>6, <1>9, <1>10, <1>11, <1>12 DEF Inv

\* One step of the replay.
LEMMA OneStep ==
  ASSUME Inv, NEW position, ReplayOne(position)
  PROVE  /\ pc = "loop"
         /\ position = cursor.pos + 1
         /\ position \in 1 .. Len(session.instr)
         /\ cursor' \in CursorType
         /\ cursor'.pos = position
         /\ MemsinfoAfterStep \in Seq(Access)
         /\ MemsinfoAfterStep = AccessesBetween(LastLine.at, position)
<1>1. pc = "loop" /\ CanStep(ReplayForward(cursor, 1), end)
      /\ cursor' = Step(session.instr, ReplayForward(cursor, 1)) /\ cursor'.pos = position
  BY DEF ReplayOne
<1>2. cursor \in CursorType /\ 1 \in Nat \cup {NO_LIMIT} /\ end \in Nat
      /\ end \in 0 .. Len(session.instr) /\ Len(session.instr) \in Nat
      /\ cursor.pos \in 1 .. Len(session.instr) /\ memsinfo \in Seq(Access)
  BY SessionType DEF Inv, Types
<1>3. ReplayForward(cursor, 1) \in CursorType /\ ReplayForward(cursor, 1).pos = cursor.pos
  BY <1>2, ReplayForwardType
<1>4. /\ cursor' \in CursorType
      /\ cursor'.pos = cursor.pos + 1
      /\ cursor.pos + 1 \in 1 .. end
  BY <1>1, <1>2, <1>3, StepType
<1>5. MemsinfoAfterStep \in Seq(Access)
  <2>1. session.instr[cursor.pos].accesses \in Seq(Access)
    BY <1>2, SessionType DEF Inv, Types
  <2> QED
    BY <1>2, <2>1 DEF MemsinfoAfterStep
<1>6. MemsinfoAfterStep = AccessesBetween(LastLine.at, cursor.pos + 1)
  <2>1. /\ memsinfo = AccessesBetween(LastLine.at, cursor.pos)
        /\ LastLine.at \in Begin .. cursor.pos
    BY <1>1 DEF Inv, Started, AccessesKept
  <2>2. Begin \in Nat \ {0} /\ session \in Sessions
    BY SessionType DEF Inv, Types
  <2>3. LastLine.at \in Nat \ {0} /\ LastLine.at <= cursor.pos /\ cursor.pos \in Nat
        /\ cursor.pos <= Len(session.instr)
    BY <1>2, <2>1, <2>2
  <2> QED
    BY <2>1, <2>2, <2>3, AccessesGrow DEF MemsinfoAfterStep
<1> QED
  BY <1>1, <1>2, <1>4, <1>5, <1>6

LEMMA SkipInv == ASSUME Inv, Skip PROVE Inv'
<1>1. PICK position \in 1 .. Len(session.instr) :
        /\ ReplayOne(position)
        /\ ~ InModule(session.instr[position].pc)
        /\ memsinfo' = MemsinfoAfterStep
        /\ UNCHANGED <<session, end, module, old_context, lines, pc>>
  BY DEF Skip
<1>2. /\ pc = "loop" /\ position = cursor.pos + 1 /\ cursor' \in CursorType
      /\ cursor'.pos = position /\ memsinfo' \in Seq(Access)
      /\ memsinfo' = AccessesBetween(LastLine.at, position)
  BY <1>1, OneStep
<1>3. Types'
  BY <1>1, <1>2 DEF Inv, Types
<1>4. Begin \in Nat /\ cursor.pos \in Nat /\ Begin' = Begin /\ Traced' = Traced
      /\ LastLine' = LastLine /\ Len(session.modules) \in Nat
  BY <1>1, SessionType DEF Inv, Types, Begin, Traced, TracedModule, LastLine, FirstNamed
<1>5. Started'
  <2>1. LastLine.at \in Begin .. cursor'.pos
    BY <1>2, <1>4 DEF Inv, Started
  <2> QED
    BY <1>1, <1>2, <1>4, <2>1 DEF Inv, Started, ContextAt, FirstNamed
<1>6. RegistersExact'
  BY <1>1, <1>4 DEF Inv, RegistersExact, ContextAt
<1>7. session.instr[position].pc \notin Traced
  BY <1>1, <1>2, InModuleIsTraced DEF Inv, Types, Started
<1>8. LinesExact'
  <2>1. {p \in Begin + 1 .. position : session.instr[p].pc \in Traced}
          = {p \in Begin + 1 .. cursor.pos : session.instr[p].pc \in Traced}
    BY <1>2, <1>4, <1>7
  <2> QED
    BY <1>1, <1>2, <1>4, <2>1 DEF Inv, LinesExact
<1>9. AccessesKept'
  <2>1. AccessesBetween(LastLine.at, cursor.pos)' = AccessesBetween(LastLine.at, position)
    BY <1>1, <1>2, <1>4 DEF AccessesBetween
  <2>2. \A lo, hi : AccessesBetween(lo, hi)' = AccessesBetween(lo, hi)
    BY <1>1 DEF AccessesBetween
  <2>3. lines # <<>>
    BY <1>2 DEF Inv, Started
  <2> QED
    BY <1>1, <1>2, <1>4, <2>1, <2>2, <2>3 DEF Inv, AccessesKept
<1> QED
  BY <1>3, <1>5, <1>6, <1>8, <1>9 DEF Inv

\* The line added has the registers that differ from the line before.
LEMMA WriteLineInv == ASSUME Inv, WriteLine PROVE Inv'
<1>1. PICK position \in 1 .. Len(session.instr) :
        /\ ReplayOne(position)
        /\ InModule(session.instr[position].pc)
        /\ lines' = Append(lines, dumpContext(old_context, ContextAt(position),
                                              MemsinfoAfterStep, position))
        /\ memsinfo' = <<>>
        /\ old_context' = ContextAt(position)
        /\ UNCHANGED <<session, end, module, pc>>
  BY DEF WriteLine
<1>2. /\ pc = "loop" /\ position = cursor.pos + 1 /\ cursor' \in CursorType
      /\ cursor'.pos = position /\ MemsinfoAfterStep \in Seq(Access)
      /\ position \in 1 .. Len(session.instr)
      /\ MemsinfoAfterStep = AccessesBetween(LastLine.at, position)
  BY <1>1, OneStep
<1> DEFINE line == dumpContext(old_context, ContextAt(position), MemsinfoAfterStep, position)
           new == Changed(old_context, ContextAt(position))
<1>3. /\ line \in OutLine
      /\ line.at = position
      /\ line.mem = MemoryFields(MemsinfoAfterStep, session.instr[position].mem)
      /\ DOMAIN line.regs = new
      /\ \A r \in new : line.regs[r] = ContextAt(position)[r]
  <2>1. session \in Sessions
    BY DEF Inv, Types
  <2>2. IsLine(line, old_context, MemsinfoAfterStep, position)
    BY <1>2, <2>1, LineType
  <2> QED
    BY <2>2 DEF IsLine
<1>4. lines' = Append(lines, line)
  BY <1>1
<1>5. new = {r \in Register : r \notin DOMAIN old_context \/ old_context[r] # ContextAt(position)[r]}
  BY DEF Changed
<1> HIDE DEF line, new
<1>6. /\ lines \in Seq(OutLine) /\ Len(lines) \in Nat \ {0}
      /\ lines' \in Seq(OutLine) /\ Len(lines') = Len(lines) + 1
      /\ lines'[Len(lines) + 1] = line /\ LastLine' = line
      /\ \A j \in 1 .. Len(lines) : lines'[j] = lines[j]
  <2>1. lines \in Seq(OutLine) /\ lines # <<>>
    BY <1>2 DEF Inv, Types, Started
  <2> QED
    BY <2>1, <1>3, <1>4 DEF LastLine
<1>7. Types'
  <2>1. memsinfo' \in Seq(Access)
    BY <1>1
  <2>2. old_context' \in [Register -> Value \cup GuestAddress]
    BY <1>1, ContextType DEF Inv, Types
  <2> QED
    BY <1>1, <1>2, <1>6, <2>1, <2>2 DEF Inv, Types
<1>8. Begin \in Nat /\ cursor.pos \in Nat /\ Begin' = Begin /\ Traced' = Traced
      /\ Len(session.modules) \in Nat
  BY <1>1, SessionType DEF Inv, Types, Begin, Traced, TracedModule, FirstNamed
<1>9. Begin <= cursor.pos
  BY <1>2, <1>8 DEF Inv, Started
<1>10. Started'
  <2>1. LastLine'.at = position /\ position \in Begin .. cursor'.pos /\ lines' # <<>>
    BY <1>2, <1>3, <1>6, <1>8, <1>9
  <2>2. FirstNamed(module)' /\ module' \in 1 .. Len(session'.modules)
    BY <1>1, <1>2 DEF Inv, Started, FirstNamed
  <2> QED
    BY <1>1, <1>8, <2>1, <2>2 DEF Started, ContextAt
<1>11. RegistersExact'
  <2> SUFFICES ASSUME NEW r \in Register
               PROVE  \E j \in 1 .. Len(lines') :
                        /\ r \in DOMAIN lines'[j].regs
                        /\ lines'[j].regs[r] = ContextAt(position)[r]
                        /\ \A m \in j + 1 .. Len(lines') : r \notin DOMAIN lines'[m].regs
    <3>1. LastLine'.at = position /\ session' = session
      BY <1>1, <1>3, <1>6
    <3>2. ContextAt(position)' = ContextAt(position)
      BY <3>1 DEF ContextAt
    <3>3. ContextAt(LastLine.at)' = ContextAt(position)
      BY <3>1 DEF ContextAt
    <3> QED
      BY <3>3 DEF RegistersExact
  <2>1. CASE r \in new
    <3>1. Len(lines) + 1 \in 1 .. Len(lines')
      BY <1>6
    <3>2. \A m \in (Len(lines) + 1) + 1 .. Len(lines') : FALSE
      BY <1>6
    <3> QED
      BY <2>1, <3>1, <3>2, <1>3, <1>6
  <2>2. CASE r \notin new
    <3>1. old_context[r] = ContextAt(position)[r]
      BY <2>2, <1>5
    <3>2. old_context[r] = ContextAt(LastLine.at)[r]
      BY <1>2 DEF Inv, Started
    <3>3. PICK j \in 1 .. Len(lines) :
            /\ r \in DOMAIN lines[j].regs
            /\ lines[j].regs[r] = ContextAt(LastLine.at)[r]
            /\ \A m \in j + 1 .. Len(lines) : r \notin DOMAIN lines[m].regs
      BY <1>6 DEF Inv, RegistersExact
    <3>4. j \in 1 .. Len(lines') /\ lines'[j] = lines[j]
      BY <1>6
    <3>5. ASSUME NEW m \in j + 1 .. Len(lines')
          PROVE  r \notin DOMAIN lines'[m].regs
      <4>1. CASE m = Len(lines) + 1
        BY <4>1, <2>2, <1>3, <1>6
      <4>2. CASE m # Len(lines) + 1
        <5>1. m \in j + 1 .. Len(lines) /\ m \in 1 .. Len(lines)
          BY <4>2, <1>6
        <5> QED
          BY <5>1, <3>3, <1>6
      <4> QED
        BY <4>1, <4>2
    <3> QED
      BY <3>1, <3>2, <3>3, <3>4, <3>5
  <2> QED
    BY <2>1, <2>2
<1>12. session.instr[position].pc \in Traced
  BY <1>1, <1>2, InModuleIsTraced DEF Inv, Types, Started
<1>13. LinesExact'
  <2>1. /\ \A m, n \in 1 .. Len(lines) : m < n => lines[m].at < lines[n].at
        /\ {lines[n].at : n \in 1 .. Len(lines)}
             = {Begin} \cup {p \in Begin + 1 .. cursor.pos : session.instr[p].pc \in Traced}
    BY <1>2 DEF Inv, LinesExact
  <2>2. \A n \in 1 .. Len(lines) : lines[n].at \in Begin .. cursor.pos
    BY <2>1, <1>8, <1>9
  <2>3. ASSUME NEW m \in 1 .. Len(lines'), NEW n \in 1 .. Len(lines'), m < n
        PROVE  lines'[m].at < lines'[n].at
    <3>1. m \in 1 .. Len(lines) /\ lines'[m] = lines[m]
      BY <2>3, <1>6
    <3>2. CASE n \in 1 .. Len(lines)
      BY <2>1, <2>3, <3>1, <3>2, <1>6
    <3>3. CASE n = Len(lines) + 1
      BY <2>2, <3>1, <3>3, <1>2, <1>3, <1>6, <1>8
    <3> QED
      BY <3>2, <3>3, <1>6
  <2>4. {lines'[n].at : n \in 1 .. Len(lines')} = {lines[n].at : n \in 1 .. Len(lines)} \cup {position}
    BY <1>3, <1>6
  <2>5. {p \in Begin + 1 .. position : session.instr[p].pc \in Traced}
          = {p \in Begin + 1 .. cursor.pos : session.instr[p].pc \in Traced} \cup {position}
    BY <1>2, <1>8, <1>9, <1>12
  <2>6. {lines'[n].at : n \in 1 .. Len(lines')}
          = {Begin} \cup {p \in Begin + 1 .. position : session.instr[p].pc \in Traced}
    BY <2>1, <2>4, <2>5
  <2> QED
    BY <1>1, <1>2, <1>8, <2>3, <2>6 DEF LinesExact
<1>14. AccessesKept'
  <2>1. \A lo, hi : AccessesBetween(lo, hi)' = AccessesBetween(lo, hi)
    BY <1>1 DEF AccessesBetween
  <2>2. lines'[1].at = Begin /\ lines' # <<>>
    <3>1. lines[1].at = Begin
      BY <1>6 DEF Inv, AccessesKept
    <3>2. lines'[1] = lines[1] /\ lines' # <<>>
      BY <1>6
    <3> QED
      BY <3>1, <3>2
  <2>3. AccessesBetween(position, position) = <<>>
    <3>1. session \in Sessions
      BY DEF Inv, Types
    <3>2. position \in Nat \ {0} /\ position <= Len(session.instr)
      BY <1>2, <3>1, SessionType
    <3> QED
      BY <3>1, <3>2, AccessesGrow
  <2>4. AccessesBetween(LastLine.at, cursor.pos)' = <<>>
    BY <1>2, <1>3, <1>6, <2>1, <2>3
  <2>5. ASSUME NEW n \in 2 .. Len(lines')
        PROVE  lines'[n].mem = MemoryFields(AccessesBetween(lines'[n - 1].at, lines'[n].at),
                                            session.instr[lines'[n].at].mem)
    <3>1. CASE n = Len(lines) + 1
      <4>1. lines'[n] = line /\ lines'[n - 1] = LastLine
        BY <1>6, <3>1 DEF LastLine
      <4> QED
        BY <1>2, <1>3, <4>1
    <3>2. CASE n # Len(lines) + 1
      <4>1. n \in 2 .. Len(lines) /\ lines'[n] = lines[n] /\ lines'[n - 1] = lines[n - 1]
        BY <1>6, <3>2
      <4> QED
        BY <4>1 DEF Inv, AccessesKept
    <3> QED
      BY <3>1, <3>2
  <2> QED
    BY <1>1, <1>8, <2>1, <2>2, <2>4, <2>5 DEF AccessesKept
<1> QED
  BY <1>7, <1>10, <1>11, <1>13, <1>14 DEF Inv

LEMMA SameFile ==
  ASSUME Inv, session' = session, cursor' = cursor, lines' = lines, module' = module,
         old_context' = old_context, memsinfo' = memsinfo,
         pc' = pc \/ (pc' = "done" /\ pc = "loop")
  PROVE  Started' /\ RegistersExact' /\ LinesExact' /\ AccessesKept'
<1>1. Begin' = Begin /\ Traced' = Traced /\ LastLine' = LastLine /\ FirstNamed(module)' = FirstNamed(module)
  BY DEF Begin, Traced, TracedModule, LastLine, FirstNamed
<1>2. \A p : ContextAt(p)' = ContextAt(p)
  BY DEF ContextAt
<1>3. Started'
  BY <1>1 DEF Inv, Types, Started, ContextAt
<1>4. RegistersExact'
  BY <1>1 DEF Inv, RegistersExact, ContextAt
<1>5. LinesExact'
  BY <1>1 DEF Inv, LinesExact
<1>6. AccessesKept'
  BY <1>1 DEF Inv, AccessesKept, AccessesBetween
<1> QED
  BY <1>3, <1>4, <1>5, <1>6

LEMMA FinishInv == ASSUME Inv, Finish PROVE Inv'
<1> USE DEF Finish
<1>1. Types'
  BY DEF Inv, Types
<1>2. Started' /\ RegistersExact' /\ LinesExact' /\ AccessesKept'
  BY SameFile
<1> QED
  BY <1>1, <1>2 DEF Inv

LEMMA StutterInv == ASSUME Inv, UNCHANGED vars PROVE Inv'
<1> USE DEF vars
<1>1. Types'
  BY DEF Inv, Types
<1>2. Started' /\ RegistersExact' /\ LinesExact' /\ AccessesKept'
  <2>1. /\ session' = session /\ cursor' = cursor /\ lines' = lines /\ module' = module
        /\ old_context' = old_context /\ memsinfo' = memsinfo /\ pc' = pc
    OBVIOUS
  <2> QED
    BY <2>1, SameFile
<1> QED
  BY <1>1, <1>2 DEF Inv

THEOREM TenetInv == Spec => []Inv
<1>1. ASSUME Inv, [Next]_vars PROVE Inv'
  <2>1. CASE Next
    BY <1>1, <2>1, NoModuleInv, StartInv, SkipInv, WriteLineInv, FinishInv, StutterInv
    DEF Next, Stopped
  <2>2. CASE UNCHANGED vars
    BY <1>1, <2>2, StutterInv
  <2> QED
    BY <1>1, <2>1, <2>2
<1> QED
  BY InitInv, <1>1, PTL DEF Spec

-----------------------------------------------------------------------------
(* What the invariant says of the lines and of memory. *)

LEMMA LinesInOrder ==
  ASSUME Inv, lines # <<>>
  PROVE  /\ Len(lines) \in Nat \ {0}
         /\ \A n \in 1 .. Len(lines) : lines[n].at \in 1 .. Len(session.instr)
         /\ \A m, n \in 1 .. Len(lines) : m < n => lines[m].at < lines[n].at
         /\ lines[1].at = Begin
<1>1. pc \in {"loop", "done"}
  BY DEF Inv, Types
<1>2. /\ \A m, n \in 1 .. Len(lines) : m < n => lines[m].at < lines[n].at
      /\ {lines[n].at : n \in 1 .. Len(lines)}
           = {Begin} \cup {p \in Begin + 1 .. cursor.pos : session.instr[p].pc \in Traced}
  BY <1>1 DEF Inv, LinesExact
<1>3. Len(lines) \in Nat \ {0} /\ lines[1].at = Begin
  BY DEF Inv, Types, AccessesKept
<1>4. Begin \in 1 .. Len(session.instr) /\ cursor.pos \in 1 .. Len(session.instr)
      /\ Len(session.instr) \in Nat
  BY SessionType DEF Inv, Types
<1>5. ASSUME NEW n \in 1 .. Len(lines) PROVE lines[n].at \in 1 .. Len(session.instr)
  <2>1. lines[n].at \in {Begin} \cup {p \in Begin + 1 .. cursor.pos : session.instr[p].pc \in Traced}
    BY <1>2, Zenon
  <2>2. lines[n].at = Begin \/ lines[n].at \in Begin + 1 .. cursor.pos
    BY <2>1, Zenon
  <2> QED
    BY <1>4, <2>2
<1> QED
  BY <1>2, <1>3, <1>5

\* The fields of a line are those of the accesses since the line before.
LEMMA LineFields ==
  ASSUME Inv, NEW n \in 2 .. Len(lines)
  PROVE  /\ lines[n].mem = MemoryFields(AccessesBetween(lines[n - 1].at, lines[n].at),
                                        session.instr[lines[n].at].mem)
         /\ AccessesBetween(lines[n - 1].at, lines[n].at) \in Seq(Access)
         /\ session.instr[lines[n].at].mem \in Memory
         /\ \A p \in lines[n - 1].at .. lines[n].at - 1 :
              \A x \in 1 .. Len(session.instr[p].accesses) :
                session.instr[p].accesses[x] \in Range(AccessesBetween(lines[n - 1].at, lines[n].at))
<1>1. lines \in Seq(OutLine) /\ session \in Sessions
  BY DEF Inv, Types
<1>2. Len(lines) \in Nat /\ n \in 1 .. Len(lines) /\ n - 1 \in 1 .. Len(lines)
      /\ n - 1 < n /\ lines # <<>>
  BY <1>1
<1>3. /\ lines[n - 1].at \in 1 .. Len(session.instr)
      /\ lines[n].at \in 1 .. Len(session.instr)
      /\ lines[n - 1].at < lines[n].at
  BY <1>2, LinesInOrder
<1> DEFINE lo == lines[n - 1].at
           hi == lines[n].at
<1>4. lo \in Nat \ {0} /\ hi \in Nat /\ lo <= hi /\ hi <= Len(session.instr)
  BY <1>1, <1>3, SessionType
<1>5. session.instr[hi].mem \in Memory
  BY <1>1, <1>3, SessionType DEF Memory
<1>6. lines[n].mem = MemoryFields(AccessesBetween(lo, hi), session.instr[hi].mem)
  BY DEF Inv, AccessesKept
<1> HIDE DEF lo, hi
<1>7. /\ AccessesBetween(lo, hi) \in Seq(Access)
      /\ \A p \in lo .. hi - 1 : \A x \in 1 .. Len(session.instr[p].accesses) :
           session.instr[p].accesses[x] \in Range(AccessesBetween(lo, hi))
  BY <1>1, <1>4, AccessesGrow
<1> QED
  BY <1>5, <1>6, <1>7 DEF lo, hi

\* A line has a cell that an instruction since the line before accessed.
LEMMA LineHas ==
  ASSUME Inv, NEW n \in 2 .. Len(lines), NEW a \in Address,
         NEW p \in lines[n - 1].at .. lines[n].at - 1,
         NEW x \in 1 .. Len(session.instr[p].accesses),
         session.instr[p].accesses[x].addr = a,
         session.instr[lines[n].at].mem[a] # UNMAPPED
  PROVE  Has(lines[n], a)
<1> DEFINE acc == AccessesBetween(lines[n - 1].at, lines[n].at)
           mem == session.instr[lines[n].at].mem
<1>1. /\ lines[n].mem = MemoryFields(acc, mem)
      /\ acc \in Seq(Access) /\ mem \in Memory
      /\ session.instr[p].accesses[x] \in Range(acc)
  BY LineFields
<1>2. mem[a] # UNMAPPED
  OBVIOUS
<1> DEFINE access == session.instr[p].accesses[x]
<1>3. access \in Range(acc) /\ access.addr = a
  BY <1>1
<1> HIDE DEF acc, mem, access
<1>4. PICK z \in 1 .. Len(acc) : acc[z] = access
  <2>1. DOMAIN acc = 1 .. Len(acc)
    BY <1>1
  <2> QED
    BY <1>3, <2>1, Zenon DEF Range
<1>5. PICK e \in Range(MemoryFields(acc, mem)) : e.addr = a
  BY <1>1, <1>2, <1>3, <1>4, FieldsType
<1>6. lines[n].mem \in Seq(Field)
  BY <1>1, FieldsType
<1>7. PICK y \in 1 .. Len(lines[n].mem) : e = lines[n].mem[y]
  BY <1>1, <1>5, <1>6 DEF Range
<1> QED
  BY <1>5, <1>7 DEF Has

\* The values on a line are those at its position.
LEMMA LineValues ==
  ASSUME Inv, NEW n \in 2 .. Len(lines), NEW y \in 1 .. Len(lines[n].mem)
  PROVE  lines[n].mem[y].value = session.instr[lines[n].at].mem[lines[n].mem[y].addr]
<1> DEFINE acc == AccessesBetween(lines[n - 1].at, lines[n].at)
           mem == session.instr[lines[n].at].mem
<1>1. lines[n].mem = MemoryFields(acc, mem) /\ acc \in Seq(Access) /\ mem \in Memory
  BY LineFields
<1> HIDE DEF acc, mem
<1>2. lines[n].mem \in Seq(Field)
  BY <1>1, FieldsType
<1>3. lines[n].mem[y] \in Range(MemoryFields(acc, mem))
  BY <1>1, <1>2 DEF Range
<1>4. lines[n].mem[y].value = mem[lines[n].mem[y].addr]
  BY <1>1, <1>3, FieldsType
<1> QED
  BY <1>4 DEF mem

\* After a position before the last line there is a next line.
LEMMA NextLine ==
  ASSUME Inv, lines # <<>>, NEW p \in Begin .. LastLine.at - 1
  PROVE  \E n \in 2 .. Len(lines) : p \in lines[n - 1].at .. lines[n].at - 1
<1> DEFINE T == {n \in 1 .. Len(lines) : p < lines[n].at}
<1>1. /\ Len(lines) \in Nat \ {0} /\ lines[1].at = Begin
      /\ \A n \in 1 .. Len(lines) : lines[n].at \in Nat
  BY LinesInOrder, SessionType DEF Inv, Types
<1>2. Begin \in Nat /\ p \in Nat /\ LastLine.at \in Nat
  BY <1>1 DEF LastLine
<1>3. Len(lines) \in T
  BY <1>1, <1>2 DEF LastLine
<1>4. T \subseteq Nat
  BY <1>1
<1>5. PICK n \in T : \A m \in T : n <= m
  <2> HIDE DEF T
  <2> QED
    BY <1>3, <1>4, LeastNumber
<1>6. n # 1
  BY <1>1, <1>2, <1>5
<1>7. n \in 2 .. Len(lines) /\ n - 1 \in 1 .. Len(lines) /\ n - 1 \notin T
  BY <1>1, <1>5, <1>6
<1>8. lines[n - 1].at <= p /\ p < lines[n].at
  BY <1>1, <1>2, <1>5, <1>7
<1>9. p \in lines[n - 1].at .. lines[n].at - 1
  BY <1>1, <1>2, <1>7, <1>8
<1> QED
  BY <1>7, <1>9

\* Memory that is not accessed changes silently or not at all.
LEMMA NotAccessed ==
  ASSUME session \in Sessions, NEW a \in Address,
         NEW lo \in 1 .. Len(session.instr), NEW hi \in lo .. Len(session.instr),
         session.instr[hi].mem[a] # session.instr[lo].mem[a],
         \A p \in lo .. hi - 1 : \A x \in 1 .. Len(session.instr[p].accesses) :
           session.instr[p].accesses[x].addr # a
  PROVE  ChangedSilently(a, lo, hi)
<1> DEFINE T == {p \in lo .. hi : session.instr[p].mem[a] # session.instr[lo].mem[a]}
<1>1. Len(session.instr) \in Nat /\ lo \in Nat \ {0} /\ hi \in Nat
  BY SessionType
<1>2. hi \in T /\ T \subseteq Nat
  BY <1>1
<1>3. PICK p \in T : \A m \in T : p <= m
  <2> HIDE DEF T
  <2> QED
    BY <1>2, LeastNumber
<1>4. p # lo /\ p \in lo .. hi /\ p - 1 \in lo .. hi /\ p - 1 \notin T
  BY <1>1, <1>3
<1>5. session.instr[p].mem[a] # session.instr[p - 1].mem[a]
  BY <1>3, <1>4
<1> DEFINE q == p - 1
<1>6. q + 1 = p /\ q \in lo .. hi - 1
  BY <1>1, <1>4
<1>7. session.instr[q + 1].mem[a] # session.instr[q].mem[a]
  BY <1>5, <1>6
<1> HIDE DEF q, T
<1> QED
  BY <1>6, <1>7 DEF ChangedSilently

-----------------------------------------------------------------------------
\* Whatever the instructions outside the module do to the registers, the last
\* line that has a register has its value at the last line.
THEOREM RegistersCanBeRead == Spec => []RegistersExact
<1>1. Inv => RegistersExact
  BY DEF Inv
<1> QED
  BY <1>1, TenetInv, PTL

\* The file has the first position and every one in the module, once each and
\* in order.
THEOREM LinesAreExact == Spec => []LinesExact
<1>1. Inv => LinesExact
  BY DEF Inv
<1> QED
  BY <1>1, TenetInv, PTL

\* The file, the context and the list of accesses have the types that dumpContext
\* relies on; no value of memory that is gone is written.
THEOREM TypeCorrect == Spec => []TypeOK
<1>1. Inv => TypeOK
  BY SessionsAssumption DEF Inv, Types, TypeOK
<1> QED
  BY <1>1, TenetInv, PTL

\* Every access is on exactly the next line, in order, unless its memory is gone.
THEOREM SummaryIsExact == Spec => []SummaryExact
<1>1. ASSUME Inv PROVE SummaryExact
  <2> SUFFICES ASSUME NEW n \in 2 .. Len(lines)
               PROVE  Summary(lines[n]) = There(AccessesBetween(lines[n - 1].at, lines[n].at),
                                                session.instr[lines[n].at].mem)
    BY DEF SummaryExact
  <2>1. Summary(lines[n]) = Strip(lines[n].mem)
    BY DEF Summary, Strip
  <2> QED
    BY <1>1, <2>1, LineFields, StripFields
<1> QED
  BY <1>1, TenetInv, PTL

\* Every cell that was accessed is on a line, and the last line that has it gives its
\* value at the last line of all, unless the cell was changed since by something that
\* is no access of the recording.
THEOREM MemoryCanBeRead == Spec => []MemoryExact
<1>1. ASSUME Inv PROVE MemoryExact
  <2> SUFFICES ASSUME lines # <<>>, Keyed, NEW n \in Begin .. LastLine.at - 1, NEW a \in Address,
                      NEW x \in 1 .. Len(session.instr[n].accesses),
                      session.instr[n].accesses[x].addr = a,
                      \A p \in 1 .. Len(session.instr) : session.instr[p].mem[a] \in Value
               PROVE  \E j \in 1 .. Len(lines) :
                        /\ \E y \in 1 .. Len(lines[j].mem) :
                             /\ lines[j].mem[y].addr = a
                             /\ \/ lines[j].mem[y].value = session.instr[LastLine.at].mem[a]
                                \/ ChangedSilently(a, lines[j].at, LastLine.at)
                        /\ \A m \in j + 1 .. Len(lines) : ~ Has(lines[m], a)
    BY DEF MemoryExact
  <2>1. /\ Len(lines) \in Nat \ {0}
        /\ \A i \in 1 .. Len(lines) : lines[i].at \in 1 .. Len(session.instr)
        /\ \A i, j \in 1 .. Len(lines) : i < j => lines[i].at < lines[j].at
    BY <1>1, LinesInOrder
  <2>2. session \in Sessions /\ Begin \in Nat \ {0} /\ Len(session.instr) \in Nat
    BY <1>1, SessionType DEF Inv, Types
  <2>3. ASSUME NEW p \in Begin .. LastLine.at - 1,
               NEW z \in 1 .. Len(session.instr[p].accesses),
               session.instr[p].accesses[z].addr = a
        PROVE  \E k \in 2 .. Len(lines) : p < lines[k].at /\ Has(lines[k], a)
    <3>1. PICK k \in 2 .. Len(lines) : p \in lines[k - 1].at .. lines[k].at - 1
      BY <1>1, NextLine
    <3>2. k \in 1 .. Len(lines) /\ k - 1 \in 1 .. Len(lines)
      BY <2>1
    <3>3. session.instr[lines[k].at].mem[a] # UNMAPPED
      BY <2>1, <3>2, SessionsAssumption
    <3>4. Has(lines[k], a)
      BY <1>1, <2>3, <3>1, <3>3, LineHas
    <3>5. p < lines[k].at
      BY <2>1, <2>2, <3>1, <3>2
    <3> QED
      BY <3>4, <3>5
  <2>4. PICK k \in 2 .. Len(lines) : Has(lines[k], a)
    BY <2>3
  <2> DEFINE T == {Len(lines) - j : j \in {i \in 1 .. Len(lines) : Has(lines[i], a)}}
  <2>5. Len(lines) - k \in T /\ T \subseteq Nat
    BY <2>1, <2>4
  <2>6. PICK t \in T : \A u \in T : t <= u
    <3> HIDE DEF T
    <3> QED
      BY <2>5, LeastNumber
  <2>7. PICK j \in 1 .. Len(lines) : Has(lines[j], a) /\ t = Len(lines) - j
    BY <2>6
  <2>8. ASSUME NEW m \in j + 1 .. Len(lines) PROVE ~ Has(lines[m], a)
    <3>1. m \in 1 .. Len(lines) /\ Len(lines) - m < t
      BY <2>1, <2>7
    <3>2. t \in Nat /\ Len(lines) - m \in Int
      BY <2>1, <2>5, <2>6
    <3>3. Len(lines) - m \notin T
      <4> HIDE DEF T
      <4> QED
        BY <2>6, <3>1, <3>2
    <3> QED
      BY <3>1, <3>3
  <2>9. j \in 2 .. Len(lines)
    <3>1. t <= Len(lines) - k
      BY <2>5, <2>6
    <3> QED
      BY <2>1, <2>4, <2>7, <3>1
  <2> HIDE DEF T
  <2>10. PICK y \in 1 .. Len(lines[j].mem) : lines[j].mem[y].addr = a
    BY <2>7 DEF Has
  <2>11. lines[j].mem[y].value = session.instr[lines[j].at].mem[a]
    BY <1>1, <2>9, <2>10, LineValues
  <2> DEFINE lo == lines[j].at
             hi == LastLine.at
  <2>12. lo \in 1 .. Len(session.instr) /\ hi \in 1 .. Len(session.instr) /\ lo <= hi /\ Begin <= lo
    <3>1. Len(lines) \in 1 .. Len(lines) /\ 1 \in 1 .. Len(lines)
      BY <2>1
    <3>2. lo \in 1 .. Len(session.instr) /\ hi \in 1 .. Len(session.instr)
      BY <2>1, <3>1 DEF LastLine
    <3>3. lo <= hi
      <4>1. CASE j = Len(lines)
        <5>1. lo = hi
          BY <4>1 DEF LastLine
        <5> QED
          BY <2>2, <3>2, <5>1
      <4>2. CASE j < Len(lines)
        <5>1. lo < hi
          BY <2>1, <3>1, <4>2 DEF LastLine
        <5> QED
          BY <2>2, <3>2, <5>1
      <4> QED
        BY <2>1, <4>1, <4>2
    <3>4. lines[1].at = Begin /\ 1 < j
      BY <1>1, <2>1, <2>9, LinesInOrder
    <3>5. lines[1].at < lines[j].at
      BY <2>1, <3>1, <3>4
    <3>6. Begin <= lo
      BY <2>2, <3>2, <3>4, <3>5
    <3> QED
      BY <3>2, <3>3, <3>6
  <2>13. ASSUME NEW p \in lo .. hi - 1, NEW z \in 1 .. Len(session.instr[p].accesses),
                session.instr[p].accesses[z].addr = a
         PROVE  FALSE
    <3>1. p \in Begin .. LastLine.at - 1 /\ p \in Nat /\ lo <= p
      BY <2>2, <2>12
    <3>2. PICK i \in 2 .. Len(lines) : p < lines[i].at /\ Has(lines[i], a)
      BY <2>3, <2>13, <3>1
    <3>3. i \in 1 .. Len(lines) /\ lines[i].at \in Nat
      BY <2>1, <2>2
    <3>4. ~ (i <= j)
      <4>1. ASSUME i <= j PROVE lines[i].at <= lo
        <5>1. i = j \/ i < j
          BY <4>1, <2>1
        <5>2. lines[j].at \in Nat
          BY <2>1, <2>2
        <5> QED
          BY <2>1, <3>3, <5>1, <5>2
      <4> QED
        BY <2>12, <3>1, <3>2, <3>3, <4>1
    <3>5. i \in j + 1 .. Len(lines)
      BY <2>1, <3>4
    <3> QED
      BY <2>8, <3>2, <3>5
  <2>14. \/ session.instr[hi].mem[a] = session.instr[lo].mem[a]
         \/ ChangedSilently(a, lo, hi)
    <3>1. lo \in 1 .. Len(session.instr) /\ hi \in lo .. Len(session.instr)
      BY <2>2, <2>12
    <3>2. \A p \in lo .. hi - 1 : \A z \in 1 .. Len(session.instr[p].accesses) :
            session.instr[p].accesses[z].addr # a
      BY <2>13
    <3> HIDE DEF lo, hi
    <3> QED
      BY <2>2, <3>1, <3>2, NotAccessed
  <2> QED
    BY <2>8, <2>10, <2>11, <2>14
<1> QED
  BY <1>1, TenetInv, PTL
=============================================================================
