---------------------------- MODULE CallTree_proof ----------------------------
(***************************************************************************)
(* Proofs about CallTree, for any recording, options, modules and chunk    *)
(* size: types, where the chunked replay ends, what it prints twice, the   *)
(* tree that it prints when nothing is printed twice, and the measure by   *)
(* which it comes to an end.                                               *)
(*                                                                         *)
(* The inductive invariant relates the cursor to the last complete chunk:  *)
(* inside a chunk the cursor is as many instructions after LastPosition as *)
(* have been replayed, and in the second replay of the last chunk it has   *)
(* as many left as there are up to the instruction before the end.  For    *)
(* the tree, the list of functions is as long as the program counter is    *)
(* deep below the lowest point it has been at.                             *)
(***************************************************************************)
EXTENDS CallTree, FiniteSetTheorems, TLAPS

-----------------------------------------------------------------------------
(* What the operators on cursors keep and what they set. *)

LEMMA SetPositionType ==
  ASSUME NEW c \in CursorType, NEW p \in Nat \ {0}
  PROVE  /\ SetPosition(c, p) \in CursorType
         /\ SetPosition(c, p).pos = p
         /\ SetPosition(c, p).callback = c.callback
         /\ SetPosition(c, p).watch = c.watch
  BY DEF CursorType, SetPosition

LEMMA SetCallbackType ==
  ASSUME NEW c \in CursorType, NEW v \in Nat \cup {NO_CALLBACK}
  PROVE  /\ SetCallReturnCallback(c, v) \in CursorType
         /\ SetCallReturnCallback(c, v).pos = c.pos
         /\ SetCallReturnCallback(c, v).callback = v
         /\ SetCallReturnCallback(c, v).watch = c.watch
  BY DEF CursorType, SetCallReturnCallback

LEMMA ReplayForwardType ==
  ASSUME NEW c \in CursorType, NEW n \in Nat \cup {NO_LIMIT}
  PROVE  /\ ReplayForward(c, n) \in CursorType
         /\ ReplayForward(c, n).pos = c.pos
         /\ ReplayForward(c, n).todo = n
         /\ ReplayForward(c, n).callback = c.callback
         /\ ReplayForward(c, n).watch = c.watch
  BY DEF CursorType, ReplayForward

\* A step moves the cursor to the next position of the recording.
LEMMA StepType ==
  ASSUME NEW c \in CursorType, NEW t, NEW last \in Nat, CanStep(c, last)
  PROVE  /\ Step(t, c) \in CursorType
         /\ Step(t, c).pos = c.pos + 1
         /\ c.pos + 1 \in 1 .. last
         /\ Step(t, c).callback = c.callback
         /\ Step(t, c).watch = c.watch
         /\ Step(t, c).todo = TodoAfterStep(t, c)
<1>1. c.pos \in Nat \ {0} /\ c.todo \in Nat \cup {NO_LIMIT} /\ c.todo # 0 /\ c.pos < last
  BY DEF CursorType, CanStep
<1>2. TodoAfterStep(t, c) \in Nat \cup {NO_LIMIT}
  BY <1>1 DEF TodoAfterStep, NO_LIMIT
<1>3. c.pos + 1 \in Nat \ {0} /\ c.pos + 1 \in 1 .. last
  BY <1>1
<1>4. Step(t, c) = [c EXCEPT !.pos = c.pos + 1, !.todo = TodoAfterStep(t, c)]
  BY DEF Step
<1> QED BY <1>2, <1>3, <1>4 DEF CursorType

-----------------------------------------------------------------------------
(* The inductive invariant. *)

Size == Len(session.instr)

Types ==
  /\ session \in Sessions
  /\ cursor \in CursorType
  /\ cursor.pos \in 1 .. Size
  /\ cursor.watch = {}
  /\ end \in 0 .. Size
  /\ g_moduleinfo \in Seq(Module)
  /\ g_cur_stack \in Nat
  /\ bars \in Nat
  /\ out \in Seq(OutLine)
  /\ LastPosition \in 0 .. Size
  /\ stepCount \in 0 .. STEP_COUNT
  /\ totalStepCount \in 0 .. Word - 1
  /\ pc \in {"args", "modules", "loop", "chunk", "tail", "done", "exit"}

\* The steps of the chunk in progress; it passes the end only by starting there.
Counts ==
  /\ pc = "chunk" => cursor.todo \in 0 .. STEP_COUNT
  /\ pc = "chunk" /\ cursor.todo # STEP_COUNT => cursor.pos <= end
  /\ pc \in {"args", "modules"} => LastPosition = NULL

\* Where the cursor is when a chunk was complete before.
Placed ==
  LastPosition # NULL =>
    /\ LastPosition <= end
    /\ pc = "loop" => cursor.pos = LastPosition
    /\ pc = "chunk" => cursor.pos = LastPosition + (STEP_COUNT - cursor.todo) /\ cursor.pos <= end
    /\ pc \in {"tail", "done"} => end - stepCount = LastPosition /\ LastPosition <= cursor.pos
    /\ pc = "tail" /\ stepCount = 0 => cursor.pos = end
    /\ pc = "tail" /\ stepCount # 0 => cursor.todo \in Nat /\ cursor.pos + cursor.todo = end - 1

\* The lines are in order until the last chunk is replayed again.
Ordered ==
  pc \in {"args", "modules", "loop", "chunk"} =>
    /\ \A n \in 1 .. Len(out) : out[n].at < cursor.pos
    /\ \A m, n \in 1 .. Len(out) : m < n => out[m].at < out[n].at
    /\ pc \in {"args", "modules"} => out = <<>>

Inv == Types /\ Counts /\ Placed /\ FinalPosition /\ Ordered /\ RepeatsOnlyTail

-----------------------------------------------------------------------------
(* Typing facts. *)

Event == [ pc : GuestAddress, addr_func : GuestAddress \cup {NULL},
           addr_ret : GuestAddress \cup {NULL}, tid : Nat ]

LEMMA SessionType ==
  ASSUME session \in Sessions
  PROVE  /\ session \in Session
         /\ Size \in Nat \ {0}
         /\ Len(session.modules) \in Nat
         /\ session.begin_arg \in 0 .. Size
         /\ session.end_arg \in 0 .. Size
         /\ \A k \in 1 .. Size : session.instr[k].addr_func \in GuestAddress \cup {NULL}
         /\ \A n \in 1 .. Len(session.modules) : session.modules[n] \in Module
<1>1. session \in Session
  BY SessionsAssumption
<1>2. session.instr \in Seq(Event) /\ session.instr # <<>> /\ session.modules \in Seq(Module)
  BY <1>1 DEF Session, Event
<1>3. Size \in Nat \ {0} /\ Len(session.modules) \in Nat
  BY <1>2 DEF Size
<1>4. session.begin_arg \in 0 .. Size /\ session.end_arg \in 0 .. Size
  BY SessionsAssumption DEF Size
<1>5. \A k \in 1 .. Size : session.instr[k] \in Event
  BY <1>2 DEF Size
<1>6. \A n \in 1 .. Len(session.modules) : session.modules[n] \in Module
  BY <1>2
<1> QED
  BY <1>1, <1>3, <1>4, <1>5, <1>6 DEF Event

LEMMA InitInv == Init => Inv
<1> SUFFICES ASSUME Init PROVE Inv
  OBVIOUS
<1>1. NULL = 0
  BY SessionsAssumption
<1>2. Types
  BY <1>1, SessionType, StepCountAssumption DEF Init, Types, NewCursor, CursorType, NO_CALLBACK
<1> QED
  BY <1>1, <1>2 DEF Init, Inv, Counts, Placed, FinalPosition, Ordered, RepeatsOnlyTail

-----------------------------------------------------------------------------
(* The command line and the modules. *)

LEMMA BadArgsInv == ASSUME Inv, BadArgs PROVE Inv'
<1>1. /\ pc = "args" /\ pc' = "exit"
      /\ UNCHANGED <<session, cursor, end, g_moduleinfo, g_cur_stack, bars, out,
                     LastPosition, stepCount, totalStepCount>>
  BY DEF BadArgs, tree, counters
<1> QED
  BY <1>1 DEF Inv, Types, Counts, Placed, FinalPosition, Ordered, RepeatsOnlyTail, Size

LEMMA ArgsInv == ASSUME Inv, Args PROVE Inv'
<1>1. PICK position \in 1 .. Size : cursor' = SetPosition(cursor, position)
  BY DEF Args, Size
<1>2. /\ pc = "args" /\ pc' = "modules"
      /\ UNCHANGED <<session, g_moduleinfo, g_cur_stack, bars, out,
                     LastPosition, stepCount, totalStepCount>>
      /\ end' = IF session.end_arg # NULL THEN session.end_arg ELSE Size
  BY DEF Args, tree, counters, GetLastPosition, Size
<1>3. Size \in Nat \ {0} /\ position \in Nat \ {0} /\ cursor \in CursorType
      /\ session.end_arg \in 0 .. Size
  BY SessionType DEF Inv, Types
<1>4. cursor' \in CursorType /\ cursor'.pos = position /\ cursor'.watch = {}
  BY <1>1, <1>3, SetPositionType DEF Inv, Types
<1>5. Types'
  BY <1>2, <1>3, <1>4 DEF Inv, Types, Size
<1>6. LastPosition' = NULL /\ out' = <<>>
  BY <1>2 DEF Inv, Counts, Ordered
<1> QED
  BY <1>2, <1>5, <1>6 DEF Inv, Counts, Placed, FinalPosition, Ordered, RepeatsOnlyTail

LEMMA ModulesInv == ASSUME Inv, Modules PROVE Inv'
<1>1. /\ pc = "modules" /\ pc' = "loop"
      /\ UNCHANGED <<session, end, g_cur_stack, bars, out,
                     LastPosition, stepCount, totalStepCount>>
      /\ cursor' = SetCallReturnCallback(cursor, 0)
      /\ g_moduleinfo' = [n \in 1 .. Len(session.modules) |->
                            session.modules[Len(session.modules) + 1 - n]]
  BY DEF Modules, tree, counters
<1>2. cursor' \in CursorType /\ cursor'.pos = cursor.pos /\ cursor'.watch = {}
  BY <1>1, SetCallbackType DEF Inv, Types
<1>3. g_moduleinfo' \in Seq(Module)
  <2>1. Len(session.modules) \in Nat
        /\ \A n \in 1 .. Len(session.modules) : session.modules[n] \in Module
    BY SessionType DEF Inv, Types
  <2>2. \A n \in 1 .. Len(session.modules) :
          session.modules[Len(session.modules) + 1 - n] \in Module
    BY <2>1
  <2> QED
    BY <1>1, <2>1, <2>2
<1>4. Types'
  BY <1>1, <1>2, <1>3 DEF Inv, Types, Size
<1>5. LastPosition' = NULL /\ out' = <<>>
  BY <1>1 DEF Inv, Counts, Ordered
<1> QED
  BY <1>1, <1>4, <1>5 DEF Inv, Counts, Placed, FinalPosition, Ordered, RepeatsOnlyTail

-----------------------------------------------------------------------------
(* The replay. *)

\* The callback keeps the types, and adds at most a line of this position.
LEMMA CallbackType ==
  ASSUME Inv, NEW f \in GuestAddress, NEW r, NEW p \in Nat \ {0}, callCallback_tree(f, r, p)
  PROVE  /\ g_cur_stack' \in Nat
         /\ bars' \in Nat
         /\ \/ out' = out
            \/ \E line \in OutLine : line.at = p /\ out' = Append(out, line)
<1>1. g_cur_stack \in Nat /\ bars \in Nat
  BY DEF Inv, Types
<1>2. \A b \in BOOLEAN : Level(b) \in Nat
  BY <1>1 DEF Level
<1>3. \A b \in BOOLEAN : BarsFor(b) \in Nat
  BY <1>1, <1>2 DEF BarsFor
<1> DEFINE ret == r = NULL
<1>4. ret \in BOOLEAN
  OBVIOUS
<1>5. /\ g_cur_stack' = IF ret THEN Level(ret) ELSE Level(ret) + 1
      /\ \/ bars' = BarsFor(ret) /\ out' = out
         \/ \E n \in 1 .. Len(g_moduleinfo) :
              /\ bars' = 0
              /\ out' = Append(out, [ bars |-> BarsFor(ret), ret |-> ret, addr |-> f,
                                      at |-> p, module |-> g_moduleinfo[n] ])
  <2>1. g_cur_stack' = IF ret THEN Level(ret) ELSE Level(ret) + 1
    BY Zenon DEF callCallback_tree
  <2>2. CASE UnknownModule(f) /\ bars' = BarsFor(ret) /\ UNCHANGED out
    BY <2>1, <2>2
  <2>3. CASE \E n \in 1 .. Len(g_moduleinfo) :
               /\ FindModule(f, g_moduleinfo[n])
               /\ bars' = 0
               /\ out' = Append(out, [ bars |-> BarsFor(ret), ret |-> ret, addr |-> f,
                                       at |-> p, module |-> g_moduleinfo[n] ])
    BY <2>1, <2>3, Zenon
  <2> QED
    BY <2>2, <2>3, Zenon DEF callCallback_tree
<1>6. Level(ret) \in Nat /\ BarsFor(ret) \in Nat
  BY <1>2, <1>3, <1>4
<1> HIDE DEF ret
<1>7. \A n \in 1 .. Len(g_moduleinfo) :
        [ bars |-> BarsFor(ret), ret |-> ret, addr |-> f, at |-> p, module |-> g_moduleinfo[n] ]
          \in OutLine
  BY <1>4, <1>6 DEF Inv, Types, OutLine
<1>8. g_cur_stack' \in Nat
  <2>1. Level(ret) + 1 \in Nat
    BY <1>6
  <2> QED
    BY <1>5, <1>6, <2>1
<1>9. CASE bars' = BarsFor(ret) /\ out' = out
  BY <1>6, <1>8, <1>9
<1>10. CASE \E n \in 1 .. Len(g_moduleinfo) :
              /\ bars' = 0
              /\ out' = Append(out, [ bars |-> BarsFor(ret), ret |-> ret, addr |-> f,
                                      at |-> p, module |-> g_moduleinfo[n] ])
  <2>1. PICK n \in 1 .. Len(g_moduleinfo) :
              /\ bars' = 0
              /\ out' = Append(out, [ bars |-> BarsFor(ret), ret |-> ret, addr |-> f,
                                      at |-> p, module |-> g_moduleinfo[n] ])
    BY <1>10
  <2> DEFINE line == [ bars |-> BarsFor(ret), ret |-> ret, addr |-> f,
                       at |-> p, module |-> g_moduleinfo[n] ]
  <2>2. line \in OutLine /\ line.at = p /\ out' = Append(out, line)
    BY <1>7, <2>1
  <2> HIDE DEF line
  <2> QED
    BY <1>8, <2>1, <2>2
<1> QED
  BY <1>5, <1>9, <1>10

\* What one replayed instruction does.
LEMMA ReplayStepEffect ==
  ASSUME Inv, ReplayStep
  PROVE  /\ pc \in {"chunk", "tail"}
         /\ cursor' \in CursorType
         /\ cursor.pos < end
         /\ cursor'.pos = cursor.pos + 1
         /\ cursor'.watch = {}
         /\ cursor.todo # 0
         /\ cursor'.todo = IF cursor.todo = NO_LIMIT THEN NO_LIMIT ELSE cursor.todo - 1
         /\ g_cur_stack' \in Nat
         /\ bars' \in Nat
         /\ \/ out' = out
            \/ \E line \in OutLine : line.at = cursor.pos /\ out' = Append(out, line)
         /\ UNCHANGED <<session, end, g_moduleinfo, LastPosition, stepCount,
                        totalStepCount, pc>>
<1>1. /\ pc \in {"chunk", "tail"} /\ CanStep(cursor, end)
      /\ cursor' = Step(session.instr, cursor)
      /\ UNCHANGED <<session, end, g_moduleinfo, LastPosition, stepCount,
                     totalStepCount, pc>>
  BY DEF ReplayStep, counters
<1>2. cursor \in CursorType /\ end \in Nat /\ cursor.pos \in 1 .. Size /\ cursor.watch = {}
  BY DEF Inv, Types
<1>3. /\ cursor' \in CursorType /\ cursor'.pos = cursor.pos + 1 /\ cursor'.watch = {}
      /\ cursor'.todo = TodoAfterStep(session.instr, cursor)
  BY <1>1, <1>2, StepType
<1>4. cursor'.todo = IF cursor.todo = NO_LIMIT THEN NO_LIMIT ELSE cursor.todo - 1
  BY <1>2, <1>3 DEF TodoAfterStep
<1> DEFINE e == session.instr[cursor.pos]
<1>5. CASE e.addr_func = NULL
  <2>1. UNCHANGED <<g_cur_stack, bars, out>>
    BY <1>5 DEF ReplayStep, tree
  <2> QED
    BY <1>1, <1>3, <1>4, <2>1 DEF Inv, Types, CanStep
<1>6. CASE e.addr_func # NULL
  <2>1. callCallback_tree(e.addr_func, e.addr_ret, cursor.pos)
    BY <1>6 DEF ReplayStep
  <2>2. e.addr_func \in GuestAddress /\ cursor.pos \in Nat \ {0}
    BY <1>2, <1>6, SessionType DEF Inv, Types, CursorType
  <2> HIDE DEF e
  <2>3. /\ g_cur_stack' \in Nat
        /\ bars' \in Nat
        /\ \/ out' = out
           \/ \E line \in OutLine : line.at = cursor.pos /\ out' = Append(out, line)
    BY <2>1, <2>2, CallbackType
  <2> QED
    BY <1>1, <1>3, <1>4, <2>3 DEF CanStep
<1> QED
  BY <1>5, <1>6

\* Appending a line of this position to lines of earlier ones.
LEMMA LineAdded ==
  ASSUME Inv, NEW line \in OutLine, line.at = cursor.pos, out' = Append(out, line)
  PROVE  /\ out' \in Seq(OutLine)
         /\ Len(out) \in Nat
         /\ Len(out') = Len(out) + 1
         /\ out'[Len(out) + 1].at = cursor.pos
         /\ \A n \in 1 .. Len(out) : out'[n] = out[n]
         /\ \A n \in 1 .. Len(out) : out[n].at \in Nat
<1>1. out \in Seq(OutLine)
  BY DEF Inv, Types
<1>2. \A n \in 1 .. Len(out) : out[n] \in OutLine
  BY <1>1
<1> QED
  BY <1>1, <1>2 DEF OutLine

LEMMA ReplayStepInv == ASSUME Inv, ReplayStep PROVE Inv'
<1>1. /\ pc \in {"chunk", "tail"}
      /\ cursor' \in CursorType
      /\ cursor.pos < end
      /\ cursor'.pos = cursor.pos + 1
      /\ cursor'.watch = {}
      /\ cursor.todo # 0
      /\ cursor'.todo = IF cursor.todo = NO_LIMIT THEN NO_LIMIT ELSE cursor.todo - 1
      /\ g_cur_stack' \in Nat
      /\ bars' \in Nat
      /\ \/ out' = out
         \/ \E line \in OutLine : line.at = cursor.pos /\ out' = Append(out, line)
      /\ UNCHANGED <<session, end, g_moduleinfo, LastPosition, stepCount,
                     totalStepCount, pc>>
  BY ReplayStepEffect
<1>2. /\ Size \in Nat /\ Size' = Size /\ STEP_COUNT \in Nat /\ NULL = 0
      /\ cursor.pos \in Nat /\ end \in 0 .. Size /\ cursor.todo \in Nat \cup {NO_LIMIT}
      /\ LastPosition \in Nat /\ stepCount \in Nat
  BY <1>1, SessionType, SessionsAssumption, StepCountAssumption
  DEF Inv, Types, Size, CursorType
<1>3. out' \in Seq(OutLine)
  BY <1>1, LineAdded DEF Inv, Types
<1>4. Types'
  BY <1>1, <1>2, <1>3 DEF Inv, Types
<1>5. Counts'
  BY <1>1, <1>2 DEF Inv, Counts, NO_LIMIT
<1>6. Placed'
  <2>1. CASE LastPosition = NULL
    BY <1>1, <2>1 DEF Placed
  <2>2. CASE LastPosition # NULL /\ pc = "chunk"
    <3>1. cursor.todo \in 0 .. STEP_COUNT /\ LastPosition <= end
          /\ cursor.pos = LastPosition + (STEP_COUNT - cursor.todo)
      BY <2>2 DEF Inv, Counts, Placed
    <3>2. /\ cursor'.todo = cursor.todo - 1 /\ cursor'.pos = cursor.pos + 1
          /\ cursor.pos + 1 <= end /\ cursor.todo \in Int
      BY <1>1, <3>1, <1>2 DEF NO_LIMIT
    <3>3. cursor'.pos = LastPosition + (STEP_COUNT - cursor'.todo) /\ cursor'.pos <= end
      <4>1. LastPosition \in Nat /\ STEP_COUNT \in Nat
        BY <1>2
      <4> QED
        BY <3>1, <3>2, <4>1
    <3> QED
      BY <1>1, <2>2, <3>1, <3>3 DEF Placed
  <2>3. CASE LastPosition # NULL /\ pc = "tail"
    <3>1. /\ LastPosition <= end /\ end - stepCount = LastPosition /\ LastPosition <= cursor.pos
          /\ stepCount # 0 /\ cursor.todo \in Nat /\ cursor.pos + cursor.todo = end - 1
      BY <1>1, <1>2, <2>3 DEF Inv, Placed
    <3>2. /\ cursor'.todo = cursor.todo - 1 /\ cursor'.pos = cursor.pos + 1
          /\ cursor.todo # 0 /\ cursor.todo \in Nat
      BY <1>1, <3>1 DEF NO_LIMIT
    <3>3. /\ LastPosition <= cursor'.pos /\ cursor'.todo \in Nat
          /\ cursor'.pos + cursor'.todo = end - 1
      <4>1. LastPosition \in Nat /\ cursor.pos \in Nat /\ end \in Int
        BY <1>2
      <4> QED
        BY <3>1, <3>2, <4>1
    <3> QED
      BY <1>1, <2>3, <3>1, <3>3 DEF Placed
  <2> QED
    BY <1>1, <2>1, <2>2, <2>3
<1>7. FinalPosition'
  BY <1>1 DEF FinalPosition
<1>8. Ordered'
  <2>1. CASE out' = out
    <3>1. \A n \in 1 .. Len(out) : out[n].at \in Nat
      <4>1. \A n \in 1 .. Len(out) : out[n] \in OutLine
        BY DEF Inv, Types
      <4> QED
        BY <4>1 DEF OutLine
    <3> QED
      BY <1>1, <1>2, <2>1, <3>1 DEF Inv, Ordered
  <2>2. CASE \E line \in OutLine : line.at = cursor.pos /\ out' = Append(out, line)
    <3>1. /\ Len(out) \in Nat
          /\ Len(out') = Len(out) + 1
          /\ out'[Len(out) + 1].at = cursor.pos
          /\ \A n \in 1 .. Len(out) : out'[n] = out[n]
          /\ \A n \in 1 .. Len(out) : out[n].at \in Nat
      BY <2>2, LineAdded
    <3>2. CASE pc = "tail"
      BY <3>2, <1>1 DEF Ordered
    <3>3. CASE pc = "chunk"
      <4>1. /\ \A n \in 1 .. Len(out) : out[n].at < cursor.pos
            /\ \A m, n \in 1 .. Len(out) : m < n => out[m].at < out[n].at
        BY <3>3 DEF Inv, Ordered
      <4>2. \A n \in 1 .. Len(out') : out'[n].at < cursor'.pos
        BY <1>1, <1>2, <3>1, <4>1
      <4>3. ASSUME NEW m \in 1 .. Len(out'), NEW n \in 1 .. Len(out'), m < n
            PROVE  out'[m].at < out'[n].at
        <5>1. m \in 1 .. Len(out)
          BY <4>3, <3>1
        <5>2. CASE n \in 1 .. Len(out)
          BY <5>1, <5>2, <4>1, <4>3, <3>1
        <5>3. CASE n = Len(out) + 1
          BY <5>1, <5>3, <4>1, <3>1
        <5> QED
          BY <5>2, <5>3, <3>1
      <4> QED
        BY <3>3, <1>1, <4>2, <4>3 DEF Ordered
    <3> QED
      BY <1>1, <3>2, <3>3
  <2> QED
    BY <1>1, <2>1, <2>2
<1>9. RepeatsOnlyTail'
  <2>1. CASE pc = "chunk" /\ LastPosition # NULL
    <3> SUFFICES ASSUME NEW m \in 1 .. Len(out'), NEW n \in 1 .. Len(out'), m < n,
                        out'[n].at <= out'[m].at
                 PROVE  FALSE
      BY DEF RepeatsOnlyTail
    <3>1. out'[m].at < out'[n].at
      BY <1>8, <1>1, <2>1 DEF Ordered
    <3>2. out'[m].at \in Nat /\ out'[n].at \in Nat
      <4>1. \A k \in 1 .. Len(out') : out'[k] \in OutLine
        BY <1>3
      <4> QED
        BY <4>1 DEF OutLine
    <3> QED
      BY <3>1, <3>2
  <2>2. CASE pc = "tail" /\ LastPosition # NULL
    <3>1. end - stepCount = LastPosition /\ LastPosition <= cursor.pos
      BY <2>2 DEF Inv, Placed
    <3>2. CASE out' = out
      BY <3>2, <1>1 DEF Inv, RepeatsOnlyTail
    <3>3. CASE \E line \in OutLine : line.at = cursor.pos /\ out' = Append(out, line)
      <4>1. /\ Len(out) \in Nat
            /\ Len(out') = Len(out) + 1
            /\ out'[Len(out) + 1].at = cursor.pos
            /\ \A n \in 1 .. Len(out) : out'[n] = out[n]
        BY <3>3, LineAdded
      <4>2. ASSUME NEW m \in 1 .. Len(out'), NEW n \in 1 .. Len(out'), m < n,
                   out'[n].at <= out'[m].at
            PROVE  out'[n].at >= end - stepCount
        <5>1. m \in 1 .. Len(out)
          BY <4>1, <4>2
        <5>2. CASE n \in 1 .. Len(out)
          BY <5>1, <5>2, <4>1, <4>2, <2>2 DEF Inv, RepeatsOnlyTail
        <5>3. CASE n = Len(out) + 1
          BY <5>3, <4>1, <3>1, <1>2
        <5> QED
          BY <5>2, <5>3, <4>1
      <4> QED
        BY <4>2, <1>1 DEF RepeatsOnlyTail
    <3> QED
      BY <1>1, <3>2, <3>3
  <2>3. CASE LastPosition = NULL
    BY <2>3, <1>1 DEF RepeatsOnlyTail
  <2> QED
    BY <1>1, <2>1, <2>2, <2>3
<1> QED
  BY <1>4, <1>5, <1>6, <1>7, <1>8, <1>9 DEF Inv

-----------------------------------------------------------------------------
(* The main loop. *)

\* The numbers every step of the loop speaks of.
LEMMA Numbers ==
  ASSUME Inv
  PROVE  /\ Size \in Nat /\ NULL = 0
         /\ STEP_COUNT \in Nat \ {0} /\ Word \in Nat /\ STEP_COUNT < Word
         /\ cursor \in CursorType /\ cursor.pos \in 1 .. Size /\ cursor.watch = {}
         /\ cursor.todo \in Nat \cup {NO_LIMIT}
         /\ end \in 0 .. Size
         /\ LastPosition \in 0 .. Size /\ stepCount \in 0 .. STEP_COUNT
         /\ totalStepCount \in 0 .. Word - 1
BY SessionType, SessionsAssumption, StepCountAssumption DEF Inv, Types, CursorType

LEMMA ChunkInv == ASSUME Inv, Chunk PROVE Inv'
<1>1. /\ pc = "loop" /\ pc' = "chunk"
      /\ cursor' = ReplayForward(cursor, STEP_COUNT)
      /\ UNCHANGED <<session, end, g_moduleinfo, g_cur_stack, bars, out,
                     LastPosition, stepCount, totalStepCount>>
  BY DEF Chunk, tree, counters
<1>2. /\ cursor' \in CursorType /\ cursor'.pos = cursor.pos /\ cursor'.todo = STEP_COUNT
      /\ cursor'.watch = {}
  <2>1. STEP_COUNT \in Nat \cup {NO_LIMIT} /\ cursor \in CursorType
    BY Numbers
  <2> QED
    BY <1>1, <2>1, ReplayForwardType DEF Inv, Types
<1>3. Types'
  BY <1>1, <1>2 DEF Inv, Types, Size
<1>4. Counts' /\ FinalPosition'
  BY <1>1, <1>2, Numbers DEF Counts, FinalPosition
<1>5. Placed'
  BY <1>1, <1>2, Numbers DEF Inv, Placed
<1>6. Ordered' /\ RepeatsOnlyTail'
  BY <1>1, <1>2 DEF Inv, Ordered, RepeatsOnlyTail
<1> QED
  BY <1>3, <1>4, <1>5, <1>6 DEF Inv

\* A complete chunk has made a step, so it has not passed the end.
LEMMA FullChunkInv == ASSUME Inv, FullChunk PROVE Inv'
<1>1. /\ pc = "chunk" /\ pc' = "loop" /\ ~ CanStep(cursor, end)
      /\ StepsMade = STEP_COUNT /\ stepCount' = StepsMade
      /\ totalStepCount' = (totalStepCount + StepsMade) % Word
      /\ LastPosition' = cursor.pos
      /\ UNCHANGED <<session, cursor, end, g_moduleinfo, g_cur_stack, bars, out>>
  BY DEF FullChunk, tree
<1>2. cursor.todo \in 0 .. STEP_COUNT
  BY <1>1 DEF Inv, Counts
<1>3. stepCount' \in 0 .. STEP_COUNT /\ totalStepCount' \in 0 .. Word - 1
  BY <1>1, Numbers
<1>4. Types'
  BY <1>1, <1>3 DEF Inv, Types, Size
<1>5. Counts' /\ FinalPosition'
  BY <1>1 DEF Counts, FinalPosition
<1>6. Placed'
  BY <1>1, <1>2, Numbers DEF Inv, Counts, Placed, StepsMade
<1>7. Ordered'
  BY <1>1 DEF Inv, Ordered
<1>8. RepeatsOnlyTail'
  <2> SUFFICES ASSUME NEW m \in 1 .. Len(out), NEW n \in 1 .. Len(out), m < n
               PROVE  ~ (out[n].at <= out[m].at)
    BY <1>1 DEF RepeatsOnlyTail
  <2>1. out[m].at < out[n].at
    BY <1>1 DEF Inv, Ordered
  <2>2. out[m].at \in Nat /\ out[n].at \in Nat
    <3>1. \A k \in 1 .. Len(out) : out[k] \in OutLine
      BY DEF Inv, Types
    <3> QED
      BY <3>1 DEF OutLine
  <2> QED
    BY <2>1, <2>2
<1> QED
  BY <1>4, <1>5, <1>6, <1>7, <1>8 DEF Inv

\* The roll back leaves one instruction less to replay than the chunk had.
LEMMA ShortChunkInv == ASSUME Inv, ShortChunk PROVE Inv'
<1>1. PICK position \in RollbackTo :
        cursor' = ReplayForward(SetPosition(cursor, position), OneLess(StepsMade))
  BY DEF ShortChunk
<1>2. /\ pc = "chunk" /\ pc' = "tail" /\ ~ CanStep(cursor, end)
      /\ StepsMade < STEP_COUNT /\ stepCount' = StepsMade
      /\ totalStepCount' = (totalStepCount + StepsMade) % Word
      /\ UNCHANGED <<session, end, g_moduleinfo, g_cur_stack, bars, out, LastPosition>>
  BY DEF ShortChunk, tree
<1>3. cursor.todo \in 0 .. STEP_COUNT /\ StepsMade \in 0 .. STEP_COUNT
      /\ StepsMade = STEP_COUNT - cursor.todo
  BY <1>2, Numbers DEF Inv, Counts, StepsMade
<1>4. OneLess(StepsMade) \in Nat \cup {NO_LIMIT}
      /\ (StepsMade # 0 => OneLess(StepsMade) = StepsMade - 1)
  BY <1>3, Numbers DEF OneLess
<1>5. position \in 1 .. Size /\ (LastPosition # NULL => position = LastPosition)
  BY Numbers DEF RollbackTo, Size
<1>6. /\ cursor' \in CursorType /\ cursor'.pos = position
      /\ cursor'.todo = OneLess(StepsMade) /\ cursor'.watch = {}
  <2>1. cursor \in CursorType /\ position \in Nat \ {0} /\ cursor.watch = {}
    BY <1>5, Numbers
  <2>2. SetPosition(cursor, position) \in CursorType
        /\ SetPosition(cursor, position).pos = position
        /\ SetPosition(cursor, position).watch = {}
    BY <2>1, SetPositionType
  <2> QED
    BY <1>1, <1>4, <2>2, ReplayForwardType
<1>7. totalStepCount' \in 0 .. Word - 1
  BY <1>2, <1>3, Numbers
<1>8. Types'
  BY <1>2, <1>3, <1>5, <1>6, <1>7 DEF Inv, Types, Size
<1>9. Counts' /\ FinalPosition' /\ Ordered'
  BY <1>2 DEF Counts, FinalPosition, Ordered
<1>10. Placed'
  <2> SUFFICES ASSUME LastPosition # NULL PROVE Placed'
    BY <1>2 DEF Placed
  <2>1. LastPosition <= end /\ cursor.pos = LastPosition + StepsMade /\ cursor.pos <= end
    BY <1>2, <1>3 DEF Inv, Placed
  <2>2. cursor.pos >= end
    BY <1>2, <1>3, Numbers DEF CanStep
  <2>3. end - stepCount' = LastPosition /\ cursor'.pos = LastPosition
    BY <1>2, <1>3, <1>5, <1>6, <2>1, <2>2, Numbers
  <2>4. stepCount' # 0 => cursor'.todo \in Nat /\ cursor'.pos + cursor'.todo = end - 1
    BY <1>2, <1>3, <1>4, <1>6, <2>3, Numbers
  <2> QED
    BY <1>2, <2>1, <2>3, <2>4, Numbers DEF Placed
<1>11. RepeatsOnlyTail'
  <2> SUFFICES ASSUME NEW m \in 1 .. Len(out), NEW n \in 1 .. Len(out), m < n
               PROVE  ~ (out[n].at <= out[m].at)
    BY <1>2 DEF RepeatsOnlyTail
  <2>1. out[m].at < out[n].at
    BY <1>2 DEF Inv, Ordered
  <2>2. out[m].at \in Nat /\ out[n].at \in Nat
    <3>1. \A k \in 1 .. Len(out) : out[k] \in OutLine
      BY DEF Inv, Types
    <3> QED
      BY <3>1 DEF OutLine
  <2> QED
    BY <2>1, <2>2
<1> QED
  BY <1>8, <1>9, <1>10, <1>11 DEF Inv

LEMMA FinishInv == ASSUME Inv, Finish PROVE Inv'
<1>1. /\ pc = "tail" /\ pc' = "done" /\ ~ CanStep(cursor, end)
      /\ totalStepCount' = (totalStepCount + stepCount + Word - 1) % Word
      /\ UNCHANGED <<session, cursor, end, g_moduleinfo, g_cur_stack, bars, out,
                     LastPosition, stepCount>>
  BY DEF Finish, tree
<1>2. totalStepCount' \in 0 .. Word - 1
  BY <1>1, Numbers
<1>3. Types'
  BY <1>1, <1>2 DEF Inv, Types, Size
<1>4. Counts' /\ Ordered' /\ RepeatsOnlyTail'
  BY <1>1 DEF Inv, Counts, Ordered, RepeatsOnlyTail
<1>5. Placed'
  BY <1>1 DEF Inv, Placed
<1>6. FinalPosition'
  <2> SUFFICES ASSUME LastPosition # NULL
               PROVE  cursor.pos = IF stepCount = 0 THEN end ELSE end - 1
    BY <1>1 DEF FinalPosition
  <2>1. CASE stepCount = 0
    BY <1>1, <2>1 DEF Inv, Placed
  <2>2. CASE stepCount # 0
    <3>1. cursor.todo \in Nat /\ cursor.pos + cursor.todo = end - 1
      BY <1>1, <2>2 DEF Inv, Placed
    <3>2. cursor.todo = 0
      BY <1>1, <3>1, Numbers DEF CanStep
    <3> QED
      BY <2>2, <3>1, <3>2, Numbers
  <2> QED
    BY <2>1, <2>2
<1> QED
  BY <1>3, <1>4, <1>5, <1>6 DEF Inv

LEMMA StutterInv == ASSUME Inv, UNCHANGED vars PROVE Inv'
BY DEF vars, Inv, Types, Counts, Placed, FinalPosition, Ordered, RepeatsOnlyTail, Size

THEOREM CallTreeInv == Spec => []Inv
<1>1. ASSUME Inv, [Next]_vars PROVE Inv'
  <2>1. CASE BadArgs \/ Args \/ Modules
    BY <1>1, <2>1, BadArgsInv, ArgsInv, ModulesInv
  <2>2. CASE Chunk \/ ReplayStep
    BY <1>1, <2>2, ChunkInv, ReplayStepInv
  <2>3. CASE FullChunk \/ ShortChunk \/ Finish
    BY <1>1, <2>3, FullChunkInv, ShortChunkInv, FinishInv
  <2>4. CASE Stopped \/ UNCHANGED vars
    BY <1>1, <2>4, StutterInv DEF Stopped
  <2> QED
    BY <1>1, <2>1, <2>2, <2>3, <2>4 DEF Next
<1> QED
  BY InitInv, <1>1, PTL DEF Spec

-----------------------------------------------------------------------------
\* Every variable keeps its type; the total of the instructions is a 64-bit
\* number even when one is taken off an empty chunk.
THEOREM TypeCorrect == Spec => []TypeOK
<1>1. Inv => TypeOK
  BY SessionsAssumption DEF Inv, Types, TypeOK, Size
<1> QED
  BY <1>1, CallTreeInv, PTL

\* Rolling back and replaying one instruction less puts the cursor on the last
\* instruction before the end, for any chunk size.
THEOREM EndsBeforeEnd == Spec => []FinalPosition
<1>1. Inv => FinalPosition
  BY DEF Inv
<1> QED
  BY <1>1, CallTreeInv, PTL

\* No event of a complete chunk is printed twice.
THEOREM OnlyTailTwice == Spec => []RepeatsOnlyTail
<1>1. Inv => RepeatsOnlyTail
  BY DEF Inv
<1> QED
  BY <1>1, CallTreeInv, PTL
-----------------------------------------------------------------------------
(* The depth of the calls.  g_cur_stack counts the calls and the returns of  *)
(* all the threads; the lines of a session whose calls and returns so far    *)
(* are of one thread have the depth of that thread.                          *)

AllCalls(k) ==
  {j \in Begin .. k - 1 : session.instr[j].addr_func # NULL /\ session.instr[j].addr_ret # NULL}
AllReturns(k) ==
  {j \in Begin .. k - 1 : session.instr[j].addr_func # NULL /\ session.instr[j].addr_ret = NULL}
AllDepth(k) == Cardinality(AllCalls(k)) - Cardinality(AllReturns(k))

AllDepthFromOutermost(k) ==
  CHOOSE d \in 0 .. k : \E j \in Begin .. k :
    d = AllDepth(k) - AllDepth(j) /\ \A i \in Begin .. k : AllDepth(j) <= AllDepth(i)

AllIndentOf(line) == AllDepthFromOutermost(IF line.ret THEN line.at + 1 ELSE line.at)

\* With one thread calling and returning, what is counted for all is that thread's.
LEMMA OneThreadDepth ==
  ASSUME Begin \in Nat, NEW tid, NEW k \in Nat,
         \A j \in Begin .. k - 1 :
           session.instr[j].addr_func # NULL => session.instr[j].tid = tid
  PROVE  DepthFromOutermost(k, tid) = AllDepthFromOutermost(k)
<1>1. ASSUME NEW i \in Begin .. k PROVE Depth(i, tid) = AllDepth(i)
  <2>1. Calls(i, tid) = AllCalls(i) /\ Returns(i, tid) = AllReturns(i)
    BY DEF Calls, Returns, AllCalls, AllReturns
  <2> QED
    BY <2>1 DEF Depth, AllDepth
<1>2. \A d : (\E j \in Begin .. k : /\ d = Depth(k, tid) - Depth(j, tid)
                                  /\ \A i \in Begin .. k : Depth(j, tid) <= Depth(i, tid))
           <=> (\E j \in Begin .. k : /\ d = AllDepth(k) - AllDepth(j)
                                   /\ \A i \in Begin .. k : AllDepth(j) <= AllDepth(i))
  <2>1. CASE Begin <= k
    <3>1. k \in Begin .. k
      BY <2>1
    <3> QED
      BY <1>1, <3>1
  <2>2. CASE ~ (Begin <= k)
    <3>1. Begin .. k = {}
      BY <2>2
    <3> QED
      BY <3>1
  <2> QED
    BY <2>1, <2>2
<1> QED
  BY <1>2 DEF DepthFromOutermost, AllDepthFromOutermost

LEMMA OneThreadIndent ==
  ASSUME Begin \in Nat, NEW line, line.at \in Nat, OneThreadUntil(line)
  PROVE  IndentOf(line) = AllIndentOf(line)
<1> DEFINE tid == session.instr[line.at].tid
<1>1. \A j \in Begin .. line.at :
        session.instr[j].addr_func # NULL => session.instr[j].tid = tid
  BY DEF OneThreadUntil
<1> HIDE DEF tid
<1>2. /\ DepthFromOutermost(line.at, tid) = AllDepthFromOutermost(line.at)
      /\ DepthFromOutermost(line.at + 1, tid) = AllDepthFromOutermost(line.at + 1)
  <2>1. \A j \in Begin .. line.at - 1 :
          session.instr[j].addr_func # NULL => session.instr[j].tid = tid
    BY <1>1
  <2>2. \A j \in Begin .. (line.at + 1) - 1 :
          session.instr[j].addr_func # NULL => session.instr[j].tid = tid
    BY <1>1
  <2>3. line.at + 1 \in Nat
    OBVIOUS
  <2> QED
    BY <2>1, <2>2, <2>3, OneThreadDepth
<1> QED
  BY <1>2 DEF IndentOf, AllIndentOf, tid

\* d is how far position k is above the outermost function left so far.
Lowest(k, d) ==
  \E j \in Begin .. k :
    /\ AllDepth(k) = AllDepth(j) + d
    /\ \A i \in Begin .. k : AllDepth(j) <= AllDepth(i)

IsCall(k) == session.instr[k].addr_func # NULL /\ session.instr[k].addr_ret # NULL
IsReturn(k) == session.instr[k].addr_func # NULL /\ session.instr[k].addr_ret = NULL

LEMMA DepthType ==
  ASSUME Begin \in Nat, NEW k \in Nat
  PROVE  /\ IsFiniteSet(AllCalls(k))
         /\ IsFiniteSet(AllReturns(k))
         /\ Cardinality(AllCalls(k)) \in Nat
         /\ Cardinality(AllReturns(k)) \in Nat
         /\ AllDepth(k) \in Int
<1>1. IsFiniteSet(Begin .. k - 1)
  BY FS_Interval
<1>2. AllCalls(k) \in SUBSET (Begin .. k - 1) /\ AllReturns(k) \in SUBSET (Begin .. k - 1)
  BY DEF AllCalls, AllReturns
<1>3. IsFiniteSet(AllCalls(k)) /\ IsFiniteSet(AllReturns(k))
  BY <1>1, <1>2, FS_Subset
<1> QED
  BY <1>3, FS_CardinalityType DEF AllDepth

LEMMA DepthStart ==
  ASSUME Begin \in Nat
  PROVE  AllDepth(Begin) = 0
<1>1. AllCalls(Begin) = {} /\ AllReturns(Begin) = {}
  BY DEF AllCalls, AllReturns
<1> QED
  BY <1>1, FS_EmptySet DEF AllDepth

\* A call adds one to the depth and a return takes one off.
LEMMA DepthStep ==
  ASSUME Begin \in Nat, NEW k \in Nat, Begin <= k
  PROVE  AllDepth(k + 1) = IF IsCall(k) THEN AllDepth(k) + 1
                        ELSE IF IsReturn(k) THEN AllDepth(k) - 1 ELSE AllDepth(k)
<1>1. /\ AllCalls(k + 1) = IF IsCall(k) THEN AllCalls(k) \cup {k} ELSE AllCalls(k)
      /\ k \notin AllCalls(k)
  BY DEF AllCalls, IsCall
<1>2. /\ AllReturns(k + 1) = IF IsReturn(k) THEN AllReturns(k) \cup {k} ELSE AllReturns(k)
      /\ k \notin AllReturns(k)
  BY DEF AllReturns, IsReturn
<1>3. Cardinality(AllCalls(k) \cup {k}) = Cardinality(AllCalls(k)) + 1
  BY <1>1, DepthType, FS_AddElement
<1>4. Cardinality(AllReturns(k) \cup {k}) = Cardinality(AllReturns(k)) + 1
  BY <1>2, DepthType, FS_AddElement
<1>5. Cardinality(AllCalls(k)) \in Nat /\ Cardinality(AllReturns(k)) \in Nat
  BY DepthType
<1>6. ~ (IsCall(k) /\ IsReturn(k))
  BY DEF IsCall, IsReturn
<1>7. CASE IsCall(k)
  <2>1. AllCalls(k + 1) = AllCalls(k) \cup {k} /\ AllReturns(k + 1) = AllReturns(k)
    BY <1>1, <1>2, <1>6, <1>7
  <2>2. AllDepth(k + 1) = AllDepth(k) + 1
    <3> DEFINE a == Cardinality(AllCalls(k))
               b == Cardinality(AllReturns(k))
    <3>1. AllDepth(k + 1) = (a + 1) - b /\ AllDepth(k) = a - b
      BY <1>3, <2>1 DEF AllDepth
    <3>2. a \in Nat /\ b \in Nat
      BY <1>5
    <3> HIDE DEF a, b
    <3> QED
      BY <3>1, <3>2
  <2> QED
    BY <1>7, <2>2
<1>8. CASE IsReturn(k)
  <2>1. AllCalls(k + 1) = AllCalls(k) /\ AllReturns(k + 1) = AllReturns(k) \cup {k}
    BY <1>1, <1>2, <1>6, <1>8
  <2>2. AllDepth(k + 1) = AllDepth(k) - 1
    <3> DEFINE a == Cardinality(AllCalls(k))
               b == Cardinality(AllReturns(k))
    <3>1. AllDepth(k + 1) = a - (b + 1) /\ AllDepth(k) = a - b
      BY <1>4, <2>1 DEF AllDepth
    <3>2. a \in Nat /\ b \in Nat
      BY <1>5
    <3> HIDE DEF a, b
    <3> QED
      BY <3>1, <3>2
  <2> QED
    BY <1>6, <1>8, <2>2
<1>9. CASE ~ IsCall(k) /\ ~ IsReturn(k)
  BY <1>1, <1>2, <1>9 DEF AllDepth
<1> QED
  BY <1>6, <1>7, <1>8, <1>9

\* There is one such d, so that it is the one that AllDepthFromOutermost chooses.
LEMMA LowestIsDepth ==
  ASSUME Begin \in Nat, NEW k \in Nat, NEW d \in 0 .. k, Lowest(k, d)
  PROVE  AllDepthFromOutermost(k) = d
<1>1. PICK j \in Begin .. k : /\ AllDepth(k) = AllDepth(j) + d
                              /\ \A i \in Begin .. k : AllDepth(j) <= AllDepth(i)
  BY DEF Lowest
<1>2. \A i \in Begin .. k : AllDepth(i) \in Int
  BY DepthType
<1>3. AllDepth(k) \in Int
  BY DepthType
<1>4. ASSUME NEW c \in 0 .. k,
             \E i \in Begin .. k : c = AllDepth(k) - AllDepth(i)
                                   /\ \A h \in Begin .. k : AllDepth(i) <= AllDepth(h)
      PROVE  c = d
  <2>1. PICK i \in Begin .. k : c = AllDepth(k) - AllDepth(i)
                                /\ \A h \in Begin .. k : AllDepth(i) <= AllDepth(h)
    BY <1>4
  <2>2. AllDepth(i) = AllDepth(j)
    <3>1. AllDepth(i) <= AllDepth(j) /\ AllDepth(j) <= AllDepth(i)
      BY <1>1, <2>1
    <3>2. AllDepth(i) \in Int /\ AllDepth(j) \in Int
      BY <1>2
    <3> QED
      BY <3>1, <3>2
  <2>3. c = AllDepth(k) - AllDepth(j) /\ AllDepth(j) \in Int /\ d \in Int
    BY <1>2, <2>1, <2>2
  <2> QED
    BY <1>1, <1>3, <2>3
<1>5. d = AllDepth(k) - AllDepth(j)
  BY <1>1, <1>2, <1>3
<1>6. \E i \in Begin .. k : d = AllDepth(k) - AllDepth(i)
                            /\ \A h \in Begin .. k : AllDepth(i) <= AllDepth(h)
  BY <1>1, <1>5
<1> QED
  BY <1>4, <1>6 DEF AllDepthFromOutermost

\* The level of the next position, for each kind of instruction.
LEMMA LowestStep ==
  ASSUME Begin \in Nat, NEW k \in Nat, Begin <= k, NEW d \in Nat, Lowest(k, d)
  PROVE  Lowest(k + 1, IF IsCall(k) THEN d + 1
                       ELSE IF IsReturn(k) THEN (IF d > 0 THEN d - 1 ELSE 0) ELSE d)
<1>1. PICK j \in Begin .. k : /\ AllDepth(k) = AllDepth(j) + d
                              /\ \A i \in Begin .. k : AllDepth(j) <= AllDepth(i)
  BY DEF Lowest
<1>2. \A i \in Begin .. k + 1 : AllDepth(i) \in Int
  BY DepthType
<1>3. AllDepth(k + 1) = IF IsCall(k) THEN AllDepth(k) + 1
                     ELSE IF IsReturn(k) THEN AllDepth(k) - 1 ELSE AllDepth(k)
  BY DepthStep
<1>4. j \in Begin .. k + 1 /\ k \in Begin .. k + 1 /\ k + 1 \in Begin .. k + 1
      /\ \A i \in Begin .. k + 1 : i = k + 1 \/ i \in Begin .. k
  OBVIOUS
<1>5. CASE IsCall(k)
  <2>1. AllDepth(k + 1) = AllDepth(j) + (d + 1)
    BY <1>1, <1>2, <1>3, <1>4, <1>5
  <2>2. \A i \in Begin .. k + 1 : AllDepth(j) <= AllDepth(i)
    BY <1>1, <1>2, <1>4, <2>1
  <2> QED
    BY <1>4, <1>5, <2>1, <2>2 DEF Lowest
<1>6. CASE ~ IsCall(k) /\ IsReturn(k) /\ d > 0
  <2>1. AllDepth(k + 1) = AllDepth(j) + (d - 1)
    BY <1>1, <1>2, <1>3, <1>4, <1>6
  <2>2. \A i \in Begin .. k + 1 : AllDepth(j) <= AllDepth(i)
    BY <1>1, <1>2, <1>4, <1>6, <2>1
  <2> QED
    BY <1>4, <1>6, <2>1, <2>2 DEF Lowest
<1>7. CASE ~ IsCall(k) /\ IsReturn(k) /\ ~ (d > 0)
  <2>1. AllDepth(k + 1) = AllDepth(j) - 1 /\ d = 0
    BY <1>1, <1>2, <1>3, <1>4, <1>7
  <2>2. \A i \in Begin .. k + 1 : AllDepth(k + 1) <= AllDepth(i)
    BY <1>1, <1>2, <1>4, <2>1
  <2>3. AllDepth(k + 1) = AllDepth(k + 1) + 0
    BY <1>2, <1>4
  <2> QED
    BY <1>4, <1>7, <2>2, <2>3 DEF Lowest
<1>8. CASE ~ IsCall(k) /\ ~ IsReturn(k)
  <2>1. AllDepth(k + 1) = AllDepth(j) + d
    BY <1>1, <1>3, <1>8
  <2>2. \A i \in Begin .. k + 1 : AllDepth(j) <= AllDepth(i)
    BY <1>1, <1>2, <1>4, <2>1
  <2> QED
    BY <1>4, <1>8, <2>1, <2>2 DEF Lowest
<1> QED
  BY <1>5, <1>6, <1>7, <1>8

-----------------------------------------------------------------------------
(* The tree. *)

\* g_moduleinfo has the modules in reverse.
ListBuilt ==
  g_moduleinfo = [n \in 1 .. Len(session.modules) |->
                    session.modules[Len(session.modules) + 1 - n]]

OutAt == {out[n].at : n \in 1 .. Len(out)}

\* What a replay has printed up to the position of the cursor, and that the
\* indentation is the depth there.
Printed ==
  /\ Begin \in 1 .. cursor.pos
  /\ ListBuilt
  /\ Lowest(cursor.pos, g_cur_stack)
  /\ g_cur_stack <= cursor.pos - Begin
  /\ AllNamed => bars = 0 /\ \A n \in 1 .. Len(out) : out[n].bars = AllIndentOf(out[n])
  /\ OutAt = NamedEvents(Begin, cursor.pos)

Tree ==
  /\ pc \in {"args", "modules"} => g_cur_stack = 0 /\ bars = 0
  /\ pc = "modules" => cursor.pos = Begin
  /\ pc \in {"loop", "chunk"} => Printed
  /\ pc \in {"tail", "done"} => NamedEvents(Begin, end) \subseteq OutAt

\* None of them depends on more than the session.
LEMMA SameSession ==
  ASSUME session' = session
  PROVE  /\ Begin' = Begin
         /\ \A lo, hi : NamedEvents(lo, hi)' = NamedEvents(lo, hi)
         /\ AllNamed' <=> AllNamed
         /\ \A k, d : Lowest(k, d)' <=> Lowest(k, d)
         /\ \A line : AllIndentOf(line)' = AllIndentOf(line)
<1>1. Begin' = Begin
  BY DEF Begin, StartAt, ThreadStart
<1>2. \A lo, hi : NamedEvents(lo, hi)' = NamedEvents(lo, hi)
  BY DEF NamedEvents
<1>3. AllNamed' <=> AllNamed
  BY DEF AllNamed, NamedEvents
<1>4. \A k : AllDepth(k)' = AllDepth(k)
  BY <1>1 DEF AllDepth, AllCalls, AllReturns
<1>5. \A k, d : Lowest(k, d)' <=> Lowest(k, d)
  BY <1>1, <1>4 DEF Lowest
<1>6. \A k : AllDepthFromOutermost(k)' = AllDepthFromOutermost(k)
  BY <1>1, <1>4 DEF AllDepthFromOutermost
<1>7. \A line : AllIndentOf(line)' = AllIndentOf(line)
  BY <1>6 DEF AllIndentOf
<1> QED
  BY <1>1, <1>2, <1>3, <1>5, <1>7

\* Only one position is where the options say that the replay starts.
LEMMA StartIsBegin ==
  ASSUME session \in Sessions, NEW position \in 1 .. Size, StartAt(position)
  PROVE  Begin = position
<1>1. ASSUME NEW p \in 1 .. Size, StartAt(p) PROVE p = position
  <2>1. CASE session.tid_arg # NULL
    <3>1. PICK n \in 1 .. Len(session.threads) :
            /\ session.threads[n] = [tid |-> session.tid_arg, pos |-> position]
            /\ \A j \in 1 .. n - 1 : session.threads[j].tid # session.tid_arg
      BY <2>1 DEF StartAt, ThreadStart
    <3>2. PICK m \in 1 .. Len(session.threads) :
            /\ session.threads[m] = [tid |-> session.tid_arg, pos |-> p]
            /\ \A j \in 1 .. m - 1 : session.threads[j].tid # session.tid_arg
      BY <1>1, <2>1 DEF StartAt, ThreadStart
    <3>3. ~ (m < n) /\ ~ (n < m)
      BY <3>1, <3>2
    <3>4. m = n
      BY <3>3
    <3> QED
      BY <3>1, <3>2, <3>4
  <2>2. CASE session.tid_arg = NULL
    BY <1>1, <2>2 DEF StartAt
  <2> QED
    BY <2>1, <2>2
<1> QED
  BY <1>1 DEF Begin, Size

\* A module of the recording has the address.
KnownAddress(f) ==
  \E n \in 1 .. Len(session.modules) : f \in ModuleAddresses(session.modules[n])

\* The addresses of the modules in the list are those of the recording's.
LEMMA KnownModule ==
  ASSUME session \in Sessions, ListBuilt, NEW f \in GuestAddress
  PROVE  ~ UnknownModule(f) <=> KnownAddress(f)
<1> DEFINE N == Len(session.modules)
<1>1. N \in Nat /\ f \in Nat /\ \A n \in 1 .. N : /\ session.modules[n].base_addr \in Nat
                                                  /\ session.modules[n].imageSize \in Nat
  BY SessionType, SessionsAssumption DEF Module
<1>2. \A n \in 1 .. N : InModule(f, session.modules[n]) <=> f \in ModuleAddresses(session.modules[n])
  BY <1>1 DEF InModule, ModuleAddresses
<1>3. Len(g_moduleinfo) = N /\ \A n \in 1 .. N : g_moduleinfo[n] = session.modules[N + 1 - n]
  <2>1. \A n \in 1 .. N : session.modules[N + 1 - n] \in Module
    BY <1>1, SessionType
  <2> QED
    BY <1>1, <2>1 DEF ListBuilt
<1> HIDE DEF N
<1>4. \A n \in 1 .. N : N + 1 - n \in 1 .. N /\ N + 1 - (N + 1 - n) = n
  BY <1>1
<1>5. ASSUME NEW n \in 1 .. N, InModule(f, g_moduleinfo[n])
      PROVE  InModule(f, session.modules[N + 1 - n])
  BY <1>3, <1>5
<1>6. ASSUME NEW n \in 1 .. N, InModule(f, session.modules[n])
      PROVE  InModule(f, g_moduleinfo[N + 1 - n])
  BY <1>3, <1>4, <1>6
<1> QED
  BY <1>2, <1>3, <1>4, <1>5, <1>6 DEF UnknownModule, KnownAddress, N

\* An instruction without an event is outside of every module.
LEMMA NullIsNowhere ==
  ASSUME session \in Sessions
  PROVE  ~ KnownAddress(NULL)
<1> SUFFICES ASSUME NEW n \in 1 .. Len(session.modules)
             PROVE  NULL \notin ModuleAddresses(session.modules[n])
  BY DEF KnownAddress
<1>1. /\ session.modules[n].base_addr \in GuestAddress
      /\ session.modules[n].base_addr \in Nat
      /\ session.modules[n].imageSize \in Nat
      /\ NULL = 0 /\ NULL \notin GuestAddress
  BY SessionType, SessionsAssumption, NullAssumption DEF Module
<1> QED
  BY <1>1 DEF ModuleAddresses

\* The level after an event, and the bars on its line.
NextLevel(r) ==
  IF r # NULL THEN g_cur_stack + 1 ELSE IF g_cur_stack > 0 THEN g_cur_stack - 1 ELSE 0
LineBars(r) ==
  IF r # NULL THEN bars + g_cur_stack
  ELSE IF g_cur_stack > 0 THEN bars + (g_cur_stack - 1) ELSE 0

LEMMA CallbackCases ==
  ASSUME NEW f, NEW r, NEW p, callCallback_tree(f, r, p)
  PROVE  /\ g_cur_stack' = IF r = NULL THEN Level(r = NULL) ELSE Level(r = NULL) + 1
         /\ \/ UnknownModule(f) /\ bars' = BarsFor(r = NULL) /\ out' = out
            \/ \E n \in 1 .. Len(g_moduleinfo) :
                 /\ FindModule(f, g_moduleinfo[n])
                 /\ bars' = 0
                 /\ out' = Append(out, [ bars |-> BarsFor(r = NULL), ret |-> r = NULL, addr |-> f,
                                         at |-> p, module |-> g_moduleinfo[n] ])
  BY Zenon DEF callCallback_tree

LEMMA LevelAndBars ==
  ASSUME Inv, NEW r
  PROVE  /\ NextLevel(r) = IF r = NULL THEN Level(r = NULL) ELSE Level(r = NULL) + 1
         /\ BarsFor(r = NULL) = LineBars(r)
         /\ LineBars(r) \in Nat
         /\ NextLevel(r) \in Nat
<1>1. g_cur_stack \in Nat /\ bars \in Nat
  BY DEF Inv, Types
<1>2. CASE r # NULL
  <2>1. (r = NULL) = FALSE
    BY <1>2
  <2>2. Level(r = NULL) = g_cur_stack
    BY <1>1, <2>1 DEF Level
  <2> QED
    BY <1>1, <1>2, <2>1, <2>2 DEF BarsFor, LineBars, NextLevel
<1>3. CASE r = NULL
  <2>1. (r = NULL) = TRUE
    BY <1>3
  <2>2. Level(r = NULL) = IF g_cur_stack > 0 THEN g_cur_stack - 1 ELSE 0
    BY <1>1, <2>1 DEF Level
  <2> QED
    BY <1>1, <1>3, <2>1, <2>2 DEF BarsFor, LineBars, NextLevel
<1> QED
  BY <1>2, <1>3

\* What the callback prints.
LEMMA CallbackPrints ==
  ASSUME Inv, NEW f \in GuestAddress, NEW r, NEW p \in Nat \ {0}, callCallback_tree(f, r, p)
  PROVE  /\ g_cur_stack' = NextLevel(r)
         /\ \/ UnknownModule(f) /\ out' = out
            \/ /\ ~ UnknownModule(f)
               /\ bars' = 0
               /\ \E line \in OutLine :
                    /\ line.at = p
                    /\ line.ret <=> r = NULL
                    /\ line.bars = LineBars(r)
                    /\ out' = Append(out, line)
<1>1. g_cur_stack' = NextLevel(r)
  BY CallbackCases, LevelAndBars
<1>2. CASE UnknownModule(f) /\ out' = out
  BY <1>1, <1>2
<1>3. CASE \E n \in 1 .. Len(g_moduleinfo) :
             /\ FindModule(f, g_moduleinfo[n])
             /\ bars' = 0
             /\ out' = Append(out, [ bars |-> BarsFor(r = NULL), ret |-> r = NULL, addr |-> f,
                                     at |-> p, module |-> g_moduleinfo[n] ])
  <2>1. PICK n \in 1 .. Len(g_moduleinfo) :
          /\ FindModule(f, g_moduleinfo[n])
          /\ bars' = 0
          /\ out' = Append(out, [ bars |-> BarsFor(r = NULL), ret |-> r = NULL, addr |-> f,
                                  at |-> p, module |-> g_moduleinfo[n] ])
    BY <1>3
  <2> DEFINE line == [ bars |-> BarsFor(r = NULL), ret |-> r = NULL, addr |-> f,
                       at |-> p, module |-> g_moduleinfo[n] ]
  <2>2. ~ UnknownModule(f)
    BY <2>1 DEF FindModule, UnknownModule
  <2>3. g_moduleinfo[n] \in Module
    BY DEF Inv, Types
  <2>4. line.at = p /\ (line.ret <=> r = NULL) /\ line.bars = LineBars(r) /\ line \in OutLine
    <3>1. BarsFor(r = NULL) = LineBars(r) /\ LineBars(r) \in Nat
      BY LevelAndBars
    <3>2. (r = NULL) \in BOOLEAN
      OBVIOUS
    <3> QED
      BY <2>3, <3>1, <3>2 DEF OutLine
  <2>5. bars' = 0 /\ out' = Append(out, line)
    BY <2>1
  <2> HIDE DEF line
  <2> QED
    BY <1>1, <2>2, <2>4, <2>5
<1> QED
  BY <1>2, <1>3, CallbackCases

\* The level and the depth go on together.
LEMMA LevelStep ==
  ASSUME Inv, Printed, ReplayStep
  PROVE  /\ g_cur_stack' = IF IsCall(cursor.pos) THEN g_cur_stack + 1
                           ELSE IF IsReturn(cursor.pos) /\ g_cur_stack > 0 THEN g_cur_stack - 1
                           ELSE g_cur_stack
         /\ Lowest(cursor.pos + 1, g_cur_stack')
         /\ g_cur_stack' <= cursor.pos + 1 - Begin
<1> DEFINE k == cursor.pos
           e == session.instr[cursor.pos]
<1>1. g_cur_stack \in Nat /\ k \in Nat /\ Begin \in Nat /\ Begin <= k /\ g_cur_stack <= k - Begin
      /\ k \in 1 .. Size /\ k \in Nat \ {0}
  BY SessionType DEF Inv, Types, Printed
<1>2. g_cur_stack' = IF IsCall(k) THEN g_cur_stack + 1
                     ELSE IF IsReturn(k) /\ g_cur_stack > 0 THEN g_cur_stack - 1
                     ELSE g_cur_stack
  <2>1. CASE e.addr_func = NULL
    BY <2>1 DEF ReplayStep, tree, IsCall, IsReturn
  <2>2. CASE e.addr_func # NULL
    <3>1. callCallback_tree(e.addr_func, e.addr_ret, k)
      BY <2>2 DEF ReplayStep
    <3>2. e.addr_func \in GuestAddress
      BY <1>1, <2>2, SessionType DEF Inv, Types
    <3>3. g_cur_stack' = NextLevel(e.addr_ret)
      BY <1>1, <3>1, <3>2, CallbackPrints
    <3> QED
      BY <1>1, <2>2, <3>3 DEF NextLevel, IsCall, IsReturn
  <2> QED
    BY <2>1, <2>2
<1>3. Lowest(k + 1, IF IsCall(k) THEN g_cur_stack + 1
                    ELSE IF IsReturn(k) THEN (IF g_cur_stack > 0 THEN g_cur_stack - 1 ELSE 0)
                    ELSE g_cur_stack)
  BY <1>1, LowestStep DEF Printed
<1>4. g_cur_stack' = IF IsCall(k) THEN g_cur_stack + 1
                     ELSE IF IsReturn(k) THEN (IF g_cur_stack > 0 THEN g_cur_stack - 1 ELSE 0)
                     ELSE g_cur_stack
  BY <1>1, <1>2
<1>5. g_cur_stack' <= k + 1 - Begin
  BY <1>1, <1>2
<1> QED
  BY <1>2, <1>3, <1>4, <1>5

\* The events named up to the next position.
LEMMA NamedNext ==
  ASSUME Begin \in Nat, NEW k \in Nat, Begin <= k
  PROVE  NamedEvents(Begin, k + 1) =
           IF KnownAddress(session.instr[k].addr_func)
           THEN NamedEvents(Begin, k) \cup {k} ELSE NamedEvents(Begin, k)
  BY DEF NamedEvents, KnownAddress

\* With all events in modules, the one at k is too.
LEMMA EventNamed ==
  ASSUME session \in Sessions, AllNamed, NEW k \in 1 .. Size, session.instr[k].addr_func # NULL
  PROVE  KnownAddress(session.instr[k].addr_func)
<1>1. k \in NamedEvents(1, Len(session.instr) + 1)
  BY DEF AllNamed, Size
<1> QED
  BY <1>1 DEF NamedEvents, KnownAddress

\* The indentation of the line that the event at k adds.
LEMMA IndentHere ==
  ASSUME Inv, Printed, ReplayStep, NEW line \in OutLine, line.at = cursor.pos, bars = 0,
         session.instr[cursor.pos].addr_func # NULL,
         line.ret <=> session.instr[cursor.pos].addr_ret = NULL,
         line.bars = LineBars(session.instr[cursor.pos].addr_ret)
  PROVE  line.bars = AllIndentOf(line)
<1> DEFINE k == cursor.pos
<1>1. g_cur_stack \in Nat /\ k \in Nat /\ Begin \in Nat /\ Begin <= k /\ g_cur_stack <= k - Begin
  BY SessionType DEF Inv, Types, Printed
<1>2. CASE session.instr[k].addr_ret # NULL
  <2>1. AllDepthFromOutermost(k) = g_cur_stack
    BY <1>1, LowestIsDepth DEF Printed
  <2> QED
    BY <1>1, <1>2, <2>1 DEF AllIndentOf, LineBars
<1>3. CASE session.instr[k].addr_ret = NULL
  <2>1. g_cur_stack' = IF g_cur_stack > 0 THEN g_cur_stack - 1 ELSE 0
    BY <1>1, <1>3, LevelStep DEF IsCall, IsReturn
  <2>2. Lowest(k + 1, g_cur_stack') /\ g_cur_stack' \in 0 .. k + 1
    BY <1>1, <2>1, LevelStep
  <2>3. AllDepthFromOutermost(k + 1) = g_cur_stack'
    BY <1>1, <2>2, LowestIsDepth
  <2> QED
    BY <1>1, <1>3, <2>1, <2>3 DEF AllIndentOf, LineBars
<1> QED
  BY <1>2, <1>3

LEMMA PrintedStep == ASSUME Inv, Tree, ReplayStep, pc = "chunk" PROVE Printed'
<1> DEFINE k == cursor.pos
           e == session.instr[cursor.pos]
<1>1. Printed
  BY DEF Tree
<1>2. /\ session' = session /\ g_moduleinfo' = g_moduleinfo /\ cursor'.pos = k + 1
      /\ k \in 1 .. Size /\ k \in Nat \ {0} /\ Begin \in Nat /\ Begin \in 1 .. k
      /\ session \in Sessions
  BY <1>1, ReplayStepEffect, SessionType DEF Inv, Types, Printed
<1>3. Begin' = Begin /\ (ListBuilt' <=> ListBuilt) /\ (AllNamed' <=> AllNamed)
      /\ NamedEvents(Begin, cursor.pos)' = NamedEvents(Begin, k + 1)
  BY <1>2, SameSession DEF ListBuilt, NamedEvents
<1>4. Lowest(cursor.pos, g_cur_stack)'
  <2>1. Lowest(k + 1, g_cur_stack')
    BY <1>1, LevelStep
  <2>2. \A i : AllDepth(i)' = AllDepth(i)
    BY <1>2, <1>3 DEF AllDepth, AllCalls, AllReturns
  <2> QED
    BY <1>2, <1>3, <2>1, <2>2 DEF Lowest
<1>5. g_cur_stack' <= cursor'.pos - Begin
  BY <1>1, <1>2, LevelStep
<1>6. \A n : AllIndentOf(out[n])' = AllIndentOf(out'[n])
  <2>1. \A line : AllIndentOf(line)' = AllIndentOf(line)
    BY <1>2, SameSession
  <2> QED
    BY <2>1 DEF AllIndentOf
<1>7. CASE e.addr_func = NULL
  <2>1. UNCHANGED <<g_cur_stack, bars, out>>
    BY <1>7 DEF ReplayStep, tree
  <2>2. NamedEvents(Begin, k + 1) = NamedEvents(Begin, k)
    <3>1. ~ KnownAddress(e.addr_func)
      BY <1>2, <1>7, NullIsNowhere
    <3>2. k \in Nat /\ Begin \in Nat /\ Begin <= k
      BY <1>2
    <3> QED
      BY <3>1, <3>2, NamedNext
  <2>3. OutAt' = NamedEvents(Begin, k + 1)
    BY <1>1, <2>1, <2>2 DEF Printed, OutAt
  <2>4. AllNamed => bars' = 0 /\ \A n \in 1 .. Len(out') : out'[n].bars = AllIndentOf(out'[n])
    BY <1>1, <2>1 DEF Printed
  <2> QED
    BY <1>1, <1>2, <1>3, <1>4, <1>5, <1>6, <2>3, <2>4 DEF Printed
<1>8. CASE e.addr_func # NULL
  <2>1. callCallback_tree(e.addr_func, e.addr_ret, k)
    BY <1>8 DEF ReplayStep
  <2>2. e.addr_func \in GuestAddress
    BY <1>2, <1>8, SessionType
  <2>3. ListBuilt
    BY <1>1 DEF Printed
  <2>4. CASE UnknownModule(e.addr_func) /\ out' = out
    <3>1. NamedEvents(Begin, k + 1) = NamedEvents(Begin, k)
      <4>1. ~ KnownAddress(e.addr_func)
        BY <1>2, <2>2, <2>3, <2>4, KnownModule
      <4>2. k \in Nat /\ Begin \in Nat /\ Begin <= k
        BY <1>2
      <4> QED
        BY <4>1, <4>2, NamedNext
    <3>2. OutAt' = NamedEvents(Begin, k + 1)
      BY <1>1, <2>4, <3>1 DEF Printed, OutAt
    <3>3. ~ AllNamed
      BY <1>2, <1>8, <2>2, <2>3, <2>4, EventNamed, KnownModule
    <3> QED
      BY <1>1, <1>2, <1>3, <1>4, <1>5, <3>2, <3>3 DEF Printed
  <2>5. CASE /\ ~ UnknownModule(e.addr_func)
             /\ bars' = 0
             /\ \E line \in OutLine :
                  /\ line.at = k
                  /\ line.ret <=> e.addr_ret = NULL
                  /\ line.bars = LineBars(e.addr_ret)
                  /\ out' = Append(out, line)
    <3>1. PICK line \in OutLine :
            /\ line.at = k
            /\ line.ret <=> e.addr_ret = NULL
            /\ line.bars = LineBars(e.addr_ret)
            /\ out' = Append(out, line)
      BY <2>5
    <3>2. NamedEvents(Begin, k + 1) = NamedEvents(Begin, k) \cup {k}
      <4>1. KnownAddress(e.addr_func)
        BY <1>2, <2>2, <2>3, <2>5, KnownModule
      <4>2. k \in Nat /\ Begin \in Nat /\ Begin <= k
        BY <1>2
      <4> QED
        BY <4>1, <4>2, NamedNext
    <3>3. /\ Len(out) \in Nat
          /\ Len(out') = Len(out) + 1
          /\ out'[Len(out) + 1] = line
          /\ \A n \in 1 .. Len(out) : out'[n] = out[n]
      BY <3>1, LineAdded DEF Inv, Types
    <3>4. OutAt' = OutAt \cup {k}
      BY <3>1, <3>3 DEF OutAt
    <3>5. OutAt' = NamedEvents(Begin, k + 1)
      BY <1>1, <3>2, <3>4 DEF Printed
    <3>6. ASSUME AllNamed
          PROVE  \A n \in 1 .. Len(out') : out'[n].bars = AllIndentOf(out'[n])
      <4>1. bars = 0 /\ \A n \in 1 .. Len(out) : out[n].bars = AllIndentOf(out[n])
        BY <1>1, <3>6 DEF Printed
      <4>2. line.bars = AllIndentOf(line)
        BY <1>1, <1>8, <3>1, <4>1, IndentHere
      <4> QED
        BY <3>3, <4>1, <4>2
    <3> QED
      BY <1>1, <1>2, <1>3, <1>4, <1>5, <1>6, <2>5, <3>5, <3>6 DEF Printed
  <2> HIDE DEF e
  <2> QED
    BY <1>2, <2>1, <2>2, <2>4, <2>5, CallbackPrints
<1> QED
  BY <1>7, <1>8

-----------------------------------------------------------------------------
(* One lemma for each action, given Inv before and after it. *)

LEMMA InitTree == Init => Tree
  BY DEF Init, Tree

LEMMA ArgsTree == ASSUME Inv, Tree, Args PROVE Tree'
<1>1. PICK position \in 1 .. Size : StartAt(position) /\ cursor' = SetPosition(cursor, position)
  BY DEF Args, Size
<1>2. /\ pc = "args" /\ pc' = "modules" /\ session' = session
      /\ g_cur_stack' = g_cur_stack /\ bars' = bars /\ session \in Sessions
  BY DEF Args, tree, Inv, Types
<1>3. Begin = position
  BY <1>1, <1>2, StartIsBegin
<1>4. cursor'.pos = position
  BY <1>1 DEF Inv, Types, SetPosition, CursorType
<1>5. Begin' = Begin
  BY <1>2, SameSession
<1> QED
  BY <1>2, <1>3, <1>4, <1>5 DEF Tree

LEMMA ModulesTree == ASSUME Inv, Tree, Modules PROVE Tree'
<1>1. /\ pc = "modules" /\ pc' = "loop" /\ session' = session
      /\ g_cur_stack' = g_cur_stack /\ bars' = bars /\ out' = out
      /\ cursor' = SetCallReturnCallback(cursor, 0)
      /\ g_moduleinfo' = [n \in 1 .. Len(session.modules) |->
                            session.modules[Len(session.modules) + 1 - n]]
  BY DEF Modules, tree, counters
<1>2. /\ cursor.pos = Begin /\ g_cur_stack = 0 /\ bars = 0 /\ out = <<>>
      /\ cursor.pos \in Nat \ {0}
  BY <1>1 DEF Tree, Inv, Ordered, Types, CursorType
<1>3. cursor'.pos = cursor.pos
  BY <1>1 DEF SetCallReturnCallback, Inv, Types, CursorType
<1>4. Begin' = Begin /\ (AllNamed' <=> AllNamed)
      /\ NamedEvents(Begin, cursor.pos)' = NamedEvents(Begin, Begin)
      /\ (Lowest(cursor.pos, g_cur_stack)' <=> Lowest(Begin, 0))
  <2>1. \A k : AllDepth(k)' = AllDepth(k)
    BY <1>1, SameSession DEF AllDepth, AllCalls, AllReturns
  <2> QED
    BY <1>1, <1>2, <1>3, <2>1, SameSession DEF NamedEvents, Lowest
<1>5. Lowest(Begin, 0)
  <2>1. Begin \in Nat
    BY <1>2
  <2>2. Begin \in Begin .. Begin /\ \A i \in Begin .. Begin : i = Begin
    BY <2>1
  <2>3. AllDepth(Begin) = 0
    BY <2>1, DepthStart
  <2> QED
    BY <2>2, <2>3 DEF Lowest
<1>6. NamedEvents(Begin, Begin) = {}
  BY <1>2 DEF NamedEvents
<1>7. OutAt' = {} /\ Len(out') = 0
  BY <1>1, <1>2 DEF OutAt
<1>8. ListBuilt'
  BY <1>1 DEF ListBuilt
<1>9. Printed'
  BY <1>1, <1>2, <1>3, <1>4, <1>5, <1>6, <1>7, <1>8 DEF Printed
<1> QED
  BY <1>1, <1>9 DEF Tree

\* What is printed stays printed, whatever is done without a step.
LEMMA PrintedKept ==
  ASSUME Printed, UNCHANGED <<session, g_moduleinfo, g_cur_stack, bars, out>>,
         cursor'.pos = cursor.pos
  PROVE  Printed'
<1>1. /\ Begin' = Begin /\ (AllNamed' <=> AllNamed)
      /\ NamedEvents(Begin, cursor.pos)' = NamedEvents(Begin, cursor.pos)
      /\ \A n : AllIndentOf(out[n])' = AllIndentOf(out[n])
      /\ OutAt' = OutAt /\ (ListBuilt' <=> ListBuilt)
  <2>1. \A line : AllIndentOf(line)' = AllIndentOf(line)
    BY SameSession
  <2> QED
    BY <2>1, SameSession DEF NamedEvents, OutAt, ListBuilt, AllIndentOf
<1>2. Lowest(cursor.pos, g_cur_stack)'
  <2>1. \A k : AllDepth(k)' = AllDepth(k)
    BY <1>1 DEF AllDepth, AllCalls, AllReturns
  <2> QED
    BY <1>1, <2>1 DEF Printed, Lowest
<1> QED
  BY <1>1, <1>2 DEF Printed

LEMMA ChunkTree == ASSUME Inv, Tree, Chunk \/ FullChunk PROVE Tree'
<1>1. /\ pc \in {"loop", "chunk"} /\ pc' \in {"loop", "chunk"}
      /\ UNCHANGED <<session, g_moduleinfo, g_cur_stack, bars, out>>
      /\ cursor' = ReplayForward(cursor, STEP_COUNT) \/ cursor' = cursor
  BY DEF Chunk, FullChunk, tree
<1>2. cursor'.pos = cursor.pos
  BY <1>1 DEF ReplayForward, Inv, Types, CursorType
<1>3. Printed'
  BY <1>1, <1>2, PrintedKept DEF Tree
<1> QED
  BY <1>1, <1>3 DEF Tree

\* The chunk that comes back short has got to the end.
LEMMA ShortChunkTree == ASSUME Inv, Tree, ShortChunk PROVE Tree'
<1>1. /\ pc = "chunk" /\ pc' = "tail" /\ ~ CanStep(cursor, end) /\ StepsMade < STEP_COUNT
      /\ UNCHANGED <<session, end, out>>
  BY DEF ShortChunk, tree
<1>2. cursor.todo # 0
  BY <1>1, Numbers DEF Inv, Counts, StepsMade
<1>3. end <= cursor.pos
  BY <1>1, <1>2, Numbers DEF CanStep
<1>4. OutAt = NamedEvents(Begin, cursor.pos) /\ Begin \in 1 .. cursor.pos
  BY <1>1 DEF Tree, Printed
<1>5. NamedEvents(Begin, end) \subseteq OutAt
  <2>1. Begin \in Int /\ end \in Int /\ cursor.pos \in Int
    BY <1>4, Numbers
  <2>2. NamedEvents(Begin, end) \subseteq NamedEvents(Begin, cursor.pos)
    BY <1>3, <2>1 DEF NamedEvents
  <2> QED
    BY <1>4, <2>2
<1>6. NamedEvents(Begin, end)' = NamedEvents(Begin, end) /\ OutAt' = OutAt
  BY <1>1, SameSession DEF NamedEvents, OutAt
<1> QED
  BY <1>1, <1>5, <1>6 DEF Tree

\* The second replay of the last chunk takes no line away.
LEMMA TailTree == ASSUME Inv, Tree, ReplayStep, pc = "tail" PROVE Tree'
<1>1. /\ UNCHANGED <<session, end, pc>>
      /\ \/ out' = out
         \/ \E line \in OutLine : line.at = cursor.pos /\ out' = Append(out, line)
  BY ReplayStepEffect
<1>2. OutAt \subseteq OutAt'
  <2>1. CASE out' = out
    BY <2>1 DEF OutAt
  <2>2. CASE \E line \in OutLine : line.at = cursor.pos /\ out' = Append(out, line)
    <3>1. Len(out) \in Nat /\ Len(out') = Len(out) + 1 /\ \A n \in 1 .. Len(out) : out'[n] = out[n]
      BY <2>2, LineAdded
    <3> QED
      BY <3>1 DEF OutAt
  <2> QED
    BY <1>1, <2>1, <2>2
<1>3. NamedEvents(Begin, end)' = NamedEvents(Begin, end)
  BY <1>1, SameSession DEF NamedEvents
<1> QED
  BY <1>1, <1>2, <1>3 DEF Tree

LEMMA FinishTree == ASSUME Inv, Tree, Finish PROVE Tree'
<1>1. /\ pc = "tail" /\ pc' = "done"
      /\ UNCHANGED <<session, end, out>>
  BY DEF Finish, tree
<1>2. NamedEvents(Begin, end)' = NamedEvents(Begin, end) /\ OutAt' = OutAt
  BY <1>1, SameSession DEF NamedEvents, OutAt
<1> QED
  BY <1>1, <1>2 DEF Tree

LEMMA StutterTree == ASSUME Inv, Tree, UNCHANGED vars PROVE Tree'
<1>1. /\ UNCHANGED <<session, end, g_moduleinfo, g_cur_stack, bars, out, pc>>
      /\ cursor' = cursor
  BY DEF vars
<1>2. Begin' = Begin /\ NamedEvents(Begin, end)' = NamedEvents(Begin, end) /\ OutAt' = OutAt
  BY <1>1, SameSession DEF NamedEvents, OutAt
<1>3. Printed => Printed'
  BY <1>1, PrintedKept
<1> QED
  BY <1>1, <1>2, <1>3 DEF Tree

THEOREM CallTreeTree == Spec => []Tree
<1>1. ASSUME Inv, Tree, [Next]_vars PROVE Tree'
  <2>1. CASE BadArgs
    BY <2>1 DEF BadArgs, Tree
  <2>2. CASE Args \/ Modules
    BY <1>1, <2>2, ArgsTree, ModulesTree
  <2>3. CASE Chunk \/ FullChunk \/ ShortChunk
    BY <1>1, <2>3, ChunkTree, ShortChunkTree
  <2>4. CASE ReplayStep
    <3>1. pc \in {"chunk", "tail"} /\ pc' = pc
      BY <2>4 DEF ReplayStep
    <3>2. CASE pc = "chunk"
      BY <1>1, <2>4, <3>1, <3>2, PrintedStep DEF Tree
    <3>3. CASE pc = "tail"
      BY <1>1, <2>4, <3>3, TailTree
    <3> QED
      BY <3>1, <3>2, <3>3
  <2>5. CASE Finish
    BY <1>1, <2>5, FinishTree
  <2>6. CASE Stopped \/ UNCHANGED vars
    BY <1>1, <2>6, StutterTree DEF Stopped
  <2> QED
    BY <1>1, <2>1, <2>2, <2>3, <2>4, <2>5, <2>6 DEF Next
<1> QED
  BY InitTree, <1>1, CallTreeInv, PTL DEF Spec

\* Across chunks, for any recording, options and chunk size, the tree has one line
\* for each call and return of the modules, in order, until the
\* last chunk is replayed again, and at the end none of the range is missing.  A line
\* is indented by the depth of its thread, if only that thread called and returned.
THEOREM TreeIsExact == Spec => []TreeExact
<1>1. Inv /\ Tree => TreeExact
  <2> SUFFICES ASSUME Inv, Tree PROVE TreeExact
    OBVIOUS
  <2>1. ASSUME pc \in {"loop", "chunk"}
        PROVE  /\ AllNamed => \A n \in 1 .. Len(out) :
                    OneThreadUntil(out[n]) => out[n].bars = IndentOf(out[n])
               /\ \A m, n \in 1 .. Len(out) : m < n => out[m].at < out[n].at
               /\ {out[n].at : n \in 1 .. Len(out)} = NamedEvents(Begin, cursor.pos)
    <3>1. /\ AllNamed => \A n \in 1 .. Len(out) : out[n].bars = AllIndentOf(out[n])
          /\ \A m, n \in 1 .. Len(out) : m < n => out[m].at < out[n].at
          /\ {out[n].at : n \in 1 .. Len(out)} = NamedEvents(Begin, cursor.pos)
      BY <2>1 DEF Tree, Printed, Inv, Ordered, OutAt
    <3>2. Begin \in Nat
      BY <2>1, SessionType DEF Tree, Printed, Inv, Types
    <3>3. \A n \in 1 .. Len(out) : out[n].at \in Nat
      <4> SUFFICES ASSUME NEW n \in 1 .. Len(out) PROVE out[n].at \in Nat
        OBVIOUS
      <4>1. out \in Seq(OutLine)
        BY DEF Inv, Types
      <4>2. out[n] \in OutLine
        BY <4>1
      <4> QED
        BY <4>2 DEF OutLine
    <3> QED
      BY <3>1, <3>2, <3>3, OneThreadIndent
  <2>2. pc = "done" => NamedEvents(Begin, end) \subseteq {out[n].at : n \in 1 .. Len(out)}
    BY DEF Tree, OutAt
  <2> QED
    BY <2>1, <2>2 DEF TreeExact
<1> QED
  BY <1>1, CallTreeInv, CallTreeTree, PTL
-----------------------------------------------------------------------------
(* Every step brings the end closer. *)

\* Where main() is; it never goes back to an earlier phase.
Phase ==
  IF pc = "args" THEN 4
  ELSE IF pc = "modules" THEN 3
  ELSE IF pc \in {"loop", "chunk"} THEN 2
  ELSE IF pc = "tail" THEN 1
  ELSE 0

\* The instructions after the cursor.
Left == Len(session.instr) - cursor.pos

\* From a complete chunk to the loop, and from there into a chunk that has
\* steps to make.
Turn == IF pc = "chunk" /\ cursor.todo = 0 THEN 3 ELSE IF pc = "loop" THEN 2 ELSE 1

\* The lexicographic order of (Phase, Left, Turn).
Closer ==
  \/ Phase' < Phase
  \/ Phase' = Phase /\ Left' < Left
  \/ Phase' = Phase /\ Left' = Left /\ Turn' < Turn

Measured == Phase \in Nat /\ Left \in Nat /\ Turn \in Nat

LEMMA MeasureType == Inv => Measured
<1> SUFFICES ASSUME Inv PROVE Measured
  OBVIOUS
<1>1. Size \in Nat /\ cursor.pos \in 1 .. Size
  BY SessionType DEF Inv, Types
<1> QED
  BY <1>1 DEF Measured, Phase, Left, Turn, Size

LEMMA PhaseEnds ==
  ASSUME Inv, BadArgs \/ Args \/ Modules \/ ShortChunk \/ Finish PROVE Phase' < Phase
  BY DEF BadArgs, Args, Modules, ShortChunk, Finish, Phase

\* A chunk that is entered has steps to make, so that it is complete only after
\* at least one.
LEMMA ChunkCloser == ASSUME Inv, Chunk PROVE Closer
<1>1. /\ pc = "loop" /\ pc' = "chunk" /\ session' = session
      /\ cursor' = ReplayForward(cursor, STEP_COUNT)
  BY DEF Chunk
<1>2. cursor'.pos = cursor.pos /\ cursor'.todo # 0
  BY <1>1, ReplayForwardType, StepCountAssumption DEF Inv, Types
<1> QED
  BY <1>1, <1>2 DEF Closer, Phase, Left, Turn

LEMMA FullChunkCloser == ASSUME Inv, FullChunk PROVE Closer
<1>1. pc = "chunk" /\ pc' = "loop" /\ session' = session /\ cursor' = cursor
  BY DEF FullChunk
<1>2. cursor.todo = 0
  BY <1>1, StepCountAssumption DEF FullChunk, StepsMade, Inv, Counts
<1> QED
  BY <1>1, <1>2 DEF Closer, Phase, Left, Turn

LEMMA ReplayStepCloser == ASSUME Inv, ReplayStep PROVE Closer
<1>1. pc' = pc /\ session' = session /\ cursor' = Step(session.instr, cursor)
  BY DEF ReplayStep, counters
<1>2. CanStep(cursor, end) /\ cursor \in CursorType /\ end \in Nat
  BY SessionType DEF ReplayStep, Inv, Types
<1>3. cursor'.pos = cursor.pos + 1
  BY <1>1, <1>2, StepType
<1>4. Size \in Nat /\ cursor.pos \in Nat
  BY SessionType DEF Inv, Types
<1>5. Phase' = Phase
  BY <1>1 DEF Phase
<1>6. Left' < Left
  BY <1>1, <1>3, <1>4 DEF Left, Size
<1> QED
  BY <1>5, <1>6 DEF Closer

\* Whatever the recording and the chunk size, each step brings main() closer to
\* its end in an order that no run can descend for ever (MeasureType): the loop
\* is not entered again without an instruction replayed, and going back to
\* LastPosition happens once.
THEOREM RunsOut == Spec => [][Closer]_vars
<1>1. ASSUME Inv, [Next]_vars PROVE [Closer]_vars
  <2>1. CASE BadArgs \/ Args \/ Modules \/ ShortChunk \/ Finish
    BY <1>1, <2>1, PhaseEnds DEF Closer
  <2>2. CASE Chunk
    BY <1>1, <2>2, ChunkCloser
  <2>3. CASE FullChunk
    BY <1>1, <2>3, FullChunkCloser
  <2>4. CASE ReplayStep
    BY <1>1, <2>4, ReplayStepCloser
  <2>5. CASE Stopped \/ UNCHANGED vars
    BY <2>5 DEF Stopped
  <2> QED
    BY <1>1, <2>1, <2>2, <2>3, <2>4, <2>5 DEF Next
<1> QED
  BY MeasureType, <1>1, CallTreeInv, PTL DEF Spec
=============================================================================
