------------------------------- MODULE CallTree -------------------------------
(***************************************************************************)
(* src/example_calltree/main.cpp: replay a part of a recording and print a *)
(* line for every call and every return, indented by the depth of the call *)
(* stack.  The replay is done in chunks of STEP_COUNT instructions; the    *)
(* chunk that comes back short is rolled back to its start and replayed    *)
(* without its last instruction.                                           *)
(*                                                                         *)
(* A session is a recording with the command line: the instructions (as in *)
(* Recording, with the thread that executes each), the thread creations,   *)
(* the modules as GetModuleList returns them, and the options -b, -e, -t   *)
(* (NULL when absent; tid_list is -t list).                                *)
(*                                                                         *)
(* An action is the code from one call of ReplayForward to the next, or    *)
(* one instruction replayed inside such a call with its callback.          *)
(***************************************************************************)
EXTENDS Cursor, FiniteSets

CONSTANTS
  Sessions,
  STEP_COUNT,  \* instructions per chunk
  Word         \* 2^64, the number of values of an unsigned __int64

Module == [base_addr : GuestAddress, imageSize : Nat]

Session ==
  [ instr : Seq([ pc : GuestAddress, addr_func : GuestAddress \cup {NULL},
                  addr_ret : GuestAddress \cup {NULL}, tid : Nat ]) \ {<<>>},
    threads : Seq([tid : Nat, pos : Nat \ {0}]),
    modules : Seq(Module),
    begin_arg : Nat, end_arg : Nat, tid_arg : Nat, tid_list : BOOLEAN ]

ASSUME SessionsAssumption ==
  /\ NULL = 0
  /\ GuestAddress \subseteq Nat
  /\ Sessions \subseteq Session
  /\ \A s \in Sessions :
       /\ s.begin_arg \in 0 .. Len(s.instr)
       /\ s.end_arg \in 0 .. Len(s.instr)
       /\ \A n \in 1 .. Len(s.threads) : s.threads[n].pos \in 1 .. Len(s.instr)

ASSUME StepCountAssumption ==
  /\ STEP_COUNT \in Nat \ {0}
  /\ Word \in Nat
  /\ STEP_COUNT < Word

VARIABLES
  session,
  cursor,          \* ttdcursor
  end,             \* where the replay stops
  g_moduleinfo,    \* the linked list of modules, as a sequence
  g_cur_stack,     \* indentation level
  bars,            \* bars printed on the current line so far
  out,             \* the finished lines
  LastPosition,    \* NULL: uninitialized
  stepCount,
  totalStepCount,
  pc               \* where main() is

vars == <<session, cursor, end, g_moduleinfo, g_cur_stack, bars, out,
          LastPosition, stepCount, totalStepCount, pc>>

tree == <<g_cur_stack, bars, out>>
counters == <<LastPosition, stepCount, totalStepCount>>

\* A line: its bars, whether it is a return, the address and position of the
\* event, and the module printed with it.
OutLine ==
  [ bars : Nat, ret : BOOLEAN, addr : GuestAddress, at : Nat \ {0}, module : Module ]

TypeOK ==
  /\ session \in Session
  /\ cursor \in CursorType
  /\ cursor.pos <= Len(session.instr)
  /\ end \in 0 .. Len(session.instr)
  /\ g_moduleinfo \in Seq(Module)
  /\ g_cur_stack \in Nat
  /\ bars \in Nat
  /\ out \in Seq(OutLine)
  /\ LastPosition \in 0 .. Len(session.instr)
  /\ stepCount \in 0 .. STEP_COUNT
  /\ totalStepCount \in 0 .. Word - 1
  /\ pc \in {"args", "modules", "loop", "chunk", "tail", "done", "exit"}

Init ==
  /\ session \in Sessions
  /\ cursor = NewCursor
  /\ end = 0
  /\ g_moduleinfo = <<>>
  /\ g_cur_stack = 0
  /\ bars = 0
  /\ out = <<>>
  /\ LastPosition = NULL
  /\ stepCount = 0
  /\ totalStepCount = 0
  /\ pc = "args"

-----------------------------------------------------------------------------
(* The command line. *)

\* Where thread tid was created first (tid_pos).
ThreadStart(tid, position) ==
  \E n \in 1 .. Len(session.threads) :
    /\ session.threads[n] = [tid |-> tid, pos |-> position]
    /\ \A j \in 1 .. n - 1 : session.threads[j].tid # tid

KnownThread(tid) == \E n \in 1 .. Len(session.threads) : session.threads[n].tid = tid

\* -t list, a thread that does not exist, and -t with -b end the program.
BadArgs ==
  /\ pc = "args"
  /\ \/ session.tid_list
     \/ session.tid_arg # NULL /\ ~ KnownThread(session.tid_arg)
     \/ session.tid_arg # NULL /\ session.begin_arg # NULL
  /\ pc' = "exit"
  /\ UNCHANGED <<session, cursor, end, g_moduleinfo, tree, counters>>

StartAt(position) ==
  /\ ~ session.tid_list
  /\ IF session.tid_arg # NULL
     THEN session.begin_arg = NULL /\ ThreadStart(session.tid_arg, position)
     ELSE position = (IF session.begin_arg # NULL THEN session.begin_arg ELSE 1)

\* Set the cursor, and where to stop.
Args ==
  /\ pc = "args"
  /\ \E position \in 1 .. Len(session.instr) :
       /\ StartAt(position)
       /\ cursor' = SetPosition(cursor, position)
  /\ end' = IF session.end_arg # NULL THEN session.end_arg
            ELSE GetLastPosition(session.instr)
  /\ pc' = "modules"
  /\ UNCHANGED <<session, g_moduleinfo, tree, counters>>

\* Each module is put in front of the list; then the callback is registered.
Modules ==
  /\ pc = "modules"
  /\ g_moduleinfo' = [n \in 1 .. Len(session.modules) |->
                        session.modules[Len(session.modules) + 1 - n]]
  /\ cursor' = SetCallReturnCallback(cursor, 0)
  /\ pc' = "loop"
  /\ UNCHANGED <<session, end, tree, counters>>

-----------------------------------------------------------------------------
(* The callback. *)

InModule(addr, m) == m.base_addr <= addr /\ addr < m.base_addr + m.imageSize

\* The first module of the list that addr is in.
FindModule(addr, m) ==
  \E n \in 1 .. Len(g_moduleinfo) :
    /\ m = g_moduleinfo[n]
    /\ InModule(addr, m)
    /\ \A j \in 1 .. n - 1 : ~ InModule(addr, g_moduleinfo[j])

UnknownModule(addr) == \A n \in 1 .. Len(g_moduleinfo) : ~ InModule(addr, g_moduleinfo[n])

\* Mutation: off by one at the outermost level.
Level_Sticky(ret) == IF ret /\ g_cur_stack > 1 THEN g_cur_stack - 1 ELSE g_cur_stack

\* The level the line is printed at.  A return below level 0 prints the
\* PRE-START banner on lines of its own (the banner is not in out) and starts
\* again from 0.
Level(ret) == IF ret /\ g_cur_stack > 0 THEN g_cur_stack - 1 ELSE g_cur_stack

\* Bars left on the line by an event of an unknown module are still there.
BarsFor(ret) ==
  (IF ret /\ g_cur_stack = 0 THEN 0 ELSE bars) + Level(ret)

callCallback_tree(addr_func, addr_ret, position) ==
  LET ret == addr_ret = NULL
  IN  /\ g_cur_stack' = IF ret THEN Level(ret) ELSE Level(ret) + 1
      /\ \/ /\ UnknownModule(addr_func)
            /\ bars' = BarsFor(ret)
            /\ UNCHANGED out
         \/ \E n \in 1 .. Len(g_moduleinfo) :
              /\ FindModule(addr_func, g_moduleinfo[n])
              /\ bars' = 0
              /\ out' = Append(out, [ bars |-> BarsFor(ret), ret |-> ret, addr |-> addr_func,
                                      at |-> position, module |-> g_moduleinfo[n] ])

\* The engine replays one instruction for ReplayForward(&replayrez, &end, n).
ReplayStep ==
  /\ pc \in {"chunk", "tail"}
  /\ CanStep(cursor, end)
  /\ cursor' = Step(session.instr, cursor)
  /\ LET e == session.instr[cursor.pos]
     IN  IF e.addr_func = NULL THEN UNCHANGED tree
         ELSE callCallback_tree(e.addr_func, e.addr_ret, cursor.pos)
  /\ UNCHANGED <<session, end, g_moduleinfo, counters, pc>>

-----------------------------------------------------------------------------
(* The main loop. *)

Chunk ==
  /\ pc = "loop"
  /\ cursor' = ReplayForward(cursor, STEP_COUNT)
  /\ pc' = "chunk"
  /\ UNCHANGED <<session, end, g_moduleinfo, tree, counters>>

\* replayrez.stepCount of the replay that has returned.
StepsMade == STEP_COUNT - cursor.todo

\* Mutation: only the first chunk is remembered.
FullChunk_FirstOnly ==
  /\ pc = "chunk"
  /\ ~ CanStep(cursor, end)
  /\ StepsMade = STEP_COUNT
  /\ stepCount' = StepsMade
  /\ totalStepCount' = (totalStepCount + StepsMade) % Word
  /\ LastPosition' = IF LastPosition = NULL THEN cursor.pos ELSE LastPosition
  /\ pc' = "loop"
  /\ UNCHANGED <<session, cursor, end, g_moduleinfo, tree>>

\* All of the chunk was replayed: remember where it ended.
FullChunk ==
  /\ pc = "chunk"
  /\ ~ CanStep(cursor, end)
  /\ StepsMade = STEP_COUNT
  /\ stepCount' = StepsMade
  /\ totalStepCount' = (totalStepCount + StepsMade) % Word
  /\ LastPosition' = cursor.pos
  /\ pc' = "loop"
  /\ UNCHANGED <<session, cursor, end, g_moduleinfo, tree>>

\* Mutation: the last instruction is replayed again too.
OneLess_Same(n) == n

\* stepCount - 1 as an unsigned __int64; more than a recording has is NO_LIMIT.
OneLess(n) == IF n = 0 THEN NO_LIMIT ELSE n - 1

\* What SetPosition(&LastPosition) may do: an uninitialized position is
\* anywhere.
RollbackTo == IF LastPosition = NULL THEN 1 .. Len(session.instr) ELSE {LastPosition}

\* Mutation: the break is missing.
ShortChunk_GoesOn ==
  /\ pc = "chunk"
  /\ ~ CanStep(cursor, end)
  /\ StepsMade < STEP_COUNT
  /\ stepCount' = StepsMade
  /\ totalStepCount' = (totalStepCount + StepsMade) % Word
  /\ \E position \in RollbackTo :
       cursor' = ReplayForward(SetPosition(cursor, position), OneLess(StepsMade))
  /\ pc' = "loop"
  /\ UNCHANGED <<session, end, g_moduleinfo, tree, LastPosition>>

\* The end was reached: back to the start of the chunk, and again up to the
\* instruction before.
ShortChunk ==
  /\ pc = "chunk"
  /\ ~ CanStep(cursor, end)
  /\ StepsMade < STEP_COUNT
  /\ stepCount' = StepsMade
  /\ totalStepCount' = (totalStepCount + StepsMade) % Word
  /\ \E position \in RollbackTo :
       cursor' = ReplayForward(SetPosition(cursor, position), OneLess(StepsMade))
  /\ pc' = "tail"
  /\ UNCHANGED <<session, end, g_moduleinfo, tree, LastPosition>>

\* Mutation: a total that is not unsigned.
Finish_Signed ==
  /\ pc = "tail"
  /\ ~ CanStep(cursor, end)
  /\ totalStepCount' = totalStepCount + stepCount - 1
  /\ pc' = "done"
  /\ UNCHANGED <<session, cursor, end, g_moduleinfo, tree, LastPosition, stepCount>>

Finish ==
  /\ pc = "tail"
  /\ ~ CanStep(cursor, end)
  /\ totalStepCount' = (totalStepCount + stepCount + Word - 1) % Word
  /\ pc' = "done"
  /\ UNCHANGED <<session, cursor, end, g_moduleinfo, tree, LastPosition, stepCount>>

Stopped == pc \in {"done", "exit"} /\ UNCHANGED vars

Next ==
  \/ BadArgs
  \/ Args
  \/ Modules
  \/ Chunk
  \/ ReplayStep
  \/ FullChunk
  \/ ShortChunk
  \/ Finish
  \/ Stopped

Spec == Init /\ [][Next]_vars

\* A single thread that the scheduler keeps running.
FairSpec == Spec /\ WF_vars(Next)
-----------------------------------------------------------------------------
(* What the printed tree should look like, from the recording alone. *)

Begin == CHOOSE position \in 1 .. Len(session.instr) : StartAt(position)

\* The calls and the returns of a thread up to a position.
Calls(k, tid) ==
  {j \in Begin .. k - 1 : /\ session.instr[j].addr_func # NULL /\ session.instr[j].addr_ret # NULL
                          /\ session.instr[j].tid = tid}
Returns(k, tid) ==
  {j \in Begin .. k - 1 : /\ session.instr[j].addr_func # NULL /\ session.instr[j].addr_ret = NULL
                          /\ session.instr[j].tid = tid}

\* Calls minus returns of the thread from the start to position k; negative after a
\* return from a function that was entered before the start.
Depth(k, tid) == Cardinality(Calls(k, tid)) - Cardinality(Returns(k, tid))

\* Level 0 is the outermost function of the thread left so far.
DepthFromOutermost(k, tid) ==
  CHOOSE d \in 0 .. k : \E j \in Begin .. k :
    d = Depth(k, tid) - Depth(j, tid) /\ \A i \in Begin .. k : Depth(j, tid) <= Depth(i, tid)

\* A call is printed at the level of its caller, a return at the same level.
IndentOf(line) ==
  DepthFromOutermost(IF line.ret THEN line.at + 1 ELSE line.at, session.instr[line.at].tid)

\* Up to the line no thread but the line's has called or returned.
OneThreadUntil(line) ==
  \A j \in Begin .. line.at :
    session.instr[j].addr_func # NULL => session.instr[j].tid = session.instr[line.at].tid

ModuleAddresses(m) == m.base_addr .. m.base_addr + m.imageSize - 1

\* The events of lo .. hi - 1 that the modules of the recording can name.
NamedEvents(lo, hi) ==
  {k \in lo .. hi - 1 : \E n \in 1 .. Len(session.modules) :
                          session.instr[k].addr_func \in ModuleAddresses(session.modules[n])}

\* No event of the recording is outside the modules.
AllNamed ==
  NamedEvents(1, Len(session.instr) + 1)
    = {k \in 1 .. Len(session.instr) : session.instr[k].addr_func # NULL}

\* Until the last chunk is replayed again the tree is exact, across chunks: one
\* line for each call and return executed so far, by any thread, in order.  Its
\* indentation is the depth of the call stack of its thread, as long as that is the
\* only thread that called or returned (g_cur_stack is one for all threads) and but for
\* an event outside the modules, which would leave its bars to the next.  When the
\* program ends no event of the range is missing.
TreeExact ==
  /\ pc \in {"loop", "chunk"} =>
       /\ AllNamed => \A n \in 1 .. Len(out) :
            OneThreadUntil(out[n]) => out[n].bars = IndentOf(out[n])
       /\ \A m, n \in 1 .. Len(out) : m < n => out[m].at < out[n].at
       /\ {out[n].at : n \in 1 .. Len(out)} = NamedEvents(Begin, cursor.pos)
  /\ pc = "done" => NamedEvents(Begin, end) \subseteq {out[n].at : n \in 1 .. Len(out)}

\* Only what the last chunk executed is printed twice, never an event of a
\* chunk that was complete.
RepeatsOnlyTail ==
  LastPosition # NULL =>
    \A m, n \in 1 .. Len(out) : m < n /\ out[n].at <= out[m].at => out[n].at >= end - stepCount

\* When a chunk was completed, the replay ends on the last instruction before
\* the end, or at the end when the chunks divide the range.
FinalPosition ==
  pc = "done" /\ LastPosition # NULL =>
    cursor.pos = IF stepCount = 0 THEN end ELSE end - 1

\* The program ends.
Terminates == <>(pc \in {"done", "exit"})

-----------------------------------------------------------------------------
(* What the program says of itself. *)

\* src/README.md:209: the depth of the call stack is tracked.  (With calls of two
\* threads it is false from the first call of the second one.)
IndentIsDepth == \A n \in 1 .. Len(out) : out[n].bars = IndentOf(out[n])
=============================================================================
