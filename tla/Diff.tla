--------------------------------- MODULE Diff ---------------------------------
(***************************************************************************)
(* src/example_diff/main.cpp: find where two recordings of a program take  *)
(* different paths.  Both are replayed step_size instructions at a time;   *)
(* as long as they end on the same address that is the new reference, and  *)
(* when they do not the program rolls both back and halves step_size.  A   *)
(* call/return callback keeps a call stack for each recording.  When one   *)
(* instruction is already too much, the stacks are searched for a common   *)
(* call to a function that is known to differ (an allocator); both         *)
(* recordings are then forwarded to its return, and the search restarts.   *)
(*                                                                         *)
(* An action is the code from one call of ReplayForward to the next, or    *)
(* one instruction that the engine replays inside such a call together     *)
(* with the callback it makes.                                             *)
(***************************************************************************)
EXTENDS Cursor

CONSTANTS
  Recordings,        \* pairs of recordings, each from its start position on
  KNOWN_FUNC,        \* allow-listed functions
  DEFAULT_STEP_SIZE, \* first number of instructions per replay
  Builds             \* TRUE: built without assert (Release)

ASSUME RecordingsAssumption ==
  /\ Recordings \subseteq [1 .. 2 -> Trace]
  /\ KNOWN_FUNC \subseteq GuestAddress

ASSUME StepSizeAssumption == DEFAULT_STEP_SIZE \in Nat \ {0}

ASSUME BuildAssumption == Builds \subseteq BOOLEAN

VARIABLES
  NDEBUG,        \* the build
  trace,         \* the recordings being compared
  cursor,        \* ttdcursor, ttdcursor2
  func_stack,    \* g_func_stack, g_func_stack2
  ret_stack,     \* g_ret_stack, g_ret_stack2
  snapshot,      \* g_snapshot
  step_size,
  stack_high,    \* index of the frame looked at, from 0
  ret_sync_addr,
  pc             \* where main() is

vars == <<NDEBUG, trace, cursor, func_stack, ret_stack, snapshot, step_size,
          stack_high, ret_sync_addr, pc>>

stacks == <<func_stack, ret_stack>>
search == <<stack_high, ret_sync_addr>>

Both == 1 .. 2

\* main() is inside a ReplayForward of the search, of the resynchronisation.
Forwarding == <<"forward1", "forward2">>
Resyncing == <<"resync1", "resync2">>

\* "assert_ret", "assert_sync": the assertion of line 28 or 36, of line 198 or
\* 204 failed.  "undefined": undefined behaviour stopped the program.
Terminal == {"done", "assert_ret", "assert_sync", "undefined"}

Stacks == [Both -> Seq(GuestAddress)]

TypeOK ==
  /\ trace \in Recordings
  /\ cursor \in [Both -> CursorType]
  /\ \A i \in Both : cursor[i].pos <= Len(trace[i])
  /\ func_stack \in Stacks
  /\ ret_stack \in Stacks
  /\ snapshot \in [func_stack : Stacks, ret_stack : Stacks, cur : [Both -> Nat]]
  /\ step_size \in 0 .. DEFAULT_STEP_SIZE
  /\ stack_high \in Nat
  /\ ret_sync_addr \in GuestAddress \cup {NULL}
  /\ pc \in {"deb", "while", "scan", "resync"} \cup Terminal
            \cup {Forwarding[i] : i \in Both} \cup {Resyncing[i] : i \in Both}

Init ==
  /\ NDEBUG \in Builds
  /\ trace \in Recordings
  /\ cursor = [i \in Both |-> NewCursor]
  /\ func_stack = [i \in Both |-> <<>>]
  /\ ret_stack = [i \in Both |-> <<>>]
  /\ snapshot = [func_stack |-> func_stack, ret_stack |-> ret_stack,
                 cur |-> [i \in Both |-> 0]]
  /\ step_size = DEFAULT_STEP_SIZE
  /\ stack_high = 0
  /\ ret_sync_addr = NULL
  /\ pc = "deb"

PC(i) == GetProgramCounter(trace[i], cursor[i])

-----------------------------------------------------------------------------
(* The call/return callback, and the engine that calls it. *)

PushCall(v, addr_func, addr_ret) ==
  /\ func_stack' = [func_stack EXCEPT ![v] = Append(@, addr_func)]
  /\ ret_stack' = [ret_stack EXCEPT ![v] = Append(@, addr_ret)]
  /\ UNCHANGED pc

\* A return to addr_func; `last_ret' is the address the stack expects.
PopCall(v, addr_func) ==
  IF func_stack[v] # <<>> /\ ret_stack[v] # <<>>
  THEN /\ func_stack' = [func_stack EXCEPT ![v] = Pop(@)]
       /\ ret_stack' = [ret_stack EXCEPT ![v] = Pop(@)]
       /\ pc' = IF addr_func = Top(ret_stack[v]) \/ NDEBUG THEN pc
                ELSE "assert_ret"
  ELSE UNCHANGED <<stacks, pc>>

\* Mutation: the early return for a RET is missing.
callCallback_diff_PushesReturns(callback_value, addr_func, addr_ret) ==
  PushCall(callback_value, addr_func, addr_ret)

callCallback_diff(callback_value, addr_func, addr_ret) ==
  IF addr_ret = NULL THEN PopCall(callback_value, addr_func)
  ELSE PushCall(callback_value, addr_func, addr_ret)

\* The engine replays one instruction for ReplayForward(&replayrez, last, n).
ReplayStep(i) ==
  /\ pc \in {Forwarding[i], Resyncing[i]}
  /\ CanStep(cursor[i], GetLastPosition(trace[i]))
  /\ cursor' = [cursor EXCEPT ![i] = Step(trace[i], @)]
  /\ LET e == trace[i][cursor[i].pos]
     IN  IF e.addr_func = NULL \/ cursor[i].callback = NO_CALLBACK
         THEN UNCHANGED <<stacks, pc>>
         ELSE callCallback_diff(cursor[i].callback, e.addr_func, e.addr_ret)
  /\ UNCHANGED <<trace, snapshot, step_size, search>>

\* ReplayForward on recording i has returned.
Returned(i) == ~ CanStep(cursor[i], GetLastPosition(trace[i]))

-----------------------------------------------------------------------------
(* The search loop. *)

\* Mutation: the return addresses are not copied.
takeSnapshot_ForgetsReturns ==
  snapshot' = [func_stack |-> func_stack, ret_stack |-> snapshot.ret_stack,
               cur |-> [i \in Both |-> cursor[i].pos]]

takeSnapshot ==
  snapshot' = [func_stack |-> func_stack, ret_stack |-> ret_stack,
               cur |-> [i \in Both |-> cursor[i].pos]]

\* Mutation: only the positions are restored.
restoreSnapshot_KeepsStacks ==
  /\ cursor' = [i \in Both |-> SetPosition(cursor[i], snapshot.cur[i])]
  /\ UNCHANGED stacks

restoreSnapshot ==
  /\ cursor' = [i \in Both |-> SetPosition(cursor[i], snapshot.cur[i])]
  /\ func_stack' = snapshot.func_stack
  /\ ret_stack' = snapshot.ret_stack

\* deb: register the callback on both cursors, take the first reference.
Deb ==
  /\ pc = "deb"
  /\ cursor' = [i \in Both |-> SetCallReturnCallback(cursor[i], i)]
  /\ takeSnapshot
  /\ pc' = "while"
  /\ UNCHANGED <<trace, stacks, step_size, search>>

Forward1 ==
  /\ pc = "while"
  /\ step_size > 0
  /\ cursor' = [cursor EXCEPT ![1] = ReplayForward(@, step_size)]
  /\ pc' = Forwarding[1]
  /\ UNCHANGED <<trace, stacks, snapshot, step_size, search>>

Forward2 ==
  /\ pc = Forwarding[1]
  /\ Returned(1)
  /\ cursor' = [cursor EXCEPT ![2] = ReplayForward(@, step_size)]
  /\ pc' = Forwarding[2]
  /\ UNCHANGED <<trace, stacks, snapshot, step_size, search>>

\* Roll back, or take a new reference.
Reconcile(differ, shorter_step) ==
  /\ pc = Forwarding[2]
  /\ Returned(2)
  /\ IF differ
     THEN /\ restoreSnapshot
          /\ step_size' = shorter_step
          /\ UNCHANGED snapshot
     ELSE /\ takeSnapshot
          /\ UNCHANGED <<cursor, stacks, step_size>>
  /\ pc' = "while"
  /\ UNCHANGED <<trace, search>>

\* Mutations: both program counters from the first cursor; no halving; a
\* halving that jumps over 1.
Compare_SameCursor == Reconcile(PC(1) # PC(1), step_size \div 2)
Compare_KeepsStep == Reconcile(PC(1) # PC(2), step_size)
Compare_SkipsOne == Reconcile(PC(1) # PC(2), (step_size - 1) \div 2)

\* Compare the two program counters.
Compare == Reconcile(PC(1) # PC(2), step_size \div 2)

-----------------------------------------------------------------------------
(* The recordings differ at the next instruction: search the stacks. *)

NonEmptyStacks == \A i \in Both : func_stack[i] # <<>> /\ ret_stack[i] # <<>>

\* Print the innermost call of both, with back(): on an empty vector that is
\* undefined.  A Debug build stops; a Release build stops or prints garbage.
Report ==
  /\ pc = "while"
  /\ step_size = 0
  /\ stack_high' = 0
  /\ ret_sync_addr' = NULL
  /\ \/ /\ NonEmptyStacks \/ NDEBUG
        /\ pc' = "scan"
     \/ /\ ~ NonEmptyStacks
        /\ pc' = "undefined"
  /\ UNCHANGED <<trace, cursor, stacks, snapshot, step_size>>

InBounds == stack_high < Len(func_stack[2])

SameFrame ==
  /\ func_stack[1][stack_high + 1] = func_stack[2][stack_high + 1]
  /\ ret_stack[1][stack_high + 1] = ret_stack[2][stack_high + 1]

\* Mutation: the innermost known call is taken.
KnownFrame_Innermost ==
  /\ func_stack[1][stack_high + 1] \in KNOWN_FUNC
  /\ \A g \in stack_high + 2 .. Len(func_stack[1]) : func_stack[1][g] \notin KNOWN_FUNC

KnownFrame == func_stack[1][stack_high + 1] \in KNOWN_FUNC

\* What comparing frame stack_high may answer.  Only the depth of the first
\* stack bounds the loop: past the end of the second one a Release build reads
\* whatever is there.
SameFrameOutcomes ==
  IF InBounds THEN {SameFrame} ELSE IF NDEBUG THEN BOOLEAN ELSE {}

ScanFrame ==
  /\ pc = "scan"
  /\ stack_high < Len(func_stack[1])
  /\ \E same \in SameFrameOutcomes :
       IF same /\ KnownFrame
       THEN /\ ret_sync_addr' = ret_stack[1][stack_high + 1]
            /\ pc' = "resync"
            /\ UNCHANGED stack_high
       ELSE /\ stack_high' = stack_high + 1
            /\ UNCHANGED <<ret_sync_addr, pc>>
  /\ UNCHANGED <<trace, cursor, stacks, snapshot, step_size>>

ScanOutOfBounds ==
  /\ pc = "scan"
  /\ stack_high < Len(func_stack[1])
  /\ ~ InBounds
  /\ pc' = "undefined"
  /\ UNCHANGED <<trace, cursor, stacks, snapshot, step_size, search>>

ScanEnd ==
  /\ pc = "scan"
  /\ stack_high = Len(func_stack[1])
  /\ pc' = "done"
  /\ UNCHANGED <<trace, cursor, stacks, snapshot, step_size, search>>

-----------------------------------------------------------------------------
(* Forward both recordings to the return of the call that was found. *)

Resync1 ==
  /\ pc = "resync"
  /\ LET armed == [i \in Both |->
                     SetCallReturnCallback(
                       AddMemoryWatchpoint(cursor[i], ret_sync_addr),
                       NO_CALLBACK)]
     IN  cursor' = [armed EXCEPT ![1] = ReplayForward(@, NO_LIMIT)]
  /\ pc' = Resyncing[1]
  /\ UNCHANGED <<trace, stacks, snapshot, step_size, search>>

Resync2 ==
  /\ pc = Resyncing[1]
  /\ Returned(1)
  /\ LET removed == RemoveMemoryWatchpoint(cursor[1], ret_sync_addr)
     IN  IF PC(1) = ret_sync_addr \/ NDEBUG
         THEN /\ cursor' = [cursor EXCEPT ![1] = removed,
                                          ![2] = ReplayForward(@, NO_LIMIT)]
              /\ pc' = Resyncing[2]
         ELSE /\ cursor' = [cursor EXCEPT ![1] = removed]
              /\ pc' = "assert_sync"
  /\ UNCHANGED <<trace, stacks, snapshot, step_size, search>>

\* Mutation: one frame too few.
Excess_OffByOne == Len(func_stack[1]) - stack_high - 1

\* How many frames the truncation removes from each of the four vectors.
Excess == Len(func_stack[1]) - stack_high

Truncated(s) == SubSeq(s, 1, Len(s) - Excess)

\* pop_back on an empty vector is undefined.  It leaves the size negative, so that
\* takeSnapshot, which copies the vector next, throws: the program stops.
Truncatable == \A i \in Both : Excess <= Len(func_stack[i]) /\ Excess <= Len(ret_stack[i])

\* Everything after the second forward: restore step_size, drop the frames
\* that have returned, and go back to deb.  (The assertion of line 216 compares
\* the first stack with the depth it was just cut to: it cannot fail.)
Rejoin(reached) ==
  /\ pc = Resyncing[2]
  /\ Returned(2)
  /\ cursor' = [cursor EXCEPT ![2] = RemoveMemoryWatchpoint(@, ret_sync_addr)]
  /\ IF ~ reached /\ ~ NDEBUG
     THEN pc' = "assert_sync" /\ UNCHANGED <<stacks, step_size>>
     ELSE /\ step_size' = DEFAULT_STEP_SIZE
          /\ IF Truncatable
             THEN /\ func_stack' = [i \in Both |-> Truncated(func_stack[i])]
                  /\ ret_stack' = [i \in Both |-> Truncated(ret_stack[i])]
                  /\ pc' = "deb"
             ELSE pc' = "undefined" /\ UNCHANGED stacks
  /\ UNCHANGED <<trace, snapshot, search>>

\* Mutation: the first cursor is asserted on again (line 203 prints it again).
Restart_AssertsFirst == Rejoin(PC(1) = ret_sync_addr)

Restart == Rejoin(PC(2) = ret_sync_addr)

\* main() has returned or was aborted.
Stopped == pc \in Terminal /\ UNCHANGED vars

-----------------------------------------------------------------------------
Next ==
  /\ UNCHANGED NDEBUG
  /\ \/ Deb
     \/ Forward1
     \/ Forward2
     \/ \E i \in Both : ReplayStep(i)
     \/ Compare
     \/ Report
     \/ ScanFrame
     \/ ScanOutOfBounds
     \/ ScanEnd
     \/ Resync1
     \/ Resync2
     \/ Restart
     \/ Stopped

Spec == Init /\ [][Next]_vars

\* The program is a single thread that the scheduler keeps running.
FairSpec == Spec /\ WF_vars(Next)

-----------------------------------------------------------------------------
(* What any recordings guarantee. *)

\* At the head of the loop both cursors and all four vectors are exactly what
\* the last reference (takeSnapshot) recorded: a rollback loses nothing and
\* keeps nothing of the replay it undoes.
AtReference ==
  pc = "while" =>
    /\ \A i \in Both : cursor[i].pos = snapshot.cur[i]
    /\ func_stack = snapshot.func_stack
    /\ ret_stack = snapshot.ret_stack

\* Where recording i is n instructions after the reference, or at its end.
Ahead(i, n) ==
  IF snapshot.cur[i] + n <= Len(trace[i]) THEN snapshot.cur[i] + n
  ELSE Len(trace[i])

\* The search gives up on a reference only if one more instruction takes the
\* recordings to different addresses: the printed position is the last one
\* before the paths part, whatever step sizes led to it.
PartsAtNext ==
  step_size = 0 => trace[1][Ahead(1, 1)].pc # trace[2][Ahead(2, 1)].pc

\* A reference is a sync point: both recordings are about to execute the same
\* address there.
ReferenceInSync ==
  snapshot.cur[1] # 0 =>
    trace[1][snapshot.cur[1]].pc = trace[2][snapshot.cur[2]].pc

\* With assertions, the search never gets a reference that is not a sync point,
\* also from recordings that do not reach the return of the known call.  (Both
\* start at the same address.)
AssertionsGuard == ~ NDEBUG /\ trace[1][1].pc = trace[2][1].pc => ReferenceInSync

\* Both recordings have been compared up to their ends.
Exhausted == \A i \in Both : snapshot.cur[i] = Len(trace[i])

\* Rolling back and halving, and restarting after a known call, never go round in a
\* circle: the program stops, or reaches both ends.  (When they are the same address
\* it takes them as its reference again and again.)
EndsOrExhausted == <>(pc \in Terminal \/ Exhausted)

-----------------------------------------------------------------------------
(* What well-behaved recordings guarantee, as long as Skippable holds. *)

\* Outside the fast-forward (which runs without the callback) the stacks the
\* callback built are the calls open in the recording, across rollbacks and
\* after the truncation that follows a resynchronisation.
StacksMirrorRecording ==
  pc \notin {"assert_ret", "assert_sync", "undefined", "resync1", "resync2"} =>
    \A i \in Both :
      /\ func_stack[i] = trace[i][cursor[i].pos].funcs
      /\ ret_stack[i] = trace[i][cursor[i].pos].rets

\* The only things that can go wrong are back() of an empty stack, when the paths
\* part outside of any call, and, in a Debug build, the scan of a second stack that
\* is shorter: no assertion fails, no vector is popped when it is empty.
NoFailure ==
  /\ pc \notin {"assert_ret", "assert_sync"}
  /\ pc = "undefined" =>
       \/ ~ NonEmptyStacks
       \/ ~ NDEBUG /\ Len(func_stack[1]) > Len(func_stack[2])

\* The search is an implementation of SyncSearch, which knows the open calls
\* from the recording instead of a callback.
Search == INSTANCE SyncSearch WITH
  sync <- IF pc = "deb" THEN [i \in Both |-> cursor[i].pos] ELSE snapshot.cur,
  status <- IF pc = "done" THEN "reported" ELSE "searching",
  MaxStride <- DEFAULT_STEP_SIZE

Implements == Search!Spec

\* The recordings of the properties above: calls nest, and both start at the same
\* address.
WellBehaved ==
  \A r \in Recordings : (\A i \in Both : WellNested(r[i])) /\ r[1][1].pc = r[2][1].pc

\* What they take for granted each time the search gives up on a reference, of the
\* calls open there.  When a known call is open in both, the recordings are equally
\* deep in calls and the outermost such call returns before its return address is
\* executed otherwise.  For a Release build, the second one is not less deep (the
\* scan would read past its stack).
Skippable ==
  step_size = 0 =>
    LET depth(i) == Len(trace[i][snapshot.cur[i]].funcs)
    IN  /\ NDEBUG => depth(1) <= depth(2)
        /\ \A h \in Search!Levels :
             Search!KnownCall(h) /\ (\A g \in 1 .. h - 1 : ~ Search!KnownCall(g)) =>
               /\ depth(1) = depth(2)
               /\ \A i \in Both : ReturnsFrom(trace[i], snapshot.cur[i], h)

-----------------------------------------------------------------------------
(* What the program takes for granted of any recordings. *)

\* Lines 28, 36: a return goes where the top of the stack says.
ReturnsMatch == pc # "assert_ret"
=============================================================================
