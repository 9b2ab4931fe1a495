-------------------------------- MODULE Cursor --------------------------------
(***************************************************************************)
(* TTD::Cursor (src/TTD/TTD.cpp): a reader of a recording.  The methods    *)
(* forward to the replay engine, so each operator is what the engine does  *)
(* with the call, as far as the code in src/ relies on it.  A cursor is a  *)
(* record; a tool keeps it in a variable of its own.                       *)
(*                                                                         *)
(*   pos       position, an index into the recording                       *)
(*   todo      steps the ReplayForward in progress may still make;         *)
(*             NO_LIMIT for the step count -1 (2^64 - 1 steps, more than a *)
(*             recording has); whatever a call left is overwritten by the  *)
(*             next one                                                    *)
(*   callback  the value registered with the call/return callback, or      *)
(*             NO_CALLBACK when the registered function is NULL            *)
(*   watch     addresses under an EXEC memory watchpoint                   *)
(***************************************************************************)
EXTENDS Recording

NO_LIMIT == -1
NO_CALLBACK == -1

CursorType ==
  [ pos : Nat \ {0}, todo : Nat \cup {NO_LIMIT},
    callback : Nat \cup {NO_CALLBACK}, watch : SUBSET GuestAddress ]

NewCursor ==
  [pos |-> 1, todo |-> 0, callback |-> NO_CALLBACK, watch |-> {}]

SetPosition(c, position) == [c EXCEPT !.pos = position]

SetCallReturnCallback(c, value) == [c EXCEPT !.callback = value]

AddMemoryWatchpoint(c, addr) == [c EXCEPT !.watch = @ \cup {addr}]

RemoveMemoryWatchpoint(c, addr) == [c EXCEPT !.watch = @ \ {addr}]

GetProgramCounter(t, c) == t[c.pos].pc

GetLastPosition(t) == Len(t)

\* ReplayForward(c, stepCount) starts a replay; the engine then makes steps
\* while CanStep holds, and the call returns when it no longer does.
ReplayForward(c, stepCount) == [c EXCEPT !.todo = stepCount]

\* posMax is where the caller lets the replay go at most.
CanStep(c, posMax) ==
  /\ c.todo # 0
  /\ c.pos < posMax

\* What is left of the steps after the one to the next position.  Reaching an
\* address under a watchpoint ends the replay, before the instruction there
\* executes.
TodoAfterStep(t, c) ==
  IF t[c.pos + 1].pc \in c.watch THEN 0
  ELSE IF c.todo = NO_LIMIT THEN NO_LIMIT
  ELSE c.todo - 1

\* One instruction.
Step(t, c) ==
  [c EXCEPT !.pos = @ + 1, !.todo = TodoAfterStep(t, c)]
=============================================================================
