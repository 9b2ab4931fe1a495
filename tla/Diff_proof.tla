------------------------------ MODULE Diff_proof ------------------------------
(***************************************************************************)
(* Theorems about Diff: types; what the search loop guarantees for any     *)
(* recordings; what holds for well-behaved recordings; what the assertions *)
(* guarantee for any; that Diff implements SyncSearch; and the measure by  *)
(* which the search comes to an end.                                       *)
(***************************************************************************)
EXTENDS Diff, SequenceTheorems, TLAPS

-----------------------------------------------------------------------------
(* What the operators on cursors keep and what they set. *)

LEMMA SetPositionType ==
  ASSUME NEW c \in CursorType, NEW p \in Nat \ {0}
  PROVE  /\ SetPosition(c, p) \in CursorType
         /\ SetPosition(c, p).pos = p
         /\ SetPosition(c, p).callback = c.callback
         /\ SetPosition(c, p).watch = c.watch
  BY DEF CursorType, SetPosition

LEMMA SetCallbackType ==
  ASSUME NEW c \in CursorType, NEW v \in Nat \cup {NO_CALLBACK}
  PROVE  /\ SetCallReturnCallback(c, v) \in CursorType
         /\ SetCallReturnCallback(c, v).pos = c.pos
         /\ SetCallReturnCallback(c, v).callback = v
         /\ SetCallReturnCallback(c, v).watch = c.watch
  BY DEF CursorType, SetCallReturnCallback

LEMMA AddWatchpointType ==
  ASSUME NEW c \in CursorType, NEW a \in GuestAddress
  PROVE  /\ AddMemoryWatchpoint(c, a) \in CursorType
         /\ AddMemoryWatchpoint(c, a).pos = c.pos
         /\ AddMemoryWatchpoint(c, a).callback = c.callback
         /\ AddMemoryWatchpoint(c, a).watch = c.watch \cup {a}
  BY DEF CursorType, AddMemoryWatchpoint

LEMMA RemoveWatchpointType ==
  ASSUME NEW c \in CursorType, NEW a
  PROVE  /\ RemoveMemoryWatchpoint(c, a) \in CursorType
         /\ RemoveMemoryWatchpoint(c, a).pos = c.pos
         /\ RemoveMemoryWatchpoint(c, a).callback = c.callback
         /\ RemoveMemoryWatchpoint(c, a).watch = c.watch \ {a}
  BY DEF CursorType, RemoveMemoryWatchpoint

LEMMA ReplayForwardType ==
  ASSUME NEW c \in CursorType, NEW n \in Nat \cup {NO_LIMIT}
  PROVE  /\ ReplayForward(c, n) \in CursorType
         /\ ReplayForward(c, n).pos = c.pos
         /\ ReplayForward(c, n).todo = n
         /\ ReplayForward(c, n).callback = c.callback
         /\ ReplayForward(c, n).watch = c.watch
  BY DEF CursorType, ReplayForward

\* A step moves the cursor to the next position of the recording.
LEMMA StepType ==
  ASSUME NEW c \in CursorType, NEW t, NEW last \in Nat, CanStep(c, last)
  PROVE  /\ Step(t, c) \in CursorType
         /\ Step(t, c).pos = c.pos + 1
         /\ c.pos + 1 \in 1 .. last
         /\ Step(t, c).callback = c.callback
         /\ Step(t, c).watch = c.watch
         /\ Step(t, c).todo = TodoAfterStep(t, c)
<1>1. c.pos \in Nat \ {0} /\ c.todo \in Nat \cup {NO_LIMIT} /\ c.todo # 0 /\ c.pos < last
  BY DEF CursorType, CanStep
<1>2. TodoAfterStep(t, c) \in Nat \cup {NO_LIMIT}
  BY <1>1 DEF TodoAfterStep, NO_LIMIT
<1>3. c.pos + 1 \in Nat \ {0} /\ c.pos + 1 \in 1 .. last
  BY <1>1
<1>4. Step(t, c) = [c EXCEPT !.pos = c.pos + 1, !.todo = TodoAfterStep(t, c)]
  BY DEF Step
<1> QED BY <1>2, <1>3, <1>4 DEF CursorType

-----------------------------------------------------------------------------
(* Types. *)

\* The vectors of functions and of return addresses grow and shrink together.
Paired(funcs, rets) == \A i \in Both : Len(funcs[i]) = Len(rets[i])

\* The strengthening of TypeOK that every step preserves: the two vectors of a
\* recording have the same length (so that a frame found in one is in the
\* other), a frame under consideration exists, the callback is off while the
\* recordings are forwarded (so that the frame still exists afterwards), and
\* once taken the snapshot holds positions of the recordings.
TypeInv ==
  /\ TypeOK
  /\ Paired(func_stack, ret_stack)
  /\ Paired(snapshot.func_stack, snapshot.ret_stack)
  /\ pc \in {"scan", "resync", "resync1", "resync2"} =>
       stack_high <= Len(func_stack[1])
  /\ pc \in {"resync", "resync1", "resync2"} => ret_sync_addr \in GuestAddress
  /\ pc \in {"resync1", "resync2"} =>
       \A i \in Both : cursor[i].callback = NO_CALLBACK
  /\ pc \notin {"deb"} =>
       \A i \in Both : snapshot.cur[i] \in 1 .. Len(trace[i])

LEMMA TraceType ==
  ASSUME TypeInv, NEW i \in Both
  PROVE  /\ trace[i] \in Seq(Instruction)
         /\ Len(trace[i]) \in Nat \ {0}
         /\ cursor[i].pos \in 1 .. Len(trace[i])
         /\ trace[i][cursor[i].pos] \in Instruction
<1>1. trace \in [1 .. 2 -> Trace]
  BY RecordingsAssumption DEF TypeInv, TypeOK
<1>2. trace[i] \in Trace
  BY <1>1 DEF Both
<1>3. trace[i] \in Seq(Instruction) /\ trace[i] # <<>>
  BY <1>2 DEF Trace
<1>4. Len(trace[i]) \in Nat \ {0}
  BY <1>3, EmptySeq, LenProperties
<1>5. cursor[i].pos \in Nat \ {0} /\ cursor[i].pos <= Len(trace[i])
  BY DEF TypeInv, TypeOK, CursorType
<1>6. cursor[i].pos \in 1 .. Len(trace[i])
  BY <1>4, <1>5
<1>7. trace[i][cursor[i].pos] \in Instruction
  BY <1>3, <1>6, ElementOfSeq
<1> QED BY <1>3, <1>4, <1>6, <1>7

\* The first n elements of a sequence.
LEMMA PrefixType ==
  ASSUME NEW S, NEW s \in Seq(S), NEW n \in 0 .. Len(s)
  PROVE  /\ SubSeq(s, 1, n) \in Seq(S)
         /\ Len(SubSeq(s, 1, n)) = n
         /\ \A i \in 1 .. n : SubSeq(s, 1, n)[i] = s[i]
<1>1. Len(s) \in Nat
  BY LenProperties
<1>2. \A i \in 1 .. n : s[i] \in S
  BY <1>1, ElementOfSeq
<1>3. n \in Int
  BY <1>1
<1>4. /\ SubSeq(s, 1, n) \in Seq(S)
      /\ Len(SubSeq(s, 1, n)) = IF 1 <= n THEN n - 1 + 1 ELSE 0
      /\ \A i \in 1 .. n - 1 + 1 : SubSeq(s, 1, n)[i] = s[1 + i - 1]
  BY <1>2, <1>3, SubSeqProperties
<1>5. (IF 1 <= n THEN n - 1 + 1 ELSE 0) = n
  BY <1>1
<1>6. n - 1 + 1 = n /\ \A i \in 1 .. n : 1 + i - 1 = i
  BY <1>3
<1>7. \A i \in 1 .. n : SubSeq(s, 1, n)[i] = s[i]
  BY <1>4, <1>6, Zenon
<1>8. Len(SubSeq(s, 1, n)) = n
  BY <1>4, <1>5, SMT
<1> QED BY <1>4, <1>7, <1>8

LEMMA PopType ==
  ASSUME NEW S, NEW s \in Seq(S), s # <<>>
  PROVE  /\ Pop(s) \in Seq(S)
         /\ Len(Pop(s)) = Len(s) - 1
         /\ Top(s) \in S
<1>1. Len(s) \in Nat \ {0}
  BY EmptySeq
<1>2. Len(s) - 1 \in 0 .. Len(s) /\ Len(s) \in 1 .. Len(s)
  BY <1>1
<1>3. s[Len(s)] \in S
  BY <1>2, ElementOfSeq
<1>4. /\ SubSeq(s, 1, Len(s) - 1) \in Seq(S)
      /\ Len(SubSeq(s, 1, Len(s) - 1)) = Len(s) - 1
  BY <1>2, PrefixType
<1> QED BY <1>3, <1>4, Zenon DEF Pop, Top

LEMMA InitTypeInv == Init => TypeInv
<1> SUFFICES ASSUME Init PROVE TypeInv
  OBVIOUS
<1> USE DEF Init, Both
<1>1. trace \in [1 .. 2 -> Trace]
  BY RecordingsAssumption
<1>2. \A i \in Both : Len(trace[i]) \in Nat \ {0}
  BY <1>1, EmptySeq, LenProperties DEF Trace
<1>3. cursor \in [Both -> CursorType]
  BY DEF NewCursor, CursorType, NO_CALLBACK
<1>4. \A i \in Both : cursor[i].pos <= Len(trace[i])
  BY <1>2 DEF NewCursor
<1>5. func_stack \in Stacks /\ ret_stack \in Stacks
  BY EmptySeq DEF Stacks
<1>6. snapshot \in [func_stack : Stacks, ret_stack : Stacks, cur : [Both -> Nat]]
  BY <1>5
<1>7. Paired(func_stack, ret_stack) /\ Paired(snapshot.func_stack, snapshot.ret_stack)
  BY DEF Paired
<1> QED
  BY <1>3, <1>4, <1>5, <1>6, <1>7, StepSizeAssumption DEF TypeInv, TypeOK

-----------------------------------------------------------------------------
(* Type correctness. *)

\* What a callback does to the vectors of the recording it is registered for.
LEMMA CallbackType ==
  ASSUME TypeInv, NEW v, NEW f \in GuestAddress, NEW r \in GuestAddress \cup {NULL},
         callCallback_diff(v, f, r)
  PROVE  /\ func_stack' \in Stacks
         /\ ret_stack' \in Stacks
         /\ Paired(func_stack', ret_stack')
         /\ pc' \in {pc, "assert_ret"}
<1>1. func_stack \in Stacks /\ ret_stack \in Stacks /\ Paired(func_stack, ret_stack)
  BY DEF TypeInv, TypeOK
<1>2. CASE r # NULL
  <2>1. PushCall(v, f, r)
    BY <1>2 DEF callCallback_diff
  <2>2. /\ func_stack' = [func_stack EXCEPT ![v] = Append(@, f)]
        /\ ret_stack' = [ret_stack EXCEPT ![v] = Append(@, r)]
        /\ pc' = pc
    BY <2>1 DEF PushCall
  <2>3. \A i \in Both : /\ func_stack'[i] = IF i = v THEN Append(func_stack[i], f) ELSE func_stack[i]
                       /\ ret_stack'[i] = IF i = v THEN Append(ret_stack[i], r) ELSE ret_stack[i]
    BY <1>1, <2>2 DEF Stacks
  <2>4. \A i \in Both : /\ Append(func_stack[i], f) \in Seq(GuestAddress)
                       /\ Append(ret_stack[i], r) \in Seq(GuestAddress)
                       /\ Len(Append(func_stack[i], f)) = Len(func_stack[i]) + 1
                       /\ Len(Append(ret_stack[i], r)) = Len(ret_stack[i]) + 1
    BY <1>1, <1>2, AppendProperties DEF Stacks
  <2>5. func_stack' \in Stacks /\ ret_stack' \in Stacks
    BY <1>1, <2>2, <2>3, <2>4 DEF Stacks
  <2>6. Paired(func_stack', ret_stack')
    BY <1>1, <2>3, <2>4 DEF Paired
  <2> QED BY <2>2, <2>5, <2>6
<1>3. CASE r = NULL /\ ~ (func_stack[v] # <<>> /\ ret_stack[v] # <<>>)
  BY <1>1, <1>3 DEF callCallback_diff, PopCall, stacks
<1>4. CASE r = NULL /\ func_stack[v] # <<>> /\ ret_stack[v] # <<>>
  <2>1. PopCall(v, f)
    BY <1>4 DEF callCallback_diff
  <2>2. /\ func_stack' = [func_stack EXCEPT ![v] = Pop(@)]
        /\ ret_stack' = [ret_stack EXCEPT ![v] = Pop(@)]
        /\ pc' \in {pc, "assert_ret"}
    BY <1>4, <2>1 DEF PopCall
  <2>3. \A i \in Both : /\ func_stack'[i] = IF i = v THEN Pop(func_stack[i]) ELSE func_stack[i]
                       /\ ret_stack'[i] = IF i = v THEN Pop(ret_stack[i]) ELSE ret_stack[i]
    BY <1>1, <2>2 DEF Stacks
  <2>4. \A i \in Both : i = v =>
          /\ Pop(func_stack[i]) \in Seq(GuestAddress)
          /\ Pop(ret_stack[i]) \in Seq(GuestAddress)
          /\ Len(Pop(func_stack[i])) = Len(func_stack[i]) - 1
          /\ Len(Pop(ret_stack[i])) = Len(ret_stack[i]) - 1
    BY <1>1, <1>4, PopType DEF Stacks
  <2>5. func_stack' \in Stacks /\ ret_stack' \in Stacks
    BY <1>1, <2>2, <2>3, <2>4 DEF Stacks
  <2>6. Paired(func_stack', ret_stack')
    BY <1>1, <2>3, <2>4 DEF Paired
  <2> QED BY <2>2, <2>5, <2>6
<1> QED BY <1>2, <1>3, <1>4

\* Changing the record of one cursor, or of both, keeps the type of the pair.
LEMMA CursorsType ==
  ASSUME TypeInv, cursor' \in [Both -> CursorType], trace' = trace,
         \A i \in Both : cursor'[i].pos \in {cursor[i].pos} \cup 1 .. Len(trace[i])
  PROVE  \A i \in Both : cursor'[i].pos <= Len(trace'[i])
<1> TAKE i \in Both
<1>1. cursor[i].pos <= Len(trace[i]) /\ Len(trace[i]) \in Nat
  BY TraceType DEF TypeInv, TypeOK
<1> QED BY <1>1

LEMMA ReplayStepTypeInv ==
  ASSUME TypeInv, NEW i \in Both, ReplayStep(i)
  PROVE  TypeInv'
<1> DEFINE e == trace[i][cursor[i].pos]
           last == GetLastPosition(trace[i])
<1>1. e \in Instruction /\ last \in Nat
  BY TraceType DEF GetLastPosition
<1>2. e.addr_func \in GuestAddress \cup {NULL} /\ e.addr_ret \in GuestAddress \cup {NULL}
  BY <1>1 DEF Instruction
<1>3. cursor \in [Both -> CursorType] /\ cursor[i] \in CursorType
  BY DEF TypeInv, TypeOK
<1>4. /\ Step(trace[i], cursor[i]) \in CursorType
      /\ Step(trace[i], cursor[i]).pos \in 1 .. Len(trace[i])
      /\ Step(trace[i], cursor[i]).callback = cursor[i].callback
  <2>1. CanStep(cursor[i], last)
    BY DEF ReplayStep
  <2> QED BY <1>1, <1>3, <2>1, StepType DEF GetLastPosition
<1>5. cursor' = [cursor EXCEPT ![i] = Step(trace[i], cursor[i])]
  BY DEF ReplayStep
<1>6. /\ cursor' \in [Both -> CursorType]
      /\ \A j \in Both : cursor'[j] = IF j = i THEN Step(trace[i], cursor[i]) ELSE cursor[j]
  BY <1>3, <1>4, <1>5
<1>7. UNCHANGED <<trace, snapshot, step_size, stack_high, ret_sync_addr>>
  BY DEF ReplayStep, search
<1>8. \A j \in Both : cursor'[j].pos <= Len(trace'[j])
  BY <1>4, <1>6, <1>7, CursorsType
<1>9. /\ func_stack' \in Stacks
      /\ ret_stack' \in Stacks
      /\ Paired(func_stack', ret_stack')
      /\ pc' \in {pc, "assert_ret"}
  <2>1. CASE e.addr_func = NULL \/ cursor[i].callback = NO_CALLBACK
    BY <2>1 DEF ReplayStep, stacks, TypeInv, TypeOK
  <2>2. CASE ~ (e.addr_func = NULL \/ cursor[i].callback = NO_CALLBACK)
    <3>1. callCallback_diff(cursor[i].callback, e.addr_func, e.addr_ret)
      BY <2>2 DEF ReplayStep
    <3> QED BY <1>2, <2>2, <3>1, CallbackType
  <2> QED BY <2>1, <2>2
<1>10. pc \in {Forwarding[i], Resyncing[i]}
  BY DEF ReplayStep
<1>11. CASE pc = Forwarding[i]
  BY <1>6, <1>7, <1>8, <1>9, <1>11 DEF TypeInv, TypeOK, Forwarding, Resyncing, Both, Terminal
<1>12. CASE pc = Resyncing[i]
  <2>1. cursor[i].callback = NO_CALLBACK
    BY <1>12 DEF TypeInv, Resyncing, Both
  <2>2. UNCHANGED <<func_stack, ret_stack, pc>>
    BY <2>1 DEF ReplayStep, stacks
  <2>3. \A j \in Both : cursor'[j].callback = cursor[j].callback
    BY <1>4, <1>6
  <2> QED
    BY <1>6, <1>7, <1>8, <1>9, <1>12, <2>2, <2>3 DEF TypeInv, TypeOK, Forwarding, Resyncing, Both, Terminal
<1> QED BY <1>10, <1>11, <1>12

LEMMA NextTypeInv == TypeInv /\ [Next]_vars => TypeInv'
<1> SUFFICES ASSUME TypeInv, [Next]_vars PROVE TypeInv'
  OBVIOUS
<1>1. cursor \in [Both -> CursorType] /\ \A i \in Both : cursor[i] \in CursorType
  BY DEF TypeInv, TypeOK
<1>2. ASSUME NEW i \in Both PROVE Len(trace[i]) \in Nat /\ cursor[i].pos \in 1 .. Len(trace[i])
  BY TraceType
<1>3. CASE Deb
  <2>1. ASSUME NEW i \in Both
        PROVE  /\ SetCallReturnCallback(cursor[i], i) \in CursorType
               /\ SetCallReturnCallback(cursor[i], i).pos = cursor[i].pos
    <3>1. i \in Nat
      BY DEF Both
    <3> QED BY <1>1, <3>1, SetCallbackType
  <2>2. cursor' \in [Both -> CursorType] /\ \A i \in Both : cursor'[i].pos = cursor[i].pos
    BY <1>3, <2>1 DEF Deb
  <2>3. \A i \in Both : cursor'[i].pos <= Len(trace'[i])
    BY <1>3, <2>2, CursorsType DEF Deb
  <2>4. /\ snapshot' \in [func_stack : Stacks, ret_stack : Stacks, cur : [Both -> Nat]]
        /\ Paired(snapshot'.func_stack, snapshot'.ret_stack)
        /\ \A i \in Both : snapshot'.cur[i] \in 1 .. Len(trace'[i])
    BY <1>2, <1>3 DEF Deb, takeSnapshot, TypeInv, TypeOK
  <2> QED
    BY <1>3, <2>2, <2>3, <2>4 DEF Deb, stacks, search, TypeInv, TypeOK, Terminal
<1>4. CASE Forward1
  <2>1. /\ ReplayForward(cursor[1], step_size) \in CursorType
        /\ ReplayForward(cursor[1], step_size).pos = cursor[1].pos
    BY <1>1, ReplayForwardType DEF Both, TypeInv, TypeOK
  <2>2. cursor' \in [Both -> CursorType] /\ \A i \in Both : cursor'[i].pos = cursor[i].pos
    BY <1>1, <1>4, <2>1 DEF Forward1
  <2>3. \A i \in Both : cursor'[i].pos <= Len(trace'[i])
    BY <1>4, <2>2, CursorsType DEF Forward1
  <2> QED
    BY <1>4, <2>2, <2>3 DEF Forward1, stacks, search, TypeInv, TypeOK, Forwarding, Both
<1>5. CASE Forward2
  <2>1. /\ ReplayForward(cursor[2], step_size) \in CursorType
        /\ ReplayForward(cursor[2], step_size).pos = cursor[2].pos
    BY <1>1, ReplayForwardType DEF Both, TypeInv, TypeOK
  <2>2. cursor' \in [Both -> CursorType] /\ \A i \in Both : cursor'[i].pos = cursor[i].pos
    BY <1>1, <1>5, <2>1 DEF Forward2
  <2>3. \A i \in Both : cursor'[i].pos <= Len(trace'[i])
    BY <1>5, <2>2, CursorsType DEF Forward2
  <2> QED
    BY <1>5, <2>2, <2>3 DEF Forward2, stacks, search, TypeInv, TypeOK, Forwarding, Both
<1>6. CASE \E i \in Both : ReplayStep(i)
  BY <1>6, ReplayStepTypeInv
<1>7. CASE Compare
  <2>1. \A i \in Both : snapshot.cur[i] \in 1 .. Len(trace[i]) /\ snapshot.cur[i] \in Nat \ {0}
    BY <1>2, <1>7 DEF Compare, Reconcile, Forwarding, Both, TypeInv
  <2>2. step_size \div 2 \in 0 .. DEFAULT_STEP_SIZE
    BY StepSizeAssumption DEF TypeInv, TypeOK
  <2>3. CASE PC(1) # PC(2)
    <3>1. restoreSnapshot /\ step_size' = step_size \div 2 /\ snapshot' = snapshot
      BY <1>7, <2>3 DEF Compare, Reconcile
    <3>2. \A i \in Both : /\ SetPosition(cursor[i], snapshot.cur[i]) \in CursorType
                         /\ SetPosition(cursor[i], snapshot.cur[i]).pos = snapshot.cur[i]
      BY <1>1, <2>1, SetPositionType
    <3>3. cursor' \in [Both -> CursorType] /\ \A i \in Both : cursor'[i].pos = snapshot.cur[i]
      BY <3>1, <3>2 DEF restoreSnapshot
    <3>4. \A i \in Both : cursor'[i].pos <= Len(trace'[i])
      BY <1>7, <2>1, <3>3, CursorsType DEF Compare, Reconcile
    <3> QED
      BY <1>7, <2>1, <2>2, <3>1, <3>3, <3>4
      DEF Compare, Reconcile, restoreSnapshot, search, TypeInv, TypeOK
  <2>4. CASE PC(1) = PC(2)
    <3>1. takeSnapshot /\ UNCHANGED <<cursor, stacks, step_size>>
      BY <1>7, <2>4 DEF Compare, Reconcile
    <3>2. /\ snapshot' \in [func_stack : Stacks, ret_stack : Stacks, cur : [Both -> Nat]]
          /\ Paired(snapshot'.func_stack, snapshot'.ret_stack)
          /\ \A i \in Both : snapshot'.cur[i] \in 1 .. Len(trace[i])
      BY <1>2, <3>1 DEF takeSnapshot, TypeInv, TypeOK
    <3> QED
      BY <1>7, <3>1, <3>2 DEF Compare, Reconcile, stacks, search, TypeInv, TypeOK
  <2> QED BY <2>3, <2>4
<1>8. CASE Report
  <2>1. 0 <= Len(func_stack[1])
    BY LenProperties DEF TypeInv, TypeOK, Stacks, Both
  <2> QED
    BY <1>8, <2>1 DEF Report, stacks, TypeInv, TypeOK, Terminal
<1>9. CASE ScanFrame
  <2>1. /\ func_stack[1] \in Seq(GuestAddress) /\ ret_stack[1] \in Seq(GuestAddress)
        /\ Len(ret_stack[1]) = Len(func_stack[1])
    BY DEF TypeInv, TypeOK, Stacks, Paired, Both
  <2>2. Len(func_stack[1]) \in Nat /\ stack_high \in Nat /\ stack_high < Len(func_stack[1])
    BY <1>9, <2>1, LenProperties DEF ScanFrame, TypeInv, TypeOK
  <2>3. stack_high + 1 \in 1 .. Len(ret_stack[1])
    BY <2>1, <2>2
  <2>4. ret_stack[1][stack_high + 1] \in GuestAddress
    BY <2>1, <2>3, ElementOfSeq
  <2>5. \/ /\ ret_sync_addr' = ret_stack[1][stack_high + 1]
           /\ pc' = "resync"
           /\ stack_high' = stack_high
        \/ /\ stack_high' = stack_high + 1
           /\ ret_sync_addr' = ret_sync_addr
           /\ pc' = pc
    BY <1>9 DEF ScanFrame
  <2>6. UNCHANGED <<trace, cursor, func_stack, ret_stack, snapshot, step_size>> /\ pc = "scan"
    BY <1>9 DEF ScanFrame, stacks
  <2> QED
    BY <2>2, <2>4, <2>5, <2>6 DEF TypeInv, TypeOK
<1>10. CASE ScanOutOfBounds
  BY <1>10 DEF ScanOutOfBounds, stacks, search, TypeInv, TypeOK, Terminal
<1>11. CASE ScanEnd
  BY <1>11 DEF ScanEnd, stacks, search, TypeInv, TypeOK, Terminal
<1>12. CASE Resync1
  <2> DEFINE a(i) == AddMemoryWatchpoint(cursor[i], ret_sync_addr)
             b(i) == SetCallReturnCallback(a(i), NO_CALLBACK)
  <2>1. ret_sync_addr \in GuestAddress
    BY <1>12 DEF Resync1, TypeInv
  <2>2. ASSUME NEW i \in Both
        PROVE  /\ b(i) \in CursorType
               /\ b(i).pos = cursor[i].pos
               /\ b(i).callback = NO_CALLBACK
    <3>1. a(i) \in CursorType /\ a(i).pos = cursor[i].pos
      BY <1>1, <2>1, AddWatchpointType
    <3> HIDE DEF a
    <3> QED BY <3>1, SetCallbackType
  <2>3. cursor' = [[i \in Both |-> b(i)] EXCEPT ![1] = ReplayForward(@, NO_LIMIT)]
    BY <1>12 DEF Resync1
  <2> HIDE DEF b
  <2>4. \A i \in Both : cursor'[i] = IF i = 1 THEN ReplayForward(b(1), NO_LIMIT) ELSE b(i)
    BY <2>3 DEF Both
  <2>5. /\ ReplayForward(b(1), NO_LIMIT) \in CursorType
        /\ ReplayForward(b(1), NO_LIMIT).pos = cursor[1].pos
        /\ ReplayForward(b(1), NO_LIMIT).callback = NO_CALLBACK
    <3>1. b(1) \in CursorType /\ b(1).pos = cursor[1].pos /\ b(1).callback = NO_CALLBACK
      BY <2>2 DEF Both
    <3> QED BY <3>1, ReplayForwardType
  <2>6. cursor' \in [Both -> CursorType]
    BY <2>2, <2>3, <2>5
  <2>7. \A i \in Both : cursor'[i].pos = cursor[i].pos /\ cursor'[i].callback = NO_CALLBACK
    BY <2>2, <2>4, <2>5
  <2>8. \A i \in Both : cursor'[i].pos <= Len(trace'[i])
    BY <1>12, <2>6, <2>7, CursorsType DEF Resync1
  <2> QED
    BY <1>12, <2>1, <2>6, <2>7, <2>8
    DEF Resync1, stacks, search, TypeInv, TypeOK, Resyncing, Both
<1>13. CASE Resync2
  <2> DEFINE r == RemoveMemoryWatchpoint(cursor[1], ret_sync_addr)
             f == ReplayForward(cursor[2], NO_LIMIT)
  <2>1. /\ r \in CursorType /\ r.pos = cursor[1].pos /\ r.callback = cursor[1].callback
        /\ f \in CursorType /\ f.pos = cursor[2].pos /\ f.callback = cursor[2].callback
    BY <1>1, RemoveWatchpointType, ReplayForwardType DEF Both
  <2>2. \/ cursor' = [cursor EXCEPT ![1] = r, ![2] = f] /\ pc' = "resync2"
        \/ cursor' = [cursor EXCEPT ![1] = r] /\ pc' = "assert_sync"
    BY <1>13 DEF Resync2, Resyncing
  <2> HIDE DEF r, f
  <2>3. \A i \in Both : cursor'[i] \in {cursor[i], IF i = 1 THEN r ELSE f}
    BY <1>1, <2>2 DEF Both
  <2>4. cursor' \in [Both -> CursorType]
    BY <1>1, <2>1, <2>2, <2>3
  <2>5. \A i \in Both : cursor'[i].pos = cursor[i].pos /\ cursor'[i].callback = cursor[i].callback
    BY <2>1, <2>3 DEF Both
  <2>6. \A i \in Both : cursor'[i].pos <= Len(trace'[i])
    BY <1>13, <2>4, <2>5, CursorsType DEF Resync2
  <2> QED
    BY <1>13, <2>2, <2>4, <2>5, <2>6
    DEF Resync2, stacks, search, TypeInv, TypeOK, Resyncing, Both, Terminal
<1>14. CASE Restart
  <2> DEFINE r == RemoveMemoryWatchpoint(cursor[2], ret_sync_addr)
  <2>1. r \in CursorType /\ r.pos = cursor[2].pos
    BY <1>1, RemoveWatchpointType DEF Both
  <2>2. cursor' = [cursor EXCEPT ![2] = r]
    BY <1>14 DEF Restart, Rejoin
  <2> HIDE DEF r
  <2>3. cursor' \in [Both -> CursorType] /\ \A i \in Both : cursor'[i].pos = cursor[i].pos
    BY <1>1, <2>1, <2>2
  <2>4. \A i \in Both : cursor'[i].pos <= Len(trace'[i])
    BY <1>14, <2>3, CursorsType DEF Restart, Rejoin
  <2>5. UNCHANGED <<trace, snapshot, stack_high, ret_sync_addr>> /\ pc = "resync2"
    BY <1>14 DEF Restart, Rejoin, search, Resyncing
  <2>6. step_size' \in {step_size, DEFAULT_STEP_SIZE}
    BY <1>14 DEF Restart, Rejoin
  <2>7. \/ pc' \in {"assert_sync", "undefined"} /\ UNCHANGED stacks
        \/ /\ pc' = "deb"
           /\ Truncatable
           /\ func_stack' = [i \in Both |-> Truncated(func_stack[i])]
           /\ ret_stack' = [i \in Both |-> Truncated(ret_stack[i])]
    BY <1>14 DEF Restart, Rejoin
  <2>8. CASE pc' \in {"assert_sync", "undefined"} /\ UNCHANGED stacks
    BY <2>3, <2>4, <2>5, <2>6, <2>8, StepSizeAssumption DEF stacks, TypeInv, TypeOK, Terminal
  <2>9. CASE /\ pc' = "deb"
             /\ Truncatable
             /\ func_stack' = [i \in Both |-> Truncated(func_stack[i])]
             /\ ret_stack' = [i \in Both |-> Truncated(ret_stack[i])]
    <3>1. Excess \in Nat
      <4>1. Len(func_stack[1]) \in Nat /\ stack_high \in Nat /\ stack_high <= Len(func_stack[1])
        BY <2>5, LenProperties DEF TypeInv, TypeOK, Stacks, Both
      <4> QED BY <4>1 DEF Excess
    <3>2. ASSUME NEW s \in Seq(GuestAddress), Excess <= Len(s)
          PROVE  Truncated(s) \in Seq(GuestAddress) /\ Len(Truncated(s)) = Len(s) - Excess
      <4>1. Len(s) - Excess \in 0 .. Len(s)
        BY <3>1, <3>2, LenProperties
      <4> QED BY <4>1, PrefixType DEF Truncated
    <3>3. \A i \in Both : /\ Truncated(func_stack[i]) \in Seq(GuestAddress)
                         /\ Truncated(ret_stack[i]) \in Seq(GuestAddress)
                         /\ Len(Truncated(func_stack[i])) = Len(Truncated(ret_stack[i]))
      BY <2>9, <3>2 DEF Truncatable, TypeInv, TypeOK, Stacks, Paired
    <3>4. func_stack' \in Stacks /\ ret_stack' \in Stacks /\ Paired(func_stack', ret_stack')
      BY <2>9, <3>3 DEF Stacks, Paired
    <3> QED
      BY <2>3, <2>4, <2>5, <2>6, <2>9, <3>4, StepSizeAssumption DEF TypeInv, TypeOK
  <2> QED BY <2>7, <2>8, <2>9
<1>15. CASE Stopped \/ UNCHANGED vars
  BY <1>15 DEF Stopped, vars, TypeInv, TypeOK
<1> QED
  BY <1>3, <1>4, <1>5, <1>6, <1>7, <1>8, <1>9, <1>10, <1>11, <1>12, <1>13, <1>14, <1>15
  DEF Next

\* Every variable keeps its type, for any recordings and either build.
THEOREM TypeCorrect == Spec => []TypeOK
<1>1. TypeInv => TypeOK
  BY DEF TypeInv
<1> QED
  BY <1>1, InitTypeInv, NextTypeInv, PTL DEF Spec

-----------------------------------------------------------------------------
(* The search loop: rollbacks are exact, and the search stops only where   *)
(* the next instruction parts the recordings.                              *)

\* Both cursors and all vectors are where the reference says.
Here ==
  /\ \A i \in Both : cursor[i].pos = snapshot.cur[i]
  /\ func_stack = snapshot.func_stack
  /\ ret_stack = snapshot.ret_stack

\* Cursor i has made step_size - todo steps from the reference.
OnTheWay(i) ==
  /\ cursor[i].todo \in Nat
  /\ cursor[i].pos + cursor[i].todo = snapshot.cur[i] + step_size

\* The loop invariant.  Its first part says when watchpoints may cut a replay
\* short, the next three where the cursors are in each phase of an iteration,
\* the last that step_size is 0 only after an iteration with step size 1 has
\* failed from the present reference.
SearchInv ==
  /\ pc \in {"deb", "while", "forward1", "forward2", "scan", "resync"} =>
       \A i \in Both : cursor[i].watch = {}
  /\ pc = "resync1" => \A i \in Both : cursor[i].watch = {ret_sync_addr}
  /\ pc = "resync2" => cursor[1].watch = {} /\ cursor[2].watch = {ret_sync_addr}
  /\ pc \in {"while", "scan", "resync"} => Here
  /\ pc = "forward1" => OnTheWay(1) /\ cursor[2].pos = snapshot.cur[2]
  /\ pc = "forward2" => cursor[1].pos = Ahead(1, step_size) /\ OnTheWay(2)
  /\ pc \in {"deb", "forward1", "forward2"} => step_size > 0
  /\ pc \in {"scan", "resync", "resync1", "resync2", "done"} => step_size = 0
  /\ PartsAtNext

LEMMA InitSearchInv == Init => SearchInv
<1> SUFFICES ASSUME Init PROVE SearchInv
  OBVIOUS
<1>1. \A i \in Both : cursor[i].watch = {}
  BY DEF Init, NewCursor
<1>2. step_size > 0 /\ step_size \in Nat
  BY StepSizeAssumption DEF Init
<1> QED BY <1>1, <1>2 DEF Init, SearchInv, PartsAtNext

\* When ReplayForward returns, cursor i is step_size instructions after the
\* reference, or at the end of the recording.
LEMMA Lands ==
  ASSUME TypeInv, NEW i \in Both, OnTheWay(i), Returned(i),
         pc \in {"forward1", "forward2"}
  PROVE  cursor[i].pos = Ahead(i, step_size)
<1>1. /\ Len(trace[i]) \in Nat /\ cursor[i].pos \in 1 .. Len(trace[i])
      /\ snapshot.cur[i] \in 1 .. Len(trace[i])
  BY TraceType DEF TypeInv
<1>2. step_size \in Nat
  BY StepSizeAssumption DEF TypeInv, TypeOK
<1>3. cursor[i].todo = 0 \/ ~ (cursor[i].pos < Len(trace[i]))
  BY DEF Returned, CanStep, GetLastPosition
<1> QED BY <1>1, <1>2, <1>3 DEF OnTheWay, Ahead

LEMMA ReplayStepSearchInv ==
  ASSUME TypeInv, SearchInv, NEW i \in Both, ReplayStep(i)
  PROVE  SearchInv'
<1> DEFINE c == Step(trace[i], cursor[i])
<1>1. cursor \in [Both -> CursorType] /\ cursor[i] \in CursorType /\ Len(trace[i]) \in Nat
  BY TraceType DEF TypeInv, TypeOK
<1>2. /\ c.pos = cursor[i].pos + 1
      /\ c.watch = cursor[i].watch
      /\ c.todo = TodoAfterStep(trace[i], cursor[i])
  <2>1. CanStep(cursor[i], Len(trace[i]))
    BY DEF ReplayStep, GetLastPosition
  <2> QED BY <1>1, <2>1, StepType
<1>3. /\ UNCHANGED <<trace, snapshot, step_size, stack_high, ret_sync_addr>>
      /\ cursor' = [cursor EXCEPT ![i] = c]
  BY DEF ReplayStep, search
<1> HIDE DEF c
<1>4. \A j \in Both : cursor'[j] = IF j = i THEN c ELSE cursor[j]
  BY <1>1, <1>3
<1>5. \A j \in Both : cursor'[j].watch = cursor[j].watch
  BY <1>2, <1>4
<1>6. pc' \in {pc, "assert_ret"}
  <2>1. trace[i][cursor[i].pos] \in Instruction
    BY TraceType
  <2> QED BY <2>1 DEF ReplayStep, stacks, callCallback_diff, PopCall, PushCall
<1>7. PartsAtNext <=> PartsAtNext'
  BY <1>3 DEF PartsAtNext, Ahead
<1>8. CASE pc = Forwarding[i]
  <2>1. OnTheWay(i) /\ cursor[i].watch = {}
    BY <1>8 DEF SearchInv, Forwarding, Both
  <2>2. cursor[i].todo \in Nat \ {0} /\ cursor[i].pos \in Nat /\ snapshot.cur[i] \in Nat
    BY <1>1, <2>1 DEF OnTheWay, ReplayStep, CanStep, CursorType, TypeInv, TypeOK
  <2>3. c.todo = cursor[i].todo - 1
    BY <1>2, <2>1, <2>2 DEF TodoAfterStep, NO_LIMIT
  <2>4. OnTheWay(i)'
    BY <1>2, <1>3, <1>4, <2>1, <2>2, <2>3 DEF OnTheWay
  <2>5. \A j \in Both : j # i => cursor'[j] = cursor[j]
    BY <1>4
  <2>6. step_size' > 0 /\ step_size \in Nat
    BY <1>3, <1>8, StepSizeAssumption DEF SearchInv, Forwarding, Both, TypeInv, TypeOK
  <2>7. CASE i = 1
    BY <1>3, <1>5, <1>6, <1>8, <2>4, <2>5, <2>6, <2>7 DEF SearchInv, Forwarding, Both, PartsAtNext
  <2>8. CASE i = 2
    <3>1. Ahead(1, step_size)' = Ahead(1, step_size)
      BY <1>3 DEF Ahead
    <3> QED
      BY <1>3, <1>5, <1>6, <1>8, <2>4, <2>5, <2>6, <2>8, <3>1 DEF SearchInv, Forwarding, Both, PartsAtNext
  <2> QED BY <2>7, <2>8 DEF Both
<1>9. CASE pc = Resyncing[i]
  <2>1. pc \in {"resync1", "resync2"}
    BY <1>9 DEF Resyncing, Both
  <2>2. PartsAtNext'
    BY <1>7, <2>1 DEF SearchInv
  <2> QED
    BY <1>3, <1>5, <1>6, <2>1, <2>2 DEF SearchInv, Both
<1> QED
  BY <1>8, <1>9 DEF ReplayStep

LEMMA NextSearchInv == TypeInv /\ SearchInv /\ [Next]_vars => SearchInv'
<1> SUFFICES ASSUME TypeInv, SearchInv, [Next]_vars PROVE SearchInv'
  OBVIOUS
<1>1. cursor \in [Both -> CursorType] /\ \A i \in Both : cursor[i] \in CursorType
  BY DEF TypeInv, TypeOK
<1>3. CASE Deb
  <2>1. \A i \in Both : i \in Nat \cup {NO_CALLBACK}
    BY DEF Both
  <2>2. \A i \in Both : /\ cursor'[i].watch = cursor[i].watch
                       /\ cursor'[i].pos = cursor[i].pos
    BY <1>1, <1>3, <2>1, SetCallbackType DEF Deb
  <2> QED
    BY <1>3, <2>2 DEF Deb, takeSnapshot, stacks, search, SearchInv, Here, PartsAtNext
<1>4. CASE Forward1
  <2>1. step_size \in Nat /\ step_size > 0
    BY <1>4 DEF Forward1, TypeInv, TypeOK
  <2>2. LET f == ReplayForward(cursor[1], step_size)
        IN  f.pos = cursor[1].pos /\ f.todo = step_size /\ f.watch = cursor[1].watch
    BY <1>1, <2>1, ReplayForwardType DEF Both
  <2>3. /\ cursor'[1].pos = cursor[1].pos /\ cursor'[1].todo = step_size
        /\ cursor'[1].watch = cursor[1].watch /\ cursor'[2] = cursor[2]
    BY <1>1, <1>4, <2>2 DEF Forward1, Both
  <2> QED
    BY <1>4, <2>1, <2>3
    DEF Forward1, stacks, search, SearchInv, Here, OnTheWay, PartsAtNext, Forwarding, Both
<1>5. CASE Forward2
  <2>1. step_size \in Nat /\ step_size > 0 /\ pc = "forward1"
    BY <1>5 DEF Forward2, SearchInv, TypeInv, TypeOK, Forwarding
  <2>2. cursor[1].pos = Ahead(1, step_size)
    BY <1>5, <2>1, Lands DEF Forward2, SearchInv, Both
  <2>3. LET f == ReplayForward(cursor[2], step_size)
        IN  f.pos = cursor[2].pos /\ f.todo = step_size /\ f.watch = cursor[2].watch
    BY <1>1, <2>1, ReplayForwardType DEF Both
  <2>4. /\ cursor'[2].pos = cursor[2].pos /\ cursor'[2].todo = step_size
        /\ cursor'[2].watch = cursor[2].watch /\ cursor'[1] = cursor[1]
    BY <1>1, <1>5, <2>3 DEF Forward2, Both
  <2>5. Ahead(1, step_size)' = Ahead(1, step_size)
    BY <1>5 DEF Forward2, Ahead
  <2> QED
    BY <1>5, <2>1, <2>2, <2>4, <2>5
    DEF Forward2, stacks, search, SearchInv, OnTheWay, PartsAtNext, Forwarding, Both
<1>6. CASE \E i \in Both : ReplayStep(i)
  BY <1>6, ReplayStepSearchInv
<1>7. CASE Compare
  <2>1. /\ pc = "forward2" /\ pc' = "while" /\ trace' = trace
        /\ step_size \in Nat /\ step_size > 0
    BY <1>7 DEF Compare, Reconcile, Forwarding, SearchInv, TypeInv, TypeOK
  <2>2. \A i \in Both : cursor[i].pos = Ahead(i, step_size)
    BY <1>7, <2>1, Lands DEF Compare, Reconcile, SearchInv, Both
  <2>3. \A i \in Both : snapshot.cur[i] \in Nat \ {0} /\ cursor[i].watch = {}
    BY <2>1, TraceType DEF SearchInv, TypeInv
  <2>4. CASE PC(1) # PC(2)
    <3>1. restoreSnapshot /\ step_size' = step_size \div 2 /\ snapshot' = snapshot
      BY <1>7, <2>4 DEF Compare, Reconcile
    <3>2. \A i \in Both : cursor'[i].pos = snapshot.cur[i] /\ cursor'[i].watch = {}
      BY <1>1, <2>3, <3>1, SetPositionType DEF restoreSnapshot
    <3>3. Here'
      BY <3>1, <3>2 DEF Here, restoreSnapshot
    <3>4. step_size' = 0 => step_size = 1
      BY <2>1, <3>1
    <3>5. step_size' = 0 => trace[1][Ahead(1, 1)].pc # trace[2][Ahead(2, 1)].pc
      BY <2>2, <2>4, <3>4 DEF PC, GetProgramCounter, Both
    <3>6. PartsAtNext'
      BY <2>1, <3>1, <3>5 DEF PartsAtNext, Ahead
    <3> QED BY <2>1, <3>2, <3>3, <3>6 DEF SearchInv
  <2>5. CASE PC(1) = PC(2)
    <3>1. takeSnapshot /\ UNCHANGED <<cursor, stacks, step_size>>
      BY <1>7, <2>5 DEF Compare, Reconcile
    <3>2. Here'
      BY <3>1 DEF takeSnapshot, stacks, Here
    <3> QED BY <2>1, <2>3, <3>1, <3>2 DEF SearchInv, PartsAtNext
  <2> QED BY <2>4, <2>5
<1>8. CASE Report
  BY <1>8 DEF Report, stacks, search, SearchInv, Here, PartsAtNext, Ahead
<1>9. CASE ScanFrame
  BY <1>9 DEF ScanFrame, stacks, SearchInv, Here, PartsAtNext, Ahead
<1>10. CASE ScanOutOfBounds \/ ScanEnd
  BY <1>10 DEF ScanOutOfBounds, ScanEnd, stacks, search, SearchInv, Here, PartsAtNext, Ahead
<1>11. CASE Resync1
  <2> DEFINE a(i) == AddMemoryWatchpoint(cursor[i], ret_sync_addr)
             b(i) == SetCallReturnCallback(a(i), NO_CALLBACK)
  <2>1. ret_sync_addr \in GuestAddress /\ pc = "resync"
    BY <1>11 DEF Resync1, TypeInv
  <2>2. ASSUME NEW i \in Both
        PROVE  b(i) \in CursorType /\ b(i).watch = {ret_sync_addr}
    <3>1. a(i) \in CursorType /\ a(i).watch = {ret_sync_addr}
      <4>1. cursor[i].watch = {}
        BY <2>1 DEF SearchInv
      <4> QED BY <1>1, <2>1, <4>1, AddWatchpointType
    <3> HIDE DEF a
    <3> QED BY <3>1, SetCallbackType
  <2>3. cursor' = [[i \in Both |-> b(i)] EXCEPT ![1] = ReplayForward(@, NO_LIMIT)]
    BY <1>11 DEF Resync1
  <2> HIDE DEF b
  <2>4. \A i \in Both : cursor'[i] = IF i = 1 THEN ReplayForward(b(1), NO_LIMIT) ELSE b(i)
    BY <2>3 DEF Both
  <2>5. ReplayForward(b(1), NO_LIMIT).watch = {ret_sync_addr}
    <3>1. b(1) \in CursorType /\ b(1).watch = {ret_sync_addr}
      BY <2>2 DEF Both
    <3> QED BY <3>1, ReplayForwardType
  <2>6. \A i \in Both : cursor'[i].watch = {ret_sync_addr}
    BY <2>2, <2>4, <2>5
  <2> QED
    BY <1>11, <2>1, <2>6
    DEF Resync1, stacks, search, SearchInv, PartsAtNext, Ahead, Resyncing
<1>12. CASE Resync2
  <2> DEFINE r == RemoveMemoryWatchpoint(cursor[1], ret_sync_addr)
             f == ReplayForward(cursor[2], NO_LIMIT)
  <2>1. \A i \in Both : cursor[i].watch = {ret_sync_addr}
    BY <1>12 DEF Resync2, SearchInv, Resyncing
  <2>2. r.watch = {} /\ f.watch = {ret_sync_addr}
    <3>1. /\ cursor[1] \in CursorType /\ cursor[1].watch = {ret_sync_addr}
          /\ cursor[2] \in CursorType /\ cursor[2].watch = {ret_sync_addr}
      BY <1>1, <2>1 DEF Both
    <3>2. r.watch = {}
      BY <3>1, RemoveWatchpointType
    <3>3. f.watch = {ret_sync_addr}
      BY <3>1, ReplayForwardType
    <3> QED BY <3>2, <3>3
  <2>3. \/ cursor' = [cursor EXCEPT ![1] = r, ![2] = f] /\ pc' = "resync2"
        \/ pc' = "assert_sync"
    BY <1>12 DEF Resync2, Resyncing
  <2> HIDE DEF r, f
  <2>4. pc' = "resync2" => cursor'[1].watch = {} /\ cursor'[2].watch = {ret_sync_addr}
    BY <1>1, <2>2, <2>3 DEF Both
  <2> QED
    BY <1>12, <2>3, <2>4
    DEF Resync2, stacks, search, SearchInv, PartsAtNext, Ahead, Resyncing
<1>13. CASE Restart
  <2> DEFINE r == RemoveMemoryWatchpoint(cursor[2], ret_sync_addr)
  <2>1. pc = "resync2" /\ cursor[1].watch = {} /\ cursor[2].watch = {ret_sync_addr}
    BY <1>13 DEF Restart, Rejoin, SearchInv, Resyncing
  <2>2. r.watch = {}
    BY <1>1, <2>1, RemoveWatchpointType DEF Both
  <2>3. cursor' = [cursor EXCEPT ![2] = r] /\ UNCHANGED <<trace, snapshot>>
    BY <1>13 DEF Restart, Rejoin
  <2> HIDE DEF r
  <2>4. \A i \in Both : cursor'[i].watch = {}
    BY <1>1, <2>1, <2>2, <2>3 DEF Both
  <2>5. \/ pc' = "assert_sync" /\ step_size' = step_size
        \/ pc' \in {"deb", "undefined"} /\ step_size' = DEFAULT_STEP_SIZE
    BY <1>13 DEF Restart, Rejoin
  <2> QED
    BY <2>3, <2>4, <2>5, StepSizeAssumption DEF SearchInv, PartsAtNext, Ahead
<1>14. CASE Stopped \/ UNCHANGED vars
  BY <1>14 DEF Stopped, vars, SearchInv, Here, OnTheWay, PartsAtNext, Ahead
<1> QED
  BY <1>3, <1>4, <1>5, <1>6, <1>7, <1>8, <1>9, <1>10, <1>11, <1>12, <1>13, <1>14 DEF Next

LEMMA SpecSearchInv == Spec => [](TypeInv /\ SearchInv)
  BY InitTypeInv, NextTypeInv, InitSearchInv, NextSearchInv, PTL DEF Spec

\* Whatever the recordings, a rollback brings the cursors and the stacks back
\* to exactly what they were at the reference.
THEOREM RollbackExact == Spec => []AtReference
<1>1. SearchInv => AtReference
  BY DEF SearchInv, Here, AtReference
<1> QED
  BY <1>1, SpecSearchInv, PTL

\* Whatever the recordings, when the search stops at a reference the next
\* instruction parts them: halving any step size passes through 1, and nothing
\* moves the reference after step size 1 has failed.
THEOREM SearchPrecise == Spec => []PartsAtNext
<1>1. SearchInv => PartsAtNext
  BY DEF SearchInv
<1> QED
  BY <1>1, SpecSearchInv, PTL

-----------------------------------------------------------------------------
(* Well-behaved recordings: as long as Skippable holds, the stacks that the *)
(* callback builds are the open calls, through every rollback and every    *)
(* resynchronisation, every reference is a sync point, and nothing fails   *)
(* but what NoFailure says.                                                *)

\* The stacks of recording i are the calls open at position p.
OpenAt(i, p, funcs, rets) ==
  /\ funcs[i] = trace[i][p].funcs
  /\ rets[i] = trace[i][p].rets

InSync(p1, p2) == trace[1][p1].pc = trace[2][p2].pc

\* Frame g of the two stacks, counted from 1, is one call to a known function.
CommonKnown(g) ==
  /\ func_stack[1][g] = func_stack[2][g]
  /\ ret_stack[1][g] = ret_stack[2][g]
  /\ func_stack[1][g] \in KNOWN_FUNC

\* The frame under consideration is in both stacks, with a known function, and
\* ret_sync_addr is where it returns.
FoundFrame ==
  /\ stack_high + 1 \in 1 .. Len(func_stack[1])
  /\ stack_high + 1 <= Len(func_stack[2])
  /\ SameFrame
  /\ KnownFrame
  /\ ret_sync_addr = ret_stack[1][stack_high + 1]

\* Cursor i has not met ret_sync_addr since the reference, or has just met it.
Seeking(i) ==
  /\ cursor[i].pos >= snapshot.cur[i]
  /\ \/ /\ cursor[i].todo = NO_LIMIT
        /\ \A j \in snapshot.cur[i] + 1 .. cursor[i].pos :
             trace[i][j].pc # ret_sync_addr
     \/ /\ cursor[i].todo = 0
        /\ FirstAfter(trace[i], snapshot.cur[i], ret_sync_addr, cursor[i].pos)

Reached(i) == FirstAfter(trace[i], snapshot.cur[i], ret_sync_addr, cursor[i].pos)

\* The frames that the scan has passed are in both stacks and none of them is a
\* common known call, so the one it finds is the outermost.
StackInv ==
  /\ NoFailure
  /\ pc \notin {"resync1", "resync2"} =>
       \A i \in Both : OpenAt(i, cursor[i].pos, func_stack, ret_stack)
  /\ pc = "deb" => InSync(cursor[1].pos, cursor[2].pos)
  /\ pc # "deb" =>
       /\ InSync(snapshot.cur[1], snapshot.cur[2])
       /\ \A i \in Both :
            OpenAt(i, snapshot.cur[i], snapshot.func_stack, snapshot.ret_stack)
  /\ pc \in {"while", "forward1", "forward2", "scan", "resync"} =>
       \A i \in Both : cursor[i].callback = i
  /\ pc \in {"scan", "resync", "resync1", "resync2"} =>
       /\ stack_high <= Len(func_stack[2])
       /\ \A g \in 1 .. stack_high : ~ CommonKnown(g)
  /\ pc \in {"resync", "resync1", "resync2"} =>
       /\ FoundFrame
       /\ func_stack = snapshot.func_stack
       /\ ret_stack = snapshot.ret_stack
  /\ pc = "resync1" => Seeking(1) /\ cursor[2].pos = snapshot.cur[2]
  /\ pc = "resync2" => Reached(1) /\ Seeking(2)

\* What is assumed of the two recordings being compared.
LEMMA Behaved ==
  ASSUME WellBehaved, TypeInv
  PROVE  /\ \A i \in Both : WellNested(trace[i])
         /\ trace[1][1].pc = trace[2][1].pc
  BY DEF WellBehaved, TypeInv, TypeOK

LEMMA InitStackInv == WellBehaved /\ Init => StackInv
<1> SUFFICES ASSUME WellBehaved, Init PROVE StackInv
  OBVIOUS
<1>1. TypeInv
  BY InitTypeInv
<1>2. \A i \in Both : cursor[i].pos = 1
  BY DEF Init, NewCursor
<1>3. \A i \in Both : trace[i][1].funcs = <<>> /\ trace[i][1].rets = <<>>
  BY <1>1, Behaved DEF WellNested
<1>4. InSync(1, 1)
  BY <1>1, Behaved DEF InSync
<1>5. \A i \in Both : OpenAt(i, 1, func_stack, ret_stack)
  BY <1>3 DEF OpenAt, Init
<1> QED
  BY <1>2, <1>4, <1>5 DEF StackInv, Init, NoFailure, Both

\* One instruction replayed in the search: the callback does to the stacks what
\* the instruction does to the open calls, and its assertion holds.
LEMMA CallbackMirrors ==
  ASSUME WellBehaved, TypeInv, NEW i \in Both, ReplayStep(i),
         cursor[i].callback = i,
         OpenAt(i, cursor[i].pos, func_stack, ret_stack)
  PROVE  /\ pc' = pc
         /\ OpenAt(i, cursor[i].pos + 1, func_stack', ret_stack')
         /\ \A j \in Both : j # i => func_stack'[j] = func_stack[j] /\ ret_stack'[j] = ret_stack[j]
<1> DEFINE k == cursor[i].pos
           e == trace[i][k]
           n == trace[i][k + 1]
<1>1. k \in 1 .. Len(trace[i]) - 1
  BY TraceType DEF ReplayStep, CanStep, GetLastPosition
<1>2. NestedStep(trace[i], k)
  BY <1>1, Behaved DEF WellNested
<1>3. func_stack[i] = e.funcs /\ ret_stack[i] = e.rets
  BY DEF OpenAt
<1>4. func_stack \in Stacks /\ ret_stack \in Stacks /\ Len(func_stack[i]) = Len(ret_stack[i])
  BY DEF TypeInv, TypeOK, Paired
<1>5. i # NO_CALLBACK
  BY DEF Both, NO_CALLBACK
<1>6. CASE e.addr_func = NULL
  BY <1>2, <1>3, <1>6 DEF ReplayStep, stacks, NestedStep, OpenAt
<1>7. CASE e.addr_func # NULL /\ e.addr_ret # NULL
  <2>1. PushCall(i, e.addr_func, e.addr_ret)
    BY <1>5, <1>7 DEF ReplayStep, callCallback_diff
  <2>2. /\ func_stack'[i] = Append(e.funcs, e.addr_func)
        /\ ret_stack'[i] = Append(e.rets, e.addr_ret)
        /\ \A j \in Both : j # i => func_stack'[j] = func_stack[j] /\ ret_stack'[j] = ret_stack[j]
        /\ pc' = pc
    BY <1>3, <1>4, <2>1 DEF PushCall, Stacks
  <2> QED BY <1>2, <1>7, <2>2 DEF NestedStep, OpenAt
<1>8. CASE e.addr_func # NULL /\ e.addr_ret = NULL
  <2>1. PopCall(i, e.addr_func)
    BY <1>5, <1>8 DEF ReplayStep, callCallback_diff
  <2>2. CASE e.funcs = <<>>
    <3>1. UNCHANGED <<func_stack, ret_stack, pc>>
      BY <1>3, <2>1, <2>2 DEF PopCall, stacks
    <3>2. ret_stack[i] = <<>>
      BY <1>3, <1>4, <2>2, EmptySeq DEF Stacks
    <3> QED BY <1>2, <1>3, <1>8, <2>2, <3>1, <3>2 DEF NestedStep, OpenAt
  <2>3. CASE e.funcs # <<>>
    <3>1. func_stack[i] # <<>> /\ ret_stack[i] # <<>>
      BY <1>3, <1>4, <2>3, EmptySeq DEF Stacks
    <3>2. /\ func_stack' = [func_stack EXCEPT ![i] = Pop(@)]
          /\ ret_stack' = [ret_stack EXCEPT ![i] = Pop(@)]
          /\ pc' = IF e.addr_func = Top(ret_stack[i]) \/ NDEBUG THEN pc ELSE "assert_ret"
      BY <2>1, <3>1 DEF PopCall
    <3>3. /\ n.funcs = Pop(e.funcs) /\ n.rets = Pop(e.rets)
          /\ e.addr_func = Top(e.rets)
      BY <1>2, <1>8, <2>3 DEF NestedStep
    <3>4. /\ func_stack'[i] = Pop(e.funcs) /\ ret_stack'[i] = Pop(e.rets)
          /\ \A j \in Both : j # i => func_stack'[j] = func_stack[j] /\ ret_stack'[j] = ret_stack[j]
      BY <1>3, <1>4, <3>2 DEF Stacks
    <3> QED BY <1>3, <3>2, <3>3, <3>4 DEF OpenAt
  <2> QED BY <2>2, <2>3
<1> QED BY <1>6, <1>7, <1>8

\* One instruction replayed in the fast-forward.
LEMMA SeekStep ==
  ASSUME TypeInv, NEW i \in Both, ReplayStep(i), Seeking(i),
         cursor[i].watch = {ret_sync_addr}
  PROVE  Seeking(i)'
<1> DEFINE c == Step(trace[i], cursor[i])
           k == cursor[i].pos
<1>1. cursor \in [Both -> CursorType] /\ cursor[i] \in CursorType /\ Len(trace[i]) \in Nat
  BY TraceType DEF TypeInv, TypeOK
<1>2. CanStep(cursor[i], Len(trace[i]))
  BY DEF ReplayStep, GetLastPosition
<1>3. c.pos = k + 1 /\ c.todo = TodoAfterStep(trace[i], cursor[i])
  BY <1>1, <1>2, StepType
<1>4. cursor'[i] = c
  BY <1>1 DEF ReplayStep
<1>5. UNCHANGED <<trace, snapshot, ret_sync_addr>>
  BY DEF ReplayStep, search
<1>6. cursor[i].todo = NO_LIMIT /\ \A j \in snapshot.cur[i] + 1 .. k : trace[i][j].pc # ret_sync_addr
  BY <1>2 DEF Seeking, CanStep
<1>7. k \in Nat /\ snapshot.cur[i] \in Nat /\ k >= snapshot.cur[i]
  BY <1>1 DEF CursorType, TypeInv, TypeOK, Seeking
<1> HIDE DEF c
<1>8. cursor'[i].pos >= snapshot'.cur[i]
  BY <1>3, <1>4, <1>5, <1>7
<1>9. CASE trace[i][k + 1].pc = ret_sync_addr
  <2>1. c.todo = 0
    BY <1>3, <1>9 DEF TodoAfterStep
  <2>2. FirstAfter(trace[i], snapshot.cur[i], ret_sync_addr, k + 1)
    BY <1>6, <1>7, <1>9 DEF FirstAfter
  <2> QED BY <1>3, <1>4, <1>5, <1>8, <2>1, <2>2 DEF Seeking
<1>10. CASE trace[i][k + 1].pc # ret_sync_addr
  <2>1. c.todo = NO_LIMIT
    BY <1>3, <1>6, <1>10 DEF TodoAfterStep
  <2>2. \A j \in snapshot.cur[i] + 1 .. k + 1 : trace[i][j].pc # ret_sync_addr
    BY <1>6, <1>7, <1>10
  <2> QED BY <1>3, <1>4, <1>5, <1>8, <2>1, <2>2 DEF Seeking
<1> QED BY <1>9, <1>10

\* The fast-forward ends at the return of the call that was found: it returns
\* before the recording ends.
LEMMA SeekEnds ==
  ASSUME TypeInv, NEW i \in Both, ReturnsFrom(trace[i], snapshot.cur[i], stack_high + 1),
         Reached(i) \/ (Seeking(i) /\ Returned(i)), FoundFrame,
         pc \in {"resync1", "resync2"},
         OpenAt(i, snapshot.cur[i], func_stack, ret_stack),
         stack_high + 1 \in 1 .. Len(func_stack[i])
  PROVE  /\ Reached(i)
         /\ cursor[i].pos \in 1 .. Len(trace[i])
         /\ PC(i) = ret_sync_addr
         /\ trace[i][cursor[i].pos].funcs = SubSeq(func_stack[i], 1, stack_high)
         /\ trace[i][cursor[i].pos].rets = SubSeq(ret_stack[i], 1, stack_high)
<1> DEFINE s == snapshot.cur[i]
           q == cursor[i].pos
<1>1. s \in 1 .. Len(trace[i]) /\ q \in 1 .. Len(trace[i]) /\ Len(trace[i]) \in Nat /\ q >= s
  BY TraceType DEF TypeInv, Seeking, Reached, FirstAfter
<1>2. trace[i][s].rets[stack_high + 1] = ret_sync_addr
  BY DEF FoundFrame, SameFrame, OpenAt, Both
<1>3. PICK p \in s + 1 .. Len(trace[i]) :
        /\ FirstAfter(trace[i], s, ret_sync_addr, p)
        /\ trace[i][p].funcs = SubSeq(trace[i][s].funcs, 1, stack_high)
        /\ trace[i][p].rets = SubSeq(trace[i][s].rets, 1, stack_high)
  <2>1. (stack_high + 1) - 1 = stack_high
    BY DEF TypeInv, TypeOK
  <2> QED
    BY <1>2, <2>1 DEF ReturnsFrom
<1>4. q = p
  <2>1. CASE Reached(i) \/ cursor[i].todo = 0
    <3>1. FirstAfter(trace[i], s, ret_sync_addr, q)
      BY <2>1 DEF Reached, Seeking, NO_LIMIT
    <3>2. q \in Nat /\ p \in Nat /\ s \in Nat
      BY <1>1
    <3>3. ASSUME q < p PROVE FALSE
      <4>1. q \in s + 1 .. p - 1 /\ trace[i][q].pc = ret_sync_addr
        BY <3>1, <3>2, <3>3 DEF FirstAfter
      <4> QED BY <1>3, <4>1 DEF FirstAfter
    <3>4. ASSUME p < q PROVE FALSE
      <4>1. p \in s + 1 .. q - 1 /\ trace[i][p].pc = ret_sync_addr
        BY <1>3, <3>2, <3>4 DEF FirstAfter
      <4> QED BY <3>1, <4>1 DEF FirstAfter
    <3> HIDE DEF q
    <3> QED
      BY <3>2, <3>3, <3>4
  <2>2. CASE ~ (Reached(i) \/ cursor[i].todo = 0)
    <3>1. q = Len(trace[i])
      BY <1>1, <2>2 DEF Returned, CanStep, GetLastPosition
    <3>2. \A j \in s + 1 .. q : trace[i][j].pc # ret_sync_addr
      BY <2>2 DEF Seeking
    <3> QED BY <1>3, <3>1, <3>2 DEF FirstAfter
  <2> QED BY <2>1, <2>2
<1>5. FirstAfter(trace[i], s, ret_sync_addr, q)
  BY <1>3, <1>4
<1>6. q \in s + 1 .. Len(trace[i])
  BY <1>1, <1>5 DEF FirstAfter
<1> QED
  BY <1>1, <1>3, <1>4, <1>5, <1>6 DEF Reached, FirstAfter, PC, GetProgramCounter, OpenAt

LEMMA ReplayStepStackInv ==
  ASSUME WellBehaved, TypeInv, SearchInv, StackInv, NEW i \in Both, ReplayStep(i)
  PROVE  StackInv'
<1>1. cursor \in [Both -> CursorType] /\ cursor[i] \in CursorType /\ Len(trace[i]) \in Nat
  BY TraceType DEF TypeInv, TypeOK
<1>2. CanStep(cursor[i], Len(trace[i]))
  BY DEF ReplayStep, GetLastPosition
<1>3. /\ cursor'[i].pos = cursor[i].pos + 1
      /\ cursor'[i].callback = cursor[i].callback
      /\ \A j \in Both : j # i => cursor'[j] = cursor[j]
  <2>1. /\ Step(trace[i], cursor[i]).pos = cursor[i].pos + 1
        /\ Step(trace[i], cursor[i]).callback = cursor[i].callback
    BY <1>1, <1>2, StepType
  <2> QED BY <1>1, <2>1 DEF ReplayStep
<1>4. UNCHANGED <<trace, snapshot, step_size, stack_high, ret_sync_addr>>
  BY DEF ReplayStep, search
<1>5. CASE pc = Forwarding[i]
  <2>1. pc \in {"forward1", "forward2"}
    BY <1>5 DEF Forwarding, Both
  <2>2. /\ cursor[i].callback = i
        /\ \A j \in Both : OpenAt(j, cursor[j].pos, func_stack, ret_stack)
    BY <2>1 DEF StackInv
  <2>3. /\ pc' = pc
        /\ OpenAt(i, cursor[i].pos + 1, func_stack', ret_stack')
        /\ \A j \in Both : j # i => func_stack'[j] = func_stack[j] /\ ret_stack'[j] = ret_stack[j]
    BY <2>2, CallbackMirrors
  <2>4. \A j \in Both : OpenAt(j, cursor[j].pos, func_stack, ret_stack)'
    BY <1>3, <1>4, <2>2, <2>3 DEF OpenAt
  <2>5. \A j \in Both : cursor'[j].callback = cursor[j].callback
    BY <1>3
  <2> QED
    BY <1>4, <2>1, <2>3, <2>4, <2>5 DEF StackInv, NoFailure, InSync, OpenAt
<1>6. CASE pc = Resyncing[i]
  <2>1. pc \in {"resync1", "resync2"} /\ cursor[i].callback = NO_CALLBACK
    BY <1>6 DEF Resyncing, Both, TypeInv
  <2>2. UNCHANGED <<func_stack, ret_stack, pc>>
    BY <2>1 DEF ReplayStep, stacks
  <2>3. Seeking(i) /\ cursor[i].watch = {ret_sync_addr}
    BY <1>6, <2>1 DEF StackInv, SearchInv, Resyncing, Both
  <2>4. Seeking(i)'
    BY <2>3, SeekStep
  <2>5. /\ FoundFrame'
        /\ stack_high' <= Len(func_stack'[2])
        /\ \A g \in 1 .. stack_high' : ~ CommonKnown(g)'
    BY <1>4, <2>1, <2>2 DEF StackInv, FoundFrame, SameFrame, KnownFrame, CommonKnown
  <2>6. CASE i = 1
    BY <1>3, <1>4, <1>6, <2>1, <2>2, <2>4, <2>5, <2>6
    DEF StackInv, NoFailure, InSync, OpenAt, Resyncing, Both
  <2>7. CASE i = 2
    <3>1. Reached(1)'
      BY <1>3, <1>4, <1>6, <2>7 DEF StackInv, Reached, Resyncing, Both
    <3> QED
      BY <1>4, <1>6, <2>1, <2>2, <2>4, <2>5, <2>7, <3>1
      DEF StackInv, NoFailure, InSync, OpenAt, Resyncing, Both
  <2> QED BY <2>6, <2>7 DEF Both
<1> QED BY <1>5, <1>6 DEF ReplayStep

\* While the stacks are searched, and until the search restarts, they are the
\* calls open at the reference: the calls of SyncSearch are the frames.
LEMMA FramesAreCalls ==
  ASSUME TypeInv, SearchInv, StackInv, pc \in {"scan", "resync", "resync1", "resync2"}
  PROVE  /\ \A i \in Both : OpenAt(i, snapshot.cur[i], func_stack, ret_stack)
         /\ Search!Levels = 1 .. Len(func_stack[1])
         /\ \A h \in 1 .. Len(func_stack[1]) :
              Search!KnownCall(h) <=> h <= Len(func_stack[2]) /\ CommonKnown(h)
         /\ ~ Search!Meets(1)
<1>1. /\ \A i \in Both : OpenAt(i, snapshot.cur[i], func_stack, ret_stack)
      /\ step_size = 0
      /\ pc # "deb"
  BY DEF StackInv, SearchInv, Here, OpenAt
<1>2. Search!Levels = 1 .. Len(func_stack[1])
  BY <1>1 DEF Search!Levels, OpenAt, Both
<1>3. ASSUME NEW h \in 1 .. Len(func_stack[1])
      PROVE  Search!KnownCall(h) <=> h <= Len(func_stack[2]) /\ CommonKnown(h)
  <2>1. Search!KnownCall(h) <=>
          /\ \A i \in 1 .. 2 : h <= Len(trace[i][snapshot.cur[i]].funcs)
          /\ trace[1][snapshot.cur[1]].funcs[h] = trace[2][snapshot.cur[2]].funcs[h]
          /\ trace[1][snapshot.cur[1]].rets[h] = trace[2][snapshot.cur[2]].rets[h]
          /\ trace[1][snapshot.cur[1]].funcs[h] \in KNOWN_FUNC
    BY <1>1 DEF Search!KnownCall
  <2>2. h <= Len(func_stack[1])
    BY <1>3
  <2>3. /\ trace[1][snapshot.cur[1]].funcs = func_stack[1]
        /\ trace[1][snapshot.cur[1]].rets = ret_stack[1]
        /\ trace[2][snapshot.cur[2]].funcs = func_stack[2]
        /\ trace[2][snapshot.cur[2]].rets = ret_stack[2]
    BY <1>1 DEF OpenAt, Both
  <2>4. (\A i \in 1 .. 2 : h <= Len(trace[i][snapshot.cur[i]].funcs)) <=> h <= Len(func_stack[2])
    <3>1. (\A i \in 1 .. 2 : h <= Len(trace[i][snapshot.cur[i]].funcs))
          <=> /\ h <= Len(trace[1][snapshot.cur[1]].funcs)
              /\ h <= Len(trace[2][snapshot.cur[2]].funcs)
      OBVIOUS
    <3> QED BY <2>2, <2>3, <3>1
  <2> QED BY <2>1, <2>3, <2>4 DEF CommonKnown
<1>4. ~ Search!Meets(1)
  BY <1>1 DEF SearchInv, PartsAtNext, Ahead, Search!Meets, Search!Ahead
<1> QED BY <1>1, <1>2, <1>3, <1>4

\* What Skippable says of the call that was found: both recordings are equally deep
\* in calls and return from it.
LEMMA FoundReturns ==
  ASSUME TypeInv, SearchInv, StackInv, Skippable, pc \in {"resync", "resync1", "resync2"}
  PROVE  /\ Len(func_stack[1]) = Len(func_stack[2])
         /\ \A i \in Both : /\ OpenAt(i, snapshot.cur[i], func_stack, ret_stack)
                            /\ ReturnsFrom(trace[i], snapshot.cur[i], stack_high + 1)
                            /\ stack_high + 1 \in 1 .. Len(func_stack[i])
<1> DEFINE h == stack_high + 1
<1>1. /\ FoundFrame /\ step_size = 0 /\ stack_high \in Nat
      /\ \A g \in 1 .. stack_high : ~ CommonKnown(g)
      /\ Len(func_stack[1]) \in Nat /\ Len(func_stack[2]) \in Nat
  BY LenProperties DEF StackInv, SearchInv, TypeInv, TypeOK, Stacks, Both
<1>2. /\ \A i \in Both : OpenAt(i, snapshot.cur[i], func_stack, ret_stack)
      /\ Search!Levels = 1 .. Len(func_stack[1])
      /\ \A g \in 1 .. Len(func_stack[1]) :
           Search!KnownCall(g) <=> g <= Len(func_stack[2]) /\ CommonKnown(g)
  BY FramesAreCalls
<1>3. h \in 1 .. Len(func_stack[1]) /\ h <= Len(func_stack[2]) /\ CommonKnown(h)
  BY <1>1 DEF FoundFrame, SameFrame, KnownFrame, CommonKnown
<1>4. h - 1 = stack_high /\ h \in Nat
  BY <1>1
<1> HIDE DEF h
<1>5. \A g \in 1 .. h - 1 : ~ Search!KnownCall(g)
  <2>1. \A g \in 1 .. h - 1 : g \in 1 .. Len(func_stack[1])
    BY <1>1, <1>3, <1>4
  <2> QED BY <1>1, <1>2, <1>4, <2>1
<1>6. h \in Search!Levels /\ Search!KnownCall(h)
  BY <1>2, <1>3
<1>7. /\ Len(trace[1][snapshot.cur[1]].funcs) = Len(trace[2][snapshot.cur[2]].funcs)
      /\ \A i \in Both : ReturnsFrom(trace[i], snapshot.cur[i], h)
  BY <1>1, <1>5, <1>6 DEF Skippable
<1>8. Len(func_stack[1]) = Len(func_stack[2])
  <2>1. /\ func_stack[1] = trace[1][snapshot.cur[1]].funcs
        /\ func_stack[2] = trace[2][snapshot.cur[2]].funcs
    BY <1>2 DEF OpenAt, Both
  <2> QED BY <1>7, <2>1
<1>9. \A i \in Both : h \in 1 .. Len(func_stack[i])
  BY <1>1, <1>3, <1>8 DEF Both
<1> QED BY <1>2, <1>7, <1>8, <1>9 DEF h

\* When the search restarts both cursors are at the return of the call that was
\* found, and what is left of the stacks are the calls below it.
LEMMA RestartReaches ==
  ASSUME TypeInv, SearchInv, StackInv, Skippable, Restart
  PROVE  /\ pc' = "deb"
         /\ \A i \in Both : /\ Reached(i)
                            /\ PC(i) = ret_sync_addr
                            /\ cursor'[i].pos = cursor[i].pos
                            /\ OpenAt(i, cursor[i].pos, func_stack', ret_stack')
<1>1. /\ pc = "resync2" /\ Returned(2) /\ Reached(1) /\ Seeking(2) /\ FoundFrame
      /\ cursor \in [Both -> CursorType]
  BY DEF Restart, Rejoin, StackInv, Resyncing, TypeInv, TypeOK
<1>2. /\ Len(func_stack[1]) = Len(func_stack[2])
      /\ \A i \in Both : /\ OpenAt(i, snapshot.cur[i], func_stack, ret_stack)
                         /\ ReturnsFrom(trace[i], snapshot.cur[i], stack_high + 1)
                         /\ stack_high + 1 \in 1 .. Len(func_stack[i])
  BY <1>1, FoundReturns
<1>3. ASSUME NEW i \in Both
      PROVE  /\ Reached(i)
             /\ PC(i) = ret_sync_addr
             /\ trace[i][cursor[i].pos].funcs = SubSeq(func_stack[i], 1, stack_high)
             /\ trace[i][cursor[i].pos].rets = SubSeq(ret_stack[i], 1, stack_high)
  <2>1. Reached(i) \/ (Seeking(i) /\ Returned(i))
    BY <1>1 DEF Both
  <2>2. pc \in {"resync1", "resync2"}
    BY <1>1
  <2> QED BY <1>1, <1>2, <2>1, <2>2, SeekEnds
<1>4. /\ \A i \in Both : /\ Len(func_stack[i]) = Len(func_stack[1])
                         /\ Len(ret_stack[i]) = Len(func_stack[1])
      /\ Len(func_stack[1]) \in Nat /\ stack_high \in Nat
  BY <1>2, LenProperties DEF TypeInv, TypeOK, Paired, Stacks, Both
<1>5. Truncatable
  BY <1>4 DEF Truncatable, Excess
<1>6. \A i \in Both : /\ Truncated(func_stack[i]) = SubSeq(func_stack[i], 1, stack_high)
                     /\ Truncated(ret_stack[i]) = SubSeq(ret_stack[i], 1, stack_high)
  <2>1. Len(func_stack[1]) - Excess = stack_high
    BY <1>4 DEF Excess
  <2> QED BY <1>4, <2>1 DEF Truncated
<1>7. /\ pc' = "deb"
      /\ func_stack' = [i \in Both |-> Truncated(func_stack[i])]
      /\ ret_stack' = [i \in Both |-> Truncated(ret_stack[i])]
  BY <1>3, <1>5 DEF Restart, Rejoin, Both
<1>8. \A i \in Both : cursor'[i].pos = cursor[i].pos
  <2>1. RemoveMemoryWatchpoint(cursor[2], ret_sync_addr).pos = cursor[2].pos
    BY <1>1, RemoveWatchpointType DEF Both
  <2> QED BY <1>1, <2>1 DEF Restart, Rejoin, Both
<1> QED BY <1>3, <1>6, <1>7, <1>8 DEF OpenAt

\* The scan of a Release build stays within the second stack.
LEMMA ReleaseDepth ==
  ASSUME TypeInv, SearchInv, StackInv, Skippable, pc = "scan", NDEBUG
  PROVE  Len(func_stack[1]) <= Len(func_stack[2])
<1>1. \A i \in Both : OpenAt(i, snapshot.cur[i], func_stack, ret_stack)
  BY FramesAreCalls
<1>2. Len(trace[1][snapshot.cur[1]].funcs) <= Len(trace[2][snapshot.cur[2]].funcs)
  BY DEF Skippable, SearchInv
<1> QED BY <1>1, <1>2 DEF OpenAt, Both

LEMMA NextStackInv ==
  WellBehaved /\ TypeInv /\ SearchInv /\ StackInv /\ Skippable /\ [Next]_vars => StackInv'
<1> SUFFICES ASSUME WellBehaved, TypeInv, SearchInv, StackInv, Skippable, [Next]_vars
             PROVE  StackInv'
  OBVIOUS
<1>1. cursor \in [Both -> CursorType] /\ \A i \in Both : cursor[i] \in CursorType
  BY DEF TypeInv, TypeOK
<1>0. NDEBUG' = NDEBUG
  BY DEF Next, vars
<1>2. CASE Deb
  <2>1. \A i \in Both : i \in Nat \cup {NO_CALLBACK}
    BY DEF Both
  <2>2. \A i \in Both : cursor'[i].pos = cursor[i].pos /\ cursor'[i].callback = i
    BY <1>1, <1>2, <2>1, SetCallbackType DEF Deb
  <2>3. /\ InSync(cursor[1].pos, cursor[2].pos)
        /\ \A i \in Both : OpenAt(i, cursor[i].pos, func_stack, ret_stack)
    BY <1>2 DEF StackInv, Deb
  <2> QED
    BY <1>2, <2>2, <2>3 DEF Deb, takeSnapshot, stacks, StackInv, NoFailure, OpenAt, InSync, Both
<1>3. CASE Forward1 \/ Forward2
  <2>1. step_size \in Nat
    BY DEF TypeInv, TypeOK
  <2>2. PICK i \in Both : /\ cursor' = [cursor EXCEPT ![i] = ReplayForward(@, step_size)]
                         /\ pc \in {"while", "forward1"}
                         /\ pc' \in {"forward1", "forward2"}
                         /\ UNCHANGED <<trace, stacks, snapshot>>
    BY <1>3 DEF Forward1, Forward2, Forwarding, Both
  <2>3. \A j \in Both : cursor'[j].pos = cursor[j].pos /\ cursor'[j].callback = cursor[j].callback
    BY <1>1, <2>1, <2>2, ReplayForwardType
  <2> QED
    BY <2>2, <2>3 DEF stacks, StackInv, NoFailure, OpenAt, InSync
<1>4. CASE \E i \in Both : ReplayStep(i)
  BY <1>4, ReplayStepStackInv
<1>5. CASE Compare
  <2>1. pc = "forward2" /\ pc' = "while" /\ trace' = trace
    BY <1>5 DEF Compare, Reconcile, Forwarding
  <2>2. \A i \in Both : snapshot.cur[i] \in Nat \ {0} /\ cursor[i].callback = i
    BY <2>1, TraceType DEF StackInv, TypeInv
  <2>3. CASE PC(1) # PC(2)
    <3>1. restoreSnapshot /\ snapshot' = snapshot
      BY <1>5, <2>3 DEF Compare, Reconcile
    <3>2. \A i \in Both : cursor'[i].pos = snapshot.cur[i] /\ cursor'[i].callback = i
      BY <1>1, <2>2, <3>1, SetPositionType DEF restoreSnapshot
    <3> QED
      BY <2>1, <3>1, <3>2 DEF restoreSnapshot, StackInv, NoFailure, OpenAt, InSync
  <2>4. CASE PC(1) = PC(2)
    <3>1. takeSnapshot /\ UNCHANGED <<cursor, stacks>>
      BY <1>5, <2>4 DEF Compare, Reconcile
    <3>2. InSync(cursor[1].pos, cursor[2].pos)
      BY <2>4 DEF InSync, PC, GetProgramCounter
    <3>3. \A i \in Both : OpenAt(i, cursor[i].pos, func_stack, ret_stack)
      BY <2>1 DEF StackInv
    <3> QED
      BY <2>1, <2>2, <3>1, <3>2, <3>3 DEF takeSnapshot, stacks, StackInv, NoFailure, OpenAt, InSync, Both
  <2> QED BY <2>3, <2>4
<1>6. CASE Report
  <2>1. pc = "while" /\ UNCHANGED <<NDEBUG, trace, cursor, func_stack, ret_stack, snapshot>>
    BY <1>0, <1>6 DEF Report, stacks
  <2>2. pc' = "scan" \/ (pc' = "undefined" /\ ~ NonEmptyStacks)
    BY <1>6 DEF Report
  <2>3. stack_high' = 0 /\ Len(func_stack[2]) \in Nat
    BY <1>6, LenProperties DEF Report, TypeInv, TypeOK, Stacks, Both
  <2>4. NonEmptyStacks' <=> NonEmptyStacks
    BY <2>1 DEF NonEmptyStacks
  <2>5. NoFailure'
    BY <2>2, <2>4 DEF NoFailure
  <2> QED BY <2>1, <2>2, <2>3, <2>5 DEF StackInv, OpenAt, InSync
<1>7. CASE ScanFrame
  <2>1. /\ pc = "scan" /\ stack_high < Len(func_stack[1])
        /\ UNCHANGED <<trace, cursor, func_stack, ret_stack, snapshot>>
    BY <1>7 DEF ScanFrame, stacks
  <2>2. /\ InBounds /\ Len(func_stack[1]) \in Nat /\ Len(func_stack[2]) \in Nat
        /\ stack_high \in Nat
    <3>1. Len(func_stack[1]) \in Nat /\ Len(func_stack[2]) \in Nat /\ stack_high \in Nat
      BY LenProperties DEF TypeInv, TypeOK, Stacks, Both
    <3>2. CASE NDEBUG
      BY <2>1, <3>1, <3>2, ReleaseDepth DEF InBounds
    <3>3. CASE ~ NDEBUG
      BY <1>7, <3>1, <3>3 DEF ScanFrame, SameFrameOutcomes
    <3> QED BY <3>1, <3>2, <3>3
  <2>3. CASE SameFrame /\ KnownFrame
    <3>1. /\ ret_sync_addr' = ret_stack[1][stack_high + 1]
          /\ pc' = "resync"
          /\ stack_high' = stack_high
      BY <1>7, <2>2, <2>3 DEF ScanFrame, SameFrameOutcomes
    <3>2. FoundFrame'
      BY <2>1, <2>2, <2>3, <3>1 DEF FoundFrame, SameFrame, KnownFrame, InBounds
    <3>3. Here
      BY <2>1 DEF SearchInv
    <3>4. /\ stack_high' <= Len(func_stack'[2])
          /\ \A g \in 1 .. stack_high' : ~ CommonKnown(g)'
      BY <2>1, <3>1 DEF StackInv, CommonKnown
    <3> QED
      BY <2>1, <3>1, <3>2, <3>3, <3>4 DEF Here, StackInv, NoFailure, OpenAt, InSync
  <2>4. CASE ~ (SameFrame /\ KnownFrame)
    <3>1. pc' = pc /\ stack_high' = stack_high + 1
      BY <1>7, <2>2, <2>4 DEF ScanFrame, SameFrameOutcomes
    <3>2. stack_high' <= Len(func_stack'[2])
      BY <2>1, <2>2, <3>1 DEF InBounds
    <3>3. \A g \in 1 .. stack_high' : ~ CommonKnown(g)'
      <4>1. \A g \in 1 .. stack_high : ~ CommonKnown(g)
        BY <2>1 DEF StackInv
      <4>2. ~ CommonKnown(stack_high + 1)
        BY <2>4 DEF SameFrame, KnownFrame, CommonKnown
      <4>3. \A g \in 1 .. stack_high + 1 : g \in 1 .. stack_high \/ g = stack_high + 1
        BY <2>2
      <4> QED BY <2>1, <3>1, <4>1, <4>2, <4>3 DEF CommonKnown
    <3> QED
      BY <2>1, <3>1, <3>2, <3>3 DEF StackInv, NoFailure, OpenAt, InSync
  <2> QED BY <2>3, <2>4
<1>8. CASE ScanOutOfBounds
  <2>1. /\ pc = "scan" /\ pc' = "undefined" /\ stack_high < Len(func_stack[1]) /\ ~ InBounds
        /\ UNCHANGED <<NDEBUG, trace, cursor, func_stack, ret_stack, snapshot>>
    BY <1>0, <1>8 DEF ScanOutOfBounds, stacks
  <2>2. Len(func_stack[1]) \in Nat /\ Len(func_stack[2]) \in Nat /\ stack_high \in Nat
    BY LenProperties DEF TypeInv, TypeOK, Stacks, Both
  <2>3. Len(func_stack[1]) > Len(func_stack[2])
    BY <2>1, <2>2 DEF InBounds
  <2>4. ~ NDEBUG
    BY <2>1, <2>2, <2>3, ReleaseDepth
  <2> QED BY <2>1, <2>3, <2>4 DEF StackInv, NoFailure, OpenAt, InSync
<1>9. CASE ScanEnd
  BY <1>9 DEF ScanEnd, stacks, StackInv, NoFailure, OpenAt, InSync
<1>10. CASE Resync1
  <2> DEFINE a(i) == AddMemoryWatchpoint(cursor[i], ret_sync_addr)
             b(i) == SetCallReturnCallback(a(i), NO_CALLBACK)
  <2>1. ret_sync_addr \in GuestAddress /\ pc = "resync" /\ pc' = "resync1"
    BY <1>10 DEF Resync1, TypeInv, Resyncing
  <2>2. ASSUME NEW i \in Both
        PROVE  b(i) \in CursorType /\ b(i).pos = cursor[i].pos
    <3>1. a(i) \in CursorType /\ a(i).pos = cursor[i].pos
      BY <1>1, <2>1, AddWatchpointType
    <3> HIDE DEF a
    <3> QED BY <3>1, SetCallbackType
  <2>3. cursor' = [[i \in Both |-> b(i)] EXCEPT ![1] = ReplayForward(@, NO_LIMIT)]
    BY <1>10 DEF Resync1
  <2> HIDE DEF b
  <2>4. cursor'[1] = ReplayForward(b(1), NO_LIMIT) /\ cursor'[2] = b(2)
    BY <2>3 DEF Both
  <2>5. /\ ReplayForward(b(1), NO_LIMIT).pos = cursor[1].pos
        /\ ReplayForward(b(1), NO_LIMIT).todo = NO_LIMIT
    <3>1. b(1) \in CursorType /\ b(1).pos = cursor[1].pos
      BY <2>2 DEF Both
    <3> QED BY <3>1, ReplayForwardType
  <2>6. cursor'[1].pos = cursor[1].pos /\ cursor'[1].todo = NO_LIMIT /\ cursor'[2].pos = cursor[2].pos
    BY <2>2, <2>4, <2>5 DEF Both
  <2>7. UNCHANGED <<trace, func_stack, ret_stack, snapshot, stack_high, ret_sync_addr>>
    BY <1>10 DEF Resync1, stacks, search
  <2>8. Here /\ snapshot.cur[1] \in Nat
    BY <2>1 DEF SearchInv, TypeInv, TypeOK, Both
  <2>9. Seeking(1)' /\ cursor'[2].pos = snapshot'.cur[2]
    BY <2>6, <2>7, <2>8 DEF Here, Seeking, Both
  <2>10. /\ FoundFrame'
         /\ stack_high' <= Len(func_stack'[2])
         /\ \A g \in 1 .. stack_high' : ~ CommonKnown(g)'
    BY <2>1, <2>7 DEF StackInv, FoundFrame, SameFrame, KnownFrame, CommonKnown
  <2> QED
    BY <2>1, <2>7, <2>9, <2>10 DEF StackInv, NoFailure, OpenAt, InSync
<1>11. CASE Resync2
  <2> DEFINE r == RemoveMemoryWatchpoint(cursor[1], ret_sync_addr)
             f == ReplayForward(cursor[2], NO_LIMIT)
  <2>1. pc = "resync1" /\ Returned(1) /\ Seeking(1) /\ FoundFrame /\ cursor[2].pos = snapshot.cur[2]
    BY <1>11 DEF Resync2, StackInv, Resyncing
  <2>2. Reached(1) /\ PC(1) = ret_sync_addr
    <3>1. /\ OpenAt(1, snapshot.cur[1], func_stack, ret_stack)
          /\ ReturnsFrom(trace[1], snapshot.cur[1], stack_high + 1)
          /\ stack_high + 1 \in 1 .. Len(func_stack[1])
      BY <2>1, FoundReturns DEF Both
    <3> QED BY <2>1, <3>1, SeekEnds DEF Both
  <2>3. cursor' = [cursor EXCEPT ![1] = r, ![2] = f] /\ pc' = "resync2"
    BY <1>11, <2>2 DEF Resync2, Resyncing
  <2>4. r.pos = cursor[1].pos /\ f.pos = cursor[2].pos /\ f.todo = NO_LIMIT
    <3>1. cursor[1] \in CursorType /\ cursor[2] \in CursorType
      BY <1>1 DEF Both
    <3> QED BY <3>1, RemoveWatchpointType, ReplayForwardType
  <2> HIDE DEF r, f
  <2>5. cursor'[1].pos = cursor[1].pos /\ cursor'[2].pos = cursor[2].pos /\ cursor'[2].todo = NO_LIMIT
    BY <1>1, <2>3, <2>4 DEF Both
  <2>6. UNCHANGED <<trace, func_stack, ret_stack, snapshot, stack_high, ret_sync_addr>>
    BY <1>11 DEF Resync2, stacks, search
  <2>7. Reached(1)'
    BY <2>2, <2>5, <2>6 DEF Reached
  <2>8. Seeking(2)'
    <3>1. snapshot.cur[2] \in Nat
      BY DEF TypeInv, TypeOK, Both
    <3> QED BY <2>1, <2>5, <2>6, <3>1 DEF Seeking
  <2>9. /\ FoundFrame'
        /\ stack_high' <= Len(func_stack'[2])
        /\ \A g \in 1 .. stack_high' : ~ CommonKnown(g)'
    BY <2>1, <2>6 DEF StackInv, FoundFrame, SameFrame, KnownFrame, CommonKnown
  <2> QED
    BY <2>1, <2>3, <2>6, <2>7, <2>8, <2>9 DEF StackInv, NoFailure, OpenAt, InSync
<1>12. CASE Restart
  <2>1. trace' = trace
    BY <1>12 DEF Restart, Rejoin
  <2>2. /\ pc' = "deb"
        /\ \A i \in Both : /\ PC(i) = ret_sync_addr
                           /\ cursor'[i].pos = cursor[i].pos
                           /\ OpenAt(i, cursor[i].pos, func_stack', ret_stack')
    BY <1>12, RestartReaches
  <2>3. \A i \in Both : OpenAt(i, cursor[i].pos, func_stack, ret_stack)'
    BY <2>1, <2>2 DEF OpenAt
  <2>4. InSync(cursor[1].pos, cursor[2].pos)'
    BY <2>1, <2>2 DEF InSync, PC, GetProgramCounter, Both
  <2> QED
    BY <2>2, <2>3, <2>4 DEF StackInv, NoFailure
<1>13. CASE Stopped \/ UNCHANGED vars
  BY <1>13
  DEF Stopped, vars, StackInv, NoFailure, NonEmptyStacks, OpenAt, InSync, FoundFrame, SameFrame,
      KnownFrame, CommonKnown, Seeking, Reached
<1> QED
  BY <1>2, <1>3, <1>4, <1>5, <1>6, <1>7, <1>8, <1>9, <1>10, <1>11, <1>12, <1>13 DEF Next

LEMMA SpecStackInv ==
  ASSUME WellBehaved
  PROVE  Spec /\ []Skippable => [](TypeInv /\ SearchInv /\ StackInv)
<1>1. Init => TypeInv /\ SearchInv /\ StackInv
  BY InitTypeInv, InitSearchInv, InitStackInv
<1>2. (TypeInv /\ SearchInv /\ StackInv) /\ Skippable /\ [Next]_vars
      => (TypeInv /\ SearchInv /\ StackInv)'
  BY NextTypeInv, NextSearchInv, NextStackInv
<1> QED
  BY <1>1, <1>2, PTL DEF Spec

\* If the known calls that are skipped can be (Skippable, a condition on the pairs of
\* positions where the search gives up), the stacks built by callCallback_diff are
\* the calls that are open, through rollbacks and resynchronisations.
THEOREM StacksCorrect ==
  ASSUME WellBehaved
  PROVE  Spec /\ []Skippable => []StacksMirrorRecording
<1>1. StackInv => StacksMirrorRecording
  BY DEF StackInv, StacksMirrorRecording, OpenAt
<1> QED
  BY <1>1, SpecStackInv, PTL

\* If the known calls that are skipped can be, both recordings are about to execute
\* the same address at every reference, the ones after a resynchronisation included.
THEOREM ReferencesInSync ==
  ASSUME WellBehaved
  PROVE  Spec /\ []Skippable => []ReferenceInSync
<1>1. Init => ReferenceInSync
  BY DEF Init, ReferenceInSync, Both
<1>2. StackInv' /\ ReferenceInSync /\ [Next]_vars => ReferenceInSync'
  <2> SUFFICES ASSUME StackInv', ReferenceInSync, [Next]_vars
               PROVE  ReferenceInSync'
    OBVIOUS
  <2>1. CASE pc' # "deb"
    BY <2>1 DEF StackInv, ReferenceInSync, InSync
  <2>2. CASE pc' = "deb"
    <3>1. UNCHANGED <<trace, snapshot>>
      BY <2>2
      DEF Next, vars, Deb, Forward1, Forward2, ReplayStep, Compare, Reconcile, Report,
          ScanFrame, ScanOutOfBounds, ScanEnd, Resync1, Resync2, Restart, Rejoin, Stopped,
          Forwarding, Resyncing
    <3> QED BY <3>1 DEF ReferenceInSync
  <2> QED BY <2>1, <2>2
<1> QED
  BY <1>1, <1>2, SpecStackInv, PTL DEF Spec

\* If the known calls that are skipped can be, no assertion fails, no vector is popped
\* or copied with a wrong size, and the only things that go wrong are back() of an
\* empty stack and, in a Debug build, the scan past the end of the second stack.
THEOREM NothingFails ==
  ASSUME WellBehaved
  PROVE  Spec /\ []Skippable => []NoFailure
<1>1. StackInv => NoFailure
  BY DEF StackInv
<1> QED
  BY <1>1, SpecStackInv, PTL

-----------------------------------------------------------------------------
(* With assertions: any recordings that start at the same address.         *)

\* The assertion of line 198 leaves the first recording at the return address,
\* the one of line 204 the second.
GuardInv ==
  ~ NDEBUG /\ trace[1][1].pc = trace[2][1].pc =>
    /\ ReferenceInSync
    /\ pc = "deb" => InSync(cursor[1].pos, cursor[2].pos)
    /\ pc = "resync2" => PC(1) = ret_sync_addr

LEMMA NextGuardInv == TypeInv /\ GuardInv /\ [Next]_vars => GuardInv'
<1> SUFFICES ASSUME TypeInv, GuardInv, [Next]_vars, ~ NDEBUG, trace[1][1].pc = trace[2][1].pc
             PROVE  /\ ReferenceInSync'
                    /\ pc' = "deb" => InSync(cursor[1].pos, cursor[2].pos)'
                    /\ pc' = "resync2" => (PC(1) = ret_sync_addr)'
  <2>1. [Next]_vars => NDEBUG' = NDEBUG
    BY DEF Next, vars
  <2>2. [Next]_vars => trace' = trace
    BY DEF Next, vars, Deb, Forward1, Forward2, ReplayStep, Compare, Reconcile, Report,
           ScanFrame, ScanOutOfBounds, ScanEnd, Resync1, Resync2, Restart, Rejoin, Stopped
  <2> QED BY <2>1, <2>2 DEF GuardInv
<1>1. cursor \in [Both -> CursorType] /\ \A i \in Both : cursor[i] \in CursorType
  BY DEF TypeInv, TypeOK
<1>2. ReferenceInSync /\ (pc = "deb" => InSync(cursor[1].pos, cursor[2].pos))
  BY DEF GuardInv
<1>3. CASE Deb
  <2>1. \A i \in Both : i \in Nat \cup {NO_CALLBACK}
    BY DEF Both
  <2>2. \A i \in Both : cursor'[i].pos = cursor[i].pos
    BY <1>1, <1>3, <2>1, SetCallbackType DEF Deb
  <2> QED
    BY <1>2, <1>3, <2>2 DEF Deb, takeSnapshot, ReferenceInSync, InSync, Both
<1>4. CASE Compare
  <2>1. CASE PC(1) # PC(2)
    BY <1>2, <1>4, <2>1 DEF Compare, Reconcile, ReferenceInSync
  <2>2. CASE PC(1) = PC(2)
    BY <1>4, <2>2 DEF Compare, Reconcile, takeSnapshot, ReferenceInSync, PC, GetProgramCounter, Both
  <2> QED BY <2>1, <2>2
<1>5. CASE Forward1 \/ Forward2 \/ Report \/ ScanFrame \/ ScanOutOfBounds \/ ScanEnd \/ Resync1
  BY <1>2, <1>5
  DEF Forward1, Forward2, Report, ScanFrame, ScanOutOfBounds, ScanEnd, Resync1, Forwarding,
      Resyncing, ReferenceInSync
<1>6. ASSUME NEW i \in Both, ReplayStep(i)
      PROVE  /\ ReferenceInSync'
             /\ pc' = "deb" => InSync(cursor[1].pos, cursor[2].pos)'
             /\ pc' = "resync2" => (PC(1) = ret_sync_addr)'
  <2>1. /\ UNCHANGED <<trace, snapshot, ret_sync_addr>>
        /\ pc' \in {pc, "assert_ret"}
    BY <1>6 DEF ReplayStep, search, callCallback_diff, PopCall, PushCall
  <2>2. ReferenceInSync' /\ pc' # "deb"
    BY <1>2, <1>6, <2>1 DEF ReferenceInSync, ReplayStep, Forwarding, Resyncing, Both
  <2>3. ASSUME pc' = "resync2" PROVE PC(1)' = ret_sync_addr'
    <3>1. pc = "resync2" /\ i = 2
      BY <1>6, <2>1, <2>3 DEF ReplayStep, Forwarding, Resyncing, Both
    <3>2. cursor'[1] = cursor[1]
      BY <1>1, <1>6, <3>1 DEF ReplayStep, Both
    <3> QED BY <2>1, <3>1, <3>2 DEF GuardInv, PC
  <2> QED BY <2>2, <2>3
<1>7. CASE Resync2
  <2>1. UNCHANGED <<trace, snapshot, ret_sync_addr>> /\ pc' # "deb"
    BY <1>7 DEF Resync2, Resyncing, search
  <2>2. ASSUME pc' = "resync2" PROVE PC(1)' = ret_sync_addr'
    <3>1. PC(1) = ret_sync_addr
      BY <1>7, <2>2 DEF Resync2
    <3>2. cursor'[1] = RemoveMemoryWatchpoint(cursor[1], ret_sync_addr)
      BY <1>1, <1>7, <3>1 DEF Resync2, Both
    <3>3. cursor'[1].pos = cursor[1].pos
      BY <1>1, <3>2, RemoveWatchpointType DEF Both
    <3> QED BY <2>1, <3>1, <3>3 DEF PC, GetProgramCounter
  <2> QED BY <1>2, <2>1, <2>2 DEF ReferenceInSync
<1>8. CASE Restart
  <2>1. /\ UNCHANGED <<trace, snapshot>> /\ pc = "resync2" /\ pc' # "resync2"
        /\ cursor' = [cursor EXCEPT ![2] = RemoveMemoryWatchpoint(@, ret_sync_addr)]
    BY <1>8 DEF Restart, Rejoin, Resyncing
  <2>2. \A i \in Both : cursor'[i].pos = cursor[i].pos
    BY <1>1, <2>1, RemoveWatchpointType DEF Both
  <2>3. pc' = "deb" => PC(1) = ret_sync_addr /\ PC(2) = ret_sync_addr
    BY <1>8, <2>1 DEF Restart, Rejoin, GuardInv
  <2> QED BY <1>2, <2>1, <2>2, <2>3 DEF ReferenceInSync, InSync, PC, GetProgramCounter, Both
<1>9. CASE Stopped \/ UNCHANGED vars
  BY <1>9 DEF Stopped, vars, GuardInv, ReferenceInSync, InSync, PC
<1> QED
  BY <1>3, <1>4, <1>5, <1>6, <1>7, <1>8, <1>9 DEF Next

\* In a build with assertions no reference is ever taken where the recordings are
\* at different addresses, whatever the recordings do: a call that does not
\* return is caught.
THEOREM AssertionsSuffice == Spec => []AssertionsGuard
<1>1. Init => GuardInv
  BY DEF Init, NewCursor, GuardInv, ReferenceInSync, InSync, Both
<1>2. GuardInv => AssertionsGuard
  BY DEF GuardInv, AssertionsGuard
<1> QED
  BY <1>1, <1>2, InitTypeInv, NextTypeInv, NextGuardInv, PTL DEF Spec

-----------------------------------------------------------------------------
(* Diff implements SyncSearch: every step moves the pair of positions as   *)
(* SyncSearch does, or leaves it where it is.                              *)

LEMMA CompareImplements ==
  ASSUME TypeInv, SearchInv, Compare
  PROVE  [Search!Next]_Search!vars
<1>1. /\ pc = "forward2" /\ pc' = "while" /\ trace' = trace
      /\ cursor[1].pos = Ahead(1, step_size) /\ OnTheWay(2) /\ Returned(2)
      /\ step_size \in 1 .. DEFAULT_STEP_SIZE
  BY StepSizeAssumption DEF Compare, Reconcile, Forwarding, SearchInv, TypeInv, TypeOK
<1>2. cursor[2].pos = Ahead(2, step_size)
  BY <1>1, Lands DEF Both
<1>3. CASE PC(1) # PC(2)
  BY <1>1, <1>3 DEF Compare, Reconcile, Search!vars
<1>4. CASE PC(1) = PC(2)
  <2>1. snapshot'.cur = [i \in 1 .. 2 |-> cursor[i].pos]
    BY <1>4 DEF Compare, Reconcile, takeSnapshot, Both
  <2>2. \A i \in 1 .. 2 : cursor[i].pos = Search!Ahead(i, step_size)
    BY <1>1, <1>2 DEF Ahead, Search!Ahead
  <2>3. Search!Meets(step_size)
    BY <1>4, <2>2 DEF Search!Meets, PC, GetProgramCounter
  <2>4. snapshot'.cur = [i \in 1 .. 2 |-> Search!Ahead(i, step_size)]
    BY <2>1, <2>2
  <2>5. Search!Advance
    BY <1>1, <2>3, <2>4 DEF Search!Advance
  <2> QED BY <2>5 DEF Search!Next
<1> QED BY <1>3, <1>4

LEMMA RestartImplements ==
  ASSUME TypeInv, SearchInv, StackInv, Skippable, Restart
  PROVE  Search!Resync
<1>1. /\ pc = "resync2" /\ FoundFrame
      /\ UNCHANGED <<trace, snapshot>>
  BY DEF Restart, Rejoin, StackInv, Resyncing
<1>2. pc' = "deb" /\ \A i \in Both : Reached(i) /\ cursor'[i].pos = cursor[i].pos
  BY RestartReaches
<1>3. /\ \A i \in Both : OpenAt(i, snapshot.cur[i], func_stack, ret_stack)
      /\ Search!Levels = 1 .. Len(func_stack[1])
      /\ \A g \in 1 .. Len(func_stack[1]) :
           Search!KnownCall(g) <=> g <= Len(func_stack[2]) /\ CommonKnown(g)
      /\ ~ Search!Meets(1)
  BY <1>1, FramesAreCalls
<1> DEFINE h == stack_high + 1
<1>4. /\ h \in Search!Levels /\ Search!KnownCall(h)
      /\ \A g \in 1 .. h - 1 : ~ Search!KnownCall(g)
  <2>1. /\ h \in 1 .. Len(func_stack[1]) /\ h <= Len(func_stack[2])
        /\ stack_high \in Nat /\ Len(func_stack[1]) \in Nat
    BY <1>1, LenProperties DEF FoundFrame, TypeInv, TypeOK, Stacks, Both
  <2>2. CommonKnown(h)
    BY <1>1 DEF FoundFrame, SameFrame, KnownFrame, CommonKnown
  <2>3. \A g \in 1 .. stack_high : ~ CommonKnown(g)
    BY <1>1 DEF StackInv
  <2>4. \A g \in 1 .. h - 1 : g \in 1 .. stack_high /\ g \in 1 .. Len(func_stack[1])
    BY <2>1
  <2> QED BY <1>3, <2>1, <2>2, <2>3, <2>4
<1>5. \A i \in 1 .. 2 : trace[i][snapshot.cur[i]].rets[h] = ret_sync_addr
  BY <1>1, <1>3 DEF FoundFrame, SameFrame, OpenAt, Both
<1> DEFINE sync2 == [i \in 1 .. 2 |-> cursor'[i].pos]
<1>6. \A i \in 1 .. 2 : FirstAfter(trace[i], snapshot.cur[i], ret_sync_addr, sync2[i])
  BY <1>2 DEF Reached, Both
<1>7. \A i \in 1 .. 2 : sync2[i] \in 1 .. Len(trace[i])
  BY <1>2, TraceType DEF Both
<1>8. sync2 \in [1 .. 2 -> UNION {1 .. Len(trace[i]) : i \in 1 .. 2}]
  BY <1>7
<1> HIDE DEF sync2
<1>9. \A i \in 1 .. 2 :
        Search!FirstAfter(trace[i], snapshot.cur[i], trace[i][snapshot.cur[i]].rets[h], sync2[i])
  BY <1>5, <1>6 DEF FirstAfter, Search!FirstAfter
<1>10. pc # "deb" /\ pc # "done"
  BY <1>1
<1>11. sync2 = (IF pc' = "deb" THEN [i \in Both |-> cursor'[i].pos] ELSE snapshot'.cur)
  BY <1>2 DEF sync2, Both
<1> HIDE DEF h
<1> QED
  BY <1>1, <1>2, <1>3, <1>4, <1>8, <1>9, <1>10, <1>11 DEF Search!Resync

LEMMA ScanEndImplements ==
  ASSUME TypeInv, SearchInv, StackInv, ScanEnd
  PROVE  Search!Report
<1>1. /\ pc = "scan" /\ pc' = "done" /\ stack_high = Len(func_stack[1])
      /\ UNCHANGED <<trace, snapshot>>
  BY DEF ScanEnd
<1>2. \A g \in 1 .. stack_high : ~ CommonKnown(g)
  BY <1>1 DEF StackInv
<1>3. ~ Search!Meets(1) /\ \A h \in Search!Levels : ~ Search!KnownCall(h)
  BY <1>1, <1>2, FramesAreCalls
<1> QED BY <1>1, <1>3 DEF Search!Report

LEMMA StepImplements ==
  ASSUME TypeInv, SearchInv, StackInv, Skippable, [Next]_vars
  PROVE  [Search!Next]_Search!vars
<1>1. CASE Deb
  <2>1. cursor \in [Both -> CursorType]
    BY DEF TypeInv, TypeOK
  <2>2. \A i \in Both : i \in Nat \cup {NO_CALLBACK}
    BY DEF Both
  <2>3. snapshot'.cur = [i \in Both |-> cursor[i].pos]
    <3>1. \A i \in Both : cursor'[i].pos = cursor[i].pos
      BY <1>1, <2>1, <2>2, SetCallbackType DEF Deb
    <3> QED BY <1>1, <3>1 DEF Deb, takeSnapshot
  <2>4. pc = "deb" /\ pc' = "while" /\ trace' = trace
    BY <1>1 DEF Deb
  <2>5. UNCHANGED Search!vars
    BY <2>3, <2>4 DEF Search!vars
  <2> QED BY <2>5
<1>2. CASE Compare
  BY <1>2, CompareImplements
<1>3. CASE Restart
  BY <1>3, RestartImplements DEF Search!Next
<1>4. CASE ScanEnd
  BY <1>4, ScanEndImplements DEF Search!Next
<1>5. CASE Forward1 \/ Forward2 \/ Report \/ ScanFrame \/ ScanOutOfBounds \/ Resync1 \/ Resync2
  <2>1. UNCHANGED <<trace, snapshot>> /\ {pc, pc'} \cap {"deb", "done"} = {}
    BY <1>5
    DEF Forward1, Forward2, Report, ScanFrame, ScanOutOfBounds, Resync1, Resync2, Forwarding,
        Resyncing
  <2> QED BY <2>1 DEF Search!vars
<1>6. ASSUME NEW i \in Both, ReplayStep(i)
      PROVE  [Search!Next]_Search!vars
  <2>1. /\ UNCHANGED <<trace, snapshot>>
        /\ pc \in {"forward1", "forward2", "resync1", "resync2"}
        /\ pc' \in {pc, "assert_ret"}
    BY <1>6
    DEF ReplayStep, Forwarding, Resyncing, Both, callCallback_diff, PopCall, PushCall
  <2> QED BY <2>1 DEF Search!vars
<1>7. CASE Stopped \/ UNCHANGED vars
  BY <1>7 DEF Stopped, vars, Search!vars
<1> QED BY <1>1, <1>2, <1>3, <1>4, <1>5, <1>6, <1>7 DEF Next

\* For well-behaved recordings, as long as the known calls that are skipped can be,
\* example_diff does what SyncSearch promises: it moves only over stretches after
\* which the recordings agree, jumps only over the outermost known call that is open
\* in both, and reports only where neither is possible.
THEOREM SearchRefined ==
  ASSUME WellBehaved
  PROVE  Spec /\ []Skippable => Implements
<1>1. Init => Search!Init
  BY DEF Init, NewCursor, Search!Init, Both
<1>2. TypeInv /\ SearchInv /\ StackInv /\ Skippable /\ [Next]_vars
      => [Search!Next]_Search!vars
  BY StepImplements
<1> QED
  BY <1>1, <1>2, SpecStackInv, PTL DEF Spec, Implements, Search!Spec

-----------------------------------------------------------------------------
(* Every step brings the end closer, whatever the recordings and the build, *)
(* until both have been compared up to their ends.                         *)

\* The sync position of recording i, as in Search, and the instructions after
\* the pair of them.
Sync(i) == IF pc = "deb" THEN cursor[i].pos ELSE snapshot.cur[i]

ToGo == (Len(trace[1]) - Sync(1)) + (Len(trace[2]) - Sync(2))

\* What is left to try at a sync position: the step sizes, then the stacks, then
\* the fast-forward.
Round ==
  IF pc = "deb" THEN 6
  ELSE IF pc \in {"while", "forward1", "forward2"} THEN 5
  ELSE IF pc = "scan" THEN 4
  ELSE IF pc = "resync" THEN 3
  ELSE IF pc = "resync1" THEN 2
  ELSE IF pc = "resync2" THEN 1
  ELSE 0

\* The replays of an iteration that have not started.
Stage == IF pc = "while" THEN 2 ELSE IF pc = "forward1" THEN 1 ELSE 0

\* What the loop in progress has left: instructions to replay or frames to look at.
Rest ==
  IF pc \in {"forward1", "resync1"} THEN Len(trace[1]) - cursor[1].pos
  ELSE IF pc \in {"forward2", "resync2"} THEN Len(trace[2]) - cursor[2].pos
  ELSE IF pc = "scan" THEN Len(func_stack[1]) - stack_high
  ELSE 0

Measured ==
  ToGo \in Nat /\ Round \in Nat /\ step_size \in Nat /\ Stage \in Nat /\ Rest \in Nat

\* The lexicographic order of (ToGo, Round, step_size, Stage, Rest).
Closer ==
  \/ ToGo' < ToGo
  \/ ToGo' = ToGo /\ Round' < Round
  \/ UNCHANGED <<ToGo, Round>> /\ step_size' < step_size
  \/ UNCHANGED <<ToGo, Round, step_size>> /\ Stage' < Stage
  \/ UNCHANGED <<ToGo, Round, step_size, Stage>> /\ Rest' < Rest

LEMMA MeasureType == TypeInv => Measured
<1> SUFFICES ASSUME TypeInv PROVE Measured
  OBVIOUS
<1>1. \A i \in Both : /\ Len(trace[i]) \in Nat /\ cursor[i].pos \in 1 .. Len(trace[i])
                      /\ pc # "deb" => snapshot.cur[i] \in 1 .. Len(trace[i])
  BY TraceType DEF TypeInv
<1>2. ToGo \in Nat
  <2>1. \A i \in Both : Sync(i) \in 1 .. Len(trace[i])
    BY <1>1 DEF Sync
  <2>2. \A i \in Both : Len(trace[i]) - Sync(i) \in Nat
    BY <1>1, <2>1
  <2> QED BY <2>2 DEF ToGo, Both
<1>3. Round \in Nat /\ step_size \in Nat /\ Stage \in Nat
  BY DEF Round, Stage, TypeInv, TypeOK
<1>4. Rest \in Nat
  <2>1. Len(func_stack[1]) \in Nat /\ stack_high \in Nat
        /\ (pc = "scan" => stack_high <= Len(func_stack[1]))
    BY LenProperties DEF TypeInv, TypeOK, Stacks, Both
  <2> QED BY <1>1, <2>1 DEF Rest, Both
<1> QED BY <1>2, <1>3, <1>4 DEF Measured

\* Away from deb the sync positions are those of the snapshot.
LEMMA SamePlace ==
  ASSUME UNCHANGED <<trace, snapshot>>, pc # "deb", pc' # "deb"
  PROVE  ToGo' = ToGo
  BY DEF ToGo, Sync

LEMMA DebCloser == ASSUME TypeInv, Deb PROVE Closer
<1>1. pc = "deb" /\ pc' = "while" /\ UNCHANGED <<trace, step_size>>
  BY DEF Deb
<1>2. \A i \in Both : snapshot'.cur[i] = cursor[i].pos
  BY DEF Deb, takeSnapshot
<1>3. ToGo' = ToGo
  BY <1>1, <1>2 DEF ToGo, Sync, Both
<1>4. Round' < Round
  BY <1>1 DEF Round
<1> QED BY <1>3, <1>4 DEF Closer

\* The phases of an iteration, of the search of the stacks and of the
\* fast-forward come in order.
LEMMA PhaseCloser ==
  ASSUME Forward1 \/ Forward2 \/ Report \/ ScanOutOfBounds \/ ScanEnd \/ Resync1 \/ Resync2
  PROVE  Closer
<1>1. UNCHANGED <<trace, snapshot, step_size>> /\ pc # "deb" /\ pc' # "deb"
  BY DEF Forward1, Forward2, Report, ScanOutOfBounds, ScanEnd, Resync1, Resync2, Forwarding,
         Resyncing
<1>2. ToGo' = ToGo
  BY <1>1, SamePlace
<1>3. CASE Forward1 \/ Forward2
  BY <1>1, <1>2, <1>3 DEF Forward1, Forward2, Forwarding, Closer, Round, Stage
<1>4. CASE Report \/ ScanOutOfBounds \/ ScanEnd \/ Resync1 \/ Resync2
  <2>1. Round' < Round
    BY <1>4 DEF Report, ScanOutOfBounds, ScanEnd, Resync1, Resync2, Resyncing, Round
  <2> QED BY <1>2, <2>1 DEF Closer
<1> QED BY <1>3, <1>4

LEMMA ScanFrameCloser == ASSUME TypeInv, ScanFrame PROVE Closer
<1>1. /\ pc = "scan" /\ UNCHANGED <<trace, snapshot, func_stack, step_size>>
      /\ \/ pc' = "resync"
         \/ pc' = "scan" /\ stack_high' = stack_high + 1
  BY DEF ScanFrame, stacks
<1>2. ToGo' = ToGo
  BY <1>1, SamePlace
<1>3. Len(func_stack[1]) \in Nat /\ stack_high \in Nat
  BY LenProperties DEF TypeInv, TypeOK, Stacks, Both
<1>4. CASE pc' = "resync"
  <2>1. Round' < Round
    BY <1>1, <1>4 DEF Round
  <2> QED BY <1>2, <2>1 DEF Closer
<1>5. CASE pc' = "scan" /\ stack_high' = stack_high + 1
  <2>1. Round' = Round /\ Stage' = Stage
    BY <1>1, <1>5 DEF Round, Stage
  <2>2. Rest' < Rest
    BY <1>1, <1>3, <1>5 DEF Rest
  <2> QED BY <1>1, <1>2, <2>1, <2>2 DEF Closer
<1> QED BY <1>1, <1>4, <1>5

LEMMA ReplayStepCloser ==
  ASSUME TypeInv, NEW i \in Both, ReplayStep(i) PROVE Closer
<1>1. cursor \in [Both -> CursorType] /\ Len(trace[i]) \in Nat /\ cursor[i].pos \in Nat
  BY TraceType DEF TypeInv, TypeOK
<1>2. /\ UNCHANGED <<trace, snapshot, step_size>>
      /\ pc \in {Forwarding[i], Resyncing[i]} /\ pc' \in {pc, "assert_ret"}
      /\ cursor' = [cursor EXCEPT ![i] = Step(trace[i], cursor[i])]
  BY DEF ReplayStep, stacks, callCallback_diff, PopCall, PushCall
<1>3. ToGo' = ToGo
  BY <1>2, SamePlace DEF Forwarding, Resyncing, Both
<1>4. CASE pc' = "assert_ret"
  <2>1. Round' < Round
    BY <1>2, <1>4 DEF Round, Forwarding, Resyncing, Both, TypeInv, TypeOK
  <2> QED BY <1>3, <2>1 DEF Closer
<1>5. CASE pc' = pc
  <2>1. Round' = Round /\ Stage' = Stage
    BY <1>2, <1>5 DEF Round, Stage
  <2>2. cursor'[i].pos = cursor[i].pos + 1
    <3>1. CanStep(cursor[i], Len(trace[i])) /\ cursor[i] \in CursorType
      BY <1>1 DEF ReplayStep, GetLastPosition
    <3>2. Step(trace[i], cursor[i]).pos = cursor[i].pos + 1
      BY <1>1, <3>1, StepType
    <3> QED BY <1>1, <1>2, <3>2
  <2>3. Rest' < Rest
    <3>1. CASE i = 1
      BY <1>1, <1>2, <1>5, <2>2, <3>1 DEF Rest, Forwarding, Resyncing
    <3>2. CASE i = 2
      BY <1>1, <1>2, <1>5, <2>2, <3>2 DEF Rest, Forwarding, Resyncing
    <3> QED BY <3>1, <3>2 DEF Both
  <2> QED BY <1>2, <1>3, <2>1, <2>3 DEF Closer
<1> QED BY <1>2, <1>4, <1>5

\* The fast-forward of cursor i is in progress, or over: it has left the reference
\* behind, or there was nothing left to replay.
Moving(i) ==
  /\ cursor[i].pos >= snapshot.cur[i]
  /\ cursor[i].todo = NO_LIMIT \/ cursor[i].pos > snapshot.cur[i]

Moved(i) ==
  /\ cursor[i].pos >= snapshot.cur[i]
  /\ cursor[i].pos > snapshot.cur[i] \/ cursor[i].pos = Len(trace[i])

\* What RestartCloser needs of the fast-forward.
MoveInv ==
  /\ pc = "resync1" => Moving(1) /\ cursor[2].pos = snapshot.cur[2]
  /\ pc = "resync2" => Moved(1) /\ Moving(2)

LEMMA NextMoveInv == TypeInv /\ SearchInv /\ MoveInv /\ [Next]_vars => MoveInv'
<1> SUFFICES ASSUME TypeInv, SearchInv, MoveInv, [Next]_vars PROVE MoveInv'
  OBVIOUS
<1>1. cursor \in [Both -> CursorType] /\ \A i \in Both : cursor[i] \in CursorType
  BY DEF TypeInv, TypeOK
<1>2. \A i \in Both : snapshot.cur[i] \in Nat
  BY DEF TypeInv, TypeOK
<1>3. CASE Resync1
  <2> DEFINE b(i) == SetCallReturnCallback(AddMemoryWatchpoint(cursor[i], ret_sync_addr),
                                           NO_CALLBACK)
  <2>1. ret_sync_addr \in GuestAddress /\ Here
    BY <1>3 DEF Resync1, TypeInv, SearchInv
  <2>2. \A i \in Both : b(i) \in CursorType /\ b(i).pos = cursor[i].pos
    BY <1>1, <2>1, AddWatchpointType, SetCallbackType
  <2>3. cursor' = [[i \in Both |-> b(i)] EXCEPT ![1] = ReplayForward(@, NO_LIMIT)]
    BY <1>3 DEF Resync1
  <2> HIDE DEF b
  <2>4. cursor'[1] = ReplayForward(b(1), NO_LIMIT) /\ cursor'[2] = b(2)
    BY <2>3 DEF Both
  <2>5. /\ cursor'[1].pos = cursor[1].pos /\ cursor'[1].todo = NO_LIMIT
        /\ cursor'[2].pos = cursor[2].pos
    <3>1. b(1) \in CursorType /\ b(1).pos = cursor[1].pos /\ b(2).pos = cursor[2].pos
      BY <2>2 DEF Both
    <3>2. /\ ReplayForward(b(1), NO_LIMIT).pos = b(1).pos
          /\ ReplayForward(b(1), NO_LIMIT).todo = NO_LIMIT
      BY <3>1, ReplayForwardType
    <3> QED BY <2>4, <3>1, <3>2
  <2>6. snapshot' = snapshot /\ pc' = "resync1"
    BY <1>3 DEF Resync1, Resyncing
  <2> QED BY <1>2, <2>1, <2>5, <2>6 DEF MoveInv, Moving, Here, Both
<1>4. CASE Resync2
  <2> DEFINE r == RemoveMemoryWatchpoint(cursor[1], ret_sync_addr)
             f == ReplayForward(cursor[2], NO_LIMIT)
  <2>1. r.pos = cursor[1].pos /\ f.pos = cursor[2].pos /\ f.todo = NO_LIMIT
    BY <1>1, RemoveWatchpointType, ReplayForwardType DEF Both
  <2>2. \/ cursor' = [cursor EXCEPT ![1] = r, ![2] = f] /\ pc' = "resync2"
        \/ pc' = "assert_sync"
    BY <1>4 DEF Resync2, Resyncing
  <2> HIDE DEF r, f
  <2>3. /\ pc = "resync1" /\ Returned(1) /\ Moving(1) /\ cursor[2].pos = snapshot.cur[2]
        /\ UNCHANGED <<trace, snapshot>>
    BY <1>4 DEF Resync2, Resyncing, MoveInv
  <2>4. Moved(1)
    <3>1. Len(trace[1]) \in Nat /\ cursor[1].pos \in 1 .. Len(trace[1])
      BY TraceType DEF Both
    <3>2. snapshot.cur[1] \in Nat
      BY <1>2 DEF Both
    <3> QED BY <2>3, <3>1, <3>2 DEF Moving, Moved, Returned, CanStep, GetLastPosition, NO_LIMIT
  <2> QED BY <1>1, <1>2, <2>1, <2>2, <2>3, <2>4 DEF MoveInv, Moving, Moved, Both
<1>5. ASSUME NEW i \in Both, ReplayStep(i) PROVE MoveInv'
  <2>1. /\ pc' \in {pc, "assert_ret"}
        /\ UNCHANGED <<trace, snapshot>>
        /\ cursor' = [cursor EXCEPT ![i] = Step(trace[i], cursor[i])]
        /\ CanStep(cursor[i], Len(trace[i]))
        /\ pc \in {Forwarding[i], Resyncing[i]}
    BY <1>5 DEF ReplayStep, stacks, callCallback_diff, PopCall, PushCall, GetLastPosition
  <2>2. Len(trace[i]) \in Nat
    BY TraceType
  <2>3. Step(trace[i], cursor[i]).pos = cursor[i].pos + 1
    BY <1>1, <2>1, <2>2, StepType
  <2>4. /\ cursor'[i].pos = cursor[i].pos + 1
        /\ \A j \in Both : j # i => cursor'[j] = cursor[j]
    BY <1>1, <2>1, <2>3
  <2>5. cursor[i].pos \in Nat
    BY <1>1 DEF CursorType
  <2>6. CASE i = 1
    BY <1>2, <2>1, <2>4, <2>5, <2>6 DEF MoveInv, Moving, Moved, Forwarding, Resyncing, Both
  <2>7. CASE i = 2
    BY <1>2, <2>1, <2>4, <2>5, <2>7 DEF MoveInv, Moving, Moved, Forwarding, Resyncing, Both
  <2> QED BY <2>6, <2>7 DEF Both
<1>6. CASE Deb \/ Forward1 \/ Forward2 \/ Compare \/ Report \/ ScanFrame \/ ScanOutOfBounds
           \/ ScanEnd \/ Restart
  BY <1>6
  DEF Deb, Forward1, Forward2, Compare, Reconcile, Report, ScanFrame, ScanOutOfBounds, ScanEnd,
      Restart, Rejoin, Forwarding, Resyncing, MoveInv
<1>7. CASE Stopped \/ UNCHANGED vars
  BY <1>7 DEF Stopped, vars, MoveInv, Moving, Moved
<1> QED BY <1>3, <1>4, <1>5, <1>6, <1>7 DEF Next

\* An iteration that fails halves the step size; one that succeeds moves at
\* least one of the sync positions, unless both are at the end.
LEMMA CompareCloser ==
  ASSUME TypeInv, SearchInv, Compare, ~ Exhausted PROVE Closer
<1>1. /\ pc = "forward2" /\ pc' = "while" /\ trace' = trace
      /\ cursor[1].pos = Ahead(1, step_size) /\ OnTheWay(2) /\ Returned(2)
      /\ step_size \in Nat /\ step_size > 0
  BY StepSizeAssumption DEF Compare, Reconcile, Forwarding, SearchInv, TypeInv, TypeOK
<1>2. \A i \in Both : cursor[i].pos = Ahead(i, step_size)
  BY <1>1, Lands DEF Both
<1>3. \A i \in Both : Len(trace[i]) \in Nat /\ snapshot.cur[i] \in 1 .. Len(trace[i])
  BY <1>1, TraceType DEF TypeInv
<1>4. CASE PC(1) # PC(2)
  <2>1. snapshot' = snapshot /\ step_size' = step_size \div 2
    BY <1>4 DEF Compare, Reconcile
  <2>2. ToGo' = ToGo
    BY <1>1, <2>1, SamePlace
  <2>3. step_size' < step_size
    BY <1>1, <2>1
  <2>4. Round' = Round
    BY <1>1 DEF Round
  <2> QED BY <2>2, <2>3, <2>4 DEF Closer
<1>5. CASE PC(1) = PC(2)
  <2>1. \A i \in Both : snapshot'.cur[i] = Ahead(i, step_size)
    BY <1>2, <1>5 DEF Compare, Reconcile, takeSnapshot
  <2>2. \A i \in Both : /\ snapshot.cur[i] <= Ahead(i, step_size)
                        /\ snapshot.cur[i] = Ahead(i, step_size) => snapshot.cur[i] = Len(trace[i])
                        /\ Ahead(i, step_size) \in Nat
    BY <1>1, <1>3 DEF Ahead
  <2>3. ~ \A i \in Both : snapshot.cur[i] = Ahead(i, step_size)
    BY <2>2 DEF Exhausted
  <2>4. \A i \in Both : Sync(i) = snapshot.cur[i] /\ Sync(i)' = Ahead(i, step_size)
    BY <1>1, <2>1 DEF Sync
  <2>5. \A i \in Both : /\ Len(trace[i]) \in Nat /\ Sync(i) \in Nat /\ Sync(i)' \in Nat
                        /\ Sync(i)' >= Sync(i)
    BY <1>3, <2>2, <2>4
  <2>6. Sync(1)' > Sync(1) \/ Sync(2)' > Sync(2)
    BY <2>3, <2>4, <2>5 DEF Both
  <2>7. ToGo' < ToGo
    BY <1>1, <2>5, <2>6 DEF ToGo, Both
  <2> QED BY <2>7 DEF Closer
<1> QED BY <1>4, <1>5

\* The fast-forward moves at least one of the sync positions, unless both are at
\* the end.
LEMMA RestartCloser ==
  ASSUME TypeInv, MoveInv, Restart, ~ Exhausted PROVE Closer
<1>1. /\ pc = "resync2" /\ UNCHANGED <<trace, snapshot>>
      /\ pc' \in {"assert_sync", "undefined", "deb"}
      /\ Returned(2)
  BY DEF Restart, Rejoin, Resyncing
<1>2. CASE pc' = "deb"
  <2>1. \A i \in Both : /\ Len(trace[i]) \in Nat /\ cursor[i].pos \in 1 .. Len(trace[i])
                        /\ snapshot.cur[i] \in 1 .. Len(trace[i])
    BY <1>1, TraceType DEF TypeInv
  <2>2. \A i \in Both : Moved(i)
    <3>1. Moved(1) /\ Moving(2)
      BY <1>1 DEF MoveInv
    <3>2. Moved(2)
      BY <1>1, <2>1, <3>1 DEF Moving, Moved, Returned, CanStep, GetLastPosition, NO_LIMIT, Both
    <3> QED BY <3>1, <3>2 DEF Both
  <2>3. \A i \in Both : cursor'[i].pos = cursor[i].pos
    <3>1. cursor \in [Both -> CursorType]
      BY DEF TypeInv, TypeOK
    <3>2. RemoveMemoryWatchpoint(cursor[2], ret_sync_addr).pos = cursor[2].pos
      BY <3>1, RemoveWatchpointType DEF Both
    <3> QED BY <3>1, <3>2 DEF Restart, Rejoin, Both
  <2>4. \A i \in Both : Sync(i)' = cursor[i].pos /\ Sync(i) = snapshot.cur[i]
    BY <1>1, <1>2, <2>3 DEF Sync
  <2>5. PICK i \in Both : cursor[i].pos > snapshot.cur[i]
    BY <2>1, <2>2 DEF Moved, Exhausted
  <2>6. \A j \in Both : /\ Sync(j)' \in Nat /\ Sync(j) \in Nat /\ Len(trace[j]) \in Nat
                        /\ Sync(j)' >= Sync(j)
    BY <2>1, <2>2, <2>4 DEF Moved
  <2>7. Sync(1)' > Sync(1) \/ Sync(2)' > Sync(2)
    BY <2>4, <2>5 DEF Both
  <2>8. ToGo' < ToGo
    BY <1>1, <2>6, <2>7 DEF ToGo, Both
  <2> QED BY <2>8 DEF Closer
<1>3. CASE pc' # "deb"
  <2>1. ToGo' = ToGo
    BY <1>1, <1>3, SamePlace
  <2>2. Round' < Round
    BY <1>1, <1>3 DEF Round
  <2> QED BY <2>1, <2>2 DEF Closer
<1> QED BY <1>2, <1>3

\* Whatever the recordings and the build, each step of the search is a step down an
\* order of natural numbers that no run can descend for ever, until the reference is
\* at the end of both recordings: rolling back and halving, searching the stacks and
\* restarting with the first step size never lead round in a circle before that.
THEOREM SearchRunsOut == Spec => []Measured /\ [][Closer \/ Exhausted]_vars
<1>1. Init => MoveInv
  BY DEF Init, MoveInv
<1>2. ASSUME TypeInv, SearchInv, MoveInv, [Next]_vars PROVE [Closer \/ Exhausted]_vars
  <2>1. CASE Deb
    BY <1>2, <2>1, DebCloser
  <2>2. CASE Forward1 \/ Forward2 \/ Report \/ ScanOutOfBounds \/ ScanEnd \/ Resync1 \/ Resync2
    BY <1>2, <2>2, PhaseCloser
  <2>3. CASE \E i \in Both : ReplayStep(i)
    BY <1>2, <2>3, ReplayStepCloser
  <2>4. CASE Compare
    BY <1>2, <2>4, CompareCloser
  <2>5. CASE ScanFrame
    BY <1>2, <2>5, ScanFrameCloser
  <2>6. CASE Restart
    BY <1>2, <2>6, RestartCloser
  <2>7. CASE Stopped \/ UNCHANGED vars
    BY <2>7 DEF Stopped
  <2> QED
    BY <1>2, <2>1, <2>2, <2>3, <2>4, <2>5, <2>6, <2>7 DEF Next
<1>3. TypeInv /\ SearchInv /\ MoveInv /\ [Next]_vars => MoveInv'
  BY NextMoveInv
<1> QED
  BY MeasureType, <1>1, <1>2, <1>3, SpecSearchInv, PTL DEF Spec
=============================================================================
