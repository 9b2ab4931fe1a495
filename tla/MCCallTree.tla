------------------------------ MODULE MCCallTree ------------------------------
(***************************************************************************)
(* Instances of CallTree for TLC.                                          *)
(***************************************************************************)
EXTENDS CallTree

MCGuestAddress == 1 .. 40

\* Two modules; address 40 is in neither.
ModuleList == << [base_addr |-> 10, imageSize |-> 2], [base_addr |-> 20, imageSize |-> 4] >>

Instr(addr_func, addr_ret, tid) ==
  [pc |-> 1, addr_func |-> addr_func, addr_ret |-> addr_ret, tid |-> tid]

OneThread == { Instr(NULL, NULL, 7), Instr(11, 22, 7), Instr(22, NULL, 7) }
NoModule == OneThread \cup { Instr(40, 22, 7) }
TwoThreads == OneThread \cup { Instr(20, 23, 8), Instr(23, NULL, 8) }

\* Sessions on the recordings of lo to hi instructions.
SessionsOf(instructions, lo, hi, begins, ends, tids, list) ==
  { [ instr |-> code,
      threads |-> << [tid |-> 7, pos |-> 1], [tid |-> 8, pos |-> 2], [tid |-> 7, pos |-> 2] >>,
      modules |-> ModuleList,
      begin_arg |-> b, end_arg |-> e, tid_arg |-> t, tid_list |-> l ] :
    code \in UNION {[1 .. n -> instructions] : n \in lo .. hi},
    b \in begins, e \in ends, t \in tids, l \in list }

\* Any calls and returns, with every option; -b may be after -e.
GoodSessions ==
  SessionsOf(OneThread, 6, 6, {0, 2, 4}, {0, 3}, {0}, {FALSE})
    \cup SessionsOf({Instr(11, 22, 7), Instr(22, NULL, 7)}, 9, 9, {0}, {0, 8}, {0}, {FALSE})
    \cup SessionsOf({Instr(11, 22, 7)}, 4, 4, {0, 2}, {0}, {0, 8, 9}, BOOLEAN)

UnknownSessions == SessionsOf(NoModule, 4, 4, {0}, {0}, {0}, {FALSE})
ThreadSessions == SessionsOf(TwoThreads, 5, 5, {0}, {0}, {7, 8}, {FALSE})
AllSessions == GoodSessions \cup UnknownSessions \cup ThreadSessions
LongSessions == SessionsOf(OneThread, 6, 6, {0}, {0}, {0}, {FALSE})
=============================================================================
