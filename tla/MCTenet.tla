-------------------------------- MODULE MCTenet --------------------------------
(***************************************************************************)
(* Instances of Tenet for TLC: one register besides Rip, two memory cells. *)
(***************************************************************************)
EXTENDS Tenet

lsm == "lsm"
ntdll == "ntdll"

MCGuestAddress == {1, 5}
MCRegister == {"Rip", "Rax"}

\* lsm has addresses 1 to 4; 5 is in ntdll.  A second lsm comes too late.
ModuleList ==
  << [name |-> ntdll, base_addr |-> 5, imageSize |-> 4],
     [name |-> lsm, base_addr |-> 1, imageSize |-> 4],
     [name |-> lsm, base_addr |-> 5, imageSize |-> 1] >>

Read(a) == [addr |-> a, flags |-> "READ"]
Write(a) == [addr |-> a, flags |-> "WRITE"]

\* What an instruction may do to memory: nothing, a load, a store, a
\* read-modify-write, or a copy.
Effects == { <<>>, <<Read("x")>>, <<Write("x")>>, <<Read("x"), Write("x")>>,
             <<Read("x"), Write("y")>> }

Writes(effect, a) == \E x \in 1 .. Len(effect) : effect[x] = Write(a)

\* The memory before each instruction: a store at n writes the value n + 1.
MemoryBefore(effects) ==
  LET mem[n \in 1 .. Len(effects) + 1] ==
        IF n = 1 THEN [a \in {"x", "y"} |-> 0]
        ELSE [a \in {"x", "y"} |-> IF Writes(effects[n - 1], a) THEN n ELSE mem[n - 1][a]]
  IN  mem

Recording(pcs, raxs, effects) ==
  [n \in 1 .. Len(pcs) |->
     [ pc |-> pcs[n], regs |-> [r \in {"Rax"} |-> raxs[n]],
       mem |-> MemoryBefore(effects)[n], accesses |-> effects[n] ]]

Recordings(length, raxes, effects) ==
  { Recording(pcs, raxs, e) :
    pcs \in [1 .. length -> MCGuestAddress], raxs \in raxes, e \in [1 .. length -> effects] }

\* The cell x is not there any more from position k on.
Unmap(t, k) ==
  [n \in 1 .. Len(t) |-> [t[n] EXCEPT !.mem["x"] = IF n >= k THEN UNMAPPED ELSE @,
                                      !.accesses = IF n >= k THEN <<>> ELSE @]]

\* A system call before position k leaves the value 6 in x, until x is written again.
SystemCall(t, k) ==
  [n \in 1 .. Len(t) |->
     [t[n] EXCEPT !.mem["x"] =
        IF n >= k /\ \A j \in k .. n - 1 : ~ Writes(t[j].accesses, "x") THEN 6 ELSE @]]

\* Of the cell x the trace has only the start from position k on.
Cut(t, k) == [n \in 1 .. Len(t) |-> [t[n] EXCEPT !.mem["x"] = IF n >= k THEN PARTIAL ELSE @]]

\* The first access at position k has flags that are neither of a read nor a write.
Unexpected(t, k) ==
  [t EXCEPT ![k].accesses = [x \in 1 .. Len(@) |-> IF x = 1 THEN [@[x] EXCEPT !.flags = "OTHER"] ELSE @[x]]]

SessionsOf(recordings, begins, ends, names) ==
  { [instr |-> t, modules |-> ModuleList, begin_arg |-> b, end_arg |-> e, mod_arg |-> n] :
    t \in recordings, b \in begins, e \in ends, n \in names }
Raxes == { <<0, 1, 1, 0, 1>>, <<0, 0, 1, 1, 1>> }

GoodSessions ==
  SessionsOf(Recordings(3, Raxes, Effects), {NULL, 2}, {NULL}, {lsm})
    \cup SessionsOf(Recordings(5, {<<0, 1, 1, 0, 1>>}, {<<>>, <<Read("x"), Write("x")>>, <<Write("y")>>}),
                    {NULL}, {NULL}, {lsm})
    \cup SessionsOf(Recordings(3, Raxes, {<<>>, <<Write("y")>>}), {NULL, 3}, {NULL, 2}, {"", ntdll, "cmd"})

Short == SessionsOf(Recordings(3, Raxes, {<<>>, <<Read("x")>>, <<Write("x")>>}), {NULL}, {NULL}, {lsm})
Long == SessionsOf(Recordings(4, {<<0, 1, 1, 0>>}, {<<>>, <<Read("x")>>, <<Write("x")>>}), {NULL}, {NULL}, {lsm})

OddSessions ==
  { [s EXCEPT !.instr = Unmap(@, k)] : k \in 2 .. 3, s \in Short }
    \cup { [s EXCEPT !.instr = SystemCall(@, k)] : k \in 2 .. 4, s \in Long }
    \cup { [s EXCEPT !.instr = Cut(@, k)] : k \in 2 .. 3, s \in Short }
    \cup { [s EXCEPT !.instr = Unexpected(@, k)] : k \in 1 .. 2, s \in Short }

AllSessions == GoodSessions \cup OddSessions
=============================================================================
