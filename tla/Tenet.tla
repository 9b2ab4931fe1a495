-------------------------------- MODULE Tenet --------------------------------
(***************************************************************************)
(* src/example_tenet/main.cpp: a Tenet trace of one module.  The recording *)
(* is replayed one instruction at a time; a line is written whenever the   *)
(* program counter is in the module, with the registers that changed since *)
(* the line before and the memory accessed since then, also by the         *)
(* instructions outside the module.                                        *)
(*                                                                         *)
(* A session is a recording and the options -b, -e (NULL when absent) and  *)
(* -m (NO_NAME when absent).  The recording has for each position the      *)
(* program counter, the other registers and the memory before the          *)
(* instruction there, and the instruction's memory accesses.  An action is *)
(* the code from one call of ReplayForward to the next, with the callbacks *)
(* made inside the call.                                                   *)
(***************************************************************************)
EXTENDS Cursor, SequencesExt

CONSTANTS
  Sessions,
  Register,  \* the registers of a CONTEXT, "Rip" among them
  Value,     \* what a register other than Rip or a memory cell may hold
  Address,   \* memory cells of the recorded program
  UNMAPPED,  \* the trace has no memory at the address
  PARTIAL,   \* it has only the start of what was accessed there
  Name,      \* names of modules
  NO_NAME    \* there is no -m

\* The flags of a callback are those of a read, of a write, or neither.
Access == [addr : Address, flags : {"READ", "WRITE", "OTHER"}]

\* Memory may also change where no access is recorded: a system call writes to the
\* buffers of its caller, and no callback tells of it.
Instr == [ pc : GuestAddress, regs : [Register \ {"Rip"} -> Value],
           mem : [Address -> Value \cup {UNMAPPED, PARTIAL}], accesses : Seq(Access) ]

Module == [name : Name, base_addr : Nat \ {0}, imageSize : Nat]

Session == [ instr : Seq(Instr) \ {<<>>}, modules : Seq(Module),
             begin_arg : Nat, end_arg : Nat, mod_arg : Name \cup {NO_NAME} ]

ASSUME SessionsAssumption ==
  /\ NULL = 0
  /\ GuestAddress \subseteq Nat
  /\ "Rip" \in Register
  /\ NO_NAME \notin Name
  /\ UNMAPPED \notin Value /\ PARTIAL \notin Value
  /\ Sessions \subseteq Session
  /\ \A s \in Sessions :
       /\ s.begin_arg \in 0 .. Len(s.instr)
       /\ s.end_arg \in 0 .. Len(s.instr)

VARIABLES
  session,
  cursor,       \* ttdcursor
  end,          \* where the replay stops
  module,       \* index of the module traced (addr_min, addr_max); 0 at first
  old_context,  \* the registers on the line before
  memsinfo,     \* the accesses since the line before
  lines,        \* the file
  pc            \* where main() is

vars == <<session, cursor, end, module, old_context, memsinfo, lines, pc>>

\* The registers and the memory accesses written on a line, and the position
\* it was written at (which the file does not have).  The bytes of an access with
\* the flags "OTHER" stand on the line without mr= or mw= and an address.
OutLine ==
  [ regs : UNION {[R -> Value \cup GuestAddress] : R \in SUBSET Register},
    mem : Seq([addr : Address, flags : {"READ", "WRITE", "OTHER"}, value : Value \cup {PARTIAL}]),
    at : Nat \ {0} ]

\* GetContextx86_64 at a position of the recording.
ContextAt(position) ==
  [r \in Register |-> IF r = "Rip" THEN session.instr[position].pc
                      ELSE session.instr[position].regs[r]]

NoContext == [r \in {} |-> NULL]

Init ==
  /\ session \in Sessions
  /\ cursor = NewCursor
  /\ end = 1
  /\ module = 0
  /\ old_context = NoContext
  /\ memsinfo = <<>>
  /\ lines = <<>>
  /\ pc = "args"

-----------------------------------------------------------------------------
(* dumpContext. *)

\* The registers that the old context has not, or with another value.
Changed(old, new) == {r \in Register : r \notin DOMAIN old \/ old[r] # new[r]}

\* Mutation: memory that is not there is written as it is.
MemoryFields_Unchecked(accesses, mem) ==
  [x \in 1 .. Len(accesses) |-> [addr |-> accesses[x].addr, flags |-> accesses[x].flags,
                                 value |-> mem[accesses[x].addr]]]

\* An access with the memory that QueryMemoryBuffer finds now; an access to
\* memory that is not there now is passed over, before its flags are looked at.  All
\* the bytes of the access are written, also when the trace has only the first of
\* them (PARTIAL): the others are what was in the buffer before.
FieldOf(access, mem) ==
  IF mem[access.addr] = UNMAPPED THEN <<>>
  ELSE << [addr |-> access.addr, flags |-> access.flags, value |-> mem[access.addr]] >>

MemoryFields(accesses, mem) ==
  FlattenSeq([x \in 1 .. Len(accesses) |-> FieldOf(accesses[x], mem)])

dumpContext(old, new, accesses, position) ==
  [ regs |-> [r \in Changed(old, new) |-> new[r]],
    mem |-> MemoryFields(accesses, session.instr[position].mem),
    at |-> position ]

-----------------------------------------------------------------------------
Begin == IF session.begin_arg # NULL THEN session.begin_arg ELSE 1

FirstNamed(k) ==
  /\ session.modules[k].name = session.mod_arg
  /\ \A j \in 1 .. k - 1 : session.modules[j].name # session.mod_arg

\* Without -m the modules are listed; a name that no module has ends the
\* program too.
NoModule ==
  /\ pc = "args"
  /\ \A k \in 1 .. Len(session.modules) : session.modules[k].name # session.mod_arg
  /\ pc' = "exit"
  /\ UNCHANGED <<session, cursor, end, module, old_context, memsinfo, lines>>

\* Set the positions and the module, write the first line with all registers,
\* and watch the whole memory.
Start ==
  /\ pc = "args"
  /\ cursor' = SetPosition(cursor, Begin)
  /\ end' = IF session.end_arg # NULL THEN session.end_arg ELSE GetLastPosition(session.instr)
  /\ \E k \in 1 .. Len(session.modules) :
       /\ FirstNamed(k)
       /\ module' = k
  /\ old_context' = ContextAt(Begin)
  /\ lines' = << dumpContext(NoContext, ContextAt(Begin), <<>>, Begin) >>
  /\ pc' = "loop"
  /\ UNCHANGED <<session, memsinfo>>

\* Mutation: the first address of the module is left out.
InModule_NotFirst(address) ==
  LET m == session.modules[module]
  IN  m.base_addr < address /\ address < m.base_addr + m.imageSize

InModule(address) ==
  LET m == session.modules[module]
  IN  m.base_addr <= address /\ address < m.base_addr + m.imageSize

\* What the callbacks of one instruction leave in memsinfo.
MemsinfoAfterStep == memsinfo \o session.instr[cursor.pos].accesses

\* ReplayForward(&temp_result, &end, 1) makes one step to a position.
ReplayOne(position) ==
  /\ pc = "loop"
  /\ CanStep(ReplayForward(cursor, 1), end)
  /\ cursor' = Step(session.instr, ReplayForward(cursor, 1))
  /\ cursor'.pos = position

\* Mutation: the accesses of code outside the module are dropped.
Skip_Clean ==
  \E position \in 1 .. Len(session.instr) :
    /\ ReplayOne(position)
    /\ ~ InModule(session.instr[position].pc)
    /\ memsinfo' = <<>>
    /\ UNCHANGED <<session, end, module, old_context, lines, pc>>

\* Outside the module the accesses are kept for the next line.
Skip ==
  \E position \in 1 .. Len(session.instr) :
    /\ ReplayOne(position)
    /\ ~ InModule(session.instr[position].pc)
    /\ memsinfo' = MemsinfoAfterStep
    /\ UNCHANGED <<session, end, module, old_context, lines, pc>>

\* Mutation: the old context is not replaced.
WriteLine_OldContext ==
  \E position \in 1 .. Len(session.instr) :
    /\ ReplayOne(position)
    /\ InModule(session.instr[position].pc)
    /\ lines' = Append(lines, dumpContext(old_context, ContextAt(position),
                                          MemsinfoAfterStep, position))
    /\ memsinfo' = <<>>
    /\ UNCHANGED <<session, end, module, old_context, pc>>

\* Mutation: memsinfo is not cleaned.
WriteLine_NoClean ==
  \E position \in 1 .. Len(session.instr) :
    /\ ReplayOne(position)
    /\ InModule(session.instr[position].pc)
    /\ lines' = Append(lines, dumpContext(old_context, ContextAt(position),
                                          MemsinfoAfterStep, position))
    /\ memsinfo' = MemsinfoAfterStep
    /\ old_context' = ContextAt(position)
    /\ UNCHANGED <<session, end, module, pc>>

WriteLine ==
  \E position \in 1 .. Len(session.instr) :
    /\ ReplayOne(position)
    /\ InModule(session.instr[position].pc)
    /\ lines' = Append(lines, dumpContext(old_context, ContextAt(position),
                                          MemsinfoAfterStep, position))
    /\ memsinfo' = <<>>
    /\ old_context' = ContextAt(position)
    /\ UNCHANGED <<session, end, module, pc>>

\* No step was made.
Finish ==
  /\ pc = "loop"
  /\ ~ CanStep(ReplayForward(cursor, 1), end)
  /\ pc' = "done"
  /\ UNCHANGED <<session, cursor, end, module, old_context, memsinfo, lines>>

Stopped == pc \in {"done", "exit"} /\ UNCHANGED vars

Next ==
  \/ NoModule
  \/ Start
  \/ Skip
  \/ WriteLine
  \/ Finish
  \/ Stopped

Spec == Init /\ [][Next]_vars
-----------------------------------------------------------------------------
(* Properties. *)

TypeOK ==
  /\ session \in Session
  /\ cursor \in CursorType
  /\ cursor.pos <= Len(session.instr)
  /\ end \in 0 .. Len(session.instr)
  /\ module \in 0 .. Len(session.modules)
  /\ old_context \in {NoContext} \cup [Register -> Value \cup GuestAddress]
  /\ memsinfo \in Seq(Access)
  /\ lines \in Seq(OutLine)
  /\ pc \in {"args", "loop", "done", "exit"}

LastLine == lines[Len(lines)]

\* Reading the file line by line gives every register its value at the
\* position of the line read last: the last line that has the register.
RegistersExact ==
  lines # <<>> =>
    \A r \in Register : \E j \in 1 .. Len(lines) :
      /\ r \in DOMAIN lines[j].regs
      /\ lines[j].regs[r] = ContextAt(LastLine.at)[r]
      /\ \A m \in j + 1 .. Len(lines) : r \notin DOMAIN lines[m].regs

\* The line has the memory cell.
Has(line, a) == \E y \in 1 .. Len(line.mem) : line.mem[y].addr = a

\* Every byte in the file has a key before it.
Keyed == \A n \in 1 .. Len(lines) : \A y \in 1 .. Len(lines[n].mem) : lines[n].mem[y].flags # "OTHER"

\* Something that is no access of the recording changed the cell between two positions.
ChangedSilently(a, lo, hi) ==
  \E p \in lo .. hi - 1 :
    /\ session.instr[p + 1].mem[a] # session.instr[p].mem[a]
    /\ \A x \in 1 .. Len(session.instr[p].accesses) : session.instr[p].accesses[x].addr # a

\* Every memory cell accessed since the start, also outside the module, is on a line,
\* if the trace has all of it all the while.  The last line that has it gives its
\* value at the position of the last line, unless a system call, or whatever else is
\* no access of the recording, changed it after that line: such a change is not in
\* the file before the cell is accessed again.
MemoryExact ==
  lines # <<>> /\ Keyed =>
    \A n \in Begin .. LastLine.at - 1, a \in Address :
      /\ \E x \in 1 .. Len(session.instr[n].accesses) : session.instr[n].accesses[x].addr = a
      /\ \A p \in 1 .. Len(session.instr) : session.instr[p].mem[a] \in Value
      => \E j \in 1 .. Len(lines) :
           /\ \E y \in 1 .. Len(lines[j].mem) :
                /\ lines[j].mem[y].addr = a
                /\ \/ lines[j].mem[y].value = session.instr[LastLine.at].mem[a]
                   \/ ChangedSilently(a, lines[j].at, LastLine.at)
           /\ \A m \in j + 1 .. Len(lines) : ~ Has(lines[m], a)

\* The module of the option -m, and its addresses.
TracedModule == CHOOSE k \in 1 .. Len(session.modules) : FirstNamed(k)
Traced ==
  LET m == session.modules[TracedModule]
  IN  m.base_addr .. m.base_addr + m.imageSize - 1

\* The lines are the first position and then every one in the module.
LinesExact ==
  pc \in {"loop", "done"} =>
    /\ \A m, n \in 1 .. Len(lines) : m < n => lines[m].at < lines[n].at
    /\ {lines[n].at : n \in 1 .. Len(lines)}
         = {Begin} \cup {p \in Begin + 1 .. cursor.pos : session.instr[p].pc \in Traced}

\* The accesses of lo .. hi - 1, in order.
AccessesBetween(lo, hi) ==
  FlattenSeq([k \in 1 .. hi - lo |-> session.instr[lo + k - 1].accesses])

\* Those to memory that is there.
There(accesses, mem) ==
  FlattenSeq([x \in 1 .. Len(accesses) |->
                IF mem[accesses[x].addr] = UNMAPPED THEN <<>> ELSE << accesses[x] >>])

\* The accesses on a line, without the values.
Summary(line) ==
  [y \in 1 .. Len(line.mem) |-> [addr |-> line.mem[y].addr, flags |-> line.mem[y].flags]]

\* A line has the accesses since the line before, in their order, those of
\* other modules included, each of them once, but for memory that is gone when
\* the line is written.
SummaryExact ==
  \A n \in 2 .. Len(lines) :
    Summary(lines[n]) = There(AccessesBetween(lines[n - 1].at, lines[n].at),
                              session.instr[lines[n].at].mem)
=============================================================================
