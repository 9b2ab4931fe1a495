------------------------------ MODULE Symbols ------------------------------
(***************************************************************************)
(* The symbols of src/example_calltree/main.cpp.  For every module of the  *)
(* recording GetModulePdbInfo follows four headers in guest memory, each   *)
(* of which says where the next one is; GetPdbFilePath makes a path of the *)
(* last, and without a path the DLL itself is loaded.                      *)
(*                                                                         *)
(* The headers are variables on the stack, in the same place for every     *)
(* module.  readMemory returns TRUE whatever happened, so that after a     *)
(* failed read the header holds what was there before: what was read for   *)
(* an earlier module, or anything else.                                    *)
(***************************************************************************)
EXTENDS Memory, Sequences

CONSTANTS
  Modules,      \* the lists of modules that a recording may have
  SymbolPaths,  \* the values of _NT_SYMBOL_PATH
  GARBAGE       \* what is in a header that belongs to no module

\* A module has its headers in memory, with offsets that depend on how it was
\* linked, and names its PDB with a directory, without one, or not at all.
Module == [memory : [1 .. 4 -> Recorded], layout : {1, 2}, pdb : {"local", "name", "none"}]

\* _NT_SYMBOL_PATH is not set, starts with srv* or SRV*, is another text, or is
\* too short for sscanf_s to convert or to refuse (or too long for its buffer).
SymbolPath == {"unset", "srv", "SRV", "other", "short"}

ASSUME SymbolsAssumption ==
  /\ Modules \subseteq Seq(Module)
  /\ SymbolPaths \subseteq SymbolPath
  /\ GARBAGE \notin Nat

VARIABLES
  mod_list,
  NtSymbolPath,
  i,       \* the module whose symbols are loaded
  step,    \* the header that is read next
  header,  \* for each header, the module it was read from
  heap,
  failed,  \* reads without the whole header
  loaded,  \* the paths given to SymLoadModuleEx
  pc

vars == <<mod_list, NtSymbolPath, i, step, header, heap, failed, loaded, pc>>

-----------------------------------------------------------------------------
Owner == Nat \cup {GARBAGE}

Path == [kind : {"dll", "local", "store"}, of : Owner, dir : {"none", "symbols"}]
Dll(m) == [kind |-> "dll", of |-> m, dir |-> "none"]

\* Mutation: the debug directory is looked for where the NT headers are.
RightAddress_Lfanew(k) ==
  \/ k = 1
  \/ k # 3 /\ header[k - 1] # GARBAGE /\ mod_list[header[k - 1]].layout = mod_list[i].layout

\* ImageDosHeader, ImageNtHeaders, ImageDebugDirectory and pPdb70Info are read
\* in turn; the address of each comes from the one before it.
RightAddress(k) ==
  \/ k = 1
  \/ header[k - 1] # GARBAGE /\ mod_list[header[k - 1]].layout = mod_list[i].layout

\* What can be at the address, and which header it is.
Reads(k) ==
  IF RightAddress(k) THEN {<<mod_list[i].memory[k], i>>} ELSE Recorded \X {GARBAGE}

\* Mutation: the buffer is freed where the read fails, and once more at the end.
AfterRead_FreeTwice(h, result) ==
  IF result = "full" THEN Free(Free(h, "data"), "memorybuffer")
  ELSE Free(Free(h, "memorybuffer"), "memorybuffer")

\* Mutation: the buffer is freed with its data only.
AfterRead_KeepBuffer(h, result) ==
  IF result = "full" THEN Free(Free(h, "data"), "memorybuffer") ELSE h

\* Mutation: the data is never freed.
AfterRead_KeepData(h, result) == Free(h, "memorybuffer")

\* The blocks that readMemory leaves after a query.
AfterRead(h, result) ==
  IF result = "full" THEN Free(Free(h, "data"), "memorybuffer") ELSE Free(h, "memorybuffer")

\* What sscanf_s and strchr make of NtSymbolPath; "fails" without a conversion.
ScanSymbolPath ==
  CASE NtSymbolPath \in {"srv", "SRV"} -> "symbols"
    [] NtSymbolPath = "short" -> "none"
    [] OTHER -> "fails"

\* Mutation: the signature is not looked at.
IsPdb70_Any(m) == m # GARBAGE

\* Whether the last header has the signature of a CV_INFO_PDB70.
IsPdb70(m) == m # GARBAGE /\ mod_list[m].pdb # "none"

\* Whether GetPdbFilePath returns TRUE, and its path, when m owns the last header.
HasPdbPath(m) == IsPdb70(m) /\ (mod_list[m].pdb = "local" \/ ScanSymbolPath # "fails")
PdbPath(m) ==
  IF mod_list[m].pdb = "local" THEN [kind |-> "local", of |-> m, dir |-> "none"]
  ELSE [kind |-> "store", of |-> m, dir |-> ScanSymbolPath]

\* The path for a module whose last header is m's.
PathFor(m, module) == IF HasPdbPath(m) THEN PdbPath(m) ELSE Dll(module)

-----------------------------------------------------------------------------
Init ==
  /\ mod_list \in Modules
  /\ NtSymbolPath \in SymbolPaths
  /\ i = 1
  /\ step = 1
  /\ header = [k \in 1 .. 4 |-> GARBAGE]
  /\ heap = NoBlocks
  /\ failed = 0
  /\ loaded = <<>>
  /\ pc = "read"

\* One call of readMemory that comes back.  Its result is TRUE.
ReadMemory ==
  /\ pc = "read"
  /\ i <= Len(mod_list)
  /\ step <= 4
  /\ \E read \in Reads(step) :
       \E answer \in QueryMemoryBuffer(heap, read[1]) :
         /\ answer.result # "null"
         /\ heap' = AfterRead(answer.heap, answer.result)
         /\ header' = IF answer.result = "full" THEN [header EXCEPT ![step] = read[2]] ELSE header
         /\ failed' = IF answer.result = "full" THEN failed ELSE failed + 1
  /\ step' = step + 1
  /\ UNCHANGED <<mod_list, NtSymbolPath, i, loaded, pc>>

\* readMemory looks at the result of QueryMemoryBuffer before it is known that
\* there is one.
ReadNull ==
  /\ pc = "read"
  /\ i <= Len(mod_list)
  /\ step <= 4
  /\ \E read \in Reads(step) :
       \E answer \in QueryMemoryBuffer(heap, read[1]) :
         answer.result = "null" /\ heap' = answer.heap
  /\ pc' = "crash"
  /\ UNCHANGED <<mod_list, NtSymbolPath, i, step, header, failed, loaded>>

\* GetPdbFilePath, the DLL if it fails, and SymLoadModuleEx; the calls that
\* follow may write over the headers on the stack.
SymLoad ==
  /\ pc = "read"
  /\ i <= Len(mod_list)
  /\ step = 5
  /\ loaded' = Append(loaded, PathFor(header[4], i))
  /\ \E kept \in SUBSET (1 .. 4) :
       header' = [k \in 1 .. 4 |-> IF k \in kept THEN header[k] ELSE GARBAGE]
  /\ i' = i + 1
  /\ step' = 1
  /\ UNCHANGED <<mod_list, NtSymbolPath, heap, failed, pc>>

Finish ==
  /\ pc = "read"
  /\ i > Len(mod_list)
  /\ pc' = "done"
  /\ UNCHANGED <<mod_list, NtSymbolPath, i, step, header, heap, failed, loaded>>

Stopped == pc \in {"done", "crash"} /\ UNCHANGED vars

Next == ReadMemory \/ ReadNull \/ SymLoad \/ Finish \/ Stopped

Spec == Init /\ [][Next]_vars

-----------------------------------------------------------------------------
(* Properties. *)

\* Every path is of a module that has been visited, and every header too.
TypeOK ==
  /\ mod_list \in Seq(Module)
  /\ NtSymbolPath \in SymbolPath
  /\ i \in 1 .. Len(mod_list) + 1
  /\ step \in 1 .. 5
  /\ header \in [1 .. 4 -> 1 .. i \cup {GARBAGE}]
  /\ heap \in Heap
  /\ failed \in Nat
  /\ loaded \in Seq(Path)
  /\ Len(loaded) = i - 1
  /\ pc \in {"read", "done", "crash"}

Readable(m) == mod_list[m].memory = [k \in 1 .. 4 |-> "full"]

\* A module whose headers are all in the trace gets its own symbols, whatever
\* was left on the stack by those before it: no address and no name comes from
\* another module, or from another header of its own.
RightSymbols ==
  \A m \in 1 .. Len(loaded) : Readable(m) => loaded[m] = PathFor(m, m)

\* A module is given the PDB of another one only if one of its own headers is not
\* in the trace, and then of one before it that has a PDB.
ForeignOnlyUnread ==
  \A m \in 1 .. Len(loaded) :
    loaded[m].of # m => /\ ~ Readable(m)
                        /\ loaded[m].of \in 1 .. m - 1
                        /\ mod_list[loaded[m].of].pdb # "none"

\* Each read that failed costs one block of data, and nothing else stays in the
\* heap; a read of a whole header costs nothing.
HeapExact ==
  pc # "crash" => heap = [NoBlocks EXCEPT !["data"] = failed]

\* Nothing but a heap that is nearly full of such blocks stops the loop.
CrashOnlyScarce == pc = "crash" => failed + 2 >= SCARCE
=============================================================================
