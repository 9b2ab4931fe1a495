---------------------------- MODULE Symbols_proof ----------------------------
(***************************************************************************)
(* For every list of modules, every _NT_SYMBOL_PATH and every heap: which  *)
(* symbols example_calltree loads and what it leaves in the heap.          *)
(***************************************************************************)
EXTENDS Symbols, TLAPS

-----------------------------------------------------------------------------
(* Memory. *)

LEMMA MallocWays ==
  ASSUME NEW h \in Heap, NEW kind \in Kinds, NEW m \in Malloc(h, kind)
  PROVE  /\ m.heap \in Heap
         /\ m.ok => m.heap = [h EXCEPT ![kind] = @ + 1]
         /\ ~ m.ok => m.heap = h /\ Blocks(h) >= SCARCE
<1>1. CASE m = [heap |-> [h EXCEPT ![kind] = @ + 1], ok |-> TRUE]
  BY <1>1 DEF Heap
<1>2. CASE m = [heap |-> h, ok |-> FALSE] /\ Blocks(h) >= SCARCE
  BY <1>2
<1> QED
  BY <1>1, <1>2 DEF Malloc

\* One more block of any kind.
LEMMA OneMore ==
  ASSUME NEW h \in Heap, NEW kind \in Kinds
  PROVE  Blocks([h EXCEPT ![kind] = @ + 1]) = Blocks(h) + 1
<1>1. \A k \in Kinds : h[k] \in Nat
  BY DEF Heap
<1> QED
  BY <1>1 DEF Blocks, Kinds, Heap

\* QueryMemoryBuffer gives its caller two blocks and what the trace has, or NULL
\* in a heap with no room for three.
LEMMA QueryWays ==
  ASSUME NEW h \in Heap, NEW recorded \in Recorded,
         NEW answer \in QueryMemoryBuffer(h, recorded)
  PROVE  /\ answer.result = "null" => Blocks(h) + 2 >= SCARCE /\ answer.heap \in Heap
         /\ answer.result # "null" =>
              /\ answer.result = recorded
              /\ answer.heap = [h EXCEPT !["memorybuffer"] = @ + 1, !["data"] = @ + 1]
<1> DEFINE Answers(b) ==
      { IF d.ok THEN [heap |-> Free(d.heap, "tbuffer"), result |-> recorded]
        ELSE [heap |-> d.heap, result |-> "null"] : d \in Malloc(b, "data") }
<1>1. PICK m \in Malloc(h, "memorybuffer") :
        \E b \in Malloc(m.heap, "tbuffer") :
          answer \in (IF m.ok /\ b.ok THEN Answers(b.heap)
                      ELSE {[heap |-> b.heap, result |-> "null"]})
  BY DEF QueryMemoryBuffer
<1>2. PICK b \in Malloc(m.heap, "tbuffer") :
        answer \in (IF m.ok /\ b.ok THEN Answers(b.heap)
                    ELSE {[heap |-> b.heap, result |-> "null"]})
  BY <1>1
<1>3. /\ m.heap \in Heap
      /\ m.ok => m.heap = [h EXCEPT !["memorybuffer"] = @ + 1]
      /\ ~ m.ok => m.heap = h /\ Blocks(h) >= SCARCE
  BY MallocWays DEF Kinds
<1>4. /\ b.heap \in Heap
      /\ b.ok => b.heap = [m.heap EXCEPT !["tbuffer"] = @ + 1]
      /\ ~ b.ok => b.heap = m.heap /\ Blocks(m.heap) >= SCARCE
  BY <1>3, MallocWays DEF Kinds
<1>5. recorded # "null"
  BY DEF Recorded
<1>6. Blocks(h) \in Nat /\ SCARCE \in Nat
  BY MemoryAssumption DEF Blocks, Heap, Kinds
<1>7. m.ok => Blocks(m.heap) = Blocks(h) + 1
  BY <1>3, OneMore DEF Kinds
<1>8. CASE ~ (m.ok /\ b.ok)
  <2>1. answer = [heap |-> b.heap, result |-> "null"]
    BY <1>2, <1>8
  <2>2. CASE ~ m.ok
    BY <2>1, <2>2, <1>3, <1>4, <1>6
  <2>3. CASE m.ok /\ ~ b.ok
    BY <2>1, <2>3, <1>3, <1>4, <1>6, <1>7
  <2> QED
    BY <2>2, <2>3, <1>8
<1>9. CASE m.ok /\ b.ok
  <2>1. PICK d \in Malloc(b.heap, "data") :
          answer = IF d.ok THEN [heap |-> Free(d.heap, "tbuffer"), result |-> recorded]
                   ELSE [heap |-> d.heap, result |-> "null"]
    BY <1>2, <1>9
  <2>2. /\ d.heap \in Heap
        /\ d.ok => d.heap = [b.heap EXCEPT !["data"] = @ + 1]
        /\ ~ d.ok => d.heap = b.heap /\ Blocks(b.heap) >= SCARCE
    BY <1>4, MallocWays DEF Kinds
  <2>3. Blocks(b.heap) = Blocks(h) + 2
    <3>1. Blocks(b.heap) = Blocks(m.heap) + 1
      BY <1>9, <1>3, <1>4, OneMore DEF Kinds
    <3> QED
      BY <3>1, <1>9, <1>6, <1>7
  <2>4. CASE ~ d.ok
    BY <2>1, <2>2, <2>3, <2>4, <1>6
  <2>5. CASE d.ok
    <3>1. answer = [heap |-> Free(d.heap, "tbuffer"), result |-> recorded]
      BY <2>1, <2>5
    <3>2. Free(d.heap, "tbuffer") = [h EXCEPT !["memorybuffer"] = @ + 1, !["data"] = @ + 1]
      <4> DEFINE h1 == [h EXCEPT !["memorybuffer"] = @ + 1]
                 h2 == [h1 EXCEPT !["tbuffer"] = @ + 1]
      <4>1. d.heap = [h2 EXCEPT !["data"] = @ + 1]
        BY <2>2, <2>5, <1>9, <1>3, <1>4
      <4>2. \A k \in Kinds : h[k] \in Nat
        BY DEF Heap
      <4> QED
        BY <4>1, <4>2 DEF Free, Heap, Kinds
    <3> QED
      BY <3>1, <3>2, <1>5
  <2> QED
    BY <2>4, <2>5
<1> QED
  BY <1>8, <1>9

\* The heap with the data of f reads in it.
Lost(f) == [NoBlocks EXCEPT !["data"] = f]

LEMMA LostBlocks ==
  ASSUME NEW f \in Nat
  PROVE  Lost(f) \in Heap /\ Blocks(Lost(f)) = f
  BY DEF Lost, NoBlocks, Heap, Kinds, Blocks

\* What a read adds to it.
LEMMA ReadLoses ==
  ASSUME NEW f \in Nat, NEW recorded \in Recorded,
         NEW answer \in QueryMemoryBuffer(Lost(f), recorded), answer.result # "null"
  PROVE  /\ answer.result = recorded
         /\ AfterRead(answer.heap, recorded) = Lost(IF recorded = "full" THEN f ELSE f + 1)
<1>1. /\ answer.result = recorded
      /\ answer.heap = [Lost(f) EXCEPT !["memorybuffer"] = @ + 1, !["data"] = @ + 1]
  BY LostBlocks, QueryWays
<1>2. answer.heap = [k \in Kinds |-> CASE k = "memorybuffer" -> 1 [] k = "data" -> f + 1 [] OTHER -> 0]
  BY <1>1 DEF Lost, NoBlocks, Kinds
<1>3. CASE recorded = "full"
  BY <1>1, <1>2, <1>3 DEF AfterRead, Free, Lost, NoBlocks, Kinds
<1>4. CASE recorded # "full"
  BY <1>1, <1>2, <1>4 DEF AfterRead, Free, Lost, NoBlocks, Kinds
<1> QED
  BY <1>1, <1>3, <1>4

-----------------------------------------------------------------------------
(* The inductive invariant. *)

Typed ==
  /\ mod_list \in Seq(Module)
  /\ NtSymbolPath \in SymbolPath
  /\ i \in 1 .. Len(mod_list) + 1
  /\ step \in 1 .. 5
  /\ header \in [1 .. 4 -> 1 .. i \cup {GARBAGE}]
  /\ heap \in Heap
  /\ failed \in Nat
  /\ loaded \in Seq(Path)
  /\ Len(loaded) = i - 1
  /\ pc \in {"read", "done", "crash"}

\* Of a module whose headers are all there, those read so far are its own, so
\* that every address is right.
OwnHeaders ==
  i <= Len(mod_list) /\ Readable(i) => \A k \in 1 .. step - 1 : header[k] = i

Inv ==
  /\ Typed
  /\ OwnHeaders
  /\ RightSymbols
  /\ ForeignOnlyUnread
  /\ pc # "crash" => heap = Lost(failed)
  /\ pc = "crash" => failed + 2 >= SCARCE

LEMMA InitInv == Init => Inv
<1> SUFFICES ASSUME Init PROVE Inv
  OBVIOUS
<1>1. mod_list \in Seq(Module) /\ NtSymbolPath \in SymbolPath
  BY SymbolsAssumption DEF Init
<1>2. heap = Lost(0) /\ heap \in Heap
  BY DEF Init, Lost, NoBlocks, Kinds, Heap
<1>3. Len(loaded) = 0 /\ loaded \in Seq(Path)
  BY DEF Init
<1>4. Typed
  BY <1>1, <1>2, <1>3 DEF Init, Typed
<1> QED
  BY <1>2, <1>3, <1>4 DEF Init, Inv, OwnHeaders, RightSymbols, ForeignOnlyUnread

LEMMA StutterInv == ASSUME Inv, UNCHANGED vars PROVE Inv'
  BY DEF Inv, vars, Typed, OwnHeaders, RightSymbols, ForeignOnlyUnread, Readable,
         PathFor, HasPdbPath, PdbPath, IsPdb70, ScanSymbolPath, Dll

LEMMA FinishInv == ASSUME Inv, Finish PROVE Inv'
  BY DEF Inv, Finish, Typed, OwnHeaders, RightSymbols, ForeignOnlyUnread, Readable,
         PathFor, HasPdbPath, PdbPath, IsPdb70, ScanSymbolPath, Dll

\* What is read is what the trace has, from this module or from elsewhere.
LEMMA ReadsType ==
  ASSUME Inv, i <= Len(mod_list), step <= 4, NEW read \in Reads(step)
  PROVE  /\ read[1] \in Recorded
         /\ read[2] \in {i, GARBAGE}
         /\ Readable(i) => read[1] = "full" /\ read[2] = i
<1>1. i \in 1 .. Len(mod_list) /\ mod_list[i] \in Module
  BY DEF Inv, Typed
<1>2. step \in 1 .. 4
  BY DEF Inv, Typed
<1>3. mod_list[i].memory[step] \in Recorded
  BY <1>1, <1>2 DEF Module
<1>4. ASSUME Readable(i) PROVE RightAddress(step) /\ mod_list[i].memory[step] = "full"
  <2>1. mod_list[i].memory[step] = "full"
    BY <1>2, <1>4 DEF Readable
  <2>2. step = 1 \/ header[step - 1] = i
    BY <1>2, <1>4 DEF Inv, OwnHeaders
  <2>3. i # GARBAGE
    BY <1>1, SymbolsAssumption
  <2> QED
    BY <2>1, <2>2, <2>3 DEF RightAddress
<1> QED
  BY <1>3, <1>4 DEF Reads

LEMMA ReadMemoryInv == ASSUME Inv, ReadMemory PROVE Inv'
<1>1. PICK read \in Reads(step) : \E answer \in QueryMemoryBuffer(heap, read[1]) :
        /\ answer.result # "null"
        /\ heap' = AfterRead(answer.heap, answer.result)
        /\ header' = IF answer.result = "full" THEN [header EXCEPT ![step] = read[2]] ELSE header
        /\ failed' = IF answer.result = "full" THEN failed ELSE failed + 1
  BY DEF ReadMemory
<1>2. PICK answer \in QueryMemoryBuffer(heap, read[1]) :
        /\ answer.result # "null"
        /\ heap' = AfterRead(answer.heap, answer.result)
        /\ header' = IF answer.result = "full" THEN [header EXCEPT ![step] = read[2]] ELSE header
        /\ failed' = IF answer.result = "full" THEN failed ELSE failed + 1
  BY <1>1
<1>3. /\ step \in 1 .. 4 /\ step' = step + 1
      /\ i \in 1 .. Len(mod_list)
      /\ pc = "read" /\ pc' = "read"
      /\ heap = Lost(failed) /\ failed \in Nat
      /\ UNCHANGED <<mod_list, NtSymbolPath, i, loaded>>
  BY DEF ReadMemory, Inv, Typed
<1>4. /\ read[1] \in Recorded
      /\ read[2] \in {i, GARBAGE}
      /\ Readable(i) => read[1] = "full" /\ read[2] = i
  BY ReadsType DEF ReadMemory
<1>5. /\ answer.result = read[1]
      /\ heap' = Lost(IF read[1] = "full" THEN failed ELSE failed + 1)
  BY <1>2, <1>3, <1>4, ReadLoses
<1>6. failed' \in Nat /\ heap' = Lost(failed') /\ heap' \in Heap
  BY <1>2, <1>3, <1>5, LostBlocks
<1>7. header' \in [1 .. 4 -> 1 .. i \cup {GARBAGE}]
  <2>1. header \in [1 .. 4 -> 1 .. i \cup {GARBAGE}]
    BY DEF Inv, Typed
  <2>2. read[2] \in 1 .. i \cup {GARBAGE}
    BY <1>3, <1>4
  <2> QED
    BY <1>2, <1>3, <2>1, <2>2
<1>8. Typed'
  BY <1>3, <1>6, <1>7 DEF Inv, Typed
<1>9. OwnHeaders'
  <2> SUFFICES ASSUME Readable(i)', NEW k \in 1 .. step' - 1
               PROVE  header'[k] = i'
    BY DEF OwnHeaders
  <2>1. Readable(i)
    BY <1>3 DEF Readable
  <2>2. header' = [header EXCEPT ![step] = i]
    BY <2>1, <1>2, <1>4, <1>5
  <2>3. header \in [1 .. 4 -> 1 .. i \cup {GARBAGE}]
    BY DEF Inv, Typed
  <2>4. k # step => k \in 1 .. step - 1 /\ header[k] = i
    BY <1>3, <2>1 DEF Inv, OwnHeaders
  <2> QED
    BY <1>3, <2>2, <2>3, <2>4
<1>10. RightSymbols' /\ ForeignOnlyUnread'
  BY <1>3 DEF Inv, RightSymbols, ForeignOnlyUnread, Readable,
              PathFor, HasPdbPath, PdbPath, IsPdb70, ScanSymbolPath, Dll
<1> QED
  BY <1>3, <1>6, <1>8, <1>9, <1>10 DEF Inv

LEMMA ReadNullInv == ASSUME Inv, ReadNull PROVE Inv'
<1>1. PICK read \in Reads(step) : \E answer \in QueryMemoryBuffer(heap, read[1]) :
        answer.result = "null" /\ heap' = answer.heap
  BY DEF ReadNull
<1>2. PICK answer \in QueryMemoryBuffer(heap, read[1]) :
        answer.result = "null" /\ heap' = answer.heap
  BY <1>1
<1>3. heap = Lost(failed) /\ failed \in Nat /\ heap \in Heap
  BY DEF ReadNull, Inv, Typed
<1>4. read[1] \in Recorded
  BY ReadsType DEF ReadNull
<1>5. failed + 2 >= SCARCE /\ heap' \in Heap
  BY <1>2, <1>3, <1>4, QueryWays, LostBlocks
<1>6. RightSymbols' /\ ForeignOnlyUnread' /\ OwnHeaders'
  BY DEF ReadNull, Inv, OwnHeaders, RightSymbols, ForeignOnlyUnread, Readable,
         PathFor, HasPdbPath, PdbPath, IsPdb70, ScanSymbolPath, Dll
<1>7. Typed'
  BY <1>5 DEF ReadNull, Inv, Typed
<1> QED
  BY <1>5, <1>6, <1>7 DEF ReadNull, Inv

LEMMA PathFields ==
  ASSUME NEW kind \in {"dll", "local", "store"}, NEW of \in Owner, NEW dir \in {"none", "symbols"}
  PROVE  /\ [kind |-> kind, of |-> of, dir |-> dir] \in Path
         /\ [kind |-> kind, of |-> of, dir |-> dir].of = of
  BY DEF Path

\* The path is the DLL of module n, or one for the PDB of m, which has one.
LEMMA PathType ==
  ASSUME NEW n \in Nat \ {0}, NEW m \in (1 .. n) \cup {GARBAGE}
  PROVE  /\ PathFor(m, n) \in Path
         /\ PathFor(m, n).of # n =>
              /\ PathFor(m, n).of \in 1 .. n - 1
              /\ mod_list[PathFor(m, n).of].pdb # "none"
              /\ PathFor(m, n).of = m
<1>1. ScanSymbolPath \in {"fails", "none", "symbols"}
  BY DEF ScanSymbolPath
<1>2. CASE ~ HasPdbPath(m)
  <2>1. PathFor(m, n) = [kind |-> "dll", of |-> n, dir |-> "none"]
    BY <1>2 DEF PathFor, Dll
  <2>2. n \in Owner
    BY DEF Owner
  <2>3. PathFor(m, n) \in Path /\ PathFor(m, n).of = n
    BY <2>1, <2>2, PathFields
  <2> QED
    BY <2>3
<1>3. CASE HasPdbPath(m) /\ mod_list[m].pdb = "local"
  <2>1. PathFor(m, n) = [kind |-> "local", of |-> m, dir |-> "none"]
    BY <1>3 DEF PathFor, PdbPath
  <2>2. m \in 1 .. n
    BY <1>3 DEF HasPdbPath, IsPdb70
  <2>3. m \in Owner
    BY <2>2 DEF Owner
  <2>4. PathFor(m, n) \in Path /\ PathFor(m, n).of = m
    BY <2>1, <2>3, PathFields
  <2>5. mod_list[PathFor(m, n).of].pdb # "none"
    BY <2>4, <1>3
  <2> QED
    BY <2>2, <2>4, <2>5
<1>4. CASE HasPdbPath(m) /\ mod_list[m].pdb # "local"
  <2>1. PathFor(m, n) = [kind |-> "store", of |-> m, dir |-> ScanSymbolPath]
    BY <1>4 DEF PathFor, PdbPath
  <2>2. m \in 1 .. n /\ mod_list[m].pdb # "none" /\ ScanSymbolPath \in {"none", "symbols"}
    BY <1>1, <1>4 DEF HasPdbPath, IsPdb70
  <2>3. m \in Owner
    BY <2>2 DEF Owner
  <2>4. PathFor(m, n) \in Path /\ PathFor(m, n).of = m
    <3>1. ScanSymbolPath \in {"none", "symbols"}
      BY <2>2
    <3> QED
      BY <2>1, <2>3, <3>1, PathFields
  <2>5. mod_list[PathFor(m, n).of].pdb # "none"
    BY <2>4, <2>2
  <2> QED
    BY <2>2, <2>4, <2>5
<1> QED
  BY <1>2, <1>3, <1>4

LEMMA SymLoadInv == ASSUME Inv, SymLoad PROVE Inv'
<1>1. /\ pc = "read" /\ pc' = "read" /\ step = 5 /\ step' = 1
      /\ i \in 1 .. Len(mod_list) /\ i \in Nat /\ i' = i + 1
      /\ loaded' = Append(loaded, PathFor(header[4], i))
      /\ UNCHANGED <<mod_list, NtSymbolPath, heap, failed>>
  BY DEF SymLoad, Inv, Typed
<1>2. /\ header[4] \in (1 .. i) \cup {GARBAGE}
      /\ loaded \in Seq(Path) /\ Len(loaded) = i - 1
      /\ GARBAGE \notin Nat
  BY SymbolsAssumption DEF Inv, Typed
<1> DEFINE path == PathFor(header[4], i)
<1>3. /\ path \in Path
      /\ path.of # i =>
           /\ path.of \in 1 .. i - 1
           /\ mod_list[path.of].pdb # "none"
           /\ path.of = header[4]
  <2>1. i \in Nat \ {0}
    BY <1>1
  <2> QED
    BY <2>1, <1>2, PathType
<1>4. /\ loaded' \in Seq(Path)
      /\ Len(loaded') = i
      /\ loaded'[i] = path
      /\ \A m \in 1 .. i - 1 : loaded'[m] = loaded[m]
  BY <1>1, <1>2, <1>3
<1>5. header' \in [1 .. 4 -> 1 .. i' \cup {GARBAGE}]
  <2>1. PICK kept \in SUBSET (1 .. 4) :
          header' = [k \in 1 .. 4 |-> IF k \in kept THEN header[k] ELSE GARBAGE]
    BY DEF SymLoad
  <2>2. \A k \in 1 .. 4 : header[k] \in 1 .. i' \cup {GARBAGE}
    BY <1>1 DEF Inv, Typed
  <2> QED
    BY <2>1, <2>2
<1>6. Typed'
  BY <1>1, <1>4, <1>5 DEF Inv, Typed
<1>7. OwnHeaders'
  BY <1>1 DEF OwnHeaders
<1>8. Readable(i) => header[4] = i
  BY <1>1 DEF Inv, OwnHeaders
<1>9. \A m : Readable(m)' <=> Readable(m)
  BY <1>1 DEF Readable
<1>10. \A m, n : PathFor(m, n)' = PathFor(m, n)
  BY <1>1 DEF PathFor, HasPdbPath, PdbPath, IsPdb70, ScanSymbolPath, Dll
<1>11. RightSymbols'
  <2> SUFFICES ASSUME NEW m \in 1 .. Len(loaded'), Readable(m)'
               PROVE  loaded'[m] = PathFor(m, m)'
    BY DEF RightSymbols
  <2>1. CASE m = i
    BY <2>1, <1>4, <1>8, <1>9, <1>10
  <2>2. CASE m # i
    BY <2>2, <1>1, <1>2, <1>4, <1>9, <1>10 DEF Inv, RightSymbols
  <2> QED
    BY <2>1, <2>2
<1>12. ForeignOnlyUnread'
  <2> SUFFICES ASSUME NEW m \in 1 .. Len(loaded'), loaded'[m].of # m
               PROVE  /\ ~ Readable(m)
                      /\ loaded'[m].of \in 1 .. m - 1
                      /\ mod_list[loaded'[m].of].pdb # "none"
    BY <1>1, <1>9 DEF ForeignOnlyUnread
  <2>1. CASE m = i
    BY <2>1, <1>3, <1>4, <1>8
  <2>2. CASE m # i
    BY <2>2, <1>1, <1>2, <1>4 DEF Inv, ForeignOnlyUnread
  <2> QED
    BY <2>1, <2>2
<1> QED
  BY <1>1, <1>6, <1>7, <1>11, <1>12 DEF Inv

-----------------------------------------------------------------------------
\* The invariant, for every constant that the assumptions allow.
THEOREM Invariant == Spec => []Inv
<1>1. ASSUME Inv, [Next]_vars PROVE Inv'
  <2>1. CASE ReadMemory
    BY <1>1, <2>1, ReadMemoryInv
  <2>2. CASE ReadNull
    BY <1>1, <2>2, ReadNullInv
  <2>3. CASE SymLoad
    BY <1>1, <2>3, SymLoadInv
  <2>4. CASE Finish
    BY <1>1, <2>4, FinishInv
  <2>5. CASE UNCHANGED vars
    BY <1>1, <2>5, StutterInv
  <2> QED
    BY <1>1, <2>1, <2>2, <2>3, <2>4, <2>5 DEF Next, Stopped
<1> QED
  BY <1>1, InitInv, PTL DEF Spec

\* Every path is of a module visited before, and so is what the stack holds.
THEOREM TypeCorrect == Spec => []TypeOK
<1>1. Inv => TypeOK
  BY DEF Inv, Typed, TypeOK
<1> QED
  BY <1>1, Invariant, PTL

\* A module whose headers are in the trace gets its own symbols, whatever the
\* failed reads of the modules before it left on the stack.
THEOREM SymbolsAreRight == Spec => []RightSymbols
<1>1. Inv => RightSymbols
  BY DEF Inv
<1> QED
  BY <1>1, Invariant, PTL

\* Symbols of another module need a header that is not in the trace.
THEOREM ForeignSymbols == Spec => []ForeignOnlyUnread
<1>1. Inv => ForeignOnlyUnread
  BY DEF Inv
<1> QED
  BY <1>1, Invariant, PTL

\* The loop leaves the data of its failed reads in the heap and nothing else.
THEOREM HeapCorrect == Spec => []HeapExact
<1>1. Inv => HeapExact
  BY DEF Inv, HeapExact, Lost
<1> QED
  BY <1>1, Invariant, PTL

\* The loop stops only in a heap that is nearly full of them.
THEOREM CrashIsScarce == Spec => []CrashOnlyScarce
<1>1. Inv => CrashOnlyScarce
  BY DEF Inv, CrashOnlyScarce
<1> QED
  BY <1>1, Invariant, PTL
=============================================================================
