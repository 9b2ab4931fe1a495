------------------------------- MODULE Clients -------------------------------
(***************************************************************************)
(* What the callers of Memory do with the heap: example_tenet, which asks  *)
(* for a context at every instruction and for the memory of every access;  *)
(* example_api, which does both once; and a Python program over            *)
(* src/python-bindings/module.cpp, which may call anything in any order.   *)
(* example_calltree's reads are in Symbols.                                *)
(***************************************************************************)
EXTENDS Memory

CONSTANTS
  Lengths,  \* numbers of instructions of a recording, or calls of a program
  ACCESSES  \* the most accesses of one instruction

ASSUME ClientsAssumption == Lengths \subseteq Nat /\ ACCESSES \in Nat

Client == {"tenet", "api", "python"}

VARIABLES
  client,
  length,
  heap,
  memsinfo,  \* accesses since the last line
  pending,   \* those still to come, or whose memory is still to be asked for
  steps,     \* instructions replayed, or calls made
  asked,     \* ended queries (or those that threw), contexts and objects so far
  pc

vars == <<client, length, heap, memsinfo, pending, steps, asked, pc>>

Counted == Recorded \cup {"thrown", "context", "object"}

Init ==
  /\ client \in Client
  /\ length \in Lengths
  /\ heap = NoBlocks
  /\ memsinfo = 0
  /\ pending = 0
  /\ steps = 0
  /\ asked = [k \in Counted |-> 0]
  /\ pc = IF client = "python" THEN "call" ELSE "context"

Asked(k) == asked' = [asked EXCEPT ![k] = @ + 1]

-----------------------------------------------------------------------------
(* Queries. *)

\* Mutation: nobody frees the buffer without data.
AfterQuery_KeepBuffer(h, result) ==
  IF result # "missing" THEN Free(Free(h, "data"), "memorybuffer") ELSE h

\* The blocks that a caller leaves.  example_tenet goes on to the next access when
\* there are no data; the others give free a NULL then.
AfterQuery(h, result) ==
  CASE result # "missing" -> Free(Free(h, "data"), "memorybuffer")
    [] result = "missing" /\ client = "tenet" -> h
    [] OTHER -> Free(h, "memorybuffer")

\* The fields of the buffer are read without a look at the pointer.
Crashes(result) == result = "null"

\* read_mem copies the data into a std::string, which may find no memory and throws
\* with nothing freed yet.  Python has a MemoryError then and goes on.  A short string
\* takes no block, one of no data never does.  When py::bytes throws, later, all is
\* freed, as when it does not.
MayThrow(h, result) == client = "python" /\ result # "missing" /\ Blocks(h) >= SCARCE

\* The loop of example_tenet writes as many bytes as the access has, read_mem takes as
\* many as the DLL has put in the buffer: which bytes they are is left to Tenet.
Query ==
  \E recorded \in Recorded : \E answer \in QueryMemoryBuffer(heap, recorded) :
    \/ /\ ~ Crashes(answer.result)
       /\ \/ /\ heap' = AfterQuery(answer.heap, answer.result)
             /\ Asked(answer.result)
          \/ /\ MayThrow(answer.heap, answer.result)
             /\ heap' = answer.heap
             /\ Asked("thrown")
       /\ pc' = CASE client = "tenet" -> "dump" [] client = "api" -> "done" [] OTHER -> "call"
    \/ /\ Crashes(answer.result)
       /\ heap' = answer.heap
       /\ pc' = "crash"
       /\ UNCHANGED asked

-----------------------------------------------------------------------------
(* example_tenet and example_api. *)

\* Mutation: the context of the line before is freed.
NewContext_FreeOld(h) == GetCrossPlatformContext([h EXCEPT !["context"] = 0])

\* No context is freed before the next one.
NewContext(h) == GetCrossPlatformContext(h)

\* The context of one instruction is read at once.  Outside of the range of
\* addresses nothing is written and memsinfo is kept.
Context ==
  /\ pc = "context"
  /\ \E context \in NewContext(heap) :
       IF ~ context.ok THEN heap' = heap /\ pc' = "crash" /\ UNCHANGED <<pending, asked>>
       ELSE /\ heap' = context.heap
            /\ Asked("context")
            /\ \/ /\ client = "api" /\ pc' = "query" /\ UNCHANGED pending
               \/ /\ client = "tenet" /\ pc' = "dump" /\ pending' = memsinfo
               \/ /\ client = "tenet" /\ steps > 0 /\ pc' = "replay" /\ UNCHANGED pending
  /\ UNCHANGED <<client, length, memsinfo, steps>>

QueryApi ==
  /\ pc = "query"
  /\ Query
  /\ UNCHANGED <<client, length, memsinfo, pending, steps>>

\* One access of dumpContext.
Dump ==
  /\ pc = "dump"
  /\ pending > 0
  /\ Query
  /\ pending' = pending - 1
  /\ UNCHANGED <<client, length, memsinfo, steps>>

\* Mutation: the accesses are freed and stay in memsinfo.
EndLine_NoClear ==
  /\ pc = "dump"
  /\ pending = 0
  /\ heap' = [heap EXCEPT !["object"] = @ - memsinfo]
  /\ pc' = "replay"
  /\ UNCHANGED <<client, length, memsinfo, pending, steps, asked>>

\* cleanMemsinfo; the first line is written before there is a callback.
EndLine ==
  /\ pc = "dump"
  /\ pending = 0
  /\ heap' = [heap EXCEPT !["object"] = @ - memsinfo]
  /\ memsinfo' = 0
  /\ pc' = "replay"
  /\ UNCHANGED <<client, length, pending, steps, asked>>

\* ReplayForward of one instruction, up to its end.
Replay ==
  /\ pc = "replay"
  /\ steps < length
  /\ pending' \in 0 .. ACCESSES
  /\ steps' = steps + 1
  /\ pc' = "callback"
  /\ UNCHANGED <<client, length, heap, memsinfo, asked>>

\* memCallback takes a block for an access, and writes to it at once.
memCallback ==
  /\ pc = "callback"
  /\ pending > 0
  /\ \E temp \in Malloc(heap, "object") :
       /\ heap' = temp.heap
       /\ IF temp.ok THEN memsinfo' = memsinfo + 1 /\ pc' = pc
          ELSE pc' = "crash" /\ UNCHANGED memsinfo
  /\ pending' = pending - 1
  /\ UNCHANGED <<client, length, steps, asked>>

Replayed ==
  /\ pc = "callback"
  /\ pending = 0
  /\ pc' = "context"
  /\ UNCHANGED <<client, length, heap, memsinfo, pending, steps, asked>>

ReplayEnds ==
  /\ pc = "replay"
  /\ steps = length
  /\ pc' = "done"
  /\ UNCHANGED <<client, length, heap, memsinfo, pending, steps, asked>>

-----------------------------------------------------------------------------
(* The Python program. *)

Call ==
  /\ pc = "call"
  /\ steps < length
  /\ steps' = steps + 1
  /\ UNCHANGED <<client, length, memsinfo, pending>>

read_mem == Call /\ Query

\* A context belongs to Python, whose wrapper does not delete it; NULL is None.
get_context ==
  /\ Call
  /\ \E context \in GetCrossPlatformContext(heap) :
       /\ heap' = context.heap
       /\ IF context.ok THEN Asked("context") ELSE UNCHANGED asked
  /\ UNCHANGED pc

\* One element of a list, or a new MemoryWatchpointData: an object made for Python,
\* which its wrapper does not delete either.  Without memory Python has an
\* exception.
Wrap ==
  /\ Call
  /\ \E object \in Malloc(heap, "object") :
       /\ heap' = object.heap
       /\ IF object.ok THEN Asked("object") ELSE UNCHANGED asked
  /\ UNCHANGED pc

Exit ==
  /\ pc = "call"
  /\ pc' = "done"
  /\ UNCHANGED <<client, length, heap, memsinfo, pending, steps, asked>>

-----------------------------------------------------------------------------
Stopped == pc \in {"done", "crash"} /\ UNCHANGED vars

Next ==
  \/ Context \/ QueryApi \/ Dump \/ EndLine \/ Replay \/ memCallback \/ Replayed \/ ReplayEnds
  \/ read_mem \/ get_context \/ Wrap \/ Exit
  \/ Stopped

\* The examples are loops without a wait.
Spec ==
  /\ Init
  /\ [][Next]_vars
  /\ WF_vars(\/ Context \/ QueryApi \/ Dump \/ EndLine
             \/ Replay \/ memCallback \/ Replayed \/ ReplayEnds)

-----------------------------------------------------------------------------
(* Properties. *)

TypeOK ==
  /\ client \in Client
  /\ heap \in Heap
  /\ Blocks(heap) <= FULL
  /\ memsinfo \in Nat
  /\ length \in Lengths
  /\ pending \in Nat
  /\ steps \in Nat
  /\ asked \in [Counted -> Nat]
  /\ pc \in {"context", "query", "dump", "replay", "callback", "call", "done", "crash"}

\* The blocks that nobody frees, and those of the line.
Kept ==
  [ memorybuffer |-> asked["thrown"] + (IF client = "tenet" THEN asked["missing"] ELSE 0),
    tbuffer |-> 0, data |-> asked["thrown"] + asked["missing"],
    context |-> asked["context"], object |-> asked["object"] + memsinfo ]

\* A heap to which a query came that had no memory for all of its blocks.
CutShort(h) ==
  { [k \in Kinds |-> IF k \in lost THEN h[k] + 1 ELSE h[k]] :
    lost \in SUBSET {"memorybuffer", "tbuffer"} }

\* What is left in the heap is exactly this: the data of every query for memory that the
\* trace does not have, in example_tenet with their buffer too, both blocks of every
\* read_mem whose string threw, every context, every object made for Python, and the
\* accesses of the line.  When the program falls over a query that ran out of memory,
\* what that query got before is lost too: the one or the other buffer, or both.
LeaksExact ==
  \/ heap = Kept
  \/ /\ pc = "crash"
     /\ heap \in CutShort(Kept)

\* A recording with more instructions than the heap has blocks is never exported
\* to the end: there is a context for each, in the range or not.
LongExportFails == client = "tenet" /\ length > FULL => <>(pc = "crash")
=============================================================================
