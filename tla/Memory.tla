------------------------------- MODULE Memory -------------------------------
(***************************************************************************)
(* QueryMemoryBuffer and GetCrossPlatformContext of Cursor                 *)
(* (src/TTD/TTD.cpp), with the blocks that they take from the heap and     *)
(* leave to the caller.  What the trace has of a range of memory is all of *)
(* it ("full"), the start ("partial") or nothing ("missing").              *)
(***************************************************************************)
EXTENDS Integers

CONSTANTS
  SCARCE,  \* malloc never fails with fewer live blocks than this
  FULL     \* and always with this many

ASSUME MemoryAssumption == SCARCE \in Nat /\ FULL \in Nat /\ SCARCE <= FULL

Kinds == {"memorybuffer", "tbuffer", "data", "context", "object"}
Heap == [Kinds -> Nat]
NoBlocks == [k \in Kinds |-> 0]

Blocks(h) == h["memorybuffer"] + h["tbuffer"] + h["data"] + h["context"] + h["object"]

Recorded == {"full", "partial", "missing"}

\* The ways in which malloc may go.
Malloc(h, kind) ==
  (IF Blocks(h) < FULL THEN {[heap |-> [h EXCEPT ![kind] = @ + 1], ok |-> TRUE]} ELSE {})
    \cup (IF Blocks(h) >= SCARCE THEN {[heap |-> h, ok |-> FALSE]} ELSE {})

Free(h, kind) == [h EXCEPT ![kind] = @ - 1]

\* The ways in which QueryMemoryBuffer may go.  It returns NULL ("null") with the
\* blocks it got still there.  For memory that is missing the DLL gives no data,
\* and nobody knows of the block it was given any more.
QueryMemoryBuffer(h, recorded) ==
  LET answers(b) ==
        { IF d.ok THEN [heap |-> Free(d.heap, "tbuffer"), result |-> recorded]
          ELSE [heap |-> d.heap, result |-> "null"] : d \in Malloc(b, "data") }
      buffers(m) ==
        UNION { IF m.ok /\ b.ok THEN answers(b.heap) ELSE {[heap |-> b.heap, result |-> "null"]}
                : b \in Malloc(m.heap, "tbuffer") }
  IN  UNION {buffers(m) : m \in Malloc(h, "memorybuffer")}

\* The ways in which GetCrossPlatformContext may go.
GetCrossPlatformContext(h) == Malloc(h, "context")
=============================================================================
