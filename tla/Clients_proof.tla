---------------------------- MODULE Clients_proof ----------------------------
(***************************************************************************)
(* For every client, every length of its run and every size of the heap:   *)
(* what the callers of Memory leave in the heap.                           *)
(***************************************************************************)
EXTENDS Clients, TLAPS

-----------------------------------------------------------------------------
(* Memory. *)

LEMMA MallocWays ==
  ASSUME NEW h \in Heap, NEW kind \in Kinds, NEW m \in Malloc(h, kind)
  PROVE  /\ m.heap \in Heap
         /\ m.ok => m.heap = [h EXCEPT ![kind] = @ + 1] /\ Blocks(h) < FULL
         /\ ~ m.ok => m.heap = h
<1>1. CASE Blocks(h) < FULL /\ m = [heap |-> [h EXCEPT ![kind] = @ + 1], ok |-> TRUE]
  BY <1>1 DEF Heap
<1>2. CASE m = [heap |-> h, ok |-> FALSE]
  BY <1>2
<1> QED
  BY <1>1, <1>2 DEF Malloc

\* One more block of any kind.
LEMMA OneMore ==
  ASSUME NEW h \in Heap, NEW kind \in Kinds
  PROVE  Blocks([h EXCEPT ![kind] = @ + 1]) = Blocks(h) + 1
<1>1. \A k \in Kinds : h[k] \in Nat
  BY DEF Heap
<1> QED
  BY <1>1 DEF Blocks, Kinds, Heap

\* A call of malloc never takes more blocks than there are.
LEMMA MallocFits ==
  ASSUME NEW h \in Heap, Blocks(h) <= FULL, NEW kind \in Kinds, NEW m \in Malloc(h, kind)
  PROVE  Blocks(m.heap) <= FULL
<1>1. Blocks(h) \in Nat /\ FULL \in Nat
  BY MemoryAssumption DEF Blocks, Heap, Kinds
<1>2. CASE m.ok
  <2>1. m.heap = [h EXCEPT ![kind] = @ + 1] /\ Blocks(h) < FULL
    BY <1>2, MallocWays
  <2>2. Blocks(m.heap) = Blocks(h) + 1
    BY <2>1, OneMore
  <2> QED
    BY <1>1, <2>1, <2>2
<1>3. CASE ~ m.ok
  BY <1>3, MallocWays
<1> QED
  BY <1>2, <1>3

\* QueryMemoryBuffer gives its caller two blocks and what the trace has, or NULL.
LEMMA QueryWays ==
  ASSUME NEW h \in Heap, Blocks(h) <= FULL, NEW recorded \in Recorded,
         NEW answer \in QueryMemoryBuffer(h, recorded)
  PROVE  /\ answer.result = "null" =>
              /\ answer.heap \in Heap /\ Blocks(answer.heap) <= FULL
              /\ answer.heap \in CutShort(h)
         /\ answer.result # "null" =>
              /\ answer.result = recorded
              /\ answer.heap = [h EXCEPT !["memorybuffer"] = @ + 1, !["data"] = @ + 1]
              /\ Blocks(h) + 2 < FULL
<1> DEFINE Answers(b) ==
      { IF d.ok THEN [heap |-> Free(d.heap, "tbuffer"), result |-> recorded]
        ELSE [heap |-> d.heap, result |-> "null"] : d \in Malloc(b, "data") }
<1>1. PICK m \in Malloc(h, "memorybuffer") :
        \E b \in Malloc(m.heap, "tbuffer") :
          answer \in (IF m.ok /\ b.ok THEN Answers(b.heap)
                      ELSE {[heap |-> b.heap, result |-> "null"]})
  BY DEF QueryMemoryBuffer
<1>2. PICK b \in Malloc(m.heap, "tbuffer") :
        answer \in (IF m.ok /\ b.ok THEN Answers(b.heap)
                    ELSE {[heap |-> b.heap, result |-> "null"]})
  BY <1>1
<1>3. /\ m.heap \in Heap
      /\ m.ok => m.heap = [h EXCEPT !["memorybuffer"] = @ + 1]
      /\ ~ m.ok => m.heap = h
      /\ Blocks(m.heap) <= FULL
  BY MallocWays, MallocFits DEF Kinds
<1>4. /\ b.heap \in Heap
      /\ b.ok => b.heap = [m.heap EXCEPT !["tbuffer"] = @ + 1]
      /\ ~ b.ok => b.heap = m.heap
      /\ Blocks(b.heap) <= FULL
  <2>1. "tbuffer" \in Kinds
    BY DEF Kinds
  <2>2. Blocks(b.heap) <= FULL
    BY <1>3, <2>1, MallocFits
  <2> QED
    BY <1>3, <2>1, <2>2, MallocWays
<1>5. recorded # "null"
  BY DEF Recorded
<1>6. Blocks(h) \in Nat /\ FULL \in Nat
  BY MemoryAssumption DEF Blocks, Heap, Kinds
<1>9. b.heap \in CutShort(h)
  <2> DEFINE lost == (IF m.ok THEN {"memorybuffer"} ELSE {})
                       \cup (IF b.ok THEN {"tbuffer"} ELSE {})
  <2>1. m.heap = [k \in Kinds |-> IF m.ok /\ k = "memorybuffer" THEN h[k] + 1 ELSE h[k]]
    BY <1>3 DEF Heap
  <2>2. b.heap = [k \in Kinds |-> IF b.ok /\ k = "tbuffer" THEN m.heap[k] + 1 ELSE m.heap[k]]
    BY <1>3, <1>4 DEF Heap
  <2>3. b.heap = [k \in Kinds |-> IF k \in lost THEN h[k] + 1 ELSE h[k]]
    <3>1. \A k \in Kinds : (IF b.ok /\ k = "tbuffer" THEN m.heap[k] + 1 ELSE m.heap[k])
                            = (IF k \in lost THEN h[k] + 1 ELSE h[k])
      BY <2>1
    <3> QED
      BY <2>2, <3>1
  <2>4. lost \in SUBSET {"memorybuffer", "tbuffer"}
    OBVIOUS
  <2> HIDE DEF lost
  <2> QED
    BY <2>3, <2>4 DEF CutShort
<1>7. CASE ~ (m.ok /\ b.ok)
  <2>1. answer = [heap |-> b.heap, result |-> "null"]
    BY <1>2, <1>7
  <2> QED
    BY <2>1, <1>4, <1>9
<1>8. CASE m.ok /\ b.ok
  <2>1. PICK d \in Malloc(b.heap, "data") :
          answer = IF d.ok THEN [heap |-> Free(d.heap, "tbuffer"), result |-> recorded]
                   ELSE [heap |-> d.heap, result |-> "null"]
    BY <1>2, <1>8
  <2>2. /\ d.heap \in Heap
        /\ d.ok => d.heap = [b.heap EXCEPT !["data"] = @ + 1] /\ Blocks(b.heap) < FULL
        /\ ~ d.ok => d.heap = b.heap
        /\ Blocks(d.heap) <= FULL
    <3>1. "data" \in Kinds
      BY DEF Kinds
    <3>2. Blocks(d.heap) <= FULL
      BY <1>4, <3>1, MallocFits
    <3> QED
      BY <1>4, <3>1, <3>2, MallocWays
  <2>3. Blocks(b.heap) = Blocks(h) + 2
    <3>1. Blocks(b.heap) = Blocks(m.heap) + 1
      BY <1>8, <1>3, <1>4, OneMore DEF Kinds
    <3>2. Blocks(m.heap) = Blocks(h) + 1
      BY <1>8, <1>3, OneMore DEF Kinds
    <3> QED
      BY <3>1, <3>2, <1>6
  <2>4. CASE ~ d.ok
    BY <2>1, <2>2, <2>4, <1>9
  <2>5. CASE d.ok
    <3>1. answer = [heap |-> Free(d.heap, "tbuffer"), result |-> recorded]
      BY <2>1, <2>5
    <3>2. Free(d.heap, "tbuffer") = [h EXCEPT !["memorybuffer"] = @ + 1, !["data"] = @ + 1]
      <4> DEFINE h1 == [h EXCEPT !["memorybuffer"] = @ + 1]
                 h2 == [h1 EXCEPT !["tbuffer"] = @ + 1]
      <4>1. d.heap = [h2 EXCEPT !["data"] = @ + 1]
        BY <2>2, <2>5, <1>8, <1>3, <1>4
      <4>2. \A k \in Kinds : h[k] \in Nat
        BY DEF Heap
      <4> QED
        BY <4>1, <4>2 DEF Free, Heap, Kinds
    <3>3. Blocks(h) + 2 < FULL
      BY <2>2, <2>3, <2>5
    <3> QED
      BY <3>1, <3>2, <3>3, <1>5
  <2> QED
    BY <2>4, <2>5
<1> QED
  BY <1>7, <1>8

-----------------------------------------------------------------------------
(* The inductive invariant. *)

\* What is lost in a query that ends the program is lost in the step that ends it.
Inv == TypeOK /\ LeaksExact /\ (pc # "crash" => heap = Kept)

LEMMA KeptByKind ==
  heap \in Heap => (heap = Kept <=> \A k \in Kinds : heap[k] = Kept[k])
<1> SUFFICES ASSUME heap \in Heap
             PROVE  heap = Kept <=> \A k \in Kinds : heap[k] = Kept[k]
  OBVIOUS
<1>1. heap = [k \in Kinds |-> heap[k]]
  BY DEF Heap
<1> QED
  BY <1>1 DEF Kept, Kinds

LEMMA KeptByKindNext ==
  heap' \in Heap => (heap' = Kept' <=> \A k \in Kinds : heap'[k] = Kept'[k])
<1>1. (heap \in Heap => (heap = Kept <=> \A k \in Kinds : heap[k] = Kept[k]))'
  BY KeptByKind, PTL
<1> QED
  BY <1>1

LEMMA InitInv == Init => Inv
<1> SUFFICES ASSUME Init PROVE Inv
  OBVIOUS
<1>1. heap \in Heap /\ Blocks(heap) = 0 /\ FULL \in Nat
  BY MemoryAssumption DEF Init, NoBlocks, Heap, Kinds, Blocks
<1>2. TypeOK
  <2>1. asked \in [Counted -> Nat]
    BY DEF Init
  <2>2. pc \in {"context", "call"}
    BY DEF Init
  <2>3. Blocks(heap) <= FULL
    BY <1>1
  <2>4. client \in Client /\ length \in Lengths /\ memsinfo \in Nat /\ pending \in Nat
        /\ steps \in Nat
    BY DEF Init
  <2> QED
    BY <1>1, <2>1, <2>2, <2>3, <2>4 DEF TypeOK
<1>3. \A k \in Kinds : heap[k] = Kept[k]
  BY DEF Init, NoBlocks, Kept, Kinds, Recorded, Counted
<1> QED
  BY <1>1, <1>2, <1>3, KeptByKind DEF Inv, LeaksExact

-----------------------------------------------------------------------------
(* One lemma for each action. *)

\* What an answer leaves in the heap when the caller has dealt with it.
LEMMA AfterQueryLeft ==
  ASSUME Inv, pc # "crash", NEW recorded \in Recorded,
         NEW answer \in QueryMemoryBuffer(heap, recorded), answer.result # "null"
  PROVE  /\ answer.result = recorded
         /\ AfterQuery(answer.heap, answer.result) =
              [k \in Kinds |->
                 CASE k = "memorybuffer" ->
                        IF recorded = "missing" /\ client = "tenet" THEN heap[k] + 1 ELSE heap[k]
                   [] k = "data" -> IF recorded = "missing" THEN heap[k] + 1 ELSE heap[k]
                   [] OTHER -> heap[k]]
         /\ Blocks(heap) + 2 < FULL
<1>1. heap \in Heap /\ Blocks(heap) <= FULL
  BY DEF Inv, TypeOK
<1>2. /\ answer.result = recorded
      /\ answer.heap = [heap EXCEPT !["memorybuffer"] = @ + 1, !["data"] = @ + 1]
      /\ Blocks(heap) + 2 < FULL
  BY <1>1, QueryWays
<1>3. \A k \in Kinds : heap[k] \in Nat
  BY <1>1 DEF Heap
<1>4. answer.heap =
        [k \in Kinds |-> IF k \in {"memorybuffer", "data"} THEN heap[k] + 1 ELSE heap[k]]
  BY <1>1, <1>2 DEF Heap, Kinds
<1>5. CASE recorded # "missing"
  BY <1>2, <1>3, <1>4, <1>5 DEF AfterQuery, Free, Kinds
<1>6. CASE recorded = "missing" /\ client = "tenet"
  BY <1>2, <1>3, <1>4, <1>6 DEF AfterQuery, Free, Kinds
<1>7. CASE recorded = "missing" /\ client # "tenet"
  BY <1>2, <1>3, <1>4, <1>7 DEF AfterQuery, Free, Kinds
<1> QED
  BY <1>2, <1>5, <1>6, <1>7

LEMMA QueryInv ==
  ASSUME Inv, pc # "crash", Query, UNCHANGED <<client, length, memsinfo>>,
         pending' \in Nat, steps' \in Nat
  PROVE  Inv'
<1> DEFINE Outcome(answer) ==
      \/ /\ ~ Crashes(answer.result)
         /\ \/ /\ heap' = AfterQuery(answer.heap, answer.result)
               /\ Asked(answer.result)
            \/ /\ MayThrow(answer.heap, answer.result)
               /\ heap' = answer.heap
               /\ Asked("thrown")
         /\ pc' = CASE client = "tenet" -> "dump" [] client = "api" -> "done" [] OTHER -> "call"
      \/ /\ Crashes(answer.result)
         /\ heap' = answer.heap
         /\ pc' = "crash"
         /\ UNCHANGED asked
<1>0. PICK recorded \in Recorded :
        \E answer \in QueryMemoryBuffer(heap, recorded) : Outcome(answer)
  BY DEF Query
<1>1. PICK answer \in QueryMemoryBuffer(heap, recorded) : Outcome(answer)
  BY <1>0
<1>2. /\ heap \in Heap /\ Blocks(heap) <= FULL /\ Blocks(heap) \in Nat /\ FULL \in Nat
      /\ \A k \in Kinds : heap[k] \in Nat
      /\ \A k \in Counted : asked[k] \in Nat
      /\ memsinfo \in Nat /\ heap = Kept
  BY MemoryAssumption DEF Inv, TypeOK, Heap, Kinds, Blocks
<1>3. CASE answer.result = "null"
  <2>1. heap' = answer.heap /\ pc' = "crash" /\ UNCHANGED asked
    BY <1>1, <1>3 DEF Crashes
  <2>2. heap' \in Heap /\ Blocks(heap') <= FULL
    BY <1>2, <1>3, <2>1, QueryWays
  <2>3. TypeOK'
    BY <2>1, <2>2 DEF Inv, TypeOK, Blocks
  <2>4. Kept' = heap
    BY <1>2, <2>1 DEF Kept
  <2>5. LeaksExact'
    <3>1. answer.heap \in CutShort(heap)
      BY <1>2, <1>3, QueryWays
    <3> QED
      BY <3>1, <2>1, <2>4 DEF LeaksExact, CutShort
  <2> QED
    BY <2>1, <2>3, <2>5 DEF Inv
<1>4. CASE answer.result # "null" /\ heap' = AfterQuery(answer.heap, answer.result)
           /\ Asked(answer.result)
  <2>1. /\ asked' = [asked EXCEPT ![answer.result] = @ + 1]
        /\ pc' \in {"dump", "done", "call"}
    BY <1>1, <1>4 DEF Crashes, Asked
  <2>2. /\ answer.result = recorded
        /\ heap' = [k \in Kinds |->
                      CASE k = "memorybuffer" ->
                             IF recorded = "missing" /\ client = "tenet" THEN heap[k] + 1 ELSE heap[k]
                        [] k = "data" -> IF recorded = "missing" THEN heap[k] + 1 ELSE heap[k]
                        [] OTHER -> heap[k]]
        /\ Blocks(heap) + 2 < FULL
    BY <1>4, AfterQueryLeft
  <2>3. /\ asked' \in [Counted -> Nat]
        /\ asked'[recorded] = asked[recorded] + 1
        /\ \A k \in Counted : k # recorded => asked'[k] = asked[k]
    BY <2>1, <2>2 DEF Inv, TypeOK, Counted
  <2>4. heap' \in Heap /\ Blocks(heap') <= FULL
    BY <1>2, <2>2 DEF Heap, Kinds, Blocks
  <2>5. TypeOK'
    BY <2>1, <2>3, <2>4 DEF Inv, TypeOK, Blocks
  <2>6. \A k \in Kinds : heap'[k] = Kept'[k]
    <3>1. \A k \in Kinds : heap[k] = Kept[k]
      BY <1>2
    <3>2. CASE recorded = "missing"
      <4>1. asked'["missing"] = asked["missing"] + 1 /\ asked'["context"] = asked["context"]
            /\ asked'["object"] = asked["object"] /\ asked'["thrown"] = asked["thrown"]
        BY <2>3, <3>2 DEF Recorded, Counted
      <4>2. \A k \in Counted : asked[k] \in Nat
        BY <1>2
      <4> QED
        BY <2>2, <3>1, <3>2, <4>1, <4>2 DEF Kept, Kinds, Counted, Recorded
    <3>3. CASE recorded # "missing"
      <4>1. asked'["missing"] = asked["missing"] /\ asked'["context"] = asked["context"]
            /\ asked'["object"] = asked["object"] /\ asked'["thrown"] = asked["thrown"]
        BY <2>3, <3>3 DEF Recorded, Counted
      <4> QED
        BY <2>2, <3>1, <3>3, <4>1 DEF Kept, Kinds
    <3> QED
      BY <3>2, <3>3
  <2> QED
    BY <2>4, <2>5, <2>6, KeptByKindNext DEF Inv, LeaksExact
<1>5. CASE answer.result # "null" /\ MayThrow(answer.heap, answer.result)
           /\ heap' = answer.heap /\ Asked("thrown")
  <2>1. /\ client # "tenet" /\ asked' = [asked EXCEPT !["thrown"] = @ + 1]
        /\ pc' \in {"dump", "done", "call"}
    BY <1>1, <1>5 DEF Crashes, Asked, MayThrow
  <2>2. /\ heap' = [heap EXCEPT !["memorybuffer"] = @ + 1, !["data"] = @ + 1]
        /\ Blocks(heap) + 2 < FULL
    BY <1>2, <1>5, QueryWays
  <2>3. /\ asked' \in [Counted -> Nat]
        /\ asked'["thrown"] = asked["thrown"] + 1
        /\ \A k \in Counted : k # "thrown" => asked'[k] = asked[k]
    BY <2>1 DEF Inv, TypeOK, Counted
  <2>4. heap' \in Heap /\ Blocks(heap') <= FULL
    BY <1>2, <2>2 DEF Heap, Kinds, Blocks
  <2>5. TypeOK'
    BY <2>1, <2>3, <2>4 DEF Inv, TypeOK, Blocks
  <2>6. \A k \in Kinds :
          heap'[k] = IF k \in {"memorybuffer", "data"} THEN heap[k] + 1 ELSE heap[k]
    BY <1>2, <2>2 DEF Heap, Kinds
  <2>7. /\ asked'["missing"] = asked["missing"] /\ asked'["context"] = asked["context"]
        /\ asked'["object"] = asked["object"] /\ asked'["thrown"] = asked["thrown"] + 1
        /\ asked["missing"] \in Nat /\ asked["thrown"] \in Nat
    BY <1>2, <2>3 DEF Recorded, Counted
  <2>8. \A k \in Kinds : heap'[k] = Kept'[k]
    <3>1. \A k \in Kinds : heap[k] = Kept[k]
      BY <1>2
    <3> QED
      BY <2>1, <2>6, <2>7, <3>1 DEF Kept, Kinds
  <2> QED
    BY <2>4, <2>5, <2>8, KeptByKindNext DEF Inv, LeaksExact
<1> QED
  BY <1>1, <1>3, <1>4, <1>5 DEF Crashes

\* A step that leaves the heap and the counts of it alone.
LEMMA HeapKeptInv ==
  ASSUME Inv, UNCHANGED <<client, length, heap, memsinfo, asked>>,
         pending' \in Nat, steps' \in Nat, pc # "crash",
         pc' \in {"context", "query", "dump", "replay", "callback", "call", "done", "crash"}
  PROVE  Inv'
  BY DEF Inv, TypeOK, LeaksExact, Kept, Blocks

\* One block more, of a kind that is counted.
LEMMA BlockAddedInv ==
  ASSUME Inv, pc # "crash", NEW kind \in {"context", "object"}, NEW m \in Malloc(heap, kind),
         heap' = m.heap, UNCHANGED <<client, length>>,
         pending' \in Nat, steps' \in Nat,
         pc' \in {"context", "query", "dump", "replay", "callback", "call", "done", "crash"},
         \/ m.ok /\ asked' = [asked EXCEPT ![kind] = @ + 1] /\ memsinfo' = memsinfo
         \/ m.ok /\ kind = "object" /\ asked' = asked /\ memsinfo' = memsinfo + 1
         \/ ~ m.ok /\ asked' = asked /\ memsinfo' = memsinfo
  PROVE  Inv'
<1>1. /\ heap \in Heap /\ Blocks(heap) <= FULL /\ kind \in Kinds
      /\ \A k \in Kinds : heap[k] \in Nat
      /\ \A k \in Counted : asked[k] \in Nat
      /\ asked \in [Counted -> Nat]
      /\ memsinfo \in Nat
  BY DEF Inv, TypeOK, Heap, Kinds
<1>2. heap' \in Heap /\ Blocks(heap') <= FULL
  BY <1>1, MallocWays, MallocFits
<1>3. TypeOK'
  <2>1. asked' \in [Counted -> Nat] /\ memsinfo' \in Nat
    BY <1>1
  <2> QED
    BY <1>2, <2>1 DEF Inv, TypeOK, Blocks
<1>4. \A k \in Kinds : heap[k] = Kept[k]
  BY <1>1, KeptByKind DEF Inv
<1>5. \A k \in Kinds : heap'[k] = Kept'[k]
  <2>1. CASE ~ m.ok
    <3>1. heap' = heap /\ asked' = asked /\ memsinfo' = memsinfo
      BY <2>1, <1>1, MallocWays
    <3> QED
      BY <3>1, <1>4 DEF Kept
  <2>2. CASE m.ok
    <3>1. heap' = [heap EXCEPT ![kind] = @ + 1]
      BY <2>2, <1>1, MallocWays
    <3>2. \A k \in Kinds : heap'[k] = IF k = kind THEN heap[k] + 1 ELSE heap[k]
      BY <3>1, <1>1 DEF Heap
    <3>3. CASE asked' = [asked EXCEPT ![kind] = @ + 1] /\ memsinfo' = memsinfo
      <4>1. /\ asked'["missing"] = asked["missing"] /\ asked'["thrown"] = asked["thrown"]
            /\ asked'["context"] = IF kind = "context" THEN asked["context"] + 1 ELSE asked["context"]
            /\ asked'["object"] = IF kind = "object" THEN asked["object"] + 1 ELSE asked["object"]
        BY <3>3, <1>1 DEF Recorded, Counted
      <4>2. asked["context"] \in Nat /\ asked["object"] \in Nat
        BY <1>1 DEF Counted
      <4> QED
        BY <3>2, <3>3, <4>1, <4>2, <1>1, <1>4 DEF Kept, Kinds
    <3>4. CASE kind = "object" /\ asked' = asked /\ memsinfo' = memsinfo + 1
      <4>1. asked["object"] \in Nat
        BY <1>1 DEF Counted
      <4> QED
        BY <3>2, <3>4, <4>1, <1>1, <1>4 DEF Kept, Kinds
    <3> QED
      BY <2>2, <3>3, <3>4
  <2> QED
    BY <2>1, <2>2
<1> QED
  BY <1>2, <1>3, <1>5, KeptByKindNext DEF Inv, LeaksExact

LEMMA ContextInv == ASSUME Inv, Context PROVE Inv'
<1>1. PICK context \in NewContext(heap) :
        IF ~ context.ok THEN heap' = heap /\ pc' = "crash" /\ UNCHANGED <<pending, asked>>
        ELSE /\ heap' = context.heap
             /\ Asked("context")
             /\ \/ /\ client = "api" /\ pc' = "query" /\ UNCHANGED pending
                \/ /\ client = "tenet" /\ pc' = "dump" /\ pending' = memsinfo
                \/ /\ client = "tenet" /\ steps > 0 /\ pc' = "replay" /\ UNCHANGED pending
  BY DEF Context
<1>2. pc = "context" /\ UNCHANGED <<client, length, memsinfo, steps>>
  BY DEF Context
<1>3. pending \in Nat /\ memsinfo \in Nat /\ steps \in Nat
  BY DEF Inv, TypeOK
<1>4. CASE ~ context.ok
  BY <1>1, <1>2, <1>3, <1>4, HeapKeptInv
<1>5. CASE context.ok
  <2>1. context \in Malloc(heap, "context")
    BY DEF NewContext, GetCrossPlatformContext
  <2>2. /\ heap' = context.heap /\ asked' = [asked EXCEPT !["context"] = @ + 1]
        /\ pc' \in {"query", "dump", "replay"} /\ pending' \in Nat
    BY <1>1, <1>3, <1>5 DEF Asked
  <2> QED
    BY <1>2, <1>3, <1>5, <2>1, <2>2, BlockAddedInv
<1> QED
  BY <1>4, <1>5

LEMMA EndLineInv == ASSUME Inv, EndLine PROVE Inv'
<1>1. /\ pc = "dump" /\ pc' = "replay" /\ memsinfo' = 0
      /\ heap' = [heap EXCEPT !["object"] = @ - memsinfo]
      /\ UNCHANGED <<client, length, pending, steps, asked>>
  BY DEF EndLine
<1>2. /\ heap \in Heap /\ Blocks(heap) <= FULL /\ FULL \in Nat
      /\ \A k \in Kinds : heap[k] \in Nat
      /\ asked["object"] \in Nat /\ memsinfo \in Nat
  BY MemoryAssumption DEF Inv, TypeOK, Heap, Kinds, Counted
<1>3. \A k \in Kinds : heap[k] = Kept[k]
  BY <1>1, <1>2 DEF Inv
<1>4. heap["object"] = asked["object"] + memsinfo /\ heap["object"] \in Nat
  BY <1>2, <1>3 DEF Kept, Kinds
<1>5. heap' = [heap EXCEPT !["object"] = asked["object"]] /\ asked["object"] <= heap["object"]
  <2>1. heap["object"] - memsinfo = asked["object"] /\ asked["object"] <= heap["object"]
    BY <1>2, <1>4
  <2> QED
    BY <1>1, <2>1
<1>6. heap' \in Heap /\ Blocks(heap') <= FULL
  BY <1>2, <1>5 DEF Heap, Kinds, Blocks
<1>7. TypeOK'
  BY <1>1, <1>6 DEF Inv, TypeOK, Blocks
<1>8. \A k \in Kinds : heap'[k] = Kept'[k]
  BY <1>1, <1>2, <1>3, <1>5 DEF Kept, Kinds, Heap
<1> QED
  BY <1>6, <1>7, <1>8, KeptByKindNext DEF Inv, LeaksExact

LEMMA memCallbackInv == ASSUME Inv, memCallback PROVE Inv'
<1>1. PICK temp \in Malloc(heap, "object") :
        /\ heap' = temp.heap
        /\ IF temp.ok THEN memsinfo' = memsinfo + 1 /\ pc' = pc
           ELSE pc' = "crash" /\ UNCHANGED memsinfo
  BY DEF memCallback
<1>2. /\ pc = "callback" /\ pending' \in Nat /\ steps' \in Nat
      /\ UNCHANGED <<client, length, asked>>
  BY DEF memCallback, Inv, TypeOK
<1>3. CASE temp.ok
  BY <1>1, <1>2, <1>3, BlockAddedInv
<1>4. CASE ~ temp.ok
  BY <1>1, <1>2, <1>4, BlockAddedInv
<1> QED
  BY <1>3, <1>4

\* The steps of a Python program.
LEMMA PythonInv == ASSUME Inv, read_mem \/ get_context \/ Wrap PROVE Inv'
<1>1. /\ pc = "call" /\ pending' \in Nat /\ steps' \in Nat
      /\ UNCHANGED <<client, length, memsinfo>>
  BY DEF read_mem, get_context, Wrap, Call, Inv, TypeOK
<1>2. CASE read_mem
  BY <1>1, <1>2, QueryInv DEF read_mem
<1>3. CASE get_context
  <2>1. PICK context \in Malloc(heap, "context") :
          /\ heap' = context.heap
          /\ IF context.ok THEN Asked("context") ELSE UNCHANGED asked
    BY <1>3 DEF get_context, GetCrossPlatformContext
  <2>2. UNCHANGED pc
    BY <1>3 DEF get_context
  <2> QED
    BY <1>1, <2>1, <2>2, BlockAddedInv DEF Asked
<1>4. CASE Wrap
  <2>1. PICK object \in Malloc(heap, "object") :
          /\ heap' = object.heap
          /\ IF object.ok THEN Asked("object") ELSE UNCHANGED asked
    BY <1>4 DEF Wrap
  <2>2. UNCHANGED pc
    BY <1>4 DEF Wrap
  <2> QED
    BY <1>1, <2>1, <2>2, BlockAddedInv DEF Asked
<1> QED
  BY <1>2, <1>3, <1>4

LEMMA DumpInv == ASSUME Inv, Dump \/ QueryApi PROVE Inv'
<1>1. /\ pc # "crash" /\ pending' \in Nat /\ steps' \in Nat /\ Query
      /\ UNCHANGED <<client, length, memsinfo>>
  BY DEF Dump, QueryApi, Inv, TypeOK
<1> QED
  BY <1>1, QueryInv

LEMMA ReplayInv ==
  ASSUME Inv, Replay \/ Replayed \/ ReplayEnds \/ Exit
  PROVE  Inv'
<1>1. /\ pc # "crash" /\ pending' \in Nat /\ steps' \in Nat
      /\ pc' \in {"callback", "context", "done"}
      /\ UNCHANGED <<client, length, heap, memsinfo, asked>>
  BY ClientsAssumption DEF Replay, Replayed, ReplayEnds, Exit, Inv, TypeOK
<1> QED
  BY <1>1, HeapKeptInv

LEMMA StutterInv == ASSUME Inv, UNCHANGED vars PROVE Inv'
  BY DEF vars, Inv, TypeOK, LeaksExact, Kept, Blocks

THEOREM ClientsInv == Spec => []Inv
<1>1. ASSUME Inv, [Next]_vars PROVE Inv'
  <2>1. CASE Context \/ QueryApi \/ Dump \/ EndLine
    BY <1>1, <2>1, ContextInv, DumpInv, EndLineInv
  <2>2. CASE Replay \/ memCallback \/ Replayed \/ ReplayEnds \/ Exit
    BY <1>1, <2>2, ReplayInv, memCallbackInv
  <2>3. CASE read_mem \/ get_context \/ Wrap
    BY <1>1, <2>3, PythonInv
  <2>4. CASE Stopped \/ UNCHANGED vars
    BY <1>1, <2>4, StutterInv DEF Stopped
  <2> QED
    BY <1>1, <2>1, <2>2, <2>3, <2>4 DEF Next
<1> QED
  BY InitInv, <1>1, PTL DEF Spec

-----------------------------------------------------------------------------
\* No client gives a block back that it does not have, and the heap never holds
\* more than it can.
THEOREM TypeCorrect == Spec => []TypeOK
<1>1. Inv => TypeOK
  BY DEF Inv
<1> QED
  BY <1>1, ClientsInv, PTL

\* The blocks that nobody frees are, for every client, every run of it and every way
\* in which allocations fail: the data of the queries for memory that the trace does
\* not have (with their buffers in example_tenet), both blocks of the reads whose
\* string threw, the contexts, what was made for Python and, when a query ends the
\* program, what it got before.
THEOREM LeaksAreExact == Spec => []LeaksExact
<1>1. Inv => LeaksExact
  BY DEF Inv
<1> QED
  BY <1>1, ClientsInv, PTL
=============================================================================
