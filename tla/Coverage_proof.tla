---------------------------- MODULE Coverage_proof ----------------------------
(***************************************************************************)
(* Proofs about Coverage, for any recordings, modules, options and number  *)
(* of workers: no hit is lost, the files are exact, the mutex is always    *)
(* given back, and every step brings the end closer.                       *)
(*                                                                         *)
(* The inductive invariant: the mutex serialises the two halves of insert, *)
(* so what a worker found is still the whole set when it links; then every *)
(* hit is still to come, in a callback before the link, or in the set, and *)
(* nothing else is in the set.                                             *)
(***************************************************************************)
EXTENDS Coverage, FiniteSetTheorems, TLAPS

AllHits == Hits(begin, end, watch)
HitAddresses == {session.code[h[1]] : h \in AllHits}

InRange ==
  /\ session \in Sessions
  /\ begin \in 1 .. Len(session.code)
  /\ end \in 1 .. Len(session.code)

Types ==
  /\ watch \subseteq 1 .. Len(session.modules)
  /\ pending \subseteq AllHits
  /\ reached_addrs \subseteq Nat
  /\ set_access \in Workers \cup {NoWorker}
  /\ at \in [Workers -> {"idle", "lock", "insert", "link", "unlock", "size"}]
  /\ addr \in [Workers -> Nat]
  /\ seen \in [Workers -> SUBSET Nat]
  /\ files \in [Name -> SUBSET Nat]
  /\ i \in 1 .. Len(session.modules) + 1
  /\ pc \in {"args", "replay", "dump", "done", "exit"}

\* Only the holder of the mutex is in insert().
Mutex == \A w \in Workers : at[w] \in {"insert", "link", "unlock"} => set_access = w

\* What the holder found is still the set.
SeenFresh == \A w \in Workers : at[w] = "link" => seen[w] = reached_addrs

\* Before the replay nothing has been hit.
Fresh == pc \in {"args", "exit"} => reached_addrs = {} /\ \A w \in Workers : at[w] = "idle"

\* Only what was hit is in the set, or on its way to it.
NothingInvented ==
  /\ reached_addrs \subseteq HitAddresses
  /\ \A w \in Workers : at[w] \in {"lock", "insert", "link"} => addr[w] \in HitAddresses

Watched ==
  pc \in {"replay", "dump", "done"} => watch = {k \in 1 .. Len(session.modules) : Asked(k)}

Replayed ==
  pc \in {"dump", "done"} => pending = {} /\ \A w \in Workers : at[w] = "idle"

Dumped ==
  /\ pc \in {"args", "replay", "exit"} => i = 1
  /\ pc = "done" => i = Len(session.modules) + 1
  /\ \A k \in 1 .. i - 1 :
       Asked(k) /\ LastOfItsName(k) =>
         files[session.modules[k].name] = Offsets(session.modules[k])

Inv ==
  /\ InRange
  /\ Types
  /\ Mutex
  /\ SeenFresh
  /\ Fresh
  /\ NothingLost
  /\ NothingInvented
  /\ Watched
  /\ Replayed
  /\ Dumped

-----------------------------------------------------------------------------
(* Typing facts. *)

LEMMA SessionType ==
  ASSUME InRange
  PROVE  /\ session \in Session
         /\ Len(session.code) \in Nat
         /\ Len(session.modules) \in Nat
         /\ begin \in Nat /\ end \in Nat
         /\ \A n \in 1 .. Len(session.code) : session.code[n] \in Nat
         /\ \A k \in 1 .. Len(session.modules) :
              /\ session.modules[k] \in Module
              /\ session.modules[k].name \in Name
              /\ session.modules[k].base_addr \in Nat
              /\ session.modules[k].imageSize \in Nat
<1>1. session \in Session
  BY SessionsAssumption DEF InRange
<1>2. session.code \in Seq(Nat) /\ session.modules \in Seq(Module)
  BY <1>1 DEF Session
<1>3. \A k \in 1 .. Len(session.modules) : session.modules[k] \in Module
  BY <1>2
<1>4. \A n \in 1 .. Len(session.code) : session.code[n] \in Nat
  BY <1>2
<1>5. Len(session.code) \in Nat /\ Len(session.modules) \in Nat
  BY <1>2
<1> QED
  BY <1>1, <1>3, <1>4, <1>5 DEF Module, InRange

LEMMA HitType ==
  ASSUME InRange, NEW h \in AllHits
  PROVE  /\ h[1] \in 1 .. Len(session.code)
         /\ h[1] \in begin .. end - 1
         /\ h[2] \in watch
         /\ session.code[h[1]] \in Nat
         /\ session.code[h[1]] \in HitAddresses
<1>1. h[1] \in begin .. end - 1 /\ h[2] \in watch
  BY DEF AllHits, Hits
<1>2. h[1] \in 1 .. Len(session.code)
  BY <1>1, SessionType DEF InRange
<1> QED
  BY <1>1, <1>2, SessionType DEF HitAddresses

-----------------------------------------------------------------------------
THEOREM InitInv == Init => Inv
<1> SUFFICES ASSUME Init PROVE Inv
  OBVIOUS
<1> USE DEF Init
<1>1. session \in Session /\ session.code \in Seq(Nat) \ {<<>>} /\ session.modules \in Seq(Module)
  BY SessionsAssumption DEF Session
<1>2. Len(session.code) \in Nat \ {0} /\ Len(session.modules) \in Nat
  BY <1>1
<1>3. InRange
  BY <1>2 DEF InRange
<1>4. AllHits = {}
  BY DEF AllHits, Hits
<1>5. Types
  BY <1>2, <1>4 DEF Types
<1>6. Mutex /\ SeenFresh /\ Fresh /\ Watched /\ Replayed
  BY DEF Mutex, SeenFresh, Fresh, Watched, Replayed
<1>7. NothingLost /\ NothingInvented
  BY <1>4 DEF NothingLost, NothingInvented, AllHits
<1>8. Dumped
  BY DEF Dumped
<1> QED
  BY <1>3, <1>5, <1>6, <1>7, <1>8 DEF Inv

\* The parts that speak of what the steps of the workers leave alone.
LEMMA MainUnchanged ==
  ASSUME Inv, UNCHANGED <<options, files, i, pc, reached_addrs>>
  PROVE  /\ InRange'
         /\ AllHits' = AllHits
         /\ HitAddresses' = HitAddresses
         /\ Watched'
         /\ Dumped'
<1>1. InRange' /\ AllHits' = AllHits
  BY DEF Inv, InRange, options, AllHits, Hits
<1>2. HitAddresses' = HitAddresses
  BY <1>1 DEF HitAddresses, options
<1>3. Watched'
  BY DEF Inv, Watched, options, Asked
<1>4. Dumped'
  BY DEF Inv, Dumped, options, Asked, LastOfItsName, Offsets, ModuleRange
<1> QED
  BY <1>1, <1>2, <1>3, <1>4

LEMMA ListInv == ASSUME Inv, List PROVE Inv'
<1> USE DEF List
<1>1. InRange' /\ AllHits' = AllHits /\ HitAddresses' = HitAddresses
  BY DEF Inv, InRange, options, AllHits, Hits, HitAddresses
<1>2. Types' /\ Mutex' /\ SeenFresh' /\ Fresh'
  BY <1>1 DEF Inv, Types, Mutex, SeenFresh, Fresh, options, workers, dump
<1>3. NothingLost' /\ NothingInvented'
  BY <1>1 DEF Inv, NothingLost, NothingInvented, options, workers, AllHits
<1>4. Watched' /\ Replayed' /\ Dumped'
  BY DEF Inv, Watched, Replayed, Dumped, options, workers, dump
<1> QED
  BY <1>1, <1>2, <1>3, <1>4 DEF Inv

LEMMA StartInv == ASSUME Inv, Start PROVE Inv'
<1> USE DEF Start
<1>1. session' = session /\ session \in Sessions
  BY DEF Inv, InRange
<1>2. session.begin_arg \in 0 .. Len(session.code) /\ session.end_arg \in 0 .. Len(session.code)
  BY <1>1, SessionsAssumption
<1>3. Len(session.code) \in Nat \ {0}
  <2>1. session.code \in Seq(Nat) \ {<<>>}
    BY <1>1, SessionsAssumption DEF Session
  <2> QED
    BY <2>1
<1>4. InRange'
  BY <1>1, <1>2, <1>3 DEF InRange
<1>5. AllHits' = pending'
  BY <1>1 DEF AllHits, Hits
<1>6. Types'
  BY <1>1, <1>5 DEF Inv, Types, workers, dump
<1>7. Mutex' /\ SeenFresh' /\ Fresh'
  BY DEF Inv, Mutex, SeenFresh, Fresh, workers
<1>8. NothingLost'
  BY <1>5 DEF NothingLost, AllHits
<1>9. NothingInvented'
  BY DEF Inv, Fresh, NothingInvented, workers
<1>10. Watched'
  BY <1>1 DEF Watched, Asked
<1>11. Replayed'
  BY DEF Replayed
<1>12. Dumped'
  BY <1>1 DEF Inv, Dumped, dump
<1> QED
  BY <1>4, <1>6, <1>7, <1>8, <1>9, <1>10, <1>11, <1>12 DEF Inv

LEMMA HitInv == ASSUME Inv, NEW w \in Workers, Hit(w) PROVE Inv'
<1> USE DEF Hit
<1>1. PICK h \in pending : /\ pending' = pending \ {h}
                           /\ addr' = [addr EXCEPT ![w] = session.code[h[1]]]
  OBVIOUS
<1>2. UNCHANGED <<options, files, i, pc, reached_addrs>>
  BY DEF dump
<1>3. InRange' /\ AllHits' = AllHits /\ HitAddresses' = HitAddresses /\ Watched' /\ Dumped'
  BY <1>2, MainUnchanged
<1>4. h \in AllHits /\ session.code[h[1]] \in Nat /\ session.code[h[1]] \in HitAddresses
  BY <1>1, HitType DEF Inv, Types
<1>5. Types'
  BY <1>1, <1>3, <1>4 DEF Inv, Types, options, dump
<1>6. Mutex' /\ SeenFresh' /\ Fresh' /\ Replayed'
  BY DEF Inv, Types, Mutex, SeenFresh, Fresh, Replayed
<1>7. NothingInvented'
  BY <1>1, <1>3, <1>4 DEF Inv, Types, NothingInvented
<1>8. NothingLost'
  <2> SUFFICES ASSUME NEW g \in AllHits \ pending'
               PROVE  \/ session.code[g[1]] \in reached_addrs
                      \/ \E v \in Workers : /\ at'[v] \in {"lock", "insert", "link"}
                                            /\ addr'[v] = session.code[g[1]]
    BY <1>2, <1>3 DEF NothingLost, AllHits, options
  <2>1. CASE g = h
    BY <2>1, <1>1 DEF Inv, Types
  <2>2. CASE g # h
    <3>1. g \in AllHits \ pending
      BY <2>2, <1>1
    <3>2. CASE session.code[g[1]] \in reached_addrs
      BY <3>2
    <3>3. CASE \E v \in Workers : at[v] \in {"lock", "insert", "link"} /\ addr[v] = session.code[g[1]]
      <4>1. PICK v \in Workers : at[v] \in {"lock", "insert", "link"} /\ addr[v] = session.code[g[1]]
        BY <3>3
      <4>2. v # w
        BY <4>1
      <4> QED
        BY <4>1, <4>2, <1>1 DEF Inv, Types
    <3> QED
      BY <3>1, <3>2, <3>3 DEF Inv, NothingLost, AllHits
  <2> QED
    BY <2>1, <2>2
<1> QED
  BY <1>3, <1>5, <1>6, <1>7, <1>8 DEF Inv

LEMMA LockInv == ASSUME Inv, NEW w \in Workers, Lock(w) PROVE Inv'
<1> USE DEF Lock
<1>1. UNCHANGED <<options, files, i, pc, reached_addrs>>
  BY DEF dump
<1>2. InRange' /\ AllHits' = AllHits /\ HitAddresses' = HitAddresses /\ Watched' /\ Dumped'
  BY <1>1, MainUnchanged
<1>3. Types'
  BY <1>2 DEF Inv, Types, options, dump
<1>4. Mutex'
  BY WorkersAssumption DEF Inv, Types, Mutex
<1>5. SeenFresh' /\ Fresh' /\ Replayed'
  BY DEF Inv, Types, SeenFresh, Fresh, Replayed
<1>6. NothingInvented'
  BY <1>2 DEF Inv, Types, NothingInvented
<1>7. NothingLost'
  BY <1>2 DEF Inv, Types, NothingLost, AllHits, options
<1> QED
  BY <1>2, <1>3, <1>4, <1>5, <1>6, <1>7 DEF Inv

LEMMA FindInv == ASSUME Inv, NEW w \in Workers, Find(w) PROVE Inv'
<1> USE DEF Find
<1>1. UNCHANGED <<options, files, i, pc, reached_addrs>>
  BY DEF dump
<1>2. InRange' /\ AllHits' = AllHits /\ HitAddresses' = HitAddresses /\ Watched' /\ Dumped'
  BY <1>1, MainUnchanged
<1>3. Types'
  BY <1>2 DEF Inv, Types, options, dump
<1>4. Mutex' /\ SeenFresh' /\ Fresh' /\ Replayed'
  BY DEF Inv, Types, Mutex, SeenFresh, Fresh, Replayed
<1>5. NothingInvented'
  BY <1>2 DEF Inv, Types, NothingInvented
<1>6. NothingLost'
  BY <1>2 DEF Inv, Types, NothingLost, AllHits, options
<1> QED
  BY <1>2, <1>3, <1>4, <1>5, <1>6 DEF Inv

\* The set grows by the worker's address: what it found is still all of it.
LEMMA LinkInv == ASSUME Inv, NEW w \in Workers, Link(w) PROVE Inv'
<1> USE DEF Link
<1>1. reached_addrs' = reached_addrs \cup {addr[w]}
  BY DEF Inv, SeenFresh
<1>2. InRange' /\ AllHits' = AllHits /\ HitAddresses' = HitAddresses
  BY DEF Inv, InRange, options, AllHits, Hits, HitAddresses
<1>3. pc = "replay"
  BY DEF Inv, Types, Fresh, Replayed
<1>4. Types'
  BY <1>1, <1>2 DEF Inv, Types, options, dump
<1>5. Mutex' /\ Fresh' /\ Replayed' /\ Watched'
  BY <1>3 DEF Inv, Types, Mutex, Fresh, Replayed, Watched, options, Asked
<1>6. SeenFresh'
  <2> SUFFICES ASSUME NEW v \in Workers, at'[v] = "link" PROVE FALSE
    BY DEF SeenFresh
  <2>1. v # w /\ at[v] = "link"
    BY DEF Inv, Types
  <2> QED
    BY <2>1 DEF Inv, Mutex
<1>7. NothingInvented'
  BY <1>1, <1>2 DEF Inv, Types, NothingInvented
<1>8. NothingLost'
  <2> SUFFICES ASSUME NEW g \in AllHits \ pending
               PROVE  \/ session.code[g[1]] \in reached_addrs'
                      \/ \E v \in Workers : /\ at'[v] \in {"lock", "insert", "link"}
                                            /\ addr[v] = session.code[g[1]]
    BY <1>2 DEF NothingLost, AllHits, options
  <2>1. CASE session.code[g[1]] \in reached_addrs
    BY <2>1, <1>1
  <2>2. CASE \E v \in Workers : at[v] \in {"lock", "insert", "link"} /\ addr[v] = session.code[g[1]]
    <3>1. PICK v \in Workers : at[v] \in {"lock", "insert", "link"} /\ addr[v] = session.code[g[1]]
      BY <2>2
    <3>2. CASE v = w
      BY <3>1, <3>2, <1>1
    <3>3. CASE v # w
      BY <3>1, <3>3 DEF Inv, Types
    <3> QED
      BY <3>2, <3>3
  <2> QED
    BY <2>1, <2>2 DEF Inv, NothingLost, AllHits
<1>9. Dumped'
  BY <1>3 DEF Inv, Dumped, dump, options
<1> QED
  BY <1>2, <1>4, <1>5, <1>6, <1>7, <1>8, <1>9 DEF Inv

LEMMA UnlockInv == ASSUME Inv, NEW w \in Workers, Unlock(w) PROVE Inv'
<1> USE DEF Unlock
<1>1. UNCHANGED <<options, files, i, pc, reached_addrs>>
  BY DEF dump
<1>2. InRange' /\ AllHits' = AllHits /\ HitAddresses' = HitAddresses /\ Watched' /\ Dumped'
  BY <1>1, MainUnchanged
<1>3. Types'
  BY <1>2 DEF Inv, Types, options, dump
<1>4. Mutex'
  <2> SUFFICES ASSUME NEW v \in Workers, at'[v] \in {"insert", "link", "unlock"} PROVE FALSE
    BY DEF Mutex
  <2>1. v # w /\ at[v] \in {"insert", "link", "unlock"}
    BY DEF Inv, Types
  <2> QED
    BY <2>1 DEF Inv, Mutex
<1>5. SeenFresh' /\ Fresh' /\ Replayed'
  BY DEF Inv, Types, SeenFresh, Fresh, Replayed
<1>6. NothingInvented'
  BY <1>2 DEF Inv, Types, NothingInvented
<1>7. NothingLost'
  BY <1>2 DEF Inv, Types, NothingLost, AllHits, options
<1> QED
  BY <1>2, <1>3, <1>4, <1>5, <1>6, <1>7 DEF Inv

LEMMA SizeInv == ASSUME Inv, NEW w \in Workers, Size(w) PROVE Inv'
<1> USE DEF Size
<1>1. UNCHANGED <<options, files, i, pc, reached_addrs>>
  BY DEF dump
<1>2. InRange' /\ AllHits' = AllHits /\ HitAddresses' = HitAddresses /\ Watched' /\ Dumped'
  BY <1>1, MainUnchanged
<1>3. Types'
  BY <1>2 DEF Inv, Types, options, dump
<1>4. Mutex' /\ SeenFresh' /\ Fresh' /\ Replayed'
  BY DEF Inv, Types, Mutex, SeenFresh, Fresh, Replayed
<1>5. NothingInvented'
  BY <1>2 DEF Inv, Types, NothingInvented
<1>6. NothingLost'
  BY <1>2 DEF Inv, Types, NothingLost, AllHits, options
<1> QED
  BY <1>2, <1>3, <1>4, <1>5, <1>6 DEF Inv

LEMMA ReturnInv == ASSUME Inv, Return PROVE Inv'
<1> USE DEF Return
<1>1. InRange' /\ AllHits' = AllHits /\ HitAddresses' = HitAddresses
  BY DEF Inv, InRange, options, AllHits, Hits, HitAddresses
<1>2. Types' /\ Mutex' /\ SeenFresh' /\ Fresh'
  BY <1>1 DEF Inv, Types, Mutex, SeenFresh, Fresh, options, workers, dump
<1>3. NothingLost' /\ NothingInvented'
  BY <1>1 DEF Inv, NothingLost, NothingInvented, options, workers, AllHits
<1>4. Watched' /\ Replayed' /\ Dumped'
  BY DEF Inv, Watched, Replayed, Dumped, options, workers, dump, Asked
<1> QED
  BY <1>1, <1>2, <1>3, <1>4 DEF Inv

LEMMA DumpedLater ==
  ASSUME session' = session, reached_addrs' = reached_addrs, pc' = "dump",
         i \in Nat, i' = i + 1,
         \A k \in 1 .. i :
           Asked(k) /\ LastOfItsName(k) =>
             files'[session.modules[k].name] = Offsets(session.modules[k])
  PROVE  Dumped'
<1>1. i' - 1 = i
  OBVIOUS
<1>2. ASSUME NEW k \in 1 .. i' - 1, Asked(k)', LastOfItsName(k)'
      PROVE  (files[session.modules[k].name] = Offsets(session.modules[k]))'
  <2>1. Asked(k) /\ LastOfItsName(k)
    BY <1>2 DEF Asked, LastOfItsName
  <2>2. files'[session.modules[k].name] = Offsets(session.modules[k])
    BY <1>1, <1>2, <2>1
  <2>3. Offsets(session.modules[k])' = Offsets(session.modules[k])
    <3>1. ModuleRange(session.modules[k])' = ModuleRange(session.modules[k])
      BY DEF ModuleRange
    <3>2. (reached_addrs \cap ModuleRange(session.modules[k]))' = reached_addrs \cap ModuleRange(session.modules[k])
      BY <3>1
    <3> QED
      BY <3>2, Zenon DEF Offsets
  <2> QED
    BY <2>2, <2>3
<1> QED
  BY <1>2 DEF Dumped

\* Emptying the file of module i spares the files of other names.
LEMMA DumpInv == ASSUME Inv, Dump PROVE Inv'
<1> USE DEF Dump
<1>1. InRange' /\ AllHits' = AllHits /\ HitAddresses' = HitAddresses
  BY DEF Inv, InRange, options, AllHits, Hits, HitAddresses
<1>2. i \in 1 .. Len(session.modules) /\ Len(session.modules) \in Nat
  BY SessionType DEF Inv, Types
<1>3. session.modules[i].name \in Name /\ session.modules[i].base_addr \in Nat
      /\ session.modules[i].imageSize \in Nat
  BY <1>2, SessionType DEF Inv
<1>4. Offsets(session.modules[i]) \in SUBSET Nat
  BY <1>3 DEF Inv, Types, Offsets, ModuleRange
<1>5. files' \in [Name -> SUBSET Nat]
  BY <1>4 DEF Inv, Types
<1>6. Types'
  BY <1>1, <1>2, <1>5 DEF Inv, Types, options, workers
<1>7. Mutex' /\ SeenFresh' /\ Fresh' /\ Watched' /\ Replayed'
  BY DEF Inv, Mutex, SeenFresh, Fresh, Watched, Replayed, options, workers, Asked
<1>8. NothingLost' /\ NothingInvented'
  BY <1>1 DEF Inv, NothingLost, NothingInvented, options, workers, AllHits
<1>9. Dumped'
  <2> SUFFICES ASSUME NEW k \in 1 .. i, Asked(k), LastOfItsName(k)
               PROVE  files'[session.modules[k].name] = Offsets(session.modules[k])
    BY <1>2, DumpedLater DEF options
  <2>1. k \in 1 .. Len(session.modules) /\ session.modules[k].name \in Name
    BY <1>2, SessionType DEF Inv
  <2>2. CASE k = i
    BY <2>1, <2>2 DEF Inv, Types
  <2>3. CASE k # i
    <3>1. k \in 1 .. i - 1
      BY <2>3, <1>2
    <3>2. session.modules[i].name # session.modules[k].name
      BY <2>3, <1>2 DEF LastOfItsName
    <3>3. files'[session.modules[k].name] = files[session.modules[k].name]
      BY <2>1, <1>3, <3>2 DEF Inv, Types
    <3> QED
      BY <3>1, <3>3 DEF Inv, Dumped
  <2> QED
    BY <2>2, <2>3
<1> QED
  BY <1>1, <1>6, <1>7, <1>8, <1>9 DEF Inv

LEMMA FinishInv == ASSUME Inv, Finish PROVE Inv'
<1> USE DEF Finish
<1>1. InRange' /\ AllHits' = AllHits /\ HitAddresses' = HitAddresses
  BY DEF Inv, InRange, options, AllHits, Hits, HitAddresses
<1>2. Types' /\ Mutex' /\ SeenFresh' /\ Fresh'
  BY <1>1 DEF Inv, Types, Mutex, SeenFresh, Fresh, options, workers, dump
<1>3. NothingLost' /\ NothingInvented'
  BY <1>1 DEF Inv, NothingLost, NothingInvented, options, workers, AllHits
<1>4. Watched' /\ Replayed'
  BY DEF Inv, Watched, Replayed, options, workers, Asked
<1>5. i = Len(session.modules) + 1
  BY SessionType DEF Inv, Types
<1>6. Dumped'
  BY <1>5 DEF Inv, Dumped, options, workers, dump, Asked, LastOfItsName, Offsets, ModuleRange
<1> QED
  BY <1>1, <1>2, <1>3, <1>4, <1>6 DEF Inv

LEMMA StutterInv == ASSUME Inv, UNCHANGED vars PROVE Inv'
<1> USE DEF vars
<1>1. InRange' /\ AllHits' = AllHits /\ HitAddresses' = HitAddresses
  BY DEF Inv, InRange, options, AllHits, Hits, HitAddresses
<1>2. Types' /\ Mutex' /\ SeenFresh' /\ Fresh'
  BY <1>1 DEF Inv, Types, Mutex, SeenFresh, Fresh
<1>3. NothingLost' /\ NothingInvented'
  BY <1>1 DEF Inv, NothingLost, NothingInvented, AllHits
<1>4. Watched' /\ Replayed' /\ Dumped'
  BY DEF Inv, Watched, Replayed, Dumped, Asked, LastOfItsName, Offsets, ModuleRange
<1> QED
  BY <1>1, <1>2, <1>3, <1>4 DEF Inv

THEOREM StepInv == Inv /\ [Next]_vars => Inv'
<1> SUFFICES ASSUME Inv, [Next]_vars PROVE Inv'
  OBVIOUS
<1>1. CASE main
  BY <1>1, ListInv, StartInv, ReturnInv, DumpInv, FinishInv DEF main
<1>2. CASE \E w \in Workers : memCallback(w)
  BY <1>2, HitInv, LockInv, FindInv, LinkInv, UnlockInv, SizeInv DEF memCallback
<1>3. CASE Stopped \/ UNCHANGED vars
  BY <1>3, StutterInv DEF Stopped
<1> QED
  BY <1>1, <1>2, <1>3 DEF Next

THEOREM CoverageInv == Spec => []Inv
<1> QED
  BY InitInv, StepInv, PTL DEF Spec

-----------------------------------------------------------------------------
\* Any number of workers may call memCallback in any order: the address of a
\* hit is in the set once its callback is past the insertion, and stays there.
THEOREM NoAddressLost == Spec => []NothingLost
<1>1. Inv => NothingLost
  BY DEF Inv
<1> QED
  BY <1>1, CoverageInv, PTL

LEMMA SetIsHits ==
  ASSUME Inv, pc = "done"
  PROVE  reached_addrs = HitAddresses
<1>1. pending = {} /\ \A w \in Workers : at[w] = "idle"
  BY DEF Inv, Replayed
<1>2. \A h \in AllHits : session.code[h[1]] \in reached_addrs
  BY <1>1 DEF Inv, NothingLost, AllHits
<1>3. HitAddresses \subseteq reached_addrs
  BY <1>2 DEF HitAddresses
<1> QED
  BY <1>3 DEF Inv, NothingInvented

\* For any recording, module list and options, the file of an asked module has
\* the addresses executed in the module, whatever order the hits came in.
THEOREM FilesAreExact == Spec => []FilesExact
<1>1. Inv => FilesExact
  <2> SUFFICES ASSUME Inv, pc = "done", NEW k \in 1 .. Len(session.modules),
                      Asked(k), LastOfItsName(k)
               PROVE  files[session.modules[k].name] = Executed(k)
    BY DEF FilesExact
  <2> DEFINE m == session.modules[k]
  <2>1. Len(session.modules) \in Nat
    BY SessionType DEF Inv
  <2>2. files[m.name] = Offsets(m)
    <3>1. k \in 1 .. i - 1
      BY <2>1 DEF Inv, Dumped
    <3> QED
      BY <3>1 DEF Inv, Dumped
  <2>3. k \in watch
    BY DEF Inv, Watched
  <2>4. reached_addrs \cap ModuleRange(m)
          = {session.code[n] : n \in {j \in begin .. end - 1 : session.code[j] \in ModuleRange(m)}}
    <3>1. ASSUME NEW a \in reached_addrs \cap ModuleRange(m)
          PROVE  \E n \in {j \in begin .. end - 1 : session.code[j] \in ModuleRange(m)} :
                   a = session.code[n]
      <4>1. PICK h \in AllHits : a = session.code[h[1]]
        BY SetIsHits DEF HitAddresses
      <4> QED
        BY <4>1 DEF AllHits, Hits
    <3>2. ASSUME NEW n \in {j \in begin .. end - 1 : session.code[j] \in ModuleRange(m)}
          PROVE  session.code[n] \in reached_addrs \cap ModuleRange(m)
      <4>1. <<n, k>> \in AllHits
        BY <2>3 DEF AllHits, Hits
      <4>2. session.code[n] \in HitAddresses
        BY <4>1 DEF HitAddresses
      <4> QED
        BY <4>2, SetIsHits
    <3> QED
      BY <3>1, <3>2
  <2>5. Offsets(m) = Executed(k)
    BY <2>4 DEF Offsets, Executed
  <2> QED
    BY <2>2, <2>5
<1> QED
  BY <1>1, CoverageInv, PTL

-----------------------------------------------------------------------------
(* The numbers printed. *)

Counted ==
  /\ IsFiniteSet(reached_addrs)
  /\ reported \in [Workers -> Nat]
  /\ \A w \in Workers : reported[w] <= Cardinality(reached_addrs)

LEMMA InitCounted == Init => Counted
<1> SUFFICES ASSUME Init PROVE Counted
  OBVIOUS
<1>1. IsFiniteSet(reached_addrs) /\ Cardinality(reached_addrs) = 0
  BY FS_EmptySet DEF Init
<1> QED
  BY <1>1 DEF Init, Counted

LEMMA StepCounted ==
  ASSUME Inv, Counted, [Next]_vars
  PROVE  /\ Counted'
         /\ \A w \in Workers : reported'[w] >= reported[w]
<1>1. Cardinality(reached_addrs) \in Nat
  BY FS_CardinalityType DEF Counted
<1>2. CASE UNCHANGED <<reached_addrs, reported>>
  BY <1>2, <1>1 DEF Counted
<1>3. CASE \E w \in Workers : Link(w)
  <2>1. PICK w \in Workers : Link(w)
    BY <1>3
  <2>2. reached_addrs' = reached_addrs \cup {addr[w]} /\ reported' = reported
    BY <2>1 DEF Link, Inv, SeenFresh
  <2>3. IsFiniteSet(reached_addrs')
    BY <2>2, FS_AddElement DEF Counted
  <2>4. Cardinality(reached_addrs') \in Nat /\ Cardinality(reached_addrs) <= Cardinality(reached_addrs')
    BY <2>2, <2>3, FS_CardinalityType, FS_Subset
  <2> QED
    BY <2>2, <2>3, <2>4, <1>1 DEF Counted
<1>4. CASE \E w \in Workers : Size(w)
  <2>1. PICK w \in Workers : Size(w)
    BY <1>4
  <2>2. reached_addrs' = reached_addrs
    BY <2>1 DEF Size
  <2>3. \/ reported' = reported
        \/ reported' = [reported EXCEPT ![w] = Cardinality(reached_addrs)]
    BY <2>1 DEF Size, Counted
  <2> QED
    BY <2>2, <2>3, <1>1 DEF Counted
<1>5. CASE main \/ Stopped \/ UNCHANGED vars
  BY <1>5, <1>2 DEF main, List, Start, Return, Dump, Finish, Stopped, vars, workers
<1>6. CASE \E w \in Workers : Hit(w) \/ Lock(w) \/ Find(w) \/ Unlock(w)
  BY <1>6, <1>2 DEF Hit, Lock, Find, Unlock
<1> QED
  BY <1>3, <1>4, <1>5, <1>6 DEF Next, memCallback

LEMMA AlwaysCounted == Spec => [](Inv /\ Counted)
<1>1. Init => Inv /\ Counted
  BY InitInv, InitCounted
<1>2. Inv /\ Counted /\ [Next]_vars => (Inv /\ Counted)'
  BY StepInv, StepCounted
<1> QED
  BY <1>1, <1>2, PTL DEF Spec

\* Every variable keeps its type; the set is finite, so it has a size.
THEOREM TypeCorrect == Spec => []TypeOK
<1>1. Inv /\ Counted => TypeOK
  BY SessionsAssumption, SessionType DEF Inv, InRange, Types, Counted, TypeOK, AllHits
<1> QED
  BY <1>1, AlwaysCounted, PTL

\* The size is read without the mutex and may be of a later moment than the
\* insertion, but the numbers one worker prints never go back.
THEOREM ReportsNeverShrink == Spec => ReportsGrow
<1>1. Inv /\ Counted /\ (Inv /\ Counted)' /\ [Next]_vars =>
        [ \A w \in Workers : /\ reported'[w] >= reported[w]
                             /\ reported'[w] <= Cardinality(reached_addrs') ]_vars
  BY StepCounted DEF Counted
<1> QED
  BY <1>1, AlwaysCounted, PTL DEF Spec, ReportsGrow
-----------------------------------------------------------------------------
(* Every step brings the end closer, and no worker waits for a mutex that  *)
(* nobody will give back.                                                  *)

\* The mutex is held exactly by the worker that is in insert() or about to unlock.
MutexHeld == \A w \in Workers : at[w] \in {"insert", "link", "unlock"} <=> set_access = w

LEMMA InitHeld == Init => MutexHeld
  BY WorkersAssumption DEF Init, MutexHeld

LEMMA StepHeld == Inv /\ MutexHeld /\ [Next]_vars => MutexHeld'
<1> SUFFICES ASSUME Inv, MutexHeld, [Next]_vars PROVE MutexHeld'
  OBVIOUS
<1>1. at \in [Workers -> {"idle", "lock", "insert", "link", "unlock", "size"}]
  BY DEF Inv, Types
<1>2. CASE main \/ Stopped \/ UNCHANGED vars
  BY <1>2 DEF main, List, Start, Return, Dump, Finish, Stopped, vars, workers, MutexHeld
<1>3. CASE \E w \in Workers : memCallback(w)
  <2>1. PICK w \in Workers : memCallback(w)
    BY <1>3
  <2>2. \A v \in Workers : v # w => at'[v] = at[v]
    BY <1>1, <2>1 DEF memCallback, Hit, Lock, Find, Link, Unlock, Size
  <2>3. CASE Hit(w) \/ Find(w) \/ Link(w) \/ Size(w)
    <3>1. /\ set_access' = set_access
          /\ at[w] \in {"insert", "link", "unlock"} <=> at'[w] \in {"insert", "link", "unlock"}
      BY <1>1, <2>3 DEF Hit, Find, Link, Size
    <3> QED BY <2>2, <3>1 DEF MutexHeld
  <2>4. CASE Lock(w)
    <3>1. set_access = NoWorker /\ set_access' = w /\ at'[w] = "insert"
      BY <1>1, <2>4 DEF Lock
    <3> QED BY <2>2, <3>1, WorkersAssumption DEF MutexHeld
  <2>5. CASE Unlock(w)
    <3>1. at[w] = "unlock" /\ set_access' = NoWorker /\ at'[w] = "size"
      BY <1>1, <2>5 DEF Unlock
    <3> QED BY <2>2, <3>1, WorkersAssumption DEF MutexHeld
  <2> QED BY <2>1, <2>3, <2>4, <2>5 DEF memCallback
<1> QED BY <1>2, <1>3 DEF Next

\* A worker that waits for the mutex waits for one that is not waiting itself:
\* the one whose name is in set_access has its insertion or the unlock to do.
THEOREM MutexComesBack == Spec => []MutexHeld
<1> QED
  BY InitHeld, StepHeld, CoverageInv, PTL DEF Spec

\* Where main() is; it never goes back to an earlier phase.
Phase ==
  IF pc = "args" THEN 3 ELSE IF pc = "replay" THEN 2 ELSE IF pc = "dump" THEN 1 ELSE 0

\* The workers at one of the places of S, and what they have to do until they
\* are idle.
Busy(S) == {w \in Workers : at[w] \in S}

StepsLeft ==
  Cardinality(Busy({"lock"}))
  + Cardinality(Busy({"lock", "insert"}))
  + Cardinality(Busy({"lock", "insert", "link"}))
  + Cardinality(Busy({"lock", "insert", "link", "unlock"}))
  + Cardinality(Busy({"lock", "insert", "link", "unlock", "size"}))

ModulesLeft == Len(session.modules) + 1 - i

Measured ==
  /\ Phase \in Nat
  /\ Cardinality(pending) \in Nat
  /\ StepsLeft \in Nat
  /\ ModulesLeft \in Nat

\* The lexicographic order of (Phase, pending, StepsLeft, ModulesLeft).
Closer ==
  \/ Phase' < Phase
  \/ Phase' = Phase /\ Cardinality(pending') < Cardinality(pending)
  \/ UNCHANGED <<Phase, pending>> /\ StepsLeft' < StepsLeft
  \/ UNCHANGED <<Phase, pending, at>> /\ ModulesLeft' < ModulesLeft

LEMMA FinitePending == ASSUME Inv PROVE IsFiniteSet(pending) /\ Cardinality(pending) \in Nat
<1>1. begin \in Nat /\ end \in Nat /\ Len(session.modules) \in Nat
  BY SessionType DEF Inv
<1>2. IsFiniteSet(begin .. end - 1) /\ IsFiniteSet(1 .. Len(session.modules))
  BY <1>1, FS_Interval
<1>3. IsFiniteSet(watch)
  BY <1>2, FS_Subset DEF Inv, Types
<1>4. IsFiniteSet((begin .. end - 1) \X watch)
  BY <1>2, <1>3, FS_Product
<1>5. pending \subseteq (begin .. end - 1) \X watch
  BY DEF Inv, Types, AllHits, Hits
<1>6. IsFiniteSet(pending)
  BY <1>4, <1>5, FS_Subset
<1> QED BY <1>6, FS_CardinalityType

LEMMA BusyFinite ==
  ASSUME IsFiniteSet(Workers), NEW S
  PROVE  IsFiniteSet(Busy(S)) /\ Cardinality(Busy(S)) \in Nat
<1>1. Busy(S) \in SUBSET Workers
  BY DEF Busy
<1>2. IsFiniteSet(Busy(S))
  BY <1>1, FS_Subset
<1> QED BY <1>2, FS_CardinalityType

LEMMA MeasureType == ASSUME IsFiniteSet(Workers) PROVE Inv => Measured
<1> SUFFICES ASSUME Inv PROVE Measured
  OBVIOUS
<1>1. StepsLeft \in Nat
  BY BusyFinite DEF StepsLeft
<1>2. ModulesLeft \in Nat
  BY SessionType DEF ModulesLeft, Inv, Types
<1> QED BY <1>1, <1>2, FinitePending DEF Measured, Phase

\* A worker that goes on to a place outside S leaves Busy(S), and one that stays
\* in S does not add to it.
LEMMA BusyStep ==
  ASSUME IsFiniteSet(Workers), Inv, NEW w \in Workers, NEW p,
         at' = [at EXCEPT ![w] = p], NEW S, p \in S => at[w] \in S
  PROVE  /\ Cardinality(Busy(S)') <= Cardinality(Busy(S))
         /\ at[w] \in S /\ p \notin S => Cardinality(Busy(S)') < Cardinality(Busy(S))
<1>1. at'[w] = p /\ \A v \in Workers : v # w => at'[v] = at[v]
  BY DEF Inv, Types
<1>2. Busy(S)' \in SUBSET Busy(S)
  BY <1>1 DEF Busy
<1>3. at[w] \in S /\ p \notin S => Busy(S)' # Busy(S)
  BY <1>1 DEF Busy
<1>4. IsFiniteSet(Busy(S)) /\ Cardinality(Busy(S)) \in Nat
  BY BusyFinite
<1>5. /\ IsFiniteSet(Busy(S)')
      /\ Cardinality(Busy(S)') <= Cardinality(Busy(S))
      /\ Cardinality(Busy(S)) = Cardinality(Busy(S)') => Busy(S) = Busy(S)'
  BY <1>2, <1>4, FS_Subset
<1>6. Cardinality(Busy(S)') \in Nat
  BY <1>5, FS_CardinalityType
<1> QED BY <1>3, <1>4, <1>5, <1>6
LEMMA WorkerCloser ==
  ASSUME IsFiniteSet(Workers), Inv, NEW w \in Workers,
         Lock(w) \/ Find(w) \/ Link(w) \/ Unlock(w) \/ Size(w)
  PROVE  Closer
<1> DEFINE S1 == {"lock"}
           S2 == {"lock", "insert"}
           S3 == {"lock", "insert", "link"}
           S4 == {"lock", "insert", "link", "unlock"}
           S5 == {"lock", "insert", "link", "unlock", "size"}
<1>1. PICK p : /\ at' = [at EXCEPT ![w] = p]
               /\ \/ at[w] = "lock" /\ p = "insert"
                  \/ at[w] = "insert" /\ p = "link"
                  \/ at[w] = "link" /\ p = "unlock"
                  \/ at[w] = "unlock" /\ p = "size"
                  \/ at[w] = "size" /\ p = "idle"
  BY DEF Lock, Find, Link, Unlock, Size
<1>2. \A S \in {S1, S2, S3, S4, S5} :
        /\ Cardinality(Busy(S)) \in Nat
        /\ p \in S => at[w] \in S
  BY <1>1, BusyFinite
<1>3. \A S \in {S1, S2, S3, S4, S5} :
        /\ Cardinality(Busy(S)') <= Cardinality(Busy(S))
        /\ at[w] \in S /\ p \notin S => Cardinality(Busy(S)') < Cardinality(Busy(S))
  BY <1>1, <1>2, BusyStep
<1>4. \E S \in {S1, S2, S3, S4, S5} : at[w] \in S /\ p \notin S
  BY <1>1
<1>5. StepsLeft = Cardinality(Busy(S1)) + Cardinality(Busy(S2)) + Cardinality(Busy(S3))
                  + Cardinality(Busy(S4)) + Cardinality(Busy(S5))
  BY DEF StepsLeft
<1>6. StepsLeft' = Cardinality(Busy(S1)') + Cardinality(Busy(S2)') + Cardinality(Busy(S3)')
                   + Cardinality(Busy(S4)') + Cardinality(Busy(S5)')
  BY DEF StepsLeft
<1>7. \A S \in {S1, S2, S3, S4, S5} : Cardinality(Busy(S)') \in Nat
  <2>1. \A S : Busy(S)' \in SUBSET Workers
    BY DEF Busy
  <2>2. \A S : IsFiniteSet(Busy(S)')
    BY <2>1, FS_Subset
  <2> QED BY <2>2, FS_CardinalityType
<1> HIDE DEF S1, S2, S3, S4, S5
<1>8. StepsLeft' < StepsLeft
  BY <1>2, <1>3, <1>4, <1>5, <1>6, <1>7
<1>9. UNCHANGED <<Phase, pending>>
  BY DEF Lock, Find, Link, Unlock, Size, Phase
<1> QED BY <1>8, <1>9 DEF Closer

LEMMA HitCloser == ASSUME Inv, NEW w \in Workers, Hit(w) PROVE Closer
<1>1. PICK h \in pending : pending' = pending \ {h}
  BY DEF Hit
<1>2. Cardinality(pending') < Cardinality(pending)
  BY <1>1, FinitePending, FS_RemoveElement
<1>3. Phase' = Phase
  BY DEF Hit, Phase
<1> QED BY <1>2, <1>3 DEF Closer

LEMMA MainCloser == ASSUME Inv, main PROVE Closer
<1>1. CASE List \/ Start \/ Return \/ Finish
  <2>1. Phase' < Phase
    BY <1>1 DEF List, Start, Return, Finish, Phase
  <2> QED BY <2>1 DEF Closer
<1>2. CASE Dump
  <2>1. UNCHANGED <<Phase, pending, at>>
    BY <1>2 DEF Dump, Phase, workers
  <2>2. session' = session /\ i' = i + 1
    BY <1>2 DEF Dump, options
  <2>3. PICK n \in Nat : Len(session.modules) = n
    BY SessionType DEF Inv
  <2>4. i \in Nat
    BY <2>3 DEF Inv, Types
  <2>5. ModulesLeft' < ModulesLeft
    BY <2>2, <2>3, <2>4 DEF ModulesLeft
  <2> QED BY <2>1, <2>5 DEF Closer
<1> QED BY <1>1, <1>2 DEF main

\* However the workers are scheduled, each step of theirs or of main() is a step
\* down an order of natural numbers that no run can descend for ever: a hit is
\* handled once, and a callback never goes back.
THEOREM RunsOut ==
  ASSUME IsFiniteSet(Workers)
  PROVE  Spec => []Measured /\ [][Closer]_vars
<1>1. ASSUME Inv, [Next]_vars PROVE [Closer]_vars
  <2>1. CASE main
    BY <1>1, <2>1, MainCloser
  <2>2. ASSUME NEW w \in Workers, memCallback(w) PROVE Closer
    BY <1>1, <2>2, HitCloser, WorkerCloser DEF memCallback
  <2>3. CASE Stopped \/ UNCHANGED vars
    BY <2>3 DEF Stopped
  <2> QED
    BY <1>1, <2>1, <2>2, <2>3 DEF Next
<1> QED
  BY MeasureType, <1>1, CoverageInv, PTL DEF Spec
=============================================================================
