------------------------------- MODULE Coverage -------------------------------
(***************************************************************************)
(* src/example_cov/main.cpp: the addresses a part of a recording executes  *)
(* in the modules of the option -m, one file per module.  Every module is  *)
(* put under an EXEC memory watchpoint; the engine replays parts of the    *)
(* recording in parallel and calls memCallback from its workers, in no     *)
(* order of positions (src/README.md:301-310 shows the positions).         *)
(*                                                                         *)
(* A session is a recording (the addresses it executes), the modules as    *)
(* GetModuleList returns them, each with the name pathToName gives its     *)
(* path, and the options: -b and -e (0 when absent), -m (list says that it *)
(* is absent).                                                             *)
(***************************************************************************)
EXTENDS Integers, Sequences, FiniteSets

CONSTANTS
  Sessions,
  Workers,   \* threads of the replay engine
  NoWorker,
  Name,      \* names of modules
  Batch      \* a progress line is printed whenever so many addresses are there

Module == [name : Name, base_addr : Nat, imageSize : Nat]

Session ==
  [ code : Seq(Nat) \ {<<>>}, modules : Seq(Module), asked : SUBSET Name,
    list : BOOLEAN, begin_arg : Nat, end_arg : Nat ]

ASSUME SessionsAssumption ==
  /\ Sessions \subseteq Session
  /\ \A s \in Sessions : s.begin_arg \in 0 .. Len(s.code) /\ s.end_arg \in 0 .. Len(s.code)

ASSUME WorkersAssumption == NoWorker \notin Workers

ASSUME BatchAssumption == Batch \in Nat \ {0}

VARIABLES
  session,
  begin, end,
  watch,          \* indices of the modules under a watchpoint
  pending,        \* watchpoint hits that are to come
  reached_addrs,
  set_access,     \* the worker that holds the mutex
  at,             \* where each worker is in memCallback
  addr,           \* mem->addr of each worker's call
  seen,           \* reached_addrs as insert() found it
  reported,       \* the last number each worker printed
  files,          \* the offsets in the file of each name
  i,              \* the module to dump next
  pc              \* where main() is

vars == <<session, begin, end, watch, pending, reached_addrs, set_access, at,
          addr, seen, reported, files, i, pc>>

options == <<session, begin, end, watch>>
workers == <<at, addr, seen, reported>>
dump == <<files, i>>

ModuleRange(m) == m.base_addr .. m.base_addr + m.imageSize - 1

Init ==
  /\ session \in Sessions
  /\ begin = 1
  /\ end = 1
  /\ watch = {}
  /\ pending = {}
  /\ reached_addrs = {}
  /\ set_access = NoWorker
  /\ at = [w \in Workers |-> "idle"]
  /\ addr = [w \in Workers |-> 0]
  /\ seen = [w \in Workers |-> {}]
  /\ reported = [w \in Workers |-> 0]
  /\ files = [n \in Name |-> {}]
  /\ i = 1
  /\ pc = "args"

-----------------------------------------------------------------------------
(* main() up to the replay. *)

\* Without -m the modules are listed.
List ==
  /\ pc = "args"
  /\ session.list
  /\ pc' = "exit"
  /\ UNCHANGED <<options, pending, reached_addrs, set_access, workers, dump>>

Asked(k) == session.modules[k].name \in session.asked

\* The hits of a replay from position b to position e when the modules of ks
\* are watched: one for each module an executed address is in.
Hits(b, e, ks) ==
  {h \in (b .. e - 1) \X ks : session.code[h[1]] \in ModuleRange(session.modules[h[2]])}

\* Set the positions and the watchpoints, and start the replay.
Start ==
  /\ pc = "args"
  /\ ~ session.list
  /\ begin' = (IF session.begin_arg # 0 THEN session.begin_arg ELSE 1)
  /\ end' = (IF session.end_arg # 0 THEN session.end_arg ELSE Len(session.code))
  /\ watch' = {k \in 1 .. Len(session.modules) : Asked(k)}
  /\ pending' = Hits(begin', end', watch')
  /\ pc' = "replay"
  /\ UNCHANGED <<session, reached_addrs, set_access, workers, dump>>

-----------------------------------------------------------------------------
(* A worker. *)

\* The engine replays up to a hit and calls memCallback.
Hit(w) ==
  /\ pc = "replay"
  /\ at[w] = "idle"
  /\ \E h \in pending :
       /\ pending' = pending \ {h}
       /\ addr' = [addr EXCEPT ![w] = session.code[h[1]]]
  /\ at' = [at EXCEPT ![w] = "lock"]
  /\ UNCHANGED <<options, reached_addrs, set_access, seen, reported, dump, pc>>

\* Mutation: there is no mutex.
Lock_Free(w) ==
  /\ at[w] = "lock"
  /\ set_access' = w
  /\ at' = [at EXCEPT ![w] = "insert"]
  /\ UNCHANGED <<options, pending, reached_addrs, addr, seen, reported, dump, pc>>

Lock(w) ==
  /\ at[w] = "lock"
  /\ set_access = NoWorker
  /\ set_access' = w
  /\ at' = [at EXCEPT ![w] = "insert"]
  /\ UNCHANGED <<options, pending, reached_addrs, addr, seen, reported, dump, pc>>

\* insert() finds the place in the tree, then links the new node there.
Find(w) ==
  /\ at[w] = "insert"
  /\ seen' = [seen EXCEPT ![w] = reached_addrs]
  /\ at' = [at EXCEPT ![w] = "link"]
  /\ UNCHANGED <<options, pending, reached_addrs, set_access, addr, reported, dump, pc>>

Link(w) ==
  /\ at[w] = "link"
  /\ reached_addrs' = seen[w] \cup {addr[w]}
  /\ at' = [at EXCEPT ![w] = "unlock"]
  /\ UNCHANGED <<options, pending, set_access, addr, seen, reported, dump, pc>>

Unlock(w) ==
  /\ at[w] = "unlock"
  /\ set_access' = NoWorker
  /\ at' = [at EXCEPT ![w] = "size"]
  /\ UNCHANGED <<options, pending, reached_addrs, addr, seen, reported, dump, pc>>

\* size() is read without the mutex: before or after the insertion of another
\* worker, never in between.
Size(w) ==
  /\ at[w] = "size"
  /\ reported' = [reported EXCEPT ![w] = IF Cardinality(reached_addrs) % Batch = 0
                                         THEN Cardinality(reached_addrs) ELSE @]
  /\ at' = [at EXCEPT ![w] = "idle"]
  /\ UNCHANGED <<options, pending, reached_addrs, set_access, addr, seen, dump, pc>>

-----------------------------------------------------------------------------
(* main() after the replay. *)

\* Mutation: ReplayForward returns before the last callbacks have.
Return_Early ==
  /\ pc = "replay"
  /\ pending = {}
  /\ pc' = "dump"
  /\ UNCHANGED <<options, pending, reached_addrs, set_access, workers, dump>>

\* ReplayForward returns when the whole part is replayed.
Return ==
  /\ pc = "replay"
  /\ pending = {}
  /\ \A w \in Workers : at[w] = "idle"
  /\ pc' = "dump"
  /\ UNCHANGED <<options, pending, reached_addrs, set_access, workers, dump>>

\* Mutation: the lower bound of the module is forgotten.
Offsets_NoLower(m) == {a - m.base_addr : a \in {b \in reached_addrs : b < m.base_addr + m.imageSize}}

\* What is written to the file of a module.
Offsets(m) == {a - m.base_addr : a \in reached_addrs \cap ModuleRange(m)}

\* Mutation: a module that is not asked for is not passed over.
Dump_OnlyAsked ==
  /\ pc = "dump"
  /\ i <= Len(session.modules)
  /\ i' = IF Asked(i) THEN i + 1 ELSE i
  /\ files' = IF Asked(i)
              THEN [files EXCEPT ![session.modules[i].name] = Offsets(session.modules[i])]
              ELSE files
  /\ UNCHANGED <<options, pending, reached_addrs, set_access, workers, pc>>

\* Open the file of the name, which empties it, and write the module's
\* addresses.
Dump ==
  /\ pc = "dump"
  /\ i <= Len(session.modules)
  /\ i' = i + 1
  /\ files' = IF Asked(i)
              THEN [files EXCEPT ![session.modules[i].name] = Offsets(session.modules[i])]
              ELSE files
  /\ UNCHANGED <<options, pending, reached_addrs, set_access, workers, pc>>

Finish ==
  /\ pc = "dump"
  /\ i > Len(session.modules)
  /\ pc' = "done"
  /\ UNCHANGED <<options, pending, reached_addrs, set_access, workers, dump>>

Stopped == pc \in {"done", "exit"} /\ UNCHANGED vars

memCallback(w) == Hit(w) \/ Lock(w) \/ Find(w) \/ Link(w) \/ Unlock(w) \/ Size(w)

main == List \/ Start \/ Return \/ Dump \/ Finish

Next ==
  \/ main
  \/ \E w \in Workers : memCallback(w)
  \/ Stopped

Spec == Init /\ [][Next]_vars

\* The scheduler keeps running the program and every worker; the mutex may
\* favour any waiting worker, but it is taken only finitely often.
FairSpec == Spec /\ WF_vars(main) /\ \A w \in Workers : WF_vars(memCallback(w))
-----------------------------------------------------------------------------
(* Properties. *)

TypeOK ==
  /\ session \in Session
  /\ begin \in Nat
  /\ end \in Nat
  /\ watch \subseteq 1 .. Len(session.modules)
  /\ pending \subseteq Hits(begin, end, watch)
  /\ reached_addrs \subseteq Nat
  /\ set_access \in Workers \cup {NoWorker}
  /\ at \in [Workers -> {"idle", "lock", "insert", "link", "unlock", "size"}]
  /\ addr \in [Workers -> Nat]
  /\ seen \in [Workers -> SUBSET Nat]
  /\ reported \in [Workers -> Nat]
  /\ files \in [Name -> SUBSET Nat]
  /\ i \in 1 .. Len(session.modules) + 1
  /\ pc \in {"args", "replay", "dump", "done", "exit"}

\* An address that was hit is in the set as soon as its callback is past the
\* insertion, and stays there, whatever the other workers insert meanwhile.
NothingLost ==
  \A h \in Hits(begin, end, watch) \ pending :
    \/ session.code[h[1]] \in reached_addrs
    \/ \E w \in Workers : at[w] \in {"lock", "insert", "link"} /\ addr[w] = session.code[h[1]]

\* The numbers a worker prints never decrease, and none is more than what has
\* been found.
ReportsGrow ==
  [][ \A w \in Workers :
        /\ reported'[w] >= reported[w]
        /\ reported'[w] <= Cardinality(reached_addrs') ]_vars

\* Executed in module k, from the recording alone.
Executed(k) ==
  {session.code[n] - session.modules[k].base_addr :
     n \in {j \in begin .. end - 1 : session.code[j] \in ModuleRange(session.modules[k])}}

LastOfItsName(k) ==
  \A j \in k + 1 .. Len(session.modules) : session.modules[j].name # session.modules[k].name

\* The file of an asked module has the module's executed addresses, all of them
\* and no other.  Of the modules of one name it is the last in the list whose
\* addresses are left, and none of another's.
FilesExact ==
  pc = "done" =>
    \A k \in 1 .. Len(session.modules) :
      Asked(k) /\ LastOfItsName(k) => files[session.modules[k].name] = Executed(k)

\* The program ends.
Terminates == <>(pc \in {"done", "exit"})
=============================================================================
