# ttd-bindings in TLA+

TLA+ models of [ttd-bindings](../src), the C++ and Python bindings for the replay API of
Windows Time Travel Debugging (TTD), and of the tools built on it. A TTD recording (`.run`
file) is the complete execution of a process; `TTDReplay.dll` replays it. The bindings forward
to the DLL, after a handshake with it; the logic of the repository is in the five example tools,
which drive cursors over recordings, roll them back, and collect what callbacks report.

Contents:

1. [The system](#1-the-system)
2. [Modules and how they correspond to the code](#2-modules-and-how-they-correspond-to-the-code)
3. [What TLC checks](#3-what-tlc-checks)
4. [What is proved](#4-what-is-proved)
5. [What the code gets wrong](#5-what-the-code-gets-wrong)
6. [Not modelled](#6-not-modelled)
7. [Plan](#7-plan)

## 1. The system

| Component | State | Operations | Talks to |
|---|---|---|---|
| `TTD/TTD.cpp`, `TTD.hpp`: `Cursor` | inside the DLL: position, callbacks, watchpoints | `SetPosition`, `ReplayForward`, `ReplayBackward`, `SetCallReturnCallback`, `SetMemoryWatchpointCallback`, `Add/RemoveMemoryWatchpoint`, `GetProgramCounter`, contexts, memory | the DLL through a vftable; the DLL calls the callbacks back |
| `ReplayEngine` | a handle | constructor (handshake with the DLL), `Initialize`, `NewCursor`, first and last position, lists of modules, threads and events | the DLL |
| `Position` | two 64-bit numbers | the order, `POSITION_MAX` | everything |
| `utils`, `sha256` | none | `base64_encode`, `DumpHex`, SHA-256 | the handshake |
| `example_diff` | two call stacks per recording (globals), a snapshot, `step_size` | search for the first diff of two recordings | two cursors, call/return callback |
| `example_calltree` | depth, module list (globals), `LastPosition`, counters | print calls and returns, chunk by chunk | a cursor, call/return callback, dbghelp |
| `example_cov` | `reached_addrs`, `set_access` (globals) | addresses executed in some modules, to files | a cursor, memory callback from several threads |
| `example_tenet` | `memsinfo` (global), two contexts | a Tenet trace of one module | a cursor, memory callback |
| `example_api` | four event lists and their iterators | demonstration; merges the lists to a timeline | the engine |
| `python-bindings` | none | pybind11 declarations, list copies, `read_mem`, `replay_*` | all of the above |

All tools but one are sequential, and what is hard about them is protocol: state kept in globals
by a callback, while the main loop moves the cursor backwards and forwards; step counts at their
boundaries; lists at their ends; loops whose exit depends on progress of the replay. In
`example_cov` the engine replays segments of the recording in parallel and calls the callback
from several threads, in no order of positions (src/README.md:301-310 shows the positions jump).

What makes each of them correct:

- **Cursor, Position**: a replay goes no further than the position and the number of steps it is
  given, and stops *before* the instruction at a watchpoint; the order of positions is total.
- **example_diff**: a rollback is exact; the stacks are the calls open in the recordings at all
  times, also after an allow-listed call was skipped; a reference is a point where both recordings
  execute the same address; a difference is reported only where the next instruction makes one;
  the search ends.
- **example_calltree**: one line per call and return, indented by its depth, across chunks; the
  end is where it was asked for; the program ends.
- **example_cov**: no address is lost to another thread; a file has exactly the addresses of its
  module; the program ends.
- **example_tenet**: a reader that applies the lines one after the other has every register and
  every accessed memory cell right; one line for each position in the module.
- **example_api**: the timeline has every event once, in order; the merge ends.
- **ReplayEngine, sha256, base64**: whatever the challenge of the DLL is, the answer is the base64
  form of the SHA-256 of the right texts: no text is read outside of its table, the message is padded
  right at every length, and the token reads back as the digest.
- **Memory queries and their callers**: what is in the heap after a call is known, a query for
  recorded memory leaves nothing, and a NULL is only used where memory is scarce.
- **symbols of example_calltree**: a module gets its own symbols, whatever failed reads of earlier
  modules left on the stack.

The hazards these properties are for are in `PROJECT.json`, each at its line.

## 2. Modules and how they correspond to the code

```
 Recording ── Cursor ──┬── Diff ─── MCDiff (with Programs)      SyncSearch (abstract)
   (external, TTD.cpp) ├── CallTree ─ MCCallTree                   ^ implemented by Diff
                       └── Tenet ── MCTenet
 Position ── Timeline ─ MCTimeline            Coverage ── MCCoverage
 Memory ─┬── Symbols ── MCSymbols             Handshake ── MCHandshake
         └── Clients ── MCClients
 Diff_proof, CallTree_proof, Tenet_proof, Timeline_proof, Coverage_proof, Handshake_proof,
 Symbols_proof, Clients_proof
```

**Recording** is what the tools see of a recorded execution: for every instruction its address
and, if it is a call or a return, what the call/return callback is told (`addr_func`, and
`addr_ret`, 0 for a return). For specification only, an instruction also has the calls open before
it (`funcs`, `rets`); no operation of a tool reads them. `WellNested` says that calls and returns
match; nothing is said of how deep a function is called (`memset` is at depth 1 and at depth 2 in the
trace of src/README.md:245 and 268). `ReturnsFrom(t, k, h)` says of one position that an open call
returns before its return address is executed otherwise.

**Cursor** (TTD.cpp) is the state of the engine's cursor object as a record and the methods as
operators on it. What the DLL does behind a method is external; it is modelled from how the tools
use the result. `ReplayForward` only starts a replay; the engine's steps are actions of the tool's
module (`ReplayStep`), so that a callback is interleaved with the replay as it is in the program.
The step count -1 (2^64 - 1 steps) is `NO_LIMIT`: a recording has fewer instructions.

**Diff** (example_diff/main.cpp) has an action for the code between two calls of `ReplayForward`:
`Deb` (the label `deb`), `Forward1` and `Forward2` (the two replays of an iteration), `Compare`
(take a snapshot, or restore the last one and halve `step_size`), `Report`, `ScanFrame`,
`ScanOutOfBounds`, `ScanEnd` (the loop over the stacks), `Resync1`, `Resync2` (forward to the return
address under a watchpoint, callback off), `Restart` (the assertion, the truncation and `goto deb`).
The vectors `g_func_stack`, `g_ret_stack`, `g_func_stack2`, `g_ret_stack2` are `func_stack[1]`,
`ret_stack[1]`, `func_stack[2]`, `ret_stack[2]`. `NDEBUG` is the build, chosen at the start among
`Builds` and the same ever after: the assertions stop a Debug build and are nothing in a Release
build. Undefined behaviour is a choice over what a build does. `back()` of an empty vector and an
index past the end of one: a Debug build stops (the vectors are checked), a Release build stops or
goes on with any value. `pop_back()` of an empty vector: both stop, a Release build because the size
becomes negative and `takeSnapshot`, the next thing that happens, copies the vector, which throws.

**SyncSearch** is what `example_diff` promises, with nothing of how: a pair of positions moves
over stretches after which both recordings agree, jumps over the outermost common allow-listed
call, and is reported where neither is possible. The open calls come from the recordings, not
from a callback. `Diff` implements it under the refinement mapping `Search`: the pair is the last
snapshot, or the cursors between a resynchronisation and the snapshot that follows.

**CallTree** (example_calltree/main.cpp): the command line (`BadArgs`, `Args`), the module list
(built back to front) and the callback, and the loop: a chunk of `STEP_COUNT` instructions that is
complete is remembered (`FullChunk`), one that is not is rolled back and replayed without its last
instruction (`ShortChunk`, `Finish`). A line of output is the number of bars, the event and the
module printed with it; an event in no module leaves its bars on the current line (`bars`).
`LastPosition` is `NULL` until it is written: reading it then gives any position. Counters are
taken modulo `Word`, the number of values of an `unsigned __int64`. Every instruction has the thread
that executes it; the callback does not ask for it, and has one `g_cur_stack` for all.

**Coverage** (example_cov/main.cpp): workers of the engine call `memCallback` for the hits of the
replayed range in any order. The callback's steps are `Hit`, `Lock`, `Find` and `Link` (the two
halves of `std::set::insert`: find the place, link the node), `Unlock` and `Size` (read without
the mutex). `main` sets the watchpoints, replays, and dumps the files one module after the other,
opening each by the module's name.

**Tenet** (example_tenet/main.cpp): a recording here has the registers and the memory before each
instruction and its accesses. An action is one iteration of the loop: `Skip` (outside the module),
`WriteLine`, `Finish`. The accesses of an instruction are appended to `memsinfo` by the callbacks
made inside its replay; `dumpContext` reads the memory when the line is written. A line also records
the position it was written at, for the properties only. Memory may change without an access (a
system call writes to the buffers of its caller, and no callback tells of it), may be there only in
part (`PARTIAL`), and an access may be neither a read nor a write (`OTHER`: its bytes are written
without a key).

**Position**, **Timeline** (TTD.hpp, example_api/main.cpp:183-225): four sorted lists of events
and one action per iteration: the heads are read once, then each branch compares one head with
others (`Compared`, which is not all others) and prints and advances. One iteration may print
more than one event.

**Handshake** (the constructor of `ReplayEngine`, sha256.cpp, base64_encode of utils.cpp):
`Initiate` takes the DLL's 48 characters and makes the message of four texts that they select, with
the unsigned remainder as the code takes it; `Update` is one iteration of `sha256_update`, `Final`
is `sha256_final`, `Encode` the base64 string, `Create` the second call to the DLL. `InitiateFails`
and `CreateFails` are a `GetProcAddress` that gave NULL, which is called. The rounds of
`sha256_transform` are left out: the state of the hash is the sequence of blocks it absorbed
(`ctx.hashed`), and the digest they make is part of the session, so that a wrong byte, a byte too
many or a stale byte in a block is visible, and nothing depends on the rounds. `ctx.data` starts
with `GARBAGE`. The DLL accepts (`Accepts`, external) when the hash is that of the message which its
answer asks for, as FIPS 180-2 pads it, and the token reads back as the digest; `Expected`, `Pad`
and `Decode` are those reference definitions. `Expected` is written without the code's buffers,
copies and remainders: whole texts, selected by numbers modulo 2^64. The texts themselves are
constants of the lengths that the tables of csts.h have.

**Memory** (TTD.cpp:45-71): the heap is the number of live blocks of each kind. An allocation may
fail from `SCARCE` blocks on and must from `FULL`. `QueryMemoryBuffer` is the set of ways in which
the call may go, with its two returns of NULL, each of which leaves what was allocated before it.

**Symbols** (example_calltree/main.cpp:27-112, 346-363): `ReadMemory` is one call of `readMemory`, with
the headers on the stack as variables that keep the values of an earlier module when a read fails,
since `readMemory` returns TRUE all the same; `header[k]` is the module whose header is there. An
address computed from another module's header is right when both have the same layout, and
anything may be there otherwise. `SymLoad` is the choice between the PDB and the DLL; the calls after
it may write over the stack or not. The model takes garbage never to have the signature `RSDS`.

**Clients** (example_tenet, example_api, python-bindings/module.cpp): the same heap for three kinds
of callers. `example_tenet` is a loop with a context for each instruction (`Context`), a block for
each access (`memCallback`), a query for each access of a line (`Dump`) and `cleanMemsinfo`
(`EndLine`); `example_api` asks once; a Python program calls `read_mem`, asks for a context and
makes objects (`Wrap`: elements of a list, watchpoints), in any order, and `py::nodelete` lets none
of them go. When memory is scarce the `std::string` of `read_mem` may throw (`MayThrow`) with the
buffer not yet freed; Python makes a `MemoryError` of it and goes on.

The definitions named `X_Something` before a definition `X` are faulty variants of it, each the
way a plausible bug would make it; no specification uses them. For every property there is one
that breaks it (`mutants` in `PROJECT.json`).

## 3. What TLC checks

`tlc -config MCDiff_good.cfg MCDiff`, and so on. Runs marked ✗ end with a counterexample: they check
what the repository says of itself where the code does something else (section 5).

| Run | Question | Instance |
|---|---|---|
| `MCDiff_good` | Do the stacks mirror the open calls, are references sync points, what can fail, is `SyncSearch` implemented? | all pairs of recordings of up to 20 instructions, cut anywhere, of a server loop with an allocator with two paths and a helper that both it and its caller call, both allow-listed; one recording of 28 instructions from two starts, as `main` opens it; paths that part outside any call, in a wrapper, and in a recursion; both builds |
| `MCDiff_any` | What holds whatever the recordings are, with and without assertions, and does the search stop or reach both ends? | the same, and recordings with exceptions, and with one side started a call deeper; both builds |
| `MCDiff_reentrant` ✗ | Is a skipped call always the one that was open? | the family of recursion |
| `MCTimeline_good` | Is every event printed once, which disorder is possible, does every iteration get on? | every way to give at most one event to each of 5 positions, and any set of kinds to each of 3 |
| `MCTimeline_unsorted` ✗ | Is the timeline in order? | at most one event per position |
| `MCCallTree_good` | Is the tree exact across chunks, is nothing missed, what is printed twice, where does it end, does it end? | all recordings of 6 instructions (plain, call, return) with -b, -e (also before -b) and -t, all of 9 calls and returns, all of 4 with calls into no module, all of 5 of two threads with -t; chunks of 3 |
| `MCCallTree_tail` ✗ | Is the indentation the depth? | 6 instructions |
| `MCCoverage_good` | Is an address ever lost, are the files exact, do the printed numbers grow, does it end? | 3 workers, recordings of 3 and 4 instructions in separate and overlapping modules and two modules of one name, every choice of modules, -b and -e |
| `MCTenet_good` | Can registers and memory be read back, are the lines the right ones, is each access on one line? | 3 and 5 instructions in and out of the module, loads, stores, read-modify-writes and copies on two cells, one of which may be unmapped, cut, or changed by a system call |
| `MCHandshake_good` | Does the DLL get the answer it expects? | one challenge for each length of the message modulo the block of 64, `+` and `/` in each place; four digests; no library, either function not in it, no answer, no memory |
| `MCSymbols_good` | Whose symbols does a module get, and what stays in the heap? | up to 3 modules of two layouts, with one header or all cut or missing, five kinds of `_NT_SYMBOL_PATH`; malloc may fail from 9 blocks and does from 12 |
| `MCClients_good` | What do the callers leave in the heap, when does an export not end? | tenet, api and Python, 3 instructions or calls, and more than the heap has blocks; malloc may fail from 6 blocks and does from 8 |

The properties of each run, stated and commented in the module it instantiates (in `PROJECT.json` the
runs are named `diff_good` and so on):

| Run | Properties |
|---|---|
| `MCDiff_good` | `StacksMirrorRecording`, `ReferenceInSync`, `NoFailure`, `Implements` |
| `MCDiff_any` | `TypeOK`, `AtReference`, `PartsAtNext`, `AssertionsGuard`, `EndsOrExhausted` |
| `MCDiff_reentrant` | `ReturnsMatch` |
| `MCTimeline_good` | `TypeOK`, `EveryEventOnce`, `OnlyUnloadsLate`, `Progress` |
| `MCTimeline_unsorted` | `Sorted` |
| `MCCallTree_good` | `TypeOK`, `TreeExact`, `RepeatsOnlyTail`, `FinalPosition`, `Terminates` |
| `MCCallTree_tail` | `IndentIsDepth` |
| `MCCoverage_good` | `TypeOK`, `NothingLost`, `FilesExact`, `ReportsGrow`, `Terminates` |
| `MCTenet_good` | `TypeOK`, `RegistersExact`, `MemoryExact`, `LinesExact`, `SummaryExact` |
| `MCHandshake_good` | `TypeOK`, `PaddingExact`, `HandshakeAccepted` |
| `MCSymbols_good` | `TypeOK`, `RightSymbols`, `ForeignOnlyUnread`, `HeapExact`, `CrashOnlyScarce` |
| `MCClients_good` | `TypeOK`, `LeaksExact`, `LongExportFails` |

**A constraint.** `MCDiff_good` follows a run only as long as `Skippable` holds (its `CONSTRAINT`),
as the theorems have `Spec /\ []Skippable` for a hypothesis. It is about the moments at which the
search gives up on a reference, and only about the calls open there: when a known call is open in
both recordings, both are equally deep in calls, and the outermost such call returns before its
return address is executed otherwise. For a Release build it also asks that the second recording is
not the less deep one. Nothing else is cut: with paths that part at different depths without a known
call, outside any call, or with the second stack too short (in Debug) the run goes on to the
failure, which `NoFailure` names. What happens where `Skippable` does not hold is in `MCDiff_any`
and `MCDiff_reentrant`.

**Bounds.** Recordings are short because the tools only look at a window: the longest property of
`Diff` needs a reference, a diff inside an allow-listed call, a resynchronisation and a further
diff, which is 20 instructions of the program of `MCDiff`; they have a known call inside a known
call, the helper at two depths, and two resynchronisations in one run. `DEFAULT_STEP_SIZE = 5` (the
code's is far larger) is odd and not a power of two, so halving it passes 2, 1 and 0, a chunk ends
inside, before and after a call, and the end of a recording falls inside a chunk. In `CallTree`,
`STEP_COUNT` is 3 against ranges of 0 to 9 instructions: empty, shorter than a chunk, a multiple,
and between. `Word = 16` is larger than any count except the underflow of an empty last chunk. In
`Coverage`, three workers let one be in `insert` while another waits and a third reads the size (no
symmetry reduction: the run checks liveness). In `Tenet` one register besides `Rip` and two cells
suffice for changed/unchanged and accessed/not accessed; `MaxWord = 3` in `Timeline` stands for
2^64 - 1 in `POSITION_MAX`. `Handshake` needs no bound: a session is one pass over at most 319
characters. Of `Symbols`, three modules are the least with which a header of one before the last can
be on the stack when the last is read, and 9 blocks let a loop of up to twelve reads run into a full
heap. In `Clients`, `FULL = 8` is small so that an export longer than that can be checked to its
end.

**Fairness.** `example_diff` and `example_calltree` are one thread that the system keeps
running: `WF_vars(Next)`. For `Coverage`
it is `WF` of `main` and of each worker; weak fairness of a worker is enough although the mutex may
prefer others, since each hit takes it once and there are finitely many hits. In `Clients` the two
examples are loops that run on (`WF` of their actions), and nothing is assumed of a Python program,
which may stop calling. No strong fairness is assumed anywhere.

**Deadlock** is checked in every run; `Stopped` (`Finished` in `Timeline`) is the ended program.

## 4. What is proved

`tlapm Diff_proof.tla`, and so on. Each theorem is for every value of the constants that satisfies
the assumptions of its module: any recordings, allow-list, step size, options, modules, number of
workers.

| Theorem | Statement | Assumes |
|---|---|---|
| `Diff_proof!TypeCorrect` | `Spec => []TypeOK` | |
| `Diff_proof!RollbackExact` | `Spec => []AtReference`: at the head of the loop everything is as the last snapshot | |
| `Diff_proof!SearchPrecise` | `Spec => []PartsAtNext`: the search gives up only where one instruction parts the recordings | |
| `Diff_proof!StacksCorrect` | `Spec /\ []Skippable => []StacksMirrorRecording`: the stacks are the open calls | `WellBehaved` |
| `Diff_proof!ReferencesInSync` | `Spec /\ []Skippable => []ReferenceInSync`: references are sync points | `WellBehaved` |
| `Diff_proof!NothingFails` | `Spec /\ []Skippable => []NoFailure`: no assertion fails, no vector is popped when empty; `back()` of an empty stack and a Debug scan past the shorter second stack are all that can happen | `WellBehaved` |
| `Diff_proof!AssertionsSuffice` | `Spec => []AssertionsGuard`: in a Debug build every reference is a sync point, if the start is | |
| `Diff_proof!SearchRefined` | `Spec /\ []Skippable => Implements`: `Diff` implements `SyncSearch` | `WellBehaved` |
| `Diff_proof!SearchRunsOut` | every step of the search descends an order of natural numbers, until the reference is at both ends | |
| `Timeline_proof!TimelineTypeCorrect`, `NothingLost`, `UnloadsOvertaken` | types; every event once; only unloads are late | |
| `Timeline_proof!AlwaysProgress` | every iteration over lists that share no position prints something | |
| `CallTree_proof!TypeCorrect`, `EndsBeforeEnd`, `OnlyTailTwice` | types; where the replay ends; what is printed twice | |
| `CallTree_proof!TreeIsExact` | `Spec => []TreeExact`: every event of any thread once and in order, whatever the chunk size, and at the depth of its thread's call stack as long as no other thread has called or returned | `AllNamed`, for the depth |
| `CallTree_proof!RunsOut` | every step descends an order of natural numbers | |
| `Coverage_proof!NoAddressLost`, `FilesAreExact`, `TypeCorrect`, `ReportsNeverShrink` | as in section 3 | |
| `Coverage_proof!MutexComesBack` | the mutex is held exactly by the worker that is inserting or about to unlock | |
| `Coverage_proof!RunsOut` | every step of any worker or of `main` descends an order of natural numbers | finitely many workers |
| `Tenet_proof!TypeCorrect`, `LinesAreExact` | types; the lines are the right ones | |
| `Tenet_proof!RegistersCanBeRead`, `MemoryCanBeRead` | the last line with a register, or with a cell that the trace has, has its value at the last line, but for changes of the cell that no access is recorded for | |
| `Tenet_proof!SummaryIsExact` | each access is on the next line, once and in order, if its memory is there | |
| `Handshake_proof!Base64RoundTrip` | `Decode(CString(base64_encode(d) with NULs)) = d` for every digest `d` | |
| `Handshake_proof!TypeCorrect`, `PaddingCorrect`, `EngineMade` | `TypeOK`, `PaddingExact`, `HandshakeAccepted`, for any texts, challenges and digests | |
| `Symbols_proof!TypeCorrect`, `SymbolsAreRight`, `ForeignSymbols`, `HeapCorrect`, `CrashIsScarce` | all invariants of section 3, for any modules and any heap | |
| `Clients_proof!TypeCorrect`, `LeaksAreExact` | `TypeOK`, `LeaksExact`, for any client, run and heap, after a crash or an exception too | |

`WellBehaved` (the calls of both recordings nest, and both start at the same address) is a
hypothesis on the recordings and `Skippable` one on the run, both stated in `Diff`; `MCDiff` asserts
that the recordings of `MCDiff_good` satisfy the first, and `MCDiff_any` has families of recordings
that break each. Neither says anything of how the recordings end, nor of how deep a function is
called elsewhere. `Distinct`, the hypothesis inside `Progress` of `Timeline`, is asserted of the
first family of `MCTimeline`; since every iteration then prints an event of a finite list,
`Progress` is also what ends that loop.

**The arguments.**

- *Diff* needs three layers. `TypeInv` adds to the types that the two vectors of a recording have
  equal lengths and that a frame under consideration exists; otherwise the truncation could leave
  the type. `SearchInv` says where the cursors are in each phase of an iteration, counted from the
  snapshot: a cursor's position plus its remaining steps is `snapshot.cur + step_size`, so when both
  replays return the cursors are at `Ahead(i, step_size)`. `PartsAtNext` follows because `step_size`
  becomes 0 only from 1. `StackInv` says that the stacks are the calls open at the *cursor* outside
  the fast-forward and at the *snapshot* always; restoring a snapshot moves both together. It also
  says that the frames the scan has passed are in both stacks and not common known calls. Across the
  fast-forward, where the callback is off, the argument is about the recordings: the frames are the
  open calls (`FramesAreCalls`), the one that was found is the outermost common known one, so
  `Skippable` speaks of it (`FoundReturns`): both stacks have one length, and the calls open at its
  return address are those below the known frame, which is what the truncation leaves
  (`RestartReaches`). For the refinement, a comparison that succeeds is an `Advance` by `step_size`,
  the restart a `Resync` at frame `stack_high + 1`, the end of the scan a `Report`, and everything
  else a stutter (`StepImplements`). `GuardInv`, for recordings of any kind, needs of the search
  only what each assertion leaves true.
- *CallTree*: `Placed` ties the cursor to the last complete chunk: inside a chunk it is
  `STEP_COUNT - todo` instructions after `LastPosition`, and in the second replay of the last chunk it has as
  many left as there are up to the instruction before the end. Lines are in order until that replay
  (`Ordered`), so whatever repeats is after `LastPosition = end - stepCount`. The tree is about the
  depth: `g_cur_stack` restarts at 0 when a return takes it below, so it is not calls minus returns,
  but how far the cursor is above the lowest depth so far (`Lowest`). That is inductive: a return at
  level 0 makes a new lowest point, and everything else leaves the one there is (`DepthStep`: one
  instruction changes the depth by at most one). For a return `IndentOf` gives the level of its
  function, which is the one after it. As long as one thread calls and returns, the depth of all
  threads together, which is what the callback counts, is the depth of that thread
  (`OneThreadDepth`). The printed positions are those of the events of named modules (`OutAt =
  NamedEvents(Begin, cursor.pos)`), chunk after chunk; the second replay of the last chunk only adds
  lines, so at the end none is missing.
- *Coverage*: `Mutex` (only the holder is in `insert`) gives `SeenFresh` (what the holder found is
  still the whole set), which makes `Link` add to the set; then every hit is pending, in a callback
  before the link, or in the set, and nothing else is in the set. When the replay returns the set
  is exactly the executed addresses, and each iteration of the dump fixes one file for good when no
  later module has its name.
- *Tenet*: `Started` says that `old_context` is the context of the last line; then the registers a
  new line leaves out have the value they had there, and the last line with the register is the same
  one. For memory, `AccessesKept` says that `memsinfo` is the accesses since the last line and that
  a line has those since the line before. It is all that has to be inductive, and `SummaryExact` is
  a rewriting of it. For `MemoryExact`, a line is picked by the least and greatest number: every
  accessed position before the last line has a next line (`NextLine`), which has the cell
  (`LineHas`); after the last line that has it nobody accesses it, so its value stays unless
  something changes it without an access (`NotAccessed`, the least position where it would differ).
  What `FlattenSeq` of a sequence is (its type, its elements, one more at the end) is proved first,
  from its recursion (`FlattenJoins`).
- *Timeline*: `Before` is a strict total order; an event that was printed is not after the head
  of any list it is compared with, which orders all pairs but thread events and unloads.

- *Handshake*: while it updates, the blocks absorbed and the part of the buffer in use are together
  the characters given so far (`Absorbed`), whatever else the buffer holds; so at the end at most one
  incomplete block is left, and the two cases of `sha256_final` make the standard's padding of it
  (`FinalPads`). The base64 proof goes letter by letter over the 44 letters of 32 octets. Where a C string
  ends is the least index with a NUL; that a set of naturals has a least element (`LeastNumber`) is
  derived from the finite subsets of an interval, which are well-founded by inclusion.
- *Symbols*: of a module with all its headers in the trace the headers read so far are its own
  (`OwnHeaders`), which makes the next address right, whatever the stack held. `QueryWays` says what
  a query leaves in any heap; with it the heap is the data of the failed reads at each step.
- *Clients*: the same `QueryWays`, `MallocFits` (a heap never holds more than `FULL`), and the
  counters of what each client has asked for and given back: `LeaksExact` is inductive as it stands,
  once the heap is known to be typed: an exception leaves both blocks of its query, and a crash
  inside a query the one or the other buffer (`CutShort`).

**Termination.** `<>` under fairness is not a statement that the provers can reach, but its core is
one about steps: a tuple of natural numbers (`Measured`) that gets smaller, in the lexicographic
order, in every step that changes anything (`Closer`). Such an order has no infinite descent, so no
run goes on for ever; that it is not stuck before a final state is what the check for deadlock shows
on the instances, and `MutexComesBack` for the workers that wait. `CallTree`: the phase of `main`,
the instructions after the cursor, and the turn of the loop; going back to `LastPosition` moves the
cursor away from the end, but into a later phase, and a chunk is complete only after at least one
instruction because `STEP_COUNT` is not 0. `Diff`: the instructions after the two sync positions,
what is left to try there (step sizes, then the stacks, then the fast-forward), `step_size`, the
replays of an iteration and the instructions or frames of the loop in progress. A rollback keeps the
sync positions and halves `step_size`; a new reference or a restart moves at least one of them,
unless both are at the end (`Exhausted`): there the fast-forward and the replay have nothing left
(`MoveInv`). Starting again with `DEFAULT_STEP_SIZE` is harmless only because of that. At the two
ends the search may go on for ever, and does (section 5). `Coverage`: the phase of `main`, the hits
to come, the steps all workers have left in their callbacks, and the modules to dump.

**Induction.** The library's rules of induction have an operator as parameter, which the provers
cannot instantiate. Where a recursive function has to be known for every argument (the join of
sequences), the rule is used for a *set* of numbers instead: `AllNumbers` (`Tenet_proof`: a set with 0
and with n + 1 for each n has all of them), which follows from `LeastNumber`. Whatever is recursive
in a module with a proof is therefore a recursive function or the library's `FlattenSeq`, never a
`RECURSIVE` operator or `SelectSeq`, which the provers cannot expand.

**Left to TLC**: liveness, that is `EndsOrExhausted` of `Diff` and `Terminates` of `CallTree` and
`Coverage` (what is proved of them are the measures) and `LongExportFails`, and what the code gets
wrong (section 5). Every other property of a passing run is a theorem.

## 5. What the code gets wrong

Each of these is a run that TLC refutes; `PROJECT.json` quotes the line of the repository it
contradicts.

| Run | Where | What happens |
|---|---|---|
| `MCDiff_reentrant` | example_diff/main.cpp:195 | the watchpoint is hit by an inner activation of the same call site, the stacks are cut too far, and the assertion of line 28 fails |
| `MCTimeline_unsorted` | example_api/main.cpp:214 | thread events overtake module unloads, which the condition never looks at |
| `MCCallTree_tail` | example_calltree/main.cpp:379 | the last chunk is printed twice, the second time at the wrong depth |

Other limits of the code are in the properties that hold, as exceptions or hypotheses. For
`example_diff` (`WellBehaved`, `Skippable`, `NoFailure`, `Exhausted`): a function left by an
exception makes no return, and a later one fails the assertion of line 28; the scan of line 162
indexes the second stack past its end when it is the shallower one; when the two recordings are at
different depths the truncation (210-215) takes as many frames from the second stack as from the
first, and leaves it wrong; a recording that ends inside the known call fails the assertion of line
198, or without assertions takes the two ends for a sync point; paths that part outside any call
reach `back()` of empty vectors at line 154. Both cursors read the same file (lines 101 and 107), so
that both recordings end on the same address: when the search gets there it takes the two ends as
its reference again and again and never stops (line 131; no document says what it should do
instead). For `example_api` (`Distinct`): two lists with the same position take no branch at 202-220
and the loop never ends. For `example_calltree` (`AllNamed` in `TreeExact`, `LastPosition # NULL` in
`FinalPosition`): an event in no module leaves its bars on the line; a range shorter than a chunk
rolls back to an uninitialized position. For `example_tenet` (`MemoryExact` is about the memory at
the line): a read is printed with the value the cell has when the line is written; what a system
call writes (src/README.md:254, where the line after `NtQueryInformationThread` is far behind it) is
not in the file before the cell is accessed again (`ChangedSilently`); an access to memory that is
gone by then is left out (`SummaryExact`, main.cpp:85); and an access that is neither a read nor a
write puts bytes on the line with no key (`Keyed`, :93). `-t` of `example_calltree` is a "Thread ID
to trace" (:241) but does not trace a thread: it starts where the thread was created (:314). All
threads share one `g_cur_stack` (:168-174), so that with a second thread the indentation is the
depth of no call stack (src/README.md:209 promises it; `OneThreadUntil` in `TreeExact`). In
`example_cov` two modules of one name overwrite each other's file (:165; `FilesExact` is about the
last of a name).

Of the remaining modules: a module of `example_calltree` with a header that is not in the trace may
be given the PDB of an earlier module where main.cpp:352 means to fall back on the DLL, because
`readMemory` returns TRUE (:38; `ForeignOnlyUnread` says when). Nobody looks whether
`QueryMemoryBuffer` gave NULL, which takes a heap that is nearly full (`CrashOnlyScarce`);
`example_tenet` fills it, with a context for every instruction (:239; `LongExportFails`), and prints
what is not the trace's for an access of which the trace has only the start (:96; `PARTIAL`, which
`MemoryExact` excludes). In Python, a `read_mem` whose string finds no memory leaves both blocks of
its query (module.cpp:152; `LeaksExact`). A DLL that refuses the handshake leaves `instance`
uninitialized (TTD.cpp:162; the hypothesis of `HandshakeAccepted`), and a function that it does not
have is called as NULL (:140-143).

## 6. Not modelled

- The DLL itself: external, as far as the tools rely on it.
- The rounds of SHA-256 and the characters of the licence texts: data that no control depends on.
- `DumpHex`, the parsing of positions and paths, all formatting: data.
- What dbghelp makes of the file it is given, and the download of a PDB: I/O.
- The demonstration parts of `example_api` (but its memory query) and `example_api.py`: one call after
  the other, without state of their own.
- The declarations of the Python bindings, and the methods that forward one call: nothing to go wrong
  in them that the type checker would not see. How long a list of the engine stays valid is the DLL's.
- The vftables of TTD.hpp: declarations.
- Failure of the engine itself (`Initialize` returns false: every tool exits). Allocation failure
  outside of the queries, contexts, accesses and the string of `read_mem` (vectors, strings, the
  set): it ends a C++ program with an exception; in Python it is a `MemoryError` and the program
  goes on, with the blocks it had.
- In `example_tenet`, the mutex around `memsinfo`: a replay of one instruction runs on one thread.
- More than one callback of the same cursor at once, `ReplayBackward`: no C++ tool relies on them
  (`example_api` steps back once and prints).

## 7. Plan

Modelled first, because it is the largest and most delicate algorithm of the repository:
`example_diff`; then the tools in the order of how much state they keep between callbacks
(`example_calltree`, `example_cov`, `example_tenet`) and the timeline; then the handshake, the memory
queries with their callers, and the symbols. All of these are done.

Proved since: every safety property that a run checks, and the measures by which `Diff`, `CallTree`
and `Coverage` end.
