------------------------------ MODULE SyncSearch ------------------------------
(***************************************************************************)
(* What example_diff promises (README.md, "diffing path in a trace"): it   *)
(* keeps a pair of positions, one per recording, where both are in sync;   *)
(* it moves the pair forward over instructions that do not matter, and it  *)
(* stops only where the recordings really take different paths.  The       *)
(* promise is stated on the open calls of the recordings themselves: how   *)
(* the program comes to know them is its own business.                     *)
(***************************************************************************)
EXTENDS Recording

CONSTANTS Recordings,  \* the pairs of recordings that may be compared
          KNOWN_FUNC,  \* functions that are expected to take different paths
          MaxStride    \* most instructions skipped without a look

VARIABLES trace,   \* the pair of recordings
          sync,    \* the last positions known to be in sync
          status   \* "searching" or "reported"

vars == <<trace, sync, status>>

TypeOK ==
  /\ trace \in Recordings
  /\ sync \in [1 .. 2 -> Nat \ {0}]
  /\ status \in {"searching", "reported"}

Init ==
  /\ trace \in Recordings
  /\ sync = [i \in 1 .. 2 |-> 1]
  /\ status = "searching"

\* Where recording i is n instructions after the sync position, or at its end.
Ahead(i, n) ==
  IF sync[i] + n <= Len(trace[i]) THEN sync[i] + n ELSE Len(trace[i])

Meets(n) == trace[1][Ahead(1, n)].pc = trace[2][Ahead(2, n)].pc

\* The call open at level h is the same, known one in both recordings.
KnownCall(h) ==
  /\ \A i \in 1 .. 2 : h <= Len(trace[i][sync[i]].funcs)
  /\ trace[1][sync[1]].funcs[h] = trace[2][sync[2]].funcs[h]
  /\ trace[1][sync[1]].rets[h] = trace[2][sync[2]].rets[h]
  /\ trace[1][sync[1]].funcs[h] \in KNOWN_FUNC

Levels == 1 .. Len(trace[1][sync[1]].funcs)

\* Both recordings agree after some instructions: that is the new sync point.
Advance ==
  /\ status = "searching"
  /\ \E n \in 1 .. MaxStride :
       /\ Meets(n)
       /\ sync' = [i \in 1 .. 2 |-> Ahead(i, n)]
  /\ UNCHANGED <<trace, status>>

\* They differ at the next instruction, inside a known call: its return, in
\* both, is the new sync point.  The outermost known call counts.
Resync ==
  /\ status = "searching"
  /\ ~ Meets(1)
  /\ \E h \in Levels :
       /\ KnownCall(h)
       /\ \A g \in 1 .. h - 1 : ~ KnownCall(g)
       /\ \A i \in 1 .. 2 :
            FirstAfter(trace[i], sync[i], trace[i][sync[i]].rets[h], sync'[i])
  /\ sync' \in [1 .. 2 -> UNION {1 .. Len(trace[i]) : i \in 1 .. 2}]
  /\ UNCHANGED <<trace, status>>

\* They differ at the next instruction, and no known call explains it.
Report ==
  /\ status = "searching"
  /\ ~ Meets(1)
  /\ \A h \in Levels : ~ KnownCall(h)
  /\ status' = "reported"
  /\ UNCHANGED <<trace, sync>>

Next == Advance \/ Resync \/ Report

Spec == Init /\ [][Next]_vars
=============================================================================
