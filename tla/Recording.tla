------------------------------ MODULE Recording ------------------------------
(***************************************************************************)
(* What a recorded execution (a .run file) shows to the code in src/: one  *)
(* entry per executed instruction, from the position where the tool puts   *)
(* its cursor.  The recording itself is produced and decoded by            *)
(* TTDReplay.dll, which is not part of the repository; everything here is  *)
(* modelled from how src/ uses it.                                         *)
(*                                                                         *)
(*   pc         what GetProgramCounter answers at this position            *)
(*   addr_func  first argument of the call/return callback when the        *)
(*              instruction is a CALL (the callee) or a RET (the address   *)
(*              it returns to); NULL for any other instruction             *)
(*   addr_ret   second argument: the return address of a CALL, NULL for a  *)
(*              RET                                                        *)
(*   funcs,     the calls made since the first entry that have not         *)
(*   rets       returned yet when the instruction is about to execute,     *)
(*              outermost first, and their return addresses.  The code     *)
(*              never sees these two fields: the properties compare the    *)
(*              stacks the code builds with them.                          *)
(***************************************************************************)
EXTENDS Integers, Sequences

CONSTANTS GuestAddress, NULL

ASSUME NullAssumption == NULL \notin GuestAddress

Instruction == [ pc : GuestAddress,
                 addr_func : GuestAddress \cup {NULL},
                 addr_ret : GuestAddress \cup {NULL},
                 funcs : Seq(GuestAddress),
                 rets : Seq(GuestAddress) ]

Trace == Seq(Instruction) \ {<<>>}

\* The last element of a sequence, and the sequence without it.
Top(s) == s[Len(s)]
Pop(s) == SubSeq(s, 1, Len(s) - 1)

-----------------------------------------------------------------------------
(* Assumptions on recordings that the properties may rest on. *)

\* From position k to k + 1 the open calls change as the callback reports: a
\* CALL opens one, a RET closes the innermost one and goes to its return
\* address (or closes a call made before the first entry, when none is open),
\* and nothing else does.
NestedStep(t, k) ==
  LET e == t[k]
      n == t[k + 1]
  IN  /\ e.addr_func = NULL =>
           /\ n.funcs = e.funcs
           /\ n.rets = e.rets
      /\ e.addr_func # NULL /\ e.addr_ret # NULL =>
           /\ n.funcs = Append(e.funcs, e.addr_func)
           /\ n.rets = Append(e.rets, e.addr_ret)
      /\ e.addr_func # NULL /\ e.addr_ret = NULL /\ e.funcs = <<>> =>
           /\ n.funcs = <<>>
           /\ n.rets = <<>>
      /\ e.addr_func # NULL /\ e.addr_ret = NULL /\ e.funcs # <<>> =>
           /\ n.funcs = Pop(e.funcs)
           /\ n.rets = Pop(e.rets)
           /\ e.addr_func = Top(e.rets)

WellNested(t) ==
  /\ t[1].funcs = <<>>
  /\ t[1].rets = <<>>
  /\ \A k \in 1 .. Len(t) : Len(t[k].rets) = Len(t[k].funcs)
  /\ \A k \in 1 .. Len(t) - 1 : NestedStep(t, k)

\* q is the first position after k that executes address a.
FirstAfter(t, k, a, q) ==
  /\ k < q
  /\ t[q].pc = a
  /\ \A j \in k + 1 .. q - 1 : t[j].pc # a

\* From position k the recording goes on until the h-th open call returns, and
\* the return address is not executed before that: the calls open there are the
\* ones below it.
ReturnsFrom(t, k, h) ==
  \E q \in k + 1 .. Len(t) :
    /\ FirstAfter(t, k, t[k].rets[h], q)
    /\ t[q].funcs = SubSeq(t[k].funcs, 1, h - 1)
    /\ t[q].rets = SubSeq(t[k].rets, 1, h - 1)
=============================================================================
