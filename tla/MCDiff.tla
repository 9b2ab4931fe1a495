-------------------------------- MODULE MCDiff --------------------------------
(***************************************************************************)
(* Instances of Diff for TLC.                                              *)
(***************************************************************************)
EXTENDS Diff, Programs

MCGuestAddress == 1 .. 60

\* The recorded request handler.  It starts at the end of a function entered before
\* the recording (a RET with no open call), and then calls work (10), which allocates
\* (30), calls the helper (40) and takes either branch at 12, and is called again.
\* The allocator takes a short or a long path, through the same helper, one call
\* deeper; the helper takes a short or a long path as well.
Handler ==
  [ a \in MCGuestAddress |->
    CASE a = 1 -> Ret({2})
      [] a = 2 -> CallTo(10, 3)
      [] a = 3 -> Plain({1})
      [] a = 10 -> CallTo(30, 11)
      [] a = 11 -> CallTo(40, 12)
      [] a = 12 -> Plain({13, 14})
      [] a = 13 -> Plain({15})
      [] a = 14 -> Plain({15})
      [] a = 15 -> Ret({60})
      [] a = 30 -> Plain({31, 33})
      [] a = 31 -> Plain({32})
      [] a = 32 -> Ret({60})
      [] a = 33 -> CallTo(40, 34)
      [] a = 34 -> Plain({32})
      [] a = 40 -> Plain({41, 42})
      [] a = 41 -> Plain({42})
      [] a = 42 -> Ret({60})
      [] OTHER -> Plain({a}) ]

\* Both are allow-listed.
MCKnownFunc == {30, 40}

\* Two recordings, which may end anywhere and on the same address.
HandlerRecordings == Pairs(UNION {Runs(Handler, {}, 1, n) : n \in {6, 9, 16, 20}})

\* One recording, from two executions of the handler (as main() opens it).
OneRecording(t) ==
  {<<t, SubSeq(t, k, Len(t))>> : k \in {j \in 1 .. Len(t) : t[j].pc = 1}}

\* The paths part before the first call.
TopLevel == [Handler EXCEPT ![1] = Plain({2, 5}), ![5] = Plain({2})]

\* The allocator calls work again, which allocates from the same call site.
Reentrant ==
  [Handler EXCEPT ![33] = CallTo(10, 34), ![11] = Plain({15, 17}), ![17] = Ret({60})]

ReentrantRecordings == Pairs(Runs(Reentrant, {}, 1, 14))

\* work allocates directly, or through a wrapper.
Wrapped ==
  [Handler EXCEPT ![10] = Plain({18, 19}), ![18] = CallTo(30, 15), ![19] = CallTo(50, 15),
                  ![50] = CallTo(30, 51), ![51] = Ret({60})]

GoodRecordings ==
  HandlerRecordings
    \cup UNION {OneRecording(t) : t \in Runs(Handler, {}, 1, 28)}
    \cup Pairs(Runs(TopLevel, {}, 1, 8))
    \cup Pairs(Runs(Wrapped, {}, 1, 12))
    \cup ReentrantRecordings

\* The theorems' hypothesis holds of these recordings.
ASSUME GoodAssumption == Recordings = GoodRecordings => WellBehaved

-----------------------------------------------------------------------------
(* Calls that do not nest. *)

\* The recorded process leaves helper 40 through an exception that its caller
\* handles at 34: no RET.
Unwinding ==
  [Handler EXCEPT ![11] = Plain({12}), ![40] = Plain({34, 41}), ![41] = Ret({60})]

UnwindingRecordings == Pairs(Runs(Unwinding, {34}, 1, 12))

\* work starts one call deeper in one of the recordings than in the other.
AnyRecordings ==
  GoodRecordings \cup UnwindingRecordings \cup Pairs(Runs(Wrapped, {}, 10, 12))
=============================================================================
