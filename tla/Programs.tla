------------------------------- MODULE Programs -------------------------------
(***************************************************************************)
(* Recordings of small programs, for model checking.  A program maps an    *)
(* address to its instruction: [op, func, ret, next], where next is the    *)
(* set of addresses control may go to (what is data in the real program is *)
(* a choice here).                                                         *)
(***************************************************************************)
EXTENDS Recording, FiniteSets

Plain(next) == [op |-> "plain", func |-> NULL, ret |-> NULL, next |-> next]
CallTo(f, r) == [op |-> "call", func |-> f, ret |-> r, next |-> {f}]
\* `next' is where a RET goes when its call was made before the recording.
Ret(next) == [op |-> "ret", func |-> NULL, ret |-> NULL, next |-> next]

\* The entry for address a with the given open calls.
Entry(program, a, funcs, rets) ==
  LET i == program[a]
      to == IF rets = <<>> THEN CHOOSE n \in i.next : TRUE ELSE Top(rets)
  IN  [ pc |-> a,
        addr_func |-> CASE i.op = "plain" -> NULL
                        [] i.op = "call" -> i.func
                        [] i.op = "ret" -> to,
        addr_ret |-> IF i.op = "call" THEN i.ret ELSE NULL,
        funcs |-> funcs, rets |-> rets ]

\* The entries that may follow entry e.  A jump out of a function (unwind is a
\* set of addresses where an exception handler or a longjmp lands) drops the
\* calls down to the one the handler belongs to, without a RET.
Successors(program, unwind, e) ==
  LET i == program[e.pc] IN
  CASE i.op = "call" ->
         {Entry(program, i.func, Append(e.funcs, i.func), Append(e.rets, i.ret))}
    [] i.op = "ret" ->
         IF e.funcs = <<>> THEN {Entry(program, e.addr_func, <<>>, <<>>)}
         ELSE {Entry(program, e.addr_func, Pop(e.funcs), Pop(e.rets))}
    [] i.op = "plain" ->
         {IF n \in unwind THEN Entry(program, n, Pop(e.funcs), Pop(e.rets))
          ELSE Entry(program, n, e.funcs, e.rets) : n \in i.next}

\* All recordings of n instructions from address start.
Runs(program, unwind, start, n) ==
  LET runs[k \in 1 .. n] ==
        IF k = 1 THEN {<<Entry(program, start, <<>>, <<>>)>>}
        ELSE UNION {{Append(t, e) : e \in Successors(program, unwind, Top(t))} :
                    t \in runs[k - 1]}
  IN  runs[n]

\* Every pair of the recordings ts.
Pairs(ts) == [1 .. 2 -> ts]
=============================================================================
