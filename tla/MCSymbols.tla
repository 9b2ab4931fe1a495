----------------------------- MODULE MCSymbols -----------------------------
(***************************************************************************)
(* Instances of Symbols for TLC: up to three modules, of both layouts,     *)
(* with every header in turn missing or cut.                               *)
(***************************************************************************)
EXTENDS Symbols

All == [k \in 1 .. 4 |-> "full"]
But(k, recorded) == [All EXCEPT ![k] = recorded]
MCMemory == {All, But(1, "missing"), But(2, "partial"), But(3, "missing"), But(4, "partial"),
             [k \in 1 .. 4 |-> "missing"]}

A(memory, pdb) == [memory |-> memory, layout |-> 1, pdb |-> pdb]
B(memory, pdb) == [memory |-> memory, layout |-> 2, pdb |-> pdb]

MCModules ==
  {<<>>}
    \cup {<<A(All, p), B(x, "name"), A(y, q)>> : p \in {"local", "name"}, q \in {"name", "none"},
                                                x \in MCMemory, y \in MCMemory}
    \cup {<<A(x, p), A(y, "name")>> : p \in {"local", "none"}, x \in MCMemory, y \in MCMemory}
=============================================================================
