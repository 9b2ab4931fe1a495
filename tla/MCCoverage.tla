------------------------------ MODULE MCCoverage ------------------------------
(***************************************************************************)
(* Instances of Coverage for TLC.                                          *)
(***************************************************************************)
EXTENDS Coverage

CONSTANTS w1, w2, w3, lsm, ntdll

MCWorkers == {w1, w2, w3}

Mod(name, base, size) == [name |-> name, base_addr |-> base, imageSize |-> size]

\* Addresses 1 and 2 are in the first module, 4 in the second, 3 in none.
Apart == << Mod(lsm, 1, 2), Mod(ntdll, 4, 2) >>

\* A module loaded over a part of another one.
Overlapping == << Mod(lsm, 1, 3), Mod(ntdll, 3, 2) >>

\* lsm.dll and lsm.exe.
SameName == << Mod(lsm, 1, 2), Mod(lsm, 4, 2) >>

SessionsOf(n, addresses, lists, asks, begins, ends) ==
  { [ code |-> code, modules |-> mods, asked |-> asked, list |-> FALSE,
      begin_arg |-> b, end_arg |-> e ] :
    code \in [1 .. n -> addresses], mods \in lists, asked \in asks, b \in begins, e \in ends }

\* The recording is left alone when the modules are only listed.
ListSessions == {[s EXCEPT !.list = TRUE] : s \in SessionsOf(1, {1}, {Apart}, {{}}, {0}, {0})}

MCSessions ==
  SessionsOf(4, {1, 2, 4}, {Apart}, {{lsm, ntdll}}, {0, 3}, {0})
    \cup SessionsOf(3, {1, 2, 4}, {SameName}, {{lsm}}, {0}, {0})
    \cup SessionsOf(3, {1, 3, 4}, {Overlapping}, SUBSET {lsm, ntdll}, {0}, {0})
    \cup SessionsOf(4, {1, 3, 4}, {Apart, Overlapping}, {{ntdll}, {lsm, ntdll}}, {2}, {0, 3})
    \cup ListSessions

=============================================================================
