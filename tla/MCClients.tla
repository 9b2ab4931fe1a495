----------------------------- MODULE MCClients -----------------------------
(***************************************************************************)
(* Instances of Clients for TLC: recordings that end before the heap is    *)
(* full, and longer ones.                                                  *)
(***************************************************************************)
EXTENDS Clients

MCLengths == {3, FULL + 1}
=============================================================================
