------------------------------- MODULE MCGdbProbes -------------------------------
(***************************************************************************)
(* Two threads, two handles, so that one is given out again while the      *)
(* other is in use, and two contexts of commands; lists of two events in   *)
(* the probe of the shutdown, which four events of the engine overfill.    *)
(***************************************************************************)
EXTENDS GdbProbes, TLC

CONSTANTS t1, t2, h1, h2, c1, c2

Symmetric == Permutations(Threads) \cup Permutations(Handles) \cup Permutations(Contexts)
================================================================================
