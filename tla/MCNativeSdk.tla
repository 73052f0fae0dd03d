------------------------------- MODULE MCNativeSdk -------------------------------
(***************************************************************************)
(* Values of the constants for TLC.                                        *)
(***************************************************************************)
EXTENDS NativeSdk, TLC

CONSTANTS p1, p2, b1, b2, u1, s1, s2

TwoFiles == <<"Boost.Build.cs", "UnrealUSDWrapper.cpp">>

Interchangeable == Permutations(PythonRuns) \cup Permutations(Sdks) \cup Permutations(BoostRuns)
================================================================================
