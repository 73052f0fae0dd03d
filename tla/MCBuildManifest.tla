----------------------------- MODULE MCBuildManifest -----------------------------
(***************************************************************************)
(* Values of the constants for TLC: one fork, whose records are taken and  *)
(* checked while files under it are edited.                                *)
(***************************************************************************)
EXTENDS BuildManifest

OneFork == <<"ue">>
================================================================================
