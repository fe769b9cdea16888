-------------------------- MODULE MCArtifactWriter --------------------------
(***************************************************************************)
(* Instances of ArtifactWriter: with all six artifacts, and with the       *)
(* first, the last and the one that has_run_artifact does not look for.    *)
(***************************************************************************)
EXTENDS ArtifactWriter

SixArtifacts == <<"orders", "fills", "ledger", "summary", "metrics", "manifest">>
ThreeArtifacts == <<"orders", "ledger", "manifest">>
=============================================================================
