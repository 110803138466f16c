--------------------------- MODULE MCAssetVersions ---------------------------
(***************************************************************************)
(* Instances of AssetVersions. Liveness is checked, so no symmetry is used. *)
(***************************************************************************)
EXTENDS AssetVersions
=============================================================================
