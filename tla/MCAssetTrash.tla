---------------------------- MODULE MCAssetTrash ----------------------------
(* AssetTrash on a small instance; assets and batches are interchangeable. *)
EXTENDS AssetTrash, TLC

TrashSymmetry == Permutations(Assets) \cup Permutations(Batches)
=============================================================================
