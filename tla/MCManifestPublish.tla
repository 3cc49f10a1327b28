-------------------------- MODULE MCManifestPublish --------------------------
(* Two overlapping runs over a repository of two files. *)
EXTENDS ManifestPublish, TLC

CONSTANTS run1, run2, old

MCFiles == {"README.md", "SPEC.md"}
Runs == Permutations({run1, run2})
=============================================================================
