-------------------------- MODULE MCManifestChain --------------------------
(* Small instances of ManifestChain. *)
EXTENDS ManifestChain

CONSTANTS w1, w2, e1, e2
============================================================================
