---------------------------- MODULE MCLifecycle ----------------------------
(* Lifecycle and Restbus for TLC.  Two namespaces: one may lose its        *)
(* mappings, or its add, while the other keeps them.                       *)
EXTENDS Lifecycle
CONSTANTS Bcm, Vc
MCNamespaces == {Bcm, Vc}
=============================================================================
