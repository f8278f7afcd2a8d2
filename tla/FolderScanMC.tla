---------------------------- MODULE FolderScanMC ----------------------------
(* FolderScan with a file in the watched folder and one at the end of a      *)
(* chain of two directories.                                                 *)
EXTENDS FolderScan, TLC

CONSTANTS root, sub, deep, near, far

Chain == (sub :> root) @@ (deep :> sub) @@ (near :> root) @@ (far :> deep)

ChainAbove ==
  (root :> {}) @@ (sub :> {root}) @@ (deep :> {root, sub}) @@ (near :> {root}) @@ (far :> {root, sub, deep})
=============================================================================
