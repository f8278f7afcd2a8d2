-------------------------- MODULE FileLifecycleMC --------------------------
(* FileLifecycle with two watched folders and a path in each.              *)
EXTENDS FileLifecycle, TLC

CONSTANTS a, b, f, g, x, y

OneInEach == (a :> f) @@ (b :> g)

\* No action tells one text from another.
TextSymmetry == Permutations({x, y})
=============================================================================
