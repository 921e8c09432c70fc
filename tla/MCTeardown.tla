----------------------------- MODULE MCTeardown -----------------------------
(* Teardown for TLC.                                                         *)
EXTENDS Teardown, TLC

Sym == Permutations(Agent)

\* The tuples, the cleanups still to drop them, the Dismissed flags and the
\* registry's history guard no step but those that change them, and no property
\* of this instance is about them.
View == <<status, parent, reg, casc, clusterVars, teardownVars>>
=============================================================================
