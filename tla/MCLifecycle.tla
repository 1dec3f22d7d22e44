---------------------------- MODULE MCLifecycle ----------------------------
\* Lifecycle on small instances: one or two refreshes, a few tokens and requests.
EXTENDS Lifecycle, TLC

Symmetry == Permutations(Calls)
=============================================================================
