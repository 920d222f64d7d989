---------------------------- MODULE MCRtnlContext ----------------------------
(* RtnlContext on a small instance.                                        *)
EXTENDS RtnlContextRefinement, TLC

CONSTANTS host, other

(* Contexts are interchangeable, and so are goroutines.                    *)
Symmetry == Permutations(Contexts) \cup Permutations(Goroutines)
=============================================================================
