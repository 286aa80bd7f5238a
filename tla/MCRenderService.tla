--------------------------- MODULE MCRenderService ---------------------------
(* RenderService for TLC: interchangeable threads. *)
EXTENDS RenderService, TLC

ThreadSymmetry == Permutations(Threads)
=============================================================================
