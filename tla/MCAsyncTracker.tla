-------------------------- MODULE MCAsyncTracker --------------------------
(***************************************************************************)
(* Two sessions in one build directory; the script of the first runs two   *)
(* threads.  Its threads are interchangeable, and so are the jobs.         *)
(***************************************************************************)
EXTENDS AsyncTracker

CONSTANTS s1, s2, c1, c2

BothOfFirst == c1 :> s1 @@ c2 :> s1
Symmetry == Permutations(Jobs) \union Permutations(Threads)
=============================================================================
