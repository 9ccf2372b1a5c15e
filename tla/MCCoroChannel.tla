--------------------------- MODULE MCCoroChannel ---------------------------
(***************************************************************************)
(* Instances of CoroChannel for TLC: one thread.                           *)
(***************************************************************************)
EXTENDS CoroChannel

CONSTANTS t1, m1, c1, c2

TrioHome == m1 :> t1 @@ c1 :> t1 @@ c2 :> t1
OneMain == t1 :> m1
=============================================================================
