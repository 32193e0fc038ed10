------------------------------ MODULE MCThreads ------------------------------
(* An instance of Threads for TLC. *)
EXTENDS Threads

CONSTANTS main, a, b, c

(* main, the idle thread of this build, has IDLEPRIO; the app's threads a  *)
(* and b have NORMALPRIO and c more than that.                             *)
MCBase == main :> 1 @@ a :> 2 @@ b :> 2 @@ c :> 3
=============================================================================
