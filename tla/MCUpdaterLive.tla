--------------------------- MODULE MCUpdaterLive ---------------------------
(* UpdaterLive with the programs of MCUpdater. *)
EXTENDS UpdaterLive

MCProgram == {"blink", "tone"}
MCSize    == [p \in Program |-> IF p = "blink" THEN BlockWords + 1 ELSE BlockWords]
MCWord    == {Blank, "app", "a", "b"}

MCImage ==
  [p \in Program |->
    [i \in Addr |->
       CASE i >= Size[p] -> Blank
         [] i = 0 -> "app"
         [] i = 1 /\ p = "blink" -> Blank
         [] p = "tone" -> "b"
         [] OTHER -> "a"]]

MCAppHeader == [i \in {0} |-> "app"]
=============================================================================
