----------------------------- MODULE MCUpdater -----------------------------
(***************************************************************************)
(* Small instances of Updater.  blink has a blank word and a partial last  *)
(* block, tone is shorter and differs from blink in every block but shares *)
(* words with it, noapp is transferred correctly but is not an app.  When  *)
(* flash commands may fail two programs are enough for TLC.                *)
(***************************************************************************)
EXTENDS Updater

MCProgram == {"blink", "tone", "noapp"}
MCTwo     == {"blink", "noapp"}
MCSize    == [p \in Program |->
                CASE p = "blink" -> BlockWords * BlockMax + 1
                  [] p = "tone"  -> BlockWords + 1
                  [] OTHER       -> BlockWords]
MCWord    == {Blank, "app", "a", "b"}

MCImage ==
  [p \in Program |->
    [i \in Addr |->
       CASE i >= Size[p] -> Blank
         [] i = 0 /\ p # "noapp" -> "app"
         [] i = 1 /\ p = "blink" -> Blank
         [] i > 1 /\ p = "tone" -> "b"
         [] OTHER -> "a"]]

MCAppHeader == [i \in {0} |-> "app"]
=============================================================================
