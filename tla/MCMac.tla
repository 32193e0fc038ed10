------------------------------- MODULE MCMac -------------------------------
(* Mac with bytes of three bits: the sync bytes are 2, 5, 1. *)
EXTENDS Mac
MCSync == <<2, 5, 1>>
=============================================================================
