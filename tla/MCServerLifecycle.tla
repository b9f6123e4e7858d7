------------------------- MODULE MCServerLifecycle -------------------------
(* Instances of ServerLifecycle for TLC; the .cfg files give the constants. *)
EXTENDS ServerLifecycle
=============================================================================
