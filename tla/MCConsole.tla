----------------------------- MODULE MCConsole -----------------------------
(***************************************************************************)
(* An instance of Console for TLC: two characters, in cells of two pixels  *)
(* one above the other.                                                    *)
(***************************************************************************)
EXTENDS Console, TLC

Glyphs == "A" :> {<<0, 0>>} @@ "_" :> {}
=============================================================================
