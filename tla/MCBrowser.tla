----------------------------- MODULE MCBrowser -----------------------------
(* Browser with the values of MCAuth. *)
EXTENDS Browser, MCAuth

=============================================================================
