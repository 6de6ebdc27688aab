----------------------------- MODULE MCMainLoop -----------------------------
(* TLC instance of MainLoop; the .cfg files give the constants.             *)
EXTENDS MainLoop
=============================================================================
