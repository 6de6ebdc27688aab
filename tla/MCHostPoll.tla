----------------------------- MODULE MCHostPoll -----------------------------
(* TLC instance of HostPoll; the .cfg files give the constants.             *)
EXTENDS HostPoll
=============================================================================
