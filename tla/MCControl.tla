----------------------------- MODULE MCControl -----------------------------
(* TLC instance of Control: an empty argument, one of two characters, and    *)
(* two that are long enough for `user' and `pass', the password among them.  *)
EXTENDS Control

MCLength == [a \in Arg |-> CASE a = "empty" -> 0 [] a = "two" -> 2 [] OTHER -> 3]
=============================================================================
