-------------------------- MODULE MCCollectionClass --------------------------
(* TLC instance of CollectionClass; the .cfg files give the constants.      *)
EXTENDS CollectionClass
=============================================================================
