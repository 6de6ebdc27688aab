----------------------------- MODULE MCRRDWriter -----------------------------
(* TLC instance of RRDWriter: two files share the first queue, a third one  *)
(* hashes to the second.                                                    *)
EXTENDS RRDWriter

CONSTANTS f1, f2, f3, w1, w2

MCFile == {f1, f2, f3}
MCWriter == {w1, w2}
MCQueueOf == [f \in MCFile |-> IF f = f3 THEN w2 ELSE w1]
=============================================================================
