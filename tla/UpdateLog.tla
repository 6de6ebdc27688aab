------------------------------ MODULE UpdateLog ------------------------------
(***************************************************************************)
(* What RRD_Writer promises to push_data's callers: for every rrd file an  *)
(* unbounded FIFO of updates, each of which is tried once, in the order    *)
(* pushed, until the process exits.  How files are spread over queues and  *)
(* threads, and how names become ids, is not visible here.                 *)
(***************************************************************************)
EXTENDS Naturals, Sequences

CONSTANTS File, Template, Time

VARIABLES
    pending,    \* pending[f]: updates of f accepted and not yet tried
    disk,       \* disk[f]: time of the last update stored in f
    running     \* the process has not exited

Update == [time : Time, template : Template]

Init ==
    /\ pending = [f \in File |-> <<>>]
    /\ disk = [f \in File |-> 0]
    /\ running = TRUE

Push(f) ==
    /\ running
    /\ UNCHANGED <<disk, running>>
    /\ \E u \in Update : pending' = [pending EXCEPT ![f] = Append(@, u)]

\* The oldest update of f is tried: it is stored, which needs a time later than
\* the file's last one, or it is dropped.
Write(f) ==
    /\ running
    /\ UNCHANGED running
    /\ pending[f] # <<>>
    /\ pending' = [pending EXCEPT ![f] = Tail(@)]
    /\ \/ /\ Head(pending[f]).time > disk[f]
          /\ disk' = [disk EXCEPT ![f] = Head(pending[f]).time]
       \/ disk' = disk

Exit ==
    /\ running
    /\ running' = FALSE
    /\ UNCHANGED <<pending, disk>>

vars == <<pending, disk, running>>

Next == (\E f \in File : Push(f) \/ Write(f)) \/ Exit

\* What may happen.
SafeSpec == Init /\ [][Next]_vars

\* The updates of f are tried in the end.  This is weak fairness of Write(f) with
\* its guard written out: only Write(f) makes pending[f] shorter.
Shortened(f) == Len(pending'[f]) < Len(pending[f])

Tried(f) == []<>(~running \/ pending[f] = <<>>) \/ []<><<Shortened(f)>>_pending

Spec == SafeSpec /\ \A f \in File : Tried(f)
=============================================================================
