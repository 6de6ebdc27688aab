------------------------------ MODULE HostPoll ------------------------------
(***************************************************************************)
(* One round over the collections of one host, again and again:            *)
(* Collection_worker::get_collect (src/src/collection_class.cpp), and the  *)
(* clock by which it dates what it pushes to the rrd writer.               *)
(*                                                                         *)
(* An update is not dated by the moment it is processed but by the uptime  *)
(* the device reports with it: host->timeticks and host->mytime remember   *)
(* one pair of uptime and local time, and an update is dated mytime plus   *)
(* the uptime gone by since.  The pair is replaced when the uptime did not *)
(* grow, or grew by more than 60 s.                                        *)
(*                                                                         *)
(* Time is counted in the device's ticks.  The two clocks run at the same  *)
(* rate, the device may reboot at any moment, its uptime wraps, and one    *)
(* worker at a time polls the host, which is what collection_class.hpp:84  *)
(* takes for granted (CollectionClass, HostPolledByOneWorker).             *)
(***************************************************************************)
EXTENDS Integers

CONSTANTS
    NumCollections,  \* host->collection.size()
    Mapped,          \* the collections whose OID suffix could be mapped
    TicksPerSec,     \* 100
    MaxGap,          \* 6000 in the code: 60 s
    UintRange,       \* 2^32: range of the uptime and of unsigned int
    MaxLatency,      \* bound on the time from request to response
    MaxTime,         \* bound: how long the model runs
    None

Collection == 0 .. NumCollections - 1
Uint == 0 .. UintRange - 1
Time == 0 .. MaxTime

ASSUME NumCollectionsAssumption == NumCollections \in Nat /\ Mapped \subseteq Collection
ASSUME TicksAssumption == TicksPerSec \in Nat \ {0} /\ MaxGap \in Nat /\ MaxLatency \in Nat
ASSUME UintAssumption == UintRange \in Nat /\ MaxGap < UintRange - 1
ASSUME MaxTimeAssumption == MaxTime \in Nat /\ MaxGap <= MaxTime
ASSUME NoneAssumption == None \notin [at : Nat, boot : Nat]

VARIABLES
    now,        \* real time, in ticks
    boot,       \* when the device was started
    timeticks, mytime,  \* the host's pair: uptime, local time in seconds
    pc,         \* where the worker is
    i,          \* its loop variable
    sentAt,     \* when the request was sent
    sample,     \* when and since which start the device answered, and what
    sync,       \* when and since which start the pair was set (history)
    first,      \* the same of the first update, until the pair is set (history)
    pushed      \* the last update that was pushed (history)

hostVars == <<timeticks, mytime, sync>>
loopVars == <<pc, i, sentAt, sample>>
vars == <<now, boot, hostVars, loopVars, first, pushed>>

\* The device has been up for a while.  SQL_Host has no constructor, so timeticks
\* and mytime start with whatever was in memory; which times come of a mytime
\* nobody set is not asked, so it starts as 0.
Init ==
    /\ now \in 0 .. MaxGap /\ boot = 0
    /\ timeticks \in Uint /\ mytime = 0
    /\ pc = "idle" /\ i = 0 /\ sentAt = 0 /\ sample = None
    /\ sync = None /\ first = None
    /\ pushed = None

-----------------------------------------------------------------------------
(* The world                                                                *)

\* Time passes; a response comes within MaxLatency or not at all.
Tick ==
    /\ now < MaxTime
    /\ pc \in {"sent", "answered"} => now - sentAt < MaxLatency
    /\ now' = now + 1
    /\ UNCHANGED <<boot, hostVars, loopVars, first, pushed>>

\* The device starts again and counts its uptime from 0.
Reboot ==
    /\ boot' = now
    /\ boot' # boot
    /\ UNCHANGED <<now, hostVars, loopVars, first, pushed>>

\* What the device may answer for sysUpTime: its ticks, or something else (a null, an
\* exception, another type).
Answers == {[kind |-> "ticks", n |-> (now - boot) % UintRange],
            [kind |-> "other", n |-> 0]}

\* The device answers.
Answer ==
    /\ pc = "sent"
    /\ \E v \in Answers : sample' = [at |-> now, boot |-> boot, value |-> v]
    /\ pc' = "answered"
    /\ UNCHANGED <<now, boot, hostVars, i, sentAt, first, pushed>>

-----------------------------------------------------------------------------
(* get_collect                                                              *)

\* snmp_sess_open succeeds (if it fails the round is over at once).
Begin ==
    /\ pc = "idle"
    /\ pc' = "next" /\ i' = 0
    /\ UNCHANGED <<now, boot, hostVars, sentAt, sample, first, pushed>>

\* end_of_single_collection: free the response, go to the next collection.
NextCollection ==
    /\ i' = i + 1
    /\ pc' = "next"
    /\ sentAt' = 0 /\ sample' = None

\* done: free the response and close the session.
EndRound ==
    /\ pc' = "idle" /\ i' = 0
    /\ sentAt' = 0 /\ sample' = None

\* A collection that should be mapped and is not is skipped, as is one whose OID
\* does not parse.
Skip ==
    /\ pc = "next" /\ i < NumCollections
    /\ NextCollection
    /\ UNCHANGED <<now, boot, hostVars, first, pushed>>

\* Variant for mutation: the collection is asked for although it has no mapping.
Send_Unmapped ==
    /\ pc = "next" /\ i < NumCollections
    /\ pc' = "sent" /\ sentAt' = now
    /\ UNCHANGED <<now, boot, hostVars, i, sample, first, pushed>>

\* Build the request for the collection's OIDs and the uptime, and send it.
Send ==
    /\ pc = "next" /\ i < NumCollections
    /\ i \in Mapped
    /\ pc' = "sent" /\ sentAt' = now
    /\ UNCHANGED <<now, boot, hostVars, i, sample, first, pushed>>

\* No response in time, or the request failed: the rest of the round is dropped.
Fail ==
    /\ pc \in {"sent", "answered"}
    /\ EndRound
    /\ UNCHANGED <<now, boot, hostVars, first, pushed>>

\* An error status, an exception value or a wrong number of values: nothing is
\* pushed, the next collection is tried.
Reject ==
    /\ pc = "answered"
    /\ NextCollection
    /\ UNCHANGED <<now, boot, hostVars, first, pushed>>

\* atoi of what get_clean_snmpvalue makes of the uptime: the digits of Timeticks, and 0
\* for all else, which becomes "0" or "U".  So does a null: it is made "-1" first (lines
\* 147-151), which does not begin with a digit and becomes "U" (lines 171-183).
get_clean_snmpvalue(v) == IF v.kind = "ticks" THEN v.n ELSE 0

tt == get_clean_snmpvalue(sample.value) % UintRange

\* tt == -1 is compared as unsigned.  Meant for a null, which never is -1, it is met by
\* the last tick before the wrap.
NullTicks == -1 % UintRange

\* "TimeTicks can't be NULL": the rest of the round is dropped.
EndOnNull ==
    /\ pc = "answered"
    /\ tt = NullTicks
    /\ EndRound
    /\ UNCHANGED <<now, boot, hostVars, first, pushed>>

\* Of which the history remembers when the device took it, and its last start.
Origin == [at |-> sample.at, boot |-> sample.boot]

\* Variant for mutation: a large step of the uptime is not noticed.
Resync_NoGap == tt <= timeticks \/ timeticks = 0

\* The pair is set anew when the uptime did not grow, when the old one is 0, and
\* when it is more than MaxGap old.
Resync ==
    \/ tt <= timeticks
    \/ timeticks = 0
    \/ (tt - timeticks) % UintRange > MaxGap

\* Variant for mutation: mytime is left as it was.
SetClock_OldTime ==
    IF Resync THEN timeticks' = tt /\ mytime' = mytime /\ sync' = Origin
    ELSE UNCHANGED hostVars

SetClock ==
    IF Resync THEN timeticks' = tt /\ mytime' = now \div TicksPerSec /\ sync' = Origin
    ELSE UNCHANGED hostVars

\* The time of the update: mytime plus the whole seconds of uptime since.
FinalTime == mytime' + ((tt - timeticks') % UintRange) \div TicksPerSec

\* A complete response: date it and push_data.
Push ==
    /\ pc = "answered"
    /\ tt # NullTicks
    /\ SetClock
    /\ pushed' = [time |-> FinalTime, origin |-> Origin, sync |-> sync']
    /\ first' = IF sync' # None THEN None ELSE IF first = None THEN Origin ELSE first
    /\ NextCollection
    /\ UNCHANGED <<now, boot>>

\* The loop has seen every collection.
Finish ==
    /\ pc = "next" /\ i = NumCollections
    /\ EndRound
    /\ UNCHANGED <<now, boot, hostVars, first, pushed>>

-----------------------------------------------------------------------------
Next == Tick \/ Reboot \/ Answer \/ Begin \/ Skip \/ Send \/ Fail \/ Reject
        \/ EndOnNull \/ Push \/ Finish

Spec == Init /\ [][Next]_vars

-----------------------------------------------------------------------------
(* Properties                                                               *)

Values == [kind : {"ticks", "other"}, n : Uint]
Origins == [at : Time, boot : Time] \cup {None}

\* Types of the variables; the loop variable stays a valid index while a
\* request is out.
TypeOK ==
    /\ now \in Time /\ boot \in Time
    /\ timeticks \in Uint /\ mytime \in Nat
    /\ pc \in {"idle", "next", "sent", "answered"}
    /\ i \in 0 .. NumCollections
    /\ sentAt \in Time
    /\ sample \in [at : Time, boot : Time, value : Values] \cup {None}
    /\ sync \in Origins /\ first \in Origins
    /\ pushed \in [time : Nat, origin : Origins \ {None}, sync : Origins] \cup {None}
    /\ pc \in {"sent", "answered"} => i \in Mapped

\* The last update was dated by a pair that was set since the device's last
\* start, less than a full turn of its uptime before.
Dated == /\ pushed # None /\ pushed.sync # None
         /\ pushed.sync.boot = pushed.origin.boot
         /\ pushed.origin.at - pushed.sync.at < UintRange

\* What is pushed carries the time at which the device took it, rounded down
\* twice and late by no more than one latency, although neither that time nor
\* the one-way delay is measured: across wraps of the uptime, a busy worker,
\* lost rounds and answers without an uptime (collection_class.cpp:380-408).
TimestampAccurate ==
    Dated => /\ pushed.time * TicksPerSec > pushed.origin.at - 2 * TicksPerSec
             /\ pushed.time * TicksPerSec <= pushed.origin.at + MaxLatency

\* The uninitialized timeticks and mytime of a new SQL_Host do no harm for long:
\* updates dated by them stop MaxGap (60 s) after the first one at the latest,
\* unless the device starts again, or no update comes for almost a full turn of the
\* uptime (497 days), after which it may be back where it was
\* (collection_class.cpp:380, .hpp:85-86).
GarbageClockReplaced ==
    pushed # None /\ pushed.sync = None /\ pushed.origin.boot = first.boot
        /\ pushed.origin.at - first.at < UintRange - MaxGap
        => pushed.origin.at - first.at < MaxGap
=============================================================================
