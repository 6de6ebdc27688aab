------------------------------ MODULE RRDWriter ------------------------------
(***************************************************************************)
(* The RRD writer (src/src/rrd_writer.cpp): push_data, called by any       *)
(* polling thread, interns the file and template names, hashes the file    *)
(* name to one of the queues and posts that queue's semaphore; one thread  *)
(* per queue pops updates and hands them to librrd.                        *)
(*                                                                         *)
(* push_data holds the global `lock' throughout, so at most one update is  *)
(* under construction: pushing # NoDatum stands for `lock' held by a       *)
(* pusher.  A queue's own lock is only ever held for one push or one pop.  *)
(***************************************************************************)
EXTENDS Integers, Sequences

CONSTANTS
    File, Template,  \* file names and rrd templates
    Writer,          \* indices of the queues, one writer thread each
    QueueOf,         \* fnv_32_str(filename) % data_queue.size()
    MaxTime,         \* bound: update times are 1 .. MaxTime
    MaxPush,         \* bound: how many updates are pushed
    ValueCounts,     \* how many values the pushed strings may hold
    MaxDs,           \* MAX_DS_PER_FILE, 20 in the code
    UintRange,       \* 2^32, the number of values of a uint32_t
    Interrupts,      \* may sem_timedwait fail with EINTR?
    NoDatum, NoFile

Time == 1 .. MaxTime
NumDs == 0 .. UintRange - 1
Datum == [time : Time, filename_id : Nat, template_id : Nat, num_ds : NumDs]

ASSUME QueueOfAssumption == QueueOf \in [File -> Writer]
ASSUME BoundsAssumption == MaxTime \in Nat /\ MaxPush \in Nat /\ MaxDs \in Nat
                           /\ UintRange \in Nat /\ MaxDs < UintRange
ASSUME ValueCountsAssumption == ValueCounts \subseteq Nat \ {0}
ASSUME InterruptsAssumption == Interrupts \in BOOLEAN
ASSUME NoNamesAssumption == NoFile \notin File /\ NoDatum \notin Datum


VARIABLES
    filename_id_map,  \* file name -> id, a function on the names seen
    file_info,        \* id -> file name (ids count from 0)
    template_id_map, rrd_template,
    pushing,          \* the datum a push_data call is about to queue
    pushes,           \* how many were pushed (for the bound)
    data_queue,       \* data_queue[w].datum_queue
    sem,              \* data_queue[w].semaphore
    wpc,              \* where each writer is
    eintr,            \* the writer's errno is EINTR
    rrd_datum,        \* the writer's popped datum
    filename, template_str, \* its buffers for the names
    to_be_flushed,    \* the one file it will fsync when idle
    disk,             \* last update time stored in each rrd file
    running           \* the process has not exited

internVars == <<filename_id_map, file_info, template_id_map, rrd_template>>
queueVars == <<data_queue, sem>>
writerVars == <<wpc, eintr, rrd_datum, filename, template_str, to_be_flushed, disk>>
vars == <<internVars, pushing, pushes, queueVars, writerVars, running>>

Init ==
    /\ filename_id_map = [f \in {} |-> 0] /\ file_info = <<>>
    /\ template_id_map = [t \in {} |-> 0] /\ rrd_template = <<>>
    /\ pushing = NoDatum
    /\ pushes = 0
    /\ data_queue = [w \in Writer |-> <<>>]
    /\ sem = [w \in Writer |-> 0]
    /\ wpc = [w \in Writer |-> "wait"]
    /\ eintr = [w \in Writer |-> FALSE]
    /\ rrd_datum = [w \in Writer |-> NoDatum]
    /\ filename = [w \in Writer |-> NoFile]
    /\ template_str = [w \in Writer |-> NoFile]
    /\ to_be_flushed = [w \in Writer |-> NoFile]
    /\ disk = [f \in File |-> 0]
    /\ running = TRUE

-----------------------------------------------------------------------------
(* push_data                                                                *)

\* The id of a name: its entry in the map, or the next free index.
IdOf(map, table, name) ==
    IF name \in DOMAIN map THEN map[name] ELSE Len(table)

\* The map and the table once the name was interned.
MapWith(map, table, name) ==
    [x \in DOMAIN map \cup {name} |-> IdOf(map, table, x)]

\* Variant for mutation: a name that is already known is added again.
TableWith_Again(map, table, name) == Append(table, name)

TableWith(map, table, name) ==
    IF name \in DOMAIN map THEN table ELSE Append(table, name)

\* string_to_long_doubles when strtok_r finds n tokens: as many numbers, or -1
\* when the MAX_DS_PER_FILE slots are used up.  The int is stored in a uint32_t.
\* n need not be the number of values pushed: the first strtok_r is handed the
\* uninitialized `token', and what that points to is anybody's guess.
string_to_long_doubles(n) == (IF n >= MaxDs THEN -1 ELSE n) % UintRange

\* Take `lock', intern the names, convert the values.  assert(num_ds > 0) is the
\* guard: a failed assertion aborts the process.
PushBegin(f, t, time, n) ==
    /\ running
    /\ pushing = NoDatum
    /\ pushes < MaxPush
    /\ string_to_long_doubles(n) > 0
    /\ filename_id_map' = MapWith(filename_id_map, file_info, f)
    /\ file_info' = TableWith(filename_id_map, file_info, f)
    /\ template_id_map' = MapWith(template_id_map, rrd_template, t)
    /\ rrd_template' = TableWith(template_id_map, rrd_template, t)
    /\ pushing' = [time |-> time,
                   filename_id |-> IdOf(filename_id_map, file_info, f),
                   template_id |-> IdOf(template_id_map, rrd_template, t),
                   num_ds |-> string_to_long_doubles(n)]
    /\ pushes' = pushes + 1
    /\ UNCHANGED <<queueVars, writerVars, running>>

\* The queue the file name hashes to.
QueueIndex(datum) == QueueOf[file_info[datum.filename_id + 1]]

\* Variant for mutation: the semaphore is only posted for a queue that was empty.
PushEnd_PostsOnEmpty ==
    /\ running
    /\ pushing # NoDatum
    /\ data_queue' = [data_queue EXCEPT ![QueueIndex(pushing)] = Append(@, pushing)]
    /\ sem' = [sem EXCEPT ![QueueIndex(pushing)] =
                 IF data_queue[QueueIndex(pushing)] = <<>> THEN @ + 1 ELSE @]
    /\ pushing' = NoDatum
    /\ UNCHANGED <<internVars, pushes, writerVars, running>>

\* Queue the datum under the queue's lock, post, release both locks.
PushEnd ==
    /\ running
    /\ pushing # NoDatum
    /\ data_queue' = [data_queue EXCEPT ![QueueIndex(pushing)] = Append(@, pushing)]
    /\ sem' = [sem EXCEPT ![QueueIndex(pushing)] = @ + 1]
    /\ pushing' = NoDatum
    /\ UNCHANGED <<internVars, pushes, writerVars, running>>

-----------------------------------------------------------------------------
(* RRD_Writer_worker::thread_start                                          *)

\* sem_timedwait times out: sync the file marked for it, if any, and wait again.
WriterTimeout(w) ==
    /\ running
    /\ wpc[w] = "wait" /\ sem[w] = 0
    /\ eintr' = [eintr EXCEPT ![w] = FALSE]
    /\ to_be_flushed' = [to_be_flushed EXCEPT ![w] = NoFile]
    /\ UNCHANGED <<internVars, pushing, pushes, queueVars, wpc, rrd_datum, filename,
                   template_str, disk, running>>

\* sem_timedwait is interrupted: wait again.
WriterInterrupted(w) ==
    /\ running
    /\ Interrupts
    /\ wpc[w] = "wait"
    /\ eintr' = [eintr EXCEPT ![w] = TRUE]
    /\ UNCHANGED <<internVars, pushing, pushes, queueVars, wpc, rrd_datum, filename,
                   template_str, to_be_flushed, disk, running>>

\* Variant for mutation: the wait does not block.
WriterToken_NoWait(w) ==
    /\ running
    /\ wpc[w] = "wait"
    /\ sem' = [sem EXCEPT ![w] = @ - 1]
    /\ wpc' = [wpc EXCEPT ![w] = IF eintr[w] THEN "wait" ELSE "token"]
    /\ UNCHANGED <<internVars, pushing, pushes, data_queue, eintr, rrd_datum, filename,
                   template_str, to_be_flushed, disk, running>>

\* sem_timedwait succeeds.  errno is only written by calls that fail, and line
\* 140 tests it without looking at rvalue: after an interruption the token that
\* was just taken is forgotten and the thread waits again.
WriterToken(w) ==
    /\ running
    /\ wpc[w] = "wait" /\ sem[w] > 0
    /\ sem' = [sem EXCEPT ![w] = @ - 1]
    /\ wpc' = [wpc EXCEPT ![w] = IF eintr[w] THEN "wait" ELSE "token"]
    /\ UNCHANGED <<internVars, pushing, pushes, data_queue, eintr, rrd_datum, filename,
                   template_str, to_be_flushed, disk, running>>

\* Variant for mutation: the newest update is taken first.
WriterPop_Last(w) ==
    /\ running
    /\ wpc[w] = "token" /\ data_queue[w] # <<>>
    /\ LET n == Len(data_queue[w]) IN
         /\ rrd_datum' = [rrd_datum EXCEPT ![w] = data_queue[w][n]]
         /\ data_queue' = [data_queue EXCEPT ![w] = SubSeq(@, 1, n - 1)]
    /\ wpc' = [wpc EXCEPT ![w] = "lookup"]
    /\ UNCHANGED <<internVars, pushing, pushes, sem, eintr, filename, template_str,
                   to_be_flushed, disk, running>>

\* front and pop under the queue's lock; front of an empty queue is undefined.
WriterPop(w) ==
    /\ running
    /\ wpc[w] = "token" /\ data_queue[w] # <<>>
    /\ rrd_datum' = [rrd_datum EXCEPT ![w] = Head(data_queue[w])]
    /\ data_queue' = [data_queue EXCEPT ![w] = Tail(@)]
    /\ wpc' = [wpc EXCEPT ![w] = "lookup"]
    /\ UNCHANGED <<internVars, pushing, pushes, sem, eintr, filename, template_str,
                   to_be_flushed, disk, running>>

\* Translate the ids back to names, under the global lock.
WriterLookup(w) ==
    /\ running
    /\ wpc[w] = "lookup" /\ pushing = NoDatum
    /\ filename' = [filename EXCEPT ![w] = file_info[rrd_datum[w].filename_id + 1]]
    /\ template_str' =
          [template_str EXCEPT ![w] = rrd_template[rrd_datum[w].template_id + 1]]
    /\ wpc' = [wpc EXCEPT ![w] = "update"]
    /\ UNCHANGED <<internVars, pushing, pushes, queueVars, eintr, rrd_datum,
                   to_be_flushed, disk, running>>

\* The loop is left for its next turn.  The buffers are dead until they are
\* assigned again (but see WriterStore), so the model clears them.
NextIteration(w) ==
    /\ wpc' = [wpc EXCEPT ![w] = "wait"]
    /\ rrd_datum' = [rrd_datum EXCEPT ![w] = NoDatum]
    /\ filename' = [filename EXCEPT ![w] = NoFile]
    /\ template_str' = [template_str EXCEPT ![w] = NoFile]

\* Variant for mutation: a wish to flush survives a failed update.
WriterFail_KeepFlush(w) ==
    /\ running
    /\ wpc[w] = "update"
    /\ to_be_flushed' = [to_be_flushed EXCEPT ![w] = filename[w]]
    /\ NextIteration(w)
    /\ UNCHANGED <<internVars, pushing, pushes, queueVars, eintr, disk, running>>

\* rrd_update_r fails (an update that is not newer than the file, a missing or
\* unreadable file): the datum is dropped and so is a wish to flush.
WriterFail(w) ==
    /\ running
    /\ wpc[w] = "update"
    /\ NextIteration(w)
    /\ UNCHANGED <<internVars, pushing, pushes, queueVars, eintr, to_be_flushed, disk,
                   running>>

\* rrd_update_r stores the update.  Whether it wants a flush depends on the age
\* of the file of the PREVIOUS iteration (rrd_last_r is called before filename
\* is assigned) and on a random draw, hence either; the one slot is overwritten.
WriterStore(w) ==
    /\ running
    /\ wpc[w] = "update"
    /\ rrd_datum[w].time > disk[filename[w]]
    /\ disk' = [disk EXCEPT ![filename[w]] = rrd_datum[w].time]
    /\ \E require_flush \in BOOLEAN :
         to_be_flushed' = IF require_flush
                          THEN [to_be_flushed EXCEPT ![w] = filename[w]]
                          ELSE to_be_flushed
    /\ NextIteration(w)
    /\ UNCHANGED <<internVars, pushing, pushes, queueVars, eintr, running>>

\* Exit of the process: ~RRD_Writer cancels the threads, what is queued is lost.
Exit ==
    /\ running
    /\ running' = FALSE
    /\ UNCHANGED <<internVars, pushing, pushes, queueVars, writerVars>>

-----------------------------------------------------------------------------
WriterStep(w) == WriterTimeout(w) \/ WriterInterrupted(w) \/ WriterToken(w)
                 \/ WriterPop(w) \/ WriterLookup(w) \/ WriterFail(w) \/ WriterStore(w)

Next ==
    \/ \E f \in File, t \in Template, time \in Time, n \in ValueCounts :
          PushBegin(f, t, time, n)
    \/ PushEnd
    \/ \E w \in Writer : WriterStep(w)
    \/ Exit

Spec == Init /\ [][Next]_vars

\* Threads that can go on do; the global lock is released after a bounded
\* number of instructions, so a writer that keeps asking for it gets it.
Fairness ==
    /\ WF_vars(PushEnd)
    /\ \A w \in Writer :
          /\ WF_vars(WriterToken(w))
          /\ WF_vars(WriterPop(w))
          /\ SF_vars(WriterLookup(w))
          /\ WF_vars(WriterFail(w) \/ WriterStore(w))

FairSpec == Spec /\ Fairness

-----------------------------------------------------------------------------
(* Properties                                                               *)

\* Types of the variables.
TypeOK ==
    /\ DOMAIN filename_id_map \subseteq File
    /\ filename_id_map \in [DOMAIN filename_id_map -> Nat]
    /\ file_info \in Seq(File)
    /\ DOMAIN template_id_map \subseteq Template
    /\ template_id_map \in [DOMAIN template_id_map -> Nat]
    /\ rrd_template \in Seq(Template)
    /\ pushing \in Datum \cup {NoDatum}
    /\ pushes \in 0 .. MaxPush
    /\ data_queue \in [Writer -> Seq(Datum)]
    /\ sem \in [Writer -> Nat]
    /\ wpc \in [Writer -> {"wait", "token", "lookup", "update"}]
    /\ eintr \in [Writer -> BOOLEAN]
    /\ rrd_datum \in [Writer -> Datum \cup {NoDatum}]
    /\ filename \in [Writer -> File \cup {NoFile}]
    /\ template_str \in [Writer -> Template \cup {NoFile}]
    /\ to_be_flushed \in [Writer -> File \cup {NoFile}]
    /\ disk \in [File -> Nat]
    /\ running \in BOOLEAN

\* A writer that got a token finds a datum (rrd_writer.cpp:156), even when an
\* interrupted wait made it forget earlier tokens.
NoEmptyPop == \A w \in Writer : wpc[w] = "token" => data_queue[w] # <<>>

\* Map and table of interned names are inverse to each other.
Interned(map, table) ==
    /\ \A x \in DOMAIN map : map[x] \in 0 .. Len(table) - 1 /\ table[map[x] + 1] = x
    /\ \A i \in 1 .. Len(table) : table[i] \in DOMAIN map /\ map[table[i]] = i - 1

\* The ids of a datum are indices of the tables.
IdsInRange(d) ==
    /\ d.filename_id \in 0 .. Len(file_info) - 1
    /\ d.template_id \in 0 .. Len(rrd_template) - 1

\* Names become ids and ids names without loss: a name has one id for the life
\* of the process, and every id a datum carries, from push_data's lock to the
\* writer's lookup under another acquisition of it, names an entry
\* (rrd_writer.cpp:174-175, 381-401).
IdsResolve ==
    /\ Interned(filename_id_map, file_info)
    /\ Interned(template_id_map, rrd_template)
    /\ pushing # NoDatum => IdsInRange(pushing)
    /\ \A w \in Writer :
          /\ \A i \in 1 .. Len(data_queue[w]) : IdsInRange(data_queue[w][i])
          /\ wpc[w] = "lookup" => IdsInRange(rrd_datum[w])

\* What the writer hands to librrd and what it keeps for a later fsync are files
\* of its own queue, so no two writers ever have the same rrd file open
\* (rrd_writer.cpp:174, 208, 244), and only a stored update is ever synced.
WriterOwnsFiles ==
    \A w \in Writer :
        /\ wpc[w] = "update" => QueueOf[filename[w]] = w
        /\ to_be_flushed[w] # NoFile =>
              QueueOf[to_be_flushed[w]] = w /\ disk[to_be_flushed[w]] > 0

\* The inductive invariant behind the three: a queue holds at least as many data
\* as it has tokens, given out or not, and only data of files that hash to it.
TokensCovered ==
    \A w \in Writer :
        Len(data_queue[w]) >= sem[w] + (IF wpc[w] = "token" THEN 1 ELSE 0)

QueuedWhereHashed ==
    \A w \in Writer :
        /\ \A i \in 1 .. Len(data_queue[w]) : QueueIndex(data_queue[w][i]) = w
        /\ wpc[w] = "lookup" => rrd_datum[w] # NoDatum /\ QueueIndex(rrd_datum[w]) = w
        /\ wpc[w] = "update" => rrd_datum[w] # NoDatum /\ filename[w] # NoFile

\* The strengthening of the safety properties that every step preserves.
IInv == TypeOK /\ IdsResolve /\ TokensCovered /\ QueuedWhereHashed /\ WriterOwnsFiles

\* What a datum's ids stand for.
Named(d) == [file |-> file_info[d.filename_id + 1], time |-> d.time,
             template |-> rrd_template[d.template_id + 1]]

\* What writer w has still to try: the update in its hands, if any, then its queue.
\* The datum that push_data is about to queue does not count yet.
Stream(w) ==
    (CASE wpc[w] = "lookup" -> << Named(rrd_datum[w]) >>
       [] wpc[w] = "update" -> << [file |-> filename[w], time |-> rrd_datum[w].time,
                                   template |-> template_str[w]] >>
       [] OTHER -> <<>>)
    \o [i \in DOMAIN data_queue[w] |-> Named(data_queue[w][i])]

\* The updates of f up to each position of a stream, and in all of it.
UpdatesTo(f, s) ==
    LET u[i \in 0 .. Len(s)] ==
            IF i = 0 THEN <<>>
            ELSE IF s[i].file = f
                 THEN Append(u[i - 1], [time |-> s[i].time, template |-> s[i].template])
                 ELSE u[i - 1]
    IN u

UpdatesOf(f, s) == UpdatesTo(f, s)[Len(s)]

\* The updates of f that were pushed and not yet tried.
Pending(f) == UpdatesOf(f, Stream(QueueOf[f]))

\* The pending updates, file by file, are the state of the abstract log.
Log == INSTANCE UpdateLog WITH pending <- [f \in File |-> Pending(f)]

\* The queues, ids and threads implement one FIFO per file: no update is tried out of
\* order, twice or for another file, and none is removed without being tried.  A token
\* forgotten after an interrupted wait leaves an update queued, behind which the
\* others keep their order (rrd_writer.cpp:120-250, 345-445).
KeepsUpdateLog == Log!SafeSpec

\* errno is still EINTR when there is a token to take: only a call that fails changes
\* errno and no call will, so this token is forgotten.
StaleErrno(w) == eintr[w] /\ sem[w] > 0

\* Every accepted update of a file is tried in the end, unless the process exits or
\* its writer forgets a token: nothing but a stale errno (rrd_writer.cpp:140) keeps an
\* update in its queue, whatever the other files of the queue and other writers do.
TriedUnlessForgotten ==
    \A f \in File : <>StaleErrno(QueueOf[f]) \/ Log!Tried(f)
=============================================================================
