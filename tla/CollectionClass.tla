--------------------------- MODULE CollectionClass ---------------------------
(***************************************************************************)
(* The threads of one SQL_Collection_Class (src/src/collection_class.cpp). *)
(*                                                                         *)
(*  - the MAIN thread (detached) wakes every interval and, if the queue of *)
(*    pending host indices is empty, queues every host and posts           *)
(*    worker_semaphore once per host;                                      *)
(*  - the WORKERS (joinable) take one token of worker_semaphore, pop one   *)
(*    index under `lock', and poll that host while holding one slot of the *)
(*    global session_semaphore; the index -1 is the poison pill;           *)
(*  - the CONFIG thread (the daemon's main thread) constructs, initializes *)
(*    and destroys the object; the destructor runs finalize().             *)
(*                                                                         *)
(* pthread_cancel is deferred: the main thread only dies at a cancellation *)
(* point.  pthread_mutex_lock is not one, nanosleep is, and POSIX lets the *)
(* calls that print_log makes (syslog, stdio) be one: LogCancels.          *)
(***************************************************************************)
EXTENDS Integers, Sequences, FiniteSets

CONSTANTS
    NumHosts,        \* host.size()
    MaxWorkers,      \* max_num_workers, 200 in the code
    SessionSlots,    \* initial value of session_semaphore, 800 in the code
    LogCancels,      \* does print_log contain a cancellation point?
    Main, Config,    \* the two threads that hold `lock' over several steps
    Nobody           \* `lock' is free

ASSUME NumHostsAssumption == NumHosts \in Nat
ASSUME MaxWorkersAssumption == MaxWorkers \in Nat \ {0}
ASSUME SessionSlotsAssumption == SessionSlots \in Nat \ {0}
ASSUME LogCancelsAssumption == LogCancels \in BOOLEAN
ASSUME ThreadsDistinct == Main # Config /\ Main # Nobody /\ Config # Nobody

Host == 0 .. NumHosts - 1
NumWorkers == IF MaxWorkers > NumHosts THEN NumHosts ELSE MaxWorkers
Worker == 0 .. NumWorkers - 1
Pill == -1

VARIABLES
    queue,          \* pending_host_index_queue
    sem,            \* value of worker_semaphore
    lock,           \* holder of `lock': Main, Config or Nobody
    sessions,       \* value of session_semaphore
    mainPc,         \* where the main thread is
    mainI,          \* its loop variable i
    cancelPending,  \* pthread_cancel(main_thread) was called
    wpc,            \* where each worker is
    widx,           \* each worker's collection_index
    cpc,            \* where the config thread is
    cfgI            \* its loop variable i

vars == <<queue, sem, lock, sessions, mainPc, mainI, cancelPending,
          wpc, widx, cpc, cfgI>>

mainVars == <<mainPc, mainI>>
workerVars == <<wpc, widx, sessions>>
configVars == <<cpc, cfgI, cancelPending>>

-----------------------------------------------------------------------------
(* Construction and initialize().                                           *)

\* The constructor: empty queue, semaphore at 0, no thread.
Init ==
    /\ queue = <<>>
    /\ sem = 0
    /\ lock = Nobody
    /\ sessions = SessionSlots
    /\ mainPc = "none"
    /\ mainI = 0
    /\ cancelPending = FALSE
    /\ wpc = [w \in Worker |-> "none"]
    /\ widx = [w \in Worker |-> Pill]
    /\ cpc = "new"
    /\ cfgI = 0

\* initialize(): create min(max_num_workers, host.size()) joinable workers,
\* then the detached main thread.  Nothing a new thread can do depends on the
\* rest of initialize(), so the creations are one step.
Initialize ==
    /\ cpc = "new"
    /\ cpc' = "running"
    /\ wpc' = [w \in Worker |-> "wait"]
    /\ mainPc' = "log"
    /\ UNCHANGED <<queue, sem, lock, sessions, mainI, cancelPending, widx, cfgI>>

-----------------------------------------------------------------------------
(* The main thread: SQL_Collection_Class::thread_start.                     *)

\* print_log at the top of the loop; it touches nothing of the object.
MainLog ==
    /\ mainPc = "log"
    /\ mainPc' = "lock"
    /\ UNCHANGED <<queue, sem, lock, mainI, workerVars, configVars>>

\* Variant for mutation: the empty-queue test is dropped.
MainLock_NoEmptyTest ==
    /\ mainPc = "lock"
    /\ cpc # "destroyed"
    /\ lock = Nobody
    /\ lock' = Main
    /\ mainPc' = "push"
    /\ mainI' = 0
    /\ UNCHANGED <<queue, sem, workerVars, configVars>>

\* Take the mutex and look at the queue.  A queue that still holds indices
\* means the last round is not finished: warn (inside the critical section)
\* and skip this round.
MainLock ==
    /\ mainPc = "lock"
    /\ cpc # "destroyed"
    /\ lock = Nobody
    /\ lock' = Main
    /\ mainPc' = IF queue # <<>> THEN "warn" ELSE "push"
    /\ mainI' = 0
    /\ UNCHANGED <<queue, sem, workerVars, configVars>>

\* Variant for mutation: the loop runs one host too far.
MainPush_OffByOne ==
    /\ mainPc = "push"
    /\ cpc # "destroyed"
    /\ mainI <= NumHosts
    /\ queue' = Append(queue, mainI)
    /\ sem' = sem + 1
    /\ mainI' = mainI + 1
    /\ UNCHANGED <<lock, mainPc, workerVars, configVars>>

\* One turn of the for loop: queue host i and post its token.  Workers see the
\* token before the mutex is released.
MainPush ==
    /\ mainPc = "push"
    /\ cpc # "destroyed"
    /\ mainI < NumHosts
    /\ queue' = Append(queue, mainI)
    /\ sem' = sem + 1
    /\ mainI' = mainI + 1
    /\ UNCHANGED <<lock, mainPc, workerVars, configVars>>

\* end_critical_section: unlock, log, compute the delay, enter nanosleep.
MainUnlock ==
    /\ \/ mainPc = "push" /\ mainI = NumHosts
       \/ mainPc = "warn"
    /\ cpc # "destroyed"
    /\ lock' = Nobody
    /\ mainPc' = "sleep"
    /\ UNCHANGED <<queue, sem, mainI, workerVars, configVars>>

\* nanosleep returns and the drift of the delay is corrected.  A thread that
\* sleeps with a cancellation pending does not return from nanosleep.
MainWake ==
    /\ mainPc = "sleep"
    /\ ~cancelPending
    /\ mainPc' = "log"
    /\ UNCHANGED <<queue, sem, lock, mainI, workerVars, configVars>>

\* Where deferred cancellation may act.
CancellationPoint == {"sleep"} \cup (IF LogCancels THEN {"log", "warn"} ELSE {})

\* The thread dies at a cancellation point.  It installs no cleanup handler, so
\* `lock' stays as it is.
MainCancelled ==
    /\ cancelPending
    /\ mainPc \in CancellationPoint
    /\ mainPc' = "gone"
    /\ UNCHANGED <<queue, sem, lock, mainI, workerVars, configVars>>

\* The object is gone and the main thread uses one of its members: undefined
\* behaviour, of which nothing more is said than that it was reached.
MainTouchesFreed ==
    /\ cpc = "destroyed"
    /\ mainPc \in {"lock", "push", "warn"}
    /\ mainPc' = "undefined"
    /\ UNCHANGED <<queue, sem, lock, mainI, workerVars, configVars>>

-----------------------------------------------------------------------------
(* The workers: Collection_worker::thread_start.                            *)

\* sem_wait(&parent->worker_semaphore).
WorkerSemWait(w) ==
    /\ wpc[w] = "wait"
    /\ sem > 0
    /\ sem' = sem - 1
    /\ wpc' = [wpc EXCEPT ![w] = "token"]
    /\ UNCHANGED <<queue, lock, sessions, mainVars, widx, configVars>>

\* lock; front; pop; unlock.  The queue is only ever used under `lock', so this
\* is one step.  front() of an empty queue is undefined: the step has no
\* successor then, and NoEmptyPop says that never happens.
WorkerPop(w) ==
    /\ wpc[w] = "token"
    /\ lock = Nobody
    /\ queue # <<>>
    /\ widx' = [widx EXCEPT ![w] = Head(queue)]
    /\ queue' = Tail(queue)
    /\ wpc' = [wpc EXCEPT ![w] = IF Head(queue) = Pill THEN "exit" ELSE "session"]
    /\ UNCHANGED <<sem, lock, sessions, mainVars, configVars>>

\* sem_wait(parent->session_semaphore), then get_collect begins.
WorkerSession(w) ==
    /\ wpc[w] = "session"
    /\ sessions > 0
    /\ sessions' = sessions - 1
    /\ wpc' = [wpc EXCEPT ![w] = "collect"]
    /\ UNCHANGED <<queue, sem, lock, mainVars, widx, configVars>>

\* Variant for mutation: the session slot is not given back.
WorkerCollected_NoPost(w) ==
    /\ wpc[w] = "collect"
    /\ sessions' = sessions
    /\ wpc' = [wpc EXCEPT ![w] = "wait"]
    /\ UNCHANGED <<queue, sem, lock, mainVars, widx, configVars>>

\* get_collect returns, whatever its outcome, and the slot is posted.
WorkerCollected(w) ==
    /\ wpc[w] = "collect"
    /\ sessions' = sessions + 1
    /\ wpc' = [wpc EXCEPT ![w] = "wait"]
    /\ UNCHANGED <<queue, sem, lock, mainVars, widx, configVars>>

-----------------------------------------------------------------------------
(* The destructor and finalize(), run by the config thread.                 *)

\* A class that was never initialized: finalize() returns at once.
DestroyUninitialized ==
    /\ cpc = "new"
    /\ cpc' = "destroyed"
    /\ UNCHANGED <<queue, sem, lock, mainVars, workerVars, cancelPending, cfgI>>

\* The destructor of an initialized class calls finalize().
FinalizeBegin ==
    /\ cpc = "running"
    /\ cpc' = "finalize"
    /\ UNCHANGED <<queue, sem, lock, mainVars, workerVars, cancelPending, cfgI>>

FinalizeLock ==
    /\ cpc = "finalize"
    /\ lock = Nobody
    /\ lock' = Config
    /\ cpc' = "cancel"
    /\ UNCHANGED <<queue, sem, mainVars, workerVars, cancelPending, cfgI>>

\* pthread_cancel(main_thread): asynchronous, nobody waits for its effect.
FinalizeCancel ==
    /\ cpc = "cancel"
    /\ cancelPending' = TRUE
    /\ cpc' = "drain"
    /\ UNCHANGED <<queue, sem, lock, mainVars, workerVars, cfgI>>

\* Variant for mutation: hosts still queued are left in front of the pills.
FinalizeDrain_KeepHosts ==
    /\ cpc = "drain"
    /\ cfgI' = 0
    /\ cpc' = "pills"
    /\ UNCHANGED <<queue, sem, lock, mainVars, workerVars, cancelPending>>

\* Empty the queue.  The tokens of the dropped indices stay in the semaphore.
FinalizeDrain ==
    /\ cpc = "drain"
    /\ queue' = <<>>
    /\ cfgI' = 0
    /\ cpc' = "pills"
    /\ UNCHANGED <<sem, lock, mainVars, workerVars, cancelPending>>

\* One turn of the loop that queues a pill per worker.
FinalizePill ==
    /\ cpc = "pills"
    /\ cfgI < NumWorkers
    /\ queue' = Append(queue, Pill)
    /\ sem' = sem + 1
    /\ cfgI' = cfgI + 1
    /\ UNCHANGED <<lock, mainVars, workerVars, cpc, cancelPending>>

\* Variant for mutation: one pill too few.
FinalizeUnlock_OnePillShort ==
    /\ cpc = "pills"
    /\ cfgI = NumWorkers - 1
    /\ lock' = Nobody
    /\ cfgI' = 0
    /\ cpc' = "join"
    /\ UNCHANGED <<queue, sem, mainVars, workerVars, cancelPending>>

FinalizeUnlock ==
    /\ cpc = "pills"
    /\ cfgI = NumWorkers
    /\ lock' = Nobody
    /\ cfgI' = 0
    /\ cpc' = "join"
    /\ UNCHANGED <<queue, sem, mainVars, workerVars, cancelPending>>

\* pthread_join(worker[i]), in index order.
FinalizeJoin ==
    /\ cpc = "join"
    /\ cfgI < NumWorkers
    /\ wpc[cfgI] = "exit"
    /\ cfgI' = cfgI + 1
    /\ UNCHANGED <<queue, sem, lock, mainVars, workerVars, cpc, cancelPending>>

\* Every worker is joined: finalize() returns and the object is freed.  The
\* detached main thread is not waited for.
FinalizeReturn ==
    /\ cpc = "join"
    /\ cfgI = NumWorkers
    /\ cpc' = "destroyed"
    /\ UNCHANGED <<queue, sem, lock, mainVars, workerVars, cancelPending, cfgI>>

-----------------------------------------------------------------------------
MainStep == MainLog \/ MainLock \/ MainPush \/ MainUnlock \/ MainWake
            \/ MainCancelled \/ MainTouchesFreed

WorkerStep(w) == WorkerSemWait(w) \/ WorkerPop(w) \/ WorkerSession(w)
                 \/ WorkerCollected(w)

FinalizeStep == FinalizeLock \/ FinalizeCancel \/ FinalizeDrain \/ FinalizePill
                \/ FinalizeUnlock \/ FinalizeJoin \/ FinalizeReturn

\* The main thread was cancelled inside its critical section: nobody will ever
\* release `lock'.
LockAbandoned == mainPc = "gone" /\ lock = Main

\* All that is left of the object is the memory a late main thread may touch; or
\* workers and finalize() wait for an abandoned mutex.
Terminated ==
    /\ \/ cpc = "destroyed" /\ mainPc \in {"none", "gone", "undefined"}
       \/ LockAbandoned
    /\ UNCHANGED vars

Next ==
    \/ Initialize
    \/ MainStep
    \/ \E w \in Worker : WorkerStep(w)
    \/ DestroyUninitialized
    \/ FinalizeBegin
    \/ FinalizeStep
    \/ Terminated

Spec == Init /\ [][Next]_vars

\* Every thread that can go on does.  Acquiring `lock' or a semaphore needs
\* strong fairness: it is only intermittently available, but the critical
\* sections are a few instructions and the thread that refills the queue sleeps
\* for the interval between two of them.  get_collect ends: each SNMP request
\* has a timeout.  Nothing obliges the daemon to initialize or to destroy.
Fairness ==
    /\ WF_vars(MainLog) /\ WF_vars(MainPush) /\ WF_vars(MainUnlock)
    /\ WF_vars(MainWake) /\ WF_vars(MainCancelled)
    /\ SF_vars(MainLock)
    /\ \A w \in Worker :
          /\ SF_vars(WorkerSemWait(w))
          /\ SF_vars(WorkerPop(w))
          /\ SF_vars(WorkerSession(w))
          /\ WF_vars(WorkerCollected(w))
    /\ SF_vars(FinalizeLock)
    /\ WF_vars(FinalizeStep)

FairSpec == Spec /\ Fairness

-----------------------------------------------------------------------------
(* Properties.                                                              *)

MainPcs == {"none", "log", "lock", "push", "warn", "sleep", "gone", "undefined"}
WorkerPcs == {"none", "wait", "token", "session", "collect", "exit"}
ConfigPcs == {"new", "running", "finalize", "cancel", "drain", "pills",
              "join", "destroyed"}

\* Types of the variables; the semaphores are never negative.
TypeOK ==
    /\ queue \in Seq(Host \cup {Pill})
    /\ sem \in Nat
    /\ lock \in {Main, Config, Nobody}
    /\ sessions \in 0 .. SessionSlots
    /\ mainPc \in MainPcs
    /\ mainI \in 0 .. NumHosts
    /\ cancelPending \in BOOLEAN
    /\ wpc \in [Worker -> WorkerPcs]
    /\ widx \in [Worker -> Host \cup {Pill}]
    /\ cpc \in ConfigPcs
    /\ cfgI \in 0 .. NumWorkers

\* A worker that was given a token and can take the mutex finds something in
\* the queue: pending_host_index_queue.front() is never called on an empty
\* queue (collection_class.cpp:481), although finalize() empties the queue
\* without taking the dropped indices' tokens out of the semaphore.
NoEmptyPop ==
    \A w \in Worker :
        wpc[w] = "token" /\ lock = Nobody => queue # <<>>

\* A host index is never queued twice at the same time: the main thread skips a
\* round rather than queueing a host that still waits (collection_class.cpp:608).
QueuedOnce ==
    \A i, j \in 1 .. Len(queue) :
        i # j /\ queue[i] # Pill => queue[i] # queue[j]

\* The workers inside get_collect.
Collecting == {w \in Worker : wpc[w] = "collect"}

\* Slots of the global session_semaphore are neither lost nor created: the free
\* ones and the ones held by polling workers always add up
\* (collection_class.cpp:492-496).
SessionsConserved == sessions + Cardinality(Collecting) = SessionSlots

\* Once finalize() has queued the pills and released the mutex, no worker takes
\* up another host, whatever a late main thread still queues: the pops of that
\* phase only return pills (collection_class.cpp:487, 608, 670-680).
NoCollectionAfterFinalize ==
    [][\A w \in Worker :
          cpc \in {"join", "destroyed"} /\ wpc[w] = "token" => wpc'[w] # "session"]_vars

\* Every host is polled again and again until the class is told to finalize:
\* skipped rounds, busy workers and a full session semaphore only delay it.
PollingContinues ==
    \A h \in Host :
        []<>(cpc # "running" \/ \E w \in Collecting : widx[w] = h)

\* finalize() ends, the pills reach every worker and every join returns, in every
\* case but one: a main thread that was cancelled in the print_log of line 609
\* keeps `lock', and the join of a worker that still needs it never returns
\* (collection_class.cpp:608-612, 670-686).
FinalizeTerminates == cpc = "finalize" ~> (cpc = "destroyed" \/ LockAbandoned)

\* What the comment on SQL_Host::timeticks and mytime asks for ("one per thread
\* to avoid locks.", collection_class.hpp:84): no two workers poll the same
\* host, so that get_collect may use those fields without a lock.
HostPolledByOneWorker ==
    \A v, w \in Collecting : v # w => widx[v] # widx[w]

\* What Snapp_config promises of its cleanup ("Provides cleanup for all objects
\* created (including threads).", snapp_config.hpp:46): no thread of the class
\* uses the object after it was destroyed.
NoUseAfterDestroy == mainPc # "undefined"
-----------------------------------------------------------------------------
(* The inductive invariant behind NoEmptyPop, QueuedOnce, SessionsConserved  *)
(* and NoCollectionAfterFinalize.                                           *)

\* Workers that own a token of worker_semaphore and have not popped yet.
TokenHolders == {w \in Worker : wpc[w] = "token"}

\* Workers that have not taken a pill.
Live == {w \in Worker : wpc[w] # "exit"}

\* A thread inside its critical section holds `lock'.  The converse fails for a
\* main thread that was cancelled there: it keeps the mutex for ever.
LockHeld ==
    /\ mainPc \in {"push", "warn"} => lock = Main
    /\ cpc \in {"cancel", "drain", "pills"} <=> lock = Config

\* Hosts wait in index order, without repetition; the loop of the main thread
\* has queued only hosts below i.
HostsInOrder ==
    /\ \A i, j \in 1 .. Len(queue) :
          i < j /\ queue[i] # Pill => queue[i] < queue[j]
    /\ mainPc = "push" => \A i \in 1 .. Len(queue) : queue[i] < mainI
    /\ mainPc = "push" => \A i \in 1 .. Len(queue) : queue[i] # Pill

\* Until finalize() drains the queue, tokens and queued indices correspond one
\* to one, every index is a host, and no worker has left.
TokensMatchQueue ==
    cpc \in {"new", "running", "finalize", "cancel", "drain"} =>
        /\ Len(queue) = sem + Cardinality(TokenHolders)
        /\ \A i \in 1 .. Len(queue) : queue[i] # Pill
        /\ \A w \in Worker : wpc[w] # "exit"

\* While finalize() queues the pills, the queue holds just those.
PillsBeingQueued ==
    cpc = "pills" =>
        /\ Len(queue) = cfgI
        /\ \A i \in 1 .. Len(queue) : queue[i] = Pill
        /\ \A w \in Worker : wpc[w] # "exit"

\* Afterwards there is one pill for every worker that is still alive, as long as
\* there is one; a late main thread only finds the queue empty when none is.
PillPerLiveWorker ==
    cpc = "join" \/ (cpc = "destroyed" /\ mainPc # "none") =>
        \/ Live = {}
        \/ /\ Len(queue) = Cardinality(Live)
           /\ \A i \in 1 .. Len(queue) : queue[i] = Pill
           /\ mainPc # "push"

\* Threads exist from initialize() on; only joined workers are skipped.
ThreadsStarted ==
    /\ cpc = "new" => mainPc = "none"
    /\ cpc \notin {"new", "destroyed"} => \A w \in Worker : wpc[w] # "none"
    /\ mainPc = "none" => \A w \in Worker : wpc[w] = "none"
    /\ cpc = "join" => \A w \in 0 .. cfgI - 1 : wpc[w] = "exit"
    /\ cpc = "destroyed" => \A w \in Worker : wpc[w] \in {"none", "exit"}

\* The strengthening of the safety properties that every step preserves.
IInv ==
    /\ TypeOK
    /\ LockHeld
    /\ HostsInOrder
    /\ TokensMatchQueue
    /\ PillsBeingQueued
    /\ PillPerLiveWorker
    /\ ThreadsStarted
    /\ SessionsConserved
=============================================================================
