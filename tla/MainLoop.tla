------------------------------ MODULE MainLoop ------------------------------
(***************************************************************************)
(* The life of a configuration: the daemon's main thread and its signal    *)
(* thread (src/src/sql-collector.cpp), and what the control workers do     *)
(* with the current configuration (src/src/snapp_control.cpp).             *)
(*                                                                         *)
(*  - MAIN loads and starts a Snapp_config, waits on reload_cond for at    *)
(*    most 7200 s, then loads a new one, starts it, and only then deletes  *)
(*    the old one and publishes the new one, under config_mutex;           *)
(*  - the SIGNAL thread sigwaits and signals reload_cond;                  *)
(*  - a CLIENT, a control worker that executes a command, reads the        *)
(*    current pointer under config_mutex: `reload' remembers it, sends     *)
(*    SIGHUP to the signal thread and polls until the pointer changes,     *)
(*    `status' dereferences it.                                            *)
(*                                                                         *)
(* reload_lock needs no variable: main holds it from the return of its     *)
(* wait to the start of a reload, and the signal thread only locks and     *)
(* unlocks it.  Configurations are their addresses; an address may be      *)
(* given out again once it was freed.                                      *)
(***************************************************************************)
EXTENDS Integers, FiniteSets

CONSTANTS
    Addr,       \* addresses `new Snapp_config' may return
    Client,     \* control workers
    WaitSecs,   \* wait_secs of do_reload, 55 in the code
    Main,       \* the main thread, as holder of config_mutex
    Nobody,     \* config_mutex is free
    Null        \* no configuration

ASSUME AddrAssumption == IsFiniteSet(Addr) /\ Cardinality(Addr) >= 2 /\ Null \notin Addr
ASSUME WaitSecsAssumption == WaitSecs \in Nat \ {0}
ASSUME HoldersAssumption == Main \notin Client /\ Nobody \notin Client /\ Main # Nobody

VARIABLES
    pc,           \* where main is
    spc,          \* where the signal thread is
    system_done,  \* a SIGTERM was taken
    pending,      \* signals that are pending: a set, equal ones coalesce
    config_mutex, \* its holder
    live,         \* addresses of configurations that are allocated
    ready,        \* the ones whose init_config succeeded: they poll
    current_config, new_config,  \* main's two pointers
    stale,        \* a reload was asked for since the last load_config (history)
    cpc,          \* where each client is
    old, seen,    \* do_reload's current_config and new_config
    polls,        \* its loop variable i
    moved         \* the pointer was replaced since `reload' (history)

configVars == <<live, ready, current_config, new_config>>
clientVars == <<cpc, old, seen, polls>>
signalVars == <<spc, system_done, pending>>
vars == <<pc, signalVars, config_mutex, configVars, stale, clientVars, moved>>

\* "HUP" may come from outside; "RELOAD" is the SIGHUP that pthread_kill directs
\* at the signal thread, which is pending separately.
Signal == {"HUP", "TERM", "INT", "RELOAD"}
Hup == {"HUP", "RELOAD"}

\* start_signaling_handler has run; nothing is loaded yet.
Init ==
    /\ pc = "start"
    /\ spc = "sigwait"
    /\ system_done = FALSE
    /\ pending = {}
    /\ config_mutex = Nobody
    /\ live = {} /\ ready = {}
    /\ current_config = Null /\ new_config = Null
    /\ stale = FALSE
    /\ cpc = [c \in Client |-> "idle"]
    /\ old = [c \in Client |-> Null] /\ seen = [c \in Client |-> Null]
    /\ polls = [c \in Client |-> 0]
    /\ moved = [c \in Client |-> FALSE]

Exited == pc = "exited"
ReloadLockHeld == pc \in {"woken", "done", "return"}

-----------------------------------------------------------------------------
(* main                                                                     *)

\* The first load_config; from then on controller.initialize serves clients,
\* although init_config has not run.
StartLoad(a) ==
    /\ pc = "start"
    /\ live' = {a} /\ current_config' = a
    /\ pc' = "startinit"
    /\ UNCHANGED <<signalVars, config_mutex, ready, new_config, stale, clientVars, moved>>

StartInit ==
    /\ pc = "startinit"
    /\ ready' = {current_config}
    /\ pc' = "loop"
    /\ UNCHANGED <<signalVars, config_mutex, live, current_config, new_config, stale,
                   clientVars, moved>>

\* The first load_config or init_config fails or exits: the process ends.
StartFails ==
    /\ pc \in {"start", "startinit"}
    /\ pc' = "exited"
    /\ UNCHANGED <<signalVars, config_mutex, configVars, stale, clientVars, moved>>

\* pthread_mutex_lock(&reload_lock) and pthread_cond_timedwait, which gives the
\* mutex back while it waits.
Wait ==
    /\ pc = "loop"
    /\ pc' = "waiting"
    /\ UNCHANGED <<signalVars, config_mutex, configVars, stale, clientVars, moved>>

\* Variant for mutation: a timeout only waits again.
Timeout_WaitsAgain ==
    /\ pc = "waiting"
    /\ pc' = "loop"
    /\ UNCHANGED <<signalVars, config_mutex, configVars, stale, clientVars, moved>>

\* ETIMEDOUT: reload.  system_done is not looked at.
Timeout ==
    /\ pc = "waiting"
    /\ pc' = "reload"
    /\ UNCHANGED <<signalVars, config_mutex, configVars, stale, clientVars, moved>>

\* pthread_cond_timedwait may return without a signal.
SpuriousWakeup ==
    /\ pc = "waiting"
    /\ pc' = "woken"
    /\ UNCHANGED <<signalVars, config_mutex, configVars, stale, clientVars, moved>>

\* The wait returned 0: end (with reload_lock held) or unlock and reload.
Woken ==
    /\ pc = "woken"
    /\ pc' = IF system_done THEN "done" ELSE "reload"
    /\ UNCHANGED <<signalVars, config_mutex, configVars, stale, clientVars, moved>>

\* new Snapp_config and load_config.
LoadConfig(a) ==
    /\ pc = "reload"
    /\ a \notin live
    /\ live' = live \cup {a}
    /\ new_config' = a
    /\ stale' = FALSE
    /\ pc' = "init"
    /\ UNCHANGED <<signalVars, config_mutex, ready, current_config, clientVars, moved>>

\* load_config does not return: connect_to_db calls exit() without a dbi driver, and
\* load_xml_config asserts the attributes it needs.
LoadExits ==
    /\ pc = "reload"
    /\ pc' = "exited"
    /\ UNCHANGED <<signalVars, config_mutex, configVars, stale, clientVars, moved>>

\* load_config fails (no database, a file that is no XML): the new object is deleted.
LoadFails ==
    /\ pc = "reload"
    /\ stale' = FALSE
    /\ pc' = "loop"
    /\ UNCHANGED <<signalVars, config_mutex, configVars, clientVars, moved>>

\* init_config: the new configuration polls, and so does the current one.
InitConfig ==
    /\ pc = "init"
    /\ ready' = ready \cup {new_config}
    /\ pc' = "swaplock"
    /\ UNCHANGED <<signalVars, config_mutex, live, current_config, new_config, stale,
                   clientVars, moved>>

\* Variant for mutation: the failed configuration is not deleted.
InitFails_NoDelete ==
    /\ pc = "init"
    /\ new_config' = Null
    /\ pc' = "loop"
    /\ UNCHANGED <<signalVars, config_mutex, live, ready, current_config, stale,
                   clientVars, moved>>

\* Variant for mutation: the `continue' is missing.
InitFails_FallsThrough ==
    /\ pc = "init"
    /\ live' = live \ {new_config}
    /\ pc' = "swaplock"
    /\ UNCHANGED <<signalVars, config_mutex, ready, current_config, new_config, stale,
                   clientVars, moved>>

\* init_config fails: the new object is deleted, the current one stays.
InitFails ==
    /\ pc = "init"
    /\ live' = live \ {new_config}
    /\ new_config' = Null
    /\ pc' = "loop"
    /\ UNCHANGED <<signalVars, config_mutex, ready, current_config, stale, clientVars,
                   moved>>

\* Variant for mutation: the old configuration is deleted without the mutex.
SwapLock_NoMutex ==
    /\ pc = "swaplock"
    /\ pc' = "swap"
    /\ UNCHANGED <<signalVars, config_mutex, configVars, stale, clientVars, moved>>

SwapLock ==
    /\ pc = "swaplock"
    /\ config_mutex = Nobody
    /\ config_mutex' = Main
    /\ pc' = "swap"
    /\ UNCHANGED <<signalVars, configVars, stale, clientVars, moved>>

\* delete current_config: its classes are finalized, which takes a while.
SwapDelete ==
    /\ pc = "swap"
    /\ live' = live \ {current_config}
    /\ ready' = ready \ {current_config}
    /\ pc' = "publish"
    /\ UNCHANGED <<signalVars, config_mutex, current_config, new_config, stale,
                   clientVars, moved>>

\* current_config = new_config, and unlock.
SwapPublish ==
    /\ pc = "publish"
    /\ current_config' = new_config
    /\ new_config' = Null
    /\ config_mutex' = Nobody
    /\ moved' = [c \in Client |-> cpc[c] \in {"kill", "poll"}]
    /\ pc' = "loop"
    /\ UNCHANGED <<signalVars, live, ready, stale, clientVars>>

\* done: delete current_config, without config_mutex, then return.
Done ==
    /\ pc = "done"
    /\ live' = live \ {current_config}
    /\ ready' = ready \ {current_config}
    /\ pc' = "return"
    /\ UNCHANGED <<signalVars, config_mutex, current_config, new_config, stale,
                   clientVars, moved>>

Return ==
    /\ pc = "return"
    /\ pc' = "exited"
    /\ UNCHANGED <<signalVars, config_mutex, configVars, stale, clientVars, moved>>

-----------------------------------------------------------------------------
(* Signals, and signal_handling_func                                        *)

\* Somebody sends the process a signal.
Kill(s) ==
    /\ ~Exited
    /\ s # "RELOAD"
    /\ pending' = pending \cup {s}
    /\ stale' = (stale \/ s \in Hup)
    /\ UNCHANGED <<pc, spc, system_done, config_mutex, configVars, clientVars, moved>>

\* sigwait returns SIGHUP.
TakeHup(s) ==
    /\ ~Exited
    /\ spc = "sigwait" /\ s \in pending \cap Hup
    /\ pending' = pending \ {s}
    /\ spc' = "hup"
    /\ UNCHANGED <<pc, system_done, config_mutex, configVars, stale, clientVars, moved>>

\* Lock and unlock reload_lock: once main is done this blocks for ever.
HupLock ==
    /\ ~Exited
    /\ spc = "hup"
    /\ ~ReloadLockHeld
    /\ spc' = "signal"
    /\ UNCHANGED <<pc, system_done, pending, config_mutex, configVars, stale, clientVars,
                   moved>>

\* Variant for mutation: a second SIGTERM is handled like the first.
TakeTerm_Again ==
    /\ ~Exited
    /\ spc = "sigwait" /\ "TERM" \in pending
    /\ pending' = pending \ {"TERM"}
    /\ system_done' = TRUE
    /\ spc' = "signal"
    /\ UNCHANGED <<pc, config_mutex, configVars, stale, clientVars, moved>>

\* sigwait returns SIGTERM: the first one sets system_done, the second exits.
TakeTerm ==
    /\ ~Exited
    /\ spc = "sigwait" /\ "TERM" \in pending
    /\ pending' = pending \ {"TERM"}
    /\ system_done' = TRUE
    /\ IF system_done THEN pc' = "exited" /\ UNCHANGED spc
                      ELSE spc' = "signal" /\ UNCHANGED pc
    /\ UNCHANGED <<config_mutex, configVars, stale, clientVars, moved>>

\* sigwait returns SIGINT: exit.
TakeInt ==
    /\ ~Exited
    /\ spc = "sigwait" /\ "INT" \in pending
    /\ pending' = pending \ {"INT"}
    /\ pc' = "exited"
    /\ UNCHANGED <<spc, system_done, config_mutex, configVars, stale, clientVars, moved>>

\* pthread_cond_signal(&reload_cond), without reload_lock: it wakes main if it
\* waits and has no effect otherwise.
CondSignal ==
    /\ ~Exited
    /\ spc = "signal"
    /\ spc' = "sigwait"
    /\ pc' = IF pc = "waiting" THEN "woken" ELSE pc
    /\ UNCHANGED <<system_done, pending, config_mutex, configVars, stale, clientVars, moved>>

-----------------------------------------------------------------------------
(* Control workers                                                          *)

Serving == ~Exited /\ current_config # Null

\* do_reload: remember the pointer, under the mutex.
ReloadBegin(c) ==
    /\ Serving
    /\ cpc[c] = "idle" /\ config_mutex = Nobody
    /\ old' = [old EXCEPT ![c] = current_config]
    /\ moved' = [moved EXCEPT ![c] = FALSE]
    /\ cpc' = [cpc EXCEPT ![c] = "kill"]
    /\ UNCHANGED <<pc, signalVars, config_mutex, configVars, stale, seen, polls>>

\* Variant for mutation: new_config does not start out as current_config.
ReloadKill_NullNew(c) ==
    /\ Serving
    /\ cpc[c] = "kill"
    /\ pending' = pending \cup {"RELOAD"}
    /\ stale' = TRUE
    /\ seen' = [seen EXCEPT ![c] = Null]
    /\ polls' = [polls EXCEPT ![c] = 0]
    /\ cpc' = [cpc EXCEPT ![c] = "poll"]
    /\ UNCHANGED <<pc, spc, system_done, config_mutex, configVars, old, moved>>

\* pthread_kill(signal_thread, SIGHUP).
ReloadKill(c) ==
    /\ Serving
    /\ cpc[c] = "kill"
    /\ pending' = pending \cup {"RELOAD"}
    /\ stale' = TRUE
    /\ seen' = [seen EXCEPT ![c] = old[c]]
    /\ polls' = [polls EXCEPT ![c] = 0]
    /\ cpc' = [cpc EXCEPT ![c] = "poll"]
    /\ UNCHANGED <<pc, spc, system_done, config_mutex, configVars, old, moved>>

\* Variant for mutation: the attempts are not counted.
ReloadPoll_NoCount(c) ==
    /\ Serving
    /\ cpc[c] = "poll" /\ config_mutex = Nobody
    /\ polls[c] < WaitSecs /\ seen[c] = old[c]
    /\ seen' = [seen EXCEPT ![c] = current_config]
    /\ UNCHANGED <<pc, signalVars, config_mutex, configVars, stale, cpc, old, polls,
                   moved>>

\* Variant for mutation: the loop has no end but success.
ReloadPoll_CountsPast(c) ==
    /\ Serving
    /\ cpc[c] = "poll" /\ config_mutex = Nobody
    /\ seen[c] = old[c]
    /\ seen' = [seen EXCEPT ![c] = current_config]
    /\ polls' = [polls EXCEPT ![c] = @ + 1]
    /\ UNCHANGED <<pc, signalVars, config_mutex, configVars, stale, cpc, old, moved>>

\* One turn of the loop: sleep a second, read the pointer under the mutex.
ReloadPoll(c) ==
    /\ Serving
    /\ cpc[c] = "poll" /\ config_mutex = Nobody
    /\ polls[c] < WaitSecs /\ seen[c] = old[c]
    /\ seen' = [seen EXCEPT ![c] = current_config]
    /\ polls' = [polls EXCEPT ![c] = @ + 1]
    /\ UNCHANGED <<pc, signalVars, config_mutex, configVars, stale, cpc, old, moved>>

\* The loop is over: answer 200 if the pointer changed, 550 if it did not.
ReplyDue(c) == cpc[c] = "poll" /\ (polls[c] = WaitSecs \/ seen[c] # old[c])
Answer(c) == IF seen[c] = old[c] THEN 550 ELSE 200

\* Send Answer(c) and return: do_reload's locals are gone.
ReloadReply(c) ==
    /\ Serving
    /\ ReplyDue(c)
    /\ cpc' = [cpc EXCEPT ![c] = "idle"]
    /\ old' = [old EXCEPT ![c] = Null] /\ seen' = [seen EXCEPT ![c] = Null]
    /\ polls' = [polls EXCEPT ![c] = 0]
    /\ moved' = [moved EXCEPT ![c] = FALSE]
    /\ UNCHANGED <<pc, signalVars, config_mutex, configVars, stale>>

\* send_status counts classes, hosts and collections of *current_config under
\* the mutex.
StatusBegin(c) ==
    /\ Serving
    /\ cpc[c] = "idle" /\ config_mutex = Nobody
    /\ config_mutex' = c
    /\ cpc' = [cpc EXCEPT ![c] = "status"]
    /\ UNCHANGED <<pc, signalVars, configVars, stale, old, seen, polls, moved>>

StatusEnd(c) ==
    /\ Serving
    /\ cpc[c] = "status"
    /\ config_mutex' = Nobody
    /\ cpc' = [cpc EXCEPT ![c] = "idle"]
    /\ UNCHANGED <<pc, signalVars, configVars, stale, old, seen, polls, moved>>

-----------------------------------------------------------------------------
Reload ==
    \/ \E a \in Addr : LoadConfig(a)
    \/ LoadExits \/ LoadFails \/ InitConfig \/ InitFails \/ SwapLock \/ SwapDelete \/ SwapPublish

MainStep ==
    \/ \E a \in Addr : StartLoad(a)
    \/ StartInit \/ StartFails \/ Wait \/ Timeout \/ SpuriousWakeup \/ Woken
    \/ Reload \/ Done \/ Return

SignalStep ==
    \/ \E s \in Hup : TakeHup(s)
    \/ HupLock \/ TakeTerm \/ TakeInt \/ CondSignal

ClientStep(c) ==
    \/ ReloadBegin(c) \/ ReloadKill(c) \/ ReloadPoll(c) \/ ReloadReply(c)
    \/ StatusBegin(c) \/ StatusEnd(c)

\* The process is gone.
Terminated == Exited /\ UNCHANGED vars

Next ==
    \/ MainStep
    \/ \E s \in Signal : Kill(s)
    \/ SignalStep
    \/ \E c \in Client : ClientStep(c)
    \/ Terminated

Spec == Init /\ [][Next]_vars

\* Every thread that can go on does, main's wait ends after 7200 s at the
\* latest, and sigwait does not pass over a pending SIGTERM for ever.  The two
\* mutexes are released and taken again around a waiting thread, whence SF.
\* Nobody is obliged to send a command or a signal.
Fairness ==
    /\ WF_vars(MainStep) /\ SF_vars(SwapLock)
    /\ SF_vars(TakeTerm) /\ SF_vars(HupLock) /\ WF_vars(CondSignal)
    /\ \A c \in Client :
          /\ SF_vars(ReloadPoll(c))
          /\ WF_vars(ReloadKill(c) \/ ReloadReply(c) \/ StatusEnd(c))

FairSpec == Spec /\ Fairness

\* In addition no other signal stays pending for ever: what TermTerminates, which
\* fails, is given.
AllSignalsSpec ==
    FairSpec /\ SF_vars(TakeInt) /\ \A s \in Hup : SF_vars(TakeHup(s))

-----------------------------------------------------------------------------
(* Properties                                                               *)

\* Types of the variables.
TypeOK ==
    /\ pc \in {"start", "startinit", "loop", "waiting", "woken", "reload", "init",
               "swaplock", "swap", "publish", "done", "return", "exited"}
    /\ spc \in {"sigwait", "hup", "signal"}
    /\ system_done \in BOOLEAN
    /\ pending \subseteq Signal
    /\ config_mutex \in Client \cup {Main, Nobody}
    /\ live \subseteq Addr /\ ready \subseteq Addr
    /\ current_config \in Addr \cup {Null} /\ new_config \in Addr \cup {Null}
    /\ stale \in BOOLEAN
    /\ cpc \in [Client -> {"idle", "kill", "poll", "status"}]
    /\ old \in [Client -> Addr \cup {Null}] /\ seen \in [Client -> Addr \cup {Null}]
    /\ polls \in [Client -> 0 .. WaitSecs]
    /\ moved \in [Client -> BOOLEAN]

\* Main is past its start and has not begun to end.
Running == pc \in {"loop", "waiting", "woken", "reload", "init", "swaplock", "swap",
                   "publish"}

\* Collection never stops for a reload that returns, whichever failure load_config or
\* init_config reports: while the process runs, from the end of the start on, some
\* allocated configuration polls (sql-collector.cpp:593-623).  A load_config that
\* does not return ends the process and the collection with it (snapp_config.cpp:60,
\* xml_load.c:82-154).
ServiceContinues == Running => live \cap ready # {}

\* Between two reloads the current configuration is allocated and is the only
\* one: neither a failed load nor a failed init leaves an object behind.
NoConfigLeak == pc \in {"loop", "waiting"} => live = {current_config}

\* A control worker that holds config_mutex to look into the configuration finds
\* one that was not deleted (snapp_control.cpp:179-190), until main ends: that
\* last delete does not take the mutex (sql-collector.cpp:631).
StatusSeesLiveConfig ==
    \A c \in Client : cpc[c] = "status" /\ pc # "return" /\ ~Exited
                         => current_config \in live

\* The answer 200 to `reload' is never given unless the configuration was
\* replaced since the command came in (snapp_control.cpp:102-106), even if
\* addresses are used again.
ReplyTruthful == \A c \in Client : ReplyDue(c) /\ Answer(c) = 200 => moved[c]

\* A request to reload is followed by a load_config that begins after it, unless
\* the process ends, even though the condition variable forgets a signal that
\* comes while main does not wait (sql-collector.cpp:106-114, 569-587).
HupReloads == stale ~> (~stale \/ pc \in {"done", "return"} \/ Exited)

\* A second SIGTERM ends the process, wherever main is (sql-collector.cpp:126).
SecondTermExits == system_done /\ "TERM" \in pending ~> Exited

\* A client that said `reload' gets an answer, whether or not the reload works
\* (snapp_control.cpp:92-107).
ReloadAnswered == \A c \in Client : cpc[c] = "poll" ~> (cpc[c] = "idle" \/ Exited)

\* "(TERM) terminates the snapp process" (doc/docbook_doc.xml:381).
TermTerminates == system_done ~> Exited

-----------------------------------------------------------------------------
(* The inductive invariant behind the four safety properties.               *)

\* Which configurations are allocated and poll at each place of main.
ConfigsAt ==
    /\ pc = "start" => live = {} /\ ready = {} /\ current_config = Null
    /\ pc = "startinit" => live = {current_config} /\ ready = {}
    /\ pc \in {"loop", "waiting", "woken", "reload", "done"} =>
          live = {current_config} /\ ready = {current_config}
    /\ pc = "init" => live = {current_config, new_config} /\ ready = {current_config}
    /\ pc \in {"swaplock", "swap"} =>
          live = {current_config, new_config} /\ ready = {current_config, new_config}
    /\ pc = "publish" => live = {new_config} /\ ready = {new_config}

\* Which of main's pointers are set.
PointersAt ==
    /\ pc \notin {"start", "exited"} => current_config \in Addr
    /\ pc \in {"init", "swaplock", "swap", "publish"} =>
          new_config \in Addr /\ new_config # current_config

\* config_mutex is held by whoever is inside a section it protects.
MutexHeld ==
    /\ pc \in {"swap", "publish"} => config_mutex = Main
    /\ \A c \in Client : cpc[c] = "status" => config_mutex = c /\ pc # "start"

\* Until the pointer is replaced, do_reload sees the one it remembered.
RememberedIsCurrent ==
    \A c \in Client :
        /\ cpc[c] \in {"kill", "poll"} /\ ~moved[c] => old[c] = current_config
        /\ cpc[c] = "poll" /\ ~moved[c] => seen[c] = old[c]
        /\ pc = "start" => cpc[c] = "idle"

\* The strengthening of the safety properties that every step preserves.
IInv == TypeOK /\ ConfigsAt /\ PointersAt /\ MutexHeld /\ RememberedIsCurrent
=============================================================================
