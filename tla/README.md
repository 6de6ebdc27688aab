# A TLA+ model of snapp-collector

snapp-collector polls SNMP agents at fixed intervals, as configured in a database,
and stores what it reads in RRD files. It is one multi-threaded process. This
directory models the parts of it in which threads meet or in which time and failure
make the outcome hard to see, checks them with TLC on small instances, and proves the
most important safety properties for every size with TLAPS.

## 1. The system

| component | state it keeps | operations | interaction |
|---|---|---|---|
| **collection class** (`collection_class.cpp`) | queue of host indices, `worker_semaphore`, `lock`, threads | `initialize`, main thread, workers, `finalize` | created, started and destroyed by a configuration; takes slots of the global `session_semaphore` |
| **host polling** (`get_collect`) | per host `timeticks`, `mytime` | one round over the host's collections | calls the SNMP agent, `push_data` |
| **rrd writer** (`rrd_writer.cpp`) | name tables, one queue with semaphore and lock per writer | `push_data`, writer threads, statistics thread | called by all workers; writes files through librrd |
| **main loop and signals** (`sql-collector.cpp`) | current and new configuration, `system_done`, `reload_cond` | load, init, timed wait, swap, terminate; signal thread | signals, control workers |
| **control server** (`snapp_control.cpp`) | connection queue, login state | `reload`, `status`, `logregexp`, login | reads the current configuration under `config_mutex`, sends SIGHUP |
| **configuration** (`snapp_config.cpp`) | classes, hosts, mapping sequences | paged load from the database, creation of rrd files, suffix mapping | owned by the main loop |
| **host tables** (`host_info.cpp`) | OID tables of each host | table walks, one thread per host | run by `init_config` |
| **logging** (`util.c`) | log level, regular expression | `print_log`, `set_log_level` | called by everybody |

What is hard here: poison pills against tokens that `finalize` leaves behind; a
detached thread that is cancelled and not joined; rounds that overlap; locks taken
twice around one datum (ids are made under one acquisition, resolved under another);
condition signals nobody waits for; reloads that fail half way; a clock that is
reconstructed from a remote 32-bit counter; tables read from agents that stop or repeat
in the middle; a database read in pages whose order is not total. `PROJECT.json` lists these under
`hazards`, each at its line.

What makes the parts correct: no thread pops an empty queue; a session slot is never
lost; nothing is polled after `finalize` handed out the pills; every update reaches
the file it was meant for, in order; a reload never interrupts collection; a control
worker never sees a deleted configuration; updates carry the time at which they were
taken; what is loaded is what the database holds, whatever page a row falls on; a mapped
suffix is one the agent's own table gives; whoever asks for a reload, a poll or an end gets it.

## 2. The modules

* **CollectionClass** (with **CollectionClassProofs**, **MCCollectionClass**): the main
  thread, the workers and the thread that runs the destructor, one action for each
  piece of code between two synchronisation points. `mainPc`, `wpc`, `cpc` say where
  each thread is. Deferred cancellation is modelled at the points where it may act:
  `nanosleep` always, `print_log` (syslog, stdio) if `LogCancels`. Use of the destroyed
  object is the state `mainPc = "undefined"`.
* **RRDWriter** (with **RRDWriterProofs**, **MCRRDWriter**): `push_data` in two steps
  (the names are interned, the datum is queued) under the global lock, and the writer
  loop: wait, pop, look the names up, update. `errno` is state, because line 140 reads
  it after a call that succeeded. librrd appears as: an update newer than the file may
  succeed, any update may fail. The hash is the constant `QueueOf`, any function.
* **UpdateLog**: the abstract specification of the writer: one FIFO per file; a push
  appends, a write removes the head; every update is tried eventually unless the process
  exits (`Tried`). In `RRDWriter` the instance `Log` maps to it: the pending updates of a file are
  those among the datum in the writer's hands, then its queue, that the name tables resolve
  to this file. `SafeSpec` is what may happen; `Spec` adds that it does.
  What RRDWriter implements is `SafeSpec`, and `Tried(f)` for every file whose writer forgets no token.
* **MainLoop** (with **MainLoopProofs**, **MCMainLoop**): main, the signal thread, and
  the control workers in so far as they use the configuration. Configurations are
  addresses, which can be given out again. Pending signals are a set, so equal ones
  coalesce; the SIGHUP of `pthread_kill` is pending apart from those of `kill`.
* **HostPoll** (with **HostPollProofs**, **MCHostPoll**): `get_collect`, with the device and real time around
  it. Request and response are separate steps, so that a reboot or a tick can fall
  between them. The variables `sync`, `first` and `pushed` are history.
* **Control** (with **ControlProofs**, **MCControl**): listener, queue of descriptors,
  workers with their login states and all commands, and the two sides of `pcre_log_lock`
  (`logregexp` writes, `print_log` reads). `wpc` and `lpc` say where the threads are;
  `peer` is the client behind each descriptor, whose number is reused after `close`.
  Which command a line is depends on its length as in the code. `shown` is history: what
  the client of a connection has shown of a login. A prompt is sent in the same step as
  the answer before it; after a hang-up a send may still succeed.
* **HostTables** (with **HostTablesProofs**, **MCHostTables**): main in `load_host_tables`
  and `map_collection_suffixes`, one thread per host in `load_oid_table`, and the running
  configuration as far as it uses the same session slots. `tpc`, `iter` and `pos` say where
  a thread is in its tables. A response is one step that inserts some of the rows that are
  left; it ends inside the table, exactly at its end (the next one is then empty), or
  behind it. Agents may fail at any request, and those with `advances[h] = FALSE` may send
  rows again, as the comparison of names is commented out in the code. Names and values are
  sequences of their parts; whether a table's OID is found in the printed name is the
  constant `Found`. `mapping_done` starts as garbage, the same for all hosts. `failed` and
  `torn` are history: hosts and tables that were not read to the end.
* **ConfigLoad** (with **ConfigLoadProofs**, **MCConfigLoad**): `load_config`, its helpers
  as one step per query, the loop over a page's rows as one step per row, and
  `create_missing_rrd_files` as one step per file, again and again as the main loop does.
  The variables that `load_collection_classes` hands from page to page are state. A
  database is a function from collections to class, host, mapping and activity, with the
  hosts that exist and the numbers of data sources and archives; `stable` says whether
  equal rows have one order for all pages. The directories and files outlive a load.
* **QueueFacts**: lemmas about push and pop that the proofs share.

CollectionClass and HostPoll meet in `get_collect` (`WorkerSession` to
`WorkerCollected`), HostPoll and RRDWriter in `push_data` (`Push`, `PushBegin`),
MainLoop and CollectionClass in `init_config` and `delete` (`InitConfig`,
`SwapDelete`, `Done` stand for `Initialize` and the finalize actions of every class),
MainLoop and ConfigLoad in `load_config` (`LoadConfig`, `LoadFails`, `InitFails` are the
outcomes of ConfigLoad's `Return`), ConfigLoad and HostTables in `init_config` (`FilesDone`
hands over what HostTables' `Init` starts from), HostTables and CollectionClass in the
session slots (`OtherTake`, `OtherGive` are `WorkerSession` and `WorkerCollected`) and
HostTables and HostPoll in the suffixes (`Mapped` there is a suffix that is not empty).

Definitions named `Name_Variant` are plausible errors in `Name`; no specification
uses them. They exist to show that each property can be violated by such an error.

## 3. What TLC checks

| run | question | result |
|---|---|---|
| `collection` | 3 hosts, 2 workers, 1 slot, `print_log` a cancellation point: `NoEmptyPop`, `QueuedOnce`, `SessionsConserved`, `NoCollectionAfterFinalize`, `PollingContinues`, `FinalizeTerminates` | holds, 23 thousand states; `finalize` hangs in one case, which `FinalizeTerminates` names (see below) |
| `host_exclusive` | is a host polled by one worker at a time? | violated: rounds overlap |
| `use_after_destroy` | is a destroyed class left alone? | violated by the detached main thread |
| `rrd_writer` | 3 pushes with 2 times, 3 files, 2 writers, more values than fit, interruptions: `NoEmptyPop`, `IdsResolve`, `WriterOwnsFiles`; does the writer implement UpdateLog (`KeepsUpdateLog`), liveness included (`TriedUnlessForgotten`)? | holds, 163 thousand states; order never suffers from a forgotten token, and nothing else leaves an update queued |
| `mainloop` | 2 addresses, 1 client, 2 polls: `ServiceContinues`, `NoConfigLeak`, `StatusSeesLiveConfig`, `ReplyTruthful`, `HupReloads`, `SecondTermExits`, `ReloadAnswered` | holds, 80 thousand states; a reload that fails leaves the collection running, one that exits does not |
| `term_lost` | does SIGTERM terminate? | violated: the signal is lost outside the wait |
| `control` | 2 workers, 3 descriptors: `NoEmptyPop`, `FdOwnedOnce`, `NoDescriptorLeak`, `LoginRequired`, `NoFreedExpression` | holds, 539 thousand states |
| `control_live` | 1 worker, 3 descriptors: `RegexpEnds`, `ConnectionServed` | holds if clients leave, 25 thousand states |
| `hostpoll` | 2 collections, wrapping uptime, reboots, latency: `TimestampAccurate`, `GarbageClockReplaced` | holds, 1.8 million states |
| `hosttables` | 2 hosts, 2 slots that are shared, tables of up to 3 rows, 2 variables in a response, failing, silent and repeating agents: `SlotsConserved`, `MappingAfterWalks`, `SuffixesRight`, `LoadTablesEnd` | holds, 49 thousand states; loading ends only if the agents advance |
| `configload` | 16 databases, pages of 2 rows, one failing call, one change of the database: `NoTransactionLeft`, `LoadFaithful`, `FilesConverge` | holds, 233 thousand states, unless a load ends the process; which rows are loaded depends on an order of equal rows that is the same for all pages |
| `dirs_missing` | does one pass create the files and their directories? | violated: the switch falls through after one level |

The violated ones are real disagreements with a comment or the manual, quoted in
`PROJECT.json` under `findings`.

**When `finalize` hangs.** A main thread that comes late to a queue of pills warns inside its
critical section (collection_class.cpp:609). With a C library whose `syslog` or stdio is a
cancellation point, as with glibc, the pending cancellation may take effect there; the thread
installs no cleanup handler and keeps `lock`, the workers cannot pop their pills, and
`pthread_join` (line 686) never returns: a reload that swaps configurations holds
`config_mutex` for ever. The state is `LockAbandoned`. `FinalizeTerminates` allows it and
nothing else; without it (`cpc = "finalize" ~> cpc = "destroyed"`) the same run finds a trace
of 14 steps that ends in it.

**Bounds.** Collection class: fewer workers than hosts, so that hosts wait, and fewer
slots than workers, so that workers wait for slots; nothing else is bounded. (The safety
properties are proved for any numbers and for both values of `LogCancels`; TLC also finds them to
hold with 4 hosts, 3 workers and 2 slots, 1.1 million states.) Writer:
`MaxPush` and `MaxTime` bound the number of updates and their times; three updates are
enough for two of one file with another between them, two files share a queue and one has
its own. Updates of one file are told apart by their times; there is one template, as template names go
through the same operators as file names, and `InterningSound` is proved for any number of both.
All pushes have more values than fit, which changes nothing but `num_ds`. `MaxDs` and `UintRange` are small but keep their order. Main loop: nothing is
bounded except `WaitSecs` (2 for 55); with two addresses every second configuration gets
the address of the one before the last, which is the case `ReplyTruthful` is about. (The
safety properties also hold with two clients and three addresses, 7.8 million states.)
Control: more descriptors
than workers, so that connections wait and numbers are reused. Two workers compete for queue,
descriptors and lock in `control`, which checks safety; a liveness check of that instance takes
too long, so `control_live` has one worker, and the listener is the second thread at the queue
and at the lock. The safety properties are proved for any number of workers.
Host polling: 2 ticks per second, a gap of 4 (2 s for 60 s), an uptime of 10 values, and 14
ticks of time, so that the uptime wraps and the gap passes more than once. Host
tables: a table of three rows with two in a response ends inside a response, one of two rows
exactly at it; a value is empty, one is in two rows, a second table maps suffixes of the
first one further, and there is one slot per thread, so that the other configuration can keep
them all. Configuration: with three or four rows and pages of two the boundary falls between
classes, between hosts of a class, inside a host, and behind the last row (an empty page
follows); one database is not in the order of the query, has a host or a mapping that does
not exist or a class without archives; mapping values form a cycle that `MaxSequence` (2 for
10) ends; two levels of directories are missing. `MaxFaults` and `MaxChanges` bound failing
calls and changes of the database; `FilesConverge` is about what happens after the last one.

**Fairness.** Threads that can run do (weak fairness). Mutexes and semaphores get strong
fairness: they are free only intermittently, critical sections are short, and the
threads that compete sleep between attempts. `get_collect` ends because each SNMP request
has a timeout, and so do the requests of a table walk; main's wait ends because it is timed. Nobody is obliged to send signals or
commands, to start a class or to destroy it. `HupReloads` rests on the timed wait alone,
not on the delivery of SIGHUP. Control clients are assumed to leave in the end, which
the code does not enforce (no timeout); without that `ConnectionServed` would not hold.
The read-write lock is assumed not to starve `logregexp`: threads do not log without
pause. In HostTables main's `sem_wait` is strongly fair: the running configuration's polls
end, but their slots are free only between two of them. In ConfigLoad the load steps are
weakly fair: main loads again after at most 7200 s, and the calls return. `TermTerminates`
fails even when no signal stays pending for ever (`AllSignalsSpec`).

**Endings.** Deadlock is checked except in `rrd_writer`, where the process exits and the
model has no step after it. Where the process or a class can end in another model, the end is a
state that stutters, so that a deadlock before it still shows: the exits of
snapp_config.cpp:60 and xml_load.c in MainLoop and ConfigLoad, and in CollectionClass the
destroyed class and the states in which `finalize` hangs. HostTables never stops: the other
configuration goes on.

**Interrupted waits.** A wait that is interrupted makes the writer forget a token (`errno`
is stale at rrd_writer.cpp:140) and leaves an update queued. `rrd_writer` allows
interruptions, and `TriedUnlessForgotten` excludes the queues to which this happened. Main's
signals are blocked in all threads (sql-collector.cpp:328), so the unchecked `sem_wait` of
the control workers (snapp_control.cpp:253) is not interrupted in Control: since Linux 2.6.22
a stop and continue does not end it either. If it did, a worker would pop without a token.

## 4. What is proved

For all values of the constants, from the named assumptions of the modules (numbers of
hosts, workers, slots and polls are naturals, the thread names differ, the hash is
a function from files to writers). Four of them say more and are stated where the constant
is declared: an agent's table is a sequence of rows with names that are not empty
(`AgentAssumption`: a row's name is longer than its table's OID); a collection's mapping goes
through tables of its host (`CollectionAssumption`: `load_collection_classes` inserts them,
which is the last part of `LoadFaithful`); the database's keys are positive numbers and its rows
finitely many (`DatabasesAssumption`: `auto_increment` columns); and directories can be
numbered so that a parent comes before what is in it (`DirAssumption`: paths are finite).

* **CollectionClassProofs**: `TypeCorrect`, `QueueNeverPoppedEmpty`, `HostsQueuedOnce`,
  `SessionSlotsConserved`, `NoPollAfterPills`. None of these is inductive. `IInv` adds:
  until `finalize` drains the queue, the queue is as long as the tokens in the semaphore
  and in the workers' hands together; while the pills are queued it holds nothing else;
  afterwards it holds one pill for every worker that has not taken one, as long as there
  is such a worker. So a surplus of tokens is harmless: who takes one finds a pill, and
  who found a pill never comes back. That hosts are queued in index order gives
  `QueuedOnce`. The cardinality lemmas say what a step of one worker does to the sets of
  token holders, live and collecting workers.
* **RRDWriterProofs**: `TypeCorrect`, `QueueNeverPoppedEmpty`, `InterningSound`,
  `OneWriterPerFile`. `IInv` adds that a queue is at least as long as its tokens, given
  out or not (lost tokens only make it longer), and that what is queued hashes to the queue
  it is in; tables only grow, so ids keep their meaning. `OrderKept` is the refinement: under
  `IInv` the initial state maps to UpdateLog's, and every action to one of its steps or to
  none. Making a name's id changes nothing that is pending, since the ids in the queues resolve as
  before; queueing appends to one file and leaves the files that share the queue alone; a
  pop moves a datum from the queue to the hand, which the mapping does not see; the end of an
  update, stored or failed, removes the head of one file; a lost token touches no queue.
  `UpdatesTo` is a recursive function, and its lemmas (what appending, a tail and a change of
  the tables do to the updates of a file) are proved by induction on the length.
* **MainLoopProofs**: `TypeCorrect`, `CollectionNeverStops`, `OneConfigBetweenReloads`,
  `StatusIsSafe`, `ReloadReplyTrue`. `IInv` says for every place of main which
  configurations are allocated and poll, who holds `config_mutex` (which separates
  `status` from the delete), and that until the pointer is replaced a client sees the one
  it remembered.
* **ControlProofs**: `TypeCorrect`, `PendingNeverPoppedEmpty`, `OneOwnerPerDescriptor`,
  `NoDescriptorLost`, `OnlyAfterLogin`, `ExpressionNeverFreedInUse`. `IInv` adds that the queue is as long as
  the tokens posted, held and about to be posted; that who has a descriptor in hand knows
  which; that from the greeting on `connection_state` is what this client has shown (this
  needs one owner per descriptor, as another worker could otherwise change what was
  shown); and that the write lock is held exactly while the expression is replaced.

* **HostPollProofs**: `TypeCorrect`, `UpdatesDatedRight`, `GarbageDatesBriefly`, for any
  width of the uptime, any gap below it and any latency. `IInv` says that a request is out
  for at most the latency and was sent after the pair was set; that the pair is the uptime
  of its origin, or 0, with a local time no more than a second before and a latency after it;
  and that before the pair is set, all updates have uptimes in the window of `MaxGap`
  above the garbage. The arithmetic is in four lemmas: rounding down loses less than one
  second (`DivFacts`, used twice in `DatedLater`), and two times less than a turn apart
  differ by what their uptimes differ by (`NoTurn`), which is why the test for a wrapped
  uptime is enough.
* **HostTablesProofs**: `TypeCorrect`, `NoSlotLost`, `WalksEndBeforeMapping`, and
  `TablesFrozen`, an action property: once main has joined the threads no step writes what
  main then reads without a lock. `IInv` adds the order of main's two loops (threads from
  `n` on do not exist yet; threads before `n` have ended), from which the slot taken for
  a thread is one nobody holds, and that the table being walked is one of the host's.
  `SuffixesAreRight` needs a second invariant, `TInv`: every entry of a table comes from
  a row of the agent; the rows before the position of a walk are in the table, and those of the
  tables before the iterator all are, unless the table is in `torn`; a thread that is
  through has failed or has all tables behind it; nothing is mapped before main has joined.
  When main maps, it walks a collection's sequence and the reference `Reached` walks the
  agent's rows: by induction along the sequence the value is in the set that is reached
  (soundness), and, where tables are whole and values unique, a value that is lost means that
  the set is empty (completeness). Rows of a response are inserted one
  by one, so that a later row replaces an earlier one of the same value; `Greatest` gives
  the last such row.
* **ConfigLoadProofs**: `ConnectionClosed`. `IInv` says what the connection is at each
  place: in a transaction from the first query to COMMIT, closed while files and tables are
  made, and left open between two loads only by START TRANSACTION or COMMIT.
  `TypeCorrect` includes that `recursive_dir_create` makes directories of the configuration
  only; its recursion ends since parents have smaller numbers.
  `LoadIsFaithful` is the theorem about pages. Each page is cut from a query of its own, and
  if `stable` is false these queries may order equal rows differently; so it is not true
  that the rows read so far are a prefix of one order. The second invariant `LInv` speaks of
  all orders at once (`FitsOrders`): for every order `s` the rows of the page are at
  each place alike to those of `s` (same class and host, the same row if stable), and what is
  loaded matches the first `Done` rows of `s` (`Matches`: classes and hosts are those of the
  rows and increasing, collections as many as rows). This is inductive because two
  enumerations of a set that are sorted by the same preorder have, at every place, elements
  that the preorder does not tell apart (`SortedAlike`). `AtEnd` ties `last_db_id`,
  `last_host_id` and `host_index`, which are carried from page to page, to the last class and host
  loaded and says that no row done comes after them: a row thus continues the last
  host, starts a host in the last class or starts a class, whether or not a page ends before it. `PagesInv`
  gives the rest: the offset counts the rows read, and a page that is not full is the last.

In each module the invariant is shown to hold initially and to be preserved by every
action, one step per action; the properties follow from it.

Where a definition runs along a sequence it is a recursive function, and the proofs go by
induction on its argument: `QueueFacts!SetInduction` says that a set of naturals with 0 and
with every successor has all of them, and is applied to the set of lengths for which the claim holds.

Only model-checked: liveness (`PollingContinues`, `FinalizeTerminates`, `HupReloads`,
`SecondTermExits`, `ReloadAnswered`, `RegexpEnds`, `ConnectionServed`, `LoadTablesEnd`,
`FilesConverge`, `TriedUnlessForgotten`), which is out of
reach of the prover, and the four violations. Every invariant and every action property that
a run checks is a theorem. The types of RRDWriter are only proved: no run repeats them.

## 5. What is not modelled

* SNMP values other than the uptime, the characters of OIDs, queries, rrd arguments and
  messages. In particular the search for the last third of an OID in a printed name
  (host_info.cpp:508) is reduced to found or not found, and a file name has a directory.
* The statistics thread of the writer: its averages are only printed by `status`.
* The log level, and the signals that change it: nothing but messages depends on it.
* `load_oid_table_get`, which is never called.
* The set-up of the control socket, daemonizing and options, which come before any thread
  exists; the XML file, parsed into a struct in one call that may fail (`ConnectFails`) or end
  the process (`ConnectExits`).
* The FNV hash (third party; any function in RRDWriter), the SQL schema and the
  configuration script.

Some failures are not reported but end the process, during a reload as at the start:
`connect_to_db` calls `exit` when there is no dbi driver (snapp_config.cpp:60), and
`load_xml_config` asserts the attributes and contents it needs (xml_load.c:82, 91, 148, 154; the
comment there wants a goto). They are `LoadExits` in MainLoop and `ConnectExits` in ConfigLoad, so
`ServiceContinues` speaks of collection until the process ends. Assertions on memory, on the
return values of pthread calls and on columns that the schema declares NOT NULL
(snapp_config.cpp:268-270) are taken to hold.

A null uptime is made "-1" by `get_clean_snmpvalue` and then "U", because "-1" does not begin with a
digit (collection_class.cpp:147-151, 171-183); `atoi` gives 0, and the update is dated by the local
time. The test for -1 at line 371 therefore only meets the last tick before the uptime wraps.

HostPoll assumes one worker per host, which `host_exclusive` shows the code does not
guarantee, and equal rates of the two clocks. `TimestampAccurate` speaks of pairs set since
the device's last start: a device that starts again and is next seen, within 60 s, with an
uptime above the remembered one is not recognised (collection_class.cpp:380), and until the
next resynchronisation its updates are dated by the old pair. ConfigLoad's failing START
TRANSACTION and COMMIT leave a connection that nothing closes later.

## 6. Plan

1. Collector: MainLoop composed with one CollectionClass per configuration, so that two
   generations of workers push to one writer during a reload.
2. Proofs: action properties that relate two loads (files and directories only grow).
3. WriterStats: fixed-point load averages and their fixed points; log level signals.
