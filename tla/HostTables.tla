----------------------------- MODULE HostTables -----------------------------
(***************************************************************************)
(* How a new configuration learns its hosts' OID tables and resolves the   *)
(* OID suffix of every collection: Host_Info_Table::load_host_tables and   *)
(* Host_Info (src/src/host_info.cpp), then map_collection_suffixes         *)
(* (src/src/snapp_config.cpp).                                             *)
(*                                                                         *)
(*  - MAIN starts one thread per host, a session slot each, joins them     *)
(*    all, then maps: it follows a collection's sequence of tables from    *)
(*    value to suffix, starting with the configured text;                  *)
(*  - a THREAD walks the tables of its host with GETBULK requests: row     *)
(*    after row until a variable lies outside the table, the agent reports *)
(*    an error or does not answer;                                         *)
(*  - OTHERS, the workers of the configuration that is still running, take *)
(*    and give back slots of the same semaphore.                           *)
(*                                                                         *)
(* A string is the sequence of its parts between dots, so <<>> is the      *)
(* empty string.  OID_Value_Table::value_of is never read and left out.    *)
(***************************************************************************)
EXTENDS Integers, FiniteSets, SequencesExt

CONSTANTS
    NumHosts,      \* host.size()
    Oid,           \* the tables that mappings use
    TablesOf,      \* TablesOf[h]: the keys of host h's oid_table, in map order
    Agent,         \* Agent[h][o]: the rows of table o at host h, in OID order
    Found,         \* tables whose OID's text occurs in the printed variable names
    Collection,    \* collections: [host, seq (of Oid, <<>> for no mapping), premap]
    Reps,          \* most variables of one response, 15 in the code
    Slots          \* session_semaphore, 800 in the code

Host == 1 .. NumHosts

\* A row: the part of its name behind the table's OID, and its printed value.
Row == [inst : Seq(STRING) \ {<<>>}, raw : [typed : BOOLEAN, text : Seq(STRING)]]

ASSUME NumHostsAssumption == NumHosts \in Nat
ASSUME TablesAssumption == TablesOf \in [Host -> Seq(Oid)]
ASSUME CollectionAssumption ==
    \A c \in Collection : /\ c.host \in Host /\ c.seq \in Seq(Oid)
                          /\ ToSet(c.seq) \subseteq ToSet(TablesOf[c.host])
ASSUME AgentAssumption == Agent \in [Host -> [Oid -> Seq(Row)]]
ASSUME BoundsAssumption == Reps \in Nat \ {0} /\ Slots \in Nat \ {0}

VARIABLES
    session_semaphore, \* free session slots
    others,            \* slots in use by the other configuration
    mpc, n,            \* main: its place and loop variable
    tpc,               \* where each host's thread is
    iter,              \* its iterator over oid_table
    pos,               \* rows of the present table it has read
    advances,          \* does the host's agent always answer with later rows?
    suffix_of,         \* suffix_of[h][o]: from values to suffixes
    mapping_done,      \* Host_Info::mapping_done
    post,              \* post_mapping_oid_suffix of each collection
    failed,            \* hosts whose load_oid_table returned -1 (history)
    torn               \* tables whose walk broke off or went back (history)

threadVars == <<tpc, iter, pos>>
vars == <<session_semaphore, others, mpc, n, threadVars, advances, suffix_of,
          mapping_done, post, failed, torn>>

Empty == <<>>

\* load_config has filled the tables' names in.  Host_Info's constructor does not
\* set mapping_done, and all hosts are copies of one local variable: it is the
\* same garbage everywhere, and 1 or not.
Init ==
    /\ others \in 0 .. Slots /\ session_semaphore = Slots - others
    /\ mpc = "create" /\ n = 1
    /\ tpc = [h \in Host |-> "none"]
    /\ iter = [h \in Host |-> 1] /\ pos = [h \in Host |-> 0]
    /\ advances \in [Host -> BOOLEAN]
    /\ suffix_of = [h \in Host |-> [o \in Oid |-> <<>>]]
    /\ \E garbage \in {0, 1} : mapping_done = [h \in Host |-> garbage]
    /\ post = [c \in Collection |-> Empty]
    /\ failed = {} /\ torn = {}

-----------------------------------------------------------------------------
(* The other configuration's workers                                        *)

OtherTake ==
    /\ session_semaphore > 0
    /\ session_semaphore' = session_semaphore - 1 /\ others' = others + 1
    /\ UNCHANGED <<mpc, n, threadVars, advances, suffix_of, mapping_done, post, failed, torn>>

OtherGive ==
    /\ others > 0
    /\ session_semaphore' = session_semaphore + 1 /\ others' = others - 1
    /\ UNCHANGED <<mpc, n, threadVars, advances, suffix_of, mapping_done, post, failed, torn>>

-----------------------------------------------------------------------------
(* load_host_tables                                                         *)

\* Variant for mutation: the thread is started without a slot of its own.
CreateThread_TryWait ==
    /\ mpc = "create" /\ n <= NumHosts
    /\ session_semaphore' = session_semaphore - 1
    /\ tpc' = [tpc EXCEPT ![n] = "table"]
    /\ n' = n + 1
    /\ UNCHANGED <<others, mpc, iter, pos, advances, suffix_of, mapping_done, post, failed, torn>>

\* sem_wait and pthread_create for host n.
CreateThread ==
    /\ mpc = "create" /\ n <= NumHosts
    /\ session_semaphore > 0
    /\ session_semaphore' = session_semaphore - 1
    /\ tpc' = [tpc EXCEPT ![n] = "table"]
    /\ n' = n + 1
    /\ UNCHANGED <<others, mpc, iter, pos, advances, suffix_of, mapping_done, post, failed, torn>>

CreateDone ==
    /\ mpc = "create" /\ n > NumHosts
    /\ mpc' = "join" /\ n' = 1
    /\ UNCHANGED <<session_semaphore, others, threadVars, advances, suffix_of, mapping_done,
                   post, failed, torn>>

\* Variant for mutation: the threads are detached, nobody waits for them.
Join_Detached ==
    /\ mpc = "join" /\ n <= NumHosts
    /\ n' = n + 1
    /\ UNCHANGED <<session_semaphore, others, mpc, threadVars, advances, suffix_of,
                   mapping_done, post, failed, torn>>

\* pthread_join(tvector[n]).
Join ==
    /\ mpc = "join" /\ n <= NumHosts
    /\ tpc[n] = "ended"
    /\ n' = n + 1
    /\ UNCHANGED <<session_semaphore, others, mpc, threadVars, advances, suffix_of,
                   mapping_done, post, failed, torn>>

\* The hosts that were loaded are counted, and the count is only logged.
JoinDone ==
    /\ mpc = "join" /\ n > NumHosts
    /\ mpc' = "map"
    /\ UNCHANGED <<session_semaphore, others, n, threadVars, advances, suffix_of,
                   mapping_done, post, failed, torn>>

-----------------------------------------------------------------------------
(* load_oid_table and thread_start, in the thread of host h                 *)

Table(h) == TablesOf[h][iter[h]]
Rows(h) == Agent[h][Table(h)]

\* read_objid and snmp_sess_open for the next table.
OpenTable(h) ==
    /\ tpc[h] = "table" /\ iter[h] <= Len(TablesOf[h])
    /\ tpc' = [tpc EXCEPT ![h] = "walk"]
    /\ pos' = [pos EXCEPT ![h] = 0]
    /\ UNCHANGED <<session_semaphore, others, mpc, n, iter, advances, suffix_of,
                   mapping_done, post, failed, torn>>

\* One of the two fails: load_oid_table returns -1, mapping_done stays as it is.
OpenFails(h) ==
    /\ tpc[h] = "table" /\ iter[h] <= Len(TablesOf[h])
    /\ tpc' = [tpc EXCEPT ![h] = "post"]
    /\ failed' = failed \cup {h}
    /\ UNCHANGED <<session_semaphore, others, mpc, n, iter, pos, advances, suffix_of,
                   mapping_done, post, torn>>

\* What extract_value_from_raw makes of a printed value: the text after the type;
\* one printed without a type, as an empty string is, gives the empty string.
extract_value_from_raw(raw) == IF raw.typed THEN raw.text ELSE Empty

\* The suffix of a variable: all of its name behind the table's OID if that is
\* printed as configured, otherwise what follows the last dot.
SuffixStr(o, inst) == IF o \in Found THEN inst ELSE << Last(inst) >>

\* suffix_of after the rows were inserted one by one: the last of equal values wins.
Insert(table, o, rows) ==
    LET value(i) == extract_value_from_raw(rows[i].raw)
        last(v) == CHOOSE i \in DOMAIN rows :
                       value(i) = v /\ \A j \in DOMAIN rows : j > i => value(j) # v
        read == {value(i) : i \in DOMAIN rows}
    IN [v \in DOMAIN table \cup read |->
            IF v \in read THEN SuffixStr(o, rows[last(v)].inst) ELSE table[v]]

Read(h, rows) ==
    suffix_of' = [suffix_of EXCEPT ![h][Table(h)] = Insert(@, Table(h), rows)]

\* running = 0: close the session, go to the next table.
NextTable(h) ==
    /\ tpc' = [tpc EXCEPT ![h] = "table"]
    /\ iter' = [iter EXCEPT ![h] = @ + 1]
    /\ pos' = [pos EXCEPT ![h] = 0]

\* Variant for mutation: a response with a variable outside the table is dropped.
LastResponse_Dropped(h) ==
    /\ tpc[h] = "walk"
    /\ Len(Rows(h)) - pos[h] < Reps
    /\ NextTable(h)
    /\ UNCHANGED <<session_semaphore, others, mpc, n, advances, suffix_of, mapping_done, post,
                   failed, torn>>

\* A response that reaches past the end of the table, where variables are of
\* another subtree or an exception: what is left of the table is inserted.
LastResponse(h) ==
    /\ tpc[h] = "walk"
    /\ Len(Rows(h)) - pos[h] < Reps
    /\ Read(h, SubSeq(Rows(h), pos[h] + 1, Len(Rows(h))))
    /\ NextTable(h)
    /\ UNCHANGED <<session_semaphore, others, mpc, n, advances, mapping_done, post, failed, torn>>

\* Variant for mutation: the last variable's name is not saved.
Response_NoSave(h, k) ==
    /\ tpc[h] = "walk" /\ pos[h] + k <= Len(Rows(h))
    /\ Read(h, SubSeq(Rows(h), pos[h] + 1, pos[h] + k))
    /\ UNCHANGED <<session_semaphore, others, mpc, n, threadVars, advances, mapping_done,
                   post, failed, torn>>

\* A response with k variables of the table: insert them, save the last one's name.
Response(h, k) ==
    /\ tpc[h] = "walk" /\ pos[h] + k <= Len(Rows(h))
    /\ Read(h, SubSeq(Rows(h), pos[h] + 1, pos[h] + k))
    /\ pos' = [pos EXCEPT ![h] = @ + k]
    /\ UNCHANGED <<session_semaphore, others, mpc, n, tpc, iter, advances, mapping_done,
                   post, failed, torn>>

\* An agent that does not advance: k variables that were read already, after row
\* p, or an empty response.  That names increase is not checked.
Repeat(h, p, k) ==
    /\ ~advances[h]
    /\ tpc[h] = "walk" /\ p + k <= pos[h]
    /\ Read(h, SubSeq(Rows(h), p + 1, p + k))
    /\ pos' = [pos EXCEPT ![h] = IF k = 0 THEN @ ELSE p + k]
    /\ torn' = torn \cup {<<h, Table(h)>>}
    /\ UNCHANGED <<session_semaphore, others, mpc, n, tpc, iter, advances, mapping_done, post,
                   failed>>

\* An error status, a timeout or another failure: the walk of this table is over,
\* but load_oid_table goes on and still returns 0.
Broken(h) ==
    /\ tpc[h] = "walk"
    /\ NextTable(h)
    /\ torn' = torn \cup {<<h, Table(h)>>}
    /\ UNCHANGED <<session_semaphore, others, mpc, n, advances, suffix_of, mapping_done, post,
                   failed>>

\* load_oid_table returns 0.
Loaded(h) ==
    /\ tpc[h] = "table" /\ iter[h] > Len(TablesOf[h])
    /\ mapping_done' = [mapping_done EXCEPT ![h] = 1]
    /\ tpc' = [tpc EXCEPT ![h] = "post"]
    /\ UNCHANGED <<session_semaphore, others, mpc, n, iter, pos, advances, suffix_of, post,
                   failed, torn>>

\* Variant for mutation: the slot is given back only if the tables were loaded.
Post_OnSuccess(h) ==
    /\ tpc[h] = "post"
    /\ session_semaphore' = session_semaphore + (IF h \in failed THEN 0 ELSE 1)
    /\ tpc' = [tpc EXCEPT ![h] = "ended"]
    /\ UNCHANGED <<others, mpc, n, iter, pos, advances, suffix_of, mapping_done, post, failed,
                   torn>>

\* sem_post, and the thread ends.
Post(h) ==
    /\ tpc[h] = "post"
    /\ session_semaphore' = session_semaphore + 1
    /\ tpc' = [tpc EXCEPT ![h] = "ended"]
    /\ UNCHANGED <<others, mpc, n, iter, pos, advances, suffix_of, mapping_done, post, failed,
                   torn>>

-----------------------------------------------------------------------------
(* map_collection_suffixes                                                  *)

\* Variant for mutation: a value that is in no row is carried on.
MapStep_KeepsValue(h, acc, o) ==
    IF acc.stop \/ acc.val \notin DOMAIN suffix_of[h][o] THEN acc
    ELSE [val |-> suffix_of[h][o][acc.val], stop |-> FALSE]

\* One link of a mapping sequence; a value that is in no row ends the loop.
MapStep(h, acc, o) ==
    IF acc.stop THEN acc
    ELSE IF acc.val \in DOMAIN suffix_of[h][o]
         THEN [val |-> suffix_of[h][o][acc.val], stop |-> FALSE]
         ELSE [val |-> Empty, stop |-> TRUE]

\* The values on the way through a collection's sequence of tables.
MapWalk(c) ==
    LET acc[i \in 0 .. Len(c.seq)] ==
            IF i = 0 THEN [val |-> c.premap, stop |-> FALSE]
            ELSE MapStep(c.host, acc[i - 1], c.seq[i])
    IN acc

\* post_mapping_oid_suffix: hosts that are not done are passed over.
Mapped(c) == IF mapping_done[c.host] # 1 THEN post[c] ELSE MapWalk(c)[Len(c.seq)].val

MapSuffixes ==
    /\ mpc = "map"
    /\ post' = [c \in Collection |-> Mapped(c)]
    /\ mpc' = "done"
    /\ UNCHANGED <<session_semaphore, others, n, threadVars, advances, suffix_of, mapping_done,
                   failed, torn>>

-----------------------------------------------------------------------------
MainStep == CreateThread \/ CreateDone \/ Join \/ JoinDone \/ MapSuffixes

\* The agent answers, or it does not.
WalkStep(h) ==
    \/ \E k \in 1 .. Reps : Response(h, k)
    \/ LastResponse(h) \/ Broken(h)
    \/ \E p \in 0 .. pos[h], k \in 0 .. Reps : Repeat(h, p, k)

ThreadStep(h) ==
    OpenTable(h) \/ OpenFails(h) \/ WalkStep(h) \/ Loaded(h) \/ Post(h)

Next == MainStep \/ (\E h \in Host : ThreadStep(h)) \/ OtherTake \/ OtherGive

Spec == Init /\ [][Next]_vars

\* Threads that can go on do, a request is answered or times out, and the other
\* configuration's polls end.  Slots come and go around main's sem_wait: SF.
Fairness ==
    /\ SF_vars(CreateThread) /\ WF_vars(MainStep) /\ WF_vars(OtherGive)
    /\ \A h \in Host : WF_vars(ThreadStep(h))

FairSpec == Spec /\ Fairness

-----------------------------------------------------------------------------
(* Properties                                                               *)

\* Types of the variables.
TypeOK ==
    /\ session_semaphore \in Nat /\ others \in Nat
    /\ mpc \in {"create", "join", "map", "done"}
    /\ n \in 1 .. NumHosts + 1
    /\ tpc \in [Host -> {"none", "table", "walk", "post", "ended"}]
    /\ iter \in [Host -> Nat \ {0}] /\ pos \in [Host -> Nat]
    /\ advances \in [Host -> BOOLEAN]
    /\ mapping_done \in [Host -> {0, 1}]
    /\ failed \subseteq Host /\ torn \subseteq Host \X Oid

\* Threads between main's sem_wait for them and their sem_post.
HoldingSlot == {h \in Host : tpc[h] \in {"table", "walk", "post"}}

\* No slot is lost or made, whatever fails in a thread, so loading a configuration
\* never takes away from what the running one may use (host_info.cpp:32, 698).
SlotsConserved ==
    session_semaphore + others + Cardinality(HoldingSlot) = Slots

\* mapping_done and the tables are not protected by a lock: main reads them only
\* when no thread can write them any more (host_info.cpp:710, snapp_config.cpp:764).
MappingAfterWalks ==
    mpc \in {"map", "done"} => \A h \in Host : tpc[h] = "ended"

\* Loading the tables ends if the agents advance, however many requests fail and
\* although the other configuration competes for the slots; one agent that does
\* not advance can hold up the whole reload (host_info.cpp:433, 698, 710).
LoadTablesEnd == (\A h \in Host : advances[h]) => <>(mpc = "done")

\* Reference: the suffixes that the rows of the host's agent, all of them, lead to
\* from the configured text, by any choice among rows of equal value.
Reached(c) ==
    LET set[i \in 0 .. Len(c.seq)] ==
            IF i = 0 THEN {c.premap}
            ELSE {r.inst : r \in {q \in ToSet(Agent[c.host][c.seq[i]]) :
                                     extract_value_from_raw(q.raw) \in set[i - 1]}}
    IN set

TrueSuffixes(c) == Reached(c)[Len(c.seq)]

\* The printed names of the tables' variables show all of the suffix.
Printed(c) ==
    \A o \in ToSet(c.seq) :
        o \in Found \/ \A r \in ToSet(Agent[c.host][o]) : Len(r.inst) = 1

\* All tables of c's mapping were read to the end, and no value is in two rows.
ReadWhole(c) ==
    /\ c.host \notin failed
    /\ \A o \in ToSet(c.seq) :
          /\ <<c.host, o>> \notin torn
          /\ \A i, j \in DOMAIN Agent[c.host][o] :
                extract_value_from_raw(Agent[c.host][o][i].raw)
                  = extract_value_from_raw(Agent[c.host][o][j].raw) => i = j

\* What get_collect will ask a device for is the object that was configured,
\* although walks break off, repeat rows and fail: a mapped suffix is one that the
\* agent's rows give, none is missed when the tables were read whole, and a
\* collection without mapping keeps its text, except that of a host whose tables
\* failed to load, which is asked for with no suffix (snapp_config.cpp:764-795,
\* collection_class.cpp:256, 274).
SuffixesRight ==
    mpc = "done" => \A c \in Collection :
        IF c.seq = <<>>
        THEN post[c] = c.premap \/ (c.host \in failed /\ post[c] = Empty)
        ELSE Printed(c) =>
                /\ post[c] # Empty => post[c] \in TrueSuffixes(c)
                /\ ReadWhole(c) /\ TrueSuffixes(c) # {} => post[c] # Empty
=============================================================================
