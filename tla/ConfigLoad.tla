----------------------------- MODULE ConfigLoad -----------------------------
(***************************************************************************)
(* Loading a configuration, again and again: Snapp_config::load_config     *)
(* with its helpers, and create_missing_rrd_files of init_config           *)
(* (src/src/snapp_config.cpp).                                             *)
(*                                                                         *)
(* One connection and one transaction read the hosts, the mapping          *)
(* sequences, the classes with their hosts and collections, and the        *)
(* classes' data sources and archives.  Classes come page by page from a   *)
(* query ordered by class and host: variables that outlive a page join a   *)
(* page's first rows to the class and the host of the page before.  Then   *)
(* the rrd files that do not exist are created, and their directories.     *)
(*                                                                         *)
(* Every query and every call to the file system may fail; the main loop   *)
(* deletes what was loaded and comes back (MainLoop, LoadFails, InitFails).*)
(* The database's transactions see one state of it.  Oids are the ids of   *)
(* the mapping values that hold them; a collection is its own file's name. *)
(***************************************************************************)
EXTENDS Integers, FiniteSets, SequencesExt

CONSTANTS
    Databases,     \* contents: [coll, hosts, oids, rras], see Active and the queries
    First, NextOf, \* the mapping sequences: first value, next value or 0
    MaxSequence,   \* max_sequence_length, 10 in the code
    RowLimit,      \* row_limit, 5000 in the code
    DirOf, Parent, \* a file's directory; a directory's parent, 0 for one that exists
    MaxFaults,     \* bound: failing calls
    MaxChanges     \* bound: changes of the database

Dir == DOMAIN Parent

ASSUME LimitsAssumption == MaxSequence \in Nat /\ RowLimit \in Nat \ {0}
ASSUME BoundsAssumption == MaxFaults \in Nat /\ MaxChanges \in Nat

\* The database's keys are auto_increment columns.
ASSUME DatabasesAssumption ==
    /\ DOMAIN DirOf \subseteq Nat
    /\ \A d \in Databases :
          /\ DOMAIN d.coll \subseteq DOMAIN DirOf /\ IsFiniteSet(DOMAIN d.coll)
          /\ \A c \in DOMAIN d.coll :
                /\ d.coll[c].class \in Nat \ {0} /\ d.coll[c].host \in Nat \ {0}
                /\ d.oids[d.coll[c].class] \in Nat /\ d.rras[d.coll[c].class] \in Nat

\* Paths are finite: directories can be numbered so that parents come first.
ASSUME DirAssumption ==
    /\ Dir \subseteq Nat \ {0} /\ DirOf \in [DOMAIN DirOf -> Dir]
    /\ \A d \in Dir : Parent[d] \in Dir \cup {0} /\ Parent[d] < d

VARIABLES
    db,                \* what the database holds
    stable,            \* do equal rows come in the same order for every page?
    pc,                \* where load_config or create_missing_rrd_files is
    conn,              \* "none", "open" or "transaction"
    host_table,        \* loaded hosts: the keys of each one's oid_table
    sequences,         \* oid_mapping_sequence_db
    collection_class,  \* the classes in the making
    last_db_id, last_host_id, host_index,  \* carried from page to page
    result, affected_rows, \* rows of the present page still to come; all its rows
    num_rows_done,
    rvalue,            \* of the last helper
    failedAt,          \* why the last load or init failed (history)
    k,                 \* collections create_missing_rrd_files has looked at
    dirs, files,       \* the file system
    faults, changes

pageVars == <<last_db_id, last_host_id, host_index, result, affected_rows, num_rows_done>>
loaded == <<host_table, sequences, collection_class, pageVars, rvalue, k>>
env == <<db, stable, changes>>
vars == <<env, pc, conn, loaded, failedAt, dirs, files, faults>>

\* The members of a new Snapp_config.
Fresh ==
    /\ host_table = <<>> /\ sequences = <<>>
    /\ collection_class = <<>>
    /\ last_db_id = -1 /\ last_host_id = -1 /\ host_index = 0
    /\ result = <<>> /\ affected_rows = 0 /\ num_rows_done = 0
    /\ rvalue = 0 /\ k = 0

Init ==
    /\ db \in Databases /\ stable \in BOOLEAN /\ changes = 0
    /\ pc = "idle" /\ conn = "none" /\ Fresh /\ failedAt = "none"
    /\ dirs = {} /\ files = {}
    /\ faults = 0

Fault == faults < MaxFaults /\ faults' = faults + 1

\* load_config or init_config returns: the object is deleted, or published.
Return(why) ==
    /\ pc' = "idle"
    /\ failedAt' = why
    /\ host_table' = <<>> /\ sequences' = <<>>
    /\ collection_class' = <<>>
    /\ last_db_id' = -1 /\ last_host_id' = -1 /\ host_index' = 0
    /\ result' = <<>> /\ affected_rows' = 0 /\ num_rows_done' = 0
    /\ rvalue' = 0 /\ k' = 0

\* Somebody edits the database between two loads.
ChangeDb(d) ==
    /\ pc = "idle" /\ changes < MaxChanges
    /\ db' = d /\ changes' = changes + 1
    /\ UNCHANGED <<stable, pc, conn, loaded, failedAt, dirs, files, faults>>

-----------------------------------------------------------------------------
(* load_config                                                              *)

\* load_xml_config, connect_to_db and START TRANSACTION.
Connect ==
    /\ pc = "idle"
    /\ conn' = "transaction"
    /\ pc' = "hosts"
    /\ UNCHANGED <<env, loaded, failedAt, dirs, files, faults>>

\* dbi_conn_new finds no driver, or the file lacks an attribute that load_xml_config
\* asserts: the process ends, and with it the running configuration.
ConnectExits ==
    /\ pc = "idle" /\ Fault
    /\ pc' = "exited"
    /\ conn' = "none"
    /\ UNCHANGED <<env, loaded, failedAt, dirs, files>>

\* The file cannot be parsed, or the database cannot be reached.
ConnectFails ==
    /\ pc = "idle" /\ Fault
    /\ conn' = "none" /\ Return("connect")
    /\ UNCHANGED <<env, dirs, files>>

\* START TRANSACTION fails: load_config returns without closing the connection.
StartFails ==
    /\ pc = "idle" /\ Fault
    /\ conn' = "open" /\ Return("start")
    /\ UNCHANGED <<env, dirs, files>>

\* goto end_transaction, or the next helper.
Then(place) == pc' = IF rvalue' < 0 THEN "commit" ELSE place

\* Variant for mutation: load_config returns at once.
QueryFails_Returns ==
    /\ pc \in {"hosts", "sequences", "classes", "oids", "rras", "globals"} /\ Fault
    /\ Return("query")
    /\ UNCHANGED <<env, conn, dirs, files>>

\* The query of the present helper fails.
QueryFails ==
    /\ pc \in {"hosts", "sequences", "classes", "oids", "rras", "globals"} /\ Fault
    /\ rvalue' = -1
    /\ Then("commit")
    /\ UNCHANGED <<env, conn, host_table, sequences, collection_class, pageVars, k,
                   failedAt, dirs, files>>

\* load_hosts: hosts of any collection, active or not.  The rows of a host differ
\* in their mapping, the largest id comes first, and insert_new_host ignores a
\* host it knows: only the first row's table is kept.
LoadHosts ==
    /\ pc = "hosts"
    /\ LET mappings(h) == {db.coll[c].mapping : c \in {d \in DOMAIN db.coll :
                                                          db.coll[d].host = h}}
           used == {db.coll[c].host : c \in DOMAIN db.coll}
       IN host_table' = [h \in used \cap db.hosts |->
              {First[m] : m \in {Max(mappings(h))} \cap DOMAIN First}]
    /\ rvalue' = 0
    /\ Then("sequences")
    /\ UNCHANGED <<env, conn, sequences, collection_class, pageVars, k, failedAt,
                   dirs, files, faults>>

\* The i-th value of a mapping, 0 behind the last one.
ValueAt(m, i) ==
    LET value[j \in 1 .. i] ==
            IF j = 1 THEN First[m] ELSE IF value[j - 1] = 0 THEN 0 ELSE NextOf[value[j - 1]]
    IN value[i]

\* The oids of a mapping: the first one and at most MaxSequence others.
Oids(m, limit) ==
    LET len == Max({i \in 1 .. limit + 1 : ValueAt(m, i) # 0})
    IN [i \in 1 .. len |-> ValueAt(m, i)]

\* load_mapping_sequences.
LoadSequences ==
    /\ pc = "sequences"
    /\ sequences' = [m \in DOMAIN First |-> Oids(m, MaxSequence)]
    /\ rvalue' = 0
    /\ Then("classes")
    /\ UNCHANGED <<env, conn, host_table, collection_class, pageVars, k, failedAt,
                   dirs, files, faults>>

\* The same, with a failing query for one of the other values: the sequence ends
\* there, and load_mapping_sequences returns 0.
LoadSequencesCut(m, limit) ==
    /\ pc = "sequences" /\ Fault
    /\ sequences' = [q \in DOMAIN First |-> Oids(q, IF q = m THEN limit ELSE MaxSequence)]
    /\ rvalue' = 0
    /\ Then("classes")
    /\ UNCHANGED <<env, conn, host_table, collection_class, pageVars, k, failedAt, dirs,
                   files>>

\* The rows of the query behind load_collection_class_block.
Active == {c \in DOMAIN db.coll : db.coll[c].active}

\* Its order: by class, then by host, equal rows as the database likes.
Before(c, d) ==
    \/ db.coll[c].class < db.coll[d].class
    \/ db.coll[c].class = db.coll[d].class /\ db.coll[c].host < db.coll[d].host

Orders ==
    {s \in SetToSeqs(Active) :
        \A i, j \in DOMAIN s : i < j =>
            /\ ~Before(s[j], s[i])
            /\ stable /\ ~Before(s[i], s[j]) => s[i] < s[j]}

LastRow(s) ==
    IF Len(s) < num_rows_done + RowLimit THEN Len(s) ELSE num_rows_done + RowLimit

\* What the loop over a page's rows changes; bad: it returned -1.
Page == [classes |-> collection_class, tables |-> host_table, last_db_id |-> last_db_id,
         last_host_id |-> last_host_id, host_index |-> host_index, bad |-> FALSE]

\* A row of another class than the last one begins a new class.
NewClass(p, r) ==
    IF p.last_db_id = r.class THEN p
    ELSE [p EXCEPT !.classes = Append(@, [db_id |-> r.class, host |-> <<>>, oid |-> 0, rra |-> 0]),
                   !.last_db_id = r.class, !.last_host_id = -1, !.host_index = 0]

\* A row of another host than the last one adds a host; one that is not in the
\* host table ends the load.
NewHost(p, r) ==
    IF p.last_host_id = r.host THEN p
    ELSE IF r.host \notin DOMAIN p.tables THEN [p EXCEPT !.bad = TRUE]
    ELSE LET i == Len(p.classes)
         IN [p EXCEPT !.classes[i].host = Append(@, [db_id |-> r.host, collection |-> <<>>]),
                      !.host_index = Len(p.classes[i].host) + 1,
                      !.last_host_id = r.host]

\* An empty table for every oid of the row's mapping sequence is added to the
\* host; a mapping that is not known ends the load.
AddTables(p, r) ==
    IF p.bad \/ r.mapping = 0 THEN p
    ELSE IF r.mapping \notin DOMAIN sequences THEN [p EXCEPT !.bad = TRUE]
    ELSE LET h == p.classes[Len(p.classes)].host[p.host_index].db_id
         IN [p EXCEPT !.tables[h] = @ \cup ToSet(sequences[r.mapping])]

\* One turn of the loop.
AddRow(p, c) ==
    IF p.bad THEN p
    ELSE LET r == db.coll[c]
             q == AddTables(NewHost(NewClass(p, r), r), r)
         IN IF q.bad THEN q
            ELSE [q EXCEPT !.classes[Len(q.classes)].host[q.host_index].collection = Append(@, c)]

\* Variant for mutation: the offset of the next page is one too small.
QueryPage_Overlaps(s) ==
    /\ pc = "classes"
    /\ result' = SubSeq(s, num_rows_done + 1, LastRow(s))
    /\ affected_rows' = Len(result')
    /\ num_rows_done' = num_rows_done + Len(result') - (IF Len(result') = RowLimit THEN 1 ELSE 0)
    /\ pc' = "rows"
    /\ UNCHANGED <<env, conn, host_table, sequences, collection_class, last_db_id,
                   last_host_id, host_index, rvalue, k, failedAt, dirs, files, faults>>

\* The query of load_collection_class_block, with limit and offset.
QueryPage(s) ==
    /\ pc = "classes"
    /\ result' = SubSeq(s, num_rows_done + 1, LastRow(s))
    /\ affected_rows' = Len(result')
    /\ num_rows_done' = num_rows_done + Len(result')
    /\ pc' = "rows"
    /\ UNCHANGED <<env, conn, host_table, sequences, collection_class, last_db_id,
                   last_host_id, host_index, rvalue, k, failedAt, dirs, files, faults>>

\* One turn of its loop over the rows.
LoadRow ==
    /\ pc = "rows" /\ result # <<>>
    /\ LET p == AddRow(Page, Head(result)) IN
       /\ collection_class' = p.classes /\ host_table' = p.tables
       /\ last_db_id' = p.last_db_id /\ last_host_id' = p.last_host_id
       /\ host_index' = p.host_index
       /\ rvalue' = IF p.bad THEN -1 ELSE 0
    /\ Then("rows")
    /\ result' = Tail(result)
    /\ UNCHANGED <<env, conn, sequences, affected_rows, num_rows_done, k, failedAt, dirs,
                   files, faults>>

\* load_collection_classes goes on as long as pages are full.
PageDone ==
    /\ pc = "rows" /\ result = <<>>
    /\ pc' = IF affected_rows = RowLimit THEN "classes" ELSE "oids"
    /\ UNCHANGED <<env, conn, loaded, failedAt, dirs, files, faults>>

\* load_colection_classes_oid: how many data sources each class has.
LoadOids ==
    /\ pc = "oids"
    /\ collection_class' = [i \in DOMAIN collection_class |->
           [collection_class[i] EXCEPT !.oid = db.oids[collection_class[i].db_id]]]
    /\ rvalue' = 0
    /\ Then("rras")
    /\ UNCHANGED <<env, conn, host_table, sequences, pageVars, k, failedAt, dirs,
                   files, faults>>

\* load_colection_classes_rra: how many archives.
LoadRras ==
    /\ pc = "rras"
    /\ collection_class' = [i \in DOMAIN collection_class |->
           [collection_class[i] EXCEPT !.rra = db.rras[collection_class[i].db_id]]]
    /\ rvalue' = 0
    /\ Then("globals")
    /\ UNCHANGED <<env, conn, host_table, sequences, pageVars, k, failedAt, dirs,
                   files, faults>>

\* load_globals: rrd_dir, under which DirOf places the files.
LoadGlobals ==
    /\ pc = "globals"
    /\ rvalue' = 0
    /\ Then("commit")
    /\ UNCHANGED <<env, conn, host_table, sequences, collection_class, pageVars, k,
                   failedAt, dirs, files, faults>>

\* COMMIT, dbi_conn_close, and return what the helpers returned.
Commit ==
    /\ pc = "commit"
    /\ conn' = "none"
    /\ IF rvalue < 0 THEN Return("query")
       ELSE pc' = "files" /\ UNCHANGED <<loaded, failedAt>>
    /\ UNCHANGED <<env, dirs, files, faults>>

\* COMMIT fails: return without closing the connection.
CommitFails ==
    /\ pc = "commit" /\ Fault
    /\ Return("commit")
    /\ UNCHANGED <<env, conn, dirs, files>>

-----------------------------------------------------------------------------
(* create_missing_rrd_files                                                 *)

\* Its three loops, as one sequence of class index and collection.
Wanted ==
    FlattenSeq([i \in DOMAIN collection_class |->
        FlattenSeq([j \in DOMAIN collection_class[i].host |->
            [l \in DOMAIN collection_class[i].host[j].collection |->
                <<i, collection_class[i].host[j].collection[l]>>]])])

\* Variant for mutation: the missing parent is not made.
recursive_dir_create_Flat(d) == IF Parent[d] \in dirs \cup {0} THEN {d} ELSE {}

\* Variant for mutation: the path is cut one component too early.
recursive_dir_create_Short(d) ==
    LET top[e \in Dir] == IF Parent[e] \in dirs \cup {0} THEN e ELSE top[Parent[e]]
    IN {Parent[top[d]]}

\* The directories recursive_dir_create(d) makes: mkdir fails with ENOENT up to the
\* topmost missing one, which is made; then every level returns -1 without a
\* second mkdir, for the ENOENT case runs into the default one.
recursive_dir_create(d) ==
    LET top[e \in Dir] == IF Parent[e] \in dirs \cup {0} THEN e ELSE top[Parent[e]]
    IN {top[d]}

File == Wanted[k + 1][2]
FileMissing == pc = "files" /\ k < Len(Wanted) /\ File \notin files
Complete(class) == class.oid > 0 /\ class.rra > 0
NextFile ==
    /\ k' = k + 1
    /\ UNCHANGED <<env, pc, conn, host_table, sequences, collection_class, pageVars,
                   rvalue, failedAt>>

\* A file that exists is left alone.
KeepFile ==
    /\ pc = "files" /\ k < Len(Wanted) /\ File \in files
    /\ NextFile
    /\ UNCHANGED <<dirs, files, faults>>

\* The directory and the file are made.  What recursive_dir_create returns is
\* ignored; rrd_create_r fails if there is no directory, and that is only logged.
CreateFile ==
    /\ FileMissing /\ Complete(collection_class[Wanted[k + 1][1]])
    /\ dirs' = dirs \cup recursive_dir_create(DirOf[File])
    /\ files' = IF DirOf[File] \in dirs' THEN files \cup {File} ELSE files
    /\ NextFile
    /\ UNCHANGED faults

\* mkdir or rrd_create_r fails for another reason, a full disk or a permission.
CreateFault ==
    /\ FileMissing /\ Complete(collection_class[Wanted[k + 1][1]]) /\ Fault
    /\ dirs' \in {dirs, dirs \cup recursive_dir_create(DirOf[File])}
    /\ NextFile
    /\ UNCHANGED files

\* A class without data sources or archives ends the loop, and init_config.
ClassIncomplete ==
    /\ FileMissing /\ ~Complete(collection_class[Wanted[k + 1][1]])
    /\ dirs' = dirs \cup recursive_dir_create(DirOf[File])
    /\ Return("class")
    /\ UNCHANGED <<env, conn, files, faults>>

\* init_config goes on with load_host_tables (HostTables).
FilesDone ==
    /\ pc = "files" /\ k = Len(Wanted)
    /\ pc' = "tables"
    /\ UNCHANGED <<env, conn, loaded, failedAt, dirs, files, faults>>

\* init_config returns 0, and the configuration is in use until the next load.
Publish ==
    /\ pc = "tables"
    /\ Return("none")
    /\ UNCHANGED <<env, conn, dirs, files, faults>>

-----------------------------------------------------------------------------
LoadStep ==
    \/ Connect \/ ConnectExits \/ ConnectFails \/ StartFails \/ QueryFails
    \/ LoadHosts \/ LoadSequences
    \/ \E m \in DOMAIN First, limit \in 0 .. MaxSequence - 1 : LoadSequencesCut(m, limit)
    \/ pc = "classes" /\ \E s \in Orders : QueryPage(s)
    \/ LoadRow \/ PageDone
    \/ LoadOids \/ LoadRras \/ LoadGlobals \/ Commit \/ CommitFails

FileStep == KeepFile \/ CreateFile \/ CreateFault \/ ClassIncomplete \/ FilesDone \/ Publish

\* The process is gone.
Exited == pc = "exited" /\ UNCHANGED vars

Next == LoadStep \/ FileStep \/ (\E d \in Databases : ChangeDb(d)) \/ Exited

Spec == Init /\ [][Next]_vars

\* The main loop reloads every 7200 s at the latest, and calls return.
FairSpec == Spec /\ WF_vars(LoadStep \/ FileStep)

-----------------------------------------------------------------------------
(* Properties                                                               *)

\* Types of the variables.
TypeOK ==
    /\ db \in Databases /\ stable \in BOOLEAN
    /\ pc \in {"idle", "hosts", "sequences", "classes", "rows", "oids", "rras", "globals",
               "commit", "files", "tables", "exited"}
    /\ conn \in {"none", "open", "transaction"}
    /\ last_db_id \in Int /\ last_host_id \in Int
    /\ host_index \in Nat /\ num_rows_done \in Nat /\ k \in Nat
    /\ rvalue \in {-1, 0}
    /\ failedAt \in {"none", "connect", "start", "query", "commit", "class"}
    /\ dirs \subseteq Dir /\ files \subseteq DOMAIN DirOf
    /\ faults \in 0 .. MaxFaults /\ changes \in 0 .. MaxChanges

\* Whatever query fails, load_config ends its transaction and closes its
\* connection, so that a failed load leaves no lock in the database; only a
\* failing START TRANSACTION or COMMIT leaves a connection (snapp_config.cpp:508-559).
NoTransactionLeft ==
    pc \in {"idle", "files", "tables"} /\ conn # "none" => failedAt \in {"start", "commit"}

Increasing(s) == \A i \in 2 .. Len(s) : s[i - 1] < s[i]
ClassIds == [i \in DOMAIN collection_class |-> collection_class[i].db_id]
HostIds(i) == [j \in DOMAIN collection_class[i].host |-> collection_class[i].host[j].db_id]
RowsOf(cl, h) == {c \in Active : db.coll[c].class = cl /\ db.coll[c].host = h}

\* What was loaded before COMMIT is what one query without pages would give, for
\* every way rows fall into pages: every class once, in it every host once, and
\* with each host as many collections as there are rows, each of them once if the
\* database orders equal rows alike for all pages; and each host has a table for
\* every oid that its collections' mappings go through (snapp_config.cpp:107-248).
LoadFaithful ==
    pc = "commit" /\ rvalue = 0 =>
        /\ Increasing(ClassIds)
        /\ ToSet(ClassIds) = {db.coll[c].class : c \in Active}
        /\ \A i \in DOMAIN collection_class :
              LET class == collection_class[i] IN
              /\ Increasing(HostIds(i))
              /\ ToSet(HostIds(i)) = {db.coll[c].host : c \in
                                        {d \in Active : db.coll[d].class = class.db_id}}
              /\ \A j \in DOMAIN class.host :
                    LET h == class.host[j]
                        rows == RowsOf(class.db_id, h.db_id) IN
                    /\ Len(h.collection) = Cardinality(rows)
                    /\ ToSet(h.collection) \subseteq rows
                    /\ stable => ToSet(h.collection) = rows
                    /\ \A c \in ToSet(h.collection) : db.coll[c].mapping # 0 =>
                          ToSet(sequences[db.coll[c].mapping]) \subseteq host_table[h.db_id]

\* A database that can be loaded: every host and mapping exists, and every class
\* has data sources and archives.
Loadable ==
    \A c \in Active :
        /\ db.coll[c].host \in db.hosts
        /\ db.coll[c].mapping \in DOMAIN First \cup {0}
        /\ db.oids[db.coll[c].class] > 0 /\ db.rras[db.coll[c].class] > 0

\* Every file is there in the end, however deep the missing directories are and
\* although a load makes one of their levels at a time, as long as loads go on and
\* failures end, unless one of them ended the process.  With an order of equal rows that changes from page to page a
\* collection may be missed in every load (snapp_config.cpp:162, 564-592, 628-643).
FilesConverge ==
    stable => <>[](Loadable => Active \subseteq files) \/ <>(pc = "exited")

\* "Create missing rrdfiles, should also create the dirs if missing!"
\* (snapp_config.cpp:597): when create_missing_rrd_files is done and nothing
\* failed, there is a file for every collection.
FilesCreated ==
    pc = "tables" /\ faults = 0 => {Wanted[i][2] : i \in DOMAIN Wanted} \subseteq files
=============================================================================
