-------------------------- MODULE HostTablesProofs --------------------------
(***************************************************************************)
(* Proofs about HostTables, for any number of hosts and slots, any tables, *)
(* agents and collections.                                                 *)
(***************************************************************************)
EXTENDS HostTables, QueueFacts, FiniteSetTheorems, SequenceTheorems, TLAPS

\* Main's loops: threads are created in order, and joined in order.
LoopsInOrder ==
    /\ mpc = "create" => \A h \in Host : h >= n => tpc[h] = "none"
    /\ mpc = "join" => \A h \in Host : h < n => tpc[h] = "ended"

\* A thread that walks a table walks one of its host's.
WalksTable ==
    \A h \in Host : tpc[h] = "walk" => iter[h] <= Len(TablesOf[h])

\* The inductive invariant.
IInv == TypeOK /\ SlotsConserved /\ LoopsInOrder /\ MappingAfterWalks /\ WalksTable

LEMMA Constants ==
    /\ NumHosts \in Nat /\ Host = 1 .. NumHosts
    /\ TablesOf \in [Host -> Seq(Oid)]
    /\ Slots \in Nat
  BY NumHostsAssumption, TablesAssumption, BoundsAssumption DEF Host

\* The threads that hold a slot are finitely many.
LEMMA HoldersFinite == IsFiniteSet(HoldingSlot) /\ Cardinality(HoldingSlot) \in Nat
  <1>1. IsFiniteSet(Host)
    BY Constants, FS_Interval
  <1>2. HoldingSlot \subseteq Host
    BY DEF HoldingSlot
  <1> QED
    BY <1>1, <1>2, FS_Subset, FS_CardinalityType

\* A table that is being walked is one of the mappings' tables.
LEMMA TableType ==
    ASSUME TypeOK, WalksTable, NEW h \in Host, tpc[h] = "walk"
    PROVE  Table(h) \in Oid
  <1>1. TablesOf[h] \in Seq(Oid) /\ Len(TablesOf[h]) \in Nat
    BY Constants
  <1>2. iter[h] \in 1 .. Len(TablesOf[h])
    BY <1>1 DEF TypeOK, WalksTable
  <1> QED
    BY <1>1, <1>2, ElementOfSeq DEF Table

LEMMA InitIInv == Init => IInv
  <1> SUFFICES ASSUME Init PROVE IInv
    OBVIOUS
  <1> USE Constants DEF Init
  <1>1. TypeOK
    BY DEF TypeOK
  <1>2. HoldingSlot = {}
    BY DEF HoldingSlot
  <1>3. SlotsConserved
    BY <1>2, FS_EmptySet DEF SlotsConserved
  <1>4. LoopsInOrder /\ MappingAfterWalks /\ WalksTable
    BY DEF LoopsInOrder, MappingAfterWalks, WalksTable
  <1> QED
    BY <1>1, <1>3, <1>4 DEF IInv

-----------------------------------------------------------------------------
(* Steps of main and of the other configuration                             *)

LEMMA OtherTakeIInv == IInv /\ OtherTake => IInv'
  <1> SUFFICES ASSUME IInv, OtherTake PROVE IInv'
    OBVIOUS
  <1> USE DEF OtherTake, threadVars
  <1>1. TypeOK'
    BY DEF IInv, TypeOK
  <1>2. HoldingSlot' = HoldingSlot
    BY DEF HoldingSlot
  <1>3. SlotsConserved'
    BY <1>2, HoldersFinite, Constants DEF IInv, TypeOK, SlotsConserved
  <1>4. LoopsInOrder' /\ MappingAfterWalks' /\ WalksTable'
    BY DEF IInv, LoopsInOrder, MappingAfterWalks, WalksTable
  <1> QED
    BY <1>1, <1>3, <1>4 DEF IInv

LEMMA OtherGiveIInv == IInv /\ OtherGive => IInv'
  <1> SUFFICES ASSUME IInv, OtherGive PROVE IInv'
    OBVIOUS
  <1> USE DEF OtherGive, threadVars
  <1>1. TypeOK'
    BY DEF IInv, TypeOK
  <1>2. HoldingSlot' = HoldingSlot
    BY DEF HoldingSlot
  <1>3. SlotsConserved'
    BY <1>2, HoldersFinite, Constants DEF IInv, TypeOK, SlotsConserved
  <1>4. LoopsInOrder' /\ MappingAfterWalks' /\ WalksTable'
    BY DEF IInv, LoopsInOrder, MappingAfterWalks, WalksTable
  <1> QED
    BY <1>1, <1>3, <1>4 DEF IInv

\* The thread of host n did not exist, so one more holds the slot taken for it.
LEMMA CreateThreadIInv == IInv /\ CreateThread => IInv'
  <1> SUFFICES ASSUME IInv, CreateThread PROVE IInv'
    OBVIOUS
  <1> USE DEF CreateThread
  <1>1. n \in Host /\ tpc[n] = "none"
    BY Constants DEF IInv, TypeOK, LoopsInOrder
  <1>2. TypeOK'
    BY <1>1, Constants DEF IInv, TypeOK
  <1>3. HoldingSlot' = HoldingSlot \cup {n} /\ n \notin HoldingSlot
    BY <1>1 DEF HoldingSlot, IInv, TypeOK
  <1>4. Cardinality(HoldingSlot') = Cardinality(HoldingSlot) + 1
    BY <1>3, HoldersFinite, FS_AddElement
  <1>5. SlotsConserved'
    BY <1>4, HoldersFinite, Constants DEF IInv, TypeOK, SlotsConserved
  <1>6. LoopsInOrder'
    BY Constants DEF IInv, TypeOK, LoopsInOrder
  <1>7. MappingAfterWalks' /\ WalksTable'
    BY <1>1 DEF IInv, TypeOK, MappingAfterWalks, WalksTable
  <1> QED
    BY <1>2, <1>5, <1>6, <1>7 DEF IInv

LEMMA MainKeeps ==
    ASSUME IInv, UNCHANGED <<session_semaphore, others, threadVars>>
    PROVE  SlotsConserved' /\ WalksTable'
  <1> USE DEF threadVars
  <1>1. HoldingSlot' = HoldingSlot
    BY DEF HoldingSlot
  <1> QED
    BY <1>1 DEF IInv, SlotsConserved, WalksTable

LEMMA CreateDoneIInv == IInv /\ CreateDone => IInv'
  <1> SUFFICES ASSUME IInv, CreateDone PROVE IInv'
    OBVIOUS
  <1> USE DEF CreateDone, threadVars
  <1>1. TypeOK'
    BY Constants DEF IInv, TypeOK
  <1>2. LoopsInOrder' /\ MappingAfterWalks'
    BY Constants DEF LoopsInOrder, MappingAfterWalks
  <1> QED
    BY <1>1, <1>2, MainKeeps DEF IInv

LEMMA JoinIInv == IInv /\ Join => IInv'
  <1> SUFFICES ASSUME IInv, Join PROVE IInv'
    OBVIOUS
  <1> USE DEF Join, threadVars
  <1>1. TypeOK'
    BY Constants DEF IInv, TypeOK
  <1>2. LoopsInOrder' /\ MappingAfterWalks'
    BY Constants DEF IInv, TypeOK, LoopsInOrder, MappingAfterWalks
  <1> QED
    BY <1>1, <1>2, MainKeeps DEF IInv

LEMMA JoinDoneIInv == IInv /\ JoinDone => IInv'
  <1> SUFFICES ASSUME IInv, JoinDone PROVE IInv'
    OBVIOUS
  <1> USE DEF JoinDone, threadVars
  <1>1. TypeOK'
    BY DEF IInv, TypeOK
  <1>2. LoopsInOrder' /\ MappingAfterWalks'
    BY Constants DEF IInv, TypeOK, LoopsInOrder, MappingAfterWalks
  <1> QED
    BY <1>1, <1>2, MainKeeps DEF IInv

LEMMA MapSuffixesIInv == IInv /\ MapSuffixes => IInv'
  <1> SUFFICES ASSUME IInv, MapSuffixes PROVE IInv'
    OBVIOUS
  <1> USE DEF MapSuffixes, threadVars
  <1>1. TypeOK'
    BY DEF IInv, TypeOK
  <1>2. LoopsInOrder' /\ MappingAfterWalks'
    BY DEF IInv, LoopsInOrder, MappingAfterWalks
  <1> QED
    BY <1>1, <1>2, MainKeeps DEF IInv

-----------------------------------------------------------------------------
(* Steps of a thread                                                        *)

\* A thread that exists and has not ended moves to another place and keeps its slot.
LEMMA ThreadKeeps ==
    ASSUME IInv, NEW h \in Host, NEW place \in {"table", "walk", "post"},
           tpc[h] \in {"table", "walk", "post"},
           tpc' = [tpc EXCEPT ![h] = place],
           UNCHANGED <<session_semaphore, others, mpc, n>>
    PROVE  SlotsConserved' /\ LoopsInOrder' /\ MappingAfterWalks'
  <1>1. HoldingSlot' = HoldingSlot
    BY DEF HoldingSlot, IInv, TypeOK
  <1>2. LoopsInOrder'
    BY DEF IInv, TypeOK, LoopsInOrder
  <1>3. MappingAfterWalks'
    BY DEF IInv, TypeOK, MappingAfterWalks
  <1> QED
    BY <1>1, <1>2, <1>3 DEF IInv, SlotsConserved

LEMMA OpenTableIInv == ASSUME IInv, NEW h \in Host, OpenTable(h) PROVE IInv'
  <1> USE DEF OpenTable
  <1>1. TypeOK'
    BY DEF IInv, TypeOK
  <1>2. WalksTable'
    BY DEF IInv, TypeOK, WalksTable
  <1> QED
    BY <1>1, <1>2, ThreadKeeps DEF IInv

LEMMA OpenFailsIInv == ASSUME IInv, NEW h \in Host, OpenFails(h) PROVE IInv'
  <1> USE DEF OpenFails
  <1>1. TypeOK'
    BY DEF IInv, TypeOK
  <1>2. WalksTable'
    BY DEF IInv, TypeOK, WalksTable
  <1> QED
    BY <1>1, <1>2, ThreadKeeps DEF IInv

LEMMA LoadedIInv == ASSUME IInv, NEW h \in Host, Loaded(h) PROVE IInv'
  <1> USE DEF Loaded
  <1>1. TypeOK'
    BY DEF IInv, TypeOK
  <1>2. WalksTable'
    BY DEF IInv, TypeOK, WalksTable
  <1> QED
    BY <1>1, <1>2, ThreadKeeps DEF IInv

\* The end of a table, after its last response or because the walk broke off.
LEMMA NextTableIInv ==
    ASSUME IInv, NEW h \in Host, tpc[h] = "walk", NextTable(h),
           torn' \in {torn, torn \cup {<<h, Table(h)>>}},
           UNCHANGED <<session_semaphore, others, mpc, n, advances, mapping_done, failed>>
    PROVE  IInv'
  <1> USE DEF NextTable
  <1>1. Table(h) \in Oid
    BY TableType DEF IInv
  <1>2. torn' \subseteq Host \X Oid
    BY <1>1 DEF IInv, TypeOK
  <1>3. TypeOK'
    BY <1>2 DEF IInv, TypeOK
  <1>4. WalksTable'
    BY DEF IInv, TypeOK, WalksTable
  <1> QED
    BY <1>3, <1>4, ThreadKeeps DEF IInv

\* A response in the middle of a table.
LEMMA ResponseIInv ==
    ASSUME IInv, NEW h \in Host, tpc[h] = "walk", NEW p \in Nat,
           pos' = [pos EXCEPT ![h] = p],
           torn' \in {torn, torn \cup {<<h, Table(h)>>}},
           UNCHANGED <<session_semaphore, others, mpc, n, tpc, iter, advances, mapping_done,
                       failed>>
    PROVE  IInv'
  <1>1. Table(h) \in Oid
    BY TableType DEF IInv
  <1>2. torn' \subseteq Host \X Oid
    BY <1>1 DEF IInv, TypeOK
  <1>3. TypeOK'
    BY <1>2 DEF IInv, TypeOK
  <1>4. tpc' = [tpc EXCEPT ![h] = "walk"]
    BY DEF IInv, TypeOK
  <1>5. WalksTable'
    BY DEF IInv, WalksTable
  <1> QED
    BY <1>3, <1>4, <1>5, ThreadKeeps DEF IInv

LEMMA WalkStepIInv == ASSUME IInv, NEW h \in Host, WalkStep(h) PROVE IInv'
  <1>1. ASSUME NEW k \in 1 .. Reps, Response(h, k) PROVE IInv'
    <2>1. pos[h] + k \in Nat
      BY BoundsAssumption DEF IInv, TypeOK
    <2> QED
      BY <1>1, <2>1, ResponseIInv DEF Response
  <1>2. ASSUME NEW p \in 0 .. pos[h], NEW k \in 0 .. Reps, Repeat(h, p, k) PROVE IInv'
    <2>1. pos[h] \in Nat /\ p + k \in Nat
      BY BoundsAssumption DEF IInv, TypeOK
    <2> DEFINE q == IF k = 0 THEN pos[h] ELSE p + k
    <2>2. q \in Nat /\ pos' = [pos EXCEPT ![h] = q]
      BY <1>2, <2>1 DEF Repeat
    <2> HIDE DEF q
    <2> QED
      BY <1>2, <2>2, ResponseIInv DEF Repeat
  <1>3. CASE LastResponse(h)
    BY <1>3, NextTableIInv DEF LastResponse
  <1>4. CASE Broken(h)
    BY <1>4, NextTableIInv DEF Broken
  <1> QED
    BY <1>1, <1>2, <1>3, <1>4 DEF WalkStep

LEMMA PostIInv == ASSUME IInv, NEW h \in Host, Post(h) PROVE IInv'
  <1> USE DEF Post
  <1>1. TypeOK'
    BY DEF IInv, TypeOK
  <1>2. HoldingSlot' = HoldingSlot \ {h} /\ h \in HoldingSlot
    BY DEF HoldingSlot, IInv, TypeOK
  <1>3. Cardinality(HoldingSlot') = Cardinality(HoldingSlot) - 1
    BY <1>2, HoldersFinite, FS_RemoveElement
  <1>4. SlotsConserved'
    BY <1>3, HoldersFinite, Constants DEF IInv, TypeOK, SlotsConserved
  <1>5. LoopsInOrder' /\ MappingAfterWalks' /\ WalksTable'
    BY DEF IInv, TypeOK, LoopsInOrder, MappingAfterWalks, WalksTable
  <1> QED
    BY <1>1, <1>4, <1>5 DEF IInv

-----------------------------------------------------------------------------
LEMMA NextIInv == IInv /\ [Next]_vars => IInv'
  <1> SUFFICES ASSUME IInv, [Next]_vars PROVE IInv'
    OBVIOUS
  <1>1. CASE MainStep
    BY <1>1, CreateThreadIInv, CreateDoneIInv, JoinIInv, JoinDoneIInv, MapSuffixesIInv
       DEF MainStep
  <1>2. ASSUME NEW h \in Host, ThreadStep(h) PROVE IInv'
    BY <1>2, OpenTableIInv, OpenFailsIInv, WalkStepIInv, LoadedIInv, PostIInv DEF ThreadStep
  <1>3. CASE OtherTake \/ OtherGive
    BY <1>3, OtherTakeIInv, OtherGiveIInv
  <1>4. CASE UNCHANGED vars
    <2> USE <1>4 DEF vars, threadVars
    <2>1. TypeOK'
      BY DEF IInv, TypeOK
    <2>2. LoopsInOrder' /\ MappingAfterWalks'
      BY DEF IInv, LoopsInOrder, MappingAfterWalks
    <2> QED
      BY <2>1, <2>2, MainKeeps DEF IInv
  <1> QED
    BY <1>1, <1>2, <1>3, <1>4 DEF Next

LEMMA SpecIInv == Spec => []IInv
  BY InitIInv, NextIInv, PTL DEF Spec

-----------------------------------------------------------------------------
\* The variables keep their types; a failed walk is always one of a known table.
THEOREM TypeCorrect == Spec => []TypeOK
  <1>1. IInv => TypeOK
    BY DEF IInv
  <1> QED
    BY <1>1, SpecIInv, PTL

\* For any number of hosts and slots, however load_host_tables, the threads' error
\* paths and the running configuration interleave, every slot is free or has one owner.
THEOREM NoSlotLost == Spec => []SlotsConserved
  <1>1. IInv => SlotsConserved
    BY DEF IInv
  <1> QED
    BY <1>1, SpecIInv, PTL

\* map_collection_suffixes starts only when every thread of load_host_tables has ended.
THEOREM WalksEndBeforeMapping == Spec => []MappingAfterWalks
  <1>1. IInv => MappingAfterWalks
    BY DEF IInv
  <1> QED
    BY <1>1, SpecIInv, PTL

\* A step that leaves the tables and mapping_done alone once main reads them.
TablesStill == mpc \in {"map", "done"} => UNCHANGED <<suffix_of, mapping_done>>

\* The tables and mapping_done, which no lock protects, do not change any more once
\* main has joined the threads and reads them.
THEOREM TablesFrozen == Spec => [][TablesStill]_vars
  <1>1. ASSUME IInv, [Next]_vars, mpc \in {"map", "done"}
        PROVE  UNCHANGED <<suffix_of, mapping_done>>
    <2>1. CASE MainStep
      BY <1>1, <2>1 DEF MainStep, CreateThread, CreateDone, Join, JoinDone, MapSuffixes
    <2>2. ASSUME NEW h \in Host, ThreadStep(h) PROVE FALSE
      <3>1. tpc[h] = "ended"
        BY <1>1 DEF IInv, MappingAfterWalks
      <3> QED
        BY <2>2, <3>1 DEF ThreadStep, OpenTable, OpenFails, WalkStep, Response, LastResponse,
           Broken, Repeat, Loaded, Post
    <2>3. CASE OtherTake \/ OtherGive
      BY <2>3 DEF OtherTake, OtherGive
    <2>4. CASE UNCHANGED vars
      BY <2>4 DEF vars
    <2> QED
      BY <1>1, <2>1, <2>2, <2>3, <2>4 DEF Next
  <1>2. IInv /\ [Next]_vars => [TablesStill]_vars
    BY <1>1 DEF TablesStill
  <1> QED
    BY <1>2, SpecIInv, PTL DEF Spec

-----------------------------------------------------------------------------
(* What the tables hold                                                     *)

\* The value of a row, as it is looked up.
ValueOf(q) == extract_value_from_raw(q.raw)

\* The rows of table o at host h.
RowsOf(h, o) == Agent[h][o]

\* Every entry of a table comes from a row of the agent.
TablesSound ==
    \A h \in Host, o \in Oid : \A v \in DOMAIN suffix_of[h][o] :
        \E i \in 1 .. Len(RowsOf(h, o)) :
            /\ ValueOf(RowsOf(h, o)[i]) = v
            /\ suffix_of[h][o][v] = SuffixStr(o, RowsOf(h, o)[i].inst)

\* The values of the first k rows are in the table.
HasRows(h, o, k) ==
    \A i \in 1 .. k : ValueOf(RowsOf(h, o)[i]) \in DOMAIN suffix_of[h][o]

\* The tables before a thread's iterator are read to the end or torn.
TablesRead ==
    \A h \in Host : \A j \in 1 .. Len(TablesOf[h]) :
        j < iter[h] => \/ <<h, TablesOf[h][j]>> \in torn
                       \/ HasRows(h, TablesOf[h][j], Len(RowsOf(h, TablesOf[h][j])))

\* The rows before the position of a walk are read, also when the agent goes back.
RowsRead ==
    \A h \in Host : tpc[h] = "walk" =>
        pos[h] <= Len(Rows(h)) /\ HasRows(h, Table(h), pos[h])

\* A thread that is through has failed or has come to the end of its tables.
ThroughOrFailed ==
    \A h \in Host : tpc[h] \in {"post", "ended"} =>
        h \in failed \/ (mapping_done[h] = 1 /\ iter[h] > Len(TablesOf[h]))

\* Nothing is mapped before the tables are complete.
NotMappedYet == mpc # "done" => \A c \in Collection : post[c] = Empty

TablesShape == suffix_of = [h \in Host |-> [o \in Oid |-> suffix_of[h][o]]]

\* The second inductive invariant, on top of IInv.
TInv ==
    /\ TablesShape /\ TablesSound /\ TablesRead /\ RowsRead /\ ThroughOrFailed
    /\ NotMappedYet /\ SuffixesRight

\* A set of numbers up to n that is not empty has a greatest one.
LEMMA Greatest ==
    ASSUME NEW k \in Nat, NEW T \in SUBSET (1 .. k), T # {}
    PROVE  \E i \in T : \A j \in T : j <= i
  <1> DEFINE S == {m \in Nat : \A U \in SUBSET (1 .. m) :
                      U # {} => \E i \in U : \A j \in U : j <= i}
  <1>1. 0 \in S
    <2>1. 1 .. 0 = {}
      OBVIOUS
    <2> QED
      BY <2>1
  <1>2. ASSUME NEW m \in Nat, m \in S PROVE m + 1 \in S
    <2> SUFFICES ASSUME NEW U \in SUBSET (1 .. m + 1), U # {}
                 PROVE  \E i \in U : \A j \in U : j <= i
      OBVIOUS
    <2>1. CASE m + 1 \in U
      <3> WITNESS m + 1 \in U
      <3> QED
        OBVIOUS
    <2>2. CASE m + 1 \notin U
      <3>1. U \in SUBSET (1 .. m)
        BY <2>2
      <3> QED
        BY <1>2, <3>1
    <2> QED
      BY <2>1, <2>2
  <1> HIDE DEF S
  <1>3. k \in S
    BY <1>1, <1>2, SetInduction
  <1> QED
    BY <1>3 DEF S

\* A table new has the values of table and rows; each entry is the one of table or
\* that of a row.
HoldsRows(new, table, o, rows) ==
    /\ DOMAIN new = DOMAIN table \cup {ValueOf(rows[i]) : i \in 1 .. Len(rows)}
    /\ \A v \in DOMAIN new :
          \/ \E i \in 1 .. Len(rows) :
                ValueOf(rows[i]) = v /\ new[v] = SuffixStr(o, rows[i].inst)
          \/ v \in DOMAIN table /\ new[v] = table[v]

\* What Insert, std::map's operator[] row after row, leaves in a table.
LEMMA InsertFacts ==
    ASSUME NEW table, NEW o, NEW rows \in Seq(Row)
    PROVE  HoldsRows(Insert(table, o, rows), table, o, rows)
  <1> DEFINE last(v) == CHOOSE i \in DOMAIN rows :
                 ValueOf(rows[i]) = v /\ \A j \in DOMAIN rows : j > i => ValueOf(rows[j]) # v
             read == {ValueOf(rows[i]) : i \in DOMAIN rows}
  <1>1. DOMAIN rows = 1 .. Len(rows) /\ Len(rows) \in Nat
    OBVIOUS
  <1>2. Insert(table, o, rows) =
          [v \in DOMAIN table \cup read |->
              IF v \in read THEN SuffixStr(o, rows[last(v)].inst) ELSE table[v]]
    BY Zenon DEF Insert, ValueOf
  <1>3. ASSUME NEW v \in read
        PROVE  last(v) \in 1 .. Len(rows) /\ ValueOf(rows[last(v)]) = v
    <2> DEFINE T == {i \in 1 .. Len(rows) : ValueOf(rows[i]) = v}
    <2>1. T \in SUBSET (1 .. Len(rows)) /\ T # {}
      OBVIOUS
    <2>2. \E i \in T : \A j \in T : j <= i
      <3> HIDE DEF T
      <3> QED
        BY <1>1, <2>1, Greatest
    <2>3. \E i \in DOMAIN rows :
             ValueOf(rows[i]) = v /\ \A j \in DOMAIN rows : j > i => ValueOf(rows[j]) # v
      BY <2>2, <1>1
    <2>4. last(v) \in DOMAIN rows /\ ValueOf(rows[last(v)]) = v
      BY <2>3, Zenon
    <2> QED
      BY <1>1, <2>4
  <1> HIDE DEF last, read
  <1>4. DOMAIN Insert(table, o, rows) = DOMAIN table \cup read
    BY <1>2
  <1>5. ASSUME NEW v \in DOMAIN table \cup read
        PROVE  \/ \E i \in 1 .. Len(rows) :
                     /\ ValueOf(rows[i]) = v
                     /\ Insert(table, o, rows)[v] = SuffixStr(o, rows[i].inst)
               \/ v \in DOMAIN table /\ Insert(table, o, rows)[v] = table[v]
    <2>1. CASE v \in read
      BY <2>1, <1>2, <1>3
    <2>2. CASE v \notin read
      BY <2>2, <1>2
    <2> QED
      BY <2>1, <2>2
  <1> QED
    BY <1>1, <1>4, <1>5 DEF read, HoldsRows

\* The rows of an agent's table, and the part of them in one response.
LEMMA RowsType ==
    ASSUME NEW h \in Host, NEW o \in Oid
    PROVE  RowsOf(h, o) \in Seq(Row) /\ Len(RowsOf(h, o)) \in Nat
  BY AgentAssumption DEF RowsOf

LEMMA PartFacts ==
    ASSUME NEW h \in Host, NEW o \in Oid, NEW a \in Nat, NEW b \in Nat,
           a <= b, b <= Len(RowsOf(h, o))
    PROVE  /\ SubSeq(RowsOf(h, o), a + 1, b) \in Seq(Row)
           /\ Len(SubSeq(RowsOf(h, o), a + 1, b)) = b - a
           /\ \A i \in 1 .. b - a : SubSeq(RowsOf(h, o), a + 1, b)[i] = RowsOf(h, o)[a + i]
  <1> DEFINE r == RowsOf(h, o)
  <1>1. r \in Seq(Row) /\ Len(r) \in Nat
    BY RowsType
  <1> HIDE DEF r
  <1>2. \A i \in a + 1 .. b : r[i] \in Row
    BY <1>1 DEF r
  <1>3. /\ SubSeq(r, a + 1, b) \in Seq(Row)
        /\ Len(SubSeq(r, a + 1, b)) = IF a + 1 <= b THEN b - (a + 1) + 1 ELSE 0
        /\ \A i \in 1 .. b - (a + 1) + 1 : SubSeq(r, a + 1, b)[i] = r[a + 1 + i - 1]
    <2>1. a + 1 \in Int /\ b \in Int
      OBVIOUS
    <2> QED
      BY <1>2, <2>1, SubSeqProperties
  <1>4. b - (a + 1) + 1 = b - a
    OBVIOUS
  <1>5. \A i \in 1 .. b - a : a + 1 + i - 1 = a + i
    OBVIOUS
  <1>6. Len(SubSeq(r, a + 1, b)) = b - a
    BY <1>3
  <1> QED
    BY <1>3, <1>4, <1>5, <1>6 DEF r

\* One response: rows a + 1 to b of the table are inserted.
LEMMA ReadFacts ==
    ASSUME TablesShape, TablesSound, NEW h \in Host, NEW o \in Oid, o = Table(h),
           NEW a \in Nat, NEW b \in Nat, a <= b, b <= Len(RowsOf(h, o)),
           Read(h, SubSeq(Rows(h), a + 1, b))
    PROVE  /\ TablesShape' /\ TablesSound'
           /\ \A g \in Host, t \in Oid : DOMAIN suffix_of[g][t] \subseteq DOMAIN suffix_of'[g][t]
           /\ \A i \in a + 1 .. b : ValueOf(RowsOf(h, o)[i]) \in DOMAIN suffix_of'[h][o]
  <1> DEFINE rows == SubSeq(RowsOf(h, o), a + 1, b)
             new == Insert(suffix_of[h][o], o, rows)
  <1>1. suffix_of' = [suffix_of EXCEPT ![h][o] = new]
    BY DEF Read, Rows, RowsOf
  <1>2. /\ rows \in Seq(Row) /\ Len(rows) = b - a
        /\ \A i \in 1 .. b - a : rows[i] = RowsOf(h, o)[a + i]
    BY PartFacts
  <1>3. HoldsRows(new, suffix_of[h][o], o, rows)
    <2> HIDE DEF rows
    <2> QED
      BY <1>2, InsertFacts
  <1>4. /\ DOMAIN new = DOMAIN suffix_of[h][o] \cup {ValueOf(rows[i]) : i \in 1 .. Len(rows)}
        /\ \A v \in DOMAIN new :
              \/ \E i \in 1 .. Len(rows) :
                    ValueOf(rows[i]) = v /\ new[v] = SuffixStr(o, rows[i].inst)
              \/ v \in DOMAIN suffix_of[h][o] /\ new[v] = suffix_of[h][o][v]
    <2> HIDE DEF new, rows
    <2> QED
      BY <1>3 DEF HoldsRows
  <1> HIDE DEF new, rows
  <1>5. /\ DOMAIN suffix_of = Host
        /\ \A g \in Host : DOMAIN suffix_of[g] = Oid
    BY DEF TablesShape
  <1>6. \A g \in Host, t \in Oid :
           suffix_of'[g][t] = IF g = h /\ t = o THEN new ELSE suffix_of[g][t]
    BY <1>1, <1>5
  <1>7. TablesShape'
    <2>1. suffix_of' = [suffix_of EXCEPT ![h] = [suffix_of[h] EXCEPT ![o] = new]]
      BY <1>1
    <2>2. suffix_of' = [g \in Host |-> suffix_of'[g]]
      BY <2>1, <1>5
    <2>3. \A g \in Host : suffix_of'[g] = [t \in Oid |-> suffix_of'[g][t]]
      <3> SUFFICES ASSUME NEW g \in Host
                   PROVE  suffix_of'[g] = [t \in Oid |-> suffix_of'[g][t]]
        OBVIOUS
      <3>1. CASE g = h
        BY <3>1, <2>1, <1>5
      <3>2. CASE g # h
        <4>1. suffix_of'[g] = suffix_of[g]
          BY <3>2, <2>1, <1>5
        <4> QED
          BY <4>1 DEF TablesShape
      <3> QED
        BY <3>1, <3>2
    <2> QED
      BY <2>2, <2>3 DEF TablesShape
  <1>8. \A i \in a + 1 .. b : ValueOf(RowsOf(h, o)[i]) \in DOMAIN new
    <2> SUFFICES ASSUME NEW i \in a + 1 .. b PROVE ValueOf(RowsOf(h, o)[i]) \in DOMAIN new
      OBVIOUS
    <2>1. i - a \in 1 .. Len(rows) /\ rows[i - a] = RowsOf(h, o)[a + (i - a)]
      BY <1>2
    <2>2. a + (i - a) = i
      OBVIOUS
    <2> QED
      BY <1>4, <2>1, <2>2
  <1>9. TablesSound'
    <2> SUFFICES ASSUME NEW g \in Host, NEW t \in Oid, NEW v \in DOMAIN suffix_of'[g][t]
                 PROVE  \E i \in 1 .. Len(RowsOf(g, t)) :
                            /\ ValueOf(RowsOf(g, t)[i]) = v
                            /\ suffix_of'[g][t][v] = SuffixStr(t, RowsOf(g, t)[i].inst)
      BY DEF TablesSound, RowsOf, ValueOf, SuffixStr
    <2>1. CASE ~(g = h /\ t = o)
      BY <2>1, <1>6 DEF TablesSound
    <2>2. CASE g = h /\ t = o
      <3>1. suffix_of'[g][t] = new /\ v \in DOMAIN new
        BY <2>2, <1>6
      <3>2. CASE v \in DOMAIN suffix_of[h][o] /\ new[v] = suffix_of[h][o][v]
        BY <2>2, <3>1, <3>2 DEF TablesSound
      <3>3. ASSUME NEW i \in 1 .. Len(rows), ValueOf(rows[i]) = v,
                   new[v] = SuffixStr(o, rows[i].inst)
            PROVE  \E j \in 1 .. Len(RowsOf(h, o)) :
                       /\ ValueOf(RowsOf(h, o)[j]) = v
                       /\ new[v] = SuffixStr(o, RowsOf(h, o)[j].inst)
        <4>1. a + i \in 1 .. Len(RowsOf(h, o)) /\ rows[i] = RowsOf(h, o)[a + i]
          BY <1>2, RowsType
        <4> QED
          BY <3>3, <4>1
      <3> QED
        BY <2>2, <3>1, <3>2, <3>3, <1>4
    <2> QED
      BY <2>1, <2>2
  <1>10. \A g \in Host, t \in Oid :
            DOMAIN suffix_of[g][t] \subseteq DOMAIN suffix_of'[g][t]
    BY <1>4, <1>6
  <1> QED
    BY <1>6, <1>7, <1>8, <1>9, <1>10

-----------------------------------------------------------------------------
(* The walk along a mapping sequence, and its reference                     *)

First(c) == [val |-> c.premap, stop |-> FALSE]

IsWalk(f, c, m) ==
    f = [i \in 0 .. m |-> IF i = 0 THEN First(c) ELSE MapStep(c.host, f[i - 1], c.seq[i])]

LEMMA WalkExists ==
    ASSUME NEW c, NEW k \in Nat
    PROVE  \E f : IsWalk(f, c, k)
  <1> DEFINE S == {m \in Nat : \E f : IsWalk(f, c, m)}
  <1>1. 0 \in S
    <2> DEFINE z == [i \in 0 .. 0 |-> First(c)]
    <2>1. IsWalk(z, c, 0)
      BY DEF IsWalk
    <2> QED
      BY <2>1
  <1>2. ASSUME NEW m \in Nat, m \in S PROVE m + 1 \in S
    <2>1. PICK f : IsWalk(f, c, m)
      BY <1>2
    <2> DEFINE g == [i \in 0 .. m + 1 |->
                       IF i <= m THEN f[i] ELSE MapStep(c.host, f[m], c.seq[m + 1])]
    <2>2. ASSUME NEW i \in 0 .. m + 1
          PROVE  g[i] = IF i = 0 THEN First(c) ELSE MapStep(c.host, g[i - 1], c.seq[i])
      <3>1. CASE i <= m
        BY <2>1, <3>1 DEF IsWalk
      <3>2. CASE i = m + 1
        BY <2>1, <3>2 DEF IsWalk
      <3> QED
        BY <3>1, <3>2
    <2>3. IsWalk(g, c, m + 1)
      BY <2>2 DEF IsWalk
    <2> QED
      BY <2>3
  <1> HIDE DEF S
  <1>3. k \in S
    BY <1>1, <1>2, SetInduction
  <1> QED
    BY <1>3 DEF S

\* MapWalk is the function its recursive equation describes.
LEMMA MapWalkDef ==
    ASSUME NEW c, Len(c.seq) \in Nat
    PROVE  /\ MapWalk(c)[0] = First(c)
           /\ \A i \in 1 .. Len(c.seq) :
                 MapWalk(c)[i] = MapStep(c.host, MapWalk(c)[i - 1], c.seq[i])
  <1>1. MapWalk(c) = CHOOSE f : IsWalk(f, c, Len(c.seq))
    BY DEF MapWalk, IsWalk, First
  <1>2. IsWalk(MapWalk(c), c, Len(c.seq))
    BY <1>1, WalkExists
  <1> QED
    BY <1>2 DEF IsWalk

Start(c) == {c.premap}

\* The suffixes in the rows of the i-th table of c whose value is in T.
Onward(c, i, T) ==
    {r.inst : r \in {q \in ToSet(Agent[c.host][c.seq[i]]) : extract_value_from_raw(q.raw) \in T}}

IsReached(f, c, m) ==
    f = [i \in 0 .. m |-> IF i = 0 THEN Start(c) ELSE Onward(c, i, f[i - 1])]

LEMMA ReachedExists ==
    ASSUME NEW c, NEW k \in Nat
    PROVE  \E f : IsReached(f, c, k)
  <1> DEFINE S == {m \in Nat : \E f : IsReached(f, c, m)}
  <1>1. 0 \in S
    <2> DEFINE z == [i \in 0 .. 0 |-> Start(c)]
    <2>1. IsReached(z, c, 0)
      BY DEF IsReached
    <2> QED
      BY <2>1
  <1>2. ASSUME NEW m \in Nat, m \in S PROVE m + 1 \in S
    <2>1. PICK f : IsReached(f, c, m)
      BY <1>2
    <2> DEFINE g == [i \in 0 .. m + 1 |-> IF i <= m THEN f[i] ELSE Onward(c, m + 1, f[m])]
    <2>2. ASSUME NEW i \in 0 .. m + 1
          PROVE  g[i] = IF i = 0 THEN Start(c) ELSE Onward(c, i, g[i - 1])
      <3>1. CASE i <= m
        <4>1. f[i] = IF i = 0 THEN Start(c) ELSE Onward(c, i, f[i - 1])
          BY <2>1, <3>1 DEF IsReached
        <4>2. g[i] = f[i] /\ (i # 0 => g[i - 1] = f[i - 1])
          BY <3>1
        <4> HIDE DEF g
        <4> QED
          BY <4>1, <4>2
      <3>2. CASE i = m + 1
        BY <2>1, <3>2 DEF IsReached
      <3> QED
        BY <3>1, <3>2
    <2>3. IsReached(g, c, m + 1)
      BY <2>2 DEF IsReached
    <2> QED
      BY <2>3
  <1> HIDE DEF S
  <1>3. k \in S
    BY <1>1, <1>2, SetInduction
  <1> QED
    BY <1>3 DEF S

\* Reached is the function its recursive equation describes.
LEMMA ReachedDef ==
    ASSUME NEW c, Len(c.seq) \in Nat
    PROVE  /\ Reached(c)[0] = Start(c)
           /\ \A i \in 1 .. Len(c.seq) : Reached(c)[i] = Onward(c, i, Reached(c)[i - 1])
  <1>1. Reached(c) = CHOOSE f : IsReached(f, c, Len(c.seq))
    BY DEF Reached, IsReached, Start, Onward
  <1>2. IsReached(Reached(c), c, Len(c.seq))
    BY <1>1, ReachedExists
  <1>3. \A i \in 0 .. Len(c.seq) :
           Reached(c)[i] = IF i = 0 THEN Start(c) ELSE Onward(c, i, Reached(c)[i - 1])
    BY <1>2, Zenon DEF IsReached
  <1> QED
    BY <1>3

LEMMA OnwardAre ==
    ASSUME NEW c \in Collection, NEW i \in 1 .. Len(c.seq), NEW T
    PROVE  \A x : x \in Onward(c, i, T) <=>
              \E j \in 1 .. Len(RowsOf(c.host, c.seq[i])) :
                 /\ ValueOf(RowsOf(c.host, c.seq[i])[j]) \in T
                 /\ x = RowsOf(c.host, c.seq[i])[j].inst
  <1>1. c.host \in Host /\ c.seq[i] \in Oid
    BY CollectionAssumption
  <1>2. DOMAIN RowsOf(c.host, c.seq[i]) = 1 .. Len(RowsOf(c.host, c.seq[i]))
    BY <1>1, RowsType
  <1> DEFINE R == RowsOf(c.host, c.seq[i])
  <1>3. Onward(c, i, T) = {r.inst : r \in {q \in ToSet(R) : ValueOf(q) \in T}}
    BY DEF Onward, ValueOf, RowsOf
  <1>4. \A q : q \in ToSet(R) <=> \E j \in 1 .. Len(R) : q = R[j]
    BY <1>2 DEF ToSet
  <1> HIDE DEF R
  <1>5. \A x : x \in Onward(c, i, T) <=>
           \E q \in ToSet(R) : ValueOf(q) \in T /\ x = q.inst
    BY <1>3
  <1>6. \A x : x \in Onward(c, i, T) <=>
           \E j \in 1 .. Len(R) : ValueOf(R[j]) \in T /\ x = R[j].inst
    BY <1>4, <1>5
  <1> QED
    BY <1>6 DEF R

\* How far the walk is with the i-th table, in terms of the reference.
Agrees(c, i) ==
    LET acc == MapWalk(c)[i] IN
    /\ acc.stop \in BOOLEAN
    /\ acc.stop => acc.val = Empty /\ (ReadWhole(c) => Reached(c)[i] = {})
    /\ ~acc.stop => acc.val \in Reached(c)[i] /\ (ReadWhole(c) => Reached(c)[i] = {acc.val})

\* The rows of a table that shows its suffixes give their instances as they are.
LEMMA PrintedWhole ==
    ASSUME NEW c \in Collection, Printed(c), NEW i \in 1 .. Len(c.seq),
           NEW j \in 1 .. Len(RowsOf(c.host, c.seq[i]))
    PROVE  /\ SuffixStr(c.seq[i], RowsOf(c.host, c.seq[i])[j].inst)
                = RowsOf(c.host, c.seq[i])[j].inst
           /\ RowsOf(c.host, c.seq[i])[j].inst # Empty
  <1>1. c.host \in Host /\ c.seq \in Seq(Oid) /\ c.seq[i] \in Oid
    BY CollectionAssumption
  <1> DEFINE R == RowsOf(c.host, c.seq[i])
             o == c.seq[i]
  <1>2. R \in Seq(Row) /\ R[j] \in Row /\ R[j] \in ToSet(R) /\ o \in ToSet(c.seq)
    BY <1>1, RowsType DEF ToSet
  <1>3. R[j].inst \in Seq(STRING) /\ R[j].inst # Empty
    BY <1>2 DEF Row, Empty
  <1>4. o \in Found \/ Len(R[j].inst) = 1
    BY <1>2 DEF Printed, RowsOf
  <1> HIDE DEF R, o
  <1>5. Len(R[j].inst) = 1 => << Last(R[j].inst) >> = R[j].inst
    BY <1>3 DEF Last
  <1>6. SuffixStr(o, R[j].inst) = R[j].inst
    BY <1>4, <1>5 DEF SuffixStr
  <1> QED
    BY <1>3, <1>6 DEF R, o

\* All rows of the tables of a mapping are read if the host did not fail and none
\* of its walks was torn.
LEMMA WholeRead ==
    ASSUME IInv, TablesRead, ThroughOrFailed, NEW c \in Collection, tpc[c.host] = "ended",
           ReadWhole(c), NEW i \in 1 .. Len(c.seq)
    PROVE  HasRows(c.host, c.seq[i], Len(RowsOf(c.host, c.seq[i])))
  <1> DEFINE h == c.host
             o == c.seq[i]
             t == TablesOf[h]
  <1>1. h \in Host /\ c.seq \in Seq(Oid) /\ ToSet(c.seq) \subseteq ToSet(t)
    BY CollectionAssumption
  <1>2. o \in ToSet(c.seq)
    BY <1>1 DEF ToSet
  <1>3. t \in Seq(Oid) /\ Len(t) \in Nat
    BY <1>1, Constants
  <1>4. o \in ToSet(t)
    BY <1>1, <1>2, Zenon
  <1>5. h \notin failed /\ <<h, o>> \notin torn
    BY <1>2, Zenon DEF ReadWhole
  <1>6. iter[h] > Len(t)
    BY <1>1, <1>5 DEF ThroughOrFailed
  <1> SUFFICES HasRows(h, o, Len(RowsOf(h, o)))
    OBVIOUS
  <1>7. \A j \in 1 .. Len(t) :
           j < iter[h] => <<h, t[j]>> \in torn \/ HasRows(h, t[j], Len(RowsOf(h, t[j])))
    BY <1>1 DEF TablesRead
  <1> HIDE DEF h, o, t
  <1>8. PICK j \in 1 .. Len(t) : o = t[j]
    BY <1>3, <1>4 DEF ToSet
  <1>9. iter[h] \in Nat
    BY <1>1 DEF IInv, TypeOK, h
  <1>10. j < iter[h]
    BY <1>3, <1>6, <1>9
  <1> QED
    BY <1>5, <1>7, <1>8, <1>10

\* One link of the walk keeps it in agreement with the reference.
LEMMA LinkAgrees ==
    ASSUME IInv, TablesSound, TablesRead, ThroughOrFailed,
           NEW c \in Collection, tpc[c.host] = "ended", Printed(c),
           NEW i \in 1 .. Len(c.seq), Agrees(c, i - 1)
    PROVE  Agrees(c, i)
  <1> DEFINE h == c.host
             o == c.seq[i]
             R == RowsOf(h, o)
             tab == suffix_of[h][o]
             A == MapWalk(c)[i - 1]
             B == MapWalk(c)[i]
             T == Reached(c)[i - 1]
             U == Reached(c)[i]
  <1>1. h \in Host /\ o \in Oid /\ c.seq \in Seq(Oid) /\ Len(c.seq) \in Nat
    BY CollectionAssumption
  <1>2. B = MapStep(h, A, o)
    BY <1>1, MapWalkDef
  <1>3. U = Onward(c, i, T)
    BY <1>1, ReachedDef
  <1>4. \A x : x \in U <=> \E j \in 1 .. Len(R) : ValueOf(R[j]) \in T /\ x = R[j].inst
    BY <1>3, OnwardAre
  <1>5. \A v \in DOMAIN tab : \E j \in 1 .. Len(R) :
           ValueOf(R[j]) = v /\ tab[v] = R[j].inst
    BY <1>1, PrintedWhole DEF TablesSound
  <1>6. ReadWhole(c) =>
           /\ \A j \in 1 .. Len(R) : ValueOf(R[j]) \in DOMAIN tab
           /\ \A j, k \in 1 .. Len(R) : ValueOf(R[j]) = ValueOf(R[k]) => j = k
    <2> SUFFICES ASSUME ReadWhole(c)
                 PROVE  /\ \A j \in 1 .. Len(R) : ValueOf(R[j]) \in DOMAIN tab
                        /\ \A j, k \in 1 .. Len(R) : ValueOf(R[j]) = ValueOf(R[k]) => j = k
      OBVIOUS
    <2>1. HasRows(h, o, Len(R))
      BY WholeRead
    <2>2. o \in ToSet(c.seq)
      BY <1>1 DEF ToSet
    <2>3. DOMAIN R = 1 .. Len(R)
      BY <1>1, RowsType
    <2>4. \A j, k \in DOMAIN R : ValueOf(R[j]) = ValueOf(R[k]) => j = k
      BY <2>2, Zenon DEF ReadWhole, RowsOf, ValueOf
    <2> QED
      BY <2>1, <2>3, <2>4 DEF HasRows
  <1>7. /\ A.stop \in BOOLEAN
        /\ A.stop => A.val = Empty /\ (ReadWhole(c) => T = {})
        /\ ~A.stop => A.val \in T /\ (ReadWhole(c) => T = {A.val})
    BY DEF Agrees
  <1> SUFFICES /\ B.stop \in BOOLEAN
               /\ B.stop => B.val = Empty /\ (ReadWhole(c) => U = {})
               /\ ~B.stop => B.val \in U /\ (ReadWhole(c) => U = {B.val})
    BY DEF Agrees
  <1>8. B = IF A.stop THEN A
            ELSE IF A.val \in DOMAIN tab THEN [val |-> tab[A.val], stop |-> FALSE]
            ELSE [val |-> Empty, stop |-> TRUE]
    BY <1>2 DEF MapStep
  <1> HIDE DEF h, o, R, tab, A, B, T, U
  <1>9. CASE A.stop
    BY <1>4, <1>7, <1>8, <1>9
  <1>10. CASE ~A.stop /\ A.val \in DOMAIN tab
    <2>1. PICK j \in 1 .. Len(R) : ValueOf(R[j]) = A.val /\ tab[A.val] = R[j].inst
      BY <1>5, <1>10
    <2>2. B.val = R[j].inst /\ B.stop = FALSE
      BY <1>8, <1>10, <2>1
    <2>3. B.val \in U
      BY <1>4, <1>7, <1>10, <2>1, <2>2
    <2>4. ASSUME ReadWhole(c), NEW x \in U PROVE x = B.val
      <3>1. PICK k \in 1 .. Len(R) : ValueOf(R[k]) \in T /\ x = R[k].inst
        BY <1>4, <2>4
      <3>2. ValueOf(R[k]) = ValueOf(R[j])
        BY <1>7, <1>10, <2>1, <2>4, <3>1
      <3>3. k = j
        BY <1>6, <2>4, <3>2
      <3> QED
        BY <2>2, <3>1, <3>3
    <2>5. ReadWhole(c) => U = {B.val}
      BY <2>3, <2>4
    <2> QED
      BY <2>2, <2>3, <2>5
  <1>11. CASE ~A.stop /\ A.val \notin DOMAIN tab
    <2>1. B.val = Empty /\ B.stop = TRUE
      BY <1>8, <1>11
    <2>2. ASSUME ReadWhole(c), NEW x \in U PROVE FALSE
      <3>1. PICK k \in 1 .. Len(R) : ValueOf(R[k]) \in T
        BY <1>4, <2>2
      <3>2. ValueOf(R[k]) = A.val
        BY <1>7, <1>11, <2>2, <3>1
      <3> QED
        BY <1>6, <1>11, <2>2, <3>2
    <2> QED
      BY <2>1, <2>2
  <1> QED
    BY <1>7, <1>9, <1>10, <1>11

LEMMA WalkAgrees ==
    ASSUME IInv, TablesSound, TablesRead, ThroughOrFailed,
           NEW c \in Collection, tpc[c.host] = "ended", Printed(c)
    PROVE  Agrees(c, Len(c.seq))
  <1> DEFINE S == {m \in Nat : m <= Len(c.seq) => Agrees(c, m)}
  <1>1. Len(c.seq) \in Nat
    BY CollectionAssumption
  <1>2. 0 \in S
    <2>1. MapWalk(c)[0] = First(c) /\ Reached(c)[0] = Start(c)
      BY <1>1, MapWalkDef, ReachedDef
    <2>2. /\ MapWalk(c)[0].stop = FALSE /\ MapWalk(c)[0].val = c.premap
          /\ Reached(c)[0] = {c.premap}
      BY <2>1 DEF First, Start
    <2>3. Agrees(c, 0)
      BY <2>2 DEF Agrees
    <2> QED
      BY <2>3
  <1>3. ASSUME NEW m \in Nat, m \in S PROVE m + 1 \in S
    <2> SUFFICES ASSUME m + 1 <= Len(c.seq) PROVE Agrees(c, m + 1)
      OBVIOUS
    <2>1. m + 1 \in 1 .. Len(c.seq) /\ (m + 1) - 1 = m
      BY <1>1
    <2>2. Agrees(c, m)
      BY <1>1, <1>3
    <2> DEFINE i == m + 1
    <2>3. i \in 1 .. Len(c.seq) /\ Agrees(c, i - 1)
      BY <2>1, <2>2
    <2> SUFFICES Agrees(c, i)
      OBVIOUS
    <2> HIDE DEF i
    <2> QED
      BY <2>3, LinkAgrees
  <1> HIDE DEF S
  <1>4. Len(c.seq) \in S
    BY <1>1, <1>2, <1>3, SetInduction
  <1> QED
    BY <1>1, <1>4 DEF S

\* What map_collection_suffixes makes of the tables is right.
LEMMA MappedRight ==
    ASSUME IInv, TInv, MapSuffixes
    PROVE  SuffixesRight'
  <1> SUFFICES ASSUME NEW c \in Collection
               PROVE  IF c.seq = <<>>
                      THEN post'[c] = c.premap \/ (c.host \in failed /\ post'[c] = Empty)
                      ELSE Printed(c) =>
                             /\ post'[c] # Empty => post'[c] \in TrueSuffixes(c)
                             /\ ReadWhole(c) /\ TrueSuffixes(c) # {} => post'[c] # Empty
    BY DEF SuffixesRight, MapSuffixes, ReadWhole
  <1> DEFINE end == Len(c.seq)
  <1>1. post'[c] = Mapped(c) /\ post[c] = Empty
    BY DEF MapSuffixes, TInv, NotMappedYet
  <1>2. c.host \in Host /\ tpc[c.host] = "ended" /\ c.seq \in Seq(Oid) /\ end \in Nat
    BY CollectionAssumption DEF IInv, MappingAfterWalks, MapSuffixes
  <1>3. CASE mapping_done[c.host] # 1
    <2>1. post'[c] = Empty
      BY <1>1, <1>3 DEF Mapped
    <2>2. c.host \in failed
      BY <1>2, <1>3 DEF TInv, ThroughOrFailed
    <2> QED
      BY <2>1, <2>2 DEF ReadWhole
  <1>4. CASE mapping_done[c.host] = 1 /\ c.seq = <<>>
    <2>1. MapWalk(c)[0] = First(c) /\ end = 0
      BY <1>2, <1>4, MapWalkDef
    <2>2. post'[c] = First(c).val
      BY <1>1, <1>4, <2>1 DEF Mapped
    <2> QED
      BY <1>4, <2>2 DEF First
  <1>5. CASE mapping_done[c.host] = 1 /\ c.seq # <<>>
    <2> SUFFICES ASSUME Printed(c)
                 PROVE  /\ post'[c] # Empty => post'[c] \in TrueSuffixes(c)
                        /\ ReadWhole(c) /\ TrueSuffixes(c) # {} => post'[c] # Empty
      BY <1>5
    <2>1. Agrees(c, end)
      BY <1>2, WalkAgrees DEF TInv
    <2>2. end \in 1 .. Len(c.seq) /\ end # 0
      BY <1>2, <1>5
    <2>3. Reached(c)[end] = Onward(c, end, Reached(c)[end - 1])
      BY <1>2, <2>2, ReachedDef
    <2>4. \A x \in Reached(c)[end] : x # Empty
      <3> SUFFICES ASSUME NEW x \in Reached(c)[end] PROVE x # Empty
        OBVIOUS
      <3>1. x \in Onward(c, end, Reached(c)[end - 1])
        BY <2>3
      <3>2. PICK j \in 1 .. Len(RowsOf(c.host, c.seq[end])) :
               x = RowsOf(c.host, c.seq[end])[j].inst
        <4> HIDE DEF end
        <4> QED
          BY <2>2, <3>1, OnwardAre
      <3> QED
        <4> HIDE DEF end
        <4> QED
          BY <2>2, <3>2, PrintedWhole
    <2>5. post'[c] = MapWalk(c)[end].val
      BY <1>1, <1>5 DEF Mapped
    <2> DEFINE acc == MapWalk(c)[end]
               set == Reached(c)[end]
    <2>6. /\ acc.stop \in BOOLEAN
          /\ acc.stop => acc.val = Empty /\ (ReadWhole(c) => set = {})
          /\ ~acc.stop => acc.val \in set /\ (ReadWhole(c) => set = {acc.val})
      BY <2>1 DEF Agrees
    <2>7. TrueSuffixes(c) = set
      BY DEF TrueSuffixes
    <2> HIDE DEF acc, set
    <2>8. \A x \in set : x # Empty
      BY <2>4 DEF set
    <2>9. post'[c] = acc.val
      BY <2>5 DEF acc
    <2> QED
      BY <2>6, <2>7, <2>8, <2>9
  <1> QED
    BY <1>3, <1>4, <1>5

-----------------------------------------------------------------------------
(* The second invariant is inductive                                        *)

\* Tables only grow: the rows they have stay in them.
TablesGrow ==
    \A g \in Host, t \in Oid : DOMAIN suffix_of[g][t] \subseteq DOMAIN suffix_of'[g][t]

LEMMA RowsStay ==
    ASSUME TablesGrow, NEW g \in Host, NEW t \in Oid, NEW k \in Nat, HasRows(g, t, k)
    PROVE  HasRows(g, t, k)'
  BY DEF TablesGrow, HasRows, RowsOf, ValueOf, extract_value_from_raw

LEMMA TableOfHost ==
    ASSUME NEW g \in Host
    PROVE  /\ Len(TablesOf[g]) \in Nat
           /\ \A j \in 1 .. Len(TablesOf[g]) : TablesOf[g][j] \in Oid
  BY Constants

\* A table before the iterators stays read or torn while these stay where they are.
LEMMA TablesStayRead ==
    ASSUME TablesRead, TablesGrow, NEW g \in Host, NEW j \in 1 .. Len(TablesOf[g]),
           j < iter[g], torn \subseteq torn'
    PROVE  \/ <<g, TablesOf[g][j]>> \in torn'
           \/ HasRows(g, TablesOf[g][j], Len(RowsOf(g, TablesOf[g][j])))'
  <1>1. PICK t \in Oid : t = TablesOf[g][j]
    BY TableOfHost
  <1>2. PICK k \in Nat : k = Len(RowsOf(g, t))
    BY RowsType
  <1>3. <<g, t>> \in torn \/ HasRows(g, t, k)
    BY <1>1, <1>2 DEF TablesRead
  <1>4. <<g, t>> \in torn' \/ HasRows(g, t, k)'
    BY <1>3, RowsStay
  <1> QED
    BY <1>1, <1>2, <1>4 DEF RowsOf

\* The rows before a walk's position stay read while walk and position stay.
LEMMA RowsStayRead ==
    ASSUME IInv, RowsRead, TablesGrow, NEW g \in Host, tpc[g] = "walk",
           iter'[g] = iter[g], pos'[g] = pos[g]
    PROVE  (pos[g] <= Len(Rows(g)) /\ HasRows(g, Table(g), pos[g]))'
  <1>1. PICK t \in Oid : t = Table(g)
    BY TableType DEF IInv
  <1>2. PICK k \in Nat : k = pos[g]
    BY DEF IInv, TypeOK
  <1>3. k <= Len(RowsOf(g, t)) /\ HasRows(g, t, k)
    BY <1>1, <1>2 DEF RowsRead, Rows, RowsOf
  <1>4. HasRows(g, t, k)'
    BY <1>3, RowsStay
  <1>5. Table(g)' = t /\ Rows(g)' = RowsOf(g, t) /\ pos'[g] = k
    BY <1>1, <1>2 DEF Table, Rows, RowsOf
  <1> QED
    BY <1>3, <1>4, <1>5

\* Main is not done while there is a thread, so a thread's step cannot disturb what
\* was mapped.
LEMMA ThreadBeforeMapping ==
    ASSUME IInv, TInv, NEW h \in Host, tpc[h] # "ended", mpc' = mpc, post' = post
    PROVE  NotMappedYet' /\ SuffixesRight'
  <1>1. mpc # "done"
    BY DEF IInv, MappingAfterWalks
  <1> QED
    BY <1>1 DEF TInv, NotMappedYet, SuffixesRight

\* A step that leaves the tables alone.
LEMMA SameTables ==
    ASSUME TInv, UNCHANGED suffix_of
    PROVE  TablesShape' /\ TablesSound' /\ TablesGrow
  <1>1. TablesShape'
    BY DEF TInv, TablesShape
  <1>2. TablesSound'
    BY DEF TInv, TablesSound, RowsOf, ValueOf, extract_value_from_raw, SuffixStr
  <1> QED
    BY <1>1, <1>2 DEF TablesGrow

LEMMA InitTInv == Init => TInv
  <1> SUFFICES ASSUME Init PROVE TInv
    OBVIOUS
  <1>1. TablesShape /\ TablesSound
    BY DEF Init, TablesShape, TablesSound
  <1>2. TablesRead
    BY TableOfHost DEF Init, TablesRead
  <1>3. RowsRead /\ ThroughOrFailed /\ NotMappedYet /\ SuffixesRight
    BY DEF Init, RowsRead, ThroughOrFailed, NotMappedYet, SuffixesRight
  <1> QED
    BY <1>1, <1>2, <1>3 DEF TInv

\* A step in which no thread moves.
LEMMA ThreadsStill ==
    ASSUME IInv, TInv, UNCHANGED <<threadVars, suffix_of, mapping_done, failed, torn>>
    PROVE  TablesShape' /\ TablesSound' /\ TablesRead' /\ RowsRead' /\ ThroughOrFailed'
  <1> USE DEF threadVars
  <1>1. TablesShape' /\ TablesSound' /\ TablesGrow
    BY SameTables
  <1>2. TablesRead'
    <2> SUFFICES ASSUME NEW g \in Host, NEW j \in 1 .. Len(TablesOf[g]), j < iter[g]
                 PROVE  \/ <<g, TablesOf[g][j]>> \in torn'
                        \/ HasRows(g, TablesOf[g][j], Len(RowsOf(g, TablesOf[g][j])))'
      BY DEF TablesRead
    <2> QED
      BY <1>1, TablesStayRead DEF TInv
  <1>3. RowsRead'
    <2> SUFFICES ASSUME NEW g \in Host, tpc[g] = "walk"
                 PROVE  (pos[g] <= Len(Rows(g)) /\ HasRows(g, Table(g), pos[g]))'
      BY DEF RowsRead
    <2> QED
      BY <1>1, RowsStayRead DEF TInv
  <1>4. ThroughOrFailed'
    BY DEF TInv, ThroughOrFailed
  <1> QED
    BY <1>1, <1>2, <1>3, <1>4

LEMMA StillTInv ==
    ASSUME IInv, TInv, UNCHANGED <<threadVars, suffix_of, mapping_done, failed, torn, post>>,
           mpc' = mpc \/ (mpc # "done" /\ mpc' # "done")
    PROVE  TInv'
  <1>1. TablesShape' /\ TablesSound' /\ TablesRead' /\ RowsRead' /\ ThroughOrFailed'
    BY ThreadsStill
  <1>2. NotMappedYet'
    BY DEF TInv, NotMappedYet
  <1>3. SuffixesRight'
    BY DEF TInv, SuffixesRight, ReadWhole
  <1> QED
    BY <1>1, <1>2, <1>3 DEF TInv

LEMMA MainTInv == IInv /\ TInv /\ MainStep => TInv'
  <1> SUFFICES ASSUME IInv, TInv, MainStep PROVE TInv'
    OBVIOUS
  <1>1. CASE CreateDone \/ Join \/ JoinDone
    BY <1>1, StillTInv DEF CreateDone, Join, JoinDone
  <1>2. CASE MapSuffixes
    <2>1. TablesShape' /\ TablesSound' /\ TablesRead' /\ RowsRead' /\ ThroughOrFailed'
      BY <1>2, ThreadsStill DEF MapSuffixes
    <2>2. NotMappedYet'
      BY <1>2 DEF MapSuffixes, NotMappedYet
    <2> QED
      BY <1>2, <2>1, <2>2, MappedRight DEF TInv
  <1>3. CASE CreateThread
    <2> USE <1>3 DEF CreateThread
    <2>1. n \in Host /\ tpc \in [Host -> {"none", "table", "walk", "post", "ended"}]
      BY Constants DEF IInv, TypeOK
    <2>2. \A g \in Host : tpc'[g] = IF g = n THEN "table" ELSE tpc[g]
      BY <2>1
    <2>3. TablesShape' /\ TablesSound' /\ TablesGrow
      BY SameTables
    <2>4. TablesRead'
      <3> SUFFICES ASSUME NEW g \in Host, NEW j \in 1 .. Len(TablesOf[g]), j < iter[g]
                   PROVE  \/ <<g, TablesOf[g][j]>> \in torn'
                          \/ HasRows(g, TablesOf[g][j], Len(RowsOf(g, TablesOf[g][j])))'
        BY DEF TablesRead
      <3> QED
        BY <2>3, TablesStayRead DEF TInv
    <2>5. RowsRead'
      <3> SUFFICES ASSUME NEW g \in Host, tpc[g] = "walk"
                   PROVE  (pos[g] <= Len(Rows(g)) /\ HasRows(g, Table(g), pos[g]))'
        BY <2>2 DEF RowsRead
      <3> QED
        BY <2>3, RowsStayRead DEF TInv
    <2>6. ThroughOrFailed'
      BY <2>2 DEF TInv, ThroughOrFailed
    <2>7. NotMappedYet' /\ SuffixesRight'
      BY DEF TInv, NotMappedYet, SuffixesRight
    <2> QED
      BY <2>3, <2>4, <2>5, <2>6, <2>7 DEF TInv
  <1> QED
    BY <1>1, <1>2, <1>3 DEF MainStep

\* The rows before the position of g's walk are read.
RowsReadAt(g) == tpc[g] = "walk" => pos[g] <= Len(Rows(g)) /\ HasRows(g, Table(g), pos[g])

\* A step of the thread of h: what the others have read stays read.
LEMMA OthersRead ==
    ASSUME IInv, TInv, TablesGrow, NEW h,
           \A g \in Host \ {h} : iter'[g] = iter[g] /\ pos'[g] = pos[g] /\ tpc'[g] = tpc[g],
           RowsReadAt(h)'
    PROVE  RowsRead'
  <1> SUFFICES ASSUME NEW g \in Host, tpc'[g] = "walk"
               PROVE  (pos[g] <= Len(Rows(g)) /\ HasRows(g, Table(g), pos[g]))'
    BY DEF RowsRead
  <1>1. CASE g = h
    BY <1>1 DEF RowsReadAt
  <1>2. CASE g # h
    BY <1>2, RowsStayRead DEF TInv
  <1> QED
    BY <1>1, <1>2

LEMMA IteratorsStill ==
    ASSUME TInv, TablesGrow, torn \subseteq torn', \A g \in Host : iter'[g] = iter[g]
    PROVE  TablesRead'
  <1> SUFFICES ASSUME NEW g \in Host, NEW j \in 1 .. Len(TablesOf[g]), j < iter[g]
               PROVE  \/ <<g, TablesOf[g][j]>> \in torn'
                      \/ HasRows(g, TablesOf[g][j], Len(RowsOf(g, TablesOf[g][j])))'
    BY DEF TablesRead
  <1> QED
    BY TablesStayRead DEF TInv

\* A thread's step outside of the walks: it opens a table, fails, or is through.
LEMMA PlainTInv ==
    ASSUME IInv, TInv, NEW h \in Host, tpc[h] \in {"table", "post"},
           OpenTable(h) \/ OpenFails(h) \/ Loaded(h) \/ Post(h)
    PROVE  TInv'
  <1> USE DEF OpenTable, OpenFails, Loaded, Post
  <1>1. TablesShape' /\ TablesSound' /\ TablesGrow
    BY SameTables
  <1>2. NotMappedYet' /\ SuffixesRight'
    BY ThreadBeforeMapping
  <1>3. \A g \in Host \ {h} : iter'[g] = iter[g] /\ pos'[g] = pos[g] /\ tpc'[g] = tpc[g]
    BY DEF IInv, TypeOK
  <1>4. torn' = torn /\ iter' = iter
    OBVIOUS
  <1>5. TablesRead'
    BY <1>1, <1>4, IteratorsStill
  <1>6. RowsReadAt(h)'
    <2>1. CASE OpenTable(h)
      <3>1. pos'[h] = 0 /\ iter[h] <= Len(TablesOf[h]) /\ iter'[h] = iter[h]
        BY <2>1 DEF IInv, TypeOK
      <3>2. PICK t \in Oid : t = TablesOf[h][iter[h]]
        BY <3>1, TableOfHost DEF IInv, TypeOK
      <3>3. Rows(h)' = RowsOf(h, t) /\ Len(RowsOf(h, t)) \in Nat
        BY <3>1, <3>2, RowsType DEF Rows, RowsOf, Table
      <3> QED
        BY <3>1, <3>3 DEF HasRows, RowsReadAt
    <2>2. CASE OpenFails(h) \/ Loaded(h) \/ Post(h)
      BY <2>2 DEF IInv, TypeOK, RowsReadAt
    <2> QED
      BY <2>1, <2>2
  <1>7. RowsRead'
    BY <1>1, <1>3, <1>6, OthersRead
  <1>8. ThroughOrFailed'
    BY DEF TInv, ThroughOrFailed, IInv, TypeOK
  <1> QED
    BY <1>1, <1>2, <1>5, <1>7, <1>8 DEF TInv

\* A response inside a table: rows a + 1 to b are inserted, and the walk goes on at
\* row p, before which all rows are read.
LEMMA InsideTInv ==
    ASSUME IInv, TInv, NEW h \in Host, tpc[h] = "walk",
           NEW a \in Nat, NEW b \in Nat, NEW p \in Nat,
           a <= b, a <= pos[h], b <= Len(Rows(h)), p <= pos[h] \/ p <= b, p <= Len(Rows(h)),
           Read(h, SubSeq(Rows(h), a + 1, b)),
           pos' = [pos EXCEPT ![h] = p], torn \subseteq torn',
           UNCHANGED <<mpc, tpc, iter, mapping_done, post, failed>>
    PROVE  TInv'
  <1>1. PICK o \in Oid : o = Table(h)
    BY TableType DEF IInv
  <1>2. Rows(h) = RowsOf(h, o)
    BY <1>1 DEF Rows, RowsOf
  <1>3. /\ TablesShape' /\ TablesSound' /\ TablesGrow
        /\ \A i \in a + 1 .. b : ValueOf(RowsOf(h, o)[i]) \in DOMAIN suffix_of'[h][o]
    BY <1>1, <1>2, ReadFacts DEF TInv, TablesGrow
  <1>4. NotMappedYet' /\ SuffixesRight'
    BY ThreadBeforeMapping
  <1>5. \A g \in Host \ {h} : iter'[g] = iter[g] /\ pos'[g] = pos[g] /\ tpc'[g] = tpc[g]
    BY DEF IInv, TypeOK
  <1>7. TablesRead'
    BY <1>3, IteratorsStill
  <1>8. HasRows(h, o, p)'
    <2>1. PICK q \in Nat : q = pos[h]
      BY DEF IInv, TypeOK
    <2>2. HasRows(h, o, q)
      BY <1>1, <2>1 DEF TInv, RowsRead
    <2>3. HasRows(h, o, q)'
      BY <1>3, <2>2, RowsStay
    <2>4. \A i \in 1 .. q : ValueOf(RowsOf(h, o)[i]) \in DOMAIN suffix_of'[h][o]
      BY <2>3 DEF HasRows, ValueOf, RowsOf, extract_value_from_raw
    <2>5. \A i \in 1 .. p : ValueOf(RowsOf(h, o)[i]) \in DOMAIN suffix_of'[h][o]
      BY <1>3, <2>1, <2>4
    <2> QED
      BY <2>5 DEF HasRows, ValueOf, RowsOf, extract_value_from_raw
  <1>9. RowsRead'
    <2>1. Table(h)' = o /\ Rows(h)' = Rows(h) /\ pos'[h] = p
      BY <1>1 DEF Table, Rows, IInv, TypeOK
    <2>2. RowsReadAt(h)'
      BY <1>8, <2>1 DEF RowsReadAt
    <2> QED
      BY <1>3, <1>5, <2>2, OthersRead
  <1>10. ThroughOrFailed'
    BY DEF TInv, ThroughOrFailed
  <1> QED
    BY <1>3, <1>4, <1>7, <1>9, <1>10 DEF TInv

\* The end of a table that is read whole or torn.
LEMMA EndTInv ==
    ASSUME IInv, TInv, NEW h \in Host, tpc[h] = "walk", NextTable(h),
           NEW o \in Oid, o = Table(h), TablesShape', TablesSound', TablesGrow,
           torn \subseteq torn',
           <<h, o>> \in torn' \/ HasRows(h, o, Len(RowsOf(h, o)))',
           UNCHANGED <<mpc, mapping_done, post, failed>>
    PROVE  TInv'
  <1>1. NotMappedYet' /\ SuffixesRight'
    BY ThreadBeforeMapping
  <1>2. /\ iter'[h] = iter[h] + 1 /\ iter[h] \in Nat /\ tpc'[h] = "table"
        /\ \A g \in Host \ {h} : iter'[g] = iter[g] /\ pos'[g] = pos[g] /\ tpc'[g] = tpc[g]
    BY DEF IInv, TypeOK, NextTable
  <1>5. TablesRead'
    <2> SUFFICES ASSUME NEW g \in Host, NEW j \in 1 .. Len(TablesOf[g]), j < iter'[g]
                 PROVE  \/ <<g, TablesOf[g][j]>> \in torn'
                        \/ HasRows(g, TablesOf[g][j], Len(RowsOf(g, TablesOf[g][j])))'
      BY DEF TablesRead
    <2>1. CASE j < iter[g]
      BY <2>1, TablesStayRead DEF TInv
    <2>2. CASE ~(j < iter[g])
      <3>1. g = h
        BY <1>2, <2>2
      <3>2. j = iter[h]
        BY <1>2, <2>2, <3>1
      <3>3. TablesOf[g][j] = o
        BY <3>1, <3>2 DEF Table
      <3> QED
        BY <3>1, <3>3 DEF RowsOf
    <2> QED
      BY <2>1, <2>2
  <1>6. RowsRead'
    BY <1>2, OthersRead DEF RowsReadAt
  <1>7. ThroughOrFailed'
    <2> SUFFICES ASSUME NEW g \in Host, tpc'[g] \in {"post", "ended"}
                 PROVE  g \in failed \/ (mapping_done[g] = 1 /\ iter'[g] > Len(TablesOf[g]))
      BY DEF ThroughOrFailed
    <2>1. g # h
      BY <1>2
    <2> QED
      BY <1>2, <2>1 DEF TInv, ThroughOrFailed
  <1> QED
    BY <1>1, <1>5, <1>6, <1>7 DEF TInv

LEMMA WalkTInv == ASSUME IInv, TInv, NEW h \in Host, WalkStep(h) PROVE TInv'
  <1>1. tpc[h] = "walk"
    BY DEF WalkStep, Response, LastResponse, Broken, Repeat
  <1>2. PICK o \in Oid : o = Table(h)
    BY <1>1, TableType DEF IInv
  <1>3. PICK q \in Nat : q = pos[h]
    BY DEF IInv, TypeOK
  <1>4. Rows(h) = RowsOf(h, o) /\ Len(Rows(h)) \in Nat /\ q <= Len(Rows(h)) /\ HasRows(h, o, q)
    BY <1>1, <1>2, <1>3, RowsType DEF TInv, RowsRead, Rows, RowsOf
  <1>5. ASSUME NEW k \in 1 .. Reps, Response(h, k) PROVE TInv'
    <2>1. PICK b \in Nat : b = q + k /\ q <= b
      BY BoundsAssumption
    <2>2. /\ b <= Len(Rows(h)) /\ Read(h, SubSeq(Rows(h), q + 1, b))
          /\ pos' = [pos EXCEPT ![h] = b]
          /\ UNCHANGED <<mpc, tpc, iter, mapping_done, post, failed, torn>>
      BY <1>3, <1>5, <2>1 DEF Response
    <2>3. q <= pos[h] /\ b <= b /\ torn \subseteq torn'
      BY <1>3, <2>2
    <2> QED
      BY <1>1, <2>1, <2>2, <2>3, InsideTInv
  <1>6. ASSUME NEW p \in 0 .. pos[h], NEW k \in 0 .. Reps, Repeat(h, p, k) PROVE TInv'
    <2>1. k \in Nat /\ p \in Nat /\ p + k \in Nat /\ p <= p + k /\ p <= q
      BY <1>3, BoundsAssumption
    <2>2. /\ p + k <= q /\ Read(h, SubSeq(Rows(h), p + 1, p + k))
          /\ torn \subseteq torn' /\ UNCHANGED <<mpc, tpc, iter, mapping_done, post, failed>>
      BY <1>3, <1>6 DEF Repeat
    <2>3. PICK r \in Nat : r <= q /\ pos' = [pos EXCEPT ![h] = r]
      <3>1. CASE k = 0
        <4>1. pos' = [pos EXCEPT ![h] = q] /\ q <= q
          BY <1>3, <1>6, <3>1 DEF Repeat
        <4> QED
          BY <4>1
      <3>2. CASE k # 0
        BY <1>6, <2>1, <2>2, <3>2 DEF Repeat
      <3> QED
        BY <3>1, <3>2
    <2>4. p + k <= Len(Rows(h)) /\ r <= Len(Rows(h))
      BY <1>4, <2>1, <2>2, <2>3
    <2> QED
      BY <1>1, <1>3, <2>1, <2>2, <2>3, <2>4, InsideTInv
  <1>7. CASE LastResponse(h)
    <2>1. PICK e \in Nat : e = Len(RowsOf(h, o)) /\ q <= e /\ e <= Len(RowsOf(h, o))
      BY <1>4
    <2>2. /\ Read(h, SubSeq(Rows(h), q + 1, e)) /\ NextTable(h)
          /\ UNCHANGED <<mpc, mapping_done, post, failed, torn>>
      BY <1>3, <1>4, <1>7, <2>1 DEF LastResponse
    <2>3. /\ TablesShape' /\ TablesSound' /\ TablesGrow
          /\ \A i \in q + 1 .. e : ValueOf(RowsOf(h, o)[i]) \in DOMAIN suffix_of'[h][o]
      BY <1>2, <1>4, <2>1, <2>2, ReadFacts DEF TInv, TablesGrow
    <2>4. HasRows(h, o, q)'
      BY <1>4, <2>3, RowsStay
    <2>5. \A i \in 1 .. e : ValueOf(RowsOf(h, o)[i]) \in DOMAIN suffix_of'[h][o]
      BY <2>3, <2>4 DEF HasRows, ValueOf, RowsOf, extract_value_from_raw
    <2>6. HasRows(h, o, Len(RowsOf(h, o)))'
      BY <2>1, <2>5 DEF HasRows, ValueOf, RowsOf, extract_value_from_raw
    <2> QED
      BY <1>1, <1>2, <2>2, <2>3, <2>6, EndTInv
  <1>8. CASE Broken(h)
    <2>1. TablesShape' /\ TablesSound' /\ TablesGrow
      BY <1>8, SameTables DEF Broken
    <2>2. torn \subseteq torn' /\ <<h, o>> \in torn'
      BY <1>2, <1>8 DEF Broken
    <2> QED
      BY <1>1, <1>2, <1>8, <2>1, <2>2, EndTInv DEF Broken
  <1> QED
    BY <1>5, <1>6, <1>7, <1>8 DEF WalkStep

LEMMA NextTInv == IInv /\ TInv /\ [Next]_vars => TInv'
  <1> SUFFICES ASSUME IInv, TInv, [Next]_vars PROVE TInv'
    OBVIOUS
  <1>1. CASE MainStep
    BY <1>1, MainTInv
  <1>2. ASSUME NEW h \in Host, ThreadStep(h) PROVE TInv'
    <2>1. CASE WalkStep(h)
      BY <2>1, WalkTInv
    <2>2. CASE OpenTable(h) \/ OpenFails(h) \/ Loaded(h) \/ Post(h)
      <3>1. tpc[h] \in {"table", "post"}
        BY <2>2 DEF OpenTable, OpenFails, Loaded, Post
      <3> QED
        BY <2>2, <3>1, PlainTInv
    <2> QED
      BY <1>2, <2>1, <2>2 DEF ThreadStep
  <1>3. CASE OtherTake \/ OtherGive
    BY <1>3, StillTInv DEF OtherTake, OtherGive
  <1>4. CASE UNCHANGED vars
    BY <1>4, StillTInv DEF vars
  <1> QED
    BY <1>1, <1>2, <1>3, <1>4 DEF Next

\* For any tables, agents and mapping sequences, whatever the walks meet: a suffix
\* that map_collection_suffixes writes is one the agent's rows lead to, and when the
\* tables were read whole it finds the one there is.
THEOREM SuffixesAreRight == Spec => []SuffixesRight
  <1>1. TInv => SuffixesRight
    BY DEF TInv
  <1>2. Init => IInv /\ TInv
    BY InitIInv, InitTInv
  <1>3. (IInv /\ TInv) /\ [Next]_vars => (IInv /\ TInv)'
    BY NextIInv, NextTInv
  <1> QED
    BY <1>1, <1>2, <1>3, PTL DEF Spec
=============================================================================
