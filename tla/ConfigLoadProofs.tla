-------------------------- MODULE ConfigLoadProofs --------------------------
(***************************************************************************)
(* Proofs about ConfigLoad, for any databases, limits and file systems.    *)
(***************************************************************************)
EXTENDS ConfigLoad, QueueFacts, FiniteSetTheorems, TLAPS

\* The places between START TRANSACTION and COMMIT.
Loading ==
    {"hosts", "sequences", "classes", "rows", "oids", "rras", "globals", "commit"}

\* The inductive invariant: the connection at each place of load_config and
\* init_config.
IInv ==
    /\ pc \in Loading \cup {"idle", "files", "tables", "exited"}
    /\ pc \in Loading => conn = "transaction"
    /\ pc \in {"files", "tables"} => conn = "none"
    /\ pc = "idle" => conn = "none" \/ failedAt \in {"start", "commit"}

LEMMA InitIInv == Init => IInv
  BY DEF Init, IInv, Loading

\* A helper of load_config returns: on, or to end_transaction, with the connection.
LEMMA HelperIInv ==
    ASSUME IInv, pc \in Loading, NEW place \in Loading, Then(place), UNCHANGED conn
    PROVE  IInv'
  BY DEF IInv, Then, Loading

LEMMA LoadStepIInv == IInv /\ LoadStep => IInv'
  <1> SUFFICES ASSUME IInv, LoadStep PROVE IInv'
    OBVIOUS
  <1>1. CASE Connect
    BY <1>1 DEF Connect, IInv, Loading
  <1>2. CASE ConnectExits \/ ConnectFails \/ StartFails
    BY <1>2 DEF ConnectExits, ConnectFails, StartFails, Return, IInv, Loading
  <1>3. CASE QueryFails
    BY <1>3, HelperIInv DEF QueryFails, Loading
  <1>4. CASE LoadHosts
    BY <1>4, HelperIInv DEF LoadHosts, Loading
  <1>5. CASE LoadSequences
    BY <1>5, HelperIInv DEF LoadSequences, Loading
  <1>6. ASSUME NEW m, NEW limit, LoadSequencesCut(m, limit) PROVE IInv'
    BY <1>6, HelperIInv DEF LoadSequencesCut, Loading
  <1>7. ASSUME NEW s, QueryPage(s) PROVE IInv'
    BY <1>7 DEF QueryPage, IInv, Loading
  <1>8. CASE LoadRow
    BY <1>8, HelperIInv DEF LoadRow, Loading
  <1>9. CASE PageDone
    BY <1>9 DEF PageDone, IInv, Loading
  <1>10. CASE LoadOids
    BY <1>10, HelperIInv DEF LoadOids, Loading
  <1>11. CASE LoadRras
    BY <1>11, HelperIInv DEF LoadRras, Loading
  <1>12. CASE LoadGlobals
    BY <1>12, HelperIInv DEF LoadGlobals, Loading
  <1>13. CASE Commit
    BY <1>13 DEF Commit, Return, IInv, Loading
  <1>14. CASE CommitFails
    BY <1>14 DEF CommitFails, Return, IInv, Loading
  <1> QED
    BY <1>1, <1>2, <1>3, <1>4, <1>5, <1>6, <1>7, <1>8, <1>9, <1>10, <1>11, <1>12, <1>13,
       <1>14 DEF LoadStep

LEMMA FileStepIInv == IInv /\ FileStep => IInv'
  <1> SUFFICES ASSUME IInv, FileStep PROVE IInv'
    OBVIOUS
  <1> USE DEF IInv, Loading
  <1>1. CASE KeepFile
    BY <1>1 DEF KeepFile, NextFile
  <1>2. CASE CreateFile \/ CreateFault
    BY <1>2 DEF CreateFile, CreateFault, NextFile
  <1>3. CASE ClassIncomplete
    BY <1>3 DEF ClassIncomplete, FileMissing, Return
  <1>4. CASE FilesDone
    BY <1>4 DEF FilesDone
  <1>5. CASE Publish
    BY <1>5 DEF Publish, Return
  <1> QED
    BY <1>1, <1>2, <1>3, <1>4, <1>5 DEF FileStep

LEMMA NextIInv == IInv /\ [Next]_vars => IInv'
  <1> SUFFICES ASSUME IInv, [Next]_vars PROVE IInv'
    OBVIOUS
  <1>1. CASE LoadStep \/ FileStep
    BY <1>1, LoadStepIInv, FileStepIInv
  <1>2. ASSUME NEW d \in Databases, ChangeDb(d) PROVE IInv'
    BY <1>2 DEF ChangeDb, IInv
  <1>3. CASE Exited \/ UNCHANGED vars
    BY <1>3 DEF Exited, vars, IInv
  <1> QED
    BY <1>1, <1>2, <1>3 DEF Next

\* For any contents of the database, load_config closes its connection on every path
\* but those where START TRANSACTION or COMMIT itself fails.
THEOREM ConnectionClosed == Spec => []NoTransactionLeft
  <1>1. IInv => NoTransactionLeft
    BY DEF IInv, NoTransactionLeft
  <1>2. Spec => []IInv
    BY InitIInv, NextIInv, PTL DEF Spec
  <1> QED
    BY <1>1, <1>2, PTL

-----------------------------------------------------------------------------
(* What is loaded, in terms of the set D of the rows that were done.  R is   *)
(* db.coll, A the active rows, st whether equal rows keep their order.       *)

HostRec == [db_id : Nat, collection : Seq(DOMAIN DirOf)]
ClassRec == [db_id : Nat, host : Seq(HostRec), oid : Nat, rra : Nat]

\* The rows of class a and host b.
KeyRows(R, D, a, b) == {c \in D : R[c].class = a /\ R[c].host = b}

\* The classes are those of the rows, in increasing order.
ClassesMatch(R, cc, D) ==
    /\ \A i \in 1 .. Len(cc) : \E c \in D : R[c].class = cc[i].db_id
    /\ \A c \in D : \E i \in 1 .. Len(cc) : cc[i].db_id = R[c].class
    /\ \A i, j \in 1 .. Len(cc) : i < j => cc[i].db_id < cc[j].db_id

\* The hosts of a class are those of its rows, in increasing order.
HostsMatch(R, cl, D) ==
    /\ \A j \in 1 .. Len(cl.host) :
          \E c \in D : R[c].class = cl.db_id /\ R[c].host = cl.host[j].db_id
    /\ \A c \in D : R[c].class = cl.db_id =>
          \E j \in 1 .. Len(cl.host) : cl.host[j].db_id = R[c].host
    /\ \A i, j \in 1 .. Len(cl.host) : i < j => cl.host[i].db_id < cl.host[j].db_id

\* The collections of host h in class a: as many as rows, and these rows if the
\* order is stable.
CollMatch(R, st, A, a, h, D) ==
    /\ Len(h.collection) = Cardinality(KeyRows(R, D, a, h.db_id))
    /\ \A l \in 1 .. Len(h.collection) :
          /\ h.collection[l] \in KeyRows(R, A, a, h.db_id)
          /\ st => h.collection[l] \in D
    /\ st => \A c \in KeyRows(R, D, a, h.db_id) :
                \E l \in 1 .. Len(h.collection) : h.collection[l] = c

\* Host h has the tables that its collections' mappings need.
TabMatch(R, sq, tab, h) ==
    /\ h.db_id \in DOMAIN tab
    /\ \A l \in 1 .. Len(h.collection) : R[h.collection[l]].mapping # 0 =>
          ToSet(sq[R[h.collection[l]].mapping]) \subseteq tab[h.db_id]

Matches(R, st, A, sq, cc, tab, D) ==
    /\ ClassesMatch(R, cc, D)
    /\ \A i \in 1 .. Len(cc) :
          /\ HostsMatch(R, cc[i], D)
          /\ \A j \in 1 .. Len(cc[i].host) :
                /\ CollMatch(R, st, A, cc[i].db_id, cc[i].host[j], D)
                /\ TabMatch(R, sq, tab, cc[i].host[j])

\* The variables carried from page to page stand for the last class and host, and
\* no row done comes after them.
AtEnd(R, cc, ld, lh, hi, D) ==
    /\ cc = <<>> => ld = -1
    /\ cc # <<>> => /\ ld = cc[Len(cc)].db_id
                    /\ hi = Len(cc[Len(cc)].host) /\ hi > 0
                    /\ lh = cc[Len(cc)].host[hi].db_id
    /\ \A d \in D : R[d].class < ld \/ (R[d].class = ld /\ R[d].host <= lh)

\* Rows that two orders of the database may have at the same place.
Alike(R, st, c, d) == R[c].class = R[d].class /\ R[c].host = R[d].host /\ (st => c = d)

DoneRows(s, m) == {s[i] : i \in 1 .. m}

Done == num_rows_done - Len(result)

\* What is loaded fits the first rows of every order that the database may choose.
FitsOrders ==
    \A s \in Orders :
        /\ \A i \in 1 .. Len(result) : Alike(db.coll, stable, result[i], s[Done + i])
        /\ Matches(db.coll, stable, Active, sequences, collection_class, host_table,
                   DoneRows(s, Done))
        /\ pc \in {"classes", "rows"} =>
              AtEnd(db.coll, collection_class, last_db_id, last_host_id, host_index,
                    DoneRows(s, Done))

\* Pages: the offset is what was read, and a page that is not full is the last one.
PagesInv ==
    /\ result \in Seq(Active) /\ num_rows_done \in Nat
    /\ Len(result) <= num_rows_done /\ num_rows_done <= Cardinality(Active)
    /\ pc # "rows" => result = <<>>
    /\ pc = "rows" /\ affected_rows # RowLimit => num_rows_done = Cardinality(Active)
    /\ pc \notin {"classes", "rows"} => num_rows_done = Cardinality(Active)
    /\ pc # "classes" => Orders # {}

Good == pc \in {"classes", "rows", "oids", "rras", "globals"} \/ (pc = "commit" /\ rvalue = 0)

\* The second inductive invariant.
LInv ==
    /\ TypeOK
    /\ pc \in {"idle", "hosts", "sequences"} =>
          /\ collection_class = <<>> /\ last_db_id = -1 /\ last_host_id = -1
          /\ result = <<>> /\ num_rows_done = 0
    /\ Good \/ pc \in {"files", "tables"} => collection_class \in Seq(ClassRec)
    /\ Good => PagesInv /\ FitsOrders

-----------------------------------------------------------------------------
(* Orders                                                                   *)

IsPreorder(A, L) ==
    /\ \A a \in A : <<a, a>> \in L
    /\ \A a, b, c \in A : <<a, b>> \in L /\ <<b, c>> \in L => <<a, c>> \in L

SortedBy(L, m, s) == \A i, j \in 1 .. m : i < j => <<s[i], s[j]>> \in L

OneToOne(m, s) == \A i, j \in 1 .. m : i # j => s[i] # s[j]

Onto(m, s, A) == \A a \in A : \E i \in 1 .. m : s[i] = a

\* Two enumerations of a set that are sorted by the same preorder have, at every
\* place, elements that the preorder does not tell apart.
LEMMA SortedAlike ==
    ASSUME NEW A, NEW L, NEW m \in Nat, NEW s \in [1 .. m -> A], NEW t \in [1 .. m -> A],
           IsPreorder(A, L), SortedBy(L, m, s), SortedBy(L, m, t), OneToOne(m, t),
           Onto(m, s, A), NEW i \in 1 .. m
    PROVE  <<s[i], t[i]>> \in L
  <1> SUFFICES ASSUME <<s[i], t[i]>> \notin L PROVE FALSE
    OBVIOUS
  <1>1. \A j \in 1 .. i : \E x \in 1 .. i - 1 : s[x] = t[j]
    <2> SUFFICES ASSUME NEW j \in 1 .. i PROVE \E x \in 1 .. i - 1 : s[x] = t[j]
      OBVIOUS
    <2>1. j \in 1 .. m /\ t[j] \in A /\ t[i] \in A /\ s[i] \in A
      OBVIOUS
    <2>2. <<t[j], t[i]>> \in L
      <3>1. <<t[i], t[i]>> \in L
        BY <2>1 DEF IsPreorder
      <3>2. CASE j = i
        BY <3>1, <3>2
      <3>3. CASE j # i
        BY <2>1, <3>3 DEF SortedBy
      <3> QED
        BY <3>2, <3>3
    <2>3. PICK x \in 1 .. m : s[x] = t[j]
      BY <2>1 DEF Onto
    <2>4. CASE x < i
      BY <2>3, <2>4
    <2>5. CASE x >= i
      <3>1. <<s[i], s[x]>> \in L
        <4>1. <<s[i], s[i]>> \in L
          BY <2>1 DEF IsPreorder
        <4>2. CASE x = i
          BY <4>1, <4>2
        <4>3. CASE x # i
          BY <2>5, <4>3 DEF SortedBy
        <4> QED
          BY <4>2, <4>3
      <3>2. <<s[i], t[j]>> \in L
        BY <2>3, <3>1
      <3>3. <<s[i], t[i]>> \in L
        BY <2>1, <2>2, <3>2, Zenon DEF IsPreorder
      <3> QED
        BY <3>3
    <2> QED
      BY <2>4, <2>5
  <1> DEFINE f == [j \in 1 .. i |-> CHOOSE x \in 1 .. i - 1 : s[x] = t[j]]
  <1>2. \A j \in 1 .. i : f[j] \in 1 .. i - 1 /\ s[f[j]] = t[j]
    BY <1>1
  <1>3. f \in [1 .. i -> 1 .. i - 1]
    BY <1>2
  <1> HIDE DEF f
  <1>4. /\ IsFiniteSet(1 .. i) /\ Cardinality(1 .. i) = i
        /\ IsFiniteSet(1 .. i - 1) /\ Cardinality(1 .. i - 1) = i - 1
    <2>1. i \in Int /\ i - 1 \in Int /\ 1 \in Int /\ i >= 1
      OBVIOUS
    <2>2. /\ IsFiniteSet(1 .. i) /\ Cardinality(1 .. i) = IF 1 > i THEN 0 ELSE i - 1 + 1
      BY <2>1, FS_Interval
    <2>3. /\ IsFiniteSet(1 .. i - 1)
          /\ Cardinality(1 .. i - 1) = IF 1 > i - 1 THEN 0 ELSE i - 1 - 1 + 1
      BY <2>1, FS_Interval
    <2> QED
      BY <2>1, <2>2, <2>3
  <1>5. Cardinality(1 .. i - 1) < Cardinality(1 .. i)
    BY <1>4
  <1>6. PICK x, y \in 1 .. i : x # y /\ f[x] = f[y]
    <2> DEFINE X == 1 .. i
               Y == 1 .. i - 1
    <2>1. f \in [X -> Y] /\ IsFiniteSet(X) /\ IsFiniteSet(Y) /\ Cardinality(Y) < Cardinality(X)
      BY <1>3, <1>4, <1>5
    <2> HIDE DEF X, Y
    <2>2. \E x, y \in X : x # y /\ f[x] = f[y]
      BY <2>1, FS_PigeonHole
    <2> QED
      BY <2>2 DEF X
  <1>7. t[x] = t[y] /\ x \in 1 .. m /\ y \in 1 .. m
    BY <1>2, <1>6
  <1> QED
    BY <1>6, <1>7 DEF OneToOne

\* An injection from 1 .. Cardinality(S) to S reaches every element.
LEMMA Enumerates ==
    ASSUME NEW S, IsFiniteSet(S), NEW s \in SetToSeqs(S)
    PROVE  /\ s \in [1 .. Cardinality(S) -> S] /\ Cardinality(S) \in Nat
           /\ OneToOne(Cardinality(S), s) /\ Onto(Cardinality(S), s, S)
           /\ s \in Seq(S) /\ Len(s) = Cardinality(S)
  <1> DEFINE m == Cardinality(S)
  <1>1. m \in Nat
    BY FS_CardinalityType
  <1>2. s \in [1 .. m -> S] /\ OneToOne(m, s)
    BY DEF SetToSeqs, OneToOne
  <1> SUFFICES Onto(m, s, S) /\ s \in Seq(S) /\ Len(s) = m
    BY <1>1, <1>2
  <1> HIDE DEF m
  <1>3. s \in Injection(1 .. m, S)
    BY <1>2 DEF Injection, IsInjective, OneToOne
  <1>4. Cardinality(1 .. m) = m
    <2>1. 1 \in Int /\ m \in Int
      BY <1>1
    <2>2. Cardinality(1 .. m) = IF 1 > m THEN 0 ELSE m - 1 + 1
      BY <2>1, FS_Interval
    <2> QED
      BY <1>1, <2>2
  <1>5. s \in Surjection(1 .. m, S)
    BY <1>3, <1>4, FS_Injection DEF m
  <1>6. Onto(m, s, S)
    BY <1>5 DEF Surjection, Onto
  <1>7. s \in Seq(S) /\ Len(s) = m
    BY <1>1, <1>2
  <1> QED
    BY <1>6, <1>7

LEMMA ActiveFacts ==
    ASSUME db \in Databases
    PROVE  /\ IsFiniteSet(Active) /\ Cardinality(Active) \in Nat
           /\ \A c \in Active : /\ c \in DOMAIN db.coll /\ c \in DOMAIN DirOf /\ c \in Nat
                                /\ db.coll[c].class \in Nat \ {0}
                                /\ db.coll[c].host \in Nat \ {0}
                                /\ db.oids[db.coll[c].class] \in Nat
                                /\ db.rras[db.coll[c].class] \in Nat
  <1>1. IsFiniteSet(DOMAIN db.coll)
    BY DatabasesAssumption
  <1>2. Active \in SUBSET (DOMAIN db.coll)
    BY DEF Active
  <1>3. IsFiniteSet(Active)
    BY <1>1, <1>2, FS_Subset
  <1>4. Cardinality(Active) \in Nat
    BY <1>3, FS_CardinalityType
  <1> QED
    BY <1>2, <1>3, <1>4, DatabasesAssumption

\* The order of the query behind load_collection_class_block, as a relation.
InOrder ==
    {x \in Active \X Active :
        /\ ~Before(x[2], x[1])
        /\ stable /\ ~Before(x[1], x[2]) => x[1] <= x[2]}

LEMMA InOrderIs ==
    ASSUME NEW c \in Active, NEW d \in Active
    PROVE  <<c, d>> \in InOrder <=> ~Before(d, c) /\ (stable /\ ~Before(c, d) => c <= d)
  BY DEF InOrder

LEMMA InOrderPreorder ==
    ASSUME db \in Databases
    PROVE  IsPreorder(Active, InOrder)
  <1>1. ASSUME NEW a \in Active PROVE <<a, a>> \in InOrder
    BY ActiveFacts, InOrderIs DEF Before
  <1>2. ASSUME NEW a \in Active, NEW b \in Active, NEW c \in Active,
               <<a, b>> \in InOrder, <<b, c>> \in InOrder
        PROVE  <<a, c>> \in InOrder
    <2>1. /\ ~Before(b, a) /\ (stable /\ ~Before(a, b) => a <= b)
          /\ ~Before(c, b) /\ (stable /\ ~Before(b, c) => b <= c)
      BY <1>2, InOrderIs
    <2>2. ~Before(c, a) /\ (stable /\ ~Before(a, c) => a <= c)
      BY <2>1, ActiveFacts DEF Before
    <2> QED
      BY <2>2, InOrderIs
  <1> QED
    BY <1>1, <1>2 DEF IsPreorder

LEMMA OrderFacts ==
    ASSUME db \in Databases, NEW s \in Orders
    PROVE  /\ s \in [1 .. Cardinality(Active) -> Active]
           /\ OneToOne(Cardinality(Active), s) /\ Onto(Cardinality(Active), s, Active)
           /\ SortedBy(InOrder, Cardinality(Active), s)
           /\ s \in Seq(Active) /\ Len(s) = Cardinality(Active)
  <1> DEFINE m == Cardinality(Active)
  <1>1. s \in SetToSeqs(Active)
    BY DEF Orders
  <1>2. /\ s \in [1 .. m -> Active] /\ OneToOne(m, s) /\ Onto(m, s, Active)
        /\ s \in Seq(Active) /\ Len(s) = m /\ m \in Nat
    BY <1>1, ActiveFacts, Enumerates
  <1>3. ASSUME NEW i \in 1 .. m, NEW j \in 1 .. m, i < j PROVE <<s[i], s[j]>> \in InOrder
    <2>1. i \in DOMAIN s /\ j \in DOMAIN s /\ s[i] \in Active /\ s[j] \in Active
      BY <1>2
    <2>2. ~Before(s[j], s[i]) /\ (stable /\ ~Before(s[i], s[j]) => s[i] < s[j])
      BY <1>3, <2>1 DEF Orders
    <2>3. s[i] < s[j] => s[i] <= s[j]
      BY <2>1, ActiveFacts
    <2>4. PICK c \in Active, d \in Active : c = s[i] /\ d = s[j]
      BY <2>1
    <2>5. <<c, d>> \in InOrder
      BY <2>2, <2>3, <2>4, InOrderIs
    <2> QED
      BY <2>4, <2>5
  <1> QED
    BY <1>2, <1>3 DEF SortedBy

\* Whatever orders the database chooses for two pages, rows at the same place have
\* the same class and host, and are the same if equal rows keep their order.
LEMMA OrdersAlike ==
    ASSUME db \in Databases, NEW s \in Orders, NEW t \in Orders,
           NEW i \in 1 .. Cardinality(Active)
    PROVE  Alike(db.coll, stable, s[i], t[i])
  <1>1. PICK m \in Nat : m = Cardinality(Active)
    BY ActiveFacts
  <1>2. /\ s \in [1 .. m -> Active] /\ OneToOne(m, s) /\ Onto(m, s, Active)
        /\ SortedBy(InOrder, m, s)
        /\ t \in [1 .. m -> Active] /\ OneToOne(m, t) /\ Onto(m, t, Active)
        /\ SortedBy(InOrder, m, t) /\ i \in 1 .. m
    BY <1>1, OrderFacts
  <1>3. PICK c \in Active, d \in Active : c = s[i] /\ d = t[i]
    BY <1>2
  <1>4. <<s[i], t[i]>> \in InOrder /\ <<t[i], s[i]>> \in InOrder
    BY <1>2, InOrderPreorder, SortedAlike
  <1>5. <<c, d>> \in InOrder /\ <<d, c>> \in InOrder
    BY <1>3, <1>4
  <1>6. /\ ~Before(d, c) /\ (stable /\ ~Before(c, d) => c <= d)
        /\ ~Before(c, d) /\ (stable /\ ~Before(d, c) => d <= c)
    BY <1>5, InOrderIs
  <1>7. db.coll[c].class = db.coll[d].class /\ db.coll[c].host = db.coll[d].host
    BY <1>6, ActiveFacts DEF Before
  <1>8. stable => c = d
    BY <1>6, ActiveFacts
  <1> QED
    BY <1>3, <1>7, <1>8 DEF Alike

-----------------------------------------------------------------------------
(* One row                                                                  *)

(* A row of class a and host b is to be added to the collections oc of the   *)
(* host, which comes x-th in the class, after hs, which comes n-th, after    *)
(* those of cc.  What the rows D before it have led to:                      *)

ClassesBefore(R, st, A, sq, tab, D, a, cc, n) ==
    /\ \A i \in 1 .. n - 1 : cc[i].db_id < a /\ \E d \in D : R[d].class = cc[i].db_id
    /\ \A i, j \in 1 .. n - 1 : i < j => cc[i].db_id < cc[j].db_id
    /\ \A d \in D : R[d].class = a \/ \E i \in 1 .. n - 1 : cc[i].db_id = R[d].class
    /\ \A i \in 1 .. n - 1 :
          /\ HostsMatch(R, cc[i], D)
          /\ \A j \in 1 .. Len(cc[i].host) :
                /\ CollMatch(R, st, A, cc[i].db_id, cc[i].host[j], D)
                /\ TabMatch(R, sq, tab, cc[i].host[j])

HostsBefore(R, st, A, sq, tab, D, a, b, hs, x) ==
    /\ \A j \in 1 .. x - 1 :
          hs[j].db_id < b /\ \E d \in D : R[d].class = a /\ R[d].host = hs[j].db_id
    /\ \A i, j \in 1 .. x - 1 : i < j => hs[i].db_id < hs[j].db_id
    /\ \A d \in D : R[d].class = a =>
          R[d].host = b \/ \E j \in 1 .. x - 1 : hs[j].db_id = R[d].host
    /\ \A j \in 1 .. x - 1 :
          CollMatch(R, st, A, a, hs[j], D) /\ TabMatch(R, sq, tab, hs[j])

CollBefore(R, st, A, sq, tab, D, a, b, oc) ==
    /\ CollMatch(R, st, A, a, [db_id |-> b, collection |-> oc], D)
    /\ \A l \in 1 .. Len(oc) : R[oc[l]].mapping # 0 =>
          ToSet(sq[R[oc[l]].mapping]) \subseteq tab[b]

\* No row of D comes after one of class a and host b.
AllBefore(R, D, a, b) == \A d \in D : R[d].class < a \/ (R[d].class = a /\ R[d].host <= b)

NumKeys(R, D) == \A d \in D : R[d].class \in Nat \ {0} /\ R[d].host \in Nat \ {0}

\* The classes before the last one.
LEMMA BeforeLastClass ==
    ASSUME NEW R, NEW st, NEW A, NEW sq, NEW tab, NEW D,
           NEW cc \in Seq(ClassRec), cc # <<>>, NEW a, a = cc[Len(cc)].db_id,
           Matches(R, st, A, sq, cc, tab, D)
    PROVE  ClassesBefore(R, st, A, sq, tab, D, a, cc, Len(cc))
  <1> DEFINE n == Len(cc)
  <1>1. n \in Nat /\ n > 0
    OBVIOUS
  <1>2. ClassesMatch(R, cc, D)
    BY DEF Matches
  <1>3. \A i \in 1 .. n - 1 : i \in 1 .. n /\ i < n
    BY <1>1
  <1>4. \A i \in 1 .. n - 1 : cc[i].db_id < a /\ \E d \in D : R[d].class = cc[i].db_id
    BY <1>1, <1>2, <1>3, SMTT(20) DEF ClassesMatch
  <1>5. \A i, j \in 1 .. n - 1 : i < j => cc[i].db_id < cc[j].db_id
    BY <1>2, <1>3 DEF ClassesMatch
  <1>6. \A d \in D : R[d].class = a \/ \E i \in 1 .. n - 1 : cc[i].db_id = R[d].class
    BY <1>1, <1>2 DEF ClassesMatch
  <1>7. \A i \in 1 .. n - 1 :
           /\ HostsMatch(R, cc[i], D)
           /\ \A j \in 1 .. Len(cc[i].host) :
                 /\ CollMatch(R, st, A, cc[i].db_id, cc[i].host[j], D)
                 /\ TabMatch(R, sq, tab, cc[i].host[j])
    BY <1>3 DEF Matches
  <1> QED
    BY <1>4, <1>5, <1>6, <1>7 DEF ClassesBefore

\* What the last class and its hosts are.
LEMMA LastClass ==
    ASSUME NEW R, NEW st, NEW A, NEW sq, NEW tab, NEW D,
           NEW cc \in Seq(ClassRec), NEW ld, NEW lh, NEW hi, cc # <<>>,
           Matches(R, st, A, sq, cc, tab, D), AtEnd(R, cc, ld, lh, hi, D)
    PROVE  /\ Len(cc) \in Nat /\ Len(cc) > 0 /\ ld = cc[Len(cc)].db_id
           /\ cc[Len(cc)].host \in Seq(HostRec) /\ hi = Len(cc[Len(cc)].host) /\ hi \in Nat
           /\ hi > 0 /\ lh = cc[Len(cc)].host[hi].db_id /\ ld \in Nat /\ lh \in Nat
           /\ \A j \in 1 .. hi :
                 /\ \E d \in D : R[d].class = ld /\ R[d].host = cc[Len(cc)].host[j].db_id
                 /\ CollMatch(R, st, A, ld, cc[Len(cc)].host[j], D)
                 /\ TabMatch(R, sq, tab, cc[Len(cc)].host[j])
           /\ \A d \in D : R[d].class = ld =>
                 \E j \in 1 .. hi : cc[Len(cc)].host[j].db_id = R[d].host
           /\ \A i, j \in 1 .. hi : i < j =>
                 cc[Len(cc)].host[i].db_id < cc[Len(cc)].host[j].db_id
  <1> DEFINE n == Len(cc)
             hs == cc[n].host
  <1>1. n \in Nat /\ n > 0 /\ cc[n] \in ClassRec
    OBVIOUS
  <1>2. hs \in Seq(HostRec) /\ Len(hs) \in Nat /\ cc[n].db_id \in Nat
    BY <1>1 DEF ClassRec
  <1>3. ld = cc[n].db_id /\ hi = Len(hs) /\ hi > 0 /\ lh = hs[hi].db_id
    BY DEF AtEnd
  <1>4. lh \in Nat
    <2>1. hi \in 1 .. Len(hs)
      BY <1>2, <1>3
    <2>2. hs[hi] \in HostRec
      BY <1>2, <2>1
    <2> QED
      BY <1>3, <2>2 DEF HostRec
  <1>5. /\ HostsMatch(R, cc[n], D)
        /\ \A j \in 1 .. Len(hs) : CollMatch(R, st, A, ld, hs[j], D) /\ TabMatch(R, sq, tab, hs[j])
    BY <1>1, <1>3 DEF Matches
  <1>6. /\ \A j \in 1 .. Len(hs) : \E d \in D : R[d].class = ld /\ R[d].host = hs[j].db_id
        /\ \A d \in D : R[d].class = ld => \E j \in 1 .. Len(hs) : hs[j].db_id = R[d].host
        /\ \A i, j \in 1 .. Len(hs) : i < j => hs[i].db_id < hs[j].db_id
    BY <1>3, <1>5 DEF HostsMatch
  <1> QED
    BY <1>1, <1>2, <1>3, <1>4, <1>5, <1>6

\* The row has the class of the last one and its host.
LEMMA BeforeSameHost ==
    ASSUME NEW R, NEW st, NEW A, NEW sq, NEW tab, NEW D,
           NEW cc \in Seq(ClassRec), NEW a \in Nat \ {0}, NEW b \in Nat \ {0}, NEW hi,
           cc # <<>>, Matches(R, st, A, sq, cc, tab, D), AtEnd(R, cc, a, b, hi, D)
    PROVE  /\ ClassesBefore(R, st, A, sq, tab, D, a, cc, Len(cc))
           /\ HostsBefore(R, st, A, sq, tab, D, a, b, cc[Len(cc)].host, hi)
           /\ CollBefore(R, st, A, sq, tab, D, a, b, cc[Len(cc)].host[hi].collection)
  <1> DEFINE n == Len(cc)
             hs == cc[n].host
  <1>1. /\ n \in Nat /\ n > 0 /\ a = cc[n].db_id
        /\ hs \in Seq(HostRec) /\ hi = Len(hs) /\ hi \in Nat /\ hi > 0 /\ b = hs[hi].db_id
        /\ \A j \in 1 .. hi : /\ \E d \in D : R[d].class = a /\ R[d].host = hs[j].db_id
                              /\ CollMatch(R, st, A, a, hs[j], D)
                              /\ TabMatch(R, sq, tab, hs[j])
        /\ \A d \in D : R[d].class = a => \E j \in 1 .. hi : hs[j].db_id = R[d].host
        /\ \A i, j \in 1 .. hi : i < j => hs[i].db_id < hs[j].db_id
    BY LastClass
  <1>2. ClassesBefore(R, st, A, sq, tab, D, a, cc, n)
    BY <1>1, BeforeLastClass
  <1> HIDE DEF n, hs
  <1>3. HostsBefore(R, st, A, sq, tab, D, a, b, hs, hi)
    <2>0. hi \in Nat /\ hi > 0
      BY <1>1
    <2>1. \A j \in 1 .. hi - 1 : j \in 1 .. hi /\ j < hi
      BY <2>0
    <2>2. \A j \in 1 .. hi - 1 : hs[j].db_id < b
      <3>1. /\ \A i, j \in 1 .. hi : i < j => hs[i].db_id < hs[j].db_id
            /\ b = hs[hi].db_id /\ hi \in 1 .. hi
        BY <1>1
      <3> QED
        BY <2>1, <3>1
    <2>3. \A d \in D : R[d].class = a =>
             R[d].host = b \/ \E j \in 1 .. hi - 1 : hs[j].db_id = R[d].host
      BY <1>1, SMTT(20)
    <2> QED
      BY <1>1, <2>1, <2>2, <2>3 DEF HostsBefore
  <1>4. CollBefore(R, st, A, sq, tab, D, a, b, hs[hi].collection)
    <2>1. hi \in 1 .. hi /\ hs[hi] \in HostRec
      BY <1>1
    <2>2. CollMatch(R, st, A, a, hs[hi], D) /\ TabMatch(R, sq, tab, hs[hi])
      BY <1>1, <2>1
    <2>3. hs[hi] = [db_id |-> b, collection |-> hs[hi].collection]
      BY <1>1, <2>1 DEF HostRec
    <2> QED
      BY <1>1, <2>2, <2>3 DEF CollBefore, TabMatch
  <1> QED
    BY <1>2, <1>3, <1>4 DEF n, hs

\* A host without collections yet.
LEMMA BeforeFirstRow ==
    ASSUME NEW R, NEW st, NEW A, NEW sq, NEW tab, NEW D, NEW a, NEW b,
           KeyRows(R, D, a, b) = {}
    PROVE  CollBefore(R, st, A, sq, tab, D, a, b, <<>>)
  <1> DEFINE h == [db_id |-> b, collection |-> <<>>]
  <1>1. h.db_id = b /\ h.collection = <<>> /\ Len(<<>>) = 0 /\ 1 .. 0 = {}
    OBVIOUS
  <1> HIDE DEF h
  <1>2. CollMatch(R, st, A, a, h, D)
    BY <1>1, FS_EmptySet DEF CollMatch
  <1> QED
    BY <1>1, <1>2 DEF CollBefore, h

\* The row has the class of the last one and another host.
LEMMA BeforeNewHost ==
    ASSUME NEW R, NEW st, NEW A, NEW sq, NEW tab, NEW D, NumKeys(R, D),
           NEW cc \in Seq(ClassRec), NEW a \in Nat \ {0}, NEW b \in Nat \ {0},
           NEW lh, NEW hi, cc # <<>>, b # lh, AllBefore(R, D, a, b),
           Matches(R, st, A, sq, cc, tab, D), AtEnd(R, cc, a, lh, hi, D)
    PROVE  /\ ClassesBefore(R, st, A, sq, tab, D, a, cc, Len(cc))
           /\ HostsBefore(R, st, A, sq, tab, D, a, b, cc[Len(cc)].host, hi + 1)
           /\ CollBefore(R, st, A, sq, tab, D, a, b, <<>>)
  <1> DEFINE n == Len(cc)
             hs == cc[n].host
  <1>1. /\ n \in Nat /\ n > 0 /\ a = cc[n].db_id
        /\ hs \in Seq(HostRec) /\ hi = Len(hs) /\ hi \in Nat /\ hi > 0 /\ lh = hs[hi].db_id
        /\ lh \in Nat
        /\ \A j \in 1 .. hi : /\ \E d \in D : R[d].class = a /\ R[d].host = hs[j].db_id
                              /\ CollMatch(R, st, A, a, hs[j], D)
                              /\ TabMatch(R, sq, tab, hs[j])
        /\ \A d \in D : R[d].class = a => \E j \in 1 .. hi : hs[j].db_id = R[d].host
        /\ \A i, j \in 1 .. hi : i < j => hs[i].db_id < hs[j].db_id
    BY LastClass
  <1>2. ClassesBefore(R, st, A, sq, tab, D, a, cc, n)
    BY <1>1, BeforeLastClass
  <1> HIDE DEF n, hs
  <1>3. lh < b
    <2>1. PICK d \in D : R[d].class = a /\ R[d].host = lh
      BY <1>1, SMTT(20)
    <2>2. lh \in Nat /\ lh # b
      BY <1>1
    <2>3. lh <= b
      BY <2>1 DEF AllBefore, NumKeys
    <2> QED
      BY <2>2, <2>3
  <1>4. \A d \in D : R[d].class = a => R[d].host < b
    <2>1. \A d \in D : R[d].class < a \/ (R[d].class = a /\ R[d].host <= lh)
      BY DEF AtEnd
    <2>2. lh \in Nat
      BY <1>1
    <2> QED
      BY <1>3, <2>1, <2>2 DEF NumKeys
  <1>5. HostsBefore(R, st, A, sq, tab, D, a, b, hs, hi + 1)
    <2>1. hi + 1 - 1 = hi
      BY <1>1
    <2>2. \A j \in 1 .. hi : hs[j].db_id < b
      BY <1>1, <1>4
    <2> QED
      BY <1>1, <2>1, <2>2, SMTT(20) DEF HostsBefore
  <1>6. KeyRows(R, D, a, b) = {}
    BY <1>4 DEF KeyRows, NumKeys
  <1> QED
    BY <1>2, <1>5, <1>6, BeforeFirstRow DEF n, hs

\* The row has another class than the last one.
LEMMA BeforeNewClass ==
    ASSUME NEW R, NEW st, NEW A, NEW sq, NEW tab, NEW D, NumKeys(R, D),
           NEW cc \in Seq(ClassRec), NEW a \in Nat \ {0}, NEW b \in Nat \ {0},
           NEW ld, NEW lh, NEW hi, a # ld, AllBefore(R, D, a, b),
           Matches(R, st, A, sq, cc, tab, D), AtEnd(R, cc, ld, lh, hi, D)
    PROVE  /\ ClassesBefore(R, st, A, sq, tab, D, a, cc, Len(cc) + 1)
           /\ HostsBefore(R, st, A, sq, tab, D, a, b, <<>>, 1)
           /\ CollBefore(R, st, A, sq, tab, D, a, b, <<>>)
  <1>1. \A d \in D : R[d].class < a
    <2>1. CASE cc = <<>>
      BY <2>1 DEF Matches, ClassesMatch
    <2>2. CASE cc # <<>>
      <3>1. ld \in Nat /\ \E d \in D : R[d].class = ld
        <4>1. ld \in Nat /\ hi \in Nat /\ hi > 0
          BY <2>2, LastClass
        <4>2. hi \in 1 .. hi
          BY <4>1
        <4> QED
          BY <2>2, <4>1, <4>2, LastClass
      <3>2. ld < a
        BY <3>1 DEF AllBefore, NumKeys
      <3> QED
        BY <3>1, <3>2 DEF AtEnd, NumKeys
    <2> QED
      BY <2>1, <2>2
  <1>2. ClassesBefore(R, st, A, sq, tab, D, a, cc, Len(cc) + 1)
    <2>1. Len(cc) + 1 - 1 = Len(cc)
      OBVIOUS
    <2>2. ClassesMatch(R, cc, D)
      BY DEF Matches
    <2>3. \A i \in 1 .. Len(cc) : cc[i].db_id < a
      BY <1>1, <2>2 DEF ClassesMatch
    <2> QED
      BY <2>1, <2>2, <2>3 DEF ClassesBefore, ClassesMatch, Matches
  <1>3. HostsBefore(R, st, A, sq, tab, D, a, b, <<>>, 1)
    <2>1. 1 .. (1 - 1) = {}
      OBVIOUS
    <2>2. \A d \in D : R[d].class # a
      BY <1>1 DEF NumKeys
    <2> QED
      BY <2>1, <2>2 DEF HostsBefore
  <1>4. KeyRows(R, D, a, b) = {}
    BY <1>1 DEF KeyRows, NumKeys
  <1> QED
    BY <1>2, <1>3, <1>4, BeforeFirstRow

\* Hosts and collections of other classes and hosts are not touched by row e.
LEMMA OtherKeys ==
    ASSUME NEW R, NEW st, NEW A, NEW D, NEW e, NEW a, NEW h,
           a # R[e].class \/ h.db_id # R[e].host, CollMatch(R, st, A, a, h, D)
    PROVE  CollMatch(R, st, A, a, h, D \cup {e})
  <1>1. KeyRows(R, D \cup {e}, a, h.db_id) = KeyRows(R, D, a, h.db_id)
    BY DEF KeyRows
  <1> QED
    BY <1>1 DEF CollMatch

LEMMA OtherClass ==
    ASSUME NEW R, NEW D, NEW e, NEW cl, cl.db_id # R[e].class, HostsMatch(R, cl, D)
    PROVE  HostsMatch(R, cl, D \cup {e})
  BY DEF HostsMatch

\* Tables that only grow have what they had.
LEMMA TabKeeps ==
    ASSUME NEW R, NEW sq, NEW tab, NEW tab2, NEW h, TabMatch(R, sq, tab, h),
           DOMAIN tab2 = DOMAIN tab, \A g \in DOMAIN tab : tab[g] \subseteq tab2[g]
    PROVE  TabMatch(R, sq, tab2, h)
  <1>1. h.db_id \in DOMAIN tab2 /\ tab[h.db_id] \subseteq tab2[h.db_id]
    BY DEF TabMatch
  <1> QED
    BY <1>1 DEF TabMatch

\* The row c goes to the end of the collections of its host; e is the row that
\* another order of the database has in its place.
LEMMA SameKey ==
    ASSUME NEW R, NEW st, NEW A, NEW D, IsFiniteSet(D), NEW a, NEW b, NEW c, NEW e,
           NEW X, NEW oc \in Seq(X), c \in X, NEW h,
           e \notin D, R[e].class = a, R[e].host = b, c \in A, Alike(R, st, c, e),
           CollMatch(R, st, A, a, [db_id |-> b, collection |-> oc], D),
           h.db_id = b, h.collection = Append(oc, c)
    PROVE  CollMatch(R, st, A, a, h, D \cup {e})
  <1> DEFINE K == KeyRows(R, D, a, b)
             m == Len(oc)
  <1>1. /\ m \in Nat /\ Len(Append(oc, c)) = m + 1
        /\ \A l \in 1 .. m : Append(oc, c)[l] = oc[l]
        /\ Append(oc, c)[m + 1] = c
    BY PushFacts
  <1>2. /\ m = Cardinality(K)
        /\ \A l \in 1 .. m : oc[l] \in KeyRows(R, A, a, b) /\ (st => oc[l] \in D)
        /\ st => \A d \in K : \E l \in 1 .. m : oc[l] = d
    BY DEF CollMatch
  <1>3. KeyRows(R, D \cup {e}, a, b) = K \cup {e} /\ e \notin K /\ K \in SUBSET D
    BY DEF KeyRows
  <1> HIDE DEF K, m
  <1>4. Cardinality(K \cup {e}) = m + 1
    <2>1. IsFiniteSet(K)
      BY <1>3, FS_Subset
    <2> QED
      BY <1>2, <1>3, <2>1, FS_AddElement
  <1>5. c \in KeyRows(R, A, a, b) /\ (st => c = e)
    BY DEF Alike, KeyRows
  <1>6. \A l \in 1 .. m + 1 : l \in 1 .. m \/ l = m + 1
    BY <1>1
  <1>7. \A l \in 1 .. m + 1 : /\ Append(oc, c)[l] \in KeyRows(R, A, a, b)
                              /\ st => Append(oc, c)[l] \in D \cup {e}
    BY <1>1, <1>2, <1>5, <1>6
  <1>8. ASSUME st, NEW d \in K \cup {e} PROVE \E l \in 1 .. m + 1 : Append(oc, c)[l] = d
    <2>1. CASE d = e
      <3>1. m + 1 \in 1 .. m + 1
        BY <1>1
      <3> QED
        BY <1>1, <1>5, <1>8, <2>1, <3>1
    <2>2. CASE d \in K
      <3>1. PICK l \in 1 .. m : oc[l] = d
        BY <1>2, <1>8, <2>2
      <3>2. l \in 1 .. m + 1
        BY <1>1
      <3> QED
        BY <1>1, <3>1, <3>2
    <2> QED
      BY <2>1, <2>2
  <1>9. Len(h.collection) = Cardinality(KeyRows(R, D \cup {e}, a, h.db_id))
    BY <1>1, <1>3, <1>4, Zenon
  <1>10. \A l \in 1 .. Len(h.collection) :
            /\ h.collection[l] \in KeyRows(R, A, a, h.db_id)
            /\ st => h.collection[l] \in D \cup {e}
    BY <1>1, <1>7, Zenon
  <1>11. st => \A d \in KeyRows(R, D \cup {e}, a, h.db_id) :
                  \E l \in 1 .. Len(h.collection) : h.collection[l] = d
    <2>1. ASSUME st, NEW d \in KeyRows(R, D \cup {e}, a, h.db_id)
          PROVE  \E l \in 1 .. Len(h.collection) : h.collection[l] = d
      <3>1. d \in K \cup {e}
        BY <1>3, Zenon
      <3>2. PICK l \in 1 .. m + 1 : Append(oc, c)[l] = d
        BY <1>8, <2>1, <3>1, Zenon
      <3> QED
        BY <1>1, <3>2, Zenon
    <2> QED
      BY <2>1, Zenon
  <1> QED
    BY <1>9, <1>10, <1>11, Zenon DEF CollMatch

\* cc2 is what the loop's turn for row c makes of the classes.
Added(cc2, cc, n, hs, x, a, b, oc, c) ==
    /\ cc2 \in Seq(ClassRec) /\ Len(cc2) = n
    /\ \A i \in 1 .. n - 1 : cc2[i] = cc[i]
    /\ cc2[n].db_id = a
    /\ Len(cc2[n].host) = x
    /\ \A j \in 1 .. x - 1 : cc2[n].host[j] = hs[j]
    /\ cc2[n].host[x].db_id = b
    /\ cc2[n].host[x].collection = Append(oc, c)

LEMMA RowMatches ==
    ASSUME NEW R, NEW st, NEW A, NEW sq, NEW tab, NEW tab2, NEW D, IsFiniteSet(D),
           NEW a \in Nat \ {0}, NEW b \in Nat \ {0}, NEW c \in A, NEW e, NEW cc, NEW cc2,
           NEW n \in Nat \ {0}, NEW x \in Nat \ {0}, NEW hs,
           NEW oc \in Seq(DOMAIN DirOf), c \in DOMAIN DirOf,
           e \notin D, R[e].class = a, R[e].host = b, Alike(R, st, c, e), AllBefore(R, D, a, b),
           ClassesBefore(R, st, A, sq, tab, D, a, cc, n),
           HostsBefore(R, st, A, sq, tab, D, a, b, hs, x),
           CollBefore(R, st, A, sq, tab, D, a, b, oc),
           Added(cc2, cc, n, hs, x, a, b, oc, c),
           DOMAIN tab2 = DOMAIN tab, \A g \in DOMAIN tab : tab[g] \subseteq tab2[g],
           b \in DOMAIN tab,
           R[c].mapping # 0 => ToSet(sq[R[c].mapping]) \subseteq tab2[b]
    PROVE  /\ Matches(R, st, A, sq, cc2, tab2, D \cup {e})
           /\ AtEnd(R, cc2, a, b, x, D \cup {e})
  <1> DEFINE E == D \cup {e}
             hs2 == cc2[n].host
  <1>1. /\ \A i \in 1 .. n : i \in 1 .. n - 1 \/ i = n
        /\ \A j \in 1 .. x : j \in 1 .. x - 1 \/ j = x
        /\ n \in 1 .. n /\ x \in 1 .. x /\ n \notin 1 .. n - 1 /\ x \notin 1 .. x - 1
        /\ \A i \in 1 .. n - 1 : i \in 1 .. n /\ i < n
        /\ \A j \in 1 .. x - 1 : j \in 1 .. x /\ j < x
    OBVIOUS
  <1>2. /\ Len(cc2) = n /\ \A i \in 1 .. n - 1 : cc2[i] = cc[i]
        /\ cc2[n].db_id = a
    BY DEF Added
  <1>3. /\ Len(hs2) = x /\ \A j \in 1 .. x - 1 : hs2[j] = hs[j]
        /\ hs2[x].db_id = b /\ hs2[x].collection = Append(oc, c)
    BY DEF Added
  <1> HIDE DEF hs2
  <1>4. ClassesMatch(R, cc2, E)
    <2>1. ASSUME NEW i \in 1 .. n PROVE \E d \in E : R[d].class = cc2[i].db_id
      <3>1. CASE i = n
        BY <1>2, <3>1
      <3>2. CASE i \in 1 .. n - 1
        <4>1. PICK d \in D : R[d].class = cc[i].db_id
          BY <3>2 DEF ClassesBefore
        <4> QED
          BY <1>2, <3>2, <4>1
      <3> QED
        BY <1>1, <3>1, <3>2
    <2>2. ASSUME NEW d \in E PROVE \E i \in 1 .. n : cc2[i].db_id = R[d].class
      <3>1. CASE R[d].class = a
        BY <1>1, <1>2, <3>1
      <3>2. CASE R[d].class # a
        <4>1. d \in D
          BY <3>2
        <4>2. PICK i \in 1 .. n - 1 : cc[i].db_id = R[d].class
          BY <3>2, <4>1 DEF ClassesBefore
        <4> QED
          BY <1>1, <1>2, <4>2
      <3> QED
        BY <3>1, <3>2
    <2>3. \A i, j \in 1 .. n : i < j => cc2[i].db_id < cc2[j].db_id
      <3> SUFFICES ASSUME NEW i \in 1 .. n, NEW j \in 1 .. n, i < j
                   PROVE  cc2[i].db_id < cc2[j].db_id
        OBVIOUS
      <3>1. i \in 1 .. n - 1
        OBVIOUS
      <3>2. CASE j = n
        BY <1>2, <3>1, <3>2 DEF ClassesBefore
      <3>3. CASE j \in 1 .. n - 1
        BY <1>2, <3>1, <3>3 DEF ClassesBefore
      <3> QED
        BY <1>1, <3>2, <3>3
    <2> QED
      BY <1>2, <2>1, <2>2, <2>3 DEF ClassesMatch
  <1>5. HostsMatch(R, cc2[n], E)
    <2>1. ASSUME NEW j \in 1 .. x
          PROVE  \E d \in E : R[d].class = a /\ R[d].host = hs2[j].db_id
      <3>1. CASE j = x
        BY <1>3, <3>1
      <3>2. CASE j \in 1 .. x - 1
        <4>1. PICK d \in D : R[d].class = a /\ R[d].host = hs[j].db_id
          BY <3>2 DEF HostsBefore
        <4> QED
          BY <1>3, <3>2, <4>1
      <3> QED
        BY <1>1, <3>1, <3>2
    <2>2. ASSUME NEW d \in E, R[d].class = a
          PROVE  \E j \in 1 .. x : hs2[j].db_id = R[d].host
      <3>1. CASE R[d].host = b
        BY <1>1, <1>3, <3>1
      <3>2. CASE R[d].host # b
        <4>1. d \in D
          BY <3>2
        <4>2. PICK j \in 1 .. x - 1 : hs[j].db_id = R[d].host
          BY <2>2, <3>2, <4>1 DEF HostsBefore
        <4> QED
          BY <1>1, <1>3, <4>2
      <3> QED
        BY <3>1, <3>2
    <2>3. \A i, j \in 1 .. x : i < j => hs2[i].db_id < hs2[j].db_id
      <3> SUFFICES ASSUME NEW i \in 1 .. x, NEW j \in 1 .. x, i < j
                   PROVE  hs2[i].db_id < hs2[j].db_id
        OBVIOUS
      <3>1. i \in 1 .. x - 1
        OBVIOUS
      <3>2. CASE j = x
        BY <1>3, <3>1, <3>2 DEF HostsBefore
      <3>3. CASE j \in 1 .. x - 1
        BY <1>3, <3>1, <3>3 DEF HostsBefore
      <3> QED
        BY <1>1, <3>2, <3>3
    <2>4. Len(hs2) = x /\ cc2[n].db_id = a /\ cc2[n].host = hs2
      BY <1>2, <1>3 DEF hs2
    <2> QED
      <3>1. \A j \in 1 .. Len(cc2[n].host) :
               \E d \in E : R[d].class = cc2[n].db_id /\ R[d].host = cc2[n].host[j].db_id
        BY <2>1, <2>4, Zenon
      <3>2. \A d \in E : R[d].class = cc2[n].db_id =>
               \E j \in 1 .. Len(cc2[n].host) : cc2[n].host[j].db_id = R[d].host
        BY <2>2, <2>4, Zenon
      <3>3. \A i, j \in 1 .. Len(cc2[n].host) :
               i < j => cc2[n].host[i].db_id < cc2[n].host[j].db_id
        BY <2>3, <2>4, Zenon
      <3> QED
        BY <3>1, <3>2, <3>3, Zenon DEF HostsMatch
  <1>6. ASSUME NEW j \in 1 .. x
        PROVE  CollMatch(R, st, A, a, hs2[j], E) /\ TabMatch(R, sq, tab2, hs2[j])
    <2>1. CASE j = x
      <3>1. CollMatch(R, st, A, a, hs2[x], E)
        BY <1>3, SameKey DEF CollBefore
      <3>2. TabMatch(R, sq, tab2, hs2[x])
        <4>1. /\ Len(oc) \in Nat /\ Len(Append(oc, c)) = Len(oc) + 1
              /\ \A l \in 1 .. Len(oc) : Append(oc, c)[l] = oc[l]
              /\ Append(oc, c)[Len(oc) + 1] = c
          BY PushFacts
        <4>2. ASSUME NEW l \in 1 .. Len(oc) + 1, R[Append(oc, c)[l]].mapping # 0
              PROVE  ToSet(sq[R[Append(oc, c)[l]].mapping]) \subseteq tab2[b]
          <5>1. CASE l = Len(oc) + 1
            BY <4>1, <4>2, <5>1
          <5>2. CASE l # Len(oc) + 1
            <6>1. l \in 1 .. Len(oc) /\ Append(oc, c)[l] = oc[l]
              BY <4>1, <5>2
            <6>2. ToSet(sq[R[oc[l]].mapping]) \subseteq tab[b]
              BY <4>2, <6>1 DEF CollBefore
            <6> QED
              BY <6>1, <6>2
          <5> QED
            BY <5>1, <5>2
        <4> QED
          BY <1>3, <4>1, <4>2 DEF TabMatch
      <3> QED
        BY <2>1, <3>1, <3>2
    <2>2. CASE j \in 1 .. x - 1
      <3>1. /\ hs2[j] = hs[j] /\ hs[j].db_id # b
            /\ CollMatch(R, st, A, a, hs[j], D) /\ TabMatch(R, sq, tab, hs[j])
        <4>1. hs[j].db_id < b
          BY <2>2 DEF HostsBefore
        <4> QED
          BY <1>3, <2>2, <4>1 DEF HostsBefore
      <3> QED
        BY <3>1, OtherKeys, TabKeeps
    <2> QED
      BY <1>1, <2>1, <2>2
  <1>7. ASSUME NEW i \in 1 .. n - 1
        PROVE  /\ HostsMatch(R, cc2[i], E)
               /\ \A j \in 1 .. Len(cc2[i].host) :
                     /\ CollMatch(R, st, A, cc2[i].db_id, cc2[i].host[j], E)
                     /\ TabMatch(R, sq, tab2, cc2[i].host[j])
    <2>1. cc2[i] = cc[i]
      BY <1>2
    <2>2. cc[i].db_id < a
      BY DEF ClassesBefore
    <2>3. cc[i].db_id # a
      BY <2>2
    <2>4. /\ HostsMatch(R, cc[i], D)
          /\ \A j \in 1 .. Len(cc[i].host) :
                /\ CollMatch(R, st, A, cc[i].db_id, cc[i].host[j], D)
                /\ TabMatch(R, sq, tab, cc[i].host[j])
      BY DEF ClassesBefore
    <2>5. HostsMatch(R, cc[i], E)
      BY <2>3, <2>4, OtherClass
    <2>6. ASSUME NEW j \in 1 .. Len(cc[i].host)
          PROVE  /\ CollMatch(R, st, A, cc[i].db_id, cc[i].host[j], E)
                 /\ TabMatch(R, sq, tab2, cc[i].host[j])
      BY <2>3, <2>4, OtherKeys, TabKeeps
    <2> QED
      BY <2>1, <2>5, <2>6
  <1>8. Matches(R, st, A, sq, cc2, tab2, E)
    <2>1. ASSUME NEW i \in 1 .. n
          PROVE  /\ HostsMatch(R, cc2[i], E)
                 /\ \A j \in 1 .. Len(cc2[i].host) :
                       /\ CollMatch(R, st, A, cc2[i].db_id, cc2[i].host[j], E)
                       /\ TabMatch(R, sq, tab2, cc2[i].host[j])
      <3>1. CASE i = n
        <4>1. cc2[i].host = hs2 /\ Len(hs2) = x /\ cc2[i].db_id = a
          BY <1>2, <1>3, <3>1 DEF hs2
        <4> QED
          BY <1>5, <1>6, <3>1, <4>1, Zenon
      <3>2. CASE i \in 1 .. n - 1
        BY <1>7, <3>2, Zenon
      <3> QED
        BY <1>1, <3>1, <3>2
    <2>2. Len(cc2) = n
      BY <1>2
    <2> QED
      BY <1>4, <2>1, <2>2, Zenon DEF Matches
  <1>9. AtEnd(R, cc2, a, b, x, E)
    <2>1. cc2 # <<>>
      BY <1>2
    <2>2. \A d \in E : R[d].class < a \/ (R[d].class = a /\ R[d].host <= b)
      BY DEF AllBefore
    <2> QED
      BY <1>2, <1>3, <2>1, <2>2 DEF AtEnd, hs2
  <1> QED
    BY <1>8, <1>9

\* The loop's variables.
Fields == {"classes", "tables", "last_db_id", "last_host_id", "host_index", "bad"}
IsPage(p, cc, tab, ld, lh, hi) ==
    /\ DOMAIN p = Fields
    /\ p.classes = cc /\ p.tables = tab
    /\ p.last_db_id = ld /\ p.last_host_id = lh /\ p.host_index = hi

EmptyClass(a) == [db_id |-> a, host |-> <<>>, oid |-> 0, rra |-> 0]
EmptyHost(b) == [db_id |-> b, collection |-> <<>>]

\* A host is added to the last class.
WithHost(cc, b) == [cc EXCEPT ![Len(cc)].host = Append(@, EmptyHost(b))]

\* A collection is added to the x-th host of the last class.
WithColl(cc, x, c) == [cc EXCEPT ![Len(cc)].host[x].collection = Append(@, c)]

LEMMA NewClassIs ==
    ASSUME NEW p, NEW cc, NEW tab, NEW ld, NEW lh, NEW hi, NEW r,
           IsPage(p, cc, tab, ld, lh, hi), ~p.bad
    PROVE  /\ ~NewClass(p, r).bad
           /\ ld = r.class => IsPage(NewClass(p, r), cc, tab, ld, lh, hi)
           /\ ld # r.class => IsPage(NewClass(p, r), Append(cc, EmptyClass(r.class)), tab,
                                     r.class, -1, 0)
  BY DEF NewClass, IsPage, Fields, EmptyClass

\* The host of the row is the last one.
LEMMA OldHostIs ==
    ASSUME NEW p, NEW cc, NEW tab, NEW ld, NEW lh, NEW hi, NEW r,
           IsPage(p, cc, tab, ld, lh, hi), ~p.bad, lh = r.host
    PROVE  IsPage(NewHost(p, r), cc, tab, ld, lh, hi) /\ ~NewHost(p, r).bad
  BY DEF NewHost, IsPage, Fields

LEMMA NoHostIs ==
    ASSUME NEW p, NEW cc, NEW tab, NEW ld, NEW lh, NEW hi, NEW r,
           IsPage(p, cc, tab, ld, lh, hi), ~p.bad, lh # r.host, r.host \notin DOMAIN tab
    PROVE  IsPage(NewHost(p, r), cc, tab, ld, lh, hi) /\ NewHost(p, r).bad
  BY DEF NewHost, IsPage, Fields

LEMMA NewHostIs ==
    ASSUME NEW p, NEW cc, NEW tab, NEW ld, NEW lh, NEW hi, NEW r,
           IsPage(p, cc, tab, ld, lh, hi), ~p.bad, lh # r.host, r.host \in DOMAIN tab
    PROVE  /\ IsPage(NewHost(p, r), WithHost(cc, r.host), tab, ld, r.host,
                     Len(cc[Len(cc)].host) + 1)
           /\ ~NewHost(p, r).bad
  BY DEF NewHost, IsPage, Fields, WithHost, EmptyHost

\* The tables after a row of host b with mapping m.
TablesFor(sq, tab, b, m) == IF m = 0 THEN tab ELSE [tab EXCEPT ![b] = @ \cup ToSet(sq[m])]

\* w is what AddTables makes of these variables for row r.
TablesAdded(sq, w, r, cc, tab, ld, lh, hi) ==
    \/ w.bad /\ IsPage(w, cc, tab, ld, lh, hi)
    \/ /\ ~w.bad
       /\ r.mapping # 0 => r.mapping \in DOMAIN sq
       /\ IsPage(w, cc, TablesFor(sq, tab, cc[Len(cc)].host[hi].db_id, r.mapping), ld, lh, hi)

LEMMA AddTablesIs ==
    ASSUME NEW p, NEW cc, NEW tab, NEW ld, NEW lh, NEW hi, NEW r,
           IsPage(p, cc, tab, ld, lh, hi), ~p.bad
    PROVE  TablesAdded(sequences, AddTables(p, r), r, cc, tab, ld, lh, hi)
  <1> USE DEF TablesAdded
  <1>1. CASE r.mapping = 0
    BY <1>1 DEF AddTables, TablesFor
  <1>2. CASE r.mapping # 0 /\ r.mapping \notin DOMAIN sequences
    BY <1>2 DEF AddTables, IsPage, Fields
  <1>3. CASE r.mapping # 0 /\ r.mapping \in DOMAIN sequences
    BY <1>3 DEF AddTables, IsPage, Fields, TablesFor
  <1> QED
    BY <1>1, <1>2, <1>3

\* v is what the rest of the loop's turn for row c makes of these variables.
RowAddedTo(sq, v, r, c, cc, tab, ld, lh, hi) ==
    \/ v.bad /\ IsPage(v, cc, tab, ld, lh, hi)
    \/ /\ ~v.bad
       /\ r.mapping # 0 => r.mapping \in DOMAIN sq
       /\ IsPage(v, WithColl(cc, hi, c),
                 TablesFor(sq, tab, cc[Len(cc)].host[hi].db_id, r.mapping), ld, lh, hi)

\* A row's collection is added once its tables are.
Appended(w, c) ==
    IF w.bad THEN w
    ELSE [w EXCEPT !.classes[Len(w.classes)].host[w.host_index].collection = Append(@, c)]

LEMMA AppendedIs ==
    ASSUME NEW w, NEW c, NEW cc, NEW tab, NEW ld, NEW lh, NEW hi,
           IsPage(w, cc, tab, ld, lh, hi), ~w.bad
    PROVE  IsPage(Appended(w, c), WithColl(cc, hi, c), tab, ld, lh, hi) /\ ~Appended(w, c).bad
  <1>1. PICK v : v = Appended(w, c)
    OBVIOUS
  <1>2. PICK x : x = WithColl(cc, hi, c)
    OBVIOUS
  <1>3. w.classes = cc /\ w.host_index = hi /\ DOMAIN w = Fields
    BY DEF IsPage
  <1>4. v = [w EXCEPT !.classes = x]
    BY <1>1, <1>2, <1>3, Zenon DEF Appended, WithColl
  <1>5. /\ DOMAIN v = Fields /\ v.classes = x /\ v.tables = w.tables
        /\ v.last_db_id = w.last_db_id /\ v.last_host_id = w.last_host_id
        /\ v.host_index = w.host_index /\ ~v.bad
    BY <1>3, <1>4 DEF Fields
  <1> QED
    BY <1>1, <1>2, <1>5 DEF IsPage

\* What the loop's turn for row c with p as variables does, from the class and the
\* host which it finds or adds.
LEMMA AddRowIs ==
    ASSUME NEW p, NEW c, ~p.bad,
           NEW q, q = NewHost(NewClass(p, db.coll[c]), db.coll[c]),
           NEW cc, NEW tab, NEW ld, NEW lh, NEW hi, IsPage(q, cc, tab, ld, lh, hi)
    PROVE  /\ q.bad => AddRow(p, c) = q
           /\ ~q.bad => RowAddedTo(sequences, AddRow(p, c), db.coll[c], c, cc, tab, ld, lh, hi)
  <1>1. PICK r, w, v : r = db.coll[c] /\ w = AddTables(q, r) /\ v = AddRow(p, c)
    OBVIOUS
  <1>2. v = Appended(w, c)
    BY <1>1, Zenon DEF AddRow, Appended
  <1>3. CASE q.bad
    <2>1. w = q
      BY <1>1, <1>3, Zenon DEF AddTables
    <2>2. v = q
      BY <1>2, <1>3, <2>1, Zenon DEF Appended
    <2> QED
      BY <1>1, <1>3, <2>2, Zenon
  <1>4. CASE ~q.bad
    <2>1. TablesAdded(sequences, w, r, cc, tab, ld, lh, hi)
      BY <1>1, <1>4, AddTablesIs, Zenon
    <2>2. RowAddedTo(sequences, v, r, c, cc, tab, ld, lh, hi)
      <3>1. PICK tb : tb = TablesFor(sequences, tab, cc[Len(cc)].host[hi].db_id, r.mapping)
        OBVIOUS
      <3>2. CASE w.bad /\ IsPage(w, cc, tab, ld, lh, hi)
        <4>1. v = w
          BY <1>2, <3>2, Zenon DEF Appended
        <4> QED
          BY <3>2, <4>1, Zenon DEF RowAddedTo
      <3>3. CASE ~w.bad /\ IsPage(w, cc, tb, ld, lh, hi) /\ (r.mapping # 0 => r.mapping \in DOMAIN sequences)
        <4>1. IsPage(v, WithColl(cc, hi, c), tb, ld, lh, hi) /\ ~v.bad
          BY <1>2, <3>3, AppendedIs, Zenon
        <4> QED
          BY <3>1, <3>3, <4>1, Zenon DEF RowAddedTo
      <3> QED
        BY <2>1, <3>1, <3>2, <3>3, Zenon DEF TablesAdded
    <2> QED
      BY <1>1, <1>4, <2>2, Zenon
  <1> QED
    BY <1>3, <1>4

LEMMA EmptyClassType ==
    ASSUME NEW a \in Nat
    PROVE  EmptyClass(a) \in ClassRec /\ EmptyClass(a).db_id = a /\ EmptyClass(a).host = <<>>
  BY DEF EmptyClass, ClassRec

LEMMA EmptyHostType ==
    ASSUME NEW b \in Nat
    PROVE  EmptyHost(b) \in HostRec /\ EmptyHost(b).db_id = b /\ EmptyHost(b).collection = <<>>
  BY DEF EmptyHost, HostRec

\* Another last element.
LEMMA ReplaceLast ==
    ASSUME NEW S, NEW q \in Seq(S), q # <<>>, NEW e \in S, NEW n, n = Len(q),
           NEW q2, q2 = [q EXCEPT ![n] = e]
    PROVE  /\ q2 \in Seq(S) /\ Len(q2) = n
           /\ \A i \in 1 .. n - 1 : q2[i] = q[i]
           /\ q2[n] = e
  <1>1. n \in Nat /\ n > 0 /\ n \in 1 .. Len(q)
    OBVIOUS
  <1>2. /\ q2 \in Seq(S) /\ Len(q2) = Len(q)
        /\ \A j \in 1 .. Len(q) : q2[j] = IF j = n THEN e ELSE q[j]
    BY <1>1, ExceptSeq
  <1> QED
    BY <1>1, <1>2

\* The classes when the last one gets other hosts hs.
WithHosts(cc, hs) == [cc EXCEPT ![Len(cc)].host = hs]

NewHosts(cc2, cc, hs) ==
    /\ cc2 \in Seq(ClassRec) /\ Len(cc2) = Len(cc)
    /\ \A i \in 1 .. Len(cc) - 1 : cc2[i] = cc[i]
    /\ cc2[Len(cc)].db_id = cc[Len(cc)].db_id
    /\ cc2[Len(cc)].host = hs

LEMMA WithHostsIs ==
    ASSUME NEW cc \in Seq(ClassRec), cc # <<>>, NEW hs \in Seq(HostRec)
    PROVE  NewHosts(WithHosts(cc, hs), cc, hs)
  <1> DEFINE n == Len(cc)
             cl == [cc[n] EXCEPT !.host = hs]
             cc2 == WithHosts(cc, hs)
  <1>1. n \in Nat /\ n > 0 /\ cc[n] \in ClassRec
    OBVIOUS
  <1>2. cl \in ClassRec /\ cl.db_id = cc[n].db_id /\ cl.host = hs
    BY <1>1 DEF ClassRec
  <1>3. cc2 = [cc EXCEPT ![n] = cl]
    BY DEF WithHosts
  <1> HIDE DEF cl, cc2
  <1>4. /\ cc2 \in Seq(ClassRec) /\ Len(cc2) = n
        /\ \A i \in 1 .. n - 1 : cc2[i] = cc[i]
        /\ cc2[n] = cl
    BY <1>2, <1>3, ReplaceLast
  <1>5. NewHosts(cc2, cc, hs)
    BY <1>2, <1>4 DEF NewHosts
  <1> QED
    BY <1>5 DEF cc2

\* cc2 has host b at the end of its last class.
OneHostMore(cc2, cc, b) ==
    /\ cc2 \in Seq(ClassRec) /\ Len(cc2) = Len(cc)
    /\ \A i \in 1 .. Len(cc) - 1 : cc2[i] = cc[i]
    /\ cc2[Len(cc)].db_id = cc[Len(cc)].db_id
    /\ Len(cc[Len(cc)].host) \in Nat
    /\ Len(cc2[Len(cc)].host) = Len(cc[Len(cc)].host) + 1
    /\ \A j \in 1 .. Len(cc[Len(cc)].host) : cc2[Len(cc)].host[j] = cc[Len(cc)].host[j]
    /\ cc2[Len(cc)].host[Len(cc[Len(cc)].host) + 1] = EmptyHost(b)

LEMMA WithHostIs ==
    ASSUME NEW cc \in Seq(ClassRec), cc # <<>>, NEW b \in Nat,
           NEW cc2, cc2 = WithHost(cc, b)
    PROVE  OneHostMore(cc2, cc, b)
  <1> DEFINE n == Len(cc)
             hs == cc[n].host
             h2 == Append(hs, EmptyHost(b))
  <1>1. cc[n] \in ClassRec
    OBVIOUS
  <1>2. hs \in Seq(HostRec) /\ EmptyHost(b) \in HostRec
    BY <1>1, EmptyHostType DEF ClassRec
  <1>3. cc2 = WithHosts(cc, h2)
    BY DEF WithHost, WithHosts
  <1>4. /\ h2 \in Seq(HostRec) /\ Len(h2) = Len(hs) + 1 /\ Len(hs) \in Nat
        /\ \A j \in 1 .. Len(hs) : h2[j] = hs[j]
        /\ h2[Len(hs) + 1] = EmptyHost(b)
    BY <1>2, PushFacts
  <1> HIDE DEF h2
  <1>5. NewHosts(cc2, cc, h2)
    BY <1>3, <1>4, WithHostsIs
  <1> QED
    BY <1>4, <1>5 DEF NewHosts, OneHostMore

LEMMA WithCollIs ==
    ASSUME NEW cc \in Seq(ClassRec), cc # <<>>, NEW x, x = Len(cc[Len(cc)].host), x > 0,
           NEW c \in DOMAIN DirOf
    PROVE  Added(WithColl(cc, x, c), cc, Len(cc), cc[Len(cc)].host, x, cc[Len(cc)].db_id,
                 cc[Len(cc)].host[x].db_id, cc[Len(cc)].host[x].collection, c)
  <1> DEFINE n == Len(cc)
             hs == cc[n].host
             h == [hs[x] EXCEPT !.collection = Append(@, c)]
             h2 == [hs EXCEPT ![x] = h]
             cc2 == WithColl(cc, x, c)
  <1>1. cc[n] \in ClassRec
    OBVIOUS
  <1>2. hs \in Seq(HostRec) /\ x \in Nat
    BY <1>1 DEF ClassRec
  <1>3. hs[x] \in HostRec
    BY <1>2
  <1>4. Append(hs[x].collection, c) \in Seq(DOMAIN DirOf)
    BY <1>3 DEF HostRec
  <1>5. h \in HostRec /\ h.db_id = hs[x].db_id /\ h.collection = Append(hs[x].collection, c)
    BY <1>3, <1>4 DEF HostRec
  <1>6. cc2 = WithHosts(cc, h2)
    BY DEF WithColl, WithHosts
  <1> HIDE DEF h
  <1>7. /\ h2 \in Seq(HostRec) /\ Len(h2) = x
        /\ \A j \in 1 .. x - 1 : h2[j] = hs[j]
        /\ h2[x] = h
    <2>1. hs # <<>> /\ x = Len(hs) /\ hs \in Seq(HostRec) /\ h \in HostRec
      BY <1>2, <1>5
    <2>2. PICK g : g = h2
      OBVIOUS
    <2>3. g = [hs EXCEPT ![x] = h]
      BY <2>2
    <2> HIDE DEF h2, hs
    <2>4. g \in Seq(HostRec) /\ Len(g) = x /\ (\A j \in 1 .. x - 1 : g[j] = hs[j]) /\ g[x] = h
      BY <2>1, <2>3, ReplaceLast
    <2> QED
      BY <2>2, <2>4
  <1> HIDE DEF h2, cc2
  <1>8. NewHosts(cc2, cc, h2)
    BY <1>6, <1>7, WithHostsIs
  <1>9. Added(cc2, cc, Len(cc), cc[Len(cc)].host, x, cc[Len(cc)].db_id,
              cc[Len(cc)].host[x].db_id, cc[Len(cc)].host[x].collection, c)
    BY <1>5, <1>7, <1>8 DEF Added, NewHosts
  <1> QED
    BY <1>9 DEF cc2

SameUpTo(m, s, t) == \A i \in 1 .. m : s[i] = t[i]

\* The classes and hosts before the row's may be taken from where they came from.
LEMMA AddedFrom ==
    ASSUME NEW cc2, NEW cw, NEW cc, NEW n, NEW hw, NEW hs, NEW x, NEW a, NEW b, NEW oc, NEW c,
           Added(cc2, cw, n, hw, x, a, b, oc, c),
           SameUpTo(n - 1, cw, cc), SameUpTo(x - 1, hw, hs)
    PROVE  Added(cc2, cc, n, hs, x, a, b, oc, c)
  BY DEF Added, SameUpTo

LEMMA TablesGrow ==
    ASSUME NEW sq, NEW tab, NEW m, NEW b \in DOMAIN tab
    PROVE  /\ DOMAIN TablesFor(sq, tab, b, m) = DOMAIN tab
           /\ \A g \in DOMAIN tab : tab[g] \subseteq TablesFor(sq, tab, b, m)[g]
           /\ m # 0 => ToSet(sq[m]) \subseteq TablesFor(sq, tab, b, m)[b]
  BY DEF TablesFor

\* The place of a row: the n-th class, in it the x-th host, behind collections oc.
RowPlace(R, st, A, sq, tab, D, a, b, cc, n, hs, x, oc) ==
    /\ n \in Nat \ {0} /\ x \in Nat \ {0} /\ oc \in Seq(DOMAIN DirOf) /\ b \in DOMAIN tab
    /\ ClassesBefore(R, st, A, sq, tab, D, a, cc, n)
    /\ HostsBefore(R, st, A, sq, tab, D, a, b, hs, x)
    /\ CollBefore(R, st, A, sq, tab, D, a, b, oc)

\* A place for row c, and the classes with the row there.
Placed(R, st, A, sq, tab, D, a, b, cc, cq, x, c) ==
    \E n, hs, oc : /\ RowPlace(R, st, A, sq, tab, D, a, b, cc, n, hs, x, oc)
                   /\ Added(WithColl(cq, x, c), cc, n, hs, x, a, b, oc, c)

\* The class and the host of a row were found or added.
AtRow(q, a, b, tab) ==
    /\ q.last_db_id = a /\ q.last_host_id = b /\ q.tables = tab
    /\ q.host_index \in Nat
    /\ q.classes[Len(q.classes)].host[q.host_index].db_id = b

\* The row continues the last host.
LEMMA PlaceSameHost ==
    ASSUME NEW R, NEW st, NEW A, NEW sq, NEW tab, NEW D, NEW c \in DOMAIN DirOf,
           NEW cc \in Seq(ClassRec), NEW a \in Nat \ {0}, NEW b \in Nat \ {0}, NEW hi,
           cc # <<>>, Matches(R, st, A, sq, cc, tab, D), AtEnd(R, cc, a, b, hi, D)
    PROVE  /\ Placed(R, st, A, sq, tab, D, a, b, cc, cc, hi, c)
           /\ hi \in Nat /\ cc[Len(cc)].host[hi].db_id = b
  <1> DEFINE n == Len(cc)
             hs == cc[n].host
             oc == hs[hi].collection
  <1>1. /\ n \in Nat /\ n > 0 /\ a = cc[n].db_id
        /\ hs \in Seq(HostRec) /\ hi = Len(hs) /\ hi \in Nat /\ hi > 0 /\ b = hs[hi].db_id
    BY LastClass
  <1>2. hi \in 1 .. hi /\ hs[hi] \in HostRec
    BY <1>1
  <1>3. oc \in Seq(DOMAIN DirOf)
    BY <1>2 DEF HostRec
  <1>4. TabMatch(R, sq, tab, hs[hi])
    BY <1>2, LastClass, Zenon
  <1>5. b \in DOMAIN tab
    <2>1. b = hs[hi].db_id
      BY <1>1
    <2> QED
      BY <1>4, <2>1, Zenon DEF TabMatch
  <1>6. /\ ClassesBefore(R, st, A, sq, tab, D, a, cc, n)
        /\ HostsBefore(R, st, A, sq, tab, D, a, b, hs, hi)
        /\ CollBefore(R, st, A, sq, tab, D, a, b, oc)
    BY BeforeSameHost
  <1>7. Added(WithColl(cc, hi, c), cc, n, hs, hi, a, b, oc, c)
    BY <1>1, WithCollIs
  <1> HIDE DEF n, hs, oc
  <1>8. RowPlace(R, st, A, sq, tab, D, a, b, cc, n, hs, hi, oc)
    BY <1>1, <1>3, <1>5, <1>6 DEF RowPlace
  <1>9. Placed(R, st, A, sq, tab, D, a, b, cc, cc, hi, c)
    BY <1>7, <1>8 DEF Placed
  <1> QED
    BY <1>1, <1>9 DEF n, hs

\* A new host b at the end of the classes cw gets its first row.
FirstRow(cw, b, x, c) ==
    /\ Added(WithColl(WithHost(cw, b), x, c), cw, Len(cw), cw[Len(cw)].host, x,
             cw[Len(cw)].db_id, b, <<>>, c)
    /\ x \in Nat \ {0}
    /\ WithHost(cw, b)[Len(WithHost(cw, b))].host[x].db_id = b

LEMMA AddedToNewHost ==
    ASSUME NEW cw \in Seq(ClassRec), cw # <<>>, NEW b \in Nat, NEW x,
           x = Len(cw[Len(cw)].host) + 1, NEW c \in DOMAIN DirOf
    PROVE  FirstRow(cw, b, x, c)
  <1> DEFINE n == Len(cw)
             hs == cw[n].host
  <1>1. PICK cq : cq = WithHost(cw, b)
    OBVIOUS
  <1>2. /\ cq \in Seq(ClassRec) /\ Len(cq) = n
        /\ \A i \in 1 .. n - 1 : cq[i] = cw[i]
        /\ cq[n].db_id = cw[n].db_id
        /\ Len(hs) \in Nat
        /\ Len(cq[n].host) = Len(hs) + 1
        /\ \A j \in 1 .. Len(hs) : cq[n].host[j] = hs[j]
        /\ cq[n].host[Len(hs) + 1] = EmptyHost(b)
    <2>1. OneHostMore(cq, cw, b)
      BY <1>1, WithHostIs
    <2> QED
      BY <2>1 DEF OneHostMore
  <1>3. n \in Nat /\ n > 0 /\ cq # <<>>
    BY <1>2
  <1>4. /\ x \in Nat \ {0} /\ x = Len(cq[n].host) /\ x > 0 /\ x - 1 = Len(hs)
        /\ cq[n].host[x].db_id = b /\ cq[n].host[x].collection = <<>>
    BY <1>2, EmptyHostType
  <1>5. Added(WithColl(cq, x, c), cq, n, cq[n].host, x, cw[n].db_id, b, <<>>, c)
    <2>1. Added(WithColl(cq, x, c), cq, Len(cq), cq[Len(cq)].host, x, cq[Len(cq)].db_id,
                cq[Len(cq)].host[x].db_id, cq[Len(cq)].host[x].collection, c)
      BY <1>2, <1>3, <1>4, WithCollIs
    <2> QED
      BY <1>2, <1>4, <2>1
  <1>6. Added(WithColl(cq, x, c), cw, n, hs, x, cw[n].db_id, b, <<>>, c)
    <2>1. SameUpTo(n - 1, cq, cw) /\ SameUpTo(x - 1, cq[n].host, hs)
      BY <1>2, <1>4 DEF SameUpTo
    <2> QED
      BY <1>5, <2>1, AddedFrom
  <1> QED
    BY <1>1, <1>2, <1>4, <1>6 DEF FirstRow

\* The row adds a host to the last class.
LEMMA PlaceNewHost ==
    ASSUME NEW R, NEW st, NEW A, NEW sq, NEW tab, NEW D, NumKeys(R, D),
           NEW c \in DOMAIN DirOf, NEW cc \in Seq(ClassRec), NEW a \in Nat \ {0},
           NEW b \in Nat \ {0}, NEW lh, NEW hi, cc # <<>>, b # lh, AllBefore(R, D, a, b),
           Matches(R, st, A, sq, cc, tab, D), AtEnd(R, cc, a, lh, hi, D), b \in DOMAIN tab,
           NEW x, x = Len(cc[Len(cc)].host) + 1
    PROVE  /\ Placed(R, st, A, sq, tab, D, a, b, cc, WithHost(cc, b), x, c)
           /\ x \in Nat /\ WithHost(cc, b)[Len(WithHost(cc, b))].host[x].db_id = b
  <1> DEFINE n == Len(cc)
             hs == cc[n].host
  <1>1. n \in Nat /\ n > 0 /\ a = cc[n].db_id /\ hi = Len(hs)
    BY LastClass
  <1>2. /\ ClassesBefore(R, st, A, sq, tab, D, a, cc, n)
        /\ HostsBefore(R, st, A, sq, tab, D, a, b, hs, x)
        /\ CollBefore(R, st, A, sq, tab, D, a, b, <<>>)
    BY <1>1, BeforeNewHost
  <1>3. /\ Added(WithColl(WithHost(cc, b), x, c), cc, n, hs, x, a, b, <<>>, c)
        /\ x \in Nat \ {0}
        /\ WithHost(cc, b)[Len(WithHost(cc, b))].host[x].db_id = b
    <2>1. FirstRow(cc, b, x, c)
      BY AddedToNewHost
    <2> QED
      BY <1>1, <2>1 DEF FirstRow
  <1> HIDE DEF n, hs
  <1>4. RowPlace(R, st, A, sq, tab, D, a, b, cc, n, hs, x, <<>>)
    BY <1>1, <1>2, <1>3 DEF RowPlace
  <1> QED
    BY <1>3, <1>4 DEF Placed

\* The row has a place in the host that is added to the last class of cw.
NewPlace(R, st, A, sq, tab, D, a, b, cc, cw, c) ==
    \E x \in Nat : /\ x = Len(cw[Len(cw)].host) + 1
                   /\ Placed(R, st, A, sq, tab, D, a, b, cc, WithHost(cw, b), x, c)
                   /\ WithHost(cw, b)[Len(WithHost(cw, b))].host[x].db_id = b

\* The row adds a class.
LEMMA PlaceNewClass ==
    ASSUME NEW R, NEW st, NEW A, NEW sq, NEW tab, NEW D, NumKeys(R, D),
           NEW c \in DOMAIN DirOf, NEW cc \in Seq(ClassRec), NEW a \in Nat \ {0},
           NEW b \in Nat \ {0}, NEW ld, NEW lh, NEW hi, a # ld, AllBefore(R, D, a, b),
           Matches(R, st, A, sq, cc, tab, D), AtEnd(R, cc, ld, lh, hi, D), b \in DOMAIN tab,
           NEW cw, cw = Append(cc, EmptyClass(a))
    PROVE  NewPlace(R, st, A, sq, tab, D, a, b, cc, cw, c)
  <1> DEFINE n == Len(cc) + 1
  <1>0. PICK x : x = Len(cw[Len(cw)].host) + 1
    OBVIOUS
  <1>1. /\ cw \in Seq(ClassRec) /\ Len(cw) = n /\ Len(cc) \in Nat
        /\ \A i \in 1 .. Len(cc) : cw[i] = cc[i]
        /\ cw[n] = EmptyClass(a)
    BY EmptyClassType, PushFacts
  <1>2. n \in Nat /\ n > 0 /\ n - 1 = Len(cc) /\ cw # <<>>
    BY <1>1
  <1>3. cw[n].db_id = a /\ cw[n].host = <<>> /\ x = 1
    BY <1>0, <1>1, EmptyClassType
  <1>4. /\ ClassesBefore(R, st, A, sq, tab, D, a, cc, n)
        /\ HostsBefore(R, st, A, sq, tab, D, a, b, <<>>, 1)
        /\ CollBefore(R, st, A, sq, tab, D, a, b, <<>>)
    BY BeforeNewClass
  <1>5. /\ Added(WithColl(WithHost(cw, b), x, c), cw, n, <<>>, x, a, b, <<>>, c)
        /\ x \in Nat \ {0}
        /\ WithHost(cw, b)[Len(WithHost(cw, b))].host[x].db_id = b
    <2>1. FirstRow(cw, b, x, c)
      BY <1>0, <1>1, <1>2, AddedToNewHost
    <2> QED
      BY <1>1, <1>3, <2>1 DEF FirstRow
  <1> HIDE DEF n
  <1>6. Added(WithColl(WithHost(cw, b), x, c), cc, n, <<>>, x, a, b, <<>>, c)
    <2>1. SameUpTo(n - 1, cw, cc) /\ SameUpTo(x - 1, <<>>, <<>>)
      BY <1>1, <1>2 DEF SameUpTo
    <2> QED
      BY <1>5, <2>1, AddedFrom
  <1>7. RowPlace(R, st, A, sq, tab, D, a, b, cc, n, <<>>, x, <<>>)
    BY <1>2, <1>3, <1>4, <1>5 DEF RowPlace
  <1>8. Placed(R, st, A, sq, tab, D, a, b, cc, WithHost(cw, b), x, c)
    BY <1>6, <1>7 DEF Placed
  <1> QED
    BY <1>0, <1>5, <1>8 DEF NewPlace

\* What the loop has before a row of class a and host b, when D was done.
ReadyFor(R, st, A, sq, cc, tab, ld, lh, hi, D, a, b) ==
    /\ NumKeys(R, D) /\ AllBefore(R, D, a, b)
    /\ cc \in Seq(ClassRec) /\ ld \in Int /\ lh \in Int /\ hi \in Nat
    /\ a \in Nat \ {0} /\ b \in Nat \ {0}
    /\ Matches(R, st, A, sq, cc, tab, D) /\ AtEnd(R, cc, ld, lh, hi, D)

PageTypes(q) == q.last_db_id \in Int /\ q.last_host_id \in Int /\ q.host_index \in Nat

\* Finding or adding the row's class and host.
LEMMA RowFound ==
    ASSUME NEW R, NEW st, NEW A, NEW sq, NEW cc, NEW tab, NEW ld, NEW lh, NEW hi, NEW D,
           NEW r, NEW c \in DOMAIN DirOf, NEW p, IsPage(p, cc, tab, ld, lh, hi), ~p.bad,
           ReadyFor(R, st, A, sq, cc, tab, ld, lh, hi, D, r.class, r.host),
           NEW q, q = NewHost(NewClass(p, r), r)
    PROVE  \/ q.bad /\ PageTypes(q)
           \/ /\ ~q.bad /\ AtRow(q, r.class, r.host, tab)
              /\ Placed(R, st, A, sq, tab, D, r.class, r.host, cc, q.classes, q.host_index, c)
  <1> DEFINE v == NewClass(p, r)
  <1>1. PICK a, b : a = r.class /\ b = r.host
    OBVIOUS
  <1>2. /\ NumKeys(R, D) /\ AllBefore(R, D, a, b)
        /\ cc \in Seq(ClassRec) /\ ld \in Int /\ lh \in Int /\ hi \in Nat
        /\ a \in Nat \ {0} /\ b \in Nat \ {0}
        /\ Matches(R, st, A, sq, cc, tab, D) /\ AtEnd(R, cc, ld, lh, hi, D)
    BY <1>1 DEF ReadyFor
  <1>3. CASE a = ld
    <2>1. cc # <<>>
      BY <1>2, <1>3 DEF AtEnd
    <2>2. IsPage(v, cc, tab, ld, lh, hi) /\ ~v.bad
      BY <1>1, <1>3, NewClassIs
    <2> HIDE DEF v
    <2>3. CASE b = lh
      <3>1. IsPage(q, cc, tab, ld, lh, hi) /\ ~q.bad
        BY <1>1, <2>2, <2>3, OldHostIs DEF v
      <3>2. /\ Placed(R, st, A, sq, tab, D, a, b, cc, cc, hi, c)
            /\ hi \in Nat /\ cc[Len(cc)].host[hi].db_id = b
        BY <1>2, <1>3, <2>1, <2>3, PlaceSameHost
      <3> QED
        BY <1>1, <1>3, <2>3, <3>1, <3>2 DEF IsPage, AtRow
    <2>4. CASE b # lh /\ b \notin DOMAIN tab
      <3>1. IsPage(q, cc, tab, ld, lh, hi) /\ q.bad
        BY <1>1, <2>2, <2>4, NoHostIs DEF v
      <3> QED
        BY <1>2, <3>1 DEF IsPage, PageTypes
    <2>5. CASE b # lh /\ b \in DOMAIN tab
      <3> DEFINE x == Len(cc[Len(cc)].host) + 1
      <3>1. IsPage(q, WithHost(cc, b), tab, ld, b, x) /\ ~q.bad
        BY <1>1, <2>2, <2>5, NewHostIs DEF v
      <3>2. /\ Placed(R, st, A, sq, tab, D, a, b, cc, WithHost(cc, b), x, c)
            /\ x \in Nat /\ WithHost(cc, b)[Len(WithHost(cc, b))].host[x].db_id = b
        BY <1>2, <1>3, <2>1, <2>5, PlaceNewHost
      <3> QED
        BY <1>1, <1>3, <2>5, <3>1, <3>2 DEF IsPage, AtRow
    <2> QED
      BY <2>3, <2>4, <2>5
  <1>4. CASE a # ld
    <2>1. PICK cw : cw = Append(cc, EmptyClass(a))
      OBVIOUS
    <2>2. IsPage(v, cw, tab, a, -1, 0) /\ ~v.bad
      BY <1>1, <1>4, <2>1, NewClassIs
    <2> HIDE DEF v
    <2>3. b # -1
      BY <1>2
    <2>4. CASE b \notin DOMAIN tab
      <3>1. IsPage(q, cw, tab, a, -1, 0) /\ q.bad
        BY <1>1, <2>2, <2>3, <2>4, NoHostIs DEF v
      <3> QED
        BY <1>2, <3>1 DEF IsPage, PageTypes
    <2>5. CASE b \in DOMAIN tab
      <3>1. NewPlace(R, st, A, sq, tab, D, a, b, cc, cw, c)
        BY <1>2, <1>4, <2>1, <2>5, PlaceNewClass
      <3>2. PICK x \in Nat :
               /\ x = Len(cw[Len(cw)].host) + 1
               /\ Placed(R, st, A, sq, tab, D, a, b, cc, WithHost(cw, b), x, c)
               /\ WithHost(cw, b)[Len(WithHost(cw, b))].host[x].db_id = b
        BY <3>1 DEF NewPlace
      <3>3. IsPage(q, WithHost(cw, b), tab, a, b, x) /\ ~q.bad
        BY <1>1, <2>2, <2>3, <2>5, <3>2, NewHostIs DEF v
      <3> QED
        BY <1>1, <3>2, <3>3 DEF IsPage, AtRow
    <2> QED
      BY <2>4, <2>5
  <1> QED
    BY <1>3, <1>4

\* The classes and tables with row c at its place fit the rows with e.
LEMMA PlacedMatches ==
    ASSUME NEW R, NEW st, NEW A, NEW sq, NEW cc, NEW tab, NEW D, NEW a, NEW b, NEW c, NEW e,
           a \in Nat \ {0}, b \in Nat \ {0}, c \in A, c \in DOMAIN DirOf,
           IsFiniteSet(D), e \notin D, R[c].class = a, R[c].host = b, Alike(R, st, c, e),
           AllBefore(R, D, a, b), NEW cq, NEW x,
           Placed(R, st, A, sq, tab, D, a, b, cc, cq, x, c),
           NEW cc2, cc2 = WithColl(cq, x, c),
           NEW tab2, tab2 = TablesFor(sq, tab, b, R[c].mapping)
    PROVE  /\ cc2 \in Seq(ClassRec) /\ x \in Nat
           /\ Matches(R, st, A, sq, cc2, tab2, D \cup {e})
           /\ AtEnd(R, cc2, a, b, x, D \cup {e})
  <1>1. PICK n, hs, oc : /\ RowPlace(R, st, A, sq, tab, D, a, b, cc, n, hs, x, oc)
                         /\ Added(cc2, cc, n, hs, x, a, b, oc, c)
    BY DEF Placed
  <1>2. /\ n \in Nat \ {0} /\ x \in Nat \ {0} /\ oc \in Seq(DOMAIN DirOf) /\ b \in DOMAIN tab
        /\ ClassesBefore(R, st, A, sq, tab, D, a, cc, n)
        /\ HostsBefore(R, st, A, sq, tab, D, a, b, hs, x)
        /\ CollBefore(R, st, A, sq, tab, D, a, b, oc)
    BY <1>1 DEF RowPlace
  <1>3. /\ DOMAIN tab2 = DOMAIN tab
        /\ \A g \in DOMAIN tab : tab[g] \subseteq tab2[g]
        /\ R[c].mapping # 0 => ToSet(sq[R[c].mapping]) \subseteq tab2[b]
    BY <1>2, TablesGrow
  <1>4. R[e].class = a /\ R[e].host = b
    BY DEF Alike
  <1>5. Matches(R, st, A, sq, cc2, tab2, D \cup {e}) /\ AtEnd(R, cc2, a, b, x, D \cup {e})
    BY <1>1, <1>2, <1>3, <1>4, RowMatches
  <1> QED
    BY <1>1, <1>2, <1>5 DEF Added

\* What is loaded when the rows with e were done.
Fits(R, st, A, sq, q, E) ==
    /\ q.classes \in Seq(ClassRec)
    /\ Matches(R, st, A, sq, q.classes, q.tables, E)
    /\ AtEnd(R, q.classes, q.last_db_id, q.last_host_id, q.host_index, E)

\* One turn of the loop.
LEMMA RowStep ==
    ASSUME NEW st, NEW A, NEW cc, NEW tab, NEW ld, NEW lh, NEW hi, NEW D, NEW c, NEW e,
           c \in A, c \in DOMAIN DirOf, IsFiniteSet(D), e \notin D, Alike(db.coll, st, c, e),
           NEW p, IsPage(p, cc, tab, ld, lh, hi), ~p.bad,
           ReadyFor(db.coll, st, A, sequences, cc, tab, ld, lh, hi, D, db.coll[c].class,
                    db.coll[c].host)
    PROVE  /\ PageTypes(AddRow(p, c))
           /\ ~AddRow(p, c).bad => Fits(db.coll, st, A, sequences, AddRow(p, c), D \cup {e})
  <1>1. PICK R, r, w : R = db.coll /\ r = db.coll[c] /\ w = AddRow(p, c)
    OBVIOUS
  <1>2. PICK a, b : a = r.class /\ b = r.host
    OBVIOUS
  <1>3. PICK q : q = NewHost(NewClass(p, r), r)
    OBVIOUS
  <1>4. /\ AllBefore(R, D, a, b) /\ a \in Nat \ {0} /\ b \in Nat \ {0}
    BY <1>1, <1>2 DEF ReadyFor
  <1>5. ReadyFor(R, st, A, sequences, cc, tab, ld, lh, hi, D, r.class, r.host)
    BY <1>1
  <1>6. \/ q.bad /\ PageTypes(q)
        \/ /\ ~q.bad /\ AtRow(q, r.class, r.host, tab)
           /\ Placed(R, st, A, sequences, tab, D, r.class, r.host, cc, q.classes, q.host_index, c)
    BY <1>3, <1>5, RowFound
  <1>7. /\ q.bad => w = q
        /\ ~q.bad => RowAddedTo(sequences, w, r, c, q.classes, q.tables, q.last_db_id,
                                q.last_host_id, q.host_index)
    <2>1. DOMAIN q = Fields
      BY <1>3 DEF NewHost, NewClass, IsPage, Fields
    <2>2. IsPage(q, q.classes, q.tables, q.last_db_id, q.last_host_id, q.host_index)
      BY <2>1 DEF IsPage
    <2> QED
      BY <1>1, <1>3, <2>2, AddRowIs, Zenon
  <1>8. CASE q.bad
    BY <1>1, <1>6, <1>7, <1>8
  <1>9. CASE ~q.bad
    <2>1. AtRow(q, a, b, tab) /\ Placed(R, st, A, sequences, tab, D, a, b, cc, q.classes, q.host_index, c)
      BY <1>2, <1>6, <1>9
    <2>2. PageTypes(q)
      BY <1>4, <2>1 DEF AtRow, PageTypes
    <2>3. CASE w.bad
      BY <1>1, <1>7, <1>9, <2>2, <2>3 DEF RowAddedTo, IsPage, PageTypes
    <2>4. CASE ~w.bad
      <3>1. IsPage(w, WithColl(q.classes, q.host_index, c), TablesFor(sequences, tab, b, r.mapping),
                   a, b, q.host_index)
        BY <1>7, <1>9, <2>1, <2>4 DEF RowAddedTo, AtRow
      <3>2. R[c].class = a /\ R[c].host = b /\ Alike(R, st, c, e) /\ R[c].mapping = r.mapping
        BY <1>1, <1>2
      <3>3. PICK x, cc2, tab2 : /\ x = q.host_index /\ cc2 = WithColl(q.classes, x, c)
                                /\ tab2 = TablesFor(sequences, tab, b, R[c].mapping)
        OBVIOUS
      <3>4. /\ cc2 \in Seq(ClassRec) /\ x \in Nat
            /\ Matches(R, st, A, sequences, cc2, tab2, D \cup {e})
            /\ AtEnd(R, cc2, a, b, x, D \cup {e})
        BY <1>4, <2>1, <3>2, <3>3, PlacedMatches
      <3>5. IsPage(w, cc2, tab2, a, b, x)
        BY <3>1, <3>2, <3>3
      <3>6. Fits(R, st, A, sequences, w, D \cup {e})
        BY <3>4, <3>5 DEF IsPage, Fits
      <3>7. PageTypes(w)
        BY <1>4, <3>4, <3>5 DEF IsPage, PageTypes
      <3> QED
        BY <1>1, <3>6, <3>7
    <2> QED
      BY <2>3, <2>4
  <1> QED
    BY <1>8, <1>9

-----------------------------------------------------------------------------
(* The steps of load_config                                                 *)

LEMMA SameDb ==
    ASSUME UNCHANGED <<db, stable>>
    PROVE  Active' = Active /\ Orders' = Orders
  <1>1. Active' = Active
    BY DEF Active
  <1>2. Orders' = Orders
    BY <1>1 DEF Orders, Before
  <1> QED
    BY <1>1, <1>2

\* The first m rows of an order and the next one.
LEMMA DoneFacts ==
    ASSUME db \in Databases, NEW s \in Orders, NEW m \in Nat, m <= Cardinality(Active)
    PROVE  /\ IsFiniteSet(DoneRows(s, m)) /\ DoneRows(s, m) \subseteq Active
           /\ NumKeys(db.coll, DoneRows(s, m))
  <1>1. s \in [1 .. Cardinality(Active) -> Active] /\ Cardinality(Active) \in Nat
    BY OrderFacts, ActiveFacts
  <1>2. DoneRows(s, m) \in SUBSET Active
    BY <1>1 DEF DoneRows
  <1>3. IsFiniteSet(DoneRows(s, m))
    BY <1>2, ActiveFacts, FS_Subset
  <1> QED
    BY <1>2, <1>3, ActiveFacts DEF NumKeys

LEMMA NextDone ==
    ASSUME db \in Databases, NEW s \in Orders, NEW m \in Nat, m < Cardinality(Active)
    PROVE  /\ DoneRows(s, m + 1) = DoneRows(s, m) \cup {s[m + 1]}
           /\ s[m + 1] \notin DoneRows(s, m) /\ s[m + 1] \in Active
           /\ AllBefore(db.coll, DoneRows(s, m), db.coll[s[m + 1]].class,
                        db.coll[s[m + 1]].host)
  <1>1. PICK n \in Nat : n = Cardinality(Active)
    BY ActiveFacts
  <1>2. /\ s \in [1 .. n -> Active] /\ OneToOne(n, s) /\ SortedBy(InOrder, n, s)
    BY <1>1, OrderFacts
  <1>3. /\ \A i \in 1 .. m + 1 : i \in 1 .. m \/ i = m + 1
        /\ \A i \in 1 .. m : i \in 1 .. m + 1 /\ i \in 1 .. n /\ i < m + 1 /\ i # m + 1
        /\ m + 1 \in 1 .. m + 1 /\ m + 1 \in 1 .. n
    BY <1>1
  <1>4. DoneRows(s, m + 1) = DoneRows(s, m) \cup {s[m + 1]}
    BY <1>3 DEF DoneRows
  <1>5. s[m + 1] \notin DoneRows(s, m)
    BY <1>3, <1>2 DEF DoneRows, OneToOne
  <1>6. PICK e \in Active : e = s[m + 1]
    BY <1>2, <1>3
  <1>7. ASSUME NEW d \in DoneRows(s, m)
        PROVE  \/ db.coll[d].class < db.coll[e].class
               \/ db.coll[d].class = db.coll[e].class /\ db.coll[d].host <= db.coll[e].host
    <2>1. PICK i \in 1 .. m : d = s[i]
      BY DEF DoneRows
    <2>2. d \in Active /\ <<d, e>> \in InOrder
      BY <1>2, <1>3, <1>6, <2>1 DEF SortedBy
    <2>3. ~Before(e, d)
      BY <2>2, InOrderIs
    <2> QED
      BY <2>2, <2>3, ActiveFacts DEF Before
  <1> QED
    BY <1>4, <1>5, <1>6, <1>7 DEF AllBefore

\* The loop's turn for the next row.
LEMMA NextRow ==
    ASSUME TypeOK, collection_class \in Seq(ClassRec), PagesInv, FitsOrders,
           pc = "rows", result # <<>>, NEW s \in Orders
    PROVE  /\ Head(result) \in Active /\ Done \in Nat /\ Done < Cardinality(Active)
           /\ PageTypes(AddRow(Page, Head(result)))
           /\ ~AddRow(Page, Head(result)).bad =>
                 Fits(db.coll, stable, Active, sequences, AddRow(Page, Head(result)),
                      DoneRows(s, Done + 1))
  <1>1. PICK c : c = Head(result)
    OBVIOUS
  <1>2. /\ db \in Databases /\ last_db_id \in Int /\ last_host_id \in Int /\ host_index \in Nat
    BY DEF TypeOK
  <1>3. /\ c \in Active /\ Len(result) \in Nat /\ Len(result) > 0 /\ c = result[1]
    BY <1>1, PopFacts DEF PagesInv
  <1>4. /\ num_rows_done \in Nat /\ Len(result) <= num_rows_done
        /\ num_rows_done <= Cardinality(Active) /\ Cardinality(Active) \in Nat
    BY <1>2, ActiveFacts DEF PagesInv
  <1>5. PICK m \in Nat : m = Done /\ m < Cardinality(Active)
    <2>1. Done \in Nat /\ Done < Cardinality(Active)
      BY <1>3, <1>4 DEF Done
    <2> QED
      BY <2>1
  <1>6. PICK e, D : e = s[m + 1] /\ D = DoneRows(s, m)
    OBVIOUS
  <1>7. /\ Alike(db.coll, stable, c, e)
        /\ Matches(db.coll, stable, Active, sequences, collection_class, host_table, D)
        /\ AtEnd(db.coll, collection_class, last_db_id, last_host_id, host_index, D)
    <2>1. 1 \in 1 .. Len(result)
      BY <1>3
    <2> QED
      BY <1>3, <1>5, <1>6, <2>1 DEF FitsOrders
  <1>8. IsFiniteSet(D) /\ NumKeys(db.coll, D)
    BY <1>2, <1>4, <1>5, <1>6, DoneFacts
  <1>9. /\ DoneRows(s, m + 1) = D \cup {e} /\ e \notin D
        /\ AllBefore(db.coll, D, db.coll[e].class, db.coll[e].host)
    BY <1>2, <1>5, <1>6, NextDone
  <1>10. AllBefore(db.coll, D, db.coll[c].class, db.coll[c].host)
    BY <1>7, <1>9 DEF Alike
  <1>11. db.coll[c].class \in Nat \ {0} /\ db.coll[c].host \in Nat \ {0} /\ c \in DOMAIN DirOf
    BY <1>2, <1>3, ActiveFacts
  <1>12. ReadyFor(db.coll, stable, Active, sequences, collection_class, host_table, last_db_id,
                  last_host_id, host_index, D, db.coll[c].class, db.coll[c].host)
    BY <1>2, <1>7, <1>8, <1>10, <1>11 DEF ReadyFor
  <1>13. /\ IsPage(Page, collection_class, host_table, last_db_id, last_host_id, host_index)
         /\ ~Page.bad
    BY DEF Page, IsPage, Fields
  <1>14. /\ PageTypes(AddRow(Page, c))
         /\ ~AddRow(Page, c).bad =>
               Fits(db.coll, stable, Active, sequences, AddRow(Page, c), D \cup {e})
    BY <1>3, <1>7, <1>8, <1>9, <1>11, <1>12, <1>13, RowStep
  <1> QED
    BY <1>1, <1>3, <1>5, <1>9, <1>14

LEMMA LoadRowLInv == LInv /\ LoadRow => LInv'
  <1> SUFFICES ASSUME LInv, LoadRow PROVE LInv'
    OBVIOUS
  <1>1. /\ TypeOK /\ collection_class \in Seq(ClassRec) /\ PagesInv /\ FitsOrders
        /\ pc = "rows" /\ result # <<>>
    BY DEF LInv, LoadRow, Good
  <1>2. UNCHANGED <<db, stable, changes, conn, sequences, affected_rows, num_rows_done, k,
                    failedAt, dirs, files, faults>>
    BY DEF LoadRow, env
  <1>3. PICK q : q = AddRow(Page, Head(result))
    OBVIOUS
  <1>4. /\ collection_class' = q.classes /\ host_table' = q.tables
        /\ last_db_id' = q.last_db_id /\ last_host_id' = q.last_host_id
        /\ host_index' = q.host_index /\ result' = Tail(result)
    BY <1>3 DEF LoadRow
  <1>5. /\ q.bad => rvalue' = -1 /\ pc' = "commit"
        /\ ~q.bad => rvalue' = 0 /\ pc' = "rows"
    BY <1>3 DEF LoadRow, Then
  <1>6. PICK o \in Orders : TRUE
    BY <1>1 DEF PagesInv
  <1>7. PageTypes(q) /\ Done \in Nat /\ Done < Cardinality(Active)
    BY <1>1, <1>3, <1>6, NextRow
  <1>8. TypeOK'
    BY <1>1, <1>2, <1>4, <1>5, <1>7 DEF TypeOK, PageTypes
  <1>9. CASE q.bad
    <2>1. ~Good'
      BY <1>5, <1>9 DEF Good
    <2> QED
      BY <1>5, <1>8, <1>9, <2>1 DEF LInv
  <1>10. CASE ~q.bad
    <2>0. pc' = "rows" /\ Active' = Active /\ Orders' = Orders
      BY <1>2, <1>5, <1>10, SameDb
    <2>1. \A s \in Orders : Fits(db.coll, stable, Active, sequences, q, DoneRows(s, Done + 1))
      BY <1>1, <1>3, <1>10, NextRow
    <2>2. collection_class' \in Seq(ClassRec)
      BY <1>4, <1>6, <2>1 DEF Fits
    <2>3. /\ result' \in Seq(Active) /\ Len(result) \in Nat /\ Len(result) > 0
          /\ Len(result') = Len(result) - 1
          /\ \A i \in 1 .. Len(result) - 1 : result'[i] = result[i + 1]
      BY <1>1, <1>4, PopFacts DEF PagesInv
    <2>4. num_rows_done \in Nat /\ Done' = Done + 1
      BY <1>1, <1>2, <2>3 DEF Done, PagesInv
    <2>5. PagesInv'
      <3>1. num_rows_done' = num_rows_done /\ affected_rows' = affected_rows
        BY <1>2
      <3> QED
        BY <1>1, <2>0, <2>3, <3>1 DEF PagesInv
    <2>6. ASSUME NEW s \in Orders, NEW i \in 1 .. Len(result')
          PROVE  Alike(db.coll, stable, result'[i], s[Done' + i])
      <3>1. i + 1 \in 1 .. Len(result) /\ result'[i] = result[i + 1] /\ Done' + i = Done + (i + 1)
        BY <1>7, <2>3, <2>4
      <3>2. \A j \in 1 .. Len(result) : Alike(db.coll, stable, result[j], s[Done + j])
        BY <1>1 DEF FitsOrders
      <3> QED
        BY <3>1, <3>2
    <2>7. ASSUME NEW s \in Orders
          PROVE  /\ Matches(db.coll, stable, Active, sequences, collection_class', host_table',
                            DoneRows(s, Done'))
                 /\ AtEnd(db.coll, collection_class', last_db_id', last_host_id', host_index',
                          DoneRows(s, Done'))
      BY <1>4, <2>1, <2>4 DEF Fits
    <2>8. FitsOrders'
      <3>1. db' = db /\ stable' = stable /\ sequences' = sequences
        BY <1>2
      <3> QED
        BY <2>0, <2>6, <2>7, <3>1 DEF FitsOrders
    <2> QED
      BY <1>8, <2>0, <2>2, <2>5, <2>8 DEF LInv
  <1> QED
    BY <1>9, <1>10

\* The rows of a page.
LEMMA PageRows ==
    ASSUME NEW S, NEW t \in Seq(S), NEW n \in Nat, NEW l \in Nat, n <= l, l <= Len(t),
           NEW q, q = SubSeq(t, n + 1, l)
    PROVE  /\ q \in Seq(S) /\ Len(q) = l - n
           /\ \A i \in 1 .. l - n : q[i] = t[n + i]
  <1>1. PICK x \in Int : x = n + 1 /\ l \in Int
    OBVIOUS
  <1>2. \A i \in x .. l : t[i] \in S
    <2>1. \A i \in 1 .. Len(t) : t[i] \in S
      OBVIOUS
    <2>2. \A i \in x .. l : i \in 1 .. Len(t)
      BY <1>1
    <2> QED
      BY <2>1, <2>2, Zenon
  <1>3. /\ q \in Seq(S)
        /\ Len(q) = IF x <= l THEN l - x + 1 ELSE 0
        /\ \A i \in 1 .. l - x + 1 : q[i] = t[x + i - 1]
    BY <1>1, <1>2, SubSeqProperties, SMTT(20)
  <1>4. l - x + 1 = l - n /\ \A i \in 1 .. l - n : x + i - 1 = n + i
    BY <1>1
  <1> QED
    BY <1>1, <1>3, <1>4

LEMMA QueryPageLInv ==
    ASSUME LInv, NEW t \in Orders, QueryPage(t)
    PROVE  LInv'
  <1>1. /\ TypeOK /\ collection_class \in Seq(ClassRec) /\ PagesInv /\ FitsOrders
        /\ pc = "classes"
    BY DEF LInv, QueryPage, Good
  <1>2. UNCHANGED <<db, stable, changes, conn, host_table, sequences, collection_class,
                    last_db_id, last_host_id, host_index, rvalue, k, failedAt, dirs, files,
                    faults>>
    BY DEF QueryPage, env
  <1>3. PICK n \in Nat : n = num_rows_done
    BY <1>1 DEF PagesInv
  <1>4. PICK m \in Nat : m = Cardinality(Active)
    BY <1>1, ActiveFacts DEF TypeOK
  <1>5. t \in Seq(Active) /\ Len(t) = m
    BY <1>1, <1>4, OrderFacts DEF TypeOK
  <1>6. PICK l \in Nat : l = LastRow(t) /\ n <= l /\ l <= m /\ (l # n + RowLimit => l = m)
    <2>1. n <= m /\ RowLimit \in Nat
      BY <1>1, <1>3, <1>4, LimitsAssumption DEF PagesInv
    <2>2. LastRow(t) = IF m < n + RowLimit THEN m ELSE n + RowLimit
      BY <1>3, <1>5 DEF LastRow
    <2> QED
      BY <2>1, <2>2
  <1>7. /\ result' \in Seq(Active) /\ Len(result') = l - n
        /\ \A i \in 1 .. l - n : result'[i] = t[n + i]
    <2>1. result' = SubSeq(t, n + 1, l)
      BY <1>3, <1>6 DEF QueryPage
    <2> QED
      BY <1>5, <1>6, <2>1, PageRows, SMTT(20)
  <1>8. /\ num_rows_done' = l /\ affected_rows' = l - n /\ pc' = "rows"
    BY <1>3, <1>6, <1>7 DEF QueryPage
  <1>9. Active' = Active /\ Orders' = Orders
    BY <1>2, SameDb
  <1>10. Done = n /\ Done' = n
    <2>1. Len(result) = 0
      BY <1>1 DEF PagesInv
    <2> QED
      BY <1>3, <1>7, <1>8, <2>1 DEF Done
  <1>11. TypeOK'
    BY <1>1, <1>2, <1>6, <1>8 DEF TypeOK
  <1>12. PagesInv'
    <2>1. affected_rows' # RowLimit => num_rows_done' = m
      BY <1>6, <1>8, LimitsAssumption
    <2>2. Len(result') <= num_rows_done'
      BY <1>7, <1>8
    <2> QED
      BY <1>4, <1>6, <1>7, <1>8, <1>9, <2>1, <2>2 DEF PagesInv
  <1>13. ASSUME NEW s \in Orders, NEW i \in 1 .. Len(result')
         PROVE  Alike(db.coll, stable, result'[i], s[n + i])
    <2>1. i \in 1 .. l - n /\ result'[i] = t[n + i]
      BY <1>7
    <2>2. n + i \in 1 .. Cardinality(Active)
      BY <1>4, <1>6, <2>1
    <2>3. db \in Databases
      BY <1>1 DEF TypeOK
    <2> QED
      BY <2>1, <2>2, <2>3, OrdersAlike
  <1>14. FitsOrders'
    <2>1. db' = db /\ stable' = stable /\ sequences' = sequences
          /\ collection_class' = collection_class /\ host_table' = host_table
          /\ last_db_id' = last_db_id /\ last_host_id' = last_host_id /\ host_index' = host_index
      BY <1>2
    <2>2. ASSUME NEW s \in Orders
          PROVE  /\ Matches(db.coll, stable, Active, sequences, collection_class, host_table,
                            DoneRows(s, n))
                 /\ AtEnd(db.coll, collection_class, last_db_id, last_host_id, host_index,
                          DoneRows(s, n))
      BY <1>1, <1>10 DEF FitsOrders
    <2> QED
      BY <1>9, <1>10, <1>13, <2>1, <2>2 DEF FitsOrders
  <1> QED
    BY <1>1, <1>2, <1>8, <1>11, <1>12, <1>14 DEF LInv

LEMMA PageDoneLInv == LInv /\ PageDone => LInv'
  <1> SUFFICES ASSUME LInv, PageDone PROVE LInv'
    OBVIOUS
  <1>1. /\ TypeOK /\ collection_class \in Seq(ClassRec) /\ PagesInv /\ FitsOrders
        /\ pc = "rows" /\ result = <<>>
    BY DEF LInv, PageDone, Good
  <1>2. UNCHANGED <<db, stable, changes, conn, host_table, sequences, collection_class,
                    last_db_id, last_host_id, host_index, result, affected_rows,
                    num_rows_done, rvalue, k, failedAt, dirs, files, faults>>
    BY DEF PageDone, env, loaded, pageVars
  <1>3. /\ pc' \in {"classes", "oids"}
        /\ affected_rows # RowLimit <=> pc' = "oids"
    BY DEF PageDone
  <1>4. Active' = Active /\ Orders' = Orders
    BY <1>2, SameDb
  <1>5. TypeOK'
    BY <1>1, <1>2, <1>3 DEF TypeOK
  <1>6. PagesInv'
    BY <1>1, <1>2, <1>3, <1>4 DEF PagesInv
  <1>7. FitsOrders'
    BY <1>1, <1>2, <1>4 DEF FitsOrders, Done
  <1> QED
    BY <1>1, <1>2, <1>3, <1>5, <1>6, <1>7 DEF LInv

\* A function on 1 .. n is a sequence.
LEMMA MapType ==
    ASSUME NEW S, NEW n \in Nat, NEW f, f = [i \in 1 .. n |-> f[i]],
           \A i \in 1 .. n : f[i] \in S
    PROVE  f \in Seq(S) /\ Len(f) = n
  <1>1. f \in [1 .. n -> S]
    OBVIOUS
  <1> QED
    BY <1>1

\* The same classes with the same hosts.
KeepsHosts(cc2, cc) ==
    /\ Len(cc2) = Len(cc)
    /\ \A i \in 1 .. Len(cc) : cc2[i].db_id = cc[i].db_id /\ cc2[i].host = cc[i].host

LEMMA MatchesKept ==
    ASSUME NEW R, NEW st, NEW A, NEW sq, NEW cc, NEW cc2, NEW tab, NEW D,
           Matches(R, st, A, sq, cc, tab, D), KeepsHosts(cc2, cc)
    PROVE  Matches(R, st, A, sq, cc2, tab, D)
  <1>1. /\ Len(cc2) = Len(cc)
        /\ \A i \in 1 .. Len(cc) : cc2[i].db_id = cc[i].db_id /\ cc2[i].host = cc[i].host
    BY DEF KeepsHosts
  <1>2. ClassesMatch(R, cc2, D)
    <2>1. ClassesMatch(R, cc, D)
      BY DEF Matches
    <2>2. /\ \A i \in 1 .. Len(cc) : \E c \in D : R[c].class = cc[i].db_id
          /\ \A c \in D : \E i \in 1 .. Len(cc) : cc[i].db_id = R[c].class
          /\ \A i, j \in 1 .. Len(cc) : i < j => cc[i].db_id < cc[j].db_id
      BY <2>1, Zenon DEF ClassesMatch
    <2>3. \A i \in 1 .. Len(cc2) : \E c \in D : R[c].class = cc2[i].db_id
      BY <1>1, <2>2, ZenonT(30)
    <2>4. \A c \in D : \E i \in 1 .. Len(cc2) : cc2[i].db_id = R[c].class
      BY <1>1, <2>2, ZenonT(30)
    <2>5. \A i, j \in 1 .. Len(cc2) : i < j => cc2[i].db_id < cc2[j].db_id
      BY <1>1, <2>2, Zenon
    <2> QED
      BY <2>3, <2>4, <2>5, Zenon DEF ClassesMatch
  <1>3. ASSUME NEW i \in 1 .. Len(cc)
        PROVE  /\ HostsMatch(R, cc2[i], D)
               /\ \A j \in 1 .. Len(cc2[i].host) :
                     /\ CollMatch(R, st, A, cc2[i].db_id, cc2[i].host[j], D)
                     /\ TabMatch(R, sq, tab, cc2[i].host[j])
    <2>1. /\ HostsMatch(R, cc[i], D)
          /\ \A j \in 1 .. Len(cc[i].host) :
                /\ CollMatch(R, st, A, cc[i].db_id, cc[i].host[j], D)
                /\ TabMatch(R, sq, tab, cc[i].host[j])
      BY DEF Matches
    <2>2. cc2[i].db_id = cc[i].db_id /\ cc2[i].host = cc[i].host
      BY <1>1
    <2>3. PICK hs, a : hs = cc[i].host /\ a = cc[i].db_id
      OBVIOUS
    <2>4. cc2[i].host = hs /\ cc2[i].db_id = a
      BY <2>2, <2>3, Zenon
    <2>5. HostsMatch(R, cc2[i], D)
      <3>1. /\ \A j \in 1 .. Len(hs) :
                  \E c \in D : R[c].class = a /\ R[c].host = hs[j].db_id
            /\ \A c \in D : R[c].class = a =>
                  \E j \in 1 .. Len(hs) : hs[j].db_id = R[c].host
            /\ \A g, j \in 1 .. Len(hs) : g < j => hs[g].db_id < hs[j].db_id
        BY <2>1, <2>3 DEF HostsMatch
      <3>2. \A j \in 1 .. Len(cc2[i].host) :
               \E c \in D : R[c].class = cc2[i].db_id /\ R[c].host = cc2[i].host[j].db_id
        BY <2>4, <3>1, Zenon
      <3>3. \A c \in D : R[c].class = cc2[i].db_id =>
               \E j \in 1 .. Len(cc2[i].host) : cc2[i].host[j].db_id = R[c].host
        BY <2>4, <3>1, Zenon
      <3>4. \A g, j \in 1 .. Len(cc2[i].host) :
               g < j => cc2[i].host[g].db_id < cc2[i].host[j].db_id
        BY <2>4, <3>1, Zenon
      <3> QED
        BY <3>2, <3>3, <3>4, Zenon DEF HostsMatch
    <2> QED
      BY <2>1, <2>3, <2>4, <2>5, Zenon
  <1> QED
    BY <1>1, <1>2, <1>3 DEF Matches

\* Behind the last page, all rows are done: each class has an active row.
LEMMA ClassIsActive ==
    ASSUME TypeOK, PagesInv, FitsOrders, pc # "classes", NEW i \in 1 .. Len(collection_class)
    PROVE  \E c \in Active : db.coll[c].class = collection_class[i].db_id
  <1>1. PICK s \in Orders : TRUE
    BY DEF PagesInv
  <1>2. Done \in Nat /\ Done <= Cardinality(Active) /\ db \in Databases
    <2>1. /\ num_rows_done \in Nat /\ Len(result) <= num_rows_done /\ Len(result) \in Nat
          /\ num_rows_done <= Cardinality(Active) /\ db \in Databases
      BY DEF PagesInv, TypeOK
    <2>2. Cardinality(Active) \in Nat
      BY <2>1, ActiveFacts
    <2> QED
      BY <2>1, <2>2 DEF Done
  <1>3. DoneRows(s, Done) \subseteq Active
    BY <1>2, DoneFacts
  <1>4. ClassesMatch(db.coll, collection_class, DoneRows(s, Done))
    BY DEF FitsOrders, Matches
  <1> QED
    BY <1>3, <1>4 DEF ClassesMatch

\* A step that only changes what the classes count.
LEMMA CountStepLInv ==
    ASSUME LInv, pc \in {"oids", "rras", "globals"}, pc' \in {"rras", "globals", "commit"},
           rvalue' = 0, collection_class' \in Seq(ClassRec),
           KeepsHosts(collection_class', collection_class),
           UNCHANGED <<env, conn, host_table, sequences, pageVars, k, failedAt, dirs, files,
                       faults>>
    PROVE  LInv'
  <1>1. TypeOK /\ PagesInv /\ FitsOrders
    BY DEF LInv, Good
  <1>2. UNCHANGED <<db, stable, changes, conn, host_table, sequences,
                    last_db_id, last_host_id, host_index, result, affected_rows,
                    num_rows_done, k, failedAt, dirs, files, faults>>
    BY DEF env, pageVars
  <1>3. Active' = Active /\ Orders' = Orders
    BY <1>2, SameDb
  <1>4. TypeOK'
    BY <1>1, <1>2 DEF TypeOK
  <1>5. PagesInv'
    BY <1>1, <1>2, <1>3 DEF PagesInv
  <1>6. FitsOrders'
    <2>1. Done' = Done
      BY <1>2 DEF Done
    <2>2. ASSUME NEW s \in Orders
          PROVE  /\ \A i \in 1 .. Len(result) :
                       Alike(db.coll, stable, result[i], s[Done + i])
                 /\ Matches(db.coll, stable, Active, sequences, collection_class, host_table,
                            DoneRows(s, Done))
      BY <1>1 DEF FitsOrders
    <2>3. ASSUME NEW s \in Orders
          PROVE  Matches(db.coll, stable, Active, sequences, collection_class', host_table,
                         DoneRows(s, Done))
      BY <2>2, MatchesKept
    <2> QED
      BY <1>2, <1>3, <2>1, <2>2, <2>3 DEF FitsOrders
  <1> QED
    BY <1>4, <1>5, <1>6 DEF LInv

LEMMA LoadOidsLInv == LInv /\ LoadOids => LInv'
  <1> SUFFICES ASSUME LInv, LoadOids PROVE LInv'
    OBVIOUS
  <1>1. TypeOK /\ PagesInv /\ FitsOrders /\ collection_class \in Seq(ClassRec) /\ pc = "oids"
    BY DEF LInv, LoadOids, Good
  <1>0. PICK cc \in Seq(ClassRec) : cc = collection_class
    BY <1>1
  <1>2. PICK f : f = db.oids /\ cc = collection_class
    BY <1>0
  <1>3. \A i \in 1 .. Len(cc) : f[cc[i].db_id] \in Nat
    BY <1>1, <1>2, ClassIsActive, ActiveFacts DEF TypeOK
  <1>4. PICK cc2 : cc2 = [i \in DOMAIN cc |-> [cc[i] EXCEPT !.oid = f[cc[i].db_id]]]
    OBVIOUS
  <1>5. ASSUME NEW i \in 1 .. Len(cc)
        PROVE  cc2[i] \in ClassRec /\ cc2[i].db_id = cc[i].db_id /\ cc2[i].host = cc[i].host
    <2>1. cc[i] \in ClassRec /\ f[cc[i].db_id] \in Nat /\ i \in DOMAIN cc
      BY <1>3
    <2>2. cc2[i] = [cc[i] EXCEPT !.oid = f[cc[i].db_id]]
      BY <1>4, <2>1
    <2> QED
      BY <2>1, <2>2 DEF ClassRec
  <1>6. cc2 \in Seq(ClassRec) /\ Len(cc2) = Len(cc)
    <2>1. DOMAIN cc = 1 .. Len(cc) /\ Len(cc) \in Nat
      OBVIOUS
    <2>2. cc2 = [i \in 1 .. Len(cc) |-> cc2[i]]
      BY <1>4, <2>1
    <2> QED
      BY <1>5, <2>1, <2>2, MapType
  <1>7. KeepsHosts(cc2, cc)
    BY <1>5, <1>6 DEF KeepsHosts
  <1>8. collection_class' = cc2
    BY <1>2, <1>4 DEF LoadOids
  <1>9. rvalue' = 0 /\ pc' = "rras"
    BY DEF LoadOids, Then
  <1> QED
    BY <1>1, <1>2, <1>6, <1>7, <1>8, <1>9, CountStepLInv DEF LoadOids

LEMMA LoadRrasLInv == LInv /\ LoadRras => LInv'
  <1> SUFFICES ASSUME LInv, LoadRras PROVE LInv'
    OBVIOUS
  <1>1. TypeOK /\ PagesInv /\ FitsOrders /\ collection_class \in Seq(ClassRec) /\ pc = "rras"
    BY DEF LInv, LoadRras, Good
  <1>0. PICK cc \in Seq(ClassRec) : cc = collection_class
    BY <1>1
  <1>2. PICK f : f = db.rras /\ cc = collection_class
    BY <1>0
  <1>3. \A i \in 1 .. Len(cc) : f[cc[i].db_id] \in Nat
    BY <1>1, <1>2, ClassIsActive, ActiveFacts DEF TypeOK
  <1>4. PICK cc2 : cc2 = [i \in DOMAIN cc |-> [cc[i] EXCEPT !.rra = f[cc[i].db_id]]]
    OBVIOUS
  <1>5. ASSUME NEW i \in 1 .. Len(cc)
        PROVE  cc2[i] \in ClassRec /\ cc2[i].db_id = cc[i].db_id /\ cc2[i].host = cc[i].host
    <2>1. cc[i] \in ClassRec /\ f[cc[i].db_id] \in Nat /\ i \in DOMAIN cc
      BY <1>3
    <2>2. cc2[i] = [cc[i] EXCEPT !.rra = f[cc[i].db_id]]
      BY <1>4, <2>1
    <2> QED
      BY <2>1, <2>2 DEF ClassRec
  <1>6. cc2 \in Seq(ClassRec) /\ Len(cc2) = Len(cc)
    <2>1. DOMAIN cc = 1 .. Len(cc) /\ Len(cc) \in Nat
      OBVIOUS
    <2>2. cc2 = [i \in 1 .. Len(cc) |-> cc2[i]]
      BY <1>4, <2>1
    <2> QED
      BY <1>5, <2>1, <2>2, MapType
  <1>7. KeepsHosts(cc2, cc)
    BY <1>5, <1>6 DEF KeepsHosts
  <1>8. collection_class' = cc2
    BY <1>2, <1>4 DEF LoadRras
  <1>9. rvalue' = 0 /\ pc' = "globals"
    BY DEF LoadRras, Then
  <1> QED
    BY <1>1, <1>2, <1>6, <1>7, <1>8, <1>9, CountStepLInv DEF LoadRras

LEMMA LoadGlobalsLInv == LInv /\ LoadGlobals => LInv'
  <1> SUFFICES ASSUME LInv, LoadGlobals PROVE LInv'
    OBVIOUS
  <1>1. /\ pc = "globals" /\ pc' = "commit" /\ rvalue' = 0
        /\ collection_class \in Seq(ClassRec) /\ collection_class' = collection_class
    BY DEF LoadGlobals, Then, LInv, Good
  <1>2. KeepsHosts(collection_class', collection_class)
    BY <1>1 DEF KeepsHosts
  <1> QED
    BY <1>1, <1>2, CountStepLInv DEF LoadGlobals

-----------------------------------------------------------------------------
(* recursive_dir_create: the recursion ends, for parents have smaller numbers *)

\* f gives the topmost missing directory for those of D, where those of M exist.
IsTop(f, D, M) ==
    f = [e \in D |-> IF Parent[e] \in M \cup {0} THEN e ELSE f[Parent[e]]]

UpTo(m) == {e \in Dir : e <= m}

LEMMA ParentUpTo ==
    ASSUME NEW m \in Nat, NEW e \in UpTo(m), NEW M, Parent[e] \notin M \cup {0}
    PROVE  Parent[e] \in UpTo(m) /\ Parent[e] \in Nat /\ e \in Nat \ {0} /\ Parent[e] < e
  BY DirAssumption DEF UpTo

LEMMA TopValue ==
    ASSUME NEW f, NEW D, NEW M, IsTop(f, D, M), NEW e \in D
    PROVE  f[e] = IF Parent[e] \in M \cup {0} THEN e ELSE f[Parent[e]]
  BY Zenon DEF IsTop

LEMMA TopUpTo ==
    ASSUME NEW M, NEW m \in Nat
    PROVE  \E f : IsTop(f, UpTo(m), M)
  <1> DEFINE S == {n \in Nat : \E f : IsTop(f, UpTo(n), M)}
  <1>1. 0 \in S
    <2>1. UpTo(0) = {}
      BY DirAssumption DEF UpTo
    <2> DEFINE f == [e \in {} |-> e]
    <2>2. IsTop(f, {}, M)
      BY DEF IsTop
    <2> QED
      BY <2>1, <2>2
  <1>2. ASSUME NEW n \in Nat, n \in S PROVE n + 1 \in S
    <2>1. PICK f : IsTop(f, UpTo(n), M)
      BY <1>2
    <2> DEFINE g == [e \in UpTo(n + 1) |->
                        IF e \in UpTo(n) THEN f[e]
                        ELSE IF Parent[e] \in M \cup {0} THEN e ELSE f[Parent[e]]]
    <2>2. ASSUME NEW e \in UpTo(n + 1)
          PROVE  g[e] = IF Parent[e] \in M \cup {0} THEN e ELSE g[Parent[e]]
      <3>1. g[e] = IF Parent[e] \in M \cup {0} THEN e ELSE f[Parent[e]]
        <4>1. CASE e \in UpTo(n)
          BY <2>1, <4>1, TopValue
        <4>2. CASE e \notin UpTo(n)
          BY <4>2
        <4> QED
          BY <4>1, <4>2
      <3>2. CASE Parent[e] \in M \cup {0}
        BY <3>1, <3>2
      <3>3. CASE Parent[e] \notin M \cup {0}
        <4>1. Parent[e] \in UpTo(n) /\ Parent[e] \in UpTo(n + 1)
          BY <3>3, ParentUpTo DEF UpTo
        <4>2. g[Parent[e]] = f[Parent[e]]
          BY <4>1
        <4> QED
          BY <3>1, <3>3, <4>2
      <3> QED
        BY <3>2, <3>3
    <2>3. g = [e \in UpTo(n + 1) |-> g[e]]
      OBVIOUS
    <2> HIDE DEF g
    <2>4. IsTop(g, UpTo(n + 1), M)
      BY <2>2, <2>3, Zenon DEF IsTop
    <2> QED
      BY <2>4
  <1> HIDE DEF S
  <1>3. m \in S
    BY <1>1, <1>2, SetInduction
  <1> QED
    BY <1>3 DEF S

\* Any two of them agree.
LEMMA TopAgree ==
    ASSUME NEW M, NEW m \in Nat, NEW n \in Nat, NEW f, NEW g, IsTop(f, UpTo(m), M),
           IsTop(g, UpTo(n), M), NEW d \in Dir, d <= m, d <= n
    PROVE  f[d] = g[d]
  <1> DEFINE S == {x \in Nat : \A e \in Dir : e <= x /\ e <= m /\ e <= n => f[e] = g[e]}
  <1>1. 0 \in S
    BY DirAssumption
  <1>2. ASSUME NEW x \in Nat, x \in S PROVE x + 1 \in S
    <2> SUFFICES ASSUME NEW e \in Dir, e <= x + 1, e <= m, e <= n PROVE f[e] = g[e]
      OBVIOUS
    <2>1. e \in UpTo(m) /\ e \in UpTo(n) /\ e \in Nat
      BY DirAssumption DEF UpTo
    <2>2. /\ f[e] = IF Parent[e] \in M \cup {0} THEN e ELSE f[Parent[e]]
          /\ g[e] = IF Parent[e] \in M \cup {0} THEN e ELSE g[Parent[e]]
      BY <2>1, TopValue
    <2>3. CASE Parent[e] \in M \cup {0}
      BY <2>2, <2>3
    <2>4. CASE Parent[e] \notin M \cup {0}
      <3>1. Parent[e] \in Dir /\ Parent[e] <= x /\ Parent[e] <= m /\ Parent[e] <= n
        BY <2>1, <2>4, ParentUpTo DEF UpTo
      <3>2. f[Parent[e]] = g[Parent[e]]
        BY <1>2, <3>1
      <3> QED
        BY <2>2, <2>4, <3>2
    <2> QED
      BY <2>3, <2>4
  <1>3. d \in Nat
    BY DirAssumption
  <1>4. d \in S
    <2> HIDE DEF S
    <2> QED
      BY <1>1, <1>2, <1>3, SetInduction
  <1> QED
    BY <1>3, <1>4

LEMMA TopExists ==
    ASSUME NEW M
    PROVE  \E f : IsTop(f, Dir, M)
  <1> DEFINE h(n) == CHOOSE f : IsTop(f, UpTo(n), M)
             g == [e \in Dir |-> h(e)[e]]
  <1>1. \A n \in Nat : IsTop(h(n), UpTo(n), M)
    BY TopUpTo
  <1>2. ASSUME NEW e \in Dir
        PROVE  g[e] = IF Parent[e] \in M \cup {0} THEN e ELSE g[Parent[e]]
    <2>1. e \in Nat /\ e \in UpTo(e) /\ g[e] = h(e)[e]
      BY DirAssumption DEF UpTo
    <2> HIDE DEF h
    <2>2. g[e] = IF Parent[e] \in M \cup {0} THEN e ELSE h(e)[Parent[e]]
      BY <1>1, <2>1, TopValue
    <2>3. CASE Parent[e] \in M \cup {0}
      BY <2>2, <2>3
    <2>4. CASE Parent[e] \notin M \cup {0}
      <3>1. Parent[e] \in Dir /\ Parent[e] \in Nat /\ Parent[e] <= e /\ Parent[e] <= Parent[e]
        BY <2>1, <2>4, ParentUpTo DEF UpTo
      <3>2. g[Parent[e]] = h(Parent[e])[Parent[e]]
        BY <3>1
      <3>3. h(Parent[e])[Parent[e]] = h(e)[Parent[e]]
        BY <1>1, <2>1, <3>1, TopAgree
      <3> QED
        BY <2>2, <2>4, <3>2, <3>3
    <2> QED
      BY <2>3, <2>4
  <1>3. g = [e \in Dir |-> g[e]]
    OBVIOUS
  <1> HIDE DEF g
  <1>4. IsTop(g, Dir, M)
    BY <1>2, <1>3, Zenon DEF IsTop
  <1> QED
    BY <1>4

\* recursive_dir_create makes a directory.
LEMMA DirCreated ==
    ASSUME NEW d \in Dir
    PROVE  recursive_dir_create(d) \subseteq Dir
  <1> DEFINE f == CHOOSE f : IsTop(f, Dir, dirs)
  <1>1. recursive_dir_create(d) = {f[d]}
    BY DEF recursive_dir_create, IsTop
  <1>2. IsTop(f, Dir, dirs)
    BY TopExists
  <1> HIDE DEF f
  <1> DEFINE S == {x \in Nat : \A e \in Dir : e <= x => f[e] \in Dir}
  <1>3. 0 \in S
    BY DirAssumption
  <1>4. ASSUME NEW x \in Nat, x \in S PROVE x + 1 \in S
    <2> SUFFICES ASSUME NEW e \in Dir, e <= x + 1 PROVE f[e] \in Dir
      OBVIOUS
    <2>1. f[e] = IF Parent[e] \in dirs \cup {0} THEN e ELSE f[Parent[e]]
      BY <1>2, TopValue
    <2>2. CASE Parent[e] \notin dirs \cup {0}
      <3>1. Parent[e] \in Dir /\ Parent[e] <= x
        BY <2>2, DirAssumption
      <3> QED
        BY <1>4, <2>1, <2>2, <3>1
    <2> QED
      BY <2>1, <2>2
  <1>5. d \in Nat
    BY DirAssumption
  <1>6. d \in S
    <2> HIDE DEF S
    <2> QED
      BY <1>3, <1>4, <1>5, SetInduction
  <1> QED
    BY <1>1, <1>5, <1>6

-----------------------------------------------------------------------------
(* create_missing_rrd_files                                                 *)

IsFlat(f, ss, n) == f = [i \in 1 .. n |-> IF i = 1 THEN ss[i] ELSE f[i - 1] \o ss[i]]

LEMMA FlatExists ==
    ASSUME NEW ss, NEW m \in Nat
    PROVE  \E f : IsFlat(f, ss, m)
  <1> DEFINE S == {n \in Nat : \E f : IsFlat(f, ss, n)}
  <1>1. 0 \in S
    <2> DEFINE f == [i \in 1 .. 0 |-> ss]
    <2>1. 1 .. 0 = {}
      OBVIOUS
    <2>2. IsFlat(f, ss, 0)
      BY <2>1 DEF IsFlat
    <2> QED
      BY <2>2
  <1>2. ASSUME NEW n \in Nat, n \in S PROVE n + 1 \in S
    <2>1. PICK f : IsFlat(f, ss, n)
      BY <1>2
    <2> DEFINE last == f[n] \o ss[n + 1]
               g == [i \in 1 .. n + 1 |->
                        IF i = 1 THEN ss[i] ELSE IF i = n + 1 THEN last ELSE f[i]]
    <2> HIDE DEF last
    <2>2. ASSUME NEW i \in 1 .. n + 1
          PROVE  g[i] = IF i = 1 THEN ss[i] ELSE g[i - 1] \o ss[i]
      <3>1. CASE i = 1
        BY <3>1
      <3>2. CASE i # 1
        <4>1. i - 1 \in 1 .. n /\ i - 1 \in 1 .. n + 1 /\ i - 1 # n + 1
          BY <3>2
        <4>2. g[i - 1] = f[i - 1]
          <5>1. CASE i - 1 = 1
            <6>1. f[1] = ss[1]
              BY <2>1, <4>1, <5>1 DEF IsFlat
            <6> QED
              BY <4>1, <5>1, <6>1
          <5>2. CASE i - 1 # 1
            BY <4>1, <5>2
          <5> QED
            BY <5>1, <5>2
        <4>3. g[i] = f[i - 1] \o ss[i]
          <5>1. CASE i = n + 1
            <6>1. i - 1 = n /\ g[i] = last
              BY <3>2, <5>1
            <6> QED
              BY <5>1, <6>1, Zenon DEF last
          <5>2. CASE i # n + 1
            <6>1. i \in 1 .. n /\ g[i] = f[i]
              BY <3>2, <5>2
            <6> QED
              BY <2>1, <3>2, <6>1 DEF IsFlat
          <5> QED
            BY <5>1, <5>2
        <4> QED
          BY <3>2, <4>2, <4>3
      <3> QED
        BY <3>1, <3>2
    <2>3. g = [i \in 1 .. n + 1 |-> g[i]]
      OBVIOUS
    <2> HIDE DEF g
    <2>4. IsFlat(g, ss, n + 1)
      BY <2>2, <2>3, Zenon DEF IsFlat
    <2> QED
      BY <2>4
  <1> HIDE DEF S
  <1>3. m \in S
    BY <1>1, <1>2, SetInduction
  <1> QED
    BY <1>3 DEF S

LEMMA FlattenType ==
    ASSUME NEW T, NEW ss \in Seq(Seq(T))
    PROVE  FlattenSeq(ss) \in Seq(T)
  <1> DEFINE n == Len(ss)
             f == CHOOSE f : IsFlat(f, ss, n)
  <1>1. n \in Nat
    OBVIOUS
  <1>2. FlattenSeq(ss) = IF n = 0 THEN ss ELSE f[n]
    BY DEF FlattenSeq, IsFlat
  <1>3. IsFlat(f, ss, n)
    BY <1>1, FlatExists
  <1> HIDE DEF f
  <1>4. \A i \in 1 .. n : f[i] = IF i = 1 THEN ss[i] ELSE f[i - 1] \o ss[i]
    BY <1>3, Zenon DEF IsFlat
  <1>5. \A i \in 1 .. n : ss[i] \in Seq(T)
    OBVIOUS
  <1> HIDE DEF n
  <1> DEFINE S == {x \in Nat : x \in 1 .. n => f[x] \in Seq(T)}
  <1>6. 0 \in S
    OBVIOUS
  <1>7. ASSUME NEW x \in Nat, x \in S PROVE x + 1 \in S
    <2> SUFFICES ASSUME x + 1 \in 1 .. n PROVE f[x + 1] \in Seq(T)
      OBVIOUS
    <2>1. ss[x + 1] \in Seq(T)
      BY <1>5
    <2>2. CASE x = 0
      BY <1>4, <2>1, <2>2
    <2>3. CASE x # 0
      <3>1. x \in 1 .. n /\ x + 1 # 1 /\ x + 1 - 1 = x
        BY <1>1, <2>3
      <3>2. f[x] \in Seq(T)
        BY <1>7, <3>1
      <3>3. f[x + 1] = f[x] \o ss[x + 1]
        <4>1. PICK i \in 1 .. n : i = x + 1 /\ i # 1 /\ i - 1 = x
          BY <3>1
        <4>2. f[i] = f[i - 1] \o ss[i]
          BY <1>4, <4>1, Zenon
        <4> QED
          BY <4>1, <4>2, Zenon
      <3> QED
        BY <2>1, <3>2, <3>3
    <2> QED
      BY <2>2, <2>3
  <1>8. CASE n = 0
    <2>1. ss = <<>>
      BY <1>8 DEF n
    <2> QED
      BY <1>2, <1>8, <2>1
  <1>9. CASE n # 0
    <2>1. n \in S
      <3> HIDE DEF S
      <3> QED
        BY <1>1, <1>6, <1>7, SetInduction
    <2> QED
      BY <1>1, <1>2, <1>9, <2>1
  <1> QED
    BY <1>8, <1>9

LEMMA WantedType ==
    ASSUME collection_class \in Seq(ClassRec)
    PROVE  Wanted \in Seq(Nat \X DOMAIN DirOf)
  <1> DEFINE T == Nat \X DOMAIN DirOf
  <1>1. PICK cc \in Seq(ClassRec) : cc = collection_class
    OBVIOUS
  <1> DEFINE row(i, j) == [l \in DOMAIN cc[i].host[j].collection |->
                              <<i, cc[i].host[j].collection[l]>>]
             host(i) == [j \in DOMAIN cc[i].host |-> row(i, j)]
             all == [i \in DOMAIN cc |-> FlattenSeq(host(i))]
  <1>2. ASSUME NEW i \in 1 .. Len(cc) PROVE FlattenSeq(host(i)) \in Seq(T)
    <2>0. cc[i] \in ClassRec
      OBVIOUS
    <2>1. PICK hs \in Seq(HostRec) : hs = cc[i].host
      BY <2>0 DEF ClassRec
    <2>2. ASSUME NEW j \in 1 .. Len(hs) PROVE row(i, j) \in Seq(T)
      <3>1. hs[j] \in HostRec
        OBVIOUS
      <3>2. PICK oc \in Seq(DOMAIN DirOf) : oc = hs[j].collection
        BY <3>1 DEF HostRec
      <3>3. DOMAIN oc = 1 .. Len(oc) /\ Len(oc) \in Nat
        OBVIOUS
      <3>4. row(i, j) = [l \in 1 .. Len(oc) |-> <<i, oc[l]>>]
        BY <2>1, <3>2, <3>3
      <3>5. \A l \in 1 .. Len(oc) : <<i, oc[l]>> \in T
        OBVIOUS
      <3>6. row(i, j) \in [1 .. Len(oc) -> T]
        BY <3>4, <3>5
      <3> HIDE DEF row, T
      <3> QED
        BY <3>3, <3>6, SMTT(40)
    <2>3. DOMAIN hs = 1 .. Len(hs) /\ Len(hs) \in Nat
      OBVIOUS
    <2> HIDE DEF row
    <2>4. host(i) = [j \in 1 .. Len(hs) |-> row(i, j)]
      BY <2>1, <2>3
    <2>5. host(i) \in [1 .. Len(hs) -> Seq(T)]
      BY <2>2, <2>4
    <2> HIDE DEF host, T
    <2>6. host(i) \in Seq(Seq(T))
      BY <2>3, <2>5
    <2> QED
      BY <2>6, FlattenType
  <1>3. DOMAIN cc = 1 .. Len(cc) /\ Len(cc) \in Nat
    OBVIOUS
  <1>4. Wanted = FlattenSeq(all)
    BY <1>1 DEF Wanted
  <1> HIDE DEF host, T
  <1>5. all \in [1 .. Len(cc) -> Seq(T)]
    BY <1>2, <1>3
  <1> HIDE DEF all
  <1>6. all \in Seq(Seq(T))
    BY <1>3, <1>5
  <1> QED
    BY <1>4, <1>6, FlattenType DEF T

LEMMA FileType ==
    ASSUME collection_class \in Seq(ClassRec), k \in Nat, k < Len(Wanted)
    PROVE  File \in DOMAIN DirOf /\ DirOf[File] \in Dir
  <1>1. Wanted \in Seq(Nat \X DOMAIN DirOf)
    BY WantedType
  <1>2. PICK w \in Seq(Nat \X DOMAIN DirOf) : w = Wanted
    BY <1>1
  <1>3. w[k + 1] \in Nat \X DOMAIN DirOf
    BY <1>2
  <1>4. File \in DOMAIN DirOf
    BY <1>2, <1>3 DEF File
  <1> QED
    BY <1>4, DirAssumption

-----------------------------------------------------------------------------
(* The invariant                                                            *)

\* load_config or init_config returns, and only the file system has changed.
LEMMA ReturnLInv ==
    ASSUME LInv, NEW why \in {"none", "connect", "start", "query", "commit", "class"},
           Return(why), UNCHANGED <<db, stable, changes>>,
           conn' \in {"none", "open", "transaction"},
           faults' \in 0 .. MaxFaults, dirs' \subseteq Dir, files' \subseteq DOMAIN DirOf
    PROVE  LInv'
  <1>1. TypeOK
    BY DEF LInv
  <1>2. /\ pc' = "idle" /\ collection_class' = <<>> /\ last_db_id' = -1 /\ last_host_id' = -1
        /\ result' = <<>> /\ num_rows_done' = 0 /\ host_index' = 0 /\ rvalue' = 0 /\ k' = 0
        /\ failedAt' = why
    BY DEF Return
  <1>3. TypeOK'
    BY <1>1, <1>2 DEF TypeOK
  <1>4. ~Good'
    BY <1>2 DEF Good
  <1> QED
    BY <1>2, <1>3, <1>4 DEF LInv

LEMMA FaultType ==
    ASSUME LInv, Fault
    PROVE  faults' \in 0 .. MaxFaults
  BY BoundsAssumption DEF LInv, TypeOK, Fault

\* The classes come next, and nothing of them is loaded yet.
LEMMA SequencesLInv ==
    ASSUME LInv, pc = "sequences", pc' = "classes", rvalue' = 0,
           UNCHANGED <<env, conn, host_table, collection_class, pageVars, k, failedAt, dirs,
                       files>>,
           faults' \in 0 .. MaxFaults
    PROVE  LInv'
  <1>1. /\ TypeOK
        /\ collection_class = <<>> /\ last_db_id = -1 /\ last_host_id = -1
        /\ result = <<>> /\ num_rows_done = 0
    BY DEF LInv
  <1>2. UNCHANGED <<db, stable, changes, conn, host_table, collection_class,
                    last_db_id, last_host_id, host_index, result, affected_rows,
                    num_rows_done, k, failedAt, dirs, files>>
    BY DEF env, pageVars
  <1>3. Active' = Active /\ Orders' = Orders /\ Cardinality(Active) \in Nat
    BY <1>1, <1>2, SameDb, ActiveFacts DEF TypeOK
  <1>4. TypeOK'
    BY <1>1, <1>2 DEF TypeOK
  <1>5. collection_class' = <<>> /\ collection_class' \in Seq(ClassRec)
    BY <1>1, <1>2
  <1>6. PagesInv'
    BY <1>1, <1>2, <1>3 DEF PagesInv
  <1>7. FitsOrders'
    <2>1. Done' = 0 /\ Len(result') = 0 /\ 1 .. 0 = {}
      <3>1. result' = <<>> /\ num_rows_done' = 0
        BY <1>1, <1>2
      <3>2. Len(result') = 0 /\ 1 .. 0 = {}
        BY <3>1
      <3>3. Done' = num_rows_done' - Len(result')
        BY DEF Done
      <3> QED
        BY <3>1, <3>2, <3>3
    <2>2. \A s : DoneRows(s, 0) = {}
      BY DEF DoneRows
    <2>3. Matches(db.coll, stable, Active, sequences', <<>>, host_table, {})
      BY DEF Matches, ClassesMatch
    <2>4. AtEnd(db.coll, <<>>, -1, -1, host_index, {})
      BY DEF AtEnd
    <2> QED
      BY <1>1, <1>2, <1>3, <2>1, <2>2, <2>3, <2>4 DEF FitsOrders
  <1> QED
    BY <1>4, <1>5, <1>6, <1>7 DEF LInv

LEMMA LoadStepLInv == LInv /\ LoadStep => LInv'
  <1> SUFFICES ASSUME LInv, LoadStep PROVE LInv'
    OBVIOUS
  <1>0. /\ TypeOK /\ dirs \subseteq Dir /\ files \subseteq DOMAIN DirOf
        /\ faults \in 0 .. MaxFaults /\ conn \in {"none", "open", "transaction"}
    BY DEF LInv, TypeOK
  <1>1. CASE Connect
    <2>1. /\ pc = "idle" /\ pc' = "hosts" /\ conn' = "transaction"
          /\ UNCHANGED <<db, stable, changes, host_table, sequences, collection_class,
                         last_db_id, last_host_id, host_index, result, affected_rows,
                         num_rows_done, rvalue, k, failedAt, dirs, files, faults>>
      BY <1>1 DEF Connect, env, loaded, pageVars
    <2>2. ~Good'
      BY <2>1 DEF Good
    <2> QED
      BY <2>1, <2>2 DEF LInv, TypeOK
  <1>13. CASE ConnectExits
    <2>1. /\ pc = "idle" /\ pc' = "exited" /\ conn' = "none" /\ faults' \in 0 .. MaxFaults
          /\ UNCHANGED <<db, stable, changes, host_table, sequences, collection_class,
                         last_db_id, last_host_id, host_index, result, affected_rows,
                         num_rows_done, rvalue, k, failedAt, dirs, files>>
      BY <1>13, FaultType DEF ConnectExits, env, loaded, pageVars
    <2>2. ~Good'
      BY <2>1 DEF Good
    <2>3. TypeOK'
      BY <1>0, <2>1 DEF TypeOK
    <2> QED
      BY <2>1, <2>2, <2>3 DEF LInv
  <1>2. CASE ConnectFails
    BY <1>0, <1>2, ReturnLInv, FaultType DEF ConnectFails, env
  <1>3. CASE StartFails
    BY <1>0, <1>3, ReturnLInv, FaultType DEF StartFails, env
  <1>4. CASE QueryFails
    <2>1. /\ pc' = "commit" /\ rvalue' = -1 /\ faults' \in 0 .. MaxFaults
          /\ UNCHANGED <<db, stable, changes, conn, last_db_id, last_host_id, host_index,
                         num_rows_done, k, failedAt, dirs, files>>
      BY <1>4, FaultType DEF QueryFails, Then, env, pageVars
    <2>2. ~Good'
      BY <2>1 DEF Good
    <2>3. TypeOK'
      BY <1>0, <2>1 DEF TypeOK
    <2> QED
      BY <2>1, <2>2, <2>3 DEF LInv
  <1>5. CASE LoadHosts
    <2>1. /\ pc = "hosts" /\ pc' = "sequences" /\ rvalue' = 0
          /\ UNCHANGED <<db, stable, changes, conn, collection_class, last_db_id,
                         last_host_id, host_index, result, num_rows_done, k, failedAt, dirs,
                         files, faults>>
      BY <1>5 DEF LoadHosts, Then, env, pageVars
    <2>2. ~Good'
      BY <2>1 DEF Good
    <2>3. TypeOK'
      BY <1>0, <2>1 DEF TypeOK
    <2> QED
      BY <2>1, <2>2, <2>3 DEF LInv
  <1>6. CASE LoadSequences
    <2>1. pc = "sequences" /\ pc' = "classes" /\ rvalue' = 0 /\ faults' = faults
      BY <1>6 DEF LoadSequences, Then
    <2> QED
      BY <1>0, <1>6, <2>1, SequencesLInv DEF LoadSequences
  <1>7. ASSUME NEW m, NEW limit, LoadSequencesCut(m, limit) PROVE LInv'
    <2>1. pc = "sequences" /\ pc' = "classes" /\ rvalue' = 0 /\ Fault
      BY <1>7 DEF LoadSequencesCut, Then
    <2> QED
      BY <1>7, <2>1, FaultType, SequencesLInv DEF LoadSequencesCut
  <1>8. ASSUME NEW s \in Orders, QueryPage(s) PROVE LInv'
    BY <1>8, QueryPageLInv
  <1>9. CASE LoadRow \/ PageDone
    BY <1>9, LoadRowLInv, PageDoneLInv
  <1>10. CASE LoadOids \/ LoadRras \/ LoadGlobals
    BY <1>10, LoadOidsLInv, LoadRrasLInv, LoadGlobalsLInv
  <1>11. CASE Commit
    <2>1. CASE rvalue < 0
      <3>1. Return("query") /\ conn' = "none" /\ UNCHANGED <<db, stable, changes, dirs, files, faults>>
        BY <1>11, <2>1 DEF Commit, env
      <3> QED
        BY <1>0, <3>1, ReturnLInv
    <2>2. CASE ~(rvalue < 0)
      <3>1. /\ pc = "commit" /\ pc' = "files" /\ conn' = "none"
            /\ UNCHANGED <<db, stable, changes, host_table, sequences, collection_class,
                           last_db_id, last_host_id, host_index, result, affected_rows,
                           num_rows_done, rvalue, k, failedAt, dirs, files, faults>>
        BY <1>11, <2>2 DEF Commit, env, loaded, pageVars
      <3>2. rvalue = 0
        BY <1>0, <2>2 DEF TypeOK
      <3>3. collection_class' \in Seq(ClassRec) /\ ~Good'
        BY <3>1, <3>2 DEF LInv, Good
      <3>4. TypeOK'
        BY <1>0, <3>1 DEF TypeOK
      <3> QED
        BY <3>1, <3>3, <3>4 DEF LInv
    <2> QED
      BY <2>1, <2>2
  <1>12. CASE CommitFails
    BY <1>0, <1>12, ReturnLInv, FaultType DEF CommitFails, env
  <1> QED
    BY <1>1, <1>2, <1>3, <1>4, <1>5, <1>6, <1>7, <1>8, <1>9, <1>10, <1>11, <1>12, <1>13
    DEF LoadStep

LEMMA FileStepLInv == LInv /\ FileStep => LInv'
  <1> SUFFICES ASSUME LInv, FileStep PROVE LInv'
    OBVIOUS
  <1>0. /\ TypeOK /\ dirs \subseteq Dir /\ files \subseteq DOMAIN DirOf /\ k \in Nat
        /\ faults \in 0 .. MaxFaults /\ conn \in {"none", "open", "transaction"}
    BY DEF LInv, TypeOK
  <1>1. ASSUME pc = "files", NextFile, dirs' \subseteq Dir, files' \subseteq DOMAIN DirOf,
               faults' \in 0 .. MaxFaults
        PROVE  LInv'
    <2>1. /\ k' = k + 1
          /\ UNCHANGED <<db, stable, changes, pc, conn, host_table, sequences,
                         collection_class, last_db_id, last_host_id, host_index, result,
                         affected_rows, num_rows_done, rvalue, failedAt>>
      BY <1>1 DEF NextFile, env, pageVars
    <2>2. TypeOK'
      BY <1>0, <1>1, <2>1 DEF TypeOK
    <2>3. ~Good' /\ collection_class' \in Seq(ClassRec)
      BY <1>1, <2>1 DEF Good, LInv
    <2> QED
      BY <1>1, <2>1, <2>2, <2>3 DEF LInv
  <1>2. ASSUME pc = "files", k < Len(Wanted)
        PROVE  File \in DOMAIN DirOf /\ recursive_dir_create(DirOf[File]) \subseteq Dir
    <2>1. File \in DOMAIN DirOf /\ DirOf[File] \in Dir
      BY <1>0, <1>2, FileType DEF LInv
    <2> QED
      BY <2>1, DirCreated
  <1>3. CASE KeepFile
    BY <1>0, <1>1, <1>3 DEF KeepFile
  <1>4. CASE CreateFile
    BY <1>0, <1>1, <1>2, <1>4 DEF CreateFile, FileMissing
  <1>5. CASE CreateFault
    BY <1>0, <1>1, <1>2, <1>5, FaultType DEF CreateFault, FileMissing
  <1>6. CASE ClassIncomplete
    <2>1. dirs' \subseteq Dir
      BY <1>0, <1>2, <1>6 DEF ClassIncomplete, FileMissing
    <2> QED
      BY <1>0, <1>6, <2>1, ReturnLInv DEF ClassIncomplete, env
  <1>7. CASE FilesDone
    <2>1. /\ pc = "files" /\ pc' = "tables"
          /\ UNCHANGED <<db, stable, changes, conn, host_table, sequences, collection_class,
                         last_db_id, last_host_id, host_index, result, affected_rows,
                         num_rows_done, rvalue, k, failedAt, dirs, files, faults>>
      BY <1>7 DEF FilesDone, env, loaded, pageVars
    <2>2. TypeOK'
      BY <1>0, <2>1 DEF TypeOK
    <2>3. ~Good' /\ collection_class' \in Seq(ClassRec)
      BY <2>1 DEF Good, LInv
    <2> QED
      BY <2>1, <2>2, <2>3 DEF LInv
  <1>8. CASE Publish
    BY <1>0, <1>8, ReturnLInv DEF Publish, env
  <1> QED
    BY <1>3, <1>4, <1>5, <1>6, <1>7, <1>8 DEF FileStep

LEMMA InitLInv == Init => LInv
  <1> SUFFICES ASSUME Init PROVE LInv
    OBVIOUS
  <1>1. /\ pc = "idle" /\ collection_class = <<>> /\ last_db_id = -1 /\ last_host_id = -1
        /\ result = <<>> /\ num_rows_done = 0
    BY DEF Init, Fresh
  <1>2. TypeOK
    BY BoundsAssumption DEF Init, Fresh, TypeOK
  <1>3. ~Good
    BY <1>1 DEF Good
  <1> QED
    BY <1>1, <1>2, <1>3 DEF LInv

LEMMA NextLInv == LInv /\ [Next]_vars => LInv'
  <1> SUFFICES ASSUME LInv, [Next]_vars PROVE LInv'
    OBVIOUS
  <1>1. CASE LoadStep \/ FileStep
    BY <1>1, LoadStepLInv, FileStepLInv
  <1>2. ASSUME NEW d \in Databases, ChangeDb(d) PROVE LInv'
    <2>1. /\ pc = "idle" /\ changes < MaxChanges /\ db' = d /\ changes' = changes + 1
          /\ UNCHANGED <<stable, pc, conn, host_table, sequences, collection_class,
                         last_db_id, last_host_id, host_index, result, affected_rows,
                         num_rows_done, rvalue, k, failedAt, dirs, files, faults>>
      BY <1>2 DEF ChangeDb, loaded, pageVars
    <2>2. TypeOK'
      BY <1>2, <2>1, BoundsAssumption DEF LInv, TypeOK
    <2>3. ~Good'
      BY <2>1 DEF Good
    <2> QED
      BY <2>1, <2>2, <2>3 DEF LInv
  <1>3. CASE Exited \/ UNCHANGED vars
    <2>1. UNCHANGED <<db, stable, changes, pc, conn, host_table, sequences, collection_class,
                      last_db_id, last_host_id, host_index, result, affected_rows,
                      num_rows_done, rvalue, k, failedAt, dirs, files, faults>>
      BY <1>3 DEF Exited, vars, env, loaded, pageVars
    <2>2. Active' = Active /\ Orders' = Orders
      BY <2>1, SameDb
    <2>3. TypeOK => TypeOK'
      BY <2>1 DEF TypeOK
    <2>4. PagesInv => PagesInv'
      BY <2>1, <2>2 DEF PagesInv
    <2>5. FitsOrders => FitsOrders'
      BY <2>1, <2>2 DEF FitsOrders, Done
    <2>6. Good' => Good
      BY <2>1 DEF Good
    <2> QED
      BY <2>1, <2>3, <2>4, <2>5, <2>6 DEF LInv
  <1> QED
    BY <1>1, <1>2, <1>3 DEF Next

LEMMA AlwaysLInv == Spec => []LInv
  BY InitLInv, NextLInv, PTL DEF Spec

\* The variables keep their types whatever the database holds: rows name no collection
\* without a file name, and recursive_dir_create makes directories of the path only.
THEOREM TypeCorrect == Spec => []TypeOK
  <1>1. LInv => TypeOK
    BY DEF LInv
  <1> QED
    BY <1>1, AlwaysLInv, PTL

\* The ids of classes or hosts.
LEMMA IdsFacts ==
    ASSUME NEW T, NEW g \in Seq(T), NEW f, f = [i \in DOMAIN g |-> g[i].db_id],
           \A i, j \in 1 .. Len(g) : i < j => g[i].db_id < g[j].db_id
    PROVE  Increasing(f) /\ ToSet(f) = {g[i].db_id : i \in 1 .. Len(g)}
  <1>1. DOMAIN g = 1 .. Len(g) /\ Len(g) \in Nat
    OBVIOUS
  <1>2. DOMAIN f = 1 .. Len(g) /\ \A i \in 1 .. Len(g) : f[i] = g[i].db_id
    BY <1>1
  <1>3. Len(f) = Len(g)
    <2>1. f = [i \in 1 .. Len(g) |-> f[i]]
      BY <1>1
    <2>2. \A i \in 1 .. Len(g) : f[i] \in {g[j].db_id : j \in 1 .. Len(g)}
      BY <1>2
    <2> QED
      BY <1>1, <2>1, <2>2, MapType
  <1>4. ASSUME NEW i \in 2 .. Len(f) PROVE f[i - 1] < f[i]
    <2>1. i \in 1 .. Len(g) /\ i - 1 \in 1 .. Len(g) /\ i - 1 < i
      BY <1>1, <1>3
    <2> QED
      BY <1>2, <2>1
  <1>5. ToSet(f) = {g[i].db_id : i \in 1 .. Len(g)}
    BY <1>2 DEF ToSet
  <1> QED
    BY <1>4, <1>5 DEF Increasing

\* Before COMMIT all rows are done.
LEMMA AllDone ==
    ASSUME LInv, pc = "commit", rvalue = 0
    PROVE  /\ collection_class \in Seq(ClassRec)
           /\ Matches(db.coll, stable, Active, sequences, collection_class, host_table, Active)
  <1>1. TypeOK /\ PagesInv /\ FitsOrders /\ collection_class \in Seq(ClassRec)
    BY DEF LInv, Good
  <1>2. PICK s \in Orders : TRUE
    BY <1>1 DEF PagesInv
  <1>3. PICK m \in Nat : m = Cardinality(Active)
    BY <1>1, ActiveFacts DEF TypeOK
  <1>4. result = <<>> /\ num_rows_done = m
    BY <1>1, <1>3 DEF PagesInv
  <1>5. Done = m
    BY <1>4 DEF Done
  <1>6. s \in [1 .. m -> Active] /\ Onto(m, s, Active)
    BY <1>1, <1>3, OrderFacts DEF TypeOK
  <1>7. DoneRows(s, m) = Active
    BY <1>6 DEF DoneRows, Onto
  <1> QED
    BY <1>1, <1>5, <1>7 DEF FitsOrders

LEMMA LoadedFaithful ==
    ASSUME LInv, pc = "commit", rvalue = 0
    PROVE  LoadFaithful
  <1>0. PICK cc \in Seq(ClassRec) : cc = collection_class
    BY AllDone
  <1>1. PICK R : R = db.coll /\ cc = collection_class
    BY <1>0
  <1>2. Matches(R, stable, Active, sequences, cc, host_table, Active)
    BY <1>1, AllDone
  <1>3. ClassesMatch(R, cc, Active)
    BY <1>2 DEF Matches
  <1>4. Increasing(ClassIds) /\ ToSet(ClassIds) = {db.coll[c].class : c \in Active}
    <2>1. ClassIds = [i \in DOMAIN cc |-> cc[i].db_id]
      BY <1>1 DEF ClassIds
    <2>2. \A i, j \in 1 .. Len(cc) : i < j => cc[i].db_id < cc[j].db_id
      BY <1>3 DEF ClassesMatch
    <2>3. Increasing(ClassIds) /\ ToSet(ClassIds) = {cc[i].db_id : i \in 1 .. Len(cc)}
      BY <2>1, <2>2, IdsFacts
    <2>4. {cc[i].db_id : i \in 1 .. Len(cc)} = {R[c].class : c \in Active}
      BY <1>3, SMTT(20) DEF ClassesMatch
    <2> QED
      BY <1>1, <2>3, <2>4
  <1>5. ASSUME NEW i \in DOMAIN collection_class
        PROVE  /\ Increasing(HostIds(i))
               /\ ToSet(HostIds(i)) = {db.coll[c].host : c \in
                     {d \in Active : db.coll[d].class = collection_class[i].db_id}}
               /\ \A j \in DOMAIN collection_class[i].host :
                     LET h == collection_class[i].host[j]
                         rows == RowsOf(collection_class[i].db_id, h.db_id) IN
                     /\ Len(h.collection) = Cardinality(rows)
                     /\ ToSet(h.collection) \subseteq rows
                     /\ stable => ToSet(h.collection) = rows
                     /\ \A c \in ToSet(h.collection) : db.coll[c].mapping # 0 =>
                           ToSet(sequences[db.coll[c].mapping]) \subseteq host_table[h.db_id]
    <2>1. i \in 1 .. Len(cc) /\ cc[i] \in ClassRec
      BY <1>1
    <2>2. PICK hs \in Seq(HostRec) : hs = cc[i].host
      BY <2>1 DEF ClassRec
    <2>3. PICK a : a = cc[i].db_id
      OBVIOUS
    <2>4. /\ HostsMatch(R, cc[i], Active)
          /\ \A j \in 1 .. Len(hs) : /\ CollMatch(R, stable, Active, a, hs[j], Active)
                                     /\ TabMatch(R, sequences, host_table, hs[j])
      BY <1>2, <2>1, <2>2, <2>3 DEF Matches
    <2>5. /\ \A j \in 1 .. Len(hs) : \E c \in Active : R[c].class = a /\ R[c].host = hs[j].db_id
          /\ \A c \in Active : R[c].class = a => \E j \in 1 .. Len(hs) : hs[j].db_id = R[c].host
          /\ \A x, y \in 1 .. Len(hs) : x < y => hs[x].db_id < hs[y].db_id
      BY <2>2, <2>3, <2>4 DEF HostsMatch
    <2>6. /\ Increasing(HostIds(i))
          /\ ToSet(HostIds(i)) = {R[c].host : c \in {d \in Active : R[d].class = a}}
      <3>1. HostIds(i) = [j \in DOMAIN hs |-> hs[j].db_id]
        BY <1>1, <2>2 DEF HostIds
      <3>2. Increasing(HostIds(i)) /\ ToSet(HostIds(i)) = {hs[j].db_id : j \in 1 .. Len(hs)}
        <4>1. \A x, y \in 1 .. Len(hs) : x < y => hs[x].db_id < hs[y].db_id
          BY <2>5
        <4>2. PICK f : f = HostIds(i)
          OBVIOUS
        <4>3. Increasing(f) /\ ToSet(f) = {hs[j].db_id : j \in 1 .. Len(hs)}
          <5>1. f = [j \in DOMAIN hs |-> hs[j].db_id]
            BY <3>1, <4>2, Zenon
          <5> QED
            BY <4>1, <5>1, IdsFacts, Zenon
        <4> QED
          BY <4>2, <4>3, Zenon
      <3>3. {hs[j].db_id : j \in 1 .. Len(hs)} = {R[c].host : c \in {d \in Active : R[d].class = a}}
        <4> DEFINE K == {d \in Active : R[d].class = a}
        <4>1. /\ \A j \in 1 .. Len(hs) : \E c \in K : R[c].host = hs[j].db_id
              /\ \A c \in K : \E j \in 1 .. Len(hs) : hs[j].db_id = R[c].host
          BY <2>5, Zenon
        <4> HIDE DEF K
        <4>2. {hs[j].db_id : j \in 1 .. Len(hs)} = {R[c].host : c \in K}
          BY <4>1
        <4> QED
          BY <4>2 DEF K
      <3> QED
        BY <3>2, <3>3
    <2>7. ASSUME NEW j \in DOMAIN hs, NEW h, h = hs[j], NEW rows, rows = RowsOf(a, h.db_id)
          PROVE  /\ Len(h.collection) = Cardinality(rows)
                 /\ ToSet(h.collection) \subseteq rows
                 /\ stable => ToSet(h.collection) = rows
                 /\ \A c \in ToSet(h.collection) : R[c].mapping # 0 =>
                       ToSet(sequences[R[c].mapping]) \subseteq host_table[h.db_id]
      <3>1. j \in 1 .. Len(hs) /\ h \in HostRec
        BY <2>7
      <3>2. rows = KeyRows(R, Active, a, h.db_id)
        BY <1>1, <2>7 DEF RowsOf, KeyRows
      <3>3. CollMatch(R, stable, Active, a, h, Active) /\ TabMatch(R, sequences, host_table, h)
        BY <2>4, <2>7, <3>1
      <3>4. PICK oc \in Seq(DOMAIN DirOf) : oc = h.collection
        BY <3>1 DEF HostRec
      <3>5. ToSet(oc) = {oc[l] : l \in 1 .. Len(oc)}
        BY DEF ToSet
      <3>6. /\ Len(oc) = Cardinality(rows)
            /\ \A l \in 1 .. Len(oc) : oc[l] \in rows
            /\ stable => \A c \in rows : \E l \in 1 .. Len(oc) : oc[l] = c
        BY <3>2, <3>3, <3>4 DEF CollMatch
      <3>7. \A l \in 1 .. Len(oc) : R[oc[l]].mapping # 0 =>
               ToSet(sequences[R[oc[l]].mapping]) \subseteq host_table[h.db_id]
        BY <3>3, <3>4 DEF TabMatch
      <3>8. ToSet(oc) \subseteq rows /\ (stable => rows \subseteq ToSet(oc))
        BY <3>5, <3>6
      <3>9. \A c \in ToSet(oc) : R[c].mapping # 0 =>
               ToSet(sequences[R[c].mapping]) \subseteq host_table[h.db_id]
        BY <3>5, <3>7
      <3> QED
        BY <3>4, <3>6, <3>8, <3>9
    <2> QED
      BY <1>1, <2>2, <2>3, <2>6, <2>7, ZenonT(30)
  <1> QED
    BY <1>4, <1>5 DEF LoadFaithful

\* For every database, page size and choice of orders, what load_config has before COMMIT
\* is what one query without pages would give.
THEOREM LoadIsFaithful == Spec => []LoadFaithful
  <1>1. LInv => LoadFaithful
    BY LoadedFaithful DEF LoadFaithful
  <1> QED
    BY <1>1, AlwaysLInv, PTL
=============================================================================
