--------------------------- MODULE RRDWriterProofs ---------------------------
(***************************************************************************)
(* Proofs about RRDWriter, for any files, templates, queues and hash       *)
(* function, and whether or not waits are interrupted.                     *)
(***************************************************************************)
EXTENDS RRDWriter, QueueFacts, SequenceTheorems, TLAPS

\* The constants' assumptions, cited together.
LEMMA Constants ==
    /\ QueueOf \in [File -> Writer]
    /\ MaxTime \in Nat /\ MaxPush \in Nat /\ MaxDs \in Nat
    /\ UintRange \in Nat /\ MaxDs < UintRange
    /\ ValueCounts \subseteq Nat \ {0}
    /\ NoFile \notin File /\ NoDatum \notin Datum
  BY QueueOfAssumption, BoundsAssumption, ValueCountsAssumption, NoNamesAssumption

\* Interning a name keeps map and table inverse to each other, keeps what the
\* table said of every old id, and yields an id that names the name.
LEMMA InternFacts ==
    ASSUME NEW Names, NEW D \in SUBSET Names, NEW map \in [D -> Nat],
           NEW table \in Seq(Names), NEW x \in Names, Interned(map, table)
    PROVE  /\ TableWith(map, table, x) \in Seq(Names)
           /\ DOMAIN MapWith(map, table, x) \subseteq Names
           /\ MapWith(map, table, x) \in [DOMAIN MapWith(map, table, x) -> Nat]
           /\ Interned(MapWith(map, table, x), TableWith(map, table, x))
           /\ Len(table) \in Nat
           /\ Len(TableWith(map, table, x)) \in Nat
           /\ Len(table) <= Len(TableWith(map, table, x))
           /\ IdOf(map, table, x) \in 0 .. Len(TableWith(map, table, x)) - 1
           /\ TableWith(map, table, x)[IdOf(map, table, x) + 1] = x
  <1> DEFINE m == MapWith(map, table, x)
             t == TableWith(map, table, x)
  <1>1. Len(table) \in Nat /\ DOMAIN map = D
    OBVIOUS
  <1>2. CASE x \in DOMAIN map
    <2>1. t = table
      BY <1>2 DEF TableWith
    <2>2. m = map
      BY <1>2 DEF MapWith, IdOf
    <2>3. IdOf(map, table, x) = map[x]
      BY <1>2 DEF IdOf
    <2> QED
      BY <1>1, <1>2, <2>1, <2>2, <2>3 DEF Interned
  <1>3. CASE x \notin DOMAIN map
    <2>1. t = Append(table, x)
      BY <1>3 DEF TableWith
    <2>2. /\ t \in Seq(Names) /\ Len(t) = Len(table) + 1
          /\ \A i \in 1 .. Len(table) : t[i] = table[i]
          /\ t[Len(table) + 1] = x
      BY <2>1, PushFacts
    <2>3. /\ DOMAIN m = DOMAIN map \cup {x}
          /\ \A y \in DOMAIN map : m[y] = map[y]
          /\ m[x] = Len(table)
          /\ m \in [DOMAIN m -> Nat]
      BY <1>1, <1>3 DEF MapWith, IdOf
    <2>4. IdOf(map, table, x) = Len(table)
      BY <1>3 DEF IdOf
    <2>5. Interned(m, t)
      <3> HIDE DEF m, t
      <3>1. \A y \in DOMAIN map : map[y] \in 0 .. Len(table) - 1 /\ table[map[y] + 1] = y
        BY DEF Interned
      <3>2. \A i \in 1 .. Len(table) : table[i] \in DOMAIN map /\ map[table[i]] = i - 1
        BY DEF Interned
      <3>3. \A y \in DOMAIN m : m[y] \in 0 .. Len(t) - 1 /\ t[m[y] + 1] = y
        <4> SUFFICES ASSUME NEW y \in DOMAIN m
                     PROVE  m[y] \in 0 .. Len(t) - 1 /\ t[m[y] + 1] = y
          OBVIOUS
        <4>1. CASE y = x
          BY <4>1, <1>1, <2>2, <2>3
        <4>2. CASE y \in DOMAIN map
          <5>1. m[y] = map[y] /\ map[y] \in 0 .. Len(table) - 1 /\ table[map[y] + 1] = y
            BY <4>2, <2>3, <3>1
          <5>2. map[y] + 1 \in 1 .. Len(table)
            BY <5>1, <1>1
          <5>3. t[map[y] + 1] = y
            BY <5>1, <5>2, <2>2
          <5>4. m[y] \in 0 .. Len(t) - 1
            BY <5>1, <1>1, <2>2
          <5> QED
            BY <5>1, <5>3, <5>4
        <4> QED
          BY <4>1, <4>2, <2>3
      <3>4. \A i \in 1 .. Len(t) : t[i] \in DOMAIN m /\ m[t[i]] = i - 1
        <4> SUFFICES ASSUME NEW i \in 1 .. Len(t)
                     PROVE  t[i] \in DOMAIN m /\ m[t[i]] = i - 1
          OBVIOUS
        <4>1. CASE i = Len(table) + 1
          BY <4>1, <1>1, <2>2, <2>3
        <4>2. CASE i \in 1 .. Len(table)
          <5>1. t[i] = table[i] /\ table[i] \in DOMAIN map /\ map[table[i]] = i - 1
            BY <4>2, <2>2, <3>2
          <5> QED
            BY <5>1, <2>3
        <4> QED
          BY <4>1, <4>2, <1>1, <2>2
      <3> QED
        BY <3>3, <3>4 DEF Interned
    <2> QED
      BY <1>1, <2>2, <2>3, <2>4, <2>5
  <1> QED
    BY <1>2, <1>3

-----------------------------------------------------------------------------
LEMMA InitIInv == Init => IInv
  <1> SUFFICES ASSUME Init PROVE IInv
    OBVIOUS
  <1> USE Constants DEF Init
  <1>1. TypeOK
    <2>1. file_info \in Seq(File) /\ rrd_template \in Seq(Template)
      BY EmptySeq
    <2>2. data_queue \in [Writer -> Seq(Datum)]
      BY EmptySeq
    <2>3. /\ sem \in [Writer -> Nat] /\ disk \in [File -> Nat] /\ pushes \in 0 .. MaxPush
          /\ wpc \in [Writer -> {"wait", "token", "lookup", "update"}]
          /\ rrd_datum \in [Writer -> Datum \cup {NoDatum}] /\ pushing \in Datum \cup {NoDatum}
          /\ filename \in [Writer -> File \cup {NoFile}]
          /\ template_str \in [Writer -> Template \cup {NoFile}]
          /\ to_be_flushed \in [Writer -> File \cup {NoFile}]
      OBVIOUS
    <2>4. eintr \in [Writer -> BOOLEAN] /\ running \in BOOLEAN
      OBVIOUS
    <2>5. /\ DOMAIN filename_id_map \subseteq File
          /\ filename_id_map \in [DOMAIN filename_id_map -> Nat]
          /\ DOMAIN template_id_map \subseteq Template
          /\ template_id_map \in [DOMAIN template_id_map -> Nat]
      OBVIOUS
    <2> QED
      BY <2>1, <2>2, <2>3, <2>4, <2>5 DEF TypeOK
  <1>2. IdsResolve
    BY DEF IdsResolve, Interned
  <1>3. TokensCovered /\ QueuedWhereHashed /\ WriterOwnsFiles
    BY DEF TokensCovered, QueuedWhereHashed, WriterOwnsFiles
  <1> QED
    BY <1>1, <1>2, <1>3 DEF IInv

\* An id in range names a file of some queue and a template.
LEMMA IdsName ==
    ASSUME TypeOK, NEW d, IdsInRange(d)
    PROVE  /\ file_info[d.filename_id + 1] \in File
           /\ rrd_template[d.template_id + 1] \in Template
           /\ QueueIndex(d) \in Writer
  <1>1. file_info \in Seq(File) /\ rrd_template \in Seq(Template)
    BY DEF TypeOK
  <1>2. Len(file_info) \in Nat /\ Len(rrd_template) \in Nat
    BY <1>1
  <1>3. d.filename_id + 1 \in 1 .. Len(file_info) /\ d.template_id + 1 \in 1 .. Len(rrd_template)
    BY <1>2 DEF IdsInRange
  <1>4. file_info[d.filename_id + 1] \in File /\ rrd_template[d.template_id + 1] \in Template
    BY <1>1, <1>3, ElementOfSeq
  <1> QED
    BY <1>4, Constants DEF QueueIndex

LEMMA InternFilename ==
    ASSUME IInv, NEW f \in File
    PROVE  /\ TableWith(filename_id_map, file_info, f) \in Seq(File)
           /\ DOMAIN MapWith(filename_id_map, file_info, f) \subseteq File
           /\ MapWith(filename_id_map, file_info, f)
                \in [DOMAIN MapWith(filename_id_map, file_info, f) -> Nat]
           /\ Interned(MapWith(filename_id_map, file_info, f), TableWith(filename_id_map, file_info, f))
           /\ Len(file_info) \in Nat
           /\ Len(TableWith(filename_id_map, file_info, f)) \in Nat
           /\ Len(file_info) <= Len(TableWith(filename_id_map, file_info, f))
           /\ \A i \in 1 .. Len(file_info) : TableWith(filename_id_map, file_info, f)[i] = file_info[i]
           /\ IdOf(filename_id_map, file_info, f) \in 0 .. Len(TableWith(filename_id_map, file_info, f)) - 1
  <1>1. /\ file_info \in Seq(File) /\ DOMAIN filename_id_map \subseteq File
        /\ filename_id_map \in [DOMAIN filename_id_map -> Nat]
        /\ DOMAIN filename_id_map \in SUBSET File
        /\ Interned(filename_id_map, file_info)
    BY DEF IInv, TypeOK, IdsResolve
  <1>2. /\ TableWith(filename_id_map, file_info, f) \in Seq(File) /\ DOMAIN MapWith(filename_id_map, file_info, f) \subseteq File
        /\ MapWith(filename_id_map, file_info, f) \in [DOMAIN MapWith(filename_id_map, file_info, f) -> Nat]
    BY <1>1, InternFacts
  <1>3. Interned(MapWith(filename_id_map, file_info, f), TableWith(filename_id_map, file_info, f))
    BY <1>1, InternFacts
  <1>4. Len(file_info) \in Nat /\ Len(TableWith(filename_id_map, file_info, f)) \in Nat /\ Len(file_info) <= Len(TableWith(filename_id_map, file_info, f))
    BY <1>1, InternFacts
  <1>5. \A i \in 1 .. Len(file_info) : TableWith(filename_id_map, file_info, f)[i] = file_info[i]
    BY <1>1, PushFacts DEF TableWith
  <1>6. IdOf(filename_id_map, file_info, f) \in 0 .. Len(TableWith(filename_id_map, file_info, f)) - 1
    BY <1>1, InternFacts
  <1> QED
    BY <1>2, <1>3, <1>4, <1>5, <1>6

LEMMA InternTemplate ==
    ASSUME IInv, NEW t \in Template
    PROVE  /\ TableWith(template_id_map, rrd_template, t) \in Seq(Template)
           /\ DOMAIN MapWith(template_id_map, rrd_template, t) \subseteq Template
           /\ MapWith(template_id_map, rrd_template, t)
                \in [DOMAIN MapWith(template_id_map, rrd_template, t) -> Nat]
           /\ Interned(MapWith(template_id_map, rrd_template, t), TableWith(template_id_map, rrd_template, t))
           /\ Len(rrd_template) \in Nat
           /\ Len(TableWith(template_id_map, rrd_template, t)) \in Nat
           /\ Len(rrd_template) <= Len(TableWith(template_id_map, rrd_template, t))
           /\ \A i \in 1 .. Len(rrd_template) : TableWith(template_id_map, rrd_template, t)[i] = rrd_template[i]
           /\ IdOf(template_id_map, rrd_template, t) \in 0 .. Len(TableWith(template_id_map, rrd_template, t)) - 1
  <1>1. /\ rrd_template \in Seq(Template) /\ DOMAIN template_id_map \subseteq Template
        /\ template_id_map \in [DOMAIN template_id_map -> Nat]
        /\ DOMAIN template_id_map \in SUBSET Template
        /\ Interned(template_id_map, rrd_template)
    BY DEF IInv, TypeOK, IdsResolve
  <1>2. /\ TableWith(template_id_map, rrd_template, t) \in Seq(Template) /\ DOMAIN MapWith(template_id_map, rrd_template, t) \subseteq Template
        /\ MapWith(template_id_map, rrd_template, t) \in [DOMAIN MapWith(template_id_map, rrd_template, t) -> Nat]
    BY <1>1, InternFacts
  <1>3. Interned(MapWith(template_id_map, rrd_template, t), TableWith(template_id_map, rrd_template, t))
    BY <1>1, InternFacts
  <1>4. Len(rrd_template) \in Nat /\ Len(TableWith(template_id_map, rrd_template, t)) \in Nat /\ Len(rrd_template) <= Len(TableWith(template_id_map, rrd_template, t))
    BY <1>1, InternFacts
  <1>5. \A i \in 1 .. Len(rrd_template) : TableWith(template_id_map, rrd_template, t)[i] = rrd_template[i]
    BY <1>1, PushFacts DEF TableWith
  <1>6. IdOf(template_id_map, rrd_template, t) \in 0 .. Len(TableWith(template_id_map, rrd_template, t)) - 1
    BY <1>1, InternFacts
  <1> QED
    BY <1>2, <1>3, <1>4, <1>5, <1>6

\* The tables only grow at their end: ids handed out earlier keep their meaning.
LEMMA PushBeginIInv ==
    ASSUME NEW f \in File, NEW t \in Template, NEW time \in Time, NEW n \in ValueCounts,
           IInv, PushBegin(f, t, time, n)
    PROVE  IInv'
  <1> USE Constants DEF PushBegin, queueVars, writerVars
  <1>1. /\ file_info' \in Seq(File)
        /\ DOMAIN filename_id_map' \subseteq File
        /\ filename_id_map' \in [DOMAIN filename_id_map' -> Nat]
        /\ Interned(filename_id_map, file_info)'
        /\ Len(file_info) \in Nat /\ Len(file_info') \in Nat
        /\ Len(file_info) <= Len(file_info')
        /\ \A i \in 1 .. Len(file_info) : file_info'[i] = file_info[i]
        /\ IdOf(filename_id_map, file_info, f) \in 0 .. Len(file_info') - 1
    <2> DEFINE m == MapWith(filename_id_map, file_info, f)
               tab == TableWith(filename_id_map, file_info, f)
    <2>2. /\ tab \in Seq(File) /\ DOMAIN m \subseteq File /\ m \in [DOMAIN m -> Nat]
          /\ Interned(m, tab)
          /\ Len(file_info) \in Nat /\ Len(tab) \in Nat /\ Len(file_info) <= Len(tab)
          /\ \A i \in 1 .. Len(file_info) : tab[i] = file_info[i]
          /\ IdOf(filename_id_map, file_info, f) \in 0 .. Len(tab) - 1
      BY InternFilename
    <2>3. filename_id_map' = m /\ file_info' = tab
      OBVIOUS
    <2> HIDE DEF m, tab
    <2>4. Interned(filename_id_map, file_info)'
      BY <2>2, <2>3 DEF Interned
    <2> QED
      BY <2>2, <2>3, <2>4
  <1>2. /\ rrd_template' \in Seq(Template)
        /\ DOMAIN template_id_map' \subseteq Template
        /\ template_id_map' \in [DOMAIN template_id_map' -> Nat]
        /\ Interned(template_id_map, rrd_template)'
        /\ Len(rrd_template) \in Nat /\ Len(rrd_template') \in Nat
        /\ Len(rrd_template) <= Len(rrd_template')
        /\ IdOf(template_id_map, rrd_template, t) \in 0 .. Len(rrd_template') - 1
    <2> DEFINE m == MapWith(template_id_map, rrd_template, t)
               tab == TableWith(template_id_map, rrd_template, t)
    <2>2. /\ tab \in Seq(Template) /\ DOMAIN m \subseteq Template /\ m \in [DOMAIN m -> Nat]
          /\ Interned(m, tab)
          /\ Len(rrd_template) \in Nat /\ Len(tab) \in Nat /\ Len(rrd_template) <= Len(tab)
          /\ \A i \in 1 .. Len(rrd_template) : tab[i] = rrd_template[i]
          /\ IdOf(template_id_map, rrd_template, t) \in 0 .. Len(tab) - 1
      BY InternTemplate
    <2>3. template_id_map' = m /\ rrd_template' = tab
      OBVIOUS
    <2> HIDE DEF m, tab
    <2>4. Interned(template_id_map, rrd_template)'
      BY <2>2, <2>3 DEF Interned
    <2> QED
      BY <2>2, <2>3, <2>4
  <1>3. string_to_long_doubles(n) \in NumDs
    <2>1. UintRange > 0 /\ n \in Nat
      OBVIOUS
    <2>2. (-1) % UintRange \in 0 .. UintRange - 1 /\ n % UintRange \in 0 .. UintRange - 1
      BY <2>1
    <2> QED
      BY <2>1, <2>2 DEF string_to_long_doubles, NumDs
  <1>4. pushing' \in Datum
    <2>1. /\ IdOf(filename_id_map, file_info, f) \in Nat
          /\ IdOf(template_id_map, rrd_template, t) \in Nat
      BY <1>1, <1>2
    <2> QED
      BY <1>3, <2>1 DEF Datum
  <1>5. TypeOK'
    <2>1. pushes' \in 0 .. MaxPush
      BY DEF IInv, TypeOK
    <2> QED
      BY <1>1, <1>2, <1>4, <2>1 DEF IInv, TypeOK
  <1>6. \A d : IdsInRange(d) => IdsInRange(d)'
    <2>1. /\ Len(file_info) \in Nat /\ Len(file_info') \in Nat
          /\ Len(file_info) <= Len(file_info')
          /\ Len(rrd_template) \in Nat /\ Len(rrd_template') \in Nat
          /\ Len(rrd_template) <= Len(rrd_template')
      BY <1>1, <1>2
    <2> HIDE DEF PushBegin
    <2> SUFFICES ASSUME NEW d,
                        d.filename_id \in 0 .. Len(file_info) - 1,
                        d.template_id \in 0 .. Len(rrd_template) - 1
                 PROVE  /\ d.filename_id \in 0 .. Len(file_info') - 1
                        /\ d.template_id \in 0 .. Len(rrd_template') - 1
      BY DEF IdsInRange
    <2>2. d.filename_id \in 0 .. Len(file_info') - 1
      BY ONLY <2>1, d.filename_id \in 0 .. Len(file_info) - 1
    <2>3. d.template_id \in 0 .. Len(rrd_template') - 1
      BY ONLY <2>1, d.template_id \in 0 .. Len(rrd_template) - 1
    <2> QED
      BY <2>2, <2>3
  <1>7. IdsInRange(pushing)'
    BY <1>1, <1>2 DEF IdsInRange
  <1>8. IdsResolve'
    <2>1. \A w \in Writer :
             /\ \A i \in 1 .. Len(data_queue[w]) : IdsInRange(data_queue[w][i])
             /\ wpc[w] = "lookup" => IdsInRange(rrd_datum[w])
      BY DEF IInv, IdsResolve
    <2>2. (\A w \in Writer :
             /\ \A i \in 1 .. Len(data_queue[w]) : IdsInRange(data_queue[w][i])
             /\ wpc[w] = "lookup" => IdsInRange(rrd_datum[w]))'
      BY <1>6, <2>1
    <2> QED
      BY <1>1, <1>2, <1>7, <2>2 DEF IdsResolve
  <1>9. \A d : IdsInRange(d) => QueueIndex(d)' = QueueIndex(d)
    <2> SUFFICES ASSUME NEW d, IdsInRange(d) PROVE QueueIndex(d)' = QueueIndex(d)
      OBVIOUS
    <2>1. d.filename_id + 1 \in 1 .. Len(file_info)
      BY <1>1 DEF IdsInRange
    <2>2. file_info'[d.filename_id + 1] = file_info[d.filename_id + 1]
      BY <1>1, <2>1
    <2> QED
      BY <2>2 DEF QueueIndex
  <1>10. QueuedWhereHashed'
    BY <1>9 DEF IInv, IdsResolve, QueuedWhereHashed
  <1>11. TokensCovered' /\ WriterOwnsFiles'
    BY DEF IInv, TokensCovered, WriterOwnsFiles
  <1> QED
    BY <1>5, <1>8, <1>10, <1>11 DEF IInv

\* Steps that leave the tables alone leave every id its meaning.
LEMMA SameIds ==
    ASSUME UNCHANGED internVars
    PROVE  /\ \A d : (IdsInRange(d) <=> IdsInRange(d)') /\ QueueIndex(d)' = QueueIndex(d)
           /\ Interned(filename_id_map, file_info) <=> Interned(filename_id_map, file_info)'
           /\ Interned(template_id_map, rrd_template) <=> Interned(template_id_map, rrd_template)'
  BY DEF internVars, IdsInRange, QueueIndex, Interned

LEMMA PushEndIInv == IInv /\ PushEnd => IInv'
  <1> SUFFICES ASSUME IInv, PushEnd PROVE IInv'
    OBVIOUS
  <1> USE Constants DEF PushEnd, internVars, writerVars
  <1> DEFINE q == QueueIndex(pushing)
  <1>1. pushing \in Datum /\ IdsInRange(pushing)
    BY DEF IInv, TypeOK, IdsResolve
  <1>2. q \in Writer
    BY <1>1, IdsName DEF IInv
  <1>3. data_queue[q] \in Seq(Datum)
    BY <1>2 DEF IInv, TypeOK
  <1>4. /\ data_queue'[q] \in Seq(Datum)
        /\ Len(data_queue'[q]) = Len(data_queue[q]) + 1
        /\ \A i \in 1 .. Len(data_queue[q]) : data_queue'[q][i] = data_queue[q][i]
        /\ data_queue'[q][Len(data_queue[q]) + 1] = pushing
        /\ Len(data_queue[q]) \in Nat
    BY <1>1, <1>2, <1>3, PushFacts DEF IInv, TypeOK
  <1>5. \A w \in Writer : w # q => data_queue'[w] = data_queue[w] /\ sem'[w] = sem[w]
    BY <1>2 DEF IInv, TypeOK
  <1>6. TypeOK'
    <2>1. data_queue' \in [Writer -> Seq(Datum)]
      <3>1. Append(data_queue[q], pushing) \in Seq(Datum)
        BY <1>1, <1>3, PushFacts
      <3>2. data_queue \in [Writer -> Seq(Datum)]
            /\ data_queue' = [data_queue EXCEPT ![q] = Append(data_queue[q], pushing)]
        BY DEF IInv, TypeOK
      <3> QED
        BY ONLY <3>1, <3>2
    <2>2. sem' \in [Writer -> Nat]
      <3>1. sem \in [Writer -> Nat] /\ sem' = [sem EXCEPT ![q] = sem[q] + 1]
        BY DEF IInv, TypeOK
      <3>2. sem[q] + 1 \in Nat
        BY <1>2, <3>1
      <3> QED
        BY ONLY <3>1, <3>2
    <2>3. pushing' \in Datum \cup {NoDatum}
      OBVIOUS
    <2> QED
      BY <2>1, <2>2, <2>3 DEF IInv, TypeOK
  <1>7. \A d : (IdsInRange(d) <=> IdsInRange(d)') /\ QueueIndex(d)' = QueueIndex(d)
    BY DEF IdsInRange, QueueIndex
  <1>8. \A w \in Writer : \A i \in 1 .. Len(data_queue'[w]) :
           IdsInRange(data_queue'[w][i]) /\ QueueIndex(data_queue'[w][i]) = w
    <2> SUFFICES ASSUME NEW w \in Writer, NEW i \in 1 .. Len(data_queue'[w])
                 PROVE  IdsInRange(data_queue'[w][i]) /\ QueueIndex(data_queue'[w][i]) = w
      OBVIOUS
    <2>1. \A j \in 1 .. Len(data_queue[w]) :
             IdsInRange(data_queue[w][j]) /\ QueueIndex(data_queue[w][j]) = w
      BY DEF IInv, IdsResolve, QueuedWhereHashed
    <2>2. CASE w # q
      BY <1>5, <2>1, <2>2
    <2>3. CASE w = q
      <3>1. i \in 1 .. Len(data_queue[q]) \/ i = Len(data_queue[q]) + 1
        BY <1>4, <2>3
      <3> QED
        BY <1>1, <1>4, <2>1, <2>3, <3>1
    <2> QED
      BY <2>2, <2>3
  <1>9. IdsResolve'
    BY <1>7, <1>8, SameIds DEF IInv, IdsResolve
  <1>10. QueuedWhereHashed'
    BY <1>7, <1>8 DEF IInv, QueuedWhereHashed
  <1>11. TokensCovered'
    BY <1>2, <1>4, <1>5 DEF IInv, TypeOK, TokensCovered
  <1>12. WriterOwnsFiles'
    BY DEF IInv, WriterOwnsFiles
  <1> QED
    BY <1>6, <1>9, <1>10, <1>11, <1>12 DEF IInv

-----------------------------------------------------------------------------
LEMMA WriterTimeoutIInv ==
    ASSUME NEW w \in Writer, IInv, WriterTimeout(w)
    PROVE  IInv'
  <1> USE Constants DEF WriterTimeout, internVars, queueVars
  <1>1. eintr' \in [Writer -> BOOLEAN]
    BY DEF IInv, TypeOK
  <1>2. TypeOK'
    BY <1>1 DEF IInv, TypeOK
  <1>3. IdsResolve' /\ QueuedWhereHashed'
    BY SameIds DEF IInv, IdsResolve, QueuedWhereHashed
  <1>4. TokensCovered'
    BY DEF IInv, TokensCovered
  <1>5. WriterOwnsFiles'
    BY DEF IInv, TypeOK, WriterOwnsFiles
  <1> QED
    BY <1>2, <1>3, <1>4, <1>5 DEF IInv

LEMMA WriterInterruptedIInv ==
    ASSUME NEW w \in Writer, IInv, WriterInterrupted(w)
    PROVE  IInv'
  <1> USE Constants DEF WriterInterrupted, internVars, queueVars
  <1>1. eintr' \in [Writer -> BOOLEAN]
    BY DEF IInv, TypeOK
  <1>2. TypeOK'
    BY <1>1 DEF IInv, TypeOK
  <1>3. IdsResolve' /\ QueuedWhereHashed'
    BY SameIds DEF IInv, IdsResolve, QueuedWhereHashed
  <1>4. TokensCovered'
    BY DEF IInv, TokensCovered
  <1>5. WriterOwnsFiles'
    BY DEF IInv, TypeOK, WriterOwnsFiles
  <1> QED
    BY <1>2, <1>3, <1>4, <1>5 DEF IInv

LEMMA WriterTokenIInv ==
    ASSUME NEW w \in Writer, IInv, WriterToken(w)
    PROVE  IInv'
  <1> USE Constants DEF WriterToken, internVars
  <1>1. TypeOK'
    BY DEF IInv, TypeOK
  <1>2. \A v \in Writer : wpc'[v] \in {"lookup", "update"} => wpc'[v] = wpc[v]
    BY DEF IInv, TypeOK
  <1>3. IdsResolve' /\ QueuedWhereHashed'
    BY <1>2, SameIds DEF IInv, IdsResolve, QueuedWhereHashed
  <1>4. TokensCovered'
    BY DEF IInv, TypeOK, TokensCovered
  <1>5. WriterOwnsFiles'
    BY <1>2 DEF IInv, WriterOwnsFiles
  <1> QED
    BY <1>1, <1>3, <1>4, <1>5 DEF IInv

LEMMA WriterPopIInv ==
    ASSUME NEW w \in Writer, IInv, WriterPop(w)
    PROVE  IInv'
  <1> USE Constants DEF WriterPop, internVars
  <1>1. data_queue[w] \in Seq(Datum)
    BY DEF IInv, TypeOK
  <1>2. /\ data_queue'[w] \in Seq(Datum)
        /\ Len(data_queue[w]) \in Nat /\ Len(data_queue[w]) > 0
        /\ Len(data_queue'[w]) = Len(data_queue[w]) - 1
        /\ \A i \in 1 .. Len(data_queue[w]) - 1 : data_queue'[w][i] = data_queue[w][i + 1]
        /\ Head(data_queue[w]) = data_queue[w][1]
        /\ Head(data_queue[w]) \in Datum
    BY <1>1, PopFacts DEF IInv, TypeOK
  <1>3. rrd_datum'[w] = data_queue[w][1] /\ rrd_datum'[w] \in Datum /\ wpc'[w] = "lookup"
    BY <1>2 DEF IInv, TypeOK
  <1>4. \A v \in Writer : v # w =>
           data_queue'[v] = data_queue[v] /\ rrd_datum'[v] = rrd_datum[v] /\ wpc'[v] = wpc[v]
    BY DEF IInv, TypeOK
  <1>5. TypeOK'
    BY <1>2 DEF IInv, TypeOK
  <1>6. \A i \in 1 .. Len(data_queue[w]) :
           IdsInRange(data_queue[w][i]) /\ QueueIndex(data_queue[w][i]) = w
    BY DEF IInv, IdsResolve, QueuedWhereHashed
  <1>7. /\ IdsInRange(rrd_datum'[w]) /\ QueueIndex(rrd_datum'[w]) = w
        /\ \A i \in 1 .. Len(data_queue'[w]) :
              IdsInRange(data_queue'[w][i]) /\ QueueIndex(data_queue'[w][i]) = w
    BY <1>2, <1>3, <1>6
  <1>8. IdsResolve'
    BY <1>4, <1>7, SameIds DEF IInv, IdsResolve
  <1>9. QueuedWhereHashed'
    BY <1>3, <1>4, <1>7, SameIds DEF IInv, QueuedWhereHashed
  <1>10. TokensCovered'
    BY <1>2, <1>3, <1>4 DEF IInv, TypeOK, TokensCovered
  <1>11. WriterOwnsFiles'
    BY <1>3, <1>4 DEF IInv, WriterOwnsFiles
  <1> QED
    BY <1>5, <1>8, <1>9, <1>10, <1>11 DEF IInv

LEMMA WriterLookupIInv ==
    ASSUME NEW w \in Writer, IInv, WriterLookup(w)
    PROVE  IInv'
  <1> USE Constants DEF WriterLookup, internVars, queueVars
  <1>1. rrd_datum[w] \in Datum /\ IdsInRange(rrd_datum[w]) /\ QueueIndex(rrd_datum[w]) = w
    BY DEF IInv, TypeOK, IdsResolve, QueuedWhereHashed
  <1>2. /\ file_info[rrd_datum[w].filename_id + 1] \in File
        /\ rrd_template[rrd_datum[w].template_id + 1] \in Template
    BY <1>1, IdsName DEF IInv
  <1>3. /\ filename'[w] \in File /\ QueueOf[filename'[w]] = w /\ wpc'[w] = "update"
        /\ \A v \in Writer : v # w => filename'[v] = filename[v] /\ wpc'[v] = wpc[v]
    BY <1>1, <1>2 DEF IInv, TypeOK, QueueIndex
  <1>4. TypeOK'
    BY <1>2 DEF IInv, TypeOK
  <1>5. IdsResolve'
    BY <1>3, SameIds DEF IInv, IdsResolve
  <1>6. QueuedWhereHashed'
    BY <1>1, <1>3, SameIds DEF IInv, QueuedWhereHashed
  <1>7. TokensCovered'
    BY <1>3 DEF IInv, TypeOK, TokensCovered
  <1>8. WriterOwnsFiles'
    BY <1>3 DEF IInv, WriterOwnsFiles
  <1> QED
    BY <1>4, <1>5, <1>6, <1>7, <1>8 DEF IInv

LEMMA WriterFailIInv ==
    ASSUME NEW w \in Writer, IInv, WriterFail(w)
    PROVE  IInv'
  <1> USE Constants DEF WriterFail, NextIteration, internVars, queueVars
  <1>1. filename[w] \in File /\ rrd_datum[w] \in Datum /\ rrd_datum[w].time \in Nat
    BY DEF IInv, TypeOK, QueuedWhereHashed, Datum, Time
  <1>2. TypeOK'
    BY <1>1 DEF IInv, TypeOK
  <1>3. /\ wpc'[w] = "wait"
        /\ \A v \in Writer : v # w =>
              wpc'[v] = wpc[v] /\ rrd_datum'[v] = rrd_datum[v] /\ filename'[v] = filename[v]
    BY DEF IInv, TypeOK
  <1>4. IdsResolve'
    BY <1>3, SameIds DEF IInv, IdsResolve
  <1>5. QueuedWhereHashed'
    BY <1>3, SameIds DEF IInv, QueuedWhereHashed
  <1>6. TokensCovered'
    BY <1>3 DEF IInv, TypeOK, TokensCovered
  <1>7. \A f \in File : disk[f] > 0 => disk'[f] > 0
    BY <1>1 DEF IInv, TypeOK
  <1>8. WriterOwnsFiles'
    BY <1>1, <1>3, <1>7 DEF IInv, TypeOK, WriterOwnsFiles
  <1> QED
    BY <1>2, <1>4, <1>5, <1>6, <1>8 DEF IInv

LEMMA WriterStoreIInv ==
    ASSUME NEW w \in Writer, IInv, WriterStore(w)
    PROVE  IInv'
  <1> USE Constants DEF WriterStore, NextIteration, internVars, queueVars
  <1>1. filename[w] \in File /\ rrd_datum[w] \in Datum /\ rrd_datum[w].time \in Nat
    BY DEF IInv, TypeOK, QueuedWhereHashed, Datum, Time
  <1>2. TypeOK'
    BY <1>1 DEF IInv, TypeOK
  <1>3. /\ wpc'[w] = "wait"
        /\ \A v \in Writer : v # w =>
              wpc'[v] = wpc[v] /\ rrd_datum'[v] = rrd_datum[v] /\ filename'[v] = filename[v]
    BY DEF IInv, TypeOK
  <1>4. IdsResolve'
    BY <1>3, SameIds DEF IInv, IdsResolve
  <1>5. QueuedWhereHashed'
    BY <1>3, SameIds DEF IInv, QueuedWhereHashed
  <1>6. TokensCovered'
    BY <1>3 DEF IInv, TypeOK, TokensCovered
  <1>7. \A f \in File : disk[f] > 0 => disk'[f] > 0
    BY <1>1 DEF IInv, TypeOK
  <1>8. WriterOwnsFiles'
    BY <1>1, <1>3, <1>7 DEF IInv, TypeOK, WriterOwnsFiles
  <1> QED
    BY <1>2, <1>4, <1>5, <1>6, <1>8 DEF IInv

LEMMA StutterIInv ==
    ASSUME IInv, Exit \/ UNCHANGED vars
    PROVE  IInv'
  <1> USE DEF Exit, vars, internVars, queueVars, writerVars
  <1>1. TypeOK'
    <2>1. running' \in BOOLEAN
      BY DEF IInv, TypeOK
    <2> QED
      BY <2>1 DEF IInv, TypeOK
  <1>2. IdsResolve' /\ QueuedWhereHashed'
    BY SameIds DEF IInv, IdsResolve, QueuedWhereHashed
  <1>3. TokensCovered' /\ WriterOwnsFiles'
    BY DEF IInv, TokensCovered, WriterOwnsFiles
  <1> QED
    BY <1>1, <1>2, <1>3 DEF IInv

\* Every step preserves the inductive invariant, one case per action.
LEMMA NextIInv == IInv /\ [Next]_vars => IInv'
  <1> SUFFICES ASSUME IInv, [Next]_vars PROVE IInv'
    OBVIOUS
  <1>1. CASE \E f \in File, t \in Template, time \in Time, n \in ValueCounts :
                PushBegin(f, t, time, n)
    BY <1>1, PushBeginIInv
  <1>2. CASE PushEnd
    BY <1>2, PushEndIInv
  <1>3. CASE \E w \in Writer : WriterStep(w)
    <2>1. PICK w \in Writer : WriterStep(w)
      BY <1>3
    <2> QED
      BY <2>1, WriterTimeoutIInv, WriterInterruptedIInv, WriterTokenIInv, WriterPopIInv,
         WriterLookupIInv, WriterFailIInv, WriterStoreIInv DEF WriterStep
  <1>4. CASE Exit \/ UNCHANGED vars
    BY <1>4, StutterIInv
  <1> QED
    BY <1>1, <1>2, <1>3, <1>4 DEF Next

LEMMA SpecIInv == Spec => []IInv
  BY InitIInv, NextIInv, PTL DEF Spec

\* The variables keep their types.
THEOREM TypeCorrect == Spec => []TypeOK
  <1>1. IInv => TypeOK
    BY DEF IInv
  <1> QED
    BY <1>1, SpecIInv, PTL

\* front() is never called on an empty update queue: a queue holds at least as
\* many data as tokens were posted for it and not used up.
THEOREM QueueNeverPoppedEmpty == Spec => []NoEmptyPop
  <1>1. IInv => NoEmptyPop
    <2> SUFFICES ASSUME IInv, NEW w \in Writer, wpc[w] = "token", data_queue[w] = <<>>
                 PROVE  FALSE
      BY DEF NoEmptyPop
    <2>1. Len(data_queue[w]) = 0
      BY EmptySeq
    <2> QED
      BY <2>1 DEF IInv, TypeOK, TokensCovered
  <1> QED
    BY <1>1, SpecIInv, PTL

\* Interned names and ids stay inverse and every id in flight resolves, although
\* push_data and the writers look at the tables under separate lock sections.
THEOREM InterningSound == Spec => []IdsResolve
  <1>1. IInv => IdsResolve
    BY DEF IInv
  <1> QED
    BY <1>1, SpecIInv, PTL

\* A file is only ever written and synced by the writer its name hashes to.
THEOREM OneWriterPerFile == Spec => []WriterOwnsFiles
  <1>1. IInv => WriterOwnsFiles
    BY DEF IInv
  <1> QED
    BY <1>1, SpecIInv, PTL

-----------------------------------------------------------------------------
(* What UpdatesTo computes, by induction over the positions of a stream      *)

\* The updates u, and e too if it is one of file f.
Extend(f, u, e) ==
    IF e.file = f THEN Append(u, [time |-> e.time, template |-> e.template]) ELSE u

\* u satisfies the equation of UpdatesTo up to position n.
IsUpdates(u, f, s, n) ==
    u = [i \in 0 .. n |-> IF i = 0 THEN <<>> ELSE Extend(f, u[i - 1], s[i])]

LEMMA UpdatesExist ==
    ASSUME NEW f, NEW s, NEW n \in Nat
    PROVE  \E u : IsUpdates(u, f, s, n)
  <1> DEFINE S == {m \in Nat : \E u : IsUpdates(u, f, s, m)}
  <1>1. 0 \in S
    <2> DEFINE z == [i \in 0 .. 0 |-> <<>>]
    <2>1. IsUpdates(z, f, s, 0)
      BY DEF IsUpdates
    <2> QED
      BY <2>1
  <1>2. ASSUME NEW m \in Nat, m \in S PROVE m + 1 \in S
    <2>1. PICK u : IsUpdates(u, f, s, m)
      BY <1>2
    <2> DEFINE v == [i \in 0 .. m + 1 |-> IF i <= m THEN u[i] ELSE Extend(f, u[m], s[m + 1])]
    <2>2. ASSUME NEW i \in 0 .. m + 1
          PROVE  v[i] = IF i = 0 THEN <<>> ELSE Extend(f, v[i - 1], s[i])
      <3>1. CASE i <= m
        BY <2>1, <3>1 DEF IsUpdates
      <3>2. CASE i = m + 1
        BY <2>1, <3>2 DEF IsUpdates
      <3> QED
        BY <3>1, <3>2
    <2>3. IsUpdates(v, f, s, m + 1)
      BY <2>2 DEF IsUpdates
    <2> QED
      BY <2>3
  <1> HIDE DEF S
  <1>3. n \in S
    BY <1>1, <1>2, SetInduction
  <1> QED
    BY <1>3 DEF S

\* UpdatesTo is the function its recursive equation describes.
LEMMA UpdatesToDef ==
    ASSUME NEW f, NEW s, Len(s) \in Nat
    PROVE  /\ UpdatesTo(f, s)[0] = <<>>
           /\ \A i \in 1 .. Len(s) :
                 UpdatesTo(f, s)[i] = Extend(f, UpdatesTo(f, s)[i - 1], s[i])
  <1>1. UpdatesTo(f, s) = CHOOSE u : IsUpdates(u, f, s, Len(s))
    BY DEF UpdatesTo, IsUpdates, Extend
  <1>2. IsUpdates(UpdatesTo(f, s), f, s, Len(s))
    BY <1>1, UpdatesExist
  <1> QED
    BY <1>2 DEF IsUpdates

\* Items of a stream, and the updates they hold.
Item == [file : File, time : Time, template : Template \cup {NoFile}]
Tried == [time : Time, template : Template \cup {NoFile}]

LEMMA ExtendType ==
    ASSUME NEW f, NEW u \in Seq(Tried), NEW e \in Item
    PROVE  Extend(f, u, e) \in Seq(Tried)
  BY AppendProperties DEF Extend, Tried, Item

LEMMA UpdatesType ==
    ASSUME NEW f, NEW s \in Seq(Item)
    PROVE  \A i \in 0 .. Len(s) : UpdatesTo(f, s)[i] \in Seq(Tried)
  <1> DEFINE S == {i \in Nat : i <= Len(s) => UpdatesTo(f, s)[i] \in Seq(Tried)}
  <1>1. Len(s) \in Nat
    OBVIOUS
  <1>2. 0 \in S
    BY <1>1, UpdatesToDef, EmptySeq
  <1>3. ASSUME NEW i \in Nat, i \in S PROVE i + 1 \in S
    <2> SUFFICES ASSUME i + 1 <= Len(s) PROVE UpdatesTo(f, s)[i + 1] \in Seq(Tried)
      OBVIOUS
    <2>1. i + 1 \in 1 .. Len(s) /\ (i + 1) - 1 = i
      BY <1>1
    <2>2. UpdatesTo(f, s)[i + 1] = Extend(f, UpdatesTo(f, s)[i], s[i + 1])
      BY <1>1, <2>1, UpdatesToDef
    <2>3. UpdatesTo(f, s)[i] \in Seq(Tried) /\ s[i + 1] \in Item
      BY <1>1, <1>3, <2>1, ElementOfSeq
    <2> QED
      BY <2>2, <2>3, ExtendType
  <1> HIDE DEF S
  <1>4. \A i \in Nat : i \in S
    BY <1>2, <1>3, SetInduction
  <1> QED
    BY <1>1, <1>4 DEF S

\* What was found up to a position depends on nothing behind it.
LEMMA UpdatesPrefix ==
    ASSUME NEW f, NEW s, NEW t, Len(s) \in Nat, Len(t) \in Nat, Len(s) <= Len(t),
           \A i \in 1 .. Len(s) : s[i] = t[i]
    PROVE  \A i \in 0 .. Len(s) : UpdatesTo(f, s)[i] = UpdatesTo(f, t)[i]
  <1> DEFINE S == {i \in Nat : i <= Len(s) => UpdatesTo(f, s)[i] = UpdatesTo(f, t)[i]}
  <1>1. 0 \in S
    BY UpdatesToDef
  <1>2. ASSUME NEW i \in Nat, i \in S PROVE i + 1 \in S
    <2> SUFFICES ASSUME i + 1 <= Len(s) PROVE UpdatesTo(f, s)[i + 1] = UpdatesTo(f, t)[i + 1]
      OBVIOUS
    <2>1. i + 1 \in 1 .. Len(s) /\ i + 1 \in 1 .. Len(t) /\ (i + 1) - 1 = i
      OBVIOUS
    <2>2. UpdatesTo(f, s)[i + 1] = Extend(f, UpdatesTo(f, s)[i], s[i + 1])
      BY <2>1, UpdatesToDef
    <2>3. UpdatesTo(f, t)[i + 1] = Extend(f, UpdatesTo(f, t)[i], t[i + 1])
      BY <2>1, UpdatesToDef
    <2> QED
      BY <1>2, <2>1, <2>2, <2>3
  <1> HIDE DEF S
  <1>3. \A i \in Nat : i \in S
    BY <1>1, <1>2, SetInduction
  <1> QED
    BY <1>3 DEF S

\* One more item at the end of a stream.
LEMMA UpdatesAppend ==
    ASSUME NEW f, NEW s \in Seq(Item), NEW e \in Item
    PROVE  UpdatesOf(f, Append(s, e)) = Extend(f, UpdatesOf(f, s), e)
  <1> DEFINE t == Append(s, e)
  <1>1. /\ Len(s) \in Nat /\ Len(t) = Len(s) + 1
        /\ \A i \in 1 .. Len(s) : t[i] = s[i]
        /\ t[Len(s) + 1] = e
    BY PushFacts
  <1> HIDE DEF t
  <1>2. UpdatesTo(f, s)[Len(s)] = UpdatesTo(f, t)[Len(s)]
    BY <1>1, UpdatesPrefix
  <1>3. UpdatesTo(f, t)[Len(s) + 1] = Extend(f, UpdatesTo(f, t)[Len(s)], e)
    <2>1. Len(t) \in Nat /\ Len(s) + 1 \in 1 .. Len(t) /\ (Len(s) + 1) - 1 = Len(s)
      BY <1>1
    <2> QED
      BY <1>1, <2>1, UpdatesToDef
  <1> QED
    BY <1>1, <1>2, <1>3 DEF UpdatesOf, t

LEMMA ExtendConcat ==
    ASSUME NEW f, NEW x \in Seq(Tried), NEW u \in Seq(Tried), NEW e \in Item
    PROVE  Extend(f, x \o u, e) = x \o Extend(f, u, e)
  <1> DEFINE d == [time |-> e.time, template |-> e.template]
  <1>1. d \in Tried
    BY DEF Item, Tried
  <1> HIDE DEF d
  <1>2. Append(x \o u, d) = x \o Append(u, d)
    BY <1>1
  <1> QED
    BY <1>2 DEF Extend, d

\* Head and tail of a sequence made of them.
LEMMA ConsFacts ==
    ASSUME NEW S, NEW x \in S, NEW s \in Seq(S)
    PROVE  /\ << x >> \o s \in Seq(S) /\ << x >> \o s # <<>>
           /\ Head(<< x >> \o s) = x
           /\ Tail(<< x >> \o s) = s
  <1> DEFINE t == << x >> \o s
  <1>1. << x >> \in Seq(S) /\ Len(<< x >>) = 1 /\ << x >>[1] = x /\ Len(s) \in Nat
    OBVIOUS
  <1>2. /\ t \in Seq(S) /\ Len(t) = Len(s) + 1 /\ t[1] = x
        /\ \A i \in 1 .. Len(s) : t[i + 1] = s[i]
    BY <1>1, ConcatProperties
  <1> HIDE DEF t
  <1>3. t # <<>>
    BY <1>1, <1>2, EmptySeq
  <1>4. /\ Tail(t) \in Seq(S) /\ Len(Tail(t)) = Len(s) /\ Head(t) = x
        /\ \A i \in 1 .. Len(s) : Tail(t)[i] = s[i]
    BY <1>1, <1>2, <1>3, PopFacts
  <1>5. Tail(t) = s
    BY <1>1, <1>4, SeqEqual
  <1> QED
    BY <1>2, <1>3, <1>4, <1>5 DEF t

\* A sequence is its head and its tail.
LEMMA HeadThenTail ==
    ASSUME NEW S, NEW s \in Seq(S), s # <<>>
    PROVE  s = << Head(s) >> \o Tail(s)
  <1>1. /\ Tail(s) \in Seq(S) /\ Len(s) \in Nat /\ Len(s) > 0 /\ Len(Tail(s)) = Len(s) - 1
        /\ \A i \in 1 .. Len(s) - 1 : Tail(s)[i] = s[i + 1]
        /\ Head(s) = s[1] /\ Head(s) \in S
    BY PopFacts
  <1>2. << Head(s) >> \in Seq(S) /\ Len(<< Head(s) >>) = 1 /\ << Head(s) >>[1] = Head(s)
    BY <1>1
  <1>3. /\ << Head(s) >> \o Tail(s) \in Seq(S)
        /\ Len(<< Head(s) >> \o Tail(s)) = Len(s)
        /\ \A i \in 1 .. Len(s) : (<< Head(s) >> \o Tail(s))[i] = s[i]
    BY <1>1, <1>2, ConcatProperties
  <1> QED
    BY <1>3, SeqEqual

\* One more item at its front.
LEMMA UpdatesCons ==
    ASSUME NEW f, NEW s \in Seq(Item), NEW e \in Item
    PROVE  UpdatesOf(f, <<e>> \o s) = Extend(f, <<>>, e) \o UpdatesOf(f, s)
  <1> DEFINE t == <<e>> \o s
             S == {i \in Nat : i <= Len(s) =>
                      UpdatesTo(f, t)[i + 1] = Extend(f, <<>>, e) \o UpdatesTo(f, s)[i]}
  <1>1. <<e>> \in Seq(Item) /\ Len(<<e>>) = 1 /\ <<e>>[1] = e /\ Len(s) \in Nat
    OBVIOUS
  <1>2. /\ Len(t) = Len(s) + 1 /\ t[1] = e
        /\ \A i \in 1 .. Len(s) : t[i + 1] = s[i]
    BY <1>1, ConcatProperties
  <1>3. Extend(f, <<>>, e) \in Seq(Tried)
    BY ExtendType, EmptySeq
  <1> HIDE DEF t
  <1>4. 0 \in S
    <2>1. UpdatesTo(f, s)[0] = <<>>
      BY <1>1, UpdatesToDef
    <2>2. UpdatesTo(f, t)[1] = Extend(f, <<>>, e)
      <3>1. Len(t) \in Nat /\ 1 \in 1 .. Len(t) /\ 1 - 1 = 0
        BY <1>1, <1>2
      <3> QED
        BY <1>2, <3>1, UpdatesToDef
    <2> QED
      BY <1>3, <2>1, <2>2, ConcatEmptySeq
  <1>5. ASSUME NEW i \in Nat, i \in S PROVE i + 1 \in S
    <2> SUFFICES ASSUME i + 1 <= Len(s)
                 PROVE  UpdatesTo(f, t)[(i + 1) + 1]
                          = Extend(f, <<>>, e) \o UpdatesTo(f, s)[i + 1]
      OBVIOUS
    <2> DEFINE u == UpdatesTo(f, s)[i]
    <2>1. /\ i + 1 \in 1 .. Len(s) /\ (i + 1) - 1 = i
          /\ (i + 1) + 1 \in 1 .. Len(t) /\ ((i + 1) + 1) - 1 = i + 1 /\ Len(t) \in Nat
      BY <1>1, <1>2
    <2>2. UpdatesTo(f, s)[i + 1] = Extend(f, u, s[i + 1])
      BY <1>1, <2>1, UpdatesToDef
    <2>3. UpdatesTo(f, t)[(i + 1) + 1] = Extend(f, Extend(f, <<>>, e) \o u, s[i + 1])
      <3>1. UpdatesTo(f, t)[(i + 1) + 1]
              = Extend(f, UpdatesTo(f, t)[i + 1], t[(i + 1) + 1])
        BY <2>1, UpdatesToDef
      <3>2. t[(i + 1) + 1] = s[i + 1]
        BY <1>2, <2>1
      <3>3. UpdatesTo(f, t)[i + 1] = Extend(f, <<>>, e) \o u
        BY <1>1, <1>5, <2>1
      <3> QED
        BY <3>1, <3>2, <3>3
    <2>4. u \in Seq(Tried) /\ s[i + 1] \in Item
      BY <1>1, <2>1, UpdatesType, ElementOfSeq
    <2>5. Extend(f, Extend(f, <<>>, e) \o u, s[i + 1])
            = Extend(f, <<>>, e) \o Extend(f, u, s[i + 1])
      BY <1>3, <2>4, ExtendConcat
    <2> QED
      BY <2>2, <2>3, <2>5
  <1> HIDE DEF S
  <1>6. \A i \in Nat : i \in S
    BY <1>4, <1>5, SetInduction
  <1>7. UpdatesTo(f, t)[Len(s) + 1] = Extend(f, <<>>, e) \o UpdatesTo(f, s)[Len(s)]
    BY <1>1, <1>6 DEF S
  <1> QED
    BY <1>2, <1>7 DEF UpdatesOf, t

-----------------------------------------------------------------------------
(* RRDWriter implements UpdateLog: every step maps to a step or a stutter    *)

\* What the writer has in its hands, as items of a stream.
Hand(w) ==
    CASE wpc[w] = "lookup" -> << Named(rrd_datum[w]) >>
      [] wpc[w] = "update" -> << [file |-> filename[w], time |-> rrd_datum[w].time,
                                  template |-> template_str[w]] >>
      [] OTHER -> <<>>
Queued(w) == [i \in DOMAIN data_queue[w] |-> Named(data_queue[w][i])]

LEMMA StreamIs == \A w : /\ Stream(w) = Hand(w) \o Queued(w)
                         /\ Stream(w)' = Hand(w)' \o Queued(w)'
  BY DEF Stream, Hand, Queued

\* A datum whose ids are in range stands for an item of a file, and goes on to
\* do so when names are interned.
LEMMA NamedType ==
    ASSUME TypeOK, NEW d \in Datum, IdsInRange(d)
    PROVE  Named(d) \in Item
  BY IdsName DEF Named, Item, Datum

LEMMA QueuedType ==
    ASSUME IInv, NEW w \in Writer
    PROVE  Queued(w) \in Seq(Item) /\ Len(Queued(w)) = Len(data_queue[w])
  <1> DEFINE q == data_queue[w]
  <1>1. q \in Seq(Datum) /\ Len(q) \in Nat /\ DOMAIN q = 1 .. Len(q)
    BY LenProperties DEF IInv, TypeOK
  <1>2. \A i \in 1 .. Len(q) : q[i] \in Datum /\ IdsInRange(q[i])
    BY <1>1, ElementOfSeq DEF IInv, IdsResolve
  <1>3. \A i \in 1 .. Len(q) : Named(q[i]) \in Item
    BY <1>2, NamedType DEF IInv
  <1>4. Queued(w) = [i \in 1 .. Len(q) |-> Named(q[i])]
    BY <1>1 DEF Queued
  <1> HIDE DEF q
  <1> QED
    BY <1>1, <1>3, <1>4, IsASeq, LenProperties DEF q

\* What the writer has in its hands between its pop and the end of its update.
LEMMA HandType ==
    ASSUME IInv, NEW w \in Writer
    PROVE  /\ wpc[w] \in {"wait", "token"} => Hand(w) = <<>>
           /\ wpc[w] = "lookup" =>
                 Hand(w) = << Named(rrd_datum[w]) >> /\ Named(rrd_datum[w]) \in Item
           /\ wpc[w] = "update" =>
                 /\ Hand(w) = << [file |-> filename[w], time |-> rrd_datum[w].time,
                                  template |-> template_str[w]] >>
                 /\ [file |-> filename[w], time |-> rrd_datum[w].time,
                     template |-> template_str[w]] \in Item
           /\ Hand(w) \in Seq(Item)
  <1>1. wpc[w] \in {"wait", "token", "lookup", "update"}
    BY DEF IInv, TypeOK
  <1>2. CASE wpc[w] \in {"wait", "token"}
    BY <1>2, EmptySeq DEF Hand
  <1>3. CASE wpc[w] = "lookup"
    <2>1. rrd_datum[w] \in Datum /\ IdsInRange(rrd_datum[w])
      BY <1>3 DEF IInv, TypeOK, QueuedWhereHashed, IdsResolve
    <2>2. Named(rrd_datum[w]) \in Item
      BY <2>1, NamedType DEF IInv
    <2>3. Hand(w) = << Named(rrd_datum[w]) >>
      BY <1>3 DEF Hand
    <2> QED
      BY <1>3, <2>2, <2>3
  <1>4. CASE wpc[w] = "update"
    <2> DEFINE e == [file |-> filename[w], time |-> rrd_datum[w].time,
                     template |-> template_str[w]]
    <2>1. rrd_datum[w] \in Datum /\ filename[w] \in File
          /\ template_str[w] \in Template \cup {NoFile}
      BY <1>4 DEF IInv, TypeOK, QueuedWhereHashed
    <2>2. e \in Item
      BY <2>1 DEF Item, Datum
    <2>3. Hand(w) = << e >>
      BY <1>4 DEF Hand
    <2> HIDE DEF e
    <2>4. << e >> \in Seq(Item)
      BY <2>2
    <2> QED
      BY <1>4, <2>2, <2>3, <2>4 DEF e
  <1> QED
    BY <1>1, <1>2, <1>3, <1>4

LEMMA StreamType ==
    ASSUME IInv, NEW w \in Writer
    PROVE  Stream(w) \in Seq(Item)
  BY QueuedType, HandType, StreamIs, ConcatProperties

LEMMA PendingType ==
    ASSUME IInv, NEW f \in File
    PROVE  Pending(f) \in Seq(Tried)
  <1>1. QueueOf[f] \in Writer
    BY Constants
  <1>2. Stream(QueueOf[f]) \in Seq(Item)
    BY <1>1, StreamType
  <1>3. Len(Stream(QueueOf[f])) \in Nat
    BY <1>2
  <1> QED
    BY <1>2, <1>3, UpdatesType DEF Pending, UpdatesOf

\* A step that leaves every stream, the files and the process alone is a stutter.
LEMMA SameStreams ==
    ASSUME \A w \in Writer : Stream(w)' = Stream(w), UNCHANGED <<disk, running>>
    PROVE  UNCHANGED Log!vars
  <1>1. ASSUME NEW f \in File PROVE Pending(f)' = Pending(f)
    <2>1. QueueOf[f] \in Writer
      BY Constants
    <2>2. Stream(QueueOf[f])' = Stream(QueueOf[f])
      BY <2>1
    <2> QED
      BY <2>2 DEF Pending
  <1> QED
    BY <1>1 DEF Log!vars

\* Interning a file and a template name changes the meaning of no id in use.
LEMMA PushBeginMaps ==
    ASSUME IInv, NEW f \in File, NEW t \in Template, NEW time \in Time, NEW n \in ValueCounts,
           PushBegin(f, t, time, n)
    PROVE  UNCHANGED Log!vars
  <1>1. ASSUME NEW d, IdsInRange(d) PROVE Named(d)' = Named(d)
    <2>1. /\ file_info \in Seq(File) /\ rrd_template \in Seq(Template)
          /\ Len(file_info) \in Nat /\ Len(rrd_template) \in Nat
      BY DEF IInv, TypeOK
    <2>2. d.filename_id + 1 \in 1 .. Len(file_info) /\ d.template_id + 1 \in 1 .. Len(rrd_template)
      BY <1>1, <2>1 DEF IdsInRange
    <2>3. file_info' \in {file_info, Append(file_info, f)}
      BY DEF PushBegin, TableWith
    <2>4. rrd_template' \in {rrd_template, Append(rrd_template, t)}
      BY DEF PushBegin, TableWith
    <2>5. file_info'[d.filename_id + 1] = file_info[d.filename_id + 1]
      BY <2>1, <2>2, <2>3, PushFacts
    <2>6. rrd_template'[d.template_id + 1] = rrd_template[d.template_id + 1]
      BY <2>1, <2>2, <2>4, PushFacts
    <2> QED
      BY <2>5, <2>6 DEF Named
  <1>2. /\ UNCHANGED <<data_queue, wpc, rrd_datum, filename, template_str, disk, running>>
    BY DEF PushBegin, queueVars, writerVars
  <1>3. ASSUME NEW w \in Writer PROVE Stream(w)' = Stream(w)
    <2>1. data_queue[w] \in Seq(Datum) /\ DOMAIN data_queue[w] = 1 .. Len(data_queue[w])
      BY LenProperties DEF IInv, TypeOK
    <2>2. \A i \in DOMAIN data_queue[w] : IdsInRange(data_queue[w][i])
      BY <2>1 DEF IInv, IdsResolve
    <2>3. \A i \in DOMAIN data_queue[w] : Named(data_queue[w][i])' = Named(data_queue[w][i])
      BY <1>1, <1>2, <2>2
    <2>4. Queued(w)' = Queued(w)
      BY <1>2, <2>3 DEF Queued
    <2>5. wpc[w] = "lookup" => Named(rrd_datum[w])' = Named(rrd_datum[w])
      BY <1>1, <1>2 DEF IInv, IdsResolve
    <2>6. Hand(w)' = Hand(w)
      BY <1>2, <2>5 DEF Hand
    <2> QED
      BY <2>4, <2>6, StreamIs
  <1> QED
    BY <1>2, <1>3, SameStreams

\* Steps that touch neither the tables nor queue, hands and files.
LEMMA QuietMaps ==
    ASSUME UNCHANGED <<internVars, data_queue, rrd_datum, filename, template_str, disk, running>>,
           \A w \in Writer : wpc'[w] = wpc[w] \/ {wpc[w], wpc'[w]} \subseteq {"wait", "token"}
    PROVE  UNCHANGED Log!vars
  <1>1. ASSUME NEW w \in Writer PROVE Stream(w)' = Stream(w)
    <2>1. \A d : Named(d)' = Named(d)
      BY DEF Named, internVars
    <2>2. Queued(w)' = Queued(w)
      BY <2>1 DEF Queued
    <2>3. Hand(w)' = Hand(w)
      BY <2>1 DEF Hand
    <2> QED
      BY <2>2, <2>3, StreamIs
  <1> QED
    BY <1>1, SameStreams

\* A datum is queued: a push of its file.
LEMMA PushEndMaps == IInv /\ PushEnd => \E f \in File : Log!Push(f)
  <1> SUFFICES ASSUME IInv, PushEnd PROVE \E f \in File : Log!Push(f)
    OBVIOUS
  <1>1. PICK d \in Datum : d = pushing /\ IdsInRange(d)
    BY DEF PushEnd, IInv, TypeOK, IdsResolve
  <1>2. PICK f \in File, t \in Template, q \in Writer, e \in Item :
           /\ f = file_info[d.filename_id + 1] /\ t = rrd_template[d.template_id + 1]
           /\ q = QueueOf[f] /\ q = QueueIndex(d) /\ e = Named(d)
           /\ e = [file |-> f, time |-> d.time, template |-> t]
    <2>1. /\ file_info[d.filename_id + 1] \in File
          /\ rrd_template[d.template_id + 1] \in Template
          /\ QueueIndex(d) \in Writer
      BY <1>1, IdsName DEF IInv
    <2>2. Named(d) \in Item
      BY <1>1, NamedType DEF IInv
    <2> QED
      BY <2>1, <2>2 DEF QueueIndex, Named
  <1> DEFINE u == [time |-> d.time, template |-> t]
  <1>3. /\ UNCHANGED <<internVars, wpc, rrd_datum, filename, template_str, disk, running>>
        /\ data_queue' = [data_queue EXCEPT ![q] = Append(@, d)]
        /\ running
    BY <1>1, <1>2 DEF PushEnd, writerVars
  <1>4. \A x : Named(x)' = Named(x)
    BY <1>3 DEF Named, internVars
  <1>5. \A w \in Writer : Hand(w)' = Hand(w)
    BY <1>3, <1>4 DEF Hand
  <1>6. ASSUME NEW w \in Writer, w # q PROVE Stream(w)' = Stream(w)
    <2>1. data_queue'[w] = data_queue[w]
      BY <1>3, <1>6 DEF IInv, TypeOK
    <2>2. Queued(w)' = Queued(w)
      BY <1>4, <2>1 DEF Queued
    <2> QED
      BY <1>5, <2>2, StreamIs
  <1>7. Stream(q)' = Append(Stream(q), e)
    <2>1. data_queue[q] \in Seq(Datum) /\ data_queue'[q] = Append(data_queue[q], d)
      BY <1>2, <1>3 DEF IInv, TypeOK
    <2>2. Queued(q)' = Append(Queued(q), e)
      <3> DEFINE a == data_queue[q]
                 b == data_queue'[q]
      <3>1. /\ b \in Seq(Datum) /\ Len(b) = Len(a) + 1 /\ Len(a) \in Nat
            /\ \A i \in 1 .. Len(a) : b[i] = a[i]
            /\ b[Len(a) + 1] = d
            /\ DOMAIN b = 1 .. Len(a) + 1 /\ DOMAIN a = 1 .. Len(a)
        BY <1>1, <2>1, PushFacts, LenProperties
      <3>2. Queued(q)' = [i \in 1 .. Len(a) + 1 |-> Named(b[i])]
        BY <1>4, <3>1 DEF Queued
      <3>3. Queued(q) \in Seq(Item) /\ Len(Queued(q)) = Len(a)
            /\ Queued(q) = [i \in 1 .. Len(a) |-> Named(a[i])]
        BY <3>1, QueuedType DEF Queued
      <3>4. /\ Append(Queued(q), e) \in Seq(Item)
            /\ Len(Append(Queued(q), e)) = Len(a) + 1
            /\ \A i \in 1 .. Len(a) : Append(Queued(q), e)[i] = Named(a[i])
            /\ Append(Queued(q), e)[Len(a) + 1] = e
        BY <1>2, <3>1, <3>3, PushFacts
      <3> HIDE DEF a, b
      <3>5. ASSUME NEW i \in 1 .. Len(a) + 1 PROVE Named(b[i]) = Append(Queued(q), e)[i]
        <4>1. CASE i \in 1 .. Len(a)
          <5>1. b[i] = a[i] /\ Append(Queued(q), e)[i] = Named(a[i])
            BY <3>1, <3>4, <4>1
          <5> QED
            BY <5>1
        <4>2. CASE i = Len(a) + 1
          <5>1. b[i] = d /\ Append(Queued(q), e)[i] = e /\ Named(d) = e
            BY <1>2, <3>1, <3>4, <4>2
          <5> QED
            BY <5>1
        <4>3. i \in 1 .. Len(a) \/ i = Len(a) + 1
          BY <3>1
        <4> QED
          BY <4>1, <4>2, <4>3, Zenon
      <3>6. Append(Queued(q), e) = [i \in 1 .. Len(a) + 1 |-> Append(Queued(q), e)[i]]
        BY <3>1, <3>4, LenProperties
      <3> QED
        BY <3>2, <3>5, <3>6
    <2>3. Hand(q) \in Seq(Item) /\ Queued(q) \in Seq(Item)
      BY <1>2, HandType, QueuedType
    <2>4. Hand(q) \o Append(Queued(q), e) = Append(Hand(q) \o Queued(q), e)
      BY <2>3
    <2> QED
      BY <1>2, <1>5, <2>2, <2>4, StreamIs
  <1>8. ASSUME NEW g \in File
        PROVE  Pending(g)' = IF g = f THEN Append(Pending(g), u) ELSE Pending(g)
    <2> DEFINE w == QueueOf[g]
    <2>1. w \in Writer
      BY Constants
    <2>2. CASE w # q
      BY <1>2, <1>6, <2>1, <2>2 DEF Pending
    <2>3. CASE w = q
      <3>1. Pending(g)' = UpdatesOf(g, Append(Stream(q), e))
        BY <1>7, <2>3 DEF Pending
      <3>2. Pending(g)' = Extend(g, Pending(g), e)
        BY <1>2, <2>3, <3>1, StreamType, UpdatesAppend DEF Pending
      <3> QED
        BY <1>2, <3>2 DEF Extend
    <2> QED
      BY <2>2, <2>3
  <1>9. [g \in File |-> Pending(g)]'
          = [[g \in File |-> Pending(g)] EXCEPT ![f] = Append(@, u)]
    BY <1>2, <1>8
  <1>10. Log!Push(f)
    <2>1. u \in Log!Update
      BY DEF Log!Update, Datum
    <2> QED
      BY <1>3, <1>9, <2>1 DEF Log!Push
  <1> QED
    BY <1>10

\* A datum is popped: it moves from the queue's head to the writer's hands.
LEMMA WriterPopMaps ==
    ASSUME IInv, NEW w \in Writer, WriterPop(w)
    PROVE  UNCHANGED Log!vars
  <1>1. /\ UNCHANGED <<internVars, filename, template_str, disk, running>>
        /\ wpc[w] = "token" /\ wpc' = [wpc EXCEPT ![w] = "lookup"]
        /\ rrd_datum' = [rrd_datum EXCEPT ![w] = Head(data_queue[w])]
        /\ data_queue' = [data_queue EXCEPT ![w] = Tail(@)]
        /\ data_queue[w] # <<>>
    BY DEF WriterPop
  <1>2. \A d : Named(d)' = Named(d)
    BY <1>1 DEF Named, internVars
  <1>3. /\ wpc \in [Writer -> {"wait", "token", "lookup", "update"}]
        /\ rrd_datum \in [Writer -> Datum \cup {NoDatum}]
        /\ data_queue \in [Writer -> Seq(Datum)]
    BY DEF IInv, TypeOK
  <1>4. ASSUME NEW v \in Writer, v # w PROVE Stream(v)' = Stream(v)
    <2>1. wpc'[v] = wpc[v] /\ rrd_datum'[v] = rrd_datum[v] /\ data_queue'[v] = data_queue[v]
      BY <1>1, <1>3, <1>4
    <2>2. Hand(v)' = Hand(v)
      BY <1>1, <1>2, <2>1 DEF Hand
    <2>3. Queued(v)' = Queued(v)
      BY <1>2, <2>1 DEF Queued
    <2> QED
      BY <2>2, <2>3, StreamIs
  <1>5. Stream(w)' = Stream(w)
    <2> DEFINE a == data_queue[w]
               b == data_queue'[w]
    <2>1. wpc'[w] = "lookup" /\ rrd_datum'[w] = Head(a) /\ b = Tail(a) /\ a \in Seq(Datum)
      BY <1>1, <1>3
    <2> HIDE DEF a, b
    <2>1a. a # <<>>
      BY <1>1 DEF a
    <2>2. /\ b \in Seq(Datum) /\ Len(a) \in Nat /\ Len(a) > 0 /\ Len(b) = Len(a) - 1
          /\ \A i \in 1 .. Len(a) - 1 : b[i] = a[i + 1]
          /\ Head(a) = a[1] /\ Head(a) \in Datum
          /\ DOMAIN a = 1 .. Len(a) /\ DOMAIN b = 1 .. Len(a) - 1
      BY <2>1, <2>1a, PopFacts, LenProperties
    <2>3. Hand(w) = <<>>
      BY <1>1, HandType
    <2>4. Hand(w)' = << Named(a[1]) >>
      BY <1>2, <2>1, <2>2 DEF Hand
    <2>5. /\ Queued(w) \in Seq(Item) /\ Len(Queued(w)) = Len(a)
          /\ Queued(w) = [i \in 1 .. Len(a) |-> Named(a[i])]
      BY <2>2, QueuedType DEF Queued, a
    <2>6. Queued(w)' = [i \in 1 .. Len(a) - 1 |-> Named(b[i])]
      BY <1>2, <2>2 DEF Queued, b
    <2>7. /\ Tail(Queued(w)) \in Seq(Item) /\ Len(Tail(Queued(w))) = Len(a) - 1
          /\ \A i \in 1 .. Len(a) - 1 : Tail(Queued(w))[i] = Queued(w)[i + 1]
          /\ Head(Queued(w)) = Queued(w)[1]
          /\ Head(Queued(w)) \in Item
          /\ Queued(w) # <<>>
      BY <2>2, <2>5, PopFacts
    <2>8. ASSUME NEW i \in 1 .. Len(a) - 1 PROVE Tail(Queued(w))[i] = Named(b[i])
      <3>1. i + 1 \in 1 .. Len(a) /\ b[i] = a[i + 1]
        BY <2>2
      <3>2. Queued(w)[i + 1] = Named(a[i + 1])
        BY <2>5, <3>1
      <3> QED
        BY <2>7, <3>1, <3>2
    <2>9. Tail(Queued(w)) = [i \in 1 .. Len(a) - 1 |-> Tail(Queued(w))[i]]
      BY <2>2, <2>7, LenProperties
    <2>10. Queued(w)' = Tail(Queued(w))
      BY <2>6, <2>8, <2>9
    <2>11. Head(Queued(w)) = Named(a[1])
      <3>1. 1 \in 1 .. Len(a)
        BY <2>2
      <3>2. Queued(w)[1] = Named(a[1])
        BY <2>5, <3>1
      <3> QED
        BY <2>7, <3>2
    <2>12. Queued(w) = << Head(Queued(w)) >> \o Tail(Queued(w))
      BY <2>5, <2>7, HeadThenTail
    <2>13. Stream(w) = Queued(w)
      BY <2>3, <2>5, StreamIs, ConcatEmptySeq
    <2>14. Stream(w)' = << Head(Queued(w)) >> \o Tail(Queued(w))
      BY <2>4, <2>10, <2>11, StreamIs
    <2> QED
      BY <2>12, <2>13, <2>14
  <1> QED
    BY <1>1, <1>4, <1>5, SameStreams

\* The ids of the datum in hand are replaced by the names they stand for.
LEMMA WriterLookupMaps ==
    ASSUME IInv, NEW w \in Writer, WriterLookup(w)
    PROVE  UNCHANGED Log!vars
  <1>1. /\ UNCHANGED <<internVars, data_queue, rrd_datum, disk, running>>
        /\ wpc[w] = "lookup" /\ wpc' = [wpc EXCEPT ![w] = "update"]
        /\ filename' = [filename EXCEPT ![w] = file_info[rrd_datum[w].filename_id + 1]]
        /\ template_str' =
              [template_str EXCEPT ![w] = rrd_template[rrd_datum[w].template_id + 1]]
    BY DEF WriterLookup, queueVars
  <1>2. \A d : Named(d)' = Named(d)
    BY <1>1 DEF Named, internVars
  <1>3. /\ wpc \in [Writer -> {"wait", "token", "lookup", "update"}]
        /\ filename \in [Writer -> File \cup {NoFile}]
        /\ template_str \in [Writer -> Template \cup {NoFile}]
    BY DEF IInv, TypeOK
  <1>4. ASSUME NEW v \in Writer PROVE Stream(v)' = Stream(v)
    <2>1. Queued(v)' = Queued(v)
      BY <1>1, <1>2 DEF Queued
    <2>2. CASE v # w
      <3>1. wpc'[v] = wpc[v] /\ filename'[v] = filename[v] /\ template_str'[v] = template_str[v]
        BY <1>1, <1>3, <2>2
      <3>2. Hand(v)' = Hand(v)
        BY <1>1, <1>2, <3>1 DEF Hand
      <3> QED
        BY <2>1, <3>2, StreamIs
    <2>3. CASE v = w
      <3>1. /\ wpc'[w] = "update"
            /\ filename'[w] = file_info[rrd_datum[w].filename_id + 1]
            /\ template_str'[w] = rrd_template[rrd_datum[w].template_id + 1]
        BY <1>1, <1>3
      <3>2. Hand(w)' = << Named(rrd_datum[w]) >>
        BY <1>1, <3>1 DEF Hand, Named
      <3>3. Hand(w) = << Named(rrd_datum[w]) >>
        BY <1>1, HandType
      <3> QED
        BY <2>1, <2>3, <3>2, <3>3, StreamIs
    <2> QED
      BY <2>2, <2>3
  <1> QED
    BY <1>1, <1>4, SameStreams

\* The update in hand is tried, whatever comes of it: it is the oldest one of its
\* file, and no other file loses one.
LEMMA TriedMaps ==
    ASSUME IInv, NEW w \in Writer, wpc[w] = "update", NextIteration(w),
           UNCHANGED <<internVars, data_queue>>
    PROVE  LET f == filename[w] IN
           /\ f \in File
           /\ Pending(f) \in Seq(Tried) /\ Pending(f) # <<>>
           /\ Head(Pending(f)).time = rrd_datum[w].time
           /\ [g \in File |-> Pending(g)]'
                = [[g \in File |-> Pending(g)] EXCEPT ![f] = Tail(@)]
  <1>1. PICK e \in Item : e = [file |-> filename[w], time |-> rrd_datum[w].time,
                               template |-> template_str[w]] /\ Hand(w) = << e >>
    BY HandType
  <1>2. PICK f \in File : f = filename[w] /\ QueueOf[f] = w /\ e.file = f
    BY <1>1 DEF Item, IInv, WriterOwnsFiles
  <1> DEFINE u == [time |-> e.time, template |-> e.template]
  <1>3. u \in Tried
    BY DEF Item, Tried
  <1>4. /\ wpc \in [Writer -> {"wait", "token", "lookup", "update"}]
        /\ rrd_datum \in [Writer -> Datum \cup {NoDatum}]
        /\ filename \in [Writer -> File \cup {NoFile}]
        /\ template_str \in [Writer -> Template \cup {NoFile}]
    BY DEF IInv, TypeOK
  <1>5. \A d : Named(d)' = Named(d)
    BY DEF Named, internVars
  <1>6. \A v \in Writer : Queued(v)' = Queued(v)
    BY <1>5 DEF Queued
  <1>7. ASSUME NEW v \in Writer, v # w PROVE Stream(v)' = Stream(v)
    <2>1. /\ wpc'[v] = wpc[v] /\ rrd_datum'[v] = rrd_datum[v]
          /\ filename'[v] = filename[v] /\ template_str'[v] = template_str[v]
      BY <1>4, <1>7 DEF NextIteration
    <2>2. Hand(v)' = Hand(v)
      BY <1>5, <2>1 DEF Hand
    <2> QED
      BY <1>6, <2>2, StreamIs
  <1>8. PICK s \in Seq(Item) : s = Queued(w)
    BY QueuedType
  <1>9. Stream(w) = << e >> \o s /\ Stream(w)' = s
    <2>1. wpc'[w] = "wait"
      BY <1>4 DEF NextIteration
    <2>2. Hand(w)' = <<>>
      BY <2>1 DEF Hand
    <2>3. Stream(w)' = <<>> \o s
      BY <1>6, <1>8, <2>2, StreamIs
    <2> QED
      BY <1>1, <1>8, <2>3, StreamIs, ConcatEmptySeq
  <1>10. ASSUME NEW g \in File, QueueOf[g] = w
         PROVE  Pending(g) = Extend(g, <<>>, e) \o Pending(g)' /\ Pending(g)' \in Seq(Tried)
    <2>1. Pending(g) = UpdatesOf(g, << e >> \o s)
      BY <1>9, <1>10 DEF Pending
    <2>2. Pending(g)' = UpdatesOf(g, s)
      BY <1>9, <1>10 DEF Pending
    <2>3. UpdatesOf(g, s) \in Seq(Tried)
      <3>1. Len(s) \in Nat
        OBVIOUS
      <3> QED
        BY <3>1, UpdatesType DEF UpdatesOf
    <2> QED
      BY <2>1, <2>2, <2>3, UpdatesCons
  <1>11. ASSUME NEW g \in File, g # f PROVE Pending(g)' = Pending(g)
    <2>1. CASE QueueOf[g] # w
      <3>1. QueueOf[g] \in Writer
        BY Constants
      <3> QED
        BY <1>7, <2>1, <3>1 DEF Pending
    <2>2. CASE QueueOf[g] = w
      <3>1. Extend(g, <<>>, e) = <<>>
        BY <1>2, <1>11 DEF Extend
      <3> QED
        BY <1>10, <2>2, <3>1, ConcatEmptySeq
    <2> QED
      BY <2>1, <2>2
  <1>12. /\ Pending(f) \in Seq(Tried) /\ Pending(f) # <<>>
         /\ Head(Pending(f)) = u /\ Tail(Pending(f)) = Pending(f)'
    <2>1. Extend(f, <<>>, e) = << u >>
      BY <1>2 DEF Extend
    <2>2. Pending(f) = << u >> \o Pending(f)' /\ Pending(f)' \in Seq(Tried)
      BY <1>2, <1>10, <2>1
    <2> HIDE DEF u
    <2> QED
      BY <1>3, <2>2, ConsFacts
  <1>13. [g \in File |-> Pending(g)]' = [[g \in File |-> Pending(g)] EXCEPT ![f] = Tail(@)]
    BY <1>11, <1>12
  <1>14. u.time = rrd_datum[w].time
    BY <1>1
  <1> HIDE DEF u
  <1> QED
    BY <1>2, <1>12, <1>13, <1>14

LEMMA WriterFailMaps ==
    ASSUME IInv, NEW w \in Writer, WriterFail(w)
    PROVE  \E f \in File : Log!Write(f)
  <1>1. /\ wpc[w] = "update" /\ NextIteration(w) /\ running
        /\ UNCHANGED <<internVars, data_queue, disk, running>>
    BY DEF WriterFail, queueVars
  <1>2. Log!Write(filename[w]) /\ filename[w] \in File
    BY <1>1, TriedMaps DEF Log!Write
  <1> QED
    BY <1>2

LEMMA WriterStoreMaps ==
    ASSUME IInv, NEW w \in Writer, WriterStore(w)
    PROVE  \E f \in File : Log!Write(f)
  <1>1. /\ wpc[w] = "update" /\ NextIteration(w) /\ running
        /\ rrd_datum[w].time > disk[filename[w]]
        /\ disk' = [disk EXCEPT ![filename[w]] = rrd_datum[w].time]
        /\ UNCHANGED <<internVars, data_queue, running>>
    BY DEF WriterStore, queueVars
  <1>2. Log!Write(filename[w]) /\ filename[w] \in File
    BY <1>1, TriedMaps DEF Log!Write
  <1> QED
    BY <1>2

LEMMA InitMaps == Init => Log!Init
  <1> SUFFICES ASSUME Init PROVE Log!Init
    OBVIOUS
  <1>1. ASSUME NEW f \in File PROVE Pending(f) = <<>>
    <2> DEFINE w == QueueOf[f]
    <2>1. w \in Writer
      BY Constants
    <2>2. Hand(w) = <<>> /\ Queued(w) = <<>>
      BY <2>1 DEF Init, Hand, Queued
    <2>3. Stream(w) = <<>>
      BY <2>2, StreamIs
    <2>4. Len(Stream(w)) = 0
      BY <2>3
    <2> QED
      BY <2>3, <2>4, UpdatesToDef DEF Pending, UpdatesOf
  <1> QED
    BY <1>1 DEF Init, Log!Init

LEMMA NextMaps == IInv /\ [Next]_vars => [Log!Next]_Log!vars
  <1> SUFFICES ASSUME IInv, [Next]_vars PROVE Log!Next \/ UNCHANGED Log!vars
    OBVIOUS
  <1>1. ASSUME NEW f \in File, NEW t \in Template, NEW time \in Time, NEW n \in ValueCounts,
               PushBegin(f, t, time, n)
        PROVE  UNCHANGED Log!vars
    BY <1>1, PushBeginMaps
  <1>2. CASE PushEnd
    BY <1>2, PushEndMaps DEF Log!Next
  <1>3. ASSUME NEW w \in Writer, WriterTimeout(w) \/ WriterInterrupted(w) \/ WriterToken(w)
        PROVE  UNCHANGED Log!vars
    <2>1. /\ UNCHANGED <<internVars, data_queue, rrd_datum, filename, template_str, disk,
                         running>>
          /\ \A v \in Writer : wpc'[v] = wpc[v]
                               \/ {wpc[v], wpc'[v]} \subseteq {"wait", "token"}
      BY <1>3 DEF WriterTimeout, WriterInterrupted, WriterToken, queueVars, IInv, TypeOK
    <2> QED
      BY <2>1, QuietMaps
  <1>4. ASSUME NEW w \in Writer, WriterPop(w) \/ WriterLookup(w) PROVE UNCHANGED Log!vars
    BY <1>4, WriterPopMaps, WriterLookupMaps
  <1>5. ASSUME NEW w \in Writer, WriterFail(w) \/ WriterStore(w) PROVE Log!Next
    BY <1>5, WriterFailMaps, WriterStoreMaps DEF Log!Next
  <1>6. CASE Exit
    <2>1. \A w \in Writer : Stream(w)' = Stream(w)
      BY <1>6 DEF Exit, Stream, Named, internVars, queueVars, writerVars
    <2>2. \A f \in File : Pending(f)' = Pending(f)
      BY <2>1, Constants DEF Pending
    <2>3. Log!Exit
      BY <1>6, <2>2 DEF Exit, Log!Exit, writerVars
    <2> QED
      BY <2>3 DEF Log!Next
  <1>7. CASE UNCHANGED vars
    <2>1. /\ UNCHANGED <<internVars, data_queue, rrd_datum, filename, template_str, disk,
                         running>>
          /\ \A v \in Writer : wpc'[v] = wpc[v]
      BY <1>7 DEF vars, writerVars, queueVars
    <2> QED
      BY <2>1, QuietMaps
  <1> QED
    BY <1>1, <1>2, <1>3, <1>4, <1>5, <1>6, <1>7 DEF Next, WriterStep

\* For any files, queues, hash function and number of updates, interrupted waits
\* included, push_data and the writers keep one FIFO per file: every step is a push
\* of one file, a try of the oldest update of one file, the exit, or not visible.
THEOREM OrderKept == Spec => KeepsUpdateLog
  <1>1. Spec => []IInv
    BY SpecIInv
  <1> QED
    BY <1>1, InitMaps, NextMaps, PTL DEF Spec, KeepsUpdateLog, Log!SafeSpec
=============================================================================
