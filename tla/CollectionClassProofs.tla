------------------------ MODULE CollectionClassProofs ------------------------
(***************************************************************************)
(* Proofs about CollectionClass, for any number of hosts, workers and      *)
(* session slots, and whether or not print_log is a cancellation point.    *)
(***************************************************************************)
EXTENDS CollectionClass, QueueFacts, FiniteSetTheorems, SequenceTheorems, TLAPS

\* The constants' assumptions, cited together.
LEMMA Constants ==
    /\ NumHosts \in Nat
    /\ MaxWorkers \in Nat \ {0}
    /\ SessionSlots \in Nat \ {0}
    /\ LogCancels \in BOOLEAN
    /\ Main # Config /\ Main # Nobody /\ Config # Nobody
  BY NumHostsAssumption, MaxWorkersAssumption, SessionSlotsAssumption,
     LogCancelsAssumption, ThreadsDistinct

\* initialize() creates NumWorkers workers, so a set of workers is finite.
LEMMA WorkersFinite ==
    /\ NumWorkers \in Nat
    /\ IsFiniteSet(Worker)
    /\ Cardinality(Worker) = NumWorkers
  <1>1. NumWorkers \in Nat
    BY Constants DEF NumWorkers
  <1>2. IsFiniteSet(0 .. NumWorkers - 1)
        /\ Cardinality(0 .. NumWorkers - 1)
             = IF 0 > NumWorkers - 1 THEN 0 ELSE (NumWorkers - 1) - 0 + 1
    BY <1>1, FS_Interval
  <1> QED
    BY <1>1, <1>2 DEF Worker

\* The sets of workers the invariant counts are finite.
LEMMA CountedSetsFinite ==
    /\ IsFiniteSet(TokenHolders) /\ Cardinality(TokenHolders) \in Nat
    /\ IsFiniteSet(Live) /\ Cardinality(Live) \in Nat
    /\ IsFiniteSet(Collecting) /\ Cardinality(Collecting) \in Nat
  <1>1. TokenHolders \subseteq Worker /\ Live \subseteq Worker /\ Collecting \subseteq Worker
    BY DEF TokenHolders, Live, Collecting
  <1>2. IsFiniteSet(TokenHolders) /\ IsFiniteSet(Live) /\ IsFiniteSet(Collecting)
    BY <1>1, WorkersFinite, FS_Subset
  <1> QED
    BY <1>2, FS_CardinalityType

-----------------------------------------------------------------------------
(* Steps that leave every worker where it is do not change what is counted. *)

LEMMA SameCounts ==
    ASSUME wpc' = wpc
    PROVE  TokenHolders' = TokenHolders /\ Live' = Live /\ Collecting' = Collecting
  BY DEF TokenHolders, Live, Collecting

LEMMA InitIInv == Init => IInv
  <1> SUFFICES ASSUME Init PROVE IInv
    OBVIOUS
  <1> USE Constants, WorkersFinite DEF Init
  <1>1. TypeOK
    <2>1. queue \in Seq(Host \cup {Pill})
      BY EmptySeq
    <2>2. wpc \in [Worker -> WorkerPcs] /\ widx \in [Worker -> Host \cup {Pill}]
      BY DEF WorkerPcs
    <2>3. /\ sem \in Nat /\ sessions \in 0 .. SessionSlots
          /\ mainI \in 0 .. NumHosts /\ cfgI \in 0 .. NumWorkers
      OBVIOUS
    <2>4. mainPc \in MainPcs /\ cpc \in ConfigPcs /\ cancelPending \in BOOLEAN
      BY DEF MainPcs, ConfigPcs
    <2>5. lock \in {Main, Config, Nobody}
      OBVIOUS
    <2> QED
      BY <2>1, <2>2, <2>3, <2>4, <2>5 DEF TypeOK
  <1>2. TokenHolders = {} /\ Collecting = {}
    BY DEF TokenHolders, Collecting
  <1>3. Cardinality(TokenHolders) = 0 /\ Cardinality(Collecting) = 0
    BY <1>2, FS_EmptySet
  <1>4. LockHeld /\ HostsInOrder /\ PillsBeingQueued /\ PillPerLiveWorker /\ ThreadsStarted
    BY DEF LockHeld, HostsInOrder, PillsBeingQueued, PillPerLiveWorker, ThreadsStarted
  <1>5. TokensMatchQueue /\ SessionsConserved
    BY <1>3 DEF TokensMatchQueue, SessionsConserved
  <1> QED
    BY <1>1, <1>4, <1>5 DEF IInv

LEMMA MainLogIInv == IInv /\ MainLog => IInv'
  <1> SUFFICES ASSUME IInv, MainLog PROVE IInv'
    OBVIOUS
  <1> USE Constants, WorkersFinite DEF MainLog, mainVars, workerVars, configVars
  <1>1. TypeOK'
    BY DEF IInv, TypeOK, MainPcs, ConfigPcs, CancellationPoint
  <1>2. TokenHolders' = TokenHolders /\ Live' = Live /\ Collecting' = Collecting
    BY SameCounts
  <1>3. LockHeld' /\ HostsInOrder'
    BY DEF IInv, TypeOK, LockHeld, HostsInOrder, CancellationPoint
  <1>4. TokensMatchQueue' /\ PillsBeingQueued'
    BY <1>2 DEF IInv, TypeOK, TokensMatchQueue, PillsBeingQueued, LockHeld
  <1>5. PillPerLiveWorker'
    BY <1>2, CountedSetsFinite, FS_EmptySet DEF IInv, TypeOK, PillPerLiveWorker, LockHeld, CancellationPoint
  <1>6. ThreadsStarted' /\ SessionsConserved'
    BY <1>2 DEF IInv, TypeOK, ThreadsStarted, SessionsConserved, LockHeld, CancellationPoint
  <1> QED
    BY <1>1, <1>3, <1>4, <1>5, <1>6 DEF IInv

LEMMA MainLockIInv == IInv /\ MainLock => IInv'
  <1> SUFFICES ASSUME IInv, MainLock PROVE IInv'
    OBVIOUS
  <1> USE Constants, WorkersFinite DEF MainLock, mainVars, workerVars, configVars
  <1>1. TypeOK'
    BY DEF IInv, TypeOK, MainPcs, ConfigPcs, CancellationPoint
  <1>2. TokenHolders' = TokenHolders /\ Live' = Live /\ Collecting' = Collecting
    BY SameCounts
  <1>3. LockHeld' /\ HostsInOrder'
    BY DEF IInv, TypeOK, LockHeld, HostsInOrder, CancellationPoint
  <1>4. TokensMatchQueue' /\ PillsBeingQueued'
    BY <1>2 DEF IInv, TypeOK, TokensMatchQueue, PillsBeingQueued, LockHeld
  <1>5. PillPerLiveWorker'
    BY <1>2, CountedSetsFinite, FS_EmptySet DEF IInv, TypeOK, PillPerLiveWorker, LockHeld, CancellationPoint
  <1>6. ThreadsStarted' /\ SessionsConserved'
    BY <1>2 DEF IInv, TypeOK, ThreadsStarted, SessionsConserved, LockHeld, CancellationPoint
  <1> QED
    BY <1>1, <1>3, <1>4, <1>5, <1>6 DEF IInv

LEMMA MainUnlockIInv == IInv /\ MainUnlock => IInv'
  <1> SUFFICES ASSUME IInv, MainUnlock PROVE IInv'
    OBVIOUS
  <1> USE Constants, WorkersFinite DEF MainUnlock, mainVars, workerVars, configVars
  <1>1. TypeOK'
    BY DEF IInv, TypeOK, MainPcs, ConfigPcs, CancellationPoint
  <1>2. TokenHolders' = TokenHolders /\ Live' = Live /\ Collecting' = Collecting
    BY SameCounts
  <1>3. LockHeld' /\ HostsInOrder'
    BY DEF IInv, TypeOK, LockHeld, HostsInOrder, CancellationPoint
  <1>4. TokensMatchQueue' /\ PillsBeingQueued'
    BY <1>2 DEF IInv, TypeOK, TokensMatchQueue, PillsBeingQueued, LockHeld
  <1>5. PillPerLiveWorker'
    BY <1>2, CountedSetsFinite, FS_EmptySet DEF IInv, TypeOK, PillPerLiveWorker, LockHeld, CancellationPoint
  <1>6. ThreadsStarted' /\ SessionsConserved'
    BY <1>2 DEF IInv, TypeOK, ThreadsStarted, SessionsConserved, LockHeld, CancellationPoint
  <1> QED
    BY <1>1, <1>3, <1>4, <1>5, <1>6 DEF IInv

LEMMA MainWakeIInv == IInv /\ MainWake => IInv'
  <1> SUFFICES ASSUME IInv, MainWake PROVE IInv'
    OBVIOUS
  <1> USE Constants, WorkersFinite DEF MainWake, mainVars, workerVars, configVars
  <1>1. TypeOK'
    BY DEF IInv, TypeOK, MainPcs, ConfigPcs, CancellationPoint
  <1>2. TokenHolders' = TokenHolders /\ Live' = Live /\ Collecting' = Collecting
    BY SameCounts
  <1>3. LockHeld' /\ HostsInOrder'
    BY DEF IInv, TypeOK, LockHeld, HostsInOrder, CancellationPoint
  <1>4. TokensMatchQueue' /\ PillsBeingQueued'
    BY <1>2 DEF IInv, TypeOK, TokensMatchQueue, PillsBeingQueued, LockHeld
  <1>5. PillPerLiveWorker'
    BY <1>2, CountedSetsFinite, FS_EmptySet DEF IInv, TypeOK, PillPerLiveWorker, LockHeld, CancellationPoint
  <1>6. ThreadsStarted' /\ SessionsConserved'
    BY <1>2 DEF IInv, TypeOK, ThreadsStarted, SessionsConserved, LockHeld, CancellationPoint
  <1> QED
    BY <1>1, <1>3, <1>4, <1>5, <1>6 DEF IInv

LEMMA MainCancelledIInv == IInv /\ MainCancelled => IInv'
  <1> SUFFICES ASSUME IInv, MainCancelled PROVE IInv'
    OBVIOUS
  <1> USE Constants, WorkersFinite DEF MainCancelled, mainVars, workerVars, configVars
  <1>1. TypeOK'
    BY DEF IInv, TypeOK, MainPcs, ConfigPcs, CancellationPoint
  <1>2. TokenHolders' = TokenHolders /\ Live' = Live /\ Collecting' = Collecting
    BY SameCounts
  <1>3. LockHeld' /\ HostsInOrder'
    BY DEF IInv, TypeOK, LockHeld, HostsInOrder, CancellationPoint
  <1>4. TokensMatchQueue' /\ PillsBeingQueued'
    BY <1>2 DEF IInv, TypeOK, TokensMatchQueue, PillsBeingQueued, LockHeld
  <1>5. PillPerLiveWorker'
    BY <1>2, CountedSetsFinite, FS_EmptySet DEF IInv, TypeOK, PillPerLiveWorker, LockHeld, CancellationPoint
  <1>6. ThreadsStarted' /\ SessionsConserved'
    BY <1>2 DEF IInv, TypeOK, ThreadsStarted, SessionsConserved, LockHeld, CancellationPoint
  <1> QED
    BY <1>1, <1>3, <1>4, <1>5, <1>6 DEF IInv

LEMMA MainTouchesFreedIInv == IInv /\ MainTouchesFreed => IInv'
  <1> SUFFICES ASSUME IInv, MainTouchesFreed PROVE IInv'
    OBVIOUS
  <1> USE Constants, WorkersFinite DEF MainTouchesFreed, mainVars, workerVars, configVars
  <1>1. TypeOK'
    BY DEF IInv, TypeOK, MainPcs, ConfigPcs, CancellationPoint
  <1>2. TokenHolders' = TokenHolders /\ Live' = Live /\ Collecting' = Collecting
    BY SameCounts
  <1>3. LockHeld' /\ HostsInOrder'
    BY DEF IInv, TypeOK, LockHeld, HostsInOrder, CancellationPoint
  <1>4. TokensMatchQueue' /\ PillsBeingQueued'
    BY <1>2 DEF IInv, TypeOK, TokensMatchQueue, PillsBeingQueued, LockHeld
  <1>5. PillPerLiveWorker'
    BY <1>2, CountedSetsFinite, FS_EmptySet DEF IInv, TypeOK, PillPerLiveWorker, LockHeld, CancellationPoint
  <1>6. ThreadsStarted' /\ SessionsConserved'
    BY <1>2 DEF IInv, TypeOK, ThreadsStarted, SessionsConserved, LockHeld, CancellationPoint
  <1> QED
    BY <1>1, <1>3, <1>4, <1>5, <1>6 DEF IInv

LEMMA DestroyUninitializedIInv == IInv /\ DestroyUninitialized => IInv'
  <1> SUFFICES ASSUME IInv, DestroyUninitialized PROVE IInv'
    OBVIOUS
  <1> USE Constants, WorkersFinite DEF DestroyUninitialized, mainVars, workerVars, configVars
  <1>1. TypeOK'
    BY DEF IInv, TypeOK, MainPcs, ConfigPcs, CancellationPoint
  <1>2. TokenHolders' = TokenHolders /\ Live' = Live /\ Collecting' = Collecting
    BY SameCounts
  <1>3. LockHeld' /\ HostsInOrder'
    BY DEF IInv, TypeOK, LockHeld, HostsInOrder, CancellationPoint
  <1>4. TokensMatchQueue' /\ PillsBeingQueued'
    BY <1>2 DEF IInv, TypeOK, TokensMatchQueue, PillsBeingQueued, LockHeld
  <1>5. PillPerLiveWorker'
    BY <1>2, CountedSetsFinite, FS_EmptySet DEF IInv, TypeOK, PillPerLiveWorker, LockHeld, ThreadsStarted
  <1>6. ThreadsStarted' /\ SessionsConserved'
    BY <1>2 DEF IInv, TypeOK, ThreadsStarted, SessionsConserved, LockHeld, CancellationPoint
  <1> QED
    BY <1>1, <1>3, <1>4, <1>5, <1>6 DEF IInv

LEMMA FinalizeBeginIInv == IInv /\ FinalizeBegin => IInv'
  <1> SUFFICES ASSUME IInv, FinalizeBegin PROVE IInv'
    OBVIOUS
  <1> USE Constants, WorkersFinite DEF FinalizeBegin, mainVars, workerVars, configVars
  <1>1. TypeOK'
    BY DEF IInv, TypeOK, MainPcs, ConfigPcs, CancellationPoint
  <1>2. TokenHolders' = TokenHolders /\ Live' = Live /\ Collecting' = Collecting
    BY SameCounts
  <1>3. LockHeld' /\ HostsInOrder'
    BY DEF IInv, TypeOK, LockHeld, HostsInOrder, CancellationPoint
  <1>4. TokensMatchQueue' /\ PillsBeingQueued'
    BY <1>2 DEF IInv, TypeOK, TokensMatchQueue, PillsBeingQueued, LockHeld
  <1>5. PillPerLiveWorker'
    BY <1>2, CountedSetsFinite, FS_EmptySet DEF IInv, TypeOK, PillPerLiveWorker, LockHeld, CancellationPoint
  <1>6. ThreadsStarted' /\ SessionsConserved'
    BY <1>2 DEF IInv, TypeOK, ThreadsStarted, SessionsConserved, LockHeld, CancellationPoint
  <1> QED
    BY <1>1, <1>3, <1>4, <1>5, <1>6 DEF IInv

LEMMA FinalizeLockIInv == IInv /\ FinalizeLock => IInv'
  <1> SUFFICES ASSUME IInv, FinalizeLock PROVE IInv'
    OBVIOUS
  <1> USE Constants, WorkersFinite DEF FinalizeLock, mainVars, workerVars, configVars
  <1>1. TypeOK'
    BY DEF IInv, TypeOK, MainPcs, ConfigPcs, CancellationPoint
  <1>2. TokenHolders' = TokenHolders /\ Live' = Live /\ Collecting' = Collecting
    BY SameCounts
  <1>3. LockHeld' /\ HostsInOrder'
    BY DEF IInv, TypeOK, LockHeld, HostsInOrder, CancellationPoint
  <1>4. TokensMatchQueue' /\ PillsBeingQueued'
    BY <1>2 DEF IInv, TypeOK, TokensMatchQueue, PillsBeingQueued, LockHeld
  <1>5. PillPerLiveWorker'
    BY <1>2, CountedSetsFinite, FS_EmptySet DEF IInv, TypeOK, PillPerLiveWorker, LockHeld, CancellationPoint
  <1>6. ThreadsStarted' /\ SessionsConserved'
    BY <1>2 DEF IInv, TypeOK, ThreadsStarted, SessionsConserved, LockHeld, CancellationPoint
  <1> QED
    BY <1>1, <1>3, <1>4, <1>5, <1>6 DEF IInv

LEMMA FinalizeCancelIInv == IInv /\ FinalizeCancel => IInv'
  <1> SUFFICES ASSUME IInv, FinalizeCancel PROVE IInv'
    OBVIOUS
  <1> USE Constants, WorkersFinite DEF FinalizeCancel, mainVars, workerVars, configVars
  <1>1. TypeOK'
    BY DEF IInv, TypeOK, MainPcs, ConfigPcs, CancellationPoint
  <1>2. TokenHolders' = TokenHolders /\ Live' = Live /\ Collecting' = Collecting
    BY SameCounts
  <1>3. LockHeld' /\ HostsInOrder'
    BY DEF IInv, TypeOK, LockHeld, HostsInOrder, CancellationPoint
  <1>4. TokensMatchQueue' /\ PillsBeingQueued'
    BY <1>2 DEF IInv, TypeOK, TokensMatchQueue, PillsBeingQueued, LockHeld
  <1>5. PillPerLiveWorker'
    BY <1>2, CountedSetsFinite, FS_EmptySet DEF IInv, TypeOK, PillPerLiveWorker, LockHeld, CancellationPoint
  <1>6. ThreadsStarted' /\ SessionsConserved'
    BY <1>2 DEF IInv, TypeOK, ThreadsStarted, SessionsConserved, LockHeld, CancellationPoint
  <1> QED
    BY <1>1, <1>3, <1>4, <1>5, <1>6 DEF IInv

LEMMA InitializeIInv == IInv /\ Initialize => IInv'
  <1> SUFFICES ASSUME IInv, Initialize PROVE IInv'
    OBVIOUS
  <1> USE Constants, WorkersFinite DEF Initialize
  <1>1. TypeOK'
    BY DEF IInv, TypeOK, MainPcs, ConfigPcs, WorkerPcs
  <1>2. TokenHolders' = TokenHolders /\ Collecting' = Collecting
    BY DEF IInv, ThreadsStarted, TokenHolders, Collecting
  <1>3. LockHeld' /\ HostsInOrder'
    BY DEF IInv, TypeOK, LockHeld, HostsInOrder
  <1>4. TokensMatchQueue' /\ PillsBeingQueued' /\ PillPerLiveWorker'
    BY <1>2 DEF IInv, TypeOK, TokensMatchQueue, PillsBeingQueued, PillPerLiveWorker
  <1>5. ThreadsStarted' /\ SessionsConserved'
    BY <1>2 DEF IInv, TypeOK, ThreadsStarted, SessionsConserved
  <1> QED
    BY <1>1, <1>3, <1>4, <1>5 DEF IInv

LEMMA MainPushIInv == IInv /\ MainPush => IInv'
  <1> SUFFICES ASSUME IInv, MainPush PROVE IInv'
    OBVIOUS
  <1> USE Constants, WorkersFinite DEF MainPush, workerVars, configVars
  <1>1. mainI \in Host \cup {Pill} /\ mainI # Pill
    BY DEF IInv, TypeOK, Host, Pill
  <1>2. queue \in Seq(Host \cup {Pill})
    BY DEF IInv, TypeOK
  <1>3. /\ queue' \in Seq(Host \cup {Pill})
        /\ Len(queue') = Len(queue) + 1
        /\ \A i \in 1 .. Len(queue) : queue'[i] = queue[i]
        /\ queue'[Len(queue) + 1] = mainI
        /\ Len(queue) \in Nat
    BY <1>1, <1>2, PushFacts
  <1>4. TokenHolders' = TokenHolders /\ Live' = Live /\ Collecting' = Collecting
    BY SameCounts
  <1>5. TypeOK'
    BY <1>3 DEF IInv, TypeOK
  <1>6. LockHeld' /\ ThreadsStarted' /\ SessionsConserved'
    BY <1>4 DEF IInv, TypeOK, LockHeld, ThreadsStarted, SessionsConserved
  <1>7. HostsInOrder'
    <2>1. \A i \in 1 .. Len(queue) : queue[i] \in Int /\ queue[i] < mainI /\ queue[i] # Pill
      BY <1>2 DEF IInv, HostsInOrder, Host, Pill
    <2>2. mainI \in Int
      BY DEF IInv, TypeOK
    <2>3. \A i, j \in 1 .. Len(queue) :
             i < j /\ queue[i] # Pill => queue[i] < queue[j]
      BY DEF IInv, HostsInOrder
    <2> QED
      BY <1>1, <1>3, <2>1, <2>2, <2>3 DEF HostsInOrder
  <1>8. TokensMatchQueue'
    BY <1>1, <1>3, <1>4, CountedSetsFinite DEF IInv, TypeOK, TokensMatchQueue
  <1>9. PillsBeingQueued' /\ PillPerLiveWorker'
    BY <1>4 DEF IInv, LockHeld, PillsBeingQueued, PillPerLiveWorker
  <1> QED
    BY <1>5, <1>6, <1>7, <1>8, <1>9 DEF IInv

LEMMA FinalizeDrainIInv == IInv /\ FinalizeDrain => IInv'
  <1> SUFFICES ASSUME IInv, FinalizeDrain PROVE IInv'
    OBVIOUS
  <1> USE Constants, WorkersFinite DEF FinalizeDrain, mainVars, workerVars
  <1>1. queue' \in Seq(Host \cup {Pill}) /\ Len(queue') = 0
    BY EmptySeq
  <1>2. TokenHolders' = TokenHolders /\ Live' = Live /\ Collecting' = Collecting
    BY SameCounts
  <1>3. TypeOK'
    BY <1>1 DEF IInv, TypeOK, ConfigPcs
  <1>4. LockHeld' /\ HostsInOrder' /\ ThreadsStarted' /\ SessionsConserved'
    BY <1>1, <1>2 DEF IInv, TypeOK, LockHeld, HostsInOrder, ThreadsStarted, SessionsConserved
  <1>5. TokensMatchQueue' /\ PillsBeingQueued' /\ PillPerLiveWorker'
    BY <1>1 DEF IInv, TokensMatchQueue, PillsBeingQueued, PillPerLiveWorker
  <1> QED
    BY <1>3, <1>4, <1>5 DEF IInv

LEMMA FinalizePillIInv == IInv /\ FinalizePill => IInv'
  <1> SUFFICES ASSUME IInv, FinalizePill PROVE IInv'
    OBVIOUS
  <1> USE Constants, WorkersFinite DEF FinalizePill, mainVars, workerVars
  <1>1. queue \in Seq(Host \cup {Pill})
    BY DEF IInv, TypeOK
  <1>2. /\ queue' \in Seq(Host \cup {Pill})
        /\ Len(queue') = Len(queue) + 1
        /\ \A i \in 1 .. Len(queue) : queue'[i] = queue[i]
        /\ queue'[Len(queue) + 1] = Pill
        /\ Len(queue) \in Nat
    BY <1>1, PushFacts
  <1>3. TokenHolders' = TokenHolders /\ Live' = Live /\ Collecting' = Collecting
    BY SameCounts
  <1>4. TypeOK'
    BY <1>2 DEF IInv, TypeOK
  <1>5. PillsBeingQueued'
    BY <1>2 DEF IInv, TypeOK, PillsBeingQueued
  <1>6. HostsInOrder'
    <2>1. \A i \in 1 .. Len(queue') : queue'[i] = Pill
      BY <1>5 DEF PillsBeingQueued
    <2> QED
      BY <2>1 DEF IInv, LockHeld, HostsInOrder
  <1>7. LockHeld' /\ ThreadsStarted' /\ SessionsConserved'
    BY <1>3 DEF IInv, TypeOK, LockHeld, ThreadsStarted, SessionsConserved
  <1>8. TokensMatchQueue' /\ PillPerLiveWorker'
    BY DEF TokensMatchQueue, PillPerLiveWorker
  <1> QED
    BY <1>4, <1>5, <1>6, <1>7, <1>8 DEF IInv

LEMMA FinalizeUnlockIInv == IInv /\ FinalizeUnlock => IInv'
  <1> SUFFICES ASSUME IInv, FinalizeUnlock PROVE IInv'
    OBVIOUS
  <1> USE Constants, WorkersFinite DEF FinalizeUnlock, mainVars, workerVars
  <1>1. TypeOK'
    BY DEF IInv, TypeOK, ConfigPcs
  <1>2. Live' = Worker /\ Collecting' = Collecting
    BY DEF IInv, PillsBeingQueued, Live, Collecting
  <1>3. LockHeld' /\ HostsInOrder'
    BY DEF IInv, TypeOK, LockHeld, HostsInOrder
  <1>4. TokensMatchQueue' /\ PillsBeingQueued'
    BY DEF TokensMatchQueue, PillsBeingQueued
  <1>5. PillPerLiveWorker'
    BY <1>2 DEF IInv, LockHeld, PillsBeingQueued, PillPerLiveWorker
  <1>6. ThreadsStarted' /\ SessionsConserved'
    BY <1>2 DEF IInv, TypeOK, ThreadsStarted, SessionsConserved
  <1> QED
    BY <1>1, <1>3, <1>4, <1>5, <1>6 DEF IInv

LEMMA FinalizeJoinIInv == IInv /\ FinalizeJoin => IInv'
  <1> SUFFICES ASSUME IInv, FinalizeJoin PROVE IInv'
    OBVIOUS
  <1> USE Constants, WorkersFinite DEF FinalizeJoin, mainVars, workerVars
  <1>1. TypeOK'
    BY DEF IInv, TypeOK, ConfigPcs
  <1>2. TokenHolders' = TokenHolders /\ Live' = Live /\ Collecting' = Collecting
    BY SameCounts
  <1>3. LockHeld' /\ HostsInOrder' /\ SessionsConserved'
    BY <1>2 DEF IInv, TypeOK, LockHeld, HostsInOrder, SessionsConserved
  <1>4. TokensMatchQueue' /\ PillsBeingQueued' /\ PillPerLiveWorker'
    BY <1>2 DEF IInv, TokensMatchQueue, PillsBeingQueued, PillPerLiveWorker
  <1>5. ThreadsStarted'
    BY DEF IInv, TypeOK, ThreadsStarted, Worker
  <1> QED
    BY <1>1, <1>3, <1>4, <1>5 DEF IInv

LEMMA FinalizeReturnIInv == IInv /\ FinalizeReturn => IInv'
  <1> SUFFICES ASSUME IInv, FinalizeReturn PROVE IInv'
    OBVIOUS
  <1> USE Constants, WorkersFinite DEF FinalizeReturn, mainVars, workerVars
  <1>1. TypeOK'
    BY DEF IInv, TypeOK, ConfigPcs
  <1>2. TokenHolders' = TokenHolders /\ Live' = Live /\ Collecting' = Collecting
    BY SameCounts
  <1>3. LockHeld' /\ HostsInOrder' /\ SessionsConserved'
    BY <1>2 DEF IInv, TypeOK, LockHeld, HostsInOrder, SessionsConserved
  <1>4. TokensMatchQueue' /\ PillsBeingQueued' /\ PillPerLiveWorker'
    BY <1>2 DEF IInv, TokensMatchQueue, PillsBeingQueued, PillPerLiveWorker
  <1>5. ThreadsStarted'
    BY DEF IInv, TypeOK, ThreadsStarted, Worker
  <1> QED
    BY <1>1, <1>3, <1>4, <1>5 DEF IInv

-----------------------------------------------------------------------------
(* The workers' steps move one worker between the counted sets.             *)

LEMMA WorkerSemWaitIInv ==
    ASSUME NEW w \in Worker, IInv, WorkerSemWait(w)
    PROVE  IInv'
  <1> USE Constants, WorkersFinite DEF WorkerSemWait, mainVars, configVars
  <1>1. TypeOK'
    BY DEF IInv, TypeOK, WorkerPcs
  <1>2. /\ TokenHolders' = TokenHolders \cup {w} /\ w \notin TokenHolders
        /\ Live' = Live /\ Collecting' = Collecting
    BY DEF IInv, TypeOK, TokenHolders, Live, Collecting
  <1>3. Cardinality(TokenHolders') = Cardinality(TokenHolders) + 1
    BY <1>2, CountedSetsFinite, FS_AddElement
  <1>4. LockHeld' /\ HostsInOrder' /\ SessionsConserved'
    BY <1>2 DEF IInv, TypeOK, LockHeld, HostsInOrder, SessionsConserved
  <1>5. TokensMatchQueue' /\ PillsBeingQueued'
    BY <1>3, CountedSetsFinite DEF IInv, TypeOK, TokensMatchQueue, PillsBeingQueued
  <1>6. PillPerLiveWorker'
    BY <1>2 DEF IInv, PillPerLiveWorker
  <1>7. ThreadsStarted'
    BY DEF IInv, TypeOK, ThreadsStarted, Worker
  <1> QED
    BY <1>1, <1>4, <1>5, <1>6, <1>7 DEF IInv

\* The pop: while hosts are queued it yields a host, once the pills are queued
\* it yields a pill; either way one token holder and one queue entry go.
LEMMA WorkerPopIInv ==
    ASSUME NEW w \in Worker, IInv, WorkerPop(w)
    PROVE  IInv' /\ (cpc \in {"join", "destroyed"} => wpc'[w] = "exit")
  <1> USE Constants, WorkersFinite DEF WorkerPop, mainVars, configVars
  <1>1. queue \in Seq(Host \cup {Pill})
    BY DEF IInv, TypeOK
  <1>2. /\ queue' \in Seq(Host \cup {Pill})
        /\ Len(queue) \in Nat /\ Len(queue) > 0
        /\ Len(queue') = Len(queue) - 1
        /\ \A i \in 1 .. Len(queue) - 1 : queue'[i] = queue[i + 1]
        /\ Head(queue) = queue[1] /\ Head(queue) \in Host \cup {Pill}
    BY <1>1, PopFacts
  <1>3. TypeOK'
    BY <1>2 DEF IInv, TypeOK, WorkerPcs
  <1>4. /\ TokenHolders' = TokenHolders \ {w} /\ w \in TokenHolders
        /\ Collecting' = Collecting
    BY DEF IInv, TypeOK, TokenHolders, Collecting
  <1>5. Cardinality(TokenHolders') = Cardinality(TokenHolders) - 1
    BY <1>4, CountedSetsFinite, FS_RemoveElement
  <1>6. cpc \in {"new", "running", "finalize", "join"}
    BY DEF IInv, TypeOK, ConfigPcs, LockHeld, ThreadsStarted
  <1>7. LockHeld' /\ SessionsConserved'
    BY <1>4 DEF IInv, TypeOK, LockHeld, SessionsConserved
  <1>8. HostsInOrder'
    <2>1. \A i, j \in 1 .. Len(queue) :
             i < j /\ queue[i] # Pill => queue[i] < queue[j]
      BY DEF IInv, HostsInOrder
    <2>2. mainPc' # "push"
      BY DEF IInv, LockHeld
    <2> QED
      BY <1>2, <2>1, <2>2 DEF HostsInOrder
  <1>9. CASE cpc = "join"
    <2>1. w \in Live
      BY DEF Live
    <2>2. /\ Len(queue) = Cardinality(Live)
          /\ \A i \in 1 .. Len(queue) : queue[i] = Pill
          /\ mainPc # "push"
      BY <1>9, <2>1 DEF IInv, PillPerLiveWorker
    <2>3. wpc' = [wpc EXCEPT ![w] = "exit"]
      <3>1. Head(queue) = Pill
        BY <1>2, <2>2
      <3> QED
        BY <3>1
    <2>4. Live' = Live \ {w}
      BY <2>3 DEF IInv, TypeOK, Live
    <2>5. Cardinality(Live') = Cardinality(Live) - 1
      BY <2>1, <2>4, CountedSetsFinite, FS_RemoveElement
    <2>6. PillPerLiveWorker'
      BY <1>2, <2>2, <2>5 DEF PillPerLiveWorker
    <2>7. TokensMatchQueue' /\ PillsBeingQueued'
      BY <1>9 DEF TokensMatchQueue, PillsBeingQueued
    <2>8. ThreadsStarted'
      BY <1>9, <2>3 DEF IInv, TypeOK, ThreadsStarted, Worker
    <2>9. wpc'[w] = "exit"
      BY <2>3 DEF IInv, TypeOK
    <2> QED
      BY <1>3, <1>7, <1>8, <2>6, <2>7, <2>8, <2>9 DEF IInv
  <1>10. CASE cpc \in {"new", "running", "finalize"}
    <2>1. wpc' = [wpc EXCEPT ![w] = "session"]
      <3>1. Head(queue) # Pill
        BY <1>2, <1>10 DEF IInv, TokensMatchQueue
      <3> QED
        BY <3>1
    <2>2. TokensMatchQueue'
      BY <1>2, <1>5, <1>10, <2>1, CountedSetsFinite DEF IInv, TypeOK, TokensMatchQueue
    <2>3. PillsBeingQueued' /\ PillPerLiveWorker'
      BY <1>10 DEF PillsBeingQueued, PillPerLiveWorker
    <2>4. ThreadsStarted'
      BY <1>10, <2>1 DEF IInv, TypeOK, ThreadsStarted
    <2> QED
      BY <1>3, <1>7, <1>8, <1>10, <2>2, <2>3, <2>4 DEF IInv
  <1> QED
    BY <1>6, <1>9, <1>10

LEMMA WorkerSessionIInv ==
    ASSUME NEW w \in Worker, IInv, WorkerSession(w)
    PROVE  IInv'
  <1> USE Constants, WorkersFinite DEF WorkerSession, mainVars, configVars
  <1>1. /\ Collecting' = Collecting \cup {w} /\ w \notin Collecting
        /\ TokenHolders' = TokenHolders /\ Live' = Live
    BY DEF IInv, TypeOK, TokenHolders, Live, Collecting
  <1>2. Cardinality(Collecting') = Cardinality(Collecting) + 1
    BY <1>1, CountedSetsFinite, FS_AddElement
  <1>3. SessionsConserved'
    BY <1>2, CountedSetsFinite DEF IInv, TypeOK, SessionsConserved
  <1>4. TypeOK'
    <2>1. Cardinality(Collecting') \in Nat
      BY <1>1, CountedSetsFinite, FS_AddElement, FS_CardinalityType
    <2>2. sessions' \in 0 .. SessionSlots
      BY <1>3, <2>1 DEF IInv, TypeOK, SessionsConserved
    <2> QED
      BY <2>2 DEF IInv, TypeOK, WorkerPcs
  <1>5. LockHeld' /\ HostsInOrder' /\ TokensMatchQueue' /\ PillsBeingQueued'
    BY <1>1 DEF IInv, TypeOK, LockHeld, HostsInOrder, TokensMatchQueue, PillsBeingQueued
  <1>6. PillPerLiveWorker'
    BY <1>1 DEF IInv, PillPerLiveWorker
  <1>7. ThreadsStarted'
    BY DEF IInv, TypeOK, ThreadsStarted, Worker
  <1> QED
    BY <1>3, <1>4, <1>5, <1>6, <1>7 DEF IInv

LEMMA WorkerCollectedIInv ==
    ASSUME NEW w \in Worker, IInv, WorkerCollected(w)
    PROVE  IInv'
  <1> USE Constants, WorkersFinite DEF WorkerCollected, mainVars, configVars
  <1>1. /\ Collecting' = Collecting \ {w} /\ w \in Collecting
        /\ TokenHolders' = TokenHolders /\ Live' = Live
    BY DEF IInv, TypeOK, TokenHolders, Live, Collecting
  <1>2. Cardinality(Collecting') = Cardinality(Collecting) - 1
    BY <1>1, CountedSetsFinite, FS_RemoveElement
  <1>3. SessionsConserved'
    BY <1>2, CountedSetsFinite DEF IInv, TypeOK, SessionsConserved
  <1>4. TypeOK'
    <2>1. Cardinality(Collecting') \in Nat
      BY <1>1, CountedSetsFinite, FS_RemoveElement, FS_CardinalityType
    <2>2. sessions' \in 0 .. SessionSlots
      BY <1>3, <2>1 DEF IInv, TypeOK, SessionsConserved
    <2> QED
      BY <2>2 DEF IInv, TypeOK, WorkerPcs
  <1>5. LockHeld' /\ HostsInOrder' /\ TokensMatchQueue' /\ PillsBeingQueued'
    BY <1>1 DEF IInv, TypeOK, LockHeld, HostsInOrder, TokensMatchQueue, PillsBeingQueued
  <1>6. PillPerLiveWorker'
    BY <1>1 DEF IInv, PillPerLiveWorker
  <1>7. ThreadsStarted'
    BY DEF IInv, TypeOK, ThreadsStarted, Worker
  <1> QED
    BY <1>3, <1>4, <1>5, <1>6, <1>7 DEF IInv

-----------------------------------------------------------------------------
LEMMA StutterIInv == IInv /\ UNCHANGED vars => IInv'
  <1> SUFFICES ASSUME IInv, UNCHANGED vars PROVE IInv'
    OBVIOUS
  <1> USE DEF vars
  <1>1. TokenHolders' = TokenHolders /\ Live' = Live /\ Collecting' = Collecting
    BY SameCounts
  <1> QED
    BY <1>1 DEF IInv, TypeOK, LockHeld, HostsInOrder, TokensMatchQueue,
       PillsBeingQueued, PillPerLiveWorker, ThreadsStarted, SessionsConserved

\* Every step preserves the inductive invariant, one case per action.
LEMMA NextIInv == IInv /\ [Next]_vars => IInv'
  <1> SUFFICES ASSUME IInv, [Next]_vars PROVE IInv'
    OBVIOUS
  <1>1. CASE Initialize
    BY <1>1, InitializeIInv
  <1>2. CASE MainStep
    BY <1>2, MainLogIInv, MainLockIInv, MainPushIInv, MainUnlockIInv, MainWakeIInv,
       MainCancelledIInv, MainTouchesFreedIInv DEF MainStep
  <1>3. CASE \E w \in Worker : WorkerStep(w)
    <2>1. PICK w \in Worker : WorkerStep(w)
      BY <1>3
    <2> QED
      BY <2>1, WorkerSemWaitIInv, WorkerPopIInv, WorkerSessionIInv,
         WorkerCollectedIInv DEF WorkerStep
  <1>4. CASE DestroyUninitialized \/ FinalizeBegin
    BY <1>4, DestroyUninitializedIInv, FinalizeBeginIInv
  <1>5. CASE FinalizeStep
    BY <1>5, FinalizeLockIInv, FinalizeCancelIInv, FinalizeDrainIInv, FinalizePillIInv,
       FinalizeUnlockIInv, FinalizeJoinIInv, FinalizeReturnIInv DEF FinalizeStep
  <1>6. CASE Terminated \/ UNCHANGED vars
    BY <1>6, StutterIInv DEF Terminated
  <1> QED
    BY <1>1, <1>2, <1>3, <1>4, <1>5, <1>6 DEF Next

LEMMA SpecIInv == Spec => []IInv
  BY InitIInv, NextIInv, PTL DEF Spec

\* The variables keep their types and the semaphores their ranges.
THEOREM TypeCorrect == Spec => []TypeOK
  <1>1. IInv => TypeOK
    BY DEF IInv
  <1> QED
    BY <1>1, SpecIInv, PTL

\* front() is never called on an empty queue: before finalize() drains the queue
\* every token holder has an entry of its own, afterwards every live worker has a
\* pill, and in between the config thread holds the mutex.
THEOREM QueueNeverPoppedEmpty == Spec => []NoEmptyPop
  <1>1. IInv => NoEmptyPop
    <2> SUFFICES ASSUME IInv, NEW w \in Worker, wpc[w] = "token", lock = Nobody
                 PROVE  queue # <<>>
      BY DEF NoEmptyPop
    <2>1. Len(<<>>) = 0
      BY EmptySeq
    <2>2. cpc \in {"new", "running", "finalize", "join"}
      BY Constants DEF IInv, TypeOK, ConfigPcs, LockHeld, ThreadsStarted
    <2>3. CASE cpc = "join"
      <3>1. w \in Live
        BY DEF Live
      <3>2. Cardinality(Live) # 0
        BY <3>1, CountedSetsFinite, FS_EmptySet
      <3> QED
        BY <2>1, <2>3, <3>1, <3>2 DEF IInv, PillPerLiveWorker
    <2>4. CASE cpc \in {"new", "running", "finalize"}
      <3>1. w \in TokenHolders
        BY DEF TokenHolders
      <3>2. Cardinality(TokenHolders) # 0
        BY <3>1, CountedSetsFinite, FS_EmptySet
      <3> QED
        BY <2>1, <2>4, <3>2, CountedSetsFinite DEF IInv, TypeOK, TokensMatchQueue
    <2> QED
      BY <2>2, <2>3, <2>4
  <1> QED
    BY <1>1, SpecIInv, PTL

\* No host is queued twice: the queue is strictly increasing where it holds hosts.
THEOREM HostsQueuedOnce == Spec => []QueuedOnce
  <1>1. IInv => QueuedOnce
    <2> SUFFICES ASSUME IInv, NEW i \in 1 .. Len(queue), NEW j \in 1 .. Len(queue),
                        i # j, queue[i] # Pill
                 PROVE  queue[i] # queue[j]
      BY DEF QueuedOnce
    <2>1. queue[i] \in Int /\ queue[j] \in Int
      BY Constants DEF IInv, TypeOK, Host, Pill
    <2>2. i \in Int /\ j \in Int /\ (i < j \/ j < i)
      OBVIOUS
    <2> QED
      BY <2>1, <2>2 DEF IInv, HostsInOrder
  <1> QED
    BY <1>1, SpecIInv, PTL

\* Session slots are conserved whatever the interleaving.
THEOREM SessionSlotsConserved == Spec => []SessionsConserved
  <1>1. IInv => SessionsConserved
    BY DEF IInv
  <1> QED
    BY <1>1, SpecIInv, PTL

\* After the pills are queued a worker that pops leaves: no poll is begun.
THEOREM NoPollAfterPills == Spec => NoCollectionAfterFinalize
  <1> DEFINE Quiet == \A w \in Worker :
          cpc \in {"join", "destroyed"} /\ wpc[w] = "token" => wpc'[w] # "session"
  <1>1. IInv /\ [Next]_vars => [Quiet]_vars
    <2> SUFFICES ASSUME IInv, Next, NEW w \in Worker,
                        cpc \in {"join", "destroyed"}, wpc[w] = "token"
                 PROVE  wpc'[w] # "session"
      OBVIOUS
    <2>1. CASE wpc' = wpc
      BY <2>1
    <2>2. CASE \E v \in Worker : WorkerStep(v)
      <3>1. PICK v \in Worker : WorkerStep(v)
        BY <2>2
      <3>2. CASE v # w
        BY <3>1, <3>2 DEF IInv, TypeOK, WorkerStep, WorkerSemWait, WorkerPop,
           WorkerSession, WorkerCollected
      <3>3. CASE v = w
        <4>1. WorkerPop(w)
          BY <3>1, <3>3 DEF WorkerStep, WorkerSemWait, WorkerSession, WorkerCollected
        <4> QED
          BY <4>1, WorkerPopIInv
      <3> QED
        BY <3>2, <3>3
    <2>3. wpc' = wpc \/ (\E v \in Worker : WorkerStep(v))
      BY DEF Next, Initialize, MainStep, MainLog, MainLock, MainPush, MainUnlock, MainWake,
         MainCancelled, MainTouchesFreed, DestroyUninitialized, FinalizeBegin,
         FinalizeStep, FinalizeLock, FinalizeCancel, FinalizeDrain, FinalizePill,
         FinalizeUnlock, FinalizeJoin, FinalizeReturn, Terminated, vars, workerVars
    <2> QED
      BY <2>1, <2>2, <2>3
  <1> QED
    BY <1>1, SpecIInv, PTL DEF Spec, NoCollectionAfterFinalize
=============================================================================
