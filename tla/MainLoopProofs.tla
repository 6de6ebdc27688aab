--------------------------- MODULE MainLoopProofs ---------------------------
(* Proofs of the safety properties of MainLoop, for any addresses, clients  *)
(* and number of polls.  The argument: IInv says, for every place of main,  *)
(* which configurations exist and poll, who holds config_mutex, and what a  *)
(* client's remembered pointer still tells.                                 *)
EXTENDS MainLoop, TLAPS

USE DEF configVars, clientVars, signalVars

LEMMA InitIInv == Init => IInv
<1> SUFFICES ASSUME Init PROVE IInv
  OBVIOUS
<1>1. TypeOK
  <2>1. polls \in [Client -> 0 .. WaitSecs]
    BY WaitSecsAssumption DEF Init
  <2>2. /\ cpc \in [Client -> {"idle", "kill", "poll", "status"}]
        /\ old \in [Client -> Addr \cup {Null}] /\ seen \in [Client -> Addr \cup {Null}]
        /\ moved \in [Client -> BOOLEAN]
    BY DEF Init
  <2> QED BY <2>1, <2>2 DEF Init, TypeOK
<1>2. ConfigsAt /\ PointersAt
  BY DEF Init, ConfigsAt, PointersAt
<1>3. MutexHeld /\ RememberedIsCurrent
  BY DEF Init, MutexHeld, RememberedIsCurrent
<1> QED BY <1>1, <1>2, <1>3 DEF IInv

\* Starting: the first configuration is allocated, then polls.
LEMMA StartIInv ==
    ASSUME IInv,
           \/ \E a \in Addr : StartLoad(a)
           \/ StartInit \/ StartFails
    PROVE  IInv'
<1>1. ASSUME NEW a \in Addr, StartLoad(a) PROVE IInv'
  BY <1>1, HoldersAssumption
     DEF StartLoad, IInv, TypeOK, ConfigsAt, PointersAt, MutexHeld, RememberedIsCurrent
<1>2. CASE StartInit
  BY <1>2 DEF StartInit, IInv, TypeOK, ConfigsAt, PointersAt, MutexHeld, RememberedIsCurrent
<1>3. CASE StartFails
  BY <1>3 DEF StartFails, IInv, TypeOK, ConfigsAt, PointersAt, MutexHeld, RememberedIsCurrent
<1> QED BY <1>1, <1>2, <1>3

\* Waiting and waking only move main's program counter.
LEMMA WaitIInv ==
    ASSUME IInv, Wait \/ Timeout \/ SpuriousWakeup \/ Woken
    PROVE  IInv'
<1>1. CASE Wait
  BY <1>1 DEF Wait, IInv, TypeOK, ConfigsAt, PointersAt, MutexHeld, RememberedIsCurrent
<1>2. CASE Timeout
  BY <1>2 DEF Timeout, IInv, TypeOK, ConfigsAt, PointersAt, MutexHeld, RememberedIsCurrent
<1>3. CASE SpuriousWakeup
  BY <1>3 DEF SpuriousWakeup, IInv, TypeOK, ConfigsAt, PointersAt, MutexHeld,
              RememberedIsCurrent
<1>4. CASE Woken
  BY <1>4 DEF Woken, IInv, TypeOK, ConfigsAt, PointersAt, MutexHeld, RememberedIsCurrent
<1> QED BY <1>1, <1>2, <1>3, <1>4

\* A reload, with each of the ways it can fail.
LEMMA ReloadIInv ==
    ASSUME IInv, Reload
    PROVE  IInv'
<1>1. ASSUME NEW a \in Addr, LoadConfig(a) PROVE IInv'
  BY <1>1 DEF LoadConfig, IInv, TypeOK, ConfigsAt, PointersAt, MutexHeld,
              RememberedIsCurrent
<1>2. CASE LoadFails
  BY <1>2 DEF LoadFails, IInv, TypeOK, ConfigsAt, PointersAt, MutexHeld,
              RememberedIsCurrent
<1>8. CASE LoadExits
  BY <1>8 DEF LoadExits, IInv, TypeOK, ConfigsAt, PointersAt, MutexHeld,
              RememberedIsCurrent
<1>3. CASE InitConfig
  BY <1>3 DEF InitConfig, IInv, TypeOK, ConfigsAt, PointersAt, MutexHeld,
              RememberedIsCurrent
<1>4. CASE InitFails
  BY <1>4 DEF InitFails, IInv, TypeOK, ConfigsAt, PointersAt, MutexHeld,
              RememberedIsCurrent
<1>5. CASE SwapLock
  BY <1>5, HoldersAssumption
     DEF SwapLock, IInv, TypeOK, ConfigsAt, PointersAt, MutexHeld, RememberedIsCurrent
<1>6. CASE SwapDelete
  <2>1. /\ live = {current_config, new_config} /\ ready = {current_config, new_config}
        /\ current_config \in Addr /\ new_config \in Addr /\ new_config # current_config
    BY <1>6 DEF SwapDelete, IInv, ConfigsAt, PointersAt
  <2>2. live' = {new_config} /\ ready' = {new_config}
    BY <1>6, <2>1 DEF SwapDelete
  <2>3. TypeOK'
    BY <1>6, <2>1, <2>2 DEF SwapDelete, IInv, TypeOK
  <2>4. ConfigsAt' /\ PointersAt'
    BY <1>6, <2>1, <2>2 DEF SwapDelete, ConfigsAt, PointersAt
  <2>5. MutexHeld' /\ RememberedIsCurrent'
    BY <1>6 DEF SwapDelete, IInv, MutexHeld, RememberedIsCurrent
  <2> QED BY <2>3, <2>4, <2>5 DEF IInv
<1>7. CASE SwapPublish
  <2>1. /\ live = {new_config} /\ ready = {new_config} /\ new_config \in Addr
        /\ config_mutex = Main
    BY <1>7 DEF SwapPublish, IInv, ConfigsAt, PointersAt, MutexHeld
  <2>2. moved' \in [Client -> BOOLEAN]
    BY <1>7 DEF SwapPublish
  <2>3. TypeOK'
    BY <1>7, <2>1, <2>2 DEF SwapPublish, IInv, TypeOK
  <2>4. ConfigsAt' /\ PointersAt'
    BY <1>7, <2>1 DEF SwapPublish, ConfigsAt, PointersAt
  <2>5. MutexHeld'
    BY <1>7, <2>1, HoldersAssumption DEF SwapPublish, IInv, MutexHeld
  <2>6. RememberedIsCurrent'
    <3>1. \A c \in Client : cpc'[c] \in {"kill", "poll"} => moved'[c]
      BY <1>7 DEF SwapPublish
    <3> QED BY <1>7, <3>1 DEF SwapPublish, RememberedIsCurrent
  <2> QED BY <2>3, <2>4, <2>5, <2>6 DEF IInv
<1> QED BY <1>1, <1>2, <1>3, <1>4, <1>5, <1>6, <1>7, <1>8 DEF Reload

LEMMA EndIInv ==
    ASSUME IInv, Done \/ Return
    PROVE  IInv'
BY DEF Done, Return, IInv, TypeOK, ConfigsAt, PointersAt, MutexHeld, RememberedIsCurrent

\* Signals move main's program counter at most to "woken" or to the end.
LEMMA SignalIInv ==
    ASSUME IInv, SignalStep \/ \E s \in Signal : Kill(s)
    PROVE  IInv'
<1>1. ASSUME NEW s \in Signal, Kill(s) PROVE IInv'
  BY <1>1 DEF Kill, IInv, TypeOK, ConfigsAt, PointersAt, MutexHeld, RememberedIsCurrent
<1>2. ASSUME NEW s \in Hup, TakeHup(s) PROVE IInv'
  BY <1>2 DEF TakeHup, IInv, TypeOK, ConfigsAt, PointersAt, MutexHeld, RememberedIsCurrent
<1>3. CASE HupLock
  BY <1>3 DEF HupLock, IInv, TypeOK, ConfigsAt, PointersAt, MutexHeld, RememberedIsCurrent
<1>4. CASE TakeTerm
  BY <1>4 DEF TakeTerm, IInv, TypeOK, ConfigsAt, PointersAt, MutexHeld, RememberedIsCurrent
<1>5. CASE TakeInt
  BY <1>5 DEF TakeInt, IInv, TypeOK, ConfigsAt, PointersAt, MutexHeld, RememberedIsCurrent
<1>6. CASE CondSignal
  BY <1>6 DEF CondSignal, IInv, TypeOK, ConfigsAt, PointersAt, MutexHeld,
              RememberedIsCurrent
<1> QED BY <1>1, <1>2, <1>3, <1>4, <1>5, <1>6 DEF SignalStep

\* Control workers leave the configurations alone.
LEMMA ClientIInv ==
    ASSUME IInv, NEW c \in Client, ClientStep(c)
    PROVE  IInv'
<1> USE DEF Serving, Exited
<1>1. CASE ReloadBegin(c)
  BY <1>1 DEF ReloadBegin, IInv, TypeOK, ConfigsAt, PointersAt, MutexHeld,
              RememberedIsCurrent
<1>2. CASE ReloadKill(c)
  BY <1>2, WaitSecsAssumption
     DEF ReloadKill, IInv, TypeOK, ConfigsAt, PointersAt, MutexHeld, RememberedIsCurrent,
         Signal
<1>3. CASE ReloadPoll(c)
  BY <1>3, WaitSecsAssumption
     DEF ReloadPoll, IInv, TypeOK, ConfigsAt, PointersAt, MutexHeld, RememberedIsCurrent
<1>4. CASE ReloadReply(c)
  BY <1>4, WaitSecsAssumption
     DEF ReloadReply, ReplyDue, IInv, TypeOK, ConfigsAt, PointersAt, MutexHeld,
         RememberedIsCurrent
<1>5. CASE StatusBegin(c)
  BY <1>5, HoldersAssumption
     DEF StatusBegin, IInv, TypeOK, ConfigsAt, PointersAt, MutexHeld, RememberedIsCurrent
<1>6. CASE StatusEnd(c)
  BY <1>6, HoldersAssumption
     DEF StatusEnd, IInv, TypeOK, ConfigsAt, PointersAt, MutexHeld, RememberedIsCurrent
<1> QED BY <1>1, <1>2, <1>3, <1>4, <1>5, <1>6 DEF ClientStep

LEMMA NextIInv == IInv /\ [Next]_vars => IInv'
<1> SUFFICES ASSUME IInv, [Next]_vars PROVE IInv'
  OBVIOUS
<1>1. CASE MainStep
  BY <1>1, StartIInv, WaitIInv, ReloadIInv, EndIInv DEF MainStep
<1>2. CASE SignalStep \/ \E s \in Signal : Kill(s)
  BY <1>2, SignalIInv
<1>3. CASE \E c \in Client : ClientStep(c)
  BY <1>3, ClientIInv
<1>4. CASE Terminated \/ UNCHANGED vars
  BY <1>4 DEF Terminated, vars, IInv, TypeOK, ConfigsAt, PointersAt, MutexHeld,
              RememberedIsCurrent
<1> QED BY <1>1, <1>2, <1>3, <1>4 DEF Next

LEMMA SpecIInv == Spec => []IInv
<1> QED BY InitIInv, NextIInv, PTL DEF Spec

\* Every variable of the main loop keeps its type.
THEOREM TypeCorrect == Spec => []TypeOK
<1>1. IInv => TypeOK
  BY DEF IInv
<1> QED BY <1>1, SpecIInv, PTL

\* Some allocated configuration polls from the end of the start to the end of
\* the process, whichever failure a reload reports.
THEOREM CollectionNeverStops == Spec => []ServiceContinues
<1>1. IInv => ServiceContinues
  BY DEF IInv, ConfigsAt, ServiceContinues, Running
<1> QED BY <1>1, SpecIInv, PTL

\* Between two reloads exactly one configuration is allocated.
THEOREM OneConfigBetweenReloads == Spec => []NoConfigLeak
<1>1. IInv => NoConfigLeak
  BY DEF IInv, ConfigsAt, NoConfigLeak
<1> QED BY <1>1, SpecIInv, PTL

\* A control worker never looks into a deleted configuration before main ends.
THEOREM StatusIsSafe == Spec => []StatusSeesLiveConfig
<1>1. IInv => StatusSeesLiveConfig
  BY HoldersAssumption
     DEF IInv, TypeOK, ConfigsAt, PointersAt, MutexHeld, StatusSeesLiveConfig, Exited
<1> QED BY <1>1, SpecIInv, PTL

\* The answer 200 to `reload' implies that the configuration was replaced.
THEOREM ReloadReplyTrue == Spec => []ReplyTruthful
<1>1. IInv => ReplyTruthful
  BY DEF IInv, RememberedIsCurrent, ReplyTruthful, ReplyDue, Answer
<1> QED BY <1>1, SpecIInv, PTL
=============================================================================
