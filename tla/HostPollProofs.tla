--------------------------- MODULE HostPollProofs ---------------------------
(***************************************************************************)
(* Proofs about HostPoll, for any range of the uptime, any gap, latency    *)
(* and length of the run.                                                  *)
(***************************************************************************)
EXTENDS HostPoll, TLAPS

LEMMA Constants ==
    /\ NumCollections \in Nat /\ Mapped \subseteq 0 .. NumCollections - 1
    /\ TicksPerSec \in Nat /\ TicksPerSec > 0
    /\ MaxGap \in Nat /\ MaxLatency \in Nat /\ MaxTime \in Nat /\ MaxGap <= MaxTime
    /\ UintRange \in Nat /\ UintRange > 1 /\ MaxGap < UintRange - 1
  BY NumCollectionsAssumption, TicksAssumption, UintAssumption, MaxTimeAssumption
     DEF Collection

-----------------------------------------------------------------------------
(* Arithmetic                                                               *)

\* Rounding down to whole seconds loses less than one.
LEMMA DivFacts ==
    ASSUME NEW a \in Nat, NEW T \in Nat, T > 0
    PROVE  /\ a \div T \in Nat
           /\ (a \div T) * T <= a
           /\ (a \div T) * T > a - T
  OBVIOUS

LEMMA ModFacts ==
    ASSUME NEW a \in Int, NEW R \in Nat, R > 0
    PROVE  /\ a % R \in 0 .. R - 1
           /\ \E q \in Int : a = q * R + (a % R)
  <1>1. a \div R \in Int /\ a % R \in 0 .. R - 1
    OBVIOUS
  <1>2. a = (a \div R) * R + (a % R)
    OBVIOUS
  <1> QED
    BY <1>1, <1>2

\* A number below the range is its own remainder.
LEMMA SmallMod ==
    ASSUME NEW R \in Nat, NEW a \in 0 .. R - 1
    PROVE  a % R = a
  OBVIOUS

\* Two numbers less than a turn apart differ by what their remainders differ by, if
\* that is known to be no turn back.
LEMMA NoTurn ==
    ASSUME NEW a \in Int, NEW b \in Int, NEW R \in Nat, R > 0, NEW g \in Nat,
           a - b >= 0, a - b < R - g,
           (a % R) - (b % R) > -g
    PROVE  a - b = (a % R) - (b % R)
  <1>1. PICK p \in Int : a = p * R + (a % R)
    BY ModFacts
  <1>2. PICK q \in Int : b = q * R + (b % R)
    BY ModFacts
  <1>3. a % R \in 0 .. R - 1 /\ b % R \in 0 .. R - 1
    BY ModFacts
  <1> DEFINE e == (a % R) - (b % R)
             k == p - q
  <1>4. k \in Int /\ e \in Int /\ e < R /\ e > -g
    BY <1>3
  <1>5. a - b = k * R + e
    <2>1. (p - q) * R = p * R - q * R
      OBVIOUS
    <2>2. p * R \in Int /\ q * R \in Int
      OBVIOUS
    <2> QED
      BY <1>1, <1>2, <1>3, <2>1, <2>2
  <1> HIDE DEF e, k
  <1>6. ~(k >= 1)
    <2> SUFFICES ASSUME k >= 1 PROVE FALSE
      OBVIOUS
    <2>1. k * R >= R
      BY <1>4
    <2> QED
      BY <2>1, <1>4, <1>5
  <1>7. ~(k <= -1)
    <2> SUFFICES ASSUME k <= -1 PROVE FALSE
      OBVIOUS
    <2>1. k * R <= -R
      BY <1>4
    <2> QED
      BY <2>1, <1>4, <1>5
  <1>8. k = 0
    BY <1>4, <1>6, <1>7
  <1> QED
    BY <1>4, <1>5, <1>8 DEF e

-----------------------------------------------------------------------------
(* The inductive invariant                                                  *)

\* What a device that was asked may have answered, and when.
SampleRight ==
    /\ sample \in [at : Time, boot : Time, value : Values]
    /\ sentAt <= sample.at /\ sample.at <= now /\ sample.boot <= sample.at
    /\ sample.value \in {[kind |-> "ticks", n |-> (sample.at - sample.boot) % UintRange],
                         [kind |-> "other", n |-> 0]}

\* A request is out for no longer than the latency, and the pair is older than it.
InFlight ==
    /\ boot <= now
    /\ sync # None => sync.at <= now
    /\ first # None => first.at <= now
    /\ pc \in {"sent", "answered"} =>
          /\ sentAt <= now /\ now - sentAt <= MaxLatency
          /\ sync # None => sync.at <= sentAt
          /\ first # None => first.at <= sentAt
    /\ pc = "answered" => SampleRight

\* The pair, once it was set: the uptime of its origin, or 0, and the local time
\* somewhere between that uptime was taken and it was processed.
PairRight ==
    sync # None =>
        /\ timeticks = 0 \/ timeticks = (sync.at - sync.boot) % UintRange
        /\ mytime * TicksPerSec > sync.at - TicksPerSec
        /\ mytime * TicksPerSec <= sync.at + MaxLatency

\* The uptime of an origin is above the pair's, by MaxGap at most.
InWindow(o) ==
    /\ ((o.at - o.boot) % UintRange) > timeticks
    /\ ((o.at - o.boot) % UintRange) - timeticks <= MaxGap

\* The pair before it was set: updates dated by it came from its window.
GarbagePair ==
    /\ pushed # None /\ pushed.sync = None => sync = None /\ first # None
    /\ sync # None => first = None
    /\ first # None => InWindow(first)

IInv ==
    /\ TypeOK /\ InFlight /\ PairRight /\ GarbagePair
    /\ TimestampAccurate /\ GarbageClockReplaced

LEMMA InitIInv == Init => IInv
  <1> SUFFICES ASSUME Init PROVE IInv
    OBVIOUS
  <1> USE Constants DEF Init
  <1>1. TypeOK
    BY DEF TypeOK, Time, Uint, Origins
  <1>2. InFlight
    BY DEF InFlight
  <1>3. PairRight /\ GarbagePair /\ TimestampAccurate /\ GarbageClockReplaced
    BY DEF PairRight, GarbagePair, TimestampAccurate, Dated, GarbageClockReplaced
  <1> QED
    BY <1>1, <1>2, <1>3 DEF IInv

\* All actions but Push leave the pair and what was pushed alone.
LEMMA HistoryKept ==
    ASSUME IInv, UNCHANGED <<hostVars, first, pushed>>
    PROVE  PairRight' /\ GarbagePair' /\ TimestampAccurate' /\ GarbageClockReplaced'
  <1> USE DEF hostVars
  <1>1. PairRight' /\ GarbagePair'
    BY DEF IInv, PairRight, GarbagePair, InWindow
  <1>2. TimestampAccurate' /\ GarbageClockReplaced'
    BY DEF IInv, TimestampAccurate, Dated, GarbageClockReplaced
  <1> QED
    BY <1>1, <1>2

-----------------------------------------------------------------------------
(* Every action but Push                                                    *)

LEMMA TickIInv == IInv /\ Tick => IInv'
  <1> SUFFICES ASSUME IInv, Tick PROVE IInv'
    OBVIOUS
  <1> USE Constants DEF Tick, loopVars, hostVars
  <1>1. TypeOK'
    BY DEF IInv, TypeOK, Time
  <1>2. SampleRight => SampleRight'
    BY DEF SampleRight, IInv, TypeOK, Time
  <1>3. InFlight'
    BY <1>2 DEF IInv, TypeOK, InFlight, Time, Origins
  <1> QED
    BY <1>1, <1>3, HistoryKept DEF IInv

LEMMA RebootIInv == IInv /\ Reboot => IInv'
  <1> SUFFICES ASSUME IInv, Reboot PROVE IInv'
    OBVIOUS
  <1> USE DEF Reboot, loopVars, hostVars
  <1>1. TypeOK'
    BY DEF IInv, TypeOK
  <1>2. InFlight'
    BY DEF IInv, TypeOK, InFlight, SampleRight, Time
  <1> QED
    BY <1>1, <1>2, HistoryKept DEF IInv

LEMMA AnswerIInv == IInv /\ Answer => IInv'
  <1> SUFFICES ASSUME IInv, Answer PROVE IInv'
    OBVIOUS
  <1> USE DEF Answer, hostVars
  <1>1. PICK v \in Answers : sample' = [at |-> now, boot |-> boot, value |-> v]
    OBVIOUS
  <1>2. now \in Time /\ boot \in Time /\ boot <= now
    BY DEF IInv, TypeOK, InFlight
  <1>3. v \in Values
    <2>1. (now - boot) % UintRange \in Uint /\ 0 \in Uint
      BY <1>2, Constants, ModFacts DEF Time, Uint
    <2> QED
      BY <2>1 DEF Answers, Values
  <1>4. sample' \in [at : Time, boot : Time, value : Values]
    BY <1>1, <1>2, <1>3
  <1>5. TypeOK'
    BY <1>4 DEF IInv, TypeOK
  <1>6. SampleRight'
    BY <1>1, <1>2, <1>4 DEF SampleRight, Answers, IInv, InFlight, TypeOK, Time
  <1>7. InFlight'
    BY <1>6 DEF IInv, InFlight
  <1> QED
    BY <1>5, <1>7, HistoryKept DEF IInv

LEMMA SendIInv == IInv /\ Send => IInv'
  <1> SUFFICES ASSUME IInv, Send PROVE IInv'
    OBVIOUS
  <1> USE DEF Send, hostVars
  <1>1. TypeOK'
    BY DEF IInv, TypeOK
  <1>2. InFlight'
    BY Constants DEF IInv, TypeOK, InFlight, Time
  <1> QED
    BY <1>1, <1>2, HistoryKept DEF IInv

LEMMA BeginIInv == IInv /\ Begin => IInv'
  <1> SUFFICES ASSUME IInv, Begin PROVE IInv'
    OBVIOUS
  <1> USE DEF Begin, hostVars
  <1>1. TypeOK'
    BY Constants DEF IInv, TypeOK
  <1>2. InFlight'
    BY DEF IInv, InFlight
  <1> QED
    BY <1>1, <1>2, HistoryKept DEF IInv

\* The loop goes on, or the round ends, without an update.
LEMMA GoOnIInv ==
    ASSUME IInv, \/ NextCollection /\ i < NumCollections
                 \/ EndRound,
           UNCHANGED <<now, boot, hostVars, first, pushed>>
    PROVE  IInv'
  <1> USE DEF hostVars
  <1>1. pc' \in {"next", "idle"} /\ sentAt' = 0 /\ sample' = None /\ i' \in 0 .. NumCollections
    BY Constants DEF NextCollection, EndRound, IInv, TypeOK
  <1>2. TypeOK'
    BY <1>1, Constants DEF IInv, TypeOK, Time
  <1>3. InFlight'
    BY <1>1 DEF IInv, InFlight
  <1> QED
    BY <1>2, <1>3, HistoryKept DEF IInv

\* While a request is out the loop variable is a valid index.
LEMMA IndexValid == IInv /\ pc \in {"sent", "answered"} => i < NumCollections
  BY Constants DEF IInv, TypeOK

-----------------------------------------------------------------------------
(* Push                                                                     *)

\* What is dated: an uptime in range; one that does not set the pair anew is the
\* device's own, above the pair's by MaxGap at most.
LEMMA TicksFacts ==
    ASSUME IInv, pc = "answered", tt # NullTicks
    PROVE  /\ tt \in Uint
           /\ tt = 0 \/ tt = (sample.at - sample.boot) % UintRange
           /\ ~Resync => /\ tt = (sample.at - sample.boot) % UintRange
                         /\ tt > timeticks /\ timeticks > 0
                         /\ (tt - timeticks) % UintRange = tt - timeticks
                         /\ tt - timeticks <= MaxGap
  <1> DEFINE ticks == (sample.at - sample.boot) % UintRange
  <1>1. SampleRight
    BY DEF IInv, InFlight
  <1>2. sample.at \in Nat /\ sample.boot \in Nat
    BY <1>1, Constants DEF SampleRight, Time
  <1>3. ticks \in 0 .. UintRange - 1
    BY <1>2, Constants, ModFacts
  <1> HIDE DEF ticks
  <1>4. tt \in Uint /\ (tt = 0 \/ tt = ticks)
    <2>1. tt = 0 \/ tt = ticks
      <3>1. \/ sample.value = [kind |-> "ticks", n |-> ticks]
            \/ sample.value = [kind |-> "other", n |-> 0]
        BY <1>1 DEF SampleRight, ticks
      <3>2. CASE sample.value = [kind |-> "ticks", n |-> ticks]
        <4>1. get_clean_snmpvalue(sample.value) = ticks
          BY <3>2 DEF get_clean_snmpvalue
        <4> QED
          BY <4>1, <1>3, Constants, SmallMod DEF tt
      <3>3. CASE sample.value = [kind |-> "other", n |-> 0]
        <4>1. get_clean_snmpvalue(sample.value) = 0
          BY <3>3 DEF get_clean_snmpvalue
        <4> QED
          BY <4>1, Constants, SmallMod DEF tt
      <3> QED
        BY <3>1, <3>2, <3>3
    <2> QED
      BY <2>1, <1>3, Constants DEF Uint
  <1>5. ASSUME ~Resync
        PROVE  /\ tt = ticks /\ tt > timeticks /\ timeticks > 0
               /\ (tt - timeticks) % UintRange = tt - timeticks
               /\ tt - timeticks <= MaxGap
    <2>1. timeticks \in Uint
      BY DEF IInv, TypeOK
    <2>2. tt > timeticks /\ timeticks > 0 /\ ~((tt - timeticks) % UintRange > MaxGap)
      BY <1>4, <1>5, <2>1, Constants DEF Resync, Uint
    <2>3. (tt - timeticks) % UintRange = tt - timeticks
      BY <1>4, <2>1, <2>2, Constants, SmallMod DEF Uint
    <2> QED
      BY <1>4, <2>1, <2>2, <2>3, Constants DEF Uint
  <1> QED
    BY <1>4, <1>5 DEF ticks

\* The two ways to date an update.
LEMMA FinalTimeFacts ==
    ASSUME IInv, Push
    PROVE  /\ Resync => /\ timeticks' = tt /\ sync' = Origin
                        /\ mytime' = now \div TicksPerSec /\ FinalTime = mytime'
           /\ ~Resync => /\ UNCHANGED hostVars
                         /\ FinalTime = mytime + ((tt - timeticks) \div TicksPerSec)
           /\ FinalTime \in Nat /\ mytime' \in Nat
  <1> USE DEF Push
  <1>1. tt \in Uint /\ timeticks \in Uint /\ mytime \in Nat /\ now \in Nat
    BY TicksFacts, Constants DEF IInv, TypeOK, Time
  <1>2. CASE Resync
    <2>1. timeticks' = tt /\ sync' = Origin /\ mytime' = now \div TicksPerSec
      BY <1>2 DEF SetClock
    <2>2. (tt - timeticks') % UintRange = 0
      <3>1. tt - timeticks' = 0
        BY <1>1, <2>1, Constants DEF Uint
      <3> QED
        BY <3>1, Constants, SmallMod
    <2>3. 0 \div TicksPerSec = 0
      BY Constants
    <2>4. mytime' \in Nat
      BY <1>1, <2>1, Constants, DivFacts
    <2> QED
      BY <1>2, <2>1, <2>2, <2>3, <2>4 DEF FinalTime
  <1>3. CASE ~Resync
    <2>1. UNCHANGED hostVars
      BY <1>3 DEF SetClock
    <2>2. (tt - timeticks) % UintRange = tt - timeticks /\ tt - timeticks \in Nat
      BY <1>1, <1>3, TicksFacts, Constants DEF Uint
    <2>3. (tt - timeticks) \div TicksPerSec \in Nat
      BY <2>2, Constants, DivFacts
    <2> QED
      BY <1>1, <1>3, <2>1, <2>2, <2>3 DEF FinalTime, hostVars
  <1> QED
    BY <1>2, <1>3

LEMMA OriginFacts ==
    ASSUME IInv, Push
    PROVE  /\ Origin \in [at : Time, boot : Time] /\ Origin # None
           /\ Origin.at = sample.at /\ Origin.boot = sample.boot
           /\ Origin.at <= now /\ now - Origin.at <= MaxLatency
           /\ Origin.at \in Nat /\ Origin.boot \in Nat
  <1>1. SampleRight /\ now - sentAt <= MaxLatency
    BY DEF Push, IInv, InFlight
  <1>2. sentAt \in Nat /\ now \in Nat
    BY Constants DEF IInv, TypeOK, Time
  <1> QED
    BY <1>1, <1>2, Constants, NoneAssumption DEF SampleRight, Origin, Time

LEMMA PushTypeOK == IInv /\ Push => TypeOK'
  <1> SUFFICES ASSUME IInv, Push PROVE TypeOK'
    OBVIOUS
  <1>1. Origin \in [at : Time, boot : Time] /\ Origin # None
    BY OriginFacts
  <1>2. timeticks' \in Uint /\ sync' \in Origins
    <2>1. tt \in Uint
      BY TicksFacts DEF Push
    <2> QED
      BY <1>1, <2>1 DEF Push, SetClock, hostVars, IInv, TypeOK, Origins
  <1>3. mytime' \in Nat /\ FinalTime \in Nat
    BY FinalTimeFacts
  <1>4. pushed' \in [time : Nat, origin : Origins \ {None}, sync : Origins]
    BY <1>1, <1>2, <1>3 DEF Push, Origins
  <1>5. first' \in Origins
    BY <1>1 DEF Push, IInv, TypeOK, Origins
  <1>6. i' \in 0 .. NumCollections /\ pc' = "next" /\ sentAt' \in Time /\ sample' = None
    BY IndexValid, Constants DEF Push, NextCollection, IInv, TypeOK, Time
  <1> QED
    BY <1>2, <1>3, <1>4, <1>5, <1>6 DEF Push, IInv, TypeOK

LEMMA PushPair == IInv /\ Push => PairRight'
  <1> SUFFICES ASSUME IInv, Push, sync' # None PROVE PairRight'
    BY DEF PairRight
  <1>1. CASE Resync
    <2>1. timeticks' = tt /\ sync' = Origin /\ mytime' = now \div TicksPerSec
      BY <1>1, FinalTimeFacts
    <2>2. timeticks' = 0 \/ timeticks' = (Origin.at - Origin.boot) % UintRange
      BY <2>1, OriginFacts, TicksFacts DEF Push
    <2>3. now \in Nat
      BY Constants DEF IInv, TypeOK, Time
    <2>4. mytime' * TicksPerSec <= now /\ mytime' * TicksPerSec > now - TicksPerSec
      BY <2>1, <2>3, DivFacts, Constants
    <2>5. mytime' \in Nat /\ mytime' * TicksPerSec \in Nat
      BY FinalTimeFacts, Constants
    <2>6. /\ mytime' * TicksPerSec > Origin.at - TicksPerSec
          /\ mytime' * TicksPerSec <= Origin.at + MaxLatency
      <3> DEFINE x == mytime' * TicksPerSec
                 a == Origin.at
      <3>1. a \in Nat /\ a <= now /\ now - a <= MaxLatency
        BY OriginFacts
      <3>2. x \in Nat /\ x <= now /\ x > now - TicksPerSec
        BY <2>4, <2>5
      <3> HIDE DEF x, a
      <3>3. x > a - TicksPerSec /\ x <= a + MaxLatency
        BY <2>3, <3>1, <3>2, Constants
      <3> QED
        BY <3>3 DEF x, a
    <2> QED
      BY <2>1, <2>2, <2>6 DEF PairRight
  <1>2. CASE ~Resync
    BY <1>2, FinalTimeFacts DEF hostVars, PairRight, IInv
  <1> QED
    BY <1>1, <1>2

LEMMA PushInFlight == IInv /\ Push => InFlight'
  <1> SUFFICES ASSUME IInv, Push PROVE InFlight'
    OBVIOUS
  <1>1. sync' \in {sync, Origin} /\ first' \in {None, first, Origin}
    BY DEF Push, SetClock, hostVars
  <1>2. Origin.at <= now
    BY OriginFacts
  <1>3. pc' = "next" /\ boot' <= now' /\ now' = now
    BY DEF Push, NextCollection, IInv, InFlight
  <1> QED
    BY <1>1, <1>2, <1>3 DEF IInv, InFlight

\* An update that is dated by the garbage does not set the pair anew, so it is in
\* the garbage's window.
LEMMA PushGarbage ==
    ASSUME IInv, Push, sync' = None
    PROVE  /\ ~Resync /\ sync = None
           /\ UNCHANGED <<timeticks, sync>>
           /\ InWindow(Origin)
           /\ first' = IF first = None THEN Origin ELSE first
           /\ first' # None
  <1>1. ~Resync
    BY FinalTimeFacts, OriginFacts
  <1>2. UNCHANGED <<timeticks, sync>>
    BY <1>1, FinalTimeFacts DEF hostVars
  <1>3. InWindow(Origin)
    BY <1>1, TicksFacts, OriginFacts DEF Push, InWindow
  <1>4. first' = (IF first = None THEN Origin ELSE first) /\ first' # None
    BY OriginFacts DEF Push
  <1> QED
    BY <1>1, <1>2, <1>3, <1>4

LEMMA PushGarbagePair == IInv /\ Push => GarbagePair'
  <1> SUFFICES ASSUME IInv, Push PROVE GarbagePair'
    OBVIOUS
  <1>1. pushed'.sync = sync' /\ (sync' # None => first' = None)
    BY DEF Push
  <1>2. sync' = None => first' # None /\ InWindow(first)'
    <2> SUFFICES ASSUME sync' = None PROVE first' # None /\ InWindow(first)'
      OBVIOUS
    <2> QED
      BY PushGarbage DEF IInv, GarbagePair, InWindow
  <1> QED
    BY <1>1, <1>2 DEF GarbagePair

\* Arithmetic of a pair and an uptime d ticks later, both rounded down to seconds.
LEMMA DatedLater ==
    ASSUME NEW m \in Nat, NEW d \in Nat, NEW T \in Nat, T > 0, NEW s \in Nat, NEW L \in Nat,
           m * T > s - T, m * T <= s + L
    PROVE  /\ (m + (d \div T)) * T > (s + d) - 2 * T
           /\ (m + (d \div T)) * T <= (s + d) + L
  <1> DEFINE e == d \div T
             x == m * T
             y == e * T
  <1>1. e \in Nat /\ y <= d /\ y > d - T
    BY DivFacts
  <1>2. x \in Nat /\ y \in Nat
    BY <1>1
  <1>3. (m + e) * T = x + y
    BY <1>1
  <1>4. x > s - T /\ x <= s + L
    OBVIOUS
  <1> HIDE DEF e, x, y
  <1>5. x + y > (s + d) - 2 * T /\ x + y <= (s + d) + L
    BY <1>1, <1>2, <1>4
  <1> QED
    BY <1>3, <1>5 DEF e

LEMMA PushAccurate == IInv /\ Push => TimestampAccurate'
  <1> SUFFICES ASSUME IInv, Push, Dated' PROVE TimestampAccurate'
    BY DEF TimestampAccurate
  <1>1. pushed'.time = FinalTime /\ pushed'.origin = Origin /\ pushed'.sync = sync'
    BY DEF Push
  <1>2. /\ sync' # None /\ sync'.boot = Origin.boot
        /\ Origin.at - sync'.at < UintRange
    BY <1>1 DEF Dated
  <1> DEFINE s == sync'.at
             o == Origin.at
             b == Origin.boot
             m == mytime'
  <1>3. o \in Nat /\ b \in Nat /\ m \in Nat
    BY OriginFacts, FinalTimeFacts
  <1>4. PairRight'
    BY PushPair
  <1>5. s \in Nat
    BY <1>2, PushTypeOK, Constants DEF TypeOK, Origins, Time
  <1>6. m * TicksPerSec > s - TicksPerSec /\ m * TicksPerSec <= s + MaxLatency
    BY <1>2, <1>4 DEF PairRight
  <1>7. CASE Resync
    <2>1. s = o /\ FinalTime = m
      BY <1>7, FinalTimeFacts
    <2> HIDE DEF s, o, m
    <2>2. m * TicksPerSec \in Nat
      BY <1>3, Constants
    <2>3. m * TicksPerSec > o - 2 * TicksPerSec /\ m * TicksPerSec <= o + MaxLatency
      <3> DEFINE x == m * TicksPerSec
      <3>1. x \in Nat /\ x > o - TicksPerSec /\ x <= o + MaxLatency
        BY <1>6, <2>1, <2>2
      <3> HIDE DEF x
      <3>2. x > o - 2 * TicksPerSec
        BY <1>3, <3>1, Constants
      <3> QED
        BY <3>1, <3>2 DEF x
    <2> QED
      BY <1>1, <2>1, <2>3 DEF TimestampAccurate, o, m
  <1>8. CASE ~Resync
    <2>1. /\ FinalTime = m + ((tt - timeticks) \div TicksPerSec)
          /\ timeticks = (s - b) % UintRange
          /\ tt = (o - b) % UintRange /\ tt > timeticks
          /\ s <= o
      <3>1. UNCHANGED hostVars /\ FinalTime = mytime + ((tt - timeticks) \div TicksPerSec)
        BY <1>8, FinalTimeFacts
      <3>2. tt = (o - b) % UintRange /\ tt > timeticks /\ timeticks > 0
        BY <1>8, TicksFacts, OriginFacts DEF Push
      <3>3. timeticks = (s - b) % UintRange
        <4>1. timeticks' # 0
          BY <3>1, <3>2 DEF hostVars, IInv, TypeOK, Uint
        <4>2. timeticks' = (s - b) % UintRange
          BY <1>2, <1>4, <4>1 DEF PairRight
        <4> QED
          BY <3>1, <4>2 DEF hostVars
      <3>4. s <= o
        <4>1. sync = sync' /\ sync # None
          BY <1>2, <3>1 DEF hostVars
        <4>2. sync.at <= sentAt /\ sentAt <= sample.at
          BY <4>1 DEF Push, IInv, InFlight, SampleRight
        <4>3. sentAt \in Nat
          BY Constants DEF IInv, TypeOK, Time
        <4> QED
          BY <1>3, <1>5, <4>1, <4>2, <4>3, OriginFacts
      <3> QED
        BY <3>1, <3>2, <3>3, <3>4 DEF hostVars
    <2>2. o - s < UintRange
      BY <1>2
    <2> HIDE DEF s, o, b, m
    <2>3. tt - timeticks = o - s
      <3>1. (o - b) - (s - b) = o - s
        BY <1>3, <1>5
      <3>2. /\ o - b \in Int /\ s - b \in Int
            /\ (o - b) % UintRange \in Int /\ (s - b) % UintRange \in Int
        BY <1>3, <1>5, Constants, ModFacts
      <3>3. /\ (o - b) - (s - b) >= 0
            /\ (o - b) - (s - b) < UintRange - 0
            /\ ((o - b) % UintRange) - ((s - b) % UintRange) > -0
        BY <1>3, <1>5, <2>1, <2>2, <3>1, <3>2, Constants
      <3>4. (o - b) - (s - b) = ((o - b) % UintRange) - ((s - b) % UintRange)
        <4> DEFINE x == o - b
                   y == s - b
        <4>1. /\ x \in Int /\ y \in Int /\ x - y >= 0 /\ x - y < UintRange - 0
              /\ (x % UintRange) - (y % UintRange) > -0
          BY <3>2, <3>3
        <4> HIDE DEF x, y
        <4>2. x - y = (x % UintRange) - (y % UintRange)
          <5>1. UintRange \in Nat /\ UintRange > 0 /\ 0 \in Nat
            BY Constants
          <5> QED
            BY <4>1, <5>1, NoTurn
        <4> QED
          BY <4>2 DEF x, y
      <3> QED
        BY <2>1, <3>1, <3>4
    <2>4. o - s \in Nat
      BY <1>3, <1>5, <2>1
    <2>5. /\ (m + ((o - s) \div TicksPerSec)) * TicksPerSec > (s + (o - s)) - 2 * TicksPerSec
          /\ (m + ((o - s) \div TicksPerSec)) * TicksPerSec <= (s + (o - s)) + MaxLatency
      BY <1>3, <1>5, <1>6, <2>4, Constants, DatedLater
    <2>6. s + (o - s) = o
      BY <1>3, <1>5
    <2>7. FinalTime * TicksPerSec > o - 2 * TicksPerSec
          /\ FinalTime * TicksPerSec <= o + MaxLatency
      BY <2>1, <2>3, <2>5, <2>6
    <2> QED
      BY <1>1, <2>7 DEF TimestampAccurate, o
  <1> QED
    BY <1>7, <1>8

LEMMA PushReplaced == IInv /\ Push => GarbageClockReplaced'
  <1> SUFFICES ASSUME IInv, Push,
                      pushed'.sync = None, pushed'.origin.boot = first'.boot,
                      pushed'.origin.at - first'.at < UintRange - MaxGap
               PROVE  pushed'.origin.at - first'.at < MaxGap
    BY DEF GarbageClockReplaced
  <1>1. pushed'.origin = Origin /\ sync' = None
    BY DEF Push
  <1> DEFINE f == first'.at
             o == Origin.at
             b == Origin.boot
             fr == (f - b) % UintRange
             or == (o - b) % UintRange
  <1>2. /\ first'.boot = b /\ o - f < UintRange - MaxGap
    BY <1>1
  <1>3. InWindow(Origin) /\ InWindow(first')
    BY <1>1, PushGarbage DEF IInv, GarbagePair
  <1>4. o \in Nat /\ b \in Nat /\ timeticks \in Nat
    BY OriginFacts, Constants DEF IInv, TypeOK, Uint
  <1>5. f \in Nat
    BY <1>1, PushGarbage, PushTypeOK, Constants DEF TypeOK, Origins, Time
  <1>6. f <= o
    <2>1. CASE first = None
      BY <1>1, <1>4, <2>1, PushGarbage
    <2>2. CASE first # None
      <3>1. first' = first
        BY <1>1, <2>2, PushGarbage
      <3>2. first.at <= sentAt /\ sentAt <= sample.at
        BY <2>2 DEF Push, IInv, InFlight, SampleRight
      <3>3. sentAt \in Nat
        BY Constants DEF IInv, TypeOK, Time
      <3> QED
        BY <1>4, <1>5, <3>1, <3>2, <3>3, OriginFacts
    <2> QED
      BY <2>1, <2>2
  <1>7. /\ or > timeticks /\ or - timeticks <= MaxGap
        /\ fr > timeticks /\ fr - timeticks <= MaxGap
    BY <1>2, <1>3 DEF InWindow
  <1>8. or \in Nat /\ fr \in Nat
    BY <1>4, <1>5, Constants, ModFacts
  <1> HIDE DEF f, o, b
  <1>9. (o - b) - (f - b) = or - fr
    <2>1. o - b \in Int /\ f - b \in Int
      BY <1>4, <1>5
    <2>2. (o - b) - (f - b) >= 0 /\ (o - b) - (f - b) < UintRange - MaxGap
      BY <1>2, <1>4, <1>5, <1>6, Constants
    <2>3. or - fr > -MaxGap
      <3> HIDE DEF or, fr
      <3> QED
        BY <1>4, <1>7, <1>8, Constants
    <2> QED
      <3> DEFINE x == o - b
                 y == f - b
      <3>1. /\ x \in Int /\ y \in Int /\ x - y >= 0 /\ x - y < UintRange - MaxGap
            /\ (x % UintRange) - (y % UintRange) > -MaxGap
        BY <2>1, <2>2, <2>3
      <3> HIDE DEF x, y
      <3>2. x - y = (x % UintRange) - (y % UintRange)
        <4>1. UintRange \in Nat /\ UintRange > 0 /\ MaxGap \in Nat
          BY Constants
        <4> QED
          BY <3>1, <4>1, NoTurn
      <3> QED
        BY <3>2 DEF x, y
  <1> HIDE DEF or, fr
  <1>10. o - f < MaxGap
    BY <1>4, <1>5, <1>7, <1>8, <1>9, Constants
  <1> QED
    BY <1>1, <1>10 DEF o, f

LEMMA PushIInv == IInv /\ Push => IInv'
  BY PushTypeOK, PushInFlight, PushPair, PushGarbagePair, PushAccurate, PushReplaced DEF IInv

-----------------------------------------------------------------------------
LEMMA NextIInv == IInv /\ [Next]_vars => IInv'
  <1> SUFFICES ASSUME IInv, [Next]_vars PROVE IInv'
    OBVIOUS
  <1>1. CASE Tick \/ Reboot \/ Answer
    BY <1>1, TickIInv, RebootIInv, AnswerIInv
  <1>2. CASE Begin \/ Send \/ Push
    BY <1>2, BeginIInv, SendIInv, PushIInv
  <1>3. CASE Skip
    BY <1>3, GoOnIInv DEF Skip
  <1>4. CASE Fail \/ EndOnNull \/ Finish
    BY <1>4, GoOnIInv DEF Fail, EndOnNull, Finish
  <1>5. CASE Reject
    BY <1>5, GoOnIInv, IndexValid DEF Reject
  <1>6. CASE UNCHANGED vars
    <2> USE <1>6 DEF vars, hostVars, loopVars
    <2>1. TypeOK'
      BY DEF IInv, TypeOK
    <2>2. InFlight'
      BY DEF IInv, InFlight, SampleRight
    <2> QED
      BY <2>1, <2>2, HistoryKept DEF IInv
  <1> QED
    BY <1>1, <1>2, <1>3, <1>4, <1>5, <1>6 DEF Next

LEMMA SpecIInv == Spec => []IInv
  BY InitIInv, NextIInv, PTL DEF Spec

-----------------------------------------------------------------------------
\* The variables keep their types, and the loop variable indexes a collection that
\* has a mapping while a request is out.
THEOREM TypeCorrect == Spec => []TypeOK
  <1>1. IInv => TypeOK
    BY DEF IInv
  <1> QED
    BY <1>1, SpecIInv, PTL

\* For any range of the uptime, gap and latency: an update is dated less than two
\* seconds before, and at most one latency after, the device took it, if the pair was
\* set since the device's last start and less than a turn of the uptime ago.
THEOREM UpdatesDatedRight == Spec => []TimestampAccurate
  <1>1. IInv => TimestampAccurate
    BY DEF IInv
  <1> QED
    BY <1>1, SpecIInv, PTL

\* Whatever timeticks and mytime of a new SQL_Host hold, they date updates for less
\* than MaxGap, unless the device starts again or is silent for nearly a whole turn.
THEOREM GarbageDatesBriefly == Spec => []GarbageClockReplaced
  <1>1. IInv => GarbageClockReplaced
    BY DEF IInv
  <1> QED
    BY <1>1, SpecIInv, PTL
=============================================================================
