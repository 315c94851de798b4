--------------------------- MODULE HarnessProofs ----------------------------
(***************************************************************************)
(* What holds of the harness for every clock width, gap, FIFO, traffic and *)
(* frame geometry: the gate inside it keeps its books across resets of the *)
(* processor, and the gap timeout neither fires early nor comes too late.  *)
(***************************************************************************)
EXTENDS Harness, CpuIngressProofs, IdentityProofs, FiniteSetTheorems

(***************************************************************************)
(* The gate inside the harness.                                            *)
(***************************************************************************)

\* A step of the harness is one of the gate, or starts the gate over.
LEMMA GateSteps ==
  [HarnessNext]_harnessVars => IngressRestart \/ [IngressNext]_ingressVars
  BY DEF HarnessNext, Firmwares, Setup, SendHello, ReadSerial, FeedStep,
         FoundEmpty, CheckGap, Tick, Arrive, Reboot, harnessVars, IngressNext

GateInv == IngressInv /\ IdleCandidate

LEMMA InitGateInv == IngressInit => GateInv
  BY InitIngressInv, InitIdleCandidate DEF IngressInit, GateInv

LEMMA RestartGateInv == IngressRestart => GateInv'
  <1>1. IngressRestart => IngressInit'
    BY DEF IngressRestart, Restart, IngressInit, Init
  <1> QED
    BY <1>1, InitGateInv, PTL

LEMMA StepGateInv == GateInv /\ [IngressNext]_ingressVars => GateInv'
  <1> SUFFICES ASSUME GateInv, [IngressNext]_ingressVars
               PROVE  GateInv'
    OBVIOUS
  <1>1. IngressInv'
    BY StepIngressInv DEF GateInv
  <1>2. [Next]_vars
    BY DEF IngressNext, IngressFeed, IngressRead, IngressParse, IngressReset,
           ingressVars, Next
  <1>3. IdleCandidate'
    BY <1>1, <1>2, StepIdleCandidate DEF GateInv, IngressInv
  <1> QED
    BY <1>1, <1>3 DEF GateInv

\* Under the harness, its timeouts and resets, the gate still accounts for every
\* frame, and holds nothing but an unfinished candidate between two bytes.
THEOREM GateInHarness == HarnessSpec => [](IngressBalance /\ IdleCandidate)
  <1>1. HarnessInit => GateInv
    BY InitGateInv DEF HarnessInit
  <1>2. GateInv /\ [HarnessNext]_harnessVars => GateInv'
    BY GateSteps, RestartGateInv, StepGateInv
  <1>3. GateInv => IngressBalance /\ IdleCandidate
    BY DEF GateInv, IngressInv
  <1> QED
    BY <1>1, <1>2, <1>3, PTL DEF HarnessSpec

------------------------------------------------------------------------------
(***************************************************************************)
(* The clock.                                                              *)
(***************************************************************************)

\* The remainder of a number that is off by one modulus at most.
LEMMA ModOnce ==
  ASSUME NEW m \in Nat \ {0}, NEW a \in (-m)..(2 * m - 1)
  PROVE  a % m = IF a < 0 THEN a + m ELSE IF a < m THEN a ELSE a - m
  <1> DEFINE q == a \div m
             r == a % m
  <1>1. q \in Int /\ r \in 0..(m - 1) /\ a = m * q + r
    OBVIOUS
  <1> HIDE DEF q, r
  <1>2. q < 2
    <2>1. SUFFICES ASSUME q >= 2 PROVE FALSE
      BY <1>1
    <2>2. m * q >= m * 2
      BY <1>1, <2>1
    <2> QED
      BY <1>1, <2>2
  <1>3. q >= -1
    <2>1. SUFFICES ASSUME q <= -2 PROVE FALSE
      BY <1>1
    <2>2. m * q <= m * (-2)
      BY <1>1, <2>1
    <2> QED
      BY <1>1, <2>2
  <1>4. CASE q = 0
    BY <1>1, <1>4 DEF r
  <1>5. CASE q = 1
    BY <1>1, <1>5 DEF r
  <1>6. CASE q = -1
    BY <1>1, <1>6 DEF r
  <1> QED
    BY <1>1, <1>2, <1>3, <1>4, <1>5, <1>6

\* What the gap check makes of the clock.
Elapsed == (now - last_rx_ms) % TimeMod

Clock == 0..(TimeMod - 1)

LEMMA TimeIsPositive == TimeMod \in Nat \ {0}
  BY HarnessAssumption

LEMMA ElapsedInRange ==
  ASSUME now \in Clock, last_rx_ms \in Clock
  PROVE  /\ Elapsed \in Clock
         /\ now = last_rx_ms => Elapsed = 0
  <1> DEFINE m == TimeMod
             a == now - last_rx_ms
  <1>1. m \in Nat \ {0} /\ a \in (-m)..(2 * m - 1)
    BY TimeIsPositive DEF Clock
  <1>2. a % m = IF a < 0 THEN a + m ELSE IF a < m THEN a ELSE a - m
    <2> HIDE DEF m, a
    <2> QED
      BY <1>1, ModOnce
  <1> QED
    BY <1>1, <1>2 DEF Clock, Elapsed

\* A tick adds one to it, until it wraps.
LEMMA ElapsedTick ==
  ASSUME now \in Clock, last_rx_ms \in Clock,
         now' = (now + 1) % TimeMod, last_rx_ms' = last_rx_ms
  PROVE  /\ now' \in Clock
         /\ Elapsed' = IF Elapsed = TimeMod - 1 THEN 0 ELSE Elapsed + 1
  <1> DEFINE m == TimeMod
             n == now + 1
             a == now - last_rx_ms
             b == now' - last_rx_ms
  <1>1. m \in Nat \ {0} /\ n \in (-m)..(2 * m - 1) /\ a \in (-m)..(2 * m - 1)
    BY TimeIsPositive DEF Clock
  <1>2. /\ n % m = IF n < 0 THEN n + m ELSE IF n < m THEN n ELSE n - m
        /\ a % m = IF a < 0 THEN a + m ELSE IF a < m THEN a ELSE a - m
    <2> HIDE DEF m, n, a
    <2> QED
      BY <1>1, ModOnce
  <1>3. now' = IF now + 1 = m THEN 0 ELSE now + 1
    BY <1>1, <1>2 DEF Clock
  <1>4. b \in (-m)..(2 * m - 1)
    BY <1>1, <1>3 DEF Clock
  <1>5. b % m = IF b < 0 THEN b + m ELSE IF b < m THEN b ELSE b - m
    <2> HIDE DEF m, b
    <2> QED
      BY <1>1, <1>4, ModOnce
  <1> QED
    BY <1>1, <1>2, <1>3, <1>5 DEF Clock, Elapsed

------------------------------------------------------------------------------
(***************************************************************************)
(* The gap timeout.  Elapsed stands between two measures of the silence:   *)
(* it never claims more of it than there was, and never trails it by more  *)
(* than the loop may take.                                                 *)
(***************************************************************************)
Allowed == IF at = "check" THEN MaxWindow ELSE MaxLag

LoopTyped ==
  /\ now \in Clock /\ last_rx_ms \in Clock
  /\ lag \in Nat /\ quiet \in Nat /\ lull \in Nat
  /\ fifo \in Seq(Byte)
  /\ at \in {"off", "greet", "poll", "check"}
  /\ lag <= Allowed

\* Before the loop runs nothing is held, and a byte is fed at once.
LoopPhase ==
  /\ at = "off" => fifo = <<>>
  /\ at \in {"off", "greet"} => buffer = <<>>
  /\ pc # "idle" => at = "poll" /\ now = last_rx_ms

NeverEarly ==
  buffer # <<>> =>
    /\ fifo = <<>> => Elapsed <= quiet
    /\ fifo # <<>> /\ at = "check" => Elapsed <= lull + lag

\* Bytes in the FIFO are recent; a candidate's last byte was stamped soon after
\* it came, and the last check that spared it was not long ago.
NeverLate ==
  /\ fifo # <<>> \/ pc # "idle" =>
       quiet <= (IF at = "check" THEN 0 ELSE MaxWindow) + lag
  /\ buffer # <<>> /\ fifo = <<>> =>
       /\ quiet <= Elapsed + MaxLag + MaxWindow
       /\ quiet <= Gap + MaxLag + MaxWindow + lag
                     + (IF at = "check" THEN MaxLag ELSE 0)

ClockInv == LoopTyped /\ LoopPhase /\ NeverEarly /\ NeverLate

\* The bounds of an instance are numbers.
LEMMA Bounds ==
  /\ Gap \in Nat /\ MaxLag \in Nat /\ MaxWindow \in Nat
  /\ TimeMod \in Nat \ {0} /\ FifoSize \in Nat \ {0}
  /\ Settle = Gap + 2 * (MaxLag + MaxWindow) + 1
  /\ Settle <= TimeMod
  BY HarnessAssumption DEF Settle

LEMMA InitClockInv == HarnessInit => ClockInv
  <1> SUFFICES ASSUME HarnessInit PROVE ClockInv
    OBVIOUS
  <1>1. /\ at = "off" /\ fifo = <<>> /\ now = 0 /\ last_rx_ms = 0 /\ lag = 0
        /\ quiet = 0 /\ lull = 0 /\ buffer = <<>> /\ pc = "idle"
    BY DEF HarnessInit, IngressInit, Init
  <1>2. LoopTyped
    BY <1>1, Bounds, EmptySeq DEF LoopTyped, Allowed, Clock
  <1> QED
    BY <1>1, <1>2 DEF ClockInv, LoopPhase, NeverEarly, NeverLate

\* What the FIFO holds after bytes arrived.
LEMMA FittingProperties ==
  ASSUME NEW queue \in Seq(Byte), NEW piece \in Seq(Byte), piece # <<>>
  PROVE  /\ Fitting(queue \o piece) \in Seq(Byte)
         /\ Fitting(queue \o piece) # <<>>
  <1> DEFINE all == queue \o piece
             n == IF Len(all) < FifoSize THEN Len(all) ELSE FifoSize
  <1>1. /\ all \in Seq(Byte) /\ Len(all) = Len(queue) + Len(piece)
        /\ Len(queue) \in Nat /\ Len(piece) \in Nat /\ Len(piece) # 0
    BY ConcatProperties, LenProperties, EmptySeq
  <1>2. n \in 1..Len(all)
    BY <1>1, Bounds
  <1>3. \A i \in 1..n : all[i] \in Byte
    BY <1>1, <1>2, ElementOfSeq
  <1>4. /\ SubSeq(all, 1, n) \in Seq(Byte)
        /\ Len(SubSeq(all, 1, n)) = n
    <2> HIDE DEF all, n
    <2> QED
      BY <1>1, <1>2, <1>3, SubSeqProperties
  <1> QED
    BY <1>2, <1>4, EmptySeq DEF Fitting

LEMMA StepClockInv == ClockInv /\ [HarnessNext]_harnessVars => ClockInv'
  <1> SUFFICES ASSUME ClockInv, [HarnessNext]_harnessVars
               PROVE  ClockInv'
    OBVIOUS
  <1> USE DEF ClockInv
  <1>1. Elapsed \in Clock
    BY ElapsedInRange DEF LoopTyped
  <1>2. CASE Setup
    <2>1. /\ at' = "greet" /\ at = "off" /\ buffer' = <<>> /\ pc' = "idle"
          /\ UNCHANGED <<fifo, now, last_rx_ms, lag, quiet, lull>>
      BY <1>2 DEF Setup, IngressRestart, Restart, lineVars
    <2>2. fifo' = <<>>
      BY <2>1 DEF LoopPhase
    <2> QED
      BY <2>1, <2>2 DEF LoopTyped, Allowed, LoopPhase, NeverEarly, NeverLate
  <1>3. CASE SendHello
    <2>1. /\ at' = "poll" /\ at = "greet"
          /\ UNCHANGED <<buffer, pc, fifo, now, last_rx_ms, lag, quiet, lull>>
      BY <1>3 DEF SendHello, ingressVars, vars, lineVars
    <2> QED
      BY <2>1 DEF LoopTyped, Allowed, LoopPhase, NeverEarly, NeverLate
  <1>4. CASE ReadSerial
    <2>1. /\ at = "poll" /\ fifo # <<>> /\ fifo' = Tail(fifo)
          /\ last_rx_ms' = now /\ buffer' = buffer
          /\ UNCHANGED <<at, now, lag, quiet, lull>>
      BY <1>4 DEF ReadSerial, IngressFeed, Feed, lineVars
    <2>2. LoopTyped'
      BY <2>1, HeadTailProperties DEF LoopTyped, Allowed
    <2>3. Elapsed' = 0
      <3>1. now' - last_rx_ms' = 0
        BY <2>1, <2>2 DEF LoopTyped, Clock
      <3> QED
        BY <3>1, Bounds DEF Elapsed
    <2>4. quiet <= MaxWindow + lag /\ lag <= MaxLag
      BY <2>1 DEF NeverLate, LoopTyped, Allowed
    <2> QED
      BY <2>1, <2>2, <2>3, <2>4, Bounds
         DEF LoopTyped, LoopPhase, NeverEarly, NeverLate
  <1>5. CASE FeedStep
    <2>1. /\ at = "poll" /\ pc # "idle"
          /\ UNCHANGED <<at, fifo, now, last_rx_ms, lag, quiet, lull>>
      BY <1>5 DEF FeedStep, IngressRead, ReadByte, IngressParse, Parse, loopVars
    <2>2. LoopTyped' /\ Elapsed = 0 /\ Elapsed' = 0
      BY <2>1, ElapsedInRange DEF LoopTyped, Allowed, LoopPhase, Elapsed
    <2>3. quiet <= MaxWindow + lag /\ lag <= MaxLag
      BY <2>1 DEF NeverLate, LoopTyped, Allowed
    <2> QED
      BY <2>1, <2>2, <2>3, Bounds
         DEF LoopTyped, LoopPhase, NeverEarly, NeverLate
  <1>6. CASE FoundEmpty
    <2>1. /\ at = "poll" /\ at' = "check" /\ pc = "idle" /\ fifo = <<>> /\ lag' = 0
          /\ UNCHANGED <<buffer, pc, fifo, now, last_rx_ms, quiet, lull>>
      BY <1>6 DEF FoundEmpty, ingressVars, vars, lineVars
    <2>2. Elapsed' = Elapsed
      BY <2>1 DEF Elapsed
    <2> QED
      BY <1>1, <2>1, <2>2, Bounds
         DEF LoopTyped, Allowed, LoopPhase, NeverEarly, NeverLate, Clock
  <1>7. CASE CheckGap
    <2>1. /\ at = "check" /\ at' = "poll" /\ lag' = 0 /\ pc = "idle"
          /\ UNCHANGED <<pc, fifo, now, last_rx_ms, quiet, lull>>
      BY <1>7 DEF CheckGap, IngressReset, GapReset, ingressVars, vars, lineVars,
                  LoopPhase
    <2>2. \/ buffer' = <<>>
          \/ buffer' = buffer /\ Elapsed <= Gap
      BY <1>1, <1>7, Bounds
         DEF CheckGap, IngressReset, GapReset, GapExpired, Elapsed, Clock,
             ingressVars, vars
    <2>3. Elapsed' = Elapsed
      BY <2>1 DEF Elapsed
    <2> QED
      BY <1>1, <2>1, <2>2, <2>3, Bounds
         DEF LoopTyped, Allowed, LoopPhase, NeverEarly, NeverLate, Clock
  <1>8. CASE Tick
    <2>1. /\ pc = "idle" /\ lag < Allowed
          /\ now' = (now + 1) % TimeMod /\ lag' = lag + 1
          /\ quiet' = Later(quiet)
          /\ UNCHANGED <<buffer, pc, at, fifo, last_rx_ms, lull>>
      BY <1>8 DEF Tick, ingressVars, vars, Allowed
    <2>2. /\ now' \in Clock
          /\ Elapsed' = IF Elapsed = TimeMod - 1 THEN 0 ELSE Elapsed + 1
      BY <2>1, ElapsedTick DEF LoopTyped
    <2>3. /\ quiet' \in Nat /\ quiet' <= quiet + 1
          /\ quiet' = quiet + 1 \/ (quiet' = quiet /\ quiet >= TimeMod)
      BY <2>1, Bounds DEF Later, LoopTyped
    <2>4. LoopTyped'
      BY <2>1, <2>2, <2>3, Bounds DEF LoopTyped, Allowed
    <2>5. LoopPhase'
      BY <2>1 DEF LoopPhase
    <2>6. NeverEarly'
      BY <1>1, <2>1, <2>2, <2>3, Bounds DEF LoopTyped, NeverEarly, Clock
    <2>7. buffer # <<>> /\ fifo = <<>> => Elapsed + 1 < TimeMod
      BY <1>1, <2>1, Bounds
         DEF LoopTyped, Allowed, NeverEarly, NeverLate, Clock
    <2>8. NeverLate'
      BY <1>1, <2>1, <2>2, <2>3, <2>7, Bounds DEF LoopTyped, NeverLate, Clock
    <2> QED
      BY <2>4, <2>5, <2>6, <2>8
  <1>9. ASSUME NEW piece \in Pieces, Arrive(piece)
        PROVE  ClockInv'
    <2>1. /\ pc = "idle" /\ quiet' = 0
          /\ fifo' = IF at = "off" THEN <<>> ELSE Fitting(fifo \o piece)
          /\ lull' = IF fifo = <<>> THEN quiet ELSE lull
          /\ UNCHANGED <<buffer, pc, at, now, last_rx_ms, lag>>
      BY <1>9 DEF Arrive, ingressVars, vars
    <2>2. piece \in Seq(Byte) /\ piece # <<>>
      BY HarnessAssumption
    <2>3. /\ fifo' \in Seq(Byte)
          /\ at # "off" => fifo' # <<>>
      BY <2>1, <2>2, FittingProperties, EmptySeq DEF LoopTyped
    <2>4. Elapsed' = Elapsed
      BY <2>1 DEF Elapsed
    <2> QED
      BY <1>1, <2>1, <2>3, <2>4, Bounds
         DEF LoopTyped, Allowed, LoopPhase, NeverEarly, NeverLate, Clock
  <1>10. CASE Reboot
    <2>1. /\ at' = "off" /\ fifo' = <<>> /\ now' = 0 /\ last_rx_ms' = 0
          /\ lag' = 0 /\ lull' = 0 /\ quiet' = quiet
          /\ buffer' = <<>> /\ pc' = "idle"
      BY <1>10 DEF Reboot, IngressRestart, Restart
    <2>2. LoopTyped'
      BY <2>1, Bounds, EmptySeq DEF LoopTyped, Allowed, Clock
    <2> QED
      BY <2>1, <2>2 DEF LoopPhase, NeverEarly, NeverLate
  <1>11. CASE UNCHANGED harnessVars
    BY <1>11 DEF harnessVars, loopVars, lineVars, ingressVars, vars,
                 LoopTyped, Allowed, LoopPhase, NeverEarly, NeverLate, Elapsed
  <1> QED
    BY <1>2, <1>3, <1>4, <1>5, <1>6, <1>7, <1>8, <1>9, <1>10, <1>11
       DEF HarnessNext, Firmwares

\* An incomplete candidate is given up only after real silence: the wrap of
\* millis(), slow loops and a FIFO that overruns cannot cut a frame short.
THEOREM NoEarlyReset == HarnessSpec => ResetOnlyAfterSilence
  <1>1. ClockInv /\ [HarnessNext]_harnessVars
          => [at = "check" /\ at' = "poll" /\ buffer' # buffer
                => Silence + MaxWindow > Gap]_harnessVars
    <2> SUFFICES ASSUME ClockInv, HarnessNext,
                        at = "check", at' = "poll", buffer' # buffer
                 PROVE  Silence + MaxWindow > Gap
      OBVIOUS
    <2>1. CheckGap
      BY DEF HarnessNext, Firmwares, Setup, SendHello, ReadSerial, FeedStep,
             FoundEmpty, Tick, Arrive, Reboot
    <2>2. GapExpired
      BY <2>1 DEF CheckGap, ingressVars, vars
    <2>3. Elapsed \in Clock
      BY ElapsedInRange DEF ClockInv, LoopTyped
    <2> QED
      BY <2>2, <2>3, Bounds
         DEF GapExpired, Elapsed, ClockInv, LoopTyped, Allowed, NeverEarly,
             Silence, Clock
  <1> QED
    BY InitClockInv, StepClockInv, <1>1, PTL DEF HarnessSpec, ResetOnlyAfterSilence

LEMMA ClockSettles == ClockInv => ReceiverSettles
  BY Bounds DEF ClockInv, LoopTyped, Allowed, NeverLate, ReceiverSettles

\* Settle milliseconds of silence leave the receiver empty-handed, whatever a
\* damaged length claimed before.
THEOREM SettlesInTime == HarnessSpec => []ReceiverSettles
  BY InitClockInv, StepClockInv, ClockSettles, PTL DEF HarnessSpec

------------------------------------------------------------------------------
(***************************************************************************)
(* The services of the harness: the gate's consumer is the identity        *)
(* service, which answers each request it is called with.                  *)
(***************************************************************************)
IdentifyCalls(calls) ==
  {i \in DOMAIN calls : calls[i].message.type = "IDENTIFY_REQUEST"}

LEMMA IdentifyCounted ==
  ASSUME NEW S, NEW calls \in Seq(S), NEW call \in S
  PROVE  /\ Cardinality(IdentifyCalls(calls)) \in Nat
         /\ Cardinality(IdentifyCalls(Append(calls, call)))
              = IF call.message.type = "IDENTIFY_REQUEST"
                THEN Cardinality(IdentifyCalls(calls)) + 1
                ELSE Cardinality(IdentifyCalls(calls))
  <1> DEFINE n == Len(calls)
             A == IdentifyCalls(calls)
             B == IdentifyCalls(Append(calls, call))
  <1>1. n \in Nat /\ DOMAIN calls = 1..n
    BY LenProperties
  <1>2. /\ DOMAIN Append(calls, call) = 1..(n + 1)
        /\ \A i \in 1..n : Append(calls, call)[i] = calls[i]
        /\ Append(calls, call)[n + 1] = call
    BY <1>1, AppendProperties, LenProperties
  <1>3. IsFiniteSet(A) /\ Cardinality(A) \in Nat /\ n + 1 \notin A
    <2>1. A \subseteq 1..n
      BY <1>1 DEF IdentifyCalls
    <2>2. IsFiniteSet(1..n)
      BY <1>1, FS_Interval
    <2>3. IsFiniteSet(A)
      BY <2>1, <2>2, FS_Subset
    <2>4. n + 1 \notin 1..n
      BY <1>1
    <2> QED
      BY <2>1, <2>3, <2>4, FS_CardinalityType
  <1>4. CASE call.message.type = "IDENTIFY_REQUEST"
    <2>1. B = A \cup {n + 1}
      BY <1>1, <1>2, <1>4 DEF IdentifyCalls
    <2>2. Cardinality(A \cup {n + 1}) = Cardinality(A) + 1
      <3> HIDE DEF A, n
      <3> QED
        BY <1>3, FS_AddElement
    <2> QED
      BY <1>3, <1>4, <2>1, <2>2
  <1>5. CASE call.message.type # "IDENTIFY_REQUEST"
    <2>1. B = A
      BY <1>1, <1>2, <1>5 DEF IdentifyCalls
    <2> QED
      BY <1>3, <1>5, <2>1
  <1> QED
    BY <1>4, <1>5

\* Where the identity service begins, and what it keeps.
ServiceStarts ==
  /\ \E version \in Firmware : identity = Starting(version, first)
  /\ first = 0 /\ hellos = <<>>

LEMMA StartedService == ServiceStarts => SequenceInv /\ OneBuild
  <1> SUFFICES ASSUME ServiceStarts PROVE SequenceInv /\ OneBuild
    OBVIOUS
  <1>1. PICK version \in Firmware : identity = Starting(version, 0)
    BY DEF ServiceStarts
  <1>2. first = 0 /\ hellos = <<>> /\ 0 \in U16
    BY DEF ServiceStarts, U16
  <1>3. identity \in Identities /\ identity.next_sequence = 0
    BY <1>1, <1>2 DEF Identities, Starting
  <1>4. hellos \in Seq(Hellos) /\ hellos \in Seq(HellosOf(version))
        /\ Len(hellos) = 0 /\ DOMAIN hellos = {}
    BY <1>2, EmptySeq
  <1>5. (0 + 0) % 65536 = 0
    OBVIOUS
  <1>6. SequenceInv
    BY <1>2, <1>3, <1>4, <1>5 DEF SequenceInv, NextInSequence, HellosInSequence
  <1>7. OneBuild
    BY <1>1, <1>2, <1>4 DEF OneBuild
  <1> QED
    BY <1>6, <1>7

\* Nothing has been said before setup() says hello, and from then on the hellos
\* and the requests go in step.
InSetup == at \in {"off", "greet"} => hellos = <<>> /\ dispatched = <<>>

InService == at # "off" => SequenceInv /\ OneBuild

ServiceInv ==
  /\ CallsInv
  /\ first = 0
  /\ at \in {"off", "greet", "poll", "check"}
  /\ InSetup /\ InService /\ HelloPerRequest

LEMMA InitServiceInv == HarnessInit => ServiceInv
  <1>1. HarnessInit => CallsInv
    BY InitTypeInv, EmptySeq DEF HarnessInit, IngressInit, CallsInv
  <1> QED
    BY <1>1 DEF HarnessInit, IngressInit, ServiceInv, InSetup, InService,
                HelloPerRequest

\* What the consumer is called with is a call, with or without a reset.
LEMMA StepCallsInHarness == CallsInv /\ [HarnessNext]_harnessVars => CallsInv'
  <1>1. IngressRestart => IngressInit'
    BY DEF IngressRestart, Restart, IngressInit, Init
  <1>2. IngressInit => CallsInv
    BY InitTypeInv, EmptySeq DEF IngressInit, CallsInv
  <1>3. IngressInit' => CallsInv'
    BY <1>2, PTL
  <1> QED
    BY <1>1, <1>3, GateSteps, StepCalls

\* Steps that leave both services alone.
LEMMA ServiceKept ==
  ASSUME ServiceInv, CallsInv', UNCHANGED <<dispatched, identityVars>>,
         at' = at \/ (at \in {"poll", "check"} /\ at' \in {"poll", "check"})
  PROVE  ServiceInv'
  <1>1. UNCHANGED <<identity, hellos, first, dispatched>>
    BY DEF identityVars
  <1>2. /\ (SequenceInv => SequenceInv') /\ (OneBuild => OneBuild')
    BY <1>1 DEF SequenceInv, NextInSequence, HellosInSequence, OneBuild
  <1> QED
    BY <1>1, <1>2 DEF ServiceInv, InSetup, InService, HelloPerRequest

\* A hello that goes out, with room for it.
LEMMA HelloSent ==
  ASSUME SequenceInv, OneBuild, EmitHello(HelloFrameSize)
  PROVE  /\ SequenceInv' /\ OneBuild' /\ first' = first
         /\ Len(hellos) \in Nat /\ Len(hellos') = Len(hellos) + 1
  <1>1. SequenceInv' /\ OneBuild'
    BY EmitSequence, EmitOneBuild
  <1>2. hellos' = Append(hellos, HelloFrame(identity)) /\ first' = first
    BY HelloEncodes DEF EmitHello
  <1>3. hellos \in Seq(Hellos) /\ HelloFrame(identity) \in Hellos
    BY DEF SequenceInv, NextInSequence, Hellos
  <1> QED
    BY <1>1, <1>2, <1>3, AppendProperties, LenProperties

LEMMA CallDispatched ==
  ASSUME CallsInv, IngressParse, dispatched' # dispatched
  PROVE  \E call \in Calls : dispatched' = Append(dispatched, call)
  <1>1. delivered' # delivered /\ HandleFrame(Candidate) /\ Next
    BY DEF IngressParse, Next
  <1>2. EmitFrame
    BY <1>1, FramesCounted DEF CallsInv
  <1>3. ValidateFrame(Candidate).result = "OK"
    BY <1>1 DEF HandleFrame
  <1>4. Candidate \in CommandFrames
    BY <1>2, <1>3, EmittedFrame DEF CallsInv, CommandFrames
  <1>5. dispatched' = Append(dispatched, CallFor(Candidate))
    BY <1>1, <1>3 DEF HandleFrame, CallFor
  <1> QED
    BY <1>4, <1>5 DEF Calls

LEMMA StepServiceInv == ServiceInv /\ [HarnessNext]_harnessVars => ServiceInv'
  <1> SUFFICES ASSUME ServiceInv, [HarnessNext]_harnessVars
               PROVE  ServiceInv'
    OBVIOUS
  <1>1. CallsInv /\ CallsInv'
    BY StepCallsInHarness DEF ServiceInv
  <1>2. CASE Setup
    <2>1. /\ at = "off" /\ at' = "greet" /\ dispatched' = <<>>
          /\ hellos' = hellos /\ first' = first
          /\ \E version \in Firmware : identity' = Starting(version, 0)
      BY <1>2 DEF Setup, IngressRestart
    <2>2. ServiceStarts'
      BY <2>1 DEF ServiceInv, InSetup, ServiceStarts
    <2>3. ServiceStarts' => (SequenceInv /\ OneBuild)'
      BY StartedService, PTL
    <2> QED
      BY <1>1, <2>1, <2>2, <2>3
         DEF ServiceInv, InSetup, InService, HelloPerRequest
  <1>3. CASE SendHello
    <2>1. /\ at = "greet" /\ at' = "poll" /\ EmitHello(HelloFrameSize)
          /\ dispatched' = dispatched
      BY <1>3 DEF SendHello, ingressVars
    <2>2. /\ SequenceInv /\ OneBuild /\ hellos = <<>> /\ dispatched = <<>>
      BY <2>1 DEF ServiceInv, InService, InSetup
    <2>3. SequenceInv' /\ OneBuild' /\ first' = first /\ Len(hellos') = 1
      BY <2>1, <2>2, HelloSent
    <2>4. Cardinality(IdentifyCalls(<<>>)) = 0
      <3>1. IdentifyCalls(<<>>) = {}
        BY DEF IdentifyCalls
      <3> QED
        BY <3>1, FS_EmptySet
    <2>5. HelloPerRequest'
      BY <2>1, <2>2, <2>3, <2>4 DEF HelloPerRequest, IdentifyCalls
    <2> QED
      BY <1>1, <2>1, <2>3, <2>5 DEF ServiceInv, InSetup, InService
  <1>4. CASE FeedStep /\ dispatched' # dispatched
    <2>1. /\ at = "poll" /\ at' = at /\ IngressParse
          /\ HandleMessage(dispatched'[Len(dispatched')].message, HelloFrameSize)
      BY <1>4 DEF FeedStep, IngressRead, loopVars
    <2>2. PICK call \in Calls : dispatched' = Append(dispatched, call)
      BY <1>1, <1>4, <2>1, CallDispatched
    <2>3. dispatched \in Seq(Calls)
      BY <1>1 DEF CallsInv
    <2>4. dispatched'[Len(dispatched')] = call
      BY <2>2, <2>3, AppendProperties, LenProperties
    <2>5. /\ SequenceInv /\ OneBuild /\ first = 0
          /\ Len(hellos) = 1 + Cardinality(IdentifyCalls(dispatched))
      BY <2>1 DEF ServiceInv, InService, HelloPerRequest, IdentifyCalls
    <2>6. /\ Cardinality(IdentifyCalls(dispatched)) \in Nat
          /\ Cardinality(IdentifyCalls(dispatched'))
               = IF call.message.type = "IDENTIFY_REQUEST"
                 THEN Cardinality(IdentifyCalls(dispatched)) + 1
                 ELSE Cardinality(IdentifyCalls(dispatched))
      BY <2>2, <2>3, IdentifyCounted
    <2>7. /\ SequenceInv' /\ OneBuild' /\ first' = 0
          /\ Len(hellos') = 1 + Cardinality(IdentifyCalls(dispatched'))
      <3>1. CASE call.message.type = "IDENTIFY_REQUEST"
        <4>1. EmitHello(HelloFrameSize)
          BY <2>1, <2>4, <3>1 DEF HandleMessage
        <4>2. /\ SequenceInv' /\ OneBuild' /\ first' = first
              /\ Len(hellos') = Len(hellos) + 1
          BY <2>5, <4>1, HelloSent
        <4> QED
          BY <2>5, <2>6, <3>1, <4>2
      <3>2. CASE call.message.type # "IDENTIFY_REQUEST"
        <4>1. UNCHANGED <<identity, hellos, first>>
          BY <2>1, <2>4, <3>2 DEF HandleMessage, identityVars
        <4>2. SequenceInv' /\ OneBuild'
          BY <2>5, <4>1
             DEF SequenceInv, NextInSequence, HellosInSequence, OneBuild
        <4> QED
          BY <2>5, <2>6, <3>2, <4>1, <4>2
      <3> QED
        BY <3>1, <3>2
    <2> QED
      BY <1>1, <2>1, <2>7
         DEF ServiceInv, InSetup, InService, HelloPerRequest, IdentifyCalls
  <1>5. CASE Reboot
    <2>1. /\ at' = "off" /\ hellos' = <<>> /\ first' = 0 /\ dispatched' = <<>>
      BY <1>5 DEF Reboot, IngressRestart
    <2> QED
      BY <1>1, <2>1 DEF ServiceInv, InSetup, InService, HelloPerRequest
  <1>6. CASE FeedStep /\ dispatched' = dispatched
    <2>1. UNCHANGED <<dispatched, identityVars>> /\ at' = at
      BY <1>6 DEF FeedStep, IngressRead, loopVars
    <2> QED
      BY <1>1, <2>1, ServiceKept
  <1>7. CASE ReadSerial
    <2>1. UNCHANGED <<dispatched, identityVars>> /\ at' = at
      BY <1>7 DEF ReadSerial, IngressFeed
    <2> QED
      BY <1>1, <2>1, ServiceKept
  <1>8. CASE FoundEmpty
    <2>1. UNCHANGED <<dispatched, identityVars>> /\ at = "poll" /\ at' = "check"
      BY <1>8 DEF FoundEmpty, ingressVars
    <2> QED
      BY <1>1, <2>1, ServiceKept
  <1>9. CASE CheckGap
    <2>1. UNCHANGED <<dispatched, identityVars>> /\ at = "check" /\ at' = "poll"
      BY <1>9 DEF CheckGap, IngressReset, ingressVars
    <2> QED
      BY <1>1, <2>1, ServiceKept
  <1>10. CASE Tick
    <2>1. UNCHANGED <<dispatched, identityVars>> /\ at' = at
      BY <1>10 DEF Tick, ingressVars
    <2> QED
      BY <1>1, <2>1, ServiceKept
  <1>11. ASSUME NEW piece \in Pieces, Arrive(piece)
         PROVE  ServiceInv'
    <2>1. UNCHANGED <<dispatched, identityVars>> /\ at' = at
      BY <1>11 DEF Arrive, ingressVars
    <2> QED
      BY <1>1, <2>1, ServiceKept
  <1>12. CASE UNCHANGED harnessVars
    <2>1. UNCHANGED <<dispatched, identityVars>> /\ at' = at
      BY <1>12 DEF harnessVars, loopVars, ingressVars
    <2> QED
      BY <1>1, <2>1, ServiceKept
  <1> QED
    BY <1>2, <1>3, <1>4, <1>5, <1>6, <1>7, <1>8, <1>9, <1>10, <1>11, <1>12
       DEF HarnessNext, Firmwares

\* One hello for setup() and one for each request, for every traffic, clock and
\* build, and however often the processor is reset.
THEOREM OneHelloEach == HarnessSpec => []HelloPerRequest
  <1>1. ServiceInv => HelloPerRequest
    BY DEF ServiceInv
  <1> QED
    BY InitServiceInv, StepServiceInv, <1>1, PTL DEF HarnessSpec

\* In service, the harness's hellos are numbered and readable, and its consumer
\* is only called with commands: what the parts promise alone holds together.
THEOREM ServicesInHarness ==
  HarnessSpec => [](DispatchedIsGenuine
                      /\ (at # "off" => HellosInSequence /\ HellosReadable))
  <1>1. ServiceInv => /\ DispatchedIsGenuine
                      /\ at # "off" => HellosInSequence /\ HellosReadable
    BY CallsGenuine, OneBuildReadable DEF ServiceInv, InService, SequenceInv
  <1> QED
    BY InitServiceInv, StepServiceInv, <1>1, PTL DEF HarnessSpec
------------------------------------------------------------------------------
(***************************************************************************)
(* A request that is owed its answer.  The bytes in the decoder, in the    *)
(* feed call and in the FIFO are one stream: steps of the receiver move    *)
(* its bytes along, arrivals lengthen it, and only a frame that leaves the *)
(* decoder or a reset shortens it.                                         *)
(***************************************************************************)
StandsAt(r, s) == Len(r) <= Len(s) /\ SubSeq(s, 1, Len(r)) = r

\* What stands at the head of a stream stays there when the stream grows.
LEMMA StandsLonger ==
  ASSUME NEW S, NEW r \in Seq(S), NEW s \in Seq(S), NEW t \in Seq(S),
         StandsAt(r, s), Len(s) <= Len(t),
         \A i \in 1..Len(s) : t[i] = s[i]
  PROVE  StandsAt(r, t)
  <1>1. /\ Len(r) \in Nat /\ Len(s) \in Nat /\ Len(t) \in Nat
        /\ Len(r) <= Len(s) /\ SubSeq(s, 1, Len(r)) = r
    BY LenProperties DEF StandsAt
  <1>2. \A i \in 1..Len(r) : s[i] \in S /\ t[i] \in S /\ t[i] = s[i]
    BY <1>1, ElementOfSeq
  <1>3. /\ SubSeq(s, 1, Len(r)) \in Seq(S) /\ SubSeq(t, 1, Len(r)) \in Seq(S)
        /\ Len(SubSeq(s, 1, Len(r))) = Len(r) /\ Len(SubSeq(t, 1, Len(r))) = Len(r)
        /\ \A i \in 1..Len(r) : SubSeq(s, 1, Len(r))[i] = s[i]
        /\ \A i \in 1..Len(r) : SubSeq(t, 1, Len(r))[i] = t[i]
    BY <1>1, <1>2, SubSeqProperties
  <1>4. SubSeq(t, 1, Len(r)) = SubSeq(s, 1, Len(r))
    BY <1>2, <1>3, SeqEqual
  <1> QED
    BY <1>1, <1>4 DEF StandsAt

\* The first part of a stream agrees with what stands at its head.
LEMMA FirstPartAgrees ==
  ASSUME NEW S, NEW r \in Seq(S), NEW b \in Seq(S), NEW c \in Seq(S),
         StandsAt(r, b \o c), Len(b) <= Len(r)
  PROVE  \A i \in 1..Len(b) : b[i] = r[i]
  <1> SUFFICES ASSUME NEW i \in 1..Len(b) PROVE b[i] = r[i]
    OBVIOUS
  <1> DEFINE s == b \o c
  <1>1. /\ Len(r) \in Nat /\ Len(b) \in Nat /\ Len(c) \in Nat
        /\ s \in Seq(S) /\ Len(s) = Len(b) + Len(c) /\ s[i] = b[i]
    BY LenProperties, ConcatProperties
  <1>2. Len(r) <= Len(s) /\ SubSeq(s, 1, Len(r)) = r
    BY DEF StandsAt
  <1> HIDE DEF s
  <1>3. \A j \in 1..Len(r) : s[j] \in S
    BY <1>1, <1>2, ElementOfSeq
  <1>4. \A j \in 1..Len(r) : SubSeq(s, 1, Len(r))[j] = s[j]
    BY <1>1, <1>3, SubSeqProperties
  <1> QED
    BY <1>1, <1>2, <1>4

\* The lengths and the bytes of what the FIFO holds after an arrival.
LEMMA FittingKeeps ==
  ASSUME NEW queue \in Seq(Byte), NEW piece \in Seq(Byte), Len(queue) <= FifoSize
  PROVE  /\ Fitting(queue \o piece) \in Seq(Byte)
         /\ Len(Fitting(queue \o piece)) <= FifoSize
         /\ Len(queue) <= Len(Fitting(queue \o piece))
         /\ \A i \in 1..Len(queue) : Fitting(queue \o piece)[i] = queue[i]
  <1> DEFINE all == queue \o piece
             n == IF Len(all) < FifoSize THEN Len(all) ELSE FifoSize
  <1>1. /\ all \in Seq(Byte) /\ Len(all) = Len(queue) + Len(piece)
        /\ Len(queue) \in Nat /\ Len(piece) \in Nat /\ Len(all) \in Nat
        /\ \A i \in 1..Len(queue) : all[i] = queue[i]
    BY ConcatProperties, LenProperties
  <1>2. n \in Nat /\ n <= Len(all) /\ n <= FifoSize /\ Len(queue) <= n
    BY <1>1, Bounds
  <1>3. \A i \in 1..n : all[i] \in Byte
    <2> HIDE DEF all, n
    <2> QED
      BY <1>1, <1>2, ElementOfSeq
  <1>4. Fitting(all) = SubSeq(all, 1, n)
    BY DEF Fitting
  <1>5. /\ SubSeq(all, 1, n) \in Seq(Byte) /\ Len(SubSeq(all, 1, n)) = n
        /\ \A i \in 1..n : SubSeq(all, 1, n)[i] = all[i]
    <2> HIDE DEF all, n
    <2> QED
      BY <1>2, <1>3, SubSeqProperties
  <1> HIDE DEF n
  <1>6. \A i \in 1..Len(queue) : Fitting(all)[i] = queue[i]
    BY <1>1, <1>2, <1>4, <1>5
  <1> QED
    BY <1>2, <1>4, <1>5, <1>6

\* Between two bytes no input is left, and the FIFO never overflows.
StreamTyped ==
  /\ pc = "idle" => input = <<>>
  /\ Len(fifo) <= FifoSize

\* What the decoder has taken of the request is a beginning of it, unfinished as
\* soon as the parse loop has had its say; the gap check finds nothing to reset.
Held(r) ==
  /\ StandsAt(r, OnTheWay)
  /\ Len(buffer) <= Len(r)
  /\ pc # "parse" => Len(buffer) < Len(r)

RequestKept ==
  owed => /\ at \in {"poll", "check"}
          /\ at = "check" => buffer = <<>>
          /\ \E r \in Requests : Held(r)

HeldInv == GateInv /\ ClockInv /\ ServiceInv /\ StreamTyped /\ RequestKept

LEMMA HeldTyped ==
  ASSUME HeldInv
  PROVE  /\ buffer \in Seq(Byte) /\ input \in Seq(Byte) /\ fifo \in Seq(Byte)
         /\ Len(buffer) \in Nat /\ Len(buffer) <= MaxFrame
         /\ TypeInv
         /\ \A r \in Requests : r \in Seq(Byte) /\ r # <<>> /\ Len(r) \in Nat \ {0}
  <1>1. TypeInv /\ buffer \in Seq(Byte) /\ input \in Seq(Byte)
        /\ Len(buffer) <= MaxFrame
    BY DEF HeldInv, GateInv, IngressInv, TypeInv, TypeOK
  <1>2. fifo \in Seq(Byte)
    BY DEF HeldInv, ClockInv, LoopTyped
  <1>3. \A r \in Requests : r \in Seq(Byte) /\ r # <<>>
    BY HarnessAssumption
  <1> QED
    BY <1>1, <1>2, <1>3, LenProperties, EmptySeq

\* A request is a frame the decoder accepts, and fits its buffer.
LEMMA RequestFits ==
  ASSUME NEW r \in Requests
  PROVE  /\ DecodeResult(r) = "OK" /\ Len(r) <= MaxFrame /\ Len(r) <= FifoSize
         /\ ValidateFrame(r).result = "OK"
         /\ ValidateFrame(r).message.type = "IDENTIFY_REQUEST"
  BY HarnessAssumption, AcceptedFits

LEMMA StepStreamTyped ==
  ASSUME HeldInv, [HarnessNext]_harnessVars
  PROVE  StreamTyped'
  <1>1. /\ pc = "idle" => input = <<>>
        /\ fifo \in Seq(Byte) /\ Len(fifo) <= FifoSize /\ FifoSize \in Nat
    BY HeldTyped, Bounds DEF HeldInv, StreamTyped
  <1>2. CASE Setup
    BY <1>1, <1>2 DEF Setup, IngressRestart, Restart, StreamTyped
  <1>3. CASE SendHello
    BY <1>1, <1>3 DEF SendHello, ingressVars, vars, StreamTyped
  <1>4. CASE ReadSerial
    <2>1. pc' = "read" /\ fifo # <<>> /\ fifo' = Tail(fifo)
      BY <1>4 DEF ReadSerial, IngressFeed, Feed
    <2>2. Len(Tail(fifo)) = Len(fifo) - 1 /\ Len(fifo) \in Nat
      BY <1>1, <2>1, HeadTailProperties, LenProperties
    <2> QED
      BY <1>1, <2>1, <2>2 DEF StreamTyped
  <1>5. CASE FeedStep
    <2>1. fifo' = fifo /\ (pc' = "parse" \/ Parse)
      BY <1>5 DEF FeedStep, loopVars, IngressRead, ReadByte, IngressParse
    <2> QED
      BY <1>1, <2>1, ParseLeavesInput DEF StreamTyped
  <1>6. CASE FoundEmpty
    BY <1>1, <1>6 DEF FoundEmpty, ingressVars, vars, StreamTyped
  <1>7. CASE CheckGap
    BY <1>1, <1>7
       DEF CheckGap, IngressReset, GapReset, ingressVars, vars, StreamTyped
  <1>8. CASE Tick
    BY <1>1, <1>8 DEF Tick, ingressVars, vars, StreamTyped
  <1>9. ASSUME NEW piece \in Pieces, Arrive(piece)
        PROVE  StreamTyped'
    <2>1. /\ UNCHANGED <<pc, input>>
          /\ fifo' = IF at = "off" THEN <<>> ELSE Fitting(fifo \o piece)
      BY <1>9 DEF Arrive, ingressVars, vars
    <2>2. piece \in Seq(Byte)
      BY HarnessAssumption
    <2>3. Len(Fitting(fifo \o piece)) <= FifoSize /\ 0 <= FifoSize
      BY <1>1, <2>2, FittingKeeps
    <2>4. Len(fifo') <= FifoSize
      BY <2>1, <2>3, EmptySeq
    <2> QED
      BY <1>1, <2>1, <2>4 DEF StreamTyped
  <1>10. CASE Reboot
    BY <1>1, <1>10, EmptySeq DEF Reboot, IngressRestart, Restart, StreamTyped
  <1>11. CASE UNCHANGED harnessVars
    BY <1>1, <1>11 DEF harnessVars, ingressVars, vars, loopVars, StreamTyped
  <1> QED
    BY <1>2, <1>3, <1>4, <1>5, <1>6, <1>7, <1>8, <1>9, <1>10, <1>11
       DEF HarnessNext, Firmwares

\* What the decoder has taken of a held request is its beginning.
LEMMA HeadAgrees ==
  ASSUME HeldInv, NEW r \in Requests, Held(r)
  PROVE  \A i \in 1..Len(buffer) : buffer[i] = r[i]
  <1>1. /\ buffer \in Seq(Byte) /\ input \in Seq(Byte) /\ fifo \in Seq(Byte)
        /\ r \in Seq(Byte)
    BY HeldTyped
  <1>2. (buffer \o input) \o fifo = buffer \o (input \o fifo)
    BY <1>1, JoinBytes
  <1>3. StandsAt(r, (buffer \o input) \o fifo) /\ Len(buffer) <= Len(r)
    BY DEF Held, OnTheWay
  <1>4. input \o fifo \in Seq(Byte)
    BY <1>1, ConcatProperties
  <1> QED
    BY <1>1, <1>2, <1>3, <1>4, FirstPartAgrees

\* The FIFO does not run dry before the request is complete.
LEMMA HeldNotEmpty ==
  ASSUME HeldInv, FoundEmpty, NEW r \in Requests, Held(r)
  PROVE  FALSE
  <1>1. pc = "idle" /\ fifo = <<>> /\ input = <<>>
    BY DEF FoundEmpty, HeldInv, StreamTyped
  <1>2. buffer \in Seq(Byte) /\ Len(buffer) \in Nat /\ Len(r) \in Nat
    BY HeldTyped
  <1>3. OnTheWay = buffer
    BY <1>1, <1>2, ConcatEmptySeq DEF OnTheWay
  <1> QED
    BY <1>1, <1>2, <1>3 DEF Held, StandsAt

\* The request is complete: the gate accepts it and the service says hello.
LEMMA RequestLeaves ==
  ASSUME HeldInv, FeedStep, IngressParse, EmitFrame, NEW r \in Requests, Candidate = r
  PROVE  hellos' # hellos
  <1>1. TypeInv /\ CallsInv /\ Next /\ at = "poll"
    BY HeldTyped DEF HeldInv, ServiceInv, FeedStep, IngressParse, Next
  <1>2. delivered' # delivered
    <2>1. delivered \in Seq(Seq(Byte)) /\ r \in Seq(Byte)
      BY <1>1, HeldTyped DEF TypeInv, TypeOK
    <2>2. delivered' = Append(delivered, r)
      BY DEF EmitFrame
    <2> QED
      BY <2>1, <2>2, AppendProperties, LenProperties
  <1>3. dispatched' = Append(dispatched,
                        [frame |-> r, message |-> ValidateFrame(r).message])
    BY <1>2, RequestFits DEF IngressParse, HandleFrame
  <1>4. dispatched' # dispatched /\ dispatched'[Len(dispatched')].message.type
                                      = "IDENTIFY_REQUEST"
    <2> DEFINE S == Calls \cup {[frame |-> r, message |-> ValidateFrame(r).message]}
               n == Len(dispatched)
    <2>1. dispatched \in Seq(Calls)
      BY <1>1 DEF CallsInv
    <2>2. dispatched \in Seq(S) /\ n \in Nat
      BY <2>1, LenProperties
    <2>3. /\ Len(dispatched') = n + 1
          /\ dispatched'[n + 1] = [frame |-> r, message |-> ValidateFrame(r).message]
      BY <1>3, <2>1, <2>2, AppendProperties
    <2>4. dispatched'[n + 1].message = ValidateFrame(r).message
      BY <2>3
    <2> HIDE DEF n
    <2>5. dispatched' # dispatched
      BY <2>2, <2>3 DEF n
    <2> QED
      BY <2>3, <2>4, <2>5, RequestFits
  <1>5. EmitHello(HelloFrameSize)
    BY <1>4 DEF FeedStep, HandleMessage, IngressRead
  <1>6. SequenceInv /\ OneBuild
    BY <1>1 DEF HeldInv, ServiceInv, InService
  <1>7. Len(hellos) \in Nat /\ Len(hellos') = Len(hellos) + 1
    BY <1>5, <1>6, HelloSent
  <1> QED
    BY <1>7

LEMMA StepRequestKept ==
  ASSUME HeldInv, [HarnessNext]_harnessVars
  PROVE  RequestKept'
  <1>1. SUFFICES ASSUME owed'
                 PROVE  /\ at' \in {"poll", "check"}
                        /\ at' = "check" => buffer' = <<>>
                        /\ \E r \in Requests : Held(r)'
    BY DEF RequestKept
  <1>2. /\ buffer \in Seq(Byte) /\ input \in Seq(Byte) /\ fifo \in Seq(Byte)
        /\ Len(buffer) \in Nat /\ TypeInv
        /\ pc = "idle" => input = <<>>
        /\ Len(fifo) <= FifoSize
    BY HeldTyped DEF HeldInv, StreamTyped
  <1>3. RequestKept
    BY DEF HeldInv
  <1>4. CASE owed /\ UNCHANGED <<buffer, input, fifo, pc, at>>
    BY <1>3, <1>4 DEF RequestKept, Held, OnTheWay
  <1>5. CASE Setup \/ SendHello
    BY <1>1, <1>3, <1>5 DEF Setup, SendHello, lineVars, RequestKept
  <1>6. CASE ReadSerial
    <2>1. /\ owed /\ at = "poll" /\ at' = at /\ pc = "idle" /\ pc' = "read"
          /\ fifo # <<>> /\ buffer' = buffer
          /\ input' = <<Head(fifo)>> /\ fifo' = Tail(fifo)
      BY <1>1, <1>6 DEF ReadSerial, IngressFeed, Feed, lineVars
    <2>2. PICK r \in Requests : Held(r)
      BY <1>3, <2>1 DEF RequestKept
    <2>3. OnTheWay = buffer \o fifo
      BY <1>2, <2>1, ConcatEmptySeq DEF OnTheWay
    <2>4. OnTheWay' = OnTheWay
      BY <1>2, <2>1, <2>3, ByteMovesOn DEF OnTheWay
    <2>5. Held(r)'
      BY <2>1, <2>2, <2>4 DEF Held
    <2> QED
      BY <2>1, <2>5
  <1>7. CASE FeedStep /\ IngressRead
    <2>1. /\ owed /\ at = "poll" /\ at' = at /\ pc = "read" /\ pc' = "parse"
          /\ fifo' = fifo /\ ReadByte
      BY <1>1, <1>7 DEF FeedStep, IngressRead, IngressParse, ReadByte, Parse, loopVars
    <2>2. PICK r \in Requests : Held(r)
      BY <1>3, <2>1 DEF RequestKept
    <2>3. /\ Len(buffer) < Len(r) /\ Len(r) <= MaxFrame /\ Len(r) \in Nat
          /\ MaxFrame \in Nat
      BY <2>1, <2>2, RequestFits, HeldTyped, WireAssumption DEF Held, MaxFrame
    <2>4. Len(buffer) # MaxFrame
      BY <1>2, <2>3
    <2>5. buffer' = Append(buffer, Head(input)) /\ input' = Tail(input)
          /\ input # <<>>
      BY <1>2, <2>1, <2>4 DEF ReadByte, TypeInv
    <2>6. OnTheWay' = OnTheWay
      BY <1>2, <2>1, <2>5, ByteMovesOn DEF OnTheWay
    <2>7. Len(buffer') = Len(buffer) + 1
      BY <1>2, <2>5, HeadTailProperties, AppendProperties
    <2>8. Held(r)'
      BY <1>2, <2>1, <2>2, <2>3, <2>6, <2>7 DEF Held
    <2> QED
      BY <2>1, <2>8
  <1>8. CASE FeedStep /\ IngressParse
    <2>1. /\ owed /\ at = "poll" /\ at' = at /\ fifo' = fifo /\ Parse
      BY <1>1, <1>8 DEF FeedStep, IngressParse, loopVars
    <2>2. PICK r \in Requests : Held(r)
      BY <1>3, <2>1 DEF RequestKept
    <2>3. r \in Seq(Byte) /\ DecodeResult(r) = "OK"
      BY RequestFits, HeldTyped
    <2>4. \A i \in 1..Len(buffer) : buffer[i] = r[i]
      BY <2>2, HeadAgrees
    <2>5. \/ AwaitMore /\ Len(buffer) < Len(r)
          \/ EmitFrame /\ Candidate = r
      BY <1>2, <2>1, <2>2, <2>3, <2>4, FrameAtHead DEF Held
    <2>6. CASE AwaitMore /\ Len(buffer) < Len(r)
      <3>1. buffer' = buffer /\ input' = input
        BY <2>1, <2>6, ParseLeavesInput DEF AwaitMore
      <3> QED
        BY <2>1, <2>2, <2>6, <3>1 DEF Held, OnTheWay
    <2>7. CASE EmitFrame /\ Candidate = r
      <3>1. hellos' # hellos
        BY <1>8, <2>7, RequestLeaves
      <3>2. owed' = FALSE
        BY <1>8, <3>1 DEF FeedStep, IngressRead, IngressParse, ReadByte, Parse,
                          identityVars
      <3> QED
        BY <1>1, <3>2
    <2> QED
      BY <2>5, <2>6, <2>7
  <1>9. CASE FoundEmpty
    <2>1. owed
      BY <1>1, <1>9 DEF FoundEmpty, lineVars
    <2> QED
      BY <1>3, <1>9, <2>1, HeldNotEmpty DEF RequestKept
  <1>10. CASE CheckGap
    <2>1. owed /\ at = "check" /\ at' = "poll" /\ fifo' = fifo
      BY <1>1, <1>10 DEF CheckGap, lineVars
    <2>2. buffer = <<>>
      BY <1>3, <2>1 DEF RequestKept
    <2>3. UNCHANGED <<buffer, input, pc>>
      BY <1>10, <2>2 DEF CheckGap, GapExpired, ingressVars, vars
    <2> QED
      BY <1>3, <2>1, <2>3 DEF RequestKept, Held, OnTheWay
  <1>11. ASSUME NEW piece \in Pieces, Arrive(piece)
         PROVE  /\ at' \in {"poll", "check"}
                /\ at' = "check" => buffer' = <<>>
                /\ \E r \in Requests : Held(r)'
    <2>1. /\ UNCHANGED <<buffer, input, pc, at>> /\ pc = "idle" /\ input = <<>>
          /\ at # "off" => fifo' = Fitting(fifo \o piece)
          /\ owed \/ (at \in {"poll", "check"} /\ piece \in Requests /\ quiet >= Settle)
      BY <1>1, <1>2, <1>11 DEF Arrive, ingressVars, vars
    <2>2. piece \in Seq(Byte)
      BY HarnessAssumption
    <2>3. at \in {"poll", "check"} /\ fifo' = Fitting(fifo \o piece)
      BY <1>3, <2>1 DEF RequestKept
    <2>4. /\ fifo' \in Seq(Byte) /\ Len(fifo) <= Len(fifo')
          /\ \A i \in 1..Len(fifo) : fifo'[i] = fifo[i]
      BY <1>2, <2>2, <2>3, FittingKeeps
    <2>5. OnTheWay = buffer \o fifo /\ OnTheWay' = buffer \o fifo'
      BY <1>2, <2>1, ConcatEmptySeq DEF OnTheWay
    <2>6. CASE owed
      <3>1. PICK r \in Requests : Held(r)
        BY <1>3, <2>6 DEF RequestKept
      <3>2. /\ buffer \o fifo \in Seq(Byte) /\ buffer \o fifo' \in Seq(Byte)
            /\ Len(buffer \o fifo) <= Len(buffer \o fifo')
            /\ \A i \in 1..Len(buffer \o fifo) : (buffer \o fifo')[i] = (buffer \o fifo)[i]
        <4> DEFINE p == fifo'
        <4>1. p \in Seq(Byte) /\ Len(fifo) <= Len(p) /\ Len(p) \in Nat /\ Len(fifo) \in Nat
              /\ \A i \in 1..Len(fifo) : p[i] = fifo[i]
          BY <1>2, <2>4, LenProperties
        <4> HIDE DEF p
        <4>2. /\ buffer \o fifo \in Seq(Byte) /\ buffer \o p \in Seq(Byte)
              /\ Len(buffer \o fifo) = Len(buffer) + Len(fifo)
              /\ Len(buffer \o p) = Len(buffer) + Len(p)
              /\ \A i \in 1..Len(buffer) + Len(fifo) : (buffer \o fifo)[i]
                   = IF i <= Len(buffer) THEN buffer[i] ELSE fifo[i - Len(buffer)]
              /\ \A i \in 1..Len(buffer) + Len(p) : (buffer \o p)[i]
                   = IF i <= Len(buffer) THEN buffer[i] ELSE p[i - Len(buffer)]
          BY <1>2, <4>1, ConcatProperties
        <4>3. ASSUME NEW i \in 1..Len(buffer) + Len(fifo)
              PROVE  (buffer \o p)[i] = (buffer \o fifo)[i]
          <5>1. i \in 1..Len(buffer) + Len(p)
            BY <1>2, <4>1
          <5>2. i > Len(buffer) => i - Len(buffer) \in 1..Len(fifo)
            BY <1>2, <4>1
          <5> QED
            BY <1>2, <4>1, <4>2, <5>1, <5>2
        <4> QED
          BY <1>2, <4>1, <4>2, <4>3 DEF p
      <3>3. StandsAt(r, OnTheWay')
        <4>1. StandsAt(r, buffer \o fifo) /\ r \in Seq(Byte)
          BY <2>5, <3>1, HeldTyped DEF Held
        <4> QED
          BY <2>5, <3>2, <4>1, StandsLonger
      <3>4. Held(r)'
        BY <2>1, <3>1, <3>3 DEF Held, StandsAt
      <3> QED
        BY <1>3, <2>1, <2>3, <2>6, <3>4 DEF RequestKept
    <2>7. CASE ~ owed
      <3>1. piece \in Requests /\ buffer = <<>> /\ fifo = <<>>
        BY <2>1, <2>3, <2>7, ClockSettles DEF HeldInv, ReceiverSettles
      <3>2. Len(piece) \in Nat \ {0} /\ Len(piece) <= FifoSize
        BY <3>1, HeldTyped, RequestFits
      <3>3. fifo' = piece
        <4>1. <<>> \o piece = piece
          BY <2>2, ConcatEmptySeq
        <4>2. (IF Len(piece) < FifoSize THEN Len(piece) ELSE FifoSize) = Len(piece)
          BY <3>2, Bounds
        <4> QED
          BY <2>2, <2>3, <3>1, <4>1, <4>2, SubSeqFull DEF Fitting
      <3>4. OnTheWay' = piece
        BY <2>2, <2>5, <3>1, <3>3, ConcatEmptySeq
      <3>5. StandsAt(piece, piece)
        BY <2>2, <3>2, SubSeqFull DEF StandsAt
      <3>6. Held(piece)'
        BY <2>1, <3>1, <3>2, <3>4, <3>5, EmptySeq DEF Held, StandsAt
      <3> QED
        BY <2>1, <2>3, <3>1, <3>6
    <2> QED
      BY <2>6, <2>7
  <1>12. CASE Tick \/ UNCHANGED harnessVars
    BY <1>1, <1>4, <1>12
       DEF Tick, harnessVars, ingressVars, vars, loopVars, lineVars
  <1>13. CASE Reboot
    BY <1>1, <1>13 DEF Reboot
  <1> QED
    BY <1>5, <1>6, <1>7, <1>8, <1>9, <1>10, <1>11, <1>12, <1>13
       DEF HarnessNext, Firmwares, FeedStep

LEMMA InitHeldInv == HarnessInit => HeldInv
  <1> SUFFICES ASSUME HarnessInit PROVE HeldInv
    OBVIOUS
  <1>1. GateInv /\ ClockInv /\ ServiceInv
    BY InitGateInv, InitClockInv, InitServiceInv DEF HarnessInit
  <1>2. ~ owed /\ fifo = <<>> /\ input = <<>>
    BY DEF HarnessInit, IngressInit, Init
  <1> QED
    BY <1>1, <1>2, EmptySeq, Bounds DEF HeldInv, StreamTyped, RequestKept

LEMMA StepHeldInv == HeldInv /\ [HarnessNext]_harnessVars => HeldInv'
  <1> SUFFICES ASSUME HeldInv, [HarnessNext]_harnessVars PROVE HeldInv'
    OBVIOUS
  <1>1. GateInv'
    BY GateSteps, RestartGateInv, StepGateInv DEF HeldInv
  <1>2. ClockInv' /\ ServiceInv'
    BY StepClockInv, StepServiceInv DEF HeldInv
  <1> QED
    BY <1>1, <1>2, StepStreamTyped, StepRequestKept DEF HeldInv

\* No request that found the receiver settled is lost or overtaken: for every
\* traffic that follows it, every clock, every speed of the loop and every FIFO
\* that has room for it, the request waits its turn whole and leaves as a hello.
THEOREM RequestsWait == HarnessSpec => []RequestHeld
  <1>1. HeldInv => RequestHeld
    BY DEF HeldInv, RequestKept, Held, StandsAt, RequestHeld
  <1> QED
    BY InitHeldInv, StepHeldInv, <1>1, PTL DEF HarnessSpec

\* What is left to do is bounded by the FIFO that the request fits in.
LEMMA ProgressBounded ==
  HeldInv /\ owed => Progress \in Int /\ Progress < 3 * FifoSize
  <1> SUFFICES ASSUME HeldInv, owed
               PROVE  Progress \in Int /\ Progress < 3 * FifoSize
    OBVIOUS
  <1>1. PICK r \in Requests : Held(r)
    BY DEF HeldInv, RequestKept
  <1>2. /\ Len(r) \in Nat /\ Len(r) <= FifoSize /\ Len(buffer) \in Nat
        /\ FifoSize \in Nat /\ pc \in {"idle", "read", "parse"}
    BY RequestFits, HeldTyped, Bounds DEF TypeInv, TypeOK
  <1>3. /\ Len(buffer) <= Len(r)
        /\ pc # "parse" => Len(buffer) < Len(r)
    BY <1>1 DEF Held
  <1> QED
    BY <1>2, <1>3 DEF Progress

LEMMA StepAnswerNears ==
  ASSUME HeldInv, owed, owed', Firmwares
  PROVE  Progress < Progress'
  <1>1. /\ buffer \in Seq(Byte) /\ input \in Seq(Byte) /\ Len(buffer) \in Nat
        /\ TypeInv /\ RequestKept /\ (pc = "idle" => input = <<>>)
    BY HeldTyped DEF HeldInv, StreamTyped
  <1>2. PICK r \in Requests : Held(r)
    BY <1>1 DEF RequestKept
  <1>3. /\ r \in Seq(Byte) /\ Len(r) \in Nat /\ Len(r) <= MaxFrame
        /\ DecodeResult(r) = "OK" /\ MaxFrame \in Nat
    BY RequestFits, HeldTyped, WireAssumption DEF MaxFrame
  <1>4. CASE Setup \/ SendHello
    BY <1>1, <1>4 DEF Setup, SendHello, RequestKept
  <1>5. CASE ReadSerial
    <2>1. at = "poll" /\ pc = "idle" /\ pc' = "read" /\ buffer' = buffer
      BY <1>5 DEF ReadSerial, IngressFeed, Feed
    <2> QED
      BY <1>1, <2>1 DEF Progress
  <1>6. CASE FeedStep /\ IngressRead
    <2>1. ReadByte /\ pc = "read" /\ pc' = "parse"
      BY <1>6 DEF IngressRead, ReadByte
    <2>2. Len(buffer) # MaxFrame
      BY <1>1, <1>2, <1>3, <2>1 DEF Held
    <2>3. buffer' = Append(buffer, Head(input)) /\ input # <<>>
      BY <1>1, <2>1, <2>2 DEF ReadByte, TypeInv
    <2>4. Len(buffer') = Len(buffer) + 1
      BY <1>1, <2>3, HeadTailProperties, AppendProperties
    <2> QED
      BY <1>1, <2>1, <2>4 DEF Progress
  <1>7. CASE FeedStep /\ IngressParse
    <2>1. Parse /\ pc = "parse" /\ at = "poll" /\ at' = at
      BY <1>7 DEF FeedStep, IngressParse, Parse, loopVars
    <2>2. AwaitMore
      <3>1. EmitFrame /\ Candidate = r => hellos' # hellos
        BY <1>7, RequestLeaves
      <3>2. hellos' # hellos => owed' = FALSE
        BY <1>7, <2>1 DEF FeedStep, IngressRead, IngressParse, ReadByte, identityVars
      <3> QED
        BY <1>1, <1>2, <1>3, <2>1, <3>1, <3>2, HeadAgrees, FrameAtHead DEF Held
    <2>3. buffer' = buffer /\ pc' \in {"idle", "read"}
      BY <2>2 DEF AwaitMore, AfterInput
    <2> QED
      BY <1>1, <2>1, <2>3 DEF Progress
  <1>8. CASE FoundEmpty
    BY <1>2, <1>8, HeldNotEmpty
  <1>9. CASE CheckGap
    <2>1. at = "check" /\ at' = "poll" /\ buffer = <<>> /\ pc = "idle"
      BY <1>1, <1>9 DEF CheckGap, RequestKept, HeldInv, ClockInv, LoopPhase
    <2>2. UNCHANGED <<buffer, pc>>
      BY <1>9, <2>1 DEF CheckGap, GapExpired, ingressVars, vars
    <2> QED
      BY <1>1, <2>1, <2>2 DEF Progress
  <1> QED
    BY <1>4, <1>5, <1>6, <1>7, <1>8, <1>9 DEF Firmwares, FeedStep

\* The answer comes after a bounded number of the firmware's own steps: with the
\* firmware running, that is all `RequestAnswered` adds.
THEOREM AnswersAreNear == HarnessSpec => AnswerNears
  <1>1. (HeldInv /\ owed)' => (Progress \in Int /\ Progress < 3 * FifoSize)'
    BY ProgressBounded, PTL
  <1>2. HeldInv /\ [HarnessNext]_harnessVars
          => [owed /\ owed' /\ Firmwares
                => Progress < Progress' /\ Progress' < 3 * FifoSize]_harnessVars
    BY <1>1, StepHeldInv, StepAnswerNears
  <1> QED
    BY InitHeldInv, StepHeldInv, <1>2, PTL DEF HarnessSpec, AnswerNears
=============================================================================
