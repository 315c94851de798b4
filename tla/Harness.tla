------------------------------ MODULE Harness -------------------------------
(***************************************************************************)
(* The Nucleo harness, main.cpp: setup() starts the ingress gate and the   *)
(* identity service and says hello; loop() drains the serial FIFO into the *)
(* gate, whose consumer is the identity service, and then gives up on an   *)
(* incomplete candidate if the line has been silent for too long.          *)
(*                                                                         *)
(* Around it: a line that brings bytes, whole frames or pieces of them, at *)
(* any moment; a receive FIFO that overruns; a millisecond clock that      *)
(* wraps; and a reset button.  One turn of the while loop is one action    *)
(* and the feed call it makes runs step by step.  Nothing in a feed call   *)
(* looks at the FIFO or the clock, so it makes no difference whether bytes *)
(* and ticks come during a feed call or right after it: they come after.   *)
(***************************************************************************)
EXTENDS CpuIngress, Identity, FiniteSets

CONSTANTS
  TimeMod,       \* 2^32 in the firmware: millis() is a uint32_t
  Gap,           \* kFramingGapMs
  MaxLag,        \* a loop() finds the FIFO empty within this many ticks
  MaxWindow,     \* and reads millis() for the gap within this many more
  FifoSize,      \* the receive buffer of the serial driver
  Pieces,        \* what the line may bring at once
  Requests,      \* those pieces that are whole identify requests
  LineBudget,    \* bound: bytes brought during a behaviour
  MaxReboots     \* bound: resets during a behaviour

\* How long the receiver may take to be empty-handed once the line is silent.
Settle == Gap + 2 * (MaxLag + MaxWindow) + 1

ASSUME HarnessAssumption ==
  /\ TimeMod \in Nat \ {0}
  /\ {Gap, MaxLag, MaxWindow, LineBudget, MaxReboots} \subseteq Nat
  /\ Settle <= TimeMod       \* the loop turns much faster than the clock wraps
  /\ FifoSize \in Nat \ {0}
  /\ \A piece \in Pieces : piece \in Seq(Byte) /\ piece # <<>>
  /\ Requests \subseteq Pieces
  /\ \A r \in Requests :
       /\ Len(r) <= FifoSize     \* the driver has room for a whole request
       /\ DecodeResult(r) = "OK"
       /\ ValidateFrame(r).result = "OK"
       /\ ValidateFrame(r).message.type = "IDENTIFY_REQUEST"
  /\ {<<b>> : b \in Byte} \subseteq Chunks

VARIABLES
  at,            \* "off" | "greet" in setup() | "poll" | "check" in loop()
  fifo,          \* bytes received by the serial driver and not read
  now,           \* millis()
  last_rx_ms,
  lag,           \* ticks since the firmware was last where it had to be
  quiet,         \* history: true time since the last byte, up to TimeMod
  lull,          \* history: the silence before the oldest byte in the FIFO
  owed,          \* history: a request came to a settled receiver, no hello yet
  brought,       \* history: bytes the line has brought
  reboots        \* history: resets so far

lineVars == <<quiet, lull, owed, brought, reboots>>
loopVars == <<at, fifo, now, last_rx_ms, lag>>
harnessVars == <<ingressVars, identityVars, loopVars, lineVars>>

------------------------------------------------------------------------------
\* Static storage before setup().
NoIdentity == Starting([major |-> 0, minor |-> 0, build_id |-> <<0, 0>>], 0)

HarnessInit ==
  /\ IngressInit
  /\ identity = NoIdentity /\ hellos = <<>> /\ first = 0
  /\ at = "off" /\ fifo = <<>> /\ now = 0 /\ last_rx_ms = 0 /\ lag = 0
  /\ quiet = 0 /\ lull = 0 /\ owed = FALSE /\ brought = 0 /\ reboots = 0

\* setup(), up to Serial.begin.
Setup ==
  /\ at = "off"
  /\ IngressRestart
  /\ \E version \in Firmware : identity' = Starting(version, 0)
  /\ at' = "greet"
  /\ UNCHANGED <<hellos, first, fifo, now, last_rx_ms, lag, lineVars>>

\* send_hello() at the end of setup().
SendHello ==
  /\ at = "greet"
  /\ EmitHello(HelloFrameSize)
  /\ at' = "poll"
  /\ UNCHANGED <<ingressVars, fifo, now, last_rx_ms, lag, lineVars>>

\* A turn of the while loop: a byte is read, stamped and fed to the gate.
ReadSerial ==
  /\ at = "poll" /\ pc = "idle"
  /\ fifo # <<>>
  /\ input' = <<Head(fifo)>> /\ IngressFeed
  /\ fifo' = Tail(fifo)
  /\ last_rx_ms' = now
  /\ UNCHANGED <<identityVars, at, now, lag, lineVars>>

\* The feed call; handle_message is the gate's callback.
FeedStep ==
  /\ at = "poll"
  /\ \/ IngressRead /\ UNCHANGED <<identityVars, owed>>
     \/ /\ IngressParse
        /\ \/ dispatched' = dispatched /\ UNCHANGED <<identityVars, owed>>
           \/ /\ dispatched' # dispatched
              /\ HandleMessage(dispatched'[Len(dispatched')].message, HelloFrameSize)
              /\ owed' = (owed /\ hellos' = hellos)
  /\ UNCHANGED <<loopVars, quiet, lull, brought, reboots>>

FoundEmptyAfterOne ==                             \* mutant: `if`, not `while`
  /\ at = "poll" /\ pc = "idle"
  /\ at' = "check"
  /\ lag' = 0
  /\ UNCHANGED <<ingressVars, identityVars, fifo, now, last_rx_ms, lineVars>>

\* Serial.available() == 0 ends the while loop.
FoundEmpty ==
  /\ at = "poll" /\ pc = "idle"
  /\ fifo = <<>>
  /\ at' = "check"
  /\ lag' = 0
  /\ UNCHANGED <<ingressVars, identityVars, fifo, now, last_rx_ms, lineVars>>

GapExpiredSigned == buffer # <<>> /\ now > last_rx_ms + Gap   \* mutant: no wrap

GapExpired == buffer # <<>> /\ (now - last_rx_ms) % TimeMod > Gap

\* The gap check, the end of loop().
CheckGap ==
  /\ at = "check"
  /\ \/ GapExpired /\ IngressReset
     \/ ~GapExpired /\ UNCHANGED ingressVars
  /\ at' = "poll"
  /\ lag' = 0
  /\ UNCHANGED <<identityVars, fifo, now, last_rx_ms, lineVars>>

------------------------------------------------------------------------------
(***************************************************************************)
(* The surroundings.                                                       *)
(***************************************************************************)
Later(t) == IF t < TimeMod THEN t + 1 ELSE t

\* A millisecond passes; the firmware does not fall behind further than it may.
Tick ==
  /\ pc = "idle"
  /\ lag < (IF at = "check" THEN MaxWindow ELSE MaxLag)
  /\ now' = (now + 1) % TimeMod
  /\ lag' = lag + 1
  /\ quiet' = Later(quiet)
  /\ UNCHANGED <<ingressVars, identityVars, at, fifo, last_rx_ms, lull, owed,
                 brought, reboots>>

Fitting(queue) == SubSeq(queue, 1, IF Len(queue) < FifoSize THEN Len(queue) ELSE FifoSize)

\* Bytes arrive; what the FIFO cannot hold is lost, and all of it before setup.
Arrive(piece) ==
  /\ pc = "idle"
  /\ brought + Len(piece) <= LineBudget
  /\ brought' = brought + Len(piece)
  /\ fifo' = IF at = "off" THEN <<>> ELSE Fitting(fifo \o piece)
  /\ quiet' = 0
  /\ lull' = IF fifo = <<>> THEN quiet ELSE lull
  /\ owed' = (owed \/ (at \in {"poll", "check"} /\ piece \in Requests /\ quiet >= Settle))
  /\ UNCHANGED <<ingressVars, identityVars, at, now, last_rx_ms, lag, reboots>>

Reboot ==
  /\ pc = "idle"
  /\ reboots < MaxReboots
  /\ reboots' = reboots + 1
  /\ IngressRestart
  /\ identity' = NoIdentity /\ hellos' = <<>> /\ first' = 0
  /\ at' = "off" /\ fifo' = <<>> /\ now' = 0 /\ last_rx_ms' = 0 /\ lag' = 0
  /\ lull' = 0 /\ owed' = FALSE
  /\ UNCHANGED <<quiet, brought>>

Firmwares == Setup \/ SendHello \/ ReadSerial \/ FeedStep \/ FoundEmpty \/ CheckGap

HarnessNext == Firmwares \/ Tick \/ (\E piece \in Pieces : Arrive(piece)) \/ Reboot

HarnessSpec == HarnessInit /\ [][HarnessNext]_harnessVars

\* The processor runs and time passes; the line owes nothing to anybody.
FairHarnessSpec ==
  HarnessSpec /\ WF_harnessVars(Firmwares) /\ WF_harnessVars(Tick)

------------------------------------------------------------------------------
(***************************************************************************)
(* Properties.                                                             *)
(***************************************************************************)

\* The silence after the last byte fed to the gate.
Silence == IF fifo = <<>> THEN quiet ELSE lull

\* An incomplete candidate is given up only if the line really was silent for
\* the gap after the candidate's last byte, whatever the clock shows and
\* however long the firmware took to get to its FIFO.  The one millisecond
\* `>` asks for on top is what the window before the second millis() may cost.
ResetOnlyAfterSilence ==
  [][at = "check" /\ at' = "poll" /\ buffer' # buffer
       => Silence + MaxWindow > Gap]_harnessVars

\* docs/protocol-bringup.md:82-84, with its bound: whatever came before, once
\* the line has been silent for Settle nothing is left that could swallow the
\* next frame.
ReceiverSettles ==
  at \in {"poll", "check"} /\ quiet >= Settle => buffer = <<>> /\ fifo = <<>>

\* docs/identity-handshake.md:10-12: since the reset one hello has gone out for
\* setup() and one for each request the gate accepted, and for nothing else.
HelloPerRequest ==
  at \in {"poll", "check"} =>
    Len(hellos) = 1 + Cardinality({i \in DOMAIN dispatched :
                        dispatched[i].message.type = "IDENTIFY_REQUEST"})

\* The bytes on their way through the receiver, oldest first.
OnTheWay == buffer \o input \o fifo

\* A whole request that found a settled receiver leaves it as a hello and in no
\* other way: until then it stands at the head of what the receiver holds, cut
\* by no timeout, displaced by no later byte, swallowed by no other candidate.
RequestHeld ==
  owed => \E r \in Requests : /\ Len(r) <= Len(OnTheWay)
                              /\ SubSeq(OnTheWay, 1, Len(r)) = r

\* How far the receiver is with the request it owes an answer to, in steps of
\* the firmware: three for a byte, and one to be back from the gap check.
Progress ==
  3 * Len(buffer) + (CASE pc = "read" -> 1
                       [] pc = "parse" -> -1
                       [] pc = "idle" -> IF at = "check" THEN -1 ELSE 0)

\* Every step of the firmware brings the answer nearer: a request that found a
\* settled receiver is answered within 3 * FifoSize + 1 steps of the firmware,
\* whatever the line sends after it and whatever the clock does.
AnswerNears ==
  [][owed /\ owed' /\ Firmwares
       => Progress < Progress' /\ Progress' < 3 * FifoSize]_harnessVars

\* A whole request that finds a settled receiver is answered, so a CPU that
\* asks again after a pause gets its hello whatever happened to the line.
RequestAnswered == owed ~> ~owed
=============================================================================
