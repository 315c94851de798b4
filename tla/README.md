# A formal model of the OOMWOO MCU firmware

TLA+ modules, TLC runs and TLAPS proofs for the code of `makerspet/oomwoo-firmware`:
the CPU/MCU serial protocol (`src/src/oomwoo_*.c`, `src/src/main.cpp`) and the script
that watches its test corpus (`src/tools/check_corpus_sync.py`). All paths below are relative to the repository root, which is `src/`: `src/src/x.c` is the
repository's `src/x.c`.

## 1. The system

The firmware is a bring-up slice of a vacuum robot's microcontroller: it talks to
a CPU over a UART, and nothing else yet. It is single-threaded C, called from an
Arduino `loop()`; the CPU, the line, the serial FIFO and the clock are what it runs
against.

| component | code | state | operations | meets |
|---|---|---|---|---|
| OW frame codec | `oomwoo_protocol.c:49-158` | none | `oomwoo_encode_frame`, `oomwoo_decode_frame`, CRC-16 | called by the decoder and the identity service |
| stream decoder | `oomwoo_protocol.c:14-47,160-263` | 524-byte buffer, six `uint32_t` counters | `init`, `feed`, `reset_incomplete` | called by the ingress gate, calls it back per frame |
| typed message codec | `oomwoo_messages.c` | none | direction, payload size, validate, decode, encode | called by the gate and the identity service |
| CPU ingress gate | `oomwoo_cpu_ingress.c` | a decoder, seven `uint32_t` counters | `init`, `feed`, `validate_frame`, `reset_incomplete` | decoder's callback; calls the consumer back per command |
| identity service | `oomwoo_identity.c` | version, build, next sequence | `init`, `emit_hello`, `handle_message` | the gate's consumer |
| Nucleo harness | `main.cpp` | `last_rx_ms`, transmit buffer | `setup`, `loop`, two send helpers | serial FIFO, `millis()`, all of the above |
| corpus sync check | `tools/check_corpus_sync.py` | none (a CI script) | fetch with retries, compare, exit code | upstream repository |
| vector generators, pin map, tests, CI | `tools/generate_*.py`, `include/oomwoo_pins.h`, `tests/`, `.github/` | none | generated data and checks | - |
| safety machine, power, sensors | `docs/SPEC.md` only | - | - | no code exists |

Data flow: UART byte -> `loop` -> gate `feed` -> decoder `feed` -> `handle_frame`
-> `validate_frame` -> message codec -> consumer callback -> identity -> hello frame
-> UART; and, when the line is silent for 50 ms, `loop` -> `reset_incomplete`.

What is hard here, and what makes each part correct:

- *Decoder.* It must resynchronise after noise, damaged frames and lost bytes
  without losing a good frame, whatever the alignment and however the bytes are cut
  into calls; it must not loop, overrun its buffer, or lose count of a byte, also
  when a counter wraps; and it must leave nothing undecided between two calls.
- *Frame codec.* What passes must be what was sent.
- *Message codec.* Each of fourteen layouts is written three times (length, decode,
  encode), plus ranges; they must agree, also for the signed fields.
- *Gate.* The order of its tests decides which counter moves and what reaches an
  actuator's dispatcher; every frame must be accounted for once.
- *Identity service.* One sequence number per hello on the wire, none for a call that
  failed or was ignored, also across the 16-bit wrap; and the other end can read every
  hello, though its payload is written over uninitialised stack memory.
- *Harness.* The gap timeout is measured with a clock that wraps, read after the last
  look at the FIFO, while bytes keep arriving: it must not give up a frame that is still
  coming, and must give up one that is not. Every accepted request is answered once, and
  a CPU that asks again after a pause gets its hello whatever the line did before.
- *Corpus check.* A failure that may pass is tried again, after a back-off; one that
  lasts is not; and neither is told as drift of the corpus.

`PROJECT.json` lists the hazards with their lines and the properties that cover them.

## 2. Modules

| module | models | kind |
|---|---|---|
| `WireFormat` | frame layout, `EncodeFrame`, `DecodeResult` | operators, constants of the geometry |
| `Crc16` | the CRC-16/CCITT-FALSE loop | operators and recursive functions on the bits of the register |
| `StreamDecoder` | `feed`, `reset_incomplete` | state machine, one action per loop iteration |
| `FrameStream` | what a framing layer promises | abstract specification |
| `DecoderRefinement` | `StreamDecoder` implements `FrameStream` | refinement mapping |
| `MessageCodec` | direction, sizes, layouts, ranges, decode, encode | operators |
| `MessageExchange` | one message encoded, carried and decoded | state machine |
| `CpuIngress` | the gate: `StreamDecoder` with `handle_frame` as its callback | state machine composing the two |
| `Reception` | the gate on a line that may bring anything, with what becomes of each byte of it | `CpuIngress` with history |
| `CommandQueue` | what the link promises to the programs at its ends | abstract specification |
| `CommandLink` | a CPU that encodes commands, an undamaged line, the gate | composition, with its refinement of `CommandQueue` |
| `Identity` | `emit_hello`, `handle_message` | state machine |
| `Harness` | `setup`, `loop`, and the line, FIFO, clock and reset button around them | composition of `CpuIngress` and `Identity` |
| `CorpusSync` | `check_corpus_sync.py` | state machine, one answer of the network per attempt |
| `StreamDecoderProofs` | theorems about the decoder | TLAPS |
| `RefinementProofs` | the decoder implements `FrameStream`, the link implements `CommandQueue`, what becomes of an arbitrary line | TLAPS |
| `CodecProofs` | lemmas about frames and payloads as byte sequences, and what the CRC detects | TLAPS |
| `MessageExchangeProofs`, `CpuIngressProofs`, `IdentityProofs`, `HarnessProofs`, `CorpusSyncProofs` | theorems about the module named | TLAPS |
| `MC*` | constants for TLC, and properties stated against the frames fed | model checking |

`StreamDecoder`. `buffer` and `stats` are `decoder->buffer[0..buffered_bytes-1]` and
`decoder->stats`. `input`, `emitted` and `pc` are the locals of a running `feed` call:
what is left of `data`, the count it returns, and where it is. `received`, `framed`
and `delivered` are history. `Feed` enters a call, `ReadByte` is one turn of the
`for` loop (line 177-184), the `Parse` actions are the exits of one turn of the
`while (processing)` loop, in source order, each assuming the tests before it
passed; `AfterShrink` is the value `processing` gets. `GapReset` is
`reset_incomplete`, which runs between calls. A callback is a step of the same
thread and cannot call back into the decoder (`docs/cpu-ingress.md:27`), so
`EmitFrame` is one action. NULL arguments and empty inputs return without changing
anything and are left out.

`WireFormat`. `EncodeFrameResult` and `EncodeFrame` are the result code of
`oomwoo_encode_frame` and the bytes it writes; `DecodeResult` keeps the order of the
tests of `oomwoo_decode_frame`. A CRC field has exactly `CrcSize` bytes, whatever the
operator given for `Crc` returns. `Crc16` is the firmware's CRC: a register is a function from
bit numbers to bits, one turn of the inner loop (`CrcBit`) a shift with an exclusive or,
and the outer loop a function of the number of bytes taken in. `CheckValue`, the check value
of `test/test_protocol/test_main.cpp:64`, is an assumption TLC evaluates.

`FrameStream`. `rest` is what was received and not yet decided, `out` the frames
delivered, `gaps` tells apart the steps that give up after a gap. The framing layer
delivers a frame at the head of `rest`, drops bytes no frame can begin at, or, on a
gap, abandons a head that is not a frame; it may never skip a frame, deliver
anything else, or change the order. `DecoderRefinement` maps `rest` to the buffer,
`out` to the callbacks and `gaps` to the `gap_resets` counter, and states what a
frame is without the decoder's own test: it is what `EncodeFrame` gives for the
fields and payload found in the bytes.

`MessageCodec`. A message is a type name and its field values in wire order; a
payload is its bytes. `DecodeLayout`, `EncodeLayout` and `PayloadSize` are the
three tables of the source and are not derived from one another, so a difference
between them is visible. A `u32` is a pair of halves, since TLC's integers have 32
bits. `MessageExchange` gives the encoder a buffer with arbitrary old contents
(`oomwoo_identity.c:24` is uninitialised stack memory) and lets another sender's
payload arrive in place of the encoded one.

`CpuIngress`. `IngressParse` is a decoder step, together with `HandleFrame` when
that step emitted a frame. `ingress` is `ingress->stats`, `accepted` the count `feed`
returns, `dispatched` the consumer's calls.

`Reception`. `heard` is every byte the decoder has taken in, `fate` how each byte that has left its
buffer left it: in the n-th frame delivered, thrown away as noise, or given up by a gap reset.
Each action is one of the gate's, which it neither forbids nor changes; `Leave` notes what
`remove_prefix` takes off the buffer. A property can so compare what the receiver made of a
stretch of the line with what stands there, also with bytes that came long after the
decision. The next-state relation puts no condition on the line: noise, damage, loss and frames
that carry frames are all inputs of `Feed`.

`CommandLink`. `asked` is what the CPU has sent, `line` the bytes on their way. `Ask` encodes
a command with the repository's own encoders and puts the frame on the line, at any
moment; `Carry` is a `feed` call with the next piece of the line, of any length `Chunks` allows;
`LinkStep` is a step of that call. `CommandQueue` knows nothing of frames: `given` is
`asked`, `taken` the messages `dispatched` carries. `Rejections`, gaps and damage have
no place in it: they are the subject of `ingress_gate` and of the harness.

`Identity`. `identity` is the `oomwoo_identity_t`; `hellos` (the frames that successful
calls left in the output) and `first` (the number the service was started with) are
history. `EmitHelloResult` follows the checks of `emit_hello`, those of the two encoders
it calls included; `EmitHello` writes the frame and advances `next_sequence`, or leaves
everything alone. The payload buffer starts as stack memory (170 stands for whatever was
there). `Announce` is a call by the owner, `Consume` a message the gate passed on.

`Harness`. `at` is where the firmware is: in `setup` before and after `Serial.begin`
("off", "greet"), in the `while` loop of `loop` ("poll"), before the gap check
("check"). `ReadSerial` is one turn of the `while` loop up to the `feed` call, which then
runs step by step (`FeedStep`, with `HandleMessage` as the gate's callback);
`FoundEmpty` ends the loop, `CheckGap` is the gap check. Around it: `Arrive` brings a piece
of traffic and overruns the FIFO, `Tick` advances `millis()`, `Reboot` is a reset of the
processor. These three happen between calls of `feed` only: nothing in a call reads the
FIFO or the clock, so a byte or a tick during it has the effect of one right after it.
`MaxLag` and `MaxWindow` are what the harness takes for granted: that it finds the FIFO
empty, and reads the clock for the gap afterwards, within so many milliseconds.
Without the first no timeout means anything: `loop` never leaves its `while` as long
as bytes keep coming. `Settle = Gap + 2 * (MaxLag + MaxWindow) + 1` is how long the receiver may take
to be empty-handed once the line is silent. `quiet`, `lull` (the silence before the oldest
byte in the FIFO), `owed`, `brought` and `reboots` are history.

`CorpusSync`. One attempt meets one answer: a transport failure, a refused redirect, an
HTTP status, or a body that is the pinned corpus, a changed one or the beginning of
either, over https or not, with a declared length that is right, wrong, malformed or absent;
the library reads no further than a declared length. `FetchOnce` is the
answer's class after the `except` clauses of `fetch_upstream`; `Fetch`, `Sleep` and
`Compare` are the loop and the end of `main`.

## 3. Runs

| run | question | bounds and why they suffice |
|---|---|---|
| `decoder_bytes` (`StreamDecoder.cfg`) | Every stream over four byte values, byte by byte, with resets anywhere: types, byte accounting, nothing undecided, errors drop the head, and the refinement | Header 5 bytes, one CRC byte, payload up to 6: a claimed payload can hide a whole smaller frame (6 bytes), so a rejected candidate with a good frame inside it occurs; 12 received bytes hold two frames or a frame behind a damaged one. `CounterMod = 4`: `discarded_bytes` and `gap_resets` wrap, the others have no room to; `CounterMod = 3` in `ingress_gate` and 2 in the harness runs wrap more. 12 bytes are also the longest frame, so the bound on the buffer is the subject of `decoder_progress` and of `TypeCorrect` |
| `decoder_progress` (`StreamDecoderChunks.cfg`) | Calls with several bytes: every step brings the end of its call nearer and every call returns, what can be delivered is, the buffer is never full | chunks are frames, damaged frames, a frame inside a frame, the pieces of a frame; 20 bytes hold a maximal frame and more |
| `firmware_crc` (`FirmwareFrames.cfg`) | Real header, sizes and CRC-16: a frame whole, with one byte replaced, or cut short, next to another or carried as the payload of one: only what was sent comes out, nothing valid is thrown away as noise, and what became of every byte of the line | 24 bytes: two frames of 12, or one of 24 that carries one of 12, whole and with its last byte damaged, so that the frame inside is found behind the rejected one; a length one too long takes the first byte of the next frame with it, one that claims 79 or 87 bytes leaves that frame behind a candidate which stays unfinished until the gap reset: each exception of `CommandGetsThrough` occurs. `CounterMod` is 65536, not 2^32, which TLC's integers cannot hold; no counter comes near either |
| `codec_exchange` (`MessageExchange.cfg`) | Round trip, one encoding per message, cleared output, drive limits | all 16 types and an unknown one; each field in turn at 0, its ends and the two sides of each limit of its contract; each payload byte in turn replaced, one byte lost or added, any type swapped |
| `ingress_gate` (`CpuIngress.cfg`) | Commands and frames refused for each reason, whole, cut and damaged, in any order, with resets: who gets called, how often and in which order, and what is counted | 56 bytes: three to four frames; `CounterMod = 3` so the counters wrap |
| `command_link` (`CommandLink.cfg`) | Commands asked for at any moment on an undamaged line, cut into pieces anywhere: all arrive, in order, once, at once, and no error is counted | the firmware's geometry; `MaxAsked = 3` commands out of a drive setpoint (18 bytes), a request without payload (12) and an acknowledgement that carries the magic in its payload; pieces of 1, 11 and 17 bytes: alone, all but the last byte of the shortest frame, and across the end of one frame into the next; `MaxReceived = 54` bytes, the longest three frames; `CounterMod = 4`, above the number of frames |
| `identity_service` (`Identity.cfg`) | Hellos numbered without a hole and readable, calls failing and ignored in between | sequences starting at 0 and around the byte, sign and 16-bit boundaries; outputs of 0, 12, 19, 20 and 64 bytes, a hello having 20; `HelloLimit = 4` crosses the wrap from each start below it |
| `harness_clock` (`HarnessClock.cfg`) | The gap reset comes only after real silence, and it comes | `TimeMod = 8` wraps, `Settle = 8` is as large as it may be; `FifoSize = 2` overruns; `LineBudget = 4` bytes in scraps at any moment; the firmware two ticks late and one tick between its last look and the clock; `MaxReboots = 1` |
| `harness_answers` (`HarnessAnswers.cfg`) | One hello at start and one per accepted request; a request after a pause keeps its place in the receiver, comes nearer to its answer with every step, and is answered | requests whole, cut to seven bytes, and with a length that claims 5 bytes (the next request is hidden in them) or 20 (which nothing fills up), and a command identity ignores; 24 bytes: two frames; `TimeMod = 4` = `Settle`, so the clock wraps within one pause; one reboot. `MaxWindow = 0`: bytes that come between the last look at the FIFO and the clock are in `harness_clock`, and in the theorems, which hold for every window |
| `corpus_sync` (`CorpusSync.cfg`) | The verdict is right, "unable" means unable, attempts are spaced, every step brings the end nearer, the script ends | every sequence of answers to the script's own three attempts; pin of 2 bytes, `MaxBytes = 3`, bodies of 1 to 4: shorter than, equal to, longer than the pin, and over the limit; each declared as any of these lengths |
| `corpus_truncated` (`CorpusTruncated.cfg`) | Expected to fail, see section 6 | as above |
| `gap_drops_frame` (`FirmwareGap.cfg`) | Expected to fail, see section 6 | two frames, one with a damaged length |

Bounds by name: `MaxReceived` limits the bytes of a behaviour, in the guard of
`Feed`; `Chunks` the inputs of one call; `Messages`, `Capacities`, `OldBytes` and
`Altered` the exchange; `MaxAsked` the commands of the link, whose frames have the flags and
sequence in `Leads` and are encoded over the buffers in `OldBytes`; `HelloLimit` the hellos of `Identity`'s own next-state relation (not
of the harness); `LineBudget` the bytes the line brings and `MaxReboots` the resets of
the processor; `Sizes` the bodies of the corpus and their declared lengths. The link and harness runs replace the CRC by a cheap check over
sequence, type and length, since they are about order and time: the real one is in
`firmware_crc` and `identity_service`, and the proofs hold for any. Deadlock is not checked where the line may go silent for
good (or `MaxReceived` is used up): the decoder then rests, as it should. The identity run
stops at `HelloLimit`, and the corpus script ends.

The properties, in the order of importance:

- `ImplementsStream`, `ImplementsFairStream`: no frame lost, invented, repeated or
  reordered; only a reset gives bytes up undecided; what is decidable is decided.
- `ByteAccounting`: every byte is buffered, delivered or counted as discarded.
- `ImplementsQueue`, `AllHandedOver`, `NoneWaiting`, `UndamagedBooks`: on an undamaged line the
  consumer is called with what the CPU asked for, all of it, in order and once each, no
  command waits for the bytes of the next, and no layer takes good traffic for an error.
- `IdleCandidate`, `ErrorsDiscard`, `RoomForByte`, `FeedAdvances`, `FeedReturns`: no undecided
  candidate between bytes, one count per rejection and progress with it, no full
  buffer, no endless loop: at most three steps for a byte of input and one for a byte held.
- `OnlySentFrames`: with the real CRC.
- `NoFrameMissed`, `DeliveredAsReceived`, `CommandGetsThrough`: on a line that may bring anything. Where
  a byte was thrown away as noise no valid frame stands, even with all that came later; what was
  delivered are disjoint stretches of the line in its order; and a command that stands whole on
  the line was handed over, unless a valid frame that began before it took bytes of it, a gap reset
  gave it up, or it waits behind a candidate that is not finished.
- `IngressBalance`, `EveryCommandOnce`, `CommandsInOrder`, `DispatchedIsGenuine`,
  `UnreachableRejections`: the gate. `EveryCommandOnce` tells a command by what the encoder
  can write, `CommandsInOrder` by the list of the frames of the run.
- `RoundTrip`, `AcceptedIsCanonical`, `RejectedIsCleared`,
  `AcceptedDriveWithinLimits`: the codec.
- `ResetOnlyAfterSilence`, `ReceiverSettles`: an unfinished frame is given up only after
  the line was really silent, and nothing is left that could swallow the next frame
  once it has been silent for `Settle`; measured against the true time, not `millis()`.
- `RequestHeld`, `AnswerNears`: a whole request that finds a settled receiver stays at the head of
  what it holds until it is answered, within `3 * FifoSize + 1` steps of the firmware.
- `RequestAnswered`, `HelloPerRequest`: a request that meets a settled receiver gets its
  hello (or the processor is reset first), and no hello is sent for anything else.
- `HellosInSequence`, `HellosReadable`, `FrameSizeSuffices`: the identity service.
- `VerdictIsTrue`, `UnableOnlyIfExhausted`, `RetriesAreSpaced`, `SyncAdvances`, `SyncEnds`: the script.
  `Lasting` and `MayPass` sort the answers by what they are, not by what `FetchOnce` makes of them.

Each has a mutant in `PROJECT.json`: a plausible slip in the code that breaks it.
The mutated definitions stand before the ones they replace, marked `mutant`.

Fairness. `FairSpec` has weak fairness on `ReadByte \/ Parse` only: once `feed` has
been entered, nothing in it waits for anybody, so its next step happens. Nothing is
assumed about callers: `Feed` and `GapReset` may never happen.

`FairLinkSpec` has weak fairness on `Carry` and on `LinkStep`: the line brings what it carries,
and a `feed` call, once entered, runs on. The CPU need not ask for anything. The first is an
assumption about the line, not about the code: without it nothing can be promised to arrive.

`FairHarnessSpec` has weak fairness on the firmware's own steps, one thread that nothing
blocks, and on `Tick`: time passes. `Arrive` and `Reboot` have none; the line owes
nothing to anybody. `FairSyncSpec` has weak fairness on the script's steps: it runs, its
sockets have timeouts (`TIMEOUT_S`) and its sleeps end.

## 4. Proofs

The theorems about decoder and gate hold for every geometry (`HeaderSize >= 5`, any
payload bound its two-byte field can hold, any CRC operator), every counter width greater
than one and all inputs. The assumptions, which TLC evaluates in the runs of each module:

- `WireAssumption`, `DecoderAssumption`: the layout, the counter width, what may be fed.
- `IngressAssumption`: a byte is an octet. Used only where typed fields are read.
- `ExchangeAssumption`: the messages sent hold values of their fields' C types.
- `IdentityAssumption`: the firmware's header and byte, a version of 16- and 32-bit
  numbers, a 16-bit first sequence number.
- `HarnessAssumption`: `Settle <= TimeMod`, the loop turns faster than the clock wraps
  (50 ms and a few more against 49 days); a request is a frame the gate accepts as
  `IDENTIFY_REQUEST`, and the serial driver's buffer holds a whole one (12 bytes; the buffer
  of the STM32 core has 64).
- `LinkAssumption`: the CPU sends what the contract lets it send, with field values of their C
  types, in octets, over a header with room for flags, sequence and type.
- `SyncAssumption`: the pin fits the size limit (`MAX_BYTES` is 1 MiB), at least one
  attempt is made.

`StreamDecoderProofs`

- `TypeCorrect`: `TypeOK`. Not inductive alone: `ReadByte` takes `Head(input)`, so
  `TypeInv` adds that a call that is reading has input left. The bound on the
  buffer needs the bound `FrameLengthBounds` puts on an accepted length.
- `CandidateOnly`: `IdleCandidate`, on top of `TypeInv`: an iteration leaves `parse`
  only with less than two bytes or through `AwaitMore`.
- `NeverFull`: `RoomForByte` follows from the two (`RoomLeft`): an unfinished candidate is shorter
  than its own length, which is at most `MaxFrame`. The guard of
  `oomwoo_protocol.c:180` is dead code.
- `ErrorsCountedOnce`: `ErrorsDiscard`. A resynchronisation of two bytes or more
  drops at least one (`ResyncProgress`).
- `BytesAccounted`: `ByteAccounting`. Each step moves a number of bytes from one place to
  another (`ParseEffect`), and the wrapped counter adds up modulo its width
  (`ModPlus`, proved from division with remainder).
- `CallsAdvance`: `FeedAdvances`. `Work`, three for each byte not yet read and one for each byte
  held, falls with every step of a call: a step that drops nothing ends the loop, and
  one that goes on has dropped a byte. It bounds the steps of a call by a number, where
  `FeedReturns` says only that there are finitely many.

`CpuIngressProofs`

- `RunsTheDecoder`: the gate implements `StreamDecoder!Spec`, so the theorems above
  hold inside it.
- `EveryFrameAccounted`: `IngressBalance`. The inductive invariant `IngressInv` joins
  the decoder's `TypeInv`, the type of the gate's counters, `UnreachableRejections`
  and the balance. An emitted frame has the decoder's version (`EmittedVersion`),
  so its verdict is one that has a counter (`FrameVerdicts`), and adding one to one
  of seven counters adds one to their sum modulo the width (`CountAddsOne`).
- `DeadCounters`: `UnreachableRejections`, from the same invariant: every type that
  passes the direction test has a defined payload (`EndpointTypesDefined`).
- `CommandsAreGenuine`: `DispatchedIsGenuine`. Its invariant says that every call of the
  consumer is one for a frame that passes `validate_frame` (`CallsInv`); what that test lets
  through is a command the CPU may send, and decoding keeps its bytes (`CommandGenuine`).
- `NoCommandLost`: `EveryCommandOnce`, which asks for an order-preserving map from the calls to
  the frames delivered whose range is exactly the commands. `OnceInv` adds one place when the
  frame of a step is a command (`Placed`), and the gate's test lets through
  what the encoder can write and nothing else.
- `CommandArrives`: the way of one command: encoded, framed, decoded and validated, it is the
  message that was meant. It joins `FrameDecodes` with the round trip of `CodecProofs`.

`RefinementProofs`

- `DecoderImplementsStream`: `ImplementsStream`, the refinement mapping at work for
  every geometry and input. The abstract layer says what a frame is by re-encoding, the
  decoder by testing; the two agree because the header alone decides which frame can stand
  at the head of a byte sequence (`HeadDecides`, from `FrameMeantLayout` and
  `PrefixesAgree`). So an accepted frame is the one meant (`AcceptedIsMeant`), a rejected
  or skipped head is not the beginning of any (`ViableHead`, `SkippedNotViable`), and a
  gap never finds a complete frame (`GapAbandons`, from `IdleCandidate`). `StepSimulates`
  joins them: each step is a step of `FrameStream` or leaves its variables alone.
- `NoiseIsNoFrame` (`NoFrameMissed`), `FramesAreOfTheLine` (`DeliveredAsReceived`) and
  `CommandsGetThrough` (`CommandGetsThrough`) say what becomes of a line that may bring anything, for
  every geometry, CRC and cutting into calls. None of the three is inductive: a byte is judged
  when it leaves the buffer, and `FrameAt` asks about bytes that come later. `LineInv` says that
  the line is what `fate` tells of followed by the buffer (`Divided`); that where noise began no frame
  can stand *whatever comes after*, each frame the decoder would accept differing from the line
  in a byte already there (`NoiseIsHopeless`, which a longer line keeps, `StillHopeless`); and that
  each delivered frame stands in the bytes marked with its number (`FramesStand`, `FatesInOrder`).
  `FrameStands` shows that bytes which agree with some valid frame pass every test of the parse
  loop; so a head the loop rejects is hopeless (`RejectedHead`), and so is each byte a
  resynchronisation passes over, the last byte of the buffer included (`SkippedHopeless`).
  `ParseSorts` puts every iteration into one of three: it keeps all, delivers the head, or drops hopeless
  bytes. Then a command with its first byte in the buffer between two calls is not at its head
  (`WholeFrameLeaves`, from `IdleCandidate`), and what is in front of it holds less than
  a longest frame (`RoomLeft`): this is how much damage can hold a command back.
  The exceptions are needed, one of each is in the run. The proof of `CommandsGetThrough` also takes
  `OnceInv`, the invariant of `NoCommandLost`, from the gate. `LineRunsTheGate`: the history does not
  constrain the gate, so every theorem about it holds on this line.
- `NoFalseAlarm` (`UndamagedBooks`), `HandedOverAtOnce` (`NoneWaiting`) and `LinkIsQueue`
  (`ImplementsQueue`) share one inductive invariant. `UndamagedBooks` alone is not inductive:
  nothing in it keeps a candidate from beginning in the middle of a frame. `LinkInv` says
  that the frames of all commands ever asked form one stream, with a known end for each
  frame; that what is in the buffer, in the call and on the line is the rest of that stream
  after the frames handed over (`Transit`); and that the buffer never reaches past the end
  of the next frame. So the buffer is always the beginning of a frame the encoder wrote
  (`FrameAtHead`), no test of the parse loop fails on it, and when it is a whole frame it
  is emitted and handed over (`ParseOfLink`, with `FrameOfCommand`). A new command only
  lengthens the stream (`TrafficGrows`).

`CodecProofs` and `MessageExchangeProofs`

- `FrameDecodes`: what `oomwoo_encode_frame` writes, `oomwoo_decode_frame` accepts, with
  the fields and payload in their places (`FieldAt`, `PayloadAt`).
- `LayoutTiles`, `OneLayout`: the fields of each type cover its payload without gap or
  overlap, and the tables of encoder and decoder are one. `FieldRestored` and
  `FieldRewritten`: for each kind of field, signed ones included, reading and writing undo
  each other in both directions.
- `DamageIsRejected`: with the firmware's CRC-16, a frame of any length in which one byte, or two
  neighbouring ones, changed on the line does not pass `oomwoo_decode_frame`. One turn of
  the inner loop maps different registers to different ones, so a difference once in
  the register stays until more damage meets it; two
  neighbouring bytes fill the 16 bits of the register and cannot cancel. Changed CRC
  bytes are seen directly. One pair is left out, the last byte before the CRC with the first byte of
  the CRC, and rightly: the CRC is written low byte first, so the damage is not a burst of the
  polynomial's order there, and one pattern, `0x89` on the first of the two and `0xa1` on the second, does go through. The
  induction over the bytes goes by the least position where a claim fails (`LeastOf`,
  `SetInduction`), since the library's own induction theorems cannot be used.
- `EveryMessageRestored` (`RoundTrip`), `OneEncoding` (`AcceptedIsCanonical`),
  `NothingLeftOfRefused` (`RejectedIsCleared`) and `DriveAlwaysWithinLimits`
  (`AcceptedDriveWithinLimits`) follow for every value of every field. The inductive
  invariant `ExchangeInv` says what each stage of the exchange knows of the message.

`IdentityProofs`

- `FrameSizeAlwaysSuffices`: the sizes `identity.h` repeats fit the codec's.
- `HellosNumbered`: `HellosInSequence` is inductive together with `NextInSequence`, which
  says that `next_sequence` is the number of the next hello.
- `EveryHelloReadable`: `HellosReadable`, from `OneBuild` (each hello is one of this
  build, whatever its number) and the two round trips of `CodecProofs`.

`HarnessProofs`

- `GateInHarness`: each step of the harness restarts the gate or is one of its steps, so
  `IngressInv` and `IdleCandidate` hold in it.
- `NoEarlyReset`, `SettlesInTime`: `ResetOnlyAfterSilence` and `ReceiverSettles`. The
  invariant `ClockInv` relates the measured silence, `(now - last_rx_ms) % TimeMod`, to the
  true one: it is never too long while a frame is unfinished (`NeverEarly`) and an
  unfinished frame is never left alone for longer than the loop's delays allow
  (`NeverLate`), which is also why the measurement never wraps. `ElapsedTick` is the
  modular arithmetic.
- `OneHelloEach`: `HelloPerRequest`, from `ServiceInv`; `IdentifyCounted` counts the calls.
- `RequestsWait`, `AnswersAreNear`: `RequestHeld` and `AnswerNears`. `HeldInv` says that while an
  answer is owed the request stands at the head of buffer, call and FIFO (`StandsAt`), that
  the buffer never holds more than the request, and that the gap check finds it empty
  (`RequestKept`), so no test of the parse loop fails on the request and no reset takes it.
  `Progress` counts what the firmware has done for it; it is bounded (`ProgressBounded`) and
  grows with each of its steps.
- `ServicesInHarness`: composed, gate and identity keep what they promise alone.

`CorpusSyncProofs`: `VerdictsAreTrue`, `UnableIsExhausted` and `BackOffBetweenAttempts`,
for any number of attempts. `LastingFailure` and `PassingFailure` show that what
`FetchOnce` calls fatal and transient is what `Lasting` and `MayPass` say. `SyncInv` says of each answer but the last that it was
transient, and what each value of `pc` knows of the last. `ChecksAdvance`: `SyncAdvances`. `StepsLeft`,
two for each attempt left and one for the comparison, falls with every step; that the script
sleeps only while an attempt is left is what it needs of `SyncInv`.

Only model-checked: the liveness properties, which are beyond the prover. Of most the part
that is not about fairness is proved: `FeedReturns` rests on `FeedAdvances`,
`RequestAnswered` on `RequestHeld` and `AnswerNears`, `AllHandedOver` on `NoneWaiting` and
`FeedAdvances`, `SyncEnds` on `SyncAdvances`, and the steps of `ImplementsFairStream` are those of
`ImplementsStream`. Two invariants stay with their runs because they are stated about the
frames of an instance: `OnlySentFrames`, whose general counterparts are `DamageIsRejected` and `DeliveredAsReceived` (it
adds pieces of two frames lined up by lost bytes, which no CRC excludes for every frame), and
`CommandsInOrder`, whose general counterparts are `NoCommandLost` and `CommandArrives`.

## 5. Not modelled

- NULL arguments: no caller in `src/` passes one.
- A gate without a consumer callback (it counts and calls nobody).
- Pointers: that the payload given to the callback points into the decoder's buffer
  and is valid only during the call. `EmitFrame` hands over a copy.
- `include/oomwoo_pins.h`, the generators, CI and the tests: no behaviour. `docs/SPEC.md`
  describes a safety state machine the repository has no code for.
- `write` to the serial port: it takes every byte of a hello, so sending one is one step.
- The line of the harness brings whole pieces: frames, frames with a damaged length, cut
  frames. Arbitrary bytes are the decoder's runs', and the harness's proofs'.
- In the corpus check: the annotations it prints. The pin is a constant, and SHA-256 is
  taken to tell two bodies apart. A corpus that only grew and whose body breaks off exactly
  where the pin ended, without a right `Content-Length`, would pass for the pin; in the model
  every part of a changed corpus differs from it. A redirect away from https is refused with
  a `URLError`, which is an `OSError` (see section 6).

## 6. Findings

`docs/protocol-bringup.md:123` says of "Valid frame after corruption":
"Resynchronize and invoke the callback once". When the damaged byte is the length
field and the value stays within 512, the decoder waits for the bytes it claims
and counts the valid frame behind it among them; if the line then falls silent,
`reset_incomplete` (`oomwoo_protocol.c:256-263`, called from `main.cpp:69-71`)
discards the buffer, that frame included. Run `gap_drops_frame` shows it. A reset
that resynchronised over the buffer instead of emptying it would keep the promise.

`tools/check_corpus_sync.py:14` says of exit 1 "confirmed drift (upstream fetched, bytes
differ)", and line 15 that a network failure is "NOT treated as drift". The body's length is
checked against a `Content-Length` only (line 71); when the server sends none and the
connection ends early, the part that came is compared with the pin and reported as
drift. Run `corpus_truncated` shows it. `VerdictIsTrue` holds where the declared length is the
corpus's own.

The comment at `tools/check_corpus_sync.py:89` lists "non-HTTPS" among the non-retryable
failures. That is so for a body whose final URL is not https (line 66), but a redirect away from https is
refused with a `URLError` (line 44), which line 94 takes for a transient failure, so it is asked
again until the attempts are used up. `MayPass` names the refused redirect for this reason:
`RetriesAreSpaced` and its theorem hold with this exception to the comment, and not without. A
redirect that stays gives exit code 2 either way, one that passes a verdict where the comment has none.

## 7. State of the plan

Done: every component that has state or control in this repository, the refinement of the
decoder, the composition of the services in the harness and of both ends of the link, the account
of a line that may bring anything, and a proof of each safety and action property that is not
about the frames of one instance.

Left: the harness has no proof that a settled receiver passes on commands other than
requests, which `RequestHeld` would carry over to, since only the identity service's answer is
particular to them. A request that meets a receiver busy with a broken frame is answered only if the
CPU asks again: `CommandGetsThrough` names how it can be lost, and the code promises no more.
When the safety state machine of `docs/SPEC.md` gets code, it belongs behind
`dispatched` as a second consumer.
