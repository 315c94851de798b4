-------------------------- MODULE CorpusSyncProofs --------------------------
(***************************************************************************)
(* What the corpus monitor's exit code means, for every number of attempts,*)
(* every set of retried statuses and all sizes.                            *)
(***************************************************************************)
EXTENDS CorpusSync, TLAPS, SequenceTheorems

(***************************************************************************)
(* What one attempt tells.                                                 *)
(***************************************************************************)
LEMMA BodyTyped ==
  ASSUME NEW answer \in Answers, answer.kind = "body"
  PROVE  /\ answer.of \in Corpora
         /\ answer.size \in Nat /\ answer.sent \in Nat
         /\ answer.final \in {"https", "http"}
         /\ answer.declared \in Int
         /\ answer.sent <= answer.size
         /\ answer.of = "pinned" => answer.size = PinSize
         /\ BytesRead(answer) \in Nat
  <1>1. answer \in Bodies /\ Possible(answer)
    BY DEF Answers
  <1>2. /\ answer.of \in Corpora
        /\ answer.size \in Nat /\ answer.sent \in Nat
        /\ answer.final \in {"https", "http"}
        /\ answer.declared \in Int
    BY <1>1, SyncAssumption DEF Bodies, NoLength, Malformed
  <1>3. BytesRead(answer) \in Nat
    BY <1>2, SyncAssumption DEF BytesRead
  <1> QED
    BY <1>1, <1>2, <1>3 DEF Possible

LEMMA OutcomeOfBody ==
  ASSUME NEW answer, answer.kind = "body"
  PROVE  FetchOnce(answer) = FetchBody(answer)
  BY DEF FetchOnce

LEMMA OutcomeOfStatus ==
  ASSUME NEW answer, answer.kind = "status"
  PROVE  FetchOnce(answer) = IF answer.code \in RetryHttp THEN "transient"
                                                          ELSE "fatal"
  BY DEF FetchOnce

LEMMA OutcomeOfTransport ==
  ASSUME NEW answer, answer.kind # "body", answer.kind # "status"
  PROVE  FetchOnce(answer) = "transient"
  BY DEF FetchOnce

\* resp.read returns no more than came, and no more than was declared.
LEMMA ReadAtMost ==
  ASSUME NEW answer \in Answers, answer.kind = "body"
  PROVE  /\ BytesRead(answer) <= answer.sent
         /\ BytesRead(answer) <= MaxBytes
              => IF answer.declared \in 0..answer.sent
                 THEN BytesRead(answer) = answer.declared
                 ELSE BytesRead(answer) = answer.sent
  BY BodyTyped, SyncAssumption DEF BytesRead

\* Only a body fetched over HTTPS is compared, and of no other length than the
\* declared one.
LEMMA ComparedBody ==
  ASSUME NEW answer \in Answers, FetchOnce(answer) = "ok"
  PROVE  /\ answer.kind = "body"
         /\ answer.declared = answer.size =>
              answer.size = answer.sent /\ BytesRead(answer) = answer.sent
  <1>1. answer.kind = "body"
    BY OutcomeOfStatus, OutcomeOfTransport
  <1>2. FetchBody(answer) = "ok"
    BY <1>1, OutcomeOfBody
  <1>3. /\ answer.sent \in Nat /\ answer.size \in Nat
        /\ answer.sent <= answer.size /\ BytesRead(answer) \in Nat
    BY <1>1, BodyTyped
  <1>4. answer.declared \in {NoLength, BytesRead(answer)}
    BY <1>2 DEF FetchBody
  <1>5. ASSUME answer.declared = answer.size
        PROVE  answer.size = answer.sent /\ BytesRead(answer) = answer.sent
    <2>1. BytesRead(answer) = answer.size
      BY <1>3, <1>4, <1>5 DEF NoLength
    <2> QED
      BY <1>1, <1>3, <2>1, ReadAtMost
  <1> QED
    BY <1>1, <1>5

\* What makes the script give up at once.
LEMMA LastingFailure ==
  ASSUME NEW answer \in Answers, FetchOnce(answer) = "fatal"
  PROVE  Lasting(answer)
  <1>1. CASE answer.kind = "status"
    BY <1>1, OutcomeOfStatus DEF Lasting
  <1>2. CASE answer.kind = "body"
    <2>1. FetchBody(answer) = "fatal"
      BY <1>2, OutcomeOfBody
    <2>2. /\ answer.sent \in Nat /\ MaxBytes \in Nat /\ BytesRead(answer) \in Nat
          /\ answer.final \in {"https", "http"}
      BY <1>2, BodyTyped, SyncAssumption
    <2>3. BytesRead(answer) > MaxBytes => answer.sent > MaxBytes
      BY <1>2, <2>2, ReadAtMost
    <2> QED
      BY <1>2, <2>1, <2>2, <2>3 DEF FetchBody, Lasting
  <1> QED
    BY <1>1, <1>2, OutcomeOfTransport

\* What makes it ask again.
LEMMA PassingFailure ==
  ASSUME NEW answer \in Answers, FetchOnce(answer) = "transient"
  PROVE  MayPass(answer)
  <1>1. answer.kind \in {"transport", "refused_redirect", "status", "body"}
    BY DEF Answers, Bodies
  <1>2. CASE answer.kind = "status"
    BY <1>2, OutcomeOfStatus DEF MayPass
  <1>3. CASE answer.kind = "body"
    <2>1. FetchBody(answer) = "transient"
      BY <1>3, OutcomeOfBody
    <2>2. /\ answer.sent \in Nat /\ MaxBytes \in Nat /\ BytesRead(answer) \in Nat
          /\ answer.declared \in Int
      BY <1>3, BodyTyped, SyncAssumption
    <2>3. /\ answer.final = "https" /\ BytesRead(answer) <= MaxBytes
          /\ answer.declared \notin {Malformed, NoLength, BytesRead(answer)}
      BY <2>1, <2>2 DEF FetchBody
    <2>4. answer.declared \notin 0..answer.sent /\ BytesRead(answer) = answer.sent
      BY <1>3, <2>3, ReadAtMost
    <2>5. answer.declared >= 0
      <3>1. answer \in Bodies
        BY <1>3 DEF Answers
      <3>2. answer.declared \in {NoLength, Malformed} \cup Sizes
        BY <3>1 DEF Bodies
      <3>3. answer.declared \in Sizes
        BY <2>3, <3>2
      <3>4. answer.declared \in Nat
        BY <3>3, SyncAssumption
      <3> QED
        BY <3>4
    <2> QED
      BY <1>3, <2>2, <2>3, <2>4, <2>5 DEF MayPass
  <1> QED
    BY <1>1, <1>2, <1>3 DEF MayPass

------------------------------------------------------------------------------
(***************************************************************************)
(* The inductive invariant.                                                *)
(***************************************************************************)
BackOffs == {2 ^ i : i \in 1..Attempts}

SyncTyped ==
  /\ pc \in {"fetch", "sleep", "compare", "done"}
  /\ attempt \in 1..Attempts
  /\ exit \in {-1, 0, 1, 2}
  /\ exit # -1 <=> pc = "done"
  /\ answers \in Seq(Answers)
  /\ slept \in Seq(BackOffs)

\* The histories keep pace with the loop.
InStep ==
  /\ Len(slept) = attempt - 1
  /\ Len(answers) = IF pc = "fetch" THEN attempt - 1 ELSE attempt
  /\ \A i \in 1..Len(slept) : slept[i] = 2 ^ i

\* Every answer that was followed by a sleep was a failure that may pass.
RetriedRightly ==
  /\ \A i \in 1..Len(answers) :
       i < attempt \/ pc = "sleep" => FetchOnce(answers[i]) = "transient"
  /\ pc = "sleep" => attempt < Attempts

\* What the last answer said.
Concluded ==
  /\ pc = "compare" => /\ FetchOnce(LastAnswer) = "ok"
                       /\ data = <<LastAnswer.of, BytesRead(LastAnswer)>>
  /\ exit \in {0, 1} =>
       /\ FetchOnce(LastAnswer) = "ok"
       /\ (exit = 0) <=> (LastAnswer.of = "pinned"
                            /\ BytesRead(LastAnswer) = PinSize)
  /\ exit = 2 => \/ FetchOnce(LastAnswer) = "fatal"
                 \/ attempt = Attempts

SyncInv == SyncTyped /\ InStep /\ RetriedRightly /\ Concluded

LEMMA InitSyncInv == SyncInit => SyncInv
  BY EmptySeq, SyncAssumption
     DEF SyncInit, SyncInv, SyncTyped, InStep, RetriedRightly, Concluded

LEMMA StepSyncInv == SyncInv /\ [SyncNext]_syncVars => SyncInv'
  <1> SUFFICES ASSUME SyncInv, [SyncNext]_syncVars
               PROVE  SyncInv'
    OBVIOUS
  <1>1. /\ Attempts \in Nat \ {0} /\ attempt \in 1..Attempts
        /\ answers \in Seq(Answers) /\ Len(answers) \in Nat
        /\ slept \in Seq(BackOffs) /\ Len(slept) \in Nat
    BY SyncAssumption, LenProperties DEF SyncInv, SyncTyped
  <1>2. CASE Fetch
    <2>1. PICK answer \in Answers :
            /\ answers' = Append(answers, answer)
            /\ Fetched(answer) \/ GiveUp(answer) \/ TryAgain(answer)
      BY <1>2 DEF Fetch
    <2>2. pc = "fetch" /\ exit = -1 /\ UNCHANGED <<attempt, slept>>
      BY <1>2 DEF Fetch, SyncInv, SyncTyped
    <2>3. Len(answers) = attempt - 1
      BY <2>2 DEF SyncInv, InStep
    <2>4. /\ answers' \in Seq(Answers) /\ Len(answers') = attempt
          /\ answers'[attempt] = answer
          /\ \A i \in 1..(attempt - 1) : answers'[i] = answers[i]
      BY <1>1, <2>1, <2>3, AppendProperties
    <2>5. LastAnswer' = answer
      BY <2>4 DEF LastAnswer
    <2>6. \A i \in 1..(attempt - 1) : FetchOnce(answers'[i]) = "transient"
      BY <1>1, <2>3, <2>4 DEF SyncInv, RetriedRightly
    <2>7. pc' \in {"sleep", "compare", "done"}
      BY <2>1 DEF Fetched, GiveUp, TryAgain
    <2>8. InStep'
      BY <2>2, <2>4, <2>7 DEF SyncInv, InStep
    <2>9. CASE Fetched(answer)
      BY <1>1, <2>2, <2>4, <2>5, <2>6, <2>8, <2>9
         DEF Fetched, SyncInv, SyncTyped, RetriedRightly, Concluded
    <2>10. CASE GiveUp(answer)
      BY <1>1, <2>2, <2>4, <2>5, <2>6, <2>8, <2>10
         DEF GiveUp, SyncInv, SyncTyped, RetriedRightly, Concluded
    <2>11. CASE TryAgain(answer)
      <3>1. \A i \in 1..Len(answers') : FetchOnce(answers'[i]) = "transient"
        <4>1. FetchOnce(answers'[attempt]) = "transient"
          BY <2>4, <2>11 DEF TryAgain
        <4> QED
          BY <1>1, <2>4, <2>6, <4>1
      <3> QED
        BY <1>1, <2>2, <2>4, <2>8, <2>11, <3>1
           DEF TryAgain, SyncInv, SyncTyped, RetriedRightly, Concluded
    <2> QED
      BY <2>1, <2>9, <2>10, <2>11
  <1>3. CASE Sleep
    <2>1. /\ pc = "sleep" /\ pc' = "fetch" /\ attempt' = attempt + 1
          /\ slept' = Append(slept, 2 ^ attempt)
          /\ UNCHANGED <<data, exit, answers>> /\ exit = -1
      BY <1>3 DEF Sleep, SyncInv, SyncTyped
    <2>2. /\ attempt < Attempts /\ Len(slept) = attempt - 1
          /\ Len(answers) = attempt
          /\ \A i \in 1..Len(answers) : FetchOnce(answers[i]) = "transient"
          /\ \A i \in 1..Len(slept) : slept[i] = 2 ^ i
      BY <2>1 DEF SyncInv, InStep, RetriedRightly
    <2>3. 2 ^ attempt \in BackOffs
      BY <1>1 DEF BackOffs
    <2>4. /\ slept' \in Seq(BackOffs) /\ Len(slept') = attempt
          /\ slept'[attempt] = 2 ^ attempt
          /\ \A i \in 1..(attempt - 1) : slept'[i] = slept[i]
      BY <1>1, <2>1, <2>2, <2>3, AppendProperties
    <2>5. \A i \in 1..Len(slept') : slept'[i] = 2 ^ i
      <3>1. ASSUME NEW i \in 1..attempt
            PROVE  slept'[i] = 2 ^ i
        <4>1. CASE i = attempt
          BY <2>4, <4>1
        <4>2. CASE i # attempt
          <5>1. i \in 1..(attempt - 1) /\ i \in 1..Len(slept)
            BY <1>1, <2>2, <4>2
          <5> QED
            BY <2>2, <2>4, <5>1
        <4> QED
          BY <4>1, <4>2
      <3> QED
        BY <2>4, <3>1
    <2>6. SyncTyped'
      BY <1>1, <2>1, <2>2, <2>4 DEF SyncTyped
    <2>7. InStep'
      BY <1>1, <2>1, <2>2, <2>4, <2>5 DEF InStep
    <2>8. RetriedRightly' /\ Concluded'
      BY <2>1, <2>2 DEF RetriedRightly, Concluded
    <2> QED
      BY <2>6, <2>7, <2>8 DEF SyncInv
  <1>4. CASE Compare
    <2>1. /\ pc = "compare" /\ pc' = "done"
          /\ exit' = IF data = <<"pinned", PinSize>> THEN 0 ELSE 1
          /\ UNCHANGED <<attempt, data, slept, answers>>
      BY <1>4 DEF Compare
    <2>2. LastAnswer' = LastAnswer
      BY <2>1 DEF LastAnswer
    <2>3. data = <<LastAnswer.of, BytesRead(LastAnswer)>>
      BY <2>1 DEF SyncInv, Concluded
    <2>4. exit' = 0 <=> (LastAnswer.of = "pinned"
                           /\ BytesRead(LastAnswer) = PinSize)
      BY <2>1, <2>3
    <2>5. SyncTyped' /\ InStep' /\ RetriedRightly'
      BY <2>1 DEF SyncInv, SyncTyped, InStep, RetriedRightly
    <2>6. Concluded'
      BY <2>1, <2>2, <2>4 DEF SyncInv, Concluded
    <2> QED
      BY <2>5, <2>6 DEF SyncInv
  <1>5. CASE UNCHANGED syncVars
    BY <1>5 DEF syncVars, SyncInv, SyncTyped, InStep, RetriedRightly,
                Concluded, LastAnswer
  <1> QED
    BY <1>2, <1>3, <1>4, <1>5 DEF SyncNext

LEMMA SyncInvHolds == SyncSpec => []SyncInv
  BY InitSyncInv, StepSyncInv, PTL DEF SyncSpec

------------------------------------------------------------------------------
(***************************************************************************)
(* What the exit code means.                                               *)
(***************************************************************************)
LEMMA LastAnswerTyped ==
  ASSUME SyncInv, exit # -1
  PROVE  LastAnswer \in Answers /\ Len(answers) = attempt
  <1>1. /\ Len(answers) = attempt /\ attempt \in 1..Attempts
        /\ answers \in Seq(Answers) /\ Attempts \in Nat
    BY SyncAssumption DEF SyncInv, SyncTyped, InStep
  <1>2. Len(answers) \in 1..Len(answers)
    BY <1>1
  <1> QED
    BY <1>1, <1>2, ElementOfSeq DEF LastAnswer

\* Exit 0 and exit 1 tell what upstream holds, whatever the network did, as
\* long as the server declared the length of what it has.
THEOREM VerdictsAreTrue == SyncSpec => []VerdictIsTrue
  <1>1. SyncInv => VerdictIsTrue
    <2> SUFFICES ASSUME SyncInv, exit \in {0, 1},
                        LastAnswer.declared = LastAnswer.size
                 PROVE  /\ LastAnswer.sent = LastAnswer.size
                        /\ exit = 0 <=> LastAnswer.of = "pinned"
      BY DEF VerdictIsTrue, Whole
    <2>1. LastAnswer \in Answers
      BY LastAnswerTyped
    <2>2. /\ FetchOnce(LastAnswer) = "ok"
          /\ (exit = 0) <=> (LastAnswer.of = "pinned"
                               /\ BytesRead(LastAnswer) = PinSize)
      BY DEF SyncInv, Concluded
    <2>3. /\ LastAnswer.kind = "body"
          /\ BytesRead(LastAnswer) = LastAnswer.sent
          /\ LastAnswer.size = LastAnswer.sent
      BY <2>1, <2>2, ComparedBody
    <2>4. LastAnswer.of = "pinned" => LastAnswer.size = PinSize
      BY <2>1, <2>3, BodyTyped
    <2> QED
      BY <2>2, <2>3, <2>4
  <1> QED
    BY <1>1, SyncInvHolds, PTL

\* Exit 2 means that no attempt could have told.
THEOREM UnableIsExhausted == SyncSpec => []UnableOnlyIfExhausted
  <1>1. SyncInv => UnableOnlyIfExhausted
    <2> SUFFICES ASSUME SyncInv, exit = 2
                 PROVE  UnableOnlyIfExhausted
      BY DEF UnableOnlyIfExhausted
    <2>1. LastAnswer \in Answers /\ Len(answers) = attempt
      BY LastAnswerTyped
    <2>2. FetchOnce(LastAnswer) = "fatal" \/ attempt = Attempts
      BY DEF SyncInv, Concluded
    <2> QED
      BY <2>1, <2>2, LastingFailure DEF UnableOnlyIfExhausted
  <1> QED
    BY <1>1, SyncInvHolds, PTL

\* Upstream is asked again after a failure that may pass only, and after its
\* back-off: never after a refused status, length or scheme, nor a whole body.
THEOREM BackOffBetweenAttempts == SyncSpec => []RetriesAreSpaced
  <1>1. SyncInv => RetriesAreSpaced
    <2> SUFFICES ASSUME SyncInv
                 PROVE  RetriesAreSpaced
      OBVIOUS
    <2>1. /\ Len(answers) \in Nat /\ Len(answers) <= attempt
          /\ attempt \in Nat /\ Len(slept) = attempt - 1
      BY SyncAssumption, LenProperties DEF SyncInv, SyncTyped, InStep
    <2>2. ASSUME NEW i \in 1..(Len(answers) - 1)
          PROVE  MayPass(answers[i])
      <3>1. FetchOnce(answers[i]) = "transient"
        BY <2>1 DEF SyncInv, RetriedRightly
      <3>2. answers \in Seq(Answers) /\ i \in 1..Len(answers)
        BY <2>1 DEF SyncInv, SyncTyped
      <3>3. answers[i] \in Answers
        BY <3>2, ElementOfSeq
      <3> QED
        BY <3>1, <3>3, PassingFailure
    <2>3. \A i \in DOMAIN slept : slept[i] = 2 ^ i
      BY LenProperties DEF SyncInv, SyncTyped, InStep
    <2>4. exit # -1 => Len(slept) = Len(answers) - 1
      BY <2>1, LastAnswerTyped
    <2> QED
      BY <2>2, <2>3, <2>4 DEF RetriesAreSpaced
  <1> QED
    BY <1>1, SyncInvHolds, PTL

------------------------------------------------------------------------------
(***************************************************************************)
(* Progress.                                                               *)
(***************************************************************************)
LEMMA StepAdvances ==
  ASSUME SyncInv, SyncNext
  PROVE  StepsLeft' \in 0..(StepsLeft - 1)
  <1>1. Attempts \in Nat /\ attempt \in 1..Attempts
    BY SyncAssumption DEF SyncInv, SyncTyped
  <1>2. CASE Fetch
    <2>1. /\ pc = "fetch" /\ attempt' = attempt
          /\ pc' \in {"compare", "done"} \/ (pc' = "sleep" /\ attempt < Attempts)
      BY <1>2 DEF Fetch, Fetched, GiveUp, TryAgain
    <2> QED
      BY <1>1, <2>1 DEF StepsLeft
  <1>3. CASE Sleep
    <2>1. pc = "sleep" /\ pc' = "fetch" /\ attempt' = attempt + 1
      BY <1>3 DEF Sleep
    <2>2. attempt < Attempts
      BY <1>1, <1>3 DEF Sleep, SyncInv, RetriedRightly
    <2> QED
      BY <1>1, <2>1, <2>2 DEF StepsLeft
  <1>4. CASE Compare
    <2>1. pc = "compare" /\ pc' = "done"
      BY <1>4 DEF Compare
    <2> QED
      BY <2>1 DEF StepsLeft
  <1> QED
    BY <1>2, <1>3, <1>4 DEF SyncNext

\* The check is through after at most two steps for each attempt, whatever the
\* network does: this is why it ends as soon as each of its steps does.
THEOREM ChecksAdvance == SyncSpec => SyncAdvances
  <1>1. SyncInv /\ [SyncNext]_syncVars
          => [StepsLeft' \in 0..(StepsLeft - 1)]_syncVars
    BY StepAdvances
  <1> QED
    BY <1>1, SyncInvHolds, PTL DEF SyncSpec, SyncAdvances
=============================================================================
