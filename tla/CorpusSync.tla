----------------------------- MODULE CorpusSync -----------------------------
(***************************************************************************)
(* The weekly corpus monitor, tools/check_corpus_sync.py: fetch the        *)
(* upstream corpus, try again after a failure that may pass, compare with  *)
(* the vendored pin and tell the outcome by an exit code.                  *)
(*                                                                         *)
(* One attempt meets one answer of the network.  An answer is a failure of *)
(* the transport, an HTTP status, or a 200 with a body; a body is the pin, *)
(* a changed corpus or a part of either, and comes with a Content-Length,  *)
(* right or wrong, or without one.                                         *)
(***************************************************************************)
EXTENDS Integers, Sequences

CONSTANTS
  Attempts,      \* ATTEMPTS
  RetryHttp,     \* RETRY_HTTP, among
  HttpErrors,    \* the error statuses the server may answer with
  MaxBytes,      \* MAX_BYTES
  PinSize,       \* the size of the pinned corpus
  Sizes          \* sizes of the bodies upstream may send

ASSUME SyncAssumption ==
  /\ Attempts \in Nat \ {0}
  /\ RetryHttp \subseteq HttpErrors
  /\ {MaxBytes, PinSize} \subseteq Nat /\ Sizes \subseteq Nat
  /\ 0 < PinSize /\ PinSize <= MaxBytes

VARIABLES
  pc,            \* "fetch" | "sleep" | "compare" | "done"
  attempt,       \* the loop variable of fetch_upstream
  data,          \* the bytes fetch_upstream returns
  exit,          \* the exit code, -1 while running
  slept,         \* history: seconds of each back-off
  answers        \* history: the answers met, oldest first

syncVars == <<pc, attempt, data, exit, slept, answers>>

------------------------------------------------------------------------------
(***************************************************************************)
(* What the network may answer.                                            *)
(***************************************************************************)
Corpora == {"pinned", "changed"}

\* A Content-Length header that is absent, or not a number.
NoLength == -1
Malformed == -2

\* `sent` bytes of a corpus of `size`; `declared` is the Content-Length header.
Bodies ==
  {[kind |-> "body", of |-> corpus, size |-> size, sent |-> sent,
    final |-> scheme, declared |-> declared] :
     corpus \in Corpora, size \in Sizes, sent \in Sizes,
     scheme \in {"https", "http"}, declared \in {NoLength, Malformed} \cup Sizes}

Possible(body) ==
  /\ body.sent <= body.size
  /\ body.of = "pinned" => body.size = PinSize

Answers ==
  {[kind |-> "transport"], [kind |-> "refused_redirect"]}
    \cup {[kind |-> "status", code |-> code] : code \in HttpErrors}
    \cup {body \in Bodies : Possible(body)}

------------------------------------------------------------------------------
(***************************************************************************)
(* One attempt.                                                            *)
(***************************************************************************)
\* resp.read(MAX_BYTES + 1), which stops where the declared length ends.
BytesRead(body) ==
  LET arrived == IF body.declared \in 0..body.sent THEN body.declared ELSE body.sent
  IN  IF arrived <= MaxBytes THEN arrived ELSE MaxBytes + 1

FetchBodyUnchecked(body) ==                       \* mutant: no length check
  IF body.final # "https" \/ BytesRead(body) > MaxBytes THEN "fatal" ELSE "ok"

FetchBodyPatient(body) ==                         \* mutant: ValueError retried
  IF body.final # "https" \/ BytesRead(body) > MaxBytes THEN "fatal"
  ELSE IF body.declared \notin {NoLength, BytesRead(body)} THEN "transient"
  ELSE "ok"

\* What _fetch_once makes of a 200: "ok", _FetchError ("fatal") or
\* IncompleteRead ("transient").
FetchBody(body) ==
  IF body.final # "https" THEN "fatal"
  ELSE IF BytesRead(body) > MaxBytes THEN "fatal"
  ELSE IF body.declared = Malformed THEN "fatal"
  ELSE IF body.declared \notin {NoLength, BytesRead(body)} THEN "transient"
  ELSE "ok"

FetchOnceFatalStatus(answer) ==                   \* mutant: no status retried
  CASE answer.kind = "body"   -> FetchBody(answer)
    [] answer.kind = "status" -> "fatal"
    [] OTHER                  -> "transient"

\* _fetch_once as the except clauses of fetch_upstream sort it.  A refused
\* redirect is a URLError, hence an OSError.
FetchOnce(answer) ==
  CASE answer.kind = "body"   -> FetchBody(answer)
    [] answer.kind = "status" -> IF answer.code \in RetryHttp THEN "transient"
                                                              ELSE "fatal"
    [] OTHER                  -> "transient"

------------------------------------------------------------------------------
SyncInit ==
  /\ pc = "fetch"
  /\ attempt = 1
  /\ data = <<"nothing", 0>>
  /\ exit = -1
  /\ slept = <<>>
  /\ answers = <<>>

Fetched(answer) ==
  /\ FetchOnce(answer) = "ok"
  /\ data' = <<answer.of, BytesRead(answer)>>
  /\ pc' = "compare"
  /\ UNCHANGED exit

\* _FetchError reaches main.
GiveUp(answer) ==
  /\ \/ FetchOnce(answer) = "fatal"
     \/ FetchOnce(answer) = "transient" /\ attempt = Attempts
  /\ exit' = 2
  /\ pc' = "done"
  /\ UNCHANGED data

TryAgainHung(answer) ==                           \* mutant: no socket timeout
  /\ FetchOnce(answer) = "transient" /\ attempt < Attempts
  /\ pc' = IF answer.kind = "transport" THEN "hung" ELSE "sleep"
  /\ UNCHANGED <<data, exit>>

TryAgainForever(answer) ==                        \* mutant: no last attempt
  /\ FetchOnce(answer) = "transient"
  /\ pc' = "sleep"
  /\ UNCHANGED <<data, exit>>

TryAgain(answer) ==
  /\ FetchOnce(answer) = "transient" /\ attempt < Attempts
  /\ pc' = "sleep"
  /\ UNCHANGED <<data, exit>>

\* An iteration of the loop in fetch_upstream, up to the sleep.
Fetch ==
  /\ pc = "fetch"
  /\ \E answer \in Answers :
       /\ answers' = Append(answers, answer)
       /\ Fetched(answer) \/ GiveUp(answer) \/ TryAgain(answer)
  /\ UNCHANGED <<attempt, slept>>

Sleep ==
  /\ pc = "sleep"
  /\ slept' = Append(slept, 2 ^ attempt)
  /\ attempt' = attempt + 1
  /\ pc' = "fetch"
  /\ UNCHANGED <<data, exit, answers>>

\* The end of main; SHA-256 tells any two byte strings apart.
Compare ==
  /\ pc = "compare"
  /\ exit' = IF data = <<"pinned", PinSize>> THEN 0 ELSE 1
  /\ pc' = "done"
  /\ UNCHANGED <<attempt, data, slept, answers>>

SyncNext == Fetch \/ Sleep \/ Compare

SyncSpec == SyncInit /\ [][SyncNext]_syncVars

\* The script runs, its socket timeouts expire and its sleeps end.
FairSyncSpec == SyncSpec /\ WF_syncVars(SyncNext)

------------------------------------------------------------------------------
(***************************************************************************)
(* Properties.                                                             *)
(***************************************************************************)
LastAnswer == answers[Len(answers)]

Whole(body) == body.sent = body.size

\* A verdict on the corpus is right about what upstream holds, as long as the
\* server declares the length of what it has, wherever the body breaks off.
VerdictIsTrue ==
  exit \in {0, 1} /\ LastAnswer.declared = LastAnswer.size =>
    /\ Whole(LastAnswer)
    /\ exit = 0 <=> LastAnswer.of = "pinned"

\* A failure that asking again cannot mend.
Lasting(answer) ==
  \/ answer.kind = "status" /\ answer.code \notin RetryHttp
  \/ answer.kind = "body" /\ (\/ answer.final = "http"
                              \/ answer.declared = Malformed
                              \/ answer.sent > MaxBytes)

\* A failure that may pass: the connection broke, a status said so, or a body
\* over https ended before its declared length.  A refused redirect is one too,
\* as line 94 sorts its URLError, though line 89 lists "non-HTTPS" among the
\* non-retryable failures.
MayPass(answer) ==
  \/ answer.kind \in {"transport", "refused_redirect"}
  \/ answer.kind = "status" /\ answer.code \in RetryHttp
  \/ /\ answer.kind = "body" /\ answer.final = "https"
     /\ answer.sent <= MaxBytes /\ answer.sent < answer.declared

\* "Unable to check" is said only when no attempt could have told: the
\* last answer was a lasting failure, or every attempt failed.
UnableOnlyIfExhausted == exit = 2 => Lasting(LastAnswer) \/ Len(answers) = Attempts

\* Upstream is asked again after a failure that may pass and after nothing else:
\* neither a refused answer nor a whole body, of whatever status, length or
\* scheme.  A back-off comes between any two attempts, twice as long each time,
\* and nowhere else.
RetriesAreSpaced ==
  /\ \A i \in 1..(Len(answers) - 1) : MayPass(answers[i])
  /\ \A i \in DOMAIN slept : slept[i] = 2 ^ i
  /\ exit # -1 => Len(slept) = Len(answers) - 1

\* The steps the script can still take: an attempt and its back-off for each
\* attempt left, and the comparison.
StepsLeft ==
  CASE pc = "fetch"   -> 2 * (Attempts - attempt) + 2
    [] pc = "sleep"   -> 2 * (Attempts - attempt) + 1
    [] pc = "compare" -> 1
    [] OTHER          -> 0

\* Every step brings the end nearer, whatever the network answers: the script
\* is through after at most two steps for each attempt.
SyncAdvances == [][StepsLeft' \in 0..(StepsLeft - 1)]_syncVars

\* The check comes to an end.
SyncEnds == <>(exit # -1)

\* check_corpus_sync.py:12-15: exit 1 is "confirmed drift (upstream fetched,
\* bytes differ)", a network failure is "NOT treated as drift".
DriftIsConfirmed == exit = 1 => Whole(LastAnswer)
=============================================================================
