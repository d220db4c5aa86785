----------------------------- MODULE BatchLines -----------------------------
(***************************************************************************)
(* The lines of one batch, from the caller's input file to the files it    *)
(* gets back (internal/batch/jsonl.go, output.go, the submitters of        *)
(* internal/gateway/batches and the provider clients under them).          *)
(*                                                                         *)
(* The input is read and checked before anything is stored, each provider  *)
(* takes its own form of it, and what a provider says of its job (a status *)
(* word, or results that may come in any order and leave lines out) is     *)
(* turned into the state of the batch and its two files.  The store, other *)
(* gateways and crashes are BatchService's; here every save succeeds.      *)
(***************************************************************************)
EXTENDS Naturals, Sequences, FiniteSets

CONSTANTS
  Ids,          \* custom ids, as they read without surrounding space
  Models,       \* model ids a line may name
  BatchModels,  \* those Workers AI runs batches for
  Inputs,       \* the create requests clients send
  Blank         \* an id or a model that is absent or all space

ASSUME LinesAssumption ==
  /\ Blank \notin Ids \cup Models
  /\ BatchModels \subseteq Models

VARIABLES
  input,   \* the request the batch was created from
  meta,    \* the stored record of the batch
  files,   \* its output and its error file: what BuildOutput wrote
  job,     \* the provider's side
  pc,      \* what the request in progress does next
  filed    \* history: the lines of the answer the files were made of

vars == <<input, meta, files, job, pc, filed>>

Providers == {"claude", "openrouter", "cloudflare"}
Kinds == Providers \cup {"other"}
Endpoints == {"chat", "embeddings", "other"}

(* What may be odd about a line besides its id and model.  A line has      *)
(* media, or several texts, for the endpoint that knows of such a thing.   *)
Flaws == {"none", "unparsable", "method", "url", "stream", "no content",
          "media", "several texts", "untranslatable"}

Line == [id : Ids \cup {Blank}, padded : BOOLEAN,
         model : Models \cup {Blank}, flaw : Flaws]

(* padded: the endpoint came with space around it. *)
Input == [provider : Kinds, endpoint : Endpoints, padded : BOOLEAN,
          lines : Seq(Line)]

ASSUME InputsAssumption == Inputs \subseteq Input

-----------------------------------------------------------------------------
(* Reading the input: line by line, up to the first that is refused. *)

Reading == [ok |-> TRUE, model |-> Blank, seen |-> {}]
Refused(r) == [r EXCEPT !.ok = FALSE]

ReadLine(r, line) ==
  IF \/ ~r.ok
     \/ line.flaw \in {"unparsable", "method", "url", "stream", "no content"}
     \/ line.id = Blank
     \/ line.model = Blank
     \/ r.model \notin {Blank, line.model}
     \/ line.id \in r.seen
  THEN Refused(r)
  ELSE [r EXCEPT !.model = line.model, !.seen = @ \cup {line.id}]

(* What is known before the first line and after each one.                 *)
Readings(lines) ==
  LET read[n \in 0..Len(lines)] ==
        IF n = 0 THEN Reading ELSE ReadLine(read[n - 1], lines[n])
  IN  read

(* Space around the endpoint is cut here, and only here.                   *)
ParseBatchJSONL(in) ==
  IF in.endpoint = "other" \/ in.lines = <<>>
  THEN Refused(Reading)
  ELSE Readings(in.lines)[Len(in.lines)]

HasFlaw(in, flaw) == \E i \in DOMAIN in.lines : in.lines[i].flaw = flaw

(* Only three kinds of backend run batches.                                *)
submitter(kind) == kind \in Providers

(* What a provider cannot run, as far as the gateway checks beforehand.    *)
claudeValidate(in) == in.endpoint = "chat" /\ ~in.padded
openRouterValidate(in) == ~HasFlaw(in, "media")
ModelSupportsBatch(model) == model \in BatchModels

Validate(in) ==
  CASE in.provider = "claude" -> claudeValidate(in)
    [] in.provider = "openrouter" -> openRouterValidate(in)
    [] OTHER -> ModelSupportsBatch(ParseBatchJSONL(in).model)

(* Each line in the provider's own form.  A body passes through OpenRouter *)
(* and Workers AI chat as it is; an embedding line is one text there.      *)
claudeBatchParams(line) == line.flaw # "untranslatable"
chatLineToCF(line) == TRUE
embedLineToCF(line) == line.flaw # "several texts"
batchItemBody(line) == TRUE

translateBatchRequests(in) ==
  /\ ~in.padded
  /\ \A i \in DOMAIN in.lines :
       IF in.endpoint = "chat" THEN chatLineToCF(in.lines[i]) ELSE embedLineToCF(in.lines[i])

Translates(in) ==
  CASE in.provider = "claude" -> \A i \in DOMAIN in.lines : claudeBatchParams(in.lines[i])
    [] in.provider = "openrouter" -> \A i \in DOMAIN in.lines : batchItemBody(in.lines[i])
    [] OTHER -> translateBatchRequests(in)

(* How a call to a provider ends on the wire: no client or a breaker that  *)
(* stops it, a status that refuses it, an answer lost or too large after   *)
(* the provider took it, or an answer that is read.                        *)
Calls == {"not sent", "refused", "lost", "too large", "answered"}
Taken(call) == call \in {"lost", "too large", "answered"}

(* What is read of a create; only an answer that names the batch is a      *)
(* reference.                                                              *)
CreateAnswers == {"id", "no id", "unreadable"}
IsReference(answer) == answer = "id"

-----------------------------------------------------------------------------
(* What a provider answers about its job. *)

JobState == {"none", "running", "ended", "failed", "expired", "cancelled"}

(* The results a provider may give a line. *)
Results(in) ==
  CASE in.provider = "claude" -> {"error", "message", "odd message"}
    [] in.provider = "openrouter" ->
         {"error", "bad status", "body", "no object", "no body", "null"}
    [] OTHER -> IF in.endpoint = "chat"
                THEN {"error", "choices", "response", "unknown", "empty"}
                ELSE {"error", "data", "object", "vector", "empty"}

(* The word a poll finds, "results" standing for an answer that has some.  *)
(* Workers AI's answer has a place for both, and nothing in the gateway    *)
(* says that responses come only once the job has ended.                   *)
Words(in, j) ==
  CASE in.provider = "claude" ->
         IF j.state = "running" THEN {"in_progress", "canceling"} ELSE {"ended"}
    [] in.provider = "openrouter" ->
         (CASE j.state = "running" ->
                 {"validating", "in_progress", "finalizing", "new word"}
            [] j.state = "ended" -> {"results"}
            [] OTHER -> {j.state})
    [] OTHER ->
         LET responses == {w \in {"results"} : \E id \in Ids : j.result[id] # "none"}
         IN  responses \cup
               (CASE j.state = "running" -> {"queued", "running", "no word", "new word"}
                  [] j.state = "ended" -> IF responses = {} THEN {"no word"} ELSE {}
                  [] OTHER -> {j.state})

claudePoll(word) == IF word = "ended" THEN "done" ELSE "running"

(* A word OpenRouter adds later reads as still running.                    *)
openRouterPoll(word) ==
  CASE word = "results" -> "done"
    [] word \in {"failed", "expired", "cancelled"} -> word
    [] OTHER -> "running"

(* Slip: a word Workers AI adds later ends the batch.                      *)
parsePollResultUnknownFails(word) ==
  CASE word = "results" -> "done"
    [] word \in {"queued", "running"} -> "running"
    [] OTHER -> "failed"

(* Results count whatever word is beside them; a word the client does not  *)
(* know, or none, is an error.                                             *)
parsePollResult(word) ==
  CASE word = "results" -> "done"
    [] word \in {"queued", "running"} -> "running"
    [] word \in {"failed", "cancelled"} -> "failed"
    [] OTHER -> "error"

(* A poll whose answer does not arrive, or cannot be read, is an error.    *)
GetBatch(call, word) == IF call = "answered" THEN openRouterPoll(word) ELSE "error"
PollBatch(call, word) == IF call = "answered" THEN parsePollResult(word) ELSE "error"
Status(call, word) == IF call = "answered" THEN claudePoll(word) ELSE "error"

PollState(provider, call, word) ==
  CASE provider = "claude" -> Status(call, word)
    [] provider = "openrouter" -> GetBatch(call, word)
    [] OTHER -> PollBatch(call, word)

-----------------------------------------------------------------------------
(* Results as lines of the output. *)

LineErrFailed == "batch_failed"
LineErrSynthesis == "synthesis_failed"
ProviderCode == "the provider's"

Success(id) == [id |-> id, body |-> TRUE, code |-> ""]
Failure(id, code) == [id |-> id, body |-> FALSE, code |-> code]

claudeBatchLine(id, r) ==
  CASE r = "error" -> Failure(id, ProviderCode)
    [] r = "odd message" -> Failure(id, LineErrSynthesis)
    [] OTHER -> Success(id)

(* A success without a body has neither a body nor an error; one whose     *)
(* body is no JSON object is a success all the same.                       *)
openRouterLine(id, r) ==
  CASE r = "error" -> Failure(id, ProviderCode)
    [] r = "bad status" -> Failure(id, LineErrFailed)
    [] r = "no body" -> Failure(id, "")
    [] OTHER -> Success(id)

synthesizeChatBody(r) == r \in {"choices", "response"}

(* An object that is no list of embeddings is taken as one embedding; a    *)
(* vector that is not in an object does not decode.                        *)
synthesizeEmbedBody(r) == r \in {"data", "object"}

cloudflareLine(in, id, r) ==
  CASE r = "error" -> Failure(id, LineErrFailed)
    [] in.endpoint = "chat" /\ synthesizeChatBody(r) -> Success(id)
    [] in.endpoint = "embeddings" /\ synthesizeEmbedBody(r) -> Success(id)
    [] OTHER -> Failure(id, LineErrSynthesis)

LineResult(in, id, r) ==
  CASE in.provider = "claude" -> claudeBatchLine(id, r)
    [] in.provider = "openrouter" -> openRouterLine(id, r)
    [] OTHER -> cloudflareLine(in, id, r)

Collected(in, j) ==
  {LineResult(in, id, j.result[id]) : id \in {i \in Ids : j.result[i] # "none"}}

(* Setting the model of a null body panics: the request dies, and nothing  *)
(* of it is stored.                                                        *)
Collectable(in, j) == \A id \in Ids : j.result[id] # "null"

(* Slip: a line is told to have failed by its code alone.                  *)
BuildOutputByCode(lines) ==
  [ok |-> {l \in lines : l.body}, err |-> {l \in lines : l.code # ""}]

(* A line with a body and no error code is an output line, any other an    *)
(* error line.                                                             *)
BuildOutput(lines) ==
  LET ok == {l \in lines : l.body /\ l.code = ""}
  IN  [ok |-> ok, err |-> lines \ ok]

-----------------------------------------------------------------------------
NoJob == [state |-> "none", sent |-> 0, cancelAsked |-> FALSE,
          result |-> [id \in Ids |-> "none"]]
NoInput == [provider |-> "claude", endpoint |-> "other", padded |-> FALSE, lines |-> <<>>]
NoMeta == [status |-> "absent", ref |-> FALSE, total |-> 0, completed |-> 0, failed |-> 0]
NoFiles == [ok |-> {}, err |-> {}]

Open == {"validating", "in_progress", "cancelling"}
Terminal == {"completed", "failed", "cancelled", "expired"}
Lines == [id : Ids, body : BOOLEAN, code : {"", LineErrFailed, LineErrSynthesis, ProviderCode}]
Meta == [status : Open \cup Terminal \cup {"absent", "refused"}, ref : BOOLEAN,
         total : Nat, completed : Nat, failed : Nat]
Job == [state : JobState, sent : Nat, cancelAsked : BOOLEAN,
        result : [Ids -> Results(input) \cup {"none"}]]

TypeOK ==
  /\ input \in Input
  /\ meta \in Meta
  /\ files.ok \subseteq Lines /\ files.err \subseteq Lines
  /\ job \in Job
  /\ pc \in {"idle", "submit", "results"}
  /\ filed \subseteq Ids

Init ==
  /\ input = NoInput
  /\ meta = NoMeta
  /\ files = NoFiles
  /\ job = NoJob
  /\ pc = "idle"
  /\ filed = {}

(* A create: read, resolve, validate, store.  No backend, a model that is  *)
(* not allowed or a bad completion window refuse it as well.               *)
Create(in) ==
  /\ meta.status = "absent"
  /\ input' = in
  /\ \/ /\ ParseBatchJSONL(in).ok
        /\ submitter(in.provider)
        /\ Validate(in)
        /\ meta' = [meta EXCEPT !.status = "validating", !.total = Len(in.lines)]
        /\ pc' = "submit"
     \/ /\ meta' = [meta EXCEPT !.status = "refused"]
        /\ UNCHANGED pc
  /\ UNCHANGED <<files, job, filed>>

Sending == [job EXCEPT !.state = "running", !.sent = @ + 1]

Fails == meta' = [meta EXCEPT !.status = "failed"]

(* Slip: a create whose answer is lost is sent again.                      *)
SubmitRetried ==
  /\ pc = "submit"
  /\ \/ /\ Translates(input)
        /\ job' = Sending
        /\ \/ /\ meta' = [meta EXCEPT !.status = "in_progress", !.ref = TRUE]
              /\ pc' = "idle"
           \/ UNCHANGED <<meta, pc>>
     \/ /\ Fails
        /\ pc' = "idle"
        /\ UNCHANGED job
  /\ UNCHANGED <<input, files, filed>>

(* The create goes once.  It fails when a line does not translate, when it *)
(* is too large, when the provider does not take it, and when the provider *)
(* took it but its answer is lost, unreadable or names no batch.           *)
Submit ==
  /\ pc = "submit"
  /\ pc' = "idle"
  /\ \E call \in Calls, answer \in CreateAnswers :
       /\ Taken(call) => Translates(input)
       /\ IF Taken(call) THEN job' = Sending ELSE UNCHANGED job
       /\ IF call = "answered" /\ IsReference(answer)
          THEN meta' = [meta EXCEPT !.status = "in_progress", !.ref = TRUE]
          ELSE Fails
  /\ UNCHANGED <<input, files, filed>>

-----------------------------------------------------------------------------
(* The provider works on the lines in any order, and may end the job with  *)
(* lines it says nothing about.                                            *)
Sent == {input.lines[i].id : i \in DOMAIN input.lines}
Told == {id \in Ids : job.result[id] # "none"}

LineDone(id) ==
  /\ job.state = "running"
  /\ id \in Sent
  /\ job.result[id] = "none"
  /\ \E r \in Results(input) : job' = [job EXCEPT !.result[id] = r]
  /\ UNCHANGED <<input, meta, files, pc, filed>>

JobEnds ==
  /\ job.state = "running"
  /\ \E st \in {"ended"} \cup IF input.provider = "claude" THEN {}
                              ELSE {"failed", "expired", "cancelled"} :
       job' = [job EXCEPT !.state = st]
  /\ UNCHANGED <<input, meta, files, pc, filed>>

-----------------------------------------------------------------------------
(* A retrieve polls an open batch. *)

(* Slip: a batch none of whose lines succeeded is failed, lines or not.    *)
OutcomeNoneSucceeded(out) ==
  IF meta.status = "cancelling" THEN "cancelled"
  ELSE IF out.ok = {} THEN "failed" ELSE "completed"

Outcome(out) ==
  IF meta.status = "cancelling" THEN "cancelled"
  ELSE IF out.err # {} /\ out.ok = {} THEN "failed" ELSE "completed"

Finalize(lines) ==
  LET out == BuildOutput(lines) IN
  /\ files' = out
  /\ filed' = Told
  /\ meta' = [meta EXCEPT !.status = Outcome(out),
                          !.completed = Cardinality(out.ok),
                          !.failed = Cardinality(out.err)]

(* The poll, tried again while there is time, is answered with a word; one *)
(* that fails leaves the batch as it was, and the request is answered with *)
(* that.                                                                   *)
Poll ==
  /\ pc = "idle"
  /\ meta.status \in Open
  /\ meta.ref
  /\ \E call \in Calls, word \in Words(input, job) :
       LET st == PollState(input.provider, call, word) IN
       \/ /\ st = "running"
          /\ meta' = IF meta.status = "validating"
                     THEN [meta EXCEPT !.status = "in_progress"] ELSE meta
          /\ UNCHANGED <<files, pc, filed>>
       \/ /\ st \in {"failed", "expired", "cancelled"}
          /\ meta' = [meta EXCEPT !.status = st]
          /\ UNCHANGED <<files, pc, filed>>
       \/ /\ st = "done"
          /\ input.provider # "claude"
          /\ Collectable(input, job)
          /\ Finalize(Collected(input, job))
          /\ UNCHANGED pc
       \/ /\ st = "done"
          /\ input.provider = "claude"
          /\ pc' = "results"
          /\ UNCHANGED <<meta, files, filed>>
       \/ /\ st = "error" \/ (st = "done" /\ ~Collectable(input, job))
          /\ UNCHANGED <<meta, files, pc, filed>>
  /\ UNCHANGED <<input, job>>

(* Message Batches gives its results on a second call. *)
FetchResults ==
  /\ pc = "results"
  /\ pc' = "idle"
  /\ \E call \in Calls :
       IF call = "answered" THEN Finalize(Collected(input, job))
       ELSE UNCHANGED <<meta, files, filed>>
  /\ UNCHANGED <<input, job>>

(* Only Message Batches can be cancelled, and what has finished is kept; a *)
(* cancel whose answer is lost may have been taken.                        *)
Cancel ==
  /\ pc = "idle"
  /\ meta.status \in {"validating", "in_progress"}
  /\ meta.ref
  /\ input.provider = "claude"
  /\ job.state = "running"
  /\ job' = [job EXCEPT !.cancelAsked = TRUE]
  /\ meta' \in {meta, [meta EXCEPT !.status = "cancelling"]}
  /\ UNCHANGED <<input, files, pc, filed>>

(* The window is over: the provider is asked to stop, whether it can or    *)
(* not, and the batch expires.                                             *)
Expire ==
  /\ pc = "idle"
  /\ meta.status \in {"validating", "in_progress"}
  /\ meta' = [meta EXCEPT !.status = "expired"]
  /\ \/ UNCHANGED job
     \/ /\ input.provider = "claude" /\ job.state = "running"
        /\ job' = [job EXCEPT !.cancelAsked = TRUE]
  /\ UNCHANGED <<input, files, pc, filed>>

Next ==
  \/ \E in \in Inputs : Create(in)
  \/ Submit
  \/ \E id \in Ids : LineDone(id)
  \/ JobEnds
  \/ Poll
  \/ FetchResults
  \/ Cancel
  \/ Expire

Spec == Init /\ [][Next]_vars

-----------------------------------------------------------------------------
(* Correctness. *)

Stored == meta.status \notin {"absent", "refused"}
IdsOf(lines) == {l.id : l \in lines}

(* Whatever is stored came from an input whose lines can be told apart and *)
(* run as one batch: ParseBatchJSONL, which reads line by line and stops   *)
(* at the first refused one, lets nothing else through.                    *)
StoredIsWellFormed ==
  Stored =>
    /\ input.endpoint # "other"
    /\ input.lines # <<>>
    /\ \A i, k \in DOMAIN input.lines : i # k => input.lines[i].id # input.lines[k].id
    /\ \E m \in Models : \A i \in DOMAIN input.lines : input.lines[i].model = m
    /\ Sent \subseteq Ids
    /\ ~\E flaw \in {"unparsable", "method", "url", "stream", "no content"} :
         HasFlaw(input, flaw)

(* A provider is never asked twice to run a batch, nor for one that is not *)
(* stored, is not well formed or does not translate, and a stored batch    *)
(* under way was sent.                                                     *)
SubmittedOnce ==
  /\ StoredIsWellFormed
  /\ job.sent \leq 1
  /\ job.sent = 1 => Stored /\ Translates(input)
  /\ meta.ref => job.sent = 1

(* Of a batch whose results were collected, every line of the answer is in *)
(* exactly one of the two files, whatever shape its result had, and the    *)
(* record's counts are those of the files.  Claude and OpenRouter give     *)
(* their results when all of them are there; of Workers AI the gateway     *)
(* takes the first answer that has responses.                              *)
LinesAccountedFor ==
  meta.status = "completed" \/ files # NoFiles =>
    /\ IdsOf(files.ok) \cap IdsOf(files.err) = {}
    /\ IdsOf(files.ok) \cup IdsOf(files.err) = filed
    /\ filed \subseteq Told
    /\ input.provider # "cloudflare" => filed = Told
    /\ meta.completed = Cardinality(IdsOf(files.ok))
    /\ meta.failed = Cardinality(IdsOf(files.err))
    /\ meta.completed + meta.failed \leq meta.total

(* A line of the output file is one the provider completed with an answer  *)
(* the gateway understands, or one OpenRouter completed with a body it     *)
(* does not (openrouter.go:133-134 says that BuildOutput reports those; it *)
(* passes them on); no such line is told to have failed.                   *)
OutputIsSuccess ==
  LET understood == {"message", "body", "choices", "response", "data", "object"} IN
  /\ \A l \in files.ok : \/ job.result[l.id] \in understood
                         \/ input.provider = "openrouter" /\ job.result[l.id] = "no object"
  /\ \A l \in files.err : job.result[l.id] \notin understood

(* Every line's result is in the right file, once.                         *)
ResultsAreFiled == TypeOK /\ LinesAccountedFor /\ OutputIsSuccess

(* The terminal state says what became of the job: completed or cancelled  *)
(* only once it ended, or gave responses (Workers AI); failed when it was  *)
(* never recorded as submitted, or failed as a whole, or gave results and  *)
(* no success among them.                                                  *)
OutcomeIsTrue ==
  /\ meta.status = "completed" =>
       /\ job.state = "ended" \/ (input.provider = "cloudflare" /\ filed # {})
       /\ files.ok # {} \/ filed = {}
  /\ meta.status = "failed" =>
       \/ ~meta.ref
       \/ job.state = "failed"
       \/ input.provider = "cloudflare" /\ job.state = "cancelled"
       \/ /\ job.state = "ended" \/ input.provider = "cloudflare"
          /\ files.ok = {} /\ filed # {}
  /\ meta.status = "cancelled" =>
       \/ job.state = "ended" /\ job.cancelAsked
       \/ job.state = "cancelled"
=============================================================================
