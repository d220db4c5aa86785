# Polypus, specified in TLA+

Polypus is an inference gateway written in Go. It serves an OpenAI-shaped HTTP
API, resolves the model a request names to a provider backend, and forwards
chat, embedding, speech, decision and batch requests. This directory holds TLA+
specifications of its logic, the TLC configurations that check them on small
instances, and proofs, checked by TLAPS, of what holds for every instance.
Paths below are relative to `src/internal/` unless they begin with `src/`.

## 1. Inventory

| Component | State it keeps | Operations | Hard behaviour |
|---|---|---|---|
| Batch store `batch/store.go`, `batch/finalize.go`, `statefile/` | files (content + metadata), batch records, one lock file | SaveFile, DeleteFile, SaveBatch, UpdateBatch, TryFinalizeBatch; reads without the lock | several processes share one root; a critical section is several file operations, each may fail, the process may die between any two |
| Batch lifecycle `gateway/batches/`, `gateway/batch.go`, `gateway/files.go` | none of its own: a copy of a record per request | create, refresh, finalise, cancel, file upload and delete | a copy read before a provider call is written back after it; lost answers; the completion window; crashes between the provider and the record |
| Batch lines `batch/jsonl.go`, `batch/output.go`, the submitters and the provider clients under them | none | parse, validate, translate, submit, poll, collect, split | results in any order and shape, matched by id; a create whose answer is lost |
| Upstream breakers `gateway/upstream/` | one breaker per backend | Execute, Snapshot | calls that began before the breaker opened answer after it did |
| Client keys `admin/keys/`, `gateway/access.go` | the key file, the gateway's cache of it | Generate, Rotate, Delete, Authorize with the upgrade of legacy hashes | several processes write one file; a cache kept by the file's stat |
| Configuration and routing `config/`, `switchyard/`, `gateway/router/registry.go`, `policy.go`, `account.go`, `gateway/router.go`, `named_router.go`, `target.go` | the registry's snapshot, Bifrost's account, routes.toml | load, overlay, build, render, dispatch | one config read by several tables with rules of their own, one of which changes later |
| Model lists `gateway/apicatalog.go`, `models_helpers.go`; provider lists `clients/catalog/`, `clients/{anthropic,cloudflare,gemini,openaicompat}/` | none; a stale copy per client | list, retrieve, fetch page by page | list, retrieve and dispatch decide on their own whose model an id is; a fetch is cut off, or the list changes, between two pages |
| Allow list `gateway/admin_allow.go`, `gateway/router/registry_allow.go`, `config/allow_overlay.go` | overlay file, registry snapshot | allow a model, apply the overlay | two stores to keep in step; read-modify-write of a file; compare-and-swap; crashes between |
| Models inventory `gateway/models.go`, `models_warmup.go`, `catalog_inventory.go`, `config/models_inventory.go` | memory cache, its disk copy | refresh, put, flush, load | concurrent flushes; a change while a flush writes |
| Chat streaming `gateway/chat_transport.go`, `gateway/router/client.go`, `gateway/openai_stream.go` | channel of chunks, error channel, watchdog timer | produce, forward, cancel | the end of a stream, the watchdog and a hang-up racing |
| Outbound policies `outbound/outbound.go` | one breaker per dependency | Do (retried), DoOnce, probes | what may be sent again; whose answer is returned; bodies held over a retry |
| Budgets, requests, errors `config/timeouts.go`, `gateway/server.go`, `systemone.go`, `gateway/router/client.go`, `decision.go`, `errors/`, `ratelimit/`, `clients/cloudflare/` | none beside both breakers | resolve a budget, dial, map errors, answer | an error crosses up to five layers; whose deadline ended a call |
| Process lifecycle `gateway/lifecycle.go`, `gateway/server.go`, `src/pkg/polypus/` | readiness, the router | start, warm up, serve, drain, close | a signal or a failure at any step, with passes and requests in flight |
| Deploy, smoke, command line, telemetry, pages, GitHub and registry clients | containers, reports | external commands, reporting, rendering | no interleaving of their own |

What makes each correct:

* batches: no record names a file that is gone, and a batch is finalised only
  while it is open (store); what a record says is true of the provider's job, and a job that
  costs money can be found again (lifecycle); each reported line ends in
  exactly one file, the right one (lines);
* keys: a revoked key stops working and no update is lost;
* routing: what the load checked still holds in every later snapshot, what is
  dialled can be carried, list, retrieve and dispatch agree on whose model an id
  is (but for the ids of section 5), what an operator allowed stays allowed and
  listed and nothing else joins it;
* inventory: the disk copy never goes back, and nothing put is forgotten;
* streams: one answer, with nothing lost, and no goroutine left behind;
* calls: what must not be sent twice is not; a backend is blamed for every call
  it failed and never for one it answered, and for one its caller cut short or
  left only where the layers lose that cause (section 5); it is left alone when
  it fails and tried again when it is well; the caller's status says what
  happened;
* process: the router is closed last, and a gateway told to stop stops.

## 2. Modules

```
BatchStore <- BatchService                 BatchLines
KeyStore        ChatStream                 ModelNames <- RouterConfig <- ModelLists, ProviderLists, BifrostAccount <- Routing
AllowList <= ModelCatalog <- Lifecycle     Board, Outbound, Timeouts, UpstreamErrors <- Requests
```
(`A <- B`: B extends or instantiates A; `A <= B`: B implements A.)

| Module | What it is |
|---|---|
| `BatchStore` | the store: one action per file operation of each critical section, the lock, crashes |
| `BatchService` | EXTENDS `BatchStore`: the requests over the store, the provider's jobs, the completion window |
| `BatchLines` | one batch's lines from the input file through a provider to the two output files |
| `KeyStore` | the client keys: admin commands and gateways over one key file |
| `Board` | the circuit breakers and the calls they let through |
| `Outbound` | a call to a dependency: breaker, attempts, waits, bodies, contexts |
| `Timeouts`, `UpstreamErrors` | the budget rules and the error mappings, as operators |
| `Requests` | composes the four above: requests from their budget to their answer |
| `ChatStream` | one streamed chat: producer, queue, forwarder, watchdog, client |
| `ModelNames`, `RouterConfig`, `BifrostAccount`, `ModelLists`, `ProviderLists` | ids and gates; the config's defaults, checks, overlay and routes.toml; Bifrost's account; the list endpoints; the paged fetches |
| `Routing` | composes the five: one gateway from its config to its answers, while operators allow models, lists change and the process restarts |
| `AllowList` | abstract: what allowing a model promises |
| `ModelCatalog` | allow requests, list requests and refresh passes step by step, over the overlay, its lock, the registry's swap, the inventory and its disk copy, with crashes; implements `AllowList` |
| `Lifecycle` | EXTENDS `ModelCatalog`: the process around it |
| `MC…` | the small instances, with their `.cfg` files |
| `BatchServiceProofs` (with those of `BatchStore`), `BatchLinesProofs`, `BreakerProofs` (those of `Board` and of `Outbound`), `ChatStreamProofs`, `KeyStoreProofs`, `LifecycleProofs` (with those of `ModelCatalog`), `RequestsProofs`, `RoutingProofs` (with those of the five modules under `Routing`) | the theorems |

A definition marked `Slip` or `Mutant` is a wrong version of the one after it.
Nothing uses it: it documents the mistake a property catches, and putting it in
place of the right one makes the property fail.

### BatchStore

A caller is one request inside one gateway process. Its `call` record is the
program counter and the locals of the store operation it is in:

* `Begin`/`Start…` enter `withWriteLock`; `Acquire` is `tryLock` succeeding;
  `GiveUp` is any way `WithFileLock` ends without the lock (`lockWait` passed,
  the client gone, the lock file unusable). The mutex inside the lock is left
  out: it is taken only with the file lock held, so it never decides anything.
* `SaveContent`, `SaveMeta` are the two writes of `saveFileUnlocked`; each may
  fail. `RemoveMeta`, `RemoveContent` are the two removals of
  `removeFileUnlocked`, run by `DeleteFile` and by the clean-up of a failed
  finalisation.
* `CheckDelete` is the scan of all records; `Put` is `writeBatchMeta`;
  `FinalizeRead` … `FinalizeCommit` are `finalizeLocked`, which saves the
  output file, the error file and then the record.
* `StoreCrash` kills a gateway: the kernel drops its lock, its calls are gone,
  the disk stays as it is.

`WriteAtomic` is one step: it writes a temporary file and renames it, so a
reader sees the old file or the new one, and nothing after the rename can fail
the call. Temporary files, timestamps and line counts are not modelled. A file
id is drawn once and never again (ids are random); when none is left a save
fails, which bounds every run.

### BatchService

A request (`req`) reads a record (no lock), may call the provider, and writes
the copy back through the store; `pc` names the step. Reading the record and
taking the branch on it are one step, since nothing shared is touched between
the two. The provider (`job`) is external: it takes a job or not, ends it with
some lines that succeeded and some that did not, and for OpenRouter and
Cloudflare may close it without lines (`Closings`). An answer may be lost:
`Submit` is the provider taking the job and `SubmitAccepted` its answer
arriving; a failed cancel may have been taken (`CancelUnanswered`). `past` says
whether the completion window is over, `lost` and `logged` record which jobs no
gateway learnt of and whose reference went to the log.

Answers and errors to the HTTP client are left out. A poll that fails, for
whatever reason, ends the request without a write. `PollRunning` keeps the
code's `validating` to `in_progress` branch, though no submitter can reach it:
a record that says `validating` carries no reference yet, and a poll with an
empty reference is an error.

### BatchLines

The create reads the input line by line (`ReadLine`, which goes no further than
the first refused line; `Readings` gives what was read up to each), lets the submitter of the provider validate it, stores the
batch and submits it; the provider works, answers a poll with a status word or
with results, and the results become the two files. A line is its id (padded or
not), its model and at most one flaw; a result is the class of its shape, as
`BuildOutput` and the three translators tell shapes apart. The three providers
differ in what they validate (`Validates`), translate, poll and cancel, and
share the rest, as in the code. Saves succeed and there is one gateway: failures
and races are `BatchService`'s. A routing, window or size refusal is a choice.
Workers AI's answer has a place for a status and one for responses, and
`parsePollResult` takes responses whatever the status, so `Words` lets them come
before the job has ended; `filed` remembers which lines the collected answer told
of. A body of OpenRouter's that is JSON but no object is a result of its own (`"no
object"`): `relabelModel` returns it as it is and `BuildOutput` files it as a
success.

### KeyStore

An admin command is one run of its process; a gateway's requests share its
cached copy of the file. Writers (`Generate`, `Rotate`, `Delete`, and `Upgrade`,
which a request with a legacy hash goes on to) take the file lock, read, change
and rename: `Acquire`, the operation, `Write`, `DropCache`. A request takes no
lock: `Stat` and `Load` are the two halves of `readCached`, and the file may be
replaced between them. `Load` is one step because the mutex covers it and the
read of the file. `AdminDies` and `GatewayDies` may come between any two steps.

A secret is a draw and a hash is the secret it was made from, with a flag for
the legacy form. `from` and `seen` are the versions of the file a request began
under and was decided on. The model gives every version its own modification
time; what two writes within one tick of a coarse clock would do to the cache is
named in section 5 and left out.

### Board

`Execute` and `Answer` are the two halves of a call. The breaker is failsafe-go's
and external: `Kept` and `Recorded` say what the settings of `board.go` make of
it (a count of the last three results, one trial, a result recorded in whatever
state the breaker is in by then). A call ends through one of five causes: nothing
wrong, the `request`, the `backend`, the `caller` (a deadline cut short, a
hang-up) or a caller's end that was `lost` on the way, which reaches the breaker
looking like the backend's. `EndsOf` gives the error classes each cause can leave
and `backendFault` is what the code makes of them. A backend is well or sick.
Two counts that the breaker does not see are kept beside it: `streak`, the calls
in a row the backend failed, and `charged`, those in a row that it failed or that
were lost. `ClosedMeansTrusted` holds the breaker to the first,
`OpensOnlyForStreak` to the second, and `Recovers` is for a backend that stays
well and has nothing more charged to it (`ChargedNoMore`): one whose callers go on
leaving in the lossy way can be kept open by them.

### ChatStream

One streamed call from the dial to its answer. `Send` is the producer's select
(queue the chunk, or see the context end); the forwarder's select is
`NextChunk`, `TakeError` (the closed queue) and `ContextEnds`, any of which may
be taken when several are ready, as in Go. `WriteChunk` is a step of its own
because it waits for the client. The watchdog's `Fires` and `Cancels` are the
two statements of its callback, so the flag is up before the context ends. The
forwarder's return (`Leave`) runs its deferred calls: the context ends and the
timer stops. The provider is external and may end its stream with or without an
error, also when its context has ended; in the latter case, without an error,
the client gets `[DONE]` after what was sent, as the code has it.

`Blame` is a step after `TakeError`: the code asks whether the watchdog fired and
then, once the headers are out, whether the context has ended, and the answer to
the second may have changed.

### Outbound

A call is at one of five points: `sending` an attempt, `waiting` for the next,
`over` (result known, breaker not yet told), `back` with its caller, idle.
`Answered` and `Broken` are the two ways an attempt ends, `Again` and `GiveUp`
the two ways a wait does, `Finish` records the result and builds what the caller
gets (`Returned`), `ContextEnds` is a deadline or a hang-up at any point. `resp`
is the response held and `bodies` how many are open, so a body closed twice or
never shows. `dep` is the dependency's breaker: `Closed`, `Opened` or `HalfOpened`,
`Settled` by each result. Breaker and retry policy are failsafe-go's and external, modelled
from the settings of `outbound.go`; the backoff's length is left out.

### Requests

One backend of a kind, several callers. A request resolves its hop budget
(`Timeouts`), passes the backend's breaker (`Board`'s operators) and, for
Cloudflare's own API (`OwnAPI`), a second one (`Outbound`'s), gets a reply, and
`Ended` maps it through the layers (`UpstreamErrors`) to a status, a Retry-After
and a verdict for the breaker. It may fail in the gateway before the breakers
(`FailLocally`: any status of a local code, or a 413) or inside them with nothing
sent (`FailsInside`, with the same codes, at the point `unsent` where the second
breaker has let it through). `why` is a ghost: what happened, by what the reply says, from
which the properties judge what the code makes of it. Bifrost is external: a
deadline comes back from it as a 504 or without a status, a hang-up as 499 or
without one. Bodies are left out; speech and decision answers are written after
the breaker has recorded, as in the code.

### Routing and the modules under it

`RouterConfig` is `LoadRouterConfig` as functions: defaults picked, each check a
predicate, routers expanded, `ApplyAllowOverlay`, and `Render`, the targets of
routes.toml. A refusal is a refusal whatever its message. `BifrostAccount` is
`account.go`: the table Bifrost is told, built once when the client is;
`Carries` says whether Bifrost would take a request by it. `ModelLists` is the two
list surfaces, the retrieve and the alias rules; `ProviderLists` the fetches:
a history gives a provider's answer to each request of one fetch, so a fetch is
one step that sees the list change under it; `Pages` is what it has after each
request. `Routing` runs them: load, new
client, refresh, allow, lose the inventory, restart. A request reads one
snapshot, so its answer (`SlotAnswer`, `serveModelsList`, `serveModelRetrieve`)
is a function of the state and the invariants quantify over requests. Model ids
are sequences of segments, so that prefixes, doubled prefixes and bare aliases
are what they are in the code; white space is not modelled.

### ModelCatalog and AllowList

Passes, list requests and allow requests are tasks with a program counter; each
action is one critical section, one file operation or one provider call:
`Get`, `Dial`, `Keep`, `Put`, `FlushTake`, `Save` for the inventory; `Lock`,
`ReadOverlay`, `WriteOverlay`, `LoadSnapshot`, `Swap`, `Answer` for an allow.
`writeMu` is `writer`; the overlay's file lock is `locked`; the registry's
atomic pointer is `reg`, whose compare-and-swap is `Swap`. Versions count puts.
There is one backend with a gate that syncs; whether a cached list is fresh is
open whenever it is read; the code's roll-back of the overlay after a registry
refusal cannot be reached here, since the backend exists.

`AllowList` says the same without files: a gateway starts with what it was
configured and promised, and with no more than what was granted beside it; a
request asks for a model, a model that is asked for is granted, one that is
granted is allowed, and one that is allowed is promised to whoever asked. So what
was promised passes the gate for good, and what neither the config names nor an
operator asked for never does. `KeepsPromise` is the refinement (`running <-
alive, asked <- Wanted`, the models of the requests under way, `granted <-
overlay, allowed <- reg, promised <- acked`).

### Lifecycle

`phase` is where `ListenAndServe` is. `Boot`, `Die` and `StartPass` of
`ModelCatalog` happen inside its steps, in the code's order: `createShared`
builds what loads the disk copy, the deferred calls of every early return are
`WaitRefresh` and `Close`. Switchyard's config and the credential probes are one
step that may fail.

## 3. Runs

| Run | Shows | Instance | Distinct states |
|---|---|---|---|
| `batch_service` | files and records stay whole, nothing in use is removed, only an open batch is finalised; the record against the provider's job: outcomes, cancels, jobs that still run | 2 gateways with a request each, 3 files, `claude` and `openrouter` | 1.2 M |
| `batch_service_requests_end` | every request ends; the lifecycle implements `StoreSpec`, so it calls the store as the store's theorems assume | the same with 1 file, fair | 0.1 M |
| `batch_reopened` | a comment the code does not keep (section 5) | | violation |
| `batch_lines` | what is stored can be told apart and run as one batch, nothing is sent twice, every line of the collected answer is in one file once, the outcome is what that answer says | all 3 providers, files of up to 2 lines odd in one way each, one of 3 | 0.16 M |
| `key_store` | no write undoes another, no request is decided on an outdated file, an upgrade never brings a rotated secret back | 2 commands, 2 requests, 1 gateway | 0.6 M |
| `board` | closed means trusted, it opens only for three failed or charged calls in a row, and a backend that stays well and is charged no more is served again | 4 callers, 1 backend | 0.1 M |
| `chat_stream` | one answer with nothing lost; a failure charged to the provider is one it reported; the stream ends and leaves no goroutine | 2 choices, 3 chunks, queue of 1 | 0.1 M |
| `routing` | the load's promises hold later, what is dialled is carried, list, retrieve and dispatch agree but for the borrowed ids, allowed models last, a list cut off by a failed request is never cached as whole (three exceptions, section 5) | about 1,000 configs and environments, a page of one entry, two pages at most, any request of a fetch failing | 33 k |
| `model_catalog` | the promise of `AllowList` is kept both ways, the disk copy never goes back and is the cache when all is quiet | 2 models, 2 requests, the loop, 3 puts | 2.2 M |
| `lifecycle` | the router is closed last and always; a gateway told to stop is gone | 1 model, 1 request, the loop, 3 puts | 69 k |
| `outbound` | what must not be repeated is not, bodies are closed, the caller hears the truth, quota refusals stay visible, the breaker recovers | 2 calls, one retried and one of each other mode, 1 retry, trip at 2 | 0.5 M |
| `requests` | every fault is charged and no answer is (what is charged beside it, `BlameIsJust` names), statuses are true, deadlines are fair, refusals are earned | 2 callers, 4 kinds of backend, 4 timeouts blocks (one refused), a header below, above or absent, 23 replies; trip at 2, Cloudflare's own breaker at 1 | 0.4 M |

Why these bounds are enough. Two gateways with one request each, sharing one
batch, are the smallest instance in which every race of the batch code happens:
each property relates one record (or file) to at most two requests. Three files
are an input, an output and an error file; `claude` can cancel, `openrouter`'s
jobs can close (what Cloudflare's can do is a subset). `batch_lines`: ids are
told apart in pairs, so two lines reach every refusal; three let results arrive
out of order with one missing. `key_store`: two writers race with a request that
fills the cache and one that upgrades; one key is the limit and two names make it
reachable; two draws are a key and its rotation. Inodes are reused, which is what
makes a size and an inode alone a bad cache key. `board`: three callers to open
the breaker and one that began before. `chat_stream`: the writer, the queue (of
one; sixteen in the code) and the producer each hold a chunk and the producer has
to wait; the five chunks are those the contract tells apart. `routing`: the
inputs vary one axis at a time around a base config of four backends, since each
check of the code reads one slot, router or backend and the names they share; the
lists are fetched where they say something of the slot under test; a page is one entry and a client asks for two, so a list fits, overflows, breaks
off or changes in the middle. `model_catalog`: two requests for different or the
same model race on both stores; three puts give a flush something older and
something newer. `outbound`: one retry is the first and the last; a breaker that
trips at two tells a run from a single fault. `requests`: two callers fill and
empty a breaker that trips at two; the inner breaker opens at one fault, since the
requests only see that it refuses (`outbound` is where its count is checked).

Symmetry is used in the runs that check no liveness, over interchangeable files,
gateways with their requests, models, names, draws and callers. Deadlock is not
checked where the system may stop: a finished stream, a finished batch.

Fairness. `BatchService`: weak fairness of each request's own steps; a request
runs on its own goroutine, its wait for the lock is bounded by `lockWait`, and
its provider calls carry a deadline. Nothing is assumed of the provider, of the
clock, or of new requests. `Board`: a call ends (it carries a deadline), the open
delay passes, and each caller keeps coming (strong: it may be busy in between);
the last is an assumption on the traffic, without which nobody would try the
backend again. `Outbound`: the same, and that an attempt whose context ended
returns and a wait is over, which `http.Client` and the library's timer do.
`ChatStream`: the goroutines and the timer run, a provider ends its stream once
its context has ended, and a write returns (section 5). `Lifecycle`: the
process's goroutines run, the drain's timer fires, and of a tick and a cancel
that are ready again and again the cancel is taken at last (strong; Go's select
picks at random). Nothing makes a signal come or a listener fail.

## 4. Proofs

Nothing is assumed but what each module says of its constants
(`StoreAssumption`, `LinesAssumption` and so on), each of which TLC evaluates in
the runs.

`BatchServiceProofs` first proves of the store, for any sets of callers, gateways,
files and batches (`StoreAssumption`), the inductive invariant `StoreInv`:

* `StoreTypeOK`, and `LockHeld`: exactly the holder of the lock is in a
  critical section;
* `DiskOK`: content, records and input files are drawn ids, and an open record
  names no outputs;
* `CallOK` for each caller: which fields its step has set (`ShapeOK`), that a
  record to be put satisfies the contract (`PutOK`), that a file being saved
  has content and no metadata and is named by nobody (`SavingOK`), that files
  being removed are named by nobody (`RemovingOK`), and that a finalisation's
  copy is the stored record plus files that are saved (`FinalizingOK`).

`FilesAreWhole` is not inductive alone: a delete removes a file some steps after
its check, so the invariant must say that the check still holds, which in turn
needs that no other critical section is under way. The invariant is preserved
by each action (one lemma each); the theorems follow.

It proves `Spec => StoreSpec` (each step of the lifecycle is
a step of the store under its contract, or leaves the store alone), hence that
every store theorem holds under the lifecycle, and the lifecycle's type
invariant.

It then proves the lifecycle's own safety properties, `OutcomeMatchesProvider`,
`CancelIsReal` and `RunningJobIsTracked`, from two more invariants. They are needed
because a request writes the copy it read some steps before, over whatever is
stored by then, so a property of the stored records must be one of every copy
under way as well. `Truth`: each record, stored or carried, is `Believable` of the
provider's job (a reference only to a job that exists, `cancelling` and
`cancelled` only after a cancel), which stays so as the job goes on (`Grows`);
the patch of a finalisation says what the ended job said, and its copy names the
files it has saved (`NamesTrue`). `Track`: one create at a time owns a batch, from
its reservation to the store's answer about the reference, and a write without a
reference that is still under way is of a batch that was never submitted and that
nobody can submit any more, expires it, or was counted as lost (`PutTracked`); so
no late write takes the reference of a running job away.

`KeyStoreProofs` proves the properties of `key_store`, the limit on keys and the
types for any number of commands, requests, gateways, names and draws and any
limit of at least one key (`KeyStoreAssumption`). Its invariant `KeyInv` has two
halves. Writers: exactly the holder of the lock is between its read and its
write, so the keys it is about to write differ from the file in its own key
only, and their number is within the limit. Readers take no lock, so for them
the invariant orders versions: what a request's stat reported is no newer than
the copy cached under it, which is no newer than the file; a cached copy whose
stat equals the request's is therefore at least as new as the version the
request began under.

`BreakerProofs` proves, of `Board`, the safety properties of `board`, and that a
half-open breaker has its trial in flight, for any callers and backends and any trip
count. `ClosedMeansTrusted` and `OpensOnlyForStreak` are not inductive: they
speak of the breaker's state and of a count of calls that the breaker does not
keep. `BoardInv` ties the two together: what the window of a closed breaker ends
with is a fault for each charged call since the last that was not, as far as the
window reaches, and `streak` is no more than `charged` (`StreakOK`), since what
the backend fails is always charged (`FaultIsCharged`).

Of `Outbound` it proves the types and the four safety properties of `outbound` for
any calls, retries, modes and faults to trip on (`OutboundAssumption`). Its invariant
`InPlace` says what each point of a call implies: bodies and responses are one and
the same count, an attempt begins with nothing held, only a fault that may be
retried waits, and a paid call's 429 is over without an error. For
`QuotaStaysVisible` the last result of the breaker's window is that of the call
just recorded (`KeptIsShort`), so a success never trips it, whatever the window
holds.

`ChatStreamProofs` proves `OneAnswer`, `LegalStream` and `FaultIsReal` for any
set of chunks, any choices, any queue and any number of chunks sent. `StreamInv`
says of each stage of the forwarder what may be on the wire by then: nothing
before the headers, only chunks until it is done (`AnswerOK`); that every choice
a written chunk ends is one the contract remembers as finished (`FinishedOK`),
from which the next chunk touches none of them; and that a provider's error
exists wherever the forwarder acts on one (`ErrorOK`).

`FaithfulStream` needs one thing more. `Legals(s)[n]` is what the contract leaves
of the first `n` chunks, a recursive function of `n`; the invariant `Faith` says
that for some `n` the forwarder has taken the first `n` chunks sent (the rest lie
in the queue and in the producer's hands, but for one it gave up, `Position`), and
that the wire is `Legals(sent)[n]`, up to the chunk being written (`WireIs`). A
step of the forwarder takes `n` to `n + 1`; a step of the provider makes `sent`
longer, which does not change what is left of a shorter prefix.

`LifecycleProofs` proves of the catalog, for any models, configured list, number of
goroutines and bound on puts (`CatalogAssumption`): the types; that an
acknowledged model is kept and, while a process runs, allowed; `SavedWhenQuiet`,
`DiskNeverOlder`; and `KeepsPromise`. Three invariants carry it. `TInv`: nobody
is at work while no process runs, and a request past its gate is about a model.
`KInv`: only the holder of the file lock is between its read and its write, and
what it read is still in the file (`HolderReads`), so no write takes a model
away; a request goes to the registry with its model in the file and answers with
it in the registry (`KeptBeforeAllowed`); the registry grows within what is kept
(`RegistryGrows`), which is what the config names and what was asked for.
`SInv`: only the holder of `writeMu` is about to write, and its copy lies between
the file and the cache (`Writing`), and is the cache unless it is dirty again. For the refinement a boot is `Start` (the overlay holds what
was promised), the start or end of a request `Ask`, the overlay's write `Grant` (by
a request that still wants the model, `WantedOfStep`), a swap `Allow`, an answer
`Promise`, a death `Stop`; every other step stutters.

It then proves for the same constants that each step of the process is
one of the catalog or leaves it alone, hence that the promise and `DiskNeverOlder`
hold over starts, drains and crashes, and `RouterClosesLast`. Its invariant
`LInv` says, phase by phase, where the router, the loop and the requests are:
requests come with the port and go with the drain, the loop runs from the start
of the port's business to its wait, and the router is open wherever somebody may
use it.

`RequestsProofs` proves the four properties of `requests` for any callers, kinds of
backend, timeouts blocks, headers, replies an upstream may give (`Reply`) and trip
counts (`RequestsAssumption`). It has three parts. Errors: `Fair(e, why)` says that
a code fits what happened (a fault is `unavailable` and not a 4xx, a throttle is
`rate_limited`, ...); each mapping of `UpstreamErrors` makes fair errors of the
replies (`ReplyIsFair`), and so do an ended context and a local failure, whatever
layers they cross (`ContextIsFair`); from a fair error the status and the verdict
follow. Budgets: clamping keeps a budget within the bounds of a block that was
accepted, and only a caller's header can make it shorter than the kind's own.
Breaker: `RefusalsAreEarned` compares a window that keeps `Trip` results of calls
ending in any order with `streak`, a count the breaker does not keep, and is not
inductive; `StreakCovers` says of each `k` that if the last `k` results are faults,
the last `k` calls were not answered.

`BatchLinesProofs` proves the three properties of `batch_lines` for any ids and
models and for input files of any length (`LinesAssumption`, `InputsAssumption`).
By induction on the lines read, a file that is accepted has no id twice, one model
and no flaw the parser refuses. `LinesInv` says of each status of the record what
the request in progress, the job and the files can be by then: nothing was sent
before the submit (`Unsent`), the provider reports lines of what it was sent only
(`JobFits`), and files, once there are any, are what `BuildOutput` makes of the
results the job had told when it was asked, all of them for Claude and OpenRouter
(`FilesFit`), with one line for each id. The counts of
the record are then cardinalities of sets of ids, and add up to no more than the
lines of the file.

`RoutingProofs` proves the five invariants of `routing`, and the types, for any
backends, inputs of the operator, answers of the providers and allow requests.
What the constants are is stated in `Routing`: texts and model ids
(`WordsAssumption`, `IdsAssumption`), config files with typed fields
(`InputsAssumption`), histories that begin with some answer
(`UpstreamAssumption`), and requests for model ids (`AskedAssumption`). About
text one thing is assumed: two ways to build a target's name within one router
do not build the same name (`TextsApart`: `n_capable` is not `n_efficient`, and
different positions of a fallback have different names); the provers know
nothing of joined strings. The names of different routers are told apart by what
`validateRouters` checked, not by an assumption.

The invariant `IInv` relates the tables to the config they came from:

* `RegInv`: the registry is what a load makes of the accepted input with more
  allowed models and no other change (`Grown`), so whatever the load checked that
  only more allowed models can improve still holds; `AccountInv`: Bifrost's
  account, made once, has the same backends up to their allow lists.
* `AllowInv`: a backend's allow list is the one a restart would make of the file
  and the overlay (`Allowed`), and `AckedInv`: what was answered with success is
  in it. `AllowedIsServed` is not inductive, since a restart throws the registry
  away; these two say that nothing is lost by it.
* `CacheInv`: what was listed all through a fetch is in the list that was cached,
  and `GatedInv`: so are the allowed models its provider lacks.

Three results carry the rest. A load, a composition of a dozen functions, makes a
config out of any input and adds no backend or router (`LoadedOK`). A fetch that
is not cut off brings every model the provider had throughout
(`AnthropicComplete`, `CloudflareComplete`): by induction on the pages, such a
model has been read or is after the cursor (below the pages read), because the
provider keeps its order and, for page numbers, takes nothing away (`Orderly`,
which is what `CachedIsComplete` asks of it). And each listed id came from a
router, from the inventory of a backend or from the environment
(`EverythingComesFrom`), from which what the retrieve collects for one backend
has it too (`FoundAlone`), and the dispatch sends it where the list meant; a bare
id is dialled as the default of the endpoint whose default's list brought it
(`AliasesAreServed`). The ids for which the code itself disagrees are excepted by
name, `Borrowed`, and an endpoint promises nothing of another endpoint's alias.

The proof attempts found corners that the run's instance does not have and that
the properties now name. A backend called `switchyard` is replaced in Bifrost's
account (`DialIsCarried`). A model asked for under an id that repeats its
backend's name (`b/b/m`) is read as `b/m` by one comparison and as `m` by
another: it is listed under the name once more, and may stand in the way of
other entries (`Repeats` in `AllowedIsServed`). An Anthropic page that ends in a
blank id ends the list (`Orderly`). An id that starts with `router/` on the
SystemOne list stands for itself (`ListedDecisionIsServed`).

The inductions over data (`Legals`, `Readings`, `Pages`) are over recursive functions
of a natural number. The library's induction theorems take an operator as a
parameter and cannot be used; each proof takes the least number for which the
statement fails instead (`NatMin`, from `NatLessThanWellFounded` and `WFMin`).

Only model-checked: liveness (`RequestsEnd`, `Recovers`, `DependencyRecovers`,
`StreamEnds`, `StopsWhenTold`), which is out of the proof system's reach with the
fairness it rests on. Every safety property of every passing run is also a theorem.

## 5. What the comments say and the code does not do

Checked (`batch_reopened`): `batch/types.go:48`, a terminal state never changes; a
request that read the record before writes its copy back over it
(`gateway/batches/service.go:208, 245, 316`). A completed record put back as
cancelling is open, and a refresh finalises it again with outputs of its own:
`batch/finalize.go:28`'s "at most once" holds between the finalisers of one open
record (`FinalizedFromOpen`), not for a batch.

Met while modelling, and kept in the models as the code has them:

* Batches. A failed finalisation can leave a file under `files/`
  (`batch/finalize.go:83` against 61-62). A refresh that read `in_progress`
  finalises a batch that is cancelling by now as completed or failed
  (`gateway/batches/service.go:271` against 256-257). A batch can expire without
  a cancel while its create still waits for the provider (180 against 176-177).
  `batch/store.go:196` says a delete is refused for an *active* batch's files, and
  the scan counts every batch. Create reads its input without the lock
  (`gateway/batch.go:100`): the file may be gone when the record is stored.
* Batch lines. The endpoint is trimmed by `ParseBatchJSONL` only, so a padded one
  is refused by Claude's Validate and fails at Cloudflare's Submit, after the
  batch was stored; an embeddings line with several texts passes Validate and
  fails at Submit (`gateway/batches/submitter.go:40`: rejected "before anything is
  stored"). An OpenRouter success with a `null` body panics in `relabelModel`
  (`gateway/batches/openrouter.go:135-144`), so that batch is never collected (no
  property asks that it is); a body that is no object is written as a success,
  where line 134 has it that `BuildOutput` reports it. Responses of Workers AI are
  taken as all there will be, whatever status is beside them
  (`clients/cloudflare/batch.go:298`). Error types of Claude and
  OpenRouter are passed on (`batch/output.go:9-10`: "the vocabulary stays one").
  A bare Workers AI vector fails to decode. A batch slot whose default backend is
  none of the three kinds loads, and each create is refused.
* Streams. The idle timer also runs while a write waits for a slow client, which
  counts as the backend's timeout (`gateway/chat_transport.go:221` against
  259-260); there is no write timeout (`gateway/lifecycle.go:53`), so a client
  that never reads keeps its handler; a hang-up just before the limit is taken
  for a timeout (167).
* Lists. `CachedIsComplete` has three exceptions (`Owed`, `Orderly`). OpenRouter's
  decision models are fetched even when the list's fetch failed, and then replace
  the cached list (`gateway/models.go:378-384` against 366-367). Cloudflare's page
  numbers can skip a model when another goes away between two pages, and any
  pages one that moves. An Anthropic answer with `has_more` and no `last_id` is
  taken as complete. The OpenAI list shows decision models the gate refuses
  while the systemone slot is off (`gateway/models_helpers.go:40`). List, retrieve
  and dispatch disagree on two sorts of ids. A borrowed id (`Borrowed` in `Routing`) is
  listed for one backend's model and taken for another's: it can neither be
  retrieved nor dialled at the backend that has it (`gateway/apicatalog.go:166-184`,
  `gateway/models.go:272-276`), and the dedupe of `gateway/apicatalog.go:222` is
  true for the SystemOne default only. A bare id of the OpenAI list stands for the
  default of the endpoint whose list brought it, and another endpoint sends it to
  its own: the embed default's alias on the chat endpoint goes to the chat
  default. The alias of a backend that is only the SystemOne or the proxy default
  is served by no endpoint of that list.
* Routing. A typesafe backend without a base_url is accepted at load and refused
  by the registry (`gateway/router/policy.go:31` against
  `config/router_config.go:138`). A composed router is accepted while the chat
  slot is off. A leaf that repeats its backend's name validates and is refused at
  dispatch. A backend called `switchyard` is shadowed in the account. Speech
  without a model dials POLYPUS_DEFAULT_MODEL past the allow gate, and resolves
  its backend twice. A slower pass with an older list can land after an allow's
  (`gateway/admin_allow.go:211`).
* Calls. What a caller ends can be charged to the backend: a deadline it cut short
  or a hang-up comes back from Bifrost without a code and becomes unavailable
  (`gateway/router/client.go:913-927`), and so does a body that could not be read
  to its end; and the idle timer runs while a client is slow to read. All are
  against `gateway/upstream/board.go:159-160, 171-173` and
  `config/timeouts.go:19-22`. `Board` (`lost`) and `Requests` (`BlameIsJust`) have
  it as it is. A dependency that hangs never opens the
  outbound breaker, and 429s on retried calls open the one shared with paid
  calls. `Do` says "deadline during retries" also when the context ended just
  after a permanent answer.
  `ProviderSeconds` truncates. `gateway/upstream/board.go:90-91` says the
  breaker's state is read at refusal time, and it is read after it.
* Keys. Two writes in one tick of a coarse clock, with one size and a reused
  inode, would leave a stale cache (`admin/keys/store.go:329`).

## 6. Not modelled

* Text: YAML and TOML syntax, JSON bodies beyond the classes the code tells apart,
  message wording, HTML pages, API docs. Nothing but their wording depends on
  them.
* `deploy/`, `smoke/`, `cli/`, `observability/`, `clients/github`,
  `clients/registry`: sequences of external commands and reports, without shared
  state; what they do is decided by the commands.
* The breaker reports of the health page: a snapshot of what `Board` keeps.
* The translation of each provider's model fields, and of chat bodies between
  OpenAI's form and the others': Bifrost's or field by field.
* Time as a quantity, outside `Timeouts`: a deadline, a delay or a freshness limit
  is an event that may come.
