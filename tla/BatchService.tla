---------------------------- MODULE BatchService ----------------------------
(***************************************************************************)
(* The batch lifecycle (internal/gateway/batches/service.go) over the      *)
(* store and the providers: create, refresh, finalise and cancel, with the *)
(* file requests that run beside them.                                     *)
(*                                                                         *)
(* A request reads a record without the lock, may call the provider, and   *)
(* writes the copy it read back through the store: those are three steps   *)
(* at least, and other requests run in between.  Requests never end by     *)
(* themselves elsewhere: a provider call always answers (its context has a *)
(* deadline), an unanswered one as an error.                               *)
(***************************************************************************)
EXTENDS BatchStore

ASSUME ServiceAssumption ==
  /\ Backends \subseteq {"claude", "openrouter", "cloudflare"}
  /\ PutRecords = PutRecord
  /\ Patches = FinalizePatch

VARIABLES
  req,     \* what each request is doing in the service
  job,     \* the provider's batch behind each record
  past,    \* batches whose completion window is over
  lost,    \* history: jobs whose acceptance no gateway saw or lived to record
  logged   \* upstream references logged for recovery by hand

serviceVars == <<req, past, lost, logged>>
vars == <<storeVars, serviceVars, job>>

-----------------------------------------------------------------------------
(* The provider. *)

JobState == {"none", "running", "ended", "failed", "expired", "cancelled"}

(* ok and err: an ended job has lines that succeeded, lines that did not.  *)
Job == [state : JobState, ok : BOOLEAN, err : BOOLEAN, cancelAsked : BOOLEAN]
NoJob == [state |-> "none", ok |-> FALSE, err |-> FALSE, cancelAsked |-> FALSE]

(* How a job may end without lines to collect, as the submitters report it.*)
Closings(backend) ==
  CASE backend = "openrouter" -> {"failed", "expired", "cancelled"}
    [] backend = "cloudflare" -> {"failed"}
    [] OTHER -> {}

AcceptJob(b) ==
  /\ job[b].state = "none"
  /\ job' = [job EXCEPT ![b].state = "running"]

(* Only Message Batches can be cancelled; a call that names no job fails.  *)
CancelJob(rec, b) ==
  /\ rec.backend = "claude"
  /\ rec.ref
  /\ job[b].state = "running"
  /\ job' = [job EXCEPT ![b].cancelAsked = TRUE]

(* A cancel that failed for the caller: the provider may have taken it.    *)
CancelUnanswered(rec, b) == CancelJob(rec, b) \/ UNCHANGED job

JobEnds(b) ==
  /\ job[b].state = "running"
  /\ \E ok, err \in BOOLEAN :
       job' = [job EXCEPT ![b].state = "ended", ![b].ok = ok, ![b].err = err]
  /\ UNCHANGED <<storeVars, serviceVars>>

JobCloses(b) ==
  /\ job[b].state = "running"
  /\ \E st \in Closings(recs[b].backend) : job' = [job EXCEPT ![b].state = st]
  /\ UNCHANGED <<storeVars, serviceVars>>

-----------------------------------------------------------------------------
(* Requests. *)

Pc == {"idle", "save", "submit", "answer", "record", "orphan",
       "refresh", "expire", "cancel", "finish"}

Request == [pc : Pc, batch : Batches \cup {NoBatch}, rec : Meta]
NoRequest == [pc |-> "idle", batch |-> NoBatch, rec |-> Absent]

(* The last store call is under way; its answer ends the request. *)
Finishing == [NoRequest EXCEPT !.pc = "finish"]

TypeOK ==
  /\ StoreTypeOK
  /\ req \in [Callers -> Request]
  /\ job \in [Batches -> Job]
  /\ past \subseteq Batches
  /\ lost \subseteq Batches
  /\ logged \subseteq Batches

Init ==
  /\ StoreInit
  /\ req = [p \in Callers |-> NoRequest]
  /\ job = [b \in Batches |-> NoJob]
  /\ past = {}
  /\ lost = {}
  /\ logged = {}

Goto(p, r) ==
  /\ req' = [req EXCEPT ![p] = r]
  /\ UNCHANGED past

(* Slip: the record is written past the store's lock.                      *)
StoreUnlocked(p, rec, r) ==
  /\ recs' = [recs EXCEPT ![req[p].batch] = rec]
  /\ Goto(p, r)
  /\ UNCHANGED <<content, fmeta, issued, lock, call>>

(* The request stores rec; r says what it does with the answer. *)
Store(p, rec, r) ==
  /\ StartPut(p, req[p].batch, rec)
  /\ Goto(p, r)

(* The request ends without another store call. *)
GiveUpRequest(p) ==
  /\ Goto(p, NoRequest)
  /\ UNCHANGED storeVars

Upload(p) ==
  /\ req[p] = NoRequest
  /\ StartUpload(p)
  /\ Goto(p, Finishing)
  /\ UNCHANGED <<job, lost, logged>>

Delete(p, f) ==
  /\ req[p] = NoRequest
  /\ StartDelete(p, f)
  /\ Goto(p, Finishing)
  /\ UNCHANGED <<job, lost, logged>>

Finish(p) ==
  /\ req[p].pc = "finish"
  /\ Return(p)
  /\ Goto(p, NoRequest)
  /\ UNCHANGED <<job, lost, logged>>

-----------------------------------------------------------------------------
(* Create: read the input's content, store the batch, submit it once,      *)
(* record the provider's answer.                                           *)

NewBatch(f, k) == [Absent EXCEPT !.status = "validating", !.input = f, !.backend = k]

Create(p, b, f, k) ==
  /\ req[p] = NoRequest
  /\ f \in content
  /\ recs[b].status = "absent"
  /\ \A q \in Callers : req[q].batch # b
  /\ StartPut(p, b, NewBatch(f, k))
  /\ Goto(p, [pc |-> "save", batch |-> b, rec |-> NewBatch(f, k)])
  /\ UNCHANGED <<job, lost, logged>>

SavedBatch(p) ==
  /\ req[p].pc = "save"
  /\ Return(p)
  /\ Goto(p, IF call[p].at = "ok" THEN [req[p] EXCEPT !.pc = "submit"] ELSE NoRequest)
  /\ UNCHANGED <<job, lost, logged>>

(* The provider takes the job; its answer is still on the way.             *)
Submit(p) ==
  /\ req[p].pc = "submit"
  /\ AcceptJob(req[p].batch)
  /\ Goto(p, [req[p] EXCEPT !.pc = "answer"])
  /\ UNCHANGED <<storeVars, lost, logged>>

SubmitAccepted(p) ==
  LET rec == [req[p].rec EXCEPT !.ref = TRUE, !.status = "in_progress"] IN
  /\ req[p].pc = "answer"
  /\ Store(p, rec, [req[p] EXCEPT !.pc = "record", !.rec = rec])
  /\ UNCHANGED <<job, lost, logged>>

(* Refused by the breaker or the provider, or never sent; or else taken,   *)
(* and the answer did not arrive.                                          *)
SubmitFailed(p) ==
  /\ \/ /\ req[p].pc = "submit"
        /\ UNCHANGED lost
     \/ /\ req[p].pc = "answer"
        /\ lost' = lost \cup {req[p].batch}
  /\ Store(p, [req[p].rec EXCEPT !.status = "failed"], Finishing)
  /\ UNCHANGED <<job, logged>>

(* Slip: a failed save of the reference is ignored.                        *)
RecordedOrNot(p) ==
  /\ req[p].pc = "record"
  /\ Return(p)
  /\ Goto(p, NoRequest)
  /\ UNCHANGED <<job, lost, logged>>

Recorded(p) ==
  /\ req[p].pc = "record"
  /\ Return(p)
  /\ Goto(p, IF call[p].at = "ok" THEN NoRequest ELSE [req[p] EXCEPT !.pc = "orphan"])
  /\ UNCHANGED <<job, lost, logged>>

(* Slip: the cancel is tried until the provider takes it.                  *)
CancelOrphanAtAllCosts(p) ==
  /\ req[p].pc = "orphan"
  /\ CancelJob(req[p].rec, req[p].batch)
  /\ GiveUpRequest(p)
  /\ UNCHANGED <<lost, logged>>

(* cancelOrphan: the record could not be saved, so the job is cancelled,   *)
(* or its reference is logged when that fails too.                         *)
CancelOrphan(p) ==
  /\ req[p].pc = "orphan"
  /\ \/ /\ CancelJob(req[p].rec, req[p].batch)
        /\ UNCHANGED logged
     \/ /\ CancelUnanswered(req[p].rec, req[p].batch)
        /\ logged' = logged \cup {req[p].batch}
  /\ GiveUpRequest(p)
  /\ UNCHANGED lost

-----------------------------------------------------------------------------
(* Refresh: a copy of the record is read, and an open one is expired or    *)
(* polled.                                                                 *)

Refresh(p, b) ==
  /\ req[p] = NoRequest
  /\ recs[b].status \in OpenStatus
  /\ Goto(p, [pc |-> "refresh", batch |-> b, rec |-> recs[b]])
  /\ UNCHANGED <<storeVars, job, lost, logged>>

PastWindow(p) == req[p].batch \in past /\ req[p].rec.status # "cancelling"

Expired(p) == [req[p].rec EXCEPT !.status = "expired"]

(* A batch with no upstream reference is expired without a cancel.         *)
Expire(p) ==
  /\ req[p].pc = "refresh"
  /\ PastWindow(p)
  /\ IF req[p].rec.ref
     THEN /\ Goto(p, [req[p] EXCEPT !.pc = "expire"])
          /\ UNCHANGED storeVars
     ELSE Store(p, Expired(p), Finishing)
  /\ UNCHANGED <<job, lost, logged>>

CancelExpired(p) ==
  /\ req[p].pc = "expire"
  /\ CancelUnanswered(req[p].rec, req[p].batch)
  /\ Store(p, Expired(p), Finishing)
  /\ UNCHANGED <<lost, logged>>

Polling(p) == req[p].pc = "refresh" /\ ~PastWindow(p)

(* The poll fails (any error; always one for an empty reference) and the   *)
(* last-known record is answered.                                          *)
PollMisses(p) ==
  /\ Polling(p)
  /\ GiveUpRequest(p)
  /\ UNCHANGED <<job, lost, logged>>

PollRunning(p) ==
  /\ Polling(p)
  /\ req[p].rec.ref
  /\ job[req[p].batch].state = "running"
  /\ IF req[p].rec.status = "validating"
     THEN Store(p, [req[p].rec EXCEPT !.status = "in_progress"], Finishing)
     ELSE GiveUpRequest(p)
  /\ UNCHANGED <<job, lost, logged>>

PollClosed(p) ==
  LET state == job[req[p].batch].state IN
  /\ Polling(p)
  /\ req[p].rec.ref
  /\ state \in {"failed", "expired", "cancelled"}
  /\ Store(p, [req[p].rec EXCEPT !.status = state], Finishing)
  /\ UNCHANGED <<job, lost, logged>>

(* Slip: a batch whose lines all failed is completed.                      *)
OutcomeCompleted(rec, j) ==
  [status |-> IF rec.status = "cancelling" THEN "cancelled" ELSE "completed",
   ok |-> j.ok,
   err |-> j.err]

(* The terminal status is decided by the copy this request read. *)
Outcome(rec, j) ==
  [status |-> IF rec.status = "cancelling" THEN "cancelled"
              ELSE IF j.err /\ ~j.ok THEN "failed" ELSE "completed",
   ok |-> j.ok,
   err |-> j.err]

PollDone(p) ==
  LET b == req[p].batch IN
  /\ Polling(p)
  /\ req[p].rec.ref
  /\ job[b].state = "ended"
  /\ StartFinalize(p, b, Outcome(req[p].rec, job[b]))
  /\ Goto(p, Finishing)
  /\ UNCHANGED <<job, lost, logged>>

-----------------------------------------------------------------------------
(* Cancel: the provider is asked first, then the copy is stored as         *)
(* cancelling.                                                             *)

Cancel(p, b) ==
  /\ req[p] = NoRequest
  /\ recs[b].status \in {"validating", "in_progress"}
  /\ Goto(p, [pc |-> "cancel", batch |-> b, rec |-> recs[b]])
  /\ UNCHANGED <<storeVars, job, lost, logged>>

(* Slip: the record is cancelling whatever the provider answers.           *)
CancelRegardless(p) ==
  /\ req[p].pc = "cancel"
  /\ CancelUnanswered(req[p].rec, req[p].batch)
  /\ Store(p, [req[p].rec EXCEPT !.status = "cancelling"], Finishing)
  /\ UNCHANGED <<lost, logged>>

CancelUpstream(p) ==
  /\ req[p].pc = "cancel"
  /\ \/ /\ CancelJob(req[p].rec, req[p].batch)
        /\ Store(p, [req[p].rec EXCEPT !.status = "cancelling"], Finishing)
     \/ /\ CancelUnanswered(req[p].rec, req[p].batch)
        /\ GiveUpRequest(p)
  /\ UNCHANGED <<lost, logged>>

-----------------------------------------------------------------------------
WindowPasses(b) ==
  /\ recs[b].status # "absent"
  /\ past' = past \cup {b}
  /\ UNCHANGED <<storeVars, job, req, lost, logged>>

(* A gateway dies with its requests; a create whose job is not on record   *)
(* takes the reference with it.                                            *)
Dying(g) == {p \in Callers : GatewayOf[p] = g /\ req[p] # NoRequest}

Crash(g) ==
  /\ Dying(g) # {}
  /\ DropCalls(g)
  /\ req' = [p \in Callers |-> IF GatewayOf[p] = g THEN NoRequest ELSE req[p]]
  /\ lost' = lost \cup {b \in Batches :
                         /\ ~recs[b].ref
                         /\ \E p \in Dying(g) : /\ req[p].batch = b
                                               /\ req[p].pc \in {"answer", "record", "orphan"}}
  /\ UNCHANGED <<job, past, logged>>

(* A new request. *)
Begins(p) ==
  \/ Upload(p)
  \/ \E f \in Files : Delete(p, f)
  \/ \E b \in Batches, f \in Files, k \in Backends : Create(p, b, f, k)
  \/ \E b \in Batches : Refresh(p, b) \/ Cancel(p, b)

(* A step of a request that has begun. *)
Continues(p) ==
  \/ StoreStep(p) /\ UNCHANGED <<serviceVars, job>>
  \/ SavedBatch(p) \/ Submit(p) \/ SubmitAccepted(p) \/ SubmitFailed(p)
  \/ Recorded(p) \/ CancelOrphan(p)
  \/ Expire(p) \/ CancelExpired(p)
  \/ PollMisses(p) \/ PollRunning(p) \/ PollClosed(p) \/ PollDone(p)
  \/ CancelUpstream(p)
  \/ Finish(p)

Next ==
  \/ \E p \in Callers : Begins(p) \/ Continues(p)
  \/ \E b \in Batches : JobEnds(b) \/ JobCloses(b) \/ WindowPasses(b)
  \/ \E g \in Gateways : Crash(g)

Spec == Init /\ [][Next]_vars

(* A request runs on its own goroutine, its lock wait and its provider     *)
(* calls are bounded: one that can go on eventually does.                  *)
FairSpec == Spec /\ \A p \in Callers : WF_vars(Continues(p))

-----------------------------------------------------------------------------
(* Correctness. *)

(* A batch that is running or being cancelled carries the reference its    *)
(* provider gave, so it can be polled: Create records the two together,    *)
(* and neither Refresh nor Cancel can move a batch there without one.      *)
RunningHasReference ==
  \A b \in Batches : /\ recs[b].status \in {"in_progress", "cancelling"} => recs[b].ref
                     /\ recs[b].ref => job[b].state # "none"

(* A completed batch has an output file exactly when the provider's job    *)
(* ended with lines that succeeded, an error file exactly when it ended    *)
(* with lines that did not, and is not all errors; an open or expired      *)
(* batch names no output file.                                             *)
OutcomeMatchesProvider ==
  \A b \in Batches :
    /\ recs[b].status = "completed" =>
         /\ job[b].state = "ended"
         /\ job[b].ok \/ ~job[b].err
         /\ (recs[b].out # NoFile) <=> job[b].ok
         /\ (recs[b].err # NoFile) <=> job[b].err
    /\ recs[b].status \in OpenStatus \cup {"expired"} => Outputs(recs[b]) = {}

(* A batch says cancelling or cancelled only when the provider took a      *)
(* cancel for it or cancelled it by itself.                                *)
CancelIsReal ==
  \A b \in Batches :
    recs[b].status \in {"cancelling", "cancelled"} =>
      job[b].cancelAsked \/ job[b].state = "cancelled"

(* A batch and its job find each other: a job that still runs is never     *)
(* forgotten (its reference is on disk or held by its create, or it was    *)
(* asked to stop, or its reference was logged, or its batch has expired),  *)
(* and RunningHasReference.  Excepted is a job whose acceptance no gateway *)
(* saw or lived to record: nothing in the code can find such a job.        *)
RunningJobIsTracked ==
  RunningHasReference /\ \A b \in Batches :
    job[b].state = "running" =>
      \/ recs[b].ref
      \/ \E p \in Callers : /\ req[p].batch = b
                            /\ req[p].pc \in {"answer", "record", "orphan"}
      \/ job[b].cancelAsked
      \/ b \in logged
      \/ b \in lost
      \/ recs[b].status = "expired"

(* Every request ends. *)
RequestsEnd == \A p \in Callers : req[p].pc # "idle" ~> req[p].pc = "idle"

(* What a comment in the code claims and the service does not keep.        *)

(* Status.Terminal: a batch in a terminal state never changes again.       *)
TerminalNeverChanges ==
  [][\A b \in Batches :
       recs[b].status \in TerminalStatus => recs'[b].status = recs[b].status]_vars
=============================================================================
