----------------------------- MODULE BatchStore -----------------------------
(***************************************************************************)
(* The gateway's batch store (internal/batch/store.go, finalize.go): the   *)
(* uploaded and produced files and the batch records kept as files under   *)
(* one root directory, which several gateway processes may share.          *)
(*                                                                         *)
(* Every write takes the root's file lock; a read takes none.  A critical  *)
(* section is several file operations, each atomic (write to a temporary   *)
(* file, then rename), and a process may die between any two of them, so   *)
(* each one is a step here.  A caller is one request inside one gateway.   *)
(* Contents are abstracted to their presence, times and counts are left    *)
(* out, and an id is a model value that is never drawn twice.  When no     *)
(* fresh id is left a save fails, as it does on a full disk: that bounds   *)
(* a run by the number of ids.                                             *)
(***************************************************************************)
CONSTANTS
  Callers,    \* requests that call the store
  Gateways,   \* processes sharing the root
  GatewayOf,  \* the process each caller runs in
  Files,      \* file ids
  Batches,    \* batch ids
  Backends,   \* the providers a batch may run on
  PutRecords, \* the batch records callers put
  Patches,    \* the outcomes callers finalise with
  NoFile, NoBatch, NoBackend, NoCaller

VARIABLES
  content,  \* ids with a file under files/content
  fmeta,    \* ids with a metadata record under files
  recs,     \* the batch records under batches
  issued,   \* file ids drawn so far
  lock,     \* the holder of store.lock
  call      \* what each caller is doing in the store

disk == <<content, fmeta, recs, issued>>
storeVars == <<content, fmeta, recs, issued, lock, call>>

-----------------------------------------------------------------------------
(* Records and calls. *)

OpenStatus == {"validating", "in_progress", "cancelling"}
TerminalStatus == {"completed", "failed", "cancelled", "expired"}
Status == OpenStatus \cup TerminalStatus

Meta == [status : Status \cup {"absent"},
         input : Files \cup {NoFile},
         out : Files \cup {NoFile},
         err : Files \cup {NoFile},
         ref : BOOLEAN,                   \* the provider's reference is recorded
         backend : Backends \cup {NoBackend}]

Absent == [status |-> "absent", input |-> NoFile, out |-> NoFile,
           err |-> NoFile, ref |-> FALSE, backend |-> NoBackend]

Outputs(rec) == {rec.out, rec.err} \ {NoFile}
Named(rec) == {rec.input, rec.out, rec.err} \ {NoFile}

(* The outcome a finalisation writes; ok and err say which files it has. *)
FinalizePatch == [status : {"completed", "failed", "cancelled"},
                  ok : BOOLEAN, err : BOOLEAN]
NoPatch == [status |-> "completed", ok |-> FALSE, err |-> FALSE]

(* What the store asks of its callers: a record they put has a status, a   *)
(* backend and an input that was once a file, and names no output file;    *)
(* only a finalisation adds those.                                         *)
PutRecord == {rec \in Meta : /\ rec.status # "absent"
                             /\ rec.backend # NoBackend
                             /\ rec.input # NoFile
                             /\ Outputs(rec) = {}}

ASSUME StoreAssumption ==
  /\ GatewayOf \in [Callers -> Gateways]
  /\ NoFile \notin Files
  /\ NoBatch \notin Batches
  /\ NoBackend \notin Backends
  /\ NoCaller \notin Callers
  /\ PutRecords \subseteq PutRecord
  /\ Patches \subseteq FinalizePatch

Results == {"ok", "skipped", "conflict", "error"}
Locked == {"content", "meta", "check", "remove", "remove_content",
           "put", "read", "commit"}

Call == [op : {"none", "upload", "delete", "put", "finalize"},
         at : {"idle", "wait"} \cup Locked \cup Results,
         slot : {"none", "input", "out", "err"},  \* the file being saved
         file : Files \cup {NoFile},
         batch : Batches \cup {NoBatch},
         rec : Meta,
         patch : FinalizePatch,
         files : SUBSET Files]  \* saved by this call, or still to be removed

NoCall == [op |-> "none", at |-> "idle", slot |-> "none", file |-> NoFile,
           batch |-> NoBatch, rec |-> Absent, patch |-> NoPatch, files |-> {}]

StoreTypeOK ==
  /\ content \subseteq Files
  /\ fmeta \subseteq Files
  /\ issued \subseteq Files
  /\ recs \in [Batches -> Meta]
  /\ lock \in Callers \cup {NoCaller}
  /\ call \in [Callers -> Call]

StoreInit ==
  /\ content = {}
  /\ fmeta = {}
  /\ issued = {}
  /\ recs = [b \in Batches |-> Absent]
  /\ lock = NoCaller
  /\ call = [p \in Callers |-> NoCall]

(* Of a call that is over only its result is left. *)
Over(result) == [NoCall EXCEPT !.at = result]

-----------------------------------------------------------------------------
(* A call begins by waiting for the lock and ends with a result. *)

Begin(p, c) ==
  /\ call[p] = NoCall
  /\ call' = [call EXCEPT ![p] = c]
  /\ UNCHANGED <<disk, lock>>

StartUpload(p) ==
  Begin(p, [NoCall EXCEPT !.op = "upload", !.at = "wait"])

StartDelete(p, f) ==
  Begin(p, [NoCall EXCEPT !.op = "delete", !.at = "wait", !.file = f])

StartPut(p, b, rec) ==
  Begin(p, [NoCall EXCEPT !.op = "put", !.at = "wait", !.batch = b, !.rec = rec])

StartFinalize(p, b, patch) ==
  Begin(p, [NoCall EXCEPT !.op = "finalize", !.at = "wait", !.batch = b, !.patch = patch])

(* The first step inside the lock, for each kind of call. *)
Enter(c) ==
  [c EXCEPT !.at = CASE c.op = "upload" -> "content"
                     [] c.op = "delete" -> "check"
                     [] c.op = "put" -> "put"
                     [] OTHER -> "read",
            !.slot = IF c.op = "upload" THEN "input" ELSE "none"]

Acquire(p) ==
  /\ call[p].at = "wait"
  /\ lock = NoCaller
  /\ lock' = p
  /\ call' = [call EXCEPT ![p] = Enter(@)]
  /\ UNCHANGED disk

(* The wait ends without the lock: held past lockWait, the caller gone, or *)
(* the lock file could not be opened.                                      *)
GiveUp(p) ==
  /\ call[p].at = "wait"
  /\ call' = [call EXCEPT ![p] = Over("error")]
  /\ UNCHANGED <<disk, lock>>

(* Leaves the critical section with a result. *)
Leave(p, result) ==
  /\ lock' = NoCaller
  /\ call' = [call EXCEPT ![p] = Over(result)]

Return(p) ==
  /\ call[p].at \in Results
  /\ call' = [call EXCEPT ![p] = NoCall]
  /\ UNCHANGED <<disk, lock>>

-----------------------------------------------------------------------------
(* Saving files: the content first, its metadata second. *)

(* A finalisation saves the output file, then the error file, then the     *)
(* record; a file with no lines is not written.                            *)
SlotAfter(slot, patch) ==
  IF slot = "none" /\ patch.ok THEN "out"
  ELSE IF slot \in {"none", "out"} /\ patch.err THEN "err" ELSE "none"

Resume(c) ==
  LET next == SlotAfter(c.slot, c.patch)
  IN  [c EXCEPT !.slot = next,
                !.at = IF next = "none" THEN "commit" ELSE "content"]

(* A failed write ends the call; a finalisation first removes the files it *)
(* has saved.                                                              *)
Abort(p) ==
  IF call[p].files = {}
  THEN Leave(p, "error")
  ELSE /\ call' = [call EXCEPT ![p].at = "remove"]
       /\ UNCHANGED lock

SaveContent(p) ==
  /\ call[p].at = "content"
  /\ \/ \E f \in Files \ issued :
          /\ content' = content \cup {f}
          /\ issued' = issued \cup {f}
          /\ call' = [call EXCEPT ![p].file = f, ![p].at = "meta"]
          /\ UNCHANGED <<fmeta, recs, lock>>
     \/ /\ Abort(p)
        /\ UNCHANGED disk

(* The call once the file it was saving is saved: a finalisation names it  *)
(* in the record it will write.                                            *)
Saved(c) ==
  LET out == IF c.slot = "out" THEN c.file ELSE c.rec.out
      err == IF c.slot = "err" THEN c.file ELSE c.rec.err
  IN  [c EXCEPT !.rec = [c.rec EXCEPT !.out = out, !.err = err],
                !.files = c.files \cup {c.file}]

SaveMeta(p) ==
  /\ call[p].at = "meta"
  /\ \/ /\ fmeta' = fmeta \cup {call[p].file}
        /\ IF call[p].op = "upload"
           THEN Leave(p, "ok")
           ELSE /\ call' = [call EXCEPT ![p] = Resume(Saved(@))]
                /\ UNCHANGED lock
        /\ UNCHANGED <<content, recs, issued>>
     \/ /\ Abort(p)
        /\ UNCHANGED disk

-----------------------------------------------------------------------------
(* Removing files: the metadata first, the content second. *)

Referenced(f) == \E b \in Batches : f \in Named(recs[b])

(* Slip: the reference check is forgotten.                                 *)
CheckDeleteUnreferenced(p) ==
  /\ call[p].at = "check"
  /\ call[p].file \in fmeta
  /\ call' = [call EXCEPT ![p].at = "remove", ![p].files = {call[p].file}]
  /\ UNCHANGED <<disk, lock>>

CheckDelete(p) ==
  /\ call[p].at = "check"
  /\ \/ /\ call[p].file \in fmeta
        /\ ~Referenced(call[p].file)
        /\ call' = [call EXCEPT ![p].at = "remove", ![p].files = {call[p].file}]
        /\ UNCHANGED lock
     \/ /\ call[p].file \in fmeta
        /\ Referenced(call[p].file)
        /\ Leave(p, "conflict")
     \/ Leave(p, "error")   \* no such file, or a record cannot be read
  /\ UNCHANGED disk

(* The call after file f is dealt with: the next file, or the result. *)
Removed(p, f, result) ==
  IF call[p].files = {f}
  THEN Leave(p, result)
  ELSE /\ call' = [call EXCEPT ![p].files = @ \ {f}, ![p].at = "remove"]
       /\ UNCHANGED lock

(* Slip: the content is removed first.                                     *)
RemoveContentFirst(p) ==
  /\ call[p].at = "remove"
  /\ \E f \in call[p].files :
       /\ content' = content \ {f}
       /\ Removed(p, f, "ok")
       /\ UNCHANGED <<fmeta, recs, issued>>

(* A metadata record that cannot be removed keeps its content. *)
RemoveMeta(p) ==
  /\ call[p].at = "remove"
  /\ \E f \in call[p].files :
       \/ /\ fmeta' = fmeta \ {f}
          /\ call' = [call EXCEPT ![p].file = f, ![p].at = "remove_content"]
          /\ UNCHANGED <<content, recs, issued, lock>>
       \/ /\ Removed(p, f, "error")
          /\ UNCHANGED disk

RemoveContent(p) ==
  /\ call[p].at = "remove_content"
  /\ \/ /\ content' = content \ {call[p].file}
        /\ Removed(p, call[p].file, IF call[p].op = "delete" THEN "ok" ELSE "error")
        /\ UNCHANGED <<fmeta, recs, issued>>
     \/ /\ Removed(p, call[p].file, "error")
        /\ UNCHANGED disk

-----------------------------------------------------------------------------
(* Batch records. *)

(* SaveBatch and UpdateBatch: whatever is stored is replaced. *)
Put(p) ==
  /\ call[p].at = "put"
  /\ \/ /\ recs' = [recs EXCEPT ![call[p].batch] = call[p].rec]
        /\ Leave(p, "ok")
        /\ UNCHANGED <<content, fmeta, issued>>
     \/ /\ Leave(p, "error")
        /\ UNCHANGED disk

(* Slip: a batch that expired may still be finalised.                      *)
statusAllowsLateFinalize(status) == status \in OpenStatus \cup {"expired"}

statusAllowsFinalize(status) == status \in OpenStatus

(* finalizeLocked re-reads the record under the lock. *)
FinalizeRead(p) ==
  LET rec == recs[call[p].batch] IN
  /\ call[p].at = "read"
  /\ \/ /\ statusAllowsFinalize(rec.status)
        /\ call' = [call EXCEPT ![p] = Resume([call[p] EXCEPT !.rec = rec])]
        /\ UNCHANGED lock
     \/ /\ rec.status \in TerminalStatus
        /\ Leave(p, "skipped")
     \/ Leave(p, "error")   \* no such batch, or it cannot be read
  /\ UNCHANGED disk

FinalizeCommit(p) ==
  /\ call[p].at = "commit"
  /\ \/ /\ recs' = [recs EXCEPT ![call[p].batch] =
                       [call[p].rec EXCEPT !.status = call[p].patch.status]]
        /\ Leave(p, "ok")
        /\ UNCHANGED <<content, fmeta, issued>>
     \/ /\ Abort(p)
        /\ UNCHANGED disk

-----------------------------------------------------------------------------
(* A gateway dies: its calls are gone, the kernel drops its lock, and the  *)
(* disk stays as it was left.                                              *)
DropCalls(g) ==
  /\ call' = [p \in Callers |-> IF GatewayOf[p] = g THEN NoCall ELSE call[p]]
  /\ lock' = IF lock # NoCaller /\ GatewayOf[lock] = g THEN NoCaller ELSE lock
  /\ UNCHANGED disk

StoreCrash(g) ==
  /\ \E p \in Callers : GatewayOf[p] = g /\ call[p] # NoCall
  /\ DropCalls(g)

(* A step of a call between its start and its result. *)
StoreStep(p) ==
  \/ Acquire(p) \/ GiveUp(p)
  \/ SaveContent(p) \/ SaveMeta(p)
  \/ CheckDelete(p) \/ RemoveMeta(p) \/ RemoveContent(p)
  \/ Put(p) \/ FinalizeRead(p) \/ FinalizeCommit(p)

StoreStart(p) ==
  /\ call[p] = NoCall
  /\ \/ StartUpload(p)
     \/ \E f \in Files : StartDelete(p, f)
     \/ \E b \in Batches, rec \in PutRecords : rec.input \in issued /\ StartPut(p, b, rec)
     \/ \E b \in Batches, patch \in Patches : StartFinalize(p, b, patch)

StoreNext ==
  \/ \E p \in Callers : StoreStep(p) \/ Return(p)
  \/ \E g \in Gateways : StoreCrash(g)
  \/ \E p \in Callers : StoreStart(p)

StoreSpec == StoreInit /\ [][StoreNext]_storeVars

-----------------------------------------------------------------------------
(* Correctness. *)

(* A file's metadata never stands without its content, whatever fails or   *)
(* crashes: SaveFile writes the content first and removeFileUnlocked       *)
(* removes the metadata first.                                             *)
MetaHasContent == fmeta \subseteq content

(* Every output file a stored batch names is on disk: it was saved before  *)
(* the record that names it, and DeleteFile and a failed finalisation's    *)
(* clean-up never take it away.                                            *)
OutputsExist == \A b \in Batches : Outputs(recs[b]) \subseteq fmeta

(* What a record names can be listed, and what can be listed can be read.  *)
FilesAreWhole == MetaHasContent /\ OutputsExist

SameButOutputs(r, s) ==
  /\ r.status = s.status
  /\ r.input = s.input
  /\ r.ref = s.ref
  /\ r.backend = s.backend

(* While a finalisation is under way the stored record stays the one it    *)
(* read, for its copy has gained nothing but the outputs: no other writer  *)
(* gets between its read and its write.                                    *)
FinalizeReadsCurrent ==
  \A p \in Callers :
    call[p].op = "finalize" /\ call[p].at \in {"content", "meta", "commit"} =>
      SameButOutputs(recs[call[p].batch], call[p].rec)

(* A file is taken off the disk only while no stored batch names it, as    *)
(* input or output: the check DeleteFile makes still holds when it         *)
(* removes.                                                                *)
InUseNeverRemoved ==
  [][\A f \in (fmeta \ fmeta') \cup (content \ content') : ~Referenced(f)]_storeVars

(* Output files are attached to a batch only while its stored record is    *)
(* open: of several callers that finalise it, in any processes, one does,  *)
(* until somebody stores the record as open again.  A request that writes  *)
(* back the copy it read can (run batch_reopened), and then the batch is   *)
(* finalised a second time: "at most once" (finalize.go:28) is true of the *)
(* finalisers between them, not of the batch.                              *)
FinalizedFromOpen ==
  [][\A b \in Batches :
       recs'[b] # recs[b] /\ Outputs(recs'[b]) # {}
         => recs[b].status \in OpenStatus]_storeVars
=============================================================================
