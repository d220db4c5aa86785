------------------------- MODULE BatchServiceProofs -------------------------
(***************************************************************************)
(* Proofs about BatchStore and the BatchService built on it, for every set *)
(* of gateways, callers, files and batches.                                *)
(*                                                                         *)
(* The store first.  The argument is mutual exclusion: a caller is inside  *)
(* the lock exactly when its label says so, hence what a call has          *)
(* established about the disk inside the lock (the record it read, the     *)
(* file it has written, the reference check it made) stays true until it   *)
(* leaves.  StoreInv states those facts, and is inductive.                 *)
(*                                                                         *)
(* Then the service: its type, that it uses the store as the store's       *)
(* specification asks (so that every theorem of the first part holds of    *)
(* the service), and that a batch and its provider's job agree.  A step of *)
(* the service is a step of the store or leaves it alone.  What has to be  *)
(* shown is that the record a request carries is one a caller may put: it  *)
(* was read while open, so it names an input and no output (ServiceInv).   *)
(* The last two parts build on that: every record, stored or carried,      *)
(* tells the truth about the job behind it (Truth), and a job is never     *)
(* forgotten (Track).                                                      *)
(***************************************************************************)
EXTENDS BatchService, TLAPS

(* A call is in the lock when it is the lock's holder, and only then.      *)
LockHeld == \A p \in Callers : lock = p <=> call[p].at \in Locked

(* Contents and batch records name issued files only; a record has its     *)
(* input and its backend, and an open one names no output.                 *)
DiskOK ==
  /\ content \subseteq issued
  /\ \A b \in Batches :
       /\ Named(recs[b]) \subseteq issued
       /\ recs[b].status \in OpenStatus => Outputs(recs[b]) = {}
       /\ recs[b].status # "absent" => recs[b].input # NoFile /\ recs[b].backend # NoBackend

(* The labels each kind of call goes through, and what it carries there.   *)
ShapeOK(c) ==
  /\ c.at = "wait" => c.op # "none"
  /\ c.at \in {"content", "meta"} => c.op \in {"upload", "finalize"}
  /\ c.at \in {"read", "commit"} => c.op = "finalize"
  /\ c.at = "put" => c.op = "put"
  /\ c.at = "check" => c.op = "delete"
  /\ c.op \in {"put", "finalize"} => c.batch \in Batches
  /\ c.at \in {"wait", "read", "check", "put"} => c.files = {}
  /\ c.op = "upload" => c.files = {}

(* A record on its way to the store is one a caller may put.               *)
PutOK(c) ==
  c.op = "put" /\ c.at \in {"wait", "put"} =>
    c.rec \in PutRecord /\ Named(c.rec) \subseteq issued

(* A file whose metadata is still to be written has its content on disk    *)
(* and is named by no record.                                              *)
SavingOK(c) ==
  c.at = "meta" => c.file \in content \cap issued /\ ~Referenced(c.file)

(* A file on its way out is named by no record, and its metadata goes      *)
(* before its content.                                                     *)
RemovingOK(c) ==
  /\ c.at \in {"remove", "remove_content"} => \A f \in c.files : ~Referenced(f)
  /\ c.at = "remove_content" => c.file \in c.files \ fmeta

(* A finalisation works on the stored record, which is open, and the files *)
(* it has saved are on disk and named by no record yet.                    *)
FinalizingOK(c) ==
  c.op = "finalize" /\ c.at \in {"content", "meta", "commit"} =>
    /\ recs[c.batch].status \in OpenStatus
    /\ SameButOutputs(recs[c.batch], c.rec)
    /\ Outputs(c.rec) \subseteq fmeta
    /\ Named(c.rec) \subseteq issued
    /\ \A f \in c.files : ~Referenced(f)

CallOK(c) ==
  ShapeOK(c) /\ PutOK(c) /\ SavingOK(c) /\ RemovingOK(c) /\ FinalizingOK(c)

StoreInv ==
  /\ StoreTypeOK
  /\ LockHeld
  /\ DiskOK
  /\ MetaHasContent
  /\ OutputsExist
  /\ \A p \in Callers : CallOK(call[p])

-----------------------------------------------------------------------------
(* The two kinds of step: one that leaves the disk alone, and one of the   *)
(* lock's holder.  Only the mover's own facts are then left to prove.      *)

(* A step of p outside the lock, or into it, leaves the disk alone.        *)
LEMMA FreeStep ==
  ASSUME StoreInv, NEW p \in Callers, NEW d \in Call,
         UNCHANGED disk,
         call' = [call EXCEPT ![p] = d],
         call[p].at \notin Locked,
         \/ lock' = lock /\ d.at \notin Locked
         \/ lock = NoCaller /\ lock' = p /\ d.at \in Locked,
         CallOK(d)
  PROVE  StoreInv'
<1>1. /\ call' \in [Callers -> Call]
      /\ call'[p] = d
      /\ \A q \in Callers \ {p} : call'[q] = call[q]
  BY DEF StoreInv, StoreTypeOK
<1>2. StoreTypeOK'
  BY <1>1 DEF StoreInv, StoreTypeOK, disk
<1>3. LockHeld'
  BY <1>1, StoreAssumption DEF StoreInv, LockHeld
<1>4. DiskOK' /\ MetaHasContent' /\ OutputsExist'
  BY DEF StoreInv, disk, DiskOK, MetaHasContent, OutputsExist
<1>5. ASSUME NEW q \in Callers PROVE CallOK(call[q])'
  <2>1. CallOK(call'[q])
    BY <1>1 DEF StoreInv
  <2> QED
    BY <2>1 DEF disk, CallOK, ShapeOK, PutOK, SavingOK, RemovingOK, FinalizingOK, Referenced
<1> QED
  BY <1>2, <1>3, <1>4, <1>5 DEF StoreInv

(* A step of the lock's holder p may change the disk: no other call has    *)
(* facts about the disk to lose.                                           *)
LEMMA LockedStep ==
  ASSUME StoreInv, NEW p \in Callers, NEW d \in Call,
         call[p].at \in Locked,
         call' = [call EXCEPT ![p] = d],
         \/ lock' = lock /\ d.at \in Locked
         \/ lock' = NoCaller /\ d.at \notin Locked,
         content' \subseteq Files, fmeta' \subseteq Files, issued' \subseteq Files,
         recs' \in [Batches -> Meta],
         issued \subseteq issued',
         DiskOK', MetaHasContent', OutputsExist',
         CallOK(d)'
  PROVE  StoreInv'
<1>1. /\ call' \in [Callers -> Call]
      /\ call'[p] = d
      /\ \A q \in Callers \ {p} : call'[q] = call[q]
  BY DEF StoreInv, StoreTypeOK
<1>2. lock = p /\ \A q \in Callers \ {p} : call[q].at \notin Locked
  BY DEF StoreInv, LockHeld
<1>3. StoreTypeOK'
  BY <1>1 DEF StoreInv, StoreTypeOK
<1>4. LockHeld'
  BY <1>1, <1>2, StoreAssumption DEF LockHeld
<1>5. ASSUME NEW q \in Callers \ {p} PROVE CallOK(call[q])'
  <2>1. CallOK(call[q]) /\ call[q].at \notin Locked
    BY <1>2 DEF StoreInv
  <2> QED
    BY <1>1, <2>1 DEF CallOK, ShapeOK, PutOK, SavingOK, RemovingOK, FinalizingOK, Locked
<1>6. CallOK(call[p])'
  BY <1>1 DEF CallOK, ShapeOK, PutOK, SavingOK, RemovingOK, FinalizingOK, Referenced
<1> QED
  BY <1>3, <1>4, <1>5, <1>6 DEF StoreInv

-----------------------------------------------------------------------------
(* One lemma per action. *)

LEMMA InitInv == StoreInit => StoreInv
<1> SUFFICES ASSUME StoreInit PROVE StoreInv
  OBVIOUS
<1>1. Absent \in Meta /\ NoCall \in Call
  BY DEF Absent, Meta, NoCall, Call, NoPatch, FinalizePatch, Locked, Results
<1>2. StoreTypeOK
  BY <1>1 DEF StoreInit, StoreTypeOK
<1>3. LockHeld
  BY StoreAssumption DEF StoreInit, LockHeld, NoCall, Locked
<1>4. DiskOK /\ OutputsExist
  BY DEF StoreInit, DiskOK, OutputsExist, Named, Outputs, Absent
<1>5. ASSUME NEW p \in Callers PROVE CallOK(call[p])
  BY DEF StoreInit, NoCall, CallOK, ShapeOK, PutOK, SavingOK, RemovingOK, FinalizingOK
<1> QED
  BY <1>2, <1>3, <1>4, <1>5 DEF StoreInit, StoreInv, MetaHasContent

LEMMA BeginInv ==
  ASSUME StoreInv, NEW p \in Callers, NEW d \in Call,
         Begin(p, d), d.at = "wait", d.op # "none", d.files = {},
         d.op \in {"put", "finalize"} => d.batch \in Batches,
         PutOK(d)
  PROVE  StoreInv'
<1>1. CallOK(d)
  BY DEF CallOK, ShapeOK, SavingOK, RemovingOK, FinalizingOK
<1>2. call[p].at \notin Locked /\ d.at \notin Locked
  BY DEF Begin, NoCall, Locked
<1> QED
  BY <1>1, <1>2, FreeStep DEF Begin, disk

LEMMA StartInv ==
  ASSUME StoreInv, NEW p \in Callers, StoreStart(p)
  PROVE  StoreInv'
<1> USE DEF NoCall, Call, Absent, NoPatch
<1>1. Absent \in Meta /\ NoPatch \in FinalizePatch
  BY DEF Meta, FinalizePatch
<1>2. CASE StartUpload(p)
  <2>1. PICK d : d = [NoCall EXCEPT !.op = "upload", !.at = "wait"]
    OBVIOUS
  <2>2. d \in Call
    BY <1>1, <2>1
  <2> QED
    BY <1>2, <2>1, <2>2, BeginInv DEF StartUpload, PutOK
<1>3. ASSUME NEW f \in Files, StartDelete(p, f) PROVE StoreInv'
  <2>1. PICK d : d = [NoCall EXCEPT !.op = "delete", !.at = "wait", !.file = f]
    OBVIOUS
  <2>2. d \in Call
    BY <1>1, <2>1
  <2> QED
    BY <1>3, <2>1, <2>2, BeginInv DEF StartDelete, PutOK
<1>4. ASSUME NEW b \in Batches, NEW rec \in PutRecords,
             rec.input \in issued, StartPut(p, b, rec)
      PROVE  StoreInv'
  <2>1. PICK d : d = [NoCall EXCEPT !.op = "put", !.at = "wait", !.batch = b, !.rec = rec]
    OBVIOUS
  <2>2. rec \in PutRecord /\ rec \in Meta /\ Outputs(rec) = {}
    BY StoreAssumption DEF PutRecord
  <2>3. d \in Call
    BY <1>1, <2>1, <2>2
  <2>4. Named(rec) \subseteq issued
    BY <1>4, <2>2 DEF Named, Outputs
  <2> QED
    BY <1>4, <2>1, <2>2, <2>3, <2>4, BeginInv, ZenonT(60) DEF StartPut, PutOK
<1>5. ASSUME NEW b \in Batches, NEW patch \in Patches, StartFinalize(p, b, patch)
      PROVE  StoreInv'
  <2>1. PICK d : d = [NoCall EXCEPT !.op = "finalize", !.at = "wait",
                                    !.batch = b, !.patch = patch]
    OBVIOUS
  <2>2. patch \in FinalizePatch
    BY StoreAssumption
  <2>3. d \in Call
    BY <1>1, <2>1, <2>2
  <2> QED
    BY <1>5, <2>1, <2>3, BeginInv DEF StartFinalize, PutOK
<1> QED
  BY <1>2, <1>3, <1>4, <1>5 DEF StoreStart

(* What a step that leaves the disk alone keeps. *)
LEMMA DiskKept ==
  ASSUME StoreInv, UNCHANGED disk
  PROVE  /\ content' \subseteq Files /\ fmeta' \subseteq Files /\ issued' \subseteq Files
         /\ recs' \in [Batches -> Meta]
         /\ issued \subseteq issued'
         /\ DiskOK' /\ MetaHasContent' /\ OutputsExist'
BY DEF StoreInv, StoreTypeOK, disk, DiskOK, MetaHasContent, OutputsExist

LEMMA AcquireInv ==
  ASSUME StoreInv, NEW p \in Callers, Acquire(p)
  PROVE  StoreInv'
<1>1. call[p] \in Call /\ CallOK(call[p])
  BY DEF StoreInv, StoreTypeOK
<1>2. PICK d : d = Enter(call[p])
  OBVIOUS
<1>3. d \in Call /\ d.at \in Locked
  BY <1>1, <1>2 DEF Enter, Call, Locked
<1>4. CallOK(d)
  BY <1>1, <1>2 DEF Acquire, Enter, Call, CallOK, ShapeOK, PutOK, SavingOK, RemovingOK,
                    FinalizingOK
<1> QED
  BY <1>1, <1>2, <1>3, <1>4, FreeStep DEF Acquire, Locked

LEMMA NoCallOK == NoCall \in Call /\ CallOK(NoCall)
BY DEF NoCall, Call, NoPatch, FinalizePatch, Absent, Meta, CallOK, ShapeOK, PutOK, SavingOK,
       RemovingOK, FinalizingOK

LEMMA OverOK ==
  ASSUME NEW result \in Results
  PROVE  /\ Over(result) \in Call /\ Over(result).at = result /\ Over(result).op = "none"
         /\ result \notin Locked /\ CallOK(Over(result))
<1>1. /\ Over(result) \in Call /\ Over(result).at = result /\ Over(result).op = "none"
      /\ result \notin Locked
  BY NoCallOK DEF Over, NoCall, Call, Results, Locked
<1>2. Over(result).files = {} /\ Over(result).slot = "none"
  BY DEF Over, NoCall
<1> QED
  BY <1>1, <1>2 DEF Results, CallOK, ShapeOK, PutOK, SavingOK, RemovingOK, FinalizingOK

LEMMA GiveUpInv ==
  ASSUME StoreInv, NEW p \in Callers, GiveUp(p)
  PROVE  StoreInv'
<1>1. Over("error") \in Call /\ Over("error").at \notin Locked /\ CallOK(Over("error"))
  BY OverOK DEF Results
<1> QED
  BY <1>1, FreeStep DEF GiveUp, Locked

LEMMA ReturnInv ==
  ASSUME StoreInv, NEW p \in Callers, Return(p)
  PROVE  StoreInv'
<1>1. call[p].at \notin Locked /\ NoCall.at \notin Locked
  BY DEF Return, Results, Locked, NoCall
<1>2. UNCHANGED disk /\ lock' = lock /\ call' = [call EXCEPT ![p] = NoCall]
  BY DEF Return
<1> QED
  BY <1>1, <1>2, NoCallOK, FreeStep

LEMMA DropCallsInv ==
  ASSUME StoreInv, NEW g \in Gateways, DropCalls(g)
  PROVE  StoreInv'
<1>1. \A p \in Callers : call'[p] = IF GatewayOf[p] = g THEN NoCall ELSE call[p]
  BY DEF DropCalls
<1>2. UNCHANGED disk
  BY DEF DropCalls
<1>3. StoreTypeOK'
  BY <1>2, NoCallOK, StoreAssumption DEF DropCalls, StoreInv, StoreTypeOK, disk
<1>4. LockHeld'
  <2>1. ASSUME NEW p \in Callers PROVE lock' = p <=> call'[p].at \in Locked
    <3>1. CASE GatewayOf[p] = g
      BY <1>1, <3>1, StoreAssumption DEF DropCalls, NoCall, Locked
    <3>2. CASE GatewayOf[p] # g
      BY <1>1, <3>2, StoreAssumption DEF DropCalls, StoreInv, LockHeld
    <3> QED
      BY <3>1, <3>2
  <2> QED
    BY <2>1 DEF LockHeld
<1>5. ASSUME NEW p \in Callers PROVE CallOK(call[p])'
  <2>1. CallOK(call'[p])
    BY <1>1, NoCallOK DEF StoreInv
  <2> QED
    BY <1>2, <2>1 DEF disk, CallOK, ShapeOK, PutOK, SavingOK, RemovingOK, FinalizingOK,
                      Referenced
<1> QED
  BY <1>2, <1>3, <1>4, <1>5, DiskKept DEF StoreInv

(* The holder leaves the lock with a result. *)
LEMMA LeaveInv ==
  ASSUME StoreInv, NEW p \in Callers, NEW result \in Results,
         call[p].at \in Locked,
         Leave(p, result),
         content' \subseteq Files, fmeta' \subseteq Files, issued' \subseteq Files,
         recs' \in [Batches -> Meta],
         issued \subseteq issued',
         DiskOK', MetaHasContent', OutputsExist'
  PROVE  StoreInv'
<1>1. PICK d : d = Over(result)
  OBVIOUS
<1>2. d \in Call /\ d.at \notin Locked
  BY <1>1, OverOK
<1>3. d.op = "none" /\ d.at = result /\ d.files = {} /\ d.slot = "none"
  BY <1>1 DEF Over, NoCall
<1>4. CallOK(d)'
  BY <1>3 DEF Results, CallOK, ShapeOK, PutOK, SavingOK, RemovingOK, FinalizingOK
<1> QED
  BY <1>1, <1>2, <1>4, LockedStep DEF Leave

(* A write that fails in the lock, before the disk is changed. *)
LEMMA AbortInv ==
  ASSUME StoreInv, NEW p \in Callers,
         call[p].at \in {"content", "meta", "commit"},
         Abort(p), UNCHANGED disk
  PROVE  StoreInv'
<1>1. call[p] \in Call /\ CallOK(call[p])
  BY DEF StoreInv, StoreTypeOK
<1>2. CASE call[p].files = {}
  BY <1>2, LeaveInv, DiskKept DEF Abort, Results, Locked
<1>3. CASE call[p].files # {}
  <2>1. PICK d : d = [call[p] EXCEPT !.at = "remove"]
    OBVIOUS
  <2>2. d \in Call /\ d.at \in Locked
    BY <1>1, <2>1 DEF Call, Locked
  <2>3. CallOK(d)'
    BY <1>1, <1>3, <2>1 DEF Call, disk, CallOK, ShapeOK, PutOK, SavingOK, RemovingOK,
                            FinalizingOK, Referenced
  <2> QED
    BY <1>3, <2>1, <2>2, <2>3, DiskKept, LockedStep DEF Abort, Locked
<1> QED
  BY <1>2, <1>3

LEMMA SaveContentInv ==
  ASSUME StoreInv, NEW p \in Callers, SaveContent(p)
  PROVE  StoreInv'
<1>1. call[p] \in Call /\ CallOK(call[p]) /\ call[p].at = "content"
  BY DEF StoreInv, StoreTypeOK, SaveContent
<1>2. ASSUME NEW f \in Files \ issued,
             content' = content \cup {f},
             issued' = issued \cup {f},
             call' = [call EXCEPT ![p].file = f, ![p].at = "meta"],
             UNCHANGED <<fmeta, recs, lock>>
      PROVE  StoreInv'
  <2>1. PICK d : d = [call[p] EXCEPT !.file = f, !.at = "meta"]
    OBVIOUS
  <2>2. d \in Call /\ d.at \in Locked
    BY <1>1, <2>1 DEF Call, Locked
  <2>3. \A b \in Batches : f \notin Named(recs[b])
    BY DEF StoreInv, DiskOK
  <2>4. CallOK(d)'
    BY <1>1, <1>2, <2>1, <2>3 DEF Call, CallOK, ShapeOK, PutOK, SavingOK, RemovingOK,
                                  FinalizingOK, Referenced
  <2>5. DiskOK' /\ MetaHasContent' /\ OutputsExist'
    BY <1>2 DEF StoreInv, DiskOK, MetaHasContent, OutputsExist
  <2>6. content' \subseteq Files /\ fmeta' \subseteq Files /\ issued' \subseteq Files
        /\ recs' \in [Batches -> Meta]
    BY <1>2 DEF StoreInv, StoreTypeOK
  <2>7. call' = [call EXCEPT ![p] = d]
    BY <1>2, <2>1 DEF StoreInv, StoreTypeOK
  <2> QED
    BY <1>1, <1>2, <2>2, <2>4, <2>5, <2>6, <2>7, LockedStep DEF Locked
<1>3. CASE Abort(p) /\ UNCHANGED disk
  BY <1>1, <1>3, AbortInv
<1> QED
  BY <1>2, <1>3 DEF SaveContent

(* The call of a finalisation that has just saved a file. *)
LEMMA SavedOK ==
  ASSUME StoreInv, NEW p \in Callers, call[p].op = "finalize", call[p].at = "meta",
         fmeta' = fmeta \cup {call[p].file},
         UNCHANGED <<content, recs, issued>>,
         NEW d, d = Resume(Saved(call[p]))
  PROVE  d \in Call /\ d.at \in Locked /\ CallOK(d)'
<1>1. call[p] \in Call /\ CallOK(call[p])
  BY DEF StoreInv, StoreTypeOK
<1>2. PICK c : c = Saved(call[p])
  OBVIOUS
<1>3. /\ c \in Call
      /\ c.op = "finalize"
      /\ c.batch = call[p].batch
      /\ c.files = call[p].files \cup {call[p].file}
      /\ SameButOutputs(c.rec, call[p].rec)
      /\ Outputs(c.rec) \subseteq Outputs(call[p].rec) \cup {call[p].file}
  <2>1. call[p].file \in Files
    BY <1>1 DEF StoreInv, StoreTypeOK, CallOK, SavingOK
  <2>2. PICK r : r = [call[p].rec EXCEPT
                        !.out = IF call[p].slot = "out" THEN call[p].file ELSE call[p].rec.out,
                        !.err = IF call[p].slot = "err" THEN call[p].file ELSE call[p].rec.err]
    OBVIOUS
  <2>3. call[p].rec \in Meta
    BY <1>1 DEF Call
  <2>4. /\ r \in Meta
        /\ SameButOutputs(r, call[p].rec)
        /\ r.out \in {call[p].rec.out, call[p].file}
        /\ r.err \in {call[p].rec.err, call[p].file}
    BY <2>1, <2>2, <2>3 DEF Meta, SameButOutputs
  <2>5. c = [call[p] EXCEPT !.rec = r, !.files = call[p].files \cup {call[p].file}]
    BY <1>2, <2>2 DEF Saved
  <2>6. /\ c \in Call
        /\ c.op = "finalize"
        /\ c.batch = call[p].batch
        /\ c.files = call[p].files \cup {call[p].file}
        /\ c.rec = r
    BY <1>1, <2>1, <2>4, <2>5 DEF Call
  <2> QED
    BY <2>4, <2>6 DEF Outputs
<1>4. d = [c EXCEPT !.slot = SlotAfter(c.slot, c.patch),
                    !.at = IF SlotAfter(c.slot, c.patch) = "none" THEN "commit" ELSE "content"]
  BY <1>2 DEF Resume
<1>5. SlotAfter(c.slot, c.patch) \in {"none", "out", "err"}
  BY <1>3 DEF SlotAfter, Call
<1>6. d \in Call /\ d.at \in {"commit", "content"}
  BY <1>3, <1>4, <1>5 DEF Call, Locked
<1>7. /\ d.op = "finalize"
      /\ d.batch = call[p].batch
      /\ d.files = call[p].files \cup {call[p].file}
      /\ SameButOutputs(d.rec, call[p].rec)
      /\ Outputs(d.rec) \subseteq Outputs(call[p].rec) \cup {call[p].file}
  BY <1>3, <1>4 DEF Call
<1>8. Named(d.rec) \subseteq Named(call[p].rec) \cup {call[p].file}
  BY <1>7 DEF SameButOutputs, Named, Outputs
<1>9. FinalizingOK(d)'
  BY <1>1, <1>7, <1>8 DEF CallOK, SavingOK, FinalizingOK, Referenced, SameButOutputs
<1>10. ShapeOK(d)
  BY <1>1, <1>6, <1>7 DEF CallOK, ShapeOK
<1> QED
  BY <1>6, <1>7, <1>9, <1>10 DEF CallOK, ShapeOK, PutOK, SavingOK, RemovingOK, Locked

LEMMA SaveMetaInv ==
  ASSUME StoreInv, NEW p \in Callers, SaveMeta(p)
  PROVE  StoreInv'
<1>1. call[p] \in Call /\ CallOK(call[p]) /\ call[p].at = "meta"
  BY DEF StoreInv, StoreTypeOK, SaveMeta
<1>2. CASE /\ fmeta' = fmeta \cup {call[p].file}
           /\ IF call[p].op = "upload"
              THEN Leave(p, "ok")
              ELSE /\ call' = [call EXCEPT ![p] = Resume(Saved(@))]
                   /\ UNCHANGED lock
           /\ UNCHANGED <<content, recs, issued>>
  <2>1. call[p].file \in content
    BY <1>1 DEF CallOK, SavingOK
  <2>2. /\ content' \subseteq Files /\ fmeta' \subseteq Files /\ issued' \subseteq Files
        /\ recs' \in [Batches -> Meta]
        /\ issued \subseteq issued'
        /\ DiskOK' /\ MetaHasContent' /\ OutputsExist'
    BY <1>2, <2>1 DEF StoreInv, StoreTypeOK, DiskOK, MetaHasContent, OutputsExist
  <2>3. CASE call[p].op = "upload"
    BY <1>1, <1>2, <2>2, <2>3, LeaveInv DEF Locked, Results
  <2>4. CASE call[p].op # "upload"
    <3>1. call[p].op = "finalize"
      BY <1>1, <2>4 DEF CallOK, ShapeOK
    <3>2. PICK d : d = Resume(Saved(call[p]))
      OBVIOUS
    <3>3. d \in Call /\ d.at \in Locked /\ CallOK(d)'
      BY <1>1, <1>2, <3>1, <3>2, SavedOK
    <3>4. call' = [call EXCEPT ![p] = d] /\ lock' = lock
      BY <1>2, <2>4, <3>2
    <3> QED
      BY <1>1, <2>2, <3>3, <3>4, LockedStep DEF Locked
  <2> QED
    BY <2>3, <2>4
<1>3. CASE Abort(p) /\ UNCHANGED disk
  BY <1>1, <1>3, AbortInv
<1> QED
  BY <1>2, <1>3 DEF SaveMeta

LEMMA CheckDeleteInv ==
  ASSUME StoreInv, NEW p \in Callers, CheckDelete(p)
  PROVE  StoreInv'
<1>1. call[p] \in Call /\ CallOK(call[p]) /\ call[p].at = "check" /\ UNCHANGED disk
  BY DEF StoreInv, StoreTypeOK, CheckDelete
<1>2. CASE /\ call[p].file \in fmeta
           /\ ~Referenced(call[p].file)
           /\ call' = [call EXCEPT ![p].at = "remove", ![p].files = {call[p].file}]
           /\ UNCHANGED lock
  <2>1. PICK d : d = [call[p] EXCEPT !.at = "remove", !.files = {call[p].file}]
    OBVIOUS
  <2>2. d \in Call /\ d.at \in Locked
    BY <1>1, <1>2, <2>1 DEF StoreInv, StoreTypeOK, Call, Locked
  <2>3. CallOK(d)'
    <3>1. /\ d.op = "delete" /\ d.at = "remove"
          /\ d.files = {call[p].file} /\ d.batch = call[p].batch
      BY <1>1, <2>1 DEF Call, CallOK, ShapeOK
    <3>2. \A f \in d.files : ~Referenced(f)'
      BY <1>1, <1>2, <3>1 DEF Referenced, disk
    <3> QED
      BY <3>1, <3>2 DEF CallOK, ShapeOK, PutOK, SavingOK, RemovingOK, FinalizingOK
  <2>4. call' = [call EXCEPT ![p] = d]
    BY <1>2, <2>1 DEF StoreInv, StoreTypeOK
  <2> QED
    BY <1>1, <1>2, <2>2, <2>3, <2>4, DiskKept, LockedStep DEF Locked
<1>3. CASE \E result \in {"conflict", "error"} : Leave(p, result)
  BY <1>1, <1>3, DiskKept, LeaveInv DEF Locked, Results
<1> QED
  BY <1>2, <1>3 DEF CheckDelete

(* The end of a removal: the next file, or the result. *)
LEMMA RemovedInv ==
  ASSUME StoreInv, NEW p \in Callers, NEW f \in call[p].files, NEW result \in Results,
         call[p].at \in {"remove", "remove_content"},
         Removed(p, f, result),
         content' \subseteq content, fmeta' \subseteq fmeta,
         UNCHANGED <<recs, issued>>,
         MetaHasContent', OutputsExist'
  PROVE  StoreInv'
<1>1. call[p] \in Call /\ CallOK(call[p])
  BY DEF StoreInv, StoreTypeOK
<1>2. /\ content' \subseteq Files /\ fmeta' \subseteq Files /\ issued' \subseteq Files
      /\ recs' \in [Batches -> Meta]
      /\ issued \subseteq issued'
      /\ DiskOK'
  BY DEF StoreInv, StoreTypeOK, DiskOK
<1>3. CASE Leave(p, result)
  BY <1>2, <1>3, LeaveInv DEF Locked
<1>4. CASE /\ call' = [call EXCEPT ![p].files = @ \ {f}, ![p].at = "remove"]
           /\ UNCHANGED lock
  <2>1. PICK d : d = [call[p] EXCEPT !.files = call[p].files \ {f}, !.at = "remove"]
    OBVIOUS
  <2>2. d \in Call /\ d.at \in Locked
    BY <1>1, <2>1 DEF Call, Locked
  <2>3. CallOK(d)'
    <3>1. /\ d.op = call[p].op /\ d.at = "remove"
          /\ d.files = call[p].files \ {f} /\ d.batch = call[p].batch
      BY <1>1, <2>1 DEF Call
    <3>2. \A g \in d.files : ~Referenced(g)'
      BY <1>1, <3>1 DEF CallOK, RemovingOK, Referenced
    <3> QED
      BY <1>1, <3>1, <3>2 DEF CallOK, ShapeOK, PutOK, SavingOK, RemovingOK, FinalizingOK
  <2>4. call' = [call EXCEPT ![p] = d]
    BY <1>4, <2>1 DEF StoreInv, StoreTypeOK
  <2> QED
    BY <1>2, <1>4, <2>2, <2>3, <2>4, LockedStep DEF Locked
<1> QED
  BY <1>3, <1>4 DEF Removed

(* Taking away the metadata of a file no record names loses no output.     *)
LEMMA OutputsStay ==
  ASSUME OutputsExist, NEW f, ~Referenced(f), fmeta' = fmeta \ {f}, recs' = recs
  PROVE  OutputsExist'
BY DEF OutputsExist, Referenced, Outputs, Named

LEMMA RemoveMetaInv ==
  ASSUME StoreInv, NEW p \in Callers, RemoveMeta(p)
  PROVE  StoreInv'
<1>1. call[p] \in Call /\ CallOK(call[p]) /\ call[p].at = "remove"
  BY DEF StoreInv, StoreTypeOK, RemoveMeta
<1>2. ASSUME NEW f \in call[p].files,
             fmeta' = fmeta \ {f},
             call' = [call EXCEPT ![p].file = f, ![p].at = "remove_content"],
             UNCHANGED <<content, recs, issued, lock>>
      PROVE  StoreInv'
  <2>1. PICK d : d = [call[p] EXCEPT !.file = f, !.at = "remove_content"]
    OBVIOUS
  <2>2. /\ d \in Call /\ d.at = "remove_content"
        /\ d.op = call[p].op /\ d.files = call[p].files
        /\ d.file = f /\ d.batch = call[p].batch
    BY <1>1, <2>1 DEF Call, Locked
  <2>3. CallOK(d)'
    BY <1>1, <1>2, <2>2 DEF CallOK, ShapeOK, PutOK, SavingOK, RemovingOK, FinalizingOK,
                            Referenced
  <2>4. MetaHasContent' /\ DiskOK'
    BY <1>2 DEF StoreInv, MetaHasContent, DiskOK
  <2>5. OutputsExist'
    BY <1>1, <1>2, OutputsStay DEF StoreInv, CallOK, RemovingOK
  <2>6. /\ content' \subseteq Files /\ fmeta' \subseteq Files /\ issued' \subseteq Files
        /\ recs' \in [Batches -> Meta]
    BY <1>2 DEF StoreInv, StoreTypeOK
  <2>7. call' = [call EXCEPT ![p] = d]
    BY <1>2, <2>1 DEF StoreInv, StoreTypeOK
  <2> QED
    BY <1>1, <1>2, <2>2, <2>3, <2>4, <2>5, <2>6, <2>7, LockedStep DEF Locked
<1>3. ASSUME NEW f \in call[p].files, Removed(p, f, "error"), UNCHANGED disk
      PROVE  StoreInv'
  BY <1>1, <1>3, DiskKept, RemovedInv DEF disk, Results, StoreInv, StoreTypeOK
<1> QED
  BY <1>2, <1>3 DEF RemoveMeta

LEMMA RemoveContentInv ==
  ASSUME StoreInv, NEW p \in Callers, RemoveContent(p)
  PROVE  StoreInv'
<1>1. call[p] \in Call /\ CallOK(call[p]) /\ call[p].at = "remove_content"
  BY DEF StoreInv, StoreTypeOK, RemoveContent
<1>2. call[p].file \in call[p].files \ fmeta
  BY <1>1 DEF CallOK, RemovingOK
<1>3. CASE /\ content' = content \ {call[p].file}
           /\ Removed(p, call[p].file, IF call[p].op = "delete" THEN "ok" ELSE "error")
           /\ UNCHANGED <<fmeta, recs, issued>>
  <2>1. MetaHasContent' /\ OutputsExist' /\ content' \subseteq content
    BY <1>2, <1>3 DEF StoreInv, MetaHasContent, OutputsExist
  <2> QED
    BY <1>1, <1>2, <1>3, <2>1, RemovedInv DEF Results
<1>4. CASE Removed(p, call[p].file, "error") /\ UNCHANGED disk
  BY <1>1, <1>2, <1>4, DiskKept, RemovedInv DEF disk, Results, StoreInv, StoreTypeOK
<1> QED
  BY <1>3, <1>4 DEF RemoveContent

LEMMA PutInv ==
  ASSUME StoreInv, NEW p \in Callers, Put(p)
  PROVE  StoreInv'
<1>1. call[p] \in Call /\ CallOK(call[p]) /\ call[p].at = "put"
  BY DEF StoreInv, StoreTypeOK, Put
<1>2. CASE /\ recs' = [recs EXCEPT ![call[p].batch] = call[p].rec]
           /\ Leave(p, "ok")
           /\ UNCHANGED <<content, fmeta, issued>>
  <2>1. /\ call[p].rec \in Meta /\ Outputs(call[p].rec) = {}
        /\ call[p].rec.input # NoFile /\ call[p].rec.backend # NoBackend
        /\ Named(call[p].rec) \subseteq issued
    BY <1>1 DEF CallOK, ShapeOK, PutOK, PutRecord
  <2>2. \A b \in Batches : recs'[b] = recs[b] \/ recs'[b] = call[p].rec
    BY <1>2 DEF StoreInv, StoreTypeOK
  <2>3. DiskOK' /\ OutputsExist' /\ MetaHasContent'
    BY <1>2, <2>1, <2>2 DEF StoreInv, DiskOK, OutputsExist, MetaHasContent
  <2>4. /\ content' \subseteq Files /\ fmeta' \subseteq Files /\ issued' \subseteq Files
        /\ recs' \in [Batches -> Meta]
    BY <1>2, <2>1 DEF StoreInv, StoreTypeOK
  <2> QED
    BY <1>1, <1>2, <2>3, <2>4, LeaveInv DEF Locked, Results
<1>3. CASE Leave(p, "error") /\ UNCHANGED disk
  BY <1>1, <1>3, DiskKept, LeaveInv DEF Locked, Results
<1> QED
  BY <1>2, <1>3 DEF Put

LEMMA FinalizeReadInv ==
  ASSUME StoreInv, NEW p \in Callers, FinalizeRead(p)
  PROVE  StoreInv'
<1>1. call[p] \in Call /\ CallOK(call[p]) /\ call[p].at = "read" /\ UNCHANGED disk
  BY DEF StoreInv, StoreTypeOK, FinalizeRead
<1>2. PICK rec : rec = recs[call[p].batch]
  OBVIOUS
<1>3. call[p].op = "finalize" /\ call[p].batch \in Batches /\ call[p].files = {}
  BY <1>1 DEF CallOK, ShapeOK
<1>4. CASE /\ statusAllowsFinalize(rec.status)
           /\ call' = [call EXCEPT ![p] = Resume([call[p] EXCEPT !.rec = rec])]
           /\ UNCHANGED lock
  <2>1. rec \in Meta /\ rec.status \in OpenStatus
    BY <1>2, <1>3, <1>4 DEF StoreInv, StoreTypeOK, statusAllowsFinalize
  <2>2. Outputs(rec) = {} /\ Named(rec) \subseteq issued
    BY <1>2, <1>3, <2>1 DEF StoreInv, DiskOK
  <2>3. PICK c : c = [call[p] EXCEPT !.rec = rec]
    OBVIOUS
  <2>4. /\ c \in Call /\ c.op = "finalize" /\ c.rec = rec
        /\ c.batch = call[p].batch /\ c.files = {}
    BY <1>1, <1>3, <2>1, <2>3 DEF Call
  <2>5. PICK d : d = Resume(c)
    OBVIOUS
  <2>6. d = [c EXCEPT !.slot = SlotAfter(c.slot, c.patch),
                      !.at = IF SlotAfter(c.slot, c.patch) = "none" THEN "commit" ELSE "content"]
    BY <2>5 DEF Resume
  <2>7. SlotAfter(c.slot, c.patch) \in {"none", "out", "err"}
    BY <2>4 DEF SlotAfter, Call
  <2>8. /\ d \in Call /\ d.at \in {"commit", "content"} /\ d.op = "finalize"
        /\ d.rec = rec /\ d.batch = call[p].batch /\ d.files = {}
    BY <2>4, <2>6, <2>7 DEF Call, Locked
  <2>9. FinalizingOK(d)'
    BY <1>1, <1>2, <2>1, <2>2, <2>8 DEF disk, FinalizingOK, SameButOutputs
  <2>10. CallOK(d)'
    BY <1>3, <2>8, <2>9 DEF CallOK, ShapeOK, PutOK, SavingOK, RemovingOK
  <2> QED
    BY <1>1, <1>4, <2>3, <2>5, <2>8, <2>10, DiskKept, LockedStep DEF Locked
<1>5. CASE \E result \in {"skipped", "error"} : Leave(p, result)
  BY <1>1, <1>5, DiskKept, LeaveInv DEF Locked, Results
<1> QED
  BY <1>2, <1>4, <1>5 DEF FinalizeRead

LEMMA FinalizeCommitInv ==
  ASSUME StoreInv, NEW p \in Callers, FinalizeCommit(p)
  PROVE  StoreInv'
<1>1. call[p] \in Call /\ CallOK(call[p]) /\ call[p].at = "commit"
  BY DEF StoreInv, StoreTypeOK, FinalizeCommit
<1>2. CASE /\ recs' = [recs EXCEPT ![call[p].batch] =
                          [call[p].rec EXCEPT !.status = call[p].patch.status]]
           /\ Leave(p, "ok")
           /\ UNCHANGED <<content, fmeta, issued>>
  <2>1. PICK rec : rec = [call[p].rec EXCEPT !.status = call[p].patch.status]
    OBVIOUS
  <2>2. call[p].rec \in Meta /\ call[p].patch.status \in TerminalStatus
    BY <1>1 DEF Call, FinalizePatch, TerminalStatus
  <2>3. /\ rec \in Meta
        /\ rec.status \notin OpenStatus
        /\ Outputs(rec) = Outputs(call[p].rec) /\ Named(rec) = Named(call[p].rec)
    BY <2>1, <2>2 DEF Meta, Status, TerminalStatus, OpenStatus, Outputs, Named
  <2>4. /\ Outputs(rec) \subseteq fmeta /\ Named(rec) \subseteq issued
        /\ rec.input # NoFile /\ rec.backend # NoBackend
    <3>1. /\ call[p].batch \in Batches
          /\ recs[call[p].batch].status \in OpenStatus
          /\ SameButOutputs(recs[call[p].batch], call[p].rec)
          /\ Outputs(call[p].rec) \subseteq fmeta /\ Named(call[p].rec) \subseteq issued
      BY <1>1 DEF CallOK, ShapeOK, FinalizingOK
    <3>2. call[p].rec.input # NoFile /\ call[p].rec.backend # NoBackend
      BY <3>1 DEF StoreInv, DiskOK, SameButOutputs, OpenStatus
    <3> QED
      BY <2>1, <2>2, <2>3, <3>1, <3>2 DEF Meta
  <2>5. recs' \in [Batches -> Meta] /\ \A b \in Batches : recs'[b] = recs[b] \/ recs'[b] = rec
    BY <1>2, <2>1, <2>3 DEF StoreInv, StoreTypeOK
  <2>6. DiskOK' /\ OutputsExist' /\ MetaHasContent'
    BY <1>2, <2>3, <2>4, <2>5 DEF StoreInv, DiskOK, OutputsExist, MetaHasContent
  <2>7. content' \subseteq Files /\ fmeta' \subseteq Files /\ issued' \subseteq Files
    BY <1>2 DEF StoreInv, StoreTypeOK
  <2> QED
    BY <1>1, <1>2, <2>5, <2>6, <2>7, LeaveInv DEF Locked, Results
<1>3. CASE Abort(p) /\ UNCHANGED disk
  BY <1>1, <1>3, AbortInv
<1> QED
  BY <1>2, <1>3 DEF FinalizeCommit

LEMMA NextInv ==
  ASSUME StoreInv, [StoreNext]_storeVars
  PROVE  StoreInv'
<1>1. ASSUME NEW p \in Callers, StoreStep(p) PROVE StoreInv'
  BY <1>1, AcquireInv, GiveUpInv, SaveContentInv, SaveMetaInv, CheckDeleteInv, RemoveMetaInv,
     RemoveContentInv, PutInv, FinalizeReadInv, FinalizeCommitInv DEF StoreStep
<1>2. ASSUME NEW p \in Callers, Return(p) PROVE StoreInv'
  BY <1>2, ReturnInv
<1>3. ASSUME NEW g \in Gateways, StoreCrash(g) PROVE StoreInv'
  BY <1>3, DropCallsInv DEF StoreCrash
<1>4. ASSUME NEW p \in Callers, StoreStart(p) PROVE StoreInv'
  BY <1>4, StartInv
<1>5. CASE UNCHANGED storeVars
  BY <1>5 DEF storeVars, StoreInv, StoreTypeOK, LockHeld, DiskOK, MetaHasContent,
              OutputsExist, CallOK, ShapeOK, PutOK, SavingOK, RemovingOK, FinalizingOK,
              Referenced
<1> QED
  BY <1>1, <1>2, <1>3, <1>4, <1>5 DEF StoreNext

-----------------------------------------------------------------------------
(* The theorems. *)

(* Whatever the calls, failures and crashes of the gateways sharing a      *)
(* root, the facts a call establishes inside the lock hold until it leaves *)
(* it: the invariant the theorems below rest on.                           *)
THEOREM StoreInvariant == StoreSpec => []StoreInv
BY InitInv, NextInv, PTL DEF StoreSpec

(* The store's state keeps its type.                                       *)
THEOREM StoreTypeCorrect == StoreSpec => []StoreTypeOK
<1>1. StoreInv => StoreTypeOK
  BY DEF StoreInv
<1> QED
  BY <1>1, StoreInvariant, PTL

(* SaveFile and DeleteFile never leave metadata without its content: they  *)
(* take the two files in opposite orders.                                  *)
THEOREM MetaAlwaysHasContent == StoreSpec => []MetaHasContent
<1>1. StoreInv => MetaHasContent
  BY DEF StoreInv
<1> QED
  BY <1>1, StoreInvariant, PTL

(* No output file a stored batch names is ever missing.                    *)
THEOREM OutputsAlwaysExist == StoreSpec => []OutputsExist
<1>1. StoreInv => OutputsExist
  BY DEF StoreInv
<1> QED
  BY <1>1, StoreInvariant, PTL

(* What a record names can be listed and what is listed can be read, in    *)
(* every state between two file operations.                                *)
THEOREM FilesAlwaysWhole == StoreSpec => []FilesAreWhole
<1>1. StoreInv => FilesAreWhole
  BY DEF StoreInv, FilesAreWhole
<1> QED
  BY <1>1, StoreInvariant, PTL

(* A finalisation writes over the record it read and no other.             *)
THEOREM FinalizeAlwaysReadsCurrent == StoreSpec => []FinalizeReadsCurrent
<1>1. StoreInv => FinalizeReadsCurrent
  BY DEF StoreInv, CallOK, FinalizingOK, FinalizeReadsCurrent
<1> QED
  BY <1>1, StoreInvariant, PTL

(* DeleteFile's check holds until the removal: no file in use is removed.  *)
THEOREM InUseIsNeverRemoved == StoreSpec => InUseNeverRemoved
<1>1. ASSUME StoreInv, [StoreNext]_storeVars,
             NEW f \in (fmeta \ fmeta') \cup (content \ content')
      PROVE  ~Referenced(f)
  <2>1. PICK p \in Callers : RemoveMeta(p) \/ RemoveContent(p)
    BY <1>1 DEF StoreNext, StoreStart, StartUpload, StartDelete, StartPut, StartFinalize, Begin,
                StoreStep, Acquire, GiveUp, Return, Leave, Abort, SaveContent, SaveMeta,
                CheckDelete, Put, FinalizeRead, FinalizeCommit, StoreCrash, DropCalls,
                disk, storeVars
  <2>2. \A g \in call[p].files : call[p].at \in {"remove", "remove_content"} => ~Referenced(g)
    BY <1>1 DEF StoreInv, CallOK, RemovingOK
  <2>3. call[p].at = "remove_content" => call[p].file \in call[p].files
    BY <1>1 DEF StoreInv, CallOK, RemovingOK
  <2>4. CASE RemoveMeta(p)
    BY <1>1, <2>2, <2>4 DEF RemoveMeta, disk
  <2>5. CASE RemoveContent(p)
    BY <1>1, <2>2, <2>3, <2>5 DEF RemoveContent, disk
  <2> QED
    BY <2>1, <2>4, <2>5
<1>2. StoreInv /\ [StoreNext]_storeVars =>
        [\A f \in (fmeta \ fmeta') \cup (content \ content') : ~Referenced(f)]_storeVars
  BY <1>1
<1> QED
  BY <1>2, StoreInvariant, PTL DEF StoreSpec, InUseNeverRemoved

(* Outputs are attached to a record only while it is open, so of the       *)
(* callers that finalise an open record, in any gateways, one does.  It    *)
(* does not say that a record stays closed (run batch_reopened).           *)
THEOREM OnlyOpenIsFinalized == StoreSpec => FinalizedFromOpen
<1>1. ASSUME StoreInv, [StoreNext]_storeVars, NEW b \in Batches,
             recs'[b] # recs[b], Outputs(recs'[b]) # {}
      PROVE  recs[b].status \in OpenStatus
  <2>1. PICK p \in Callers : Put(p) \/ FinalizeCommit(p)
    BY <1>1 DEF StoreNext, StoreStart, StartUpload, StartDelete, StartPut, StartFinalize, Begin,
                StoreStep, Acquire, GiveUp, Return, Leave, Abort, SaveContent, SaveMeta,
                CheckDelete, RemoveMeta, RemoveContent, FinalizeRead, StoreCrash, DropCalls,
                disk, storeVars
  <2>2. CallOK(call[p])
    BY <1>1 DEF StoreInv
  <2>3. CASE Put(p)
    <3>1. Outputs(call[p].rec) = {}
      BY <2>2, <2>3 DEF Put, CallOK, ShapeOK, PutOK, PutRecord
    <3>2. recs'[b] = recs[b] \/ recs'[b] = call[p].rec
      BY <1>1, <2>3 DEF Put, disk, StoreInv, StoreTypeOK
    <3> QED
      BY <1>1, <3>1, <3>2
  <2>4. CASE FinalizeCommit(p)
    <3>1. recs[call[p].batch].status \in OpenStatus
      BY <2>2, <2>4 DEF FinalizeCommit, CallOK, ShapeOK, FinalizingOK
    <3>2. call[p].batch = b
      BY <1>1, <2>4 DEF FinalizeCommit, disk, StoreInv, StoreTypeOK
    <3> QED
      BY <3>1, <3>2
  <2> QED
    BY <2>1, <2>3, <2>4
<1>2. StoreInv /\ [StoreNext]_storeVars =>
        [\A b \in Batches :
           recs'[b] # recs[b] /\ Outputs(recs'[b]) # {} => recs[b].status \in OpenStatus]_storeVars
  BY <1>1
<1> QED
  BY <1>2, StoreInvariant, PTL DEF StoreSpec, FinalizedFromOpen

-----------------------------------------------------------------------------
(***************************************************************************)
(* The service.                                                            *)
(***************************************************************************)
(* A request in progress carries a batch and a record that may be put.     *)
RequestOK(r) ==
  r.pc \notin {"idle", "finish"} =>
    /\ r.batch \in Batches
    /\ r.rec \in PutRecord
    /\ r.rec.input \in issued

ServiceInv ==
  /\ StoreInv
  /\ TypeOK
  /\ \A p \in Callers : RequestOK(req[p])

-----------------------------------------------------------------------------
LEMMA ServiceInit == Init => ServiceInv
<1> SUFFICES ASSUME Init PROVE ServiceInv
  OBVIOUS
<1>1. StoreInv
  BY InitInv DEF Init
<1>2. NoRequest \in Request /\ NoJob \in Job
  BY DEF NoRequest, Request, Pc, Absent, Meta, NoJob, Job, JobState
<1>3. TypeOK
  BY <1>1, <1>2 DEF Init, TypeOK, StoreInv
<1>4. \A p \in Callers : RequestOK(req[p])
  BY DEF Init, NoRequest, RequestOK
<1> QED
  BY <1>1, <1>3, <1>4 DEF ServiceInv

(* A call that begins is a step of the store. *)
LEMMA StartIsStep ==
  ASSUME NEW p \in Callers
  PROVE  /\ StartUpload(p) => StoreNext
         /\ \A f \in Files : StartDelete(p, f) => StoreNext
         /\ \A b \in Batches, rec \in PutRecords :
              rec.input \in issued /\ StartPut(p, b, rec) => StoreNext
         /\ \A b \in Batches, patch \in Patches : StartFinalize(p, b, patch) => StoreNext
<1>1. StartUpload(p) => StoreNext
  BY DEF StartUpload, Begin, StoreStart, StoreNext
<1>2. \A f \in Files : StartDelete(p, f) => StoreNext
  BY DEF StartDelete, Begin, StoreStart, StoreNext
<1>3. \A b \in Batches, rec \in PutRecords :
        rec.input \in issued /\ StartPut(p, b, rec) => StoreNext
  <2> SUFFICES ASSUME NEW b \in Batches, NEW rec \in PutRecords,
                      rec.input \in issued, StartPut(p, b, rec)
               PROVE  StoreNext
    OBVIOUS
  <2>1. call[p] = NoCall
    BY DEF StartPut, Begin
  <2> QED
    BY <2>1 DEF StoreStart, StoreNext
<1>4. \A b \in Batches, patch \in Patches : StartFinalize(p, b, patch) => StoreNext
  <2> SUFFICES ASSUME NEW b \in Batches, NEW patch \in Patches, StartFinalize(p, b, patch)
               PROVE  StoreNext
    OBVIOUS
  <2>1. call[p] = NoCall
    BY DEF StartFinalize, Begin
  <2> QED
    BY <2>1 DEF StoreStart, StoreNext
<1> QED
  BY <1>1, <1>2, <1>3, <1>4

LEMMA IssuedGrows ==
  ASSUME [StoreNext]_storeVars
  PROVE  issued \subseteq issued'
BY DEF StoreNext, StoreStart, StartUpload, StartDelete, StartPut, StartFinalize, Begin,
       StoreStep, Acquire, GiveUp, Return, Leave, Abort, SaveContent, SaveMeta, CheckDelete,
       RemoveMeta, RemoveContent, Removed, Put, FinalizeRead, FinalizeCommit, StoreCrash,
       DropCalls, disk, storeVars

(* A step that is one of the store's and takes request p to r.             *)
LEMMA RequestStep ==
  ASSUME ServiceInv, NEW p \in Callers, NEW r \in Request,
         [StoreNext]_storeVars,
         req' = [req EXCEPT ![p] = r],
         RequestOK(r),
         job' \in [Batches -> Job],
         past' \subseteq Batches, lost' \subseteq Batches, logged' \subseteq Batches
  PROVE  ServiceInv'
<1>1. StoreInv'
  BY NextInv DEF ServiceInv
<1>2. req' \in [Callers -> Request] /\ \A q \in Callers : req'[q] = r \/ req'[q] = req[q]
  BY DEF ServiceInv, TypeOK
<1>3. TypeOK'
  BY <1>1, <1>2 DEF TypeOK, StoreInv
<1>4. ASSUME NEW q \in Callers PROVE RequestOK(req[q])'
  <2>1. RequestOK(req'[q])
    BY <1>2 DEF ServiceInv
  <2> QED
    BY <2>1, IssuedGrows DEF RequestOK
<1> QED
  BY <1>1, <1>3, <1>4 DEF ServiceInv

(* A step of the store that no request takes part in.                      *)
LEMMA OtherStep ==
  ASSUME ServiceInv,
         [StoreNext]_storeVars,
         req' = req,
         job' \in [Batches -> Job],
         past' \subseteq Batches, lost' \subseteq Batches, logged' \subseteq Batches
  PROVE  ServiceInv'
<1>1. StoreInv'
  BY NextInv DEF ServiceInv
<1>2. TypeOK'
  BY <1>1 DEF ServiceInv, TypeOK, StoreInv
<1>3. \A q \in Callers : RequestOK(req[q])'
  BY IssuedGrows DEF ServiceInv, RequestOK
<1> QED
  BY <1>1, <1>2, <1>3 DEF ServiceInv

LEMMA RequestTypes ==
  /\ NoRequest \in Request /\ RequestOK(NoRequest)
  /\ Finishing \in Request /\ RequestOK(Finishing)
BY DEF NoRequest, Finishing, Request, RequestOK, Pc, Absent, Meta

(* What a request stores. *)
LEMMA StoreIsStart ==
  ASSUME ServiceInv, NEW p \in Callers, NEW rec, NEW r,
         RequestOK(req[p]), req[p].pc \notin {"idle", "finish"},
         rec \in PutRecord, rec.input = req[p].rec.input,
         Store(p, rec, r)
  PROVE  StoreNext /\ req' = [req EXCEPT ![p] = r] /\ past' = past
BY ServiceAssumption, StartIsStep DEF Store, Goto, RequestOK

-----------------------------------------------------------------------------
(* The provider's steps keep the type of its jobs. *)

LEMMA JobTypes ==
  ASSUME ServiceInv, NEW b \in Batches
  PROVE  /\ AcceptJob(b) => job' \in [Batches -> Job]
         /\ \A rec : CancelJob(rec, b) => job' \in [Batches -> Job]
         /\ \A rec : CancelUnanswered(rec, b) => job' \in [Batches -> Job]
         /\ UNCHANGED job => job' \in [Batches -> Job]
<1>1. job \in [Batches -> Job] /\ job[b] \in Job
  BY DEF ServiceInv, TypeOK
<1>2. [job[b] EXCEPT !.state = "running"] \in Job /\ [job[b] EXCEPT !.cancelAsked = TRUE] \in Job
  BY <1>1 DEF Job, JobState
<1>3. AcceptJob(b) => job' \in [Batches -> Job]
  BY <1>1, <1>2 DEF AcceptJob
<1>4. \A rec : CancelJob(rec, b) => job' \in [Batches -> Job]
  BY <1>1, <1>2 DEF CancelJob
<1> QED
  BY <1>1, <1>3, <1>4 DEF CancelUnanswered

LEMMA ProviderSteps ==
  ASSUME ServiceInv, NEW b \in Batches, JobEnds(b) \/ JobCloses(b) \/ WindowPasses(b)
  PROVE  [StoreNext]_storeVars /\ ServiceInv'
<1>1. job \in [Batches -> Job] /\ job[b] \in Job
  BY DEF ServiceInv, TypeOK
<1>2. CASE JobEnds(b)
  <2>1. PICK ok \in BOOLEAN, err \in BOOLEAN :
          job' = [job EXCEPT ![b].state = "ended", ![b].ok = ok, ![b].err = err]
    BY <1>2 DEF JobEnds
  <2>2. PICK j : j = [job[b] EXCEPT !.state = "ended", !.ok = ok, !.err = err]
    OBVIOUS
  <2>3. j \in Job
    BY <1>1, <2>2 DEF Job, JobState
  <2>4. job' = [job EXCEPT ![b] = j]
    BY <1>1, <2>1, <2>2
  <2>5. job' \in [Batches -> Job]
    BY <1>1, <2>3, <2>4
  <2> QED
    BY <1>2, <2>5, OtherStep DEF JobEnds, serviceVars, ServiceInv, TypeOK
<1>3. CASE JobCloses(b)
  <2>1. PICK st \in {"failed", "expired", "cancelled"} : job' = [job EXCEPT ![b].state = st]
    BY <1>3 DEF JobCloses, Closings
  <2>2. [job[b] EXCEPT !.state = st] \in Job
    BY <1>1 DEF Job, JobState
  <2>3. job' \in [Batches -> Job]
    BY <1>1, <2>1, <2>2
  <2> QED
    BY <1>3, <2>3, OtherStep DEF JobCloses, serviceVars, ServiceInv, TypeOK
<1>4. CASE WindowPasses(b)
  BY <1>4, OtherStep DEF WindowPasses, ServiceInv, TypeOK
<1> QED
  BY <1>2, <1>3, <1>4

(* The death of a gateway is a crash of the store, or ends requests that   *)
(* were not in it.                                                         *)
LEMMA CrashStep ==
  ASSUME ServiceInv, NEW g \in Gateways, Crash(g)
  PROVE  [StoreNext]_storeVars /\ ServiceInv'
<1>1. DropCalls(g) /\ UNCHANGED <<job, past, logged>>
  BY DEF Crash
<1>2. [StoreNext]_storeVars
  <2>1. CASE \E p \in Callers : GatewayOf[p] = g /\ call[p] # NoCall
    BY <1>1, <2>1 DEF StoreNext, StoreCrash
  <2>2. CASE \A p \in Callers : GatewayOf[p] = g => call[p] = NoCall
    <3>1. call' = call
      BY <1>1, <2>2 DEF DropCalls, ServiceInv, StoreInv, StoreTypeOK
    <3>2. ~(lock # NoCaller /\ GatewayOf[lock] = g)
      BY <2>2 DEF ServiceInv, StoreInv, StoreTypeOK, LockHeld, NoCall, Locked
    <3> QED
      BY <1>1, <3>1, <3>2 DEF DropCalls, storeVars, disk
  <2> QED
    BY <2>1, <2>2
<1>3. req' \in [Callers -> Request] /\ \A q \in Callers : req'[q] = NoRequest \/ req'[q] = req[q]
  BY RequestTypes DEF Crash, ServiceInv, TypeOK
<1>4. StoreInv'
  BY <1>2, NextInv DEF ServiceInv
<1>5. TypeOK'
  BY <1>1, <1>3, <1>4 DEF Crash, ServiceInv, TypeOK, StoreInv
<1>6. ASSUME NEW q \in Callers PROVE RequestOK(req[q])'
  <2>1. RequestOK(req'[q])
    BY <1>3, RequestTypes DEF ServiceInv
  <2> QED
    BY <1>2, <2>1, IssuedGrows DEF RequestOK
<1> QED
  BY <1>2, <1>4, <1>5, <1>6 DEF ServiceInv

LEMMA StoreSteps ==
  ASSUME ServiceInv, NEW p \in Callers, StoreStep(p), UNCHANGED <<serviceVars, job>>
  PROVE  [StoreNext]_storeVars /\ ServiceInv'
BY OtherStep DEF StoreNext, serviceVars, ServiceInv, TypeOK

(* A record read while open may be put again. *)
LEMMA OpenMayBePut ==
  ASSUME ServiceInv, NEW b \in Batches, recs[b].status \in OpenStatus
  PROVE  recs[b] \in PutRecord /\ recs[b].input \in issued
BY DEF ServiceInv, StoreInv, StoreTypeOK, DiskOK, OpenStatus, PutRecord, Named

(* The first step of each request. *)
LEMMA Beginnings ==
  ASSUME ServiceInv, NEW p \in Callers, Begins(p)
  PROVE  [StoreNext]_storeVars /\ ServiceInv'
<1> USE DEF Goto
<1>1. CASE Upload(p)
  <2>1. StoreNext
    BY <1>1, StartIsStep DEF Upload
  <2> QED
    BY <1>1, <2>1, RequestTypes, RequestStep DEF Upload, ServiceInv, TypeOK
<1>2. ASSUME NEW f \in Files, Delete(p, f) PROVE [StoreNext]_storeVars /\ ServiceInv'
  <2>1. StoreNext
    BY <1>2, StartIsStep DEF Delete
  <2> QED
    BY <1>2, <2>1, RequestTypes, RequestStep DEF Delete, ServiceInv, TypeOK
<1>3. ASSUME NEW b \in Batches, NEW f \in Files, NEW k \in Backends, Create(p, b, f, k)
      PROVE  [StoreNext]_storeVars /\ ServiceInv'
  <2>1. PICK rec : rec = NewBatch(f, k)
    OBVIOUS
  <2>2. f \in issued
    BY <1>3 DEF Create, ServiceInv, StoreInv, DiskOK
  <2>3. rec \in Meta /\ rec.input = f /\ rec.backend = k /\ rec.status = "validating"
        /\ Outputs(rec) = {}
    BY <2>1 DEF NewBatch, Absent, Meta, Status, OpenStatus, Outputs
  <2>4. rec \in PutRecord
    BY <2>3, StoreAssumption DEF PutRecord
  <2>5. StoreNext
    BY <1>3, <2>1, <2>2, <2>3, <2>4, ServiceAssumption, StartIsStep DEF Create
  <2>6. PICK r : r = [pc |-> "save", batch |-> b, rec |-> rec]
    OBVIOUS
  <2>7. r \in Request /\ RequestOK(r)
    BY <2>2, <2>3, <2>4, <2>6 DEF Request, Pc, RequestOK
  <2>8. req' = [req EXCEPT ![p] = r]
    BY <1>3, <2>1, <2>6 DEF Create
  <2> QED
    BY <1>3, <2>5, <2>7, <2>8, RequestStep DEF Create, ServiceInv, TypeOK
<1>4. ASSUME NEW b \in Batches, Refresh(p, b) \/ Cancel(p, b)
      PROVE  [StoreNext]_storeVars /\ ServiceInv'
  <2>1. recs[b] \in PutRecord /\ recs[b] \in Meta /\ recs[b].input \in issued
    BY <1>4, OpenMayBePut DEF Refresh, Cancel, OpenStatus, PutRecord
  <2>2. PICK pc \in {"refresh", "cancel"} :
          req' = [req EXCEPT ![p] = [pc |-> pc, batch |-> b, rec |-> recs[b]]]
    BY <1>4 DEF Refresh, Cancel
  <2>3. PICK r : r = [pc |-> pc, batch |-> b, rec |-> recs[b]]
    OBVIOUS
  <2>4. r \in Request /\ RequestOK(r)
    BY <2>1, <2>3 DEF Request, Pc, RequestOK
  <2>5. req' = [req EXCEPT ![p] = r] /\ UNCHANGED <<storeVars, job, past, lost, logged>>
    BY <1>4, <2>2, <2>3 DEF Refresh, Cancel
  <2> QED
    BY <2>4, <2>5, RequestStep DEF ServiceInv, TypeOK
<1> QED
  BY <1>1, <1>2, <1>3, <1>4 DEF Begins

(* The steps of a request that read an answer of the store.                *)
LEMMA Answers ==
  ASSUME ServiceInv, NEW p \in Callers, SavedBatch(p) \/ Recorded(p) \/ Finish(p)
  PROVE  [StoreNext]_storeVars /\ ServiceInv'
<1>1. /\ Return(p) /\ UNCHANGED <<job, past, lost, logged>>
      /\ \E r \in {NoRequest, [req[p] EXCEPT !.pc = "submit"], [req[p] EXCEPT !.pc = "orphan"]} :
           req' = [req EXCEPT ![p] = r]
      /\ req' = [req EXCEPT ![p] = NoRequest] \/ req[p].pc \notin {"idle", "finish"}
  BY DEF SavedBatch, Recorded, Finish, Goto
<1>2. StoreNext
  BY <1>1 DEF StoreNext
<1>3. CASE req' = [req EXCEPT ![p] = NoRequest]
  BY <1>1, <1>2, <1>3, RequestTypes, RequestStep DEF ServiceInv, TypeOK
<1>4. ASSUME NEW pc \in {"submit", "orphan"}, req[p].pc \notin {"idle", "finish"},
             req' = [req EXCEPT ![p] = [req[p] EXCEPT !.pc = pc]]
      PROVE  [StoreNext]_storeVars /\ ServiceInv'
  <2>1. req[p] \in Request /\ RequestOK(req[p])
    BY DEF ServiceInv, TypeOK
  <2>2. PICK r : r = [req[p] EXCEPT !.pc = pc]
    OBVIOUS
  <2>3. r \in Request /\ RequestOK(r)
    BY <1>4, <2>1, <2>2 DEF Request, Pc, RequestOK
  <2>4. req' = [req EXCEPT ![p] = r]
    BY <1>4, <2>2
  <2> QED
    BY <1>1, <1>2, <2>3, <2>4, RequestStep DEF ServiceInv, TypeOK
<1> QED
  BY <1>1, <1>3, <1>4

(* The steps that leave the store alone.                                   *)
LEMMA Quiet ==
  ASSUME ServiceInv, NEW p \in Callers,
         Submit(p) \/ CancelOrphan(p) \/ PollMisses(p)
  PROVE  [StoreNext]_storeVars /\ ServiceInv'
<1>1. req[p] \in Request /\ RequestOK(req[p])
  BY DEF ServiceInv, TypeOK
<1>2. CASE Submit(p)
  <2>1. PICK r : r = [req[p] EXCEPT !.pc = "answer"]
    OBVIOUS
  <2>2. r \in Request /\ RequestOK(r) /\ req[p].batch \in Batches
    BY <1>1, <1>2, <2>1 DEF Submit, Request, Pc, RequestOK
  <2>3. req' = [req EXCEPT ![p] = r]
    BY <1>2, <2>1 DEF Submit, Goto
  <2>4. job' \in [Batches -> Job]
    BY <1>2, <2>2, JobTypes DEF Submit
  <2> QED
    BY <1>2, <2>2, <2>3, <2>4, RequestStep DEF Submit, Goto, ServiceInv, TypeOK
<1>3. CASE CancelOrphan(p)
  <2>1. req[p].batch \in Batches
    BY <1>1, <1>3 DEF CancelOrphan, RequestOK
  <2>2. job' \in [Batches -> Job] /\ logged' \subseteq Batches
    BY <1>3, <2>1, JobTypes DEF CancelOrphan, ServiceInv, TypeOK
  <2> QED
    BY <1>3, <2>2, RequestTypes, RequestStep DEF CancelOrphan, GiveUpRequest, Goto, ServiceInv, TypeOK
<1>4. CASE PollMisses(p)
  BY <1>4, RequestTypes, RequestStep DEF PollMisses, GiveUpRequest, Goto, ServiceInv, TypeOK
<1> QED
  BY <1>2, <1>3, <1>4

(* The steps that put the record the request carries, with a new status.   *)
LEMMA PutStep ==
  ASSUME ServiceInv, NEW p \in Callers, req[p].pc \notin {"idle", "finish"},
         NEW st \in Status, NEW rec, NEW r \in Request,
         rec = [req[p].rec EXCEPT !.status = st],
         Store(p, rec, r), RequestOK(r),
         job' \in [Batches -> Job], lost' \subseteq Batches, logged' \subseteq Batches
  PROVE  [StoreNext]_storeVars /\ ServiceInv'
<1>1. RequestOK(req[p])
  BY DEF ServiceInv
<1>2. /\ req[p].rec \in Meta /\ Outputs(req[p].rec) = {}
      /\ req[p].rec.backend # NoBackend /\ req[p].rec.input # NoFile
  BY <1>1 DEF RequestOK, PutRecord
<1>3. rec \in PutRecord /\ rec.input = req[p].rec.input
  BY <1>2 DEF Meta, PutRecord, Outputs, Status, OpenStatus, TerminalStatus
<1>4. StoreNext /\ req' = [req EXCEPT ![p] = r] /\ past' = past
  BY <1>1, <1>3, StoreIsStart
<1> QED
  BY <1>4, RequestStep DEF ServiceInv, TypeOK

LEMMA Puts ==
  ASSUME ServiceInv, NEW p \in Callers,
         \/ SubmitFailed(p) \/ Expire(p) \/ CancelExpired(p)
         \/ PollRunning(p) \/ PollClosed(p) \/ CancelUpstream(p)
  PROVE  [StoreNext]_storeVars /\ ServiceInv'
<1>1. req[p] \in Request /\ RequestOK(req[p]) /\ req[p].pc \notin {"idle", "finish"}
  BY DEF ServiceInv, TypeOK, SubmitFailed, Expire, CancelExpired, PollRunning, PollClosed,
         CancelUpstream, Polling
<1>2. req[p].batch \in Batches
  BY <1>1 DEF RequestOK
<1>3. /\ job' \in [Batches -> Job] /\ lost' \subseteq Batches /\ logged' \subseteq Batches
  BY <1>2, JobTypes DEF SubmitFailed, Expire, CancelExpired, PollRunning, PollClosed,
                        CancelUpstream, ServiceInv, TypeOK
<1>4. CASE \E st \in Status : Store(p, [req[p].rec EXCEPT !.status = st], Finishing)
  <2>1. PICK st \in Status : Store(p, [req[p].rec EXCEPT !.status = st], Finishing)
    BY <1>4
  <2>2. PICK rec : rec = [req[p].rec EXCEPT !.status = st]
    OBVIOUS
  <2> QED
    BY <1>1, <1>3, <2>1, <2>2, RequestTypes, PutStep
<1>5. CASE GiveUpRequest(p)
  BY <1>3, <1>5, RequestTypes, RequestStep DEF GiveUpRequest, Goto, ServiceInv, TypeOK
<1>6. CASE Expire(p) /\ req[p].rec.ref
  <2>1. PICK r : r = [req[p] EXCEPT !.pc = "expire"]
    OBVIOUS
  <2>2. r \in Request /\ RequestOK(r)
    BY <1>1, <2>1 DEF Request, Pc, RequestOK
  <2>3. req' = [req EXCEPT ![p] = r] /\ UNCHANGED <<storeVars, past>>
    BY <1>6, <2>1 DEF Expire, Goto
  <2> QED
    BY <1>3, <2>2, <2>3, RequestStep DEF ServiceInv, TypeOK
<1>7. {"failed", "expired", "cancelled", "cancelling", "in_progress"} \subseteq Status
  BY DEF Status, OpenStatus, TerminalStatus
<1>8. \/ \E st \in Status : Store(p, [req[p].rec EXCEPT !.status = st], Finishing)
      \/ GiveUpRequest(p)
      \/ Expire(p) /\ req[p].rec.ref
  BY <1>7 DEF SubmitFailed, Expire, Expired, CancelExpired, PollRunning, PollClosed,
              CancelUpstream
<1> QED
  BY <1>4, <1>5, <1>6, <1>8

LEMMA SubmitAcceptedStep ==
  ASSUME ServiceInv, NEW p \in Callers, SubmitAccepted(p)
  PROVE  [StoreNext]_storeVars /\ ServiceInv'
<1>1. req[p] \in Request /\ RequestOK(req[p]) /\ req[p].pc = "answer"
  BY DEF ServiceInv, TypeOK, SubmitAccepted
<1>2. PICK rec : rec = [req[p].rec EXCEPT !.ref = TRUE, !.status = "in_progress"]
  OBVIOUS
<1>3. /\ req[p].rec \in Meta /\ Outputs(req[p].rec) = {}
      /\ req[p].rec.backend # NoBackend /\ req[p].rec.input # NoFile
      /\ req[p].batch \in Batches /\ req[p].rec.input \in issued
  BY <1>1 DEF RequestOK, PutRecord
<1>4. rec \in Meta /\ rec \in PutRecord /\ rec.input = req[p].rec.input
  BY <1>2, <1>3 DEF Meta, PutRecord, Outputs, Status, OpenStatus, TerminalStatus
<1>5. PICK r : r = [req[p] EXCEPT !.pc = "record", !.rec = rec]
  OBVIOUS
<1>6. r \in Request /\ RequestOK(r)
  BY <1>1, <1>3, <1>4, <1>5 DEF Request, Pc, RequestOK
<1>7. Store(p, rec, r) /\ UNCHANGED <<job, lost, logged>>
  BY <1>2, <1>5 DEF SubmitAccepted
<1>8. StoreNext /\ req' = [req EXCEPT ![p] = r] /\ past' = past
  BY <1>1, <1>4, <1>7, StoreIsStart
<1> QED
  BY <1>6, <1>7, <1>8, RequestStep DEF ServiceInv, TypeOK

LEMMA PollDoneStep ==
  ASSUME ServiceInv, NEW p \in Callers, PollDone(p)
  PROVE  [StoreNext]_storeVars /\ ServiceInv'
<1>1. RequestOK(req[p]) /\ req[p].pc = "refresh"
  BY DEF ServiceInv, PollDone, Polling
<1>2. req[p].batch \in Batches
  BY <1>1 DEF RequestOK
<1>3. Outcome(req[p].rec, job[req[p].batch]) \in FinalizePatch
  BY <1>2 DEF ServiceInv, TypeOK, Job, Outcome, FinalizePatch
<1>4. StoreNext
  BY <1>2, <1>3, ServiceAssumption, StartIsStep DEF PollDone
<1> QED
  BY <1>4, RequestTypes, RequestStep DEF PollDone, Goto, ServiceInv, TypeOK

LEMMA ServiceNext ==
  ASSUME ServiceInv, [Next]_vars
  PROVE  [StoreNext]_storeVars /\ ServiceInv'
<1>1. ASSUME NEW p \in Callers, Continues(p) PROVE [StoreNext]_storeVars /\ ServiceInv'
  BY <1>1, StoreSteps, Answers, Quiet, Puts, SubmitAcceptedStep, PollDoneStep DEF Continues
<1>2. CASE UNCHANGED vars
  BY <1>2, OtherStep DEF vars, serviceVars, ServiceInv, TypeOK
<1> QED
  BY <1>1, <1>2, Beginnings, ProviderSteps, CrashStep DEF Next

-----------------------------------------------------------------------------
(* Records that tell the truth about the provider's job.                   *)
(*                                                                         *)
(* A record read before may be written later, so what it says must stay    *)
(* true while the job goes on: Believable does (Grows).  It holds of the   *)
(* stored records and of every copy a request or a call carries.           *)

Asked(j) == j.cancelAsked \/ j.state = "cancelled"

Believable(j, rec) ==
  /\ rec.ref => j.state # "none"
  /\ rec.status \in {"in_progress", "cancelling"} => rec.ref
  /\ rec.status \in {"cancelling", "cancelled"} => Asked(j)

(* What a completed record says of its job. *)
OutcomeTrue(j, rec) ==
  /\ rec.status = "completed" =>
       /\ j.state = "ended"
       /\ j.ok \/ ~j.err
       /\ (rec.out # NoFile) <=> j.ok
       /\ (rec.err # NoFile) <=> j.err
  /\ rec.status \in OpenStatus \cup {"expired"} => Outputs(rec) = {}

RecordTrue(j, rec) == Believable(j, rec) /\ OutcomeTrue(j, rec)

(* The outputs a finalisation has named so far are those it has saved.     *)
NamesTrue(c) ==
  /\ c.at = "read" => c.slot = "none"
  /\ c.at \in {"content", "meta"} =>
       \/ c.slot = "out" /\ c.patch.ok /\ c.rec.out = NoFile /\ c.rec.err = NoFile
       \/ /\ c.slot = "err" /\ c.patch.err /\ c.rec.err = NoFile
          /\ (c.rec.out # NoFile) <=> c.patch.ok
  /\ c.at = "commit" => /\ (c.rec.out # NoFile) <=> c.patch.ok
                        /\ (c.rec.err # NoFile) <=> c.patch.err

PatchTrue(j, patch) ==
  /\ j.state = "ended" /\ patch.ok = j.ok /\ patch.err = j.err
  /\ patch.status = "completed" => j.ok \/ ~j.err
  /\ patch.status = "cancelled" => Asked(j)

CallTrue(j, c) ==
  /\ c.op = "put" => Believable(j, c.rec) /\ c.rec.status # "completed"
  /\ c.op = "finalize" => PatchTrue(j, c.patch) /\ NamesTrue(c)

RequestTrue(j, r) ==
  r.pc \notin {"idle", "finish"} =>
    Believable(j, r.rec) /\ (r.pc = "answer" => j.state # "none")

Truth ==
  /\ \A b \in Batches : RecordTrue(job[b], recs[b])
  /\ \A p \in Callers : /\ CallTrue(job[call[p].batch], call[p])
                        /\ RequestTrue(job[req[p].batch], req[p])

(* How a job goes on. *)
Grows(j, k) ==
  /\ j.state # "none" => k.state # "none"
  /\ j.cancelAsked => k.cancelAsked
  /\ j.state \in {"ended", "cancelled"} => k.state = j.state /\ k.ok = j.ok /\ k.err = j.err
-----------------------------------------------------------------------------
(* What a step of the store does to a call and to the records.             *)

GoesOn(c, d) ==
  /\ d.op = c.op /\ d.batch = c.batch /\ d.patch = c.patch
  /\ c.op = "put" =>
       d.rec = c.rec /\ (d.at \in {"wait", "put"} => c.at \in {"wait", "put"})
  /\ c.op = "finalize" /\ NamesTrue(c) => NamesTrue(d)

(* The call is over, or goes on with what it carries.                      *)
Effect(c, d) == (d.at \in Results /\ d.op = "none") \/ GoesOn(c, d)

(* The records after the step of call c to d. *)
Written(c, d) ==
  \/ recs' = recs /\ (c.op = "put" => d.at # "ok")
  \/ /\ c.op = "put" /\ c.at = "put"
     /\ recs' = [recs EXCEPT ![c.batch] = c.rec]
  \/ /\ c.op = "finalize" /\ c.at = "commit"
     /\ recs' = [recs EXCEPT ![c.batch] = [c.rec EXCEPT !.status = c.patch.status]]

(* A call that goes on with what it carries, towards its end.              *)
LEMMA PlainEffect ==
  ASSUME NEW c \in Call, NEW at \in {"remove", "remove_content"},
         NEW d, d.at = at, d.op = c.op, d.batch = c.batch, d.patch = c.patch, d.rec = c.rec
  PROVE  Effect(c, d)
BY DEF Effect, GoesOn, NamesTrue

LEMMA LeaveEffect ==
  ASSUME StoreInv, NEW p \in Callers, NEW result \in Results, Leave(p, result)
  PROVE  /\ Effect(call[p], call'[p]) /\ call'[p].at = result
         /\ \A q \in Callers : q # p => call'[q] = call[q]
<1>1. call \in [Callers -> Call]
  BY DEF StoreInv, StoreTypeOK
<1>2. call'[p] = Over(result) /\ \A q \in Callers : q # p => call'[q] = call[q]
  BY <1>1 DEF Leave
<1> QED
  BY <1>2, OverOK DEF Effect

LEMMA AbortEffect ==
  ASSUME StoreInv, NEW p \in Callers, Abort(p)
  PROVE  /\ Effect(call[p], call'[p]) /\ call'[p].at \in {"error", "remove"}
         /\ \A q \in Callers : q # p => call'[q] = call[q]
<1>1. CASE call[p].files = {}
  BY <1>1, LeaveEffect DEF Abort, Results
<1>2. CASE call[p].files # {}
  <2>1. call \in [Callers -> Call]
    BY DEF StoreInv, StoreTypeOK
  <2>2. PICK d : d = [call[p] EXCEPT !.at = "remove"]
    OBVIOUS
  <2>3. d.at = "remove" /\ d.op = call[p].op /\ d.batch = call[p].batch
        /\ d.patch = call[p].patch /\ d.rec = call[p].rec
    BY <2>1, <2>2 DEF Call
  <2>4. call'[p] = d /\ \A q \in Callers : q # p => call'[q] = call[q]
    BY <1>2, <2>1, <2>2 DEF Abort
  <2> QED
    BY <2>1, <2>3, <2>4, PlainEffect
<1> QED
  BY <1>1, <1>2

LEMMA RemovedEffect ==
  ASSUME StoreInv, NEW p \in Callers, NEW f, NEW result \in Results, Removed(p, f, result)
  PROVE  /\ Effect(call[p], call'[p]) /\ call'[p].at \in {result, "remove"}
         /\ \A q \in Callers : q # p => call'[q] = call[q]
<1>1. CASE call[p].files = {f}
  BY <1>1, LeaveEffect DEF Removed
<1>2. CASE call[p].files # {f}
  <2>1. call \in [Callers -> Call]
    BY DEF StoreInv, StoreTypeOK
  <2>2. PICK d : d = [call[p] EXCEPT !.files = @ \ {f}, !.at = "remove"]
    OBVIOUS
  <2>3. d.at = "remove" /\ d.op = call[p].op /\ d.batch = call[p].batch
        /\ d.patch = call[p].patch /\ d.rec = call[p].rec
    BY <2>1, <2>2 DEF Call
  <2>4. call'[p] = d /\ \A q \in Callers : q # p => call'[q] = call[q]
    BY <1>2, <2>1, <2>2 DEF Removed
  <2> QED
    BY <2>1, <2>3, <2>4, PlainEffect
<1> QED
  BY <1>1, <1>2

(* The next file of a finalisation, or its record: what it has named is    *)
(* what it has saved.                                                      *)
LEMMA ResumeNames ==
  ASSUME NEW c \in Call,
         \/ c.slot = "none" /\ c.rec.out = NoFile /\ c.rec.err = NoFile
         \/ /\ c.slot = "out" /\ c.patch.ok
            /\ c.rec.out # NoFile /\ c.rec.err = NoFile
         \/ /\ c.slot = "err" /\ c.patch.err /\ c.rec.err # NoFile
            /\ (c.rec.out # NoFile) <=> c.patch.ok
  PROVE  NamesTrue(Resume(c))
<1> DEFINE next == SlotAfter(c.slot, c.patch)
           at == IF next = "none" THEN "commit" ELSE "content"
<1>1. c.patch.ok \in BOOLEAN /\ c.patch.err \in BOOLEAN
  BY DEF Call, FinalizePatch
<1>2. PICK d : d = [c EXCEPT !.slot = next, !.at = at]
  OBVIOUS
<1> SUFFICES NamesTrue(d)
  BY <1>2 DEF Resume
<1>3. d.slot = next /\ d.at = at /\ d.rec = c.rec /\ d.patch = c.patch
  BY <1>2 DEF Call
<1>5. /\ next \in {"none", "out", "err"}
      /\ next = "out" <=> c.slot = "none" /\ c.patch.ok
      /\ next = "err" <=> next # "out" /\ c.slot \in {"none", "out"} /\ c.patch.err
      /\ at = (IF next = "none" THEN "commit" ELSE "content")
  BY <1>1 DEF SlotAfter
<1> HIDE DEF next, at
<1>6. CASE next = "none"
  <2>1. /\ (c.rec.out # NoFile) <=> c.patch.ok
        /\ (c.rec.err # NoFile) <=> c.patch.err
    BY <1>1, <1>5, <1>6
  <2>2. d.at = "commit"
    BY <1>3, <1>5, <1>6
  <2> QED
    BY <1>3, <2>1, <2>2 DEF NamesTrue
<1>7. CASE next = "out"
  BY <1>3, <1>5, <1>7 DEF NamesTrue
<1>8. CASE next = "err"
  <2>1. c.patch.err /\ c.rec.err = NoFile /\ ((c.rec.out # NoFile) <=> c.patch.ok)
    BY <1>1, <1>5, <1>8
  <2>2. d.at = "content" /\ d.slot = "err"
    BY <1>3, <1>5, <1>8
  <2> QED
    BY <1>3, <2>1, <2>2 DEF NamesTrue
<1> QED
  BY <1>5, <1>6, <1>7, <1>8

LEMMA ResumeKeeps ==
  ASSUME NEW c \in Call
  PROVE  LET d == Resume(c) IN d.op = c.op /\ d.batch = c.batch /\ d.patch = c.patch
BY DEF Resume, Call

(* One lemma for all steps of the store.                                   *)
LEMMA StoreEffect ==
  ASSUME StoreInv, NEW p \in Callers, StoreStep(p)
  PROVE  /\ Effect(call[p], call'[p]) /\ Written(call[p], call'[p])
         /\ \A q \in Callers : q # p => call'[q] = call[q]
<1> DEFINE Others == \A q \in Callers : q # p => call'[q] = call[q]
<1>0. call \in [Callers -> Call] /\ call[p] \in Call /\ CallOK(call[p])
  BY DEF StoreInv, StoreTypeOK
<1>1. CASE Acquire(p)
  <2>1. PICK d : d = Enter(call[p])
    OBVIOUS
  <2>2. call'[p] = d /\ Others /\ recs' = recs
    BY <1>0, <1>1, <2>1 DEF Acquire, disk
  <2>3. /\ d.op = call[p].op /\ d.batch = call[p].batch /\ d.patch = call[p].patch
        /\ d.rec = call[p].rec
    BY <1>0, <2>1 DEF Enter, Call
  <2>4. /\ d.at = "content" <=> d.op = "upload"
        /\ d.at \notin {"meta", "commit", "wait", "ok"}
        /\ d.op # "upload" => d.slot = "none"
    BY <1>0, <2>1 DEF Enter, Call
  <2>5. Effect(call[p], d)
    BY <1>1, <2>3, <2>4 DEF Effect, GoesOn, NamesTrue, Acquire
  <2> QED
    BY <2>2, <2>4, <2>5 DEF Written
<1>2. CASE GiveUp(p)
  <2>1. call'[p] = Over("error") /\ Others /\ recs' = recs
    BY <1>0, <1>2 DEF GiveUp, disk
  <2> QED
    BY <2>1, OverOK DEF Effect, Written, Results
<1>3. CASE SaveContent(p)
  <2>1. recs' = recs
    BY <1>3 DEF SaveContent, disk
  <2>2. ASSUME NEW f \in Files, call' = [call EXCEPT ![p].file = f, ![p].at = "meta"]
        PROVE  Effect(call[p], call'[p]) /\ Others /\ call'[p].at = "meta"
    <3>1. PICK d : d = [call[p] EXCEPT !.file = f, !.at = "meta"]
      OBVIOUS
    <3>2. call'[p] = d /\ Others
      BY <1>0, <2>2, <3>1
    <3>3. /\ d.op = call[p].op /\ d.batch = call[p].batch /\ d.patch = call[p].patch
          /\ d.rec = call[p].rec /\ d.at = "meta" /\ d.slot = call[p].slot
      BY <1>0, <3>1 DEF Call
    <3> QED
      BY <1>3, <3>2, <3>3 DEF SaveContent, Effect, GoesOn, NamesTrue
  <2>3. CASE Abort(p)
    BY <2>1, <2>3, AbortEffect DEF Written
  <2> QED
    BY <1>3, <2>1, <2>2, <2>3 DEF SaveContent, Written
<1>4. CASE SaveMeta(p)
  <2>1. recs' = recs /\ call[p].at = "meta" /\ call[p].op \in {"upload", "finalize"}
    BY <1>0, <1>4 DEF SaveMeta, disk, CallOK, ShapeOK
  <2>2. CASE Abort(p)
    BY <2>1, <2>2, AbortEffect DEF Written
  <2>3. CASE call[p].op = "upload" /\ Leave(p, "ok")
    BY <2>1, <2>3, LeaveEffect DEF Written, Results
  <2>4. CASE call[p].op = "finalize" /\ call' = [call EXCEPT ![p] = Resume(Saved(@))]
    <3> DEFINE c == call[p]
    <3>1. PICK e : e = Saved(c)
      OBVIOUS
    <3>2. c.file \in Files
      BY <1>0, <2>1 DEF CallOK, SavingOK, StoreInv, StoreTypeOK
    <3>3. /\ e \in Call /\ e.op = c.op /\ e.batch = c.batch /\ e.patch = c.patch
          /\ e.slot = c.slot
          /\ e.rec.out = (IF c.slot = "out" THEN c.file ELSE c.rec.out)
          /\ e.rec.err = (IF c.slot = "err" THEN c.file ELSE c.rec.err)
      BY <1>0, <3>1, <3>2, ZenonT(60) DEF Saved, Call, Meta
    <3>4. NamesTrue(c) => NamesTrue(Resume(e))
      <4>1. c.file # NoFile
        BY <3>2, StoreAssumption
      <4> QED
        BY <2>1, <3>3, <4>1, ResumeNames DEF NamesTrue
    <3>5. call'[p] = Resume(e) /\ Others
      BY <1>0, <2>4, <3>1
    <3>6. Effect(c, call'[p])
      BY <2>4, <3>3, <3>4, <3>5, ResumeKeeps DEF Effect, GoesOn
    <3> QED
      BY <2>1, <2>4, <3>5, <3>6 DEF Written
  <2> QED
    BY <1>4, <2>1, <2>2, <2>3, <2>4 DEF SaveMeta
<1>5. CASE CheckDelete(p)
  <2>1. recs' = recs /\ call[p].op = "delete"
    BY <1>0, <1>5 DEF CheckDelete, disk, CallOK, ShapeOK
  <2>2. CASE Leave(p, "conflict") \/ Leave(p, "error")
    BY <2>1, <2>2, LeaveEffect DEF Written, Results
  <2>3. CASE call' = [call EXCEPT ![p].at = "remove", ![p].files = {call[p].file}]
    <3>1. PICK d : d = [call[p] EXCEPT !.at = "remove", !.files = {call[p].file}]
      OBVIOUS
    <3>2. call'[p] = d /\ Others
      BY <1>0, <2>3, <3>1
    <3>3. /\ d.op = call[p].op /\ d.batch = call[p].batch /\ d.patch = call[p].patch
          /\ d.rec = call[p].rec /\ d.at = "remove"
      BY <1>0, <3>1 DEF Call
    <3> QED
      BY <1>0, <2>1, <3>2, <3>3, PlainEffect DEF Written
  <2> QED
    BY <1>5, <2>2, <2>3 DEF CheckDelete
<1>6. CASE RemoveMeta(p)
  <2>1. recs' = recs
    BY <1>6 DEF RemoveMeta, disk
  <2>2. ASSUME NEW f, call' = [call EXCEPT ![p].file = f, ![p].at = "remove_content"]
        PROVE  Effect(call[p], call'[p]) /\ Others /\ call'[p].at = "remove_content"
    <3>1. PICK d : d = [call[p] EXCEPT !.file = f, !.at = "remove_content"]
      OBVIOUS
    <3>2. call'[p] = d /\ Others
      BY <1>0, <2>2, <3>1
    <3>3. /\ d.op = call[p].op /\ d.batch = call[p].batch /\ d.patch = call[p].patch
          /\ d.rec = call[p].rec /\ d.at = "remove_content"
      BY <1>0, <3>1 DEF Call
    <3> QED
      BY <1>0, <3>2, <3>3, PlainEffect
  <2>3. ASSUME NEW f, Removed(p, f, "error")
        PROVE  Effect(call[p], call'[p]) /\ Others /\ call'[p].at \in {"error", "remove"}
    BY <2>3, RemovedEffect DEF Results
  <2> QED
    BY <1>6, <2>1, <2>2, <2>3 DEF RemoveMeta, Written
<1>7. CASE RemoveContent(p)
  <2>1. recs' = recs
    BY <1>7 DEF RemoveContent, disk
  <2>2. PICK result \in Results : /\ Removed(p, call[p].file, result)
                                  /\ result = "ok" => call[p].op = "delete"
    BY <1>7 DEF RemoveContent, Results
  <2>3. Effect(call[p], call'[p]) /\ Others /\ call'[p].at \in {result, "remove"}
    BY <2>2, RemovedEffect
  <2> QED
    BY <2>1, <2>2, <2>3 DEF Written
<1>8. CASE Put(p)
  <2>1. call[p].op = "put" /\ call[p].at = "put"
    BY <1>0, <1>8 DEF Put, CallOK, ShapeOK
  <2>2. CASE Leave(p, "ok") /\ recs' = [recs EXCEPT ![call[p].batch] = call[p].rec]
    BY <2>1, <2>2, LeaveEffect DEF Written, Results
  <2>3. CASE Leave(p, "error") /\ UNCHANGED disk
    BY <2>1, <2>3, LeaveEffect DEF Written, Results, disk
  <2> QED
    BY <1>8, <2>2, <2>3 DEF Put
<1>9. CASE FinalizeRead(p)
  <2>1. recs' = recs /\ call[p].op = "finalize" /\ call[p].at = "read" /\ call[p].batch \in Batches
    BY <1>0, <1>9 DEF FinalizeRead, disk, CallOK, ShapeOK
  <2>2. CASE Leave(p, "skipped") \/ Leave(p, "error")
    BY <2>1, <2>2, LeaveEffect DEF Written, Results
  <2>3. CASE /\ statusAllowsFinalize(recs[call[p].batch].status)
             /\ call' = [call EXCEPT ![p] = Resume([call[p] EXCEPT !.rec = recs[call[p].batch]])]
    <3> DEFINE c == call[p]
    <3>1. PICK e : e = [c EXCEPT !.rec = recs[c.batch]]
      OBVIOUS
    <3>2. /\ e \in Call /\ e.op = c.op /\ e.batch = c.batch /\ e.patch = c.patch
          /\ e.slot = c.slot /\ e.rec = recs[c.batch]
      BY <1>0, <2>1, <3>1 DEF Call, StoreInv, StoreTypeOK
    <3>3. recs[c.batch].out = NoFile /\ recs[c.batch].err = NoFile
      BY <2>1, <2>3 DEF StoreInv, DiskOK, statusAllowsFinalize, Outputs
    <3>4. NamesTrue(c) => NamesTrue(Resume(e))
      BY <2>1, <3>2, <3>3, ResumeNames DEF NamesTrue
    <3>5. call'[p] = Resume(e) /\ Others
      BY <1>0, <2>3, <3>1
    <3>6. Effect(c, call'[p])
      BY <2>1, <3>2, <3>4, <3>5, ResumeKeeps DEF Effect, GoesOn
    <3> QED
      BY <2>1, <3>5, <3>6 DEF Written
  <2> QED
    BY <1>9, <2>2, <2>3 DEF FinalizeRead
<1>10. CASE FinalizeCommit(p)
  <2>1. call[p].op = "finalize" /\ call[p].at = "commit"
    BY <1>0, <1>10 DEF FinalizeCommit, CallOK, ShapeOK
  <2>2. CASE /\ Leave(p, "ok")
             /\ recs' = [recs EXCEPT ![call[p].batch] =
                           [call[p].rec EXCEPT !.status = call[p].patch.status]]
    BY <2>1, <2>2, LeaveEffect DEF Written, Results
  <2>3. CASE Abort(p) /\ UNCHANGED disk
    BY <2>1, <2>3, AbortEffect DEF Written, disk
  <2> QED
    BY <1>10, <2>2, <2>3 DEF FinalizeCommit
<1> QED
  BY <1>1, <1>2, <1>3, <1>4, <1>5, <1>6, <1>7, <1>8, <1>9, <1>10 DEF StoreStep

-----------------------------------------------------------------------------
(* Records stay true.                                                      *)

LEMMA GrowsKeeps ==
  ASSUME NEW j, NEW k, Grows(j, k)
  PROVE  /\ \A rec : Believable(j, rec) => Believable(k, rec)
         /\ \A rec : RecordTrue(j, rec) => RecordTrue(k, rec)
         /\ \A c : CallTrue(j, c) => CallTrue(k, c)
         /\ \A r : RequestTrue(j, r) => RequestTrue(k, r)
<1>1. Asked(j) => Asked(k)
  BY DEF Grows, Asked
<1>2. ASSUME NEW rec, Believable(j, rec) PROVE Believable(k, rec)
  BY <1>1, <1>2 DEF Grows, Believable
<1>3. ASSUME NEW rec, OutcomeTrue(j, rec) PROVE OutcomeTrue(k, rec)
  BY <1>3 DEF Grows, OutcomeTrue
<1>4. ASSUME NEW c, CallTrue(j, c) PROVE CallTrue(k, c)
  BY <1>1, <1>2, <1>4 DEF Grows, CallTrue, PatchTrue
<1>5. ASSUME NEW r, RequestTrue(j, r) PROVE RequestTrue(k, r)
  BY <1>2, <1>5 DEF Grows, RequestTrue
<1> QED
  BY <1>2, <1>3, <1>4, <1>5 DEF RecordTrue

JobsGrow == \A b \in Batches : Grows(job[b], job'[b])

LEMMA JobSteps ==
  ASSUME job \in [Batches -> Job], NEW b \in Batches
  PROVE  /\ UNCHANGED job => JobsGrow
         /\ AcceptJob(b) => JobsGrow /\ job'[b].state # "none"
         /\ \A rec : CancelJob(rec, b) => JobsGrow /\ job'[b].cancelAsked /\ rec.ref
         /\ \A rec : CancelUnanswered(rec, b) => JobsGrow
         /\ JobEnds(b) \/ JobCloses(b) => JobsGrow
<1>0. job[b] \in Job
  OBVIOUS
<1>1. UNCHANGED job => JobsGrow
  BY DEF JobsGrow, Grows
<1>2. ASSUME AcceptJob(b) PROVE JobsGrow /\ job'[b].state # "none"
  <2>1. PICK k : k = [job[b] EXCEPT !.state = "running"]
    OBVIOUS
  <2>2. k.state = "running" /\ k.cancelAsked = job[b].cancelAsked
    BY <1>0, <2>1 DEF Job
  <2>3. job'[b] = k /\ \A a \in Batches : a # b => job'[a] = job[a]
    BY <1>2, <2>1 DEF AcceptJob
  <2> QED
    BY <1>2, <2>2, <2>3 DEF AcceptJob, JobsGrow, Grows
<1>3. ASSUME NEW rec, CancelJob(rec, b) PROVE JobsGrow /\ job'[b].cancelAsked /\ rec.ref
  <2>1. PICK k : k = [job[b] EXCEPT !.cancelAsked = TRUE]
    OBVIOUS
  <2>2. k.cancelAsked /\ k.state = job[b].state /\ k.ok = job[b].ok /\ k.err = job[b].err
    BY <1>0, <2>1 DEF Job
  <2>3. job'[b] = k /\ \A a \in Batches : a # b => job'[a] = job[a]
    BY <1>3, <2>1 DEF CancelJob
  <2> QED
    BY <1>3, <2>2, <2>3 DEF CancelJob, JobsGrow, Grows
<1>4. ASSUME JobEnds(b) PROVE JobsGrow
  <2>1. PICK ok \in BOOLEAN, err \in BOOLEAN :
          job' = [job EXCEPT ![b].state = "ended", ![b].ok = ok, ![b].err = err]
    BY <1>4 DEF JobEnds
  <2>2. PICK k : k = [job[b] EXCEPT !.state = "ended", !.ok = ok, !.err = err]
    OBVIOUS
  <2>3. k.state = "ended" /\ k.cancelAsked = job[b].cancelAsked
    BY <1>0, <2>2 DEF Job
  <2>4. job'[b] = k /\ \A a \in Batches : a # b => job'[a] = job[a]
    BY <2>1, <2>2
  <2> QED
    BY <1>4, <2>3, <2>4 DEF JobEnds, JobsGrow, Grows
<1>5. ASSUME JobCloses(b) PROVE JobsGrow
  <2>1. PICK st \in {"failed", "expired", "cancelled"} : job' = [job EXCEPT ![b].state = st]
    BY <1>5 DEF JobCloses, Closings
  <2>2. PICK k : k = [job[b] EXCEPT !.state = st]
    OBVIOUS
  <2>3. k.state = st /\ k.cancelAsked = job[b].cancelAsked
    BY <1>0, <2>2 DEF Job
  <2>4. job'[b] = k /\ \A a \in Batches : a # b => job'[a] = job[a]
    BY <2>1, <2>2
  <2> QED
    BY <1>5, <2>3, <2>4 DEF JobCloses, JobsGrow, Grows
<1> QED
  BY <1>1, <1>2, <1>3, <1>4, <1>5 DEF CancelUnanswered
LEMMA TruthFrame ==
  ASSUME ServiceInv, Truth, JobsGrow,
         \A b \in Batches : recs'[b] = recs[b] \/ RecordTrue(job'[b], recs'[b]),
         \A p \in Callers : call'[p] = call[p] \/ CallTrue(job'[call'[p].batch], call'[p]),
         \A p \in Callers : req'[p] = req[p] \/ RequestTrue(job'[req'[p].batch], req'[p])
  PROVE  Truth'
<1>1. ASSUME NEW b \in Batches PROVE RecordTrue(job'[b], recs'[b])
  <2>1. Grows(job[b], job'[b]) /\ RecordTrue(job[b], recs[b])
    BY DEF JobsGrow, Truth
  <2> QED
    BY <2>1, GrowsKeeps
<1>2. ASSUME NEW p \in Callers PROVE CallTrue(job'[call'[p].batch], call'[p])
  <2>1. CASE call'[p] = call[p] /\ call[p].op \in {"put", "finalize"}
    <3>1. call[p].batch \in Batches
      BY <2>1 DEF ServiceInv, StoreInv, CallOK, ShapeOK
    <3>2. Grows(job[call[p].batch], job'[call[p].batch]) /\ CallTrue(job[call[p].batch], call[p])
      BY <3>1 DEF JobsGrow, Truth
    <3> QED
      BY <2>1, <3>2, GrowsKeeps
  <2>2. CASE call'[p] = call[p] /\ call[p].op \notin {"put", "finalize"}
    BY <2>2 DEF CallTrue
  <2> QED
    BY <2>1, <2>2
<1>3. ASSUME NEW p \in Callers PROVE RequestTrue(job'[req'[p].batch], req'[p])
  <2>1. CASE req'[p] = req[p] /\ req[p].pc \notin {"idle", "finish"}
    <3>1. req[p].batch \in Batches
      BY <2>1 DEF ServiceInv, RequestOK
    <3>2. Grows(job[req[p].batch], job'[req[p].batch]) /\ RequestTrue(job[req[p].batch], req[p])
      BY <3>1 DEF JobsGrow, Truth
    <3> QED
      BY <2>1, <3>2, GrowsKeeps
  <2>2. CASE req'[p] = req[p] /\ req[p].pc \in {"idle", "finish"}
    BY <2>2 DEF RequestTrue
  <2> QED
    BY <2>1, <2>2
<1> QED
  BY <1>1, <1>2, <1>3 DEF Truth

(* A step of request p, which leaves the records alone.                    *)
LEMMA TruthMove ==
  ASSUME ServiceInv, Truth, NEW p \in Callers, NEW r, JobsGrow,
         recs' = recs,
         req' = [req EXCEPT ![p] = r], RequestTrue(job'[r.batch], r),
         \A q \in Callers : call'[q] = call[q] \/ CallTrue(job'[call'[q].batch], call'[q])
  PROVE  Truth'
<1>1. \A q \in Callers : req'[q] = req[q] \/ req'[q] = r
  BY DEF ServiceInv, TypeOK
<1>2. \A q \in Callers : req'[q] = req[q] \/ RequestTrue(job'[req'[q].batch], req'[q])
  BY <1>1
<1> QED
  BY <1>2, TruthFrame

LEMMA Ends ==
  ASSUME NEW j
  PROVE  CallTrue(j, NoCall) /\ RequestTrue(j, NoRequest) /\ RequestTrue(j, Finishing)
BY DEF NoCall, NoRequest, Finishing, CallTrue, RequestTrue

(* How a call begins.                                                      *)
LEMMA BeginCall ==
  ASSUME StoreInv, NEW p \in Callers, NEW d, Begin(p, d)
  PROVE  recs' = recs /\ call'[p] = d /\ \A q \in Callers : q # p => call'[q] = call[q]
BY DEF Begin, disk, StoreInv, StoreTypeOK

LEMMA StartPutCall ==
  ASSUME StoreInv, NEW p \in Callers, NEW b, NEW rec, StartPut(p, b, rec)
  PROVE  /\ recs' = recs /\ \A q \in Callers : q # p => call'[q] = call[q]
         /\ call'[p].op = "put" /\ call'[p].batch = b /\ call'[p].rec = rec
         /\ call'[p].at = "wait"
<1>1. PICK d : d = [NoCall EXCEPT !.op = "put", !.at = "wait", !.batch = b, !.rec = rec]
  OBVIOUS
<1>2. d.op = "put" /\ d.batch = b /\ d.rec = rec /\ d.at = "wait"
  BY <1>1 DEF NoCall
<1>3. Begin(p, d)
  BY <1>1 DEF StartPut
<1> QED
  BY <1>2, <1>3, BeginCall

LEMMA StartFinalizeCall ==
  ASSUME StoreInv, NEW p \in Callers, NEW b, NEW patch, StartFinalize(p, b, patch)
  PROVE  /\ recs' = recs /\ \A q \in Callers : q # p => call'[q] = call[q]
         /\ call'[p].op = "finalize" /\ call'[p].batch = b /\ call'[p].patch = patch
         /\ call'[p].at = "wait"
<1>1. PICK d : d = [NoCall EXCEPT !.op = "finalize", !.at = "wait", !.batch = b, !.patch = patch]
  OBVIOUS
<1>2. d.op = "finalize" /\ d.batch = b /\ d.patch = patch /\ d.at = "wait"
  BY <1>1 DEF NoCall
<1>3. Begin(p, d)
  BY <1>1 DEF StartFinalize
<1> QED
  BY <1>2, <1>3, BeginCall

(* A call about files begins, or a call returns.                           *)
LEMMA FileCall ==
  ASSUME StoreInv, NEW p \in Callers, NEW f, StartUpload(p) \/ StartDelete(p, f)
  PROVE  /\ recs' = recs /\ \A q \in Callers : q # p => call'[q] = call[q]
         /\ call'[p].op \in {"upload", "delete"}
<1>1. PICK u : u = [NoCall EXCEPT !.op = "upload", !.at = "wait"]
  OBVIOUS
<1>2. PICK d : d = [NoCall EXCEPT !.op = "delete", !.at = "wait", !.file = f]
  OBVIOUS
<1>3. u.op = "upload" /\ d.op = "delete"
  BY <1>1, <1>2 DEF NoCall
<1>4. Begin(p, u) \/ Begin(p, d)
  BY <1>1, <1>2 DEF StartUpload, StartDelete
<1> QED
  BY <1>3, <1>4, BeginCall

LEMMA ReturnCall ==
  ASSUME StoreInv, NEW p \in Callers, Return(p)
  PROVE  /\ recs' = recs /\ call'[p] = NoCall
         /\ \A q \in Callers : q # p => call'[q] = call[q]
BY DEF Return, disk, StoreInv, StoreTypeOK

LEMMA TruthStore ==
  ASSUME ServiceInv, Truth, NEW p \in Callers, StoreStep(p), UNCHANGED <<serviceVars, job>>
  PROVE  Truth'
<1> DEFINE c == call[p]
           d == call'[p]
<1>1. /\ Effect(c, d) /\ Written(c, d)
      /\ \A q \in Callers : q # p => call'[q] = call[q]
  BY StoreEffect DEF ServiceInv
<1>2. CallOK(c) /\ CallTrue(job[c.batch], c)
  BY DEF ServiceInv, StoreInv, Truth
<1>3. JobsGrow /\ req' = req /\ job' = job
  BY DEF JobsGrow, Grows, serviceVars
<1>4. CallTrue(job'[d.batch], d)
  BY <1>1, <1>2, <1>3 DEF Effect, GoesOn, CallTrue
<1>5. ASSUME NEW b \in Batches PROVE recs'[b] = recs[b] \/ RecordTrue(job'[b], recs'[b])
  <2>1. recs \in [Batches -> Meta] /\ c \in Call
    BY DEF ServiceInv, StoreInv, StoreTypeOK
  <2>2. CASE recs' = recs
    BY <2>2
  <2>3. CASE c.op = "put" /\ c.at = "put" /\ recs' = [recs EXCEPT ![c.batch] = c.rec]
    <3>1. Outputs(c.rec) = {} /\ c.rec.status # "completed"
      BY <1>2, <2>3 DEF CallOK, PutOK, PutRecord, CallTrue
    <3>2. RecordTrue(job[c.batch], c.rec)
      BY <1>2, <2>3, <3>1 DEF CallTrue, RecordTrue, OutcomeTrue
    <3> QED
      BY <1>3, <2>1, <2>3, <3>2
  <2>4. CASE /\ c.op = "finalize" /\ c.at = "commit"
             /\ recs' = [recs EXCEPT ![c.batch] = [c.rec EXCEPT !.status = c.patch.status]]
    <3>1. PICK rec : rec = [c.rec EXCEPT !.status = c.patch.status]
      OBVIOUS
    <3>2. /\ rec.status = c.patch.status /\ rec.ref = c.rec.ref
          /\ rec.out = c.rec.out /\ rec.err = c.rec.err
          /\ rec.status \in {"completed", "failed", "cancelled"}
      BY <2>1, <3>1 DEF Call, Meta, FinalizePatch
    <3>3. c.batch \in Batches /\ c.rec.ref = recs[c.batch].ref
      BY <1>2, <2>4 DEF CallOK, ShapeOK, FinalizingOK, SameButOutputs
    <3>4. PatchTrue(job[c.batch], c.patch) /\ NamesTrue(c)
      BY <1>2, <2>4 DEF CallTrue
    <3>5. Believable(job[c.batch], rec)
      BY <3>2, <3>4 DEF PatchTrue, Believable
    <3>6. OutcomeTrue(job[c.batch], rec)
      BY <2>4, <3>2, <3>4 DEF PatchTrue, NamesTrue, OutcomeTrue, OpenStatus
    <3> QED
      BY <1>3, <2>1, <2>4, <3>1, <3>5, <3>6 DEF RecordTrue
  <2> QED
    BY <1>1, <2>2, <2>3, <2>4 DEF Written
<1>6. \A q \in Callers : call'[q] = call[q] \/ CallTrue(job'[call'[q].batch], call'[q])
  BY <1>1, <1>4
<1> QED
  BY <1>3, <1>5, <1>6, TruthFrame

(* A request stores a record that is believable.                           *)
LEMMA TruthPut ==
  ASSUME ServiceInv, Truth, NEW p \in Callers, NEW b, NEW rec, NEW r, JobsGrow,
         StartPut(p, b, rec), req' = [req EXCEPT ![p] = r],
         RequestTrue(job'[r.batch], r),
         Believable(job'[b], rec), rec.status # "completed"
  PROVE  Truth'
<1>1. /\ recs' = recs /\ \A q \in Callers : q # p => call'[q] = call[q]
      /\ call'[p].op = "put" /\ call'[p].batch = b /\ call'[p].rec = rec
  BY StartPutCall DEF ServiceInv
<1>2. CallTrue(job'[call'[p].batch], call'[p])
  BY <1>1 DEF CallTrue
<1> QED
  BY <1>1, <1>2, TruthMove

(* A step of request p outside the store.                                  *)
LEMMA TruthQuiet ==
  ASSUME ServiceInv, Truth, NEW p \in Callers, NEW r, JobsGrow,
         UNCHANGED storeVars,
         req' = [req EXCEPT ![p] = r], RequestTrue(job'[r.batch], r)
  PROVE  Truth'
BY TruthMove DEF storeVars

LEMMA TruthBegins ==
  ASSUME ServiceInv, Truth, NEW p \in Callers, Begins(p)
  PROVE  Truth'
<1>1. job' = job /\ JobsGrow
  BY DEF Begins, Upload, Delete, Create, Refresh, Cancel, JobsGrow, Grows
<1>2. ASSUME NEW f, StartUpload(p) \/ StartDelete(p, f), Goto(p, Finishing) PROVE Truth'
  <2>1. /\ recs' = recs /\ \A q \in Callers : q # p => call'[q] = call[q]
        /\ CallTrue(job'[call'[p].batch], call'[p])
    BY <1>2, FileCall DEF ServiceInv, CallTrue
  <2> QED
    BY <1>1, <1>2, <2>1, Ends, TruthMove DEF Goto
<1>3. ASSUME NEW b \in Batches, NEW f \in Files, NEW k \in Backends, Create(p, b, f, k)
      PROVE  Truth'
  <2>1. PICK rec : rec = NewBatch(f, k)
    OBVIOUS
  <2>2. rec.status = "validating" /\ rec.ref = FALSE
    BY <2>1 DEF NewBatch, Absent
  <2>3. Believable(job'[b], rec) /\ rec.status # "completed"
    BY <2>2 DEF Believable
  <2>4. PICK r : r = [pc |-> "save", batch |-> b, rec |-> rec]
    OBVIOUS
  <2>5. RequestTrue(job'[r.batch], r)
    BY <2>3, <2>4 DEF RequestTrue
  <2>6. StartPut(p, b, rec) /\ req' = [req EXCEPT ![p] = r]
    BY <1>3, <2>1, <2>4 DEF Create, Goto
  <2> QED
    BY <1>1, <2>3, <2>5, <2>6, TruthPut
<1>4. ASSUME NEW b \in Batches, Refresh(p, b) \/ Cancel(p, b) PROVE Truth'
  <2>1. PICK pc \in {"refresh", "cancel"} :
          req' = [req EXCEPT ![p] = [pc |-> pc, batch |-> b, rec |-> recs[b]]]
    BY <1>4 DEF Refresh, Cancel, Goto
  <2>2. PICK r : r = [pc |-> pc, batch |-> b, rec |-> recs[b]]
    OBVIOUS
  <2>3. Believable(job[b], recs[b])
    BY DEF Truth, RecordTrue
  <2>4. RequestTrue(job'[r.batch], r)
    BY <1>1, <2>2, <2>3 DEF RequestTrue
  <2>5. req' = [req EXCEPT ![p] = r] /\ UNCHANGED storeVars
    BY <1>4, <2>1, <2>2 DEF Refresh, Cancel
  <2> QED
    BY <1>1, <2>4, <2>5, TruthQuiet
<1> QED
  BY <1>2, <1>3, <1>4 DEF Begins, Upload, Delete

(* What a request in progress is known to carry.                           *)
LEMMA Carries ==
  ASSUME ServiceInv, Truth, NEW p \in Callers, req[p].pc \notin {"idle", "finish"}
  PROVE  /\ req[p] \in Request /\ req[p].rec \in Meta
         /\ req[p].batch \in Batches
         /\ Believable(job[req[p].batch], req[p].rec)
         /\ req[p].pc = "answer" => job[req[p].batch].state # "none"
         /\ JobsGrow => Believable(job'[req[p].batch], req[p].rec)
<1>1. req[p] \in Request /\ RequestOK(req[p]) /\ RequestTrue(job[req[p].batch], req[p])
  BY DEF ServiceInv, TypeOK, Truth
<1>2. req[p].batch \in Batches /\ Believable(job[req[p].batch], req[p].rec)
  BY <1>1 DEF RequestOK, RequestTrue
<1>3. JobsGrow => Grows(job[req[p].batch], job'[req[p].batch])
  BY <1>2 DEF JobsGrow
<1> QED
  BY <1>1, <1>2, <1>3, GrowsKeeps DEF Request, RequestTrue

(* The request goes on with what it carries, at another label.             *)
LEMMA TruthLabel ==
  ASSUME ServiceInv, Truth, NEW p \in Callers, req[p].pc \notin {"idle", "finish"},
         NEW pc, NEW r, r = [req[p] EXCEPT !.pc = pc],
         JobsGrow, pc = "answer" => job'[req[p].batch].state # "none"
  PROVE  RequestTrue(job'[r.batch], r)
<1>1. r.pc = pc /\ r.batch = req[p].batch /\ r.rec = req[p].rec
  BY Carries DEF Request
<1> QED
  BY <1>1, Carries DEF RequestTrue

LEMMA TruthAnswers ==
  ASSUME ServiceInv, Truth, NEW p \in Callers, SavedBatch(p) \/ Recorded(p) \/ Finish(p)
  PROVE  Truth'
<1>1. Return(p) /\ JobsGrow
  BY DEF SavedBatch, Recorded, Finish, JobsGrow, Grows
<1>2. /\ recs' = recs
      /\ \A q \in Callers : call'[q] = call[q] \/ CallTrue(job'[call'[q].batch], call'[q])
  BY <1>1, ReturnCall, Ends DEF ServiceInv
<1>3. CASE req' = [req EXCEPT ![p] = NoRequest]
  BY <1>1, <1>2, <1>3, Ends, TruthMove
<1>4. ASSUME NEW pc \in {"submit", "orphan"}, req[p].pc \notin {"idle", "finish"},
             req' = [req EXCEPT ![p] = [req[p] EXCEPT !.pc = pc]]
      PROVE  Truth'
  <2>1. PICK r : r = [req[p] EXCEPT !.pc = pc]
    OBVIOUS
  <2>2. RequestTrue(job'[r.batch], r)
    BY <1>1, <1>4, <2>1, TruthLabel
  <2>3. req' = [req EXCEPT ![p] = r]
    BY <1>4, <2>1
  <2> QED
    BY <1>1, <1>2, <2>2, <2>3, TruthMove
<1> QED
  BY <1>3, <1>4 DEF SavedBatch, Recorded, Finish, Goto

LEMMA TruthQuiets ==
  ASSUME ServiceInv, Truth, NEW p \in Callers,
         \/ Submit(p) \/ CancelOrphan(p) \/ PollMisses(p)
         \/ Expire(p) /\ req[p].rec.ref
  PROVE  Truth'
<1>0. req[p].pc \notin {"idle", "finish"} /\ req[p].batch \in Batches
  BY Carries DEF Submit, CancelOrphan, PollMisses, Polling, Expire
<1>1. UNCHANGED storeVars
  BY DEF Submit, CancelOrphan, PollMisses, Expire, GiveUpRequest
<1>2. JobsGrow /\ (Submit(p) => job'[req[p].batch].state # "none")
  BY <1>0, JobSteps DEF Submit, CancelOrphan, PollMisses, Expire, ServiceInv, TypeOK
<1>3. CASE req' = [req EXCEPT ![p] = NoRequest]
  BY <1>1, <1>2, <1>3, Ends, TruthQuiet
<1>4. ASSUME NEW pc, req' = [req EXCEPT ![p] = [req[p] EXCEPT !.pc = pc]],
             pc = "answer" => Submit(p)
      PROVE  Truth'
  <2>1. PICK r : r = [req[p] EXCEPT !.pc = pc]
    OBVIOUS
  <2>2. RequestTrue(job'[r.batch], r)
    BY <1>0, <1>2, <1>4, <2>1, TruthLabel
  <2>3. req' = [req EXCEPT ![p] = r]
    BY <1>4, <2>1
  <2> QED
    BY <1>1, <1>2, <2>2, <2>3, TruthQuiet
<1>5. CASE Submit(p)
  BY <1>4, <1>5 DEF Submit, Goto
<1>6. CASE Expire(p) /\ req[p].rec.ref
  BY <1>4, <1>6 DEF Expire, Goto
<1> QED
  BY <1>3, <1>5, <1>6 DEF CancelOrphan, PollMisses, GiveUpRequest, Goto

(* The steps that put the record the request carries, with a new status.   *)
LEMMA TruthPuts ==
  ASSUME ServiceInv, Truth, NEW p \in Callers,
         \/ SubmitFailed(p) \/ (Expire(p) /\ ~req[p].rec.ref) \/ CancelExpired(p)
         \/ PollRunning(p) \/ PollClosed(p) \/ CancelUpstream(p)
  PROVE  Truth'
<1> DEFINE b == req[p].batch
<1>0. req[p].pc \notin {"idle", "finish"} /\ b \in Batches
  BY Carries DEF SubmitFailed, Expire, CancelExpired, PollRunning, PollClosed, CancelUpstream, Polling
<1>1. JobsGrow
  BY <1>0, JobSteps DEF SubmitFailed, Expire, CancelExpired, PollRunning, PollClosed,
                        CancelUpstream, ServiceInv, TypeOK
<1>2. Believable(job'[b], req[p].rec) /\ req[p].rec \in Meta
  BY <1>0, <1>1, Carries
<1>3. ASSUME NEW st, Store(p, [req[p].rec EXCEPT !.status = st], Finishing),
             st # "completed",
             st \in {"in_progress", "cancelling"} => req[p].rec.ref,
             st \in {"cancelling", "cancelled"} => Asked(job'[b])
      PROVE  Truth'
  <2>1. PICK rec : rec = [req[p].rec EXCEPT !.status = st]
    OBVIOUS
  <2>2. rec.status = st /\ rec.ref = req[p].rec.ref
    BY <1>2, <2>1 DEF Meta
  <2>3. Believable(job'[b], rec) /\ rec.status # "completed"
    BY <1>2, <1>3, <2>2 DEF Believable
  <2>4. StartPut(p, b, rec) /\ req' = [req EXCEPT ![p] = Finishing]
    BY <1>3, <2>1 DEF Store, Goto
  <2> QED
    BY <1>1, <2>3, <2>4, Ends, TruthPut
<1>4. CASE GiveUpRequest(p)
  BY <1>1, <1>4, Ends, TruthQuiet DEF GiveUpRequest, Goto
<1>5. CASE SubmitFailed(p)
  BY <1>3, <1>5 DEF SubmitFailed
<1>6. CASE (Expire(p) /\ ~req[p].rec.ref) \/ CancelExpired(p)
  BY <1>3, <1>6 DEF Expire, CancelExpired, Expired
<1>7. CASE PollRunning(p)
  BY <1>3, <1>4, <1>7 DEF PollRunning
<1>8. CASE PollClosed(p)
  BY <1>3, <1>8 DEF PollClosed, Asked
<1>9. CASE CancelUpstream(p) /\ CancelJob(req[p].rec, b)
           /\ Store(p, [req[p].rec EXCEPT !.status = "cancelling"], Finishing)
  <2>1. job'[b].cancelAsked /\ req[p].rec.ref
    BY <1>0, <1>9, JobSteps DEF ServiceInv, TypeOK
  <2> QED
    BY <1>3, <1>9, <2>1 DEF Asked
<1> QED
  BY <1>4, <1>5, <1>6, <1>7, <1>8, <1>9 DEF CancelUpstream

LEMMA TruthSubmitAccepted ==
  ASSUME ServiceInv, Truth, NEW p \in Callers, SubmitAccepted(p)
  PROVE  Truth'
<1> DEFINE b == req[p].batch
<1>1. req[p].pc = "answer" /\ job' = job /\ JobsGrow
  BY DEF SubmitAccepted, JobsGrow, Grows
<1>2. req[p] \in Request /\ req[p].rec \in Meta /\ b \in Batches /\ job[b].state # "none"
  BY <1>1, Carries
<1>3. PICK rec : rec = [req[p].rec EXCEPT !.ref = TRUE, !.status = "in_progress"]
  OBVIOUS
<1>4. rec.ref /\ rec.status = "in_progress"
  BY <1>2, <1>3 DEF Meta
<1>5. Believable(job'[b], rec) /\ rec.status # "completed"
  BY <1>1, <1>2, <1>4 DEF Believable
<1>6. PICK r : r = [req[p] EXCEPT !.pc = "record", !.rec = rec]
  OBVIOUS
<1>7. r.pc = "record" /\ r.batch = b /\ r.rec = rec
  BY <1>2, <1>6 DEF Request
<1>8. RequestTrue(job'[r.batch], r)
  BY <1>5, <1>7 DEF RequestTrue
<1>9. StartPut(p, b, rec) /\ req' = [req EXCEPT ![p] = r]
  BY <1>3, <1>6 DEF SubmitAccepted, Store, Goto
<1> QED
  BY <1>1, <1>5, <1>8, <1>9, TruthPut

LEMMA TruthPollDone ==
  ASSUME ServiceInv, Truth, NEW p \in Callers, PollDone(p)
  PROVE  Truth'
<1> DEFINE b == req[p].batch
<1>1. /\ req[p].pc = "refresh" /\ job' = job /\ JobsGrow
      /\ job[b].state = "ended" /\ req' = [req EXCEPT ![p] = Finishing]
  BY DEF PollDone, Polling, Goto, JobsGrow, Grows
<1>2. Believable(job[b], req[p].rec)
  BY <1>1, Carries
<1>3. PICK patch : patch = Outcome(req[p].rec, job[b])
  OBVIOUS
<1>4. PatchTrue(job[b], patch)
  BY <1>1, <1>2, <1>3 DEF Outcome, PatchTrue, Believable
<1>5. StartFinalize(p, b, patch)
  BY <1>3 DEF PollDone
<1>6. /\ recs' = recs /\ \A q \in Callers : q # p => call'[q] = call[q]
      /\ call'[p].op = "finalize" /\ call'[p].batch = b /\ call'[p].patch = patch
      /\ call'[p].at = "wait"
  BY <1>5, StartFinalizeCall DEF ServiceInv
<1>7. CallTrue(job'[call'[p].batch], call'[p])
  BY <1>1, <1>4, <1>6 DEF CallTrue, NamesTrue
<1> QED
  BY <1>1, <1>6, <1>7, Ends, TruthMove

LEMMA TruthCrash ==
  ASSUME ServiceInv, Truth, NEW g \in Gateways, Crash(g)
  PROVE  Truth'
<1>1. /\ recs' = recs /\ JobsGrow
      /\ \A q \in Callers : call'[q] = call[q] \/ call'[q] = NoCall
      /\ \A q \in Callers : req'[q] = req[q] \/ req'[q] = NoRequest
  BY DEF Crash, DropCalls, disk, JobsGrow, Grows
<1>2. /\ \A q \in Callers : call'[q] = call[q] \/ CallTrue(job'[call'[q].batch], call'[q])
      /\ \A q \in Callers : req'[q] = req[q] \/ RequestTrue(job'[req'[q].batch], req'[q])
  BY <1>1, Ends
<1> QED
  BY <1>1, <1>2, TruthFrame

LEMMA TruthNext ==
  ASSUME ServiceInv, Truth, [Next]_vars
  PROVE  Truth'
<1>1. ASSUME NEW p \in Callers, Continues(p) PROVE Truth'
  <2>1. ASSUME StoreStep(p), UNCHANGED <<serviceVars, job>> PROVE Truth'
    BY <2>1, TruthStore
  <2>2. CASE SavedBatch(p) \/ Recorded(p) \/ Finish(p)
    BY <2>2, TruthAnswers
  <2>3. CASE Submit(p) \/ CancelOrphan(p) \/ PollMisses(p)
    BY <2>3, TruthQuiets
  <2>4. CASE \/ SubmitFailed(p) \/ CancelExpired(p)
             \/ PollRunning(p) \/ PollClosed(p) \/ CancelUpstream(p)
    BY <2>4, TruthPuts
  <2>5. CASE SubmitAccepted(p) \/ PollDone(p)
    BY <2>5, TruthSubmitAccepted, TruthPollDone
  <2>6. CASE Expire(p)
    <3>1. CASE req[p].rec.ref
      BY <2>6, <3>1, TruthQuiets
    <3>2. CASE ~req[p].rec.ref
      BY <2>6, <3>2, TruthPuts
    <3> QED
      BY <3>1, <3>2
  <2> QED
    BY <1>1, <2>1, <2>2, <2>3, <2>4, <2>5, <2>6 DEF Continues
<1>2. ASSUME UNCHANGED <<storeVars, req>>, JobsGrow PROVE Truth'
  BY <1>2, TruthFrame DEF storeVars
<1>3. ASSUME NEW b \in Batches, JobEnds(b) \/ JobCloses(b) \/ WindowPasses(b) PROVE Truth'
  BY <1>2, <1>3, JobSteps DEF JobEnds, JobCloses, WindowPasses, serviceVars, ServiceInv, TypeOK
<1>4. CASE UNCHANGED vars
  BY <1>2, <1>4 DEF vars, serviceVars, JobsGrow, Grows
<1> QED
  BY <1>1, <1>3, <1>4, TruthBegins, TruthCrash DEF Next

LEMMA TruthInit ==
  ASSUME Init
  PROVE  Truth
<1>1. ASSUME NEW b \in Batches PROVE RecordTrue(job[b], recs[b])
  BY DEF Init, StoreInit, Absent, NoJob, RecordTrue, Believable, OutcomeTrue, OpenStatus
<1>2. ASSUME NEW p \in Callers
      PROVE  CallTrue(job[call[p].batch], call[p]) /\ RequestTrue(job[req[p].batch], req[p])
  BY Ends DEF Init, StoreInit
<1> QED
  BY <1>1, <1>2 DEF Truth
-----------------------------------------------------------------------------
(* Jobs that are not forgotten.                                            *)
(*                                                                         *)
(* A create owns its batch until it has recorded the provider's answer.    *)
(* What could make a record lose its reference is a late write of a copy   *)
(* without one: such a write is of a batch that was never submitted and    *)
(* that nobody can submit any more, or expires the batch, or was counted   *)
(* as lost.                                                                *)

Creating == {"save", "submit", "answer", "record", "orphan"}
Late     == {"answer", "record", "orphan"}
Early    == {"save", "submit"}

Tracked(b) ==
  \/ job[b].state # "running"
  \/ recs[b].ref \/ job[b].cancelAsked
  \/ b \in logged \/ b \in lost
  \/ recs[b].status = "expired"

(* The call under way is the create's own, or it is over. *)
OwnPut(p) ==
  call[p].at \notin Results => call[p].op = "put" /\ call[p].batch = req[p].batch

CreateOK(p) ==
  LET b == req[p].batch IN
  /\ req[p].pc \in Early => job[b].state = "none"
  /\ req[p].pc = "save" => /\ OwnPut(p)
                           /\ call[p].at = "ok" => recs[b].status # "absent"
  /\ req[p].pc = "submit" => recs[b].status # "absent"
  /\ req[p].pc = "record" => /\ OwnPut(p) /\ (call[p].at \notin Results => call[p].rec.ref)
                             /\ call[p].at = "ok" => Tracked(b)
  /\ req[p].pc \in Late => job[b].state # "none"

NobodySubmits(b) == \A q \in Callers : req[q].pc \in Early => req[q].batch # b

PutTracked(p) ==
  LET c == call[p]
      b == call[p].batch
  IN  c.op = "put" /\ c.at \in {"wait", "put"} /\ ~c.rec.ref /\ c.rec.status # "expired" =>
        \/ b \in lost
        \/ /\ job[b].state = "none"
           /\ \/ req[p].pc = "save" /\ req[p].batch = b
              \/ recs[b].status # "absent" /\ NobodySubmits(b)

Track ==
  /\ \A b \in Batches : recs[b].status = "absent" => job[b].state = "none"
  /\ \A p, q \in Callers :
       p # q /\ req[p].pc \in Creating /\ req[q].pc \in Creating => req[p].batch # req[q].batch
  /\ \A p \in Callers : CreateOK(p) /\ PutTracked(p)
  /\ \A b \in Batches :
       Tracked(b) \/ \E p \in Callers : req[p].batch = b /\ req[p].pc \in Late
-----------------------------------------------------------------------------
(* Jobs stay tracked.  A create's Submit is where a job begins to run, and *)
(* Create where a batch gets an owner; every other step satisfies what     *)
(* these definitions ask.                                                  *)

RecordStays(b) ==
  recs'[b] = recs[b] \/ (recs'[b].status # "absent" /\ Tracked(b)')

JobStays(b) ==
  /\ (job'[b].state = "none") <=> (job[b].state = "none")
  /\ job[b].cancelAsked => job'[b].cancelAsked
  /\ job'[b].state = "running" => job[b].state = "running"

RequestStays(p) ==
  /\ req'[p].pc \in Creating => req[p].pc \in Creating /\ req'[p].batch = req[p].batch
  /\ req'[p].pc \in Early => req[p].pc \in Early
  /\ CreateOK(p)' /\ PutTracked(p)'
  /\ \A b \in Batches : req[p].pc \in Late /\ req[p].batch = b =>
       (req'[p].pc \in Late /\ req'[p].batch = b) \/ Tracked(b)'

TrackKept ==
  /\ \A b \in Batches : RecordStays(b) /\ JobStays(b)
  /\ lost \subseteq lost' /\ logged \subseteq logged'

LEMMA JobsStay ==
  ASSUME job \in [Batches -> Job], NEW b \in Batches
  PROVE  /\ UNCHANGED job => \A a \in Batches : JobStays(a)
         /\ \A rec : CancelJob(rec, b) => \A a \in Batches : JobStays(a)
         /\ \A rec : CancelUnanswered(rec, b) => \A a \in Batches : JobStays(a)
         /\ JobEnds(b) \/ JobCloses(b) => \A a \in Batches : JobStays(a)
<1>0. job[b] \in Job
  OBVIOUS
<1>1. UNCHANGED job => \A a \in Batches : JobStays(a)
  BY DEF JobStays
<1>2. ASSUME NEW rec, CancelJob(rec, b) PROVE \A a \in Batches : JobStays(a)
  <2>1. PICK k : k = [job[b] EXCEPT !.cancelAsked = TRUE]
    OBVIOUS
  <2>2. k.cancelAsked /\ k.state = job[b].state
    BY <1>0, <2>1 DEF Job
  <2>3. job'[b] = k /\ \A a \in Batches : a # b => job'[a] = job[a]
    BY <1>2, <2>1 DEF CancelJob
  <2> QED
    BY <2>2, <2>3 DEF JobStays
<1>3. ASSUME NEW st \in {"ended", "failed", "expired", "cancelled"}, NEW k,
             job[b].state = "running", k.state = st, k.cancelAsked = job[b].cancelAsked,
             job'[b] = k, \A a \in Batches : a # b => job'[a] = job[a]
      PROVE  \A a \in Batches : JobStays(a)
  BY <1>3 DEF JobStays
<1>4. ASSUME JobEnds(b) PROVE \A a \in Batches : JobStays(a)
  <2>1. PICK ok \in BOOLEAN, err \in BOOLEAN :
          job' = [job EXCEPT ![b].state = "ended", ![b].ok = ok, ![b].err = err]
    BY <1>4 DEF JobEnds
  <2>2. PICK k : k = [job[b] EXCEPT !.state = "ended", !.ok = ok, !.err = err]
    OBVIOUS
  <2>3. k.state = "ended" /\ k.cancelAsked = job[b].cancelAsked
    BY <1>0, <2>2 DEF Job
  <2>4. job'[b] = k /\ \A a \in Batches : a # b => job'[a] = job[a]
    BY <2>1, <2>2
  <2> QED
    BY <1>3, <1>4, <2>3, <2>4 DEF JobEnds
<1>5. ASSUME JobCloses(b) PROVE \A a \in Batches : JobStays(a)
  <2>1. PICK st \in {"failed", "expired", "cancelled"} : job' = [job EXCEPT ![b].state = st]
    BY <1>5 DEF JobCloses, Closings
  <2>2. PICK k : k = [job[b] EXCEPT !.state = st]
    OBVIOUS
  <2>3. k.state = st /\ k.cancelAsked = job[b].cancelAsked
    BY <1>0, <2>2 DEF Job
  <2>4. job'[b] = k /\ \A a \in Batches : a # b => job'[a] = job[a]
    BY <2>1, <2>2
  <2> QED
    BY <1>3, <1>5, <2>3, <2>4 DEF JobCloses
<1> QED
  BY <1>1, <1>2, <1>4, <1>5 DEF CancelUnanswered

LEMMA TrackedStays ==
  ASSUME TrackKept, NEW b \in Batches, Tracked(b)
  PROVE  Tracked(b)'
BY DEF TrackKept, RecordStays, JobStays, Tracked

(* The put of a call that does not move stays tracked, unless its create   *)
(* moves on.                                                               *)
LEMMA PutStays ==
  ASSUME ServiceInv, Track, TrackKept, NEW p \in Callers,
         \A q \in Callers : req'[q].pc \in Early =>
                              req[q].pc \in Early /\ req'[q].batch = req[q].batch,
         call'[p].op = "put" => /\ call[p].op = "put" /\ call'[p].batch = call[p].batch
                                /\ call'[p].rec = call[p].rec
                                /\ call'[p].at \in {"wait", "put"} => call[p].at \in {"wait", "put"},
         req[p].pc = "save" => req'[p].pc = "save" /\ req'[p].batch = req[p].batch
  PROVE  PutTracked(p)'
<1> DEFINE c == call'[p]
<1> PICK b : b = call'[p].batch
  OBVIOUS
<1> SUFFICES ASSUME c.op = "put", c.at \in {"wait", "put"}, ~c.rec.ref, c.rec.status # "expired"
             PROVE  \/ b \in lost'
                    \/ /\ job'[b].state = "none"
                       /\ \/ req'[p].pc = "save" /\ req'[p].batch = b
                          \/ recs'[b].status # "absent" /\ NobodySubmits(b)'
  BY DEF PutTracked, NobodySubmits
<1>1. b \in Batches
  BY DEF ServiceInv, StoreInv, CallOK, ShapeOK
<1>2. \/ b \in lost
      \/ /\ job[b].state = "none"
         /\ \/ req[p].pc = "save" /\ req[p].batch = b
            \/ recs[b].status # "absent" /\ NobodySubmits(b)
  BY DEF Track, PutTracked
<1>3. b \in lost => b \in lost'
  BY DEF TrackKept
<1>4. job[b].state = "none" => job'[b].state = "none"
  BY <1>1 DEF TrackKept, JobStays
<1>5. recs[b].status # "absent" => recs'[b].status # "absent"
  BY <1>1 DEF TrackKept, RecordStays
<1>6. NobodySubmits(b) => NobodySubmits(b)'
  BY DEF NobodySubmits
<1> QED
  BY <1>2, <1>3, <1>4, <1>5, <1>6

LEMMA TrackFrame ==
  ASSUME ServiceInv, Track, TrackKept,
         \A p \in Callers : (req'[p] = req[p] /\ call'[p] = call[p]) \/ RequestStays(p)
  PROVE  Track'
<1>1. ASSUME NEW p \in Callers
      PROVE  /\ req'[p].pc \in Creating => req[p].pc \in Creating /\ req'[p].batch = req[p].batch
             /\ req'[p].pc \in Early => req[p].pc \in Early /\ req'[p].batch = req[p].batch
  BY DEF RequestStays, Creating, Early
<1>2. ASSUME NEW p \in Callers, req'[p] = req[p], call'[p] = call[p] PROVE CreateOK(p)'
  <2>1. CASE req[p].pc \in Creating
    <3>1. PICK b \in Batches : b = req[p].batch
      BY <2>1 DEF ServiceInv, RequestOK, Creating
    <3>2. CreateOK(p)
      BY DEF Track
    <3>3. Tracked(b) => Tracked(b)'
      BY TrackedStays
    <3>4. /\ (job'[b].state = "none") <=> (job[b].state = "none")
          /\ recs[b].status # "absent" => recs'[b].status # "absent"
      BY DEF TrackKept, JobStays, RecordStays
    <3>5. req'[p].batch = b
      BY <1>2, <3>1
    <3> QED
      BY <1>2, <3>1, <3>2, <3>3, <3>4, <3>5 DEF CreateOK, OwnPut, Tracked
  <2>2. CASE req[p].pc \notin Creating
    BY <1>2, <2>2 DEF CreateOK, Creating, Early, Late
  <2> QED
    BY <2>1, <2>2
<1>3. ASSUME NEW p \in Callers, req'[p] = req[p], call'[p] = call[p] PROVE PutTracked(p)'
  BY <1>1, <1>3, PutStays
<1>4. \A p \in Callers : CreateOK(p)' /\ PutTracked(p)'
  BY <1>2, <1>3 DEF RequestStays
<1>5. ASSUME NEW b \in Batches, recs'[b].status = "absent" PROVE job'[b].state = "none"
  BY <1>5 DEF Track, TrackKept, RecordStays, JobStays
<1>6. \A p, q \in Callers :
        p # q /\ req'[p].pc \in Creating /\ req'[q].pc \in Creating => req'[p].batch # req'[q].batch
  BY <1>1 DEF Track
<1>7. ASSUME NEW b \in Batches
      PROVE  Tracked(b)' \/ \E p \in Callers : req'[p].batch = b /\ req'[p].pc \in Late
  <2>1. CASE Tracked(b)
    BY <2>1, TrackedStays
  <2>2. ASSUME NEW p \in Callers, req[p].batch = b, req[p].pc \in Late
        PROVE  Tracked(b)' \/ (req'[p].batch = b /\ req'[p].pc \in Late)
    BY <2>2 DEF RequestStays, Tracked
  <2> QED
    BY <2>1, <2>2 DEF Track
<1> QED
  BY <1>4, <1>5, <1>6, <1>7 DEF Track

(* A step of request p.                                                    *)
LEMMA TrackMove ==
  ASSUME ServiceInv, Track, NEW p \in Callers, NEW r,
         recs' = recs, \A b \in Batches : JobStays(b),
         lost \subseteq lost', logged \subseteq logged',
         req' = [req EXCEPT ![p] = r], \A q \in Callers : q # p => call'[q] = call[q],
         RequestStays(p)
  PROVE  Track'
<1>1. TrackKept
  BY DEF TrackKept, RecordStays
<1>2. \A q \in Callers : q # p => req'[q] = req[q]
  BY DEF ServiceInv, TypeOK
<1> QED
  BY <1>1, <1>2, TrackFrame

(* A step that ends request p, or that is not a create's.                  *)
LEMMA TrackEnd ==
  ASSUME ServiceInv, Track, NEW p \in Callers, NEW r,
         recs' = recs, \A b \in Batches : JobStays(b),
         lost \subseteq lost', logged \subseteq logged',
         req' = [req EXCEPT ![p] = r], \A q \in Callers : q # p => call'[q] = call[q],
         r.pc \notin Creating, PutTracked(p)',
         \A b \in Batches : req[p].pc \in Late /\ req[p].batch = b => Tracked(b)'
  PROVE  Track'
<1>1. req'[p] = r
  BY DEF ServiceInv, TypeOK
<1>2. r.pc \notin Early /\ r.pc \notin Late
  BY DEF Creating, Early, Late
<1>3. CreateOK(p)'
  BY <1>1, <1>2 DEF CreateOK, Creating
<1>4. RequestStays(p)
  BY <1>1, <1>2, <1>3 DEF RequestStays
<1> QED
  BY <1>4, TrackMove

LEMMA TrackStore ==
  ASSUME ServiceInv, Truth, Track, NEW p \in Callers, StoreStep(p),
         UNCHANGED <<serviceVars, job>>
  PROVE  Track'
<1> DEFINE c == call[p]
           d == call'[p]
<1>1. /\ Effect(c, d) /\ Written(c, d)
      /\ \A q \in Callers : q # p => call'[q] = call[q]
  BY StoreEffect DEF ServiceInv
<1>2. CallOK(c) /\ CallTrue(job[c.batch], c) /\ PutTracked(p) /\ CreateOK(p)
  BY DEF ServiceInv, StoreInv, Truth, Track
<1>3. job' = job /\ req' = req /\ lost' = lost /\ logged' = logged
  BY DEF serviceVars
<1>4. recs \in [Batches -> Meta] /\ c \in Call
  BY DEF ServiceInv, StoreInv, StoreTypeOK
<1>5. ASSUME c.op = "put", c.at = "put", recs' = [recs EXCEPT ![c.batch] = c.rec]
      PROVE  /\ c.rec.status # "absent"
             /\ \A b \in Batches : RecordStays(b)
             /\ c.batch \in Batches /\ recs'[c.batch] = c.rec
  <2>1. c.rec.status # "absent" /\ c.batch \in Batches
    BY <1>2, <1>5 DEF CallOK, ShapeOK, PutOK, PutRecord
  <2>2. recs'[c.batch] = c.rec /\ \A b \in Batches : b # c.batch => recs'[b] = recs[b]
    BY <1>4, <1>5, <2>1
  <2>3. \/ c.rec.ref \/ c.rec.status = "expired" \/ c.batch \in lost
        \/ job[c.batch].state = "none"
    BY <1>2, <1>5 DEF PutTracked
  <2>4. \A b \in Batches : b = c.batch => Tracked(b)'
    BY <1>3, <2>2, <2>3 DEF Tracked
  <2> QED
    BY <2>1, <2>2, <2>4 DEF RecordStays
<1>6. ASSUME c.op = "finalize", c.at = "commit",
             recs' = [recs EXCEPT ![c.batch] = [c.rec EXCEPT !.status = c.patch.status]]
      PROVE  \A b \in Batches : RecordStays(b)
  <2>1. PICK rec : rec = [c.rec EXCEPT !.status = c.patch.status]
    OBVIOUS
  <2>2. rec.status \in {"completed", "failed", "cancelled"}
    BY <1>4, <2>1 DEF Call, Meta, FinalizePatch
  <2>3. job[c.batch].state = "ended"
    BY <1>2, <1>6 DEF CallTrue, PatchTrue
  <2>4. c.batch \in Batches
    BY <1>2, <1>6 DEF CallOK, ShapeOK
  <2>5. recs'[c.batch] = rec /\ \A b \in Batches : b # c.batch => recs'[b] = recs[b]
    BY <1>4, <1>6, <2>1, <2>4
  <2> QED
    BY <1>3, <2>2, <2>3, <2>5 DEF RecordStays, Tracked
<1>7. \A b \in Batches : RecordStays(b)
  BY <1>1, <1>5, <1>6 DEF Written, RecordStays
<1>8. TrackKept
  BY <1>3, <1>7 DEF TrackKept, JobStays
<1>9. \/ d.at \in Results /\ d.op = "none"
      \/ /\ d.op = c.op /\ d.batch = c.batch
         /\ c.op = "put" => d.rec = c.rec /\ (d.at \in {"wait", "put"} => c.at \in {"wait", "put"})
  BY <1>1 DEF Effect, GoesOn
<1>10. PutTracked(p)'
  <2>1. CASE d.op = "none"
    BY <2>1 DEF PutTracked
  <2>2. CASE d.op # "none"
    BY <1>3, <1>8, <1>9, <2>2, PutStays
  <2> QED
    BY <2>1, <2>2
<1>11. CreateOK(p)'
  <2>1. CASE req[p].pc \in Creating
    <3>1. PICK b \in Batches : b = req[p].batch
      BY <2>1 DEF ServiceInv, RequestOK, Creating
    <3>2. c.at \notin Results
      BY DEF StoreStep, Acquire, GiveUp, SaveContent, SaveMeta, CheckDelete, RemoveMeta,
             RemoveContent, Put, FinalizeRead, FinalizeCommit, Results
    <3>3. OwnPut(p) /\ d.at = "ok" => c.batch = b /\ recs'[b] = c.rec /\ c.rec.status # "absent"
      BY <1>1, <1>5, <3>1, <3>2 DEF Written, OwnPut
    <3>4. OwnPut(p) /\ d.at = "ok" /\ c.rec.ref => Tracked(b)'
      BY <3>3 DEF Tracked
    <3>5. recs[b].status # "absent" => recs'[b].status # "absent"
      BY <1>7 DEF RecordStays
    <3>6. OwnPut(p) => OwnPut(p)'
      BY <1>3, <1>9, <3>2 DEF OwnPut
    <3> QED
      BY <1>2, <1>3, <1>9, <3>1, <3>2, <3>3, <3>4, <3>5, <3>6 DEF CreateOK, OwnPut, Tracked
  <2>2. CASE req[p].pc \notin Creating
    BY <1>3, <2>2 DEF CreateOK, Creating, Early, Late
  <2> QED
    BY <2>1, <2>2
<1>12. RequestStays(p)
  BY <1>3, <1>10, <1>11 DEF RequestStays, Creating, Early, Late
<1> QED
  BY <1>1, <1>3, <1>8, <1>12, TrackFrame

(* The last put of a request.                                              *)
LEMMA TrackPut ==
  ASSUME ServiceInv, Track, NEW p \in Callers, NEW b \in Batches, NEW rec,
         req[p].batch = b, \A a \in Batches : JobStays(a),
         lost \subseteq lost', logged \subseteq logged',
         StartPut(p, b, rec), req' = [req EXCEPT ![p] = Finishing],
         rec.ref \/ rec.status = "expired" \/ b \in lost' \/ req[p].pc = "submit",
         req[p].pc \in Late => b \in lost'
  PROVE  Track'
<1>1. /\ recs' = recs /\ \A q \in Callers : q # p => call'[q] = call[q]
      /\ call'[p].op = "put" /\ call'[p].batch = b /\ call'[p].rec = rec
  BY StartPutCall DEF ServiceInv
<1>2. req'[p].pc = "finish" /\ \A q \in Callers : q # p => req'[q] = req[q]
  BY DEF ServiceInv, TypeOK, Finishing, NoRequest
<1>3. ASSUME req[p].pc = "submit" PROVE PutTracked(p)'
  <2>1. job[b].state = "none" /\ recs[b].status # "absent"
    BY <1>3 DEF Track, CreateOK, Early
  <2>2. job'[b].state = "none" /\ recs'[b].status # "absent"
    BY <1>1, <2>1 DEF JobStays
  <2>3. \A q \in Callers : req'[q].pc \in Early => req'[q].batch # b
    BY <1>2, <1>3 DEF Track, Creating, Early
  <2> QED
    BY <1>1, <2>2, <2>3 DEF PutTracked, NobodySubmits
<1>4. PutTracked(p)'
  BY <1>1, <1>3 DEF PutTracked
<1>5. \A a \in Batches : req[p].pc \in Late /\ req[p].batch = a => Tracked(a)'
  BY DEF Tracked
<1> QED
  BY <1>1, <1>4, <1>5, TrackEnd DEF Finishing, NoRequest, Creating

(* A step of request p outside the store that ends it, or is not of a      *)
(* create.                                                                 *)
LEMMA TrackQuiet ==
  ASSUME ServiceInv, Track, NEW p \in Callers, NEW r,
         UNCHANGED storeVars, \A b \in Batches : JobStays(b),
         lost \subseteq lost', logged \subseteq logged',
         req' = [req EXCEPT ![p] = r], r.pc \notin Creating, req[p].pc # "save",
         \A b \in Batches : req[p].pc \in Late /\ req[p].batch = b => Tracked(b)'
  PROVE  Track'
<1>1. recs' = recs /\ call' = call
  BY DEF storeVars
<1>2. TrackKept
  BY <1>1 DEF TrackKept, RecordStays
<1>3. \A q \in Callers : req'[q].pc \in Early =>
                           req[q].pc \in Early /\ req'[q].batch = req[q].batch
  BY DEF ServiceInv, TypeOK, Creating, Early
<1>4. PutTracked(p)'
  BY <1>1, <1>2, <1>3, PutStays
<1> QED
  BY <1>1, <1>4, TrackEnd

LEMMA TrackCreate ==
  ASSUME ServiceInv, Track, NEW p \in Callers, NEW b \in Batches, NEW f \in Files,
         NEW k \in Backends, Create(p, b, f, k)
  PROVE  Track'
<1>1. PICK rec : rec = NewBatch(f, k)
  OBVIOUS
<1>2. PICK r : r = [pc |-> "save", batch |-> b, rec |-> rec]
  OBVIOUS
<1>3. /\ StartPut(p, b, rec) /\ req' = [req EXCEPT ![p] = r]
      /\ job' = job /\ lost' = lost /\ logged' = logged
      /\ req[p] = NoRequest /\ recs[b].status = "absent"
      /\ \A q \in Callers : req[q].batch # b
  BY <1>1, <1>2 DEF Create, Goto
<1>4. /\ recs' = recs /\ \A q \in Callers : q # p => call'[q] = call[q]
      /\ call'[p].op = "put" /\ call'[p].batch = b /\ call'[p].rec = rec
      /\ call'[p].at = "wait"
  BY <1>3, StartPutCall DEF ServiceInv
<1>5. /\ req'[p].pc = "save" /\ req'[p].batch = b
      /\ \A q \in Callers : q # p => req'[q] = req[q]
      /\ req[p].pc = "idle"
  BY <1>2, <1>3 DEF ServiceInv, TypeOK, NoRequest
<1>6. job[b].state = "none"
  BY <1>3 DEF Track
<1>7. ASSUME NEW a \in Batches
      PROVE  /\ Tracked(a)' <=> Tracked(a)
             /\ recs'[a].status = "absent" => job'[a].state = "none"
             /\ Tracked(a)' \/ \E q \in Callers : req'[q].batch = a /\ req'[q].pc \in Late
  <2>1. Tracked(a)' <=> Tracked(a)
    BY <1>3, <1>4 DEF Tracked
  <2>2. recs'[a].status = "absent" => job'[a].state = "none"
    BY <1>3, <1>4 DEF Track
  <2>3. \A q \in Callers : req[q].batch = a /\ req[q].pc \in Late =>
          req'[q].batch = a /\ req'[q].pc \in Late
    BY <1>5 DEF Late
  <2> QED
    BY <2>1, <2>2, <2>3 DEF Track
<1>8. ASSUME NEW q \in Callers PROVE CreateOK(q)' /\ PutTracked(q)'
  <2>1. CASE q = p
    BY <1>3, <1>4, <1>5, <1>6, <2>1 DEF CreateOK, OwnPut, PutTracked, Early, Late
  <2>2. CASE q # p
    <3>1. req'[q] = req[q] /\ call'[q] = call[q]
      BY <1>4, <1>5, <2>2
    <3>2. CreateOK(q) /\ PutTracked(q)
      BY DEF Track
    <3>3. CreateOK(q)'
      BY <1>3, <1>4, <3>1, <3>2 DEF CreateOK, OwnPut, Tracked
    <3>4. CASE call[q].batch = b
      BY <1>3, <1>4, <3>1, <3>2, <3>3, <3>4 DEF PutTracked
    <3>5. CASE call[q].batch # b
      <4>1. PICK a : a = call[q].batch
        OBVIOUS
      <4>2. NobodySubmits(a) => NobodySubmits(a)'
        BY <1>5, <3>5, <4>1 DEF NobodySubmits
      <4> QED
        BY <1>3, <1>4, <3>1, <3>2, <3>3, <4>1, <4>2 DEF PutTracked, NobodySubmits
    <3> QED
      BY <3>3, <3>4, <3>5
  <2> QED
    BY <2>1, <2>2
<1>9. \A q, s \in Callers :
        q # s /\ req'[q].pc \in Creating /\ req'[s].pc \in Creating => req'[q].batch # req'[s].batch
  BY <1>3, <1>5 DEF Track
<1> QED
  BY <1>7, <1>8, <1>9 DEF Track

LEMMA TrackBegins ==
  ASSUME ServiceInv, Track, NEW p \in Callers, Begins(p)
  PROVE  Track'
<1>0. job' = job /\ lost' = lost /\ logged' = logged /\ req[p] = NoRequest
  BY DEF Begins, Upload, Delete, Create, Refresh, Cancel
<1>1. /\ job' = job /\ lost' = lost /\ logged' = logged /\ req[p].pc = "idle"
      /\ \A b \in Batches : JobStays(b)
  BY <1>0 DEF NoRequest, JobStays
<1>2. ASSUME NEW f, StartUpload(p) \/ StartDelete(p, f), Goto(p, Finishing) PROVE Track'
  <2>1. /\ recs' = recs /\ \A q \in Callers : q # p => call'[q] = call[q]
        /\ call'[p].op \in {"upload", "delete"}
    BY <1>2, FileCall DEF ServiceInv
  <2>2. PutTracked(p)'
    BY <2>1 DEF PutTracked
  <2> QED
    BY <1>1, <1>2, <2>1, <2>2, TrackEnd DEF Goto, Finishing, NoRequest, Creating, Late
<1>3. ASSUME NEW b \in Batches, Refresh(p, b) \/ Cancel(p, b) PROVE Track'
  <2>1. PICK pc \in {"refresh", "cancel"} :
          req' = [req EXCEPT ![p] = [pc |-> pc, batch |-> b, rec |-> recs[b]]]
    BY <1>3 DEF Refresh, Cancel, Goto
  <2>2. PICK r : r = [pc |-> pc, batch |-> b, rec |-> recs[b]]
    OBVIOUS
  <2>3. req' = [req EXCEPT ![p] = r] /\ UNCHANGED storeVars /\ r.pc \notin Creating
    BY <1>3, <2>1, <2>2 DEF Refresh, Cancel, Creating
  <2> QED
    BY <1>1, <2>3, TrackQuiet DEF Late
<1> QED
  BY <1>2, <1>3, TrackCreate DEF Begins, Upload, Delete

(* The answers of the store: a create whose record is on disk submits; one *)
(* whose reference is on disk is done, or else has an orphan to cancel.    *)
LEMMA TrackAnswers ==
  ASSUME ServiceInv, Track, NEW p \in Callers, SavedBatch(p) \/ Recorded(p) \/ Finish(p)
  PROVE  Track'
<1>1. /\ Return(p) /\ job' = job /\ lost' = lost /\ logged' = logged
      /\ \A b \in Batches : JobStays(b)
      /\ req[p].pc \in {"save", "record", "finish"}
  BY DEF SavedBatch, Recorded, Finish, JobStays
<1>2. /\ recs' = recs /\ call'[p] = NoCall
      /\ \A q \in Callers : q # p => call'[q] = call[q]
  BY <1>1, ReturnCall DEF ServiceInv
<1>3. PutTracked(p)'
  BY <1>2 DEF PutTracked, NoCall
<1>4. CreateOK(p) /\ req[p] \in Request
  BY DEF Track, ServiceInv, TypeOK
<1>5. CASE req' = [req EXCEPT ![p] = NoRequest] /\ (req[p].pc = "record" => call[p].at = "ok")
  <2>1. ASSUME NEW b \in Batches, req[p].pc \in Late, req[p].batch = b PROVE Tracked(b)'
    <3>1. Tracked(b)
      BY <1>1, <1>4, <1>5, <2>1 DEF CreateOK, Late
    <3> QED
      BY <1>1, <1>2, <3>1 DEF Tracked
  <2> QED
    BY <1>1, <1>2, <1>3, <1>5, <2>1, TrackEnd DEF NoRequest, Creating
<1>6. CASE /\ req[p].pc = "save" /\ call[p].at = "ok"
           /\ req' = [req EXCEPT ![p] = [req[p] EXCEPT !.pc = "submit"]]
  <2>1. PICK r : r = [req[p] EXCEPT !.pc = "submit"]
    OBVIOUS
  <2>2. r.pc = "submit" /\ r.batch = req[p].batch
    BY <1>4, <2>1 DEF Request
  <2>3. req' = [req EXCEPT ![p] = r] /\ req'[p] = r
    BY <1>6, <2>1 DEF ServiceInv, TypeOK
  <2>4. job[req[p].batch].state = "none" /\ recs[req[p].batch].status # "absent"
    BY <1>4, <1>6 DEF CreateOK, Early
  <2>5. RequestStays(p)
    BY <1>1, <1>2, <1>3, <1>6, <2>2, <2>3, <2>4 DEF RequestStays, CreateOK, Creating, Early, Late
  <2> QED
    BY <1>1, <1>2, <2>3, <2>5, TrackMove
<1>7. CASE req[p].pc = "record" /\ req' = [req EXCEPT ![p] = [req[p] EXCEPT !.pc = "orphan"]]
  <2>1. PICK r : r = [req[p] EXCEPT !.pc = "orphan"]
    OBVIOUS
  <2>2. r.pc = "orphan" /\ r.batch = req[p].batch
    BY <1>4, <2>1 DEF Request
  <2>3. req' = [req EXCEPT ![p] = r] /\ req'[p] = r
    BY <1>7, <2>1 DEF ServiceInv, TypeOK
  <2>4. job[req[p].batch].state # "none"
    BY <1>4, <1>7 DEF CreateOK, Late
  <2>5. RequestStays(p)
    BY <1>1, <1>2, <1>3, <1>7, <2>2, <2>3, <2>4 DEF RequestStays, CreateOK, Creating, Early, Late
  <2> QED
    BY <1>1, <1>2, <2>3, <2>5, TrackMove
<1> QED
  BY <1>5, <1>6, <1>7 DEF SavedBatch, Recorded, Finish, Goto

(* The provider takes the job: from here on the create holds it.           *)
LEMMA TrackSubmit ==
  ASSUME ServiceInv, Track, NEW p \in Callers, Submit(p)
  PROVE  Track'
<1>1. PICK b \in Batches : b = req[p].batch
  BY DEF Submit, ServiceInv, RequestOK
<1>2. PICK r : r = [req[p] EXCEPT !.pc = "answer"]
  OBVIOUS
<1>3. /\ req[p].pc = "submit" /\ req' = [req EXCEPT ![p] = r] /\ AcceptJob(b)
      /\ recs' = recs /\ call' = call /\ lost' = lost /\ logged' = logged
  BY <1>1, <1>2 DEF Submit, Goto, storeVars
<1>4. /\ req'[p].pc = "answer" /\ req'[p].batch = b
      /\ \A q \in Callers : q # p => req'[q] = req[q]
  BY <1>1, <1>2, <1>3 DEF ServiceInv, TypeOK, Request
<1>5. job'[b].state # "none" /\ \A a \in Batches : a # b => job'[a] = job[a]
  BY <1>3, JobSteps DEF AcceptJob, ServiceInv, TypeOK
<1>6. CreateOK(p) /\ recs[b].status # "absent"
  BY <1>1, <1>3 DEF Track, CreateOK
<1>7. \A q \in Callers : q # p /\ req[q].pc \in Creating => req[q].batch # b
  BY <1>1, <1>3 DEF Track, Creating
<1>8. \A a \in Batches : recs'[a].status = "absent" => job'[a].state = "none"
  BY <1>3, <1>5, <1>6 DEF Track
<1>9. \A q, s \in Callers :
        q # s /\ req'[q].pc \in Creating /\ req'[s].pc \in Creating => req'[q].batch # req'[s].batch
  BY <1>3, <1>4, <1>7 DEF Track
<1>10. ASSUME NEW a \in Batches
       PROVE  Tracked(a)' \/ \E q \in Callers : req'[q].batch = a /\ req'[q].pc \in Late
  <2>1. CASE a = b
    BY <1>4, <2>1 DEF Late
  <2>2. CASE a # b
    <3>1. Tracked(a) => Tracked(a)'
      BY <1>3, <1>5, <2>2 DEF Tracked
    <3>2. \A q \in Callers : req[q].batch = a /\ req[q].pc \in Late =>
            req'[q].batch = a /\ req'[q].pc \in Late
      BY <1>3, <1>4 DEF Late
    <3> QED
      BY <3>1, <3>2 DEF Track
  <2> QED
    BY <2>1, <2>2
<1>11. ASSUME NEW q \in Callers PROVE CreateOK(q)'
  <2>1. CASE q = p
    BY <1>4, <1>5, <2>1 DEF CreateOK, Early, Late
  <2>2. CASE q # p /\ req[q].pc \in Creating
    <3>1. PICK a \in Batches : a = req[q].batch
      BY <2>2 DEF ServiceInv, RequestOK, Creating
    <3>2. req'[q] = req[q] /\ a # b /\ job'[a] = job[a]
      BY <1>4, <1>5, <1>7, <2>2, <3>1
    <3>3. CreateOK(q)
      BY DEF Track
    <3> QED
      BY <1>3, <3>1, <3>2, <3>3 DEF CreateOK, OwnPut, Tracked
  <2>3. CASE q # p /\ req[q].pc \notin Creating
    BY <1>4, <2>3 DEF CreateOK, Creating, Early, Late
  <2> QED
    BY <2>1, <2>2, <2>3
<1>12. ASSUME NEW q \in Callers PROVE PutTracked(q)'
  <2>1. PICK a : a = call[q].batch
    OBVIOUS
  <2>2. CASE call[q].op # "put"
    BY <1>3, <2>2 DEF PutTracked
  <2>3. CASE call[q].op = "put" /\ a = b
    <3>1. ~NobodySubmits(b) /\ ~(req[q].pc = "save" /\ req[q].batch = b)
      BY <1>1, <1>3, <1>7 DEF NobodySubmits, Early, Creating
    <3>2. PutTracked(q)
      BY DEF Track
    <3> QED
      BY <1>3, <2>1, <2>3, <3>1, <3>2 DEF PutTracked, NobodySubmits
  <2>4. CASE call[q].op = "put" /\ a # b
    <3>1. a \in Batches
      BY <2>1, <2>4 DEF ServiceInv, StoreInv, CallOK, ShapeOK
    <3>2. job'[a] = job[a]
      BY <1>5, <2>4, <3>1
    <3>3. NobodySubmits(a) => NobodySubmits(a)'
      BY <1>3, <1>4 DEF NobodySubmits, Early
    <3>4. req[q].pc = "save" => req'[q] = req[q]
      BY <1>3, <1>4
    <3>5. PutTracked(q)
      BY DEF Track
    <3> QED
      BY <1>3, <2>1, <3>2, <3>3, <3>4, <3>5 DEF PutTracked, NobodySubmits
  <2> QED
    BY <2>2, <2>3, <2>4
<1> QED
  BY <1>8, <1>9, <1>10, <1>11, <1>12 DEF Track

LEMMA TrackSubmitAccepted ==
  ASSUME ServiceInv, Truth, Track, NEW p \in Callers, SubmitAccepted(p)
  PROVE  Track'
<1>1. PICK b \in Batches : b = req[p].batch
  BY DEF SubmitAccepted, ServiceInv, RequestOK
<1>2. PICK rec : rec = [req[p].rec EXCEPT !.ref = TRUE, !.status = "in_progress"]
  OBVIOUS
<1>3. PICK r : r = [req[p] EXCEPT !.pc = "record", !.rec = rec]
  OBVIOUS
<1>4. /\ req[p].pc = "answer" /\ StartPut(p, b, rec) /\ req' = [req EXCEPT ![p] = r]
      /\ job' = job /\ lost' = lost /\ logged' = logged
  BY <1>1, <1>2, <1>3 DEF SubmitAccepted, Store, Goto
<1>5. rec.ref
  BY <1>2, <1>4, Carries DEF Meta
<1>6. req'[p].pc = "record" /\ req'[p].batch = b
  BY <1>1, <1>3, <1>4 DEF ServiceInv, TypeOK, Request
<1>7. /\ recs' = recs /\ \A q \in Callers : q # p => call'[q] = call[q]
      /\ call'[p].op = "put" /\ call'[p].batch = b /\ call'[p].rec = rec
      /\ call'[p].at = "wait"
  BY <1>4, StartPutCall DEF ServiceInv
<1>8. job[b].state # "none"
  BY <1>1, <1>4 DEF Track, CreateOK, Late
<1>9. CreateOK(p)' /\ PutTracked(p)'
  BY <1>4, <1>5, <1>6, <1>7, <1>8 DEF CreateOK, OwnPut, PutTracked, Early, Late
<1>10. RequestStays(p)
  BY <1>1, <1>4, <1>6, <1>9 DEF RequestStays, Creating, Early, Late
<1>11. \A a \in Batches : JobStays(a)
  BY <1>4 DEF JobStays
<1> QED
  BY <1>4, <1>7, <1>10, <1>11, TrackMove

LEMMA TrackQuiets ==
  ASSUME ServiceInv, Truth, Track, NEW p \in Callers,
         \/ CancelOrphan(p) \/ PollMisses(p)
         \/ (Expire(p) /\ req[p].rec.ref)
         \/ (Polling(p) /\ GiveUpRequest(p) /\ UNCHANGED <<job, lost, logged>>)
  PROVE  Track'
<1>1. PICK b \in Batches : b = req[p].batch
  BY DEF CancelOrphan, PollMisses, Polling, Expire, ServiceInv, RequestOK
<1>2. /\ UNCHANGED storeVars /\ lost' = lost /\ logged \subseteq logged'
      /\ req[p].pc \in {"orphan", "refresh"}
  BY DEF CancelOrphan, PollMisses, Expire, Polling, GiveUpRequest
<1>3. \A a \in Batches : JobStays(a)
  BY <1>1, JobsStay DEF CancelOrphan, PollMisses, Expire, ServiceInv, TypeOK
<1>4. PICK r : req' = [req EXCEPT ![p] = r] /\ r.pc \notin Creating
  <2>0. NoRequest.pc \notin Creating
    BY DEF NoRequest, Creating
  <2>1. CASE req' = [req EXCEPT ![p] = NoRequest]
    BY <2>0, <2>1
  <2>2. CASE Expire(p) /\ req[p].rec.ref
    <3>1. PICK r : r = [req[p] EXCEPT !.pc = "expire"]
      OBVIOUS
    <3>2. r.pc = "expire"
      BY <3>1 DEF ServiceInv, TypeOK, Request
    <3>3. req' = [req EXCEPT ![p] = r]
      BY <2>2, <3>1 DEF Expire, Goto
    <3> QED
      BY <3>2, <3>3 DEF Creating
  <2> QED
    BY <2>1, <2>2 DEF CancelOrphan, PollMisses, GiveUpRequest, Goto
<1>5. ASSUME req[p].pc \in Late PROVE Tracked(b)'
  <2>1. CancelOrphan(p)
    BY <1>5 DEF Late, PollMisses, Expire, Polling
  <2>2. job'[b].cancelAsked \/ b \in logged'
    BY <1>1, <2>1, JobSteps DEF CancelOrphan, ServiceInv, TypeOK
  <2> QED
    BY <2>2 DEF Tracked
<1>6. \A a \in Batches : req[p].pc \in Late /\ req[p].batch = a => Tracked(a)'
  BY <1>1, <1>5
<1> QED
  BY <1>2, <1>3, <1>4, <1>6, TrackQuiet

LEMMA TrackPuts ==
  ASSUME ServiceInv, Truth, Track, NEW p \in Callers,
         \/ SubmitFailed(p) \/ (Expire(p) /\ ~req[p].rec.ref) \/ CancelExpired(p)
         \/ PollRunning(p) \/ PollClosed(p) \/ CancelUpstream(p)
  PROVE  Track'
<1>1. PICK b \in Batches : b = req[p].batch
  BY DEF SubmitFailed, Expire, CancelExpired, PollRunning, PollClosed, CancelUpstream,
         Polling, ServiceInv, RequestOK
<1>2. \A a \in Batches : JobStays(a)
  BY <1>1, JobsStay DEF SubmitFailed, Expire, CancelExpired, PollRunning, PollClosed,
                        CancelUpstream, ServiceInv, TypeOK
<1>3. lost \subseteq lost' /\ logged' = logged
  BY DEF SubmitFailed, Expire, CancelExpired, PollRunning, PollClosed, CancelUpstream
<1>4. req[p].rec \in Meta
  BY Carries DEF SubmitFailed, Expire, CancelExpired, PollRunning, PollClosed, CancelUpstream, Polling
<1>5. ASSUME NEW st, Store(p, [req[p].rec EXCEPT !.status = st], Finishing),
             req[p].rec.ref \/ st = "expired" \/ b \in lost' \/ req[p].pc = "submit",
             req[p].pc \in Late => b \in lost'
      PROVE  Track'
  <2>1. PICK rec : rec = [req[p].rec EXCEPT !.status = st]
    OBVIOUS
  <2>2. rec.status = st /\ rec.ref = req[p].rec.ref
    BY <1>4, <2>1 DEF Meta
  <2>3. StartPut(p, b, rec) /\ req' = [req EXCEPT ![p] = Finishing]
    BY <1>1, <1>5, <2>1 DEF Store, Goto
  <2> QED
    BY <1>1, <1>2, <1>3, <1>5, <2>2, <2>3, TrackPut
<1>6. CASE SubmitFailed(p)
  BY <1>1, <1>5, <1>6 DEF SubmitFailed, Late
<1>7. CASE (Expire(p) /\ ~req[p].rec.ref) \/ CancelExpired(p)
  BY <1>5, <1>7 DEF Expire, CancelExpired, Expired, Late
<1>8. CASE PollRunning(p)
  BY <1>5, <1>8, TrackQuiets DEF PollRunning, Polling, Late
<1>9. CASE PollClosed(p)
  BY <1>5, <1>9 DEF PollClosed, Polling, Late
<1>10. CASE CancelUpstream(p)
  <2>1. CASE CancelJob(req[p].rec, req[p].batch)
             /\ Store(p, [req[p].rec EXCEPT !.status = "cancelling"], Finishing)
    BY <1>5, <1>10, <2>1 DEF CancelUpstream, CancelJob, Late
  <2>2. CASE GiveUpRequest(p)
    <3>1. UNCHANGED storeVars /\ req' = [req EXCEPT ![p] = NoRequest] /\ req[p].pc = "cancel"
      BY <1>10, <2>2 DEF GiveUpRequest, Goto, CancelUpstream
    <3> QED
      BY <1>2, <1>3, <3>1, TrackQuiet DEF NoRequest, Creating, Late
  <2> QED
    BY <1>10, <2>1, <2>2 DEF CancelUpstream
<1> QED
  BY <1>6, <1>7, <1>8, <1>9, <1>10

LEMMA TrackPollDone ==
  ASSUME ServiceInv, Track, NEW p \in Callers, PollDone(p)
  PROVE  Track'
<1>1. PICK b : b = req[p].batch
  OBVIOUS
<1>2. PICK patch : patch = Outcome(req[p].rec, job[b])
  OBVIOUS
<1>3. /\ req[p].pc = "refresh" /\ job' = job /\ lost' = lost /\ logged' = logged
      /\ StartFinalize(p, b, patch) /\ req' = [req EXCEPT ![p] = Finishing]
  BY <1>1, <1>2 DEF PollDone, Polling, Goto
<1>4. /\ recs' = recs /\ \A q \in Callers : q # p => call'[q] = call[q]
      /\ call'[p].op = "finalize"
  BY <1>3, StartFinalizeCall DEF ServiceInv
<1>5. PutTracked(p)'
  BY <1>4 DEF PutTracked
<1>6. \A a \in Batches : JobStays(a)
  BY <1>3 DEF JobStays
<1> QED
  BY <1>3, <1>4, <1>5, <1>6, TrackEnd DEF Finishing, NoRequest, Creating, Late

(* A gateway dies: a create that held a job not on record leaves it lost.  *)
LEMMA TrackCrash ==
  ASSUME ServiceInv, Track, NEW g \in Gateways, Crash(g)
  PROVE  Track'
<1>1. /\ recs' = recs /\ job' = job /\ logged' = logged /\ lost \subseteq lost'
      /\ \A p \in Callers : GatewayOf[p] = g => call'[p] = NoCall /\ req'[p] = NoRequest
      /\ \A p \in Callers : GatewayOf[p] # g => call'[p] = call[p] /\ req'[p] = req[p]
  BY DEF Crash, DropCalls, disk
<1>2. TrackKept
  BY <1>1 DEF TrackKept, RecordStays, JobStays
<1>3. ASSUME NEW p \in Callers, GatewayOf[p] = g PROVE RequestStays(p)
  <2>1. req'[p].pc = "idle" /\ call'[p].op = "none"
    BY <1>1, <1>3 DEF NoRequest, NoCall
  <2>2. CreateOK(p)' /\ PutTracked(p)'
    BY <2>1 DEF CreateOK, PutTracked, Early, Late
  <2>3. ASSUME NEW b \in Batches, req[p].pc \in Late, req[p].batch = b PROVE Tracked(b)'
    <3>1. p \in Dying(g)
      BY <1>3, <2>3 DEF Dying, NoRequest, Late
    <3>2. recs[b].ref \/ b \in lost'
      BY <2>3, <3>1 DEF Crash, Late
    <3> QED
      BY <1>1, <3>2 DEF Tracked
  <2> QED
    BY <2>1, <2>2, <2>3 DEF RequestStays, Creating, Early
<1> QED
  BY <1>1, <1>2, <1>3, TrackFrame

LEMMA TrackNext ==
  ASSUME ServiceInv, Truth, Track, [Next]_vars
  PROVE  Track'
<1>1. ASSUME NEW p \in Callers, Continues(p) PROVE Track'
  <2>1. ASSUME StoreStep(p), UNCHANGED <<serviceVars, job>> PROVE Track'
    BY <2>1, TrackStore
  <2>2. CASE SavedBatch(p) \/ Recorded(p) \/ Finish(p)
    BY <2>2, TrackAnswers
  <2>3. CASE CancelOrphan(p) \/ PollMisses(p)
    BY <2>3, TrackQuiets
  <2>4. CASE \/ SubmitFailed(p) \/ CancelExpired(p)
             \/ PollRunning(p) \/ PollClosed(p) \/ CancelUpstream(p)
    BY <2>4, TrackPuts
  <2>5. CASE Submit(p) \/ SubmitAccepted(p) \/ PollDone(p)
    BY <2>5, TrackSubmit, TrackSubmitAccepted, TrackPollDone
  <2>6. CASE Expire(p)
    <3>1. CASE req[p].rec.ref
      BY <2>6, <3>1, TrackQuiets
    <3>2. CASE ~req[p].rec.ref
      BY <2>6, <3>2, TrackPuts
    <3> QED
      BY <3>1, <3>2
  <2> QED
    BY <1>1, <2>1, <2>2, <2>3, <2>4, <2>5, <2>6 DEF Continues
<1>2. ASSUME UNCHANGED <<storeVars, req, lost, logged>>, \A b \in Batches : JobStays(b)
      PROVE  Track'
  BY <1>2, TrackFrame DEF storeVars, TrackKept, RecordStays
<1>3. ASSUME NEW b \in Batches, JobEnds(b) \/ JobCloses(b) \/ WindowPasses(b) PROVE Track'
  BY <1>2, <1>3, JobsStay DEF JobEnds, JobCloses, WindowPasses, serviceVars, ServiceInv, TypeOK
<1>4. CASE UNCHANGED vars
  BY <1>2, <1>4 DEF vars, serviceVars, JobStays
<1> QED
  BY <1>1, <1>3, <1>4, TrackBegins, TrackCrash DEF Next

LEMMA TrackInit ==
  ASSUME Init
  PROVE  Track
<1>1. \A p \in Callers : req[p].pc = "idle" /\ call[p].op = "none"
  BY DEF Init, StoreInit, NoRequest, NoCall
<1>2. \A p \in Callers : CreateOK(p) /\ PutTracked(p)
  BY <1>1 DEF CreateOK, PutTracked, Early, Late
<1>3. \A b \in Batches : job[b].state = "none"
  BY DEF Init, NoJob
<1> QED
  BY <1>1, <1>2, <1>3 DEF Track, Tracked, Creating
-----------------------------------------------------------------------------
(* The theorems. *)

(* The service keeps its type.                                             *)
THEOREM ServiceTypeCorrect == Spec => []TypeOK
<1>1. ServiceInv => TypeOK
  BY DEF ServiceInv
<1>2. ServiceInv /\ [Next]_vars => ServiceInv'
  BY ServiceNext
<1> QED
  BY <1>1, <1>2, ServiceInit, PTL DEF Spec

(* The batch service uses the store within its specification: whatever     *)
(* its requests do, every record they put is one a caller may put, and     *)
(* every change of the disk is a step of the store.                        *)
THEOREM ServiceImplementsStore == Spec => StoreSpec
<1>1. Init => StoreInit
  BY DEF Init
<1>2. ServiceInv /\ [Next]_vars => ServiceInv' /\ [StoreNext]_storeVars
  BY ServiceNext
<1> QED
  BY <1>1, <1>2, ServiceInit, PTL DEF Spec, StoreSpec

(* Hence the store's guarantees hold under the service: no output a batch  *)
(* names goes missing, no file in use is removed, and a batch is finalised *)
(* from an open record only.                                               *)
THEOREM ServiceKeepsOutputs == Spec => []FilesAreWhole /\ InUseNeverRemoved /\ FinalizedFromOpen
BY ServiceImplementsStore, FilesAlwaysWhole, InUseIsNeverRemoved, OnlyOpenIsFinalized

(* A completed batch is one whose provider's job ended, not with errors    *)
(* alone, and the files it names are those the job had lines for: the      *)
(* patch of PollDone says what the job said, and a finalisation names what *)
(* it has saved and nothing else.                                          *)
THEOREM OutcomeAlwaysMatches == Spec => []OutcomeMatchesProvider
<1>1. Truth => OutcomeMatchesProvider
  BY DEF Truth, RecordTrue, OutcomeTrue, OutcomeMatchesProvider
<1>2. Init => ServiceInv /\ Truth
  BY ServiceInit, TruthInit
<1>3. ServiceInv /\ Truth /\ [Next]_vars => (ServiceInv /\ Truth)'
  BY ServiceNext, TruthNext
<1> QED
  BY <1>1, <1>2, <1>3, PTL DEF Spec

(* A batch says that it is cancelled, or will be, only when the provider   *)
(* has taken a cancel or cancelled the job: the copies that stale requests *)
(* put later cannot say so either.                                         *)
THEOREM CancelsAreReal == Spec => []CancelIsReal
<1>1. Truth => CancelIsReal
  BY DEF Truth, RecordTrue, Believable, Asked, CancelIsReal
<1>2. Init => ServiceInv /\ Truth
  BY ServiceInit, TruthInit
<1>3. ServiceInv /\ Truth /\ [Next]_vars => (ServiceInv /\ Truth)'
  BY ServiceNext, TruthNext
<1> QED
  BY <1>1, <1>2, <1>3, PTL DEF Spec

(* A job that runs is never forgotten: its reference is on record or with  *)
(* its create, or it was asked to stop, logged, lost with a gateway or an  *)
(* answer, or its batch has expired; and a running batch has a reference.  *)
THEOREM JobsAreTracked == Spec => []RunningJobIsTracked
<1>1. Truth /\ Track => RunningJobIsTracked
  <2>1. Truth => RunningHasReference
    BY DEF Truth, RecordTrue, Believable, RunningHasReference
  <2> QED
    BY <2>1 DEF Track, Tracked, Late, RunningJobIsTracked
<1>2. Init => ServiceInv /\ Truth /\ Track
  BY ServiceInit, TruthInit, TrackInit
<1>3. ServiceInv /\ Truth /\ Track /\ [Next]_vars => (ServiceInv /\ Truth /\ Track)'
  BY ServiceNext, TruthNext, TrackNext
<1> QED
  BY <1>1, <1>2, <1>3, PTL DEF Spec
=============================================================================
