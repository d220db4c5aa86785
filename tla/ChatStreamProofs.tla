-------------------------- MODULE ChatStreamProofs --------------------------
(***************************************************************************)
(* Proofs about ChatStream, for any choices, chunks, queue and number of   *)
(* chunks.  The forwarder's step says how much of the answer is out, who   *)
(* may still change the producer's error, and what the sanitizer remembers *)
(* of what was written.  That nothing is lost takes one thing more: how    *)
(* many of the chunks sent the forwarder has taken, and what is left of    *)
(* them by a recursive function of their number.                           *)
(***************************************************************************)
EXTENDS ChatStream, WellFoundedInduction, TLAPS

Ends == {DONE, ErrorBody}

(* How far the answer is, by the forwarder's step. *)
AnswerOK ==
  /\ fwd.at # "done" => \A i \in DOMAIN wire : wire[i] \in Chunk
  /\ fwd.at # "done" /\ ~fwd.started => wire = <<>>
  /\ fwd.at \in {"dial", "failed"} => ~fwd.started
  /\ fwd.at \in {"write", "finish"} => fwd.started
  /\ fwd.at \in {"read", "blame"} /\ fwd.started => wire # <<>>

(* The producer's error: set once, when it ends, or by a failed dial. *)
ErrorOK ==
  /\ fwd.at = "dial" => producer.at = "none" /\ err = "none"
  /\ err # "none" => producer.at \in {"none", "gone"}
  /\ err = "canceled" => ctxDone
  /\ fwd.at = "blame" => err # "none" /\ producer.at = "gone"
  /\ verdict = "unavailable" =>
       /\ err = "backend"
       /\ producer.at \in {"none", "gone"}
       /\ fwd.at \in {"failed", "done"}

(* What the sanitizer remembers covers what the client was told.           *)
FinishedOK ==
  /\ \A i \in DOMAIN wire : wire[i] \in Chunk => wire[i].ends \subseteq fwd.finished
  /\ fwd.at = "write" =>
       /\ fwd.item.ends \subseteq fwd.finished
       /\ \A i \in DOMAIN wire :
            wire[i] \in Chunk => wire[i].ends \cap fwd.item.touches = {}

StreamInv == TypeOK /\ AnswerOK /\ ErrorOK /\ FinishedOK /\ OneAnswer /\ LegalStream

-----------------------------------------------------------------------------
LEMMA ChunkFacts ==
  /\ NoChunk \in Chunk
  /\ \A c \in Chunks : c \in Chunk
  /\ DONE \notin Chunk /\ ErrorBody \notin Chunk /\ DONE # ErrorBody
  BY ChatStreamAssumption DEF Chunk, NoChunk

LEMMA StreamInit == Init => StreamInv
<1> SUFFICES ASSUME Init PROVE StreamInv
  OBVIOUS
<1>1. TypeOK
  <2>1. /\ out \in Seq(Chunk) /\ Len(out) <= Capacity
        /\ sent \in Seq(Chunk) /\ Len(sent) <= MaxSent
        /\ wire \in Seq(Chunk \cup {DONE, ErrorBody})
    BY ChatStreamAssumption DEF Init
  <2>2. /\ producer \in [at : {"none", "recv", "send", "gone"}, item : Chunk]
        /\ fwd \in [at : Stages, item : Chunk, finished : SUBSET Indexes, started : BOOLEAN]
    BY ChunkFacts DEF Init, Stages
  <2>3. watchdog \in [armed : BOOLEAN, fired : BOOLEAN, cancelling : BOOLEAN,
                      stall : {"none", "backend", "client"}]
    BY DEF Init, startStreamWatchdog
  <2> QED
    BY <2>1, <2>2, <2>3 DEF Init, TypeOK
<1>2. AnswerOK /\ ErrorOK /\ FinishedOK
  BY DEF Init, AnswerOK, ErrorOK, FinishedOK
<1>3. OneAnswer /\ LegalStream
  BY DEF Init, OneAnswer, LegalStream
<1> QED
  BY <1>1, <1>2, <1>3 DEF StreamInv

(* The steps that leave the forwarder and the wire alone. *)
Quiet == UNCHANGED <<fwd, wire, verdict>> /\ (hungUp => hungUp')

LEMMA QuietKeeps ==
  ASSUME StreamInv, Quiet
  PROVE  AnswerOK' /\ FinishedOK' /\ OneAnswer' /\ LegalStream'
<1>1. AnswerOK'
  BY DEF StreamInv, Quiet, AnswerOK
<1>2. FinishedOK'
  BY DEF StreamInv, Quiet, FinishedOK
<1>3. OneAnswer'
  BY DEF StreamInv, Quiet, OneAnswer
<1>4. LegalStream'
  BY DEF StreamInv, Quiet, LegalStream
<1> QED
  BY <1>1, <1>2, <1>3, <1>4

LEMMA ProviderSendsKeeps ==
  ASSUME StreamInv, NEW c \in Chunks, ProviderSends(c)
  PROVE  StreamInv'
<1>1. c \in Chunk
  BY ChunkFacts
<1>2. TypeOK'
  BY <1>1, ChatStreamAssumption DEF StreamInv, TypeOK, ProviderSends
<1>3. Quiet
  BY DEF Quiet, ProviderSends
<1>4. ErrorOK'
  BY DEF StreamInv, ErrorOK, ProviderSends, TypeOK
<1> QED
  BY <1>2, <1>3, <1>4, QuietKeeps DEF StreamInv

LEMMA GoneKeeps ==
  ASSUME StreamInv, producer.at \in {"recv", "send"},
         NEW e \in {"none", "backend", "canceled"}, e = "canceled" => ctxDone, Gone(e)
  PROVE  StreamInv'
<1>1. TypeOK'
  BY ChunkFacts DEF StreamInv, TypeOK, Gone
<1>2. Quiet
  BY DEF Quiet, Gone
<1>3. ErrorOK'
  BY DEF StreamInv, ErrorOK, Gone, TypeOK
<1> QED
  BY <1>1, <1>2, <1>3, QuietKeeps DEF StreamInv

LEMMA SendKeeps ==
  ASSUME StreamInv, Send
  PROVE  StreamInv'
<1>1. CASE ctxDone /\ Gone("canceled")
  BY <1>1, GoneKeeps DEF Send
<1>2. CASE /\ Len(out) < Capacity
           /\ out' = Append(out, producer.item)
           /\ producer' = [at |-> "recv", item |-> NoChunk]
           /\ UNCHANGED <<err, ctxDone, watchdog, fwd, verdict, wire, hungUp, sent>>
  <2>1. TypeOK'
    BY <1>2, ChunkFacts, ChatStreamAssumption DEF StreamInv, TypeOK
  <2>2. Quiet
    BY <1>2 DEF Quiet
  <2>3. ErrorOK'
    BY <1>2 DEF StreamInv, ErrorOK, TypeOK, Send
  <2> QED
    BY <2>1, <2>2, <2>3, QuietKeeps DEF StreamInv
<1> QED
  BY <1>1, <1>2 DEF Send

LEMMA OutsideKeeps ==
  ASSUME StreamInv, Fires \/ Cancels \/ HangUp \/ Noticed
  PROVE  StreamInv'
<1>1. TypeOK'
  <2>1. CASE Fires
    BY <2>1 DEF StreamInv, TypeOK, Fires
  <2>2. CASE Cancels
    BY <2>2 DEF StreamInv, TypeOK, Cancels
  <2>3. CASE HangUp
    BY <2>3 DEF StreamInv, TypeOK, HangUp
  <2>4. CASE Noticed
    BY <2>4 DEF StreamInv, TypeOK, Noticed
  <2> QED
    BY <2>1, <2>2, <2>3, <2>4
<1>2. Quiet
  BY DEF Quiet, Fires, Cancels, HangUp, Noticed
<1>3. ErrorOK'
  BY DEF StreamInv, ErrorOK, Fires, Cancels, HangUp, Noticed
<1> QED
  BY <1>1, <1>2, <1>3, QuietKeeps DEF StreamInv

-----------------------------------------------------------------------------
(* The forwarder leaves with a failure, the wire as it is. *)

Verdicts == {"none", "ok", "timeout", "canceled", "unavailable"}

LEMMA FailKeeps ==
  ASSUME StreamInv, NEW v \in Verdicts, Fail(v), fwd.at \notin {"failed", "done"},
         UNCHANGED <<wire, hungUp, out, sent>>, producer' \in {producer},
         err' \in {"none", "backend", "canceled"},
         err' # err => fwd.at = "dial" /\ err' # "none",
         err' = "canceled" => ctxDone,
         v = "unavailable" => err' = "backend" /\ producer.at \in {"none", "gone"},
         fwd.at \in {"write", "finish"} => hungUp
  PROVE  StreamInv'
<1> DEFINE to == IF fwd.started THEN "done" ELSE "failed"
<1>0. /\ fwd' = [fwd EXCEPT !.at = to, !.item = NoChunk]
      /\ verdict' = v /\ ctxDone' = TRUE
      /\ watchdog' = [watchdog EXCEPT !.armed = FALSE]
      /\ producer' = producer
  BY DEF Fail, Leave
<1>1. fwd'.at = to /\ fwd'.finished = fwd.finished /\ fwd'.started = fwd.started
  BY <1>0 DEF StreamInv, TypeOK
<1>2. TypeOK'
  BY <1>0, ChunkFacts DEF StreamInv, TypeOK, Stages, Verdicts
<1>3. AnswerOK'
  BY <1>1 DEF StreamInv, AnswerOK
<1>4. ErrorOK'
  BY <1>0, <1>1 DEF StreamInv, ErrorOK
<1>5. FinishedOK'
  BY <1>1 DEF StreamInv, FinishedOK
<1>6. OneAnswer'
  <2>1. fwd'.at = "done" /\ ~hungUp' => wire' # <<>>
    BY <1>1 DEF StreamInv, AnswerOK, TypeOK, Stages
  <2> QED
    BY <2>1 DEF StreamInv, OneAnswer
<1>7. LegalStream'
  BY DEF StreamInv, LegalStream
<1> QED
  BY <1>2, <1>3, <1>4, <1>5, <1>6, <1>7 DEF StreamInv

LEMMA DialKeeps ==
  ASSUME StreamInv, Dial
  PROVE  StreamInv'
<1>1. CASE /\ producer' = [producer EXCEPT !.at = "recv"]
           /\ fwd' = [fwd EXCEPT !.at = "read"]
           /\ UNCHANGED <<err, ctxDone, watchdog, verdict>>
  <2>0. /\ UNCHANGED <<out, wire, hungUp, sent>> /\ fwd.at = "dial"
        /\ fwd'.at = "read" /\ fwd'.finished = fwd.finished /\ fwd'.started = fwd.started
        /\ producer'.at = "recv" /\ producer.at = "none"
    BY <1>1 DEF Dial, StreamInv, TypeOK, ErrorOK
  <2>e. err = "none" /\ verdict # "unavailable"
    BY <2>0 DEF StreamInv, ErrorOK, TypeOK
  <2>1. TypeOK'
    BY <1>1, <2>0, ZenonT(60) DEF StreamInv, TypeOK, Stages
  <2>2. AnswerOK'
    BY <2>0 DEF StreamInv, AnswerOK
  <2>3. ErrorOK'
    BY <1>1, <2>0, <2>e DEF StreamInv, ErrorOK
  <2>4. FinishedOK'
    BY <2>0 DEF StreamInv, FinishedOK
  <2>5. OneAnswer'
    BY <2>0 DEF StreamInv, OneAnswer
  <2>6. LegalStream'
    BY <2>0 DEF StreamInv, LegalStream
  <2> QED
    BY <2>1, <2>2, <2>3, <2>4, <2>5, <2>6 DEF StreamInv
<1>2. ASSUME NEW e \in {"backend"} \cup (IF ctxDone THEN {"canceled"} ELSE {}),
             err' = e, UNCHANGED producer,
             Fail(IF watchdog.fired THEN "timeout"
                  ELSE IF e = "canceled" THEN "canceled" ELSE "unavailable")
      PROVE  StreamInv'
  <2> DEFINE v == IF watchdog.fired THEN "timeout"
                  ELSE IF e = "canceled" THEN "canceled" ELSE "unavailable"
  <2>1. e \in {"backend", "canceled"} /\ (e = "canceled" => ctxDone)
    OBVIOUS
  <2>2. v \in Verdicts /\ (v = "unavailable" => e = "backend")
    BY <2>1 DEF Verdicts
  <2>3. Fail(v)
    BY <1>2
  <2> HIDE DEF v
  <2>4. /\ fwd.at = "dial" /\ producer.at = "none"
        /\ UNCHANGED <<wire, hungUp, out, sent>>
    BY DEF Dial, StreamInv, ErrorOK
  <2> QED
    BY <1>2, <2>1, <2>2, <2>3, <2>4, FailKeeps
<1> QED
  BY <1>1, <1>2 DEF Dial

LEMMA ContextEndsKeeps ==
  ASSUME StreamInv, ContextEnds
  PROVE  StreamInv'
<1> DEFINE v == IF watchdog.fired THEN "timeout" ELSE "canceled"
<1>1. /\ fwd.at = "read" /\ Fail(v)
      /\ UNCHANGED <<producer, out, err, wire, hungUp, sent>>
  BY DEF ContextEnds, StreamEnded
<1>2. v \in Verdicts /\ v # "unavailable"
  BY DEF Verdicts
<1>3. err \in {"none", "backend", "canceled"} /\ (err = "canceled" => ctxDone)
  BY DEF StreamInv, TypeOK, ErrorOK
<1> HIDE DEF v
<1> QED
  BY <1>1, <1>2, <1>3, FailKeeps

(* The sanitizer: nothing of a finished choice passes.                     *)
LEMMA SanitizedIsLegal ==
  ASSUME NEW finished \in SUBSET Indexes, NEW c \in Chunk
  PROVE  /\ Sanitized(finished, c) \in Chunk
         /\ Sanitized(finished, c).touches \cap finished = {}
         /\ Sanitized(finished, c).ends \subseteq markFinished(finished, c)
         /\ markFinished(finished, c) \in SUBSET Indexes
         /\ finished \subseteq markFinished(finished, c)
  BY DEF Sanitized, markFinished, afterFinish, NoChunk, Chunk

LEMMA NextChunkKeeps ==
  ASSUME StreamInv, NextChunk
  PROVE  StreamInv'
<1> DEFINE c == Head(out)
           forwarding == ~Dropped(fwd.finished, c)
           clean == Sanitized(fwd.finished, c)
<1>0. /\ TypeOK /\ fwd.at = "read" /\ out # <<>> /\ out' = Tail(out)
      /\ watchdog' = [watchdog EXCEPT !.armed = TRUE]
      /\ UNCHANGED <<producer, err, ctxDone, verdict, wire, hungUp, sent>>
      /\ fwd' = [fwd EXCEPT !.finished = markFinished(@, c),
                            !.at = IF forwarding THEN "write" ELSE @,
                            !.item = IF forwarding THEN clean ELSE @,
                            !.started = @ \/ forwarding]
  BY DEF StreamInv, NextChunk
<1>1. c \in Chunk /\ Tail(out) \in Seq(Chunk) /\ Len(Tail(out)) <= Capacity
  BY <1>0, ChatStreamAssumption DEF TypeOK
<1>2. /\ fwd.finished \in SUBSET Indexes /\ fwd.item \in Chunk /\ fwd.started \in BOOLEAN
      /\ forwarding \in BOOLEAN
  BY <1>0 DEF TypeOK, Dropped
<1>3. /\ clean \in Chunk /\ clean.touches \cap fwd.finished = {}
      /\ clean.ends \subseteq markFinished(fwd.finished, c)
      /\ markFinished(fwd.finished, c) \in SUBSET Indexes
      /\ fwd.finished \subseteq markFinished(fwd.finished, c)
  BY <1>1, <1>2, SanitizedIsLegal
<1> HIDE DEF c, forwarding, clean
<1>4. /\ fwd'.finished = markFinished(fwd.finished, c)
      /\ fwd'.at = IF forwarding THEN "write" ELSE "read"
      /\ fwd'.item = IF forwarding THEN clean ELSE fwd.item
      /\ fwd'.started = (fwd.started \/ forwarding)
      /\ fwd' \in [at : Stages, item : Chunk, finished : SUBSET Indexes, started : BOOLEAN]
  BY <1>0, <1>2, <1>3 DEF TypeOK, Stages
<1>5. TypeOK'
  BY <1>0, <1>1, <1>4 DEF TypeOK
<1>6. AnswerOK'
  BY <1>0, <1>4 DEF StreamInv, AnswerOK
<1>7. ErrorOK'
  BY <1>0, <1>4 DEF StreamInv, ErrorOK
<1>8. FinishedOK'
  <2>1. \A i \in DOMAIN wire : wire[i] \in Chunk => wire[i].ends \subseteq fwd.finished
    BY DEF StreamInv, FinishedOK
  <2>2. CASE forwarding
    BY <1>0, <1>3, <1>4, <2>1, <2>2 DEF FinishedOK
  <2>3. CASE ~forwarding
    BY <1>0, <1>3, <1>4, <2>1, <2>3 DEF FinishedOK
  <2> QED
    BY <2>2, <2>3
<1>9. OneAnswer'
  BY <1>0, <1>4 DEF StreamInv, OneAnswer
<1>10. LegalStream'
  BY <1>0 DEF StreamInv, LegalStream
<1> QED
  BY <1>5, <1>6, <1>7, <1>8, <1>9, <1>10 DEF StreamInv

LEMMA TakeErrorKeeps ==
  ASSUME StreamInv, TakeError
  PROVE  StreamInv'
<1>0. /\ TypeOK /\ fwd.at = "read" /\ producer.at = "gone"
      /\ UNCHANGED <<producer, out, err, wire, hungUp, sent>>
      /\ err \in {"none", "backend", "canceled"} /\ (err = "canceled" => ctxDone)
  BY DEF StreamInv, TakeError, TypeOK, ErrorOK
<1>1. CASE StreamEnded
  BY <1>0, <1>1, FailKeeps DEF StreamEnded, Verdicts
<1>2. CASE /\ \/ err = "none" /\ fwd' = [fwd EXCEPT !.at = "finish", !.started = TRUE]
              \/ err # "none" /\ fwd' = [fwd EXCEPT !.at = "blame"]
           /\ UNCHANGED <<ctxDone, watchdog, verdict>>
  <2>1. /\ fwd'.at \in {"finish", "blame"} /\ fwd'.finished = fwd.finished
        /\ fwd'.at = "finish" => fwd'.started
        /\ fwd'.at = "blame" => err # "none" /\ fwd'.started = fwd.started
        /\ fwd' \in [at : Stages, item : Chunk, finished : SUBSET Indexes, started : BOOLEAN]
    BY <1>0, <1>2 DEF TypeOK, Stages
  <2>2. TypeOK'
    BY <1>0, <1>2, <2>1 DEF TypeOK
  <2>3. AnswerOK'
    BY <1>0, <2>1 DEF StreamInv, AnswerOK
  <2>4. ErrorOK'
    BY <1>0, <1>2, <2>1 DEF StreamInv, ErrorOK
  <2>5. FinishedOK'
    BY <1>0, <2>1 DEF StreamInv, FinishedOK
  <2>6. OneAnswer'
    BY <1>0, <2>1 DEF StreamInv, OneAnswer
  <2>7. LegalStream'
    BY <1>0 DEF StreamInv, LegalStream
  <2> QED
    BY <2>2, <2>3, <2>4, <2>5, <2>6, <2>7 DEF StreamInv
<1> QED
  BY <1>1, <1>2 DEF TakeError

LEMMA BlameKeeps ==
  ASSUME StreamInv, Blame
  PROVE  StreamInv'
<1>0. /\ fwd.at = "blame" /\ producer.at = "gone" /\ err # "none"
      /\ UNCHANGED <<producer, out, err, wire, hungUp, sent>>
      /\ err \in {"none", "backend", "canceled"} /\ (err = "canceled" => ctxDone)
  BY DEF StreamInv, Blame, TypeOK, ErrorOK
<1> DEFINE v == IF fwd.started THEN IF ctxDone THEN "canceled" ELSE "unavailable"
                ELSE IF err = "canceled" THEN "canceled" ELSE "unavailable"
<1>1. Fail(v)
  BY DEF Blame, afterHeaders
<1>2. v \in Verdicts /\ (v = "unavailable" => err = "backend")
  BY <1>0 DEF Verdicts
<1> HIDE DEF v
<1> QED
  BY <1>0, <1>1, <1>2, FailKeeps

(* A write that fails: the client has gone.                                *)
LEMMA LostWriteKeeps ==
  ASSUME StreamInv, fwd.at \in {"write", "finish"}, hungUp, afterHeaders(TRUE),
         UNCHANGED <<producer, out, err, wire, hungUp, sent>>
  PROVE  StreamInv'
<1>1. Fail("canceled")
  BY DEF afterHeaders
<1>2. err \in {"none", "backend", "canceled"} /\ (err = "canceled" => ctxDone)
  BY DEF StreamInv, TypeOK, ErrorOK
<1> QED
  BY <1>1, <1>2, FailKeeps DEF Verdicts

LEMMA Appended ==
  ASSUME NEW S, NEW s \in Seq(S), NEW x
  PROVE  /\ DOMAIN Append(s, x) = 1 .. Len(s) + 1 /\ DOMAIN s = 1 .. Len(s)
         /\ Len(s) \in Nat /\ Len(Append(s, x)) = Len(s) + 1
         /\ Append(s, x)[Len(s) + 1] = x
         /\ \A i \in 1 .. Len(s) : Append(s, x)[i] = s[i]
         /\ Append(s, x) # <<>>
  OBVIOUS

LEMMA WriteChunkKeeps ==
  ASSUME StreamInv, WriteChunk
  PROVE  StreamInv'
<1>0. fwd.at = "write" /\ TypeOK /\ UNCHANGED <<producer, out, err, hungUp, sent>>
  BY DEF StreamInv, WriteChunk
<1>1. CASE hungUp /\ afterHeaders(TRUE) /\ UNCHANGED wire
  BY <1>0, <1>1, LostWriteKeeps
<1>2. CASE /\ wire' = Append(wire, fwd.item)
           /\ fwd' = [fwd EXCEPT !.at = "read", !.item = NoChunk]
           /\ UNCHANGED <<ctxDone, watchdog, verdict>>
  <2>0. /\ wire \in Seq(Chunk \cup {DONE, ErrorBody}) /\ fwd.item \in Chunk
        /\ \A i \in DOMAIN wire : wire[i] \in Chunk
        /\ fwd.item.ends \subseteq fwd.finished
        /\ \A i \in DOMAIN wire : /\ wire[i].ends \subseteq fwd.finished
                                  /\ wire[i].ends \cap fwd.item.touches = {}
        /\ fwd.started
    BY <1>0 DEF TypeOK, StreamInv, AnswerOK, FinishedOK
  <2>1. /\ fwd'.at = "read" /\ fwd'.finished = fwd.finished /\ fwd'.started = fwd.started
        /\ fwd' \in [at : Stages, item : Chunk, finished : SUBSET Indexes, started : BOOLEAN]
    BY <1>0, <1>2, ChunkFacts DEF TypeOK, Stages
  <2>2. /\ DOMAIN wire' = 1 .. Len(wire) + 1 /\ DOMAIN wire = 1 .. Len(wire)
        /\ Len(wire) \in Nat /\ wire' # <<>>
        /\ wire'[Len(wire) + 1] = fwd.item
        /\ \A i \in 1 .. Len(wire) : wire'[i] = wire[i]
    BY <1>2, <2>0, Appended
  <2>3. wire' \in Seq(Chunk \cup {DONE, ErrorBody})
    BY <1>2, <2>0
  <2>4. \A i \in DOMAIN wire' : wire'[i] \in Chunk /\ wire'[i].ends \subseteq fwd.finished
    BY <2>0, <2>2
  <2>5. TypeOK'
    BY <1>0, <1>2, <2>1, <2>3 DEF TypeOK
  <2>6. AnswerOK'
    BY <2>0, <2>1, <2>2, <2>4 DEF AnswerOK
  <2>7. ErrorOK'
    BY <1>0, <1>2, <2>1 DEF StreamInv, ErrorOK
  <2>8. FinishedOK'
    BY <2>1, <2>4 DEF FinishedOK
  <2>9. OneAnswer'
    BY <2>1, <2>4, ChunkFacts DEF OneAnswer
  <2>10. LegalStream'
    <3> SUFFICES ASSUME NEW i \in DOMAIN wire', NEW j \in DOMAIN wire', i < j
                 PROVE  wire'[i].ends \cap wire'[j].touches = {}
      BY DEF LegalStream
    <3>1. i \in DOMAIN wire /\ wire'[i] = wire[i]
      BY <2>2
    <3>2. CASE j = Len(wire) + 1
      BY <2>0, <2>2, <3>1, <3>2
    <3>3. CASE j # Len(wire) + 1
      <4>1. j \in DOMAIN wire /\ wire'[j] = wire[j]
        BY <2>2, <3>3
      <4>2. {wire[i], wire[j]} \cap {DONE, ErrorBody} = {}
        BY <2>0, <3>1, <4>1, ChunkFacts
      <4> QED
        BY <3>1, <4>1, <4>2 DEF StreamInv, LegalStream
    <3> QED
      BY <3>2, <3>3
  <2> QED
    BY <2>5, <2>6, <2>7, <2>8, <2>9, <2>10 DEF StreamInv
<1> QED
  BY <1>1, <1>2 DEF WriteChunk

(* The last thing written: [DONE] after chunks, or an error body alone.    *)
LEMMA EndKeeps ==
  ASSUME StreamInv, fwd.at \in {"finish", "failed"}, fwd.at = "failed" => ~fwd.started,
         NEW e \in {DONE, ErrorBody}, e = ErrorBody => fwd.at = "failed",
         wire' = Append(wire, e), fwd'.at = "done", fwd'.finished = fwd.finished
  PROVE  /\ AnswerOK' /\ FinishedOK' /\ OneAnswer' /\ LegalStream'
         /\ wire' \in Seq(Chunk \cup {DONE, ErrorBody})
<1>1. /\ wire \in Seq(Chunk \cup {DONE, ErrorBody})
      /\ \A i \in DOMAIN wire : wire[i] \in Chunk /\ wire[i].ends \subseteq fwd.finished
      /\ e = ErrorBody => wire = <<>>
  BY DEF StreamInv, TypeOK, AnswerOK, FinishedOK
<1>2. /\ DOMAIN wire' = 1 .. Len(wire) + 1 /\ DOMAIN wire = 1 .. Len(wire)
      /\ Len(wire) \in Nat /\ wire' # <<>> /\ Len(wire') = Len(wire) + 1
      /\ wire'[Len(wire) + 1] = e
      /\ \A i \in 1 .. Len(wire) : wire'[i] = wire[i]
  BY <1>1, Appended
<1>3. wire' \in Seq(Chunk \cup {DONE, ErrorBody})
  BY <1>1
<1>4. AnswerOK'
  BY DEF AnswerOK
<1>5. FinishedOK'
  BY <1>1, <1>2, ChunkFacts DEF FinishedOK
<1>6. OneAnswer'
  <2>1. \A i \in DOMAIN wire' : wire'[i] = DONE => i = Len(wire')
    BY <1>1, <1>2, ChunkFacts
  <2>2. \A i \in DOMAIN wire' : wire'[i] = ErrorBody => Len(wire') = 1
    BY <1>1, <1>2, ChunkFacts
  <2> QED
    BY <1>2, <2>1, <2>2 DEF OneAnswer
<1>7. LegalStream'
  <2> SUFFICES ASSUME NEW i \in DOMAIN wire', NEW j \in DOMAIN wire', i < j,
                      {wire'[i], wire'[j]} \cap {DONE, ErrorBody} = {}
               PROVE  wire'[i].ends \cap wire'[j].touches = {}
    BY DEF LegalStream
  <2>1. i # Len(wire) + 1 /\ j # Len(wire) + 1
    BY <1>2
  <2>2. i \in DOMAIN wire /\ j \in DOMAIN wire
    BY <1>2, <2>1
  <2>3. wire'[i] = wire[i] /\ wire'[j] = wire[j]
    BY <1>2, <2>2
  <2> QED
    BY <2>2, <2>3 DEF StreamInv, LegalStream
<1> QED
  BY <1>3, <1>4, <1>5, <1>6, <1>7

LEMMA WriteDoneKeeps ==
  ASSUME StreamInv, WriteDone
  PROVE  StreamInv'
<1>0. fwd.at = "finish" /\ TypeOK /\ UNCHANGED <<producer, out, err, hungUp, sent>>
  BY DEF StreamInv, WriteDone
<1>1. CASE hungUp /\ afterHeaders(TRUE) /\ UNCHANGED wire
  BY <1>0, <1>1, LostWriteKeeps
<1>2. CASE wire' = Append(wire, DONE) /\ Leave("done", "ok")
  <2>1. /\ fwd' = [fwd EXCEPT !.at = "done", !.item = NoChunk]
        /\ verdict' = "ok" /\ ctxDone' = TRUE
        /\ watchdog' = [watchdog EXCEPT !.armed = FALSE]
    BY <1>2 DEF Leave
  <2>2. fwd'.at = "done" /\ fwd'.finished = fwd.finished
    BY <1>0, <2>1 DEF TypeOK
  <2>3. /\ AnswerOK' /\ FinishedOK' /\ OneAnswer' /\ LegalStream'
        /\ wire' \in Seq(Chunk \cup {DONE, ErrorBody})
    BY <1>0, <1>2, <2>2, EndKeeps, ChunkFacts
  <2>4. TypeOK'
    BY <1>0, <2>1, <2>3, ChunkFacts DEF TypeOK, Stages
  <2>5. ErrorOK'
    BY <1>0, <2>1, <2>2 DEF StreamInv, ErrorOK
  <2> QED
    BY <2>3, <2>4, <2>5 DEF StreamInv
<1> QED
  BY <1>1, <1>2 DEF WriteDone

LEMMA WriteDialErrorKeeps ==
  ASSUME StreamInv, WriteDialError
  PROVE  StreamInv'
<1>0. /\ fwd.at = "failed" /\ TypeOK /\ ~fwd.started
      /\ wire' = Append(wire, ErrorBody) /\ fwd' = [fwd EXCEPT !.at = "done"]
      /\ UNCHANGED <<producer, out, err, ctxDone, watchdog, verdict, hungUp, sent>>
  BY DEF StreamInv, WriteDialError, AnswerOK
<1>1. fwd'.at = "done" /\ fwd'.finished = fwd.finished
  BY <1>0 DEF TypeOK
<1>2. /\ AnswerOK' /\ FinishedOK' /\ OneAnswer' /\ LegalStream'
      /\ wire' \in Seq(Chunk \cup {DONE, ErrorBody})
  BY <1>0, <1>1, EndKeeps
<1>3. TypeOK'
  BY <1>0, <1>2, SMTT(30) DEF TypeOK, Stages
<1>4. ErrorOK'
  BY <1>0, <1>1 DEF StreamInv, ErrorOK
<1> QED
  BY <1>2, <1>3, <1>4 DEF StreamInv

LEMMA StreamStep == StreamInv /\ [Next]_vars => StreamInv'
<1> SUFFICES ASSUME StreamInv, [Next]_vars PROVE StreamInv'
  OBVIOUS
<1>1. CASE \E c \in Chunks : ProviderSends(c)
  BY <1>1, ProviderSendsKeeps
<1>2. CASE ProviderEnds
  BY <1>2, GoneKeeps DEF ProviderEnds
<1>3. CASE Send
  BY <1>3, SendKeeps
<1>4. CASE Forward
  BY <1>4, DialKeeps, ContextEndsKeeps, NextChunkKeeps, TakeErrorKeeps, BlameKeeps,
     WriteChunkKeeps, WriteDoneKeeps, WriteDialErrorKeeps DEF Forward
<1>5. CASE Fires \/ Cancels \/ HangUp \/ Noticed
  BY <1>5, OutsideKeeps
<1>6. CASE UNCHANGED vars
  <2>1. Quiet
    BY <1>6 DEF vars, Quiet
  <2>2. TypeOK' /\ ErrorOK'
    BY <1>6 DEF vars, StreamInv, TypeOK, ErrorOK
  <2> QED
    BY <2>1, <2>2, QuietKeeps DEF StreamInv
<1> QED
  BY <1>1, <1>2, <1>3, <1>4, <1>5, <1>6 DEF Next

-----------------------------------------------------------------------------
(* The theorems. *)

(* The inductive invariant of a stream: how far its answer is, who may     *)
(* still set its error, and what the sanitizer remembers.                  *)
THEOREM StreamInvariant == Spec => []StreamInv
  BY StreamInit, StreamStep, PTL DEF Spec

(* The variables keep their types; the queue never exceeds its capacity    *)
(* (client.go: make(chan ChatStreamChunk, 16)).                            *)
THEOREM StreamTypeCorrect == Spec => []TypeOK
<1>1. StreamInv => TypeOK
  BY DEF StreamInv
<1> QED
  BY <1>1, StreamInvariant, PTL

(* A client gets one answer (writeBifrostChatSSE, writeUpstreamDialError).  *)
THEOREM AlwaysOneAnswer == Spec => []OneAnswer
<1>1. StreamInv => OneAnswer
  BY DEF StreamInv
<1> QED
  BY <1>1, StreamInvariant, PTL

(* No choice goes on after its finish_reason                               *)
(* (sanitizeOpenAIStreamChunk).                                            *)
THEOREM AlwaysLegalStream == Spec => []LegalStream
<1>1. StreamInv => LegalStream
  BY DEF StreamInv
<1> QED
  BY <1>1, StreamInvariant, PTL

(* Only a failure the backend reported is charged to it as unavailable     *)
(* (afterHeaders).                                                         *)
THEOREM FaultsAreReal == Spec => []FaultIsReal
<1>1. StreamInv => FaultIsReal
  BY DEF StreamInv, ErrorOK, FaultIsReal
<1> QED
  BY <1>1, StreamInvariant, PTL
-----------------------------------------------------------------------------
(* What the client should get, chunk by chunk. *)

(* A set of naturals has a least element.                                  *)
LEMMA NatMin ==
  ASSUME NEW T \in SUBSET Nat, T # {}
  PROVE  \E x \in T : \A y \in T : x <= y
<1>1. PICK x \in T : \A y \in T : ~(<<y, x>> \in OpToRel(<, Nat))
  BY NatLessThanWellFounded, WFMin
<1>2. ASSUME NEW y \in T PROVE x <= y
  <2>1. ~(<<y, x>> \in OpToRel(<, Nat))
    BY <1>1
  <2>2. ~(y < x)
    BY <2>1 DEF OpToRel
  <2> QED
    BY <2>2
<1> QED
  BY <1>2

(* legal is what Legals defines, up to chunk n.                            *)
IsLegal(legal, s, n) ==
  legal = [k \in 0 .. n |-> IF k = 0 THEN <<>> ELSE legal[k - 1] \o Kept(s, k)]

LEMMA LegalExtends ==
  ASSUME NEW s \in Seq(Chunk), NEW n \in 1 .. Len(s), NEW h, IsLegal(h, s, n - 1)
  PROVE  \E legal : IsLegal(legal, s, n)
<1> DEFINE g == [k \in 0 .. n |-> IF k = n THEN h[n - 1] \o Kept(s, n) ELSE h[k]]
<1>0. n \in Nat /\ n >= 1
  OBVIOUS
<1>1. \A k \in 0 .. (n - 1) :
        h[k] = IF k = 0 THEN <<>> ELSE h[k - 1] \o Kept(s, k)
  BY DEF IsLegal
<1>2. \A k \in 0 .. (n - 1) : g[k] = h[k]
  BY <1>0
<1>3. ASSUME NEW k \in 0 .. n
      PROVE  g[k] = IF k = 0 THEN <<>> ELSE g[k - 1] \o Kept(s, k)
  <2>1. CASE k = n
    <3>1. g[k - 1] = h[n - 1]
      BY <2>1, <1>2, <1>0
    <3>2. g[k] = h[n - 1] \o Kept(s, n)
      BY <2>1
    <3>3. k # 0
      BY <2>1, <1>0
    <3> HIDE DEF g
    <3> QED
      BY <3>1, <3>2, <3>3, <2>1
  <2>2. CASE k # n
    <3>1. k \in 0 .. (n - 1) /\ (k = 0 \/ k - 1 \in 0 .. (n - 1))
      BY <2>2, <1>0
    <3> HIDE DEF g
    <3>2. g[k] = h[k] /\ (k = 0 \/ g[k - 1] = h[k - 1])
      BY <3>1, <1>2
    <3>3. h[k] = IF k = 0 THEN <<>> ELSE h[k - 1] \o Kept(s, k)
      BY <3>1, <1>1
    <3>4. CASE k = 0
      BY <3>2, <3>3, <3>4
    <3>5. CASE k # 0
      BY <3>2, <3>3, <3>5
    <3> QED
      BY <3>4, <3>5
  <2> QED
    BY <2>1, <2>2
<1>4. g = [k \in 0 .. n |-> g[k]]
  OBVIOUS
<1> HIDE DEF g
<1>5. IsLegal(g, s, n)
  BY <1>3, <1>4 DEF IsLegal
<1> QED
  BY <1>5

LEMMA LegalsIs ==
  ASSUME NEW s \in Seq(Chunk)
  PROVE  /\ Legals(s)[0] = <<>>
         /\ \A k \in 1 .. Len(s) : Legals(s)[k] = Legals(s)[k - 1] \o Kept(s, k)
<1> DEFINE T == {n \in 0 .. Len(s) : ~\E legal : IsLegal(legal, s, n)}
<1>0. Len(s) \in Nat
  OBVIOUS
<1>1. T = {}
  <2>1. SUFFICES ASSUME T # {} PROVE FALSE
    OBVIOUS
  <2>2. T \in SUBSET Nat
    BY <1>0
  <2>3. PICK n \in T : \A k \in T : n <= k
    <3> HIDE DEF T
    <3> QED
      BY <2>1, <2>2, NatMin
  <2>4. n # 0
    <3>1. IsLegal([k \in 0 .. 0 |-> <<>>], s, 0)
      BY DEF IsLegal
    <3> QED
      BY <3>1, <2>3
  <2>5. n \in 1 .. Len(s) /\ n - 1 \in 0 .. Len(s) /\ ~(n <= n - 1)
    BY <2>4, <1>0
  <2>6. n - 1 \notin T
    BY <2>5, <2>3
  <2>7. PICK h : IsLegal(h, s, n - 1)
    BY <2>5, <2>6
  <2>8. \E legal : IsLegal(legal, s, n)
    BY <2>5, <2>7, LegalExtends
  <2> QED
    BY <2>8
<1>2. PICK g : IsLegal(g, s, Len(s))
  BY <1>0, <1>1
<1>3. IsLegal(Legals(s), s, Len(s))
  BY <1>2 DEF Legals, IsLegal
<1> HIDE DEF T
<1>4. \A k \in 0 .. Len(s) :
        Legals(s)[k] = IF k = 0 THEN <<>> ELSE Legals(s)[k - 1] \o Kept(s, k)
  BY <1>3 DEF IsLegal
<1>5. ASSUME NEW k \in 1 .. Len(s)
      PROVE  Legals(s)[k] = Legals(s)[k - 1] \o Kept(s, k)
  <2>1. k \in 0 .. Len(s) /\ k # 0
    BY <1>0
  <2> QED
    BY <2>1, <1>4
<1> QED
  BY <1>0, <1>4, <1>5

LEMMA KeptIs ==
  ASSUME NEW s \in Seq(Chunk), NEW k \in 1 .. Len(s)
  PROVE  Kept(s, k) \in Seq(Chunk) /\ Len(Kept(s, k)) <= 1
<1>1. s[k] \in Chunk
  OBVIOUS
<1>2. [NoChunk EXCEPT !.usage = TRUE] \in Chunk
  BY DEF NoChunk, Chunk
<1> QED
  BY <1>1, <1>2 DEF Kept

LEMMA LegalsAreChunks ==
  ASSUME NEW s \in Seq(Chunk)
  PROVE  \A k \in 0 .. Len(s) : Legals(s)[k] \in Seq(Chunk)
<1> DEFINE L == Legals(s)
           T == {n \in 0 .. Len(s) : L[n] \notin Seq(Chunk)}
<1>0. Len(s) \in Nat
  OBVIOUS
<1>1. L[0] = <<>> /\ \A k \in 1 .. Len(s) : L[k] = L[k - 1] \o Kept(s, k)
  BY LegalsIs
<1> HIDE DEF L
<1>2. SUFFICES ASSUME T # {} PROVE FALSE
  BY DEF L
<1>3. PICK n \in T : \A k \in T : n <= k
  <2>1. T \in SUBSET Nat
    BY <1>0
  <2> HIDE DEF T
  <2> QED
    BY <1>2, <2>1, NatMin
<1>4. n # 0
  <2>1. L[0] = <<>> /\ <<>> \in Seq(Chunk)
    BY <1>0, <1>1
  <2> QED
    BY <2>1, <1>3
<1>5. n \in 1 .. Len(s) /\ n - 1 \in 0 .. Len(s) /\ ~(n <= n - 1)
  BY <1>0, <1>4
<1>6. L[n - 1] \in Seq(Chunk)
  BY <1>3, <1>5
<1>7. L[n] = L[n - 1] \o Kept(s, n)
  BY <1>0, <1>1, <1>5
<1>8. L[n] \in Seq(Chunk)
  BY <1>5, <1>6, <1>7, KeptIs
<1> QED
  BY <1>8

LEMMA PrefixIs ==
  ASSUME NEW s \in Seq(Chunk), NEW t \in Seq(Chunk)
  PROVE  IsPrefix(s, t) <=> Len(s) <= Len(t) /\ \A i \in 1 .. Len(s) : s[i] = t[i]
<1>1. ASSUME Len(s) <= Len(t)
      PROVE  /\ SubSeq(s, 1, Len(s)) \in Seq(Chunk) /\ Len(SubSeq(s, 1, Len(s))) = Len(s)
             /\ SubSeq(t, 1, Len(s)) \in Seq(Chunk) /\ Len(SubSeq(t, 1, Len(s))) = Len(s)
             /\ \A i \in 1 .. Len(s) : /\ SubSeq(s, 1, Len(s))[i] = s[i]
                                       /\ SubSeq(t, 1, Len(s))[i] = t[i]
  BY <1>1
<1> QED
  BY <1>1 DEF IsPrefix

LEMMA NothingIsPrefix ==
  ASSUME NEW t \in Seq(Chunk)
  PROVE  IsPrefix(<<>>, t)
<1> DEFINE s == <<>>
<1>1. s \in Seq(Chunk) /\ Len(s) = 0 /\ 0 <= Len(t) /\ 1 .. 0 = {}
  OBVIOUS
<1> HIDE DEF s
<1>2. Len(s) <= Len(t) /\ \A i \in 1 .. Len(s) : s[i] = t[i]
  BY <1>1
<1>3. IsPrefix(s, t)
  BY <1>1, <1>2, PrefixIs
<1> QED
  BY <1>3 DEF s

(* What a stream should give so far does not depend on what comes next.    *)
LEMMA LegalsStable ==
  ASSUME NEW s \in Seq(Chunk), NEW c \in Chunk
  PROVE  \A k \in 0 .. Len(s) : Legals(Append(s, c))[k] = Legals(s)[k]
<1> DEFINE t == Append(s, c)
           L == Legals(s)
           M == Legals(t)
           T == {n \in 0 .. Len(s) : M[n] # L[n]}
<1>0. /\ Len(s) \in Nat /\ Len(t) = Len(s) + 1 /\ t \in Seq(Chunk)
      /\ \A k \in 1 .. Len(s) : t[k] = s[k]
  OBVIOUS
<1>1. L[0] = <<>> /\ \A k \in 1 .. Len(s) : L[k] = L[k - 1] \o Kept(s, k)
  BY LegalsIs
<1>2. M[0] = <<>> /\ \A k \in 1 .. Len(t) : M[k] = M[k - 1] \o Kept(t, k)
  <2>1. t \in Seq(Chunk)
    BY <1>0
  <2> HIDE DEF t
  <2> QED
    BY <2>1, LegalsIs
<1> HIDE DEF t
<1>3. ASSUME NEW k \in 1 .. Len(s) PROVE Kept(t, k) = Kept(s, k)
  <2>1. t[k] = s[k] /\ \A j \in 1 .. k - 1 : t[j] = s[j]
    BY <1>0
  <2>2. Late(t, k) <=> Late(s, k)
    BY <2>1 DEF Late
  <2> QED
    BY <2>1, <2>2 DEF Kept
<1> HIDE DEF L, M
<1>4. SUFFICES ASSUME T # {} PROVE FALSE
  BY DEF L, M, t
<1>5. PICK n \in T : \A k \in T : n <= k
  <2>1. T \in SUBSET Nat
    BY <1>0
  <2> HIDE DEF T
  <2> QED
    BY <1>4, <2>1, NatMin
<1>6. n # 0
  <2>1. L[0] = <<>> /\ M[0] = <<>>
    BY <1>0, <1>1, <1>2
  <2> QED
    BY <2>1, <1>5
<1>7. n \in 1 .. Len(s) /\ n - 1 \in 0 .. Len(s) /\ ~(n <= n - 1)
  BY <1>0, <1>6
<1>8. M[n - 1] = L[n - 1]
  BY <1>5, <1>7
<1>9. L[n] = L[n - 1] \o Kept(s, n)
  BY <1>1, <1>7
<1>10. M[n] = M[n - 1] \o Kept(t, n)
  BY <1>0, <1>2, <1>7
<1> QED
  BY <1>3, <1>5, <1>7, <1>8, <1>9, <1>10

(* It only grows.                                                          *)
LEMMA LegalsGrow ==
  ASSUME NEW s \in Seq(Chunk), NEW n \in 0 .. Len(s)
  PROVE  IsPrefix(Legals(s)[n], Legals(s)[Len(s)])
<1> DEFINE L == Legals(s)
           T == {m \in n .. Len(s) : ~IsPrefix(L[n], L[m])}
<1>0. Len(s) \in Nat /\ n \in Nat /\ n <= Len(s)
  OBVIOUS
<1>1. /\ L[0] = <<>> /\ \A k \in 1 .. Len(s) : L[k] = L[k - 1] \o Kept(s, k)
      /\ \A k \in 0 .. Len(s) : L[k] \in Seq(Chunk)
  BY LegalsIs, LegalsAreChunks
<1> HIDE DEF L
<1>2. T = {}
  <2>1. SUFFICES ASSUME T # {} PROVE FALSE
    OBVIOUS
  <2>2. PICK m \in T : \A k \in T : m <= k
    <3>1. T \in SUBSET Nat
      BY <1>0
    <3> HIDE DEF T
    <3> QED
      BY <2>1, <3>1, NatMin
  <2>3. m # n
    <3>1. IsPrefix(L[n], L[n])
      BY <1>1, PrefixIs
    <3> QED
      BY <3>1, <2>2
  <2>4. /\ m \in 1 .. Len(s) /\ m - 1 \in n .. Len(s) /\ m - 1 \in 0 .. Len(s)
        /\ ~(m <= m - 1) /\ m \in 0 .. Len(s) /\ m # 0
    BY <1>0, <2>3
  <2>5. IsPrefix(L[n], L[m - 1])
    BY <2>2, <2>4
  <2>6. L[m] = L[m - 1] \o Kept(s, m)
    BY <1>1, <2>4
  <2>7. /\ L[n] \in Seq(Chunk) /\ L[m] \in Seq(Chunk) /\ L[m - 1] \in Seq(Chunk)
        /\ Kept(s, m) \in Seq(Chunk)
    BY <1>1, <2>4, KeptIs
  <2>8. /\ Len(L[n]) <= Len(L[m - 1])
        /\ \A i \in 1 .. Len(L[n]) : L[n][i] = L[m - 1][i]
    BY <2>5, <2>7, PrefixIs
  <2>9. /\ Len(L[m - 1]) <= Len(L[m])
        /\ \A i \in 1 .. Len(L[m - 1]) : L[m][i] = L[m - 1][i]
    BY <2>6, <2>7
  <2>10. Len(L[n]) <= Len(L[m]) /\ \A i \in 1 .. Len(L[n]) : L[n][i] = L[m][i]
    BY <2>7, <2>8, <2>9
  <2>11. IsPrefix(L[n], L[m])
    BY <2>7, <2>10, PrefixIs
  <2> QED
    BY <2>2, <2>11
<1>3. Len(s) \in n .. Len(s)
  BY <1>0
<1> QED
  BY <1>2, <1>3 DEF L

-----------------------------------------------------------------------------
(* Nothing is lost, repeated or reordered.                                 *)

(* The forwarder has taken n of the chunks the provider sent; the rest are *)
(* in the queue and in the producer's hands, but for one it gave up.       *)
Position(n) ==
  /\ n + Len(out) <= Len(sent)
  /\ \A i \in 1 .. Len(out) : out[i] = sent[n + i]
  /\ producer.at = "send" =>
       /\ n + Len(out) + 1 = Len(sent)
       /\ producer.item = sent[Len(sent)]
  /\ producer.at # "send" /\ err # "canceled" => n + Len(out) = Len(sent)
  /\ fwd.at \in {"dial", "read", "write"} =>
       fwd.finished = UNION {sent[i].ends : i \in 1 .. n}

(* What the client has of them.                                            *)
WireIs(chunks, n) ==
  /\ fwd.at = "dial" => n = 0
  /\ fwd.at \in {"dial", "read", "blame", "finish"} => wire = chunks
  /\ fwd.at = "write" => Append(wire, fwd.item) = chunks
  /\ fwd.at = "finish" =>
       producer.at = "gone" /\ err = "none" /\ n = Len(sent)
  /\ fwd.at = "done" =>
       /\ IsPrefix(Written, chunks)
       /\ DONE \in Range(wire) =>
            producer.at = "gone" /\ err = "none" /\ n = Len(sent) /\ Written = chunks

Faith == \E n \in 0 .. Len(sent) : Position(n) /\ WireIs(Legals(sent)[n], n)

LEMMA FaithInit == Init => Faith
<1> SUFFICES ASSUME Init PROVE Faith
  OBVIOUS
<1>1. Len(sent) = 0 /\ Len(out) = 0 /\ sent \in Seq(Chunk)
  BY DEF Init
<1>2. Position(0)
  BY <1>1 DEF Init, Position
<1>3. Legals(sent)[0] = <<>>
  BY <1>1, LegalsIs
<1>4. WireIs(Legals(sent)[0], 0)
  BY <1>3 DEF Init, WireIs
<1> QED
  BY <1>1, <1>2, <1>4 DEF Faith

LEMMA FaithAside ==
  ASSUME Faith, UNCHANGED <<producer, out, err, fwd, wire, sent>>
  PROVE  Faith'
<1>1. Written' = Written
  BY DEF Written
<1>2. PICK n \in 0 .. Len(sent) : Position(n) /\ WireIs(Legals(sent)[n], n)
  BY DEF Faith
<1>3. Position(n)' /\ WireIs(Legals(sent)[n], n)'
  BY <1>1, <1>2 DEF Position, WireIs
<1>4. n \in 0 .. Len(sent')
  OBVIOUS
<1> QED
  BY <1>3, <1>4 DEF Faith

LEMMA FaithProviderSends ==
  ASSUME StreamInv, Faith, NEW c \in Chunks, ProviderSends(c)
  PROVE  Faith'
<1>1. PICK n \in 0 .. Len(sent) : Position(n) /\ WireIs(Legals(sent)[n], n)
  BY DEF Faith
<1>2. /\ sent \in Seq(Chunk) /\ out \in Seq(Chunk) /\ c \in Chunk
      /\ producer.at = "recv" /\ err = "none"
  BY ChunkFacts DEF StreamInv, TypeOK, ErrorOK, ProviderSends
<1>3. /\ sent' = Append(sent, c) /\ producer'.at = "send" /\ producer'.item = c
      /\ UNCHANGED <<out, err, fwd, wire>>
  BY DEF ProviderSends
<1>4. /\ Len(sent) \in Nat /\ Len(sent') = Len(sent) + 1
      /\ \A i \in 1 .. Len(sent) : sent'[i] = sent[i]
      /\ sent'[Len(sent')] = c
  BY <1>2, <1>3
<1>5. n + Len(out) = Len(sent) /\ n \in Nat /\ Len(out) \in Nat
  BY <1>1, <1>2, <1>4 DEF Position
<1>6. \A i \in 1 .. n : sent'[i].ends = sent[i].ends
  BY <1>4, <1>5
<1>7. Position(n)'
  <2>1. \A i \in 1 .. Len(out) : out[i] = sent'[n + i]
    <3>1. \A i \in 1 .. Len(out) : n + i \in 1 .. Len(sent)
      BY <1>4, <1>5
    <3> QED
      BY <1>1, <1>4, <3>1 DEF Position
  <2>2. UNION {sent'[i].ends : i \in 1 .. n} = UNION {sent[i].ends : i \in 1 .. n}
    BY <1>6
  <2> QED
    BY <1>1, <1>3, <1>4, <1>5, <2>1, <2>2 DEF Position
<1>8. Legals(sent')[n] = Legals(sent)[n]
  BY <1>2, <1>3, LegalsStable
<1>9. WireIs(Legals(sent)[n], n)'
  <2>1. Written' = Written
    BY <1>3 DEF Written
  <2> QED
    BY <1>1, <1>2, <1>3, <1>8, <2>1 DEF WireIs
<1>10. n \in 0 .. Len(sent')
  BY <1>4, <1>5
<1> QED
  BY <1>7, <1>9, <1>10 DEF Faith

LEMMA FaithGone ==
  ASSUME StreamInv, Faith, NEW e, Gone(e), producer.at \in {"recv", "send"},
         producer.at = "send" => e = "canceled"
  PROVE  Faith'
<1>1. PICK n \in 0 .. Len(sent) : Position(n) /\ WireIs(Legals(sent)[n], n)
  BY DEF Faith
<1>2. err = "none"
  BY DEF StreamInv, ErrorOK
<1>3. producer'.at = "gone" /\ err' = e /\ UNCHANGED <<out, sent, fwd, wire>>
  BY DEF Gone
<1>4. Position(n)'
  BY <1>1, <1>2, <1>3 DEF Position
<1>5. WireIs(Legals(sent)[n], n)'
  <2>1. Written' = Written
    BY <1>3 DEF Written
  <2> QED
    BY <1>1, <1>3, <2>1 DEF WireIs
<1>6. n \in 0 .. Len(sent')
  BY <1>3
<1> QED
  BY <1>4, <1>5, <1>6 DEF Faith

LEMMA FaithSend ==
  ASSUME StreamInv, Faith, Send
  PROVE  Faith'
<1>1. CASE Gone("canceled")
  BY <1>1, FaithGone DEF Send
<1>2. CASE /\ out' = Append(out, producer.item)
           /\ producer' = [at |-> "recv", item |-> NoChunk]
           /\ UNCHANGED <<err, ctxDone, watchdog, fwd, verdict, wire, hungUp, sent>>
  <2>1. PICK n \in 0 .. Len(sent) : Position(n) /\ WireIs(Legals(sent)[n], n)
    BY DEF Faith
  <2>2. out \in Seq(Chunk) /\ sent \in Seq(Chunk) /\ producer.item \in Chunk
    BY DEF StreamInv, TypeOK
  <2>3. /\ n + Len(out) + 1 = Len(sent) /\ producer.item = sent[Len(sent)]
        /\ \A i \in 1 .. Len(out) : out[i] = sent[n + i]
    BY <2>1 DEF Send, Position
  <2>4. /\ Len(out') = Len(out) + 1 /\ Len(out) \in Nat /\ n \in Nat /\ Len(sent) \in Nat
        /\ \A i \in 1 .. Len(out) : out'[i] = out[i]
        /\ out'[Len(out')] = producer.item
    BY <1>2, <2>2
  <2>5. \A i \in 1 .. Len(out') : out'[i] = sent[n + i]
    <3>1. out'[Len(out) + 1] = sent[n + (Len(out) + 1)]
      <4>1. n + (Len(out) + 1) = Len(sent)
        BY <2>3, <2>4
      <4> QED
        BY <2>3, <2>4, <4>1
    <3>2. \A i \in 1 .. Len(out') : i \in 1 .. Len(out) \/ i = Len(out) + 1
      BY <2>4
    <3> QED
      BY <2>3, <2>4, <3>1, <3>2
  <2>6. n + Len(out') = Len(sent)
    BY <2>3, <2>4
  <2>7. Position(n)'
    BY <1>2, <2>1, <2>5, <2>6, <2>4 DEF Position
  <2>8. WireIs(Legals(sent)[n], n)'
    <3>1. Written' = Written /\ producer.at = "send" /\ producer'.at = "recv"
      BY <1>2 DEF Written, Send
    <3> QED
      BY <1>2, <2>1, <3>1 DEF WireIs
  <2>9. n \in 0 .. Len(sent')
    BY <1>2
  <2> QED
    BY <2>7, <2>8, <2>9 DEF Faith
<1> QED
  BY <1>1, <1>2 DEF Send

(* A queue or an answer of chunks only: nothing of it is an end.           *)
LEMMA WrittenIsWire ==
  ASSUME StreamInv, fwd.at # "done"
  PROVE  wire \in Seq(Chunk) /\ Written = wire /\ DONE \notin Range(wire)
<1>1. \A i \in DOMAIN wire : wire[i] \in Chunk
  BY DEF StreamInv, AnswerOK
<1>2. wire \in Seq(Chunk \cup {DONE, ErrorBody})
  BY DEF StreamInv, TypeOK
<1>3. wire \in Seq(Chunk)
  BY <1>1, <1>2
<1>4. DONE \notin Range(wire)
  BY <1>1, ChunkFacts DEF Range
<1>5. wire # <<>> => wire[Len(wire)] \notin {DONE, ErrorBody}
  <2>1. wire # <<>> => Len(wire) \in DOMAIN wire
    BY <1>3
  <2> QED
    BY <1>1, <2>1, ChunkFacts
<1> QED
  BY <1>3, <1>4, <1>5 DEF Written

(* The forwarder leaves with what it has written.                          *)
LEMMA FaithLeave ==
  ASSUME StreamInv, Faith, fwd.at \in {"read", "write", "blame", "finish"},
         fwd'.at \in {"failed", "done"},
         UNCHANGED <<producer, out, err, wire, sent>>
  PROVE  Faith'
<1>1. PICK n \in 0 .. Len(sent) : Position(n) /\ WireIs(Legals(sent)[n], n)
  BY DEF Faith
<1>2. wire \in Seq(Chunk) /\ Written = wire /\ DONE \notin Range(wire)
  BY WrittenIsWire
<1>3. Written' = Written
  BY DEF Written
<1>4. Legals(sent)[n] \in Seq(Chunk)
  BY LegalsAreChunks DEF StreamInv, TypeOK
<1>5. IsPrefix(wire, Legals(sent)[n])
  <2>1. CASE fwd.at = "write"
    <3>1. fwd.item \in Chunk /\ Append(wire, fwd.item) = Legals(sent)[n]
      BY <1>1, <2>1 DEF StreamInv, TypeOK, WireIs
    <3>2. /\ Len(wire) <= Len(Legals(sent)[n])
          /\ \A i \in 1 .. Len(wire) : wire[i] = Legals(sent)[n][i]
      <4>1. /\ Len(wire) <= Len(Append(wire, fwd.item))
            /\ \A i \in 1 .. Len(wire) : wire[i] = Append(wire, fwd.item)[i]
        BY <1>2, <3>1
      <4> QED
        BY <3>1, <4>1
    <3> QED
      BY <1>2, <1>4, <3>2, PrefixIs
  <2>2. CASE fwd.at # "write"
    <3>1. wire = Legals(sent)[n]
      BY <1>1, <2>2 DEF WireIs
    <3>2. Len(wire) <= Len(wire) /\ \A i \in 1 .. Len(wire) : wire[i] = wire[i]
      BY <1>2
    <3> QED
      BY <1>2, <3>1, <3>2, PrefixIs
  <2> QED
    BY <2>1, <2>2
<1>6. Position(n)'
  BY <1>1 DEF Position
<1>7. WireIs(Legals(sent)[n], n)'
  BY <1>2, <1>3, <1>5 DEF WireIs
<1>8. n \in 0 .. Len(sent')
  OBVIOUS
<1> QED
  BY <1>6, <1>7, <1>8 DEF Faith

(* Every way out leaves for "done" or for "failed".                        *)
LEMMA FailLeaves ==
  ASSUME StreamInv, NEW v, Fail(v)
  PROVE  fwd'.at \in {"failed", "done"}
  BY DEF StreamInv, TypeOK, Fail, Leave

LEMMA FaithDial ==
  ASSUME StreamInv, Faith, Dial
  PROVE  Faith'
<1>1. PICK n \in 0 .. Len(sent) : Position(n) /\ WireIs(Legals(sent)[n], n)
  BY DEF Faith
<1>2. fwd.at = "dial" /\ producer.at = "none" /\ err = "none" /\ UNCHANGED <<out, wire, sent>>
  BY DEF StreamInv, ErrorOK, Dial
<1>3. /\ producer \in [at : {"none", "recv", "send", "gone"}, item : Chunk]
      /\ fwd \in [at : Stages, item : Chunk, finished : SUBSET Indexes, started : BOOLEAN]
      /\ ~fwd.started
  BY <1>2 DEF StreamInv, TypeOK, AnswerOK
<1>4. n + Len(out) = Len(sent) /\ n = 0
  BY <1>1, <1>2 DEF Position, WireIs
<1>5. Written' = Written
  BY <1>2 DEF Written
<1>6. CASE /\ producer' = [producer EXCEPT !.at = "recv"]
           /\ fwd' = [fwd EXCEPT !.at = "read"]
           /\ UNCHANGED err
  <2>1. producer'.at = "recv" /\ fwd'.at = "read" /\ fwd'.finished = fwd.finished
    BY <1>3, <1>6
  <2>2. Position(n)'
    BY <1>1, <1>2, <1>4, <1>6, <2>1 DEF Position
  <2>3. WireIs(Legals(sent)[n], n)'
    BY <1>1, <1>2, <1>4, <2>1 DEF WireIs
  <2> QED
    BY <1>2, <2>2, <2>3 DEF Faith
<1>7. CASE \E v : Fail(v) /\ UNCHANGED producer
  <2>1. fwd'.at = "failed" /\ producer'.at = "none"
    BY <1>2, <1>3, <1>7 DEF Fail, Leave
  <2>2. Position(n)'
    BY <1>1, <1>2, <1>4, <2>1 DEF Position
  <2>3. WireIs(Legals(sent)[n], n)'
    BY <1>4, <2>1 DEF WireIs
  <2> QED
    BY <1>2, <2>2, <2>3 DEF Faith
<1> QED
  BY <1>6, <1>7 DEF Dial

LEMMA Concatenated ==
  ASSUME NEW s \in Seq(Chunk), NEW x \in Chunk
  PROVE  s \o <<>> = s /\ s \o <<x>> = Append(s, x)
<1>1. s \o <<>> = s
  <2>1. /\ s \o <<>> \in Seq(Chunk) /\ Len(s \o <<>>) = Len(s)
        /\ \A i \in 1 .. Len(s) : (s \o <<>>)[i] = s[i]
    OBVIOUS
  <2> QED
    BY <2>1
<1>2. s \o <<x>> = Append(s, x)
  <2>1. /\ s \o <<x>> \in Seq(Chunk) /\ Len(s \o <<x>>) = Len(s) + 1
        /\ Append(s, x) \in Seq(Chunk) /\ Len(Append(s, x)) = Len(s) + 1
        /\ \A i \in 1 .. Len(s) + 1 : (s \o <<x>>)[i] = Append(s, x)[i]
    OBVIOUS
  <2> QED
    BY <2>1
<1> QED
  BY <1>1, <1>2

(* What comes late, by what the sanitizer remembers.                       *)
LEMMA LateIsAfterFinish ==
  ASSUME NEW n \in Nat,
         fwd.finished = UNION {sent[i].ends : i \in 1 .. n}
  PROVE  Late(sent, n + 1) <=> afterFinish(fwd.finished, sent[n + 1])
<1>1. 1 .. (n + 1) - 1 = 1 .. n
  OBVIOUS
<1> QED
  BY <1>1 DEF Late, afterFinish

LEMMA FaithNextChunk ==
  ASSUME StreamInv, Faith, NextChunk
  PROVE  Faith'
<1> DEFINE c == Head(out)
           L == Legals(sent)
<1>1. PICK n \in 0 .. Len(sent) : Position(n) /\ WireIs(Legals(sent)[n], n)
  BY DEF Faith
<1>2. /\ out \in Seq(Chunk) /\ sent \in Seq(Chunk) /\ out # <<>> /\ fwd.at = "read"
      /\ fwd \in [at : Stages, item : Chunk, finished : SUBSET Indexes, started : BOOLEAN]
      /\ wire \in Seq(Chunk)
  BY WrittenIsWire DEF StreamInv, TypeOK, NextChunk
<1>3. /\ out' = Tail(out) /\ UNCHANGED <<producer, err, wire, sent>>
      /\ fwd' = [fwd EXCEPT !.finished = markFinished(@, c),
                            !.at = IF ~Dropped(fwd.finished, c) THEN "write" ELSE @,
                            !.item = IF ~Dropped(fwd.finished, c)
                                     THEN Sanitized(fwd.finished, c) ELSE @,
                            !.started = @ \/ ~Dropped(fwd.finished, c)]
  BY DEF NextChunk
<1>4. /\ n \in Nat /\ Len(out) \in Nat /\ Len(out) >= 1 /\ Len(sent) \in Nat
      /\ n + Len(out) <= Len(sent)
      /\ Len(out') = Len(out) - 1
      /\ \A i \in 1 .. Len(out') : out'[i] = out[i + 1]
      /\ c = out[1]
  BY <1>1, <1>2, <1>3 DEF Position
<1>5. n + 1 \in 1 .. Len(sent) /\ n + 1 \in 0 .. Len(sent) /\ 1 \in 1 .. Len(out)
  BY <1>4
<1>6. c = sent[n + 1] /\ c \in Chunk
  BY <1>1, <1>2, <1>4, <1>5 DEF Position
<1>7. /\ wire = L[n]
      /\ fwd.finished = UNION {sent[i].ends : i \in 1 .. n}
  BY <1>1, <1>2 DEF WireIs, Position
<1>8. L[n + 1] = L[n] \o Kept(sent, n + 1)
  <2>1. L[n + 1] = L[(n + 1) - 1] \o Kept(sent, n + 1)
    BY <1>2, <1>5, LegalsIs
  <2>2. (n + 1) - 1 = n
    BY <1>4
  <2> HIDE DEF L
  <2> QED
    BY <2>1, <2>2
<1>9. Late(sent, n + 1) <=> afterFinish(fwd.finished, c)
  BY <1>4, <1>6, <1>7, LateIsAfterFinish
<1> HIDE DEF c, L
<1>10. fwd'.finished = UNION {sent[i].ends : i \in 1 .. n + 1}
  <2>1. fwd'.finished = fwd.finished \cup c.ends
    BY <1>2, <1>3 DEF markFinished
  <2>2. 1 .. n + 1 = (1 .. n) \cup {n + 1}
    BY <1>4
  <2> QED
    BY <1>6, <1>7, <2>1, <2>2
<1>11. Position(n + 1)'
  <2>1. (n + 1) + Len(out') = n + Len(out)
    BY <1>4
  <2>2. \A i \in 1 .. Len(out') : out'[i] = sent[(n + 1) + i]
    <3>1. ASSUME NEW i \in 1 .. Len(out') PROVE out'[i] = sent[(n + 1) + i]
      <4>1. i + 1 \in 1 .. Len(out) /\ n + (i + 1) = (n + 1) + i
        BY <1>4
      <4> QED
        BY <1>1, <1>4, <4>1 DEF Position
    <3> QED
      BY <3>1
  <2> QED
    BY <1>1, <1>3, <1>10, <2>1, <2>2 DEF Position
<1>12. WireIs(L[n + 1], n + 1)'
  <2>0. L' = L
    BY <1>3 DEF L
  <2>1. CASE Dropped(fwd.finished, c)
    <3>1. fwd'.at = "read"
      BY <1>2, <1>3, <2>1
    <3>2. Kept(sent, n + 1) = <<>>
      BY <1>6, <1>9, <2>1 DEF Kept, Dropped
    <3>3. wire' = L[n + 1]
      BY <1>2, <1>3, <1>6, <1>7, <1>8, <3>2, Concatenated
    <3> QED
      BY <2>0, <3>1, <3>3 DEF WireIs
  <2>2. CASE ~Dropped(fwd.finished, c)
    <3>1. fwd'.at = "write" /\ fwd'.item = Sanitized(fwd.finished, c)
      BY <1>2, <1>3, <2>2
    <3>2. Kept(sent, n + 1) = <<Sanitized(fwd.finished, c)>>
      <4>1. CASE ~afterFinish(fwd.finished, c)
        BY <1>6, <1>9, <4>1 DEF Kept, Sanitized
      <4>2. CASE afterFinish(fwd.finished, c)
        <5>1. c.usage = TRUE
          BY <1>6, <2>2, <4>2 DEF Dropped, Chunk
        <5> QED
          BY <1>6, <1>9, <4>2, <5>1 DEF Kept, Sanitized
      <4> QED
        BY <4>1, <4>2
    <3>3. Append(wire', fwd'.item) = L[n + 1]
      <4>1. Sanitized(fwd.finished, c) \in Chunk
        BY <1>6, ChunkFacts DEF Sanitized, Chunk, NoChunk
      <4>2. wire \o <<Sanitized(fwd.finished, c)>> = Append(wire, Sanitized(fwd.finished, c))
        BY <1>2, <4>1, Concatenated
      <4> QED
        BY <1>3, <1>7, <1>8, <3>1, <3>2, <4>2
    <3> QED
      BY <2>0, <3>1, <3>3 DEF WireIs
  <2> QED
    BY <2>1, <2>2
<1>13. n + 1 \in 0 .. Len(sent')
  BY <1>3, <1>5
<1> QED
  BY <1>11, <1>12, <1>13 DEF Faith, L

LEMMA FaithWriteChunk ==
  ASSUME StreamInv, Faith, WriteChunk
  PROVE  Faith'
<1>1. CASE /\ wire' = Append(wire, fwd.item)
           /\ fwd' = [fwd EXCEPT !.at = "read", !.item = NoChunk]
  <2>1. PICK n \in 0 .. Len(sent) : Position(n) /\ WireIs(Legals(sent)[n], n)
    BY DEF Faith
  <2>2. /\ fwd.at = "write" /\ UNCHANGED <<producer, out, err, sent>>
        /\ fwd'.at = "read" /\ fwd'.finished = fwd.finished
    BY <1>1 DEF StreamInv, TypeOK, WriteChunk
  <2>3. Position(n)'
    BY <2>1, <2>2 DEF Position
  <2>4. WireIs(Legals(sent)[n], n)'
    BY <1>1, <2>1, <2>2 DEF WireIs
  <2>5. n \in 0 .. Len(sent')
    BY <2>2
  <2> QED
    BY <2>3, <2>4, <2>5 DEF Faith
<1>2. CASE afterHeaders(TRUE) /\ UNCHANGED wire
  <2>1. fwd'.at \in {"failed", "done"}
    BY <1>2, FailLeaves DEF afterHeaders
  <2> QED
    BY <1>2, <2>1, FaithLeave DEF WriteChunk
<1> QED
  BY <1>1, <1>2 DEF WriteChunk

LEMMA FaithTakeError ==
  ASSUME StreamInv, Faith, TakeError
  PROVE  Faith'
<1>1. PICK n \in 0 .. Len(sent) : Position(n) /\ WireIs(Legals(sent)[n], n)
  BY DEF Faith
<1>2. /\ fwd.at = "read" /\ out = <<>> /\ producer.at = "gone"
      /\ UNCHANGED <<producer, out, err, wire, sent>>
  BY DEF TakeError
<1>3. wire = Legals(sent)[n]
  BY <1>1, <1>2 DEF WireIs
<1>4. fwd \in [at : Stages, item : Chunk, finished : SUBSET Indexes, started : BOOLEAN]
  BY DEF StreamInv, TypeOK
<1>5. CASE err = "none" /\ fwd' = [fwd EXCEPT !.at = "finish", !.started = TRUE]
  <2>1. fwd'.at = "finish"
    BY <1>4, <1>5
  <2>2. n = Len(sent)
    BY <1>1, <1>2, <1>5 DEF Position
  <2>3. Position(n)'
    BY <1>1, <1>2, <2>1 DEF Position
  <2>4. WireIs(Legals(sent)[n], n)'
    BY <1>2, <1>3, <1>5, <2>1, <2>2 DEF WireIs
  <2> QED
    BY <1>2, <2>3, <2>4 DEF Faith
<1>6. CASE StreamEnded
  <2>1. fwd'.at \in {"failed", "done"}
    BY <1>6, FailLeaves DEF StreamEnded
  <2> QED
    BY <1>2, <2>1, FaithLeave
<1>7. CASE fwd' = [fwd EXCEPT !.at = "blame"]
  <2>1. fwd'.at = "blame"
    BY <1>4, <1>7
  <2>2. Position(n)'
    BY <1>1, <1>2, <2>1 DEF Position
  <2>3. WireIs(Legals(sent)[n], n)'
    BY <1>2, <1>3, <2>1 DEF WireIs
  <2> QED
    BY <1>2, <2>2, <2>3 DEF Faith
<1> QED
  BY <1>5, <1>6, <1>7 DEF TakeError

LEMMA FaithBlame ==
  ASSUME StreamInv, Faith, Blame
  PROVE  Faith'
<1>1. fwd'.at \in {"failed", "done"}
  BY FailLeaves DEF Blame, afterHeaders
<1> QED
  BY <1>1, FaithLeave DEF Blame

LEMMA FaithContextEnds ==
  ASSUME StreamInv, Faith, ContextEnds
  PROVE  Faith'
<1>1. fwd'.at \in {"failed", "done"}
  BY FailLeaves DEF ContextEnds, StreamEnded
<1> QED
  BY <1>1, FaithLeave DEF ContextEnds

(* What is written last is not one of the chunks.                          *)
LEMMA WrittenBefore ==
  ASSUME wire \in Seq(Chunk), NEW x \in {DONE, ErrorBody}, wire' = Append(wire, x)
  PROVE  Written' = wire
<1>1. /\ wire' # <<>> /\ Len(wire') = Len(wire) + 1 /\ wire'[Len(wire')] = x
      /\ Len(wire) \in Nat /\ wire' \in Seq(Chunk \cup {DONE, ErrorBody})
      /\ \A i \in 1 .. Len(wire) : wire'[i] = wire[i]
  OBVIOUS
<1>2. Written' = SubSeq(wire', 1, Len(wire))
  BY <1>1 DEF Written
<1>3. /\ SubSeq(wire', 1, Len(wire)) \in Seq(Chunk \cup {DONE, ErrorBody})
      /\ Len(SubSeq(wire', 1, Len(wire))) = Len(wire)
      /\ \A i \in 1 .. Len(wire) : SubSeq(wire', 1, Len(wire))[i] = wire[i]
  BY <1>1
<1>4. wire \in Seq(Chunk \cup {DONE, ErrorBody})
  OBVIOUS
<1> QED
  BY <1>2, <1>3, <1>4

LEMMA FaithWriteDone ==
  ASSUME StreamInv, Faith, WriteDone
  PROVE  Faith'
<1>1. CASE wire' = Append(wire, DONE) /\ Leave("done", "ok")
  <2>1. PICK n \in 0 .. Len(sent) : Position(n) /\ WireIs(Legals(sent)[n], n)
    BY DEF Faith
  <2>2. /\ fwd.at = "finish" /\ UNCHANGED <<producer, out, err, sent>>
        /\ fwd'.at = "done"
    BY <1>1 DEF StreamInv, TypeOK, WriteDone, Leave
  <2>3. wire \in Seq(Chunk) /\ Written' = wire
    <3>1. wire \in Seq(Chunk)
      BY <2>2, WrittenIsWire
    <3> QED
      BY <1>1, <3>1, WrittenBefore
  <2>4. /\ wire = Legals(sent)[n] /\ producer.at = "gone" /\ err = "none" /\ n = Len(sent)
        /\ IsPrefix(wire, wire)
    <3>1. Len(wire) <= Len(wire) /\ \A i \in 1 .. Len(wire) : wire[i] = wire[i]
      BY <2>3
    <3> QED
      BY <2>1, <2>2, <2>3, <3>1, PrefixIs DEF WireIs
  <2>5. Position(n)'
    BY <2>1, <2>2 DEF Position
  <2>6. WireIs(Legals(sent)[n], n)'
    BY <2>2, <2>3, <2>4 DEF WireIs
  <2> QED
    BY <2>2, <2>5, <2>6 DEF Faith
<1>2. CASE afterHeaders(TRUE) /\ UNCHANGED wire
  <2>1. fwd'.at \in {"failed", "done"}
    BY <1>2, FailLeaves DEF afterHeaders
  <2> QED
    BY <1>2, <2>1, FaithLeave DEF WriteDone
<1> QED
  BY <1>1, <1>2 DEF WriteDone

LEMMA FaithWriteDialError ==
  ASSUME StreamInv, Faith, WriteDialError
  PROVE  Faith'
<1>1. PICK n \in 0 .. Len(sent) : Position(n) /\ WireIs(Legals(sent)[n], n)
  BY DEF Faith
<1>2. /\ fwd.at = "failed" /\ wire = <<>> /\ wire' = Append(wire, ErrorBody)
      /\ fwd'.at = "done" /\ UNCHANGED <<producer, out, err, sent>>
  BY DEF StreamInv, TypeOK, AnswerOK, WriteDialError
<1>3. Written' = <<>>
  BY <1>2, WrittenBefore
<1>4. DONE \notin Range(wire')
  <2>1. wire' = <<ErrorBody>>
    BY <1>2
  <2> QED
    BY <2>1, ChunkFacts DEF Range
<1>5. IsPrefix(<<>>, Legals(sent)[n])
  <2>1. Legals(sent)[n] \in Seq(Chunk)
    BY LegalsAreChunks DEF StreamInv, TypeOK
  <2> QED
    BY <2>1, NothingIsPrefix
<1>6. Position(n)'
  BY <1>1, <1>2 DEF Position
<1>7. WireIs(Legals(sent)[n], n)'
  BY <1>2, <1>3, <1>4, <1>5 DEF WireIs
<1> QED
  BY <1>2, <1>6, <1>7 DEF Faith

LEMMA FaithStep == StreamInv /\ Faith /\ [Next]_vars => Faith'
<1> SUFFICES ASSUME StreamInv, Faith, [Next]_vars PROVE Faith'
  OBVIOUS
<1>1. CASE \E c \in Chunks : ProviderSends(c)
  BY <1>1, FaithProviderSends
<1>2. CASE ProviderEnds
  BY <1>2, FaithGone DEF ProviderEnds
<1>3. CASE Send
  BY <1>3, FaithSend
<1>4. CASE Forward
  BY <1>4, FaithDial, FaithContextEnds, FaithNextChunk, FaithTakeError, FaithBlame,
     FaithWriteChunk, FaithWriteDone, FaithWriteDialError DEF Forward
<1>5. CASE Fires \/ Cancels \/ HangUp \/ Noticed \/ UNCHANGED vars
  <2>1. UNCHANGED <<producer, out, err, fwd, wire, sent>>
    BY <1>5 DEF Fires, Cancels, HangUp, Noticed, vars
  <2> QED
    BY <2>1, FaithAside
<1> QED
  BY <1>1, <1>2, <1>3, <1>4, <1>5 DEF Next

LEMMA FaithfulNow == StreamInv /\ Faith => FaithfulStream
<1> SUFFICES ASSUME StreamInv, Faith PROVE FaithfulStream
  OBVIOUS
<1>1. PICK n \in 0 .. Len(sent) : Position(n) /\ WireIs(Legals(sent)[n], n)
  BY DEF Faith
<1>2. sent \in Seq(Chunk)
  BY DEF StreamInv, TypeOK
<1>3. /\ Legals(sent)[n] \in Seq(Chunk) /\ Legal(sent) \in Seq(Chunk)
      /\ IsPrefix(Legals(sent)[n], Legal(sent))
  BY <1>2, LegalsAreChunks, LegalsGrow DEF Legal
<1>4. CASE fwd.at = "done"
  <2>1. IsPrefix(Written, Legals(sent)[n])
    BY <1>1, <1>4 DEF WireIs
  <2>2. DONE \in Range(wire) => Written = Legal(sent) /\ err = "none"
    BY <1>1, <1>4 DEF WireIs, Legal
  <2>3. IsPrefix(Written, Legal(sent))
    BY <1>3, <2>1 DEF IsPrefix
  <2> QED
    BY <2>2, <2>3 DEF FaithfulStream
<1>5. CASE fwd.at = "failed"
  <2>1. wire = <<>>
    BY <1>5 DEF StreamInv, AnswerOK
  <2>2. Written = <<>> /\ DONE \notin Range(wire)
    BY <2>1 DEF Written, Range
  <2> QED
    BY <1>3, <2>2, NothingIsPrefix DEF FaithfulStream
<1>6. CASE fwd.at \notin {"done", "failed"}
  <2>1. wire \in Seq(Chunk) /\ Written = wire /\ DONE \notin Range(wire)
    BY <1>6, WrittenIsWire
  <2>2. IsPrefix(wire, Legals(sent)[n])
    <3>1. CASE fwd.at = "write"
      <4>1. fwd.item \in Chunk /\ Append(wire, fwd.item) = Legals(sent)[n]
        BY <1>1, <3>1 DEF StreamInv, TypeOK, WireIs
      <4>2. /\ Len(wire) <= Len(Append(wire, fwd.item))
            /\ \A i \in 1 .. Len(wire) : wire[i] = Append(wire, fwd.item)[i]
        BY <2>1, <4>1
      <4> QED
        BY <1>3, <2>1, <4>1, <4>2, PrefixIs
    <3>2. CASE fwd.at # "write"
      <4>1. wire = Legals(sent)[n]
        BY <1>1, <1>6, <3>2 DEF WireIs, StreamInv, TypeOK, Stages
      <4>2. Len(wire) <= Len(wire) /\ \A i \in 1 .. Len(wire) : wire[i] = wire[i]
        BY <2>1
      <4> QED
        BY <2>1, <4>1, <4>2, PrefixIs
    <3> QED
      BY <3>1, <3>2
  <2>3. /\ Len(wire) <= Len(Legal(sent))
        /\ \A i \in 1 .. Len(wire) : wire[i] = Legal(sent)[i]
    BY <1>3, <2>1, <2>2, PrefixIs
  <2> QED
    BY <1>3, <2>1, <2>3, PrefixIs DEF FaithfulStream
<1> QED
  BY <1>4, <1>5, <1>6

(* Whenever the provider, the client or the watchdog ends a stream, what   *)
(* the client was written is a beginning of what it should get, in order   *)
(* and once, and [DONE] follows all of it and no error                     *)
(* (writeBifrostChatSSE, sanitizeOpenAIStreamChunk).                       *)
THEOREM AlwaysFaithful == Spec => []FaithfulStream
<1>1. Init => StreamInv /\ Faith
  BY StreamInit, FaithInit
<1>2. StreamInv /\ Faith /\ [Next]_vars => (StreamInv /\ Faith)'
  BY StreamStep, FaithStep
<1>3. StreamInv /\ Faith => FaithfulStream
  BY FaithfulNow
<1> QED
  BY <1>1, <1>2, <1>3, PTL DEF Spec

=============================================================================
