----------------------------- MODULE ChatStream -----------------------------
(***************************************************************************)
(* One streamed chat (gateway/chat_transport.go, router/client.go): a      *)
(* producer goroutine takes the provider's chunks and queues them, the     *)
(* handler's forwarder writes them to the client under the stream contract *)
(* of openai_stream.go, and a watchdog cancels a stream that waits too     *)
(* long for its first or next chunk.  The three share one context, which   *)
(* the client's hang-up, the watchdog and the forwarder's return end.      *)
(*                                                                         *)
(* A chunk is the choice indexes it continues, those it finishes, and      *)
(* whether it carries usage.  The provider sends at most MaxSent of them.  *)
(* A stream's idle limit is always set (ResolveStreamIdle).                *)
(***************************************************************************)
EXTENDS Integers, Sequences, SequencesExt

CONSTANTS
  Indexes,   \* choice indexes
  Chunks,    \* the chunks a provider sends
  Capacity,  \* of the producer's queue
  MaxSent,
  DONE, ErrorBody  \* the ends of an answer

Chunk == [touches : SUBSET Indexes, ends : SUBSET Indexes, usage : BOOLEAN]

ASSUME ChatStreamAssumption ==
  /\ Chunks \subseteq {c \in Chunk : c.ends \subseteq c.touches}
  /\ Capacity \in Nat \ {0}
  /\ MaxSent \in Nat
  /\ DONE # ErrorBody
  /\ {DONE, ErrorBody} \cap Chunk = {}

VARIABLES
  producer,  \* what the producer is doing, and the chunk it holds
  out,       \* its queue, closed when it is gone,
  err,       \* and its terminal error
  ctxDone,   \* the stream's context has ended
  watchdog,  \* its timer, and whether it fired
  fwd,       \* what the forwarder is doing
  verdict,   \* how the call ended, as the breaker sees it
  wire,      \* what the client was written
  hungUp,    \* the client has gone
  sent       \* history: the chunks the provider sent

vars == <<producer, out, err, ctxDone, watchdog, fwd, verdict, wire, hungUp, sent>>

NoChunk == [touches |-> {}, ends |-> {}, usage |-> FALSE]

Stages == {"dial", "read", "write", "finish", "blame", "failed", "done"}

TypeOK ==
  /\ producer \in [at : {"none", "recv", "send", "gone"}, item : Chunk]
  /\ out \in Seq(Chunk) /\ Len(out) <= Capacity
  /\ err \in {"none", "backend", "canceled"}
  /\ ctxDone \in BOOLEAN
  /\ watchdog \in [armed : BOOLEAN, fired : BOOLEAN, cancelling : BOOLEAN,
                   stall : {"none", "backend", "client"}]
  /\ fwd \in [at : Stages, item : Chunk, finished : SUBSET Indexes, started : BOOLEAN]
  /\ verdict \in {"none", "ok", "timeout", "canceled", "unavailable"}
  /\ wire \in Seq(Chunk \cup {DONE, ErrorBody})
  /\ hungUp \in BOOLEAN
  /\ sent \in Seq(Chunk) /\ Len(sent) <= MaxSent

(* The watchdog waits for the first chunk from before the dial; stall is   *)
(* history: whose doing it was that it fired.                              *)
startStreamWatchdog ==
  [armed |-> TRUE, fired |-> FALSE, cancelling |-> FALSE, stall |-> "none"]

Init ==
  /\ producer = [at |-> "none", item |-> NoChunk]
  /\ out = <<>>
  /\ err = "none"
  /\ ctxDone = FALSE
  /\ watchdog = startStreamWatchdog
  /\ fwd = [at |-> "dial", item |-> NoChunk, finished |-> {}, started |-> FALSE]
  /\ verdict = "none"
  /\ wire = <<>>
  /\ hungUp = FALSE
  /\ sent = <<>>

-----------------------------------------------------------------------------
(* The producer and the provider it reads from. *)

ProviderSends(c) ==
  /\ producer.at = "recv"
  /\ Len(sent) < MaxSent
  /\ sent' = Append(sent, c)
  /\ producer' = [at |-> "send", item |-> c]
  /\ UNCHANGED <<out, err, ctxDone, watchdog, fwd, verdict, wire, hungUp>>

(* The producer's deferred calls close the error channel and then the      *)
(* queue; nobody looks at either before the queue is closed.               *)
Gone(e) ==
  /\ producer' = [at |-> "gone", item |-> NoChunk]
  /\ err' = e
  /\ UNCHANGED <<out, ctxDone, watchdog, fwd, verdict, wire, hungUp, sent>>

(* The provider's stream ends, with an error or without; when its context  *)
(* has ended, for that.                                                    *)
ProviderEnds ==
  /\ producer.at = "recv"
  /\ \/ Gone("none")
     \/ Gone("backend")
     \/ ctxDone /\ Gone("canceled")

(* Slip: the producer waits for room only.                                 *)
SendOnly ==
  /\ producer.at = "send"
  /\ Len(out) < Capacity
  /\ out' = Append(out, producer.item)
  /\ producer' = [at |-> "recv", item |-> NoChunk]
  /\ UNCHANGED <<err, ctxDone, watchdog, fwd, verdict, wire, hungUp, sent>>

(* The chunk is queued, or the context ends; either, when both can be.     *)
Send ==
  /\ producer.at = "send"
  /\ \/ /\ Len(out) < Capacity
        /\ out' = Append(out, producer.item)
        /\ producer' = [at |-> "recv", item |-> NoChunk]
        /\ UNCHANGED <<err, ctxDone, watchdog, fwd, verdict, wire, hungUp, sent>>
     \/ ctxDone /\ Gone("canceled")

-----------------------------------------------------------------------------
(* The stream contract. *)

afterFinish(finished, c) == c.touches \cap finished # {}

markFinished(finished, c) == finished \cup c.ends

(* A chunk that continues a finished choice is dropped, or keeps only its  *)
(* usage.                                                                  *)
Dropped(finished, c) == afterFinish(finished, c) /\ ~c.usage
Sanitized(finished, c) ==
  IF afterFinish(finished, c) THEN [NoChunk EXCEPT !.usage = c.usage] ELSE c

-----------------------------------------------------------------------------
(* The forwarder.  Returning, it ends the context and stops the watchdog.  *)

Leave(at, v) ==
  /\ fwd' = [fwd EXCEPT !.at = at, !.item = NoChunk]
  /\ verdict' = v
  /\ ctxDone' = TRUE
  /\ watchdog' = [watchdog EXCEPT !.armed = FALSE]

(* Slip: no failure is marked as answered.                                 *)
FailUnmarked(v) == Leave("failed", v)

(* A failure before the headers is answered by dialChat; one after them is *)
(* marked as answered (ErrResponseWritten).                                *)
Fail(v) == Leave(IF fwd.started THEN "done" ELSE "failed", v)

(* Slip: a failed write is taken for the backend's.                        *)
afterHeadersByContext(clientWrite) ==
  Fail(IF ctxDone THEN "canceled" ELSE "unavailable")

afterHeaders(clientWrite) ==
  Fail(IF clientWrite \/ ctxDone THEN "canceled" ELSE "unavailable")

(* streamEnded *)
StreamEnded == Fail(IF watchdog.fired THEN "timeout" ELSE "canceled")

(* The call is opened, or fails, for its context if that has ended. *)
Dial ==
  /\ fwd.at = "dial"
  /\ \/ /\ producer' = [producer EXCEPT !.at = "recv"]
        /\ fwd' = [fwd EXCEPT !.at = "read"]
        /\ UNCHANGED <<err, ctxDone, watchdog, verdict>>
     \/ \E e \in {"backend"} \cup (IF ctxDone THEN {"canceled"} ELSE {}) :
          /\ err' = e
          /\ Fail(IF watchdog.fired THEN "timeout"
                  ELSE IF e = "canceled" THEN "canceled" ELSE "unavailable")
          /\ UNCHANGED producer
  /\ UNCHANGED <<out, wire, hungUp, sent>>

(* The forwarder notices the end of the context, though chunks may wait.   *)
ContextEnds ==
  /\ fwd.at = "read"
  /\ ctxDone
  /\ StreamEnded
  /\ UNCHANGED <<producer, out, err, wire, hungUp, sent>>

(* A chunk: the idle limit starts anew, before the chunk is written. *)
NextChunk ==
  /\ fwd.at = "read"
  /\ out # <<>>
  /\ LET c == Head(out)
         forwarding == ~Dropped(fwd.finished, c)
     IN fwd' = [fwd EXCEPT !.finished = markFinished(@, c),
                           !.at = IF forwarding THEN "write" ELSE @,
                           !.item = IF forwarding THEN Sanitized(fwd.finished, c) ELSE @,
                           !.started = @ \/ forwarding]
  /\ out' = Tail(out)
  /\ watchdog' = [watchdog EXCEPT !.armed = TRUE]
  /\ UNCHANGED <<producer, err, ctxDone, verdict, wire, hungUp, sent>>

(* Writing takes as long as the client takes to read, and fails only when  *)
(* the client has gone.                                                    *)
WriteChunk ==
  /\ fwd.at = "write"
  /\ \/ /\ wire' = Append(wire, fwd.item)
        /\ fwd' = [fwd EXCEPT !.at = "read", !.item = NoChunk]
        /\ UNCHANGED <<ctxDone, watchdog, verdict>>
     \/ hungUp /\ afterHeaders(TRUE) /\ UNCHANGED wire
  /\ UNCHANGED <<producer, out, err, hungUp, sent>>

(* Slip: the error channel is read before the queue is empty.              *)
TakeErrorEarly ==
  /\ fwd.at = "read"
  /\ producer.at = "gone"
  /\ \/ /\ err = "none"
        /\ fwd' = [fwd EXCEPT !.at = "finish", !.started = TRUE]
        /\ UNCHANGED <<ctxDone, watchdog, verdict>>
     \/ err # "none" /\ watchdog.fired /\ StreamEnded
     \/ /\ err # "none" /\ ~watchdog.fired
        /\ fwd' = [fwd EXCEPT !.at = "blame"]
        /\ UNCHANGED <<ctxDone, watchdog, verdict>>
  /\ UNCHANGED <<producer, out, err, wire, hungUp, sent>>

(* The queue is closed and empty: the producer's error decides. *)
TakeError ==
  /\ fwd.at = "read"
  /\ out = <<>> /\ producer.at = "gone"
  /\ \/ /\ err = "none"
        /\ fwd' = [fwd EXCEPT !.at = "finish", !.started = TRUE]
        /\ UNCHANGED <<ctxDone, watchdog, verdict>>
     \/ err # "none" /\ watchdog.fired /\ StreamEnded
     \/ /\ err # "none" /\ ~watchdog.fired
        /\ fwd' = [fwd EXCEPT !.at = "blame"]
        /\ UNCHANGED <<ctxDone, watchdog, verdict>>
  /\ UNCHANGED <<producer, out, err, wire, hungUp, sent>>

(* An error that is not the watchdog's, by its code or, once the headers   *)
(* are out, by the context a step later.                                   *)
Blame ==
  /\ fwd.at = "blame"
  /\ \/ fwd.started /\ afterHeaders(FALSE)
     \/ ~fwd.started /\ Fail(IF err = "canceled" THEN "canceled" ELSE "unavailable")
  /\ UNCHANGED <<producer, out, err, wire, hungUp, sent>>

WriteDone ==
  /\ fwd.at = "finish"
  /\ \/ wire' = Append(wire, DONE) /\ Leave("done", "ok")
     \/ hungUp /\ afterHeaders(TRUE) /\ UNCHANGED wire
  /\ UNCHANGED <<producer, out, err, hungUp, sent>>

(* dialChat answers a failure that has not been answered. *)
WriteDialError ==
  /\ fwd.at = "failed"
  /\ wire' = Append(wire, ErrorBody)
  /\ fwd' = [fwd EXCEPT !.at = "done"]
  /\ UNCHANGED <<producer, out, err, ctxDone, watchdog, verdict, hungUp, sent>>

-----------------------------------------------------------------------------
(* The watchdog and the client. *)

Fires ==
  /\ watchdog.armed
  /\ watchdog' = [armed |-> FALSE, fired |-> TRUE, cancelling |-> TRUE,
                  stall |-> IF watchdog.fired THEN watchdog.stall
                            ELSE IF fwd.at = "write" /\ out # <<>> THEN "client"
                            ELSE "backend"]
  /\ UNCHANGED <<producer, out, err, ctxDone, fwd, verdict, wire, hungUp, sent>>

Cancels ==
  /\ watchdog.cancelling
  /\ watchdog' = [watchdog EXCEPT !.cancelling = FALSE]
  /\ ctxDone' = TRUE
  /\ UNCHANGED <<producer, out, err, fwd, verdict, wire, hungUp, sent>>

HangUp ==
  /\ ~hungUp /\ fwd.at # "done"
  /\ hungUp' = TRUE
  /\ UNCHANGED <<producer, out, err, ctxDone, watchdog, fwd, verdict, wire, sent>>

(* The server ends the request's context when it notices. *)
Noticed ==
  /\ hungUp /\ ~ctxDone
  /\ ctxDone' = TRUE
  /\ UNCHANGED <<producer, out, err, watchdog, fwd, verdict, wire, hungUp, sent>>

Forward ==
  \/ Dial \/ ContextEnds \/ NextChunk \/ TakeError \/ Blame
  \/ WriteChunk \/ WriteDone \/ WriteDialError

Next ==
  \/ \E c \in Chunks : ProviderSends(c)
  \/ ProviderEnds \/ Send
  \/ Forward
  \/ Fires \/ Cancels
  \/ HangUp \/ Noticed

Spec == Init /\ [][Next]_vars

(* Goroutines run, the timer fires, and a write returns: a client that     *)
(* stays but never reads is left out.  The provider need do nothing until  *)
(* the context ends, and then it ends its stream.                          *)
FairSpec ==
  /\ Spec
  /\ WF_vars(Send)
  /\ WF_vars(Forward)
  /\ WF_vars(Fires) /\ WF_vars(Cancels)
  /\ WF_vars(ctxDone /\ ProviderEnds)

-----------------------------------------------------------------------------
(* Correctness. *)

(* One answer: nothing is written after [DONE], an error body is the whole *)
(* answer and never follows the headers of a stream, and a client that is  *)
(* still there is not left without one.                                    *)
OneAnswer ==
  /\ \A i \in DOMAIN wire : wire[i] = DONE => i = Len(wire)
  /\ \A i \in DOMAIN wire : wire[i] = ErrorBody => Len(wire) = 1
  /\ fwd.at = "done" /\ ~hungUp => wire # <<>>

(* The contract: once a choice has its finish_reason the client gets no    *)
(* more of it, whatever the provider goes on to send.                      *)
LegalStream ==
  \A i, j \in DOMAIN wire :
    i < j /\ {wire[i], wire[j]} \cap {DONE, ErrorBody} = {} =>
      wire[i].ends \cap wire[j].touches = {}

(* What the client should get of a stream: all of it but the chunks that   *)
(* continue a choice an earlier one finished, and of those their usage.    *)
Late(s, i) == \E j \in 1 .. i - 1 : s[j].ends \cap s[i].touches # {}
Kept(s, i) ==
  IF ~Late(s, i) THEN <<s[i]>>
  ELSE IF s[i].usage THEN <<[NoChunk EXCEPT !.usage = TRUE]>> ELSE <<>>
Legals(s) ==
  LET legal[n \in 0 .. Len(s)] == IF n = 0 THEN <<>> ELSE legal[n - 1] \o Kept(s, n)
  IN  legal
Legal(s) == Legals(s)[Len(s)]

(* The chunks the client got.                                              *)
Written ==
  IF wire # <<>> /\ wire[Len(wire)] \in {DONE, ErrorBody}
  THEN SubSeq(wire, 1, Len(wire) - 1) ELSE wire

(* The client gets the chunks in order, none lost or repeated, and [DONE]  *)
(* only after all of them and if the provider's stream ended without an    *)
(* error.                                                                  *)
FaithfulStream ==
  /\ IsPrefix(Written, Legal(sent))
  /\ DONE \in Range(wire) => Written = Legal(sent) /\ err = "none"

(* A failure charged to the backend as unavailable is one it reported: a   *)
(* client that went is never taken for it.  It says nothing of a stall,    *)
(* which is charged as a timeout, a slow client's among them.              *)
FaultIsReal == verdict = "unavailable" => err = "backend"

(* The stream ends and leaves no goroutine behind, wherever the client,    *)
(* the provider or the watchdog stops it.                                  *)
StreamEnds == <>(fwd.at = "done" /\ producer.at \in {"none", "gone"})
=============================================================================
