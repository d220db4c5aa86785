------------------------------- MODULE Outbound -------------------------------
(***************************************************************************)
(* Calls to one remote dependency under the policies of outbound.go:       *)
(* retries of what may be sent again, and around them the dependency's     *)
(* circuit breaker, which sees one result for each call however often it   *)
(* was tried.  Breaker and retries are a library's (failsafe-go); they are *)
(* modelled from the settings outbound.go gives them.  When a context ends *)
(* while retries are possible the library's result is the context's error. *)
(*                                                                         *)
(* The mode of a call is how it is made:                                   *)
(*   do       Policies.Do, the body can be sent again (or there is none)   *)
(*   consumed Policies.Do, the first attempt uses the body up              *)
(*   once     Policies.DoOnce: paid calls                                  *)
(*   plain    Policies.Do on a dependency without a breaker                *)
(*   probe    Policies.Do on DepHealth: any status is an answer            *)
(* An answer is the class of its status: ok, perm (a 4xx), throttle (429)  *)
(* or fault (5xx).                                                         *)
(***************************************************************************)
EXTENDS Integers, Sequences

CONSTANTS Calls,
          maxRetries,
          Threshold,    \* the breaker's failure threshold
          Modes         \* the modes each call may be made in

ASSUME OutboundAssumption ==
    /\ maxRetries \in Nat
    /\ Threshold \in Nat \ {0}
    /\ Modes \in [Calls -> SUBSET {"do", "consumed", "once", "plain", "probe"}]

VARIABLES
    dep,        \* the dependency's breaker
    calls,      \* what each call is at
    faulty      \* the dependency throttles, fails or hangs

outboundVars == <<dep, calls, faulty>>

Answers == {"ok", "perm", "throttle", "fault"}
Errors  == {"none", "fault", "final", "ctx"}
Codes   == {"none", "unavailable", "timeout", "canceled", "failed_precondition"}

(* at: "idle", "sending", "waiting" for a retry, "over", "back" with the   *)
(* caller.  resp is the response held, bodies how many are open, last the  *)
(* answer of the last attempt, code the error the caller gets.             *)
NoAttempt == [at |-> "idle", mode |-> "do", sent |-> 0, resp |-> "none", last |-> "none",
           bodies |-> 0, err |-> "none", ctx |-> "live", code |-> "none"]

-----------------------------------------------------------------------------
(* The breaker.                                                            *)

\* A closed breaker keeps its last Threshold results, TRUE for a fault; a half-open
\* one those of its trials, of which out are not back; due: the delay is over.
Closed     == [state |-> "closed", window |-> <<>>, out |-> 0, due |-> FALSE]
Opened     == [Closed EXCEPT !.state = "open"]
HalfOpened == [Closed EXCEPT !.state = "half-open"]

Latest(window, fault) ==
    LET w == Append(window, fault) IN IF Len(w) > Threshold THEN Tail(w) ELSE w

Settled(b, fault) ==
    LET w    == Latest(b.window, fault)
        trip == Len(w) = Threshold /\ \A i \in DOMAIN w : w[i]
    IN  CASE b.state = "closed"    -> IF trip THEN Opened ELSE [b EXCEPT !.window = w]
          [] b.state = "half-open" -> IF trip THEN Opened
                                      ELSE IF ~fault THEN Closed
                                      ELSE [b EXCEPT !.window = w, !.out = @ - 1]
          [] OTHER                 -> b

\* breakerFor: the local health and gateway calls have none.
breakerFor(mode) == mode \notin {"plain", "probe"}

\* The breaker after it let a call through; none if it refuses.
Permitted(b) ==
    CASE b.state = "closed" -> {b}
      [] b.state = "half-open" /\ b.out < Threshold -> {[b EXCEPT !.out = @ + 1]}
      [] b.state = "open" /\ b.due -> {[HalfOpened EXCEPT !.out = 1]}
      [] OTHER -> {}

\* Mutant: a quota refusal counts like a retried one.
breakerStatusFailureWide(class) == class \in {"throttle", "fault"}

breakerStatusFailure(class) == class = "fault"
httpStatusRetryable(class)  == class \in {"throttle", "fault"}

-----------------------------------------------------------------------------
(* The steps of a call.                                                    *)

\* Mutant: a body that is used up is sent again.
retriesAll(mode) == mode # "once"

\* policies, breakerOnly and replayable: who may try again.
retries(mode) == mode \notin {"once", "consumed"}

Set(c, r) == calls' = [calls EXCEPT ![c] = r]

\* validateCtx; then the breaker lets the first attempt through or refuses.
Begin(c, mode, deadline) ==
    /\ calls[c].at = "idle"
    /\ LET r == [NoAttempt EXCEPT !.mode = mode, !.sent = 1, !.at = "sending"]
           refused(code) == Set(c, [r EXCEPT !.at = "back", !.sent = 0, !.code = code])
       IN  IF ~deadline THEN refused("failed_precondition") /\ UNCHANGED dep
           ELSE IF breakerFor(mode)
           THEN \/ \E b \in Permitted(dep) : dep' = b /\ Set(c, r)
                \/ Permitted(dep) = {} /\ UNCHANGED dep /\ refused("unavailable")
           ELSE UNCHANGED dep /\ Set(c, r)
    /\ UNCHANGED faulty

TriesAgain(r) ==
    r.err = "fault" /\ retries(r.mode) /\ r.sent <= maxRetries /\ r.ctx = "live"

\* An attempt is over, and with it the call or not.
Attempted(c, r) ==
    LET e == IF retries(r.mode) /\ r.ctx \in {"timeout", "canceled"}
             THEN [r EXCEPT !.err = "ctx"] ELSE r
    IN  Set(c, [e EXCEPT !.at = IF TriesAgain(e) THEN "waiting" ELSE "over"])

\* The error an attempt that was answered ends with; a Retry-After that
\* outlasts the context ends the retries (retryableStatus).
Judged(mode, class) ==
    IF mode = "once" THEN {IF breakerStatusFailure(class) THEN "fault" ELSE "none"}
    ELSE IF mode = "probe" \/ class = "ok" THEN {"none"}
    ELSE IF httpStatusRetryable(class) THEN {"fault", "final"} ELSE {"final"}

Answered(c, class) ==
    /\ calls[c].at = "sending"
    /\ class \in {"throttle", "fault"} => faulty
    /\ \E e \in Judged(calls[c].mode, class) :
         Attempted(c, [calls[c] EXCEPT !.resp = class, !.last = class, !.bodies = @ + 1, !.err = e])
    /\ UNCHANGED <<dep, faulty>>

\* No answer: a transport error worth another attempt (transportRetryable) or
\* not, or the context's end.
Broken(c) ==
    LET r == calls[c] IN
    /\ r.at = "sending"
    /\ \E e \in IF r.ctx \in {"timeout", "canceled"} THEN {"ctx"}
                ELSE IF faulty THEN {"fault", "final"} ELSE {} :
         Attempted(c, [r EXCEPT !.err = e])
    /\ UNCHANGED <<dep, faulty>>

\* Mutant: the answer before the retry stays held, its body open.
AgainHolding(c) ==
    /\ calls[c].at = "waiting" /\ calls[c].ctx = "live"
    /\ Set(c, [calls[c] EXCEPT !.at = "sending", !.sent = @ + 1, !.last = "none"])
    /\ UNCHANGED <<dep, faulty>>

\* The wait is over: the held answer is drained, closed and forgotten.
Again(c) ==
    LET r == calls[c] IN
    /\ r.at = "waiting" /\ r.ctx = "live"
    /\ Set(c, [r EXCEPT !.at = "sending", !.sent = @ + 1, !.resp = "none",
                        !.last = "none", !.bodies = IF r.resp = "none" THEN @ ELSE @ - 1])
    /\ UNCHANGED <<dep, faulty>>

\* The context ends during the wait.
GiveUp(c) ==
    /\ calls[c].at = "waiting" /\ calls[c].ctx # "live"
    /\ Set(c, [calls[c] EXCEPT !.at = "over", !.err = "ctx"])
    /\ UNCHANGED <<dep, faulty>>

\* The deadline passes, or whoever called hangs up.
ContextEnds(c, how) ==
    /\ calls[c].at \in {"sending", "waiting", "over"} /\ calls[c].ctx = "live"
    /\ Set(c, [calls[c] EXCEPT !.ctx = how])
    /\ UNCHANGED <<dep, faulty>>

\* Mutant: whatever stopped the call, the dependency was unavailable.
dialErrorPlain(r) == "unavailable"

\* dialError: what stopped a call without an answer.
dialError(r) == IF r.ctx = "live" THEN "unavailable" ELSE r.ctx

\* What the caller gets: an answer that was held, with the context's error and
\* its body closed if that is what ended the retries, or the error alone.
Returned(r) ==
    LET cut == r.mode # "once" /\ r.err # "none" /\ r.ctx # "live"
        back == [NoAttempt EXCEPT !.at = "back", !.resp = r.resp, !.last = r.last,
                               !.bodies = r.bodies, !.err = r.err, !.ctx = r.ctx]
    IN  CASE r.resp = "none" -> [back EXCEPT !.code = dialError(r)]
          [] r.resp # "none" /\ cut -> [back EXCEPT !.code = r.ctx, !.bodies = @ - 1]
          [] OTHER           -> back

\* Mutant: a call its context ended is not recorded.
FinishUnlessCut(c) ==
    LET r == calls[c] IN
    /\ r.at = "over"
    /\ dep' = IF breakerFor(r.mode) /\ r.ctx = "live" THEN Settled(dep, r.err = "fault") ELSE dep
    /\ Set(c, Returned(r))
    /\ UNCHANGED faulty

\* The breaker records how the call ended, the caller has its result.
Finish(c) ==
    LET r == calls[c] IN
    /\ r.at = "over"
    /\ dep' = IF breakerFor(r.mode) THEN Settled(dep, r.err = "fault") ELSE dep
    /\ Set(c, Returned(r))
    /\ UNCHANGED faulty

\* The caller reads and closes what it got and may call again.
Close(c) ==
    /\ calls[c].at = "back"
    /\ Set(c, NoAttempt)
    /\ UNCHANGED <<dep, faulty>>

\* The breaker's delay.
DepDelayPasses ==
    /\ dep.state = "open" /\ ~dep.due
    /\ dep' = [dep EXCEPT !.due = TRUE]
    /\ UNCHANGED <<calls, faulty>>

Turns == faulty' = ~faulty /\ UNCHANGED <<dep, calls>>

OutboundInit ==
    /\ dep = Closed
    /\ calls = [c \in Calls |-> NoAttempt]
    /\ faulty \in BOOLEAN

Beginning(c) == \E mode \in Modes[c], deadline \in BOOLEAN : Begin(c, mode, deadline)
Attempting(c) == \/ \E class \in Answers : Answered(c, class)
                 \/ Broken(c) \/ Again(c) \/ GiveUp(c)

OutboundNext ==
    \/ \E c \in Calls : \/ Beginning(c) \/ Attempting(c) \/ Finish(c) \/ Close(c)
                        \/ \E how \in {"timeout", "canceled"} : ContextEnds(c, how)
    \/ DepDelayPasses \/ Turns

OutboundSpec == OutboundInit /\ [][OutboundNext]_outboundVars

\* A context with a deadline ends, an attempt with an ended context returns,
\* and a wait is over; that calls with a deadline keep coming is an assumption
\* on the traffic.
OutboundFairSpec ==
    /\ OutboundSpec
    /\ \A c \in Calls : /\ WF_outboundVars(Broken(c)) /\ WF_outboundVars(Again(c) \/ GiveUp(c))
                        /\ WF_outboundVars(ContextEnds(c, "timeout"))
                        /\ WF_outboundVars(Finish(c)) /\ WF_outboundVars(Close(c))
                        /\ SF_outboundVars(\E mode \in Modes[c] : breakerFor(mode) /\ Begin(c, mode, TRUE))
    /\ WF_outboundVars(DepDelayPasses)

-----------------------------------------------------------------------------
(* Properties.                                                             *)

OutboundTypeOK ==
    /\ dep \in [state : {"closed", "open", "half-open"}, window : Seq(BOOLEAN), out : Int, due : BOOLEAN]
    /\ Len(dep.window) <= Threshold
    /\ calls \in [Calls -> [at : {"idle", "sending", "waiting", "over", "back"}, mode : {"do"} \cup UNION {Modes[c] : c \in Calls},
                            sent : 0 .. maxRetries + 1, resp : Answers \cup {"none"},
                            last : Answers \cup {"none"}, bodies : Nat, err : Errors,
                            ctx : {"live", "timeout", "canceled"}, code : Codes]]
    /\ faulty \in BOOLEAN

\* DoOnce sends "exactly once", and a body the first attempt used up is not
\* sent again, empty, whatever comes back and whatever the breaker does.
SentOnce == \A c \in Calls : calls[c].mode \in {"once", "consumed"} => calls[c].sent <= 1

\* No response body is left open: when a call is back its caller has one to
\* close or none is open, on every way out of the retries.
NoBodyLeaks ==
    \A c \in Calls :
      calls[c].at = "back" =>
        calls[c].bodies = IF calls[c].resp # "none" /\ calls[c].code = "none" THEN 1 ELSE 0

\* "Do returns the last response": what the caller gets is what the last
\* attempt was answered, not an earlier answer, and no answer is dropped.
LastAnswer == \A c \in Calls : calls[c].at = "back" => calls[c].resp = calls[c].last

\* "the cause is the deadline and not the upstream status": a call whose
\* context ended during its attempts says so, and no other does.
TrueCause ==
    \A c \in Calls :
      calls[c].at = "back" =>
        /\ calls[c].code \in {"timeout", "canceled"} => calls[c].code = calls[c].ctx
        /\ calls[c].err = "ctx" => calls[c].code = calls[c].ctx
        /\ calls[c].code = "unavailable" => calls[c].ctx = "live"

\* The caller hears what became of its call: the last answer, or what stopped
\* it before there was one.
CallerHearsTruth == LastAnswer /\ TrueCause

\* "a quota refusal keeps reaching the caller with its Retry-After instead of
\* opening the breaker": a paid call's 429 never opens or reopens it.
QuotaStaysVisible ==
    [][\A c \in Calls :
         calls[c].at = "over" /\ calls'[c].at = "back" /\ calls[c].mode = "once" /\ calls[c].last = "throttle"
           => dep'.state \in {dep.state, "closed"}]_outboundVars

\* A dependency that stays well is called again for good, whatever opened its
\* breaker and whatever calls were let through while it was half-open.
DependencyRecovers == <>[](~faulty) => <>[](dep.state = "closed")
===============================================================================
