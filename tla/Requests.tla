------------------------------- MODULE Requests -------------------------------
(***************************************************************************)
(* Requests to one backend from their budget to their answer: the hop      *)
(* budget and who cut it (server.go), the backend's breaker (module        *)
(* Board), the upstream call - for Cloudflare's own API under a breaker of *)
(* its own (module Outbound) -, the error that comes of it (module         *)
(* UpstreamErrors) and the answer the caller gets.  Streams are module     *)
(* ChatStream's.                                                           *)
(*                                                                         *)
(* Bifrost is a library: a deadline it meets comes back as an error        *)
(* without a domain code, with status 504 or none, a hang-up with 499 or   *)
(* none.  What has neither a code nor a 4xx is "unavailable" from there on *)
(* (bifrostErr), whoever ended the call.                                   *)
(***************************************************************************)
EXTENDS Integers, Sequences, Timeouts, UpstreamErrors

CONSTANTS Callers,
          Providers,        \* the kinds of backend to look at
          Files,            \* timeouts blocks: [file, backend]
          Headers,          \* values of X-Polypus-Timeout
          Replies,          \* what an upstream may answer
          Trip, DepTrip     \* failures in a row that open each breaker

ASSUME RequestsAssumption ==
    /\ Providers \subseteq {"openai", "anthropic", "cloudflare", "switchyard"}
    /\ Files \subseteq [file : [Fields -> Nat \cup {Absent, Bad}], backend : [BackendFields -> Nat \cup {Absent, Bad}]]
    /\ Headers \subseteq Nat \cup {Absent, Bad}
    /\ Replies \subseteq Reply
    /\ Trip \in Nat \ {0} /\ DepTrip \in Nat \ {0}

VARIABLES
    provider,   \* the backend's kind
    conf,       \* its timeouts: [all, own]
    cb,         \* its breaker
    dep,        \* the breaker around Cloudflare's API
    req,        \* each caller's request
    streak      \* ghost: calls in a row, up to Trip, that ended without an answer

vars == <<provider, conf, cb, dep, req, streak>>

B == INSTANCE Board WITH Names <- {"backend"}, NoName <- "none", NoCaller <- 0,
                         call <- req, sick <- {}, charged <- streak, trial <- {}
D == INSTANCE Outbound WITH Calls <- Callers, maxRetries <- 3, Threshold <- DepTrip,
                            Modes <- [c \in Callers |-> {"once"}],
                            calls <- req, faulty <- TRUE

Kinds == {"chat", "thinking", "vision", "embed", "speech", "decision"}

\* why is the ghost that says what happened to the request, whatever the code
\* makes of it; blamed, whether it counted against the backend; wrote, how
\* many answers were written.
NoRequest == [at |-> "idle", kind |-> "chat", hop |-> 0, marked |-> FALSE, why |-> "none",
              http |-> 0, after |-> FALSE, blamed |-> FALSE, wrote |-> 0]

-----------------------------------------------------------------------------
(* Budgets.                                                                *)

BudgetOf(kind) == IF kind = "decision" THEN "chat" ELSE kind

\* The budget without the header, and with it; a composed router's hop to
\* Switchyard takes the maximum and no header.
configured(kind) == IF provider = "switchyard" THEN conf.all.max
                    ELSE Resolve(conf.all, conf.own, BudgetOf(kind), Absent)

hopBudget(kind, header) == IF provider = "switchyard" THEN conf.all.max
                           ELSE Resolve(conf.all, conf.own, BudgetOf(kind), header)

\* Mutant: only a hop below the lower bound counts as cut short.
callerBudgetByMax(kind, hop) == hop < conf.all.min

\* callerBudget: the caller cut the hop short.
callerBudget(kind, hop) == hop < configured(kind)

-----------------------------------------------------------------------------
(* The upstream call.                                                      *)

\* Cloudflare's decisions go to its API directly, its speech from a Bifrost
\* plugin; everything else goes through Bifrost.
Direct(kind) == provider = "cloudflare" /\ kind = "decision"
Plugin(kind) == provider = "cloudflare" /\ kind = "speech"

ChatKinds == {"chat", "thinking", "vision"}

viaBifrost(kind, r) ==
    IF kind \in ChatKinds THEN chatBifrostErr(provider, r) ELSE bifrostErr(r, provider = "cloudflare")

\* What the context's end looks like: Cloudflare's client says which end it
\* was (outbound's dialError) unless it was reading the body.
ContextError(kind, how) ==
    LET direct == {Error(IF how = "late" THEN "timeout" ELSE "canceled", 0), Error("unavailable", 0)}
        plain  == {[Answer EXCEPT !.how = how, !.status = s] : s \in {0, IF how = "late" THEN 504 ELSE 499}}
        typed(e) == bifrostErr([Answer EXCEPT !.how = how, !.typed = e.code], TRUE)
    IN  IF Direct(kind) THEN direct
        ELSE IF Plugin(kind) THEN {typed(e) : e \in direct}
        ELSE {viaBifrost(kind, r) : r \in plain}

\* The error of an answer, or of none.
ReplyError(kind, r) ==
    CASE r.how = "ok"     -> NoError
      [] r.how = "broken" -> Error("unavailable", 0)
      [] r.how = "empty"  -> IF Direct(kind) THEN unwrapRunResult(r) ELSE Error("unavailable", 0)
      [] r.how = "status" ->
           IF Direct(kind) THEN upstreamError(r)
           ELSE IF ~Plugin(kind) THEN viaBifrost(kind, r)
           ELSE LET e == upstreamError(r)
                IN  IF e.code = "rate_limited" THEN e
                    ELSE bifrostErr([r EXCEPT !.status = 0, !.cf = "none", !.typed = e.code], TRUE)

\* What really happened, by what the providers' documents say of the status.
Why(kind, r) ==
    LET throttles == r.status = 429 \/ (provider = "cloudflare" /\ r.cf = "field")
        own    == Direct(kind) \/ Plugin(kind) \/ (provider = "switchyard" /\ kind \in ChatKinds)
        unpaid == IF provider = "anthropic" /\ kind \in ChatKinds
                  THEN anthropicUnavailable(r) ELSE billingRefusal(r)
    IN  IF r.how = "ok" THEN "answered"
        ELSE IF r.how = "broken" THEN "fault"
        ELSE IF throttles THEN "throttled"
        ELSE IF r.how = "empty" THEN "fault"
        ELSE IF ~own /\ unpaid THEN "unpaid"
        ELSE IF Is4xx(r.status) THEN "refused" ELSE "fault"

-----------------------------------------------------------------------------
(* The steps of a request.                                                 *)

Set(c, q) == req' = [req EXCEPT ![c] = q]
Static    == UNCHANGED <<provider, conf>>

Begun(kind, header) ==
    LET hop == hopBudget(kind, header)
    IN  [NoRequest EXCEPT !.at = "running", !.kind = kind, !.hop = hop,
                          !.marked = callerBudget(kind, hop)]

\* Whether a call passes Cloudflare's own breaker.
OwnAPI(kind) == Direct(kind) \/ Plugin(kind)

\* What the gateway itself makes of a request it cannot serve.
LocalCodes == {"invalid", "unauthorized", "not_found", "failed_precondition", "not_ready",
               "unimplemented", "internal"}

requestEntityTooLarge == 413

\* What ends before the dial: a body that cannot be read or is too large, a
\* model or a backend that is not there or not allowed, a client that cannot be built.
FailLocally(c) ==
    /\ req[c].at = "idle"
    /\ \E status \in {HTTPStatus(code) : code \in LocalCodes} \cup {requestEntityTooLarge} :
         Set(c, [NoRequest EXCEPT !.at = "back", !.why = "local", !.http = status, !.wrote = 1])
    /\ UNCHANGED <<cb, dep, streak>> /\ Static

\* The call goes out, unless Cloudflare's own breaker refuses it or it fails
\* before it gets there.
Dial(c, q) ==
    IF ~OwnAPI(q.kind) THEN Set(c, q) /\ UNCHANGED dep
    ELSE \/ dep' \in D!Permitted(dep) /\ Set(c, q)
         \/ D!Permitted(dep) = {} /\ UNCHANGED dep /\ Set(c, [q EXCEPT !.at = "refused"])
         \/ UNCHANGED dep /\ Set(c, [q EXCEPT !.at = "unsent"])

\* Execute: the backend's breaker lets the request through or refuses it.
Begin(c, kind, header) ==
    /\ req[c].at = "idle"
    /\ \/ cb.state = "closed" /\ UNCHANGED cb /\ Dial(c, Begun(kind, header))
       \/ cb.state = "open" /\ cb.due /\ cb' = B!HalfOpen /\ Dial(c, Begun(kind, header))
       \/ /\ cb.state # "closed" /\ ~cb.due /\ UNCHANGED <<cb, dep>>
          /\ Set(c, [NoRequest EXCEPT !.at = "back", !.why = "breaker", !.after = TRUE, !.wrote = 1,
                                      !.http = dialStatus(Error("unavailable", 0), TRUE, FALSE)])
    /\ UNCHANGED streak /\ Static

Counted(why) == IF why \in {"fault", "late", "gone"}
                THEN IF streak < Trip THEN streak + 1 ELSE streak
                ELSE 0

\* The call's end is recorded and, unless an answer is out, answered.
Ended(c, e, why, written) ==
    LET q == req[c]
        fault == e.code # "none" /\ backendFault(q.marked, e)
    IN  /\ cb' = B!Recorded(cb, fault)
        /\ streak' = Counted(why)
        /\ \E unreachable \in {FALSE} \cup (IF provider = "switchyard" /\ why = "fault" /\ e.status = 0
                                            THEN {TRUE} ELSE {}) :
             Set(c, [NoRequest EXCEPT !.at = "back", !.marked = q.marked, !.why = why, !.blamed = fault,
                                      !.http = IF written THEN 200 ELSE dialStatus(e, FALSE, unreachable),
                                      !.after = e.after, !.wrote = 1])

\* Cloudflare's breaker, which only the calls to its API pass.
DepSees(kind, fault) ==
    dep' = IF OwnAPI(kind) THEN D!Settled(dep, fault) ELSE dep

\* The upstream answers, or the connection breaks.
Replied(c) ==
    /\ req[c].at = "running"
    /\ \E r \in Replies :
         /\ r.how = "empty" /\ r.cf # "none" => Direct(req[c].kind)   \* only the direct call opens the envelope
         /\ DepSees(req[c].kind, r.how = "broken" \/ r.status >= 500)
         /\ Ended(c, gatewayErr(ReplyError(req[c].kind, r)), Why(req[c].kind, r), FALSE)
    /\ Static

\* Cloudflare's breaker refused the call.
DepRefuses(c) ==
    /\ req[c].at = "refused"
    /\ Ended(c, gatewayErr(Error("unavailable", 0)), "fault", FALSE)
    /\ UNCHANGED dep /\ Static

\* A chat or embeddings answer that cannot be written is tagged as written, and
\* counts as the client's going.
WriteFails(c) ==
    /\ req[c].at = "running"
    /\ req[c].kind \in ChatKinds \cup {"embed"}
    /\ Ended(c, Error("canceled", 0), "answered", TRUE)
    /\ UNCHANGED dep /\ Static

\* Found inside the call, before anything is sent, and nobody's fault but ours or
\* the caller's: no credential, no such provider, a body without what the call needs.
FailsInside(c) ==
    LET kind == req[c].kind
    IN  /\ req[c].at = IF OwnAPI(kind) THEN "unsent" ELSE "running"
        /\ \E code \in LocalCodes \ {"unimplemented"} :
             Ended(c, gatewayErr(IF Direct(kind) THEN Error(code, 0)
                                 ELSE viaBifrost(kind, [Answer EXCEPT !.typed = code])), "local", FALSE)
        /\ UNCHANGED dep /\ Static

\* The hop budget runs out, or the client hangs up.
ContextEnds(c, how) ==
    /\ req[c].at = "running"
    /\ \E e \in ContextError(req[c].kind, how) : Ended(c, gatewayErr(e), how, FALSE)
    /\ DepSees(req[c].kind, FALSE)
    /\ Static

Return(c) ==
    /\ req[c].at = "back"
    /\ Set(c, NoRequest)
    /\ UNCHANGED <<cb, dep, streak>> /\ Static

DelayPasses ==
    /\ \/ cb.state = "open" /\ ~cb.due /\ cb' = [cb EXCEPT !.due = TRUE] /\ UNCHANGED dep
       \/ dep.state = "open" /\ ~dep.due /\ dep' = [dep EXCEPT !.due = TRUE] /\ UNCHANGED cb
    /\ UNCHANGED <<req, streak>> /\ Static

Init ==
    /\ provider \in Providers
    /\ \E f \in Files :
         /\ timeoutsAccepted(f.file, f.backend)
         /\ conf = [all |-> parseTimeoutsFile(f.file),
                    own |-> fillCloudflareChatTimeouts(f.backend, provider = "cloudflare")]
    /\ cb = B!Fresh
    /\ dep = D!Closed
    /\ req = [c \in Callers |-> NoRequest]
    /\ streak = 0

KindsOf == IF provider = "switchyard" THEN {"chat"} ELSE Kinds

Next ==
    \/ \E c \in Callers :
         \/ FailLocally(c) \/ \E kind \in KindsOf, header \in Headers : Begin(c, kind, header)
         \/ Replied(c) \/ DepRefuses(c) \/ WriteFails(c) \/ FailsInside(c)
         \/ \E how \in {"late", "gone"} : ContextEnds(c, how)
         \/ Return(c)
    \/ DelayPasses

Spec == Init /\ [][Next]_vars

-----------------------------------------------------------------------------
(* Properties.                                                             *)

TypeOK ==
    /\ provider \in Providers
    /\ conf.all \in [Fields -> Nat] /\ conf.own \in [BackendFields -> Nat]
    /\ cb.state \in {"closed", "open", "half-open"} /\ Len(cb.window) <= Trip
    /\ dep.state \in {"closed", "open", "half-open"} /\ Len(dep.window) <= DepTrip
    /\ req \in [Callers -> [at : {"idle", "running", "refused", "unsent", "back"}, kind : Kinds, hop : Nat, marked : BOOLEAN,
                            why : {"none", "answered", "throttled", "refused", "unpaid", "fault",
                                   "late", "gone", "local", "breaker"},
                            http : 0 .. 599, after : BOOLEAN, blamed : BOOLEAN, wrote : 0 .. 1]]
    /\ streak \in 0 .. Trip

Back(c) == req[c].at = "back"

\* board.go, whichever of the layers above named the error: the breaker counts
\* every call the backend failed (no answer, a 5xx) and never a throttle, a
\* refusal, an exhausted credit or what failed inside the gateway.  Of a call
\* whose context ended it counts the one that ran past a budget the caller had
\* not cut short - and any other, marked or hung up on, only where the layers
\* lost what ended it and left an "unavailable", which its caller got as a 502
\* (client.go:913-926; against the comments at board.go:159 and 171).
BlameIsJust ==
    \A c \in Callers :
      Back(c) => LET q == req[c]
                 IN  /\ q.why = "fault" => q.blamed
                     /\ q.blamed => \/ q.why = "fault"
                                    \/ q.why = "late" /\ (q.http = 502 \/ ~q.marked)
                                    \/ q.why = "gone" /\ q.http = 502

\* The breaker opens only when each of the last Trip calls ended without an
\* answer from the backend, whoever made them and in whatever order they ended.
\* A call its caller cut short or left is among them (see BlameIsJust).
RefusalsAreEarned ==
    [][cb.state = "closed" /\ cb'.state = "open" => streak' = Trip]_vars

\* The caller's status says what happened: 429 for an upstream's throttle and
\* nothing else; a 4xx for a refused request; 503 when there is no use in trying
\* this backend now; 502 and 504 for its faults; and of what failed in the gateway
\* it is none of the backend's doing.  A Retry-After goes out only with an answer
\* that asks for patience.
StatusTellsTruth ==
    \A c \in Callers :
      Back(c) =>
        /\ req[c].after => req[c].http \in {429, 503}
        /\ CASE req[c].why = "answered"  -> req[c].http = 200
             [] req[c].why = "throttled" -> req[c].http = 429
             [] req[c].why = "refused"   -> Is4xx(req[c].http) /\ req[c].http # 429
             [] req[c].why \in {"unpaid", "breaker"} -> req[c].http = 503
             [] req[c].why = "fault"     -> req[c].http \in {502} \cup (IF provider = "switchyard" THEN {503} ELSE {})
             [] req[c].why = "late"      -> req[c].http \in {502, 504}
             [] req[c].why = "local"     -> req[c].http \notin {200, 429, 502, 504}
             [] OTHER -> TRUE

\* A request in flight has a budget within the configured bounds, and its
\* provider client waits for as long (up to the second it is counted in).
HopIsBounded ==
    \A c \in Callers :
      req[c].at = "running" =>
        /\ req[c].hop \in conf.all.min .. conf.all.max
        /\ req[c].hop <= 2 * ProviderSeconds(conf.all) + 1

\* Whoever is not marked as cut short by its caller had the whole budget the
\* config gives its kind, so its deadline may be held against the backend.
BlamedInFull ==
    \A c \in Callers :
      req[c].at = "running" /\ ~req[c].marked => req[c].hop >= configured(req[c].kind)

\* The deadline that ends a call is one both sides agreed to: within bounds,
\* and the whole of it when the backend is to answer for it.
DeadlinesAreFair == TypeOK /\ HopIsBounded /\ BlamedInFull
===============================================================================
