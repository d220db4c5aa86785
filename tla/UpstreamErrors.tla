---------------------------- MODULE UpstreamErrors ----------------------------
(***************************************************************************)
(* What becomes of an upstream's answer on its way to the caller: the      *)
(* domain error the router or a client makes of it (router/client.go,      *)
(* clients/cloudflare, clients/httpx, ratelimit), whether it counts        *)
(* against the backend (upstream/board.go), and the status and Retry-After *)
(* the caller is answered with (errors.go, rate_limit.go, server.go).      *)
(*                                                                         *)
(* A reply is what an upstream call came to.  how is "ok", "empty" (a 2xx  *)
(* without the answer), "status" (any other answer), "broken" (no answer), *)
(* "late" (the deadline ended it) or "gone" (the client hung up); status   *)
(* the HTTP status, 0 if there is none; cf where a Cloudflare throttle     *)
(* code stands in the body; money whether the message names a budget or    *)
(* credit limit; type the provider's error type; typed the domain code an  *)
(* inner layer already gave it; after whether Retry-After came along.      *)
(***************************************************************************)
EXTENDS Naturals

Answer == [how |-> "status", status |-> 0, cf |-> "none", money |-> FALSE, type |-> "none",
           typed |-> "none", after |-> FALSE]

\* What an upstream may answer: a status of its own, but for the 2xx and the
\* broken call.  Anthropic's error types name a reason not to serve, and its
\* throttle, a 429, has neither of them.
Reply ==
    {r \in [how : {"ok", "empty", "broken", "status"}, status : 0 .. 599, cf : {"none", "text", "field"},
            money : BOOLEAN, type : {"none", "billing_error", "overloaded_error"},
            typed : {"none"}, after : BOOLEAN] :
        /\ IF r.how = "status" THEN r.status >= 300 ELSE r.status = 0
        /\ r.status = 429 => r.type = "none"}

\* A domain error: its code, the upstream status it records, Retry-After.
Error(code, status) == [code |-> code, status |-> status, after |-> FALSE]
NoError == Error("none", 0)

Is4xx(status) == status >= 400 /\ status < 500

clientErrorCode(status) ==
    CASE status \in {401, 403} -> "unauthorized"
      [] status = 404          -> "not_found"
      [] status = 409          -> "conflict"
      [] OTHER                 -> "invalid"

\* The same for the clients that do not go through Bifrost.
StatusCode(status) ==
    CASE status = 429            -> "rate_limited"
      [] status \in {401, 403}   -> "unauthorized"
      [] status \in {404, 410}   -> "not_found"
      [] OTHER -> IF Is4xx(status) THEN "invalid" ELSE "unavailable"

-----------------------------------------------------------------------------
(* Rate limits.                                                            *)

\* Mutant: the codes are read in any text.
throttledAnywhere(r, cloudflare) == r.status = 429 \/ r.cf # "none"

\* A 429 or, from Cloudflare, one of its codes in its place in the body.
throttled(r, cloudflare) == r.status = 429 \/ (cloudflare /\ r.cf = "field")

Classify(r) == [Error("rate_limited", IF r.status = 0 THEN 429 ELSE r.status) EXCEPT !.after = r.after]

-----------------------------------------------------------------------------
(* Bifrost's errors.                                                       *)

billingRefusal(r) == r.status = 402 \/ (r.status \in {400, 403} /\ r.money)

refusalCode(r) ==
    IF r.typed # "none" THEN r.typed
    ELSE IF billingRefusal(r) THEN "not_ready" ELSE clientErrorCode(r.status)

bifrostErr(r, cloudflare) ==
    CASE throttled(r, cloudflare) -> Classify(r)
      [] Is4xx(r.status) /\ ~throttled(r, cloudflare) -> Error(refusalCode(r), r.status)
      [] OTHER -> Error(IF r.typed # "none" THEN r.typed ELSE "unavailable", r.status)

anthropicOutOfCredit(r) ==
    \/ r.status = 402 \/ r.type = "billing_error"
    \/ r.status = 400 /\ r.money

anthropicOverloadedStatus == 529

\* Anthropic cannot serve now: no credit, or overloaded.
anthropicUnavailable(r) ==
    anthropicOutOfCredit(r) \/ r.status = anthropicOverloadedStatus \/ r.type = "overloaded_error"

\* anthropicChatErr decides on these and on every 4xx but a throttle.
anthropicDecides(r) == anthropicUnavailable(r) \/ (Is4xx(r.status) /\ r.status # 429)

anthropicChatErr(r) ==
    Error(IF anthropicUnavailable(r) THEN "not_ready" ELSE clientErrorCode(r.status), r.status)

switchyardDecides(r) == Is4xx(r.status) /\ r.status # 429

chatBifrostErr(provider, r) ==
    CASE provider = "switchyard" /\ switchyardDecides(r) -> Error(clientErrorCode(r.status), r.status)
      [] provider = "anthropic" /\ anthropicDecides(r)   -> anthropicChatErr(r)
      [] OTHER -> bifrostErr(r, provider = "cloudflare")

-----------------------------------------------------------------------------
(* Cloudflare's own API.                                                   *)

upstreamError(r) ==
    IF throttled(r, TRUE) THEN Classify(r) ELSE Error(StatusCode(r.status), r.status)

\* An envelope that says it failed comes with a 200.
unwrapRunResult(r) ==
    IF r.cf = "field" THEN Classify([r EXCEPT !.status = 0]) ELSE Error("unavailable", 0)

-----------------------------------------------------------------------------
(* The gateway.                                                            *)

\* Mutant: the gateway gives its own code to what it wraps.
gatewayErrPlain(e) == [e EXCEPT !.code = "unavailable"]

\* gatewayErr, and the other wraps with CodeOr: the code of an inner layer stays.
gatewayErr(e) == e

\* Mutant: every error counts.
backendFaultAny(marked, e) == e.code # "timeout" \/ ~marked

\* backendFault: a 4xx is the backend answering, and a deadline the caller set
\* is the caller's.
backendFault(marked, e) ==
    \/ e.code = "unavailable" /\ ~Is4xx(e.status)
    \/ e.code = "timeout" /\ ~marked

HTTPStatus(code) ==
    CASE code = "none" -> 200
      [] code \in {"invalid", "failed_precondition"} -> 400
      [] code = "unauthorized" -> 401
      [] code = "not_found" -> 404
      [] code = "conflict" -> 409
      [] code = "timeout" -> 504
      [] code = "canceled" -> 499
      [] code = "not_ready" -> 503
      [] code = "rate_limited" -> 429
      [] code = "unimplemented" -> 501
      [] code = "internal" -> 500
      [] OTHER -> 502

\* writeUpstreamDialError; refused: the breaker did it, and says when to retry;
\* unreachable: Switchyard's address answered nothing.
dialStatus(e, refused, unreachable) ==
    IF (refused \/ unreachable) /\ e.code # "rate_limited" THEN 503 ELSE HTTPStatus(e.code)
===============================================================================
