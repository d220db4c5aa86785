------------------------------- MODULE Timeouts -------------------------------
(***************************************************************************)
(* The time budgets of requests (config/timeouts.go): what the timeouts    *)
(* block of a config file sets, and what a request gets of it.  A duration *)
(* is a number of half seconds, so that a fraction of a second shows.      *)
(***************************************************************************)
EXTENDS Naturals

CONSTANTS Absent, Bad       \* a value that is not there; one that is no positive duration

ASSUME TimeoutsAssumption == Absent \notin Nat /\ Bad \notin Nat /\ Absent # Bad

Positive(v) == v \notin {Absent, Bad} /\ v > 0

DefaultTimeouts ==
    [min |-> 10, max |-> 1800, chat |-> 240, thinking |-> 1200, vision |-> 600,
     embed |-> 30, speech |-> 360, idle |-> 600]

Fields == DOMAIN DefaultTimeouts

defaultTimeoutChatCF == 120

\* A backend's own budgets, 0 where it has none.
BackendFields == {"chat", "thinking", "vision", "idle"}

overlayDuration(raw, cur) == IF raw = Absent THEN cur ELSE raw

\* Whether a file's timeouts block is accepted, and what it then gives.
timeoutsAccepted(file, backend) ==
    /\ \A k \in Fields : file[k] = Absent \/ Positive(file[k])
    /\ \A k \in BackendFields : backend[k] = Absent \/ Positive(backend[k])
    /\ overlayDuration(file.min, DefaultTimeouts.min) <= overlayDuration(file.max, DefaultTimeouts.max)

parseTimeoutsFile(file) == [k \in Fields |-> overlayDuration(file[k], DefaultTimeouts[k])]

\* fillCloudflareChatTimeouts: the chat budget of a Cloudflare backend without one.
fillCloudflareChatTimeouts(backend, cloudflare) ==
    [k \in BackendFields |->
        IF k = "chat" /\ cloudflare THEN overlayDuration(backend[k], defaultTimeoutChatCF)
        ELSE overlayDuration(backend[k], 0)]

clamp(t, d) == IF d < t.min THEN t.min ELSE IF d > t.max THEN t.max ELSE d

firstPositive(a, b) == IF a > 0 THEN a ELSE b

\* The caller's header, if it is a duration, else the configured budget.
headerOr(t, header, fallback) == clamp(t, IF Positive(header) THEN header ELSE fallback)

\* The hop budget of each kind of request; backend is what
\* fillCloudflareChatTimeouts left of the backend's own budgets.
Resolve(t, backend, kind, header) ==
    headerOr(t, header, IF kind \in BackendFields THEN firstPositive(backend[kind], t[kind]) ELSE t[kind])

\* The network timeout of the provider clients, in whole seconds.
ProviderSeconds(t) == IF t.max \div 2 < 1 THEN 1 ELSE t.max \div 2
===============================================================================
