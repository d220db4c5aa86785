---------------------------- MODULE RequestsProofs ----------------------------
(***************************************************************************)
(* Proofs about Requests, for any callers, kinds of backend, timeouts      *)
(* blocks, headers, replies and trip counts.  An error is fair when its    *)
(* code fits what really happened; every end of a call is, and the rest    *)
(* follows from that: the blame, the status, and the run of unanswered     *)
(* calls that the breaker's window ends with.                              *)
(***************************************************************************)
EXTENDS Requests, TLAPS

Whys == {"none", "answered", "throttled", "refused", "unpaid", "fault",
         "late", "gone", "local", "breaker"}

Request == [at : {"idle", "running", "refused", "unsent", "back"}, kind : Kinds, hop : Nat, marked : BOOLEAN,
            why : Whys, http : 0 .. 599, after : BOOLEAN, blamed : BOOLEAN, wrote : 0 .. 1]

States == {"closed", "open", "half-open"}

GoodBoard(b) ==
    /\ b \in [state : States, window : Seq(BOOLEAN), due : BOOLEAN]
    /\ Len(b.window) <= Trip

GoodDep(b) ==
    /\ b \in [state : States, window : Seq(BOOLEAN), out : Int, due : BOOLEAN]
    /\ Len(b.window) <= DepTrip

Config == [all : [Fields -> Nat], own : [BackendFields -> Nat]]

\* A window's last k results are faults only if the run of unanswered calls is
\* at least k long: what makes the breaker's opening earned.
StreakCovers(b, run) ==
    b.state = "closed" =>
      \A k \in 0 .. Len(b.window) :
         (\A i \in Len(b.window) - k + 1 .. Len(b.window) : b.window[i] = TRUE) => k <= run

\* What is true of a request where it is.
InPlace(q) ==
    /\ q.at = "running" =>
         /\ q.hop \in conf.all.min .. conf.all.max
         /\ q.hop <= 2 * ProviderSeconds(conf.all) + 1
         /\ ~q.marked => q.hop >= configured(q.kind)
    /\ q.at = "back" =>
         /\ q.why = "fault" => q.blamed
         /\ q.blamed => \/ q.why = "fault"
                        \/ q.why = "late" /\ (q.http = 502 \/ ~q.marked)
                        \/ q.why = "gone" /\ q.http = 502
         /\ q.after => q.http \in {429, 503}
         /\ q.why = "answered" => q.http = 200
         /\ q.why = "throttled" => q.http = 429
         /\ q.why = "refused" => q.http \in {400, 401, 404, 409}
         /\ q.why \in {"unpaid", "breaker"} => q.http = 503
         /\ q.why = "fault" => q.http \in {502} \cup (IF provider = "switchyard" THEN {503} ELSE {})
         /\ q.why = "late" => q.http \in {502, 504}
         /\ q.why = "local" => q.http \notin {200, 429, 502, 504}

IInv ==
    /\ provider \in Providers
    /\ conf \in Config /\ conf.all.min <= conf.all.max
    /\ GoodBoard(cb) /\ GoodDep(dep)
    /\ req \in [Callers -> Request]
    /\ \A c \in Callers : InPlace(req[c])
    /\ streak \in 0 .. Trip
    /\ StreakCovers(cb, streak)

-----------------------------------------------------------------------------
(* Errors.                                                                 *)

Codes == {"none", "invalid", "failed_precondition", "unauthorized", "not_found", "conflict", "timeout",
          "canceled", "not_ready", "rate_limited", "unavailable", "internal"}

Refusals == {"invalid", "unauthorized", "not_found", "conflict"}

\* The code of an error fits what happened.
Fair(e, why) ==
    /\ e.code \in Codes /\ e.after \in BOOLEAN
    /\ e.after => e.code = "rate_limited"
    /\ why = "fault" <=> why # "late" /\ why # "gone" /\ e.code = "unavailable" /\ ~Is4xx(e.status)
    /\ e.code = "timeout" => why = "late"
    /\ why = "answered" => e.code = "none"
    /\ why = "throttled" => e.code = "rate_limited"
    /\ why = "refused" => e.code \in Refusals
    /\ why = "unpaid" => e.code = "not_ready"
    /\ why = "late" => e.code \in {"unavailable", "timeout"}
    /\ why = "local" => e.code \in LocalCodes /\ e.code # "unimplemented"

Sees(kind, r) == r.how = "empty" /\ r.cf # "none" => Direct(kind)

\* A 4xx that is no throttle and no bill is refused with the code of its status.
LEMMA RefusalCodes ==
  ASSUME NEW s
  PROVE  clientErrorCode(s) \in Refusals
  BY DEF clientErrorCode, Refusals

\* Bifrost's errors are fair, for chat and for the rest.
LEMMA BifrostIsFair ==
  ASSUME NEW r \in Reply, r.how = "status", NEW kind \in Kinds,
         ~Direct(kind), ~Plugin(kind)
  PROVE  Fair(viaBifrost(kind, r), Why(kind, r))
  <1> DEFINE cloudflare == provider = "cloudflare"
  <1>0. /\ r.status \in 300 .. 599 /\ r.typed = "none" /\ r.after \in BOOLEAN /\ r.cf \in {"none", "text", "field"}
        /\ r.status = 429 => r.type = "none"
    BY DEF Reply
  <1>1. clientErrorCode(r.status) \in Refusals
    BY RefusalCodes
  <1>2. CASE throttled(r, cloudflare)
    <2>1. Why(kind, r) = "throttled"
      BY <1>2 DEF Why, throttled
    <2>2. viaBifrost(kind, r) = Classify(r)
      BY <1>0, <1>2 DEF viaBifrost, chatBifrostErr, bifrostErr, throttled, switchyardDecides, anthropicDecides,
         anthropicUnavailable, anthropicOutOfCredit, anthropicOverloadedStatus, Is4xx
    <2>3. Classify(r).code = "rate_limited" /\ Classify(r).after \in BOOLEAN
      BY <1>0 DEF Classify, Error
    <2> QED BY <2>1, <2>2, <2>3 DEF Fair, Codes
  <1>3. CASE ~throttled(r, cloudflare)
    <2>0. r.status # 429
      BY <1>3 DEF throttled
    <2>1. CASE kind \in ChatKinds /\ provider = "anthropic" /\ anthropicDecides(r)
      <3>1. viaBifrost(kind, r) = anthropicChatErr(r)
        BY <2>1 DEF viaBifrost, chatBifrostErr
      <3>2. Why(kind, r) = IF anthropicUnavailable(r) THEN "unpaid" ELSE "refused"
        BY <1>3, <2>1 DEF Why, throttled, Direct, Plugin, anthropicDecides
      <3> QED BY <1>1, <2>1, <3>1, <3>2 DEF anthropicChatErr, Fair, Error, Codes, Refusals
    <2>2. CASE kind \in ChatKinds /\ provider = "switchyard" /\ switchyardDecides(r)
      <3>1. viaBifrost(kind, r) = Error(clientErrorCode(r.status), r.status)
        BY <2>2 DEF viaBifrost, chatBifrostErr
      <3>2. Why(kind, r) = "refused"
        BY <1>3, <2>2 DEF Why, throttled, switchyardDecides
      <3> QED BY <1>1, <3>1, <3>2 DEF Fair, Error, Codes, Refusals
    <2>3. CASE ~(kind \in ChatKinds /\ provider = "anthropic" /\ anthropicDecides(r))
               /\ ~(kind \in ChatKinds /\ provider = "switchyard" /\ switchyardDecides(r))
      <3>1. viaBifrost(kind, r) = bifrostErr(r, cloudflare)
        BY <2>3 DEF viaBifrost, chatBifrostErr
      <3>2. CASE Is4xx(r.status)
        <4>1. viaBifrost(kind, r) = Error(refusalCode(r), r.status)
          BY <1>3, <3>1, <3>2 DEF bifrostErr
        <4>2. Why(kind, r) = IF billingRefusal(r) THEN "unpaid" ELSE "refused"
          BY <1>3, <2>0, <2>3, <3>2 DEF Why, throttled, switchyardDecides, anthropicDecides
        <4> QED BY <1>0, <1>1, <4>1, <4>2, <3>2 DEF refusalCode, Fair, Error, Codes, Refusals
      <3>3. CASE ~Is4xx(r.status)
        <4>1. viaBifrost(kind, r) = Error("unavailable", r.status)
          BY <1>0, <1>3, <3>1, <3>3 DEF bifrostErr
        <4>2. ~billingRefusal(r)
          BY <3>3 DEF billingRefusal, Is4xx
        <4>3. Why(kind, r) = "fault"
          BY <1>3, <2>3, <3>3, <4>2 DEF Why, throttled, anthropicDecides
        <4> QED BY <3>3, <4>1, <4>3 DEF Fair, Error, Codes
      <3> QED BY <3>2, <3>3
    <2> QED BY <2>1, <2>2, <2>3
  <1> QED BY <1>2, <1>3

\* Whatever the upstream answers, the error made of it is fair.
LEMMA ReplyIsFair ==
  ASSUME NEW r \in Reply, NEW kind \in Kinds, Sees(kind, r)
  PROVE  Fair(ReplyError(kind, r), Why(kind, r))
  <1>0. /\ r.typed = "none" /\ r.after \in BOOLEAN /\ r.cf \in {"none", "text", "field"}
        /\ r.how \in {"ok", "empty", "broken", "status"}
        /\ IF r.how = "status" THEN r.status \in 300 .. 599 ELSE r.status = 0
    BY DEF Reply
  <1>1. CASE r.how = "ok"
    BY <1>1 DEF ReplyError, Why, Fair, NoError, Error, Codes
  <1>2. CASE r.how = "broken"
    <2>1. ReplyError(kind, r) = Error("unavailable", 0)
      BY <1>2 DEF ReplyError
    <2>2. Why(kind, r) = "fault"
      BY <1>2 DEF Why
    <2> QED BY <2>1, <2>2 DEF Fair, Error, Codes, Is4xx
  <1>3. CASE r.how = "empty" /\ Direct(kind)
    <2>1. provider = "cloudflare" /\ r.status = 0
      BY <1>0, <1>3 DEF Direct
    <2>2. CASE r.cf = "field"
      <3>1. Why(kind, r) = "throttled"
        BY <1>3, <2>1, <2>2 DEF Why
      <3>2. ReplyError(kind, r).code = "rate_limited" /\ ReplyError(kind, r).after \in BOOLEAN
        BY <1>0, <1>3, <2>2 DEF ReplyError, unwrapRunResult, Classify, Error, Reply
      <3> QED BY <3>1, <3>2 DEF Fair, Codes
    <2>3. CASE r.cf # "field"
      <3>1. Why(kind, r) = "fault"
        BY <1>3, <2>1, <2>3 DEF Why
      <3>2. ReplyError(kind, r) = Error("unavailable", 0)
        BY <1>3, <2>3 DEF ReplyError, unwrapRunResult
      <3> QED BY <3>1, <3>2 DEF Fair, Error, Codes, Is4xx
    <2> QED BY <2>2, <2>3
  <1>4. CASE r.how = "empty" /\ ~Direct(kind)
    <2>1. Why(kind, r) = "fault"
      BY <1>0, <1>4 DEF Why, Sees
    <2>2. ReplyError(kind, r) = Error("unavailable", 0)
      BY <1>4 DEF ReplyError
    <2> QED BY <2>1, <2>2 DEF Fair, Error, Codes, Is4xx
  <1>5. CASE r.how = "status" /\ (Direct(kind) \/ Plugin(kind))
    <2>1. provider = "cloudflare" /\ ~(Direct(kind) /\ Plugin(kind))
      BY <1>5 DEF Direct, Plugin
    <2>2. CASE throttled(r, TRUE)
      <3>1. Why(kind, r) = "throttled"
        BY <1>5, <2>1, <2>2 DEF Why, throttled
      <3>2. upstreamError(r).code = "rate_limited" /\ upstreamError(r).after \in BOOLEAN
        BY <1>0, <2>2 DEF upstreamError, Classify, Error
      <3>3. ReplyError(kind, r) = upstreamError(r)
        BY <1>5, <2>1, <3>2 DEF ReplyError
      <3> QED BY <3>1, <3>2, <3>3 DEF Fair, Codes
    <2>3. CASE ~throttled(r, TRUE)
      <3>0. r.status # 429
        BY <2>3 DEF throttled
      <3>1. Why(kind, r) = IF Is4xx(r.status) THEN "refused" ELSE "fault"
        BY <1>5, <2>1, <2>3 DEF Why, throttled
      <3>2. upstreamError(r) = Error(StatusCode(r.status), r.status)
        BY <2>3 DEF upstreamError
      <3>3. StatusCode(r.status) \in IF Is4xx(r.status) THEN Refusals ELSE {"unavailable"}
        BY <1>0, <1>5, <3>0 DEF StatusCode, Is4xx, Refusals
      <3>4. CASE Direct(kind)
        <4>1. ReplyError(kind, r) = Error(StatusCode(r.status), r.status)
          BY <1>5, <3>2, <3>4 DEF ReplyError
        <4> QED BY <3>1, <3>3, <4>1 DEF Fair, Error, Codes, Refusals
      <3>5. CASE Plugin(kind)
        <4> DEFINE bare == [r EXCEPT !.status = 0, !.cf = "none", !.typed = StatusCode(r.status)]
        <4>1. upstreamError(r).code = StatusCode(r.status) /\ StatusCode(r.status) \notin {"rate_limited", "none"}
          BY <3>2, <3>3 DEF Error, Refusals
        <4>2. ReplyError(kind, r) = bifrostErr(bare, TRUE)
          BY <1>5, <2>1, <3>5, <4>1 DEF ReplyError
        <4>3. bare.status = 0 /\ bare.cf = "none" /\ bare.typed = StatusCode(r.status)
          BY DEF Reply
        <4> HIDE DEF bare
        <4>4. ReplyError(kind, r) = Error(StatusCode(r.status), 0)
          BY <4>1, <4>2, <4>3 DEF bifrostErr, throttled, Is4xx
        <4> QED BY <3>1, <3>3, <4>4 DEF Fair, Error, Codes, Refusals, Is4xx
      <3> QED BY <1>5, <3>4, <3>5
    <2> QED BY <2>2, <2>3
  <1>6. CASE r.how = "status" /\ ~Direct(kind) /\ ~Plugin(kind)
    <2>1. ReplyError(kind, r) = viaBifrost(kind, r)
      BY <1>6 DEF ReplyError
    <2> QED BY <1>6, <2>1, BifrostIsFair
  <1> QED BY <1>0, <1>1, <1>2, <1>3, <1>4, <1>5, <1>6

\* What Bifrost makes of an answer without a status, or of a gateway timeout.
LEMMA PlainBifrost ==
  ASSUME NEW kind, NEW r, r.status \in {0, 504}, r.cf = "none", r.type = "none"
  PROVE  viaBifrost(kind, r) = Error(IF r.typed # "none" THEN r.typed ELSE "unavailable", r.status)
  BY DEF viaBifrost, chatBifrostErr, bifrostErr, throttled, switchyardDecides, anthropicDecides,
     anthropicUnavailable, anthropicOutOfCredit, anthropicOverloadedStatus, Is4xx

\* The end of the context is told fairly.
LEMMA ContextIsFair ==
  ASSUME NEW kind \in Kinds, NEW how \in {"late", "gone"}, NEW e \in ContextError(kind, how)
  PROVE  Fair(e, how)
  <1> DEFINE first == IF how = "late" THEN "timeout" ELSE "canceled"
             status == IF how = "late" THEN 504 ELSE 499
  <1>0. ASSUME NEW code \in {first, "unavailable"} PROVE Fair(Error(code, 0), how)
    <2>1. CASE how = "late"
      BY <2>1 DEF Fair, Error, Codes
    <2>2. CASE how = "gone"
      BY <2>2 DEF Fair, Error, Codes
    <2> QED BY <2>1, <2>2
  <1>1. CASE Direct(kind)
    <2>1. e \in {Error(first, 0), Error("unavailable", 0)}
      BY <1>1 DEF ContextError
    <2> QED BY <1>0, <2>1
  <1>2. CASE ~Direct(kind) /\ Plugin(kind)
    <2>0. ContextError(kind, how) = {bifrostErr([Answer EXCEPT !.how = how, !.typed = d.code], TRUE) :
                                       d \in {Error(first, 0), Error("unavailable", 0)}}
      BY <1>2 DEF ContextError
    <2>a. PICK d \in {Error(first, 0), Error("unavailable", 0)} :
            e = bifrostErr([Answer EXCEPT !.how = how, !.typed = d.code], TRUE)
      BY <2>0
    <2> DEFINE code == d.code
    <2>1. code \in {first, "unavailable"}
      BY DEF Error
    <2> DEFINE r == [Answer EXCEPT !.how = how, !.typed = code]
    <2>2. r.status = 0 /\ r.cf = "none" /\ r.typed = code /\ code # "none"
      BY <2>1 DEF Answer
    <2>3. e = bifrostErr(r, TRUE)
      BY <2>a
    <2> HIDE DEF r, code
    <2>4. e = Error(code, 0)
      BY <2>2, <2>3 DEF bifrostErr, throttled, Is4xx
    <2> QED BY <1>0, <2>1, <2>4
  <1>3. CASE ~Direct(kind) /\ ~Plugin(kind)
    <2>1. PICK s \in {0, status} : e = viaBifrost(kind, [Answer EXCEPT !.how = how, !.status = s])
      BY <1>3 DEF ContextError
    <2> DEFINE r == [Answer EXCEPT !.how = how, !.status = s]
    <2>2. r.status = s /\ r.cf = "none" /\ r.type = "none" /\ r.typed = "none" /\ r.money = FALSE
      BY DEF Answer
    <2>3. e = viaBifrost(kind, r)
      BY <2>1
    <2> HIDE DEF r
    <2>4. CASE s # 499
      <3>1. e = Error("unavailable", s)
        BY <2>1, <2>2, <2>3, <2>4, PlainBifrost
      <3> QED BY <3>1 DEF Fair, Error, Codes
    <2>5. CASE s = 499
      <3>1. how = "gone"
        BY <2>1, <2>5
      <3>2. e = Error("invalid", 499)
        BY <2>2, <2>3, <2>5 DEF viaBifrost, chatBifrostErr, bifrostErr, throttled, switchyardDecides, anthropicDecides,
           anthropicChatErr, anthropicUnavailable, anthropicOutOfCredit, anthropicOverloadedStatus, Is4xx,
           refusalCode, billingRefusal, clientErrorCode
      <3> QED BY <3>1, <3>2 DEF Fair, Error, Codes
    <2> QED BY <2>4, <2>5
  <1> QED BY <1>1, <1>2, <1>3

-----------------------------------------------------------------------------
(* The breakers.                                                           *)

LEMMA BoardKept ==
  ASSUME RequestsAssumption, NEW w \in Seq(BOOLEAN), Len(w) <= Trip, NEW fault \in BOOLEAN
  PROVE  /\ B!Kept(w, fault) \in Seq(BOOLEAN)
         /\ Len(B!Kept(w, fault)) \in 1 .. Trip
         /\ B!Kept(w, fault)[Len(B!Kept(w, fault))] = fault
         /\ Len(B!Kept(w, fault)) <= Len(w) + 1
         /\ \A i \in 1 .. Len(B!Kept(w, fault)) - 1 :
              /\ i + 1 - (Len(B!Kept(w, fault)) - Len(w)) \in 1 .. Len(w)
              /\ B!Kept(w, fault)[i] = w[i + 1 - (Len(B!Kept(w, fault)) - Len(w))]
  <1> DEFINE v == Append(w, fault)
             u == B!Kept(w, fault)
  <1>1. /\ v \in Seq(BOOLEAN) /\ Len(v) = Len(w) + 1 /\ v[Len(w) + 1] = fault /\ Len(w) \in Nat
        /\ \A i \in 1 .. Len(w) : v[i] = w[i]
    OBVIOUS
  <1>2. CASE Len(v) > Trip
    <2>1. Tail(v) \in Seq(BOOLEAN) /\ Len(Tail(v)) = Len(w) /\ Len(w) = Trip
      BY <1>1, <1>2 DEF RequestsAssumption
    <2>2. \A i \in 1 .. Trip : Tail(v)[i] = v[i + 1]
      BY <1>1, <2>1 DEF RequestsAssumption
    <2>3. u = Tail(v)
      BY <1>2 DEF B!Kept
    <2> HIDE DEF u, v
    <2> QED BY <1>1, <2>1, <2>2, <2>3 DEF u, RequestsAssumption
  <1>3. CASE ~(Len(v) > Trip)
    <2>1. u = v
      BY <1>3 DEF B!Kept
    <2> HIDE DEF u, v
    <2> QED BY <1>1, <1>3, <2>1 DEF u, RequestsAssumption
  <1> QED BY <1>2, <1>3

LEMMA BoardNew ==
  ASSUME RequestsAssumption, NEW run \in Nat
  PROVE  /\ GoodBoard(B!Fresh) /\ StreakCovers(B!Fresh, run)
         /\ GoodBoard(B!HalfOpen) /\ StreakCovers(B!HalfOpen, run)
         /\ GoodBoard(B!Open) /\ StreakCovers(B!Open, run)
         /\ B!Fresh.state = "closed"
  <1>1. <<>> \in Seq(BOOLEAN) /\ Len(<<>>) = 0
    OBVIOUS
  <1> QED BY <1>1 DEF B!Fresh, B!HalfOpen, B!Open, GoodBoard, States, StreakCovers, RequestsAssumption

\* A result that counts makes the run longer, any other ends it; and a closed
\* breaker opens only when the run has reached the trip count.
LEMMA BoardRecords ==
  ASSUME RequestsAssumption, NEW b, GoodBoard(b), NEW fault \in BOOLEAN,
         NEW run \in 0 .. Trip, NEW next \in 0 .. Trip, StreakCovers(b, run),
         fault => next = IF run < Trip THEN run + 1 ELSE run
  PROVE  /\ GoodBoard(B!Recorded(b, fault))
         /\ StreakCovers(B!Recorded(b, fault), next)
         /\ b.state = "closed" /\ B!Recorded(b, fault).state = "open" => next = Trip
  <1> DEFINE w == b.window
             u == B!Kept(w, fault)
             full == Len(u) = Trip /\ \A i \in DOMAIN u : u[i]
             kept == [b EXCEPT !.window = u]
  <1>0. b \in [state : States, window : Seq(BOOLEAN), due : BOOLEAN] /\ w \in Seq(BOOLEAN) /\ Len(w) \in Nat /\ Len(w) <= Trip
    BY DEF GoodBoard
  <1>1. /\ u \in Seq(BOOLEAN) /\ Len(u) \in 1 .. Trip
        /\ u[Len(u)] = fault
        /\ Len(u) <= Len(w) + 1
        /\ \A i \in 1 .. Len(u) - 1 : /\ i + 1 - (Len(u) - Len(w)) \in 1 .. Len(w)
                                     /\ u[i] = w[i + 1 - (Len(u) - Len(w))]
    <2> HIDE DEF w
    <2> QED BY ONLY RequestsAssumption, <1>0, fault \in BOOLEAN, BoardKept
  <1> HIDE DEF w, u
  <1>d. DOMAIN u = 1 .. Len(u)
    BY <1>1
  <1>2. kept \in [state : States, window : Seq(BOOLEAN), due : BOOLEAN] /\ kept.window = u /\ kept.state = b.state
    BY <1>0, <1>1
  <1>t. Trip \in Nat /\ Trip > 0
    BY DEF RequestsAssumption
  <1>3. ASSUME b.state = "closed", NEW k \in 0 .. Len(u), \A i \in Len(u) - k + 1 .. Len(u) : u[i] = TRUE
        PROVE  k <= next
    <2>1. CASE k = 0
      BY <2>1, <1>t
    <2>2. CASE k > 0
      <3>0. Len(w) \in Nat /\ Len(u) \in Nat /\ k \in Nat /\ Len(u) <= Len(w) + 1 /\ k <= Len(u)
        BY <1>0, <1>1
      <3>1. fault
        BY <1>1, <1>3, <2>2, <3>0, SMTT(30)
      <3>2. k - 1 \in 0 .. Len(w)
        BY <2>2, <3>0
      <3>3. ASSUME NEW j \in Len(w) - (k - 1) + 1 .. Len(w) PROVE w[j] = TRUE
        <4> DEFINE i == j - 1 + (Len(u) - Len(w))
        <4>1. i \in 1 .. Len(u) - 1 /\ i \in Len(u) - k + 1 .. Len(u)
          BY <2>2, <3>0
        <4>2. i + 1 - (Len(u) - Len(w)) = j
          BY <3>0
        <4> HIDE DEF i
        <4> QED BY <1>1, <1>3, <4>1, <4>2
      <3>4. k - 1 <= run
        BY <1>3, <3>2, <3>3 DEF StreakCovers, w
      <3> QED BY <1>t, <1>1, <2>2, <3>0, <3>1, <3>4
    <2> QED BY <2>1, <2>2
  <1>4. CASE b.state = "closed" /\ full
    <2>1. B!Recorded(b, fault) = B!Open
      BY <1>4 DEF B!Recorded, u, w
    <2>2. \A i \in 1 .. Trip : u[i] = TRUE
      BY <1>1, <1>d, <1>4
    <2>a. Len(u) \in 0 .. Len(u) /\ Len(u) = Trip /\ Len(u) - Len(u) + 1 = 1
      BY <1>1, <1>4, <1>t
    <2>b. \A i \in Len(u) - Len(u) + 1 .. Len(u) : u[i] = TRUE
      BY <2>2, <2>a
    <2>3. Trip <= next
      BY <1>3, <1>4, <2>a, <2>b
    <2>4. next \in Nat /\ next = Trip
      BY <1>t, <2>3
    <2> QED BY <2>1, <2>4, BoardNew
  <1>5. CASE b.state = "closed" /\ ~full
    <2>1. B!Recorded(b, fault) = kept
      BY <1>5 DEF B!Recorded, u, w
    <2> HIDE DEF kept
    <2>2. StreakCovers(kept, next)
      BY <1>2, <1>3, <1>5 DEF StreakCovers
    <2> QED BY <1>1, <1>2, <1>5, <2>1, <2>2 DEF GoodBoard
  <1>6. CASE b.state = "half-open"
    <2>1. B!Recorded(b, fault) \in {B!Open, B!Fresh}
      BY <1>6 DEF B!Recorded
    <2>2. next \in Nat
      OBVIOUS
    <2> QED BY <1>6, <2>1, <2>2, BoardNew
  <1>7. CASE b.state \notin {"closed", "half-open"}
    <2>1. B!Recorded(b, fault) = b
      BY <1>7 DEF B!Recorded
    <2> QED BY <1>7, <2>1 DEF StreakCovers
  <1> QED BY <1>4, <1>5, <1>6, <1>7

LEMMA DepNew ==
  ASSUME RequestsAssumption
  PROVE  GoodDep(D!Closed) /\ GoodDep(D!Opened) /\ GoodDep([D!HalfOpened EXCEPT !.out = 1])
  <1> DEFINE Type == [state : States, window : Seq(BOOLEAN), out : Int, due : BOOLEAN]
             half == [D!HalfOpened EXCEPT !.out = 1]
  <1>1. <<>> \in Seq(BOOLEAN) /\ Len(<<>>) = 0 /\ DepTrip \in Nat
    BY DEF RequestsAssumption
  <1>2. D!Closed \in Type /\ D!Closed.window = <<>>
    BY <1>1 DEF D!Closed, States
  <1>3. D!Opened \in Type /\ D!Opened.window = <<>>
    BY <1>2 DEF D!Opened, States
  <1>4. D!HalfOpened \in Type /\ D!HalfOpened.window = <<>>
    BY <1>2 DEF D!HalfOpened, States
  <1>5. half \in Type /\ half.window = <<>>
    BY <1>4
  <1> HIDE DEF half
  <1>6. GoodDep(half)
    BY <1>1, <1>5 DEF GoodDep
  <1> QED BY <1>1, <1>2, <1>3, <1>6 DEF GoodDep, half

LEMMA DepRecords ==
  ASSUME RequestsAssumption, NEW b, GoodDep(b), NEW fault \in BOOLEAN
  PROVE  GoodDep(D!Settled(b, fault))
  <1> DEFINE w == b.window
             v == Append(w, fault)
             u == D!Latest(w, fault)
             less == b.out - 1
             kept == [b EXCEPT !.window = u]
             tried == [b EXCEPT !.window = u, !.out = less]
  <1>0. /\ b \in [state : States, window : Seq(BOOLEAN), out : Int, due : BOOLEAN]
        /\ w \in Seq(BOOLEAN) /\ Len(w) \in Nat /\ Len(w) <= DepTrip /\ less \in Int
    BY DEF GoodDep
  <1>1. u \in Seq(BOOLEAN) /\ Len(u) <= DepTrip
    <2> HIDE DEF w
    <2>1. v \in Seq(BOOLEAN) /\ Len(v) = Len(w) + 1
      BY <1>0
    <2>2. Len(v) > DepTrip => Tail(v) \in Seq(BOOLEAN) /\ Len(Tail(v)) = Len(w)
      BY <1>0, <2>1 DEF RequestsAssumption
    <2>3. u = IF Len(v) > DepTrip THEN Tail(v) ELSE v
      BY DEF D!Latest
    <2>4. DepTrip \in Nat
      BY DEF RequestsAssumption
    <2> HIDE DEF u, v
    <2>5. CASE Len(v) > DepTrip
      BY <1>0, <2>2, <2>3, <2>5
    <2>6. CASE ~(Len(v) > DepTrip)
      <3>1. u = v
        BY <2>3, <2>6
      <3>2. Len(v) <= DepTrip
        BY <1>0, <2>1, <2>4, <2>6
      <3> QED BY <2>1, <3>1, <3>2
    <2> QED BY <2>5, <2>6
  <1> HIDE DEF u, w, less
  <1>2. GoodDep(kept) /\ GoodDep(tried)
    BY <1>0, <1>1 DEF GoodDep
  <1>3. GoodDep(D!Closed) /\ GoodDep(D!Opened)
    BY DepNew
  <1> HIDE DEF kept, tried
  <1>4. D!Settled(b, fault) \in {b, D!Opened, D!Closed, kept, tried}
    <2>1. CASE b.state = "closed"
      BY <2>1 DEF D!Settled, u, w, kept
    <2>2. CASE b.state = "half-open"
      BY <2>2 DEF D!Settled, u, w, less, tried
    <2>3. CASE b.state \notin {"closed", "half-open"}
      BY <2>3 DEF D!Settled
    <2> QED BY <2>1, <2>2, <2>3
  <1> QED BY <1>2, <1>3, <1>4

LEMMA DepPermits ==
  ASSUME RequestsAssumption, NEW b, GoodDep(b), NEW next \in D!Permitted(b)
  PROVE  GoodDep(next)
  <1> DEFINE more == b.out + 1
             up == [b EXCEPT !.out = more]
             half == [D!HalfOpened EXCEPT !.out = 1]
  <1>0. b \in [state : States, window : Seq(BOOLEAN), out : Int, due : BOOLEAN] /\ more \in Int
    BY DEF GoodDep
  <1> HIDE DEF more
  <1>1. GoodDep(up)
    BY <1>0 DEF GoodDep
  <1>2. GoodDep(half)
    BY DepNew
  <1> HIDE DEF up, half
  <1>3. next \in {b, up, half}
    BY DEF D!Permitted, up, more, half
  <1> QED BY <1>1, <1>2, <1>3
-----------------------------------------------------------------------------
(* Budgets.                                                                *)

LEMMA FieldsAre ==
  /\ Fields = {"min", "max", "chat", "thinking", "vision", "embed", "speech", "idle"}
  /\ DefaultTimeouts \in [Fields -> Nat]
  /\ BackendFields \subseteq Fields
  BY DEF Fields, DefaultTimeouts, BackendFields

LEMMA ClampIsBounded ==
  ASSUME NEW t \in [Fields -> Nat], t.min <= t.max, NEW d \in Nat
  PROVE  clamp(t, d) \in t.min .. t.max /\ clamp(t, d) \in Nat
  <1>1. t.min \in Nat /\ t.max \in Nat
    BY FieldsAre
  <1> QED BY <1>1 DEF clamp

LEMMA ResolveIsBounded ==
  ASSUME TimeoutsAssumption, conf \in Config, conf.all.min <= conf.all.max,
         NEW kind \in Kinds, NEW header \in Nat \cup {Absent, Bad}
  PROVE  /\ Resolve(conf.all, conf.own, BudgetOf(kind), header) \in conf.all.min .. conf.all.max
         /\ Resolve(conf.all, conf.own, BudgetOf(kind), header) \in Nat
  <1> DEFINE k == BudgetOf(kind)
             fallback == IF k \in BackendFields THEN firstPositive(conf.own[k], conf.all[k]) ELSE conf.all[k]
             d == IF Positive(header) THEN header ELSE fallback
  <1>1. conf.all \in [Fields -> Nat] /\ conf.own \in [BackendFields -> Nat]
    BY DEF Config
  <1>2. k \in Fields
    BY FieldsAre DEF BudgetOf, Kinds
  <1>3. fallback \in Nat
    BY <1>1, <1>2 DEF firstPositive
  <1>4. d \in Nat
    BY <1>3 DEF Positive
  <1>5. Resolve(conf.all, conf.own, BudgetOf(kind), header) = clamp(conf.all, d)
    BY DEF Resolve, headerOr
  <1> HIDE DEF d
  <1> QED BY <1>1, <1>4, <1>5, ClampIsBounded

\* A hop budget is within the configured bounds, and so is the budget it is
\* compared with.
LEMMA HopIsGood ==
  ASSUME TimeoutsAssumption, conf \in Config, conf.all.min <= conf.all.max,
         NEW kind \in Kinds, NEW header \in Nat \cup {Absent, Bad}
  PROVE  /\ hopBudget(kind, header) \in Nat
         /\ hopBudget(kind, header) \in conf.all.min .. conf.all.max
         /\ hopBudget(kind, header) <= 2 * ProviderSeconds(conf.all) + 1
         /\ configured(kind) \in Nat
  <1> DEFINE hop == hopBudget(kind, header)
             max == conf.all.max
  <1>1. conf.all.min \in Nat /\ max \in Nat
    BY FieldsAre DEF Config
  <1>2. hop \in conf.all.min .. max
    BY <1>1, ResolveIsBounded DEF hopBudget
  <1>3. configured(kind) \in Nat
    BY <1>1, ResolveIsBounded DEF configured
  <1>4. ProviderSeconds(conf.all) = IF max \div 2 < 1 THEN 1 ELSE max \div 2
    BY DEF ProviderSeconds
  <1> HIDE DEF hop, max
  <1>5. max <= 2 * ProviderSeconds(conf.all) + 1 /\ ProviderSeconds(conf.all) \in Nat
    BY <1>1, <1>4
  <1> QED BY <1>1, <1>2, <1>3, <1>5 DEF hop, max

\* What a load accepts is a table of durations with min at most max.
LEMMA LoadedIsConfig ==
  ASSUME TimeoutsAssumption, RequestsAssumption, Init
  PROVE  conf \in Config /\ conf.all.min <= conf.all.max
  <1>1. PICK f \in Files :
          /\ timeoutsAccepted(f.file, f.backend)
          /\ conf = [all |-> parseTimeoutsFile(f.file),
                     own |-> fillCloudflareChatTimeouts(f.backend, provider = "cloudflare")]
    BY DEF Init
  <1>2. f.file \in [Fields -> Nat \cup {Absent, Bad}] /\ f.backend \in [BackendFields -> Nat \cup {Absent, Bad}]
    BY DEF RequestsAssumption
  <1>3. \A k \in Fields : f.file[k] \in Nat \cup {Absent}
    BY <1>1, <1>2 DEF timeoutsAccepted, Positive
  <1>4. \A k \in BackendFields : f.backend[k] \in Nat \cup {Absent}
    BY <1>1, <1>2 DEF timeoutsAccepted, Positive
  <1>5. parseTimeoutsFile(f.file) \in [Fields -> Nat]
    BY <1>3, FieldsAre DEF parseTimeoutsFile, overlayDuration
  <1>6. fillCloudflareChatTimeouts(f.backend, provider = "cloudflare") \in [BackendFields -> Nat]
    <2>1. \A k \in BackendFields : overlayDuration(f.backend[k], 0) \in Nat
                                   /\ overlayDuration(f.backend[k], defaultTimeoutChatCF) \in Nat
      BY <1>4 DEF overlayDuration, defaultTimeoutChatCF
    <2> QED BY <2>1 DEF fillCloudflareChatTimeouts
  <1>7. parseTimeoutsFile(f.file).min = overlayDuration(f.file.min, DefaultTimeouts.min)
        /\ parseTimeoutsFile(f.file).max = overlayDuration(f.file.max, DefaultTimeouts.max)
    BY FieldsAre DEF parseTimeoutsFile
  <1> QED BY <1>1, <1>5, <1>6, <1>7 DEF Config, timeoutsAccepted

-----------------------------------------------------------------------------
(* The steps.                                                              *)

LEMMA InitIInv ==
  ASSUME TimeoutsAssumption, RequestsAssumption, Init
  PROVE  IInv
  <1>1. conf \in Config /\ conf.all.min <= conf.all.max
    BY LoadedIsConfig
  <1>2. GoodBoard(cb) /\ StreakCovers(cb, streak)
    BY BoardNew DEF Init
  <1>3. GoodDep(dep)
    BY DepNew DEF Init
  <1>4. NoRequest \in Request /\ InPlace(NoRequest)
    BY DEF NoRequest, Request, Kinds, Whys, InPlace
  <1>5. req \in [Callers -> Request] /\ \A c \in Callers : InPlace(req[c])
    BY <1>4 DEF Init
  <1>6. streak \in 0 .. Trip /\ provider \in Providers
    BY DEF Init, RequestsAssumption
  <1> QED BY <1>1, <1>2, <1>3, <1>5, <1>6 DEF IInv

Earned == cb.state = "closed" /\ cb'.state = "open" => streak' = Trip

\* A step replaces one request, and leaves the configuration alone.
LEMMA SetKeeps ==
  ASSUME IInv, NEW c \in Callers, NEW q \in Request, InPlace(q), Set(c, q), Static
  PROVE  /\ req' \in [Callers -> Request]
         /\ \A d \in Callers : InPlace(req[d])'
  <1>1. req' \in [Callers -> Request]
    BY DEF Set, IInv
  <1>2. provider' = provider /\ conf' = conf
    BY DEF Static
  <1>3. ASSUME NEW d \in Callers PROVE InPlace(req[d])'
    <2>1. req'[d] = q \/ req'[d] = req[d]
      BY DEF Set, IInv
    <2>2. InPlace(req[d])
      BY DEF IInv
    <2> QED BY <1>2, <2>1, <2>2 DEF InPlace, configured
  <1> QED BY <1>1, <1>3

\* The same for a step that leaves the backend's breaker alone, or lets a trial
\* through.
LEMMA QuietStep ==
  ASSUME RequestsAssumption, IInv, NEW c \in Callers, NEW q \in Request, InPlace(q), Set(c, q), Static,
         cb' = cb \/ cb' = B!HalfOpen, GoodDep(dep'), streak' = streak
  PROVE  IInv' /\ Earned
  <1>1. req' \in [Callers -> Request] /\ \A d \in Callers : InPlace(req[d])'
    BY SetKeeps
  <1>2. streak \in Nat
    BY DEF IInv, RequestsAssumption
  <1>3. GoodBoard(cb)' /\ StreakCovers(cb, streak)'
    <2>1. GoodBoard(cb') /\ StreakCovers(cb', streak)
      BY <1>2, BoardNew DEF IInv
    <2> QED BY <2>1 DEF GoodBoard, StreakCovers
  <1>4. GoodDep(dep)'
    BY DEF GoodDep
  <1>5. Earned
    BY DEF Earned, B!HalfOpen
  <1>6. (provider \in Providers)' /\ (conf \in Config)' /\ (conf.all.min <= conf.all.max)' /\ (streak \in 0 .. Trip)'
    BY DEF IInv, Static, Config
  <1> QED BY <1>1, <1>3, <1>4, <1>5, <1>6 DEF IInv

LEMMA Statuses ==
  /\ \A code \in Codes : HTTPStatus(code) \in 200 .. 599
  /\ HTTPStatus("none") = 200
  /\ HTTPStatus("rate_limited") = 429
  /\ \A code \in Refusals : HTTPStatus(code) \in {400, 401, 404, 409}
  /\ HTTPStatus("not_ready") = 503
  /\ HTTPStatus("unavailable") = 502
  /\ HTTPStatus("timeout") = 504
  /\ HTTPStatus("invalid") = 400 /\ HTTPStatus("failed_precondition") = 400
  /\ HTTPStatus("unauthorized") = 401
  /\ \A code \in LocalCodes : HTTPStatus(code) \in {400, 401, 404, 500, 501, 503}
  BY DEF HTTPStatus, Codes, Refusals, LocalCodes

\* A record with the fields of a request is one when their values are.
RequestFields == {"at", "kind", "hop", "marked", "why", "http", "after", "blamed", "wrote"}

FieldsAreRight(q) ==
    /\ q = [f \in RequestFields |-> q[f]]
    /\ q.at \in {"idle", "running", "refused", "unsent", "back"} /\ q.kind \in Kinds /\ q.hop \in Nat /\ q.marked \in BOOLEAN
    /\ q.why \in Whys /\ q.http \in 0 .. 599 /\ q.after \in BOOLEAN /\ q.blamed \in BOOLEAN /\ q.wrote \in 0 .. 1

LEMMA IsRequest ==
  ASSUME NEW q, FieldsAreRight(q)
  PROVE  q \in Request
  <1>1. q = [at |-> q.at, kind |-> q.kind, hop |-> q.hop, marked |-> q.marked, why |-> q.why,
             http |-> q.http, after |-> q.after, blamed |-> q.blamed, wrote |-> q.wrote]
    BY DEF FieldsAreRight, RequestFields
  <1> QED BY <1>1 DEF FieldsAreRight, Request

LEMMA NoRequestIs ==
  /\ NoRequest \in Request
  /\ NoRequest = [f \in RequestFields |-> NoRequest[f]]
  /\ NoRequest.kind \in Kinds /\ NoRequest.hop \in Nat /\ NoRequest.wrote \in 0 .. 1
  /\ NoRequest.http \in 0 .. 599 /\ NoRequest.why \in Whys
  /\ NoRequest.marked \in BOOLEAN /\ NoRequest.after \in BOOLEAN /\ NoRequest.blamed \in BOOLEAN
  /\ ~NoRequest.after /\ ~NoRequest.blamed
  <1>1. NoRequest \in Request
    BY DEF NoRequest, Request, Kinds, Whys
  <1>2. NoRequest = [f \in RequestFields |-> NoRequest[f]]
    BY <1>1 DEF Request, RequestFields
  <1> QED BY <1>1, <1>2 DEF NoRequest, Kinds, Whys

\* The record of a call that is over.
Over(marked, why, fault, s, after) ==
    [NoRequest EXCEPT !.at = "back", !.marked = marked, !.why = why, !.blamed = fault, !.http = s, !.after = after, !.wrote = 1]

IsOver(q, marked, why, fault, s, after) ==
    /\ q \in Request
    /\ q.at = "back" /\ q.marked = marked /\ q.why = why /\ q.blamed = fault /\ q.http = s /\ q.after = after

LEMMA OverIs ==
  ASSUME NEW marked \in BOOLEAN, NEW why \in Whys, NEW fault \in BOOLEAN, NEW s \in 0 .. 599, NEW after \in BOOLEAN
  PROVE  IsOver(Over(marked, why, fault, s, after), marked, why, fault, s, after)
  <1> DEFINE q == Over(marked, why, fault, s, after)
  <1>1. q.at = "back" /\ q.marked = marked /\ q.why = why /\ q.blamed = fault /\ q.http = s /\ q.after = after
    BY NoRequestIs DEF Over, RequestFields
  <1>2. q.kind \in Kinds /\ q.hop \in Nat /\ q.wrote = 1
    BY NoRequestIs DEF Over, RequestFields
  <1>3. q = [f \in RequestFields |-> q[f]]
    BY NoRequestIs DEF Over
  <1> HIDE DEF q
  <1>4. FieldsAreRight(q)
    BY <1>1, <1>2, <1>3 DEF FieldsAreRight
  <1>7. q \in Request
    BY <1>4, IsRequest
  <1>8. IsOver(q, marked, why, fault, s, after)
    BY <1>1, <1>7 DEF IsOver
  <1> QED BY <1>8 DEF q

\* A call that ends fairly is blamed fairly, answered truly, and counted once.
LEMMA EndedKeeps ==
  ASSUME RequestsAssumption, IInv, NEW c \in Callers, NEW e, NEW why \in Whys \ {"none", "breaker"},
         NEW written \in BOOLEAN, Ended(c, e, why, written), Static, GoodDep(dep'),
         \/ ~written /\ Fair(e, why)
         \/ written /\ why = "answered" /\ e = Error("canceled", 0)
  PROVE  IInv' /\ Earned
  <1> DEFINE marked == req[c].marked
             fault == e.code # "none" /\ backendFault(marked, e)
             status(u) == IF written THEN 200 ELSE dialStatus(e, FALSE, u)
             over(u) == [NoRequest EXCEPT !.at = "back", !.marked = marked, !.why = why, !.blamed = fault,
                                          !.http = status(u), !.after = e.after, !.wrote = 1]
  <1>1. PICK u \in {FALSE} \cup (IF provider = "switchyard" /\ why = "fault" /\ e.status = 0 THEN {TRUE} ELSE {}) :
          Set(c, over(u))
    BY DEF Ended
  <1>2. cb' = B!Recorded(cb, fault) /\ streak' = Counted(why)
    BY DEF Ended
  <1>a. e.after \in BOOLEAN
    <2>1. CASE written
      <3>1. e = Error("canceled", 0)
        BY <2>1
      <3> QED BY <3>1 DEF Error
    <2>2. CASE ~written
      BY <2>2 DEF Fair
    <2> QED BY <2>1, <2>2
  <1>3. fault \in BOOLEAN
    OBVIOUS
  <1>4. fault => why \in {"fault", "late", "gone"}
    BY DEF Fair, Error, backendFault
  <1>5. why = "fault" => fault
    BY DEF Fair, backendFault
  <1>b. fault /\ why # "fault" => ~written /\ (e.code = "unavailable" \/ (e.code = "timeout" /\ ~marked))
    <2>1. CASE written
      <3>1. e.code = "canceled"
        BY <2>1 DEF Error
      <3> QED BY <3>1 DEF backendFault
    <2>2. CASE ~written
      <3>1. fault => backendFault(marked, e)
        OBVIOUS
      <3> HIDE DEF marked, fault
      <3>2. backendFault(marked, e) => e.code = "unavailable" \/ (e.code = "timeout" /\ ~marked)
        BY DEF backendFault
      <3> QED BY <2>2, <3>1, <3>2
    <2> QED BY <2>1, <2>2
  <1>c. marked \in BOOLEAN
    BY DEF IInv, Request
  <1>d. e.code = "timeout" => why = "late"
    BY DEF Fair, Error
  <1>6. streak \in 0 .. Trip /\ Trip \in Nat /\ Counted(why) \in 0 .. Trip
        /\ (fault => Counted(why) = IF streak < Trip THEN streak + 1 ELSE streak)
    BY <1>4 DEF IInv, RequestsAssumption, Counted
  <1> HIDE DEF fault, marked
  <1>7. /\ GoodBoard(B!Recorded(cb, fault)) /\ StreakCovers(B!Recorded(cb, fault), Counted(why))
        /\ cb.state = "closed" /\ B!Recorded(cb, fault).state = "open" => Counted(why) = Trip
    BY <1>3, <1>6, BoardRecords DEF IInv
  <1>8. over(u) \in Request /\ InPlace(over(u))
    <2> DEFINE s == status(u)
    <2>1. /\ s \in 200 .. 599
          /\ e.after => s = 429
          /\ why = "answered" => s = 200
          /\ why = "throttled" => s = 429
          /\ why = "refused" => s \in {400, 401, 404, 409}
          /\ why = "unpaid" => s = 503
          /\ why = "fault" => s = 502 \/ (provider = "switchyard" /\ s = 503)
          /\ why = "late" => s \in {502, 504}
          /\ why = "local" => s \notin {200, 429, 502, 504}
          /\ fault /\ why # "fault" => s = 502 \/ (why = "late" /\ ~marked)
      <3>1. CASE written
        <4>1. why = "answered" /\ e = Error("canceled", 0) /\ s = 200
          BY <3>1
        <4>2. ~e.after
          BY <4>1 DEF Error
        <4>3. ~(fault /\ why # "fault")
          BY <1>b, <3>1
        <4> HIDE DEF s
        <4> QED BY <4>1, <4>2, <4>3
      <3>2. CASE ~written /\ u
        <4>1. provider = "switchyard" /\ why = "fault"
          BY <3>2
        <4>2. e.code = "unavailable" /\ ~e.after
          BY <3>2, <4>1 DEF Fair
        <4>3. s = 503
          BY <3>2, <4>2 DEF dialStatus
        <4> HIDE DEF s
        <4> QED BY <4>1, <4>2, <4>3
      <3>3. CASE ~written /\ ~u
        <4>1. s = HTTPStatus(e.code)
          BY <3>3 DEF dialStatus
        <4> HIDE DEF s
        <4>2. Fair(e, why)
          BY <3>3
        <4>3. s \in 200 .. 599
          BY <4>1, <4>2, Statuses DEF Fair
        <4>4. /\ e.after => s = 429
              /\ why = "answered" => s = 200
              /\ why = "throttled" => s = 429
              /\ why = "unpaid" => s = 503
              /\ why = "fault" => s = 502
          BY <4>1, <4>2, Statuses DEF Fair
        <4>5. /\ why = "refused" => s \in {400, 401, 404, 409}
              /\ why = "late" => s \in {502, 504}
              /\ why = "local" => s \notin {200, 429, 502, 504}
          BY <4>1, <4>2, Statuses DEF Fair
        <4>6. fault /\ why # "fault" => s = 502 \/ (why = "late" /\ ~marked)
          BY <1>b, <1>d, <4>1, Statuses
        <4> QED BY <4>3, <4>4, <4>5, <4>6
      <3> QED BY <3>1, <3>2, <3>3
    <2> DEFINE q == over(u)
    <2> HIDE DEF status
    <2>2. q = Over(marked, why, fault, s, e.after)
      BY DEF Over
    <2> HIDE DEF q, s
    <2>3. /\ q \in Request
          /\ q.at = "back" /\ q.marked = marked /\ q.why = why /\ q.blamed = fault /\ q.http = s /\ q.after = e.after
      <3>1. s \in 0 .. 599 /\ why \in Whys
        BY <2>1
      <3> DEFINE after == e.after
      <3>2. after \in BOOLEAN /\ q = Over(marked, why, fault, s, after)
        BY <1>a, <2>2
      <3> HIDE DEF after
      <3>3. /\ q \in Request
            /\ q.at = "back" /\ q.marked = marked /\ q.why = why /\ q.blamed = fault /\ q.http = s /\ q.after = after
        <4>1. IsOver(Over(marked, why, fault, s, after), marked, why, fault, s, after)
          BY <1>3, <1>c, <3>1, <3>2, OverIs
        <4> QED BY <3>2, <4>1 DEF IsOver
      <3> QED BY <3>3 DEF after
    <2>4. InPlace(q)
      BY <1>4, <1>5, <2>1, <2>3 DEF InPlace
    <2> QED BY <2>3, <2>4 DEF q
  <1>9. req' \in [Callers -> Request] /\ \A d \in Callers : InPlace(req[d])'
    <2> DEFINE q == over(u)
    <2>1. q \in Request /\ InPlace(q) /\ Set(c, q)
      BY <1>1, <1>8
    <2> HIDE DEF q
    <2> QED BY <2>1, SetKeeps
  <1>10. GoodBoard(cb)' /\ StreakCovers(cb, streak)'
    BY <1>2, <1>7 DEF GoodBoard, StreakCovers
  <1>11. (provider \in Providers)' /\ (conf \in Config)' /\ (conf.all.min <= conf.all.max)' /\ (streak \in 0 .. Trip)'
    BY <1>2, <1>6 DEF IInv, Static, Config
  <1>12. GoodDep(dep)'
    BY DEF GoodDep
  <1> QED BY <1>2, <1>7, <1>9, <1>10, <1>11, <1>12 DEF IInv, Earned
\* A request that goes out has a good hop, and knows whether it was cut short.
LEMMA BegunIsGood ==
  ASSUME TimeoutsAssumption, RequestsAssumption, IInv, NEW kind \in KindsOf, NEW header \in Headers
  PROVE  LET q == Begun(kind, header)
             r == [q EXCEPT !.at = "refused"]
             u == [q EXCEPT !.at = "unsent"]
         IN  /\ q \in Request /\ InPlace(q) /\ r \in Request /\ InPlace(r)
             /\ u \in Request /\ InPlace(u)
  <1> DEFINE hop == hopBudget(kind, header)
             marked == callerBudget(kind, hop)
             q == Begun(kind, header)
             r == [q EXCEPT !.at = "refused"]
             u == [q EXCEPT !.at = "unsent"]
  <1>1. kind \in Kinds /\ header \in Nat \cup {Absent, Bad}
    BY DEF KindsOf, Kinds, RequestsAssumption
  <1>2. /\ hop \in Nat /\ hop \in conf.all.min .. conf.all.max
        /\ hop <= 2 * ProviderSeconds(conf.all) + 1 /\ configured(kind) \in Nat
    BY <1>1, HopIsGood DEF IInv
  <1>3. marked \in BOOLEAN /\ (~marked => hop >= configured(kind))
    BY <1>2 DEF callerBudget
  <1> HIDE DEF hop, marked
  <1>5. q = [NoRequest EXCEPT !.at = "running", !.kind = kind, !.hop = hop, !.marked = marked]
    BY DEF Begun, hop, marked
  <1>6. q \in Request /\ q.at = "running" /\ q.kind = kind /\ q.hop = hop /\ q.marked = marked
    <2>1. q.at = "running" /\ q.kind = kind /\ q.hop = hop /\ q.marked = marked
      BY <1>5, NoRequestIs DEF RequestFields
    <2>2. /\ q.why \in Whys /\ q.http \in 0 .. 599 /\ q.after \in BOOLEAN
          /\ q.blamed \in BOOLEAN /\ q.wrote \in 0 .. 1
      BY <1>5, NoRequestIs DEF RequestFields
    <2>3. q = [f \in RequestFields |-> q[f]]
      BY <1>5, NoRequestIs
    <2> HIDE DEF q
    <2>4. FieldsAreRight(q)
      BY <1>1, <1>2, <1>3, <2>1, <2>2, <2>3, NoRequestIs DEF FieldsAreRight
    <2>5. q \in Request
      BY <2>4, IsRequest
    <2> QED BY <2>1, <2>5
  <1> HIDE DEF q
  <1>7. InPlace(q)
    BY <1>2, <1>3, <1>6 DEF InPlace
  <1>8. r \in Request /\ r.at = "refused" /\ u \in Request /\ u.at = "unsent"
    BY <1>6 DEF Request
  <1> HIDE DEF r, u
  <1>9. InPlace(r) /\ InPlace(u)
    BY <1>8 DEF InPlace
  <1> QED BY <1>6, <1>7, <1>8, <1>9 DEF q, r, u

LEMMA BeginKeeps ==
  ASSUME TimeoutsAssumption, RequestsAssumption, IInv, NEW c \in Callers,
         NEW kind \in KindsOf, NEW header \in Headers, Begin(c, kind, header)
  PROVE  IInv' /\ Earned
  <1> DEFINE q == Begun(kind, header)
             r == [q EXCEPT !.at = "refused"]
             u == [q EXCEPT !.at = "unsent"]
             status == dialStatus(Error("unavailable", 0), TRUE, FALSE)
             no == [NoRequest EXCEPT !.at = "back", !.why = "breaker", !.after = TRUE, !.wrote = 1,
                                     !.http = status]
  <1>1. /\ q \in Request /\ InPlace(q) /\ r \in Request /\ InPlace(r)
        /\ u \in Request /\ InPlace(u)
    BY BegunIsGood
  <1>2. Static /\ streak' = streak /\ GoodDep(dep)
    BY DEF Begin, IInv
  <1> HIDE DEF q, r, u
  <1>3. ASSUME Dial(c, q) PROVE (Set(c, q) \/ Set(c, r) \/ Set(c, u)) /\ GoodDep(dep')
    <2>1. CASE ~OwnAPI(q.kind)
      BY <1>2, <1>3, <2>1 DEF Dial
    <2>2. CASE dep' \in D!Permitted(dep) /\ Set(c, q)
      BY <1>2, <2>2, DepPermits
    <2>3. CASE UNCHANGED dep /\ (Set(c, r) \/ Set(c, u))
      BY <1>2, <2>3
    <2> QED BY <1>3, <2>1, <2>2, <2>3 DEF Dial, r, u
  <1>4. CASE cb' = cb /\ Dial(c, q)
    BY <1>1, <1>2, <1>3, <1>4, QuietStep
  <1>5. CASE cb' = B!HalfOpen /\ Dial(c, q)
    BY <1>1, <1>2, <1>3, <1>5, QuietStep
  <1>6. CASE UNCHANGED <<cb, dep>> /\ Set(c, no)
    <2>1. status = 503
      BY DEF dialStatus, Error
    <2> HIDE DEF status
    <2>2. /\ no.at = "back" /\ no.why = "breaker" /\ no.http = 503 /\ no.wrote = 1
          /\ no.after \in BOOLEAN /\ no.blamed \in BOOLEAN /\ ~no.blamed
      BY <2>1, NoRequestIs DEF RequestFields
    <2>3. no.kind \in Kinds /\ no.hop \in Nat /\ no.marked \in BOOLEAN
      BY NoRequestIs DEF RequestFields
    <2>a. no = [f \in RequestFields |-> no[f]]
      BY NoRequestIs
    <2> HIDE DEF no
    <2>b. FieldsAreRight(no)
      BY <2>2, <2>3, <2>a, NoRequestIs DEF FieldsAreRight, Whys
    <2>4. no \in Request
      BY <2>b, IsRequest
    <2>5. InPlace(no)
      BY <2>2 DEF InPlace
    <2> QED BY <1>2, <1>6, <2>4, <2>5, QuietStep
  <1>7. (cb' = cb /\ Dial(c, q)) \/ (cb' = B!HalfOpen /\ Dial(c, q)) \/ (UNCHANGED <<cb, dep>> /\ Set(c, no))
    BY DEF Begin, q
  <1> QED BY <1>4, <1>5, <1>6, <1>7

LEMMA FailLocallyKeeps ==
  ASSUME RequestsAssumption, IInv, NEW c \in Callers, FailLocally(c)
  PROVE  IInv' /\ Earned
  <1> DEFINE of(status) == [NoRequest EXCEPT !.at = "back", !.why = "local", !.http = status, !.wrote = 1]
  <1>1. PICK s \in {HTTPStatus(code) : code \in LocalCodes} \cup {requestEntityTooLarge} : Set(c, of(s))
    BY DEF FailLocally
  <1> DEFINE q == of(s)
  <1>2. s \notin {200, 429, 502, 504} /\ s \in 0 .. 599
    <2>1. s \in {400, 401, 404, 413, 500, 501, 503}
      BY Statuses DEF requestEntityTooLarge
    <2> QED BY <2>1
  <1>a. q = [NoRequest EXCEPT !.at = "back", !.why = "local", !.http = s, !.wrote = 1]
    OBVIOUS
  <1> HIDE DEF q
  <1>4. q \in Request /\ q.at = "back" /\ q.why = "local" /\ q.http = s /\ ~q.after /\ ~q.blamed
    <2>1. q.at = "back" /\ q.why = "local" /\ q.http = s /\ q.wrote = 1
      BY <1>a, NoRequestIs DEF RequestFields
    <2>2. /\ q.kind \in Kinds /\ q.hop \in Nat /\ q.marked \in BOOLEAN
          /\ q.after \in BOOLEAN /\ q.blamed \in BOOLEAN /\ ~q.after /\ ~q.blamed
      BY <1>a, NoRequestIs DEF RequestFields
    <2>3. q = [f \in RequestFields |-> q[f]]
      BY <1>a, NoRequestIs
    <2>4. q.at \in {"idle", "running", "refused", "unsent", "back"} /\ q.why \in Whys
      BY <2>1 DEF Whys
    <2>5. q.http \in 0 .. 599 /\ q.wrote \in 0 .. 1
      BY <1>2, <2>1
    <2>6. FieldsAreRight(q)
      BY <2>2, <2>3, <2>4, <2>5, Zenon DEF FieldsAreRight
    <2>7. q \in Request
      BY <2>6, IsRequest
    <2> QED BY <2>1, <2>2, <2>7, Zenon
  <1>5. InPlace(q)
    BY <1>2, <1>4 DEF InPlace
  <1>6. Set(c, q) /\ Static /\ cb' = cb /\ dep' = dep /\ streak' = streak
    BY <1>1 DEF FailLocally, q
  <1>7. GoodDep(dep')
    BY <1>6 DEF IInv
  <1> QED BY <1>4, <1>5, <1>6, <1>7, QuietStep

LEMMA ReturnKeeps ==
  ASSUME RequestsAssumption, IInv, NEW c \in Callers, Return(c)
  PROVE  IInv' /\ Earned
  <1>1. NoRequest \in Request /\ InPlace(NoRequest)
    BY DEF NoRequest, Request, Kinds, Whys, InPlace
  <1>2. Set(c, NoRequest) /\ Static /\ cb' = cb /\ dep' = dep /\ streak' = streak
    BY DEF Return
  <1>3. GoodDep(dep')
    BY <1>2 DEF IInv
  <1> QED BY <1>1, <1>2, <1>3, QuietStep

LEMMA DelayKeeps ==
  ASSUME IInv, DelayPasses
  PROVE  IInv' /\ Earned
  <1>1. UNCHANGED <<req, streak, provider, conf>>
    BY DEF DelayPasses, Static
  <1>2. CASE cb.state = "open" /\ cb' = [cb EXCEPT !.due = TRUE] /\ UNCHANGED dep
    <2>1. GoodBoard(cb') /\ cb'.state = "open"
      BY <1>2 DEF IInv, GoodBoard
    <2>2. StreakCovers(cb', streak)
      BY <2>1 DEF StreakCovers
    <2> QED BY <1>1, <1>2, <2>1, <2>2 DEF IInv, Earned, GoodBoard, GoodDep, StreakCovers, InPlace, configured, Config
  <1>3. CASE dep' = [dep EXCEPT !.due = TRUE] /\ UNCHANGED cb
    <2>1. GoodDep(dep')
      BY <1>3 DEF IInv, GoodDep
    <2> QED BY <1>1, <1>3, <2>1 DEF IInv, Earned, GoodBoard, GoodDep, StreakCovers, InPlace, configured, Config
  <1> QED BY <1>2, <1>3 DEF DelayPasses

\* The ends of a call: each is fair.
LEMMA EndKeeps ==
  ASSUME RequestsAssumption, IInv, NEW c \in Callers,
         \/ Replied(c) \/ DepRefuses(c) \/ WriteFails(c) \/ FailsInside(c)
         \/ \E how \in {"late", "gone"} : ContextEnds(c, how)
  PROVE  IInv' /\ Earned
  <1>0. req[c].kind \in Kinds
    BY DEF IInv, Request
  <1> DEFINE kind == req[c].kind
  <1>1. CASE Replied(c)
    <2>1. PICK r \in Replies :
            /\ r.how = "empty" /\ r.cf # "none" => Direct(kind)
            /\ DepSees(kind, r.how = "broken" \/ r.status >= 500)
            /\ Ended(c, gatewayErr(ReplyError(kind, r)), Why(kind, r), FALSE)
      BY <1>1 DEF Replied
    <2>2. r \in Reply /\ Sees(kind, r)
      BY <2>1 DEF RequestsAssumption, Sees
    <2> DEFINE e == ReplyError(kind, r)
               why == Why(kind, r)
               fault == r.how = "broken" \/ r.status >= 500
    <2>3. Fair(e, why)
      BY <1>0, <2>2, ReplyIsFair
    <2>4. why \in Whys \ {"none", "breaker"}
      BY DEF Why, Whys
    <2>5. fault \in BOOLEAN
      OBVIOUS
    <2>a. DepSees(kind, fault) /\ Ended(c, e, why, FALSE) /\ Static
      BY <1>1, <2>1 DEF gatewayErr, Replied
    <2> HIDE DEF e, why, fault
    <2>6. GoodDep(dep')
      BY <2>5, <2>a, DepRecords DEF DepSees, IInv
    <2> QED BY <2>3, <2>4, <2>6, <2>a, EndedKeeps
  <1>2. CASE DepRefuses(c)
    <2> DEFINE e == Error("unavailable", 0)
    <2>1. Fair(e, "fault")
      BY DEF Fair, Error, Codes, Is4xx
    <2>2. Ended(c, e, "fault", FALSE) /\ Static /\ GoodDep(dep')
      BY <1>2 DEF DepRefuses, gatewayErr, IInv
    <2> HIDE DEF e
    <2> QED BY <2>1, <2>2, EndedKeeps DEF Whys
  <1>3. CASE WriteFails(c)
    <2>2. Ended(c, Error("canceled", 0), "answered", TRUE) /\ Static /\ GoodDep(dep')
      BY <1>3 DEF WriteFails, IInv
    <2> QED BY <2>2, EndedKeeps DEF Whys
  <1>4. CASE FailsInside(c)
    <2> DEFINE through(code) == viaBifrost(kind, [Answer EXCEPT !.typed = code])
    <2>1. PICK code \in LocalCodes \ {"unimplemented"} :
            Ended(c, IF Direct(kind) THEN Error(code, 0) ELSE through(code), "local", FALSE)
      BY <1>4 DEF FailsInside, gatewayErr
    <2> DEFINE r == [Answer EXCEPT !.typed = code]
    <2>2. r.status = 0 /\ r.cf = "none" /\ r.type = "none" /\ r.typed = code /\ code # "none"
      BY DEF Answer, LocalCodes
    <2>a. through(code) = viaBifrost(kind, r)
      OBVIOUS
    <2> HIDE DEF r, through
    <2>3. through(code) = Error(code, 0)
      BY <2>2, <2>a, PlainBifrost
    <2>4. Fair(Error(code, 0), "local")
      BY DEF Fair, Error, Codes, LocalCodes, Is4xx
    <2> DEFINE e == Error(code, 0)
    <2>5. Ended(c, e, "local", FALSE) /\ Fair(e, "local") /\ Static /\ GoodDep(dep')
      BY <1>4, <2>1, <2>3, <2>4 DEF FailsInside, IInv
    <2> HIDE DEF e
    <2> QED BY <2>5, EndedKeeps DEF Whys
  <1>5. ASSUME NEW how \in {"late", "gone"}, ContextEnds(c, how) PROVE IInv' /\ Earned
    <2>1. PICK e \in ContextError(kind, how) : Ended(c, gatewayErr(e), how, FALSE)
      BY <1>5 DEF ContextEnds
    <2>2. Fair(e, how) /\ Ended(c, e, how, FALSE) /\ Static
      BY <1>0, <1>5, <2>1, ContextIsFair DEF gatewayErr, ContextEnds
    <2>3. GoodDep(dep')
      BY <1>5, DepRecords DEF ContextEnds, DepSees, IInv
    <2> QED BY <2>2, <2>3, EndedKeeps DEF Whys
  <1> QED BY <1>1, <1>2, <1>3, <1>4, <1>5

LEMMA StepKeeps ==
  ASSUME TimeoutsAssumption, RequestsAssumption, IInv, [Next]_vars
  PROVE  IInv' /\ (Earned \/ UNCHANGED vars)
  <1>1. ASSUME NEW c \in Callers, NEW kind \in KindsOf, NEW header \in Headers, Begin(c, kind, header)
        PROVE  IInv' /\ Earned
    BY <1>1, BeginKeeps
  <1>2. ASSUME NEW c \in Callers, FailLocally(c) \/ Return(c) PROVE IInv' /\ Earned
    BY <1>2, FailLocallyKeeps, ReturnKeeps
  <1>3. ASSUME NEW c \in Callers,
               \/ Replied(c) \/ DepRefuses(c) \/ WriteFails(c) \/ FailsInside(c)
               \/ \E how \in {"late", "gone"} : ContextEnds(c, how)
        PROVE  IInv' /\ Earned
    BY <1>3, EndKeeps
  <1>4. CASE DelayPasses
    BY <1>4, DelayKeeps
  <1>5. CASE UNCHANGED vars
    BY <1>5 DEF vars, IInv, GoodBoard, GoodDep, StreakCovers, InPlace, configured, Config
  <1> QED BY <1>1, <1>2, <1>3, <1>4, <1>5 DEF Next

-----------------------------------------------------------------------------
(* The theorems.                                                           *)

\* The invariant holds in every state of every behaviour.
THEOREM InvariantHolds == Spec => []IInv
  <1> USE TimeoutsAssumption, RequestsAssumption
  <1>1. Init => IInv
    BY InitIInv
  <1>2. IInv /\ [Next]_vars => IInv'
    BY StepKeeps
  <1> QED BY <1>1, <1>2, PTL DEF Spec

\* A deadline is within the configured bounds, and whoever is not marked as cut
\* short by its caller had the whole budget of its kind.
THEOREM Deadlines == Spec => []DeadlinesAreFair
  <1>1. IInv => DeadlinesAreFair
    <2> SUFFICES ASSUME IInv PROVE DeadlinesAreFair
      OBVIOUS
    <2>1. TypeOK
      BY DEF IInv, TypeOK, GoodBoard, GoodDep, States, Config, Request, Whys
    <2>2. HopIsBounded /\ BlamedInFull
      BY DEF IInv, InPlace, HopIsBounded, BlamedInFull
    <2> QED BY <2>1, <2>2 DEF DeadlinesAreFair
  <1> QED BY <1>1, InvariantHolds, PTL

\* All that the backend failed is held against it; beyond that, only calls that
\* ran past a budget the caller had not cut, and those whose end was lost and
\* came out as a 502.
THEOREM Blame == Spec => []BlameIsJust
  <1>1. IInv => BlameIsJust
    BY DEF IInv, InPlace, BlameIsJust, Back
  <1> QED BY <1>1, InvariantHolds, PTL

\* The caller's status says what happened to its request.
THEOREM Truth == Spec => []StatusTellsTruth
  <1>1. IInv => StatusTellsTruth
    <2> SUFFICES ASSUME IInv, NEW c \in Callers, Back(c)
                 PROVE  /\ req[c].after => req[c].http \in {429, 503}
                        /\ CASE req[c].why = "answered"  -> req[c].http = 200
                             [] req[c].why = "throttled" -> req[c].http = 429
                             [] req[c].why = "refused"   -> Is4xx(req[c].http) /\ req[c].http # 429
                             [] req[c].why \in {"unpaid", "breaker"} -> req[c].http = 503
                             [] req[c].why = "fault"     -> req[c].http \in {502} \cup (IF provider = "switchyard" THEN {503} ELSE {})
                             [] req[c].why = "late"      -> req[c].http \in {502, 504}
                             [] req[c].why = "local"     -> req[c].http \notin {200, 429, 502, 504}
                             [] OTHER -> TRUE
      BY DEF StatusTellsTruth
    <2>1. InPlace(req[c])
      BY DEF IInv
    <2>2. CASE req[c].why = "refused"
      BY <2>1, <2>2 DEF InPlace, Back, Is4xx
    <2>3. CASE req[c].why # "refused"
      BY <2>1, <2>3 DEF InPlace, Back
    <2> QED BY <2>2, <2>3
  <1> QED BY <1>1, InvariantHolds, PTL

\* The breaker opens only when the last Trip calls in a row ended unanswered.
THEOREM Opening == Spec => RefusalsAreEarned
  <1> USE TimeoutsAssumption, RequestsAssumption
  <1>1. IInv /\ [Next]_vars => [cb.state = "closed" /\ cb'.state = "open" => streak' = Trip]_vars
    BY StepKeeps DEF Earned
  <1> QED BY <1>1, InvariantHolds, PTL DEF Spec, RefusalsAreEarned
=============================================================================
