------------------------------- MODULE Board -------------------------------
(***************************************************************************)
(* The circuit breakers in front of the backends (gateway/upstream/        *)
(* board.go): one per upstream name, made on its first call.  The breaker  *)
(* itself is a library's; it is modelled from the settings board.go gives  *)
(* it.  A result is recorded in whatever state the breaker is in then, so  *)
(* a call that began before it opened may answer while it is half-open.    *)
(*                                                                         *)
(* A backend is sick or not; only a sick one fails a call.  streak counts, *)
(* up to Trip, the calls in a row a backend has failed, and charged those  *)
(* in a row that it failed or that were held against it though their       *)
(* callers ended them: history, which the breaker does not see.            *)
(***************************************************************************)
EXTENDS Integers, Sequences

CONSTANTS
  Callers,  \* requests
  Names,    \* upstream names
  Trip,     \* ConsecutiveFailuresTrip
  NoName, NoCaller

ASSUME BoardAssumption ==
  /\ Trip \in Nat \ {0}
  /\ NoName \notin Names
  /\ NoCaller \notin Callers

VARIABLES
  cb,      \* the breaker of each name
  call,    \* what each caller is doing
  sick,    \* the backends that fail
  streak,  \* history: failed calls in a row
  charged, \* history: calls in a row that it failed or was charged for
  trial    \* history: the call each half-open breaker let through

vars == <<cb, call, sick, streak, charged, trial>>

Refusals == {"open", "half-open"}

Windows == {w \in Seq(BOOLEAN) : Len(w) <= Trip}
Breaker == [state : {"closed"} \cup Refusals, window : Windows, due : BOOLEAN]

(* A closed breaker keeps its last Trip results, TRUE for a fault; due says*)
(* that an open one's delay has passed.                                    *)
Fresh == [state |-> "closed", window |-> <<>>, due |-> FALSE]
NoBreaker == [state |-> "none", window |-> <<>>, due |-> FALSE]
Open == [state |-> "open", window |-> <<>>, due |-> FALSE]
HalfOpen == [state |-> "half-open", window |-> <<>>, due |-> FALSE]

Call == [at : {"idle", "running", "done"},
         name : Names \cup {NoName},
         budget : BOOLEAN]   \* the caller cut the deadline short

NoCall == [at |-> "idle", name |-> NoName, budget |-> FALSE]

(* Whose doing a call's end is, and the ends that can come of it: an       *)
(* answer or an error, by the codes that matter.  request: a 4xx, a        *)
(* throttle, or a failure inside the gateway.  caller: the caller cut the  *)
(* deadline short or hung up, and the error says so.  lost: the same, but  *)
(* what ended the call was lost on the way: Bifrost's error for a context  *)
(* has no code and becomes unavailable, and so does a body that could not  *)
(* be read to its end; or the stream's idle timer ran while the client was *)
(* slow to read.                                                           *)
Causes == {"none", "request", "backend", "caller", "lost"}
EndsOf(cause, budget) ==
  LET timeout(cut) == IF budget = cut THEN {"timeout"} ELSE {} IN
  CASE cause = "none"    -> {"ok"}
    [] cause = "request" -> {"unavailable_4xx", "other"}
    [] cause = "caller"  -> {"other"} \cup timeout(TRUE)
    [] OTHER             -> {"unavailable"} \cup timeout(FALSE)

Charges(cause) == cause \in {"backend", "lost"}

TypeOK ==
  /\ cb \in [Names -> Breaker \cup {NoBreaker}]
  /\ call \in [Callers -> Call]
  /\ sick \subseteq Names
  /\ streak \in [Names -> 0 .. Trip]
  /\ charged \in [Names -> 0 .. Trip]
  /\ trial \in [Names -> Callers \cup {NoCaller}]

Init ==
  /\ cb = [n \in Names |-> NoBreaker]
  /\ call = [c \in Callers |-> NoCall]
  /\ sick \in SUBSET Names
  /\ streak = [n \in Names |-> 0]
  /\ charged = [n \in Names |-> 0]
  /\ trial = [n \in Names |-> NoCaller]

-----------------------------------------------------------------------------

(* Slip: a timeout never counts.                                           *)
backendFaultNoTimeout(budget, end) == end = "unavailable"

(* Only what is the backend's doing counts against it. *)
backendFault(budget, end) ==
  \/ end = "unavailable"
  \/ end = "timeout" /\ ~budget

(* Slip: a success does not end a run of faults.                           *)
KeptFaults(window, fault) == IF fault THEN Append(window, TRUE) ELSE window

(* The last Trip results. *)
Kept(window, fault) ==
  LET w == Append(window, fault) IN IF Len(w) > Trip THEN Tail(w) ELSE w

(* The library: a closed breaker opens when its last Trip results are all  *)
(* faults, a half-open one closes or opens on the next result, an open one *)
(* stays as it is.                                                         *)
Recorded(b, fault) ==
  LET w == Kept(b.window, fault) IN
  CASE b.state = "closed"    -> IF Len(w) = Trip /\ \A i \in DOMAIN w : w[i]
                                THEN Open ELSE [b EXCEPT !.window = w]
    [] b.state = "half-open" -> IF fault THEN Open ELSE Fresh
    [] OTHER                 -> b

(* breaker: the name's breaker, made if there is none. *)
breaker(n) == IF cb[n] = NoBreaker THEN Fresh ELSE cb[n]

(* The half of Execute before the call: run it, as the trial of a breaker  *)
(* whose delay has passed, or be refused.                                  *)
Execute(c, n, budget) ==
  LET b == breaker(n)
      begun == [NoCall EXCEPT !.name = n, !.budget = budget]
  IN
  /\ call[c].at = "idle"
  /\ \/ /\ b.state = "closed"
        /\ cb' = [cb EXCEPT ![n] = b]
        /\ call' = [call EXCEPT ![c] = [begun EXCEPT !.at = "running"]]
        /\ UNCHANGED trial
     \/ /\ b.state = "open" /\ b.due
        /\ cb' = [cb EXCEPT ![n] = HalfOpen]
        /\ call' = [call EXCEPT ![c] = [begun EXCEPT !.at = "running"]]
        /\ trial' = [trial EXCEPT ![n] = c]
     \/ /\ b.state \in Refusals /\ ~b.due
        /\ call' = [call EXCEPT ![c].at = "done"]
        /\ UNCHANGED <<cb, trial>>
  /\ UNCHANGED <<sick, streak, charged>>

Counted(k, more) == IF ~more THEN 0 ELSE IF k < Trip THEN k + 1 ELSE k

(* Slip: a call that was not the backend's fault is not recorded.          *)
AnswerFaultsOnly(c, cause) ==
  LET n == call[c].name IN
  /\ call[c].at = "running"
  /\ cause = "backend" => n \in sick
  /\ \E end \in EndsOf(cause, call[c].budget) :
       cb' = [cb EXCEPT ![n] = IF backendFault(call[c].budget, end)
                               THEN Recorded(@, TRUE) ELSE @]
  /\ streak' = [streak EXCEPT ![n] = Counted(@, cause = "backend")]
  /\ charged' = [charged EXCEPT ![n] = Counted(@, Charges(cause))]
  /\ call' = [call EXCEPT ![c] = [NoCall EXCEPT !.at = "done"]]
  /\ UNCHANGED <<sick, trial>>

(* The call ends and its result is recorded. *)
Answer(c, cause) ==
  LET n == call[c].name IN
  /\ call[c].at = "running"
  /\ cause = "backend" => n \in sick
  /\ \E end \in EndsOf(cause, call[c].budget) :
       cb' = [cb EXCEPT ![n] = Recorded(@, backendFault(call[c].budget, end))]
  /\ streak' = [streak EXCEPT ![n] = Counted(@, cause = "backend")]
  /\ charged' = [charged EXCEPT ![n] = Counted(@, Charges(cause))]
  /\ call' = [call EXCEPT ![c] = [NoCall EXCEPT !.at = "done"]]
  /\ UNCHANGED <<sick, trial>>

(* The caller has its result, or the error of a refusal. *)
Return(c) ==
  /\ call[c].at = "done"
  /\ call' = [call EXCEPT ![c] = NoCall]
  /\ UNCHANGED <<cb, sick, streak, charged, trial>>

(* OpenTimeout passes. *)
DelayPasses(n) ==
  /\ cb[n].state = "open" /\ ~cb[n].due
  /\ cb' = [cb EXCEPT ![n].due = TRUE]
  /\ UNCHANGED <<call, sick, streak, charged, trial>>

BackendTurns(n) ==
  /\ sick' = IF n \in sick THEN sick \ {n} ELSE sick \cup {n}
  /\ UNCHANGED <<cb, call, streak, charged, trial>>

Ending(c) == Return(c) \/ \E cause \in Causes : Answer(c, cause)
Calling(c, n) == \E budget \in BOOLEAN : Execute(c, n, budget)

Next ==
  \/ \E c \in Callers : Ending(c)
  \/ \E c \in Callers, n \in Names : Calling(c, n)
  \/ \E n \in Names : DelayPasses(n) \/ BackendTurns(n)

Spec == Init /\ [][Next]_vars

(* Calls carry a deadline and the delay passes; that callers keep coming is*)
(* an assumption on the traffic.                                           *)
FairSpec ==
  /\ Spec
  /\ \A c \in Callers : WF_vars(Ending(c))
  /\ \A c \in Callers, n \in Names : SF_vars(Calling(c, n))
  /\ \A n \in Names : WF_vars(DelayPasses(n))

-----------------------------------------------------------------------------
(* Correctness. *)

(* A backend that failed its last Trip calls, counting every call to it,   *)
(* in whatever state of the breaker it began or ended, is not being dialed *)
(* freely.                                                                 *)
ClosedMeansTrusted ==
  \A n \in Names : cb[n].state = "closed" => streak[n] < Trip

(* A half-open breaker has its trial call in flight: refusing the others   *)
(* is justified, and the trial's end will decide.                          *)
TrialInFlight ==
  \A n \in Names : cb[n].state = "half-open" =>
    \E c \in Callers : trial[n] = c /\ call[c].at = "running" /\ call[c].name = n

(* A closed breaker opens only for Trip calls in a row each of which the   *)
(* backend failed or was charged for though its caller had ended it; an    *)
(* answer, a refused request, an error of the gateway's own, or a caller's *)
(* end that its error tells of, ends the run.  That a caller's end is ever *)
(* charged is against board.go:159-160 and 171-173, and timeouts.go:19-22. *)
OpensOnlyForStreak ==
  [][\A n \in Names : cb[n].state = "closed" /\ cb'[n].state = "open" =>
       charged'[n] = Trip]_vars

(* A backend that stays well, and is charged no longer for what its        *)
(* callers end, is served again for good, whatever opened its breaker and  *)
(* whoever calls in between.                                               *)
ChargedNoMore(n) == <>[][\A c \in Callers : Answer(c, "lost") => call[c].name # n]_vars

Recovers ==
  \A n \in Names :
    <>[](n \notin sick) /\ ChargedNoMore(n) => <>[](cb[n].state = "closed")
=============================================================================
