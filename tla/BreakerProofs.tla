---------------------------- MODULE BreakerProofs ----------------------------
(***************************************************************************)
(* Proofs about what stands behind a circuit breaker: the calls to a       *)
(* backend (Board), then those to a remote dependency (Outbound), each for *)
(* any callers, any thresholds and any number of retries.                  *)
(*                                                                         *)
(* Board's breaker sees a window of results, its properties speak of runs  *)
(* of calls; the invariant ties the two: the calls in a row a backend was  *)
(* charged for are the faults the window of a closed breaker ends with,    *)
(* and those it failed are some of them.                                   *)
(***************************************************************************)
EXTENDS Board, Outbound, TLAPS

(* The window w ends with exactly k faults. *)
EndsWith(w, k) ==
  /\ k <= Len(w)
  /\ \A i \in Len(w) - k + 1 .. Len(w) : w[i] = TRUE
  /\ k < Len(w) => w[Len(w) - k] = FALSE

AllFaults(w) == Len(w) = Trip /\ \A i \in DOMAIN w : w[i]

StreakOK(n) ==
  /\ streak[n] <= charged[n]
  /\ cb[n].state = "closed" => charged[n] < Trip /\ EndsWith(cb[n].window, charged[n])
  /\ cb[n].state = "none" => charged[n] = 0

(* A breaker is made before any call of its name runs. *)
CallOK(c) == call[c].at = "running" => call[c].name \in Names /\ cb[call[c].name].state # "none"

BoardInv ==
  /\ TypeOK
  /\ \A n \in Names : StreakOK(n)
  /\ \A c \in Callers : CallOK(c)
  /\ TrialInFlight

-----------------------------------------------------------------------------
(* Windows. *)

(* Kept adds a result and forgets the oldest of a full window. *)
LEMMA KeptEntries ==
  ASSUME NEW w \in Windows, NEW fault \in BOOLEAN
  PROVE  /\ Kept(w, fault) \in Windows
         /\ Len(Kept(w, fault)) > 0
         /\ Kept(w, fault)[Len(Kept(w, fault))] = fault
         /\ Len(w) < Trip =>
              /\ Len(Kept(w, fault)) = Len(w) + 1
              /\ \A i \in 1 .. Len(w) : Kept(w, fault)[i] = w[i]
         /\ Len(w) = Trip =>
              /\ Len(Kept(w, fault)) = Trip
              /\ \A i \in 1 .. Trip - 1 : Kept(w, fault)[i] = w[i + 1]
<1> DEFINE a == Append(w, fault)
<1> USE BoardAssumption
<1>1. /\ w \in Seq(BOOLEAN) /\ Len(w) \in Nat /\ Len(w) <= Trip
      /\ a \in Seq(BOOLEAN) /\ Len(a) = Len(w) + 1
      /\ a[Len(w) + 1] = fault
      /\ \A i \in 1 .. Len(w) : a[i] = w[i]
  BY DEF Windows
<1>2. CASE Len(w) < Trip
  <2>1. Kept(w, fault) = a
    BY <1>1, <1>2 DEF Kept
  <2> QED
    BY <1>1, <1>2, <2>1 DEF Windows
<1>3. CASE Len(w) = Trip
  <2>1. Kept(w, fault) = Tail(a)
    BY <1>1, <1>3 DEF Kept
  <2>2. /\ Tail(a) \in Seq(BOOLEAN) /\ Len(Tail(a)) = Trip
        /\ \A i \in 1 .. Trip : Tail(a)[i] = a[i + 1]
    BY <1>1, <1>3
  <2>3. \A i \in 1 .. Trip - 1 : Tail(a)[i] = w[i + 1]
    BY <1>1, <1>3, <2>2
  <2> QED
    BY <1>1, <1>3, <2>1, <2>2, <2>3 DEF Windows
<1> QED
  BY <1>1, <1>2, <1>3

(* A fault makes the run one longer, and the window all faults when the    *)
(* run reaches the trip count.                                             *)
LEMMA FaultCounts ==
  ASSUME NEW w \in Windows, NEW k \in Nat, k < Trip, EndsWith(w, k)
  PROVE  /\ EndsWith(Kept(w, TRUE), k + 1)
         /\ AllFaults(Kept(w, TRUE)) <=> k + 1 = Trip
<1> DEFINE u == Kept(w, TRUE)
<1> USE BoardAssumption
<1>a. u \in Windows
  BY KeptEntries
<1>2. /\ Len(u) > 0 /\ u[Len(u)] = TRUE
      /\ Len(w) < Trip => Len(u) = Len(w) + 1 /\ \A i \in 1 .. Len(w) : u[i] = w[i]
      /\ Len(w) = Trip => Len(u) = Trip /\ \A i \in 1 .. Trip - 1 : u[i] = w[i + 1]
  BY KeptEntries
<1>b. /\ Len(w) < Trip => Len(u) = Len(w) + 1
      /\ Len(w) = Trip => Len(u) = Trip
  BY KeptEntries
<1>c. k <= Len(w)
  BY DEF EndsWith
<1>3. /\ \A i \in Len(w) - k + 1 .. Len(w) : w[i] = TRUE
      /\ k < Len(w) => w[Len(w) - k] = FALSE
  BY DEF EndsWith
<1> HIDE DEF u
<1>1. /\ w \in Seq(BOOLEAN) /\ Len(w) \in Nat /\ Len(w) <= Trip
      /\ u \in Seq(BOOLEAN) /\ Len(u) \in Nat /\ DOMAIN u = 1 .. Len(u)
  BY <1>a DEF Windows
<1>d. Len(w) \in Nat /\ Len(u) \in Nat /\ Trip \in Nat /\ k \in Nat /\ Len(w) <= Trip
  BY <1>1 DEF BoardAssumption
<1>4. EndsWith(u, k + 1)
  <2>1. CASE Len(w) < Trip
    <3>1. Len(u) = Len(w) + 1 /\ k + 1 <= Len(u)
      BY <1>d, <1>b, <1>c, <2>1
    <3>2. ASSUME NEW i \in Len(u) - k .. Len(u) PROVE u[i] = TRUE
      <4>1. CASE i = Len(u)
        BY <1>2, <4>1
      <4>2. CASE i # Len(u)
        <5>1. i \in Len(w) - k + 1 .. Len(w) /\ i \in 1 .. Len(w)
          BY <1>1, <1>c, <3>1, <4>2
        <5> QED
          BY <1>2, <1>3, <2>1, <5>1
      <4> QED
        BY <4>1, <4>2
    <3>3. ASSUME k + 1 < Len(u) PROVE u[Len(u) - (k + 1)] = FALSE
      <4>1. Len(u) - (k + 1) = Len(w) - k /\ Len(w) - k \in 1 .. Len(w) /\ k < Len(w)
        BY <1>1, <3>1, <3>3
      <4> QED
        BY <1>2, <1>3, <2>1, <4>1
    <3>4. Len(u) - (k + 1) + 1 = Len(u) - k
      BY <1>1
    <3> QED
      BY <3>1, <3>2, <3>3, <3>4 DEF EndsWith
  <2>2. CASE Len(w) = Trip
    <3>1. Len(u) = Trip /\ k + 1 <= Len(u)
      BY <1>d, <1>b, <2>2
    <3>2. ASSUME NEW i \in Len(u) - k .. Len(u) PROVE u[i] = TRUE
      <4>1. CASE i = Len(u)
        BY <1>2, <4>1
      <4>2. CASE i # Len(u)
        <5>1. i + 1 \in Len(w) - k + 1 .. Len(w) /\ i \in 1 .. Trip - 1
          BY <1>1, <2>2, <3>1, <4>2
        <5> QED
          BY <1>2, <1>3, <2>2, <5>1
      <4> QED
        BY <4>1, <4>2
    <3>3. ASSUME k + 1 < Len(u) PROVE u[Len(u) - (k + 1)] = FALSE
      <4>1. /\ Len(u) - (k + 1) + 1 = Len(w) - k
            /\ Len(u) - (k + 1) \in 1 .. Trip - 1
            /\ k < Len(w)
        BY <1>1, <2>2, <3>1, <3>3
      <4> QED
        BY <1>2, <1>3, <2>2, <4>1
    <3>4. Len(u) - (k + 1) + 1 = Len(u) - k
      BY <1>1
    <3> QED
      BY <3>1, <3>2, <3>3, <3>4 DEF EndsWith
  <2> QED
    BY <1>1, <2>1, <2>2
<1>5. ASSUME k + 1 = Trip PROVE AllFaults(u)
  <2>1. Len(u) = Trip
    BY <1>d, <1>b, <1>c, <1>5
  <2>2. \A i \in 1 .. Trip : u[i] = TRUE
    BY <1>1, <1>4, <1>5, <2>1 DEF EndsWith
  <2> QED
    BY <1>1, <2>1, <2>2 DEF AllFaults
<1>6. ASSUME AllFaults(u) PROVE k + 1 = Trip
  <2>1. Len(u) = Trip /\ \A i \in 1 .. Trip : u[i]
    BY <1>1, <1>6 DEF AllFaults
  <2>2. ~(k + 1 < Trip)
    BY <1>1, <1>4, <2>1 DEF EndsWith
  <2> QED
    BY <2>2
<1> QED
  BY <1>4, <1>5, <1>6 DEF u

(* Any other result ends the run. *)
LEMMA AnswerEndsRun ==
  ASSUME NEW w \in Windows
  PROVE  EndsWith(Kept(w, FALSE), 0) /\ ~AllFaults(Kept(w, FALSE))
<1> DEFINE u == Kept(w, FALSE)
<1>a. u \in Windows /\ Len(u) > 0 /\ u[Len(u)] = FALSE
  BY KeptEntries
<1> HIDE DEF u
<1>1. /\ Len(u) \in Nat /\ DOMAIN u = 1 .. Len(u)
      /\ Len(u) > 0 /\ u[Len(u)] = FALSE
  BY <1>a DEF Windows
<1>2. EndsWith(u, 0)
  BY <1>1 DEF EndsWith
<1>3. ~AllFaults(u)
  BY <1>1 DEF AllFaults
<1> QED
  BY <1>2, <1>3 DEF u

(* A call counts as a fault exactly when it failed or its end was lost.    *)
LEMMA FaultIsCharged ==
  ASSUME NEW cause \in Causes, NEW budget \in BOOLEAN, NEW end \in EndsOf(cause, budget)
  PROVE  backendFault(budget, end) <=> Charges(cause)
<1>1. CASE cause = "none"
  BY <1>1 DEF EndsOf, backendFault, Charges
<1>2. CASE cause = "request"
  BY <1>2 DEF EndsOf, backendFault, Charges
<1>3. CASE cause = "caller"
  BY <1>3 DEF EndsOf, backendFault, Charges
<1>4. CASE cause \in {"backend", "lost"}
  BY <1>4 DEF EndsOf, backendFault, Charges
<1> QED
  BY <1>1, <1>2, <1>3, <1>4 DEF Causes

-----------------------------------------------------------------------------
(* The actions. *)

LEMMA BoardInit == Init => BoardInv
<1> SUFFICES ASSUME Init PROVE BoardInv
  OBVIOUS
<1>1. TypeOK
  BY BoardAssumption DEF Init, TypeOK, NoCall, Call
<1>2. \A n \in Names : StreakOK(n)
  BY DEF Init, StreakOK, NoBreaker
<1>3. \A c \in Callers : CallOK(c)
  BY DEF Init, CallOK, NoCall
<1>4. TrialInFlight
  BY DEF Init, TrialInFlight, NoBreaker
<1> QED
  BY <1>1, <1>2, <1>3, <1>4 DEF BoardInv

LEMMA BreakerForms ==
  /\ Fresh \in Breaker /\ Open \in Breaker /\ HalfOpen \in Breaker
  /\ Fresh.state = "closed" /\ Fresh.window = <<>>
  /\ Open.state = "open" /\ HalfOpen.state = "half-open"
  /\ NoBreaker.state = "none"
  /\ EndsWith(<<>>, 0)
  BY BoardAssumption
     DEF Fresh, Open, HalfOpen, NoBreaker, Breaker, Refusals, Windows, EndsWith

LEMMA ExecuteKeeps ==
  ASSUME BoardInv, NEW c \in Callers, NEW n \in Names, NEW budget \in BOOLEAN,
         Execute(c, n, budget)
  PROVE  BoardInv'
<1> DEFINE b == breaker(n)
           begun == [NoCall EXCEPT !.name = n, !.budget = budget]
           running == [begun EXCEPT !.at = "running"]
<1>0. /\ TypeOK /\ call[c].at = "idle" /\ call[c] \in Call
      /\ sick' = sick /\ streak' = streak /\ charged' = charged
  BY DEF BoardInv, TypeOK, Execute
<1>1. running \in Call /\ running.at = "running" /\ running.name = n
  BY DEF NoCall, Call
<1>b. b \in Breaker /\ (cb[n] # NoBreaker => b = cb[n]) /\ (cb[n] = NoBreaker => b = Fresh)
  BY <1>0, BreakerForms DEF TypeOK, breaker
<1> HIDE DEF running, begun, b
<1>2. CASE /\ b.state = "closed"
           /\ cb' = [cb EXCEPT ![n] = b]
           /\ call' = [call EXCEPT ![c] = running]
           /\ UNCHANGED trial
  <2>1. TypeOK'
    BY <1>0, <1>1, <1>2, <1>b DEF TypeOK
  <2>2. \A m \in Names : StreakOK(m)'
    <3> SUFFICES ASSUME NEW m \in Names PROVE StreakOK(m)'
      OBVIOUS
    <3>1. CASE cb[n] = NoBreaker /\ m = n
      BY <1>0, <1>2, <1>b, <3>1, BreakerForms, BoardAssumption DEF BoardInv, StreakOK, TypeOK
    <3>2. CASE ~(cb[n] = NoBreaker /\ m = n)
      <4>1. cb'[m] = cb[m]
        BY <1>0, <1>2, <1>b, <3>2 DEF TypeOK
      <4> QED
        BY <1>0, <4>1 DEF BoardInv, StreakOK
    <3> QED
      BY <3>1, <3>2
  <2>3. \A d \in Callers : CallOK(d)'
    BY <1>0, <1>1, <1>2, <1>b DEF BoardInv, CallOK, TypeOK
  <2>4. TrialInFlight'
    BY <1>0, <1>1, <1>2, <1>b DEF BoardInv, TrialInFlight, TypeOK
  <2> QED
    BY <2>1, <2>2, <2>3, <2>4 DEF BoardInv
<1>3. CASE /\ b.state = "open" /\ b.due
           /\ cb' = [cb EXCEPT ![n] = HalfOpen]
           /\ call' = [call EXCEPT ![c] = running]
           /\ trial' = [trial EXCEPT ![n] = c]
  <2>1. TypeOK'
    BY <1>0, <1>1, <1>3, BreakerForms DEF TypeOK
  <2>2. \A m \in Names : StreakOK(m)'
    BY <1>0, <1>3, BreakerForms DEF BoardInv, StreakOK, TypeOK
  <2>3. \A d \in Callers : CallOK(d)'
    BY <1>0, <1>1, <1>3, BreakerForms DEF BoardInv, CallOK, TypeOK
  <2>4. TrialInFlight'
    BY <1>0, <1>1, <1>3, BreakerForms DEF BoardInv, TrialInFlight, TypeOK
  <2> QED
    BY <2>1, <2>2, <2>3, <2>4 DEF BoardInv
<1>4. CASE /\ call' = [call EXCEPT ![c].at = "done"]
           /\ UNCHANGED <<cb, trial>>
  <2>1. TypeOK'
    BY <1>0, <1>4 DEF TypeOK, Call
  <2>2. \A m \in Names : StreakOK(m)'
    BY <1>0, <1>4 DEF BoardInv, StreakOK
  <2>3. \A d \in Callers : CallOK(d)'
    BY <1>0, <1>4 DEF BoardInv, CallOK, TypeOK, Call
  <2>4. TrialInFlight'
    BY <1>0, <1>4 DEF BoardInv, TrialInFlight, TypeOK, Call
  <2> QED
    BY <2>1, <2>2, <2>3, <2>4 DEF BoardInv
<1> QED
  BY <1>2, <1>3, <1>4 DEF Execute, running, begun, b

(* What an answer makes of its breaker and of the runs of calls, of which  *)
(* the two parts of the invariant and OpensOnlyForStreak follow.     *)
LEMMA AnswerRecords ==
  ASSUME BoardInv, NEW c \in Callers, NEW cause \in Causes, Answer(c, cause)
  PROVE  LET n == call[c].name IN
         /\ n \in Names /\ cb[n] \in Breaker
         /\ cb' = [cb EXCEPT ![n] = Recorded(cb[n], Charges(cause))]
         /\ streak' = [streak EXCEPT ![n] = Counted(streak[n], cause = "backend")]
         /\ charged' = [charged EXCEPT ![n] = Counted(charged[n], Charges(cause))]
<1> DEFINE n == call[c].name
<1>1. /\ TypeOK /\ call[c] \in Call /\ call[c].budget \in BOOLEAN
      /\ n \in Names /\ cb[n].state # "none"
  BY DEF BoardInv, CallOK, Answer, TypeOK, Call
<1>2. cb[n] \in Breaker
  BY <1>1, BreakerForms DEF TypeOK
<1>3. PICK end \in EndsOf(cause, call[c].budget) :
        cb' = [cb EXCEPT ![n] = Recorded(@, backendFault(call[c].budget, end))]
  BY DEF Answer
<1>4. backendFault(call[c].budget, end) = Charges(cause)
  <2>1. backendFault(call[c].budget, end) <=> Charges(cause)
    BY <1>1, FaultIsCharged
  <2>2. backendFault(call[c].budget, end) \in BOOLEAN /\ Charges(cause) \in BOOLEAN
    BY DEF backendFault, Charges
  <2> QED
    BY <2>1, <2>2
<1>5. cb' = [cb EXCEPT ![n] = Recorded(cb[n], Charges(cause))]
  BY <1>3, <1>4
<1>6. /\ streak' = [streak EXCEPT ![n] = Counted(streak[n], cause = "backend")]
      /\ charged' = [charged EXCEPT ![n] = Counted(charged[n], Charges(cause))]
  BY DEF Answer
<1> QED
  BY <1>1, <1>2, <1>5, <1>6

LEMMA RecordedFacts ==
  ASSUME NEW b \in Breaker, NEW k \in 0 .. Trip, NEW fault \in BOOLEAN,
         b.state = "closed" => k < Trip /\ EndsWith(b.window, k)
  PROVE  LET r == Recorded(b, fault)
             j == Counted(k, fault)
         IN /\ r \in Breaker /\ r.state # "half-open"
            /\ j \in 0 .. Trip
            /\ r.state = "closed" => j < Trip /\ EndsWith(r.window, j)
            /\ b.state = "closed" /\ r.state = "open" => j = Trip
<1> DEFINE r == Recorded(b, fault)
           j == Counted(k, fault)
           w == b.window
<1>0. /\ w \in Windows /\ b.state \in {"closed", "open", "half-open"}
      /\ Trip \in Nat \ {0} /\ k \in Nat
  BY BoardAssumption DEF Breaker, Refusals
<1>1. /\ j \in 0 .. Trip
      /\ ~fault => j = 0
      /\ fault /\ k < Trip => j = k + 1
  BY <1>0 DEF Counted
<1>2. CASE b.state = "closed" /\ fault
  <2> DEFINE u == Kept(w, TRUE)
  <2>1. u \in Windows /\ EndsWith(u, k + 1) /\ (AllFaults(u) <=> k + 1 = Trip)
    BY <1>0, <1>2, KeptEntries, FaultCounts
  <2>2. r = IF AllFaults(u) THEN Open ELSE [b EXCEPT !.window = u]
    BY <1>2 DEF Recorded, AllFaults
  <2> HIDE DEF u, r, j
  <2>3. CASE AllFaults(u)
    <3>1. r = Open /\ j = k + 1 /\ k + 1 = Trip
      BY <1>1, <1>2, <2>1, <2>2, <2>3
    <3> QED
      BY <1>0, <1>1, <1>2, <3>1, BreakerForms DEF r, j
  <2>4. CASE ~AllFaults(u)
    <3>1. r \in Breaker /\ r.state = "closed" /\ r.window = u
      BY <1>2, <2>1, <2>2, <2>4 DEF Breaker
    <3>2. j = k + 1 /\ j < Trip
      BY <1>0, <1>1, <1>2, <2>1, <2>4
    <3> QED
      BY <1>1, <2>1, <3>1, <3>2 DEF r, j
  <2> QED
    BY <2>3, <2>4
<1>3. CASE b.state = "closed" /\ ~fault
  <2> DEFINE u == Kept(w, FALSE)
  <2>1. u \in Windows /\ EndsWith(u, 0) /\ ~AllFaults(u)
    BY <1>0, KeptEntries, AnswerEndsRun
  <2>2. fault = FALSE
    BY <1>3
  <2>3. r = [b EXCEPT !.window = u]
    BY <1>3, <2>1, <2>2 DEF Recorded, AllFaults
  <2> HIDE DEF u, r, j
  <2>4. r \in Breaker /\ r.state = "closed" /\ r.window = u
    BY <1>3, <2>1, <2>3 DEF Breaker
  <2> QED
    BY <1>0, <1>1, <1>3, <2>1, <2>4 DEF r, j
<1>4. CASE b.state = "half-open"
  <2>1. r = IF fault THEN Open ELSE Fresh
    BY <1>4 DEF Recorded
  <2> HIDE DEF r, j
  <2> QED
    BY <1>0, <1>1, <1>4, <2>1, BreakerForms DEF r, j
<1>5. CASE b.state = "open"
  <2>1. r = b
    BY <1>5 DEF Recorded
  <2> HIDE DEF r, j
  <2> QED
    BY <1>1, <1>5, <2>1 DEF r, j
<1> QED
  BY <1>0, <1>2, <1>3, <1>4, <1>5

LEMMA AnswerKeeps ==
  ASSUME BoardInv, NEW c \in Callers, NEW cause \in Causes, Answer(c, cause)
  PROVE  BoardInv'
<1> DEFINE n == call[c].name
           r == Recorded(cb[n], Charges(cause))
           k == Counted(streak[n], cause = "backend")
           j == Counted(charged[n], Charges(cause))
<1>0. /\ TypeOK /\ n \in Names /\ cb[n] \in Breaker
      /\ cb' = [cb EXCEPT ![n] = r]
      /\ streak' = [streak EXCEPT ![n] = k] /\ charged' = [charged EXCEPT ![n] = j]
  BY AnswerRecords DEF BoardInv
<1>1. /\ r \in Breaker /\ r.state # "half-open" /\ j \in 0 .. Trip
      /\ r.state = "closed" => j < Trip /\ EndsWith(r.window, j)
  <2>1. cb[n].state = "closed" => charged[n] < Trip /\ EndsWith(cb[n].window, charged[n])
    BY <1>0 DEF BoardInv, StreakOK
  <2>2. Charges(cause) \in BOOLEAN /\ charged[n] \in 0 .. Trip
    BY <1>0 DEF Charges, TypeOK
  <2> HIDE DEF n
  <2> QED
    BY <1>0, <2>1, <2>2, RecordedFacts
<1>2. /\ call' = [call EXCEPT ![c] = [NoCall EXCEPT !.at = "done"]]
      /\ UNCHANGED <<sick, trial>>
      /\ [NoCall EXCEPT !.at = "done"] \in Call
      /\ [NoCall EXCEPT !.at = "done"].at = "done"
  BY DEF Answer, NoCall, Call
<1>3. r.state # "none"
  BY <1>1 DEF Breaker, Refusals
<1>8. k \in 0 .. Trip /\ k <= j
  <2>1. streak[n] \in 0 .. Trip /\ charged[n] \in 0 .. Trip /\ streak[n] <= charged[n]
    BY <1>0 DEF TypeOK, BoardInv, StreakOK
  <2> QED
    BY <2>1, BoardAssumption DEF Counted, Charges
<1> HIDE DEF r, j, k, n
<1>4. TypeOK'
  BY <1>0, <1>1, <1>2, <1>8 DEF TypeOK
<1>5. \A m \in Names : StreakOK(m)'
  BY <1>0, <1>1, <1>3, <1>8 DEF BoardInv, StreakOK, TypeOK
<1>6. \A d \in Callers : CallOK(d)'
  BY <1>0, <1>2, <1>3 DEF BoardInv, CallOK, TypeOK
<1>7. TrialInFlight'
  <2> SUFFICES ASSUME NEW m \in Names, cb'[m].state = "half-open"
               PROVE  \E d \in Callers : /\ trial'[m] = d /\ call'[d].at = "running"
                                         /\ call'[d].name = m
    BY DEF TrialInFlight
  <2>1. m # n /\ cb'[m] = cb[m]
    BY <1>0, <1>1 DEF TypeOK
  <2>2. PICK d \in Callers : trial[m] = d /\ call[d].at = "running" /\ call[d].name = m
    BY <2>1 DEF BoardInv, TrialInFlight
  <2>3. d # c
    BY <2>1, <2>2 DEF n
  <2> QED
    BY <1>0, <1>2, <2>2, <2>3 DEF TypeOK
<1> QED
  BY <1>4, <1>5, <1>6, <1>7 DEF BoardInv

LEMMA ReturnKeeps ==
  ASSUME BoardInv, NEW c \in Callers, Return(c)
  PROVE  BoardInv'
<1>0. /\ TypeOK /\ call[c].at = "done" /\ call' = [call EXCEPT ![c] = NoCall]
      /\ UNCHANGED <<cb, sick, streak, charged, trial>>
      /\ NoCall \in Call /\ NoCall.at = "idle"
  BY DEF BoardInv, Return, NoCall, Call
<1>1. TypeOK'
  BY <1>0 DEF TypeOK
<1>2. \A m \in Names : StreakOK(m)'
  BY <1>0 DEF BoardInv, StreakOK
<1>3. \A d \in Callers : CallOK(d)'
  BY <1>0 DEF BoardInv, CallOK, TypeOK
<1>4. TrialInFlight'
  BY <1>0 DEF BoardInv, TrialInFlight, TypeOK
<1> QED
  BY <1>1, <1>2, <1>3, <1>4 DEF BoardInv

LEMMA DelayPassesKeeps ==
  ASSUME BoardInv, NEW n \in Names, DelayPasses(n)
  PROVE  BoardInv'
<1>0. /\ TypeOK /\ cb[n].state = "open" /\ cb' = [cb EXCEPT ![n].due = TRUE]
      /\ UNCHANGED <<call, sick, streak, charged, trial>>
  BY DEF BoardInv, DelayPasses
<1>1. cb[n] \in Breaker
  BY <1>0, BreakerForms DEF TypeOK
<1>2. [cb[n] EXCEPT !.due = TRUE] \in Breaker /\ [cb[n] EXCEPT !.due = TRUE].state = "open"
  BY <1>0, <1>1 DEF Breaker
<1>3. TypeOK'
  BY <1>0, <1>2 DEF TypeOK
<1>4. \A m \in Names : StreakOK(m)'
  BY <1>0, <1>2 DEF BoardInv, StreakOK, TypeOK
<1>5. \A d \in Callers : CallOK(d)'
  BY <1>0, <1>2 DEF BoardInv, CallOK, TypeOK
<1>6. TrialInFlight'
  BY <1>0, <1>2 DEF BoardInv, TrialInFlight, TypeOK
<1> QED
  BY <1>3, <1>4, <1>5, <1>6 DEF BoardInv

LEMMA BackendTurnsKeeps ==
  ASSUME BoardInv, NEW n \in Names, BackendTurns(n)
  PROVE  BoardInv'
  BY DEF BoardInv, BackendTurns, TypeOK, StreakOK, CallOK, TrialInFlight

LEMMA BoardStep == BoardInv /\ [Next]_vars => BoardInv'
<1> SUFFICES ASSUME BoardInv, [Next]_vars PROVE BoardInv'
  OBVIOUS
<1>1. CASE \E c \in Callers : Ending(c)
  BY <1>1, AnswerKeeps, ReturnKeeps DEF Ending
<1>2. CASE \E c \in Callers, n \in Names : Calling(c, n)
  BY <1>2, ExecuteKeeps DEF Calling
<1>3. CASE \E n \in Names : DelayPasses(n) \/ BackendTurns(n)
  BY <1>3, DelayPassesKeeps, BackendTurnsKeeps
<1>4. CASE UNCHANGED vars
  BY <1>4 DEF vars, BoardInv, TypeOK, StreakOK, CallOK, TrialInFlight
<1> QED
  BY <1>1, <1>2, <1>3, <1>4 DEF Next

-----------------------------------------------------------------------------
(* The theorems. *)

(* The inductive invariant: the run of calls a backend was charged for is  *)
(* what the window of a closed breaker ends with, and covers the run of    *)
(* those it failed (board.go counts the last Trip results).                *)
THEOREM BoardInvariant == Spec => []BoardInv
  BY BoardInit, BoardStep, PTL DEF Spec

(* The variables keep their types.                                         *)
THEOREM BoardTypeCorrect == Spec => []TypeOK
<1>1. BoardInv => TypeOK
  BY DEF BoardInv
<1> QED
  BY <1>1, BoardInvariant, PTL

(* A backend that failed its last Trip calls is not being dialed freely    *)
(* (Execute refuses, or lets one trial through).                           *)
THEOREM ClosedAlwaysTrusted == Spec => []ClosedMeansTrusted
<1>1. BoardInv => ClosedMeansTrusted
  BY BoardAssumption DEF BoardInv, StreakOK, TypeOK, ClosedMeansTrusted
<1> QED
  BY <1>1, BoardInvariant, PTL

(* A half-open breaker has its trial call in flight (board.go:90-91).      *)
THEOREM TrialAlwaysInFlight == Spec => []TrialInFlight
<1>1. BoardInv => TrialInFlight
  BY DEF BoardInv
<1> QED
  BY <1>1, BoardInvariant, PTL

(* A closed breaker opens only for Trip calls in a row each of which the   *)
(* backend failed, or was charged for though its caller had ended it and   *)
(* the error did not tell (backendFault, bifrostErr).                      *)
THEOREM OnlyStreakOpens == Spec => OpensOnlyForStreak
<1> DEFINE Opening == \A n \in Names : cb[n].state = "closed" /\ cb'[n].state = "open" =>
                        charged'[n] = Trip
<1>1. BoardInv /\ [Next]_vars => [Opening]_vars
  <2> SUFFICES ASSUME BoardInv, [Next]_vars, NEW n \in Names,
                      cb[n].state = "closed", cb'[n].state = "open"
               PROVE  charged'[n] = Trip
    OBVIOUS
  <2>0. TypeOK
    BY DEF BoardInv
  <2>1. CASE \E c \in Callers : Ending(c)
    <3>1. CASE \E c \in Callers : Return(c)
      BY <3>1 DEF Return
    <3>2. CASE \E c \in Callers, cause \in Causes : Answer(c, cause)
      <4>1. PICK c \in Callers, cause \in Causes : Answer(c, cause)
        BY <3>2
      <4>2. /\ call[c].name \in Names /\ cb[call[c].name] \in Breaker
            /\ cb' = [cb EXCEPT ![call[c].name] = Recorded(cb[call[c].name], Charges(cause))]
            /\ charged' = [charged EXCEPT ![call[c].name] = Counted(charged[call[c].name], Charges(cause))]
        BY <4>1, AnswerRecords
      <4>3. call[c].name = n
        BY <2>0, <4>2 DEF TypeOK
      <4>4. /\ charged[n] \in 0 .. Trip /\ charged[n] < Trip /\ EndsWith(cb[n].window, charged[n])
            /\ Charges(cause) \in BOOLEAN
        BY <2>0 DEF TypeOK, BoardInv, StreakOK, Charges
      <4>5. cb'[n] = Recorded(cb[n], Charges(cause)) /\ charged'[n] = Counted(charged[n], Charges(cause))
        BY <2>0, <4>2, <4>3 DEF TypeOK
      <4>6. charged'[n] = Trip
        BY <4>2, <4>3, <4>4, <4>5, RecordedFacts
      <4> QED
        BY <4>6
    <3> QED
      BY <2>1, <3>1, <3>2 DEF Ending
  <2>2. CASE \E c \in Callers, m \in Names : Calling(c, m)
    <3>1. PICK c \in Callers, m \in Names, budget \in BOOLEAN : Execute(c, m, budget)
      BY <2>2 DEF Calling
    <3>2. cb'[n].state # "open"
      BY <2>0, <3>1, BreakerForms DEF Execute, TypeOK, breaker
    <3> QED
      BY <3>2
  <2>3. CASE \E m \in Names : DelayPasses(m) \/ BackendTurns(m)
    BY <2>0, <2>3 DEF DelayPasses, BackendTurns, TypeOK
  <2>4. CASE UNCHANGED vars
    BY <2>4 DEF vars
  <2> QED
    BY <2>1, <2>2, <2>3, <2>4 DEF Next
<1> QED
  BY <1>1, BoardInvariant, PTL DEF Spec, OpensOnlyForStreak

-----------------------------------------------------------------------------
(***************************************************************************)
(* Outbound: what is sent, what stays open, and what the caller is told.   *)
(***************************************************************************)

CallModes == {"do"} \cup UNION {Modes[c] : c \in Calls}

CallType ==
    [at : {"idle", "sending", "waiting", "over", "back"}, mode : CallModes,
     sent : 0 .. maxRetries + 1, resp : Answers \cup {"none"},
     last : Answers \cup {"none"}, bodies : Nat, err : Errors,
     ctx : {"live", "timeout", "canceled"}, code : Codes]

Held(r) == IF r.resp # "none" THEN 1 ELSE 0

\* What is true of a call where it is.  The conjuncts of one place are what
\* the step from there needs: only a fault that may be retried waits, and an
\* attempt begins with nothing held.
InPlace(r) ==
    /\ r.at \in {"idle", "back"} => r.sent = 0
    /\ r.at \in {"sending", "waiting", "over"} =>
         /\ r.bodies = Held(r) /\ r.resp = r.last /\ r.code = "none"
         /\ ~retries(r.mode) => r.sent <= 1
    /\ r.at = "sending" => r.resp = "none"
    /\ r.at = "waiting" => r.err = "fault" /\ retries(r.mode) /\ r.sent <= maxRetries
    /\ r.at = "over" =>
         /\ r.err = "ctx" => r.ctx # "live" /\ (r.mode = "once" => r.resp = "none")
         /\ r.mode = "once" /\ r.last = "throttle" => r.err = "none"
    /\ r.at = "back" =>
         /\ r.resp = r.last
         /\ r.bodies = IF r.resp # "none" /\ r.code = "none" THEN 1 ELSE 0
         /\ r.code \in {"timeout", "canceled"} => r.code = r.ctx
         /\ r.err = "ctx" => r.code = r.ctx
         /\ r.code = "unavailable" => r.ctx = "live"

CallInv(r) == r \in CallType /\ InPlace(r)

\* The breaker keeps at most as many results as it needs to trip.
BreakerType ==
    [state : {"closed", "open", "half-open"}, window : Seq(BOOLEAN), out : Int, due : BOOLEAN]

GoodBreaker(b) == b \in BreakerType /\ Len(b.window) <= Threshold

OutboundInv ==
  /\ GoodBreaker(dep)
  /\ calls = [c \in Calls |-> calls[c]]
  /\ \A c \in Calls : CallInv(calls[c])
  /\ faulty \in BOOLEAN

-----------------------------------------------------------------------------
(* The breaker.                                                            *)

LEMMA KeptIsShort ==
  ASSUME OutboundAssumption, NEW w \in Seq(BOOLEAN), Len(w) <= Threshold, NEW fault \in BOOLEAN
  PROVE  /\ Latest(w, fault) \in Seq(BOOLEAN)
         /\ Len(Latest(w, fault)) \in 1 .. Threshold
         /\ Latest(w, fault)[Len(Latest(w, fault))] = fault
  <1> DEFINE v == Append(w, fault)
  <1>1. v \in Seq(BOOLEAN) /\ Len(v) = Len(w) + 1 /\ v[Len(w) + 1] = fault /\ Len(w) \in Nat
    OBVIOUS
  <1>2. CASE Len(v) > Threshold
    <2>1. Tail(v) \in Seq(BOOLEAN) /\ Len(Tail(v)) = Len(w) /\ Len(w) = Threshold
      BY <1>1, <1>2 DEF OutboundAssumption
    <2>2. Tail(v)[Len(w)] = v[Len(w) + 1]
      BY <1>1, <2>1 DEF OutboundAssumption
    <2> QED BY <1>1, <1>2, <2>1, <2>2 DEF Latest, OutboundAssumption
  <1>3. CASE ~(Len(v) > Threshold)
    BY <1>1, <1>3 DEF Latest, OutboundAssumption
  <1> QED BY <1>2, <1>3

LEMMA NewBreakers ==
  ASSUME OutboundAssumption
  PROVE  GoodBreaker(Closed) /\ GoodBreaker(Opened) /\ GoodBreaker([HalfOpened EXCEPT !.out = 1])
  <1>1. <<>> \in Seq(BOOLEAN) /\ Len(<<>>) = 0
    OBVIOUS
  <1>2. Closed \in BreakerType /\ Closed.window = <<>>
    BY <1>1 DEF Closed, BreakerType
  <1>3. Opened \in BreakerType /\ Opened.window = <<>>
    BY <1>2 DEF Opened, BreakerType
  <1>4. HalfOpened \in BreakerType /\ HalfOpened.window = <<>>
    BY <1>2 DEF HalfOpened, BreakerType
  <1>5. [HalfOpened EXCEPT !.out = 1] \in BreakerType /\ [HalfOpened EXCEPT !.out = 1].window = <<>>
    BY <1>4 DEF BreakerType
  <1> QED BY <1>1, <1>2, <1>3, <1>5 DEF GoodBreaker, OutboundAssumption

LEMMA RecordedIsGood ==
  ASSUME OutboundAssumption, NEW b, GoodBreaker(b), NEW fault \in BOOLEAN
  PROVE  GoodBreaker(Settled(b, fault))
  <1> DEFINE w == Latest(b.window, fault)
             trip == Len(w) = Threshold /\ \A i \in DOMAIN w : w[i]
             kept == [b EXCEPT !.window = w]
             less == b.out - 1
             tried == [b EXCEPT !.window = w, !.out = less]
  <1>0. b \in BreakerType /\ b.window \in Seq(BOOLEAN) /\ Len(b.window) <= Threshold
    BY DEF GoodBreaker, BreakerType
  <1>1. w \in Seq(BOOLEAN) /\ Len(w) <= Threshold
    BY <1>0, KeptIsShort
  <1>l. less \in Int
    BY <1>0 DEF BreakerType
  <1> HIDE DEF w, less
  <1>2. GoodBreaker(kept)
    BY <1>0, <1>1 DEF GoodBreaker, BreakerType
  <1>3. GoodBreaker(tried)
    BY <1>0, <1>1, <1>l DEF GoodBreaker, BreakerType
  <1> HIDE DEF kept, tried
  <1>4. Settled(b, fault) \in {b, Opened, Closed, kept, tried}
    <2> HIDE DEF trip
    <2>1. CASE b.state = "closed"
      BY <2>1 DEF Settled, w, trip, kept
    <2>2. CASE b.state = "half-open"
      BY <2>2 DEF Settled, w, trip, less, tried
    <2>3. CASE b.state \notin {"closed", "half-open"}
      BY <2>3 DEF Settled
    <2> QED BY <2>1, <2>2, <2>3
  <1> QED BY <1>2, <1>3, <1>4, NewBreakers

\* A success never opens the breaker.
LEMMA SuccessNeverOpens ==
  ASSUME OutboundAssumption, NEW b, GoodBreaker(b)
  PROVE  Settled(b, FALSE).state \in {b.state, "closed"}
  <1> DEFINE w == Latest(b.window, FALSE)
             trip == Len(w) = Threshold /\ \A i \in DOMAIN w : w[i]
             kept == [b EXCEPT !.window = w]
  <1>0. b \in BreakerType /\ b.window \in Seq(BOOLEAN) /\ Len(b.window) <= Threshold
    BY DEF GoodBreaker, BreakerType
  <1>1. w \in Seq(BOOLEAN) /\ Len(w) \in 1 .. Threshold /\ w[Len(w)] = FALSE
    BY <1>0, KeptIsShort
  <1> HIDE DEF w
  <1>2. ~trip
    BY <1>1
  <1> HIDE DEF trip
  <1>3. kept.state = b.state
    BY <1>0 DEF BreakerType
  <1>4. Closed.state = "closed"
    BY DEF Closed
  <1> HIDE DEF kept
  <1>5. CASE b.state = "closed"
    <2>1. Settled(b, FALSE) = kept
      BY <1>2, <1>5 DEF Settled, w, trip, kept
    <2> QED BY <1>3, <2>1
  <1>6. CASE b.state = "half-open"
    <2>1. Settled(b, FALSE) = Closed
      BY <1>2, <1>6 DEF Settled, w, trip
    <2> QED BY <1>4, <2>1
  <1>7. CASE b.state \notin {"closed", "half-open"}
    BY <1>7 DEF Settled
  <1> QED BY <1>5, <1>6, <1>7

LEMMA PermittedIsGood ==
  ASSUME OutboundAssumption, NEW b, GoodBreaker(b), NEW d \in Permitted(b)
  PROVE  GoodBreaker(d)
  <1>1. GoodBreaker([b EXCEPT !.out = @ + 1])
    BY DEF GoodBreaker, BreakerType
  <1>2. d \in {b, [b EXCEPT !.out = @ + 1], [HalfOpened EXCEPT !.out = 1]}
    BY DEF Permitted
  <1> QED BY <1>1, <1>2, NewBreakers

-----------------------------------------------------------------------------
(* A call, step by step.                                                   *)

LEMMA NoCallIsGood == OutboundAssumption => NoAttempt \in CallType /\ CallInv(NoAttempt)
  <1> SUFFICES ASSUME OutboundAssumption PROVE NoAttempt \in CallType /\ CallInv(NoAttempt)
    OBVIOUS
  <1>1. NoAttempt \in CallType
    BY DEF NoAttempt, CallType, CallModes, Answers, Errors, Codes, OutboundAssumption
  <1>2. NoAttempt.at = "idle" /\ NoAttempt.sent = 0
    BY DEF NoAttempt
  <1> QED BY <1>1, <1>2 DEF CallInv, InPlace

LEMMA SetKeeps ==
  ASSUME OutboundInv, NEW c \in Calls, NEW r, CallInv(r), Set(c, r), GoodBreaker(dep'), UNCHANGED faulty
  PROVE  OutboundInv'
  BY DEF OutboundInv, Set

LEMMA BeginKeeps ==
  ASSUME OutboundAssumption, OutboundInv, NEW c \in Calls, NEW mode \in Modes[c],
         NEW deadline \in BOOLEAN, Begin(c, mode, deadline)
  PROVE  OutboundInv'
  <1> DEFINE r == [NoAttempt EXCEPT !.mode = mode, !.sent = 1, !.at = "sending"]
             refused(code) == [r EXCEPT !.at = "back", !.sent = 0, !.code = code]
  <1>0. mode \in CallModes
    BY DEF CallModes
  <1>s. 1 \in 0 .. maxRetries + 1 /\ 0 \in 0 .. maxRetries + 1
    BY DEF OutboundAssumption
  <1>1. r \in CallType
    BY <1>0, <1>s, NoCallIsGood DEF CallType
  <1>2. r.at = "sending" /\ r.mode = mode /\ r.sent = 1 /\ r.resp = "none" /\ r.last = "none"
        /\ r.bodies = 0 /\ r.err = "none" /\ r.ctx = "live" /\ r.code = "none"
    BY DEF NoAttempt
  <1> HIDE DEF r
  <1>3. CallInv(r)
    BY <1>1, <1>2 DEF CallInv, InPlace, Held
  <1>4. ASSUME NEW code \in {"failed_precondition", "unavailable"} PROVE CallInv(refused(code))
    <2>1. refused(code) \in CallType
      BY <1>1, <1>4, <1>s DEF CallType, Codes
    <2>2. refused(code).at = "back" /\ refused(code).sent = 0 /\ refused(code).code = code
          /\ refused(code).resp = "none" /\ refused(code).last = "none" /\ refused(code).bodies = 0
          /\ refused(code).err = "none" /\ refused(code).ctx = "live"
      BY <1>1, <1>2 DEF CallType
    <2> HIDE DEF refused
    <2> QED BY <1>4, <2>1, <2>2 DEF CallInv, InPlace
  <1>5. GoodBreaker(dep') /\ UNCHANGED faulty
    <2>1. UNCHANGED faulty /\ (UNCHANGED dep \/ dep' \in Permitted(dep))
      BY DEF Begin
    <2> QED BY <2>1, PermittedIsGood DEF OutboundInv
  <1>6. \/ Set(c, r) \/ Set(c, refused("failed_precondition")) \/ Set(c, refused("unavailable"))
    BY DEF Begin, r
  <1> HIDE DEF refused
  <1> QED BY <1>3, <1>4, <1>5, <1>6, SetKeeps

\* What is true of an attempt that ended, whatever it ended with.
EndsWell(r) ==
    /\ r \in CallType /\ r.at = "sending" /\ r.bodies = Held(r) /\ r.resp = r.last
    /\ r.code = "none"
    /\ ~retries(r.mode) => r.sent <= 1
    /\ r.err = "ctx" => r.ctx # "live" /\ (r.mode = "once" => r.resp = "none")
    /\ r.mode = "once" /\ r.last = "throttle" => r.err = "none"

\* It leaves the call waiting for the next one or over.
LEMMA AttemptedKeeps ==
  ASSUME OutboundAssumption, OutboundInv, NEW c \in Calls, NEW r, Attempted(c, r), EndsWell(r),
         UNCHANGED <<dep, faulty>>
  PROVE  OutboundInv'
  <1> DEFINE cut == [r EXCEPT !.err = "ctx"]
             e == IF retries(r.mode) /\ r.ctx \in {"timeout", "canceled"} THEN cut ELSE r
             next == IF TriesAgain(e) THEN "waiting" ELSE "over"
             s == [e EXCEPT !.at = next]
  <1>1. EndsWell(e)
    <2>1. CASE retries(r.mode) /\ r.ctx \in {"timeout", "canceled"}
      <3>1. cut \in CallType
        BY DEF EndsWell, CallType, Errors
      <3>2. cut.at = r.at /\ cut.bodies = r.bodies /\ cut.resp = r.resp /\ cut.last = r.last
            /\ cut.code = r.code /\ cut.mode = r.mode /\ cut.sent = r.sent /\ cut.ctx = r.ctx
        BY DEF EndsWell, CallType
      <3>3. e = cut
        BY <2>1
      <3> HIDE DEF cut, e
      <3> QED BY <2>1, <3>1, <3>2, <3>3 DEF EndsWell, Held, retries
    <2>2. CASE ~(retries(r.mode) /\ r.ctx \in {"timeout", "canceled"})
      BY <2>2
    <2> QED BY <2>1, <2>2
  <1>2. Set(c, s)
    BY DEF Attempted
  <1> HIDE DEF e
  <1>3. s \in CallType
    BY <1>1 DEF EndsWell, CallType
  <1>4. s.at = next /\ s.bodies = e.bodies /\ s.resp = e.resp /\ s.last = e.last /\ s.code = e.code
        /\ s.mode = e.mode /\ s.sent = e.sent /\ s.ctx = e.ctx /\ s.err = e.err
    BY <1>1 DEF EndsWell, CallType
  <1>5. next \in {"waiting", "over"}
        /\ (next = "waiting" => e.err = "fault" /\ retries(e.mode) /\ e.sent <= maxRetries)
    BY DEF TriesAgain
  <1> HIDE DEF s, next
  <1>6. CallInv(s)
    BY <1>1, <1>3, <1>4, <1>5 DEF EndsWell, CallInv, InPlace, Held
  <1>7. GoodBreaker(dep')
    BY DEF OutboundInv
  <1> QED BY <1>2, <1>6, <1>7, SetKeeps

LEMMA AnsweredKeeps ==
  ASSUME OutboundAssumption, OutboundInv, NEW c \in Calls, NEW class \in Answers, Answered(c, class)
  PROVE  OutboundInv'
  <1> DEFINE q == calls[c]
  <1>0. PICK e \in Judged(q.mode, class) :
          Attempted(c, [q EXCEPT !.resp = class, !.last = class, !.bodies = @ + 1, !.err = e])
    BY DEF Answered
  <1> DEFINE r == [q EXCEPT !.resp = class, !.last = class, !.bodies = 1, !.err = e]
  <1>1. q \in CallType /\ InPlace(q) /\ q.at = "sending" /\ UNCHANGED <<dep, faulty>>
    BY DEF OutboundInv, Answered, CallInv
  <1>2. q.bodies = 0 /\ q.code = "none" /\ (~retries(q.mode) => q.sent <= 1)
    BY <1>1 DEF InPlace, Held
  <1>3. e \in {"none", "fault", "final"}
    BY <1>0 DEF Judged
  <1>4. q.mode = "once" /\ class = "throttle" => e = "none"
    <2>1. ~breakerStatusFailure("throttle")
      BY DEF breakerStatusFailure
    <2>2. Judged("once", "throttle") = {"none"}
      BY <2>1 DEF Judged
    <2> QED BY <1>0, <2>2
  <1>n. q.bodies + 1 = 1
    BY <1>2
  <1> HIDE DEF q
  <1>5. r \in CallType
    BY <1>1, <1>3 DEF CallType, Errors
  <1>6. r.at = "sending" /\ r.mode = q.mode /\ r.sent = q.sent /\ r.resp = class /\ r.last = class
        /\ r.bodies = 1 /\ r.err = e /\ r.code = "none"
    BY <1>1, <1>2 DEF CallType
  <1>7. class # "none"
    BY DEF Answers
  <1>8. Attempted(c, r)
    BY <1>0, <1>n
  <1> HIDE DEF r
  <1>9. EndsWell(r)
    BY <1>2, <1>3, <1>4, <1>5, <1>6, <1>7 DEF EndsWell, Held
  <1> QED BY <1>1, <1>8, <1>9, AttemptedKeeps

LEMMA BrokenKeeps ==
  ASSUME OutboundAssumption, OutboundInv, NEW c \in Calls, Broken(c)
  PROVE  OutboundInv'
  <1> DEFINE q == calls[c]
  <1>0. PICK e \in Errors : Attempted(c, [q EXCEPT !.err = e]) /\ (e = "ctx" => q.ctx # "live")
    BY DEF Broken, Errors
  <1> DEFINE r == [q EXCEPT !.err = e]
  <1>1. q \in CallType /\ InPlace(q) /\ q.at = "sending" /\ UNCHANGED <<dep, faulty>>
    BY DEF OutboundInv, Broken, CallInv
  <1>2. q.bodies = 0 /\ q.code = "none" /\ q.resp = "none" /\ q.last = "none"
        /\ (~retries(q.mode) => q.sent <= 1)
    BY <1>1 DEF InPlace, Held
  <1> HIDE DEF q
  <1>3. r \in CallType
    BY <1>1 DEF CallType
  <1>4. r.at = "sending" /\ r.mode = q.mode /\ r.sent = q.sent /\ r.resp = "none" /\ r.last = "none"
        /\ r.bodies = 0 /\ r.err = e /\ r.code = "none" /\ r.ctx = q.ctx
    BY <1>1, <1>2 DEF CallType
  <1>5. Attempted(c, r)
    BY <1>0
  <1> HIDE DEF r
  <1>6. EndsWell(r)
    BY <1>0, <1>2, <1>3, <1>4 DEF EndsWell, Held
  <1> QED BY <1>1, <1>5, <1>6, AttemptedKeeps

LEMMA AgainKeeps ==
  ASSUME OutboundAssumption, OutboundInv, NEW c \in Calls, Again(c)
  PROVE  OutboundInv'
  <1> DEFINE q == calls[c]
             left == IF q.resp = "none" THEN q.bodies ELSE q.bodies - 1
             r == [q EXCEPT !.at = "sending", !.sent = q.sent + 1, !.resp = "none",
                            !.last = "none", !.bodies = left]
  <1>1. q \in CallType /\ InPlace(q) /\ q.at = "waiting" /\ UNCHANGED faulty /\ GoodBreaker(dep')
    BY DEF OutboundInv, Again, CallInv
  <1>2. Set(c, r)
    BY DEF Again
  <1>3. left = 0 /\ q.code = "none" /\ retries(q.mode) /\ q.sent <= maxRetries
    BY <1>1 DEF InPlace, Held
  <1> HIDE DEF q, left
  <1>4. q.sent + 1 \in 0 .. maxRetries + 1
    BY <1>1, <1>3 DEF CallType, OutboundAssumption
  <1>5. r \in CallType
    BY <1>1, <1>3, <1>4 DEF CallType
  <1>6. r.at = "sending" /\ r.mode = q.mode /\ r.resp = "none" /\ r.last = "none"
        /\ r.bodies = 0 /\ r.code = "none"
    BY <1>1, <1>3 DEF CallType
  <1> HIDE DEF r
  <1>7. CallInv(r)
    BY <1>3, <1>5, <1>6 DEF CallInv, InPlace, Held
  <1> QED BY <1>1, <1>2, <1>7, SetKeeps

LEMMA GiveUpKeeps ==
  ASSUME OutboundAssumption, OutboundInv, NEW c \in Calls, GiveUp(c)
  PROVE  OutboundInv'
  <1> DEFINE q == calls[c]
             r == [q EXCEPT !.at = "over", !.err = "ctx"]
  <1>1. q \in CallType /\ InPlace(q) /\ q.at = "waiting" /\ q.ctx # "live"
        /\ UNCHANGED faulty /\ GoodBreaker(dep')
    BY DEF OutboundInv, GiveUp, CallInv
  <1>2. Set(c, r)
    BY DEF GiveUp
  <1> HIDE DEF q
  <1>3. r \in CallType
    BY <1>1 DEF CallType, Errors
  <1>4. r.at = "over" /\ r.err = "ctx" /\ r.mode = q.mode /\ r.sent = q.sent /\ r.resp = q.resp
        /\ r.last = q.last /\ r.bodies = q.bodies /\ r.code = q.code /\ r.ctx = q.ctx
    BY <1>1 DEF CallType
  <1>5. retries(q.mode) /\ q.mode # "once"
    BY <1>1 DEF InPlace, retries
  <1> HIDE DEF r
  <1>6. CallInv(r)
    BY <1>1, <1>3, <1>4, <1>5 DEF CallInv, InPlace, Held
  <1> QED BY <1>1, <1>2, <1>6, SetKeeps

LEMMA ContextEndsKeeps ==
  ASSUME OutboundInv, NEW c \in Calls, NEW how \in {"timeout", "canceled"}, ContextEnds(c, how)
  PROVE  OutboundInv'
  <1> DEFINE q == calls[c]
             r == [q EXCEPT !.ctx = how]
  <1>1. q \in CallType /\ InPlace(q) /\ q.at \in {"sending", "waiting", "over"}
        /\ UNCHANGED faulty /\ GoodBreaker(dep')
    BY DEF OutboundInv, ContextEnds, CallInv
  <1>2. Set(c, r)
    BY DEF ContextEnds
  <1> HIDE DEF q
  <1>3. r \in CallType
    BY <1>1 DEF CallType
  <1>4. r.at = q.at /\ r.err = q.err /\ r.mode = q.mode /\ r.sent = q.sent /\ r.resp = q.resp
        /\ r.last = q.last /\ r.bodies = q.bodies /\ r.code = q.code /\ r.ctx = how
    BY <1>1 DEF CallType
  <1> HIDE DEF r
  <1>5. CallInv(r)
    BY <1>1, <1>3, <1>4 DEF CallInv, InPlace, Held
  <1> QED BY <1>1, <1>2, <1>5, SetKeeps

LEMMA ReturnedIsGood ==
  ASSUME OutboundAssumption, NEW r, CallInv(r), r.at = "over"
  PROVE  CallInv(Returned(r))
  <1> DEFINE cut == r.mode # "once" /\ r.err # "none" /\ r.ctx # "live"
             back == [NoAttempt EXCEPT !.at = "back", !.resp = r.resp, !.last = r.last,
                                    !.bodies = r.bodies, !.err = r.err, !.ctx = r.ctx]
  <1>1. r \in CallType /\ InPlace(r) /\ r.bodies = Held(r) /\ r.resp = r.last /\ r.code = "none"
    BY DEF CallInv, InPlace
  <1>2. back \in CallType
    BY <1>1, NoCallIsGood DEF CallType
  <1>3. back.at = "back" /\ back.resp = r.resp /\ back.last = r.last /\ back.sent = 0
        /\ back.bodies = r.bodies /\ back.err = r.err /\ back.ctx = r.ctx /\ back.code = "none"
    BY DEF NoAttempt
  <1>4. dialError(r) \in Codes /\ (dialError(r) = IF r.ctx = "live" THEN "unavailable" ELSE r.ctx)
    BY <1>1 DEF dialError, Codes, CallType
  <1>5. r.ctx \in {"live", "timeout", "canceled"}
    BY <1>1 DEF CallType
  <1> HIDE DEF back
  <1>6. CASE r.resp = "none"
    <2> DEFINE s == [back EXCEPT !.code = dialError(r)]
    <2>1. s \in CallType
      BY <1>2, <1>4 DEF CallType
    <2>2. s.at = "back" /\ s.resp = r.resp /\ s.last = r.last /\ s.sent = 0 /\ s.bodies = 0
          /\ s.err = r.err /\ s.ctx = r.ctx /\ s.code = dialError(r)
      BY <1>1, <1>2, <1>3, <1>6 DEF CallType, Held
    <2>3. Returned(r) = s
      BY <1>6 DEF Returned, back
    <2> HIDE DEF s
    <2>4. CallInv(s)
      BY <1>1, <1>4, <1>5, <1>6, <2>1, <2>2 DEF CallInv, InPlace
    <2> QED BY <2>3, <2>4
  <1>7. CASE r.resp # "none" /\ cut
    <2> DEFINE left == back.bodies - 1
               s == [back EXCEPT !.code = r.ctx, !.bodies = left]
    <2>1. left = 0 /\ r.ctx \in Codes
      BY <1>1, <1>3, <1>5, <1>7 DEF Held, Codes
    <2> HIDE DEF left
    <2>2. s \in CallType
      BY <1>2, <2>1 DEF CallType
    <2>3. s.at = "back" /\ s.resp = r.resp /\ s.last = r.last /\ s.sent = 0 /\ s.bodies = 0
          /\ s.err = r.err /\ s.ctx = r.ctx /\ s.code = r.ctx
      BY <1>2, <1>3, <2>1 DEF CallType
    <2>4. Returned(r) = s
      BY <1>7 DEF Returned, back, left
    <2> HIDE DEF s
    <2>5. CallInv(s)
      BY <1>1, <1>5, <1>7, <2>2, <2>3 DEF CallInv, InPlace
    <2> QED BY <2>4, <2>5
  <1>8. CASE r.resp # "none" /\ ~cut
    <2>1. Returned(r) = back
      BY <1>8 DEF Returned, back
    <2>2. back.bodies = 1 /\ back.err # "ctx"
      BY <1>1, <1>3, <1>8 DEF Held, InPlace
    <2>3. CallInv(back)
      BY <1>1, <1>2, <1>3, <1>8, <2>2 DEF CallInv, InPlace
    <2> QED BY <2>1, <2>3
  <1> QED BY <1>6, <1>7, <1>8

LEMMA FinishKeeps ==
  ASSUME OutboundAssumption, OutboundInv, NEW c \in Calls, Finish(c)
  PROVE  OutboundInv'
  <1>1. CallInv(calls[c]) /\ calls[c].at = "over" /\ UNCHANGED faulty /\ Set(c, Returned(calls[c]))
    BY DEF OutboundInv, Finish
  <1>2. GoodBreaker(dep')
    <2>1. dep' = dep \/ dep' = Settled(dep, calls[c].err = "fault")
      BY DEF Finish
    <2>2. (calls[c].err = "fault") \in BOOLEAN /\ GoodBreaker(dep)
      BY DEF OutboundInv
    <2>3. GoodBreaker(Settled(dep, calls[c].err = "fault"))
      BY <2>2, RecordedIsGood
    <2> QED BY <2>1, <2>2, <2>3
  <1> QED BY <1>1, <1>2, ReturnedIsGood, SetKeeps

LEMMA CloseKeeps ==
  ASSUME OutboundAssumption, OutboundInv, NEW c \in Calls, Close(c)
  PROVE  OutboundInv'
  <1>1. Set(c, NoAttempt) /\ UNCHANGED faulty /\ GoodBreaker(dep')
    BY DEF Close, OutboundInv
  <1> QED BY <1>1, NoCallIsGood, SetKeeps

LEMMA DelayKeeps ==
  ASSUME OutboundInv, DepDelayPasses
  PROVE  OutboundInv'
  <1>1. GoodBreaker([dep EXCEPT !.due = TRUE])
    BY DEF OutboundInv, GoodBreaker, BreakerType
  <1> QED BY <1>1 DEF OutboundInv, DepDelayPasses

\* Every call is where its fields say, and the breaker within its threshold.
THEOREM CallInvariant == OutboundSpec => []OutboundInv
  <1> USE OutboundAssumption
  <1>1. OutboundInit => OutboundInv
    BY NoCallIsGood, NewBreakers DEF OutboundInit, OutboundInv
  <1>2. OutboundInv /\ [OutboundNext]_outboundVars => OutboundInv'
    <2> SUFFICES ASSUME OutboundInv, [OutboundNext]_outboundVars PROVE OutboundInv'
      OBVIOUS
    <2>1. ASSUME NEW c \in Calls, Beginning(c) PROVE OutboundInv'
      BY <2>1, BeginKeeps DEF Beginning
    <2>2. ASSUME NEW c \in Calls, Attempting(c) PROVE OutboundInv'
      BY <2>2, AnsweredKeeps, BrokenKeeps, AgainKeeps, GiveUpKeeps DEF Attempting
    <2>3. ASSUME NEW c \in Calls, \E how \in {"timeout", "canceled"} : ContextEnds(c, how) PROVE OutboundInv'
      BY <2>3, ContextEndsKeeps
    <2>4. ASSUME NEW c \in Calls, Finish(c) \/ Close(c) PROVE OutboundInv'
      BY <2>4, FinishKeeps, CloseKeeps
    <2>5. CASE DepDelayPasses
      BY <2>5, DelayKeeps
    <2>6. CASE Turns \/ UNCHANGED outboundVars
      BY <2>6 DEF Turns, outboundVars, OutboundInv
    <2> QED BY <2>1, <2>2, <2>3, <2>4, <2>5, <2>6 DEF OutboundNext
  <1> QED BY <1>1, <1>2, PTL DEF OutboundSpec

-----------------------------------------------------------------------------
(* What follows.                                                           *)

\* The calls and the breaker keep their types: no call is tried more often than
\* its retries allow, and the breaker's window never outgrows its threshold.
THEOREM OutboundTypeCorrect == OutboundSpec => []OutboundTypeOK
  <1>1. OutboundInv => OutboundTypeOK
    BY DEF OutboundInv, GoodBreaker, BreakerType, CallInv, CallType, CallModes, OutboundTypeOK
  <1> QED BY <1>1, CallInvariant, PTL

\* A paid call, or one whose body is used up, goes out once, for any number of
\* retries configured.
THEOREM PaidCallsGoOnce == OutboundSpec => []SentOnce
  <1>1. OutboundInv => SentOnce
    BY DEF OutboundInv, CallInv, CallType, InPlace, SentOnce, retries
  <1> QED BY <1>1, CallInvariant, PTL

\* No way out of the retries leaves a body open.
THEOREM BodiesAreClosed == OutboundSpec => []NoBodyLeaks
  <1>1. OutboundInv => NoBodyLeaks
    BY DEF OutboundInv, CallInv, InPlace, NoBodyLeaks
  <1> QED BY <1>1, CallInvariant, PTL

\* The caller gets the last answer, or the true reason there is none.
THEOREM CallersHearTruth == OutboundSpec => []CallerHearsTruth
  <1>1. OutboundInv => CallerHearsTruth
    BY DEF OutboundInv, CallInv, InPlace, CallerHearsTruth, LastAnswer, TrueCause
  <1> QED BY <1>1, CallInvariant, PTL

\* A quota refusal of a paid call never opens the breaker, whatever the breaker
\* and the other calls are at.
THEOREM QuotaNeverTrips == OutboundSpec => QuotaStaysVisible
  <1> USE OutboundAssumption
  <1> DEFINE Visible(c) == calls[c].at = "over" /\ calls'[c].at = "back" /\ calls[c].mode = "once"
                             /\ calls[c].last = "throttle" => dep'.state \in {dep.state, "closed"}
  <1>1. OutboundInv /\ [OutboundNext]_outboundVars => [\A c \in Calls : Visible(c)]_outboundVars
    <2> SUFFICES ASSUME OutboundInv, [OutboundNext]_outboundVars, NEW c \in Calls, calls[c].at = "over", calls'[c].at = "back",
                        calls[c].mode = "once", calls[c].last = "throttle"
                 PROVE  dep'.state \in {dep.state, "closed"}
      BY Zenon
    <2>1. CASE Finish(c)
      <3>1. calls[c].err = "none"
        BY DEF OutboundInv, CallInv, InPlace
      <3>2. dep' = dep \/ dep' = Settled(dep, FALSE)
        BY <2>1, <3>1 DEF Finish
      <3> QED BY <3>2, SuccessNeverOpens DEF OutboundInv
    <2>2. CASE UNCHANGED dep
      BY <2>2
    <2>3. CASE ~Finish(c) /\ ~UNCHANGED dep
      <3>1. ASSUME NEW d \in Calls, Beginning(d) \/ Finish(d) PROVE d # c => calls'[c] = calls[c]
        BY <3>1 DEF Beginning, Begin, Finish, Set, OutboundInv
      <3>2. ASSUME Beginning(c) PROVE FALSE
        BY <3>2 DEF Beginning, Begin
      <3>3. DepDelayPasses => calls' = calls
        BY DEF DepDelayPasses
      <3>4. ASSUME NEW d \in Calls, Attempting(d) \/ Close(d) \/ \E how \in {"timeout", "canceled"} : ContextEnds(d, how)
            PROVE  UNCHANGED dep
        BY <3>4 DEF Attempting, Answered, Broken, Again, GiveUp, Close, ContextEnds
      <3> QED BY <2>3, <3>1, <3>2, <3>3, <3>4 DEF OutboundNext, Turns, outboundVars
    <2> QED BY <2>1, <2>2, <2>3
  <1> QED BY <1>1, CallInvariant, PTL DEF OutboundSpec, QuotaStaysVisible
=============================================================================
