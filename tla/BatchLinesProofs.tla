--------------------------- MODULE BatchLinesProofs ---------------------------
(***************************************************************************)
(* Proofs about BatchLines, for every set of ids and models and for input  *)
(* files of any length.                                                    *)
(*                                                                         *)
(* Reading comes first: by induction on the number of lines read, a file   *)
(* that is accepted is well formed.  Then the invariant: what is stored    *)
(* was checked, what a request or the provider has done fits the status of *)
(* the batch, and the files hold the results of the job, each line of them *)
(* once.  The counts of the record are then cardinalities of sets of ids.  *)
(***************************************************************************)
EXTENDS BatchLines, FiniteSetTheorems, WellFoundedInduction, TLAPS

-----------------------------------------------------------------------------
(* Reading. *)

(* A set of naturals has a least element.                                  *)
LEMMA NatMin ==
  ASSUME NEW T \in SUBSET Nat, T # {}
  PROVE  \E x \in T : \A y \in T : x <= y
<1>1. PICK x \in T : \A y \in T : ~(<<y, x>> \in OpToRel(<, Nat))
  BY NatLessThanWellFounded, WFMin
<1>2. ASSUME NEW y \in T PROVE x <= y
  <2>1. ~(<<y, x>> \in OpToRel(<, Nat))
    BY <1>1
  <2>2. ~(y < x)
    BY <2>1 DEF OpToRel
  <2> QED BY <2>2
<1> QED BY <1>2

(* read is what Readings defines, up to line n.                            *)
IsReading(read, lines, n) ==
  read = [k \in 0..n |-> IF k = 0 THEN Reading ELSE ReadLine(read[k - 1], lines[k])]

LEMMA ReadingExtends ==
  ASSUME NEW lines \in Seq(Line), NEW n \in 1..Len(lines),
         NEW h, IsReading(h, lines, n - 1)
  PROVE  \E read : IsReading(read, lines, n)
<1> DEFINE g == [k \in 0..n |-> IF k = n THEN ReadLine(h[n - 1], lines[n]) ELSE h[k]]
<1>0. n \in Nat /\ n >= 1
  OBVIOUS
<1>1. \A k \in 0..(n - 1) :
        h[k] = IF k = 0 THEN Reading ELSE ReadLine(h[k - 1], lines[k])
  BY DEF IsReading
<1>2. \A k \in 0..(n - 1) : g[k] = h[k]
  BY <1>0
<1>3. ASSUME NEW k \in 0..n
      PROVE  g[k] = IF k = 0 THEN Reading ELSE ReadLine(g[k - 1], lines[k])
  <2>1. CASE k = n
    <3>1. g[k - 1] = h[n - 1]
      BY <2>1, <1>2, <1>0
    <3>2. g[k] = ReadLine(h[n - 1], lines[n])
      BY <2>1
    <3> QED BY <3>1, <3>2, <2>1, <1>0
  <2>2. CASE k # n
    <3>1. k \in 0..(n - 1)
      BY <2>2, <1>0
    <3>2. k = 0 \/ k - 1 \in 0..(n - 1)
      BY <3>1, <1>0
    <3> HIDE DEF g
    <3> QED BY <3>1, <3>2, <1>1, <1>2
  <2> QED BY <2>1, <2>2
<1>4. g = [k \in 0..n |-> g[k]]
  OBVIOUS
<1> HIDE DEF g
<1>5. IsReading(g, lines, n)
  BY <1>3, <1>4 DEF IsReading
<1> QED BY <1>5

(* Readings is defined for a file of any length.                           *)
LEMMA ReadingExists ==
  ASSUME NEW lines \in Seq(Line)
  PROVE  \E read : IsReading(read, lines, Len(lines))
<1> DEFINE T == {n \in 0..Len(lines) : ~\E read : IsReading(read, lines, n)}
<1>0. Len(lines) \in Nat
  OBVIOUS
<1>1. SUFFICES ASSUME T # {} PROVE FALSE
  BY <1>0
<1>2. T \in SUBSET Nat
  BY <1>0
<1>3. PICK n \in T : \A k \in T : n <= k
  <2> HIDE DEF T
  <2> QED BY <1>1, <1>2, NatMin
<1>4. CASE n = 0
  <2>1. IsReading([k \in 0..0 |-> Reading], lines, 0)
    BY DEF IsReading
  <2> QED BY <2>1, <1>4
<1>5. CASE n # 0
  <2>1. n \in 1..Len(lines) /\ n - 1 \in 0..Len(lines) /\ ~(n <= n - 1)
    BY <1>5, <1>0
  <2>2. n - 1 \notin T
    BY <2>1, <1>3
  <2>3. PICK h : IsReading(h, lines, n - 1)
    BY <2>1, <2>2
  <2>4. \E read : IsReading(read, lines, n)
    BY <2>1, <2>3, ReadingExtends
  <2> QED BY <2>4
<1> QED BY <1>4, <1>5

LEMMA ReadingsIs ==
  ASSUME NEW lines \in Seq(Line)
  PROVE  IsReading(Readings(lines), lines, Len(lines))
<1>1. PICK g : IsReading(g, lines, Len(lines))
  BY ReadingExists
<1> QED BY <1>1 DEF Readings, IsReading

Unsound == {"unparsable", "method", "url", "stream", "no content"}

(* What has been read without a refusal: n lines that can be told apart    *)
(* and name one model.                                                     *)
ReadOK(r, lines, n) ==
  r.ok =>
    /\ r.seen = {lines[i].id : i \in 1..n}
    /\ \A i \in 1..n :
         /\ lines[i].id # Blank
         /\ lines[i].model # Blank
         /\ lines[i].model = r.model
         /\ lines[i].flaw \notin Unsound
    /\ \A i, k \in 1..n : i # k => lines[i].id # lines[k].id
    /\ n = 0 => r.model = Blank

Readable(r) == r \in [ok : BOOLEAN, model : Models \cup {Blank}, seen : SUBSET Ids]

LEMMA LineKeepsType ==
  ASSUME NEW r, Readable(r), NEW line \in Line
  PROVE  Readable(ReadLine(r, line))
<1>1. CASE line.id = Blank
  BY <1>1 DEF Readable, ReadLine, Refused, Line
<1>2. CASE line.id # Blank
  <2>1. line.id \in Ids /\ line.model \in Models \cup {Blank}
    BY <1>2 DEF Line
  <2> QED BY <2>1 DEF Readable, ReadLine, Refused
<1> QED BY <1>1, <1>2

LEMMA LineKeepsRead ==
  ASSUME NEW lines \in Seq(Line), NEW n \in 1..Len(lines),
         NEW r, Readable(r), ReadOK(r, lines, n - 1)
  PROVE  ReadOK(ReadLine(r, lines[n]), lines, n)
<1> DEFINE q == ReadLine(r, lines[n])
<1> SUFFICES ASSUME q.ok PROVE ReadOK(q, lines, n)
  BY DEF ReadOK
<1>0. n \in Nat /\ n >= 1 /\ 1..n = (1..(n - 1)) \cup {n} /\ n \notin 1..(n - 1)
  OBVIOUS
<1>1. /\ r.ok
      /\ lines[n].flaw \notin Unsound
      /\ lines[n].id # Blank
      /\ lines[n].model # Blank
      /\ r.model \in {Blank, lines[n].model}
      /\ lines[n].id \notin r.seen
      /\ q = [r EXCEPT !.model = lines[n].model, !.seen = @ \cup {lines[n].id}]
  BY DEF ReadLine, Refused, Unsound, Readable
<1>2. q.model = lines[n].model /\ q.seen = r.seen \cup {lines[n].id}
  BY <1>1 DEF Readable
<1>3. /\ r.seen = {lines[i].id : i \in 1..(n - 1)}
      /\ \A i \in 1..(n - 1) :
           /\ lines[i].id # Blank
           /\ lines[i].model # Blank
           /\ lines[i].model = r.model
           /\ lines[i].flaw \notin Unsound
      /\ \A i, k \in 1..(n - 1) : i # k => lines[i].id # lines[k].id
  BY <1>1 DEF ReadOK
<1> HIDE DEF q
<1>4. q.seen = {lines[i].id : i \in 1..n}
  BY <1>0, <1>2, <1>3
<1>5. \A i \in 1..(n - 1) : lines[i].model = q.model
  BY <1>1, <1>2, <1>3
<1>6. \A i \in 1..n :
        /\ lines[i].id # Blank
        /\ lines[i].model # Blank
        /\ lines[i].model = q.model
        /\ lines[i].flaw \notin Unsound
  BY <1>0, <1>1, <1>2, <1>3, <1>5
<1>7. \A i \in 1..(n - 1) : lines[i].id # lines[n].id
  BY <1>1, <1>3
<1>8. \A i, k \in 1..n : i # k => lines[i].id # lines[k].id
  BY <1>0, <1>3, <1>7
<1> QED BY <1>0, <1>4, <1>6, <1>8 DEF ReadOK

(* By induction, everything read without a refusal is sound.               *)
LEMMA AllRead ==
  ASSUME NEW lines \in Seq(Line)
  PROVE  ReadOK(Readings(lines)[Len(lines)], lines, Len(lines))
<1> DEFINE read == Readings(lines)
           Fine(n) == Readable(read[n]) /\ ReadOK(read[n], lines, n)
           T == {n \in 0..Len(lines) : ~Fine(n)}
<1>0. Len(lines) \in Nat
  OBVIOUS
<1>1. \A n \in 0..Len(lines) :
        read[n] = IF n = 0 THEN Reading ELSE ReadLine(read[n - 1], lines[n])
  <2>1. IsReading(read, lines, Len(lines))
    BY ReadingsIs
  <2> HIDE DEF read
  <2> QED BY <2>1 DEF IsReading
<1> HIDE DEF read
<1>2. Fine(0)
  <2>1. read[0] = Reading
    BY <1>0, <1>1
  <2>2. Readable(Reading) /\ ReadOK(Reading, lines, 0)
    BY DEF Readable, Reading, ReadOK
  <2> QED BY <2>1, <2>2
<1>3. ASSUME NEW n \in 1..Len(lines), Fine(n - 1) PROVE Fine(n)
  <2>1. read[n] = ReadLine(read[n - 1], lines[n])
    BY <1>0, <1>1
  <2>2. lines[n] \in Line
    OBVIOUS
  <2>3. Readable(read[n])
    BY <2>1, <2>2, <1>3, LineKeepsType
  <2>4. ReadOK(read[n], lines, n)
    BY <2>1, <1>3, LineKeepsRead
  <2> QED BY <2>3, <2>4
<1>4. T = {}
  <2>1. SUFFICES ASSUME T # {} PROVE FALSE
    OBVIOUS
  <2>2. T \in SUBSET Nat
    BY <1>0
  <2>3. PICK n \in T : \A k \in T : n <= k
    <3> HIDE DEF T
    <3> QED BY <2>1, <2>2, NatMin
  <2>4. n # 0
    BY <1>2
  <2>5. n \in 1..Len(lines) /\ n - 1 \in 0..Len(lines) /\ ~(n <= n - 1)
    BY <2>4, <1>0
  <2> HIDE DEF Fine
  <2>6. Fine(n - 1)
    BY <2>3, <2>5
  <2> QED BY <2>5, <2>6, <1>3
<1>5. Fine(Len(lines))
  <2> HIDE DEF Fine
  <2> QED BY <1>4, <1>0
<1> QED BY <1>5 DEF read

-----------------------------------------------------------------------------
(* What the gateway accepts. *)

WellFormed(in) ==
  /\ in.endpoint # "other"
  /\ in.lines # <<>>
  /\ \A i, k \in DOMAIN in.lines : i # k => in.lines[i].id # in.lines[k].id
  /\ \E m \in Models : \A i \in DOMAIN in.lines : in.lines[i].model = m
  /\ {in.lines[i].id : i \in DOMAIN in.lines} \subseteq Ids
  /\ \A i \in DOMAIN in.lines : in.lines[i].flaw \notin Unsound

LEMMA ParsedIsWellFormed ==
  ASSUME NEW in \in Input, ParseBatchJSONL(in).ok
  PROVE  WellFormed(in)
<1> DEFINE lines == in.lines
           r == Readings(lines)[Len(lines)]
<1>0. lines \in Seq(Line)
  BY DEF Input
<1>1. in.endpoint # "other" /\ lines # <<>> /\ r.ok
  BY DEF ParseBatchJSONL, Refused, Reading
<1>2. ReadOK(r, lines, Len(lines))
  BY <1>0, AllRead
<1> HIDE DEF r
<1>3. Len(lines) \in Nat /\ DOMAIN lines = 1..Len(lines) /\ 1 \in DOMAIN lines
  BY <1>0, <1>1
<1>4. /\ \A i \in DOMAIN lines :
           /\ lines[i].id # Blank
           /\ lines[i].model # Blank
           /\ lines[i].model = r.model
           /\ lines[i].flaw \notin Unsound
      /\ \A i, k \in DOMAIN lines : i # k => lines[i].id # lines[k].id
  BY <1>1, <1>2, <1>3 DEF ReadOK
<1>5. \A i \in DOMAIN lines : lines[i] \in Line
  BY <1>0
<1>6. r.model \in Models
  BY <1>3, <1>4, <1>5 DEF Line
<1>7. {lines[i].id : i \in DOMAIN lines} \subseteq Ids
  BY <1>4, <1>5 DEF Line
<1> QED BY <1>1, <1>4, <1>6, <1>7 DEF WellFormed

-----------------------------------------------------------------------------
(* The invariant. *)

(* What is stored was read, has a provider, and counts its lines.          *)
Accepted ==
  Stored =>
    /\ ParseBatchJSONL(input).ok
    /\ submitter(input.provider)
    /\ meta.total = Len(input.lines)

(* Nothing has happened before the submit.                                 *)
Unsent == job = NoJob /\ files = NoFiles /\ ~meta.ref

(* What the request in progress relies on.                                 *)
RequestFits ==
  /\ ~Stored => pc = "idle" /\ Unsent
  /\ pc = "submit" => meta.status = "validating" /\ Unsent
  /\ pc = "results" =>
       /\ meta.status \in Open
       /\ meta.ref
       /\ input.provider = "claude"
       /\ job.state = "ended"

(* The provider runs what it was sent, and reports lines of it only.       *)
JobFits ==
  /\ job.sent \leq 1
  /\ job.sent = 0 <=> job.state = "none"
  /\ job.sent = 1 => Stored /\ Translates(input)
  /\ meta.ref => job.sent = 1
  /\ input.provider = "claude" => job.state \in {"none", "running", "ended"}
  /\ Told \subseteq Sent

CancelAsked ==
  meta.status = "cancelling" => input.provider = "claude" /\ job.cancelAsked

LinesOf(ids) == {LineResult(input, id, job.result[id]) : id \in ids}

(* The files are what a job that has ended told of its lines, or what one  *)
(* of Workers AI had told by the time it was asked.                        *)
FilesFit ==
  meta.status = "completed" \/ files # NoFiles =>
    /\ meta.status \in Terminal
    /\ job.state = "ended" \/ (input.provider = "cloudflare" /\ filed # {})
    /\ filed \subseteq Told
    /\ input.provider # "cloudflare" => filed = Told
    /\ \A id \in filed : job.result[id] # "null"
    /\ files = BuildOutput(LinesOf(filed))
    /\ meta.completed = Cardinality(files.ok)
    /\ meta.failed = Cardinality(files.err)

LinesInv ==
  /\ TypeOK
  /\ Accepted
  /\ RequestFits
  /\ JobFits
  /\ CancelAsked
  /\ FilesFit
  /\ OutcomeIsTrue

-----------------------------------------------------------------------------
(* Counting. *)

LEMMA ImageIsFinite ==
  ASSUME NEW S, IsFiniteSet(S), NEW f, f = [x \in S |-> f[x]]
  PROVE  LET T == {f[x] : x \in S}
         IN  IsFiniteSet(T) /\ Cardinality(T) <= Cardinality(S)
<1> DEFINE T == {f[x] : x \in S}
<1>1. f \in [S -> T]
  OBVIOUS
<1>2. f \in Surjection(S, T)
  BY <1>1 DEF Surjection
<1> HIDE DEF T
<1>3. IsFiniteSet(T) /\ Cardinality(T) <= Cardinality(S)
  BY <1>2, FS_Surjection
<1> QED BY <1>3 DEF T

(* A file has at least as many lines as ids.                               *)
LEMMA SentIsFinite ==
  ASSUME input \in Input
  PROVE  IsFiniteSet(Sent) /\ Cardinality(Sent) <= Len(input.lines)
<1> DEFINE n == Len(input.lines)
           f == [i \in 1..n |-> input.lines[i].id]
<1>1. n \in Nat /\ DOMAIN input.lines = 1..n
  BY DEF Input
<1>2. IsFiniteSet(1..n) /\ Cardinality(1..n) = n
  <2> HIDE DEF n
  <2> QED BY <1>1, FS_Interval
<1>3. Sent = {f[i] : i \in 1..n}
  BY <1>1 DEF Sent
<1>4. f = [i \in 1..n |-> f[i]]
  OBVIOUS
<1> HIDE DEF f
<1> QED BY <1>1, <1>2, <1>3, <1>4, ImageIsFinite DEF n

(* Lines that differ in their ids are as many as their ids.                *)
LEMMA OneLineAnId ==
  ASSUME NEW ls, IsFiniteSet(ls), \A k, l \in ls : k.id = l.id => k = l
  PROVE  IsFiniteSet(IdsOf(ls)) /\ Cardinality(IdsOf(ls)) = Cardinality(ls)
<1> DEFINE f == [l \in ls |-> l.id]
<1>1. f \in [ls -> IdsOf(ls)]
  BY DEF IdsOf
<1>2. f \in Injection(ls, IdsOf(ls))
  BY <1>1 DEF Injection, IsInjective
<1>3. f \in Surjection(ls, IdsOf(ls))
  BY <1>1 DEF Surjection, IdsOf
<1>4. ExistsBijection(ls, IdsOf(ls))
  BY <1>2, <1>3 DEF ExistsBijection, Bijection
<1> QED BY <1>4, FS_Bijection

-----------------------------------------------------------------------------
(* What is collected of a job. *)

LEMMA LineIsLine ==
  ASSUME NEW in, NEW id \in Ids, NEW r
  PROVE  LineResult(in, id, r) \in Lines /\ LineResult(in, id, r).id = id
<1> DEFINE codes == {"", LineErrFailed, LineErrSynthesis, ProviderCode}
<1>1. Success(id) \in Lines /\ Success(id).id = id
  BY DEF Success, Lines
<1>2. \A code \in codes : Failure(id, code) \in Lines /\ Failure(id, code).id = id
  BY DEF Failure, Lines
<1>3. \/ LineResult(in, id, r) = Success(id)
      \/ \E code \in codes : LineResult(in, id, r) = Failure(id, code)
  <2>1. CASE in.provider = "claude"
    BY <2>1 DEF LineResult, claudeBatchLine
  <2>2. CASE in.provider = "openrouter"
    BY <2>2 DEF LineResult, openRouterLine
  <2>3. CASE in.provider \notin {"claude", "openrouter"}
    BY <2>3 DEF LineResult, cloudflareLine, synthesizeChatBody, synthesizeEmbedBody
  <2> QED BY <2>1, <2>2, <2>3
<1> QED BY <1>1, <1>2, <1>3

(* What one result says, and what understood answers are.                  *)
Understood == {"message", "body", "choices", "response", "data", "object"}

IsOutput(l) == l.body /\ l.code = ""

PassesAsSuccess(in, res) ==
  res \in Understood \/ (in.provider = "openrouter" /\ res = "no object")

LEMMA LineIsTrue ==
  ASSUME NEW in, in.endpoint \in {"chat", "embeddings"},
         NEW id \in Ids, NEW r \in Results(in), r # "null"
  PROVE  IsOutput(LineResult(in, id, r)) <=> PassesAsSuccess(in, r)
<1> DEFINE good == r \in Understood \/ (in.provider = "openrouter" /\ r = "no object")
<1>1. /\ good => LineResult(in, id, r) = Success(id)
      /\ ~good => \E code : LineResult(in, id, r) = Failure(id, code)
  <2>1. CASE in.provider = "claude"
    <3>1. Results(in) = {"error", "message", "odd message"}
      BY <2>1 DEF Results
    <3> QED BY <3>1, <2>1 DEF LineResult, claudeBatchLine, Understood
  <2>2. CASE in.provider = "openrouter"
    <3>1. Results(in) = {"error", "bad status", "body", "no object", "no body", "null"}
      BY <2>2, "claude" # "openrouter" DEF Results
    <3> QED BY <3>1, <2>2 DEF LineResult, openRouterLine, Understood
  <2>3. CASE in.provider \notin {"claude", "openrouter"} /\ in.endpoint = "chat"
    <3>1. r \in {"error", "choices", "response", "unknown", "empty"}
      BY <2>3 DEF Results
    <3> QED BY <3>1, <2>3
            DEF LineResult, cloudflareLine, Understood, synthesizeChatBody, synthesizeEmbedBody
  <2>4. CASE in.provider \notin {"claude", "openrouter"} /\ in.endpoint = "embeddings"
    <3>1. r \in {"error", "data", "object", "vector", "empty"}
      BY <2>4 DEF Results
    <3> QED BY <3>1, <2>4
            DEF LineResult, cloudflareLine, Understood, synthesizeChatBody, synthesizeEmbedBody
  <2> QED BY <2>1, <2>2, <2>3, <2>4
<1> HIDE DEF good
<1>2. CASE good
  <2>1. IsOutput(Success(id))
    BY DEF Success, IsOutput
  <2> QED BY <1>1, <1>2, <2>1 DEF good, PassesAsSuccess
<1>3. CASE ~good
  <2>1. \A code : ~IsOutput(Failure(id, code))
    BY DEF Failure, IsOutput
  <2> QED BY <1>1, <1>3, <2>1 DEF good, PassesAsSuccess
<1> QED BY <1>2, <1>3

-----------------------------------------------------------------------------
(* The invariant holds at first, and create and submit keep it. *)

LEMMA LinesInit == Init => LinesInv
<1> SUFFICES ASSUME Init PROVE LinesInv
  OBVIOUS
<1>1. NoInput \in Input
  BY DEF NoInput, Input, Kinds, Providers, Endpoints
<1>2. NoMeta \in Meta
  BY DEF NoMeta, Meta
<1>3. NoJob \in Job
  BY DEF NoJob, Job, JobState
<1>4. TypeOK
  BY <1>1, <1>2, <1>3 DEF Init, TypeOK, NoFiles
<1>5. ~Stored /\ meta.status = "absent" /\ ~meta.ref
  BY DEF Init, NoMeta, Stored
<1>6. Accepted /\ RequestFits /\ CancelAsked /\ OutcomeIsTrue /\ FilesFit
  BY <1>5 DEF Init, Accepted, RequestFits, Unsent, CancelAsked, OutcomeIsTrue, FilesFit
<1>7. job.sent = 0 /\ job.state = "none" /\ Told = {}
  BY DEF Init, NoJob, Told
<1>8. JobFits
  BY <1>5, <1>7 DEF JobFits
<1> QED BY <1>4, <1>6, <1>8 DEF LinesInv

LEMMA CreateKeeps ==
  ASSUME LinesInv, NEW in \in Inputs, Create(in)
  PROVE  LinesInv'
<1> USE DEF LinesInv
<1>1. meta.status = "absent" /\ Unsent /\ pc = "idle"
  BY DEF Create, Stored, RequestFits
<1>2. /\ input' = in /\ in \in Input /\ job' = NoJob /\ files' = NoFiles
      /\ filed' = filed
  BY <1>1, InputsAssumption DEF Create, Unsent
<1>3. NoJob \in Job'
  BY DEF NoJob, Job, JobState
<1>4. meta \in Meta
  BY DEF TypeOK
<1>5. NoFiles.ok \subseteq Lines /\ NoFiles.err \subseteq Lines
  BY DEF NoFiles
<1>6. job'.sent = 0 /\ job'.state = "none" /\ Told' = {}
  BY <1>2 DEF NoJob, Told
<1>7. CASE /\ ParseBatchJSONL(in).ok
           /\ submitter(in.provider)
           /\ meta' = [meta EXCEPT !.status = "validating", !.total = Len(in.lines)]
           /\ pc' = "submit"
  <2>1. Len(in.lines) \in Nat
    BY <1>2 DEF Input
  <2>2. /\ meta' \in Meta
        /\ meta'.status = "validating"
        /\ meta'.total = Len(in.lines)
        /\ ~meta'.ref
    BY <1>1, <1>4, <1>7, <2>1 DEF Meta, Open, Unsent
  <2>3. TypeOK'
    BY <1>2, <1>3, <1>5, <1>7, <2>2 DEF TypeOK, Lines
  <2>4. Accepted'
    BY <1>2, <1>7, <2>2 DEF Accepted
  <2>5. Stored'
    BY <2>2 DEF Stored
  <2>6. RequestFits'
    BY <1>2, <1>7, <2>2, <2>5 DEF RequestFits, Unsent
  <2>7. JobFits'
    BY <1>6, <2>2 DEF JobFits
  <2>8. CancelAsked' /\ FilesFit' /\ OutcomeIsTrue'
    BY <1>2, <2>2 DEF CancelAsked, FilesFit, OutcomeIsTrue
  <2> QED BY <2>3, <2>4, <2>6, <2>7, <2>8
<1>8. CASE meta' = [meta EXCEPT !.status = "refused"] /\ UNCHANGED pc
  <2>2. meta' \in Meta /\ meta'.status = "refused" /\ ~meta'.ref
    BY <1>1, <1>4, <1>8 DEF Meta, Unsent
  <2>3. TypeOK'
    BY <1>1, <1>2, <1>3, <1>5, <1>8, <2>2 DEF TypeOK, Lines
  <2>5. ~Stored'
    BY <2>2 DEF Stored
  <2>4. Accepted'
    BY <2>5 DEF Accepted
  <2>6. RequestFits'
    BY <1>1, <1>2, <1>8, <2>2, <2>5 DEF RequestFits, Unsent
  <2>7. JobFits'
    BY <1>6, <2>2 DEF JobFits
  <2>8. CancelAsked' /\ FilesFit' /\ OutcomeIsTrue'
    BY <1>2, <2>2 DEF CancelAsked, FilesFit, OutcomeIsTrue
  <2> QED BY <2>3, <2>4, <2>6, <2>7, <2>8
<1> QED BY <1>7, <1>8 DEF Create

LEMMA SubmitKeeps ==
  ASSUME LinesInv, Submit
  PROVE  LinesInv'
<1> USE DEF LinesInv
<1>1. /\ meta.status = "validating" /\ ~meta.ref
      /\ job = NoJob /\ files = NoFiles
      /\ Accepted /\ Stored
  BY DEF Submit, RequestFits, Unsent, Stored
<1>2. input' = input /\ files' = NoFiles /\ pc' = "idle" /\ filed' = filed
  BY <1>1 DEF Submit
<1>3. meta \in Meta /\ job \in Job
  BY DEF TypeOK
<1>4. Job' = Job /\ Sent' = Sent
  BY <1>2 DEF Job, Sent
<1>5. \/ job' = job
      \/ job' = Sending /\ Translates(input)
  BY DEF Submit
<1>6. \/ meta' = [meta EXCEPT !.status = "in_progress", !.ref = TRUE] /\ job' = Sending
      \/ meta' = [meta EXCEPT !.status = "failed"]
  BY DEF Submit, Fails, Taken
<1>7. /\ meta' \in Meta
      /\ meta'.status \in {"in_progress", "failed"}
      /\ meta'.total = meta.total
      /\ meta'.status = "failed" => ~meta'.ref
      /\ meta'.ref => job' = Sending
  <2>1. "in_progress" \in Open /\ "failed" \in Terminal
    BY DEF Open, Terminal
  <2>2. meta.ref = FALSE
    BY <1>1, <1>3 DEF Meta
  <2>3. CASE meta' = [meta EXCEPT !.status = "failed"]
    <3>1. meta'.status = "failed" /\ meta'.ref = FALSE /\ meta'.total = meta.total
      BY <1>3, <2>2, <2>3 DEF Meta
    <3>2. meta' \in Meta
      BY <1>3, <2>1, <2>3 DEF Meta
    <3> QED BY <3>1, <3>2
  <2>4. CASE meta' = [meta EXCEPT !.status = "in_progress", !.ref = TRUE] /\ job' = Sending
    <3>1. meta'.status = "in_progress" /\ meta'.total = meta.total
      BY <1>3, <2>4 DEF Meta
    <3>2. meta' \in Meta
      BY <1>3, <2>1, <2>4 DEF Meta
    <3> QED BY <3>1, <3>2, <2>4
  <2> QED BY <1>6, <2>3, <2>4
<1>8. /\ Sending \in Job
      /\ Sending.state = "running" /\ Sending.sent = 1
      /\ \A id \in Ids : Sending.result[id] = "none"
  <2>1. job.sent = 0 /\ \A id \in Ids : job.result[id] = "none"
    BY <1>1 DEF NoJob
  <2>2. PICK j : j = Sending
    OBVIOUS
  <2>3. j = [job EXCEPT !.state = "running", !.sent = 1]
    BY <1>3, <2>1, <2>2 DEF Sending, Job
  <2>4. j \in Job
    BY <1>3, <2>3 DEF Job, JobState
  <2>5. j.state = "running" /\ j.sent = 1 /\ j.result = job.result
    BY <1>3, <2>3 DEF Job
  <2> QED BY <2>1, <2>2, <2>4, <2>5
<1>9. NoJob.state = "none" /\ NoJob.sent = 0 /\ \A id \in Ids : NoJob.result[id] = "none"
  BY DEF NoJob
<1>10. job' \in Job /\ Told' = {}
  BY <1>1, <1>3, <1>5, <1>8, <1>9 DEF Told
<1>11. TypeOK'
  BY <1>1, <1>2, <1>4, <1>7, <1>10 DEF TypeOK, Lines
<1>12. Stored' /\ Accepted'
  BY <1>1, <1>2, <1>7 DEF Stored, Accepted
<1>13. RequestFits'
  BY <1>2, <1>12 DEF RequestFits
<1>14. JobFits'
  BY <1>1, <1>2, <1>5, <1>7, <1>8, <1>9, <1>10, <1>12 DEF JobFits
<1>15. CancelAsked' /\ FilesFit' /\ OutcomeIsTrue'
  BY <1>2, <1>7 DEF CancelAsked, FilesFit, OutcomeIsTrue
<1> QED BY <1>11, <1>12, <1>13, <1>14, <1>15

-----------------------------------------------------------------------------
(* The provider's steps. *)

(* While the job runs nothing of it is filed, but for Workers AI, and the  *)
(* only outcome the batch can have is one it got without the job or by     *)
(* what was filed.                                                         *)
LEMMA Running ==
  ASSUME LinesInv, job.state = "running"
  PROVE  /\ meta.status = "completed" \/ files # NoFiles =>
              input.provider = "cloudflare" /\ filed # {}
         /\ meta.status # "cancelled"
         /\ meta.status = "failed" =>
              \/ ~meta.ref
              \/ input.provider = "cloudflare" /\ files.ok = {} /\ filed # {}
         /\ Stored /\ pc = "idle"
<1>1. job.sent = 1 /\ Stored
  BY DEF LinesInv, JobFits, TypeOK, Job
<1>2. pc = "idle"
  <2>1. pc \in {"idle", "submit", "results"}
    BY DEF LinesInv, TypeOK
  <2>2. pc # "submit"
    BY DEF LinesInv, RequestFits, Unsent, NoJob
  <2>3. pc # "results"
    BY DEF LinesInv, RequestFits
  <2> QED BY <2>1, <2>2, <2>3
<1>3. meta.status = "completed" \/ files # NoFiles =>
        input.provider = "cloudflare" /\ filed # {}
  BY DEF LinesInv, FilesFit
<1>4. /\ meta.status # "cancelled"
      /\ meta.status = "failed" =>
           \/ ~meta.ref
           \/ input.provider = "cloudflare" /\ files.ok = {} /\ filed # {}
  BY DEF LinesInv, OutcomeIsTrue
<1> QED BY <1>1, <1>2, <1>3, <1>4

(* What the provider does to its job in one step.                          *)
LEMMA JobMoves ==
  ASSUME LinesInv, job.state = "running",
         UNCHANGED <<input, meta, files, pc, filed>>,
         job' \in Job, job'.sent = job.sent, job'.cancelAsked = job.cancelAsked,
         job'.state # "none",
         input.provider = "claude" => job'.state \in {"running", "ended"},
         Told \subseteq Told', Told' \subseteq Sent,
         \A id \in Told : job'.result[id] = job.result[id]
  PROVE  LinesInv'
<1> USE DEF LinesInv
<1>0. /\ meta.status = "completed" \/ files # NoFiles =>
           input.provider = "cloudflare" /\ filed # {}
      /\ meta.status # "cancelled"
      /\ meta.status = "failed" =>
           \/ ~meta.ref
           \/ input.provider = "cloudflare" /\ files.ok = {} /\ filed # {}
      /\ Stored /\ pc = "idle" /\ job.sent = 1
  BY Running DEF JobFits, TypeOK, Job
<1>1. TypeOK'
  BY DEF TypeOK, Job, Lines
<1>2. Stored' /\ Accepted'
  BY <1>0 DEF Stored, Accepted
<1>3. RequestFits'
  BY <1>0, <1>2 DEF RequestFits
<1>4. JobFits'
  BY <1>0, <1>2 DEF JobFits, Sent
<1>5. CancelAsked' /\ OutcomeIsTrue'
  BY <1>0 DEF CancelAsked, OutcomeIsTrue
<1>6. FilesFit'
  <2> SUFFICES ASSUME meta.status = "completed" \/ files # NoFiles PROVE FilesFit'
    BY DEF FilesFit
  <2>1. /\ meta.status \in Terminal
        /\ filed \subseteq Told
        /\ \A id \in filed : job.result[id] # "null"
        /\ files = BuildOutput(LinesOf(filed))
        /\ meta.completed = Cardinality(files.ok)
        /\ meta.failed = Cardinality(files.err)
    BY DEF FilesFit
  <2>2. LinesOf(filed)' = LinesOf(filed)
    BY <2>1 DEF LinesOf
  <2>3. BuildOutput(LinesOf(filed))' = BuildOutput(LinesOf(filed))
    BY <2>2 DEF BuildOutput
  <2> QED BY <1>0, <2>1, <2>3 DEF FilesFit
<1> QED BY <1>1, <1>2, <1>3, <1>4, <1>5, <1>6

LEMMA LineDoneKeeps ==
  ASSUME LinesInv, NEW id \in Ids, LineDone(id)
  PROVE  LinesInv'
<1>1. PICK r \in Results(input) : job' = [job EXCEPT !.result[id] = r]
  BY DEF LineDone
<1>2. /\ job \in Job /\ job.state = "running" /\ id \in Sent /\ Told \subseteq Sent
      /\ job.result[id] = "none"
  BY DEF LineDone, LinesInv, TypeOK, JobFits
<1>3. /\ job' \in Job
      /\ job'.sent = job.sent
      /\ job'.cancelAsked = job.cancelAsked
      /\ job'.state = "running"
      /\ \A k \in Ids : k # id => job'.result[k] = job.result[k]
  BY <1>1, <1>2 DEF Job
<1>4. /\ Told \subseteq Told' /\ Told' \subseteq Sent
      /\ \A k \in Told : job'.result[k] = job.result[k]
  BY <1>2, <1>3 DEF Told
<1> QED BY <1>2, <1>3, <1>4, JobMoves DEF LineDone

LEMMA JobEndsKeeps ==
  ASSUME LinesInv, JobEnds
  PROVE  LinesInv'
<1>1. PICK st \in JobState :
        /\ job' = [job EXCEPT !.state = st]
        /\ st # "none"
        /\ input.provider = "claude" => st = "ended"
  BY DEF JobEnds, JobState
<1>2. job \in Job /\ job.state = "running" /\ Told \subseteq Sent
  BY DEF JobEnds, LinesInv, TypeOK, JobFits
<1>3. /\ job' \in Job
      /\ job'.sent = job.sent
      /\ job'.cancelAsked = job.cancelAsked
      /\ job'.state = st
      /\ job'.result = job.result
  BY <1>1, <1>2 DEF Job
<1>4. Told' = Told
  BY <1>3 DEF Told
<1> QED BY <1>1, <1>2, <1>3, <1>4, JobMoves DEF JobEnds

-----------------------------------------------------------------------------
(* What a retrieve finds. *)

(* What is collected, and filed, is finite and is told of Ids.             *)
LEMMA FiledIsFinite ==
  ASSUME LinesInv, NEW ids \in SUBSET Told
  PROVE  LET lines == LinesOf(ids)
             out == BuildOutput(lines)
         IN  /\ IsFiniteSet(lines) /\ lines \subseteq Lines
             /\ out.ok \subseteq lines /\ out.err = lines \ out.ok
             /\ IsFiniteSet(out.ok) /\ Cardinality(out.ok) \in Nat
             /\ IsFiniteSet(out.err) /\ Cardinality(out.err) \in Nat
             /\ lines = {} <=> ids = {}
<1> DEFINE f == [id \in ids |-> LineResult(input, id, job.result[id])]
           lines == LinesOf(ids)
           out == BuildOutput(lines)
<1>1. IsFiniteSet(ids)
  <2>1. IsFiniteSet(Sent) /\ ids \subseteq Sent
    BY SentIsFinite DEF LinesInv, TypeOK, JobFits
  <2> QED BY <2>1, FS_Subset
<1>2. lines = {f[id] : id \in ids}
  BY DEF LinesOf
<1>3. IsFiniteSet(lines)
  <2>1. f = [id \in ids |-> f[id]]
    OBVIOUS
  <2> HIDE DEF f
  <2>2. IsFiniteSet({f[id] : id \in ids})
    BY <2>1, <1>1, ImageIsFinite
  <2> QED BY <2>2, <1>2
<1>4. lines \subseteq Lines
  BY LineIsLine DEF LinesOf, Told
<1>5. lines = {} <=> ids = {}
  BY <1>2
<1> HIDE DEF lines
<1>6. out.ok \subseteq lines /\ out.err = lines \ out.ok
  BY DEF BuildOutput
<1> HIDE DEF out
<1>7. IsFiniteSet(out.ok) /\ Cardinality(out.ok) \in Nat
  BY <1>3, <1>6, FS_Subset, FS_CardinalityType
<1>8. IsFiniteSet(out.err) /\ Cardinality(out.err) \in Nat
  <2>1. out.err \in SUBSET lines
    BY <1>6
  <2> QED BY <1>3, <2>1, FS_Subset, FS_CardinalityType
<1> QED BY <1>3, <1>4, <1>5, <1>6, <1>7, <1>8 DEF out, lines

(* Collecting the results of a job keeps the invariant, if it has ended or *)
(* is Workers AI's and has told of a line.                                 *)
LEMMA FinalizeKeeps ==
  ASSUME LinesInv, meta.status \in Open, meta.ref,
         job.state = "ended" \/ (input.provider = "cloudflare" /\ Told # {}),
         Collectable(input, job), Finalize(Collected(input, job)),
         UNCHANGED <<input, job>>, pc' = "idle"
  PROVE  LinesInv'
<1> USE DEF LinesInv
<1> DEFINE lines == Collected(input, job)
           out == BuildOutput(lines)
<1>1. /\ IsFiniteSet(lines) /\ lines \subseteq Lines
      /\ out.ok \subseteq lines /\ out.err = lines \ out.ok
      /\ Cardinality(out.ok) \in Nat /\ Cardinality(out.err) \in Nat
      /\ lines = {} <=> Told = {}
  <2>1. lines = LinesOf(Told)
    BY DEF Collected, LinesOf, Told
  <2> HIDE DEF lines
  <2> QED BY <2>1, FiledIsFinite
<1>2. /\ files' = out /\ filed' = Told
      /\ meta' = [meta EXCEPT !.status = Outcome(out),
                              !.completed = Cardinality(out.ok),
                              !.failed = Cardinality(out.err)]
  BY DEF Finalize
<1>3. /\ lines = LinesOf(Told) /\ LinesOf(filed)' = lines /\ Told' = Told /\ Sent' = Sent
      /\ \A id \in Told : job.result[id] # "null"
      /\ Job' = Job /\ Translates(input)' = Translates(input)
  BY <1>2 DEF Collected, LinesOf, Told, Sent, Collectable, Job
<1>4. meta \in Meta /\ job \in Job
  BY DEF TypeOK
<1>5. /\ Outcome(out) \in {"cancelled", "failed", "completed"}
      /\ Outcome(out) = "cancelled" => meta.status = "cancelling"
      /\ Outcome(out) = "failed" => out.err # {} /\ out.ok = {}
      /\ Outcome(out) = "completed" => ~(out.err # {} /\ out.ok = {})
  BY DEF Outcome
<1> HIDE DEF out
<1>6. /\ meta' \in Meta
      /\ meta'.status = Outcome(out)
      /\ meta'.ref = meta.ref
      /\ meta'.total = meta.total
      /\ meta'.completed = Cardinality(out.ok)
      /\ meta'.failed = Cardinality(out.err)
  BY <1>1, <1>2, <1>4, <1>5 DEF Meta, Terminal
<1>7. TypeOK'
  <2>1. files'.ok \subseteq Lines /\ files'.err \subseteq Lines
    BY <1>1, <1>2
  <2> QED BY <1>2, <1>3, <1>4, <1>6, <2>1 DEF TypeOK, Lines, Told
<1>8. Stored' /\ Stored
  BY <1>5, <1>6 DEF Stored, Open
<1>9. Accepted'
  BY <1>6, <1>8 DEF Accepted
<1>10. RequestFits'
  BY <1>8 DEF RequestFits
<1>11. JobFits'
  BY <1>3, <1>6, <1>8 DEF JobFits
<1>12. CancelAsked'
  BY <1>5, <1>6 DEF CancelAsked
<1>13. FilesFit'
  <2>1. files' = BuildOutput(LinesOf(filed))'
    BY <1>2, <1>3 DEF out, BuildOutput
  <2>2. meta'.status \in Terminal
    BY <1>5, <1>6 DEF Terminal
  <2> HIDE DEF lines
  <2> QED BY <2>1, <2>2, <1>2, <1>3, <1>6 DEF FilesFit
<1>14. OutcomeIsTrue'
  <2>1. meta'.status = "completed" => out.ok # {} \/ Told = {}
    BY <1>1, <1>5, <1>6
  <2>2. meta'.status = "failed" => out.ok = {} /\ Told # {}
    BY <1>1, <1>5, <1>6
  <2>3. meta'.status = "cancelled" => job.cancelAsked
    BY <1>5, <1>6 DEF CancelAsked
  <2>4. /\ job' = job /\ input' = input
        /\ files'.ok = out.ok /\ filed' = Told
        /\ meta'.status \in {"cancelled", "failed", "completed"}
    BY <1>2, <1>5, <1>6
  <2>5. meta'.status = "cancelled" => job.state = "ended" /\ job.cancelAsked
    BY <2>3, <1>5, <1>6, "claude" # "cloudflare" DEF CancelAsked
  <2> QED BY <2>1, <2>2, <2>4, <2>5 DEF OutcomeIsTrue
<1> QED BY <1>7, <1>9, <1>10, <1>11, <1>12, <1>13, <1>14

(* What the word a poll finds says of the job.                             *)
LEMMA PollTells ==
  ASSUME LinesInv, meta.ref, NEW call \in Calls, NEW word \in Words(input, job),
         NEW st, st = PollState(input.provider, call, word)
  PROVE  /\ st = "done" => \/ job.state = "ended"
                           \/ input.provider = "cloudflare" /\ Told # {}
         /\ st = "failed" => \/ job.state = "failed"
                             \/ input.provider = "cloudflare" /\ job.state = "cancelled"
         /\ st = "cancelled" => job.state = "cancelled"
<1>1. /\ job.state \in {"running", "ended", "failed", "expired", "cancelled"}
      /\ input.provider = "claude" => job.state \in {"running", "ended"}
      /\ input.provider \in Providers
  <2>1. job.sent = 1 /\ Stored
    BY DEF LinesInv, JobFits
  <2>2. job.state # "none" /\ job.state \in JobState
    BY <2>1 DEF LinesInv, JobFits, TypeOK, Job
  <2> QED BY <2>1, <2>2 DEF LinesInv, JobFits, JobState, Accepted, submitter
<1>2. CASE input.provider = "claude"
  BY <1>1, <1>2 DEF PollState, Status, claudePoll, Words
<1>3. CASE input.provider = "openrouter"
  <2>1. /\ job.state = "running" =>
             word \in {"validating", "in_progress", "finalizing", "new word"}
        /\ job.state = "ended" => word = "results"
        /\ job.state \in {"failed", "expired", "cancelled"} => word = job.state
    BY <1>1, <1>3 DEF Words
  <2>2. st = IF call = "answered" THEN openRouterPoll(word) ELSE "error"
    BY <1>3 DEF PollState, GetBatch
  <2> QED BY <1>1, <2>1, <2>2 DEF openRouterPoll
<1>4. CASE input.provider = "cloudflare"
  <2>1. \/ word = "results" /\ Told # {}
        \/ /\ word # "results"
           /\ job.state = "running" => word \in {"queued", "running", "no word", "new word"}
           /\ job.state = "ended" => word = "no word"
           /\ job.state \in {"failed", "expired", "cancelled"} => word = job.state
    BY <1>1, <1>4 DEF Words, Told
  <2>2. st = IF call = "answered" THEN parsePollResult(word) ELSE "error"
    BY <1>4 DEF PollState, PollBatch
  <2> QED BY <1>1, <1>4, <2>1, <2>2 DEF parsePollResult
<1> QED BY <1>1, <1>2, <1>3, <1>4 DEF Providers

(* A step that only moves the status of an open batch, if to one that is   *)
(* true of the job.                                                        *)
LEMMA StatusMoves ==
  ASSUME LinesInv, meta.status \in Open, UNCHANGED <<input, files, filed>>,
         meta' \in Meta, meta'.ref = meta.ref, meta'.total = meta.total,
         meta'.status \in (Open \cup Terminal) \ {"completed"},
         job' \in {job, [job EXCEPT !.cancelAsked = TRUE]},
         meta'.status = "failed" =>
           \/ job.state = "failed"
           \/ input.provider = "cloudflare" /\ job.state = "cancelled",
         meta'.status = "cancelled" => job.state = "cancelled",
         meta'.status = "cancelling" => input.provider = "claude" /\ job'.cancelAsked,
         \/ pc' = "idle"
         \/ /\ pc' = "results"
            /\ meta'.status \in Open
            /\ meta.ref
            /\ input.provider = "claude"
            /\ job.state = "ended"
  PROVE  LinesInv'
<1> USE DEF LinesInv
<1>1. files = NoFiles /\ Stored
  BY DEF FilesFit, Stored, Open, Terminal
<1>2. /\ job' \in Job
      /\ job'.state = job.state /\ job'.sent = job.sent /\ job'.result = job.result
  BY DEF TypeOK, Job
<1>3. Told' = Told /\ Sent' = Sent /\ Job' = Job /\ Translates(input)' = Translates(input)
  BY <1>2 DEF Told, Sent, Job
<1>4. Stored'
  BY DEF Stored, Open, Terminal
<1>5. TypeOK'
  BY <1>2, <1>3 DEF TypeOK, Lines
<1>6. Accepted'
  BY <1>1, <1>4 DEF Accepted
<1>7. RequestFits'
  BY <1>2, <1>4 DEF RequestFits
<1>8. JobFits'
  BY <1>2, <1>3, <1>4 DEF JobFits
<1>9. CancelAsked' /\ FilesFit' /\ OutcomeIsTrue'
  BY <1>1, <1>2 DEF CancelAsked, FilesFit, OutcomeIsTrue
<1> QED BY <1>5, <1>6, <1>7, <1>8, <1>9

LEMMA PollKeeps ==
  ASSUME LinesInv, Poll
  PROVE  LinesInv'
<1>1. /\ pc = "idle" /\ meta.status \in Open /\ meta.ref
      /\ UNCHANGED <<input, job>>
  BY DEF Poll
<1>2. /\ meta \in Meta
      /\ meta.status = "cancelling" => input.provider = "claude" /\ job.cancelAsked
  BY DEF LinesInv, TypeOK, CancelAsked
<1>3. meta.status \notin Terminal
  BY <1>1 DEF Open, Terminal
<1>4. CASE UNCHANGED <<meta, files, pc, filed>>
  BY <1>1, <1>2, <1>3, <1>4, StatusMoves DEF Terminal
<1>5. PICK call \in Calls, word \in Words(input, job) :
        LET st == PollState(input.provider, call, word) IN
        \/ /\ st = "running"
           /\ meta' = IF meta.status = "validating"
                      THEN [meta EXCEPT !.status = "in_progress"] ELSE meta
           /\ UNCHANGED <<files, pc, filed>>
        \/ /\ st \in {"failed", "expired", "cancelled"}
           /\ meta' = [meta EXCEPT !.status = st]
           /\ UNCHANGED <<files, pc, filed>>
        \/ /\ st = "done"
           /\ Collectable(input, job)
           /\ Finalize(Collected(input, job))
           /\ UNCHANGED pc
        \/ /\ st = "done"
           /\ input.provider = "claude"
           /\ pc' = "results"
           /\ UNCHANGED <<meta, files, filed>>
        \/ UNCHANGED <<meta, files, pc, filed>>
  BY DEF Poll
<1> DEFINE st == PollState(input.provider, call, word)
<1>6. /\ st = "done" => \/ job.state = "ended"
                        \/ input.provider = "cloudflare" /\ Told # {}
      /\ st = "failed" => \/ job.state = "failed"
                          \/ input.provider = "cloudflare" /\ job.state = "cancelled"
      /\ st = "cancelled" => job.state = "cancelled"
  BY <1>1, <1>5, PollTells
<1>7. CASE /\ meta.status = "validating"
           /\ meta' = [meta EXCEPT !.status = "in_progress"]
           /\ UNCHANGED <<files, pc, filed>>
  <2>1. /\ meta' \in Meta /\ meta'.ref = meta.ref /\ meta'.total = meta.total
        /\ meta'.status = "in_progress"
    BY <1>2, <1>7 DEF Meta, Open
  <2> QED BY <1>1, <1>7, <2>1, StatusMoves DEF Open
<1>8. CASE /\ st \in {"failed", "expired", "cancelled"}
           /\ meta' = [meta EXCEPT !.status = st]
           /\ UNCHANGED <<files, pc, filed>>
  <2>1. /\ meta' \in Meta /\ meta'.ref = meta.ref /\ meta'.total = meta.total
        /\ meta'.status = st
    BY <1>2, <1>8 DEF Meta, Terminal
  <2> QED BY <1>1, <1>6, <1>8, <2>1, StatusMoves DEF Terminal
<1>9. CASE /\ st = "done"
           /\ Collectable(input, job)
           /\ Finalize(Collected(input, job))
           /\ UNCHANGED pc
  BY <1>1, <1>6, <1>9, FinalizeKeeps
<1>10. CASE /\ st = "done"
            /\ input.provider = "claude"
            /\ pc' = "results"
            /\ UNCHANGED <<meta, files, filed>>
  BY <1>1, <1>2, <1>3, <1>6, <1>10, "claude" # "cloudflare", StatusMoves DEF Terminal
<1> QED BY <1>4, <1>5, <1>7, <1>8, <1>9, <1>10

LEMMA FetchKeeps ==
  ASSUME LinesInv, FetchResults
  PROVE  LinesInv'
<1>1. /\ meta.status \in Open /\ input.provider = "claude" /\ job.state = "ended"
      /\ UNCHANGED <<input, job>> /\ pc' = "idle"
  BY DEF FetchResults, LinesInv, RequestFits
<1>2. /\ meta \in Meta
      /\ meta.status = "cancelling" => input.provider = "claude" /\ job.cancelAsked
  BY DEF LinesInv, TypeOK, CancelAsked
<1>3. meta.status \notin Terminal
  BY <1>1 DEF Open, Terminal
<1>4. CASE UNCHANGED <<meta, files, filed>>
  BY <1>1, <1>2, <1>3, <1>4, StatusMoves DEF Terminal
<1>5. CASE Finalize(Collected(input, job))
  <2>1. Collectable(input, job)
    <3>1. Results(input) = {"error", "message", "odd message"}
      BY <1>1 DEF Results
    <3>2. \A id \in Ids : job.result[id] \in Results(input) \cup {"none"}
      BY DEF LinesInv, TypeOK, Job
    <3> QED BY <3>1, <3>2 DEF Collectable
  <2>2. meta.ref
    BY <1>1 DEF FetchResults, LinesInv, RequestFits
  <2> QED BY <1>1, <1>5, <2>1, <2>2, FinalizeKeeps
<1> QED BY <1>4, <1>5 DEF FetchResults

LEMMA CancelKeeps ==
  ASSUME LinesInv, Cancel
  PROVE  LinesInv'
<1>1. /\ pc = "idle" /\ pc' = pc /\ UNCHANGED <<input, files, filed>>
      /\ meta.status \in {"validating", "in_progress"}
      /\ input.provider = "claude"
      /\ job' = [job EXCEPT !.cancelAsked = TRUE]
      /\ meta' \in {meta, [meta EXCEPT !.status = "cancelling"]}
  BY DEF Cancel
<1>2. meta \in Meta /\ job'.cancelAsked
  BY <1>1 DEF LinesInv, TypeOK, Job
<1>3. /\ meta' \in Meta /\ meta'.ref = meta.ref /\ meta'.total = meta.total
      /\ meta'.status \in {"validating", "in_progress", "cancelling"}
  BY <1>1, <1>2 DEF Meta, Open
<1> QED BY <1>1, <1>2, <1>3, StatusMoves DEF Open

LEMMA ExpireKeeps ==
  ASSUME LinesInv, Expire
  PROVE  LinesInv'
<1>1. /\ pc = "idle" /\ pc' = pc /\ UNCHANGED <<input, files, filed>>
      /\ meta.status \in {"validating", "in_progress"}
      /\ job' \in {job, [job EXCEPT !.cancelAsked = TRUE]}
      /\ meta' = [meta EXCEPT !.status = "expired"]
  BY DEF Expire
<1>2. meta \in Meta
  BY DEF LinesInv, TypeOK
<1>3. /\ meta' \in Meta /\ meta'.ref = meta.ref /\ meta'.total = meta.total
      /\ meta'.status = "expired"
  BY <1>1, <1>2 DEF Meta, Terminal
<1> QED BY <1>1, <1>3, StatusMoves DEF Open, Terminal

-----------------------------------------------------------------------------
(* The theorems. *)

(* Whatever the provider answers and in whatever order, the invariant of   *)
(* one batch's lines holds (jsonl.go, output.go and the submitters).       *)
THEOREM LinesInvariant == Spec => []LinesInv
<1>1. Init => LinesInv
  BY LinesInit
<1>2. LinesInv /\ [Next]_vars => LinesInv'
  <2> SUFFICES ASSUME LinesInv, [Next]_vars PROVE LinesInv'
    OBVIOUS
  <2>1. ASSUME NEW in \in Inputs, Create(in) PROVE LinesInv'
    BY <2>1, CreateKeeps
  <2>2. CASE Submit
    BY <2>2, SubmitKeeps
  <2>3. ASSUME NEW id \in Ids, LineDone(id) PROVE LinesInv'
    BY <2>3, LineDoneKeeps
  <2>4. CASE JobEnds
    BY <2>4, JobEndsKeeps
  <2>5. CASE Poll
    BY <2>5, PollKeeps
  <2>6. CASE FetchResults
    BY <2>6, FetchKeeps
  <2>7. CASE Cancel
    BY <2>7, CancelKeeps
  <2>8. CASE Expire
    BY <2>8, ExpireKeeps
  <2>9. CASE UNCHANGED vars
    BY <2>9 DEF vars, LinesInv, TypeOK, Job, Accepted, RequestFits, Unsent, JobFits,
                CancelAsked, FilesFit, OutcomeIsTrue, Stored, Told, Sent, LinesOf
  <2> QED
    BY <2>1, <2>2, <2>3, <2>4, <2>5, <2>6, <2>7, <2>8, <2>9 DEF Next
<1> QED BY <1>1, <1>2, PTL DEF Spec

(* Nothing unsound is stored or sent, and no batch is sent twice           *)
(* (ParseBatchJSONL, SubmitBatch): for input files of any length.          *)
THEOREM Submitting == Spec => []SubmittedOnce
<1>1. LinesInv => SubmittedOnce
  <2> SUFFICES ASSUME LinesInv PROVE SubmittedOnce
    OBVIOUS
  <2>1. StoredIsWellFormed
    <3> SUFFICES ASSUME Stored PROVE StoredIsWellFormed
      BY DEF StoredIsWellFormed
    <3>1. WellFormed(input)
      BY ParsedIsWellFormed DEF LinesInv, TypeOK, Accepted
    <3> QED BY <3>1 DEF WellFormed, StoredIsWellFormed, Sent, HasFlaw, Unsound
  <2> QED BY <2>1 DEF SubmittedOnce, LinesInv, JobFits
<1> QED BY <1>1, LinesInvariant, PTL

(* Every line of the answer that was collected is in one file, once: in    *)
(* the output file if the provider completed it with an answer the gateway *)
(* understands, or OpenRouter with a body it does not look into; and the   *)
(* record's counts are those of the files (BuildOutput, finalize,          *)
(* openRouterLines): for input files of any length.                        *)
THEOREM Filing == Spec => []ResultsAreFiled
<1>1. LinesInv => ResultsAreFiled
  <2> SUFFICES ASSUME LinesInv PROVE ResultsAreFiled
    OBVIOUS
  <2> DEFINE lines == LinesOf(filed)
  <2>1. CASE meta.status = "completed" \/ files # NoFiles
    <3>1. /\ files = BuildOutput(lines)
          /\ meta.completed = Cardinality(files.ok)
          /\ meta.failed = Cardinality(files.err)
          /\ filed \subseteq Told
          /\ input.provider # "cloudflare" => filed = Told
          /\ \A id \in filed : job.result[id] # "null"
          /\ Stored
      BY <2>1 DEF LinesInv, FilesFit, Stored, Terminal
    <3>2. /\ IsFiniteSet(files.ok) /\ IsFiniteSet(files.err)
          /\ files.ok \subseteq lines /\ files.err = lines \ files.ok
      BY <3>1, FiledIsFinite
    <3>3. /\ lines = {LineResult(input, id, job.result[id]) : id \in filed}
          /\ \A id \in filed : LineResult(input, id, job.result[id]).id = id
      BY <3>1, LineIsLine DEF LinesOf, Told
    <3>4. \A l \in lines : l.id \in filed /\ l = LineResult(input, l.id, job.result[l.id])
      BY <3>3
    <3>5. \A k, l \in lines : k.id = l.id => k = l
      BY <3>4
    <3> HIDE DEF lines
    <3>6. IdsOf(files.ok) \cap IdsOf(files.err) = {}
      BY <3>2, <3>5 DEF IdsOf
    <3>7. IdsOf(files.ok) \cup IdsOf(files.err) = filed
      BY <3>2, <3>3, <3>4 DEF IdsOf
    <3>8. /\ IsFiniteSet(IdsOf(files.ok)) /\ Cardinality(IdsOf(files.ok)) = meta.completed
          /\ IsFiniteSet(IdsOf(files.err)) /\ Cardinality(IdsOf(files.err)) = meta.failed
      BY <3>1, <3>2, <3>5, OneLineAnId
    <3>9. meta.completed + meta.failed \leq meta.total
      <4>1. IsFiniteSet(Sent) /\ Cardinality(Sent) <= meta.total /\ filed \subseteq Sent
        BY <3>1, SentIsFinite DEF LinesInv, TypeOK, Accepted, JobFits
      <4>2. Cardinality(filed) <= Cardinality(Sent)
        BY <4>1, FS_Subset
      <4>3. Cardinality(filed) = meta.completed + meta.failed - Cardinality({})
        BY <3>6, <3>7, <3>8, FS_Union
      <4>4. Cardinality({}) = 0
        BY FS_EmptySet
      <4>5. Cardinality(Sent) \in Nat /\ Cardinality(filed) \in Nat
        BY <4>1, FS_CardinalityType, FS_Subset
      <4>6. meta.completed \in Nat /\ meta.failed \in Nat /\ meta.total \in Nat
        BY DEF LinesInv, TypeOK, Meta
      <4> QED BY <4>1, <4>2, <4>3, <4>4, <4>5, <4>6
    <3>10. LinesAccountedFor
      BY <3>1, <3>6, <3>7, <3>8, <3>9 DEF LinesAccountedFor
    <3>11. \A l \in lines : IsOutput(l) <=> PassesAsSuccess(input, job.result[l.id])
      <4>1. input.endpoint \in {"chat", "embeddings"}
        <5>1. WellFormed(input) /\ input \in Input
          BY <3>1, ParsedIsWellFormed DEF LinesInv, TypeOK, Accepted
        <5> QED BY <5>1 DEF WellFormed, Input, Endpoints
      <4>2. \A id \in filed : /\ id \in Ids
                             /\ job.result[id] \in Results(input)
                             /\ job.result[id] # "null"
        BY <3>1 DEF LinesInv, TypeOK, Job, Told
      <4> QED BY <3>4, <4>1, <4>2, LineIsTrue
    <3>12. files.ok = {l \in lines : IsOutput(l)}
      BY <3>1 DEF BuildOutput, IsOutput
    <3>13. OutputIsSuccess
      BY <3>2, <3>11, <3>12 DEF OutputIsSuccess, Understood, PassesAsSuccess
    <3> QED BY <3>10, <3>13 DEF ResultsAreFiled, LinesInv
  <2>2. CASE ~(meta.status = "completed" \/ files # NoFiles)
    <3>1. TypeOK /\ LinesAccountedFor
      BY <2>2 DEF LinesAccountedFor, LinesInv
    <3>2. files.ok = {} /\ files.err = {}
      BY <2>2 DEF NoFiles
    <3>3. OutputIsSuccess
      BY <3>2 DEF OutputIsSuccess
    <3> QED BY <3>1, <3>3 DEF ResultsAreFiled
  <2> QED BY <2>1, <2>2
<1> QED BY <1>1, LinesInvariant, PTL

(* A terminal status says what became of the job (finalize and the polls   *)
(* of the three submitters).                                               *)
THEOREM Outcomes == Spec => []OutcomeIsTrue
<1>1. LinesInv => OutcomeIsTrue
  BY DEF LinesInv
<1> QED BY <1>1, LinesInvariant, PTL

===============================================================================
