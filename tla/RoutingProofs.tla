----------------------------- MODULE RoutingProofs -----------------------------
(***************************************************************************)
(* Proofs about Routing, for any backends, any config file, any answers of *)
(* the providers and any allow requests: what is loaded stays true, what   *)
(* is cached is whole, what is allowed lasts, what is dialled is carried   *)
(* and what is listed can be called.                                       *)
(*                                                                         *)
(* The parts that the invariant rests on come first: how ids are prefixed, *)
(* what a load makes of its input, and what a fetch that reads a changing  *)
(* list page by page brings.  Then the invariant, one lemma per action,    *)
(* and the properties that follow from it.                                 *)
(***************************************************************************)
EXTENDS Routing, SequenceTheorems, WellFoundedInduction, TLAPS

-----------------------------------------------------------------------------
(* Model ids: what a prefix puts on and NormalizeDownstream takes off.     *)

(* A model id is a sequence of texts, and only the blank one is empty.     *)
LEMMA ModelIs ==
  ASSUME NEW m \in Model
  PROVE  /\ Len(m) \in Nat
         /\ DOMAIN m = 1 .. Len(m)
         /\ \A i \in 1 .. Len(m) : m[i] \in Text
         /\ m = NoModel <=> Len(m) = 0
BY LenProperties, ElementOfSeq, EmptySeq DEF Model, NoModel

(* An id under one more prefix.                                            *)
LEMMA Cons ==
  ASSUME NEW b \in Text, NEW m \in Model
  PROVE  /\ <<b>> \o m \in Model
         /\ Len(<<b>> \o m) = Len(m) + 1
         /\ Head(<<b>> \o m) = b
         /\ (<<b>> \o m)[1] = b
         /\ \A i \in 1 .. Len(m) : (<<b>> \o m)[i + 1] = m[i]
<1>1. <<b>> \in Seq(Text) /\ Len(<<b>>) = 1 /\ <<b>>[1] = b
  OBVIOUS
<1>2. /\ <<b>> \o m \in Seq(Text)
      /\ Len(<<b>> \o m) = 1 + Len(m)
      /\ \A i \in 1 .. 1 + Len(m) :
            (<<b>> \o m)[i] = IF i <= 1 THEN <<b>>[i] ELSE m[i - 1]
  <2>1. m \in Seq(Text)
    BY DEF Model
  <2> QED BY <1>1, <2>1, ConcatProperties
<1>3. Len(m) \in Nat
  BY ModelIs
<1>4. (<<b>> \o m)[1] = b
  BY <1>1, <1>2, <1>3
<1>5. Head(<<b>> \o m) = (<<b>> \o m)[1]
  BY <1>2, <1>3
<1> QED BY <1>1, <1>2, <1>3, <1>4, <1>5 DEF Model

(* Taking the prefix off an id gives the id back.                          *)
LEMMA TailCons ==
  ASSUME NEW b \in Text, NEW m \in Model
  PROVE  Tail(<<b>> \o m) = m
<1> DEFINE c == <<b>> \o m
<1>1. c \in Model /\ Len(c) = Len(m) + 1 /\ \A i \in 1 .. Len(m) : c[i + 1] = m[i]
  BY Cons
<1> HIDE DEF c
<1>2. Len(m) \in Nat /\ c # <<>>
  BY <1>1, ModelIs DEF NoModel
<1>3. /\ Tail(c) \in Seq(Text)
      /\ Len(Tail(c)) = Len(m)
      /\ \A i \in 1 .. Len(m) : Tail(c)[i] = c[i + 1]
  BY <1>1, <1>2, HeadTailProperties DEF Model
<1>4. Tail(c) = m
  BY <1>1, <1>3, SeqEqual DEF Model
<1> QED BY <1>4 DEF c

(* An id of more than one part is not blank.                               *)
LEMMA LongNotBlank ==
  ASSUME NEW m \in Model, Len(m) > 1
  PROVE  ~Blank(m)
<1>1. Len(<<"">>) = 1 /\ Len(<<>>) = 0
  OBVIOUS
<1>2. ASSUME m = <<"">> PROVE FALSE
  <2>1. Len(m) = 1
    BY <1>1, <1>2, Zenon
  <2> QED BY <2>1
<1>3. ASSUME m = <<>> PROVE FALSE
  <2>1. Len(m) = 0
    BY <1>1, <1>3, Zenon
  <2> QED BY <2>1
<1> QED BY <1>2, <1>3, Zenon DEF Blank, NoModel

(* An id with a prefix is that prefix and a rest that names something.     *)
LEMMA PrefixedIs ==
  ASSUME NEW b, NEW m \in Model, Prefixed(b, m)
  PROVE  /\ b \in Text
         /\ m[1] = b
         /\ Len(m) > 1
         /\ Tail(m) \in Model
         /\ Tail(m) # NoModel
         /\ m = <<b>> \o Tail(m)
         /\ ~Blank(m)
<1>1. Len(m) \in Nat /\ Len(m) > 1 /\ Head(m) = b /\ m # <<>>
  BY ModelIs DEF Prefixed, NoModel
<1>2. /\ Tail(m) \in Model
      /\ Len(Tail(m)) = Len(m) - 1
      /\ \A i \in 1 .. Len(Tail(m)) : Tail(m)[i] = m[i + 1]
  BY <1>1, HeadTailProperties DEF Model
<1>3. Head(m) = m[1] /\ m[1] \in Text
  BY <1>1, ModelIs
<1>4. Tail(m) # NoModel
  <2> DEFINE t == Tail(m)
  <2>1. t \in Model /\ Len(t) # 0
    BY <1>1, <1>2
  <2> HIDE DEF t
  <2>2. t # NoModel
    BY <2>1, ModelIs
  <2> QED BY <2>2 DEF t
<1> DEFINE c == <<b>> \o Tail(m)
<1>5. /\ c \in Model /\ Len(c) = Len(m) /\ c[1] = m[1]
      /\ \A i \in 1 .. Len(Tail(m)) : c[i + 1] = m[i + 1]
  <2>1. b \in Text
    BY <1>1, <1>3
  <2>2. /\ c \in Model /\ Len(c) = Len(Tail(m)) + 1 /\ c[1] = b
        /\ \A i \in 1 .. Len(Tail(m)) : c[i + 1] = Tail(m)[i]
    BY <1>2, <2>1, Cons
  <2> HIDE DEF c
  <2> QED BY <2>2, <1>1, <1>2, <1>3
<1> HIDE DEF c
<1>6. \A i \in 1 .. Len(m) : m[i] = c[i]
  <2> SUFFICES ASSUME NEW i \in 1 .. Len(m) PROVE m[i] = c[i]
    OBVIOUS
  <2>1. CASE i = 1
    BY <2>1, <1>5
  <2>2. CASE i # 1
    <3>1. i - 1 \in 1 .. Len(Tail(m)) /\ (i - 1) + 1 = i
      BY <2>2, <1>1, <1>2
    <3> QED BY <3>1, <1>5
  <2> QED BY <2>1, <2>2
<1>7. m = c
  BY <1>5, <1>6, SeqEqual DEF Model
<1>8. ~Blank(m)
  BY <1>1, LongNotBlank
<1> QED BY <1>1, <1>2, <1>3, <1>4, <1>7, <1>8 DEF c

(* The prefix put on a model that names something is one                   *)
(* NormalizeDownstream takes off, and no other name is a prefix of it.     *)
LEMMA PrefixedCons ==
  ASSUME NEW b \in Text, NEW m \in Model
  PROVE  /\ Prefixed(b, <<b>> \o m) <=> m # NoModel
         /\ m # NoModel => NormalizeDownstream(b, <<b>> \o m) = m
         /\ \A a : a # b => ~Prefixed(a, <<b>> \o m)
<1>1. Len(<<b>> \o m) = Len(m) + 1 /\ Head(<<b>> \o m) = b /\ Tail(<<b>> \o m) = m
  BY Cons, TailCons
<1>2. Len(m) \in Nat /\ (m = NoModel <=> Len(m) = 0)
  BY ModelIs
<1> DEFINE c == <<b>> \o m
<1> HIDE DEF c
<1>3. Len(c) = Len(m) + 1 /\ Head(c) = b /\ Tail(c) = m
  BY <1>1 DEF c
<1>4. Prefixed(b, c) <=> m # NoModel
  BY <1>2, <1>3 DEF Prefixed
<1>5. m # NoModel => NormalizeDownstream(b, c) = m
  BY <1>3, <1>4 DEF NormalizeDownstream
<1>6. \A a : a # b => ~Prefixed(a, c)
  BY <1>3 DEF Prefixed
<1> QED BY <1>4, <1>5, <1>6 DEF c

(* Under one prefix, two models are the same only if their ids are.        *)
LEMMA ConsInjective ==
  ASSUME NEW b \in Text, NEW m \in Model, NEW k \in Model, <<b>> \o m = <<b>> \o k
  PROVE  m = k
BY TailCons

(* NormalizeDownstream takes one prefix off, or nothing.                   *)
LEMMA DownstreamIs ==
  ASSUME NEW b, NEW m \in Model
  PROVE  /\ NormalizeDownstream(b, m) \in Model
         /\ ~Prefixed(b, m) => NormalizeDownstream(b, m) = m
         /\ Prefixed(b, m) => /\ m = <<b>> \o NormalizeDownstream(b, m)
                              /\ NormalizeDownstream(b, m) = Tail(m)
                              /\ NormalizeDownstream(b, m) # NoModel
BY PrefixedIs DEF NormalizeDownstream

(* prefixModelID puts the prefix on once.                                  *)
LEMMA PublicIs ==
  ASSUME NEW b \in Text, NEW m \in Model
  PROVE  /\ prefixModelID(b, m) \in Model
         /\ m # NoModel => Prefixed(b, prefixModelID(b, m))
         /\ ~Prefixed(b, m) => prefixModelID(b, m) = <<b>> \o m
         /\ Prefixed(b, m) => prefixModelID(b, m) = m
BY Cons, PrefixedCons DEF prefixModelID

-----------------------------------------------------------------------------
(* The allow lists.                                                        *)

(* What an allow list lets through, a longer one does.                     *)
LEMMA AllowGrows ==
  ASSUME NEW b, NEW m, NEW allow, NEW more, allow \subseteq more,
         ModelInAllowList(b, m, allow)
  PROVE  ModelInAllowList(b, m, more)
BY DEF ModelInAllowList

(* The entries that let a public id pass: the downstream id, the public id *)
(* and, by the other reading, the public id under the prefix once more.    *)
LEMMA PublicInAllowList ==
  ASSUME NEW b \in Text, NEW down \in Model, ~Prefixed(b, down), ~Blank(down),
         NEW allow \in SUBSET Model
  PROVE  LET id == <<b>> \o down
         IN  /\ ModelInAllowList(b, id, allow)
                  <=> \E e \in allow : e \in {down, id, <<b>> \o id}
             /\ ModelInAllowList(b, down, allow) => ModelInAllowList(b, id, allow)
<1> DEFINE id == <<b>> \o down
           twice == <<b>> \o id
<1>1. /\ id \in Model /\ Prefixed(b, id) /\ NormalizeDownstream(b, id) = down
      /\ NormalizeDownstream(b, down) = down
      /\ down # NoModel
  BY Cons, PrefixedCons, DownstreamIs DEF Blank
<1>2. twice \in Model /\ Prefixed(b, twice) /\ NormalizeDownstream(b, twice) = id
  BY <1>1, Cons, PrefixedCons, PrefixedIs DEF Blank
<1>3. ~Blank(id) /\ ~Blank(twice)
  BY <1>1, <1>2, PrefixedIs
<1>4. ASSUME NEW e \in Model, NormalizeDownstream(b, e) = id
      PROVE  e \in {id, twice}
  BY <1>4, DownstreamIs, ZenonT(40)
<1>5. ASSUME NEW e \in Model, NormalizeDownstream(b, e) = down
      PROVE  e \in {down, id}
  BY <1>5, DownstreamIs
<1>6. ASSUME NEW e \in Model, <<b>> \o e = id
      PROVE  e = down
  BY <1>6, TailCons
<1>7. \A e \in Model : NormalizeDownstream(b, e) \in Model
  BY DownstreamIs
<1> HIDE DEF id, twice
<1>8. ASSUME ModelInAllowList(b, id, allow)
      PROVE  \E e \in allow : e \in {down, id, twice}
  <2>1. PICK e \in allow :
          \/ {id, down} \cap {e, NormalizeDownstream(b, e)} # {}
          \/ id \in {<<b>> \o e, <<b>> \o NormalizeDownstream(b, e)}
          \/ e = <<b>> \o down
    BY <1>1, <1>8 DEF ModelInAllowList
  <2>2. e \in Model
    OBVIOUS
  <2>3. CASE {id, down} \cap {e, NormalizeDownstream(b, e)} # {}
    BY <2>2, <2>3, <1>4, <1>5
  <2>4. CASE id \in {<<b>> \o e, <<b>> \o NormalizeDownstream(b, e)}
    BY <2>2, <2>4, <1>5, <1>6, <1>7
  <2>5. CASE e = <<b>> \o down
    BY <2>5 DEF id
  <2> QED BY <2>1, <2>3, <2>4, <2>5
<1>9. ASSUME NEW e \in allow, e \in {down, id, twice}
      PROVE  ModelInAllowList(b, id, allow)
  <2>1. ~Blank(e)
    BY <1>3, <1>9
  <2>2. {id, down} \cap {e, NormalizeDownstream(b, e)} # {}
    BY <1>1, <1>2, <1>9
  <2> QED BY <1>1, <1>3, <2>1, <2>2 DEF ModelInAllowList
<1>10. ASSUME ModelInAllowList(b, down, allow)
       PROVE  \E e \in allow : e \in {down, id, twice}
  <2>1. PICK e \in allow :
          \/ {down} \cap {e, NormalizeDownstream(b, e)} # {}
          \/ down \in {<<b>> \o e, <<b>> \o NormalizeDownstream(b, e)} /\ ~Blank(e)
          \/ e = <<b>> \o down
    BY <1>1, <1>10 DEF ModelInAllowList
  <2>2. e \in Model
    OBVIOUS
  <2>3. CASE {down} \cap {e, NormalizeDownstream(b, e)} # {}
    BY <2>2, <2>3, <1>5
  <2>4. CASE down \in {<<b>> \o e, <<b>> \o NormalizeDownstream(b, e)} /\ ~Blank(e)
    <3>1. e # NoModel /\ NormalizeDownstream(b, e) # NoModel
      BY <2>2, <2>4, DownstreamIs DEF Blank
    <3>2. Prefixed(b, <<b>> \o e) /\ Prefixed(b, <<b>> \o NormalizeDownstream(b, e))
      BY <2>2, <3>1, <1>7, PrefixedCons
    <3> QED BY <2>4, <3>2
  <2>5. CASE e = <<b>> \o down
    BY <2>5 DEF id
  <2> QED BY <2>1, <2>3, <2>4, <2>5
<1> QED BY <1>8, <1>9, <1>10 DEF id, twice

-----------------------------------------------------------------------------
(* What a load makes of an input.                                          *)

ConfigFields == {"slots", "batchSpecified", "reject", "speechModel", "switchyard",
                 "routers", "backends"}

Backend == [id : Text, caps : SUBSET Text, ext : Text, remote : BOOLEAN, url : Text,
            cred : BOOLEAN, gated : BOOLEAN, allow : SUBSET Model,
            sysGated : BOOLEAN, sysAllow : SUBSET Model, sync : BOOLEAN]

Slot == [on : BOOLEAN, default : Text]

BackendsOK(table) ==
    /\ DOMAIN table \subseteq Ids
    /\ \A b \in DOMAIN table : table[b] \in Backend /\ table[b].id = b

ConfigOK(c) ==
    /\ DOMAIN c = ConfigFields
    /\ c.slots \in [Slots -> Slot]
    /\ c.speechModel \in [{"tts", "stt"} -> Model]
    /\ BackendsOK(c.backends)

(* The ids of backends are texts, and NoId is none of them.                *)
LEMMA IdsAreText == Ids \subseteq Text /\ mlxLocalID \in Ids /\ NoId \notin Ids
BY IdsAssumption, ElementOfSeq, LenProperties DEF Ids

(* The program's words are texts.                                          *)
LEMMA TextHas ==
  /\ NoId \in Text
  /\ {"loopback", "tts", "stt", "voices", "batch"} \subseteq Text
BY WordsAssumption, Zenon DEF Capabilities

(* So is the empty one.                                                    *)
LEMMA EmptyText == "" \in Text
BY WordsAssumption, Zenon

(* A backend's entry under its id is a backend.                            *)
LEMMA WithIDOK ==
  ASSUME NEW b \in Ids, NEW e \in Entry
  PROVE  withID(b, e) \in Backend /\ withID(b, e).id = b
BY IdsAreText DEF withID, Entry, Backend

(* A file read as it is gives a config, with the file's routers.           *)
LEMMA FileOK ==
  ASSUME NEW i \in Inputs
  PROVE  /\ ConfigOK(loadRouterFileAt(i))
         /\ loadRouterFileAt(i).routers = i.file.routers
<1>0. InputOK(i)
  BY InputsAssumption
<1> DEFINE c == loadRouterFileAt(i)
<1>1. /\ DOMAIN c = ConfigFields
      /\ c.slots = [s \in Slots |-> [on      |-> i.file.slots[s].on = "on",
                                     default |-> i.file.slots[s].default]]
      /\ c.speechModel = i.speechModel
      /\ c.routers = i.file.routers
      /\ c.backends = [b \in DOMAIN i.file.backends |-> withID(b, i.file.backends[b])]
  BY DEF loadRouterFileAt, ConfigFields
<1> HIDE DEF c
<1>2. c.slots \in [Slots -> Slot]
  <2>1. i.file.slots \in [Slots -> [on : Text, default : Text]]
    BY <1>0 DEF InputOK
  <2> QED BY <2>1, <1>1 DEF Slot
<1>3. BackendsOK(c.backends)
  <2>1. /\ DOMAIN i.file.backends \subseteq Ids
        /\ \A b \in DOMAIN i.file.backends : i.file.backends[b] \in Entry
    BY <1>0 DEF InputOK
  <2> QED BY <2>1, <1>1, WithIDOK DEF BackendsOK
<1>4. c.speechModel \in [{"tts", "stt"} -> Model]
  BY <1>0, <1>1 DEF InputOK
<1> QED BY <1>1, <1>2, <1>3, <1>4 DEF ConfigOK, c

(* The environment alone gives a config without routers.                   *)
LEMMA DefaultOK ==
  ASSUME NEW i \in Inputs
  PROVE  /\ ConfigOK(defaultRouterFromEnv(i))
         /\ defaultRouterFromEnv(i).routers = <<>>
<1>0. i.backendURL \in Text /\ i.speechModel \in [{"tts", "stt"} -> Model]
  BY InputsAssumption, Zenon DEF InputOK
<1> DEFINE c == defaultRouterFromEnv(i)
           e == c.backends[mlxLocalID]
<1>1. /\ DOMAIN c = ConfigFields
      /\ c.slots = [s \in Slots |-> IF s \in SpeechSlots
                                    THEN [on |-> TRUE,  default |-> mlxLocalID]
                                    ELSE [on |-> FALSE, default |-> NoId]]
      /\ c.speechModel = i.speechModel
      /\ c.routers = <<>>
      /\ DOMAIN c.backends = {mlxLocalID}
  BY DEF defaultRouterFromEnv, ConfigFields
<1>2. e \in Backend /\ e.id = mlxLocalID
  <2> DEFINE url == IF i.backendURL = "" THEN "loopback" ELSE i.backendURL
             none == ""
  <2>1. url \in Text /\ none \in Text
    BY <1>0, TextHas, EmptyText, Zenon
  <2>2. mlxLocalID \in Text /\ {"tts", "stt", "voices"} \in SUBSET Text
    BY IdsAreText, TextHas
  <2>3. e = [id |-> mlxLocalID, caps |-> {"tts", "stt", "voices"}, ext |-> none,
             remote |-> FALSE, url |-> url,
             cred |-> TRUE, gated |-> FALSE, allow |-> {}, sysGated |-> FALSE,
             sysAllow |-> {}, sync |-> TRUE]
    BY DEF defaultRouterFromEnv
  <2> HIDE DEF url, none, e
  <2> QED BY <2>1, <2>2, <2>3 DEF Backend
<1> HIDE DEF c, e
<1>3. c.slots \in [Slots -> Slot]
  <2>1. /\ [on |-> TRUE,  default |-> mlxLocalID] \in Slot
        /\ [on |-> FALSE, default |-> NoId] \in Slot
    BY IdsAreText, TextHas DEF Slot
  <2> QED BY <1>1, <2>1
<1>4. BackendsOK(c.backends)
  BY <1>1, <1>2, IdsAreText DEF BackendsOK, e
<1>5. c.speechModel \in [{"tts", "stt"} -> Model]
  BY <1>0, <1>1
<1> QED BY <1>1, <1>3, <1>4, <1>5 DEF ConfigOK, c

(* Either way there is a config, whose routers are the file's if there is  *)
(* one.                                                                    *)
LEMMA ParsedOK ==
  ASSUME NEW i \in Inputs
  PROVE  /\ ConfigOK(parsed(i))
         /\ parsed(i).routers = IF i.found THEN i.file.routers ELSE <<>>
<1> DEFINE c == IF i.found THEN loadRouterFileAt(i) ELSE defaultRouterFromEnv(i)
           d == applyRouterEnvOverrides(c, i)
<1>1. ConfigOK(c) /\ c.routers = IF i.found THEN i.file.routers ELSE <<>>
  BY FileOK, DefaultOK
<1> HIDE DEF c
<1>2. i.env \in [Slots -> Text]
  BY InputsAssumption DEF InputOK
<1>3. /\ DOMAIN d = ConfigFields
      /\ d.slots = [s \in Slots |-> IF i.env[s] = NoId THEN c.slots[s]
                                    ELSE [on |-> TRUE, default |-> i.env[s]]]
      /\ d.speechModel = c.speechModel
      /\ d.routers = c.routers
      /\ DOMAIN d.backends = DOMAIN c.backends
      /\ \A b \in DOMAIN c.backends :
            d.backends[b] = IF b = mlxLocalID /\ i.backendURL # ""
                            THEN [c.backends[b] EXCEPT !.url = i.backendURL]
                            ELSE c.backends[b]
  BY <1>1 DEF applyRouterEnvOverrides, ConfigOK, ConfigFields
<1> HIDE DEF d
<1>4. d.slots \in [Slots -> Slot]
  <2>1. \A s \in Slots : [on |-> TRUE, default |-> i.env[s]] \in Slot
    BY <1>2 DEF Slot
  <2>2. c.slots \in [Slots -> Slot]
    BY <1>1 DEF ConfigOK
  <2> QED BY <1>3, <2>1, <2>2
<1>5. i.backendURL \in Text
  BY InputsAssumption DEF InputOK
<1>6. BackendsOK(d.backends)
  <2> SUFFICES ASSUME NEW b \in DOMAIN c.backends
               PROVE  d.backends[b] \in Backend /\ d.backends[b].id = b
    BY <1>1, <1>3 DEF BackendsOK, ConfigOK
  <2>1. c.backends[b] \in Backend /\ c.backends[b].id = b
    BY <1>1 DEF BackendsOK, ConfigOK
  <2> QED BY <2>1, <1>3, <1>5, ZenonT(40) DEF Backend
<1>7. ConfigOK(d) /\ d.routers = IF i.found THEN i.file.routers ELSE <<>>
  BY <1>1, <1>3, <1>4, <1>6 DEF ConfigOK
<1> QED BY <1>7 DEF parsed, c, d

(* A slot's default set by the load leaves a config.                       *)
LEMMA SetDefault ==
  ASSUME NEW c, ConfigOK(c), NEW s \in Slots, NEW v \in Text
  PROVE  /\ ConfigOK(withDefault(c, s, v))
         /\ withDefault(c, s, v).routers = c.routers
<1> DEFINE d == withDefault(c, s, v)
<1>1. /\ DOMAIN d = ConfigFields
      /\ d.slots = [c.slots EXCEPT ![s].default = v]
      /\ d.speechModel = c.speechModel
      /\ d.routers = c.routers
      /\ d.backends = c.backends
  BY DEF ConfigOK, ConfigFields, withDefault
<1> HIDE DEF d
<1>2. d.slots \in [Slots -> Slot]
  <2>1. c.slots \in [Slots -> Slot] /\ [c.slots[s] EXCEPT !.default = v] \in Slot
    BY DEF ConfigOK, Slot
  <2> QED BY <1>1, <2>1
<1> QED BY <1>1, <1>2 DEF ConfigOK, d

(* So do the steps that fill in a slot's default.                          *)
LEMMA NormOK ==
  ASSUME NEW c, ConfigOK(c), NEW s \in Slots
  PROVE  /\ ConfigOK(normalizeCapabilityBackend(c, s))
         /\ normalizeCapabilityBackend(c, s).routers = c.routers
         /\ ConfigOK(inheritTTSDefault(c, s))
         /\ inheritTTSDefault(c, s).routers = c.routers
<1>1. c.slots["tts"].default \in Text
  <2>1. c.slots["tts"] \in Slot
    BY DEF ConfigOK, Slots
  <2> QED BY <2>1 DEF Slot
<1>2. NoId \in Text /\ mlxLocalID \in Text
  BY IdsAreText, TextHas
<1>3. \A v \in Text : ConfigOK(withDefault(c, s, v)) /\ withDefault(c, s, v).routers = c.routers
  BY SetDefault
<1>4. \/ normalizeCapabilityBackend(c, s) = withDefault(c, s, NoId)
      \/ normalizeCapabilityBackend(c, s) = withDefault(c, s, mlxLocalID)
      \/ normalizeCapabilityBackend(c, s) = c
  BY DEF normalizeCapabilityBackend
<1>5. \/ inheritTTSDefault(c, s) = withDefault(c, s, c.slots["tts"].default)
      \/ inheritTTSDefault(c, s) = c
  BY DEF inheritTTSDefault
<1>6. /\ ConfigOK(normalizeCapabilityBackend(c, s))
      /\ normalizeCapabilityBackend(c, s).routers = c.routers
  BY <1>2, <1>3, <1>4
<1>7. /\ ConfigOK(inheritTTSDefault(c, s))
      /\ inheritTTSDefault(c, s).routers = c.routers
  BY <1>1, <1>3, <1>5
<1> QED BY <1>6, <1>7

(* So does the default of the batch slot.                                  *)
LEMMA FillOK ==
  ASSUME NEW c, ConfigOK(c)
  PROVE  /\ ConfigOK(fillDefaultBatchBackend(c))
         /\ fillDefaultBatchBackend(c).routers = c.routers
<1> DEFINE named == c.slots["batch"].default
           id == IF named # NoId THEN named ELSE firstCloudflareBackendID(c)
           on == IF c.batchSpecified THEN c
                 ELSE [c EXCEPT !.slots["batch"] = [on |-> TRUE, default |-> id]]
           d  == ensureCapability(on, id, "batch")
<1> SUFFICES ASSUME IsCloudflare(c, id)
             PROVE  /\ ConfigOK(on) /\ on.routers = c.routers
                    /\ ConfigOK(d)  /\ d.routers = c.routers
  BY DEF fillDefaultBatchBackend
<1> HIDE DEF id
<1>1. id \in DOMAIN c.backends /\ id \in Text
  BY IdsAreText DEF IsCloudflare, ConfigOK, BackendsOK
<1>2. ConfigOK(on) /\ on.routers = c.routers /\ on.backends = c.backends
  <2>1. CASE c.batchSpecified
    BY <2>1
  <2>2. CASE ~c.batchSpecified
    <3>1. /\ DOMAIN on = ConfigFields
          /\ on.slots = [c.slots EXCEPT !["batch"] = [on |-> TRUE, default |-> id]]
          /\ on.speechModel = c.speechModel
          /\ on.routers = c.routers
          /\ on.backends = c.backends
      BY <2>2 DEF ConfigOK, ConfigFields
    <3> HIDE DEF on
    <3>2. on.slots \in [Slots -> Slot]
      <4>1. c.slots \in [Slots -> Slot] /\ [on |-> TRUE, default |-> id] \in Slot
        BY <1>1 DEF ConfigOK, Slot
      <4> QED BY <3>1, <4>1
    <3> QED BY <3>1, <3>2 DEF ConfigOK
  <2> QED BY <2>1, <2>2
<1> HIDE DEF on
<1>3. /\ DOMAIN d = ConfigFields
      /\ d.slots = on.slots
      /\ d.speechModel = on.speechModel
      /\ d.routers = on.routers
      /\ d.backends = [on.backends EXCEPT ![id].caps = @ \cup {"batch"}]
  BY <1>2 DEF ensureCapability, ConfigOK, ConfigFields
<1> HIDE DEF d
<1>4. BackendsOK(d.backends)
  <2>1. [on.backends[id] EXCEPT !.caps = @ \cup {"batch"}] \in Backend
    <3> DEFINE e == on.backends[id]
    <3>1. e \in Backend
      BY <1>1, <1>2 DEF ConfigOK, BackendsOK
    <3>2. "batch" \in Text
      BY TextHas
    <3> HIDE DEF e
    <3>3. [e EXCEPT !.caps = @ \cup {"batch"}] \in Backend
      BY <3>1, <3>2 DEF Backend
    <3> QED BY <3>3 DEF e
  <2>2. /\ DOMAIN d.backends = DOMAIN on.backends
        /\ \A b \in DOMAIN d.backends : b # id => d.backends[b] = on.backends[b]
        /\ d.backends[id] = [on.backends[id] EXCEPT !.caps = @ \cup {"batch"}]
    BY <1>1, <1>2, <1>3
  <2>3. d.backends[id].id = on.backends[id].id
    BY <2>2, <1>1, <1>2 DEF ConfigOK, BackendsOK, Backend
  <2> QED BY <2>1, <2>2, <2>3, <1>2 DEF ConfigOK, BackendsOK
<1>5. ConfigOK(d)
  BY <1>2, <1>3, <1>4 DEF ConfigOK
<1> QED BY <1>2, <1>3, <1>5

(* So does all the load does to one slot.                                  *)
LEMMA SlotOK ==
  ASSUME NEW c, ConfigOK(c), NEW s \in Slots
  PROVE  /\ ConfigOK(normalizeSlot(c, s))
         /\ normalizeSlot(c, s).routers = c.routers
BY NormOK DEF normalizeSlot

(* What a load makes of any input is a config, with the file's routers:    *)
(* the parts of the load never add a backend or a router.                  *)
LEMMA LoadedOK ==
  ASSUME NEW i \in Inputs
  PROVE  /\ ConfigOK(LoadRouterConfig(i))
         /\ LoadRouterConfig(i).routers = IF i.found THEN i.file.routers ELSE <<>>
<1> DEFINE c == parsed(i)
           Fine(d) == ConfigOK(d) /\ d.routers = c.routers
<1>1. ASSUME NEW d, Fine(d), NEW s \in Slots
      PROVE  Fine(normalizeSlot(d, s)) /\ Fine(normalizeCapabilityBackend(d, s))
  BY <1>1, SlotOK, NormOK
<1>2. ASSUME NEW d, Fine(d) PROVE Fine(fillDefaultBatchBackend(d))
  BY <1>2, FillOK
<1>3. Fine(c)
  BY ParsedOK
<1>4. {"chat", "vision", "embed", "tts", "stt", "proxy", "systemone", "batch"} = Slots
  BY DEF Slots
<1> DEFINE text   == normalizeSlot(normalizeSlot(normalizeSlot(c, "chat"), "vision"), "embed")
           speech == normalizeSlot(normalizeSlot(normalizeSlot(text, "tts"), "stt"), "proxy")
           batch  == fillDefaultBatchBackend(normalizeSlot(speech, "systemone"))
           end    == normalizeCapabilityBackend(batch, "batch")
<1>5. LoadRouterConfig(i) = end
  BY DEF LoadRouterConfig, normalizeSlots
<1> HIDE DEF c, Fine
<1>6. Fine(text)
  BY <1>1, <1>3, <1>4
<1> HIDE DEF text
<1>7. Fine(speech)
  BY <1>1, <1>4, <1>6
<1> HIDE DEF speech
<1>8. Fine(batch)
  BY <1>1, <1>2, <1>4, <1>7
<1> HIDE DEF batch
<1>9. Fine(end)
  BY <1>1, <1>4, <1>8
<1> HIDE DEF end
<1> QED BY <1>5, <1>9, ParsedOK DEF Fine, c

-----------------------------------------------------------------------------
(* A fetch, page by page.                                                  *)

Catalog == [name : Model, id : Model]
Reply   == [form : Text, entries : Seq(Catalog)]

(* Every set of numbers that is not empty has a least one.                 *)
LEMMA NatMin ==
  ASSUME NEW T \in SUBSET Nat, T # {}
  PROVE  \E x \in T : \A y \in T : x <= y
<1>1. PICK x \in T : \A y \in T : ~(<<y, x>> \in OpToRel(<, Nat))
  BY NatLessThanWellFounded, WFMin
<1>2. ASSUME NEW y \in T PROVE x <= y
  <2>1. ~(<<y, x>> \in OpToRel(<, Nat))
    BY <1>1
  <2>2. ~(y < x)
    BY <2>1 DEF OpToRel
  <2> QED BY <2>2
<1> QED BY <1>2

(* f is what Pages defines, up to page n.                                  *)
IsPages(f, ext, history, n) ==
  f = [k \in 0 .. n |-> IF k = 0 THEN Fetch ELSE fetchPage(ext, history, f[k - 1], k)]

(* What Pages defines up to one page it defines up to the next.            *)
LEMMA PagesExtend ==
  ASSUME NEW ext, NEW history, NEW n \in Nat \ {0}, NEW h, IsPages(h, ext, history, n - 1)
  PROVE  \E f : IsPages(f, ext, history, n)
<1> DEFINE g == [k \in 0 .. n |-> IF k = n THEN fetchPage(ext, history, h[n - 1], n) ELSE h[k]]
<1>1. \A k \in 0 .. (n - 1) :
        h[k] = IF k = 0 THEN Fetch ELSE fetchPage(ext, history, h[k - 1], k)
  BY DEF IsPages
<1>2. \A k \in 0 .. (n - 1) : g[k] = h[k]
  OBVIOUS
<1>3. g[n] = fetchPage(ext, history, h[n - 1], n) /\ g = [k \in 0 .. n |-> g[k]]
  OBVIOUS
<1> HIDE DEF g
<1>4. ASSUME NEW k \in 0 .. n
      PROVE  g[k] = IF k = 0 THEN Fetch ELSE fetchPage(ext, history, g[k - 1], k)
  <2>1. CASE k = n
    BY <2>1, <1>2, <1>3
  <2>2. CASE k # n
    <3>1. k \in 0 .. (n - 1) /\ (k = 0 \/ k - 1 \in 0 .. (n - 1))
      BY <2>2
    <3> QED BY <3>1, <1>1, <1>2
  <2> QED BY <2>1, <2>2
<1>5. IsPages(g, ext, history, n)
  BY <1>3, <1>4 DEF IsPages
<1> QED BY <1>5

(* There is a function that satisfies the definition of Pages.             *)
LEMMA PagesExist ==
  ASSUME NEW ext, NEW history
  PROVE  \E f : IsPages(f, ext, history, MaxPages)
<1> DEFINE T == {n \in 0 .. MaxPages : ~\E f : IsPages(f, ext, history, n)}
<1>0. MaxPages \in Nat
  BY PagesAssumption
<1>1. SUFFICES ASSUME T # {} PROVE FALSE
  BY <1>0
<1>2. T \in SUBSET Nat
  BY <1>0
<1>3. PICK n \in T : \A k \in T : n <= k
  <2> HIDE DEF T
  <2> QED BY <1>1, <1>2, NatMin
<1>4. CASE n = 0
  <2>1. IsPages([k \in 0 .. 0 |-> Fetch], ext, history, 0)
    BY DEF IsPages
  <2> QED BY <2>1, <1>4
<1>5. CASE n # 0
  <2>1. n \in Nat \ {0} /\ n - 1 \in 0 .. MaxPages /\ ~(n <= n - 1)
    BY <1>5, <1>0
  <2>2. n - 1 \notin T
    BY <2>1, <1>3
  <2>3. PICK h : IsPages(h, ext, history, n - 1)
    BY <2>1, <2>2
  <2>4. \E f : IsPages(f, ext, history, n)
    BY <2>1, <2>3, PagesExtend
  <2> QED BY <2>4
<1> QED BY <1>4, <1>5

(* Each page of a fetch is what fetchPage makes of the one before.         *)
LEMMA PagesAre ==
  ASSUME NEW ext, NEW history
  PROVE  /\ MaxPages \in Nat
         /\ Pages(ext, history)[0] = Fetch
         /\ \A k \in 1 .. MaxPages :
               Pages(ext, history)[k] = fetchPage(ext, history, Pages(ext, history)[k - 1], k)
<1>1. PICK g : IsPages(g, ext, history, MaxPages)
  BY PagesExist
<1>2. IsPages(Pages(ext, history), ext, history, MaxPages)
  BY <1>1 DEF Pages, IsPages
<1>3. MaxPages \in Nat
  BY PagesAssumption
<1> DEFINE f == Pages(ext, history)
<1> HIDE DEF f
<1>4. \A k \in 0 .. MaxPages : f[k] = IF k = 0 THEN Fetch ELSE fetchPage(ext, history, f[k - 1], k)
  BY <1>2 DEF IsPages, f
<1>5. f[0] = Fetch
  BY <1>3, <1>4
<1>6. \A k \in 1 .. MaxPages : f[k] = fetchPage(ext, history, f[k - 1], k)
  BY <1>3, <1>4
<1> QED BY <1>3, <1>5, <1>6 DEF f

(* What holds of Fetch, and of the next page when it holds of a page, holds *)
(* of the end of the fetch.  Good is a set of <<pages, fetch>> pairs, since *)
(* an operator cannot be a parameter here.                                  *)
LEMMA PagesInduction ==
  ASSUME NEW ext, NEW history, NEW Good,
         <<0, Fetch>> \in Good,
         \A k \in 1 .. MaxPages : \A f :
            <<k - 1, f>> \in Good => <<k, fetchPage(ext, history, f, k)>> \in Good
  PROVE  <<MaxPages, Pages(ext, history)[MaxPages]>> \in Good
<1> DEFINE f == Pages(ext, history)
           T == {n \in 0 .. MaxPages : <<n, f[n]>> \notin Good}
<1>0. /\ MaxPages \in Nat /\ f[0] = Fetch
      /\ \A k \in 1 .. MaxPages : f[k] = fetchPage(ext, history, f[k - 1], k)
  BY PagesAre
<1> HIDE DEF f
<1>1. SUFFICES ASSUME T # {} PROVE FALSE
  BY <1>0 DEF f
<1>2. T \in SUBSET Nat
  BY <1>0
<1>3. PICK n \in T : \A k \in T : n <= k
  <2> HIDE DEF T
  <2> QED BY <1>1, <1>2, NatMin
<1>4. n # 0
  BY <1>0
<1>5. n \in 1 .. MaxPages /\ n - 1 \in 0 .. MaxPages /\ ~(n <= n - 1)
  BY <1>4, <1>0
<1>6. <<n - 1, f[n - 1]>> \in Good
  BY <1>5, <1>3
<1>7. <<n, f[n]>> \in Good
  BY <1>0, <1>5, <1>6
<1> QED BY <1>7

-----------------------------------------------------------------------------
(* The answers of a history, and the pages cut from them.                  *)

At(history, k) == IF k < Len(history) THEN k ELSE Len(history)

(* Every request is answered by an entry of the history, the last one once *)
(* the others are used up.                                                 *)
LEMMA AnswersAre ==
  ASSUME NEW history \in Seq(Reply), history # <<>>, NEW k \in Nat \ {0}
  PROVE  /\ At(history, k) \in DOMAIN history
         /\ AnswerTo(history, k) = history[At(history, k)]
         /\ AnswerTo(history, k) \in Reply
         /\ AnswerTo(history, k).entries \in Seq(Catalog)
         /\ DOMAIN history = 1 .. Len(history)
         /\ Len(history) \in Nat \ {0}
<1>1. Len(history) \in Nat /\ Len(history) # 0 /\ DOMAIN history = 1 .. Len(history)
  BY EmptySeq, LenProperties
<1>2. At(history, k) \in 1 .. Len(history)
  BY <1>1 DEF At
<1>3. AnswerTo(history, k) = history[At(history, k)]
  BY DEF AnswerTo, At
<1>4. history[At(history, k)] \in Reply
  BY <1>2, ElementOfSeq
<1> QED BY <1>1, <1>2, <1>3, <1>4 DEF Reply

(* A page is PageSize entries of the list at most, in their order, from    *)
(* the one asked for on.                                                   *)
LEMMA CutIs ==
  ASSUME NEW entries \in Seq(Catalog), NEW first \in Nat \ {0}
  PROVE  /\ Cut(entries, first) \in Seq(Catalog)
         /\ Len(Cut(entries, first)) \in Nat
         /\ Len(Cut(entries, first)) <= PageSize
         /\ DOMAIN Cut(entries, first) = 1 .. Len(Cut(entries, first))
         /\ \A i \in DOMAIN Cut(entries, first) :
               /\ first + i - 1 \in DOMAIN entries
               /\ Cut(entries, first)[i] = entries[first + i - 1]
         /\ \A j \in DOMAIN entries : j >= first /\ j < first + PageSize =>
               /\ j - first + 1 \in DOMAIN Cut(entries, first)
               /\ Cut(entries, first)[j - first + 1] = entries[j]
<1> DEFINE last == IF first + PageSize - 1 < Len(entries)
                   THEN first + PageSize - 1 ELSE Len(entries)
           cut  == Cut(entries, first)
<1>1. Len(entries) \in Nat /\ DOMAIN entries = 1 .. Len(entries) /\ PageSize \in Nat \ {0}
  BY LenProperties, PagesAssumption
<1>2. last \in Int /\ last <= Len(entries) /\ last <= first + PageSize - 1 /\ first \in Int
  BY <1>1
<1>3. \A i \in first .. last : i \in 1 .. Len(entries) /\ entries[i] \in Catalog
  BY <1>1, <1>2, ElementOfSeq
<1>4. cut = SubSeq(entries, first, last)
  BY DEF Cut
<1>5. \A j \in 1 .. Len(entries) : j < first + PageSize => j <= last
  BY <1>1
<1> HIDE DEF last, cut
<1>6. /\ cut \in Seq(Catalog)
      /\ Len(cut) = IF first <= last THEN last - first + 1 ELSE 0
      /\ \A i \in 1 .. last - first + 1 : cut[i] = entries[first + i - 1]
  BY <1>2, <1>3, <1>4, SubSeqProperties
<1>7. \A i \in 1 .. Len(cut) : i \in 1 .. last - first + 1 /\ first + i - 1 \in first .. last
  BY <1>2, <1>6
<1>8. \A j \in 1 .. Len(entries) : j >= first /\ j < first + PageSize =>
         /\ j - first + 1 \in 1 .. Len(cut) /\ first + (j - first + 1) - 1 = j
  BY <1>2, <1>5, <1>6
<1>9. \A j \in DOMAIN entries : j >= first /\ j < first + PageSize =>
                   /\ j - first + 1 \in 1 .. Len(cut)
                   /\ cut[j - first + 1] = entries[j]
  BY <1>1, <1>6, <1>7, <1>8
<1>10. \A i \in 1 .. Len(cut) :
                   /\ first + i - 1 \in DOMAIN entries
                   /\ cut[i] = entries[first + i - 1]
  BY <1>1, <1>3, <1>6, <1>7
<1>11. Len(cut) \in Nat /\ DOMAIN cut = 1 .. Len(cut) /\ Len(cut) <= PageSize
  BY <1>1, <1>2, <1>6, LenProperties
<1> QED BY <1>6, <1>9, <1>10, <1>11 DEF cut

(* Workers AI's names are ids again.                                       *)
LEMMA CloudflareIDIs ==
  ASSUME NEW e \in Catalog
  PROVE  cloudflareID(e) \in Model
<1>1. ASSUME NEW m \in Model, Len(m) > 1 PROVE Tail(m) \in Model
  <2>1. m # <<>>
    BY <1>1, ModelIs DEF NoModel
  <2> QED BY <2>1, HeadTailProperties DEF Model
<1>2. ASSUME NEW m \in Model PROVE NormalizeModel(m) \in Model
  BY <1>1, <1>2 DEF NormalizeModel
<1>3. "@cf" \in Text
  BY WordsAssumption, Zenon
<1>4. ASSUME NEW m \in Model PROVE normalizeWorkersAIModelName(m) \in Model
  <2> DEFINE n == NormalizeModel(m)
  <2>1. n \in Model
    BY <1>2
  <2> HIDE DEF n
  <2>2. Len(n) > 1 => Tail(n) \in Model /\ <<"@cf">> \o Tail(n) \in Model
    BY <2>1, <1>1, <1>3, Cons
  <2>3. <<"@cf">> \o n \in Model
    BY <2>1, <1>3, Cons
  <2>4. normalizeWorkersAIModelName(m)
          = IF Len(n) > 1 /\ n[1] \notin AtNames \cup {"cf_local"}
            THEN <<"@cf">> \o (IF n[1] = "cf" THEN Tail(n) ELSE n)
            ELSE n
    BY DEF normalizeWorkersAIModelName, n
  <2> QED BY <2>1, <2>2, <2>3, <2>4
<1>5. e.name \in Model /\ e.id \in Model
  BY DEF Catalog
<1> QED BY <1>4, <1>5 DEF cloudflareID

FetchState == [done : BOOLEAN, ok : BOOLEAN, after : Model, ids : SUBSET (Model \ {NoModel})]

LastID(data) == IF data = <<>> THEN NoModel ELSE data[Len(data)].id

(* What f becomes when Anthropic's list es is read from entry first on.    *)
ReadFrom(f, es, first) ==
  [f EXCEPT !.ids = @ \cup anthropicIDs(Cut(es, first)),
            !.after = LastID(Cut(es, first)),
            !.done = ~(first + PageSize <= Len(es)) \/ LastID(Cut(es, first)) = NoModel]

(* A request of Anthropic's list fails, or brings what is after the cursor. *)
LEMMA AnthropicStepIs ==
  ASSUME NEW f \in FetchState, NEW answer \in Reply
  PROVE  LET es == answer.entries
             s  == anthropicStep(f, answer)
         IN  \/ f.done /\ s = f
             \/ ~f.done /\ s = Fails(f)
             \/ /\ ~f.done
                /\ \E first \in Nat \ {0} :
                      /\ \/ f.after = NoModel /\ first = 1
                         \/ /\ f.after # NoModel
                            /\ first - 1 \in DOMAIN es
                            /\ es[first - 1].id = f.after
                      /\ s = ReadFrom(f, es, first)
<1> DEFINE es == answer.entries
           s  == anthropicStep(f, answer)
           at == { i \in DOMAIN es : es[i].id = f.after }
           first == IF f.after = NoModel THEN 1 ELSE 1 + CHOOSE i \in at : TRUE
           data == Cut(es, first)
           page == [data |-> data, hasMore |-> first + PageSize <= Len(es)]
<1>1. es \in Seq(Catalog) /\ DOMAIN es = 1 .. Len(es) /\ Len(es) \in Nat
  BY LenProperties DEF Reply
<1>2. CASE f.done
  BY <1>2 DEF anthropicStep
<1>3. CASE ~f.done /\ anthropicPage(answer, f.after) = {}
  BY <1>3 DEF anthropicStep
<1>4. CASE ~f.done /\ anthropicPage(answer, f.after) # {}
  <2>1. /\ anthropicPage(answer, f.after) = {page}
        /\ f.after # NoModel => at # {}
    BY <1>4 DEF anthropicPage
  <2>2. (CHOOSE x \in anthropicPage(answer, f.after) : TRUE) = page
    BY <2>1
  <2>3. s = ReadFrom(f, es, first)
    <3>1. s = LET p == CHOOSE x \in anthropicPage(answer, f.after) : TRUE
                  l == IF p.data = <<>> THEN NoModel ELSE p.data[Len(p.data)].id
              IN  [f EXCEPT !.ids = @ \cup anthropicIDs(p.data),
                            !.after = l,
                            !.done = ~p.hasMore \/ l = NoModel]
      BY <1>4 DEF anthropicStep
    <3>2. page.data = data /\ page.hasMore = (first + PageSize <= Len(es))
      OBVIOUS
    <3>3. data = Cut(es, first)
      OBVIOUS
    <3> HIDE DEF page, data, first
    <3> QED BY <2>2, <3>1, <3>2, <3>3 DEF ReadFrom, LastID
  <2>4. /\ first \in Nat \ {0}
        /\ \/ f.after = NoModel /\ first = 1
           \/ /\ f.after # NoModel
              /\ first - 1 \in DOMAIN es
              /\ es[first - 1].id = f.after
    <3>1. CASE f.after = NoModel
      BY <3>1
    <3>2. CASE f.after # NoModel
      <4> DEFINE c == CHOOSE i \in at : TRUE
      <4>1. c \in at
        BY <2>1, <3>2
      <4> HIDE DEF c
      <4>2. c \in 1 .. Len(es) /\ es[c].id = f.after
        BY <4>1, <1>1
      <4>3. first = 1 + c
        BY <3>2 DEF c
      <4> HIDE DEF first
      <4>4. first \in Nat \ {0} /\ first - 1 = c
        BY <4>2, <4>3, <1>1
      <4> QED BY <4>2, <4>4, <3>2, <1>1
    <3> QED BY <3>1, <3>2
  <2> HIDE DEF first
  <2> QED BY <1>4, <2>3, <2>4
<1> QED BY <1>2, <1>3, <1>4

(* A fetch begins as a fetch.                                              *)
LEMMA FetchTyped == Fetch \in FetchState
<1>1. NoModel \in Model
  BY EmptySeq DEF NoModel, Model
<1> QED BY <1>1 DEF Fetch, FetchState

(* One request of Anthropic's list leaves a fetch.                         *)
LEMMA AnthropicTyped ==
  ASSUME NEW f \in FetchState, NEW answer \in Reply
  PROVE  anthropicStep(f, answer) \in FetchState
<1> DEFINE es == answer.entries
           s  == anthropicStep(f, answer)
<1>1. es \in Seq(Catalog) /\ NoModel \in Model
  BY EmptySeq DEF Reply, NoModel, Model
<1>2. CASE s = f
  BY <1>2
<1>3. CASE s = Fails(f)
  BY <1>3 DEF Fails, FetchState
<1>4. ASSUME NEW first \in Nat \ {0}, s = ReadFrom(f, es, first)
      PROVE  s \in FetchState
  <2> DEFINE data == Cut(es, first)
             done == ~(first + PageSize <= Len(es)) \/ LastID(data) = NoModel
  <2>1. data \in Seq(Catalog)
    BY <1>1, CutIs
  <2> HIDE DEF data
  <2>2. \A i \in DOMAIN data : data[i] \in Catalog
    BY <2>1, ElementOfSeq, LenProperties
  <2>3. anthropicIDs(data) \subseteq Model \ {NoModel}
    BY <2>2 DEF anthropicIDs, Catalog
  <2>4. LastID(data) \in Model
    <3>1. CASE data = <<>>
      BY <3>1, <1>1 DEF LastID
    <3>2. CASE data # <<>>
      <4>1. Len(data) \in DOMAIN data
        BY <2>1, <3>2, EmptySeq, LenProperties
      <4> QED BY <4>1, <2>2, <3>2 DEF LastID, Catalog
    <3> QED BY <3>1, <3>2
  <2>5. s = [f EXCEPT !.ids = @ \cup anthropicIDs(data), !.after = LastID(data), !.done = done]
    BY <1>4 DEF data, ReadFrom
  <2>6. done \in BOOLEAN
    OBVIOUS
  <2> HIDE DEF s, done
  <2> QED BY <2>3, <2>4, <2>5, <2>6 DEF FetchState
<1>5. \/ s = f \/ s = Fails(f)
      \/ \E first \in Nat \ {0} : s = ReadFrom(f, es, first)
  BY AnthropicStepIs
<1>6. s \in FetchState
  BY <1>2, <1>3, <1>4, <1>5
<1> QED BY <1>6

-----------------------------------------------------------------------------
(* Anthropic: what is in the list all the time is read, or comes after the *)
(* cursor in the answer the cursor is from.                                *)

OrderlyIDs(history) ==
  /\ KeepsOrder(EntryIDs(history))
  /\ \A i \in DOMAIN history : \A k \in DOMAIN history[i].entries :
        history[i].entries[k].id # NoModel

After(history, x, cursor) ==
  \E i \in DOMAIN history : \E p, q \in DOMAIN history[i].entries :
     /\ history[i].entries[p].id = cursor
     /\ history[i].entries[q].id = x
     /\ p < q

(* Two models of a provider that keeps the order of its ids are in the     *)
(* same order in every answer.                                             *)
LEMMA KeptOrder ==
  ASSUME NEW history, KeepsOrder(EntryIDs(history)),
         NEW i \in DOMAIN history, NEW j \in DOMAIN history,
         NEW p \in DOMAIN history[i].entries, NEW q \in DOMAIN history[i].entries,
         NEW r \in DOMAIN history[j].entries, NEW s \in DOMAIN history[j].entries,
         history[i].entries[p].id = history[j].entries[r].id,
         history[i].entries[q].id = history[j].entries[s].id
  PROVE  p < q <=> r < s
<1> DEFINE ids == EntryIDs(history)
<1>1. /\ DOMAIN ids = DOMAIN history
      /\ \A m \in DOMAIN history :
            /\ DOMAIN ids[m] = DOMAIN history[m].entries
            /\ \A k \in DOMAIN history[m].entries : ids[m][k] = history[m].entries[k].id
  BY DEF EntryIDs
<1> HIDE DEF ids
<1>2. \A m, n \in DOMAIN ids :
         \A a, b \in DOMAIN ids[m], c, d \in DOMAIN ids[n] :
            ids[m][a] = ids[n][c] /\ ids[m][b] = ids[n][d] => (a < b <=> c < d)
  BY DEF KeepsOrder, ids
<1>3. ids[i][p] = ids[j][r] /\ ids[i][q] = ids[j][s]
  BY <1>1
<1> QED BY <1>1, <1>2, <1>3

(* A model that is in every answer is read, or still after the cursor,     *)
(* when a page of Anthropic's list has been read: the step of the          *)
(* induction.                                                              *)
LEMMA AnthropicReads ==
  ASSUME NEW history \in Seq(Reply), history # <<>>, OrderlyIDs(history),
         NEW x \in Model \ {NoModel},
         \A i \in DOMAIN history : \E k \in DOMAIN history[i].entries :
            history[i].entries[k].id = x,
         NEW k \in Nat \ {0}, NEW f \in FetchState,
         f.ok => x \in f.ids \/ (~f.done /\ (f.after = NoModel \/ After(history, x, f.after)))
  PROVE  LET s == anthropicStep(f, AnswerTo(history, k))
         IN  s.ok => x \in s.ids \/ (~s.done /\ (s.after = NoModel \/ After(history, x, s.after)))
<1> DEFINE j  == At(history, k)
           es == history[j].entries
           answer == AnswerTo(history, k)
           s  == anthropicStep(f, answer)
<1>1. /\ j \in DOMAIN history /\ answer = history[j] /\ answer \in Reply
      /\ es \in Seq(Catalog)
  BY AnswersAre
<1> HIDE DEF j
<1>2. DOMAIN es = 1 .. Len(es) /\ Len(es) \in Nat /\ PageSize \in Nat \ {0}
  BY <1>1, LenProperties, PagesAssumption
<1>3. PICK v \in DOMAIN es : es[v].id = x
  BY <1>1
<1>4. ASSUME f.done, s = f
      PROVE  s.ok => x \in s.ids \/ (~s.done /\ (s.after = NoModel \/ After(history, x, s.after)))
  BY <1>4
<1>5. ASSUME s = Fails(f)
      PROVE  ~s.ok
  BY <1>5 DEF Fails, FetchState
<1>6. ASSUME NEW first \in Nat \ {0}, ~f.done, f.ok,
             \/ f.after = NoModel /\ first = 1
             \/ /\ f.after # NoModel
                /\ first - 1 \in DOMAIN es
                /\ es[first - 1].id = f.after,
             s = ReadFrom(f, es, first)
      PROVE  x \in s.ids \/ (~s.done /\ After(history, x, s.after))
  <2> DEFINE data == Cut(es, first)
  <2>1. /\ s.ids = f.ids \cup anthropicIDs(data)
        /\ s.after = LastID(data)
        /\ s.done = (~(first + PageSize <= Len(es)) \/ LastID(data) = NoModel)
    BY <1>6 DEF ReadFrom, FetchState
  <2>2. CASE x \in f.ids
    BY <2>1, <2>2
  <2>3. CASE x \notin f.ids
    <3>1. v >= first
      <4>1. CASE f.after = NoModel
        BY <4>1, <1>2, <1>6
      <4>2. CASE f.after # NoModel
        <5>1. PICK i \in DOMAIN history : \E p, q \in DOMAIN history[i].entries :
                 /\ history[i].entries[p].id = f.after
                 /\ history[i].entries[q].id = x
                 /\ p < q
          BY <4>2, <1>6, <2>3 DEF After
        <5>2. PICK p \in DOMAIN history[i].entries, q \in DOMAIN history[i].entries :
                 /\ history[i].entries[p].id = f.after
                 /\ history[i].entries[q].id = x
                 /\ p < q
          BY <5>1
        <5>3. first - 1 \in DOMAIN es /\ es[first - 1].id = f.after
          BY <4>2, <1>6
        <5>4. p < q <=> first - 1 < v
          BY <5>2, <5>3, <1>1, <1>3, KeptOrder DEF OrderlyIDs
        <5> QED BY <5>2, <5>4, <1>2
      <4> QED BY <4>1, <4>2
    <3>2. CASE v < first + PageSize
      <4>1. v - first + 1 \in DOMAIN data /\ data[v - first + 1] = es[v]
        BY <3>1, <3>2, <1>1, CutIs, ZenonT(40)
      <4>2. x \in anthropicIDs(data)
        BY <4>1, <1>3 DEF anthropicIDs
      <4> QED BY <2>1, <4>2
    <3>3. CASE ~(v < first + PageSize)
      <4> DEFINE u == first + PageSize - 1
      <4>1. u \in DOMAIN es /\ u >= first /\ u < v /\ u < first + PageSize
            /\ first + PageSize <= Len(es)
        BY <3>3, <1>2, <1>3
      <4>2. Len(data) = PageSize /\ data[PageSize] = es[u] /\ data \in Seq(Catalog)
        <5>1. u - first + 1 = PageSize
          BY <1>2
        <5>2. u - first + 1 \in DOMAIN data /\ data[u - first + 1] = es[u]
          BY <4>1, <1>1, CutIs
        <5>3. Len(data) <= PageSize /\ data \in Seq(Catalog)
              /\ Len(data) \in Nat /\ DOMAIN data = 1 .. Len(data)
          BY <1>1, CutIs
        <5> QED BY <5>1, <5>2, <5>3, <1>2
      <4>3. LastID(data) = es[u].id
        <5>1. data # <<>>
          BY <4>2, <1>2, EmptySeq
        <5> QED BY <5>1, <4>2 DEF LastID
      <4>4. es[u].id # NoModel
        BY <4>1, <1>1 DEF OrderlyIDs
      <4>5. ~s.done /\ s.after = es[u].id
        BY <2>1, <4>1, <4>3, <4>4
      <4>6. After(history, x, s.after)
        BY <4>1, <4>5, <1>1, <1>3 DEF After
      <4> QED BY <4>5, <4>6
    <3> QED BY <3>2, <3>3
  <2> QED BY <2>2, <2>3
<1>7. \/ f.done /\ s = f
      \/ s = Fails(f)
      \/ /\ ~f.done
         /\ \E first \in Nat \ {0} :
               /\ \/ f.after = NoModel /\ first = 1
                  \/ /\ f.after # NoModel
                     /\ first - 1 \in DOMAIN es
                     /\ es[first - 1].id = f.after
               /\ s = ReadFrom(f, es, first)
  BY <1>1, AnthropicStepIs
<1>8. (\E first \in Nat \ {0} : s = ReadFrom(f, es, first)) => (s.ok <=> f.ok)
  BY DEF ReadFrom, FetchState
<1> HIDE DEF s, es
<1>9. s.ok => x \in s.ids \/ (~s.done /\ (s.after = NoModel \/ After(history, x, s.after)))
  <2>1. CASE f.done /\ s = f
    BY <2>1, <1>4
  <2>2. CASE s = Fails(f)
    BY <2>2, <1>5
  <2>3. CASE ~f.done /\ s.ok
    BY <2>3, <1>5, <1>6, <1>7, <1>8
  <2> QED BY <2>1, <2>2, <2>3, <1>7
<1> QED BY <1>9 DEF s

-----------------------------------------------------------------------------
(* Cloudflare: what is in the list all the time only moves down it, and is *)
(* read, or below the pages that were.                                     *)

(* Two entries of a provider that keeps their order are in the same order  *)
(* in every answer.                                                        *)
LEMMA KeptEntries ==
  ASSUME NEW history, KeepsOrder(Entries(history)),
         NEW i \in DOMAIN history, NEW j \in DOMAIN history,
         NEW p \in DOMAIN history[i].entries, NEW q \in DOMAIN history[i].entries,
         NEW r \in DOMAIN history[j].entries, NEW s \in DOMAIN history[j].entries,
         history[i].entries[p] = history[j].entries[r],
         history[i].entries[q] = history[j].entries[s]
  PROVE  p < q <=> r < s
<1> DEFINE es == Entries(history)
<1>1. /\ DOMAIN es = DOMAIN history
      /\ \A m \in DOMAIN history : es[m] = history[m].entries
  BY DEF Entries
<1> HIDE DEF es
<1>2. \A m, n \in DOMAIN es :
         \A a, b \in DOMAIN es[m], c, d \in DOMAIN es[n] :
            es[m][a] = es[n][c] /\ es[m][b] = es[n][d] => (a < b <=> c < d)
  BY DEF KeepsOrder, es
<1> QED BY <1>1, <1>2

(* In a list that only grows, and keeps its order, an entry is never above *)
(* where it was.                                                           *)
LEMMA OnlyMovesDown ==
  ASSUME NEW history \in Seq(Reply),
         KeepsOrder(Entries(history)), OnlyGrows(Entries(history)),
         NEW i \in DOMAIN history, NEW j \in DOMAIN history, i <= j,
         NEW v \in DOMAIN history[i].entries, NEW w \in DOMAIN history[j].entries,
         history[i].entries[v] = history[j].entries[w]
  PROVE  v <= w
<1> DEFINE a == history[i].entries
           b == history[j].entries
           T == {p \in DOMAIN a : \E r \in DOMAIN b : a[p] = b[r] /\ r < p}
<1>1. /\ DOMAIN a = 1 .. Len(a) /\ Len(a) \in Nat
      /\ DOMAIN b = 1 .. Len(b) /\ Len(b) \in Nat
      /\ i \in Nat /\ j \in Nat
  <2>1. history[i] \in Reply /\ history[j] \in Reply /\ i \in Nat /\ j \in Nat
    BY ElementOfSeq, LenProperties
  <2>2. a \in Seq(Catalog) /\ b \in Seq(Catalog)
    BY <2>1 DEF Reply
  <2> HIDE DEF a, b
  <2> QED BY <2>1, <2>2, LenProperties
<1>2. \A p \in DOMAIN a : \E r \in DOMAIN b : a[p] = b[r]
  <2>1. CASE i = j
    BY <2>1
  <2>2. CASE i < j
    <3> DEFINE es == Entries(history)
    <3>1. /\ DOMAIN es = DOMAIN history
          /\ es[i] = a /\ es[j] = b
      BY DEF Entries
    <3>2. OnlyGrows(es)
      OBVIOUS
    <3> HIDE DEF es, a, b
    <3>3. \A p \in DOMAIN es[i] : \E r \in DOMAIN es[j] : es[j][r] = es[i][p]
      BY <2>2, <3>1, <3>2 DEF OnlyGrows
    <3> QED BY <3>1, <3>3
  <2>3. i = j \/ i < j
    BY <1>1
  <2> QED BY <2>1, <2>2, <2>3
<1>3. \A p, q \in DOMAIN a, r, s \in DOMAIN b :
         a[p] = b[r] /\ a[q] = b[s] => (p < q <=> r < s)
  BY KeptEntries
<1> HIDE DEF a, b
<1>4. SUFFICES ASSUME T # {} PROVE FALSE
  BY <1>1 DEF a, b
<1>5. T \in SUBSET Nat
  BY <1>1
<1>6. PICK n \in T : \A p \in T : n <= p
  <2> HIDE DEF T
  <2> QED BY <1>4, <1>5, NatMin
<1>7. PICK r \in DOMAIN b : a[n] = b[r] /\ r < n
  OBVIOUS
<1>8. n - 1 \in DOMAIN a /\ n \in DOMAIN a /\ n \in Nat /\ r \in Nat
  BY <1>1, <1>7
<1>9. PICK s \in DOMAIN b : a[n - 1] = b[s]
  BY <1>2, <1>8
<1>10. s < r
  BY <1>3, <1>7, <1>8, <1>9
<1>11. s < n - 1
  BY <1>1, <1>7, <1>8, <1>10
<1>12. n - 1 \in T
  BY <1>8, <1>9, <1>11
<1> QED BY <1>6, <1>8, <1>12

(* A list longer than k pages has more than k pages, rounded up.           *)
LEMMA MorePages ==
  ASSUME NEW n \in Nat, NEW d \in Nat \ {0}, NEW k \in Nat, n > k * d
  PROVE  (n + d - 1) \div d > k
<1> DEFINE m == n + d - 1
           t == k * d
<1>1. t \in Nat
  OBVIOUS
<1>2. n > t
  OBVIOUS
<1> HIDE DEF t
<1>3. m \in Nat /\ m >= t + d
  BY <1>1, <1>2
<1> HIDE DEF m
<1>4. m >= k * d + d
  BY <1>3 DEF t
<1>5. m \div d >= k + 1
  BY <1>3, <1>4
<1>6. m \div d \in Int
  BY <1>3
<1>7. m \div d > k
  BY <1>5, <1>6
<1> QED BY <1>7 DEF m

(* A request of Cloudflare's list finds the fetch over, fails, or adds the *)
(* ids of one page and ends the fetch when that page is the last.          *)
LEMMA CloudflareStepIs ==
  ASSUME NEW f \in FetchState, NEW k \in Nat \ {0}, NEW answer \in Reply
  PROVE  LET data == Cut(answer.entries, (k - 1) * PageSize + 1)
             s    == cloudflareStep(f, k, answer)
         IN  /\ (k - 1) * PageSize + 1 \in Nat \ {0}
             /\ s \in FetchState
             /\ s.ok => f.ok
             /\ \/ f.done /\ s = f
                \/ ~f.done /\ ~s.ok
                \/ /\ ~f.done
                   /\ s.ids = f.ids \cup cloudflareIDs(data)
                   /\ s.done = (k >= totalPages(answer, data, k))
<1> DEFINE first == (k - 1) * PageSize + 1
           data == Cut(answer.entries, first)
           s    == cloudflareStep(f, k, answer)
           done == k >= totalPages(answer, data, k)
<1>0. PageSize \in Nat \ {0} /\ k - 1 \in Nat
  BY PagesAssumption
<1>1. first \in Nat \ {0}
  <2> DEFINE n == (k - 1) * PageSize
  <2>1. n \in Nat
    BY <1>0
  <2> HIDE DEF n
  <2>2. n + 1 \in Nat \ {0}
    BY <2>1
  <2> QED BY <2>2 DEF n
<1>2. answer.entries \in Seq(Catalog)
  BY DEF Reply
<1> HIDE DEF first
<1>3. data \in Seq(Catalog)
  BY <1>1, <1>2, CutIs
<1>4. cloudflareIDs(data) \subseteq Model \ {NoModel}
  <2>1. \A i \in DOMAIN data : data[i] \in Catalog
    BY <1>3, ElementOfSeq, LenProperties
  <2> HIDE DEF data
  <2> QED BY <2>1, CloudflareIDIs DEF cloudflareIDs
<1>5. \/ f.done /\ s = f
      \/ ~f.done /\ s = Fails(f)
      \/ ~f.done /\ s = [f EXCEPT !.ids = @ \cup cloudflareIDs(data), !.done = done]
  BY DEF cloudflareStep, first
<1>6. done \in BOOLEAN
  OBVIOUS
<1> HIDE DEF data, done
<1>7. ASSUME NEW g, g = [f EXCEPT !.ids = @ \cup cloudflareIDs(data), !.done = done]
      PROVE  /\ g \in FetchState /\ g.ok = f.ok
             /\ g.ids = f.ids \cup cloudflareIDs(data) /\ g.done = done
  BY <1>4, <1>6, <1>7 DEF FetchState
<1>8. Fails(f) \in FetchState /\ ~Fails(f).ok
  BY DEF Fails, FetchState
<1> HIDE DEF s
<1>9. /\ s \in FetchState
      /\ s.ok => f.ok
      /\ \/ f.done /\ s = f
         \/ ~f.done /\ ~s.ok
         \/ ~f.done /\ s.ids = f.ids \cup cloudflareIDs(data) /\ s.done = done
  BY <1>5, <1>7, <1>8
<1> QED BY <1>1, <1>9 DEF s, data, done, first

Below(history, e, k, n) ==
  \E p \in DOMAIN history[At(history, k)].entries :
     history[At(history, k)].entries[p] = e /\ p > n

(* An entry that is in every answer is read, or still below the pages that *)
(* were, when a page of Cloudflare's list has been read.                   *)
LEMMA CloudflareReads ==
  ASSUME NEW history \in Seq(Reply), history # <<>>,
         KeepsOrder(Entries(history)), OnlyGrows(Entries(history)),
         NEW e \in Catalog, cloudflareID(e) # NoModel,
         \A i \in DOMAIN history : \E p \in DOMAIN history[i].entries :
            history[i].entries[p] = e,
         NEW k \in Nat \ {0}, NEW f \in FetchState,
         f.ok => \/ cloudflareID(e) \in f.ids
                 \/ ~f.done /\ (k = 1 \/ Below(history, e, k - 1, (k - 1) * PageSize))
  PROVE  LET s == cloudflareStep(f, k, AnswerTo(history, k))
         IN  s.ok => \/ cloudflareID(e) \in s.ids
                     \/ ~s.done /\ Below(history, e, k, k * PageSize)
<1> DEFINE j  == At(history, k)
           es == history[j].entries
           answer == AnswerTo(history, k)
           first == (k - 1) * PageSize + 1
           data == Cut(es, first)
           s  == cloudflareStep(f, k, answer)
           x  == cloudflareID(e)
<1>1. /\ j \in DOMAIN history /\ answer = history[j] /\ answer \in Reply
      /\ es \in Seq(Catalog)
      /\ DOMAIN history = 1 .. Len(history) /\ Len(history) \in Nat \ {0}
  BY AnswersAre
<1>2. DOMAIN es = 1 .. Len(es) /\ Len(es) \in Nat /\ PageSize \in Nat \ {0}
  BY <1>1, LenProperties, PagesAssumption
<1>3. PICK v \in DOMAIN es : es[v] = e
  BY <1>1
<1>4. /\ first \in Nat \ {0}
      /\ s.ok => f.ok
      /\ \/ f.done /\ s = f
         \/ ~f.done /\ ~s.ok
         \/ /\ ~f.done
            /\ s.ids = f.ids \cup cloudflareIDs(data)
            /\ s.done = (k >= totalPages(answer, data, k))
  <2>1. answer.entries = es /\ answer \in Reply
    BY <1>1
  <2>2. /\ first \in Nat \ {0}
        /\ s.ok => f.ok
        /\ \/ f.done /\ s = f
           \/ ~f.done /\ ~s.ok
           \/ /\ ~f.done
              /\ s.ids = f.ids \cup cloudflareIDs(Cut(answer.entries, first))
              /\ s.done = (k >= totalPages(answer, Cut(answer.entries, first), k))
    <3> HIDE DEF answer
    <3> QED BY <2>1, CloudflareStepIs
  <2> HIDE DEF answer, s, first, es
  <2> QED BY <2>1, <2>2
<1>5. (k - 1) * PageSize \in Nat /\ first = (k - 1) * PageSize + 1
      /\ first + PageSize = k * PageSize + 1 /\ k * PageSize \in Nat
  <2>1. (k - 1) * PageSize = k * PageSize - PageSize
    BY <1>2
  <2>2. (k - 1) * PageSize \in Nat /\ k * PageSize \in Nat
    BY <1>2
  <2> DEFINE a == (k - 1) * PageSize
             c == k * PageSize
  <2> HIDE DEF a, c
  <2>3. a + 1 + PageSize = c + 1
    BY <2>1, <2>2, <1>2 DEF a, c
  <2> QED BY <2>2, <2>3 DEF a, c
<1> HIDE DEF j, x
<1>6. ASSUME ~f.done, f.ok, x \notin f.ids PROVE v >= first
  <2>1. CASE k = 1
    <3>1. first = 1
      BY <2>1, <1>2
    <3> HIDE DEF first
    <3> QED BY <3>1, <1>2
  <2>2. CASE k # 1
    <3> DEFINE i == At(history, k - 1)
    <3>1. PICK p \in DOMAIN history[i].entries :
             history[i].entries[p] = e /\ p > (k - 1) * PageSize
      BY <1>6, <2>2 DEF Below, x
    <3>2. k - 1 \in Nat \ {0}
      BY <2>2
    <3>3. i \in DOMAIN history /\ history[i].entries \in Seq(Catalog)
      BY <3>2, AnswersAre
    <3>4. i <= j
      BY <1>1, <3>2 DEF At, j
    <3> HIDE DEF i
    <3>5. p <= v
      BY <1>1, <1>3, <3>1, <3>3, <3>4, OnlyMovesDown
    <3>6. p \in Nat /\ v \in Nat
      BY <1>2, <3>3, LenProperties
    <3> DEFINE n == (k - 1) * PageSize
    <3>7. n \in Nat /\ first = n + 1 /\ p > n
      BY <1>5, <3>1
    <3> HIDE DEF n, first
    <3> QED BY <3>5, <3>6, <3>7
  <2> QED BY <2>1, <2>2
<1>7. ASSUME v >= first, v < first + PageSize PROVE x \in cloudflareIDs(data)
  <2>1. v - first + 1 \in DOMAIN data /\ data[v - first + 1] = e
    <3>1. first \in Nat \ {0}
      BY <1>4
    <3> HIDE DEF first
    <3> QED BY <1>1, <1>3, <1>7, <3>1, CutIs, ZenonT(40)
  <2> HIDE DEF data
  <2> QED BY <2>1 DEF cloudflareIDs, x
<1> DEFINE done == k >= totalPages(answer, data, k)
<1>8. ASSUME v >= first, ~(v < first + PageSize)
      PROVE  ~done /\ Below(history, e, k, k * PageSize)
  <2> DEFINE c == k * PageSize
  <2>1. c \in Nat /\ first + PageSize = c + 1 /\ first \in Nat \ {0}
    BY <1>5
  <2> HIDE DEF c, first
  <2>2. v > c /\ v <= Len(es) /\ Len(es) > c /\ v \in Nat
    BY <1>2, <1>8, <2>1
  <2>3. Below(history, e, k, k * PageSize)
    BY <1>3, <2>2 DEF Below, j, c
  <2>4. CASE answer.form = "plain"
    <3>1. (Len(es) + PageSize - 1) \div PageSize > k
      BY <1>2, <2>2, MorePages DEF c
    <3>2. totalPages(answer, data, k) = (Len(es) + PageSize - 1) \div PageSize
      BY <2>4, <1>1 DEF totalPages
    <3>3. (Len(es) + PageSize - 1) \div PageSize \in Int
      BY <1>2
    <3> QED BY <2>3, <3>1, <3>2, <3>3
  <2>5. CASE answer.form # "plain"
    <3> DEFINE u == first + PageSize - 1
    <3>1. u \in DOMAIN es /\ u >= first /\ u < first + PageSize /\ u - first + 1 = PageSize
      BY <1>2, <2>1, <2>2
    <3>2. u - first + 1 \in DOMAIN data /\ DOMAIN data = 1 .. Len(data) /\ Len(data) \in Nat
      BY <3>1, <2>1, <1>1, CutIs
    <3>3. Len(data) >= PageSize
      BY <3>1, <3>2, <1>2
    <3>4. totalPages(answer, data, k) = k + 1
      BY <2>5, <3>3 DEF totalPages
    <3> QED BY <2>3, <3>4
  <2> QED BY <2>4, <2>5
<1>9. ASSUME s.ok
      PROVE  x \in s.ids \/ (~s.done /\ Below(history, e, k, k * PageSize))
  <2>1. f.ok
    BY <1>4, <1>9
  <2>2. CASE f.done
    BY <2>1, <2>2, <1>4 DEF x
  <2>3. CASE ~f.done /\ x \in f.ids
    BY <2>3, <1>4, <1>9
  <2>4. CASE ~f.done /\ x \notin f.ids
    <3>1. v >= first
      BY <2>1, <2>4, <1>6
    <3>2. s.ids = f.ids \cup cloudflareIDs(data) /\ s.done = done
      BY <2>4, <1>4, <1>9
    <3> HIDE DEF s, done, data, first
    <3> QED BY <3>1, <3>2, <1>7, <1>8
  <2> QED BY <2>2, <2>3, <2>4
<1> QED BY <1>9 DEF x

-----------------------------------------------------------------------------
(* What a whole fetch brings.                                              *)

(* Every page of a fetch is a fetch.                                       *)
LEMMA PagesTyped ==
  ASSUME NEW ext, NEW history \in Seq(Reply), history # <<>>
  PROVE  /\ Pages(ext, history)[MaxPages] \in FetchState
         /\ fetchAll(ext, history) \subseteq Model \ {NoModel}
<1> DEFINE Good == Nat \X FetchState
           end  == Pages(ext, history)[MaxPages]
<1>0. MaxPages \in Nat
  BY PagesAssumption
<1>1. <<0, Fetch>> \in Good
  BY FetchTyped
<1>2. ASSUME NEW k \in 1 .. MaxPages, NEW f, <<k - 1, f>> \in Good
      PROVE  <<k, fetchPage(ext, history, f, k)>> \in Good
  <2>1. k \in Nat \ {0} /\ f \in FetchState
    BY <1>0, <1>2
  <2>2. AnswerTo(history, k) \in Reply
    BY <2>1, AnswersAre
  <2>3. /\ anthropicStep(f, AnswerTo(history, k)) \in FetchState
        /\ cloudflareStep(f, k, AnswerTo(history, k)) \in FetchState
    BY <2>1, <2>2, AnthropicTyped, CloudflareStepIs
  <2> QED BY <2>1, <2>3 DEF fetchPage
<1>3. <<MaxPages, end>> \in Good
  <2> HIDE DEF Good
  <2> QED BY <1>1, <1>2, PagesInduction
<1>4. end \in FetchState
  BY <1>3
<1> HIDE DEF end
<1> QED BY <1>4 DEF fetchAll, end, FetchState

(* A fetch of Anthropic's list that brings anything brings what was in it  *)
(* all the time.                                                           *)
LEMMA AnthropicComplete ==
  ASSUME NEW history \in Seq(Reply), history # <<>>, OrderlyIDs(history),
         NEW x \in Model \ {NoModel},
         \A i \in DOMAIN history : \E k \in DOMAIN history[i].entries :
            history[i].entries[k].id = x,
         fetchAll("anthropic", history) # {}
  PROVE  x \in fetchAll("anthropic", history)
<1> DEFINE Read(f) == f.ok => \/ x \in f.ids
                              \/ ~f.done /\ (f.after = NoModel \/ After(history, x, f.after))
           Good == { g \in Nat \X FetchState : Read(g[2]) }
           end  == Pages("anthropic", history)[MaxPages]
<1>0. MaxPages \in Nat
  BY PagesAssumption
<1>1. <<0, Fetch>> \in Good
  <2>1. Read(Fetch)
    BY DEF Fetch
  <2> HIDE DEF Read
  <2> QED BY <2>1, FetchTyped
<1>2. ASSUME NEW k \in 1 .. MaxPages, NEW f, <<k - 1, f>> \in Good
      PROVE  <<k, fetchPage("anthropic", history, f, k)>> \in Good
  <2>1. k \in Nat \ {0} /\ f \in FetchState /\ Read(f)
    BY <1>0, <1>2
  <2> DEFINE s == anthropicStep(f, AnswerTo(history, k))
  <2>2. s \in FetchState
    BY <2>1, AnswersAre, AnthropicTyped
  <2>3. Read(s)
    BY <2>1, AnthropicReads
  <2>4. fetchPage("anthropic", history, f, k) = s
    BY DEF fetchPage
  <2> HIDE DEF s, Read
  <2> QED BY <2>1, <2>2, <2>3, <2>4
<1>3. <<MaxPages, end>> \in Good
  <2> HIDE DEF Good
  <2> QED BY <1>1, <1>2, PagesInduction
<1>4. Read(end)
  BY <1>3
<1> HIDE DEF end
<1> QED BY <1>4 DEF fetchAll, end

(* A fetch of Cloudflare's list that brings anything brings what was in it *)
(* all the time.                                                           *)
LEMMA CloudflareComplete ==
  ASSUME NEW history \in Seq(Reply), history # <<>>,
         KeepsOrder(Entries(history)), OnlyGrows(Entries(history)),
         NEW e \in Catalog, cloudflareID(e) # NoModel,
         \A i \in DOMAIN history : \E p \in DOMAIN history[i].entries :
            history[i].entries[p] = e,
         fetchAll("cloudflare", history) # {}
  PROVE  cloudflareID(e) \in fetchAll("cloudflare", history)
<1> DEFINE Read(n, f) == f.ok => \/ cloudflareID(e) \in f.ids
                                 \/ ~f.done /\ (n = 0 \/ Below(history, e, n, n * PageSize))
           Good == { g \in Nat \X FetchState : Read(g[1], g[2]) }
           end  == Pages("cloudflare", history)[MaxPages]
<1>0. MaxPages \in Nat
  BY PagesAssumption
<1>1. <<0, Fetch>> \in Good
  <2>1. Read(0, Fetch)
    BY DEF Fetch
  <2> HIDE DEF Read
  <2> QED BY <2>1, FetchTyped
<1>2. ASSUME NEW k \in 1 .. MaxPages, NEW f, <<k - 1, f>> \in Good
      PROVE  <<k, fetchPage("cloudflare", history, f, k)>> \in Good
  <2>1. k \in Nat \ {0} /\ f \in FetchState /\ Read(k - 1, f)
    BY <1>0, <1>2
  <2> DEFINE s == cloudflareStep(f, k, AnswerTo(history, k))
  <2>2. s \in FetchState
    BY <2>1, AnswersAre, CloudflareStepIs
  <2>3. Read(k, s)
    <3>1. f.ok => \/ cloudflareID(e) \in f.ids
                  \/ ~f.done /\ (k = 1 \/ Below(history, e, k - 1, (k - 1) * PageSize))
      <4>1. k - 1 = 0 => k = 1
        BY <2>1
      <4> QED BY <2>1, <4>1
    <3> QED BY <2>1, <3>1, CloudflareReads
  <2>4. fetchPage("cloudflare", history, f, k) = s
    BY DEF fetchPage
  <2> HIDE DEF s, Read
  <2> QED BY <2>1, <2>2, <2>3, <2>4
<1>3. <<MaxPages, end>> \in Good
  <2> HIDE DEF Good
  <2> QED BY <1>1, <1>2, PagesInduction
<1>4. Read(MaxPages, end)
  <2> HIDE DEF Read, end
  <2> QED BY <1>3
<1> HIDE DEF end
<1> QED BY <1>4 DEF fetchAll, end

(* The public ids of a backend have its prefix.                            *)
LEMMA PublicModelsAre ==
  ASSUME NEW b \in Backend, NEW downs \in SUBSET (Model \ {NoModel})
  PROVE  /\ publicModels(b, downs) \subseteq Model
         /\ \A id \in publicModels(b, downs) : Prefixed(b.id, id)
<1>1. b.id \in Text
  BY DEF Backend
<1>2. \A d \in downs : prefixModelID(b.id, d) \in Model /\ Prefixed(b.id, prefixModelID(b.id, d))
  BY <1>1, PublicIs
<1> QED BY <1>2 DEF publicModels

(* A list that comes in one answer holds models that name something.       *)
LEMMA OneAnswer ==
  ASSUME NEW answer \in Reply
  PROVE  /\ toModels(answer.entries) \subseteq Model \ {NoModel}
         /\ ListModels(answer) \subseteq Model \ {NoModel}
<1>1. \A k \in DOMAIN answer.entries : answer.entries[k].id \in Model
  <2>1. answer.entries \in Seq(Catalog)
    BY DEF Reply
  <2>2. \A k \in DOMAIN answer.entries : answer.entries[k] \in Catalog
    BY <2>1, ElementOfSeq, LenProperties
  <2> QED BY <2>2 DEF Catalog
<1>2. \A m \in Model : normalizeModelID(m) \in Model
  BY PrefixedIs DEF normalizeModelID
<1>3. toModels(answer.entries) \subseteq Model \ {NoModel}
  BY <1>1, <1>2 DEF toModels
<1>4. withIDs(answer.entries) \subseteq Model \ {NoModel}
  BY <1>1 DEF withIDs
<1> QED BY <1>3, <1>4 DEF ListModels, ParseModels

(* Whatever a fetch brings are public ids of its backend.                  *)
LEMMA FetchedArePublic ==
  ASSUME NEW b \in Backend, NEW history \in Seq(Reply), history # <<>>
  PROVE  /\ fetchBackendModels(b, history) \subseteq Model
         /\ \A id \in fetchBackendModels(b, history) : Prefixed(b.id, id)
<1>1. AnswerTo(history, 1) \in Reply /\ AnswerTo(history, 2) \in Reply
  BY AnswersAre
<1>2. /\ fetchAll(b.ext, history) \subseteq Model \ {NoModel}
      /\ geminiFetch(history) \subseteq Model \ {NoModel}
      /\ ListModels(AnswerTo(history, 1)) \subseteq Model \ {NoModel}
      /\ ListModels(AnswerTo(history, 2)) \subseteq Model \ {NoModel}
  BY <1>1, PagesTyped, OneAnswer DEF geminiFetch
<1>3. CASE b.ext \in {"anthropic", "cloudflare"}
  BY <1>2, <1>3, PublicModelsAre DEF fetchBackendModels
<1>4. CASE b.ext = "gemini"
  BY <1>2, <1>4, PublicModelsAre DEF fetchBackendModels
<1>5. CASE b.ext \notin {"anthropic", "cloudflare", "gemini"}
  BY <1>2, <1>5, PublicModelsAre DEF fetchBackendModels, mergeOpenRouterDecisionModels
<1> QED BY <1>3, <1>4, <1>5

(* A model the provider had in its list all the time is in a list that was *)
(* fetched, unless the provider's pages are disorderly.                    *)
LEMMA FetchedIsComplete ==
  ASSUME NEW b \in Backend, NEW history \in Seq(Reply), history # <<>>,
         fetchBackendModels(b, history) # {}
  PROVE  Owed(b, history) \subseteq fetchBackendModels(b, history)
<1> DEFINE live       == fetchBackendModels(b, history)
           openRouter == isOpenRouterHost(b) /\ ~hasCatalogClient(b)
<1> SUFFICES ASSUME NEW y, y \in Owed(b, history)
             PROVE  y \in live
  OBVIOUS
<1>1. /\ 1 \in DOMAIN history /\ AnswerTo(history, 1) = history[1]
      /\ \A i \in DOMAIN history : history[i].entries \in Seq(Catalog)
      /\ \A i \in DOMAIN history : \A k \in DOMAIN history[i].entries :
            history[i].entries[k] \in Catalog
  <2>1. DOMAIN history = 1 .. Len(history) /\ Len(history) \in Nat \ {0}
    BY AnswersAre
  <2>2. \A i \in DOMAIN history : history[i] \in Reply
    BY ElementOfSeq, LenProperties
  <2>3. \A i \in DOMAIN history : history[i].entries \in Seq(Catalog)
    BY <2>2 DEF Reply
  <2>4. AnswerTo(history, 1) = history[1]
    BY <2>1 DEF AnswerTo
  <2> QED BY <2>1, <2>3, <2>4, ElementOfSeq, LenProperties
<1>2. CASE openRouter
  <2>1. history[1].form = "plain" /\ y \in Steady(b, <<history[1]>>)
    BY <1>2, Zenon DEF Owed
  <2>2. b.ext \notin {"anthropic", "cloudflare", "gemini"}
    BY <1>2 DEF hasCatalogClient
  <2> DEFINE once == <<history[1]>>
  <2>3. 1 \in DOMAIN once /\ once[1] = history[1]
    OBVIOUS
  <2> HIDE DEF once
  <2>4. PICK x : /\ y = prefixModelID(b.id, x) /\ x # NoModel
                 /\ \E k \in DOMAIN history[1].entries : history[1].entries[k].id = x
    <3>1. y \in Steady(b, once)
      BY <2>1 DEF once
    <3> QED BY <2>2, <2>3, <3>1 DEF Steady
  <2>5. x \in ListModels(history[1])
    BY <2>1, <2>4 DEF ListModels, GetJSON, ParseModels, withIDs
  <2>6. live = publicModels(b, ListModels(history[1]))
                \cup publicModels(b, ListModels(AnswerTo(history, 2)))
    BY <1>1, <1>2, <2>2 DEF fetchBackendModels, mergeOpenRouterDecisionModels
  <2> QED BY <2>4, <2>5, <2>6 DEF publicModels
<1>3. CASE ~openRouter
  <2> SUFFICES ASSUME y \in Steady(b, history), Orderly(b, history)
               PROVE  y \in live
    BY <1>3, Zenon DEF Owed
  <2>2. CASE b.ext = "anthropic"
    <3>1. PICK x : /\ y = prefixModelID(b.id, x) /\ x # NoModel
                   /\ \A i \in DOMAIN history : \E k \in DOMAIN history[i].entries :
                         history[i].entries[k].id = x
      BY <1>1, <2>2, ZenonT(40) DEF Steady
    <3>2. x \in Model
      BY <1>1, <3>1 DEF Catalog
    <3>3. OrderlyIDs(history)
      BY <2>2 DEF Orderly, OrderlyIDs
    <3>4. live = publicModels(b, fetchAll("anthropic", history))
      BY <2>2 DEF fetchBackendModels
    <3>5. fetchAll("anthropic", history) # {}
      BY <3>4 DEF publicModels
    <3>6. x \in fetchAll("anthropic", history)
      BY <3>1, <3>2, <3>3, <3>5, AnthropicComplete
    <3> QED BY <3>1, <3>4, <3>6 DEF publicModels
  <2>3. CASE b.ext = "cloudflare"
    <3>1. PICK x : /\ y = prefixModelID(b.id, x) /\ x # NoModel
                   /\ \E k \in DOMAIN history[1].entries :
                         cloudflareID(history[1].entries[k]) = x
      BY <1>1, <2>3 DEF Steady
    <3>2. PICK k \in DOMAIN history[1].entries : cloudflareID(history[1].entries[k]) = x
      BY <3>1
    <3> DEFINE e == history[1].entries[k]
    <3>3. e \in Catalog /\ cloudflareID(e) # NoModel
      BY <1>1, <3>1, <3>2
    <3>4. KeepsOrder(Entries(history)) /\ OnlyGrows(Entries(history))
      BY <2>3 DEF Orderly
    <3>5. ASSUME NEW i \in DOMAIN history
          PROVE  \E p \in DOMAIN history[i].entries : history[i].entries[p] = e
      <4> DEFINE es == Entries(history)
      <4>1. /\ DOMAIN es = DOMAIN history
            /\ es[1] = history[1].entries /\ es[i] = history[i].entries
        BY <1>1 DEF Entries
      <4>2. OnlyGrows(es)
        BY <3>4
      <4>3. i = 1 \/ 1 < i
        <5>1. i \in Nat \ {0}
          BY AnswersAre
        <5> QED BY <5>1
      <4> HIDE DEF es
      <4>4. CASE 1 < i
        BY <1>1, <3>2, <4>1, <4>2, <4>4 DEF OnlyGrows
      <4> QED BY <4>3, <4>4
    <3>6. live = publicModels(b, fetchAll("cloudflare", history))
      BY <2>3 DEF fetchBackendModels
    <3>7. fetchAll("cloudflare", history) # {}
      BY <3>6 DEF publicModels
    <3> HIDE DEF e
    <3>8. cloudflareID(e) \in fetchAll("cloudflare", history)
      BY <3>3, <3>4, <3>5, <3>7, CloudflareComplete
    <3> QED BY <3>1, <3>2, <3>6, <3>8 DEF publicModels, e
  <2>4. CASE b.ext = "gemini"
    <3>1. PICK x : /\ y = prefixModelID(b.id, x) /\ x # NoModel
                   /\ \E k \in DOMAIN history[1].entries :
                         normalizeModelID(history[1].entries[k].id) = x
      BY <1>1, <2>4 DEF Steady
    <3>2. live = publicModels(b, geminiFetch(history))
      BY <2>4 DEF fetchBackendModels
    <3>3. geminiFetch(history) # {}
      BY <3>2 DEF publicModels
    <3>4. x \in geminiFetch(history)
      BY <1>1, <3>1, <3>3 DEF geminiFetch, toModels
    <3> QED BY <3>1, <3>2, <3>4 DEF publicModels
  <2>5. CASE b.ext \notin {"anthropic", "cloudflare", "gemini"}
    <3>1. PICK x : /\ y = prefixModelID(b.id, x) /\ x # NoModel
                   /\ \E k \in DOMAIN history[1].entries : history[1].entries[k].id = x
      BY <1>1, <2>5 DEF Steady
    <3>2. live = publicModels(b, ListModels(history[1]))
      BY <1>1, <1>3, <2>5 DEF fetchBackendModels, mergeOpenRouterDecisionModels,
                              hasCatalogClient
    <3>3. ListModels(history[1]) # {}
      BY <3>2 DEF publicModels
    <3>4. x \in ListModels(history[1])
      BY <3>1, <3>3 DEF ListModels, ParseModels, withIDs
    <3> QED BY <3>1, <3>2, <3>4 DEF publicModels
  <2> QED BY <2>2, <2>3, <2>4, <2>5
<1> QED BY <1>2, <1>3

-----------------------------------------------------------------------------
(* The invariant.                                                          *)

Up   == phase \in {"loaded", "serving", "failed"}
Base == LoadRouterConfig(in)

(* c is the config d with more models in its allow lists.                  *)
SameButAllow(x, y) ==
  /\ x.id = y.id /\ x.caps = y.caps /\ x.ext = y.ext /\ x.remote = y.remote
  /\ x.url = y.url /\ x.cred = y.cred /\ x.gated = y.gated
  /\ x.sysGated = y.sysGated /\ x.sysAllow = y.sysAllow /\ x.sync = y.sync
  /\ y.allow \subseteq x.allow

Grown(c, d) ==
  /\ ConfigOK(c)
  /\ c.slots = d.slots /\ c.speechModel = d.speechModel
  /\ c.routers = d.routers /\ c.switchyard = d.switchyard
  /\ DOMAIN c.backends = DOMAIN d.backends
  /\ \A b \in DOMAIN d.backends : SameButAllow(c.backends[b], d.backends[b])

RegInv == in \in Inputs /\ (Up => Accepted(in) /\ Grown(reg, Base))

AccountInv ==
  Serving =>
    /\ \A b \in DOMAIN reg.backends \ {ProviderSwitchyard} :
          /\ b \in DOMAIN account
          /\ account[b].id = reg.backends[b].id
          /\ account[b].caps = reg.backends[b].caps
          /\ account[b].ext = reg.backends[b].ext
          /\ account[b].remote = reg.backends[b].remote
          /\ account[b].cred = reg.backends[b].cred
    /\ shouldRegisterSwitchyard(reg) =>
          /\ ProviderSwitchyard \in DOMAIN account
          /\ account[ProviderSwitchyard] = SwitchyardDef

CacheInv ==
  /\ cache \in [Ids -> SUBSET Model]
  /\ steady \in [Ids -> SUBSET Model]
  /\ \A b \in Ids : cache[b] # {} => steady[b] \subseteq cache[b]

OverlayInv == \A b \in DOMAIN overlay : overlay[b] \subseteq Model

(* No model was asked for at b whose id repeats the name of b.             *)
NoRepeats(b) == \A x \in acked : x[1] = b => ~Repeats(x)

(* What a restart would allow at b, by the file and the overlay.           *)
Allowed(b) == ApplyAllowOverlay(Base, overlay).backends[b].allow

AllowInv == Up => \A b \in DOMAIN Base.backends : NoRepeats(b) => reg.backends[b].allow = Allowed(b)

DownOf(a)   == NormalizeDownstream(a[1], a[2])
PublicOf(a) == prefixModelID(a[1], DownOf(a))

AckedInv ==
  \A a \in acked : NoRepeats(a[1]) =>
     /\ a[1] \in DOMAIN Base.backends
     /\ Base.backends[a[1]].gated
     /\ ~Blank(DownOf(a))
     /\ ModelInAllowList(a[1], PublicOf(a), Allowed(a[1]))

(* A list in the cache has the allowed models its provider lacks.          *)
GatedInv ==
  \A b \in DOMAIN Base.backends :
     NoRepeats(b) /\ Base.backends[b].gated /\ Base.backends[b].sync /\ cache[b] # {} =>
        SyntheticAllowModels(b, Allowed(b)) \subseteq cache[b]

(* The invariant: the parts above, and the types.                          *)
IInv == TypeOK /\ RegInv /\ AccountInv /\ CacheInv /\ OverlayInv /\ AllowInv /\ AckedInv /\ GatedInv

(* What is known of a backend of a config.                                 *)
LEMMA BackendIs ==
  ASSUME NEW c, ConfigOK(c), NEW b \in DOMAIN c.backends
  PROVE  /\ c.backends[b] \in Backend /\ c.backends[b].id = b
         /\ b \in Ids /\ b \in Text
         /\ c.backends[b].allow \subseteq Model /\ c.backends[b].sysAllow \subseteq Model
         /\ c.backends[b].gated \in BOOLEAN
BY IdsAreText DEF ConfigOK, BackendsOK, Backend

(* A config is itself with no more allowed models.                         *)
LEMMA GrownFromItself ==
  ASSUME NEW c, ConfigOK(c)
  PROVE  Grown(c, c)
BY DEF Grown, SameButAllow

(* More allowed models, twice, are more allowed models.                    *)
LEMMA GrownFurther ==
  ASSUME NEW c, NEW d, NEW e, Grown(d, c), Grown(e, d)
  PROVE  Grown(e, c)
<1>1. \A b \in DOMAIN c.backends : SameButAllow(e.backends[b], c.backends[b])
  BY DEF Grown, SameButAllow
<1> QED BY <1>1 DEF Grown

(* What the overlay adds at a gated backend.                               *)
Added(c, o, b) ==
  { NormalizeDownstream(b, e) :
      e \in { x \in o[b] : ~Blank(x) /\ ~ModelInAllowList(b, x, c.backends[b].allow) } }

(* A backend with a longer allow list differs in nothing else.             *)
LEMMA MoreAllowed ==
  ASSUME NEW x \in Backend, NEW more \in SUBSET Model, x.allow \subseteq more,
         NEW y, y = [x EXCEPT !.allow = more]
  PROVE  y \in Backend /\ y.allow = more /\ SameButAllow(y, x)
BY DEF Backend, SameButAllow

(* The overlay adds, for a gated backend, the entries its list lacks,      *)
(* without the prefix, and changes nothing else.                           *)
LEMMA OverlayIs ==
  ASSUME NEW c, ConfigOK(c), NEW o, \A b \in DOMAIN o : o[b] \subseteq Model
  PROVE  LET d == ApplyAllowOverlay(c, o)
         IN  /\ Grown(d, c)
             /\ \A b \in DOMAIN c.backends :
                   d.backends[b].allow = IF b \in DOMAIN o /\ c.backends[b].gated
                                         THEN c.backends[b].allow \cup Added(c, o, b)
                                         ELSE c.backends[b].allow
<1> DEFINE d == ApplyAllowOverlay(c, o)
           more(b) == c.backends[b].allow \cup Added(c, o, b)
<1>1. /\ DOMAIN d = DOMAIN c
      /\ d.slots = c.slots /\ d.speechModel = c.speechModel
      /\ d.routers = c.routers /\ d.switchyard = c.switchyard
      /\ DOMAIN d.backends = DOMAIN c.backends
      /\ \A b \in DOMAIN c.backends :
            d.backends[b] = IF b \in DOMAIN o /\ c.backends[b].gated
                            THEN [c.backends[b] EXCEPT !.allow = more(b)]
                            ELSE c.backends[b]
  <2> DEFINE table == [b \in DOMAIN c.backends |->
                         IF b \in DOMAIN o /\ c.backends[b].gated
                         THEN withEntries(c.backends[b], o[b])
                         ELSE c.backends[b]]
  <2>1. d = [c EXCEPT !.backends = table]
    BY DEF ApplyAllowOverlay
  <2>2. \A b \in DOMAIN c.backends :
           withEntries(c.backends[b], o[b]) = [c.backends[b] EXCEPT !.allow = more(b)]
    BY BackendIs DEF withEntries, Added
  <2> HIDE DEF more
  <2>3. /\ DOMAIN table = DOMAIN c.backends
        /\ \A b \in DOMAIN c.backends :
              table[b] = IF b \in DOMAIN o /\ c.backends[b].gated
                         THEN [c.backends[b] EXCEPT !.allow = more(b)]
                         ELSE c.backends[b]
    BY <2>2
  <2> HIDE DEF table, d
  <2>4. d.backends = table
    BY <2>1 DEF ConfigOK, ConfigFields
  <2> QED BY <2>1, <2>3, <2>4 DEF ConfigOK, ConfigFields
<1> HIDE DEF d
<1>2. ASSUME NEW b \in DOMAIN c.backends
      PROVE  /\ d.backends[b] \in Backend
             /\ SameButAllow(d.backends[b], c.backends[b])
             /\ d.backends[b].id = b
             /\ d.backends[b].allow = IF b \in DOMAIN o /\ c.backends[b].gated
                                      THEN more(b) ELSE c.backends[b].allow
  <2>1. c.backends[b] \in Backend /\ c.backends[b].allow \subseteq Model /\ c.backends[b].id = b
    BY BackendIs
  <2>2. CASE b \in DOMAIN o /\ c.backends[b].gated
    <3>1. Added(c, o, b) \subseteq Model
      BY <2>2, DownstreamIs DEF Added
    <3>2. more(b) \in SUBSET Model /\ c.backends[b].allow \subseteq more(b)
      BY <2>1, <3>1
    <3>3. d.backends[b] = [c.backends[b] EXCEPT !.allow = more(b)]
      BY <1>1, <2>2
    <3> HIDE DEF more
    <3>4. /\ d.backends[b] \in Backend /\ d.backends[b].allow = more(b)
          /\ SameButAllow(d.backends[b], c.backends[b])
      BY <2>1, <3>2, <3>3, MoreAllowed
    <3> QED BY <2>1, <2>2, <3>4 DEF SameButAllow
  <2>3. CASE ~(b \in DOMAIN o /\ c.backends[b].gated)
    <3>1. d.backends[b] = c.backends[b]
      BY <1>1, <2>3
    <3> QED BY <2>1, <2>3, <3>1 DEF SameButAllow
  <2> QED BY <2>2, <2>3
<1>3. ConfigOK(d)
  BY <1>1, <1>2 DEF ConfigOK, BackendsOK
<1> QED BY <1>1, <1>2, <1>3 DEF Grown, d

(* An allowed model is added to its backend's list and to no other.        *)
LEMMA AllowedModelIs ==
  ASSUME NEW c, ConfigOK(c), NEW b \in DOMAIN c.backends, NEW m \in Model,
         ~ModelInAllowList(b, NormalizeDownstream(b, m), c.backends[b].allow)
  PROVE  LET d == withAllowedModel(c, b, m)
         IN  /\ Grown(d, c)
             /\ \A x \in DOMAIN c.backends :
                   d.backends[x].allow = IF x = b
                                         THEN c.backends[x].allow \cup {NormalizeDownstream(b, m)}
                                         ELSE c.backends[x].allow
<1> DEFINE down == NormalizeDownstream(b, m)
           d == withAllowedModel(c, b, m)
           more == c.backends[b].allow \cup {down}
<1>1. /\ c.backends[b] \in Backend /\ c.backends[b].id = b
      /\ more \in SUBSET Model /\ c.backends[b].allow \subseteq more
  BY BackendIs, DownstreamIs
<1>2. /\ DOMAIN d = DOMAIN c
      /\ d.slots = c.slots /\ d.speechModel = c.speechModel
      /\ d.routers = c.routers /\ d.switchyard = c.switchyard
      /\ d.backends = [c.backends EXCEPT ![b].allow = @ \cup {down}]
  BY DEF withAllowedModel, ConfigOK, ConfigFields
<1>3. /\ DOMAIN d.backends = DOMAIN c.backends
      /\ d.backends[b] = [c.backends[b] EXCEPT !.allow = more]
      /\ \A x \in DOMAIN c.backends : x # b => d.backends[x] = c.backends[x]
  <2> HIDE DEF d, down
  <2> QED BY <1>2
<1> HIDE DEF d, more
<1>4. /\ d.backends[b] \in Backend /\ d.backends[b].allow = more
      /\ SameButAllow(d.backends[b], c.backends[b])
  BY <1>1, <1>3, MoreAllowed
<1>5. ASSUME NEW x \in DOMAIN c.backends
      PROVE  /\ d.backends[x] \in Backend
             /\ SameButAllow(d.backends[x], c.backends[x])
             /\ d.backends[x].id = x
  <2>1. c.backends[x] \in Backend /\ c.backends[x].id = x
    BY BackendIs
  <2>2. CASE x = b
    BY <2>1, <2>2, <1>4 DEF SameButAllow
  <2>3. CASE x # b
    BY <2>1, <2>3, <1>3 DEF SameButAllow
  <2> QED BY <2>2, <2>3
<1>6. ConfigOK(d)
  BY <1>2, <1>3, <1>5 DEF ConfigOK, BackendsOK
<1>7. Grown(d, c)
  BY <1>2, <1>3, <1>5, <1>6 DEF Grown
<1>8. \A x \in DOMAIN c.backends :
         d.backends[x].allow = IF x = b THEN c.backends[x].allow \cup {down} ELSE c.backends[x].allow
  BY <1>3, <1>4 DEF more
<1> QED BY <1>7, <1>8 DEF d

(* The models made of an allow list are public ids.                        *)
LEMMA SyntheticAre ==
  ASSUME NEW b \in Text, NEW allow \in SUBSET Model
  PROVE  /\ SyntheticAllowModels(b, allow) \subseteq Model
         /\ \A id \in SyntheticAllowModels(b, allow) : Prefixed(b, id)
<1>1. ASSUME NEW e \in allow, ~Blank(NormalizeDownstream(b, e))
      PROVE  /\ <<b>> \o NormalizeDownstream(b, e) \in Model
             /\ Prefixed(b, <<b>> \o NormalizeDownstream(b, e))
  <2>1. NormalizeDownstream(b, e) \in Model /\ NormalizeDownstream(b, e) # NoModel
    BY <1>1, DownstreamIs DEF Blank
  <2> QED BY <2>1, Cons, PrefixedCons
<1> QED BY <1>1 DEF SyntheticAllowModels

(* The merge keeps what the provider listed and adds what is allowed,      *)
(* public ids all.                                                         *)
LEMMA EnabledAre ==
  ASSUME NEW c, ConfigOK(c), NEW b \in DOMAIN c.backends, NEW live \in SUBSET Model,
         \A id \in live : Prefixed(b, id)
  PROVE  LET merged == mergeEnabledSyntheticMissing(c.backends[b], live)
         IN  /\ merged \subseteq Model
             /\ \A id \in merged : Prefixed(b, id)
             /\ live \subseteq merged
             /\ c.backends[b].gated
                   => SyntheticAllowModels(b, c.backends[b].allow) \subseteq merged
<1>1. /\ c.backends[b].id = b /\ b \in Text
      /\ c.backends[b].allow \in SUBSET Model /\ c.backends[b].sysAllow \in SUBSET Model
  BY BackendIs
<1>2. /\ SyntheticAllowModels(b, c.backends[b].allow) \subseteq Model
      /\ SyntheticAllowModels(b, c.backends[b].sysAllow) \subseteq Model
      /\ \A id \in SyntheticAllowModels(b, c.backends[b].allow) : Prefixed(b, id)
      /\ \A id \in SyntheticAllowModels(b, c.backends[b].sysAllow) : Prefixed(b, id)
  BY <1>1, SyntheticAre
<1> QED BY <1>1, <1>2 DEF mergeEnabledSyntheticMissing

(* What a provider may answer with.                                        *)
LEMMA HistoriesAre ==
  ASSUME NEW b \in Ids, NEW history \in Upstream[b]
  PROVE  history \in Seq(Reply) /\ history # <<>>
BY UpstreamAssumption DEF Reply, Catalog

PublicCache == \A b \in Ids : \A id \in cache[b] : Prefixed(b, id)

(* A fetch for one backend keeps the cache complete and public, leaves the *)
(* other backends' lists alone, and merges what is allowed.                *)
LEMMA FetchStep ==
  ASSUME ConfigOK(reg), CacheInv, PublicCache,
         NEW b \in DOMAIN reg.backends, NEW history \in Upstream[b], Fetches(b, history)
  PROVE  /\ CacheInv' /\ PublicCache'
         /\ \A x \in Ids : x # b => cache'[x] = cache[x]
         /\ \/ cache'[b] = cache[b]
            \/ reg.backends[b].gated
                  => SyntheticAllowModels(b, reg.backends[b].allow) \subseteq cache'[b]
<1> DEFINE backend == reg.backends[b]
           live    == fetchBackendModels(backend, history)
           merged  == mergeEnabledSyntheticMissing(backend, live)
           owed    == Owed(backend, history)
<1>1. backend \in Backend /\ backend.id = b /\ b \in Ids
  BY BackendIs
<1>2. history \in Seq(Reply) /\ history # <<>>
  BY <1>1, HistoriesAre
<1>3. live \in SUBSET Model /\ \A id \in live : Prefixed(b, id)
  BY <1>1, <1>2, FetchedArePublic
<1>4. live # {} => owed \subseteq live
  BY <1>1, <1>2, FetchedIsComplete
<1>5. /\ merged \in SUBSET Model
      /\ \A id \in merged : Prefixed(b, id)
      /\ live \subseteq merged
      /\ backend.gated => SyntheticAllowModels(b, backend.allow) \subseteq merged
  <2> HIDE DEF live
  <2> QED BY <1>3, EnabledAre
<1>6. /\ cache' = IF live = {} THEN cache ELSE [cache EXCEPT ![b] = merged]
      /\ steady' = IF live = {} THEN steady ELSE [steady EXCEPT ![b] = owed]
  BY DEF Fetches, refreshBackend
<1> HIDE DEF live, merged, owed, backend
<1>7. cache \in [Ids -> SUBSET Model] /\ steady \in [Ids -> SUBSET Model]
  BY DEF CacheInv
<1>8. CASE live = {}
  <2>1. cache' = cache /\ steady' = steady
    BY <1>6, <1>8
  <2> QED BY <2>1 DEF CacheInv, PublicCache
<1>9. CASE live # {}
  <2>1. /\ cache' \in [Ids -> SUBSET Model] /\ cache'[b] = merged
        /\ \A x \in Ids : x # b => cache'[x] = cache[x]
    BY <1>1, <1>5, <1>6, <1>7, <1>9
  <2>2. /\ steady' \in [Ids -> SUBSET Model] /\ steady'[b] = owed
        /\ \A x \in Ids : x # b => steady'[x] = steady[x]
    BY <1>1, <1>3, <1>4, <1>6, <1>7, <1>9
  <2>3. \A x \in Ids : cache'[x] # {} => steady'[x] \subseteq cache'[x]
    BY <2>1, <2>2, <1>4, <1>5, <1>9 DEF CacheInv
  <2>4. PublicCache'
    BY <2>1, <1>5 DEF PublicCache
  <2> QED BY <2>1, <2>2, <2>3, <2>4, <1>5 DEF CacheInv, backend
<1> QED BY <1>8, <1>9

(* The load of an input, by the name the invariant has for it.             *)
LEMMA BaseIs ==
  ASSUME NEW i \in Inputs
  PROVE  ConfigOK(LoadRouterConfig(i))
BY LoadedOK

(* What a step leaves alone that touches neither the overlay nor the acks. *)
LEMMA Untouched ==
  ASSUME in' = in, overlay' = overlay, acked' = acked
  PROVE  /\ Base' = Base
         /\ \A b : Allowed(b)' = Allowed(b)
         /\ \A b : NoRepeats(b)' <=> NoRepeats(b)
         /\ OverlayInv => OverlayInv'
         /\ AckedInv => AckedInv'
<1>1. Base' = Base
  BY DEF Base
<1>2. \A b : Allowed(b)' = Allowed(b)
  BY <1>1 DEF Allowed
<1>3. \A b : NoRepeats(b)' <=> NoRepeats(b)
  BY DEF NoRepeats
<1>4. OverlayInv => OverlayInv'
  BY DEF OverlayInv
<1>5. AckedInv => AckedInv'
  BY <1>1, <1>2, <1>3 DEF AckedInv
<1> QED BY <1>1, <1>2, <1>3, <1>4, <1>5

(* The invariant holds at the start.                                       *)
LEMMA InitKeeps == Init => IInv
<1> SUFFICES ASSUME Init PROVE IInv
  OBVIOUS
<1> USE DEF Init
<1>1. TypeOK
  BY DEF TypeOK
<1>2. RegInv /\ AccountInv /\ OverlayInv /\ AllowInv /\ AckedInv
  BY DEF RegInv, AccountInv, OverlayInv, AllowInv, AckedInv, Up, Serving
<1>3. CacheInv
  BY DEF CacheInv
<1>4. GatedInv
  <2>1. \A b \in DOMAIN Base.backends : b \in Ids
    BY BaseIs, BackendIs DEF Base
  <2> QED BY <2>1 DEF GatedInv
<1> QED BY <1>1, <1>2, <1>3, <1>4 DEF IInv

(* A load keeps the invariant: a restart finds the allow lists that the    *)
(* file and the overlay make.                                              *)
LEMMA LoadKeeps == IInv /\ Load => IInv'
<1> SUFFICES ASSUME IInv, Load PROVE IInv'
  OBVIOUS
<1>1. /\ TypeOK /\ RegInv /\ AccountInv /\ CacheInv /\ OverlayInv /\ AllowInv /\ AckedInv
      /\ GatedInv
  BY DEF IInv
<1>2. UNCHANGED <<in, account, cache, steady, overlay, acked>>
  BY DEF Load
<1>3. /\ Base' = Base
      /\ \A b : Allowed(b)' = Allowed(b)
      /\ \A b : NoRepeats(b)' <=> NoRepeats(b)
      /\ OverlayInv' /\ AckedInv'
  BY <1>1, <1>2, Untouched
<1>4. GatedInv' /\ CacheInv'
  BY <1>1, <1>2, <1>3 DEF GatedInv, CacheInv
<1>5. ConfigOK(Base) /\ in \in Inputs
  BY <1>1, BaseIs DEF RegInv, Base
<1>6. CASE Accepted(in)
  <2>1. phase' = "loaded" /\ reg' = ApplyAllowOverlay(Base, overlay)
    BY <1>6 DEF Load, Base
  <2>2. Grown(reg', Base)
    BY <1>1, <1>5, <2>1, OverlayIs DEF OverlayInv
  <2>3. RegInv'
    BY <1>2, <1>3, <1>5, <1>6, <2>2 DEF RegInv
  <2>4. AllowInv'
    <3>1. \A b : Allowed(b) = reg'.backends[b].allow
      BY <2>1 DEF Allowed
    <3> QED BY <1>3, <3>1 DEF AllowInv
  <2>5. AccountInv'
    BY <2>1 DEF AccountInv, Serving
  <2>6. TypeOK'
    BY <1>1, <1>2, <2>1, <2>2 DEF TypeOK, Grown, ConfigOK, BackendsOK
  <2> QED BY <1>3, <1>4, <2>3, <2>4, <2>5, <2>6 DEF IInv
<1>7. CASE ~Accepted(in)
  <2>1. phase' = "refused" /\ reg' = reg
    BY <1>7 DEF Load
  <2>2. RegInv' /\ AllowInv' /\ AccountInv'
    BY <1>2, <1>5, <2>1 DEF RegInv, AllowInv, AccountInv, Up, Serving
  <2>3. TypeOK'
    BY <1>1, <1>2, <2>1 DEF TypeOK
  <2> QED BY <1>3, <1>4, <2>2, <2>3 DEF IInv
<1> QED BY <1>6, <1>7

(* Bifrost's account holds every backend of the config it was made from,   *)
(* except that Switchyard takes the place of one called switchyard.        *)
LEMMA AccountIs ==
  ASSUME NEW c, ConfigOK(c)
  PROVE  LET a == newAccount(c)
         IN  /\ DOMAIN a \subseteq Ids \cup {ProviderSwitchyard}
             /\ \A b \in DOMAIN c.backends \ {ProviderSwitchyard} :
                   b \in DOMAIN a /\ a[b] = c.backends[b]
             /\ shouldRegisterSwitchyard(c) =>
                   /\ ProviderSwitchyard \in DOMAIN a
                   /\ a[ProviderSwitchyard] = SwitchyardDef
<1>1. DOMAIN c.backends \subseteq Ids
  BY DEF ConfigOK, BackendsOK
<1> QED BY <1>1 DEF newAccount

(* The gateway that comes up, or fails to, keeps it.                       *)
LEMMA NewClientKeeps == IInv /\ NewClient => IInv'
<1> SUFFICES ASSUME IInv, NewClient PROVE IInv'
  OBVIOUS
<1>1. /\ TypeOK /\ RegInv /\ AccountInv /\ CacheInv /\ OverlayInv /\ AllowInv /\ AckedInv
      /\ GatedInv
  BY DEF IInv
<1>2. UNCHANGED <<in, reg, cache, steady, overlay, acked>> /\ phase = "loaded"
  BY DEF NewClient
<1>3. /\ Base' = Base
      /\ \A b : Allowed(b)' = Allowed(b)
      /\ \A b : NoRepeats(b)' <=> NoRepeats(b)
      /\ OverlayInv' /\ AckedInv'
  BY <1>1, <1>2, Untouched
<1>4. GatedInv' /\ CacheInv'
  BY <1>1, <1>2, <1>3 DEF GatedInv, CacheInv
<1>5. RegInv' /\ AllowInv'
  BY <1>1, <1>2, <1>3 DEF RegInv, AllowInv, Up
<1>6. ConfigOK(reg)
  BY <1>1, <1>2 DEF RegInv, Up, Grown
<1>7. CASE RegistryAccepts(reg)
  <2>1. phase' = "serving" /\ account' = newAccount(reg)
    BY <1>7 DEF NewClient
  <2>2. AccountInv'
    BY <1>2, <1>6, <2>1, AccountIs DEF AccountInv
  <2>3. TypeOK'
    BY <1>1, <1>2, <1>6, <2>1, AccountIs DEF TypeOK
  <2> QED BY <1>3, <1>4, <1>5, <2>2, <2>3 DEF IInv
<1>8. CASE ~RegistryAccepts(reg)
  <2>1. phase' = "failed" /\ account' = account
    BY <1>8 DEF NewClient
  <2>2. AccountInv' /\ TypeOK'
    BY <1>1, <1>2, <2>1 DEF AccountInv, TypeOK, Serving
  <2> QED BY <1>3, <1>4, <1>5, <2>2 DEF IInv
<1> QED BY <1>7, <1>8

(* The registry of a gateway that serves.                                  *)
LEMMA ServingIs ==
  ASSUME IInv, Serving
  PROVE  /\ in \in Inputs /\ Accepted(in)
         /\ ConfigOK(Base) /\ ConfigOK(reg) /\ Grown(reg, Base)
         /\ DOMAIN reg.backends = DOMAIN Base.backends
         /\ \A b \in DOMAIN reg.backends : SameButAllow(reg.backends[b], Base.backends[b])
         /\ \A b \in DOMAIN reg.backends : NoRepeats(b) => reg.backends[b].allow = Allowed(b)
<1>1. RegInv /\ AllowInv /\ Up
  BY DEF IInv, Serving, Up
<1>2. in \in Inputs /\ Accepted(in) /\ Grown(reg, Base)
  BY <1>1 DEF RegInv
<1>3. ConfigOK(Base)
  BY <1>2, BaseIs DEF Base
<1> QED BY <1>1, <1>2, <1>3 DEF Grown, AllowInv

(* A refresh of the inventory keeps it.                                    *)
LEMMA RefreshKeeps ==
  ASSUME IInv, NEW b \in Ids, Refresh(b)
  PROVE  IInv'
<1>1. /\ TypeOK /\ RegInv /\ AccountInv /\ CacheInv /\ OverlayInv /\ AllowInv /\ AckedInv
      /\ GatedInv
  BY DEF IInv
<1>2. UNCHANGED <<in, phase, reg, account, overlay, acked>> /\ Serving /\ b \in DOMAIN reg.backends
  BY DEF Refresh, Serving
<1>3. /\ Base' = Base
      /\ \A x : Allowed(x)' = Allowed(x)
      /\ \A x : NoRepeats(x)' <=> NoRepeats(x)
      /\ OverlayInv' /\ AckedInv'
  BY <1>1, <1>2, Untouched
<1>4. RegInv' /\ AllowInv' /\ AccountInv'
  BY <1>1, <1>2, <1>3 DEF RegInv, AllowInv, AccountInv, Up, Serving
<1>5. /\ ConfigOK(reg)
      /\ NoRepeats(b) => reg.backends[b].allow = Allowed(b)
      /\ DOMAIN reg.backends = DOMAIN Base.backends
      /\ reg.backends[b].gated = Base.backends[b].gated
  BY <1>2, ServingIs DEF SameButAllow
<1>6. PublicCache
  BY <1>1 DEF TypeOK, PublicCache
<1>7. PICK history \in Upstream[b] : Fetches(b, history)
  BY DEF Refresh
<1>8. /\ CacheInv' /\ PublicCache'
      /\ \A x \in Ids : x # b => cache'[x] = cache[x]
      /\ \/ cache'[b] = cache[b]
         \/ reg.backends[b].gated
               => SyntheticAllowModels(b, reg.backends[b].allow) \subseteq cache'[b]
  BY <1>1, <1>2, <1>5, <1>6, <1>7, FetchStep
<1>9. GatedInv'
  <2> SUFFICES ASSUME NEW x \in DOMAIN Base.backends, NoRepeats(x), Base.backends[x].gated,
                      Base.backends[x].sync, cache'[x] # {}
               PROVE  SyntheticAllowModels(x, Allowed(x)) \subseteq cache'[x]
    BY <1>3 DEF GatedInv
  <2>1. x \in Ids
    BY <1>5 DEF ConfigOK, BackendsOK
  <2>2. CASE x # b
    BY <1>1, <1>8, <2>1, <2>2 DEF GatedInv
  <2>3. CASE x = b
    BY <1>1, <1>5, <1>8, <2>3 DEF GatedInv
  <2> QED BY <2>2, <2>3
<1>10. TypeOK'
  BY <1>1, <1>2, <1>8 DEF TypeOK, PublicCache, CacheInv
<1> QED BY <1>3, <1>4, <1>8, <1>9, <1>10 DEF IInv

(* The end of a cached list keeps it.                                      *)
LEMMA ExpireKeeps ==
  ASSUME IInv, NEW b \in Ids, Expire(b)
  PROVE  IInv'
<1>1. /\ TypeOK /\ RegInv /\ AccountInv /\ CacheInv /\ OverlayInv /\ AllowInv /\ AckedInv
      /\ GatedInv
  BY DEF IInv
<1>2. UNCHANGED <<in, phase, reg, account, overlay, acked>>
  BY DEF Expire
<1>3. /\ Base' = Base
      /\ \A x : Allowed(x)' = Allowed(x)
      /\ \A x : NoRepeats(x)' <=> NoRepeats(x)
      /\ OverlayInv' /\ AckedInv'
  BY <1>1, <1>2, Untouched
<1>4. RegInv' /\ AllowInv' /\ AccountInv'
  BY <1>1, <1>2, <1>3 DEF RegInv, AllowInv, AccountInv, Up, Serving
<1>5. /\ cache \in [Ids -> SUBSET Model] /\ steady \in [Ids -> SUBSET Model]
      /\ cache' = [cache EXCEPT ![b] = {}] /\ steady' = [steady EXCEPT ![b] = {}]
  BY <1>1 DEF Expire, CacheInv
<1>6. CacheInv' /\ TypeOK'
  BY <1>1, <1>2, <1>5 DEF CacheInv, TypeOK
<1>7. GatedInv'
  <2>1. ConfigOK(Base)
    BY <1>1, BaseIs DEF RegInv, Base
  <2>2. \A x \in DOMAIN Base.backends : x \in Ids
    BY <2>1 DEF ConfigOK, BackendsOK
  <2>3. \A x \in Ids : cache'[x] = {} \/ cache'[x] = cache[x]
    BY <1>5
  <2> QED BY <1>1, <1>3, <2>2, <2>3 DEF GatedInv
<1> QED BY <1>3, <1>4, <1>6, <1>7 DEF IInv

(* A restart keeps it.                                                     *)
LEMMA RestartKeeps == IInv /\ Restart => IInv'
<1> SUFFICES ASSUME IInv, Restart PROVE IInv'
  OBVIOUS
<1>1. /\ TypeOK /\ RegInv /\ AccountInv /\ CacheInv /\ OverlayInv /\ AllowInv /\ AckedInv
      /\ GatedInv
  BY DEF IInv
<1>2. UNCHANGED <<in, overlay, acked>> /\ phase' = "down" /\ account' = <<>>
  BY DEF Restart
<1>3. /\ Base' = Base
      /\ \A x : Allowed(x)' = Allowed(x)
      /\ \A x : NoRepeats(x)' <=> NoRepeats(x)
      /\ OverlayInv' /\ AckedInv'
  BY <1>1, <1>2, Untouched
<1>4. RegInv' /\ AllowInv' /\ AccountInv'
  BY <1>1, <1>2 DEF RegInv, AllowInv, AccountInv, Up, Serving
<1>5. \/ cache' = cache /\ steady' = steady
      \/ cache' = [x \in Ids |-> {}] /\ steady' = [x \in Ids |-> {}]
  BY DEF Restart
<1>6. CacheInv'
  BY <1>1, <1>5 DEF CacheInv
<1>7. TypeOK'
  BY <1>1, <1>2, <1>5 DEF TypeOK
<1>8. GatedInv'
  <2>1. ConfigOK(Base)
    BY <1>1, BaseIs DEF RegInv, Base
  <2>2. \A x \in DOMAIN Base.backends : x \in Ids
    BY <2>1 DEF ConfigOK, BackendsOK
  <2>3. \A x \in Ids : cache'[x] = {} \/ cache'[x] = cache[x]
    BY <1>5
  <2> QED BY <1>1, <1>3, <2>2, <2>3 DEF GatedInv
<1> QED BY <1>3, <1>4, <1>6, <1>7, <1>8 DEF IInv

(* A step that changes nothing keeps it.                                   *)
LEMMA IdleKeeps == IInv /\ UNCHANGED vars => IInv'
<1> SUFFICES ASSUME IInv, UNCHANGED vars PROVE IInv'
  OBVIOUS
<1>1. UNCHANGED <<in, phase, reg, account, cache, steady, overlay, acked>>
  BY DEF vars
<1>2. /\ TypeOK /\ RegInv /\ AccountInv /\ CacheInv /\ OverlayInv /\ AllowInv /\ AckedInv
      /\ GatedInv
  BY DEF IInv
<1>3. /\ Base' = Base
      /\ \A x : Allowed(x)' = Allowed(x)
      /\ \A x : NoRepeats(x)' <=> NoRepeats(x)
      /\ OverlayInv' /\ AckedInv'
  BY <1>1, <1>2, Untouched
<1>4. RegInv' /\ AllowInv' /\ AccountInv' /\ CacheInv' /\ GatedInv' /\ TypeOK'
  BY <1>1, <1>2, <1>3 DEF RegInv, AllowInv, AccountInv, CacheInv, GatedInv, TypeOK, Up, Serving
<1> QED BY <1>3, <1>4 DEF IInv

-----------------------------------------------------------------------------
(* An allow request.                                                       *)

Had(b) == IF b \in DOMAIN overlay THEN overlay[b] ELSE {}

(* The overlay file after an entry is added.                               *)
LEMMA OverlayAddIs ==
  ASSUME NEW b, NEW down, overlay' = OverlayAdd(b, down)
  PROVE  /\ DOMAIN overlay' = DOMAIN overlay \cup {b}
         /\ overlay'[b] = Had(b) \cup {down}
         /\ \A x \in DOMAIN overlay : x # b => overlay'[x] = overlay[x]
<1>1. overlay' = [x \in DOMAIN overlay \cup {b} |->
                    IF x = b THEN Had(b) \cup {down} ELSE overlay[x]]
  BY DEF OverlayAdd, Had
<1> QED BY <1>1

(* What the file and the overlay allow at a backend.                       *)
LEMMA AllowedIs ==
  ASSUME ConfigOK(Base), OverlayInv, NEW b \in DOMAIN Base.backends
  PROVE  /\ Allowed(b) = IF b \in DOMAIN overlay /\ Base.backends[b].gated
                         THEN Base.backends[b].allow \cup Added(Base, overlay, b)
                         ELSE Base.backends[b].allow
         /\ Allowed(b) \in SUBSET Model
         /\ Base.backends[b].allow \subseteq Allowed(b)
<1>1. \A x \in DOMAIN overlay : overlay[x] \subseteq Model
  BY DEF OverlayInv
<1>2. /\ Grown(ApplyAllowOverlay(Base, overlay), Base)
      /\ Allowed(b) = IF b \in DOMAIN overlay /\ Base.backends[b].gated
                      THEN Base.backends[b].allow \cup Added(Base, overlay, b)
                      ELSE Base.backends[b].allow
  <2> HIDE DEF Base
  <2> QED BY <1>1, OverlayIs DEF Allowed
<1>3. Added(Base, overlay, b) \subseteq Model \/ b \notin DOMAIN overlay
  BY <1>1, DownstreamIs DEF Added
<1>4. Base.backends[b].allow \subseteq Model
  BY BackendIs
<1> QED BY <1>2, <1>3, <1>4

(* The allow lists after an entry that names a model the list lacked.      *)
LEMMA EntryAdded ==
  ASSUME ConfigOK(Base), OverlayInv, in' = in,
         NEW b \in DOMAIN Base.backends, NEW down \in Model,
         Base.backends[b].gated, ~Blank(down),
         overlay' = OverlayAdd(b, down)
  PROVE  /\ OverlayInv' /\ Base' = Base
         /\ ~Prefixed(b, down) /\ ~ModelInAllowList(b, down, Allowed(b))
               => Allowed(b)' = Allowed(b) \cup {down}
         /\ \A x \in DOMAIN Base.backends : Allowed(x) \subseteq Allowed(x)'
         /\ \A x \in DOMAIN Base.backends : x # b => Allowed(x)' = Allowed(x)
<1>1. Base' = Base
  BY DEF Base
<1>2. /\ DOMAIN overlay' = DOMAIN overlay \cup {b}
      /\ overlay'[b] = Had(b) \cup {down}
      /\ \A x \in DOMAIN overlay : x # b => overlay'[x] = overlay[x]
  BY OverlayAddIs
<1>3. OverlayInv'
  BY <1>2 DEF OverlayInv, Had
<1>4. \A x \in DOMAIN Base.backends :
         Allowed(x) = IF x \in DOMAIN overlay /\ Base.backends[x].gated
                      THEN Base.backends[x].allow \cup Added(Base, overlay, x)
                      ELSE Base.backends[x].allow
  BY AllowedIs
<1>5. \A x \in DOMAIN Base.backends :
         Allowed(x)' = IF x \in DOMAIN overlay' /\ Base.backends[x].gated
                       THEN Base.backends[x].allow \cup Added(Base, overlay', x)
                       ELSE Base.backends[x].allow
  <2> DEFINE later == overlay'
  <2>1. \A x \in DOMAIN later : later[x] \subseteq Model
    BY <1>3 DEF OverlayInv
  <2>2. \A x : Allowed(x)' = ApplyAllowOverlay(Base, later).backends[x].allow
    BY <1>1 DEF Allowed
  <2> HIDE DEF later, Base
  <2>3. \A x \in DOMAIN Base.backends :
           ApplyAllowOverlay(Base, later).backends[x].allow =
              IF x \in DOMAIN later /\ Base.backends[x].gated
              THEN Base.backends[x].allow \cup Added(Base, later, x)
              ELSE Base.backends[x].allow
    BY <2>1, OverlayIs
  <2> QED BY <2>2, <2>3 DEF later
<1>6. \A x \in DOMAIN Base.backends : x # b => Allowed(x)' = Allowed(x)
  BY <1>2, <1>4, <1>5, ZenonT(40) DEF Added
<1>7. Allowed(b) \subseteq Allowed(b)'
  BY <1>2, <1>4, <1>5 DEF Added, Had
<1>8. ASSUME ~Prefixed(b, down), ~ModelInAllowList(b, down, Allowed(b))
      PROVE  Allowed(b)' = Allowed(b) \cup {down}
  <2>1. NormalizeDownstream(b, down) = down
    BY <1>8 DEF NormalizeDownstream
  <2>2. ~ModelInAllowList(b, down, Base.backends[b].allow)
    BY <1>8, AllowedIs, AllowGrows
  <2>3. Added(Base, overlay', b) =
           (IF b \in DOMAIN overlay THEN Added(Base, overlay, b) ELSE {}) \cup {down}
    BY <1>2, <2>1, <2>2 DEF Added, Had
  <2> QED BY <1>2, <1>4, <1>5, <2>3
<1> QED BY <1>1, <1>3, <1>6, <1>7, <1>8

(* What an allow request that is answered with success found.              *)
Already(b, m) ==
    \E id \in {m, NormalizeDownstream(b, m), prefixModelID(b, NormalizeDownstream(b, m))} :
       IsModelAllowed(reg.backends[b], id)

(* An allow request that is answered with success: the model was allowed,  *)
(* or it was found in the inventory, written to the overlay and added to   *)
(* the registry.                                                           *)
LEMMA AllowModelIs ==
  ASSUME NEW b, NEW m, AllowModel(b, m)
  PROVE  LET down == NormalizeDownstream(b, m)
         IN  /\ Serving /\ UNCHANGED <<in, phase, account>> /\ acked' = acked \cup {<<b, m>>}
             /\ parseAllowRequest(reg, b, m)
             /\ \/ Already(b, m) /\ UNCHANGED <<reg, cache, steady, overlay>>
                \/ /\ ~Already(b, m)
                   /\ \/ reg.backends[b].sync /\ \E history \in Upstream[b] : Fetches(b, history)
                      \/ ~reg.backends[b].sync /\ UNCHANGED <<cache, steady>>
                   /\ modelInInventory(b, down, m, inventoryForBackend(reg, cache', b))
                   /\ overlay' = OverlayAdd(b, down)
                   /\ reg' = withAllowedModel(reg, b, down)
BY DEF AllowModel, Already, Serving

(* An ack adds a model that the lists allow by now, and disturbs no other. *)
LEMMA AckedAfter ==
  ASSUME AckedInv, Base' = Base, ConfigOK(Base),
         \A x \in DOMAIN Base.backends : Allowed(x) \subseteq Allowed(x)',
         NEW b \in DOMAIN Base.backends, NEW m \in Model, acked' = acked \cup {<<b, m>>},
         Base.backends[b].gated, ~Blank(NormalizeDownstream(b, m)),
         NoRepeats(b)' =>
            ModelInAllowList(b, prefixModelID(b, NormalizeDownstream(b, m)), Allowed(b)')
  PROVE  AckedInv'
<1> SUFFICES ASSUME NEW a \in acked', NoRepeats(a[1])'
             PROVE  /\ a[1] \in DOMAIN Base.backends
                    /\ Base.backends[a[1]].gated
                    /\ ~Blank(DownOf(a))
                    /\ ModelInAllowList(a[1], PublicOf(a), Allowed(a[1])')
  BY DEF AckedInv, DownOf, PublicOf
<1>1. CASE a \in acked
  <2>1. NoRepeats(a[1])
    BY DEF NoRepeats
  <2>2. /\ a[1] \in DOMAIN Base.backends
        /\ Base.backends[a[1]].gated
        /\ ~Blank(DownOf(a))
        /\ ModelInAllowList(a[1], PublicOf(a), Allowed(a[1]))
    BY <1>1, <2>1 DEF AckedInv
  <2> QED BY <2>2, AllowGrows
<1>2. CASE a = <<b, m>>
  <2>1. a[1] = b /\ DownOf(a) = NormalizeDownstream(b, m)
        /\ PublicOf(a) = prefixModelID(b, NormalizeDownstream(b, m))
    BY <1>2 DEF DownOf, PublicOf
  <2> QED BY <2>1
<1> QED BY <1>1, <1>2

(* A model the gate let through before, by any of its three names.         *)
LEMMA AlreadyAllowed ==
  ASSUME NEW b \in Text, NEW m \in Model, ~Prefixed(b, NormalizeDownstream(b, m)),
         ~Blank(NormalizeDownstream(b, m)), NEW allow \in SUBSET Model,
         NEW id \in {m, NormalizeDownstream(b, m), prefixModelID(b, NormalizeDownstream(b, m))},
         ModelInAllowList(b, id, allow)
  PROVE  ModelInAllowList(b, prefixModelID(b, NormalizeDownstream(b, m)), allow)
<1> DEFINE down == NormalizeDownstream(b, m)
<1>1. down \in Model /\ prefixModelID(b, down) = <<b>> \o down /\ m \in {down, <<b>> \o down}
  BY DownstreamIs DEF prefixModelID
<1>2. ModelInAllowList(b, down, allow) => ModelInAllowList(b, <<b>> \o down, allow)
  <2> HIDE DEF down
  <2> QED BY <1>1, PublicInAllowList DEF down
<1> QED BY <1>1, <1>2

(* More allowed models are still the same backends to Bifrost's account.   *)
LEMMA AccountStays ==
  ASSUME AccountInv, Grown(reg', reg), phase' = phase, account' = account
  PROVE  AccountInv'
<1>1. /\ DOMAIN reg'.backends = DOMAIN reg.backends
      /\ reg'.routers = reg.routers /\ reg'.switchyard = reg.switchyard
      /\ \A b \in DOMAIN reg.backends :
            /\ reg'.backends[b].id = reg.backends[b].id
            /\ reg'.backends[b].caps = reg.backends[b].caps
            /\ reg'.backends[b].ext = reg.backends[b].ext
            /\ reg'.backends[b].remote = reg.backends[b].remote
            /\ reg'.backends[b].cred = reg.backends[b].cred
  BY DEF Grown, SameButAllow
<1>2. shouldRegisterSwitchyard(reg)' <=> shouldRegisterSwitchyard(reg)
  BY <1>1 DEF shouldRegisterSwitchyard
<1> QED BY <1>1, <1>2 DEF AccountInv, Serving

(* An allow request for what is allowed keeps the invariant.               *)
LEMMA AlreadyKeeps ==
  ASSUME IInv, NEW b \in Ids, NEW m \in Model, <<b, m>> \in Asked,
         Serving, UNCHANGED <<in, phase, account>>, acked' = acked \cup {<<b, m>>},
         parseAllowRequest(reg, b, m),
         Already(b, m), UNCHANGED <<reg, cache, steady, overlay>>
  PROVE  IInv'
<1>1. /\ TypeOK /\ RegInv /\ AccountInv /\ CacheInv /\ OverlayInv /\ AllowInv /\ AckedInv
      /\ GatedInv
  BY DEF IInv
<1>2. Base' = Base /\ \A x : Allowed(x)' = Allowed(x)
  BY DEF Base, Allowed
<1>3. \A x : NoRepeats(x)' => NoRepeats(x)
  BY DEF NoRepeats
<1>4. RegInv' /\ AllowInv' /\ AccountInv' /\ CacheInv' /\ OverlayInv' /\ TypeOK'
  BY <1>1, <1>2, <1>3 DEF RegInv, AllowInv, AccountInv, CacheInv, OverlayInv, TypeOK, Up, Serving
<1>5. GatedInv'
  BY <1>1, <1>2, <1>3 DEF GatedInv
<1>6. /\ ConfigOK(Base) /\ b \in DOMAIN Base.backends /\ reg.backends[b].gated
      /\ Base.backends[b].gated = reg.backends[b].gated
      /\ reg.backends[b].id = b
      /\ NoRepeats(b) => reg.backends[b].allow = Allowed(b)
  BY ServingIs, BackendIs DEF SameButAllow, parseAllowRequest
<1>7. ~Blank(NormalizeDownstream(b, m))
  BY DEF parseAllowRequest
<1>8. ASSUME NoRepeats(b)'
      PROVE  ModelInAllowList(b, prefixModelID(b, NormalizeDownstream(b, m)), Allowed(b))
  <2>1. reg.backends[b].allow = Allowed(b) /\ Allowed(b) \in SUBSET Model
    BY <1>1, <1>3, <1>6, <1>8, AllowedIs
  <2>2. PICK id \in {m, NormalizeDownstream(b, m), prefixModelID(b, NormalizeDownstream(b, m))} :
           ModelInAllowList(b, id, Allowed(b))
    BY <1>6, <2>1 DEF Already, IsModelAllowed
  <2>3. ~Prefixed(b, NormalizeDownstream(b, m))
    BY <1>8 DEF NoRepeats, Repeats
  <2> QED BY <1>7, <2>1, <2>2, <2>3, AlreadyAllowed, IdsAreText
<1>9. AckedInv'
  BY <1>1, <1>2, <1>6, <1>7, <1>8, AckedAfter
<1> QED BY <1>4, <1>5, <1>9 DEF IInv

(* The model was found, so the list that was fetched for it has it.        *)
LEMMA FoundInList ==
  ASSUME NEW b \in Text, NEW m \in Model, ~Prefixed(b, NormalizeDownstream(b, m)),
         NEW list \in SUBSET Model, \A id \in list : Prefixed(b, id),
         modelInInventory(b, NormalizeDownstream(b, m), m, list)
  PROVE  <<b>> \o NormalizeDownstream(b, m) \in list
<1> DEFINE down == NormalizeDownstream(b, m)
<1>1. down \in Model /\ prefixModelID(b, down) = <<b>> \o down /\ m \in {down, <<b>> \o down}
  BY DownstreamIs DEF prefixModelID
<1>2. PICK id \in list : \/ id \in {m, down, <<b>> \o down}
                         \/ NormalizeDownstream(b, id) = down
  BY <1>1 DEF modelInInventory
<1>3. Prefixed(b, id) /\ id = <<b>> \o NormalizeDownstream(b, id)
  BY DownstreamIs
<1> QED BY <1>1, <1>2, <1>3

(* So does one that writes a new entry: the registry and the overlay       *)
(* change alike.                                                           *)
LEMMA NewEntryKeeps ==
  ASSUME IInv, NEW b \in Ids, NEW m \in Model, <<b, m>> \in Asked, NEW down,
         down = NormalizeDownstream(b, m),
         Serving, UNCHANGED <<in, phase, account>>, acked' = acked \cup {<<b, m>>},
         parseAllowRequest(reg, b, m), ~Already(b, m),
         \/ reg.backends[b].sync /\ \E history \in Upstream[b] : Fetches(b, history)
         \/ ~reg.backends[b].sync /\ UNCHANGED <<cache, steady>>,
         modelInInventory(b, down, m, inventoryForBackend(reg, cache', b)),
         overlay' = OverlayAdd(b, down),
         reg' = withAllowedModel(reg, b, down)
  PROVE  IInv'
<1>1. /\ TypeOK /\ RegInv /\ AccountInv /\ CacheInv /\ OverlayInv /\ AllowInv /\ AckedInv
      /\ GatedInv
  BY DEF IInv
<1>2. /\ ConfigOK(Base) /\ ConfigOK(reg) /\ Grown(reg, Base)
      /\ b \in DOMAIN Base.backends /\ b \in DOMAIN reg.backends /\ reg.backends[b].gated
      /\ DOMAIN reg.backends = DOMAIN Base.backends
      /\ Base.backends[b].gated
      /\ Base.backends[b].sync = reg.backends[b].sync
      /\ reg.backends[b].id = b
      /\ Base.backends[b].allow \subseteq reg.backends[b].allow
      /\ \A x \in DOMAIN Base.backends : NoRepeats(x) => reg.backends[x].allow = Allowed(x)
  BY ServingIs, BackendIs DEF SameButAllow, parseAllowRequest
<1>3. down \in Model /\ ~Blank(down) /\ b \in Text
  BY DownstreamIs, IdsAreText DEF parseAllowRequest
<1>4. ~ModelInAllowList(b, down, reg.backends[b].allow)
  BY <1>2 DEF Already, IsModelAllowed
<1>5. \A x : NoRepeats(x)' => NoRepeats(x)
  BY DEF NoRepeats
<1>6. NoRepeats(b)' => ~Prefixed(b, down) /\ NormalizeDownstream(b, down) = down
  BY DEF NoRepeats, Repeats, NormalizeDownstream
<1>7. Base' = Base
  BY DEF Base
<1>8. Grown(reg', reg)
  <2>1. CASE ModelInAllowList(b, NormalizeDownstream(b, down), reg.backends[b].allow)
    BY <2>1, <1>2, GrownFromItself DEF withAllowedModel
  <2>2. CASE ~ModelInAllowList(b, NormalizeDownstream(b, down), reg.backends[b].allow)
    BY <2>2, <1>2, <1>3, AllowedModelIs
  <2> QED BY <2>1, <2>2
<1>9. RegInv'
  BY <1>1, <1>2, <1>7, <1>8, GrownFurther DEF RegInv, Up
<1>10. AccountInv'
  BY <1>1, <1>8, AccountStays
<1>11. /\ CacheInv' /\ PublicCache'
       /\ \A x \in Ids : x # b => cache'[x] = cache[x]
       /\ reg.backends[b].sync =>
             \/ cache'[b] = cache[b]
             \/ SyntheticAllowModels(b, reg.backends[b].allow) \subseteq cache'[b]
  <2>1. PublicCache
    BY <1>1 DEF TypeOK, PublicCache
  <2>2. CASE reg.backends[b].sync
    BY <1>1, <1>2, <2>1, <2>2, FetchStep
  <2>3. CASE ~reg.backends[b].sync
    <3>1. cache' = cache /\ steady' = steady
      BY <2>3
    <3> QED BY <1>1, <2>1, <2>3, <3>1 DEF CacheInv, PublicCache
  <2> QED BY <2>2, <2>3
<1>12. OverlayInv'
  BY <1>1, <1>2, <1>3, EntryAdded
<1>13. TypeOK'
  <2>1. /\ DOMAIN overlay' \subseteq Ids
        /\ \A x \in DOMAIN overlay' : overlay'[x] # {} /\ \A y \in overlay'[x] : ~Blank(y)
    <3>1. /\ DOMAIN overlay' = DOMAIN overlay \cup {b}
          /\ overlay'[b] = Had(b) \cup {down}
          /\ \A x \in DOMAIN overlay : x # b => overlay'[x] = overlay[x]
      BY OverlayAddIs
    <3> QED BY <1>1, <1>3, <3>1 DEF TypeOK, Had
  <2>2. DOMAIN reg'.backends \subseteq Ids
    BY <1>8 DEF Grown, ConfigOK, BackendsOK
  <2>3. DOMAIN cache' = Ids /\ \A x \in Ids : \A id \in cache'[x] : Prefixed(x, id)
    BY <1>11 DEF CacheInv, PublicCache
  <2> QED BY <1>1, <2>1, <2>2, <2>3 DEF TypeOK
(* The lists of the other backends, and of b while no request repeats it.  *)
<1>14. /\ \A x \in DOMAIN Base.backends : Allowed(x) \subseteq Allowed(x)'
       /\ \A x \in DOMAIN Base.backends : x # b => Allowed(x)' = Allowed(x)
       /\ NoRepeats(b)' => Allowed(b)' = Allowed(b) \cup {down}
  <2>1. /\ \A x \in DOMAIN Base.backends : Allowed(x) \subseteq Allowed(x)'
        /\ \A x \in DOMAIN Base.backends : x # b => Allowed(x)' = Allowed(x)
        /\ ~Prefixed(b, down) /\ ~ModelInAllowList(b, down, Allowed(b))
              => Allowed(b)' = Allowed(b) \cup {down}
    BY <1>1, <1>2, <1>3, EntryAdded
  <2> QED BY <2>1, <1>2, <1>4, <1>5, <1>6
<1>15. /\ \A x \in DOMAIN Base.backends :
             x # b => reg'.backends[x].allow = reg.backends[x].allow
       /\ NoRepeats(b)' => reg'.backends[b].allow = Allowed(b)'
  <2>1. CASE ModelInAllowList(b, NormalizeDownstream(b, down), reg.backends[b].allow)
    BY <2>1, <1>2, <1>4, <1>6 DEF withAllowedModel
  <2>2. CASE ~ModelInAllowList(b, NormalizeDownstream(b, down), reg.backends[b].allow)
    <3>1. \A x \in DOMAIN reg.backends :
             reg'.backends[x].allow = IF x = b
                THEN reg.backends[x].allow \cup {NormalizeDownstream(b, down)}
                ELSE reg.backends[x].allow
      <4> DEFINE d == withAllowedModel(reg, b, down)
      <4>1. \A x \in DOMAIN reg.backends :
               d.backends[x].allow = IF x = b
                  THEN reg.backends[x].allow \cup {NormalizeDownstream(b, down)}
                  ELSE reg.backends[x].allow
        <5>1. ConfigOK(reg) /\ b \in DOMAIN reg.backends /\ down \in Model
          BY <1>2, <1>3
        <5> QED BY <2>2, <5>1, AllowedModelIs, ZenonT(40)
      <4>2. reg' = d
        OBVIOUS
      <4> HIDE DEF d
      <4> QED BY <4>1, <4>2
    <3>2. \A x \in DOMAIN Base.backends : x # b => reg'.backends[x].allow = reg.backends[x].allow
      BY <3>1, <1>2
    <3>3. reg'.backends[b].allow = reg.backends[b].allow \cup {NormalizeDownstream(b, down)}
      BY <3>1, <1>2
    <3>4. NoRepeats(b)' => reg.backends[b].allow = Allowed(b)
      BY <1>2, <1>5
    <3> QED BY <3>2, <3>3, <3>4, <1>6, <1>14
  <2> QED BY <2>1, <2>2
<1>16. AllowInv'
  <2> SUFFICES ASSUME NEW x \in DOMAIN Base.backends, NoRepeats(x)'
               PROVE  reg'.backends[x].allow = Allowed(x)'
    BY <1>7 DEF AllowInv
  <2> QED BY <1>2, <1>5, <1>14, <1>15
<1>17. AckedInv'
  <2>1. ASSUME NoRepeats(b)'
        PROVE  ModelInAllowList(b, prefixModelID(b, down), Allowed(b)')
    <3>1. ~Prefixed(b, down) /\ prefixModelID(b, down) = <<b>> \o down
      BY <1>6, <2>1 DEF prefixModelID
    <3>2. Allowed(b)' = Allowed(b) \cup {down} /\ Allowed(b)' \in SUBSET Model
      BY <1>1, <1>2, <1>3, <1>14, <2>1, AllowedIs
    <3> DEFINE allowed == Allowed(b)'
    <3>3. allowed \in SUBSET Model /\ down \in allowed
      BY <3>2
    <3> HIDE DEF allowed
    <3>4. ModelInAllowList(b, <<b>> \o down, allowed)
      BY <1>3, <3>1, <3>3, PublicInAllowList
    <3> QED BY <3>1, <3>4 DEF allowed
  <2> QED BY <1>1, <1>2, <1>3, <1>7, <1>14, <2>1, AckedAfter
<1>18. GatedInv'
  <2> SUFFICES ASSUME NEW x \in DOMAIN Base.backends, NoRepeats(x)', Base.backends[x].gated,
                      Base.backends[x].sync, cache'[x] # {}
               PROVE  SyntheticAllowModels(x, Allowed(x)') \subseteq cache'[x]
    BY <1>7 DEF GatedInv
  <2>1. x \in Ids /\ NoRepeats(x)
    BY <1>2, <1>5 DEF ConfigOK, BackendsOK
  <2>2. CASE x # b
    BY <1>1, <1>11, <1>14, <2>1, <2>2 DEF GatedInv
  <2>3. CASE x = b
    <3>1. SyntheticAllowModels(b, Allowed(b)) \subseteq cache'[b]
      BY <1>1, <1>2, <1>11, <2>1, <2>3 DEF GatedInv
    <3>2. inventoryForBackend(reg, cache', b) = cache'[b]
      BY <1>2, <2>3 DEF inventoryForBackend
    <3>3. ~Prefixed(b, down) /\ NormalizeDownstream(b, down) = down
      BY <1>6, <2>3
    <3>4. /\ cache'[b] \in SUBSET Model /\ \A id \in cache'[b] : Prefixed(b, id)
          /\ modelInInventory(b, down, m, cache'[b])
      BY <1>11, <3>2 DEF CacheInv, PublicCache
    <3> DEFINE held == cache'[b]
    <3>5. /\ held \in SUBSET Model /\ \A id \in held : Prefixed(b, id)
          /\ modelInInventory(b, down, m, held)
      BY <3>4
    <3> HIDE DEF held
    <3>6. <<b>> \o down \in held
      BY <1>3, <3>3, <3>5, FoundInList
    <3>7. <<b>> \o down \in cache'[b]
      BY <3>6 DEF held
    <3>8. Allowed(b)' = Allowed(b) \cup {down}
      BY <1>14, <2>3
    <3> QED BY <2>3, <3>1, <3>3, <3>7, <3>8 DEF SyntheticAllowModels
  <2> QED BY <2>2, <2>3
<1> QED BY <1>9, <1>10, <1>11, <1>12, <1>13, <1>16, <1>17, <1>18 DEF IInv

(* So does any allow request.                                              *)
LEMMA AllowModelKeeps ==
  ASSUME IInv, NEW a \in Asked, AllowModel(a[1], a[2])
  PROVE  IInv'
<1>1. a[1] \in Ids /\ a[2] \in Model /\ <<a[1], a[2]>> \in Asked
  BY AskedAssumption
<1> DEFINE b == a[1]
           m == a[2]
           down == NormalizeDownstream(b, m)
<1>2. /\ Serving /\ UNCHANGED <<in, phase, account>> /\ acked' = acked \cup {<<b, m>>}
      /\ parseAllowRequest(reg, b, m)
      /\ \/ Already(b, m) /\ UNCHANGED <<reg, cache, steady, overlay>>
         \/ /\ ~Already(b, m)
            /\ \/ reg.backends[b].sync /\ \E history \in Upstream[b] : Fetches(b, history)
               \/ ~reg.backends[b].sync /\ UNCHANGED <<cache, steady>>
            /\ modelInInventory(b, down, m, inventoryForBackend(reg, cache', b))
            /\ overlay' = OverlayAdd(b, down)
            /\ reg' = withAllowedModel(reg, b, down)
  BY AllowModelIs
<1> HIDE DEF b, m
<1>3. b \in Ids /\ m \in Model /\ <<b, m>> \in Asked
  BY <1>1 DEF b, m
<1>4. CASE Already(b, m)
  BY <1>2, <1>3, <1>4, AlreadyKeeps
<1>5. CASE ~Already(b, m)
  BY <1>2, <1>3, <1>5, NewEntryKeeps
<1> QED BY <1>4, <1>5

(* The invariant is inductive.                                             *)
LEMMA NextKeeps == IInv /\ [Next]_vars => IInv'
<1> SUFFICES ASSUME IInv, [Next]_vars PROVE IInv'
  OBVIOUS
<1>1. CASE Load
  BY <1>1, LoadKeeps
<1>2. CASE NewClient
  BY <1>2, NewClientKeeps
<1>3. CASE Restart
  BY <1>3, RestartKeeps
<1>4. ASSUME NEW b \in Ids, Refresh(b) PROVE IInv'
  BY <1>4, RefreshKeeps
<1>5. ASSUME NEW b \in Ids, Expire(b) PROVE IInv'
  BY <1>5, ExpireKeeps
<1>6. ASSUME NEW a \in Asked, AllowModel(a[1], a[2]) PROVE IInv'
  BY <1>6, AllowModelKeeps
<1>7. CASE UNCHANGED vars
  BY <1>7, IdleKeeps
<1> QED BY <1>1, <1>2, <1>3, <1>4, <1>5, <1>6, <1>7 DEF Next, Stopped

(* The inductive invariant of the whole: the registry is the loaded config *)
(* with more allowed models, those the overlay would bring back after a    *)
(* restart; Bifrost's account has the same backends; cached lists are      *)
(* complete and hold what is allowed; and what was acknowledged is         *)
(* allowed.                                                                *)
THEOREM InvariantHolds == Spec => []IInv
<1>1. Init => IInv
  BY InitKeeps
<1>2. IInv /\ [Next]_vars => IInv'
  BY NextKeeps
<1> QED BY <1>1, <1>2, PTL DEF Spec

-----------------------------------------------------------------------------
(* The theorems.                                                           *)

(* The variables keep their types: the cache holds public ids, the overlay *)
(* models that name something, for backends there are.                     *)
THEOREM TypeCorrect == Spec => []TypeOK
<1>1. IInv => TypeOK
  BY DEF IInv
<1> QED BY <1>1, InvariantHolds, PTL

(* A list in the cache is the provider's whole list                        *)
(* (cloudflare/catalog.go), for any number of pages, any changes of the    *)
(* list during the fetch and any failures, if the provider keeps its       *)
(* order.                                                                  *)
THEOREM CacheIsComplete == Spec => []CachedIsComplete
<1>1. IInv => CachedIsComplete
  <2> SUFFICES ASSUME IInv, Serving, NEW b \in DOMAIN reg.backends, cache[b] # {}
               PROVE  steady[b] \subseteq cache[b]
    BY DEF CachedIsComplete
  <2>1. b \in Ids
    BY ServingIs, BackendIs
  <2> QED BY <2>1 DEF IInv, CacheInv
<1> QED BY <1>1, InvariantHolds, PTL

(* An id with the prefix of its backend is on one of the two lists.        *)
LEMMA OnOneSurface ==
  ASSUME NEW c, NEW all, NEW x \in all \cap Model, Prefixed(catalogModelBackend(c, x), x)
  PROVE  \/ x \in modelsForSurface(c, all, "openai")
         \/ systemOneAPIEnabled(c) /\ x \in modelsForSurface(c, all, "systemone")
<1>1. CASE isSystemOneListedModel(c, x)
  <2>1. systemOneAPIEnabled(c)
    BY <1>1 DEF isSystemOneListedModel
  <2>2. x \in partitionModels(c, all, "systemone")
    BY <1>1 DEF partitionModels
  <2> QED BY <2>1, <2>2 DEF modelsForSurface, dedupeModelsByBackendDownstream
<1>2. CASE ~isSystemOneListedModel(c, x)
  <2>1. x \in partitionModels(c, all, "openai")
    BY <1>2 DEF partitionModels
  <2> QED BY <2>1 DEF modelsForSurface, dedupeModelsByBackendDownstream
<1> QED BY <1>1, <1>2

(* A public id of a backend is that backend's to the lists.                *)
LEMMA NamesItsBackend ==
  ASSUME NEW c, NEW b \in DOMAIN c.backends, NEW x \in Model, Prefixed(b, x)
  PROVE  catalogModelBackend(c, x) = b
BY PrefixedIs DEF catalogModelBackend

(* What a backend's inventory brings past the gates is collected.          *)
LEMMA Collected ==
  ASSUME NEW c, NEW inv, NEW b \in DOMAIN inv, NEW x \in inv[b],
         keepEnabledCatalogModel(c.backends[b], x)
  PROVE  x \in collectModels(c, inv, FALSE)
<1> DEFINE kept(y) == { id \in inv[y] : FALSE \/ keepEnabledCatalogModel(c.backends[y], id) }
           bare(y) == { NormalizeDownstream(y, id) : id \in kept(y) } \ {NoModel, <<"">>}
           of(y)   == kept(y) \cup (IF isDefaultBackend(c, y) THEN bare(y) ELSE {})
<1>1. mergeBackendInventories(c, FALSE, inv) = UNION { of(y) : y \in DOMAIN inv }
  BY Zenon DEF mergeBackendInventories
<1>2. x \in kept(b)
  BY Zenon
<1> HIDE DEF bare, kept
<1>3. x \in of(b)
  BY <1>2
<1> HIDE DEF of
<1> QED BY <1>1, <1>3 DEF collectModels

(* What a gated backend allows is in its inventory, whatever is cached.    *)
LEMMA AllowedIsInInventory ==
  ASSUME IInv, Serving, NEW b \in DOMAIN reg.backends, NoRepeats(b), reg.backends[b].gated
  PROVE  SyntheticAllowModels(b, reg.backends[b].allow) \subseteq inventoryForBackend(reg, cache, b)
<1>1. /\ reg.backends[b].allow = Allowed(b) /\ reg.backends[b].id = b
      /\ b \in DOMAIN Base.backends
      /\ Base.backends[b].gated = reg.backends[b].gated
      /\ Base.backends[b].sync = reg.backends[b].sync
  BY ServingIs, BackendIs DEF SameButAllow
<1>2. CASE reg.backends[b].sync /\ cache[b] # {}
  <2>1. inventoryForBackend(reg, cache, b) = cache[b]
    BY <1>2 DEF inventoryForBackend
  <2>2. GatedInv
    BY DEF IInv
  <2> QED BY <1>1, <1>2, <2>1, <2>2 DEF GatedInv
<1>3. CASE ~(reg.backends[b].sync /\ cache[b] # {})
  <2>1. PICK seeds : inventoryForBackend(reg, cache, b)
                       = mergeEnabledSyntheticMissing(reg.backends[b], seeds)
    BY <1>3 DEF inventoryForBackend
  <2> QED BY <1>1, <2>1 DEF mergeEnabledSyntheticMissing
<1> QED BY <1>2, <1>3

(* An allow request that was answered with success lasts: after any        *)
(* restarts, refreshes and later requests the model passes the gate and is *)
(* on a list (openRouter, ApplyAllowOverlay).                              *)
THEOREM AllowedModelsAreServed == Spec => []AllowedIsServed
<1>1. IInv => AllowedIsServed
  <2> SUFFICES ASSUME IInv, Serving, NEW a \in acked, NoRepeats(a[1])
               PROVE  /\ IsModelAllowed(reg.backends[a[1]], PublicOf(a))
                      /\ {PublicOf(a), <<a[1]>> \o PublicOf(a)}
                            \cap (Listed("openai") \cup Listed("systemone")) # {}
    BY DEF AllowedIsServed, NoRepeats, PublicOf, DownOf
  <2> DEFINE b     == a[1]
             down  == DownOf(a)
             id    == PublicOf(a)
             twice == <<b>> \o id
             allow == reg.backends[b].allow
  <2>1. /\ b \in DOMAIN Base.backends /\ Base.backends[b].gated /\ ~Blank(down)
        /\ ModelInAllowList(b, id, Allowed(b))
    BY DEF IInv, AckedInv
  <2>2. /\ b \in DOMAIN reg.backends /\ reg.backends[b].gated /\ reg.backends[b].id = b
        /\ allow = Allowed(b) /\ allow \in SUBSET Model /\ b \in Text
    BY <2>1, ServingIs, BackendIs DEF SameButAllow
  <2>3. a \in Asked /\ a[2] \in Model
    BY AskedAssumption DEF IInv, TypeOK
  <2>4. /\ down \in Model /\ ~Prefixed(b, down) /\ id = <<b>> \o down
    BY <2>3, DownstreamIs DEF DownOf, PublicOf, NoRepeats, Repeats, prefixModelID
  <2>5. ModelInAllowList(b, id, allow)
    BY <2>1, <2>2
  <2> HIDE DEF b, down, id, allow
  <2>6. /\ id \in Model /\ Prefixed(b, id) /\ NormalizeDownstream(b, id) = down
        /\ NormalizeDownstream(b, down) = down
    BY <2>1, <2>2, <2>4, Cons, PrefixedCons, DownstreamIs DEF Blank
  <2>7. twice \in Model /\ Prefixed(b, twice) /\ NormalizeDownstream(b, twice) = id
    <3>1. id # NoModel
      BY <2>6, PrefixedIs, Zenon DEF Blank
    <3>2. b \in Text
      BY <2>2
    <3> QED BY <2>6, <3>1, <3>2, Cons, PrefixedCons
  <2>8. ~Blank(id) /\ ~Blank(twice)
    BY <2>6, <2>7, PrefixedIs
  <2> HIDE DEF twice
  <2>9. PICK e \in allow : e \in {down, id, twice}
    BY <2>1, <2>2, <2>4, <2>5, PublicInAllowList DEF twice
  <2>10. PICK x \in {id, twice} :
            /\ x \in SyntheticAllowModels(b, allow)
            /\ ModelInAllowList(b, x, allow)
    <3>1. CASE e \in {down, id}
      <4>1. ~Blank(e) /\ NormalizeDownstream(b, e) = down
        BY <2>1, <2>6, <2>8, <3>1
      <4>2. id \in SyntheticAllowModels(b, allow)
        BY <2>1, <2>4, <4>1 DEF SyntheticAllowModels
      <4> QED BY <2>5, <4>2
    <3>2. CASE e = twice
      <4>1. twice \in SyntheticAllowModels(b, allow)
        <5>1. twice = <<b>> \o NormalizeDownstream(b, e)
          BY <2>7, <3>2 DEF twice
        <5> QED BY <2>7, <2>8, <3>2, <5>1 DEF SyntheticAllowModels
      <4>2. ModelInAllowList(b, twice, allow)
        BY <2>8, <3>2 DEF ModelInAllowList
      <4> QED BY <4>1, <4>2
    <3> QED BY <2>9, <3>1, <3>2
  <2>11. /\ x \in Model /\ Prefixed(b, x)
    BY <2>6, <2>7
  <2>12. x \in Inventories(reg, cache)[b] /\ b \in DOMAIN Inventories(reg, cache)
    <3>1. x \in inventoryForBackend(reg, cache, b)
      BY <2>2, <2>10, AllowedIsInInventory DEF b, allow
    <3> QED BY <2>2, <3>1 DEF Inventories
  <2>13. keepEnabledCatalogModel(reg.backends[b], x)
    BY <2>2, <2>10 DEF keepEnabledCatalogModel, IsModelAllowed, allow
  <2>14. x \in collectModels(reg, Inventories(reg, cache), FALSE)
    BY <2>12, <2>13, Collected
  <2>15. Prefixed(catalogModelBackend(reg, x), x)
    BY <2>2, <2>11, NamesItsBackend
  <2>16. x \in Listed("openai") \cup Listed("systemone")
    BY <2>11, <2>14, <2>15, OnOneSurface DEF Listed, serveModelsList
  <2>17. IsModelAllowed(reg.backends[b], id)
    BY <2>2, <2>5 DEF IsModelAllowed, allow
  <2> QED BY <2>10, <2>16, <2>17 DEF b, id, twice
<1> QED BY <1>1, InvariantHolds, PTL

-----------------------------------------------------------------------------
(* Dispatch.                                                               *)

(* A capability is resolved to a backend that has it.                      *)
LEMMA ResolvedIs ==
  ASSUME NEW c, NEW cap, NEW default, NEW m
  PROVE  LET r == resolveCapability(c, cap, default, m)
         IN  r.kind = "dial" => /\ r.backend \in DOMAIN c.backends
                                /\ HasCapability(c.backends[r.backend], cap)
BY DEF resolveCapability, checkDefaultBackend, requireBackend, Answer, Dial

(* The allow list turns a request away or leaves it as it is.              *)
LEMMA GateIs ==
  ASSUME NEW c, NEW r, NEW m
  PROVE  ensureModelAllowed(c, r, m).kind = "dial" => ensureModelAllowed(c, r, m) = r
BY DEF ensureModelAllowed, Answer

(* The speech model is chosen without changing the backend.                *)
LEMMA SpeechTargetIs ==
  ASSUME NEW c, NEW s, NEW r
  PROVE  /\ speechTarget(c, s, r).kind = r.kind
         /\ r.kind = "dial" => speechTarget(c, s, r).backend = r.backend
BY DEF speechTarget, Dial

(* Chat, speech and embeddings go to a backend that has the capability, or *)
(* by a composed router to Switchyard.                                     *)
LEMMA ChatDials ==
  ASSUME NEW c, NEW m, NEW vision \in BOOLEAN
  PROVE  LET r == serveChatCompletions(c, m, vision)
         IN  r.kind = "dial" =>
                \/ /\ r.backend \in DOMAIN c.backends
                   /\ HasCapability(c.backends[r.backend], IF vision THEN "vision" ELSE "chat")
                \/ /\ r.backend = ProviderSwitchyard /\ ~vision
                   /\ \E n \in DOMAIN c.routers : isComposed(c.routers[n].route)
<1> DEFINE r == serveChatCompletions(c, m, vision)
<1> SUFFICES ASSUME r.kind = "dial"
             PROVE  \/ /\ r.backend \in DOMAIN c.backends
                       /\ HasCapability(c.backends[r.backend], IF vision THEN "vision" ELSE "chat")
                    \/ /\ r.backend = ProviderSwitchyard /\ ~vision
                       /\ \E n \in DOMAIN c.routers : isComposed(c.routers[n].route)
  OBVIOUS
<1>1. ~Blank(m)
  BY DEF serveChatCompletions, Answer
<1>2. CASE parseNamedRouterModel(m)
  <2>1. r = serveNamedRouterChat(c, m, vision)
    BY <1>1, <1>2 DEF serveChatCompletions
  <2>2. m[2] \in DOMAIN c.routers /\ ~vision
    BY <2>1 DEF serveNamedRouterChat, Answer
  <2> DEFINE route == c.routers[m[2]].route
             to    == resolveCapability(c, "chat", Effective(c, "chat"), route.target)
  <2>3. CASE isComposed(route)
    BY <2>1, <2>2, <2>3 DEF serveNamedRouterChat, Dial, ProviderSwitchyard
  <2>4. CASE ~isComposed(route)
    <3>1. r = ensureModelAllowed(c, to, route.target)
      BY <2>1, <2>2, <2>4 DEF serveNamedRouterChat
    <3> HIDE DEF r, to
    <3>2. r = to
      BY <3>1, GateIs
    <3> QED BY <2>2, <3>2, ResolvedIs DEF to
  <2> QED BY <2>3, <2>4
<1>3. CASE ~parseNamedRouterModel(m) /\ vision
  <2> DEFINE to == resolveCapability(c, "vision", IF Effective(c, "vision") = NoId
                      THEN Effective(c, "chat") ELSE Effective(c, "vision"), m)
  <2>1. r = ensureModelAllowed(c, to, m)
    BY <1>1, <1>3 DEF serveChatCompletions, ResolveVision
  <2> HIDE DEF r, to
  <2>2. r = to
    BY <2>1, GateIs
  <2> QED BY <1>3, <2>2, ResolvedIs DEF to
<1>4. CASE ~parseNamedRouterModel(m) /\ ~vision
  <2> DEFINE to == resolveCapability(c, "chat", Effective(c, "chat"), m)
  <2>1. r = ensureModelAllowed(c, to, m)
    BY <1>1, <1>4 DEF serveChatCompletions, Answer
  <2> HIDE DEF r, to
  <2>2. r = to
    BY <2>1, GateIs
  <2> QED BY <1>4, <2>2, ResolvedIs DEF to
<1> QED BY <1>2, <1>3, <1>4

(* Embeddings go to a backend that embeds.                                 *)
LEMMA EmbeddingsDial ==
  ASSUME NEW c, NEW m
  PROVE  LET r == serveEmbeddings(c, m)
         IN  r.kind = "dial" => /\ r.backend \in DOMAIN c.backends
                                /\ HasCapability(c.backends[r.backend], "embed")
<1> DEFINE r  == serveEmbeddings(c, m)
           to == resolveCapability(c, "embed", Effective(c, "embed"), m)
<1>1. r.kind = "dial" => r = ensureModelAllowed(c, to, m)
  BY DEF serveEmbeddings, Answer
<1> HIDE DEF to, r
<1>2. r.kind = "dial" => r = to
  BY <1>1, GateIs
<1> QED BY <1>2, ResolvedIs DEF to, r

(* Speech goes to a backend that has its capability.                       *)
LEMMA SpeechDials ==
  ASSUME NEW c, NEW m, NEW s \in {"tts", "stt"}
  PROVE  LET r == IF s = "tts" THEN serveSpeech(c, m) ELSE serveTranscription(c, m)
         IN  r.kind = "dial" => /\ r.backend \in DOMAIN c.backends
                                /\ HasCapability(c.backends[r.backend], s)
<1> DEFINE r  == IF s = "tts" THEN serveSpeech(c, m) ELSE serveTranscription(c, m)
           to == resolveCapability(c, s, Effective(c, s), m)
           past == IF Blank(m) THEN to ELSE ensureModelAllowed(c, to, m)
<1>1. r = speechTarget(c, s, past)
  <2>1. CASE s = "tts"
    BY <2>1 DEF serveSpeech
  <2>2. CASE s = "stt"
    BY <2>2 DEF serveTranscription
  <2> QED BY <2>1, <2>2
<1> HIDE DEF to, r
<1>2. past.kind = "dial" => past = to
  BY GateIs
<1> HIDE DEF past
<1>3. r.kind = "dial" => r.backend = to.backend /\ to.kind = "dial"
  BY <1>1, <1>2, SpeechTargetIs
<1> QED BY <1>3, ResolvedIs DEF to, r

(* Decisions go to a backend that takes them.                              *)
LEMMA DecisionDials ==
  ASSUME NEW c, NEW m
  PROVE  LET r == serveSystemOne(c, m)
         IN  r.kind = "dial" => /\ r.backend \in DOMAIN c.backends
                                /\ HasCapability(c.backends[r.backend], "systemone")
                                /\ hasSystemOneRoute(c.backends[r.backend])
<1> DEFINE r      == serveSystemOne(c, m)
           asked  == IF Blank(m) THEN DefaultSystemOneDownstream ELSE m
           to     == resolveCapability(c, "systemone", Effective(c, "systemone"), asked)
           public == IF Blank(m) THEN prefixModelID(to.backend, to.model) ELSE m
           gated  == ensureSystemOneAllowed(c, to, public)
<1>1. r.kind = "dial" => r = gated /\ hasSystemOneRoute(c.backends[gated.backend])
  BY DEF serveSystemOne, Answer
<1> HIDE DEF r, to, public
<1>2. gated.kind = "dial" => gated = to
  BY GateIs DEF ensureSystemOneAllowed, Answer
<1> HIDE DEF gated
<1>3. to.kind = "dial" => /\ to.backend \in DOMAIN c.backends
                          /\ HasCapability(c.backends[to.backend], "systemone")
  <2> HIDE DEF asked
  <2> QED BY ResolvedIs DEF to
<1> QED BY <1>1, <1>2, <1>3 DEF r

(* What Bifrost is told of Switchyard.                                     *)
LEMMA SwitchyardIs ==
  ~SwitchyardDef.remote /\ SwitchyardDef.caps = {"chat"}
<1> DEFINE none == ""
<1>1. SwitchyardDef = [id |-> ProviderSwitchyard, caps |-> {"chat"}, ext |-> none,
                       remote |-> FALSE, url |-> "loopback", cred |-> TRUE]
  BY DEF SwitchyardDef
<1> HIDE DEF none
<1> QED BY <1>1

(* Bifrost carries chat to Switchyard.                                     *)
LEMMA SwitchyardCarriesChat ==
  ASSUME NEW c, NEW a, ProviderSwitchyard \in DOMAIN a, a[ProviderSwitchyard] = SwitchyardDef
  PROVE  Carries(c, a, ProviderSwitchyard, "chat")
<1>1. UsesBifrost(c, a, ProviderSwitchyard) /\ GetKeysForProvider(a, ProviderSwitchyard)
  BY SwitchyardIs DEF UsesBifrost, hasSwitchyard, GetKeysForProvider
<1>2. ProviderSwitchyard # openRouterBackendID
  BY DEF ProviderSwitchyard, openRouterBackendID
<1>3. "chat" \in allowedRequestsForBackend(SwitchyardDef)
  BY SwitchyardIs DEF allowedRequestsForBackend, Permits
<1>4. "chat" \in GetConfigForProvider(a, ProviderSwitchyard).allowed
  BY <1>2, <1>3 DEF GetConfigForProvider
<1> QED BY <1>1, <1>4 DEF Carries

(* What a load that refuses nothing found of every backend.                *)
LEMMA BackendsAreSound ==
  ASSUME IInv, Serving, NEW b \in DOMAIN reg.backends
  PROVE  /\ reg.backends[b].id = b
         /\ reg.backends[b].remote => reg.backends[b].cred
         /\ HasCapability(reg.backends[b], "systemone") => hasSystemOneRoute(reg.backends[b])
<1>1. /\ Accepted(in) /\ b \in DOMAIN Base.backends
      /\ SameButAllow(reg.backends[b], Base.backends[b])
      /\ reg.backends[b].id = b
  BY ServingIs, BackendIs
<1>2. normalizeBackends(Base)
  BY <1>1, Zenon DEF Accepted, Base
<1>3. /\ Base.backends[b].remote => Base.backends[b].cred
      /\ HasCapability(Base.backends[b], "systemone") => hasSystemOneRoute(Base.backends[b])
  BY <1>1, <1>2, Zenon DEF normalizeBackends
<1> QED BY <1>1, <1>3 DEF SameButAllow, HasCapability, hasSystemOneRoute

(* A backend of the registry's is asked for what Bifrost's account of it   *)
(* permits.                                                                *)
LEMMA BackendCarries ==
  ASSUME IInv, Serving, NEW b \in DOMAIN reg.backends, b # ProviderSwitchyard,
         NEW request \in DOMAIN Permits, request # "batch",
         Permits[request] \cap reg.backends[b].caps # {},
         request = "decision" => /\ hasSystemOneRoute(reg.backends[b])
                                 /\ HasCapability(reg.backends[b], "systemone")
                                 /\ ~IsCloudflare(reg, b)
  PROVE  Carries(reg, account, b, request)
<1>1. /\ b \in DOMAIN account
      /\ account[b].id = b
      /\ account[b].caps = reg.backends[b].caps
      /\ account[b].ext = reg.backends[b].ext
      /\ account[b].remote => account[b].cred
      /\ reg.backends[b].id = b
  <2>1. AccountInv
    BY DEF IInv
  <2> QED BY <2>1, BackendsAreSound DEF AccountInv
<1>2. UsesBifrost(reg, account, b) /\ GetKeysForProvider(account, b)
  BY <1>1 DEF UsesBifrost, GetKeysForProvider
<1>3. request = "decision" /\ b # openRouterBackendID => reg.backends[b].ext = "typesafe"
  BY <1>1 DEF hasSystemOneRoute, IsCloudflare
<1>4. request \in GetConfigForProvider(account, b).allowed
  <2>1. CASE b = openRouterBackendID
    BY <2>1 DEF GetConfigForProvider
  <2>2. CASE b # openRouterBackendID
    <3>1. request \in allowedRequestsForBackend(account[b])
      BY <1>1, <1>3, <2>2 DEF allowedRequestsForBackend
    <3> QED BY <2>2, <3>1 DEF GetConfigForProvider
  <2> QED BY <2>1, <2>2
<1>5. request = "decision" => usesBifrostSystemOne(account[b])
  BY <1>1, <1>3 DEF usesBifrostSystemOne, HasCapability
<1>6. IsCloudflare(reg, b) => hasCloudflareBackend(reg)
  BY DEF hasCloudflareBackend
<1> QED BY <1>2, <1>4, <1>5, <1>6 DEF Carries

(* What the registry sends to a backend Bifrost's account of it permits    *)
(* (requireBifrost): the account was made once, the registry is the same   *)
(* table with more allowed models.                                         *)
THEOREM DialsAreCarried == Spec => []DialIsCarried
<1>1. IInv => DialIsCarried
  <2> SUFFICES ASSUME IInv, Serving, ProviderSwitchyard \notin DOMAIN reg.backends,
                      NEW s \in DOMAIN Request, NEW m, SlotAnswer(reg, s, m).kind = "dial"
               PROVE  \/ s = "systemone" /\ IsCloudflare(reg, SlotAnswer(reg, s, m).backend)
                      \/ Carries(reg, account, SlotAnswer(reg, s, m).backend, Request[s])
    BY DEF DialIsCarried
  <2> DEFINE b == SlotAnswer(reg, s, m).backend
  <2>1. s \in {"chat", "vision", "embed", "tts", "stt", "systemone"}
    BY DEF Request
  <2>2. CASE s \in {"chat", "vision"}
    <3>1. SlotAnswer(reg, s, m) = serveChatCompletions(reg, m, s = "vision")
      <4>1. CASE s = "chat"
        BY <4>1 DEF SlotAnswer
      <4>2. CASE s = "vision"
        BY <4>2 DEF SlotAnswer
      <4> QED BY <2>2, <4>1, <4>2
    <3>2. \/ b \in DOMAIN reg.backends /\ HasCapability(reg.backends[b], s)
          \/ /\ b = ProviderSwitchyard
             /\ \E n \in DOMAIN reg.routers : isComposed(reg.routers[n].route)
      <4> DEFINE vision == s = "vision"
      <4>1. vision \in BOOLEAN /\ s = IF vision THEN "vision" ELSE "chat"
        BY <2>2
      <4>2. SlotAnswer(reg, s, m) = serveChatCompletions(reg, m, vision)
        BY <3>1
      <4>3. serveChatCompletions(reg, m, vision).kind = "dial"
            /\ b = serveChatCompletions(reg, m, vision).backend
        BY <4>2
      <4> HIDE DEF vision, b
      <4> QED BY <4>1, <4>3, ChatDials
    <3>3. Request[s] = "chat"
      BY <2>2 DEF Request
    <3> HIDE DEF b
    <3>4. CASE b \in DOMAIN reg.backends /\ HasCapability(reg.backends[b], s)
      <4>1. Permits["chat"] \cap reg.backends[b].caps # {} /\ "chat" \in DOMAIN Permits
        BY <2>2, <3>4 DEF Permits, HasCapability
      <4>2. b # ProviderSwitchyard
        BY <3>4
      <4> QED BY <3>3, <3>4, <4>1, <4>2, BackendCarries DEF b
    <3>5. CASE /\ b = ProviderSwitchyard
               /\ \E n \in DOMAIN reg.routers : isComposed(reg.routers[n].route)
      <4>1. ProviderSwitchyard \in DOMAIN account /\ account[ProviderSwitchyard] = SwitchyardDef
        BY <3>5 DEF IInv, AccountInv, shouldRegisterSwitchyard
      <4> QED BY <3>3, <3>5, <4>1, SwitchyardCarriesChat DEF b
    <3> QED BY <3>2, <3>4, <3>5
  <2>3. CASE s \in {"embed", "tts", "stt"}
    <3>1. b \in DOMAIN reg.backends /\ HasCapability(reg.backends[b], s)
      <4>1. CASE s = "embed"
        BY <4>1, EmbeddingsDial DEF SlotAnswer
      <4>2. CASE s = "tts"
        BY <4>2, SpeechDials DEF SlotAnswer
      <4>3. CASE s = "stt"
        BY <4>3, SpeechDials DEF SlotAnswer
      <4> QED BY <2>3, <4>1, <4>2, <4>3
    <3> HIDE DEF b
    <3>2. /\ Request[s] \in DOMAIN Permits /\ Request[s] \notin {"batch", "decision"}
          /\ Permits[Request[s]] \cap reg.backends[b].caps # {}
      BY <2>3, <3>1 DEF Request, Permits, HasCapability
    <3> QED BY <3>1, <3>2, BackendCarries DEF b
  <2>4. CASE s = "systemone"
    <3>1. /\ b \in DOMAIN reg.backends /\ HasCapability(reg.backends[b], "systemone")
          /\ hasSystemOneRoute(reg.backends[b])
      BY <2>4, DecisionDials DEF SlotAnswer
    <3> HIDE DEF b
    <3>2. /\ Request[s] = "decision" /\ "decision" \in DOMAIN Permits
          /\ Permits["decision"] \cap reg.backends[b].caps # {}
      BY <2>4, <3>1 DEF Request, Permits, HasCapability
    <3> QED BY <2>4, <3>1, <3>2, BackendCarries DEF b
  <2> QED BY <2>1, <2>2, <2>3, <2>4
<1> QED BY <1>1, InvariantHolds, PTL

-----------------------------------------------------------------------------
(* What the load checked.                                                  *)

(* The plain model's id.                                                   *)
LEMMA PlainIs ==
  /\ Len(PlainModel) = 1
  /\ PlainModel # NoModel
  /\ ~Blank(PlainModel)
<1>1. "plain" # ""
  BY Zenon
<1>2. Len(PlainModel) = 1
  BY DEF PlainModel
<1>3. PlainModel # NoModel
  BY DEF PlainModel, NoModel
<1> DEFINE none == ""
           plain == "plain"
<1>4. plain # none
  BY <1>1
<1> HIDE DEF none, plain
<1>5. <<plain>> # <<none>>
  BY <1>4
<1>6. PlainModel # <<"">>
  BY <1>5, Zenon DEF PlainModel, plain, none
<1> QED BY <1>2, <1>3, <1>6, Zenon DEF Blank

(* A gated request goes through or is not allowed.                         *)
LEMMA GateEnds ==
  ASSUME NEW c, NEW r, NEW m, r.kind = "dial"
  PROVE  ensureModelAllowed(c, r, m) \in {r, Answer("not_allowed")}
BY DEF ensureModelAllowed

(* An enabled slot of a gateway that serves has a default that serves it.  *)
LEMMA DefaultIs ==
  ASSUME IInv, Serving, NEW s \in Slots, reg.slots[s].on
  PROVE  /\ Effective(reg, s) # NoId
         /\ requireBackend(reg, Effective(reg, s), SlotCapability(s))
<1>1. Accepted(in) /\ Grown(reg, Base)
  BY ServingIs
<1>2. DefaultsPicked(Base)
  BY <1>1, Zenon DEF Accepted, Base
<1>3. reg.slots = Base.slots
  BY <1>1 DEF Grown
<1>4. /\ Base.slots[s].default # NoId
      /\ requireBackend(Base, Base.slots[s].default, SlotCapability(s))
  BY <1>2, <1>3 DEF DefaultsPicked
<1>5. requireBackend(reg, Base.slots[s].default, SlotCapability(s))
  BY <1>1, <1>4 DEF requireBackend, Grown, SameButAllow, HasCapability
<1> QED BY <1>3, <1>4, <1>5 DEF Effective

(* A plain id goes to the default.                                         *)
LEMMA PlainGoesToDefault ==
  ASSUME NEW c, NEW cap, NEW default, default # NoId, requireBackend(c, default, cap)
  PROVE  resolveCapability(c, cap, default, PlainModel) = Dial(default, PlainModel)
BY PlainIs DEF resolveCapability, checkDefaultBackend

(* Every enabled slot answers a plain id with its default backend, or with *)
(* that backend's refusal.                                                 *)
LEMMA DefaultsAreServed ==
  ASSUME IInv, Serving, NEW s \in Slots, reg.slots[s].on, s # "proxy"
  PROVE  SlotAnswer(reg, s, PlainModel) \in
            {Dial(Effective(reg, s), PlainModel), Answer("not_allowed")}
<1> DEFINE d  == Effective(reg, s)
           to == Dial(d, PlainModel)
<1>1. d # NoId /\ requireBackend(reg, d, s)
  BY DefaultIs DEF SlotCapability
<1>2. resolveCapability(reg, s, d, PlainModel) = to
  BY <1>1, PlainGoesToDefault
<1>3. /\ ~Blank(PlainModel) /\ ~parseNamedRouterModel(PlainModel) /\ ~(Len(PlainModel) > 1)
      /\ PlainModel # NoModel
  BY PlainIs DEF parseNamedRouterModel
<1>4. \A m : ensureModelAllowed(reg, to, m) \in {to, Answer("not_allowed")}
  BY GateEnds DEF Dial
<1>5. speechTarget(reg, s, to) = to /\ speechTarget(reg, s, Answer("not_allowed")) = Answer("not_allowed")
  BY <1>3 DEF speechTarget, Dial, Answer
<1>6. CASE s = "chat"
  BY <1>1, <1>2, <1>3, <1>4, <1>6 DEF SlotAnswer, serveChatCompletions
<1>7. CASE s = "vision"
  BY <1>1, <1>2, <1>3, <1>4, <1>7 DEF SlotAnswer, serveChatCompletions, ResolveVision
<1>8. CASE s = "embed"
  BY <1>1, <1>2, <1>4, <1>8 DEF SlotAnswer, serveEmbeddings
<1>9. CASE s = "tts"
  BY <1>2, <1>3, <1>4, <1>5, <1>9 DEF SlotAnswer, serveSpeech
<1>10. CASE s = "stt"
  BY <1>2, <1>3, <1>4, <1>5, <1>10 DEF SlotAnswer, serveTranscription
<1>11. CASE s = "batch"
  BY <1>1, <1>2, <1>4, <1>11 DEF SlotAnswer, serveBatchCreate
<1>12. CASE s = "systemone"
  <2>1. SlotAnswer(reg, s, PlainModel) = serveSystemOne(reg, PlainModel)
    BY <1>12 DEF SlotAnswer
  <2> DEFINE gated == ensureSystemOneAllowed(reg, to, PlainModel)
  <2>2. gated \in {to, Answer("not_allowed")}
    BY <1>4 DEF ensureSystemOneAllowed
  <2>3. systemOneAPIEnabled(reg)
    BY <1>1, <1>12 DEF systemOneAPIEnabled
  <2>4. hasSystemOneRoute(reg.backends[d])
    BY <1>1, <1>12, BackendsAreSound DEF requireBackend
  <2>5. to.kind = "dial" /\ to.backend = d /\ Answer("not_allowed").kind # "dial"
    BY DEF Dial, Answer
  <2>6. serveSystemOne(reg, PlainModel) =
          IF gated.kind = "dial" /\ ~hasSystemOneRoute(reg.backends[gated.backend])
          THEN Answer("invalid") ELSE gated
    BY <1>2, <1>3, <1>12, <2>3 DEF serveSystemOne
  <2> HIDE DEF gated, to
  <2> QED BY <2>1, <2>2, <2>4, <2>5, <2>6 DEF to
<1> QED BY <1>6, <1>7, <1>8, <1>9, <1>10, <1>11, <1>12 DEF Slots

(* The proxy's backend has voices.                                         *)
LEMMA ProxyHasVoices ==
  ASSUME IInv, Serving, reg.slots["proxy"].on
  PROVE  HasCapability(reg.backends[ProxyBackend(reg)], "voices")
<1>1. requireBackend(reg, Effective(reg, "proxy"), SlotCapability("proxy"))
  BY DefaultIs DEF Slots
<1> QED BY <1>1 DEF requireBackend, SlotCapability, ProxyBackend

(* The routers of a gateway that serves are those of an accepted file.     *)
LEMMA RouterIs ==
  ASSUME IInv, Serving, NEW n \in DOMAIN reg.routers
  PROVE  /\ reg.routers = in.file.routers /\ reg.routers = Base.routers
         /\ n \in Text /\ n # ""
         /\ RouteOK(reg.routers[n].route)
         /\ TextsApart(n, reg.routers[n].route)
         /\ parseRouterRoute(n, reg.routers[n].route)
         /\ validateRouters(Base)
<1>1. in \in Inputs /\ Accepted(in) /\ Grown(reg, Base)
  BY ServingIs
<1>2. reg.routers = Base.routers
  BY <1>1 DEF Grown
<1>3. Base.routers = IF in.found THEN in.file.routers ELSE <<>>
  BY <1>1, LoadedOK DEF Base
<1>4. in.found /\ reg.routers = in.file.routers
  BY <1>2, <1>3
<1>5. InputOK(in)
  BY <1>1, InputsAssumption
<1>6. fileAccepted(in) /\ validateRouters(Base)
  BY <1>1, <1>4, Zenon DEF Accepted, Base
<1>7. parseRouterRoute(n, reg.routers[n].route)
  BY <1>4, <1>6, Zenon DEF fileAccepted
<1>8. n \in Text /\ n # "" /\ RouteOK(reg.routers[n].route) /\ TextsApart(n, reg.routers[n].route)
  BY <1>4, <1>5, <1>7, Zenon DEF InputOK
<1> QED BY <1>2, <1>4, <1>6, <1>7, <1>8

(* The leaves of a route are model ids; of a passthrough, its target.      *)
LEMMA LeavesAre ==
  ASSUME NEW n, NEW r, RouteOK(r), NEW l \in routeLeaves(n, r)
  PROVE  l.leaf \in Model /\ (~isComposed(r) => l.leaf = r.target)
<1>1. CASE r.type = "passthrough"
  BY <1>1 DEF routeLeaves, RouteOK
<1>2. CASE r.type = "stage_router"
  BY <1>2 DEF routeLeaves, RouteOK, isComposed
<1>3. CASE r.type = "llm_classifier"
  BY <1>3 DEF routeLeaves, RouteOK, isComposed
<1>4. CASE r.type \notin {"passthrough", "stage_router", "llm_classifier"}
  BY <1>4 DEF routeLeaves, RouteOK, isComposed
<1> QED BY <1>1, <1>2, <1>3, <1>4

(* A leaf that was validated when the config was loaded is let through by  *)
(* its backend from then on, and resolved to it.                           *)
LEMMA LeafIsServable ==
  ASSUME IInv, Serving, NEW leaf \in Model, validateChatLeaf(Base, leaf), ~Doubled(leaf),
         NEW default
  PROVE  /\ ~Blank(leaf) /\ Len(leaf) > 1 /\ leaf[1] # reservedBackendID
         /\ LET to == resolveCapability(reg, "chat", default, leaf)
            IN  ensureModelAllowed(reg, to, leaf) = Dial(leaf[1], Tail(leaf))
<1> DEFINE b    == leaf[1]
           down == Tail(leaf)
<1>1. /\ splitLeafModel(leaf) /\ b # reservedBackendID /\ b \in DOMAIN Base.backends
      /\ HasCapability(Base.backends[b], "chat")
      /\ IsModelAllowed(Base.backends[b], down) \/ IsModelAllowed(Base.backends[b], leaf)
  BY DEF validateChatLeaf
<1>2. Len(leaf) > 1 /\ ~Blank(down)
  <2>1. Len(leaf) \in Nat /\ Len(leaf) >= 2 /\ ~Blank(down)
    BY <1>1, ModelIs, Zenon DEF splitLeafModel
  <2> QED BY <2>1
<1>3. Prefixed(b, leaf)
  <2>1. leaf # <<>> /\ Head(leaf) = leaf[1]
    BY <1>2, ModelIs DEF NoModel
  <2> QED BY <1>2, <2>1 DEF Prefixed
<1>4. leaf = <<b>> \o down /\ down \in Model /\ b \in Text /\ ~Blank(leaf)
  BY <1>3, PrefixedIs
<1>5. ~Prefixed(b, down)
  BY DEF Doubled
<1>6. /\ b \in DOMAIN reg.backends /\ HasCapability(reg.backends[b], "chat")
      /\ reg.backends[b].id = b /\ Base.backends[b].id = b
      /\ reg.backends[b].gated = Base.backends[b].gated
      /\ Base.backends[b].allow \subseteq reg.backends[b].allow
      /\ Base.backends[b].allow \in SUBSET Model
  BY <1>1, ServingIs, BackendIs DEF SameButAllow, HasCapability
<1> HIDE DEF b, down
<1>7. IsModelAllowed(Base.backends[b], leaf)
  <2>1. CASE ~Base.backends[b].gated
    BY <2>1 DEF IsModelAllowed
  <2>2. CASE Base.backends[b].gated
    <3> DEFINE allow == Base.backends[b].allow
    <3>1. ModelInAllowList(b, down, allow) \/ ModelInAllowList(b, leaf, allow)
      BY <1>1, <1>6, <2>2 DEF IsModelAllowed
    <3>2. allow \in SUBSET Model
      BY <1>6
    <3> HIDE DEF allow
    <3>3. ModelInAllowList(b, leaf, allow)
      BY <1>2, <1>4, <1>5, <3>1, <3>2, PublicInAllowList
    <3> QED BY <1>6, <3>3 DEF IsModelAllowed, allow
  <2> QED BY <2>1, <2>2
<1>8. IsModelAllowed(reg.backends[b], leaf)
  BY <1>6, <1>7, AllowGrows DEF IsModelAllowed
<1>9. resolveCapability(reg, "chat", default, leaf) = Dial(b, down)
  BY <1>2, <1>4, <1>6 DEF resolveCapability, b, down
<1>10. ensureModelAllowed(reg, Dial(b, down), leaf) = Dial(b, down)
  BY <1>8 DEF ensureModelAllowed, Dial
<1> QED BY <1>1, <1>2, <1>4, <1>9, <1>10 DEF b, down

(* Every leaf of every router stays reachable.                             *)
LEMMA LeavesAreServable ==
  ASSUME IInv, Serving
  PROVE  LeavesStayServable
<1> SUFFICES ASSUME NEW n \in DOMAIN reg.routers,
                    NEW l \in routeLeaves(n, reg.routers[n].route), ~Doubled(l.leaf)
             PROVE  LET reached == Dial(l.leaf[1], Tail(l.leaf))
                    IN  IF isComposed(reg.routers[n].route)
                        THEN reg.slots["chat"].on => serveChatCompletions(reg, l.leaf, FALSE) = reached
                        ELSE serveChatCompletions(reg, RouterPublicID(n), FALSE) = reached
  BY DEF LeavesStayServable
<1> DEFINE route == reg.routers[n].route
           leaf  == l.leaf
           id    == RouterPublicID(n)
<1>1. /\ RouteOK(route) /\ n # "" /\ reg.routers = Base.routers
      /\ validateRouters(Base)
  BY RouterIs, Zenon
<1>2. validateChatLeaf(Base, leaf)
  BY <1>1 DEF validateRouters
<1>3. leaf \in Model /\ (~isComposed(route) => leaf = route.target)
  BY <1>1, LeavesAre
<1> DEFINE to == resolveCapability(reg, "chat", Effective(reg, "chat"), leaf)
<1>4. /\ ~Blank(leaf) /\ Len(leaf) > 1 /\ leaf[1] # reservedBackendID
      /\ ensureModelAllowed(reg, to, leaf) = Dial(leaf[1], Tail(leaf))
  <2> HIDE DEF leaf
  <2> QED BY <1>2, <1>3, LeafIsServable DEF leaf
<1> HIDE DEF leaf, route, to
<1>5. ASSUME isComposed(route), reg.slots["chat"].on
      PROVE  serveChatCompletions(reg, leaf, FALSE) = Dial(leaf[1], Tail(leaf))
  <2>1. ~parseNamedRouterModel(leaf)
    BY <1>4 DEF parseNamedRouterModel
  <2>2. Effective(reg, "chat") # NoId
    BY <1>5, DefaultIs DEF Slots
  <2>3. serveChatCompletions(reg, leaf, FALSE) = ensureModelAllowed(reg, to, leaf)
    BY <1>4, <2>1, <2>2 DEF serveChatCompletions, to
  <2> QED BY <1>4, <2>3
<1>6. ASSUME ~isComposed(route)
      PROVE  serveChatCompletions(reg, id, FALSE) = Dial(leaf[1], Tail(leaf))
  <2>1. Len(id) = 2 /\ id[1] = reservedBackendID /\ id[2] = n
    BY DEF RouterPublicID
  <2> HIDE DEF id
  <2>2. parseNamedRouterModel(id)
    BY <1>1, <2>1, Zenon DEF parseNamedRouterModel
  <2>3. ~Blank(id)
    <3>1. Len(<<"">>) = 1 /\ Len(<<>>) = 0
      OBVIOUS
    <3>2. ASSUME id = <<>> PROVE FALSE
      <4>1. Len(id) = 0
        BY <3>1, <3>2, Zenon
      <4> QED BY <2>1, <4>1
    <3>3. ASSUME id = <<"">> PROVE FALSE
      <4>1. Len(id) = 1
        BY <3>1, <3>3, Zenon
      <4> QED BY <2>1, <4>1
    <3> QED BY <3>2, <3>3, Zenon DEF Blank, NoModel
  <2>4. serveChatCompletions(reg, id, FALSE) = serveNamedRouterChat(reg, id, FALSE)
    BY <2>2, <2>3 DEF serveChatCompletions
  <2>5. serveNamedRouterChat(reg, id, FALSE) = ensureModelAllowed(reg, to, leaf)
    BY <1>3, <1>6, <2>1 DEF serveNamedRouterChat, route, to
  <2> QED BY <1>4, <2>4, <2>5
<1> QED BY <1>5, <1>6 DEF leaf, route, id

(* Within one route the names of the targets tell the leaves apart.        *)
LEMMA OneRoute ==
  ASSUME NEW n, NEW r, isComposed(r), parseRouterRoute(n, r), TextsApart(n, r),
         NEW t \in routeLeaves(n, r), NEW u \in routeLeaves(n, r), t.target = u.target
  PROVE  t.leaf = u.leaf
<1>1. r.type \in {"stage_router", "llm_classifier", "fallback"}
  BY DEF parseRouterRoute, RouteFields, isComposed
<1>2. CASE r.type = "stage_router"
  <2> DEFINE capable   == n \o "_capable"
             efficient == n \o "_efficient"
  <2>1. capable # efficient
    BY Zenon DEF TextsApart
  <2>2. routeLeaves(n, r) = {[leaf |-> r.capable,   target |-> capable],
                             [leaf |-> r.efficient, target |-> efficient]}
    BY <1>2 DEF routeLeaves
  <2> HIDE DEF capable, efficient
  <2> QED BY <2>1, <2>2
<1>3. CASE r.type = "llm_classifier"
  <2>1. ClassifierTargetName(n) \notin DOMAIN r.targets
    BY <1>3 DEF parseRouterRoute, parseLLMClassifierRoute, parseClassifierTargets
  <2>2. routeLeaves(n, r) = {[leaf |-> r.classifier, target |-> ClassifierTargetName(n)]}
                            \cup {[leaf |-> r.targets[x], target |-> x] : x \in DOMAIN r.targets}
    BY <1>3 DEF routeLeaves
  <2> QED BY <2>1, <2>2
<1>4. CASE r.type = "fallback"
  <2>1. r.list
    BY <1>4 DEF parseRouterRoute, parseFallbackRoute
  <2>2. \A i, j \in DOMAIN r.targets :
           FallbackTargetName(n, i) = FallbackTargetName(n, j) => i = j
    BY <2>1, Zenon DEF TextsApart
  <2>3. routeLeaves(n, r) = {[leaf |-> r.targets[i], target |-> FallbackTargetName(n, i)] :
                               i \in DOMAIN r.targets}
    BY <1>4 DEF routeLeaves
  <2> QED BY <2>2, <2>3
<1> QED BY <1>1, <1>2, <1>3, <1>4

(* Across all routers a target's name stands for one leaf: the names that  *)
(* begin with a router's name are told apart by validateRouters, those of  *)
(* one router by parseRouterRoute.                                         *)
LEMMA TargetsNameOneLeaf ==
  ASSUME IInv, Serving
  PROVE  TargetNamesOneLeaf
<1> SUFFICES ASSUME NEW t \in Render(reg).targets, NEW u \in Render(reg).targets,
                    t.target = u.target
             PROVE  t.leaf = u.leaf
  BY DEF TargetNamesOneLeaf
<1>1. \A v \in Render(reg).targets : \E n \in DOMAIN reg.routers :
         /\ isComposed(reg.routers[n].route)
         /\ v \in routeLeaves(n, reg.routers[n].route)
  BY DEF Render
<1>2. PICK n \in DOMAIN reg.routers : /\ isComposed(reg.routers[n].route)
                                      /\ t \in routeLeaves(n, reg.routers[n].route)
  BY <1>1
<1>3. PICK o \in DOMAIN reg.routers : /\ isComposed(reg.routers[o].route)
                                      /\ u \in routeLeaves(o, reg.routers[o].route)
  BY <1>1
<1>4. /\ TextsApart(n, reg.routers[n].route) /\ parseRouterRoute(n, reg.routers[n].route)
      /\ reg.routers = Base.routers /\ validateRouters(Base)
  BY RouterIs, Zenon
<1>5. CASE n = o
  BY <1>2, <1>3, <1>4, <1>5, OneRoute
<1>6. CASE n # o
  <2>1. t.target = NoId
    BY <1>2, <1>3, <1>4, <1>6 DEF validateRouters
  <2>2. t.target # NoId
    BY <1>2, <1>4, Zenon DEF TextsApart
  <2> QED BY <2>1, <2>2
<1> QED BY <1>5, <1>6

(* What the load checked holds of every later snapshot                     *)
(* (checkDefaultBackend, validateChatLeaf, render), whatever operators     *)
(* allow.                                                                  *)
THEOREM LoadIsKept == Spec => []LoadIsHonoured
<1>1. IInv => LoadIsHonoured
  <2> SUFFICES ASSUME IInv PROVE LoadIsHonoured
    OBVIOUS
  <2>1. TypeOK
    BY DEF IInv
  <2>2. DefaultsServe
    BY DefaultsAreServed, ProxyHasVoices DEF DefaultsServe
  <2>3. LeavesStayServable
    <3>1. CASE Serving
      BY <3>1, LeavesAreServable
    <3>2. CASE ~Serving
      BY <3>2 DEF LeavesStayServable
    <3> QED BY <3>1, <3>2
  <2>4. TargetNamesOneLeaf
    <3>1. CASE Serving
      BY <3>1, TargetsNameOneLeaf
    <3>2. CASE ~Serving
      BY <3>2 DEF TargetNamesOneLeaf
    <3> QED BY <3>1, <3>2
  <2> QED BY <2>1, <2>2, <2>3, <2>4 DEF LoadIsHonoured
<1> QED BY <1>1, InvariantHolds, PTL

-----------------------------------------------------------------------------
(* The lists.                                                              *)

(* Where a listed id comes from.                                           *)
CameFrom(c, inv, id) ==
  \/ id \in routerCatalogModels(c)
  \/ \E b \in DOMAIN inv : \E x \in inv[b] :
        /\ keepEnabledCatalogModel(c.backends[b], x)
        /\ x = id \/ NormalizeDownstream(b, x) = id
  \/ \E s \in seedModelsFromEnv(c) :
        id = s.id /\ IsModelAllowed(c.backends[s.backend], s.id)

(* A listed id comes from a router, an inventory or the environment.       *)
LEMMA ComesFrom ==
  ASSUME NEW c, NEW inv, NEW id \in collectModels(c, inv, FALSE)
  PROVE  CameFrom(c, inv, id)
<1> DEFINE kept(y) == { x \in inv[y] : FALSE \/ keepEnabledCatalogModel(c.backends[y], x) }
           bare(y) == { NormalizeDownstream(y, x) : x \in kept(y) } \ {NoModel, <<"">>}
           of(y)   == kept(y) \cup (IF isDefaultBackend(c, y) THEN bare(y) ELSE {})
<1>1. mergeBackendInventories(c, FALSE, inv) = UNION { of(y) : y \in DOMAIN inv }
  BY Zenon DEF mergeBackendInventories
<1>2. \A y : \A x \in bare(y) : \E z \in kept(y) : NormalizeDownstream(y, z) = x
  BY Zenon
<1> HIDE DEF bare
<1>3. \A y : \A x \in of(y) :
         \E z \in inv[y] : /\ keepEnabledCatalogModel(c.backends[y], z)
                           /\ z = x \/ NormalizeDownstream(y, z) = x
  BY <1>2
<1> HIDE DEF of
<1>4. \/ id \in routerCatalogModels(c)
      \/ id \in mergeBackendInventories(c, FALSE, inv)
      \/ id \in mergeSeedModels(c, FALSE)
  BY DEF collectModels
<1>5. CASE id \in mergeBackendInventories(c, FALSE, inv)
  <2>1. PICK b \in DOMAIN inv : id \in of(b)
    BY <1>1, <1>5
  <2>2. PICK x \in inv[b] : /\ keepEnabledCatalogModel(c.backends[b], x)
                            /\ x = id \/ NormalizeDownstream(b, x) = id
    BY <1>3, <2>1
  <2> QED BY <2>2 DEF CameFrom
<1>6. CASE id \in mergeSeedModels(c, FALSE)
  BY <1>6 DEF mergeSeedModels, CameFrom
<1> QED BY <1>4, <1>5, <1>6 DEF CameFrom

(* The default backend's models are also listed without prefix.            *)
LEMMA BareCollected ==
  ASSUME NEW c, NEW inv, NEW b \in DOMAIN inv, NEW x \in inv[b],
         keepEnabledCatalogModel(c.backends[b], x), isDefaultBackend(c, b),
         ~Blank(NormalizeDownstream(b, x))
  PROVE  NormalizeDownstream(b, x) \in collectModels(c, inv, FALSE)
<1> DEFINE kept(y) == { id \in inv[y] : FALSE \/ keepEnabledCatalogModel(c.backends[y], id) }
           bare(y) == { NormalizeDownstream(y, id) : id \in kept(y) } \ {NoModel, <<"">>}
           of(y)   == kept(y) \cup (IF isDefaultBackend(c, y) THEN bare(y) ELSE {})
<1>1. mergeBackendInventories(c, FALSE, inv) = UNION { of(y) : y \in DOMAIN inv }
  BY Zenon DEF mergeBackendInventories
<1>2. x \in kept(b)
  BY Zenon
<1> HIDE DEF kept
<1>3. NormalizeDownstream(b, x) \in bare(b)
  BY <1>2, Zenon DEF Blank
<1> HIDE DEF bare
<1>4. NormalizeDownstream(b, x) \in of(b)
  BY <1>3
<1> HIDE DEF of
<1> QED BY <1>1, <1>4 DEF collectModels

(* The models of the environment are those of the speech slots.            *)
LEMMA SeedIs ==
  ASSUME NEW c, ConfigOK(c), NEW s \in seedModelsFromEnv(c)
  PROVE  \E slot \in {"tts", "stt"} :
            /\ s.backend = Effective(c, slot) /\ s.backend # NoId /\ s.backend \in Text
            /\ c.slots[slot].on
            /\ c.speechModel[slot] \in Model /\ ~Blank(c.speechModel[slot])
            /\ s.id \in {prefixModelID(s.backend, c.speechModel[slot]), c.speechModel[slot]}
            /\ s.id \in Model
<1>1. PICK slot \in {"tts", "stt"} :
         /\ s.backend = Effective(c, slot) /\ s.backend # NoId
         /\ ~Blank(c.speechModel[slot])
         /\ s.id \in {prefixModelID(s.backend, c.speechModel[slot]), c.speechModel[slot]}
  BY DEF seedModelsFromEnv
<1>2. c.speechModel[slot] \in Model /\ c.slots[slot] \in Slot
  BY DEF ConfigOK, Slots
<1>3. s.backend \in Text /\ c.slots[slot].on
  BY <1>1, <1>2 DEF Effective, Slot
<1>4. prefixModelID(s.backend, c.speechModel[slot]) \in Model
  BY <1>2, <1>3, PublicIs
<1> QED BY <1>1, <1>2, <1>3, <1>4

(* An inventory holds model ids.                                           *)
LEMMA InventoryIs ==
  ASSUME IInv, Serving, NEW b \in DOMAIN reg.backends
  PROVE  inventoryForBackend(reg, cache, b) \subseteq Model
<1>1. /\ ConfigOK(reg) /\ b \in Ids /\ b \in Text /\ reg.backends[b].id = b
      /\ reg.backends[b].allow \in SUBSET Model /\ reg.backends[b].sysAllow \in SUBSET Model
  BY ServingIs, BackendIs
<1>2. cache[b] \subseteq Model
  BY <1>1 DEF IInv, CacheInv
<1> DEFINE def   == reg.backends[b]
           seeds == IF ~def.sync \/ hasCatalogClient(def) THEN {} ELSE seedModelsForBackend(reg, b)
<1>3. seeds \subseteq Model
  <2>1. \A s \in seedModelsFromEnv(reg) : s.id \in Model
    BY <1>1, SeedIs
  <2> QED BY <2>1 DEF seedModelsForBackend
<1>4. \/ inventoryForBackend(reg, cache, b) = cache[b]
      \/ inventoryForBackend(reg, cache, b) = mergeEnabledSyntheticMissing(def, seeds)
  BY DEF inventoryForBackend
<1> HIDE DEF seeds
<1>5. mergeEnabledSyntheticMissing(def, seeds) \subseteq Model
  BY <1>1, <1>3, SyntheticAre DEF mergeEnabledSyntheticMissing
<1> QED BY <1>2, <1>4, <1>5

Everything == collectModels(reg, Inventories(reg, cache), FALSE)

(* Where an id comes from, when the gateway serves.                        *)
LEMMA EverythingComesFrom ==
  ASSUME IInv, Serving, NEW id \in Everything
  PROVE  /\ id \in Model
         /\ \/ id \in routerCatalogModels(reg)
            \/ \E a \in DOMAIN reg.backends : \E x \in Brings(a) :
                  x = id \/ NormalizeDownstream(a, x) = id
            \/ \E s \in seedModelsFromEnv(reg) :
                  id = s.id /\ IsModelAllowed(reg.backends[s.backend], s.id)
<1> DEFINE inv == Inventories(reg, cache)
<1>1. DOMAIN inv = DOMAIN reg.backends
      /\ \A b \in DOMAIN reg.backends : inv[b] = inventoryForBackend(reg, cache, b)
  BY DEF Inventories
<1>0. id \in collectModels(reg, inv, FALSE)
  BY DEF Everything
<1> HIDE DEF inv
<1>2. CameFrom(reg, inv, id)
  BY <1>0, ComesFrom
<1>3. CASE id \in routerCatalogModels(reg)
  <2>1. PICK n \in DOMAIN reg.routers : id = <<reservedBackendID, n>>
    BY <1>3 DEF routerCatalogModels, RouterPublicID
  <2>2. n \in Text /\ reservedBackendID \in Text
    <3>1. n \in Text
      BY RouterIs, Zenon
    <3>2. reservedBackendID \in Text
      BY WordsAssumption, Zenon
    <3> QED BY <3>1, <3>2
  <2>3. id \in Model
    BY <2>1, <2>2 DEF Model
  <2> QED BY <1>3, <2>3
<1>4. CASE \E b \in DOMAIN inv : \E x \in inv[b] :
              /\ keepEnabledCatalogModel(reg.backends[b], x)
              /\ x = id \/ NormalizeDownstream(b, x) = id
  <2>0. PICK a \in DOMAIN reg.backends : \E x \in inventoryForBackend(reg, cache, a) :
           /\ keepEnabledCatalogModel(reg.backends[a], x)
           /\ x = id \/ NormalizeDownstream(a, x) = id
    BY <1>1, <1>4
  <2>1. PICK x \in inventoryForBackend(reg, cache, a) :
           /\ keepEnabledCatalogModel(reg.backends[a], x)
           /\ x = id \/ NormalizeDownstream(a, x) = id
    BY <2>0
  <2>2. x \in Model
    BY InventoryIs
  <2>3. id \in Model
    BY <2>1, <2>2, DownstreamIs
  <2>4. x \in Brings(a)
    BY <2>1 DEF Brings
  <2> QED BY <2>1, <2>3, <2>4
<1>5. CASE \E s \in seedModelsFromEnv(reg) :
              id = s.id /\ IsModelAllowed(reg.backends[s.backend], s.id)
  <2>1. ConfigOK(reg)
    BY ServingIs
  <2>2. id \in Model
    BY <1>5, <2>1, SeedIs
  <2> QED BY <1>5, <2>2
<1> QED BY <1>2, <1>3, <1>4, <1>5 DEF CameFrom

(* No backend is called router.                                            *)
LEMMA RouterIsNoBackend ==
  ASSUME IInv, Serving
  PROVE  reservedBackendID \notin DOMAIN reg.backends /\ NoId \notin DOMAIN reg.backends
<1>1. Accepted(in) /\ DOMAIN reg.backends = DOMAIN Base.backends /\ ConfigOK(Base)
  BY ServingIs
<1>2. validateRouters(Base)
  BY <1>1, Zenon DEF Accepted, Base
<1>3. reservedBackendID \notin DOMAIN Base.backends
  BY <1>2, Zenon DEF validateRouters
<1>4. DOMAIN Base.backends \subseteq Ids
  BY <1>1 DEF ConfigOK, BackendsOK
<1> QED BY <1>1, <1>3, <1>4, IdsAreText

(* Whose model an id is, to the lists.                                     *)
LEMMA CatalogBackendIs ==
  ASSUME NEW c, NEW id \in Model
  PROVE  /\ Len(id) > 1 /\ id[1] \in DOMAIN c.backends
               => /\ catalogModelBackend(c, id) = id[1]
                  /\ Prefixed(id[1], id)
         /\ ~(Len(id) > 1 /\ id[1] \in DOMAIN c.backends) /\ systemOneAPIEnabled(c)
               => /\ catalogModelBackend(c, id) = Effective(c, "systemone")
                  /\ \A b \in DOMAIN c.backends : ~Prefixed(b, id)
<1>1. Len(id) > 1 => Head(id) = id[1]
  BY ModelIs DEF NoModel
<1> QED BY <1>1 DEF catalogModelBackend, Prefixed

(* A listed decision model is dialled where the list meant.                *)
LEMMA DecisionsAreServed ==
  ASSUME IInv, Serving
  PROVE  ListedDecisionIsServed
<1> SUFFICES ASSUME NEW id \in Listed("systemone"), ~Prefixed(reservedBackendID, id)
             PROVE  LET r == serveSystemOne(reg, id)
                    IN  r.kind = "dial" /\ <<r.backend>> \o r.model = catalogModelKey(reg, id)
  BY DEF ListedDecisionIsServed
<1> DEFINE b    == catalogModelBackend(reg, id)
           down == NormalizeDownstream(b, id)
           to   == resolveCapability(reg, "systemone", Effective(reg, "systemone"), id)
<1>1. id \in Everything /\ isSystemOneListedModel(reg, id)
  BY DEF Listed, serveModelsList, modelsForSurface, dedupeModelsByBackendDownstream,
         partitionModels, Everything
<1>2. id \in Model
  BY <1>1, EverythingComesFrom
<1>3. b # NoId \/ b \notin DOMAIN reg.backends
  BY RouterIsNoBackend
<1>4. /\ ~Blank(id) /\ systemOneAPIEnabled(reg) /\ b \in DOMAIN reg.backends /\ b # NoId
      /\ IsSystemOneDownstream(reg.backends[b], down)
  BY <1>1, <1>3 DEF isSystemOneListedModel, backendAndDownstreamForPublicID
<1>5. HasCapability(reg.backends[b], "systemone") /\ ~Blank(down)
  BY <1>4 DEF IsSystemOneDownstream, ModelInAllowList
<1>6. to = Dial(b, down)
  <2>1. CASE Len(id) > 1 /\ id[1] \in DOMAIN reg.backends
    <3>1. b = id[1] /\ down = Tail(id)
      BY <1>2, <2>1, CatalogBackendIs DEF NormalizeDownstream
    <3> HIDE DEF b, down
    <3> QED BY <1>4, <1>5, <2>1, <3>1 DEF resolveCapability
  <2>2. CASE ~(Len(id) > 1 /\ id[1] \in DOMAIN reg.backends)
    <3>1. b = Effective(reg, "systemone") /\ down = id
      BY <1>2, <1>4, <2>2, CatalogBackendIs DEF NormalizeDownstream
    <3> HIDE DEF b, down
    <3> QED BY <1>4, <1>5, <2>2, <3>1 DEF resolveCapability, checkDefaultBackend, requireBackend
  <2> QED BY <2>1, <2>2
<1>7. catalogModelKey(reg, id) = <<b>> \o down
  BY <1>4, <1>5 DEF catalogModelKey, backendAndDownstreamForPublicID
<1>8. hasSystemOneRoute(reg.backends[b])
  BY <1>4, <1>5, BackendsAreSound
<1> HIDE DEF b, down, to
<1>9. ensureSystemOneAllowed(reg, Dial(b, down), id) = Dial(b, down)
  BY <1>4, <1>5 DEF ensureSystemOneAllowed, Dial
<1>10. serveSystemOne(reg, id) = Dial(b, down)
  <2>1. Dial(b, down).backend = b
    BY DEF Dial
  <2> QED BY <1>4, <1>6, <1>8, <1>9, <2>1 DEF serveSystemOne, to
<1> QED BY <1>7, <1>10 DEF Dial

(* The environment's models belong to backends there are.                  *)
LEMMA SeedBackendIs ==
  ASSUME IInv, Serving, NEW s \in seedModelsFromEnv(reg)
  PROVE  s.backend \in DOMAIN reg.backends
<1>1. PICK slot \in {"tts", "stt"} : s.backend = Effective(reg, slot) /\ reg.slots[slot].on
  BY ServingIs, SeedIs
<1>2. slot \in Slots
  BY DEF Slots
<1> QED BY <1>1, <1>2, DefaultIs DEF requireBackend

(* A listed chat model passes its backend's gate.                          *)
LEMMA ChatPassesGate ==
  ASSUME IInv, Serving
  PROVE  ListedChatPassesGate
<1> SUFFICES ASSUME reg.slots["chat"].on, systemOneAPIEnabled(reg),
                    NEW id \in Listed("openai"), ~Borrowed("openai", id),
                    Len(id) > 1, id[1] \in DOMAIN reg.backends, ~Blank(Tail(id)),
                    HasCapability(reg.backends[id[1]], "chat")
             PROVE  serveChatCompletions(reg, id, FALSE) = Dial(id[1], Tail(id))
  BY DEF ListedChatPassesGate
<1> DEFINE b  == id[1]
           to == resolveCapability(reg, "chat", Effective(reg, "chat"), id)
<1>1. id \in Everything /\ ~isSystemOneListedModel(reg, id)
  BY DEF Listed, serveModelsList, modelsForSurface, dedupeModelsByBackendDownstream,
         partitionModels, Everything
<1>2. id \in Model /\ ~Blank(id)
  BY <1>1, EverythingComesFrom, LongNotBlank
<1>3. /\ catalogModelBackend(reg, id) = b /\ Prefixed(b, id)
      /\ b # NoId /\ b # reservedBackendID
  BY <1>2, CatalogBackendIs, RouterIsNoBackend
<1>4. ~IsSystemOneDownstream(reg.backends[b], NormalizeDownstream(b, id))
  BY <1>1, <1>2, <1>3 DEF isSystemOneListedModel, backendAndDownstreamForPublicID
<1>5. reg.backends[b].id = b
  BY BackendsAreSound
<1> HIDE DEF b
<1>6. \A a : a # b => NormalizeDownstream(a, id) = id
  BY <1>3 DEF Prefixed, NormalizeDownstream
<1>7. id \in Brings(b) => IsModelAllowed(reg.backends[b], id)
  BY <1>4, <1>5 DEF Brings, keepEnabledCatalogModel
(* The list that brought the id is that of the backend it names, unless it *)
(* is borrowed.                                                            *)
<1>8. ASSUME id \notin Brings(b), NEW a \in DOMAIN reg.backends,
             NEW x \in Brings(a) \cup seedModelsForBackend(reg, a), NormalizeDownstream(a, x) = id
      PROVE  FALSE
  <2>1. prefixModelID(b, id) = id
    BY <1>3 DEF prefixModelID
  <2> QED BY <1>3, <1>8, <2>1 DEF Borrowed
<1>9. IsModelAllowed(reg.backends[b], id)
  <2> SUFFICES ASSUME id \notin Brings(b) PROVE IsModelAllowed(reg.backends[b], id)
    BY <1>7
  <2>1. id \notin routerCatalogModels(reg)
    BY <1>3 DEF routerCatalogModels, RouterPublicID, b
  <2>2. ASSUME NEW a \in DOMAIN reg.backends, NEW x \in Brings(a),
               x = id \/ NormalizeDownstream(a, x) = id
        PROVE  FALSE
    <3>1. NormalizeDownstream(a, x) = id
      BY <2>2, <1>6
    <3> QED BY <3>1, <1>8
  <2>3. ASSUME NEW s \in seedModelsFromEnv(reg), id = s.id,
               IsModelAllowed(reg.backends[s.backend], s.id)
        PROVE  IsModelAllowed(reg.backends[b], id)
    <3>1. CASE s.backend = b
      BY <2>3, <3>1
    <3>2. CASE s.backend # b
      <4>1. NormalizeDownstream(s.backend, id) = id
        BY <1>6, <3>2
      <4>2. id \in seedModelsForBackend(reg, s.backend)
        BY <2>3 DEF seedModelsForBackend
      <4>3. s.backend \in DOMAIN reg.backends
        BY SeedBackendIs
      <4> QED BY <1>8, <4>1, <4>2, <4>3
    <3> QED BY <3>1, <3>2
  <2> QED BY <1>1, <2>1, <2>2, <2>3, EverythingComesFrom
<1>10. to = Dial(b, Tail(id))
  BY <1>2 DEF resolveCapability, b
<1>11. ensureModelAllowed(reg, Dial(b, Tail(id)), id) = Dial(b, Tail(id))
  BY <1>9 DEF ensureModelAllowed, Dial
<1>12. ~parseNamedRouterModel(id)
  BY <1>3 DEF parseNamedRouterModel, b
<1>13. Effective(reg, "chat") # NoId
  BY DefaultIs DEF Slots
<1> QED BY <1>2, <1>10, <1>11, <1>12, <1>13 DEF serveChatCompletions, b

-----------------------------------------------------------------------------
(* A retrieve.                                                             *)

\* What a retrieve of one backend alone collects.
Part(b) == collectModels(reg, [x \in {b} |-> Inventories(reg, cache)[x]], FALSE)

(* What a retrieve collects is part of what the list collects, and has all *)
(* that its one backend brings.                                            *)
LEMMA PartOfEverything ==
  ASSUME NEW b \in DOMAIN reg.backends
  PROVE  /\ Part(b) \subseteq Everything
         /\ routerCatalogModels(reg) \cup mergeSeedModels(reg, FALSE) \subseteq Part(b)
         /\ Brings(b) \subseteq Part(b)
         /\ isDefaultBackend(reg, b) =>
               \A x \in Brings(b) : ~Blank(NormalizeDownstream(b, x))
                                       => NormalizeDownstream(b, x) \in Part(b)
<1> DEFINE inv == Inventories(reg, cache)
           one == [x \in {b} |-> inv[x]]
           kept(v, y) == { x \in v[y] : FALSE \/ keepEnabledCatalogModel(reg.backends[y], x) }
           bare(v, y) == { NormalizeDownstream(y, x) : x \in kept(v, y) } \ {NoModel, <<"">>}
           of(v, y)   == kept(v, y) \cup (IF isDefaultBackend(reg, y) THEN bare(v, y) ELSE {})
<1>1. /\ DOMAIN inv = DOMAIN reg.backends /\ DOMAIN one = {b} /\ one[b] = inv[b]
      /\ inv[b] = inventoryForBackend(reg, cache, b)
  BY DEF Inventories
<1>2. Part(b) = collectModels(reg, one, FALSE) /\ Everything = collectModels(reg, inv, FALSE)
  BY DEF Part, Everything
<1> HIDE DEF inv, one
<1>3. /\ mergeBackendInventories(reg, FALSE, one) = UNION { of(one, y) : y \in DOMAIN one }
      /\ mergeBackendInventories(reg, FALSE, inv) = UNION { of(inv, y) : y \in DOMAIN inv }
  BY Zenon DEF mergeBackendInventories
<1>4. of(one, b) = of(inv, b)
  BY <1>1, Zenon
<1> HIDE DEF of
<1>5. mergeBackendInventories(reg, FALSE, one) \subseteq mergeBackendInventories(reg, FALSE, inv)
  BY <1>1, <1>3, <1>4
<1>6. Part(b) \subseteq Everything
  BY <1>2, <1>5 DEF collectModels
<1>7. routerCatalogModels(reg) \cup mergeSeedModels(reg, FALSE) \subseteq Part(b)
  BY <1>2 DEF collectModels
<1>8. \A x \in Brings(b) : x \in one[b] /\ keepEnabledCatalogModel(reg.backends[b], x)
  BY <1>1 DEF Brings
<1>9. b \in DOMAIN one
  BY <1>1
<1>10. Brings(b) \subseteq Part(b)
  BY <1>2, <1>8, <1>9, Collected
<1>11. isDefaultBackend(reg, b) =>
          \A x \in Brings(b) : ~Blank(NormalizeDownstream(b, x))
                                  => NormalizeDownstream(b, x) \in Part(b)
  BY <1>2, <1>8, <1>9, BareCollected
<1> QED BY <1>6, <1>7, <1>10, <1>11

(* A list of fewer models keeps what a longer one kept.                    *)
LEMMA FewerKeep ==
  ASSUME NEW c, NEW all, NEW few, few \subseteq all, NEW surface,
         NEW id \in few, id \in modelsForSurface(c, all, surface)
  PROVE  id \in modelsForSurface(c, few, surface)
BY DEF modelsForSurface, dedupeModelsByBackendDownstream, partitionModels

(* A listed id is found in the part its retrieve collects.                 *)
LEMMA FoundAlone ==
  ASSUME IInv, Serving, NEW surface \in Surfaces, NEW id \in Listed(surface),
         NEW b \in DOMAIN reg.backends, b = retrieveBackend(reg, surface, id),
         ~Borrowed(surface, id), id \notin routerCatalogModels(reg)
  PROVE  id \in Part(b)
<1>1. /\ id \in Everything
      /\ surface = "systemone" => systemOneAPIEnabled(reg) /\ ~Blank(id)
  BY DEF Listed, serveModelsList, modelsForSurface, dedupeModelsByBackendDownstream,
         partitionModels, Everything, isSystemOneListedModel
<1>2. id \in Model
  BY <1>1, EverythingComesFrom
<1>3. /\ b = catalogModelBackend(reg, id)
      /\ surface = "systemone" \/ (Len(id) > 1 /\ id[1] \in DOMAIN reg.backends)
  BY RouterIsNoBackend DEF retrieveBackend
<1>4. surface = "systemone" \/ Prefixed(b, id)
  BY <1>2, <1>3, CatalogBackendIs
<1> SUFFICES ASSUME id \notin Part(b) PROVE FALSE
  OBVIOUS
<1>5. {id, prefixModelID(b, id)} \cap Brings(b) = {}
  <2>1. id \notin Brings(b)
    BY PartOfEverything
  <2>2. ASSUME prefixModelID(b, id) \in Brings(b) PROVE FALSE
    <3>1. ~Prefixed(b, id)
      BY <2>1, <2>2 DEF prefixModelID
    <3>2. surface = "systemone" /\ b = Effective(reg, "systemone")
      BY <1>1, <1>2, <1>3, <1>4, <3>1, CatalogBackendIs
    <3>3. isDefaultBackend(reg, b)
      BY <3>2 DEF isDefaultBackend, Slots
    <3>4. b \in Text /\ prefixModelID(b, id) = <<b>> \o id /\ id # NoModel
      BY <1>1, <3>1, <3>2, ServingIs, BackendIs DEF prefixModelID, Blank
    <3>5. NormalizeDownstream(b, prefixModelID(b, id)) = id
      BY <1>2, <3>4, PrefixedCons
    <3> QED BY <1>1, <2>2, <3>2, <3>3, <3>5, PartOfEverything
  <2> QED BY <2>1, <2>2
<1>6. ASSUME NEW a \in DOMAIN reg.backends,
             NEW x \in Brings(a) \cup seedModelsForBackend(reg, a), NormalizeDownstream(a, x) = id
      PROVE  FALSE
  BY <1>3, <1>4, <1>5, <1>6 DEF Borrowed
<1>7. ASSUME NEW a \in DOMAIN reg.backends, NEW x \in Brings(a),
             x = id \/ NormalizeDownstream(a, x) = id
      PROVE  FALSE
  <2>1. CASE NormalizeDownstream(a, x) = id
    BY <1>6, <2>1
  <2>2. CASE NormalizeDownstream(a, x) # id /\ x = id
    <3>1. Prefixed(a, id)
      BY <2>2 DEF NormalizeDownstream
    <3>2. Len(id) > 1 /\ id[1] = a
      BY <1>2, <3>1, PrefixedIs
    <3>3. a = b
      BY <1>2, <1>3, <3>2, CatalogBackendIs
    <3> QED BY <1>5, <2>2, <3>3
  <2> QED BY <1>7, <2>1, <2>2
<1>8. ASSUME NEW s \in seedModelsFromEnv(reg), id = s.id,
             IsModelAllowed(reg.backends[s.backend], s.id)
      PROVE  FALSE
  <2>1. id \in mergeSeedModels(reg, FALSE)
    BY <1>8 DEF mergeSeedModels
  <2> QED BY <2>1, PartOfEverything
<1> QED BY <1>1, <1>7, <1>8, EverythingComesFrom

(* A retrieve finds every listed model.                                    *)
LEMMA ListedAreRetrievable ==
  ASSUME IInv, Serving
  PROVE  ListedIsRetrievable
<1> SUFFICES ASSUME NEW surface \in Surfaces, NEW id \in Listed(surface), ~Borrowed(surface, id)
             PROVE  serveModelRetrieve(reg, Inventories(reg, cache), FALSE, surface, id)
  BY DEF ListedIsRetrievable
<1> DEFINE b   == retrieveBackend(reg, surface, id)
           few == collectModelsForRetrieve(reg, Inventories(reg, cache), FALSE, surface, id)
<1>1. /\ id \in modelsForSurface(reg, Everything, surface)
      /\ surface = "systemone" => systemOneAPIEnabled(reg)
  BY DEF Listed, serveModelsList, Everything
<1>2. id \in modelsForSurface(reg, few, surface)
  <2>1. CASE id \in routerCatalogModels(reg)
    <3>1. few = routerCatalogModels(reg)
      BY <2>1 DEF collectModelsForRetrieve
    <3>2. few \subseteq Everything
      BY <3>1 DEF Everything, collectModels
    <3> HIDE DEF few
    <3> QED BY <1>1, <2>1, <3>1, <3>2, FewerKeep
  <2>2. CASE id \notin routerCatalogModels(reg) /\ b \in DOMAIN reg.backends
    <3>1. few = Part(b)
      BY <2>2 DEF collectModelsForRetrieve, Part
    <3>2. id \in Part(b) /\ Part(b) \subseteq Everything
      BY <2>2, FoundAlone, PartOfEverything
    <3> HIDE DEF few
    <3> QED BY <1>1, <3>1, <3>2, FewerKeep
  <2>3. CASE id \notin routerCatalogModels(reg) /\ b \notin DOMAIN reg.backends
    BY <1>1, <2>3 DEF collectModelsForRetrieve, Everything
  <2> QED BY <2>1, <2>2, <2>3
<1> HIDE DEF few
<1> QED BY <1>1, <1>2 DEF serveModelRetrieve, few

(* A gate that lets a public id pass lets its alias pass, unless it does   *)
(* so for an entry that repeats the backend's name.                        *)
LEMMA AliasPassesGate ==
  ASSUME IInv, Serving, NEW b \in DOMAIN reg.backends,
         \A e \in reg.backends[b].allow : Prefixed(b, e) => ~Doubled(e),
         NEW x \in Model, IsModelAllowed(reg.backends[b], x),
         ~Prefixed(b, NormalizeDownstream(b, x)), ~Blank(NormalizeDownstream(b, x))
  PROVE  IsModelAllowed(reg.backends[b], NormalizeDownstream(b, x))
<1> DEFINE allow == reg.backends[b].allow
           id    == NormalizeDownstream(b, x)
<1>1. b \in Text /\ reg.backends[b].id = b /\ allow \in SUBSET Model
  BY ServingIs, BackendIs
<1>2. id \in Model
  BY DownstreamIs
<1>3. CASE ~Prefixed(b, x)
  BY <1>3, DownstreamIs
<1>4. CASE Prefixed(b, x) /\ ~reg.backends[b].gated
  BY <1>4 DEF IsModelAllowed
<1>5. CASE Prefixed(b, x) /\ reg.backends[b].gated
  <2>1. x = <<b>> \o id
    BY <1>5, DownstreamIs
  <2>2. ModelInAllowList(b, <<b>> \o id, allow)
    BY <1>1, <1>5, <2>1 DEF IsModelAllowed
  <2> HIDE DEF id
  <2>3. PICK e \in allow : e \in {id, <<b>> \o id, <<b>> \o (<<b>> \o id)}
    BY <1>1, <1>2, <2>2, PublicInAllowList DEF id
  <2>4. e # <<b>> \o (<<b>> \o id)
    <3> SUFFICES ASSUME e = <<b>> \o (<<b>> \o id) PROVE FALSE
      OBVIOUS
    <3>1. <<b>> \o id \in Model /\ Prefixed(b, <<b>> \o id) /\ <<b>> \o id # NoModel
      BY <1>1, <1>2, <2>1, <1>5, PrefixedIs DEF Blank
    <3> DEFINE once == <<b>> \o id
    <3> HIDE DEF once
    <3>2. Prefixed(b, e) /\ Tail(e) = once /\ e[1] = b
      BY <1>1, <3>1, Cons, TailCons, PrefixedCons DEF once
    <3> QED BY <3>1, <3>2 DEF Doubled, once
  <2>5. NormalizeDownstream(b, id) = id /\ ~Blank(id)
    BY <1>2, DownstreamIs DEF id
  <2>6. ~Blank(e)
    BY <1>1, <2>1, <2>3, <2>4, <2>5, <1>5, PrefixedIs
  <2>7. ModelInAllowList(b, id, allow)
    <3>1. {id, NormalizeDownstream(b, id)} \cap {e, NormalizeDownstream(b, e)} # {}
          \/ e = <<b>> \o NormalizeDownstream(b, id)
      BY <2>3, <2>4, <2>5
    <3> QED BY <2>5, <2>6, <3>1 DEF ModelInAllowList
  <2> QED BY <1>1, <2>7 DEF IsModelAllowed, id
<1> QED BY <1>3, <1>4, <1>5

(* A slot dials its default backend for an id that names no backend and    *)
(* that the backend's gate lets pass.                                      *)
LEMMA BareIsDialled ==
  ASSUME IInv, Serving, NEW s \in {"chat", "vision", "embed", "tts", "stt"}, reg.slots[s].on,
         NEW id, Bare(id), IsModelAllowed(reg.backends[Effective(reg, s)], id)
  PROVE  SlotAnswer(reg, s, id) = Dial(Effective(reg, s), id)
<1> DEFINE d  == Effective(reg, s)
           to == Dial(d, id)
<1>1. d # NoId /\ requireBackend(reg, d, s)
  BY DefaultIs DEF SlotCapability, Slots
<1>2. /\ ~Blank(id) /\ id # NoModel /\ ~parseNamedRouterModel(id)
      /\ ~(Len(id) > 1 /\ id[1] \in DOMAIN reg.backends)
  <2>1. ~Blank(id) /\ (Len(id) > 1 => id[1] \notin DOMAIN reg.backends \cup {reservedBackendID})
    BY DEF Bare
  <2>2. id # NoModel
    BY <2>1, Zenon DEF Blank
  <2>3. Len(id) = 2 => Len(id) > 1
    OBVIOUS
  <2>4. ~parseNamedRouterModel(id)
    BY <2>1, <2>3, Zenon DEF parseNamedRouterModel
  <2> QED BY <2>1, <2>2, <2>4
<1>3. resolveCapability(reg, s, d, id) = to
  BY <1>1, <1>2 DEF resolveCapability, checkDefaultBackend
<1>4. ensureModelAllowed(reg, to, id) = to
  BY DEF ensureModelAllowed, Dial
<1>5. speechTarget(reg, s, to) = to
  BY <1>2 DEF speechTarget, Dial
<1>6. CASE s = "chat"
  BY <1>1, <1>2, <1>3, <1>4, <1>6 DEF SlotAnswer, serveChatCompletions
<1>7. CASE s = "vision"
  BY <1>1, <1>2, <1>3, <1>4, <1>7 DEF SlotAnswer, serveChatCompletions, ResolveVision
<1>8. CASE s = "embed"
  BY <1>1, <1>3, <1>4, <1>8 DEF SlotAnswer, serveEmbeddings
<1>9. CASE s = "tts"
  BY <1>2, <1>3, <1>4, <1>5, <1>9 DEF SlotAnswer, serveSpeech
<1>10. CASE s = "stt"
  BY <1>2, <1>3, <1>4, <1>5, <1>10 DEF SlotAnswer, serveTranscription
<1> QED BY <1>6, <1>7, <1>8, <1>9, <1>10

(* A bare id of the OpenAI list is dialled at the default backend whose    *)
(* list brought it, by the endpoint whose default that is.                 *)
LEMMA AliasesAreServed ==
  ASSUME IInv, Serving
  PROVE  ListedAliasIsServed
<1> SUFFICES ASSUME NEW s \in {"chat", "vision", "embed", "tts", "stt"}, reg.slots[s].on,
                    \A e \in reg.backends[Effective(reg, s)].allow :
                       Prefixed(Effective(reg, s), e) => ~Doubled(e),
                    NEW x \in Brings(Effective(reg, s)),
                    IsModelAllowed(reg.backends[Effective(reg, s)], x),
                    Bare(NormalizeDownstream(Effective(reg, s), x))
             PROVE  SlotAnswer(reg, s, NormalizeDownstream(Effective(reg, s), x))
                      = Dial(Effective(reg, s), NormalizeDownstream(Effective(reg, s), x))
  BY DEF ListedAliasIsServed
<1> DEFINE b  == Effective(reg, s)
           id == NormalizeDownstream(b, x)
<1>1. b \in DOMAIN reg.backends
  BY DefaultIs DEF requireBackend, Slots
<1> HIDE DEF b
<1>2. x \in Model
  BY <1>1, InventoryIs DEF Brings, b
<1>3. id \in Model /\ ~Blank(id)
  BY <1>2, DownstreamIs DEF Bare, b
<1>4. ~Prefixed(b, id)
  BY <1>1, <1>3, PrefixedIs DEF Bare, b
<1>5. IsModelAllowed(reg.backends[b], id)
  BY <1>1, <1>2, <1>3, <1>4, AliasPassesGate DEF b
<1> QED BY <1>5, BareIsDialled DEF b

(* The list, the retrieve of one backend and the dispatch agree on whose   *)
(* model an id is, for every config that was accepted and any inventories, *)
(* but for the ids that one backend's list brings and the gateway takes    *)
(* for another's (Borrowed).                                               *)
THEOREM ListedModelsAreServed == Spec => []ListedIsServed
<1>1. IInv => ListedIsServed
  <2> SUFFICES ASSUME IInv PROVE ListedIsServed
    OBVIOUS
  <2>1. CASE Serving
    BY <2>1, ListedAreRetrievable, DecisionsAreServed, ChatPassesGate, AliasesAreServed
       DEF ListedIsServed
  <2>2. CASE ~Serving
    BY <2>2 DEF ListedIsServed, ListedIsRetrievable, ListedDecisionIsServed, ListedChatPassesGate,
                ListedAliasIsServed
  <2> QED BY <2>1, <2>2
<1> QED BY <1>1, InvariantHolds, PTL

===============================================================================
