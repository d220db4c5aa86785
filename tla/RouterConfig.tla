----------------------------- MODULE RouterConfig -----------------------------
(***************************************************************************)
(* From the operator's config file and environment to the table the        *)
(* gateway routes by: config.LoadRouterConfig, the overlay of allowed      *)
(* models, router.NewRegistry and the routes.toml rendered for Switchyard. *)
(*                                                                         *)
(* Every check of the code ends in one of two ways, so a check is a        *)
(* predicate and its message is left out; the order of two checks that     *)
(* both refuse tells nothing apart.  What the code computes when no check  *)
(* refuses is a value.                                                     *)
(*                                                                         *)
(* The input in:                                                           *)
(*   found, explicit  a file is there; its path was given, not discovered  *)
(*   sound       it reads and decodes, its secrets, timeouts, headers and  *)
(*               UI proxies are accepted                                   *)
(*   file        [slots, backends, routers, reject]; a slot is             *)
(*               [on |-> "unset" | "on" | "off", default]                  *)
(*   env         the POLYPUS_DEFAULT_<slot>_BACKEND of each slot           *)
(*   backendURL  --backend or POLYPUS_BACKEND_URL                          *)
(*   speechModel POLYPUS_DEFAULT_MODEL and POLYPUS_DEFAULT_STT_MODEL, as   *)
(*               a function of {"tts", "stt"}                              *)
(*   switchyard  POLYPUS_SWITCHYARD: "on" (its default), "off", or "odd",   *)
(*               a word the program does not know                          *)
(* A base URL is one of the kinds the checks tell apart, UrlKinds.         *)
(***************************************************************************)
EXTENDS ModelNames, TLC

CONSTANTS IdOrder      \* the backend ids, in the order they sort in

NoId    == "none"
mlxLocalID == "mlx_local"
openRouterBackendID == "openrouter"
reservedBackendID == "router"

\* "" is a missing URL, "odd" one whose scheme is not http(s), "accountless" a
\* Cloudflare URL without an account; "bad" has no scheme or no host.
UrlKinds == {"", "bad", "odd", "loopback", "lan", "openai", "anthropic",
             "gemini", "cloudflare", "accountless", "openrouter", "remote"}

Capabilities == {"chat", "vision", "embed", "tts", "stt", "voices",
                 "systemone", "batch"}
Slots == {"chat", "vision", "embed", "tts", "stt", "proxy", "systemone", "batch"}
SlotCapability(s) == IF s = "proxy" THEN "voices" ELSE s
SpeechSlots == {"tts", "stt", "proxy"}

\* The first of a set of ids, as the code picks after sorting.
First(ids) == LET i == CHOOSE j \in DOMAIN IdOrder :
                          /\ IdOrder[j] \in ids
                          /\ \A k \in 1 .. j - 1 : IdOrder[k] \notin ids
              IN  IF ids = {} THEN NoId ELSE IdOrder[i]

-----------------------------------------------------------------------------
(* Routes of named routers.  A route is [type, given, valid, target,       *)
(* capable, efficient, classifier, targets, list, defaultTarget]: given    *)
(* names the fields the file writes, valid says that those that hold       *)
(* neither a leaf nor a name (picker, threshold, prompt, schema, policy,   *)
(* numbers) have values their checks accept, and targets is a list         *)
(* (list = TRUE) or a mapping from names to leaves.                        *)

RouteFields ==
  [passthrough    |-> {"target"},
   stage_router   |-> {"capable", "efficient", "picker", "confidence_threshold"},
   llm_classifier |-> {"mode", "classifier", "targets", "default_target",
                       "prompt", "response_schema", "policy"},
   fallback       |-> {"targets"}]
OptionalFields ==
  [passthrough    |-> {},
   stage_router   |-> {"recent_turn_window"},
   llm_classifier |-> {"recent_turn_window", "session_affinity",
                       "message_hash_fallback", "max_output_tokens"},
   fallback       |-> {}]

ClassifierTargetName(name)  == name \o "_classifier"
FallbackTargetName(name, i) == name \o "_" \o ToString(i - 1)

parseFallbackRoute(r) ==
    /\ r.list
    /\ Len(r.targets) >= 2
    /\ \A i, j \in DOMAIN r.targets : i # j => r.targets[i] # r.targets[j]
    /\ \A i \in DOMAIN r.targets : ~Blank(r.targets[i])

parseClassifierTargets(name, r) ==
    /\ ClassifierTargetName(name) \notin DOMAIN r.targets
    /\ \A t \in DOMAIN r.targets : ~Blank(r.targets[t])

validateClassifierKnobs(r) ==
    "message_hash_fallback" \in r.given => "session_affinity" \in r.given

parseLLMClassifierRoute(name, r) ==
    /\ ~r.list
    /\ Cardinality(DOMAIN r.targets) >= 2
    /\ parseClassifierTargets(name, r)
    /\ r.defaultTarget \in DOMAIN r.targets
    /\ validateClassifierKnobs(r)

parseRouterRoute(name, r) ==
    /\ r.type \in DOMAIN RouteFields
    /\ RouteFields[r.type] \subseteq r.given
    /\ r.given \subseteq RouteFields[r.type] \cup OptionalFields[r.type]
    /\ r.valid
    /\ r.type = "fallback"       => parseFallbackRoute(r)
    /\ r.type = "llm_classifier" => parseLLMClassifierRoute(name, r)

\* The leaves a route dials, each with the Switchyard target it is emitted
\* under (NoId for a passthrough, which the gateway serves itself).
routeLeaves(name, r) ==
    CASE r.type = "passthrough"  -> {[leaf |-> r.target, target |-> NoId]}
      [] r.type = "stage_router" ->
           {[leaf |-> r.capable,   target |-> name \o "_capable"],
            [leaf |-> r.efficient, target |-> name \o "_efficient"]}
      [] r.type = "llm_classifier" ->
           {[leaf |-> r.classifier, target |-> ClassifierTargetName(name)]}
           \cup {[leaf |-> r.targets[t], target |-> t] : t \in DOMAIN r.targets}
      [] OTHER ->
           {[leaf |-> r.targets[i], target |-> FallbackTargetName(name, i)] :
              i \in DOMAIN r.targets}

isComposed(r) == r.type # "passthrough"

-----------------------------------------------------------------------------
(* The file.  A parsed config c is [slots, batchSpecified, backends,       *)
(* routers, reject, speechModel, switchyard]; a slot is now [on : BOOLEAN, default].   *)

parseBackendEntry(e) == e.caps \subseteq Capabilities /\ e.url # "bad"

defaultRouterFromEnv(in) ==
  [slots |-> [s \in Slots |-> IF s \in SpeechSlots
                              THEN [on |-> TRUE,  default |-> mlxLocalID]
                              ELSE [on |-> FALSE, default |-> NoId]],
   batchSpecified |-> FALSE, reject |-> TRUE, speechModel |-> in.speechModel,
   switchyard |-> in.switchyard = "on",
   routers  |-> <<>>,
   backends |-> [b \in {mlxLocalID} |->
      [id |-> b, caps |-> {"tts", "stt", "voices"}, ext |-> "",
       remote |-> FALSE, url |-> IF in.backendURL = "" THEN "loopback" ELSE in.backendURL,
       cred |-> TRUE, gated |-> FALSE, allow |-> {}, sysGated |-> FALSE,
       sysAllow |-> {}, sync |-> TRUE]]]

\* The file is refused, or read into a config.
fileAccepted(in) ==
    /\ in.sound
    /\ DOMAIN in.file.backends # {}
    /\ \A b \in DOMAIN in.file.backends : parseBackendEntry(in.file.backends[b])
    /\ \A n \in DOMAIN in.file.routers : parseRouterRoute(n, in.file.routers[n].route)

withID(b, e) == [field \in DOMAIN e \cup {"id"} |-> IF field = "id" THEN b ELSE e[field]]

loadRouterFileAt(in) ==
  [slots |-> [s \in Slots |-> [on      |-> in.file.slots[s].on = "on",
                               default |-> in.file.slots[s].default]],
   batchSpecified |-> in.file.slots["batch"].on # "unset",
   reject   |-> in.file.reject, speechModel |-> in.speechModel,
   switchyard |-> in.switchyard = "on",
   routers  |-> in.file.routers,
   backends |-> [b \in DOMAIN in.file.backends |-> withID(b, in.file.backends[b])]]

\* The environment names a slot's backend and so turns the slot on.
applyRouterEnvOverrides(c, in) ==
  [c EXCEPT
     !.slots = [s \in Slots |-> IF in.env[s] = NoId THEN c.slots[s]
                                ELSE [on |-> TRUE, default |-> in.env[s]]],
     !.batchSpecified = @ \/ in.env["batch"] # NoId,
     !.backends = [b \in DOMAIN @ |->
                     IF b = mlxLocalID /\ in.backendURL # ""
                     THEN [@[b] EXCEPT !.url = in.backendURL] ELSE @[b]]]

-----------------------------------------------------------------------------
(* Normalisation: one slot after the other, in the order chat, vision,     *)
(* embed, tts, stt, proxy, systemone, batch.                               *)

withDefault(c, s, b) == [c EXCEPT !.slots[s].default = b]

inheritTTSDefault(c, s) ==
    LET tts == c.slots["tts"]
    IN  IF s \in {"stt", "proxy"} /\ c.slots[s].on /\ c.slots[s].default = NoId /\ tts.on
        THEN withDefault(c, s, tts.default) ELSE c

\* An enabled slot that still has no default is left without one: the code
\* refuses the config there, DefaultsPicked.
normalizeCapabilityBackend(c, s) ==
    LET slot == c.slots[s]
    IN  IF ~slot.on THEN withDefault(c, s, NoId)
        ELSE IF slot.default = NoId /\ s \in SpeechSlots /\ mlxLocalID \in DOMAIN c.backends
             THEN withDefault(c, s, mlxLocalID)
             ELSE c

IsCloudflare(c, b) == b \in DOMAIN c.backends /\ c.backends[b].ext = "cloudflare"

firstCloudflareBackendID(c) ==
    LET chat == c.slots["chat"].default
    IN  IF IsCloudflare(c, chat) THEN chat
        ELSE First({ b \in DOMAIN c.backends : IsCloudflare(c, b) })

ensureCapability(c, b, cap) == [c EXCEPT !.backends[b].caps = @ \cup {cap}]

\* Cloudflare batch is on when the file and the environment say nothing of it.
fillDefaultBatchBackend(c) ==
    LET named == c.slots["batch"].default
        id    == IF named # NoId THEN named ELSE firstCloudflareBackendID(c)
        on    == IF c.batchSpecified THEN c
                 ELSE [c EXCEPT !.slots["batch"] = [on |-> TRUE, default |-> id]]
    IN  IF ~IsCloudflare(c, id) THEN c
        ELSE IF on.slots["batch"].on THEN ensureCapability(on, id, "batch") ELSE on

normalizeSlot(c, s) == normalizeCapabilityBackend(inheritTTSDefault(c, s), s)

normalizeSlots(c) ==
    LET text   == normalizeSlot(normalizeSlot(normalizeSlot(c, "chat"), "vision"), "embed")
        speech == normalizeSlot(normalizeSlot(normalizeSlot(text, "tts"), "stt"), "proxy")
        batch  == fillDefaultBatchBackend(normalizeSlot(speech, "systemone"))
    IN  normalizeCapabilityBackend(batch, "batch")

-----------------------------------------------------------------------------
(* The checks of the normalised config.                                    *)

baseURLOptional(b)   == b.ext \in {"gemini", "anthropic", "typesafe"}
hasSystemOneRoute(b) == b.ext \in {"cloudflare", "typesafe"} \/ b.id = openRouterBackendID

normalizeBackends(c) ==
    \A id \in DOMAIN c.backends :
       LET b == c.backends[id]
       IN  /\ b.url = "" => baseURLOptional(b)
           /\ b.remote => b.cred
           /\ b.caps # {}
           /\ HasCapability(b, "systemone") => hasSystemOneRoute(b)
           /\ b.gated    => \A e \in b.allow    : ~Blank(e)
           /\ b.sysGated => \A e \in b.sysAllow : ~Blank(e)

requireBackend(c, id, cap) ==
    id \in DOMAIN c.backends /\ HasCapability(c.backends[id], cap)

\* Every enabled slot has a default, and it serves the slot's capability.
DefaultsPicked(c) ==
    \A s \in Slots :
       c.slots[s].on => /\ c.slots[s].default # NoId
                        /\ requireBackend(c, c.slots[s].default, SlotCapability(s))

\* A leaf is "<backend>/<model>".
splitLeafModel(leaf) ==
    /\ Len(leaf) >= 2
    /\ leaf[1] # ""
    /\ ~Blank(Tail(leaf))

validateChatLeaf(c, leaf) ==
    /\ splitLeafModel(leaf)
    /\ leaf[1] # reservedBackendID
    /\ leaf[1] \in DOMAIN c.backends
    /\ LET b == c.backends[leaf[1]]
       IN  /\ HasCapability(b, "chat")
           /\ IsModelAllowed(b, Tail(leaf)) \/ IsModelAllowed(b, leaf)

validateRouters(c) ==
    /\ reservedBackendID \notin DOMAIN c.backends
    /\ \A n \in DOMAIN c.routers :
          /\ c.routers[n].capability = "chat"
          /\ \A l \in routeLeaves(n, c.routers[n].route) : validateChatLeaf(c, l.leaf)
    /\ \A n, o \in DOMAIN c.routers : n # o =>
          \A l \in routeLeaves(n, c.routers[n].route),
             k \in routeLeaves(o, c.routers[o].route) :
                l.target = k.target => l.target = NoId

parsed(in) == applyRouterEnvOverrides(IF in.found THEN loadRouterFileAt(in)
                                      ELSE defaultRouterFromEnv(in), in)

\* What a load that refuses nothing returns.
LoadRouterConfig(in) == normalizeSlots(parsed(in))

\* The load refuses nothing.
Accepted(in) ==
    /\ in.explicit => in.found
    /\ in.found => fileAccepted(in)
    /\ in.switchyard # "odd"
    /\ LET c == LoadRouterConfig(in)
       IN  normalizeBackends(c) /\ DefaultsPicked(c) /\ validateRouters(c)

-----------------------------------------------------------------------------
(* The registry's own check of every backend.                              *)

BlockedCloudHosts == {"openai", "anthropic", "gemini"}

validateBackend(b, reject) ==
    CASE b.ext = "gemini"    -> b.url \in {"", "gemini"}
      [] b.ext = "anthropic" -> b.url \in {"", "anthropic"}
      [] OTHER ->
           /\ b.url \notin {"", "bad", "odd"} \cup BlockedCloudHosts
           /\ ~b.remote /\ reject => b.url = "loopback"

addBackend(b, reject) ==
    /\ validateBackend(b, reject)
    /\ b.ext = "cloudflare" => b.url = "cloudflare"

RegistryAccepts(c) == \A id \in DOMAIN c.backends : addBackend(c.backends[id], c.reject)

\* Mutant: the overlay is read and forgotten.
ApplyAllowOverlayToNone(c, overlay) == c

\* The overlay's entries join the lists of the gated backends it names.
withEntries(b, entries) ==
    [b EXCEPT !.allow = @ \cup
        { NormalizeDownstream(b.id, e) :
            e \in { x \in entries : ~Blank(x) /\ ~ModelInAllowList(b.id, x, b.allow) } }]

ApplyAllowOverlay(c, overlay) ==
    [c EXCEPT !.backends = [id \in DOMAIN @ |->
        IF id \in DOMAIN overlay /\ @[id].gated THEN withEntries(@[id], overlay[id]) ELSE @[id]]]

-----------------------------------------------------------------------------
(* What the rest of the gateway reads of the table.                        *)

\* The default backend of a slot; none when the slot is off.
Effective(c, s) == IF c.slots[s].on THEN c.slots[s].default ELSE NoId

\* The backend the catch-all proxy sends to.
ProxyBackend(c) ==
    LET voices == { b \in DOMAIN c.backends : HasCapability(c.backends[b], "voices") }
    IN  IF Effective(c, "proxy") \in DOMAIN c.backends THEN Effective(c, "proxy")
        ELSE First(IF voices # {} THEN voices ELSE DOMAIN c.backends)

\* routes.toml: every target with the leaf it sends to, and every route with
\* the targets it may pick.  Two writers of one target leave it either leaf.
Render(c) ==
    LET composed == { n \in DOMAIN c.routers : isComposed(c.routers[n].route) }
    IN  [targets |-> UNION { routeLeaves(n, c.routers[n].route) : n \in composed },
         routes  |-> [n \in composed |-> { l.target : l \in routeLeaves(n, c.routers[n].route) }]]
===============================================================================
