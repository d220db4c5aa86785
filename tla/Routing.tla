-------------------------------- MODULE Routing --------------------------------
(***************************************************************************)
(* One gateway from its config to its answers: it loads the config,        *)
(* applies the overlay of allowed models, builds its registry, and then    *)
(* routes requests by it while an operator allows further models and the   *)
(* upstreams' lists change.  A crash or a restart loses everything but the *)
(* overlay file and the inventory cache on disk, which may be lost too.    *)
(*                                                                         *)
(* A request reads one snapshot of the registry, so its answer is a        *)
(* function of the state, not an action.  The steps inside an allow or a   *)
(* list request, and their interleaving, are module ModelCatalog's; here   *)
(* each is one step.                                                       *)
(***************************************************************************)
EXTENDS ModelLists, ProviderLists, BifrostAccount

CONSTANTS Inputs,      \* the config files and environments to try
          Upstream,    \* Upstream[b]: the histories of answers b may give a fetch
          Asked        \* the <<backend, model>> pairs an operator may allow

VARIABLES in,        \* the operator's input
          phase,     \* "down", "loaded", "refused", "failed", "serving"
          reg,       \* the registry's snapshot
          account,   \* what Bifrost was told of the backends
          cache,     \* the inventory cache: the list held for a backend
          steady,    \* ghost: models listed all through the fetch it came from
          overlay,   \* the overlay file: the models allowed for a backend
          acked      \* the allow requests answered with success

vars == <<in, phase, reg, account, cache, steady, overlay, acked>>

Ids == { IdOrder[i] : i \in DOMAIN IdOrder }

-----------------------------------------------------------------------------
(* What the constants are.                                                 *)

Text  == STRING
Model == Seq(Text)

Entry == [caps : SUBSET Text, ext : Text, remote : BOOLEAN, url : Text,
          cred : BOOLEAN, gated : BOOLEAN, allow : SUBSET Model,
          sysGated : BOOLEAN, sysAllow : SUBSET Model, sync : BOOLEAN]

\* A route, whatever it is worth: its leaves are model ids.
RouteOK(r) ==
    /\ {r.target, r.capable, r.efficient, r.classifier} \subseteq Model
    /\ \A t \in DOMAIN r.targets : r.targets[t] \in Model

\* Two ways to build a target's name do not build the same text, and NoId is
\* no text of the file's (it stands for the empty one).
TextsApart(n, r) ==
    /\ n \o "_capable" # n \o "_efficient"
    /\ r.list => \A i, j \in DOMAIN r.targets :
                    FallbackTargetName(n, i) = FallbackTargetName(n, j) => i = j
    /\ isComposed(r) => \A l \in routeLeaves(n, r) : l.target # NoId

InputOK(i) ==
    /\ i.env \in [Slots -> Text] /\ i.backendURL \in Text
    /\ i.speechModel \in [{"tts", "stt"} -> Model]
    /\ i.file.slots \in [Slots -> [on : Text, default : Text]]
    /\ DOMAIN i.file.backends \subseteq Ids
    /\ \A b \in DOMAIN i.file.backends : i.file.backends[b] \in Entry
    /\ \A n \in DOMAIN i.file.routers :
          /\ n \in Text /\ n # ""
          /\ RouteOK(i.file.routers[n].route)
          /\ parseRouterRoute(n, i.file.routers[n].route)
                => TextsApart(n, i.file.routers[n].route)

\* The words of the program are texts, which TLC knows and a prover is told.
ASSUME WordsAssumption ==
    Capabilities \cup {"", "@cf", "loopback", "plain", NoId, reservedBackendID} \subseteq Text

ASSUME IdsAssumption ==
    IdOrder \in Seq(Text) /\ mlxLocalID \in Ids /\ NoId \notin Ids

ASSUME InputsAssumption == \A i \in Inputs : InputOK(i)

\* A provider answers the first request with something, if only an error.
ASSUME UpstreamAssumption ==
    \A b \in Ids : \A history \in Upstream[b] :
       /\ history # <<>>
       /\ history \in Seq([form : Text, entries : Seq([name : Model, id : Model])])

ASSUME AskedAssumption == \A a \in Asked : a \in Ids \X Model

-----------------------------------------------------------------------------
Answer(kind) == [kind |-> kind, backend |-> NoId, model |-> NoModel]
Dial(b, m)   == [kind |-> "dial", backend |-> b, model |-> m]

-----------------------------------------------------------------------------
(* Where a request goes.                                                   *)

checkDefaultBackend(c, b, cap, m) ==
    IF b = NoId THEN Answer("invalid")
    ELSE IF requireBackend(c, b, cap) THEN Dial(b, m)
    ELSE Answer("not_ready")

\* "backend/model" names its backend, any other id goes to the default.
resolveCapability(c, cap, default, m) ==
    IF Blank(m) THEN IF cap \in {"tts", "stt"}
                     THEN checkDefaultBackend(c, default, cap, NoModel)
                     ELSE Answer("invalid")
    ELSE IF Len(m) > 1 /\ m[1] \in DOMAIN c.backends
         THEN IF HasCapability(c.backends[m[1]], cap) /\ ~Blank(Tail(m))
              THEN Dial(m[1], Tail(m)) ELSE Answer("invalid")
    ELSE checkDefaultBackend(c, default, cap, m)

ResolveVision(c, m) ==
    resolveCapability(c, "vision", IF Effective(c, "vision") = NoId THEN Effective(c, "chat")
                                   ELSE Effective(c, "vision"), m)

\* A resolved request passes the gate of its backend, by the id as it was sent.
ensureModelAllowed(c, r, m) ==
    IF r.kind # "dial" \/ IsModelAllowed(c.backends[r.backend], m) THEN r
    ELSE Answer("not_allowed")

parseNamedRouterModel(m) == Len(m) = 2 /\ m[1] = reservedBackendID /\ m[2] # ""

serveNamedRouterChat(c, m, vision) ==
    IF m[2] \notin DOMAIN c.routers \/ vision THEN Answer("invalid")
    ELSE LET route == c.routers[m[2]].route
         IN  IF isComposed(route) THEN Dial("switchyard", m)
             ELSE ensureModelAllowed(c,
                     resolveCapability(c, "chat", Effective(c, "chat"), route.target),
                     route.target)

serveChatCompletions(c, m, vision) ==
    IF Blank(m) THEN Answer("invalid")
    ELSE IF parseNamedRouterModel(m) THEN serveNamedRouterChat(c, m, vision)
    ELSE IF vision THEN ensureModelAllowed(c, ResolveVision(c, m), m)
    ELSE IF Effective(c, "chat") = NoId THEN Answer("not_ready")
    ELSE ensureModelAllowed(c, resolveCapability(c, "chat", Effective(c, "chat"), m), m)

serveEmbeddings(c, m) ==
    IF Effective(c, "embed") = NoId THEN Answer("not_ready")
    ELSE ensureModelAllowed(c, resolveCapability(c, "embed", Effective(c, "embed"), m), m)

\* Speech may omit the model, and the environment's is dialled.
speechTarget(c, s, r) ==
    IF r.kind = "dial" /\ r.model = NoModel THEN Dial(r.backend, c.speechModel[s]) ELSE r

\* The gate is for a model that is named.
serveSpeech(c, m) ==
    LET r == resolveCapability(c, "tts", Effective(c, "tts"), m)
    IN  speechTarget(c, "tts", IF Blank(m) THEN r ELSE ensureModelAllowed(c, r, m))

serveTranscription(c, m) ==
    LET r == resolveCapability(c, "stt", Effective(c, "stt"), m)
    IN  speechTarget(c, "stt", IF Blank(m) THEN r ELSE ensureModelAllowed(c, r, m))

\* Mutant: models.allow gates decisions as well.
ensureSystemOneAllowedAsChat(c, r, publicModel) ==
    IF r.kind # "dial" THEN r ELSE ensureModelAllowed(c, r, publicModel)

ensureSystemOneAllowed(c, r, publicModel) ==
    IF r.kind # "dial" THEN r
    ELSE IF HasCapability(c.backends[r.backend], "systemone")
         THEN IF IsSystemOneDownstream(c.backends[r.backend], r.model) THEN r
              ELSE Answer("not_allowed")
         ELSE ensureModelAllowed(c, r, publicModel)

\* A decision for a backend that has no decision route is refused, not dialled.
serveSystemOne(c, m) ==
    LET asked == IF Blank(m) THEN DefaultSystemOneDownstream ELSE m
        r == resolveCapability(c, "systemone", Effective(c, "systemone"), asked)
        public == IF Blank(m) THEN prefixModelID(r.backend, r.model) ELSE m
        gated  == ensureSystemOneAllowed(c, r, public)
    IN  IF ~systemOneAPIEnabled(c) THEN Answer("not_ready")
        ELSE IF gated.kind = "dial" /\ ~hasSystemOneRoute(c.backends[gated.backend])
             THEN Answer("invalid") ELSE gated

serveBatchCreate(c, m) ==
    LET r == resolveCapability(c, "batch", Effective(c, "batch"), m)
    IN  IF Effective(c, "batch") = NoId THEN Answer("not_ready")
        ELSE ensureModelAllowed(c, r, IF Len(m) > 1 THEN m ELSE prefixModelID(r.backend, r.model))

-----------------------------------------------------------------------------
(* The list the gateway holds for a backend, when it need not dial it.     *)

\* These list their models through a client of their own, and have no seeds.
hasCatalogClient(b) == b.ext \in {"gemini", "anthropic", "cloudflare"}

inventoryForBackend(c, held, b) ==
    LET def   == c.backends[b]
        seeds == IF ~def.sync \/ hasCatalogClient(def) THEN {} ELSE seedModelsForBackend(c, b)
    IN  IF def.sync /\ held[b] # {} THEN held[b]
        ELSE mergeEnabledSyntheticMissing(def, seeds)

Inventories(c, held) == [b \in DOMAIN c.backends |-> inventoryForBackend(c, held, b)]

\* A refresh: the upstream's list and the allowed models it lacks.
refreshBackend(c, b, live) ==
    IF live = {} THEN cache
    ELSE [cache EXCEPT ![b] = mergeEnabledSyntheticMissing(c.backends[b], live)]

\* The entries the provider had in its list all the time, as public ids.
Steady(b, history) ==
    LET id(e) == CASE b.ext = "cloudflare" -> cloudflareID(e)
                   [] b.ext = "gemini"     -> normalizeModelID(e.id)
                   [] OTHER                -> e.id
        listed(i) == { id(history[i].entries[k]) : k \in DOMAIN history[i].entries }
    IN  { prefixModelID(b.id, m) :
            m \in { x \in listed(1) : x # NoModel /\ \A i \in DOMAIN history : x \in listed(i) } }

\* What two lists both have they have in the same order, and each has it once.
KeepsOrder(lists) ==
    \A i, j \in DOMAIN lists :
       \A p, q \in DOMAIN lists[i], r, s \in DOMAIN lists[j] :
          lists[i][p] = lists[j][r] /\ lists[i][q] = lists[j][s] => (p < q <=> r < s)

Entries(history) == [i \in DOMAIN history |-> history[i].entries]
EntryIDs(history) ==
    [i \in DOMAIN history |-> [k \in DOMAIN history[i].entries |-> history[i].entries[k].id]]

\* Nothing that a list has goes away: Cloudflare is read by page number, so what
\* comes after a model that goes away between two requests moves up, and one
\* is passed over.
OnlyGrows(lists) ==
    \A i, j \in DOMAIN lists : i < j =>
       \A p \in DOMAIN lists[i] : \E r \in DOMAIN lists[j] : lists[j][r] = lists[i][p]

\* What a provider of several pages must keep to while it is asked for them.
\* A page of Anthropic's that ends in a blank id is taken for the last one.
Orderly(b, history) ==
    CASE b.ext = "cloudflare" -> KeepsOrder(Entries(history)) /\ OnlyGrows(Entries(history))
      [] b.ext = "anthropic"  ->
           /\ KeepsOrder(EntryIDs(history))
           /\ \A i \in DOMAIN history : \A k \in DOMAIN history[i].entries :
                 history[i].entries[k].id # NoModel
      [] OTHER -> TRUE

\* What a fetch owes the cache.  OpenRouter has two lists and the first request
\* is for the whole of one: when it fails, the decision models of the second
\* are cached alone, and nothing is owed (mergeOpenRouterDecisionModels).
Owed(b, history) ==
    IF isOpenRouterHost(b) /\ ~hasCatalogClient(b)
    THEN IF history[1].form = "plain" THEN Steady(b, <<history[1]>>) ELSE {}
    ELSE IF Orderly(b, history) THEN Steady(b, history) ELSE {}

\* The backend answers a fetch, and the list is cached unless there is none.
\* That a catalog client may answer with its copy of the list an earlier fetch
\* brought is left to module ModelCatalog.
Fetches(b, history) ==
    LET live == fetchBackendModels(reg.backends[b], history)
    IN  /\ cache' = refreshBackend(reg, b, live)
        /\ steady' = IF live = {} THEN steady
                     ELSE [steady EXCEPT ![b] = Owed(reg.backends[b], history)]

-----------------------------------------------------------------------------
Init == /\ in \in Inputs
        /\ phase = "down"
        /\ reg = <<>> /\ account = <<>>
        /\ cache = [b \in Ids |-> {}]
        /\ steady = [b \in Ids |-> {}]
        /\ overlay = <<>>
        /\ acked = {}

\* openRouter: the config is loaded and the overlay applied to it.
Load ==
    /\ phase = "down"
    /\ IF Accepted(in)
       THEN /\ phase' = "loaded"
            /\ reg' = ApplyAllowOverlay(LoadRouterConfig(in), overlay)
       ELSE phase' = "refused" /\ UNCHANGED reg
    /\ UNCHANGED <<in, account, cache, steady, overlay, acked>>

\* router.NewClient: the registry checks the backends again, and Bifrost is
\* given its account of them.
NewClient ==
    /\ phase = "loaded"
    /\ IF RegistryAccepts(reg)
       THEN phase' = "serving" /\ account' = newAccount(reg)
       ELSE phase' = "failed" /\ UNCHANGED account
    /\ UNCHANGED <<in, reg, cache, steady, overlay, acked>>

\* A warm pass, or a list request with nothing cached, dials a backend.
Refresh(b) ==
    /\ phase = "serving"
    /\ b \in DOMAIN reg.backends
    /\ reg.backends[b].sync
    /\ \E history \in Upstream[b] : Fetches(b, history)
    /\ UNCHANGED <<in, phase, reg, account, overlay, acked>>

\* The entry of a backend outlives its TTL.
Expire(b) ==
    /\ phase = "serving"
    /\ cache[b] # {}
    /\ cache' = [cache EXCEPT ![b] = {}]
    /\ steady' = [steady EXCEPT ![b] = {}]
    /\ UNCHANGED <<in, phase, reg, account, overlay, acked>>

parseAllowRequest(c, b, m) ==
    /\ b \in DOMAIN c.backends
    /\ c.backends[b].gated
    /\ ~Blank(m) /\ ~Blank(NormalizeDownstream(b, m))
    /\ m[1] # "" /\ Len(m) > 1 /\ m[1] # b => m[1] \notin DOMAIN c.backends

\* Mutant: the new entry replaces the list.
withAllowedModelAlone(c, b, m) ==
    [c EXCEPT !.backends[b].allow = {NormalizeDownstream(b, m)}]

withAllowedModel(c, b, m) ==
    LET down == NormalizeDownstream(b, m)
    IN  IF ModelInAllowList(b, down, c.backends[b].allow) THEN c
        ELSE [c EXCEPT !.backends[b].allow = @ \cup {down}]

OverlayAdd(b, down) ==
    LET had == IF b \in DOMAIN overlay THEN overlay[b] ELSE {}
    IN  [x \in DOMAIN overlay \cup {b} |-> IF x = b THEN had \cup {down} ELSE overlay[x]]

\* POST /v1/admin/models/allow: the model is looked for in a list fetched for
\* the purpose, the overlay is written and the registry changed.
AllowModel(b, m) ==
    /\ phase = "serving"
    /\ parseAllowRequest(reg, b, m)
    /\ LET backend == reg.backends[b]
           down    == NormalizeDownstream(b, m)
           already == \E id \in {m, down, prefixModelID(b, down)} : IsModelAllowed(backend, id)
       IN  \/ /\ already
              /\ UNCHANGED <<reg, cache, steady, overlay>>
           \/ /\ ~already
              /\ \/ backend.sync /\ \E history \in Upstream[b] : Fetches(b, history)
                 \/ ~backend.sync /\ UNCHANGED <<cache, steady>>
              /\ modelInInventory(b, down, m, inventoryForBackend(reg, cache', b))
              /\ overlay' = OverlayAdd(b, down)
              /\ reg' = withAllowedModel(reg, b, down)
    /\ acked' = acked \cup {<<b, m>>}
    /\ UNCHANGED <<in, phase, account>>

\* The process ends; the inventory's disk copy is kept or lost.
Restart ==
    /\ phase = "serving"
    /\ phase' = "down"
    /\ reg' = <<>> /\ account' = <<>>
    /\ \/ UNCHANGED <<cache, steady>>
       \/ cache' = [b \in Ids |-> {}] /\ steady' = [b \in Ids |-> {}]
    /\ UNCHANGED <<in, overlay, acked>>

Stopped == phase \in {"refused", "failed"} /\ UNCHANGED vars

Next == \/ Load \/ NewClient \/ Restart \/ Stopped
        \/ \E b \in Ids : Refresh(b) \/ Expire(b)
        \/ \E a \in Asked : AllowModel(a[1], a[2])

Spec == Init /\ [][Next]_vars

-----------------------------------------------------------------------------
(* Properties.                                                             *)

Serving == phase = "serving"

\* Every model in the overlay names something, for a backend there is, and
\* the inventories hold public ids.
TypeOK ==
    /\ phase \in {"down", "loaded", "refused", "failed", "serving"}
    /\ DOMAIN cache = Ids
    /\ \A b \in Ids : \A id \in cache[b] : Prefixed(b, id)
    /\ DOMAIN overlay \subseteq Ids
    /\ \A b \in DOMAIN overlay : overlay[b] # {} /\ \A m \in overlay[b] : ~Blank(m)
    /\ acked \subseteq Asked
    /\ phase \in {"loaded", "serving", "failed"} => DOMAIN reg.backends \subseteq Ids
    /\ DOMAIN account \subseteq Ids \cup {ProviderSwitchyard}

SlotAnswer(c, s, m) ==
    CASE s = "tts"             -> serveSpeech(c, m)
      [] s = "stt"             -> serveTranscription(c, m)
      [] s = "chat"            -> serveChatCompletions(c, m, FALSE)
      [] s = "vision"          -> serveChatCompletions(c, m, TRUE)
      [] s = "embed"           -> serveEmbeddings(c, m)
      [] s = "systemone"       -> serveSystemOne(c, m)
      [] s = "batch"           -> serveBatchCreate(c, m)

PlainModel == <<"plain">>

\* A gateway that came up serves what its config turned on: in every enabled
\* slot a plain model id reaches the slot's default backend or is turned away
\* by that backend's allow list, never "not ready" (checkDefaultBackend); the
\* proxy's backend has voices.
DefaultsServe ==
    Serving => \A s \in Slots : reg.slots[s].on =>
       IF s = "proxy" THEN HasCapability(reg.backends[ProxyBackend(reg)], "voices")
       ELSE SlotAnswer(reg, s, PlainModel) \in
               {Dial(Effective(reg, s), PlainModel), Answer("not_allowed")}

\* The models that name a backend, a router or nothing of the config.
Names(c) ==
    {PlainModel, NoModel} \cup {<<b>> \o PlainModel : b \in DOMAIN c.backends}
       \cup {RouterPublicID(n) : n \in DOMAIN c.routers}

Request == [chat |-> "chat", vision |-> "chat", embed |-> "embed", tts |-> "speech",
            stt |-> "transcription", systemone |-> "decision"]

\* What the registry sends to a backend Bifrost's account of it permits
\* (chatHandler.requireBifrost fails closed otherwise): the two tables are
\* built from the config by rules of their own, and only the registry changes
\* later.  Decisions for Workers AI go by its own client.  A backend of the
\* config's that is called "switchyard" is another matter: the account puts
\* Switchyard in its place.
DialIsCarried ==
    Serving /\ ProviderSwitchyard \notin DOMAIN reg.backends =>
    \A s \in DOMAIN Request : \A m \in Names(reg) :
       LET r == SlotAnswer(reg, s, m)
       IN  r.kind = "dial" =>
             \/ s = "systemone" /\ IsCloudflare(reg, r.backend)
             \/ Carries(reg, account, r.backend, Request[s])

Doubled(leaf) == Prefixed(leaf[1], Tail(leaf))

\* What validateChatLeaf promised at load holds of every later snapshot,
\* whatever operators allow: a passthrough router reaches the leaf it names,
\* and each leaf Switchyard calls back for reaches its backend.  A leaf that
\* repeats its backend's name is validated by one reading and dialled by the
\* other, and a chat slot that is off refuses the callbacks.
LeavesStayServable ==
    Serving => \A n \in DOMAIN reg.routers :
       LET route == reg.routers[n].route
       IN  \A l \in routeLeaves(n, route) : ~Doubled(l.leaf) =>
             LET reached == Dial(l.leaf[1], Tail(l.leaf))
             IN  IF isComposed(route)
                 THEN reg.slots["chat"].on => serveChatCompletions(reg, l.leaf, FALSE) = reached
                 ELSE serveChatCompletions(reg, RouterPublicID(n), FALSE) = reached

\* In the rendered routes.toml one target name stands for one leaf: no two
\* routers, nor two targets of one router, write the same table (render).
TargetNamesOneLeaf ==
    Serving => \A t, u \in Render(reg).targets : t.target = u.target => t.leaf = u.leaf

\* cloudflare/catalog.go: "a partial catalog would be cached as if it were
\* complete".  A list in the cache is a provider's whole list: every model it
\* had throughout the fetch is there, however many requests that took, and
\* whether one of them failed or the list was longer than the pages asked for.
\* Three lists are not whole always (Owed): one whose provider changed the order
\* of its models in between, or, for Cloudflare, removed one; one of
\* Anthropic's with a blank id in it; OpenRouter's when the first of its two
\* requests failed, where the second's part is cached alone.
CachedIsComplete ==
    Serving => \A b \in DOMAIN reg.backends : cache[b] # {} => steady[b] \subseteq cache[b]

\* What the load checked holds of what is served, in every later snapshot.
LoadIsHonoured == TypeOK /\ DefaultsServe /\ LeavesStayServable /\ TargetNamesOneLeaf

Listed(surface) == serveModelsList(reg, Inventories(reg, cache), FALSE, surface)

\* What a backend's list brings past its gates.
Brings(b) == { x \in inventoryForBackend(reg, cache, b) :
                 keepEnabledCatalogModel(reg.backends[b], x) }

\* An id that is listed and that the gateway then takes for another backend's:
\* one backend's list brought it, and it starts with the name of another, or is
\* on the SystemOne list, where what names no backend is the SystemOne
\* default's; and that backend has no such model.  The alias "typesafe/jev" of
\* "openrouter/typesafe/jev" is one, beside a backend called typesafe.  The
\* retrieve does not find such an id, and it is not dialled at the backend that
\* has the model (catalogModelBackend, retrieveBackend).
Borrowed(surface, id) ==
    LET b == catalogModelBackend(reg, id)
    IN  /\ surface = "systemone" \/ Prefixed(b, id)
        /\ {id, prefixModelID(b, id)} \cap Brings(b) = {}
        /\ \E a \in DOMAIN reg.backends :
              \E x \in Brings(a) \cup seedModelsForBackend(reg, a) :
                 NormalizeDownstream(a, x) = id

\* A client can retrieve by id each model it was listed, on each surface, but a
\* borrowed one, although a retrieve looks at one backend only
\* (retrieveBackend).
ListedIsRetrievable ==
    Serving => \A surface \in Surfaces : \A id \in Listed(surface) :
       \/ Borrowed(surface, id)
       \/ serveModelRetrieve(reg, Inventories(reg, cache), FALSE, surface, id)

\* A model on the SystemOne list is dialled when it is asked for, at the
\* backend and by the downstream id the list meant (ensureSystemOneAllowed).  An
\* id that starts like a router's stands for itself (catalogModelKey).
ListedDecisionIsServed ==
    Serving => \A id \in Listed("systemone") : ~Prefixed(reservedBackendID, id) =>
       LET r == serveSystemOne(reg, id)
       IN  r.kind = "dial" /\ <<r.backend>> \o r.model = catalogModelKey(reg, id)

\* A model the OpenAI list names with a chat backend's prefix is not refused
\* by that backend's gate, unless it is borrowed.  With the SystemOne API off the list keeps decision
\* models that the gate refuses (keepEnabledCatalogModel).
ListedChatPassesGate ==
    Serving /\ reg.slots["chat"].on /\ systemOneAPIEnabled(reg) =>
       \A id \in Listed("openai") :
          \/ Borrowed("openai", id)
          \/ Len(id) > 1 /\ id[1] \in DOMAIN reg.backends /\ ~Blank(Tail(id))
             /\ HasCapability(reg.backends[id[1]], "chat")
                => serveChatCompletions(reg, id, FALSE) = Dial(id[1], Tail(id))

\* The id names no backend and no router.
Bare(id) == ~Blank(id) /\ (Len(id) > 1 => id[1] \notin DOMAIN reg.backends \cup {reservedBackendID})

\* A bare id of the OpenAI list is the alias of a default backend's model
\* (mergeBackendInventories), and it does not say of which endpoint's default:
\* the endpoint whose default it is dials that model.  Another endpoint sends
\* the id to a default of its own, which may have no such model.
ListedAliasIsServed ==
    Serving => LET listed == Listed("openai") IN
    \A s \in {"chat", "vision", "embed", "tts", "stt"} :
       LET b == Effective(reg, s)
       IN  /\ reg.slots[s].on
           /\ \A e \in reg.backends[b].allow : Prefixed(b, e) => ~Doubled(e)
           => \A x \in Brings(b) :
                 LET id == NormalizeDownstream(b, x)
                 IN  IsModelAllowed(reg.backends[b], x) /\ Bare(id) /\ id \in listed
                        => SlotAnswer(reg, s, id) = Dial(b, id)

\* The list, the retrieve and the dispatch agree on whose model an id is, but
\* for the borrowed ids, on which they do not.
ListedIsServed == /\ ListedIsRetrievable /\ ListedDecisionIsServed
                  /\ ListedChatPassesGate /\ ListedAliasIsServed

\* The model asked for starts with its backend's name even without the prefix.
Repeats(a) == Prefixed(a[1], NormalizeDownstream(a[1], a[2]))

\* An allow request that was answered with success lasts: in every later
\* snapshot, after restarts and with the inventory lost, the model passes the
\* gate and is on a list (openRouter, ApplyAllowOverlay).  An id that repeats
\* its backend's name is read in two ways: what was allowed as such an entry is
\* listed with the name once more, and a backend for which such a model was
\* asked is left out.
AllowedIsServed ==
    Serving => \A a \in acked : (\A x \in acked : x[1] = a[1] => ~Repeats(x)) =>
       LET id == prefixModelID(a[1], NormalizeDownstream(a[1], a[2]))
       IN  /\ IsModelAllowed(reg.backends[a[1]], id)
           /\ {id, <<a[1]>> \o id} \cap (Listed("openai") \cup Listed("systemone")) # {}
===============================================================================
