------------------------------ MODULE ModelLists ------------------------------
(***************************************************************************)
(* The model lists the gateway answers with, as functions of the routing   *)
(* table c and of the inventories inv: inv[b] is the list the gateway      *)
(* holds for backend b, as public ids (module ModelCatalog shows how it    *)
(* comes to hold it).  There are two surfaces, the OpenAI list and the     *)
(* SystemOne list; "inventory" views skip the allow gates.                 *)
(***************************************************************************)
EXTENDS RouterConfig

Surfaces == {"openai", "systemone"}

RouterPublicID(n) == <<reservedBackendID, n>>
routerCatalogModels(c) == { RouterPublicID(n) : n \in DOMAIN c.routers }

isDefaultBackend(c, b) == \E s \in Slots \ {"batch"} : b = Effective(c, s)

systemOneAPIEnabled(c) == Effective(c, "systemone") # NoId

\* The backends' lists behind the gates, with bare aliases for the defaults.
mergeBackendInventories(c, asInventory, inv) ==
    LET kept(b) == { id \in inv[b] :
                       asInventory \/ keepEnabledCatalogModel(c.backends[b], id) }
        bare(b) == { NormalizeDownstream(b, id) : id \in kept(b) } \ {NoModel, <<"">>}
    IN  UNION { kept(b) \cup (IF isDefaultBackend(c, b) THEN bare(b) ELSE {}) :
                  b \in DOMAIN inv }

\* The speech models the environment names, under their backend and bare.
seedModelsFromEnv(c) ==
    UNION { LET b == Effective(c, s)
                m == c.speechModel[s]
            IN  IF b = NoId \/ Blank(m) THEN {}
                ELSE { [backend |-> b, id |-> id] : id \in {prefixModelID(b, m), m} } :
              s \in {"tts", "stt"} }

seedModelsForBackend(c, b) == { s.id : s \in { x \in seedModelsFromEnv(c) : x.backend = b \/ Prefixed(b, x.id) } }

mergeSeedModels(c, asInventory) ==
    { s.id : s \in { x \in seedModelsFromEnv(c) :
                       asInventory \/ IsModelAllowed(c.backends[x.backend], x.id) } }

\* The whole list, the named routers first in it unless it is an inventory.
collectModels(c, inv, asInventory) ==
    (IF asInventory THEN {} ELSE routerCatalogModels(c))
    \cup mergeBackendInventories(c, asInventory, inv)
    \cup mergeSeedModels(c, asInventory)

-----------------------------------------------------------------------------
(* Surfaces.  An id that names no backend is the SystemOne default's.      *)

catalogModelBackend(c, id) ==
    LET systemone == { b \in DOMAIN c.backends : HasCapability(c.backends[b], "systemone") }
    IN  IF Len(id) > 1 /\ id[1] \in DOMAIN c.backends THEN id[1]
        ELSE IF systemOneAPIEnabled(c) THEN Effective(c, "systemone")
        ELSE First(systemone)

backendAndDownstreamForPublicID(c, id) ==
    LET b == catalogModelBackend(c, id)
    IN  [backend |-> b, down |-> IF b = NoId THEN id ELSE NormalizeDownstream(b, id)]

isSystemOneListedModel(c, id) ==
    LET m == backendAndDownstreamForPublicID(c, id)
    IN  /\ ~Blank(id)
        /\ systemOneAPIEnabled(c)
        /\ m.backend \in DOMAIN c.backends
        /\ IsSystemOneDownstream(c.backends[m.backend], m.down)

partitionModels(c, all, surface) ==
    { id \in all : isSystemOneListedModel(c, id) <=> surface = "systemone" }

\* What two ids of one model have in common.
catalogModelKey(c, id) ==
    LET m == backendAndDownstreamForPublicID(c, id)
    IN  IF Prefixed(reservedBackendID, id) \/ m.backend = NoId \/ Blank(m.down)
        THEN id ELSE <<m.backend>> \o m.down

\* Of two ids of one model the one with the backend's prefix is kept; at most
\* one other id has the same key, its bare alias.
dedupeModelsByBackendDownstream(c, ids) ==
    { id \in ids : \A other \in ids :
         catalogModelKey(c, other) = catalogModelKey(c, id) =>
            other = id \/ Prefixed(catalogModelBackend(c, id), id) }

modelsForSurface(c, all, surface) ==
    dedupeModelsByBackendDownstream(c, partitionModels(c, all, surface))

-----------------------------------------------------------------------------
(* GET .../models and GET .../models/<id>.                                 *)

serveModelsList(c, inv, asInventory, surface) ==
    IF surface = "systemone" /\ ~systemOneAPIEnabled(c) THEN {}
    ELSE modelsForSurface(c, collectModels(c, inv, asInventory), surface)

\* The backend a retrieve dials alone; none when it takes the whole list.
retrieveBackend(c, surface, id) ==
    IF (Len(id) > 1 /\ id[1] \in DOMAIN c.backends) \/ surface = "systemone"
    THEN catalogModelBackend(c, id) ELSE NoId

collectModelsForRetrieve(c, inv, asInventory, surface, id) ==
    LET b == retrieveBackend(c, surface, id)
    IN  IF asInventory THEN collectModels(c, inv, TRUE)
        ELSE IF id \in routerCatalogModels(c) THEN routerCatalogModels(c)
        ELSE IF b \in DOMAIN c.backends
             THEN collectModels(c, [x \in {b} |-> inv[b]], FALSE)
             ELSE collectModels(c, inv, FALSE)

\* The retrieve finds the id, or an id of the same model.
serveModelRetrieve(c, inv, asInventory, surface, id) ==
    /\ surface = "systemone" => systemOneAPIEnabled(c)
    /\ \E m \in modelsForSurface(c, collectModelsForRetrieve(c, inv, asInventory, surface, id),
                                 surface) :
          m = id \/ catalogModelKey(c, m) = catalogModelKey(c, id)
===============================================================================
