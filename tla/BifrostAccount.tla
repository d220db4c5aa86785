---------------------------- MODULE BifrostAccount ----------------------------
(***************************************************************************)
(* What the gateway tells Bifrost, the library that talks to the           *)
(* providers, of its backends (internal/gateway/router/account.go).  The   *)
(* account is built once, when the client is, and Bifrost asks it for the  *)
(* key, the provider and the permitted requests of every backend it is     *)
(* given a call for; the registry that chose the backend is another table. *)
(***************************************************************************)
EXTENDS RouterConfig

ProviderSwitchyard == "switchyard"

\* The capabilities, any of which permits a kind of request.
Permits == [chat |-> {"chat", "vision"}, embed |-> {"embed"}, speech |-> {"tts"},
            transcription |-> {"stt"}, decision |-> {"systemone"}, batch |-> {"batch"}]

\* Mutant: a composed router does not count, only POLYPUS_SWITCHYARD.
shouldRegisterSwitchyardAsTold(c) == c.switchyard

shouldRegisterSwitchyard(c) ==
    \/ \E n \in DOMAIN c.routers : isComposed(c.routers[n].route)
    \/ c.switchyard

\* Switchyard is one more local backend, and takes the place of one with its id.
SwitchyardDef ==
    [id |-> ProviderSwitchyard, caps |-> {"chat"}, ext |-> "", remote |-> FALSE,
     url |-> "loopback", cred |-> TRUE]

newAccount(c) ==
    IF shouldRegisterSwitchyard(c)
    THEN [b \in DOMAIN c.backends \cup {ProviderSwitchyard} |->
            IF b = ProviderSwitchyard THEN SwitchyardDef ELSE c.backends[b]]
    ELSE c.backends

hasSwitchyard(account) == ProviderSwitchyard \in DOMAIN account

\* A remote backend needs its credential, any other gets a placeholder.
GetKeysForProvider(account, id) ==
    id \in DOMAIN account /\ (account[id].remote => account[id].cred)

allowedRequestsForBackend(b) ==
    { r \in DOMAIN Permits :
        /\ Permits[r] \cap b.caps # {}
        /\ r = "decision" => b.ext = "typesafe"
        /\ r = "batch"    => b.ext = "anthropic" }

\* The provider of Bifrost's that serves a backend, and what it may be asked;
\* the native OpenRouter provider may be asked anything.
GetConfigForProvider(account, id) ==
    LET b == account[id]
    IN  IF id = openRouterBackendID
        THEN [base |-> "openrouter", allowed |-> DOMAIN Permits]
        ELSE [base |-> IF b.ext \in {"gemini", "anthropic", "typesafe"} THEN b.ext ELSE "openai",
              allowed |-> allowedRequestsForBackend(b)]

\* Workers AI has no audio routes of OpenAI's form: a plugin takes the call.
hasCloudflareBackend(c) == \E id \in DOMAIN c.backends : IsCloudflare(c, id)

usesBifrostSystemOne(b) ==
    HasCapability(b, "systemone") /\ (b.id = openRouterBackendID \/ b.ext = "typesafe")

UsesBifrost(c, account, id) ==
    IF id = ProviderSwitchyard THEN hasSwitchyard(account) ELSE id \in DOMAIN c.backends

\* Bifrost carries a request for a backend.
Carries(c, account, id, request) ==
    /\ UsesBifrost(c, account, id)
    /\ GetKeysForProvider(account, id)
    /\ request \in GetConfigForProvider(account, id).allowed
    /\ request = "decision" => usesBifrostSystemOne(account[id])
    /\ request \in {"speech", "transcription"} /\ IsCloudflare(c, id) => hasCloudflareBackend(c)
===============================================================================
