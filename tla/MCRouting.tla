------------------------------- MODULE MCRouting -------------------------------
(***************************************************************************)
(* A small instance of Routing for TLC.  The inputs vary one axis at a     *)
(* time around a base config of four backends: which slots are on and what *)
(* they name, the routers, one backend's URL, kind and lists, the          *)
(* environment, and the file itself.                                       *)
(***************************************************************************)
EXTENDS Routing

MCIdOrder == <<"anthro", "cf", "mlx_local", "openrouter", "router", "typesafe">>

llama == <<"llama">>
auto  == <<"auto">>
jev   == <<"typesafe", "jev">>
voice == <<"voice">>

E(id) == [name |-> NoModel, id |-> id]
N(name) == [name |-> name, id |-> <<"uuid">>]
Ans(form, entries) == [form |-> form, entries |-> entries]
Plain(ids) == Ans("plain", [i \in DOMAIN ids |-> E(ids[i])])
\* A request that failed while the provider had this list.
DownWith(ids) == [Plain(ids) EXCEPT !.form = "failed"]
Down == DownWith(<<>>)

qwen == <<"qwen">>
mistral == <<"mistral">>

(* Cloudflare's and Anthropic's clients ask for two pages of one entry.  A   *)
(* list of two fits, one of three does not; it may change, or the answers    *)
(* stop, after the first page.                                               *)
Paged == {<<DownWith(<<llama>>)>>, <<Plain(<<llama, qwen>>)>>, <<Plain(<<llama, qwen, mistral>>)>>,
          <<Plain(<<llama, qwen>>), DownWith(<<llama, qwen>>)>>,
          <<Plain(<<llama, qwen>>), Plain(<<qwen>>)>>,
          <<Plain(<<llama, qwen>>), Plain(<<llama, mistral, qwen>>)>>}

MCUpstream == [b \in {MCIdOrder[i] : i \in DOMAIN MCIdOrder} |->
   CASE b = "openrouter" ->
          {<<Down>>,
           <<Plain(<<<<"meta", "x">>, <<"openrouter", "auto">>>>), Plain(<<jev>>)>>,
           <<DownWith(<<auto>>), Plain(<<jev>>)>>}
     [] b = "cf" -> Paged \cup
          {<<Ans("no total", <<N(llama)>>)>>,
           <<Ans("no total", <<N(<<"meta", "x">>), E(qwen)>>)>>,
           <<Ans("plain", <<N(<<"cf", "meta", "x">>), N(<<"@cf", "qwen">>)>>)>>}
     [] b = "anthro" -> Paged
     [] b = "typesafe" ->
          {<<DownWith(<<auto>>)>>, <<Plain(<<<<"models", "g">>, auto, NoModel>>)>>,
           <<Ans("no models", <<E(auto)>>)>>}
     [] OTHER -> {<<Down>>}]

MCAsked == {<<"cf", <<"qwen">>>>, <<"openrouter", <<"openrouter", "meta", "x">>>>,
            <<"openrouter", <<"auto">>>>, <<"cf", <<"cf", "">>>>}

Backend(caps, ext, remote, url, allow) ==
  [caps |-> caps, ext |-> ext, remote |-> remote, url |-> url, cred |-> TRUE,
   gated |-> allow # {}, allow |-> allow, sysGated |-> FALSE, sysAllow |-> {}, sync |-> TRUE]

cf   == Backend({"chat", "embed", "systemone"}, "cloudflare", TRUE, "cloudflare", {llama})
or   == Backend({"chat", "vision", "systemone"}, "", TRUE, "openrouter", {auto, jev})
mlx  == Backend({"tts", "stt", "voices"}, "", FALSE, "loopback", {})
base == [cf |-> cf, openrouter |-> or, mlx_local |-> mlx]
quiet == [base EXCEPT !.cf.sync = FALSE, !.openrouter.sync = FALSE]

On(b)  == [on |-> "on", default |-> b]
Off    == [on |-> "off", default |-> NoId]
Unset  == [on |-> "unset", default |-> NoId]
baseSlots == [chat |-> On("openrouter"), vision |-> Off, embed |-> On("cf"),
              tts |-> On("mlx_local"), stt |-> On(NoId), proxy |-> Off,
              systemone |-> On("openrouter"), batch |-> Unset]

File(slots, backends, routers) ==
  [slots |-> slots, backends |-> backends, routers |-> routers, reject |-> FALSE]
NoEnv == [s \in Slots |-> NoId]
Input(file) ==
  [found |-> TRUE, explicit |-> FALSE, sound |-> TRUE, file |-> file, env |-> NoEnv,
   backendURL |-> "", speechModel |-> [tts |-> voice, stt |-> NoModel], switchyard |-> "on"]

baseInput == Input(File(baseSlots, base, <<>>))
quietInput == Input(File(baseSlots, quiet, <<>>))

\* Every slot on and off, with no default, with one that serves it, with one
\* that does not and with one that is missing; the lists are fetched when the
\* slot is on that lists what is fetched.
SlotInputs ==
  { Input(File([baseSlots EXCEPT ![s] = [on |-> w, default |-> b]],
               IF s \in {"chat", "embed", "systemone"} /\ w = "on" THEN base ELSE quiet, <<>>)) :
      s \in Slots, w \in {"unset", "on", "off"},
      b \in {NoId, "cf", "openrouter", "mlx_local", "anthro"} }
  \cup { Input(File([s \in Slots |-> IF s \in on THEN baseSlots[s] ELSE Off], base, <<>>)) :
           on \in SUBSET {"chat", "tts", "systemone"} }

leafA == <<"cf", "llama">>
leafB == <<"openrouter", "auto">>
R(route) == [capability |-> "chat", route |-> route]
Route(type) ==
  [type |-> type, given |-> RouteFields[type], valid |-> TRUE, target |-> leafA,
   capable |-> leafA, efficient |-> leafB, classifier |-> leafB,
   targets |-> <<>>, list |-> FALSE, defaultTarget |-> NoId]
stage    == Route("stage_router")
through  == Route("passthrough")
fallback == [Route("fallback") EXCEPT !.targets = <<leafA, leafB>>, !.list = TRUE]
classify(names) == [Route("llm_classifier") EXCEPT
   !.targets = [n \in names |-> IF n = "easy" THEN leafA ELSE leafB],
   !.defaultTarget = CHOOSE n \in names : TRUE]

RouterSets ==
  { [a |-> R(r)] : r \in {stage, through, fallback, classify({"easy", "hard"}),
       [fallback EXCEPT !.targets = <<leafA, leafA>>],
       [fallback EXCEPT !.targets = <<leafA>>],
       [fallback EXCEPT !.valid = FALSE],
       [stage EXCEPT !.given = @ \ {"picker"}],
       [stage EXCEPT !.given = @ \cup {"targets"}],
       [classify({"easy", "hard"}) EXCEPT !.defaultTarget = "other"],
       [classify({"easy", "hard"}) EXCEPT !.given = @ \cup {"message_hash_fallback"}],
       classify({"easy", "a_classifier"}),
       [through EXCEPT !.target = <<"cf">>],
       [through EXCEPT !.target = <<"cf", "qwen">>],
       [through EXCEPT !.target = <<"mlx_local", "voice">>],
       [through EXCEPT !.target = <<"openrouter", "openrouter", "auto">>]} }
  \cup { [a |-> [R(stage) EXCEPT !.capability = "embed"]] }
  \cup { [a |-> R(classify({"easy", n})), b |-> R(r)] :
           n \in {"hard", "b_capable", "b_0"},
           r \in {[stage EXCEPT !.capable = leafA], fallback} }

RouterInputs ==
  { Input(File([baseSlots EXCEPT !["chat"] = ch], base, rs)) :
      rs \in RouterSets, ch \in {On("openrouter"), Off} }
  \cup { [Input(File(baseSlots, quiet, [a |-> R(r)])) EXCEPT !.switchyard = "off"] :
           r \in {stage, through} }

\* One backend with every URL and kind, the others as they are.
BackendInputs ==
  { Input([File([baseSlots EXCEPT !["systemone"] = Off], quiet @@ [b \in {id} |->
             Backend(cap, ext, remote, url, {})], <<>>) EXCEPT !.reject = ~remote]) :
      id \in {"anthro", "typesafe"}, cap \in {{"chat"}, {"systemone"}, {}},
      ext \in {"", "gemini", "anthropic", "typesafe", "cloudflare"},
      remote \in BOOLEAN, url \in UrlKinds }
  \cup { Input(File(baseSlots, quiet @@ [b \in {"typesafe"} |-> Backend({"vision"}, "", FALSE, "lan", {})], <<>>)),
         Input(File(baseSlots, base @@ [b \in {reservedBackendID} |-> or], <<>>)),
         Input(File(baseSlots, [base EXCEPT !.cf.cred = FALSE], <<>>)) }

ListInputs ==
  { Input(File([baseSlots EXCEPT !["systemone"] = so],
       [base EXCEPT !.openrouter.sysGated = gated, !.openrouter.sysAllow = {auto},
                    !.openrouter.gated = g, !.cf.sync = sync]
       @@ (IF ts THEN [t \in {"typesafe"} |-> Backend({"systemone"}, "typesafe", TRUE, "remote", {})]
           ELSE <<>>), <<>>)) :
      so \in {Off, On("openrouter"), On("cf"), On("typesafe")},
      gated, g, sync, ts \in BOOLEAN }

\* The environment overlays the slots, whose lists the others fetch.
EnvInputs ==
  { [quietInput EXCEPT !.env[s] = b] : s \in Slots, b \in {"cf", "openrouter", "anthro"} }
  \cup { [quietInput EXCEPT !.found = f, !.explicit = e, !.sound = s,
                           !.backendURL = u, !.switchyard = w] :
           f, e, s \in BOOLEAN, w \in {"on", "odd"}, u \in {"", "loopback", "remote", "bad"} }

MCInputs == {baseInput} \cup SlotInputs \cup RouterInputs \cup BackendInputs
            \cup ListInputs \cup EnvInputs
===============================================================================
