----------------------------- MODULE ProviderLists -----------------------------
(***************************************************************************)
(* How a backend's model list is fetched from its provider: the catalog    *)
(* clients of Anthropic, Cloudflare and Gemini, the one for everything     *)
(* that speaks OpenAI, and what the gateway makes of their lists.          *)
(*                                                                         *)
(* A fetch takes several requests, and the provider's list may change in   *)
(* between: a history gives the provider's answer to the first, second ... *)
(* request, and its last answer to all that follow.  An answer is          *)
(*   form     "plain"; "no total", for Cloudflare's without total_pages;   *)
(*            "no models", a body that is no list of models; "failed"      *)
(*   entries  the provider's whole list then, in its order; an entry is    *)
(*            [name, id], of which only Cloudflare's has a name            *)
(***************************************************************************)
EXTENDS RouterConfig

CONSTANTS PageSize,     \* entries of a page
          MaxPages      \* pages a client asks for

ASSUME PagesAssumption == PageSize \in Nat \ {0} /\ MaxPages \in Nat \ {0}

AnswerTo(history, k) == history[IF k < Len(history) THEN k ELSE Len(history)]

\* GetJSON: no answer, a status that is none of 2xx, a body that is too long
\* or does not decode are all the same to a fetch.
GetJSON(answer) == answer.form # "failed"

\* What a fetch has so far; after is Anthropic's cursor.
Fetch   == [done |-> FALSE, ok |-> TRUE, after |-> NoModel, ids |-> {}]

\* Mutant: a failed page ends the list.
FailsSoftly(f) == [f EXCEPT !.done = TRUE]
Fails(f) == [f EXCEPT !.done = TRUE, !.ok = FALSE]

Cut(entries, first) ==
    SubSeq(entries, first, IF first + PageSize - 1 < Len(entries)
                           THEN first + PageSize - 1 ELSE Len(entries))

-----------------------------------------------------------------------------
(* Anthropic: the page after the last id of the one before.                *)

\* The provider does not know a cursor that is not in its list any more.
anthropicPage(answer, after) ==
    LET at == { i \in DOMAIN answer.entries : answer.entries[i].id = after }
        first == IF after = NoModel THEN 1 ELSE 1 + CHOOSE i \in at : TRUE
    IN  IF ~GetJSON(answer) \/ (after # NoModel /\ at = {}) THEN {}
        ELSE {[data |-> Cut(answer.entries, first),
               hasMore |-> first + PageSize <= Len(answer.entries)]}

anthropicIDs(data) == { data[i].id : i \in DOMAIN data } \ {NoModel}

anthropicStep(f, answer) ==
    IF f.done THEN f
    ELSE IF anthropicPage(answer, f.after) = {} THEN Fails(f)
    ELSE LET p == CHOOSE x \in anthropicPage(answer, f.after) : TRUE
             last == IF p.data = <<>> THEN NoModel ELSE p.data[Len(p.data)].id
         IN  [f EXCEPT !.ids = @ \cup anthropicIDs(p.data),
                       !.after = last,
                       !.done = ~p.hasMore \/ last = NoModel]

-----------------------------------------------------------------------------
(* Cloudflare: page after page, by number.                                 *)

AtNames == {"@cf", "@hf"}   \* how Workers AI's own ids start

\* A backend's prefix is cut off where an id of several segments, or one of
\* Workers AI's own, follows it.
NormalizeModel(m) ==
    IF Len(m) > 1 /\ m[1] \notin AtNames /\ (Len(m) > 2 \/ m[2] \in AtNames)
    THEN Tail(m) ELSE m

normalizeWorkersAIModelName(name) ==
    LET m == NormalizeModel(name)
    IN  IF Len(m) > 1 /\ m[1] \notin AtNames \cup {"cf_local"}
        THEN <<"@cf">> \o (IF m[1] = "cf" THEN Tail(m) ELSE m)
        ELSE m

cloudflareID(e) ==
    LET named == normalizeWorkersAIModelName(e.name)
    IN  IF named # NoModel THEN named ELSE normalizeWorkersAIModelName(e.id)

cloudflareIDs(data) == { cloudflareID(data[i]) : i \in DOMAIN data } \ {NoModel}

\* Where the answer does not say how many pages there are, a full page has
\* another one after it.
totalPages(answer, data, page) ==
    IF answer.form = "plain" THEN (Len(answer.entries) + PageSize - 1) \div PageSize
    ELSE IF Len(data) >= PageSize THEN page + 1 ELSE page

cloudflareStep(f, k, answer) ==
    LET data == Cut(answer.entries, (k - 1) * PageSize + 1)
    IN  IF f.done THEN f
        ELSE IF ~GetJSON(answer) THEN Fails(f)
        ELSE [f EXCEPT !.ids = @ \cup cloudflareIDs(data),
                       !.done = k >= totalPages(answer, data, k)]

-----------------------------------------------------------------------------
(* A fetch asks for one page after the other until it is done.             *)

fetchPage(ext, history, f, k) ==
    IF ext = "anthropic" THEN anthropicStep(f, AnswerTo(history, k))
    ELSE cloudflareStep(f, k, AnswerTo(history, k))

\* What the fetch has after k pages.
Pages(ext, history) ==
    LET f[k \in 0 .. MaxPages] ==
          IF k = 0 THEN Fetch ELSE fetchPage(ext, history, f[k - 1], k)
    IN  f

\* A list with more pages than are asked for is none: "a partial catalog would
\* be cached as if it were complete".
fetchAll(ext, history) ==
    LET end == Pages(ext, history)[MaxPages]
    IN  IF end.done /\ end.ok THEN end.ids ELSE {}

\* Gemini's ids come with "models/" before them.
normalizeModelID(id) == IF Prefixed("models", id) THEN Tail(id) ELSE id

toModels(entries) == { normalizeModelID(entries[i].id) : i \in DOMAIN entries } \ {NoModel}

geminiFetch(history) ==
    IF GetJSON(AnswerTo(history, 1)) THEN toModels(AnswerTo(history, 1).entries) ELSE {}

withIDs(entries) == { entries[i].id : i \in DOMAIN entries } \ {NoModel}

\* Everything else answers in one page; a body that is no list has no models.
ParseModels(answer) == IF answer.form = "no models" THEN {} ELSE withIDs(answer.entries)

ListModels(answer) == IF GetJSON(answer) THEN ParseModels(answer) ELSE {}

isOpenRouterHost(b) == b.url = "openrouter"

\* OpenRouter's decision models are listed apart, by a second request that is
\* made whatever became of the first.
mergeOpenRouterDecisionModels(b, history, live) ==
    IF isOpenRouterHost(b) THEN live \cup publicModels(b, ListModels(AnswerTo(history, 2)))
    ELSE live

\* The public ids a fetch brings; none when it fails.
fetchBackendModels(b, history) ==
    CASE b.ext \in {"anthropic", "cloudflare"} -> publicModels(b, fetchAll(b.ext, history))
      [] b.ext = "gemini" -> publicModels(b, geminiFetch(history))
      [] OTHER -> mergeOpenRouterDecisionModels(b, history,
                     publicModels(b, ListModels(AnswerTo(history, 1))))
===============================================================================
