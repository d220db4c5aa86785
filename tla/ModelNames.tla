------------------------------ MODULE ModelNames ------------------------------
(***************************************************************************)
(* Model ids and the gates over them.  An id is the sequence of its        *)
(* segments: "openrouter/auto" is <<"openrouter", "auto">>, and a trailing *)
(* slash leaves an empty last segment.  White space is trimmed by the code *)
(* before every comparison and is not modelled.                            *)
(*                                                                         *)
(* A backend b is a record; the fields this module reads:                  *)
(*   id                the key of backends.<id>                            *)
(*   caps              the set of its capabilities                         *)
(*   gated, allow      models.allow was written, and its entries           *)
(*   sysGated, sysAllow   the same of models.systemone_allow               *)
(*   sync              models.sync, on unless the config turns it off      *)
(***************************************************************************)
EXTENDS Naturals, Sequences, FiniteSets

NoModel == <<>>
Blank(m) == m \in {NoModel, <<"">>}

\* The model id starts with "b/".
Prefixed(b, m) == Len(m) > 1 /\ Head(m) = b

NormalizeDownstream(b, m) == IF Prefixed(b, m) THEN Tail(m) ELSE m

\* The public id of a downstream model.
prefixModelID(b, m) == IF Prefixed(b, m) THEN m ELSE <<b>> \o m

\* models.allow entries are written bare or with the backend's prefix, and so
\* are the ids they are compared with.
ModelInAllowList(b, m, allow) ==
    /\ ~Blank(m)
    /\ \E e \in allow :
          LET down  == NormalizeDownstream(b, m)
              eDown == NormalizeDownstream(b, e)
          IN  /\ ~Blank(e)
              /\ \/ {m, down} \cap {e, eDown} # {}
                 \/ m \in {<<b>> \o e, <<b>> \o eDown}
                 \/ e = <<b>> \o down

HasCapability(b, cap) == cap \in b.caps

IsModelAllowed(b, m) == b.gated => ModelInAllowList(b.id, m, b.allow)

DefaultSystemOneDownstream == <<"typesafe", "jev">>

IsSystemOneDownstream(b, down) ==
    /\ HasCapability(b, "systemone")
    /\ ModelInAllowList(b.id, down,
          IF b.sysGated THEN b.sysAllow ELSE {DefaultSystemOneDownstream})

\* The public ids an allow list stands for when the upstream list lacks them.
SyntheticAllowModels(b, allow) ==
    { <<b>> \o NormalizeDownstream(b, e) :
         e \in { x \in allow : ~Blank(x) /\ ~Blank(NormalizeDownstream(b, x)) } }

\* A live list gains the entries of both allow lists it lacks.
mergeEnabledSyntheticMissing(b, live) ==
    live \cup (IF b.gated    THEN SyntheticAllowModels(b.id, b.allow)    ELSE {})
         \cup (IF b.sysGated THEN SyntheticAllowModels(b.id, b.sysAllow) ELSE {})

\* The ids an enabled (not an inventory) list keeps.
keepEnabledCatalogModel(b, id) ==
    \/ IsModelAllowed(b, id)
    \/ IsSystemOneDownstream(b, NormalizeDownstream(b.id, id))

\* An upstream's own ids as public ids.
publicModels(b, downs) == { prefixModelID(b.id, d) : d \in downs }

\* The live or cached list names the model an allow request asks for.
modelInInventory(b, down, req, list) ==
    \E id \in list : \/ id \in {req, down, prefixModelID(b, down)}
                     \/ NormalizeDownstream(b, id) = down
===============================================================================
