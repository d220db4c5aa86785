------------------------------- MODULE AllowList -------------------------------
(***************************************************************************)
(* What allowing a model promises: a model an operator was told is allowed *)
(* passes the gate from then on, in this run of the gateway and in every   *)
(* later one; and only models that an operator asked for or the config     *)
(* names ever pass it.  Module ModelCatalog implements this with a file, a *)
(* lock, a snapshot that is swapped, and a process that may die between    *)
(* any two of them.                                                        *)
(***************************************************************************)
CONSTANTS Models, Configured

VARIABLES running,    \* a gateway runs
          asked,      \* the models of the allow requests under way
          granted,    \* the models a request was granted; it outlives the gateway
          allowed,    \* the models the gate lets through
          promised    \* the models whose operators were told so

Init == running = FALSE /\ asked = {} /\ granted = {} /\ allowed = {} /\ promised = {}

\* What was granted and not yet promised when the last gateway stopped may
\* pass, or not.
Start == /\ ~running
         /\ running' = TRUE
         /\ allowed' \in { S \in SUBSET (Configured \cup granted) :
                              Configured \cup promised \subseteq S }
         /\ UNCHANGED <<asked, granted, promised>>

Stop == /\ running
        /\ running' = FALSE /\ allowed' = {} /\ asked' = {}
        /\ UNCHANGED <<granted, promised>>

\* A request for m comes; requests end, or are refused.
Ask(m) == /\ running
          /\ asked' \in SUBSET (asked \cup {m})
          /\ UNCHANGED <<running, granted, allowed, promised>>

Grant(m) == /\ running
            /\ m \in asked
            /\ granted' = granted \cup {m}
            /\ UNCHANGED <<running, asked, allowed, promised>>

Allow(m) == /\ running
            /\ m \in granted
            /\ allowed' = allowed \cup {m}
            /\ UNCHANGED <<running, asked, granted, promised>>

\* The operator is told, and the request is over.
Promise(m) == /\ running
              /\ m \in allowed \cap asked
              /\ promised' = promised \cup {m}
              /\ asked' \in SUBSET asked
              /\ UNCHANGED <<running, granted, allowed>>

Next == \/ Start \/ Stop
        \/ \E m \in Models : Ask(m) \/ Grant(m) \/ Allow(m) \/ Promise(m)

Spec == Init /\ [][Next]_<<running, asked, granted, allowed, promised>>
===============================================================================
