------------------------------ MODULE MCRequests ------------------------------
(* A small instance of Requests for TLC: two callers, each kind of backend,   *)
(* four timeouts blocks (one of them refused at load) and every status the    *)
(* code tells from others.                                                    *)
EXTENDS Requests, TLC

CONSTANTS c1, c2

MCCallers == {c1, c2}
MCSymmetry == Permutations(MCCallers)

NoFile == [k \in Fields |-> Absent]
NoOwn == [k \in BackendFields |-> Absent]

MCFiles == {[file |-> NoFile, backend |-> NoOwn],
            [file |-> [NoFile EXCEPT !.min = 2, !.max = 21, !.speech = 1], backend |-> [NoOwn EXCEPT !.chat = 5]],
            [file |-> [NoFile EXCEPT !.min = 60, !.max = 40], backend |-> NoOwn],
            [file |-> [NoFile EXCEPT !.chat = Bad], backend |-> NoOwn]}

MCHeaders == {Absent, 1, 4000}

Statuses == {400, 401, 402, 403, 404, 409, 429, 500, 529}

ReplyOf(how) == [Answer EXCEPT !.how = how]
Status(s)    == [Answer EXCEPT !.status = s, !.after = s = 429]

\* Every status bare; a Cloudflare code in the text and in its field, and a
\* message about money, with the statuses they could change.
MCReplies ==
    {ReplyOf(how) : how \in {"ok", "broken", "empty"}}
    \cup {[ReplyOf("empty") EXCEPT !.cf = "field"]}
    \cup {Status(s) : s \in Statuses}
    \cup {[Status(s) EXCEPT !.cf = "text"] : s \in {400, 500}}
    \cup {[Status(s) EXCEPT !.cf = "field"] : s \in {400, 403, 429, 500}}
    \cup {[Status(s) EXCEPT !.money = TRUE] : s \in {400, 403, 404, 500}}
    \cup {[Status(400) EXCEPT !.type = "billing_error"], [Status(529) EXCEPT !.type = "overloaded_error"]}
===============================================================================
