---------------------------- MODULE MCBatchLines ----------------------------
(* A small instance of BatchLines for TLC: files of up to two lines, each   *)
(* odd in at most one way, for every provider and endpoint, and one sound   *)
(* file of three lines for the results.                                     *)
EXTENDS BatchLines

CONSTANTS a, b, c, m1, m2

GoodLine(id) == [id |-> id, padded |-> FALSE, model |-> m1, flaw |-> "none"]

OddLines ==
  {[GoodLine(i) EXCEPT !.padded = p] : i \in {a, b, Blank}, p \in BOOLEAN}
    \cup {[GoodLine(a) EXCEPT !.model = m] : m \in {m2, Blank}}
    \cup {[GoodLine(b) EXCEPT !.model = m2]}
    \cup {[GoodLine(a) EXCEPT !.flaw = f] : f \in Flaws}

MCFiles == {<<GoodLine(a), GoodLine(b), GoodLine(c)>>}
             \cup UNION {[1..n -> OddLines] : n \in 0..2}

MCInputs == [provider : Kinds, endpoint : Endpoints, padded : BOOLEAN, lines : MCFiles]
=============================================================================
