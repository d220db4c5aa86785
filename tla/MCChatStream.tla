---------------------------- MODULE MCChatStream ----------------------------
(* A small instance of ChatStream for TLC: two choices, a queue of one     *)
(* chunk, and the chunks that make a difference.                           *)
EXTENDS ChatStream

C(touches, ends, usage) == [touches |-> touches, ends |-> ends, usage |-> usage]

MCChunks == {
  C({0}, {}, FALSE),
  C({0}, {0}, FALSE),
  C({0, 1}, {1}, FALSE),
  C({0}, {}, TRUE),
  C({}, {}, TRUE)}
=============================================================================
