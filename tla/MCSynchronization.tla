------------------------- MODULE MCSynchronization -------------------------
(* A book of three lines in the first and the third of three documents,    *)
(* whose second is an image alone; phrases of one to five words, some of   *)
(* them twice in the book, some not at all; cuts that fall into pauses and *)
(* cuts that fall into phrases.                                            *)
EXTENDS Synchronization, TLC

CONSTANTS a, b, c, Picture, Map

BookTokens ==
  LET Token(w, n) == [word |-> w, block |-> n]
  IN  <<Token(a, 1), Token(b, 1), Token(b, 2), Token(a, 2), Token(c, 3), Token(a, 3)>>

Lines == <<1, 1, 3>>
Pictures == (Picture :> 2) @@ (Map :> 3)

ChapterMarks == {{}, {2}, {1, 5}}

Heard ==
  LET phrases == {<<a, b>>, <<b, a>>, <<c, a>>, <<c, c>>}
  IN  {p \o <<Quiet>> \o q \o <<Quiet>> \o r : p, q, r \in phrases}
      \cup {p \o q \o <<Quiet, Quiet>> \o r : p, q, r \in phrases}
      \cup {[t \in 1..8 |-> Quiet]}
=============================================================================
