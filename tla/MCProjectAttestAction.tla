------------------------- MODULE MCProjectAttestAction -------------------------
(* READMEs for TLC: without markers, with a block in the middle, with a block
   whose end is missing or comes first, with two blocks, and nothing at all. *)
EXTENDS ProjectAttestAction

Intro == Line("intro", "CRLF")
Usage == Line("usage", "LF")
Block == <<START, Badge(0), END>>
Texts ==
  {<<>>, <<Intro, Usage>>, <<Intro>> \o Block \o <<Usage>>, <<Intro, START, Usage>>,
   <<END, Intro, START>>, Block \o <<Usage>> \o Block}
=============================================================================
