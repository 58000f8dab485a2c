------------------------ MODULE MCStreamIndentation ------------------------
(***************************************************************************)
(* Texts for StreamIndentation: one of two characters, one of one, and a   *)
(* blank.                                                                  *)
(***************************************************************************)
EXTENDS StreamIndentation

MCTexts == {<<"a", "b">>, <<"c">>, <<"sp">>}
=============================================================================
