-------------------------- MODULE MCDisplaywideText --------------------------
(* Texts that wrap, that end or begin with a newline, and that break off.  *)
EXTENDS DisplaywideText

AnyTexts == {<<"a">>, <<"n">>, <<"n", "a">>, <<"a", "a", "n", "a">>, <<"a", "bad", "n">>}
=============================================================================
