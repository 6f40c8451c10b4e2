------------------------------ MODULE MCTexts ------------------------------
EXTENDS Texts

MCAlphabet == {"\r", "\n", "-", "b", "&", "=", "%", "+"}

\* The server's needles, short; and one whose border falls back by two steps.
MCNeedles == {<<"\r", "\n", "\r", "\n">>, <<"\r", "\n", "-", "-">>, <<"-", "-", "b">>,
              <<"-", "b", "-", "\n">>}
=============================================================================
