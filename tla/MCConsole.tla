------------------------------ MODULE MCConsole ------------------------------
EXTENDS Console

\* Two lines, a coloured tag as klog writes it, and a text with a tab; and a
\* panic in colour.
TaskTexts == {<<"a", "\n", "\n">>,
              <<ESC, "[", "3", "1", ";", "1", "m", "T", ESC, "[", "0", "m">>,
              <<"\t", "b">>}
TextsOfPanic == <<<<ESC, "[", "3", "1", "m">>, <<"!">>, <<ESC, "[", "0", "m", "t">>>>
=============================================================================
