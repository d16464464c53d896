----------------------------- MODULE MCTextView -----------------------------
EXTENDS TextView

TheTexts == {<<"a", "vs16", "sp", "a", "cjk", "nl", "a">>, <<"a", "tab", "nl", "mark">>,
             <<"tab", "vs16", "sp">>}
View(x, y, width, height) == [x |-> x, y |-> y, width |-> width, height |-> height]
TheViewports == {View(2, 1, 5, 2)}
TheSelections == {[start |-> 1, stop |-> 3]}
ThePoints == {<<1, 0>>, <<0, 1>>, <<2, 9>>, <<-1, 1>>}
=============================================================================
