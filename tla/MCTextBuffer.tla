--------------------------- MODULE MCTextBuffer ---------------------------
EXTENDS TextBuffer

TheTexts == {<<"a", "nl", "cjk">>, <<"cr">>, <<"nl", "tab">>}
Chunk(text, colored) == [text |-> text, colored |-> colored]
TheChunks == {<<Chunk(<<"a", "tab">>, TRUE), Chunk(<<"mark", "cjk">>, TRUE)>>,
              <<Chunk(<<"a", "cr">>, FALSE), Chunk(<<"nl", "tab", "a">>, TRUE)>>,
              <<Chunk(<<"cjk", "mark", "cr", "nl">>, TRUE), Chunk(<<"nl", "sp">>, TRUE)>>,
              <<Chunk(<<"check">>, TRUE), Chunk(<<"thermo", "zwsp", "a">>, FALSE)>>}
Hl(start, stop, style, priority, ref) ==
  [start |-> start, stop |-> stop, style |-> style, priority |-> priority, ref |-> ref]
TheHighlights == {Hl(0, 3, 11, 0, 1), Hl(1, 2, 12, 1, 2),
                  Hl(1, 4, 13, 0, 2), Hl(2, 2, 14, 1, 0)}

(* StyledWhereDrawn without its exception: false, as text_buffer.cc:193    *)
(* says of the two models.                                                 *)
DrawnAnyway ==
  [][\A chunks \in StyledCalls : SetStyled(chunks) => HighlightedAsDrawn(chunks)]_bufferVars
===========================================================================
