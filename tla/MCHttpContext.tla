--------------------------- MODULE MCHttpContext ---------------------------
(* HttpContext with messages of every kind, alone and after each other.    *)
EXTENDS HttpContext

Tokens == {"nul", "cr", "lf", "start", "len0", "len1", "len2", "huge", "nan",
           "other", "junk"}

Message(lines, body) == [lines |-> lines, body |-> body]

Plain == Message(<<"start">>, <<>>)
Break == Message(<<"start", "len2">>, <<"cr", "lf">>)
Twice == Message(<<"start", "len2", "len1">>, <<"start">>)
Zero  == Message(<<"start", "len1", "other", "len0">>, <<>>)

NoRequestLine == Message(<<"junk">>, <<>>)
NoColon  == Message(<<"start", "junk">>, <<>>)
NoNumber == Message(<<"start", "nan">>, <<>>)
TooLarge == Message(<<"start", "huge">>, <<"start", "cr", "lf">>)

Pipelines ==
  { <<Break, Plain>>, <<Plain, Break>>, <<Plain, Plain, Plain>>, <<Plain, NoColon>>,
    <<Twice>>, <<Zero>>,
    <<NoRequestLine>>, <<NoNumber>>, <<TooLarge>> }
=============================================================================
