----------------------------- MODULE MCResponse -----------------------------
(***************************************************************************)
(* Response with all targets of up to three tokens for one kind of         *)
(* request, and all kinds of request for a few targets.                    *)
(***************************************************************************)
EXTENDS Response

Tokens == {"", ".", "..", "%2e%2e", "%252e%252e", "x%2f..", "%00", "a..b", "page.html"}

Request(m, z, v, c, t) ==
  [method |-> m, gzip |-> z, version |-> v, connection |-> c, target |-> t]

Walks == {Request("GET", FALSE, "1.1", "", t) : t \in BoundedSeq(Tokens, 3)}

Kinds == {Request(m, z, v[1], v[2], t) :
            m \in Methods, z \in BOOLEAN,
            v \in {<<"1.1", "">>, <<"1.1", "close">>, <<"1.0", "">>,
                   <<"1.0", "keep-alive">>, <<"other", "keep-alive">>},
            t \in {<<"">>, <<"page.html">>, <<"logo.png">>, <<"register">>, <<"login">>}}

MCRequests == Walks \cup Kinds
=============================================================================
