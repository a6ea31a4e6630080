------------------------------ MODULE MCClient ------------------------------
\* Responses of every framing, with and without a trailer, some with line ends in their body; hosts
\* with no, one or two addresses of each family; URIs with and without a port and a path, one of them
\* of a scheme without a port; fields assigned twice, in two spellings.
EXTENDS Client

X == <<"octet", 1>>

R(fields, framing, chunks, trailer) ==
    [fields |-> fields, framing |-> framing, chunks |-> chunks, trailer |-> trailer]

A(n) == <<"a", n>>
B(n) == <<"b", n>>
Junk == <<"junk", 0>>

MCNames == {"a", "b", "junk"}

Empty == R(<<>>, "length", <<<<>>>>, <<>>)

MCResponses ==
    { Empty,
      R(<<A(1), A(2)>>, "length", <<<<X, CR, LF>>>>, <<>>),
      R(<<A(1)>>, "none", <<>>, <<>>),
      R(<<>>, "othercoding", <<<<X>>>>, <<>>),
      R(<<A(1), Junk>>, "length", <<<<X>>>>, <<>>),
      R(<<>>, "chunked", <<<<X>>, <<CR, LF>>>>, <<A(3), B(4)>>),
      R(<<>>, "chunked", <<>>, <<Junk>>) }

W(word) == <<word, 0>>
U(scheme, port, path) == [scheme |-> scheme, host |-> <<W("host")>>, port |-> port, path |-> path]
Deep == <<W("/"), W("index"), W(":"), W("tail")>>
Plain == U("http", NoPort, <<>>)
Secure == U("https", 8443, Deep)

F(name, spelling, value) == [name |-> name, spelling |-> spelling, value |-> <<W(value)>>]
Fields1 == <<F("accept", "lower", "one"), F("accept", "Title", "two")>>
Fields2 == <<F("accept", "Title", "one"), F("host", "Title", "other")>>

E(u, assigned, n6, n4, r) ==
    [uri |-> u, method |-> "GET", assigned |-> assigned, response |-> r,
     addresses |-> [f \in {"v4", "v6"} |-> IF f = "v6" THEN n6 ELSE n4]]

\* Every response from a host of one address, every URI to one, and a short response from every host.
MCExchanges ==
    {E(Plain, <<>>, 0, 1, r) : r \in MCResponses}
    \cup {E(U(s, port, path), fields, 0, 1, Empty) :
              s \in {"http", "https", "other"}, port \in {NoPort, 8080, 0}, path \in {<<>>, Deep},
              fields \in {<<>>, Fields1, Fields2}}
    \cup {E(Secure, <<>>, n6, n4, Empty) : n6 \in 0 .. 2, n4 \in 0 .. 2}
    \cup {E(Plain, <<>>, 1, 1, Empty), E(U("other", NoPort, <<>>), <<>>, 1, 1, Empty)}
=============================================================================
