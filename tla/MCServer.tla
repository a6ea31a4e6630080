------------------------------- MODULE MCServer -------------------------------
\* Sites with and without a root endpoint, with middleware that comes early or late, and templates
\* that overlap; one endpoint with many requests; and sites with TLS, whose entries are configured
\* before, while and after connections come.
EXTENDS Https

L(s) == <<"literal", s>>
V(s) == <<"variable", s>>
E(template, middleware) == [template |-> template, middleware |-> middleware]
LateMiddleware == E(<<>>, 0)
S(adds, paths, number) ==
    [adds |-> adds, paths |-> paths, number |-> number, connections |-> 1, tls |-> FALSE,
     config |-> <<>>]
T(config) ==
    [adds |-> <<E(Root, 0)>>, paths |-> {<<"">>}, number |-> 1, connections |-> 2,
     tls |-> TRUE, config |-> config]

MCPaths == {<<"">>, <<"test">>, <<"test", "value">>}

MCDomains == {<<"a", "b">>, <<"c", "a", "b">>}
B == <<"*", "b">>
AB == <<"a", "b">>
BelowAB == <<"*", "a", "b">>

Child(name, parent) == [op |-> "add", name |-> name, parent |-> parent]
New(name) == Child(name, None)
Tls(name, enabled, identities) ==
    [op |-> "tls", name |-> name, enabled |-> enabled, identities |-> identities]
Late(identity) == [op |-> "identity", identity |-> identity]

MCSites ==
    { S(<<E(<<L("test")>>, 0), E(Root, 1), E(<<L("test"), V("variable")>>, 1)>>, MCPaths, 2),
      S(<<E(Root, 0), E(<<V("name")>>, 2), E(<<L("test")>>, 0), E(<<V("a"), V("b")>>, 1)>>, MCPaths, 2),
      S(<<E(Root, 0), LateMiddleware, E(Root, 2), E(<<V("a"), L("value")>>, 1)>>, MCPaths, 2),
      S(<<E(Root, 0), E(Root, 0)>>, {<<"">>}, 3),
      T(<<Tls(Default, TRUE, {"x"}), New(B), New(AB), Tls(B, TRUE, {"y"}), Late("z")>>),
      T(<<New(Default), Tls(Default, TRUE, {"x"}), New(B), Tls(B, TRUE, {"y"}), Child(BelowAB, B),
          New(AB), Tls(BelowAB, FALSE, {})>>),
      T(<<New(AB), Tls(AB, TRUE, {"x", "y"}), Child(Default, AB), Child(BelowAB, Default),
          Tls(BelowAB, TRUE, {"bad", "z"})>>),
      T(<<Tls(Default, TRUE, {"x", "bad"}), Tls(Default, TRUE, {"x"})>>),
      T(<<New(B), Child(Default, B)>>) }
=============================================================================
