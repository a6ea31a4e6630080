------------------------------ MODULE MCService -----------------------------
\* Domains with SVCB records, with SRV records of one service or both, with none, with an alias; signed,
\* unsigned and bogus answers; weights and priorities that differ or not; injected answers; queries
\* that fail.
EXTENDS Validator

D == <<"d", 0>>
H(l) == <<l, 1>>    \* a host name out of a record

\* The octets of texts, in labels, one of which has two; and of records as RFC 1035, 2782, 6698 and 9460
\* have them.
Labels == "d" :> <<<<100>>>> @@ "h" :> <<<<104>>>> @@ "k" :> <<<<107>>, <<1, 107>>>> @@ "l" :> <<<<108>>>>
            @@ "m" :> <<<<109>>>> @@ "xmpp-server" :> <<<<120>>>> @@ "h2" :> <<<<104, 2>>>> @@ "" :> <<>>
Dotted(labels) == IF labels = <<>> THEN <<>> ELSE Tail(FlattenSeq([i \in DOMAIN labels |-> <<46>> \o labels[i]]))
MCText == FoldSet(LAMBDA l, texts : texts @@ (Dotted(Labels[l]) :> l), <<>>, DOMAIN Labels)

Two(n) == <<n \div 256, n % 256>>
Counted8(octets) == <<Len(octets)>> \o octets
OfHost(host) == LET labels == Labels[host[1]]
                IN  FlattenSeq([i \in DOMAIN labels |-> Counted8(labels[i])]) \o <<0>>
OfSrv(rr) == Two(rr.priority) \o Two(rr.weight) \o Two(rr.port) \o OfHost(rr.host)
Param(key, value) == Two(key) \o Two(Len(value)) \o value
OfAlpn(alpn) == LET texts == SetToSeq(alpn)
                IN  FlattenSeq([i \in DOMAIN texts |-> Counted8(Dotted(Labels[texts[i]]))])
OfSvcb(rr) == Two(rr.priority) \o OfHost(rr.host)
                \o (IF rr.alpn = {} THEN <<>> ELSE Param(1, OfAlpn(rr.alpn)))
                \o (IF rr.port = 0 THEN <<>> ELSE Param(3, Two(rr.port)))
OfTlsa(rr) == <<rr.certUsage, rr.selector, rr.matchType>> \o rr.matchData

\* Every record is parsed to what it is, whatever parameters come after the known ones; one that is cut
\* short is not, unless what is cut off is parameters, and the octet after them.
Svcbs0 == [host : {H("h"), H("k"), H("")}, priority : {0, 257, 65535}, port : {0, 3, 5269},
           alpn : SUBSET {"xmpp-server", "h2"}]
ASSUME SvcbIsParsed ==
    \A rr \in Svcbs0 :
        LET w == OfSvcb(rr)
        IN  /\ SVCB(w) = rr
            /\ SVCB(w \o Param(5, <<1, 2>>) \o Param(65535, <<>>) \o <<0>>) = rr
            /\ SVCB(w \o Param(3, <<1, 2>>) \o Param(1, <<>>)) = Unparsed
            /\ SVCB(Two(1) \o OfHost(rr.host) \o Param(1, OfAlpn(rr.alpn) \o <<2, 104>>)) = Unparsed
            /\ \A n \in 0 .. Len(w) - 1 :
                  LET cut == SVCB(SubSeq(w, 1, n))
                  IN  cut = Unparsed \/ \E port \in {0, rr.port}, alpn \in {{}, rr.alpn} :
                                            cut = [rr EXCEPT !.port = port, !.alpn = alpn]
ASSUME SrvIsParsed ==
    \A rr \in [host : {H("h"), H("k"), H("")}, priority : {0, 257}, weight : {1, 256}, port : {5269, 65535},
               service : {"xmpp-server"}] :
        /\ SRV(OfSrv(rr), "xmpp-server") = rr
        /\ \A n \in 0 .. Len(OfSrv(rr)) - 1 : SRV(SubSeq(OfSrv(rr), 1, n), "xmpp-server") = Unparsed

R(secure, rrs, Of(_)) == [secure |-> secure, bogus |-> FALSE, rrs |-> rrs,
                          data |-> [i \in DOMAIN rrs |-> Of(rrs[i])]]
Same(address) == address

Svcb(l, priority, port, alpn) == [host |-> H(l), priority |-> priority, port |-> port, alpn |-> alpn]
Srv(service, l, port, priority, weight) ==
    [host |-> H(l), port |-> port, priority |-> priority, weight |-> weight, service |-> service]
Tlsa(data) == [certUsage |-> 3, selector |-> 1, matchType |-> 1, matchData |-> data]

SvcbOf(l) == <<"svcb", "xmpp-server", l>>
StartTlsOf(l) == <<"srv", "xmpp-server", l>>
DirectOf(l) == <<"srv", "xmpps-server", l>>
TlsaOf(l, port) == <<"tlsa", port, l>>

Z(dns) == [domain |-> D, dns |-> dns, fails |-> {}, required |-> FALSE, dnssec_only |-> FALSE,
           inject |-> <<>>, does |-> {"discovery", "lookup"}, verifies |-> FALSE, enabled |-> TRUE,
           fetch |-> TRUE, anchors |-> FALSE, peer |-> "cert", chain |-> <<>>, servers |-> <<>>]

Addresses6 == <<"aaaa", "", "h">> :> R(FALSE, <<"h6a", "h6b">>, Same)
Addresses4 == <<"a", "", "h">> :> R(FALSE, <<"h4">>, Same) @@ <<"a", "", "k">> :> R(FALSE, <<"k4">>, Same)
Tlsas == TlsaOf("h", 5269) :> R(TRUE, <<Tlsa(<<1>>), Tlsa(<<>>)>>, OfTlsa)
           @@ TlsaOf("k", 5270) :> R(TRUE, <<Tlsa(<<2, 3>>)>>, OfTlsa)
           @@ TlsaOf("l", 443) :> R(FALSE, <<Tlsa(<<4>>)>>, OfTlsa)
           @@ TlsaOf("d", 5269) :> R(TRUE, <<Tlsa(<<5>>)>>, OfTlsa)

SvcbAnswer(secure, rrs) == SvcbOf("d") :> R(secure, rrs, OfSvcb)
Svcbs(secure) == SvcbAnswer(secure, <<Svcb("h", 1, 0, {}), Svcb("k", 2, 0, {"xmpp-server"}),
                                      Svcb("l", 3, 0, {"h2"})>>)
StartTls(secure, rrs) == StartTlsOf("d") :> R(secure, rrs, OfSrv)
Direct(secure, rrs) == DirectOf("d") :> R(secure, rrs, OfSrv)
Srvs(secure, direct) ==
    StartTls(secure, <<Srv("xmpp-server", "h", 5269, 2, 1), Srv("xmpp-server", "k", 5269, 1, 0),
                       Srv("xmpp-server", "m", 5269, 1, 0)>>)
      @@ Direct(direct, <<Srv("xmpps-server", "k", 5270, 2, 0), Srv("xmpps-server", "h", 5270, 2, 3)>>)
OnlyStartTls == StartTls(TRUE, <<Srv("xmpp-server", "k", 5270, 1, 1)>>)
OnlyDirect == Direct(TRUE, <<Srv("xmpps-server", "k", 5270, 1, 1)>>)
Bogus == [SvcbAnswer(TRUE, <<Svcb("h", 1, 0, {})>>) EXCEPT ![SvcbOf("d")].bogus = TRUE]
All6 == Addresses6 @@ Addresses4 @@ Tlsas

\* The first record of an answer that is not what it should be.
Spoiled(dns, key, data) == [dns EXCEPT ![key].data[1] = data]
OutOfOrder == Two(1) \o OfHost(H("h")) \o Param(3, Two(5269)) \o Param(3, Two(5270))
CutShort == Two(1) \o Two(1) \o Two(5269) \o <<1, 107>>

InjectedSrv == [type |-> "srv", answer |-> [error |-> FALSE, dnssec |-> TRUE,
    rrs |-> <<[host |-> D, port |-> 111, weight |-> 1, priority |-> 1, service |-> "xmpp-server"],
              [host |-> D, port |-> 222, weight |-> 1, priority |-> 0, service |-> "xmpps-server"]>>]]
InjectedMore == [type |-> "srv", answer |-> [error |-> FALSE, dnssec |-> FALSE,
    rrs |-> <<[host |-> <<"h", 0>>, port |-> 333, weight |-> 0, priority |-> 0, service |-> "xmpp-server"]>>]]
InjectedAddress == [type |-> "address", answer |-> [error |-> FALSE, dnssec |-> FALSE,
    rrs |-> <<[family |-> "aaaa", addr |-> 1]>>]]
InjectedSvcb(priority) == [type |-> "svcb", answer |-> [error |-> FALSE, dnssec |-> TRUE,
    rrs |-> <<[host |-> <<"h", 0>>, priority |-> priority, port |-> 5269, alpn |-> {}]>>]]
InjectedTlsa == [type |-> "tlsa", answer |-> [error |-> FALSE, dnssec |-> TRUE, rrs |-> <<Tlsa(<<6>>)>>]]

\* Two verifications of a chain of two certificates with three CRLs.
V(dns) == [Z(dns) EXCEPT !.verifies = TRUE, !.does = {"discovery", "second"},
                         !.chain = <<{"u", "v"}, {"v", "w"}>>,
                         !.servers = [u \in {"u", "v", "w"} |-> {"crl"}]]
One(z) == [z EXCEPT !.does = {"discovery"}]
Missing == "u" :> {"crl", "none"} @@ "v" :> {"none"} @@ "w" :> {"crl"}
Odd == "u" :> {"crl"} @@ "v" :> {"exception"} @@ "w" :> {"crl"}
Silent == "u" :> {"crl", "never"} @@ "v" :> {"crl"} @@ "w" :> {"crl"}
Refusing == "u" :> {"crl", "refused"} @@ "v" :> {"none"} @@ "w" :> {"crl"}

Verifications ==
    { [V(SvcbAnswer(TRUE, <<Svcb("h", 1, 0, {})>>) @@ Tlsas) EXCEPT !.servers = Missing],
      V(OnlyStartTls @@ Tlsas),
      [V(All6) EXCEPT !.chain = <<{}>>],
      V(Spoiled(Svcbs(TRUE), SvcbOf("d"), OutOfOrder) @@ All6),
      One([V(Svcbs(TRUE) @@ All6) EXCEPT !.servers = Odd]),
      [V(Svcbs(TRUE) @@ All6) EXCEPT !.servers = Silent],
      [V(Svcbs(TRUE) @@ All6) EXCEPT !.servers = Refusing],
      One([V(Srvs(TRUE, TRUE) @@ All6) EXCEPT !.anchors = TRUE]),
      [V(Srvs(TRUE, TRUE) @@ All6) EXCEPT !.fetch = FALSE, !.does = {"discovery", "lookup"}],
      [V(Svcbs(TRUE) @@ All6) EXCEPT !.fails = {TlsaOf("k", 5270)}, !.chain = <<{"u"}>>],
      One([V(All6) EXCEPT !.enabled = FALSE]),
      One([V(All6) EXCEPT !.peer = "no cert"]) }

MCZones ==
    Verifications \cup
    { Z(Svcbs(TRUE) @@ Srvs(TRUE, TRUE) @@ All6),
      Z(Svcbs(FALSE) @@ All6),
      Z(Srvs(TRUE, TRUE) @@ All6),
      Z(Srvs(TRUE, FALSE) @@ All6),
      Z(Srvs(FALSE, FALSE) @@ Tlsas),
      Z(Spoiled(Srvs(TRUE, TRUE), DirectOf("d"), CutShort) @@ Tlsas),
      Z(OnlyDirect @@ All6),
      Z(All6),
      Z(SvcbAnswer(TRUE, <<Svcb("h", 0, 0, {})>>) @@ All6),
      [Z(Srvs(FALSE, FALSE) @@ All6) EXCEPT !.required = TRUE],
      [Z(Srvs(FALSE, TRUE)) EXCEPT !.dnssec_only = TRUE],
      [Z(Bogus @@ Srvs(TRUE, TRUE)) EXCEPT !.dnssec_only = TRUE],
      [Z(Srvs(TRUE, TRUE) @@ All6) EXCEPT !.fails = {TlsaOf("k", 5270), <<"a", "", "m">>}],
      [Z(All6) EXCEPT !.inject = <<InjectedSrv, InjectedAddress>>],
      [Z(All6) EXCEPT !.inject = <<InjectedSvcb(1), InjectedTlsa>>],
      [Z(All6) EXCEPT !.inject = <<InjectedSvcb(0)>>],
      [Z(All6) EXCEPT !.inject = <<InjectedSrv, InjectedMore>>] }
=============================================================================
