----------------------------- MODULE Discovery ------------------------------
(***************************************************************************)
(* covent::Service::Entry::discovery: which host names and TLSA records of *)
(* a domain DNSSEC vouches for.  SVCB records come first, with their       *)
(* aliases; without any, the SRV records of both services; without those,  *)
(* the domain itself.  For each target its TLSA records are looked up.     *)
(***************************************************************************)
EXTENDS Resolver

CONSTANT Discoverers

ASSUME DiscoveryAssumption == Discoverers \subseteq Tasks \ Generators

VARIABLES step,      \* where discovery() is
          domain,    \* domain
          dnssec,    \* dnssec
          records,   \* the records of its loop that are still to be looked at
          hosts,     \* g.gathered_hosts
          tlsas      \* g.gathered_tlsa

discovery == <<step, domain, dnssec, records, hosts, tlsas>>

DiscoveryInit == /\ step = [t \in Discoverers |-> "idle"]
                 /\ domain = [t \in Discoverers |-> zone.domain]
                 /\ dnssec = [t \in Discoverers |-> TRUE]
                 /\ records = [t \in Discoverers |-> <<>>]
                 /\ hosts = [t \in Discoverers |-> {}]
                 /\ tlsas = [t \in Discoverers |-> <<>>]

Steps == {"idle", "svcb", "srv", "records", "tlsa", "done"}

At(t, now) == Answered(t) /\ step[t] = now
To(t, next) == step' = [step EXCEPT ![t] = next]

-----------------------------------------------------------------------------
Start(t) ==
    /\ Idle /\ step[t] = "idle"
    /\ Await(t, <<svcb("xmpp-server", zone.domain)>>)
    /\ To(t, "svcb")
    /\ UNCHANGED <<domain, dnssec, records, hosts, tlsas>>

\* What it takes to go on trusting what is found.
AnySigned(t, answer) == dnssec[t]
StillSigned(t, answer) == dnssec[t] /\ answer.dnssec

Usable(answer) == ~answer.error /\ answer.rrs # <<>>

\* The records as the loops see them: a host, a port, whether the answer was signed, whether the
\* record is an alias.
Port(rr) == IF rr.port # 0 THEN rr.port
            ELSE IF rr.alpn = {} THEN 5269 ELSE IF "xmpp-server" \in rr.alpn THEN 5270 ELSE 443
SvcbRecords(answer) ==
    [i \in DOMAIN answer.rrs |->
        [host |-> answer.rrs[i].host, port |-> Port(answer.rrs[i]), signed |-> answer.dnssec,
         alias |-> answer.rrs[i].priority = 0]]
SrvRecords(answer) ==
    [i \in DOMAIN answer.rrs |->
        [host |-> answer.rrs[i].host, port |-> answer.rrs[i].port, signed |-> answer.dnssec,
         alias |-> FALSE]]

SvcbAnswered(t) ==
    /\ At(t, "svcb")
    /\ LET answer == got[t][1]
       IN  IF Usable(answer)
           THEN /\ dnssec' = [dnssec EXCEPT ![t] = StillSigned(t, answer)]
                /\ records' = [records EXCEPT ![t] = SvcbRecords(answer)]
                /\ To(t, "records") /\ GoOn(t, t)
           ELSE /\ Await(t, <<srv("xmpp-server", domain[t]), srv("xmpps-server", domain[t])>>)
                /\ To(t, "srv")
                /\ UNCHANGED <<dnssec, records>>
    /\ UNCHANGED <<domain, hosts, tlsas>>

\* Both loops over SRV records depend on the answer for xmpp-server, and so does dnssec.
SrvAnswered(t) ==
    /\ At(t, "srv")
    /\ LET starttls == got[t][1]
           direct == got[t][2]
       IN  IF Usable(starttls)
           THEN /\ records' = [records EXCEPT ![t] = SrvRecords(starttls) \o SrvRecords(direct)]
                /\ dnssec' = [dnssec EXCEPT ![t] = StillSigned(t, starttls)]
           ELSE /\ records' = [records EXCEPT ![t] =
                        <<[host |-> domain[t], port |-> 5269, signed |-> FALSE, alias |-> FALSE]>>]
                /\ UNCHANGED dnssec
    /\ To(t, "records") /\ GoOn(t, t)
    /\ UNCHANGED <<domain, hosts, tlsas>>

\* One turn of a loop over records: the host, an alias, the TLSA records.
Record(t) ==
    /\ Runs(t) /\ step[t] = "records" /\ records[t] # <<>>
    /\ LET rr == Head(records[t])
       IN  /\ hosts' = [hosts EXCEPT ![t] = IF rr.signed THEN @ \cup {rr.host} ELSE @]
           /\ IF rr.alias
              THEN /\ domain' = [domain EXCEPT ![t] = rr.host]
                   /\ records' = [records EXCEPT ![t] = <<>>]
                   /\ Await(t, <<svcb("xmpp-server", rr.host)>>)
                   /\ To(t, "svcb")
              ELSE /\ records' = [records EXCEPT ![t] = Tail(@)]
                   /\ UNCHANGED domain
                   /\ IF dnssec[t]
                      THEN Await(t, <<tlsa(rr.port, rr.host)>>) /\ To(t, "tlsa")
                      ELSE UNCHANGED <<resolver, step>>
    /\ UNCHANGED <<dnssec, tlsas>>

\* discover_tlsa(), answered.
TlsaAnswered(t) ==
    /\ At(t, "tlsa")
    /\ LET answer == got[t][1]
       IN  tlsas' = [tlsas EXCEPT ![t] = IF answer.error \/ ~answer.dnssec THEN @
                                         ELSE @ \o answer.rrs]
    /\ To(t, "records") /\ GoOn(t, t)
    /\ UNCHANGED <<domain, dnssec, records, hosts>>

Finish(t) ==
    /\ Runs(t) /\ step[t] = "records" /\ records[t] = <<>>
    /\ To(t, "done") /\ GoOn(t, "none")
    /\ UNCHANGED <<domain, dnssec, records, hosts, tlsas>>

Discover(t) == \/ SvcbAnswered(t) \/ SrvAnswered(t) \/ Record(t) \/ TlsaAnswered(t) \/ Finish(t)

-----------------------------------------------------------------------------
(* Properties.                                                             *)

\* What discovery is for: the records of the SVCB answer or else of both SRV answers, or else the
\* domain; the hosts that signed answers name; and the signed TLSA records of the hosts and ports
\* that the signed answers name.
Targets ==
    LET d == zone.domain
        first == Answer(svcb("xmpp-server", d))
        starttls == Answer(srv("xmpp-server", d))
        direct == Answer(srv("xmpps-server", d))
        both == SrvRecords(starttls) \o SrvRecords(direct)
    IN  IF Usable(first) THEN SvcbRecords(first) ELSE both

VerifiedTlsas(targets) ==
    FlattenSeq([i \in DOMAIN targets |->
        LET answer == Answer(tlsa(targets[i].port, targets[i].host))
        IN  IF targets[i].signed /\ answer.dnssec THEN answer.rrs ELSE <<>>])

\* The code follows one path for both services: where only one of them has records, or only one of
\* the answers is signed, it does something else, and an alias never leads anywhere.
Plain ==
    LET starttls == Answer(srv("xmpp-server", zone.domain))
        direct == Answer(srv("xmpps-server", zone.domain))
    IN  /\ starttls.dnssec = direct.dnssec \/ direct.rrs = <<>>
        /\ Usable(starttls) \/ direct.rrs = <<>>
        /\ \A i \in DOMAIN Targets : ~Targets[i].alias

SignedHosts == {Targets[i].host : i \in {i \in DOMAIN Targets : Targets[i].signed}}
SignedTlsas == IF Targets # <<>> THEN VerifiedTlsas(Targets)
               ELSE LET answer == Answer(tlsa(5269, zone.domain))
                    IN  IF answer.dnssec THEN answer.rrs ELSE <<>>

\* What was gathered is what DNSSEC vouches for, all of it and nothing else ("verified", service.h:36),
\* in whatever order the answers came and whatever else was asked meanwhile.
GathersVerified ==
    \A t \in Discoverers :
        step[t] = "done" /\ Plain => hosts[t] = SignedHosts /\ tlsas[t] = SignedTlsas
=============================================================================
