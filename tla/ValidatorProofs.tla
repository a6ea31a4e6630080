--------------------------- MODULE ValidatorProofs ---------------------------
(***************************************************************************)
(* Proofs about Discovery and Validator, for any verifications, lookups    *)
(* and zones: what is gathered is what DNSSEC vouches for, a Validator     *)
(* does to a Service what a Service allows, and collects every CRL that    *)
(* its server always has.                                                  *)
(***************************************************************************)
EXTENDS Validator, ServiceProofs

-----------------------------------------------------------------------------
(* Discoveries.                                                            *)

First == Answer(svcb("xmpp-server", zone.domain))
StartTls == Answer(srv("xmpp-server", zone.domain))
Direct == Answer(srv("xmpps-server", zone.domain))

\* What discovery() works through, whether that is signed, and what it gathers as far as k.
Fallback == [host |-> zone.domain, port |-> 5269, signed |-> FALSE, alias |-> FALSE]
Work == IF Targets # <<>> THEN Targets ELSE <<Fallback>>
Trusted == Targets # <<>> => Targets[1].signed
HostsOf(k) == {Work[i].host : i \in {i \in 1 .. k : Work[i].signed}}
TlsasOf == [i \in 1 .. Len(Work) |->
               LET answer == Answer(tlsa(Work[i].port, Work[i].host))
               IN  IF (Targets = <<>> \/ Work[i].signed) /\ answer.dnssec THEN answer.rrs ELSE <<>>]
Gathering(f, ss, n) ==
    /\ f[0] = <<>> /\ f[n] = FlattenSeq(ss)
    /\ \A i \in 0 .. n : IsList(f[i])
    /\ \A i \in 1 .. n : f[i] = f[i - 1] \o ss[i]
SomeGathering(ss, n) == CHOOSE f : Gathering(f, ss, n)
Gathered == SomeGathering(TlsasOf, Len(Work))

\* Records out of an answer.
LEMMA RecordsOf ==
    ASSUME NEW a, IsAnswer(a)
    PROVE  /\ IsList(SvcbRecords(a)) /\ Len(SvcbRecords(a)) = Len(a.rrs)
           /\ IsList(SrvRecords(a)) /\ Len(SrvRecords(a)) = Len(a.rrs)
           /\ \A i \in 1 .. Len(a.rrs) :
                 /\ SvcbRecords(a)[i].signed = a.dnssec
                 /\ SrvRecords(a)[i].signed = a.dnssec /\ SrvRecords(a)[i].alias = FALSE
<1> DEFINE n == Len(a.rrs)
           v(i) == [host |-> a.rrs[i].host, port |-> Port(a.rrs[i]), signed |-> a.dnssec,
                    alias |-> a.rrs[i].priority = 0]
           r(i) == [host |-> a.rrs[i].host, port |-> a.rrs[i].port, signed |-> a.dnssec, alias |-> FALSE]
<1>1. n \in Nat /\ DOMAIN a.rrs = 1 .. n
  BY DEF IsAnswer, IsList
<1>2. SvcbRecords(a) = [i \in 1 .. n |-> v(i)] /\ SrvRecords(a) = [i \in 1 .. n |-> r(i)]
  BY <1>1 DEF SvcbRecords, SrvRecords
<1>3. ASSUME NEW i PROVE v(i).signed = a.dnssec /\ r(i).signed = a.dnssec /\ r(i).alias = FALSE
  OBVIOUS
<1> HIDE DEF n, v, r
<1>4. [i \in 1 .. n |-> v(i)] \in Seq({v(i) : i \in 1 .. n}) /\ Len([i \in 1 .. n |-> v(i)]) = n
  BY <1>1
<1>5. [i \in 1 .. n |-> r(i)] \in Seq({r(i) : i \in 1 .. n}) /\ Len([i \in 1 .. n |-> r(i)]) = n
  BY <1>1
<1>6. /\ IsList([i \in 1 .. n |-> v(i)]) /\ IsList([i \in 1 .. n |-> r(i)])
  BY <1>4, <1>5, ListOf
<1>7. \A i \in 1 .. n : [j \in 1 .. n |-> v(j)][i].signed = a.dnssec
                       /\ [j \in 1 .. n |-> r(j)][i].signed = a.dnssec /\ [j \in 1 .. n |-> r(j)][i].alias = FALSE
  BY <1>3
<1> QED
  BY <1>2, <1>4, <1>5, <1>6, <1>7 DEF n

LEMMA WorkIs ==
    ASSUME Injections, Plain
    PROVE  /\ IsList(Work) /\ Len(Work) \in Nat \ {0}
           /\ \A i \in 1 .. Len(Work) : ~Work[i].alias
           /\ Targets # <<>> => \A i \in 1 .. Len(Work) : Work[i].signed = Trusted
           /\ Targets = <<>> => Work = <<Fallback>> /\ Trusted
           /\ Trusted \in BOOLEAN
           /\ Usable(First) => Work = SvcbRecords(First) /\ Trusted = First.dnssec
           /\ ~Usable(First) /\ Usable(StartTls) =>
                 Work = SrvRecords(StartTls) \o SrvRecords(Direct) /\ Trusted = StartTls.dnssec
           /\ ~Usable(First) /\ ~Usable(StartTls) => Targets = <<>>
<1>1. IsAnswer(First) /\ IsAnswer(StartTls) /\ IsAnswer(Direct)
  BY AnswersAre DEF First, StartTls, Direct
<1>2. /\ Targets = IF Usable(First) THEN SvcbRecords(First) ELSE SrvRecords(StartTls) \o SrvRecords(Direct)
      /\ StartTls.dnssec = Direct.dnssec \/ Direct.rrs = <<>>
      /\ Usable(StartTls) \/ Direct.rrs = <<>>
      /\ \A i \in DOMAIN Targets : ~Targets[i].alias
  BY DEF Targets, Plain, First, StartTls, Direct
<1> HIDE DEF First, StartTls, Direct
<1>3. Trusted \in BOOLEAN
  BY DEF Trusted
<1>4. CASE Usable(First)
  <2> DEFINE a == First
  <2>1. a.rrs # <<>> /\ IsList(a.rrs) /\ a.dnssec \in BOOLEAN
    BY <1>1, <1>4 DEF Usable, IsAnswer
  <2>2. Len(a.rrs) \in Nat \ {0}
    BY <2>1, EmptySeq DEF IsList
  <2>3. IsList(Targets) /\ Len(Targets) \in Nat \ {0} /\ \A i \in 1 .. Len(Targets) : Targets[i].signed = a.dnssec
    BY <1>1, <1>2, <1>4, <2>2, RecordsOf
  <2>4. Targets # <<>> /\ 1 \in 1 .. Len(Targets) /\ DOMAIN Targets = 1 .. Len(Targets)
    BY <2>3 DEF IsList
  <2> HIDE DEF a
  <2>5. Trusted = a.dnssec
    BY <2>1, <2>3, <2>4 DEF Trusted
  <2> QED
    BY <1>2, <1>3, <1>4, <2>3, <2>4, <2>5 DEF Work, a
<1>5. CASE ~Usable(First) /\ Usable(StartTls)
  <2> DEFINE r == SrvRecords(StartTls)
             s == SrvRecords(Direct)
  <2>1. StartTls.rrs # <<>> /\ IsList(StartTls.rrs) /\ StartTls.dnssec \in BOOLEAN /\ IsList(Direct.rrs)
    BY <1>1, <1>5 DEF Usable, IsAnswer
  <2>2. Len(StartTls.rrs) \in Nat \ {0} /\ Len(Direct.rrs) \in Nat
    BY <2>1, EmptySeq DEF IsList
  <2>3. /\ IsList(r) /\ Len(r) \in Nat \ {0} /\ \A i \in 1 .. Len(r) : r[i].signed = StartTls.dnssec
    BY <1>1, <2>2, RecordsOf
  <2>4. /\ IsList(s) /\ Len(s) \in Nat /\ \A i \in 1 .. Len(s) : s[i].signed = StartTls.dnssec
    <3>1. IsList(s) /\ Len(s) = Len(Direct.rrs) /\ \A i \in 1 .. Len(s) : s[i].signed = Direct.dnssec
      BY <1>1, RecordsOf
    <3>2. Direct.rrs = <<>> => Len(Direct.rrs) = 0
      OBVIOUS
    <3> HIDE DEF s
    <3> QED
      BY <1>2, <2>2, <3>1, <3>2
  <2>5. Targets = r \o s
    BY <1>2, <1>5
  <2> HIDE DEF r, s
  <2>6. /\ IsList(Targets) /\ Len(Targets) = Len(r) + Len(s)
        /\ \A i \in 1 .. Len(Targets) : Targets[i] = IF i <= Len(r) THEN r[i] ELSE s[i - Len(r)]
    <3>1. r \in Seq(ToSet(r) \cup ToSet(s)) /\ s \in Seq(ToSet(r) \cup ToSet(s))
      BY <2>3, <2>4 DEF IsList
    <3> QED
      BY <2>3, <2>4, <2>5, <3>1, Joined, ConcatProperties
  <2>7. \A i \in 1 .. Len(Targets) : Targets[i].signed = StartTls.dnssec
    <3> TAKE i \in 1 .. Len(Targets)
    <3>1. i <= Len(r) => i \in 1 .. Len(r)
      BY <2>3
    <3>2. ~(i <= Len(r)) => i - Len(r) \in 1 .. Len(s)
      BY <2>3, <2>4, <2>6
    <3> QED
      BY <2>3, <2>4, <2>6, <3>1, <3>2
  <2>8. Len(Targets) \in Nat \ {0} /\ Targets # <<>> /\ 1 \in 1 .. Len(Targets) /\ DOMAIN Targets = 1 .. Len(Targets)
    BY <2>3, <2>4, <2>6 DEF IsList
  <2>9. Trusted = StartTls.dnssec
    BY <2>1, <2>7, <2>8 DEF Trusted
  <2> QED
    BY <1>2, <1>3, <1>5, <2>5, <2>6, <2>7, <2>8, <2>9 DEF Work, r, s
<1>6. CASE ~Usable(First) /\ ~Usable(StartTls)
  <2>1. StartTls.rrs = <<>> /\ Direct.rrs = <<>>
    BY <1>1, <1>2, <1>6 DEF Usable, IsAnswer
  <2>2. SrvRecords(StartTls) = <<>> /\ SrvRecords(Direct) = <<>>
    BY <2>1 DEF SrvRecords
  <2>3. Targets = <<>>
    BY <1>2, <1>6, <2>2
  <2>4. IsList(<<Fallback>>) /\ Len(<<Fallback>>) = 1 /\ <<Fallback>>[1] = Fallback /\ ~Fallback.alias
    <3>1. ~Fallback.alias
      BY DEF Fallback
    <3>2. <<Fallback>> \in Seq({Fallback})
      OBVIOUS
    <3>3. IsList(<<Fallback>>)
      BY <3>2, ListOf
    <3> QED
      BY <3>1, <3>3
  <2> QED
    BY <1>3, <1>6, <2>3, <2>4 DEF Work, Trusted
<1> QED
  BY <1>4, <1>5, <1>6

LEMMA GatheredIs ==
    ASSUME Injections, Plain
    PROVE  Gathering(Gathered, TlsasOf, Len(Work))
<1> DEFINE n == Len(Work)
           v(i) == LET answer == Answer(tlsa(Work[i].port, Work[i].host))
                   IN  IF (Targets = <<>> \/ Work[i].signed) /\ answer.dnssec THEN answer.rrs ELSE <<>>
           S == UNION {ToSet(v(i)) : i \in 1 .. n}
<1>1. n \in Nat
  BY WorkIs
<1>2. TlsasOf = [i \in 1 .. n |-> v(i)]
  BY DEF TlsasOf
<1>3. \A i \in 1 .. n : v(i) \in Seq(S)
  <2> TAKE i \in 1 .. n
  <2>1. IsList(v(i))
    <3>1. IsList(Answer(tlsa(Work[i].port, Work[i].host)).rrs)
      BY AnswersAre DEF IsAnswer
    <3>2. IsList(<<>>)
      BY DEF IsList
    <3> QED
      BY <3>1, <3>2
  <2>2. ToSet(v(i)) \subseteq S
    OBVIOUS
  <2> HIDE DEF v, S
  <2> QED
    BY <2>1, <2>2 DEF IsList
<1> HIDE DEF n, v, S
<1>4. TlsasOf \in Seq(Seq(S)) /\ Len(TlsasOf) = n
  BY <1>1, <1>2, <1>3
<1>5. PICK f \in [0 .. n -> Seq(S)] :
          /\ f[0] = <<>> /\ f[n] = FlattenSeq(TlsasOf)
          /\ \A i \in 1 .. n : f[i] = f[i - 1] \o TlsasOf[i]
  BY <1>4, Flattened
<1>6. \A i \in 0 .. n : IsList(f[i])
  BY <1>5, ListOf
<1>7. Gathering(f, TlsasOf, Len(Work))
  BY <1>5, <1>6 DEF Gathering, n
<1> QED
  BY <1>7 DEF Gathered, SomeGathering

\* All of it is what GathersVerified asks for.
LEMMA GatheredIsVerified ==
    ASSUME Injections, Plain
    PROVE  HostsOf(Len(Work)) = SignedHosts /\ Gathered[Len(Work)] = SignedTlsas
<1>1. CASE Targets # <<>>
  <2>1. Work = Targets /\ DOMAIN Targets = 1 .. Len(Work)
    BY <1>1, WorkIs DEF Work, IsList
  <2>2. HostsOf(Len(Work)) = SignedHosts
    BY <2>1 DEF HostsOf, SignedHosts
  <2>3. TlsasOf = [i \in DOMAIN Targets |->
                      LET answer == Answer(tlsa(Targets[i].port, Targets[i].host))
                      IN  IF Targets[i].signed /\ answer.dnssec THEN answer.rrs ELSE <<>>]
    BY <1>1, <2>1 DEF TlsasOf
  <2>4. SignedTlsas = FlattenSeq(TlsasOf)
    BY <1>1, <2>3 DEF SignedTlsas, VerifiedTlsas
  <2> QED
    BY <2>2, <2>4, GatheredIs DEF Gathering
<1>2. CASE Targets = <<>>
  <2>1. Work = <<Fallback>> /\ Len(Work) = 1 /\ Work[1] = Fallback
    BY <1>2 DEF Work
  <2>2. HostsOf(Len(Work)) = {} /\ SignedHosts = {}
    BY <1>2, <2>1 DEF HostsOf, SignedHosts, Fallback
  <2>3. TlsasOf[1] = SignedTlsas
    BY <1>2, <2>1 DEF TlsasOf, SignedTlsas, Fallback
  <2>4. Gathered[1] = Gathered[0] \o TlsasOf[1] /\ Gathered[0] = <<>>
    <3>1. Gathering(Gathered, TlsasOf, Len(Work))
      BY GatheredIs
    <3>2. 1 \in 1 .. Len(Work) /\ 1 - 1 = 0
      BY <2>1
    <3> QED
      BY <3>1, <3>2 DEF Gathering
  <2>5. IsList(SignedTlsas)
    <3>1. IsList(Answer(tlsa(5269, zone.domain)).rrs) /\ IsList(<<>>)
      BY AnswersAre DEF IsAnswer, IsList
    <3> QED
      BY <1>2, <3>1 DEF SignedTlsas
  <2>6. Gathered[1] = SignedTlsas
    BY <2>3, <2>4, <2>5 DEF IsList
  <2> QED
    BY <2>1, <2>2, <2>6
<1> QED
  BY <1>1, <1>2

\* Before the answers a discovery trusts, and has nothing.
Clean(t) == dnssec[t] = TRUE /\ domain[t] = zone.domain /\ hosts[t] = {} /\ tlsas[t] = <<>>

\* An exception may have ended it.
Awaits(t, q) == waiting[t] \in {<<>>, q}

AsksSvcb == <<svcb("xmpp-server", zone.domain)>>
AsksSrv == <<srv("xmpp-server", zone.domain), srv("xmpps-server", zone.domain)>>
AsksTlsa(k) == <<tlsa(Work[k].port, Work[k].host)>>

\* The first k records have been through the loop.
Through(t, k) ==
    dnssec[t] = Trusted /\ records[t] = SubSeq(Work, k + 1, Len(Work)) /\ hosts[t] = HostsOf(k)

Gathers(t) ==
    /\ step[t] = "svcb" => Clean(t) /\ Awaits(t, AsksSvcb)
    /\ step[t] = "srv" => Clean(t) /\ Awaits(t, AsksSrv) /\ ~Usable(First)
    /\ step[t] = "records" => \E k \in 0 .. Len(Work) : Through(t, k) /\ tlsas[t] = Gathered[k]
    /\ step[t] = "tlsa" => \E k \in 1 .. Len(Work) : /\ Through(t, k) /\ tlsas[t] = Gathered[k - 1]
                                                      /\ Trusted /\ Awaits(t, AsksTlsa(k))
    /\ step[t] = "done" => hosts[t] = HostsOf(Len(Work)) /\ tlsas[t] = Gathered[Len(Work)]

OnCourse(t) == (step[t] = "idle" => Clean(t)) /\ (Plain => Gathers(t))

DiscoveriesInv ==
    /\ domain = [t \in Discoverers |-> domain[t]] /\ records = [t \in Discoverers |-> records[t]]
    /\ hosts = [t \in Discoverers |-> hosts[t]] /\ tlsas = [t \in Discoverers |-> tlsas[t]]
    /\ \A t \in Discoverers : OnCourse(t)

LEMMA DiscoveriesInit == ServiceInit => DiscoveriesInv
  BY DEF ServiceInit, Init, DiscoveryInit, DiscoveriesInv, OnCourse, Gathers, Clean

\* What discovery() should gather stays the same.
LEMMA StillGathers ==
    ASSUME Injections, Still
    PROVE  /\ Plain' <=> Plain
           /\ First' = First /\ Work' = Work /\ Trusted' = Trusted /\ Gathered' = Gathered
           /\ \A k : HostsOf(k)' = HostsOf(k) /\ AsksTlsa(k)' = AsksTlsa(k)
           /\ AsksSvcb' = AsksSvcb /\ AsksSrv' = AsksSrv
<1>1. (\A q : Answer(q)' = Answer(q)) /\ zone' = zone
  BY StillInjected DEF Still
<1>2. First' = First /\ StartTls' = StartTls /\ Direct' = Direct /\ Fallback' = Fallback
  BY <1>1 DEF First, StartTls, Direct, Fallback
<1>3. Targets' = Targets
  BY <1>1 DEF Targets
<1>4. Work' = Work /\ Trusted' = Trusted
  BY <1>2, <1>3 DEF Work, Trusted
<1>5. Plain' <=> Plain
  BY <1>1, <1>3 DEF Plain
<1>6. TlsasOf' = TlsasOf
  BY <1>1, <1>3, <1>4 DEF TlsasOf
<1>7. Gathered' = Gathered
  BY <1>4, <1>6 DEF Gathered
<1>8. \A k : HostsOf(k)' = HostsOf(k) /\ AsksTlsa(k)' = AsksTlsa(k)
  BY <1>4 DEF HostsOf, AsksTlsa
<1>9. AsksSvcb' = AsksSvcb /\ AsksSrv' = AsksSrv
  BY <1>1 DEF AsksSvcb, AsksSrv
<1> QED
  BY <1>2, <1>4, <1>5, <1>7, <1>8, <1>9

\* A discovery is not concerned with what another coroutine does, or goes no further.
LEMMA DiscoversOn ==
    ASSUME Injections, Still, NEW t, OnCourse(t), waiting'[t] \in {<<>>, waiting[t]}, step'[t] = step[t],
           domain'[t] = domain[t], dnssec'[t] = dnssec[t], records'[t] = records[t],
           hosts'[t] = hosts[t], tlsas'[t] = tlsas[t]
    PROVE  OnCourse(t)'
<1>1. Clean(t)' <=> Clean(t)
  BY DEF Clean, Still
<1>2. \A k : Through(t, k)' <=> Through(t, k)
  BY StillGathers DEF Through
<1>3. ASSUME NEW q, Awaits(t, q) PROVE waiting'[t] \in {<<>>, q}
  BY <1>3 DEF Awaits
<1>4. Plain => (Usable(First)' <=> Usable(First))
  BY StillGathers DEF Usable
<1>5. ASSUME Plain, Gathers(t) PROVE Gathers(t)'
  BY <1>1, <1>2, <1>3, <1>4, <1>5, StillGathers DEF Gathers, Awaits
<1> QED
  BY <1>1, <1>5, StillGathers DEF OnCourse

\* What a step of a discovery leaves to the others.
Alone(t) ==
    /\ Still
    /\ \A u \in Discoverers \ {t} :
          /\ waiting'[u] = waiting[u] /\ step'[u] = step[u] /\ domain'[u] = domain[u] /\ dnssec'[u] = dnssec[u]
          /\ records'[u] = records[u] /\ hosts'[u] = hosts[u] /\ tlsas'[u] = tlsas[u]
    /\ domain' = [u \in Discoverers |-> domain'[u]] /\ records' = [u \in Discoverers |-> records'[u]]
    /\ hosts' = [u \in Discoverers |-> hosts'[u]] /\ tlsas' = [u \in Discoverers |-> tlsas'[u]]

LEMMA AloneDiscovers ==
    ASSUME Injections, DiscoveriesInv, NEW t \in Discoverers, Alone(t), OnCourse(t)'
    PROVE  DiscoveriesInv'
<1>1. ASSUME NEW u \in Discoverers \ {t} PROVE OnCourse(u)'
  BY <1>1, DiscoversOn DEF DiscoveriesInv, Alone
<1> QED
  BY <1>1 DEF DiscoveriesInv, Alone

LEMMA StartDiscovers ==
    ASSUME Inv, Answers, Types, DiscoveriesInv, NEW t \in Discoverers, Start(t), t \in Tasks
    PROVE  DiscoveriesInv'
<1>1. /\ Clean(t) /\ step' = [step EXCEPT ![t] = "svcb"] /\ waiting' = [waiting EXCEPT ![t] = AsksSvcb] /\ Still
      /\ UNCHANGED <<domain, dnssec, records, hosts, tlsas>>
  BY DEF Start, Idle, Await, To, Still, DiscoveriesInv, OnCourse, AsksSvcb
<1>2. step'[t] = "svcb" /\ waiting'[t] = AsksSvcb
  BY <1>1 DEF Inv, Queries, Types
<1>3. Alone(t)
  BY <1>1, Apart DEF Alone, Inv, Queries, DiscoveriesInv
<1>4. Clean(t)' /\ Awaits(t, AsksSvcb)'
  BY <1>1, <1>2, StillGathers DEF Clean, Still, Awaits, Answers
<1>5. OnCourse(t)'
  BY <1>2, <1>4 DEF OnCourse, Gathers
<1> QED
  BY <1>3, <1>5, AloneDiscovers DEF Answers

\* What a discovery has got when it runs.
LEMMA GotIs ==
    ASSUME Answers, NEW t \in Tasks, running = t, NEW q, waiting[t] = q, NEW i \in DOMAIN q,
           q[i][1] \notin {"a", "aaaa"}
    PROVE  /\ got[t][i].error = Answer(q[i]).error /\ got[t][i].dnssec = Answer(q[i]).dnssec
           /\ got[t][i].rrs = Answer(q[i]).rrs
  BY DEF Answers, Gets, Means

LEMMA RunsDiscover ==
    ASSUME Inv, Answers, NEW t \in Discoverers, Discover(t)
    PROVE  t \in Tasks /\ running = t /\ toInject = <<>>
<1>1. t \in Tasks /\ running = t
  BY Apart DEF Discover, SvcbAnswered, SrvAnswered, Record, TlsaAnswered, Finish, At, Answered, Runs
<1> QED
  BY <1>1, Apart, RunsStill

LEMMA NothingGathered ==
    ASSUME Injections, Plain
    PROVE  HostsOf(0) = {} /\ Gathered[0] = <<>> /\ SubSeq(Work, 0 + 1, Len(Work)) = Work
<1>1. HostsOf(0) = {}
  BY DEF HostsOf
<1>2. Gathered[0] = <<>>
  BY GatheredIs DEF Gathering
<1>3. Work \in Seq(ToSet(Work))
  BY WorkIs DEF IsList
<1> QED
  BY <1>1, <1>2, <1>3, SubSeqFull

LEMMA AloneIs ==
    ASSUME Inv, Types, DiscoveriesInv, NEW t \in Discoverers, Still,
           UNCHANGED waiting \/ \E q : waiting' = [waiting EXCEPT ![t] = q],
           UNCHANGED step \/ \E next : step' = [step EXCEPT ![t] = next],
           UNCHANGED domain \/ \E d : domain' = [domain EXCEPT ![t] = d],
           UNCHANGED dnssec \/ \E b : dnssec' = [dnssec EXCEPT ![t] = b],
           UNCHANGED records \/ \E s : records' = [records EXCEPT ![t] = s],
           UNCHANGED hosts \/ \E h : hosts' = [hosts EXCEPT ![t] = h],
           UNCHANGED tlsas \/ \E s : tlsas' = [tlsas EXCEPT ![t] = s]
    PROVE  Alone(t)
<1>1. \A u \in Discoverers \ {t} : u \in Tasks \ {t}
  BY Apart
<1>2. \A u \in Discoverers \ {t} : waiting'[u] = waiting[u]
  BY <1>1 DEF Inv, Queries
<1>3. \A u \in Discoverers \ {t} : step'[u] = step[u] /\ dnssec'[u] = dnssec[u]
  BY DEF Types
<1>4. /\ \A u \in Discoverers \ {t} : domain'[u] = domain[u] /\ records'[u] = records[u]
      /\ domain' = [u \in Discoverers |-> domain'[u]] /\ records' = [u \in Discoverers |-> records'[u]]
  BY DEF DiscoveriesInv
<1>5. /\ \A u \in Discoverers \ {t} : hosts'[u] = hosts[u] /\ tlsas'[u] = tlsas[u]
      /\ hosts' = [u \in Discoverers |-> hosts'[u]] /\ tlsas' = [u \in Discoverers |-> tlsas'[u]]
  BY DEF DiscoveriesInv
<1> QED
  BY <1>2, <1>3, <1>4, <1>5 DEF Alone

\* The loop begins.
LEMMA BeginsToGather ==
    ASSUME Injections, Plain, Still, NEW t, step'[t] = "records", records'[t] = Work, dnssec'[t] = Trusted,
           hosts'[t] = {}, tlsas'[t] = <<>>
    PROVE  Gathers(t)'
<1>1. Through(t, 0)'
  BY NothingGathered, StillGathers DEF Through
<1>2. tlsas'[t] = Gathered'[0]
  BY NothingGathered, StillGathers
<1>3. 0 \in 0 .. Len(Work)'
  BY WorkIs, StillGathers
<1> QED
  BY <1>1, <1>2, <1>3 DEF Gathers

LEMMA SvcbDiscovers ==
    ASSUME Inv, Answers, Types, DiscoveriesInv, NEW t \in Discoverers, SvcbAnswered(t)
    PROVE  DiscoveriesInv'
<1>1. t \in Tasks /\ running = t /\ toInject = <<>>
  BY RunsDiscover DEF Discover
<1> DEFINE answer == got[t][1]
<1>2. step[t] = "svcb" /\ waiting[t] # <<>> /\ OnCourse(t) /\ Injections
  BY <1>1 DEF SvcbAnswered, At, Answered, DiscoveriesInv, Answers
<1>3. Alone(t)
  <2>1. /\ Still /\ UNCHANGED <<domain, hosts, tlsas>>
        /\ \E q : waiting' = [waiting EXCEPT ![t] = q]
        /\ \E next : step' = [step EXCEPT ![t] = next]
        /\ UNCHANGED dnssec \/ \E b : dnssec' = [dnssec EXCEPT ![t] = b]
        /\ UNCHANGED records \/ \E s : records' = [records EXCEPT ![t] = s]
    <3>1. CASE Usable(answer)
      BY <1>1, <3>1 DEF SvcbAnswered, GoOn, To, Still
    <3>2. CASE ~Usable(answer)
      BY <1>1, <3>2 DEF SvcbAnswered, Await, To, Still
    <3> QED
      BY <3>1, <3>2
  <2> QED
    BY <1>1, <2>1, AloneIs
<1>4. ASSUME Plain PROVE Gathers(t)'
  <2>1. Clean(t) /\ waiting[t] = AsksSvcb
    BY <1>2, <1>4 DEF OnCourse, Gathers, Awaits
  <2>2. answer.error = First.error /\ answer.dnssec = First.dnssec /\ answer.rrs = First.rrs
    <3>1. /\ 1 \in DOMAIN AsksSvcb /\ AsksSvcb[1] = svcb("xmpp-server", zone.domain)
          /\ AsksSvcb[1][1] \notin {"a", "aaaa"}
      BY DEF AsksSvcb, svcb
    <3> QED
      BY <1>1, <2>1, <3>1, GotIs DEF First
  <2> HIDE DEF answer
  <2>3. (Usable(answer) <=> Usable(First)) /\ SvcbRecords(answer) = SvcbRecords(First)
    BY <2>2 DEF Usable, SvcbRecords, Port
  <2>4. CASE Usable(First)
    <3>1. /\ step' = [step EXCEPT ![t] = "records"] /\ records' = [records EXCEPT ![t] = SvcbRecords(First)]
          /\ dnssec' = [dnssec EXCEPT ![t] = StillSigned(t, answer)] /\ UNCHANGED <<hosts, tlsas>>
      BY <2>3, <2>4 DEF SvcbAnswered, To, answer
    <3>2. First.dnssec \in BOOLEAN
      BY <1>2, AnswersAre DEF First, IsAnswer
    <3>3. Work = SvcbRecords(First) /\ Trusted = First.dnssec
      BY <1>2, <1>4, <2>4, WorkIs
    <3>4. step'[t] = "records" /\ records'[t] = Work /\ dnssec'[t] = Trusted
      BY <2>1, <2>2, <3>1, <3>2, <3>3 DEF Types, DiscoveriesInv, StillSigned, Clean
    <3> QED
      BY <1>2, <1>3, <1>4, <2>1, <3>1, <3>4, BeginsToGather DEF Clean, Alone
  <2>5. CASE ~Usable(First)
    <3>1. /\ step' = [step EXCEPT ![t] = "srv"] /\ waiting' = [waiting EXCEPT ![t] = AsksSrv]
          /\ UNCHANGED <<records, dnssec, domain, hosts, tlsas>>
      BY <2>1, <2>3, <2>5 DEF SvcbAnswered, Await, To, AsksSrv, Clean, answer
    <3>2. step'[t] = "srv" /\ waiting'[t] = AsksSrv
      BY <1>1, <3>1 DEF Types, Inv, Queries
    <3> QED
      BY <1>2, <1>3, <2>1, <2>5, <3>1, <3>2, StillGathers DEF Alone, Still, Gathers, Clean, Awaits, Usable
  <2> QED
    BY <2>4, <2>5
<1>5. step'[t] # "idle"
  BY DEF SvcbAnswered, To, Types
<1>6. OnCourse(t)'
  BY <1>2, <1>3, <1>4, <1>5, StillGathers DEF OnCourse, Alone
<1> QED
  BY <1>2, <1>3, <1>6, AloneDiscovers

LEMMA SrvDiscovers ==
    ASSUME Inv, Answers, Types, DiscoveriesInv, NEW t \in Discoverers, SrvAnswered(t)
    PROVE  DiscoveriesInv'
<1>1. t \in Tasks /\ running = t /\ toInject = <<>>
  BY RunsDiscover DEF Discover
<1> DEFINE starttls == got[t][1]
           direct == got[t][2]
<1>2. step[t] = "srv" /\ waiting[t] # <<>> /\ OnCourse(t) /\ Injections
  BY <1>1 DEF SrvAnswered, At, Answered, DiscoveriesInv, Answers
<1>3. Alone(t)
  BY <1>1, Apart DEF Alone, SrvAnswered, GoOn, To, Still, Inv, Queries, Types, DiscoveriesInv
<1>4. step'[t] = "records"
  BY DEF SrvAnswered, To, Types
<1>5. ASSUME Plain PROVE Gathers(t)'
  <2>1. Clean(t) /\ waiting[t] = AsksSrv /\ ~Usable(First)
    BY <1>2, <1>5 DEF OnCourse, Gathers, Awaits
  <2>2. /\ starttls.error = StartTls.error /\ starttls.dnssec = StartTls.dnssec /\ starttls.rrs = StartTls.rrs
        /\ direct.error = Direct.error /\ direct.dnssec = Direct.dnssec /\ direct.rrs = Direct.rrs
    <3>1. /\ 1 \in DOMAIN AsksSrv /\ AsksSrv[1] = srv("xmpp-server", zone.domain)
          /\ 2 \in DOMAIN AsksSrv /\ AsksSrv[2] = srv("xmpps-server", zone.domain)
          /\ AsksSrv[1][1] \notin {"a", "aaaa"} /\ AsksSrv[2][1] \notin {"a", "aaaa"}
      BY DEF AsksSrv, srv
    <3> QED
      BY <1>1, <2>1, <3>1, GotIs DEF StartTls, Direct
  <2> HIDE DEF starttls, direct
  <2>3. /\ Usable(starttls) <=> Usable(StartTls)
        /\ SrvRecords(starttls) = SrvRecords(StartTls) /\ SrvRecords(direct) = SrvRecords(Direct)
    BY <2>2 DEF Usable, SrvRecords
  <2>4. records'[t] = Work /\ dnssec'[t] = Trusted
    <3>1. CASE Usable(StartTls)
      <4>1. /\ records' = [records EXCEPT ![t] = SrvRecords(StartTls) \o SrvRecords(Direct)]
            /\ dnssec' = [dnssec EXCEPT ![t] = StillSigned(t, starttls)]
        BY <2>3, <3>1 DEF SrvAnswered, starttls, direct
      <4>2. StartTls.dnssec \in BOOLEAN
        BY <1>2, AnswersAre DEF StartTls, IsAnswer
      <4>3. Work = SrvRecords(StartTls) \o SrvRecords(Direct) /\ Trusted = StartTls.dnssec
        BY <1>2, <1>5, <2>1, <3>1, WorkIs
      <4> QED
        BY <2>1, <2>2, <4>1, <4>2, <4>3 DEF Types, DiscoveriesInv, StillSigned, Clean
    <3>2. CASE ~Usable(StartTls)
      <4>1. records' = [records EXCEPT ![t] = <<Fallback>>] /\ UNCHANGED dnssec
        BY <2>1, <2>3, <3>2 DEF SrvAnswered, starttls, Fallback, Clean
      <4>2. Targets = <<>> /\ Work = <<Fallback>> /\ Trusted /\ Trusted \in BOOLEAN
        BY <1>2, <1>5, <2>1, <3>2, WorkIs
      <4> QED
        BY <2>1, <4>1, <4>2 DEF DiscoveriesInv, Clean
    <3> QED
      BY <3>1, <3>2
  <2>5. UNCHANGED <<hosts, tlsas>>
    BY DEF SrvAnswered
  <2> QED
    BY <1>2, <1>3, <1>4, <1>5, <2>1, <2>4, <2>5, BeginsToGather DEF Clean, Alone
<1>6. OnCourse(t)'
  BY <1>2, <1>3, <1>4, <1>5, StillGathers DEF OnCourse, Alone
<1> QED
  BY <1>2, <1>3, <1>6, AloneDiscovers

\* The next record of the loop.
LEMMA NextRecord ==
    ASSUME Injections, Plain, NEW k \in 0 .. Len(Work), SubSeq(Work, k + 1, Len(Work)) # <<>>
    PROVE  /\ k + 1 \in 1 .. Len(Work)
           /\ Head(SubSeq(Work, k + 1, Len(Work))) = Work[k + 1]
           /\ Tail(SubSeq(Work, k + 1, Len(Work))) = SubSeq(Work, k + 2, Len(Work))
           /\ ~Work[k + 1].alias
           /\ HostsOf(k + 1) = IF Work[k + 1].signed THEN HostsOf(k) \cup {Work[k + 1].host} ELSE HostsOf(k)
<1>1. Len(Work) \in Nat /\ Work \in Seq(ToSet(Work)) /\ \A i \in 1 .. Len(Work) : ~Work[i].alias
  BY WorkIs DEF IsList
<1>2. k + 1 \in 1 .. Len(Work)
  <2>1. k # Len(Work)
    BY <1>1
  <2> QED
    BY <1>1, <2>1
<1>3. /\ Head(SubSeq(Work, k + 1, Len(Work))) = Work[k + 1]
      /\ Tail(SubSeq(Work, k + 1, Len(Work))) = SubSeq(Work, k + 2, Len(Work))
  <2>1. k + 1 \in 1 .. Len(Work) + 1 /\ Len(Work) \in k + 1 - 1 .. Len(Work) /\ k + 1 <= Len(Work) /\ k + 1 + 1 = k + 2
    BY <1>1, <1>2
  <2> QED
    BY <1>1, <2>1, HeadTailOfSubSeq
<1>4. HostsOf(k + 1) = IF Work[k + 1].signed THEN HostsOf(k) \cup {Work[k + 1].host} ELSE HostsOf(k)
  <2>1. 1 .. k + 1 = (1 .. k) \cup {k + 1}
    BY <1>1
  <2> QED
    BY <2>1 DEF HostsOf
<1> QED
  BY <1>1, <1>2, <1>3, <1>4

\* What the TLSA answer for the record at k adds.
LEMMA GatheredNext ==
    ASSUME Injections, Plain, NEW k \in 1 .. Len(Work)
    PROVE  LET answer == Answer(AsksTlsa(k)[1])
           IN  /\ Gathered[k] = IF ~Trusted \/ answer.error \/ ~answer.dnssec THEN Gathered[k - 1]
                                ELSE Gathered[k - 1] \o answer.rrs
               /\ answer.dnssec \in BOOLEAN
<1> DEFINE answer == Answer(AsksTlsa(k)[1])
<1>1. answer = Answer(tlsa(Work[k].port, Work[k].host))
  BY DEF AsksTlsa
<1>2. TlsasOf[k] = IF (Targets = <<>> \/ Work[k].signed) /\ answer.dnssec THEN answer.rrs ELSE <<>>
  BY <1>1 DEF TlsasOf
<1>3. Trusted <=> Targets = <<>> \/ Work[k].signed
  BY WorkIs
<1>4. answer.dnssec \in BOOLEAN /\ (answer.error => answer.rrs = <<>>)
  BY AnswersAre DEF IsAnswer
<1> HIDE DEF answer
<1>5. Gathered[k] = Gathered[k - 1] \o TlsasOf[k] /\ IsList(Gathered[k - 1])
  <2>1. Gathering(Gathered, TlsasOf, Len(Work)) /\ Len(Work) \in Nat
    BY GatheredIs, WorkIs
  <2>2. k - 1 \in 0 .. Len(Work)
    BY <2>1
  <2> QED
    BY <2>1, <2>2 DEF Gathering
<1>6. Gathered[k - 1] \o <<>> = Gathered[k - 1]
  BY <1>5 DEF IsList
<1>7. Gathered[k] = IF ~Trusted \/ answer.error \/ ~answer.dnssec THEN Gathered[k - 1]
                    ELSE Gathered[k - 1] \o answer.rrs
  BY <1>2, <1>3, <1>4, <1>5, <1>6
<1> QED
  BY <1>4, <1>7 DEF answer

LEMMA RecordDiscovers ==
    ASSUME Inv, Answers, Types, DiscoveriesInv, NEW t \in Discoverers, Record(t)
    PROVE  DiscoveriesInv'
<1>1. t \in Tasks /\ running = t /\ toInject = <<>>
  BY RunsDiscover DEF Discover
<1>2. step[t] = "records" /\ records[t] # <<>> /\ OnCourse(t) /\ Injections
  BY DEF Record, DiscoveriesInv, Answers
<1> DEFINE rr == Head(records[t])
<1>3. Alone(t)
  <2>1. Still
    BY <1>1 DEF Record, Await, Still, resolver
  <2>2. UNCHANGED waiting \/ \E q : waiting' = [waiting EXCEPT ![t] = q]
    BY DEF Record, Await, resolver
  <2>3. UNCHANGED step \/ \E next : step' = [step EXCEPT ![t] = next]
    BY DEF Record, To
  <2>4. /\ UNCHANGED domain \/ \E d : domain' = [domain EXCEPT ![t] = d]
        /\ \E s : records' = [records EXCEPT ![t] = s]
        /\ \E h : hosts' = [hosts EXCEPT ![t] = h]
        /\ UNCHANGED <<dnssec, tlsas>>
    <3>1. records' = [records EXCEPT ![t] = <<>>] \/ records' = [records EXCEPT ![t] = Tail(records[t])]
      BY <1>2 DEF Record, DiscoveriesInv
    <3>2. hosts' = [hosts EXCEPT ![t] = IF rr.signed THEN hosts[t] \cup {rr.host} ELSE hosts[t]]
      BY DEF Record, DiscoveriesInv
    <3> HIDE DEF rr
    <3> QED
      BY <3>1, <3>2 DEF Record
  <2> QED
    BY <2>1, <2>2, <2>3, <2>4, AloneIs
<1>4. step'[t] # "idle"
  BY <1>2 DEF Record, To, Types
<1>5. ASSUME Plain PROVE Gathers(t)'
  <2>1. PICK k \in 0 .. Len(Work) : Through(t, k) /\ tlsas[t] = Gathered[k]
    BY <1>2, <1>5 DEF OnCourse, Gathers
  <2>2. records[t] = SubSeq(Work, k + 1, Len(Work)) /\ SubSeq(Work, k + 1, Len(Work)) # <<>>
    BY <1>2, <2>1 DEF Through
  <2>3. /\ k + 1 \in 1 .. Len(Work) /\ rr = Work[k + 1] /\ ~rr.alias
        /\ Tail(records[t]) = SubSeq(Work, k + 2, Len(Work))
        /\ HostsOf(k + 1) = IF rr.signed THEN HostsOf(k) \cup {rr.host} ELSE HostsOf(k)
    BY <1>2, <1>5, <2>2, NextRecord
  <2>4. k + 1 + 1 = k + 2 /\ k + 1 - 1 = k
    BY <2>1
  <2>5. /\ hosts'[t] = HostsOf(k + 1) /\ records'[t] = SubSeq(Work, k + 1 + 1, Len(Work)) /\ dnssec'[t] = Trusted
        /\ tlsas'[t] = Gathered[k]
    <3>1. hosts'[t] = IF rr.signed THEN hosts[t] \cup {rr.host} ELSE hosts[t]
      BY DEF Record, DiscoveriesInv
    <3>2. records'[t] = Tail(records[t]) /\ UNCHANGED <<dnssec, tlsas>>
      BY <2>3 DEF Record, DiscoveriesInv
    <3> HIDE DEF rr
    <3> QED
      BY <2>1, <2>3, <2>4, <3>1, <3>2 DEF Through
  <2>6. Through(t, k + 1)'
    BY <1>2, <1>3, <2>5, StillGathers DEF Through, Alone
  <2>7. CASE Trusted
    <3>1. step' = [step EXCEPT ![t] = "tlsa"] /\ waiting' = [waiting EXCEPT ![t] = AsksTlsa(k + 1)]
      <4>1. dnssec[t] /\ <<tlsa(rr.port, rr.host)>> = AsksTlsa(k + 1)
        BY <2>1, <2>3, <2>7 DEF Through, AsksTlsa
      <4> QED
        BY <2>3, <4>1 DEF Record, Await, To
    <3>2. step'[t] = "tlsa" /\ Awaits(t, AsksTlsa(k + 1))'
      BY <1>1, <1>2, <1>3, <3>1, StillGathers DEF Types, Inv, Queries, Alone, Awaits
    <3>3. tlsas'[t] = Gathered'[k + 1 - 1] /\ k + 1 \in 1 .. Len(Work)' /\ Trusted'
      BY <1>2, <1>3, <2>3, <2>4, <2>5, <2>7, StillGathers DEF Alone
    <3> QED
      BY <2>6, <3>2, <3>3 DEF Gathers
  <2>8. CASE ~Trusted
    <3>1. step'[t] = "records"
      <4>1. ~dnssec[t]
        BY <2>1, <2>8 DEF Through
      <4> QED
        BY <1>2, <2>3, <4>1 DEF Record, Types
    <3>2. Gathered[k + 1] = Gathered[k]
      BY <1>2, <1>5, <2>3, <2>4, <2>8, GatheredNext
    <3>3. tlsas'[t] = Gathered'[k + 1]
      BY <1>2, <1>3, <2>5, <3>2, StillGathers DEF Alone
    <3>4. k + 1 \in 0 .. Len(Work)'
      BY <1>2, <1>3, <1>5, <2>3, WorkIs, StillGathers DEF Alone
    <3> QED
      BY <2>6, <3>1, <3>3, <3>4 DEF Gathers
  <2> QED
    BY <2>7, <2>8
<1>6. OnCourse(t)'
  BY <1>2, <1>3, <1>4, <1>5, StillGathers DEF OnCourse, Alone
<1> QED
  BY <1>2, <1>3, <1>6, AloneDiscovers

LEMMA TlsaDiscovers ==
    ASSUME Inv, Answers, Types, DiscoveriesInv, NEW t \in Discoverers, TlsaAnswered(t)
    PROVE  DiscoveriesInv'
<1>1. t \in Tasks /\ running = t /\ toInject = <<>>
  BY RunsDiscover DEF Discover
<1>2. step[t] = "tlsa" /\ waiting[t] # <<>> /\ OnCourse(t) /\ Injections
  BY DEF TlsaAnswered, At, Answered, DiscoveriesInv, Answers
<1> DEFINE answer == got[t][1]
<1>3. tlsas'[t] = IF answer.error \/ ~answer.dnssec THEN tlsas[t] ELSE tlsas[t] \o answer.rrs
  BY DEF TlsaAnswered, DiscoveriesInv
<1>4. /\ step' = [step EXCEPT ![t] = "records"] /\ waiting' = [waiting EXCEPT ![t] = <<>>]
      /\ UNCHANGED <<domain, dnssec, records, hosts>> /\ Still /\ \E s : tlsas' = [tlsas EXCEPT ![t] = s]
  BY <1>1 DEF TlsaAnswered, To, GoOn, Still
<1>5. Alone(t)
  BY <1>4, AloneIs
<1>6. step'[t] = "records"
  BY <1>4 DEF Types
<1>7. ASSUME Plain PROVE Gathers(t)'
  <2>1. PICK k \in 1 .. Len(Work) :
            Through(t, k) /\ tlsas[t] = Gathered[k - 1] /\ Trusted /\ waiting[t] = AsksTlsa(k)
    BY <1>2, <1>7 DEF OnCourse, Gathers, Awaits
  <2> DEFINE meant == Answer(AsksTlsa(k)[1])
  <2>2. answer.error = meant.error /\ answer.dnssec = meant.dnssec /\ answer.rrs = meant.rrs
    <3>1. 1 \in DOMAIN AsksTlsa(k) /\ AsksTlsa(k)[1][1] \notin {"a", "aaaa"}
      BY DEF AsksTlsa, tlsa
    <3> QED
      BY <1>1, <2>1, <3>1, GotIs
  <2>3. Gathered[k] = IF ~Trusted \/ meant.error \/ ~meant.dnssec THEN Gathered[k - 1]
                      ELSE Gathered[k - 1] \o meant.rrs
    BY <1>2, <1>7, GatheredNext
  <2> HIDE DEF answer, meant
  <2>4. tlsas'[t] = Gathered[k]
    BY <1>3, <2>1, <2>2, <2>3
  <2>5. Through(t, k)'
    BY <1>2, <1>4, <2>1, StillGathers DEF Through
  <2>6. tlsas'[t] = Gathered'[k] /\ k \in 0 .. Len(Work)'
    BY <1>2, <1>4, <1>7, <2>4, WorkIs, StillGathers
  <2> QED
    BY <1>6, <2>5, <2>6 DEF Gathers
<1>8. OnCourse(t)'
  BY <1>2, <1>4, <1>6, <1>7, StillGathers DEF OnCourse
<1> QED
  BY <1>2, <1>5, <1>8, AloneDiscovers

LEMMA FinishDiscovers ==
    ASSUME Inv, Answers, Types, DiscoveriesInv, NEW t \in Discoverers, Finish(t)
    PROVE  DiscoveriesInv'
<1>1. t \in Tasks /\ running = t /\ toInject = <<>>
  BY RunsDiscover DEF Discover
<1>2. step[t] = "records" /\ records[t] = <<>> /\ OnCourse(t) /\ Injections
  BY DEF Finish, DiscoveriesInv, Answers
<1>3. /\ step' = [step EXCEPT ![t] = "done"] /\ waiting' = [waiting EXCEPT ![t] = <<>>] /\ Still
      /\ UNCHANGED <<domain, dnssec, records, hosts, tlsas>>
  BY <1>1 DEF Finish, To, GoOn, Still
<1>4. Alone(t)
  BY <1>3, AloneIs
<1>5. step'[t] = "done"
  BY <1>3 DEF Types
<1>6. ASSUME Plain PROVE Gathers(t)'
  <2>1. PICK k \in 0 .. Len(Work) : Through(t, k) /\ tlsas[t] = Gathered[k]
    BY <1>2, <1>6 DEF OnCourse, Gathers
  <2>2. k = Len(Work)
    <3>1. Work \in Seq(ToSet(Work)) /\ Len(Work) \in Nat
      BY <1>2, <1>6, WorkIs DEF IsList
    <3>2. SubSeq(Work, k + 1, Len(Work)) = <<>>
      BY <1>2, <2>1 DEF Through
    <3>3. \A i \in k + 1 .. Len(Work) : Work[i] \in ToSet(Work)
      BY <3>1
    <3>4. k + 1 \in Int /\ Len(Work) \in Int
      BY <3>1
    <3>5. Len(SubSeq(Work, k + 1, Len(Work))) = IF k + 1 <= Len(Work) THEN Len(Work) - (k + 1) + 1 ELSE 0
      BY <3>3, <3>4, SubSeqProperties
    <3>6. Len(SubSeq(Work, k + 1, Len(Work))) = 0
      BY <3>2
    <3> DEFINE n == Len(Work)
               left == Len(SubSeq(Work, k + 1, Len(Work)))
    <3>7. n \in Nat /\ k \in 0 .. n /\ left = 0 /\ left = IF k + 1 <= n THEN n - (k + 1) + 1 ELSE 0
      BY <3>1, <3>5, <3>6
    <3> HIDE DEF n, left
    <3>8. k = n
      BY <3>7
    <3> QED
      BY <3>8 DEF n
  <2>3. hosts'[t] = HostsOf(Len(Work)) /\ tlsas'[t] = Gathered[Len(Work)]
    BY <1>3, <2>1, <2>2 DEF Through
  <2> QED
    BY <1>2, <1>3, <1>5, <2>3, StillGathers DEF Gathers
<1>7. OnCourse(t)'
  BY <1>2, <1>3, <1>5, <1>6, StillGathers DEF OnCourse
<1> QED
  BY <1>2, <1>4, <1>7, AloneDiscovers

\* Nothing of a discovery is touched by a lookup or by the answer to its question; an exception ends it.
LEMMA OthersDiscover ==
    ASSUME Answers, DiscoveriesInv, Still, UNCHANGED discovery,
           \A t \in Discoverers : waiting'[t] \in {<<>>, waiting[t]}
    PROVE  DiscoveriesInv'
<1>1. ASSUME NEW u \in Discoverers PROVE OnCourse(u)'
  BY DiscoversOn DEF DiscoveriesInv, Answers, discovery
<1> QED
  BY <1>1 DEF DiscoveriesInv, discovery

LEMMA InjectDiscovers ==
    ASSUME Answers, DiscoveriesInv, Inject, UNCHANGED discovery
    PROVE  DiscoveriesInv'
<1>1. ASSUME NEW t \in Discoverers PROVE OnCourse(t)'
  <2>1. step[t] = "idle" /\ Clean(t)
    BY DEF Inject, Answers, Injections, DiscoveriesInv, OnCourse
  <2>2. step'[t] = "idle" /\ Clean(t)'
    BY <2>1 DEF Inject, Clean, discovery
  <2> QED
    BY <2>2 DEF OnCourse, Gathers
<1> QED
  BY <1>1 DEF DiscoveriesInv, discovery

LEMMA DiscoveriesStep == Inv /\ Answers /\ Types /\ DiscoveriesInv /\ [Next]_vars => DiscoveriesInv'
<1> SUFFICES ASSUME Inv, Answers, Types, DiscoveriesInv, [Next]_vars PROVE DiscoveriesInv'
  OBVIOUS
<1>1. CASE UNCHANGED vars
  <2>1. UNCHANGED <<zone, injected, waiting>> /\ UNCHANGED discovery
    BY <1>1 DEF vars, resolver
  <2>2. CASE toInject = <<>>
    <3>1. Still
      BY <1>1, <2>2 DEF vars, resolver, Still
    <3> QED
      BY <2>1, <3>1, OthersDiscover
  <2>3. CASE toInject # <<>>
    <3>1. ASSUME NEW t \in Discoverers PROVE OnCourse(t)'
      <4>1. step[t] = "idle" /\ Clean(t)
        BY <2>3 DEF Answers, Injections, DiscoveriesInv, OnCourse
      <4>2. step'[t] = "idle" /\ Clean(t)'
        BY <2>1, <4>1 DEF Clean, discovery
      <4> QED
        BY <4>2 DEF OnCourse, Gathers
    <3> QED
      BY <2>1, <3>1 DEF DiscoveriesInv, discovery
  <2> QED
    BY <2>2, <2>3
<1>2. CASE Inject /\ UNCHANGED <<discovery, lookup>>
  BY <1>2, InjectDiscovers
<1>3. CASE Application
  <2>1. ASSUME NEW t \in Discoverers, Start(t) PROVE DiscoveriesInv'
    BY <2>1, Apart, StartDiscovers
  <2>2. ASSUME NEW t \in Lookups, Begin(t) \/ Advance(t) \/ Drop(t), UNCHANGED discovery PROVE DiscoveriesInv'
    <3>1. Still /\ \E q : waiting' = [waiting EXCEPT ![t] = q]
      BY <2>2 DEF Begin, Advance, Drop, Idle, Await, GoOn, Release, Still
    <3>2. \A u \in Discoverers : waiting'[u] = waiting[u]
      BY <3>1, Apart DEF Inv, Queries
    <3> QED
      BY <2>2, <3>1, <3>2, OthersDiscover
  <2> QED
    BY <1>3, <2>1, <2>2 DEF Application
<1>4. CASE Loop
  <2>1. PICK c \in pending : Callback(c) \/ ErrorCallback(c) \/ HaltingCallback(c)
    BY <1>4 DEF Loop, event_callback
  <2>2. Still /\ UNCHANGED discovery
    BY <1>4, <2>1 DEF Loop, Callback, ErrorCallback, HaltingCallback, Idle, Still
  <2>3. UNCHANGED waiting \/ waiting' = [waiting EXCEPT ![c[1]] = <<>>]
    BY <2>1 DEF Callback, ErrorCallback, HaltingCallback, Release
  <2>4. \A u \in Discoverers : waiting'[u] \in {<<>>, waiting[u]}
    BY <2>3, Apart DEF Inv, Queries
  <2> QED
    BY <2>2, <2>4, OthersDiscover
<1>5. ASSUME NEW t \in Discoverers, Discover(t) PROVE DiscoveriesInv'
  BY <1>5, SvcbDiscovers, SrvDiscovers, RecordDiscovers, TlsaDiscovers, FinishDiscovers DEF Discover
<1>6. ASSUME NEW t \in Lookups, Generate(t), UNCHANGED discovery PROVE DiscoveriesInv'
  <2>1. running = t /\ t \in Tasks
    BY <1>6, Apart DEF Generate, Collapse, Choose, Exhausted, Addresses, Give, GiveNoMore, Is, Runs
  <2>2. toInject = <<>>
    BY <2>1, Apart, RunsStill
  <2>3. Still /\ \E q : waiting' = [waiting EXCEPT ![t] = q]
    BY <1>6, <2>2 DEF Generate, Collapse, Choose, Exhausted, Addresses, Give, GiveNoMore, Await, GoOn, Still
  <2>4. \A u \in Discoverers : waiting'[u] = waiting[u]
    BY <2>1, <2>3, Apart DEF Inv, Queries
  <2> QED
    BY <1>6, <2>3, <2>4, OthersDiscover
<1> QED
  BY <1>1, <1>2, <1>3, <1>4, <1>5, <1>6 DEF Next, Run

DiscoveriesIInv == Inv /\ Answers /\ Types /\ DiscoveriesInv

LEMMA DiscoveriesIInvInvariant == Spec => []DiscoveriesIInv
<1>1. ServiceInit => DiscoveriesIInv
  BY InvInit, AnswersInit, TypesInit, DiscoveriesInit DEF DiscoveriesIInv
<1>2. DiscoveriesIInv /\ [Next]_vars => DiscoveriesIInv'
  BY InvStep, AnswersStep, TypesStep, DiscoveriesStep DEF DiscoveriesIInv
<1> QED
  BY <1>1, <1>2, PTL DEF Spec

\* What a discovery has gathered when it ends is what DNSSEC vouches for, all of it and nothing else, for any
\* zone and whatever the order of the answers.
THEOREM GathersVerifiedHolds == Spec => []GathersVerified
<1>1. DiscoveriesIInv => GathersVerified
  <2> SUFFICES ASSUME DiscoveriesIInv, NEW t \in Discoverers, step[t] = "done", Plain
               PROVE  hosts[t] = SignedHosts /\ tlsas[t] = SignedTlsas
    BY DEF GathersVerified
  <2>1. hosts[t] = HostsOf(Len(Work)) /\ tlsas[t] = Gathered[Len(Work)]
    BY DEF DiscoveriesIInv, DiscoveriesInv, OnCourse, Gathers
  <2> QED
    BY <2>1, GatheredIsVerified DEF DiscoveriesIInv, Answers
<1> QED
  BY <1>1, DiscoveriesIInvInvariant, PTL

-----------------------------------------------------------------------------
(* Verifications.                                                          *)

\* A step of a verification is a step of its discovery, or none of the service's.
LEMMA VerifyStep == VerifyNext => Next \/ UNCHANGED vars
<1> SUFFICES ASSUME VerifyNext PROVE Next \/ UNCHANGED vars
  OBVIOUS
<1>1. ASSUME NEW t \in Discoverers, Discovers(t) PROVE Next
  BY <1>1 DEF Discovers, Next, Application
<1>2. CASE \E t \in Discoverers : CrlArrives(t)
  <2>1. PICK t \in Discoverers : CrlArrives(t)
    BY <1>2
  <2> QED
    BY <2>1, <1>1 DEF CrlArrives, Fetched
<1>3. CASE \E t \in Discoverers : verify_tls(t)
  <2>1. PICK t \in Discoverers : verify_tls(t)
    BY <1>3
  <2> QED
    BY <2>1, <1>1 DEF verify_tls, NothingToVerify
<1>4. CASE VerifyApplication
  BY <1>4, <1>3 DEF VerifyApplication, Next, Application
<1>5. CASE VerifyRun
  BY <1>5 DEF VerifyRun, Next, Run
<1> QED
  BY <1>2, <1>4, <1>5 DEF VerifyNext, Running, VerifyLoop, Next

\* Verifications use the resolver as discoveries and lookups do: Validator implements Service.
THEOREM VerifySpecImplementsSpec == VerifySpec => Spec
<1>1. ValidatorInit => ServiceInit
  BY DEF ValidatorInit
<1>2. [VerifyNext]_allVars => [Next]_vars
  BY VerifyStep DEF allVars
<1> QED
  BY <1>1, <1>2, PTL DEF VerifySpec, Spec

\* So no query outlives the coroutine that waits for it when verifications run, either.
COROLLARY NoStrayCallbackInVerifications == VerifySpec => []NoStrayCallback
  BY VerifySpecImplementsSpec, NoStrayCallbackHolds, PTL

-----------------------------------------------------------------------------
\* A CRL that its server has is in the store or still to be fetched.
Fetching ==
    /\ verifying = [t \in Discoverers |-> verifying[t]]
    /\ all_crls = [t \in Discoverers |-> all_crls[t]]
    /\ judged = [t \in Discoverers |-> judged[t]]
    /\ zone.fetch => \A t \in Discoverers :
          /\ verifying[t] = "crls" => Available \subseteq store \cup all_crls[t]
          /\ verifying[t] = "discovery" => Available \subseteq store

LEMMA ZoneStays == [Next]_vars => zone' = zone
<1> SUFFICES ASSUME Next PROVE zone' = zone
  BY DEF vars, resolver
<1>1. CASE Inject
  BY <1>1 DEF Inject
<1>2. ASSUME NEW t, NEW q, Await(t, q) PROVE zone' = zone
  BY <1>2 DEF Await
<1>3. ASSUME NEW t, NEW u, GoOn(t, u) PROVE zone' = zone
  BY <1>3 DEF GoOn
<1>4. CASE Application
  BY <1>4, <1>2, <1>3 DEF Application, Start, Begin, Advance, Drop
<1>5. CASE Loop
  BY <1>5 DEF Loop, event_callback, Callback, ErrorCallback, HaltingCallback
<1>6. ASSUME NEW t, Discover(t) PROVE zone' = zone
  <2>1. CASE SvcbAnswered(t)
    BY <1>2, <1>3, <2>1 DEF SvcbAnswered
  <2>2. CASE SrvAnswered(t)
    BY <1>3, <2>2 DEF SrvAnswered
  <2>3. CASE Record(t)
    BY <1>2, <2>3 DEF Record, resolver
  <2>4. CASE TlsaAnswered(t)
    BY <1>3, <2>4 DEF TlsaAnswered
  <2>5. CASE Finish(t)
    BY <1>3, <2>5 DEF Finish
  <2> QED
    BY <1>6, <2>1, <2>2, <2>3, <2>4, <2>5 DEF Discover
<1>7. ASSUME NEW t, Generate(t) PROVE zone' = zone
  BY <1>7, <1>2, <1>3 DEF Generate, Collapse, Choose, Exhausted, Addresses, Give, GiveNoMore
<1> QED
  BY <1>1, <1>4, <1>5, <1>6, <1>7 DEF Next, Run

LEMMA FetchingInit == ValidatorInit => Fetching /\ CrlsAreThere
  BY DEF ValidatorInit, Fetching, CrlsAreThere

LEMMA FetchingKept == Fetching /\ CrlsAreThere /\ [VerifyNext]_allVars => (Fetching /\ CrlsAreThere)'
<1> SUFFICES ASSUME Fetching, CrlsAreThere, [VerifyNext]_allVars PROVE (Fetching /\ CrlsAreThere)'
  OBVIOUS
<1>z. zone' = zone /\ Available' = Available /\ Uris' = Uris
  <2>1. zone' = zone
    BY VerifyStep, ZoneStays DEF allVars
  <2> QED
    BY <2>1 DEF Available, Uris
<1>a. Available \subseteq Uris
  BY DEF Available
<1>1. ASSUME UNCHANGED validator PROVE (Fetching /\ CrlsAreThere)'
  BY <1>1, <1>z DEF validator, Fetching, CrlsAreThere
<1>2. ASSUME NEW t \in Discoverers, verify_tls(t) PROVE (Fetching /\ CrlsAreThere)'
  <2>1. store' = store /\ judged' = judged
    BY <1>2 DEF verify_tls, NothingToVerify
  <2>2. CASE NothingToVerify(t)
    BY <2>1, <2>2, <1>z DEF NothingToVerify, Goes, Fetching, CrlsAreThere
  <2>3. CASE zone.fetch /\ Uris # {} /\ Goes(t, "crls") /\ all_crls' = [all_crls EXCEPT ![t] = Uris]
    BY <2>1, <2>3, <1>z, <1>a DEF Goes, Fetching, CrlsAreThere
  <2>4. CASE ~(zone.fetch /\ Uris # {}) /\ Discovers(t)
    BY <2>1, <2>4, <1>z, <1>a DEF Discovers, Goes, Fetching, CrlsAreThere
  <2> QED
    BY <1>2, <2>2, <2>3, <2>4 DEF verify_tls
<1>3. ASSUME NEW t \in Discoverers, CrlArrives(t) PROVE (Fetching /\ CrlsAreThere)'
  <2>1. PICK u \in all_crls[t] : \E answer \in zone.servers[u] : Fetched(t, u, answer)
    BY <1>3 DEF CrlArrives
  <2>a. PICK answer \in zone.servers[u] : Fetched(t, u, answer)
    BY <2>1
  <2>2. verifying[t] = "crls" /\ judged' = judged
    BY <1>3, <2>a DEF CrlArrives, Fetched
  <2>3. store \subseteq store' /\ (zone.fetch => Available \subseteq store' \cup (all_crls[t] \ {u}))
    BY <2>a, <2>2 DEF Fetched, Fetching, Available
  <2> QED
    BY <2>a, <2>2, <2>3, <1>z DEF Fetched, Goes, Discovers, Remaining, Fetching, CrlsAreThere
<1>4. ASSUME NEW t \in Discoverers, verifying[t] = "discovery", Judge(t) PROVE (Fetching /\ CrlsAreThere)'
  <2>1. /\ judged' = [judged EXCEPT ![t] = [given |-> vpm(t), context |-> Context(t)]]
        /\ all_crls' = all_crls /\ store' = store
        /\ \E verdict \in {"verified", "rejected"} : verifying' = [verifying EXCEPT ![t] = verdict]
    BY <1>4 DEF Judge, Goes
  <2>2. Fetching'
    BY <2>1, <1>z DEF Fetching
  <2>a. Context(t).crls = Revocations
    BY DEF Context, set0_dane, init, set0_param, NewContext
  <2>3. zone.fetch => Available \subseteq store' /\ (~zone.anchors => Available \subseteq judged'[t].context.crls)
    BY <2>1, <2>a, <1>4 DEF Fetching, Revocations
  <2>4. \A u \in Discoverers \ {t} : judged'[u] = judged[u]
    BY <2>1 DEF Fetching
  <2> QED
    BY <2>2, <2>3, <2>4, <1>z DEF CrlsAreThere
<1>5. CASE UNCHANGED allVars
  BY <1>5, <1>1 DEF allVars
<1>6. CASE VerifyApplication
  BY <1>6, <1>1, <1>2 DEF VerifyApplication
<1>7. CASE VerifyRun
  BY <1>7, <1>1, <1>4 DEF VerifyRun
<1> QED
  BY <1>1, <1>3, <1>5, <1>6, <1>7 DEF VerifyNext, Running, VerifyLoop

\* Whatever servers answer in whatever order, and whatever is verified at the same time, every CRL whose
\* server always has it is in the store of the TLS context when a chain is verified, and in the store it is
\* verified against unless the validator has trust anchors of its own: that one has no CRLs.
THEOREM CrlsAreThereHolds == VerifySpec => []CrlsAreThere
<1> QED
  BY FetchingInit, FetchingKept, PTL DEF VerifySpec

-----------------------------------------------------------------------------
\* What a verification has still to fetch, and the store, are CRLs of the chain.
Verifying ==
    /\ verifying \in [Discoverers -> {"idle", "crls", "unanswered", "discovery"} \cup Verdicts]
    /\ all_crls \in [Discoverers -> SUBSET Uris] /\ store \in SUBSET Uris
    /\ \A t \in Discoverers : all_crls[t] # {} => verifying[t] = "crls"
    /\ escaped \in BOOLEAN

LEMMA VerifyingInit == ValidatorInit => Verifying
  BY DEF ValidatorInit, Verifying

LEMMA VerifyingStep == Verifying /\ [VerifyNext]_allVars => Verifying'
<1> SUFFICES ASSUME Verifying, [VerifyNext]_allVars PROVE Verifying'
  OBVIOUS
<1>z. Uris' = Uris
  BY VerifyStep, ZoneStays DEF allVars, Uris
<1> DEFINE S == {"idle", "crls", "unanswered", "discovery"} \cup Verdicts
<1>a. ASSUME NEW t \in Discoverers, NEW now \in S, NEW left \in SUBSET Uris, left # {} => now = "crls",
             verifying' = [verifying EXCEPT ![t] = now], all_crls' = [all_crls EXCEPT ![t] = left],
             store' \in SUBSET Uris, escaped' \in BOOLEAN
      PROVE  Verifying'
  <2>1. verifying' \in [Discoverers -> S] /\ all_crls' \in [Discoverers -> SUBSET Uris]
    BY <1>a DEF Verifying
  <2>2. \A u \in Discoverers : all_crls'[u] # {} => verifying'[u] = "crls"
    BY <1>a DEF Verifying
  <2> QED
    BY <1>a, <1>z, <2>1, <2>2 DEF Verifying
<1>b. \A t \in Discoverers : /\ verifying = [verifying EXCEPT ![t] = verifying[t]]
                            /\ all_crls = [all_crls EXCEPT ![t] = all_crls[t]]
  BY DEF Verifying
<1>1. ASSUME UNCHANGED validator PROVE Verifying'
  BY <1>1, <1>z DEF validator, Verifying
<1>2. ASSUME NEW t \in Discoverers, verify_tls(t) PROVE Verifying'
  <2>1. verifying[t] = "idle" /\ all_crls[t] = {} /\ store' = store /\ escaped' \in BOOLEAN
    BY <1>2 DEF verify_tls, NothingToVerify, Verifying
  <2>2. CASE NothingToVerify(t)
    BY <1>a, <1>b, <2>1, <2>2 DEF NothingToVerify, Goes, Verdicts, Verifying
  <2>3. CASE Goes(t, "crls") /\ all_crls' = [all_crls EXCEPT ![t] = Uris]
    BY <1>a, <2>1, <2>3 DEF Goes, Verifying
  <2>4. CASE Discovers(t)
    BY <1>a, <2>1, <2>4 DEF Discovers, Goes, Verifying
  <2> QED
    BY <1>2, <2>2, <2>3, <2>4 DEF verify_tls
<1>3. ASSUME NEW t \in Discoverers, CrlArrives(t) PROVE Verifying'
  <2>1. PICK u \in all_crls[t] : \E answer \in zone.servers[u] : Fetched(t, u, answer)
    BY <1>3 DEF CrlArrives
  <2>2. PICK answer : Fetched(t, u, answer)
    BY <2>1
  <2>3. verifying[t] = "crls" /\ u \in Uris /\ store' \in SUBSET Uris /\ escaped' \in BOOLEAN
    BY <1>3, <2>2 DEF CrlArrives, Fetched, Verifying
  <2>4. CASE (Goes(t, "threw") \/ Goes(t, "unanswered")) /\ all_crls' = [all_crls EXCEPT ![t] = {}]
    <3>1. PICK now \in {"threw", "unanswered"} : verifying' = [verifying EXCEPT ![t] = now]
      BY <2>4 DEF Goes
    <3>2. now \in S
      BY <3>1 DEF Verdicts
    <3> HIDE DEF S
    <3> QED
      BY <1>a, <2>3, <2>4, <3>1, <3>2
  <2>5. CASE Discovers(t)
    BY <1>a, <2>3, <2>5 DEF Discovers, Goes
  <2>6. CASE verifying' = verifying /\ all_crls' = [all_crls EXCEPT ![t] = Remaining(t, u, answer)]
    <3>1. Remaining(t, u, answer) \in SUBSET Uris
      BY DEF Remaining, Verifying
    <3> QED
      BY <1>a, <1>b, <2>3, <2>6, <3>1
  <2> QED
    BY <2>2, <2>4, <2>5, <2>6 DEF Fetched
<1>4. ASSUME NEW t \in Discoverers, verifying[t] = "discovery", Judge(t) PROVE Verifying'
  <2>1. all_crls[t] = {} /\ escaped' \in BOOLEAN
    BY <1>4 DEF Verifying, Judge
  <2> QED
    BY <1>4, <1>a, <1>b, <2>1 DEF Judge, Goes, Verdicts, Verifying
<1>5. CASE UNCHANGED allVars
  BY <1>5, <1>1 DEF allVars
<1>6. CASE VerifyApplication
  BY <1>6, <1>1, <1>2 DEF VerifyApplication
<1>7. CASE VerifyRun
  BY <1>7, <1>1, <1>4 DEF VerifyRun
<1> QED
  BY <1>1, <1>3, <1>5, <1>6, <1>7 DEF VerifyNext, Running, VerifyLoop

\* Every variable is of its type: what is to be fetched and what is in the store are CRLs that the chain names,
\* and only a verification that fetches has any left.
THEOREM ValidatorTypeOKHolds == VerifySpec => []ValidatorTypeOK
<1>1. TypeOK /\ Verifying => ValidatorTypeOK
  <2> SUFFICES ASSUME TypeOK, Verifying PROVE ValidatorTypeOK
    OBVIOUS
  <2>1. \A t \in Discoverers : all_crls[t] \subseteq Uris
    BY DEF Verifying
  <2>2. (UNION {all_crls[t] : t \in Discoverers}) \cup store \subseteq Uris
    BY <2>1 DEF Verifying
  <2> QED
    BY <2>2 DEF Verifying, ValidatorTypeOK
<1>2. VerifySpec => []Verifying
  BY VerifyingInit, VerifyingStep, PTL DEF VerifySpec
<1> QED
  BY <1>1, <1>2, VerifySpecImplementsSpec, TypeOKHolds, PTL

-----------------------------------------------------------------------------
\* What a verification has collected is what its discovery gathered, and gathers no more.
Judged ==
    /\ judged = [t \in Discoverers |-> judged[t]]
    /\ \A t \in Discoverers : judged[t] # NotJudged =>
          /\ step[t] = "done"
          /\ judged[t].given.names = {zone.domain} \cup hosts[t] /\ judged[t].context.tlsas = tlsas[t]

\* A discovery that has ended stays as it is.
LEMMA DoneStays ==
    ASSUME DiscoveriesIInv, [Next]_vars, NEW t \in Discoverers, step[t] = "done"
    PROVE  step'[t] = "done" /\ hosts'[t] = hosts[t] /\ tlsas'[t] = tlsas[t]
<1>1. ASSUME UNCHANGED discovery PROVE step'[t] = "done" /\ hosts'[t] = hosts[t] /\ tlsas'[t] = tlsas[t]
  BY <1>1 DEF discovery
<1>2. ASSUME NEW u \in Discoverers, Start(u) \/ Discover(u)
      PROVE  step'[t] = "done" /\ hosts'[t] = hosts[t] /\ tlsas'[t] = tlsas[t]
  <2>1. u # t
    <3>1. CASE Start(u)
      BY <3>1 DEF Start
    <3>2. ASSUME NEW now, At(u, now), now # "done" PROVE u # t
      BY <3>2 DEF At
    <3>3. CASE SvcbAnswered(u)
      BY <3>2, <3>3 DEF SvcbAnswered
    <3>4. CASE SrvAnswered(u)
      BY <3>2, <3>4 DEF SrvAnswered
    <3>5. CASE Record(u)
      BY <3>5 DEF Record
    <3>6. CASE TlsaAnswered(u)
      BY <3>2, <3>6 DEF TlsaAnswered
    <3>7. CASE Finish(u)
      BY <3>7 DEF Finish
    <3> QED
      BY <1>2, <3>1, <3>3, <3>4, <3>5, <3>6, <3>7 DEF Discover
  <2>2. /\ UNCHANGED step \/ \E next : step' = [step EXCEPT ![u] = next]
        /\ UNCHANGED hosts \/ \E h : hosts' = [hosts EXCEPT ![u] = h]
        /\ UNCHANGED tlsas \/ \E s : tlsas' = [tlsas EXCEPT ![u] = s]
    <3>1. CASE Start(u)
      BY <3>1 DEF Start, To
    <3>2. CASE SvcbAnswered(u)
      BY <3>2 DEF SvcbAnswered, To
    <3>3. CASE SrvAnswered(u)
      <4>1. UNCHANGED <<hosts, tlsas>> /\ To(u, "records")
        BY <3>3 DEF SrvAnswered
      <4> QED
        BY <4>1 DEF To
    <3>4. CASE Record(u)
      <4>1. UNCHANGED tlsas /\ \E h : hosts' = [hosts EXCEPT ![u] = h]
        BY <3>4 DEF Record
      <4>2. UNCHANGED step \/ \E next : step' = [step EXCEPT ![u] = next]
        BY <3>4 DEF Record, To
      <4> QED
        BY <4>1, <4>2
    <3>5. CASE TlsaAnswered(u)
      <4>1. UNCHANGED hosts /\ To(u, "records") /\ \E s : tlsas' = [tlsas EXCEPT ![u] = s]
        BY <3>5 DEF TlsaAnswered
      <4> QED
        BY <4>1 DEF To
    <3>6. CASE Finish(u)
      BY <3>6 DEF Finish, To
    <3> QED
      BY <1>2, <3>1, <3>2, <3>3, <3>4, <3>5, <3>6 DEF Discover
  <2>3. /\ step = [d \in Discoverers |-> step[d]] /\ hosts = [d \in Discoverers |-> hosts[d]]
        /\ tlsas = [d \in Discoverers |-> tlsas[d]]
    BY DEF DiscoveriesIInv, Types, DiscoveriesInv
  <2> QED
    BY <2>1, <2>2, <2>3
<1>3. CASE UNCHANGED vars
  BY <1>1, <1>3 DEF vars
<1>4. CASE Application \/ Run
  BY <1>1, <1>2, <1>4 DEF Application, Run
<1> QED
  BY <1>1, <1>3, <1>4 DEF Next, Loop

LEMMA JudgedInit == ValidatorInit => Judged
  BY DEF ValidatorInit, Judged

LEMMA JudgedStep == DiscoveriesIInv /\ Judged /\ [VerifyNext]_allVars => Judged'
<1> SUFFICES ASSUME DiscoveriesIInv, Judged, [VerifyNext]_allVars PROVE Judged'
  OBVIOUS
<1>1. [Next]_vars /\ zone' = zone
  BY VerifyStep, ZoneStays DEF allVars
<1>2. ASSUME NEW t \in Discoverers, judged'[t] = judged[t], judged'[t] # NotJudged
      PROVE  /\ step'[t] = "done"
             /\ judged'[t].given.names = {zone'.domain} \cup hosts'[t] /\ judged'[t].context.tlsas = tlsas'[t]
  BY <1>1, <1>2, DoneStays DEF Judged
<1>3. CASE UNCHANGED judged
  BY <1>2, <1>3 DEF Judged
<1>4. ASSUME NEW t \in Discoverers, Discover(t), step'[t] = "done", Judge(t) PROVE Judged'
  <2>1. hosts'[t] = hosts[t] /\ tlsas'[t] = tlsas[t]
    <3>1. step \in [Discoverers -> Steps]
      BY DEF DiscoveriesIInv, Types
    <3>2. ~SvcbAnswered(t) /\ ~SrvAnswered(t) /\ ~TlsaAnswered(t)
      BY <1>4, <3>1 DEF SvcbAnswered, SrvAnswered, TlsaAnswered, To
    <3>3. ~Record(t)
      BY <1>4, <3>1 DEF Record, To
    <3> QED
      BY <1>4, <3>2, <3>3 DEF Discover, Finish
  <2>2. judged' = [judged EXCEPT ![t] = [given |-> vpm(t), context |-> Context(t)]]
    BY <1>4 DEF Judge
  <2>a. vpm(t).names = {zone.domain} \cup hosts[t] /\ Context(t).tlsas = tlsas[t]
    BY DEF vpm, Context, set0_dane, init, set0_param, NewContext
  <2>3. judged'[t].given.names = {zone'.domain} \cup hosts'[t] /\ judged'[t].context.tlsas = tlsas'[t]
    BY <1>1, <2>1, <2>2, <2>a DEF Judged
  <2>4. \A u \in Discoverers \ {t} : judged'[u] = judged[u]
    BY <2>2 DEF Judged
  <2>5. judged' = [u \in Discoverers |-> judged'[u]]
    BY <2>2 DEF Judged
  <2>6. ASSUME NEW u \in Discoverers, judged'[u] # NotJudged
        PROVE  /\ step'[u] = "done"
               /\ judged'[u].given.names = {zone'.domain} \cup hosts'[u] /\ judged'[u].context.tlsas = tlsas'[u]
    BY <1>2, <1>4, <2>3, <2>4, <2>6
  <2> QED
    BY <2>5, <2>6 DEF Judged
<1>5. CASE VerifyRun
  BY <1>3, <1>4, <1>5 DEF VerifyRun, validator
<1>6. CASE VerifyApplication
  BY <1>3, <1>6 DEF VerifyApplication, verify_tls, NothingToVerify, validator
<1>7. CASE \E t \in Discoverers : CrlArrives(t)
  BY <1>3, <1>7 DEF CrlArrives, Fetched
<1> QED
  BY <1>3, <1>5, <1>6, <1>7 DEF VerifyNext, Running, VerifyLoop, allVars, validator

\* When a verification comes to OpenSSL, every CRL whose server always has it is in the store of the TLS
\* context, the names that were prepared are those that DNSSEC vouches for and SSL_DANE has the TLSA
\* records, whatever else is verified, discovered or looked up at the same time.
THEOREM AllCollectedHolds == VerifySpec => []AllCollected
<1>1. CrlsAreThere /\ GathersVerified /\ Judged => AllCollected
  BY DEF GathersVerified, Judged, AllCollected
<1>2. VerifySpec => []DiscoveriesIInv
  BY VerifySpecImplementsSpec, DiscoveriesIInvInvariant, PTL
<1>3. VerifySpec => []Judged
  BY <1>2, JudgedInit, JudgedStep, PTL DEF VerifySpec
<1> QED
  BY <1>1, <1>3, CrlsAreThereHolds, VerifySpecImplementsSpec, GathersVerifiedHolds, PTL
=============================================================================
