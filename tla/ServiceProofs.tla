---------------------------- MODULE ServiceProofs ----------------------------
(***************************************************************************)
(* Proofs about Service, for any discoveries, lookups and zones.           *)
(***************************************************************************)
EXTENDS Service, SequenceFacts

-----------------------------------------------------------------------------
(* Sequences.                                                              *)

LEMMA ListOf == ASSUME NEW S, NEW s \in Seq(S) PROVE IsList(s) /\ ToSet(s) \subseteq S
  BY DEF IsList, ToSet

LEMMA Joined ==
    ASSUME NEW r, NEW s, IsList(r), IsList(s)
    PROVE  IsList(r \o s) /\ ToSet(r \o s) = ToSet(r) \cup ToSet(s)
<1>1. r \in Seq(ToSet(r) \cup ToSet(s)) /\ s \in Seq(ToSet(r) \cup ToSet(s))
  BY DEF IsList
<1>2. \A i \in 1 .. Len(r) : i \in DOMAIN (r \o s) /\ (r \o s)[i] = r[i]
  BY <1>1
<1>3. \A i \in 1 .. Len(s) : Len(r) + i \in DOMAIN (r \o s) /\ (r \o s)[Len(r) + i] = s[i]
  BY <1>1
<1>4. DOMAIN r = 1 .. Len(r) /\ DOMAIN s = 1 .. Len(s)
  BY <1>1
<1>5. ToSet(r) \subseteq ToSet(r \o s)
  BY <1>2, <1>4 DEF ToSet
<1>6. ToSet(s) \subseteq ToSet(r \o s)
  BY <1>3, <1>4 DEF ToSet
<1>7. r \o s \in Seq(ToSet(r) \cup ToSet(s))
  BY <1>1
<1>8. IsList(r \o s) /\ ToSet(r \o s) \subseteq ToSet(r) \cup ToSet(s)
  BY <1>7, ListOf
<1> QED
  BY <1>5, <1>6, <1>8

LEMMA Reversed ==
    ASSUME NEW s, IsList(s)
    PROVE  IsList(Reverse(s)) /\ ToSet(Reverse(s)) = ToSet(s)
<1> DEFINE n == Len(s)
           r == Reverse(s)
<1>1. n \in Nat /\ DOMAIN s = 1 .. n /\ \A i \in 1 .. n : s[i] \in ToSet(s)
  BY DEF IsList
<1>2. r = [i \in 1 .. n |-> s[n - i + 1]]
  BY DEF Reverse
<1> HIDE DEF n
<1>3. \A i \in 1 .. n : n - i + 1 \in 1 .. n /\ n - (n - i + 1) + 1 = i
  BY <1>1
<1>4. DOMAIN r = 1 .. n /\ \A i \in 1 .. n : r[i] = s[n - i + 1] /\ r[n - i + 1] = s[i]
  BY <1>2, <1>3
<1>5. r \in Seq(ToSet(s))
  BY <1>1, <1>2, <1>3
<1> HIDE DEF r
<1>6. ToSet(s) \subseteq ToSet(r)
  BY <1>1, <1>3, <1>4 DEF ToSet
<1>7. IsList(r) /\ ToSet(r) \subseteq ToSet(s)
  BY <1>5, ListOf
<1> QED
  BY <1>6, <1>7 DEF r

\* Pick() takes what it picks from the sequence.
LEMMA Picks ==
    ASSUME NEW s, IsList(s), NEW places \in SUBSET DOMAIN s
    PROVE  IsList(Pick(s, places)) /\ ToSet(Pick(s, places)) \subseteq ToSet(s)
<1> DEFINE upto(m) == {j \in places : j <= m}
<1>1. Len(s) \in Nat /\ DOMAIN s = 1 .. Len(s)
  BY DEF IsList
<1>2. IsFiniteSet(places)
  <2>1. IsFiniteSet(1 .. Len(s)) /\ places \in SUBSET (1 .. Len(s))
    BY <1>1, FS_Interval
  <2> QED
    BY <2>1, FS_Subset
<1>3. ASSUME NEW m PROVE IsFiniteSet(upto(m)) /\ Cardinality(upto(m)) \in Nat
  <2>1. upto(m) \in SUBSET places
    OBVIOUS
  <2> HIDE DEF upto
  <2> QED
    BY <1>2, <2>1, FS_Subset, FS_CardinalityType
<1>4. Cardinality(places) \in Nat
  BY <1>2, FS_CardinalityType
<1>5. ASSUME NEW k \in 1 .. Cardinality(places)
      PROVE  \E i \in places : Cardinality(upto(i)) = k
  <2> DEFINE T == {m \in Nat : Cardinality(upto(m)) >= k}
  <2>1. Len(s) \in T
    <3>1. upto(Len(s)) = places
      BY <1>1
    <3>2. Cardinality(places) >= k
      BY <1>4
    <3> QED
      BY <1>1, <3>1, <3>2
  <2>2. PICK m \in T : \A n \in T : m <= n
    BY <2>1, LeastNat
  <2>3. m # 0
    <3>1. upto(0) = {}
      BY <1>1
    <3> QED
      BY <2>2, <3>1, FS_EmptySet, <1>4
  <2>4. m - 1 \in Nat /\ ~(Cardinality(upto(m - 1)) >= k)
    BY <2>2, <2>3
  <2>5. m \in places
    <3>1. m \notin places => upto(m) = upto(m - 1)
      BY <1>1, <2>2
    <3> QED
      BY <2>2, <2>4, <3>1
  <2>6. upto(m) = upto(m - 1) \cup {m} /\ m \notin upto(m - 1)
    BY <1>1, <2>2, <2>5
  <2>7. Cardinality(upto(m)) = Cardinality(upto(m - 1)) + 1
    <3> HIDE DEF upto
    <3> QED
      BY <1>3, <2>6, FS_AddElement
  <2>8. Cardinality(upto(m - 1)) \in Nat /\ Cardinality(upto(m)) >= k /\ k \in Nat
    BY <1>3, <1>4, <2>2
  <2>9. Cardinality(upto(m)) = k
    <3> HIDE DEF upto
    <3> QED
      BY <2>4, <2>7, <2>8
  <2> QED
    BY <2>5, <2>9
<1>6. \A k \in 1 .. Cardinality(places) : Pick(s, places)[k] \in ToSet(s)
  BY <1>5 DEF Pick, ToSet
<1>7. Pick(s, places) \in Seq(ToSet(s))
  <2> DEFINE m == Cardinality(places)
             f(k) == Pick(s, places)[k]
  <2>1. Pick(s, places) = [k \in 1 .. m |-> f(k)]
    BY DEF Pick
  <2> HIDE DEF m, f
  <2>2. m \in Nat /\ \A k \in 1 .. m : f(k) \in ToSet(s)
    BY <1>4, <1>6 DEF m, f
  <2> QED
    BY <2>1, <2>2
<1> QED
  BY <1>7, ListOf

-----------------------------------------------------------------------------
(* Queries.                                                                *)

\* Where a coroutine may have questions that are not answered.
Asks(t) == \/ t \in Discoverers /\ step[t] \in {"svcb", "srv", "tlsa"}
           \/ t \in Lookups /\ at[t] \in {"srv", "a6", "a4"}

NoneOf(t) == \A c \in pending : c[1] # t

\* Only a coroutine that waits has queries, and not the one that runs: so that what a coroutine
\* waits for may be forgotten when it goes on or begins.
Queries == /\ waiting = [t \in Tasks |-> waiting[t]] /\ got = [t \in Tasks |-> got[t]]
           /\ step = [t \in Discoverers |-> step[t]] /\ at = [t \in Lookups |-> at[t]]
           /\ \A c \in pending : c = <<c[1], c[2], c[3]>> /\ c[1] \in Tasks /\ Asks(c[1])
           /\ NoneOf(running)

Inv == Queries /\ NoStrayCallback

-----------------------------------------------------------------------------
\* The steps of a task leave where the others are.
Others(t) == /\ step' = [u \in Discoverers |-> step'[u]] /\ at' = [u \in Lookups |-> at'[u]]
             /\ \A u \in Tasks \ {t} : Asks(u) => Asks(u)'

LEMMA Apart == Tasks = Discoverers \cup Lookups /\ Discoverers \cap Lookups = {} /\ "none" \notin Tasks
  BY ServiceAssumption, ResolverAssumption, DiscoveryAssumption, LookupAssumption

LEMMA InvInit == ServiceInit => Inv
  BY DEF ServiceInit, Init, DiscoveryInit, LookupInit, Inv, Queries, NoneOf, NoStrayCallback

\* await_suspend(): a task without queries asks some.
LEMMA AwaitKeeps ==
    ASSUME Inv, NEW t \in Tasks, NEW q, NoneOf(t), Await(t, q), Others(t), Asks(t)'
    PROVE  Inv'
<1> DEFINE known == {i \in DOMAIN q : Slot(q[i]) \in DOMAIN injected}
           asked == {<<t, i, q[i]>> : i \in DOMAIN q \ known}
           answers == [i \in known |-> injected[Slot(q[i])]]
<1>1. /\ waiting' = [waiting EXCEPT ![t] = q] /\ got' = [got EXCEPT ![t] = answers]
      /\ pending' = pending \cup asked /\ running' = IF asked = {} THEN t ELSE "none"
  BY DEF Await, RunsOn
<1>2. waiting'[t] = q /\ got'[t] = answers /\ DOMAIN got'[t] = known
  BY <1>1 DEF Inv, Queries
<1>3. \A u \in Tasks \ {t} : waiting'[u] = waiting[u] /\ got'[u] = got[u]
  BY <1>1 DEF Inv, Queries
<1>4. ASSUME NEW c \in pending'
      PROVE  c = <<c[1], c[2], c[3]>> /\ c[1] \in Tasks /\ Asks(c[1])' /\ c[1] # running' /\ Live(c)'
  <2>1. CASE c \in pending
    <3>1. c[1] \in Tasks \ {t} /\ Live(c)
      BY <2>1 DEF Inv, Queries, NoneOf, NoStrayCallback
    <3>2. Live(c)'
      BY <3>1, <1>3 DEF Live
    <3> QED
      BY <2>1, <3>1, <3>2, <1>1, Apart DEF Inv, Queries, Others
  <2>2. CASE c \in asked
    <3>1. PICK i \in DOMAIN q \ known : c = <<t, i, q[i]>>
      BY <2>2
    <3>2. Live(c)'
      BY <3>1, <1>2 DEF Live
    <3> QED
      BY <2>2, <3>1, <3>2, <1>1, Apart
  <2> QED
    BY <1>1, <2>1, <2>2
<1>5. waiting' = [u \in Tasks |-> waiting'[u]] /\ got' = [u \in Tasks |-> got'[u]]
  BY <1>1 DEF Inv, Queries
<1> QED
  BY <1>4, <1>5 DEF Inv, Queries, NoneOf, NoStrayCallback, Others

\* await_resume(): a task without queries goes on, or another runs that has none.
LEMMA GoOnKeeps ==
    ASSUME Inv, NEW t \in Tasks, NEW next \in {t, "none"}, NoneOf(t), GoOn(t, next), Others(t)
    PROVE  Inv'
<1>1. /\ waiting' = [waiting EXCEPT ![t] = <<>>] /\ got' = [got EXCEPT ![t] = <<>>]
      /\ pending' = pending /\ running' = next
  BY DEF GoOn
<1>2. ASSUME NEW c \in pending
      PROVE  c[1] \in Tasks \ {t} /\ Asks(c[1])' /\ Live(c)'
  <2>1. c[1] \in Tasks \ {t} /\ Live(c)
    BY DEF Inv, Queries, NoneOf, NoStrayCallback
  <2> QED
    BY <1>1, <2>1 DEF Live, Inv, Queries, Others
<1>3. waiting' = [u \in Tasks |-> waiting'[u]] /\ got' = [u \in Tasks |-> got'[u]]
  BY <1>1 DEF Inv, Queries
<1> QED
  BY <1>1, <1>2, <1>3, Apart DEF Inv, Queries, NoneOf, NoStrayCallback, Others

\* ~query(): the queries of a task go with its frame.
LEMMA ReleaseKeeps ==
    ASSUME Inv, NEW t \in Tasks, Release(t), Others(t), running' = running
    PROVE  Inv'
<1>1. /\ waiting' = [waiting EXCEPT ![t] = <<>>] /\ got' = [got EXCEPT ![t] = <<>>]
      /\ pending' = {c \in pending : c[1] # t}
  BY DEF Release, Cancelled
<1>2. ASSUME NEW c \in pending'
      PROVE  c \in pending /\ c[1] \in Tasks \ {t} /\ Asks(c[1])' /\ Live(c)'
  <2>1. c \in pending /\ c[1] \in Tasks \ {t} /\ Live(c)
    BY <1>1 DEF Inv, Queries, NoStrayCallback
  <2> QED
    BY <1>1, <2>1 DEF Live, Inv, Queries, Others
<1>3. waiting' = [u \in Tasks |-> waiting'[u]] /\ got' = [u \in Tasks |-> got'[u]]
  BY <1>1 DEF Inv, Queries
<1> QED
  BY <1>1, <1>2, <1>3 DEF Inv, Queries, NoneOf, NoStrayCallback, Others

\* callback(): the last answer resumes a task that has no other query.
LEMMA CallbackKeeps ==
    ASSUME Inv, NEW c \in pending, Callback(c), UNCHANGED <<discovery, lookup>>
    PROVE  Inv'
<1> DEFINE t == c[1]
           have == [i \in DOMAIN got[t] \cup {c[2]} |->
                       IF i = c[2] THEN init_answer(c[3]) ELSE got[t][i]]
<1>1. /\ pending' = pending \ {c} /\ got' = [got EXCEPT ![t] = have] /\ waiting' = waiting
      /\ running' = IF DOMAIN have = DOMAIN waiting[t] THEN t ELSE "none"
  BY DEF Callback, Have
<1>2. t \in Tasks /\ c = <<t, c[2], c[3]>> /\ Live(c)
  BY DEF Inv, Queries, NoStrayCallback
<1>3. got'[t] = have /\ DOMAIN have = DOMAIN got[t] \cup {c[2]}
  BY <1>1, <1>2 DEF Inv, Queries
<1>4. \A u \in Tasks \ {t} : got'[u] = got[u]
  BY <1>1 DEF Inv, Queries
<1>5. \A u \in Tasks : Asks(u)' <=> Asks(u)
  BY DEF Asks, discovery, lookup
<1>6. ASSUME NEW o \in pending'
      PROVE  o \in pending /\ Live(o)' /\ o[1] # running'
  <2>1. o \in pending /\ o # c /\ o = <<o[1], o[2], o[3]>> /\ o[1] \in Tasks /\ Live(o)
    BY <1>1 DEF Inv, Queries, NoStrayCallback
  <2>2. CASE o[1] = t
    <3>1. o[2] # c[2]
      BY <2>1, <2>2, <1>2 DEF Live
    <3>2. o[2] \in DOMAIN waiting[t] \ DOMAIN have
      BY <2>1, <2>2, <3>1, <1>3 DEF Live
    <3> QED
      BY <2>1, <2>2, <3>2, <1>1, <1>2, <1>3, Apart DEF Live
  <2>3. CASE o[1] # t
    BY <2>1, <2>3, <1>1, <1>4, Apart DEF Live
  <2> QED
    BY <2>2, <2>3
<1>7. got' = [u \in Tasks |-> got'[u]]
  BY <1>1 DEF Inv, Queries
<1> QED
  BY <1>1, <1>5, <1>6, <1>7 DEF Inv, Queries, NoneOf, NoStrayCallback, discovery, lookup

-----------------------------------------------------------------------------
(* The steps of the coroutines.  Each is an await or goes on.              *)

\* A discovery that makes a step is the one that runs.
LEMMA DiscoverRuns == ASSUME NEW t, Discover(t) PROVE running = t
<1>1. ASSUME NEW now, At(t, now) PROVE running = t
  BY <1>1 DEF At, Answered, Runs
<1>2. CASE SvcbAnswered(t)
  BY <1>1, <1>2 DEF SvcbAnswered
<1>3. CASE SrvAnswered(t)
  BY <1>1, <1>3 DEF SrvAnswered
<1>4. CASE Record(t)
  BY <1>4 DEF Record, Runs
<1>5. CASE TlsaAnswered(t)
  BY <1>1, <1>5 DEF TlsaAnswered
<1>6. CASE Finish(t)
  BY <1>6 DEF Finish, Runs
<1> QED
  BY <1>2, <1>3, <1>4, <1>5, <1>6 DEF Discover

\* A discovery that runs has no queries, and where it goes is no matter to the others.
LEMMA DiscoverKeeps ==
    ASSUME Inv, NEW t \in Discoverers, Discover(t), UNCHANGED lookup
    PROVE  Inv'
<1>1. t \in Tasks /\ running = t /\ NoneOf(t)
  BY Apart, DiscoverRuns DEF Inv, Queries
<1> DEFINE Goes(next) == step' = [step EXCEPT ![t] = next]
<1>2. ASSUME NEW next, Goes(next) PROVE Others(t) /\ step'[t] = next
  BY <1>2, Apart DEF Others, Asks, lookup, Inv, Queries
<1>3. ASSUME NEW q, NEW next \in {"svcb", "srv", "tlsa"}, Goes(next), Await(t, q) PROVE Inv'
  BY <1>1, <1>2, <1>3, AwaitKeeps DEF Asks
<1>4. ASSUME NEW next, NEW who \in {t, "none"}, Goes(next), GoOn(t, who) PROVE Inv'
  BY <1>1, <1>2, <1>4, GoOnKeeps
<1>5. CASE SvcbAnswered(t)
  BY <1>3, <1>4, <1>5 DEF SvcbAnswered, To
<1>6. CASE SrvAnswered(t) \/ TlsaAnswered(t) \/ Finish(t)
  <2>1. CASE SrvAnswered(t)
    <3>1. Goes("records") /\ GoOn(t, t)
      BY <2>1 DEF SrvAnswered, To
    <3> HIDE DEF Goes
    <3> QED
      BY <1>4, <3>1
  <2>2. CASE TlsaAnswered(t)
    <3>1. Goes("records") /\ GoOn(t, t)
      BY <2>2 DEF TlsaAnswered, To
    <3> HIDE DEF Goes
    <3> QED
      BY <1>4, <3>1
  <2>3. CASE Finish(t)
    <3>1. Goes("done") /\ GoOn(t, "none")
      BY <2>3 DEF Finish, To
    <3> HIDE DEF Goes
    <3> QED
      BY <1>4, <3>1
  <2> QED
    BY <1>6, <2>1, <2>2, <2>3
<1>7. CASE Record(t)
  <2>1. CASE UNCHANGED <<resolver, step>>
    BY <2>1 DEF Inv, Queries, NoneOf, NoStrayCallback, Live, Asks, resolver, lookup
  <2> QED
    BY <1>3, <1>7, <2>1 DEF Record, To
<1> QED
  BY <1>5, <1>6, <1>7 DEF Discover

\* The same of a lookup.
LEMMA GenerateKeeps ==
    ASSUME Inv, NEW t \in Lookups, Generate(t), UNCHANGED discovery
    PROVE  Inv'
<1>1. t \in Tasks /\ running = t /\ NoneOf(t)
  BY Apart DEF Generate, Collapse, Choose, Exhausted, Addresses, Give, GiveNoMore, Is, Runs,
               Inv, Queries
<1> DEFINE Goes(next) == at' = [at EXCEPT ![t] = next]
<1>2. ASSUME NEW next, Goes(next) PROVE Others(t) /\ at'[t] = next
  BY <1>2, Apart DEF Others, Asks, discovery, Inv, Queries
<1>3. ASSUME NEW q, NEW next \in {"srv", "a6", "a4"}, Goes(next), Await(t, q) PROVE Inv'
  BY <1>1, <1>2, <1>3, AwaitKeeps DEF Asks
<1>4. ASSUME NEW next, NEW who \in {t, "none"}, Goes(next), GoOn(t, who) PROVE Inv'
  BY <1>1, <1>2, <1>4, GoOnKeeps
<1>5. ASSUME UNCHANGED at PROVE Goes(at[t])
  BY <1>5 DEF Inv, Queries
<1>6. CASE Collapse(t) \/ Exhausted(t)
  BY <1>4, <1>6 DEF Collapse, Exhausted, Going
<1>7. CASE Choose(t)
  BY <1>3, <1>4, <1>5, <1>7 DEF Choose, Going
<1>8. CASE Addresses(t, "a6", "give6") \/ Addresses(t, "a4", "give4")
  BY <1>4, <1>8 DEF Addresses, Going
<1>9. CASE Give(t) \/ GiveNoMore(t)
  BY <1>3, <1>4, <1>5, <1>9 DEF Give, GiveNoMore, Going
<1> QED
  BY <1>6, <1>7, <1>8, <1>9 DEF Generate

\* What the application does finds no coroutine running: a discovery or a lookup that begins has no
\* queries, a generator at a yield has none, and one that is dropped takes its own along.
LEMMA ApplicationKeeps == Inv /\ Application => Inv'
<1> SUFFICES ASSUME Inv, Application PROVE Inv'
  OBVIOUS
<1>1. ASSUME NEW t \in Discoverers, Start(t), UNCHANGED lookup PROVE Inv'
  <2>1. NoneOf(t) /\ t \in Tasks
    BY <1>1, Apart DEF Start, Inv, Queries, NoneOf, Asks
  <2>2. Others(t) /\ Asks(t)'
    BY <1>1, Apart DEF Start, To, Others, Asks, lookup, Inv, Queries
  <2> QED
    BY <1>1, <2>1, <2>2, AwaitKeeps DEF Start
<1>2. ASSUME NEW t \in Lookups, Begin(t) \/ Advance(t) \/ Drop(t), UNCHANGED discovery PROVE Inv'
  <2>1. t \in Tasks
    BY Apart
  <2>2. Others(t)
    BY <1>2, Apart DEF Begin, Advance, Drop, Going, Others, Asks, lookup, discovery, Inv, Queries
  <2>3. CASE Begin(t)
    <3>1. NoneOf(t) /\ Asks(t)'
      BY <2>3, Apart DEF Begin, Going, Inv, Queries, NoneOf, Asks
    <3> QED
      BY <2>1, <2>2, <2>3, <3>1, AwaitKeeps DEF Begin
  <2>4. CASE Advance(t)
    <3>1. NoneOf(t)
      BY <2>4, Apart DEF Advance, Inv, Queries, NoneOf, Asks
    <3> QED
      BY <2>1, <2>2, <2>4, <3>1, GoOnKeeps DEF Advance
  <2>5. CASE Drop(t)
    BY <2>1, <2>2, <2>5, ReleaseKeeps DEF Drop
  <2> QED
    BY <1>2, <2>3, <2>4, <2>5
<1> QED
  BY <1>1, <1>2 DEF Application

\* libunbound: an answer, an error that ends the coroutine, or the end of the program.
LEMMA LoopKeeps == Inv /\ Loop => Inv'
<1> SUFFICES ASSUME Inv, NEW c \in pending, UNCHANGED <<discovery, lookup>>,
                    Callback(c) \/ ErrorCallback(c) \/ HaltingCallback(c)
             PROVE  Inv'
  BY DEF Loop, event_callback
<1>1. CASE Callback(c)
  BY <1>1, CallbackKeeps
<1>2. CASE ErrorCallback(c)
  <2>1. c[1] \in Tasks /\ Others(c[1])
    BY DEF Inv, Queries, Others, Asks, discovery, lookup
  <2> QED
    BY <1>2, <2>1, ReleaseKeeps DEF ErrorCallback
<1>3. CASE HaltingCallback(c)
  BY <1>3 DEF HaltingCallback, Inv, Queries, NoneOf, NoStrayCallback, Live, Asks, discovery, lookup
<1> QED
  BY <1>1, <1>2, <1>3

LEMMA InvStep == Inv /\ [Next]_vars => Inv'
<1> SUFFICES ASSUME Inv, [Next]_vars PROVE Inv'
  OBVIOUS
<1>1. CASE UNCHANGED vars
  BY <1>1 DEF vars, resolver, discovery, lookup, Inv, Queries, NoneOf, NoStrayCallback, Live, Asks
<1>2. CASE Inject /\ UNCHANGED <<discovery, lookup>>
  BY <1>2 DEF Inject, discovery, lookup, Inv, Queries, NoneOf, NoStrayCallback, Live, Asks
<1> QED
  BY <1>1, <1>2, DiscoverKeeps, GenerateKeeps, ApplicationKeeps, LoopKeeps DEF Next, Run

\* Every query libunbound still has belongs to a coroutine that waits for its answer, whatever the
\* order of the answers, whatever fails and whenever a generator is dropped.
THEOREM NoStrayCallbackHolds == Spec => []NoStrayCallback
<1>1. Inv => NoStrayCallback
  BY DEF Inv
<1> QED
  BY <1>1, InvInit, InvStep, PTL DEF Spec

-----------------------------------------------------------------------------
(* Answers.                                                                *)

\* An answer to q as it was meant.  Addresses come in any order.
Means(q, a) ==
    /\ a.error = Answer(q).error /\ a.dnssec = Answer(q).dnssec
    /\ IsList(a.rrs)
    /\ IF q[1] \in {"a", "aaaa"} THEN ToSet(a.rrs) = ToSet(Answer(q).rrs) ELSE a.rrs = Answer(q).rrs

\* What is injected, and that nothing begins before it is.
Injections ==
    /\ zone \in Zones
    /\ \E n \in 0 .. Len(zone.inject) : toInject = SubSeq(zone.inject, n + 1, Len(zone.inject))
    /\ \A s \in DOMAIN injected :
          /\ injected[s] = [error |-> injected[s].error, dnssec |-> injected[s].dnssec, rrs |-> injected[s].rrs]
          /\ IsAnswer(injected[s])
          /\ s[1] = "srv" => ~injected[s].error /\ Ranked(injected[s].rrs)
    /\ toInject # <<>> =>
          /\ running = "none" /\ \A t \in Tasks : waiting[t] = <<>> /\ got[t] = <<>>
          /\ step = [t \in Discoverers |-> "idle"] /\ at = [t \in Lookups |-> "idle"]

\* What a task has got answers what it waits for, and it runs when that is everything.
Gets(t) ==
    /\ DOMAIN got[t] \subseteq DOMAIN waiting[t]
    /\ \A i \in DOMAIN got[t] : Means(waiting[t][i], got[t][i])
    /\ running = t => DOMAIN got[t] = DOMAIN waiting[t]
    /\ waiting[t] # <<>> /\ DOMAIN got[t] = DOMAIN waiting[t] => running = t

Answers ==
    /\ Injections
    /\ running \in Tasks \cup {"none"}
    /\ \A t \in Tasks : Gets(t)
    /\ \A c \in pending : Slot(c[3]) \notin DOMAIN injected

\* What there is to find is an answer.
LEMMA AnswerIsOne ==
    ASSUME zone \in Zones, NEW q, Good(q)
    PROVE  LET result == zone.dns[Key(q)]
           IN  /\ result.secure \in BOOLEAN
               /\ IsList(result.rrs) /\ DOMAIN result.data = DOMAIN result.rrs
               /\ q[1] = "srv" => Ranked(result.rrs)
               /\ \A i \in DOMAIN result.rrs :
                     \/ Parsed(q, result.data[i]) = result.rrs[i]
                     \/ q[1] \in {"svcb", "srv", "tlsa"} /\ Parsed(q, result.data[i]) = Unparsed
<1> DEFINE k == Key(q)
<1>1. k \in DOMAIN zone.dns /\ Findable(zone)
  BY ZonesAssumption DEF Good
<1>2. k[1] = q[1] /\ k[2] = q[2]
  BY DEF Key
<1>3. \A data : Parsed(k, data) = Parsed(q, data)
  BY <1>2 DEF Parsed
<1> HIDE DEF k
<1> QED
  BY <1>1, <1>2, <1>3 DEF Findable, k

LEMMA AnswersAre ==
    ASSUME Injections, NEW q
    PROVE  /\ IsAnswer(Answer(q))
           /\ q[1] = "srv" => Ranked(Answer(q).rrs)
<1>1. CASE Slot(q) \in DOMAIN injected
  <2>1. Slot(q)[1] = q[1]
    BY DEF Slot
  <2> QED
    BY <1>1, <2>1 DEF Injections, Answer
<1>2. CASE Slot(q) \notin DOMAIN injected /\ ~Good(q)
  <2>1. Answer(q) = NoAnswer
    BY <1>2 DEF Answer
  <2>2. IsList(<<>>)
    BY DEF IsList
  <2> QED
    BY <2>1, <2>2 DEF NoAnswer, IsAnswer, Ranked
<1>3. CASE Slot(q) \notin DOMAIN injected /\ Good(q)
  <2>1. /\ ~Answer(q).error /\ Answer(q).error \in BOOLEAN
        /\ Answer(q).dnssec = zone.dns[Key(q)].secure /\ Answer(q).rrs = zone.dns[Key(q)].rrs
    BY <1>3 DEF Answer
  <2> QED
    BY <1>3, <2>1, AnswerIsOne DEF IsAnswer, Injections
<1> QED
  BY <1>1, <1>2, <1>3

\* init_answer() makes of the octets what is meant.
LEMMA InitAnswerMeans ==
    ASSUME Injections, NEW q, Slot(q) \notin DOMAIN injected, ~Fails(q), ~Malformed(q)
    PROVE  Means(q, init_answer(q))
<1> DEFINE result == zone.dns[Key(q)]
           rrs == [i \in DOMAIN result.data |-> Parsed(q, result.data[i])]
<1>1. CASE ~Good(q)
  <2>1. Answer(q) = NoAnswer /\ init_answer(q) = NoAnswer
    BY <1>1 DEF Answer, init_answer
  <2>2. IsList(<<>>)
    BY DEF IsList
  <2> QED
    BY <2>1, <2>2 DEF Means, NoAnswer
<1>2. CASE Good(q)
  <2>1. /\ Answer(q) = [error |-> FALSE, dnssec |-> result.secure, rrs |-> result.rrs]
        /\ init_answer(q) = [error |-> FALSE, dnssec |-> result.secure,
                             rrs |-> IF q[1] \in {"a", "aaaa"} THEN Reverse(rrs) ELSE rrs]
    BY <1>2 DEF Answer, init_answer
  <2>2. /\ IsList(result.rrs) /\ DOMAIN result.data = DOMAIN result.rrs
        /\ \A i \in DOMAIN result.rrs :
              \/ Parsed(q, result.data[i]) = result.rrs[i]
              \/ q[1] \in {"svcb", "srv", "tlsa"} /\ Parsed(q, result.data[i]) = Unparsed
    BY <1>2, AnswerIsOne DEF Injections
  <2>3. \A i \in DOMAIN result.rrs : Parsed(q, result.data[i]) = result.rrs[i]
    BY <1>2, <2>2 DEF Malformed, ToSet
  <2>4. rrs = result.rrs
    <3>1. result.rrs = [i \in DOMAIN result.rrs |-> result.rrs[i]]
      BY <2>2 DEF IsList
    <3> QED
      BY <2>2, <2>3, <3>1
  <2> HIDE DEF rrs, result
  <2>5. IsList(Reverse(result.rrs)) /\ ToSet(Reverse(result.rrs)) = ToSet(result.rrs)
    BY <2>2, Reversed
  <2> QED
    BY <2>1, <2>2, <2>4, <2>5 DEF Means
<1> QED
  BY <1>1, <1>2

LEMMA AnswersInit == ServiceInit => Answers
<1> SUFFICES ASSUME ServiceInit PROVE Answers
  OBVIOUS
<1>1. /\ zone \in Zones /\ toInject = zone.inject /\ injected = <<>> /\ pending = {} /\ running = "none"
      /\ \A t \in Tasks : waiting[t] = <<>> /\ got[t] = <<>>
      /\ step = [t \in Discoverers |-> "idle"] /\ at = [t \in Lookups |-> "idle"]
  BY DEF ServiceInit, Init, DiscoveryInit, LookupInit
<1>2. 0 \in 0 .. Len(zone.inject) /\ toInject = SubSeq(zone.inject, 0 + 1, Len(zone.inject))
  <2>1. IsList(zone.inject)
    BY <1>1, ZonesAssumption DEF Findable
  <2> QED
    BY <1>1, <2>1 DEF IsList
<1>3. Injections
  BY <1>1, <1>2 DEF Injections
<1>4. \A t \in Tasks : Gets(t)
  BY <1>1, Apart DEF Gets
<1> QED
  BY <1>1, <1>3, <1>4 DEF Answers

\* While nothing is left to inject, what is meant stays the same.
Still == toInject = <<>> /\ UNCHANGED <<zone, toInject, injected>>

LEMMA StillInjected ==
    ASSUME Injections, Still
    PROVE  Injections' /\ \A q : Answer(q)' = Answer(q)
<1>1. \A q : Answer(q)' = Answer(q)
  BY DEF Still, Answer, Good
<1> QED
  BY <1>1 DEF Still, Injections, IsAnswer, IsList, Ranked

LEMMA StillMeans ==
    ASSUME Injections, Still, NEW q, NEW a
    PROVE  Means(q, a)' <=> Means(q, a)
  BY StillInjected DEF Means

\* A task that begins or runs asks, and has what was injected.
LEMMA AwaitAnswers ==
    ASSUME Inv, Answers, toInject = <<>>, NEW t \in Tasks, running \in {t, "none"},
           NEW q, IsList(q), q # <<>>, Await(t, q)
    PROVE  Answers'
<1> DEFINE known == {i \in DOMAIN q : Slot(q[i]) \in DOMAIN injected}
           asked == {<<t, i, q[i]>> : i \in DOMAIN q \ known}
           answers == [i \in known |-> injected[Slot(q[i])]]
<1>1. /\ waiting' = [waiting EXCEPT ![t] = q] /\ got' = [got EXCEPT ![t] = answers]
      /\ pending' = pending \cup asked /\ running' = (IF asked = {} THEN t ELSE "none")
      /\ Still
  BY DEF Await, RunsOn, Still
<1>2. waiting'[t] = q /\ got'[t] = answers /\ DOMAIN got'[t] = known
  BY <1>1 DEF Inv, Queries
<1>3. \A u \in Tasks \ {t} : waiting'[u] = waiting[u] /\ got'[u] = got[u]
  BY <1>1 DEF Inv, Queries
<1>4. Injections'
  BY <1>1, StillInjected DEF Answers
<1>5. ASSUME NEW i \in known PROVE Means(q[i], answers[i])
  <2>1. answers[i] = Answer(q[i])
    BY DEF Answer
  <2>2. IsList(Answer(q[i]).rrs)
    BY AnswersAre DEF Answers, IsAnswer
  <2> QED
    BY <2>1, <2>2 DEF Means
<1>6. Gets(t)'
  <2>1. \A i \in known : Means(waiting[t][i], got[t][i])'
    <3> HIDE DEF known, asked, answers
    <3> QED
      BY <1>1, <1>2, <1>5, StillMeans DEF Answers
  <2>2. known = DOMAIN q <=> asked = {}
    OBVIOUS
  <2> HIDE DEF known, asked, answers
  <2>3. known \subseteq DOMAIN q
    BY DEF known
  <2> QED
    BY <1>1, <1>2, <2>1, <2>2, <2>3, Apart DEF Gets
<1>7. ASSUME NEW u \in Tasks \ {t} PROVE Gets(u)'
  <2>1. Gets(u) /\ running # u /\ running' # u
    BY <1>1, Apart DEF Answers
  <2>2. \A i \in DOMAIN got[u] : Means(waiting[u][i], got[u][i])'
    BY <1>1, <2>1, StillMeans DEF Answers, Gets
  <2> QED
    BY <1>3, <2>1, <2>2 DEF Gets
<1>8. \A c \in pending' : Slot(c[3]) \notin DOMAIN injected'
  BY <1>1 DEF Answers, Still
<1> QED
  BY <1>1, <1>4, <1>6, <1>7, <1>8 DEF Answers

LEMMA GoOnAnswers ==
    ASSUME Inv, Answers, toInject = <<>>, NEW t \in Tasks, running \in {t, "none"},
           NEW next \in {t, "none"}, GoOn(t, next)
    PROVE  Answers'
<1>1. /\ waiting' = [waiting EXCEPT ![t] = <<>>] /\ got' = [got EXCEPT ![t] = <<>>]
      /\ pending' = pending /\ running' = next /\ Still
  BY DEF GoOn, Still
<1>2. waiting'[t] = <<>> /\ got'[t] = <<>>
  BY <1>1 DEF Inv, Queries
<1>3. \A u \in Tasks \ {t} : waiting'[u] = waiting[u] /\ got'[u] = got[u]
  BY <1>1 DEF Inv, Queries
<1>4. Injections' /\ Gets(t)'
  BY <1>1, <1>2, StillInjected DEF Answers, Gets
<1>5. ASSUME NEW u \in Tasks \ {t} PROVE Gets(u)'
  <2>1. Gets(u) /\ running # u /\ running' # u
    BY <1>1, Apart DEF Answers
  <2>2. \A i \in DOMAIN got[u] : Means(waiting[u][i], got[u][i])'
    BY <1>1, <2>1, StillMeans DEF Answers, Gets
  <2> QED
    BY <1>3, <2>1, <2>2 DEF Gets
<1> QED
  BY <1>1, <1>4, <1>5 DEF Answers, Still

LEMMA ReleaseAnswers ==
    ASSUME Inv, Answers, Idle, NEW t \in Tasks, Release(t), UNCHANGED <<zone, toInject, injected, running>>
    PROVE  Answers'
<1>1. /\ waiting' = [waiting EXCEPT ![t] = <<>>] /\ got' = [got EXCEPT ![t] = <<>>]
      /\ pending' \subseteq pending /\ running' = "none" /\ running = "none" /\ Still
  BY DEF Release, Cancelled, Still, Idle
<1>2. waiting'[t] = <<>> /\ got'[t] = <<>>
  BY <1>1 DEF Inv, Queries
<1>3. \A u \in Tasks \ {t} : waiting'[u] = waiting[u] /\ got'[u] = got[u]
  BY <1>1 DEF Inv, Queries
<1>4. Injections' /\ Gets(t)'
  BY <1>1, <1>2, StillInjected, Apart DEF Answers, Gets
<1>5. ASSUME NEW u \in Tasks \ {t} PROVE Gets(u)'
  <2>1. Gets(u)
    BY DEF Answers
  <2>2. \A i \in DOMAIN got[u] : Means(waiting[u][i], got[u][i])'
    BY <1>1, <2>1, StillMeans DEF Answers, Gets
  <2> QED
    BY <1>1, <1>3, <2>1, <2>2 DEF Gets
<1> QED
  BY <1>1, <1>4, <1>5 DEF Answers, Still

\* callback() brings the answer that is meant to the task that waits for it.
LEMMA CallbackAnswers ==
    ASSUME Inv, Answers, NEW c \in pending, Callback(c)
    PROVE  Answers'
<1> DEFINE t == c[1]
           have == [i \in DOMAIN got[t] \cup {c[2]} |->
                       IF i = c[2] THEN init_answer(c[3]) ELSE got[t][i]]
<1>1. /\ pending' = pending \ {c} /\ got' = [got EXCEPT ![t] = have] /\ waiting' = waiting
      /\ running' = (IF DOMAIN have = DOMAIN waiting[t] THEN t ELSE "none") /\ running = "none" /\ Still
      /\ ~Fails(c[3]) /\ ~Malformed(c[3])
  BY DEF Callback, Have, Idle, Still
<1>2. t \in Tasks /\ c[2] \in DOMAIN waiting[t] /\ waiting[t][c[2]] = c[3] /\ Gets(t)
  BY DEF Inv, Queries, NoStrayCallback, Live, Answers
<1>3. got'[t] = have /\ DOMAIN have = DOMAIN got[t] \cup {c[2]}
  BY <1>1, <1>2 DEF Inv, Queries
<1>4. \A u \in Tasks \ {t} : got'[u] = got[u]
  BY <1>1 DEF Inv, Queries
<1>5. Injections'
  BY <1>1, StillInjected DEF Answers
<1>6. Gets(t)'
  <2>1. Means(c[3], init_answer(c[3]))
    BY <1>1, InitAnswerMeans DEF Answers
  <2>2. \A i \in DOMAIN have : Means(waiting[t][i], have[i])
    BY <1>2, <2>1 DEF Gets
  <2>3. DOMAIN have \subseteq DOMAIN waiting[t]
    BY <1>2 DEF Gets
  <2> HIDE DEF have, t
  <2>4. \A i \in DOMAIN have : Means(waiting[t][i], got[t][i])'
    BY <1>1, <1>3, <2>2, StillMeans DEF Answers
  <2> QED
    BY <1>1, <1>2, <1>3, <2>3, <2>4, Apart DEF Gets
<1>7. ASSUME NEW u \in Tasks \ {t} PROVE Gets(u)'
  <2>1. Gets(u) /\ running # u /\ running' # u
    BY <1>1, Apart DEF Answers
  <2>2. \A i \in DOMAIN got[u] : Means(waiting[u][i], got[u][i])'
    BY <1>1, <2>1, StillMeans DEF Answers, Gets
  <2> QED
    BY <1>1, <1>4, <2>1, <2>2 DEF Gets
<1> QED
  BY <1>1, <1>2, <1>5, <1>6, <1>7 DEF Answers, Still

\* What is injected is the part of an answer that its place is for, or follows what is there.
LEMMA PartIsAnswer ==
    ASSUME Injections, NEW new, IsAnswer(new.answer), new.type = "srv" => Ranked(new.answer.rrs),
           NEW s \in Divided(new.answer, new.type)
    PROVE  LET part == Part(new.answer, new.type, s)
           IN  /\ part = [error |-> part.error, dnssec |-> part.dnssec, rrs |-> part.rrs]
               /\ IsAnswer(part)
               /\ s[1] = "srv" => ~part.error /\ Ranked(part.rrs)
<1> DEFINE a == new.answer
           type == new.type
           places == IF type = "srv" THEN {i \in DOMAIN a.rrs : a.rrs[i].service = s[2]}
                                     ELSE {i \in DOMAIN a.rrs : a.rrs[i].family = s[1]}
           kept == IF type \in {"srv", "address"} THEN Pick(a.rrs, places) ELSE a.rrs
           part == Part(a, type, s)
<1>1. part = (IF type = "srv" /\ s \in DOMAIN injected
              THEN [injected[s] EXCEPT !.rrs = @ \o kept]
              ELSE [error |-> a.error \/ (type = "address" /\ kept = <<>>), dnssec |-> a.dnssec,
                    rrs |-> kept])
  <2>1. CASE type = "srv"
    BY <2>1 DEF Part
  <2>2. CASE type = "address"
    BY <2>2 DEF Part
  <2>3. CASE type \notin {"srv", "address"}
    BY <2>3 DEF Part
  <2> QED
    BY <2>1, <2>2, <2>3
<1>2. IsList(kept) /\ ToSet(kept) \subseteq ToSet(a.rrs)
  <2>1. places \in SUBSET DOMAIN a.rrs /\ IsList(a.rrs)
    BY DEF IsAnswer
  <2> HIDE DEF places
  <2> QED
    BY <2>1, Picks
<1>3. ASSUME NEW r, IsList(r), ToSet(r) \subseteq ToSet(a.rrs), type = "srv" PROVE Ranked(r)
  BY <1>3 DEF Ranked, ToSet
<1>4. s[1] = "srv" <=> type = "srv"
  <2>1. CASE type = "srv"
    BY <2>1 DEF Divided
  <2>2. CASE type = "address"
    <3>1. Divided(a, type) = {<<"a", "">>, <<"aaaa", "">>}
      BY <2>2 DEF Divided
    <3>2. s = <<"a", "">> \/ s = <<"aaaa", "">>
      BY <3>1
    <3>3. <<"a", "">>[1] # "srv" /\ <<"aaaa", "">>[1] # "srv"
      OBVIOUS
    <3>4. s[1] # "srv"
      BY <3>2, <3>3
    <3> QED
      BY <2>2, <3>4
  <2>3. CASE type \notin {"srv", "address"}
    <3>1. s = <<type, "">>
      BY <2>3 DEF Divided
    <3> QED
      BY <2>3, <3>1
  <2> QED
    BY <2>1, <2>2, <2>3
<1>5. type = "srv" => ~a.error
  BY DEF Divided, IsAnswer
<1>6. a.rrs = <<>> => kept = <<>>
  <2> HIDE DEF kept, a
  <2>1. a.rrs = <<>> => ToSet(kept) = {}
    BY <1>2 DEF ToSet
  <2> QED
    BY <1>2, <2>1 DEF IsList
<1> HIDE DEF kept, part
<1>7. CASE ~(type = "srv" /\ s \in DOMAIN injected)
  <2>1. part = [error |-> a.error \/ (type = "address" /\ kept = <<>>), dnssec |-> a.dnssec,
                rrs |-> kept]
    BY <1>1, <1>7
  <2>2. type = "srv" => Ranked(kept)
    BY <1>2, <1>3
  <2> HIDE DEF a, type
  <2>3. a.error \in BOOLEAN /\ a.dnssec \in BOOLEAN /\ (a.error => a.rrs = <<>>)
    BY DEF IsAnswer, a
  <2> QED
    BY <1>2, <1>4, <1>5, <1>6, <2>1, <2>2, <2>3 DEF IsAnswer, part, a, type
<1>8. CASE type = "srv" /\ s \in DOMAIN injected
  <2> DEFINE old == injected[s]
  <2>1. /\ old = [error |-> old.error, dnssec |-> old.dnssec, rrs |-> old.rrs]
        /\ IsAnswer(old) /\ ~old.error /\ Ranked(old.rrs)
    BY <1>4, <1>8 DEF Injections
  <2>2. part = [old EXCEPT !.rrs = @ \o kept]
    BY <1>1, <1>8
  <2> HIDE DEF old
  <2>3. part = [error |-> old.error, dnssec |-> old.dnssec, rrs |-> old.rrs \o kept]
    BY <2>1, <2>2
  <2>4. IsList(old.rrs \o kept) /\ ToSet(old.rrs \o kept) = ToSet(old.rrs) \cup ToSet(kept)
    BY <1>2, <2>1, Joined DEF IsAnswer
  <2>5. Ranked(old.rrs \o kept)
    <3>1. \A x \in ToSet(old.rrs) \cup ToSet(kept) : x.priority \in Int
      BY <1>2, <1>3, <1>8, <2>1 DEF Ranked, ToSet
    <3> QED
      BY <2>4, <3>1 DEF Ranked, ToSet
  <2>6. part.error = FALSE /\ part.dnssec \in BOOLEAN /\ part.rrs = old.rrs \o kept
        /\ part = [error |-> part.error, dnssec |-> part.dnssec, rrs |-> part.rrs]
    BY <2>1, <2>3 DEF IsAnswer
  <2>7. IsAnswer(part)
    BY <2>4, <2>6 DEF IsAnswer
  <2> QED
    BY <1>4, <1>8, <2>5, <2>6, <2>7 DEF part
<1> QED
  BY <1>7, <1>8

LEMMA InjectAnswers ==
    ASSUME Inv, Answers, Inject, UNCHANGED <<discovery, lookup>>
    PROVE  Answers'
<1> DEFINE new == Head(toInject)
           slots == Divided(new.answer, new.type)
           N == Len(zone.inject)
<1>1. /\ toInject # <<>> /\ toInject' = Tail(toInject) /\ zone' = zone /\ zone \in Zones
      /\ injected' = [s \in DOMAIN injected \cup slots |->
                         IF s \in slots THEN Part(new.answer, new.type, s) ELSE injected[s]]
      /\ UNCHANGED <<zone, waiting, got, pending, running, step, at>>
  BY DEF Inject, Answers, Injections, discovery, lookup
<1>2. /\ running = "none" /\ \A t \in Tasks : waiting[t] = <<>> /\ got[t] = <<>>
      /\ step = [t \in Discoverers |-> "idle"] /\ at = [t \in Lookups |-> "idle"]
  BY <1>1 DEF Answers, Injections
<1>3. pending = {}
  BY <1>2 DEF Inv, Queries, NoStrayCallback, Live
<1>4. /\ IsList(zone.inject) /\ N \in Nat /\ zone.inject \in Seq(ToSet(zone.inject))
      /\ \A i \in 1 .. N : /\ IsAnswer(zone.inject[i].answer)
                           /\ zone.inject[i].type = "srv" => Ranked(zone.inject[i].answer.rrs)
  <2>1. Findable(zone)
    BY <1>1, ZonesAssumption
  <2> QED
    BY <2>1 DEF Findable, IsList
<1>5. PICK n \in 0 .. N : toInject = SubSeq(zone.inject, n + 1, N)
  BY DEF Answers, Injections
<1>6. n + 1 \in 1 .. N /\ new = zone.inject[n + 1] /\ toInject' = SubSeq(zone.inject, n + 2, N)
  <2> HIDE DEF N, slots
  <2>1. n + 1 \in 1 .. N
    BY <1>1, <1>4, <1>5 DEF N
  <2>2. new = zone.inject[n + 1]
    BY <1>4, <1>5, <2>1 DEF N
  <2>3. Tail(SubSeq(zone.inject, n + 1, N)) = SubSeq(zone.inject, n + 2, N)
    BY <1>4, <2>1 DEF N
  <2> QED
    BY <1>1, <1>5, <2>1, <2>2, <2>3
<1>7. IsAnswer(new.answer) /\ (new.type = "srv" => Ranked(new.answer.rrs))
  BY <1>4, <1>6
<1>8. \A s \in DOMAIN injected' :
          /\ injected'[s] = [error |-> injected'[s].error, dnssec |-> injected'[s].dnssec,
                             rrs |-> injected'[s].rrs]
          /\ IsAnswer(injected'[s])
          /\ s[1] = "srv" => ~injected'[s].error /\ Ranked(injected'[s].rrs)
  <2> TAKE s \in DOMAIN injected'
  <2>1. CASE s \in slots
    <3>1. injected'[s] = Part(new.answer, new.type, s)
      BY <1>1, <2>1
    <3> HIDE DEF new
    <3> QED
      BY <1>7, <2>1, <3>1, PartIsAnswer DEF Answers
  <2>2. CASE s \notin slots
    BY <1>1, <2>2 DEF Answers, Injections
  <2> QED
    BY <2>1, <2>2
<1>9. Injections'
  <2>1. n + 1 \in 0 .. N /\ toInject' = SubSeq(zone'.inject, (n + 1) + 1, Len(zone'.inject))
    <3>1. n + 1 \in 0 .. N /\ (n + 1) + 1 = n + 2
      BY <1>4, <1>6
    <3> QED
      BY <1>1, <1>6, <3>1
  <2>2. \E m \in 0 .. Len(zone'.inject) : toInject' = SubSeq(zone'.inject, m + 1, Len(zone'.inject))
    BY <1>1, <2>1
  <2> QED
    BY <1>1, <1>2, <1>8, <2>2 DEF Injections, IsAnswer, IsList, Ranked
<1>10. \A t \in Tasks : Gets(t)'
  BY <1>1, <1>2, Apart DEF Gets
<1> QED
  BY <1>1, <1>2, <1>3, <1>9, <1>10 DEF Answers

LEMMA UnchangedAnswers ==
    ASSUME Answers, UNCHANGED <<zone, toInject, injected, waiting, got, pending, running>>,
           toInject = <<>> \/ UNCHANGED <<step, at>>
    PROVE  Answers'
<1>1. \A q : Answer(q)' = Answer(q)
  BY DEF Answer, Good
<1>2. Injections'
  BY DEF Answers, Injections, IsAnswer, IsList, Ranked
<1>3. ASSUME NEW t \in Tasks PROVE Gets(t)'
  <2>1. \A i \in DOMAIN got[t] : Means(waiting[t][i], got[t][i])'
    BY <1>1 DEF Answers, Gets, Means
  <2> QED
    BY <2>1 DEF Answers, Gets
<1> QED
  BY <1>2, <1>3 DEF Answers

\* The one that runs has nothing left to inject.
LEMMA RunsStill == Answers => (running # "none" => toInject = <<>>)
  BY DEF Answers, Injections

\* A discovery touches no answer that was injected, and no task's questions but its own.
OnlyAsks(t) ==
    UNCHANGED <<zone, toInject, injected, failed, halted>> /\ (UNCHANGED waiting \/ \E q : waiting' = [waiting EXCEPT ![t] = q])

LEMMA DiscoverAsks == ASSUME NEW t, Discover(t) PROVE OnlyAsks(t)
<1>1. ASSUME NEW q, Await(t, q) PROVE OnlyAsks(t)
  BY <1>1 DEF Await, OnlyAsks
<1>2. ASSUME NEW next, GoOn(t, next) PROVE OnlyAsks(t)
  BY <1>2 DEF GoOn, OnlyAsks
<1>3. UNCHANGED resolver => OnlyAsks(t)
  BY DEF resolver, OnlyAsks
<1>4. CASE SvcbAnswered(t)
  BY <1>1, <1>2, <1>4 DEF SvcbAnswered
<1>5. CASE SrvAnswered(t)
  BY <1>2, <1>5 DEF SrvAnswered
<1>6. CASE Record(t)
  BY <1>1, <1>3, <1>6 DEF Record
<1>7. CASE TlsaAnswered(t)
  BY <1>2, <1>7 DEF TlsaAnswered
<1>8. CASE Finish(t)
  BY <1>2, <1>8 DEF Finish
<1> QED
  BY <1>4, <1>5, <1>6, <1>7, <1>8 DEF Discover

LEMMA DiscoverAnswers ==
    ASSUME Inv, Answers, NEW t \in Discoverers, Discover(t), UNCHANGED lookup
    PROVE  Answers'
<1>1. t \in Tasks /\ running = t /\ toInject = <<>>
  <2>1. t \in Tasks /\ running = t
    BY Apart, DiscoverRuns
  <2> QED
    BY <2>1, Apart, RunsStill
<1>2. ASSUME NEW q, IsList(q), q # <<>>, Await(t, q) PROVE Answers'
  BY <1>1, <1>2, AwaitAnswers
<1>3. ASSUME NEW next \in {t, "none"}, GoOn(t, next) PROVE Answers'
  BY <1>1, <1>3, GoOnAnswers
<1>4. ASSUME NEW x PROVE IsList(<<x>>) /\ <<x>> # <<>>
  BY DEF IsList, ToSet
<1>5. ASSUME NEW x, NEW y PROVE IsList(<<x, y>>) /\ <<x, y>> # <<>>
  BY DEF IsList, ToSet
<1>6. CASE SvcbAnswered(t)
  BY <1>2, <1>3, <1>5, <1>6 DEF SvcbAnswered
<1>7. CASE SrvAnswered(t) \/ TlsaAnswered(t) \/ Finish(t)
  <2>1. CASE SrvAnswered(t)
    BY <1>3, <2>1 DEF SrvAnswered
  <2>2. CASE TlsaAnswered(t)
    BY <1>3, <2>2 DEF TlsaAnswered
  <2>3. CASE Finish(t)
    BY <1>3, <2>3 DEF Finish
  <2> QED
    BY <1>7, <2>1, <2>2, <2>3
<1>8. CASE Record(t)
  <2>1. CASE UNCHANGED <<resolver, step>>
    BY <1>1, <2>1, UnchangedAnswers DEF resolver
  <2> QED
    BY <1>2, <1>4, <1>8, <2>1 DEF Record
<1> QED
  BY <1>6, <1>7, <1>8 DEF Discover

LEMMA GenerateAnswers ==
    ASSUME Inv, Answers, NEW t \in Lookups, Generate(t), UNCHANGED discovery
    PROVE  Answers'
<1>1. t \in Tasks /\ running = t /\ toInject = <<>>
  <2>1. t \in Tasks /\ running = t
    BY Apart DEF Generate, Collapse, Choose, Exhausted, Addresses, Give, GiveNoMore, Is, Runs
  <2> QED
    BY <2>1, Apart, RunsStill
<1>2. ASSUME NEW q, Await(t, <<q>>) PROVE Answers'
  <2>1. IsList(<<q>>) /\ <<q>> # <<>>
    BY DEF IsList, ToSet
  <2> QED
    BY <1>1, <1>2, <2>1, AwaitAnswers
<1>3. ASSUME NEW next \in {t, "none"}, GoOn(t, next) PROVE Answers'
  BY <1>1, <1>3, GoOnAnswers
<1>4. CASE Collapse(t) \/ Exhausted(t)
  BY <1>3, <1>4 DEF Collapse, Exhausted
<1>5. CASE Choose(t)
  BY <1>2, <1>3, <1>5 DEF Choose
<1>6. CASE Addresses(t, "a6", "give6") \/ Addresses(t, "a4", "give4")
  BY <1>3, <1>6 DEF Addresses
<1>7. CASE Give(t) \/ GiveNoMore(t)
  BY <1>2, <1>3, <1>7 DEF Give, GiveNoMore
<1> QED
  BY <1>4, <1>5, <1>6, <1>7 DEF Generate

LEMMA ApplicationAnswers == Inv /\ Answers /\ Application => Answers'
<1> SUFFICES ASSUME Inv, Answers, Application PROVE Answers'
  OBVIOUS
<1>1. ASSUME NEW t \in Discoverers, Start(t) PROVE Answers'
  <2>1. IsList(<<svcb("xmpp-server", zone.domain)>>) /\ <<svcb("xmpp-server", zone.domain)>> # <<>>
    BY DEF IsList, ToSet
  <2> QED
    BY <1>1, <2>1, Apart, AwaitAnswers DEF Start, Idle
<1>2. ASSUME NEW t \in Lookups, Begin(t) PROVE Answers'
  <2> DEFINE q == <<srv("xmpp-server", zone.domain), srv("xmpps-server", zone.domain)>>
  <2>1. IsList(q) /\ q # <<>>
    BY DEF IsList, ToSet
  <2> QED
    BY <1>2, <2>1, Apart, AwaitAnswers DEF Begin, Idle
<1>3. ASSUME NEW t \in Lookups, Advance(t) PROVE Answers'
  BY <1>3, Apart, GoOnAnswers DEF Advance, Idle
<1>4. ASSUME NEW t \in Lookups, Drop(t) PROVE Answers'
  BY <1>4, Apart, ReleaseAnswers DEF Drop
<1> QED
  BY <1>1, <1>2, <1>3, <1>4 DEF Application

LEMMA LoopAnswers == Inv /\ Answers /\ Loop => Answers'
<1> SUFFICES ASSUME Inv, Answers, NEW c \in pending, UNCHANGED <<discovery, lookup>>,
                    Callback(c) \/ ErrorCallback(c) \/ HaltingCallback(c)
             PROVE  Answers'
  BY DEF Loop, event_callback
<1>1. CASE Callback(c)
  BY <1>1, CallbackAnswers
<1>2. CASE ErrorCallback(c)
  <2>1. c[1] \in Tasks
    BY DEF Inv, Queries
  <2> QED
    BY <1>2, <2>1, ReleaseAnswers DEF ErrorCallback
<1>3. CASE HaltingCallback(c)
  BY <1>3, UnchangedAnswers DEF HaltingCallback, Idle
<1> QED
  BY <1>1, <1>2, <1>3

LEMMA AnswersStep == Inv /\ Answers /\ [Next]_vars => Answers'
<1> SUFFICES ASSUME Inv, Answers, [Next]_vars PROVE Answers'
  OBVIOUS
<1>1. CASE UNCHANGED vars
  BY <1>1, UnchangedAnswers DEF vars, resolver, discovery, lookup
<1>2. CASE Inject /\ UNCHANGED <<discovery, lookup>>
  BY <1>2, InjectAnswers
<1> QED
  BY <1>1, <1>2, DiscoverAnswers, GenerateAnswers, ApplicationAnswers, LoopAnswers DEF Next, Run

-----------------------------------------------------------------------------
(* Types.                                                                  *)

LEMMA SuffixOf ==
    ASSUME NEW s, IsList(s), NEW n \in 0 .. Len(s)
    PROVE  IsSuffix(SubSeq(s, n + 1, Len(s)), s)
<1> DEFINE N == Len(s)
           t == SubSeq(s, n + 1, N)
           M == N - n
<1>1. N \in Nat /\ n \in 0 .. N /\ M \in Nat /\ DOMAIN s = 1 .. N /\ s \in Seq(ToSet(s))
  BY DEF IsList
<1>2. t \in Seq(ToSet(s)) /\ Len(t) = M /\ \A i \in 1 .. M : t[i] = s[n + i]
  <2>1. \A i \in n + 1 .. N : s[i] \in ToSet(s)
    BY <1>1
  <2>2. /\ t \in Seq(ToSet(s)) /\ Len(t) = (IF n + 1 <= N THEN N - (n + 1) + 1 ELSE 0)
        /\ \A i \in 1 .. N - (n + 1) + 1 : t[i] = s[n + 1 + i - 1]
    <3> HIDE DEF t, N
    <3>1. n + 1 \in Int /\ N \in Int
      BY <1>1
    <3> QED
      BY <2>1, <3>1, SubSeqProperties DEF t
  <2>3. Len(t) = M
    <3> HIDE DEF t, N
    <3> QED
      BY <1>1, <2>2
  <2>4. ASSUME NEW i \in 1 .. M PROVE t[i] = s[n + i]
    <3> HIDE DEF t, N
    <3>1. i \in 1 .. N - (n + 1) + 1 /\ n + 1 + i - 1 = n + i
      BY <1>1
    <3> QED
      BY <2>2, <3>1
  <2> HIDE DEF t, N, M
  <2> QED
    BY <2>2, <2>3, <2>4
<1> HIDE DEF t, N
<1>3. /\ Reverse(t) = [i \in 1 .. M |-> t[M - i + 1]] /\ Reverse(s) = [i \in 1 .. N |-> s[N - i + 1]]
  BY <1>2 DEF Reverse, N
<1>4. \A i \in 1 .. M : Reverse(t)[i] = Reverse(s)[i]
  <2> TAKE i \in 1 .. M
  <2>1. M - i + 1 \in 1 .. M /\ n + (M - i + 1) = N - i + 1 /\ i \in 1 .. N
    BY <1>1
  <2> HIDE DEF M
  <2> QED
    BY <1>2, <1>3, <2>1
<1>5. /\ Reverse(t) \in Seq(ToSet(s)) /\ Reverse(s) \in Seq(ToSet(s))
      /\ Len(Reverse(t)) = M /\ Len(Reverse(s)) = N
  <2>1. \A i \in 1 .. M : t[M - i + 1] \in ToSet(s)
    BY <1>1, <1>2
  <2>2. \A i \in 1 .. N : s[N - i + 1] \in ToSet(s)
    BY <1>1
  <2> HIDE DEF M
  <2>3. Reverse(t) \in Seq(ToSet(s)) /\ Len(Reverse(t)) = M
    BY <1>1, <1>3, <2>1
  <2>4. Reverse(s) \in Seq(ToSet(s)) /\ Len(Reverse(s)) = N
    BY <1>1, <1>3, <2>2
  <2> QED
    BY <2>3, <2>4
<1>6. SubSeq(Reverse(t), 1, M) = SubSeq(Reverse(s), 1, M)
  <2>1. M \in 0 .. N
    BY <1>1
  <2> HIDE DEF M
  <2> DEFINE u == SubSeq(Reverse(t), 1, M)
             v == SubSeq(Reverse(s), 1, M)
  <2>2. u \in Seq(ToSet(s)) /\ Len(u) = M /\ \A i \in 1 .. M : u[i] = Reverse(t)[i]
    BY <1>1, <1>5, <2>1
  <2>3. v \in Seq(ToSet(s)) /\ Len(v) = M /\ \A i \in 1 .. M : v[i] = Reverse(s)[i]
    BY <1>1, <1>5, <2>1
  <2> HIDE DEF u, v
  <2>4. u = v
    BY <1>4, <2>2, <2>3
  <2> QED
    BY <2>4 DEF u, v
<1> QED
  BY <1>1, <1>5, <1>6 DEF IsSuffix, IsPrefix, t, N

Types ==
    /\ failed \subseteq Discoverers /\ halted \in BOOLEAN
    /\ step \in [Discoverers -> Steps] /\ dnssec \in [Discoverers -> BOOLEAN]
    /\ at \in [Lookups -> Places] /\ falls \in [Lookups -> BOOLEAN]

LEMMA TypesInit == ServiceInit => Types
  BY DEF ServiceInit, Init, DiscoveryInit, LookupInit, Types, Steps, Places

LEMMA TypesStep == Inv /\ Types /\ [Next]_vars => Types'
<1> SUFFICES ASSUME Inv, Types, Next PROVE Types'
  BY DEF vars, resolver, discovery, lookup, Types
<1>1. CASE Inject /\ UNCHANGED <<discovery, lookup>>
  BY <1>1 DEF Inject, discovery, lookup, Types
<1>2. CASE Application
  <2>1. ASSUME NEW t \in Discoverers, Start(t), UNCHANGED lookup PROVE Types'
    BY <2>1 DEF Start, Await, To, lookup, Types, Steps
  <2>2. ASSUME NEW t \in Lookups, Begin(t) \/ Advance(t) \/ Drop(t), UNCHANGED discovery PROVE Types'
    BY <2>2 DEF Begin, Advance, Drop, Await, GoOn, Going, discovery, lookup, Types, Places
  <2> QED
    BY <1>2, <2>1, <2>2 DEF Application
<1>3. CASE Loop
  <2>1. PICK c \in pending : Callback(c) \/ ErrorCallback(c) \/ HaltingCallback(c)
    BY <1>3 DEF Loop, event_callback
  <2>2. c[1] \notin Generators => c[1] \in Discoverers
    BY Apart, LookupAssumption DEF Inv, Queries
  <2> QED
    BY <1>3, <2>1, <2>2 DEF Loop, Callback, ErrorCallback, HaltingCallback, discovery, lookup, Types
<1>4. ASSUME NEW t \in Discoverers, Discover(t), UNCHANGED lookup PROVE Types'
  <2>1. UNCHANGED <<failed, halted>>
    BY <1>4, DiscoverAsks DEF OnlyAsks
  <2>2. step' \in [Discoverers -> Steps]
    <3>1. UNCHANGED step \/ \E next \in Steps : To(t, next)
      <4>1. CASE SvcbAnswered(t)
        BY <4>1 DEF SvcbAnswered, Steps
      <4>2. CASE SrvAnswered(t)
        BY <4>2 DEF SrvAnswered, Steps
      <4>3. CASE Record(t)
        BY <4>3 DEF Record, Steps
      <4>4. CASE TlsaAnswered(t)
        BY <4>4 DEF TlsaAnswered, Steps
      <4>5. CASE Finish(t)
        BY <4>5 DEF Finish, Steps
      <4> QED
        BY <1>4, <4>1, <4>2, <4>3, <4>4, <4>5 DEF Discover
    <3> QED
      BY <3>1 DEF To, Types
  <2>3. dnssec' \in [Discoverers -> BOOLEAN]
    <3>1. \/ UNCHANGED dnssec
          \/ dnssec' = [dnssec EXCEPT ![t] = StillSigned(t, got[t][1])]
      <4>1. CASE SvcbAnswered(t)
        BY <4>1 DEF SvcbAnswered
      <4>2. CASE SrvAnswered(t)
        BY <4>2 DEF SrvAnswered
      <4>3. CASE Record(t) \/ TlsaAnswered(t) \/ Finish(t)
        BY <4>3 DEF Record, TlsaAnswered, Finish
      <4> QED
        BY <1>4, <4>1, <4>2, <4>3 DEF Discover
    <3>2. ASSUME NEW answer PROVE StillSigned(t, answer) \in BOOLEAN
      BY DEF StillSigned
    <3> QED
      BY <3>1, <3>2 DEF Types
  <2> QED
    BY <1>4, <2>1, <2>2, <2>3 DEF lookup, Types
<1>5. ASSUME NEW t \in Lookups, Generate(t), UNCHANGED discovery PROVE Types'
  <2>1. UNCHANGED <<failed, halted>>
    BY <1>5 DEF Generate, Collapse, Choose, Exhausted, Addresses, Give, GiveNoMore, Await, GoOn
  <2>2. at' \in [Lookups -> Places]
    BY <1>5 DEF Generate, Collapse, Choose, Exhausted, Addresses, Give, GiveNoMore, Going, Types, Places
  <2>3. falls' \in [Lookups -> BOOLEAN]
    BY <1>5 DEF Generate, Collapse, Choose, Exhausted, Addresses, Give, GiveNoMore, Types
  <2> QED
    BY <1>5, <2>1, <2>2, <2>3 DEF discovery, Types
<1> QED
  BY <1>1, <1>2, <1>3, <1>4, <1>5 DEF Next, Run

\* What a task has got belongs to what it waits for, it runs as soon as it has everything, and a
\* coroutine is where discovery() or srv_lookup() and xmpp_lookup() can be.
THEOREM TypeOKHolds == Spec => []TypeOK
<1> DEFINE IInv == Inv /\ Answers /\ Types
<1>1. IInv => TypeOK
  <2> SUFFICES ASSUME IInv PROVE TypeOK
    OBVIOUS
  <2>1. zone \in Zones /\ IsSuffix(toInject, zone.inject)
    <3>1. IsList(zone.inject)
      BY ZonesAssumption DEF Answers, Injections, Findable
    <3> QED
      BY <3>1, SuffixOf DEF Answers, Injections
  <2>2. DOMAIN waiting = Tasks /\ DOMAIN got = Tasks /\ \A c \in pending : c[1] \in Tasks
    BY DEF Inv, Queries
  <2> QED
    BY <2>1, <2>2 DEF Answers, Gets, Types, TypeOK
<1>2. ServiceInit => IInv
  BY InvInit, AnswersInit, TypesInit
<1>3. IInv /\ [Next]_vars => IInv'
  BY InvStep, AnswersStep, TypesStep
<1> QED
  BY <1>1, <1>2, <1>3, PTL DEF Spec

-----------------------------------------------------------------------------
(* Lookups: what is picked, ranked and offered.                            *)

\* Among equals it does not matter which.
LEMMA StillOrdered ==
    ASSUME NEW S, \A rr \in S : rr.priority \in Int,
           NEW c \in Seq(S), NEW l \in Seq(S), NEW i \in 1 .. Len(l), l[i].priority = l[1].priority,
           \A j, k \in DOMAIN (c \o l) : j < k => (c \o l)[j].priority <= (c \o l)[k].priority
    PROVE  \A j, k \in DOMAIN Taken(c, l, i) :
              j < k => Taken(c, l, i)[j].priority <= Taken(c, l, i)[k].priority
<1> DEFINE C == Len(c)
           N == Len(l)
           new == Taken(c, l, i)
           all == c \o l
<1>1. /\ C \in Nat /\ N \in Nat /\ i \in 1 .. N /\ \A k \in 1 .. N : l[k] \in S
  BY LenProperties, ElementOfSeq
<1>2. /\ all \in Seq(S) /\ Len(all) = C + N
      /\ \A k \in 1 .. C + N : all[k] = IF k <= C THEN c[k] ELSE l[k - C]
  BY ConcatProperties
<1>3. /\ Append(c, l[i]) \in Seq(S) /\ RemoveAt(l, i) \in Seq(S)
      /\ Len(new) = Len(all)
      /\ \A k \in 1 .. Len(all) :
            new[k] = IF k <= C \/ k > C + i THEN all[k]
                     ELSE IF k = C + 1 THEN l[i] ELSE l[k - C - 1]
  BY Extracted
<1>4. new \in Seq(S)
  BY <1>3, ConcatProperties DEF Taken
<1>5. DOMAIN new = 1 .. C + N /\ DOMAIN all = 1 .. C + N
  BY <1>2, <1>3, <1>4
<1>6. \A j, k \in 1 .. C + N : j < k => all[j].priority <= all[k].priority
  BY <1>5
<1> HIDE DEF C, N, new, all
<1>7. \A k \in 1 .. N : all[C + k] = l[k] /\ C + k \in 1 .. C + N
  <2> TAKE k \in 1 .. N
  <2>1. C + k \in 1 .. C + N /\ ~(C + k <= C) /\ C + k - C = k
    BY <1>1
  <2> QED
    BY <1>1, <1>2, <2>1
<1>8. \A k \in 1 .. i : l[k].priority = l[1].priority
  <2> TAKE k \in 1 .. i
  <2>1. k \in 1 .. N /\ 1 \in 1 .. N
    BY <1>1
  <2>2. l[1].priority \in Int /\ l[k].priority \in Int /\ l[i].priority \in Int
    BY <1>1, <2>1
  <2>3. 1 < k => l[1].priority <= l[k].priority
    <3>1. 1 < k => C + 1 < C + k
      BY <1>1
    <3> QED
      BY <1>6, <1>7, <2>1, <3>1
  <2>4. k < i => l[k].priority <= l[i].priority
    <3>1. k < i => C + k < C + i
      BY <1>1
    <3> QED
      BY <1>1, <1>6, <1>7, <2>1, <3>1
  <2> QED
    BY <2>2, <2>3, <2>4
<1>9. \A k \in 1 .. C + N : new[k].priority = all[k].priority
  <2> TAKE k \in 1 .. C + N
  <2>1. CASE k <= C \/ k > C + i
    BY <1>2, <1>3, <2>1
  <2>2. CASE k = C + 1
    <3>1. new[k] = l[i] /\ all[k] = l[1]
      <4>1. 1 \in 1 .. N /\ ~(k <= C \/ k > C + i)
        BY <1>1, <2>2
      <4> QED
        BY <1>2, <1>3, <1>7, <2>2, <4>1
    <3> QED
      BY <3>1
  <2>3. CASE k > C + 1 /\ k <= C + i
    <3>1. k - C - 1 \in 1 .. i /\ k - C \in 1 .. i /\ ~(k <= C) /\ k # C + 1 /\ ~(k > C + i)
      BY <1>1, <2>3
    <3>2. new[k] = l[k - C - 1] /\ all[k] = l[k - C]
      BY <1>2, <1>3, <3>1
    <3> QED
      BY <1>8, <3>1, <3>2
  <2> QED
    BY <1>1, <2>1, <2>2, <2>3
<1> QED
  BY <1>5, <1>6, <1>9 DEF new

\* What std::sort makes of the records.
LEMMA SortedIs ==
    ASSUME NEW r, IsList(r), NEW s \in Sorted(r)
    PROVE  /\ s \in Seq(ToSet(r)) /\ ToBag(s) = ToBag(r)
           /\ \A i, j \in DOMAIN s : i < j => s[i].priority <= s[j].priority
<1> DEFINE n == Len(r)
<1>1. n \in Nat /\ DOMAIN r = 1 .. n /\ \A i \in 1 .. n : r[i] \in ToSet(r)
  BY DEF IsList
<1>2. PICK p \in SetToSeqs(DOMAIN r) : s = [i \in DOMAIN r |-> r[p[i]]]
  BY DEF Sorted
<1>3. \A i, j \in DOMAIN r : i < j => s[i].priority <= s[j].priority
  BY DEF Sorted
<1> HIDE DEF n
<1>4. Cardinality(1 .. n) = n
  BY <1>1, FS_Interval
<1>5. p \in [1 .. n -> 1 .. n] /\ \A i, j \in 1 .. n : i # j => p[i] # p[j]
  BY <1>1, <1>2, <1>4 DEF SetToSeqs
<1>6. s = [i \in 1 .. n |-> r[p[i]]] /\ \A i \in 1 .. n : r[p[i]] \in ToSet(r)
  BY <1>1, <1>2, <1>5
<1>7. s \in Seq(ToSet(r))
  BY <1>1, <1>6
<1>8. Permutes(p, n, r, s)
  BY <1>1, <1>5, <1>6 DEF Permutes
<1> QED
  BY <1>1, <1>3, <1>6, <1>7, <1>8, SameBag

-----------------------------------------------------------------------------
(* Lookups.                                                                *)

\* What xmpp_lookup() may yield of a record, and of those that were chosen.
Infos(rr) ==
    {Info(rr, a) : a \in ToSet(Answer(address_v6(rr.host)).rrs) \cup ToSet(Answer(address_v4(rr.host)).rrs)}
Recorded(t) == UNION {Infos(rr) : rr \in ToSet(chosen[t])}

\* The questions of a lookup, by where it is.
Questions(t) ==
    CASE at[t] = "srv" -> <<srv("xmpp-server", zone.domain), srv("xmpps-server", zone.domain)>>
      [] at[t] = "a6" -> <<address_v6(Present(t).host)>>
      [] at[t] = "a4" -> <<address_v4(Present(t).host)>>
      [] OTHER -> <<>>

Ordered(s) == \A i, j \in DOMAIN s : i < j => s[i].priority <= s[j].priority

\* The records that are chosen and those that are left are the ones that are offered, in order; what is
\* yielded, or about to be, comes from them.
LooksUp(t) ==
    /\ waiting[t] = Questions(t)
    /\ chosen[t] \in Seq(ToSet(Offered)) /\ list[t] \in Seq(ToSet(Offered))
    /\ Ordered(chosen[t] \o list[t])
    /\ at[t] \notin {"idle", "srv", "dropped"} => ToBag(chosen[t] \o list[t]) = ToBag(Offered)
    /\ at[t] \in {"idle", "srv"} => chosen[t] = <<>> /\ list[t] = <<>> /\ yielded[t] = <<>>
    /\ at[t] \in {"a6", "give6", "a4", "give4"} => chosen[t] # <<>>
    /\ at[t] \in {"give6", "give4"} => out[t] \in Seq(Infos(Present(t)))
    /\ ~zone.dnssec_only => yielded[t] \in Seq(Recorded(t))

LookupsInv ==
    /\ list = [t \in Lookups |-> list[t]] /\ chosen = [t \in Lookups |-> chosen[t]]
    /\ out = [t \in Lookups |-> out[t]] /\ yielded = [t \in Lookups |-> yielded[t]]
    /\ \A t \in Lookups : LooksUp(t)

LEMMA OfferedIs ==
    ASSUME Injections
    PROVE  IsList(Offered) /\ \A rr \in ToSet(Offered) : rr.priority \in Int
<1> DEFINE q1 == srv("xmpp-server", zone.domain)
           q2 == srv("xmpps-server", zone.domain)
<1>1. ASSUME NEW q, q[1] = "srv"
      PROVE  IsList(Counted(Answer(q))) /\ \A rr \in ToSet(Counted(Answer(q))) : rr.priority \in Int
  <2>1. IsList(Answer(q).rrs) /\ \A rr \in ToSet(Answer(q).rrs) : rr.priority \in Int
    BY <1>1, AnswersAre DEF IsAnswer, Ranked, ToSet
  <2>2. IsList(<<>>) /\ ToSet(<<>>) = {}
    BY DEF IsList, ToSet
  <2> QED
    BY <2>1, <2>2 DEF Counted
<1>2. q1[1] = "srv" /\ q2[1] = "srv"
  BY DEF srv
<1> HIDE DEF q1, q2
<1>3. Offered = Counted(Answer(q1)) \o Counted(Answer(q2))
  BY DEF Offered, q1, q2
<1> QED
  BY <1>1, <1>2, <1>3, Joined

LEMMA StillOffered ==
    ASSUME Injections, Still
    PROVE  Offered' = Offered /\ \A rr : Infos(rr)' = Infos(rr)
<1>1. \A q : Answer(q)' = Answer(q)
  BY StillInjected
<1> QED
  BY <1>1 DEF Still, Offered, Counted, Infos

LEMMA LookupsInit == ServiceInit => LookupsInv
<1> SUFFICES ASSUME ServiceInit PROVE LookupsInv
  OBVIOUS
<1>1. \A t \in Lookups : /\ at[t] = "idle" /\ waiting[t] = <<>> /\ chosen[t] = <<>> /\ list[t] = <<>>
                         /\ yielded[t] = <<>>
  BY Apart DEF ServiceInit, Init, LookupInit
<1>2. \A t \in Lookups : LooksUp(t)
  <2> TAKE t \in Lookups
  <2>1. Questions(t) = <<>>
    BY <1>1 DEF Questions
  <2>2. Ordered(<<>> \o <<>>)
    BY DEF Ordered
  <2>3. chosen[t] \o list[t] = <<>> \o <<>>
    BY <1>1
  <2>4. <<>> \in Seq(ToSet(Offered)) /\ <<>> \in Seq(Recorded(t))
    OBVIOUS
  <2> QED
    BY <1>1, <2>1, <2>2, <2>3, <2>4 DEF LooksUp
<1> QED
  BY <1>2 DEF LookupsInv, ServiceInit, LookupInit

\* A lookup is not concerned with what another coroutine does.
LEMMA LooksOn ==
    ASSUME Injections, Still, NEW t, LooksUp(t), waiting'[t] = waiting[t], at'[t] = at[t],
           list'[t] = list[t], chosen'[t] = chosen[t], out'[t] = out[t], yielded'[t] = yielded[t]
    PROVE  LooksUp(t)'
<1>1. Questions(t)' = Questions(t) /\ Present(t)' = Present(t)
  BY DEF Questions, Present, Still
<1>2. Recorded(t)' = Recorded(t)
  BY StillOffered DEF Recorded
<1>3. Offered' = Offered /\ Infos(Present(t))' = Infos(Present(t))
  BY <1>1, StillOffered
<1> QED
  BY <1>1, <1>2, <1>3 DEF LooksUp, Ordered, Still

\* What a step of a lookup sets and where it leads.
Turn(t, next) ==
    /\ at'[t] = next /\ Still /\ waiting'[t] = Questions(t)'
    /\ \A u \in Lookups \ {t} :
          /\ waiting'[u] = waiting[u] /\ at'[u] = at[u] /\ list'[u] = list[u] /\ chosen'[u] = chosen[u]
          /\ out'[u] = out[u] /\ yielded'[u] = yielded[u]
    /\ list' = [u \in Lookups |-> list'[u]] /\ chosen' = [u \in Lookups |-> chosen'[u]]
    /\ out' = [u \in Lookups |-> out'[u]] /\ yielded' = [u \in Lookups |-> yielded'[u]]

LEMMA TurnLooks ==
    ASSUME Injections, LookupsInv, NEW t \in Lookups, NEW next, Turn(t, next), LooksUp(t)'
    PROVE  LookupsInv'
<1>1. ASSUME NEW u \in Lookups \ {t} PROVE LooksUp(u)'
  BY <1>1, LooksOn DEF LookupsInv, Turn
<1> QED
  BY <1>1 DEF LookupsInv, Turn

LEMMA CollapseLooks ==
    ASSUME Inv, Answers, Types, LookupsInv, NEW t \in Lookups, Collapse(t), t \in Tasks
    PROVE  LookupsInv'
<1> DEFINE q1 == srv("xmpp-server", zone.domain)
           q2 == srv("xmpps-server", zone.domain)
<1>1. /\ at[t] = "srv" /\ running = t /\ LooksUp(t) /\ Gets(t) /\ toInject = <<>>
  BY Apart, RunsStill DEF Collapse, Is, Runs, LookupsInv, Answers
<1>2. waiting[t] = <<q1, q2>> /\ chosen[t] = <<>> /\ yielded[t] = <<>>
  BY <1>1 DEF LooksUp, Questions
<1>3. Counted(got[t][1]) = Counted(Answer(q1)) /\ Counted(got[t][2]) = Counted(Answer(q2))
  <2>1. q1[1] = "srv" /\ q2[1] = "srv"
    BY DEF srv
  <2> HIDE DEF q1, q2
  <2>2. 1 \in DOMAIN got[t] /\ 2 \in DOMAIN got[t] /\ waiting[t][1] = q1 /\ waiting[t][2] = q2
    BY <1>1, <1>2 DEF Gets
  <2>3. Means(q1, got[t][1]) /\ Means(q2, got[t][2])
    BY <1>1, <2>2 DEF Gets
  <2> QED
    BY <2>1, <2>3 DEF Means, Counted
<1>4. PICK s \in Sorted(Offered) : list' = [list EXCEPT ![t] = s]
  BY <1>3 DEF Collapse, Offered
<1>5. /\ at' = [at EXCEPT ![t] = "choose"] /\ waiting' = [waiting EXCEPT ![t] = <<>>] /\ Still
      /\ UNCHANGED <<chosen, out, yielded>>
  BY <1>1 DEF Collapse, Going, GoOn, Still
<1>6. at'[t] = "choose" /\ waiting'[t] = <<>> /\ list'[t] = s
  BY <1>4, <1>5 DEF Inv, Queries, LookupsInv
<1>7. Questions(t)' = <<>>
  BY <1>6 DEF Questions
<1>8. Turn(t, "choose")
  BY <1>1, <1>4, <1>5, <1>6, <1>7, Apart DEF Turn, Inv, Queries, LookupsInv
<1>9. LooksUp(t)'
  <2>1. /\ s \in Seq(ToSet(Offered)) /\ ToBag(s) = ToBag(Offered) /\ Ordered(s)
    BY OfferedIs, SortedIs DEF Answers, Ordered
  <2>2. <<>> \o s = s
    BY <2>1
  <2>3. Offered' = Offered
    BY <1>5, StillOffered DEF Answers
  <2>4. chosen'[t] \o list'[t] = s /\ <<>> \in Seq(ToSet(Offered)) /\ <<>> \in Seq(Recorded(t)')
    <3>1. chosen'[t] = <<>> /\ list'[t] = s
      BY <1>2, <1>5, <1>6
    <3>2. <<>> \in Seq(ToSet(Offered)) /\ <<>> \in Seq(Recorded(t)')
      OBVIOUS
    <3> QED
      BY <2>2, <3>1, <3>2
  <2>6. Ordered(chosen[t] \o list[t])'
    BY <2>1, <2>4 DEF Ordered
  <2> HIDE DEF q1, q2
  <2> QED
    BY <1>2, <1>5, <1>6, <1>7, <2>1, <2>3, <2>4, <2>6 DEF LooksUp
<1> QED
  BY <1>8, <1>9, TurnLooks DEF Answers

\* What the chosen record adds.
LEMMA ChooseLooks ==
    ASSUME Inv, Answers, Types, LookupsInv, NEW t \in Lookups, Choose(t), t \in Tasks
    PROVE  LookupsInv'
<1>1. /\ at[t] = "choose" /\ running = t /\ LooksUp(t) /\ toInject = <<>> /\ list[t] # <<>>
  BY Apart, RunsStill DEF Choose, Is, Runs, LookupsInv, Answers
<1> DEFINE S == ToSet(Offered)
           l == list[t]
           c == chosen[t]
<1>2. l \in Seq(S) /\ c \in Seq(S) /\ Len(l) \in Nat /\ DOMAIN l = 1 .. Len(l) /\ 1 \in DOMAIN l
  <2>1. l \in Seq(S) /\ c \in Seq(S) /\ l # <<>>
    BY <1>1 DEF LooksUp
  <2> HIDE DEF l, c, S
  <2> QED
    BY <2>1, LenProperties, EmptySeq
<1>3. PICK i \in DOMAIN l :
          /\ l[i].priority = l[1].priority
          /\ chosen' = [chosen EXCEPT ![t] = Append(c, l[i])]
          /\ list' = [list EXCEPT ![t] = RemoveAt(l, i)]
          /\ IF zone.dnssec_only
             THEN /\ yielded' = [yielded EXCEPT ![t] = Append(yielded[t], l[i])]
                  /\ GoOn(t, "none") /\ UNCHANGED at
             ELSE /\ Await(t, <<address_v6(l[i].host)>>)
                  /\ Going(t, "a6") /\ UNCHANGED yielded
  <2>1. PICK i \in (IF falls[t] THEN {1} ELSE Selectable(list[t])) :
          /\ chosen' = [chosen EXCEPT ![t] = Append(c, l[i])]
          /\ list' = [list EXCEPT ![t] = RemoveAt(l, i)]
          /\ IF zone.dnssec_only
             THEN /\ yielded' = [yielded EXCEPT ![t] = Append(yielded[t], l[i])]
                  /\ GoOn(t, "none") /\ UNCHANGED at
             ELSE /\ Await(t, <<address_v6(l[i].host)>>)
                  /\ Going(t, "a6") /\ UNCHANGED yielded
    BY DEF Choose
  <2>2. i \in DOMAIN l /\ l[i].priority = l[1].priority
    BY <1>2, <2>1 DEF Selectable, Group
  <2> QED
    BY <2>1, <2>2
<1>4. UNCHANGED out /\ Still /\ (at' = at \/ at' = [at EXCEPT ![t] = "a6"])
  BY <1>1, <1>3 DEF Choose, GoOn, Await, Going, Still
<1>5. chosen'[t] = Append(c, l[i]) /\ list'[t] = RemoveAt(l, i)
  BY <1>3 DEF LookupsInv
<1>6. /\ i \in 1 .. Len(l) /\ Append(c, l[i]) \in Seq(S) /\ RemoveAt(l, i) \in Seq(S)
      /\ ToBag(Taken(c, l, i)) = ToBag(c \o l)
  <2> HIDE DEF l, c, S
  <2> QED
    BY <1>2, Extracted
<1>7. Ordered(Taken(c, l, i))
  <2>1. Ordered(c \o l) /\ \A rr \in S : rr.priority \in Int
    BY <1>1, OfferedIs DEF LooksUp, Answers
  <2> HIDE DEF l, c, S
  <2> QED
    BY <1>2, <1>3, <1>6, <2>1, StillOrdered DEF Ordered
<1>8. /\ Append(c, l[i]) # <<>> /\ Last(Append(c, l[i])) = l[i]
      /\ ToSet(Append(c, l[i])) = ToSet(c) \cup {l[i]}
  <2>1. l[i] \in S
    BY <1>2, <1>6, ElementOfSeq
  <2> HIDE DEF l, c, S
  <2> DEFINE h == Append(c, l[i])
  <2>2. /\ h \in Seq(S) /\ h # <<>> /\ Len(h) = Len(c) + 1 /\ h[Len(c) + 1] = l[i]
        /\ \A k \in 1 .. Len(c) : h[k] = c[k]
    BY <1>2, <2>1, AppendProperties
  <2>3. DOMAIN h = 1 .. Len(c) + 1 /\ DOMAIN c = 1 .. Len(c) /\ Len(c) \in Nat
    BY <1>2, <2>2, LenProperties
  <2> HIDE DEF h
  <2>4. ToSet(h) = ToSet(c) \cup {l[i]}
    BY <2>2, <2>3 DEF ToSet
  <2> QED
    BY <2>2, <2>4 DEF Last, h
<1>9. Offered' = Offered /\ \A rr : Infos(rr)' = Infos(rr)
  BY <1>4, StillOffered DEF Answers
<1>10. Present(t)' = l[i] /\ Recorded(t) \subseteq Recorded(t)'
  BY <1>5, <1>8, <1>9 DEF Present, Recorded
<1>11. zone' = zone
  BY <1>4 DEF Still
<1>12. CASE zone.dnssec_only
  <2>1. at'[t] = "choose" /\ waiting' = [waiting EXCEPT ![t] = <<>>] /\ waiting'[t] = <<>>
    BY <1>1, <1>3, <1>12 DEF GoOn, Inv, Queries
  <2>2. Questions(t)' = <<>>
    BY <2>1 DEF Questions
  <2>3. Turn(t, "choose")
    <3>1. UNCHANGED at
      BY <1>3, <1>12
    <3>2. yielded' = [yielded EXCEPT ![t] = Append(yielded[t], l[i])]
      BY <1>3, <1>12
    <3> HIDE DEF l, c, S
    <3> QED
      BY <1>3, <1>4, <2>1, <2>2, <3>1, <3>2, Apart DEF Turn, Inv, Queries, LookupsInv
  <2>4. LooksUp(t)'
    BY <1>1, <1>5, <1>6, <1>7, <1>9, <1>11, <1>12, <2>1, <2>2 DEF LooksUp, Taken, Ordered
  <2> QED
    BY <2>3, <2>4, TurnLooks DEF Answers
<1>13. CASE ~zone.dnssec_only
  <2>1. /\ at' = [at EXCEPT ![t] = "a6"] /\ UNCHANGED yielded
        /\ waiting' = [waiting EXCEPT ![t] = <<address_v6(l[i].host)>>]
    BY <1>3, <1>13 DEF Going, Await
  <2>2. at'[t] = "a6" /\ waiting'[t] = <<address_v6(l[i].host)>>
    BY <2>1 DEF Inv, Queries
  <2>3. Questions(t)' = <<address_v6(l[i].host)>>
    BY <1>10, <2>2 DEF Questions
  <2>4. Turn(t, "a6")
    BY <1>3, <1>4, <2>1, <2>2, <2>3, Apart DEF Turn, Inv, Queries, LookupsInv
  <2>5. yielded'[t] \in Seq(Recorded(t)')
    <3>1. yielded[t] \in Seq(Recorded(t))
      BY <1>1, <1>13 DEF LooksUp
    <3> QED
      BY <1>10, <2>1, <3>1, SeqMonotonic
  <2>6. LooksUp(t)'
    BY <1>1, <1>5, <1>6, <1>7, <1>8, <1>9, <1>11, <2>2, <2>3, <2>5 DEF LooksUp, Taken, Ordered
  <2> QED
    BY <2>4, <2>6, TurnLooks DEF Answers
<1> QED
  BY <1>12, <1>13

\* srv_lookup ends.
LEMMA ExhaustedLooks ==
    ASSUME Inv, Answers, LookupsInv, NEW t \in Lookups, Exhausted(t), t \in Tasks
    PROVE  LookupsInv'
<1>1. at[t] = "choose" /\ LooksUp(t) /\ toInject = <<>>
  BY Apart, RunsStill DEF Exhausted, Is, Runs, LookupsInv
<1>2. /\ at' = [at EXCEPT ![t] = "done"] /\ waiting' = [waiting EXCEPT ![t] = <<>>] /\ Still
      /\ UNCHANGED <<list, chosen, out, yielded>>
  BY <1>1 DEF Exhausted, Going, GoOn, Still
<1>3. at'[t] = "done" /\ waiting'[t] = <<>>
  BY <1>2 DEF Inv, Queries
<1>4. Questions(t)' = <<>>
  BY <1>3 DEF Questions
<1>5. Turn(t, "done")
  BY <1>2, <1>3, <1>4, Apart DEF Turn, Inv, Queries, LookupsInv
<1>6. Offered' = Offered /\ Recorded(t)' = Recorded(t) /\ zone' = zone
  BY <1>2, StillOffered DEF Answers, Recorded, Still
<1>7. LooksUp(t)'
  BY <1>1, <1>2, <1>3, <1>4, <1>6 DEF LooksUp, Ordered
<1> QED
  BY <1>5, <1>7, TurnLooks DEF Answers

\* The addresses of a record are those of its host, and go with its port and its service.
LEMMA AddressesLooks ==
    ASSUME Inv, Answers, LookupsInv, NEW t \in Lookups, t \in Tasks,
           \/ Addresses(t, "a6", "give6")
           \/ Addresses(t, "a4", "give4")
    PROVE  LookupsInv'
<1> DEFINE rr == Present(t)
<1>1. PICK family \in {"6", "4"} :
          \/ family = "6" /\ Addresses(t, "a6", "give6")
          \/ family = "4" /\ Addresses(t, "a4", "give4")
  OBVIOUS
<1> DEFINE q == IF family = "6" THEN address_v6(rr.host) ELSE address_v4(rr.host)
           next == IF family = "6" THEN "give6" ELSE "give4"
<1>2. at[t] = (IF family = "6" THEN "a6" ELSE "a4") /\ running = t /\ LooksUp(t) /\ toInject = <<>> /\ Gets(t)
  BY <1>1, Apart, RunsStill DEF Addresses, Is, Runs, LookupsInv, Answers
<1>3. waiting[t] = <<q>> /\ chosen[t] # <<>>
  BY <1>2 DEF LooksUp, Questions
<1>4. /\ at' = [at EXCEPT ![t] = next] /\ waiting' = [waiting EXCEPT ![t] = <<>>] /\ Still
      /\ out' = [out EXCEPT ![t] = [i \in DOMAIN got[t][1].rrs |-> Info(rr, got[t][1].rrs[i])]]
      /\ UNCHANGED <<list, chosen, yielded>>
  BY <1>1, <1>2 DEF Addresses, Going, GoOn, Still
<1>5. at'[t] = next /\ waiting'[t] = <<>> /\ next \in {"give6", "give4"}
  BY <1>4 DEF Inv, Queries
<1>6. Questions(t)' = <<>>
  BY <1>5 DEF Questions
<1>7. Turn(t, next)
  <2> HIDE DEF rr, next
  <2> QED
    BY <1>4, <1>5, <1>6, Apart DEF Turn, Inv, Queries, LookupsInv
<1>8. /\ Offered' = Offered /\ Recorded(t)' = Recorded(t) /\ zone' = zone
      /\ Present(t)' = Present(t) /\ Infos(Present(t))' = Infos(Present(t))
  BY <1>4, StillOffered DEF Answers, Recorded, Present, Still
<1>9. out'[t] \in Seq(Infos(rr))
  <2>1. 1 \in DOMAIN got[t] /\ waiting[t][1] = q
    BY <1>2, <1>3 DEF Gets
  <2>2. Means(q, got[t][1])
    BY <1>2, <2>1 DEF Gets
  <2>3. q[1] \in {"a", "aaaa"}
    BY DEF address_v6, address_v4
  <2>4. /\ IsList(got[t][1].rrs)
        /\ ToSet(got[t][1].rrs) \subseteq
              ToSet(Answer(address_v6(rr.host)).rrs) \cup ToSet(Answer(address_v4(rr.host)).rrs)
    BY <2>2, <2>3 DEF Means
  <2> DEFINE r == got[t][1].rrs
  <2>5. out'[t] = [i \in DOMAIN r |-> Info(rr, r[i])]
    BY <1>4 DEF LookupsInv
  <2>6. Len(r) \in Nat /\ DOMAIN r = 1 .. Len(r) /\ \A i \in DOMAIN r : r[i] \in ToSet(r)
    BY <2>4 DEF IsList
  <2>7. \A i \in DOMAIN r : Info(rr, r[i]) \in Infos(rr)
    BY <2>4, <2>6 DEF Infos
  <2> HIDE DEF r, rr
  <2> DEFINE f(i) == Info(rr, r[i])
  <2>8. out'[t] = [i \in 1 .. Len(r) |-> f(i)] /\ Len(r) \in Nat /\ \A i \in 1 .. Len(r) : f(i) \in Infos(rr)
    BY <2>5, <2>6, <2>7
  <2> HIDE DEF f
  <2> QED
    BY <2>8
<1>10. LooksUp(t)'
  BY <1>2, <1>3, <1>4, <1>5, <1>6, <1>8, <1>9 DEF LooksUp, Ordered
<1> QED
  BY <1>7, <1>10, TurnLooks DEF Answers

\* What is yielded is the next of them.
LEMMA GiveLooks ==
    ASSUME Inv, Answers, LookupsInv, NEW t \in Lookups, Give(t), t \in Tasks
    PROVE  LookupsInv'
<1>1. at[t] \in {"give6", "give4"} /\ LooksUp(t) /\ toInject = <<>> /\ out[t] # <<>>
  BY Apart, RunsStill DEF Give, Runs, LookupsInv
<1>2. /\ waiting' = [waiting EXCEPT ![t] = <<>>] /\ Still /\ UNCHANGED <<at, list, chosen>>
      /\ yielded' = [yielded EXCEPT ![t] = Append(yielded[t], Head(out[t]))]
      /\ out' = [out EXCEPT ![t] = Tail(out[t])]
  BY <1>1 DEF Give, GoOn, Still
<1>3. /\ waiting'[t] = <<>> /\ yielded'[t] = Append(yielded[t], Head(out[t])) /\ out'[t] = Tail(out[t])
  BY <1>2 DEF Inv, Queries, LookupsInv
<1>4. Questions(t)' = <<>>
  BY <1>1, <1>2 DEF Questions
<1>5. Turn(t, at[t])
  BY <1>2, <1>3, <1>4, Apart DEF Turn, Inv, Queries, LookupsInv
<1>6. /\ Offered' = Offered /\ Recorded(t)' = Recorded(t) /\ zone' = zone
      /\ Present(t)' = Present(t) /\ Infos(Present(t))' = Infos(Present(t))
  BY <1>2, StillOffered DEF Answers, Recorded, Present, Still
<1>7. Head(out[t]) \in Infos(Present(t)) /\ Tail(out[t]) \in Seq(Infos(Present(t))) /\ chosen[t] # <<>>
  BY <1>1, HeadTailProperties DEF LooksUp
<1>8. Head(out[t]) \in Recorded(t)
  <2>1. Present(t) \in ToSet(chosen[t])
    <3> DEFINE c == chosen[t]
    <3>1. c \in Seq(ToSet(Offered)) /\ c # <<>>
      BY <1>1, <1>7 DEF LooksUp
    <3> HIDE DEF c
    <3>2. Len(c) \in DOMAIN c
      BY <3>1, EmptySeq, LenProperties
    <3> QED
      BY <3>2 DEF Present, Last, ToSet, c
  <2> QED
    BY <1>7, <2>1 DEF Recorded
<1>9. ~zone.dnssec_only => yielded'[t] \in Seq(Recorded(t))
  BY <1>1, <1>3, <1>8, AppendProperties DEF LooksUp
<1>10. LooksUp(t)'
  BY <1>1, <1>2, <1>3, <1>4, <1>6, <1>7, <1>9 DEF LooksUp, Ordered
<1> QED
  BY <1>5, <1>10, TurnLooks DEF Answers

\* xmpp_lookup goes on to the other family, or to the next record.
LEMMA GiveNoMoreLooks ==
    ASSUME Inv, Answers, LookupsInv, NEW t \in Lookups, GiveNoMore(t), t \in Tasks
    PROVE  LookupsInv'
<1>1. at[t] \in {"give6", "give4"} /\ LooksUp(t) /\ toInject = <<>>
  BY Apart, RunsStill DEF GiveNoMore, Runs, LookupsInv
<1>2. Still /\ UNCHANGED <<list, chosen, out, yielded>>
  BY <1>1 DEF GiveNoMore, Await, GoOn, Still
<1>3. /\ Offered' = Offered /\ Recorded(t)' = Recorded(t) /\ zone' = zone /\ Present(t)' = Present(t)
  BY <1>2, StillOffered DEF Answers, Recorded, Present, Still
<1>4. CASE at[t] = "give6"
  <2>1. /\ at' = [at EXCEPT ![t] = "a4"]
        /\ waiting' = [waiting EXCEPT ![t] = <<address_v4(Present(t).host)>>]
    BY <1>4 DEF GiveNoMore, Await, Going
  <2>2. at'[t] = "a4" /\ waiting'[t] = <<address_v4(Present(t).host)>>
    BY <2>1 DEF Inv, Queries
  <2>3. Questions(t)' = <<address_v4(Present(t).host)>>
    BY <1>3, <2>2 DEF Questions
  <2>4. Turn(t, "a4")
    BY <1>2, <2>1, <2>2, <2>3, Apart DEF Turn, Inv, Queries, LookupsInv
  <2>5. LooksUp(t)'
    BY <1>1, <1>2, <1>3, <2>2, <2>3 DEF LooksUp, Ordered
  <2> QED
    BY <2>4, <2>5, TurnLooks DEF Answers
<1>5. CASE at[t] = "give4"
  <2>1. at' = [at EXCEPT ![t] = "choose"] /\ waiting' = [waiting EXCEPT ![t] = <<>>]
    BY <1>5 DEF GiveNoMore, GoOn, Going
  <2>2. at'[t] = "choose" /\ waiting'[t] = <<>>
    BY <2>1 DEF Inv, Queries
  <2>3. Questions(t)' = <<>>
    BY <2>2 DEF Questions
  <2>4. Turn(t, "choose")
    BY <1>2, <2>1, <2>2, <2>3, Apart DEF Turn, Inv, Queries, LookupsInv
  <2>5. LooksUp(t)'
    BY <1>1, <1>2, <1>3, <2>2, <2>3 DEF LooksUp, Ordered
  <2> QED
    BY <2>4, <2>5, TurnLooks DEF Answers
<1> QED
  BY <1>1, <1>4, <1>5

LEMMA GenerateLooks ==
    ASSUME Inv, Answers, Types, LookupsInv, NEW t \in Lookups, Generate(t)
    PROVE  LookupsInv'
  BY Apart, CollapseLooks, ChooseLooks, ExhaustedLooks, AddressesLooks, GiveLooks, GiveNoMoreLooks DEF Generate

LEMMA BeginLooks ==
    ASSUME Inv, Answers, LookupsInv, NEW t \in Lookups, Begin(t), t \in Tasks
    PROVE  LookupsInv'
<1> DEFINE q == <<srv("xmpp-server", zone.domain), srv("xmpps-server", zone.domain)>>
<1>1. /\ at[t] = "idle" /\ LooksUp(t)
      /\ at' = [at EXCEPT ![t] = "srv"] /\ waiting' = [waiting EXCEPT ![t] = q] /\ Still
      /\ UNCHANGED <<list, chosen, out, yielded>>
  BY DEF Begin, Idle, Going, Await, Still, LookupsInv
<1>2. at'[t] = "srv" /\ waiting'[t] = q /\ zone' = zone
  BY <1>1 DEF Inv, Queries, Still
<1>3. Questions(t)' = q
  BY <1>2 DEF Questions
<1>4. Turn(t, "srv")
  <2> HIDE DEF q
  <2> QED
    BY <1>1, <1>2, <1>3, Apart DEF Turn, Inv, Queries, LookupsInv
<1>5. Offered' = Offered /\ Recorded(t)' = Recorded(t)
  BY <1>1, StillOffered DEF Answers, Recorded
<1>6. LooksUp(t)'
  BY <1>1, <1>2, <1>3, <1>5 DEF LooksUp, Ordered
<1> QED
  BY <1>4, <1>6, TurnLooks DEF Answers

LEMMA AdvanceLooks ==
    ASSUME Inv, Answers, LookupsInv, NEW t \in Lookups, Advance(t), t \in Tasks
    PROVE  LookupsInv'
<1>1. /\ at[t] \in {"choose", "give6", "give4"} /\ LooksUp(t)
      /\ waiting' = [waiting EXCEPT ![t] = <<>>] /\ Still /\ UNCHANGED lookup
  BY DEF Advance, Idle, GoOn, Still, LookupsInv
<1>2. waiting'[t] = <<>> /\ waiting[t] = <<>>
  BY <1>1 DEF Inv, Queries, LooksUp, Questions
<1>3. ASSUME NEW u \in Lookups PROVE LooksUp(u)'
  <2>1. LooksUp(u) /\ waiting'[u] = waiting[u]
    BY <1>1, <1>2, Apart DEF LookupsInv, Inv, Queries
  <2> QED
    BY <1>1, <2>1, LooksOn DEF Answers, lookup
<1> QED
  BY <1>1, <1>3 DEF LookupsInv, lookup

LEMMA DropLooks ==
    ASSUME Inv, Answers, LookupsInv, NEW t \in Lookups, Drop(t), t \in Tasks
    PROVE  LookupsInv'
<1>1. /\ LooksUp(t)
      /\ at' = [at EXCEPT ![t] = "dropped"] /\ waiting' = [waiting EXCEPT ![t] = <<>>] /\ Still
      /\ UNCHANGED <<list, chosen, out, yielded>>
  BY DEF Drop, Idle, Release, Going, Still, LookupsInv
<1>2. at'[t] = "dropped" /\ waiting'[t] = <<>>
  BY <1>1 DEF Inv, Queries
<1>3. Questions(t)' = <<>>
  BY <1>2 DEF Questions
<1>4. Turn(t, "dropped")
  BY <1>1, <1>2, <1>3, Apart DEF Turn, Inv, Queries, LookupsInv
<1>5. Offered' = Offered /\ Recorded(t)' = Recorded(t) /\ zone' = zone
  BY <1>1, StillOffered DEF Answers, Recorded, Still
<1>6. LooksUp(t)'
  BY <1>1, <1>2, <1>3, <1>5 DEF LooksUp, Ordered
<1> QED
  BY <1>4, <1>6, TurnLooks DEF Answers

\* Nothing of a lookup is touched by a discovery, nor by the answer to its question, which it has still
\* to use.
LEMMA OthersLook ==
    ASSUME Inv, Answers, LookupsInv, Still, UNCHANGED lookup, \A t \in Lookups : waiting'[t] = waiting[t]
    PROVE  LookupsInv'
<1>1. ASSUME NEW u \in Lookups PROVE LooksUp(u)'
  BY LooksOn DEF LookupsInv, Answers, lookup
<1> QED
  BY <1>1 DEF LookupsInv, lookup

LEMMA InjectLooks ==
    ASSUME Answers, LookupsInv, Inject, UNCHANGED lookup
    PROVE  LookupsInv'
<1>1. ASSUME NEW t \in Lookups PROVE LooksUp(t)'
  <2>1. at[t] = "idle" /\ LooksUp(t)
    BY DEF Inject, Answers, Injections, LookupsInv
  <2>2. waiting[t] = <<>> /\ chosen[t] = <<>> /\ list[t] = <<>> /\ yielded[t] = <<>>
    BY <2>1 DEF LooksUp, Questions
  <2>3. waiting'[t] = <<>> /\ at'[t] = "idle" /\ chosen'[t] = <<>> /\ list'[t] = <<>> /\ yielded'[t] = <<>>
        /\ chosen'[t] \o list'[t] = chosen[t] \o list[t]
    BY <2>1, <2>2 DEF Inject, lookup
  <2>4. Questions(t)' = <<>>
    BY <2>3 DEF Questions
  <2>5. <<>> \in Seq(ToSet(Offered)') /\ <<>> \in Seq(Recorded(t)')
    OBVIOUS
  <2> QED
    BY <2>1, <2>3, <2>4, <2>5 DEF LooksUp, Ordered
<1> QED
  BY <1>1 DEF LookupsInv, lookup

LEMMA LookupsStep == Inv /\ Answers /\ Types /\ LookupsInv /\ [Next]_vars => LookupsInv'
<1> SUFFICES ASSUME Inv, Answers, Types, LookupsInv, [Next]_vars PROVE LookupsInv'
  OBVIOUS
<1>1. CASE UNCHANGED vars
  <2>1. UNCHANGED <<zone, injected, waiting>> /\ UNCHANGED lookup
    BY <1>1 DEF vars, resolver
  <2>2. \A q : Answer(q)' = Answer(q)
    BY <2>1 DEF Answer, Good
  <2>3. Offered' = Offered /\ \A rr : Infos(rr)' = Infos(rr)
    BY <2>1, <2>2 DEF Offered, Counted, Infos
  <2>4. ASSUME NEW t \in Lookups PROVE LooksUp(t)'
    <3>1. Questions(t)' = Questions(t) /\ Present(t)' = Present(t)
      BY <2>1 DEF Questions, Present, lookup
    <3>2. Recorded(t)' = Recorded(t) /\ Infos(Present(t))' = Infos(Present(t))
      BY <2>1, <2>3, <3>1 DEF Recorded, lookup
    <3> QED
      BY <2>1, <2>3, <3>1, <3>2 DEF LookupsInv, LooksUp, Ordered, lookup
  <2> QED
    BY <2>1, <2>4 DEF LookupsInv, lookup
<1>2. CASE Inject /\ UNCHANGED <<discovery, lookup>>
  BY <1>2, InjectLooks
<1>3. CASE Application
  <2>1. ASSUME NEW t \in Discoverers, Start(t), UNCHANGED lookup PROVE LookupsInv'
    <3>1. Still /\ \A u \in Lookups : waiting'[u] = waiting[u]
      BY <2>1, Apart DEF Start, Idle, Await, Still, Inv, Queries
    <3> QED
      BY <2>1, <3>1, OthersLook
  <2> QED
    BY <1>3, <2>1, Apart, BeginLooks, AdvanceLooks, DropLooks DEF Application
<1>4. CASE Loop
  <2>1. PICK c \in pending : Callback(c) \/ ErrorCallback(c) \/ HaltingCallback(c)
    BY <1>4 DEF Loop, event_callback
  <2>2. Still /\ UNCHANGED lookup
    BY <1>4, <2>1 DEF Loop, Callback, ErrorCallback, HaltingCallback, Idle, Still
  <2>3. \A u \in Lookups : waiting'[u] = waiting[u]
    <3>1. CASE Callback(c) \/ HaltingCallback(c)
      BY <3>1 DEF Callback, HaltingCallback
    <3>2. CASE ErrorCallback(c)
      <4>1. c[1] \notin Lookups /\ waiting' = [waiting EXCEPT ![c[1]] = <<>>]
        BY <3>2, LookupAssumption DEF ErrorCallback, Release
      <4> QED
        BY <4>1, Apart DEF Inv, Queries
    <3> QED
      BY <2>1, <3>1, <3>2
  <2> QED
    BY <2>2, <2>3, OthersLook
<1>5. ASSUME NEW t \in Discoverers, Discover(t), UNCHANGED lookup PROVE LookupsInv'
  <2>1. toInject = <<>>
    <3>1. running = t /\ t # "none"
      BY <1>5, Apart, DiscoverRuns
    <3> QED
      BY <3>1, RunsStill
  <2>2. OnlyAsks(t)
    BY <1>5, DiscoverAsks
  <2>3. Still /\ \A u \in Lookups : waiting'[u] = waiting[u]
    <3>1. Still
      BY <2>1, <2>2 DEF Still, OnlyAsks
    <3>2. waiting = [u \in Tasks |-> waiting[u]] /\ \A u \in Lookups : u \in Tasks /\ u # t
      BY <1>5, Apart DEF Inv, Queries
    <3>3. \A u \in Lookups : waiting'[u] = waiting[u]
      BY <2>2, <3>2 DEF OnlyAsks
    <3> QED
      BY <3>1, <3>3
  <2> QED
    BY <1>5, <2>3, OthersLook
<1> QED
  BY <1>1, <1>2, <1>3, <1>4, <1>5, GenerateLooks DEF Next, Run

LookupsIInv == Inv /\ Answers /\ Types /\ LookupsInv

LEMMA LookupsIInvInvariant == Spec => []LookupsIInv
<1>1. ServiceInit => LookupsIInv
  BY InvInit, AnswersInit, TypesInit, LookupsInit DEF LookupsIInv
<1>2. LookupsIInv /\ [Next]_vars => LookupsIInv'
  BY InvStep, AnswersStep, TypesStep, LookupsStep DEF LookupsIInv
<1> QED
  BY <1>1, <1>2, PTL DEF Spec

\* Each SRV record of both services is yielded as often as it was offered, in order of priority, however
\* std::sort orders equals, whichever the random numbers pick and whatever is dropped.
THEOREM YieldsInOrderHolds == Spec => []YieldsInOrder
<1>1. LookupsIInv => YieldsInOrder
  BY DEF LookupsIInv, LookupsInv, LooksUp, Ordered, YieldsInOrder
<1> QED
  BY <1>1, LookupsIInvInvariant, PTL

\* What xmpp_lookup yields is an address of the host of an SRV record that was chosen, with its port and the
\* method of its service.
THEOREM YieldsAsRecordedHolds == Spec => []YieldsAsRecorded
<1>1. LookupsIInv => YieldsAsRecorded
  <2> SUFFICES ASSUME LookupsIInv, NEW t \in Lookups, ~zone.dnssec_only, NEW i \in DOMAIN yielded[t]
               PROVE  LET info == yielded[t][i]
                      IN  \E rr \in ToSet(chosen[t]) :
                              /\ info = Info(rr, info.address)
                              /\ info.address \in ToSet(Answer(address_v6(rr.host)).rrs)
                                                    \cup ToSet(Answer(address_v4(rr.host)).rrs)
    BY DEF YieldsAsRecorded
  <2>1. yielded[t] \in Seq(Recorded(t))
    BY DEF LookupsIInv, LookupsInv, LooksUp
  <2>2. yielded[t][i] \in Recorded(t)
    BY <2>1, ElementOfSeq, LenProperties
  <2>3. PICK rr \in ToSet(chosen[t]) : yielded[t][i] \in Infos(rr)
    BY <2>2 DEF Recorded
  <2>4. PICK a \in ToSet(Answer(address_v6(rr.host)).rrs) \cup ToSet(Answer(address_v4(rr.host)).rrs) :
            yielded[t][i] = Info(rr, a)
    BY <2>3 DEF Infos
  <2>5. Info(rr, a).address = a
    BY DEF Info
  <2> QED
    BY <2>4, <2>5
<1> QED
  BY <1>1, LookupsIInvInvariant, PTL
=============================================================================
