------------------------------ MODULE Resolver ------------------------------
(***************************************************************************)
(* covent::dns::Resolver over libunbound.  A coroutine asks a question and *)
(* waits for a future that lives in its frame; the callback of libunbound  *)
(* settles the future, which resumes the coroutine at once.  Answers come  *)
(* in any order, from one loop; what was injected is answered directly.    *)
(*                                                                         *)
(* A task here is one of Service's coroutines: it asks some questions      *)
(* together (gather) and goes on when it has all answers, or it is         *)
(* destroyed while it waits, and its queries with it.                      *)
(***************************************************************************)
EXTENDS Records

CONSTANTS Tasks,
          Generators,   \* those of Tasks that are generators
          Zones         \* what there is to find, one of them in a behaviour

ASSUME ResolverAssumption == Generators \subseteq Tasks /\ "none" \notin Tasks

VARIABLES zone,
          toInject,     \* answers the application has yet to inject
          injected,     \* m_svcb, m_tlsa, m_a4, m_a6, m_srv
          waiting,      \* waiting[t]: the questions t waits for, in the order it asked them
          got,          \* got[t]: the answers to them, as they come
          pending,      \* libunbound's queries: task, position in waiting, question
          running,      \* the task that runs, or "none"
          failed,       \* tasks that an exception has ended
          halted        \* undefined behaviour or std::terminate()

resolver == <<zone, toInject, injected, waiting, got, pending, running, failed, halted>>

Init == /\ zone \in Zones
        /\ toInject = zone.inject
        /\ injected = <<>>
        /\ waiting = [t \in Tasks |-> <<>>] /\ got = [t \in Tasks |-> <<>>]
        /\ pending = {} /\ running = "none"
        /\ failed = {} /\ halted = FALSE

-----------------------------------------------------------------------------
(* Questions.  A name is its labels, and how many dots end it: host names  *)
(* out of DNS records have one, and each question about a service adds one.*)

Dot(name) == <<name[1], name[2] + 1>>

svcb(service, domain) == <<"svcb", service, Dot(domain)>>
srv(service, domain) == <<"srv", service, Dot(domain)>>
tlsa(port, host) == <<"tlsa", port, host>>
address_v6(host) == <<"aaaa", "", host>>
address_v4(host) == <<"a", "", host>>

\* What is looked up, and the place of an injected answer: only srv() regards what was asked for.
Key(q) == <<q[1], q[2], q[3][1]>>
Slot(q) == IF q[1] = "srv" THEN <<"srv", q[2]>> ELSE <<q[1], "">>

Fails(q) == q[3][2] > 1 \/ Key(q) \in zone.fails

-----------------------------------------------------------------------------
(* Answers.                                                                *)

NoAnswer == [error |-> TRUE, dnssec |-> FALSE, rrs |-> <<>>]

\* SRV records note the service that was asked for.
Parsed(q, data) ==
    CASE q[1] = "srv" -> SRV(data, q[2])
      [] q[1] = "svcb" -> SVCB(data)
      [] q[1] = "tlsa" -> TLSA(data)
      [] OTHER -> data

\* What there is to find: for each key the records and their data, of which a record is the meaning if it
\* can be parsed; and what the application injects is such an answer as the resolver makes.
IsList(s) == s \in Seq(ToSet(s))
Ranked(rrs) == \A i \in DOMAIN rrs : rrs[i].priority \in Int
IsAnswer(a) == /\ a.error \in BOOLEAN /\ a.dnssec \in BOOLEAN
               /\ IsList(a.rrs) /\ (a.error => a.rrs = <<>>)

Findable(z) ==
    /\ \A k \in DOMAIN z.dns :
          LET result == z.dns[k]
          IN  /\ result.secure \in BOOLEAN
              /\ IsList(result.rrs) /\ DOMAIN result.data = DOMAIN result.rrs
              /\ k[1] = "srv" => Ranked(result.rrs)
              /\ \A i \in DOMAIN result.rrs :
                    \/ Parsed(k, result.data[i]) = result.rrs[i]
                    \/ k[1] \in {"svcb", "srv", "tlsa"} /\ Parsed(k, result.data[i]) = Unparsed
    /\ IsList(z.inject)
    /\ \A i \in DOMAIN z.inject : /\ IsAnswer(z.inject[i].answer)
                                  /\ z.inject[i].type = "srv" => Ranked(z.inject[i].answer.rrs)

ASSUME ZonesAssumption == \A z \in Zones : Findable(z)

\* What init_answer() lets pass.
Good(q) == /\ Key(q) \in DOMAIN zone.dns
           /\ LET result == zone.dns[Key(q)] IN ~result.bogus /\ (result.secure \/ ~zone.required)

\* Addresses are put at the front of their list.
init_answer(q) ==
    IF ~Good(q) THEN NoAnswer
    ELSE LET result == zone.dns[Key(q)]
             rrs == [i \in DOMAIN result.data |-> Parsed(q, result.data[i])]
         IN  [error |-> FALSE, dnssec |-> result.secure,
              rrs |-> IF q[1] \in {"a", "aaaa"} THEN Reverse(rrs) ELSE rrs]

\* The coroutine that gets this answer throws, whatever else is in it.
Malformed(q) == /\ ~Fails(q) /\ Good(q) /\ q[1] \in {"svcb", "srv", "tlsa"}
                /\ \E data \in ToSet(zone.dns[Key(q)].data) : Parsed(q, data) = Unparsed

\* inject(): an SRV answer is divided by service, and added to what is there; an Address answer is
\* divided by family.
Divided(a, type) ==
    CASE type = "srv" -> {<<"srv", a.rrs[i].service>> : i \in DOMAIN a.rrs}
      [] type = "address" -> {<<"a", "">>, <<"aaaa", "">>}
      [] OTHER -> {<<type, "">>}

\* What stands at some places of a sequence, in its order.
Pick(s, places) ==
    [k \in 1 .. Cardinality(places) |->
        s[CHOOSE i \in places : Cardinality({j \in places : j <= i}) = k]]

Part(a, type, slot) ==
    LET kept == CASE type = "srv" -> Pick(a.rrs, {i \in DOMAIN a.rrs : a.rrs[i].service = slot[2]})
                  [] type = "address" -> Pick(a.rrs, {i \in DOMAIN a.rrs : a.rrs[i].family = slot[1]})
                  [] OTHER -> a.rrs
    IN  IF type = "srv" /\ slot \in DOMAIN injected
        THEN [injected[slot] EXCEPT !.rrs = @ \o kept]
        ELSE [error |-> a.error \/ (type = "address" /\ kept = <<>>), dnssec |-> a.dnssec, rrs |-> kept]

\* The application configures the resolver before it asks.
Inject ==
    /\ toInject # <<>> /\ toInject' = Tail(toInject)
    /\ LET new == Head(toInject)
           slots == Divided(new.answer, new.type)
       IN  injected' = [s \in DOMAIN injected \cup slots |->
                           IF s \in slots THEN Part(new.answer, new.type, s) ELSE injected[s]]
    /\ UNCHANGED <<zone, waiting, got, pending, running, failed, halted>>

-----------------------------------------------------------------------------
(* The coroutines' side.                                                   *)

Idle == running = "none" /\ toInject = <<>> /\ ~halted
Runs(t) == running = t /\ ~halted

\* await_ready(): a task whose answers are all there does not suspend.
AlwaysSuspends(t, asked) == "none"
RunsOn(t, asked) == IF asked = {} THEN t ELSE "none"

\* Task t asks questions and waits for all answers; it runs on if they were all injected.
Await(t, questions) ==
    LET known == {i \in DOMAIN questions : Slot(questions[i]) \in DOMAIN injected}
        asked == {<<t, i, questions[i]>> : i \in DOMAIN questions \ known}
    IN  /\ waiting' = [waiting EXCEPT ![t] = questions]
        /\ got' = [got EXCEPT ![t] = [i \in known |-> injected[Slot(questions[i])]]]
        /\ pending' = pending \cup asked
        /\ running' = RunsOn(t, asked)
        /\ UNCHANGED <<zone, toInject, injected, failed, halted>>

Answered(t) == Runs(t) /\ waiting[t] # <<>>

\* Task t has used its answers, and next is running.
GoOn(t, next) ==
    /\ waiting' = [waiting EXCEPT ![t] = <<>>] /\ got' = [got EXCEPT ![t] = <<>>]
    /\ running' = next
    /\ UNCHANGED <<zone, toInject, injected, pending, failed, halted>>

\* query::~query() cancels the queries of t.
Uncancelled(t) == pending
Cancelled(t) == {c \in pending : c[1] # t}

\* The frame of t is destroyed.
Release(t) ==
    /\ waiting' = [waiting EXCEPT ![t] = <<>>] /\ got' = [got EXCEPT ![t] = <<>>]
    /\ pending' = Cancelled(t)

-----------------------------------------------------------------------------
(* event_callback().                                                       *)

\* The future of query c exists and is not settled.
Live(c) == c[2] \in DOMAIN waiting[c[1]] \ DOMAIN got[c[1]] /\ waiting[c[1]][c[2]] = c[3]

\* What t has with the answer to its question i.
LastOnly(t, i, answer) == [j \in {i} |-> answer]
Have(t, i, answer) == [j \in DOMAIN got[t] \cup {i} |-> IF j = i THEN answer ELSE got[t][j]]

\* callback() resolves the future.
Callback(c) ==
    LET t == c[1]
        have == Have(t, c[2], init_answer(c[3]))
    IN  /\ Idle /\ c \in pending /\ Live(c) /\ ~Fails(c[3]) /\ ~Malformed(c[3])
        /\ pending' = pending \ {c}
        /\ got' = [got EXCEPT ![t] = have]
        /\ running' = IF DOMAIN have = DOMAIN waiting[t] THEN t ELSE "none"
        /\ UNCHANGED <<zone, toInject, injected, waiting, failed, halted>>

\* An error: callback() stores the exception, which ends the task and its future, as does a record that
\* cannot be parsed.  (A gather comes to the exception when it awaits this one; what is answered until
\* then is not used.)
ErrorCallback(c) ==
    /\ Idle /\ c \in pending /\ Live(c) /\ c[1] \notin Generators /\ (Fails(c[3]) \/ Malformed(c[3]))
    /\ Release(c[1])
    /\ failed' = failed \cup {c[1]}
    /\ UNCHANGED <<zone, toInject, injected, running, halted>>

\* On an error it then resolves the future all the same, which may find nothing to resume, as above, or
\* undefined behaviour, like any callback for a future that is gone.  In a generator either exception is
\* std::terminate().
HaltingCallback(c) ==
    /\ Idle /\ c \in pending
    /\ Fails(c[3]) \/ ~Live(c) \/ (c[1] \in Generators /\ Malformed(c[3]))
    /\ halted' = TRUE
    /\ UNCHANGED <<zone, toInject, injected, waiting, got, pending, running, failed>>

event_callback == \E c \in pending : Callback(c) \/ ErrorCallback(c) \/ HaltingCallback(c)

-----------------------------------------------------------------------------
(* Properties.                                                             *)

\* The answer to q that is meant: what was injected, or the records themselves, not their octets.
Answer(q) == IF Slot(q) \in DOMAIN injected THEN injected[Slot(q)]
             ELSE IF ~Good(q) THEN NoAnswer
             ELSE [error |-> FALSE, dnssec |-> zone.dns[Key(q)].secure, rrs |-> zone.dns[Key(q)].rrs]

\* Every query that libunbound will answer has its future: nothing is resolved after the coroutine
\* that asked has gone, or twice.
NoStrayCallback == \A c \in pending : Live(c)
=============================================================================
