------------------------------- MODULE Lookup -------------------------------
(***************************************************************************)
(* covent::Service::Entry::srv_lookup and xmpp_lookup: generators that     *)
(* yield the SRV records of two services in order of priority, at random   *)
(* by weight among equals, and for each of them the addresses to connect   *)
(* to.  The application iterates, and may stop and destroy the generator   *)
(* whenever it is suspended.                                               *)
(***************************************************************************)
EXTENDS Resolver

CONSTANT Lookups

ASSUME LookupAssumption == Lookups \subseteq Generators

VARIABLES at,       \* where the generators are
          list,     \* srv_def.rrs
          falls,    \* srv_lookup goes on from the yield of a group without weight
          chosen,   \* history: the records srv_lookup has yielded
          out,      \* addresses of the present record that xmpp_lookup has yet to yield
          yielded   \* history: what the application has got

lookup == <<at, list, falls, chosen, out, yielded>>

LookupInit == /\ at = [t \in Lookups |-> "idle"]
              /\ list = [t \in Lookups |-> <<>>]
              /\ falls = [t \in Lookups |-> FALSE]
              /\ chosen = [t \in Lookups |-> <<>>]
              /\ out = [t \in Lookups |-> <<>>]
              /\ yielded = [t \in Lookups |-> <<>>]

Places == {"idle", "srv", "choose", "a6", "give6", "a4", "give4", "done", "dropped"}

Going(t, next) == at' = [at EXCEPT ![t] = next]
Is(t, place) == Runs(t) /\ at[t] = place

-----------------------------------------------------------------------------
(* srv_lookup()                                                            *)

Begin(t) ==
    /\ Idle /\ at[t] = "idle"
    /\ Await(t, <<srv("xmpp-server", zone.domain), srv("xmpps-server", zone.domain)>>)
    /\ Going(t, "srv")
    /\ UNCHANGED <<list, falls, chosen, out, yielded>>

\* With dnssec_only an unsigned answer counts for nothing.
Counted(answer) == IF zone.dnssec_only /\ ~answer.dnssec THEN <<>> ELSE answer.rrs

\* std::sort does not keep the order of equals.
Unsorted(rrs) == {rrs}
Sorted(rrs) ==
    {s \in {[i \in DOMAIN rrs |-> rrs[p[i]]] : p \in SetToSeqs(DOMAIN rrs)} :
        \A i, j \in DOMAIN rrs : i < j => s[i].priority <= s[j].priority}

Collapse(t) ==
    /\ Is(t, "srv")
    /\ \E s \in Sorted(Counted(got[t][1]) \o Counted(got[t][2])) : list' = [list EXCEPT ![t] = s]
    /\ Going(t, "choose") /\ GoOn(t, t)
    /\ UNCHANGED <<falls, chosen, out, yielded>>

\* Where the random number may point: in the first group, at its first record or at one with a weight.
Group(rrs) == {i \in DOMAIN rrs : rrs[i].priority = rrs[1].priority}
Weightless(rrs) == \A i \in Group(rrs) : rrs[i].weight = 0
Selectable(rrs) == {i \in Group(rrs) : i = 1 \/ rrs[i].weight > 0}

\* A group without weight yields its first record; what comes next is the first of what is left, for
\* the code goes on with a total of zero.
Choose(t) ==
    /\ Is(t, "choose") /\ list[t] # <<>>
    /\ \E i \in IF falls[t] THEN {1} ELSE Selectable(list[t]) :
          /\ chosen' = [chosen EXCEPT ![t] = Append(@, list[t][i])]
          /\ list' = [list EXCEPT ![t] = RemoveAt(@, i)]
          /\ falls' = [falls EXCEPT ![t] = ~@ /\ Weightless(list[t])]
          /\ IF zone.dnssec_only
             THEN /\ yielded' = [yielded EXCEPT ![t] = Append(@, list[t][i])]
                  /\ GoOn(t, "none") /\ UNCHANGED at
             ELSE /\ Await(t, <<address_v6(list[t][i].host)>>)
                  /\ Going(t, "a6") /\ UNCHANGED yielded
    /\ UNCHANGED out

Exhausted(t) ==
    /\ Is(t, "choose") /\ list[t] = <<>>
    /\ Going(t, "done") /\ GoOn(t, "none")
    /\ UNCHANGED <<list, falls, chosen, out, yielded>>

-----------------------------------------------------------------------------
(* xmpp_lookup(), for the record srv_lookup has just yielded.              *)

Info(rr, address) ==
    [host |-> rr.host, port |-> rr.port, address |-> address,
     method |-> IF rr.service = "xmpp-server" THEN "StartTLS" ELSE "DirectTLS"]

\* The record srv_lookup yielded last.
FirstRecord(t) == Head(chosen[t])
Present(t) == Last(chosen[t])

Addresses(t, asked, give) ==
    /\ Is(t, asked)
    /\ out' = [out EXCEPT ![t] = [i \in DOMAIN got[t][1].rrs |->
                                     Info(Present(t), got[t][1].rrs[i])]]
    /\ Going(t, give) /\ GoOn(t, t)
    /\ UNCHANGED <<list, falls, chosen, yielded>>

Give(t) ==
    /\ Runs(t) /\ at[t] \in {"give6", "give4"} /\ out[t] # <<>>
    /\ yielded' = [yielded EXCEPT ![t] = Append(@, Head(out[t]))]
    /\ out' = [out EXCEPT ![t] = Tail(@)]
    /\ GoOn(t, "none")
    /\ UNCHANGED <<at, list, falls, chosen>>

GiveNoMore(t) ==
    /\ Runs(t) /\ out[t] = <<>>
    /\ \/ /\ at[t] = "give6" /\ Await(t, <<address_v4(Present(t).host)>>) /\ Going(t, "a4")
       \/ /\ at[t] = "give4" /\ GoOn(t, t) /\ Going(t, "choose")
    /\ UNCHANGED <<list, falls, chosen, out, yielded>>

-----------------------------------------------------------------------------
(* The application.                                                        *)

\* ++it resumes the generator from its yield.
Advance(t) ==
    /\ Idle /\ at[t] \in {"choose", "give6", "give4"}
    /\ GoOn(t, t)
    /\ UNCHANGED lookup

\* The generator is destroyed while it is suspended.
Drop(t) ==
    /\ Idle /\ at[t] \notin {"idle", "done", "dropped"}
    /\ Release(t) /\ Going(t, "dropped")
    /\ UNCHANGED <<zone, toInject, injected, running, failed, halted,
                   list, falls, chosen, out, yielded>>

Generate(t) == \/ Collapse(t) \/ Choose(t) \/ Exhausted(t)
               \/ Addresses(t, "a6", "give6") \/ Addresses(t, "a4", "give4")
               \/ Give(t) \/ GiveNoMore(t)

-----------------------------------------------------------------------------
(* Properties.                                                             *)

Offered == Counted(Answer(srv("xmpp-server", zone.domain)))
             \o Counted(Answer(srv("xmpps-server", zone.domain)))

\* Each record is yielded as often as it is offered, none before one of a lower priority value, though
\* weights are drawn at random, groups without weight take a path of their own and the application takes
\* its time.
YieldsInOrder ==
    \A t \in Lookups :
        LET all == chosen[t] \o list[t]
        IN  /\ \A i, j \in DOMAIN all : i < j => all[i].priority <= all[j].priority
            /\ at[t] \notin {"idle", "srv", "dropped"} => ToBag(all) = ToBag(Offered)

\* What to connect to is an address of the host that an SRV record names, with the port of that record
\* and the method of its service, although two questions are asked and answers awaited in between.
YieldsAsRecorded ==
    \A t \in Lookups : ~zone.dnssec_only =>
        \A i \in DOMAIN yielded[t] :
            LET info == yielded[t][i]
            IN  \E rr \in ToSet(chosen[t]) :
                    /\ info = Info(rr, info.address)
                    /\ info.address \in ToSet(Answer(address_v6(rr.host)).rrs)
                                          \cup ToSet(Answer(address_v4(rr.host)).rrs)
=============================================================================
