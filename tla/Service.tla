------------------------------ MODULE Service -------------------------------
(***************************************************************************)
(* The coroutines of an Entry of covent::Service that share its resolver:  *)
(* discoveries and lookups, on one loop.                                   *)
(***************************************************************************)
EXTENDS Discovery, Lookup

ASSUME ServiceAssumption == Tasks = Discoverers \cup Lookups

vars == <<resolver, discovery, lookup>>

TypeOK ==
    /\ zone \in Zones /\ IsSuffix(toInject, zone.inject)
    /\ DOMAIN waiting = Tasks /\ DOMAIN got = Tasks
    /\ \A t \in Tasks : DOMAIN got[t] \subseteq DOMAIN waiting[t]
    /\ \A c \in pending : c[1] \in Tasks
    /\ running \in Tasks \cup {"none"}
    /\ failed \subseteq Discoverers /\ halted \in BOOLEAN
    /\ step \in [Discoverers -> Steps] /\ dnssec \in [Discoverers -> BOOLEAN]
    /\ at \in [Lookups -> Places] /\ falls \in [Lookups -> BOOLEAN]
    \* A task that waits has something to wait for, and one that runs is nowhere else.
    /\ \A t \in Tasks : waiting[t] # <<>> /\ DOMAIN got[t] = DOMAIN waiting[t] => running = t

ServiceInit == Init /\ DiscoveryInit /\ LookupInit

Application == \/ \E t \in Discoverers : Start(t) /\ UNCHANGED lookup
               \/ \E t \in Lookups : (Begin(t) \/ Advance(t) \/ Drop(t)) /\ UNCHANGED discovery

Loop == event_callback /\ UNCHANGED <<discovery, lookup>>

Run == \/ \E t \in Discoverers : Discover(t) /\ UNCHANGED lookup
       \/ \E t \in Lookups : Generate(t) /\ UNCHANGED discovery

Next == \/ Inject /\ UNCHANGED <<discovery, lookup>>
        \/ Application \/ Loop \/ Run

Spec == ServiceInit /\ [][Next]_vars
=============================================================================
