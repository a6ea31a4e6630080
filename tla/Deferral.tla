------------------------------ MODULE Deferral ------------------------------
(***************************************************************************)
(* What Loop::defer promises to its callers, without threads, libevent or  *)
(* wakeups: an action handed over with a delay runs at most once, never    *)
(* before its time has passed, and never before an action that was due     *)
(* earlier (or was due at the same time and was handed over earlier).  An  *)
(* action that throws takes some of the overdue ones with it, and then it  *)
(* takes the ones that would have run next.                                *)
(***************************************************************************)
EXTENDS Naturals

CONSTANT Actions          \* the functions that may be deferred

VARIABLES now,            \* the time
          due,            \* due[a]: when action a may run
          order,          \* order[a]: the place of a in the order of arrival, 0 = not deferred yet
          queue,          \* the actions deferred and not yet run
          ran             \* the actions that were run

vars == <<now, due, order, queue, ran>>

Before(a, b) == due[a] < due[b] \/ (due[a] = due[b] /\ order[a] < order[b])

Init == /\ now = 0
        /\ due = [a \in Actions |-> 0]
        /\ order = [a \in Actions |-> 0]
        /\ queue = {}
        /\ ran = {}

Tick == now' = now + 1 /\ UNCHANGED <<due, order, queue, ran>>

Schedule(a) ==
    /\ order[a] = 0
    /\ due'[a] >= now
    /\ \A b \in Actions : order[b] < order'[a]
    /\ due' = [due EXCEPT ![a] = due'[a]]
    /\ order' = [order EXCEPT ![a] = order'[a]]
    /\ queue' = queue \cup {a}
    /\ UNCHANGED <<now, ran>>

Run(a) ==
    /\ a \in queue /\ due[a] < now
    /\ \A b \in queue \ {a} : Before(a, b)
    /\ queue' = queue \ {a}
    /\ ran' = ran \cup {a}
    /\ UNCHANGED <<now, due, order>>

Abandon(lost) ==
    /\ \A a \in lost : due[a] < now
    /\ \A a \in lost, b \in queue \ lost : Before(a, b)
    /\ queue' = queue \ lost
    /\ UNCHANGED <<now, due, order, ran>>

Next == \/ Tick
        \/ \E a \in Actions : Schedule(a) \/ Run(a)
        \/ \E lost \in SUBSET queue : Abandon(lost)

Spec == Init /\ [][Next]_vars
=============================================================================
