-------------------------------- MODULE Loop --------------------------------
(***************************************************************************)
(* covent::Loop: the cycle of the thread that runs the loop, the deferred  *)
(* actions, and the other threads that call defer() and shutdown() on it.  *)
(*                                                                         *)
(* Time is a number of clock ticks: TimeVal proves that the code's         *)
(* arithmetic on struct timeval is this one.  Of libevent the model keeps  *)
(* what the loop relies on: event_base_loop() forgets an earlier           *)
(* event_base_loopbreak() when it is entered and remembers the timers of   *)
(* event_base_loopexit(), and a break from another thread wakes it.        *)
(***************************************************************************)
EXTENDS Integers

CONSTANTS Owner,      \* the thread that runs the loop
          Others,     \* other threads
          Own,        \* actions the owner may defer
          Cross,      \* actions the others may defer on this loop
          Delays,     \* the delays defer() is called with, in ticks
          MaxTime     \* bound: the clock stops there, and every deferred action is due before it

ASSUME LoopAssumption == /\ Delays \subseteq Nat /\ MaxTime \in Nat
                         /\ Owner \notin Others /\ Own \cap Cross = {}

Threads == Others \cup {Owner}
Actions == Own \cup Cross

VARIABLES clock,      \* gettimeofday(), monotone
          pending,    \* m_pending_actions, ordered by Before
          when,       \* when[a]: a's key in m_pending_actions
          stamp,      \* stamp[a]: a's place in the order of insertion, 0 = never deferred
          stamps,     \* how many insertions there were
          batch,      \* run_now: taken out of m_pending_actions and not yet called
          ran,        \* the actions called so far
          shutdown,   \* m_shutdown
          pc,         \* where the loop's thread is
          block,      \* run_once's local variable
          breakFlag,  \* event_base: a loopbreak was asked for
          exits,      \* event_base: the times of the loopexit timers not yet fired
          todo        \* todo[t]: what is left of the defer() or shutdown() thread t is in

vars == <<clock, pending, when, stamp, stamps, batch, ran, shutdown, pc, block,
          breakFlag, exits, todo>>
queueVars == <<pending, when, stamp, stamps>>
eventVars == <<breakFlag, exits>>

PCs == {"run", "break", "guard1", "enter", "poll", "io", "guard2", "extract", "exec", "fn", "stopped"}
Calls == {"none", "zero", "later", "exit"}

TypeOK == /\ clock \in Nat /\ stamps \in Nat
          /\ pending \subseteq Actions /\ batch \subseteq Actions /\ ran \subseteq Actions
          /\ when \in [Actions -> Nat] /\ stamp \in [Actions -> Nat]
          /\ shutdown \in BOOLEAN /\ block \in BOOLEAN /\ breakFlag \in BOOLEAN
          /\ pc \in PCs
          /\ exits \subseteq Nat
          /\ todo \in [Threads -> Calls]

Init == /\ clock = 0
        /\ pending = {} /\ batch = {} /\ ran = {}
        /\ when = [a \in Actions |-> 0]
        /\ stamp = [a \in Actions |-> 0]
        /\ stamps = 0
        /\ shutdown = FALSE
        /\ pc = "run" /\ block = FALSE
        /\ breakFlag = FALSE /\ exits = {}
        /\ todo = [t \in Threads |-> "none"]

-----------------------------------------------------------------------------
\* The order of a multimap keyed by std::less<timeval>: equal keys stay in the order of insertion.
BeforeLifo(a, b) == when[a] < when[b] \/ (when[a] = when[b] /\ stamp[a] > stamp[b])
Before(a, b) == when[a] < when[b] \/ (when[a] = when[b] /\ stamp[a] < stamp[b])

First(a, S) == a \in S /\ \A b \in S \ {a} : Before(a, b)

\* m_scheduler_mutex is held by a thread that is inside defer().
Locked == \E t \in Threads : todo[t] \in {"zero", "later"}

\* The earliest pending action is due: set_next_break() returns true.
NextIsDue == \E a \in Actions : First(a, pending) /\ when[a] <= clock

\* set_next_break(): break out at once when something is due, else arm a timer for the earliest.
SetNextBreakUnarmed == /\ breakFlag' = (breakFlag \/ NextIsDue)
                       /\ UNCHANGED exits
SetNextBreak ==
    \/ /\ pending = {}
       /\ UNCHANGED eventVars
    \/ \E a \in Actions :
        /\ First(a, pending)
        /\ \/ when[a] <= clock /\ breakFlag' = TRUE /\ UNCHANGED exits
           \/ when[a] > clock /\ exits' = exits \cup {when[a]} /\ UNCHANGED breakFlag

Tick == /\ clock < MaxTime
        /\ clock' = clock + 1
        /\ UNCHANGED <<queueVars, batch, ran, shutdown, pc, block, eventVars, todo>>

-----------------------------------------------------------------------------
(* The loop's own thread.                                                  *)

At(here) == pc = here /\ todo[Owner] = "none"
GoTo(from, to) == At(from) /\ pc' = to

\* while (!m_shutdown) run_once(true);  an application may also poll with run_once(false).
CallRunOnce(b) ==
    /\ ~shutdown
    /\ GoTo("run", "break")
    /\ block' = b
    /\ UNCHANGED <<clock, queueVars, batch, ran, shutdown, eventVars, todo>>

LeaveRun ==
    /\ shutdown
    /\ GoTo("run", "stopped")
    /\ UNCHANGED <<clock, queueVars, batch, ran, shutdown, block, eventVars, todo>>

\* block = !set_next_break() && block;  the mutex is not taken.
LookAhead ==
    /\ GoTo("break", "guard1")
    /\ SetNextBreak
    /\ block' = (block /\ ~NextIsDue)
    /\ UNCHANGED <<clock, queueVars, batch, ran, shutdown, todo>>

\* if (m_shutdown) return;  before and after event_base_loop().
Guard(from, to) ==
    /\ At(from)
    /\ pc' = IF shutdown THEN "run" ELSE to
    /\ UNCHANGED <<clock, queueVars, batch, ran, shutdown, block, eventVars, todo>>

\* event_base_loop(): what was asked for before it is entered is forgotten, timers are not.
EnterLoop ==
    /\ GoTo("enter", "poll")
    /\ breakFlag' = FALSE
    /\ UNCHANGED <<clock, queueVars, batch, ran, shutdown, block, exits, todo>>

Fired == {e \in exits : e <= clock}

\* Dispatch returns without an I/O event: a poll, a break or a loopexit timer.
WakeUp ==
    /\ ~block \/ breakFlag \/ Fired # {}
    /\ GoTo("poll", "guard2")
    /\ exits' = exits \ Fired
    /\ UNCHANGED <<clock, queueVars, batch, ran, shutdown, block, breakFlag, todo>>

\* A socket, a listener or a libevent timer of the application is ready: its callback runs.
IoEvent ==
    /\ GoTo("poll", "io")
    /\ exits' = exits \ Fired
    /\ UNCHANGED <<clock, queueVars, batch, ran, shutdown, block, breakFlag, todo>>

IoReturn ==
    /\ GoTo("io", "guard2")
    /\ UNCHANGED <<clock, queueVars, batch, ran, shutdown, block, eventVars, todo>>

\* Under the mutex, everything due strictly before now is moved to run_now; none ends run_once().
OverdueOrNow == {a \in pending : when[a] <= clock}
Overdue == {a \in pending : when[a] < clock}
Extract ==
    /\ At("extract") /\ ~Locked
    /\ batch' = Overdue
    /\ pending' = pending \ Overdue
    /\ pc' = IF Overdue = {} THEN "run" ELSE "exec"
    /\ UNCHANGED <<clock, when, stamp, stamps, ran, shutdown, block, eventVars, todo>>

\* for (auto const & fn : run_now) fn();
Exec(a) ==
    /\ GoTo("exec", "fn")
    /\ First(a, batch)
    /\ batch' = batch \ {a}
    /\ ran' = ran \cup {a}
    /\ UNCHANGED <<clock, queueVars, shutdown, block, eventVars, todo>>

FnReturn ==
    /\ At("fn")
    /\ pc' = IF batch = {} THEN "extract" ELSE "exec"
    /\ UNCHANGED <<clock, queueVars, batch, ran, shutdown, block, eventVars, todo>>

\* fn() throws: run_now is destroyed and the exception leaves run_once(); the caller may go on.
FnThrow ==
    /\ GoTo("fn", "run")
    /\ batch' = {}
    /\ UNCHANGED <<clock, queueVars, ran, shutdown, block, eventVars, todo>>

-----------------------------------------------------------------------------
(* defer() and shutdown(), from the owner's application code or another thread. *)

MayDefer(t, a) == \/ t \in Others /\ a \in Cross
                  \/ t = Owner /\ a \in Own /\ pc \in {"run", "io", "fn"}

DeferBackdated(t, a, d) ==
    /\ MayDefer(t, a)
    /\ todo[t] = "none" /\ ~Locked
    /\ stamp[a] = 0
    /\ pending' = pending \cup {a}
    /\ when' = [when EXCEPT ![a] = clock - d]
    /\ stamps' = stamps + 1
    /\ stamp' = [stamp EXCEPT ![a] = stamps + 1]
    /\ todo' = [todo EXCEPT ![t] = "none"]
    /\ UNCHANGED <<clock, batch, ran, shutdown, pc, block, eventVars>>

\* defer(), first half: take the mutex, read the clock and insert the action.
Defer(t, a, d) ==
    /\ MayDefer(t, a)
    /\ todo[t] = "none" /\ ~Locked
    /\ stamp[a] = 0 /\ clock + d < MaxTime
    /\ pending' = pending \cup {a}
    /\ when' = [when EXCEPT ![a] = clock + d]
    /\ stamps' = stamps + 1
    /\ stamp' = [stamp EXCEPT ![a] = stamps + 1]
    /\ todo' = [todo EXCEPT ![t] = IF d = 0 THEN "zero" ELSE "later"]
    /\ UNCHANGED <<clock, batch, ran, shutdown, pc, block, eventVars>>

\* defer(), second half: break the loop for a zero delay, set_next_break() otherwise; unlock.
DeferWake(t) ==
    /\ \/ todo[t] = "zero" /\ breakFlag' = TRUE /\ UNCHANGED exits
       \/ todo[t] = "later" /\ SetNextBreak
    /\ todo' = [todo EXCEPT ![t] = "none"]
    /\ UNCHANGED <<clock, queueVars, batch, ran, shutdown, pc, block>>

\* shutdown(), first half: the flag, a plain bool.
Shutdown(t) ==
    /\ t \in Others \/ pc \in {"run", "io", "fn"}
    /\ todo[t] = "none" /\ ~shutdown
    /\ shutdown' = TRUE
    /\ todo' = [todo EXCEPT ![t] = "exit"]
    /\ UNCHANGED <<clock, queueVars, batch, ran, pc, block, eventVars>>

\* shutdown(), second half: event_base_loopexit() with a zero delay.
ShutdownByBreak(t) ==
    /\ todo[t] = "exit"
    /\ breakFlag' = TRUE
    /\ todo' = [todo EXCEPT ![t] = "none"]
    /\ UNCHANGED <<clock, queueVars, batch, ran, shutdown, pc, block, exits>>
ShutdownWake(t) ==
    /\ todo[t] = "exit"
    /\ exits' = exits \cup {clock}
    /\ todo' = [todo EXCEPT ![t] = "none"]
    /\ UNCHANGED <<clock, queueVars, batch, ran, shutdown, pc, block, breakFlag>>

-----------------------------------------------------------------------------
\* What the owner does on its own accord, once it is told to run().
OwnerStep ==
    \/ CallRunOnce(TRUE) \/ LeaveRun
    \/ LookAhead
    \/ Guard("guard1", "enter")
    \/ EnterLoop \/ WakeUp \/ IoReturn
    \/ Guard("guard2", "extract")
    \/ Extract \/ FnReturn
    \/ \E a \in Actions : Exec(a)

Next ==
    \/ Tick
    \/ OwnerStep
    \/ CallRunOnce(FALSE) \/ IoEvent \/ FnThrow
    \/ \E t \in Threads : \/ \E a \in Actions, d \in Delays : Defer(t, a, d)
                          \/ DeferWake(t) \/ Shutdown(t) \/ ShutdownWake(t)

Spec == Init /\ [][Next]_vars

\* Time passes, the callbacks return, and the operating system runs every thread that is in a call.
Fairness == /\ WF_vars(Tick)
            /\ WF_vars(OwnerStep)
            /\ \A t \in Threads : WF_vars(DeferWake(t) \/ ShutdownWake(t))

FairSpec == Spec /\ Fairness

-----------------------------------------------------------------------------
(* Properties.                                                             *)

\* run_once() may go to sleep only if a timer is armed no later than the earliest action its own
\* thread deferred: set_next_break() armed one, and nothing it called since has used it up.
NoOversleep ==
    pc \in {"guard1", "enter", "poll"} /\ block =>
        \A a \in pending \cap Own : \E e \in exits : e <= when[a]

\* A shutdown() that has returned is never slept through, whatever step of run_once() it fell on.
ShutdownNotLost ==
    pc \in {"enter", "poll"} /\ shutdown =>
        \/ \E t \in Threads : todo[t] = "exit"
        \/ \E e \in exits : e <= clock

\* run_now never holds an action that should run after one still in m_pending_actions, however
\* threads insert while run_now is being called, nor one that is not strictly overdue.
BatchFirst ==
    /\ \A a \in batch : when[a] < clock
    /\ \A a \in batch, b \in pending : Before(a, b)

\* The loop runs, drops and delays actions only as Deferral allows.
Abstract == INSTANCE Deferral WITH now <- clock, due <- when, order <- stamp,
                                   queue <- pending \cup batch
ImplementsDeferral == Abstract!Spec

\* An action the loop's own thread deferred is run, unless the loop is shut down or an action
\* of the same batch throws.
OwnDeferredRuns == \A a \in Own : a \in pending ~> (a \notin pending \cup batch \/ shutdown)

\* run() returns after shutdown(), whichever thread called it and whenever.
ShutdownStops == shutdown ~> pc = "stopped"

\* The same promise for an action another thread deferred, as test/src/basic.cpp:68-78 needs it:
\* the loop does not sleep, every call to it finished, past an action that thread deferred.
CrossDeferIsNotLost ==
    pc = "poll" /\ block /\ ~breakFlag /\ ~Locked =>
        \A a \in pending \cap Cross : \E e \in exits : e <= when[a]
=============================================================================
