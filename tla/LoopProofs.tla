----------------------------- MODULE LoopProofs -----------------------------
(***************************************************************************)
(* Proofs about Loop, for any actions, threads, delays and length of time, *)
(* and about the arithmetic on time that lets it use numbers.              *)
(***************************************************************************)
EXTENDS Loop, TimeVal, TLAPS

-----------------------------------------------------------------------------
(* What Loop does on struct timeval is arithmetic.                         *)

LEMMA UsecPositive == USEC \in Nat \ {0}
  BY SMT DEF USEC

\* Whole seconds outweigh any microseconds.
LEMMA SecondsDominate ==
    ASSUME NEW t1 \in TimeVal, NEW t2 \in TimeVal, t1.tv_sec < t2.tv_sec
    PROVE  Micros(t1) < Micros(t2)
<1>1. (t1.tv_sec + 1) * USEC <= t2.tv_sec * USEC
  BY SMT, UsecPositive DEF TimeVal
<1>2. (t1.tv_sec + 1) * USEC = t1.tv_sec * USEC + USEC
  BY SMT, UsecPositive DEF TimeVal
<1>3. t1.tv_sec * USEC \in Nat /\ t2.tv_sec * USEC \in Nat
  BY SMT, UsecPositive DEF TimeVal
<1> QED
  BY SMT, <1>1, <1>2, <1>3, UsecPositive DEF TimeVal, Micros

\* The order of m_pending_actions is the order of time.
THEOREM LessIsEarlier ==
    ASSUME NEW t1 \in TimeVal, NEW t2 \in TimeVal
    PROVE  Less(t1, t2) <=> Micros(t1) < Micros(t2)
  BY SMT, UsecPositive, SecondsDominate DEF TimeVal, Less, Micros

\* defer() adds the delay exactly and keeps the key normalised, so that Less still orders it.
THEOREM WhenIsSum ==
    ASSUME NEW now \in TimeVal, NEW seconds \in TimeVal
    PROVE  /\ When(now, seconds) \in TimeVal
           /\ Micros(When(now, seconds)) = Micros(now) + Micros(seconds)
  BY SMT, UsecPositive DEF TimeVal, When, Micros

\* set_next_break() breaks out exactly for what is due, the instant itself included.
THEOREM IsDueIsReached ==
    ASSUME NEW t \in TimeVal, NEW now \in TimeVal
    PROVE  IsDue(t, now) <=> Micros(t) <= Micros(now)
  BY SMT, UsecPositive, SecondsDominate DEF TimeVal, IsDue, Borrowed, Micros

\* Otherwise it asks for the exact interval.  Its tv_usec may be a whole second, which is not
\* normalised and which only event_base_loopexit() adding it to a time puts right.
THEOREM WaitIsDifference ==
    ASSUME NEW t \in TimeVal, NEW now \in TimeVal, ~IsDue(t, now)
    PROVE  /\ Wait(t, now).tv_sec \in Nat /\ Wait(t, now).tv_usec \in 1 .. USEC
           /\ Micros(Wait(t, now)) = Micros(t) - Micros(now)
           /\ Micros(Wait(t, now)) > 0
           /\ (Wait(t, now).tv_usec = USEC <=> t.tv_usec = now.tv_usec)
<1>1. /\ Wait(t, now).tv_sec \in Nat /\ Wait(t, now).tv_usec \in 1 .. USEC
      /\ (Wait(t, now).tv_usec = USEC <=> t.tv_usec = now.tv_usec)
  BY SMT, UsecPositive DEF TimeVal, IsDue, Wait, Borrowed
<1>2. Micros(Wait(t, now)) = Micros(t) - Micros(now)
  <2>1. CASE t.tv_usec <= now.tv_usec
    <3>1. (t.tv_sec - 1 - now.tv_sec) * USEC = t.tv_sec * USEC - USEC - now.tv_sec * USEC
      BY SMT, UsecPositive DEF TimeVal
    <3> QED
      BY SMT, <2>1, <3>1, UsecPositive DEF TimeVal, Wait, Borrowed, Micros
  <2>2. CASE t.tv_usec > now.tv_usec
    BY SMT, <2>2, UsecPositive DEF TimeVal, Wait, Borrowed, Micros
  <2> QED
    BY SMT, <2>1, <2>2, UsecPositive DEF TimeVal
<1>3. Micros(t) > Micros(now)
  BY SMT, IsDueIsReached, UsecPositive DEF TimeVal, Micros
<1> QED
  BY SMT, <1>1, <1>2, <1>3, UsecPositive DEF TimeVal, Micros

-----------------------------------------------------------------------------
(* The loop.                                                               *)

\* run_now is empty except between its extraction and the return of its last action, and the
\* insertions are numbered: what makes BatchFirst and the refinement inductive.
Bookkeeping == /\ pc \notin {"exec", "fn"} => batch = {}
               /\ \A a \in Actions : stamp[a] <= stamps
               /\ \A a \in pending \cup batch : stamp[a] > 0

Inv == TypeOK /\ NoOversleep /\ ShutdownNotLost /\ BatchFirst /\ Bookkeeping

-----------------------------------------------------------------------------
\* Type correctness is inductive by itself.
LEMMA TypeInit == Init => TypeOK
<1> SUFFICES ASSUME Init PROVE TypeOK
  OBVIOUS
<1>1. when \in [Actions -> Nat] /\ stamp \in [Actions -> Nat]
  BY DEF Init
<1>2. todo \in [Threads -> Calls]
  BY DEF Init, Calls
<1> QED
  BY <1>1, <1>2 DEF Init, TypeOK, PCs

LEMMA TypeStep == TypeOK /\ [Next]_vars => TypeOK'
<1> SUFFICES ASSUME TypeOK, [Next]_vars PROVE TypeOK'
  OBVIOUS
<1> USE LoopAssumption DEF TypeOK, PCs, Calls, queueVars, eventVars, GoTo, At, Actions, Threads
<1>1. CASE Tick
  BY <1>1 DEF Tick
<1>2. ASSUME NEW b \in BOOLEAN, CallRunOnce(b) PROVE TypeOK'
  BY <1>2 DEF CallRunOnce
<1>3. CASE LeaveRun
  BY <1>3 DEF LeaveRun
<1>4. CASE LookAhead
  <2>1. exits' \subseteq Nat /\ breakFlag' \in BOOLEAN
    BY <1>4 DEF LookAhead, SetNextBreak
  <2>2. block' \in BOOLEAN
    BY <1>4 DEF LookAhead
  <2> QED
    BY <1>4, <2>1, <2>2 DEF LookAhead
<1>5. CASE Guard("guard1", "enter") \/ Guard("guard2", "extract")
  BY <1>5 DEF Guard
<1>6. CASE EnterLoop \/ WakeUp \/ IoEvent \/ IoReturn
  BY <1>6 DEF EnterLoop, WakeUp, IoEvent, IoReturn, Fired
<1>7. CASE Extract
  BY <1>7 DEF Extract, Overdue
<1>8. ASSUME NEW a \in Actions, Exec(a) PROVE TypeOK'
  BY <1>8 DEF Exec
<1>9. CASE FnReturn \/ FnThrow
  BY <1>9 DEF FnReturn, FnThrow
<1>10. ASSUME NEW t \in Threads, NEW a \in Actions, NEW d \in Delays, Defer(t, a, d) PROVE TypeOK'
  <2>1. clock + d \in Nat /\ stamps + 1 \in Nat
    OBVIOUS
  <2>2. when' \in [Actions -> Nat] /\ stamp' \in [Actions -> Nat]
    BY <1>10, <2>1 DEF Defer
  <2> QED
    BY <1>10, <2>1, <2>2 DEF Defer
<1>11. ASSUME NEW t \in Threads, DeferWake(t) PROVE TypeOK'
  <2>1. exits' \subseteq Nat /\ breakFlag' \in BOOLEAN
    BY <1>11 DEF DeferWake, SetNextBreak
  <2> QED
    BY <1>11, <2>1 DEF DeferWake
<1>12. ASSUME NEW t \in Threads, Shutdown(t) \/ ShutdownWake(t) PROVE TypeOK'
  BY <1>12 DEF Shutdown, ShutdownWake
<1>13. CASE UNCHANGED vars
  BY <1>13 DEF vars
<1> QED
  BY <1>1, <1>2, <1>3, <1>4, <1>5, <1>6, <1>7, <1>8, <1>9, <1>10, <1>11, <1>12, <1>13
     DEF Next, OwnerStep

\* Every variable keeps its type: the clock and the keys of m_pending_actions stay naturals,
\* the cycle stays within its steps, whatever threads call.
THEOREM LoopTypeCorrect == Spec => []TypeOK
  BY TypeInit, TypeStep, PTL DEF Spec

-----------------------------------------------------------------------------
LEMMA InvInit == Init => Inv
  BY TypeInit DEF Init, Inv, NoOversleep, ShutdownNotLost, BatchFirst, Bookkeeping

\* A sleep is always covered by a timer for the earliest action of the loop's own thread.
LEMMA NoOversleepStep == TypeOK /\ NoOversleep /\ Next => NoOversleep'
<1> SUFFICES ASSUME TypeOK, NoOversleep, Next PROVE NoOversleep'
  OBVIOUS
<1> USE LoopAssumption DEF NoOversleep, queueVars, eventVars, GoTo, At
<1>1. CASE Tick
  BY <1>1 DEF Tick
<1>2. ASSUME NEW b \in BOOLEAN, CallRunOnce(b) PROVE NoOversleep'
  BY <1>2 DEF CallRunOnce
<1>3. CASE LeaveRun
  BY <1>3 DEF LeaveRun
<1>4. CASE LookAhead
  <2> SUFFICES ASSUME block', NEW a \in pending \cap Own
               PROVE \E e \in exits' : e <= when[a]
    BY <1>4 DEF LookAhead
  <2>1. PICK h \in Actions : First(h, pending) /\ exits' = exits \cup {when[h]}
    BY <1>4 DEF LookAhead, SetNextBreak, NextIsDue, TypeOK
  <2>2. when[h] <= when[a]
    BY <2>1 DEF First, Before, TypeOK, Actions
  <2> QED
    BY <2>1, <2>2
<1>5. CASE Guard("guard1", "enter") \/ Guard("guard2", "extract")
  BY <1>5 DEF Guard
<1>6. CASE EnterLoop \/ WakeUp \/ IoEvent \/ IoReturn
  BY <1>6 DEF EnterLoop, WakeUp, IoEvent, IoReturn
<1>7. CASE Extract
  BY <1>7 DEF Extract
<1>8. ASSUME NEW a \in Actions, Exec(a) PROVE NoOversleep'
  BY <1>8 DEF Exec
<1>9. CASE FnReturn \/ FnThrow
  BY <1>9 DEF FnReturn, FnThrow
<1>10. ASSUME NEW t \in Threads, NEW a \in Actions, NEW d \in Delays, Defer(t, a, d)
       PROVE NoOversleep'
  <2>1. CASE t = Owner
    BY <1>10, <2>1 DEF Defer, MayDefer
  <2>2. CASE t # Owner
    <3>1. a \notin Own
      BY <1>10, <2>2 DEF Defer, MayDefer, Threads
    <3> QED
      BY <1>10, <3>1 DEF Defer, TypeOK
  <2> QED
    BY <2>1, <2>2
<1>11. ASSUME NEW t \in Threads, DeferWake(t) PROVE NoOversleep'
  BY <1>11 DEF DeferWake, SetNextBreak
<1>12. ASSUME NEW t \in Threads, Shutdown(t) \/ ShutdownWake(t) PROVE NoOversleep'
  BY <1>12 DEF Shutdown, ShutdownWake
<1> QED
  BY <1>1, <1>2, <1>3, <1>4, <1>5, <1>6, <1>7, <1>8, <1>9, <1>10, <1>11, <1>12
     DEF Next, OwnerStep

\* Once shutdown() has set the flag, either its timer is still to come or it is armed and due.
LEMMA ShutdownStep == TypeOK /\ ShutdownNotLost /\ Next => ShutdownNotLost'
<1> SUFFICES ASSUME TypeOK, ShutdownNotLost, Next PROVE ShutdownNotLost'
  OBVIOUS
<1> USE DEF ShutdownNotLost, queueVars, eventVars, GoTo, At
<1>1. CASE Tick
  BY <1>1 DEF Tick, TypeOK
<1>2. ASSUME NEW b \in BOOLEAN, CallRunOnce(b) PROVE ShutdownNotLost'
  BY <1>2 DEF CallRunOnce
<1>3. CASE LeaveRun \/ LookAhead
  BY <1>3 DEF LeaveRun, LookAhead
<1>4. CASE Guard("guard1", "enter") \/ Guard("guard2", "extract")
  BY <1>4 DEF Guard
<1>5. CASE EnterLoop \/ WakeUp \/ IoEvent \/ IoReturn
  BY <1>5 DEF EnterLoop, WakeUp, IoEvent, IoReturn
<1>6. CASE Extract
  BY <1>6 DEF Extract
<1>7. ASSUME NEW a \in Actions, Exec(a) PROVE ShutdownNotLost'
  BY <1>7 DEF Exec
<1>8. CASE FnReturn \/ FnThrow
  BY <1>8 DEF FnReturn, FnThrow
<1>9. ASSUME NEW t \in Threads, NEW a \in Actions, NEW d \in Delays, Defer(t, a, d)
      PROVE ShutdownNotLost'
  BY <1>9 DEF Defer, TypeOK
<1>10. ASSUME NEW t \in Threads, DeferWake(t) PROVE ShutdownNotLost'
  BY <1>10 DEF DeferWake, SetNextBreak, TypeOK
<1>11. ASSUME NEW t \in Threads, Shutdown(t) PROVE ShutdownNotLost'
  <2>1. todo'[t] = "exit"
    BY <1>11 DEF Shutdown, TypeOK
  <2> QED
    BY <2>1
<1>12. ASSUME NEW t \in Threads, ShutdownWake(t) PROVE ShutdownNotLost'
  <2>1. clock \in exits' /\ clock' = clock
    BY <1>12 DEF ShutdownWake
  <2> QED
    BY <2>1 DEF TypeOK
<1> QED
  BY <1>1, <1>2, <1>3, <1>4, <1>5, <1>6, <1>7, <1>8, <1>9, <1>10, <1>11, <1>12
     DEF Next, OwnerStep

\* Everything in run_now precedes everything still pending.
LEMMA BatchStep == Inv /\ Next => BatchFirst' /\ Bookkeeping'
<1> SUFFICES ASSUME Inv, Next PROVE BatchFirst' /\ Bookkeeping'
  OBVIOUS
<1> USE DEF Inv, BatchFirst, Bookkeeping, queueVars, eventVars, GoTo, At, Before
<1>1. CASE Tick
  BY <1>1 DEF Tick, TypeOK
<1>2. ASSUME NEW b \in BOOLEAN, CallRunOnce(b) PROVE BatchFirst' /\ Bookkeeping'
  BY <1>2 DEF CallRunOnce
<1>3. CASE LeaveRun \/ LookAhead
  BY <1>3 DEF LeaveRun, LookAhead
<1>4. CASE Guard("guard1", "enter") \/ Guard("guard2", "extract")
  BY <1>4 DEF Guard
<1>5. CASE EnterLoop \/ WakeUp \/ IoEvent \/ IoReturn
  BY <1>5 DEF EnterLoop, WakeUp, IoEvent, IoReturn
<1>6. CASE Extract
  <2>1. \A a \in pending' : when[a] >= clock
    BY <1>6 DEF Extract, Overdue, TypeOK
  <2>2. \A a \in batch' : a \in Actions /\ when[a] < clock
    BY <1>6 DEF Extract, Overdue, TypeOK
  <2>3. BatchFirst'
    BY <1>6, <2>1, <2>2 DEF Extract, TypeOK
  <2>4. Bookkeeping'
    BY <1>6 DEF Extract, Overdue
  <2> QED
    BY <2>3, <2>4
<1>7. ASSUME NEW a \in Actions, Exec(a) PROVE BatchFirst' /\ Bookkeeping'
  BY <1>7 DEF Exec
<1>8. CASE FnReturn \/ FnThrow
  BY <1>8 DEF FnReturn, FnThrow
<1>9. ASSUME NEW t \in Threads, NEW a \in Actions, NEW d \in Delays, Defer(t, a, d)
      PROVE BatchFirst' /\ Bookkeeping'
  <2>1. when'[a] \in Nat /\ when'[a] >= clock /\ stamp'[a] = stamps + 1 /\ pending' = pending \cup {a}
    BY <1>9, LoopAssumption DEF Defer, TypeOK
  <2>2. \A b \in Actions \ {a} : when'[b] = when[b] /\ stamp'[b] = stamp[b]
    BY <1>9 DEF Defer, TypeOK
  <2>3. Bookkeeping'
    <3>1. \A b \in Actions : stamp'[b] <= stamps'
      BY <1>9, <2>1, <2>2 DEF Defer, TypeOK
    <3>2. \A b \in pending' \cup batch' : stamp'[b] > 0
      BY <1>9, <2>1, <2>2 DEF Defer, TypeOK
    <3> QED
      BY <1>9, <3>1, <3>2 DEF Defer
  <2>4. a \notin batch
    BY <1>9 DEF Defer, TypeOK
  <2>5. BatchFirst'
    <3>1. \A b \in batch : b \in Actions /\ b # a /\ when'[b] = when[b] /\ when[b] < clock
      BY <2>2, <2>4 DEF TypeOK
    <3>2. \A b \in batch : when'[b] < when'[a]
      BY <2>1, <3>1 DEF TypeOK
    <3>3. \A b \in batch, c \in pending' : Before(b, c)'
      <4> SUFFICES ASSUME NEW b \in batch, NEW c \in pending \cup {a} PROVE Before(b, c)'
        BY <2>1
      <4>1. CASE c = a
        BY <3>2, <4>1
      <4>2. CASE c # a
        BY <2>2, <3>1, <4>2 DEF TypeOK
      <4> QED
        BY <4>1, <4>2
    <3> QED
      BY <1>9, <3>1, <3>3 DEF Defer
  <2> QED
    BY <2>3, <2>5
<1>10. ASSUME NEW t \in Threads, DeferWake(t) \/ Shutdown(t) \/ ShutdownWake(t)
       PROVE BatchFirst' /\ Bookkeeping'
  BY <1>10 DEF DeferWake, Shutdown, ShutdownWake
<1> QED
  BY <1>1, <1>2, <1>3, <1>4, <1>5, <1>6, <1>7, <1>8, <1>9, <1>10 DEF Next, OwnerStep

LEMMA InvStep == Inv /\ [Next]_vars => Inv'
<1> SUFFICES ASSUME Inv, [Next]_vars PROVE Inv'
  OBVIOUS
<1>1. CASE Next
  BY <1>1, TypeStep, NoOversleepStep, ShutdownStep, BatchStep DEF Inv
<1>2. CASE UNCHANGED vars
  <2>1. TypeOK'
    BY <1>2, TypeStep DEF Inv
  <2>2. NoOversleep' /\ ShutdownNotLost' /\ BatchFirst' /\ Bookkeeping'
    BY <1>2 DEF vars, Inv, NoOversleep, ShutdownNotLost, BatchFirst, Bookkeeping, Before
  <2> QED
    BY <2>1, <2>2 DEF Inv
<1> QED
  BY <1>1, <1>2

LEMMA Invariance == Spec => []Inv
  BY InvInit, InvStep, PTL DEF Spec

\* run_once() never sleeps past the earliest action its own thread deferred: the look at
\* m_pending_actions without the mutex is enough for those.
THEOREM LoopNoOversleep == Spec => []NoOversleep
  BY Invariance, PTL DEF Inv

\* A shutdown() from any thread is seen before run_once() can sleep, or wakes it.
THEOREM LoopShutdownNotLost == Spec => []ShutdownNotLost
  BY Invariance, PTL DEF Inv

\* The actions taken out of m_pending_actions are overdue and all precede those left in it.
THEOREM LoopBatchFirst == Spec => []BatchFirst
  BY Invariance, PTL DEF Inv

-----------------------------------------------------------------------------
(* Loop implements Deferral.                                               *)

LEMMA AbstractInit == Init => Abstract!Init
  BY DEF Init, Abstract!Init

LEMMA AbstractStep == Inv /\ [Next]_vars => [Abstract!Next]_(Abstract!vars)
<1> SUFFICES ASSUME Inv, [Next]_vars PROVE Abstract!Next \/ UNCHANGED Abstract!vars
  OBVIOUS
<1> USE DEF Inv, queueVars, eventVars, GoTo, At, Abstract!vars
<1>1. CASE Tick
  BY <1>1 DEF Tick, Abstract!Next, Abstract!Tick
<1>2. ASSUME NEW b \in BOOLEAN, CallRunOnce(b) PROVE UNCHANGED Abstract!vars
  BY <1>2 DEF CallRunOnce
<1>3. CASE LeaveRun \/ LookAhead
  BY <1>3 DEF LeaveRun, LookAhead
<1>4. CASE Guard("guard1", "enter") \/ Guard("guard2", "extract")
  BY <1>4 DEF Guard
<1>5. CASE EnterLoop \/ WakeUp \/ IoEvent \/ IoReturn
  BY <1>5 DEF EnterLoop, WakeUp, IoEvent, IoReturn
<1>6. CASE Extract
  <2>1. batch = {}
    BY <1>6 DEF Extract, Bookkeeping
  <2> QED
    BY <1>6, <2>1 DEF Extract, Overdue
<1>7. ASSUME NEW a \in Actions, Exec(a) PROVE Abstract!Next
  <2>1. a \in batch /\ when[a] < clock /\ a \notin pending
    BY <1>7 DEF Exec, First, BatchFirst, Before, TypeOK
  <2>2. \A b \in (pending \cup batch) \ {a} : Abstract!Before(a, b)
    BY <1>7, <2>1 DEF Exec, First, BatchFirst, Before, Abstract!Before
  <2>3. Abstract!Run(a)
    BY <1>7, <2>1, <2>2 DEF Exec, Abstract!Run
  <2> QED
    BY <2>3 DEF Abstract!Next
<1>8. CASE FnReturn
  BY <1>8 DEF FnReturn
<1>9. CASE FnThrow
  <2>1. \A a \in batch, b \in (pending \cup batch) \ batch : Abstract!Before(a, b)
    BY DEF BatchFirst, Before, Abstract!Before
  <2>2. batch \cap pending = {}
    BY DEF BatchFirst, Before, TypeOK
  <2>3. Abstract!Abandon(batch)
    BY <1>9, <2>1, <2>2 DEF FnThrow, BatchFirst, Abstract!Abandon
  <2>4. batch \in SUBSET (pending \cup batch)
    OBVIOUS
  <2> QED
    BY <2>3, <2>4 DEF Abstract!Next
<1>10. ASSUME NEW t \in Threads, NEW a \in Actions, NEW d \in Delays, Defer(t, a, d)
       PROVE Abstract!Next
  <2>1. when' = [when EXCEPT ![a] = when'[a]] /\ when'[a] >= clock
    BY <1>10, LoopAssumption DEF Defer, TypeOK
  <2>2. stamp' = [stamp EXCEPT ![a] = stamp'[a]] /\ \A b \in Actions : stamp[b] < stamp'[a]
    BY <1>10 DEF Defer, TypeOK, Bookkeeping
  <2>3. Abstract!Schedule(a)
    BY <1>10, <2>1, <2>2 DEF Defer, Abstract!Schedule
  <2> QED
    BY <2>3 DEF Abstract!Next
<1>11. ASSUME NEW t \in Threads, DeferWake(t) \/ Shutdown(t) \/ ShutdownWake(t)
       PROVE UNCHANGED Abstract!vars
  BY <1>11 DEF DeferWake, Shutdown, ShutdownWake
<1>12. CASE UNCHANGED vars
  BY <1>12 DEF vars
<1> QED
  BY <1>1, <1>2, <1>3, <1>4, <1>5, <1>6, <1>7, <1>8, <1>9, <1>10, <1>11, <1>12
     DEF Next, OwnerStep

\* The loop, with its unlocked look-ahead, its batches and its callers on other threads, runs
\* actions only as Deferral allows: each at most once, not early, in the order they fall due.
THEOREM LoopImplementsDeferral == Spec => ImplementsDeferral
  BY Invariance, AbstractInit, AbstractStep, PTL DEF Spec, ImplementsDeferral, Abstract!Spec
=============================================================================
