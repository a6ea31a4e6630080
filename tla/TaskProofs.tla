----------------------------- MODULE TaskProofs -----------------------------
(***************************************************************************)
(* Proofs about Task, for any loops and programs.                          *)
(***************************************************************************)
EXTENDS Task, SequenceFacts

\* The coroutines that may run on loop l.
Own(l) == {c \in Coroutines : c[1] = "task" => home(c[2]) = l}

\* Every stack has what may run there, and so has what goes on when a task ends: a wrapper may run
\* anywhere, and the dummy of a race is at home where the tasks raced are.
Stacks == stack = [l \in Loops |-> stack[l]] /\ \A l \in Loops : stack[l] \in Seq(Own(l))
Parents == /\ parent = [t \in Tasks |-> parent[t]]
           /\ \A t \in Tasks : parent[t] \in Own(home(t)) \cup {None}

Inv == program \in Programs /\ Stacks /\ Parents

-----------------------------------------------------------------------------
LEMMA InvInit == Init => Inv
  BY DEF Init, Inv, Stacks, Parents

LEMMA Runs ==
    ASSUME Inv, NEW l \in Loops, NEW t \in Tasks, Running(l, "task", t)
    PROVE  home(t) = l
<1>1. stack[l] # <<>> /\ stack[l] \in Seq(Own(l)) /\ Head(stack[l]) = <<"task", t>>
  BY DEF Running, Inv, Stacks
<1>2. <<"task", t>> \in Own(l)
  BY <1>1
<1> QED
  BY <1>2 DEF Own

\* What is put on top of a stack, or instead of what is there, has to be at home there.
LEMMA StackMoves ==
    ASSUME Inv, program' = program, NEW l \in Loops,
           \/ UNCHANGED stack
           \/ Pop(l) /\ stack[l] # <<>>
           \/ \E c \in Own(l) : Push(l, c) \/ (Switch(l, c) /\ stack[l] # <<>>)
    PROVE  Stacks'
<1>1. \A m \in Loops : Own(m)' = Own(m)
  BY DEF Own, home
<1>2. stack = [m \in Loops |-> stack[m]] /\ \A m \in Loops : stack[m] \in Seq(Own(m))
  BY DEF Inv, Stacks
<1>3. CASE UNCHANGED stack
  BY <1>1, <1>2, <1>3 DEF Stacks
<1>4. CASE Pop(l) /\ stack[l] # <<>>
  <2>1. Tail(stack[l]) \in Seq(Own(l))
    BY <1>2, <1>4
  <2> QED
    BY <1>1, <1>2, <1>4, <2>1 DEF Pop, Stacks
<1>5. ASSUME NEW c \in Own(l), Push(l, c) PROVE Stacks'
  <2>1. <<c>> \o stack[l] \in Seq(Own(l))
    BY <1>2
  <2> QED
    BY <1>1, <1>2, <1>5, <2>1 DEF Push, Stacks
<1>6. ASSUME NEW c \in Own(l), Switch(l, c), stack[l] # <<>> PROVE Stacks'
  <2>1. <<c>> \o Tail(stack[l]) \in Seq(Own(l))
    BY <1>2, <1>6
  <2> QED
    BY <1>1, <1>2, <1>6, <2>1 DEF Switch, Stacks
<1> QED
  BY <1>3, <1>4, <1>5, <1>6

LEMMA ParentsStay == Inv /\ program' = program /\ UNCHANGED parent => Parents'
  BY DEF Inv, Parents, Own, home

LEMMA TaskIsOwn == \A l \in Loops, t \in Tasks : same_loop(l, t) => <<"task", t>> \in Own(l)
  BY DEF Own, same_loop, Coroutines

-----------------------------------------------------------------------------
\* One case for each action: what it does to the stack of its loop, and to the parents.
LEMMA InvStep == Inv /\ [Next]_vars => Inv'
<1> SUFFICES ASSUME Inv, Next PROVE Inv'
  BY DEF vars, control, Inv, Stacks, Parents, Own, home
<1> PICK l \in Loops : ThreadStep(l)
  BY DEF Next
<1>p. IsProgram(program)
  BY TaskAssumption DEF Inv
<1>a. ASSUME program' = program, UNCHANGED parent, Stacks' PROVE Inv'
  BY <1>a, ParentsStay DEF Inv
<1>b. \A t \in Tasks : <<"wrapper", t>> \in Own(l)
  BY DEF Own, Coroutines
<1>c. ASSUME program' = program, UNCHANGED parent, UNCHANGED stack PROVE Inv'
  BY <1>a, <1>c, StackMoves
<1>1. CASE run_task(l)
  <2>1. program.root \in Tasks
    BY <1>p DEF IsProgram
  <2> QED
    BY <1>1, <2>1, <1>a, StackMoves, TaskIsOwn DEF run_task, start
<1> SUFFICES ASSUME NEW t \in Tasks,
                    \/ RunDeferred(l, t) \/ Sleep(l, t) \/ Await(l, t) \/ Return(l, t) \/ FinalSuspend(l, t)
                    \/ Skip(l, t) \/ Instant(l, t) \/ Detach(l, t) \/ Choose(l, t)
                    \/ Ask(l, t) \/ Deliver(l, t) \/ WrapperEnds(l, t)
                    \/ \E c \in Tasks : Start(l, t, c) \/ Attach(l, t, c) \/ AskAndResume(l, t, c)
             PROVE  Inv'
  BY <1>1 DEF ThreadStep
<1>2. CASE RunDeferred(l, t)
  BY <1>2, <1>a, <1>c, StackMoves, TaskIsOwn DEF RunDeferred, same_loop
<1>3. CASE Sleep(l, t)
  BY <1>3, <1>a, StackMoves DEF Sleep, In, Does, Running
<1>4. CASE Await(l, t)
  BY <1>4, <1>a, <1>b, StackMoves DEF Await, Does, In, Running
<1>5. CASE Return(l, t)
  BY <1>5, <1>c DEF Return, control
<1>6. CASE FinalSuspend(l, t)
  <2>1. home(t) = l /\ stack[l] # <<>>
    BY <1>6, Runs DEF FinalSuspend, Running
  <2>2. parent[t] \in Own(l) \cup {None}
    BY <2>1 DEF Inv, Parents
  <2>3. CASE parent[t] = None
    BY <1>6, <2>1, <2>3, <1>a, StackMoves DEF FinalSuspend, Continue, Ends, None
  <2>4. CASE parent[t] \in Own(l)
    <3>1. parent[t][1] \in {"task", "wrapper"}
      BY <2>4 DEF Own, Coroutines
    <3>2. Switch(l, parent[t])
      BY <1>6, <3>1 DEF FinalSuspend, Continue
    <3> QED
      BY <1>6, <2>1, <2>4, <3>2, <1>a, StackMoves DEF FinalSuspend
  <2> QED
    BY <2>2, <2>3, <2>4
<1>7. CASE Skip(l, t) \/ Instant(l, t) \/ Choose(l, t)
  BY <1>7, <1>c DEF Skip, Instant, Choose, Other, control
<1>8. CASE Detach(l, t)
  <2>1. program' = program /\ UNCHANGED stack
    BY <1>8 DEF Detach, Other, control
  <2>2. Parents'
    BY <1>8, <2>1 DEF Detach, Inv, Parents, Own, home
  <2> QED
    BY <2>1, <2>2, StackMoves DEF Inv
<1>9. CASE Ask(l, t)
  <2>1. program' = program /\ UNCHANGED stack
    BY <1>9 DEF Ask
  <2>2. Parents'
    <3>1. \A c \in Tasks : <<"wrapper", t>> \in Own(home(c))
      BY DEF Own, Coroutines
    <3>2. UNCHANGED parent \/ parent' = [parent EXCEPT ![Awaited(t)] = <<"wrapper", t>>]
      BY <1>9 DEF Ask
    <3> QED
      BY <2>1, <3>1, <3>2 DEF Inv, Parents, Own, home
  <2> QED
    BY <2>1, <2>2, StackMoves DEF Inv
<1>10. CASE Deliver(l, t)
  BY <1>10, <1>c DEF Deliver
<1>11. CASE WrapperEnds(l, t)
  BY <1>11, <1>a, StackMoves, TaskIsOwn DEF WrapperEnds, InWrapper, Running
<1>12. ASSUME NEW c \in Tasks, Start(l, t, c) PROVE Inv'
  BY <1>12, <1>a, StackMoves, TaskIsOwn DEF Start, start
<1>13. ASSUME NEW c \in Tasks, Attach(l, t, c) PROVE Inv'
  <2>1. program' = program /\ UNCHANGED stack
    BY <1>13 DEF Attach, Other, control
  <2>2. \A b \in Tasks : b \in ToSet(List(t)) \cup {program.race[t].timer} => home(b) = home(c)
    <3>1. c \in Raced(program.race[t]) /\ \A b \in Raced(program.race[t]) : home(b) = home(t)
      BY <1>13, <1>p, TaskAssumption DEF Attach, IsProgram, Raced, home
    <3> QED
      BY <3>1, TaskAssumption DEF Raced, List
  <2>3. \A b \in Tasks : home(b) = home(c) => <<"task", c>> \in Own(home(b))
    BY DEF Own, Coroutines
  <2>4. Parents'
    BY <1>13, <2>1, <2>2, <2>3 DEF Attach, Inv, Parents, Own, home
  <2> QED
    BY <2>1, <2>4, StackMoves DEF Inv
<1>14. ASSUME NEW c \in Tasks, AskAndResume(l, t, c) PROVE Inv'
  BY <1>14, <1>a, <1>c, StackMoves, TaskIsOwn DEF AskAndResume, InWrapper, Running
<1> QED
  BY <1>2, <1>3, <1>4, <1>5, <1>6, <1>7, <1>8, <1>9, <1>10, <1>11, <1>12, <1>13, <1>14

\* Whichever thread completed what a task awaited, raced or gathered, its body goes on at home, in
\* every program that races what is on one loop.
THEOREM RunsAtHomeHolds == Spec => []RunsAtHome
<1>1. Inv => RunsAtHome
  <2> SUFFICES ASSUME Inv, NEW l \in Loops, NEW t \in Tasks, <<"task", t>> \in Frames(l)
               PROVE  home(t) = l
    BY DEF RunsAtHome
  <2>1. PICK i \in DOMAIN stack[l] : stack[l][i] = <<"task", t>>
    BY DEF Frames, ToSet
  <2>2. stack[l] \in Seq(Own(l))
    BY DEF Inv, Stacks
  <2>3. <<"task", t>> \in Own(l)
    BY <2>1, <2>2
  <2> QED
    BY <2>3 DEF Own
<1> QED
  BY <1>1, InvInit, InvStep, PTL DEF Spec

-----------------------------------------------------------------------------
(* Types.                                                                  *)

\* A task that awaits is at its co_await, so that what it awaits is a task.
Awaits == \A t \in Tasks : state[t] = "awaiting" => at[t] <= Len(program.body[t]) /\ Now(t).do = "await"

BodiesOK == /\ state \in [Tasks -> States] /\ at \in [Tasks -> Nat \ {0}]
            /\ threw \subseteq Tasks /\ early \subseteq Tasks /\ gone \subseteq Tasks
            /\ Awaits

RestOK == /\ deferred \in [Tasks -> Nat] /\ wrapper \in [Tasks -> Wrappers]
          /\ won \in [Tasks -> Tasks \cup {NoTask}] /\ begun \in BOOLEAN
          /\ caught \subseteq Tasks /\ slept \subseteq Tasks /\ started \subseteq Tasks
          /\ timedout \subseteq Tasks /\ taken \subseteq Tasks /\ hollow \subseteq Tasks

IInv == Inv /\ BodiesOK /\ RestOK

LEMMA TypesInit == Init => BodiesOK /\ RestOK
<1> SUFFICES ASSUME Init PROVE BodiesOK /\ RestOK
  OBVIOUS
<1>1. BodiesOK
  BY DEF Init, BodiesOK, Awaits, States
<1>2. RestOK
  BY DEF Init, RestOK, Wrappers
<1> QED
  BY <1>1, <1>2

LEMMA InstructionIs ==
    ASSUME IInv, NEW t \in Tasks, at[t] <= Len(program.body[t]),
           Now(t).do \in {"start", "await", "launch", "instant"}
    PROVE  Now(t).of \in Tasks
<1>1. IsProgram(program)
  BY TaskAssumption DEF IInv, Inv
<1>2. program.body[t] \in Seq(Instruction) /\ at[t] \in Nat \ {0}
  BY <1>1 DEF IsProgram, IInv, BodiesOK
<1> QED
  BY <1>2 DEF Now, Instruction

\* A task that is resumed has its place; one that awaits leaves its co_await.
LEMMA ResumedKeeps ==
    ASSUME IInv, program' = program, NEW t \in Tasks, NEW now \in [Tasks -> Nat \ {0}],
           \A s \in Tasks : state[s] = "awaiting" => now[s] = at[s],
           Resumed(t, now)
    PROVE  BodiesOK'
<1>1. state' \in [Tasks -> States] /\ at' \in [Tasks -> Nat \ {0}]
  BY DEF IInv, BodiesOK, Resumed, States
<1>2. threw' \subseteq Tasks /\ early' \subseteq Tasks
  BY DEF IInv, BodiesOK, Resumed
<1>3. gone' \subseteq Tasks
  <2>1. program.locals[t] \subseteq Tasks
    BY TaskAssumption DEF IInv, Inv, IsProgram
  <2>2. state[t] = "awaiting" => program.temporaries[Awaited(t)] \subseteq Tasks
    <3> SUFFICES ASSUME state[t] = "awaiting" PROVE program.temporaries[Awaited(t)] \subseteq Tasks
      OBVIOUS
    <3>1. Awaited(t) \in Tasks
      BY InstructionIs DEF IInv, BodiesOK, Awaits, Awaited, Now
    <3> QED
      BY <3>1, TaskAssumption DEF IInv, Inv, IsProgram
  <2>3. gone \subseteq Tasks
    BY DEF IInv, BodiesOK
  <2> QED
    BY <2>1, <2>2, <2>3 DEF Resumed
<1>4. Awaits'
  <2> SUFFICES ASSUME NEW s \in Tasks, state'[s] = "awaiting"
               PROVE  at'[s] <= Len(program'.body[s]) /\ program'.body[s][at'[s]].do = "await"
    BY DEF Awaits, Now
  <2>1. s # t /\ state[s] = "awaiting"
    BY DEF Resumed, Done, IInv, BodiesOK
  <2>2. at'[s] = at[s]
    BY <2>1 DEF Resumed
  <2> QED
    BY <2>1, <2>2 DEF IInv, BodiesOK, Awaits, Now
<1> QED
  BY <1>1, <1>2, <1>3, <1>4 DEF BodiesOK

\* Nothing else moves a task that awaits.
LEMMA BodiesKeep ==
    ASSUME IInv, program' = program,
           state' \in [Tasks -> States], at' \in [Tasks -> Nat \ {0}],
           threw' \subseteq Tasks, early' \subseteq Tasks, gone' \subseteq Tasks,
           \A s \in Tasks : state'[s] = "awaiting" =>
                at'[s] = at[s] /\ (state[s] = "awaiting" \/ (at[s] <= Len(program.body[s]) /\ Now(s).do = "await"))
    PROVE  BodiesOK'
<1>1. Awaits'
  BY DEF IInv, BodiesOK, Awaits, Now
<1> QED
  BY <1>1 DEF BodiesOK

LEMMA StartKeeps ==
    ASSUME IInv, program' = program, NEW l \in Loops, NEW c \in Tasks, NEW now \in [Tasks -> Nat \ {0}],
           \A s \in Tasks : state[s] = "awaiting" => now[s] = at[s],
           start(l, c, now)
    PROVE  BodiesOK' /\ started' \subseteq Tasks /\ deferred' \in [Tasks -> Nat]
<1>1. CASE same_loop(l, c)
  BY <1>1, ResumedKeeps DEF start, IInv, RestOK
<1>2. CASE ~same_loop(l, c)
  <2>1. at' = now /\ UNCHANGED <<state, threw, early, gone, started>> /\ Defer(c)
    BY <1>2 DEF start
  <2> QED
    BY <2>1, BodiesKeep DEF IInv, RestOK, BodiesOK, Defer
<1> QED
  BY <1>1, <1>2

LEMMA LeaveKeeps ==
    ASSUME IInv, program' = program, NEW t \in Tasks, NEW exception, Leave(t, exception)
    PROVE  BodiesOK'
<1>1. gone' \subseteq Tasks
  BY TaskAssumption DEF Leave, IInv, Inv, IsProgram, BodiesOK
<1> QED
  BY <1>1, BodiesKeep DEF Leave, IInv, BodiesOK, States

\* A task that runs goes on in its body.
LEMMA ForthKeeps ==
    ASSUME IInv, program' = program, NEW l, NEW t \in Tasks, In(l, t), NEW n \in Nat
    PROVE  /\ Forth(t, n) \in [Tasks -> Nat \ {0}]
           /\ \A s \in Tasks : state[s] = "awaiting" => Forth(t, n)[s] = at[s]
           /\ at' = Forth(t, n) /\ UNCHANGED <<state, threw, early, gone>> => BodiesOK'
<1>1. /\ Forth(t, n) \in [Tasks -> Nat \ {0}]
      /\ \A s \in Tasks : state[s] = "awaiting" => Forth(t, n)[s] = at[s]
  BY DEF IInv, BodiesOK, Forth, In
<1> QED
  BY <1>1, BodiesKeep DEF IInv, BodiesOK

LEMMA GetKeeps ==
    ASSUME IInv, NEW cs, NEW c, NEW before, NEW t \in Tasks, Get(cs, c, before, t)
    PROVE  taken' \subseteq Tasks /\ hollow' \subseteq Tasks
<1>1. program.moves \subseteq Tasks
  BY TaskAssumption DEF IInv, Inv, IsProgram
<1> QED
  BY <1>1 DEF Get, IInv, RestOK

LEMMA TakesKeeps ==
    ASSUME IInv, NEW t \in Tasks, NEW c, Takes(t, c)
    PROVE  taken' \subseteq Tasks /\ hollow' \subseteq Tasks /\ caught' \subseteq Tasks
  BY GetKeeps DEF Takes, IInv, RestOK

LEMMA SameBodies == IInv /\ program' = program /\ UNCHANGED <<bodies, gone>> => BodiesOK'
  BY DEF IInv, BodiesOK, Awaits, Now, bodies

\* The winner of a race is one of its list.
LEMMA ChooseKeeps ==
    ASSUME IInv, NEW l, NEW t \in Tasks, Choose(l, t)
    PROVE  BodiesOK' /\ RestOK'
<1>1. In(l, t) /\ program' = program /\ UNCHANGED <<control, slept, begun, started>>
  BY DEF Choose, Other, Does
<1>2. PICK lucky \in SUBSET taken :
        LET n == SelectInSeq(List(t), LAMBDA c : Accepted(c, lucky))
            last == IF n = 0 THEN Len(List(t)) ELSE n
            winner == IF n = 0 THEN NoTask ELSE List(t)[n]
        IN  /\ Get({List(t)[i] : i \in {i \in 1 .. last : Done(List(t)[i])}}, winner, TakenBefore(t), t)
            /\ \/ n # 0 /\ Wins(t, winner)
               \/ /\ n = 0 /\ Now(t).do = "look"
                  /\ at' = Forth(t, 1) /\ UNCHANGED <<state, threw, early, won, timedout, gone>>
               \/ /\ n = 0 /\ Now(t).do = "choose"
                  /\ Leave(t, TRUE) /\ timedout' = timedout \cup {t} /\ UNCHANGED won
  BY DEF Choose
<1> DEFINE n == SelectInSeq(List(t), LAMBDA c : Accepted(c, lucky))
           winner == IF n = 0 THEN NoTask ELSE List(t)[n]
           last == IF n = 0 THEN Len(List(t)) ELSE n
           cs == {List(t)[i] : i \in {i \in 1 .. last : Done(List(t)[i])}}
<1>3. winner \in Tasks \cup {NoTask}
  <2>1. List(t) \in Seq(Tasks)
    BY <1>1, TaskAssumption DEF List, IInv, Inv, IsProgram, Race
  <2> DEFINE I == {i \in 1 .. Len(List(t)) : Accepted(List(t)[i], lucky)}
  <2>2. n = IF I # {} THEN Min(I) ELSE 0
    BY DEF SelectInSeq
  <2>3. I # {} => Min(I) \in I
    <3>1. I \in SUBSET Nat
      BY <2>1
    <3> HIDE DEF I
    <3>2. ASSUME I # {} PROVE \E m \in I : \A k \in I : m <= k
      BY <3>1, <3>2, LeastNat
    <3> QED
      BY <3>2 DEF Min
  <2> QED
    BY <2>1, <2>2, <2>3
<1>4. Get(cs, winner, TakenBefore(t), t)
  BY <1>2
<1>5. taken' \subseteq Tasks /\ hollow' \subseteq Tasks
  <2> HIDE DEF cs, winner
  <2> QED
    BY <1>4, GetKeeps
<1>6. \/ Wins(t, winner)
      \/ at' = Forth(t, 1) /\ UNCHANGED <<state, threw, early, won, timedout, gone>>
      \/ Leave(t, TRUE) /\ timedout' = timedout \cup {t} /\ UNCHANGED won
  BY <1>2
<1> HIDE DEF winner
<1>7. BodiesOK' /\ won' \in [Tasks -> Tasks \cup {NoTask}] /\ timedout' \subseteq Tasks
  <2>1. won \in [Tasks -> Tasks \cup {NoTask}] /\ timedout \subseteq Tasks
    BY DEF IInv, RestOK
  <2>2. CASE Wins(t, winner)
    BY <1>1, <1>3, <2>1, <2>2, LeaveKeeps DEF Wins
  <2>3. CASE at' = Forth(t, 1) /\ UNCHANGED <<state, threw, early, won, timedout, gone>>
    BY <1>1, <2>1, <2>3, ForthKeeps
  <2>4. CASE Leave(t, TRUE) /\ timedout' = timedout \cup {t} /\ UNCHANGED won
    BY <1>1, <2>1, <2>4, LeaveKeeps
  <2> QED
    BY <1>6, <2>2, <2>3, <2>4
<1> QED
  BY <1>1, <1>5, <1>7 DEF RestOK, IInv, control

LEMMA TypesStep == IInv /\ [Next]_vars => BodiesOK' /\ RestOK'
<1>1. ASSUME IInv, UNCHANGED vars PROVE BodiesOK' /\ RestOK'
  BY <1>1, SameBodies DEF vars, control, races, values, IInv, RestOK
<1> SUFFICES ASSUME IInv, Next PROVE BodiesOK' /\ RestOK'
  BY <1>1
<1> PICK l \in Loops : ThreadStep(l)
  BY DEF Next
<1>2. CASE run_task(l)
  <2>1. program.root \in Tasks
    BY TaskAssumption DEF IInv, Inv, IsProgram
  <2>2. BodiesOK' /\ started' \subseteq Tasks /\ deferred' \in [Tasks -> Nat]
    <3>1. at \in [Tasks -> Nat \ {0}] /\ program' = program /\ start(l, program.root, at)
      BY <1>2 DEF run_task, IInv, BodiesOK
    <3> QED
      BY <2>1, <3>1, StartKeeps
  <2> QED
    BY <1>2, <2>2 DEF run_task, values, IInv, RestOK
<1> SUFFICES ASSUME NEW t \in Tasks,
                    \/ RunDeferred(l, t) \/ Sleep(l, t) \/ Await(l, t) \/ Return(l, t) \/ FinalSuspend(l, t)
                    \/ Skip(l, t) \/ Instant(l, t) \/ Detach(l, t) \/ Choose(l, t)
                    \/ Ask(l, t) \/ Deliver(l, t) \/ WrapperEnds(l, t)
                    \/ \E c \in Tasks : Start(l, t, c) \/ Attach(l, t, c) \/ AskAndResume(l, t, c)
             PROVE  BodiesOK' /\ RestOK'
  BY <1>2 DEF ThreadStep
<1>a. at \in [Tasks -> Nat \ {0}]
  BY DEF IInv, BodiesOK
<1>3. CASE RunDeferred(l, t)
  <2>1. BodiesOK' /\ started' \subseteq Tasks
    <3>1. CASE Alive(t)
      BY <1>3, <3>1, <1>a, ResumedKeeps DEF RunDeferred, IInv, RestOK
    <3>2. CASE ~Alive(t)
      BY <1>3, <3>2, SameBodies DEF RunDeferred, IInv, RestOK
    <3> QED
      BY <3>1, <3>2
  <2>2. deferred' \in [Tasks -> Nat]
    BY <1>3 DEF RunDeferred, IInv, RestOK
  <2> QED
    BY <1>3, <2>1, <2>2 DEF RunDeferred, values, IInv, RestOK
<1>4. CASE Sleep(l, t)
  <2>1. In(l, t)
    BY <1>4 DEF Sleep, Does
  <2>2. at' \in [Tasks -> Nat \ {0}] /\ \A s \in Tasks : state[s] = "awaiting" => at'[s] = at[s]
    <3>1. (at' = Forth(t, 1) \/ at' = at) /\ program' = program
      BY <1>4 DEF Sleep
    <3> QED
      BY <2>1, <3>1, <1>a, ForthKeeps
  <2>3. /\ state' = [state EXCEPT ![t] = "asleep"] /\ program' = program
        /\ UNCHANGED <<threw, early, gone>>
    BY <1>4 DEF Sleep, races
  <2>4. BodiesOK'
    BY <2>2, <2>3, BodiesKeep DEF IInv, BodiesOK, States
  <2> QED
    BY <1>4, <2>4 DEF Sleep, Defer, races, values, IInv, RestOK
<1>5. CASE Await(l, t)
  <2>1. /\ state' = [state EXCEPT ![t] = "awaiting"] /\ program' = program
        /\ UNCHANGED <<at, threw, early, gone>> /\ Does(l, t, "await")
    BY <1>5 DEF Await, races
  <2>2. BodiesOK'
    BY <2>1, BodiesKeep DEF IInv, BodiesOK, States, Does
  <2> QED
    BY <1>5, <2>2 DEF Await, races, values, IInv, RestOK, Wrappers
<1>6. CASE Return(l, t)
  BY <1>6, LeaveKeeps DEF Return, control, values, IInv, RestOK
<1>7. CASE FinalSuspend(l, t)
  <2>1. BodiesOK'
    <3>1. program' = program /\ UNCHANGED <<at, threw, early, gone>>
      BY <1>7 DEF FinalSuspend
    <3>2. state' = [s \in Tasks |-> IF s = t THEN "done"
                                    ELSE IF parent[t] = <<"task", s>> /\ ~Done(s) THEN "running" ELSE state[s]]
      BY <1>7 DEF FinalSuspend
    <3> QED
      BY <3>1, <3>2, BodiesKeep DEF IInv, BodiesOK, States
  <2>2. parent[t] \in Coroutines \cup {None}
    BY DEF IInv, Inv, Parents, Own
  <2>3. wrapper' \in [Tasks -> Wrappers] /\ caught' \subseteq Tasks /\ taken' \subseteq Tasks /\ hollow' \subseteq Tasks
    <3>1. CASE parent[t][1] = "wrapper"
      <4>1. parent[t][2] \in Tasks
        BY <2>2, <3>1 DEF Coroutines, None
      <4>2. Takes(parent[t][2], t) /\ wrapper' = [wrapper EXCEPT ![parent[t][2]] = "delivering"]
        BY <1>7, <3>1 DEF FinalSuspend, Continue
      <4> QED
        BY <4>1, <4>2, TakesKeeps DEF IInv, RestOK, Wrappers
    <3>2. CASE parent[t][1] # "wrapper"
      <4>1. Continue(l, parent[t]) /\ UNCHANGED <<caught, values>>
        BY <1>7, <3>2 DEF FinalSuspend
      <4>2. UNCHANGED wrapper
        BY <3>2, <4>1 DEF Continue, Ends
      <4> QED
        BY <4>1, <4>2 DEF values, IInv, RestOK
    <3> QED
      BY <3>1, <3>2
  <2> QED
    BY <1>7, <2>1, <2>3 DEF FinalSuspend, IInv, RestOK
<1>8. CASE Skip(l, t)
  <2>1. PICK n \in Nat : at' = Forth(t, n)
    BY <1>8 DEF Skip
  <2> QED
    BY <1>8, <2>1, ForthKeeps DEF Skip, Does, Other, control, races, values, IInv, RestOK
<1>9. CASE Instant(l, t)
  <2>1. Does(l, t, "instant") /\ Now(t).of \in Tasks
    BY <1>9, InstructionIs DEF Instant, Does
  <2>2. CASE Wins(t, Now(t).of) /\ Get({Now(t).of}, Now(t).of, taken, t)
    BY <1>9, <2>1, <2>2, LeaveKeeps, GetKeeps DEF Instant, Wins, Other, control, IInv, RestOK
  <2>3. CASE at' = Forth(t, 1) /\ UNCHANGED <<state, threw, early, races>>
    BY <1>9, <2>1, <2>3, ForthKeeps DEF Instant, Does, Other, control, races, values, IInv, RestOK
  <2> QED
    BY <1>9, <2>2, <2>3 DEF Instant
<1>10. CASE Detach(l, t)
  BY <1>10, ForthKeeps DEF Detach, Does, Other, control, races, values, IInv, RestOK
<1>11. CASE Ask(l, t)
  <2>1. BodiesOK'
    BY <1>11, SameBodies DEF Ask
  <2>2. wrapper' \in [Tasks -> Wrappers]
    BY <1>11 DEF Ask, Wraps, IInv, RestOK, Wrappers
  <2>3. caught' \subseteq Tasks /\ taken' \subseteq Tasks /\ hollow' \subseteq Tasks
    BY <1>11, TakesKeeps DEF Ask, values, IInv, RestOK
  <2> QED
    BY <1>11, <2>1, <2>2, <2>3 DEF Ask, IInv, RestOK
<1>12. CASE Deliver(l, t)
  <2>1. BodiesOK'
    BY <1>12, SameBodies DEF Deliver, races
  <2>2. deferred' \in [Tasks -> Nat]
    BY <1>12 DEF Deliver, HandOver, Defer, IInv, RestOK
  <2> QED
    BY <1>12, <2>1, <2>2 DEF Deliver, Wraps, races, values, IInv, RestOK, Wrappers
<1>13. CASE WrapperEnds(l, t)
  <2>1. BodiesOK'
    <3>1. CASE same_loop(l, t)
      BY <1>13, <3>1, <1>a, ResumedKeeps DEF WrapperEnds
    <3>2. CASE ~same_loop(l, t)
      BY <1>13, <3>2, SameBodies DEF WrapperEnds
    <3> QED
      BY <3>1, <3>2
  <2> QED
    BY <1>13, <2>1 DEF WrapperEnds, Wraps, AtItsEnd, values, IInv, RestOK, Wrappers
<1>14. ASSUME NEW c \in Tasks, Start(l, t, c) PROVE BodiesOK' /\ RestOK'
  <2>1. In(l, t) /\ start(l, c, Forth(t, 1)) /\ program' = program
    BY <1>14 DEF Start, Does
  <2>2. BodiesOK' /\ started' \subseteq Tasks /\ deferred' \in [Tasks -> Nat]
    <3>1. Forth(t, 1) \in [Tasks -> Nat \ {0}] /\ \A s \in Tasks : state[s] = "awaiting" => Forth(t, 1)[s] = at[s]
      BY <2>1, ForthKeeps
    <3> QED
      BY <2>1, <3>1, StartKeeps
  <2> QED
    BY <1>14, <2>2 DEF Start, values, IInv, RestOK
<1>15. ASSUME NEW c \in Tasks, Attach(l, t, c) PROVE BodiesOK' /\ RestOK'
  BY <1>15, ForthKeeps DEF Attach, Does, Other, control, races, values, IInv, RestOK
<1>16. ASSUME NEW c \in Tasks, AskAndResume(l, t, c) PROVE BodiesOK' /\ RestOK'
  <2>1. BodiesOK' /\ started' \subseteq Tasks /\ deferred' \in [Tasks -> Nat]
    <3>1. program' = program
      BY <1>16 DEF AskAndResume
    <3>2. \/ UNCHANGED <<deferred, bodies, started, gone>>
          \/ started' = started \cup {c} /\ Resumed(c, at) /\ UNCHANGED deferred
          \/ Defer(c) /\ UNCHANGED <<bodies, started, gone>>
      BY <1>16 DEF AskAndResume
    <3>3. BodiesOK'
      BY <3>1, <3>2, <1>a, SameBodies, ResumedKeeps
    <3> QED
      BY <3>2, <3>3 DEF Defer, IInv, RestOK
  <2>2. wrapper' \in [Tasks -> Wrappers]
    BY <1>16 DEF AskAndResume, Wraps, IInv, RestOK, Wrappers
  <2>3. caught' \subseteq Tasks /\ taken' \subseteq Tasks /\ hollow' \subseteq Tasks
    BY <1>16, TakesKeeps DEF AskAndResume, values, IInv, RestOK
  <2> QED
    BY <1>16, <2>1, <2>2, <2>3 DEF AskAndResume, IInv, RestOK
<1> QED
  BY <1>3, <1>4, <1>5, <1>6, <1>7, <1>8, <1>9, <1>10, <1>11, <1>12, <1>13, <1>14, <1>15, <1>16, ChooseKeeps

\* Every variable keeps its type, whatever the program: what is awaited, started or won is a task.
THEOREM TypeOKHolds == Spec => []TypeOK
<1>1. Init => IInv
  BY InvInit, TypesInit DEF IInv
<1>2. IInv /\ [Next]_vars => IInv'
  BY InvStep, TypesStep DEF IInv
<1>3. IInv => TypeOK
  <2> SUFFICES ASSUME IInv PROVE TypeOK
    OBVIOUS
  <2>1. stack \in [Loops -> Seq(Coroutines)]
    <3>1. \A l \in Loops : stack[l] \in Seq(Coroutines)
      <4> SUFFICES ASSUME NEW l \in Loops PROVE stack[l] \in Seq(Coroutines)
        OBVIOUS
      <4>1. stack[l] \in Seq(Own(l)) /\ Own(l) \subseteq Coroutines
        BY DEF IInv, Inv, Stacks, Own
      <4> QED
        BY <4>1
    <3> QED
      BY <3>1 DEF IInv, Inv, Stacks
  <2>2. parent \in [Tasks -> Coroutines \cup {None}]
    BY DEF IInv, Inv, Parents, Own
  <2>3. UNION {caught, threw, early, slept, started, timedout, taken, hollow, gone} \subseteq Tasks
    BY DEF IInv, BodiesOK, RestOK
  <2> QED
    BY <2>1, <2>2, <2>3 DEF TypeOK, IInv, Inv, BodiesOK, RestOK
<1> QED
  BY <1>1, <1>2, <1>3, PTL DEF Spec

-----------------------------------------------------------------------------
(* Races.                                                                  *)

RaceTasks == {r \in Tasks : IsRace(program, r)}
Dummy(r) == program.race[r].dummy
Timer(r) == program.race[r].timer

\* Where the body of a race attaches the dummy, where it awaits it, and where it ends.
Ending(r) == Len(program.body[r])
Parking(r) == Ending(r) - 2
Attaching(r) == IF Timer(r) = NoTask THEN Parking(r) - 1 ELSE Parking(r) - 2

LEMMA TailIs == ASSUME NEW s \in Seq(Instruction), NEW k \in DOMAIN s
              PROVE  /\ Len(SubSeq(s, k, Len(s))) = Len(s) - k + 1
                     /\ \A i \in 1 .. Len(s) - k + 1 : SubSeq(s, k, Len(s))[i] = s[k + i - 1]
  OBVIOUS

LEMMA AfterLaunchIs ==
    ASSUME NEW d, NEW m
    PROVE  /\ m = NoTask => /\ Len(AfterLaunch(d, m)) = 4
                            /\ AfterLaunch(d, m)[1] = Do("attach", NoTask) /\ AfterLaunch(d, m)[2] = Do("await", d)
                            /\ AfterLaunch(d, m)[3] = Do("detach", NoTask) /\ AfterLaunch(d, m)[4] = Do("choose", NoTask)
           /\ m # NoTask => /\ Len(AfterLaunch(d, m)) = 5
                            /\ AfterLaunch(d, m)[1] = Do("attach", NoTask) /\ AfterLaunch(d, m)[2] = Do("start", m)
                            /\ AfterLaunch(d, m)[3] = Do("await", d)
                            /\ AfterLaunch(d, m)[4] = Do("detach", NoTask) /\ AfterLaunch(d, m)[5] = Do("choose", NoTask)
  BY DEF AfterLaunch

LEMMA RaceShape ==
    ASSUME program \in Programs, NEW r \in RaceTasks
    PROVE  /\ Ending(r) \in Nat /\ Attaching(r) \in 1 .. Ending(r)
           /\ program.body[r][Attaching(r)] = Do("attach", NoTask)
           /\ Timer(r) # NoTask => program.body[r][Parking(r) - 1] = Do("start", Timer(r))
           /\ program.body[r][Parking(r)] = Do("await", Dummy(r))
           /\ program.body[r][Ending(r) - 1] = Do("detach", NoTask)
           /\ program.body[r][Ending(r)] = Do("choose", NoTask)
           /\ \A i \in 1 .. Attaching(r) - 1 :
                 \/ program.body[r][i].do \in {"launch", "instant"} /\ program.body[r][i].of \in ToSet(List(r))
                 \/ program.body[r][i].do = "look"
           /\ \A i \in 1 .. Attaching(r) - 1 : program.body[r][i].do = "instant" =>
                 i > 1 /\ program.body[r][i - 1] = Do("launch", program.body[r][i].of)
           /\ \A c \in ToSet(List(r)) : \E i \in 1 .. Attaching(r) - 1 : program.body[r][i] = Do("launch", c)
<1> DEFINE body == program.body[r]
           after == AfterLaunch(Dummy(r), Timer(r))
<1>1. body \in Seq(Instruction)
  BY TaskAssumption DEF RaceTasks, IsProgram
<1>2. PICK k \in DOMAIN body :
        /\ SubSeq(body, k, Len(body)) = after
        /\ \A i \in 1 .. k - 1 : \/ body[i].do \in {"launch", "instant"} /\ body[i].of \in ToSet(List(r))
                                 \/ body[i].do = "look"
        /\ \A i \in 1 .. k - 1 : body[i].do = "instant" => i > 1 /\ body[i - 1] = Do("launch", body[i].of)
        /\ \A c \in ToSet(List(r)) : \E i \in 1 .. k - 1 : body[i] = Do("launch", c)
  BY DEF RaceTasks, IsRace, Dummy, Timer, List
<1> HIDE DEF body, after
<1>3. /\ Len(body) \in Nat /\ k \in 1 .. Len(body) /\ Len(after) = Len(body) - k + 1
      /\ \A i \in 1 .. Len(body) - k + 1 : after[i] = body[k + i - 1]
  <2>1. /\ Len(SubSeq(body, k, Len(body))) = Len(body) - k + 1
        /\ \A i \in 1 .. Len(body) - k + 1 : SubSeq(body, k, Len(body))[i] = body[k + i - 1]
    BY <1>1, TailIs
  <2>2. Len(body) \in Nat /\ k \in 1 .. Len(body)
    BY <1>1
  <2> QED
    BY <1>2, <2>1, <2>2
<1> DEFINE n == Len(body)
<1>6. Ending(r) = n /\ Parking(r) = n - 2 /\ Attaching(r) = IF Timer(r) = NoTask THEN n - 2 - 1 ELSE n - 2 - 2
  BY DEF Ending, Parking, Attaching, body
<1>7. /\ n \in Nat /\ k \in 1 .. n /\ Len(after) = n - k + 1
      /\ \A i \in Nat : 1 <= i /\ i <= n - k + 1 => after[i] = body[k + i - 1]
  BY <1>3
<1> HIDE DEF n
<1>4. CASE Timer(r) = NoTask
  <2>1. /\ Len(after) = 4 /\ after[1] = Do("attach", NoTask) /\ after[2] = Do("await", Dummy(r))
        /\ after[3] = Do("detach", NoTask) /\ after[4] = Do("choose", NoTask)
    BY <1>4, AfterLaunchIs DEF after
  <2>2. k = n - 3 /\ Attaching(r) = k /\ Parking(r) = k + 1 /\ Ending(r) = k + 3
    <3>3. k \in Int /\ n \in Int
      BY <1>7
    <3>4. Len(after) = n - k + 1
      BY <1>7
    <3>5. Len(after) = 4
      BY <2>1
    <3>1. k \in Int /\ n \in Int /\ n - k + 1 = 4
      BY <3>3, <3>4, <3>5
    <3>2. k = n - 3
      BY <3>1
    <3> QED
      BY <1>6, <1>4, <3>1, <3>2
  <2>3. body[k + 1 - 1] = after[1] /\ body[k + 2 - 1] = after[2] /\ body[k + 3 - 1] = after[3] /\ body[k + 4 - 1] = after[4]
    BY <1>7, <2>1, <2>2
  <2>4. body[k] = after[1] /\ body[k + 1] = after[2] /\ body[k + 2] = after[3] /\ body[k + 3] = after[4]
    BY <1>7, <2>3
  <2> QED
    BY <1>2, <1>7, <1>4, <2>1, <2>2, <2>4 DEF body
<1>5. CASE Timer(r) # NoTask
  <2>1. /\ Len(after) = 5 /\ after[1] = Do("attach", NoTask) /\ after[2] = Do("start", Timer(r))
        /\ after[3] = Do("await", Dummy(r))
        /\ after[4] = Do("detach", NoTask) /\ after[5] = Do("choose", NoTask)
    BY <1>5, AfterLaunchIs DEF after
  <2>2. k = n - 4 /\ Attaching(r) = k /\ Parking(r) = k + 2 /\ Ending(r) = k + 4
    <3>3. k \in Int /\ n \in Int
      BY <1>7
    <3>4. Len(after) = n - k + 1
      BY <1>7
    <3>5. Len(after) = 5
      BY <2>1
    <3>1. k \in Int /\ n \in Int /\ n - k + 1 = 5
      BY <3>3, <3>4, <3>5
    <3>2. k = n - 4
      BY <3>1
    <3> QED
      BY <1>6, <1>5, <3>1, <3>2
  <2>3. /\ body[k + 1 - 1] = after[1] /\ body[k + 2 - 1] = after[2] /\ body[k + 3 - 1] = after[3]
        /\ body[k + 4 - 1] = after[4] /\ body[k + 5 - 1] = after[5]
    BY <1>7, <2>1, <2>2
  <2>4. /\ body[k] = after[1] /\ body[k + 1] = after[2] /\ body[k + 2] = after[3] /\ body[k + 3] = after[4]
        /\ body[k + 4] = after[5]
    BY <1>7, <2>3
  <2> QED
    BY <1>2, <1>7, <1>5, <2>1, <2>2, <2>4 DEF body
<1> QED
  BY <1>4, <1>5

\* The dummy and the timer are the race's own.
LEMMA RaceOwns ==
    ASSUME program \in Programs, NEW r \in RaceTasks
    PROVE  /\ r \in Tasks /\ Dummy(r) \in Tasks /\ Timer(r) \in Tasks \cup {NoTask} /\ Dummy(r) # NoTask
           /\ Dummy(r) # r /\ Timer(r) # r /\ Timer(r) # Dummy(r) /\ r \notin ToSet(List(r))
           /\ program.body[Dummy(r)] = <<>>
           /\ Timer(r) # NoTask => program.body[Timer(r)] = <<Do("sleep", NoTask)>>
           /\ \A c \in ToSet(List(r)) : c \in Tasks /\ c # Dummy(r) /\ c # Timer(r) /\ home(c) = home(r)
           /\ home(Dummy(r)) = home(r) /\ (Timer(r) # NoTask => home(Timer(r)) = home(r))
           /\ {Dummy(r), Timer(r)} \cap (program.naps \cup program.throws \cup {program.root}) = {}
           /\ r \notin program.naps
           /\ \A t \in Tasks \ {r} : \A i \in DOMAIN program.body[t] :
                 program.body[t][i].of # Dummy(r) /\ (Timer(r) # NoTask => program.body[t][i].of # Timer(r))
           /\ Dummy(r) \in program.locals[r] /\ (Timer(r) # NoTask => Timer(r) \in program.locals[r])
           /\ \A t \in Tasks \ {r} : \A c \in {Dummy(r), Timer(r)} \cap Tasks :
                 /\ c \in program.locals[t] => r \in program.locals[t]
                 /\ c \notin ToSet(List(t)) \cup {Dummy(t), Timer(t)}
           /\ \A t \in Tasks : \A c \in {Dummy(r), Timer(r)} \cap Tasks :
                 c \in program.temporaries[t] => r \in program.temporaries[t]
<1> DEFINE own == {Dummy(r), Timer(r)} \ {NoTask}
<1>1. /\ r \in Tasks /\ IsProgram(program) /\ NoTask \notin Tasks
      /\ List(r) \in Seq(Tasks) /\ Dummy(r) \in Tasks \cup {NoTask} /\ Timer(r) \in Tasks \cup {NoTask}
  BY TaskAssumption DEF RaceTasks, IsProgram, Race, List, Dummy, Timer
<1>2. /\ Dummy(r) # NoTask /\ program.body[Dummy(r)] = <<>>
      /\ Timer(r) # NoTask => program.body[Timer(r)] = <<Do("sleep", NoTask)>>
      /\ Timer(r) # Dummy(r) /\ own \cap (ToSet(List(r)) \cup program.throws) = {}
      /\ ({r} \cup own) \cap program.naps = {} /\ r \notin Raced(program.race[r]) /\ program.root \notin own
      /\ \A t \in Tasks \ {r} : /\ Raced(program.race[t]) \cap own = {}
                                /\ \A i \in DOMAIN program.body[t] : program.body[t][i].of \notin own
      /\ own \subseteq program.locals[r]
      /\ \A t \in Tasks : /\ t = r \/ r \in program.locals[t] \/ program.locals[t] \cap own = {}
                          /\ r \in program.temporaries[t] \/ program.temporaries[t] \cap own = {}
  BY DEF RaceTasks, IsRace, Dummy, Timer, List
<1>3. \A t \in Tasks : Raced(program.race[t]) = (ToSet(List(t)) \cup {Dummy(t), Timer(t)}) \ {NoTask}
  BY DEF Raced, Dummy, Timer, List
<1>4. ToSet(List(r)) \subseteq Tasks
  BY <1>1 DEF ToSet
<1>5. \A c \in Raced(program.race[r]) : home(c) = home(r)
  BY <1>1 DEF IsProgram, home
<1>6. NoTask \notin program.naps \cup program.throws \cup {program.root}
  BY <1>1 DEF IsProgram
<1>7. \A t \in Tasks \ {r} : \A c \in own : c \notin ToSet(List(t)) \cup {Dummy(t), Timer(t)}
  BY <1>2, <1>3
<1>8. {Dummy(r), Timer(r)} \cap Tasks = own
  BY <1>1
<1>9. r # Dummy(r) /\ r # Timer(r) /\ r \notin ToSet(List(r))
  BY <1>1, <1>2, <1>3
<1>10. \A c \in ToSet(List(r)) \cup own : home(c) = home(r)
  BY <1>1, <1>3, <1>4, <1>5
<1> HIDE DEF own
<1>11. /\ Dummy(r) \in own /\ (Timer(r) # NoTask => Timer(r) \in own)
       /\ own \subseteq {Dummy(r), Timer(r)}
  BY <1>2 DEF own
<1>12. \A c \in ToSet(List(r)) : c \in Tasks /\ c # Dummy(r) /\ c # Timer(r)
  <2> SUFFICES ASSUME NEW c \in ToSet(List(r)) PROVE c \in Tasks /\ c # Dummy(r) /\ c # Timer(r)
    OBVIOUS
  <2>1. c \in Tasks /\ c \notin own
    BY <1>2, <1>4
  <2> QED
    BY <1>1, <1>11, <2>1
<1>13. \A c \in own : c \notin program.naps /\ c \notin program.throws /\ c # program.root /\ c \in program.locals[r]
  BY <1>2
<1>14. {Dummy(r), Timer(r)} \cap (program.naps \cup program.throws \cup {program.root}) = {}
  BY <1>6, <1>11, <1>13
<1>15. \A t \in Tasks \ {r} : \A i \in DOMAIN program.body[t] :
          program.body[t][i].of # Dummy(r) /\ (Timer(r) # NoTask => program.body[t][i].of # Timer(r))
  BY <1>2, <1>11
<1>16. \A t \in Tasks \ {r} : \A c \in own :
           /\ c \in program.locals[t] => r \in program.locals[t]
           /\ c \notin ToSet(List(t)) \cup {Dummy(t), Timer(t)}
  BY <1>2, <1>7
<1>17. \A t \in Tasks : \A c \in own : c \in program.temporaries[t] => r \in program.temporaries[t]
  BY <1>2
<1> QED
  BY <1>1, <1>2, <1>8, <1>9, <1>10, <1>11, <1>12, <1>13, <1>14, <1>15, <1>16, <1>17

-----------------------------------------------------------------------------
(* Stacks.                                                                 *)

Top(l) == Head(stack[l])

\* A coroutine is on one stack at most, and there once.
Distinct == \A l, m \in Loops : \A i \in DOMAIN stack[l], j \in DOMAIN stack[m] :
                stack[l][i] = stack[m][j] => l = m /\ i = j

LEMMA InFront ==
    ASSUME NEW s \in Seq(Coroutines), NEW c \in Coroutines
    PROVE  /\ <<c>> \o s \in Seq(Coroutines) /\ Len(<<c>> \o s) = Len(s) + 1 /\ <<c>> \o s # <<>>
           /\ Head(<<c>> \o s) = c
           /\ \A i \in 1 .. Len(s) + 1 : (<<c>> \o s)[i] = IF i = 1 THEN c ELSE s[i - 1]
  OBVIOUS

LEMMA Behind ==
    ASSUME NEW s \in Seq(Coroutines), s # <<>>
    PROVE  /\ Tail(s) \in Seq(Coroutines) /\ Len(Tail(s)) = Len(s) - 1 /\ Len(s) \in Nat /\ Len(s) >= 1
           /\ Head(s) = s[1] /\ \A i \in 1 .. Len(s) - 1 : Tail(s)[i] = s[i + 1]
  OBVIOUS

LEMMA StackType == Inv => stack = [l \in Loops |-> stack[l]] /\ \A l \in Loops : stack[l] \in Seq(Coroutines)
<1> SUFFICES ASSUME Inv PROVE \A l \in Loops : stack[l] \in Seq(Coroutines)
  BY DEF Inv, Stacks
<1> TAKE l \in Loops
<1>1. stack[l] \in Seq(Own(l)) /\ Own(l) \subseteq Coroutines
  BY DEF Inv, Stacks, Own
<1> QED
  BY <1>1

LEMMA FramesAre == Inv => \A l \in Loops : /\ Frames(l) = {stack[l][i] : i \in DOMAIN stack[l]}
                                           /\ DOMAIN stack[l] = 1 .. Len(stack[l]) /\ Len(stack[l]) \in Nat
                                           /\ stack[l] # <<>> => 1 \in DOMAIN stack[l] /\ Top(l) = stack[l][1] /\ Top(l) \in Frames(l)
<1> SUFFICES ASSUME Inv, NEW l \in Loops
             PROVE  /\ Frames(l) = {stack[l][i] : i \in DOMAIN stack[l]}
                    /\ DOMAIN stack[l] = 1 .. Len(stack[l]) /\ Len(stack[l]) \in Nat
                    /\ stack[l] # <<>> => 1 \in DOMAIN stack[l] /\ Top(l) = stack[l][1] /\ Top(l) \in Frames(l)
  OBVIOUS
<1>1. stack[l] \in Seq(Coroutines)
  BY StackType
<1> QED
  BY <1>1 DEF Frames, ToSet, Top

\* What a loop pushes, or switches to, is on no stack yet.
LEMMA Pushes ==
    ASSUME Inv, Distinct, NEW l \in Loops, NEW c \in Coroutines, Push(l, c), ~OnStack(c)
    PROVE  /\ Distinct' /\ Frames(l)' = Frames(l) \cup {c} /\ Top(l)' = c /\ stack'[l] # <<>>
           /\ \A m \in Loops \ {l} : stack'[m] = stack[m]
           /\ stack[l] # <<>> => Len(stack'[l]) > 1 /\ stack'[l][2] = Top(l)
<1> DEFINE s == stack[l]
           r == <<c>> \o s
<1>1. /\ stack = [m \in Loops |-> stack[m]] /\ stack'[l] = r /\ \A m \in Loops \ {l} : stack'[m] = stack[m]
      /\ s \in Seq(Coroutines)
  BY StackType DEF Push
<1>2. /\ r \in Seq(Coroutines) /\ Len(r) = Len(s) + 1 /\ r # <<>> /\ Head(r) = c
      /\ \A i \in 1 .. Len(s) + 1 : r[i] = IF i = 1 THEN c ELSE s[i - 1]
  BY <1>1, InFront
<1>3. /\ DOMAIN s = 1 .. Len(s) /\ Len(s) \in Nat /\ DOMAIN r = 1 .. Len(r)
  BY <1>1, <1>2
<1>4. \A m \in Loops : \A i \in DOMAIN stack[m] : stack[m][i] # c
  BY FramesAre DEF OnStack
<1> HIDE DEF s, r
<1>5. \A m, n \in Loops : \A i \in DOMAIN stack'[m], j \in DOMAIN stack'[n] :
          stack'[m][i] = stack'[n][j] => m = n /\ i = j
  <2> SUFFICES ASSUME NEW m \in Loops, NEW n \in Loops, NEW i \in DOMAIN stack'[m], NEW j \in DOMAIN stack'[n],
                      stack'[m][i] = stack'[n][j]
               PROVE  m = n /\ i = j
    OBVIOUS
  <2>1. CASE m = l /\ n = l
    <3>1. i \in 1 .. Len(s) + 1 /\ j \in 1 .. Len(s) + 1 /\ r[i] = r[j]
      BY <2>1, <1>1, <1>2, <1>3
    <3>2. i # 1 => i - 1 \in DOMAIN s /\ r[i] = s[i - 1] /\ s[i - 1] # c
      BY <3>1, <1>2, <1>3, <1>4 DEF s
    <3>3. j # 1 => j - 1 \in DOMAIN s /\ r[j] = s[j - 1] /\ s[j - 1] # c
      BY <3>1, <1>2, <1>3, <1>4 DEF s
    <3>4. r[1] = c
      BY <1>2, <1>3
    <3>5. i # 1 /\ j # 1 => i - 1 = j - 1
      BY <3>1, <3>2, <3>3 DEF Distinct, s
    <3> QED
      BY <2>1, <3>1, <3>2, <3>3, <3>4, <3>5
  <2>2. CASE m = l /\ n # l
    <3>1. i \in 1 .. Len(s) + 1 /\ j \in DOMAIN stack[n] /\ r[i] = stack[n][j]
      BY <2>2, <1>1, <1>2, <1>3
    <3>2. i # 1 /\ i - 1 \in DOMAIN s /\ r[i] = s[i - 1]
      BY <3>1, <1>2, <1>3, <1>4
    <3>3. \A k \in DOMAIN s : s[k] # stack[n][j]
      BY <2>2, <3>1 DEF Distinct, s
    <3> QED
      BY <3>1, <3>2, <3>3
  <2>3. CASE m # l /\ n = l
    <3>1. j \in 1 .. Len(s) + 1 /\ i \in DOMAIN stack[m] /\ r[j] = stack[m][i]
      BY <2>3, <1>1, <1>2, <1>3
    <3>2. j # 1 /\ j - 1 \in DOMAIN s /\ r[j] = s[j - 1]
      BY <3>1, <1>2, <1>3, <1>4
    <3>3. \A k \in DOMAIN s : s[k] # stack[m][i]
      BY <2>3, <3>1 DEF Distinct, s
    <3> QED
      BY <3>1, <3>2, <3>3
  <2>4. CASE m # l /\ n # l
    BY <2>4, <1>1 DEF Distinct
  <2> QED
    BY <2>1, <2>2, <2>3, <2>4
<1>6. Frames(l)' = Frames(l) \cup {c}
  <2>1. Frames(l)' = {r[i] : i \in 1 .. Len(s) + 1} /\ Frames(l) = {s[i] : i \in 1 .. Len(s)}
    BY <1>1, <1>2, <1>3 DEF Frames, ToSet, s
  <2>2. \A i \in 1 .. Len(s) : i + 1 \in 1 .. Len(s) + 1 /\ r[i + 1] = s[i]
    BY <1>2, <1>3
  <2>3. 1 \in 1 .. Len(s) + 1 /\ r[1] = c
    BY <1>2, <1>3
  <2>4. \A i \in 1 .. Len(s) + 1 : i # 1 => i - 1 \in 1 .. Len(s) /\ r[i] = s[i - 1]
    BY <1>2, <1>3
  <2>5. Frames(l)' \subseteq Frames(l) \cup {c}
    BY <2>1, <2>3, <2>4
  <2>6. Frames(l) \cup {c} \subseteq Frames(l)'
    BY <2>1, <2>2, <2>3
  <2> QED
    BY <2>5, <2>6
<1>7. stack[l] # <<>> => Len(stack'[l]) > 1 /\ stack'[l][2] = Top(l)
  <2> SUFFICES ASSUME stack[l] # <<>> PROVE Len(r) > 1 /\ r[2] = Top(l)
    BY <1>1
  <2>1. Len(s) >= 1 /\ Top(l) = s[1]
    BY <1>1, Behind DEF Top, s
  <2> QED
    BY <1>2, <1>3, <2>1
<1> QED
  BY <1>1, <1>2, <1>5, <1>6, <1>7 DEF Distinct, Top

LEMMA Pops ==
    ASSUME Inv, Distinct, NEW l \in Loops, Pop(l), stack[l] # <<>>
    PROVE  /\ Distinct' /\ Frames(l)' = Frames(l) \ {Top(l)}
           /\ \A m \in Loops \ {l} : stack'[m] = stack[m]
           /\ Len(stack[l]) > 1 => Top(l)' = stack[l][2] /\ stack'[l] # <<>>
<1> DEFINE s == stack[l]
           r == Tail(s)
<1>1. /\ stack = [m \in Loops |-> stack[m]] /\ stack'[l] = r /\ \A m \in Loops \ {l} : stack'[m] = stack[m]
      /\ s \in Seq(Coroutines) /\ s # <<>>
  BY StackType DEF Pop
<1>2. /\ r \in Seq(Coroutines) /\ Len(r) = Len(s) - 1 /\ Len(s) \in Nat /\ Len(s) >= 1
      /\ Head(s) = s[1] /\ \A i \in 1 .. Len(s) - 1 : r[i] = s[i + 1]
  BY <1>1, Behind
<1>3. DOMAIN s = 1 .. Len(s) /\ DOMAIN r = 1 .. Len(r)
  BY <1>1, <1>2
<1> HIDE DEF s, r
<1>4. \A i \in DOMAIN r : i + 1 \in DOMAIN s /\ r[i] = s[i + 1]
  BY <1>2, <1>3
<1>5. \A m, n \in Loops : \A i \in DOMAIN stack'[m], j \in DOMAIN stack'[n] :
          stack'[m][i] = stack'[n][j] => m = n /\ i = j
  <2> SUFFICES ASSUME NEW m \in Loops, NEW n \in Loops, NEW i \in DOMAIN stack'[m], NEW j \in DOMAIN stack'[n],
                      stack'[m][i] = stack'[n][j]
               PROVE  m = n /\ i = j
    OBVIOUS
  <2>1. CASE m = l /\ n = l
    <3>1. i \in DOMAIN r /\ j \in DOMAIN r /\ r[i] = r[j]
      BY <1>1, <2>1
    <3>2. s[i + 1] = s[j + 1] /\ i + 1 \in DOMAIN s /\ j + 1 \in DOMAIN s
      BY <3>1, <1>4
    <3>3. i + 1 = j + 1
      BY <3>2 DEF Distinct, s
    <3>4. i \in Int /\ j \in Int
      BY <3>1, <1>3
    <3> QED
      BY <2>1, <3>3, <3>4
  <2>2. CASE m = l /\ n # l
    <3>1. i \in DOMAIN r /\ j \in DOMAIN stack[n] /\ r[i] = stack[n][j]
      BY <1>1, <2>2
    <3> QED
      BY <3>1, <1>4, <2>2 DEF Distinct, s
  <2>3. CASE m # l /\ n = l
    <3>1. j \in DOMAIN r /\ i \in DOMAIN stack[m] /\ r[j] = stack[m][i]
      BY <1>1, <2>3
    <3> QED
      BY <3>1, <1>4, <2>3 DEF Distinct, s
  <2>4. CASE m # l /\ n # l
    BY <2>4, <1>1 DEF Distinct
  <2> QED
    BY <2>1, <2>2, <2>3, <2>4
<1>6. Frames(l)' = Frames(l) \ {Top(l)}
  <2>1. Frames(l)' = {r[i] : i \in DOMAIN r} /\ Frames(l) = {s[i] : i \in DOMAIN s} /\ Top(l) = s[1]
    BY <1>1, <1>2 DEF Frames, ToSet, s, Top
  <2>2. \A i \in DOMAIN s : s[i] = s[1] => i = 1
    <3>1. 1 \in DOMAIN s
      BY <1>2, <1>3
    <3> QED
      BY <3>1 DEF Distinct, s
  <2>3. \A i \in DOMAIN s : i # 1 => i - 1 \in DOMAIN r /\ r[i - 1] = s[i]
    BY <1>2, <1>3
  <2>4. \A i \in DOMAIN r : i + 1 # 1
    BY <1>3
  <2> QED
    BY <2>1, <2>2, <2>3, <2>4, <1>4
<1>7. Len(s) > 1 => r # <<>> /\ Head(r) = s[2]
  <2> SUFFICES ASSUME Len(s) > 1 PROVE r # <<>> /\ Head(r) = s[2]
    OBVIOUS
  <2>1. 1 \in 1 .. Len(s) - 1 /\ Len(r) >= 1
    BY <1>2
  <2> QED
    BY <1>2, <2>1, Behind
<1> QED
  BY <1>1, <1>5, <1>6, <1>7 DEF Distinct, Top, s

LEMMA Switches ==
    ASSUME Inv, Distinct, NEW l \in Loops, NEW c \in Coroutines, Switch(l, c), stack[l] # <<>>, ~OnStack(c)
    PROVE  /\ Distinct' /\ Frames(l)' = (Frames(l) \ {Top(l)}) \cup {c} /\ Top(l)' = c /\ stack'[l] # <<>>
           /\ \A m \in Loops \ {l} : stack'[m] = stack[m]
<1> DEFINE s == stack[l]
           r == <<c>> \o Tail(s)
<1>1. /\ stack = [m \in Loops |-> stack[m]] /\ stack'[l] = r /\ \A m \in Loops \ {l} : stack'[m] = stack[m]
      /\ s \in Seq(Coroutines) /\ s # <<>>
  BY StackType DEF Switch
<1>2. /\ r \in Seq(Coroutines) /\ Len(r) = Len(s) /\ Len(s) \in Nat /\ Len(s) >= 1 /\ r # <<>> /\ Head(r) = c
      /\ \A i \in 1 .. Len(s) : r[i] = IF i = 1 THEN c ELSE s[i]
  <2>1. /\ Tail(s) \in Seq(Coroutines) /\ Len(Tail(s)) = Len(s) - 1 /\ Len(s) \in Nat /\ Len(s) >= 1
        /\ \A i \in 1 .. Len(s) - 1 : Tail(s)[i] = s[i + 1]
    BY <1>1, Behind
  <2>2. /\ r \in Seq(Coroutines) /\ Len(r) = Len(Tail(s)) + 1 /\ r # <<>> /\ Head(r) = c
        /\ \A i \in 1 .. Len(Tail(s)) + 1 : r[i] = IF i = 1 THEN c ELSE Tail(s)[i - 1]
    BY <2>1, InFront
  <2> HIDE DEF r, s
  <2>3. Len(r) = Len(s)
    BY <2>1, <2>2
  <2>4. \A i \in 1 .. Len(s) : i # 1 => i - 1 \in 1 .. Len(s) - 1 /\ (i - 1) + 1 = i
    BY <2>1
  <2>5. \A i \in 1 .. Len(s) : i \in 1 .. Len(Tail(s)) + 1
    BY <2>1
  <2>6. \A i \in 1 .. Len(s) : i # 1 => Tail(s)[i - 1] = s[i]
    BY <2>1, <2>4
  <2>7. \A i \in 1 .. Len(s) : r[i] = IF i = 1 THEN c ELSE s[i]
    BY <2>2, <2>5, <2>6
  <2> QED
    BY <2>1, <2>2, <2>3, <2>7
<1>3. DOMAIN s = 1 .. Len(s) /\ DOMAIN r = 1 .. Len(s)
  BY <1>1, <1>2
<1>4. \A m \in Loops : \A i \in DOMAIN stack[m] : stack[m][i] # c
  BY FramesAre DEF OnStack
<1> HIDE DEF s, r
<1>5. \A m, n \in Loops : \A i \in DOMAIN stack'[m], j \in DOMAIN stack'[n] :
          stack'[m][i] = stack'[n][j] => m = n /\ i = j
  <2> SUFFICES ASSUME NEW m \in Loops, NEW n \in Loops, NEW i \in DOMAIN stack'[m], NEW j \in DOMAIN stack'[n],
                      stack'[m][i] = stack'[n][j]
               PROVE  m = n /\ i = j
    OBVIOUS
  <2>1. \A p \in Loops : \A k \in DOMAIN stack'[p] :
           k \in DOMAIN stack[p] /\ stack'[p][k] = (IF p = l /\ k = 1 THEN c ELSE stack[p][k])
    BY <1>1, <1>2, <1>3 DEF s
  <2>2. \A p \in Loops : \A k \in DOMAIN stack'[p] : (p = l /\ k = 1) \/ stack'[p][k] # c
    BY <2>1, <1>4
  <2> QED
    BY <2>1, <2>2 DEF Distinct
<1>6. Frames(l)' = (Frames(l) \ {Top(l)}) \cup {c}
  <2>1. Frames(l)' = {r[i] : i \in DOMAIN r} /\ Frames(l) = {s[i] : i \in DOMAIN s} /\ Top(l) = s[1] /\ 1 \in DOMAIN s
    BY <1>1, <1>2, <1>3, Behind DEF Frames, ToSet, s, Top
  <2>2. \A i \in DOMAIN s : s[i] = s[1] => i = 1
    BY <2>1 DEF Distinct, s
  <2>3. \A i \in DOMAIN s : r[i] = IF i = 1 THEN c ELSE s[i]
    BY <1>2, <1>3
  <2> QED
    BY <2>1, <2>2, <2>3, <1>3
<1> QED
  BY <1>1, <1>2, <1>5, <1>6 DEF Distinct, Top

-----------------------------------------------------------------------------
(* What is on the stacks and deferred.                                     *)

\* A task runs, or is at its end, while it is on the stack of its loop; at its end it is on top.
TaskRuns(t) ==
    /\ state[t] # "created" => t \in started
    /\ \A l \in Loops : <<"task", t>> \in Frames(l) =>
          state[t] \in {"running", "final"} /\ t \in started \ gone /\ deferred[t] = 0
    /\ state[t] \in {"running", "final"} => <<"task", t>> \in Frames(home(t))
    /\ state[t] = "final" => Top(home(t)) = <<"task", t>>

\* Where a wrapper may be: it asks at home, delivers where it is resumed, and may outlast the co_await
\* when that is on another loop.
WrapperAt(l, t) ==
    \/ /\ state[t] = "awaiting" /\ t \notin gone
       /\ \/ wrapper[t] \in {"asking", "asked", "passing"} /\ l = home(t)
          \/ wrapper[t] = "delivering" /\ l \in {home(t), home(Awaited(t))}
          \/ wrapper[t] = "passing" /\ l = home(Awaited(t))
    \/ wrapper[t] = "passing" /\ l # home(t) /\ state[t] \in {"final", "done"}

\* A wrapper that runs is on top of its stack.
WrapperRuns(t) ==
    /\ \A l \in Loops : <<"wrapper", t>> \in Frames(l) => Top(l) = <<"wrapper", t>> /\ WrapperAt(l, t)
    /\ state[t] = "awaiting" /\ wrapper[t] \in {"asking", "asked"} => <<"wrapper", t>> \in Frames(home(t))

\* A resumption is deferred once, for a task that was not begun, that sleeps, or whose co_await of a
\* task of another loop is over.
Suspended(t) == \/ state[t] = "created" /\ t \notin started
                \/ state[t] = "asleep"
                \/ /\ state[t] = "awaiting" /\ wrapper[t] \in {"passing", "done"}
                   /\ home(Awaited(t)) # home(t) /\ <<"wrapper", t>> \notin Frames(home(t))

DeferredOnce(t) == t \notin gone => deferred[t] <= 1 /\ (deferred[t] = 1 => Suspended(t))

Controlled(t) == TaskRuns(t) /\ WrapperRuns(t) /\ DeferredOnce(t)
Control == Distinct /\ \A t \in Tasks : Controlled(t)

LEMMA ControlInit == Init => Control
<1> SUFFICES ASSUME Init PROVE Control
  OBVIOUS
<1>1. \A l \in Loops : Frames(l) = {} /\ DOMAIN stack[l] = {}
  BY DEF Init, Frames, ToSet
<1> QED
  BY <1>1 DEF Init, Control, Controlled, Distinct, TaskRuns, WrapperRuns, DeferredOnce

LEMMA HomeIs == Inv => \A t \in Tasks : home(t) \in Loops
  BY TaskAssumption DEF Inv, IsProgram, home

LEMMA OnTop ==
    ASSUME Inv, NEW l \in Loops, NEW kind, NEW t, Running(l, kind, t)
    PROVE  <<kind, t>> \in Frames(l) /\ Top(l) = <<kind, t>> /\ stack[l] # <<>>
  BY FramesAre DEF Running, Top

LEMMA TaskOnTop ==
    ASSUME Inv, Control, NEW l \in Loops, NEW t \in Tasks, Running(l, "task", t)
    PROVE  /\ home(t) = l /\ t \in started \ gone /\ deferred[t] = 0 /\ Top(l) = <<"task", t>>
           /\ <<"task", t>> \in Frames(l) /\ stack[l] # <<>>
           /\ \A s \in Tasks : <<"wrapper", s>> \notin Frames(l)
           /\ \A s \in Tasks \ {t} : home(s) = l => state[s] # "final"
<1>1. <<"task", t>> \in Frames(l) /\ Top(l) = <<"task", t>> /\ stack[l] # <<>>
  BY OnTop
<1>2. \A s \in Tasks : <<"wrapper", s>> # <<"task", t>>
  OBVIOUS
<1>3. \A s \in Tasks \ {t} : <<"task", s>> # <<"task", t>>
  OBVIOUS
<1> QED
  BY <1>1, <1>2, <1>3, Runs DEF Control, Controlled, TaskRuns, WrapperRuns

LEMMA WrapperOnTop ==
    ASSUME IInv, Control, NEW l \in Loops, NEW t \in Tasks, NEW now, InWrapper(l, t, now)
    PROVE  /\ Top(l) = <<"wrapper", t>> /\ <<"wrapper", t>> \in Frames(l) /\ stack[l] # <<>>
           /\ WrapperAt(l, t) /\ wrapper[t] = now
           /\ \A s \in Tasks : home(s) = l => state[s] # "final"
           /\ \A s \in Tasks \ {t} : <<"wrapper", s>> \notin Frames(l)
           /\ \A m \in Loops \ {l} : <<"wrapper", t>> \notin Frames(m)
           /\ <<"task", t>> \in Frames(l) => state[t] = "running"
<1>1. Top(l) = <<"wrapper", t>> /\ <<"wrapper", t>> \in Frames(l) /\ stack[l] # <<>> /\ wrapper[t] = now
  BY OnTop DEF InWrapper, IInv
<1>2. \A s \in Tasks : <<"wrapper", t>> # <<"task", s>>
  OBVIOUS
<1>3. \A s \in Tasks \ {t} : <<"wrapper", s>> # <<"wrapper", t>>
  OBVIOUS
<1>4. \A s \in Tasks : TaskRuns(s) /\ WrapperRuns(s)
  BY DEF Control, Controlled
<1>5. \A s \in Tasks : home(s) = l => state[s] # "final"
  BY <1>1, <1>2, <1>4 DEF TaskRuns
<1>6. \A s \in Tasks \ {t} : <<"wrapper", s>> \notin Frames(l)
  BY <1>1, <1>3, <1>4 DEF WrapperRuns
<1>7. \A m \in Loops \ {l} : <<"wrapper", t>> \notin Frames(m)
  BY <1>1, FramesAre DEF Control, Distinct, IInv
<1>8. <<"task", t>> \in Frames(l) => state[t] = "running"
  <2> SUFFICES ASSUME <<"task", t>> \in Frames(l) PROVE state[t] = "running"
    OBVIOUS
  <2>1. home(t) = l
    <3>1. PICK i \in DOMAIN stack[l] : stack[l][i] = <<"task", t>>
      BY FramesAre DEF IInv
    <3>2. stack[l] \in Seq(Own(l))
      BY DEF IInv, Inv, Stacks
    <3>3. <<"task", t>> \in Own(l)
      BY <3>1, <3>2
    <3> QED
      BY <3>3 DEF Own
  <2> QED
    BY <2>1, <1>4, <1>5 DEF TaskRuns
<1> QED
  BY <1>1, <1>4, <1>5, <1>6, <1>7, <1>8 DEF WrapperRuns

\* A step that does nothing to s, or only moves it forth while it runs.
Still(s) == /\ state'[s] = state[s] /\ wrapper'[s] = wrapper[s] /\ deferred'[s] = deferred[s]
            /\ at'[s] = at[s] \/ state[s] = "running"
            /\ s \in started' \ started => deferred[s] = 0

StillOn(s) == \A m \in Loops : \A kind \in {"task", "wrapper"} :
                 /\ <<kind, s>> \in Frames(m)' <=> <<kind, s>> \in Frames(m)
                 /\ <<kind, s>> \in Frames(m) /\ Top(m) = <<kind, s>> =>
                       Top(m)' = Top(m) \/ (kind = "task" /\ state[s] = "running")

\* Frames are destroyed at rest, so what a step leaves alone stays as it is.
Steady == program' = program /\ DestroysAtRest /\ gone \subseteq gone' /\ started \subseteq started'

LEMMA Untouched ==
    ASSUME IInv, Control, Steady, NEW s \in Tasks, Still(s), StillOn(s)
    PROVE  Controlled(s)'
<1> PICK h \in Loops : h = home(s)
  BY HomeIs DEF IInv
<1>1. home(s)' = h
  BY DEF home, Steady
<1>2. state[s] = "awaiting" => home(Awaited(s))' = home(Awaited(s))
  BY DEF Steady, Still, home, Awaited
<1>3. s \in gone' \ gone => /\ \A m \in Loops : <<"task", s>> \notin Frames(m)
                            /\ state[s] = "awaiting" => \A m \in Loops : <<"wrapper", s>> \notin Frames(m)
  BY DEF Steady, Still, StillOn, DestroysAtRest, InUse, Asking, OnStack
<1>4. TaskRuns(s) /\ WrapperRuns(s) /\ DeferredOnce(s)
  BY DEF Control, Controlled
<1>5. TaskRuns(s)'
  <2>1. state[s] = "final" => Top(h)' = <<"task", s>>
    BY <1>4 DEF StillOn, TaskRuns
  <2>2. <<"task", s>> \in Frames(h) => <<"task", s>> \in Frames(h)'
    BY DEF StillOn
  <2> QED
    BY <1>1, <1>3, <1>4, <2>1, <2>2 DEF TaskRuns, Still, StillOn, Steady
<1>6. WrapperRuns(s)'
  <2>1. ASSUME NEW m \in Loops, <<"wrapper", s>> \in Frames(m)' PROVE (Top(m) = <<"wrapper", s>> /\ WrapperAt(m, s))'
    <3>1. <<"wrapper", s>> \in Frames(m) /\ Top(m)' = <<"wrapper", s>> /\ WrapperAt(m, s)
      BY <2>1, <1>4 DEF WrapperRuns, StillOn
    <3>2. state[s] = "awaiting" /\ s \notin gone => s \notin gone'
      BY <3>1, <1>3
    <3> QED
      BY <3>1, <3>2, <1>1, <1>2 DEF WrapperAt, Still
  <2>2. <<"wrapper", s>> \in Frames(h) => <<"wrapper", s>> \in Frames(h)'
    BY DEF StillOn
  <2> QED
    BY <1>1, <1>4, <2>1, <2>2 DEF WrapperRuns, Still
<1>7. DeferredOnce(s)'
  <2>1. <<"wrapper", s>> \notin Frames(h) => <<"wrapper", s>> \notin Frames(h)'
    BY DEF StillOn
  <2> QED
    BY <1>1, <1>2, <1>4, <2>1 DEF DeferredOnce, Suspended, Still, Steady
<1> QED
  BY <1>5, <1>6, <1>7 DEF Controlled

LEMMA StackStays == UNCHANGED stack => \A s \in Tasks : StillOn(s)
  BY DEF StillOn, Frames, Top

\* Who else is on the stack that moves stays there; only a running task is covered, or uncovered.
LEMMA PushStays ==
    ASSUME Inv, Distinct, NEW l \in Loops, NEW c \in Coroutines, Push(l, c), ~OnStack(c),
           stack[l] = <<>> \/ \E t \in Tasks : In(l, t)
    PROVE  \A s \in Tasks : c \notin {<<"task", s>>, <<"wrapper", s>>} => StillOn(s)
<1>1. /\ Frames(l)' = Frames(l) \cup {c} /\ \A m \in Loops \ {l} : stack'[m] = stack[m]
  BY Pushes
<1>2. \A m \in Loops \ {l} : Frames(m)' = Frames(m) /\ Top(m)' = Top(m)
  BY <1>1 DEF Frames, Top
<1> SUFFICES ASSUME NEW s \in Tasks, c \notin {<<"task", s>>, <<"wrapper", s>>},
                    NEW m \in Loops, NEW kind \in {"task", "wrapper"}
             PROVE  /\ <<kind, s>> \in Frames(m)' <=> <<kind, s>> \in Frames(m)
                    /\ <<kind, s>> \in Frames(m) /\ Top(m) = <<kind, s>> =>
                          Top(m)' = Top(m) \/ (kind = "task" /\ state[s] = "running")
  BY DEF StillOn
<1>3. <<kind, s>> \in Frames(m)' <=> <<kind, s>> \in Frames(m)
  BY <1>1, <1>2
<1>4. ASSUME m = l, <<kind, s>> \in Frames(m), Top(m) = <<kind, s>> PROVE kind = "task" /\ state[s] = "running"
  <2>1. stack[l] # <<>>
    BY <1>4, FramesAre DEF Frames, ToSet
  <2> QED
    BY <2>1, <1>4 DEF In, Running, Top
<1> QED
  BY <1>2, <1>3, <1>4

LEMMA SwitchStays ==
    ASSUME Inv, Distinct, NEW l \in Loops, NEW c \in Coroutines, Switch(l, c), stack[l] # <<>>, ~OnStack(c)
    PROVE  \A s \in Tasks : {c, Top(l)} \cap {<<"task", s>>, <<"wrapper", s>>} = {} => StillOn(s)
<1>1. /\ Frames(l)' = (Frames(l) \ {Top(l)}) \cup {c} /\ \A m \in Loops \ {l} : stack'[m] = stack[m]
  BY Switches
<1>2. \A m \in Loops \ {l} : Frames(m)' = Frames(m) /\ Top(m)' = Top(m)
  BY <1>1 DEF Frames, Top
<1> QED
  BY <1>1, <1>2 DEF StillOn

LEMMA PopStays ==
    ASSUME Inv, Distinct, NEW l \in Loops, Pop(l), stack[l] # <<>>
    PROVE  \A s \in Tasks : Top(l) \notin {<<"task", s>>, <<"wrapper", s>>} => StillOn(s)
<1>1. /\ Frames(l)' = Frames(l) \ {Top(l)} /\ \A m \in Loops \ {l} : stack'[m] = stack[m]
  BY Pops
<1>2. \A m \in Loops \ {l} : Frames(m)' = Frames(m) /\ Top(m)' = Top(m)
  BY <1>1 DEF Frames, Top
<1> QED
  BY <1>1, <1>2 DEF StillOn

\* A task that has the loop goes on, or comes to its end.
LEMMA BodyStep ==
    ASSUME IInv, Control, Steady, NEW l \in Loops, NEW t \in Tasks, In(l, t),
           UNCHANGED <<stack, deferred, wrapper>>,
           state' = state \/ state' = [state EXCEPT ![t] = "final"],
           \A s \in Tasks \ {t} : at'[s] = at[s],
           \A s \in started' \ started : deferred[s] = 0
    PROVE  Control'
<1>1. /\ home(t) = l /\ t \in started \ gone /\ deferred[t] = 0 /\ Top(l) = <<"task", t>>
      /\ <<"task", t>> \in Frames(l) /\ state[t] = "running"
  BY TaskOnTop DEF In, IInv
<1>2. \A m \in Loops : Frames(m)' = Frames(m) /\ Top(m)' = Top(m)
  BY DEF Frames, Top
<1>3. /\ \A s \in Tasks \ {t} : state'[s] = state[s]
      /\ state'[t] \in {"running", "final"}
  BY <1>1 DEF IInv, BodiesOK
<1>4. Distinct'
  BY DEF Control, Distinct
<1>5. ASSUME NEW s \in Tasks \ {t} PROVE Controlled(s)'
  BY <1>3, Untouched, StackStays DEF Still
<1>6. Controlled(t)'
  <2>1. home(t)' = l /\ home(t) = l
    BY <1>1 DEF home, Steady
  <2>2. t \notin gone'
    BY <1>1, <1>2 DEF DestroysAtRest, InUse, OnStack, Steady
  <2>3. TaskRuns(t) /\ WrapperRuns(t)
    BY DEF Control, Controlled
  <2>4. TaskRuns(t)'
    <3>1. Frames(home(t))' = Frames(home(t)) /\ Top(home(t))' = Top(home(t))
      BY <2>1, <1>2 DEF Frames, Top
    <3> QED
      BY <1>1, <1>2, <1>3, <2>2, <2>3, <3>1 DEF TaskRuns, Steady
  <2>5. WrapperRuns(t)'
    <3>1. ASSUME NEW m \in Loops, <<"wrapper", t>> \in Frames(m)' PROVE (Top(m) = <<"wrapper", t>> /\ WrapperAt(m, t))'
      BY <1>1, <1>2, <2>3, <3>1 DEF WrapperRuns, WrapperAt
    <3> QED
      BY <3>1, <1>3 DEF WrapperRuns
  <2> QED
    BY <1>1, <2>4, <2>5 DEF Controlled, DeferredOnce
<1> QED
  BY <1>4, <1>5, <1>6 DEF Control

\* A task that is resumed at home, with its wrapper off this stack, runs, or ends with an exception.
LEMMA ResumedRuns ==
    ASSUME IInv, Control, Steady, NEW l \in Loops, NEW c \in Tasks, NEW now, Resumed(c, now),
           home(c) = l, c \notin gone, ~OnStack(<<"task", c>>),
           state[c] \in {"created", "asleep", "awaiting"},
           state[c] = "awaiting" => wrapper[c] \in {"passing", "done"},
           c \in started', deferred'[c] = 0,
           \A m \in Loops \ {l} : stack'[m] = stack[m],
           <<"task", c>> \in Frames(l)', Top(l)' = <<"task", c>>, <<"wrapper", c>> \notin Frames(l)',
           wrapper'[c] = wrapper[c] \/ \A m \in Loops \ {l} : <<"wrapper", c>> \notin Frames(m)
    PROVE  Controlled(c)'
<1>1. home(c)' = l
  BY DEF home, Steady
<1>2. \A m \in Loops \ {l} : Frames(m)' = Frames(m) /\ Top(m)' = Top(m)
  BY DEF Frames, Top
<1>3. state'[c] \in {"running", "final"}
  BY DEF Resumed, Done, IInv, BodiesOK
<1>4. c \notin gone'
  BY DEF Steady, DestroysAtRest, InUse, OnStack
<1>5. TaskRuns(c)'
  BY <1>1, <1>2, <1>3, <1>4 DEF TaskRuns, OnStack
<1>6. WrapperRuns(c)'
  <2>1. ASSUME NEW m \in Loops, <<"wrapper", c>> \in Frames(m)' PROVE (Top(m) = <<"wrapper", c>> /\ WrapperAt(m, c))'
    <3>1. m # l /\ <<"wrapper", c>> \in Frames(m) /\ Top(m)' = Top(m) /\ wrapper'[c] = wrapper[c]
      BY <2>1, <1>2
    <3>2. Top(m) = <<"wrapper", c>> /\ WrapperAt(m, c)
      BY <3>1 DEF Control, Controlled, WrapperRuns
    <3>3. state[c] = "awaiting" /\ wrapper[c] = "passing"
      BY <3>1, <3>2 DEF WrapperAt
    <3>4. state'[c] = "final"
      BY <3>1, <3>3 DEF Resumed, Done, IInv, BodiesOK
    <3> QED
      BY <3>1, <3>2, <3>3, <3>4, <1>1 DEF WrapperAt
  <2> QED
    BY <2>1, <1>3 DEF WrapperRuns
<1> QED
  BY <1>5, <1>6 DEF Controlled, DeferredOnce

LEMMA NotOnStack ==
    ASSUME Control, NEW c \in Tasks
    PROVE  /\ state[c] \notin {"running", "final"} => ~OnStack(<<"task", c>>)
           /\ state[c] \notin {"awaiting", "final", "done"} \/ wrapper[c] \in {"none", "waiting", "done"} =>
                 ~OnStack(<<"wrapper", c>>)
  BY DEF Control, Controlled, TaskRuns, WrapperRuns, WrapperAt, OnStack

LEMMA PushResumed ==
    ASSUME IInv, Control, Steady, NEW l \in Loops, NEW c \in Tasks, NEW now \in [Tasks -> Nat],
           \A s \in Tasks : now[s] = at[s] \/ state[s] = "running",
           Push(l, <<"task", c>>), stack[l] = <<>> \/ \E t \in Tasks : In(l, t),
           Resumed(c, now), wrapper' = wrapper,
           home(c) = l, c \notin gone, state[c] \in {"created", "asleep", "awaiting"},
           state[c] = "awaiting" => wrapper[c] \in {"passing", "done"} /\ <<"wrapper", c>> \notin Frames(l),
           started' = started \cup {c}, deferred'[c] = 0, \A s \in Tasks \ {c} : deferred'[s] = deferred[s]
    PROVE  Control'
<1>1. <<"task", c>> \in Coroutines /\ ~OnStack(<<"task", c>>) /\ Distinct
  BY NotOnStack DEF Coroutines, Control
<1>2. /\ Distinct' /\ Frames(l)' = Frames(l) \cup {<<"task", c>>} /\ Top(l)' = <<"task", c>>
      /\ \A m \in Loops \ {l} : stack'[m] = stack[m]
  BY <1>1, Pushes DEF IInv
<1>3. ASSUME NEW s \in Tasks \ {c} PROVE Controlled(s)'
  <2>1. StillOn(s)
    BY <1>1, PushStays DEF IInv
  <2>2. Still(s)
    BY DEF Still, Resumed, IInv, BodiesOK
  <2> QED
    BY <2>1, <2>2, Untouched
<1>4. Controlled(c)'
  <2>1. <<"wrapper", c>> \notin Frames(l)
    BY NotOnStack DEF OnStack
  <2> QED
    BY <1>1, <1>2, <2>1, ResumedRuns
<1> QED
  BY <1>2, <1>3, <1>4 DEF Control

\* A task that was not begun waits for its loop.
LEMMA DefersFresh ==
    ASSUME IInv, Control, Steady, NEW c \in Tasks, Fresh(c), Defer(c),
           UNCHANGED <<state, started>>, wrapper'[c] = wrapper[c], at'[c] = at[c], StillOn(c)
    PROVE  Controlled(c)'
<1>1. \A m \in Loops : <<"task", c>> \notin Frames(m)' /\ <<"wrapper", c>> \notin Frames(m)'
  BY NotOnStack DEF OnStack, Fresh, StillOn
<1>2. deferred'[c] = 1
  BY DEF Fresh, Defer, IInv, RestOK
<1> QED
  BY <1>1, <1>2 DEF Fresh, Controlled, TaskRuns, WrapperRuns, DeferredOnce, Suspended

-----------------------------------------------------------------------------
(* Every action keeps control.                                             *)

LEMMA RunTaskControl ==
    ASSUME IInv, Control, Steady, NEW l \in Loops, run_task(l), Fresh(program.root)
    PROVE  Control'
<1> PICK c \in Tasks : c = program.root
  BY TaskAssumption DEF IInv, Inv, IsProgram
<1>1. at \in [Tasks -> Nat]
  BY DEF IInv, BodiesOK
<1>2. CASE same_loop(l, c)
  <2>1. /\ started' = started \cup {c} /\ Push(l, <<"task", c>>) /\ Resumed(c, at) /\ deferred' = deferred
        /\ stack[l] = <<>> /\ wrapper' = wrapper
    BY <1>2 DEF run_task, start
  <2>2. home(c) = l /\ c \notin gone /\ state[c] = "created" /\ deferred[c] = 0
    BY <1>2 DEF Fresh, same_loop
  <2> QED
    BY <1>1, <2>1, <2>2, PushResumed
<1>3. CASE ~same_loop(l, c)
  <2>1. Defer(c) /\ UNCHANGED <<at, started, stack, state, wrapper>> /\ Fresh(c)
    BY <1>3 DEF run_task, start
  <2>2. ASSUME NEW s \in Tasks \ {c} PROVE Controlled(s)'
    BY <1>1, <2>1, Untouched, StackStays DEF Still, Defer, IInv, RestOK
  <2>3. Controlled(c)'
    BY <1>1, <2>1, DefersFresh, StackStays
  <2> QED
    BY <2>1, <2>2, <2>3 DEF Control, Distinct
<1> QED
  BY <1>2, <1>3

LEMMA RunDeferredControl ==
    ASSUME IInv, Control, Steady, NEW l \in Loops, NEW t \in Tasks, RunDeferred(l, t)
    PROVE  Control'
<1>1. /\ stack[l] = <<>> /\ home(t) = l /\ deferred[t] > 0 /\ wrapper' = wrapper
      /\ deferred' = [deferred EXCEPT ![t] = @ - 1] /\ at \in [Tasks -> Nat] /\ deferred \in [Tasks -> Nat]
  BY DEF RunDeferred, IInv, RestOK, BodiesOK
<1>2. CASE Alive(t)
  <2>1. t \notin gone /\ started' = started \cup {t} /\ Push(l, <<"task", t>>) /\ Resumed(t, at)
    BY <1>2 DEF RunDeferred, Alive
  <2>2. deferred[t] = 1 /\ Suspended(t)
    BY <2>1, <1>1 DEF Control, Controlled, DeferredOnce
  <2>3. /\ state[t] \in {"created", "asleep", "awaiting"}
        /\ state[t] = "awaiting" => wrapper[t] \in {"passing", "done"} /\ <<"wrapper", t>> \notin Frames(l)
    BY <2>2, <1>1 DEF Suspended
  <2>4. deferred'[t] = 0 /\ \A s \in Tasks \ {t} : deferred'[s] = deferred[s]
    BY <1>1, <2>2
  <2> QED
    BY <1>1, <2>1, <2>3, <2>4, PushResumed
<1>3. CASE ~Alive(t)
  <2>1. t \in gone /\ UNCHANGED <<started, stack, bodies, gone>>
    BY <1>3 DEF RunDeferred, Alive
  <2>2. ASSUME NEW s \in Tasks \ {t} PROVE Controlled(s)'
    BY <1>1, <2>1, Untouched, StackStays DEF Still, bodies
  <2>3. Controlled(t)'
    <3>1. \A m \in Loops : Frames(m)' = Frames(m) /\ Top(m)' = Top(m)
      BY <2>1 DEF Frames, Top
    <3>2. TaskRuns(t) /\ WrapperRuns(t)
      BY DEF Control, Controlled
    <3>3. home(t)' = l /\ home(t) = l
      BY <1>1 DEF Steady, home
    <3>4. TaskRuns(t)'
      <4>1. \A m \in Loops : <<"task", t>> \notin Frames(m)
        BY <2>1, <3>2 DEF TaskRuns
      <4>2. state[t] \notin {"running", "final"}
        BY <3>2, <3>3, <4>1 DEF TaskRuns
      <4> QED
        BY <2>1, <3>1, <3>2, <4>1, <4>2 DEF TaskRuns, bodies
    <3>5. WrapperRuns(t)'
      <4>1. state[t] = "awaiting" => wrapper[t] \notin {"asking", "asked"}
        BY <3>2, <2>1, <3>3 DEF WrapperRuns, WrapperAt
      <4>2. \A m \in Loops : <<"wrapper", t>> \in Frames(m) =>
               /\ Top(m) = <<"wrapper", t>> /\ wrapper[t] = "passing"
               /\ m # home(t) /\ state[t] \in {"final", "done"}
        BY <2>1, <3>2 DEF WrapperRuns, WrapperAt
      <4> QED
        BY <4>1, <4>2, <1>1, <2>1, <3>1, <3>3 DEF WrapperRuns, WrapperAt, bodies
    <3> QED
      BY <2>1, <3>4, <3>5 DEF Controlled, DeferredOnce
  <2> QED
    BY <2>1, <2>2, <2>3 DEF Control, Distinct
<1> QED
  BY <1>2, <1>3

LEMMA StartControl ==
    ASSUME IInv, Control, Steady, NEW l \in Loops, NEW t \in Tasks, NEW c \in Tasks, Start(l, t, c), Fresh(c)
    PROVE  Control'
<1>1. In(l, t) /\ wrapper' = wrapper /\ start(l, c, Forth(t, 1))
  BY DEF Start, Does
<1>2. /\ Forth(t, 1) \in [Tasks -> Nat]
      /\ \A s \in Tasks : Forth(t, 1)[s] = at[s] \/ state[s] = "running"
  BY <1>1 DEF Forth, In, IInv, BodiesOK
<1>3. state[c] = "created" /\ c \notin gone /\ deferred[c] = 0 /\ c # t
  BY <1>1 DEF Fresh, In
<1>4. CASE same_loop(l, c)
  <2>1. started' = started \cup {c} /\ Push(l, <<"task", c>>) /\ Resumed(c, Forth(t, 1)) /\ deferred' = deferred
    BY <1>1, <1>4 DEF start
  <2>2. home(c) = l
    BY <1>4 DEF same_loop
  <2> QED
    BY <1>1, <1>2, <1>3, <2>1, <2>2, PushResumed
<1>5. CASE ~same_loop(l, c)
  <2>1. Defer(c) /\ at' = Forth(t, 1) /\ UNCHANGED <<started, stack, state>>
    BY <1>1, <1>5 DEF start
  <2>2. ASSUME NEW s \in Tasks \ {c} PROVE Controlled(s)'
    BY <1>1, <1>2, <2>1, Untouched, StackStays DEF Still, Defer, IInv, RestOK
  <2>3. at'[c] = at[c]
    BY <1>2, <1>3, <2>1
  <2>4. Controlled(c)'
    BY <1>1, <2>1, <2>3, DefersFresh, StackStays
  <2> QED
    BY <2>1, <2>2, <2>4 DEF Control, Distinct
<1> QED
  BY <1>4, <1>5

LEMMA SleepControl ==
    ASSUME IInv, Control, Steady, NEW l \in Loops, NEW t \in Tasks, Sleep(l, t)
    PROVE  Control'
<1>1. /\ In(l, t) /\ state' = [state EXCEPT ![t] = "asleep"] /\ Defer(t) /\ Pop(l)
      /\ UNCHANGED <<wrapper, started>> /\ \A s \in Tasks \ {t} : at'[s] = at[s]
  BY DEF Sleep, Does, Forth, IInv, BodiesOK
<1>2. /\ home(t) = l /\ deferred[t] = 0 /\ Top(l) = <<"task", t>> /\ stack[l] # <<>> /\ t \in started
      /\ <<"task", t>> \in Frames(l)
  BY <1>1, TaskOnTop DEF In, IInv
<1>3. Distinct' /\ Frames(l)' = Frames(l) \ {<<"task", t>>} /\ \A m \in Loops \ {l} : stack'[m] = stack[m]
  BY <1>1, <1>2, Pops DEF Control, IInv
<1>4. ASSUME NEW s \in Tasks \ {t} PROVE Controlled(s)'
  <2>1. StillOn(s)
    BY <1>1, <1>2, PopStays DEF Control, IInv
  <2> QED
    BY <1>1, <2>1, Untouched DEF Still, Defer, IInv, RestOK, BodiesOK
<1>5. Controlled(t)'
  <2>1. \A m \in Loops \ {l} : Frames(m)' = Frames(m)
    BY <1>3 DEF Frames
  <2>2. ~OnStack(<<"wrapper", t>>)
    BY <1>1, NotOnStack DEF In
  <2>3. \A m \in Loops : <<"task", t>> \notin Frames(m)' /\ <<"wrapper", t>> \notin Frames(m)'
    BY <1>2, <1>3, <2>1, <2>2, FramesAre DEF Control, Distinct, OnStack, IInv
  <2>4. state'[t] = "asleep" /\ deferred'[t] = 1
    BY <1>1, <1>2 DEF Defer, IInv, BodiesOK, RestOK
  <2> QED
    BY <1>1, <1>2, <2>3, <2>4 DEF Controlled, TaskRuns, WrapperRuns, DeferredOnce, Suspended
<1> QED
  BY <1>3, <1>4, <1>5 DEF Control

LEMMA AwaitControl ==
    ASSUME IInv, Control, Steady, NEW l \in Loops, NEW t \in Tasks, Await(l, t)
    PROVE  Control'
<1> DEFINE w == <<"wrapper", t>>
<1>1. /\ In(l, t) /\ state' = [state EXCEPT ![t] = "awaiting"] /\ wrapper' = [wrapper EXCEPT ![t] = "asking"]
      /\ Switch(l, w) /\ UNCHANGED <<deferred, at, started, gone>> /\ w \in Coroutines
  BY DEF Await, Does, races, Coroutines
<1>2. /\ home(t) = l /\ deferred[t] = 0 /\ Top(l) = <<"task", t>> /\ stack[l] # <<>> /\ t \in started /\ t \notin gone
      /\ <<"task", t>> \in Frames(l)
  BY <1>1, TaskOnTop DEF In, IInv
<1>3. ~OnStack(w)
  BY <1>1, NotOnStack DEF In
<1>4. /\ Distinct' /\ Frames(l)' = (Frames(l) \ {<<"task", t>>}) \cup {w} /\ Top(l)' = w
      /\ \A m \in Loops \ {l} : stack'[m] = stack[m]
  BY <1>1, <1>2, <1>3, Switches DEF Control, IInv
<1>5. ASSUME NEW s \in Tasks \ {t} PROVE Controlled(s)'
  <2>1. StillOn(s)
    BY <1>1, <1>2, <1>3, SwitchStays DEF Control, IInv
  <2> QED
    BY <1>1, <2>1, Untouched DEF Still, IInv, RestOK, BodiesOK
<1>6. Controlled(t)'
  <2>1. \A m \in Loops \ {l} : Frames(m)' = Frames(m)
    BY <1>4 DEF Frames
  <2>2. \A m \in Loops : <<"task", t>> \notin Frames(m)' /\ (w \in Frames(m)' => m = l)
    BY <1>2, <1>3, <1>4, <2>1, FramesAre DEF Control, Distinct, OnStack, IInv
  <2>3. state'[t] = "awaiting" /\ deferred'[t] = 0 /\ wrapper'[t] = "asking" /\ t \notin gone' /\ home(t)' = l
    BY <1>1, <1>2 DEF IInv, BodiesOK, RestOK, home, Steady
  <2>4. w \in Frames(l)'
    BY <1>4
  <2> QED
    BY <1>1, <1>2, <1>4, <2>2, <2>3, <2>4 DEF Controlled, TaskRuns, WrapperRuns, WrapperAt, DeferredOnce
<1> QED
  BY <1>4, <1>5, <1>6 DEF Control

\* A step that changes the wrapper on top only.
LEMMA WrapperControl ==
    ASSUME IInv, Control, Steady, NEW l \in Loops, NEW t \in Tasks, NEW now \in {"asking", "delivering"},
           InWrapper(l, t, now), UNCHANGED <<stack, bodies, started>>,
           NEW next \in {"asked", "delivering", "passing"}, Wraps(t, next), next = "asked" => now = "asking",
           \A s \in Tasks \ {t} : deferred'[s] = deferred[s], WrapperAt(l, t)', DeferredOnce(t)'
    PROVE  Control'
<1>1. /\ Top(l) = <<"wrapper", t>> /\ <<"wrapper", t>> \in Frames(l) /\ WrapperAt(l, t) /\ wrapper[t] = now
      /\ \A m \in Loops \ {l} : <<"wrapper", t>> \notin Frames(m)
  BY WrapperOnTop
<1>2. \A m \in Loops : Frames(m)' = Frames(m) /\ Top(m)' = Top(m)
  BY DEF Frames, Top
<1>3. ASSUME NEW s \in Tasks \ {t} PROVE Controlled(s)'
  BY Untouched, StackStays DEF Still, Wraps, IInv, RestOK, bodies
<1>4. state'[t] = "awaiting" /\ state[t] = "awaiting" /\ wrapper'[t] = next
  BY <1>1 DEF WrapperAt, bodies, Wraps, IInv, RestOK
<1>5. TaskRuns(t)'
  BY <1>2, <1>4 DEF Control, Controlled, TaskRuns
<1>6. WrapperRuns(t)'
  <2>1. \A m \in Loops : <<"wrapper", t>> \in Frames(m)' => m = l /\ Top(m)' = <<"wrapper", t>>
    BY <1>1, <1>2
  <2>2. next = "asked" => home(t)' = l
    BY <1>1 DEF WrapperAt, home, Steady
  <2>3. <<"wrapper", t>> \in Frames(l)'
    BY <1>1, <1>2
  <2> QED
    BY <1>4, <2>1, <2>2, <2>3 DEF WrapperRuns
<1> QED
  BY <1>3, <1>5, <1>6 DEF Control, Distinct, Controlled

LEMMA AskControl ==
    ASSUME IInv, Control, Steady, NEW l \in Loops, NEW t \in Tasks, Ask(l, t)
    PROVE  Control'
<1>1. /\ InWrapper(l, t, "asking") /\ UNCHANGED <<stack, deferred, bodies, started, gone>>
  BY DEF Ask
<1>2. PICK next \in {"asked", "delivering"} : Wraps(t, next)
  BY DEF Ask
<1>3. WrapperAt(l, t) /\ wrapper[t] = "asking" /\ wrapper'[t] = next
  BY <1>1, <1>2, WrapperOnTop DEF Wraps, IInv, RestOK
<1>4. home(t)' = home(t)
  BY DEF Steady, home
<1>5. WrapperAt(l, t)'
  BY <1>1, <1>3, <1>4 DEF WrapperAt, bodies
<1>6. DeferredOnce(t)'
  BY <1>1, <1>3 DEF DeferredOnce, Suspended, WrapperAt, Control, Controlled
<1> QED
  BY <1>1, <1>2, <1>5, <1>6, WrapperControl

LEMMA DeliverControl ==
    ASSUME IInv, Control, Steady, NEW l \in Loops, NEW t \in Tasks, Deliver(l, t)
    PROVE  Control'
<1>1. /\ InWrapper(l, t, "delivering") /\ Wraps(t, "passing") /\ HandOver(l, t)
      /\ UNCHANGED <<stack, bodies, started, gone>>
  BY DEF Deliver, races
<1>2. /\ WrapperAt(l, t) /\ wrapper[t] = "delivering" /\ wrapper'[t] = "passing"
      /\ \A m \in Loops \ {l} : <<"wrapper", t>> \notin Frames(m)
  BY <1>1, WrapperOnTop DEF Wraps, IInv, RestOK
<1>3. state[t] = "awaiting" /\ t \notin gone /\ l \in {home(t), home(Awaited(t))}
  BY <1>2 DEF WrapperAt
<1>4. home(t)' = home(t) /\ home(Awaited(t))' = home(Awaited(t)) /\ home(t) \in Loops
  BY <1>1, HomeIs DEF Steady, home, Awaited, bodies, IInv
<1>5. WrapperAt(l, t)'
  BY <1>1, <1>2, <1>3, <1>4 DEF WrapperAt, bodies
<1>6. deferred[t] = 0
  BY <1>2, <1>3 DEF DeferredOnce, Suspended, Control, Controlled, IInv, RestOK
<1>7. DeferredOnce(t)' /\ \A s \in Tasks \ {t} : deferred'[s] = deferred[s]
  <2>1. CASE same_loop(l, t)
    BY <1>1, <1>6, <2>1 DEF HandOver, DeferredOnce
  <2>2. CASE ~same_loop(l, t)
    <3>1. deferred'[t] = 1 /\ \A s \in Tasks \ {t} : deferred'[s] = deferred[s]
      BY <1>1, <1>6, <2>2 DEF HandOver, Defer, IInv, RestOK
    <3>2. home(t) # l /\ home(Awaited(t)) = l
      BY <1>3, <2>2 DEF same_loop
    <3> PICK h \in Loops : h = home(t)
      BY <1>4
    <3>3. <<"wrapper", t>> \notin Frames(h)'
      BY <1>1, <1>2, <3>2 DEF Frames
    <3>4. Suspended(t)'
      BY <1>1, <1>2, <1>3, <1>4, <3>2, <3>3 DEF Suspended, bodies
    <3> QED
      BY <3>1, <3>4 DEF DeferredOnce
  <2> QED
    BY <2>1, <2>2
<1> QED
  BY <1>1, <1>5, <1>7, WrapperControl

LEMMA WrapperEndsControl ==
    ASSUME IInv, Control, Steady, NEW l \in Loops, NEW t \in Tasks, WrapperEnds(l, t)
    PROVE  Control'
<1> DEFINE w == <<"wrapper", t>>
           c == <<"task", t>>
<1>1. InWrapper(l, t, "passing") /\ wrapper' = [wrapper EXCEPT ![t] = "done"] /\ UNCHANGED <<deferred, started>>
  BY DEF WrapperEnds, Wraps, AtItsEnd
<1>2. /\ Top(l) = w /\ w \in Frames(l) /\ stack[l] # <<>> /\ WrapperAt(l, t) /\ wrapper[t] = "passing"
      /\ \A m \in Loops \ {l} : w \notin Frames(m)
  BY <1>1, WrapperOnTop
<1>3. wrapper'[t] = "done" /\ \A s \in Tasks \ {t} : wrapper'[s] = wrapper[s]
  BY <1>1 DEF IInv, RestOK
<1>4. CASE same_loop(l, t)
  <2>1. Switch(l, c) /\ Resumed(t, at) /\ home(t) = l /\ c \in Coroutines
    BY <1>4 DEF WrapperEnds, same_loop, Coroutines
  <2>2. state[t] = "awaiting" /\ t \notin gone
    BY <1>2, <2>1 DEF WrapperAt
  <2>3. ~OnStack(c)
    BY <2>2, NotOnStack
  <2>4. deferred[t] = 0
    BY <1>2, <2>1, <2>2 DEF Control, Controlled, DeferredOnce, Suspended, IInv, RestOK
  <2>5. /\ Distinct' /\ Frames(l)' = (Frames(l) \ {w}) \cup {c} /\ Top(l)' = c
        /\ \A m \in Loops \ {l} : stack'[m] = stack[m]
    BY <1>2, <2>1, <2>3, Switches DEF Control, IInv
  <2>6. ASSUME NEW s \in Tasks \ {t} PROVE Controlled(s)'
    <3>1. StillOn(s)
      BY <1>2, <2>1, <2>3, SwitchStays DEF Control, IInv
    <3>2. Still(s)
      BY <1>1, <1>3, <2>1 DEF Still, Resumed, IInv, BodiesOK
    <3> QED
      BY <3>1, <3>2, Untouched
  <2>7. Controlled(t)'
    <3>1. t \in started' /\ deferred'[t] = 0 /\ state[t] \in {"created", "asleep", "awaiting"}
      BY <1>1, <2>2, <2>4 DEF Control, Controlled, TaskRuns
    <3>2. c \in Frames(l)' /\ w \notin Frames(l)'
      BY <2>5
    <3> QED
      BY <1>2, <2>1, <2>2, <2>3, <2>5, <3>1, <3>2, ResumedRuns
  <2> QED
    BY <2>5, <2>6, <2>7 DEF Control
<1>5. CASE ~same_loop(l, t)
  <2>1. Pop(l) /\ UNCHANGED <<bodies, gone>> /\ home(t) # l
    BY <1>5 DEF WrapperEnds, same_loop
  <2>2. /\ Distinct' /\ Frames(l)' = Frames(l) \ {w} /\ \A m \in Loops \ {l} : stack'[m] = stack[m]
    BY <1>2, <2>1, Pops DEF Control, IInv
  <2>3. ASSUME NEW s \in Tasks \ {t} PROVE Controlled(s)'
    <3>1. StillOn(s)
      BY <1>2, <2>1, PopStays DEF Control, IInv
    <3> QED
      BY <1>1, <1>3, <2>1, <3>1, Untouched DEF Still, bodies
  <2>4. Controlled(t)'
    <3> PICK h \in Loops : h = home(t)
      BY HomeIs DEF IInv
    <3>1. home(t)' = h /\ home(Awaited(t))' = home(Awaited(t))
      BY <2>1 DEF Steady, home, Awaited, bodies
    <3>2. \A m \in Loops : w \notin Frames(m)'
      BY <1>2, <2>2 DEF Frames
    <3>3. \A m \in Loops : c \in Frames(m)' <=> c \in Frames(m)
      BY <2>2 DEF Frames
    <3>4. Top(h)' = Top(h)
      BY <2>1, <2>2 DEF Top
    <3>5. TaskRuns(t) /\ DeferredOnce(t)
      BY DEF Control, Controlled
    <3>6. TaskRuns(t)'
      BY <1>1, <2>1, <3>1, <3>3, <3>4, <3>5 DEF TaskRuns, bodies
    <3>7. WrapperRuns(t)'
      BY <1>3, <3>2 DEF WrapperRuns
    <3>8. DeferredOnce(t)'
      BY <1>1, <1>2, <1>3, <2>1, <3>1, <3>2, <3>5 DEF DeferredOnce, Suspended, bodies
    <3> QED
      BY <3>6, <3>7, <3>8 DEF Controlled
  <2> QED
    BY <2>2, <2>3, <2>4 DEF Control
<1> QED
  BY <1>4, <1>5

LEMMA AskAndResumeControl ==
    ASSUME IInv, Control, Steady, NEW l \in Loops, NEW t \in Tasks, NEW c \in Tasks, AskAndResume(l, t, c),
           ~Done(c), c \in started \/ Fresh(c)
    PROVE  Control'
<1> DEFINE w == <<"wrapper", t>>
<1>1. /\ InWrapper(l, t, "asked") /\ wrapper' = [wrapper EXCEPT ![t] = "waiting"]
      /\ \/ c \in started /\ Pop(l) /\ UNCHANGED <<deferred, bodies, started, gone>>
         \/ /\ c \notin started /\ home(c) = l
            /\ started' = started \cup {c}
            /\ Switch(l, <<"task", c>>) /\ Resumed(c, at)
            /\ UNCHANGED deferred
         \/ c \notin started /\ Defer(c) /\ Pop(l) /\ UNCHANGED <<bodies, started, gone>>
  BY DEF AskAndResume, Wraps, LeftAlone, same_loop
<1>2. /\ Top(l) = w /\ w \in Frames(l) /\ stack[l] # <<>> /\ WrapperAt(l, t) /\ wrapper[t] = "asked"
      /\ \A m \in Loops \ {l} : w \notin Frames(m)
  BY <1>1, WrapperOnTop
<1>3. /\ wrapper'[t] = "waiting" /\ \A s \in Tasks \ {t} : wrapper'[s] = wrapper[s]
      /\ state[t] = "awaiting" /\ t \notin gone
  BY <1>1, <1>2 DEF IInv, RestOK, WrapperAt
<1>4. ~OnStack(<<"task", t>>) /\ deferred[t] = 0 /\ t \in started'
  <2>1. ~OnStack(<<"task", t>>)
    BY <1>3, NotOnStack
  <2>2. deferred[t] = 0
    BY <1>2, <1>3 DEF Control, Controlled, DeferredOnce, Suspended, IInv, RestOK
  <2>3. t \in started'
    BY <1>3 DEF Control, Controlled, TaskRuns, Steady
  <2> QED
    BY <2>1, <2>2, <2>3
\* The awaiting task is suspended.
<1>5. ASSUME state'[t] = "awaiting", deferred'[t] = 0, \A m \in Loops \ {l} : stack'[m] = stack[m],
             w \notin Frames(l)', <<"task", t>> \notin Frames(l)'
      PROVE  Controlled(t)'
  <2>1. \A m \in Loops : w \notin Frames(m)' /\ <<"task", t>> \notin Frames(m)'
    BY <1>2, <1>4, <1>5 DEF Frames, OnStack
  <2> QED
    BY <1>3, <1>4, <1>5, <2>1 DEF Controlled, TaskRuns, WrapperRuns, DeferredOnce
<1>6. CASE c \in started /\ Pop(l) /\ UNCHANGED <<deferred, bodies, started, gone>>
  <2>1. /\ Distinct' /\ Frames(l)' = Frames(l) \ {w} /\ \A m \in Loops \ {l} : stack'[m] = stack[m]
    BY <1>2, <1>6, Pops DEF Control, IInv
  <2>2. ASSUME NEW s \in Tasks \ {t} PROVE Controlled(s)'
    <3>1. StillOn(s)
      BY <1>2, <1>6, PopStays DEF Control, IInv
    <3> QED
      BY <1>3, <1>6, <3>1, Untouched DEF Still, bodies
  <2>3. Controlled(t)'
    BY <1>3, <1>4, <1>5, <1>6, <2>1 DEF bodies, OnStack
  <2> QED
    BY <2>1, <2>2, <2>3 DEF Control
<1>7. CASE /\ c \notin started /\ home(c) = l /\ started' = started \cup {c}
           /\ Switch(l, <<"task", c>>) /\ Resumed(c, at) /\ UNCHANGED deferred
  <2>1. /\ c \notin gone /\ state[c] = "created" /\ deferred[c] = 0 /\ c # t /\ <<"task", c>> \in Coroutines
    BY <1>3, <1>7 DEF Fresh, Coroutines
  <2>2. ~OnStack(<<"task", c>>)
    BY <2>1, NotOnStack
  <2>3. /\ Distinct' /\ Frames(l)' = (Frames(l) \ {w}) \cup {<<"task", c>>} /\ Top(l)' = <<"task", c>>
        /\ \A m \in Loops \ {l} : stack'[m] = stack[m]
    BY <1>2, <1>7, <2>1, <2>2, Switches DEF Control, IInv
  <2>4. ASSUME NEW s \in Tasks \ {t, c} PROVE Controlled(s)'
    <3>1. StillOn(s)
      BY <1>2, <1>7, <2>1, <2>2, SwitchStays DEF Control, IInv
    <3>2. Still(s)
      BY <1>3, <1>7 DEF Still, Resumed, IInv, BodiesOK
    <3> QED
      BY <3>1, <3>2, Untouched
  <2>5. Controlled(t)'
    <3>1. state'[t] = "awaiting"
      BY <1>3, <1>7, <2>1 DEF Resumed, IInv, BodiesOK
    <3> QED
      BY <1>4, <1>5, <1>7, <2>1, <2>3, <3>1 DEF OnStack
  <2>6. Controlled(c)'
    <3>1. c \in started' /\ deferred'[c] = 0 /\ wrapper'[c] = wrapper[c] /\ state[c] \in {"created", "asleep", "awaiting"}
      BY <1>3, <1>7, <2>1
    <3>2. ~OnStack(<<"wrapper", c>>)
      BY <2>1, NotOnStack
    <3>3. <<"task", c>> \in Frames(l)' /\ <<"wrapper", c>> \notin Frames(l)'
      BY <2>3, <3>2 DEF OnStack
    <3> QED
      BY <1>7, <2>1, <2>2, <2>3, <3>1, <3>3, ResumedRuns
  <2> QED
    BY <2>3, <2>4, <2>5, <2>6 DEF Control
<1>8. CASE c \notin started /\ Defer(c) /\ Pop(l) /\ UNCHANGED <<bodies, started, gone>>
  <2>1. /\ Distinct' /\ Frames(l)' = Frames(l) \ {w} /\ \A m \in Loops \ {l} : stack'[m] = stack[m]
    BY <1>2, <1>8, Pops DEF Control, IInv
  <2>2. Fresh(c) /\ c # t
    BY <1>3, <1>8 DEF Fresh
  <2>3. \A s \in Tasks \ {t} : StillOn(s)
    BY <1>2, <1>8, PopStays DEF Control, IInv
  <2>4. ASSUME NEW s \in Tasks \ {t, c} PROVE Controlled(s)'
    BY <1>3, <1>8, <2>3, Untouched DEF Still, bodies, Defer, IInv, RestOK
  <2>5. Controlled(c)'
    BY <1>3, <1>8, <2>2, <2>3, DefersFresh DEF bodies
  <2>6. Controlled(t)'
    <3>1. state'[t] = "awaiting" /\ deferred'[t] = 0
      BY <1>3, <1>4, <1>8, <2>2 DEF bodies, Defer, IInv, RestOK
    <3> QED
      BY <1>4, <1>5, <2>1, <3>1 DEF OnStack
  <2> QED
    BY <2>1, <2>4, <2>5, <2>6 DEF Control
<1> QED
  BY <1>1, <1>6, <1>7, <1>8

\* What goes on when a task ends is suspended: the wrapper that waits for it, or the dummy of a race.
LEMMA FinalSuspendControl ==
    ASSUME IInv, Control, Steady, NEW l \in Loops, NEW t \in Tasks, FinalSuspend(l, t),
           \A u \in Tasks : parent[t] = <<"wrapper", u>> =>
              u \notin gone /\ state[u] = "awaiting" /\ Awaited(u) = t /\ wrapper[u] = "waiting",
           \A d \in Tasks : parent[t] = <<"task", d>> =>
              state[d] = "created" /\ d \in started \ gone /\ deferred[d] = 0
    PROVE  Control'
<1> DEFINE c == <<"task", t>>
<1>1. /\ Running(l, "task", t) /\ state[t] = "final" /\ Continue(l, parent[t])
      /\ state' = [s \in Tasks |-> IF s = t THEN "done"
                                   ELSE IF parent[t] = <<"task", s>> /\ ~Done(s) THEN "running" ELSE state[s]]
      /\ UNCHANGED <<deferred, at, started, gone>>
  BY DEF FinalSuspend
<1>2. /\ home(t) = l /\ t \in started \ gone /\ deferred[t] = 0 /\ Top(l) = c /\ c \in Frames(l) /\ stack[l] # <<>>
      /\ \A m \in Loops \ {l} : c \notin Frames(m)
  <2>1. /\ home(t) = l /\ t \in started \ gone /\ deferred[t] = 0 /\ Top(l) = c /\ c \in Frames(l) /\ stack[l] # <<>>
    BY <1>1, TaskOnTop DEF IInv
  <2> QED
    BY <2>1, FramesAre DEF Control, Distinct, IInv
<1>3. parent[t] \in Own(l) \cup {None}
  BY <1>2 DEF IInv, Inv, Parents
\* The task has left, and its wrapper is where it was.
<1>4. ASSUME Frames(l)' \subseteq (Frames(l) \ {c}) \cup {parent[t]}, parent[t] # c,
             \A m \in Loops \ {l} : stack'[m] = stack[m], wrapper'[t] = wrapper[t],
             parent[t] # <<"wrapper", t>>
      PROVE  Controlled(t)'
  <2>1. \A m \in Loops : c \notin Frames(m)'
    BY <1>2, <1>4 DEF Frames
  <2>2. state'[t] = "done" /\ deferred'[t] = 0 /\ t \in started'
    BY <1>1, <1>2
  <2>3. WrapperRuns(t)'
    <3>1. ASSUME NEW m \in Loops, <<"wrapper", t>> \in Frames(m)' PROVE (Top(m) = <<"wrapper", t>> /\ WrapperAt(m, t))'
      <4>1. m # l
        <5>1. <<"wrapper", t>> \notin Frames(l)
          BY <1>1, TaskOnTop DEF IInv
        <5> QED
          BY <1>4, <3>1, <5>1
      <4>2. Top(m)' = Top(m) /\ Frames(m)' = Frames(m) /\ home(t)' = home(t)
        BY <1>4, <4>1 DEF Top, Frames, home, Steady
      <4>3. Top(m) = <<"wrapper", t>> /\ WrapperAt(m, t)
        BY <3>1, <4>2 DEF Control, Controlled, WrapperRuns
      <4> QED
        BY <1>1, <1>2, <1>4, <2>2, <4>1, <4>2, <4>3 DEF WrapperAt
    <3> QED
      BY <3>1, <2>2 DEF WrapperRuns
  <2> QED
    BY <2>1, <2>2, <2>3 DEF Controlled, TaskRuns, DeferredOnce
<1>5. CASE parent[t] = None
  <2>1. Pop(l) /\ wrapper' = wrapper
    BY <1>1, <1>5 DEF Continue, Ends, None
  <2>2. /\ Distinct' /\ Frames(l)' = Frames(l) \ {c} /\ \A m \in Loops \ {l} : stack'[m] = stack[m]
    BY <1>2, <2>1, Pops DEF Control, IInv
  <2>3. ASSUME NEW s \in Tasks \ {t} PROVE Controlled(s)'
    <3>1. StillOn(s)
      BY <1>2, <2>1, PopStays DEF Control, IInv
    <3>2. state'[s] = state[s]
      BY <1>1, <1>5 DEF None
    <3> QED
      BY <1>1, <2>1, <3>1, <3>2, Untouched DEF Still
  <2>4. Controlled(t)'
    BY <1>4, <1>5, <2>1, <2>2 DEF None
  <2> QED
    BY <2>2, <2>3, <2>4 DEF Control
<1>6. CASE parent[t] \in Own(l) /\ parent[t][1] = "wrapper"
  <2>1. PICK u \in Tasks : parent[t] = <<"wrapper", u>>
    BY <1>6 DEF Own, Coroutines
  <2> DEFINE w == <<"wrapper", u>>
  <2>2. u \notin gone /\ state[u] = "awaiting" /\ Awaited(u) = t /\ wrapper[u] = "waiting" /\ u # t
    BY <1>1, <2>1
  <2>3. Switch(l, w) /\ wrapper' = [wrapper EXCEPT ![u] = "delivering"] /\ w \in Coroutines
    BY <1>1, <2>1 DEF Continue, Coroutines
  <2>4. ~OnStack(w) /\ ~OnStack(<<"task", u>>)
    BY <2>2, NotOnStack
  <2>5. /\ Distinct' /\ Frames(l)' = (Frames(l) \ {c}) \cup {w} /\ Top(l)' = w
        /\ \A m \in Loops \ {l} : stack'[m] = stack[m]
    BY <1>2, <2>3, <2>4, Switches DEF Control, IInv
  <2>6. \A s \in Tasks \ {t} : state'[s] = state[s]
    BY <1>1, <2>1
  <2>7. ASSUME NEW s \in Tasks \ {t, u} PROVE Controlled(s)'
    <3>1. StillOn(s)
      BY <1>2, <2>3, <2>4, SwitchStays DEF Control, IInv
    <3> QED
      BY <1>1, <2>3, <2>6, <3>1, Untouched DEF Still, IInv, RestOK
  <2>8. Controlled(t)'
    <3>1. wrapper'[t] = wrapper[t]
      BY <2>2, <2>3 DEF IInv, RestOK
    <3> QED
      BY <1>4, <2>1, <2>2, <2>5, <3>1
  <2>9. Controlled(u)'
    <3>1. /\ state'[u] = "awaiting" /\ wrapper'[u] = "delivering" /\ u \notin gone' /\ Awaited(u)' = t
          /\ home(t)' = l /\ deferred'[u] = deferred[u]
      BY <1>1, <1>2, <2>2, <2>3, <2>6 DEF IInv, RestOK, Awaited, home, Steady
    <3>2. deferred'[u] = 0 /\ u \in started'
      <4>1. deferred[u] = 0
        <5>1. DeferredOnce(u) /\ deferred[u] \in Nat
          BY DEF Control, Controlled, IInv, RestOK
        <5>2. ~Suspended(u)
          BY <2>2 DEF Suspended
        <5> QED
          BY <2>2, <5>1, <5>2 DEF DeferredOnce
      <4>2. u \in started
        BY <2>2 DEF Control, Controlled, TaskRuns
      <4> QED
        BY <1>1, <3>1, <4>1, <4>2
    <3>3. \A m \in Loops : <<"task", u>> \notin Frames(m)' /\ (w \in Frames(m)' => m = l)
      BY <2>2, <2>4, <2>5 DEF OnStack, Frames
    <3>4. home(Awaited(u))' = l
      BY <3>1 DEF home
    <3>5. WrapperAt(l, u)'
      BY <3>1, <3>4 DEF WrapperAt
    <3> QED
      BY <2>5, <3>1, <3>2, <3>3, <3>5 DEF Controlled, TaskRuns, WrapperRuns, DeferredOnce
  <2> QED
    BY <2>5, <2>7, <2>8, <2>9 DEF Control
<1>7. CASE parent[t] \in Own(l) /\ parent[t][1] = "task"
  <2>1. PICK d \in Tasks : parent[t] = <<"task", d>> /\ home(d) = l
    BY <1>7 DEF Own, Coroutines
  <2> DEFINE b == <<"task", d>>
  <2>2. state[d] = "created" /\ d \in started \ gone /\ deferred[d] = 0 /\ d # t
    BY <1>1, <2>1
  <2>3. Switch(l, b) /\ wrapper' = wrapper /\ b \in Coroutines
    BY <1>1, <2>1 DEF Continue, Coroutines
  <2>4. ~OnStack(b) /\ ~OnStack(<<"wrapper", d>>)
    BY <2>2, NotOnStack
  <2>5. /\ Distinct' /\ Frames(l)' = (Frames(l) \ {c}) \cup {b} /\ Top(l)' = b
        /\ \A m \in Loops \ {l} : stack'[m] = stack[m]
    BY <1>2, <2>3, <2>4, Switches DEF Control, IInv
  <2>6. state'[d] = "running" /\ \A s \in Tasks \ {t, d} : state'[s] = state[s]
    BY <1>1, <2>1, <2>2 DEF Done
  <2>7. ASSUME NEW s \in Tasks \ {t, d} PROVE Controlled(s)'
    <3>1. StillOn(s)
      BY <1>2, <2>3, <2>4, SwitchStays DEF Control, IInv
    <3> QED
      BY <1>1, <2>3, <2>6, <3>1, Untouched DEF Still
  <2>8. Controlled(t)'
    BY <1>4, <2>1, <2>2, <2>3, <2>5
  <2>9. Controlled(d)'
    <3>1. \A m \in Loops : <<"wrapper", d>> \notin Frames(m)' /\ (b \in Frames(m)' => m = l)
      BY <2>2, <2>4, <2>5 DEF OnStack, Frames
    <3>2. home(d)' = l /\ deferred'[d] = 0 /\ d \in started' \ gone' /\ b \in Frames(l)'
      BY <1>1, <2>1, <2>2, <2>5 DEF home, Steady
    <3> QED
      BY <2>6, <3>1, <3>2 DEF Controlled, TaskRuns, WrapperRuns, DeferredOnce
  <2> QED
    BY <2>5, <2>7, <2>8, <2>9 DEF Control
<1> QED
  BY <1>3, <1>5, <1>6, <1>7 DEF Own, Coroutines

LEMMA ReturnControl ==
    ASSUME IInv, Control, Steady, NEW l \in Loops, NEW t \in Tasks, Return(l, t)
    PROVE  Control'
  BY BodyStep DEF Return, Leave, control

LEMMA SkipControl ==
    ASSUME IInv, Control, Steady, NEW l \in Loops, NEW t \in Tasks, Skip(l, t)
    PROVE  Control'
<1>1. In(l, t) /\ UNCHANGED <<stack, deferred, wrapper, state, started>>
  BY DEF Skip, Does, Other, control
<1>2. \A s \in Tasks \ {t} : at'[s] = at[s]
  BY DEF Skip, Forth, IInv, BodiesOK
<1> QED
  BY <1>1, <1>2, BodyStep

LEMMA InstantControl ==
    ASSUME IInv, Control, Steady, NEW l \in Loops, NEW t \in Tasks, Instant(l, t)
    PROVE  Control'
<1>1. In(l, t) /\ UNCHANGED <<stack, deferred, wrapper, started>>
  BY DEF Instant, Does, Other, control
<1>2. /\ \A s \in Tasks \ {t} : at'[s] = at[s]
      /\ state' = state \/ state' = [state EXCEPT ![t] = "final"]
  BY DEF Instant, Wins, Leave, Forth, IInv, BodiesOK
<1> QED
  BY <1>1, <1>2, BodyStep

LEMMA DetachControl ==
    ASSUME IInv, Control, Steady, NEW l \in Loops, NEW t \in Tasks, Detach(l, t)
    PROVE  Control'
<1>1. In(l, t) /\ UNCHANGED <<stack, deferred, wrapper, state, started>>
  BY DEF Detach, Does, Other, control
<1>2. \A s \in Tasks \ {t} : at'[s] = at[s]
  BY DEF Detach, Forth, IInv, BodiesOK
<1> QED
  BY <1>1, <1>2, BodyStep

LEMMA AttachControl ==
    ASSUME IInv, Control, Steady, NEW l \in Loops, NEW t \in Tasks, NEW c \in Tasks, Attach(l, t, c),
           deferred[c] = 0
    PROVE  Control'
<1>1. In(l, t) /\ UNCHANGED <<stack, deferred, wrapper, state>> /\ started' = started \cup {c}
  BY DEF Attach, Does, Other, control
<1>2. \A s \in Tasks \ {t} : at'[s] = at[s]
  BY DEF Attach, Forth, IInv, BodiesOK
<1> QED
  BY <1>1, <1>2, BodyStep

LEMMA ChooseIs ==
    ASSUME NEW l, NEW t, Choose(l, t)
    PROVE  /\ Does(l, t, "look") \/ Does(l, t, "choose")
           /\ UNCHANGED <<program, stack, deferred, wrapper, caught, slept, begun, started, parent>>
           /\ \/ Now(t).do = "look" /\ at' = Forth(t, 1) /\ UNCHANGED <<state, threw, early, gone>>
              \/ \E exception : Leave(t, exception)
<1>1. /\ Does(l, t, "look") \/ Does(l, t, "choose")
      /\ UNCHANGED <<program, stack, deferred, wrapper, caught, slept, begun, started, parent>>
  BY DEF Choose, Other, control
<1>2. \E c : \/ Wins(t, c)
             \/ Now(t).do = "look" /\ at' = Forth(t, 1) /\ UNCHANGED <<state, threw, early, gone>>
             \/ Leave(t, TRUE)
  BY DEF Choose
<1> QED
  BY <1>1, <1>2 DEF Wins

LEMMA ChooseControl ==
    ASSUME IInv, Control, Steady, NEW l \in Loops, NEW t \in Tasks, Choose(l, t)
    PROVE  Control'
<1>1. In(l, t) /\ UNCHANGED <<stack, deferred, wrapper, started>>
  BY ChooseIs DEF Does
<1>2. /\ \A s \in Tasks \ {t} : at'[s] = at[s]
      /\ state' = state \/ state' = [state EXCEPT ![t] = "final"]
  BY ChooseIs DEF Leave, Forth, IInv, BodiesOK
<1> QED
  BY <1>1, <1>2, BodyStep

-----------------------------------------------------------------------------
(* What is waited for.                                                     *)

\* What resumes a wrapper when it ends is awaited by it.
ParentWaits(c) ==
    c \notin gone /\ state[c] # "done" =>
       \A t \in Tasks : parent[c] = <<"wrapper", t>> =>
          t \notin gone /\ state[t] = "awaiting" /\ Awaited(t) = c /\ wrapper[t] \in {"asked", "waiting"}

\* Between the halves of await_suspend(), what is awaited was started on this loop, or is nobody else's.
Asks(t) ==
    state[t] = "awaiting" /\ wrapper[t] = "asked" =>
       /\ Awaited(t) \notin gone /\ ~Done(Awaited(t))
       /\ \/ Awaited(t) \in started /\ home(Awaited(t)) = home(t)
          \/ Fresh(Awaited(t)) /\ parent[Awaited(t)] = <<"wrapper", t>>

Unbegun(t) == state[t] = "created" => at[t] = 1

\* A race has started what it launched.
Launched(t) == \A i \in DOMAIN program.body[t] :
                  i < at[t] /\ program.body[t][i].do = "launch" => program.body[t][i].of \in started

NotBegun == ~begun => gone = {} /\ started = {} /\ \A t \in Tasks : state[t] = "created" /\ deferred[t] = 0

Waits == NotBegun /\ \A t \in Tasks : ParentWaits(t) /\ Asks(t) /\ Unbegun(t) /\ Launched(t)

\* A race that has attached its dummy keeps the loop until it awaits it, but for the start of the
\* timer; the dummy runs once one of the raced tasks ends, and then the race has the loop again.
RaceRuns(r) ==
    state[r] = "running" /\ at[r] > Attaching(r) =>
       \/ Running(home(r), "task", r)
       \/ /\ at[r] = Parking(r) /\ Timer(r) # NoTask
          /\ Running(home(r), "task", Timer(r)) /\ state[Timer(r)] = "running" /\ at[Timer(r)] = 1
          /\ Len(stack[home(r)]) > 1 /\ stack[home(r)][2] = <<"task", r>>

RaceWaits(r) ==
    state[r] = "awaiting" =>
       /\ at[r] = Parking(r) /\ r \notin caught
       /\ \/ wrapper[r] = "asking" /\ state[Dummy(r)] = "created" /\ parent[Dummy(r)] = None
          \/ wrapper[r] = "asked" /\ state[Dummy(r)] = "created" /\ parent[Dummy(r)] = <<"wrapper", r>>
          \/ /\ wrapper[r] = "waiting" /\ parent[Dummy(r)] = <<"wrapper", r>>
             /\ state[Dummy(r)] = "created" \/ Running(home(r), "task", Dummy(r))
          \/ /\ wrapper[r] \in {"delivering", "passing"}
             /\ state[Dummy(r)] = "done" /\ Running(home(r), "wrapper", r)

DummyIs(r) ==
    state[r] = "running" => IF at[r] <= Parking(r) THEN state[Dummy(r)] = "created" /\ parent[Dummy(r)] = None
                                                   ELSE state[Dummy(r)] = "done"

RaceLives(r) == RaceRuns(r) /\ RaceWaits(r) /\ DummyIs(r)

DummyOf(r) == /\ state[Dummy(r)] \in {"created", "running", "final", "done"}
              /\ deferred[Dummy(r)] = 0 /\ Dummy(r) \notin threw
              /\ IF at[r] <= Attaching(r)
                 THEN state[Dummy(r)] = "created" /\ Dummy(r) \notin started /\ parent[Dummy(r)] = None
                 ELSE Dummy(r) \in started

RaceAt(r) == /\ DummyOf(r) /\ at[r] <= Ending(r) /\ state[r] # "asleep"
             /\ r \notin gone /\ ~Done(r) => RaceLives(r) /\ {Dummy(r), Timer(r)} \cap gone = {}

\* What resumes a dummy when it ends is raced by a race that has not chosen yet.
Racing(r, c) == /\ c \in ToSet(List(r)) \cup {Timer(r)}
                /\ r \notin gone /\ at[r] > Attaching(r) /\ state[r] \in {"running", "awaiting"}
                /\ at[r] = Ending(r) => c = Timer(r)

ParentRaces(c) ==
    c \notin gone /\ state[c] # "done" =>
       \A d \in Tasks : parent[c] = <<"task", d>> => \E r \in RaceTasks : d = Dummy(r) /\ Racing(r, c)

RacesAre == (\A r \in RaceTasks : RaceAt(r)) /\ \A c \in Tasks : ParentRaces(c)

\* A wrapper is found unended only when what was awaited is on another loop.
EarlyOnly == \A t \in early : \E i \in DOMAIN program.body[t] :
                program.body[t][i].do = "await" /\ home(program.body[t][i].of) # home(t)

Sound == IInv /\ Control /\ Waits /\ RacesAre /\ EarlyOnly

-----------------------------------------------------------------------------
(* What steps do.                                                          *)

LEMMA SteadyStep ==
    ASSUME DestroysAtRest, NEW l \in Loops, ThreadStep(l)
    PROVE  Steady
<1> SUFFICES program' = program /\ gone \subseteq gone' /\ started \subseteq started'
  BY DEF Steady
<1>1. CASE run_task(l)
  BY <1>1 DEF run_task, start, Resumed
<1> SUFFICES ASSUME NEW t \in Tasks,
                    \/ RunDeferred(l, t) \/ Sleep(l, t) \/ Await(l, t) \/ Return(l, t) \/ FinalSuspend(l, t)
                    \/ Skip(l, t) \/ Instant(l, t) \/ Detach(l, t) \/ Choose(l, t)
                    \/ Ask(l, t) \/ Deliver(l, t) \/ WrapperEnds(l, t)
                    \/ \E c \in Tasks : Start(l, t, c) \/ Attach(l, t, c) \/ AskAndResume(l, t, c)
             PROVE  program' = program /\ gone \subseteq gone' /\ started \subseteq started'
  BY <1>1 DEF ThreadStep
<1>2. CASE RunDeferred(l, t)
  BY <1>2 DEF RunDeferred, Resumed
<1>3. CASE Sleep(l, t) \/ Await(l, t) \/ FinalSuspend(l, t) \/ Deliver(l, t) \/ Ask(l, t)
  BY <1>3 DEF Sleep, Await, FinalSuspend, Deliver, Ask, races
<1>4. CASE Return(l, t)
  BY <1>4 DEF Return, Leave
<1>5. CASE Skip(l, t) \/ Detach(l, t)
  BY <1>5 DEF Skip, Detach, Other, races
<1>6. CASE Instant(l, t)
  BY <1>6 DEF Instant, Other, Wins, Leave, races
<1>7. CASE Choose(l, t)
  BY <1>7, ChooseIs DEF Leave
<1>8. CASE WrapperEnds(l, t)
  BY <1>8 DEF WrapperEnds, Resumed
<1>9. ASSUME NEW c \in Tasks, Start(l, t, c) PROVE program' = program /\ gone \subseteq gone' /\ started \subseteq started'
  BY <1>9 DEF Start, start, Resumed
<1>10. ASSUME NEW c \in Tasks, Attach(l, t, c) PROVE program' = program /\ gone \subseteq gone' /\ started \subseteq started'
  BY <1>10 DEF Attach, Other, races
<1>11. ASSUME NEW c \in Tasks, AskAndResume(l, t, c) PROVE program' = program /\ gone \subseteq gone' /\ started \subseteq started'
  BY <1>11 DEF AskAndResume, Resumed
<1> QED
  BY <1>2, <1>3, <1>4, <1>5, <1>6, <1>7, <1>8, <1>9, <1>10, <1>11

\* What is destroyed is the locals of a task that ends, or the temporaries of a co_await that is over.
DestroyedBy(s) == \/ gone' = gone
                  \/ gone' = gone \cup program.locals[s] /\ state'[s] = "final"
                  \/ \E c \in Tasks : \/ gone' = gone \cup program.temporaries[c]
                                      \/ gone' = gone \cup program.temporaries[c] \cup program.locals[s] /\ state'[s] = "final"

LEMMA ResumedDestroys ==
    ASSUME IInv, NEW t \in Tasks, NEW now, Resumed(t, now)
    PROVE  DestroyedBy(t)
<1>1. CASE state[t] = "awaiting"
  <2>1. Awaited(t) \in Tasks
    BY <1>1, InstructionIs DEF IInv, BodiesOK, Awaits, Awaited, Now
  <2> DEFINE throws == t \in caught \/ ~(wrapper'[t] = "done")
  <2>2. gone' = gone \cup program.temporaries[Awaited(t)] \cup (IF throws THEN program.locals[t] ELSE {})
    BY <1>1 DEF Resumed
  <2>3. throws => state'[t] = "final"
    BY <1>1 DEF Resumed, Done, IInv, BodiesOK
  <2> HIDE DEF throws
  <2> QED
    BY <2>1, <2>2, <2>3 DEF DestroyedBy
<1>2. CASE state[t] # "awaiting"
  <2>1. gone' = gone
    BY <1>2 DEF Resumed
  <2> QED
    BY <2>1 DEF DestroyedBy
<1> QED
  BY <1>1, <1>2

LEMMA Destroys ==
    ASSUME IInv, NEW l \in Loops, ThreadStep(l)
    PROVE  \E s \in Tasks : DestroyedBy(s)
<1>0. program.root \in Tasks
  BY TaskAssumption DEF IInv, Inv, IsProgram
<1>1. CASE run_task(l)
  <2>1. DestroyedBy(program.root)
    <3>1. CASE gone' = gone
      BY <3>1 DEF DestroyedBy
    <3>2. CASE Resumed(program.root, at)
      BY <1>0, <3>2, ResumedDestroys
    <3> QED
      BY <1>1, <3>1, <3>2 DEF run_task, start
  <2> QED
    BY <1>0, <2>1
<1> SUFFICES ASSUME NEW t \in Tasks,
                    \/ RunDeferred(l, t) \/ Sleep(l, t) \/ Await(l, t) \/ Return(l, t) \/ FinalSuspend(l, t)
                    \/ Skip(l, t) \/ Instant(l, t) \/ Detach(l, t) \/ Choose(l, t)
                    \/ Ask(l, t) \/ Deliver(l, t) \/ WrapperEnds(l, t)
                    \/ \E c \in Tasks : Start(l, t, c) \/ Attach(l, t, c) \/ AskAndResume(l, t, c)
             PROVE  \E s \in Tasks : DestroyedBy(s)
  BY <1>1 DEF ThreadStep
<1>a. ASSUME gone' = gone PROVE DestroyedBy(t)
  BY <1>a DEF DestroyedBy
<1>b. ASSUME NEW exception, Leave(t, exception) PROVE DestroyedBy(t)
  BY <1>b DEF DestroyedBy, Leave, IInv, BodiesOK
<1>2. CASE RunDeferred(l, t)
  BY <1>2, <1>a, ResumedDestroys DEF RunDeferred
<1>3. CASE Sleep(l, t) \/ Await(l, t) \/ FinalSuspend(l, t) \/ Deliver(l, t) \/ Ask(l, t)
  BY <1>3, <1>a DEF Sleep, Await, FinalSuspend, Deliver, Ask, races
<1>4. CASE Return(l, t)
  BY <1>4, <1>b DEF Return
<1>5. CASE Skip(l, t) \/ Detach(l, t)
  BY <1>5, <1>a DEF Skip, Detach, Other, races
<1>6. CASE Instant(l, t)
  BY <1>6, <1>a, <1>b DEF Instant, Other, Wins, races
<1>7. CASE Choose(l, t)
  BY <1>7, <1>a, <1>b, ChooseIs
<1>8. CASE WrapperEnds(l, t)
  BY <1>8, <1>a, ResumedDestroys DEF WrapperEnds
<1>9. ASSUME NEW c \in Tasks, Start(l, t, c) PROVE \E s \in Tasks : DestroyedBy(s)
  BY <1>9, <1>a, ResumedDestroys DEF Start, start
<1>10. ASSUME NEW c \in Tasks, Attach(l, t, c) PROVE \E s \in Tasks : DestroyedBy(s)
  BY <1>10, <1>a DEF Attach, Other, races
<1>11. ASSUME NEW c \in Tasks, AskAndResume(l, t, c) PROVE \E s \in Tasks : DestroyedBy(s)
  BY <1>11, <1>a, ResumedDestroys DEF AskAndResume
<1> QED
  BY <1>2, <1>3, <1>4, <1>5, <1>6, <1>7, <1>8, <1>9, <1>10, <1>11

\* The dummy and the timer of a race are destroyed when it has ended, or with it.
LEMMA DestroyedWithRace ==
    ASSUME IInv, NEW l \in Loops, ThreadStep(l), NEW r \in RaceTasks, {Dummy(r), Timer(r)} \cap gone = {}
    PROVE  r \in gone' \/ Done(r)' \/ {Dummy(r), Timer(r)} \cap gone' = {}
<1> SUFFICES ASSUME NEW x \in {Dummy(r), Timer(r)} \cap gone' PROVE r \in gone' \/ Done(r)'
  OBVIOUS
<1>1. PICK s \in Tasks : DestroyedBy(s)
  BY Destroys
<1>2. x \in Tasks /\ x \notin gone /\ program \in Programs
  <2>1. gone' \subseteq Tasks
    BY <1>1, TaskAssumption DEF DestroyedBy, IInv, Inv, IsProgram, BodiesOK
  <2> QED
    BY <2>1 DEF IInv, Inv
<1>3. /\ s # r => (x \in program.locals[s] => r \in program.locals[s])
      /\ \A c \in Tasks : x \in program.temporaries[c] => r \in program.temporaries[c]
  BY <1>2, RaceOwns
<1>4. CASE x \in program.locals[s] /\ gone \cup program.locals[s] \subseteq gone' /\ state'[s] = "final"
  BY <1>3, <1>4 DEF Done
<1>5. ASSUME NEW c \in Tasks, x \in program.temporaries[c], gone \cup program.temporaries[c] \subseteq gone'
      PROVE  r \in gone'
  BY <1>3, <1>5
<1> QED
  BY <1>1, <1>2, <1>4, <1>5 DEF DestroyedBy

\* What a race does, by where it is.
LEMMA RaceDoes ==
    ASSUME IInv, NEW r \in RaceTasks
    PROVE  /\ r \in Tasks /\ Dummy(r) \in Tasks /\ at[r] \in Nat /\ 1 <= Attaching(r) /\ Attaching(r) < Parking(r)
           /\ Attaching(r) \in Nat /\ Parking(r) \in Nat /\ Ending(r) = Parking(r) + 2
           /\ Timer(r) # NoTask => Timer(r) \in Tasks /\ Attaching(r) = Parking(r) - 2
           /\ Timer(r) = NoTask => Attaching(r) = Parking(r) - 1
           /\ at[r] <= Ending(r) =>
                 \/ /\ at[r] < Attaching(r) /\ Now(r).do \in {"launch", "instant", "look"}
                    /\ Now(r).do # "look" => Now(r).of \in ToSet(List(r))
                 \/ at[r] = Attaching(r) /\ Now(r) = Do("attach", NoTask)
                 \/ at[r] = Parking(r) - 1 /\ Timer(r) # NoTask /\ Now(r) = Do("start", Timer(r))
                 \/ at[r] = Parking(r) /\ Now(r) = Do("await", Dummy(r))
                 \/ at[r] = Parking(r) + 1 /\ Now(r) = Do("detach", NoTask)
                 \/ at[r] = Parking(r) + 2 /\ Now(r) = Do("choose", NoTask)
<1>1. program \in Programs /\ at[r] \in Nat /\ at[r] >= 1 /\ NoTask \notin Tasks
  BY RaceOwns, TaskAssumption DEF IInv, Inv, BodiesOK, RaceTasks
<1>2. /\ r \in Tasks /\ Dummy(r) \in Tasks /\ Timer(r) \in Tasks \cup {NoTask}
  BY <1>1, RaceOwns
<1>3. /\ Ending(r) \in Nat /\ Attaching(r) \in 1 .. Ending(r)
      /\ program.body[r][Attaching(r)] = Do("attach", NoTask)
      /\ Timer(r) # NoTask => program.body[r][Parking(r) - 1] = Do("start", Timer(r))
      /\ program.body[r][Parking(r)] = Do("await", Dummy(r))
      /\ program.body[r][Ending(r) - 1] = Do("detach", NoTask)
      /\ program.body[r][Ending(r)] = Do("choose", NoTask)
      /\ \A i \in 1 .. Attaching(r) - 1 :
            \/ program.body[r][i].do \in {"launch", "instant"} /\ program.body[r][i].of \in ToSet(List(r))
            \/ program.body[r][i].do = "look"
  BY <1>1, RaceShape
<1>4. Parking(r) = Ending(r) - 2 /\ Attaching(r) = IF Timer(r) = NoTask THEN Parking(r) - 1 ELSE Parking(r) - 2
  BY DEF Parking, Attaching
<1> DEFINE n == Ending(r)
           k == Attaching(r)
           p == Parking(r)
           body == program.body[r]
           i == at[r]
<1>5. Now(r) = body[i]
  BY DEF Now
<1> HIDE DEF n, k, p, i, body
<1>6. /\ n \in Nat /\ k \in Nat /\ 1 <= k /\ k <= n /\ i \in Nat /\ 1 <= i
      /\ p = n - 2 /\ k = IF Timer(r) = NoTask THEN p - 1 ELSE p - 2
  <2>1. n \in Nat /\ k \in 1 .. n
    BY <1>3 DEF n, k
  <2>2. i \in Nat /\ 1 <= i
    BY <1>1 DEF i
  <2>3. p = n - 2 /\ k = IF Timer(r) = NoTask THEN p - 1 ELSE p - 2
    BY <1>4 DEF p, n, k
  <2> QED
    BY <2>1, <2>2, <2>3
<1>7. k < p /\ n = p + 2 /\ p \in Nat
  BY <1>6
<1>8. i <= n => i < k \/ i = k \/ (i = p - 1 /\ Timer(r) # NoTask) \/ i = p \/ i = p + 1 \/ i = p + 2
  BY <1>6, <1>7
<1>9. /\ i < k => i \in 1 .. k - 1
      /\ i = p + 1 => i = n - 1
      /\ i = p + 2 => i = n
  BY <1>6, <1>7
<1>10. /\ i < k => \/ body[i].do \in {"launch", "instant"} /\ body[i].of \in ToSet(List(r))
                   \/ body[i].do = "look"
       /\ i = k => body[i] = Do("attach", NoTask)
       /\ i = p - 1 /\ Timer(r) # NoTask => body[i] = Do("start", Timer(r))
       /\ i = p => body[i] = Do("await", Dummy(r))
       /\ i = p + 1 => body[i] = Do("detach", NoTask)
       /\ i = p + 2 => body[i] = Do("choose", NoTask)
  BY <1>3, <1>9 DEF body, i, k, p, n
<1>11. /\ Timer(r) # NoTask => Timer(r) \in Tasks /\ k = p - 2
       /\ Timer(r) = NoTask => k = p - 1
  BY <1>2, <1>6
<1>12. /\ i <= n =>
            \/ i < k /\ Now(r).do \in {"launch", "instant", "look"} /\ (Now(r).do # "look" => Now(r).of \in ToSet(List(r)))
            \/ i = k /\ Now(r) = Do("attach", NoTask)
            \/ i = p - 1 /\ Timer(r) # NoTask /\ Now(r) = Do("start", Timer(r))
            \/ i = p /\ Now(r) = Do("await", Dummy(r))
            \/ i = p + 1 /\ Now(r) = Do("detach", NoTask)
            \/ i = p + 2 /\ Now(r) = Do("choose", NoTask)
  BY <1>5, <1>8, <1>10
<1> QED
  BY <1>1, <1>2, <1>6, <1>7, <1>11, <1>12 DEF n, k, p, i

LEMMA OnlyRaces ==
    ASSUME IInv, NEW t \in Tasks, at[t] <= Len(program.body[t]), Now(t).do \notin {"start", "await", "sleep"}
    PROVE  t \in RaceTasks
<1>1. IsProgram(program) /\ at[t] \in DOMAIN program.body[t]
  <2>1. IsProgram(program)
    BY TaskAssumption DEF IInv, Inv
  <2>2. program.body[t] \in Seq(Instruction) /\ at[t] \in Nat \ {0}
    BY <2>1 DEF IsProgram, IInv, BodiesOK
  <2> QED
    BY <2>1, <2>2
<1> QED
  BY <1>1 DEF IsProgram, RaceTasks, Now

-----------------------------------------------------------------------------
(* What any step may do to one task.                                       *)

\* The task is started, or awaited before it was started.
Called(l, s) == \/ run_task(l) /\ s = program.root
                \/ \E t \in Tasks : Start(l, t, s) \/ (AskAndResume(l, t, s) /\ ~Done(s) /\ s \notin started)

BodyMove(l, s) ==
    \/ state'[s] = state[s] /\ at'[s] = at[s] /\ (s \in threw' => s \in threw)
    \/ In(l, s)
    \/ FinalSuspend(l, s)
    \/ /\ state[s] = "created" /\ state'[s] = "running" /\ at'[s] = at[s] /\ home(s) = l /\ Called(l, s)
       /\ s \in threw' => s \in threw
    \/ RunDeferred(l, s) /\ s \notin gone
    \/ WrapperEnds(l, s) /\ home(s) = l
    \/ \E c \in Tasks : FinalSuspend(l, c) /\ parent[c] = <<"task", s>>

WrapperMove(l, s) ==
    \/ wrapper'[s] = wrapper[s] /\ (s \in caught' => s \in caught)
    \/ Await(l, s) \/ Ask(l, s) \/ Deliver(l, s) \/ WrapperEnds(l, s) \/ \E c \in Tasks : AskAndResume(l, s, c)
    \/ \E c \in Tasks : FinalSuspend(l, c) /\ parent[c] = <<"wrapper", s>>

DeferMove(l, s) == \/ deferred'[s] = deferred[s]
                   \/ RunDeferred(l, s) \/ Sleep(l, s) \/ Deliver(l, s) \/ Called(l, s)

StartMove(l, s) == \/ s \in started' => s \in started
                   \/ RunDeferred(l, s) \/ Called(l, s) \/ \E t \in Tasks : Attach(l, t, s)

ParentMove(l, c) ==
    \/ parent'[c] = parent[c]
    \/ \E t \in Tasks : /\ Ask(l, t) /\ c = Awaited(t) /\ ~Done(c) /\ parent[c] = None
                        /\ parent'[c] = <<"wrapper", t>> /\ wrapper'[t] = "asked"
    \/ \E t \in Tasks : Attach(l, t, Dummy(t)) /\ c \in ToSet(List(t)) \cup {Timer(t)} /\ parent'[c] = <<"task", Dummy(t)>>
    \/ \E t \in Tasks : Detach(l, t) /\ c \in ToSet(List(t)) /\ parent'[c] = None

\* What is called was not begun.
LEMMA CalledFresh ==
    ASSUME IInv, Control, NotBegun, \A t \in Tasks : Asks(t), StartsOnce,
           NEW l \in Loops, NEW s \in Tasks, Called(l, s)
    PROVE  Fresh(s)
<1>1. CASE run_task(l) /\ s = program.root
  BY <1>1 DEF run_task, NotBegun, Fresh
<1>2. ASSUME NEW t \in Tasks, Start(l, t, s) PROVE Fresh(s)
  BY <1>2 DEF StartsOnce
<1>3. ASSUME NEW t \in Tasks, AskAndResume(l, t, s), s \notin started PROVE Fresh(s)
  <2>1. InWrapper(l, t, "asked") /\ s = Awaited(t)
    BY <1>3 DEF AskAndResume
  <2>2. state[t] = "awaiting" /\ wrapper[t] = "asked"
    <3>1. WrapperAt(l, t) /\ wrapper[t] = "asked"
      BY <2>1, WrapperOnTop
    <3> QED
      BY <3>1 DEF WrapperAt
  <2> QED
    BY <1>3, <2>1, <2>2 DEF Asks
<1> QED
  BY <1>1, <1>2, <1>3 DEF Called

LEMMA ResumedMoves ==
    ASSUME IInv, NEW c \in Tasks, NEW now \in [Tasks -> Nat], Resumed(c, now), NEW s \in Tasks
    PROVE  /\ s # c => state'[s] = state[s] /\ at'[s] = now[s] /\ (s \in threw' => s \in threw)
           /\ state[c] = "created" => state'[c] = "running" /\ at'[c] = now[c] /\ threw' = threw
  BY DEF Resumed, Done, IInv, BodiesOK

LEMMA StartMoves ==
    ASSUME IInv, NEW l \in Loops, NEW c \in Tasks, NEW now \in [Tasks -> Nat], start(l, c, now), Fresh(c),
           now[c] = at[c], NEW s \in Tasks
    PROVE  /\ s # c => /\ state'[s] = state[s] /\ at'[s] = now[s] /\ (s \in threw' => s \in threw)
                       /\ deferred'[s] = deferred[s] /\ (s \in started' => s \in started)
           /\ \/ state'[c] = state[c] /\ at'[c] = at[c] /\ threw' = threw
              \/ home(c) = l /\ state[c] = "created" /\ state'[c] = "running" /\ at'[c] = at[c] /\ threw' = threw
<1>1. CASE same_loop(l, c)
  <2>1. started' = started \cup {c} /\ Resumed(c, now) /\ deferred' = deferred /\ state[c] = "created" /\ home(c) = l
    BY <1>1 DEF start, Fresh, same_loop
  <2> QED
    BY <2>1, ResumedMoves
<1>2. CASE ~same_loop(l, c)
  BY <1>2 DEF start, Defer, IInv, RestOK
<1> QED
  BY <1>1, <1>2

\* A task that has the loop moves itself only.
LEMMA OwnMoves ==
    ASSUME IInv, NEW l \in Loops, NEW t \in Tasks, NEW s \in Tasks, s # t,
           \/ Sleep(l, t) \/ Await(l, t) \/ Return(l, t) \/ Skip(l, t) \/ Instant(l, t) \/ Detach(l, t) \/ Choose(l, t)
           \/ \E c \in Tasks : Attach(l, t, c)
    PROVE  /\ In(l, t) /\ state'[s] = state[s] /\ at'[s] = at[s] /\ (s \in threw' => s \in threw)
           /\ wrapper'[s] = wrapper[s] /\ (s \in caught' => s \in caught) /\ deferred'[s] = deferred[s]
<1>1. CASE Sleep(l, t)
  BY <1>1 DEF Sleep, Does, Forth, Defer, IInv, BodiesOK, RestOK
<1>2. CASE Await(l, t)
  BY <1>2 DEF Await, Does, IInv, BodiesOK, RestOK
<1>3. CASE Return(l, t)
  BY <1>3 DEF Return, Leave, control, IInv, BodiesOK
<1>4. CASE Skip(l, t) \/ Detach(l, t) \/ \E c \in Tasks : Attach(l, t, c)
  BY <1>4 DEF Skip, Detach, Attach, Does, Other, control, Forth, IInv, BodiesOK
<1>5. CASE Instant(l, t)
  BY <1>5 DEF Instant, Does, Other, control, Wins, Leave, Forth, IInv, BodiesOK
<1>6. CASE Choose(l, t)
  BY <1>6, ChooseIs DEF Does, Leave, Forth, IInv, BodiesOK
<1> QED
  BY <1>1, <1>2, <1>3, <1>4, <1>5, <1>6

LEMMA Moves ==
    ASSUME IInv, Control, NotBegun, \A t \in Tasks : Asks(t), StartsOnce,
           NEW l \in Loops, ThreadStep(l), NEW s \in Tasks
    PROVE  BodyMove(l, s) /\ WrapperMove(l, s) /\ DeferMove(l, s) /\ StartMove(l, s)
<1>a. at \in [Tasks -> Nat]
  BY DEF IInv, BodiesOK
<1>1. CASE run_task(l)
  <2>1. program.root \in Tasks /\ start(l, program.root, at) /\ UNCHANGED <<wrapper, caught>>
    BY <1>1, TaskAssumption DEF run_task, IInv, Inv, IsProgram
  <2>2. Fresh(program.root)
    BY <1>1, <2>1, CalledFresh DEF Called
  <2>3. CASE s = program.root
    <3>1. Called(l, s)
      BY <1>1, <2>3 DEF Called
    <3>2. BodyMove(l, s)
      BY <1>a, <2>1, <2>2, <2>3, <3>1, StartMoves DEF BodyMove
    <3> QED
      BY <2>1, <3>1, <3>2 DEF WrapperMove, DeferMove, StartMove
  <2>4. CASE s # program.root
    BY <1>a, <2>1, <2>2, <2>4, StartMoves DEF BodyMove, WrapperMove, DeferMove, StartMove
  <2> QED
    BY <2>3, <2>4
<1> SUFFICES ASSUME NEW t \in Tasks,
                    \/ RunDeferred(l, t) \/ Sleep(l, t) \/ Await(l, t) \/ Return(l, t) \/ FinalSuspend(l, t)
                    \/ Skip(l, t) \/ Instant(l, t) \/ Detach(l, t) \/ Choose(l, t)
                    \/ Ask(l, t) \/ Deliver(l, t) \/ WrapperEnds(l, t)
                    \/ \E c \in Tasks : Start(l, t, c) \/ Attach(l, t, c) \/ AskAndResume(l, t, c)
             PROVE  BodyMove(l, s) /\ WrapperMove(l, s) /\ DeferMove(l, s) /\ StartMove(l, s)
  BY <1>1 DEF ThreadStep
<1>2. CASE RunDeferred(l, t)
  <2>1. WrapperMove(l, s) /\ DeferMove(l, s) /\ StartMove(l, s)
    BY <1>2 DEF RunDeferred, WrapperMove, DeferMove, StartMove, IInv, RestOK
  <2>2. BodyMove(l, s)
    <3>1. CASE Alive(t)
      BY <1>2, <1>a, <3>1, ResumedMoves DEF RunDeferred, BodyMove, Alive
    <3>2. CASE ~Alive(t)
      BY <1>2, <3>2 DEF RunDeferred, BodyMove, bodies
    <3> QED
      BY <3>1, <3>2
  <2> QED
    BY <2>1, <2>2
<1>3. CASE \/ Sleep(l, t) \/ Await(l, t) \/ Return(l, t) \/ Skip(l, t) \/ Instant(l, t) \/ Detach(l, t) \/ Choose(l, t)
           \/ \E c \in Tasks : Attach(l, t, c)
  <2>1. In(l, t)
    BY <1>3, ChooseIs DEF Sleep, Await, Return, Skip, Instant, Detach, Attach, Does
  <2>2. BodyMove(l, s)
    BY <1>3, <2>1, OwnMoves DEF BodyMove
  <2>3. WrapperMove(l, s)
    <3>1. CASE s # t
      BY <1>3, <3>1, OwnMoves DEF WrapperMove
    <3>2. CASE s = t
      <4>1. CASE Await(l, t)
        BY <3>2, <4>1 DEF WrapperMove
      <4>2. CASE \/ Sleep(l, t) \/ Return(l, t) \/ Skip(l, t) \/ Instant(l, t) \/ Detach(l, t) \/ Choose(l, t)
                 \/ \E c \in Tasks : Attach(l, t, c)
        BY <4>2, ChooseIs DEF Sleep, Return, Skip, Instant, Detach, Attach, Other, control, WrapperMove
      <4> QED
        BY <1>3, <4>1, <4>2
    <3> QED
      BY <3>1, <3>2
  <2>4. DeferMove(l, s)
    <3>1. CASE s # t
      BY <1>3, <3>1, OwnMoves DEF DeferMove
    <3>2. CASE s = t
      <4>1. CASE Sleep(l, t)
        BY <3>2, <4>1 DEF DeferMove
      <4>2. CASE \/ Await(l, t) \/ Return(l, t) \/ Skip(l, t) \/ Instant(l, t) \/ Detach(l, t) \/ Choose(l, t)
                 \/ \E c \in Tasks : Attach(l, t, c)
        BY <4>2, ChooseIs DEF Await, Return, Skip, Instant, Detach, Attach, Other, control, DeferMove
      <4> QED
        BY <1>3, <4>1, <4>2
    <3> QED
      BY <3>1, <3>2
  <2>5. StartMove(l, s)
    <3>1. CASE \E c \in Tasks : Attach(l, t, c)
      <4>1. PICK c \in Tasks : Attach(l, t, c)
        BY <3>1
      <4>2. started' = started \cup {c}
        BY <4>1 DEF Attach
      <4> QED
        BY <4>1, <4>2 DEF StartMove
    <3>2. CASE Sleep(l, t) \/ Await(l, t) \/ Return(l, t) \/ Skip(l, t) \/ Instant(l, t) \/ Detach(l, t) \/ Choose(l, t)
      BY <3>2, ChooseIs DEF Sleep, Await, Return, Skip, Instant, Detach, StartMove
    <3> QED
      BY <1>3, <3>1, <3>2
  <2> QED
    BY <2>2, <2>3, <2>4, <2>5
<1>4. CASE FinalSuspend(l, t)
  <2>1. /\ Continue(l, parent[t]) /\ UNCHANGED <<deferred, at, threw, started>>
        /\ state' = [q \in Tasks |-> IF q = t THEN "done"
                                     ELSE IF parent[t] = <<"task", q>> /\ ~Done(q) THEN "running" ELSE state[q]]
        /\ IF parent[t][1] = "wrapper" THEN Takes(parent[t][2], t) ELSE UNCHANGED <<caught, values>>
    BY <1>4 DEF FinalSuspend
  <2>2. DeferMove(l, s) /\ StartMove(l, s)
    BY <2>1 DEF DeferMove, StartMove
  <2>3. BodyMove(l, s)
    BY <1>4, <2>1 DEF BodyMove
  <2>4. WrapperMove(l, s)
    <3>1. CASE parent[t][1] = "wrapper"
      <4>1. /\ wrapper' = [wrapper EXCEPT ![parent[t][2]] = "delivering"]
            /\ caught' \subseteq caught \cup {parent[t][2]}
        BY <2>1, <3>1 DEF Continue, Takes
      <4>2. parent[t] = <<"wrapper", parent[t][2]>>
        <5>1. parent[t] \in Coroutines \cup {None}
          BY DEF IInv, Inv, Parents, Own
        <5> QED
          BY <3>1, <5>1 DEF Coroutines, None
      <4> QED
        BY <1>4, <4>1, <4>2 DEF WrapperMove, IInv, RestOK
    <3>2. CASE parent[t][1] # "wrapper"
      BY <2>1, <3>2 DEF Continue, Ends, WrapperMove
    <3> QED
      BY <3>1, <3>2
  <2> QED
    BY <2>2, <2>3, <2>4
<1>5. CASE Ask(l, t)
  <2>1. /\ UNCHANGED <<deferred, bodies, started>>
        /\ \A q \in Tasks \ {t} : wrapper'[q] = wrapper[q] /\ (q \in caught' => q \in caught)
    BY <1>5 DEF Ask, Wraps, Takes, IInv, RestOK
  <2> QED
    BY <1>5, <2>1 DEF BodyMove, WrapperMove, DeferMove, StartMove, bodies
<1>6. CASE Deliver(l, t)
  <2>1. /\ UNCHANGED <<bodies, started, caught>>
        /\ \A q \in Tasks \ {t} : wrapper'[q] = wrapper[q] /\ deferred'[q] = deferred[q]
    BY <1>6 DEF Deliver, Wraps, HandOver, Defer, races, IInv, RestOK
  <2> QED
    BY <1>6, <2>1 DEF BodyMove, WrapperMove, DeferMove, StartMove, bodies
<1>7. CASE WrapperEnds(l, t)
  <2>1. /\ UNCHANGED <<deferred, started, caught>>
        /\ \A q \in Tasks \ {t} : wrapper'[q] = wrapper[q]
    BY <1>7 DEF WrapperEnds, Wraps, IInv, RestOK
  <2>2. BodyMove(l, s)
    <3>1. CASE same_loop(l, t)
      BY <1>7, <1>a, <3>1, ResumedMoves DEF WrapperEnds, BodyMove, same_loop
    <3>2. CASE ~same_loop(l, t)
      BY <1>7, <3>2 DEF WrapperEnds, BodyMove, bodies
    <3> QED
      BY <3>1, <3>2
  <2> QED
    BY <1>7, <2>1, <2>2 DEF WrapperMove, DeferMove, StartMove
<1>8. ASSUME NEW c \in Tasks, Start(l, t, c) PROVE BodyMove(l, s) /\ WrapperMove(l, s) /\ DeferMove(l, s) /\ StartMove(l, s)
  <2>1. In(l, t) /\ UNCHANGED <<wrapper, caught>> /\ start(l, c, Forth(t, 1))
    BY <1>8 DEF Start, Does
  <2>2. Called(l, c) /\ Fresh(c) /\ c # t
    BY <1>8, <2>1 DEF Called, StartsOnce, Fresh, In
  <2>3. Forth(t, 1) \in [Tasks -> Nat] /\ \A q \in Tasks \ {t} : Forth(t, 1)[q] = at[q]
    BY <1>a DEF Forth
  <2> QED
    BY <2>1, <2>2, <2>3, StartMoves DEF BodyMove, WrapperMove, DeferMove, StartMove
<1>9. ASSUME NEW c \in Tasks, AskAndResume(l, t, c)
      PROVE  BodyMove(l, s) /\ WrapperMove(l, s) /\ DeferMove(l, s) /\ StartMove(l, s)
  <2>1. \A q \in Tasks \ {t} : wrapper'[q] = wrapper[q] /\ (q \in caught' => q \in caught)
    BY <1>9 DEF AskAndResume, Wraps, Takes, IInv, RestOK
  <2>2. WrapperMove(l, s)
    BY <1>9, <2>1 DEF WrapperMove
  <2>3. CASE UNCHANGED <<deferred, bodies, started>>
    BY <2>2, <2>3 DEF BodyMove, DeferMove, StartMove, bodies
  <2>4. CASE /\ ~Done(c) /\ c \notin started
             /\ \/ started' = started \cup {c} /\ home(c) = l /\ Resumed(c, at) /\ UNCHANGED deferred
                \/ Defer(c) /\ UNCHANGED <<bodies, started>>
    <3>1. Called(l, c)
      BY <1>9, <2>4 DEF Called
    <3>2. state[c] = "created"
      BY <3>1, CalledFresh DEF Fresh
    <3>3. DeferMove(l, s) /\ StartMove(l, s)
      BY <2>4, <3>1 DEF DeferMove, StartMove, Defer, IInv, RestOK
    <3>4. BodyMove(l, s)
      <4>1. CASE Resumed(c, at) /\ home(c) = l
        BY <1>a, <3>1, <3>2, <4>1, ResumedMoves DEF BodyMove
      <4>2. CASE UNCHANGED bodies
        BY <4>2 DEF BodyMove, bodies
      <4> QED
        BY <2>4, <4>1, <4>2
    <3> QED
      BY <2>2, <3>3, <3>4
  <2> QED
    BY <1>9, <2>3, <2>4 DEF AskAndResume, LeftAlone, same_loop
<1> QED
  BY <1>2, <1>3, <1>4, <1>5, <1>6, <1>7, <1>8, <1>9

LEMMA MovesParent ==
    ASSUME IInv, NEW l \in Loops, ThreadStep(l), NEW c \in Tasks
    PROVE  ParentMove(l, c)
<1>a. ASSUME UNCHANGED parent PROVE ParentMove(l, c)
  BY <1>a DEF ParentMove
<1>1. CASE run_task(l)
  BY <1>1, <1>a DEF run_task
<1> SUFFICES ASSUME NEW t \in Tasks,
                    \/ RunDeferred(l, t) \/ Sleep(l, t) \/ Await(l, t) \/ Return(l, t) \/ FinalSuspend(l, t)
                    \/ Skip(l, t) \/ Instant(l, t) \/ Detach(l, t) \/ Choose(l, t)
                    \/ Ask(l, t) \/ Deliver(l, t) \/ WrapperEnds(l, t)
                    \/ \E b \in Tasks : Start(l, t, b) \/ Attach(l, t, b) \/ AskAndResume(l, t, b)
             PROVE  ParentMove(l, c)
  BY <1>1 DEF ThreadStep
<1>2. CASE \/ RunDeferred(l, t) \/ Sleep(l, t) \/ Await(l, t) \/ Return(l, t) \/ FinalSuspend(l, t)
           \/ Skip(l, t) \/ Instant(l, t) \/ Choose(l, t) \/ Deliver(l, t) \/ WrapperEnds(l, t)
           \/ \E b \in Tasks : Start(l, t, b) \/ AskAndResume(l, t, b)
  BY <1>2, <1>a, ChooseIs DEF RunDeferred, Sleep, Await, Return, FinalSuspend, Skip, Instant, Deliver, WrapperEnds,
                              Start, AskAndResume
<1>3. CASE Detach(l, t)
  BY <1>3 DEF Detach, ParentMove
<1>4. CASE Ask(l, t)
  <2>1. CASE UNCHANGED parent
    BY <1>a, <2>1
  <2>2. CASE /\ ~Done(Awaited(t)) /\ parent[Awaited(t)] = None
             /\ parent' = [parent EXCEPT ![Awaited(t)] = <<"wrapper", t>>] /\ Wraps(t, "asked")
    BY <1>4, <2>2 DEF ParentMove, IInv, Inv, Parents, RestOK, Wraps
  <2> QED
    BY <1>4, <2>1, <2>2 DEF Ask
<1>5. ASSUME NEW b \in Tasks, Attach(l, t, b) PROVE ParentMove(l, c)
  BY <1>5 DEF Attach, ParentMove, Dummy, Timer
<1> QED
  BY <1>2, <1>3, <1>4, <1>5

\* Who is on top has the turn.
LEMMA Turn ==
    ASSUME NEW l \in Loops, ThreadStep(l), NEW s \in Tasks, Running(l, "task", s)
    PROVE  \/ Sleep(l, s) \/ Await(l, s) \/ Return(l, s) \/ FinalSuspend(l, s)
           \/ Skip(l, s) \/ Instant(l, s) \/ Detach(l, s) \/ Choose(l, s)
           \/ \E c \in Tasks : Start(l, s, c) \/ Attach(l, s, c)
<1>1. stack[l] # <<>> /\ \A kind, t : Running(l, kind, t) => kind = "task" /\ t = s
  BY DEF Running
<1>2. ~run_task(l) /\ \A t \in Tasks : ~RunDeferred(l, t)
  BY <1>1 DEF run_task, RunDeferred
<1>3. ASSUME NEW t \in Tasks, Ask(l, t) \/ Deliver(l, t) \/ WrapperEnds(l, t) \/ \E c \in Tasks : AskAndResume(l, t, c)
      PROVE  FALSE
  <2>1. Running(l, "wrapper", t)
    BY <1>3 DEF Ask, Deliver, WrapperEnds, AskAndResume, InWrapper
  <2> QED
    BY <1>1, <2>1
<1>4. ASSUME NEW t \in Tasks, \/ Sleep(l, t) \/ Await(l, t) \/ Return(l, t) \/ FinalSuspend(l, t)
                              \/ Skip(l, t) \/ Instant(l, t) \/ Detach(l, t) \/ Choose(l, t)
                              \/ \E c \in Tasks : Start(l, t, c) \/ Attach(l, t, c)
      PROVE  t = s
  <2>1. Running(l, "task", t)
    BY <1>4 DEF Sleep, Await, Return, FinalSuspend, Skip, Instant, Detach, Choose, Start, Attach, Does, In
  <2> QED
    BY <1>1, <2>1
<1> QED
  BY <1>2, <1>3, <1>4 DEF ThreadStep

LEMMA WrapperTurn ==
    ASSUME NEW l \in Loops, ThreadStep(l), NEW s \in Tasks, Running(l, "wrapper", s)
    PROVE  Ask(l, s) \/ Deliver(l, s) \/ WrapperEnds(l, s) \/ \E c \in Tasks : AskAndResume(l, s, c)
<1>1. stack[l] # <<>> /\ \A kind, t : Running(l, kind, t) => kind = "wrapper" /\ t = s
  BY DEF Running
<1>2. ~run_task(l) /\ \A t \in Tasks : ~RunDeferred(l, t)
  BY <1>1 DEF run_task, RunDeferred
<1>3. ASSUME NEW t \in Tasks, \/ Sleep(l, t) \/ Await(l, t) \/ Return(l, t) \/ FinalSuspend(l, t)
                              \/ Skip(l, t) \/ Instant(l, t) \/ Detach(l, t) \/ Choose(l, t)
                              \/ \E c \in Tasks : Start(l, t, c) \/ Attach(l, t, c)
      PROVE  FALSE
  <2>1. Running(l, "task", t)
    BY <1>3 DEF Sleep, Await, Return, FinalSuspend, Skip, Instant, Detach, Choose, Start, Attach, Does, In
  <2> QED
    BY <1>1, <2>1
<1>4. ASSUME NEW t \in Tasks, Ask(l, t) \/ Deliver(l, t) \/ WrapperEnds(l, t) \/ \E c \in Tasks : AskAndResume(l, t, c)
      PROVE  t = s
  <2>1. Running(l, "wrapper", t)
    BY <1>4 DEF Ask, Deliver, WrapperEnds, AskAndResume, InWrapper
  <2> QED
    BY <1>1, <2>1
<1> QED
  BY <1>2, <1>3, <1>4 DEF ThreadStep

LEMMA BeginsOnce ==
    ASSUME IInv, Control, NotBegun, NEW l \in Loops, ThreadStep(l)
    PROVE  begun' /\ (run_task(l) => ~begun)
<1>1. CASE run_task(l)
  BY <1>1 DEF run_task
<1> SUFFICES ASSUME NEW t \in Tasks,
                    \/ RunDeferred(l, t) \/ Sleep(l, t) \/ Await(l, t) \/ Return(l, t) \/ FinalSuspend(l, t)
                    \/ Skip(l, t) \/ Instant(l, t) \/ Detach(l, t) \/ Choose(l, t)
                    \/ Ask(l, t) \/ Deliver(l, t) \/ WrapperEnds(l, t)
                    \/ \E c \in Tasks : Start(l, t, c) \/ Attach(l, t, c) \/ AskAndResume(l, t, c)
             PROVE  begun' /\ begun
  BY <1>1 DEF ThreadStep, run_task
<1>2. begun' = begun
  BY ChooseIs DEF RunDeferred, Sleep, Await, Return, FinalSuspend, Skip, Instant, Detach, Ask, Deliver,
                  WrapperEnds, Start, Attach, AskAndResume, Other
<1>3. \/ deferred[t] > 0
      \/ Running(l, "task", t) /\ state[t] # "created"
      \/ \E now : InWrapper(l, t, now)
  BY DEF RunDeferred, Sleep, Await, Return, FinalSuspend, Skip, Instant, Detach, Choose, Ask, Deliver,
         WrapperEnds, Start, Attach, AskAndResume, Does, In
<1>4. ASSUME NEW now, InWrapper(l, t, now) PROVE state[t] # "created"
  BY <1>4, WrapperOnTop DEF WrapperAt
<1>5. begun
  BY <1>3, <1>4 DEF NotBegun
<1> QED
  BY <1>2, <1>5

\* A wrapper that is resumed by the task it awaits waits for it.
LEMMA ParentWaiting ==
    ASSUME IInv, Control, Waits, NEW l \in Loops, NEW t \in Tasks, FinalSuspend(l, t),
           NEW u \in Tasks, parent[t] = <<"wrapper", u>>
    PROVE  u \notin gone /\ state[u] = "awaiting" /\ Awaited(u) = t /\ wrapper[u] = "waiting"
<1>1. state[t] = "final" /\ t \notin gone
  BY TaskOnTop DEF FinalSuspend, IInv
<1>2. u \notin gone /\ state[u] = "awaiting" /\ Awaited(u) = t /\ wrapper[u] \in {"asked", "waiting"}
  BY <1>1 DEF Waits, ParentWaits
<1>3. wrapper[u] # "asked"
  BY <1>1, <1>2 DEF Waits, Asks, Done
<1> QED
  BY <1>2, <1>3

\* The dummy of a race goes on only when the race waits for it, on the same loop.
LEMMA RaceWakes ==
    ASSUME IInv, Control, Waits, RacesAre, NEW l \in Loops, NEW t \in Tasks, FinalSuspend(l, t),
           NEW d \in Tasks, parent[t] = <<"task", d>>
    PROVE  \E r \in RaceTasks : /\ d = Dummy(r) /\ home(r) = l /\ home(d) = l /\ r \notin gone /\ Racing(r, t)
                                /\ state[r] = "awaiting" /\ wrapper[r] = "waiting" /\ at[r] = Parking(r)
                                /\ state[d] = "created" /\ d \in started \ gone /\ deferred[d] = 0
                                /\ parent[d] = <<"wrapper", r>>
<1>1. state[t] = "final" /\ t \notin gone /\ Running(l, "task", t) /\ home(t) = l
  BY TaskOnTop DEF FinalSuspend, IInv
<1>2. PICK r \in RaceTasks : d = Dummy(r) /\ Racing(r, t)
  BY <1>1 DEF RacesAre, ParentRaces
<1>3. /\ home(r) = l /\ home(d) = l /\ t # r /\ t # d /\ t \in Tasks /\ r \in Tasks
      /\ (t = Timer(r) \/ t \in ToSet(List(r)))
  BY <1>1, <1>2, RaceOwns, TaskAssumption DEF IInv, Inv, Racing
<1>4. RaceAt(r) /\ r \notin gone /\ state[r] \in {"running", "awaiting"} /\ at[r] > Attaching(r)
  BY <1>2 DEF RacesAre, Racing
<1>5. RaceLives(r) /\ d \notin gone
  BY <1>2, <1>4 DEF RaceAt, Done
<1>6. d \in started /\ deferred[d] = 0
  <2>1. at[r] \in Nat /\ Attaching(r) \in Nat
    BY RaceDoes
  <2>2. ~(at[r] <= Attaching(r))
    BY <1>4, <2>1
  <2> QED
    BY <1>2, <1>4, <2>2 DEF RaceAt, DummyOf
<1>7. \A kind, s : Running(l, kind, s) => kind = "task" /\ s = t
  BY <1>1 DEF Running
<1>8. state[r] = "awaiting"
  <2>1. ~(state[r] = "running" /\ at[r] > Attaching(r))
    BY <1>1, <1>3, <1>5, <1>7 DEF RaceLives, RaceRuns
  <2> QED
    BY <1>4, <2>1
<1>9. at[r] = Parking(r) /\ wrapper[r] \in {"asking", "asked", "waiting", "delivering", "passing"}
  BY <1>5, <1>8 DEF RaceLives, RaceWaits
<1>10. wrapper[r] \notin {"asking", "asked"}
  <2>1. <<"wrapper", r>> \notin Frames(l)
    BY <1>1, <1>3, TaskOnTop DEF IInv
  <2> QED
    BY <1>3, <1>8, <2>1 DEF Control, Controlled, WrapperRuns
<1>11. wrapper[r] \notin {"delivering", "passing"}
  BY <1>3, <1>5, <1>7, <1>8 DEF RaceLives, RaceWaits
<1>12. parent[d] = <<"wrapper", r>> /\ state[d] = "created"
  BY <1>2, <1>3, <1>5, <1>7, <1>8, <1>9, <1>10, <1>11 DEF RaceLives, RaceWaits
<1> QED
  BY <1>2, <1>3, <1>4, <1>5, <1>6, <1>8, <1>9, <1>10, <1>11, <1>12

\* Only a race attaches, before its dummy is started, and what it raced is started by then.
LEMMA Attaches ==
    ASSUME IInv, Waits, RacesAre, NEW l \in Loops, NEW t \in Tasks, NEW c \in Tasks, Attach(l, t, c)
    PROVE  /\ t \in RaceTasks /\ c = Dummy(t) /\ at[t] = Attaching(t) /\ state[t] = "running"
           /\ state[c] = "created" /\ c \notin started /\ deferred[c] = 0
           /\ \A b \in ToSet(List(t)) : b \in started
<1>1. In(l, t) /\ at[t] <= Len(program.body[t]) /\ Now(t).do = "attach" /\ c = Dummy(t)
  BY DEF Attach, Does, Dummy
<1>2. t \in RaceTasks
  BY <1>1, OnlyRaces
<1>3. at[t] = Attaching(t) /\ at[t] \in Nat /\ at[t] <= Attaching(t)
  BY <1>1, <1>2, RaceDoes DEF Ending, Do
<1>4. DummyOf(t)
  BY <1>2 DEF RacesAre, RaceAt
<1>5. \A b \in ToSet(List(t)) : b \in started
  <2> SUFFICES ASSUME NEW b \in ToSet(List(t)) PROVE b \in started
    OBVIOUS
  <2>1. /\ Ending(t) \in Nat /\ Attaching(t) \in 1 .. Ending(t) /\ program \in Programs
        /\ \E i \in 1 .. Attaching(t) - 1 : program.body[t][i] = Do("launch", b)
    BY <1>2, RaceShape DEF IInv, Inv
  <2>2. PICK i \in 1 .. Attaching(t) - 1 : program.body[t][i] = Do("launch", b)
    BY <2>1
  <2>3. i \in DOMAIN program.body[t] /\ i < at[t]
    <3>1. program.body[t] \in Seq(Instruction)
      BY <2>1, TaskAssumption DEF IsProgram
    <3>2. DOMAIN program.body[t] = 1 .. Ending(t)
      BY <3>1 DEF Ending
    <3> QED
      BY <1>3, <2>1, <2>2, <3>2
  <2> QED
    BY <2>2, <2>3 DEF Waits, Launched, Do
<1> QED
  BY <1>1, <1>2, <1>3, <1>4, <1>5 DEF DummyOf, In

LEMMA ControlStep ==
    ASSUME IInv, Control, Waits, RacesAre, OrderlyStep, NEW l \in Loops, ThreadStep(l)
    PROVE  Control'
<1>0. Steady
  BY SteadyStep DEF OrderlyStep
<1>f. \A s \in Tasks : Called(l, s) => Fresh(s)
  BY CalledFresh DEF Waits, OrderlyStep
<1>1. CASE run_task(l)
  <2>1. program.root \in Tasks
    BY TaskAssumption DEF IInv, Inv, IsProgram
  <2> QED
    BY <1>0, <1>1, <1>f, <2>1, RunTaskControl DEF Called
<1> SUFFICES ASSUME NEW t \in Tasks,
                    \/ RunDeferred(l, t) \/ Sleep(l, t) \/ Await(l, t) \/ Return(l, t) \/ FinalSuspend(l, t)
                    \/ Skip(l, t) \/ Instant(l, t) \/ Detach(l, t) \/ Choose(l, t)
                    \/ Ask(l, t) \/ Deliver(l, t) \/ WrapperEnds(l, t)
                    \/ \E c \in Tasks : Start(l, t, c) \/ Attach(l, t, c) \/ AskAndResume(l, t, c)
             PROVE  Control'
  BY <1>1 DEF ThreadStep
<1>2. CASE FinalSuspend(l, t)
  <2>1. \A d \in Tasks : parent[t] = <<"task", d>> => state[d] = "created" /\ d \in started \ gone /\ deferred[d] = 0
    BY <1>2, RaceWakes
  <2> QED
    BY <1>0, <1>2, <2>1, ParentWaiting, FinalSuspendControl
<1>3. ASSUME NEW c \in Tasks, Start(l, t, c) PROVE Control'
  BY <1>0, <1>3, StartControl DEF OrderlyStep, StartsOnce
<1>4. ASSUME NEW c \in Tasks, Attach(l, t, c) PROVE Control'
  BY <1>0, <1>4, Attaches, AttachControl
<1>5. ASSUME NEW c \in Tasks, AskAndResume(l, t, c) PROVE Control'
  <2>1. InWrapper(l, t, "asked") /\ c = Awaited(t)
    BY <1>5 DEF AskAndResume
  <2>2. WrapperAt(l, t) /\ wrapper[t] = "asked"
    BY <2>1, WrapperOnTop
  <2>3. ~Done(c) /\ (c \in started \/ Fresh(c))
    BY <2>1, <2>2 DEF WrapperAt, Waits, Asks
  <2> QED
    BY <1>0, <1>5, <2>3, AskAndResumeControl
<1> QED
  BY <1>0, <1>2, <1>3, <1>4, <1>5, RunDeferredControl, SleepControl, AwaitControl, ReturnControl, SkipControl,
     InstantControl, DetachControl, ChooseControl, AskControl, DeliverControl, WrapperEndsControl

-----------------------------------------------------------------------------
(* How a task moves.                                                       *)

LEMMA AwaitedIs ==
    ASSUME IInv, NEW t \in Tasks, state[t] = "awaiting"
    PROVE  /\ Awaited(t) \in Tasks /\ at[t] \in DOMAIN program.body[t]
           /\ Now(t).do = "await" /\ Awaited(t) = program.body[t][at[t]].of
<1>1. at[t] <= Len(program.body[t]) /\ Now(t).do = "await"
  BY DEF IInv, BodiesOK, Awaits
<1>2. Awaited(t) \in Tasks
  BY <1>1, InstructionIs DEF Awaited, Now
<1>3. program.body[t] \in Seq(Instruction) /\ at[t] \in Nat \ {0}
  BY TaskAssumption DEF IInv, Inv, IsProgram, BodiesOK
<1>4. at[t] \in DOMAIN program.body[t]
  BY <1>1, <1>3
<1> QED
  BY <1>1, <1>2, <1>4 DEF Awaited

\* The turn of a task: what its body comes to, and how far.
Goes(l, s) ==
    \/ at'[s] = at[s]
    \/ /\ at[s] <= Len(program.body[s]) /\ at'[s] = at[s] + 1
       /\ Now(s).do = "launch" => Now(s).of \in started \/ Start(l, s, Now(s).of)
    \/ /\ Skip(l, s) /\ at'[s] = at[s] + 2 /\ program.body[s][at[s] + 1].do = "instant"

LEMMA RunMoves ==
    ASSUME IInv, Control, StartsOnce, NEW l \in Loops, ThreadStep(l), NEW s \in Tasks, In(l, s)
    PROVE  /\ state'[s] \in {"running", "asleep", "awaiting", "final"}
           /\ state'[s] = "awaiting" => Await(l, s)
           /\ state'[s] = "asleep" => Sleep(l, s)
           /\ Goes(l, s)
<1>1. /\ Running(l, "task", s) /\ state[s] = "running" /\ at \in [Tasks -> Nat \ {0}] /\ state \in [Tasks -> States]
  BY DEF In, IInv, BodiesOK
<1>2. ~FinalSuspend(l, s)
  BY <1>1 DEF FinalSuspend
<1>3. CASE Sleep(l, s)
  BY <1>1, <1>3 DEF Sleep, Does, Goes, Forth
<1>4. CASE Await(l, s)
  BY <1>1, <1>4 DEF Await, Goes
<1>5. CASE Return(l, s)
  BY <1>1, <1>5 DEF Return, Leave, Goes
<1>6. CASE Skip(l, s)
  <2>1. /\ UNCHANGED state /\ at' = Forth(s, IF program.body[s][at[s] + 1].do = "instant" THEN 2 ELSE 1)
        /\ at[s] <= Len(program.body[s]) /\ Now(s).of \in started
    BY <1>6 DEF Skip, Does
  <2>2. CASE program.body[s][at[s] + 1].do = "instant"
    BY <1>1, <1>6, <2>1, <2>2 DEF Goes, Forth
  <2>3. CASE program.body[s][at[s] + 1].do # "instant"
    BY <1>1, <1>6, <2>1, <2>3 DEF Goes, Forth
  <2> QED
    BY <2>2, <2>3
<1>7. CASE Instant(l, s)
  BY <1>1, <1>7 DEF Instant, Does, Wins, Leave, Goes, Forth
<1>8. CASE Detach(l, s)
  BY <1>1, <1>8 DEF Detach, Does, Goes, Forth
<1>9. CASE Choose(l, s)
  <2>1. Does(l, s, "look") \/ Does(l, s, "choose")
    BY <1>9, ChooseIs
  <2>2. CASE Now(s).do = "look" /\ at' = Forth(s, 1) /\ UNCHANGED state
    BY <1>1, <2>1, <2>2 DEF Goes, Forth, Does
  <2>3. ASSUME NEW exception, Leave(s, exception) PROVE state'[s] = "final" /\ at'[s] = at[s]
    BY <1>1, <2>3 DEF Leave
  <2> QED
    BY <1>1, <1>9, <2>2, <2>3, ChooseIs DEF Goes
<1>10. ASSUME NEW c \in Tasks, Start(l, s, c) PROVE state'[s] = "running" /\ Goes(l, s)
  <2>1. c = Now(s).of /\ at[s] <= Len(program.body[s]) /\ start(l, c, Forth(s, 1)) /\ Fresh(c) /\ c # s
    BY <1>1, <1>10 DEF Start, Does, StartsOnce, Fresh
  <2>2. Forth(s, 1) \in [Tasks -> Nat] /\ Forth(s, 1)[s] = at[s] + 1 /\ Forth(s, 1)[c] = at[c]
    BY <1>1, <2>1 DEF Forth
  <2>3. state'[s] = state[s] /\ at'[s] = at[s] + 1
    BY <2>1, <2>2, StartMoves
  <2> QED
    BY <1>1, <1>10, <2>1, <2>3 DEF Goes
<1>11. ASSUME NEW c \in Tasks, Attach(l, s, c) PROVE state'[s] = "running" /\ Goes(l, s)
  BY <1>1, <1>11 DEF Attach, Does, Goes, Forth
<1> QED
  BY <1>1, <1>2, <1>3, <1>4, <1>5, <1>6, <1>7, <1>8, <1>9, <1>10, <1>11, Turn

\* A task that is resumed runs, or comes to its end, after its co_await.
LEMMA ResumedGoes ==
    ASSUME IInv, NEW s \in Tasks, Resumed(s, at)
    PROVE  /\ Done(s) => state'[s] = state[s]
           /\ ~Done(s) => state'[s] \in {"running", "final"}
           /\ at'[s] = at[s] \/ (state[s] = "awaiting" /\ at'[s] = at[s] + 1)
           /\ state[s] # "awaiting" => Done(s) \/ (at'[s] = at[s] /\ state'[s] # "final")
  BY DEF Resumed, Done, IInv, BodiesOK

\* Where a task is after a step, by where it was.
LEMMA BodyAfter ==
    ASSUME IInv, Control, Waits, RacesAre, OrderlyStep, NEW l \in Loops, ThreadStep(l), NEW s \in Tasks
    PROVE  /\ state'[s] = "created" => state[s] = "created" /\ at'[s] = at[s]
           /\ state'[s] = "awaiting" => (state[s] = "awaiting" /\ at'[s] = at[s]) \/ Await(l, s)
           /\ state'[s] = "asleep" => (state[s] = "asleep" /\ at'[s] = at[s]) \/ Sleep(l, s)
           /\ Done(s) => Done(s)' /\ (s \in gone \/ at'[s] = at[s])
           /\ state[s] = "done" => state'[s] = "done"
           /\ state'[s] = "done" => state[s] = "done" \/ FinalSuspend(l, s)
           /\ at'[s] = at[s] \/ In(l, s) \/ (state[s] = "awaiting" /\ at'[s] = at[s] + 1)
<1>1. BodyMove(l, s)
  BY Moves DEF Waits, OrderlyStep
<1>2. CASE state'[s] = state[s] /\ at'[s] = at[s]
  BY <1>2 DEF Done
<1>3. CASE In(l, s)
  <2>1. state[s] = "running"
    BY <1>3 DEF In
  <2> QED
    BY <1>3, <2>1, RunMoves DEF OrderlyStep, Done
<1>4. CASE FinalSuspend(l, s)
  BY <1>4 DEF FinalSuspend, Done
<1>5. CASE state[s] = "created" /\ state'[s] = "running" /\ at'[s] = at[s]
  BY <1>5 DEF Done
<1>6. CASE RunDeferred(l, s) /\ s \notin gone
  <2>1. Resumed(s, at)
    BY <1>6 DEF RunDeferred, Alive
  <2>2. ~Done(s)
    <3>1. deferred[s] = 1 /\ Suspended(s)
      BY <1>6 DEF RunDeferred, Control, Controlled, DeferredOnce, IInv, RestOK
    <3> QED
      BY <3>1 DEF Suspended, Done
  <2> QED
    BY <2>1, <2>2, ResumedGoes DEF Done
<1>7. CASE WrapperEnds(l, s) /\ home(s) = l
  <2>1. Resumed(s, at)
    BY <1>7 DEF WrapperEnds, same_loop
  <2>2. state[s] = "awaiting"
    <3>1. WrapperAt(l, s)
      BY <1>7, WrapperOnTop DEF WrapperEnds
    <3> QED
      BY <1>7, <3>1 DEF WrapperAt
  <2> QED
    BY <2>1, <2>2, ResumedGoes DEF Done
<1>8. ASSUME NEW c \in Tasks, FinalSuspend(l, c), parent[c] = <<"task", s>>
      PROVE  state[s] = "created" /\ state'[s] = "running" /\ at'[s] = at[s]
  <2>1. state[s] = "created"
    BY <1>8, RaceWakes
  <2>2. c # s
    BY <1>8, <2>1 DEF FinalSuspend
  <2> QED
    BY <1>8, <2>1, <2>2 DEF FinalSuspend, Done
<1> QED
  BY <1>1, <1>2, <1>3, <1>4, <1>5, <1>6, <1>7, <1>8 DEF BodyMove, Done

\* A step of a loop leaves the tasks of the others alone.
LEMMA Elsewhere ==
    ASSUME IInv, Control, Waits, RacesAre, OrderlyStep, NEW l \in Loops, ThreadStep(l), NEW s \in Tasks, home(s) # l
    PROVE  state'[s] = state[s] /\ at'[s] = at[s] /\ (s \in threw' => s \in threw)
<1>1. BodyMove(l, s)
  BY Moves DEF Waits, OrderlyStep
<1>2. ~In(l, s) /\ ~FinalSuspend(l, s)
  BY TaskOnTop DEF In, FinalSuspend, IInv
<1>3. ~RunDeferred(l, s)
  BY DEF RunDeferred
<1>4. \A c \in Tasks : FinalSuspend(l, c) => parent[c] # <<"task", s>>
  BY RaceWakes
<1> QED
  BY <1>1, <1>2, <1>3, <1>4 DEF BodyMove

\* What a race launches has been started when it attaches its dummy.
LEMMA ListStarted ==
    ASSUME IInv, Waits, NEW t \in RaceTasks, at[t] >= Attaching(t), NEW b \in ToSet(List(t))
    PROVE  b \in started
<1>1. /\ Ending(t) \in Nat /\ Attaching(t) \in 1 .. Ending(t) /\ program \in Programs
      /\ \E i \in 1 .. Attaching(t) - 1 : program.body[t][i] = Do("launch", b)
  BY RaceShape DEF IInv, Inv
<1>2. PICK i \in 1 .. Attaching(t) - 1 : program.body[t][i] = Do("launch", b)
  BY <1>1
<1>3. t \in Tasks /\ at[t] \in Nat
  BY RaceDoes
<1>4. i \in DOMAIN program.body[t] /\ i < at[t]
  <2>1. program.body[t] \in Seq(Instruction)
    BY <1>1, <1>3, TaskAssumption DEF IsProgram
  <2>2. DOMAIN program.body[t] = 1 .. Ending(t)
    BY <2>1 DEF Ending
  <2> QED
    BY <1>1, <1>2, <1>3, <2>2
<1> QED
  BY <1>2, <1>3, <1>4 DEF Waits, Launched, Do

-----------------------------------------------------------------------------
(* Every step keeps what is waited for.                                    *)

LEMMA LaunchedStep ==
    ASSUME IInv, Control, Waits, RacesAre, OrderlyStep, NEW l \in Loops, ThreadStep(l), NEW s \in Tasks
    PROVE  Launched(s)'
<1>1. Launched(s) /\ Steady
  BY SteadyStep DEF Waits, OrderlyStep
<1>2. /\ program' = program /\ started \subseteq started' /\ at[s] \in Nat /\ at'[s] = at'[s]
  BY <1>1 DEF Steady, IInv, BodiesOK
<1> SUFFICES ASSUME NEW i \in DOMAIN program.body[s], i < at'[s], program.body[s][i].do = "launch"
             PROVE  program.body[s][i].of \in started'
  BY <1>2 DEF Launched
<1>0. i \in Nat
  BY <1>2, TaskAssumption DEF IInv, Inv, IsProgram
<1>3. CASE i < at[s]
  BY <1>1, <1>2, <1>3 DEF Launched
<1>4. CASE ~(i < at[s])
  <2>1. at'[s] # at[s]
    BY <1>4
  <2>2. CASE state[s] = "awaiting" /\ at'[s] = at[s] + 1
    <3>1. i = at[s]
      BY <1>0, <1>2, <1>4, <2>2
    <3> QED
      BY <2>2, <3>1, AwaitedIs DEF Now
  <2>3. CASE In(l, s) /\ at'[s] = at[s] + 1 /\ (Now(s).do = "launch" => Now(s).of \in started \/ Start(l, s, Now(s).of))
             /\ at[s] <= Len(program.body[s])
    <3>1. i = at[s] /\ Now(s) = program.body[s][i]
      BY <1>0, <1>2, <1>4, <2>3 DEF Now
    <3>2. CASE Start(l, s, Now(s).of)
      <4>1. s \in RaceTasks
        BY <2>3, <3>1, OnlyRaces
      <4>2. Now(s).of \in ToSet(List(s))
        <5>1. at[s] <= Ending(s)
          BY <2>3 DEF Ending
        <5> QED
          BY <3>1, <4>1, <5>1, RaceDoes DEF Do
      <4>3. home(Now(s).of) = home(s) /\ home(s) = l
        BY <2>3, <4>1, <4>2, RaceOwns, TaskOnTop DEF In, IInv, Inv
      <4>4. start(l, Now(s).of, Forth(s, 1)) /\ same_loop(l, Now(s).of)
        BY <3>2, <4>3 DEF Start, same_loop
      <4> QED
        BY <3>1, <4>4 DEF start
    <3> QED
      BY <1>2, <2>3, <3>1, <3>2
  <2>4. CASE Skip(l, s) /\ at'[s] = at[s] + 2 /\ program.body[s][at[s] + 1].do = "instant"
    <3>1. i = at[s] \/ i = at[s] + 1
      BY <1>0, <1>2, <1>4, <2>4
    <3>2. i = at[s]
      BY <2>4, <3>1
    <3> QED
      BY <1>2, <2>4, <3>2 DEF Skip, Now
  <2>5. In(l, s) => Goes(l, s)
    BY RunMoves DEF OrderlyStep
  <2> QED
    BY <2>1, <2>2, <2>3, <2>4, <2>5, BodyAfter DEF Goes
<1> QED
  BY <1>3, <1>4

LEMMA InWrapperAt ==
    ASSUME IInv, Control, NEW l \in Loops, NEW t \in Tasks, NEW now \in {"asking", "asked", "delivering"}, InWrapper(l, t, now)
    PROVE  /\ state[t] = "awaiting" /\ t \notin gone /\ wrapper[t] = now /\ Running(l, "wrapper", t)
           /\ now \in {"asking", "asked"} => home(t) = l
  BY WrapperOnTop DEF WrapperAt, InWrapper

\* While a co_await lasts, its task stays where it is.
LEMMA StaysAwaiting ==
    ASSUME IInv, Control, Waits, RacesAre, OrderlyStep, NEW l \in Loops, ThreadStep(l), NEW t \in Tasks,
           state[t] = "awaiting", t \notin gone, wrapper[t] \notin {"passing", "done"}
    PROVE  state'[t] = "awaiting" /\ at'[t] = at[t] /\ Awaited(t)' = Awaited(t)
<1>1. BodyMove(l, t) /\ program' = program
  BY Moves, SteadyStep DEF Waits, OrderlyStep, Steady
<1>2. ~In(l, t) /\ ~FinalSuspend(l, t)
  BY DEF In, FinalSuspend
<1>3. ~RunDeferred(l, t)
  <2> SUFFICES ASSUME RunDeferred(l, t) PROVE FALSE
    OBVIOUS
  <2>1. deferred[t] = 1 /\ Suspended(t)
    BY DEF RunDeferred, Control, Controlled, DeferredOnce, IInv, RestOK
  <2> QED
    BY <2>1 DEF Suspended
<1>4. ~WrapperEnds(l, t)
  BY DEF WrapperEnds, InWrapper
<1>5. \A c \in Tasks : ~(FinalSuspend(l, c) /\ parent[c] = <<"task", t>>)
  BY RaceWakes
<1>6. state'[t] = "awaiting" /\ at'[t] = at[t]
  BY <1>1, <1>2, <1>3, <1>4, <1>5 DEF BodyMove
<1> QED
  BY <1>1, <1>6 DEF Awaited

LEMMA ParentWaitsStep ==
    ASSUME IInv, Control, Waits, RacesAre, OrderlyStep, NEW l \in Loops, ThreadStep(l), NEW c \in Tasks
    PROVE  ParentWaits(c)'
<1> SUFFICES ASSUME c \notin gone', state'[c] # "done", NEW t \in Tasks, parent'[c] = <<"wrapper", t>>
             PROVE  t \notin gone' /\ state'[t] = "awaiting" /\ Awaited(t)' = c /\ wrapper'[t] \in {"asked", "waiting"}
  BY DEF ParentWaits
<1>1. program' = program /\ gone \subseteq gone' /\ DestroysAtRest
  BY SteadyStep DEF OrderlyStep, Steady
<1>2. c \notin gone /\ state[c] # "done"
  BY <1>1, BodyAfter
<1>3. CASE parent'[c] = parent[c]
  <2>1. t \notin gone /\ state[t] = "awaiting" /\ Awaited(t) = c /\ wrapper[t] \in {"asked", "waiting"}
    BY <1>2, <1>3 DEF Waits, ParentWaits
  <2>2. state'[t] = "awaiting" /\ Awaited(t)' = c
    BY <2>1, StaysAwaiting
  <2>3. wrapper'[t] \in {"asked", "waiting"}
    <3>1. WrapperMove(l, t)
      BY Moves DEF Waits, OrderlyStep
    <3>2. ~Await(l, t)
      BY <2>1 DEF Await, Does, In
    <3>3. ~Ask(l, t) /\ ~Deliver(l, t) /\ ~WrapperEnds(l, t)
      BY <2>1 DEF Ask, Deliver, WrapperEnds, InWrapper
    <3>4. ASSUME NEW q \in Tasks, AskAndResume(l, t, q) PROVE wrapper'[t] = "waiting"
      <4>1. q = c /\ wrapper[t] = "asked"
        BY <2>1, <3>4 DEF AskAndResume, InWrapper
      <4>2. ~Done(q)
        BY <2>1, <4>1 DEF Waits, Asks
      <4> QED
        BY <3>4, <4>2 DEF AskAndResume, Wraps, IInv, RestOK
    <3>5. ASSUME NEW q \in Tasks, FinalSuspend(l, q), parent[q] = <<"wrapper", t>> PROVE FALSE
      <4>1. q = c
        BY <2>1, <3>5, ParentWaiting
      <4> QED
        BY <3>5, <4>1 DEF FinalSuspend
    <3> QED
      BY <2>1, <3>1, <3>2, <3>3, <3>4, <3>5 DEF WrapperMove
  <2>4. t \notin gone'
    <3> SUFFICES ASSUME t \in gone' PROVE FALSE
      OBVIOUS
    <3>1. ~InUse(t)'
      BY <1>1, <2>1 DEF DestroysAtRest
    <3>2. parent'[c] \in {"task", "wrapper"} \X {t}
      OBVIOUS
    <3> QED
      BY <3>1, <3>2 DEF InUse
  <2> QED
    BY <2>2, <2>3, <2>4
<1>4. ASSUME NEW u \in Tasks, Ask(l, u), c = Awaited(u), parent'[c] = <<"wrapper", u>>, wrapper'[u] = "asked"
      PROVE  t \notin gone' /\ state'[t] = "awaiting" /\ Awaited(t)' = c /\ wrapper'[t] \in {"asked", "waiting"}
  <2>1. u = t /\ state[t] = "awaiting" /\ t \notin gone /\ UNCHANGED <<state, at, gone>>
    BY <1>4, InWrapperAt DEF Ask, bodies
  <2> QED
    BY <1>1, <1>4, <2>1 DEF Awaited
<1> QED
  BY <1>3, <1>4, MovesParent DEF ParentMove, None

LEMMA AsksStep ==
    ASSUME IInv, Control, Control', Waits, RacesAre, OrderlyStep, NEW l \in Loops, ThreadStep(l), NEW t \in Tasks
    PROVE  Asks(t)'
<1> SUFFICES ASSUME state'[t] = "awaiting", wrapper'[t] = "asked"
             PROVE  (/\ Awaited(t) \notin gone /\ ~Done(Awaited(t))
                     /\ \/ Awaited(t) \in started /\ home(Awaited(t)) = home(t)
                        \/ Fresh(Awaited(t)) /\ parent[Awaited(t)] = <<"wrapper", t>>)'
  BY DEF Asks
<1>1. program' = program /\ started \subseteq started' /\ DestroysAtRest
  BY SteadyStep DEF OrderlyStep, Steady
<1>2. WrapperMove(l, t)
  BY Moves DEF Waits, OrderlyStep
<1>3. ~Await(l, t)
  BY DEF Await, IInv, RestOK
<1>4. state[t] = "awaiting" /\ at'[t] = at[t] /\ Awaited(t)' = Awaited(t)
  <2>1. state[t] = "awaiting" /\ at'[t] = at[t]
    BY <1>3, BodyAfter
  <2> QED
    BY <1>1, <2>1 DEF Awaited
<1> PICK c \in Tasks : c = Awaited(t)
  BY <1>4, AwaitedIs
<1>5. CASE Ask(l, t)
  <2>1. /\ ~Done(c) /\ parent[c] = None /\ parent' = [parent EXCEPT ![c] = <<"wrapper", t>>]
        /\ UNCHANGED <<state, gone, started, deferred>>
    BY <1>5 DEF Ask, Wraps, bodies, IInv, RestOK
  <2>2. home(t) = l
    BY <1>5, InWrapperAt DEF Ask
  <2>3. c \notin gone /\ (Fresh(c) \/ (c \in started /\ home(c) = l))
    BY <1>5, <2>1 DEF OrderlyStep, AwaitsKnown, same_loop
  <2>4. parent'[c] = <<"wrapper", t>>
    BY <2>1 DEF IInv, Inv, Parents
  <2> QED
    BY <1>1, <1>4, <2>1, <2>2, <2>3, <2>4 DEF Done, Fresh, home
<1>6. CASE wrapper'[t] = wrapper[t]
  <2>1. /\ c \notin gone /\ ~Done(c)
        /\ (c \in started /\ home(c) = home(t)) \/ (Fresh(c) /\ parent[c] = <<"wrapper", t>>)
    BY <1>4, <1>6 DEF Waits, Asks
  <2>2. Running(home(t), "wrapper", t) /\ home(t) \in Loops
    <3>1. <<"wrapper", t>> \in Frames(home(t)) /\ home(t) \in Loops
      BY <1>4, <1>6, HomeIs DEF Control, Controlled, WrapperRuns, IInv
    <3>2. Top(home(t)) = <<"wrapper", t>> /\ stack[home(t)] # <<>>
      BY <3>1 DEF Control, Controlled, WrapperRuns, Frames, ToSet
    <3> QED
      BY <3>1, <3>2 DEF Running, Top
  <2>3. home(t) # l
    <3> SUFFICES ASSUME home(t) = l PROVE FALSE
      OBVIOUS
    <3>1. \/ Ask(l, t) \/ Deliver(l, t) \/ WrapperEnds(l, t) \/ \E q \in Tasks : AskAndResume(l, t, q)
      BY <2>2, WrapperTurn
    <3>2. ~Ask(l, t) /\ ~Deliver(l, t) /\ ~WrapperEnds(l, t)
      BY <1>6 DEF Ask, Deliver, WrapperEnds, InWrapper
    <3>3. \A q \in Tasks : ~AskAndResume(l, t, q)
      BY DEF AskAndResume, Wraps, IInv, RestOK
    <3> QED
      BY <3>1, <3>2, <3>3
  <2>4. c \notin gone'
    <3>1. <<"wrapper", t>> \in Frames(home(t))'
      BY DEF Control, Controlled, WrapperRuns
    <3>2. home(t)' = home(t)
      BY <1>1 DEF home
    <3>3. Asking(t)'
      BY <2>2, <3>1, <3>2 DEF Asking, OnStack
    <3> QED
      BY <1>1, <1>4, <2>1, <3>3 DEF DestroysAtRest, InUse
  <2>5. CASE c \in started /\ home(c) = home(t)
    <3>1. state'[c] = state[c]
      BY <2>3, <2>5, Elsewhere
    <3> QED
      BY <1>1, <1>4, <2>1, <2>4, <2>5, <3>1 DEF Done, home
  <2>6. CASE Fresh(c) /\ parent[c] = <<"wrapper", t>>
    <3>0. c \notin started /\ state[c] = "created" /\ deferred[c] = 0 /\ begun
      BY <1>4, <2>6 DEF Fresh, Waits, NotBegun
    <3>1. ~Called(l, c)
      <4>1. ~run_task(l)
        BY <3>0, BeginsOnce DEF Waits
      <4>2. \A q \in Tasks : ~Start(l, q, c)
        BY <2>6 DEF OrderlyStep, StartsOnce
      <4>3. ASSUME NEW q \in Tasks, AskAndResume(l, q, c) PROVE FALSE
        <5>1. state[q] = "awaiting" /\ wrapper[q] = "asked" /\ home(q) = l /\ Awaited(q) = c
          BY <4>3, InWrapperAt DEF AskAndResume
        <5>2. parent[c] = <<"wrapper", q>>
          BY <3>0, <5>1 DEF Waits, Asks
        <5> QED
          BY <2>3, <2>6, <5>1, <5>2
      <4> QED
        BY <4>1, <4>2, <4>3 DEF Called
    <3>2. ~RunDeferred(l, c)
      BY <3>0 DEF RunDeferred
    <3>3. ~In(l, c) /\ ~FinalSuspend(l, c) /\ ~Sleep(l, c)
      BY <3>0 DEF In, FinalSuspend, Sleep, Does
    <3>4. ~WrapperEnds(l, c) /\ ~Deliver(l, c)
      BY <3>0, WrapperOnTop DEF WrapperEnds, Deliver, WrapperAt
    <3>5. \A q \in Tasks : ~(FinalSuspend(l, q) /\ parent[q] = <<"task", c>>)
      BY <3>0, RaceWakes
    <3>6. state'[c] = "created" /\ deferred'[c] = 0
      BY <3>0, <3>1, <3>2, <3>3, <3>4, <3>5, Moves DEF BodyMove, DeferMove, Waits, OrderlyStep
    <3>7. c \notin started'
      <4>1. ASSUME NEW q \in Tasks, Attach(l, q, c) PROVE FALSE
        <5>1. q \in RaceTasks /\ c = Dummy(q) /\ at[q] = Attaching(q) /\ at[q] \in Nat
          BY <4>1, Attaches, RaceDoes
        <5>2. parent[c] = None
          BY <5>1 DEF RacesAre, RaceAt, DummyOf
        <5> QED
          BY <2>6, <5>2 DEF None
      <4> QED
        BY <3>0, <3>1, <3>2, <4>1, Moves DEF StartMove, Waits, OrderlyStep
    <3>8. parent'[c] = <<"wrapper", t>>
      <4>1. ASSUME NEW q \in Tasks, Attach(l, q, Dummy(q)), c \in ToSet(List(q)) \cup {Timer(q)} PROVE FALSE
        <5>1. q \in RaceTasks /\ at[q] = Attaching(q) /\ at[q] \in Nat /\ state[q] = "running"
          <6>1. Dummy(q) \in Tasks
            <7>1. In(l, q) /\ at[q] <= Len(program.body[q]) /\ Now(q).do = "attach"
              BY <4>1 DEF Attach, Does
            <7> QED
              BY <7>1, OnlyRaces, RaceDoes
          <6> QED
            BY <4>1, <6>1, Attaches, RaceDoes
        <5>2. c \notin ToSet(List(q))
          BY <3>0, <5>1, ListStarted
        <5>3. c = Timer(q) /\ q # t
          BY <1>4, <4>1, <5>1, <5>2
        <5>4. \A i \in DOMAIN program.body[t] : Timer(q) # NoTask => program.body[t][i].of # Timer(q)
          BY <5>1, <5>3, RaceOwns DEF IInv, Inv
        <5> QED
          BY <1>4, <5>3, <5>4, AwaitedIs, TaskAssumption
      <4>2. ASSUME NEW q \in Tasks, Detach(l, q), c \in ToSet(List(q)) PROVE FALSE
        <5>1. In(l, q) /\ at[q] <= Len(program.body[q]) /\ Now(q).do = "detach"
          BY <4>2 DEF Detach, Does
        <5>2. q \in RaceTasks
          BY <5>1, OnlyRaces
        <5>3. at[q] >= Attaching(q)
          BY <5>1, <5>2, RaceDoes DEF Ending, Do
        <5> QED
          BY <3>0, <4>2, <5>2, <5>3, ListStarted
      <4> QED
        BY <2>6, <4>1, <4>2, MovesParent DEF ParentMove, None
    <3> QED
      BY <1>4, <2>4, <3>6, <3>7, <3>8 DEF Fresh, Done
  <2> QED
    BY <2>1, <2>5, <2>6
<1>7. ~Deliver(l, t) /\ ~WrapperEnds(l, t)
  BY DEF Deliver, WrapperEnds, Wraps, AtItsEnd, IInv, RestOK
<1>8. \A q \in Tasks : ~AskAndResume(l, t, q)
  BY DEF AskAndResume, Wraps, IInv, RestOK
<1>9. ASSUME NEW q \in Tasks, FinalSuspend(l, q), parent[q] = <<"wrapper", t>> PROVE FALSE
  BY <1>9 DEF FinalSuspend, Continue, IInv, RestOK
<1> QED
  BY <1>2, <1>3, <1>5, <1>6, <1>7, <1>8, <1>9 DEF WrapperMove

LEMMA WaitsStep ==
    ASSUME IInv, Control, Control', Waits, RacesAre, OrderlyStep, NEW l \in Loops, ThreadStep(l)
    PROVE  Waits'
<1>1. NotBegun'
  BY BeginsOnce DEF NotBegun, Waits
<1>2. ASSUME NEW s \in Tasks PROVE Unbegun(s)'
  BY BodyAfter DEF Unbegun, Waits
<1> QED
  BY <1>1, <1>2, ParentWaitsStep, AsksStep, LaunchedStep DEF Waits

\* On one loop, what was awaited has ended when the task goes on.
LEMMA EarlyStep ==
    ASSUME IInv, Control, Waits, EarlyOnly, OrderlyStep, NEW l \in Loops, ThreadStep(l)
    PROVE  EarlyOnly'
<1>1. program' = program
  BY SteadyStep DEF OrderlyStep, Steady
<1>2. ASSUME NEW s \in Tasks, state[s] = "awaiting", home(Awaited(s)) # home(s)
      PROVE  \E i \in DOMAIN program.body[s] : program.body[s][i].do = "await" /\ home(program.body[s][i].of) # home(s)
  BY <1>2, AwaitedIs DEF Now
<1>3. ASSUME early' \subseteq early PROVE EarlyOnly'
  BY <1>1, <1>3 DEF EarlyOnly, home
<1>4. ASSUME NEW s \in Tasks, state[s] = "awaiting", home(Awaited(s)) # home(s), early' \subseteq early \cup {s}
      PROVE  EarlyOnly'
  BY <1>1, <1>2, <1>4 DEF EarlyOnly, home
<1>5. ASSUME NEW s \in Tasks, NEW now, Resumed(s, now), Fresh(s) PROVE early' \subseteq early
  BY <1>5 DEF Resumed, Fresh
<1>f. \A s \in Tasks : Called(l, s) => Fresh(s)
  BY CalledFresh DEF Waits, OrderlyStep
<1>6. CASE run_task(l)
  <2>1. program.root \in Tasks /\ Fresh(program.root)
    BY <1>6, <1>f, TaskAssumption DEF IInv, Inv, IsProgram, Called
  <2> QED
    BY <1>3, <1>5, <1>6, <2>1 DEF run_task, start
<1> SUFFICES ASSUME NEW t \in Tasks,
                    \/ RunDeferred(l, t) \/ Sleep(l, t) \/ Await(l, t) \/ Return(l, t) \/ FinalSuspend(l, t)
                    \/ Skip(l, t) \/ Instant(l, t) \/ Detach(l, t) \/ Choose(l, t)
                    \/ Ask(l, t) \/ Deliver(l, t) \/ WrapperEnds(l, t)
                    \/ \E c \in Tasks : Start(l, t, c) \/ Attach(l, t, c) \/ AskAndResume(l, t, c)
             PROVE  EarlyOnly'
  BY <1>6 DEF ThreadStep
<1>7. CASE RunDeferred(l, t)
  <2>1. CASE Alive(t)
    <3>1. Resumed(t, at) /\ t \notin gone /\ deferred[t] > 0
      BY <1>7, <2>1 DEF RunDeferred, Alive
    <3>2. Suspended(t)
      BY <3>1 DEF Control, Controlled, DeferredOnce, IInv, RestOK
    <3>3. CASE state[t] = "awaiting"
      BY <1>4, <3>1, <3>2, <3>3 DEF Suspended, Resumed
    <3>4. CASE state[t] # "awaiting"
      BY <1>3, <3>1, <3>4 DEF Resumed
    <3> QED
      BY <3>3, <3>4
  <2>2. CASE ~Alive(t)
    BY <1>3, <1>7, <2>2 DEF RunDeferred, bodies
  <2> QED
    BY <2>1, <2>2
<1>8. CASE Sleep(l, t) \/ Await(l, t) \/ FinalSuspend(l, t) \/ Ask(l, t) \/ Deliver(l, t)
  BY <1>3, <1>8 DEF Sleep, Await, FinalSuspend, Ask, Deliver, bodies
<1>9. CASE Return(l, t) \/ Skip(l, t) \/ Instant(l, t) \/ Detach(l, t)
  BY <1>3, <1>9 DEF Return, Skip, Instant, Detach, Leave, Wins
<1>10. CASE Choose(l, t)
  BY <1>3, <1>10, ChooseIs DEF Leave
<1>11. CASE WrapperEnds(l, t)
  <2>1. wrapper'[t] = "done"
    BY <1>11 DEF WrapperEnds, Wraps, AtItsEnd, IInv, RestOK
  <2> QED
    BY <1>3, <1>11, <2>1 DEF WrapperEnds, Resumed, bodies
<1>12. ASSUME NEW c \in Tasks, Start(l, t, c) PROVE EarlyOnly'
  <2>1. Fresh(c) /\ start(l, c, Forth(t, 1))
    BY <1>12 DEF OrderlyStep, StartsOnce, Start
  <2> QED
    BY <1>3, <1>5, <2>1 DEF start
<1>13. ASSUME NEW c \in Tasks, Attach(l, t, c) PROVE EarlyOnly'
  BY <1>3, <1>13 DEF Attach
<1>14. ASSUME NEW c \in Tasks, AskAndResume(l, t, c) PROVE EarlyOnly'
  <2>1. ~Done(c) /\ c \notin started => Fresh(c)
    BY <1>14, <1>f DEF Called
  <2> QED
    BY <1>3, <1>5, <1>14, <2>1 DEF AskAndResume, LeftAlone, bodies
<1> QED
  BY <1>7, <1>8, <1>9, <1>10, <1>11, <1>12, <1>13, <1>14

-----------------------------------------------------------------------------
(* How a race moves, and its dummy.                                        *)

LEMMA StackElsewhere ==
    ASSUME Inv, NEW l \in Loops, ThreadStep(l), NEW m \in Loops \ {l}
    PROVE  stack'[m] = stack[m]
<1>0. stack = [n \in Loops |-> stack[n]]
  BY StackType
<1>1. ASSUME UNCHANGED stack \/ Pop(l) \/ \E c : Push(l, c) \/ Switch(l, c) PROVE stack'[m] = stack[m]
  BY <1>0, <1>1 DEF Pop, Push, Switch
<1>2. CASE run_task(l)
  BY <1>1, <1>2 DEF run_task, start
<1> SUFFICES ASSUME NEW t \in Tasks,
                    \/ RunDeferred(l, t) \/ Sleep(l, t) \/ Await(l, t) \/ Return(l, t) \/ FinalSuspend(l, t)
                    \/ Skip(l, t) \/ Instant(l, t) \/ Detach(l, t) \/ Choose(l, t)
                    \/ Ask(l, t) \/ Deliver(l, t) \/ WrapperEnds(l, t)
                    \/ \E c \in Tasks : Start(l, t, c) \/ Attach(l, t, c) \/ AskAndResume(l, t, c)
             PROVE  stack'[m] = stack[m]
  BY <1>2 DEF ThreadStep
<1>3. CASE RunDeferred(l, t) \/ Sleep(l, t) \/ Await(l, t)
  BY <1>1, <1>3 DEF RunDeferred, Sleep, Await
<1>4. CASE Return(l, t) \/ Skip(l, t) \/ Instant(l, t) \/ Detach(l, t) \/ Choose(l, t)
  BY <1>1, <1>4, ChooseIs DEF Return, Skip, Instant, Detach, Other, control
<1>5. CASE FinalSuspend(l, t)
  BY <1>1, <1>5 DEF FinalSuspend, Continue, Ends
<1>6. CASE Ask(l, t) \/ Deliver(l, t) \/ WrapperEnds(l, t)
  BY <1>1, <1>6 DEF Ask, Deliver, WrapperEnds
<1>7. ASSUME NEW c \in Tasks, Start(l, t, c) \/ Attach(l, t, c) \/ AskAndResume(l, t, c) PROVE stack'[m] = stack[m]
  BY <1>1, <1>7 DEF Start, start, Attach, Other, control, AskAndResume
<1> QED
  BY <1>3, <1>4, <1>5, <1>6, <1>7

\* A race that has the loop does what its body says.
LEMMA RaceTurn ==
    ASSUME IInv, Control, Waits, RacesAre, OrderlyStep, NEW l \in Loops, ThreadStep(l), NEW r \in RaceTasks, In(l, r)
    PROVE  \/ /\ at[r] < Attaching(r) /\ at[r] <= at'[r] /\ at'[r] <= Attaching(r)
              /\ state'[r] \in {"running", "final"}
           \/ at[r] = Attaching(r) /\ Attach(l, r, Dummy(r))
           \/ at[r] = Parking(r) - 1 /\ Timer(r) # NoTask /\ Start(l, r, Timer(r))
           \/ at[r] = Parking(r) /\ Await(l, r)
           \/ at[r] = Parking(r) + 1 /\ Detach(l, r)
           \/ at[r] = Ending(r) /\ Choose(l, r) /\ \E exception : Leave(r, exception)
<1>0. /\ r \in Tasks /\ r \notin program.naps /\ Running(l, "task", r) /\ state[r] = "running"
      /\ at[r] <= Ending(r) /\ at \in [Tasks -> Nat \ {0}]
  BY RaceOwns DEF In, RacesAre, RaceAt, IInv, Inv, BodiesOK
<1>1. at[r] <= Len(program.body[r]) /\ Ending(r) = Parking(r) + 2 /\ Attaching(r) \in Nat /\ Parking(r) \in Nat
  BY <1>0, RaceDoes DEF Ending
<1>2. ~Return(l, r) /\ ~FinalSuspend(l, r)
  BY <1>0, <1>1 DEF Return, FinalSuspend
<1>3. \/ Sleep(l, r) \/ Await(l, r) \/ Skip(l, r) \/ Instant(l, r) \/ Detach(l, r) \/ Choose(l, r)
      \/ \E c \in Tasks : Start(l, r, c) \/ Attach(l, r, c)
  BY <1>0, <1>2, Turn
<1>4. /\ Sleep(l, r) => Now(r).do = "sleep"
      /\ Await(l, r) => Now(r).do = "await"
      /\ Skip(l, r) => Now(r).do = "launch"
      /\ Instant(l, r) => Now(r).do = "instant"
      /\ Detach(l, r) => Now(r).do = "detach"
      /\ Choose(l, r) => Now(r).do \in {"look", "choose"}
      /\ \A c \in Tasks : Start(l, r, c) => Now(r).do \in {"start", "launch"} /\ c = Now(r).of
      /\ \A c \in Tasks : Attach(l, r, c) => Now(r).do = "attach" /\ c = Dummy(r)
  BY <1>0, ChooseIs DEF Sleep, Await, Skip, Instant, Detach, Start, Attach, Does, Dummy
<1>5. \/ at[r] < Attaching(r) /\ Now(r).do \in {"launch", "instant", "look"}
      \/ at[r] = Attaching(r) /\ Now(r) = Do("attach", NoTask)
      \/ at[r] = Parking(r) - 1 /\ Timer(r) # NoTask /\ Now(r) = Do("start", Timer(r))
      \/ at[r] = Parking(r) /\ Now(r) = Do("await", Dummy(r))
      \/ at[r] = Parking(r) + 1 /\ Now(r) = Do("detach", NoTask)
      \/ at[r] = Parking(r) + 2 /\ Now(r) = Do("choose", NoTask)
  BY <1>0, RaceDoes
<1>6. CASE at[r] < Attaching(r) /\ Now(r).do \in {"launch", "instant", "look"}
  <2>1. Goes(l, r) /\ state'[r] \in {"running", "asleep", "awaiting", "final"}
        /\ (state'[r] = "awaiting" => Await(l, r)) /\ (state'[r] = "asleep" => Sleep(l, r))
    BY RunMoves, <1>0 DEF OrderlyStep
  <2>2. state'[r] \in {"running", "final"}
    BY <1>4, <1>6, <2>1
  <2>3. at'[r] = at[r] + 2 /\ program.body[r][at[r] + 1].do = "instant" => at[r] + 1 # Attaching(r)
    <3>1. program.body[r][Attaching(r)].do = "attach"
      <4>1. program.body[r][Attaching(r)] = Do("attach", NoTask)
        BY RaceShape DEF IInv, Inv
      <4> QED
        BY <4>1 DEF Do
    <3> QED
      BY <3>1
  <2>4. at[r] \in Nat
    BY <1>0
  <2>5. at[r] <= at'[r] /\ at'[r] <= Attaching(r)
    BY <1>1, <1>6, <2>1, <2>3, <2>4 DEF Goes
  <2> QED
    BY <1>6, <2>2, <2>5
<1>7. CASE at[r] = Attaching(r) /\ Now(r) = Do("attach", NoTask)
  BY <1>3, <1>4, <1>7 DEF Do
<1>8. CASE at[r] = Parking(r) - 1 /\ Timer(r) # NoTask /\ Now(r) = Do("start", Timer(r))
  BY <1>3, <1>4, <1>8 DEF Do
<1>9. CASE at[r] = Parking(r) /\ Now(r) = Do("await", Dummy(r))
  BY <1>3, <1>4, <1>9 DEF Do
<1>10. CASE at[r] = Parking(r) + 1 /\ Now(r) = Do("detach", NoTask)
  BY <1>3, <1>4, <1>10 DEF Do
<1>11. CASE at[r] = Parking(r) + 2 /\ Now(r) = Do("choose", NoTask)
  <2>1. Choose(l, r) /\ Now(r).do = "choose"
    BY <1>3, <1>4, <1>11 DEF Do
  <2> QED
    BY <1>1, <1>11, <2>1, ChooseIs
<1> QED
  BY <1>5, <1>6, <1>7, <1>8, <1>9, <1>10, <1>11

\* A race takes a step on its own loop: it begins, has its turn, goes on when its dummy has ended, or
\* is over.
RaceMove(l, r) ==
    \/ state'[r] = state[r] /\ at'[r] = at[r] /\ ~In(l, r)
    \/ In(l, r)
    \/ state[r] = "created" /\ state'[r] = "running" /\ at'[r] = at[r] /\ at[r] = 1
    \/ state[r] = "awaiting" /\ WrapperEnds(l, r) /\ home(r) = l /\ r \notin gone
    \/ state[r] = "final" /\ state'[r] = "done" /\ at'[r] = at[r]

LEMMA RaceMoves ==
    ASSUME IInv, Control, Waits, RacesAre, OrderlyStep, NEW l \in Loops, ThreadStep(l), NEW r \in RaceTasks
    PROVE  RaceMove(l, r)
<1>0. r \in Tasks /\ RaceAt(r) /\ home(Dummy(r)) = home(r) /\ Unbegun(r)
  BY RaceOwns DEF RacesAre, Waits, IInv, Inv
<1>1. BodyMove(l, r)
  BY <1>0, Moves DEF Waits, OrderlyStep
<1>2. CASE FinalSuspend(l, r)
  BY <1>0, <1>2 DEF FinalSuspend, RaceMove
<1>3. CASE RunDeferred(l, r) /\ r \notin gone
  <2>1. Resumed(r, at) /\ Suspended(r)
    BY <1>0, <1>3 DEF RunDeferred, Alive, Control, Controlled, DeferredOnce, IInv, RestOK
  <2>2. state[r] # "asleep"
    BY <1>0 DEF RaceAt
  <2>3. state[r] # "awaiting"
    <3> SUFFICES ASSUME state[r] = "awaiting" PROVE FALSE
      OBVIOUS
    <3>1. Awaited(r) = Dummy(r)
      <4>1. Now(r).do = "await" /\ at[r] <= Ending(r) /\ Awaited(r) = Now(r).of
        BY <1>0, AwaitedIs DEF RaceAt, Now
      <4> QED
        BY <4>1, RaceDoes DEF Do
    <3> QED
      BY <1>0, <2>1, <3>1 DEF Suspended
  <2>4. state[r] = "created" /\ state'[r] = "running" /\ at'[r] = at[r]
    BY <1>0, <2>1, <2>2, <2>3, ResumedMoves DEF Suspended, IInv, BodiesOK
  <2> QED
    BY <1>0, <2>4 DEF Unbegun, RaceMove
<1>4. CASE WrapperEnds(l, r) /\ home(r) = l
  <2>1. state[r] = "awaiting" /\ r \notin gone
    BY <1>0, <1>4, WrapperOnTop DEF WrapperEnds, WrapperAt
  <2> QED
    BY <1>4, <2>1 DEF RaceMove
<1>5. ASSUME NEW c \in Tasks, FinalSuspend(l, c), parent[c] = <<"task", r>> PROVE FALSE
  <2>1. PICK q \in RaceTasks : r = Dummy(q)
    BY <1>0, <1>5, RaceWakes
  <2>2. program.body[r] = <<>>
    BY <2>1, RaceOwns DEF IInv, Inv
  <2>3. Ending(r) \in Nat /\ Attaching(r) \in 1 .. Ending(r)
    BY RaceShape DEF IInv, Inv
  <2> QED
    BY <2>2, <2>3 DEF Ending
<1> QED
  BY <1>0, <1>1, <1>2, <1>3, <1>4, <1>5 DEF BodyMove, RaceMove, Unbegun

\* What a race awaits is its dummy.
LEMMA RaceAwaits ==
    ASSUME IInv, RacesAre, NEW r \in RaceTasks, state[r] = "awaiting"
    PROVE  at[r] = Parking(r) /\ Awaited(r) = Dummy(r)
<1>1. Now(r).do = "await" /\ at[r] <= Ending(r) /\ Awaited(r) = Now(r).of
  BY AwaitedIs, RaceOwns DEF RacesAre, RaceAt, Now, IInv, Inv
<1> QED
  BY <1>1, RaceDoes DEF Do

\* The dummy is resumed while the race waits, and comes to its end at once.
DummyMove(l, r) ==
    \/ state'[Dummy(r)] = state[Dummy(r)]
    \/ Running(l, "task", Dummy(r)) /\ Return(l, Dummy(r)) /\ state[Dummy(r)] = "running" /\ state'[Dummy(r)] = "final"
    \/ Running(l, "task", Dummy(r)) /\ FinalSuspend(l, Dummy(r)) /\ state[Dummy(r)] = "final" /\ state'[Dummy(r)] = "done"
    \/ /\ state[Dummy(r)] = "created" /\ state'[Dummy(r)] = "running" /\ state[r] = "awaiting" /\ home(r) = l
       /\ \E c \in Tasks : FinalSuspend(l, c) /\ parent[c] = <<"task", Dummy(r)>>

LEMMA DummyTurn ==
    ASSUME IInv, NEW l \in Loops, ThreadStep(l), NEW r \in RaceTasks, In(l, Dummy(r))
    PROVE  /\ Return(l, Dummy(r)) /\ state'[Dummy(r)] = "final" /\ threw' = threw
           /\ state[Dummy(r)] = "running" /\ Running(l, "task", Dummy(r))
<1> PICK d \in Tasks : d = Dummy(r)
  BY RaceDoes
<1>0. program.body[d] = <<>> /\ d \notin program.naps \cup program.throws
  BY RaceOwns DEF IInv, Inv
<1>1. at[d] \in Nat \ {0} /\ Len(program.body[d]) = 0 /\ Running(l, "task", d) /\ state[d] = "running"
  BY <1>0 DEF IInv, BodiesOK, In
<1>2. \A what : ~Does(l, d, what)
  BY <1>1 DEF Does
<1>3. /\ ~Await(l, d) /\ ~Skip(l, d) /\ ~Instant(l, d) /\ ~Detach(l, d) /\ ~Choose(l, d)
      /\ \A c \in Tasks : ~Start(l, d, c) /\ ~Attach(l, d, c)
  BY <1>2, ChooseIs DEF Await, Skip, Instant, Detach, Start, Attach
<1>4. ~FinalSuspend(l, d) /\ ~Sleep(l, d)
  BY <1>0, <1>1, <1>2 DEF FinalSuspend, Sleep
<1>5. Return(l, d)
  BY <1>1, <1>3, <1>4, Turn
<1>6. state'[d] = "final" /\ threw' = threw
  BY <1>0, <1>5 DEF Return, Leave, IInv, BodiesOK
<1> QED
  BY <1>1, <1>5, <1>6

LEMMA DummyMoves ==
    ASSUME IInv, Control, Waits, RacesAre, OrderlyStep, NEW l \in Loops, ThreadStep(l), NEW r \in RaceTasks
    PROVE  /\ DummyMove(l, r)
           /\ deferred'[Dummy(r)] = 0 /\ Dummy(r) \notin threw'
           /\ Dummy(r) \in started' => Dummy(r) \in started \/ Attach(l, r, Dummy(r))
           /\ parent'[Dummy(r)] = parent[Dummy(r)] \/ (Ask(l, r) /\ state[r] = "awaiting")
<1> DEFINE d == Dummy(r)
<1>0. r \in Tasks /\ d \in Tasks /\ RaceAt(r) /\ DummyOf(r) /\ program \in Programs
  BY RaceOwns DEF RacesAre, RaceAt, IInv, Inv
<1>1. /\ d # r /\ program.body[d] = <<>> /\ d \notin program.naps \cup program.throws \cup {program.root}
      /\ \A t \in Tasks \ {r} : \A i \in DOMAIN program.body[t] : program.body[t][i].of # d
      /\ \A t \in Tasks \ {r} : d \notin ToSet(List(t)) \cup {Dummy(t), Timer(t)}
      /\ d \notin ToSet(List(r)) /\ d # Timer(r)
  BY <1>0, RaceOwns
<1>2. state[d] \in {"created", "running", "final", "done"} /\ deferred[d] = 0 /\ d \notin threw
  BY <1>0 DEF DummyOf
<1>3. ~Called(l, d)
  <2>1. ASSUME NEW t \in Tasks, Start(l, t, d) PROVE FALSE
    <3>1. /\ Now(t).do \in {"start", "launch"} /\ d = Now(t).of /\ at[t] <= Len(program.body[t])
      BY <2>1 DEF Start, Does
    <3>2. at[t] \in DOMAIN program.body[t]
      BY <1>0, <3>1, TaskAssumption DEF IsProgram, IInv, BodiesOK
    <3>3. t = r
      BY <1>1, <3>1, <3>2 DEF Now
    <3>4. at[r] <= Ending(r)
      BY <3>1, <3>3 DEF Ending
    <3>5. \/ Now(r).of \in ToSet(List(r)) /\ Now(r).do \in {"launch", "instant", "look"} /\ Now(r).do # "look"
          \/ Now(r) = Do("start", Timer(r))
      BY <3>1, <3>3, <3>4, RaceDoes DEF Do
    <3> QED
      BY <1>1, <3>1, <3>3, <3>5 DEF Do
  <2>2. ASSUME NEW t \in Tasks, AskAndResume(l, t, d), d \notin started PROVE FALSE
    <3>1. state[t] = "awaiting" /\ Awaited(t) = d
      BY <2>2, InWrapperAt DEF AskAndResume
    <3>2. t = r
      BY <1>1, <3>1, AwaitedIs
    <3>3. at[r] = Parking(r) /\ Attaching(r) < Parking(r) /\ Attaching(r) \in Nat /\ Parking(r) \in Nat
      BY <3>1, <3>2, RaceAwaits, RaceDoes
    <3> QED
      BY <1>0, <2>2, <3>3 DEF DummyOf
  <2> QED
    BY <1>1, <2>1, <2>2 DEF Called
<1>4. ~RunDeferred(l, d)
  BY <1>2 DEF RunDeferred
<1>5. ~Sleep(l, d) /\ ~(Deliver(l, d))
  <2>1. at[d] \in Nat \ {0} /\ Len(program.body[d]) = 0
    BY <1>0, <1>1 DEF IInv, BodiesOK
  <2>2. ~Sleep(l, d)
    BY <1>1, <2>1 DEF Sleep, Does
  <2>3. ~Deliver(l, d)
    BY <1>0, <1>2, InWrapperAt DEF Deliver
  <2> QED
    BY <2>2, <2>3
<1>6. In(l, d) => Return(l, d) /\ state'[d] = "final" /\ threw' = threw /\ state[d] = "running" /\ Running(l, "task", d)
  BY <1>0, DummyTurn
<1>7. ASSUME NEW c \in Tasks, FinalSuspend(l, c), parent[c] = <<"task", d>>
      PROVE  state[r] = "awaiting" /\ home(r) = l /\ state[d] = "created" /\ state'[d] = "running" /\ threw' = threw
  <2>1. PICK q \in RaceTasks : d = Dummy(q) /\ home(q) = l /\ state[q] = "awaiting" /\ state[d] = "created"
    BY <1>0, <1>7, RaceWakes
  <2>2. q \in Tasks
    BY <2>1, RaceOwns DEF IInv, Inv
  <2>3. q = r
    BY <1>1, <2>1, <2>2
  <2>4. c # d
    BY <1>7, <2>1 DEF FinalSuspend
  <2> QED
    BY <1>0, <1>7, <2>1, <2>3, <2>4 DEF FinalSuspend, Done
<1>8. FinalSuspend(l, d) => state[d] = "final" /\ state'[d] = "done" /\ threw' = threw /\ Running(l, "task", d)
  BY <1>0 DEF FinalSuspend
<1>9. ~WrapperEnds(l, d) \/ home(d) # l
  <2> SUFFICES ASSUME WrapperEnds(l, d), home(d) = l PROVE FALSE
    OBVIOUS
  <2>1. WrapperAt(l, d)
    BY <1>0, WrapperOnTop DEF WrapperEnds
  <2> QED
    BY <1>2, <2>1 DEF WrapperAt
<1>10. DummyMove(l, r) /\ d \notin threw'
  <2>1. BodyMove(l, d)
    BY <1>0, Moves DEF Waits, OrderlyStep
  <2> HIDE DEF d
  <2>2. d = Dummy(r)
    BY DEF d
  <2> QED
    BY <1>2, <1>3, <1>4, <1>6, <1>7, <1>8, <1>9, <2>1, <2>2 DEF BodyMove, DummyMove
<1>11. deferred'[d] = 0
  <2>1. DeferMove(l, d)
    BY <1>0, Moves DEF Waits, OrderlyStep
  <2> QED
    BY <1>2, <1>3, <1>4, <1>5, <2>1 DEF DeferMove
<1>12. d \in started' => d \in started \/ Attach(l, r, d)
  <2>1. StartMove(l, d)
    BY <1>0, Moves DEF Waits, OrderlyStep
  <2>2. ASSUME NEW t \in Tasks, Attach(l, t, d) PROVE t = r
    <3>1. d = Dummy(t)
      BY <1>0, <2>2, Attaches
    <3> QED
      BY <1>1, <3>1
  <2> QED
    BY <1>3, <1>4, <2>1, <2>2 DEF StartMove
<1>13. parent'[d] = parent[d] \/ (Ask(l, r) /\ state[r] = "awaiting")
  <2>1. ASSUME NEW t \in Tasks, Ask(l, t), d = Awaited(t) PROVE Ask(l, r) /\ state[r] = "awaiting"
    <3>1. state[t] = "awaiting"
      BY <2>1, InWrapperAt DEF Ask
    <3>2. t = r
      BY <1>1, <2>1, <3>1, AwaitedIs
    <3> QED
      BY <2>1, <3>1, <3>2
  <2>2. ParentMove(l, d)
    BY <1>0, MovesParent
  <2>3. \A t \in Tasks : d \notin ToSet(List(t)) \cup {Timer(t)}
    BY <1>1
  <2> QED
    BY <2>1, <2>2, <2>3 DEF ParentMove
<1> QED
  BY <1>10, <1>11, <1>12, <1>13

LEMMA SameRaces ==
    program' = program => /\ RaceTasks' = RaceTasks
                          /\ \A t \in Tasks : home(t)' = home(t)
                          /\ \A r \in RaceTasks : /\ Dummy(r)' = Dummy(r) /\ Timer(r)' = Timer(r) /\ List(r)' = List(r)
                                                  /\ Ending(r)' = Ending(r) /\ Parking(r)' = Parking(r)
                                                  /\ Attaching(r)' = Attaching(r)
  BY DEF RaceTasks, IsRace, home, Dummy, Timer, List, Ending, Parking, Attaching

\* How far a race comes.
LEMMA RaceGoes ==
    ASSUME IInv, Control, Waits, RacesAre, OrderlyStep, NEW l \in Loops, ThreadStep(l), NEW r \in RaceTasks
    PROVE  /\ at'[r] \in Nat /\ at[r] <= at'[r] /\ at'[r] <= Ending(r) /\ state'[r] # "asleep"
           /\ at[r] <= Attaching(r) /\ ~Attach(l, r, Dummy(r)) => at'[r] <= Attaching(r)
           /\ Attach(l, r, Dummy(r)) => at[r] = Attaching(r) /\ at'[r] = at[r] + 1 /\ state'[r] = "running" /\ r \notin gone'
           /\ at'[r] = Ending(r) => at[r] = Ending(r) \/ Detach(l, r)
<1>0. /\ r \in Tasks /\ at[r] \in Nat /\ at[r] <= Ending(r) /\ state[r] # "asleep"
      /\ Ending(r) = Parking(r) + 2 /\ Attaching(r) \in Nat /\ Parking(r) \in Nat /\ Attaching(r) < Parking(r)
  BY RaceDoes DEF RacesAre, RaceAt
<1>1. at \in [Tasks -> Nat \ {0}] /\ state \in [Tasks -> States] /\ Dummy(r) \in Tasks
  BY RaceDoes DEF IInv, BodiesOK
<1>a. ASSUME Attach(l, r, Dummy(r))
      PROVE  at[r] = Attaching(r) /\ at'[r] = at[r] + 1 /\ state'[r] = "running" /\ r \notin gone'
  <2>1. at[r] = Attaching(r) /\ state[r] = "running"
    BY <1>0, <1>1, <1>a, Attaches
  <2>2. at'[r] = at[r] + 1 /\ UNCHANGED <<state, gone>> /\ In(l, r)
    BY <1>0, <1>1, <1>a DEF Attach, Forth, races, Does
  <2>3. r \notin gone
    BY <1>0, <2>2, TaskOnTop DEF In, IInv
  <2> QED
    BY <2>1, <2>2, <2>3
<1>2. CASE at'[r] = at[r] /\ state'[r] \in {state[r], "running", "done"}
  BY <1>0, <1>2, <1>a
<1>3. CASE state[r] = "awaiting" /\ WrapperEnds(l, r) /\ home(r) = l
  <2>1. at[r] = Parking(r)
    BY <1>3, RaceAwaits
  <2>2. Resumed(r, at) /\ ~Done(r)
    BY <1>3 DEF WrapperEnds, same_loop, Done
  <2>3. state'[r] \in {"running", "final"} /\ (at'[r] = at[r] \/ at'[r] = at[r] + 1)
    BY <1>0, <2>2, ResumedGoes
  <2>4. ~Attach(l, r, Dummy(r))
    BY <1>3 DEF Attach, Does, In
  <2> QED
    BY <1>0, <2>1, <2>3, <2>4
<1>4. CASE In(l, r)
  <2>1. CASE /\ at[r] < Attaching(r) /\ at[r] <= at'[r] /\ at'[r] <= Attaching(r)
             /\ state'[r] \in {"running", "final"}
    <3>1. Goes(l, r)
      BY <1>0, <1>4, RunMoves DEF OrderlyStep
    <3>2. at'[r] \in Nat
      BY <1>0, <3>1 DEF Goes
    <3> QED
      BY <1>0, <1>a, <2>1, <3>2
  <2>2. CASE at[r] = Attaching(r) /\ Attach(l, r, Dummy(r))
    BY <1>0, <1>a, <2>2
  <2>3. ASSUME at[r] > Attaching(r), state'[r] # "asleep", at'[r] = at[r] \/ at'[r] = at[r] + 1,
               at'[r] = at[r] \/ at[r] # Ending(r), at'[r] = at[r] \/ Detach(l, r) \/ at[r] <= Parking(r)
        PROVE  /\ at'[r] \in Nat /\ at[r] <= at'[r] /\ at'[r] <= Ending(r) /\ state'[r] # "asleep"
               /\ at[r] <= Attaching(r) /\ ~Attach(l, r, Dummy(r)) => at'[r] <= Attaching(r)
               /\ Attach(l, r, Dummy(r)) => at[r] = Attaching(r) /\ at'[r] = at[r] + 1 /\ state'[r] = "running" /\ r \notin gone'
               /\ at'[r] = Ending(r) => at[r] = Ending(r) \/ Detach(l, r)
    BY <1>0, <1>a, <2>3
  <2>4. CASE at[r] = Parking(r) - 1 /\ Timer(r) # NoTask /\ Start(l, r, Timer(r))
    <3>1. Timer(r) \in Tasks /\ at[r] > Attaching(r)
      BY <1>0, <2>4, RaceDoes
    <3>2. start(l, Timer(r), Forth(r, 1)) /\ Fresh(Timer(r)) /\ Timer(r) # r
      <4>1. start(l, Timer(r), Forth(r, 1))
        BY <2>4 DEF Start
      <4>2. Fresh(Timer(r))
        BY <1>0, <2>4, <3>1 DEF OrderlyStep, StartsOnce
      <4>3. Timer(r) # r
        BY <1>4, <4>2 DEF Fresh, In
      <4> QED
        BY <4>1, <4>2, <4>3
    <3>3. Forth(r, 1) \in [Tasks -> Nat] /\ Forth(r, 1)[r] = at[r] + 1 /\ Forth(r, 1)[Timer(r)] = at[Timer(r)]
      BY <1>0, <1>1, <3>1, <3>2 DEF Forth
    <3>4. state'[r] = state[r] /\ at'[r] = at[r] + 1
      BY <1>0, <3>1, <3>2, <3>3, StartMoves
    <3> QED
      BY <1>0, <2>3, <2>4, <3>1, <3>4
  <2>5. CASE at[r] = Parking(r) /\ Await(l, r)
    <3>1. at'[r] = at[r] /\ state'[r] = "awaiting"
      BY <1>0, <1>1, <2>5 DEF Await
    <3> QED
      BY <1>0, <2>3, <2>5, <3>1
  <2>6. CASE at[r] = Parking(r) + 1 /\ Detach(l, r)
    <3>1. at'[r] = at[r] + 1 /\ state'[r] = state[r]
      BY <1>0, <1>1, <2>6 DEF Detach, Forth
    <3> QED
      BY <1>0, <2>3, <2>6, <3>1
  <2>7. CASE at[r] = Ending(r) /\ \E exception : Leave(r, exception)
    <3>1. at'[r] = at[r] /\ state'[r] = "final"
      BY <1>0, <1>1, <2>7 DEF Leave
    <3> QED
      BY <1>0, <2>3, <2>7, <3>1
  <2> QED
    BY <1>4, <2>1, <2>2, <2>4, <2>5, <2>6, <2>7, RaceTurn
<1>5. RaceMove(l, r)
  BY RaceMoves
<1> QED
  BY <1>0, <1>2, <1>3, <1>4, <1>5 DEF RaceMove

LEMMA DummyOfStep ==
    ASSUME IInv, Control, Waits, RacesAre, OrderlyStep, NEW l \in Loops, ThreadStep(l), NEW r \in RaceTasks
    PROVE  DummyOf(r)'
<1> PICK d \in Tasks : d = Dummy(r)
  BY RaceDoes
<1>0. /\ program' = program /\ started \subseteq started' /\ d = Dummy(r)' /\ Attaching(r)' = Attaching(r)
      /\ Attaching(r) \in Nat /\ at[r] \in Nat /\ DummyOf(r)
  BY SteadyStep, SameRaces, RaceDoes DEF OrderlyStep, Steady, RacesAre, RaceAt
<1>1. /\ DummyMove(l, r) /\ deferred'[d] = 0 /\ d \notin threw'
      /\ d \in started' => d \in started \/ Attach(l, r, d)
      /\ parent'[d] = parent[d] \/ (Ask(l, r) /\ state[r] = "awaiting")
  BY DummyMoves
<1>2. state'[d] \in {"created", "running", "final", "done"}
  BY <1>0, <1>1 DEF DummyMove, DummyOf
<1>3. /\ at'[r] \in Nat /\ at[r] <= at'[r]
      /\ at[r] <= Attaching(r) /\ ~Attach(l, r, d) => at'[r] <= Attaching(r)
      /\ Attach(l, r, d) => at[r] = Attaching(r) /\ at'[r] = at[r] + 1
  BY RaceGoes
<1>4. CASE at'[r] <= Attaching(r)
  <2>1. at[r] <= Attaching(r) /\ ~Attach(l, r, d)
    BY <1>0, <1>3, <1>4
  <2>2. state[d] = "created" /\ d \notin started /\ parent[d] = None
    BY <1>0, <2>1 DEF DummyOf
  <2>3. state[r] # "awaiting"
    BY <1>0, <2>1, RaceAwaits, RaceDoes
  <2>4. state'[d] = "created" /\ d \notin started' /\ parent'[d] = None
    BY <1>1, <2>1, <2>2, <2>3 DEF DummyMove
  <2> QED
    BY <1>0, <1>1, <1>4, <2>4 DEF DummyOf
<1>5. CASE ~(at'[r] <= Attaching(r))
  <2>1. d \in started'
    <3>1. CASE at[r] <= Attaching(r)
      <4>1. Attach(l, r, d)
        BY <1>3, <1>5, <3>1
      <4> QED
        BY <4>1 DEF Attach
    <3>2. CASE ~(at[r] <= Attaching(r))
      BY <1>0, <3>2 DEF DummyOf
    <3> QED
      BY <3>1, <3>2
  <2> QED
    BY <1>0, <1>1, <1>2, <1>5, <2>1 DEF DummyOf
<1> QED
  BY <1>4, <1>5

-----------------------------------------------------------------------------
(* A race keeps to its dummy.                                              *)

\* It runs: it has the loop, or the timer it starts has.
LEMMA RunsAfter ==
    ASSUME IInv, Control, Waits, RacesAre, OrderlyStep, NEW l \in Loops, ThreadStep(l), NEW r \in RaceTasks,
           r \notin gone, RaceLives(r), state[r] = "running", ~In(l, r), state'[r] = "running", at'[r] = at[r]
    PROVE  RaceRuns(r)'
<1> PICK h \in Loops : h = home(r)
  BY RaceDoes, HomeIs DEF IInv
<1>0. /\ program' = program /\ h = home(r)' /\ Attaching(r)' = Attaching(r) /\ Parking(r)' = Parking(r) /\ Timer(r)' = Timer(r)
      /\ r \in Tasks
  BY SteadyStep, SameRaces, RaceDoes DEF OrderlyStep, Steady
<1> SUFFICES ASSUME at[r] > Attaching(r) PROVE RaceRuns(r)'
  BY <1>0 DEF RaceRuns
<1>1. \/ Running(h, "task", r)
      \/ /\ at[r] = Parking(r) /\ Timer(r) # NoTask
         /\ Running(h, "task", Timer(r)) /\ state[Timer(r)] = "running" /\ at[Timer(r)] = 1
         /\ Len(stack[h]) > 1 /\ stack[h][2] = <<"task", r>>
  BY DEF RaceLives, RaceRuns
<1>2. CASE h # l
  <2>1. stack'[h] = stack[h]
    BY <1>2, StackElsewhere DEF IInv
  <2>2. Timer(r) # NoTask => state'[Timer(r)] = state[Timer(r)] /\ at'[Timer(r)] = at[Timer(r)]
    BY <1>2, Elsewhere, RaceOwns DEF IInv, Inv
  <2> QED
    BY <1>0, <1>1, <2>1, <2>2 DEF RaceRuns, Running
<1>3. CASE h = l
  <2>1. ~Running(h, "task", r)
    BY <1>3 DEF In
  <2> PICK m \in Tasks : m = Timer(r) /\ Timer(r) # NoTask
    BY <1>1, <2>1, RaceDoes
  <2>2. /\ at[r] = Parking(r) /\ Running(l, "task", m) /\ state[m] = "running" /\ at[m] = 1
        /\ Len(stack[l]) > 1 /\ stack[l][2] = <<"task", r>>
    BY <1>1, <1>3, <2>1
  <2>3. program.body[m] = <<Do("sleep", NoTask)>>
    BY RaceOwns DEF IInv, Inv
  <2>4. Len(program.body[m]) = 1 /\ Now(m).do = "sleep"
    BY <2>2, <2>3 DEF Now, Do
  <2>5. ~Await(l, m) /\ ~Return(l, m) /\ ~FinalSuspend(l, m) /\ ~Skip(l, m) /\ ~Instant(l, m) /\ ~Detach(l, m) /\ ~Choose(l, m)
    BY <2>2, <2>4, ChooseIs DEF Await, Return, FinalSuspend, Skip, Instant, Detach, Does
  <2>6. \A c \in Tasks : ~Start(l, m, c) /\ ~Attach(l, m, c)
    BY <2>4 DEF Start, Attach, Does
  <2>7. Sleep(l, m)
    BY <2>2, <2>5, <2>6, Turn
  <2>8. stack[l] # <<>> /\ Pop(l)
    BY <2>2, <2>7 DEF Sleep, Running
  <2>9. stack'[l] # <<>> /\ Top(l)' = stack[l][2]
    BY <2>2, <2>8, Pops DEF Control, IInv
  <2>10. Running(l, "task", r)'
    BY <2>2, <2>9 DEF Running, Top
  <2> QED
    BY <1>0, <1>3, <2>10 DEF RaceRuns
<1> QED
  BY <1>2, <1>3

\* It waits: for its dummy to end.
LEMMA WaitsAfter ==
    ASSUME IInv, Control, Waits, RacesAre, OrderlyStep, NEW l \in Loops, ThreadStep(l), NEW r \in RaceTasks,
           r \notin gone, RaceLives(r), state[r] = "awaiting", state'[r] = "awaiting", at'[r] = at[r]
    PROVE  RaceWaits(r)'
<1> PICK h \in Loops, d \in Tasks : h = home(r) /\ d = Dummy(r)
  BY RaceDoes, HomeIs DEF IInv
<1>0. /\ program' = program /\ h = home(r)' /\ Parking(r)' = Parking(r) /\ d = Dummy(r)' /\ r \in Tasks
      /\ home(d) = h /\ d # r
  BY SteadyStep, SameRaces, RaceOwns DEF OrderlyStep, Steady, IInv, Inv
<1>1. /\ at[r] = Parking(r) /\ Awaited(r) = d /\ r \notin caught /\ d \in started
      /\ \/ wrapper[r] = "asking" /\ state[d] = "created" /\ parent[d] = None
         \/ wrapper[r] = "asked" /\ state[d] = "created" /\ parent[d] = <<"wrapper", r>>
         \/ /\ wrapper[r] = "waiting" /\ parent[d] = <<"wrapper", r>>
            /\ state[d] = "created" \/ Running(h, "task", d)
         \/ /\ wrapper[r] \in {"delivering", "passing"}
            /\ state[d] = "done" /\ Running(h, "wrapper", r)
  <2>1. at[r] = Parking(r) /\ Awaited(r) = d
    BY RaceAwaits
  <2>2. ~(at[r] <= Attaching(r))
    BY <2>1, RaceDoes
  <2>3. d \in started
    BY <2>2 DEF RacesAre, RaceAt, DummyOf
  <2> QED
    BY <2>1, <2>3 DEF RaceLives, RaceWaits
<1> SUFFICES /\ r \notin caught'
             /\ \/ wrapper'[r] = "asking" /\ state'[d] = "created" /\ parent'[d] = None
                \/ wrapper'[r] = "asked" /\ state'[d] = "created" /\ parent'[d] = <<"wrapper", r>>
                \/ /\ wrapper'[r] = "waiting" /\ parent'[d] = <<"wrapper", r>>
                   /\ state'[d] = "created" \/ Running(h, "task", d)'
                \/ /\ wrapper'[r] \in {"delivering", "passing"}
                   /\ state'[d] = "done" /\ Running(h, "wrapper", r)'
  BY <1>0, <1>1 DEF RaceWaits
<1>2. /\ DummyMove(l, r) /\ d \notin threw
      /\ parent'[d] = parent[d] \/ (Ask(l, r) /\ state[r] = "awaiting")
  BY DummyMoves DEF RacesAre, RaceAt, DummyOf
<1>3. h # l => stack'[h] = stack[h]
  BY StackElsewhere DEF IInv
<1>4. WrapperMove(l, r)
  BY <1>0, Moves DEF Waits, OrderlyStep
<1>5. ~Await(l, r)
  BY DEF Await, Does, In
<1>6. CASE Ask(l, r)
  <2>1. wrapper[r] = "asking" /\ state[d] = "created" /\ parent[d] = None /\ UNCHANGED state
    BY <1>1, <1>6 DEF Ask, InWrapper, bodies
  <2>2. ~Done(d)
    BY <2>1 DEF Done
  <2>3. /\ parent' = [parent EXCEPT ![d] = <<"wrapper", r>>] /\ Wraps(r, "asked") /\ UNCHANGED caught
    BY <1>1, <1>6, <2>1, <2>2 DEF Ask
  <2>4. parent'[d] = <<"wrapper", r>> /\ wrapper'[r] = "asked"
    BY <1>0, <2>3 DEF Wraps, IInv, Inv, Parents, RestOK
  <2> QED
    BY <1>1, <2>1, <2>3, <2>4
<1>7. ASSUME NEW c \in Tasks, AskAndResume(l, r, c)
      PROVE  r \notin caught' /\ wrapper'[r] = "waiting" /\ state'[d] = "created" /\ parent'[d] = <<"wrapper", r>>
  <2>1. wrapper[r] = "asked" /\ c = d /\ state[d] = "created" /\ parent[d] = <<"wrapper", r>>
    BY <1>1, <1>7 DEF AskAndResume, InWrapper
  <2>2. ~Done(c) /\ LeftAlone(c)
    BY <1>1, <2>1 DEF Done, LeftAlone
  <2>3. Wraps(r, "waiting") /\ UNCHANGED <<caught, bodies, parent>>
    BY <1>7, <2>2 DEF AskAndResume
  <2> QED
    BY <1>0, <1>1, <2>1, <2>3 DEF Wraps, bodies, IInv, RestOK
<1>8. CASE Deliver(l, r)
  <2>1. wrapper[r] = "delivering" /\ Wraps(r, "passing") /\ UNCHANGED <<stack, caught, bodies>>
    BY <1>8 DEF Deliver, InWrapper
  <2> QED
    BY <1>0, <1>1, <2>1 DEF Wraps, bodies, IInv, RestOK, Running
<1>9. CASE WrapperEnds(l, r)
  <2>1. wrapper[r] = "passing" /\ Running(l, "wrapper", r)
    BY <1>9 DEF WrapperEnds, InWrapper
  <2>2. WrapperAt(l, r)
    BY <1>0, <1>9, WrapperOnTop DEF WrapperEnds
  <2>3. same_loop(l, r)
    BY <1>0, <1>1, <2>2 DEF WrapperAt, same_loop
  <2>4. Resumed(r, at)
    BY <1>9, <2>3 DEF WrapperEnds
  <2> QED
    BY <1>0, <2>4, ResumedGoes DEF Done
<1>10. ASSUME NEW c \in Tasks, FinalSuspend(l, c), parent[c] = <<"wrapper", r>>
       PROVE  r \notin caught' /\ wrapper'[r] = "delivering" /\ state'[d] = "done" /\ Running(h, "wrapper", r)'
  <2>1. c = d /\ wrapper[r] = "waiting"
    BY <1>0, <1>1, <1>10, ParentWaiting
  <2>2. home(c) = l /\ stack[l] # <<>> /\ h = l
    BY <1>0, <1>10, <2>1, TaskOnTop DEF FinalSuspend, IInv
  <2>3. /\ Switch(l, <<"wrapper", r>>) /\ wrapper' = [wrapper EXCEPT ![r] = "delivering"] /\ Takes(r, c)
    BY <1>10 DEF FinalSuspend, Continue
  <2>4. r \notin caught' /\ wrapper'[r] = "delivering"
    BY <1>0, <1>1, <1>2, <2>1, <2>3 DEF Takes, IInv, RestOK
  <2>5. state'[d] = "done"
    BY <1>10, <2>1 DEF FinalSuspend
  <2>6. <<"wrapper", r>> \in Coroutines /\ ~OnStack(<<"wrapper", r>>)
    BY <1>0, <2>1, NotOnStack DEF Coroutines
  <2>7. Top(l)' = <<"wrapper", r>> /\ stack'[l] # <<>>
    BY <2>2, <2>3, <2>6, Switches DEF Control, IInv
  <2> QED
    BY <2>2, <2>4, <2>5, <2>7 DEF Running, Top
<1>11. CASE /\ wrapper'[r] = wrapper[r] /\ (r \in caught' => r \in caught)
            /\ ~Ask(l, r) /\ ~Deliver(l, r) /\ ~WrapperEnds(l, r) /\ \A c \in Tasks : ~AskAndResume(l, r, c)
            /\ \A c \in Tasks : ~(FinalSuspend(l, c) /\ parent[c] = <<"wrapper", r>>)
  <2>1. r \notin caught' /\ parent'[d] = parent[d]
    BY <1>1, <1>2, <1>11
  <2>2. CASE wrapper[r] \in {"asking", "asked"}
    <3>1. state[d] = "created"
      BY <1>1, <2>2
    <3>2. state'[d] = "created"
      <4>1. ASSUME NEW c \in Tasks, FinalSuspend(l, c), parent[c] = <<"task", d>> PROVE FALSE
        <5>1. PICK q \in RaceTasks : d = Dummy(q) /\ wrapper[q] = "waiting"
          BY <4>1, RaceWakes
        <5>2. q \in Tasks /\ q = r
          BY <5>1, RaceOwns DEF IInv, Inv
        <5> QED
          BY <2>2, <5>1, <5>2
      <4> QED
        BY <1>2, <3>1, <4>1 DEF DummyMove
    <3> QED
      BY <1>1, <1>11, <2>1, <2>2, <3>2
  <2>3. CASE wrapper[r] = "waiting" /\ state[d] = "created"
    <3>1. CASE state'[d] = "created"
      BY <1>1, <1>11, <2>1, <2>3, <3>1
    <3>2. CASE state'[d] # "created"
      <4>1. h = l /\ \E c \in Tasks : FinalSuspend(l, c) /\ parent[c] = <<"task", d>>
        BY <1>2, <2>3, <3>2 DEF DummyMove
      <4>2. PICK c \in Tasks : FinalSuspend(l, c) /\ parent[c] = <<"task", d>>
        BY <4>1
      <4>3. Switch(l, <<"task", d>>) /\ stack[l] # <<>>
        BY <4>2 DEF FinalSuspend, Continue, Running
      <4>4. <<"task", d>> \in Coroutines /\ ~OnStack(<<"task", d>>)
        BY <2>3, NotOnStack DEF Coroutines
      <4>5. Top(l)' = <<"task", d>> /\ stack'[l] # <<>>
        BY <4>3, <4>4, Switches DEF Control, IInv
      <4>6. Running(h, "task", d)'
        BY <4>1, <4>5 DEF Running, Top
      <4> QED
        BY <1>1, <1>11, <2>1, <2>3, <4>6
    <3> QED
      BY <3>1, <3>2
  <2>4. CASE wrapper[r] = "waiting" /\ Running(h, "task", d)
    <3>1. parent[d] = <<"wrapper", r>>
      BY <1>1, <2>4
    <3>2. CASE h # l
      BY <1>3, <1>11, <2>1, <2>4, <3>1, <3>2 DEF Running
    <3>3. CASE h = l
      <4>1. ~FinalSuspend(l, d)
        BY <1>11, <3>1
      <4>2. state[d] \in {"running", "final"}
        BY <2>4, OnTop DEF Control, Controlled, TaskRuns, IInv
      <4>3. Return(l, d)
        <5>1. state[d] = "running"
          <6>1. CASE state[d] = "final"
            <7>1. \/ Sleep(l, d) \/ Await(l, d) \/ Return(l, d)
                  \/ Skip(l, d) \/ Instant(l, d) \/ Detach(l, d) \/ Choose(l, d)
                  \/ \E c \in Tasks : Start(l, d, c) \/ Attach(l, d, c)
              BY <2>4, <3>3, <4>1, Turn
            <7>2. In(l, d)
              BY <7>1, ChooseIs DEF Sleep, Await, Return, Skip, Instant, Detach, Start, Attach, Does
            <7> QED
              BY <6>1, <7>2 DEF In
          <6> QED
            BY <4>2, <6>1
        <5>2. In(l, d)
          BY <2>4, <3>3, <5>1 DEF In
        <5>3. state'[d] \in {"running", "asleep", "awaiting", "final"}
          BY <5>2, RunMoves DEF OrderlyStep
        <5> QED
          BY <5>2, DummyTurn
      <4>4. UNCHANGED stack
        BY <4>3 DEF Return, control
      <4> QED
        BY <1>11, <2>1, <2>4, <3>1, <4>4 DEF Running
    <3> QED
      BY <3>2, <3>3
  <2>5. CASE wrapper[r] \in {"delivering", "passing"} /\ state[d] = "done" /\ Running(h, "wrapper", r)
    <3>1. state'[d] = "done"
      BY <2>5, BodyAfter
    <3>2. h # l
      BY <1>0, <1>11, <2>5, WrapperTurn
    <3> QED
      BY <1>3, <1>11, <2>1, <2>5, <3>1, <3>2 DEF Running
  <2> QED
    BY <1>1, <2>2, <2>3, <2>4, <2>5
<1> QED
  BY <1>4, <1>5, <1>6, <1>7, <1>8, <1>9, <1>10, <1>11 DEF WrapperMove

LEMMA RaceLivesStep ==
    ASSUME IInv, Control, Control', Waits, RacesAre, OrderlyStep, NEW l \in Loops, ThreadStep(l), NEW r \in RaceTasks,
           r \notin gone, ~Done(r)'
    PROVE  RaceLives(r)'
<1> PICK h \in Loops, d \in Tasks : h = home(r) /\ d = Dummy(r)
  BY RaceDoes, HomeIs DEF IInv
<1>0. /\ program' = program /\ h = home(r)' /\ d = Dummy(r)' /\ Parking(r)' = Parking(r) /\ Attaching(r)' = Attaching(r)
      /\ Timer(r)' = Timer(r) /\ r \in Tasks
  BY SteadyStep, SameRaces, RaceDoes DEF OrderlyStep, Steady
<1>1. RaceLives(r)
  <2>1. ~Done(r)
    BY <1>0, BodyAfter
  <2> QED
    BY <2>1 DEF RacesAre, RaceAt
<1>2. /\ Attaching(r) \in Nat /\ Parking(r) \in Nat /\ Attaching(r) < Parking(r) /\ at[r] \in Nat /\ at'[r] \in Nat
      /\ Ending(r) = Parking(r) + 2 /\ 1 <= Attaching(r)
  BY RaceDoes, RaceGoes
<1>3. at'[r] <= Attaching(r) => state'[d] = "created" /\ parent'[d] = None
  BY <1>0, DummyOfStep DEF DummyOf
<1>4. state[r] = "running" /\ state[d] \in {"created", "done"} => state'[d] = state[d] /\ parent'[d] = parent[d]
  BY DummyMoves DEF DummyMove
<1>5. state[r] = "running" =>
         IF at[r] <= Parking(r) THEN state[d] = "created" /\ parent[d] = None ELSE state[d] = "done"
  BY <1>1 DEF RaceLives, DummyIs
<1>d. ASSUME state'[r] # "awaiting", state'[r] = "running" /\ at'[r] > Attaching(r) => Running(h, "task", r)',
             state'[r] = "running" => IF at'[r] <= Parking(r) THEN state'[d] = "created" /\ parent'[d] = None
                                                              ELSE state'[d] = "done"
      PROVE  RaceLives(r)'
  BY <1>0, <1>d DEF RaceLives, RaceRuns, RaceWaits, DummyIs
<1>6. CASE state'[r] = state[r] /\ at'[r] = at[r] /\ ~In(l, r)
  <2>1. CASE state[r] = "running"
    <3>1. RaceRuns(r)'
      BY <1>1, <1>6, <2>1, RunsAfter
    <3>2. RaceWaits(r)'
      BY <1>6, <2>1 DEF RaceWaits
    <3>3. DummyIs(r)'
      BY <1>0, <1>4, <1>5, <1>6, <2>1 DEF DummyIs
    <3> QED
      BY <3>1, <3>2, <3>3 DEF RaceLives
  <2>2. CASE state[r] = "awaiting"
    <3>1. RaceWaits(r)'
      BY <1>1, <1>6, <2>2, WaitsAfter
    <3> QED
      BY <1>6, <2>2, <3>1 DEF RaceLives, RaceRuns, DummyIs
  <2>3. CASE state[r] \notin {"running", "awaiting"}
    BY <1>6, <2>3 DEF RaceLives, RaceRuns, RaceWaits, DummyIs
  <2> QED
    BY <2>1, <2>2, <2>3
<1>7. CASE In(l, r)
  <2>0. /\ state[r] = "running" /\ h = l /\ Running(l, "task", r) /\ stack[l] # <<>> /\ Top(l) = <<"task", r>>
        /\ at \in [Tasks -> Nat \ {0}] /\ state \in [Tasks -> States] /\ at[r] <= Ending(r)
    BY <1>0, <1>7, TaskOnTop DEF In, IInv, BodiesOK, RacesAre, RaceAt
  <2>s. UNCHANGED stack => Running(h, "task", r)'
    BY <2>0 DEF Running
  <2>1. CASE at[r] < Attaching(r) /\ at'[r] <= Attaching(r) /\ state'[r] \in {"running", "final"}
    BY <1>2, <1>3, <1>d, <2>1
  <2>2. CASE at[r] = Attaching(r) /\ Attach(l, r, d)
    <3>1. UNCHANGED <<stack, state>> /\ at'[r] = at[r] + 1
      BY <2>2, RaceGoes DEF Attach, Other, control
    <3>2. at'[r] <= Parking(r) /\ at[r] <= Parking(r)
      BY <1>2, <2>2, <3>1
    <3> QED
      BY <1>4, <1>5, <1>d, <2>0, <2>s, <3>1, <3>2
  <2>3. CASE at[r] = Parking(r) - 1 /\ Timer(r) # NoTask /\ Start(l, r, Timer(r))
    <3> PICK m \in Tasks : m = Timer(r)
      BY <2>3, RaceDoes
    <3>1. start(l, m, Forth(r, 1)) /\ Fresh(m) /\ home(m) = l /\ m # r
      BY <1>0, <2>0, <2>3, RaceOwns DEF Start, OrderlyStep, StartsOnce, IInv, Inv
    <3>2. Push(l, <<"task", m>>) /\ Resumed(m, Forth(r, 1)) /\ state[m] = "created" /\ at[m] = 1
      BY <3>1 DEF start, same_loop, Fresh, Waits, Unbegun
    <3>3. Forth(r, 1) \in [Tasks -> Nat] /\ Forth(r, 1)[r] = at[r] + 1 /\ Forth(r, 1)[m] = 1
      BY <1>0, <2>0, <3>1, <3>2 DEF Forth
    <3>4. state'[m] = "running" /\ at'[m] = 1 /\ state'[r] = "running" /\ at'[r] = Parking(r)
      <4>1. state'[m] = "running" /\ at'[m] = Forth(r, 1)[m]
        BY <3>2, <3>3, ResumedMoves
      <4>2. state'[r] = state[r] /\ at'[r] = Forth(r, 1)[r]
        BY <1>0, <3>1, <3>2, <3>3, ResumedMoves
      <4>3. at'[r] = at[r] + 1 /\ at[r] = Parking(r) - 1 /\ Parking(r) \in Nat
        BY <1>2, <2>3, <3>3, <4>2
      <4>4. at'[r] = Parking(r)
        BY <4>3
      <4> QED
        BY <2>0, <3>3, <4>1, <4>2, <4>4
    <3>5. <<"task", m>> \in Coroutines /\ ~OnStack(<<"task", m>>)
      BY <3>2, NotOnStack DEF Coroutines
    <3>6. stack'[l] # <<>> /\ Top(l)' = <<"task", m>> /\ Len(stack'[l]) > 1 /\ stack'[l][2] = <<"task", r>>
      BY <2>0, <3>2, <3>5, Pushes DEF Control, IInv
    <3>7. RaceRuns(r)'
      BY <1>0, <2>0, <2>3, <3>4, <3>6 DEF RaceRuns, Running, Top
    <3>8. DummyIs(r)'
      BY <1>0, <1>2, <1>4, <1>5, <2>0, <2>3, <3>4 DEF DummyIs
    <3> QED
      BY <3>4, <3>7, <3>8 DEF RaceLives, RaceWaits
  <2>4. CASE at[r] = Parking(r) /\ Await(l, r)
    <3>1. state'[r] = "awaiting" /\ wrapper'[r] = "asking" /\ r \notin caught' /\ at'[r] = at[r]
      BY <1>0, <2>0, <2>4 DEF Await, IInv, RestOK
    <3>2. state[d] = "created" /\ parent[d] = None
      BY <1>2, <1>5, <2>0, <2>4
    <3>3. RaceWaits(r)'
      BY <1>0, <1>4, <2>0, <2>4, <3>1, <3>2 DEF RaceWaits
    <3> QED
      BY <3>1, <3>3 DEF RaceLives, RaceRuns, DummyIs
  <2>5. CASE at[r] = Parking(r) + 1 /\ Detach(l, r)
    <3>1. UNCHANGED <<stack, state>> /\ at'[r] = at[r] + 1
      BY <1>0, <2>0, <2>5 DEF Detach, Other, control, Forth
    <3>2. ~(at'[r] <= Parking(r)) /\ ~(at[r] <= Parking(r))
      BY <1>2, <2>5, <3>1
    <3> QED
      BY <1>4, <1>5, <1>d, <2>0, <2>s, <3>1, <3>2
  <2>6. ASSUME NEW exception, Leave(r, exception) PROVE FALSE
    BY <1>0, <2>0, <2>6 DEF Leave, Done
  <2> QED
    BY <1>7, <2>1, <2>2, <2>3, <2>4, <2>5, <2>6, RaceTurn
<1>8. CASE state'[r] = "running" /\ at'[r] = at[r] /\ at[r] = 1
  <2>1. at'[r] <= Attaching(r) /\ at'[r] <= Parking(r)
    BY <1>2, <1>8
  <2> QED
    BY <1>2, <1>3, <1>8, <1>d, <2>1
<1>9. CASE state[r] = "awaiting" /\ WrapperEnds(l, r) /\ home(r) = l
  <2>1. /\ wrapper[r] = "passing" /\ wrapper'[r] = "done" /\ Switch(l, <<"task", r>>) /\ Resumed(r, at)
        /\ Running(l, "wrapper", r) /\ stack[l] # <<>>
    BY <1>0, <1>9 DEF WrapperEnds, InWrapper, same_loop, Wraps, AtItsEnd, IInv, RestOK, Running
  <2>2. at[r] = Parking(r) /\ r \notin caught /\ state[d] = "done"
    BY <1>1, <1>9, <2>1 DEF RaceLives, RaceWaits
  <2>3. state'[r] = "running" /\ at'[r] = Parking(r) + 1
    BY <1>0, <1>9, <2>1, <2>2 DEF Resumed, Done, IInv, BodiesOK
  <2>4. <<"task", r>> \in Coroutines /\ ~OnStack(<<"task", r>>)
    BY <1>0, <1>9, NotOnStack DEF Coroutines
  <2>5. Top(l)' = <<"task", r>> /\ stack'[l] # <<>>
    BY <2>1, <2>4, Switches DEF Control, IInv
  <2>6. state'[d] = "done"
    BY <2>2, BodyAfter
  <2>7. ~(at'[r] <= Parking(r))
    BY <1>2, <2>3
  <2>8. Running(h, "task", r)'
    BY <1>9, <2>5 DEF Running, Top
  <2> QED
    BY <1>d, <2>3, <2>6, <2>7, <2>8
<1>10. CASE state'[r] = "done"
  BY <1>10 DEF Done
<1> QED
  BY <1>6, <1>7, <1>8, <1>9, <1>10, RaceMoves DEF RaceMove

LEMMA RaceAtStep ==
    ASSUME IInv, Control, Control', Waits, RacesAre, OrderlyStep, NEW l \in Loops, ThreadStep(l), NEW r \in RaceTasks
    PROVE  RaceAt(r)'
<1>0. /\ program' = program /\ gone \subseteq gone' /\ Ending(r)' = Ending(r) /\ Dummy(r)' = Dummy(r) /\ Timer(r)' = Timer(r)
      /\ r \in Tasks
  BY SteadyStep, SameRaces, RaceDoes DEF OrderlyStep, Steady
<1>1. DummyOf(r)' /\ at'[r] <= Ending(r) /\ state'[r] # "asleep"
  BY DummyOfStep, RaceGoes
<1>2. ASSUME r \notin gone', ~Done(r)' PROVE RaceLives(r)' /\ {Dummy(r), Timer(r)} \cap gone' = {}
  <2>1. r \notin gone /\ ~Done(r)
    BY <1>0, <1>2, BodyAfter
  <2>2. {Dummy(r), Timer(r)} \cap gone = {}
    BY <2>1 DEF RacesAre, RaceAt
  <2> QED
    BY <1>2, <2>1, <2>2, RaceLivesStep, DestroyedWithRace
<1> QED
  BY <1>0, <1>1, <1>2 DEF RaceAt

\* A race whose dummy is to be resumed is in use.
LEMMA RaceStays ==
    ASSUME IInv, Control, Control', Waits, RacesAre, OrderlyStep, NEW l \in Loops, ThreadStep(l), NEW r \in RaceTasks,
           r \notin gone, state'[r] \in {"running", "awaiting"}, NEW c \in Tasks \ gone', state'[c] # "done",
           parent'[c] = <<"task", Dummy(r)>>
    PROVE  r \notin gone'
<1> SUFFICES ASSUME r \in gone' PROVE FALSE
  OBVIOUS
<1> PICK h \in Loops, d \in Tasks : h = home(r) /\ d = Dummy(r)
  BY RaceDoes, HomeIs DEF IInv
<1>0. /\ program' = program /\ h = home(r)' /\ d = Dummy(r)' /\ r \in Tasks /\ DestroysAtRest
  BY SteadyStep, SameRaces, RaceDoes DEF OrderlyStep, Steady
<1>1. ~InUse(r)'
  BY <1>0 DEF DestroysAtRest
<1>2. <<"task", r>> \notin Frames(h)' /\ (state'[r] = "awaiting" => <<"wrapper", r>> \notin Frames(h)')
  BY <1>1 DEF InUse, OnStack, Asking
<1>3. state'[r] = "awaiting"
  BY <1>0, <1>2 DEF Control, Controlled, TaskRuns
<1>4. RaceWaits(r)'
  BY <1>3, RaceLivesStep DEF Done, RaceLives
<1>5. ~Running(h, "wrapper", r)'
  <2>1. Inv'
    BY InvStep DEF Next, IInv
  <2>2. stack'[h] \in Seq(Own(h)')
    BY <2>1 DEF Inv, Stacks
  <2>3. stack'[h] # <<>> => Head(stack'[h]) \in Frames(h)'
    BY <2>2 DEF Frames, ToSet
  <2> QED
    BY <1>2, <1>3, <2>3 DEF Running
<1>6. wrapper'[r] \notin {"asking", "asked"}
  BY <1>0, <1>2, <1>3 DEF Control, Controlled, WrapperRuns
<1>7. parent'[d] = <<"wrapper", r>> /\ (state'[d] = "created" \/ Running(h, "task", d)')
  BY <1>0, <1>3, <1>4, <1>5, <1>6 DEF RaceWaits
<1>8. state'[d] # "done"
  <2>1. Running(h, "task", d)' => <<"task", d>> \in Frames(h)'
    <3>1. Inv'
      BY InvStep DEF Next, IInv
    <3>2. stack'[h] \in Seq(Own(h)')
      BY <3>1 DEF Inv, Stacks
    <3> QED
      BY <3>2 DEF Running, Frames, ToSet
  <2>2. <<"task", d>> \in Frames(h)' => state'[d] \in {"running", "final"}
    BY DEF Control, Controlled, TaskRuns
  <2> QED
    BY <1>7, <2>1, <2>2
<1>9. d \notin gone
  BY <1>0, BodyAfter DEF RacesAre, RaceAt, Done
<1>10. d \notin gone'
  <2>1. InUse(d)'
    <3>1. parent'[c] \in {"task", "wrapper"} \X {d}
      OBVIOUS
    <3> QED
      BY <3>1 DEF InUse
  <2> QED
    BY <1>0, <1>9, <2>1 DEF DestroysAtRest
<1>11. parent'[d] \in {"task", "wrapper"} \X {r}
  BY <1>7
<1> QED
  BY <1>1, <1>8, <1>10, <1>11 DEF InUse

LEMMA ParentRacesStep ==
    ASSUME IInv, Control, Control', Waits, RacesAre, OrderlyStep, NEW l \in Loops, ThreadStep(l), NEW c \in Tasks
    PROVE  ParentRaces(c)'
<1>0. program' = program /\ gone \subseteq gone'
  BY SteadyStep DEF OrderlyStep, Steady
<1> SUFFICES ASSUME c \notin gone', state'[c] # "done", NEW d \in Tasks, parent'[c] = <<"task", d>>
             PROVE  \E r \in RaceTasks : d = Dummy(r) /\ Racing(r, c)'
  BY <1>0, SameRaces DEF ParentRaces
<1>1. CASE parent'[c] = parent[c]
  <2>1. c \notin gone /\ state[c] # "done"
    BY <1>0, BodyAfter
  <2>2. PICK r \in RaceTasks : d = Dummy(r) /\ Racing(r, c)
    BY <1>1, <2>1 DEF RacesAre, ParentRaces
  <2>3. /\ c \in ToSet(List(r)) \cup {Timer(r)} /\ r \notin gone /\ at[r] > Attaching(r)
        /\ state[r] \in {"running", "awaiting"} /\ (at[r] = Ending(r) => c = Timer(r))
    BY <2>2 DEF Racing
  <2>4. /\ r \in Tasks /\ at[r] \in Nat /\ at'[r] \in Nat /\ at[r] <= at'[r] /\ Attaching(r) \in Nat /\ state'[r] # "asleep"
        /\ Ending(r) = Parking(r) + 2 /\ Parking(r) \in Nat
    BY RaceDoes, RaceGoes
  <2>5. state'[r] \in {"running", "awaiting"}
    <3>1. state'[r] \in States /\ state'[r] # "created" /\ state'[r] # "done"
      <4>1. state'[r] \in States
        BY <2>4, TypesStep DEF Next, BodiesOK
      <4>2. state'[r] # "created"
        BY <2>3, <2>4, BodyAfter
      <4>3. state'[r] # "done"
        BY <2>3, <2>4, BodyAfter DEF FinalSuspend
      <4> QED
        BY <4>1, <4>2, <4>3
    <3>2. state'[r] # "final"
      <4> SUFFICES ASSUME state'[r] = "final" PROVE FALSE
        OBVIOUS
      <4>1. In(l, r) \/ (state[r] = "awaiting" /\ WrapperEnds(l, r) /\ home(r) = l)
        BY <2>3, RaceMoves DEF RaceMove
      <4>2. CASE In(l, r)
        <5>1. at[r] = Ending(r) /\ \E exception : Leave(r, exception)
          <6>1. ~(at[r] < Attaching(r)) /\ at[r] # Attaching(r)
            BY <2>3, <2>4
          <6>2. state[r] = "running"
            BY <4>2 DEF In
          <6>3. ~Detach(l, r)
            BY <6>2 DEF Detach
          <6>4. ~Await(l, r)
            BY <2>4 DEF Await, IInv, BodiesOK
          <6>5. ASSUME Timer(r) # NoTask, Start(l, r, Timer(r)) PROVE FALSE
            <7>1. Timer(r) \in Tasks
              BY <6>5, RaceDoes
            <7>2. start(l, Timer(r), Forth(r, 1)) /\ Fresh(Timer(r))
              BY <2>4, <6>5, <7>1 DEF Start, OrderlyStep, StartsOnce
            <7>3. Timer(r) # r
              BY <6>2, <7>2 DEF Fresh
            <7>4. Forth(r, 1) \in [Tasks -> Nat] /\ Forth(r, 1)[Timer(r)] = at[Timer(r)]
              BY <2>4, <7>1, <7>3 DEF Forth, IInv, BodiesOK
            <7>5. state'[r] = state[r]
              BY <2>4, <7>1, <7>2, <7>3, <7>4, StartMoves
            <7> QED
              BY <6>2, <7>5
          <6> QED
            BY <4>2, <6>1, <6>3, <6>4, <6>5, RaceTurn
        <5>2. c = Timer(r) /\ c \in program.locals[r]
          BY <2>3, <5>1, RaceOwns, TaskAssumption DEF IInv, Inv
        <5> QED
          BY <5>1, <5>2 DEF Leave
      <4>3. CASE state[r] = "awaiting" /\ WrapperEnds(l, r) /\ home(r) = l
        <5>1. RaceWaits(r)
          BY <2>3, <4>3 DEF RacesAre, RaceAt, RaceLives, Done
        <5>2. r \notin caught
          BY <4>3, <5>1 DEF RaceWaits
        <5>3. wrapper'[r] = "done" /\ Resumed(r, at)
          BY <2>4, <4>3 DEF WrapperEnds, same_loop, Wraps, AtItsEnd, IInv, RestOK
        <5>4. state'[r] = "running"
          BY <2>4, <4>3, <5>2, <5>3 DEF Resumed, Done, IInv, BodiesOK
        <5> QED
          BY <5>4
      <4> QED
        BY <4>1, <4>2, <4>3
    <3> QED
      BY <2>4, <3>1, <3>2 DEF States
  <2>6. at'[r] > Attaching(r)
    BY <2>3, <2>4
  <2>7. at'[r] = Ending(r) => c = Timer(r)
    <3> SUFFICES ASSUME at'[r] = Ending(r), at[r] # Ending(r) PROVE c = Timer(r)
      BY <2>3
    <3>1. Detach(l, r)
      BY RaceGoes
    <3>2. c \notin ToSet(List(r))
      BY <3>1 DEF Detach, None
    <3> QED
      BY <2>3, <3>2
  <2>8. r \notin gone'
    BY <2>2, <2>3, <2>5, RaceStays
  <2> QED
    BY <1>0, <2>2, <2>3, <2>5, <2>6, <2>7, <2>8, SameRaces DEF Racing
<1>2. ASSUME NEW t \in Tasks, Attach(l, t, Dummy(t)), c \in ToSet(List(t)) \cup {Timer(t)}, parent'[c] = <<"task", Dummy(t)>>
      PROVE  \E r \in RaceTasks : d = Dummy(r) /\ Racing(r, c)'
  <2>1. d = Dummy(t)
    BY <1>2
  <2>2. t \in RaceTasks
    BY <1>2, <2>1, Attaches
  <2>3. /\ at'[t] = Attaching(t) + 1 /\ state'[t] = "running" /\ t \notin gone'
        /\ Attaching(t) \in Nat /\ Attaching(t) < Parking(t) /\ Parking(t) \in Nat /\ Ending(t) = Parking(t) + 2
    BY <1>2, <2>2, RaceGoes, RaceDoes
  <2>4. at'[t] > Attaching(t) /\ at'[t] # Ending(t)
    BY <2>3
  <2> QED
    BY <1>0, <1>2, <2>1, <2>2, <2>3, <2>4, SameRaces DEF Racing
<1> QED
  BY <1>1, <1>2, MovesParent DEF ParentMove, None

-----------------------------------------------------------------------------
(* The theorems.                                                           *)

LEMMA SoundInit == Init => Sound
<1> SUFFICES ASSUME Init PROVE Sound
  OBVIOUS
<1>1. IInv
  BY InvInit, TypesInit DEF IInv
<1>2. Waits
  <2>1. NotBegun
    BY DEF Init, NotBegun
  <2>2. ASSUME NEW t \in Tasks PROVE ParentWaits(t) /\ Asks(t) /\ Unbegun(t)
    BY DEF Init, ParentWaits, Asks, Unbegun, None
  <2>3. ASSUME NEW t \in Tasks PROVE Launched(t)
    <3>1. program.body[t] \in Seq(Instruction) /\ at[t] = 1
      BY <1>1, TaskAssumption DEF Init, IInv, Inv, IsProgram
    <3> QED
      BY <3>1 DEF Launched
  <2> QED
    BY <2>1, <2>2, <2>3 DEF Waits
<1>3. RacesAre
  <2>1. ASSUME NEW r \in RaceTasks PROVE RaceAt(r)
    <3>1. /\ r \in Tasks /\ Dummy(r) \in Tasks /\ at[r] = 1 /\ 1 <= Attaching(r) /\ Attaching(r) <= Ending(r)
          /\ Attaching(r) \in Nat /\ Ending(r) \in Nat
      BY <1>1, RaceDoes DEF Init
    <3>2. DummyOf(r)
      BY <3>1 DEF Init, DummyOf
    <3>3. RaceLives(r) /\ gone = {} /\ state[r] # "asleep"
      BY <3>1 DEF Init, RaceLives, RaceRuns, RaceWaits, DummyIs
    <3> QED
      BY <3>1, <3>2, <3>3 DEF RaceAt
  <2>2. \A c \in Tasks : ParentRaces(c)
    BY DEF Init, ParentRaces, None
  <2> QED
    BY <2>1, <2>2 DEF RacesAre
<1> QED
  BY <1>1, <1>2, <1>3, ControlInit DEF Sound, EarlyOnly, Init

LEMMA SoundStep == Sound /\ [Next]_vars /\ [OrderlyStep]_vars => Sound'
<1> SUFFICES ASSUME Sound, [Next]_vars, [OrderlyStep]_vars PROVE Sound'
  OBVIOUS
<1>1. IInv'
  BY InvStep, TypesStep DEF Sound, IInv
<1>2. CASE UNCHANGED vars
  <2>1. Control'
    <3>1. program' = program /\ UNCHANGED <<stack, wrapper, state, at, deferred, started, gone>>
      BY <1>2 DEF vars, control, bodies, races
    <3>2. Distinct'
      BY <3>1 DEF Sound, Control, Distinct
    <3>3. ASSUME NEW t \in Tasks PROVE Controlled(t)'
      <4>1. Controlled(t)
        BY DEF Sound, Control
      <4>2. TaskRuns(t)'
        BY <3>1, <4>1 DEF Controlled, TaskRuns, Frames, Top, home
      <4>3. WrapperRuns(t)'
        BY <3>1, <4>1 DEF Controlled, WrapperRuns, WrapperAt, Frames, Top, home, Awaited, Now
      <4>4. DeferredOnce(t)'
        BY <3>1, <4>1 DEF Controlled, DeferredOnce, Suspended, Frames, home, Awaited, Now
      <4> QED
        BY <4>2, <4>3, <4>4 DEF Controlled
    <3> QED
      BY <3>2, <3>3 DEF Control
  <2>2. Waits'
    <3>1. /\ program' = program
          /\ UNCHANGED <<stack, wrapper, caught, state, at, parent, deferred, started, gone, begun>>
      BY <1>2 DEF vars, control, bodies, races
    <3>2. NotBegun'
      BY <3>1 DEF Sound, Waits, NotBegun, Fresh, home
    <3>3. ASSUME NEW t \in Tasks PROVE ParentWaits(t)' /\ Asks(t)' /\ Unbegun(t)' /\ Launched(t)'
      <4>1. ParentWaits(t) /\ Asks(t) /\ Unbegun(t) /\ Launched(t)
        BY DEF Sound, Waits
      <4>2. ParentWaits(t)'
        BY <3>1, <4>1 DEF ParentWaits, Awaited
      <4>4. Awaited(t)' = Awaited(t) /\ home(t)' = home(t) /\ home(Awaited(t))' = home(Awaited(t))
            /\ Done(Awaited(t))' = Done(Awaited(t)) /\ Fresh(Awaited(t))' = Fresh(Awaited(t))
        BY <3>1 DEF Awaited, home, Done, Fresh
      <4>5. Asks(t)'
        BY <3>1, <4>1, <4>4 DEF Asks
      <4>3. Unbegun(t)' /\ Launched(t)'
        BY <3>1, <4>1 DEF Unbegun, Launched, Fresh, Done, home, Awaited
      <4> QED
        BY <4>2, <4>3, <4>5
    <3> QED
      BY <3>2, <3>3 DEF Waits
  <2>3. RacesAre'
    <3>1. program' = program /\ UNCHANGED <<stack, wrapper, caught, state, at, parent, deferred, started, threw, gone>>
      BY <1>2 DEF vars, control, bodies, races
    <3>2. RaceTasks' = RaceTasks
      BY <3>1, SameRaces
    <3>3. ASSUME NEW r \in RaceTasks PROVE RaceAt(r)'
      <4>1. /\ Dummy(r)' = Dummy(r) /\ Timer(r)' = Timer(r) /\ Ending(r)' = Ending(r) /\ Parking(r)' = Parking(r)
            /\ Attaching(r)' = Attaching(r) /\ r \in Tasks /\ home(r)' = home(r) /\ RaceAt(r)
        BY <3>1, SameRaces, RaceDoes DEF Sound, RacesAre
      <4> QED
        BY <3>1, <4>1 DEF RaceAt, DummyOf, RaceLives, RaceRuns, RaceWaits, DummyIs, Done, Running
    <3>4. ASSUME NEW c \in Tasks PROVE ParentRaces(c)'
      <4>1. ParentRaces(c)
        BY DEF Sound, RacesAre
      <4>2. \A r \in RaceTasks : Racing(r, c) => Racing(r, c)'
        BY <3>1, SameRaces DEF Racing
      <4> QED
        BY <3>1, <3>2, <4>1, <4>2, SameRaces DEF ParentRaces
    <3> QED
      BY <3>2, <3>3, <3>4 DEF RacesAre
  <2>4. EarlyOnly'
    BY <1>2 DEF Sound, EarlyOnly, home, vars, bodies
  <2> QED
    BY <1>1, <2>1, <2>2, <2>3, <2>4 DEF Sound
<1>3. CASE Next /\ OrderlyStep
  <2>1. PICK l \in Loops : ThreadStep(l)
    BY <1>3 DEF Next
  <2>2. Control'
    BY <1>3, <2>1, ControlStep DEF Sound
  <2>3. Waits'
    BY <1>3, <2>1, <2>2, WaitsStep DEF Sound
  <2>4. RacesAre'
    <3>1. program' = program
      BY <1>3, <2>1, SteadyStep DEF OrderlyStep, Steady
    <3>2. \A r \in RaceTasks : RaceAt(r)'
      BY <1>3, <2>1, <2>2, RaceAtStep DEF Sound
    <3>3. \A c \in Tasks : ParentRaces(c)'
      BY <1>3, <2>1, <2>2, ParentRacesStep DEF Sound
    <3> QED
      BY <3>1, <3>2, <3>3, SameRaces DEF RacesAre
  <2>5. EarlyOnly'
    BY <1>3, <2>1, EarlyStep DEF Sound
  <2> QED
    BY <1>1, <2>2, <2>3, <2>4, <2>5 DEF Sound
<1> QED
  BY <1>2, <1>3

\* In a program that starts a task once, awaits one that is there and destroys no frame in use, every
\* stack and every deferred resumption is as it should be.
THEOREM SoundHolds == Spec /\ Orderly => []Sound
<1>1. Init => Sound
  BY SoundInit
<1>2. Sound /\ [Next]_vars /\ [OrderlyStep]_vars => Sound'
  BY SoundStep
<1> QED
  BY <1>1, <1>2, PTL DEF Spec, Orderly

\* Such a program resumes nothing twice, nothing that has ended, and nothing whose frame has gone,
\* whatever its loops, its tasks and its races, and however their threads take turns.
THEOREM ResumedOnceHolds == Spec /\ Orderly => []ResumedOnce
<1>1. Sound => ResumedOnce
  <2> SUFFICES ASSUME Sound PROVE ResumedOnce
    OBVIOUS
  <2>1. Distinct /\ \A t \in Tasks : TaskRuns(t) /\ DeferredOnce(t)
    BY DEF Sound, Control, Controlled
  <2>2. \A t \in Tasks : deferred[t] \in Nat
    BY DEF Sound, IInv, RestOK
  <2>3. \A l \in Loops, t \in Tasks : <<"task", t>> \in Frames(l) => state[t] \in {"running", "final"} /\ t \notin gone
    BY <2>1 DEF TaskRuns
  <2>4. ASSUME NEW t \in Tasks \ gone, deferred[t] > 0 PROVE deferred[t] = 1 /\ Suspended(t)
    BY <2>1, <2>2, <2>4 DEF DeferredOnce
  <2> QED
    BY <2>1, <2>3, <2>4 DEF ResumedOnce, Distinct, Suspended
<1> QED
  BY <1>1, SoundHolds, PTL

\* In such a program a task that awaits tasks of its own loop only always finds its wrapper ended.
THEOREM ResultIsReadyOnOneLoopHolds == Spec /\ Orderly => []ResultIsReadyOnOneLoop
<1>1. Sound => ResultIsReadyOnOneLoop
  BY DEF Sound, EarlyOnly, ResultIsReadyOnOneLoop
<1> QED
  BY <1>1, SoundHolds, PTL

-----------------------------------------------------------------------------
(* What races return.                                                      *)

\* t had the result of c, at a co_await that is over, or as good as over.
Took(t, c) == \E i \in DOMAIN program.body[t] :
                 /\ program.body[t][i] = Do("await", c)
                 /\ \/ i < at[t]
                    \/ i = at[t] /\ state[t] = "awaiting" /\ wrapper[t] \in {"delivering", "passing", "done"}

\* What is moved out went to a task that awaited it, or to a race.
Moved(c) == c \in taken => /\ c \in program.moves
                           /\ \/ \E r \in RaceTasks : c \in ToSet(List(r))
                              \/ \E t \in Tasks : Took(t, c)

\* A race that goes on has moved out only what its predicate rejects, and nothing if it does not look.
Keeps(r) == ~Done(r) => \A c \in ToSet(List(r)) \cap taken : c \in program.rejected /\ Packed(r)

\* While a race looks at what it has just launched, that is not resumed; and a race does not sleep.
Looks(r) == /\ r \notin slept
            /\ state[r] = "running" /\ at[r] <= Ending(r) /\ Now(r).do = "instant" =>
                  (Now(r).of \in slept => state[Now(r).of] = "asleep")

\* The dummy was resumed because one of the tasks raced, or the timer, had ended.
Roused(r) == state[Dummy(r)] # "created" =>
                \E c \in ToSet(List(r)) \cup {Timer(r)} : c \in Tasks /\ Done(c)

Rested(c) == state[c] = "created" => c \notin slept

\* The parts of RaceReturns, for one task.
Hollow(t) == t \in hollow =>
    \/ Packed(t) /\ won[t] \in program.moves
    \/ \E c \in program.moves, q \in Tasks \ {t} : Do("await", c) \in ToSet(program.body[t]) \cap ToSet(program.body[q])

Winner(r) == won[r] # NoTask =>
    /\ r \in RaceTasks /\ Done(r)
    /\ state[won[r]] = "done" /\ (won[r] \in threw => r \in threw)
    /\ won[r] \in program.rejected \ threw =>
          \/ won[r] \in taken /\ Packed(r)
          \/ won[r] \notin slept /\ Do("instant", won[r]) \in ToSet(program.body[r])

TimesOut(r) == r \in timedout => \E c \in ToSet(List(r)) \cup {Timer(r)} :
                  c \in Tasks /\ Done(c) /\ (c = Timer(r) \/ c \in program.rejected)

Racings == \A r \in RaceTasks : Keeps(r) /\ Looks(r) /\ Roused(r)
Results == \A t \in Tasks : Moved(t) /\ Rested(t) /\ Hollow(t) /\ Winner(t) /\ TimesOut(t)

\* An instant is that of the launch before it.
LEMMA InstantIs ==
    ASSUME program \in Programs, NEW r \in RaceTasks, NEW i \in DOMAIN program.body[r], program.body[r][i].do = "instant"
    PROVE  /\ i > 1 /\ i < Attaching(r) /\ i \in Nat
           /\ program.body[r][i - 1] = Do("launch", program.body[r][i].of)
           /\ program.body[r][i].of \in ToSet(List(r))
<1> DEFINE n == Ending(r)
           k == Attaching(r)
           p == Parking(r)
           body == program.body[r]
<1>1. /\ n \in Nat /\ k \in 1 .. n
      /\ body[k] = Do("attach", NoTask)
      /\ Timer(r) # NoTask => body[p - 1] = Do("start", Timer(r))
      /\ body[p] = Do("await", Dummy(r))
      /\ body[n - 1] = Do("detach", NoTask)
      /\ body[n] = Do("choose", NoTask)
  BY RaceShape
<1>2. \A j \in 1 .. k - 1 :
          \/ body[j].do \in {"launch", "instant"} /\ body[j].of \in ToSet(List(r))
          \/ body[j].do = "look"
  BY RaceShape
<1>3. \A j \in 1 .. k - 1 : body[j].do = "instant" => j > 1 /\ body[j - 1] = Do("launch", body[j].of)
  BY RaceShape
<1>4. p = n - 2 /\ k = IF Timer(r) = NoTask THEN p - 1 ELSE p - 2
  BY DEF Parking, Attaching
<1>5. i \in 1 .. n
  <2>1. r \in Tasks /\ program.body[r] \in Seq(Instruction)
    BY TaskAssumption DEF RaceTasks, IsProgram
  <2> QED
    BY <2>1 DEF Ending
<1>6. body[i].do = "instant"
  OBVIOUS
<1> SUFFICES /\ i > 1 /\ i < k /\ i \in Nat /\ body[i - 1] = Do("launch", body[i].of) /\ body[i].of \in ToSet(List(r))
  OBVIOUS
<1> HIDE DEF n, k, p, body
<1>7. i < k \/ i = k \/ (Timer(r) # NoTask /\ i = p - 1) \/ i = p \/ i = n - 1 \/ i = n
  BY <1>1, <1>4, <1>5
<1>8. i < k
  BY <1>1, <1>6, <1>7 DEF Do
<1>9. i \in 1 .. k - 1
  BY <1>1, <1>5, <1>8
<1> QED
  BY <1>2, <1>3, <1>6, <1>8, <1>9

\* What has happened stays so.
LEMMA Grows ==
    ASSUME IInv, NEW l \in Loops, ThreadStep(l)
    PROVE  /\ threw \subseteq threw' /\ taken \subseteq taken' /\ slept \subseteq slept'
           /\ \A s \in Tasks : s \in slept' => s \in slept \/ Sleep(l, s)
<1>1. CASE run_task(l)
  BY <1>1 DEF run_task, start, Resumed, values
<1> SUFFICES ASSUME NEW t \in Tasks,
                    \/ RunDeferred(l, t) \/ Sleep(l, t) \/ Await(l, t) \/ Return(l, t) \/ FinalSuspend(l, t)
                    \/ Skip(l, t) \/ Instant(l, t) \/ Detach(l, t) \/ Choose(l, t)
                    \/ Ask(l, t) \/ Deliver(l, t) \/ WrapperEnds(l, t)
                    \/ \E c \in Tasks : Start(l, t, c) \/ Attach(l, t, c) \/ AskAndResume(l, t, c)
             PROVE  /\ threw \subseteq threw' /\ taken \subseteq taken' /\ slept \subseteq slept'
                    /\ \A s \in Tasks : s \in slept' => s \in slept \/ Sleep(l, s)
  BY <1>1 DEF ThreadStep
<1>2. CASE RunDeferred(l, t)
  BY <1>2 DEF RunDeferred, Resumed, values, bodies
<1>3. CASE Sleep(l, t)
  BY <1>3 DEF Sleep, races, values
<1>4. CASE Await(l, t)
  BY <1>4 DEF Await, races, values
<1>5. CASE Return(l, t)
  BY <1>5 DEF Return, Leave, values
<1>6. CASE FinalSuspend(l, t)
  BY <1>6 DEF FinalSuspend, Takes, Get, values
<1>7. CASE Skip(l, t) \/ Detach(l, t) \/ \E c \in Tasks : Attach(l, t, c)
  BY <1>7 DEF Skip, Detach, Attach, Other, races, values
<1>8. CASE Instant(l, t)
  BY <1>8 DEF Instant, Other, races, values, Wins, Leave, Get
<1>9. CASE Choose(l, t)
  BY <1>9 DEF Choose, Other, Wins, Leave, Get
<1>10. CASE Ask(l, t)
  BY <1>10 DEF Ask, Takes, Get, values, bodies
<1>11. CASE Deliver(l, t)
  BY <1>11 DEF Deliver, races, values, bodies
<1>12. CASE WrapperEnds(l, t)
  BY <1>12 DEF WrapperEnds, Resumed, values, bodies
<1>13. ASSUME NEW c \in Tasks, Start(l, t, c)
       PROVE  /\ threw \subseteq threw' /\ taken \subseteq taken' /\ slept \subseteq slept'
              /\ \A s \in Tasks : s \in slept' => s \in slept \/ Sleep(l, s)
  BY <1>13 DEF Start, start, Resumed, values
<1>14. ASSUME NEW c \in Tasks, AskAndResume(l, t, c)
       PROVE  /\ threw \subseteq threw' /\ taken \subseteq taken' /\ slept \subseteq slept'
              /\ \A s \in Tasks : s \in slept' => s \in slept \/ Sleep(l, s)
  BY <1>14 DEF AskAndResume, Takes, Get, Resumed, values, bodies
<1> QED
  BY <1>2, <1>3, <1>4, <1>5, <1>6, <1>7, <1>8, <1>9, <1>10, <1>11, <1>12, <1>13, <1>14

\* A task that has ended throws nothing any more.
LEMMA ThrowsOnce ==
    ASSUME IInv, Control, Waits, RacesAre, OrderlyStep, NEW l \in Loops, ThreadStep(l), NEW s \in Tasks, Done(s)
    PROVE  s \in threw' => s \in threw
<1>1. BodyMove(l, s)
  BY Moves DEF Waits, OrderlyStep
<1>2. state[s] \in {"final", "done"}
  BY DEF Done
<1>3. ~In(l, s)
  BY <1>2 DEF In
<1>4. Resumed(s, at) => threw' = threw
  BY <1>2 DEF Resumed
<1>5. RunDeferred(l, s) /\ s \notin gone => threw' = threw
  BY <1>4 DEF RunDeferred, Alive
<1>6. WrapperEnds(l, s) /\ home(s) = l => threw' = threw
  BY <1>4 DEF WrapperEnds, same_loop
<1>7. \A c \in Tasks : FinalSuspend(l, c) => threw' = threw
  BY DEF FinalSuspend
<1> QED
  BY <1>1, <1>2, <1>3, <1>5, <1>6, <1>7 DEF BodyMove

\* What a race chooses: the first it accepts, or, when it accepts none, to go on or to be over.
Chooses(r, lucky) ==
    \/ \E c \in ToSet(List(r)) :
          /\ Accepted(c, lucky) /\ Wins(r, c)
          /\ hollow' = IF c \in TakenBefore(r) \ threw THEN hollow \cup {r} ELSE hollow
    \/ /\ \A c \in ToSet(List(r)) : ~Accepted(c, lucky)
       /\ UNCHANGED <<won, hollow>>
       /\ \/ Now(r).do = "look" /\ UNCHANGED <<state, threw, timedout>>
          \/ Now(r).do = "choose" /\ Leave(r, TRUE) /\ timedout' = timedout \cup {r}

LEMMA Chosen ==
    ASSUME IInv, NEW l, NEW r \in Tasks, Choose(l, r)
    PROVE  /\ \E lucky \in SUBSET taken : Chooses(r, lucky)
           /\ \A c \in taken' : c \in taken \/ (c \in ToSet(List(r)) \cap program.moves /\ Done(c) /\ c \notin threw)
<1>1. PICK lucky \in SUBSET taken :
        LET n == SelectInSeq(List(r), LAMBDA c : Accepted(c, lucky))
            last == IF n = 0 THEN Len(List(r)) ELSE n
            winner == IF n = 0 THEN NoTask ELSE List(r)[n]
        IN  /\ Get({List(r)[i] : i \in {i \in 1 .. last : Done(List(r)[i])}}, winner, TakenBefore(r), r)
            /\ \/ n # 0 /\ Wins(r, winner)
               \/ /\ n = 0 /\ Now(r).do = "look"
                  /\ at' = Forth(r, 1) /\ UNCHANGED <<state, threw, early, won, timedout, gone>>
               \/ /\ n = 0 /\ Now(r).do = "choose"
                  /\ Leave(r, TRUE) /\ timedout' = timedout \cup {r} /\ UNCHANGED won
  BY DEF Choose
<1> DEFINE n == SelectInSeq(List(r), LAMBDA c : Accepted(c, lucky))
           winner == IF n = 0 THEN NoTask ELSE List(r)[n]
           last == IF n = 0 THEN Len(List(r)) ELSE n
           cs == {List(r)[i] : i \in {i \in 1 .. last : Done(List(r)[i])}}
           I == {i \in 1 .. Len(List(r)) : Accepted(List(r)[i], lucky)}
<1>2. List(r) \in Seq(Tasks) /\ program.moves \subseteq Tasks /\ taken \subseteq Tasks /\ NoTask \notin Tasks
  BY TaskAssumption DEF List, IInv, Inv, IsProgram, Race, RestOK
<1>3. n = IF I # {} THEN Min(I) ELSE 0
  BY DEF SelectInSeq
<1>4. I # {} => Min(I) \in I
  <2>1. I \in SUBSET Nat
    BY <1>2
  <2> HIDE DEF I
  <2>2. ASSUME I # {} PROVE \E m \in I : \A k \in I : m <= k
    BY <2>1, <2>2, LeastNat
  <2> QED
    BY <2>2 DEF Min
<1>5. n # 0 => n \in 1 .. Len(List(r)) /\ Accepted(List(r)[n], lucky)
  BY <1>3, <1>4
<1>6. n = 0 => I = {}
  <2>1. 0 \notin I
    OBVIOUS
  <2> HIDE DEF I, n
  <2> QED
    BY <1>3, <1>4, <2>1
<1>7. /\ ToSet(List(r)) = {List(r)[i] : i \in 1 .. Len(List(r))} /\ Len(List(r)) \in Nat
      /\ ToSet(List(r)) \subseteq Tasks
  BY <1>2 DEF ToSet
<1>8. n = 0 => \A c \in ToSet(List(r)) : ~Accepted(c, lucky)
  BY <1>6, <1>7
<1>9. n # 0 => winner \in ToSet(List(r)) /\ Accepted(winner, lucky)
  BY <1>5, <1>7
<1>10. Get(cs, winner, TakenBefore(r), r)
  BY <1>1
<1>11. \/ n # 0 /\ Wins(r, winner)
       \/ n = 0 /\ Now(r).do = "look" /\ UNCHANGED <<state, threw, won, timedout>>
       \/ n = 0 /\ Now(r).do = "choose" /\ Leave(r, TRUE) /\ timedout' = timedout \cup {r} /\ UNCHANGED won
  BY <1>1
<1>12. cs \subseteq {c \in ToSet(List(r)) : Done(c)}
  <2>1. last \in 0 .. Len(List(r))
    BY <1>5, <1>7
  <2> HIDE DEF last
  <2>2. ASSUME NEW c \in cs PROVE c \in ToSet(List(r)) /\ Done(c)
    <3>1. PICK i \in 1 .. last : Done(List(r)[i]) /\ c = List(r)[i]
      OBVIOUS
    <3>2. i \in 1 .. Len(List(r))
      BY <1>7, <2>1
    <3> QED
      BY <1>7, <3>1, <3>2
  <2> QED
    BY <2>2
<1>13. NoTask \notin TakenBefore(r)
  BY <1>2 DEF TakenBefore
<1>14. n = 0 => winner = NoTask
  OBVIOUS
<1> HIDE DEF n, winner, cs
<1>15. \A c \in taken' : c \in taken \/ (c \in ToSet(List(r)) \cap program.moves /\ Done(c) /\ c \notin threw)
  BY <1>10, <1>12 DEF Get
<1>16. n # 0 => Chooses(r, lucky)
  BY <1>9, <1>10, <1>11 DEF Chooses, Get
<1>17. n = 0 => Chooses(r, lucky)
  BY <1>8, <1>10, <1>11, <1>13, <1>14 DEF Chooses, Get
<1> QED
  BY <1>15, <1>16, <1>17

\* What a step does to the results: one that is awaited is had, or a race looks or chooses.
Has(t) == /\ state[t] = "awaiting" /\ wrapper[t] \in {"asking", "asked", "waiting"}
          /\ state'[t] = "awaiting" /\ at'[t] = at[t] /\ wrapper'[t] = "delivering"
          /\ Get({Awaited(t)}, Awaited(t), taken, t) /\ UNCHANGED <<won, timedout>>

ResultMove(l) ==
    \/ UNCHANGED <<won, timedout, values>>
    \/ \E t \in Tasks : Has(t)
    \/ \E r \in RaceTasks : Instant(l, r) /\ at[r] \in DOMAIN program.body[r] /\ Done(Now(r).of)
    \/ \E r \in RaceTasks : Choose(l, r) /\ at[r] \in DOMAIN program.body[r]

LEMMA DoesAt ==
    ASSUME IInv, NEW l, NEW t \in Tasks, NEW what, Does(l, t, what)
    PROVE  at[t] \in DOMAIN program.body[t]
<1>1. program.body[t] \in Seq(Instruction) /\ at[t] \in Nat \ {0}
  BY TaskAssumption DEF IInv, Inv, IsProgram, BodiesOK
<1> QED
  BY <1>1 DEF Does

LEMMA ResultMoves ==
    ASSUME IInv, Control, Waits, RacesAre, OrderlyStep, NEW l \in Loops, ThreadStep(l)
    PROVE  ResultMove(l)
<1>0. wrapper \in [Tasks -> Wrappers] /\ state \in [Tasks -> States]
  BY DEF IInv, BodiesOK, RestOK
<1>1. CASE run_task(l)
  BY <1>1 DEF run_task, ResultMove
<1> SUFFICES ASSUME NEW t \in Tasks,
                    \/ RunDeferred(l, t) \/ Sleep(l, t) \/ Await(l, t) \/ Return(l, t) \/ FinalSuspend(l, t)
                    \/ Skip(l, t) \/ Instant(l, t) \/ Detach(l, t) \/ Choose(l, t)
                    \/ Ask(l, t) \/ Deliver(l, t) \/ WrapperEnds(l, t)
                    \/ \E c \in Tasks : Start(l, t, c) \/ Attach(l, t, c) \/ AskAndResume(l, t, c)
             PROVE  ResultMove(l)
  BY <1>1 DEF ThreadStep
<1>2. CASE FinalSuspend(l, t)
  <2>1. CASE parent[t][1] = "wrapper"
    <3>1. PICK u \in Tasks : parent[t] = <<"wrapper", u>>
      <4>1. parent[t] \in Own(home(t)) \cup {None}
        BY DEF IInv, Inv, Parents
      <4> QED
        BY <2>1, <4>1 DEF Own, Coroutines, None
    <3>2. state[u] = "awaiting" /\ Awaited(u) = t /\ wrapper[u] = "waiting"
      BY <1>2, <3>1, ParentWaiting
    <3>3. state[t] = "final" /\ Takes(u, t)
      BY <1>2, <2>1, <3>1 DEF FinalSuspend
    <3>4. wrapper'[u] = "delivering"
      BY <1>0, <1>2, <3>1 DEF FinalSuspend, Continue
    <3>5. state'[u] = "awaiting" /\ at'[u] = at[u]
      BY <1>2, <3>1, <3>2, <3>3 DEF FinalSuspend
    <3> QED
      BY <1>2, <3>2, <3>3, <3>4, <3>5 DEF ResultMove, Has, Takes, FinalSuspend
  <2>2. CASE parent[t][1] # "wrapper"
    BY <1>2, <2>2 DEF FinalSuspend, ResultMove
  <2> QED
    BY <2>1, <2>2
<1>3. CASE Ask(l, t)
  <2>1. state[t] = "awaiting" /\ wrapper[t] = "asking"
    BY <1>3, InWrapperAt DEF Ask
  <2>2. UNCHANGED <<won, timedout, state, at>>
    BY <1>3 DEF Ask, bodies
  <2>3. UNCHANGED values \/ (Takes(t, Awaited(t)) /\ Wraps(t, "delivering"))
    BY <1>3 DEF Ask
  <2> QED
    BY <1>0, <2>1, <2>2, <2>3 DEF ResultMove, Has, Takes, Wraps
<1>4. ASSUME NEW c \in Tasks, AskAndResume(l, t, c) PROVE ResultMove(l)
  <2>1. state[t] = "awaiting" /\ wrapper[t] = "asked" /\ c = Awaited(t)
    BY <1>4, InWrapperAt DEF AskAndResume
  <2>2. UNCHANGED <<won, timedout>>
    BY <1>4 DEF AskAndResume
  <2>3. UNCHANGED values \/ (Takes(t, c) /\ Wraps(t, "delivering") /\ UNCHANGED <<state, at>>)
    BY <1>4 DEF AskAndResume, bodies
  <2> QED
    BY <1>0, <2>1, <2>2, <2>3 DEF ResultMove, Has, Takes, Wraps
<1>5. CASE Instant(l, t)
  <2>1. at[t] \in DOMAIN program.body[t] /\ t \in RaceTasks
    BY <1>5, DoesAt, OnlyRaces DEF Instant, Does
  <2>2. CASE Done(Now(t).of)
    BY <1>5, <2>1, <2>2 DEF ResultMove
  <2>3. CASE ~Done(Now(t).of)
    BY <1>5, <2>3 DEF Instant, ResultMove, races
  <2> QED
    BY <2>2, <2>3
<1>6. CASE Choose(l, t)
  <2>1. at[t] \in DOMAIN program.body[t] /\ t \in RaceTasks
    BY <1>6, DoesAt, OnlyRaces DEF Choose, Does
  <2> QED
    BY <1>6, <2>1 DEF ResultMove
<1>7. CASE \/ RunDeferred(l, t) \/ Sleep(l, t) \/ Await(l, t) \/ Return(l, t) \/ Skip(l, t) \/ Detach(l, t)
           \/ Deliver(l, t) \/ WrapperEnds(l, t) \/ \E c \in Tasks : Start(l, t, c) \/ Attach(l, t, c)
  BY <1>7 DEF RunDeferred, Sleep, Await, Return, Skip, Detach, Deliver, WrapperEnds, Start, Attach, races, ResultMove
<1> QED
  BY <1>2, <1>3, <1>4, <1>5, <1>6, <1>7

-----------------------------------------------------------------------------
\* A body goes on, and a co_await that is over is left.
LEMMA GoesOn ==
    ASSUME IInv, Control, Waits, RacesAre, OrderlyStep, NEW l \in Loops, ThreadStep(l), NEW t \in Tasks
    PROVE  /\ at[t] \in Nat /\ at'[t] \in Nat /\ at[t] <= at'[t]
           /\ state[t] = "awaiting" => (state'[t] = "awaiting" /\ at'[t] = at[t]) \/ at'[t] = at[t] + 1
<1>1. at \in [Tasks -> Nat \ {0}] /\ state \in [Tasks -> States]
  BY DEF IInv, BodiesOK
<1>2. at'[t] = at[t] \/ In(l, t) \/ (state[t] = "awaiting" /\ at'[t] = at[t] + 1)
  BY BodyAfter
<1>3. In(l, t) => Goes(l, t) /\ state[t] = "running"
  BY RunMoves DEF OrderlyStep, In
<1>4. at[t] \in Nat /\ at'[t] \in Nat /\ at[t] <= at'[t]
  BY <1>1, <1>2, <1>3 DEF Goes
<1>5. ASSUME state[t] = "awaiting" PROVE (state'[t] = "awaiting" /\ at'[t] = at[t]) \/ at'[t] = at[t] + 1
  <2>1. BodyMove(l, t)
    BY Moves DEF Waits, OrderlyStep
  <2>2. Resumed(t, at) => at'[t] = at[t] + 1
    BY <1>1, <1>5 DEF Resumed
  <2>3. RunDeferred(l, t) /\ t \notin gone => at'[t] = at[t] + 1
    BY <2>2 DEF RunDeferred, Alive
  <2>4. WrapperEnds(l, t) /\ home(t) = l => at'[t] = at[t] + 1
    BY <2>2 DEF WrapperEnds, same_loop
  <2>5. \A c \in Tasks : ~(FinalSuspend(l, c) /\ parent[c] = <<"task", t>>)
    BY <1>5, RaceWakes
  <2>6. ~In(l, t) /\ ~FinalSuspend(l, t)
    BY <1>5 DEF In, FinalSuspend
  <2> QED
    BY <1>5, <2>1, <2>3, <2>4, <2>5, <2>6 DEF BodyMove
<1> QED
  BY <1>4, <1>5

LEMMA TookStays ==
    ASSUME IInv, Control, Waits, RacesAre, OrderlyStep, NEW l \in Loops, ThreadStep(l), NEW t \in Tasks, NEW c, Took(t, c)
    PROVE  Took(t, c)'
<1>1. program' = program /\ wrapper \in [Tasks -> Wrappers]
  BY SteadyStep DEF OrderlyStep, Steady, IInv, RestOK
<1>2. PICK i \in DOMAIN program.body[t] :
        /\ program.body[t][i] = Do("await", c)
        /\ \/ i < at[t]
           \/ i = at[t] /\ state[t] = "awaiting" /\ wrapper[t] \in {"delivering", "passing", "done"}
  BY DEF Took
<1>3. /\ at[t] \in Nat /\ at'[t] \in Nat /\ at[t] <= at'[t]
      /\ state[t] = "awaiting" => (state'[t] = "awaiting" /\ at'[t] = at[t]) \/ at'[t] = at[t] + 1
  BY GoesOn
<1>4. i \in Nat
  <2>1. program.body[t] \in Seq(Instruction)
    BY TaskAssumption DEF IInv, Inv, IsProgram
  <2> QED
    BY <2>1
<1>5. CASE i < at'[t]
  BY <1>1, <1>2, <1>5 DEF Took
<1>6. CASE i = at[t] /\ state'[t] = "awaiting" /\ state[t] = "awaiting" /\ at'[t] = at[t]
           /\ wrapper[t] \in {"delivering", "passing", "done"}
  <2>1. WrapperMove(l, t)
    BY Moves DEF Waits, OrderlyStep
  <2>2. ~Await(l, t) /\ ~Ask(l, t) /\ \A b \in Tasks : ~AskAndResume(l, t, b)
    BY <1>6 DEF Await, Does, In, Ask, AskAndResume, InWrapper
  <2>3. ASSUME NEW b \in Tasks, FinalSuspend(l, b), parent[b] = <<"wrapper", t>> PROVE FALSE
    BY <1>6, <2>3, ParentWaiting
  <2>4. wrapper'[t] \in {"delivering", "passing", "done"}
    BY <1>1, <1>6, <2>1, <2>2, <2>3 DEF WrapperMove, Deliver, WrapperEnds, Wraps, AtItsEnd
  <2> QED
    BY <1>1, <1>2, <1>6, <2>4 DEF Took
<1> QED
  BY <1>2, <1>3, <1>4, <1>5, <1>6

\* What moves out and is raced is awaited by nobody, and raced by one.
LEMMA RacedIsAlone ==
    ASSUME IInv, RacesAre, TakenOnce(program), NEW r \in RaceTasks, NEW c \in ToSet(List(r)), c \in program.moves
    PROVE  /\ \A t \in Tasks : state[t] = "awaiting" => Awaited(t) # c
           /\ \A q \in RaceTasks : c \in ToSet(List(q)) => q = r
<1>1. r \in Tasks /\ c # Dummy(r)
  BY RaceOwns DEF IInv, Inv
<1>2. \A t \in Tasks \ {r} : Do("await", c) \notin ToSet(program.body[t]) /\ c \notin ToSet(List(t))
  BY <1>1 DEF TakenOnce, List
<1>3. ASSUME NEW t \in Tasks, state[t] = "awaiting" PROVE Awaited(t) # c
  <2>1. CASE t = r
    BY <1>1, <1>3, <2>1, RaceAwaits
  <2>2. CASE t # r
    <3>1. at[t] \in DOMAIN program.body[t] /\ Now(t).do = "await" /\ Awaited(t) = Now(t).of
      BY <1>3, AwaitedIs DEF Now
    <3>2. Now(t) \in ToSet(program.body[t])
      BY <3>1 DEF Now, ToSet
    <3>3. Now(t) = Do("await", Awaited(t))
      <4>1. program.body[t] \in Seq(Instruction)
        BY TaskAssumption DEF IInv, Inv, IsProgram
      <4>2. Now(t) \in Instruction
        BY <3>1, <4>1 DEF Now
      <4> QED
        BY <3>1, <4>2 DEF Instruction, Do
    <3> QED
      BY <1>2, <2>2, <3>2, <3>3
  <2> QED
    BY <2>1, <2>2
<1>4. ASSUME NEW q \in RaceTasks, c \in ToSet(List(q)) PROVE q = r
  BY <1>2, <1>4 DEF RaceTasks
<1> QED
  BY <1>3, <1>4

\* The one who has it, on the point of leaving its co_await.
LEMMA HasTook ==
    ASSUME IInv, Control, Waits, RacesAre, OrderlyStep, NEW l \in Loops, ThreadStep(l), NEW t \in Tasks, Has(t)
    PROVE  Took(t, Awaited(t))' /\ Awaited(t) \in Tasks /\ program.body[t][at[t]] = Do("await", Awaited(t))
           /\ at[t] \in DOMAIN program.body[t]
<1>1. /\ at[t] \in DOMAIN program.body[t] /\ Now(t).do = "await" /\ Awaited(t) = Now(t).of /\ Awaited(t) \in Tasks
  BY AwaitedIs DEF Now, Has
<1>2. program.body[t] \in Seq(Instruction) /\ program' = program
  BY SteadyStep, TaskAssumption DEF IInv, Inv, IsProgram, OrderlyStep, Steady
<1>3. Now(t) \in Instruction
  BY <1>1, <1>2 DEF Now
<1>4. Now(t) = Do("await", Awaited(t))
  BY <1>1, <1>3 DEF Instruction, Do
<1>5. Awaited(t)' = Awaited(t)
  BY <1>2 DEF Awaited, Has
<1> QED
  BY <1>1, <1>2, <1>4, <1>5 DEF Took, Has, Now

LEMMA MovedStep ==
    ASSUME IInv, Control, Waits, RacesAre, OrderlyStep, NEW l \in Loops, ThreadStep(l), NEW c \in Tasks, Moved(c)
    PROVE  Moved(c)'
<1>1. program' = program /\ RaceTasks' = RaceTasks /\ \A r \in RaceTasks : List(r)' = List(r)
  BY SteadyStep, SameRaces DEF OrderlyStep, Steady
<1> SUFFICES ASSUME c \in taken'
             PROVE  /\ c \in program.moves
                    /\ (\E r \in RaceTasks : c \in ToSet(List(r))) \/ \E t \in Tasks : Took(t, c)'
  BY <1>1 DEF Moved
<1>2. CASE c \in taken
  BY <1>2, TookStays DEF Moved
<1>3. ASSUME c \notin taken, NEW t \in Tasks, Has(t)
      PROVE  c \in program.moves /\ \E u \in Tasks : Took(u, c)'
  <2>1. c = Awaited(t) /\ c \in program.moves
    BY <1>3 DEF Has, Get
  <2>2. Took(t, Awaited(t))'
    BY <1>3, HasTook
  <2>3. Awaited(t)' = Awaited(t)
    BY <1>1, <1>3 DEF Has, Awaited
  <2> QED
    BY <2>1, <2>2, <2>3 DEF Took
<1>4. ASSUME c \notin taken, NEW r \in RaceTasks, Instant(l, r), at[r] \in DOMAIN program.body[r], Done(Now(r).of)
      PROVE  c \in program.moves /\ c \in ToSet(List(r))
  <2>1. Get({Now(r).of}, Now(r).of, taken, r) /\ Now(r).do = "instant"
    BY <1>4 DEF Instant, Does
  <2>2. c = Now(r).of /\ c \in program.moves
    BY <1>4, <2>1 DEF Get
  <2> QED
    BY <1>4, <2>1, <2>2, InstantIs DEF Now, IInv, Inv
<1>5. ASSUME c \notin taken, NEW r \in RaceTasks, Choose(l, r)
      PROVE  c \in program.moves /\ c \in ToSet(List(r))
  BY <1>5, Chosen DEF RaceTasks
<1> QED
  BY <1>2, <1>3, <1>4, <1>5, ResultMoves DEF ResultMove, values

LEMMA KeepsStep ==
    ASSUME IInv, Control, Waits, RacesAre, OrderlyStep, TakenOnce(program), NEW l \in Loops, ThreadStep(l),
           NEW r \in RaceTasks, Keeps(r)
    PROVE  Keeps(r)'
<1>1. program' = program /\ RaceTasks' = RaceTasks /\ \A q \in RaceTasks : List(q)' = List(q) /\ q \in Tasks
  BY SteadyStep, SameRaces DEF OrderlyStep, Steady, RaceTasks
<1>2. Packed(r)' = Packed(r)
  BY <1>1 DEF Packed
<1> SUFFICES ASSUME ~Done(r)', NEW c \in ToSet(List(r)) \cap taken'
             PROVE  c \in program.rejected /\ Packed(r)
  BY <1>1, <1>2 DEF Keeps
<1>3. ~Done(r)
  BY <1>1, BodyAfter
<1>4. CASE c \in taken
  BY <1>3, <1>4 DEF Keeps
<1>a. \A exception : ~Leave(r, exception)
  BY <1>1 DEF Leave, Done, IInv, BodiesOK
<1>5. ASSUME c \notin taken, NEW t \in Tasks, Has(t) PROVE FALSE
  <2>1. c = Awaited(t) /\ c \in program.moves /\ state[t] = "awaiting"
    BY <1>5 DEF Has, Get
  <2> QED
    BY <2>1, RacedIsAlone
<1>6. ASSUME c \notin taken, NEW q \in RaceTasks, Instant(l, q), at[q] \in DOMAIN program.body[q], Done(Now(q).of)
      PROVE  FALSE
  <2>1. Get({Now(q).of}, Now(q).of, taken, q) /\ Now(q).do = "instant" /\ Wins(q, Now(q).of)
    BY <1>6 DEF Instant, Does
  <2>2. c = Now(q).of /\ c \in program.moves
    BY <1>6, <2>1 DEF Get
  <2>3. c \in ToSet(List(q))
    BY <1>6, <2>1, <2>2, InstantIs DEF Now, IInv, Inv
  <2>4. q = r
    BY <2>2, <2>3, RacedIsAlone
  <2> QED
    BY <1>a, <2>1, <2>4 DEF Wins
<1>7. ASSUME c \notin taken, NEW q \in RaceTasks, Choose(l, q), at[q] \in DOMAIN program.body[q]
      PROVE  c \in program.rejected /\ Packed(r)
  <2>1. c \in ToSet(List(q)) /\ c \in program.moves /\ Done(c) /\ c \notin threw
    BY <1>1, <1>7, Chosen
  <2>2. q = r
    BY <2>1, RacedIsAlone
  <2>3. PICK lucky \in SUBSET taken : Chooses(r, lucky)
    BY <1>1, <1>7, <2>2, Chosen
  <2>4. ~Accepted(c, lucky) /\ Now(r).do = "look"
    BY <1>a, <2>3 DEF Chooses, Wins
  <2> QED
    BY <1>7, <2>1, <2>2, <2>4 DEF Accepted, Packed, Now
<1> QED
  BY <1>4, <1>5, <1>6, <1>7, ResultMoves DEF ResultMove, values

\* A task that sleeps under a race that runs, at home, is not resumed.
LEMMA SleepsOn ==
    ASSUME IInv, Control, Waits, RacesAre, OrderlyStep, NEW l \in Loops, ThreadStep(l), NEW r \in Tasks, state[r] = "running",
           NEW c \in Tasks, home(c) = home(r), state[c] = "asleep"
    PROVE  state'[c] = "asleep"
<1>1. BodyMove(l, c)
  BY Moves DEF Waits, OrderlyStep
<1>2. ~RunDeferred(l, c)
  <2> SUFFICES ASSUME RunDeferred(l, c) PROVE FALSE
    OBVIOUS
  <2>1. stack[l] = <<>> /\ home(r) = l
    BY DEF RunDeferred
  <2>2. <<"task", r>> \in Frames(l)
    BY <2>1 DEF Control, Controlled, TaskRuns
  <2> QED
    BY <2>1, <2>2 DEF Frames, ToSet
<1>3. ~(WrapperEnds(l, c) /\ home(c) = l)
  <2> SUFFICES ASSUME WrapperEnds(l, c), home(c) = l PROVE FALSE
    OBVIOUS
  <2>1. WrapperAt(l, c)
    BY WrapperOnTop DEF WrapperEnds
  <2> QED
    BY <2>1 DEF WrapperAt
<1>4. \A b \in Tasks : ~(FinalSuspend(l, b) /\ parent[b] = <<"task", c>>)
  BY RaceWakes
<1>5. ~In(l, c) /\ ~FinalSuspend(l, c)
  BY DEF In, FinalSuspend
<1> QED
  BY <1>1, <1>2, <1>3, <1>4, <1>5 DEF BodyMove

\* A race comes to an instant by starting the task, which has not slept then.
LEMMA ComesToInstant ==
    ASSUME IInv, Control, Waits, RacesAre, OrderlyStep, NEW l \in Loops, ThreadStep(l), NEW r \in RaceTasks, In(l, r),
           state'[r] = "running", at'[r] # at[r], at'[r] \in DOMAIN program.body[r], program.body[r][at'[r]].do = "instant"
    PROVE  Start(l, r, program.body[r][at'[r]].of)
<1> DEFINE i == at'[r]
           c == program.body[r][i].of
<1>1. i > 1 /\ i \in Nat /\ program.body[r][i - 1] = Do("launch", c)
  BY InstantIs DEF IInv, Inv
<1>2. r \in Tasks /\ at[r] \in Nat
  BY DEF RaceTasks, IInv, BodiesOK
<1>3. Goes(l, r) /\ state[r] = "running" /\ Running(l, "task", r)
  BY <1>2, RunMoves DEF OrderlyStep, In
<1>4. i # at[r] + 2
  <2> SUFFICES ASSUME i = at[r] + 2 PROVE FALSE
    OBVIOUS
  <2>1. program.body[r][at[r] + 1].do = "instant"
    BY <1>2, <1>3 DEF Goes
  <2>2. i - 1 = at[r] + 1
    BY <1>2
  <2> QED
    BY <1>1, <2>1, <2>2 DEF Do
<1>5. i = at[r] + 1 /\ at[r] = i - 1
  BY <1>2, <1>3, <1>4 DEF Goes
<1>6. Now(r) = Do("launch", c)
  BY <1>1, <1>5 DEF Now
<1>7. at \in [Tasks -> Nat \ {0}] /\ state \in [Tasks -> States]
  BY DEF IInv, BodiesOK
<1>8. ~Skip(l, r)
  <2> SUFFICES ASSUME Skip(l, r) PROVE FALSE
    OBVIOUS
  <2>1. program.body[r][at[r] + 1].do = "instant"
    BY <1>5
  <2>2. at'[r] = at[r] + 2
    BY <1>2, <1>7, <2>1 DEF Skip, Forth
  <2> QED
    BY <1>4, <2>2
<1>9. ~Sleep(l, r) /\ ~Await(l, r) /\ ~Return(l, r) /\ ~FinalSuspend(l, r)
  <2>1. ~Sleep(l, r) /\ ~Await(l, r) /\ ~Return(l, r)
    BY <1>2, <1>7 DEF Sleep, Await, Return, Leave
  <2> QED
    BY <1>3, <2>1 DEF FinalSuspend
<1>10. ~Instant(l, r) /\ ~Detach(l, r) /\ ~Choose(l, r) /\ \A b \in Tasks : ~Attach(l, r, b)
  BY <1>6 DEF Instant, Detach, Choose, Attach, Does, Do
<1>11. \E b \in Tasks : Start(l, r, b)
  BY <1>2, <1>3, <1>8, <1>9, <1>10, Turn
<1>12. \A b \in Tasks : Start(l, r, b) => b = c
  BY <1>6 DEF Start, Do
<1> QED
  BY <1>11, <1>12

LEMMA LooksStep ==
    ASSUME IInv, Control, Waits, RacesAre, OrderlyStep, NEW l \in Loops, ThreadStep(l), NEW r \in RaceTasks,
           Looks(r), \A c \in Tasks : Rested(c)
    PROVE  Looks(r)'
<1>1. /\ program' = program /\ r \in Tasks /\ Ending(r)' = Ending(r) /\ at[r] \in Nat /\ at'[r] \in Nat /\ at'[r] <= Ending(r)
      /\ state'[r] # "asleep" /\ at[r] <= at'[r]
  BY SteadyStep, SameRaces, RaceGoes DEF OrderlyStep, Steady, RaceTasks, IInv, BodiesOK
<1>2. r \notin slept'
  <2>1. Sleep(l, r) => state'[r] = "asleep"
    BY <1>1 DEF Sleep, IInv, BodiesOK
  <2> QED
    BY <1>1, <2>1, Grows DEF Looks
<1> SUFFICES ASSUME state'[r] = "running", Now(r)'.do = "instant", Now(r)'.of \in slept'
             PROVE  state'[Now(r)'.of] = "asleep"
  BY <1>1, <1>2 DEF Looks
<1> DEFINE i == at'[r]
           c == program.body[r][i].of
<1>3. Now(r)' = program.body[r][i]
  BY <1>1 DEF Now
<1>4. i \in DOMAIN program.body[r]
  <2>1. program.body[r] \in Seq(Instruction) /\ at'[r] \in Nat \ {0}
    BY <1>1, TypesStep, TaskAssumption DEF IInv, Inv, IsProgram, Next, BodiesOK
  <2> QED
    BY <1>1, <2>1 DEF Ending
<1>5. i > 1 /\ i < Attaching(r) /\ c \in ToSet(List(r))
  BY <1>3, <1>4, InstantIs DEF IInv, Inv
<1>6. c \in Tasks /\ home(c) = home(r)
  BY <1>5, RaceOwns DEF IInv, Inv
<1>7. c \in slept' => c \in slept \/ state'[c] = "asleep"
  <2>1. Sleep(l, c) => state'[c] = "asleep"
    BY <1>6 DEF Sleep, IInv, BodiesOK
  <2> QED
    BY <1>6, <2>1, Grows
<1>8. CASE state[r] = "running" /\ at'[r] = at[r]
  <2>1. c \in slept => state[c] = "asleep"
    <3>1. Now(r) = Now(r)'
      BY <1>1, <1>8 DEF Now
    <3> QED
      BY <1>1, <1>3, <1>8, <3>1 DEF Looks
  <2>2. state[c] = "asleep" => state'[c] = "asleep"
    BY <1>1, <1>6, <1>8, SleepsOn
  <2> QED
    BY <1>3, <1>7, <2>1, <2>2
<1>9. CASE In(l, r) /\ at'[r] # at[r]
  <2>1. Start(l, r, c)
    BY <1>3, <1>4, <1>9, ComesToInstant
  <2>2. c \notin slept
    BY <1>6, <2>1, <1>1 DEF OrderlyStep, StartsOnce, Fresh, Rested
  <2>3. slept' = slept
    BY <2>1 DEF Start
  <2> QED
    BY <1>3, <2>2, <2>3
<1>10. CASE at'[r] = at[r] /\ at[r] = 1
  BY <1>5, <1>10
<1>11. CASE state[r] = "awaiting"
  <2>1. at[r] = Parking(r) /\ Attaching(r) < Parking(r) /\ Attaching(r) \in Nat /\ Parking(r) \in Nat
    BY <1>11, RaceAwaits, RaceDoes
  <2> QED
    BY <1>1, <1>5, <2>1
<1>12. RaceMove(l, r)
  BY RaceMoves
<1> QED
  BY <1>8, <1>9, <1>10, <1>11, <1>12 DEF RaceMove, In

LEMMA RousedStep ==
    ASSUME IInv, Control, Waits, RacesAre, OrderlyStep, NEW l \in Loops, ThreadStep(l), NEW r \in RaceTasks, Roused(r)
    PROVE  Roused(r)'
<1>1. /\ program' = program /\ r \in Tasks /\ Dummy(r)' = Dummy(r) /\ Timer(r)' = Timer(r) /\ List(r)' = List(r)
      /\ Dummy(r) \in Tasks
  BY SteadyStep, SameRaces, RaceDoes DEF OrderlyStep, Steady, RaceTasks
<1> SUFFICES ASSUME state'[Dummy(r)] # "created"
             PROVE  \E c \in ToSet(List(r)) \cup {Timer(r)} : c \in Tasks /\ Done(c)'
  BY <1>1 DEF Roused
<1>2. CASE state[Dummy(r)] # "created"
  BY <1>2, BodyAfter DEF Roused
<1>3. CASE state[Dummy(r)] = "created"
  <2>1. PICK c \in Tasks : FinalSuspend(l, c) /\ parent[c] = <<"task", Dummy(r)>>
    BY <1>3, DummyMoves DEF DummyMove
  <2>2. PICK q \in RaceTasks : Dummy(r) = Dummy(q) /\ Racing(q, c)
    BY <1>1, <2>1, RaceWakes
  <2>3. q = r
    BY <1>1, <2>2, RaceOwns DEF IInv, Inv
  <2>4. c \in ToSet(List(r)) \cup {Timer(r)}
    BY <2>2, <2>3 DEF Racing
  <2>5. Done(c)'
    BY <2>1 DEF FinalSuspend, Done
  <2> QED
    BY <2>4, <2>5
<1> QED
  BY <1>2, <1>3

LEMMA RestedStep ==
    ASSUME IInv, Control, Waits, RacesAre, OrderlyStep, NEW l \in Loops, ThreadStep(l), NEW c \in Tasks, Rested(c)
    PROVE  Rested(c)'
<1>1. Sleep(l, c) => state'[c] = "asleep"
  BY DEF Sleep, IInv, BodiesOK
<1>2. state'[c] = "created" => state[c] = "created"
  BY BodyAfter
<1> QED
  BY <1>1, <1>2, Grows DEF Rested

LEMMA HollowStep ==
    ASSUME IInv, Control, Waits, RacesAre, OrderlyStep, TakenOnce(program), NEW l \in Loops, ThreadStep(l),
           Racings, Results, NEW t \in Tasks
    PROVE  Hollow(t)'
<1>1. program' = program /\ Packed(t)' = Packed(t) /\ won \in [Tasks -> Tasks \cup {NoTask}]
  BY SteadyStep DEF OrderlyStep, Steady, Packed, IInv, RestOK
<1>2. program.moves \subseteq Tasks /\ NoTask \notin Tasks
  BY TaskAssumption DEF IInv, Inv, IsProgram
<1>a. Hollow(t) /\ Winner(t)
  BY DEF Results
<1> DEFINE Shares == \E c \in program.moves, q \in Tasks \ {t} :
                        Do("await", c) \in ToSet(program.body[t]) \cap ToSet(program.body[q])
<1> SUFFICES ASSUME t \in hollow' PROVE (Packed(t) /\ won'[t] \in program.moves) \/ Shares
  BY <1>1 DEF Hollow
<1>b. t \in hollow => (Packed(t) /\ won[t] \in program.moves) \/ Shares
  BY <1>a DEF Hollow
<1> HIDE DEF Shares
<1>3. CASE t \in hollow /\ won'[t] = won[t]
  BY <1>b, <1>3
<1>4. CASE t \in hollow /\ ~Done(t)
  <2>1. won[t] = NoTask
    BY <1>a, <1>4 DEF Winner
  <2> QED
    BY <1>b, <1>2, <1>4, <2>1
<1>5. ASSUME t \notin hollow, NEW u \in Tasks, Has(u) PROVE Shares
  <2>1. t = u /\ Awaited(t) \in taken \ threw
    BY <1>5 DEF Has, Get
  <2>2. /\ Awaited(t) \in Tasks /\ program.body[t][at[t]] = Do("await", Awaited(t)) /\ at[t] \in DOMAIN program.body[t]
        /\ state[t] = "awaiting" /\ wrapper[t] \notin {"delivering", "passing", "done"}
    BY <1>5, <2>1, HasTook DEF Has
  <2>3. Awaited(t) \in program.moves
    BY <2>1, <2>2 DEF Results, Moved
  <2>4. PICK q \in Tasks : Took(q, Awaited(t))
    BY <2>1, <2>2, RacedIsAlone DEF Results, Moved
  <2>5. PICK i \in DOMAIN program.body[q] :
          /\ program.body[q][i] = Do("await", Awaited(t))
          /\ \/ i < at[q]
             \/ i = at[q] /\ state[q] = "awaiting" /\ wrapper[q] \in {"delivering", "passing", "done"}
    BY <2>4 DEF Took
  <2>6. q # t
    <3> SUFFICES ASSUME q = t PROVE FALSE
      OBVIOUS
    <3>1. i = at[t]
      BY <2>2, <2>3, <2>5 DEF TakenOnce
    <3>2. at[t] \in Nat
      BY DEF IInv, BodiesOK
    <3> QED
      BY <2>2, <2>5, <3>1, <3>2
  <2>7. Do("await", Awaited(t)) \in ToSet(program.body[t]) \cap ToSet(program.body[q])
    BY <2>2, <2>5 DEF ToSet
  <2> QED
    BY <2>3, <2>6, <2>7 DEF Shares
<1>6. ASSUME NEW r \in RaceTasks, Instant(l, r), at[r] \in DOMAIN program.body[r], Done(Now(r).of)
      PROVE  \/ t # r /\ won'[t] = won[t] /\ t \in hollow
             \/ ~Done(t) /\ t \in hollow
             \/ Packed(t) /\ won'[t] \in program.moves
  <2>1. Get({Now(r).of}, Now(r).of, taken, r) /\ Now(r).do = "instant" /\ In(l, r) /\ Wins(r, Now(r).of)
    BY <1>6 DEF Instant, Does
  <2>2. CASE t # r
    BY <1>1, <2>1, <2>2 DEF Get, Wins
  <2>3. CASE t = r /\ t \notin hollow
    <3>1. Now(r).of \in taken
      BY <2>1, <2>3 DEF Get
    <3>2. Now(r).of \in ToSet(List(r))
      BY <1>6, <2>1, InstantIs DEF Now, IInv, Inv
    <3>3. Now(r).of \in program.moves
      BY <3>1, <3>2, RaceOwns DEF Results, Moved, IInv, Inv
    <3>4. ~Done(r)
      BY <2>1 DEF In, Done
    <3>5. Packed(r)
      BY <3>1, <3>2, <3>4 DEF Racings, Keeps
    <3> QED
      BY <1>1, <2>1, <2>3, <3>3, <3>5 DEF Wins
  <2>4. ~Done(r)
    BY <2>1 DEF In, Done
  <2> QED
    BY <2>2, <2>3, <2>4
<1>7. ASSUME NEW r \in RaceTasks, Choose(l, r)
      PROVE  \/ won'[t] = won[t] /\ t \in hollow
             \/ ~Done(t) /\ t \in hollow
             \/ Packed(t) /\ won'[t] \in program.moves
  <2>1. ~Done(r) /\ r \in Tasks
    BY <1>7 DEF Choose, Does, In, Done, RaceTasks
  <2>2. PICK lucky \in SUBSET taken : Chooses(r, lucky)
    BY <1>7, <2>1, Chosen
  <2>3. CASE UNCHANGED <<won, hollow>>
    BY <2>3
  <2>4. ASSUME NEW c \in ToSet(List(r)), Wins(r, c),
               hollow' = IF c \in TakenBefore(r) \ threw THEN hollow \cup {r} ELSE hollow
        PROVE  \/ won'[t] = won[t] /\ t \in hollow
               \/ ~Done(t) /\ t \in hollow
               \/ Packed(t) /\ won'[t] \in program.moves
    <3>1. CASE t # r
      BY <1>1, <2>4, <3>1 DEF Wins
    <3>2. CASE t = r /\ t \notin hollow
      <4>1. c \in TakenBefore(r) /\ c \in Tasks
        BY <2>4, <3>2, RaceOwns DEF IInv, Inv
      <4>2. c \in taken => c \in program.moves /\ Packed(r)
        BY <2>1, <4>1 DEF Results, Moved, Racings, Keeps
      <4>3. c \in program.moves /\ Packed(r)
        BY <4>1, <4>2 DEF TakenBefore
      <4> QED
        BY <1>1, <2>4, <3>2, <4>3 DEF Wins
    <3> QED
      BY <2>1, <3>1, <3>2
  <2> QED
    BY <2>2, <2>3, <2>4 DEF Chooses
<1> QED
  BY <1>3, <1>4, <1>5, <1>6, <1>7, ResultMoves DEF ResultMove, values, Has

\* A task that has ended keeps what it is.
LEMMA WinnerStays ==
    ASSUME IInv, Control, Waits, RacesAre, OrderlyStep, NEW l \in Loops, ThreadStep(l), NEW r \in Tasks,
           Winner(r), won'[r] = won[r]
    PROVE  Winner(r)'
<1>1. program' = program /\ RaceTasks' = RaceTasks /\ Packed(r)' = Packed(r)
  BY SteadyStep, SameRaces DEF OrderlyStep, Steady, Packed
<1> SUFFICES ASSUME won[r] # NoTask PROVE Winner(r)'
  BY DEF Winner
<1> PICK c : c = won[r]
  OBVIOUS
<1>2. c \in Tasks /\ state[c] = "done" /\ Done(c) /\ Done(r) /\ r \in RaceTasks
  BY DEF IInv, RestOK, Winner, Done
<1>3. state'[c] = "done" /\ Done(r)'
  BY <1>2, BodyAfter
<1>4. c \in threw' <=> c \in threw
  BY <1>2, ThrowsOnce, Grows
<1>5. c \in slept' => c \in slept
  <2>1. ~Sleep(l, c)
    BY <1>2 DEF Sleep, Does, In
  <2> QED
    BY <1>2, <2>1, Grows
<1>6. c \in taken => c \in taken'
  BY Grows
<1>7. r \in threw => r \in threw'
  BY Grows
<1> QED
  BY <1>1, <1>2, <1>3, <1>4, <1>5, <1>6, <1>7 DEF Winner

\* What a race on top of its loop finds ended has been left by its loop.
LEMMA Won ==
    ASSUME IInv, Control, Waits, RacesAre, OrderlyStep, NEW l \in Loops, ThreadStep(l), NEW r \in RaceTasks, In(l, r),
           NEW c \in ToSet(List(r)), Done(c), Wins(r, c),
           c \in program.rejected \ threw => \/ c \in taken /\ Packed(r)
                                             \/ c \notin slept /\ Do("instant", c) \in ToSet(program.body[r])
    PROVE  Winner(r)'
<1>1. program' = program /\ RaceTasks' = RaceTasks /\ Packed(r)' = Packed(r)
  BY SteadyStep, SameRaces DEF OrderlyStep, Steady, Packed
<1>2. r \in Tasks /\ c \in Tasks /\ c # r /\ home(c) = home(r)
  BY RaceOwns DEF IInv, Inv
<1>3. state[c] # "final"
  <2>1. Inv /\ Running(l, "task", r)
    BY DEF IInv, In
  <2>2. home(r) = l /\ \A s \in Tasks \ {r} : home(s) = l => state[s] # "final"
    BY <1>2, <2>1, TaskOnTop
  <2> QED
    BY <1>2, <2>2
<1>4. state'[c] = "done" /\ won'[r] = c /\ Done(r)'
  BY <1>2, <1>3 DEF Wins, Leave, Done, IInv, BodiesOK, RestOK
<1>5. (c \in threw' => c \in threw) /\ (c \in threw => r \in threw') /\ threw \subseteq threw'
  BY <1>2 DEF Wins, Leave
<1>6. c \in slept' => c \in slept
  <2>1. ~Sleep(l, c)
    BY DEF Sleep, Does, In, Done
  <2> QED
    BY <1>2, <2>1, Grows
<1>7. c \in taken => c \in taken'
  BY Grows
<1> QED
  BY <1>1, <1>4, <1>5, <1>6, <1>7 DEF Winner

LEMMA WinnerStep ==
    ASSUME IInv, Control, Waits, RacesAre, OrderlyStep, NEW l \in Loops, ThreadStep(l), Racings, Results, NEW r \in Tasks
    PROVE  Winner(r)'
<1>1. Winner(r) /\ won \in [Tasks -> Tasks \cup {NoTask}]
  BY DEF Results, IInv, RestOK
<1>2. CASE won'[r] = won[r]
  BY <1>1, <1>2, WinnerStays
<1>3. ASSUME NEW q \in RaceTasks, Instant(l, q), at[q] \in DOMAIN program.body[q], Done(Now(q).of), q = r
      PROVE  Winner(r)'
  <2>1. Now(q).do = "instant" /\ In(l, q) /\ Wins(q, Now(q).of) /\ at[q] <= Ending(q)
    BY <1>3 DEF Instant, Does, Ending
  <2>2. Now(q).of \in ToSet(List(q)) /\ Now(q) \in ToSet(program.body[q])
    BY <1>3, <2>1, InstantIs DEF Now, IInv, Inv, ToSet
  <2>3. Now(q) = Do("instant", Now(q).of)
    <3>1. program.body[q] \in Seq(Instruction)
      BY TaskAssumption DEF IInv, Inv, IsProgram, RaceTasks
    <3>2. Now(q) \in Instruction
      BY <1>3, <3>1 DEF Now
    <3> QED
      BY <2>1, <3>2 DEF Instruction, Do
  <2>4. Now(q).of \notin slept
    <3>1. Looks(q)
      BY DEF Racings
    <3> QED
      BY <1>3, <2>1, <3>1 DEF Looks, In, Done
  <2> QED
    BY <1>3, <2>1, <2>2, <2>3, <2>4, Won
<1>4. ASSUME NEW q \in RaceTasks, Choose(l, q), q = r PROVE Winner(r)'
  <2>1. In(l, r) /\ ~Done(r)
    BY <1>4 DEF Choose, Does, In, Done
  <2>2. PICK lucky \in SUBSET taken : Chooses(r, lucky)
    BY <1>4, Chosen
  <2>3. ASSUME NEW c \in ToSet(List(r)), Accepted(c, lucky), Wins(r, c) PROVE Winner(r)'
    <3>1. c \in program.rejected \ threw => c \in taken
      BY <2>3 DEF Accepted
    <3>2. c \in taken => Packed(r)
      BY <1>4, <2>1 DEF Racings, Keeps
    <3>3. Done(c)
      BY <2>3 DEF Accepted
    <3> QED
      BY <1>4, <2>1, <2>3, <3>1, <3>2, <3>3, Won
  <2> QED
    BY <1>2, <2>2, <2>3 DEF Chooses
<1>5. ASSUME NEW q \in RaceTasks, Instant(l, q) \/ Choose(l, q), q # r PROVE won'[r] = won[r]
  <2>1. CASE Instant(l, q)
    BY <1>1, <1>5, <2>1 DEF Instant, Wins, races
  <2>2. CASE Choose(l, q)
    <3>1. \E lucky \in SUBSET taken : Chooses(q, lucky)
      BY <2>2, Chosen DEF RaceTasks
    <3> QED
      BY <1>1, <1>5, <3>1 DEF Chooses, Wins
  <2> QED
    BY <1>5, <2>1, <2>2
<1> QED
  BY <1>2, <1>3, <1>4, <1>5, ResultMoves DEF ResultMove, Has

LEMMA TimesOutStep ==
    ASSUME IInv, Control, Waits, RacesAre, OrderlyStep, NEW l \in Loops, ThreadStep(l), Racings, Results, NEW r \in Tasks
    PROVE  TimesOut(r)'
<1>1. program' = program /\ List(r)' = List(r) /\ Timer(r)' = Timer(r)
  BY SteadyStep DEF OrderlyStep, Steady, List, Timer
<1>2. \A c \in Tasks : Done(c) => Done(c)'
  BY BodyAfter
<1>3. CASE r \notin timedout'
  BY <1>3 DEF TimesOut
<1>4. CASE r \in timedout
  BY <1>1, <1>2, <1>4 DEF Results, TimesOut
<1>5. ASSUME NEW q \in RaceTasks, Choose(l, q), r \notin timedout, r \in timedout' PROVE TimesOut(r)'
  <2>1. PICK lucky \in SUBSET taken : Chooses(q, lucky)
    BY <1>5, Chosen DEF RaceTasks
  <2>2. q = r /\ Now(r).do = "choose" /\ \A c \in ToSet(List(r)) : ~Accepted(c, lucky)
    BY <1>5, <2>1 DEF Chooses, Wins
  <2>3. In(l, r) /\ state[r] = "running" /\ ~Done(r) /\ r \in RaceTasks
    BY <1>5, <2>2 DEF Choose, Does, In, Done
  <2>4. RaceAt(r) /\ r \notin gone
    BY <2>3, TaskOnTop DEF RacesAre, In, IInv
  <2>5. at[r] = Parking(r) + 2 /\ Parking(r) \in Nat
    BY <2>2, <2>3, <2>4, RaceDoes DEF RaceAt, Do
  <2>6. state[Dummy(r)] = "done"
    BY <2>3, <2>4, <2>5 DEF RaceAt, RaceLives, DummyIs
  <2>7. PICK c \in ToSet(List(r)) \cup {Timer(r)} : c \in Tasks /\ Done(c)
    BY <2>3, <2>6 DEF Racings, Roused
  <2>8. c \in ToSet(List(r)) => c \in program.rejected
    BY <2>2, <2>3, <2>7 DEF Accepted, Racings, Keeps
  <2> QED
    BY <1>1, <1>2, <2>7, <2>8 DEF TimesOut
<1>6. ASSUME NEW q \in RaceTasks, Instant(l, q) PROVE timedout' = timedout
  BY <1>6 DEF Instant, Wins, races
<1> QED
  BY <1>3, <1>4, <1>5, <1>6, ResultMoves DEF ResultMove, Has

\* What a race returns, for every program whose results that move out have one taker.
ReturnsWell == TakenOnce(program) /\ Racings /\ Results

LEMMA ReturnsInit == Init /\ TakenOnce(program) => ReturnsWell
<1> SUFFICES ASSUME Init, TakenOnce(program) PROVE Racings /\ Results
  BY DEF ReturnsWell
<1>1. ASSUME NEW r \in RaceTasks PROVE Keeps(r) /\ Looks(r) /\ Roused(r)
  <2>1. Dummy(r) \in Tasks /\ r \in Tasks
    BY RaceOwns DEF Init
  <2> QED
    BY <2>1 DEF Init, Keeps, Looks, Roused
<1>2. ASSUME NEW t \in Tasks PROVE Moved(t) /\ Rested(t) /\ Hollow(t) /\ Winner(t) /\ TimesOut(t)
  BY DEF Init, Moved, Rested, Hollow, Winner, TimesOut
<1> QED
  BY <1>1, <1>2 DEF Racings, Results

LEMMA ReturnsStep == Sound /\ ReturnsWell /\ [Next]_vars /\ [OrderlyStep]_vars => ReturnsWell'
<1> SUFFICES ASSUME Sound, ReturnsWell, [Next]_vars, [OrderlyStep]_vars PROVE ReturnsWell'
  OBVIOUS
<1>1. CASE UNCHANGED vars
  <2>1. program' = program /\ UNCHANGED <<state, at, threw, slept, wrapper, won, timedout, taken, hollow>>
    BY <1>1 DEF vars, control, bodies, races, values
  <2>2. RaceTasks' = RaceTasks
    BY <2>1, SameRaces
  <2>3. ASSUME NEW r \in RaceTasks PROVE (Keeps(r) /\ Looks(r) /\ Roused(r))'
    <3>1. Keeps(r) /\ Looks(r) /\ Roused(r)
      BY DEF ReturnsWell, Racings
    <3> QED
      BY <2>1, <3>1 DEF Keeps, Looks, Roused, Done, Packed, List, Timer, Dummy, Ending, Now
  <2>4. ASSUME NEW t \in Tasks PROVE (Moved(t) /\ Rested(t) /\ Hollow(t) /\ Winner(t) /\ TimesOut(t))'
    <3>1. Moved(t) /\ Rested(t) /\ Hollow(t) /\ Winner(t) /\ TimesOut(t)
      BY DEF ReturnsWell, Results
    <3>2. Moved(t)'
      BY <2>1, <2>2, <3>1 DEF Moved, Took, List
    <3> QED
      BY <2>1, <2>2, <3>1, <3>2 DEF Rested, Hollow, Winner, TimesOut, Done, Packed, List, Timer
  <2> QED
    BY <2>1, <2>2, <2>3, <2>4 DEF ReturnsWell, Racings, Results, TakenOnce
<1>2. CASE Next /\ OrderlyStep
  <2>1. PICK l \in Loops : ThreadStep(l)
    BY <1>2 DEF Next
  <2>2. /\ IInv /\ Control /\ Waits /\ RacesAre /\ OrderlyStep
        /\ TakenOnce(program) /\ Racings /\ Results
    BY <1>2 DEF Sound, ReturnsWell
  <2>3. program' = program /\ RaceTasks' = RaceTasks
    BY <2>1, <2>2, SteadyStep, SameRaces DEF OrderlyStep, Steady
  <2>4. ASSUME NEW r \in RaceTasks PROVE (Keeps(r) /\ Looks(r) /\ Roused(r))'
    <3>1. Keeps(r) /\ Looks(r) /\ Roused(r) /\ \A c \in Tasks : Rested(c)
      BY <2>2 DEF Racings, Results
    <3> QED
      BY <2>1, <2>2, <3>1, KeepsStep, LooksStep, RousedStep
  <2>5. ASSUME NEW t \in Tasks PROVE (Moved(t) /\ Rested(t) /\ Hollow(t) /\ Winner(t) /\ TimesOut(t))'
    <3>1. Moved(t) /\ Rested(t)
      BY <2>2 DEF Results
    <3>2. Moved(t)' /\ Rested(t)'
      BY <2>1, <2>2, <3>1, MovedStep, RestedStep
    <3>3. Hollow(t)'
      BY <2>1, <2>2, HollowStep
    <3>4. Winner(t)' /\ TimesOut(t)'
      BY <2>1, <2>2, WinnerStep, TimesOutStep
    <3> QED
      BY <3>2, <3>3, <3>4
  <2> QED
    BY <2>2, <2>3, <2>4, <2>5 DEF ReturnsWell, Racings, Results
<1> QED
  BY <1>1, <1>2

\* A race returns the result of a task that has ended, whole and accepted, and throws race_timeout with
\* cause only: in a program that keeps the tasks in order, as above, where what moves out is awaited at
\* one place of a task, and nowhere if it is raced.
THEOREM RaceReturnsHolds == Spec /\ Orderly /\ TakenOnce(program) => []RaceReturns
<1>1. Init /\ TakenOnce(program) => ReturnsWell
  BY ReturnsInit
<1>2. Sound /\ ReturnsWell /\ [Next]_vars /\ [OrderlyStep]_vars => ReturnsWell'
  BY ReturnsStep
<1>3. Sound /\ ReturnsWell => RaceReturns
  <2> SUFFICES ASSUME Sound, Racings, Results, NEW r \in Tasks
               PROVE  /\ r \in hollow =>
                            \/ Packed(r) /\ won[r] \in program.moves
                            \/ \E c \in program.moves, q \in Tasks \ {r} :
                                  Do("await", c) \in ToSet(program.body[r]) \cap ToSet(program.body[q])
                      /\ won[r] # NoTask =>
                            /\ state[won[r]] = "done" /\ (won[r] \in threw => r \in threw)
                            /\ won[r] \in program.rejected \ threw =>
                                  \/ won[r] \in taken /\ Packed(r)
                                  \/ /\ won[r] \notin slept /\ r \notin slept
                                     /\ Do("instant", won[r]) \in ToSet(program.body[r])
                      /\ r \in timedout => \E c \in ToSet(List(r)) \cup {program.race[r].timer} :
                            c \in Tasks /\ Done(c) /\ (c = program.race[r].timer \/ c \in program.rejected)
    BY DEF ReturnsWell, RaceReturns
  <2>1. Hollow(r) /\ Winner(r) /\ TimesOut(r)
    BY DEF Results
  <2>2. r \in RaceTasks => r \notin slept
    BY DEF Racings, Looks
  <2> QED
    BY <2>1, <2>2 DEF Hollow, Winner, TimesOut, Timer
<1> QED
  BY <1>1, <1>2, <1>3, SoundHolds, PTL DEF Spec, Orderly
=============================================================================
