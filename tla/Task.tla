-------------------------------- MODULE Task --------------------------------
(***************************************************************************)
(* covent::task: coroutines that belong to loops, and what happens when a  *)
(* task of one loop awaits a task of another; with gather() and race(),    *)
(* which are tasks themselves.                                             *)
(*                                                                         *)
(* A loop is a thread with a stack of coroutines: resume() pushes one, a   *)
(* suspension pops it, and symmetric transfer replaces the top.  Every     *)
(* co_await of a task runs in a small coroutine of its own, the wrapper,   *)
(* which is what the awaited task resumes when it ends, on the awaited     *)
(* task's thread; the wrapper then passes control to the awaiting task on  *)
(* that one's own loop, directly or through Loop::defer.                   *)
(***************************************************************************)
EXTENDS Integers, SequencesExt

CONSTANTS Tasks, Loops, NoTask,
          Programs    \* one of them in a behaviour

(* A program says of each task:                                            *)
(*   home      the loop it belongs to;                                     *)
(*   body      what it does, in order (see Bodies below);                  *)
(*   naps, throws  whether it may sleep once, whenever it likes, and       *)
(*             whether its body ends with an exception;                    *)
(*   moves     whether its result is of a type whose get() moves it out;   *)
(*   rejected  whether the predicate of a race rejects its value;          *)
(*   race      for a race: the tasks raced, the dummy and the timer;       *)
(*   locals, temporaries  the frames that are destroyed when its body is   *)
(*             left, and with the expression that awaits it;               *)
(* and which task is given to run_task(), on which loop.                   *)

Race == [list : Seq(Tasks), dummy : Tasks \cup {NoTask}, timer : Tasks \cup {NoTask}]
Raced(r) == (ToSet(r.list) \cup {r.timer, r.dummy}) \ {NoTask}

Instruction == [do : {"start", "await", "launch", "instant"}, of : Tasks]
                  \cup [do : {"sleep", "look", "attach", "detach", "choose"}, of : {NoTask}]

Do(what, c) == [do |-> what, of |-> c]

\* What race() does once all it races are started (see race() below).
AfterLaunch(dummy, timer) ==
    <<Do("attach", NoTask)>> \o (IF timer = NoTask THEN <<>> ELSE <<Do("start", timer)>>)
        \o <<Do("await", dummy), Do("detach", NoTask), Do("choose", NoTask)>>

\* The body of r is that of a race: it launches all it races, and has a dummy and a timer of its own,
\* which nobody else uses, and which are destroyed with it only.
IsRace(p, r) ==
    LET body == p.body[r]
        race == p.race[r]
        own == {race.dummy, race.timer} \ {NoTask}
    IN  /\ \E k \in DOMAIN body :
              /\ SubSeq(body, k, Len(body)) = AfterLaunch(race.dummy, race.timer)
              /\ \A i \in 1 .. k - 1 :
                    \/ body[i].do \in {"launch", "instant"} /\ body[i].of \in ToSet(race.list)
                    \/ body[i].do = "look"
              /\ \A i \in 1 .. k - 1 : body[i].do = "instant" => i > 1 /\ body[i - 1] = Do("launch", body[i].of)
              /\ \A c \in ToSet(race.list) : \E i \in 1 .. k - 1 : body[i] = Do("launch", c)
        /\ race.dummy # NoTask /\ p.body[race.dummy] = <<>>
        /\ race.timer # NoTask => p.body[race.timer] = <<Do("sleep", NoTask)>>
        /\ race.timer # race.dummy /\ own \cap (ToSet(race.list) \cup p.throws) = {}
        /\ ({r} \cup own) \cap p.naps = {} /\ r \notin Raced(race) /\ p.root \notin own
        /\ \A t \in Tasks \ {r} : /\ Raced(p.race[t]) \cap own = {}
                                  /\ \A i \in DOMAIN p.body[t] : p.body[t][i].of \notin own
        /\ own \subseteq p.locals[r]
        /\ \A t \in Tasks : /\ t = r \/ r \in p.locals[t] \/ p.locals[t] \cap own = {}
                            /\ r \in p.temporaries[t] \/ p.temporaries[t] \cap own = {}

IsProgram(p) ==
    /\ p.home \in [Tasks -> Loops] /\ p.root \in Tasks /\ p.main \in Loops
    /\ p.naps \subseteq Tasks /\ p.throws \subseteq Tasks /\ p.rejected \subseteq Tasks
    /\ p.moves \subseteq Tasks
    /\ p.body \in [Tasks -> Seq(Instruction)] /\ p.race \in [Tasks -> Race]
    /\ p.locals \in [Tasks -> SUBSET Tasks] /\ p.temporaries \in [Tasks -> SUBSET Tasks]
    \* What is raced is raced on one loop.
    /\ \A t \in Tasks : \A c \in Raced(p.race[t]) : p.home[c] = p.home[t]
    /\ \A t \in Tasks : \/ IsRace(p, t)
                        \/ \A i \in DOMAIN p.body[t] : p.body[t][i].do \in {"start", "await", "sleep"}

ASSUME TaskAssumption == NoTask \notin Tasks /\ \A p \in Programs : IsProgram(p)

VARIABLES program,
          stack,      \* stack[l]: the coroutines on the thread of l, the running one first
          deferred,   \* deferred[t]: pending deferred resumptions of t, on its own loop
          wrapper,    \* wrapper[t]: the wrapper of t's current co_await
          caught,     \* the tasks whose wrapper holds an exception
          state,      \* state[t]: where the body of t is
          at,         \* at[t]: which of its instructions it is at
          threw,      \* the tasks that have ended with an exception
          early,      \* the tasks that were resumed when their wrapper had not ended
          slept,      \* the tasks that have slept
          begun,      \* run_task() was called
          started,    \* promise.liveness: resume_handle() was taken for it on its loop
          parent,     \* promise.parent: the coroutine that goes on when this one ends
          won,        \* won[r]: the task whose result the race r returned
          timedout,   \* the races that threw race_timeout
          taken,      \* the tasks whose result was moved out of their promise
          hollow,     \* the tasks that got, or returned, what was left of such a result
          gone        \* the tasks whose frames are destroyed

control == <<stack, deferred, wrapper, caught>>
bodies == <<state, at, threw, early>>
values == <<taken, hollow>>
races == <<won, timedout, values, gone>>
vars == <<program, control, bodies, slept, begun, started, parent, races>>

None == <<"none", NoTask>>
Coroutines == {"task", "wrapper"} \X Tasks
States == {"created", "running", "asleep", "awaiting", "final", "done"}
Wrappers == {"none", "asking", "asked", "waiting", "delivering", "passing", "done"}

TypeOK == /\ program \in Programs
          /\ stack \in [Loops -> Seq(Coroutines)]
          /\ deferred \in [Tasks -> Nat]
          /\ wrapper \in [Tasks -> Wrappers]
          /\ state \in [Tasks -> States] /\ at \in [Tasks -> Nat]
          /\ parent \in [Tasks -> Coroutines \cup {None}]
          /\ won \in [Tasks -> Tasks \cup {NoTask}]
          /\ begun \in BOOLEAN
          /\ UNION {caught, threw, early, slept, started, timedout, taken, hollow, gone} \subseteq Tasks

Init == /\ program \in Programs
        /\ stack = [l \in Loops |-> <<>>]
        /\ deferred = [t \in Tasks |-> 0]
        /\ wrapper = [t \in Tasks |-> "none"] /\ caught = {}
        /\ state = [t \in Tasks |-> "created"] /\ at = [t \in Tasks |-> 1]
        /\ threw = {} /\ early = {} /\ slept = {} /\ started = {} /\ begun = FALSE
        /\ parent = [t \in Tasks |-> None]
        /\ won = [t \in Tasks |-> NoTask] /\ timedout = {} /\ taken = {} /\ hollow = {} /\ gone = {}

-----------------------------------------------------------------------------
(* Bodies.                                                                 *)

Each(what, list) == [i \in DOMAIN list |-> Do(what, list[i])]

gather(list) == Each("start", list) \o Each("await", list)

\* Both races start their tasks; a container's race looks at each at once, the other at all of them
\* when they are started.
Launch(list, container) ==
    IF container THEN FlattenSeq([i \in DOMAIN list |-> <<Do("launch", list[i]), Do("instant", list[i])>>])
                 ELSE Each("launch", list) \o <<Do("look", NoTask)>>

race(list, dummy, timer, container) ==
    Launch(list, container) \o AfterLaunch(dummy, timer)

-----------------------------------------------------------------------------
(* The threads.                                                            *)

\* t calls get() of the tasks cs, which are done, and keeps what it got of the task c, if any: an
\* exception stays where it is, a result may be moved out, and is hollow for those who come later.
Get(cs, c, before, t) ==
    /\ taken' = taken \cup ((cs \ threw) \cap program.moves)
    /\ hollow' = IF c \in before \ threw THEN hollow \cup {t} ELSE hollow

home(t) == program.home[t]
Running(l, kind, t) == stack[l] # <<>> /\ Head(stack[l]) = <<kind, t>>
Push(l, c) == stack' = [stack EXCEPT ![l] = <<c>> \o @]
Switch(l, c) == stack' = [stack EXCEPT ![l] = <<c>> \o Tail(@)]
Pop(l) == stack' = [stack EXCEPT ![l] = Tail(@)]
Defer(t) == deferred' = [deferred EXCEPT ![t] = @ + 1]

AnyLoop(l, t) == TRUE
same_loop(l, t) == home(t) = l

Done(t) == state[t] \in {"final", "done"}

Awaited(t) == program.body[t][at[t]].of

\* What t does when it is resumed: it starts, wakes up, or takes the result out of its wrapper, which
\* has to have ended; an exception found there, or thrown because it has not ended, leaves the body.
\* The temporaries of the co_await are destroyed, and the locals of a body that is left.  now is where
\* the bodies are, otherwise.
Resumed(t, now) ==
    LET awaited == state[t] = "awaiting"
        ready == wrapper'[t] = "done"
        throws == awaited /\ (t \in caught \/ ~ready)
    IN  /\ state' = [state EXCEPT ![t] = IF Done(t) THEN @ ELSE IF throws THEN "final" ELSE "running"]
        /\ at' = [now EXCEPT ![t] = IF awaited THEN @ + 1 ELSE @]
        /\ threw' = IF throws THEN threw \cup {t} ELSE threw
        /\ early' = IF awaited /\ ~ready THEN early \cup {t} ELSE early
        /\ gone' = gone \cup (IF awaited THEN program.temporaries[Awaited(t)] ELSE {})
                        \cup (IF throws THEN program.locals[t] ELSE {})

\* resume_handle(), and resuming what it returns: here, or deferred to the loop of t.
start(l, t, now) ==
    IF same_loop(l, t)
    THEN started' = started \cup {t} /\ Push(l, <<"task", t>>) /\ Resumed(t, now) /\ UNCHANGED deferred
    ELSE Defer(t) /\ at' = now /\ UNCHANGED <<started, stack, state, threw, early, gone>>

\* Loop::run_task(task) from the main function.
run_task(l) ==
    /\ program.main = l /\ ~begun /\ stack[l] = <<>>
    /\ begun' = TRUE
    /\ wrapper' = wrapper /\ start(l, program.root, at)
    /\ UNCHANGED <<program, caught, slept, parent, won, timedout, values>>

\* A deferred resumption runs on the task's loop, unless the frame has gone.
Alive(t) == t \notin gone

RunDeferred(l, t) ==
    /\ stack[l] = <<>> /\ home(t) = l /\ deferred[t] > 0
    /\ deferred' = [deferred EXCEPT ![t] = @ - 1]
    /\ wrapper' = wrapper
    /\ IF Alive(t)
       THEN started' = started \cup {t} /\ Push(l, <<"task", t>>) /\ Resumed(t, at)
       ELSE UNCHANGED <<started, stack, bodies, gone>>
    /\ UNCHANGED <<program, caught, slept, begun, parent, won, timedout, values>>

-----------------------------------------------------------------------------
(* The body of a task.                                                     *)

Now(t) == program.body[t][at[t]]
Forth(t, n) == [at EXCEPT ![t] = @ + n]

In(l, t) == Running(l, "task", t) /\ state[t] = "running"
Does(l, t, what) == In(l, t) /\ at[t] <= Len(program.body[t]) /\ Now(t).do = what

\* The body is left, with a value or an exception; done() holds from the final suspension on.
Leave(t, exception) ==
    /\ state' = [state EXCEPT ![t] = "final"]
    /\ threw' = IF exception THEN threw \cup {t} ELSE threw
    /\ gone' = gone \cup program.locals[t]
    /\ UNCHANGED <<at, early>>

Start(l, t, c) ==
    /\ Does(l, t, "start") \/ (Does(l, t, "launch") /\ c \notin started)
    /\ c = Now(t).of
    /\ wrapper' = wrapper /\ start(l, c, Forth(t, 1))
    /\ UNCHANGED <<program, caught, slept, begun, parent, won, timedout, values>>

Sleep(l, t) ==
    /\ Does(l, t, "sleep") \/ (In(l, t) /\ t \in program.naps \ slept)
    /\ state' = [state EXCEPT ![t] = "asleep"]
    /\ at' = IF Does(l, t, "sleep") THEN Forth(t, 1) ELSE at
    /\ slept' = slept \cup {t}
    /\ Defer(t) /\ Pop(l)
    /\ UNCHANGED <<program, wrapper, caught, threw, early, begun, started, parent, races>>

\* co_await: t is suspended and its wrapper runs instead.
Await(l, t) ==
    /\ Does(l, t, "await")
    /\ state' = [state EXCEPT ![t] = "awaiting"]
    /\ wrapper' = [wrapper EXCEPT ![t] = "asking"]
    /\ caught' = caught \ {t}
    /\ Switch(l, <<"wrapper", t>>)
    /\ UNCHANGED <<program, deferred, at, threw, early, slept, begun, started, parent, races>>

Return(l, t) ==
    /\ In(l, t) /\ at[t] > Len(program.body[t])
    /\ Leave(t, t \in program.throws)
    /\ UNCHANGED <<program, control, slept, begun, started, parent, won, timedout, values>>

\* The wrapper of t gets what c has, a result or an exception.
Takes(t, c) == Get({c}, c, taken, t) /\ caught' = IF c \in threw THEN caught \cup {t} ELSE caught

\* final_awaiter: the parent goes on, on this thread: a wrapper, or the dummy of a race.
EndsAnyway(l, c) == Switch(l, c) /\ UNCHANGED wrapper
Ends(l, c) == Pop(l) /\ UNCHANGED wrapper

Continue(l, c) ==
    CASE c[1] = "wrapper" -> /\ Switch(l, c) /\ wrapper' = [wrapper EXCEPT ![c[2]] = "delivering"]
      [] c[1] = "task" -> Switch(l, c) /\ UNCHANGED wrapper
      [] OTHER -> Ends(l, c)

FinalSuspend(l, t) ==
    /\ Running(l, "task", t) /\ state[t] = "final"
    /\ Continue(l, parent[t])
    /\ state' = [s \in Tasks |-> IF s = t THEN "done"
                                 ELSE IF parent[t] = <<"task", s>> /\ ~Done(s) THEN "running" ELSE state[s]]
    /\ IF parent[t][1] = "wrapper" THEN Takes(parent[t][2], t) ELSE UNCHANGED <<caught, values>>
    /\ UNCHANGED <<program, deferred, at, threw, early, slept, begun, started, parent, won, timedout, gone>>

-----------------------------------------------------------------------------
(* race().                                                                 *)

Other == UNCHANGED <<program, control, slept, begun>>

\* A task that is alive already is not started, and its end not looked at.
Skip(l, t) ==
    /\ Does(l, t, "launch") /\ Now(t).of \in started
    /\ at' = Forth(t, IF program.body[t][at[t] + 1].do = "instant" THEN 2 ELSE 1)
    /\ Other /\ UNCHANGED <<state, threw, early, started, parent, races>>

\* co_return c.get()
Wins(t, c) == /\ Leave(t, c \in threw)
              /\ won' = [won EXCEPT ![t] = c] /\ UNCHANGED timedout

Instant(l, t) ==
    /\ Does(l, t, "instant")
    /\ \/ Done(Now(t).of) /\ Wins(t, Now(t).of) /\ Get({Now(t).of}, Now(t).of, taken, t)
       \/ ~Done(Now(t).of) /\ at' = Forth(t, 1) /\ UNCHANGED <<state, threw, early, races>>
    /\ Other /\ UNCHANGED <<started, parent>>

List(t) == program.race[t].list

\* The dummy, which passes for started, becomes the parent of all and of the timer.
Attach(l, t, dummy) ==
    /\ Does(l, t, "attach") /\ dummy = program.race[t].dummy
    /\ at' = Forth(t, 1)
    /\ started' = started \cup {dummy}
    /\ parent' = [c \in Tasks |-> IF c \in ToSet(List(t)) \cup {program.race[t].timer}
                                  THEN <<"task", dummy>> ELSE parent[c]]
    /\ Other /\ UNCHANGED <<state, threw, early, races>>

StaysAttached(l, t) == Does(l, t, "detach") /\ at' = Forth(t, 1) /\ Other
                          /\ UNCHANGED <<state, threw, early, started, parent, races>>
Detach(l, t) ==
    /\ Does(l, t, "detach")
    /\ at' = Forth(t, 1)
    /\ parent' = [c \in Tasks |-> IF c \in ToSet(List(t)) THEN None ELSE parent[c]]
    /\ Other /\ UNCHANGED <<state, threw, early, started, races>>

\* The first of the list that is done, and whose value the predicate accepts, which of what is left
\* of a value that was moved out may think anything; get() throws the exception of one that has none.
\* Without any the race goes on, or is over.
AnyDone(c, lucky) == Done(c)
Accepted(c, lucky) ==
    Done(c) /\ (c \in threw \/ c \in lucky \/ c \notin program.rejected \cup taken)

\* The result of a winner is got once more in a race over parameters, after the predicate had it.
Packed(t) == \E i \in DOMAIN program.body[t] : program.body[t][i].do = "look"
TakenBefore(t) == IF Packed(t) THEN taken \cup program.moves ELSE taken

Choose(l, t) ==
    /\ Does(l, t, "look") \/ Does(l, t, "choose")
    /\ \E lucky \in SUBSET taken :
          LET n == SelectInSeq(List(t), LAMBDA c : Accepted(c, lucky))
              last == IF n = 0 THEN Len(List(t)) ELSE n
              winner == IF n = 0 THEN NoTask ELSE List(t)[n]
          IN  /\ Get({List(t)[i] : i \in {i \in 1 .. last : Done(List(t)[i])}}, winner, TakenBefore(t), t)
              /\ \/ n # 0 /\ Wins(t, winner)
                 \/ /\ n = 0 /\ Now(t).do = "look"
                    /\ at' = Forth(t, 1) /\ UNCHANGED <<state, threw, early, won, timedout, gone>>
                 \/ /\ n = 0 /\ Now(t).do = "choose"
                    /\ Leave(t, TRUE) /\ timedout' = timedout \cup {t} /\ UNCHANGED won
    /\ Other /\ UNCHANGED <<started, parent>>

-----------------------------------------------------------------------------
(* The wrapper: task_awaiter, then await_transformer_base::resume.         *)

InWrapper(l, t, now) == Running(l, "wrapper", t) /\ wrapper[t] = now
Wraps(t, now) == wrapper' = [wrapper EXCEPT ![t] = now]

\* await_ready(), and the first half of await_suspend(): the awaited task gets its parent, and may
\* only have one.
Ask(l, t) ==
    /\ InWrapper(l, t, "asking")
    /\ \/ Done(Awaited(t)) /\ Wraps(t, "delivering") /\ Takes(t, Awaited(t)) /\ UNCHANGED parent
       \/ /\ ~Done(Awaited(t)) /\ parent[Awaited(t)] = None
          /\ parent' = [parent EXCEPT ![Awaited(t)] = <<"wrapper", t>>]
          /\ Wraps(t, "asked") /\ UNCHANGED <<caught, values>>
       \/ /\ ~Done(Awaited(t)) /\ parent[Awaited(t)] # None
          /\ Wraps(t, "delivering") /\ caught' = caught \cup {t} /\ UNCHANGED <<parent, values>>
    /\ UNCHANGED <<program, stack, deferred, bodies, slept, begun, started, won, timedout, gone>>

\* Second half: a task that has ended meanwhile is not waited for, one that was started is left
\* alone, another is resumed here or on its own loop.
NeverLeftAlone(c) == FALSE
LeftAlone(c) == c \in started

AskAndResume(l, t, c) ==
    /\ InWrapper(l, t, "asked") /\ c = Awaited(t)
    /\ \/ /\ Done(c) /\ Wraps(t, "delivering") /\ Takes(t, c)
          /\ UNCHANGED <<stack, deferred, bodies, started, gone>>
       \/ /\ ~Done(c) /\ Wraps(t, "waiting") /\ UNCHANGED <<caught, values>>
          /\ \/ LeftAlone(c) /\ Pop(l) /\ UNCHANGED <<deferred, bodies, started, gone>>
             \/ /\ ~LeftAlone(c) /\ same_loop(l, c)
                /\ started' = started \cup {c}
                /\ Switch(l, <<"task", c>>) /\ Resumed(c, at)
                /\ UNCHANGED deferred
             \/ /\ ~LeftAlone(c) /\ ~same_loop(l, c)
                /\ Defer(c) /\ Pop(l) /\ UNCHANGED <<bodies, started, gone>>
    /\ UNCHANGED <<program, slept, begun, parent, won, timedout>>

\* The result is in the wrapper's hands: resume_handle() of the awaiting task defers the rest to
\* its loop if that is another one.
HandOverHere(l, t) == UNCHANGED deferred
HandOver(l, t) == IF same_loop(l, t) THEN UNCHANGED deferred ELSE Defer(t)

Deliver(l, t) ==
    /\ InWrapper(l, t, "delivering") /\ Wraps(t, "passing")
    /\ HandOver(l, t)
    /\ UNCHANGED <<program, stack, caught, bodies, slept, begun, started, parent, races>>

\* The wrapper reaches its own final suspension and transfers to the task, if on this loop.
BeforeItsEnd == "passing"
AtItsEnd == "done"

WrapperEnds(l, t) ==
    /\ InWrapper(l, t, "passing") /\ Wraps(t, AtItsEnd)
    /\ IF same_loop(l, t) THEN Switch(l, <<"task", t>>) /\ Resumed(t, at)
                          ELSE Pop(l) /\ UNCHANGED <<bodies, gone>>
    /\ UNCHANGED <<program, deferred, caught, slept, begun, started, parent, won, timedout, values>>

-----------------------------------------------------------------------------
ThreadStep(l) ==
    \/ run_task(l)
    \/ \E t \in Tasks :
          \/ RunDeferred(l, t) \/ Sleep(l, t) \/ Await(l, t) \/ Return(l, t) \/ FinalSuspend(l, t)
          \/ Skip(l, t) \/ Instant(l, t) \/ Detach(l, t) \/ Choose(l, t)
          \/ Ask(l, t) \/ Deliver(l, t) \/ WrapperEnds(l, t)
          \/ \E c \in Tasks : Start(l, t, c) \/ Attach(l, t, c) \/ AskAndResume(l, t, c)

Next == \E l \in Loops : ThreadStep(l)

Spec == Init /\ [][Next]_vars

\* Every loop runs: its thread goes on with its coroutine, and runs what is deferred to it.
FairSpec == Spec /\ \A l \in Loops : WF_vars(ThreadStep(l))

-----------------------------------------------------------------------------
(* Properties.                                                             *)

Frames(l) == ToSet(stack[l])

\* A task that nothing was done with yet.
Fresh(c) == c \notin started \cup gone /\ state[c] = "created" /\ deferred[c] = 0

OnStack(c) == \E l \in Loops : c \in Frames(l)
Asking(t) == state[t] = "awaiting" /\ OnStack(<<"wrapper", t>>)

\* A frame is in use if it or its wrapper runs, if a task that is not over would resume it, or while it
\* is being awaited.
InUse(t) == \/ OnStack(<<"task", t>>) \/ Asking(t)
            \/ \E c \in Tasks \ gone : state[c] # "done" /\ parent[c] \in {"task", "wrapper"} \X {t}
            \/ \E u \in Tasks : Asking(u) /\ Awaited(u) = t

\* A task is started once, and before it is awaited.
StartsOnce == \A l \in Loops, t, c \in Tasks : Start(l, t, c) => Fresh(c) /\ parent[c][1] # "wrapper"

\* What is awaited is there, and is over, was started on this loop, or is not begun with.
AwaitsKnown == \A l \in Loops, t \in Tasks : Ask(l, t) =>
                  /\ Awaited(t) \notin gone
                  /\ \/ Fresh(Awaited(t)) \/ Done(Awaited(t))
                     \/ Awaited(t) \in started /\ same_loop(l, Awaited(t))

\* A frame in use is not destroyed.
DestroysAtRest == \A t \in gone' \ gone : ~InUse(t)'

\* What the classes leave to the programs that use them, and what gather() and race() see to in their
\* own bodies: a race, above all, detaches the losers from its dummy before its frame goes.
OrderlyStep == StartsOnce /\ AwaitsKnown /\ DestroysAtRest
Orderly == [][OrderlyStep]_vars

\* What moves out is awaited at one place of a task, and nowhere if it is raced, by one race then.
TakenOnce(p) ==
    \A c \in p.moves, t \in Tasks :
        /\ \A i, j \in DOMAIN p.body[t] : p.body[t][i] = Do("await", c) /\ p.body[t][j] = Do("await", c) => i = j
        /\ \A r \in Tasks \ {t} : c \in ToSet(p.race[r].list) =>
              Do("await", c) \notin ToSet(p.body[t]) /\ c \notin ToSet(p.race[t].list)

\* The body of a task runs on the thread of its own loop only, whichever thread completed what it
\* awaited; a wrapper may run on either.
RunsAtHome == \A l \in Loops, t \in Tasks : <<"task", t>> \in Frames(l) => home(t) = l

\* Nothing is resumed twice, nor when it has ended or its frame has gone: a coroutine is on one stack
\* at most and there once, and a deferred resumption is for a task suspended at the very point it is
\* meant for.
ResumedOnce ==
    /\ \A l, m \in Loops : \A i \in DOMAIN stack[l], j \in DOMAIN stack[m] :
          stack[l][i] = stack[m][j] => l = m /\ i = j
    /\ \A l \in Loops, t \in Tasks : <<"task", t>> \in Frames(l) =>
          state[t] \in {"running", "final"} /\ t \notin gone
    /\ \A t \in Tasks \ gone : deferred[t] > 0 =>
          /\ deferred[t] = 1
          /\ \/ state[t] \in {"created", "asleep"}
             \/ state[t] = "awaiting" /\ wrapper[t] \in {"passing", "done"}

\* On one loop, a task that is resumed after co_await finds its wrapper ended: the result is there
\* ("coroutine not done yet" is never thrown), even when others of the chain are on other loops.
ResultIsReadyOnOneLoop ==
    \A t \in early : \E i \in DOMAIN program.body[t] :
        program.body[t][i].do = "await" /\ home(program.body[t][i].of) # home(t)

\* The same for every task: test/src/basic.cpp:76 takes the result of a task of another loop.
ResultIsReady == early = {}

\* What a race returns is the result of a task that has ended, whole, and one that the predicate
\* accepts, unless it ended as soon as it was started; and it throws race_timeout only when the timer
\* has ended, or a task whose result the predicate rejects.  (A race over parameters moves a result out
\* for the predicate and returns what is left of it; of two that await one task, the second has that.)
RaceReturns ==
    \A r \in Tasks :
        /\ r \in hollow =>
              \/ Packed(r) /\ won[r] \in program.moves
              \/ \E c \in program.moves, q \in Tasks \ {r} :
                    Do("await", c) \in ToSet(program.body[r]) \cap ToSet(program.body[q])
        /\ won[r] # NoTask =>
              /\ state[won[r]] = "done" /\ (won[r] \in threw => r \in threw)
              /\ won[r] \in program.rejected \ threw =>
                    \/ won[r] \in taken /\ Packed(r)
                    \/ /\ won[r] \notin slept /\ r \notin slept
                       /\ Do("instant", won[r]) \in ToSet(program.body[r])
        /\ r \in timedout => \E c \in ToSet(List(r)) \cup {program.race[r].timer} :
              c \in Tasks /\ Done(c) /\ (c = program.race[r].timer \/ c \in program.rejected)

\* What run_task() was given completes, and all its co_awaits with it.
RootCompletes == begun ~> state[program.root] = "done"
=============================================================================
