------------------------------- MODULE MCTask -------------------------------
\* Chains, gathers and races of a few tasks over two loops.
EXTENDS Task

CONSTANTS outer, middle, inner, other, dummy, timer, here, there

MCTasks == {outer, middle, inner, other, dummy, timer}
MCLoops == {here, there}

All(x) == [t \in MCTasks |-> x]
NoRace == [list |-> <<>>, dummy |-> NoTask, timer |-> NoTask]

Program == [home |-> All(here), root |-> outer, main |-> here, naps |-> {}, throws |-> {}, rejected |-> {}, moves |-> {inner},
            body |-> All(<<>>), race |-> All(NoRace), locals |-> All({}), temporaries |-> All({})]

Homes(f, s, t) == [All(here) EXCEPT ![outer] = f, ![middle] = s, ![inner] = t]

\* outer awaits middle, which awaits inner.
Chain(homes, throws) ==
    [Program EXCEPT !.home = homes, !.throws = throws, !.naps = {outer, middle, inner},
        !.body = [@ EXCEPT ![outer] = <<Do("await", middle)>>, ![middle] = <<Do("await", inner)>>],
        !.temporaries = [@ EXCEPT ![middle] = {middle}, ![inner] = {inner}]]

\* outer awaits a gather of inner and other.
Gather(homes, throws) ==
    [Program EXCEPT !.home = homes, !.throws = throws, !.naps = {inner, other},
        !.body = [@ EXCEPT ![outer] = <<Do("await", middle)>>, ![middle] = gather(<<inner, other>>)],
        !.temporaries = [@ EXCEPT ![middle] = {middle, inner, other}]]

\* outer starts some, and awaits a race of inner and other; it may go on after that.
RaceOf(before, list, time, container, naps, rejected, throws) ==
    [Program EXCEPT !.naps = naps, !.throws = throws, !.rejected = rejected,
        !.body = [@ EXCEPT ![outer] = before \o <<Do("await", middle)>>,
                           ![middle] = race(list, dummy, time, container),
                           ![timer] = <<Do("sleep", NoTask)>>],
        !.race = [@ EXCEPT ![middle] = [list |-> list, dummy |-> dummy, timer |-> time]],
        !.locals = [@ EXCEPT ![middle] = {dummy, timer}, ![outer] = IF container THEN ToSet(list) ELSE {}],
        !.temporaries = [@ EXCEPT ![middle] = IF container THEN {middle} ELSE {middle} \cup ToSet(list)]]

Both == <<inner, other>>
Races ==
    UNION {{ RaceOf(<<>>, Both, NoTask, container, {outer, inner, other}, {}, {}),
             RaceOf(<<>>, Both, timer, container, {outer, inner, other}, {inner}, {}),
             RaceOf(<<>>, Both, NoTask, container, {other}, {inner}, {}),
             RaceOf(<<>>, Both, timer, container, {outer, inner, other}, {}, {inner}),
             RaceOf(<<Do("start", inner)>>, Both, timer, container, {outer, inner, other}, {}, {}),
             RaceOf(<<Do("start", inner)>>, <<inner>>, timer, container, {inner}, {}, {}) }
           : container \in BOOLEAN}

\* Two tasks await one.
Shared == [Program EXCEPT !.naps = {inner},
    !.body = [@ EXCEPT ![outer] = gather(<<middle, other>>), ![middle] = <<Do("await", inner)>>,
                       ![other] = <<Do("await", inner)>>]]

AllHere == Homes(here, here, here)

MCPrograms == {Chain(Homes(f, s, t), {}) : f \in MCLoops, s \in MCLoops, t \in MCLoops}
                \cup {Chain(AllHere, {inner}), Chain(Homes(here, there, there), {inner}),
                      Gather(AllHere, {}), Gather(AllHere, {inner}), Shared}
                \cup Races
ASSUME MCTakenOnce == \A p \in MCPrograms : TakenOnce(p)

MCCross == {Chain(Homes(here, there, there), {})}
MCGatherCross == {Gather(Homes(here, here, there), {})}
=============================================================================
