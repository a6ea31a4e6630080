---------------------------- MODULE ServerProofs -----------------------------
(***************************************************************************)
(* Proofs about Server, for any sites and any number of requests, and      *)
(* about Https, for any configuration and any number of connections.       *)
(***************************************************************************)
EXTENDS Https, SequenceFacts

Types == /\ visitors \in Sites /\ toAdd \in Seq(Endpoint)
         /\ path \in [Requests -> Seq(STRING)]
         /\ pre = [r \in Requests |-> pre[r]] /\ came = [r \in Requests |-> came[r]]
         /\ thrown \in [Requests -> Exceptions \cup {"nothing"}]
         /\ TypeOK

\* What has begun and has not ended is in m_in_flight; what runs has; requests come in order, so that a
\* coroutine that start() runs is the last there, the one that is popped.
Flight == /\ \A r \in Requests : (at[r] \notin {"none", "done"} => r \in in_flight)
                              /\ (r \in in_flight => at[r] # "none")
          /\ \A q, r \in Requests : q < r /\ at[r] # "none" => at[q] # "none"
          /\ running # 0 => at[running] \notin {"none", "done"}
          /\ starting => running \in in_flight /\ \A q \in in_flight : q <= running

\* There is no reply before a handler runs, nor while what was thrown is on its way.
Replies == \A r \in Requests : /\ at[r] \in {"none", "middleware", "caught"} => replies[r] = 0
                               /\ at[r] = "handler" => replies[r] <= 1
                               /\ at[r] = "done" => \/ replies[r] = 1
                                                    \/ replies[r] = 0 /\ thrown[r] = "other"

-----------------------------------------------------------------------------
LEMMA TypesInit == Init => Types
<1> SUFFICES ASSUME Init PROVE Types
  OBVIOUS
<1>1. /\ endpoints \in Seq(Endpoint) /\ toAdd \in Seq(Endpoint) /\ visitors \in Sites
      /\ path \in [Requests -> Seq(STRING)]
  BY ServerAssumption DEF Init
<1>2. /\ pre = [r \in Requests |-> pre[r]] /\ came = [r \in Requests |-> came[r]]
      /\ thrown \in [Requests -> Exceptions \cup {"nothing"}]
  BY DEF Init
<1>3. /\ at \in [Requests -> Places] /\ endpoint \in [Requests -> Nat]
      /\ naps \in [Requests -> 0 .. MaxNaps] /\ replies \in [Requests -> Nat]
      /\ in_flight \subseteq Requests /\ running \in Requests \cup {0}
  BY ServerAssumption DEF Init, Places
<1>4. starting \in BOOLEAN /\ (running = 0 => ~starting)
  BY DEF Init
<1>5. \A r \in Requests : at[r] \in {"middleware", "handler"} => endpoint[r] \in DOMAIN endpoints
  BY DEF Init
<1> QED
  BY <1>1, <1>2, <1>3, <1>4, <1>5, Zenon DEF Types, TypeOK

LEMMA EndpointsGrow ==
    ASSUME Types, AddEndpoint \/ AddMiddleware
    PROVE  /\ toAdd' \in Seq(Endpoint) /\ endpoints' \in Seq(Endpoint)
           /\ DOMAIN endpoints \subseteq DOMAIN endpoints'
           /\ \A i \in DOMAIN endpoints : endpoints'[i].template = endpoints[i].template
<1>1. CASE AddEndpoint
  <2>1. toAdd' \in Seq(Endpoint) /\ Head(toAdd) \in Endpoint
    BY <1>1 DEF AddEndpoint, Types
  <2> QED
    BY <1>1, <2>1 DEF AddEndpoint, Types, TypeOK
<1>2. CASE AddMiddleware
  <2>1. toAdd' \in Seq(Endpoint)
    BY <1>2 DEF AddMiddleware, Types
  <2>2. endpoints \in Seq(Endpoint) /\ 1 \in DOMAIN endpoints /\ endpoints[1] \in Endpoint
    BY <1>2 DEF AddMiddleware, Types, TypeOK
  <2>3. PICK e \in Endpoint : /\ endpoints' = [endpoints EXCEPT ![1] = e]
                             /\ e.template = endpoints[1].template
    <3> DEFINE new == [endpoints[1] EXCEPT !.middleware = @ + 1]
    <3>1. endpoints[1] = [template |-> endpoints[1].template, middleware |-> endpoints[1].middleware]
      BY <2>2 DEF Endpoint
    <3>2. new = [template |-> endpoints[1].template, middleware |-> endpoints[1].middleware + 1]
      BY <3>1
    <3>3. new \in Endpoint /\ new.template = endpoints[1].template
      BY <2>2, <3>2 DEF Endpoint
    <3>4. endpoints' = [endpoints EXCEPT ![1] = new]
      BY <1>2 DEF AddMiddleware
    <3> QED
      BY <3>3, <3>4
  <2>4. endpoints' \in Seq(Endpoint) /\ DOMAIN endpoints' = DOMAIN endpoints
    BY <2>2, <2>3
  <2> QED
    BY <2>1, <2>2, <2>3, <2>4
<1> QED
  BY <1>1, <1>2

LEMMA TypesStep == Types /\ [Next]_vars => Types'
<1> SUFFICES ASSUME Types, [Next]_vars PROVE Types'
  OBVIOUS
<1>1. CASE UNCHANGED vars
  BY <1>1 DEF vars, Types, TypeOK, site, request, tasks
<1>2. CASE AddEndpoint \/ AddMiddleware
  <2>1. UNCHANGED <<visitors, request, tasks>>
    BY <1>2 DEF AddEndpoint, AddMiddleware
  <2> QED
    BY <2>1, <1>2, EndpointsGrow DEF Types, TypeOK, request, tasks
<1>3. ASSUME NEW r \in Requests, request_handler(r)
      PROVE  Types'
  <2>1. path' \in [Requests -> Seq(STRING)]
    BY <1>3, ServerAssumption DEF request_handler, Types
  <2>2. /\ at' \in [Requests -> Places] /\ endpoint' \in [Requests -> Nat]
        /\ thrown' \in [Requests -> Exceptions \cup {"nothing"}]
        /\ came' = [q \in Requests |-> came'[q]]
        /\ \A q \in Requests : at'[q] \in {"middleware", "handler"} => endpoint'[q] \in DOMAIN endpoints
    <3>1. HasRoot => 1 \in DOMAIN endpoints
      BY DEF HasRoot, Types, TypeOK
    <3>2. came' = [q \in Requests |-> came'[q]]
      BY <1>3 DEF request_handler, Begins, Types
    <3>3. CASE HasRoot
      <4>1. /\ endpoint' = [endpoint EXCEPT ![r] = 1] /\ at' = [at EXCEPT ![r] = "middleware"]
            /\ UNCHANGED thrown
        BY <3>3, <1>3 DEF request_handler, Begins
      <4> QED
        BY <3>1, <3>2, <3>3, <4>1 DEF Places, Types, TypeOK
    <3>4. CASE ~HasRoot
      <4>1. /\ thrown' = [thrown EXCEPT ![r] = "runtime"] /\ at' = [at EXCEPT ![r] = "caught"]
            /\ endpoint' = endpoint
        BY <3>4, <1>3 DEF request_handler, Begins
      <4>2. "caught" \in Places /\ "runtime" \in Exceptions \cup {"nothing"}
        BY DEF Places, Exceptions
      <4>3. /\ thrown \in [Requests -> Exceptions \cup {"nothing"}] /\ at \in [Requests -> Places]
            /\ endpoint \in [Requests -> Nat]
            /\ \A q \in Requests : at[q] \in {"middleware", "handler"} => endpoint[q] \in DOMAIN endpoints
        BY DEF Types, TypeOK
      <4>4. at' \in [Requests -> Places] /\ endpoint' \in [Requests -> Nat]
        BY <4>1, <4>2, <4>3
      <4>5. thrown' \in [Requests -> Exceptions \cup {"nothing"}]
        BY <4>1, <4>2, <4>3
      <4>6. \A q \in Requests : at'[q] \in {"middleware", "handler"} => endpoint'[q] \in DOMAIN endpoints
        BY <4>1, <4>3
      <4> QED
        BY <3>2, <4>4, <4>5, <4>6
    <3> QED
      BY <3>3, <3>4
  <2>3. in_flight' \subseteq Requests /\ running' = r /\ starting' = TRUE /\ r # 0
    BY <1>3, ServerAssumption DEF request_handler, StillThere, Requests, Types, TypeOK
  <2>4. UNCHANGED <<site, pre, naps, replies, passed>>
    BY <1>3 DEF request_handler
  <2>5. TypeOK'
    BY <2>2, <2>3, <2>4 DEF Types, TypeOK, site
  <2> QED
    BY <2>1, <2>2, <2>4, <2>5 DEF Types, site
<1>4. ASSUME NEW r \in Requests, Suspend(r)
      PROVE  Types'
  <2>1. naps' \in [Requests -> 0 .. MaxNaps]
    BY <1>4, ServerAssumption DEF Suspend, Types, TypeOK
  <2>2. in_flight' = in_flight /\ running' = 0 /\ starting' = FALSE
    BY <1>4 DEF Suspend, SuspendedKept
  <2>3. UNCHANGED <<site, path, at, endpoint, pre, thrown, replies, came, passed>>
    BY <1>4 DEF Suspend
  <2> QED
    BY <2>1, <2>2, <2>3 DEF Types, TypeOK, site
<1>5. ASSUME NEW r \in Requests, Resume(r)
      PROVE  Types'
  BY <1>5, ServerAssumption DEF Resume, Requests, Types, TypeOK, site, request
<1>6. ASSUME NEW r \in Requests, Middleware(r)
      PROVE  Types'
  BY <1>6 DEF Types, TypeOK, site, tasks, Middleware, Throw, Exceptions, Places
<1>7. ASSUME NEW r \in Requests, Route(r)
      PROVE  Types'
  <2> DEFINE Fine == /\ at' \in [Requests -> Places] /\ endpoint' \in [Requests -> Nat]
                     /\ thrown' \in [Requests -> Exceptions \cup {"nothing"}]
                     /\ pre' = [q \in Requests |-> pre'[q]]
                     /\ \A q \in Requests : at'[q] \in {"middleware", "handler"} =>
                                              endpoint'[q] \in DOMAIN endpoints
  <2>1. Fine
    <3>1. CASE Chosen(r) = {} /\ Throw(r, "status") /\ UNCHANGED <<endpoint, pre>>
      BY <3>1 DEF Throw, Exceptions, Places, Types, TypeOK
    <3>2. ASSUME NEW to \in Chosen(r),
                 pre' = [pre EXCEPT ![r] = Bound(Template(to), path[r], @)],
                 endpoint' = [endpoint EXCEPT ![r] = to],
                 at' = [at EXCEPT ![r] = Onwards(r, to)], UNCHANGED thrown
          PROVE  Fine
      <4>1. to \in DOMAIN endpoints /\ to \in Nat
        BY <1>7 DEF Route, Runs, Chosen, Candidates, Types, TypeOK
      <4> QED
        BY <3>2, <4>1 DEF Onwards, Places, Types, TypeOK
    <3> QED
      BY <1>7, <3>1, <3>2 DEF Route
  <2>2. UNCHANGED <<site, path, naps, replies, came, passed, tasks>>
    BY <1>7 DEF Route
  <2> QED
    BY <2>1, <2>2 DEF Types, TypeOK, site, tasks
<1>8. ASSUME NEW r \in Requests, Reply(r)
      PROVE  Types'
  BY <1>8 DEF Types, TypeOK, site, tasks, Reply
<1>9. ASSUME NEW r \in Requests, HandlerThrows(r)
      PROVE  Types'
  BY <1>9 DEF Types, TypeOK, site, tasks, HandlerThrows, Throw, Exceptions, Places
<1>10. ASSUME NEW r \in Requests, HandlerReturns(r)
      PROVE  Types'
  <2>1. CASE Throw(r, "runtime") /\ UNCHANGED tasks
    BY <2>1, <1>10 DEF HandlerReturns, Throw, Exceptions, Places, Types, TypeOK, site, tasks
  <2>2. CASE Ends(r) /\ UNCHANGED thrown
    BY <2>2, <1>10 DEF HandlerReturns, Ends, DonePopped, Places, Types, TypeOK, site
  <2> QED
    BY <1>10, <2>1, <2>2 DEF HandlerReturns
<1>11. ASSUME NEW r \in Requests, Catch(r)
      PROVE  Types'
  <2>1. /\ at' \in [Requests -> Places] /\ replies' \in [Requests -> Nat]
        /\ \A q \in Requests : at'[q] \in {"middleware", "handler"} => at[q] = at'[q]
    BY <1>11 DEF Catch, Ends, Places, Types, TypeOK
  <2>2. in_flight' \subseteq Requests /\ running' = 0 /\ starting' = FALSE
    BY <1>11 DEF Catch, Ends, DonePopped, Types, TypeOK
  <2>3. UNCHANGED <<site, path, endpoint, pre, thrown, naps, came, passed>>
    BY <1>11 DEF Catch
  <2> QED
    BY <2>1, <2>2, <2>3 DEF Types, TypeOK, site
<1> QED
  BY <1>1, <1>2, <1>3, <1>4, <1>5, <1>6, <1>7, <1>8, <1>9, <1>10, <1>11
     DEF Next, Arrives, Works, Goes

\* Server is type-correct for any sites.
THEOREM TypeOKHolds == Spec => []TypeOK
<1>1. Types => TypeOK
  BY DEF Types
<1> QED
  BY TypesInit, TypesStep, <1>1, PTL DEF Spec

-----------------------------------------------------------------------------
LEMMA FlightStep == Types /\ Flight /\ [Next]_vars => Flight'
<1> SUFFICES ASSUME Types, Flight, [Next]_vars PROVE Flight'
  OBVIOUS
<1> DEFINE Goers == {"middleware", "handler", "caught"}
<1>T. /\ at \in [Requests -> Places] /\ in_flight \subseteq Requests /\ running \in Requests \cup {0}
      /\ Requests \subseteq Nat /\ 0 \notin Requests
  BY ServerAssumption DEF Types, TypeOK, Requests
\* Where nothing but the place of the running request changes, and it goes on running.
<1>S. ASSUME UNCHANGED tasks, NEW r \in Requests, at[r] \in Goers, NEW place \in Goers,
             at' = [at EXCEPT ![r] = place] \/ at' = at
      PROVE  Flight'
  BY <1>S, <1>T DEF Flight, tasks
<1>1. CASE UNCHANGED vars
  BY <1>1 DEF vars, request, tasks, Flight
<1>2. CASE AddEndpoint \/ AddMiddleware
  BY <1>2 DEF AddEndpoint, AddMiddleware, request, tasks, Flight
<1>3. ASSUME NEW r \in Requests, request_handler(r)
      PROVE  Flight'
  <2>1. at[r] = "none" /\ \A q \in Requests : q < r => at[q] # "none"
    BY <1>3 DEF request_handler, InTurn
  <2>2. at' = [at EXCEPT ![r] = "middleware"] \/ at' = [at EXCEPT ![r] = "caught"]
    BY <1>3 DEF request_handler, Begins
  <2>3. /\ in_flight' = {q \in in_flight : at[q] # "done"} \cup {r} /\ running' = r /\ starting' = TRUE
    BY <1>3 DEF request_handler, StillThere
  <2> QED
    <3>1. \A q \in in_flight : q <= r
      BY <2>1, <1>T DEF Flight
    <3> QED
      BY <2>1, <2>2, <2>3, <3>1, <1>T DEF Flight
<1>4. ASSUME NEW r \in Requests, Suspend(r)
      PROVE  Flight'
  BY <1>4, <1>T DEF Suspend, SuspendedKept, Flight
<1>5. ASSUME NEW r \in Requests, Resume(r)
      PROVE  Flight'
  BY <1>5, <1>T DEF Resume, Flight, request
<1>6. ASSUME NEW r \in Requests, Middleware(r)
      PROVE  Flight'
  BY <1>6, <1>S DEF Middleware, Runs, Throw
<1>7. ASSUME NEW r \in Requests, Route(r)
      PROVE  Flight'
  BY <1>7, <1>S DEF Route, Runs, Onwards, Throw
<1>8. ASSUME NEW r \in Requests, Reply(r)
      PROVE  Flight'
  BY <1>8, <1>S DEF Reply, Runs
<1>9. ASSUME NEW r \in Requests, HandlerThrows(r)
      PROVE  Flight'
  BY <1>9, <1>S DEF HandlerThrows, Runs, Throw
\* A coroutine that ends: if start() runs it, it is the one that is popped.
<1>E. ASSUME NEW r \in Requests, running = r, at[r] \in Goers, Ends(r)
      PROVE  Flight'
  <2>1. CASE starting
    <3>1. r \in in_flight /\ \A q \in in_flight : r >= q
      BY <2>1, <1>E, <1>T DEF Flight
    <3>2. Max(in_flight) \in in_flight /\ \A q \in in_flight : Max(in_flight) >= q
      BY <3>1, Zenon DEF Max
    <3>3. Max(in_flight) = r
      <4>1. r \in Nat /\ Max(in_flight) \in Nat /\ r >= Max(in_flight) /\ Max(in_flight) >= r
        BY <3>1, <3>2, <1>E, <1>T
      <4> QED
        BY <4>1
    <3> QED
      BY <2>1, <3>3, <1>E, <1>T DEF Ends, DonePopped, Flight
  <2>2. CASE ~starting
    BY <2>2, <1>E, <1>T DEF Ends, DonePopped, Flight
  <2> QED
    BY <2>1, <2>2
<1>10. ASSUME NEW r \in Requests, HandlerReturns(r)
      PROVE  Flight'
  BY <1>10, <1>S, <1>E DEF HandlerReturns, Runs, Throw
<1>11. ASSUME NEW r \in Requests, Catch(r)
      PROVE  Flight'
  BY <1>11, <1>E DEF Catch, Runs
<1> QED
  BY <1>1, <1>2, <1>3, <1>4, <1>5, <1>6, <1>7, <1>8, <1>9, <1>10, <1>11
     DEF Next, Arrives, Works, Goes

\* The coroutine of a request exists until it is done, however the popping and erasing of tasks falls
\* among the requests.
THEOREM NothingDroppedHolds == Spec => []NothingDropped
<1>1. Init => Flight
  BY DEF Init, Flight
<1>2. Flight => NothingDropped
  BY DEF Flight, NothingDropped
<1> QED
  BY TypesInit, TypesStep, FlightStep, <1>1, <1>2, PTL DEF Spec

-----------------------------------------------------------------------------
LEMMA RepliesStep == Types /\ Replies /\ [Next]_vars => Replies'
<1> SUFFICES ASSUME Types, Replies, [Next]_vars PROVE Replies'
  OBVIOUS
<1>T. /\ at \in [Requests -> Places] /\ replies \in [Requests -> Nat]
      /\ thrown \in [Requests -> Exceptions \cup {"nothing"}]
  BY DEF Types, TypeOK
<1>1. CASE UNCHANGED vars
  BY <1>1 DEF vars, request, Replies
<1>2. CASE AddEndpoint \/ AddMiddleware
  BY <1>2 DEF AddEndpoint, AddMiddleware, request, Replies
<1>3. ASSUME NEW r \in Requests, request_handler(r)
      PROVE  Replies'
  BY <1>3, <1>T DEF request_handler, Begins, Replies
<1>4. ASSUME NEW r \in Requests, Suspend(r) \/ Resume(r)
      PROVE  Replies'
  BY <1>4 DEF Suspend, Resume, request, Replies
<1>6. ASSUME NEW r \in Requests, Middleware(r)
      PROVE  Replies'
  BY <1>6, <1>T DEF Middleware, Runs, Throw, Replies
<1>7. ASSUME NEW r \in Requests, Route(r)
      PROVE  Replies'
  BY <1>7, <1>T DEF Route, Runs, Onwards, Throw, Replies
<1>8. ASSUME NEW r \in Requests, Reply(r)
      PROVE  Replies'
  BY <1>8, <1>T DEF Reply, Runs, Replies
<1>9. ASSUME NEW r \in Requests, HandlerThrows(r)
      PROVE  Replies'
  BY <1>9, <1>T DEF HandlerThrows, Runs, Throw, Replies
<1>10. ASSUME NEW r \in Requests, HandlerReturns(r)
      PROVE  Replies'
  BY <1>10, <1>T DEF HandlerReturns, Unanswered, Ends, Runs, Throw, Replies
<1>11. ASSUME NEW r \in Requests, Catch(r)
      PROVE  Replies'
  BY <1>11, <1>T DEF Catch, Ends, Runs, Replies
<1> QED
  BY <1>1, <1>2, <1>3, <1>4, <1>6, <1>7, <1>8, <1>9, <1>10, <1>11
     DEF Next, Arrives, Works, Goes

\* There is one reply, whoever threw or returned what.
THEOREM AnsweredOnceHolds == Spec => []AnsweredOnce
<1>1. Init => Replies
  BY DEF Init, Replies
<1>2. Types /\ Replies => AnsweredOnce
  <2> SUFFICES ASSUME at \in [Requests -> Places], Replies PROVE AnsweredOnce
    BY DEF Types, TypeOK
  <2> QED
    BY DEF Replies, AnsweredOnce, Places
<1> QED
  BY TypesInit, TypesStep, RepliesStep, <1>1, <1>2, PTL DEF Spec

-----------------------------------------------------------------------------
(* Middleware.                                                             *)

\* n times the root's middleware in its order, and then m times that of e.
Way(n, m, e) == [k \in 1 .. n + m |-> IF k <= n THEN <<1, k>> ELSE <<e, k - n>>]

\* Where a request is on its way: it is through with the root's middleware when it is at another endpoint,
\* the middleware of which never changes.
OnItsWay(r, n, m) ==
    /\ passed[r] = Way(n, m, endpoint[r])
    /\ IF endpoint[r] = 1
       THEN m = 0 /\ came[r] <= (IF at[r] = "handler" THEN n ELSE endpoints[1].middleware)
       ELSE /\ came[r] <= n /\ m <= endpoints[endpoint[r]].middleware
            /\ at[r] = "handler" => m = endpoints[endpoint[r]].middleware

Passing == /\ came \in [Requests -> Nat] /\ passed = [r \in Requests |-> passed[r]]
           /\ \A r \in Requests : /\ at[r] = "none" => passed[r] = <<>>
                                  /\ at[r] \in {"middleware", "handler"} => \E n, m \in Nat : OnItsWay(r, n, m)

LEMMA Counts ==
    ASSUME NEW n \in Nat, NEW m \in Nat, NEW e \in Nat, e = 1 => m = 0, NEW i \in {1, e},
           NEW way, way = Way(n, m, e)
    PROVE  Cardinality({k \in DOMAIN way : way[k][1] = i}) = IF i = 1 THEN n ELSE m
<1>1. CASE i = 1
  <2>1. {k \in DOMAIN way : way[k][1] = i} = 1 .. n
    BY <1>1 DEF Way
  <2>2. Cardinality(1 .. n) = n
    BY FS_Interval
  <2> QED
    BY <1>1, <2>1, <2>2
<1>2. CASE i # 1
  <2>1. {k \in DOMAIN way : way[k][1] = i} = n + 1 .. n + m
    BY <1>2 DEF Way
  <2>2. Cardinality(n + 1 .. n + m) = m
    BY FS_Interval
  <2> QED
    BY <1>2, <2>1, <2>2
<1> QED
  BY <1>1, <1>2

\* One step further on a way, of the root's middleware or of that of the endpoint.
LEMMA Further ==
    ASSUME NEW n \in Nat, NEW m \in Nat, NEW e \in Nat
    PROVE  /\ Append(Way(n, 0, 1), <<1, n + 1>>) = Way(n + 1, 0, 1)
           /\ Append(Way(n, m, e), <<e, m + 1>>) = Way(n, m + 1, e)
<1> DEFINE steps == Nat \X Nat
<1>1. ASSUME NEW i \in Nat, NEW j \in Nat, NEW k \in Nat
      PROVE  Way(i, j, k) \in Seq(steps) /\ Len(Way(i, j, k)) = i + j
  BY DEF Way
<1>2. ASSUME NEW way \in Seq(steps), NEW longer \in Seq(steps), NEW step \in steps,
             Len(longer) = Len(way) + 1, longer[Len(longer)] = step,
             \A o \in 1 .. Len(way) : longer[o] = way[o]
      PROVE  Append(way, step) = longer
  <2>1. /\ Append(way, step) \in Seq(steps) /\ Len(Append(way, step)) = Len(longer)
        /\ \A o \in 1 .. Len(way) : Append(way, step)[o] = way[o]
        /\ Append(way, step)[Len(way) + 1] = step
    BY <1>2, AppendProperties
  <2>2. \A o \in 1 .. Len(longer) : Append(way, step)[o] = longer[o]
    <3>1. Len(way) \in Nat
      OBVIOUS
    <3>2. \A o \in 1 .. Len(longer) : o \in 1 .. Len(way) \/ o = Len(way) + 1
      BY <1>2, <3>1
    <3> QED
      BY <1>2, <2>1, <3>2
  <2>3. Append(way, step) \in Seq(steps) /\ Len(Append(way, step)) = Len(longer)
    BY <2>1
  <2> HIDE DEF steps
  <2> QED
    BY <2>2, <2>3, SeqEqual, Zenon
<1>3. Append(Way(n, 0, 1), <<1, n + 1>>) = Way(n + 1, 0, 1)
  <2>1. Way(n, 0, 1) \in Seq(steps) /\ Len(Way(n, 0, 1)) = n /\ Way(n + 1, 0, 1) \in Seq(steps) /\ Len(Way(n + 1, 0, 1)) = n + 1
    <3> HIDE DEF steps
    <3>1. Way(n, 0, 1) \in Seq(steps) /\ Len(Way(n, 0, 1)) = n + 0
      BY <1>1
    <3>2. Way(n + 1, 0, 1) \in Seq(steps) /\ Len(Way(n + 1, 0, 1)) = n + 1 + 0
      BY <1>1
    <3> QED
      BY <3>1, <3>2
  <2>2. <<1, n + 1>> \in steps
    OBVIOUS
  <2>3. ASSUME NEW o \in 1 .. n PROVE Way(n + 1, 0, 1)[o] = Way(n, 0, 1)[o]
    BY DEF Way
  <2>4. Way(n + 1, 0, 1)[n + 1] = <<1, n + 1>>
    BY DEF Way
  <2> HIDE DEF steps
  <2> QED
    BY <1>2, <2>1, <2>2, <2>3, <2>4
<1>4. Append(Way(n, m, e), <<e, m + 1>>) = Way(n, m + 1, e)
  <2>1. Way(n, m, e) \in Seq(steps) /\ Len(Way(n, m, e)) = n + m /\ Way(n, m + 1, e) \in Seq(steps) /\ Len(Way(n, m + 1, e)) = n + m + 1
    <3> HIDE DEF steps
    <3>1. Way(n, m, e) \in Seq(steps) /\ Len(Way(n, m, e)) = n + m
      BY <1>1
    <3>2. Way(n, m + 1, e) \in Seq(steps) /\ Len(Way(n, m + 1, e)) = n + (m + 1)
      BY <1>1
    <3> QED
      BY <3>1, <3>2
  <2>2. <<e, m + 1>> \in steps
    OBVIOUS
  <2>3. ASSUME NEW o \in 1 .. n + m PROVE Way(n, m + 1, e)[o] = Way(n, m, e)[o]
    BY DEF Way
  <2>4. Way(n, m + 1, e)[n + m + 1] = <<e, m + 1>>
    BY DEF Way
  <2> HIDE DEF steps
  <2> QED
    BY <1>2, <2>1, <2>2, <2>3, <2>4
<1> QED
  BY <1>3, <1>4

LEMMA PassedOnItsWay ==
    ASSUME Types, NEW r \in Requests, NEW n \in Nat, NEW m \in Nat, OnItsWay(r, n, m)
    PROVE  /\ PassedOf(r, 1) = n
           /\ endpoint[r] # 1 => PassedOf(r, endpoint[r]) = m
           /\ PassedHere(r) = IF endpoint[r] = 1 THEN n ELSE m
<1>1. passed[r] = Way(n, m, endpoint[r]) /\ (endpoint[r] = 1 => m = 0) /\ endpoint[r] \in Nat
  BY DEF OnItsWay, Types, TypeOK
<1> QED
  BY <1>1, Counts DEF PassedOf, PassedHere

LEMMA PassingRoute ==
    ASSUME Types, Passing, NEW r \in Requests, Route(r), NEW n \in Nat, NEW m \in Nat, OnItsWay(r, n, m),
           at'[r] \in {"middleware", "handler"}
    PROVE  OnItsWay(r, n, m)'
<1>1. at[r] = "middleware" /\ ~MoreMiddleware(r) /\ UNCHANGED <<came, passed, endpoints>>
  BY DEF Route, Runs, site
<1>2. /\ at \in [Requests -> Places] /\ endpoint \in [Requests -> Nat] /\ endpoints \in Seq(Endpoint)
      /\ endpoint[r] \in DOMAIN endpoints /\ came[r] \in Nat
  BY <1>1 DEF Types, TypeOK, Passing
<1>3. \A i \in DOMAIN endpoints : endpoints[i].middleware \in Nat
  <2>1. \A i \in DOMAIN endpoints : endpoints[i] \in Endpoint
    BY <1>2
  <2> QED
    BY <2>1 DEF Endpoint
<1>4. PICK to \in Chosen(r) : endpoint' = [endpoint EXCEPT ![r] = to] /\ at' = [at EXCEPT ![r] = Onwards(r, to)]
  BY <1>2 DEF Route, Throw
<1>5. endpoint'[r] = to /\ at'[r] = Onwards(r, to)
  BY <1>2, <1>4
<1>6. endpoints[endpoint[r]].middleware <= (IF endpoint[r] = 1 THEN n ELSE m)
  BY <1>1, <1>2, <1>3, PassedOnItsWay DEF MoreMiddleware
<1>7. CASE to = endpoint[r]
  <2>1. endpoint'[r] = endpoint[r] /\ at'[r] = "handler"
    BY <1>5, <1>7 DEF Onwards
  <2> QED
    BY <1>1, <1>2, <1>3, <1>6, <2>1 DEF OnItsWay
<1>8. CASE to # endpoint[r]
  <2>1. to \in DOMAIN endpoints /\ to # 1 /\ endpoint[r] = 1 /\ at'[r] = "middleware"
    BY <1>4, <1>5, <1>8 DEF Chosen, Candidates, Onwards
  <2>2. m = 0 /\ came[r] <= n
    BY <1>1, <1>2, <1>3, <1>6, <2>1 DEF OnItsWay
  <2>3. passed[r] = Way(n, m, to)
    BY <2>1, <2>2 DEF OnItsWay, Way
  <2> QED
    BY <1>1, <1>3, <1>5, <2>1, <2>2, <2>3 DEF OnItsWay
<1> QED
  BY <1>7, <1>8

LEMMA PassingMiddleware ==
    ASSUME Types, Passing, NEW r \in Requests, Middleware(r), at'[r] = "middleware"
    PROVE  \E n, m \in Nat : OnItsWay(r, n, m)'
<1>1. at[r] = "middleware" /\ MoreMiddleware(r) /\ UNCHANGED <<came, endpoints, endpoint>>
  BY DEF Middleware, Runs, site
<1>2. /\ at \in [Requests -> Places] /\ endpoint \in [Requests -> Nat] /\ endpoints \in Seq(Endpoint)
      /\ endpoint[r] \in DOMAIN endpoints /\ came[r] \in Nat /\ passed = [q \in Requests |-> passed[q]]
  BY <1>1 DEF Types, TypeOK, Passing
<1>3. endpoints[endpoint[r]].middleware \in Nat
  <2>1. endpoints[endpoint[r]] \in Endpoint
    BY <1>2
  <2> QED
    BY <2>1 DEF Endpoint
<1>4. PICK n \in Nat, m \in Nat : OnItsWay(r, n, m)
  BY <1>1 DEF Passing
<1>5. passed'[r] = Append(passed[r], <<endpoint[r], PassedHere(r) + 1>>)
  BY <1>2 DEF Middleware, Throw
<1>6. CASE endpoint[r] = 1
  <2>1. PassedHere(r) = n /\ m = 0
    BY <1>4, <1>6, PassedOnItsWay DEF OnItsWay
  <2>2. passed'[r] = Way(n + 1, 0, 1)
    BY <1>4, <1>5, <1>6, <2>1, Further DEF OnItsWay
  <2>3. OnItsWay(r, n + 1, 0)'
    BY <1>1, <1>4, <1>6, <2>2 DEF OnItsWay
  <2> QED
    BY <2>3
<1>7. CASE endpoint[r] # 1
  <2>1. PassedHere(r) = m /\ m < endpoints[endpoint[r]].middleware
    BY <1>1, <1>4, <1>7, PassedOnItsWay DEF MoreMiddleware
  <2>2. passed'[r] = Way(n, m + 1, endpoint[r])
    <3>1. passed[r] = Way(n, m, endpoint[r]) /\ endpoint[r] \in Nat
      BY <1>2, <1>4 DEF OnItsWay
    <3>2. passed'[r] = Append(Way(n, m, endpoint[r]), <<endpoint[r], m + 1>>)
      BY <1>5, <2>1, <3>1
    <3> QED
      BY <3>1, <3>2, Further
  <2>3. OnItsWay(r, n, m + 1)'
    BY <1>1, <1>3, <1>4, <1>7, <2>1, <2>2 DEF OnItsWay
  <2> QED
    BY <2>3
<1> QED
  BY <1>6, <1>7

LEMMA PassingStep == Types /\ Passing /\ [Next]_vars => Passing'
<1> SUFFICES ASSUME Types, Passing, [Next]_vars PROVE Passing'
  OBVIOUS
<1>T. /\ at \in [Requests -> Places] /\ endpoint \in [Requests -> Nat] /\ endpoints \in Seq(Endpoint)
      /\ passed = [q \in Requests |-> passed[q]] /\ came \in [Requests -> Nat]
  BY DEF Types, TypeOK, Passing
\* Where one request goes to a place that is no claim, or nobody goes anywhere.
<1>S. ASSUME NEW r \in Requests, UNCHANGED <<endpoints, endpoint, came, passed>>,
             NEW place \in {"caught", "done"}, at' = [at EXCEPT ![r] = place] \/ at' = at
      PROVE  Passing'
  <2>1. \A q \in Requests : /\ at'[q] = "none" => at[q] = "none"
                            /\ at'[q] \in {"middleware", "handler"} => at'[q] = at[q]
    BY <1>S, <1>T
  <2>2. \A q \in Requests : at'[q] \in {"middleware", "handler"} => \E n, m \in Nat : OnItsWay(q, n, m)'
    <3> TAKE q \in Requests
    <3> HAVE at'[q] \in {"middleware", "handler"}
    <3>1. at'[q] = at[q]
      BY <2>1
    <3>2. PICK n \in Nat, m \in Nat : OnItsWay(q, n, m)
      BY <3>1 DEF Passing
    <3>3. OnItsWay(q, n, m)'
      BY <1>S, <3>1, <3>2 DEF OnItsWay
    <3> QED
      BY <3>3
  <2> QED
    BY <1>S, <1>T, <2>1, <2>2 DEF Passing
<1>1. CASE UNCHANGED vars
  BY <1>1 DEF vars, request, site, Passing, OnItsWay
<1>2. CASE AddEndpoint \/ AddMiddleware
  <2>1. UNCHANGED request
    BY <1>2 DEF AddEndpoint, AddMiddleware
  <2>2. /\ \A i \in DOMAIN endpoints : i # 1 => endpoints'[i].middleware = endpoints[i].middleware
        /\ endpoints # <<>> => endpoints[1].middleware <= endpoints'[1].middleware
    <3>1. \A i \in DOMAIN endpoints : endpoints[i] \in Endpoint /\ endpoints[i].middleware \in Nat
      <4>1. \A i \in DOMAIN endpoints : endpoints[i] \in Endpoint
        BY <1>T
      <4> QED
        BY <4>1 DEF Endpoint
    <3>2. CASE AddEndpoint
      BY <3>1, <3>2, <1>T DEF AddEndpoint
    <3>3. CASE AddMiddleware
      <4>1. 1 \in DOMAIN endpoints /\ endpoints' = [endpoints EXCEPT ![1].middleware = @ + 1]
        BY <3>3, <1>T DEF AddMiddleware
      <4>2. endpoints'[1].middleware = endpoints[1].middleware + 1
        BY <3>1, <4>1 DEF Endpoint
      <4> QED
        BY <3>1, <4>1, <4>2
    <3> QED
      BY <1>2, <3>2, <3>3
  <2>3. ASSUME NEW r \in Requests, at[r] \in {"middleware", "handler"}, NEW n \in Nat, NEW m \in Nat,
               OnItsWay(r, n, m)
        PROVE  OnItsWay(r, n, m)'
    <3>1. endpoint[r] \in DOMAIN endpoints /\ endpoints # <<>> /\ 1 \in DOMAIN endpoints
      BY <2>3, <1>T DEF Types, TypeOK
    <3>2. came[r] \in Nat /\ endpoints[1].middleware \in Nat /\ endpoints'[1].middleware \in Nat
      <4>1. endpoints[1] \in Endpoint /\ endpoints'[1] \in Endpoint
        BY <3>1, <1>2, <1>T, EndpointsGrow
      <4> QED
        BY <4>1, <1>T DEF Endpoint
    <3> QED
      BY <2>1, <2>2, <2>3, <3>1, <3>2 DEF OnItsWay, request
  <2> QED
    BY <2>1, <2>3 DEF Passing, request
<1>3. ASSUME NEW r \in Requests, request_handler(r)
      PROVE  Passing'
  <2>1. at[r] = "none" /\ passed[r] = <<>> /\ UNCHANGED <<endpoints, passed>>
    BY <1>3 DEF request_handler, Passing, site
  <2>2. /\ came' = [came EXCEPT ![r] = IF endpoints = <<>> THEN 0 ELSE endpoints[1].middleware]
        /\ \/ /\ HasRoot /\ endpoint' = [endpoint EXCEPT ![r] = 1]
              /\ at' = [at EXCEPT ![r] = "middleware"]
           \/ UNCHANGED endpoint /\ at' = [at EXCEPT ![r] = "caught"]
    BY <1>3 DEF request_handler, Begins
  <2>3. endpoints # <<>> => endpoints[1].middleware \in Nat
    <3>1. endpoints # <<>> => endpoints[1] \in Endpoint
      BY <1>T
    <3> QED
      BY <3>1 DEF Endpoint
  <2>4. came' \in [Requests -> Nat]
    BY <1>T, <2>2, <2>3
  <2>5. at'[r] = "middleware" => OnItsWay(r, 0, 0)'
    <3>1. Way(0, 0, 1) = <<>>
      BY DEF Way
    <3> QED
      BY <1>T, <2>1, <2>2, <2>3, <3>1 DEF OnItsWay, HasRoot
  <2>6. at'[r] \in {"middleware", "caught"}
    BY <1>T, <2>2
  <2>7. \A q \in Requests \ {r} : at'[q] = at[q] /\ endpoint'[q] = endpoint[q] /\ came'[q] = came[q]
    BY <1>T, <2>2
  <2> QED
    BY <2>1, <2>4, <2>5, <2>6, <2>7 DEF Passing, OnItsWay
<1>4. ASSUME NEW r \in Requests, Suspend(r) \/ Resume(r) \/ Reply(r)
      PROVE  Passing'
  BY <1>4, <1>S DEF Suspend, Resume, Reply, request, site
<1>5. ASSUME NEW r \in Requests, HandlerThrows(r) \/ HandlerReturns(r) \/ Catch(r)
      PROVE  Passing'
  BY <1>5, <1>S DEF HandlerThrows, HandlerReturns, Catch, Ends, Throw, site
<1>6. ASSUME NEW r \in Requests, Middleware(r)
      PROVE  Passing'
  <2>1. at[r] = "middleware" /\ UNCHANGED <<endpoints, endpoint, came>>
    BY <1>6 DEF Middleware, Runs, site
  <2>2. \/ at' = at /\ passed' = [passed EXCEPT ![r] = Append(@, <<endpoint[r], PassedHere(r) + 1>>)]
        \/ at' = [at EXCEPT ![r] = "caught"] /\ passed' = passed
    BY <1>6 DEF Middleware, Throw
  <2>3. CASE at' = [at EXCEPT ![r] = "caught"] /\ passed' = passed
    BY <2>1, <2>3, <1>S
  <2>4. CASE at' = at /\ passed' = [passed EXCEPT ![r] = Append(@, <<endpoint[r], PassedHere(r) + 1>>)]
    <3>1. \E n, m \in Nat : OnItsWay(r, n, m)'
      BY <1>6, <2>1, <2>4, PassingMiddleware
    <3>2. passed' = [q \in Requests |-> passed'[q]] /\ \A q \in Requests \ {r} : passed'[q] = passed[q]
      BY <1>T, <2>4
    <3>3. ASSUME NEW q \in Requests, q # r, NEW n \in Nat, NEW m \in Nat
          PROVE  OnItsWay(q, n, m)' = OnItsWay(q, n, m)
      BY <2>1, <2>4, <3>2, <3>3 DEF OnItsWay
    <3>4. \A q \in Requests \ {r} : /\ at'[q] = "none" => passed'[q] = <<>>
                                    /\ at'[q] \in {"middleware", "handler"} => \E n, m \in Nat : OnItsWay(q, n, m)'
      BY <2>4, <3>2, <3>3 DEF Passing
    <3> QED
      BY <2>1, <2>4, <3>1, <3>2, <3>4 DEF Passing
  <2> QED
    BY <2>2, <2>3, <2>4
<1>7. ASSUME NEW r \in Requests, Route(r)
      PROVE  Passing'
  <2>1. at[r] = "middleware" /\ UNCHANGED <<endpoints, came, passed>>
    BY <1>7 DEF Route, Runs, site
  <2>2. /\ at'[r] # "none"
        /\ \A q \in Requests \ {r} : at'[q] = at[q] /\ endpoint'[q] = endpoint[q]
    BY <1>7, <1>T DEF Route, Throw, Onwards
  <2>3. PICK n \in Nat, m \in Nat : OnItsWay(r, n, m)
    BY <2>1 DEF Passing
  <2>4. at'[r] \in {"middleware", "handler"} => OnItsWay(r, n, m)'
    BY <1>7, <2>3, PassingRoute
  <2> QED
    BY <2>1, <2>2, <2>4 DEF Passing, OnItsWay
<1> QED
  BY <1>1, <1>2, <1>3, <1>4, <1>5, <1>6, <1>7 DEF Next, Arrives, Works, Goes

\* However requests are interleaved and whatever the application adds meanwhile: a handler runs after the
\* middleware that the root had when its request came, in order, and then that of its own endpoint.
THEOREM PassesMiddlewareHolds == Spec => []PassesMiddleware
<1>1. Init => Passing
  BY DEF Init, Passing
<1>2. Types /\ Passing => PassesMiddleware
  <2> SUFFICES ASSUME Types, Passing, NEW r \in Requests, at[r] = "handler"
               PROVE  LET e == endpoint[r]
                          before(i) == [k \in 1 .. PassedOf(r, i) |-> <<i, k>>]
                      IN  /\ passed[r] = IF e = 1 THEN before(1) ELSE before(1) \o before(e)
                          /\ Len(before(1)) >= came[r]
                          /\ e # 1 => Len(before(e)) = endpoints[e].middleware
    BY DEF PassesMiddleware
  <2>1. PICK n \in Nat, m \in Nat : OnItsWay(r, n, m)
    BY DEF Passing
  <2>2. endpoint[r] \in Nat /\ came[r] \in Nat
    BY DEF Types, TypeOK, Passing
  <2>3. PassedOf(r, 1) = n /\ (endpoint[r] # 1 => PassedOf(r, endpoint[r]) = m)
    BY <2>1, PassedOnItsWay
  <2> DEFINE ones == [k \in 1 .. n |-> <<1, k>>]
             own == [k \in 1 .. m |-> <<endpoint[r], k>>]
  <2>4. Len(ones) = n /\ Len(own) = m
    OBVIOUS
  <2>5. passed[r] = Way(n, m, endpoint[r])
    BY <2>1 DEF OnItsWay
  <2>6. CASE endpoint[r] = 1
    BY <2>1, <2>2, <2>3, <2>4, <2>6 DEF OnItsWay, Way
  <2>7. CASE endpoint[r] # 1
    <3>1. Way(n, m, endpoint[r]) = ones \o own
      BY <2>2, <2>4 DEF Way
    <3> QED
      BY <2>1, <2>2, <2>3, <2>4, <2>5, <2>7, <3>1 DEF OnItsWay
  <2> QED
    BY <2>6, <2>7
<1> QED
  BY TypesInit, TypesStep, PassingStep, <1>1, <1>2, PTL DEF Spec

-----------------------------------------------------------------------------
(* Templates.                                                              *)

\* No variable stands twice in a template.
Distinct(template) ==
    \A i, j \in DOMAIN template : template[i][1] = "variable" /\ template[i] = template[j] => i = j
DistinctNames == \A s \in Sites : \A i \in DOMAIN s.adds : Distinct(s.adds[i].template)

LEMMA Fills ==
    ASSUME NEW template \in Seq({"literal", "variable"} \X STRING), NEW segments \in Seq(STRING),
           Distinct(template), Matches(template, segments), NEW given, DOMAIN given \subseteq Names(template)
    PROVE  /\ DOMAIN Bound(template, segments, given) = Names(template)
           /\ Filled(template, Bound(template, segments, given)) = segments
<1> DEFINE Stands(n) == {i \in DOMAIN segments : template[i] = <<"variable", n>>}
           standing == {n \in Names(template) : Stands(n) # {}}
           bound == [n \in standing |-> segments[Max(Stands(n))]]
<1>1. DOMAIN template = DOMAIN segments /\ \A i \in DOMAIN template : template[i] = <<template[i][1], template[i][2]>>
  BY DEF Matches
<1>2. \A i \in DOMAIN template : template[i][1] \in {"literal", "variable"}
  OBVIOUS
<1>3. ASSUME NEW i \in DOMAIN template, template[i][1] = "variable"
      PROVE  Stands(template[i][2]) = {i} /\ template[i][2] \in standing
  <2>1. template[i] = <<"variable", template[i][2]>> /\ i \in DOMAIN segments
    BY <1>1, <1>3
  <2>2. \A j \in DOMAIN template : template[j] = template[i] => j = i
    BY <1>3 DEF Distinct
  <2>3. Stands(template[i][2]) = {i}
    BY <1>1, <2>1, <2>2
  <2>4. template[i][2] \in Names(template)
    BY <1>3, <2>1 DEF Names
  <2> QED
    BY <2>3, <2>4
<1>4. ASSUME NEW i \in DOMAIN template
      PROVE  Max({i}) = i
  <2>1. i \in {i} /\ \A j \in {i} : i >= j
    OBVIOUS
  <2>2. Max({i}) \in {i}
    BY <2>1, Zenon DEF Max
  <2> QED
    BY <2>2
<1>5. standing = Names(template)
  <2> HIDE DEF Stands
  <2> SUFFICES ASSUME NEW n \in Names(template) PROVE n \in standing
    OBVIOUS
  <2>1. PICK i \in DOMAIN template : template[i][1] = "variable" /\ n = template[i][2]
    BY DEF Names
  <2> QED
    BY <1>3, <2>1
<1>6. \A i \in DOMAIN template : template[i][1] = "variable" => bound[template[i][2]] = segments[i]
  BY <1>3, <1>4
<1>7. Bound(template, segments, given) = bound
  BY <1>5 DEF Bound
<1>8. \A i \in DOMAIN template : template[i][1] = "literal" => template[i][2] = segments[i]
  BY <1>1 DEF Matches
<1>9. DOMAIN bound = Names(template)
  BY <1>5
<1> HIDE DEF bound
<1>10. Filled(template, bound) = [i \in DOMAIN segments |-> segments[i]]
  BY <1>1, <1>2, <1>6, <1>8 DEF Filled
<1> QED
  BY <1>7, <1>9, <1>10

LEMMA NotFilled ==
    ASSUME NEW template \in Seq({"literal", "variable"} \X STRING), NEW segments \in Seq(STRING), NEW values,
           ~Matches(template, segments)
    PROVE  Filled(template, values) # segments
<1> SUFFICES ASSUME Filled(template, values) = segments PROVE Matches(template, segments)
  OBVIOUS
<1> QED
  BY DEF Filled, Matches

-----------------------------------------------------------------------------
\* The template fits the path, and no earlier one does.
Found(r) == /\ DOMAIN pre[r] = Names(Template(endpoint[r]))
            /\ Filled(Template(endpoint[r]), pre[r]) = path[r]
            /\ \A i \in 1 .. endpoint[r] - 1 : ~Matches(Template(i), path[r])

Routed == /\ \A i \in DOMAIN toAdd : Distinct(toAdd[i].template)
          /\ \A i \in DOMAIN endpoints : Distinct(Template(i))
          /\ \A r \in Requests : /\ at[r] = "none" => pre[r] = Empty
                                 /\ at[r] = "middleware" => IF endpoint[r] = 1 THEN pre[r] = Empty
                                                                              ELSE Found(r)
                                 /\ at[r] = "handler" => Found(r)

LEMMA RoutedAdding ==
    ASSUME Types, Routed, AddEndpoint \/ AddMiddleware
    PROVE  Routed'
<1>1. UNCHANGED request
  BY DEF AddEndpoint, AddMiddleware
<1>2. \A i \in DOMAIN toAdd' : Distinct(toAdd'[i].template)
  <2>1. toAdd # <<>> /\ toAdd' = Tail(toAdd) /\ toAdd \in Seq(Endpoint)
    BY DEF AddEndpoint, AddMiddleware, Types
  <2>2. \A i \in DOMAIN toAdd' : i + 1 \in DOMAIN toAdd /\ toAdd'[i] = toAdd[i + 1]
    BY <2>1
  <2> QED
    BY <2>2 DEF Routed
<1>3. \A i \in DOMAIN endpoints' : Distinct(Template(i)')
  <2>1. ASSUME NEW i \in DOMAIN endpoints', i \notin DOMAIN endpoints
        PROVE  toAdd # <<>> /\ endpoints'[i] = toAdd[1]
    <3>1. endpoints \in Seq(Endpoint) /\ toAdd \in Seq(Endpoint)
      BY DEF Types, TypeOK
    <3>2. CASE AddMiddleware
      BY <2>1, <3>1, <3>2 DEF AddMiddleware
    <3>3. CASE AddEndpoint
      BY <2>1, <3>1, <3>3 DEF AddEndpoint
    <3> QED
      BY <3>2, <3>3
  <2>2. toAdd # <<>> => 1 \in DOMAIN toAdd
    BY DEF Types
  <2> QED
    BY <2>1, <2>2, EndpointsGrow DEF Routed, Template
<1>4. ASSUME NEW r \in Requests, endpoint[r] \in DOMAIN endpoints, Found(r)
      PROVE  Found(r)'
  <2>1. \A i \in 1 .. endpoint[r] : i \in DOMAIN endpoints
    BY <1>4 DEF Types, TypeOK
  <2>2. \A i \in 1 .. endpoint[r] : Template(i)' = Template(i)
    BY <2>1, EndpointsGrow DEF Template
  <2>3. endpoint[r] \in 1 .. endpoint[r] /\ 1 .. endpoint[r] - 1 \subseteq 1 .. endpoint[r]
    BY <1>4 DEF Types, TypeOK
  <2> QED
    BY <1>1, <1>4, <2>2, <2>3 DEF Found, request
<1> QED
  BY <1>1, <1>2, <1>3, <1>4 DEF Routed, request, Types, TypeOK

LEMMA RoutedGoing ==
    ASSUME Types, Routed, NEW r \in Requests, Route(r)
    PROVE  Routed'
<1>T. /\ at \in [Requests -> Places] /\ endpoint \in [Requests -> Nat]
      /\ pre = [q \in Requests |-> pre[q]] /\ path \in [Requests -> Seq(STRING)]
      /\ endpoints \in Seq(Endpoint)
  BY DEF Types, TypeOK
<1>1. /\ at[r] = "middleware" /\ UNCHANGED <<site, path>>
  BY DEF Route, Runs
<1>2. \A q \in Requests \ {r} : at'[q] = at[q] /\ endpoint'[q] = endpoint[q] /\ pre'[q] = pre[q]
  BY <1>T DEF Route, Throw
<1>3. CASE Throw(r, "status")
  <2>1. at'[r] = "caught"
    BY <1>3, <1>T DEF Throw
  <2> QED
    BY <1>1, <1>2, <2>1 DEF Routed, Found, Template, site
<1>4. ASSUME NEW to \in Chosen(r),
             pre' = [pre EXCEPT ![r] = Bound(Template(to), path[r], @)],
             endpoint' = [endpoint EXCEPT ![r] = to],
             at' = [at EXCEPT ![r] = Onwards(r, to)]
      PROVE  Routed'
  <2>1. /\ to \in DOMAIN endpoints /\ Matches(Template(to), path[r])
        /\ to # endpoint[r] => to # 1 /\ endpoint[r] = 1 /\ ~Matches(Template(1), path[r])
    BY <1>4, <1>1 DEF Chosen, Candidates, Types, TypeOK
  <2>2. \A i \in 1 .. to - 1 : ~Matches(Template(i), path[r])
    <3>1. CASE to = endpoint[r]
      <4>1. endpoint[r] # 1 => Found(r)
        BY <1>1 DEF Routed
      <4> QED
        BY <3>1, <4>1 DEF Found
    <3>2. CASE to # endpoint[r]
      <4>1. \A j \in Candidates(r) : to <= j
        BY <3>2 DEF Chosen
      <4>2. \A i \in 1 .. to - 1 : i \in DOMAIN endpoints /\ ~(to <= i)
        BY <2>1, <1>T
      <4>3. \A i \in DOMAIN endpoints \ {1} : Matches(Template(i), path[r]) => i \in Candidates(r)
        BY <3>2, <2>1 DEF Candidates
      <4> QED
        BY <3>2, <2>1, <4>1, <4>2, <4>3
    <3> QED
      BY <3>1, <3>2
  <2>3. DOMAIN pre[r] \subseteq Names(Template(to))
    <3>1. endpoint[r] = 1 => DOMAIN pre[r] = {}
      BY <1>1 DEF Routed, Empty
    <3>2. endpoint[r] # 1 => to = endpoint[r] /\ DOMAIN pre[r] = Names(Template(to))
      BY <1>1, <2>1 DEF Routed, Found
    <3> QED
      BY <3>1, <3>2
  <2>4. Template(to) \in Seq({"literal", "variable"} \X STRING) /\ Distinct(Template(to))
    <3>1. endpoints[to] \in Endpoint
      BY <2>1, <1>T
    <3>2. endpoints[to].template \in Seq({"literal", "variable"} \X STRING)
      BY <3>1 DEF Endpoint
    <3> QED
      BY <2>1, <3>2 DEF Routed, Template
  <2>5. /\ DOMAIN Bound(Template(to), path[r], pre[r]) = Names(Template(to))
        /\ Filled(Template(to), Bound(Template(to), path[r], pre[r])) = path[r]
    BY <2>1, <2>3, <2>4, <1>T, Fills
  <2>6. pre'[r] = Bound(Template(to), path[r], pre[r]) /\ endpoint'[r] = to /\ path'[r] = path[r]
    BY <1>4, <1>1, <1>T
  <2>7. Found(r)'
    BY <2>2, <2>5, <2>6, <1>1 DEF Found, Template, site
  <2>8. at'[r] # "none" /\ (at'[r] = "middleware" => endpoint'[r] # 1)
    BY <1>4, <1>T, <2>1 DEF Onwards
  <2> QED
    BY <1>1, <1>2, <2>7, <2>8 DEF Routed, Found, Template, site
<1> QED
  BY <1>3, <1>4 DEF Route

LEMMA RoutedStep == Types /\ Routed /\ [Next]_vars => Routed'
<1> SUFFICES ASSUME Types, Routed, [Next]_vars PROVE Routed'
  OBVIOUS
<1>T. /\ at \in [Requests -> Places] /\ endpoint \in [Requests -> Nat]
  BY DEF Types, TypeOK
\* Where a request goes to a place that is no claim, or stays where it is.
<1>S. ASSUME NEW r \in Requests, UNCHANGED <<site, path, endpoint, pre>>,
             NEW place \in {"caught", "done"}, at' = [at EXCEPT ![r] = place] \/ at' = at
      PROVE  Routed'
  BY <1>S, <1>T DEF Routed, Found, Template, site
<1>1. CASE UNCHANGED vars
  BY <1>1 DEF vars, request, site, Routed, Found, Template
<1>2. CASE AddEndpoint \/ AddMiddleware
  BY <1>2, RoutedAdding
<1>3. ASSUME NEW r \in Requests, request_handler(r)
      PROVE  Routed'
  <2>1. /\ at[r] = "none" /\ UNCHANGED <<site, pre>>
        /\ \E p \in visitors.paths : path' = [path EXCEPT ![r] = p]
    BY <1>3 DEF request_handler
  <2>2. \/ endpoint' = [endpoint EXCEPT ![r] = 1] /\ at' = [at EXCEPT ![r] = "middleware"]
        \/ endpoint' = endpoint /\ at' = [at EXCEPT ![r] = "caught"]
    BY <1>3 DEF request_handler, Begins
  <2>3. /\ \A q \in Requests \ {r} : at'[q] = at[q] /\ endpoint'[q] = endpoint[q] /\ path'[q] = path[q]
        /\ at'[r] = "caught" \/ (at'[r] = "middleware" /\ endpoint'[r] = 1)
    BY <2>1, <2>2, <1>T DEF Types
  <2> QED
    BY <2>1, <2>3 DEF Routed, Found, Template, site
<1>4. ASSUME NEW r \in Requests, Suspend(r) \/ Resume(r) \/ Reply(r)
      PROVE  Routed'
  BY <1>4, <1>S DEF Suspend, Resume, Reply, request
<1>5. ASSUME NEW r \in Requests, Middleware(r) \/ HandlerThrows(r)
      PROVE  Routed'
  BY <1>5, <1>S DEF Middleware, HandlerThrows, Throw
<1>6. ASSUME NEW r \in Requests, HandlerReturns(r) \/ Catch(r)
      PROVE  Routed'
  BY <1>6, <1>S DEF HandlerReturns, Catch, Ends, Throw
<1> QED
  BY <1>1, <1>2, <1>3, <1>4, <1>5, <1>6, RoutedGoing DEF Next, Arrives, Works, Goes

\* On sites whose templates have no variable twice: the path of a request is the template of its
\* endpoint with the variables put in, whatever is added meanwhile, and is no earlier endpoint's.
THEOREM RightHandlerHolds == ASSUME DistinctNames PROVE Spec => []RightHandler
<1>1. Init => Routed
  BY DEF Init, Routed, DistinctNames
<1>2. Types /\ Routed => RightHandler
  <2> SUFFICES ASSUME Types, Routed, NEW r \in Requests, at[r] = "handler",
                      NEW i \in 1 .. endpoint[r] - 1, NEW values
               PROVE  Found(r) /\ Filled(Template(i), values) # path[r]
    BY DEF RightHandler, Found, Routed
  <2>1. Found(r) /\ ~Matches(Template(i), path[r])
    BY DEF Routed, Found
  <2>2. i \in DOMAIN endpoints /\ endpoints \in Seq(Endpoint)
    BY DEF Types, TypeOK
  <2>3. endpoints[i] \in Endpoint
    BY <2>2
  <2>4. Template(i) \in Seq({"literal", "variable"} \X STRING)
    BY <2>3 DEF Template, Endpoint
  <2>5. path[r] \in Seq(STRING)
    BY DEF Types
  <2> QED
    BY <2>1, <2>4, <2>5, NotFilled
<1> QED
  BY <1>1, <1>2, TypesInit, TypesStep, RoutedStep, PTL DEF Spec

-----------------------------------------------------------------------------
(* Entries.                                                                *)

ContextType == [enabled : BOOLEAN, identities : SUBSET STRING, built : BOOLEAN,
                applied : SUBSET STRING, hooked : BOOLEAN]
EntryType == [parent : Labels, tls : Nat]

\* No entry is its own ancestor, because its parent was there before it.
Ordered(es, rank) ==
    /\ rank \in [DOMAIN es -> Nat]
    /\ \A n \in DOMAIN es : es[n].parent \in DOMAIN es => rank[es[n].parent] < rank[n]

\* So that what entries inherit is well defined.
LEMMA InheritedIs ==
    ASSUME NEW es, es \in [DOMAIN es -> EntryType], NEW rank, Ordered(es, rank)
    PROVE  \A n \in DOMAIN es :
              Inherited(es)[n] = IF es[n].tls # 0 \/ es[n].parent \notin DOMAIN es THEN es[n].tls
                                 ELSE Inherited(es)[es[n].parent]
<1> DEFINE D == DOMAIN es
           under(N) == {n \in D : rank[n] < N}
           Own(n) == es[n].tls # 0 \/ es[n].parent \notin D
           Solves(f, N) == /\ f = [n \in under(N) |-> f[n]]
                           /\ \A n \in under(N) : f[n] = IF Own(n) THEN es[n].tls ELSE f[es[n].parent]
           Solved(N) == \E f : Solves(f, N)
<1>1. rank \in [D -> Nat] /\ \A n \in D : es[n].parent \in D => rank[es[n].parent] < rank[n]
  BY DEF Ordered
<1>2. Solved(0)
  <2>1. under(0) = {}
    BY <1>1
  <2>2. Solves([n \in under(0) |-> 0], 0)
    BY <2>1
  <2> QED
    BY <2>2
<1>3. ASSUME NEW N \in Nat, Solved(N) PROVE Solved(N + 1)
  <2>1. PICK f : Solves(f, N)
    BY <1>3
  <2> DEFINE g == [n \in under(N + 1) |-> IF Own(n) THEN es[n].tls ELSE f[es[n].parent]]
  <2>2. ASSUME NEW n \in under(N) PROVE n \in under(N + 1) /\ g[n] = f[n]
    BY <1>1, <2>1
  <2>3. ASSUME NEW n \in under(N + 1) PROVE g[n] = IF Own(n) THEN es[n].tls ELSE g[es[n].parent]
    <3>1. CASE Own(n)
      BY <3>1
    <3>2. CASE ~Own(n)
      <4>1. es[n].parent \in under(N)
        BY <1>1, <3>2
      <4> QED
        BY <2>2, <3>2, <4>1
    <3> QED
      BY <3>1, <3>2
  <2>4. Solves(g, N + 1)
    BY <2>3
  <2> QED
    BY <2>4
<1>4. \A N \in Nat : Solved(N)
  <2> DEFINE T == {N \in Nat : ~Solved(N)}
  <2> SUFFICES ASSUME T # {} PROVE FALSE
    OBVIOUS
  <2>1. PICK m \in T : \A k \in T : m <= k
    <3>1. T \in SUBSET Nat
      OBVIOUS
    <3> HIDE DEF T
    <3> QED
      BY <3>1, LeastNat
  <2> HIDE DEF Solved
  <2>2. m # 0 /\ m \in Nat /\ ~Solved(m)
    BY <1>2
  <2>3. m - 1 \in Nat /\ ~(m <= m - 1) /\ (m - 1) + 1 = m
    BY <2>2
  <2>4. Solved(m - 1)
    BY <2>1, <2>3
  <2> QED
    BY <1>3, <2>2, <2>3, <2>4
\* Solutions agree.
<1>5. ASSUME NEW N \in Nat, NEW M \in Nat, NEW f, NEW g, Solves(f, N), Solves(g, M)
      PROVE  \A n \in under(N) \cap under(M) : f[n] = g[n]
  <2> DEFINE W == {k \in Nat : \E n \in under(N) \cap under(M) : rank[n] = k /\ f[n] # g[n]}
  <2>1. ASSUME W # {} PROVE FALSE
    <3>1. PICK m \in W : \A k \in W : m <= k
      <4>1. W \in SUBSET Nat
        OBVIOUS
      <4> HIDE DEF W
      <4> QED
        BY <2>1, <4>1, LeastNat
    <3>2. PICK n \in under(N) \cap under(M) : rank[n] = m /\ f[n] # g[n]
      BY <3>1
    <3>3. ~Own(n)
      BY <1>5, <3>2
    <3> DEFINE p == es[n].parent
    <3>4. p \in under(N) \cap under(M) /\ rank[p] \in Nat /\ rank[p] < m
      BY <1>1, <3>2, <3>3
    <3>5. f[p] # g[p]
      BY <1>5, <3>2, <3>3
    <3>6. rank[p] \in W
      BY <3>4, <3>5
    <3> QED
      BY <3>1, <3>4, <3>6
  <2> QED
    BY <1>1, <2>1
<1> HIDE DEF Own
<1> DEFINE of(n) == CHOOSE f : Solves(f, rank[n] + 1)
           all == [n \in D |-> of(n)[n]]
<1>6. ASSUME NEW n \in D PROVE n \in under(rank[n] + 1) /\ Solves(of(n), rank[n] + 1)
  <2>1. rank[n] + 1 \in Nat /\ rank[n] < rank[n] + 1
    BY <1>1
  <2>2. Solved(rank[n] + 1)
    BY <1>4, <2>1
  <2> QED
    BY <2>1, <2>2
<1>7. \A n \in D : all[n] = IF Own(n) THEN es[n].tls ELSE all[es[n].parent]
  <2> TAKE n \in D
  <2>1. all[n] = of(n)[n] /\ of(n)[n] = IF Own(n) THEN es[n].tls ELSE of(n)[es[n].parent]
    BY <1>6
  <2>2. ASSUME ~Own(n) PROVE of(n)[es[n].parent] = all[es[n].parent]
    <3> DEFINE p == es[n].parent
    <3>1. p \in D /\ rank[p] < rank[n] + 1 /\ p \in under(rank[n] + 1)
      BY <1>1, <2>2 DEF Own
    <3>2. p \in under(rank[p] + 1) /\ Solves(of(p), rank[p] + 1) /\ Solves(of(n), rank[n] + 1)
      BY <1>6, <3>1
    <3>3. rank[p] + 1 \in Nat /\ rank[n] + 1 \in Nat
      BY <1>1, <3>1
    <3> HIDE DEF Solves, under, of, p
    <3>4. of(n)[p] = of(p)[p]
      BY <1>5, <3>1, <3>2, <3>3
    <3>5. all[p] = of(p)[p]
      BY <3>1
    <3> QED
      BY <3>4, <3>5 DEF p
  <2> QED
    BY <2>1, <2>2
<1> DEFINE up == CHOOSE f : f = [n \in D |-> IF Own(n) THEN es[n].tls ELSE f[es[n].parent]]
<1>8. up = [n \in D |-> IF Own(n) THEN es[n].tls ELSE up[es[n].parent]]
  <2>1. \E f : f = [n \in D |-> IF Own(n) THEN es[n].tls ELSE f[es[n].parent]]
    <3>1. all = [n \in D |-> IF Own(n) THEN es[n].tls ELSE all[es[n].parent]]
      <4> HIDE DEF of
      <4> QED
        BY <1>7
    <3> QED
      BY <3>1
  <2> QED
    BY <2>1
<1>9. Inherited(es) = up
  BY DEF Inherited, Own
<1> QED
  BY <1>8, <1>9 DEF Own

LEMMA ReverseIs ==
    ASSUME NEW S, NEW s \in Seq(S)
    PROVE  /\ Reverse(s) \in Seq(S) /\ Len(Reverse(s)) = Len(s) /\ Len(s) \in Nat
           /\ \A i \in 1 .. Len(s) : Reverse(s)[i] = s[Len(s) - i + 1]
<1>1. Len(s) \in Nat /\ \A i \in 1 .. Len(s) : s[i] \in S
  BY LenProperties, ElementOfSeq
<1>2. \A i \in 1 .. Len(s) : (Len(s) - i) + 1 \in 1 .. Len(s)
  BY <1>1
<1>3. Reverse(s) = [i \in 1 .. Len(s) |-> s[(Len(s) - i) + 1]]
  BY DEF Reverse
<1> QED
  BY <1>1, <1>2, <1>3

LEMMA SuffixIs ==
    ASSUME NEW S, NEW t \in Seq(S), NEW d \in Seq(S)
    PROVE  IsSuffix(t, d) <=> /\ Len(t) <= Len(d)
                              /\ \A k \in 1 .. Len(t) : t[k] = d[Len(d) - Len(t) + k]
<1> DEFINE m == Len(t)
           L == Len(d)
           rt == Reverse(t)
           rd == Reverse(d)
<1>1. /\ rt \in Seq(S) /\ Len(rt) = m /\ m \in Nat /\ \A i \in 1 .. m : rt[i] = t[m - i + 1]
      /\ rd \in Seq(S) /\ Len(rd) = L /\ L \in Nat /\ \A i \in 1 .. L : rd[i] = d[L - i + 1]
  BY ReverseIs
<1>2. IsSuffix(t, d) <=> m <= L /\ SubSeq(rt, 1, m) = SubSeq(rd, 1, m)
  BY <1>1 DEF IsSuffix, IsPrefix
<1> HIDE DEF m, L, rt, rd
<1>3. ASSUME m <= L
      PROVE  SubSeq(rt, 1, m) = SubSeq(rd, 1, m) <=> \A i \in 1 .. m : rt[i] = rd[i]
  <2>1. /\ Len(SubSeq(rt, 1, m)) = m /\ Len(SubSeq(rd, 1, m)) = m
        /\ SubSeq(rt, 1, m) \in Seq(S) /\ SubSeq(rd, 1, m) \in Seq(S)
        /\ \A i \in 1 .. m : SubSeq(rt, 1, m)[i] = rt[i] /\ SubSeq(rd, 1, m)[i] = rd[i]
    BY <1>1, <1>3
  <2> QED
    BY <2>1, SeqEqual
<1>4. ASSUME m <= L
      PROVE  (\A i \in 1 .. m : rt[i] = rd[i]) <=> (\A k \in 1 .. m : t[k] = d[L - m + k])
  <2>1. ASSUME \A i \in 1 .. m : rt[i] = rd[i], NEW k \in 1 .. m PROVE t[k] = d[L - m + k]
    <3>1. m - k + 1 \in 1 .. m /\ m - k + 1 \in 1 .. L /\ m - (m - k + 1) + 1 = k /\ L - (m - k + 1) + 1 = L - m + k
      BY <1>1, <1>4
    <3>2. rt[m - k + 1] = t[m - (m - k + 1) + 1] /\ rd[m - k + 1] = d[L - (m - k + 1) + 1]
      BY <1>1, <3>1, Zenon
    <3>3. rt[m - k + 1] = rd[m - k + 1]
      BY <2>1, <3>1, Zenon
    <3> QED
      BY <3>1, <3>2, <3>3
  <2>2. ASSUME \A k \in 1 .. m : t[k] = d[L - m + k], NEW i \in 1 .. m PROVE rt[i] = rd[i]
    <3>1. m - i + 1 \in 1 .. m /\ i \in 1 .. L /\ L - m + (m - i + 1) = L - i + 1
      BY <1>1, <1>4
    <3>2. t[m - i + 1] = d[L - m + (m - i + 1)]
      BY <2>2, <3>1, Zenon
    <3>3. rt[i] = t[m - i + 1] /\ rd[i] = d[L - i + 1]
      BY <1>1, <3>1, Zenon
    <3> QED
      BY <3>1, <3>2, <3>3
  <2> QED
    BY <2>1, <2>2
<1> QED
  BY <1>2, <1>3, <1>4 DEF m, L

LEMMA LabelsAre == /\ Star \in Label /\ Nothing \in Label
                   /\ Default \in Labels /\ Len(Default) = 1 /\ Default # None
<1>1. Star \in Label /\ Nothing \in Label
  BY DEF Label
<1> QED
  BY <1>1 DEF Default, Labels, None

\* The names with a star that a domain falls under: one of each length.
LEMMA BelowIs ==
    ASSUME NEW domain \in Labels
    PROVE  /\ \A n \in Below(domain) : n \in Labels /\ Len(n) \in 2 .. Len(domain) + 1
           /\ \A n, m \in Below(domain) : Len(n) = Len(m) => n = m
           /\ \A n \in Labels : n \in Below(domain) <=> Len(n) > 1 /\ Head(n) = Star /\ IsSuffix(Tail(n), domain)
<1> DEFINE L == Len(domain)
           end(i) == SubSeq(domain, i, L)
           star(i) == <<Star>> \o end(i)
<1>1. L \in Nat /\ domain \in Seq(Label) /\ DOMAIN domain = 1 .. L
  BY DEF Labels
<1>2. ASSUME NEW i \in 1 .. L
      PROVE  /\ end(i) \in Seq(Label) /\ Len(end(i)) = L - i + 1
             /\ \A k \in 1 .. L - i + 1 : end(i)[k] = domain[L - (L - i + 1) + k]
  <2>1. i \in Nat /\ 1 <= i /\ i <= L
    BY <1>1
  <2>2. end(i) \in Seq(Label) /\ Len(end(i)) = L - i + 1 /\ \A k \in 1 .. L - i + 1 : end(i)[k] = domain[i + k - 1]
    BY <1>1, <2>1
  <2>3. \A k \in 1 .. L - i + 1 : L - (L - i + 1) + k = i + k - 1
    BY <1>1, <2>1
  <2> QED
    BY <2>2, <2>3
<1> HIDE DEF L
<1>3. ASSUME NEW i \in 1 .. L
      PROVE  /\ star(i) \in Labels /\ Len(star(i)) = L - i + 2 /\ Len(star(i)) \in 2 .. L + 1
             /\ Head(star(i)) = Star /\ Tail(star(i)) = end(i)
  <2>1. end(i) \in Seq(Label) /\ Len(end(i)) = L - i + 1 /\ Star \in Label
    BY <1>2, LabelsAre
  <2> HIDE DEF end
  <2>2. star(i) \in Seq(Label) /\ Len(star(i)) = 1 + Len(end(i)) /\ Head(star(i)) = Star /\ Tail(star(i)) = end(i)
    BY <2>1
  <2>3. Len(star(i)) = L - i + 2 /\ Len(star(i)) \in 2 .. L + 1
    BY <1>1, <2>1, <2>2
  <2> QED
    BY <2>2, <2>3 DEF Labels
<1>4. \A n : n \in Below(domain) <=> \E i \in 1 .. L : n = star(i)
  BY <1>1 DEF Below, L
<1> HIDE DEF star
<1>5. ASSUME NEW i \in 1 .. L, NEW j \in 1 .. L, Len(star(i)) = Len(star(j)) PROVE star(i) = star(j)
  <2>1. L - i + 2 = L - j + 2
    BY <1>3, <1>5
  <2>2. i = j
    BY <1>1, <2>1
  <2> QED
    BY <2>2
<1>6. ASSUME NEW i \in 1 .. L PROVE Len(star(i)) > 1 /\ Head(star(i)) = Star /\ IsSuffix(Tail(star(i)), domain)
  <2>1. Len(star(i)) > 1 /\ Head(star(i)) = Star /\ Tail(star(i)) = end(i)
    BY <1>1, <1>3
  <2>2. Len(end(i)) = L - i + 1 /\ Len(end(i)) <= L /\ end(i) \in Seq(Label)
    BY <1>1, <1>2
  <2>3. \A k \in 1 .. Len(end(i)) : end(i)[k] = domain[L - Len(end(i)) + k]
    <3> HIDE DEF end
    <3> QED
      BY <1>2, <2>2
  <2>4. IsSuffix(end(i), domain)
    <3> HIDE DEF end
    <3> QED
      BY <1>1, <2>2, <2>3, SuffixIs DEF L
  <2> QED
    BY <2>1, <2>4
<1>7. ASSUME NEW n \in Labels, Len(n) > 1, Head(n) = Star, IsSuffix(Tail(n), domain)
      PROVE  \E i \in 1 .. L : n = star(i)
  <2> DEFINE m == Len(Tail(n))
  <2>1. Tail(n) \in Seq(Label) /\ m = Len(n) - 1 /\ m \in Nat /\ m >= 1 /\ n = <<Star>> \o Tail(n)
    BY <1>7 DEF Labels
  <2>2. m <= L /\ \A k \in 1 .. m : Tail(n)[k] = domain[L - m + k]
    BY <1>1, <1>7, <2>1, SuffixIs DEF L
  <2> HIDE DEF m
  <2> DEFINE i == L - m + 1
  <2>3. i \in 1 .. L
    BY <1>1, <2>1, <2>2
  <2>4. L - i + 1 = m
    BY <1>1, <2>1
  <2> HIDE DEF i
  <2>5. end(i) \in Seq(Label) /\ Len(end(i)) = m /\ \A k \in 1 .. m : end(i)[k] = domain[L - m + k]
    BY <1>2, <2>3, <2>4
  <2>6. Tail(n) = end(i)
    <3> HIDE DEF end
    <3>1. \A k \in 1 .. m : Tail(n)[k] = end(i)[k]
      BY <2>2, <2>5
    <3> QED
      BY <2>1, <2>5, <3>1, SeqEqual DEF m
  <2> QED
    BY <2>1, <2>3, <2>6 DEF star
<1>8. \A n \in Below(domain) : n \in Labels /\ Len(n) \in 2 .. L + 1
  BY <1>3, <1>4
<1>9. \A n, m \in Below(domain) : Len(n) = Len(m) => n = m
  BY <1>4, <1>5
<1>10. \A n \in Labels : n \in Below(domain) <=> Len(n) > 1 /\ Head(n) = Star /\ IsSuffix(Tail(n), domain)
  BY <1>4, <1>6, <1>7
<1> QED
  BY <1>8, <1>9, <1>10 DEF L

\* The name that is not allowed would be above "".
LEMMA NothingAbove == Below(Default) \cap Naming = {}
<1> SUFFICES ASSUME NEW n \in Below(Default), n \in Naming PROVE FALSE
  OBVIOUS
<1>1. n = <<Star, Nothing>>
  <2>1. Default = <<Nothing>> /\ Len(Default) = 1
    BY LabelsAre DEF Default
  <2>2. PICK i \in 1 .. 1 : n = <<Star>> \o SubSeq(<<Nothing>>, i, 1)
    BY <2>1 DEF Below
  <2>3. i = 1
    OBVIOUS
  <2>4. SubSeq(<<Nothing>>, 1, 1) = <<Nothing>>
    <3> DEFINE s == <<Nothing>>
               t == SubSeq(s, 1, 1)
    <3>1. s \in Seq(Label) /\ Len(s) = 1 /\ s[1] = Nothing
      BY LabelsAre
    <3> HIDE DEF s
    <3>2. t \in Seq(Label) /\ Len(t) = 1 /\ \A k \in 1 .. 1 : t[k] = s[k]
      BY <3>1
    <3> HIDE DEF t
    <3>3. t = s
      BY <3>1, <3>2, SeqEqual
    <3> QED
      BY <3>3 DEF s, t
  <2>5. n = <<Star>> \o <<Nothing>>
    BY <2>2, <2>3, <2>4, Zenon
  <2>6. <<Star>> \o <<Nothing>> = <<Star, Nothing>>
    <3> DEFINE s == <<Star>> \o <<Nothing>>
               t == <<Star, Nothing>>
    <3>1. s \in Seq(Label) /\ Len(s) = 2 /\ s[1] = Star /\ s[2] = Nothing
      BY LabelsAre
    <3>2. t \in Seq(Label) /\ Len(t) = 2 /\ t[1] = Star /\ t[2] = Nothing
      BY LabelsAre
    <3> HIDE DEF s, t
    <3>3. s = t
      BY <3>1, <3>2, SeqEqual
    <3> QED
      BY <3>3 DEF s, t
  <2> QED
    BY <2>5, <2>6
<1> QED
  BY <1>1 DEF Naming

\* What is found is there, or is "".
LEMMA FindIs ==
    ASSUME NEW domain \in Labels, NEW es, DOMAIN es \subseteq Naming
    PROVE  LET f == Find(es, domain)
               found == Below(domain) \cap DOMAIN es
           IN  /\ domain \in DOMAIN es => f = domain
               /\ domain \notin DOMAIN es /\ found # {} =>
                     f \in found /\ \A m \in found : Len(f) >= Len(m)
               /\ domain \notin DOMAIN es /\ found = {} => f = Default
               /\ f \in DOMAIN es \cup {Default} /\ f \in Naming
<1> DEFINE f == Find(es, domain)
           found == Below(domain) \cap DOMAIN es
<1>1. Default \in Naming
  <2>1. Len(<<Star, Nothing>>) = 2
    OBVIOUS
  <2> QED
    BY <2>1, LabelsAre DEF Naming
<1>2. CASE domain \in DOMAIN es
  <2>1. f = domain
    BY <1>2 DEF Find
  <2> QED
    BY <1>2, <2>1
<1>3. CASE domain \notin DOMAIN es /\ found # {}
  <2> DEFINE lens == {Len(n) : n \in found}
  <2>1. Len(domain) + 1 \in Nat /\ lens \in SUBSET (0 .. Len(domain) + 1) /\ lens # {}
    <3>1. Len(domain) \in Nat
      BY DEF Labels
    <3>2. \A n \in found : Len(n) \in 1 .. Len(domain) + 1
      BY <3>1, BelowIs
    <3>3. lens \in SUBSET (0 .. Len(domain) + 1)
      BY <3>2
    <3>4. lens # {}
      BY <1>3
    <3> QED
      BY <3>1, <3>3, <3>4
  <2>2. PICK n \in found : \A m \in found : Len(n) >= Len(m)
    <3>1. PICK N \in lens : \A k \in lens : k <= N
      <4> HIDE DEF lens
      <4> QED
        BY <2>1, MaxIs
    <3>2. PICK n \in found : Len(n) = N
      BY <3>1
    <3>3. \A m \in found : Len(m) \in lens
      OBVIOUS
    <3>4. \A m \in found : Len(m) <= Len(n)
      BY <3>1, <3>2, <3>3
    <3>5. \A m \in found : Len(m) \in Int
      BY BelowIs
    <3> QED
      BY <3>2, <3>4, <3>5
  <2>3. f = CHOOSE c \in found : \A m \in found : Len(c) >= Len(m)
    BY <1>3 DEF Find
  <2> HIDE DEF f, found
  <2>4. f \in found /\ \A m \in found : Len(f) >= Len(m)
    BY <2>2, <2>3
  <2> QED
    BY <1>3, <2>4 DEF f, found
<1>4. CASE domain \notin DOMAIN es /\ found = {}
  <2>1. f = Default
    BY <1>4 DEF Find
  <2> QED
    BY <1>1, <1>4, <2>1
<1> QED
  BY <1>2, <1>3, <1>4

LEMMA DefaultIsFound == ASSUME NEW es, DOMAIN es \subseteq Naming PROVE Find(es, Default) = Default
<1>1. Below(Default) \cap DOMAIN es = {}
  BY NothingAbove
<1> QED
  BY <1>1, LabelsAre, FindIs

\* What there is for a domain that has no context of its own.
Fallback == IF Default \in DOMAIN settings THEN Inherited(settings)[Default] ELSE 0

\* The entry that is found, among those there are now, has the context that was meant.
LEMMA MeantIs ==
    ASSUME NEW domain \in Labels, DOMAIN entries \subseteq Naming,
           DOMAIN settings \subseteq DOMAIN entries, DOMAIN entries \subseteq DOMAIN settings \cup {Default}
    PROVE  LET f == Find(entries, domain)
           IN  Meant(domain) = IF f \in DOMAIN settings /\ Inherited(settings)[f] # 0
                               THEN Inherited(settings)[f] ELSE Fallback
<1> DEFINE f == Find(entries, domain)
           found == Below(domain) \cap DOMAIN entries
           covering == {n \in DOMAIN settings : Covers(n, domain)}
           closest == {n \in covering : \A m \in covering : Closer(n, m, domain)}
           inherited == {Inherited(settings)[n] : n \in closest} \ {0}
<1>1. /\ domain \in DOMAIN entries => f = domain
      /\ domain \notin DOMAIN entries /\ found # {} =>
            f \in found /\ \A m \in found : Len(f) >= Len(m)
      /\ domain \notin DOMAIN entries /\ found = {} => f = Default
      /\ f \in DOMAIN entries \cup {Default} /\ f \in Naming
  BY FindIs
<1> HIDE DEF f
<1>2. \A n \in DOMAIN settings : n \in covering <=> n = domain \/ n = Default \/ n \in found
  <2> TAKE n \in DOMAIN settings
  <2>1. n \in Labels /\ n \in DOMAIN entries
    BY DEF Naming
  <2>2. n \in Below(domain) <=> Len(n) > 1 /\ Head(n) = Star /\ IsSuffix(Tail(n), domain)
    BY <2>1, BelowIs
  <2> QED
    BY <2>1, <2>2 DEF Covers
<1>3. domain = Default => found = {}
  BY NothingAbove
<1>4. CASE f \in DOMAIN settings
  <2>1. f \in covering
    BY <1>1, <1>2, <1>4
  <2>2. \A m \in covering : Closer(f, m, domain)
    <3> TAKE m \in covering
    <3>1. m = domain \/ m = Default \/ m \in found
      BY <1>2
    <3>2. m \in DOMAIN entries
      OBVIOUS
    <3> QED
      BY <1>1, <3>1, <3>2 DEF Closer
  <2>3. ASSUME NEW n \in closest PROVE n = f
    <3>1. n \in covering /\ Closer(n, f, domain) /\ n \in DOMAIN entries
      BY <2>1
    <3>2. n = domain \/ n = Default \/ n \in found
      BY <1>2, <3>1
    <3>3. CASE domain \in DOMAIN entries
      BY <1>1, <3>1, <3>3 DEF Closer
    <3>4. CASE domain \notin DOMAIN entries /\ found # {}
      <4>1. f \in found /\ f # domain /\ n # domain
        BY <1>1, <3>1, <3>4
      <4>2. Len(f) \in 2 .. Len(domain) + 1 /\ Len(domain) \in Nat
        BY <4>1, BelowIs DEF Labels
      <4>3. f # Default
        <5>1. ~(Len(f) = 1)
          <6>1. PICK k \in 2 .. Len(domain) + 1 : Len(f) = k
            BY <4>2, Zenon
          <6>2. k # 1
            BY <4>2
          <6> QED
            BY <6>1, <6>2
        <5> QED
          BY <5>1, LabelsAre, Zenon
      <4>4. Len(n) >= Len(f)
        BY <3>1, <4>1, <4>3 DEF Closer
      <4>5. n # Default
        <5>1. ASSUME Len(n) = 1 PROVE FALSE
          <6>1. PICK k \in 2 .. Len(domain) + 1 : Len(f) = k
            BY <4>2, Zenon
          <6>2. 1 >= k
            BY <4>4, <5>1, <6>1, Zenon
          <6> QED
            BY <6>2
        <5>2. ~(Len(n) = 1)
          BY <5>1
        <5> QED
          BY <5>2, LabelsAre, Zenon
      <4>6. n \in found
        BY <3>2, <4>1, <4>5
      <4>7. Len(f) >= Len(n) /\ Len(n) \in Int
        BY <1>1, <3>4, <4>6, BelowIs
      <4>8. Len(n) = Len(f)
        BY <4>2, <4>4, <4>7
      <4> QED
        BY <4>1, <4>6, <4>8, BelowIs
    <3>5. CASE domain \notin DOMAIN entries /\ found = {}
      BY <1>1, <3>1, <3>2, <3>5
    <3> QED
      BY <3>3, <3>4, <3>5
  <2>4. closest = {f}
    BY <2>1, <2>2, <2>3
  <2>5. inherited = {Inherited(settings)[f]} \ {0}
    BY <2>4
  <2>6. Meant(domain) = IF inherited # {} THEN CHOOSE k \in inherited : TRUE ELSE Fallback
    BY DEF Meant, Fallback
  <2> HIDE DEF inherited
  <2> QED
    BY <1>4, <2>5, <2>6 DEF f
<1>5. CASE f \notin DOMAIN settings
  <2>1. f = Default
    BY <1>1, <1>5
  <2>2. domain \notin DOMAIN settings
    BY <1>1, <1>5
  <2>3. found = {}
    <3>1. CASE domain \in DOMAIN entries
      BY <1>1, <1>3, <2>1, <3>1
    <3>2. CASE domain \notin DOMAIN entries
      <4>1. found # {} => f \in found
        BY <1>1, <3>2
      <4>2. Default \notin found
        <5>1. \A n \in found : Len(n) \in 2 .. Len(domain) + 1
          BY BelowIs
        <5>2. \A n \in found : ~(Len(n) = 1)
          <6> TAKE n \in found
          <6>1. PICK k \in 2 .. Len(domain) + 1 : Len(n) = k
            BY <5>1, Zenon
          <6>2. k # 1
            OBVIOUS
          <6> QED
            BY <6>1, <6>2
        <5> QED
          BY <5>2, LabelsAre, Zenon
      <4> QED
        BY <2>1, <4>1, <4>2
    <3> QED
      BY <3>1, <3>2
  <2>4. covering = {}
    BY <1>2, <1>5, <2>1, <2>2, <2>3
  <2>5. inherited = {}
    BY <2>4
  <2>6. Meant(domain) = IF inherited # {} THEN CHOOSE k \in inherited : TRUE ELSE Fallback
    BY DEF Meant, Fallback
  <2> HIDE DEF inherited
  <2> QED
    BY <1>5, <2>5, <2>6 DEF f
<1> QED
  BY <1>4, <1>5

-----------------------------------------------------------------------------
(* The invariant.                                                          *)

\* A parent was there before its child.
Sound(es) == /\ es \in [DOMAIN es -> EntryType] /\ DOMAIN es \subseteq Naming
             /\ \A n \in DOMAIN es : es[n].parent \in DOMAIN es \cup {None}
             /\ \E rank : Ordered(es, rank)

\* A context is used as it was configured, or spoiled.
AsTold(k) == /\ contexts[k].applied \subseteq contexts[k].identities
             /\ contexts[k].hooked => contexts[k].built
             /\ contexts[k].built => contexts[k].enabled
             /\ contexts[k].built /\ k \notin spoiled =>
                   contexts[k].hooked /\ contexts[k].applied = contexts[k].identities

Forms == /\ settings \in [DOMAIN settings -> EntryType]
         /\ contexts \in Seq(ContextType)
         /\ \A n \in DOMAIN entries : entries[n].tls \in 0 .. Len(contexts)
         /\ spoiled \subseteq DOMAIN contexts
         /\ \A k \in DOMAIN contexts : AsTold(k)

\* What is yet to be configured refers to what is there, or will be by then.
Gives(call, n) == /\ call.op = "add" \/ (call.op = "tls" /\ call.name = Default)
                  /\ call.name = n
AnyContext == \E n \in DOMAIN settings : settings[n].tls # 0
Pending ==
    /\ toConfigure \in Seq(Call)
    /\ \A i \in DOMAIN toConfigure :
          /\ toConfigure[i].op = "add" =>
                \/ toConfigure[i].parent \in DOMAIN entries \cup {None}
                \/ \E k \in 1 .. i - 1 : Gives(toConfigure[k], toConfigure[i].parent)
          /\ toConfigure[i].op = "identity" => AnyContext \/ \E k \in 1 .. i - 1 : toConfigure[k].op = "tls"

\* Asking makes an entry for "" at most, and a context that is not enabled.
MadeUp(n) == /\ n = Default /\ entries[n].parent = None
             /\ entries[n].tls = 0 \/ ~contexts[entries[n].tls].enabled
Mirror ==
    /\ DOMAIN settings \subseteq DOMAIN entries /\ DOMAIN entries \subseteq DOMAIN settings \cup {Default}
    /\ \A n \in DOMAIN settings :
          /\ settings[n].parent = entries[n].parent
          /\ settings[n].tls = entries[n].tls \/ (settings[n].tls = 0 /\ MadeUp(n))
    /\ \A n \in DOMAIN entries \ DOMAIN settings : MadeUp(n)

Stages ==
    /\ stage \in [Connections -> {"none", "accepting", "plain", "hello", "switching", "open", "threw"}]
    /\ servername \in [Connections -> Domains \cup {None}]
    /\ using \in [Connections -> Nat]
    /\ asker \in Connections \cup {0}
    /\ asker # 0 => asked \in DOMAIN entries /\ stage[asker] \in {"accepting", "switching"}
    /\ \A c \in Connections :
          /\ stage[c] \in {"accepting", "switching"} => asker = c
          /\ stage[c] \in {"hello", "switching", "open"} => using[c] \in DOMAIN contexts /\ contexts[using[c]].built
          /\ stage[c] = "switching" => servername[c] \in Domains

Wanted(c) == IF stage[c] = "accepting" THEN Default ELSE servername[c]

\* On the way to the context that was meant, or to where there is none but that of "".
Towards(domain) ==
    \/ /\ asked \in DOMAIN settings /\ Inherited(settings)[asked] # 0
       /\ Meant(domain) = Inherited(settings)[asked]
    \/ /\ asked = Default \/ (asked \in DOMAIN settings /\ Inherited(settings)[asked] = 0)
       /\ Meant(domain) = Fallback
Seeking == \A domain \in Labels : asker # 0 /\ domain = Wanted(asker) => Towards(domain)

TlsInv == Sound(entries) /\ Forms /\ Pending /\ Mirror /\ Stages /\ Seeking

-----------------------------------------------------------------------------
(* How entries change.                                                     *)

Adds(es, fs, n, p) == /\ n \notin DOMAIN es /\ DOMAIN fs = DOMAIN es \cup {n}
                      /\ fs \in [DOMAIN fs -> EntryType]
                      /\ \A m \in DOMAIN es : fs[m] = es[m]
                      /\ fs[n].parent = p /\ fs[n].tls = 0

Assigns(es, fs, n, k) == /\ n \in DOMAIN es /\ DOMAIN fs = DOMAIN es
                         /\ fs \in [DOMAIN fs -> EntryType]
                         /\ \A m \in DOMAIN es \ {n} : fs[m] = es[m]
                         /\ fs[n].parent = es[n].parent /\ fs[n].tls = k

LEMMA AddsIs ==
    ASSUME NEW es, es \in [DOMAIN es -> EntryType], NEW n \in Naming, n \notin DOMAIN es, NEW p \in Labels
    PROVE  Adds(es, Put(es, n, p), n, p)
<1> DEFINE fs == Put(es, n, p)
<1>1. fs = [m \in DOMAIN es \cup {n} |-> IF m \in DOMAIN es THEN es[m] ELSE Entry(p, 0)]
  BY DEF Put
<1>2. Entry(p, 0) \in EntryType /\ Entry(p, 0).parent = p /\ Entry(p, 0).tls = 0
  BY DEF Entry, EntryType
<1> HIDE DEF fs
<1> QED
  BY <1>1, <1>2 DEF Adds, fs

LEMMA AssignsIs ==
    ASSUME NEW es, es \in [DOMAIN es -> EntryType], NEW n \in DOMAIN es, NEW k \in Nat
    PROVE  Assigns(es, [es EXCEPT ![n].tls = k], n, k)
<1> DEFINE fs == [es EXCEPT ![n].tls = k]
           new == [es[n] EXCEPT !.tls = k]
<1>1. es[n] \in EntryType /\ es[n] = [parent |-> es[n].parent, tls |-> es[n].tls]
  BY DEF EntryType
<1>2. new = [parent |-> es[n].parent, tls |-> k]
  BY <1>1
<1>3. new \in EntryType /\ new.parent = es[n].parent /\ new.tls = k
  BY <1>1, <1>2 DEF EntryType
<1>4. fs = [es EXCEPT ![n] = new]
  OBVIOUS
<1> HIDE DEF new, fs
<1> QED
  BY <1>3, <1>4 DEF Assigns, fs

LEMMA AddsSound ==
    ASSUME NEW es, NEW fs, NEW n \in Naming, NEW p \in DOMAIN es \cup {None}, Sound(es), Adds(es, fs, n, p)
    PROVE  Sound(fs)
<1>1. PICK rank : Ordered(es, rank)
  BY DEF Sound
<1> DEFINE more == [m \in DOMAIN fs |-> IF m \in DOMAIN es THEN rank[m]
                                       ELSE IF p \in DOMAIN es THEN rank[p] + 1 ELSE 0]
<1>2. n # None /\ None \notin DOMAIN es
  BY DEF Naming, Sound
<1>3. Ordered(fs, more)
  <2>1. rank \in [DOMAIN es -> Nat]
    BY <1>1 DEF Ordered
  <2>2. more \in [DOMAIN fs -> Nat]
    BY <2>1
  <2>3. ASSUME NEW m \in DOMAIN fs, fs[m].parent \in DOMAIN fs PROVE more[fs[m].parent] < more[m]
    <3>1. CASE m \in DOMAIN es
      <4>1. fs[m].parent = es[m].parent /\ es[m].parent \in DOMAIN es \cup {None} /\ None \notin DOMAIN fs
        BY <1>2, <3>1 DEF Adds, Sound
      <4>2. es[m].parent \in DOMAIN es
        BY <2>3, <4>1
      <4> QED
        BY <1>1, <2>3, <3>1, <4>1, <4>2 DEF Ordered
    <3>2. CASE m \notin DOMAIN es
      <4>1. m = n /\ fs[m].parent = p /\ p \in DOMAIN es
        BY <1>2, <2>3, <3>2 DEF Adds
      <4>2. more[p] = rank[p] /\ more[m] = rank[p] + 1 /\ rank[p] \in Nat
        BY <2>1, <2>3, <3>2, <4>1
      <4> QED
        BY <4>1, <4>2
    <3> QED
      BY <3>1, <3>2
  <2> QED
    BY <2>2, <2>3 DEF Ordered
<1> QED
  BY <1>3 DEF Sound, Adds

LEMMA AssignsSound ==
    ASSUME NEW es, NEW fs, NEW n, NEW k, Sound(es), Assigns(es, fs, n, k)
    PROVE  Sound(fs)
<1>1. DOMAIN fs = DOMAIN es /\ \A m \in DOMAIN es : fs[m].parent = es[m].parent
  BY DEF Assigns
<1>2. PICK rank : Ordered(es, rank)
  BY DEF Sound
<1>3. Ordered(fs, rank)
  BY <1>1, <1>2 DEF Ordered
<1> QED
  BY <1>1, <1>3 DEF Sound, Assigns

LEMMA CallIs ==
    ASSUME NEW call \in Call
    PROVE  /\ call.op \in {"add", "tls", "identity"}
           /\ call.op = "add" => call.name \in Naming /\ call.parent \in Labels
           /\ call.op = "tls" => /\ call.name \in Naming /\ call.enabled \in BOOLEAN
                                 /\ call.identities \in SUBSET STRING
           /\ call.op = "identity" => call.identity \in STRING
BY DEF Call

\* What follows of the inheritance among settings.
LEMMA Inherits ==
    ASSUME Sound(entries), Forms, Mirror
    PROVE  \A n \in DOMAIN settings :
              Inherited(settings)[n] = IF settings[n].tls # 0 \/ settings[n].parent \notin DOMAIN settings
                                       THEN settings[n].tls ELSE Inherited(settings)[settings[n].parent]
<1>1. PICK rank : Ordered(entries, rank)
  BY DEF Sound
<1>2. Ordered(settings, [n \in DOMAIN settings |-> rank[n]])
  BY <1>1 DEF Ordered, Mirror
<1> QED
  BY <1>2, InheritedIs DEF Forms

LEMMA SameMeaning ==
    ASSUME UNCHANGED settings, NEW domain
    PROVE  /\ Inherited(settings)' = Inherited(settings)
           /\ UNCHANGED Fallback /\ UNCHANGED Meant(domain)
<1>1. Inherited(settings)' = Inherited(settings)
  BY DEF Inherited
<1>2. UNCHANGED Fallback
  BY <1>1 DEF Fallback
<1>3. UNCHANGED Meant(domain)
  BY <1>1 DEF Meant
<1> QED
  BY <1>1, <1>2, <1>3

LEMMA WithIs ==
    ASSUME NEW es, es \in [DOMAIN es -> EntryType], NEW n \in Naming
    PROVE  IF n \in DOMAIN es THEN With(es, n) = es ELSE Adds(es, With(es, n), n, None)
<1>1. None \in Labels
  BY DEF None, Labels
<1> QED
  BY <1>1, AddsIs DEF With

LEMMA PendingStep ==
    ASSUME Pending, toConfigure # <<>>, toConfigure' = Tail(toConfigure),
           DOMAIN entries \subseteq DOMAIN entries', AnyContext => AnyContext',
           \A n : Gives(Head(toConfigure), n) => n \in DOMAIN entries',
           Head(toConfigure).op = "tls" => AnyContext'
    PROVE  Pending'
<1> DEFINE todo == toConfigure
           N == Len(todo)
<1>1. /\ todo \in Seq(Call) /\ N \in Nat /\ N >= 1 /\ Head(todo) = todo[1]
      /\ Tail(todo) \in Seq(Call) /\ Len(Tail(todo)) = N - 1
      /\ \A i \in 1 .. N - 1 : Tail(todo)[i] = todo[i + 1]
  BY DEF Pending
<1> HIDE DEF N
<1>2. ASSUME NEW i \in 1 .. N - 1
      PROVE  /\ i + 1 \in 1 .. N /\ Tail(todo)[i] = todo[i + 1] /\ (i + 1) - 1 = i
             /\ \A k \in 1 .. i : k = 1 \/ (k - 1 \in 1 .. i - 1 /\ Tail(todo)[k - 1] = todo[k])
  <2>1. i + 1 \in 1 .. N /\ (i + 1) - 1 = i /\ Tail(todo)[i] = todo[i + 1]
    BY <1>1
  <2>2. ASSUME NEW k \in 1 .. i, k # 1 PROVE k - 1 \in 1 .. i - 1 /\ Tail(todo)[k - 1] = todo[k]
    <3>1. k - 1 \in 1 .. i - 1 /\ k - 1 \in 1 .. N - 1 /\ (k - 1) + 1 = k
      BY <1>1, <2>2
    <3> QED
      BY <1>1, <3>1
  <2> QED
    BY <2>1, <2>2
<1>3. ASSUME NEW i \in 1 .. N - 1, Tail(todo)[i].op = "add"
      PROVE  \/ Tail(todo)[i].parent \in DOMAIN entries' \cup {None}
             \/ \E k \in 1 .. i - 1 : Gives(Tail(todo)[k], Tail(todo)[i].parent)
  <2> DEFINE p == todo[i + 1].parent
  <2>1. p \in DOMAIN entries \cup {None} \/ \E k \in 1 .. i : Gives(todo[k], p)
    <3>1. i + 1 \in DOMAIN todo /\ todo[i + 1].op = "add" /\ (i + 1) - 1 = i
      BY <1>1, <1>2, <1>3 DEF N
    <3> QED
      BY <3>1 DEF Pending
  <2>2. ASSUME NEW k \in 1 .. i, Gives(todo[k], p)
        PROVE  p \in DOMAIN entries' \/ \E j \in 1 .. i - 1 : Gives(Tail(todo)[j], p)
    <3>1. k = 1 \/ (k - 1 \in 1 .. i - 1 /\ Tail(todo)[k - 1] = todo[k])
      BY <1>2
    <3> QED
      BY <1>1, <2>2, <3>1
  <2> QED
    BY <1>2, <2>1, <2>2
<1>4. ASSUME NEW i \in 1 .. N - 1, Tail(todo)[i].op = "identity"
      PROVE  AnyContext' \/ \E k \in 1 .. i - 1 : Tail(todo)[k].op = "tls"
  <2>1. AnyContext \/ \E k \in 1 .. i : todo[k].op = "tls"
    <3>1. i + 1 \in DOMAIN todo /\ todo[i + 1].op = "identity" /\ (i + 1) - 1 = i
      BY <1>1, <1>2, <1>4 DEF N
    <3> QED
      BY <3>1 DEF Pending
  <2>2. ASSUME NEW k \in 1 .. i, todo[k].op = "tls"
        PROVE  AnyContext' \/ \E j \in 1 .. i - 1 : Tail(todo)[j].op = "tls"
    <3>1. k = 1 \/ (k - 1 \in 1 .. i - 1 /\ Tail(todo)[k - 1] = todo[k])
      BY <1>2
    <3> QED
      BY <1>1, <2>2, <3>1
  <2> QED
    BY <2>1, <2>2
<1>5. toConfigure' = Tail(todo) /\ DOMAIN Tail(todo) = 1 .. N - 1
  BY <1>1
<1> HIDE DEF todo
<1> QED
  BY <1>1, <1>3, <1>4, <1>5 DEF Pending

LEMMA PendingStays ==
    ASSUME Pending, UNCHANGED <<toConfigure, settings>>, DOMAIN entries \subseteq DOMAIN entries'
    PROVE  Pending'
BY DEF Pending, AnyContext

LEMMA StagesStay ==
    ASSUME Stages, Forms, UNCHANGED connections, asker' = asker, asker # 0 => asked' \in DOMAIN entries',
           DOMAIN contexts \subseteq DOMAIN contexts',
           \A k \in DOMAIN contexts : contexts'[k].built = contexts[k].built
    PROVE  Stages'
BY DEF Stages, connections

-----------------------------------------------------------------------------
(* Each action preserves the invariant.                                    *)

LEMMA ConfiguresIs ==
    ASSUME NEW op, Configures(op), Pending
    PROVE  /\ asker = 0 /\ toConfigure # <<>> /\ toConfigure' = Tail(toConfigure)
           /\ Head(toConfigure) \in Call /\ Head(toConfigure).op = op /\ Head(toConfigure) = toConfigure[1]
           /\ op = "add" => Head(toConfigure).parent \in DOMAIN entries \cup {None}
           /\ op = "identity" => AnyContext
<1>1. asker = 0 /\ toConfigure # <<>> /\ toConfigure' = Tail(toConfigure) /\ Head(toConfigure).op = op
  BY DEF Configures
<1>2. Head(toConfigure) \in Call /\ Head(toConfigure) = toConfigure[1] /\ 1 \in DOMAIN toConfigure
  BY <1>1 DEF Pending
<1>3. 1 .. 1 - 1 = {}
  OBVIOUS
<1>4. op = "add" => Head(toConfigure).parent \in DOMAIN entries \cup {None}
  BY <1>1, <1>2, <1>3 DEF Pending
<1>5. op = "identity" => AnyContext
  BY <1>1, <1>2, <1>3 DEF Pending
<1> QED
  BY <1>1, <1>2, <1>4, <1>5

LEMMA AddStep == ASSUME TlsInv, Add, UNCHANGED connections PROVE TlsInv'
<1> DEFINE new == Head(toConfigure)
<1>1. /\ asker = 0 /\ toConfigure # <<>> /\ toConfigure' = Tail(toConfigure)
      /\ new \in Call /\ new.op = "add" /\ new.parent \in DOMAIN entries \cup {None}
  BY ConfiguresIs DEF Add, TlsInv
<1>2. new.name \in Naming /\ new.parent \in Labels
  BY <1>1, CallIs
<1>3. UNCHANGED <<contexts, spoiled>> /\ asker' = asker
  BY DEF Add, asking
<1>4. CASE new.name \in DOMAIN entries
  <2>1. UNCHANGED <<entries, settings>>
    BY <1>4 DEF Add
  <2>2. Sound(entries)' /\ Forms' /\ Mirror'
    BY <1>3, <2>1 DEF TlsInv, Sound, Ordered, Forms, AsTold, Mirror, MadeUp
  <2>3. Pending'
    BY <1>1, <1>4, <2>1, PendingStep DEF TlsInv, Gives, AnyContext
  <2>4. Stages' /\ Seeking'
    BY <1>1, <1>3, StagesStay DEF TlsInv, Seeking
  <2> QED
    BY <2>2, <2>3, <2>4 DEF TlsInv
<1>5. CASE new.name \notin DOMAIN entries
  <2>1. entries' = Put(entries, new.name, new.parent) /\ settings' = Put(settings, new.name, new.parent)
    BY <1>5 DEF Add
  <2>2. Adds(entries, entries', new.name, new.parent)
    BY <1>2, <1>5, <2>1, AddsIs DEF TlsInv, Sound
  <2>3. Adds(settings, settings', new.name, new.parent)
    BY <1>2, <1>5, <2>1, AddsIs DEF TlsInv, Forms, Mirror
  <2>4. Sound(entries')
    BY <1>1, <1>2, <2>2, AddsSound DEF TlsInv
  <2> HIDE DEF new
  <2>5. Forms'
    <3>1. \A n \in DOMAIN entries' : entries'[n].tls \in 0 .. Len(contexts')
      BY <1>3, <2>2 DEF Adds, TlsInv, Forms
    <3>2. settings' \in [DOMAIN settings' -> EntryType]
      BY <2>3 DEF Adds
    <3> QED
      BY <1>3, <3>1, <3>2 DEF TlsInv, Forms, AsTold
  <2>6. Mirror'
    BY <1>3, <2>2, <2>3 DEF Adds, TlsInv, Mirror, MadeUp
  <2>7. Pending'
    <3>1. AnyContext => AnyContext'
      BY <2>3 DEF Adds, AnyContext
    <3>2. \A n : Gives(new, n) => n \in DOMAIN entries'
      BY <2>2 DEF Adds, Gives
    <3> QED
      BY <1>1, <2>2, <3>1, <3>2, PendingStep DEF Adds, TlsInv, new
  <2>8. Stages' /\ Seeking'
    BY <1>1, <1>3, StagesStay DEF TlsInv, Seeking
  <2> QED
    BY <2>4, <2>5, <2>6, <2>7, <2>8 DEF TlsInv
<1> QED
  BY <1>4, <1>5

LEMMA MakeStep == ASSUME TlsInv, MakeTlsContext, UNCHANGED connections PROVE TlsInv'
<1> DEFINE new == Head(toConfigure)
           n == Find(entries, new.name)
           K == Len(contexts) + 1
           es == With(entries, n)
           ss == With(settings, n)
<1>1. /\ asker = 0 /\ toConfigure # <<>> /\ toConfigure' = Tail(toConfigure)
      /\ new \in Call /\ new.op = "tls"
  BY ConfiguresIs DEF MakeTlsContext, TlsInv
<1>2. new.name \in Naming /\ new.enabled \in BOOLEAN /\ new.identities \in SUBSET STRING
  BY <1>1, CallIs
<1>3. n \in Naming /\ n \in DOMAIN entries \cup {Default} /\ (new.name = Default => n = Default)
  BY <1>2, FindIs, DefaultIsFound DEF TlsInv, Sound, Naming
<1>4. UNCHANGED <<spoiled>> /\ asker' = asker
  BY DEF MakeTlsContext, asking
<1>5. entries' = [es EXCEPT ![n].tls = K] /\ settings' = [ss EXCEPT ![n].tls = K]
  BY DEF MakeTlsContext
<1>6. contexts' = Append(contexts, Context(new.enabled, new.identities))
  BY DEF MakeTlsContext
<1>7. IF n \in DOMAIN entries THEN es = entries ELSE Adds(entries, es, n, None)
  BY <1>3, WithIs DEF TlsInv, Sound
<1>8. IF n \in DOMAIN settings THEN ss = settings ELSE Adds(settings, ss, n, None)
  BY <1>3, WithIs DEF TlsInv, Forms
<1>9. contexts \in Seq(ContextType) /\ Len(contexts) \in Nat /\ K \in Nat
  BY DEF TlsInv, Forms
<1> HIDE DEF n, es, ss
<1>10. Sound(es) /\ n \in DOMAIN es /\ DOMAIN es = DOMAIN entries \cup {n}
  BY <1>3, <1>7, AddsSound DEF Adds, TlsInv
<1>11. Assigns(es, entries', n, K)
  BY <1>5, <1>9, <1>10, AssignsIs DEF Sound
<1>12. Assigns(ss, settings', n, K)
  <2>1. ss \in [DOMAIN ss -> EntryType] /\ n \in DOMAIN ss
    BY <1>8 DEF Adds, TlsInv, Forms
  <2> QED
    BY <1>5, <1>9, <2>1, AssignsIs
<1>13. Sound(entries')
  BY <1>10, <1>11, AssignsSound
<1> DEFINE x == Context(new.enabled, new.identities)
<1>14. /\ contexts' \in Seq(ContextType) /\ Len(contexts') = K /\ contexts'[K] = x
       /\ \A k \in DOMAIN contexts : k \in DOMAIN contexts' /\ contexts'[k] = contexts[k] /\ k # K
       /\ \A k \in DOMAIN contexts' : k = K \/ k \in DOMAIN contexts
       /\ ~x.built /\ ~x.hooked /\ x.applied = {}
  <2>1. x \in ContextType /\ ~x.built /\ ~x.hooked /\ x.applied = {}
    BY <1>2 DEF Context, ContextType
  <2> HIDE DEF x
  <2> QED
    BY <1>6, <1>9, <2>1 DEF x
<1> HIDE DEF K, x
<1>15. /\ DOMAIN entries' = DOMAIN entries \cup {n} /\ DOMAIN settings' = DOMAIN settings \cup {n}
       /\ \A m \in DOMAIN entries \ {n} : entries'[m] = entries[m]
       /\ \A m \in DOMAIN settings \ {n} : settings'[m] = settings[m]
       /\ entries'[n].tls = K /\ settings'[n].tls = K
       /\ entries'[n].parent = IF n \in DOMAIN entries THEN entries[n].parent ELSE None
       /\ settings'[n].parent = IF n \in DOMAIN settings THEN settings[n].parent ELSE None
       /\ settings' \in [DOMAIN settings' -> EntryType]
  BY <1>7, <1>8, <1>11, <1>12 DEF Adds, Assigns
<1>16. \A k \in 0 .. Len(contexts) : k \in 0 .. Len(contexts') /\ k # K
  BY <1>9, <1>14 DEF K
<1>17. Forms'
  <2>1. \A m \in DOMAIN entries' : entries'[m].tls \in 0 .. Len(contexts')
    BY <1>9, <1>14, <1>15, <1>16 DEF TlsInv, Forms
  <2>2. spoiled' \subseteq DOMAIN contexts'
    BY <1>4, <1>14 DEF TlsInv, Forms
  <2>3. \A k \in DOMAIN contexts' : AsTold(k)'
    BY <1>4, <1>14 DEF TlsInv, Forms, AsTold
  <2> QED
    BY <1>14, <1>15, <2>1, <2>2, <2>3 DEF Forms
<1>18. \A m \in DOMAIN entries \ {n} : MadeUp(m) => MadeUp(m)'
  <2> SUFFICES ASSUME NEW m \in DOMAIN entries \ {n}, MadeUp(m) PROVE MadeUp(m)'
    OBVIOUS
  <2>1. entries[m].tls = 0 \/ entries[m].tls \in DOMAIN contexts
    BY <1>9 DEF TlsInv, Forms
  <2> QED
    BY <1>14, <1>15, <2>1 DEF MadeUp
<1>19. Mirror'
  <2>1. /\ DOMAIN settings' \subseteq DOMAIN entries' /\ DOMAIN entries' \subseteq DOMAIN settings' \cup {Default}
    BY <1>15 DEF TlsInv, Mirror
  <2>2. ASSUME NEW m \in DOMAIN settings'
        PROVE  /\ settings'[m].parent = entries'[m].parent
               /\ settings'[m].tls = entries'[m].tls \/ (settings'[m].tls = 0 /\ MadeUp(m)')
    <3>1. CASE m = n
      <4>1. n \in DOMAIN entries \ DOMAIN settings => entries[n].parent = None
        BY DEF TlsInv, Mirror, MadeUp
      <4> QED
        BY <1>15, <3>1, <4>1 DEF TlsInv, Mirror
    <3>2. CASE m # n
      BY <1>15, <1>18, <2>2, <3>2 DEF TlsInv, Mirror
    <3> QED
      BY <3>1, <3>2
  <2>3. \A m \in DOMAIN entries' \ DOMAIN settings' : MadeUp(m)'
    BY <1>15, <1>18 DEF TlsInv, Mirror
  <2> QED
    BY <2>1, <2>2, <2>3 DEF Mirror
<1>20. Pending'
  <2>1. AnyContext'
    BY <1>9, <1>15 DEF AnyContext, K
  <2>2. \A m : Gives(new, m) => m \in DOMAIN entries'
    BY <1>1, <1>3, <1>15 DEF Gives
  <2> QED
    BY <1>1, <1>15, <2>1, <2>2, PendingStep DEF TlsInv
<1>21. Stages' /\ Seeking'
  BY <1>1, <1>4, <1>14, StagesStay DEF TlsInv, Seeking
<1> QED
  BY <1>13, <1>17, <1>19, <1>20, <1>21 DEF TlsInv

LEMMA IdentityStep == ASSUME TlsInv, AddIdentity, UNCHANGED connections PROVE TlsInv'
<1> DEFINE new == Head(toConfigure)
           T == {settings[n].tls : n \in DOMAIN settings}
           k == Max(T)
           more == contexts[k].identities \cup {new.identity}
           x == [contexts[k] EXCEPT !.identities = more]
<1>1. /\ asker = 0 /\ toConfigure # <<>> /\ toConfigure' = Tail(toConfigure)
      /\ new \in Call /\ new.op = "identity" /\ AnyContext
  BY ConfiguresIs DEF AddIdentity, TlsInv
<1>2. new.identity \in STRING
  BY <1>1, CallIs
<1>3. UNCHANGED <<entries, settings>> /\ asker' = asker
  BY DEF AddIdentity, asking
<1>4. contexts \in Seq(ContextType) /\ Len(contexts) \in Nat /\ DOMAIN contexts = 1 .. Len(contexts)
  BY DEF TlsInv, Forms
<1>5. k \in DOMAIN contexts
  <2>1. \A n \in DOMAIN settings : settings[n].tls \in 0 .. Len(contexts)
    BY <1>4 DEF TlsInv, Forms, Mirror
  <2>2. PICK n \in DOMAIN settings : settings[n].tls # 0
    BY <1>1 DEF AnyContext
  <2>3. T \in SUBSET (0 .. Len(contexts)) /\ settings[n].tls \in T
    BY <2>1
  <2>4. T # {}
    BY <2>3
  <2> HIDE DEF T
  <2>5. k \in T /\ settings[n].tls <= k
    BY <1>4, <2>3, <2>4, MaxIs
  <2> HIDE DEF k
  <2> QED
    BY <1>4, <2>1, <2>2, <2>3, <2>5
<1> HIDE DEF k
<1>6. contexts' = [contexts EXCEPT ![k] = x] /\ spoiled' = IF contexts[k].built THEN spoiled \cup {k} ELSE spoiled
  BY DEF AddIdentity, k
<1>7. /\ x \in ContextType /\ x.built = contexts[k].built /\ x.hooked = contexts[k].hooked
      /\ x.enabled = contexts[k].enabled /\ x.applied = contexts[k].applied /\ x.identities = more
  <2>1. contexts[k] \in ContextType
    BY <1>4, <1>5
  <2>2. more \in SUBSET STRING
    BY <1>2, <2>1 DEF ContextType
  <2> HIDE DEF more
  <2>3. contexts[k] = [enabled |-> contexts[k].enabled, identities |-> contexts[k].identities,
                       built |-> contexts[k].built, applied |-> contexts[k].applied,
                       hooked |-> contexts[k].hooked]
    BY <2>1 DEF ContextType
  <2>4. x = [enabled |-> contexts[k].enabled, identities |-> more,
             built |-> contexts[k].built, applied |-> contexts[k].applied,
             hooked |-> contexts[k].hooked]
    BY <2>3
  <2> HIDE DEF x
  <2> QED
    BY <2>1, <2>2, <2>4 DEF ContextType
<1>8. contexts[k].identities \subseteq more
  OBVIOUS
<1> HIDE DEF x, more, new
<1>9. /\ contexts' \in Seq(ContextType) /\ DOMAIN contexts' = DOMAIN contexts /\ Len(contexts') = Len(contexts)
      /\ contexts'[k] = x /\ \A j \in DOMAIN contexts \ {k} : contexts'[j] = contexts[j]
  BY <1>4, <1>5, <1>6, <1>7
<1>10. Sound(entries)'
  BY <1>3 DEF TlsInv, Sound, Ordered
<1>11. Forms'
  <2>1. spoiled' \subseteq DOMAIN contexts'
    BY <1>5, <1>6, <1>9 DEF TlsInv, Forms
  <2>2. ASSUME NEW j \in DOMAIN contexts' PROVE AsTold(j)'
    <3>1. AsTold(j)
      BY <1>9 DEF TlsInv, Forms
    <3> QED
      BY <1>6, <1>7, <1>8, <1>9, <3>1 DEF AsTold
  <2> QED
    BY <1>3, <1>9, <2>1, <2>2 DEF TlsInv, Forms
<1>12. \A j \in DOMAIN contexts : contexts'[j].enabled = contexts[j].enabled /\ contexts'[j].built = contexts[j].built
  BY <1>7, <1>9
<1>13. Mirror'
  <2>1. \A n \in DOMAIN entries : MadeUp(n) => MadeUp(n)'
    <3> SUFFICES ASSUME NEW n \in DOMAIN entries, MadeUp(n) PROVE MadeUp(n)'
      OBVIOUS
    <3>1. entries[n].tls = 0 \/ entries[n].tls \in DOMAIN contexts
      BY <1>4 DEF TlsInv, Forms
    <3> QED
      BY <1>3, <1>12, <3>1 DEF MadeUp
  <2> QED
    BY <1>3, <2>1 DEF TlsInv, Mirror
<1>14. Pending'
  <2>1. AnyContext' /\ \A m : ~Gives(new, m)
    BY <1>1, <1>3 DEF AnyContext, Gives, new
  <2> QED
    BY <1>1, <1>3, <2>1, PendingStep DEF TlsInv, new
<1>15. Stages' /\ Seeking'
  BY <1>1, <1>3, <1>9, <1>12, StagesStay DEF TlsInv, Seeking
<1> QED
  BY <1>10, <1>11, <1>13, <1>14, <1>15 DEF TlsInv

LEMMA WithStep ==
    ASSUME TlsInv, NEW n \in Naming, n \in DOMAIN entries \cup {Default}, entries' = With(entries, n),
           UNCHANGED <<toConfigure, contexts, settings, spoiled>>
    PROVE  /\ Sound(entries)' /\ Forms' /\ Pending' /\ Mirror'
           /\ n \in DOMAIN entries' /\ DOMAIN entries \subseteq DOMAIN entries'
<1>1. IF n \in DOMAIN entries THEN entries' = entries ELSE Adds(entries, entries', n, None)
  BY WithIs DEF TlsInv, Sound
<1>2. CASE n \in DOMAIN entries
  <2>1. entries' = entries
    BY <1>1, <1>2
  <2> QED
    <3>1. Sound(entries)' /\ n \in DOMAIN entries' /\ DOMAIN entries \subseteq DOMAIN entries'
      BY <1>2, <2>1 DEF TlsInv, Sound, Ordered
    <3>2. Forms'
      BY <2>1 DEF TlsInv, Forms, AsTold
    <3>3. Pending'
      BY <2>1 DEF TlsInv, Pending, AnyContext
    <3>4. Mirror'
      BY <2>1 DEF TlsInv, Mirror, MadeUp
    <3> QED
      BY <3>1, <3>2, <3>3, <3>4
<1>3. CASE n \notin DOMAIN entries
  <2>1. Adds(entries, entries', n, None) /\ n = Default
    BY <1>1, <1>3
  <2>2. Sound(entries')
    BY <2>1, AddsSound DEF TlsInv
  <2>3. Forms'
    <3>1. \A m \in DOMAIN entries' : entries'[m].tls \in 0 .. Len(contexts)
      BY <2>1 DEF Adds, TlsInv, Forms
    <3> QED
      BY <3>1 DEF TlsInv, Forms, AsTold
  <2>4. Mirror'
    <3>1. n \notin DOMAIN settings
      BY <1>3 DEF TlsInv, Mirror
    <3>2. MadeUp(n)'
      BY <2>1 DEF Adds, MadeUp
    <3>3. \A m \in DOMAIN entries : entries'[m] = entries[m] /\ (MadeUp(m)' <=> MadeUp(m))
      BY <2>1 DEF Adds, MadeUp
    <3>4. DOMAIN entries' = DOMAIN entries \cup {n}
      BY <2>1 DEF Adds
    <3> QED
      BY <2>1, <3>1, <3>2, <3>3, <3>4 DEF TlsInv, Mirror
  <2>5. n \in DOMAIN entries' /\ DOMAIN entries \subseteq DOMAIN entries'
    BY <2>1 DEF Adds
  <2>6. Pending'
    BY <2>5, PendingStays DEF TlsInv
  <2> QED
    BY <2>2, <2>3, <2>4, <2>5, <2>6
<1> QED
  BY <1>2, <1>3

LEMMA AskStep ==
    ASSUME TlsInv, NEW c, NEW domain \in Labels, Ask(c, domain)
    PROVE  /\ Sound(entries)' /\ Forms' /\ Pending' /\ Mirror'
           /\ asker = 0 /\ asker' = c /\ asked' \in DOMAIN entries' /\ contexts' = contexts /\ Towards(domain)'
<1> DEFINE f == Find(entries, domain)
<1>1. /\ asker = 0 /\ asker' = c /\ asked' = f /\ entries' = With(entries, f)
      /\ UNCHANGED <<toConfigure, contexts, settings, spoiled>>
  BY DEF Ask
<1>2. f \in Naming /\ f \in DOMAIN entries \cup {Default}
  BY FindIs DEF TlsInv, Sound
<1>3. Meant(domain) = IF f \in DOMAIN settings /\ Inherited(settings)[f] # 0
                      THEN Inherited(settings)[f] ELSE Fallback
  BY MeantIs DEF TlsInv, Sound, Mirror
<1> HIDE DEF f
<1>4. /\ Sound(entries)' /\ Forms' /\ Pending' /\ Mirror' /\ f \in DOMAIN entries'
  BY <1>1, <1>2, WithStep
<1>5. Towards(domain)'
  <2>1. f \in DOMAIN settings \/ f = Default
    BY <1>2 DEF TlsInv, Mirror
  <2>2. /\ Inherited(settings)' = Inherited(settings) /\ Fallback' = Fallback
        /\ Meant(domain)' = Meant(domain)
    BY <1>1, SameMeaning
  <2> QED
    BY <1>1, <1>3, <2>1, <2>2 DEF Towards
<1> QED
  BY <1>1, <1>4, <1>5

LEMMA AcceptStep == ASSUME TlsInv, NEW c \in Connections, Accept(c) PROVE TlsInv'
<1>1. /\ Ask(c, Default) /\ stage[c] = "none" /\ stage' = [stage EXCEPT ![c] = "accepting"]
      /\ UNCHANGED <<using, servername>>
  BY DEF Accept
<1>2. /\ Sound(entries)' /\ Forms' /\ Pending' /\ Mirror'
      /\ asker = 0 /\ asker' = c /\ asked' \in DOMAIN entries' /\ contexts' = contexts /\ Towards(Default)'
  BY <1>1, LabelsAre, AskStep
<1>3. 0 \notin Connections
  BY TlsAssumption DEF Connections
<1>4. Stages'
  BY <1>1, <1>2, <1>3 DEF TlsInv, Stages
<1>5. Seeking'
  <2>1. stage'[c] = "accepting"
    BY <1>1 DEF TlsInv, Stages
  <2> QED
    BY <1>2, <2>1 DEF Seeking, Wanted
<1> QED
  BY <1>2, <1>4, <1>5 DEF TlsInv

LEMMA HelloStep == ASSUME TlsInv, NEW c \in Connections, ClientHello(c) PROVE TlsInv'
<1>1. /\ stage[c] = "hello" /\ asker = 0 /\ using' = using
  BY DEF ClientHello
<1>2. PICK d \in Domains \cup {None} : servername' = [servername EXCEPT ![c] = d]
  BY DEF ClientHello
<1>3. servername'[c] = d /\ servername' \in [Connections -> Domains \cup {None}]
  BY <1>2 DEF TlsInv, Stages
<1>4. 0 \notin Connections
  BY TlsAssumption DEF Connections
<1>5. CASE servername'[c] = None \/ ~contexts[using[c]].hooked
  <2>1. stage' = [stage EXCEPT ![c] = "open"] /\ UNCHANGED entriesVars
    BY <1>5 DEF ClientHello
  <2>2. UNCHANGED <<toConfigure, entries, contexts, asker, asked, settings, spoiled>>
    BY <2>1 DEF entriesVars, asking
  <2>3. Sound(entries)' /\ Forms' /\ Pending' /\ Mirror'
    BY <2>2 DEF TlsInv, Sound, Ordered, Forms, AsTold, Mirror, MadeUp, Pending, AnyContext
  <2>4. Stages'
    BY <1>1, <1>2, <1>3, <1>4, <2>1, <2>2 DEF TlsInv, Stages
  <2>5. Seeking'
    BY <1>1, <2>2 DEF Seeking
  <2> QED
    BY <2>3, <2>4, <2>5 DEF TlsInv
<1>6. CASE ~(servername'[c] = None \/ ~contexts[using[c]].hooked)
  <2>1. stage' = [stage EXCEPT ![c] = "switching"] /\ Ask(c, servername'[c])
    BY <1>6 DEF ClientHello
  <2>2. d \in Domains /\ d \in Labels
    BY <1>3, <1>6, TlsAssumption
  <2>3. Ask(c, d)
    BY <1>3, <2>1
  <2>4. /\ Sound(entries)' /\ Forms' /\ Pending' /\ Mirror'
        /\ asker = 0 /\ asker' = c /\ asked' \in DOMAIN entries' /\ contexts' = contexts /\ Towards(d)'
    BY <2>2, <2>3, AskStep
  <2>5. Stages'
    BY <1>1, <1>2, <1>3, <1>4, <2>1, <2>2, <2>4 DEF TlsInv, Stages
  <2>6. Seeking'
    <3>1. stage'[c] = "switching"
      BY <2>1 DEF TlsInv, Stages
    <3> QED
      BY <1>3, <2>4, <3>1 DEF Seeking, Wanted
  <2> QED
    BY <2>4, <2>5, <2>6 DEF TlsInv
<1> QED
  BY <1>5, <1>6

\* Wherever it is, what the context will be does not change.
LEMMA SeekingStep ==
    ASSUME TlsInv, UNCHANGED connections, asker' = asker, asker # 0, UNCHANGED settings,
           \A domain \in Labels : Towards(domain) =>
              \/ /\ asked' \in DOMAIN settings /\ Inherited(settings)[asked'] # 0
                 /\ Meant(domain) = Inherited(settings)[asked']
              \/ /\ asked' = Default \/ (asked' \in DOMAIN settings /\ Inherited(settings)[asked'] = 0)
                 /\ Meant(domain) = Fallback
    PROVE  Seeking'
<1> SUFFICES ASSUME NEW domain \in Labels, domain = Wanted(asker)' PROVE Towards(domain)'
  BY DEF Seeking
<1>1. domain = Wanted(asker)
  BY DEF Wanted, connections
<1>2. Towards(domain)
  BY <1>1 DEF TlsInv, Seeking
<1>3. /\ Inherited(settings)' = Inherited(settings) /\ Fallback' = Fallback
      /\ Meant(domain)' = Meant(domain)
  BY SameMeaning
<1> QED
  BY <1>2, <1>3 DEF Towards

LEMMA ParentStep == ASSUME TlsInv, AskParent, UNCHANGED connections PROVE TlsInv'
<1>1. /\ asker # 0 /\ entries[asked].tls = 0 /\ entries[asked].parent # None
      /\ asked' = entries[asked].parent
      /\ UNCHANGED <<toConfigure, entries, contexts, asker, settings, spoiled>>
  BY DEF AskParent, Lacks
<1>2. asked \in DOMAIN entries /\ asked' \in DOMAIN entries
  BY <1>1 DEF TlsInv, Stages, Sound
<1>3. Sound(entries)' /\ Forms' /\ Pending' /\ Mirror'
  <2>1. Sound(entries)' /\ Forms'
    BY <1>1 DEF TlsInv, Sound, Ordered, Forms, AsTold
  <2>2. Pending' /\ Mirror'
    BY <1>1 DEF TlsInv, Mirror, MadeUp, Pending, AnyContext
  <2> QED
    BY <2>1, <2>2
<1>4. Stages'
  BY <1>1, <1>2, StagesStay DEF TlsInv
<1>5. Seeking'
  <2> DEFINE Own(n) == Inherited(settings)[n]
  <2>1. asked' \in DOMAIN settings \/ asked' = Default
    BY <1>2 DEF TlsInv, Mirror
  <2>2. ASSUME asked \in DOMAIN settings
        PROVE  Own(asked) = IF asked' \in DOMAIN settings THEN Own(asked') ELSE 0
    <3>1. settings[asked].parent = asked' /\ settings[asked].tls = 0
      BY <1>1, <2>2 DEF TlsInv, Mirror
    <3> QED
      BY <2>2, <3>1, Inherits DEF TlsInv
  <2>3. asked \in DOMAIN settings
    BY <1>1, <1>2 DEF TlsInv, Mirror, MadeUp
  <2>4. asked = Default => Fallback = Own(asked)
    BY <2>3 DEF Fallback
  <2> HIDE DEF Own
  <2>5. \A domain \in Labels : Towards(domain) =>
              \/ /\ asked' \in DOMAIN settings /\ Own(asked') # 0
                 /\ Meant(domain) = Own(asked')
              \/ /\ asked' = Default \/ (asked' \in DOMAIN settings /\ Own(asked') = 0)
                 /\ Meant(domain) = Fallback
    BY <2>1, <2>2, <2>3, <2>4 DEF Towards, Own
  <2> QED
    BY <1>1, <2>5, SeekingStep DEF Own
<1> QED
  BY <1>3, <1>4, <1>5 DEF TlsInv

LEMMA DefaultStep == ASSUME TlsInv, AskDefault, UNCHANGED connections PROVE TlsInv'
<1>1. /\ asker # 0 /\ entries[asked].tls = 0 /\ entries[asked].parent = None
      /\ IF asked = Default THEN MakeHere ELSE AskAgain
      /\ UNCHANGED <<toConfigure, asker, settings, spoiled>>
  BY DEF AskDefault, Lacks
<1>2. asked \in DOMAIN entries /\ None \notin DOMAIN settings
  BY <1>1 DEF TlsInv, Stages, Sound, Mirror, Naming
<1>3. CASE asked = Default
  <2> DEFINE K == Len(contexts) + 1
             x == Context(FALSE, {})
  <2>1. /\ contexts' = Append(contexts, x) /\ entries' = [entries EXCEPT ![Default].tls = Len(contexts')]
        /\ asked' = asked
    BY <1>1, <1>3 DEF MakeHere
  <2>2. contexts \in Seq(ContextType) /\ Len(contexts) \in Nat /\ K \in Nat /\ DOMAIN contexts = 1 .. Len(contexts)
    BY DEF TlsInv, Forms
  <2>3. x \in ContextType /\ ~x.built /\ ~x.hooked /\ x.applied = {} /\ ~x.enabled
    BY DEF Context, ContextType
  <2> HIDE DEF x
  <2>4. /\ contexts' \in Seq(ContextType) /\ Len(contexts') = K /\ contexts'[K] = x
        /\ \A k \in DOMAIN contexts : k \in DOMAIN contexts' /\ contexts'[k] = contexts[k]
        /\ \A k \in DOMAIN contexts' : k = K \/ k \in DOMAIN contexts
        /\ \A k \in 0 .. Len(contexts) : k \in 0 .. Len(contexts')
        /\ K \in 0 .. Len(contexts') /\ K \notin DOMAIN contexts
    BY <2>1, <2>2, <2>3
  <2> HIDE DEF K
  <2>5. Assigns(entries, entries', Default, K)
    BY <1>2, <1>3, <2>1, <2>2, <2>4, AssignsIs DEF TlsInv, Sound
  <2>6. Sound(entries')
    BY <2>5, AssignsSound DEF TlsInv
  <2>7. Forms'
    <3>1. \A n \in DOMAIN entries' : entries'[n].tls \in 0 .. Len(contexts')
      BY <2>4, <2>5 DEF Assigns, TlsInv, Forms
    <3>2. spoiled' \subseteq DOMAIN contexts'
      BY <1>1, <2>4 DEF TlsInv, Forms
    <3>3. \A k \in DOMAIN contexts' : AsTold(k)'
      BY <1>1, <2>3, <2>4 DEF TlsInv, Forms, AsTold
    <3> QED
      BY <1>1, <2>4, <3>1, <3>2, <3>3 DEF TlsInv, Forms
  <2>8. Mirror'
    <3>1. MadeUp(Default)'
      BY <1>1, <1>3, <2>3, <2>4, <2>5 DEF Assigns, MadeUp
    <3>2. ASSUME NEW n \in DOMAIN entries, n # Default
          PROVE  entries'[n] = entries[n] /\ ~MadeUp(n)
      BY <2>5, <3>2 DEF Assigns, MadeUp
    <3>3. /\ DOMAIN entries' = DOMAIN entries
          /\ \A n \in DOMAIN entries : entries'[n].parent = entries[n].parent
      BY <2>5 DEF Assigns
    <3>4. Default \in DOMAIN settings => settings[Default].tls = 0
      BY <1>1, <1>3 DEF TlsInv, Mirror
    <3>5. settings' = settings
      BY <1>1
    <3>6. \A n \in DOMAIN settings' :
             /\ settings'[n].parent = entries'[n].parent
             /\ settings'[n].tls = entries'[n].tls \/ (settings'[n].tls = 0 /\ MadeUp(n)')
      BY <3>1, <3>2, <3>3, <3>4, <3>5 DEF TlsInv, Mirror
    <3>7. \A n \in DOMAIN entries' \ DOMAIN settings' : MadeUp(n)'
      BY <3>1, <3>3, <3>5 DEF TlsInv, Mirror
    <3> QED
      BY <3>3, <3>5, <3>6, <3>7 DEF TlsInv, Mirror
  <2>9. Pending'
    <3>1. DOMAIN entries \subseteq DOMAIN entries'
      BY <2>5 DEF Assigns
    <3> QED
      BY <1>1, <3>1, PendingStays DEF TlsInv
  <2>10. Stages'
    <3>1. asked' \in DOMAIN entries'
      BY <1>2, <2>1, <2>5 DEF Assigns
    <3> QED
      BY <1>1, <2>4, <3>1, StagesStay DEF TlsInv
  <2>11. Seeking'
    <3>1. \A domain \in Labels : Towards(domain) =>
              \/ /\ asked' \in DOMAIN settings /\ Inherited(settings)[asked'] # 0
                 /\ Meant(domain) = Inherited(settings)[asked']
              \/ /\ asked' = Default \/ (asked' \in DOMAIN settings /\ Inherited(settings)[asked'] = 0)
                 /\ Meant(domain) = Fallback
      BY <2>1 DEF Towards
    <3> QED
      BY <1>1, <3>1, SeekingStep
  <2> QED
    BY <2>6, <2>7, <2>8, <2>9, <2>10, <2>11 DEF TlsInv
<1>4. CASE asked # Default
  <2>1. /\ asked' = Default /\ entries' = With(entries, Default) /\ contexts' = contexts
    <3>1. Find(entries, Default) = Default
      BY DefaultIsFound DEF TlsInv, Sound
    <3> QED
      BY <1>1, <1>4, <3>1 DEF AskAgain
  <2>2. Default \in Naming
    BY LabelsAre, FindIs, DefaultIsFound DEF TlsInv, Sound
  <2>3. /\ Sound(entries)' /\ Forms' /\ Pending' /\ Mirror' /\ asked' \in DOMAIN entries'
    BY <1>1, <2>1, <2>2, WithStep
  <2>4. Stages'
    BY <1>1, <2>1, <2>3, StagesStay DEF TlsInv
  <2>5. Seeking'
    <3>1. asked \in DOMAIN settings
      BY <1>2, <1>4 DEF TlsInv, Mirror
    <3>2. settings[asked].parent = None /\ settings[asked].tls = 0
      BY <1>1, <3>1 DEF TlsInv, Mirror
    <3>3. Inherited(settings)[asked] = 0
      BY <1>2, <3>1, <3>2, Inherits DEF TlsInv
    <3>4. \A domain \in Labels : Towards(domain) => Meant(domain) = Fallback
      BY <3>3 DEF Towards
    <3> QED
      BY <1>1, <2>1, <3>4, SeekingStep
  <2> QED
    BY <2>3, <2>4, <2>5 DEF TlsInv
<1> QED
  BY <1>3, <1>4

\* What building makes of a context.
Throwing(k) == contexts[k].enabled /\ ~contexts[k].built /\ ~Loads(k)
LEMMA BuildIs ==
    ASSUME TlsInv, NEW k \in DOMAIN contexts, NEW b \in Build(k)
    PROVE  /\ b \in ContextType /\ b.enabled = contexts[k].enabled /\ b.identities = contexts[k].identities
           /\ contexts[k].built => b = contexts[k] /\ b.built
           /\ b.applied \subseteq b.identities /\ (b.hooked => b.built) /\ (b.built => b.enabled)
           /\ b.enabled => b.built
           /\ b.built /\ ~Throwing(k) /\ k \notin spoiled => b.hooked /\ b.applied = b.identities
<1> DEFINE x == contexts[k]
           made(applied, hooked) == [enabled |-> x.enabled, identities |-> x.identities, built |-> TRUE,
                                     applied |-> applied, hooked |-> hooked]
<1>1. x \in ContextType /\ AsTold(k)
  BY DEF TlsInv, Forms
<1>2. x = [enabled |-> x.enabled, identities |-> x.identities, built |-> x.built,
           applied |-> x.applied, hooked |-> x.hooked]
  BY <1>1 DEF ContextType
<1>3. CASE x.built \/ ~x.enabled
  <2>1. b = x
    BY <1>3 DEF Build
  <2> QED
    BY <1>1, <1>3, <2>1 DEF AsTold, Throwing
<1>4. CASE ~x.built /\ x.enabled /\ Loads(k)
  <2>1. b = [x EXCEPT !.built = TRUE, !.applied = x.identities, !.hooked = TRUE]
    BY <1>4 DEF Build
  <2>2. b = made(x.identities, TRUE)
    BY <1>2, <2>1
  <2> QED
    BY <1>1, <1>4, <2>2 DEF ContextType, AsTold, Throwing
<1>5. CASE ~x.built /\ x.enabled /\ ~Loads(k)
  <2>1. PICK some \in SUBSET (x.identities \ Unreadable) : b = [x EXCEPT !.built = TRUE, !.applied = some]
    BY <1>5 DEF Build
  <2>2. b = made(some, x.hooked)
    BY <1>2, <2>1
  <2>3. some \subseteq x.identities
    OBVIOUS
  <2> QED
    BY <1>1, <1>5, <2>2, <2>3 DEF ContextType, AsTold, Throwing
<1> QED
  BY <1>3, <1>4, <1>5

LEMMA AnswerIs ==
    ASSUME TlsInv, NEW c \in Connections, asker = c, ~Lacks
    PROVE  LET k == entries[asked].tls
           IN  /\ k \in DOMAIN contexts /\ Wanted(c) \in Labels
               /\ k = Meant(Wanted(c)) \/ (~contexts[k].enabled /\ ~Enabled(Meant(Wanted(c))))
<1> DEFINE k == entries[asked].tls
           Own(n) == Inherited(settings)[n]
<1>1. asker # 0
  BY TlsAssumption DEF Connections
<1>2. asked \in DOMAIN entries /\ k # 0
  BY <1>1 DEF TlsInv, Stages, Lacks
<1>3. k \in DOMAIN contexts
  BY <1>2 DEF TlsInv, Forms
<1>4. Wanted(c) \in Labels
  BY <1>1, LabelsAre, TlsAssumption DEF Wanted, TlsInv, Stages
<1>5. Towards(Wanted(c))
  BY <1>1, <1>4 DEF TlsInv, Seeking
<1>6. asked \in DOMAIN settings =>
         \/ settings[asked].tls = k /\ Own(asked) = k
         \/ settings[asked].tls = 0 /\ MadeUp(asked) /\ Own(asked) = 0
  <2> SUFFICES ASSUME asked \in DOMAIN settings
               PROVE  \/ settings[asked].tls = k /\ Own(asked) = k
                      \/ settings[asked].tls = 0 /\ MadeUp(asked) /\ Own(asked) = 0
    OBVIOUS
  <2>1. Own(asked) = IF settings[asked].tls # 0 \/ settings[asked].parent \notin DOMAIN settings
                     THEN settings[asked].tls ELSE Own(settings[asked].parent)
    BY Inherits DEF TlsInv
  <2>2. CASE settings[asked].tls = k
    BY <1>2, <2>1, <2>2
  <2>3. CASE settings[asked].tls # k
    <3>1. settings[asked].tls = 0 /\ MadeUp(asked)
      BY <2>3 DEF TlsInv, Mirror
    <3>2. settings[asked].parent = None /\ None \notin DOMAIN settings
      BY <3>1 DEF MadeUp, TlsInv, Mirror, Sound, Naming
    <3> QED
      BY <2>1, <3>1, <3>2
  <2> QED
    BY <2>2, <2>3
<1>7. asked \notin DOMAIN settings => MadeUp(asked)
  BY <1>2 DEF TlsInv, Mirror
<1>8. MadeUp(asked) => asked = Default /\ ~contexts[k].enabled
  BY <1>2 DEF MadeUp
<1>9. asked = Default => Fallback = IF asked \in DOMAIN settings THEN Own(asked) ELSE 0
  BY DEF Fallback
<1> HIDE DEF k, Own
<1>10. \/ asked \in DOMAIN settings /\ Own(asked) # 0 /\ Meant(Wanted(c)) = Own(asked)
       \/ /\ asked = Default \/ (asked \in DOMAIN settings /\ Own(asked) = 0)
          /\ Meant(Wanted(c)) = Fallback
  BY <1>5 DEF Towards, Own
<1>11. k = Meant(Wanted(c)) \/ (~contexts[k].enabled /\ Meant(Wanted(c)) = 0)
  BY <1>2, <1>6, <1>7, <1>8, <1>9, <1>10
<1> QED
  BY <1>3, <1>4, <1>11 DEF Enabled, k

LEMMA AnswerStep == ASSUME TlsInv, NEW c \in Connections, Answer(c) PROVE TlsInv'
<1> DEFINE k == entries[asked].tls
<1>1. /\ asker = c /\ ~Lacks /\ asker' = 0
      /\ UNCHANGED <<toConfigure, entries, settings, servername>>
  BY DEF Answer
<1>2. /\ spoiled' = IF Throwing(k) THEN spoiled \cup {k} ELSE spoiled
      /\ using' = IF contexts[k].enabled /\ ~Throwing(k) THEN [using EXCEPT ![c] = k] ELSE using
      /\ stage' = [stage EXCEPT ![c] = IF Throwing(k) THEN "threw"
                                       ELSE IF stage[c] = "switching" THEN "open"
                                       ELSE IF contexts[k].enabled THEN "hello" ELSE "plain"]
  BY DEF Answer, Throwing
<1>3. PICK b \in Build(k) : contexts' = [contexts EXCEPT ![k] = b]
  BY DEF Answer
<1>4. k \in DOMAIN contexts
  BY <1>1, AnswerIs
<1> HIDE DEF k
<1>5. /\ b \in ContextType /\ b.enabled = contexts[k].enabled /\ b.identities = contexts[k].identities
      /\ contexts[k].built => b = contexts[k] /\ b.built
      /\ b.applied \subseteq b.identities /\ (b.hooked => b.built) /\ (b.built => b.enabled)
      /\ b.enabled => b.built
      /\ b.built /\ ~Throwing(k) /\ k \notin spoiled => b.hooked /\ b.applied = b.identities
  BY <1>4, BuildIs
<1>6. contexts \in Seq(ContextType) /\ DOMAIN contexts = 1 .. Len(contexts)
  BY DEF TlsInv, Forms
<1>7. /\ contexts' \in Seq(ContextType) /\ DOMAIN contexts' = DOMAIN contexts /\ Len(contexts') = Len(contexts)
      /\ contexts'[k] = b /\ \A j \in DOMAIN contexts \ {k} : contexts'[j] = contexts[j]
  BY <1>3, <1>4, <1>5, <1>6
<1>8. \A j \in DOMAIN contexts : contexts'[j].enabled = contexts[j].enabled /\ (contexts[j].built => contexts'[j].built)
  BY <1>5, <1>7
<1>9. Sound(entries)' /\ Pending'
  BY <1>1 DEF TlsInv, Sound, Ordered, Pending, AnyContext
<1>10. Forms'
  <2>1. spoiled' \subseteq DOMAIN contexts'
    BY <1>2, <1>4, <1>7 DEF TlsInv, Forms
  <2>2. ASSUME NEW j \in DOMAIN contexts' PROVE AsTold(j)'
    <3>1. CASE j = k
      BY <1>2, <1>5, <1>7, <3>1 DEF AsTold
    <3>2. CASE j # k
      <4>1. AsTold(j) /\ contexts'[j] = contexts[j] /\ (j \in spoiled' <=> j \in spoiled)
        BY <1>2, <1>7, <3>2 DEF TlsInv, Forms
      <4> QED
        BY <4>1 DEF AsTold
    <3> QED
      BY <3>1, <3>2
  <2> QED
    BY <1>1, <1>7, <2>1, <2>2 DEF TlsInv, Forms
<1>11. Mirror'
  <2>1. \A n \in DOMAIN entries : MadeUp(n) => MadeUp(n)'
    <3> SUFFICES ASSUME NEW n \in DOMAIN entries, MadeUp(n) PROVE MadeUp(n)'
      OBVIOUS
    <3>1. entries[n].tls = 0 \/ entries[n].tls \in DOMAIN contexts
      BY <1>6 DEF TlsInv, Forms
    <3> QED
      BY <1>1, <1>8, <3>1 DEF MadeUp
  <2> QED
    BY <1>1, <2>1 DEF TlsInv, Mirror
<1>12. Stages'
  <2> DEFINE to == IF Throwing(k) THEN "threw" ELSE IF stage[c] = "switching" THEN "open"
                   ELSE IF contexts[k].enabled THEN "hello" ELSE "plain"
  <2>1. stage' = [stage EXCEPT ![c] = to] /\ to \in {"plain", "hello", "open", "threw"}
    BY <1>2
  <2>2. to = "open" => stage[c] = "switching"
    OBVIOUS
  <2>3. to = "hello" => contexts[k].enabled /\ ~Throwing(k)
    OBVIOUS
  <2>4. to # "switching" /\ to # "accepting"
    OBVIOUS
  <2> HIDE DEF to
  <2>5. k \in Nat
    BY <1>4, <1>6
  <2>6. using' \in [Connections -> Nat] /\ \A d \in Connections \ {c} : using'[d] = using[d]
    BY <1>2, <2>5 DEF TlsInv, Stages
  <2>7. using'[c] = IF contexts[k].enabled /\ ~Throwing(k) THEN k ELSE using[c]
    BY <1>2 DEF TlsInv, Stages
  <2>8. ASSUME stage'[c] \in {"hello", "switching", "open"}
        PROVE  using'[c] \in DOMAIN contexts' /\ contexts'[using'[c]].built
    <3>1. stage'[c] = to
      BY <2>1 DEF TlsInv, Stages
    <3>2. CASE contexts[k].enabled /\ ~Throwing(k)
      BY <1>4, <1>5, <1>7, <2>7, <3>2
    <3>3. CASE ~(contexts[k].enabled /\ ~Throwing(k))
      <4>1. stage[c] = "switching"
        BY <2>2, <2>3, <2>4, <2>8, <3>1, <3>3
      <4> QED
        BY <1>7, <1>8, <2>7, <3>3, <4>1 DEF TlsInv, Stages
    <3> QED
      BY <3>2, <3>3
  <2>9. \A d \in Connections \ {c} :
           /\ stage'[d] = stage[d] /\ using'[d] = using[d] /\ stage[d] \notin {"accepting", "switching"}
           /\ stage[d] \in {"hello", "switching", "open"} =>
                 using[d] \in DOMAIN contexts' /\ contexts'[using[d]].built
    BY <1>1, <1>7, <1>8, <2>1, <2>6 DEF TlsInv, Stages
  <2>10. stage' \in [Connections -> {"none", "accepting", "plain", "hello", "switching", "open", "threw"}]
    BY <2>1 DEF TlsInv, Stages
  <2>11. stage'[c] = to
    BY <2>1 DEF TlsInv, Stages
  <2> QED
    BY <1>1, <2>4, <2>6, <2>8, <2>9, <2>10, <2>11 DEF TlsInv, Stages
<1>13. Seeking'
  BY <1>1 DEF Seeking
<1> QED
  BY <1>9, <1>10, <1>11, <1>12, <1>13 DEF TlsInv

LEMMA TlsInvInit == HttpsInit => TlsInv
<1> SUFFICES ASSUME HttpsInit PROVE TlsInv
  OBVIOUS
<1> DEFINE tls == visitors.tls
           config == visitors.config
<1>1. visitors \in Sites /\ TlsInit(tls, config)
  BY DEF HttpsInit, Init
<1>2. tls \in BOOLEAN /\ IsConfig(tls, config)
  BY <1>1, HttpsAssumption
<1> HIDE DEF tls, config
<1>3. /\ toConfigure = config /\ settings = entries /\ asker = 0 /\ spoiled = {}
      /\ stage = [c \in Connections |-> "none"] /\ using = [c \in Connections |-> 0]
      /\ servername = [c \in Connections |-> None]
      /\ entries = IF tls THEN [n \in {} |-> Entry(None, 0)] ELSE [n \in {Default} |-> Entry(None, 1)]
      /\ contexts = IF tls THEN <<>> ELSE <<Context(FALSE, {})>>
  BY <1>1 DEF TlsInit, EntriesInit
<1>4. Default \in Naming
  <2>1. Default = Find([n \in {} |-> Entry(None, 0)], Default)
    BY DefaultIsFound
  <2> QED
    BY <2>1, LabelsAre, FindIs
<1>5. Entry(None, 1) \in EntryType /\ Entry(None, 1).parent = None /\ Entry(None, 1).tls = 1
  <2>1. None \in Labels
    BY DEF None, Labels
  <2> QED
    BY <2>1 DEF Entry, EntryType
<1>6. /\ Context(FALSE, {}) \in ContextType /\ ~Context(FALSE, {}).enabled /\ ~Context(FALSE, {}).built
      /\ ~Context(FALSE, {}).hooked /\ Context(FALSE, {}).applied = {}
  BY DEF Context, ContextType
<1>7. IF tls THEN DOMAIN entries = {} ELSE DOMAIN entries = {Default} /\ entries[Default] = Entry(None, 1)
  BY <1>3
<1> DEFINE x == Context(FALSE, {})
<1>8. /\ contexts \in Seq(ContextType)
      /\ tls => DOMAIN contexts = {}
      /\ ~tls => Len(contexts) = 1 /\ DOMAIN contexts = {1} /\ contexts[1] = x
  <2> HIDE DEF x
  <2>1. CASE tls
    BY <1>3, <2>1
  <2>2. CASE ~tls
    <3>1. contexts = <<x>>
      BY <1>3, <2>2 DEF x
    <3>2. <<x>> \in Seq(ContextType) /\ Len(<<x>>) = 1 /\ DOMAIN <<x>> = {1} /\ <<x>>[1] = x
      <4>1. x \in ContextType
        BY <1>6 DEF x
      <4> QED
        BY <4>1
    <3> QED
      BY <2>2, <3>1, <3>2
  <2> QED
    BY <2>1, <2>2
<1> HIDE DEF x
<1>10. entries \in [DOMAIN entries -> EntryType]
  BY <1>3, <1>5, <1>7
<1>11. Sound(entries)
  <2>1. None \notin DOMAIN entries
    BY <1>4, <1>7 DEF Naming
  <2>2. \A n \in DOMAIN entries : entries[n].parent = None
    BY <1>5, <1>7
  <2>3. Ordered(entries, [n \in DOMAIN entries |-> 0])
    BY <2>1, <2>2 DEF Ordered
  <2>4. DOMAIN entries \subseteq Naming
    BY <1>4, <1>7
  <2> QED
    BY <1>10, <2>2, <2>3, <2>4 DEF Sound
<1>12. Forms
  <2>1. \A n \in DOMAIN entries : entries[n].tls \in 0 .. Len(contexts)
    <3>1. CASE tls
      BY <1>7, <3>1
    <3>2. CASE ~tls
      BY <1>5, <1>7, <1>8, <3>2
    <3> QED
      BY <3>1, <3>2
  <2>2. \A k \in DOMAIN contexts : AsTold(k)
    <3>1. ~x.enabled /\ ~x.built /\ ~x.hooked /\ x.applied = {}
      BY <1>6 DEF x
    <3>2. \A k \in DOMAIN contexts : contexts[k] = x
      BY <1>8
    <3> QED
      BY <3>1, <3>2 DEF AsTold
  <2> QED
    BY <1>3, <1>8, <1>10, <2>1, <2>2 DEF Forms
<1>13. Mirror
  BY <1>3 DEF Mirror
<1>14. Pending
  <2>1. config \in Seq(Call)
    BY <1>2 DEF IsConfig
  <2>2. ASSUME NEW i \in DOMAIN config, config[i].op = "add"
        PROVE  \/ config[i].parent \in DOMAIN entries \cup {None}
               \/ \E k \in 1 .. i - 1 : Gives(config[k], config[i].parent)
    <3>1. \/ config[i].parent = None
          \/ config[i].parent = Default /\ ~tls
          \/ \E call \in {config[k] : k \in 1 .. i - 1} : Gives(call, config[i].parent)
      BY <1>2, <2>2 DEF IsConfig, Gives
    <3> QED
      BY <1>7, <3>1
  <2>3. ASSUME NEW i \in DOMAIN config, config[i].op = "identity"
        PROVE  \E k \in 1 .. i - 1 : config[k].op = "tls"
    BY <1>2, <2>3 DEF IsConfig
  <2> QED
    BY <1>3, <2>1, <2>2, <2>3 DEF Pending
<1>15. Stages
  BY <1>3 DEF Stages
<1>16. Seeking
  BY <1>3 DEF Seeking
<1> QED
  BY <1>11, <1>12, <1>13, <1>14, <1>15, <1>16 DEF TlsInv

LEMMA TlsInvStays == ASSUME TlsInv, UNCHANGED tlsVars PROVE TlsInv'
<1>1. /\ UNCHANGED <<toConfigure, entries, contexts, asker, asked, settings, spoiled>>
      /\ UNCHANGED <<stage, using, servername>>
  BY DEF tlsVars, entriesVars, asking, connections
<1>2. Sound(entries)' /\ Forms' /\ Pending' /\ Mirror' /\ Stages'
  <2>1. Sound(entries)' /\ Forms'
    BY <1>1 DEF TlsInv, Sound, Ordered, Forms, AsTold
  <2>2. Pending' /\ Mirror'
    BY <1>1 DEF TlsInv, Mirror, MadeUp, Pending, AnyContext
  <2>3. Stages'
    BY <1>1 DEF TlsInv, Stages
  <2> QED
    BY <2>1, <2>2, <2>3
<1>3. Seeking'
  <2> SUFFICES ASSUME NEW domain \in Labels, asker # 0, domain = Wanted(asker)' PROVE Towards(domain)'
    BY <1>1 DEF Seeking
  <2>1. Towards(domain)
    BY <1>1 DEF Wanted, TlsInv, Seeking
  <2> QED
    BY <1>1, <2>1, SameMeaning DEF Towards
<1> QED
  BY <1>2, <1>3 DEF TlsInv

LEMMA TlsInvStep == TlsInv /\ [HttpsNext]_httpsVars => TlsInv'
<1> SUFFICES ASSUME TlsInv, [HttpsNext]_httpsVars PROVE TlsInv'
  OBVIOUS
<1>1. CASE UNCHANGED tlsVars
  BY <1>1, TlsInvStays
<1>2. CASE TlsNext
  <2>1. CASE Configure /\ UNCHANGED connections
    BY <2>1, AddStep, MakeStep, IdentityStep DEF Configure
  <2>2. CASE Walk /\ UNCHANGED connections
    BY <2>2, ParentStep, DefaultStep DEF Walk
  <2>3. ASSUME NEW c \in Connections, Accept(c) \/ ClientHello(c) \/ Answer(c) PROVE TlsInv'
    BY <2>3, AcceptStep, HelloStep, AnswerStep
  <2> QED
    BY <1>2, <2>1, <2>2, <2>3 DEF TlsNext
<1> QED
  BY <1>1, <1>2 DEF HttpsNext, Arrival, Work, Connecting, httpsVars

\* An HTTPS server is a server: what holds of Server holds of it.
THEOREM HttpsIsServerHolds == HttpsSpec => Spec
<1>1. HttpsInit => Init
  BY DEF HttpsInit
<1>2. [HttpsNext]_httpsVars => [Next]_vars
  BY DEF HttpsNext, Arrival, Work, Connecting, Next, httpsVars
<1> QED
  BY <1>1, <1>2, PTL DEF HttpsSpec, Spec

\* Types, with entries that refer to entries and contexts there are, for any configuration.
THEOREM HttpsTypeOKHolds == HttpsSpec => []HttpsTypeOK
<1>1. TlsInv => TlsTypeOK
  <2> SUFFICES ASSUME TlsInv PROVE TlsTypeOK
    OBVIOUS
  <2>1. EntriesTypeOK
    <3>1. DOMAIN entries \subseteq Labels /\ spoiled \subseteq DOMAIN contexts
      BY DEF TlsInv, Sound, Forms, Naming
    <3>2. \A n \in DOMAIN entries : /\ entries[n].parent \in DOMAIN entries \cup {None}
                                    /\ entries[n].tls \in 0 .. Len(contexts)
      BY DEF TlsInv, Sound, Forms
    <3>3. \A k \in DOMAIN contexts : AsTold(k)
      BY DEF TlsInv, Forms
    <3>4. asker \in Nat /\ (asker # 0 => asked \in DOMAIN entries)
      BY TlsAssumption DEF TlsInv, Stages, Connections
    <3> QED
      BY <3>1, <3>2, <3>3, <3>4 DEF EntriesTypeOK, AsTold
  <2> QED
    BY <2>1 DEF TlsTypeOK, TlsInv, Stages
<1>2. HttpsSpec => []TlsInv
  BY TlsInvInit, TlsInvStep, PTL DEF HttpsSpec
<1>3. HttpsSpec => []TypeOK
  BY HttpsIsServerHolds, TypeOKHolds, PTL
<1> QED
  BY <1>1, <1>2, <1>3, PTL DEF HttpsTypeOK

\* A connection is served with the context the application meant for its name, whoever asked before.
THEOREM ServedAsConfiguredHolds == HttpsSpec => ServedAsConfigured
<1> DEFINE Served == \A c \in Connections :
         /\ Moves(c, "accepting", "plain") => ~Enabled(Meant(Default))
         /\ Moves(c, "accepting", "hello") => using'[c] = Meant(Default)
         /\ Moves(c, "hello", "open") => servername'[c] = None \/ using[c] \in spoiled
         /\ Moves(c, "switching", "open") =>
                using'[c] = IF Enabled(Meant(servername[c])) THEN Meant(servername[c]) ELSE using[c]
         /\ stage'[c] \in {"hello", "open"} /\ using'[c] \notin spoiled' =>
                contexts'[using'[c]].applied = contexts'[using'[c]].identities
<1>1. TlsInv /\ TlsInv' /\ [HttpsNext]_httpsVars => [Served]_tlsVars
  <2> SUFFICES ASSUME TlsInv, TlsInv', TlsNext PROVE Served
    BY DEF HttpsNext, Arrival, Work, Connecting, httpsVars
  <2> SUFFICES ASSUME NEW c \in Connections
      PROVE  /\ Moves(c, "accepting", "plain") => ~Enabled(Meant(Default))
             /\ Moves(c, "accepting", "hello") => using'[c] = Meant(Default)
             /\ Moves(c, "hello", "open") => servername'[c] = None \/ using[c] \in spoiled
             /\ Moves(c, "switching", "open") =>
                    using'[c] = IF Enabled(Meant(servername[c])) THEN Meant(servername[c]) ELSE using[c]
             /\ stage'[c] \in {"hello", "open"} /\ using'[c] \notin spoiled' =>
                    contexts'[using'[c]].applied = contexts'[using'[c]].identities
    BY DEF Served
  \* The last is part of the invariant.
  <2>1. stage'[c] \in {"hello", "open"} /\ using'[c] \notin spoiled' =>
           contexts'[using'[c]].applied = contexts'[using'[c]].identities
    BY DEF TlsInv, Stages, Forms, AsTold
  <2> DEFINE Others == /\ ~Moves(c, "accepting", "plain") /\ ~Moves(c, "accepting", "hello")
                       /\ ~Moves(c, "hello", "open") /\ ~Moves(c, "switching", "open")
  <2>2. CASE UNCHANGED connections
    <3>1. Others
      BY <2>2 DEF connections, Moves
    <3> QED
      BY <2>1, <3>1
  <2>3. ASSUME NEW d \in Connections, Accept(d)
        PROVE  Others
    BY <2>3 DEF Accept, Moves, TlsInv, Stages
  <2>4. ASSUME NEW d \in Connections, ClientHello(d)
        PROVE  /\ ~Moves(c, "accepting", "plain") /\ ~Moves(c, "accepting", "hello")
               /\ Moves(c, "hello", "open") => servername'[c] = None \/ using[c] \in spoiled
               /\ ~Moves(c, "switching", "open")
    <3>1. CASE servername'[d] = None \/ ~contexts[using[d]].hooked
      <4>1. stage[d] = "hello" /\ stage' = [stage EXCEPT ![d] = "open"]
        BY <2>4, <3>1 DEF ClientHello
      <4>2. using[d] \in DOMAIN contexts /\ contexts[using[d]].built
        BY <4>1 DEF TlsInv, Stages
      <4>3. servername'[d] = None \/ using[d] \in spoiled
        BY <3>1, <4>2 DEF TlsInv, Forms, AsTold
      <4>4. c # d => stage'[c] = stage[c]
        BY <4>1 DEF TlsInv, Stages
      <4> QED
        BY <4>1, <4>3, <4>4 DEF Moves
    <3>2. CASE ~(servername'[d] = None \/ ~contexts[using[d]].hooked)
      <4>1. stage[d] = "hello" /\ stage' = [stage EXCEPT ![d] = "switching"]
        BY <2>4, <3>2 DEF ClientHello
      <4> QED
        BY <4>1 DEF Moves, TlsInv, Stages
    <3> QED
      BY <3>1, <3>2
  <2>5. ASSUME NEW d \in Connections, Answer(d)
        PROVE  /\ Moves(c, "accepting", "plain") => ~Enabled(Meant(Default))
               /\ Moves(c, "accepting", "hello") => using'[c] = Meant(Default)
               /\ ~Moves(c, "hello", "open")
               /\ Moves(c, "switching", "open") =>
                      using'[c] = IF Enabled(Meant(servername[c])) THEN Meant(servername[c]) ELSE using[c]
    <3> DEFINE k == entries[asked].tls
    <3>1. asker = d /\ ~Lacks /\ asker # 0 /\ stage[d] \in {"accepting", "switching"}
      <4>1. asker = d /\ ~Lacks
        BY <2>5 DEF Answer
      <4>2. d # 0
        BY TlsAssumption DEF Connections
      <4>3. asker # 0 => stage[asker] \in {"accepting", "switching"}
        BY DEF TlsInv, Stages
      <4> QED
        BY <4>1, <4>2, <4>3
    <3>2. /\ using' = IF contexts[k].enabled /\ ~Throwing(k) THEN [using EXCEPT ![d] = k] ELSE using
          /\ stage' = [stage EXCEPT ![d] = IF Throwing(k) THEN "threw"
                                           ELSE IF stage[d] = "switching" THEN "open"
                                           ELSE IF contexts[k].enabled THEN "hello" ELSE "plain"]
      BY <2>5 DEF Answer, Throwing
    <3>3. /\ k \in DOMAIN contexts
          /\ k = Meant(Wanted(d)) \/ (~contexts[k].enabled /\ ~Enabled(Meant(Wanted(d))))
      BY <3>1, AnswerIs
    <3>4. k # 0
      BY <3>3 DEF TlsInv, Forms
    <3> HIDE DEF k
    <3>5. CASE c # d
      <4>1. stage'[c] = stage[c]
        BY <3>2, <3>5 DEF TlsInv, Stages
      <4> QED
        BY <4>1 DEF Moves
    <3>6. CASE c = d
      <4>1. /\ stage'[c] = IF Throwing(k) THEN "threw" ELSE IF stage[c] = "switching" THEN "open"
                           ELSE IF contexts[k].enabled THEN "hello" ELSE "plain"
            /\ using'[c] = IF contexts[k].enabled /\ ~Throwing(k) THEN k ELSE using[c]
        BY <3>2, <3>6 DEF TlsInv, Stages
      <4>2. Enabled(Meant(Wanted(c))) <=> contexts[k].enabled
        BY <3>3, <3>4, <3>6 DEF Enabled
      <4>3. contexts[k].enabled => k = Meant(Wanted(c))
        BY <3>3, <3>6
      <4>4. CASE stage[c] = "accepting"
        <5>1. Wanted(c) = Default
          BY <4>4 DEF Wanted
        <5> QED
          BY <4>1, <4>2, <4>3, <4>4, <5>1 DEF Moves
      <4>5. CASE stage[c] = "switching"
        <5>1. Wanted(c) = servername[c]
          BY <4>5 DEF Wanted
        <5>2. CASE Throwing(k)
          BY <4>1, <4>5, <5>2 DEF Moves
        <5>3. CASE ~Throwing(k)
          BY <4>1, <4>2, <4>3, <4>5, <5>1, <5>3 DEF Moves
        <5> QED
          BY <5>2, <5>3
      <4> QED
        BY <3>1, <3>6, <4>4, <4>5
    <3> QED
      BY <3>5, <3>6
  <2> HIDE DEF Served
  <2> QED
    BY <2>1, <2>2, <2>3, <2>4, <2>5 DEF TlsNext
<1>2. HttpsSpec => []TlsInv
  BY TlsInvInit, TlsInvStep, PTL DEF HttpsSpec
<1>3. ServedAsConfigured <=> [][Served]_tlsVars
  BY DEF ServedAsConfigured
<1> HIDE DEF Served
<1> QED
  BY <1>1, <1>2, <1>3, PTL DEF HttpsSpec
=============================================================================
