-------------------------------- MODULE Server --------------------------------
(***************************************************************************)
(* covent::http::Server: every request has a coroutine, which goes through *)
(* the middleware of the root endpoint, finds the endpoint for its path,   *)
(* goes through the middleware of that one and calls its handler.  What    *)
(* the coroutine throws is answered with a status.  Middleware and         *)
(* handlers may suspend: many requests are in flight at once, on one loop. *)
(***************************************************************************)
EXTENDS Integers, SequencesExt

CONSTANTS MaxRequests, MaxNaps,   \* bounds: requests, and how often the coroutine of each suspends
          Sites    \* what the application adds, in order, and which requests it gets, and how many: one
                   \* of them in a behaviour; paths are the segments between their slashes

Requests == 1 .. MaxRequests

Endpoint == [template : Seq({"literal", "variable"} \X STRING), middleware : Nat]

ASSUME ServerAssumption == /\ MaxRequests \in Nat /\ MaxNaps \in Nat
                           /\ \A s \in Sites : s.adds \in Seq(Endpoint) /\ s.paths \subseteq Seq(STRING)

VARIABLES visitors,    \* the site, with the requests it gets
          toAdd,       \* what the application has yet to add
          endpoints,   \* m_root and then its m_endpoints, in order: template, number of middleware
          path,        \* path[r]: the path of request r
          at,          \* where the coroutine of r is
          endpoint,    \* the number of the endpoint it has come to
          pre,       \* the variables of the templates it matched
          thrown,      \* the exception that ended it
          naps,        \* how often it has suspended
          replies,     \* how often r has been replied to
          in_flight,   \* m_in_flight: the requests of its tasks, in the order of their numbers
          running,     \* the request whose coroutine runs, or 0
          starting,    \* ... from start(), in request_handler()
          came,        \* history: the middleware of the root endpoint when r came
          passed       \* history: the middleware r has passed

site == <<visitors, toAdd, endpoints>>
request == <<path, at, endpoint, pre, thrown, naps, replies, came, passed>>
tasks == <<in_flight, running, starting>>
vars == <<site, request, tasks>>

Places == {"none", "middleware", "handler", "caught", "done"}

TypeOK ==
    /\ endpoints \in Seq(Endpoint)
    /\ at \in [Requests -> Places] /\ endpoint \in [Requests -> Nat]
    /\ naps \in [Requests -> 0 .. MaxNaps] /\ replies \in [Requests -> Nat]
    /\ in_flight \subseteq Requests /\ running \in Requests \cup {0} /\ starting \in BOOLEAN
    /\ running = 0 => ~starting
    /\ \A r \in Requests : at[r] \in {"middleware", "handler"} => endpoint[r] \in DOMAIN endpoints

Empty == [n \in {} |-> ""]

Init == /\ visitors \in Sites /\ toAdd = visitors.adds
        /\ endpoints = <<>>
        /\ path = [r \in Requests |-> <<>>] /\ at = [r \in Requests |-> "none"]
        /\ endpoint = [r \in Requests |-> 0] /\ pre = [r \in Requests |-> Empty]
        /\ thrown = [r \in Requests |-> "nothing"] /\ naps = [r \in Requests |-> 0]
        /\ replies = [r \in Requests |-> 0]
        /\ in_flight = {} /\ running = 0 /\ starting = FALSE
        /\ came = [r \in Requests |-> 0] /\ passed = [r \in Requests |-> <<>>]

-----------------------------------------------------------------------------
(* Templates.                                                              *)

Root == <<<<"literal", "">>>>

MatchesPrefix(template, segments) ==
    /\ Len(template) >= Len(segments)
    /\ \A i \in DOMAIN segments : template[i][1] = "literal" => template[i][2] = segments[i]
\* matchCompiled(): segment by segment, and no segment of either is left.
Matches(template, segments) ==
    /\ Len(template) = Len(segments)
    /\ \A i \in DOMAIN segments : template[i][1] = "literal" => template[i][2] = segments[i]

Names(template) == {template[i][2] : i \in {i \in DOMAIN template : template[i][1] = "variable"}}

\* Every variable gets the last segment it stands for, beside those given.
Bound(template, segments, given) ==
    LET Stands(n) == {i \in DOMAIN segments : template[i] = <<"variable", n>>}
        standing == {n \in Names(template) : Stands(n) # {}}
    IN  [n \in standing \cup DOMAIN given |-> IF n \in standing THEN segments[Max(Stands(n))] ELSE given[n]]

-----------------------------------------------------------------------------
(* The application adds endpoints, the root first, and middleware.         *)

AddEndpoint ==
    /\ running = 0 /\ toAdd # <<>> /\ toAdd' = Tail(toAdd) /\ Head(toAdd).template # <<>>
    /\ endpoints' = IF (endpoints = <<>>) = (Head(toAdd).template = Root)
                    THEN Append(endpoints, Head(toAdd)) ELSE endpoints
    /\ UNCHANGED <<visitors, request, tasks>>

\* root().add(): m_middleware is a list, which a request that is half through it sees grow.
AddMiddleware ==
    /\ running = 0 /\ toAdd # <<>> /\ toAdd' = Tail(toAdd) /\ Head(toAdd).template = <<>>
    /\ endpoints # <<>> /\ endpoints' = [endpoints EXCEPT ![1].middleware = @ + 1]
    /\ UNCHANGED <<visitors, request, tasks>>

-----------------------------------------------------------------------------
(* m_in_flight.                                                            *)

\* start() returns: pop_back() destroys a coroutine that is done, not one that has suspended.
DonePopped == IF starting THEN in_flight \ {Max(in_flight)} ELSE in_flight
SuspendedKept == in_flight

\* The coroutine of r ends.
Ends(r) ==
    /\ at' = [at EXCEPT ![r] = "done"]
    /\ running' = 0 /\ starting' = FALSE
    /\ in_flight' = DonePopped

\* Middleware or a handler suspends, and the coroutine of its request with it.
Suspend(r) ==
    /\ running = r /\ at[r] \in {"middleware", "handler"} /\ naps[r] < MaxNaps
    /\ naps' = [naps EXCEPT ![r] = @ + 1]
    /\ running' = 0 /\ starting' = FALSE
    /\ in_flight' = SuspendedKept
    /\ UNCHANGED <<site, path, at, endpoint, pre, thrown, replies, came, passed>>

Resume(r) ==
    /\ running = 0 /\ at[r] \in {"middleware", "handler"} /\ r \in in_flight
    /\ running' = r
    /\ UNCHANGED <<site, request, in_flight, starting>>

InTurn(r) == \A q \in Requests : q < r => at[q] # "none"

Yes == TRUE
HasRoot == endpoints # <<>>

\* handler_low() begins with the root endpoint.
Begins(r) ==
    /\ came' = [came EXCEPT ![r] = IF endpoints = <<>> THEN 0 ELSE endpoints[1].middleware]
    /\ IF HasRoot
       THEN /\ endpoint' = [endpoint EXCEPT ![r] = 1] /\ at' = [at EXCEPT ![r] = "middleware"]
            /\ UNCHANGED thrown
       ELSE /\ thrown' = [thrown EXCEPT ![r] = "runtime"] /\ at' = [at EXCEPT ![r] = "caught"]
            /\ UNCHANGED endpoint

StillThereNotDone == {q \in in_flight : at[q] = "done"}
\* erase(remove_if(done)).
StillThere == {q \in in_flight : at[q] # "done"}

\* A request: the tasks that are done are erased, and one for it is started.
request_handler(r) ==
    /\ running = 0 /\ at[r] = "none" /\ InTurn(r) /\ r <= visitors.number
    /\ path' \in {[path EXCEPT ![r] = p] : p \in visitors.paths}
    /\ in_flight' = StillThere \cup {r}
    /\ running' = r /\ starting' = TRUE
    /\ Begins(r)
    /\ UNCHANGED <<site, pre, naps, replies, passed>>

-----------------------------------------------------------------------------
(* Endpoint::handler_low                                                   *)

Throw(r, exception) ==
    /\ thrown' = [thrown EXCEPT ![r] = exception]
    /\ at' = [at EXCEPT ![r] = "caught"]

\* The middleware of an endpoint that r has passed.
PassedOf(r, e) == Cardinality({i \in DOMAIN passed[r] : passed[r][i][1] = e})
PassedHere(r) == PassedOf(r, endpoint[r])
MoreMiddleware(r) == PassedHere(r) < endpoints[endpoint[r]].middleware
Runs(r, place) == running = r /\ at[r] = place

\* Exceptions: http_status, another runtime_error, or neither.
Exceptions == {"status", "runtime", "other"}

Middleware(r) ==
    /\ Runs(r, "middleware") /\ MoreMiddleware(r)
    /\ \/ /\ passed' = [passed EXCEPT ![r] = Append(@, <<endpoint[r], PassedHere(r) + 1>>)]
          /\ UNCHANGED <<at, thrown>>
       \/ /\ \E e \in Exceptions : Throw(r, e)
          /\ UNCHANGED passed
    /\ UNCHANGED <<site, path, endpoint, pre, naps, replies, came, tasks>>

Template(i) == endpoints[i].template
\* Children of the root that match; a child has matched, and has no children.
Candidates(r) == {i \in DOMAIN endpoints \ {1} : endpoint[r] = 1 /\ Matches(Template(i), path[r])}

\* The endpoint itself, if it matches, or else the first child that does.
Chosen(r) == IF Matches(Template(endpoint[r]), path[r]) THEN {endpoint[r]}
             ELSE {i \in Candidates(r) : \A j \in Candidates(r) : i <= j}

\* The endpoint's own handler, or else the child's handler_low(), ...
StraightOn(r, to) == "handler"
Onwards(r, to) == IF to = endpoint[r] THEN "handler" ELSE "middleware"

\* ... or else not_found.
Route(r) ==
    /\ Runs(r, "middleware") /\ ~MoreMiddleware(r)
    /\ \/ \E to \in Chosen(r) :
             /\ pre' = [pre EXCEPT ![r] = Bound(Template(to), path[r], @)]
             /\ endpoint' = [endpoint EXCEPT ![r] = to]
             /\ at' = [at EXCEPT ![r] = Onwards(r, to)]
             /\ UNCHANGED thrown
       \/ /\ Chosen(r) = {} /\ Throw(r, "status")
          /\ UNCHANGED <<endpoint, pre>>
    /\ UNCHANGED <<site, path, naps, replies, came, passed, tasks>>

-----------------------------------------------------------------------------
(* Handlers.  One that has replied returns the code and throws nothing;    *)
(* one that returns zero has not replied.                                  *)

Reply(r) ==
    /\ Runs(r, "handler") /\ replies[r] = 0
    /\ replies' = [replies EXCEPT ![r] = @ + 1]
    /\ UNCHANGED <<site, path, at, endpoint, pre, thrown, naps, came, passed, tasks>>

HandlerThrows(r) ==
    /\ Runs(r, "handler") /\ replies[r] = 0
    /\ \E e \in Exceptions : Throw(r, e)
    /\ UNCHANGED <<site, path, endpoint, pre, naps, replies, came, passed, tasks>>

Trusted(r) == FALSE
Unanswered(r) == replies[r] = 0

HandlerReturns(r) ==
    /\ Runs(r, "handler")
    /\ IF Unanswered(r)
       THEN Throw(r, "runtime") /\ UNCHANGED tasks
       ELSE Ends(r) /\ UNCHANGED thrown
    /\ UNCHANGED <<site, path, endpoint, pre, naps, replies, came, passed>>

\* Server::handler_low() replies to what was thrown, unless it is no runtime_error: that stays in
\* the task, and there is no reply.
Catch(r) ==
    /\ Runs(r, "caught")
    /\ replies' = [replies EXCEPT ![r] = IF thrown[r] = "other" THEN @ ELSE @ + 1]
    /\ Ends(r)
    /\ UNCHANGED <<site, path, endpoint, pre, thrown, naps, came, passed>>

-----------------------------------------------------------------------------
Goes(r) == \/ Middleware(r) \/ Route(r) \/ Reply(r) \/ HandlerThrows(r) \/ HandlerReturns(r)
           \/ Catch(r)

Arrives == \E r \in Requests : request_handler(r)
Works == \/ AddEndpoint \/ AddMiddleware
         \/ \E r \in Requests : Suspend(r) \/ Resume(r) \/ Goes(r)

Next == Arrives \/ Works

Spec == Init /\ [][Next]_vars

-----------------------------------------------------------------------------
(* Properties.                                                             *)

\* The coroutine of a request exists until it is done, though tasks are popped and erased from
\* m_in_flight while others are suspended.
NothingDropped == \A r \in Requests : at[r] \notin {"none", "done"} => r \in in_flight

\* libevent frees a request that is replied to: there is one reply, whoever threw or returned what,
\* except to what is thrown that is no runtime_error.
AnsweredOnce ==
    \A r \in Requests : /\ replies[r] <= 1
                        /\ at[r] = "done" => replies[r] = 1 \/ thrown[r] = "other"

\* No handler runs before all middleware of the root, and then of its own endpoint, has let the
\* request pass, whatever was added since it came.
PassesMiddleware ==
    \A r \in Requests : at[r] = "handler" =>
        LET e == endpoint[r]
            before(i) == [k \in 1 .. PassedOf(r, i) |-> <<i, k>>]
        IN  /\ passed[r] = IF e = 1 THEN before(1) ELSE before(1) \o before(e)
            /\ Len(before(1)) >= came[r]
            /\ e # 1 => Len(before(e)) = endpoints[e].middleware

\* The path is the template with the variables put in, and is no earlier endpoint's.
Filled(template, values) ==
    [i \in DOMAIN template |-> IF template[i][1] = "literal" THEN template[i][2]
                                                              ELSE values[template[i][2]]]
RightHandler ==
    \A r \in Requests : at[r] = "handler" =>
        /\ DOMAIN pre[r] = Names(Template(endpoint[r]))
        /\ Filled(Template(endpoint[r]), pre[r]) = path[r]
        /\ \A i \in 1 .. endpoint[r] - 1 :
              \A values \in [Names(Template(i)) -> ToSet(path[r])] :
                  Filled(Template(i), values) # path[r]

\* The coroutine of a request ends.
RequestEnds == \A r \in Requests : at[r] = "middleware" ~> at[r] = "done"
=============================================================================
