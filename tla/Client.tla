------------------------------- MODULE Client -------------------------------
(***************************************************************************)
(* covent::http::Client::send: two attempts to connect, over IPv6 and over *)
(* IPv4, raced by race_container(); the request, written as Request says   *)
(* to the session the race is won with; and the response, received as      *)
(* Message says.                                                           *)
(*                                                                         *)
(* Everything runs on one loop.  An attempt is the task connect(): a step  *)
(* of it is what it does from one suspension to the next, and when it ends *)
(* it resumes the race at once, before anything else can happen.           *)
(***************************************************************************)
EXTENDS Message, Request

CONSTANT Exchanges    \* what is asked for, and what answers: one of them in a behaviour

Families == {"v6", "v4"}

\* uri: the parts of a URI; method; assigned: the fields the application assigns, in that order;
\* addresses: how many of each family the host has; response: one of Responses.
ASSUME ClientAssumption ==
    \A e \in Exchanges : /\ e.response \in Responses /\ e.addresses \in [Families -> Nat]
                         /\ IsUri(e.uri) /\ e.assigned \in Seq(Assignment)

VARIABLES exchange,
          uri,         \* the URI of the request, as parsed
          phase,       \* where send() is
          attempts,    \* the tasks in the list attempts, in order
          attempt,     \* attempt[f]: where connect() of family f is
          left,        \* left[f]: how many addresses it has not tried
          raced,       \* the tasks whose parent is the dummy task of the race
          dummy,       \* the dummy task: "none"; "waiting" for its first child to end, "untimed" when the
                       \* timer is no longer one of them; "done"
          session,     \* the family of the session send() has got, or "none"
          registered,  \* the sessions in m_loop
          wrote,       \* the lines written to that session
          closed,      \* the sessions that have closed: the other end did, or there is none
          removing,    \* those of them whose removal from m_loop, which close() defers, is yet to run
          thrown       \* an exception has left m_loop, which has not been run again

connection == <<attempts, attempt, left, raced, dummy, session, registered>>
asked == <<exchange, uri>>
closing == <<closed, removing, thrown>>
clientVars == <<asked, phase, connection, wrote, closing>>
allVars == <<vars, clientVars>>

\* send() is over, and its attempts with it, when it has returned or thrown, or was destroyed with the
\* task that awaits it.
Finished == {"done", "failed", "threw", "dropped"}
Phases == {"lookup", "race6", "second", "race4", "request", "response", "undefined"} \cup Finished

\* A task that has ended holds a session, nullptr, or an exception that is not a runtime_error.
Ended == {"session", "null", "threw"}
Waiting == {"connecting", "handshake", "verifying"}

ClientTypeOK ==
    /\ MessageTypeOK
    /\ exchange \in Exchanges /\ uri.port \in {NoPort} \cup 0 .. MaxPort /\ phase \in Phases
    /\ attempts \in SeqOf(Families, 2)
    /\ attempt \in [Families -> {"none"} \cup Waiting \cup Ended]
    /\ left \in [Families -> Nat]
    /\ raced \subseteq Families /\ registered \subseteq Families
    /\ dummy \in {"none", "waiting", "untimed", "done"}
    /\ session \in Families \cup {"none"}
    /\ closed \subseteq Families /\ removing \subseteq closed /\ thrown \in BOOLEAN
    /\ phase \in {"response", "done"} => wrote # <<>>
    /\ wrote # <<>> => phase \in {"response", "done", "dropped", "undefined"}

ClientInit == /\ Init
              /\ exchange \in Exchanges /\ response = exchange.response
              /\ uri = parse(Text(exchange.uri))
              /\ phase = "lookup"
              /\ attempts = <<>>
              /\ attempt = [f \in Families |-> "none"]
              /\ left = exchange.addresses
              /\ raced = {} /\ dummy = "none"
              /\ session = "none" /\ registered = {}
              /\ wrote = <<>> /\ closed = {} /\ removing = {} /\ thrown = FALSE

ssl == uri.scheme = <<<<"https", 0>>>>

-----------------------------------------------------------------------------
(* connect(), one task for each family.                                    *)

\* The task is at state now; if that ends it, final_suspend resumes its parent, which is the dummy
\* for the tasks that are raced.
Moves(f, now) ==
    /\ attempt' = [attempt EXCEPT ![f] = now]
    /\ registered' = IF now = "session" THEN registered \cup {f} ELSE registered
    /\ dummy' = IF now \in Ended /\ f \in raced THEN "done" ELSE dummy
    /\ UNCHANGED <<asked, phase, attempts, raced, session, wrote>>

\* send() is suspended, and nothing else is running on the loop.
Suspended == phase \in {"race6", "race4", "response"} /\ dummy # "done" /\ pc = "idle"

Connected(f) ==
    /\ Suspended /\ attempt[f] = "connecting" /\ f \notin closed
    /\ Moves(f, IF ssl THEN "handshake" ELSE "session")
    /\ UNCHANGED left

Handshaken(f) ==
    /\ Suspended /\ attempt[f] = "handshake" /\ f \notin closed
    /\ Moves(f, "verifying")
    /\ UNCHANGED left

\* verify_tls() returns; its result is not looked at.
Verified(f) ==
    /\ Suspended /\ attempt[f] = "verifying" /\ f \notin closed
    /\ Moves(f, "session")
    /\ UNCHANGED left

\* verify_tls() throws.  With an address left, connect() of the same session throws "Already
\* connected?", which is not a runtime_error and leaves the task.
VerifyThrows(f) ==
    /\ Suspended /\ attempt[f] = "verifying" /\ f \notin closed
    /\ Moves(f, IF left[f] > 0 THEN "threw" ELSE "null")
    /\ left' = [left EXCEPT ![f] = IF @ > 0 THEN @ - 1 ELSE 0]

-----------------------------------------------------------------------------
(* race_container().                                                       *)

\* The addresses left when the first n of them have failed at once and the next is tried.
LeftAfter(f, n) == exchange.addresses[f] - n - 1
LeftOver(f, n) == IF n = exchange.addresses[f] THEN 0 ELSE exchange.addresses[f] - n - 1

\* start() of attempt f: bufferevent_socket_connect() may fail at once for the first n addresses.  A
\* URI of no known port throws, before the first of them, what is not a runtime_error.
Starts(f, n) ==
    /\ n <= IF uri.port = NoPort THEN 0 ELSE exchange.addresses[f]
    /\ left' = [left EXCEPT ![f] = LeftOver(f, n)]
    /\ attempt' = [attempt EXCEPT ![f] = IF uri.port = NoPort THEN "threw"
                                         ELSE IF n = exchange.addresses[f] THEN "null"
                                         ELSE "connecting"]

\* The tasks that are not alive are started (the last one); if that one ends at once the race returns
\* what it holds, without asking the predicate, or throws it.  Otherwise the dummy becomes the parent
\* of them all.
Race(list, fresh, race, after) ==
    /\ attempts' = list
    /\ IF fresh # "none" THEN \E n \in 0 .. exchange.addresses[fresh] : Starts(fresh, n)
                         ELSE UNCHANGED <<left, attempt>>
    /\ IF fresh # "none" /\ attempt'[fresh] \in Ended
       THEN /\ phase' = IF attempt'[fresh] = "threw" THEN "threw" ELSE after
            /\ UNCHANGED <<raced, dummy>>
       ELSE phase' = race /\ raced' = ToSet(list) /\ dummy' = "waiting"
    /\ UNCHANGED <<asked, session, registered, wrote>>

\* The timer is the other child of the dummy.
TimerFires ==
    /\ phase \in {"race6", "race4"} /\ dummy = "waiting" /\ dummy' = "done"
    /\ UNCHANGED <<asked, phase, attempts, attempt, left, raced, session, registered, wrote>>

\* The predicate of send(): a session, not nullptr.
AcceptedAnyway(f) == attempt[f] \in {"session", "null"}
Accepted(f) == attempt[f] = "session"

\* An exception of a task that has ended leaves the race while it asks the predicate.
Decides(f) == Accepted(f) \/ attempt[f] = "threw"

\* The first of the list that decides the race.
First(f) == \E i \in DOMAIN attempts :
                attempts[i] = f /\ Decides(f) /\ \A j \in 1 .. i - 1 : ~Decides(attempts[j])

\* The dummy was resumed, and with it the race: it detaches the tasks, and looks for the one that
\* ended.  None means race_timeout, which send() catches.
RaceResumes(after) ==
    /\ dummy = "done"
    /\ raced' = {} /\ dummy' = "none"
    /\ \/ /\ \A i \in DOMAIN attempts : ~Decides(attempts[i])
          /\ phase' = after /\ UNCHANGED session
       \/ \E f \in Families :
             /\ First(f)
             /\ IF Accepted(f) THEN session' = f /\ phase' = after
                               ELSE phase' = "threw" /\ UNCHANGED session
    /\ UNCHANGED <<asked, attempts, attempt, left, registered, wrote>>

-----------------------------------------------------------------------------
(* send().                                                                 *)

\* The addresses are known: IPv6 gets a start of 0.1 s.
Lookup ==
    /\ phase = "lookup"
    /\ IF exchange.addresses["v6"] > 0
       THEN Race(<<"v6">>, "v6", "race6", "second")
       ELSE phase' = "second" /\ UNCHANGED <<asked, connection, wrote>>

Race6Ends == phase = "race6" /\ RaceResumes("second")

\* Whether IPv4 joins the attempts that are kept.
JoinsNone(kept) == exchange.addresses["v4"] > 0 /\ kept = <<>>
Joins(kept) == exchange.addresses["v4"] > 0

\* Without a session yet: an attempt that is over is dropped, and IPv4 joins what is left.
SecondRace ==
    /\ phase = "second" /\ session = "none"
    /\ LET kept == IF attempts # <<>> /\ attempt[Last(attempts)] \in Ended THEN <<>> ELSE attempts
       IN  IF Joins(kept) THEN Race(kept \o <<"v4">>, "v4", "race4", "request")
                          ELSE Race(kept, "none", "race4", "request")

NoSecondRace ==
    /\ phase = "second" /\ session # "none"
    /\ phase' = "request"
    /\ UNCHANGED <<asked, connection, wrote>>

Race4Ends == phase = "race4" /\ RaceResumes("request")

\* Request::send() writes to the session, or send() throws "Connection failed".
Send ==
    /\ phase = "request"
    /\ IF session = "none"
       THEN phase' = "failed" /\ UNCHANGED wrote
       ELSE /\ phase' = "response"
            /\ wrote' = Written(exchange.method, uri, Fields(uri, exchange.assigned))
    /\ UNCHANGED <<asked, connection>>

\* ready is resolved while process() is still running: send() takes the message and returns.
Responds ==
    /\ phase = "response" /\ complete
    /\ phase' = "done"
    /\ UNCHANGED <<asked, connection, wrote>>

-----------------------------------------------------------------------------
(* A session that closes.                                                  *)

\* The connection or the handshake fails, or the other end closes: event_cb() calls closed(), and that
\* close(), which frees the bufferevent (once all is written) and defers the removal of the session from
\* the loop.  connected is not emitted and ready not resolved: who awaits them stays suspended.
Closes(f) ==
    /\ pc = "idle" /\ f \notin closed
    /\ \/ Suspended /\ attempt[f] \in Waiting \cup {"session"}
       \/ phase \in Finished /\ f \in registered
    /\ closed' = closed \cup {f} /\ removing' = removing \cup {f}
    /\ UNCHANGED <<asked, phase, connection, wrote, thrown>>

\* "Session not found" leaves the loop, from among the actions of one turn: those behind it, other
\* removals and the timer of the race, are destroyed.  run_task() destroys the task it runs, and send()
\* with it; it stays where something else holds it.
Throws(f) ==
    /\ thrown' = TRUE
    /\ removing' \in SUBSET (removing \ {f})
    /\ dummy' \in {dummy} \cup (IF dummy = "waiting" THEN {"untimed"} ELSE {})
    /\ phase' \in {phase} \cup (IF phase \in Finished THEN {} ELSE {"dropped"})
    /\ UNCHANGED <<asked, attempts, attempt, left, raced, session, registered, wrote, closed>>

\* What was deferred runs: loop->remove(*session).  connect() adds a session only when it is connected;
\* and when send() is over, one that was never added is gone, and what is read of it undefined.
Removes(f) ==
    /\ f \in removing /\ pc = "idle" /\ (Suspended \/ phase \in Finished)
    /\ \/ /\ f \in registered
          /\ registered' = registered \ {f} /\ removing' = removing \ {f}
          /\ UNCHANGED <<asked, phase, attempts, attempt, left, raced, dummy, session, wrote, closed, thrown>>
       \/ f \notin registered /\ Throws(f)
       \/ /\ f \notin registered /\ phase \in Finished
          /\ phase' = "undefined" /\ UNCHANGED <<asked, connection, wrote, closing>>

\* verify_tls() goes on with the SSL of a session that has closed, which was freed with its bufferevent.
VerifiesFreed(f) ==
    /\ Suspended /\ attempt[f] = "verifying" /\ f \in closed
    /\ phase' = "undefined" /\ UNCHANGED <<asked, connection, wrote, closing>>

\* An application that has caught what left the loop may run it again.
RunsAgain == thrown /\ thrown' = FALSE
             /\ UNCHANGED <<asked, phase, connection, wrote, closed, removing>>

-----------------------------------------------------------------------------
Step == Lookup \/ Race6Ends \/ SecondRace \/ NoSecondRace \/ Race4Ends \/ Send \/ Responds

Events == \/ TimerFires
          \/ \E f \in Families : Connected(f) \/ Handshaken(f) \/ Verified(f) \/ VerifyThrows(f)

Closing == \E f \in Families : Closes(f) \/ Removes(f) \/ VerifiesFreed(f)

Running(action) == ~thrown /\ action /\ UNCHANGED <<vars, closing>>

ClientStep == \/ Running(Step) \/ Running(Events)
              \/ ~thrown /\ Closing /\ UNCHANGED vars
              \/ RunsAgain /\ UNCHANGED vars

\* The session receives while send() awaits ready, and process() returns after that.
Receiving == phase \in {"response", "done"} /\ session \notin closed /\ ~thrown /\ UNCHANGED clientVars

ResponseStep == Receiving /\ Receive

Next == ClientStep \/ ResponseStep

Spec == ClientInit /\ [][Next]_allVars

Awaiting == phase = "response" /\ Receiving

\* While the loop is run the timers of the races fire, send() goes on, and the server sends its response.
\* Nothing says that a connection comes about or fails, nor that the loop is run again.
FairSpec == /\ Spec
            /\ WF_allVars(Running(Step)) /\ WF_allVars(Running(TimerFires))
            /\ WF_allVars(Awaiting /\ \E n \in 1 .. Len(sent) : Arrive(n))
            /\ WF_allVars(Awaiting /\ OfferAll) /\ WF_allVars(Awaiting /\ (process \/ Return))

-----------------------------------------------------------------------------
(* Properties.                                                             *)

\* The request goes out on a session that is connected (and, with https, through its handshake and
\* verification), has not closed since and is in the loop, however the two attempts, the timers and the
\* failures were interleaved; and it stays there until it closes, whatever becomes of the other attempt.
UsesConnected ==
    /\ phase = "request" /\ session # "none" => session \in registered \ closed
    /\ phase \in {"response", "done"} =>
          attempt[session] = "session" /\ (session \in registered \/ session \in closed)

\* send() does not fail before both families that have addresses were tried.
FallsBack ==
    phase = "failed" => \A f \in Families : exchange.addresses[f] > 0 => attempt[f] # "none"

\* What is written asks for what the URI names, on a connection to the port and with the security its
\* scheme calls for: however the URI leaves out its port or its path, and in whatever spelling and
\* however often the application assigns a field.
RequestArrives ==
    wrote # <<>> =>
        /\ AsksFor(wrote, exchange.method, exchange.uri, exchange.assigned)
        /\ Target(exchange.uri) = [port |-> uri.port, ssl |-> ssl]

\* send() ends, with a response, or with an exception after its timers, unless the response has a line
\* process() never gets past or a transfer coding it does not know, or the server closes the connection
\* before the response is complete.  An attempt that fails does not keep it from that: even when the
\* removal of its session throws, if the loop is run again and the timer was not lost in that throw.  What
\* is undefined is excepted.
SendEnds ==
    WellFormed(response) /\ response.framing # "othercoding" =>
        \/ <>(phase \in Finished \cup {"undefined"} \/ session \in closed \/ dummy = "untimed")
        \/ <>[]thrown
=============================================================================
