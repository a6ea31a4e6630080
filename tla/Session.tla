------------------------------- MODULE Session ------------------------------
(***************************************************************************)
(* covent::Session: one session of a loop, its bufferevent, the process()  *)
(* coroutine of the application that consumes its input, and the closing   *)
(* of the session.                                                         *)
(*                                                                         *)
(* The loop's thread runs one callback at a time: every event happens at   *)
(* pc = "loop".  A callback that calls into process() or into close()      *)
(* takes several steps.  Data is counted, not kept: what matters is what   *)
(* process() is offered, what it uses and what stays in the buffer.        *)
(***************************************************************************)
EXTENDS Integers

CONSTANTS Scenarios,    \* what the application and the other end may do, one of them in a behaviour
          MaxInput      \* bound: octets received in all

\* A stretch of process() between two suspensions: whether it writes, whether it calls close(), and
\* how it ends.
Bodies == [writes : BOOLEAN, closes : BOOLEAN, ends : {"sleep", "flush", "return", "throw"}]

Scenario == [client : BOOLEAN,             \* Session(Loop &) and connect(), or accepted by a listener
             added  : BOOLEAN,             \* add()ed to the loop before it connects
             tls    : BOOLEAN,             \* ssl() is called once it is connected
             start  : SUBSET Bodies,       \* process() until it first suspends or ends
             resume : SUBSET Bodies,       \* ... and when it is resumed
             closes : Nat,                 \* calls of close() and eject() outside process()
             events : SUBSET {"eof", "error"}]

ASSUME SessionAssumption == MaxInput \in Nat /\ Scenarios \subseteq Scenario

VARIABLES top,         \* m_top is not null
          registered,  \* the session is in m_sessions of its loop
          closing,     \* m_closing
          proc,        \* m_processor: "none", a suspended ("active") or a "done" coroutine
          waits,       \* what an active one waits for: "sleep", or "flush" (the signal written)
          view,        \* the octets of the string_view process() was called with
          used,        \* the octets a done one reports, Threw for an exception
          length,      \* bufferevent input: its octets
          cuts,        \*   and where a contiguous piece of them ends and another begins
          declined,    \* the length of the last offer process() used nothing of
          output,      \* the bufferevent has output not yet written to the socket
          removals,    \* deferred calls of Loop::remove(*this)
          fault,       \* a deferred call did not find its session
          connecting,  \* the coroutine in connect(): "no", "waiting" for the signal connected, waiting
                       \*   for it again in a "handshake", "done"
          peer,        \* the other end: "open", "eof", "error"
          scenario,    \* the scenario of this behaviour
          octets,      \* octets still to be received
          closes,      \* calls of close() and eject() still to be made
          pc, ret      \* where the callback in progress is, and where it goes on afterwards

flags == <<closing, registered, removals, fault>>
coro == <<proc, waits, view, used>>
input == <<length, cuts, declined>>
wire == <<connecting, peer, scenario, octets, closes>>
vars == <<top, flags, coro, input, output, wire, pc, ret>>

Threw == MaxInput + 1

Connecting == connecting \in {"waiting", "handshake"}

TypeOK == /\ top \in BOOLEAN /\ registered \in BOOLEAN /\ closing \in BOOLEAN
          /\ output \in BOOLEAN /\ fault \in BOOLEAN
          /\ proc \in {"none", "active", "done"} /\ waits \in {"sleep", "flush"}
          /\ view \in 0 .. MaxInput /\ used \in 0 .. Threw /\ declined \in 0 .. MaxInput
          /\ length \in 0 .. MaxInput /\ cuts \subseteq 1 .. length - 1
          /\ removals \in Nat
          /\ connecting \in {"no", "waiting", "handshake", "done"} /\ peer \in {"open", "eof", "error"}
          /\ scenario \in Scenarios /\ octets \in 0 .. MaxInput /\ closes \in 0 .. scenario.closes
          /\ pc \in {"loop", "contiguous", "all", "emit", "complete", "write_cb"}
          /\ ret \in {"loop", "write_cb"}

Init == /\ scenario \in Scenarios
        /\ top = ~scenario.client /\ registered = (scenario.added \/ ~scenario.client)
        /\ closing = FALSE /\ removals = 0 /\ fault = FALSE
        /\ proc = "none" /\ waits = "sleep" /\ view = 0 /\ used = 0
        /\ length = 0 /\ cuts = {} /\ declined = 0 /\ output = FALSE
        /\ connecting = "no" /\ peer = "open"
        /\ octets = MaxInput /\ closes = scenario.closes
        /\ pc = "loop" /\ ret = "loop"

-----------------------------------------------------------------------------
(* close(), called by many: active and out are the processor and the output at the call. *)

PostponedForOutput(active, out) == top /\ out
Postponed(active, out) == active \/ (top /\ out)
close(active, out) ==
    /\ closing' = TRUE
    /\ IF Postponed(active, out)
       THEN UNCHANGED <<top, removals>>
       ELSE top' = FALSE /\ removals' = removals + 1
    /\ UNCHANGED <<registered, fault>>

\* What a stretch of process() leaves behind.  Its own close() finds the processor active and
\* only sets m_closing.
Writes(b) == b.writes \/ b.ends = "flush"
Suspends(b) == b.ends \in {"sleep", "flush"}
Marks(b) == closing' = (closing \/ b.closes) /\ UNCHANGED <<top, registered, removals, fault>>

\* used(): evbuffer_drain() of the first n octets.
CutsFrom(n) == {d \in cuts : d >= n}
CutsAfter(n) == {d \in cuts : d > n}
drain(n) == length' = length - n /\ cuts' = {c - n : c \in CutsAfter(n)}

-----------------------------------------------------------------------------
(* Reading.                                                                *)

\* Data arrives and read_cb() runs: while a processor is active it returns at once.
Receive(n) ==
    /\ pc = "loop" /\ top /\ ~Connecting /\ peer = "open" /\ n <= octets
    /\ octets' = octets - n
    /\ length' = length + n
    /\ cuts' = IF length = 0 THEN {} ELSE cuts \cup {length}
    /\ IF proc = "active" THEN UNCHANGED <<proc, pc>>
                          ELSE proc' = "none" /\ pc' = "contiguous"
    /\ UNCHANGED <<top, flags, waits, view, used, declined, output, connecting, peer,
                   scenario, closes, ret>>

\* Either loop of read_cb() calls process() with the first n octets; used 0 leaves the loop for
\* where, a suspended coroutine leaves read_cb().
Offer(n, where) ==
    \E b \in scenario.start :
        /\ output' = (output \/ Writes(b))
        /\ \/ /\ Suspends(b)
              /\ Marks(b)
              /\ proc' = "active" /\ waits' = b.ends /\ view' = n
              /\ pc' = "loop"
              /\ UNCHANGED <<used, input>>
           \/ /\ b.ends = "return"
              /\ Marks(b)
              /\ \/ declined' = n /\ pc' = where /\ UNCHANGED <<length, cuts>>
                 \/ \E u \in 1 .. n : drain(u) /\ UNCHANGED <<pc, declined>>
              /\ UNCHANGED coro
           \/ /\ b.ends = "throw"
              /\ close(FALSE, output')
              /\ pc' = "loop"
              /\ UNCHANGED <<coro, input>>
        /\ UNCHANGED <<wire, ret>>

\* First the pieces that are contiguous, one by one; then, if more is left, all of it pulled up.
Never(piece) == "loop"
ThenAll(piece) == IF piece = length THEN "loop" ELSE "all"
ReadContiguous ==
    /\ pc = "contiguous" /\ length > 0
    /\ \E piece \in cuts \cup {length} : (\A c \in cuts : piece <= c) /\ Offer(piece, ThenAll(piece))
ReadAll ==
    /\ pc = "all" /\ length > 0
    /\ Offer(length, "loop")
ReadNothing ==
    /\ pc \in {"contiguous", "all"} /\ length = 0
    /\ pc' = "loop"
    /\ UNCHANGED <<top, flags, coro, input, output, wire, ret>>

-----------------------------------------------------------------------------
(* The suspended processor.                                                *)

\* It is resumed and suspends again, or ends: then final_suspend emits completed.
Resume(b) ==
    /\ output' = (output \/ Writes(b))
    /\ Marks(b)
    /\ \/ /\ Suspends(b)
          /\ waits' = b.ends /\ pc' = ret'
          /\ UNCHANGED <<proc, view, used>>
       \/ /\ ~Suspends(b)
          /\ proc' = "done" /\ pc' = "complete"
          /\ \E u \in IF b.ends = "throw" THEN {Threw} ELSE 0 .. view : used' = u
          /\ UNCHANGED <<waits, view>>
    /\ UNCHANGED <<input, wire>>

TimerResumes ==
    /\ pc = "loop" /\ proc = "active" /\ waits = "sleep"
    /\ ret' = "loop"
    /\ \E b \in scenario.resume : Resume(b)

\* processing_complete()
NotRetried == FALSE
Retried == closing
processing_complete ==
    /\ pc = "complete" /\ pc' = ret
    /\ IF used = Threw
       THEN close(FALSE, output) /\ UNCHANGED input
       ELSE /\ drain(used)
            /\ declined' = IF used = 0 THEN view ELSE declined
            /\ IF Retried THEN close(FALSE, output) ELSE UNCHANGED <<top, flags>>
    /\ UNCHANGED <<coro, output, wire, ret>>

-----------------------------------------------------------------------------
(* Writing.                                                                *)

\* The output has gone to the socket and write_cb() runs: it emits written first, which resumes
\* a processor in flush().
Written ==
    /\ pc = "loop" /\ top /\ output /\ peer # "error" /\ ~Connecting
    /\ output' = FALSE
    /\ pc' = IF proc = "active" /\ waits = "flush" THEN "emit" ELSE "write_cb"
    /\ UNCHANGED <<top, flags, coro, input, declined, wire, ret>>

WrittenResumes ==
    /\ pc = "emit"
    /\ ret' = "write_cb"
    /\ \E b \in scenario.resume : Resume(b)

\* ... and then closes the session if that was asked for.
write_cb ==
    /\ pc = "write_cb" /\ pc' = "loop"
    /\ IF closing THEN close(proc = "active", output) ELSE UNCHANGED <<top, flags>>
    /\ UNCHANGED <<coro, input, output, wire, ret>>

-----------------------------------------------------------------------------
(* Events of the connection, and calls of the application.                 *)

\* connect() gives the session a bufferevent and waits for the signal connected.
connect ==
    /\ pc = "loop" /\ scenario.client /\ connecting = "no" /\ ~closing
    /\ top' = TRUE /\ connecting' = "waiting"
    /\ UNCHANGED <<flags, coro, input, output, peer, scenario, octets, closes, pc, ret>>

\* BEV_EVENT_CONNECTED: connected is emitted, and the coroutine that awaits it goes on.  ssl() puts a
\* filter on the bufferevent, which becomes m_top and emits connected again; then http::Client adds the
\* session to the loop, if it is not there.
Connected ==
    /\ pc = "loop" /\ top /\ Connecting
    /\ IF connecting = "waiting" /\ scenario.tls
       THEN connecting' = "handshake" /\ UNCHANGED registered
       ELSE connecting' = "done" /\ registered' = TRUE
    /\ UNCHANGED <<top, closing, removals, fault, coro, input, output, peer, scenario,
                   octets, closes, pc, ret>>

\* BEV_EVENT_EOF, _ERROR and _TIMEOUT: closed(), which by default is close().
Disconnected(how) ==
    /\ pc = "loop" /\ top /\ peer # "error" /\ peer # how
    /\ how \in scenario.events /\ (Connecting => how = "error")
    /\ peer' = how
    /\ close(proc = "active", output)
    /\ UNCHANGED <<coro, input, output, connecting, scenario, octets, closes, pc, ret>>

\* The application calls close() outside process().
AppClose ==
    /\ pc = "loop" /\ registered /\ closes > 0
    /\ closes' = closes - 1
    /\ close(proc = "active", output)
    /\ UNCHANGED <<coro, input, output, connecting, peer, scenario, octets, pc, ret>>

\* ... or takes the bufferevent away with eject(), which removes the session at once, and a processor
\* with it.
eject ==
    /\ pc = "loop" /\ registered /\ top /\ ~Connecting /\ closes > 0
    /\ closes' = closes - 1
    /\ top' = FALSE /\ registered' = FALSE
    /\ proc' = "none"
    /\ UNCHANGED <<closing, removals, fault, waits, view, used, input, output, connecting, peer,
                   scenario, octets, pc, ret>>

\* The deferred loop->remove(*session): without its session it is a dangling pointer or throws.
Remove ==
    /\ pc = "loop" /\ removals > 0
    /\ removals' = removals - 1
    /\ registered' = FALSE
    /\ fault' = (fault \/ ~registered)
    /\ UNCHANGED <<top, closing, coro, input, output, wire, pc, ret>>

-----------------------------------------------------------------------------
Callback == \/ ReadContiguous \/ ReadAll \/ ReadNothing
            \/ WrittenResumes \/ write_cb \/ processing_complete

Next == \/ \E n \in 1 .. MaxInput : Receive(n)
        \/ Callback
        \/ TimerResumes \/ Written
        \/ connect \/ Connected
        \/ \E how \in {"eof", "error"} : Disconnected(how)
        \/ AppClose \/ eject \/ Remove

Spec == Init /\ [][Next]_vars

\* Callbacks return, timers fire, a socket without an error takes its output, a connection attempt
\* ends one way or the other, and the loop runs its deferred calls.
FairSpec == /\ Spec
            /\ WF_vars(Callback) /\ WF_vars(TimerResumes) /\ WF_vars(Written) /\ WF_vars(Remove)
            /\ WF_vars(Connected \/ (Connecting /\ Disconnected("error")))

-----------------------------------------------------------------------------
(* Properties.                                                             *)

\* A suspended process() keeps its session, its bufferevent and every octet of its string_view,
\* whatever is received, written or closed meanwhile.
ProcessorKeepsItsInput ==
    proc = "active" => registered /\ top /\ view <= length

\* However many of write_cb, processing_complete, event_cb and the application call close(), one
\* removal is deferred, and it finds its session.
RemovedOnce == ~fault /\ removals <= (IF registered THEN 1 ELSE 0)

\* Once read_cb() is through with a process() that never suspended, nothing is left in the buffer
\* that process() was not offered as a whole and declined.
NothingLeftUnoffered ==
    pc = "loop" /\ proc = "none" /\ top /\ ~closing /\ length > 0 => declined = length

\* A session that is closed leaves its loop, unless an error left it with output it cannot write.
CloseCompletes == closing ~> (~registered \/ (output /\ peer = "error"))

\* A read_cb() that found the processor active waits "until it's done" (session.cpp:99): the input
\* that came meanwhile, or that a done processor left, is offered too.
DeferredInputIsOffered ==
    pc = "loop" /\ proc # "active" /\ top /\ ~closing /\ length > 0 => declined = length

\* A connect() is answered, "Loop around and try again" (client.cpp:75) included: the coroutine
\* that awaits it goes on, with a connection or with an exception.
ConnectSettles == Connecting ~> ~Connecting
=============================================================================
