# covent in TLA+

Formal models of **covent**, a C++20 library of coroutines over libevent for network programs, with TLC runs that check
them on small instances and TLAPS proofs for every value of the constants. Line numbers refer to the files under `src/`.

## The system

| Component | Where | State it keeps | Operations |
|---|---|---|---|
| Loop | `src/covent.cpp`, `include/covent/loop.h` | `m_pending_actions` (a multimap by time, under `m_scheduler_mutex`), `m_sessions`, `m_shutdown`, the event base | `run`, `run_once`, `run_until*`, `run_task`, `defer`, `shutdown`, `add`, `remove` |
| Coroutines | `include/covent/coroutine.h`, `sleep.h` | in each promise: parent, liveness, loop, exception; one wrapper coroutine per `co_await` | `start`, `resume_handle`, `co_await`, `sleep` |
| gather, race | `include/covent/gather.h` | parents of the tasks raced | `gather`, `race` |
| Futures, generators | `future.h`, `generator.h` | value, exception, waiting coroutine | `resolve`, `exception`, `co_await`, `co_yield` |
| Session | `src/session.cpp`, `include/covent/core.h` | `m_top`, `m_closing`, `m_processor`, the signals `connected` and `written`, the bufferevent's buffers | `connect`, `write`, `flush`, `used`, `close`, `ssl`, `eject`, the callbacks `read_cb`, `write_cb`, `event_cb`, `processing_complete` |
| Listener, Application | `src/listener.cpp`, `src/application.cpp` | a socket, a singleton | accept, loggers |
| Service | `src/service.cpp` | entries by domain, each with resolver, validator, TLS context | `entry`, `add`, `discovery`, `srv_lookup`, `xmpp_lookup` |
| DNS resolver | `src/dns/dns.cc` | libunbound context, queries, injected answers | `srv`, `svcb`, `tlsa`, `address_v4/6`, `inject` |
| HTTP | `src/http/*.cpp` | parser position, body remaining; endpoints and middleware | parse, route, reply, request |
| PKIX, CRL cache | `src/tls/*.cc` | contexts, certificate stores, CRLs | `verify_tls`, `fetch_crls`, `crl` |

A program makes a loop on a thread, and every callback of the loop runs on that thread, one at a time. Sessions hand
what they receive to `process()`, a coroutine of the application that may suspend; whatever resumes a coroutine (a
timer, a signal of the session, the end of an awaited task) does so from a callback or from a deferred action.
`Loop::defer` and `Loop::shutdown` are the only calls made from other threads, by the application or by the wrapper of
a `co_await` across loops. `Session::close` defers `Loop::remove`. The resolver, the HTTP client and the validator are
coroutines that await each other, sessions and futures.

What is hard: the threads around `run_once` (every step of it can fall between two steps of a `defer`); coroutines that
end on one thread and are awaited on another; `close` being called from four places of a session, before, while and after
its processor is suspended; attempts that fail without telling the one who waits; parsers that get their input in pieces;
DNS answers in any order. `PROJECT.json` lists the hazards line by line.

What makes each component correct: the **loop** runs what was deferred once, in order, not early, and does not sleep past
it or past a shutdown; a **task** runs on its own loop, is resumed once for each suspension and finds its result there;
a **session** keeps the input of a suspended processor, offers everything it receives, closes once and leaves the loop;
**race** returns a finished task's result; a **parser** yields the same message however its input is cut; **discovery**
gathers only what DNSSEC covers; a **verification** collects every CRL that could be had and every name that is vouched
for before it comes to OpenSSL.

## Modules

| Module | Models | How it corresponds to the code |
|---|---|---|
| `Deferral` | what `defer` promises | abstract: a queue of actions, each with a time and a place in the order of arrival; the first overdue one is run, an action that throws may take the next ones with it |
| `Loop` | `covent.cpp:47-146` | one action per stretch of `run_once`, `defer` and `shutdown` that another thread can come between; `pc` is where the loop's thread is and `todo` where each thread is inside `defer` or `shutdown`. `m_pending_actions` is the set `pending` with the functions `when` and `stamp`, ordered by `Before` |
| `TimeVal` | `loop.h:23-29`, `covent.cpp:106-146` | the arithmetic on `struct timeval` as written; `LoopProofs` proves that it is arithmetic on microseconds, and `Loop` counts ticks on the strength of that |
| `LoopProofs` | | theorems about `Loop` and `TimeVal` |
| `Session` | `session.cpp`, `covent.cpp:173-188` | one action per callback, or per stretch of a callback between two calls into `process()` or `close()`; `connecting` goes through the handshake where `ssl()` is called. Data is counted; `cuts` are the borders of contiguous pieces of the input. What the application's `process()` does is a choice among `Bodies` |
| `SessionProofs` | | theorems about `Session` |
| `Task` | `coroutine.h`, `sleep.h`, `gather.h`, `loop.h:70-80` | each loop is a thread with a stack of coroutines; `resume()` pushes, a suspension pops, symmetric transfer replaces the top. The wrapper of each `co_await` has states of its own (`wrapper`). A program gives each task a body of a few instructions; `gather()` and `race()` are bodies made of the same ones, the dummy task of a race and its timer being tasks. An exception goes from a frame to whoever awaits it, `taken` and `hollow` follow results that `get()` moves out, `gone` the frames that were destroyed |
| `TaskProofs` | | theorems about `Task` |
| `Message` | `http/message.cpp:20-205`, `session.cpp:106-163` | the parser of responses as the session offers it data: `buffer` is what has arrived and is not used, a line or a chunk is a few octets that matter (CR, LF, a digit, a letter), and each `process_*` is the branch of `process()` it is called from. `MessageAssumption` says what responses are: only a chunked one has a trailer, no chunk is empty but the last, and no body is longer than `size_t` counts |
| `Request` | `http/uri.cpp`, `request.cpp`, `fieldref.cpp`, `http.h` | operators over texts of tokens: `parse` of a URI, what assignments leave in a header, and the lines a request writes |
| `Client` | `http/client.cpp:36-122`, `gather.h:52-104` | `request()` and `send()`: `attempt[f]` is the coroutine `connect()` of each address family, `phase` is where `send()` is, a race is the tasks whose parent is its dummy, with its timer. EXTENDS `Message` for the response and `Request` for what is written. A session may close at any time (`Closes`), and what `close()` defers is an action of its own (`Removes`), which throws out of the loop when the session was never added (`Throws`) |
| `ClientProofs` | | theorems about `Message` and `Client` |
| `SequenceFacts` | | lemmas about sequences: pieces of them, concatenations of many, permutations, and least numbers |
| `Records` | `dns/dns.cc`, `dns.h` | the parsers of SRV, SVCB and TLSA records: operators from octets to a record, or to `Unparsed` where the code throws |
| `Resolver` | `dns/dns.cc`, `future.h` | EXTENDS `Records`. What the coroutines of a service wait for (`waiting`, `got`), the queries libunbound has (`pending`), and what was injected; an answer comes as octets. A name is its labels and the number of dots that end it |
| `Discovery` | `service.cpp:81-188` | `discovery()` and `discover_tlsa()`: `step[t]` is the `co_await` it is at, `records` what is left of its loop |
| `Lookup` | `service.cpp:190-268`, `generator.h:85-165` | `srv_lookup()` and `xmpp_lookup()` as one coroutine, for the outer awaits nothing but the inner; the application advances and drops it. The order of equals and the draw by weight are choices among what they can come to |
| `Service` | `service.cpp:60-65` | EXTENDS the last two: discoveries and lookups that share a resolver |
| `Validator` | `pkix.cc:304-430`, `crl-cache.cc` | EXTENDS `Service`: `verify_tls()` with its CRLs, any number at a time, that share a certificate store. `verifying[t]` is the `co_await` it is at, `judged` the parameters that were prepared and the `X509_STORE_CTX` that `X509_verify_cert()` is called with, after the calls to OpenSSL in their order (`Context`). A request for a CRL may never be answered, or may throw out of the loop (`escaped`) |
| `ServiceProofs`, `ValidatorProofs` | | theorems about `Service` and `Validator` |
| `Server` | `http/server.cpp:62-247` | a request's coroutine is at some middleware, at its handler, or caught; `in_flight` is `m_in_flight`, whose tasks are in the order in which their requests came. A path is its segments, a template is literals and variables |
| `ServerProofs` | | theorems about `Server`, `Entries`, `Tls` and `Https` |
| `Entries` | `service.cpp:18-72`, `service.h:46-77`, `pkix.cc:449-457` | the entries as a function from names to a parent and a context; each call inside `tls_context()` is a step of its own, for it may not return. `settings` is what the entries were had nobody ever asked; `IsConfig` says which calls an application makes. A resolver and a validator are looked for in the same way |
| `Tls` | `pkix.cc:187-199,270-291,466-545`, `server.cpp:203-211` | EXTENDS `Entries`: each connection takes the context of `""` and goes over to that of the name in its ClientHello. A context is built on first use; an identity that does not load leaves it half built |
| `Https` | `server.cpp:15-23,178-191` | EXTENDS `Server` and `Tls`: requests come on connections that are established; while one callback runs there is no other |
| `MCLoop`, `MCSession`, `MCTask`, `MCClient`, `MCService`, `MCServer` | | instances for TLC |

libevent is external. What is assumed of it: `event_base_loop` clears a break asked for before it was entered and keeps
the timers of `event_base_loopexit`; a break from another thread wakes it; with `EVLOOP_NONBLOCK` it does not sleep;
a bufferevent calls its write callback when its output has gone, and its event callback once per event.
So is libunbound: it answers each query once, in any order, unless it is cancelled, from `ub_process` only; a name with
an empty label inside, as two dots at its end make one, is an error. And `evhttp`: it calls `bufferevent_cb` and
`request_cb` from the loop, and frees a request when it is replied to. OpenSSL calls the
callback for server names while it reads a ClientHello, and `SSL_set_SSL_CTX` with a null context changes nothing;
`X509_STORE_CTX_init` starts a context anew, with the parameters of the store, which has none of its own here.

## Runs

| Run | Shows | Bounds and why they are enough |
|---|---|---|
| `loop` | the loop's invariants, that it implements `Deferral`, that own actions run and shutdown stops it | one other thread, two own actions and one of the other's, delays 0 and 1, a clock of 3 ticks: two own actions share a key or differ, one may be deferred from the other, and the other thread comes between any two steps |
| `loop_lost_wakeup` | *finding*: the wakeup of a zero-delay action deferred by another thread is lost | the same |
| `session` | a suspended processor keeps its input, one removal, everything offered, closing completes | 3 octets in pieces of any size, five scenarios for the application and the peer (`MCScenarios`), one of them with `ssl()`, with at most one `close()` or `eject()` from outside |
| `session_stall`, `session_removed_twice`, `session_connect` | *findings*, below | the same, one scenario each |
| `task` | tasks run at home, are resumed once, get their results, races return what they should, no frame in use is destroyed, and everything completes | three tasks in a chain with all eight placements over two loops, and with an inner one that throws; a gather of two; two tasks that await one; twelve races of one or two tasks, over parameters and over a container, with and without a timer, with tasks that were started before, end at once, throw or are rejected by the predicate; results that are moved out. Each task named in `naps` may sleep once anywhere, so that any may end first |
| `task_not_done_yet`, `gather_across_loops` | *findings*, below | one chain, and one gather, across two loops |
| `client` | the session used is connected and open, both families are tried, the request asks for what the URI names, the message is what was sent however the stream is cut, `send()` ends | one request; hosts with none, one or two addresses of each family, over TLS or not, each attempt failing or ending at any time; URIs with and without port and path and of an unknown scheme; fields assigned twice and in two spellings; seven responses, of every framing, with line ends in a body and a trailer, cut at every octet; every session, of an attempt or in use, may close at any time, and the loop be left by an exception and run again |
| `service` | no query outlives the coroutine that waits for it, what discovery gathers is signed and complete, records are yielded once and in order with their own addresses, a verification has collected every CRL that could be had, and the names and TLSA records, when it comes to OpenSSL, a verification ends | two discoveries or verifications, or one beside one lookup, which may be dropped anywhere, in 29 settings (`MCZones`): SVCB, SRV of both services or one or none, an alias, signed, unsigned and bogus answers, equal and zero weights, queries that fail, injected answers, records whose octets are cut short or out of order; chains of two certificates whose CRLs come, do not, make the client throw, or are never answered for |
| `server` | suspended requests are kept, each is answered once by the right handler after all middleware, each ends; a connection is served with what was configured for its name whoever asked for what before, and a search for a context ends | without TLS: two requests at once over three paths and three sites with overlapping templates, or three requests at one endpoint, so that one is erased while another is suspended; each suspends once anywhere; endpoints and middleware are added at any time. With TLS: two connections for any of two names or none, the second of which meets what the first left, and five configurations, each step of which comes at any time: wildcards of two depths, inheritance, contexts replaced, off, or with an identity that is late or does not load, and an entry `""` with a parent |

Deadlock is not checked in these runs: a loop that was shut down, a session that is closed, a program that has
completed and a server without requests stop, and so does a thread that sleeps.

`Session`'s scenarios are the preconditions of its properties. `CloseCompletes` is claimed for applications that do not
call `close()` from a `process()` that returns at once with nothing written: such a close finds `m_processor` set, only
marks the session, and nothing retries it (`session.cpp:131`, "TODO : Check closed"). `RemovedOnce` is claimed where
neither the application nor the peer closes a session twice, and no processor returns from a `flush()` into a session
that is closing; the run `session_removed_twice` shows the latter, and `SessionProofs!Careful` states the precondition.
Nothing in the repository calls `ssl()` or `eject()` from within `process()`, and no scenario does.

`Task`'s programs race tasks of one loop, as every use in the repository does; that a gather of tasks of two loops goes
wrong is a finding. `RaceReturns` excepts a task that ends as soon as it is started: `race()` returns its result without
asking the predicate (`gather.h:71-76`). `MCTask` also checks that each of its programs is one of those for which that
is proved (`TakenOnce`).

`SendEnds` is claimed for headers whose lines have a colon and for responses that are chunked, have a length or no body:
a line without a colon is read for ever (`message.cpp:56`), and a body of another transfer coding has no end. It is also
excused in four cases, each of which TLC needs. The session in use closes: nothing then resolves what `send()` awaits
(`client.cpp:120`). An exception has left the loop, which is never run again; or the timer of the race was destroyed with
the actions behind the one that threw. (An attempt that is refused is what makes the loop throw, as said below, and
`run_task()` then destroys `send()` if it holds it: that is an end.) And what is undefined: a removal deferred by a
session that was never added, after `send()` is over and has freed it, and a verification that goes on with the `SSL` of
a session that has closed (`pkix.cc:401`). What else applications put on the loop is assumed not to throw. URIs have a port
below 65536 and are well-formed; `Client::request()` ignores its argument `body`, and so a request has none.

`GathersVerified` is claimed where it makes no difference that both SRV answers are treated after the
one for `xmpp-server` (`Plain`; `service.cpp:135,152`), and where nothing is an alias; `VerificationEnds` where no alias
was injected, for that answers for its own target again. It excepts a verification whose own request for a CRL is never
answered: `do_crl()` awaits `Client::send()`, which has no timeout; that others are not held up by it is part of what is
checked. It also excepts what follows undefined behaviour of the resolver (`halted`, `dns.cc:249-252`), and an exception
that leaves the loop because the server of a CRL refuses the connection (`escaped`): what is lost with the
other actions of that turn is not followed.

`AllCollected` is about what a verification has when it comes to OpenSSL:
the store of the TLS context, the parameters it has prepared, and the TLSA records of the `SSL`. Its part about CRLs holds
for validators with trust anchors of their own as well, but their chains are judged against another store, without them.
`Validator`'s sessions do not close; `Client` has those.

The parsers of `Records` are compared with encoders written
from the RFCs over the records of `MCService`'s assumptions only, each with its prefixes and with parameters after it.

`AnsweredOnce` is claimed for handlers that reply if and only
if they return a code other than zero, and excepts what they throw that is no `runtime_error`.
`RightHandler` is claimed and proved for templates with no variable twice (`DistinctNames`): one that occurs twice keeps
the last segment only.
`ServedAsConfigured` excepts the contexts in `spoiled`: `context()` sets `m_ssl_ctx` before it loads the identities
(`pkix.cc:515,527`), so that after an exception the next connection gets an `SSL_CTX` without the callback and with some
of them, and it never looks at identities that come later. `AskEnds` is claimed where `""` has no parent or can inherit a
context: otherwise `service.cpp:69-70` goes round for ever, as the last of the sites does. An `add("")` that comes after
somebody asked throws, and configures nothing.

## Fairness

`Loop!FairSpec`: time passes, callbacks and actions return, and a thread inside `defer` or `shutdown` goes on: that is
the operating system's scheduling. No fairness on I/O events, on what applications defer, or on throwing.
`Session!FairSpec`: a callback in progress returns, timers fire (`loop` shows the loop runs what is deferred), output
drains unless the connection has failed, a connection attempt ends. No fairness on data, on the peer or on close.
`Task!FairSpec`: each loop's thread goes on. Which of its coroutine's possible next steps is taken is free.
`Client!FairSpec`: while the loop is run the timers of the races fire, `send()` goes on, and the server's octets arrive
and are offered until the session closes. No fairness on the attempts, either of which may take for ever, on sessions that
close and their removal, nor on running the loop again after an exception has left it.
`Validator!VerifyFairSpec`: the coroutine that runs goes on, libunbound answers what a discovery asks, well or with an
error, and each request for a CRL comes to one of its outcomes, to be never answered among them: nothing is asked of the
servers. No fairness on the application: a generator may never be advanced.
`Https!HttpsFair`: the coroutine that runs goes on, and a suspended one is resumed; a call of `tls_context()` goes on,
and returns to its caller. No fairness on clients, nor on what the application configures or adds.

## Findings

1. `loop_lost_wakeup`, `covent.cpp:142`: `event_base_loopbreak` before `event_base_loop` is entered is forgotten.
2. `session_stall`, `session.cpp:80`: after an asynchronous `process()` the rest of the input is not offered.
3. `session_removed_twice`, `session.cpp:167`: `write_cb` closes a session that its own signal has just closed.
4. `session_connect`, `session.cpp:60`: a connection that fails later leaves `connect()` suspended.
5. `task_not_done_yet`, `coroutine.h:424`: a task awaiting another loop's task may run before its wrapper has ended.
6. `gather_across_loops`, `gather.h:35`: a gather of a task of another loop defers two resumptions of it.

Read in the code and not the subject of a run of their own, though the models have the last three:

- `run_until_complete(session)` returns as soon as the session is in the loop (`covent.cpp:84`), the opposite of its
  comment, "until this session is closed" (`loop.h:69`).
- An attempt to connect that is refused comes to `close()`, which defers the removal of its session (`session.cpp:226`);
  `Client::connect()` has not added that yet (`client.cpp:60`), and "Session not found" leaves the loop
  (`covent.cpp:173-177`), where `client.cpp:74-75` means to ignore the error and try again. In `Client`: `Throws`.
- `verify_tls()` puts the names and the CRL flag into the `X509_STORE_CTX` (`pkix.cc:397`) before `X509_STORE_CTX_init()`
  (`409`), which replaces the parameters: what `X509_verify_cert()` gets has neither. In `Validator`: `Context`.
- With `m_trust_blobs` the chain is verified against a new store (`pkix.cc:391-396`), and the CRLs are in that of the
  `SSL_CTX` (`345`). In `Validator`: `Revocations`.

## Proofs

`LoopProofs` proves, for any sets of threads, actions and delays and any bound on the clock (`LoopAssumption`), that
`Loop!Spec` satisfies `TypeOK`, `NoOversleep`, `ShutdownNotLost` and `BatchFirst`, and implements `Deferral`. The
inductive invariant is the conjunction of the four with `Bookkeeping`: `run_now` is empty except between its extraction
and the return of its last action, and what is pending or in it has a stamp, none larger than `stamps`. Without the
stamps `BatchFirst` is not inductive: an insertion with an equal key must come after what is there. The refinement maps
`queue` to `pending \cup batch`; an extraction is a stutter, and an action that throws is `Abandon` of the batch, which
needs `BatchFirst`.

It also proves the four facts about `struct timeval` (`TimeVal`) that let `Loop` use numbers.

`SequenceFacts` has the lemmas on sequences that the next proofs rest on. Induction over numbers is done with
`LeastNat`: a set of numbers that is not empty has a least member, which `WellFoundedInduction` gives without an
operator as parameter; a counterexample then has a least length. So `FlattenAppend` and `Pieces` say what `FlattenSeq`
comes to, by the recursive function that it is, and `SameBag` and `Taken` what a permutation and its pieces are.

`ServiceProofs` proves, for any discoveries, lookups and zones, that `Service!Spec` satisfies `NoStrayCallback`: what
libunbound will call back about is a future that exists and is not settled. The inductive invariant adds `Queries`: only
a coroutine at one of its `co_await`s has queries, and never the one that runs. That is what lets a coroutine forget its
futures when it goes on, and it holds because the last answer is what resumes a coroutine. Every step is an await
(`AwaitKeeps`), goes on (`GoOnKeeps`), destroys a frame (`ReleaseKeeps`) or is an answer (`CallbackKeeps`); the lemmas
about the components' actions reduce each of them to one of these.

On that rest the theorems about what coroutines do with answers. `Answers` says that whatever a coroutine has `got`
answers the question at that place in `waiting`, parsed or injected, and that nothing is injected once anything has
begun. `Types` gives `TypeOK`. `LookupsInv` says of each lookup which questions it is at, that the records it has
`chosen` and those left in `list` are together those that were offered, as bags, and that the two in a row are in the
order of priorities: so every draw by weight keeps them so. `YieldsInOrder` and `YieldsAsRecorded` follow.
`ZonesAssumption` is that each answer in a zone is one libunbound and its parsers can produce.

`ValidatorProofs` proves `GathersVerified`. `Gathered` is defined beside the code's loop, as the sequence of what has
been collected after each record; `DiscoveriesInv` says that a discovery at its k-th record has gone through the first k
of the records it works on and has what `Gathered` says, so that an end in the right order is an end with everything. It
proves that `VerifySpec => Spec`: what a verification does to the resolver is what a discovery does, so that the
theorems about `Service` carry over. `Fetching` says that while a verification fetches, each CRL that its server has is
in the shared store or still to be fetched; after that it is in the store, from which nothing is ever taken
(`CrlsAreThere`). `Judged` adds that a discovery that has ended, and was judged on, stays as it is; with `Fetching` and
`GathersVerified` this gives all of `AllCollected`, which says what a verification has collected when it comes to
OpenSSL, and not that the chain is judged on it: see what was read in the code, above. `Verifying` gives `ValidatorTypeOK`.

`TaskProofs` proves `RunsAtHome` for any loops and any programs that `IsProgram` accepts. The invariant says that every
stack holds only coroutines that may run on its thread (`Stacks`), and that the parent of a task, to which it passes
control when it ends, may run at the task's home (`Parents`): a wrapper may run anywhere, and the dummy task of a race
is at home where the tasks raced are, which is why programs that race across loops are excluded. `TypeOK` needs `Awaits`:
a task that awaits stays at its `co_await`, so that what it waits for is a task.

It proves `ResumedOnce` and `ResultIsReadyOnOneLoop` for any behaviour that is `Orderly`. Without it they are false: two
tasks may await one that nobody started, a task may await itself, and the finding `gather_across_loops` is a program
that awaits what is being started elsewhere. `Orderly` is what the library leaves to its users, and sees to itself in
`gather()` and `race()`: a task is started once and before it is awaited; what is awaited is there, and is over, started
on this loop or not begun with; and no frame in use is destroyed. The run `task` checks it on all of its programs. The
invariant is `Sound`. `Control` says where each task and its wrapper are: a task that is running is on one stack, at
home, and only there (`TaskRuns`); a wrapper that has something to do is on one, and then its task is on none
(`WrapperRuns`); a deferred resumption finds its task suspended for it (`DeferredOnce`). `Waits` says that what a task
waits for has it as its parent until it ends, so that the end of a task always finds a wrapper that is `waiting`; and
that what nobody started was never touched. A race does not fit that: its tasks have a dummy for a parent, which passes
for started and never runs by itself. `RacesAre` follows a race through its three last instructions: while it is parked
at the `co_await` of its dummy, the tasks raced and the timer may resume the dummy, which resumes the race; before it
attaches the dummy and after it has detached it, nothing refers to it, so that it may be destroyed with the race's
frame. The step lemmas say, for each variable and each task, what any step of a thread may do to it (`BodyMove`,
`WrapperMove`, `DeferMove`, `StartMove`, `ParentMove`), so that each part of the invariant needs those cases only.

On top of `Sound` it proves `RaceReturns`, for programs that are also `TakenOnce`: what moves out when it is got is
awaited at one place of a task, and nowhere if it is raced, by one race then. Without that a race may find hollow what
others had before, and what it then returns says nothing of the race. `Keeps` is the heart of the invariant: a race that
has not ended has moved out only results that its predicate rejects, and none if it looks at each task as it starts it.
`Moved` says who can have had a result that is moved out (`Took`), so that two tasks that await it are the only other
way to a hollow one. `Roused` says that the dummy runs because one of the tasks raced, or the timer, has ended, which is
why a race that accepts nothing and times out has a cause. `Looks` is about the race of a container, which looks at what
it has just started: the race has the loop, so a task that went to sleep cannot have woken up, and one that has ended
there never slept. `Winner` says the rest: what a race finds ended, on top of its own loop, is not on a stack any more.

`SessionProofs` proves the type invariant and `ProcessorKeepsItsInput` in every scenario, from `Safe`: a callback that
went into `process()` or `close()` still has its bufferevent when it goes on, and while a removal is deferred the
session has none and is closing. `RemovedOnce` does not hold in every scenario (finding 3). It is proved for scenarios
that are `Careful`: a processor that waits in `flush()` writes again before it ends, a session whose connection may fail
is added first, and a `close()` from outside is the only close. `Once` adds what those give: `write_cb` finds a
bufferevent when it goes on (`Rewritten`), a session that can still be closed is in the loop (`InLoop`), and it was not
closed before (`ClosedOnce`). `NothingLeftUnoffered` holds in every scenario, and is not inductive: `Offered` adds that
input left over while nobody processes it has been declined also when `write_cb` is about to go on, and that a session
that is still to connect has no input.

`ServerProofs` proves, for any sites and numbers of requests, the type invariant, `NothingDropped`, `AnsweredOnce` and
`RightHandler`. `Flight` says that requests come in order and that a coroutine that runs from `start()` is the last of
`m_in_flight`: only then is the task that `request_handler()` pops the one that has just ended. `Replies` counts replies
at each place of a coroutine. `Routed` says that the endpoint of a request fills to its path and that no earlier one
matches, which additions do not disturb because they come at the end; `Fills` and its companions are the facts about
templates. `PassesMiddleware` counts what a request has passed. The invariant says which sequence that is, not how long
(`OnItsWay`): some of the root's middleware in its order, then some of its endpoint's; all of the former that was there
when it came, and no more of the latter than there is, for `add` only ever appends.

With TLS, it proves that `Https` implements `Server` (`HttpsIsServerHolds`), so that these theorems hold of it; its type
invariant; and `ServedAsConfigured`: whatever connections asked for before, each uses the context that the settings
alone mean. `Inherited` is a recursive function on names, and is well defined only while no entry is its own ancestor.
`Sound` says so by a rank: a parent was there before its child (`InheritedIs`). `Mirror` relates the entries to the
settings: they differ by an entry for `""` at most, and by a context for it that is not enabled. `Seeking` says that
whoever asks is at an entry that inherits what the name asked for means, or where there is nothing but the context of
`""`. `FindIs` is why that holds when a search begins: the entry found is the longest of those that cover the name.
`AsTold` says what a context that was built has of its identities, unless it was spoiled. `HttpsAssumption` is what the
theorem asks of a site (`IsConfig`): no entry is called `*.`, which `entry()` would find for a name without entry before
it comes to `""`; and a parent is there when an entry refers to it, because the constructor takes it by reference
(`service.h:57`).

`ClientProofs` proves `UsesConnected` and `FallsBack` for any exchanges. `Sessions` says which attempts are in the loop
or have closed, and that what a race was won with is one of them; `Tried` says which families have been started at each
phase. An attempt that is a session stays one, because nothing that is started or resumed is at that place. `Raced` says
that while a race waits none of its attempts is a session yet, and that when one is, the race goes on before anything can
close it: so the session that `send()` goes on with is open.

It also proves `BodyIsPrefix` and `WholeMessage` of `Message`, for any responses and any cuts. `Windows` says that the
buffer and what is still to be sent are, at every moment, pieces of one text, `whole`, at known places; `used` is how
much of it is gone. `Places` says where the parser is in what it was offered. `Stage` says, for each branch of
`process()`, where in the text that is: at the status line, before the n-th field, at an octet of the body, before the
n-th chunk, in the trailer; and `Told` what it has learned by there. Each `process_*` is then one lemma that takes one
place to the next, or finds that the rest of the line has not come. `WholeMessageHolds` supposes that a response with
neither a length nor a coding has no body, because the code takes a body that ends with the connection for none
(`message.cpp:80-85`); `BodyIsPrefixHolds` supposes nothing.

It proves `RequestArrives`, for any URI of which `IsUri` holds (a host without colon or slash, a path that is empty or
begins with a slash, a port that fits in 16 bits) and any assignments. `ParsesTo` says what `parse` makes of such a URI
written out: where `Find` and `Skip` stop is where one part ends and the next begins (`FindAt`, `SkipTo`), and the same
text is grouped differently for each of them (`Joined`, `Regroup`). `FoldsAfter` says what the fold over assignments
comes to: under each key the value of the last assignment to it, and the host's where there is none. `Listed` says that
`SetToSeq` has each element once, so that the lines of a request are one for each field (`WrittenIs`). The invariant
`AskedInv` adds that without a port every attempt throws (`Portless`), so that a request is only written where there
is one.

`ClientTypeOK`, the types of `send()` and of the parser under it, is proved from these invariants and is not run. That
`buffer` and what is still to come are the end of the stream, and `data` the end of what was offered, is `Windows`, read
backwards (`SuffixIs`).

Induction over numbers, by a counterexample that is least, is enough for recursive functions, for sequences and for
folds, whose definitions the provers can unfold. Out of reach are the library's theorems with an operator as parameter,
liveness and `ENABLED`. So the liveness properties are model-checked only: `OwnDeferredRuns`, `ShutdownStops`,
`CloseCompletes`, `RootCompletes`, `SendEnds`, `VerificationEnds`, `RequestEnds`, `AskEnds`; and `Orderly` is, which the
theorems about `Task` suppose. Every invariant of the runs that pass is the property of a theorem, under the
preconditions given above.

## Not modelled, and the plan

1. `make_resolver` and `make_tls_context` while a discovery or a connection attempt holds the old object
   (`service.cpp:83`, `client.cpp:61`), with the destruction of a resolver (`dns.cc`): `Entries` with `Service` and
   `Client`.
2. The destruction of a server with requests in flight.
3. `Listener`, `Loop::listen` and the process-wide loops: they hand sockets to `create_session`, whose sessions are the
   accepted ones of `Session`.
4. A clock that is set back, and actions that defer themselves for ever, in `Loop`.

Never: what OpenSSL does with what it is given, tracing, logging, the synchronous generator (nothing in the library uses
it), socket addresses: they are calls into libraries, or have no state of their own.
