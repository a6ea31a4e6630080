----------------------------- MODULE MCSession ------------------------------
\* Sessions that answer at once, suspend, throw, write and close; and the ones the findings are about.
EXTENDS Session

Body(w, c, e) == [writes |-> w, closes |-> c, ends |-> e]

Both == {"eof", "error"}

\* A close() in a process() that does not suspend is acted on only if the process() also writes.
AnswersOrSleeps == {Body(w, FALSE, e) : w \in BOOLEAN, e \in {"sleep", "return", "throw"}}
                      \cup {Body(TRUE, TRUE, "return"), Body(FALSE, TRUE, "sleep")}
Ends == {Body(w, c, e) : w \in BOOLEAN, c \in BOOLEAN, e \in {"return", "throw"}}

Flushes == {Body(FALSE, FALSE, "flush")}

Peer == [client |-> TRUE, added |-> TRUE, tls |-> FALSE, start |-> AnswersOrSleeps, resume |-> Ends,
         closes |-> 0, events |-> Both]

MCScenarios ==
    { Peer,
      [Peer EXCEPT !.client = FALSE],
      \* Only the application closes or ejects, and only once.
      [Peer EXCEPT !.start = {Body(w, FALSE, e) : w \in BOOLEAN, e \in {"sleep", "return"}},
                   !.resume = {Body(w, FALSE, "return") : w \in BOOLEAN},
                   !.closes = 1, !.events = {}],
      \* process() flushes and, once it is resumed, writes again before it ends.
      [Peer EXCEPT !.start = Flushes, !.resume = {Body(TRUE, c, e) : c \in BOOLEAN, e \in {"return", "throw"}}],
      \* http::Client adds its session when it is connected; the connection succeeds and stays.
      [Peer EXCEPT !.added = FALSE, !.tls = TRUE, !.start = Flushes, !.resume = {Body(FALSE, FALSE, "return")},
                   !.events = {}] }

MCFlushThenClose == {[Peer EXCEPT !.start = Flushes, !.resume = {Body(FALSE, FALSE, "return")}]}

MCPeer == {Peer}
=============================================================================
