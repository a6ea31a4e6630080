------------------------------- MODULE Request -------------------------------
(***************************************************************************)
(* covent::http::URI and covent::http::Request: what a URI says of where   *)
(* to connect to, and what a request writes to the session it is given.    *)
(*                                                                         *)
(* A text is a sequence of tokens, pairs <<kind, number>>: a colon, a      *)
(* slash, a number, or a word, whose kind is the word.  A field has a name *)
(* and a spelling of it, and of these only the name counts.                *)
(***************************************************************************)
EXTENDS Integers, SequencesExt

Colon == <<":", 0>>
Slash == <<"/", 0>>

\* find_first_of(marks), as an index; beyond the end for npos.
Find(text, marks) == Min({i \in DOMAIN text : text[i] \in marks} \cup {Len(text) + 1})
Skip(text, marks) == Min({i \in DOMAIN text : text[i] \notin marks} \cup {Len(text) + 1})
Until(text, i) == SubSeq(text, 1, i - 1)
From(text, i) == SubSeq(text, i, Len(text))

NoPort == -1
MaxPort == 65535
DefaultPort(scheme) ==
    CASE scheme = <<<<"http", 0>>>> -> 80 [] scheme = <<<<"https", 0>>>> -> 443 [] OTHER -> NoPort

\* std::stoi() of the number a text begins with, and the port that is made of it.
WholeNumber(number) == number
Port(number) == number % 65536

\* URI::parse(): whatever colons and slashes follow the scheme are skipped; a port lasts to the next
\* slash, and the path begins there.
HasScheme(text) == Find(text, {Colon}) <= Len(text)
Authority(text) == LET rest == From(text, Find(text, {Colon})) IN From(rest, Skip(rest, {Colon, Slash}))
HostEnd(text) == Find(Authority(text), {Colon, Slash})
HasPort(text) == HostEnd(text) <= Len(Authority(text)) /\ Authority(text)[HostEnd(text)] = Colon
PortText(text) == LET rest == From(Authority(text), HostEnd(text) + 1) IN Until(rest, Find(rest, {Slash}))
Path(text) == LET path == From(Authority(text), Find(Authority(text), {Slash}))
              IN  IF path = <<>> THEN <<Slash>> ELSE path

\* Whether the constructor returns.
Parses(text) ==
    /\ HasScheme(text) /\ Authority(text) # <<>>
    /\ HasPort(text) => PortText(text) # <<>> /\ PortText(text)[1][1] = "number"

parse(text) ==
    LET scheme == Until(text, Find(text, {Colon}))
        host == Until(Authority(text), HostEnd(text))
    IN  [scheme |-> scheme, host |-> host, path |-> Path(text),
         port |-> IF HasPort(text) THEN Port(PortText(text)[1][2]) ELSE DefaultPort(scheme),
         netloc |-> IF HasPort(text) THEN host \o <<Colon>> \o PortText(text) ELSE host]

-----------------------------------------------------------------------------
(* The request.                                                            *)

\* Request::operator[] finds the field whatever the spelling of its name, and the last assignment to
\* it stays.
AsSpelled(name, spelling) == <<name, spelling>>
Key(name, spelling) == <<name, "lower">>

\* Message(uri), and what the application assigns to fields.
Fields(uri, assigned) ==
    FoldLeft(LAMBDA h, a : [k \in DOMAIN h \cup {Key(a.name, a.spelling)} |->
                               IF k = Key(a.name, a.spelling) THEN a.value ELSE h[k]],
             [k \in {Key("host", "lower")} |-> uri.netloc], assigned)

\* render_request(), render_header() in some order, and render_body(), which has nothing to write.
LineOf(k, h) == [kind |-> "field", name |-> k, text |-> h[k]]
Written(method, uri, h) ==
    <<[kind |-> "request", name |-> method, text |-> uri.path]>>
        \o SetToSeq({LineOf(k, h) : k \in DOMAIN h})
        \o <<[kind |-> "end", name |-> "", text |-> <<>>]>>

-----------------------------------------------------------------------------
(* What the other end takes it for.  A URI is put together of a scheme, a host, a port or none, and *)
(* a path that is empty or begins with a slash.                                                   *)

Token == {Colon, Slash} \cup ({"number"} \X Int) \cup (STRING \X {0})
IsUri(u) == /\ u.scheme \in STRING \ {":"} /\ u.port \in {NoPort} \cup 0 .. MaxPort
            /\ u.host \in Seq(Token) /\ u.host # <<>>
            /\ \A i \in DOMAIN u.host : u.host[i] \notin {Colon, Slash}
            /\ u.path \in Seq(Token) /\ (u.path # <<>> => u.path[1] = Slash)

\* What an application assigns to a field.
Assignment == [name : STRING, spelling : STRING, value : Seq(Token)]

Text(u) ==
    <<<<u.scheme, 0>>, Colon, Slash, Slash>> \o u.host
        \o (IF u.port = NoPort THEN <<>> ELSE <<Colon, <<"number", u.port>>>>) \o u.path

\* The connection it is to go over ...
Target(u) == [port |-> IF u.port # NoPort THEN u.port ELSE IF u.scheme = "https" THEN 443 ELSE 80,
              ssl |-> u.scheme = "https"]

\* ... and whether lines ask for it: its path, each field once, in whatever spelling, with the value
\* it was given last, and its host and port unless the application named another host.
Value(u, assigned, name) ==
    LET last == SelectLastInSeq(assigned, LAMBDA a : a.name = name)
    IN  IF last > 0 THEN assigned[last].value
        ELSE u.host \o (IF u.port = NoPort THEN <<>> ELSE <<Colon, <<"number", u.port>>>>)

AsksFor(lines, method, u, assigned) ==
    LET fields == {i \in DOMAIN lines : lines[i].kind = "field"}
        names == {"host"} \cup {a.name : a \in ToSet(assigned)}
    IN  /\ lines[1].kind = "request" /\ lines[1].name = method
        /\ lines[1].text = IF u.path = <<>> THEN <<Slash>> ELSE u.path
        /\ fields = 2 .. Len(lines) - 1 /\ lines[Len(lines)].kind = "end"
        /\ \A name \in names : \E i \in fields :
              /\ {j \in fields : lines[j].name[1] = name} = {i}
              /\ lines[i].text = Value(u, assigned, name)
=============================================================================
