---------------------------------- MODULE Tls ----------------------------------
(***************************************************************************)
(* The connections a server with TLS accepts: each begins with the context *)
(* of "", and goes over to that of the name the client says it wants.      *)
(***************************************************************************)
EXTENDS Entries

CONSTANTS MaxConnections, \* bound: connections in a behaviour
          Domains,        \* the names clients want
          Unreadable      \* the identities whose files do not load

Connections == 1 .. MaxConnections

ASSUME TlsAssumption == MaxConnections \in Nat /\ Domains \subseteq Labels \ {None}

VARIABLES stage,       \* stage[c]: where connection c is
          using,       \* using[c]: the number of its context
          servername   \* servername[c]: what the client of c wants, or None

connections == <<stage, using, servername>>
tlsVars == <<entriesVars, connections>>

TlsTypeOK ==
    /\ EntriesTypeOK
    /\ stage \in [Connections -> {"none", "accepting", "plain", "hello", "switching", "open", "threw"}]
    /\ servername \in [Connections -> Domains \cup {None}]
    /\ asker # 0 => stage[asker] \in {"accepting", "switching"}
    /\ \A c \in Connections :
          /\ stage[c] \in {"accepting", "switching"} => asker = c
          /\ stage[c] \in {"hello", "switching", "open"} => contexts[using[c]].built

TlsInit(tls, config) ==
    /\ EntriesInit(tls, config)
    /\ stage = [c \in Connections |-> "none"]
    /\ using = [c \in Connections |-> 0]
    /\ servername = [c \in Connections |-> None]

Loads(k) == contexts[k].identities \cap Unreadable = {}

\* context(): built once.  An identity that does not load ends it with an exception: the identities
\* before it, in no particular order, are applied, and the callback is not set.
Build(k) ==
    CASE contexts[k].built \/ ~contexts[k].enabled -> {contexts[k]}
      [] ~contexts[k].built /\ contexts[k].enabled /\ Loads(k) ->
            {[contexts[k] EXCEPT !.built = TRUE, !.applied = contexts[k].identities, !.hooked = TRUE]}
      [] OTHER -> {[contexts[k] EXCEPT !.built = TRUE, !.applied = some] :
                     some \in SUBSET (contexts[k].identities \ Unreadable)}

\* get_buffer_event(): which context has ""?
Accept(c) ==
    /\ stage[c] = "none" /\ \A d \in Connections : d < c => stage[d] # "none"
    /\ Ask(c, Default)
    /\ stage' = [stage EXCEPT ![c] = "accepting"]
    /\ UNCHANGED <<using, servername>>

\* The client says what it wants, and ssl_servername_cb() asks for it, if it is set.
ClientHello(c) ==
    /\ stage[c] = "hello" /\ asker = 0
    /\ servername' \in {[servername EXCEPT ![c] = d] : d \in Domains \cup {None}}
    /\ IF servername'[c] = None \/ ~contexts[using[c]].hooked
       THEN stage' = [stage EXCEPT ![c] = "open"] /\ UNCHANGED entriesVars
       ELSE stage' = [stage EXCEPT ![c] = "switching"] /\ Ask(c, servername'[c])
    /\ UNCHANGED using

\* The context k is found, and is built now if it was not: who asked accepts the connection with it,
\* or switches to it (SSL_set_SSL_CTX() with nullptr, if it is not enabled, changes nothing).
Answer(c) ==
    /\ asker = c /\ ~Lacks
    /\ LET k == entries[asked].tls
           throws == contexts[k].enabled /\ ~contexts[k].built /\ ~Loads(k)
       IN  /\ contexts' \in {[contexts EXCEPT ![k] = built] : built \in Build(k)}
           /\ spoiled' = IF throws THEN spoiled \cup {k} ELSE spoiled
           /\ using' = IF contexts[k].enabled /\ ~throws THEN [using EXCEPT ![c] = k] ELSE using
           /\ stage' = [stage EXCEPT ![c] = CASE throws -> "threw"
                                              [] ~throws /\ @ = "switching" -> "open"
                                              [] OTHER -> IF contexts[k].enabled THEN "hello"
                                                                                 ELSE "plain"]
    /\ asker' = 0 /\ asked' = None
    /\ UNCHANGED <<toConfigure, entries, settings, servername>>

TlsNext == \/ (Configure \/ Walk) /\ UNCHANGED connections
           \/ \E c \in Connections : Accept(c) \/ ClientHello(c) \/ Answer(c)

\* What a connection can carry requests on.
Established(c) == stage[c] \in {"plain", "open"}

-----------------------------------------------------------------------------
(* Properties.                                                             *)

Moves(c, from, to) == stage[c] = from /\ stage'[c] = to
Enabled(k) == k # 0 /\ contexts[k].enabled

\* A connection is served with what the application meant for its name at that time, whoever asked for
\* what before and made entries and contexts on the way, and with all identities, unless one came after
\* the context had been used or did not load.
ServedAsConfigured ==
    [][\A c \in Connections :
         /\ Moves(c, "accepting", "plain") => ~Enabled(Meant(Default))
         /\ Moves(c, "accepting", "hello") => using'[c] = Meant(Default)
         /\ Moves(c, "hello", "open") => servername'[c] = None \/ using[c] \in spoiled
         /\ Moves(c, "switching", "open") =>
                using'[c] = IF Enabled(Meant(servername[c])) THEN Meant(servername[c]) ELSE using[c]
         /\ stage'[c] \in {"hello", "open"} /\ using'[c] \notin spoiled' =>
                contexts'[using'[c]].applied = contexts'[using'[c]].identities]_tlsVars

\* tls_context() returns, if "" has no parent or can inherit a context from it.
AskEnds ==
    [](Default \in DOMAIN entries =>
          entries[Default].parent = None \/ Inherited(entries)[Default] # 0)
        => (asker # 0 ~> asker = 0)
=============================================================================
