-------------------------------- MODULE Entries --------------------------------
(***************************************************************************)
(* covent::Service's entries: what an application configures for a name,   *)
(* for all names below one, and for the rest, and how the TLS context for  *)
(* a name is found.  resolver() and validator() go the same way.           *)
(*                                                                         *)
(* A name is the sequence of what stands between its dots: "" is <<"">>.   *)
(***************************************************************************)
EXTENDS Integers, SequencesExt

VARIABLES toConfigure,  \* what the application has yet to configure, in order
          entries,      \* m_entries: the parent, or None, and m_tls_context, a number in contexts or 0
          contexts,     \* all TLSContexts, in the order they are made
          asker,        \* who is in tls_context(), or 0
          asked,        \* the entry whose tls_context() it is in
          settings,     \* history: the entries, had nobody ever asked
          spoiled       \* history: contexts with an identity that came too late, or did not load

asking == <<asker, asked>>
entriesVars == <<toConfigure, entries, contexts, asking, settings, spoiled>>

Star == "*"
Nothing == ""
Label == STRING \cup {Star, Nothing}
Labels == Seq(Label)
None == <<>>
Default == <<Nothing>>

\* What the application configures, a record for each call: a parent is a reference to an entry, which
\* is there before, and an identity is given to a context.  "*." would come between "" and what has
\* no entry; nobody means that.
Naming == Labels \ {None, <<Star, Nothing>>}
Call == [op : {"add"}, name : Naming, parent : Labels]
            \cup [op : {"tls"}, name : Naming, enabled : BOOLEAN, identities : SUBSET STRING]
            \cup [op : {"identity"}, identity : STRING]

IsConfig(tls, config) ==
    /\ config \in Seq(Call)
    /\ \A i \in DOMAIN config :
          LET earlier == {config[k] : k \in 1 .. i - 1}
          IN  /\ config[i].op = "add" =>
                    \/ config[i].parent = None
                    \/ config[i].parent = Default /\ ~tls
                    \/ \E call \in earlier : /\ call.op = "add" \/ (call.op = "tls" /\ call.name = Default)
                                             /\ call.name = config[i].parent
              /\ config[i].op = "identity" => \E call \in earlier : call.op = "tls"

EntriesTypeOK ==
    /\ DOMAIN entries \subseteq Labels
    /\ \A n \in DOMAIN entries : /\ entries[n].parent \in DOMAIN entries \cup {None}
                                 /\ entries[n].tls \in 0 .. Len(contexts)
    /\ \A k \in DOMAIN contexts : /\ contexts[k].applied \subseteq contexts[k].identities
                                  /\ contexts[k].hooked => contexts[k].built
                                  /\ contexts[k].built => contexts[k].enabled
    /\ spoiled \subseteq DOMAIN contexts
    /\ asker \in Nat /\ asker # 0 => asked \in DOMAIN entries

Entry(parent, tls) == [parent |-> parent, tls |-> tls]

\* TLSContext(service, enabled, validation, domain), with identities that are added before it is used:
\* what is applied to its SSL_CTX, and whether that has got the callback for server names.
Context(enabled, identities) ==
    [enabled |-> enabled, identities |-> identities, built |-> FALSE, applied |-> {}, hooked |-> FALSE]

\* A server without TLS begins with an entry that says so.
EntriesInit(tls, config) ==
    /\ toConfigure = config
    /\ entries = IF tls THEN [n \in {} |-> Entry(None, 0)] ELSE [n \in {Default} |-> Entry(None, 1)]
    /\ settings = entries
    /\ contexts = IF tls THEN <<>> ELSE <<Context(FALSE, {})>>
    /\ asker = 0 /\ asked = None /\ spoiled = {}

-----------------------------------------------------------------------------
(* Service::entry() and Service::add().                                    *)

Below(domain) == {<<Star>> \o SubSeq(domain, i, Len(domain)) : i \in DOMAIN domain}

FindNearTheRoot(es, domain) ==
    LET found == Below(domain) \cap DOMAIN es
    IN  CASE domain \in DOMAIN es -> domain
          [] domain \notin DOMAIN es /\ found # {} ->
                CHOOSE n \in found : \A m \in found : Len(n) <= Len(m)
          [] OTHER -> Default
\* The name itself, or the longest "*." under which it falls, or "".
Find(es, domain) ==
    LET found == Below(domain) \cap DOMAIN es
    IN  CASE domain \in DOMAIN es -> domain
          [] domain \notin DOMAIN es /\ found # {} ->
                CHOOSE n \in found : \A m \in found : Len(n) >= Len(m)
          [] OTHER -> Default

Put(es, n, parent) ==
    [m \in DOMAIN es \cup {n} |-> IF m \in DOMAIN es THEN es[m] ELSE Entry(parent, 0)]

\* Only "" is ever missing from what was found, and is added.
With(es, n) == IF n \in DOMAIN es THEN es ELSE Put(es, n, None)

-----------------------------------------------------------------------------
(* The application configures: a record for each call.                     *)

Configures(op) == asker = 0 /\ toConfigure # <<>> /\ Head(toConfigure).op = op
                  /\ toConfigure' = Tail(toConfigure)

\* add(name) and add(name, parent) throw if there is an entry already.
Add ==
    /\ Configures("add")
    /\ LET new == Head(toConfigure)
           more(es) == Put(es, new.name, new.parent)
       IN  IF new.name \in DOMAIN entries
           THEN UNCHANGED <<entries, settings>>
           ELSE entries' = more(entries) /\ settings' = more(settings)
    /\ UNCHANGED <<contexts, asking, spoiled>>

\* entry(name).make_tls_context(), in place of the context there is.
MakeTlsContext ==
    /\ Configures("tls")
    /\ LET new == Head(toConfigure)
           n == Find(entries, new.name)
           made(es) == [With(es, n) EXCEPT ![n].tls = Len(contexts) + 1]
       IN  /\ entries' = made(entries) /\ settings' = made(settings)
           /\ contexts' = Append(contexts, Context(new.enabled, new.identities))
    /\ UNCHANGED <<asking, spoiled>>

\* add_identity() to the context the application made last.
AddIdentity ==
    /\ Configures("identity")
    /\ LET k == Max({settings[n].tls : n \in DOMAIN settings})
       IN  /\ contexts' = [contexts EXCEPT ![k].identities = @ \cup {Head(toConfigure).identity}]
           /\ spoiled' = IF contexts[k].built THEN spoiled \cup {k} ELSE spoiled
    /\ UNCHANGED <<entries, asking, settings>>

Configure == Add \/ MakeTlsContext \/ AddIdentity

-----------------------------------------------------------------------------
(* entry(domain).tls_context(): one step for each call.                    *)

Ask(c, domain) ==
    /\ asker = 0 /\ asker' = c
    /\ asked' = Find(entries, domain)
    /\ entries' = With(entries, asked')
    /\ UNCHANGED <<toConfigure, contexts, settings, spoiled>>

Lacks == asker # 0 /\ entries[asked].tls = 0

AskParent ==
    /\ Lacks /\ entries[asked].parent # None
    /\ asked' = entries[asked].parent
    /\ UNCHANGED <<toConfigure, entries, contexts, asker, settings, spoiled>>

MakeHere ==
    /\ contexts' = Append(contexts, Context(FALSE, {}))
    /\ entries' = [entries EXCEPT ![Default].tls = Len(contexts')]
    /\ UNCHANGED asked

AskAgain ==
    /\ asked' = Find(entries, Default)
    /\ entries' = With(entries, asked')
    /\ UNCHANGED contexts

AskDefaultAnyway ==
    /\ Lacks /\ entries[asked].parent = None
    /\ AskAgain
    /\ UNCHANGED <<toConfigure, asker, settings, spoiled>>
\* An entry without a parent asks ""; if it is "" itself, it gets a context that is not enabled.
AskDefault ==
    /\ Lacks /\ entries[asked].parent = None
    /\ IF asked = Default THEN MakeHere ELSE AskAgain
    /\ UNCHANGED <<toConfigure, asker, settings, spoiled>>

Walk == AskParent \/ AskDefault

-----------------------------------------------------------------------------
(* What the entries mean.                                                  *)

\* The context of an entry, or of its closest ancestor that has one.
Inherited(es) ==
    LET up[n \in DOMAIN es] ==
            IF es[n].tls # 0 \/ es[n].parent \notin DOMAIN es THEN es[n].tls ELSE up[es[n].parent]
    IN  up

Covers(n, domain) ==
    n = domain \/ (Len(n) > 1 /\ Head(n) = Star /\ IsSuffix(Tail(n), domain)) \/ n = Default

\* The entry that covers least.
Closer(n, m, domain) == n = domain \/ (m # domain /\ (m = Default \/ Len(n) >= Len(m)))

\* The context the application meant for a domain; 0 if it meant none.
Meant(domain) ==
    LET covering == {n \in DOMAIN settings : Covers(n, domain)}
        inherited == {Inherited(settings)[n] :
                        n \in {n \in covering : \A m \in covering : Closer(n, m, domain)}} \ {0}
    IN  IF inherited # {} THEN CHOOSE k \in inherited : TRUE
        ELSE IF Default \in DOMAIN settings THEN Inherited(settings)[Default] ELSE 0
=============================================================================
