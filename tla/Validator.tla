----------------------------- MODULE Validator ------------------------------
(***************************************************************************)
(* covent::pkix::PKIXValidator::verify_tls, with the CRLs that it fetches  *)
(* (fetch_crls, CrlCache) and the discovery that tells it which names and  *)
(* TLSA records are good for a domain.                                     *)
(*                                                                         *)
(* Verifications of one TLSContext share its store and run beside each     *)
(* other, discoveries and lookups.  What happens from one co_await to the  *)
(* next is one step.                                                       *)
(***************************************************************************)
EXTENDS Service

(* A zone also says what is to be verified and how:                        *)
(*   does         the tasks the application makes, and verifies: whether   *)
(*                its discoveries are those of verifications;              *)
(*   enabled, fetch, anchors  m_enabled, m_crls, and whether there are     *)
(*                m_trust_blobs;                                           *)
(*   peer         "no tls", "no cert" or "cert";                           *)
(*   chain        for each certificate the URIs of its CRLs;               *)
(*   servers      what a GET of each URI may come to: "crl", "none" or     *)
(*                "exception"; "never", for Client::send() has no timeout; *)
(*                or "refused", where the removal of the session that      *)
(*                failed throws out of the loop (Client!Throws).           *)

VARIABLES verifying,   \* where verify_tls() is
          all_crls,    \* all_crls, without those that were looked at
          store,       \* the CRLs in the store of the context
          judged,      \* what verify_tls() has prepared, and the X509_STORE_CTX it verifies with
          escaped      \* an exception has left the loop

validator == <<verifying, all_crls, store, judged, escaped>>
allVars == <<vars, validator>>

Verdicts == {"verified", "rejected", "threw"}

\* The parameters of a verification, and an X509_STORE_CTX, as X509_STORE_CTX_new() makes it.
NoParams == [names |-> {}, crl_check |-> FALSE]
NewContext == [params |-> NoParams, crls |-> {}, tlsas |-> <<>>]

NotJudged == [given |-> NoParams, context |-> NewContext]

ValidatorInit == /\ ServiceInit
                 /\ verifying = [t \in Discoverers |-> "idle"]
                 /\ all_crls = [t \in Discoverers |-> {}]
                 /\ store = {}
                 /\ judged = [t \in Discoverers |-> NotJudged]
                 /\ escaped = FALSE

Uris == UNION ToSet(zone.chain)

ValidatorTypeOK ==
    /\ TypeOK
    /\ verifying \in [Discoverers -> {"idle", "crls", "unanswered", "discovery"} \cup Verdicts]
    /\ escaped \in BOOLEAN
    /\ \A t \in Discoverers : all_crls[t] # {} => verifying[t] = "crls"
    /\ (UNION {all_crls[t] : t \in Discoverers}) \cup store \subseteq Uris

Goes(t, next) == verifying' = [verifying EXCEPT ![t] = next]

-----------------------------------------------------------------------------
(* verify_tls()                                                            *)

\* Without validation there is nothing to do, and without a certificate nothing that could be done.
NothingToVerify(t) ==
    /\ \/ ~zone.enabled /\ Goes(t, "verified")
       \/ zone.enabled /\ zone.peer # "cert" /\ Goes(t, "rejected")
    /\ UNCHANGED <<vars, all_crls, store, judged, escaped>>

\* What the discovery is started with, once there is nothing left to fetch.
Discovers(t) == /\ Start(t) /\ UNCHANGED lookup
                /\ Goes(t, "discovery") /\ all_crls' = [all_crls EXCEPT ![t] = {}]

verify_tls(t) ==
    /\ Idle /\ verifying[t] = "idle"
    /\ \/ NothingToVerify(t)
       \/ /\ zone.enabled /\ zone.peer = "cert"
          /\ IF zone.fetch /\ Uris # {}
             THEN Goes(t, "crls") /\ all_crls' = [all_crls EXCEPT ![t] = Uris] /\ UNCHANGED vars
             ELSE Discovers(t)
          /\ UNCHANGED <<store, judged, escaped>>

\* fetch_crls(), one turn of its loop.  do_crl() always asks the server, for nothing is ever put into
\* m_crl_cache.  There is no CRL in an answer that is not 2xx or not a CRL, nor when the request fails
\* with a runtime_error; a URI that is none, or whose scheme has no port, leaves verify_tls() with
\* another exception.  A request that is never answered keeps fetch_crls() where it is.
UntilOneIsMissing(t, u, answer) == IF answer = "crl" THEN all_crls[t] \ {u} ELSE {}
Remaining(t, u, answer) == all_crls[t] \ {u}

Fetched(t, u, answer) ==
    /\ store' = IF answer = "crl" THEN store \cup {u} ELSE store
    /\ \/ /\ \/ answer = "exception" /\ Goes(t, "threw")
             \/ answer \in {"never", "refused"} /\ Goes(t, "unanswered")
          /\ all_crls' = [all_crls EXCEPT ![t] = {}]
          /\ UNCHANGED vars
       \/ answer \in {"crl", "none"} /\ Remaining(t, u, answer) = {} /\ Discovers(t)
       \/ /\ answer \in {"crl", "none"} /\ Remaining(t, u, answer) # {}
          /\ all_crls' = [all_crls EXCEPT ![t] = Remaining(t, u, answer)]
          /\ UNCHANGED <<vars, verifying>>
    /\ escaped' = (answer = "refused")
    /\ UNCHANGED judged

CrlArrives(t) == /\ Idle /\ verifying[t] = "crls"
                 /\ \E u \in all_crls[t] : \E answer \in zone.servers[u] : Fetched(t, u, answer)

\* The store that is verified against: with trust anchors of its own a new one, without CRLs.
Revocations == IF zone.anchors THEN {} ELSE store

\* The parameters that are prepared: the name that was asked for and those that were gathered, and
\* X509_V_FLAG_CRL_CHECK_ALL.
vpm(t) == [names |-> {zone.domain} \cup hosts[t], crl_check |-> zone.fetch]

\* X509_STORE_CTX_set0_param(), X509_STORE_CTX_init(), which starts the context anew with the parameters
\* of the store (nothing sets any), and X509_STORE_CTX_set0_dane().
set0_param(st, params) == [st EXCEPT !.params = params]
init(st, crls) == [st EXCEPT !.params = NoParams, !.crls = crls, !.tlsas = <<>>]
set0_dane(st, rrs) == [st EXCEPT !.tlsas = rrs]

\* What X509_verify_cert() gets, after these calls in their order.
Context(t) == set0_dane(init(set0_param(NewContext, vpm(t)), Revocations), tlsas[t])

\* discovery() returns to verify_tls(), which hands what it has to OpenSSL.  What OpenSSL says of the
\* chain, and of a TLSA record that it will not have, is its own affair.
Judge(t) ==
    /\ judged' = [judged EXCEPT ![t] = [given |-> vpm(t), context |-> Context(t)]]
    /\ \E verdict \in {"verified", "rejected"} : Goes(t, verdict)
    /\ UNCHANGED <<all_crls, store, escaped>>

-----------------------------------------------------------------------------
VerifyApplication ==
    \/ \E t \in Discoverers \cap zone.does :
          IF zone.verifies THEN verify_tls(t)
                           ELSE Start(t) /\ UNCHANGED <<lookup, validator>>
    \/ \E t \in Lookups \cap zone.does :
          (Begin(t) \/ Advance(t) \/ Drop(t)) /\ UNCHANGED <<discovery, validator>>

VerifyRun ==
    \/ \E t \in Discoverers :
          /\ Discover(t) /\ UNCHANGED lookup
          /\ IF verifying[t] = "discovery" /\ step'[t] = "done" THEN Judge(t) ELSE UNCHANGED validator
    \/ \E t \in Lookups : Generate(t) /\ UNCHANGED <<discovery, validator>>

VerifyLoop == Loop /\ UNCHANGED validator

Running == \/ Inject /\ UNCHANGED <<discovery, lookup, validator>>
           \/ VerifyApplication \/ VerifyLoop \/ VerifyRun
           \/ \E t \in Discoverers : CrlArrives(t)

\* What an exception that leaves the loop takes with it is not followed.
VerifyNext == ~escaped /\ Running

VerifySpec == ValidatorInit /\ [][VerifyNext]_allVars

Answering(t) == /\ UNCHANGED <<discovery, lookup, validator>>
                /\ \E c \in pending : c[1] = t /\ (Callback(c) \/ ErrorCallback(c) \/ HaltingCallback(c))

\* What runs goes on, libunbound answers every query, and the next request for a CRL comes to something,
\* which may be that it is never answered: nothing is asked of the servers.
VerifyFairSpec ==
    /\ VerifySpec /\ WF_allVars(~escaped /\ VerifyRun)
    /\ \A t \in Discoverers : WF_allVars(~escaped /\ Answering(t)) /\ WF_allVars(~escaped /\ CrlArrives(t))

-----------------------------------------------------------------------------
(* Properties.                                                             *)

\* The CRLs whose servers have them for every request.
Available == {u \in Uris : zone.servers[u] = {"crl"}}

\* The store of the TLS context has them.  It is the store the chain is verified against only without trust
\* anchors of the validator's own.
CrlsAreThere ==
    \A t \in Discoverers : judged[t] # NotJudged /\ zone.fetch =>
        Available \subseteq store /\ (~zone.anchors => Available \subseteq judged[t].context.crls)

\* When a verification comes to OpenSSL it has collected everything.  The store of the TLS context has
\* every CRL of every certificate that its server always has, whatever became of the others and whatever
\* was verified beside it; the parameters that were prepared have the names, and SSL_DANE the TLSA
\* records, that signed answers give, and only these.  It is not all that the chain is judged on: with
\* trust anchors of its own the validator verifies against another store, and the context is initialised
\* after its parameters were set, which loses them.
AllCollected ==
    /\ CrlsAreThere
    /\ \A t \in Discoverers : judged[t] # NotJudged /\ Plain =>
          /\ judged[t].given.names = {zone.domain} \cup SignedHosts
          /\ judged[t].context.tlsas = SignedTlsas

\* A verification ends, with a verdict or with an exception, and so does a discovery, whatever runs
\* beside it: another verification's request that is never answered does not hold it up.  It does not
\* end when a request of its own is never answered, which nothing limits.  An injected alias that answers
\* for itself is excepted, as is what follows undefined behaviour or an exception that left the loop.
VerificationEnds ==
    \A t \in Discoverers :
        step[t] = "svcb" \/ verifying[t] = "crls" ~>
            \/ step[t] = "done" /\ verifying[t] \notin {"crls", "discovery"}
            \/ verifying[t] \in Verdicts \/ t \in failed
            \/ verifying[t] = "unanswered" \/ halted \/ escaped
            \/ <<"svcb", "">> \in DOMAIN injected
=============================================================================
