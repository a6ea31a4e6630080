--------------------------------- MODULE Https ---------------------------------
(***************************************************************************)
(* A covent::http::Server with its Service: requests come on connections   *)
(* that have been accepted as the entries say.  All of it runs on one      *)
(* loop: while one callback runs there is no other.                        *)
(***************************************************************************)
EXTENDS Server, Tls

ASSUME HttpsAssumption == \A s \in Sites : s.tls \in BOOLEAN /\ IsConfig(s.tls, s.config)

httpsVars == <<vars, tlsVars>>

HttpsTypeOK == TypeOK /\ TlsTypeOK

HttpsInit == Init /\ TlsInit(visitors.tls, visitors.config)

Arrival == asker = 0 /\ Arrives /\ (\E c \in Connections : Established(c)) /\ UNCHANGED tlsVars
Work == asker = 0 /\ Works /\ UNCHANGED tlsVars
Connecting == /\ running = 0 /\ TlsNext /\ UNCHANGED vars
              /\ \A c \in Connections : stage'[c] # "none" => c <= visitors.connections

HttpsNext == Arrival \/ Work \/ Connecting

HttpsSpec == HttpsInit /\ [][HttpsNext]_httpsVars

\* What runs goes on, and what the application suspends it resumes.
HttpsFair ==
    /\ HttpsSpec
    /\ \A r \in Requests : WF_httpsVars(asker = 0 /\ (Goes(r) \/ Resume(r)) /\ UNCHANGED tlsVars)
    /\ WF_httpsVars(UNCHANGED <<vars, connections>> /\ Walk)
    /\ \A c \in Connections : WF_httpsVars(UNCHANGED vars /\ Answer(c))
=============================================================================
