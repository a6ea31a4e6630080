------------------------------ MODULE Records -------------------------------
(***************************************************************************)
(* rr::SRV::parse, rr::SVCB::parse and rr::TLSA::parse: from the octets of *)
(* a record's data to what the resolver answers.  Wherever the code throws *)
(* a runtime_error (the data ends, a parameter is out of order or is no    *)
(* good) the record is Unparsed.                                           *)
(*                                                                         *)
(* A host name is a pair: a text, and how many dots end it.  What text     *)
(* octets are is given by Text.                                            *)
(***************************************************************************)
EXTENDS Integers, SequencesExt

CONSTANT Text    \* the text that a sequence of octets is

Unparsed == [parsed |-> FALSE]

uint16(w, p) == 256 * w[p] + w[p + 1]

\* read_hostname() at octet p: labels as far as an empty one, with a dot after each; and where it ends.
End == [octets |-> <<>>, next |-> 0]
read_hostname(w, p) ==
    LET from[q \in p .. Len(w) + 1] ==
            IF q > Len(w) \/ q + w[q] > Len(w) THEN End
            ELSE IF w[q] = 0 THEN [octets |-> <<>>, next |-> q + 1]
            ELSE LET rest == from[q + w[q] + 1]
                 IN  IF rest = End THEN End
                     ELSE [rest EXCEPT !.octets = SubSeq(w, q + 1, q + w[q]) \o <<46>> \o @]
    IN  from[p]
Host(octets) == <<IF octets = <<>> THEN "" ELSE Text[Front(octets)], 1>>

SRV(w, service) ==
    LET name == read_hostname(w, 7)
    IN  IF Len(w) < 7 \/ name = End THEN Unparsed
        ELSE [priority |-> uint16(w, 1), weight |-> uint16(w, 3), port |-> uint16(w, 5),
              host |-> Host(name.octets), service |-> service]

-----------------------------------------------------------------------------
(* SVCB.  Its parameters come in order of their keys: a key that does not  *)
(* is noticed when it is read, as is data that ends within a parameter.    *)
(* An octet that is left at the end is not.                                *)

Short == [key |-> -1, value |-> <<>>]
Params(w, p) ==
    LET from[q \in p .. Len(w) + 1] ==
            IF q >= Len(w) THEN <<>>
            ELSE IF q + 3 > Len(w) \/ q + 3 + uint16(w, q + 2) > Len(w) THEN <<Short>>
            ELSE LET last == q + 3 + uint16(w, q + 2)
                 IN  <<[key |-> uint16(w, q), value |-> SubSeq(w, q + 4, last)]>> \o from[last + 1]
    IN  from[p]

\* The strings of an ALPN value, each after its length.
Overrun == <<-1>>
Strings(value) ==
    LET from[q \in 1 .. Len(value) + 1] ==
            IF q > Len(value) THEN {}
            ELSE IF q + value[q] > Len(value) THEN {Overrun}
            ELSE {SubSeq(value, q + 1, q + value[q])} \cup from[q + value[q] + 1]
    IN  from[1]

Alpn == 1
PortKey == 3
WellFormed(params) ==
    /\ \A i \in DOMAIN params : params[i].key > IF i = 1 THEN -1 ELSE params[i - 1].key
    /\ \A i \in DOMAIN params : /\ params[i].key = Alpn => Overrun \notin Strings(params[i].value)
                                /\ params[i].key = PortKey => Len(params[i].value) = 2

SVCB(w) ==
    LET name == read_hostname(w, 3)
        params == Params(w, name.next)
        Values(key) == {params[i].value : i \in {i \in DOMAIN params : params[i].key = key}}
    IN  IF Len(w) < 3 \/ name = End \/ ~WellFormed(params) THEN Unparsed
        ELSE [priority |-> uint16(w, 1), host |-> Host(name.octets),
              port |-> IF Values(PortKey) = {} THEN 0 ELSE uint16(CHOOSE v \in Values(PortKey) : TRUE, 1),
              alpn |-> {Text[s] : s \in UNION {Strings(v) : v \in Values(Alpn)}}]

TLSA(w) ==
    IF Len(w) < 3 THEN Unparsed
    ELSE [certUsage |-> w[1], selector |-> w[2], matchType |-> w[3], matchData |-> SubSeq(w, 4, Len(w))]
=============================================================================
