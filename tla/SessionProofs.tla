---------------------------- MODULE SessionProofs ----------------------------
(***************************************************************************)
(* Proofs about Session, for every scenario and any amount of input.       *)
(*                                                                         *)
(* Safe is inductive: what a callback in progress relies on when it goes   *)
(* on, and what a deferred removal means for the bufferevent.  It gives    *)
(* the type invariant and ProcessorKeepsItsInput for whatever the          *)
(* application does.  RemovedOnce needs an application that does not       *)
(* provoke the second close() of the findings: Careful names how.          *)
(***************************************************************************)
EXTENDS Session, TLAPS

\* What read_cb(), write_cb() and processing_complete() find when they go on.
Reading == pc \in {"contiguous", "all"} => top /\ ~Connecting /\ proc = "none"
Emitting == pc = "emit" => proc = "active" /\ waits = "flush"
Completing == pc = "complete" => proc = "done" /\ top /\ ~Connecting /\ view <= length
                                   /\ (used = Threw \/ used <= view)
Suspended == proc = "active" => top /\ ~Connecting /\ view <= length

\* A session that can receive is in its loop; one whose removal is deferred is closed for good.
Usable == top /\ ~Connecting => registered
Closed == removals > 0 => ~top /\ closing
Unconnected == scenario.client /\ connecting = "no" => ~top

Budget == length + octets <= MaxInput

\* TypeOK in two parts, one for each kind of prover.
FlagsOK == top \in BOOLEAN /\ registered \in BOOLEAN /\ closing \in BOOLEAN
             /\ output \in BOOLEAN /\ fault \in BOOLEAN
DataOK == /\ proc \in {"none", "active", "done"} /\ waits \in {"sleep", "flush"}
          /\ view \in 0 .. MaxInput /\ used \in 0 .. Threw /\ declined \in 0 .. MaxInput
          /\ length \in 0 .. MaxInput /\ cuts \subseteq 1 .. length - 1
          /\ removals \in Nat
          /\ connecting \in {"no", "waiting", "handshake", "done"} /\ peer \in {"open", "eof", "error"}
          /\ scenario \in Scenarios /\ octets \in 0 .. MaxInput /\ closes \in 0 .. scenario.closes
          /\ pc \in {"loop", "contiguous", "all", "emit", "complete", "write_cb"}
          /\ ret \in {"loop", "write_cb"}

Safe == FlagsOK /\ DataOK /\ Budget /\ Reading /\ Emitting /\ Completing /\ Suspended /\ Usable /\ Closed
          /\ Unconnected

LEMMA SafeInit == Init => Safe
<1> SUFFICES ASSUME Init PROVE Safe
  OBVIOUS
<1>1. MaxInput \in Nat /\ scenario \in Scenario
  BY SessionAssumption DEF Init
<1>2. scenario.client \in BOOLEAN /\ scenario.added \in BOOLEAN /\ scenario.closes \in Nat
  BY <1>1 DEF Scenario
<1>3. /\ closing = FALSE /\ removals = 0 /\ fault = FALSE
      /\ proc = "none" /\ waits = "sleep" /\ view = 0 /\ used = 0
      /\ length = 0 /\ cuts = {} /\ declined = 0 /\ output = FALSE
      /\ connecting = "no" /\ peer = "open" /\ octets = MaxInput /\ closes = scenario.closes
      /\ pc = "loop" /\ ret = "loop" /\ scenario \in Scenarios
  BY DEF Init
<1>4. FlagsOK
  BY <1>2, <1>3, Zenon DEF Init, FlagsOK
<1>5. DataOK
  BY <1>1, <1>2, <1>3 DEF DataOK, Threw
<1>6. (top /\ ~Connecting => registered) /\ (scenario.client => ~top)
  BY <1>2, Zenon DEF Init
<1>7. QED
  BY <1>1, <1>3, <1>4, <1>5, <1>6
     DEF Safe, Budget, Reading, Emitting, Completing, Suspended, Usable, Closed, Unconnected

\* close() and drain() on their own.
LEMMA CloseIsSafe ==
  ASSUME FlagsOK, removals \in Nat, Closed, NEW active \in BOOLEAN, NEW out \in BOOLEAN,
         close(active, out)
  PROVE  /\ top' \in BOOLEAN /\ UNCHANGED <<registered, fault>>
         /\ closing' = TRUE /\ removals' \in Nat
         /\ top' => top
         /\ active => UNCHANGED <<top, removals>>
         /\ removals' > 0 => ~top'
<1>1. closing' = TRUE /\ UNCHANGED <<registered, fault>>
  BY DEF close
<1>2. CASE Postponed(active, out)
  <2>1. UNCHANGED <<top, removals>>
    BY <1>2 DEF close
  <2>2. QED
    BY <1>1, <2>1 DEF FlagsOK, Closed
<1>3. CASE ~Postponed(active, out)
  <2>1. top' = FALSE /\ removals' = removals + 1 /\ ~active
    BY <1>3 DEF close, Postponed
  <2>2. removals' \in Nat
    BY <2>1
  <2>3. QED
    BY <1>1, <2>1, <2>2, Zenon
<1>4. QED
  BY <1>2, <1>3

LEMMA Shrinks ==
  ASSUME NEW a \in Int, NEW b \in Int, NEW c \in 0 .. a, NEW m \in Int, a + b <= m
  PROVE  c + b <= m
  OBVIOUS

LEMMA DrainIsSafe ==
  ASSUME DataOK, NEW n \in 0 .. length, drain(n)
  PROVE  length' = length - n /\ length' \in 0 .. MaxInput /\ cuts' \subseteq 1 .. length' - 1
<1>1. length' = length - n /\ length' \in 0 .. MaxInput
  BY SessionAssumption DEF DataOK, drain
<1>2. ASSUME NEW c \in cuts' PROVE c \in 1 .. length' - 1
  <2>1. PICK d \in CutsAfter(n) : c = d - n
    BY DEF drain
  <2>2. d \in 1 .. length - 1 /\ d > n /\ n \in Int /\ length \in Int
    BY DEF CutsAfter, DataOK
  <2>3. QED
    BY <1>1, <2>1, <2>2
<1>3. QED
  BY <1>1, <1>2

\* What a stretch of process() does to the output and to the flags.
LEMMA BodyIsSafe ==
  ASSUME FlagsOK, DataOK, NEW b \in scenario.start \cup scenario.resume,
         output' = (output \/ Writes(b))
  PROVE  /\ output' \in BOOLEAN
         /\ Marks(b) => /\ closing' \in BOOLEAN /\ (closing => closing')
                       /\ UNCHANGED <<top, registered, removals, fault>>
<1>1. b \in Bodies
  BY SessionAssumption DEF DataOK, Scenario
<1>2. b.writes \in BOOLEAN /\ b.closes \in BOOLEAN
  BY <1>1 DEF Bodies
<1>3. output' \in BOOLEAN
  BY <1>2, Zenon DEF FlagsOK, Writes
<1>4. Marks(b) => closing' \in BOOLEAN /\ (closing => closing')
  BY <1>2, Zenon DEF FlagsOK, Marks
<1>5. QED
  BY <1>3, <1>4 DEF Marks

LEMMA SafeReceive == ASSUME Safe, NEW n \in 1 .. MaxInput, Receive(n) PROVE Safe'
<1>1. FlagsOK'
  BY DEF Safe, FlagsOK, Receive, flags
<1>2. octets' \in 0 .. MaxInput /\ length' \in 0 .. MaxInput /\ Budget'
  BY SessionAssumption DEF Safe, DataOK, Budget, Receive
<1>3. ASSUME NEW c \in cuts' PROVE c \in 1 .. length' - 1
  <2>1. length \in Nat /\ length' = length + n /\ cuts \subseteq 1 .. length - 1
    BY DEF Safe, DataOK, Receive
  <2>2. c \in cuts \/ (c = length /\ length # 0)
    BY DEF Receive
  <2>3. n >= 1 /\ n \in Int
    BY SessionAssumption
  <2>4. c \in 1 .. length
    <3>1. CASE c \in cuts
      BY <3>1, <2>1
    <3>2. CASE c = length /\ length # 0
      BY <3>2, <2>1
    <3>3. QED
      BY <3>1, <3>2, <2>2
  <2>5. QED
    BY <2>1, <2>3, <2>4
<1>4. DataOK'
  BY <1>2, <1>3 DEF Safe, DataOK, Receive, flags, Threw
<1>5. QED
  BY <1>1, <1>2, <1>4 DEF Safe, DataOK, Reading, Emitting, Completing, Suspended, Usable, Closed,
     Unconnected, Connecting, Receive, flags

LEMMA SafeOffer ==
  ASSUME Safe, pc \in {"contiguous", "all"}, NEW n \in 1 .. length, NEW where \in {"loop", "all"},
         Offer(n, where)
  PROVE  Safe'
<1>1. top /\ ~Connecting /\ proc = "none" /\ registered /\ removals = 0
  BY DEF Safe, DataOK, Reading, Usable, Closed
<1>p. PICK b \in scenario.start : Offer(n, where)!(b)
  BY DEF Offer
<1>2. UNCHANGED <<wire, ret>> /\ output' = (output \/ Writes(b))
  BY <1>p
<1>b. /\ output' \in BOOLEAN
      /\ Marks(b) => /\ closing' \in BOOLEAN /\ (closing => closing')
                    /\ UNCHANGED <<top, registered, removals, fault>>
  BY <1>2, BodyIsSafe DEF Safe
<1>3. CASE Suspends(b)
  <2>1. Marks(b) /\ proc' = "active" /\ waits' = b.ends /\ view' = n /\ pc' = "loop"
        /\ UNCHANGED <<used, input>>
    BY <1>p, <1>3 DEF Suspends
  <2>2. waits' \in {"sleep", "flush"}
    BY <1>3, <2>1 DEF Suspends
  <2>3. FlagsOK'
    BY <1>b, <2>1 DEF Safe, FlagsOK
  <2>m. removals' = removals /\ top' = top /\ registered' = registered
    BY <1>b, <2>1
  <2>4. DataOK'
    <3>1. view' \in 0 .. MaxInput
      BY <2>1, SessionAssumption DEF Safe, DataOK
    <3>2. QED
      BY <1>2, <2>1, <2>2, <2>m, <3>1 DEF Safe, DataOK, wire, input, Threw
  <2>5. QED
    BY <1>1, <1>2, <1>b, <2>1, <2>3, <2>4 DEF Safe, DataOK, wire, input, Budget, Reading,
       Emitting, Completing, Suspended, Usable, Closed, Unconnected, Connecting
<1>4. CASE b.ends = "return"
  <2>1. Marks(b) /\ UNCHANGED coro
    BY <1>p, <1>4 DEF Suspends
  <2>2. /\ length' \in 0 .. length /\ length' \in 0 .. MaxInput /\ cuts' \subseteq 1 .. length' - 1
        /\ declined' \in 0 .. MaxInput /\ pc' \in {"loop", "all", "contiguous"}
    <3>1. CASE declined' = n /\ pc' = where /\ UNCHANGED <<length, cuts>>
      BY <3>1, SessionAssumption DEF Safe, DataOK
    <3>2. CASE \E u \in 1 .. n : drain(u) /\ UNCHANGED <<pc, declined>>
      <4>1. PICK u \in 1 .. n : drain(u) /\ UNCHANGED <<pc, declined>>
        BY <3>2
      <4>2. u \in 0 .. length
        BY DEF Safe, DataOK
      <4>3. QED
        BY <4>1, <4>2, DrainIsSafe DEF Safe, DataOK
    <3>3. QED
      BY <1>p, <1>4, <3>1, <3>2 DEF Suspends
  <2>3. FlagsOK'
    BY <1>b, <2>1 DEF Safe, FlagsOK
  <2>4. DataOK'
    BY <1>2, <1>b, <2>1, <2>2 DEF Safe, DataOK, wire, coro, Threw
  <2>m. removals' = removals /\ top' = top /\ registered' = registered
    BY <1>b, <2>1
  <2>5. Budget'
    <3>1. length \in Int /\ octets \in Int /\ MaxInput \in Int /\ length + octets <= MaxInput
      BY SessionAssumption DEF Safe, DataOK, Budget
    <3>2. length' + octets <= MaxInput
      BY <2>2, <3>1, Shrinks
    <3>3. QED
      BY <1>2, <3>2 DEF Budget, wire
  <2>6. (Reading /\ Emitting /\ Completing /\ Suspended)'
    BY <1>1, <1>2, <2>m, <2>1, <2>2 DEF wire, coro, Reading, Emitting, Completing, Suspended, Connecting
  <2>7. (Usable /\ Closed /\ Unconnected)'
    BY <1>1, <1>2, <2>m DEF Usable, Closed, Safe, Unconnected, wire
  <2>8. QED
    BY <2>3, <2>4, <2>5, <2>6, <2>7 DEF Safe
<1>5. CASE b.ends = "throw"
  <2>1. close(FALSE, output') /\ pc' = "loop" /\ UNCHANGED <<coro, input>>
    BY <1>p, <1>5 DEF Suspends
  <2>2. /\ top' \in BOOLEAN /\ UNCHANGED <<registered, fault>>
        /\ closing' = TRUE /\ removals' \in Nat /\ (removals' > 0 => ~top')
    BY <1>b, <2>1, CloseIsSafe DEF Safe, DataOK
  <2>3. FlagsOK'
    BY <1>b, <2>2, Zenon DEF Safe, FlagsOK
  <2>4. DataOK'
    BY <1>2, <2>1, <2>2 DEF Safe, DataOK, wire, coro, input, Threw
  <2>5. QED
    BY <1>1, <1>2, <2>1, <2>2, <2>3, <2>4 DEF Safe, DataOK, wire, coro, input, Budget, Reading,
       Emitting, Completing, Suspended, Usable, Closed, Unconnected, Connecting
<1>6. QED
  BY <1>p, <1>3, <1>4, <1>5 DEF Suspends

LEMMA SafeResume ==
  ASSUME Safe, proc = "active", ret' \in {"loop", "write_cb"}, NEW b \in scenario.resume, Resume(b)
  PROVE  Safe'
<1>1. top /\ ~Connecting /\ registered /\ removals = 0 /\ view <= length
  BY DEF Safe, DataOK, Suspended, Usable, Closed
<1>2. UNCHANGED <<input, wire>> /\ output' = (output \/ Writes(b)) /\ Marks(b)
  BY DEF Resume
<1>3. /\ output' \in BOOLEAN /\ closing' \in BOOLEAN /\ (closing => closing')
      /\ UNCHANGED <<top, registered, removals, fault>>
  BY <1>2, BodyIsSafe DEF Safe
<1>4. FlagsOK'
  BY <1>3 DEF Safe, FlagsOK
<1>5. CASE Suspends(b)
  <2>1. waits' \in {"sleep", "flush"} /\ pc' = ret' /\ UNCHANGED <<proc, view, used>>
    BY <1>5 DEF Resume, Suspends
  <2>2. DataOK'
    BY <1>2, <1>3, <2>1 DEF Safe, DataOK, input, wire, Threw
  <2>3. QED
    BY <1>1, <1>2, <1>3, <1>4, <2>1, <2>2 DEF Safe, DataOK, wire, input, Budget, Reading,
       Emitting, Completing, Suspended, Usable, Closed, Unconnected, Connecting
<1>6. CASE ~Suspends(b)
  <2>1. proc' = "done" /\ pc' = "complete" /\ UNCHANGED <<waits, view>>
        /\ (used' = Threw \/ used' \in 0 .. view)
    BY <1>6 DEF Resume
  <2>2. used' \in 0 .. Threw /\ (used' = Threw \/ used' <= view)
    BY <2>1, SessionAssumption DEF Safe, DataOK, Threw
  <2>3. DataOK'
    BY <1>2, <1>3, <2>1, <2>2 DEF Safe, DataOK, input, wire, Threw
  <2>4. (Reading /\ Emitting /\ Completing /\ Suspended)'
    BY <1>1, <1>2, <1>3, <2>1, <2>2 DEF wire, input, Reading, Emitting, Completing, Suspended, Connecting,
       Threw
  <2>5. (Budget /\ Usable /\ Closed /\ Unconnected)'
    BY <1>1, <1>2, <1>3 DEF Safe, wire, input, Budget, Usable, Closed, Unconnected, Connecting
  <2>6. QED
    BY <1>4, <2>3, <2>4, <2>5 DEF Safe
<1>7. QED
  BY <1>5, <1>6

\* close() in a callback that is otherwise done with the session.
LEMMA SafeClose ==
  ASSUME Safe, pc \in {"loop", "write_cb"}, pc' = "loop", close(proc = "active", output),
         UNCHANGED <<coro, input, output, connecting, scenario, octets, ret>>,
         peer' \in {"open", "eof", "error"}, closes' \in 0 .. scenario.closes
  PROVE  Safe'
<1>1. (proc = "active") \in BOOLEAN /\ output \in BOOLEAN
  BY DEF Safe, FlagsOK
<1>2. /\ top' \in BOOLEAN /\ UNCHANGED <<registered, fault>>
      /\ closing' = TRUE /\ removals' \in Nat
      /\ top' => top
      /\ proc = "active" => UNCHANGED <<top, removals>>
      /\ removals' > 0 => ~top'
  BY <1>1, CloseIsSafe DEF Safe, DataOK
<1>3. FlagsOK'
  BY <1>1, <1>2, Zenon DEF Safe, FlagsOK
<1>4. DataOK'
  BY <1>2 DEF Safe, DataOK, coro, input, Threw
<1>5. QED
  BY <1>2, <1>3, <1>4 DEF Safe, DataOK, coro, input, Budget, Reading, Emitting, Completing,
     Suspended, Usable, Closed, Unconnected, Connecting

LEMMA SafeComplete == ASSUME Safe, processing_complete PROVE Safe'
<1>1. pc = "complete" /\ pc' \in {"loop", "write_cb"} /\ proc = "done" /\ top /\ ~Connecting
      /\ registered /\ removals = 0 /\ UNCHANGED <<coro, output, wire, ret>>
  BY DEF Safe, DataOK, Completing, Usable, Closed, processing_complete
<1>2. ASSUME close(FALSE, output)
      PROVE  /\ top' \in BOOLEAN /\ UNCHANGED <<registered, fault>>
             /\ closing' = TRUE /\ removals' \in Nat /\ (removals' > 0 => ~top')
  BY <1>2, CloseIsSafe DEF Safe, DataOK, FlagsOK
<1>3. CASE used = Threw
  <2>1. close(FALSE, output) /\ UNCHANGED input
    BY <1>3 DEF processing_complete
  <2>2. FlagsOK'
    BY <1>1, <1>2, <2>1, Zenon DEF Safe, FlagsOK
  <2>3. DataOK'
    BY <1>1, <1>2, <2>1 DEF Safe, DataOK, coro, input, wire, Threw
  <2>4. QED
    BY <1>1, <1>2, <2>1, <2>2, <2>3 DEF Safe, DataOK, coro, input, wire, Budget, Reading, Emitting,
       Completing, Suspended, Usable, Closed, Unconnected, Connecting
<1>4. CASE used # Threw
  <2>1. used \in 0 .. length
    BY <1>1, <1>4 DEF Safe, DataOK, Completing
  <2>2. drain(used) /\ declined' \in 0 .. MaxInput
    BY <1>4 DEF processing_complete, Safe, DataOK
  <2>3. length' \in 0 .. MaxInput /\ cuts' \subseteq 1 .. length' - 1 /\ length' = length - used
    BY <2>1, <2>2, DrainIsSafe DEF Safe
  <2>4. \/ close(FALSE, output)
        \/ UNCHANGED <<top, flags>>
    BY <1>4 DEF processing_complete
  <2>5. /\ top' \in BOOLEAN /\ closing' \in BOOLEAN /\ UNCHANGED <<registered, fault>>
        /\ removals' \in Nat /\ (removals' > 0 => ~top' /\ closing')
    <3>1. CASE close(FALSE, output)
      BY <3>1, <1>2
    <3>2. CASE UNCHANGED <<top, flags>>
      <4>1. removals' = removals /\ removals = 0
        BY <3>2, <1>1 DEF flags
      <4>2. top' \in BOOLEAN /\ closing' \in BOOLEAN /\ UNCHANGED <<registered, fault>>
        BY <3>2, Zenon DEF Safe, FlagsOK, flags
      <4>3. QED
        BY <4>1, <4>2
    <3>3. QED
      BY <2>4, <3>1, <3>2
  <2>6. FlagsOK'
    BY <1>1, <2>5, Zenon DEF Safe, FlagsOK
  <2>7. DataOK'
    BY <1>1, <2>2, <2>3, <2>5 DEF Safe, DataOK, coro, wire, Threw
  <2>8. Budget'
    BY <1>1, <2>1, <2>3, SessionAssumption DEF Safe, DataOK, Budget, wire
  <2>9. QED
    BY <1>1, <2>5, <2>6, <2>7, <2>8 DEF Safe, coro, wire, Reading, Emitting, Completing, Suspended,
       Usable, Closed, Unconnected, Connecting
<1>5. QED
  BY <1>3, <1>4

LEMMA SafeStep == ASSUME Safe, [Next]_vars PROVE Safe'
<1>1. ASSUME NEW n \in 1 .. MaxInput, Receive(n) PROVE Safe'
  BY <1>1, SafeReceive
<1>2. CASE ReadContiguous
  <2>1. PICK piece \in cuts \cup {length} : Offer(piece, ThenAll(piece))
    BY <1>2 DEF ReadContiguous
  <2>2. piece \in 1 .. length /\ ThenAll(piece) \in {"loop", "all"}
    BY <1>2 DEF Safe, DataOK, ReadContiguous, ThenAll
  <2>3. QED
    BY <1>2, <2>1, <2>2, SafeOffer DEF ReadContiguous
<1>3. CASE ReadAll
  <2>1. length \in 1 .. length
    BY <1>3 DEF Safe, DataOK, ReadAll
  <2>2. QED
    BY <1>3, <2>1, SafeOffer DEF ReadAll
<1>4. CASE ReadNothing
  BY <1>4 DEF ReadNothing, Safe, FlagsOK, DataOK, flags, coro, input, wire, Budget, Reading, Emitting,
     Completing, Suspended, Usable, Closed, Unconnected, Connecting, Threw
<1>5. CASE WrittenResumes
  BY <1>5, SafeResume DEF WrittenResumes, Safe, Emitting
<1>6. CASE write_cb
  <2>1. CASE closing
    BY <1>6, <2>1, SafeClose DEF write_cb, Safe, DataOK, wire
  <2>2. CASE ~closing
    BY <1>6, <2>2 DEF write_cb, Safe, FlagsOK, DataOK, flags, coro, input, wire, Budget, Reading,
       Emitting, Completing, Suspended, Usable, Closed, Unconnected, Connecting, Threw
  <2>3. QED
    BY <2>1, <2>2
<1>7. CASE processing_complete
  BY <1>7, SafeComplete
<1>8. CASE TimerResumes
  BY <1>8, SafeResume DEF TimerResumes
<1>9. CASE Written
  <2>1. /\ UNCHANGED <<top, flags, coro, input, wire, ret>> /\ output' = FALSE /\ pc' \in {"emit", "write_cb"}
        /\ pc' = "emit" => proc = "active" /\ waits = "flush"
    BY <1>9 DEF Written, input
  <2>2. FlagsOK'
    BY <2>1 DEF Safe, FlagsOK, flags
  <2>3. DataOK'
    BY <2>1 DEF Safe, DataOK, flags, coro, input, wire, Threw
  <2>4. Reading' /\ Emitting' /\ Completing'
    BY <2>1 DEF Reading, Emitting, Completing, coro
  <2>5. Budget' /\ Suspended'
    BY <2>1 DEF Safe, Budget, Suspended, Connecting, coro, input, wire
  <2>6. Usable' /\ Closed' /\ Unconnected'
    BY <2>1 DEF Safe, Usable, Closed, Unconnected, Connecting, flags, wire
  <2>7. QED
    BY <2>2, <2>3, <2>4, <2>5, <2>6 DEF Safe
<1>10. CASE connect
  <2>1. /\ top' = TRUE /\ connecting' = "waiting" /\ connecting = "no" /\ pc = "loop" /\ scenario.client /\ ~closing
        /\ UNCHANGED <<flags, coro, input, output, peer, scenario, octets, closes, pc, ret>>
    BY <1>10 DEF connect
  <2>2. ~top /\ proc # "active" /\ ~(removals > 0)
    BY <2>1 DEF Safe, Unconnected, Suspended, Closed
  <2>3. FlagsOK'
    BY <2>1 DEF Safe, FlagsOK, flags
  <2>4. DataOK'
    BY <2>1 DEF Safe, DataOK, flags, coro, input, Threw
  <2>5. Reading' /\ Emitting' /\ Completing'
    BY <2>1 DEF Reading, Emitting, Completing
  <2>6. Budget' /\ Suspended'
    BY <2>1, <2>2 DEF Safe, Budget, Suspended, coro, input
  <2>7. Usable' /\ Closed' /\ Unconnected'
    BY <2>1, <2>2 DEF Usable, Closed, Unconnected, Connecting, flags
  <2>8. QED
    BY <2>3, <2>4, <2>5, <2>6, <2>7 DEF Safe
<1>11. CASE Connected
  <2>1. /\ UNCHANGED <<top, closing, removals, fault, coro, input, output, peer, scenario, octets, closes, pc, ret>>
        /\ pc = "loop" /\ Connecting
    BY <1>11 DEF Connected
  <2>2. \/ connecting' = "handshake" /\ registered' = registered
        \/ connecting' = "done" /\ registered' = TRUE
    BY <1>11 DEF Connected
  <2>3. FlagsOK'
    BY <2>1, <2>2 DEF Safe, FlagsOK
  <2>4. DataOK'
    BY <2>1, <2>2 DEF Safe, DataOK, coro, input, Threw
  <2>5. Reading' /\ Emitting' /\ Completing'
    BY <2>1 DEF Reading, Emitting, Completing
  <2>6. Budget' /\ Suspended'
    BY <2>1 DEF Safe, Budget, Suspended, coro, input
  <2>7. Usable' /\ Closed' /\ Unconnected'
    BY <2>1, <2>2 DEF Safe, Usable, Closed, Unconnected, Connecting
  <2>8. QED
    BY <2>3, <2>4, <2>5, <2>6, <2>7 DEF Safe
<1>12. ASSUME NEW how \in {"eof", "error"}, Disconnected(how) PROVE Safe'
  BY <1>12, SafeClose DEF Disconnected, Safe, DataOK
<1>13. CASE AppClose
  <2>1. closes' \in 0 .. scenario.closes
    <3>1. scenario.closes \in Nat
      BY SessionAssumption DEF Safe, DataOK, Scenario
    <3>2. QED
      BY <1>13, <3>1 DEF AppClose, Safe, DataOK
  <2>2. QED
    BY <1>13, <2>1, SafeClose DEF AppClose, Safe, DataOK
<1>14. CASE eject
  <2>1. closes' \in 0 .. scenario.closes
    <3>1. scenario.closes \in Nat
      BY SessionAssumption DEF Safe, DataOK, Scenario
    <3>2. QED
      BY <1>14, <3>1 DEF eject, Safe, DataOK
  <2>2. /\ top' = FALSE /\ registered' = FALSE /\ proc' = "none" /\ pc = "loop" /\ pc' = "loop"
        /\ UNCHANGED <<closing, removals, fault, waits, view, used, input, output, connecting, peer,
                       scenario, octets, ret>>
    BY <1>14 DEF eject
  <2>3. FlagsOK'
    BY <2>2 DEF Safe, FlagsOK
  <2>4. DataOK'
    BY <2>1, <2>2 DEF Safe, DataOK, input, Threw
  <2>5. Reading' /\ Emitting' /\ Completing'
    BY <2>2 DEF Reading, Emitting, Completing
  <2>6. Budget' /\ Suspended'
    BY <2>2 DEF Safe, Budget, Suspended, input
  <2>7. Usable' /\ Closed' /\ Unconnected'
    BY <2>2 DEF Safe, Usable, Closed, Unconnected
  <2>8. QED
    BY <2>3, <2>4, <2>5, <2>6, <2>7 DEF Safe
<1>15. CASE Remove
  <2>1. removals' \in Nat /\ fault' \in BOOLEAN /\ ~top
    BY <1>15 DEF Remove, Safe, FlagsOK, DataOK, Closed
  <2>2. QED
    BY <1>15, <2>1 DEF Remove, Safe, FlagsOK, DataOK, coro, input, wire, Budget, Reading, Emitting,
       Completing, Suspended, Usable, Closed, Unconnected, Connecting, Threw
<1>16. CASE UNCHANGED vars
  BY <1>16 DEF vars, Safe, FlagsOK, DataOK, flags, coro, input, wire, Budget, Reading, Emitting,
     Completing, Suspended, Usable, Closed, Unconnected, Connecting, Threw
<1>17. QED
  BY <1>1, <1>2, <1>3, <1>4, <1>5, <1>6, <1>7, <1>8, <1>9, <1>10, <1>11, <1>12, <1>13, <1>14, <1>15,
     <1>16 DEF Next, Callback

THEOREM SafeHolds == Spec => []Safe
  BY SafeInit, SafeStep, PTL DEF Spec

\* Session.tla's type invariant, in every scenario.
THEOREM TypeOKHolds == Spec => []TypeOK
<1>1. Safe => TypeOK
  BY DEF Safe, FlagsOK, DataOK, TypeOK
<1>2. QED
  BY <1>1, SafeHolds, PTL

\* Whatever is received, written, closed or ejected while process() is suspended, and whatever it does
\* itself: it keeps its session, its bufferevent and every octet of its string_view.
THEOREM ProcessorKeepsItsInputHolds == Spec => []ProcessorKeepsItsInput
<1>1. Safe => ProcessorKeepsItsInput
  BY DEF Safe, Suspended, Usable, ProcessorKeepsItsInput
<1>2. QED
  BY <1>1, SafeHolds, PTL

-----------------------------------------------------------------------------
(* NothingLeftUnoffered.                                                   *)

\* It is not inductive: write_cb() runs between two callbacks too, and a session that connects starts
\* to read with nothing in its buffer.
Offered == /\ pc \in {"loop", "write_cb"} /\ proc = "none" /\ top /\ ~closing /\ length > 0 => declined = length
           /\ scenario.client /\ connecting = "no" => length = 0

Unoffered == Safe /\ Offered

LEMMA OfferedByRead ==
  ASSUME Unoffered, pc \in {"contiguous", "all"}, NEW n \in 1 .. length, NEW where \in {"loop", "all"},
         where = "loop" => n = length, Offer(n, where)
  PROVE  Offered'
<1>1. top /\ ~Connecting /\ proc = "none" /\ ~(scenario.client /\ connecting = "no")
  BY DEF Unoffered, Safe, Reading, Unconnected
<1>2. PICK b \in scenario.start : Offer(n, where)!(b)
  BY DEF Offer
<1>3. UNCHANGED wire
  BY <1>2
<1>4. \/ proc' = "active"
      \/ proc' = proc /\ declined' = n /\ pc' = where /\ length' = length
      \/ pc' = pc
      \/ closing'
  <2>1. \/ Suspends(b) /\ proc' = "active"
        \/ declined' = n /\ pc' = where /\ UNCHANGED <<length, cuts>> /\ UNCHANGED coro
        \/ UNCHANGED <<pc, declined>>
        \/ close(FALSE, output')
    BY <1>2
  <2>2. close(FALSE, output') => closing'
    BY DEF close
  <2>3. UNCHANGED coro => proc' = proc
    BY DEF coro
  <2> QED
    BY <2>1, <2>2, <2>3
<1>5. QED
  BY <1>1, <1>3, <1>4 DEF wire, Offered

LEMMA UnofferedStep == ASSUME Unoffered, [Next]_vars PROVE Unoffered'
<1>s. Safe'
  BY SafeStep DEF Unoffered
<1> SUFFICES Offered'
  BY <1>s DEF Unoffered
<1>1. ASSUME NEW n \in 1 .. MaxInput, Receive(n) PROVE Offered'
  BY <1>1 DEF Receive, Unoffered, Safe, Unconnected, Offered
<1>2. CASE ReadContiguous
  <2>1. PICK piece \in 1 .. length : Offer(piece, ThenAll(piece))
    BY <1>2 DEF ReadContiguous, Unoffered, Safe, DataOK
  <2>2. ThenAll(piece) \in {"loop", "all"} /\ (ThenAll(piece) = "loop" => piece = length)
    BY DEF ThenAll
  <2>3. QED
    BY <1>2, <2>1, <2>2, OfferedByRead DEF ReadContiguous
<1>3. CASE ReadAll
  BY <1>3, OfferedByRead DEF ReadAll, Unoffered, Safe, DataOK
<1>4. CASE ReadNothing
  BY <1>4 DEF ReadNothing, input, wire, Offered
<1>5. ASSUME NEW b \in scenario.resume, Resume(b), proc = "active" PROVE Offered'
  BY <1>5 DEF Resume, input, wire, Unoffered, Offered
<1>6. CASE TimerResumes \/ WrittenResumes
  BY <1>5, <1>6 DEF TimerResumes, WrittenResumes, Unoffered, Safe, Emitting
<1>7. CASE processing_complete
  BY <1>7 DEF processing_complete, coro, wire, Unoffered, Safe, Completing, Unconnected, Offered
<1>8. CASE Written
  BY <1>8 DEF Written, flags, coro, input, wire, Unoffered, Offered
<1>9. CASE write_cb
  BY <1>9 DEF write_cb, close, flags, coro, input, wire, Unoffered, Offered
<1>10. CASE connect \/ Connected
  BY <1>10 DEF connect, Connected, Connecting, flags, coro, input, Unoffered, Offered
<1>11. ASSUME NEW how \in {"eof", "error"}, Disconnected(how) PROVE Offered'
  BY <1>11 DEF Disconnected, close, input, Unoffered, Offered
<1>12. CASE AppClose \/ eject
  BY <1>12 DEF AppClose, eject, close, input, Unoffered, Offered
<1>13. CASE Remove
  BY <1>13 DEF Remove, coro, input, wire, Unoffered, Offered
<1>14. CASE UNCHANGED vars
  BY <1>14 DEF vars, flags, coro, input, wire, Unoffered, Offered
<1>15. QED
  BY <1>1, <1>2, <1>3, <1>4, <1>6, <1>7, <1>8, <1>9, <1>10, <1>11, <1>12, <1>13, <1>14 DEF Next, Callback

\* However the input is cut into pieces and whatever process() makes of each: between two callbacks a
\* process() that never suspended has been offered all of the buffer at once, and declined it.
THEOREM NothingLeftUnofferedHolds == Spec => []NothingLeftUnoffered
<1>1. Init => Unoffered
  BY SafeInit DEF Init, Unoffered, Offered
<1>2. Unoffered /\ [Next]_vars => Unoffered'
  BY UnofferedStep
<1>3. Unoffered => NothingLeftUnoffered
  BY DEF Unoffered, Offered, NothingLeftUnoffered
<1>4. QED
  BY <1>1, <1>2, <1>3, PTL DEF Spec

-----------------------------------------------------------------------------
(* RemovedOnce.                                                            *)

Flushing(s) == \E b \in s.start \cup s.resume : b.ends = "flush"

\* What an application may do without provoking a second close(): a process() that waits in flush()
\* writes again before it ends; a session that connects is added first, if connecting may fail; and
\* close() from outside process() is the only thing that closes, and comes once.
WritesBeforeItEnds(s) == Flushing(s) => \A b \in s.resume : Suspends(b) \/ Writes(b)
AddedBeforeItFails(s) == s.added \/ ~s.client \/ "error" \notin s.events
ClosedByOne(s) == \/ s.closes = 0
                  \/ /\ s.closes = 1 /\ s.events = {}
                     /\ \A b \in s.start \cup s.resume : ~b.closes /\ b.ends # "throw"
Careful(s) == WritesBeforeItEnds(s) /\ AddedBeforeItFails(s) /\ ClosedByOne(s)

\* write_cb() goes on with its bufferevent, since a processor that ended in it wrote.
Rewritten == /\ waits = "flush" => Flushing(scenario)
             /\ pc = "complete" /\ ret = "write_cb" => output
             /\ pc = "write_cb" => top /\ ~Connecting
InLoop == scenario.added \/ ~scenario.client =>
              (top \/ (scenario.client /\ connecting = "no" /\ ~closing) => registered)
ClosedOnce == scenario.closes # 0 => /\ closing => closes = 0
                                     /\ pc = "complete" => used # Threw

Once == Safe /\ RemovedOnce /\ Rewritten /\ InLoop /\ ClosedOnce

LEMMA OnceInit == Init => Once
<1> SUFFICES ASSUME Init PROVE Once
  OBVIOUS
<1>1. Safe
  BY SafeInit
<1>2. RemovedOnce /\ Rewritten /\ ClosedOnce
  BY DEF Init, RemovedOnce, Rewritten, Connecting, ClosedOnce
<1>3. InLoop
  BY Zenon DEF Init, InLoop
<1>4. QED
  BY <1>1, <1>2, <1>3 DEF Once

\* A close() that finds a bufferevent and its session in the loop.
LEMMA OnceClose ==
  ASSUME Once, registered, removals = 0, NEW active \in BOOLEAN, NEW out \in BOOLEAN, close(active, out)
  PROVE  RemovedOnce' /\ registered' /\ closing' /\ (active \/ (top /\ out) => top' = top)
<1>1. UNCHANGED <<registered, fault>> /\ closing' = TRUE
  BY DEF close
<1>2. removals' \in {0, 1} /\ (active \/ (top /\ out) => top' = top)
  BY DEF close, Postponed
<1>3. QED
  BY <1>1, <1>2 DEF Once, RemovedOnce

LEMMA OnceStep ==
  ASSUME \A s \in Scenarios : Careful(s), Once, [Next]_vars
  PROVE  Once'
<1>s. Safe'
  BY SafeStep DEF Once
<1>c. scenario \in Scenarios /\ scenario \in Scenario /\ Careful(scenario) /\ scenario.closes \in Nat
  BY SessionAssumption DEF Once, Safe, DataOK, Scenario
<1> DEFINE Rest == (RemovedOnce /\ Rewritten /\ InLoop /\ ClosedOnce)'
<1> SUFFICES Rest
  BY <1>s DEF Once
<1>1. ASSUME NEW n \in 1 .. MaxInput, Receive(n) PROVE Rest
  BY <1>1 DEF Receive, flags, Once, RemovedOnce, Rewritten, Flushing, Connecting, InLoop, ClosedOnce
<1>2. ASSUME NEW n \in 1 .. length, NEW where \in {"loop", "all"}, pc \in {"contiguous", "all"}, Offer(n, where)
      PROVE  Rest
  <2>1. PICK b \in scenario.start : Offer(n, where)!(b)
    BY <1>2 DEF Offer
  <2>2. UNCHANGED <<wire, ret>> /\ top /\ registered /\ removals = 0
    BY <1>2, <2>1 DEF Once, Safe, DataOK, Reading, Usable, Closed
  <2>3. b \in Bodies /\ b \in scenario.start \cup scenario.resume
    BY <1>c, <2>1 DEF Scenario
  <2>4. CASE b.ends # "throw"
    <3>1. Marks(b) /\ pc' \in {"loop", "all", "contiguous"} /\ (waits' = waits \/ waits' = b.ends)
      BY <1>2, <2>1, <2>3, <2>4 DEF Bodies, Suspends, coro
    <3>2. UNCHANGED <<top, registered, removals, fault>> /\ closing' = (closing \/ b.closes)
      BY <3>1 DEF Marks
    <3>3. RemovedOnce' /\ Rewritten'
      BY <2>2, <2>3, <3>1, <3>2 DEF wire, Once, RemovedOnce, Rewritten, Flushing, Connecting
    <3>4. InLoop'
      BY <2>2, <3>2 DEF wire, InLoop
    <3>5. ClosedOnce'
      BY <1>c, <2>2, <2>3, <3>1, <3>2 DEF wire, Once, ClosedOnce, Careful, ClosedByOne
    <3>6. QED
      BY <3>3, <3>4, <3>5
  <2>5. CASE b.ends = "throw"
    <3>1. close(FALSE, output') /\ pc' = "loop" /\ UNCHANGED <<coro, input>>
      BY <2>1, <2>5 DEF Suspends
    <3>2. output' \in BOOLEAN
      BY <1>s DEF Safe, FlagsOK
    <3>3. RemovedOnce' /\ registered'
      BY <2>2, <3>1, <3>2, OnceClose
    <3>4. scenario.closes = 0
      BY <1>c, <2>3, <2>5 DEF Careful, ClosedByOne
    <3>5. QED
      BY <2>2, <3>1, <3>3, <3>4 DEF wire, coro, Once, Rewritten, Flushing, Connecting, InLoop, ClosedOnce
  <2>6. QED
    BY <2>4, <2>5
<1>3. CASE ReadContiguous \/ ReadAll
  <2>1. PICK piece \in 1 .. length, where \in {"loop", "all"} : Offer(piece, where)
    BY <1>3 DEF ReadContiguous, ReadAll, ThenAll, Once, Safe, DataOK
  <2>2. QED
    BY <1>2, <1>3, <2>1 DEF ReadContiguous, ReadAll
<1>4. CASE ReadNothing
  BY <1>4 DEF ReadNothing, flags, coro, wire, Once, RemovedOnce, Rewritten, Flushing, Connecting, InLoop, ClosedOnce
<1>5. ASSUME NEW b \in scenario.resume, Resume(b), proc = "active",
             \/ pc = "loop" /\ ret' = "loop"
             \/ pc = "emit" /\ ret' = "write_cb"
      PROVE  Rest
  <2>1. UNCHANGED <<input, wire>> /\ output' = (output \/ Writes(b)) /\ Marks(b)
    BY <1>5 DEF Resume
  <2>2. top /\ UNCHANGED <<top, registered, removals, fault>> /\ closing' = (closing \/ b.closes)
    BY <1>5, <2>1 DEF Marks, Once, Safe, Suspended
  <2>3. b \in Bodies /\ b \in scenario.start \cup scenario.resume
    BY <1>c DEF Scenario
  <2>4. RemovedOnce'
    BY <2>2 DEF Once, RemovedOnce
  <2>5. InLoop'
    BY <2>1, <2>2 DEF wire, Once, InLoop
  <2>6. ClosedOnce'
    <3>1. SUFFICES ASSUME scenario.closes # 0
                   PROVE  (closing' => closes' = 0) /\ (pc' = "complete" => used' # Threw)
      BY <2>1 DEF wire, ClosedOnce
    <3>2. ~b.closes /\ b.ends # "throw" /\ MaxInput \in Nat
      BY <1>c, <2>3, <3>1, SessionAssumption DEF Careful, ClosedByOne
    <3>3. pc' = "complete" => used' \in 0 .. view
      BY <1>5, <3>2 DEF Resume
    <3>4. pc' = "complete" => used' # Threw
      BY <3>2, <3>3 DEF Once, Safe, DataOK, Threw
    <3>5. closing' => closing
      BY <2>2, <3>2, Zenon
    <3>6. QED
      BY <2>1, <3>1, <3>4, <3>5 DEF wire, Once, ClosedOnce
  <2>7. Rewritten'
    <3>1. waits' = waits \/ waits' = b.ends
      BY <1>5 DEF Resume
    <3>2. waits' = "flush" => Flushing(scenario')
      BY <2>1, <2>3, <3>1 DEF wire, Once, Rewritten, Flushing
    <3>3. pc' = "write_cb" => top' /\ ~Connecting'
      BY <1>5, <2>1, <2>2 DEF wire, Once, Safe, Suspended, Connecting
    <3>4. ASSUME pc' = "complete", ret' = "write_cb" PROVE output'
      <4>1. ~Suspends(b) /\ pc = "emit"
        BY <1>5, <3>4 DEF Resume
      <4>2. Flushing(scenario)
        BY <4>1 DEF Once, Safe, Emitting, Rewritten
      <4>3. Writes(b)
        BY <1>c, <4>1, <4>2 DEF Careful, WritesBeforeItEnds
      <4>4. QED
        BY <2>1, <4>3
    <3>5. QED
      BY <3>2, <3>3, <3>4 DEF Rewritten, Connecting
  <2>8. QED
    BY <2>4, <2>5, <2>6, <2>7
<1>6. CASE TimerResumes \/ WrittenResumes
  BY <1>5, <1>6 DEF TimerResumes, WrittenResumes, Once, Safe, Emitting
<1>7. CASE processing_complete
  <2>1. /\ pc = "complete" /\ pc' = ret /\ top /\ ~Connecting /\ registered /\ removals = 0
        /\ UNCHANGED <<coro, output, wire, ret>> /\ ret \in {"loop", "write_cb"}
        /\ output \in BOOLEAN
    BY <1>7 DEF processing_complete, Once, Safe, FlagsOK, DataOK, Completing, Usable, Closed
  <2>2. \/ close(FALSE, output) /\ (used = Threw \/ closing)
        \/ UNCHANGED <<top, flags>>
    BY <1>7 DEF processing_complete, Retried
  <2>3. CASE close(FALSE, output) /\ (used = Threw \/ closing)
    <3>1. RemovedOnce' /\ registered' /\ (output => top')
      BY <2>1, <2>3, OnceClose
    <3>2. ClosedOnce'
      BY <2>1, <2>3 DEF coro, wire, Once, ClosedOnce
    <3>3. QED
      BY <2>1, <3>1, <3>2 DEF coro, wire, Once, Rewritten, Flushing, Connecting, InLoop
  <2>4. CASE UNCHANGED <<top, flags>>
    BY <2>1, <2>4 DEF flags, coro, wire, Once, RemovedOnce, Rewritten, Flushing, Connecting, InLoop, ClosedOnce
  <2>5. QED
    BY <2>2, <2>3, <2>4
<1>8. CASE Written
  BY <1>8 DEF Written, flags, coro, wire, Once, RemovedOnce, Rewritten, Flushing, Connecting, InLoop, ClosedOnce
<1>9. CASE write_cb
  <2>1. pc = "write_cb" /\ pc' = "loop" /\ top /\ ~Connecting /\ UNCHANGED <<coro, output, wire, ret>>
    BY <1>9 DEF write_cb, Once, Rewritten
  <2>2. CASE closing
    <3>1. close(proc = "active", output) /\ output \in BOOLEAN /\ (proc = "active") \in BOOLEAN
      BY <1>9, <2>2 DEF write_cb, Once, Safe, FlagsOK
    <3>2. registered /\ removals = 0
      BY <2>1 DEF Once, Safe, DataOK, Usable, Closed
    <3>3. RemovedOnce' /\ registered'
      BY <3>1, <3>2, OnceClose
    <3>4. QED
      BY <2>1, <2>2, <3>3 DEF coro, wire, Once, Rewritten, Flushing, Connecting, InLoop, ClosedOnce
  <2>3. CASE ~closing
    <3>1. UNCHANGED <<top, flags>>
      BY <1>9, <2>3 DEF write_cb
    <3>2. QED
      BY <2>1, <3>1 DEF flags, coro, wire, Once, RemovedOnce, Rewritten, Flushing, Connecting, InLoop, ClosedOnce
  <2>4. QED
    BY <2>2, <2>3
<1>10. CASE connect
  BY <1>10 DEF connect, flags, coro, Once, RemovedOnce, Rewritten, Flushing, Connecting, InLoop, ClosedOnce
<1>11. CASE Connected
  BY <1>11 DEF Connected, coro, Once, Safe, DataOK, Closed, RemovedOnce, Rewritten, Flushing, Connecting, InLoop, ClosedOnce
<1>12. ASSUME NEW how \in {"eof", "error"}, Disconnected(how) PROVE Rest
  <2>1. /\ pc = "loop" /\ top /\ how \in scenario.events /\ (Connecting => how = "error")
        /\ close(proc = "active", output)
        /\ UNCHANGED <<coro, input, output, connecting, scenario, octets, closes, pc, ret>>
    BY <1>12 DEF Disconnected
  <2>2. registered /\ removals = 0 /\ output \in BOOLEAN /\ (proc = "active") \in BOOLEAN
    <3>1. removals = 0 /\ output \in BOOLEAN /\ (~Connecting => registered)
      BY <2>1 DEF Once, Safe, FlagsOK, DataOK, Usable, Closed
    <3>2. Connecting => registered
      BY <1>c, <2>1 DEF Once, InLoop, Careful, AddedBeforeItFails
    <3>3. QED
      BY <3>1, <3>2
  <2>3. RemovedOnce' /\ registered'
    BY <2>1, <2>2, OnceClose
  <2>4. scenario.closes = 0
    BY <1>c, <2>1 DEF Careful, ClosedByOne
  <2>5. QED
    BY <2>1, <2>3, <2>4 DEF coro, Once, Rewritten, Flushing, Connecting, InLoop, ClosedOnce
<1>13. CASE AppClose
  <2>1. /\ pc = "loop" /\ registered /\ closes > 0 /\ closes' = closes - 1
        /\ close(proc = "active", output)
        /\ UNCHANGED <<coro, input, output, connecting, peer, scenario, octets, pc, ret>>
    BY <1>13 DEF AppClose
  <2>2. scenario.closes = 1 /\ closes = 1
    BY <1>c, <2>1 DEF Careful, ClosedByOne, Once, Safe, DataOK
  <2>3. removals = 0 /\ output \in BOOLEAN /\ (proc = "active") \in BOOLEAN
    BY <2>2 DEF Once, Safe, FlagsOK, DataOK, Closed, ClosedOnce
  <2>4. RemovedOnce' /\ registered'
    BY <2>1, <2>3, OnceClose
  <2>5. closes' = 0
    BY <2>1, <2>2
  <2>6. QED
    BY <2>1, <2>4, <2>5 DEF coro, Once, Rewritten, Flushing, Connecting, InLoop, ClosedOnce
<1>14. CASE eject
  <2>1. /\ pc = "loop" /\ top /\ ~Connecting /\ closes > 0 /\ closes' = closes - 1
        /\ top' = FALSE /\ registered' = FALSE
        /\ UNCHANGED <<closing, removals, fault, waits, used, output, connecting, scenario, pc, ret>>
    BY <1>14 DEF eject
  <2>2. scenario.closes = 1 /\ closes = 1
    BY <1>c, <2>1 DEF Careful, ClosedByOne, Once, Safe, DataOK
  <2>3. closes' = 0 /\ removals = 0 /\ ~(scenario.client /\ connecting = "no")
    BY <2>1, <2>2 DEF Once, Safe, DataOK, Closed, Unconnected
  <2>4. QED
    BY <2>1, <2>3 DEF Once, RemovedOnce, Rewritten, Flushing, Connecting, InLoop, ClosedOnce
<1>15. CASE Remove
  <2>1. /\ removals > 0 /\ removals' = removals - 1 /\ registered' = FALSE
        /\ fault' = (fault \/ ~registered)
        /\ UNCHANGED <<top, closing, coro, input, output, wire, pc, ret>>
    BY <1>15 DEF Remove
  <2>2. ~top /\ closing /\ registered /\ removals = 1 /\ ~fault
    BY <2>1 DEF Once, RemovedOnce, Safe, DataOK, Closed
  <2>3. removals' = 0
    BY <2>1, <2>2
  <2>4. fault' = FALSE
    BY <2>1, <2>2, Zenon
  <2>5. QED
    BY <2>1, <2>2, <2>3, <2>4 DEF coro, wire, Once, RemovedOnce, Rewritten, Flushing, Connecting, InLoop, ClosedOnce
<1>16. CASE UNCHANGED vars
  BY <1>16 DEF vars, flags, coro, wire, Once, RemovedOnce, Rewritten, Flushing, Connecting, InLoop, ClosedOnce
<1>17. QED
  BY <1>1, <1>3, <1>4, <1>6, <1>7, <1>8, <1>9, <1>10, <1>11, <1>12, <1>13, <1>14, <1>15, <1>16
     DEF Once, Next, Callback

\* With a careful application the close() calls of write_cb, processing_complete, event_cb and the
\* application amount to one removal, which finds its session.
THEOREM RemovedOnceHolds ==
  ASSUME \A s \in Scenarios : Careful(s)
  PROVE  Spec => []RemovedOnce
<1>1. Once /\ [Next]_vars => Once'
  BY OnceStep
<1>2. Once => RemovedOnce
  BY DEF Once
<1>3. QED
  BY OnceInit, <1>1, <1>2, PTL DEF Spec
=============================================================================
