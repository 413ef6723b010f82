--------------------------- MODULE PortStatsProofs ---------------------------
(***************************************************************************)
(* Proofs about PortStats.tla, for any connections, word size and inputs:  *)
(* counters stay words, no measured delay is longer than the run, unless a *)
(* response referred to a deleted request, the two ends of a connection    *)
(* agree on what passed, and the sums of a module are those of what passed *)
(* its ports.                                                              *)
(*                                                                         *)
(* The argument for the second: what a request waiting for its answer, or  *)
(* the packet at hand, has as its source cycle is not in the future, so    *)
(* the unsigned difference with the present cycle does not wrap.  For the  *)
(* third: a packet changes both ends alike, and ends that have seen        *)
(* nothing since their resets have counted nothing.  For the fourth: every *)
(* port accounts for its own line, and so do the ports merged so far.      *)
(***************************************************************************)
EXTENDS PortStats, SequenceFacts

-----------------------------------------------------------------------------
(* The inductive invariant *)

\* No request waits that was sent in the future.
PendingPast == \A c \in Connections : pending[c] \subseteq 0 .. cycle

IInv == TypeOK /\ PendingPast /\ DelaysWithinRun

-----------------------------------------------------------------------------
(* Words and counters *)

LEMMA Words ==
    /\ 0 \in Word /\ UINT64_MAX \in Word
    /\ Lengths \cup Credits \cup Garbage \subseteq Word
    /\ MaxCycle \in Word
  BY ModulusAssumption, InputsAssumption, BoundsAssumption DEF Word, UINT64_MAX

LEMMA AddType ==
    ASSUME NEW x \in Nat, NEW y \in Nat
    PROVE  add(x, y) \in Word
  BY ModulusAssumption DEF add, Word, UINT64_MAX

LEMMA ClearedType == cleared \in Stats
  BY Words DEF cleared, Stats

\* Recording a delay keeps the statistics words, and moves the largest delay
\* to the new one or not at all (PortStats and updateStats of both ports).
LEMMA RecordDelayType ==
    ASSUME NEW s \in Stats, NEW d \in Word
    PROVE  /\ recordDelay(s, d) \in Stats
           /\ recordDelay(s, d).max_delay \in {s.max_delay, d}
  <1>1. add(s.total_delay, d) \in Word
    BY AddType DEF Stats, Word, UINT64_MAX
  <1>2. lesser(s.min_delay, d) \in Word /\ greater(s.max_delay, d) \in {s.max_delay, d}
    BY DEF lesser, greater, Stats
  <1>. QED
    BY <1>1, <1>2 DEF recordDelay, Stats

\* Counting keeps the statistics words, too.
LEMMA CountOneType ==
    ASSUME NEW s \in Stats, NEW m \in Word
    PROVE  /\ [s EXCEPT !.req_count = add(@, 1), !.byte_count = add(@, m)] \in Stats
           /\ [s EXCEPT !.resp_count = add(@, 1), !.byte_count = add(@, m)] \in Stats
           /\ [s EXCEPT !.req_count = add(@, 1)] \in Stats
           /\ [s EXCEPT !.credit_sent = add(@, 1)] \in Stats
           /\ [s EXCEPT !.credit_received = add(@, 1), !.credit_value = add(@, m)] \in Stats
  <1>1. \A x \in Word : add(x, 1) \in Word /\ add(x, m) \in Word
    BY AddType DEF Word, UINT64_MAX
  <1>. QED
    BY <1>1 DEF Stats

-----------------------------------------------------------------------------
(* Ports *)

\* What a port makes of its statistics when a packet passes: the counters stay
\* words, and the largest delay stays unless a delay is measured.
LEMMA MasterSendType ==
    ASSUME NEW s \in Stats, NEW p \in Packet
    PROVE  masterSend(s, p) \in Stats /\ masterSend(s, p).max_delay = s.max_delay
  <1>1. p.bytes \in Word
    BY Words DEF Packet
  <1>. QED
    BY <1>1, CountOneType DEF masterSend, Stats

LEMMA SlaveSendType ==
    ASSUME NEW s \in Stats, NEW p \in Packet
    PROVE  slaveSend(s, p) \in Stats /\ slaveSend(s, p).max_delay = s.max_delay
  <1>1. p.bytes \in Word
    BY Words DEF Packet
  <1>. QED
    BY <1>1, CountOneType DEF slaveSend, Stats

LEMMA CycleType ==
    ASSUME TypeOK
    PROVE  cycle \in Word /\ cycle \in Nat
  BY ModulusAssumption, BoundsAssumption DEF TypeOK, Word, UINT64_MAX

LEMMA E2eDelayType ==
    ASSUME TypeOK, NEW p \in Packet, p.original # None
    PROVE  /\ e2eDelay(p) \in Word
           /\ p.original \in 0 .. cycle => e2eDelay(p) \in 0 .. cycle
  <1>1. cycle \in Word /\ cycle \in Nat /\ p.original \in Word
    BY CycleType DEF Packet
  <1>. QED
    BY <1>1, ModulusAssumption DEF e2eDelay, Word, UINT64_MAX

LEMMA MasterRecvType ==
    ASSUME TypeOK, NEW s \in Stats, NEW p \in Packet
    PROVE  /\ masterRecv(s, p) \in Stats
           /\ \/ masterRecv(s, p).max_delay = s.max_delay
              \/ /\ p.type = "response" /\ p.original # None
                 /\ masterRecv(s, p).max_delay = e2eDelay(p)
  <1>1. p.bytes \in Word /\ p.credits \in Word
    BY Words DEF Packet
  <1>2. CASE p.type = "response"
    <2>. DEFINE t == [s EXCEPT !.resp_count = add(@, 1), !.byte_count = add(@, p.bytes)]
    <2>1. t \in Stats /\ t.max_delay = s.max_delay
      BY <1>1, CountOneType DEF Stats
    <2>2. masterRecv(s, p) = IF p.original = None THEN t ELSE recordDelay(t, e2eDelay(p))
      BY <1>2 DEF masterRecv
    <2>. HIDE DEF t
    <2>3. p.original # None => e2eDelay(p) \in Word
      BY E2eDelayType
    <2>. QED
      BY <1>2, <2>1, <2>2, <2>3, RecordDelayType
  <1>3. CASE p.type # "response"
    BY <1>1, <1>3, CountOneType DEF masterRecv, Stats
  <1>. QED
    BY <1>2, <1>3

LEMMA SlaveRecvType ==
    ASSUME TypeOK, NEW s \in Stats, NEW p \in Packet
    PROVE  /\ slaveRecv(s, p) \in Stats
           /\ slaveRecv(s, p).max_delay \in {s.max_delay} \cup (0 .. cycle)
  <1>. DEFINE t == IF p.original # None /\ p.type # "credit"
                   THEN recordDelay(s, getDelayCycles(p)) ELSE s
  <1>1. p.bytes \in Word
    BY Words DEF Packet
  <1>2. getDelayCycles(p) \in 0 .. cycle /\ getDelayCycles(p) \in Word
    <2>1. cycle \in Word /\ p.src_cycle \in Word
      BY CycleType DEF Packet
    <2>. QED
      BY <2>1, ModulusAssumption DEF getDelayCycles, Word, UINT64_MAX
  <1>3. t \in Stats /\ t.max_delay \in {s.max_delay} \cup (0 .. cycle)
    BY <1>2, RecordDelayType
  <1>4. slaveRecv(s, p) = CASE p.type = "request" -> [t EXCEPT !.req_count = add(@, 1),
                                                               !.byte_count = add(@, p.bytes)]
                            [] p.type = "stream" -> [t EXCEPT !.req_count = add(@, 1)]
                            [] OTHER -> t
    BY DEF slaveRecv
  <1>. HIDE DEF t
  <1>. QED
    BY <1>1, <1>3, <1>4, CountOneType DEF Stats

LEMMA PassesType ==
    ASSUME TypeOK, NEW c \in Connections, NEW p \in Packet, Passes(c, p)
    PROVE  /\ cycle' = cycle /\ packets' \in 0 .. MaxPackets
           /\ passed' \in [{"master", "slave"} -> [Connections -> Seq([at : Word, pkt : Packet])]]
  <1>1. cycle \in Word
    BY CycleType
  <1>. DEFINE e == [at |-> cycle, pkt |-> p]
              Item == [at : Word, pkt : Packet]
  <1>2. e \in Item
    BY <1>1
  <1>3. ASSUME NEW s \in {"master", "slave"}
        PROVE  [passed[s] EXCEPT ![c] = Append(@, e)] \in [Connections -> Seq(Item)]
    <2>1. passed[s] \in [Connections -> Seq(Item)]
      BY DEF TypeOK
    <2>. HIDE DEF e, Item
    <2>2. Append(passed[s][c], e) \in Seq(Item)
      BY <1>2, <2>1
    <2>. QED
      BY <2>1, <2>2
  <1>4. passed' = [s \in {"master", "slave"} |-> [passed[s] EXCEPT ![c] = Append(@, e)]]
    BY DEF Passes
  <1>5. cycle' = cycle /\ packets' \in 0 .. MaxPackets
    BY BoundsAssumption DEF Passes, TypeOK
  <1>. HIDE DEF e
  <1>. QED
    BY <1>3, <1>4, <1>5

LEMMA DownType ==
    ASSUME IInv, NEW c \in Connections, NEW p \in Packet, Down(c, p)
    PROVE  /\ {master', slave'} \subseteq [Connections -> Stats]
           /\ cycle' = cycle /\ packets' \in 0 .. MaxPackets /\ stale' = stale
           /\ passed' \in [{"master", "slave"} -> [Connections -> Seq([at : Word, pkt : Packet])]]
           /\ DelaysWithinRun'
  <1>1. master[c] \in Stats /\ slave[c] \in Stats /\ TypeOK
    BY DEF IInv, TypeOK
  <1>2. masterSend(master[c], p) \in Stats
        /\ masterSend(master[c], p).max_delay = master[c].max_delay
    BY <1>1, MasterSendType
  <1>3. slaveRecv(slave[c], p) \in Stats
        /\ slaveRecv(slave[c], p).max_delay \in {slave[c].max_delay} \cup (0 .. cycle)
    BY <1>1, SlaveRecvType
  <1>4. /\ master' = [master EXCEPT ![c] = masterSend(master[c], p)]
        /\ slave' = [slave EXCEPT ![c] = slaveRecv(slave[c], p)]
        /\ stale' = stale /\ Passes(c, p)
    BY DEF Down
  <1>5. {master', slave'} \subseteq [Connections -> Stats]
    BY <1>2, <1>3, <1>4 DEF IInv, TypeOK
  <1>6. /\ cycle' = cycle /\ packets' \in 0 .. MaxPackets
        /\ passed' \in [{"master", "slave"} -> [Connections -> Seq([at : Word, pkt : Packet])]]
    BY <1>1, <1>4, PassesType
  <1>7. ASSUME ~stale, NEW d \in Connections
        PROVE  master'[d].max_delay <= cycle /\ slave'[d].max_delay <= cycle
    <2>1. master[d].max_delay <= cycle /\ slave[d].max_delay <= cycle
      BY <1>7 DEF IInv, DelaysWithinRun
    <2>2. cycle \in Nat
      BY BoundsAssumption DEF IInv, TypeOK
    <2>. QED
      BY <1>2, <1>3, <1>4, <2>1, <2>2 DEF IInv, TypeOK
  <1>. QED
    BY <1>4, <1>5, <1>6, <1>7 DEF DelaysWithinRun

LEMMA UpType ==
    ASSUME IInv, NEW c \in Connections, NEW p \in Packet, Up(c, p)
    PROVE  /\ {master', slave'} \subseteq [Connections -> Stats]
           /\ cycle' = cycle /\ packets' \in 0 .. MaxPackets
           /\ passed' \in [{"master", "slave"} -> [Connections -> Seq([at : Word, pkt : Packet])]]
           /\ ~stale /\ (p.original # None => p.original \in 0 .. cycle) =>
                 \A d \in Connections : /\ master'[d].max_delay <= cycle
                                        /\ slave'[d].max_delay <= cycle
  <1>1. master[c] \in Stats /\ slave[c] \in Stats /\ TypeOK
    BY DEF IInv, TypeOK
  <1>2. slaveSend(slave[c], p) \in Stats
        /\ slaveSend(slave[c], p).max_delay = slave[c].max_delay
    BY <1>1, SlaveSendType
  <1>3. /\ masterRecv(master[c], p) \in Stats
        /\ \/ masterRecv(master[c], p).max_delay = master[c].max_delay
           \/ p.original # None /\ masterRecv(master[c], p).max_delay = e2eDelay(p)
    BY <1>1, MasterRecvType
  <1>4. /\ slave' = [slave EXCEPT ![c] = slaveSend(slave[c], p)]
        /\ master' = [master EXCEPT ![c] = masterRecv(master[c], p)]
        /\ Passes(c, p)
    BY DEF Up
  <1>5. {master', slave'} \subseteq [Connections -> Stats]
    BY <1>2, <1>3, <1>4 DEF IInv, TypeOK
  <1>6. /\ cycle' = cycle /\ packets' \in 0 .. MaxPackets
        /\ passed' \in [{"master", "slave"} -> [Connections -> Seq([at : Word, pkt : Packet])]]
    BY <1>1, <1>4, PassesType
  <1>7. ASSUME ~stale, p.original # None => p.original \in 0 .. cycle, NEW d \in Connections
        PROVE  master'[d].max_delay <= cycle /\ slave'[d].max_delay <= cycle
    <2>1. master[d].max_delay <= cycle /\ slave[d].max_delay <= cycle
      BY <1>7 DEF IInv, DelaysWithinRun
    <2>2. p.original # None => e2eDelay(p) <= cycle
      BY <1>1, <1>7, E2eDelayType
    <2>. QED
      BY <1>2, <1>3, <1>4, <2>1, <2>2 DEF IInv, TypeOK
  <1>. QED
    BY <1>5, <1>6, <1>7

-----------------------------------------------------------------------------
(* Steps *)

LEMMA SendRequestStep ==
    ASSUME IInv, NEW c \in Connections, NEW bytes \in Lengths, NEW src \in 0 .. cycle,
           NEW original \in {None, src}, NEW a \in BOOLEAN,
           SendRequest(c, bytes, src, original, a)
    PROVE  IInv'
  <1>. DEFINE p == [type |-> "request", bytes |-> bytes, credits |-> 0, src_cycle |-> src,
                    original |-> original]
  <1>1. src \in Word
    BY CycleType, ModulusAssumption DEF IInv, Word, UINT64_MAX
  <1>2. p \in Packet /\ Down(c, p)
    BY <1>1 DEF Packet, SendRequest
  <1>. HIDE DEF p
  <1>3. /\ pending' \in [Connections -> SUBSET Word]
        /\ \A d \in Connections : pending'[d] \subseteq 0 .. cycle
    BY <1>1 DEF SendRequest, IInv, TypeOK, PendingPast
  <1>. QED
    BY <1>2, <1>3, DownType DEF IInv, TypeOK, PendingPast

LEMMA SendOtherStep ==
    ASSUME IInv, NEW c \in Connections, NEW n,
           \/ n \in Lengths /\ SendStream(c, n)
           \/ n \in Credits /\ SendCredit(c, n)
    PROVE  IInv'
  <1>1. PICK p \in Packet : Down(c, p)
    <2>1. cycle \in Word
      BY CycleType DEF IInv
    <2>2. CASE n \in Lengths /\ SendStream(c, n)
      <3>1. [type |-> "stream", bytes |-> n, credits |-> 0, src_cycle |-> cycle,
             original |-> None] \in Packet
        BY <2>1, <2>2 DEF Packet
      <3>. QED
        BY <2>2, <3>1 DEF SendStream
    <2>3. CASE n \in Credits /\ SendCredit(c, n)
      <3>1. [type |-> "credit", bytes |-> 0, credits |-> n, src_cycle |-> cycle,
             original |-> None] \in Packet
        BY <2>1, <2>3 DEF Packet
      <3>. QED
        BY <2>3, <3>1 DEF SendCredit
    <2>. QED
      BY <2>2, <2>3
  <1>2. UNCHANGED pending
    BY DEF SendStream, SendCredit
  <1>. QED
    BY <1>1, <1>2, DownType DEF IInv, TypeOK, PendingPast

LEMMA SendResponseStep ==
    ASSUME IInv, NEW c \in Connections, NEW d \in Connections, NEW src \in 0 .. cycle,
           NEW bytes \in Lengths, SendResponse(c, d, src, bytes)
    PROVE  IInv'
  <1>. DEFINE p == [type |-> "response", bytes |-> bytes, credits |-> 0, src_cycle |-> cycle,
                    original |-> src]
  <1>1. src \in Word /\ cycle \in Word
    BY CycleType, ModulusAssumption DEF IInv, Word, UINT64_MAX
  <1>2. p \in Packet /\ Up(d, p) /\ p.original \in 0 .. cycle
    BY <1>1 DEF Packet, SendResponse
  <1>. HIDE DEF p
  <1>3. /\ pending' \in [Connections -> SUBSET Word]
        /\ \A e \in Connections : pending'[e] \subseteq 0 .. cycle
        /\ stale' = stale
    BY DEF SendResponse, IInv, TypeOK, PendingPast
  <1>. QED
    BY <1>2, <1>3, UpType DEF IInv, TypeOK, PendingPast, DelaysWithinRun

LEMMA SendStaleResponseStep ==
    ASSUME IInv, NEW c \in Connections, NEW d \in Connections, NEW src \in 0 .. cycle,
           NEW read \in Garbage, SendStaleResponse(c, d, src, read)
    PROVE  IInv'
  <1>. DEFINE p == [type |-> "response", bytes |-> 0, credits |-> 0, src_cycle |-> cycle,
                    original |-> read]
  <1>1. read \in Word /\ cycle \in Word
    BY CycleType, Words DEF IInv
  <1>2. p \in Packet /\ Up(d, p)
    BY <1>1 DEF Packet, SendStaleResponse
  <1>. HIDE DEF p
  <1>3. /\ pending' \in [Connections -> SUBSET Word]
        /\ \A e \in Connections : pending'[e] \subseteq 0 .. cycle
        /\ stale' = TRUE
    BY DEF SendStaleResponse, IInv, TypeOK, PendingPast
  <1>. QED
    BY <1>2, <1>3, UpType DEF IInv, TypeOK, PendingPast, DelaysWithinRun

LEMMA ReturnCreditStep ==
    ASSUME IInv, NEW c \in Connections, NEW credits \in Credits, ReturnCredit(c, credits)
    PROVE  IInv'
  <1>. DEFINE p == [type |-> "credit", bytes |-> 0, credits |-> credits, src_cycle |-> cycle,
                    original |-> None]
  <1>1. p \in Packet /\ Up(c, p) /\ p.original = None
    BY CycleType DEF IInv, Packet, ReturnCredit
  <1>. HIDE DEF p
  <1>2. UNCHANGED <<pending, stale>>
    BY DEF ReturnCredit
  <1>. QED
    BY <1>1, <1>2, UpType DEF IInv, TypeOK, PendingPast, DelaysWithinRun

LEMMA ResetStep ==
    ASSUME IInv, ResetInitiator \/ ResetTarget
    PROVE  IInv'
  <1>1. /\ {master', slave'} \subseteq [Connections -> Stats]
        /\ \A c \in Connections : /\ master'[c].max_delay \in {0, master[c].max_delay}
                                  /\ slave'[c].max_delay \in {0, slave[c].max_delay}
    BY ClearedType DEF ResetInitiator, ResetTarget, IInv, TypeOK, cleared
  <1>2. passed' \in [{"master", "slave"} -> [Connections -> Seq([at : Word, pkt : Packet])]]
    <2>. DEFINE Item == [at : Word, pkt : Packet]
    <2>1. passed \in [{"master", "slave"} -> [Connections -> Seq(Item)]]
      BY DEF IInv, TypeOK
    <2>. HIDE DEF Item
    <2>2. [c \in Connections |-> << >>] \in [Connections -> Seq(Item)]
      OBVIOUS
    <2>3. passed' \in [{"master", "slave"} -> [Connections -> Seq(Item)]]
      BY <2>1, <2>2 DEF ResetInitiator, ResetTarget
    <2>. QED
      BY <2>3 DEF Item
  <1>3. UNCHANGED <<cycle, pending, packets, stale>> /\ cycle \in Nat
    BY CycleType DEF ResetInitiator, ResetTarget, IInv
  <1>4. TypeOK' /\ PendingPast'
    BY <1>1, <1>2, <1>3 DEF IInv, TypeOK, PendingPast
  <1>5. DelaysWithinRun'
    BY <1>1, <1>3 DEF IInv, DelaysWithinRun
  <1>. QED
    BY <1>4, <1>5 DEF IInv

LEMMA WaitStep ==
    ASSUME IInv, Wait
    PROVE  IInv'
  <1>1. cycle' \in 0 .. MaxCycle /\ cycle' = cycle + 1 /\ cycle \in Nat
    BY BoundsAssumption DEF Wait, IInv, TypeOK
  <1>2. UNCHANGED <<master, slave, pending, packets, passed, stale>>
    BY DEF Wait
  <1>3. PendingPast'
    BY <1>1, <1>2 DEF IInv, PendingPast
  <1>4. DelaysWithinRun'
    <2>1. \A c \in Connections : master[c].max_delay \in Nat /\ slave[c].max_delay \in Nat
      <3>1. \A c \in Connections : master[c] \in Stats /\ slave[c] \in Stats
        BY DEF IInv, TypeOK
      <3>2. Word \subseteq Nat
        BY ModulusAssumption DEF Word, UINT64_MAX
      <3>. QED
        BY <3>1, <3>2 DEF Stats
    <2>. QED
      BY <1>1, <1>2, <2>1 DEF IInv, DelaysWithinRun
  <1>. QED
    BY <1>1, <1>2, <1>3, <1>4 DEF IInv, TypeOK

-----------------------------------------------------------------------------
(* Theorems *)

LEMMA InitIInv ==
    ASSUME Init
    PROVE  IInv
  <1>1. {master, slave} \subseteq [Connections -> Stats]
    BY ClearedType DEF Init
  <1>2. passed \in [{"master", "slave"} -> [Connections -> Seq([at : Word, pkt : Packet])]]
    BY DEF Init
  <1>3. 0 \in 0 .. MaxCycle /\ 0 \in 0 .. MaxPackets
    BY BoundsAssumption
  <1>4. TypeOK /\ PendingPast
    BY <1>1, <1>2, <1>3 DEF Init, TypeOK, PendingPast
  <1>5. DelaysWithinRun
    BY DEF Init, DelaysWithinRun, cleared
  <1>. QED
    BY <1>4, <1>5 DEF IInv

LEMMA NextIInv ==
    ASSUME IInv, [Next]_vars
    PROVE  IInv'
  <1>1. CASE UNCHANGED vars
    BY <1>1 DEF IInv, TypeOK, PendingPast, DelaysWithinRun, vars
  <1>. QED
    BY <1>1, SendRequestStep, SendOtherStep, SendResponseStep, SendStaleResponseStep,
       ReturnCreditStep, ResetStep, WaitStep DEF Next

\* The inductive invariant holds of every reachable state.
THEOREM InvariantHolds == Spec => []IInv
  BY InitIInv, NextIInv, PTL DEF Spec

\* Every counter of every port stays a word, however often it is incremented:
\* the additions wrap (updateStats of both ports).
THEOREM TypeCorrect == Spec => []TypeOK
  <1>1. IInv => TypeOK
    BY DEF IInv
  <1>. QED
    BY <1>1, InvariantHolds, PTL

\* No measured delay is longer than the run, for any number of connections,
\* packets and resets, unless a response referred to a deleted request
\* (MasterPort::updateStats, Packet::getDelayCycles).
THEOREM DelaysBounded == Spec => []DelaysWithinRun
  <1>1. IInv => DelaysWithinRun
    BY DEF IInv
  <1>. QED
    BY <1>1, InvariantHolds, PTL

-----------------------------------------------------------------------------
(* Counting modulo the word size *)

LEMMA AddWords ==
    ASSUME NEW x \in Word, NEW y \in Word
    PROVE  /\ add(x, y) = IF x + y < Modulus THEN x + y ELSE x + y - Modulus
           /\ add(x, y) \in Word
  <1>1. /\ x \in Nat /\ y \in Nat /\ Modulus \in Nat \ {0}
        /\ x < Modulus /\ y < Modulus
    BY ModulusAssumption DEF Word, UINT64_MAX
  <1>2. CASE x + y < Modulus
    BY <1>1, <1>2 DEF add, Word, UINT64_MAX
  <1>3. CASE x + y >= Modulus
    <2>1. (x + y) % Modulus = x + y - Modulus
      BY <1>1, <1>3
    <2>. QED
      BY <1>1, <1>3, <2>1 DEF add, Word, UINT64_MAX
  <1>. QED
    BY <1>1, <1>2, <1>3

\* A number is its quotient times the word size, plus its remainder.
LEMMA RemainderOf ==
    \A q, r \in Int : 0 <= r /\ r < Modulus => ((Modulus * q) + r) % Modulus = r
  BY ModulusAssumption

LEMMA Quotient ==
    ASSUME NEW n \in Nat
    PROVE  /\ n \div Modulus \in Int /\ n % Modulus \in 0 .. Modulus - 1
           /\ n = (Modulus * (n \div Modulus)) + (n % Modulus)
  BY ModulusAssumption

LEMMA OneMore ==
    ASSUME NEW n \in Nat
    PROVE  /\ n % Modulus \in Word
           /\ (n + 1) % Modulus = ((n % Modulus) + 1) % Modulus
  <1>1. PICK q, r : q = n \div Modulus /\ r = n % Modulus
    OBVIOUS
  <1>2. /\ q \in Int /\ r \in 0 .. Modulus - 1 /\ n = (Modulus * q) + r
        /\ Modulus \in Nat \ {0}
    BY <1>1, Quotient, ModulusAssumption
  <1>3. (n + 1) % Modulus = (r + 1) % Modulus
    <2>1. CASE r + 1 < Modulus
      <3>1. n + 1 = (Modulus * q) + (r + 1)
        BY <1>2
      <3>2. (n + 1) % Modulus = r + 1
        <4>1. PICK t \in Int : t = r + 1
          BY <1>2
        <4>2. q \in Int /\ 0 <= t /\ t < Modulus
          BY <1>2, <2>1, <4>1
        <4>3. ((Modulus * q) + t) % Modulus = t
          BY <4>1, <4>2, RemainderOf, Zenon
        <4>. QED
          BY <3>1, <4>1, <4>3
      <3>3. (r + 1) % Modulus = r + 1
        BY <1>2, <2>1
      <3>. QED
        BY <3>2, <3>3
    <2>2. CASE r + 1 = Modulus
      <3>1. Modulus * (q + 1) = (Modulus * q) + Modulus
        BY <1>2
      <3>2. n + 1 = (Modulus * (q + 1)) + 0
        BY <1>2, <2>2, <3>1
      <3>3. (n + 1) % Modulus = 0
        BY <1>2, <3>2, RemainderOf
      <3>4. (r + 1) % Modulus = 0
        BY <1>2, <2>2
      <3>. QED
        BY <3>3, <3>4
    <2>. QED
      BY <1>2, <2>1, <2>2
  <1>. QED
    BY <1>1, <1>2, <1>3 DEF Word, UINT64_MAX

\* Counting on one side counts on the sum.
LEMMA AddOne ==
    ASSUME NEW x \in Word, NEW y \in Word
    PROVE  /\ add(add(x, 1), y) = add(add(x, y), 1)
           /\ add(x, add(y, 1)) = add(add(x, y), 1)
           /\ add(x, 0) = x
  <1>1. /\ x \in Nat /\ y \in Nat /\ Modulus \in Nat \ {0}
        /\ x < Modulus /\ y < Modulus /\ Word = 0 .. Modulus - 1
    BY ModulusAssumption DEF Word, UINT64_MAX
  <1>2. add(x, 0) = x
    BY <1>1 DEF add
  <1>3. CASE Modulus = 1
    <2>1. \A a, b \in Nat : add(a, b) = 0
      BY <1>3 DEF add
    <2>. QED
      BY <1>1, <1>2, <2>1
  <1>4. CASE Modulus # 1
    <2>1. 1 \in Word
      BY <1>1, <1>4
    <2>2. \A a, b \in Word : /\ add(a, b) = IF a + b < Modulus THEN a + b ELSE a + b - Modulus
                             /\ add(a, b) \in Word
      BY AddWords
    <2>3. PICK u, v, w : u = add(x, 1) /\ v = add(y, 1) /\ w = add(x, y)
      OBVIOUS
    <2>4. /\ u \in Word /\ v \in Word /\ w \in Word
          /\ u = IF x + 1 < Modulus THEN x + 1 ELSE x + 1 - Modulus
          /\ v = IF y + 1 < Modulus THEN y + 1 ELSE y + 1 - Modulus
          /\ w = IF x + y < Modulus THEN x + y ELSE x + y - Modulus
      BY <2>1, <2>2, <2>3
    <2>5. /\ add(u, y) = IF u + y < Modulus THEN u + y ELSE u + y - Modulus
          /\ add(x, v) = IF x + v < Modulus THEN x + v ELSE x + v - Modulus
          /\ add(w, 1) = IF w + 1 < Modulus THEN w + 1 ELSE w + 1 - Modulus
      BY <2>1, <2>2, <2>4
    <2>6. u \in Nat /\ v \in Nat /\ w \in Nat
      BY <1>1, <2>4
    <2>7. add(u, y) = add(w, 1)
      BY <1>1, <2>4, <2>5, <2>6
    <2>8. add(x, v) = add(w, 1)
      BY <1>1, <2>4, <2>5, <2>6
    <2>. QED
      BY <1>2, <2>3, <2>7, <2>8
  <1>. QED
    BY <1>3, <1>4

\* A packet more of a counted type is one more.
LEMMA CountAppend ==
    ASSUME NEW Item, NEW line \in Seq(Item), NEW e \in Item, NEW types
    PROVE  /\ Count(line, types) \in Word
           /\ e.pkt.type \in types => Count(Append(line, e), types) = add(Count(line, types), 1)
           /\ e.pkt.type \notin types => Count(Append(line, e), types) = Count(line, types)
  <1>. DEFINE S(q) == {i \in DOMAIN q : q[i].pkt.type \in types}
  <1>1. PICK all : all = Append(line, e)
    OBVIOUS
  <1>2. /\ DOMAIN line = 1 .. Len(line) /\ Len(line) \in Nat
        /\ DOMAIN all = 1 .. Len(line) + 1 /\ all[Len(line) + 1] = e
        /\ \A i \in 1 .. Len(line) : all[i] = line[i]
    BY <1>1
  <1>3. IsFiniteSet(S(line)) /\ Cardinality(S(line)) \in Nat
    <2>1. S(line) \subseteq 1 .. Len(line) /\ IsFiniteSet(1 .. Len(line))
      BY <1>2, FS_Interval
    <2>. QED
      BY <2>1, FS_Subset, FS_CardinalityType
  <1>4. e.pkt.type \in types => S(all) = S(line) \cup {Len(line) + 1}
    BY <1>2
  <1>5. e.pkt.type \notin types => S(all) = S(line)
    BY <1>2
  <1>6. Len(line) + 1 \notin S(line)
    BY <1>2
  <1>7. \A q : Count(q, types) = Cardinality(S(q)) % Modulus
    BY DEF Count
  <1>. HIDE DEF S
  <1>8. e.pkt.type \in types => Cardinality(S(all)) = Cardinality(S(line)) + 1
    BY <1>3, <1>4, <1>6, FS_AddElement
  <1>. QED
    BY <1>1, <1>3, <1>5, <1>7, <1>8, OneMore DEF add

-----------------------------------------------------------------------------
(* The two ends of a connection *)

\* What EndsAgree says of the statistics of two ends that saw the same line.
Agree(m, s, line) ==
    /\ m.byte_count = s.byte_count
    /\ s.req_count = add(m.req_count, Count(line, {"stream"}))
    /\ s.resp_count = add(m.resp_count, m.credit_received)
    /\ add(m.credit_sent, m.credit_received) = Count(line, {"credit"})

\* A port that has seen nothing since its reset has counted nothing.
Blank(s) == /\ s.req_count = 0 /\ s.resp_count = 0 /\ s.byte_count = 0
            /\ s.credit_sent = 0 /\ s.credit_received = 0
BlankAtFirst == \A c \in Connections : /\ passed["master"][c] = << >> => Blank(master[c])
                                       /\ passed["slave"][c] = << >> => Blank(slave[c])

Item == [at : Word, pkt : Packet]

LEMMA BlankAgree ==
    ASSUME NEW m, NEW s, Blank(m), Blank(s)
    PROVE  Agree(m, s, << >>)
  <1>1. \A types : Count(<< >>, types) = 0
    <2>1. ASSUME NEW types
          PROVE  {i \in DOMAIN << >> : << >>[i].pkt.type \in types} = {}
      OBVIOUS
    <2>2. Cardinality({}) = 0 /\ 0 % Modulus = 0
      BY FS_EmptySet, ModulusAssumption
    <2>. QED
      BY <2>1, <2>2 DEF Count
  <1>2. add(0, 0) = 0
    BY ModulusAssumption DEF add
  <1>. QED
    BY <1>1, <1>2 DEF Agree, Blank

\* What the ends count of a packet that goes down: recording a delay counts
\* nothing.
LEMMA RecordCounts ==
    ASSUME NEW s \in Stats, NEW d
    PROVE  LET t == recordDelay(s, d)
           IN /\ t.req_count = s.req_count /\ t.resp_count = s.resp_count
              /\ t.byte_count = s.byte_count /\ t.credit_sent = s.credit_sent
              /\ t.credit_received = s.credit_received
  BY DEF recordDelay, Stats

LEMMA SlaveRecvCounts ==
    ASSUME TypeOK, NEW s \in Stats, NEW p \in Packet
    PROVE  LET t == slaveRecv(s, p)
           IN /\ t.resp_count = s.resp_count
              /\ t.req_count = IF p.type \in {"request", "stream"} THEN add(s.req_count, 1)
                               ELSE s.req_count
              /\ t.byte_count = IF p.type = "request" THEN add(s.byte_count, p.bytes)
                                ELSE s.byte_count
  <1>. DEFINE t == IF p.original # None /\ p.type # "credit"
                   THEN recordDelay(s, getDelayCycles(p)) ELSE s
  <1>1. getDelayCycles(p) \in Word
    <2>1. cycle \in Word /\ p.src_cycle \in Word
      BY CycleType DEF Packet
    <2>. QED
      BY <2>1, ModulusAssumption DEF getDelayCycles, Word, UINT64_MAX
  <1>2. /\ t \in Stats /\ t.req_count = s.req_count /\ t.resp_count = s.resp_count
        /\ t.byte_count = s.byte_count
    BY <1>1, RecordDelayType, RecordCounts
  <1>3. slaveRecv(s, p) = CASE p.type = "request" -> [t EXCEPT !.req_count = add(@, 1),
                                                               !.byte_count = add(@, p.bytes)]
                            [] p.type = "stream" -> [t EXCEPT !.req_count = add(@, 1)]
                            [] OTHER -> t
    BY DEF slaveRecv
  <1>. HIDE DEF t
  <1>. QED
    BY <1>2, <1>3 DEF Stats

LEMMA MasterRecvCounts ==
    ASSUME TypeOK, NEW s \in Stats, NEW p \in Packet, p.type \in {"response", "credit"}
    PROVE  LET t == masterRecv(s, p)
           IN /\ t.req_count = s.req_count /\ t.credit_sent = s.credit_sent
              /\ p.type = "response" =>
                    /\ t.resp_count = add(s.resp_count, 1)
                    /\ t.byte_count = add(s.byte_count, p.bytes)
                    /\ t.credit_received = s.credit_received
              /\ p.type = "credit" =>
                    /\ t.resp_count = s.resp_count /\ t.byte_count = s.byte_count
                    /\ t.credit_received = add(s.credit_received, 1)
  <1>1. p.bytes \in Word
    BY Words DEF Packet
  <1>2. CASE p.type = "response"
    <2>. DEFINE t == [s EXCEPT !.resp_count = add(@, 1), !.byte_count = add(@, p.bytes)]
    <2>1. /\ t \in Stats /\ t.req_count = s.req_count /\ t.credit_sent = s.credit_sent
          /\ t.resp_count = add(s.resp_count, 1) /\ t.byte_count = add(s.byte_count, p.bytes)
          /\ t.credit_received = s.credit_received
      BY <1>1, CountOneType DEF Stats
    <2>2. masterRecv(s, p) = IF p.original = None THEN t ELSE recordDelay(t, e2eDelay(p))
      BY <1>2 DEF masterRecv
    <2>. HIDE DEF t
    <2>. QED
      BY <1>2, <2>1, <2>2, RecordCounts
  <1>3. CASE p.type = "credit"
    BY <1>3 DEF masterRecv, Stats
  <1>. QED
    BY <1>2, <1>3

LEMMA CountersAreWords ==
    ASSUME NEW s \in Stats
    PROVE  /\ s.req_count \in Word /\ s.resp_count \in Word /\ s.byte_count \in Word
           /\ s.credit_sent \in Word /\ s.credit_received \in Word
  BY DEF Stats

\* Both ends agree after a packet if they did before.
LEMMA DownAgree ==
    ASSUME TypeOK, NEW m \in Stats, NEW s \in Stats, NEW p \in Packet, NEW line \in Seq(Item),
           NEW e \in Item, e.pkt = p, p.type \in {"request", "stream", "credit"},
           Agree(m, s, line)
    PROVE  Agree(masterSend(m, p), slaveRecv(s, p), Append(line, e))
  <1>1. PICK n, t, all : n = masterSend(m, p) /\ t = slaveRecv(s, p) /\ all = Append(line, e)
    OBVIOUS
  <1>2. /\ t.resp_count = s.resp_count
        /\ t.req_count = IF p.type \in {"request", "stream"} THEN add(s.req_count, 1)
                         ELSE s.req_count
        /\ t.byte_count = IF p.type = "request" THEN add(s.byte_count, p.bytes)
                          ELSE s.byte_count
    BY <1>1, SlaveRecvCounts
  <1>3. /\ n.resp_count = m.resp_count /\ n.credit_received = m.credit_received
        /\ n.req_count = IF p.type = "request" THEN add(m.req_count, 1) ELSE m.req_count
        /\ n.byte_count = IF p.type = "request" THEN add(m.byte_count, p.bytes)
                          ELSE m.byte_count
        /\ n.credit_sent = IF p.type = "credit" THEN add(m.credit_sent, 1) ELSE m.credit_sent
    BY <1>1 DEF masterSend, Stats
  <1>4. PICK streams, credits :
           streams = Count(line, {"stream"}) /\ credits = Count(line, {"credit"})
    OBVIOUS
  <1>5. /\ streams \in Word
        /\ Count(all, {"stream"}) = IF p.type = "stream" THEN add(streams, 1) ELSE streams
        /\ Count(all, {"credit"}) = IF p.type = "credit" THEN add(credits, 1) ELSE credits
    BY <1>1, <1>4, CountAppend
  <1>6. /\ m.byte_count = s.byte_count /\ s.req_count = add(m.req_count, streams)
        /\ s.resp_count = add(m.resp_count, m.credit_received)
        /\ add(m.credit_sent, m.credit_received) = credits
    BY <1>4 DEF Agree
  <1>7. /\ add(add(m.req_count, 1), streams) = add(add(m.req_count, streams), 1)
        /\ add(m.req_count, add(streams, 1)) = add(add(m.req_count, streams), 1)
        /\ add(add(m.credit_sent, 1), m.credit_received)
              = add(add(m.credit_sent, m.credit_received), 1)
    BY <1>5, CountersAreWords, AddOne
  <1>8. Agree(n, t, all)
    BY <1>2, <1>3, <1>5, <1>6, <1>7 DEF Agree
  <1>. QED
    BY <1>1, <1>8

LEMMA UpAgree ==
    ASSUME TypeOK, NEW m \in Stats, NEW s \in Stats, NEW p \in Packet, NEW line \in Seq(Item),
           NEW e \in Item, e.pkt = p, p.type \in {"response", "credit"},
           p.type = "credit" => p.bytes = 0, Agree(m, s, line)
    PROVE  Agree(masterRecv(m, p), slaveSend(s, p), Append(line, e))
  <1>1. PICK n, t, all : n = masterRecv(m, p) /\ t = slaveSend(s, p) /\ all = Append(line, e)
    OBVIOUS
  <1>2. /\ n.req_count = m.req_count /\ n.credit_sent = m.credit_sent
        /\ p.type = "response" => /\ n.resp_count = add(m.resp_count, 1)
                                  /\ n.byte_count = add(m.byte_count, p.bytes)
                                  /\ n.credit_received = m.credit_received
        /\ p.type = "credit" => /\ n.resp_count = m.resp_count /\ n.byte_count = m.byte_count
                                /\ n.credit_received = add(m.credit_received, 1)
    BY <1>1, MasterRecvCounts
  <1>3. /\ t.req_count = s.req_count /\ t.resp_count = add(s.resp_count, 1)
        /\ t.byte_count = add(s.byte_count, p.bytes)
    BY <1>1 DEF slaveSend, Stats
  <1>4. PICK streams, credits :
           streams = Count(line, {"stream"}) /\ credits = Count(line, {"credit"})
    OBVIOUS
  <1>5. /\ Count(all, {"stream"}) = streams
        /\ Count(all, {"credit"}) = IF p.type = "credit" THEN add(credits, 1) ELSE credits
    BY <1>1, <1>4, CountAppend
  <1>6. /\ m.byte_count = s.byte_count /\ s.req_count = add(m.req_count, streams)
        /\ s.resp_count = add(m.resp_count, m.credit_received)
        /\ add(m.credit_sent, m.credit_received) = credits
    BY <1>4 DEF Agree
  <1>7. /\ add(add(m.resp_count, 1), m.credit_received)
              = add(add(m.resp_count, m.credit_received), 1)
        /\ add(m.resp_count, add(m.credit_received, 1))
              = add(add(m.resp_count, m.credit_received), 1)
        /\ add(m.credit_sent, add(m.credit_received, 1))
              = add(add(m.credit_sent, m.credit_received), 1)
        /\ add(s.byte_count, 0) = s.byte_count
    <2>1. 0 \in Word
      BY Words
    <2>. QED
      BY <2>1, CountersAreWords, AddOne
  <1>8. Agree(n, t, all)
    BY <1>2, <1>3, <1>5, <1>6, <1>7 DEF Agree
  <1>. QED
    BY <1>1, <1>8

\* What is appended to two lines does not hide that they differ.
LEMMA SameBefore ==
    ASSUME NEW q \in Seq(Item), NEW r \in Seq(Item), NEW e \in Item
    PROVE  /\ Append(q, e) = Append(r, e) => q = r
           /\ Append(q, e) # << >>
  <1>1. /\ Len(Append(q, e)) = Len(q) + 1 /\ Len(Append(r, e)) = Len(r) + 1
        /\ Len(q) \in Nat /\ Len(r) \in Nat
        /\ \A i \in 1 .. Len(q) : Append(q, e)[i] = q[i]
        /\ \A i \in 1 .. Len(r) : Append(r, e)[i] = r[i]
    OBVIOUS
  <1>2. ASSUME Append(q, e) = Append(r, e)
        PROVE  q = r
    <2>1. Len(q) = Len(r) /\ \A i \in 1 .. Len(q) : q[i] = r[i]
      BY <1>1, <1>2
    <2>. QED
      BY <2>1
  <1>. QED
    BY <1>1, <1>2

\* What the steps say of the packets they pass.
Proper(p) == /\ p.type = "request" => p.src_cycle <= cycle
             /\ p.type = "stream" => p.original = None
             /\ p.type = "credit" => p.bytes = 0

\* A step that passes a packet on connection c, down or up.
Passing(c, p) ==
    /\ Passes(c, p) /\ Proper(p)
    /\ \/ /\ p.type \in {"request", "stream", "credit"}
          /\ master' = [master EXCEPT ![c] = masterSend(@, p)]
          /\ slave' = [slave EXCEPT ![c] = slaveRecv(@, p)]
       \/ /\ p.type \in {"response", "credit"}
          /\ slave' = [slave EXCEPT ![c] = slaveSend(@, p)]
          /\ master' = [master EXCEPT ![c] = masterRecv(@, p)]

LEMMA PassingAgrees ==
    ASSUME TypeOK, BlankAtFirst, EndsAgree, NEW c \in Connections, NEW p \in Packet, Passing(c, p)
    PROVE  BlankAtFirst' /\ EndsAgree'
  <1>. DEFINE e == [at |-> cycle, pkt |-> p]
  <1>1. e \in Item /\ e.pkt = p
    BY CycleType DEF Item
  <1>. HIDE DEF e
  <1>2. /\ passed["master"] \in [Connections -> Seq(Item)]
        /\ passed["slave"] \in [Connections -> Seq(Item)]
        /\ master \in [Connections -> Stats] /\ slave \in [Connections -> Stats]
    BY DEF TypeOK, Item
  <1>3. /\ passed'["master"] = [passed["master"] EXCEPT ![c] = Append(@, e)]
        /\ passed'["slave"] = [passed["slave"] EXCEPT ![c] = Append(@, e)]
    BY DEF Passing, Passes, e
  <1>4. PICK q, r : q = passed["master"][c] /\ r = passed["slave"][c]
    OBVIOUS
  <1>5. /\ q \in Seq(Item) /\ r \in Seq(Item)
        /\ passed'["master"][c] = Append(q, e) /\ passed'["slave"][c] = Append(r, e)
    BY <1>2, <1>3, <1>4
  <1>6. ASSUME Append(q, e) = Append(r, e)
        PROVE  Agree(master'[c], slave'[c], Append(r, e))
    <2>1. q = r
      BY <1>1, <1>5, <1>6, SameBefore
    <2>2. Agree(master[c], slave[c], r) /\ master[c] \in Stats /\ slave[c] \in Stats
      BY <1>2, <1>4, <2>1 DEF EndsAgree, Agree
    <2>3. CASE /\ p.type \in {"request", "stream", "credit"}
               /\ master'[c] = masterSend(master[c], p) /\ slave'[c] = slaveRecv(slave[c], p)
      BY <1>1, <1>5, <2>2, <2>3, DownAgree
    <2>4. CASE /\ p.type \in {"response", "credit"} /\ Proper(p)
               /\ master'[c] = masterRecv(master[c], p) /\ slave'[c] = slaveSend(slave[c], p)
      BY <1>1, <1>5, <2>2, <2>4, UpAgree DEF Proper
    <2>. QED
      BY <1>2, <2>3, <2>4 DEF Passing
  <1>7. ASSUME NEW d \in Connections, d # c
        PROVE  /\ master'[d] = master[d] /\ slave'[d] = slave[d]
               /\ passed'["master"][d] = passed["master"][d]
               /\ passed'["slave"][d] = passed["slave"][d]
    BY <1>2, <1>3, <1>7 DEF Passing
  <1>8. BlankAtFirst'
    <2>1. passed'["master"][c] # << >> /\ passed'["slave"][c] # << >>
      BY <1>1, <1>5, SameBefore
    <2>. QED
      BY <1>7, <2>1 DEF BlankAtFirst
  <1>9. EndsAgree'
    BY <1>5, <1>6, <1>7 DEF EndsAgree, Agree
  <1>. QED
    BY <1>8, <1>9

\* A side that is reset has counted nothing, and agrees with one that has not.
LEMMA ResetAgrees ==
    ASSUME TypeOK, BlankAtFirst, EndsAgree, ResetInitiator \/ ResetTarget
    PROVE  BlankAtFirst' /\ EndsAgree'
  <1>1. Blank(cleared)
    BY DEF Blank, cleared
  <1>2. /\ passed["master"] \in [Connections -> Seq(Item)]
        /\ passed["slave"] \in [Connections -> Seq(Item)]
        /\ passed \in [{"master", "slave"} -> [Connections -> Seq(Item)]]
    BY DEF TypeOK, Item
  <1>3. ASSUME NEW c \in Connections
        PROVE  /\ \/ passed'["master"][c] = << >> /\ master'[c] = cleared
                  \/ passed'["master"][c] = passed["master"][c] /\ master'[c] = master[c]
               /\ \/ passed'["slave"][c] = << >> /\ slave'[c] = cleared
                  \/ passed'["slave"][c] = passed["slave"][c] /\ slave'[c] = slave[c]
               /\ passed'["slave"][c] = << >> \/ passed'["master"][c] = << >>
    BY <1>2 DEF ResetInitiator, ResetTarget
  <1>4. BlankAtFirst'
    BY <1>1, <1>3 DEF BlankAtFirst
  <1>5. ASSUME NEW c \in Connections, passed'["slave"][c] = passed'["master"][c]
        PROVE  Agree(master'[c], slave'[c], passed'["slave"][c])
    <2>1. passed'["slave"][c] = << >> /\ passed'["master"][c] = << >>
      BY <1>3, <1>5
    <2>2. Blank(master'[c]) /\ Blank(slave'[c])
      BY <1>4, <2>1 DEF BlankAtFirst
    <2>3. PICK m, s : m = master'[c] /\ s = slave'[c]
      OBVIOUS
    <2>. QED
      BY <2>1, <2>2, <2>3, BlankAgree
  <1>. QED
    BY <1>4, <1>5 DEF EndsAgree, Agree

LEMMA StepKinds ==
    ASSUME TypeOK, [Next]_vars
    PROVE  \/ UNCHANGED <<master, slave, passed>>
           \/ ResetInitiator \/ ResetTarget
           \/ \E c \in Connections, p \in Packet : Passing(c, p)
  <1>1. /\ cycle \in Word /\ \A src \in 0 .. cycle : src \in Word
        /\ Lengths \cup Credits \cup Garbage \subseteq Word
    BY CycleType, Words, ModulusAssumption DEF Word, UINT64_MAX
  <1>2. ASSUME NEW c \in Connections, NEW bytes \in Lengths, NEW src \in 0 .. cycle,
               NEW a \in BOOLEAN, NEW original \in {None, src},
               SendRequest(c, bytes, src, original, a)
        PROVE  \E p \in Packet : Passing(c, p)
    <2>1. PICK p : p = [type |-> "request", bytes |-> bytes, credits |-> 0, src_cycle |-> src,
                        original |-> original]
      OBVIOUS
    <2>2. p \in Packet /\ p.type = "request" /\ p.src_cycle <= cycle
      BY <1>1, <2>1 DEF Packet
    <2>. QED
      BY <1>2, <2>1, <2>2 DEF SendRequest, Down, Passing, Proper
  <1>3. ASSUME NEW c \in Connections, NEW bytes \in Lengths, SendStream(c, bytes)
        PROVE  \E p \in Packet : Passing(c, p)
    <2>1. PICK p : p = [type |-> "stream", bytes |-> bytes, credits |-> 0,
                        src_cycle |-> cycle, original |-> None]
      OBVIOUS
    <2>2. p \in Packet /\ p.type = "stream" /\ p.original = None
      BY <1>1, <2>1 DEF Packet
    <2>. QED
      BY <1>3, <2>1, <2>2 DEF SendStream, Down, Passing, Proper
  <1>4. ASSUME NEW c \in Connections, NEW credits \in Credits,
               SendCredit(c, credits) \/ ReturnCredit(c, credits)
        PROVE  \E p \in Packet : Passing(c, p)
    <2>1. PICK p : p = [type |-> "credit", bytes |-> 0, credits |-> credits,
                        src_cycle |-> cycle, original |-> None]
      OBVIOUS
    <2>2. p \in Packet /\ p.type = "credit" /\ p.bytes = 0
      BY <1>1, <2>1 DEF Packet
    <2>. QED
      BY <1>4, <2>1, <2>2 DEF SendCredit, ReturnCredit, Down, Up, Passing, Proper
  <1>5. ASSUME NEW c \in Connections, NEW d \in Connections, NEW src \in 0 .. cycle,
               NEW bytes \in Lengths, SendResponse(c, d, src, bytes)
        PROVE  \E p \in Packet : Passing(d, p)
    <2>1. PICK p : p = [type |-> "response", bytes |-> bytes, credits |-> 0,
                        src_cycle |-> cycle, original |-> src]
      OBVIOUS
    <2>2. p \in Packet /\ p.type = "response"
      BY <1>1, <2>1 DEF Packet
    <2>. QED
      BY <1>5, <2>1, <2>2 DEF SendResponse, Up, Passing, Proper
  <1>6. ASSUME NEW c \in Connections, NEW d \in Connections, NEW src \in 0 .. cycle,
               NEW read \in Garbage, SendStaleResponse(c, d, src, read)
        PROVE  \E p \in Packet : Passing(d, p)
    <2>1. PICK p : p = [type |-> "response", bytes |-> 0, credits |-> 0,
                        src_cycle |-> cycle, original |-> read]
      OBVIOUS
    <2>2. p \in Packet /\ p.type = "response"
      BY <1>1, <2>1 DEF Packet
    <2>. QED
      BY <1>6, <2>1, <2>2 DEF SendStaleResponse, Up, Passing, Proper
  <1>7. CASE UNCHANGED vars \/ Wait
    BY <1>7 DEF vars, Wait
  <1>. QED
    BY <1>2, <1>3, <1>4, <1>5, <1>6, <1>7 DEF Next

\* The two ends of a connection that started counting together agree, for any
\* number of connections and packets and any word size: what one updateStats
\* counts the other counts as well, whether or not the counters wrap.
THEOREM EndsStayInAgreement == Spec => []EndsAgree
  <1>1. Init => BlankAtFirst /\ EndsAgree
    <2>. SUFFICES ASSUME Init
                  PROVE  BlankAtFirst /\ EndsAgree
      OBVIOUS
    <2>1. Blank(cleared)
      BY DEF Blank, cleared
    <2>2. \A c \in Connections : /\ master[c] = cleared /\ slave[c] = cleared
                                 /\ passed["master"][c] = << >> /\ passed["slave"][c] = << >>
      BY DEF Init
    <2>. QED
      BY <2>1, <2>2, BlankAgree DEF BlankAtFirst, EndsAgree, Agree
  <1>2. ASSUME TypeOK, BlankAtFirst, EndsAgree, [Next]_vars
        PROVE  BlankAtFirst' /\ EndsAgree'
    <2>1. CASE UNCHANGED <<master, slave, passed>>
      BY <1>2, <2>1 DEF BlankAtFirst, EndsAgree
    <2>. QED
      BY <1>2, <2>1, PassingAgrees, ResetAgrees, StepKinds
  <1>3. TypeOK /\ BlankAtFirst /\ EndsAgree /\ [Next]_vars => (BlankAtFirst /\ EndsAgree)'
    BY <1>2
  <1>. QED
    BY <1>1, <1>3, TypeCorrect, PTL DEF Spec

-----------------------------------------------------------------------------
(* The statistics of one port *)

IsLeast(v, A) == v \in A /\ \A y \in A : v <= y
IsGreatest(v, A) == v \in A /\ \A y \in A : v >= y

\* What TotalsExact says of the sum, of one port and what passed it.
Exact(side, s, line) ==
    /\ s.byte_count = SumFunction(Bytes(line)) % Modulus
    /\ s.total_delay = SumFunction(Delays(side, line)) % Modulus
    /\ IsLeast(s.min_delay, Range(Delays(side, line)) \cup {UINT64_MAX})
    /\ IsGreatest(s.max_delay, Range(Delays(side, line)) \cup {0})

PortsExact == \A c \in Connections : /\ Exact("master", master[c], passed["master"][c])
                                     /\ Exact("slave", slave[c], passed["slave"][c])

\* A sum of two numbers wraps as the sum of what is left of them.
LEMMA AddSums ==
    ASSUME NEW a \in Nat, NEW b \in Nat
    PROVE  add(a % Modulus, b % Modulus) = (a + b) % Modulus
  <1>1. PICK p, q : p = a \div Modulus /\ q = a % Modulus
    OBVIOUS
  <1>2. PICK r, s : r = b \div Modulus /\ s = b % Modulus
    OBVIOUS
  <1>3. /\ p \in Int /\ q \in 0 .. Modulus - 1 /\ a = (Modulus * p) + q
        /\ r \in Int /\ s \in 0 .. Modulus - 1 /\ b = (Modulus * r) + s
        /\ Modulus \in Nat \ {0}
    BY <1>1, <1>2, Quotient, ModulusAssumption
  <1>4. CASE q + s < Modulus
    <2>1. a + b = (Modulus * (p + r)) + (q + s)
      BY <1>3
    <2>2. PICK u, v : u = p + r /\ v = q + s
      OBVIOUS
    <2>3. u \in Int /\ v \in Int /\ 0 <= v /\ v < Modulus
      BY <1>3, <1>4, <2>2
    <2>4. ((Modulus * u) + v) % Modulus = v
      BY <2>3, RemainderOf, Zenon
    <2>5. v % Modulus = v
      BY <1>3, <2>3
    <2>6. a + b = (Modulus * u) + v
      BY <2>1, <2>2
    <2>. QED
      BY <1>1, <1>2, <2>2, <2>4, <2>5, <2>6 DEF add
  <1>5. CASE q + s >= Modulus
    <2>1. Modulus * (p + r + 1) = (Modulus * (p + r)) + Modulus
      BY <1>3
    <2>2. a + b = (Modulus * (p + r + 1)) + (q + s - Modulus)
      BY <1>3, <2>1
    <2>3. PICK u, v : u = p + r + 1 /\ v = q + s - Modulus
      OBVIOUS
    <2>4. u \in Int /\ v \in Int /\ 0 <= v /\ v < Modulus
      BY <1>3, <1>5, <2>3
    <2>5. ((Modulus * u) + v) % Modulus = v
      BY <2>4, RemainderOf, Zenon
    <2>6. (q + s) % Modulus = v
      BY <1>3, <2>3, <2>4
    <2>7. a + b = (Modulus * u) + v
      BY <2>2, <2>3
    <2>. QED
      BY <1>1, <1>2, <2>5, <2>6, <2>7 DEF add
  <1>. QED
    BY <1>3, <1>4, <1>5

LEMMA AddSum ==
    ASSUME NEW a \in Nat, NEW b \in Word
    PROVE  add(a % Modulus, b) = (a + b) % Modulus
  <1>1. b \in Nat /\ b % Modulus = b
    BY ModulusAssumption DEF Word, UINT64_MAX
  <1>. QED
    BY <1>1, AddSums

\* The delays and bytes of a line are numbers, finitely many.
LEMMA LineType ==
    ASSUME NEW side, NEW line \in Seq(Item)
    PROVE  /\ DOMAIN Delays(side, line) = {i \in 1 .. Len(line) : Measures(side, line[i])}
           /\ IsFiniteSet(DOMAIN Delays(side, line))
           /\ Delays(side, line) \in [DOMAIN Delays(side, line) -> Word]
           /\ IsFiniteSet(1 .. Len(line))
           /\ Bytes(line) \in [1 .. Len(line) -> Word]
           /\ \A e \in Item : /\ BytesOf(e) \in Word
                              /\ Measures(side, e) => DelayOf(side, e) \in Word
  <1>1. /\ Len(line) \in Nat /\ DOMAIN line = 1 .. Len(line)
        /\ \A i \in 1 .. Len(line) : line[i] \in Item
    OBVIOUS
  <1>2. ASSUME NEW e \in Item
        PROVE  /\ BytesOf(e) \in Word
               /\ Measures(side, e) => DelayOf(side, e) \in Word
    <2>1. /\ e.at \in Word /\ e.pkt.src_cycle \in Word /\ e.pkt.original \in Word \cup {None}
          /\ e.pkt.bytes \in Word
      BY <1>2, Words DEF Item, Packet
    <2>2. Word \subseteq Int /\ Modulus \in Nat \ {0} /\ Word = 0 .. Modulus - 1
      BY ModulusAssumption DEF Word, UINT64_MAX
    <2>3. BytesOf(e) \in Word
      BY <2>1, Words DEF BytesOf
    <2>4. \A n \in Int : n % Modulus \in Word
      BY <2>2
    <2>5. ASSUME Measures(side, e)
          PROVE  DelayOf(side, e) \in Word
      <3>1. PICK from : from = IF side = "slave" THEN e.pkt.src_cycle ELSE e.pkt.original
        OBVIOUS
      <3>2. from \in Word
        BY <2>1, <2>5, <3>1 DEF Measures
      <3>3. e.at - from \in Int
        BY <2>1, <2>2, <3>2
      <3>4. DelayOf(side, e) = (e.at - from) % Modulus
        BY <3>1 DEF DelayOf
      <3>. QED
        BY <2>4, <3>3, <3>4
    <2>. QED
      BY <2>3, <2>5
  <1>3. DOMAIN Delays(side, line) = {i \in 1 .. Len(line) : Measures(side, line[i])}
    BY <1>1 DEF Delays
  <1>4. Delays(side, line) \in [DOMAIN Delays(side, line) -> Word]
    BY <1>1, <1>2 DEF Delays
  <1>5. Bytes(line) \in [1 .. Len(line) -> Word]
    BY <1>1, <1>2 DEF Bytes
  <1>6. IsFiniteSet(1 .. Len(line))
    BY <1>1, FS_Interval
  <1>7. IsFiniteSet(DOMAIN Delays(side, line))
    BY <1>3, <1>6, FS_Subset
  <1>. QED
    BY <1>2, <1>3, <1>4, <1>5, <1>6, <1>7

LEMMA WordIsNat == Word \subseteq Nat /\ \A S, f : f \in [S -> Word] => f \in [S -> Nat]
  <1>1. Word \subseteq Nat
    BY ModulusAssumption DEF Word, UINT64_MAX
  <1>. QED
    BY <1>1

\* A packet more adds its bytes, and its delay if it is measured.
LEMMA LineAppend ==
    ASSUME NEW side, NEW line \in Seq(Item), NEW e \in Item
    PROVE  LET all == Append(line, e)
           IN /\ SumFunction(Bytes(line)) \in Nat /\ SumFunction(Delays(side, line)) \in Nat
              /\ SumFunction(Bytes(all)) = SumFunction(Bytes(line)) + BytesOf(e)
              /\ Measures(side, e) =>
                    /\ SumFunction(Delays(side, all))
                          = SumFunction(Delays(side, line)) + DelayOf(side, e)
                    /\ Range(Delays(side, all))
                          = Range(Delays(side, line)) \cup {DelayOf(side, e)}
              /\ ~Measures(side, e) => Delays(side, all) = Delays(side, line)
  <1>1. PICK all, n : all = Append(line, e) /\ n = Len(line)
    OBVIOUS
  <1>2. /\ all \in Seq(Item) /\ n \in Nat /\ Len(all) = n + 1
        /\ DOMAIN all = (1 .. n) \cup {n + 1} /\ DOMAIN line = 1 .. n
        /\ all[n + 1] = e /\ \A i \in 1 .. n : all[i] = line[i] /\ i # n + 1
        /\ 1 .. n + 1 = (1 .. n) \cup {n + 1} /\ n + 1 \notin 1 .. n
    BY <1>1
  <1>3. PICK D, d, a : /\ D = DOMAIN Delays(side, line)
                       /\ d = Delays(side, line) /\ a = Delays(side, all)
    OBVIOUS
  <1>4. PICK b, c : b = Bytes(line) /\ c = Bytes(all)
    OBVIOUS
  <1>5. /\ D = {i \in 1 .. n : Measures(side, line[i])} /\ IsFiniteSet(D)
        /\ d \in [D -> Nat] /\ IsFiniteSet(1 .. n) /\ b \in [1 .. n -> Nat]
    BY <1>1, <1>3, <1>4, LineType, WordIsNat
  <1>6. /\ DOMAIN a = {i \in 1 .. n + 1 : Measures(side, all[i])}
        /\ a \in [DOMAIN a -> Nat] /\ c \in [1 .. n + 1 -> Nat]
    <2>1. /\ DOMAIN a = {i \in 1 .. Len(all) : Measures(side, all[i])}
          /\ a \in [DOMAIN a -> Word] /\ c \in [1 .. Len(all) -> Word]
      BY <1>2, <1>3, <1>4, LineType
    <2>. QED
      BY <1>2, <2>1, WordIsNat
  <1>7. SumFunction(b) \in Nat /\ SumFunction(d) \in Nat
    BY <1>5, SumType DEF Numbers
  <1>8. SumFunction(c) = SumFunction(b) + BytesOf(e)
    <2>1. (\A i \in 1 .. n : b[i] = c[i]) /\ c[n + 1] = BytesOf(e)
      BY <1>2, <1>4 DEF Bytes
    <2>2. c \in [(1 .. n) \cup {n + 1} -> Nat]
      BY <1>2, <1>6
    <2>3. Numbers(b) /\ Numbers(c) /\ Joins(c, n + 1, b)
      <3>1. IsFiniteSet((1 .. n) \cup {n + 1})
        BY <1>5, FS_AddElement
      <3>2. DOMAIN b = 1 .. n /\ DOMAIN c = (1 .. n) \cup {n + 1}
        BY <1>5, <2>2
      <3>. QED
        BY <1>2, <1>5, <2>1, <2>2, <3>1, <3>2 DEF Numbers, Joins
    <2>4. SumFunction(c) = SumFunction(b) + c[n + 1]
      BY <2>3, SumMore
    <2>. QED
      BY <2>1, <2>4
  <1>9. \A i \in D : i # n + 1 /\ i \in DOMAIN a /\ a[i] = d[i]
    BY <1>2, <1>3, <1>5 DEF Delays
  <1>10. ASSUME Measures(side, e)
         PROVE  /\ SumFunction(a) = SumFunction(d) + DelayOf(side, e)
                /\ Range(a) = Range(d) \cup {DelayOf(side, e)}
    <2>1. DOMAIN a = D \cup {n + 1} /\ n + 1 \notin D
      BY <1>2, <1>5, <1>6, <1>10
    <2>2. a[n + 1] = DelayOf(side, e)
      BY <1>2, <1>3, <1>10 DEF Delays
    <2>3. a \in [D \cup {n + 1} -> Nat] /\ \A i \in D : d[i] = a[i]
      BY <1>6, <1>9, <2>1
    <2>4. Numbers(d) /\ Numbers(a) /\ Joins(a, n + 1, d)
      <3>1. IsFiniteSet(D \cup {n + 1})
        BY <1>5, FS_AddElement
      <3>2. DOMAIN d = D
        BY <1>5
      <3>. QED
        BY <1>5, <2>1, <2>3, <3>1, <3>2 DEF Numbers, Joins
    <2>5. SumFunction(a) = SumFunction(d) + a[n + 1]
      BY <2>4, SumMore
    <2>6. Range(a) = Range(d) \cup {a[n + 1]}
      BY <2>4 DEF Range, Joins
    <2>. QED
      BY <2>2, <2>5, <2>6
  <1>11. ASSUME ~Measures(side, e)
         PROVE  a = d
    <2>1. DOMAIN a = D
      BY <1>2, <1>5, <1>6, <1>11
    <2>. QED
      BY <1>5, <1>6, <1>9, <2>1
  <1>12. SumFunction(Bytes(all)) = SumFunction(Bytes(line)) + BytesOf(e)
    BY <1>4, <1>8
  <1>. QED
    BY <1>1, <1>3, <1>4, <1>7, <1>12, <1>10, <1>11

\* What a port adds to its statistics for one packet.
Notes(side, s, t, e) ==
    /\ t.byte_count = add(s.byte_count, BytesOf(e))
    /\ Measures(side, e) => /\ t.total_delay = add(s.total_delay, DelayOf(side, e))
                            /\ t.min_delay = lesser(s.min_delay, DelayOf(side, e))
                            /\ t.max_delay = greater(s.max_delay, DelayOf(side, e))
    /\ ~Measures(side, e) => /\ t.total_delay = s.total_delay
                             /\ t.min_delay = s.min_delay /\ t.max_delay = s.max_delay

LEMMA LesserGreater ==
    ASSUME NEW A, A \subseteq Word, NEW v \in Word, NEW d \in Word
    PROVE  /\ IsLeast(v, A) => IsLeast(lesser(v, d), A \cup {d})
           /\ IsGreatest(v, A) => IsGreatest(greater(v, d), A \cup {d})
  <1>1. Word \subseteq Int
    BY DEF Word
  <1>. QED
    BY <1>1 DEF IsLeast, IsGreatest, lesser, greater

LEMMA NotesExact ==
    ASSUME NEW side, NEW s \in Stats, NEW t, NEW line \in Seq(Item), NEW e \in Item,
           Notes(side, s, t, e), Exact(side, s, line)
    PROVE  Exact(side, t, Append(line, e))
  <1>1. PICK all : all = Append(line, e)
    OBVIOUS
  <1>2. PICK b, m, D, M : /\ b = SumFunction(Bytes(line))
                          /\ m = SumFunction(Delays(side, line))
                          /\ D = Range(Delays(side, line)) /\ M = Range(Delays(side, all))
    OBVIOUS
  <1>3. BytesOf(e) \in Word /\ (Measures(side, e) => DelayOf(side, e) \in Word)
    BY LineType
  <1>4. /\ b \in Nat /\ m \in Nat
        /\ SumFunction(Bytes(all)) = b + BytesOf(e)
        /\ Measures(side, e) => /\ SumFunction(Delays(side, all)) = m + DelayOf(side, e)
                                /\ M = D \cup {DelayOf(side, e)}
        /\ ~Measures(side, e) => SumFunction(Delays(side, all)) = m /\ M = D
    BY <1>1, <1>2, LineAppend
  <1>5. D \subseteq Word
    <2>1. PICK f : f = Delays(side, line)
      OBVIOUS
    <2>2. f \in [DOMAIN f -> Word]
      BY <2>1, LineType
    <2>3. Range(f) \subseteq Word
      BY <2>2 DEF Range
    <2>. QED
      BY <1>2, <2>1, <2>3
  <1>6. /\ s.byte_count = b % Modulus /\ s.total_delay = m % Modulus
        /\ IsLeast(s.min_delay, D \cup {UINT64_MAX}) /\ IsGreatest(s.max_delay, D \cup {0})
    BY <1>2 DEF Exact
  <1>7. t.byte_count = (b + BytesOf(e)) % Modulus
    <2>1. t.byte_count = add(b % Modulus, BytesOf(e))
      BY <1>6 DEF Notes
    <2>. QED
      BY <1>3, <1>4, <2>1, AddSum
  <1>8. ASSUME Measures(side, e)
        PROVE  /\ t.total_delay = (m + DelayOf(side, e)) % Modulus
               /\ IsLeast(t.min_delay, M \cup {UINT64_MAX})
               /\ IsGreatest(t.max_delay, M \cup {0})
    <2>1. PICK d \in Word : d = DelayOf(side, e)
      BY <1>3, <1>8
    <2>2. /\ t.total_delay = add(m % Modulus, d)
          /\ t.min_delay = lesser(s.min_delay, d) /\ t.max_delay = greater(s.max_delay, d)
          /\ M = D \cup {d}
      BY <1>4, <1>6, <1>8, <2>1 DEF Notes
    <2>3. t.total_delay = (m + d) % Modulus
      BY <1>4, <2>2, AddSum
    <2>4. PICK A, B : A = D \cup {UINT64_MAX} /\ B = D \cup {0}
      OBVIOUS
    <2>5. A \subseteq Word /\ B \subseteq Word /\ s.min_delay \in Word /\ s.max_delay \in Word
      BY <1>5, <2>4, Words DEF Stats
    <2>6. /\ IsLeast(lesser(s.min_delay, d), A \cup {d})
          /\ IsGreatest(greater(s.max_delay, d), B \cup {d})
      BY <1>6, <2>4, <2>5, LesserGreater
    <2>7. M \cup {UINT64_MAX} = A \cup {d} /\ M \cup {0} = B \cup {d}
      BY <2>2, <2>4
    <2>. QED
      BY <2>1, <2>2, <2>3, <2>6, <2>7
  <1>9. ASSUME ~Measures(side, e)
        PROVE  /\ t.total_delay = m % Modulus
               /\ IsLeast(t.min_delay, M \cup {UINT64_MAX})
               /\ IsGreatest(t.max_delay, M \cup {0})
    BY <1>4, <1>6, <1>9 DEF Notes
  <1>10. Exact(side, t, all)
    BY <1>2, <1>4, <1>7, <1>8, <1>9 DEF Exact
  <1>. QED
    BY <1>1, <1>10

LEMMA RecordNotes ==
    ASSUME NEW s \in Stats, NEW d
    PROVE  LET t == recordDelay(s, d)
           IN /\ t.total_delay = add(s.total_delay, d)
              /\ t.min_delay = lesser(s.min_delay, d)
              /\ t.max_delay = greater(s.max_delay, d)
              /\ t.byte_count = s.byte_count
  BY DEF recordDelay, Stats

LEMMA DownNotes ==
    ASSUME TypeOK, NEW s \in Stats, NEW p \in Packet, NEW e \in Item,
           e.pkt = p, e.at = cycle, p.type \in {"request", "stream", "credit"}, Proper(p)
    PROVE  /\ Notes("master", s, masterSend(s, p), e)
           /\ Notes("slave", s, slaveRecv(s, p), e)
  <1>1. s.byte_count \in Word /\ add(s.byte_count, 0) = s.byte_count
    <2>1. s.byte_count \in Word /\ 0 \in Word
      BY CountersAreWords, Words
    <2>. QED
      BY <2>1, AddOne
  <1>2. /\ p.type = "request" => BytesOf(e) = p.bytes
        /\ p.type # "request" => BytesOf(e) = 0
    BY DEF BytesOf, Proper
  <1>3. ~Measures("master", e)
    BY DEF Measures
  <1>4. Measures("slave", e) <=> p.original # None /\ p.type = "request"
    BY DEF Measures
  <1>5. Notes("master", s, masterSend(s, p), e)
    <2>1. PICK t : t = masterSend(s, p)
      OBVIOUS
    <2>2. /\ t.total_delay = s.total_delay /\ t.min_delay = s.min_delay
          /\ t.max_delay = s.max_delay
          /\ p.type = "request" => t.byte_count = add(s.byte_count, p.bytes)
          /\ p.type # "request" => t.byte_count = s.byte_count
      BY <2>1 DEF masterSend, Stats
    <2>3. Notes("master", s, t, e)
      BY <1>1, <1>2, <1>3, <2>2 DEF Notes
    <2>. QED
      BY <2>1, <2>3
  <1>6. Notes("slave", s, slaveRecv(s, p), e)
    <2>1. PICK d, r : d = getDelayCycles(p) /\ r = recordDelay(s, d)
      OBVIOUS
    <2>2. d \in Word /\ (p.type = "request" => d = DelayOf("slave", e))
      <3>1. cycle \in Word /\ p.src_cycle \in Word /\ Modulus \in Nat \ {0}
        BY CycleType, ModulusAssumption DEF Packet
      <3>2. p.type = "request" => p.src_cycle <= cycle
        BY DEF Proper
      <3>3. DelayOf("slave", e) = (cycle - p.src_cycle) % Modulus
        BY DEF DelayOf
      <3>. QED
        BY <2>1, <3>1, <3>2, <3>3 DEF getDelayCycles, Word, UINT64_MAX
    <2>3. /\ r \in Stats /\ r.total_delay = add(s.total_delay, d)
          /\ r.min_delay = lesser(s.min_delay, d) /\ r.max_delay = greater(s.max_delay, d)
          /\ r.byte_count = s.byte_count
      BY <2>1, <2>2, RecordDelayType, RecordNotes
    <2>4. PICK u : u = IF p.original # None /\ p.type # "credit" THEN r ELSE s
      OBVIOUS
    <2>5. PICK t : t = slaveRecv(s, p)
      OBVIOUS
    <2>6. t = CASE p.type = "request" -> [u EXCEPT !.req_count = add(@, 1),
                                                   !.byte_count = add(@, p.bytes)]
                [] p.type = "stream" -> [u EXCEPT !.req_count = add(@, 1)]
                [] OTHER -> u
      BY <2>1, <2>4, <2>5 DEF slaveRecv
    <2>7. u \in Stats
      BY <2>3, <2>4
    <2>8. /\ t.total_delay = u.total_delay /\ t.min_delay = u.min_delay
          /\ t.max_delay = u.max_delay
          /\ p.type = "request" => t.byte_count = add(u.byte_count, p.bytes)
          /\ p.type # "request" => t.byte_count = u.byte_count
      BY <2>6, <2>7 DEF Stats
    <2>9. u.byte_count = s.byte_count /\ (Measures("slave", e) => u = r)
      BY <1>4, <2>3, <2>4
    <2>10. ~Measures("slave", e) => u = s
      BY <1>4, <2>4 DEF Proper
    <2>11. Measures("slave", e) => d = DelayOf("slave", e)
      BY <1>4, <2>2
    <2>12. Notes("slave", s, t, e)
      BY <1>1, <1>2, <2>3, <2>8, <2>9, <2>10, <2>11 DEF Notes
    <2>. QED
      BY <2>5, <2>12
  <1>. QED
    BY <1>5, <1>6

LEMMA UpNotes ==
    ASSUME TypeOK, NEW s \in Stats, NEW p \in Packet, NEW e \in Item,
           e.pkt = p, e.at = cycle, p.type \in {"response", "credit"}, Proper(p)
    PROVE  /\ Notes("slave", s, slaveSend(s, p), e)
           /\ Notes("master", s, masterRecv(s, p), e)
  <1>1. s.byte_count \in Word /\ add(s.byte_count, 0) = s.byte_count
    <2>1. s.byte_count \in Word /\ 0 \in Word
      BY CountersAreWords, Words
    <2>. QED
      BY <2>1, AddOne
  <1>2. BytesOf(e) = p.bytes /\ (p.type = "credit" => p.bytes = 0)
    BY DEF BytesOf, Proper
  <1>3. ~Measures("slave", e)
    BY DEF Measures
  <1>4. Measures("master", e) <=> p.original # None /\ p.type = "response"
    BY DEF Measures
  <1>5. Notes("slave", s, slaveSend(s, p), e)
    <2>1. PICK t : t = slaveSend(s, p)
      OBVIOUS
    <2>2. /\ t.total_delay = s.total_delay /\ t.min_delay = s.min_delay
          /\ t.max_delay = s.max_delay /\ t.byte_count = add(s.byte_count, p.bytes)
      BY <2>1 DEF slaveSend, Stats
    <2>3. Notes("slave", s, t, e)
      BY <1>2, <1>3, <2>2 DEF Notes
    <2>. QED
      BY <2>1, <2>3
  <1>6. Notes("master", s, masterRecv(s, p), e)
    <2>1. PICK t : t = masterRecv(s, p)
      OBVIOUS
    <2>2. CASE p.type = "credit"
      <3>1. /\ t.total_delay = s.total_delay /\ t.min_delay = s.min_delay
            /\ t.max_delay = s.max_delay /\ t.byte_count = s.byte_count
        BY <2>1, <2>2 DEF masterRecv, Stats
      <3>2. Notes("master", s, t, e)
        BY <1>1, <1>2, <1>4, <2>2, <3>1 DEF Notes
      <3>. QED
        BY <2>1, <3>2
    <2>3. CASE p.type = "response"
      <3>1. PICK u : u = [s EXCEPT !.resp_count = add(@, 1), !.byte_count = add(@, p.bytes)]
        OBVIOUS
      <3>2. /\ u \in Stats /\ u.byte_count = add(s.byte_count, p.bytes)
            /\ u.total_delay = s.total_delay /\ u.min_delay = s.min_delay
            /\ u.max_delay = s.max_delay
        <4>1. p.bytes \in Word
          BY Words DEF Packet
        <4>. QED
          BY <3>1, <4>1, CountOneType DEF Stats
      <3>3. PICK d : d = e2eDelay(p)
        OBVIOUS
      <3>4. t = IF p.original = None THEN u ELSE recordDelay(u, d)
        BY <2>1, <2>3, <3>1, <3>3 DEF masterRecv
      <3>5. d = DelayOf("master", e)
        BY <3>3 DEF DelayOf, e2eDelay
      <3>6. CASE p.original = None
        <4>1. Notes("master", s, t, e)
          BY <1>2, <1>4, <3>2, <3>4, <3>6 DEF Notes
        <4>. QED
          BY <2>1, <4>1
      <3>7. CASE p.original # None
        <4>1. PICK r : r = recordDelay(u, d)
          OBVIOUS
        <4>2. /\ r.total_delay = add(s.total_delay, d)
              /\ r.min_delay = lesser(s.min_delay, d)
              /\ r.max_delay = greater(s.max_delay, d)
              /\ r.byte_count = add(s.byte_count, p.bytes)
          BY <3>2, <4>1, RecordNotes
        <4>3. t = r
          BY <3>4, <3>7, <4>1
        <4>4. Notes("master", s, t, e)
          BY <1>2, <1>4, <2>3, <3>5, <3>7, <4>2, <4>3 DEF Notes
        <4>. QED
          BY <2>1, <4>4
      <3>. QED
        BY <3>6, <3>7
    <2>. QED
      BY <2>2, <2>3
  <1>. QED
    BY <1>5, <1>6

LEMMA PassingExact ==
    ASSUME TypeOK, PortsExact, NEW c \in Connections, NEW p \in Packet, Passing(c, p)
    PROVE  PortsExact'
  <1>. DEFINE e == [at |-> cycle, pkt |-> p]
  <1>1. e \in Item /\ e.pkt = p /\ e.at = cycle
    BY CycleType DEF Item
  <1>. HIDE DEF e
  <1>2. /\ passed["master"] \in [Connections -> Seq(Item)]
        /\ passed["slave"] \in [Connections -> Seq(Item)]
        /\ master \in [Connections -> Stats] /\ slave \in [Connections -> Stats]
    BY DEF TypeOK, Item
  <1>3. /\ passed'["master"] = [passed["master"] EXCEPT ![c] = Append(@, e)]
        /\ passed'["slave"] = [passed["slave"] EXCEPT ![c] = Append(@, e)]
    BY DEF Passing, Passes, e
  <1>4. PICK q, r, m, s : /\ q = passed["master"][c] /\ r = passed["slave"][c]
                          /\ m = master[c] /\ s = slave[c]
    OBVIOUS
  <1>5. /\ q \in Seq(Item) /\ r \in Seq(Item) /\ m \in Stats /\ s \in Stats
        /\ passed'["master"][c] = Append(q, e) /\ passed'["slave"][c] = Append(r, e)
    BY <1>2, <1>3, <1>4
  <1>6. Notes("master", m, master'[c], e) /\ Notes("slave", s, slave'[c], e)
    <2>1. CASE /\ p.type \in {"request", "stream", "credit"}
               /\ master'[c] = masterSend(m, p) /\ slave'[c] = slaveRecv(s, p)
      <3>1. Proper(p)
        BY DEF Passing
      <3>. QED
        BY <1>1, <1>5, <2>1, <3>1, DownNotes
    <2>2. CASE /\ p.type \in {"response", "credit"}
               /\ slave'[c] = slaveSend(s, p) /\ master'[c] = masterRecv(m, p)
      <3>1. Proper(p)
        BY DEF Passing
      <3>. QED
        BY <1>1, <1>5, <2>2, <3>1, UpNotes
    <2>. QED
      BY <1>2, <1>4, <2>1, <2>2 DEF Passing
  <1>7. Exact("master", m, q) /\ Exact("slave", s, r)
    BY <1>4 DEF PortsExact
  <1>8. /\ Exact("master", master'[c], Append(q, e))
        /\ Exact("slave", slave'[c], Append(r, e))
    BY <1>1, <1>5, <1>6, <1>7, NotesExact
  <1>9. ASSUME NEW d \in Connections, d # c
        PROVE  /\ master'[d] = master[d] /\ slave'[d] = slave[d]
               /\ passed'["master"][d] = passed["master"][d]
               /\ passed'["slave"][d] = passed["slave"][d]
    BY <1>2, <1>3, <1>9 DEF Passing
  <1>10. ASSUME NEW d \in Connections
         PROVE  /\ Exact("master", master'[d], passed'["master"][d])
                /\ Exact("slave", slave'[d], passed'["slave"][d])
    <2>1. CASE d = c
      BY <1>5, <1>8, <2>1
    <2>2. CASE d # c
      BY <1>9, <2>2 DEF PortsExact
    <2>. QED
      BY <2>1, <2>2
  <1>. QED
    BY <1>10 DEF PortsExact, Exact, Delays, DelayOf, Measures, Bytes, BytesOf

\* The statistics after a reset are those of nothing.
LEMMA ClearedExact ==
    ASSUME NEW side
    PROVE  Exact(side, cleared, << >>)
  <1>1. Bytes(<< >>) = << >> /\ Delays(side, << >>) = << >>
    BY DEF Bytes, Delays
  <1>2. SumFunction(<< >>) = 0
    <2>1. << >> \in [{} -> Nat] /\ IsFiniteSet({})
      BY FS_EmptySet
    <2>2. SumFunction(<< >>) = Cardinality(Tokens({}, << >>))
      BY <2>1, SumIsTokens
    <2>3. Tokens({}, << >>) = {}
      BY DEF Tokens
    <2>. QED
      BY <2>2, <2>3, FS_EmptySet
  <1>3. Range(<< >>) = {}
    BY DEF Range
  <1>4. /\ cleared.byte_count = 0 /\ cleared.total_delay = 0
        /\ cleared.min_delay = UINT64_MAX /\ cleared.max_delay = 0
    BY DEF cleared
  <1>5. 0 % Modulus = 0 /\ UINT64_MAX \in Int
    BY ModulusAssumption DEF UINT64_MAX
  <1>. QED
    BY <1>1, <1>2, <1>3, <1>4, <1>5 DEF Exact, IsLeast, IsGreatest

LEMMA ResetExact ==
    ASSUME TypeOK, PortsExact, ResetInitiator \/ ResetTarget
    PROVE  PortsExact'
  <1>1. passed \in [{"master", "slave"} -> [Connections -> Seq(Item)]]
    BY DEF TypeOK, Item
  <1>2. ASSUME NEW c \in Connections
        PROVE  /\ \/ passed'["master"][c] = << >> /\ master'[c] = cleared
                  \/ passed'["master"][c] = passed["master"][c] /\ master'[c] = master[c]
               /\ \/ passed'["slave"][c] = << >> /\ slave'[c] = cleared
                  \/ passed'["slave"][c] = passed["slave"][c] /\ slave'[c] = slave[c]
    BY <1>1 DEF ResetInitiator, ResetTarget
  <1>3. ASSUME NEW c \in Connections
        PROVE  /\ Exact("master", master'[c], passed'["master"][c])
               /\ Exact("slave", slave'[c], passed'["slave"][c])
    <2>1. /\ Exact("master", master[c], passed["master"][c])
          /\ Exact("slave", slave[c], passed["slave"][c])
      BY DEF PortsExact
    <2>. QED
      BY <1>2, <2>1, ClearedExact
  <1>. QED
    BY <1>3 DEF PortsExact, Exact, Delays, DelayOf, Measures, Bytes, BytesOf

--------------------------------------------------------------------
(* The sum over the ports of a module *)

Measured(side, S, lines) == UNION {Range(Delays(side, lines[c])) : c \in S}

\* What TotalsExact says of the ports of some of the connections.
Merged(side, t, S, lines) ==
    /\ t \in Stats
    /\ t.byte_count = SumFunction([c \in S |-> SumFunction(Bytes(lines[c]))]) % Modulus
    /\ t.total_delay = SumFunction([c \in S |-> SumFunction(Delays(side, lines[c]))]) % Modulus
    /\ IsLeast(t.min_delay, Measured(side, S, lines) \cup {UINT64_MAX})
    /\ IsGreatest(t.max_delay, Measured(side, S, lines) \cup {0})

LEMMA MergeType ==
    ASSUME NEW s \in Stats, NEW other \in Stats
    PROVE  merge(s, other) \in Stats
  <1>1. \A x, y \in Word : add(x, y) \in Word /\ lesser(x, y) \in Word /\ greater(x, y) \in Word
    BY AddWords DEF lesser, greater
  <1>. QED
    BY <1>1 DEF merge, Stats

\* The bytes, and the delays, of one connection more.
LEMMA SumSplits ==
    ASSUME NEW S, IsFiniteSet(S), NEW x \in S, NEW w \in [S -> Nat]
    PROVE  LET rest == [c \in S \ {x} |-> w[c]]
           IN /\ SumFunction(rest) \in Nat /\ w[x] \in Nat
              /\ SumFunction(w) = SumFunction(rest) + w[x]
  <1>1. PICK rest : rest = [c \in S \ {x} |-> w[c]]
    OBVIOUS
  <1>2. IsFiniteSet(S \ {x})
    BY FS_Subset
  <1>3. DOMAIN rest = S \ {x} /\ DOMAIN w = S /\ rest \in [S \ {x} -> Nat]
    BY <1>1
  <1>4. Numbers(rest) /\ Numbers(w) /\ Joins(w, x, rest)
    BY <1>1, <1>2, <1>3 DEF Numbers, Joins
  <1>5. SumFunction(w) = SumFunction(rest) + w[x] /\ SumFunction(rest) \in Nat
    BY <1>4, SumMore, SumType
  <1>. QED
    BY <1>1, <1>5

LEMMA BoundsMeet ==
    ASSUME NEW A, A \subseteq Word, NEW B, B \subseteq Word, NEW v \in Word, NEW w \in Word,
           NEW z \in Word
    PROVE  /\ IsLeast(v, A \cup {z}) /\ IsLeast(w, B \cup {z})
                 => IsLeast(lesser(v, w), (A \cup B) \cup {z})
           /\ IsGreatest(v, A \cup {z}) /\ IsGreatest(w, B \cup {z})
                 => IsGreatest(greater(v, w), (A \cup B) \cup {z})
  <1>1. Word \subseteq Int
    BY DEF Word
  <1>. QED
    BY <1>1 DEF IsLeast, IsGreatest, lesser, greater

\* Merging the statistics of one port more accounts for its line as well.
LEMMA MergeExact ==
    ASSUME NEW side, NEW S, IsFiniteSet(S), NEW x \in S, NEW lines \in [S -> Seq(Item)],
           NEW t, NEW s \in Stats, Merged(side, t, S \ {x}, lines), Exact(side, s, lines[x])
    PROVE  Merged(side, merge(t, s), S, lines)
  <1>1. PICK u : u = merge(t, s)
    OBVIOUS
  <1>2. t \in Stats
    BY DEF Merged
  <1>3. u \in Stats
    BY <1>1, <1>2, MergeType
  <1>4. /\ u.byte_count = add(t.byte_count, s.byte_count)
        /\ u.total_delay = add(t.total_delay, s.total_delay)
        /\ u.min_delay = lesser(t.min_delay, s.min_delay)
        /\ u.max_delay = greater(t.max_delay, s.max_delay)
    BY <1>1 DEF merge
  <1>5. \A c \in S : /\ SumFunction(Bytes(lines[c])) \in Nat
                     /\ SumFunction(Delays(side, lines[c])) \in Nat
                     /\ Range(Delays(side, lines[c])) \subseteq Word
    <2>1. SUFFICES ASSUME NEW line \in Seq(Item)
                   PROVE  /\ SumFunction(Bytes(line)) \in Nat
                          /\ SumFunction(Delays(side, line)) \in Nat
                          /\ Range(Delays(side, line)) \subseteq Word
      OBVIOUS
    <2>2. PICK f, b : f = Delays(side, line) /\ b = Bytes(line)
      OBVIOUS
    <2>3. /\ f \in [DOMAIN f -> Word] /\ IsFiniteSet(DOMAIN f)
          /\ b \in [1 .. Len(line) -> Word] /\ IsFiniteSet(1 .. Len(line))
      BY <2>2, LineType
    <2>4. Numbers(f) /\ Numbers(b)
      BY <2>3, WordIsNat DEF Numbers
    <2>5. Range(f) \subseteq Word
      BY <2>3 DEF Range
    <2>. QED
      BY <2>2, <2>4, <2>5, SumType
  <1>6. u.byte_count = SumFunction([c \in S |-> SumFunction(Bytes(lines[c]))]) % Modulus
    <2>1. PICK w : w = [c \in S |-> SumFunction(Bytes(lines[c]))]
      OBVIOUS
    <2>2. w \in [S -> Nat]
      BY <1>5, <2>1
    <2>3. PICK rest : rest = [c \in S \ {x} |-> w[c]]
      OBVIOUS
    <2>4. /\ SumFunction(rest) \in Nat /\ w[x] \in Nat
          /\ SumFunction(w) = SumFunction(rest) + w[x]
      BY <2>2, <2>3, SumSplits
    <2>5. rest = [c \in S \ {x} |-> SumFunction(Bytes(lines[c]))]
      BY <2>1, <2>3
    <2>6. t.byte_count = SumFunction(rest) % Modulus
      BY <2>5 DEF Merged
    <2>7. s.byte_count = w[x] % Modulus
      BY <2>1 DEF Exact
    <2>8. u.byte_count = (SumFunction(rest) + w[x]) % Modulus
      BY <1>4, <2>4, <2>6, <2>7, AddSums
    <2>. QED
      BY <2>1, <2>4, <2>8
  <1>7. u.total_delay = SumFunction([c \in S |-> SumFunction(Delays(side, lines[c]))]) % Modulus
    <2>1. PICK w : w = [c \in S |-> SumFunction(Delays(side, lines[c]))]
      OBVIOUS
    <2>2. w \in [S -> Nat]
      BY <1>5, <2>1
    <2>3. PICK rest : rest = [c \in S \ {x} |-> w[c]]
      OBVIOUS
    <2>4. /\ SumFunction(rest) \in Nat /\ w[x] \in Nat
          /\ SumFunction(w) = SumFunction(rest) + w[x]
      BY <2>2, <2>3, SumSplits
    <2>5. rest = [c \in S \ {x} |-> SumFunction(Delays(side, lines[c]))]
      BY <2>1, <2>3
    <2>6. t.total_delay = SumFunction(rest) % Modulus
      BY <2>5 DEF Merged
    <2>7. s.total_delay = w[x] % Modulus
      BY <2>1 DEF Exact
    <2>8. u.total_delay = (SumFunction(rest) + w[x]) % Modulus
      BY <1>4, <2>4, <2>6, <2>7, AddSums
    <2>. QED
      BY <2>1, <2>4, <2>8
  <1>8. /\ IsLeast(u.min_delay, Measured(side, S, lines) \cup {UINT64_MAX})
        /\ IsGreatest(u.max_delay, Measured(side, S, lines) \cup {0})
    <2>1. PICK A, B : A = Measured(side, S \ {x}, lines) /\ B = Range(Delays(side, lines[x]))
      OBVIOUS
    <2>2. A \subseteq Word /\ B \subseteq Word
      BY <1>5, <2>1 DEF Measured
    <2>3. Measured(side, S, lines) = A \cup B
      BY <2>1 DEF Measured
    <2>4. /\ IsLeast(t.min_delay, A \cup {UINT64_MAX}) /\ IsGreatest(t.max_delay, A \cup {0})
          /\ IsLeast(s.min_delay, B \cup {UINT64_MAX}) /\ IsGreatest(s.max_delay, B \cup {0})
      BY <2>1 DEF Merged, Exact
    <2>5. /\ t.min_delay \in Word /\ s.min_delay \in Word
          /\ t.max_delay \in Word /\ s.max_delay \in Word
      BY <1>2 DEF Stats
    <2>6. /\ IsLeast(lesser(t.min_delay, s.min_delay), (A \cup B) \cup {UINT64_MAX})
          /\ IsGreatest(greater(t.max_delay, s.max_delay), (A \cup B) \cup {0})
      BY <2>2, <2>4, <2>5, Words, BoundsMeet
    <2>. QED
      BY <1>4, <2>3, <2>6
  <1>9. Merged(side, u, S, lines)
    BY <1>3, <1>6, <1>7, <1>8 DEF Merged
  <1>. QED
    BY <1>1, <1>9

\* The loop of getUpstreamStats and getDownstreamStats: what it has merged
\* after some of the ports accounts for their lines.
LEMMA TotalExact ==
    ASSUME NEW side, NEW ports \in [Connections -> Stats],
           NEW lines \in [Connections -> Seq(Item)],
           \A c \in Connections : Exact(side, ports[c], lines[c])
    PROVE  Merged(side, total(ports), Connections, lines)
  <1>. DEFINE some(S) == CHOOSE x \in S : TRUE
              Is(h) == h = [S \in SUBSET Connections |->
                               IF S = {} THEN cleared
                               ELSE merge(h[S \ {some(S)}], ports[some(S)])]
              R == [p \in Connections \X Stats |-> merge(p[2], ports[p[1]])]
              T == {S \in SUBSET Connections :
                       Merged(side, (CHOOSE h : Is(h))[S], S, lines)}
  <1>1. total(ports) = (CHOOSE h : Is(h))[Connections]
    <2>1. DOMAIN ports = Connections
      OBVIOUS
    <2>. QED
      BY <2>1, Zenon DEF total, FoldFunction, FoldFunctionOnSet, MapThenFoldSet
  <1>2. \A S \in SUBSET Connections : S # {} => some(S) \in S
    OBVIOUS
  <1>3. Is(CHOOSE h : Is(h))
    <2>1. R \in [Connections \X Stats -> Stats]
      BY MergeType
    <2>2. PICK h : Folding(h, Connections, Stats, cleared, R)
      <3>. HIDE DEF R
      <3>. QED
        BY <2>1, ConnectionsAssumption, ClearedType, FoldExists
    <2>3. \A S \in SUBSET Connections :
             h[S] = IF S = {} THEN cleared ELSE R[<<some(S), h[S \ {some(S)}]>>]
      BY <2>2 DEF Folding
    <2>4. ASSUME NEW S \in SUBSET Connections
          PROVE  h[S] = IF S = {} THEN cleared
                        ELSE merge(h[S \ {some(S)}], ports[some(S)])
      <3>1. S # {} => some(S) \in Connections /\ h[S \ {some(S)}] \in Stats
        BY <1>2, <2>2 DEF Folding
      <3>. HIDE DEF some
      <3>. QED
        BY <2>3, <3>1
    <2>5. h = [S \in SUBSET Connections |-> h[S]]
      BY <2>2 DEF Folding
    <2>6. Is(h)
      <3>. HIDE DEF some
      <3>. QED
        BY <2>4, <2>5
    <2>. HIDE DEF Is
    <2>. QED
      BY <2>6
  <1>4. PICK h : h = (CHOOSE g : Is(g)) /\ Is(h)
    <2>. HIDE DEF Is
    <2>. QED
      BY <1>3
  <1>5. {} \in T
    <2>1. h[{}] = cleared
      BY <1>4
    <2>2. Merged(side, cleared, {}, lines)
      <3>1. PICK f : f = [c \in {} |-> 0]
        OBVIOUS
      <3>2. /\ [c \in {} |-> SumFunction(Bytes(lines[c]))] = f
            /\ [c \in {} |-> SumFunction(Delays(side, lines[c]))] = f
            /\ Measured(side, {}, lines) = {}
        BY <3>1 DEF Measured
      <3>3. SumFunction(f) = 0
        <4>1. f \in [{} -> Nat] /\ IsFiniteSet({})
          BY <3>1, FS_EmptySet
        <4>2. SumFunction(f) = Cardinality(Tokens({}, f))
          BY <4>1, SumIsTokens
        <4>3. Tokens({}, f) = {}
          BY DEF Tokens
        <4>. QED
          BY <4>2, <4>3, FS_EmptySet
      <3>4. /\ cleared.byte_count = 0 /\ cleared.total_delay = 0
            /\ cleared.min_delay = UINT64_MAX /\ cleared.max_delay = 0
        BY DEF cleared
      <3>5. 0 % Modulus = 0 /\ UINT64_MAX \in Int
        BY ModulusAssumption DEF UINT64_MAX
      <3>6. /\ IsLeast(UINT64_MAX, {} \cup {UINT64_MAX})
            /\ IsGreatest(0, {} \cup {0})
        BY <3>5 DEF IsLeast, IsGreatest
      <3>7. /\ cleared.byte_count
                  = SumFunction([c \in {} |-> SumFunction(Bytes(lines[c]))]) % Modulus
            /\ cleared.total_delay
                  = SumFunction([c \in {} |-> SumFunction(Delays(side, lines[c]))]) % Modulus
        BY <3>2, <3>3, <3>4, <3>5, Zenon
      <3>8. /\ IsLeast(cleared.min_delay, Measured(side, {}, lines) \cup {UINT64_MAX})
            /\ IsGreatest(cleared.max_delay, Measured(side, {}, lines) \cup {0})
        BY <3>2, <3>4, <3>6, Zenon
      <3>. QED
        BY <3>7, <3>8, ClearedType, Zenon DEF Merged
    <2>. HIDE DEF Is
    <2>. QED
      BY <1>4, <2>1, <2>2
  <1>6. ASSUME NEW S \in SUBSET Connections, S # {}, \A x \in S : S \ {x} \in T
        PROVE  S \in T
    <2>1. PICK x : x = some(S)
      OBVIOUS
    <2>2. x \in S
      BY <1>2, <1>6, <2>1
    <2>3. h[S] = merge(h[S \ {x}], ports[x])
      BY <1>4, <1>6, <2>1
    <2>4. Merged(side, h[S \ {x}], S \ {x}, lines)
      <3>. HIDE DEF Is
      <3>. QED
        BY <1>4, <1>6, <2>2
    <2>5. PICK k : k = [c \in S |-> lines[c]]
      OBVIOUS
    <2>6. /\ IsFiniteSet(S) /\ ports[x] \in Stats /\ Exact(side, ports[x], k[x])
          /\ k \in [S -> Seq(Item)]
      BY <2>2, <2>5, ConnectionsAssumption, FS_Subset
    <2>7. \A t, Q : Q \subseteq S => (Merged(side, t, Q, k) <=> Merged(side, t, Q, lines))
      <3>1. SUFFICES ASSUME NEW t, NEW Q, Q \subseteq S
                     PROVE  Merged(side, t, Q, k) <=> Merged(side, t, Q, lines)
        OBVIOUS
      <3>2. /\ [c \in Q |-> SumFunction(Bytes(k[c]))] = [c \in Q |-> SumFunction(Bytes(lines[c]))]
            /\ [c \in Q |-> SumFunction(Delays(side, k[c]))]
                  = [c \in Q |-> SumFunction(Delays(side, lines[c]))]
            /\ Measured(side, Q, k) = Measured(side, Q, lines)
        BY <2>5, <3>1 DEF Measured
      <3>. QED
        BY <3>2 DEF Merged
    <2>8. Merged(side, merge(h[S \ {x}], ports[x]), S, k)
      <3>1. Merged(side, h[S \ {x}], S \ {x}, k)
        BY <2>4, <2>7
      <3>. QED
        BY <2>2, <2>6, <3>1, MergeExact
    <2>9. Merged(side, h[S], S, lines)
      BY <2>3, <2>7, <2>8
    <2>. HIDE DEF Is
    <2>. QED
      BY <1>4, <2>9
  <1>7. Connections \in T
    <2>1. \A S \in SUBSET Connections : S \in T
      <3>. HIDE DEF T
      <3>. QED
        BY <1>5, <1>6, ConnectionsAssumption, SubsetsUpwards
    <2>. QED
      BY <2>1
  <1>. QED
    BY <1>1, <1>7

\* When every port accounts for its line, the sums do.
LEMMA PortsGiveTotals ==
    ASSUME TypeOK, PortsExact
    PROVE  TotalsExact
  <1>1. ASSUME NEW side \in {"master", "slave"}, NEW ports \in [Connections -> Stats],
               NEW lines \in [Connections -> Seq(Item)],
               \A c \in Connections : Exact(side, ports[c], lines[c])
        PROVE  LET t == total(ports)
                   measured == UNION {Range(Delays(side, lines[c])) : c \in Connections}
               IN /\ t.min_delay = Least(measured \cup {UINT64_MAX})
                  /\ t.max_delay = Greatest(measured \cup {0})
                  /\ t.total_delay =
                        SumFunction([c \in Connections |-> SumFunction(Delays(side, lines[c]))])
                        % Modulus
                  /\ t.byte_count =
                        SumFunction([c \in Connections |-> SumFunction(Bytes(lines[c]))]) % Modulus
    <2>1. PICK t : t = total(ports)
      OBVIOUS
    <2>2. Merged(side, t, Connections, lines)
      BY <1>1, <2>1, TotalExact
    <2>3. PICK A : A = Measured(side, Connections, lines)
      OBVIOUS
    <2>4. /\ IsLeast(t.min_delay, A \cup {UINT64_MAX})
          /\ IsGreatest(t.max_delay, A \cup {0})
          /\ t \in Stats
      BY <2>2, <2>3 DEF Merged
    <2>5. A \cup {UINT64_MAX} \subseteq Int /\ A \cup {0} \subseteq Int
      <3>1. ASSUME NEW line \in Seq(Item)
            PROVE  Range(Delays(side, line)) \subseteq Word
        <4>1. PICK f : f = Delays(side, line)
          OBVIOUS
        <4>2. f \in [DOMAIN f -> Word]
          BY <4>1, LineType
        <4>. QED
          BY <4>1, <4>2 DEF Range
      <3>2. A \subseteq Word
        BY <2>3, <3>1 DEF Measured
      <3>. QED
        BY <3>2, ModulusAssumption DEF Word, UINT64_MAX
    <2>6. ASSUME NEW v, NEW B \in SUBSET Int, IsLeast(v, B)
          PROVE  v = Least(B)
      <3>1. v \in B /\ \A y \in B : v <= y
        BY <2>6 DEF IsLeast
      <3>2. \A w \in B : (\A y \in B : w <= y) => w = v
        BY <3>1
      <3>. QED
        BY <3>1, <3>2, Zenon DEF Least
    <2>7. ASSUME NEW v, NEW B \in SUBSET Int, IsGreatest(v, B)
          PROVE  v = Greatest(B)
      <3>1. v \in B /\ \A y \in B : v >= y
        BY <2>7 DEF IsGreatest
      <3>2. \A w \in B : (\A y \in B : w >= y) => w = v
        BY <3>1
      <3>. QED
        BY <3>1, <3>2, Zenon DEF Greatest
    <2>8. t.min_delay = Least(A \cup {UINT64_MAX}) /\ t.max_delay = Greatest(A \cup {0})
      BY <2>4, <2>5, <2>6, <2>7
    <2>9. /\ t.total_delay =
                SumFunction([c \in Connections |-> SumFunction(Delays(side, lines[c]))])
                % Modulus
          /\ t.byte_count =
                SumFunction([c \in Connections |-> SumFunction(Bytes(lines[c]))]) % Modulus
      BY <2>2, Zenon DEF Merged
    <2>. QED
      BY <2>1, <2>3, <2>8, <2>9, Zenon DEF Measured
  <1>2. /\ passed["master"] \in [Connections -> Seq(Item)]
        /\ passed["slave"] \in [Connections -> Seq(Item)]
        /\ master \in [Connections -> Stats] /\ slave \in [Connections -> Stats]
    BY DEF TypeOK, Item
  <1>3. /\ \A c \in Connections : Exact("master", master[c], passed["master"][c])
        /\ \A c \in Connections : Exact("slave", slave[c], passed["slave"][c])
    BY DEF PortsExact
  <1>. DEFINE Good(side) ==
                LET t == total(IF side = "master" THEN master ELSE slave)
                    lines == passed[side]
                    measured == UNION {Range(Delays(side, lines[c])) : c \in Connections}
                IN /\ t.min_delay = Least(measured \cup {UINT64_MAX})
                   /\ t.max_delay = Greatest(measured \cup {0})
                   /\ t.total_delay =
                         SumFunction([c \in Connections |-> SumFunction(Delays(side, lines[c]))])
                         % Modulus
                   /\ t.byte_count =
                         SumFunction([c \in Connections |-> SumFunction(Bytes(lines[c]))]) % Modulus
  <1>4. Good("master")
    BY <1>1, <1>2, <1>3, Zenon
  <1>5. Good("slave")
    BY <1>1, <1>2, <1>3, Zenon
  <1>6. \A side \in {"master", "slave"} : Good(side)
    <2>. HIDE DEF Good
    <2>. QED
      BY <1>4, <1>5
  <1>. QED
    BY <1>6, Zenon DEF TotalsExact

\* The statistics a module sums up over its ports are those of what passed
\* the ports since the last reset, for any finite number of connections, any
\* word size, any packets and resets, and also after the counters have wrapped
\* (PortStats::merge and reset, PortManager::getUpstreamStats,
\* getDownstreamStats and resetAllStats).
THEOREM TotalsStayExact == Spec => []TotalsExact
  <1>1. Init => PortsExact
    <2>. SUFFICES ASSUME Init
                  PROVE  PortsExact
      OBVIOUS
    <2>1. \A c \in Connections : /\ master[c] = cleared /\ slave[c] = cleared
                                 /\ passed["master"][c] = << >> /\ passed["slave"][c] = << >>
      BY DEF Init
    <2>. QED
      BY <2>1, ClearedExact DEF PortsExact
  <1>2. ASSUME TypeOK, PortsExact, [Next]_vars
        PROVE  PortsExact'
    <2>1. CASE UNCHANGED <<master, slave, passed>>
      <3>1. ASSUME NEW c \in Connections
            PROVE  /\ Exact("master", master'[c], passed'["master"][c])
                   /\ Exact("slave", slave'[c], passed'["slave"][c])
        BY <1>2, <2>1 DEF PortsExact
      <3>. QED
        BY <3>1 DEF PortsExact, Exact, Delays, DelayOf, Measures, Bytes, BytesOf
    <2>. QED
      BY <1>2, <2>1, PassingExact, ResetExact, StepKinds
  <1>3. TypeOK /\ PortsExact /\ [Next]_vars => PortsExact'
    BY <1>2
  <1>4. TypeOK /\ PortsExact => TotalsExact
    BY PortsGiveTotals
  <1>. QED
    BY <1>1, <1>3, <1>4, TypeCorrect, PTL DEF Spec

=============================================================================
