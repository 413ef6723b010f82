------------------------------ MODULE PortStats ------------------------------
(***************************************************************************)
(* The counters of the ports of two modules (include/port_stats.hh, the    *)
(* updateStats, send and recv of master_port.hh and slave_port.hh, and the *)
(* statistics of PortManager).  Connection c joins the c-th downstream     *)
(* port of the initiator to the c-th upstream port of the target; either   *)
(* module sums its ports with merge and resets them on its own.            *)
(*                                                                         *)
(* Counters and cycles are unsigned integers modulo Modulus.  A response   *)
(* points to the request it answers; if that has been deleted, its         *)
(* src_cycle may read as anything.                                         *)
(***************************************************************************)
EXTENDS Integers, Sequences, FiniteSets, Functions

CONSTANTS Connections,
          Modulus,           \* 2^64 in the code
          Lengths,           \* data lengths of payloads, 0 for none
          Credits,           \* values of Packet::credits
          Garbage,           \* what a deleted src_cycle may read as
          MaxCycle, MaxPackets   \* bounds: clock and packets

ASSUME ConnectionsAssumption == IsFiniteSet(Connections)
ASSUME ModulusAssumption == Modulus \in Nat \ {0}
ASSUME InputsAssumption == Lengths \cup Credits \cup Garbage \subseteq 0 .. Modulus - 1
ASSUME BoundsAssumption == MaxCycle \in 0 .. Modulus - 1 /\ MaxPackets \in Nat

UINT64_MAX == Modulus - 1
Word == 0 .. UINT64_MAX
None == -1

add(x, y) == (x + y) % Modulus

Stats == [req_count : Word, resp_count : Word, byte_count : Word,
          total_delay : Word, min_delay : Word, max_delay : Word,
          credit_sent : Word, credit_received : Word, credit_value : Word]

\* `original' is the src_cycle read through original_req, or None.
Packet == [type : {"request", "stream", "credit", "response"}, bytes : Lengths \cup {0},
           credits : Credits \cup {0}, src_cycle : Word, original : Word \cup {None}]

VARIABLES cycle,
          master, slave,     \* PortStats of either port of a connection
          pending,           \* src_cycles of accepted requests not answered yet
          packets,           \* number of packets so far, for the bound
          passed,            \* history: [at, pkt] per side and connection since
                             \*   the last reset
          stale              \* history: a deleted request has been read

vars == <<cycle, master, slave, pending, packets, passed, stale>>

TypeOK == /\ cycle \in 0 .. MaxCycle
          /\ {master, slave} \subseteq [Connections -> Stats]
          /\ pending \in [Connections -> SUBSET Word]
          /\ packets \in 0 .. MaxPackets
          /\ passed \in [{"master", "slave"} -> [Connections -> Seq([at : Word, pkt : Packet])]]
          /\ stale \in BOOLEAN

\* The initial values, which reset() restores.
cleared == [req_count |-> 0, resp_count |-> 0, byte_count |-> 0,
            total_delay |-> 0, min_delay |-> UINT64_MAX, max_delay |-> 0,
            credit_sent |-> 0, credit_received |-> 0, credit_value |-> 0]

Init == /\ cycle = 0
        /\ master = [c \in Connections |-> cleared]
        /\ slave = [c \in Connections |-> cleared]
        /\ pending = [c \in Connections |-> {}]
        /\ packets = 0
        /\ passed = [s \in {"master", "slave"} |-> [c \in Connections |-> << >>]]
        /\ stale = FALSE

-----------------------------------------------------------------------------
(* PortStats *)

lesser(x, y) == IF x < y THEN x ELSE y
greater(x, y) == IF x > y THEN x ELSE y

merge(s, other) ==
    [req_count |-> add(s.req_count, other.req_count),
     resp_count |-> add(s.resp_count, other.resp_count),
     byte_count |-> add(s.byte_count, other.byte_count),
     total_delay |-> add(s.total_delay, other.total_delay),
     min_delay |-> lesser(s.min_delay, other.min_delay),
     max_delay |-> greater(s.max_delay, other.max_delay),
     credit_sent |-> add(s.credit_sent, other.credit_sent),
     credit_received |-> add(s.credit_received, other.credit_received),
     credit_value |-> add(s.credit_value, other.credit_value)]

recordDelay(s, d) == [s EXCEPT !.total_delay = add(@, d),
                               !.min_delay = lesser(@, d),
                               !.max_delay = greater(@, d)]

\* PortManager::getUpstreamStats and getDownstreamStats
total(ports) == FoldFunction(LAMBDA p, sum : merge(sum, p), cleared, ports)

-----------------------------------------------------------------------------
(* MasterPort and SlavePort *)

\* MasterPort::send
masterSend(s, p) ==
    CASE p.type = "request" -> [s EXCEPT !.req_count = add(@, 1), !.byte_count = add(@, p.bytes)]
      [] p.type = "credit" -> [s EXCEPT !.credit_sent = add(@, 1)]
      [] OTHER -> s

\* Mutant: the difference is taken the other way round.
e2eDelayReversed(p) == (p.original - cycle) % Modulus

\* MasterPort::updateStats: an unsigned difference.
e2eDelay(p) == (cycle - p.original) % Modulus

masterRecv(s, p) ==
    CASE p.type = "response" ->
           LET counted == [s EXCEPT !.resp_count = add(@, 1), !.byte_count = add(@, p.bytes)]
           IN IF p.original = None THEN counted ELSE recordDelay(counted, e2eDelay(p))
      [] p.type = "credit" -> [s EXCEPT !.credit_received = add(@, 1),
                                        !.credit_value = add(@, p.credits)]
      [] OTHER -> s

\* Packet::getDelayCycles
getDelayCycles(p) == IF cycle > p.src_cycle THEN cycle - p.src_cycle ELSE 0

\* SlavePort::updateStats
slaveRecv(s, p) ==
    LET delayed == IF p.original # None /\ p.type # "credit"
                   THEN recordDelay(s, getDelayCycles(p)) ELSE s
    IN CASE p.type = "request" -> [delayed EXCEPT !.req_count = add(@, 1),
                                                  !.byte_count = add(@, p.bytes)]
         [] p.type = "stream" -> [delayed EXCEPT !.req_count = add(@, 1)]
         [] OTHER -> delayed

\* Mutant: a credit is not counted as a response.
slaveSendNoCredit(s, p) ==
    IF p.type = "credit" THEN s
    ELSE [s EXCEPT !.resp_count = add(@, 1), !.byte_count = add(@, p.bytes)]

\* SlavePort::sendResp, whatever the packet is
slaveSend(s, p) == [s EXCEPT !.resp_count = add(@, 1), !.byte_count = add(@, p.bytes)]

-----------------------------------------------------------------------------
(* Steps *)

Passes(c, p) ==
    /\ packets < MaxPackets
    /\ packets' = packets + 1
    /\ passed' = [s \in {"master", "slave"} |->
                     [passed[s] EXCEPT ![c] = Append(@, [at |-> cycle, pkt |-> p])]]
    /\ UNCHANGED cycle

\* MasterPort::send and SlavePort::recv, in one call; recvReq may then refuse.
Down(c, p) == /\ Passes(c, p)
              /\ master' = [master EXCEPT ![c] = masterSend(@, p)]
              /\ slave' = [slave EXCEPT ![c] = slaveRecv(@, p)]
              /\ UNCHANGED stale

\* A request of the initiator, or one it forwards that answers another.
SendRequest(c, bytes, src, original, accepted) ==
    /\ Down(c, [type |-> "request", bytes |-> bytes, credits |-> 0, src_cycle |-> src,
                original |-> original])
    /\ pending' = IF accepted THEN [pending EXCEPT ![c] = @ \cup {src}] ELSE pending

SendStream(c, bytes) ==
    /\ Down(c, [type |-> "stream", bytes |-> bytes, credits |-> 0, src_cycle |-> cycle,
                original |-> None])
    /\ UNCHANGED pending

SendCredit(c, credits) ==
    /\ Down(c, [type |-> "credit", bytes |-> 0, credits |-> credits, src_cycle |-> cycle,
                original |-> None])
    /\ UNCHANGED pending

\* SlavePort::sendResp and MasterPort::recv, in one call.
Up(c, p) == /\ Passes(c, p)
            /\ slave' = [slave EXCEPT ![c] = slaveSend(@, p)]
            /\ master' = [master EXCEPT ![c] = masterRecv(@, p)]

\* The answer to a request that came in on connection c goes out on any
\* connection d, for the target chooses the port.
SendResponse(c, d, src, bytes) ==
    /\ src \in pending[c]
    /\ pending' = [pending EXCEPT ![c] = @ \ {src}]
    /\ Up(d, [type |-> "response", bytes |-> bytes, credits |-> 0, src_cycle |-> cycle,
              original |-> src])
    /\ UNCHANGED stale

\* The target has deleted the request before, as MemorySim does.
SendStaleResponse(c, d, src, read) ==
    /\ src \in pending[c]
    /\ pending' = [pending EXCEPT ![c] = @ \ {src}]
    /\ Up(d, [type |-> "response", bytes |-> 0, credits |-> 0, src_cycle |-> cycle,
              original |-> read])
    /\ stale' = TRUE

ReturnCredit(c, credits) ==
    /\ Up(c, [type |-> "credit", bytes |-> 0, credits |-> credits, src_cycle |-> cycle,
              original |-> None])
    /\ UNCHANGED <<pending, stale>>

\* PortManager::resetAllStats of the initiator and of the target.
ResetInitiator == /\ master' = [c \in Connections |-> cleared]
                  /\ passed' = [passed EXCEPT !["master"] = [c \in Connections |-> << >>]]
                  /\ UNCHANGED <<cycle, slave, pending, packets, stale>>

\* Mutant: a port that counted no request is not reset.
ResetTargetAsked == /\ slave' = [c \in Connections |->
                                  IF slave[c].req_count = 0 THEN slave[c] ELSE cleared]
                    /\ passed' = [passed EXCEPT !["slave"] = [c \in Connections |-> << >>]]
                    /\ UNCHANGED <<cycle, master, pending, packets, stale>>

ResetTarget == /\ slave' = [c \in Connections |-> cleared]
               /\ passed' = [passed EXCEPT !["slave"] = [c \in Connections |-> << >>]]
               /\ UNCHANGED <<cycle, master, pending, packets, stale>>

Wait == /\ cycle < MaxCycle
        /\ cycle' = cycle + 1
        /\ UNCHANGED <<master, slave, pending, packets, passed, stale>>

Next == \/ \E c \in Connections, bytes \in Lengths, src \in 0 .. cycle, a \in BOOLEAN :
              \E original \in {None, src} : SendRequest(c, bytes, src, original, a)
        \/ \E c \in Connections, bytes \in Lengths : SendStream(c, bytes)
        \/ \E c \in Connections, credits \in Credits :
              SendCredit(c, credits) \/ ReturnCredit(c, credits)
        \/ \E c, d \in Connections, src \in 0 .. cycle, bytes \in Lengths :
              SendResponse(c, d, src, bytes)
        \/ \E c, d \in Connections, src \in 0 .. cycle, read \in Garbage :
              SendStaleResponse(c, d, src, read)
        \/ ResetInitiator
        \/ ResetTarget
        \/ Wait

Spec == Init /\ [][Next]_vars

-----------------------------------------------------------------------------
(* Properties *)

Count(line, types) == Cardinality({i \in DOMAIN line : line[i].pkt.type \in types}) % Modulus
Least(S) == CHOOSE x \in S : \A y \in S : x <= y
Greatest(S) == CHOOSE x \in S : \A y \in S : x >= y

\* The delays a side measures: the target how long a packet that answers
\* another was under way, the initiator the age of the request answered.
Measures(side, e) ==
    /\ e.pkt.original # None
    /\ e.pkt.type = IF side = "slave" THEN "request" ELSE "response"
DelayOf(side, e) ==
    (e.at - (IF side = "slave" THEN e.pkt.src_cycle ELSE e.pkt.original)) % Modulus
Delays(side, line) ==
    [i \in {j \in DOMAIN line : Measures(side, line[j])} |-> DelayOf(side, line[i])]

\* The bytes that count: all but those of a stream.
BytesOf(e) == IF e.pkt.type = "stream" THEN 0 ELSE e.pkt.bytes
Bytes(line) == [i \in DOMAIN line |-> BytesOf(line[i])]

\* The statistics a module sums up are those of what passed its ports since
\* the last reset: the extremes over ports of which some measured nothing are
\* the extremes of all delays, and no counter keeps anything from before
\* (PortStats::merge and reset, PortManager::getUpstreamStats,
\* getDownstreamStats, resetAllStats).
TotalsExact ==
    \A side \in {"master", "slave"} :
        LET t == total(IF side = "master" THEN master ELSE slave)
            lines == passed[side]
            measured == UNION {Range(Delays(side, lines[c])) : c \in Connections}
        IN /\ t.min_delay = Least(measured \cup {UINT64_MAX})
           /\ t.max_delay = Greatest(measured \cup {0})
           /\ t.total_delay =
                 SumFunction([c \in Connections |-> SumFunction(Delays(side, lines[c]))])
                 % Modulus
           /\ t.byte_count =
                 SumFunction([c \in Connections |-> SumFunction(Bytes(lines[c]))]) % Modulus

\* Two ports of a connection that started counting together agree: each
\* request is counted at both ends, each stream packet at the target only,
\* and what the target counts as responses are responses and credits.
EndsAgree ==
    \A c \in Connections :
        LET line == passed["slave"][c] IN
        line = passed["master"][c] =>
            /\ master[c].byte_count = slave[c].byte_count
            /\ slave[c].req_count = add(master[c].req_count, Count(line, {"stream"}))
            /\ slave[c].resp_count = add(master[c].resp_count, master[c].credit_received)
            /\ add(master[c].credit_sent, master[c].credit_received) = Count(line, {"credit"})

\* No measured delay is longer than the run, the unsigned difference never
\* wraps, unless a response referred to a request that had been deleted.
DelaysWithinRun ==
    ~stale => \A c \in Connections : /\ master[c].max_delay <= cycle
                                     /\ slave[c].max_delay <= cycle
=============================================================================
