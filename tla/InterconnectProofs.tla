------------------------- MODULE InterconnectProofs -------------------------
(***************************************************************************)
(* Proofs about Interconnect.tla, for any sources, ports, buffers and      *)
(* address ranges: type correctness, and that a generator finds its range  *)
(* whatever its cursor held at first.                                      *)
(*                                                                         *)
(* The argument for the second: once in the range and aligned, the cursor  *)
(* stays so; before, it is below the end of the range and has climbed by   *)
(* a word with every packet but the first, which may have wrapped.         *)
(***************************************************************************)
EXTENDS Interconnect, SequenceFacts

-----------------------------------------------------------------------------
(* The inductive invariant *)

InRange(a) == a \in start_addr .. end_addr - 1 /\ (a - start_addr) % 4 = 0

Climbs(s) == \/ generated[s] = 0
             \/ InRange(cur_addr[s])
             \/ cur_addr[s] < end_addr /\ 4 * (generated[s] - 1) <= cur_addr[s]

IInv == TypeOK /\ \A s \in Sources : Climbs(s)

-----------------------------------------------------------------------------
(* Addresses *)

\* The cursor stays an address; it stays in the range, or climbs, or enters
\* the range at its start (TrafficGenerator::issueRequest).
LEMMA NextAddrType ==
    ASSUME NEW a \in Word
    PROVE  /\ nextAddr(a) \in Word
           /\ InRange(a) => InRange(nextAddr(a))
           /\ InRange(nextAddr(a)) \/ nextAddr(a) < end_addr
           /\ a < end_addr => InRange(nextAddr(a)) \/ nextAddr(a) = a + 4
  <1>1. /\ AddrLimit \in Nat /\ start_addr \in Nat /\ end_addr \in Nat
        /\ start_addr < end_addr /\ end_addr + 4 <= AddrLimit
        /\ a \in Nat /\ a < AddrLimit
    BY AddressAssumption DEF Word
  <1>. DEFINE b == (a + 4) % AddrLimit
  <1>2. b \in 0 .. AddrLimit - 1
    BY <1>1
  <1>3. a < end_addr => b = a + 4
    BY <1>1
  <1>4. nextAddr(a) = IF b >= end_addr THEN start_addr ELSE b
    BY DEF nextAddr
  <1>5. InRange(start_addr)
    BY <1>1 DEF InRange
  <1>. HIDE DEF b
  <1>6. ASSUME InRange(a), b < end_addr
        PROVE  InRange(b)
    <2>1. a < end_addr /\ a >= start_addr /\ (a - start_addr) % 4 = 0
      BY <1>1, <1>6 DEF InRange
    <2>2. b = a + 4
      BY <1>3, <2>1
    <2>3. ((a - start_addr) + 4) % 4 = 0
      BY <1>1, <2>1
    <2>4. b - start_addr = (a - start_addr) + 4
      BY <1>1, <2>2
    <2>5. b \in start_addr .. end_addr - 1
      BY <1>1, <1>6, <2>1, <2>2
    <2>. QED
      BY <2>3, <2>4, <2>5 DEF InRange
  <1>7. nextAddr(a) \in Word
    BY <1>1, <1>2, <1>4 DEF Word
  <1>8. InRange(a) => InRange(nextAddr(a))
    BY <1>1, <1>2, <1>4, <1>5, <1>6
  <1>9. InRange(nextAddr(a)) \/ nextAddr(a) < end_addr
    BY <1>1, <1>2, <1>4, <1>5
  <1>10. a < end_addr => InRange(nextAddr(a)) \/ nextAddr(a) = a + 4
    BY <1>3, <1>4, <1>5
  <1>. QED
    BY <1>7, <1>8, <1>9, <1>10

-----------------------------------------------------------------------------
(* Steps *)

LEMMA TouchesType ==
    ASSUME NEW d, Touches(d)
    PROVE  undefined' \in BOOLEAN
  BY DEF Touches

\* The link of one source, or of one port, changes to another link.
LEMMA UpChange ==
    ASSUME TypeOK, NEW s \in Sources, NEW l \in Up!Link(Packet), up' = [up EXCEPT ![s] = l]
    PROVE  up' \in [Sources -> Up!Link(Packet)]
  BY DEF TypeOK

LEMMA DownChange ==
    ASSUME TypeOK, NEW p \in Ports, NEW l \in Down!Link(Packet), down' = [down EXCEPT ![p] = l]
    PROVE  down' \in [Ports -> Down!Link(Packet)]
  BY DEF TypeOK

\* Only generators move the cursors.
LEMMA SameGenerators ==
    ASSUME IInv, UNCHANGED <<cur_addr, generated>>
    PROVE  \A s \in Sources : Climbs(s)'
  BY DEF IInv, Climbs, InRange

LEMMA SamePorts ==
    ASSUME UNCHANGED switch
    PROVE  Ports' = Ports
  BY DEF switch, Ports

LEMMA GenerateStep ==
    ASSUME IInv, NEW s \in Sources, Generate(s)
    PROVE  IInv'
  <1>. DEFINE p == [src |-> s, n |-> generated[s] + 1, addr |-> cur_addr[s]]
  <1>1. /\ generated[s] \in Nat /\ generated[s] + 1 <= MaxPackets[s]
        /\ generated[s] + 1 \in Nat \ {0} /\ cur_addr[s] \in Word
    <2>1. generated[s] \in Nat /\ MaxPackets[s] \in Nat /\ cur_addr[s] \in Word
      BY SourcesAssumption DEF IInv, TypeOK
    <2>2. generated[s] < MaxPackets[s]
      BY DEF Generate
    <2>. QED
      BY <2>1, <2>2
  <1>2. p \in Packet
    BY <1>1 DEF Packet
  <1>3. up' \in [Sources -> Up!Link(Packet)]
    <2>1. up' = [up EXCEPT ![s] = Up!Sent(up[s], p)]
      BY DEF Generate
    <2>2. Up!Sent(up[s], p) \in Up!Link(Packet)
      <3>1. up[s] \in Up!Link(Packet)
        BY DEF IInv, TypeOK
      <3>. QED
        BY <1>2, <3>1, SentLine DEF Up!Sent, Up!Link
    <2>. QED
      BY <2>1, <2>2, UpChange DEF IInv
  <1>4. created' \subseteq Packet /\ deleted' \subseteq Packet /\ undefined' \in BOOLEAN
    <2>1. created' \subseteq created \cup {p} /\ deleted' \subseteq deleted \cup {p}
      BY DEF Generate
    <2>. HIDE DEF p
    <2>. QED
      BY <1>2, <2>1, TouchesType DEF Generate, IInv, TypeOK
  <1>5. /\ generated' = [generated EXCEPT ![s] = generated[s] + 1]
        /\ cur_addr' = [cur_addr EXCEPT ![s] = nextAddr(cur_addr[s])]
        /\ UNCHANGED <<switch, completed, req_queue, down, taken, answered>>
    BY DEF Generate
  <1>6. /\ cur_addr' \in [Sources -> Word] /\ generated' \in [Sources -> Nat]
        /\ \A t \in Sources : generated'[t] <= MaxPackets[t]
    BY <1>1, <1>5, NextAddrType DEF IInv, TypeOK
  <1>7. TypeOK'
    BY <1>3, <1>4, <1>5, <1>6, SamePorts DEF IInv, TypeOK, switch
  <1>8. Climbs(s)'
    <2>1. /\ cur_addr'[s] = nextAddr(cur_addr[s]) /\ generated'[s] = generated[s] + 1
          /\ cur_addr'[s] \in Nat /\ cur_addr[s] \in Nat /\ end_addr \in Nat
      BY <1>1, <1>5, <1>6, AddressAssumption DEF IInv, TypeOK, Word
    <2>2. CASE InRange(cur_addr[s])
      BY <1>1, <2>1, <2>2, NextAddrType DEF Climbs, InRange
    <2>3. CASE generated[s] = 0
      BY <1>1, <2>1, <2>3, NextAddrType DEF Climbs, InRange
    <2>4. CASE cur_addr[s] < end_addr /\ 4 * (generated[s] - 1) <= cur_addr[s]
      <3>. DEFINE a == cur_addr[s]
      <3>1. a \in Word /\ a < end_addr
        BY <1>1, <2>4
      <3>. HIDE DEF a
      <3>3. InRange(nextAddr(a)) \/ nextAddr(a) < end_addr
        BY <3>1, NextAddrType
      <3>4. InRange(nextAddr(a)) \/ nextAddr(a) = a + 4
        BY <3>1, NextAddrType
      <3>5. InRange(nextAddr(a)) \/ (nextAddr(a) = a + 4 /\ a + 4 < end_addr)
        <4>1. CASE InRange(nextAddr(a))
          BY <4>1
        <4>2. CASE ~InRange(nextAddr(a))
          <5>1. nextAddr(a) < end_addr /\ nextAddr(a) = a + 4
            BY <3>3, <3>4, <4>2
          <5>. QED
            BY <5>1
        <4>. QED
          BY <4>1, <4>2
      <3>2. 4 * ((generated[s] + 1) - 1) <= cur_addr[s] + 4
        BY <1>1, <2>1, <2>4
      <3>. QED
        BY <2>1, <3>2, <3>5 DEF Climbs, InRange, a
    <2>. QED
      BY <2>2, <2>3, <2>4 DEF IInv, Climbs
  <1>9. ASSUME NEW t \in Sources \ {s}
        PROVE  Climbs(t)'
    BY <1>5 DEF IInv, TypeOK, Climbs, InRange
  <1>. QED
    BY <1>7, <1>8, <1>9 DEF IInv

LEMMA SourcePortTickStep ==
    ASSUME IInv, NEW s \in Sources, SourcePortTick(s)
    PROVE  IInv'
  <1>1. Up!Retried(up[s]) \in Up!Link(Packet) /\ Head(up[s].out) \in Packet
    <2>1. up[s] \in Up!Link(Packet) /\ Up!Behind(up[s])
      BY DEF IInv, TypeOK, SourcePortTick
    <2>. QED
      BY <2>1, RetriedLine DEF Up!Retried, Up!Behind, Up!Link
  <1>2. up' \in [Sources -> Up!Link(Packet)]
    <2>1. up' = [up EXCEPT ![s] = Up!Retried(up[s])]
      BY DEF SourcePortTick
    <2>. QED
      BY <1>1, <2>1, UpChange DEF IInv
  <1>3. /\ deleted' \subseteq Packet /\ undefined' \in BOOLEAN
        /\ UNCHANGED <<switch, generator, req_queue, down, taken, answered>>
    BY <1>1, TouchesType DEF SourcePortTick, IInv, TypeOK
  <1>. QED
    BY <1>2, <1>3, SamePorts, SameGenerators DEF IInv, TypeOK, switch, generator

\* What leaves the input channel of the switch.
LEMMA ArrivesType ==
    ASSUME IInv, NEW s \in Sources, Arrives(s)
    PROVE  /\ Head(up[s].in) \in Packet
           /\ up' \in [Sources -> Up!Link(Packet)]
           /\ UNCHANGED <<switch, generator, answered>>
  <1>1. Up!Taken(up[s]) \in Up!Link(Packet) /\ Head(up[s].in) \in Packet
    <2>1. up[s] \in Up!Link(Packet) /\ up[s].in # << >>
      BY DEF IInv, TypeOK, Arrives
    <2>. QED
      BY <2>1, TakenLine DEF Up!Taken, Up!Link
  <1>2. up' = [up EXCEPT ![s] = Up!Taken(up[s])] /\ UNCHANGED <<switch, generator, answered>>
    BY DEF Arrives
  <1>. QED
    BY <1>1, <1>2, UpChange DEF IInv

LEMMA ForwardType ==
    ASSUME IInv, NEW p \in Ports, NEW pkt \in Packet, Forward(p, pkt)
    PROVE  /\ down' \in [Ports -> Down!Link(Packet)]
           /\ deleted' \subseteq Packet
           /\ UNCHANGED taken
  <1>1. Down!Sent(down[p], pkt) \in Down!Link(Packet)
    <2>1. down[p] \in Down!Link(Packet)
      BY DEF IInv, TypeOK
    <2>. QED
      BY <2>1, SentLine DEF Down!Sent, Down!Link
  <1>2. down' = [down EXCEPT ![p] = Down!Sent(down[p], pkt)]
        /\ deleted' \subseteq deleted \cup {pkt} /\ UNCHANGED taken
    BY DEF Forward
  <1>3. down' \in [Ports -> Down!Link(Packet)]
    BY <1>1, <1>2, DownChange DEF IInv
  <1>. QED
    BY <1>2, <1>3 DEF IInv, TypeOK

LEMMA UnhandledStep ==
    ASSUME IInv, NEW s \in Sources, Unhandled(s)
    PROVE  IInv'
  <1>1. Head(up[s].in) \in Packet
    <2>1. up[s] \in Up!Link(Packet) /\ up[s].in # << >>
      BY DEF IInv, TypeOK, Unhandled
    <2>. QED
      BY <2>1, TakenLine DEF Up!Taken, Up!Link
  <1>2. /\ deleted' \subseteq Packet /\ undefined' \in BOOLEAN
        /\ UNCHANGED <<switch, generator, up, req_queue, down, taken, answered>>
    BY <1>1, TouchesType DEF Unhandled, IInv, TypeOK
  <1>. QED
    BY <1>2, SamePorts, SameGenerators DEF IInv, TypeOK, switch, generator

LEMMA EnqueueStep ==
    ASSUME IInv, NEW s \in Sources, Enqueue(s)
    PROVE  IInv'
  <1>1. /\ Head(up[s].in) \in Packet /\ up' \in [Sources -> Up!Link(Packet)]
        /\ UNCHANGED <<switch, generator, answered>>
    BY ArrivesType DEF Enqueue
  <1>2. req_queue' \in Seq(Packet)
    BY <1>1 DEF Enqueue, pushed, IInv, TypeOK
  <1>3. undefined' \in BOOLEAN /\ UNCHANGED <<down, taken, deleted>>
    BY TouchesType DEF Enqueue
  <1>. QED
    BY <1>1, <1>2, <1>3, SamePorts, SameGenerators DEF IInv, TypeOK, switch, generator

LEMMA SwitchTickStep ==
    ASSUME IInv, SwitchTick
    PROVE  IInv'
  <1>. DEFINE pkt == Head(req_queue)
  <1>1. /\ pkt \in Packet /\ Tail(req_queue) \in Seq(Packet)
        /\ requeued \in Seq(Packet)
    <2>1. req_queue \in Seq(Packet) /\ req_queue # << >>
      BY DEF SwitchTick, SwitchDrops, SwitchForwards, IInv, TypeOK
    <2>2. pkt \in Packet /\ Tail(req_queue) \in Seq(Packet)
      BY <2>1
    <2>. HIDE DEF pkt
    <2>3. Append(Tail(req_queue), pkt) \in Seq(Packet)
      BY <2>2
    <2>. QED
      BY <2>2, <2>3 DEF requeued, pkt
  <1>2. CASE SwitchDrops
    <2>1. /\ req_queue' \in Seq(Packet) /\ deleted' \subseteq Packet /\ undefined' \in BOOLEAN
          /\ UNCHANGED <<switch, generator, up, down, taken, answered>>
      BY <1>1, <1>2, TouchesType DEF SwitchDrops, IInv, TypeOK
    <2>. QED
      BY <2>1, SamePorts, SameGenerators DEF IInv, TypeOK, switch, generator
  <1>3. CASE SwitchForwards
    <2>1. route(pkt) \in Ports
      <3>1. pkt.addr \in Nat /\ num_ports \in Nat /\ num_ports > 0
        <4>1. pkt.addr \in Word /\ num_ports \in PortCounts
          BY <1>1 DEF Packet, IInv, TypeOK
        <4>2. Word \subseteq Nat /\ PortCounts \subseteq Nat
          BY AddressAssumption, KindsAssumption DEF Word
        <4>3. num_ports > 0
          BY <1>3 DEF SwitchForwards
        <4>. QED
          BY <4>1, <4>2, <4>3
      <3>. QED
        BY <3>1 DEF route, Ports
    <2>2. /\ down' \in [Ports -> Down!Link(Packet)] /\ deleted' \subseteq Packet
          /\ UNCHANGED taken
      BY <1>1, <1>3, <2>1, ForwardType DEF SwitchForwards
    <2>3. /\ req_queue' \in {Tail(req_queue), requeued} /\ undefined' \in BOOLEAN
          /\ UNCHANGED <<switch, generator, up, answered>>
      BY <1>3, TouchesType DEF SwitchForwards
    <2>. QED
      BY <1>1, <2>2, <2>3, SamePorts, SameGenerators DEF IInv, TypeOK, switch, generator
  <1>. QED
    BY <1>2, <1>3 DEF SwitchTick

LEMMA RouteRequestStep ==
    ASSUME IInv, NEW s \in Sources, RouteRequest(s)
    PROVE  IInv'
  <1>. DEFINE pkt == Head(up[s].in)
              p == routeByAddress(pkt.addr)
  <1>1. /\ pkt \in Packet /\ up' \in [Sources -> Up!Link(Packet)]
        /\ UNCHANGED <<switch, generator, answered>>
    BY ArrivesType DEF RouteRequest
  <1>2. /\ down' \in [Ports -> Down!Link(Packet)] /\ deleted' \subseteq Packet
        /\ UNCHANGED taken
    <2>1. CASE p \in Ports /\ Forward(p, pkt)
      <3>. HIDE DEF p, pkt
      <3>. QED
        BY <1>1, <2>1, ForwardType
    <2>2. CASE deleted' = deleted \cup {pkt} /\ UNCHANGED <<down, taken>>
      BY <1>1, <2>2 DEF IInv, TypeOK
    <2>. QED
      BY <2>1, <2>2 DEF RouteRequest
  <1>3. undefined' \in BOOLEAN /\ UNCHANGED req_queue
    BY TouchesType DEF RouteRequest
  <1>. QED
    BY <1>1, <1>2, <1>3, SamePorts, SameGenerators DEF IInv, TypeOK, switch, generator

LEMMA SwitchPortTickStep ==
    ASSUME IInv, NEW p \in Ports, SwitchPortTick(p)
    PROVE  IInv'
  <1>1. Down!Retried(down[p]) \in Down!Link(Packet) /\ Head(down[p].out) \in Packet
    <2>1. down[p] \in Down!Link(Packet) /\ Down!Behind(down[p])
      BY DEF IInv, TypeOK, SwitchPortTick
    <2>. QED
      BY <2>1, RetriedLine DEF Down!Retried, Down!Behind, Down!Link
  <1>2. down' \in [Ports -> Down!Link(Packet)]
    <2>1. down' = [down EXCEPT ![p] = Down!Retried(down[p])]
      BY DEF SwitchPortTick
    <2>. QED
      BY <1>1, <2>1, DownChange DEF IInv
  <1>3. /\ deleted' \subseteq Packet /\ undefined' \in BOOLEAN
        /\ UNCHANGED <<switch, generator, up, req_queue, taken, answered>>
    BY <1>1, TouchesType DEF SwitchPortTick, IInv, TypeOK
  <1>. QED
    BY <1>2, <1>3, SamePorts, SameGenerators DEF IInv, TypeOK, switch, generator

LEMMA TargetTakesStep ==
    ASSUME IInv, NEW p \in Ports, TargetTakes(p)
    PROVE  IInv'
  <1>1. Down!Taken(down[p]) \in Down!Link(Packet) /\ Head(down[p].in) \in Packet
    <2>1. down[p] \in Down!Link(Packet) /\ down[p].in # << >>
      BY DEF IInv, TypeOK, TargetTakes
    <2>. QED
      BY <2>1, TakenLine DEF Down!Taken, Down!Link
  <1>2. down' \in [Ports -> Down!Link(Packet)]
    <2>1. down' = [down EXCEPT ![p] = Down!Taken(down[p])]
      BY DEF TargetTakes
    <2>. QED
      BY <1>1, <2>1, DownChange DEF IInv
  <1>3. taken' \in [Ports -> Seq(Packet)]
    <2>1. Append(taken[p], Head(down[p].in)) \in Seq(Packet)
      BY <1>1 DEF IInv, TypeOK
    <2>. QED
      BY <2>1 DEF TargetTakes, IInv, TypeOK
  <1>4. /\ undefined' \in BOOLEAN
        /\ UNCHANGED <<switch, generator, up, req_queue, answered, deleted>>
    BY TouchesType DEF TargetTakes
  <1>. QED
    BY <1>2, <1>3, <1>4, SamePorts, SameGenerators DEF IInv, TypeOK, switch, generator

LEMMA RespondStep ==
    ASSUME IInv, NEW p \in Ports, NEW pkt \in created, Respond(p, pkt)
    PROVE  IInv'
  <1>1. completed' \in [Sources -> Nat]
    BY DEF Respond, responsePort, IInv, TypeOK
  <1>2. answered' \subseteq Packet /\ undefined' \in BOOLEAN
    BY TouchesType DEF Respond, IInv, TypeOK
  <1>3. UNCHANGED <<switch, cur_addr, generated, created, up, req_queue, down, taken, deleted>>
    BY DEF Respond
  <1>. QED
    BY <1>1, <1>2, <1>3, SamePorts, SameGenerators DEF IInv, TypeOK, switch

-----------------------------------------------------------------------------
(* Theorems *)

LEMMA InitIInv ==
    ASSUME Init
    PROVE  IInv
  <1>1. /\ Up!Idle \in Up!Link(Packet) /\ Down!Idle \in Down!Link(Packet)
    BY DEF Up!Idle, Up!Link, Down!Idle, Down!Link
  <1>2. /\ up \in [Sources -> Up!Link(Packet)] /\ down \in [Ports -> Down!Link(Packet)]
    BY <1>1 DEF Init
  <1>3. /\ cur_addr \in [Sources -> Word] /\ generated \in [Sources -> Nat]
        /\ \A s \in Sources : generated[s] <= MaxPackets[s]
        /\ completed \in [Sources -> Nat]
    BY SourcesAssumption, AddressAssumption DEF Init, Word
  <1>4. req_queue \in Seq(Packet) /\ taken \in [Ports -> Seq(Packet)]
    BY DEF Init
  <1>5. TypeOK
    BY <1>2, <1>3, <1>4 DEF Init, TypeOK
  <1>. QED
    BY <1>5 DEF Init, IInv, Climbs

LEMMA NextIInv ==
    ASSUME IInv, [Next]_vars
    PROVE  IInv'
  <1>1. CASE UNCHANGED vars
    BY <1>1, SamePorts, SameGenerators DEF IInv, TypeOK, vars, switch, generator
  <1>. QED
    BY <1>1, GenerateStep, SourcePortTickStep, UnhandledStep, EnqueueStep, RouteRequestStep,
       SwitchTickStep, SwitchPortTickStep, TargetTakesStep, RespondStep DEF Next

\* The inductive invariant holds of every reachable state.
THEOREM InvariantHolds == Spec => []IInv
  BY InitIInv, NextIInv, PTL DEF Spec

\* Every reachable state of generators, switch and targets is well typed:
\* cursors are words, buffers and queues hold packets that generators made
\* (TrafficGenerator, Arbiter, Crossbar, Router).
THEOREM TypeCorrect == Spec => []TypeOK
  <1>1. IInv => TypeOK
    BY DEF IInv
  <1>. QED
    BY <1>1, InvariantHolds, PTL

\* Whatever cur_addr held before start_addr was initialised, a generator is
\* back in its range after one pass, for any range that ends a word before the
\* end of the address space (TrafficGenerator::issueRequest).
THEOREM AddressesRecover == Spec => []AddressRecovers
  <1>1. IInv => AddressRecovers
    <2>1. SUFFICES ASSUME IInv, NEW s \in Sources, generated[s] > (end_addr + 3) \div 4
                   PROVE  InRange(cur_addr[s])
      BY DEF AddressRecovers, InRange
    <2>2. generated[s] \in Nat /\ cur_addr[s] \in Nat /\ end_addr \in Nat
      BY <2>1, AddressAssumption DEF IInv, TypeOK, Word
    <2>3. 4 * (generated[s] - 1) >= end_addr
      BY <2>1, <2>2
    <2>. QED
      BY <2>1, <2>2, <2>3 DEF IInv, Climbs
  <1>. QED
    BY <1>1, InvariantHolds, PTL

-----------------------------------------------------------------------------
(* Every packet on its way was generated before, and waits at the upstream *)
(* port of its source until the switch takes it                            *)

Made == {x \in Packet : x.n <= generated[x.src]}
MadeBy(s) == {x \in Made : x.src = s}

MadeInv == /\ \A s \in Sources : up[s] \in Up!Link(MadeBy(s))
           /\ req_queue \in Seq(Made)
           /\ \A p \in Ports : down[p] \in Down!Link(Made) /\ taken[p] \in Seq(Made)
           /\ kind = "router" => req_queue = << >>

\* Time adds to what was made.
LEMMA MadeGrows ==
    ASSUME IInv, \A s \in Sources : generated'[s] \in Nat /\ generated[s] <= generated'[s]
    PROVE  /\ Made \subseteq Made' /\ Seq(Made) \subseteq Seq(Made')
           /\ Down!Link(Made) \subseteq Down!Link(Made')
           /\ \A s \in Sources : /\ MadeBy(s) \subseteq MadeBy(s)'
                                 /\ Up!Link(MadeBy(s)) \subseteq Up!Link(MadeBy(s)')
  <1>1. ASSUME NEW x \in Made
        PROVE  x \in Made'
    <2>1. x \in Packet /\ x.n \in Nat /\ x.src \in Sources
      BY DEF Made, Packet
    <2>2. generated[x.src] \in Nat /\ generated'[x.src] \in Nat
      BY <2>1 DEF IInv, TypeOK
    <2>3. x.n <= generated[x.src] /\ generated[x.src] <= generated'[x.src]
      BY <2>1 DEF Made
    <2>4. x.n <= generated'[x.src]
      BY <2>1, <2>2, <2>3
    <2>. QED
      BY <2>1, <2>4 DEF Made
  <1>2. \A s \in Sources : MadeBy(s) \subseteq MadeBy(s)'
    BY <1>1 DEF MadeBy
  <1>3. \A S, T : S \subseteq T => Seq(S) \subseteq Seq(T)
    OBVIOUS
  <1>4. \A S, T : S \subseteq T => /\ Up!Link(S) \subseteq Up!Link(T)
                                   /\ Down!Link(S) \subseteq Down!Link(T)
    BY <1>3 DEF Up!Link, Down!Link
  <1>. QED
    BY <1>1, <1>2, <1>3, <1>4

LEMMA SameMade ==
    ASSUME UNCHANGED generated
    PROVE  Made' = Made /\ \A s \in Sources : MadeBy(s)' = MadeBy(s)
  BY DEF Made, MadeBy

LEMMA GenerateMade ==
    ASSUME IInv, MadeInv, NEW s \in Sources, Generate(s)
    PROVE  LET p == [src |-> s, n |-> generated[s] + 1, addr |-> cur_addr[s]]
           IN /\ p \in MadeBy(s)' /\ p \notin Made /\ Made \subseteq Made'
              /\ MadeInv'
  <1>. DEFINE p == [src |-> s, n |-> generated[s] + 1, addr |-> cur_addr[s]]
  <1>1. /\ generated[s] \in Nat /\ cur_addr[s] \in Word
        /\ p \in Packet /\ p.src = s /\ p.n = generated[s] + 1
    BY DEF IInv, TypeOK, Packet
  <1>2. generated' = [generated EXCEPT ![s] = generated[s] + 1]
    BY DEF Generate
  <1>3. generated'[s] = generated[s] + 1
    BY <1>2 DEF IInv, TypeOK
  <1>4. p \in MadeBy(s)' /\ p \notin Made
    BY <1>1, <1>3 DEF MadeBy, Made
  <1>5. \A t \in Sources : generated'[t] \in Nat /\ generated[t] <= generated'[t]
    BY <1>2 DEF IInv, TypeOK
  <1>6. /\ up' = [up EXCEPT ![s] = Up!Sent(up[s], p)]
        /\ UNCHANGED <<switch, req_queue, down, taken>>
    BY DEF Generate
  <1>. HIDE DEF p
  <1>7. /\ Made \subseteq Made' /\ Seq(Made) \subseteq Seq(Made')
        /\ Down!Link(Made) \subseteq Down!Link(Made')
        /\ \A t \in Sources : Up!Link(MadeBy(t)) \subseteq Up!Link(MadeBy(t)')
    BY <1>5, MadeGrows
  <1>8. ASSUME NEW t \in Sources
        PROVE  up'[t] \in Up!Link(MadeBy(t)')
    <2>1. up[t] \in Up!Link(MadeBy(t)')
      BY <1>7 DEF MadeInv
    <2>2. CASE t = s
      BY <1>4, <1>6, <2>1, <2>2, SentLine DEF IInv, TypeOK, Up!Sent, Up!Link
    <2>3. CASE t # s
      BY <1>6, <2>1, <2>3 DEF IInv, TypeOK
    <2>. QED
      BY <2>2, <2>3
  <1>9. MadeInv'
    <2>1. Ports' = Ports /\ kind' = kind
      BY <1>6, SamePorts DEF switch
    <2>2. \A t \in Sources : (up[t] \in Up!Link(MadeBy(t)))'
      BY <1>8
    <2>. QED
      BY <1>6, <1>7, <2>1, <2>2 DEF MadeInv
  <1>. QED
    BY <1>4, <1>7, <1>9 DEF p

\* What the switch finds at upstream port s.
LEMMA ArrivesMade ==
    ASSUME IInv, MadeInv, NEW s \in Sources, up[s].in # << >>,
           up' = [up EXCEPT ![s] = Up!Taken(up[s])], UNCHANGED generated
    PROVE  /\ Head(up[s].in) \in MadeBy(s)
           /\ \A t \in Sources : up'[t] \in Up!Link(MadeBy(t)')
  <1>1. up[s] \in Up!Link(MadeBy(s))
    BY DEF MadeInv
  <1>2. Head(up[s].in) \in MadeBy(s) /\ Up!Taken(up[s]) \in Up!Link(MadeBy(s))
    BY <1>1, TakenLine DEF Up!Taken, Up!Link
  <1>3. \A t \in Sources : MadeBy(t)' = MadeBy(t)
    BY SameMade
  <1>. QED
    BY <1>2, <1>3 DEF MadeInv, IInv, TypeOK

\* What is sent downstream.
LEMMA ForwardMade ==
    ASSUME IInv, MadeInv, NEW p \in Ports, NEW pkt \in Made, Forward(p, pkt),
           UNCHANGED <<switch, generated>>
    PROVE  \A q \in Ports' : down'[q] \in Down!Link(Made') /\ taken'[q] \in Seq(Made')
  <1>1. /\ down' = [down EXCEPT ![p] = Down!Sent(down[p], pkt)] /\ UNCHANGED taken
        /\ Ports' = Ports /\ Made' = Made
    BY SamePorts, SameMade DEF Forward
  <1>2. Down!Sent(down[p], pkt) \in Down!Link(Made)
    BY SentLine DEF MadeInv, Down!Sent, Down!Link
  <1>. QED
    BY <1>1, <1>2 DEF MadeInv, IInv, TypeOK

LEMMA RouteInPorts ==
    ASSUME IInv, NEW pkt \in Packet, num_ports > 0
    PROVE  route(pkt) \in Ports
  <1>1. pkt.addr \in Nat /\ num_ports \in Nat
    <2>1. pkt.addr \in Word /\ num_ports \in PortCounts
      BY DEF Packet, IInv, TypeOK
    <2>. QED
      BY <2>1, AddressAssumption, KindsAssumption DEF Word
  <1>. QED
    BY <1>1 DEF route, Ports

LEMMA SwitchTickMade ==
    ASSUME IInv, MadeInv, SwitchTick
    PROVE  MadeInv' /\ Head(req_queue) \in Made
  <1>1. req_queue \in Seq(Made) /\ req_queue # << >>
    BY DEF MadeInv, SwitchTick, SwitchDrops, SwitchForwards
  <1>2. /\ Head(req_queue) \in Made /\ Tail(req_queue) \in Seq(Made)
        /\ requeued \in Seq(Made)
    BY <1>1, RotateOnce DEF requeued
  <1>3. /\ UNCHANGED <<switch, generated, up>>
        /\ req_queue' \in {Tail(req_queue), requeued}
    BY DEF SwitchTick, SwitchDrops, SwitchForwards, generator
  <1>4. /\ Made' = Made /\ \A s \in Sources : MadeBy(s)' = MadeBy(s)
        /\ Ports' = Ports /\ kind' = kind
    BY <1>3, SameMade, SamePorts DEF switch
  <1>5. \A q \in Ports' : down'[q] \in Down!Link(Made') /\ taken'[q] \in Seq(Made')
    <2>1. CASE SwitchDrops
      BY <1>4, <2>1 DEF SwitchDrops, MadeInv
    <2>2. CASE SwitchForwards
      <3>. DEFINE pkt == Head(req_queue)
                  p == route(pkt)
      <3>1. p \in Ports /\ Forward(p, pkt)
        BY <1>2, <2>2, RouteInPorts DEF SwitchForwards, Made
      <3>. HIDE DEF p
      <3>. QED
        BY <1>2, <1>3, <3>1, ForwardMade
    <2>. QED
      BY <2>1, <2>2 DEF SwitchTick
  <1>6. kind # "router"
    BY <1>1 DEF MadeInv
  <1>. QED
    BY <1>2, <1>3, <1>4, <1>5, <1>6 DEF MadeInv

LEMMA NextMade ==
    ASSUME IInv, MadeInv, [Next]_vars
    PROVE  MadeInv'
  <1>1. ASSUME NEW s \in Sources, Generate(s)
        PROVE  MadeInv'
    BY <1>1, GenerateMade
  <1>2. CASE SwitchTick
    BY <1>2, SwitchTickMade
  <1>3. CASE UNCHANGED <<switch, generated>> /\ ~SwitchTick /\ [Next]_vars
             /\ \A s \in Sources : ~Generate(s)
    <2>1. /\ Made' = Made /\ \A s \in Sources : MadeBy(s)' = MadeBy(s)
          /\ Ports' = Ports /\ kind' = kind
      BY <1>3, SameMade, SamePorts DEF switch
    <2>2. ASSUME NEW s \in Sources, SourcePortTick(s)
          PROVE  MadeInv'
      <3>1. up' = [up EXCEPT ![s] = Up!Retried(up[s])] /\ UNCHANGED <<req_queue, down, taken>>
        BY <2>2 DEF SourcePortTick
      <3>2. Up!Retried(up[s]) \in Up!Link(MadeBy(s))
        BY RetriedLine DEF MadeInv, Up!Retried, Up!Behind, Up!Link
      <3>. QED
        BY <2>1, <3>1, <3>2 DEF MadeInv, IInv, TypeOK
    <2>3. ASSUME NEW s \in Sources, Enqueue(s)
          PROVE  MadeInv'
      <3>1. /\ up[s].in # << >> /\ up' = [up EXCEPT ![s] = Up!Taken(up[s])]
            /\ req_queue' = Append(req_queue, Head(up[s].in)) /\ kind # "router"
            /\ UNCHANGED <<down, taken>>
        BY <2>3 DEF Enqueue, Arrives, pushed
      <3>2. /\ Head(up[s].in) \in MadeBy(s)
            /\ \A t \in Sources : up'[t] \in Up!Link(MadeBy(t)')
        BY <1>3, <3>1, ArrivesMade
      <3>3. Head(up[s].in) \in Made
        BY <3>2 DEF MadeBy
      <3>4. req_queue' \in Seq(Made)
        BY <3>1, <3>3 DEF MadeInv
      <3>. QED
        BY <2>1, <3>1, <3>2, <3>4 DEF MadeInv
    <2>4. ASSUME NEW s \in Sources, RouteRequest(s)
          PROVE  MadeInv'
      <3>. DEFINE pkt == Head(up[s].in)
                  p == routeByAddress(pkt.addr)
      <3>1. /\ up[s].in # << >> /\ up' = [up EXCEPT ![s] = Up!Taken(up[s])]
            /\ UNCHANGED req_queue
            /\ \/ UNCHANGED <<down, taken>>
               \/ (p \in Ports /\ Forward(p, pkt))
        BY <2>4 DEF RouteRequest, Arrives
      <3>2. /\ pkt \in MadeBy(s)
            /\ \A t \in Sources : up'[t] \in Up!Link(MadeBy(t)')
        BY <1>3, <3>1, ArrivesMade
      <3>3. pkt \in Made
        BY <3>2 DEF MadeBy
      <3>. HIDE DEF pkt, p
      <3>4. \A q \in Ports' : down'[q] \in Down!Link(Made') /\ taken'[q] \in Seq(Made')
        BY <1>3, <2>1, <3>1, <3>3, ForwardMade DEF MadeInv
      <3>. QED
        BY <2>1, <3>1, <3>2, <3>4 DEF MadeInv
    <2>5. ASSUME NEW p \in Ports, SwitchPortTick(p)
          PROVE  MadeInv'
      <3>1. down' = [down EXCEPT ![p] = Down!Retried(down[p])] /\ UNCHANGED <<up, req_queue, taken>>
        BY <2>5 DEF SwitchPortTick
      <3>2. Down!Retried(down[p]) \in Down!Link(Made)
        BY RetriedLine DEF MadeInv, Down!Retried, Down!Behind, Down!Link
      <3>. QED
        BY <2>1, <3>1, <3>2 DEF MadeInv, IInv, TypeOK
    <2>6. ASSUME NEW p \in Ports, TargetTakes(p)
          PROVE  MadeInv'
      <3>1. /\ down[p].in # << >> /\ down' = [down EXCEPT ![p] = Down!Taken(down[p])]
            /\ taken' = [taken EXCEPT ![p] = Append(taken[p], Head(down[p].in))]
            /\ UNCHANGED <<up, req_queue>>
        BY <2>6 DEF TargetTakes
      <3>2. Down!Taken(down[p]) \in Down!Link(Made) /\ Head(down[p].in) \in Made
        BY <3>1, TakenLine DEF MadeInv, Down!Taken, Down!Link
      <3>3. Append(taken[p], Head(down[p].in)) \in Seq(Made)
        BY <3>2 DEF MadeInv
      <3>. QED
        BY <2>1, <3>1, <3>2, <3>3 DEF MadeInv, IInv, TypeOK
    <2>7. CASE UNCHANGED <<up, req_queue, down, taken>>
      BY <2>1, <2>7 DEF MadeInv
    <2>. QED
      BY <1>3, <2>2, <2>3, <2>4, <2>5, <2>6, <2>7 DEF Next, Unhandled, Respond, vars
  <1>4. \/ \E s \in Sources : Generate(s)
        \/ SwitchTick
        \/ UNCHANGED <<switch, generated>>
    BY DEF Next, SourcePortTick, Unhandled, Enqueue, RouteRequest, Arrives, SwitchPortTick,
           TargetTakes, Respond, vars, generator
  <1>. QED
    BY <1>1, <1>2, <1>3, <1>4

\* No buffer, queue or target ever holds a packet that its source has not
\* generated, and a router queues nothing (TrafficGenerator::tick).
THEOREM OnlyMadePackets == Spec => []MadeInv
  <1>1. Init => MadeInv
    BY DEF Init, MadeInv, Up!Idle, Up!Link, Down!Idle, Down!Link
  <1>2. IInv /\ MadeInv /\ [Next]_vars => MadeInv'
    BY NextMade
  <1>. QED
    BY <1>1, <1>2, InvariantHolds, PTL DEF Spec

-----------------------------------------------------------------------------
(* Order per source.  A port that has refused a packet has others waiting   *)
(* and delivers nothing more, so the order of the queue matters to the      *)
(* ports only that are not behind.                                          *)

\* The pairs of packets the first of which may be before the second, and the
\* same for packets to port p alone.
Earlier == {pair \in Packet \X Packet : pair[1].src = pair[2].src => pair[1].n < pair[2].n}
EarlierFor(p) == {pair \in Packet \X Packet :
                    route(pair[1]) = p /\ route(pair[2]) = p => pair \in Earlier}

Reached(p) == taken[p] \o down[p].in
Waiting(p) == {x \in Range(req_queue) : route(x) = p}

OrderInv ==
    /\ \A s \in Sources : /\ Ordered(up[s].in, Earlier)
                          /\ Precede(Range(req_queue), Range(up[s].in), Earlier)
    /\ \A p \in Ports :
        /\ Ordered(Reached(p), Earlier)
        /\ \A s \in Sources : Precede(Range(Reached(p)), Range(up[s].in), Earlier)
        /\ ~Down!Behind(down[p]) => /\ Ordered(req_queue, EarlierFor(p))
                                    /\ Precede(Range(Reached(p)), Waiting(p), Earlier)

\* What the queues hold.
LEMMA QueuesMade ==
    ASSUME MadeInv
    PROVE  /\ req_queue \in Seq(Made) /\ Range(req_queue) \subseteq Made
           /\ \A s \in Sources : /\ up[s].in \in Seq(MadeBy(s)) /\ up[s].in \in Seq(Made)
                                 /\ Range(up[s].in) \subseteq MadeBy(s)
           /\ \A p \in Ports : /\ taken[p] \in Seq(Made) /\ down[p].in \in Seq(Made)
                               /\ Reached(p) \in Seq(Made) /\ Range(Reached(p)) \subseteq Made
           /\ Made \subseteq Packet
  <1>1. \A S : \A q \in Seq(S) : Range(q) \subseteq S
    BY DEF Range
  <1>2. req_queue \in Seq(Made) /\ Made \subseteq Packet
    BY DEF MadeInv, Made
  <1>3. ASSUME NEW s \in Sources
        PROVE  up[s].in \in Seq(MadeBy(s)) /\ up[s].in \in Seq(Made)
    <2>1. up[s].in \in Seq(MadeBy(s))
      BY DEF MadeInv, Up!Link
    <2>2. MadeBy(s) \subseteq Made
      BY DEF MadeBy
    <2>3. Seq(MadeBy(s)) \subseteq Seq(Made)
      BY <2>2
    <2>. QED
      BY <2>1, <2>3
  <1>4. ASSUME NEW p \in Ports
        PROVE  taken[p] \in Seq(Made) /\ down[p].in \in Seq(Made) /\ Reached(p) \in Seq(Made)
    <2>1. taken[p] \in Seq(Made) /\ down[p].in \in Seq(Made)
      BY DEF MadeInv, Down!Link
    <2>. QED
      BY <2>1 DEF Reached
  <1>. QED
    BY <1>1, <1>2, <1>3, <1>4

\* Packets of different sources do not mind.
LEMMA OtherSources ==
    ASSUME NEW s \in Sources, NEW t \in Sources, s # t, NEW x \in MadeBy(s), NEW y \in MadeBy(t)
    PROVE  <<x, y>> \in Earlier
  BY DEF MadeBy, Made, Earlier

LEMMA GenerateInOrder ==
    ASSUME IInv, MadeInv, OrderInv, NEW s \in Sources, Generate(s)
    PROVE  OrderInv'
  <1>. DEFINE p == [src |-> s, n |-> generated[s] + 1, addr |-> cur_addr[s]]
              l == up[s]
              k == Up!Sent(l, p)
  <1>1. /\ p \in Packet /\ generated[s] \in Nat /\ p.src = s /\ p.n = generated[s] + 1
        /\ l \in Up!Link(Packet) /\ l.in \in Seq(Packet)
    <2>1. generated[s] \in Nat /\ cur_addr[s] \in Word /\ l \in Up!Link(Packet)
      BY DEF IInv, TypeOK
    <2>. HIDE DEF l
    <2>2. l.in \in Seq(Packet)
      BY <2>1 DEF Up!Link
    <2>. QED
      BY <2>1, <2>2 DEF Packet
  <1>2. ASSUME NEW x \in Made
        PROVE  <<x, p>> \in Earlier
    <2>1. x \in Packet /\ x.n \in Nat /\ (x.src = s => x.n <= generated[s])
      BY DEF Made, Packet
    <2>2. x.src = p.src => x.n < p.n
      BY <1>1, <2>1
    <2>. QED
      BY <1>1, <2>1, <2>2 DEF Earlier
  <1>3. /\ up' = [up EXCEPT ![s] = k]
        /\ UNCHANGED <<switch, req_queue, down, taken>>
    BY DEF Generate
  <1>. HIDE DEF p
  <1>4. k.in = l.in \/ k.in = Append(l.in, p)
    BY <1>1, SentLine DEF Up!Sent, Up!Link, Up!Direct, Up!Queued, Up!Accepted, Up!Deletes, Up!Behind
  <1>5. Range(l.in) \subseteq Made /\ Ordered(l.in, Earlier)
    BY QueuesMade DEF OrderInv, MadeBy
  <1>6. Precede(Range(l.in), {p}, Earlier)
    BY <1>2, <1>5 DEF Precede
  <1>7. up'[s] = k /\ \A t \in Sources \ {s} : up'[t] = up[t]
    BY <1>3 DEF IInv, TypeOK
  <1>. HIDE DEF k
  <1>8. ASSUME NEW t \in Sources
        PROVE  /\ Ordered(up'[t].in, Earlier)
               /\ Range(up'[t].in) \subseteq Range(up[t].in) \cup {p}
    <2>1. CASE t = s
      <3>. HIDE DEF l
      <3>1. Range(Append(l.in, p)) = Range(l.in) \cup {p} /\ Ordered(Append(l.in, p), Earlier)
        BY <1>1, <1>5, <1>6, AppendOnce, AppendOrdered
      <3>2. Ordered(k.in, Earlier) /\ Range(k.in) \subseteq Range(l.in) \cup {p}
        BY <1>4, <1>5, <3>1
      <3>. QED
        BY <1>7, <2>1, <3>2 DEF l
    <2>2. CASE t # s
      BY <1>7, <2>2 DEF OrderInv
    <2>. QED
      BY <2>1, <2>2
  <1>9. /\ Precede(Range(req_queue), {p}, Earlier)
        /\ \A q \in Ports : Precede(Range(Reached(q)), {p}, Earlier)
    BY <1>2, QueuesMade DEF Precede
  <1>10. /\ Ports' = Ports
         /\ \A q : Reached(q)' = Reached(q) /\ Waiting(q)' = Waiting(q)
                   /\ EarlierFor(q)' = EarlierFor(q)
    BY <1>3, SamePorts DEF Reached, Waiting, EarlierFor, route, switch
  <1>. QED
    BY <1>3, <1>8, <1>9, <1>10 DEF OrderInv, Precede

\* A packet that leaves an upstream port has been before the others there, and
\* after all that were behind the port.
LEMMA ArrivesInOrder ==
    ASSUME IInv, MadeInv, OrderInv, NEW s \in Sources, up[s].in # << >>,
           up' = [up EXCEPT ![s] = Up!Taken(up[s])]
    PROVE  LET x == Head(up[s].in)
           IN /\ x \in Made
              /\ Precede(Range(req_queue), {x}, Earlier)
              /\ \A p \in Ports : Precede(Range(Reached(p)), {x}, Earlier)
              /\ \A t \in Sources : /\ Ordered(up'[t].in, Earlier)
                                    /\ Range(up'[t].in) \subseteq Range(up[t].in)
                                    /\ Precede({x}, Range(up'[t].in), Earlier)
  <1>. DEFINE q == up[s].in
              x == Head(q)
  <1>1. q \in Seq(MadeBy(s)) /\ q # << >>
    BY QueuesMade
  <1>2. up'[s].in = Tail(q) /\ \A t \in Sources \ {s} : up'[t] = up[t]
    BY DEF IInv, TypeOK, Up!Taken, Up!Link
  <1>3. Ordered(q, Earlier)
    BY DEF OrderInv
  <1>. HIDE DEF q
  <1>4. x \in Range(q) /\ x \in MadeBy(s) /\ Range(Tail(q)) \subseteq Range(q)
    BY <1>1, TailOnce
  <1>5. Ordered(Tail(q), Earlier) /\ Precede({x}, Range(Tail(q)), Earlier)
    BY <1>1, <1>3, TailOrdered
  <1>6. /\ Precede(Range(req_queue), {x}, Earlier)
        /\ \A p \in Ports : Precede(Range(Reached(p)), {x}, Earlier)
    BY <1>4 DEF OrderInv, Precede, q
  <1>. HIDE DEF x
  <1>7. ASSUME NEW t \in Sources
        PROVE  /\ Ordered(up'[t].in, Earlier)
               /\ Range(up'[t].in) \subseteq Range(up[t].in)
               /\ Precede({x}, Range(up'[t].in), Earlier)
    <2>1. CASE t = s
      BY <1>2, <1>4, <1>5, <2>1 DEF q
    <2>2. CASE t # s
      <3>1. Range(up[t].in) \subseteq MadeBy(t)
        BY QueuesMade
      <3>2. Precede({x}, Range(up[t].in), Earlier)
        BY <1>4, <2>2, <3>1, OtherSources DEF Precede
      <3>. QED
        BY <1>2, <2>2, <3>2 DEF OrderInv
    <2>. QED
      BY <2>1, <2>2
  <1>8. x \in Made
    BY <1>4 DEF MadeBy
  <1>. QED
    BY <1>6, <1>7, <1>8 DEF x, q

LEMMA EnqueueInOrder ==
    ASSUME IInv, MadeInv, OrderInv, NEW s \in Sources, Enqueue(s)
    PROVE  OrderInv'
  <1>. DEFINE x == Head(up[s].in)
  <1>1. /\ up[s].in # << >> /\ up' = [up EXCEPT ![s] = Up!Taken(up[s])]
        /\ req_queue' = Append(req_queue, x)
        /\ UNCHANGED <<switch, down, taken>>
    BY DEF Enqueue, Arrives, pushed
  <1>2. /\ x \in Made
        /\ Precede(Range(req_queue), {x}, Earlier)
        /\ \A p \in Ports : Precede(Range(Reached(p)), {x}, Earlier)
        /\ \A t \in Sources : /\ Ordered(up'[t].in, Earlier)
                              /\ Range(up'[t].in) \subseteq Range(up[t].in)
                              /\ Precede({x}, Range(up'[t].in), Earlier)
    BY <1>1, ArrivesInOrder
  <1>. HIDE DEF x
  <1>3. /\ Ports' = Ports
        /\ \A p : Reached(p)' = Reached(p) /\ EarlierFor(p)' = EarlierFor(p)
        /\ \A y : route(y)' = route(y)
    BY <1>1, SamePorts DEF Reached, EarlierFor, route, switch
  <1>4. Range(req_queue') = Range(req_queue) \cup {x}
    BY <1>1, <1>2, QueuesMade, AppendOnce
  <1>5. ASSUME NEW p \in Ports, ~Down!Behind(down[p])
        PROVE  /\ Ordered(req_queue', EarlierFor(p))
               /\ Precede(Range(Reached(p)), Waiting(p)', Earlier)
    <2>1. Ordered(req_queue, EarlierFor(p)) /\ Precede(Range(Reached(p)), Waiting(p), Earlier)
      BY <1>5 DEF OrderInv
    <2>2. Earlier \subseteq EarlierFor(p)
      BY DEF Earlier, EarlierFor
    <2>3. Precede(Range(req_queue), {x}, EarlierFor(p))
      BY <1>2, <2>2 DEF Precede
    <2>4. Ordered(req_queue', EarlierFor(p))
      BY <1>1, <1>2, <2>1, <2>3, QueuesMade, AppendOrdered
    <2>5. Waiting(p)' \subseteq Waiting(p) \cup {x}
      BY <1>3, <1>4 DEF Waiting
    <2>. QED
      BY <1>2, <2>1, <2>4, <2>5 DEF Precede
  <1>6. \A t \in Sources : Precede(Range(req_queue'), Range(up'[t].in), Earlier)
    BY <1>2, <1>4 DEF OrderInv, Precede
  <1>7. \A p \in Ports : \A t \in Sources : Precede(Range(Reached(p)), Range(up'[t].in), Earlier)
    BY <1>2 DEF OrderInv, Precede
  <1>8. \A p \in Ports : Ordered(Reached(p), Earlier) /\ (Down!Behind(down'[p]) <=> Down!Behind(down[p]))
    BY <1>1 DEF OrderInv
  <1>. QED
    BY <1>2, <1>3, <1>5, <1>6, <1>7, <1>8 DEF OrderInv

\* A packet that is sent through port p, after all that have reached it.
LEMMA ForwardInOrder ==
    ASSUME IInv, MadeInv, OrderInv, NEW p \in Ports, NEW x \in Made,
           Forward(p, x), UNCHANGED <<kind, num_ports>>,
           ~Down!Behind(down[p]) => Precede(Range(Reached(p)), {x}, Earlier)
    PROVE  /\ \A q \in Ports : q # p => Reached(q)' = Reached(q) /\ down'[q] = down[q]
           /\ Ordered(Reached(p)', Earlier)
           /\ Range(Reached(p)') \subseteq Range(Reached(p)) \cup {x}
           /\ ~Down!Behind(down'[p]) => Down!Accepted(down[p]) /\ ~Down!Behind(down[p])
  <1>. DEFINE l == down[p]
              k == Down!Sent(l, x)
  <1>1. /\ l \in Down!Link(Made) /\ l.in \in Seq(Made) /\ taken[p] \in Seq(Made)
        /\ Reached(p) = taken[p] \o l.in
    BY QueuesMade DEF MadeInv, Reached
  <1>2. down' = [down EXCEPT ![p] = k] /\ UNCHANGED taken
    BY DEF Forward
  <1>3. \A q \in Ports : q # p => Reached(q)' = Reached(q) /\ down'[q] = down[q]
    BY <1>2 DEF Reached, IInv, TypeOK
  <1>4. down'[p] = k /\ Reached(p)' = taken[p] \o k.in
    BY <1>2 DEF Reached, IInv, TypeOK
  <1>. HIDE DEF l
  <1>5. /\ Down!Direct(l) => /\ Down!Accepted(l) /\ ~Down!Behind(l)
                             /\ k.in = Append(l.in, x)
        /\ ~Down!Direct(l) => k.in = l.in
    BY <1>1, SentLine
       DEF Down!Direct, Down!Sent, Down!Link, Down!Queued, Down!Accepted, Down!Deletes, Down!Behind
  <1>6. ~Down!Direct(l) => Down!Behind(k)
    <2>1. SUFFICES ASSUME ~Down!Direct(l)
                   PROVE  k.out # << >>
      BY DEF Down!Behind
    <2>2. l.out \in Seq(Made) /\ Len(l.out) \in Nat /\ DownOut \in Nat \ {0}
      BY <1>1, BuffersAssumption DEF Down!Link
    <2>3. CASE Down!Queued(l)
      <3>1. k.out = Append(l.out, x)
        BY <1>1, <2>1, <2>3 DEF Down!Sent, Down!Link
      <3>. QED
        BY <2>2, <3>1
    <2>4. CASE ~Down!Queued(l)
      <3>1. k = l
        BY <2>1, <2>4 DEF Down!Sent
      <3>2. Len(l.out) >= DownOut
        BY <2>1, <2>2, <2>4 DEF Down!Queued
      <3>3. Len(l.out) # 0
        BY <2>2, <3>2
      <3>. QED
        BY <2>2, <3>1, <3>3
    <2>. QED
      BY <2>3, <2>4
  <1>. HIDE DEF k
  <1>7. CASE Down!Direct(l)
    <2>1. Reached(p)' = Append(Reached(p), x)
      <3>. DEFINE a == taken[p]
                  b == l.in
      <3>1. a \in Seq(Made) /\ b \in Seq(Made)
        BY <1>1
      <3>2. Reached(p) = a \o b /\ Reached(p)' = a \o Append(b, x)
        BY <1>1, <1>4, <1>5, <1>7
      <3>. HIDE DEF a, b
      <3>3. a \o Append(b, x) = Append(a \o b, x)
        BY <3>1, ConcatEnds
      <3>. QED
        BY <3>2, <3>3
    <2>2. Reached(p) \in Seq(Made) /\ Ordered(Reached(p), Earlier)
          /\ Precede(Range(Reached(p)), {x}, Earlier)
      BY <1>5, <1>7, QueuesMade DEF OrderInv, l
    <2>. QED
      BY <1>3, <1>5, <1>7, <2>1, <2>2, AppendOnce, AppendOrdered DEF l
  <1>8. CASE ~Down!Direct(l)
    <2>1. Reached(p)' = Reached(p)
      BY <1>1, <1>4, <1>5, <1>8
    <2>. QED
      BY <1>3, <1>4, <1>6, <1>8, <2>1 DEF OrderInv
  <1>. QED
    BY <1>7, <1>8

LEMMA SwitchForwardsInOrder ==
    ASSUME IInv, MadeInv, OrderInv, SwitchForwards
    PROVE  OrderInv'
  <1>. PICK x, p : x = Head(req_queue) /\ p = route(x)
    OBVIOUS
  <1>1. /\ req_queue # << >> /\ num_ports > 0 /\ Forward(p, x)
        /\ req_queue' = IF Down!Accepted(down[p]) THEN Tail(req_queue) ELSE requeued
        /\ UNCHANGED <<switch, up>>
    BY DEF SwitchForwards
  <1>2. /\ x \in Made /\ x \in Range(req_queue)
        /\ Range(Tail(req_queue)) \subseteq Range(req_queue)
        /\ Tail(req_queue) \in Seq(Made)
    BY <1>1, QueuesMade, TailOnce
  <1>3. p \in Ports /\ p = route(x)
    BY <1>1, <1>2, QueuesMade, RouteInPorts
  <1>4. ~Down!Behind(down[p]) => Precede(Range(Reached(p)), {x}, Earlier)
    BY <1>2, <1>3 DEF OrderInv, Precede, Waiting
  <1>5. /\ \A q \in Ports : q # p => Reached(q)' = Reached(q) /\ down'[q] = down[q]
        /\ Ordered(Reached(p)', Earlier)
        /\ Range(Reached(p)') \subseteq Range(Reached(p)) \cup {x}
        /\ ~Down!Behind(down'[p]) => Down!Accepted(down[p]) /\ ~Down!Behind(down[p])
    <2>1. UNCHANGED <<kind, num_ports>>
      BY <1>1 DEF switch
    <2>. QED
      BY <1>1, <1>2, <1>3, <1>4, <2>1, ForwardInOrder
  <1>6. /\ Ports' = Ports /\ \A y : route(y)' = route(y)
        /\ \A q : EarlierFor(q)' = EarlierFor(q)
    BY <1>1, SamePorts DEF EarlierFor, route, switch
  <1>7. /\ requeued = Append(Tail(req_queue), x)
        /\ Range(req_queue') \subseteq Range(req_queue)
    <2>1. requeued = Append(Tail(req_queue), x)
      BY DEF requeued
    <2>2. Range(requeued) = Range(req_queue)
      BY <1>1, QueuesMade, RotateOnce DEF requeued
    <2>. QED
      BY <1>1, <1>2, <2>1, <2>2
  <1>8. ASSUME NEW t \in Sources
        PROVE  /\ Ordered(up'[t].in, Earlier)
               /\ Precede(Range(req_queue'), Range(up'[t].in), Earlier)
               /\ \A q \in Ports : Precede(Range(Reached(q)'), Range(up'[t].in), Earlier)
    <2>1. up' = up
      BY <1>1
    <2>2. ASSUME NEW q \in Ports
          PROVE  Range(Reached(q)') \subseteq Range(Reached(q)) \cup {x}
      <3>1. CASE q = p
        BY <1>5, <3>1
      <3>2. CASE q # p
        BY <1>5, <3>2
      <3>. QED
        BY <3>1, <3>2
    <2>3. /\ Ordered(up[t].in, Earlier)
          /\ Precede(Range(req_queue), Range(up[t].in), Earlier)
          /\ \A q \in Ports : Precede(Range(Reached(q)), Range(up[t].in), Earlier)
      BY DEF OrderInv
    <2>. QED
      BY <1>2, <1>7, <2>1, <2>2, <2>3 DEF Precede
  <1>9. ASSUME NEW q \in Ports
        PROVE  /\ Ordered(Reached(q)', Earlier)
               /\ ~Down!Behind(down'[q]) => /\ Ordered(req_queue', EarlierFor(q))
                                            /\ Precede(Range(Reached(q)'), Waiting(q)', Earlier)
    <2>1. Waiting(q)' \subseteq Waiting(q)
      BY <1>6, <1>7 DEF Waiting
    <2>2. ~Down!Behind(down[q]) =>
             /\ Ordered(req_queue, EarlierFor(q))
             /\ Precede(Range(Reached(q)), Waiting(q), Earlier)
             /\ Ordered(Tail(req_queue), EarlierFor(q))
             /\ Precede({x}, Range(Tail(req_queue)), EarlierFor(q))
      BY <1>1, QueuesMade, TailOrdered DEF OrderInv
    <2>3. CASE q = p
      <3>1. ASSUME ~Down!Behind(down'[p])
            PROVE  /\ Ordered(req_queue', EarlierFor(p))
                   /\ Precede(Range(Reached(p)'), Waiting(p)', Earlier)
        <4>1. req_queue' = Tail(req_queue) /\ ~Down!Behind(down[p])
          BY <1>1, <1>5, <3>1
        <4>2. ASSUME NEW y \in Waiting(p)'
              PROVE  <<x, y>> \in Earlier
          <5>1. y \in Range(req_queue') /\ route(y)' = p
            BY DEF Waiting
          <5>3. y \in Range(Tail(req_queue)) /\ route(y) = p
            BY <1>6, <4>1, <5>1
          <5>2. <<x, y>> \in EarlierFor(p)
            BY <2>2, <2>3, <4>1, <5>3 DEF Precede
          <5>. QED
            BY <1>3, <5>3, <5>2 DEF EarlierFor
        <4>. QED
          BY <1>5, <2>1, <2>2, <2>3, <4>1, <4>2 DEF Precede
      <3>. QED
        BY <1>5, <2>3, <3>1
    <2>4. CASE q # p
      <3>1. Reached(q)' = Reached(q) /\ down'[q] = down[q]
        BY <1>5, <2>4
      <3>2. \A y \in Range(Tail(req_queue)) : <<y, x>> \in EarlierFor(q)
        BY <1>2, <1>3, <2>4, QueuesMade DEF EarlierFor
      <3>3. ~Down!Behind(down[q]) => Ordered(requeued, EarlierFor(q))
        BY <1>2, <1>7, <2>2, <3>2, AppendOrdered DEF Precede
      <3>4. ~Down!Behind(down[q]) => Ordered(req_queue', EarlierFor(q))
        BY <1>1, <2>2, <3>3
      <3>. QED
        BY <2>1, <2>2, <3>1, <3>4 DEF OrderInv, Precede
    <2>. QED
      BY <2>3, <2>4
  <1>. QED
    BY <1>6, <1>8, <1>9 DEF OrderInv

LEMMA SwitchDropsInOrder ==
    ASSUME IInv, MadeInv, OrderInv, SwitchDrops
    PROVE  OrderInv'
  <1>1. /\ req_queue # << >> /\ num_ports = 0 /\ req_queue' = Tail(req_queue)
        /\ UNCHANGED <<switch, up, down, taken>>
    BY DEF SwitchDrops
  <1>2. Ports' = {}
    BY <1>1 DEF Ports, switch
  <1>3. Range(Tail(req_queue)) \subseteq Range(req_queue)
    BY <1>1, QueuesMade, TailOnce
  <1>. QED
    BY <1>1, <1>2, <1>3 DEF OrderInv, Precede

LEMMA RouteRequestInOrder ==
    ASSUME IInv, MadeInv, OrderInv, NEW s \in Sources, RouteRequest(s)
    PROVE  OrderInv'
  <1>. PICK x, p : x = Head(up[s].in) /\ p = routeByAddress(x.addr)
    OBVIOUS
  <1>1. /\ kind = "router" /\ up[s].in # << >> /\ up' = [up EXCEPT ![s] = Up!Taken(up[s])]
        /\ UNCHANGED <<switch, req_queue>>
        /\ \/ UNCHANGED <<down, taken>>
           \/ (p \in Ports /\ Forward(p, x))
    BY DEF RouteRequest, Arrives
  <1>2. /\ x \in Made
        /\ \A q \in Ports : Precede(Range(Reached(q)), {x}, Earlier)
        /\ \A t \in Sources : /\ Ordered(up'[t].in, Earlier)
                              /\ Range(up'[t].in) \subseteq Range(up[t].in)
                              /\ Precede({x}, Range(up'[t].in), Earlier)
    BY <1>1, ArrivesInOrder
  <1>3. Ports' = Ports /\ req_queue = << >> /\ req_queue' = << >>
    BY <1>1, SamePorts DEF MadeInv
  <1>4. ASSUME NEW q \in Ports
        PROVE  /\ Ordered(Reached(q)', Earlier)
               /\ Range(Reached(q)') \subseteq Range(Reached(q)) \cup {x}
    <2>1. CASE UNCHANGED <<down, taken>>
      BY <2>1 DEF OrderInv, Reached
    <2>2. CASE p \in Ports /\ Forward(p, x)
      <3>1. /\ \A r \in Ports : r # p => Reached(r)' = Reached(r) /\ down'[r] = down[r]
            /\ Ordered(Reached(p)', Earlier)
            /\ Range(Reached(p)') \subseteq Range(Reached(p)) \cup {x}
        <4>1. UNCHANGED <<kind, num_ports>> /\ Precede(Range(Reached(p)), {x}, Earlier)
          BY <1>1, <1>2, <2>2 DEF switch
        <4>. QED
          BY <1>2, <2>2, <4>1, ForwardInOrder
      <3>2. CASE q = p
        BY <3>1, <3>2
      <3>3. CASE q # p
        BY <3>1, <3>3 DEF OrderInv
      <3>. QED
        BY <3>2, <3>3
    <2>. QED
      BY <1>1, <2>1, <2>2
  <1>5. ASSUME NEW q \in Ports, NEW t \in Sources
        PROVE  Precede(Range(Reached(q)'), Range(up'[t].in), Earlier)
    BY <1>2, <1>4 DEF OrderInv, Precede
  <1>6. \A q : Waiting(q)' = {} /\ Ordered(req_queue', EarlierFor(q)')
    BY <1>3, EmptyOrdered DEF Waiting
  <1>7. Range(req_queue') = {}
    BY <1>3, EmptyOrdered
  <1>. QED
    BY <1>2, <1>3, <1>4, <1>5, <1>6, <1>7 DEF OrderInv, Precede

\* A retry turns around what waits outside, never what a receiver sees, and
\* the port stays behind.
LEMMA RetriesInOrder ==
    ASSUME IInv, MadeInv, OrderInv,
           \/ \E s \in Sources : SourcePortTick(s)
           \/ \E p \in Ports : SwitchPortTick(p)
    PROVE  OrderInv'
  <1>1. ASSUME NEW s \in Sources, SourcePortTick(s)
        PROVE  OrderInv'
    <2>1. /\ up' = [up EXCEPT ![s] = Up!Retried(up[s])]
          /\ UNCHANGED <<switch, req_queue, down, taken>>
      BY <1>1 DEF SourcePortTick
    <2>2. Up!Retried(up[s]).in = up[s].in
      BY RetriedLine DEF IInv, TypeOK, Up!Retried, Up!Behind, Up!Link
    <2>3. \A t \in Sources : up'[t].in = up[t].in
      BY <2>1, <2>2 DEF IInv, TypeOK
    <2>4. /\ Ports' = Ports
          /\ \A q : Reached(q)' = Reached(q) /\ Waiting(q)' = Waiting(q)
                    /\ EarlierFor(q)' = EarlierFor(q)
      BY <2>1, SamePorts DEF Reached, Waiting, EarlierFor, route, switch
    <2>. QED
      BY <2>1, <2>3, <2>4 DEF OrderInv
  <1>2. ASSUME NEW p \in Ports, SwitchPortTick(p)
        PROVE  OrderInv'
    <2>1. /\ down' = [down EXCEPT ![p] = Down!Retried(down[p])]
          /\ Down!Behind(down[p]) /\ UNCHANGED <<switch, up, req_queue, taken>>
      BY <1>2 DEF SwitchPortTick
    <2>. DEFINE l == down[p]
                k == Down!Retried(l)
    <2>2. l \in Down!Link(Packet) /\ Down!Behind(l)
      BY <2>1 DEF IInv, TypeOK
    <2>. HIDE DEF l
    <2>3. k.in = l.in
      BY <2>2, RetriedLine DEF Down!Retried, Down!Behind, Down!Link
    <2>4. Down!Behind(k)
      <3>1. l.out \in Seq(Packet) /\ l.out # << >>
        BY <2>2 DEF Down!Link, Down!Behind
      <3>. DEFINE a == l.out
      <3>2. a \in Seq(Packet) /\ a # << >>
        BY <3>1
      <3>. HIDE DEF a
      <3>3. Append(Tail(a), Head(a)) \in Seq(Packet) /\ Len(Append(Tail(a), Head(a))) = Len(a)
            /\ Len(a) # 0
        BY <3>2, RotateOnce
      <3>4. Append(Tail(a), Head(a)) # << >>
        BY <3>3
      <3>5. Append(Tail(l.out), Head(l.out)) # << >>
        BY <3>4 DEF a
      <3>6. k.out = l.out \/ k.out = Append(Tail(l.out), Head(l.out))
        BY <2>2, RetriedLine DEF Down!Retried, Down!Behind, Down!Link
      <3>. QED
        BY <3>1, <3>5, <3>6 DEF Down!Behind
    <2>. HIDE DEF k
    <2>5. \A q \in Ports : down'[q].in = down[q].in /\ (Down!Behind(down'[q]) <=> Down!Behind(down[q]))
      BY <2>1, <2>2, <2>3, <2>4 DEF IInv, TypeOK, k, l
    <2>6. /\ Ports' = Ports
          /\ \A q \in Ports : Reached(q)' = Reached(q)
          /\ \A q : Waiting(q)' = Waiting(q) /\ EarlierFor(q)' = EarlierFor(q)
      BY <2>1, <2>5, SamePorts DEF Reached, Waiting, EarlierFor, route, switch
    <2>. QED
      BY <2>1, <2>5, <2>6 DEF OrderInv
  <1>. QED
    BY <1>1, <1>2

LEMMA TargetTakesInOrder ==
    ASSUME IInv, MadeInv, OrderInv, NEW p \in Ports, TargetTakes(p)
    PROVE  OrderInv'
  <1>1. /\ down[p].in # << >> /\ down' = [down EXCEPT ![p] = Down!Taken(down[p])]
        /\ taken' = [taken EXCEPT ![p] = Append(taken[p], Head(down[p].in))]
        /\ UNCHANGED <<switch, up, req_queue>>
    BY DEF TargetTakes
  <1>2. down'[p].in = Tail(down[p].in) /\ down'[p].out = down[p].out
    BY <1>1 DEF IInv, TypeOK, Down!Taken, Down!Link
  <1>3. Reached(p)' = Reached(p)
    <2>1. taken'[p] = Append(taken[p], Head(down[p].in))
      BY <1>1 DEF IInv, TypeOK
    <2>. DEFINE a == taken[p]
                b == down[p].in
    <2>2. a \in Seq(Made) /\ b \in Seq(Made) /\ b # << >>
      BY <1>1, QueuesMade
    <2>3. Reached(p) = a \o b /\ Reached(p)' = Append(a, Head(b)) \o Tail(b)
      BY <1>2, <2>1 DEF Reached
    <2>. HIDE DEF a, b
    <2>. QED
      BY <2>2, <2>3, ConcatMoves
  <1>4. \A q \in Ports : Reached(q)' = Reached(q) /\ (Down!Behind(down'[q]) <=> Down!Behind(down[q]))
    <2>1. \A q \in Ports : q # p => Reached(q)' = Reached(q) /\ down'[q] = down[q]
      BY <1>1 DEF Reached, IInv, TypeOK
    <2>. QED
      BY <1>2, <1>3, <2>1 DEF Down!Behind
  <1>5. Ports' = Ports /\ \A q : Waiting(q)' = Waiting(q) /\ EarlierFor(q)' = EarlierFor(q)
    BY <1>1, SamePorts DEF Waiting, EarlierFor, route, switch
  <1>. QED
    BY <1>1, <1>4, <1>5 DEF OrderInv

LEMMA NextOrderInv ==
    ASSUME IInv, MadeInv, OrderInv, [Next]_vars
    PROVE  OrderInv'
  <1>1. ASSUME NEW s \in Sources, Generate(s) \/ Enqueue(s) \/ RouteRequest(s)
        PROVE  OrderInv'
    BY <1>1, GenerateInOrder, EnqueueInOrder, RouteRequestInOrder
  <1>2. CASE SwitchTick
    BY <1>2, SwitchForwardsInOrder, SwitchDropsInOrder DEF SwitchTick
  <1>3. CASE \/ \E s \in Sources : SourcePortTick(s)
             \/ \E p \in Ports : SwitchPortTick(p)
    BY <1>3, RetriesInOrder
  <1>4. CASE \E p \in Ports : TargetTakes(p)
    BY <1>4, TargetTakesInOrder
  <1>5. CASE UNCHANGED <<switch, up, req_queue, down, taken>>
    <2>1. /\ Ports' = Ports
          /\ \A q : Reached(q)' = Reached(q) /\ Waiting(q)' = Waiting(q)
                    /\ EarlierFor(q)' = EarlierFor(q)
      BY <1>5, SamePorts DEF Reached, Waiting, EarlierFor, route, switch
    <2>. QED
      BY <1>5, <2>1 DEF OrderInv
  <1>. QED
    BY <1>1, <1>2, <1>3, <1>4, <1>5 DEF Next, Unhandled, Respond, vars

\* A target gets the packets of a source in the order of their creation, with
\* any number of sources and ports, arbiter, crossbar or router, any buffers
\* and every interleaving of refusals and retries (Arbiter::tick, Crossbar::tick,
\* Router::handleUpstreamRequest, DownstreamPort::sendReq).
THEOREM SourcesStayInOrder == Spec => []SourceOrder
  <1>1. Init => OrderInv
    <2>1. SUFFICES ASSUME Init
                   PROVE  OrderInv
      OBVIOUS
    <2>2. /\ req_queue = << >> /\ \A s \in Sources : up[s].in = << >>
          /\ \A p \in Ports : Reached(p) = << >> /\ Waiting(p) = {}
      BY <2>1, EmptyOrdered DEF Init, Up!Idle, Down!Idle, Reached, Waiting
    <2>. QED
      BY <2>2, EmptyOrdered DEF OrderInv, Precede
  <1>2. IInv /\ MadeInv /\ OrderInv /\ [Next]_vars => OrderInv'
    BY NextOrderInv
  <1>3. MadeInv /\ OrderInv => SourceOrder
    BY DEF OrderInv, SourceOrder, Ordered, Reached, Earlier
  <1>. QED
    BY <1>1, <1>2, <1>3, InvariantHolds, OnlyMadePackets, PTL DEF Spec

-----------------------------------------------------------------------------
(* Nothing lost: the packets on their way to the switch, in its queue and   *)
(* sent to a target are different packets                                   *)

ToSwitch(s) == up[s].in \o up[s].out
ToTarget(p) == taken[p] \o (down[p].in \o down[p].out)

PlacesInv ==
    /\ \A s \in Sources : /\ IsInjective(ToSwitch(s))
                          /\ Range(ToSwitch(s)) \cap Range(req_queue) = {}
    /\ IsInjective(req_queue)
    /\ \A p \in Ports :
        /\ IsInjective(ToTarget(p))
        /\ \A x \in Range(ToTarget(p)) : route(x) = p
        /\ Range(req_queue) \cap Range(ToTarget(p)) = {}
        /\ \A s \in Sources : Range(ToSwitch(s)) \cap Range(ToTarget(p)) = {}
    /\ \A x \in created : \/ \E s \in Sources : x \in Range(ToSwitch(s))
                          \/ x \in Range(req_queue)
                          \/ \E p \in Ports : x \in Range(ToTarget(p))

\* What the lines hold.
LEMMA LinesMade ==
    ASSUME MadeInv
    PROVE  /\ \A s \in Sources : /\ up[s].in \in Seq(MadeBy(s)) /\ up[s].out \in Seq(MadeBy(s))
                                 /\ ToSwitch(s) \in Seq(MadeBy(s))
                                 /\ Range(ToSwitch(s)) \subseteq MadeBy(s)
           /\ \A p \in Ports : /\ down[p].in \in Seq(Made) /\ down[p].out \in Seq(Made)
                               /\ taken[p] \in Seq(Made)
                               /\ ToTarget(p) \in Seq(Made) /\ Range(ToTarget(p)) \subseteq Made
  <1>1. \A S : \A q \in Seq(S) : Range(q) \subseteq S
    BY DEF Range
  <1>2. ASSUME NEW s \in Sources
        PROVE  /\ up[s].in \in Seq(MadeBy(s)) /\ up[s].out \in Seq(MadeBy(s))
               /\ ToSwitch(s) \in Seq(MadeBy(s))
    <2>1. up[s].in \in Seq(MadeBy(s)) /\ up[s].out \in Seq(MadeBy(s))
      BY DEF MadeInv, Up!Link
    <2>. QED
      BY <2>1 DEF ToSwitch
  <1>3. ASSUME NEW p \in Ports
        PROVE  /\ down[p].in \in Seq(Made) /\ down[p].out \in Seq(Made)
               /\ taken[p] \in Seq(Made) /\ ToTarget(p) \in Seq(Made)
    <2>1. down[p].in \in Seq(Made) /\ down[p].out \in Seq(Made) /\ taken[p] \in Seq(Made)
      BY DEF MadeInv, Down!Link
    <2>. QED
      BY <2>1 DEF ToTarget
  <1>. QED
    BY <1>1, <1>2, <1>3

\* Turning a line or the queue around keeps the packets where they are.
LEMMA SamePlaces ==
    ASSUME PlacesInv, UNCHANGED <<switch, created>>,
           \A s \in Sources : /\ Range(ToSwitch(s)') = Range(ToSwitch(s))
                              /\ IsInjective(ToSwitch(s)) => IsInjective(ToSwitch(s)'),
           Range(req_queue') = Range(req_queue),
           IsInjective(req_queue) => IsInjective(req_queue'),
           \A p \in Ports : /\ Range(ToTarget(p)') = Range(ToTarget(p))
                            /\ IsInjective(ToTarget(p)) => IsInjective(ToTarget(p)')
    PROVE  PlacesInv'
  <1>1. created' = created /\ Ports' = Ports /\ \A x : route(x)' = route(x)
    BY SamePorts DEF route, switch
  <1>. QED
    BY <1>1 DEF PlacesInv

LEMMA GenerateKeeps ==
    ASSUME IInv, MadeInv, PlacesInv, NEW s \in Sources, Generate(s)
    PROVE  PlacesInv'
  <1>. DEFINE p == [src |-> s, n |-> generated[s] + 1, addr |-> cur_addr[s]]
              l == up[s]
              k == Up!Sent(l, p)
  <1>1. /\ up' = [up EXCEPT ![s] = k]
        /\ created' = IF Up!Accepted(l) THEN created \cup {p} ELSE created
        /\ UNCHANGED <<switch, req_queue, down, taken>>
    BY DEF Generate
  <1>2. p \in Packet /\ p \notin Made
    <2>1. generated[s] \in Nat /\ cur_addr[s] \in Word
      BY DEF IInv, TypeOK
    <2>2. p \in Packet
      BY <2>1 DEF Packet
    <2>. QED
      BY <2>2, GenerateMade
  <1>3. up'[s] = k /\ \A t \in Sources \ {s} : up'[t] = up[t]
    BY <1>1 DEF IInv, TypeOK
  <1>4. /\ Range(req_queue) \subseteq Made
        /\ \A t \in Sources : Range(ToSwitch(t)) \subseteq Made
        /\ \A q \in Ports : Range(ToTarget(q)) \subseteq Made
    BY QueuesMade, LinesMade DEF MadeBy
  <1>5. /\ Ports' = Ports /\ \A q : ToTarget(q)' = ToTarget(q)
        /\ \A x : route(x)' = route(x)
    BY <1>1, SamePorts DEF ToTarget, route, switch
  <1>6. ToSwitch(s) = l.in \o l.out /\ ToSwitch(s)' = k.in \o k.out
    BY <1>3 DEF ToSwitch
  <1>7. \A t \in Sources \ {s} : ToSwitch(t)' = ToSwitch(t)
    BY <1>3 DEF ToSwitch
  <1>8. l \in Up!Link(Packet) /\ ToSwitch(s) \in Seq(Packet)
    <2>1. l \in Up!Link(Packet)
      BY DEF IInv, TypeOK
    <2>2. l.in \in Seq(Packet) /\ l.out \in Seq(Packet)
      BY <2>1 DEF Up!Link
    <2>. QED
      BY <1>6, <2>1, <2>2
  <1>. HIDE DEF p, l
  <1>9. /\ Up!Accepted(l) => ToSwitch(s)' = Append(ToSwitch(s), p)
        /\ ~Up!Accepted(l) => ToSwitch(s)' = ToSwitch(s)
    <2>1. PICK q, r, inside, outside :
              q = l.in /\ r = l.out /\ inside = k.in /\ outside = k.out
      OBVIOUS
    <2>2. q \in Seq(Packet) /\ r \in Seq(Packet) /\ p \in Packet
      BY <1>2, <1>8, <2>1 DEF Up!Link, MadeBy
    <2>3. Up!Accepted(l) => \/ r = << >> /\ inside = Append(q, p) /\ outside = r
                            \/ inside = q /\ outside = Append(r, p)
      BY <1>8, <2>1 DEF Up!Sent, Up!Accepted, Up!Direct, Up!Behind, Up!Link
    <2>4. ~Up!Accepted(l) => k = l
      BY DEF Up!Sent, Up!Accepted
    <2>. HIDE DEF k
    <2>5. Up!Accepted(l) => inside \o outside = Append(q \o r, p)
      <3>1. q \o Append(r, p) = Append(q \o r, p)
        BY <2>2, ConcatEnds
      <3>2. Append(q, p) \o << >> = Append(q \o << >>, p)
        BY <2>2
      <3>. QED
        BY <2>3, <3>1, <3>2
    <2>. QED
      BY <1>6, <2>1, <2>4, <2>5
  <1>. HIDE DEF k
  <1>10. /\ IsInjective(ToSwitch(s)')
         /\ Up!Accepted(l) => Range(ToSwitch(s)') = Range(ToSwitch(s)) \cup {p}
         /\ ~Up!Accepted(l) => Range(ToSwitch(s)') = Range(ToSwitch(s))
    <2>1. IsInjective(ToSwitch(s)) /\ p \notin Range(ToSwitch(s))
      BY <1>2, <1>4 DEF PlacesInv
    <2>2. /\ IsInjective(Append(ToSwitch(s), p))
          /\ Range(Append(ToSwitch(s), p)) = Range(ToSwitch(s)) \cup {p}
      BY <1>2, <1>8, <2>1, AppendOnce
    <2>. QED
      BY <1>9, <2>1, <2>2
  <1>11. ASSUME NEW t \in Sources
         PROVE  /\ IsInjective(ToSwitch(t)')
                /\ Range(ToSwitch(t)) \subseteq Range(ToSwitch(t)')
                /\ Range(ToSwitch(t)') \subseteq Range(ToSwitch(t)) \cup {p}
    <2>1. CASE t = s
      BY <1>10, <2>1
    <2>2. CASE t # s
      BY <1>7, <2>2 DEF PlacesInv
    <2>. QED
      BY <2>1, <2>2
  <1>12. /\ IsInjective(req_queue)
         /\ \A q \in Ports : /\ IsInjective(ToTarget(q))
                             /\ \A x \in Range(ToTarget(q)) : route(x) = q
                             /\ Range(req_queue) \cap Range(ToTarget(q)) = {}
    BY DEF PlacesInv
  <1>13. /\ \A t \in Sources : Range(ToSwitch(t)') \cap Range(req_queue) = {}
         /\ \A q \in Ports, t \in Sources : Range(ToSwitch(t)') \cap Range(ToTarget(q)) = {}
    BY <1>2, <1>4, <1>11 DEF PlacesInv
  <1>14. \A x \in created' : \/ \E t \in Sources : x \in Range(ToSwitch(t)')
                             \/ x \in Range(req_queue)
                             \/ \E q \in Ports : x \in Range(ToTarget(q))
    BY <1>1, <1>10, <1>11 DEF PlacesInv
  <1>. QED
    BY <1>1, <1>5, <1>11, <1>12, <1>13, <1>14 DEF PlacesInv

LEMMA EnqueueKeeps ==
    ASSUME IInv, MadeInv, PlacesInv, NEW s \in Sources, Enqueue(s)
    PROVE  PlacesInv'
  <1>. PICK x : x = Head(up[s].in)
    OBVIOUS
  <1>. DEFINE l == up[s]
  <1>1. /\ l.in # << >> /\ up' = [up EXCEPT ![s] = Up!Taken(l)]
        /\ req_queue' = Append(req_queue, x)
        /\ UNCHANGED <<switch, created, down, taken>>
    BY DEF Enqueue, Arrives, pushed, generator
  <1>2. l \in Up!Link(MadeBy(s))
    BY DEF MadeInv
  <1>3. ToSwitch(s) = l.in \o l.out /\ ToSwitch(s)' = Up!Taken(l).in \o Up!Taken(l).out
    BY <1>1 DEF ToSwitch, IInv, TypeOK
  <1>4. x = Head(l.in)
    OBVIOUS
  <1>5. \A t \in Sources \ {s} : ToSwitch(t)' = ToSwitch(t)
    BY <1>1 DEF ToSwitch, IInv, TypeOK
  <1>. HIDE DEF l
  <1>6. ToSwitch(s) # << >> /\ x = Head(ToSwitch(s)) /\ ToSwitch(s)' = Tail(ToSwitch(s))
    BY <1>1, <1>2, <1>3, <1>4, TakenLine DEF Up!Taken, Up!Link
  <1>7. /\ x \in Range(ToSwitch(s)) /\ x \in MadeBy(s) /\ x \in Made
        /\ IsInjective(ToSwitch(s)') /\ x \notin Range(ToSwitch(s)')
        /\ Range(ToSwitch(s)) = Range(ToSwitch(s)') \cup {x}
    <2>1. ToSwitch(s) \in Seq(MadeBy(s)) /\ Range(ToSwitch(s)) \subseteq MadeBy(s)
      BY LinesMade
    <2>2. IsInjective(ToSwitch(s))
      BY DEF PlacesInv
    <2>. QED
      BY <1>6, <2>1, <2>2, TailOnce DEF MadeBy
  <1>8. ASSUME NEW t \in Sources
        PROVE  /\ IsInjective(ToSwitch(t)') /\ x \notin Range(ToSwitch(t)')
               /\ Range(ToSwitch(t)') \subseteq Range(ToSwitch(t))
               /\ Range(ToSwitch(t)) \subseteq Range(ToSwitch(t)') \cup {x}
    <2>1. CASE t = s
      BY <1>7, <2>1
    <2>2. CASE t # s
      <3>1. Range(ToSwitch(t)) \subseteq MadeBy(t)
        BY LinesMade
      <3>2. x \notin Range(ToSwitch(t))
        BY <1>7, <2>2, <3>1 DEF MadeBy
      <3>. QED
        BY <1>5, <2>2, <3>2 DEF PlacesInv
    <2>. QED
      BY <2>1, <2>2
  <1>9. /\ Ports' = Ports /\ \A q : ToTarget(q)' = ToTarget(q)
        /\ \A y : route(y)' = route(y)
    BY <1>1, SamePorts DEF ToTarget, route, switch
  <1>10. x \notin Range(req_queue) /\ \A q \in Ports : x \notin Range(ToTarget(q))
    BY <1>7 DEF PlacesInv
  <1>11. IsInjective(req_queue') /\ Range(req_queue') = Range(req_queue) \cup {x}
    BY <1>1, <1>7, <1>10, QueuesMade, AppendOnce DEF PlacesInv
  <1>12. /\ \A q \in Ports : /\ IsInjective(ToTarget(q))
                             /\ \A y \in Range(ToTarget(q)) : route(y) = q
                             /\ Range(req_queue') \cap Range(ToTarget(q)) = {}
                             /\ \A t \in Sources : Range(ToSwitch(t)') \cap Range(ToTarget(q)) = {}
         /\ \A t \in Sources : Range(ToSwitch(t)') \cap Range(req_queue') = {}
    BY <1>8, <1>10, <1>11 DEF PlacesInv
  <1>13. \A y \in created : \/ \E t \in Sources : y \in Range(ToSwitch(t)')
                            \/ y \in Range(req_queue')
                            \/ \E q \in Ports : y \in Range(ToTarget(q))
    BY <1>8, <1>11 DEF PlacesInv
  <1>. QED
    BY <1>1, <1>8, <1>9, <1>11, <1>12, <1>13 DEF PlacesInv

LEMMA SwitchForwardsKeeps ==
    ASSUME IInv, MadeInv, PlacesInv, SwitchForwards
    PROVE  PlacesInv'
  <1>. PICK x, p : x = Head(req_queue) /\ p = route(x)
    OBVIOUS
  <1>. DEFINE l == down[p]
              k == Down!Sent(l, x)
  <1>1. /\ req_queue # << >> /\ num_ports > 0
        /\ down' = [down EXCEPT ![p] = k]
        /\ req_queue' = IF Down!Accepted(l) THEN Tail(req_queue) ELSE Append(Tail(req_queue), x)
        /\ UNCHANGED <<switch, created, up, taken>>
    BY DEF SwitchForwards, Forward, requeued, generator
  <1>2. /\ x \in Made /\ x \in Range(req_queue) /\ req_queue \in Seq(Made)
        /\ IsInjective(req_queue) /\ IsInjective(Tail(req_queue))
        /\ Range(req_queue) = Range(Tail(req_queue)) \cup {x}
        /\ x \notin Range(Tail(req_queue))
    BY <1>1, QueuesMade, TailOnce DEF PlacesInv
  <1>3. p \in Ports
    BY <1>1, <1>2, QueuesMade, RouteInPorts
  <1>4. l \in Down!Link(Made) /\ taken[p] \in Seq(Made)
    BY <1>3 DEF MadeInv
  <1>5. /\ ToTarget(p) = taken[p] \o (l.in \o l.out)
        /\ ToTarget(p)' = taken[p] \o (k.in \o k.out)
    BY <1>1, <1>3 DEF ToTarget, IInv, TypeOK
  <1>6. \A q \in Ports : q # p => ToTarget(q)' = ToTarget(q)
    BY <1>1 DEF ToTarget, IInv, TypeOK
  <1>7. /\ Ports' = Ports /\ \A t : ToSwitch(t)' = ToSwitch(t)
        /\ \A y : route(y)' = route(y)
    BY <1>1, SamePorts DEF ToSwitch, route, switch
  <1>. HIDE DEF l
  <1>8. /\ Down!Accepted(l) => k.in \o k.out = Append(l.in \o l.out, x)
        /\ ~Down!Accepted(l) => k = l
    <2>1. l \in Down!Link(Made) /\ x \in Made
      BY <1>2, <1>4
    <2>. QED
      <3>1. PICK q, r, inside, outside :
                q = l.in /\ r = l.out /\ inside = k.in /\ outside = k.out
        OBVIOUS
      <3>2. q \in Seq(Made) /\ r \in Seq(Made)
        BY <2>1, <3>1 DEF Down!Link
      <3>3. Down!Accepted(l) => \/ r = << >> /\ inside = Append(q, x) /\ outside = r
                                \/ inside = q /\ outside = Append(r, x)
        BY <2>1, <3>1 DEF Down!Sent, Down!Accepted, Down!Direct, Down!Behind, Down!Link
      <3>4. ~Down!Accepted(l) => k = l
        BY DEF Down!Sent, Down!Accepted
      <3>. HIDE DEF k
      <3>5. Down!Accepted(l) => inside \o outside = Append(q \o r, x)
        <4>1. q \o Append(r, x) = Append(q \o r, x)
          BY <2>1, <3>2, ConcatEnds
        <4>2. Append(q, x) \o << >> = Append(q \o << >>, x)
          BY <2>1, <3>2
        <4>. QED
          BY <3>3, <4>1, <4>2
      <3>. QED
        BY <3>1, <3>4, <3>5
  <1>. HIDE DEF k
  <1>9. CASE Down!Accepted(l)
    <2>1. ToTarget(p)' = Append(ToTarget(p), x)
      <3>. DEFINE a == taken[p]
                  b == l.in \o l.out
      <3>1. a \in Seq(Made) /\ b \in Seq(Made)
        BY <1>4 DEF Down!Link
      <3>2. ToTarget(p) = a \o b /\ ToTarget(p)' = a \o Append(b, x)
        BY <1>5, <1>8, <1>9
      <3>. HIDE DEF a, b
      <3>3. a \o Append(b, x) = Append(a \o b, x)
        BY <1>2, <3>1, ConcatEnds
      <3>. QED
        BY <3>2, <3>3
    <2>2. /\ x \notin Range(ToTarget(p)) /\ IsInjective(ToTarget(p)) /\ ToTarget(p) \in Seq(Made)
      BY <1>2, <1>3, LinesMade DEF PlacesInv
    <2>3. IsInjective(ToTarget(p)') /\ Range(ToTarget(p)') = Range(ToTarget(p)) \cup {x}
      <3>1. /\ IsInjective(Append(ToTarget(p), x))
            /\ Range(Append(ToTarget(p), x)) = Range(ToTarget(p)) \cup {x}
        BY <1>2, <2>2, AppendOnce
      <3>. QED
        BY <2>1, <3>1
    <2>4. req_queue' = Tail(req_queue)
      BY <1>1, <1>9
    <2>5. ASSUME NEW q \in Ports
          PROVE  /\ IsInjective(ToTarget(q)')
                 /\ Range(ToTarget(q)) \subseteq Range(ToTarget(q)')
                 /\ Range(ToTarget(q)') \subseteq Range(ToTarget(q)) \cup {x}
                 /\ q # p => ToTarget(q)' = ToTarget(q)
                 /\ \A y \in Range(ToTarget(q)') : route(y) = q
      <3>1. CASE q = p
        BY <2>3, <3>1 DEF PlacesInv
      <3>2. CASE q # p
        BY <1>6, <3>2 DEF PlacesInv
      <3>. QED
        BY <3>1, <3>2
    <2>6. \A t \in Sources : x \notin Range(ToSwitch(t))
      BY <1>2 DEF PlacesInv
    <2>7. /\ \A t \in Sources : /\ IsInjective(ToSwitch(t))
                                /\ Range(ToSwitch(t)) \cap Range(req_queue') = {}
          /\ \A q \in Ports, t \in Sources : Range(ToSwitch(t)) \cap Range(ToTarget(q)') = {}
      BY <1>2, <2>4, <2>5, <2>6 DEF PlacesInv
    <2>8. \A q \in Ports : Range(req_queue') \cap Range(ToTarget(q)') = {}
      BY <1>2, <2>4, <2>5 DEF PlacesInv
    <2>9. \A y \in created : \/ \E t \in Sources : y \in Range(ToSwitch(t))
                             \/ y \in Range(req_queue')
                             \/ \E q \in Ports : y \in Range(ToTarget(q)')
      BY <1>2, <1>3, <2>3, <2>4, <2>5 DEF PlacesInv
    <2>. QED
      BY <1>1, <1>2, <1>7, <2>4, <2>5, <2>7, <2>8, <2>9 DEF PlacesInv
  <1>10. CASE ~Down!Accepted(l)
    <2>1. req_queue' = Append(Tail(req_queue), Head(req_queue))
      BY <1>1, <1>10
    <2>2. Range(req_queue') = Range(req_queue) /\ (IsInjective(req_queue) => IsInjective(req_queue'))
      BY <1>1, <1>2, <2>1, RotateOnce
    <2>3. ASSUME NEW q \in Ports
          PROVE  ToTarget(q)' = ToTarget(q)
      <3>1. CASE q = p
        BY <1>5, <1>8, <1>10, <3>1
      <3>2. CASE q # p
        BY <1>6, <3>2
      <3>. QED
        BY <3>1, <3>2
    <2>. QED
      BY <1>1, <1>7, <2>2, <2>3, SamePlaces
  <1>. QED
    BY <1>9, <1>10

LEMMA RetriesKeep ==
    ASSUME IInv, MadeInv, PlacesInv,
           \/ \E s \in Sources : SourcePortTick(s)
           \/ \E p \in Ports : SwitchPortTick(p)
    PROVE  PlacesInv'
  <1>1. ASSUME NEW s \in Sources, SourcePortTick(s)
        PROVE  PlacesInv'
    <2>. DEFINE l == up[s]
                k == Up!Retried(l)
    <2>1. /\ up' = [up EXCEPT ![s] = k]
          /\ UNCHANGED <<switch, created, req_queue, down, taken>>
      BY <1>1 DEF SourcePortTick, generator
    <2>2. l \in Up!Link(MadeBy(s)) /\ l.in \in Seq(MadeBy(s)) /\ l.out \in Seq(MadeBy(s))
      BY LinesMade DEF MadeInv
    <2>3. ToSwitch(s) = l.in \o l.out /\ ToSwitch(s)' = k.in \o k.out
      BY <2>1 DEF ToSwitch, IInv, TypeOK
    <2>4. \A t \in Sources \ {s} : ToSwitch(t)' = ToSwitch(t)
      BY <2>1 DEF ToSwitch, IInv, TypeOK
    <2>. HIDE DEF l
    <2>5. k.in = l.in /\ (k.out = l.out \/ (l.out # << >> /\ k.out = Append(Tail(l.out), Head(l.out))))
      BY <2>2, RetriedLine DEF Up!Retried, Up!Behind, Up!Link
    <2>. HIDE DEF k
    <2>6. /\ Range(ToSwitch(s)') = Range(ToSwitch(s))
          /\ IsInjective(ToSwitch(s)) => IsInjective(ToSwitch(s)')
      <3>1. CASE k.out = l.out
        BY <2>3, <2>5, <3>1
      <3>2. CASE l.out # << >> /\ k.out = Append(Tail(l.out), Head(l.out))
        <4>1. /\ Range(l.in \o Append(Tail(l.out), Head(l.out))) = Range(l.in \o l.out)
              /\ IsInjective(l.in \o l.out)
                 => IsInjective(l.in \o Append(Tail(l.out), Head(l.out)))
          BY <2>2, <3>2, RotateSecondOnce
        <4>. QED
          BY <2>3, <2>5, <3>2, <4>1
      <3>. QED
        BY <2>5, <3>1, <3>2
    <2>7. \A t \in Sources : /\ Range(ToSwitch(t)') = Range(ToSwitch(t))
                             /\ IsInjective(ToSwitch(t)) => IsInjective(ToSwitch(t)')
      BY <2>4, <2>6
    <2>8. \A q \in Ports : ToTarget(q)' = ToTarget(q)
      BY <2>1 DEF ToTarget
    <2>. QED
      BY <2>1, <2>7, <2>8, SamePlaces
  <1>2. ASSUME NEW p \in Ports, SwitchPortTick(p)
        PROVE  PlacesInv'
    <2>. DEFINE l == down[p]
                k == Down!Retried(l)
    <2>1. /\ down' = [down EXCEPT ![p] = k]
          /\ UNCHANGED <<switch, created, up, req_queue, taken>>
      BY <1>2 DEF SwitchPortTick, generator
    <2>2. l \in Down!Link(Made) /\ l.in \in Seq(Made) /\ l.out \in Seq(Made) /\ taken[p] \in Seq(Made)
      BY LinesMade DEF MadeInv
    <2>3. ToTarget(p) = taken[p] \o (l.in \o l.out) /\ ToTarget(p)' = taken[p] \o (k.in \o k.out)
      BY <2>1 DEF ToTarget, IInv, TypeOK
    <2>4. \A q \in Ports \ {p} : ToTarget(q)' = ToTarget(q)
      BY <2>1 DEF ToTarget, IInv, TypeOK
    <2>. HIDE DEF l
    <2>5. k.in = l.in /\ (k.out = l.out \/ (l.out # << >> /\ k.out = Append(Tail(l.out), Head(l.out))))
      BY <2>2, RetriedLine DEF Down!Retried, Down!Behind, Down!Link
    <2>. HIDE DEF k
    <2>6. /\ Range(ToTarget(p)') = Range(ToTarget(p))
          /\ IsInjective(ToTarget(p)) => IsInjective(ToTarget(p)')
      <3>. DEFINE a == taken[p]
                  b == l.in \o l.out
                  c == k.in \o k.out
      <3>1. /\ a \in Seq(Made) /\ b \in Seq(Made) /\ c \in Seq(Made)
            /\ Range(c) = Range(b) /\ (IsInjective(b) => IsInjective(c))
        <4>1. l.in \in Seq(Made) /\ l.out \in Seq(Made) /\ k.in = l.in
          BY <2>2, <2>5
        <4>2. CASE k.out = l.out
          BY <2>2, <4>1, <4>2
        <4>3. CASE l.out # << >> /\ k.out = Append(Tail(l.out), Head(l.out))
          <5>. DEFINE q == l.in
                      r == l.out
                      t == Append(Tail(r), Head(r))
          <5>1. q \in Seq(Made) /\ r \in Seq(Made) /\ r # << >> /\ b = q \o r /\ c = q \o t
            BY <4>1, <4>3
          <5>. HIDE DEF q, r, b, c
          <5>2. /\ Range(q \o t) = Range(q \o r)
                /\ IsInjective(q \o r) => IsInjective(q \o t)
            BY <5>1, RotateSecondOnce
          <5>3. t \in Seq(Made)
            BY <5>1, RotateOnce
          <5>. HIDE DEF t
          <5>. QED
            BY <2>2, <5>1, <5>2, <5>3
        <4>. QED
          BY <2>5, <4>2, <4>3
      <3>2. ToTarget(p) = a \o b /\ ToTarget(p)' = a \o c
        BY <2>3
      <3>. HIDE DEF a, b, c
      <3>3. /\ Range(a \o b) = Range(a) \cup Range(b)
            /\ IsInjective(a \o b) <=> IsInjective(a) /\ IsInjective(b) /\ Range(a) \cap Range(b) = {}
        BY <3>1, ConcatOnce
      <3>4. /\ Range(a \o c) = Range(a) \cup Range(c)
            /\ IsInjective(a \o c) <=> IsInjective(a) /\ IsInjective(c) /\ Range(a) \cap Range(c) = {}
        BY <3>1, ConcatOnce
      <3>. QED
        BY <3>1, <3>2, <3>3, <3>4
    <2>7. \A q \in Ports : /\ Range(ToTarget(q)') = Range(ToTarget(q))
                           /\ IsInjective(ToTarget(q)) => IsInjective(ToTarget(q)')
      BY <2>4, <2>6
    <2>8. \A t \in Sources : ToSwitch(t)' = ToSwitch(t)
      BY <2>1 DEF ToSwitch
    <2>. QED
      BY <2>1, <2>7, <2>8, SamePlaces
  <1>. QED
    BY <1>1, <1>2

LEMMA TargetTakesKeeps ==
    ASSUME IInv, MadeInv, PlacesInv, NEW p \in Ports, TargetTakes(p)
    PROVE  PlacesInv'
  <1>. DEFINE l == down[p]
              k == Down!Taken(l)
              h == Head(l.in)
  <1>1. /\ l.in # << >> /\ down' = [down EXCEPT ![p] = k]
        /\ taken' = [taken EXCEPT ![p] = Append(taken[p], h)]
        /\ UNCHANGED <<switch, created, up, req_queue>>
    BY DEF TargetTakes, generator
  <1>2. l \in Down!Link(Made) /\ taken[p] \in Seq(Made) /\ l.in \o l.out \in Seq(Made)
    <2>1. l.in \in Seq(Made) /\ l.out \in Seq(Made)
      BY LinesMade
    <2>. QED
      BY <2>1 DEF MadeInv
  <1>3. /\ ToTarget(p) = taken[p] \o (l.in \o l.out)
        /\ ToTarget(p)' = Append(taken[p], h) \o (k.in \o k.out)
    BY <1>1 DEF ToTarget, IInv, TypeOK
  <1>4. \A q \in Ports \ {p} : ToTarget(q)' = ToTarget(q)
    BY <1>1 DEF ToTarget, IInv, TypeOK
  <1>. HIDE DEF l
  <1>5. /\ l.in \o l.out # << >> /\ h = Head(l.in \o l.out)
        /\ k.in \o k.out = Tail(l.in \o l.out)
    BY <1>1, <1>2, TakenLine DEF Down!Taken, Down!Link
  <1>. HIDE DEF k, h
  <1>6. ToTarget(p)' = ToTarget(p)
    <2>. DEFINE a == taken[p]
                b == l.in \o l.out
    <2>1. /\ a \in Seq(Made) /\ b \in Seq(Made) /\ b # << >>
          /\ ToTarget(p) = a \o b /\ ToTarget(p)' = Append(a, Head(b)) \o Tail(b)
      BY <1>2, <1>3, <1>5
    <2>. HIDE DEF a, b
    <2>. QED
      BY <2>1, ConcatMoves
  <1>7. \A q \in Ports : ToTarget(q)' = ToTarget(q)
    BY <1>4, <1>6
  <1>8. \A t \in Sources : ToSwitch(t)' = ToSwitch(t)
    BY <1>1 DEF ToSwitch
  <1>. QED
    BY <1>1, <1>7, <1>8, SamePlaces

\* For an arbiter or a crossbar with ports.
Lossless == kind # "router" /\ num_ports > 0

LEMMA NextPlacesInv ==
    ASSUME IInv, MadeInv, Lossless, PlacesInv, [Next]_vars
    PROVE  PlacesInv'
  <1>1. ASSUME NEW s \in Sources, Generate(s) \/ Enqueue(s)
        PROVE  PlacesInv'
    BY <1>1, GenerateKeeps, EnqueueKeeps
  <1>2. ~SwitchDrops /\ \A s \in Sources : ~RouteRequest(s)
    <2>1. num_ports # 0
      BY DEF Lossless
    <2>. QED
      BY <2>1 DEF Lossless, SwitchDrops, RouteRequest
  <1>3. CASE SwitchForwards
    BY <1>3, SwitchForwardsKeeps
  <1>4. CASE \/ \E s \in Sources : SourcePortTick(s)
             \/ \E p \in Ports : SwitchPortTick(p)
    BY <1>4, RetriesKeep
  <1>5. CASE \E p \in Ports : TargetTakes(p)
    BY <1>5, TargetTakesKeeps
  <1>6. CASE UNCHANGED <<switch, created, up, req_queue, down, taken>>
    BY <1>6, SamePlaces DEF ToSwitch, ToTarget
  <1>. QED
    BY <1>1, <1>2, <1>3, <1>4, <1>5, <1>6
       DEF Next, SwitchTick, Unhandled, Respond, vars, generator

\* The line that `Places' searches repeats nothing.
LEMMA PlaceIsOne ==
    ASSUME IInv, MadeInv, PlacesInv, Lossless, NEW x \in created
    PROVE  Cardinality(Places(x)) = 1
  <1>1. /\ \/ \E s \in Sources : x \in Range(ToSwitch(s))
           \/ x \in Range(req_queue)
           \/ \E p \in Ports : x \in Range(ToTarget(p))
        /\ x \in Packet
    BY DEF PlacesInv, IInv, TypeOK
  <1>. PICK s, p : s = x.src /\ p = route(x)
    OBVIOUS
  <1>2. s \in Sources /\ p \in Ports
    BY <1>1, RouteInPorts DEF Packet, Lossless
  <1>3. x \in Range(ToSwitch(s)) \cup Range(req_queue) \cup Range(ToTarget(p))
    <2>1. ASSUME NEW t \in Sources, x \in Range(ToSwitch(t))
          PROVE  t = s
      BY <2>1, LinesMade DEF MadeBy
    <2>2. ASSUME NEW q \in Ports, x \in Range(ToTarget(q))
          PROVE  q = p
      BY <2>2 DEF PlacesInv
    <2>. QED
      BY <1>1, <2>1, <2>2
  <1>. DEFINE a == up[s].in
              b == up[s].out
              c == req_queue
              d == down[p].in
              e == down[p].out
              f == taken[p]
  <1>4. /\ a \in Seq(Made) /\ b \in Seq(Made) /\ c \in Seq(Made)
        /\ d \in Seq(Made) /\ e \in Seq(Made) /\ f \in Seq(Made)
    <2>1. \A q \in Seq(MadeBy(s)) : q \in Seq(Made)
      <3>1. MadeBy(s) \subseteq Made
        BY DEF MadeBy
      <3>. QED
        BY <3>1
    <2>. QED
      BY <1>2, <2>1, QueuesMade, LinesMade
  <1>5. /\ ToSwitch(s) = a \o b /\ ToTarget(p) = f \o (d \o e)
        /\ Places(x) = LET line == a \o b \o c \o d \o e \o f
                       IN {i \in DOMAIN line : line[i] = x}
    BY DEF ToSwitch, ToTarget, Places
  <1>6. /\ IsInjective(a \o b) /\ IsInjective(c) /\ IsInjective(f \o (d \o e))
        /\ Range(a \o b) \cap Range(c) = {} /\ Range(c) \cap Range(f \o (d \o e)) = {}
        /\ Range(a \o b) \cap Range(f \o (d \o e)) = {}
    <2>1. /\ IsInjective(ToSwitch(s)) /\ IsInjective(req_queue) /\ IsInjective(ToTarget(p))
          /\ Range(ToSwitch(s)) \cap Range(req_queue) = {}
          /\ Range(req_queue) \cap Range(ToTarget(p)) = {}
          /\ Range(ToSwitch(s)) \cap Range(ToTarget(p)) = {}
      BY <1>2 DEF PlacesInv
    <2>2. c = req_queue
      OBVIOUS
    <2>. HIDE DEF a, b, c, d, e, f
    <2>. QED
      BY <1>5, <2>1, <2>2
  <1>7. x \in Range(a \o b) \cup Range(c) \cup Range(f \o (d \o e))
    BY <1>3, <1>5
  <1>. HIDE DEF a, b, c, d, e, f
  <1>8. /\ Range(f \o (d \o e)) = Range(f) \cup Range(d) \cup Range(e)
        /\ IsInjective(d) /\ IsInjective(e) /\ IsInjective(f)
        /\ Range(d) \cap Range(e) = {} /\ Range(f) \cap Range(d) = {}
        /\ Range(f) \cap Range(e) = {}
    <2>1. /\ d \o e \in Seq(Made) /\ Range(d \o e) = Range(d) \cup Range(e)
          /\ IsInjective(d \o e) <=> /\ IsInjective(d) /\ IsInjective(e)
                                     /\ Range(d) \cap Range(e) = {}
      BY <1>4, ConcatOnce
    <2>2. /\ Range(f \o (d \o e)) = Range(f) \cup Range(d \o e)
          /\ IsInjective(d \o e) /\ IsInjective(f) /\ Range(f) \cap Range(d \o e) = {}
      BY <1>4, <1>6, <2>1, ConcatOnce
    <2>. QED
      BY <2>1, <2>2
  <1>. DEFINE g == a \o b
              h == g \o c
              i == h \o d
              j == i \o e
              k == j \o f
  <1>9. g \in Seq(Made)
    BY <1>4
  <1>10. IsInjective(g) /\ Range(g) \cap Range(c) = {}
         /\ Range(g) \cap (Range(f) \cup Range(d) \cup Range(e)) = {}
         /\ Range(c) \cap (Range(f) \cup Range(d) \cup Range(e)) = {}
         /\ x \in Range(g) \cup Range(c) \cup (Range(f) \cup Range(d) \cup Range(e))
    BY <1>6, <1>7, <1>8
  <1>. HIDE DEF g
  <1>11. h \in Seq(Made) /\ IsInjective(h) /\ Range(h) = Range(g) \cup Range(c)
    BY <1>4, <1>6, <1>9, <1>10, ConcatOnce
  <1>. HIDE DEF h
  <1>12. i \in Seq(Made) /\ IsInjective(i) /\ Range(i) = Range(h) \cup Range(d)
    <2>1. Range(h) \cap Range(d) = {}
      BY <1>10, <1>11
    <2>. QED
      BY <1>4, <1>8, <1>11, <2>1, ConcatOnce
  <1>. HIDE DEF i
  <1>13. j \in Seq(Made) /\ IsInjective(j) /\ Range(j) = Range(i) \cup Range(e)
    <2>1. Range(i) \cap Range(e) = {}
      BY <1>8, <1>10, <1>11, <1>12
    <2>. QED
      BY <1>4, <1>8, <1>12, <2>1, ConcatOnce
  <1>. HIDE DEF j
  <1>14. k \in Seq(Made) /\ IsInjective(k) /\ Range(k) = Range(j) \cup Range(f)
    <2>1. Range(j) \cap Range(f) = {}
      BY <1>8, <1>10, <1>11, <1>12, <1>13
    <2>. QED
      BY <1>4, <1>8, <1>13, <2>1, ConcatOnce
  <1>15. x \in Range(k)
    BY <1>10, <1>11, <1>12, <1>13, <1>14
  <1>16. Places(x) = {n \in DOMAIN k : k[n] = x}
    BY <1>5 DEF g, h, i, j
  <1>. HIDE DEF k
  <1>. QED
    BY <1>14, <1>15, <1>16, OnePlaceOnly

\* Arbiter and crossbar lose nothing and double nothing, with any number of
\* sources and ports and any buffers: a packet that a generator got rid of has
\* one place, whatever was refused and retried (Arbiter::tick, Crossbar::tick,
\* DownstreamPort::sendReq and trySend).
THEOREM EveryPacketHasOnePlace == Spec => []NothingLost
  <1>1. Init => (Lossless => PlacesInv)
    <2>1. SUFFICES ASSUME Init
                   PROVE  PlacesInv
      OBVIOUS
    <2>2. /\ created = {} /\ req_queue = << >>
          /\ \A s \in Sources : ToSwitch(s) = << >>
          /\ \A p \in Ports : ToTarget(p) = << >>
      <3>1. << >> \o << >> = << >> /\ << >> \o (<< >> \o << >>) = << >>
        OBVIOUS
      <3>2. /\ created = {} /\ req_queue = << >>
            /\ \A s \in Sources : up[s].in = << >> /\ up[s].out = << >>
            /\ \A p \in Ports : /\ taken[p] = << >>
                                /\ down[p].in = << >> /\ down[p].out = << >>
        BY <2>1 DEF Init, Up!Idle, Down!Idle
      <3>. QED
        BY <3>1, <3>2 DEF ToSwitch, ToTarget
    <2>3. Range(<< >>) = {} /\ IsInjective(<< >>)
      BY DEF Range, IsInjective
    <2>. QED
      BY <2>2, <2>3 DEF PlacesInv
  <1>2. IInv /\ MadeInv /\ (Lossless => PlacesInv) /\ [Next]_vars => (Lossless => PlacesInv)'
    <2>1. [Next]_vars => UNCHANGED switch
      BY DEF Next, Generate, SourcePortTick, Unhandled, Enqueue, RouteRequest, Arrives, SwitchTick,
             SwitchDrops, SwitchForwards, SwitchPortTick, TargetTakes, Respond, vars
    <2>2. UNCHANGED switch => Lossless' = Lossless
      BY DEF Lossless, switch
    <2>. QED
      BY <2>1, <2>2, NextPlacesInv
  <1>3. IInv /\ MadeInv /\ (Lossless => PlacesInv) => NothingLost
    BY PlaceIsOne DEF NothingLost, Lossless
  <1>. QED
    BY <1>1, <1>2, <1>3, InvariantHolds, OnlyMadePackets, PTL DEF Spec
=============================================================================
