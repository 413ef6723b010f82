---------------------------- MODULE Interconnect ----------------------------
(***************************************************************************)
(* Traffic generators, one switch and the targets behind it: TrafficGen-   *)
(* erator (include/modules/traffic_gen.hh) sends to an Arbiter, Crossbar   *)
(* or Router (arbiter.hh, crossbar.hh, router.hh), which forwards over     *)
(* links of its own.                                                       *)
(*                                                                         *)
(* The handlers of the switches have two parameters, so they do not        *)
(* override those of SimObject, which the ports call.  `own_handlers' says *)
(* whether a derived class passes the calls on to them.                    *)
(*                                                                         *)
(* As in MemoryPath.tla, a step that uses a deleted packet may find its    *)
(* old contents; if not, `undefined' is set and the model stops.           *)
(***************************************************************************)
EXTENDS Integers, Sequences, FiniteSets

CONSTANTS Sources,                  \* traffic generators: upstream port numbers
          Kinds,                    \* switches to consider
          PortCounts,               \* numbers of downstream ports to consider
          UpOut, UpIn,              \* buffers between a source and the switch
          DownOut, DownIn,          \* buffers between the switch and a target
          AddrLimit,                \* 2^64 in the code
          start_addr, end_addr,     \* 0x1000 and 0x2000
          Uninitialised,            \* what cur_addr may hold at first
          num_requests,             \* 20
          DMA, MMIO,                \* 0x80000000 and 0xF0000000 in Router
          MaxPackets                \* bound: packets a source generates

ASSUME SourcesAssumption == Sources \subseteq Nat /\ MaxPackets \in [Sources -> Nat]
ASSUME KindsAssumption == /\ Kinds \subseteq {"arbiter", "crossbar", "router"}
                          /\ PortCounts \subseteq Nat
ASSUME AddressAssumption == /\ {start_addr, end_addr, DMA, MMIO} \cup Uninitialised
                               \subseteq 0 .. AddrLimit - 1
                            /\ num_requests \in Nat
                            /\ start_addr < end_addr /\ end_addr + 4 <= AddrLimit
                            /\ AddrLimit \in Nat /\ DMA < MMIO
\* Channel 0 has the default size, for configured sizes are put behind it
\* (ModuleFactory::instantiateAll).
ASSUME BuffersAssumption == {UpOut, UpIn, DownOut, DownIn} \subseteq Nat \ {0}

Word == 0 .. AddrLimit - 1
Packet == [src : Sources, n : Nat \ {0}, addr : Word]

Up == INSTANCE Link WITH OutCapacity <- UpOut, InCapacity <- UpIn
Down == INSTANCE Link WITH OutCapacity <- DownOut, InCapacity <- DownIn

VARIABLES kind, num_ports, own_handlers,  \* the switch and its ports
          cur_addr, completed,  \* of each generator
          generated,    \* packets each generator has created
          created,      \* history: packets for which its sendReq returned true
          up,           \* source s to upstream port s of the switch
          req_queue,    \* of an arbiter or a crossbar
          down,         \* downstream port p of the switch to its target
          taken,        \* history: packets each target has taken
          answered,     \* history: packets the targets have responded to
          deleted,      \* packets whose memory has been freed
          undefined

switch == <<kind, num_ports, own_handlers>>
generator == <<cur_addr, completed, generated, created>>
vars == <<switch, generator, up, req_queue, down, taken, answered, deleted, undefined>>

Ports == 0 .. num_ports - 1

TypeOK == /\ kind \in Kinds /\ num_ports \in PortCounts /\ own_handlers \in BOOLEAN
          /\ cur_addr \in [Sources -> Word]
          /\ generated \in [Sources -> Nat]
          /\ \A s \in Sources : generated[s] <= MaxPackets[s]
          /\ completed \in [Sources -> Nat]
          /\ created \subseteq Packet /\ answered \subseteq Packet
          /\ up \in [Sources -> Up!Link(Packet)]
          /\ req_queue \in Seq(Packet)
          /\ down \in [Ports -> Down!Link(Packet)]
          /\ taken \in [Ports -> Seq(Packet)]
          /\ deleted \subseteq Packet
          /\ undefined \in BOOLEAN

Init == /\ kind \in Kinds /\ num_ports \in PortCounts /\ own_handlers \in BOOLEAN
        /\ cur_addr \in [Sources -> Uninitialised]
        /\ completed = [s \in Sources |-> 0]
        /\ generated = [s \in Sources |-> 0]
        /\ created = {} /\ answered = {}
        /\ up = [s \in Sources |-> Up!Idle]
        /\ req_queue = << >>
        /\ down = [p \in Ports |-> Down!Idle]
        /\ taken = [p \in Ports |-> << >>]
        /\ deleted = {}
        /\ undefined = FALSE

\* The step uses, or deletes once more, an object that has been deleted.
Touches(dangling) == ~undefined /\ undefined' \in (IF dangling THEN BOOLEAN ELSE {FALSE})

-----------------------------------------------------------------------------
(* TrafficGenerator *)

\* Mutant: only the end of the range itself leads back to its start.
nextAddrExact(a) == LET b == (a + 4) % AddrLimit IN IF b = end_addr THEN start_addr ELSE b

\* issueRequest in SEQUENTIAL mode, the only one a generator is ever in.
nextAddr(a) == LET b == (a + 4) % AddrLimit IN IF b >= end_addr THEN start_addr ELSE b

\* tick, when rand() says so: what counts is completions, not requests.  A
\* refused packet is deleted a second time.
Generate(s) ==
    LET p == [src |-> s, n |-> generated[s] + 1, addr |-> cur_addr[s]]
        ok == Up!Accepted(up[s])
    IN /\ generated[s] < MaxPackets[s]
       /\ completed[s] < num_requests
       /\ generated' = [generated EXCEPT ![s] = @ + 1]
       /\ cur_addr' = [cur_addr EXCEPT ![s] = nextAddr(@)]
       /\ up' = [up EXCEPT ![s] = Up!Sent(@, p)]
       /\ created' = IF ok THEN created \cup {p} ELSE created
       /\ deleted' = IF Up!Deletes(up[s]) > 0 THEN deleted \cup {p} ELSE deleted
       /\ Touches(~ok)
       /\ UNCHANGED <<switch, completed, req_queue, down, taken, answered>>

\* DownstreamPort::tick of a generator.
SourcePortTick(s) ==
    /\ Up!Behind(up[s])
    /\ up' = [up EXCEPT ![s] = Up!Retried(@)]
    /\ deleted' = deleted \cup {Head(up[s].out)}
    /\ Touches(Head(up[s].out) \in deleted)
    /\ UNCHANGED <<switch, generator, req_queue, down, taken, answered>>

-----------------------------------------------------------------------------
(* Switches *)

\* sendReq on downstream port p.
Forward(p, pkt) == /\ down' = [down EXCEPT ![p] = Down!Sent(@, pkt)]
                   /\ deleted' = IF Down!Deletes(down[p]) > 0 THEN deleted \cup {pkt} ELSE deleted
                   /\ UNCHANGED taken

\* The front packet of upstream port s leaves the input channel.
Arrives(s) == /\ own_handlers
              /\ up[s].in # << >>
              /\ up' = [up EXCEPT ![s] = Up!Taken(@)]
              /\ UNCHANGED <<switch, generator, answered>>

\* UpstreamPort::tick with handleUpstreamRequest of SimObject, which deletes
\* the packet and returns false: it stays where it is.
Unhandled(s) == /\ ~own_handlers
                /\ up[s].in # << >>
                /\ deleted' = deleted \cup {Head(up[s].in)}
                /\ Touches(Head(up[s].in) \in deleted)
                /\ UNCHANGED <<switch, generator, up, req_queue, down, taken, answered>>

\* Mutant: the queue is a stack.
pushedFirst(pkt) == <<pkt>> \o req_queue

pushed(pkt) == Append(req_queue, pkt)

\* UpstreamPort::tick with handleUpstreamRequest of Arbiter and Crossbar.
Enqueue(s) == /\ kind \in {"arbiter", "crossbar"}
              /\ Arrives(s)
              /\ req_queue' = pushed(Head(up[s].in))
              /\ Touches(FALSE)
              /\ UNCHANGED <<down, taken, deleted>>

\* Arbiter and Crossbar::route; the port exists unless there are none.
route(pkt) == IF kind = "arbiter" THEN 0 ELSE pkt.addr % num_ports

\* Mutants: a refused packet stays at the front; it is forgotten.
requeuedFirst == req_queue
requeuedNever == Tail(req_queue)

\* A refused packet goes to the back.
requeued == Append(Tail(req_queue), Head(req_queue))

\* tick of Arbiter and Crossbar, without and with downstream ports
SwitchDrops == /\ req_queue # << >> /\ num_ports = 0
               /\ req_queue' = Tail(req_queue)
               /\ deleted' = deleted \cup {Head(req_queue)}
               /\ Touches(Head(req_queue) \in deleted)
               /\ UNCHANGED <<switch, generator, up, down, taken, answered>>

SwitchForwards ==
    LET pkt == Head(req_queue)
        p == route(pkt)
    IN /\ req_queue # << >> /\ num_ports > 0
       /\ Forward(p, pkt)
       /\ req_queue' = IF Down!Accepted(down[p]) THEN Tail(req_queue) ELSE requeued
       /\ Touches(pkt \in deleted \/ Down!Deletes(down[p]) > 1)
       /\ UNCHANGED <<switch, generator, up, answered>>

SwitchTick == SwitchDrops \/ SwitchForwards

\* Router::routeByAddress.  The first test includes the second range.
routeByAddress(addr) == IF addr >= DMA THEN 1 ELSE IF addr >= MMIO THEN 2 ELSE 0

\* UpstreamPort::tick with handleUpstreamRequest of Router, which ignores what
\* sendReq returns; a packet without a port is deleted.
RouteRequest(s) ==
    LET pkt == Head(up[s].in)
        p == routeByAddress(pkt.addr)
    IN /\ kind = "router"
       /\ Arrives(s)
       /\ \/ /\ p \in Ports
             /\ Forward(p, pkt)
             /\ Touches(pkt \in deleted \/ Down!Deletes(down[p]) > 1)
          \/ /\ p \notin Ports
             /\ deleted' = deleted \cup {pkt}
             /\ Touches(pkt \in deleted)
             /\ UNCHANGED <<down, taken>>
       /\ UNCHANGED req_queue

\* DownstreamPort::tick of the switch.
SwitchPortTick(p) == /\ Down!Behind(down[p])
                     /\ down' = [down EXCEPT ![p] = Down!Retried(@)]
                     /\ deleted' = deleted \cup {Head(down[p].out)}
                     /\ Touches(Head(down[p].out) \in deleted)
                     /\ UNCHANGED <<switch, generator, up, req_queue, taken, answered>>

\* UpstreamPort::tick of a target that takes every request.
TargetTakes(p) == /\ down[p].in # << >>
                  /\ down' = [down EXCEPT ![p] = Down!Taken(@)]
                  /\ taken' = [taken EXCEPT ![p] = Append(@, Head(down[p].in))]
                  /\ Touches(Head(down[p].in) \in deleted)
                  /\ UNCHANGED <<switch, generator, up, req_queue, answered, deleted>>

-----------------------------------------------------------------------------
(* Responses *)

\* Router::handleDownstreamResponse: the upstream port with the number of the
\* downstream port.
responsePort(p, pkt) == p

\* SlavePort::sendResp of target p for a request it has taken.  Router passes
\* the response on, when it has that port, and the generator counts it; Arbiter,
\* Crossbar and the handler of SimObject delete it.
Respond(p, pkt) ==
    /\ pkt \in {taken[p][i] : i \in DOMAIN taken[p]} \ answered
    /\ answered' = answered \cup {pkt}
    /\ LET s == responsePort(p, pkt) IN
       completed' = IF own_handlers /\ kind = "router" /\ s \in Sources
                    THEN [completed EXCEPT ![s] = @ + 1] ELSE completed
    /\ Touches(pkt \in deleted)
    /\ UNCHANGED <<switch, cur_addr, generated, created, up, req_queue, down, taken, deleted>>

Next == \/ \E s \in Sources : \/ Generate(s) \/ SourcePortTick(s)
                              \/ Unhandled(s) \/ Enqueue(s) \/ RouteRequest(s)
        \/ SwitchTick
        \/ \E p \in Ports : \/ SwitchPortTick(p) \/ TargetTakes(p)
                           \/ \E pkt \in created : Respond(p, pkt)

Spec == Init /\ [][Next]_vars

\* The switch is ticked in every cycle; nothing says that a deleted packet is
\* ever found overwritten.
FairSpec == Spec /\ WF_vars(SwitchTick /\ ~undefined')

-----------------------------------------------------------------------------
(* Properties *)

\* A target gets the packets of one source in the order of their creation.
\* A refused packet goes behind later ones of its source in the queue of the
\* switch, yet never falls behind them at the target: a port that refuses has
\* packets waiting and delivers nothing more (Crossbar::tick and Arbiter::tick
\* over DownstreamPort::sendReq).
SourceOrder ==
    \A p \in Ports :
        LET line == taken[p] \o down[p].in
        IN \A i, j \in DOMAIN line :
              i < j /\ line[i].src = line[j].src => line[i].n < line[j].n

\* Arbiter and crossbar lose nothing: a packet that a generator got rid of is
\* in exactly one place, before them, in their queue, on its way to a target
\* or there, whatever was refused.
Places(pkt) ==
    LET p == route(pkt)
        line == up[pkt.src].in \o up[pkt.src].out \o req_queue
                \o down[p].in \o down[p].out \o taken[p]
    IN {i \in DOMAIN line : line[i] = pkt}
NothingLost == kind # "router" /\ num_ports > 0 => \A pkt \in created : Cardinality(Places(pkt)) = 1

\* A packet in the queue whose port is not closed leaves it, however often
\* others in front of it are refused: a closed port does not block the rest
\* (the retry in Crossbar::tick).
QueuedForOpen(s, n) ==
    \E i \in DOMAIN req_queue :
        /\ req_queue[i].src = s /\ req_queue[i].n = n
        /\ num_ports > 0 /\ ~Down!Behind(down[route(req_queue[i])])
NoBlocking ==
    \A s \in Sources : \A n \in 1 .. MaxPackets[s] :
        QueuedForOpen(s, n) ~> (~QueuedForOpen(s, n) \/ undefined)

\* Whatever cur_addr held at first, a generator comes back to its range, and
\* to word-aligned addresses in it, after going once through the addresses
\* below the end of the range (the wrap in issueRequest).
AddressRecovers ==
    \A s \in Sources :
        generated[s] > (end_addr + 3) \div 4 =>
            /\ cur_addr[s] \in start_addr .. end_addr - 1
            /\ (cur_addr[s] - start_addr) % 4 = 0
=============================================================================
