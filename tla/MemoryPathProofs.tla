-------------------------- MODULE MemoryPathProofs --------------------------
(***************************************************************************)
(* Proofs, for any number of CPUs and memories, any buffers and limits, of *)
(* what MemoryPath.tla says of answers that go astray.                     *)
(*                                                                         *)
(* The argument: a request is only ever queued for the memory its address  *)
(* is routed to, so that the answer of a miss comes back on the downstream *)
(* port of that number and leaves the cache on the upstream port of that   *)
(* number modulo the CPUs.  Only such an answer, or one to a hit, erases   *)
(* an address from the table of a CPU.                                     *)
(***************************************************************************)
EXTENDS MemoryPath, SequenceFacts

-----------------------------------------------------------------------------
(* The inductive invariant *)

Routed(m) == {r \in Request : routeToDownstream(r) = m}

\* What is on its way to a memory is routed to it.
LinksRouted == \A m \in Mems : mem_link[m] \in MemPort!Link(Routed(m))

\* The memory a request is routed to answers it, and a miss is passed on by
\* the number of that memory.
EventRouted(e) ==
    /\ e.do = "memory" => e.port = routeToDownstream(e.req)
    /\ e.do = "respond" => hit(e.req) \/ e.port = routeToDownstream(e.req) % NumCpus
EventsRouted == \A e \in events : EventRouted(e)

IInv == TypeOK /\ LinksRouted /\ EventsRouted

-----------------------------------------------------------------------------
(* Numbers *)

LEMMA ModRange ==
    ASSUME NEW x \in Nat, NEW n \in Nat \ {0}
    PROVE  x % n \in 0 .. n - 1
  OBVIOUS

LEMMA AddrType == Addr \subseteq Nat
  BY SizesAssumption DEF Addr

\* The address after one that may be issued may be issued or ends the run.
LEMMA NextAddr ==
    ASSUME NEW a \in Addr
    PROVE  a + 4 \in Addr \cup {FirstAddr + 4 * MaxRequests}
  <1>1. PICK i \in 0 .. MaxRequests - 1 : a = FirstAddr + 4 * i
    BY DEF Addr
  <1>2. a + 4 = FirstAddr + 4 * (i + 1) /\ i + 1 \in 1 .. MaxRequests
    BY <1>1, SizesAssumption
  <1>. QED
    BY <1>1, <1>2, SizesAssumption DEF Addr

LEMMA RouteType ==
    ASSUME NEW r \in Request
    PROVE  routeToDownstream(r) \in Mems
  <1>1. r.addr \in Nat
    BY AddrType DEF Request
  <1>2. r.addr \div 256 \in Nat
    BY <1>1
  <1>. QED
    BY <1>2, ModRange, SizesAssumption DEF routeToDownstream, Mems

LEMMA UpstreamType ==
    ASSUME NEW r, NEW m \in Mems
    PROVE  upstreamId(r, m) \in Cpus
  <1>1. m \in Nat
    BY SizesAssumption DEF Mems
  <1>. QED
    BY <1>1, ModRange, SizesAssumption DEF upstreamId, Cpus

\* A request for a memory is a request, and a link for it a link.
LEMMA RoutedLink ==
    ASSUME NEW m, NEW l \in MemPort!Link(Routed(m))
    PROVE  l \in MemPort!Link(Request)
  <1>1. Seq(Routed(m)) \subseteq Seq(Request)
    BY DEF Routed
  <1>. QED
    BY <1>1 DEF MemPort!Link

-----------------------------------------------------------------------------
(* Steps *)

LEMMA TouchesType ==
    ASSUME NEW d, Touches(d)
    PROVE  undefined' \in BOOLEAN
  BY DEF Touches

\* One CPU's link changes to another link, one memory's link likewise.
LEMMA CpuLinkChange ==
    ASSUME TypeOK, NEW c \in Cpus, NEW l \in CpuPort!Link(Request),
           cpu_link' = [cpu_link EXCEPT ![c] = l]
    PROVE  cpu_link' \in [Cpus -> CpuPort!Link(Request)]
  BY DEF TypeOK

LEMMA MemLinkChange ==
    ASSUME TypeOK, LinksRouted, NEW m \in Mems, NEW l \in MemPort!Link(Routed(m)),
           mem_link' = [mem_link EXCEPT ![m] = l]
    PROVE  /\ mem_link' \in [Mems -> MemPort!Link(Request)]
           /\ LinksRouted'
  <1>1. l \in MemPort!Link(Request)
    BY RoutedLink
  <1>2. mem_link'[m] = l /\ \A n \in Mems \ {m} : mem_link'[n] = mem_link[n]
    BY DEF TypeOK
  <1>3. mem_link' \in [Mems -> MemPort!Link(Request)]
    BY <1>1 DEF TypeOK
  <1>4. ASSUME NEW n \in Mems
        PROVE  mem_link'[n] \in MemPort!Link(Routed(n))
    BY <1>2 DEF LinksRouted
  <1>. QED
    BY <1>3, <1>4 DEF LinksRouted

LEMMA SameLinks ==
    ASSUME LinksRouted, UNCHANGED mem_link
    PROVE  LinksRouted'
  BY DEF LinksRouted

LEMMA SameEvents ==
    ASSUME EventsRouted, UNCHANGED events
    PROVE  EventsRouted'
  BY DEF EventsRouted, EventRouted

LEMMA IssueStep ==
    ASSUME IInv, NEW c \in Cpus, Issue(c)
    PROVE  IInv'
  <1>. DEFINE r == [cpu |-> c, addr |-> next_addr[c]]
  <1>1. r \in Request /\ next_addr[c] \in Addr
    BY DEF Issue, Request
  <1>2. CpuPort!Sent(cpu_link[c], r) \in CpuPort!Link(Request)
    <2>1. cpu_link[c] \in CpuPort!Link(Request)
      BY DEF IInv, TypeOK
    <2>. QED
      BY <1>1, <2>1, SentLine DEF CpuPort!Sent, CpuPort!Link
  <1>3. cpu_link' \in [Cpus -> CpuPort!Link(Request)]
    <2>1. cpu_link' = [cpu_link EXCEPT ![c] = CpuPort!Sent(cpu_link[c], r)]
      BY DEF Issue
    <2>. QED
      BY <1>2, <2>1, CpuLinkChange DEF IInv
  <1>4. /\ next_addr' \in [Cpus -> Addr \cup {FirstAddr + 4 * MaxRequests}]
        /\ inflight_reqs' \in [Cpus -> SUBSET Addr]
        /\ freed' \subseteq Request
    <2>1. CASE CpuPort!Accepted(cpu_link[c])
      <3>1. /\ inflight_reqs' = [inflight_reqs EXCEPT ![c] = @ \cup {next_addr[c]}]
            /\ next_addr' = [next_addr EXCEPT ![c] = @ + 4]
            /\ freed' \subseteq freed \cup {r}
        BY <2>1 DEF Issue
      <3>2. next_addr[c] + 4 \in Addr \cup {FirstAddr + 4 * MaxRequests}
        BY <1>1, NextAddr
      <3>3. freed \cup {r} \subseteq Request
        BY <1>1 DEF IInv, TypeOK
      <3>4. next_addr' \in [Cpus -> Addr \cup {FirstAddr + 4 * MaxRequests}]
        BY <3>1, <3>2 DEF IInv, TypeOK
      <3>5. inflight_reqs' \in [Cpus -> SUBSET Addr]
        BY <1>1, <3>1 DEF IInv, TypeOK
      <3>. QED
        BY <3>1, <3>3, <3>4, <3>5
    <2>2. CASE ~CpuPort!Accepted(cpu_link[c])
      BY <2>2 DEF Issue, IInv, TypeOK, cpu_vars
    <2>. QED
      BY <2>1, <2>2
  <1>5. undefined' \in BOOLEAN /\ todo' \subseteq Modules
    BY TouchesType DEF Issue, IInv, TypeOK
  <1>6. UNCHANGED <<req_buffer, mem_link, events>>
    BY DEF Issue
  <1>. QED
    BY <1>3, <1>4, <1>5, <1>6, SameLinks, SameEvents DEF IInv, TypeOK

LEMMA IdleStep ==
    ASSUME IInv, NEW c \in Cpus, Idle(c)
    PROVE  IInv'
  <1>1. undefined' \in BOOLEAN /\ todo' \subseteq Modules
    BY TouchesType DEF Idle, IInv, TypeOK
  <1>. QED
    BY <1>1, SameLinks, SameEvents DEF Idle, IInv, TypeOK, cpu_vars

LEMMA CacheRefusesStep ==
    ASSUME IInv, NEW c \in Cpus, CacheRefuses(c)
    PROVE  IInv'
  <1>1. Head(cpu_link[c].in) \in Request
    <2>1. cpu_link[c] \in CpuPort!Link(Request) /\ cpu_link[c].in # << >>
      BY DEF IInv, TypeOK, CacheRefuses
    <2>. QED
      BY <2>1, TakenLine DEF CpuPort!Taken, CpuPort!Link
  <1>2. undefined' \in BOOLEAN /\ freed' \subseteq Request
    BY <1>1, TouchesType DEF CacheRefuses, IInv, TypeOK
  <1>. QED
    BY <1>2, SameLinks, SameEvents DEF CacheRefuses, IInv, TypeOK, cpu_vars

LEMMA CacheAcceptsStep ==
    ASSUME IInv, NEW c \in Cpus, CacheAccepts(c)
    PROVE  IInv'
  <1>. DEFINE l == cpu_link[c]
              r == Head(l.in)
  <1>1. r \in Request /\ CpuPort!Taken(l) \in CpuPort!Link(Request)
    <2>1. l \in CpuPort!Link(Request) /\ l.in # << >>
      BY DEF IInv, TypeOK, CacheAccepts
    <2>. QED
      BY <2>1, TakenLine DEF CpuPort!Taken, CpuPort!Link
  <1>2. cpu_link' \in [Cpus -> CpuPort!Link(Request)]
    <2>1. cpu_link' = [cpu_link EXCEPT ![c] = CpuPort!Taken(l)]
      BY DEF CacheAccepts
    <2>. QED
      BY <1>1, <2>1, CpuLinkChange DEF IInv
  <1>3. /\ undefined' \in BOOLEAN
        /\ UNCHANGED <<cpu_vars, mem_link, todo>>
    BY TouchesType DEF CacheAccepts
  <1>4. 0 \in Cpus
    BY SizesAssumption DEF Cpus
  <1>. HIDE DEF r
  <1>5. CASE hit(r) /\ UNCHANGED req_buffer /\ freed' = freed \ {r}
             /\ events' = events \cup {[do |-> "respond", req |-> r, port |-> c, delay |-> 1]}
    <2>. DEFINE e == [do |-> "respond", req |-> r, port |-> c, delay |-> 1]
    <2>1. e \in Event /\ EventRouted(e)
      BY <1>1, <1>5 DEF Event, EventRouted
    <2>2. events' \subseteq Event /\ freed' \subseteq Request /\ EventsRouted'
      BY <1>5, <2>1 DEF IInv, TypeOK, EventsRouted, EventRouted
    <2>. QED
      BY <1>2, <1>3, <1>5, <2>2, SameLinks DEF IInv, TypeOK, cpu_vars
  <1>6. CASE ~hit(r) /\ req_buffer' = buffered(r) /\ UNCHANGED freed
             /\ events' = events \cup scheduleForward(r) /\ ~full
    <2>. DEFINE e == [do |-> "tryForward", req |-> r, port |-> 0, delay |-> 1]
    <2>1. e \in Event /\ EventRouted(e)
      BY <1>1, <1>4 DEF Event, EventRouted
    <2>2. events' \subseteq Event /\ EventsRouted'
      BY <1>6, <2>1 DEF IInv, TypeOK, EventsRouted, EventRouted, scheduleForward
    <2>3. req_buffer' \in Seq(Request) /\ Len(req_buffer') <= MAX_BUFFER
      <3>1. /\ Append(req_buffer, r) \in Seq(Request)
            /\ Len(Append(req_buffer, r)) = Len(req_buffer) + 1
            /\ Len(req_buffer) \in Nat /\ MAX_BUFFER \in Nat
        BY <1>1, SizesAssumption DEF IInv, TypeOK
      <3>. QED
        BY <1>6, <3>1 DEF buffered, full
    <2>. QED
      BY <1>2, <1>3, <1>6, <2>2, <2>3, SameLinks DEF IInv, TypeOK, cpu_vars
  <1>. QED
    BY <1>5, <1>6 DEF CacheAccepts, r

LEMMA tryForwardStep ==
    ASSUME IInv, tryForward
    PROVE  /\ mem_link' \in [Mems -> MemPort!Link(Request)]
           /\ LinksRouted'
           /\ req_buffer' \in Seq(Request) /\ Len(req_buffer') <= MAX_BUFFER
           /\ freed' \subseteq Request
           /\ undefined' \in BOOLEAN
  <1>1. CASE req_buffer = << >>
    BY <1>1, TouchesType, SameLinks DEF tryForward, IInv, TypeOK
  <1>2. CASE req_buffer # << >>
    <2>. DEFINE r == Head(req_buffer)
                m == routeToDownstream(r)
    <2>1. r \in Request /\ Tail(req_buffer) \in Seq(Request)
          /\ Len(Tail(req_buffer)) = Len(req_buffer) - 1
      BY <1>2 DEF IInv, TypeOK
    <2>2. m \in Mems /\ r \in Routed(m)
      BY <2>1, RouteType DEF Routed
    <2>3. MemPort!Sent(mem_link[m], r) \in MemPort!Link(Routed(m))
      <3>1. mem_link[m] \in MemPort!Link(Routed(m))
        BY <2>2 DEF IInv, LinksRouted
      <3>. QED
        BY <2>2, <3>1, SentLine DEF MemPort!Sent, MemPort!Link
    <2>4. /\ mem_link' = [mem_link EXCEPT ![m] = MemPort!Sent(mem_link[m], r)]
          /\ req_buffer' \in {Tail(req_buffer), req_buffer}
          /\ freed' \subseteq freed \cup {r}
          /\ undefined' \in BOOLEAN
      BY <1>2, TouchesType DEF tryForward
    <2>5. mem_link' \in [Mems -> MemPort!Link(Request)] /\ LinksRouted'
      <3>. HIDE DEF r, m
      <3>. QED
        BY <2>2, <2>3, <2>4, MemLinkChange DEF IInv
    <2>6. req_buffer' \in Seq(Request) /\ Len(req_buffer') <= MAX_BUFFER
      <3>1. Len(req_buffer) \in Nat /\ Len(req_buffer) <= MAX_BUFFER /\ MAX_BUFFER \in Nat
        BY SizesAssumption DEF IInv, TypeOK
      <3>2. CASE req_buffer' = Tail(req_buffer)
        BY <2>1, <3>1, <3>2
      <3>3. CASE req_buffer' = req_buffer
        BY <3>1, <3>3 DEF IInv, TypeOK
      <3>. QED
        BY <2>4, <3>2, <3>3
    <2>. QED
      BY <2>1, <2>4, <2>5, <2>6 DEF IInv, TypeOK
  <1>. QED
    BY <1>1, <1>2

LEMMA CacheTickStep ==
    ASSUME IInv, CacheTick
    PROVE  IInv'
  <1>1. todo' \subseteq Modules /\ tryForward /\ UNCHANGED <<cpu_vars, cpu_link, events>>
    BY DEF CacheTick, IInv, TypeOK
  <1>. QED
    BY <1>1, tryForwardStep, SameEvents DEF IInv, TypeOK, cpu_vars

LEMMA MemAcceptsStep ==
    ASSUME IInv, NEW m \in Mems, MemAccepts(m)
    PROVE  IInv'
  <1>. DEFINE l == mem_link[m]
              r == Head(l.in)
              e == [do |-> "memory", req |-> r, port |-> m, delay |-> MemDelay]
  <1>1. r \in Routed(m) /\ MemPort!Taken(l) \in MemPort!Link(Routed(m))
    <2>1. l \in MemPort!Link(Routed(m)) /\ l.in # << >>
      BY DEF IInv, LinksRouted, MemAccepts
    <2>. QED
      BY <2>1, TakenLine DEF MemPort!Taken, MemPort!Link
  <1>2. mem_link' \in [Mems -> MemPort!Link(Request)] /\ LinksRouted'
    <2>1. mem_link' = [mem_link EXCEPT ![m] = MemPort!Taken(l)]
      BY DEF MemAccepts
    <2>. QED
      BY <1>1, <2>1, MemLinkChange DEF IInv
  <1>3. e \in Event /\ EventRouted(e)
    BY <1>1, SizesAssumption DEF Routed, Event, EventRouted
  <1>4. events' \subseteq Event /\ EventsRouted'
    <2>1. events' = events \cup {e}
      BY DEF MemAccepts
    <2>. HIDE DEF e
    <2>. QED
      BY <1>3, <2>1 DEF IInv, TypeOK, EventsRouted, EventRouted
  <1>5. /\ freed' \subseteq Request /\ undefined' \in BOOLEAN
        /\ UNCHANGED <<cpu_vars, cpu_link, req_buffer, todo>>
    BY TouchesType DEF MemAccepts, IInv, TypeOK
  <1>. QED
    BY <1>2, <1>4, <1>5 DEF IInv, TypeOK, cpu_vars

LEMMA FewerEvents ==
    ASSUME IInv, events' \subseteq events
    PROVE  events' \subseteq Event /\ EventsRouted'
  BY DEF IInv, TypeOK, EventsRouted, EventRouted

LEMMA RunForwardStep ==
    ASSUME IInv, NEW e \in events, RunForward(e)
    PROVE  IInv'
  <1>1. /\ events' \subseteq events /\ tryForward
        /\ UNCHANGED <<cpu_vars, cpu_link, todo>>
    BY DEF RunForward
  <1>. QED
    BY <1>1, tryForwardStep, FewerEvents DEF IInv, TypeOK, cpu_vars

LEMMA RunRespondStep ==
    ASSUME IInv, NEW e \in events, RunRespond(e)
    PROVE  IInv'
  <1>1. inflight_reqs' \in [Cpus -> SUBSET Addr]
    BY DEF RunRespond, Answer, IInv, TypeOK
  <1>2. events' \subseteq events /\ undefined' \in BOOLEAN
    BY TouchesType DEF RunRespond
  <1>3. UNCHANGED <<next_addr, cpu_link, req_buffer, mem_link, todo, freed>>
    BY DEF RunRespond
  <1>. QED
    BY <1>1, <1>2, <1>3, FewerEvents, SameLinks DEF IInv, TypeOK

LEMMA RunMemoryStep ==
    ASSUME IInv, NEW e \in events, RunMemory(e)
    PROVE  IInv'
  <1>. DEFINE f == [do |-> "respond", req |-> e.req, port |-> upstreamId(e.req, e.port),
                    delay |-> 1]
  <1>1. e.req \in Request /\ e.port \in Mems /\ e.port = routeToDownstream(e.req)
    <2>1. e \in Event /\ e.do = "memory" /\ EventRouted(e)
      BY DEF RunMemory, IInv, TypeOK, EventsRouted
    <2>. QED
      BY <2>1 DEF Event, EventRouted
  <1>2. upstreamId(e.req, e.port) \in Cpus
    BY <1>1, UpstreamType
  <1>3. f \in Event /\ EventRouted(f)
    BY <1>1, <1>2 DEF Event, EventRouted, upstreamId
  <1>4. events' \subseteq Event /\ EventsRouted'
    <2>1. events' \subseteq events \cup {f}
      BY DEF RunMemory
    <2>. HIDE DEF f
    <2>. QED
      BY <1>3, <2>1 DEF IInv, TypeOK, EventsRouted, EventRouted
  <1>5. /\ undefined' \in BOOLEAN
        /\ UNCHANGED <<cpu_vars, cpu_link, req_buffer, mem_link, todo, freed>>
    BY TouchesType DEF RunMemory
  <1>. QED
    BY <1>4, <1>5, SameLinks DEF IInv, TypeOK, cpu_vars

LEMMA CpuPortTickStep ==
    ASSUME IInv, NEW c \in Cpus, CpuPortTick(c)
    PROVE  IInv'
  <1>1. /\ CpuPort!Retried(cpu_link[c]) \in CpuPort!Link(Request)
        /\ Head(cpu_link[c].out) \in Request
    <2>1. cpu_link[c] \in CpuPort!Link(Request) /\ CpuPort!Behind(cpu_link[c])
      BY DEF IInv, TypeOK, CpuPortTick
    <2>. QED
      BY <2>1, RetriedLine DEF CpuPort!Retried, CpuPort!Behind, CpuPort!Link
  <1>2. cpu_link' \in [Cpus -> CpuPort!Link(Request)]
    <2>1. cpu_link' = [cpu_link EXCEPT ![c] = CpuPort!Retried(cpu_link[c])]
      BY DEF CpuPortTick
    <2>. QED
      BY <1>1, <2>1, CpuLinkChange DEF IInv
  <1>3. /\ freed' \subseteq Request /\ undefined' \in BOOLEAN
        /\ UNCHANGED <<cpu_vars, req_buffer, mem_link, events, todo>>
    BY <1>1, TouchesType DEF CpuPortTick, IInv, TypeOK
  <1>. QED
    BY <1>2, <1>3, SameLinks, SameEvents DEF IInv, TypeOK, cpu_vars

LEMMA CachePortTickStep ==
    ASSUME IInv, NEW m \in Mems, CachePortTick(m)
    PROVE  IInv'
  <1>1. /\ MemPort!Retried(mem_link[m]) \in MemPort!Link(Routed(m))
        /\ Head(mem_link[m].out) \in Routed(m)
    <2>1. mem_link[m] \in MemPort!Link(Routed(m)) /\ MemPort!Behind(mem_link[m])
      BY DEF IInv, LinksRouted, CachePortTick
    <2>. QED
      BY <2>1, RetriedLine DEF MemPort!Retried, MemPort!Behind, MemPort!Link
  <1>2. mem_link' \in [Mems -> MemPort!Link(Request)] /\ LinksRouted'
    <2>1. mem_link' = [mem_link EXCEPT ![m] = MemPort!Retried(mem_link[m])]
      BY DEF CachePortTick
    <2>. QED
      BY <1>1, <2>1, MemLinkChange DEF IInv
  <1>3. /\ freed' \subseteq Request /\ undefined' \in BOOLEAN
        /\ UNCHANGED <<cpu_vars, cpu_link, req_buffer, events, todo>>
    BY <1>1, TouchesType DEF CachePortTick, IInv, TypeOK, Routed
  <1>. QED
    BY <1>2, <1>3, SameEvents DEF IInv, TypeOK, cpu_vars

LEMMA NextCycleStep ==
    ASSUME IInv, NextCycle
    PROVE  IInv'
  <1>1. ASSUME NEW f \in events'
        PROVE  f \in Event /\ EventRouted(f)
    <2>1. PICK e \in events : f = [e EXCEPT !.delay = @ - 1] /\ e.delay > 0
      BY DEF NextCycle
    <2>2. e \in Event /\ EventRouted(e)
      BY DEF IInv, TypeOK, EventsRouted
    <2>3. CASE e.do = "memory"
      <3>1. e \in [do : {"memory"}, req : Request, port : Mems, delay : 0 .. MemDelay]
        BY <2>2, <2>3 DEF Event
      <3>2. e.delay - 1 \in 0 .. MemDelay
        BY <2>1, <3>1, SizesAssumption
      <3>. QED
        BY <2>1, <2>2, <3>1, <3>2 DEF Event, EventRouted
    <2>4. CASE e.do # "memory"
      <3>1. e \in [do : {"tryForward", "respond"}, req : Request, port : Cpus, delay : {0, 1}]
        BY <2>2, <2>4 DEF Event
      <3>2. e.delay - 1 \in {0, 1}
        BY <2>1, <3>1
      <3>. QED
        BY <2>1, <2>2, <3>1, <3>2 DEF Event, EventRouted
    <2>. QED
      BY <2>3, <2>4
  <1>2. events' \subseteq Event /\ EventsRouted'
    BY <1>1 DEF EventsRouted, EventRouted
  <1>3. /\ undefined' \in BOOLEAN /\ todo' \subseteq Modules
        /\ UNCHANGED <<cpu_vars, cpu_link, req_buffer, mem_link, freed>>
    BY TouchesType DEF NextCycle, Modules
  <1>. QED
    BY <1>2, <1>3, SameLinks DEF IInv, TypeOK, cpu_vars

-----------------------------------------------------------------------------
(* Where requests are *)

\* The places a request can be: on its way to the cache, in its buffer, on the
\* way to the memory it is routed to, or waiting to be answered.
AtCache == {r \in Request : r \in Range(ToCache(r.cpu))}
AtBuffer == Range(req_buffer)
AtMemory == {r \in Request : r \in Range(ToMemory(routeToDownstream(r)))}
AtAnswer == ToAnswer

Issued == {r \in Request : r.addr < next_addr[r.cpu]}

\* No line holds a request twice, that of a CPU only requests of this CPU.
CpuLinesOnce == \A c \in Cpus : /\ IsInjective(ToCache(c))
                                /\ \A r \in Range(ToCache(c)) : r.cpu = c
MemLinesOnce == \A m \in Mems : IsInjective(ToMemory(m))
LinesOnce == CpuLinesOnce /\ MemLinesOnce /\ IsInjective(req_buffer)

\* A request waits for one answer; that to a hit goes to its CPU, and no hit
\* gets as far as a memory.
AnswersOnce ==
    \A e \in events : e.do # "tryForward" =>
        /\ \A f \in events : f.do # "tryForward" /\ f.req = e.req => f = e
        /\ e.do = "memory" => ~hit(e.req)
        /\ e.do = "respond" /\ hit(e.req) => e.port = e.req.cpu

\* A request is in one place, after it was issued.
PlacesOnce ==
    /\ AtCache \cap AtBuffer = {} /\ AtCache \cap AtMemory = {} /\ AtCache \cap AtAnswer = {}
    /\ AtBuffer \cap AtMemory = {} /\ AtBuffer \cap AtAnswer = {} /\ AtMemory \cap AtAnswer = {}
    /\ AtCache \cup AtBuffer \cup AtMemory \cup AtAnswer \subseteq Issued
    /\ \A r \in AtBuffer \cup AtMemory : ~hit(r)

OneWay == LinesOnce /\ AnswersOnce /\ PlacesOnce

\* Requests whose answer finds its way home, and those in the tables.
Returns(r) == NumCpus = 1 \/ hit(r)
InTable == {r \in Request : r.addr \in inflight_reqs[r.cpu]}

TableOfWay ==
    \A r \in Request : Returns(r) =>
        (r \in InTable <=> r \in AtCache \cup AtBuffer \cup AtMemory \cup AtAnswer)

WInv == OneWay /\ TableOfWay

-----------------------------------------------------------------------------
(* Requests that enter and leave a line *)

LEMMA LinesType ==
    ASSUME IInv
    PROVE  /\ \A c \in Cpus : ToCache(c) \in Seq(Request)
           /\ \A m \in Mems : ToMemory(m) \in Seq(Routed(m))
           /\ req_buffer \in Seq(Request)
  BY DEF IInv, TypeOK, LinksRouted, ToCache, ToMemory, CpuPort!Link, MemPort!Link

\* Only the line of one CPU changes: what becomes of AtCache.
LEMMA OneCpuLine ==
    ASSUME IInv, CpuLinesOnce, NEW c \in Cpus, NEW l,
           cpu_link' = [cpu_link EXCEPT ![c] = l],
           IsInjective(l.in \o l.out), \A r \in Range(l.in \o l.out) : r.cpu = c
    PROVE  /\ CpuLinesOnce'
           /\ AtCache' = {r \in AtCache : r.cpu # c}
                         \cup {r \in Request : r.cpu = c /\ r \in Range(l.in \o l.out)}
  <1>1. ToCache(c)' = l.in \o l.out
    BY DEF IInv, TypeOK, ToCache
  <1>2. \A d \in Cpus \ {c} : ToCache(d)' = ToCache(d)
    BY DEF IInv, TypeOK, ToCache
  <1>3. CpuLinesOnce'
    BY <1>1, <1>2 DEF CpuLinesOnce
  <1>4. \A r \in Request : r.cpu \in Cpus
    BY DEF Request
  <1>. QED
    BY <1>1, <1>2, <1>3, <1>4 DEF AtCache

LEMMA CacheGets ==
    ASSUME IInv, CpuLinesOnce, NEW c \in Cpus, NEW r \in Request, r.cpu = c, r \notin AtCache,
           CpuPort!Accepted(cpu_link[c]),
           cpu_link' = [cpu_link EXCEPT ![c] = CpuPort!Sent(cpu_link[c], r)]
    PROVE  CpuLinesOnce' /\ AtCache' = AtCache \cup {r}
  <1>. DEFINE l == CpuPort!Sent(cpu_link[c], r)
  <1>1. cpu_link[c] \in CpuPort!Link(Request) /\ ToCache(c) \in Seq(Request)
    BY LinesType DEF IInv, TypeOK
  <1>2. l.in \o l.out = Append(ToCache(c), r)
    <2>1. PICK q, t, inside, outside :
              q = cpu_link[c].in /\ t = cpu_link[c].out /\ inside = l.in /\ outside = l.out
      OBVIOUS
    <2>2. q \in Seq(Request) /\ t \in Seq(Request) /\ r \in Request
      BY <1>1, <2>1 DEF CpuPort!Link
    <2>3. \/ t = << >> /\ inside = Append(q, r) /\ outside = t
          \/ inside = q /\ outside = Append(t, r)
      BY <1>1, <2>1 DEF CpuPort!Sent, CpuPort!Accepted, CpuPort!Direct, CpuPort!Behind, CpuPort!Link
    <2>4. inside \o outside = Append(q \o t, r)
      <3>1. q \o Append(t, r) = Append(q \o t, r)
        BY <2>2, ConcatEnds
      <3>2. Append(q, r) \o << >> = Append(q \o << >>, r)
        BY <2>2
      <3>. QED
        BY <2>3, <3>1, <3>2
    <2>. QED
      BY <2>1, <2>4 DEF ToCache
  <1>. HIDE DEF l
  <1>3. /\ IsInjective(ToCache(c)) /\ r \notin Range(ToCache(c))
        /\ \A q \in Range(ToCache(c)) : q.cpu = c
    BY DEF CpuLinesOnce, AtCache
  <1>4. /\ Range(l.in \o l.out) = Range(ToCache(c)) \cup {r}
        /\ IsInjective(l.in \o l.out)
    BY <1>1, <1>2, <1>3, AppendOnce
  <1>5. cpu_link' = [cpu_link EXCEPT ![c] = l]
    BY DEF l
  <1>6. /\ CpuLinesOnce'
        /\ AtCache' = {q \in AtCache : q.cpu # c}
                      \cup {q \in Request : q.cpu = c /\ q \in Range(l.in \o l.out)}
    BY <1>3, <1>4, <1>5, OneCpuLine
  <1>. QED
    BY <1>4, <1>6 DEF AtCache

LEMMA CacheLoses ==
    ASSUME IInv, CpuLinesOnce, NEW c \in Cpus, cpu_link[c].in # << >>,
           cpu_link' = [cpu_link EXCEPT ![c] = CpuPort!Taken(cpu_link[c])]
    PROVE  LET r == Head(cpu_link[c].in)
           IN CpuLinesOnce' /\ r \in AtCache /\ r.cpu = c /\ AtCache' = AtCache \ {r}
  <1>. DEFINE l == CpuPort!Taken(cpu_link[c])
              r == Head(cpu_link[c].in)
  <1>1. cpu_link[c] \in CpuPort!Link(Request) /\ ToCache(c) \in Seq(Request)
    BY LinesType DEF IInv, TypeOK
  <1>2. /\ l.in \o l.out = Tail(ToCache(c))
        /\ r = Head(ToCache(c)) /\ ToCache(c) # << >>
    BY <1>1, TakenLine DEF ToCache, CpuPort!Taken, CpuPort!Link
  <1>3. r \in Request
    BY <1>1, TakenLine DEF CpuPort!Taken, CpuPort!Link
  <1>. HIDE DEF l, r
  <1>4. IsInjective(ToCache(c)) /\ \A q \in Range(ToCache(c)) : q.cpu = c
    BY DEF CpuLinesOnce
  <1>5. /\ Range(ToCache(c)) = Range(l.in \o l.out) \cup {r}
        /\ r \notin Range(l.in \o l.out) /\ IsInjective(l.in \o l.out)
    BY <1>1, <1>2, <1>4, TailOnce
  <1>6. cpu_link' = [cpu_link EXCEPT ![c] = l]
    BY DEF l
  <1>7. /\ CpuLinesOnce'
        /\ AtCache' = {q \in AtCache : q.cpu # c}
                      \cup {q \in Request : q.cpu = c /\ q \in Range(l.in \o l.out)}
    BY <1>4, <1>5, <1>6, OneCpuLine
  <1>8. r \in AtCache /\ r.cpu = c /\ AtCache' = AtCache \ {r}
    BY <1>3, <1>4, <1>5, <1>7 DEF AtCache
  <1>. QED
    BY <1>7, <1>8 DEF r

LEMMA CacheTurns ==
    ASSUME IInv, CpuLinesOnce, NEW c \in Cpus,
           cpu_link' = [cpu_link EXCEPT ![c] = CpuPort!Retried(cpu_link[c])]
    PROVE  CpuLinesOnce' /\ AtCache' = AtCache
  <1>. DEFINE l == CpuPort!Retried(cpu_link[c])
              q == cpu_link[c].in
              t == cpu_link[c].out
  <1>1. cpu_link[c] \in CpuPort!Link(Request)
    BY DEF IInv, TypeOK
  <1>2. q \in Seq(Request) /\ t \in Seq(Request) /\ ToCache(c) = q \o t
    BY <1>1 DEF CpuPort!Link, ToCache
  <1>3. /\ l.in = q
        /\ l.out = t \/ (t # << >> /\ l.out = Append(Tail(t), Head(t)))
    BY <1>1, RetriedLine DEF CpuPort!Retried, CpuPort!Behind, CpuPort!Link
  <1>. HIDE DEF l, q, t
  <1>4. IsInjective(ToCache(c)) /\ \A r \in Range(ToCache(c)) : r.cpu = c
    BY DEF CpuLinesOnce
  <1>5. Range(l.in \o l.out) = Range(ToCache(c)) /\ IsInjective(l.in \o l.out)
    BY <1>2, <1>3, <1>4, RotateSecondOnce
  <1>6. cpu_link' = [cpu_link EXCEPT ![c] = l]
    BY DEF l
  <1>7. /\ CpuLinesOnce'
        /\ AtCache' = {r \in AtCache : r.cpu # c}
                      \cup {r \in Request : r.cpu = c /\ r \in Range(l.in \o l.out)}
    BY <1>4, <1>5, <1>6, OneCpuLine
  <1>. QED
    BY <1>5, <1>7 DEF AtCache

\* Likewise for the line of one memory.
LEMMA OneMemLine ==
    ASSUME IInv, MemLinesOnce, NEW m \in Mems, NEW l,
           mem_link' = [mem_link EXCEPT ![m] = l], IsInjective(l.in \o l.out)
    PROVE  /\ MemLinesOnce'
           /\ AtMemory' = {r \in AtMemory : routeToDownstream(r) # m}
                          \cup {r \in Routed(m) : r \in Range(l.in \o l.out)}
  <1>1. ToMemory(m)' = l.in \o l.out
    BY DEF IInv, TypeOK, ToMemory
  <1>2. \A n \in Mems \ {m} : ToMemory(n)' = ToMemory(n)
    BY DEF IInv, TypeOK, ToMemory
  <1>3. MemLinesOnce'
    BY <1>1, <1>2 DEF MemLinesOnce
  <1>4. \A r \in Request : routeToDownstream(r) \in Mems
    BY RouteType
  <1>5. ASSUME NEW r \in Request
        PROVE  r \in AtMemory' <=> \/ r \in AtMemory /\ routeToDownstream(r) # m
                                   \/ r \in Routed(m) /\ r \in Range(l.in \o l.out)
    BY <1>1, <1>2, <1>4 DEF AtMemory, Routed
  <1>6. AtMemory \subseteq Request /\ AtMemory' \subseteq Request /\ Routed(m) \subseteq Request
    BY DEF AtMemory, Routed
  <1>. QED
    BY <1>3, <1>5, <1>6

LEMMA MemoryGets ==
    ASSUME IInv, MemLinesOnce, NEW m \in Mems, NEW r \in Routed(m), r \notin AtMemory,
           MemPort!Accepted(mem_link[m]),
           mem_link' = [mem_link EXCEPT ![m] = MemPort!Sent(mem_link[m], r)]
    PROVE  MemLinesOnce' /\ AtMemory' = AtMemory \cup {r}
  <1>. DEFINE l == MemPort!Sent(mem_link[m], r)
  <1>1. mem_link[m] \in MemPort!Link(Routed(m)) /\ ToMemory(m) \in Seq(Routed(m))
    BY LinesType DEF IInv, LinksRouted
  <1>2. l.in \o l.out = Append(ToMemory(m), r)
    <2>1. PICK q, t, inside, outside :
              q = mem_link[m].in /\ t = mem_link[m].out /\ inside = l.in /\ outside = l.out
      OBVIOUS
    <2>2. q \in Seq(Routed(m)) /\ t \in Seq(Routed(m)) /\ r \in Routed(m)
      BY <1>1, <2>1 DEF MemPort!Link
    <2>3. \/ t = << >> /\ inside = Append(q, r) /\ outside = t
          \/ inside = q /\ outside = Append(t, r)
      BY <1>1, <2>1 DEF MemPort!Sent, MemPort!Accepted, MemPort!Direct, MemPort!Behind, MemPort!Link
    <2>4. inside \o outside = Append(q \o t, r)
      <3>1. q \o Append(t, r) = Append(q \o t, r)
        BY <2>2, ConcatEnds
      <3>2. Append(q, r) \o << >> = Append(q \o << >>, r)
        BY <2>2
      <3>. QED
        BY <2>3, <3>1, <3>2
    <2>. QED
      BY <2>1, <2>4 DEF ToMemory
  <1>. HIDE DEF l
  <1>3. /\ IsInjective(ToMemory(m)) /\ r \notin Range(ToMemory(m))
    BY DEF MemLinesOnce, AtMemory, Routed
  <1>4. /\ Range(l.in \o l.out) = Range(ToMemory(m)) \cup {r}
        /\ IsInjective(l.in \o l.out)
    BY <1>1, <1>2, <1>3, AppendOnce
  <1>5. mem_link' = [mem_link EXCEPT ![m] = l]
    BY DEF l
  <1>6. /\ MemLinesOnce'
        /\ AtMemory' = {q \in AtMemory : routeToDownstream(q) # m}
                       \cup {q \in Routed(m) : q \in Range(l.in \o l.out)}
    BY <1>4, <1>5, OneMemLine
  <1>. QED
    BY <1>4, <1>6 DEF AtMemory, Routed

LEMMA MemoryLoses ==
    ASSUME IInv, MemLinesOnce, NEW m \in Mems, mem_link[m].in # << >>,
           mem_link' = [mem_link EXCEPT ![m] = MemPort!Taken(mem_link[m])]
    PROVE  LET r == Head(mem_link[m].in)
           IN MemLinesOnce' /\ r \in AtMemory /\ r \in Routed(m) /\ AtMemory' = AtMemory \ {r}
  <1>. DEFINE l == MemPort!Taken(mem_link[m])
              r == Head(mem_link[m].in)
  <1>1. mem_link[m] \in MemPort!Link(Routed(m)) /\ ToMemory(m) \in Seq(Routed(m))
    BY LinesType DEF IInv, LinksRouted
  <1>2. /\ l.in \o l.out = Tail(ToMemory(m))
        /\ r = Head(ToMemory(m)) /\ ToMemory(m) # << >>
    BY <1>1, TakenLine DEF ToMemory, MemPort!Taken, MemPort!Link
  <1>3. r \in Routed(m)
    BY <1>1, TakenLine DEF MemPort!Taken, MemPort!Link
  <1>. HIDE DEF l, r
  <1>4. IsInjective(ToMemory(m))
    BY DEF MemLinesOnce
  <1>5. /\ Range(ToMemory(m)) = Range(l.in \o l.out) \cup {r}
        /\ r \notin Range(l.in \o l.out) /\ IsInjective(l.in \o l.out)
    BY <1>1, <1>2, <1>4, TailOnce
  <1>6. mem_link' = [mem_link EXCEPT ![m] = l]
    BY DEF l
  <1>7. /\ MemLinesOnce'
        /\ AtMemory' = {q \in AtMemory : routeToDownstream(q) # m}
                       \cup {q \in Routed(m) : q \in Range(l.in \o l.out)}
    BY <1>5, <1>6, OneMemLine
  <1>8. r \in AtMemory /\ AtMemory' = AtMemory \ {r}
    BY <1>3, <1>5, <1>7 DEF AtMemory, Routed
  <1>. QED
    BY <1>3, <1>7, <1>8 DEF r

LEMMA MemoryTurns ==
    ASSUME IInv, MemLinesOnce, NEW m \in Mems,
           mem_link' = [mem_link EXCEPT ![m] = MemPort!Retried(mem_link[m])]
    PROVE  MemLinesOnce' /\ AtMemory' = AtMemory
  <1>. DEFINE l == MemPort!Retried(mem_link[m])
              q == mem_link[m].in
              t == mem_link[m].out
  <1>1. mem_link[m] \in MemPort!Link(Routed(m))
    BY DEF IInv, LinksRouted
  <1>2. q \in Seq(Routed(m)) /\ t \in Seq(Routed(m)) /\ ToMemory(m) = q \o t
    BY <1>1 DEF MemPort!Link, ToMemory
  <1>3. /\ l.in = q
        /\ l.out = t \/ (t # << >> /\ l.out = Append(Tail(t), Head(t)))
    BY <1>1, RetriedLine DEF MemPort!Retried, MemPort!Behind, MemPort!Link
  <1>. HIDE DEF l, q, t
  <1>4. IsInjective(ToMemory(m))
    BY DEF MemLinesOnce
  <1>5. Range(l.in \o l.out) = Range(ToMemory(m)) /\ IsInjective(l.in \o l.out)
    BY <1>2, <1>3, <1>4, RotateSecondOnce
  <1>6. mem_link' = [mem_link EXCEPT ![m] = l]
    BY DEF l
  <1>7. /\ MemLinesOnce'
        /\ AtMemory' = {r \in AtMemory : routeToDownstream(r) # m}
                       \cup {r \in Routed(m) : r \in Range(l.in \o l.out)}
    BY <1>5, <1>6, OneMemLine
  <1>. QED
    BY <1>5, <1>7 DEF AtMemory, Routed

\* An answer is scheduled, or given.
LEMMA AnswerDue ==
    ASSUME IInv, AnswersOnce, NEW e \in Event, e.do # "tryForward", e.req \notin AtAnswer,
           e.do = "memory" => ~hit(e.req),
           e.do = "respond" /\ hit(e.req) => e.port = e.req.cpu,
           events' = events \cup {e}
    PROVE  AnswersOnce' /\ AtAnswer' = AtAnswer \cup {e.req}
  <1>1. AtAnswer' = AtAnswer \cup {e.req}
    BY DEF AtAnswer, ToAnswer
  <1>2. \A f \in events : f.do # "tryForward" => f.req # e.req
    BY DEF AtAnswer, ToAnswer
  <1>. QED
    BY <1>1, <1>2 DEF AnswersOnce

LEMMA AnswerGiven ==
    ASSUME IInv, AnswersOnce, NEW e \in events, e.do # "tryForward", events' = events \ {e}
    PROVE  /\ AnswersOnce' /\ e.req \in AtAnswer
           /\ AtAnswer' = AtAnswer \ {e.req}
  <1>1. \A f \in events \ {e} : f.do # "tryForward" => f.req # e.req
    BY DEF AnswersOnce
  <1>2. e.req \in AtAnswer /\ AtAnswer' = AtAnswer \ {e.req}
    BY <1>1 DEF AtAnswer, ToAnswer
  <1>. QED
    BY <1>2 DEF AnswersOnce

-----------------------------------------------------------------------------
(* Every step keeps a request in one place *)

\* What a step leaves alone keeps the places that depend on it.
LEMMA Frames ==
    /\ UNCHANGED cpu_link => AtCache' = AtCache /\ CpuLinesOnce' = CpuLinesOnce
    /\ UNCHANGED mem_link => AtMemory' = AtMemory /\ MemLinesOnce' = MemLinesOnce
    /\ UNCHANGED req_buffer => AtBuffer' = AtBuffer
    /\ UNCHANGED events => AtAnswer' = AtAnswer /\ AnswersOnce' = AnswersOnce
    /\ UNCHANGED next_addr => Issued' = Issued
    /\ UNCHANGED inflight_reqs => InTable' = InTable
  <1>1. UNCHANGED cpu_link => AtCache' = AtCache /\ CpuLinesOnce' = CpuLinesOnce
    BY DEF AtCache, CpuLinesOnce, ToCache
  <1>2. UNCHANGED mem_link => AtMemory' = AtMemory /\ MemLinesOnce' = MemLinesOnce
    BY DEF AtMemory, MemLinesOnce, ToMemory
  <1>3. UNCHANGED events => AtAnswer' = AtAnswer /\ AnswersOnce' = AnswersOnce
    BY DEF AtAnswer, AnswersOnce, ToAnswer
  <1>. QED
    BY <1>1, <1>2, <1>3 DEF AtBuffer, Issued, InTable

\* A step that moves no request.
LEMMA NothingMoves ==
    ASSUME WInv, LinesOnce', AnswersOnce', AtCache' = AtCache, AtBuffer' = AtBuffer,
           AtMemory' = AtMemory, AtAnswer' = AtAnswer, Issued' = Issued, InTable' = InTable
    PROVE  WInv'
  BY DEF WInv, OneWay, PlacesOnce, TableOfWay

\* Events of tryForward answer nothing.
LEMMA OtherEvents ==
    ASSUME AnswersOnce, {e \in events' : e.do # "tryForward"} = {e \in events : e.do # "tryForward"}
    PROVE  AtAnswer' = AtAnswer /\ AnswersOnce'
  <1>1. \A e : e \in events' /\ e.do # "tryForward" <=> e \in events /\ e.do # "tryForward"
    OBVIOUS
  <1>2. AtAnswer' = AtAnswer
    BY DEF AtAnswer, ToAnswer
  <1>3. AnswersOnce'
    BY <1>1 DEF AnswersOnce
  <1>. QED
    BY <1>2, <1>3

\* What a CPU issues was nowhere before, and is on its way to the cache when
\* it is accepted.
LEMMA IssuePlaces ==
    ASSUME IInv, WInv, NEW c \in Cpus, Issue(c), CpuPort!Accepted(cpu_link[c])
    PROVE  LET r == [cpu |-> c, addr |-> next_addr[c]]
           IN /\ r \in Request /\ r \notin Issued /\ Issued \cup {r} \subseteq Issued'
              /\ CpuLinesOnce' /\ AtCache' = AtCache \cup {r}
              /\ InTable' = InTable \cup {r}
  <1>. DEFINE r == [cpu |-> c, addr |-> next_addr[c]]
  <1>1. /\ r \in Request /\ next_addr[c] \in Addr /\ next_addr[c] \in Nat /\ r.cpu = c
        /\ cpu_link[c] \in CpuPort!Link(Request)
    BY AddrType DEF Issue, Request, IInv, TypeOK
  <1>2. r \notin Issued
    BY <1>1 DEF Issued
  <1>3. CpuLinesOnce' /\ AtCache' = AtCache \cup {r}
    <2>1. cpu_link' = [cpu_link EXCEPT ![c] = CpuPort!Sent(cpu_link[c], r)]
      BY DEF Issue
    <2>. HIDE DEF r
    <2>2. r \notin AtCache
      BY <1>2 DEF WInv, OneWay, PlacesOnce
    <2>. QED
      BY <1>1, <2>1, <2>2, CacheGets DEF WInv, OneWay, LinesOnce
  <1>4. /\ inflight_reqs' = [inflight_reqs EXCEPT ![c] = @ \cup {next_addr[c]}]
        /\ next_addr' = [next_addr EXCEPT ![c] = @ + 4]
    BY DEF Issue
  <1>5. \A q \in Request : q.cpu \in Cpus /\ q.addr \in Nat
    BY AddrType DEF Request
  <1>6. InTable' = InTable \cup {r}
    <2>1. ASSUME NEW q \in Request
          PROVE  q \in InTable' <=> q \in InTable \/ q = r
      <3>1. q = r <=> q.cpu = c /\ q.addr = next_addr[c]
        BY DEF Request
      <3>2. q.cpu \in Cpus
        BY <1>5
      <3>. QED
        BY <1>4, <3>1, <3>2 DEF InTable, IInv, TypeOK
    <2>. QED
      BY <1>1, <2>1 DEF InTable
  <1>7. Issued \cup {r} \subseteq Issued'
    <2>1. \A d \in Cpus : next_addr[d] \in Nat /\ next_addr[d] <= next_addr'[d]
      <3>1. ASSUME NEW d \in Cpus
            PROVE  next_addr[d] \in Nat
        <4>1. next_addr[d] \in Addr \/ next_addr[d] = FirstAddr + 4 * MaxRequests
          BY DEF IInv, TypeOK
        <4>2. FirstAddr \in Nat /\ MaxRequests \in Nat
          BY SizesAssumption
        <4>3. FirstAddr + 4 * MaxRequests \in Nat
          BY <4>2
        <4>. QED
          BY <4>1, <4>3, AddrType
      <3>. QED
        BY <1>4, <3>1 DEF IInv, TypeOK
    <2>2. next_addr'[c] = next_addr[c] + 4
      BY <1>4 DEF IInv, TypeOK
    <2>3. r \in Issued'
      BY <1>1, <2>2 DEF Issued
    <2>4. ASSUME NEW q \in Issued
          PROVE  q \in Issued'
      <3>1. q \in Request /\ q.cpu \in Cpus /\ q.addr \in Nat /\ q.addr < next_addr[q.cpu]
        BY <1>5 DEF Issued
      <3>2. next_addr'[q.cpu] \in Nat
        BY <1>4, <2>1, <3>1 DEF IInv, TypeOK
      <3>3. q.addr < next_addr'[q.cpu]
        BY <2>1, <3>1, <3>2
      <3>. QED
        BY <3>1, <3>3 DEF Issued
    <2>. QED
      BY <2>3, <2>4
  <1>. QED
    BY <1>1, <1>2, <1>3, <1>6, <1>7

\* What it is refused changes nothing.
LEMMA IssueRefused ==
    ASSUME IInv, NEW c \in Cpus, Issue(c), ~CpuPort!Accepted(cpu_link[c])
    PROVE  UNCHANGED <<next_addr, inflight_reqs, cpu_link>>
  <1>. DEFINE r == [cpu |-> c, addr |-> next_addr[c]]
  <1>1. r \in Request /\ cpu_link[c] \in CpuPort!Link(Request)
    BY DEF Issue, Request, IInv, TypeOK
  <1>2. /\ cpu_link' = [cpu_link EXCEPT ![c] = CpuPort!Sent(cpu_link[c], r)]
        /\ UNCHANGED <<inflight_reqs, next_addr>>
    BY DEF Issue, cpu_vars
  <1>. HIDE DEF r
  <1>3. CpuPort!Sent(cpu_link[c], r) = cpu_link[c]
    BY <1>1, SentLine
       DEF CpuPort!Sent, CpuPort!Link, CpuPort!Accepted, CpuPort!Direct, CpuPort!Behind
  <1>. QED
    BY <1>2, <1>3 DEF IInv, TypeOK

LEMMA IssueWay ==
    ASSUME IInv, WInv, NEW c \in Cpus, Issue(c)
    PROVE  WInv'
  <1>1. UNCHANGED <<req_buffer, mem_link, events>>
    BY DEF Issue
  <1>2. /\ AtMemory' = AtMemory /\ MemLinesOnce' /\ AtBuffer' = AtBuffer
        /\ AtAnswer' = AtAnswer /\ AnswersOnce' /\ IsInjective(req_buffer')
    BY <1>1, Frames DEF WInv, OneWay, LinesOnce
  <1>3. CASE CpuPort!Accepted(cpu_link[c])
    <2>. DEFINE r == [cpu |-> c, addr |-> next_addr[c]]
    <2>1. /\ r \in Request /\ r \notin Issued /\ Issued \cup {r} \subseteq Issued'
          /\ CpuLinesOnce' /\ AtCache' = AtCache \cup {r}
          /\ InTable' = InTable \cup {r}
      BY <1>3, IssuePlaces
    <2>. HIDE DEF r
    <2>2. PlacesOnce'
      BY <1>2, <2>1 DEF WInv, OneWay, PlacesOnce
    <2>3. TableOfWay'
      BY <1>2, <2>1 DEF WInv, TableOfWay
    <2>. QED
      BY <1>2, <2>1, <2>2, <2>3 DEF WInv, OneWay, LinesOnce
  <1>4. CASE ~CpuPort!Accepted(cpu_link[c])
    BY <1>2, <1>4, IssueRefused, Frames, NothingMoves DEF WInv, OneWay, LinesOnce
  <1>. QED
    BY <1>3, <1>4

LEMMA CacheAcceptsWay ==
    ASSUME IInv, WInv, NEW c \in Cpus, CacheAccepts(c)
    PROVE  WInv'
  <1>. DEFINE r == Head(cpu_link[c].in)
  <1>1. /\ CpuLinesOnce' /\ r \in AtCache /\ r.cpu = c /\ AtCache' = AtCache \ {r}
    <2>1. cpu_link[c].in # << >>
          /\ cpu_link' = [cpu_link EXCEPT ![c] = CpuPort!Taken(cpu_link[c])]
      BY DEF CacheAccepts
    <2>. QED
      BY <2>1, CacheLoses DEF WInv, OneWay, LinesOnce
  <1>2. UNCHANGED <<next_addr, inflight_reqs, mem_link>>
    BY DEF CacheAccepts, cpu_vars
  <1>3. /\ AtMemory' = AtMemory /\ MemLinesOnce' /\ Issued' = Issued /\ InTable' = InTable
    BY <1>2, Frames DEF WInv, OneWay, LinesOnce
  <1>4. /\ \/ /\ hit(r)
              /\ events' = events \cup {[do |-> "respond", req |-> r, port |-> c, delay |-> 1]}
              /\ UNCHANGED req_buffer
           \/ /\ ~hit(r)
              /\ req_buffer' = Append(req_buffer, r)
              /\ events' = events \cup {[do |-> "tryForward", req |-> r, port |-> 0, delay |-> 1]}
    BY DEF CacheAccepts, buffered, scheduleForward
  <1>5. r \in Request /\ r \notin AtBuffer \cup AtMemory \cup AtAnswer
    BY <1>1 DEF WInv, OneWay, PlacesOnce, AtCache
  <1>. HIDE DEF r
  <1>6. CASE hit(r) /\ UNCHANGED req_buffer
             /\ events' = events \cup {[do |-> "respond", req |-> r, port |-> c, delay |-> 1]}
    <2>. DEFINE e == [do |-> "respond", req |-> r, port |-> c, delay |-> 1]
    <2>1. /\ e \in Event /\ e.do # "tryForward" /\ e.do # "memory" /\ e.req = r
          /\ e.port = e.req.cpu
      BY <1>1, <1>5 DEF Event
    <2>2. AnswersOnce' /\ AtAnswer' = AtAnswer \cup {r}
      <3>1. events' = events \cup {e}
        BY <1>6
      <3>. HIDE DEF e
      <3>. QED
        BY <1>5, <2>1, <3>1, AnswerDue DEF WInv, OneWay
    <2>3. AtBuffer' = AtBuffer /\ IsInjective(req_buffer')
      BY <1>6, Frames DEF WInv, OneWay, LinesOnce
    <2>4. PlacesOnce'
      BY <1>1, <1>3, <1>5, <2>2, <2>3 DEF WInv, OneWay, PlacesOnce
    <2>5. TableOfWay'
      BY <1>1, <1>3, <2>2, <2>3 DEF WInv, TableOfWay
    <2>. QED
      BY <1>1, <1>3, <2>2, <2>3, <2>4, <2>5 DEF WInv, OneWay, LinesOnce
  <1>7. CASE ~hit(r) /\ req_buffer' = Append(req_buffer, r)
             /\ events' = events \cup {[do |-> "tryForward", req |-> r, port |-> 0, delay |-> 1]}
    <2>1. AnswersOnce' /\ AtAnswer' = AtAnswer
      BY <1>7, OtherEvents DEF WInv, OneWay
    <2>2. AtBuffer' = AtBuffer \cup {r} /\ IsInjective(req_buffer')
      BY <1>5, <1>7, LinesType, AppendOnce DEF WInv, OneWay, LinesOnce, AtBuffer
    <2>3. PlacesOnce'
      BY <1>1, <1>3, <1>5, <1>7, <2>1, <2>2 DEF WInv, OneWay, PlacesOnce
    <2>4. TableOfWay'
      BY <1>1, <1>3, <2>1, <2>2 DEF WInv, TableOfWay
    <2>. QED
      BY <1>1, <1>3, <2>1, <2>2, <2>3, <2>4 DEF WInv, OneWay, LinesOnce
  <1>. QED
    BY <1>4, <1>6, <1>7

\* tryForward moves the front of the buffer to its memory, or nothing.
LEMMA tryForwardWay ==
    ASSUME IInv, WInv, tryForward, UNCHANGED <<cpu_vars, cpu_link>>,
           AnswersOnce', AtAnswer' = AtAnswer
    PROVE  WInv'
  <1>1. /\ AtCache' = AtCache /\ CpuLinesOnce' /\ Issued' = Issued /\ InTable' = InTable
    BY Frames DEF WInv, OneWay, LinesOnce, cpu_vars
  <1>2. CASE UNCHANGED <<req_buffer, mem_link>>
    BY <1>1, <1>2, Frames, NothingMoves DEF WInv, OneWay, LinesOnce
  <1>3. CASE req_buffer # << >>
    <2>. DEFINE r == Head(req_buffer)
                m == routeToDownstream(r)
    <2>1. req_buffer \in Seq(Request) /\ r \in Request
      BY <1>3, LinesType
    <2>2. m \in Mems /\ r \in Routed(m) /\ mem_link[m] \in MemPort!Link(Routed(m))
      BY <2>1, RouteType DEF Routed, IInv, LinksRouted
    <2>3. /\ r \in AtBuffer /\ AtBuffer = Range(Tail(req_buffer)) \cup {r}
          /\ IsInjective(Tail(req_buffer)) /\ r \notin Range(Tail(req_buffer))
      BY <1>3, <2>1, TailOnce DEF AtBuffer, WInv, OneWay, LinesOnce
    <2>4. /\ mem_link' = [mem_link EXCEPT ![m] = MemPort!Sent(mem_link[m], r)]
          /\ req_buffer' = IF MemPort!Accepted(mem_link[m]) THEN Tail(req_buffer)
                                                            ELSE req_buffer
      BY <1>3 DEF tryForward
    <2>. HIDE DEF m, r
    <2>5. CASE MemPort!Accepted(mem_link[m])
      <3>1. r \notin AtCache \cup AtMemory \cup AtAnswer /\ ~hit(r)
        BY <2>3 DEF WInv, OneWay, PlacesOnce
      <3>2. MemLinesOnce' /\ AtMemory' = AtMemory \cup {r}
        BY <2>2, <2>4, <2>5, <3>1, MemoryGets DEF WInv, OneWay, LinesOnce
      <3>3. AtBuffer' = AtBuffer \ {r} /\ IsInjective(req_buffer')
        BY <2>3, <2>4, <2>5 DEF AtBuffer
      <3>4. PlacesOnce'
        BY <1>1, <2>3, <3>1, <3>2, <3>3 DEF WInv, OneWay, PlacesOnce
      <3>5. TableOfWay'
        BY <1>1, <2>3, <3>2, <3>3 DEF WInv, TableOfWay
      <3>. QED
        BY <1>1, <3>2, <3>3, <3>4, <3>5 DEF WInv, OneWay, LinesOnce
    <2>6. CASE ~MemPort!Accepted(mem_link[m])
      <3>1. MemPort!Sent(mem_link[m], r) = mem_link[m]
        BY <2>2, <2>6, SentLine
           DEF MemPort!Sent, MemPort!Link, MemPort!Accepted, MemPort!Direct, MemPort!Behind
      <3>2. UNCHANGED <<req_buffer, mem_link>>
        BY <2>4, <2>6, <3>1 DEF IInv, TypeOK
      <3>. QED
        BY <1>2, <3>2
    <2>. QED
      BY <2>5, <2>6
  <1>. QED
    BY <1>2, <1>3 DEF tryForward

LEMMA MemAcceptsWay ==
    ASSUME IInv, WInv, NEW m \in Mems, MemAccepts(m)
    PROVE  WInv'
  <1>. DEFINE r == Head(mem_link[m].in)
              e == [do |-> "memory", req |-> r, port |-> m, delay |-> MemDelay]
  <1>1. MemLinesOnce' /\ r \in AtMemory /\ r \in Routed(m) /\ AtMemory' = AtMemory \ {r}
    <2>1. mem_link[m].in # << >>
          /\ mem_link' = [mem_link EXCEPT ![m] = MemPort!Taken(mem_link[m])]
      BY DEF MemAccepts
    <2>. QED
      BY <2>1, MemoryLoses DEF WInv, OneWay, LinesOnce
  <1>2. events' = events \cup {e} /\ UNCHANGED <<next_addr, inflight_reqs, cpu_link, req_buffer>>
    BY DEF MemAccepts, cpu_vars
  <1>3. /\ AtCache' = AtCache /\ CpuLinesOnce' /\ AtBuffer' = AtBuffer
        /\ IsInjective(req_buffer') /\ Issued' = Issued /\ InTable' = InTable
    BY <1>2, Frames DEF WInv, OneWay, LinesOnce
  <1>4. r \in Request /\ r \notin AtCache \cup AtBuffer \cup AtAnswer /\ ~hit(r)
    BY <1>1 DEF WInv, OneWay, PlacesOnce, Routed
  <1>. HIDE DEF r
  <1>5. e \in Event /\ e.do = "memory" /\ e.req = r
    BY <1>4, SizesAssumption DEF Event
  <1>. HIDE DEF e
  <1>6. AnswersOnce' /\ AtAnswer' = AtAnswer \cup {r}
    BY <1>2, <1>4, <1>5, AnswerDue DEF WInv, OneWay
  <1>7. PlacesOnce'
    BY <1>1, <1>3, <1>4, <1>6 DEF WInv, OneWay, PlacesOnce
  <1>8. TableOfWay'
    BY <1>1, <1>3, <1>6 DEF WInv, TableOfWay
  <1>. QED
    BY <1>1, <1>3, <1>6, <1>7, <1>8 DEF WInv, OneWay, LinesOnce

LEMMA RunRespondWay ==
    ASSUME IInv, WInv, NEW e \in events, RunRespond(e)
    PROVE  WInv'
  <1>. DEFINE r == e.req
  <1>1. /\ e.do = "respond" /\ events' = events \ {e}
        /\ inflight_reqs' = [inflight_reqs EXCEPT ![e.port] = @ \ {r.addr}]
        /\ UNCHANGED <<next_addr, cpu_link, req_buffer, mem_link>>
    BY DEF RunRespond, Answer
  <1>2. AnswersOnce' /\ r \in AtAnswer /\ AtAnswer' = AtAnswer \ {r}
    BY <1>1, AnswerGiven DEF WInv, OneWay
  <1>3. /\ AtCache' = AtCache /\ AtBuffer' = AtBuffer /\ AtMemory' = AtMemory
        /\ LinesOnce' /\ Issued' = Issued
    BY <1>1, Frames DEF WInv, OneWay, LinesOnce
  <1>4. PlacesOnce'
    BY <1>2, <1>3 DEF WInv, OneWay, PlacesOnce
  <1>5. r \in Request /\ e.port \in Cpus /\ (hit(r) => e.port = r.cpu)
    BY <1>1 DEF IInv, TypeOK, Event, WInv, OneWay, AnswersOnce
  <1>6. r \notin AtCache \cup AtBuffer \cup AtMemory
    BY <1>2 DEF WInv, OneWay, PlacesOnce
  <1>7. Returns(r) => e.port = r.cpu
    <2>1. NumCpus = 1 => Cpus = {0}
      BY DEF Cpus
    <2>2. r.cpu \in Cpus
      BY <1>5 DEF Request
    <2>. QED
      BY <1>5, <2>1, <2>2 DEF Returns
  <1>8. ASSUME NEW q \in Request, Returns(q)
        PROVE  q \in InTable' <=> q \in InTable /\ q # r
    <2>1. q.cpu \in Cpus /\ (q = r <=> q.cpu = r.cpu /\ q.addr = r.addr)
      BY <1>5 DEF Request
    <2>2. q.addr = r.addr => (hit(q) <=> hit(r))
      BY DEF hit
    <2>3. CASE q.cpu = e.port /\ q.addr = r.addr
      <3>1. Returns(r)
        BY <1>8, <2>2, <2>3 DEF Returns
      <3>2. q = r
        BY <1>7, <2>1, <2>3, <3>1
      <3>3. q.addr \notin inflight_reqs'[q.cpu]
        BY <1>1, <1>5, <2>3 DEF IInv, TypeOK
      <3>. QED
        BY <3>2, <3>3 DEF InTable
    <2>4. CASE ~(q.cpu = e.port /\ q.addr = r.addr)
      <3>1. q.addr \in inflight_reqs'[q.cpu] <=> q.addr \in inflight_reqs[q.cpu]
        BY <1>1, <1>5, <2>1, <2>4 DEF IInv, TypeOK
      <3>2. q # r
        BY <1>7, <1>8, <2>4
      <3>. QED
        BY <3>1, <3>2 DEF InTable
    <2>. QED
      BY <2>3, <2>4
  <1>. HIDE DEF r
  <1>9. TableOfWay'
    BY <1>2, <1>3, <1>6, <1>8 DEF WInv, TableOfWay
  <1>. QED
    BY <1>2, <1>3, <1>4, <1>9 DEF WInv, OneWay

LEMMA RunMemoryWay ==
    ASSUME IInv, WInv, NEW e \in events, RunMemory(e)
    PROVE  WInv'
  <1>. DEFINE f == [do |-> "respond", req |-> e.req, port |-> upstreamId(e.req, e.port),
                    delay |-> 1]
  <1>1. /\ e.do = "memory" /\ events' = (events \ {e}) \cup {f}
        /\ UNCHANGED <<next_addr, inflight_reqs, cpu_link, req_buffer, mem_link>>
    BY DEF RunMemory, cpu_vars
  <1>2. /\ AtCache' = AtCache /\ AtBuffer' = AtBuffer /\ AtMemory' = AtMemory
        /\ LinesOnce' /\ Issued' = Issued /\ InTable' = InTable
    BY <1>1, Frames DEF WInv, OneWay, LinesOnce
  <1>3. f.do = "respond" /\ f.req = e.req /\ ~hit(e.req)
    BY <1>1 DEF WInv, OneWay, AnswersOnce
  <1>. HIDE DEF f
  <1>4. \A g \in events \ {e} : g.do # "tryForward" => g.req # e.req
    BY <1>1 DEF WInv, OneWay, AnswersOnce
  <1>5. AnswersOnce'
    BY <1>1, <1>3, <1>4 DEF WInv, OneWay, AnswersOnce
  <1>6. AtAnswer' = AtAnswer
    BY <1>1, <1>3 DEF AtAnswer, ToAnswer
  <1>. QED
    BY <1>2, <1>5, <1>6, NothingMoves

LEMMA NextCycleWay ==
    ASSUME IInv, WInv, NextCycle
    PROVE  WInv'
  <1>. DEFINE later(e) == [e EXCEPT !.delay = @ - 1]
  <1>1. events' = {later(e) : e \in events}
        /\ UNCHANGED <<next_addr, inflight_reqs, cpu_link, req_buffer, mem_link>>
    BY DEF NextCycle, cpu_vars
  <1>2. \A e \in events : /\ later(e).do = e.do /\ later(e).req = e.req
                         /\ later(e).port = e.port
    BY DEF IInv, TypeOK, Event
  <1>. HIDE DEF later
  <1>3. AtAnswer' = AtAnswer
    BY <1>1, <1>2 DEF AtAnswer, ToAnswer
  <1>4. AnswersOnce'
    <2>1. SUFFICES ASSUME NEW e \in events, e.do # "tryForward"
                   PROVE  /\ \A g \in events : g.do # "tryForward" /\ g.req = e.req
                                               => later(g) = later(e)
                          /\ e.do = "memory" => ~hit(e.req)
                          /\ e.do = "respond" /\ hit(e.req) => e.port = e.req.cpu
      BY <1>1, <1>2 DEF AnswersOnce
    <2>. QED
      BY <2>1 DEF WInv, OneWay, AnswersOnce
  <1>5. /\ AtCache' = AtCache /\ AtBuffer' = AtBuffer /\ AtMemory' = AtMemory
        /\ LinesOnce' /\ Issued' = Issued /\ InTable' = InTable
    BY <1>1, Frames DEF WInv, OneWay, LinesOnce
  <1>. QED
    BY <1>3, <1>4, <1>5, NothingMoves

LEMMA InitWInv ==
    ASSUME Init
    PROVE  WInv
  <1>1. /\ \A c \in Cpus : ToCache(c) = << >>
        /\ \A m \in Mems : ToMemory(m) = << >>
        /\ req_buffer = << >> /\ events = {}
    BY DEF Init, ToCache, ToMemory, CpuPort!Idle, MemPort!Idle
  <1>2. IsInjective(<< >>) /\ Range(<< >>) = {}
    BY DEF IsInjective, Range
  <1>3. LinesOnce /\ AnswersOnce
    BY <1>1, <1>2 DEF LinesOnce, CpuLinesOnce, MemLinesOnce, AnswersOnce
  <1>4. AtCache = {} /\ AtBuffer = {} /\ AtMemory = {} /\ AtAnswer = {}
    <2>1. \A r \in Request : r.cpu \in Cpus /\ routeToDownstream(r) \in Mems
      BY RouteType DEF Request
    <2>. QED
      BY <1>1, <1>2, <2>1 DEF AtCache, AtBuffer, AtMemory, AtAnswer, ToAnswer
  <1>5. InTable = {}
    BY DEF Init, InTable, Request
  <1>. QED
    BY <1>3, <1>4, <1>5 DEF WInv, OneWay, PlacesOnce, TableOfWay

LEMMA NextWInv ==
    ASSUME IInv, WInv, [Next]_vars
    PROVE  WInv'
  <1>1. ASSUME NEW c \in Cpus, Idle(c) \/ CacheRefuses(c)
        PROVE  WInv'
    <2>1. UNCHANGED <<next_addr, inflight_reqs, cpu_link, req_buffer, mem_link, events>>
      BY <1>1 DEF Idle, CacheRefuses, cpu_vars
    <2>. QED
      BY <2>1, Frames, NothingMoves DEF WInv, OneWay, LinesOnce
  <1>2. ASSUME NEW c \in Cpus, CpuPortTick(c)
        PROVE  WInv'
    <2>1. /\ cpu_link' = [cpu_link EXCEPT ![c] = CpuPort!Retried(cpu_link[c])]
          /\ UNCHANGED <<next_addr, inflight_reqs, req_buffer, mem_link, events>>
      BY <1>2 DEF CpuPortTick, cpu_vars
    <2>2. CpuLinesOnce' /\ AtCache' = AtCache
      BY <2>1, CacheTurns DEF WInv, OneWay, LinesOnce
    <2>. QED
      BY <2>1, <2>2, Frames, NothingMoves DEF WInv, OneWay, LinesOnce
  <1>3. ASSUME NEW m \in Mems, CachePortTick(m)
        PROVE  WInv'
    <2>1. /\ mem_link' = [mem_link EXCEPT ![m] = MemPort!Retried(mem_link[m])]
          /\ UNCHANGED <<next_addr, inflight_reqs, req_buffer, cpu_link, events>>
      BY <1>3 DEF CachePortTick, cpu_vars
    <2>2. MemLinesOnce' /\ AtMemory' = AtMemory
      BY <2>1, MemoryTurns DEF WInv, OneWay, LinesOnce
    <2>. QED
      BY <2>1, <2>2, Frames, NothingMoves DEF WInv, OneWay, LinesOnce
  <1>4. CASE CacheTick
    <2>1. tryForward /\ UNCHANGED <<cpu_vars, cpu_link, events>>
      BY <1>4 DEF CacheTick
    <2>2. AnswersOnce' /\ AtAnswer' = AtAnswer
      BY <2>1, Frames DEF WInv, OneWay
    <2>. QED
      BY <2>1, <2>2, tryForwardWay
  <1>5. ASSUME NEW e \in events, RunForward(e)
        PROVE  WInv'
    <2>1. /\ e.do = "tryForward" /\ events' = events \ {e}
          /\ tryForward /\ UNCHANGED <<cpu_vars, cpu_link>>
      BY <1>5 DEF RunForward
    <2>2. AnswersOnce' /\ AtAnswer' = AtAnswer
      BY <2>1, OtherEvents DEF WInv, OneWay
    <2>. QED
      BY <2>1, <2>2, tryForwardWay
  <1>6. CASE UNCHANGED vars
    <2>1. UNCHANGED <<next_addr, inflight_reqs, cpu_link, req_buffer, mem_link, events>>
      BY <1>6 DEF vars, cpu_vars
    <2>. QED
      BY <2>1, Frames, NothingMoves DEF WInv, OneWay, LinesOnce
  <1>. QED
    BY <1>1, <1>2, <1>3, <1>4, <1>5, <1>6, IssueWay, CacheAcceptsWay, MemAcceptsWay,
       RunRespondWay, RunMemoryWay, NextCycleWay DEF Next, Lambda

-----------------------------------------------------------------------------
(* Theorems *)

LEMMA InitIInv ==
    ASSUME Init
    PROVE  IInv
  <1>1. CpuPort!Idle \in CpuPort!Link(Request)
    BY DEF CpuPort!Idle, CpuPort!Link
  <1>2. \A m \in Mems : /\ MemPort!Idle \in MemPort!Link(Routed(m))
                       /\ MemPort!Idle \in MemPort!Link(Request)
    BY DEF MemPort!Idle, MemPort!Link
  <1>3. FirstAddr \in Addr \cup {FirstAddr + 4 * MaxRequests}
    <2>1. CASE MaxRequests = 0
      BY <2>1, SizesAssumption
    <2>2. CASE MaxRequests # 0
      <3>1. 0 \in 0 .. MaxRequests - 1 /\ FirstAddr = FirstAddr + 4 * 0
        BY <2>2, SizesAssumption
      <3>. QED
        BY <3>1 DEF Addr
    <2>. QED
      BY <2>1, <2>2
  <1>4. /\ next_addr \in [Cpus -> Addr \cup {FirstAddr + 4 * MaxRequests}]
        /\ inflight_reqs \in [Cpus -> SUBSET Addr]
        /\ cpu_link \in [Cpus -> CpuPort!Link(Request)]
        /\ mem_link \in [Mems -> MemPort!Link(Request)]
    BY <1>1, <1>2, <1>3 DEF Init
  <1>5. req_buffer \in Seq(Request) /\ Len(req_buffer) <= MAX_BUFFER
    BY SizesAssumption DEF Init
  <1>. QED
    BY <1>2, <1>4, <1>5 DEF Init, TypeOK, IInv, LinksRouted, EventsRouted

LEMMA NextIInv ==
    ASSUME IInv, [Next]_vars
    PROVE  IInv'
  <1>1. CASE \E c \in Cpus : Issue(c) \/ Idle(c) \/ CacheRefuses(c) \/ CacheAccepts(c)
                             \/ CpuPortTick(c)
    BY <1>1, IssueStep, IdleStep, CacheRefusesStep, CacheAcceptsStep, CpuPortTickStep
  <1>2. CASE CacheTick
    BY <1>2, CacheTickStep
  <1>3. CASE \E m \in Mems : MemAccepts(m) \/ CachePortTick(m)
    BY <1>3, MemAcceptsStep, CachePortTickStep
  <1>4. CASE \E e \in events : Lambda(e)
    BY <1>4, RunForwardStep, RunRespondStep, RunMemoryStep DEF Lambda
  <1>5. CASE NextCycle
    BY <1>5, NextCycleStep
  <1>6. CASE UNCHANGED vars
    BY <1>6, SameLinks, SameEvents DEF IInv, TypeOK, vars, cpu_vars
  <1>. QED
    BY <1>1, <1>2, <1>3, <1>4, <1>5, <1>6 DEF Next

\* The inductive invariant holds of every reachable state.
THEOREM InvariantHolds == Spec => []IInv
  BY InitIInv, NextIInv, PTL DEF Spec

\* Every reachable state of CPUs, cache and memories is well typed; the
\* cache's buffer never exceeds MAX_BUFFER (CacheSim::handleUpstreamRequest).
THEOREM TypeCorrect == Spec => []TypeOK
  <1>1. IInv => TypeOK
    BY DEF IInv
  <1>. QED
    BY <1>1, InvariantHolds, PTL

\* A step takes an address of a miss from the table of a CPU only if the
\* memory the address is routed to answers to that CPU.
LEMMA OnlyAnswersErase ==
    ASSUME IInv, [Next]_vars, NEW c \in Cpus, NEW a \in inflight_reqs[c],
           a % 8 # 0, c # routeToDownstream([cpu |-> c, addr |-> a]) % NumCpus
    PROVE  a \in inflight_reqs'[c]
  <1>1. CASE \E e \in events : RunRespond(e)
    <2>1. PICK e \in events : RunRespond(e)
      BY <1>1
    <2>2. EventRouted(e) /\ e.do = "respond"
      BY <2>1 DEF IInv, EventsRouted, RunRespond
    <2>3. ~(e.port = c /\ e.req.addr = a)
      BY <2>2 DEF EventRouted, hit, routeToDownstream
    <2>4. inflight_reqs' = [inflight_reqs EXCEPT ![e.port] = @ \ {e.req.addr}]
      BY <2>1 DEF RunRespond, Answer
    <2>. QED
      BY <2>3, <2>4 DEF IInv, TypeOK
  <1>2. CASE \E d \in Cpus : Issue(d)
    BY <1>2 DEF Issue, IInv, TypeOK, cpu_vars
  <1>3. CASE UNCHANGED inflight_reqs
    BY <1>3
  <1>. QED
    BY <1>1, <1>2, <1>3
       DEF Next, Lambda, Idle, CacheRefuses, CacheAccepts, CpuPortTick, CacheTick, MemAccepts,
           CachePortTick, RunForward, RunMemory, NextCycle, vars, cpu_vars

\* A miss whose memory answers to another CPU keeps its slot of the table for
\* ever, whatever the numbers of CPUs and memories, buffers and delays
\* (CacheSim::handleDownstreamResponse, CPUSim::handleDownstreamResponse).
THEOREM SlotsAreLost == Spec => SlotLost
  <1>. DEFINE Kept == \A c \in Cpus : \A a \in inflight_reqs[c] :
                         a % 8 # 0 /\ c # routeToDownstream([cpu |-> c, addr |-> a]) % NumCpus
                         => a \in inflight_reqs'[c]
  <1>1. IInv /\ [Next]_vars => Kept
    BY OnlyAnswersErase
  <1>2. Spec => [][Kept]_vars
    BY <1>1, InvariantHolds, PTL DEF Spec
  <1>. QED
    BY <1>2 DEF SlotLost

\* No request is in two places of the path, whatever is refused and retried on
\* it, and one whose answer finds its way home has a slot while it is in one
\* (CPUSim, CacheSim, MemorySim, DownstreamPort::sendReq and trySend).
THEOREM WayHolds == Spec => []WInv
  <1>1. Init => WInv
    BY InitWInv
  <1>2. IInv /\ WInv /\ [Next]_vars => WInv'
    BY NextWInv
  <1>. QED
    BY <1>1, <1>2, InvariantHolds, PTL DEF Spec

\* Outstanding, by place.
LEMMA OutstandingPlaces ==
    ASSUME IInv, WInv
    PROVE  /\ Outstanding = AtCache \cup AtBuffer \cup AtMemory \cup AtAnswer
           /\ Outstanding \subseteq Request
  <1>. DEFINE InCacheLines == UNION {Range(ToCache(c)) : c \in Cpus}
              InMemLines == UNION {Range(ToMemory(m)) : m \in Mems}
  <1>1. ASSUME NEW r
        PROVE  r \in InCacheLines <=> r \in AtCache
    <2>1. ASSUME NEW c \in Cpus, r \in Range(ToCache(c))
          PROVE  r \in Request /\ r.cpu = c
      BY <2>1, LinesType DEF WInv, OneWay, LinesOnce, CpuLinesOnce, Range
    <2>2. r \in Request => r.cpu \in Cpus
      BY DEF Request
    <2>. QED
      BY <2>1, <2>2 DEF AtCache
  <1>2. ASSUME NEW r
        PROVE  r \in InMemLines <=> r \in AtMemory
    <2>1. ASSUME NEW m \in Mems, r \in Range(ToMemory(m))
          PROVE  r \in Routed(m)
      BY <2>1, LinesType DEF Range
    <2>2. r \in Request => routeToDownstream(r) \in Mems
      BY RouteType
    <2>. QED
      BY <2>1, <2>2 DEF AtMemory, Routed
  <1>3. InCacheLines = AtCache /\ InMemLines = AtMemory
    BY <1>1, <1>2
  <1>4. Outstanding = InCacheLines \cup AtBuffer \cup InMemLines \cup AtAnswer
    BY DEF Outstanding, AtBuffer, AtAnswer
  <1>. HIDE DEF InCacheLines, InMemLines
  <1>5. AtCache \cup AtBuffer \cup AtMemory \cup AtAnswer \subseteq Request
    <2>1. Issued \subseteq Request
      BY DEF Issued
    <2>. QED
      BY <2>1 DEF WInv, OneWay, PlacesOnce
  <1>. QED
    BY <1>3, <1>4, <1>5

\* The addresses of a CPU that are on their way are in its table and the other
\* way round, as far as their answers find the way home.
LEMMA TableByAddress ==
    ASSUME IInv, WInv, NEW c \in Cpus, NEW a, NumCpus = 1 \/ a % 8 = 0
    PROVE  a \in inflight_reqs[c] <=> \E q \in Outstanding : q.cpu = c /\ q.addr = a
  <1>. DEFINE r == [cpu |-> c, addr |-> a]
  <1>1. /\ a \in Addr => r \in Request
        /\ r.cpu = c /\ r.addr = a
        /\ \A q \in Request : q.cpu = c /\ q.addr = a => q = r /\ a \in Addr
    BY DEF Request
  <1>2. inflight_reqs[c] \subseteq Addr
    BY DEF IInv, TypeOK
  <1>3. Returns(r)
    BY <1>1 DEF Returns, hit
  <1>. HIDE DEF r
  <1>4. r \in Request => (r \in InTable <=> r \in Outstanding)
    BY <1>3, OutstandingPlaces DEF WInv, TableOfWay
  <1>5. r \in Request => (r \in InTable <=> a \in inflight_reqs[c])
    BY <1>1 DEF InTable
  <1>6. r \in Outstanding <=> \E q \in Outstanding : q.cpu = c /\ q.addr = a
    BY <1>1, OutstandingPlaces
  <1>7. r \in Outstanding => r \in Request
    BY OutstandingPlaces
  <1>. QED
    BY <1>1, <1>2, <1>4, <1>5, <1>6, <1>7

\* For hits the table of every CPU is exact, whatever the numbers of CPUs and
\* memories and the sizes of all buffers (CPUSim::handleDownstreamResponse,
\* CacheSim::handleUpstreamRequest).
THEOREM HitsAreExact == Spec => []HitsExact
  <1>1. IInv /\ WInv => HitsExact
    <2>1. SUFFICES ASSUME IInv, WInv, NEW c \in Cpus, NEW a
                   PROVE  a \in inflight_reqs[c] /\ a % 8 = 0
                          <=> \E q \in Outstanding : q.cpu = c /\ hit(q) /\ q.addr = a
      BY DEF HitsExact
    <2>2. CASE a % 8 = 0
      BY <2>1, <2>2, TableByAddress DEF hit
    <2>3. CASE a % 8 # 0
      BY <2>3 DEF hit
    <2>. QED
      BY <2>2, <2>3
  <1>. QED
    BY <1>1, InvariantHolds, WayHolds, PTL

\* For a lone CPU it is exact altogether, for every number of memories and
\* every size of the buffers, refusals and retries included.
THEOREM TableIsExact ==
    ASSUME NumCpus = 1
    PROVE  Spec => []TableExact
  <1>1. IInv /\ WInv => TableExact
    <2>1. SUFFICES ASSUME IInv, WInv, NEW c \in Cpus, NEW a
                   PROVE  a \in inflight_reqs[c]
                          <=> \E q \in Outstanding : q.cpu = c /\ q.addr = a
      BY DEF TableExact
    <2>. QED
      BY <2>1, TableByAddress
  <1>. QED
    BY <1>1, InvariantHolds, WayHolds, PTL

-----------------------------------------------------------------------------
(* Room on the way: with a lone CPU, every buffer that is as large as its   *)
(* table is large enough, because what is on its way has a slot in it      *)

\* A table is finite and within its limit (CPUSim::tick).
Limited == \A c \in Cpus : /\ IsFiniteSet(inflight_reqs[c])
                           /\ Cardinality(inflight_reqs[c]) <= MaxInFlight

LEMMA IssueLimited ==
    ASSUME IInv, Limited, NEW c \in Cpus, Issue(c)
    PROVE  Limited'
  <1>. DEFINE t == inflight_reqs[c]
  <1>1. /\ IsFiniteSet(t) /\ Cardinality(t) \in Nat /\ Cardinality(t) < MaxInFlight
        /\ MaxInFlight \in Nat
    BY FS_CardinalityType, SizesAssumption DEF Limited, Issue, mayIssue
  <1>2. /\ IsFiniteSet(t \cup {next_addr[c]})
        /\ Cardinality(t \cup {next_addr[c]}) <= Cardinality(t) + 1
    <2>. HIDE DEF t
    <2>1. /\ IsFiniteSet(t \cup {next_addr[c]})
          /\ Cardinality(t \cup {next_addr[c]}) \in {Cardinality(t), Cardinality(t) + 1}
      BY <1>1, FS_AddElement
    <2>. QED
      BY <1>1, <2>1
  <1>3. Cardinality(t \cup {next_addr[c]}) <= MaxInFlight
    BY <1>1, <1>2, FS_CardinalityType
  <1>4. \/ UNCHANGED inflight_reqs
        \/ inflight_reqs' = [inflight_reqs EXCEPT ![c] = t \cup {next_addr[c]}]
    BY DEF Issue, cpu_vars
  <1>. HIDE DEF t
  <1>. QED
    BY <1>2, <1>3, <1>4 DEF Limited, IInv, TypeOK

LEMMA RespondLimited ==
    ASSUME IInv, Limited, NEW e \in events, RunRespond(e)
    PROVE  Limited'
  <1>. DEFINE t == inflight_reqs[e.port]
              a == e.req.addr
  <1>1. e.port \in Cpus
    BY DEF IInv, TypeOK, Event, RunRespond
  <1>2. /\ IsFiniteSet(t) /\ Cardinality(t) \in Nat /\ Cardinality(t) <= MaxInFlight
        /\ MaxInFlight \in Nat
    BY <1>1, FS_CardinalityType, SizesAssumption DEF Limited
  <1>3. IsFiniteSet(t \ {a}) /\ Cardinality(t \ {a}) <= Cardinality(t)
    BY <1>2, FS_RemoveElement
  <1>4. Cardinality(t \ {a}) <= MaxInFlight
    BY <1>2, <1>3, FS_CardinalityType
  <1>5. inflight_reqs' = [inflight_reqs EXCEPT ![e.port] = t \ {a}]
    BY DEF RunRespond, Answer
  <1>. HIDE DEF t, a
  <1>. QED
    BY <1>3, <1>4, <1>5 DEF Limited, IInv, TypeOK

\* No CPU ever waits for more answers than it may.
THEOREM LimitHolds == Spec => []Limited
  <1>1. Init => Limited
    BY FS_EmptySet, SizesAssumption DEF Init, Limited
  <1>2. IInv /\ Limited /\ [Next]_vars => Limited'
    <2>1. SUFFICES ASSUME IInv, Limited, [Next]_vars
                   PROVE  Limited'
      OBVIOUS
    <2>2. CASE \E c \in Cpus : Issue(c)
      BY <2>1, <2>2, IssueLimited
    <2>3. CASE \E e \in events : RunRespond(e)
      BY <2>1, <2>3, RespondLimited
    <2>4. CASE UNCHANGED inflight_reqs
      BY <2>1, <2>4 DEF Limited
    <2>. QED
      BY <2>1, <2>2, <2>3, <2>4
         DEF Next, Lambda, Idle, CacheRefuses, CacheAccepts, CpuPortTick, CacheTick, MemAccepts,
             CachePortTick, RunForward, RunMemory, NextCycle, vars, cpu_vars
  <1>. QED
    BY <1>1, <1>2, InvariantHolds, PTL DEF Spec

\* A queue of requests on their way is no longer than the table of a lone CPU,
\* and shorter when another request is on its way as well.
LEMMA TableBoundsQueues ==
    ASSUME NumCpus = 1, IInv, WInv, Limited,
           NEW q \in Seq(Request), IsInjective(q), Range(q) \subseteq Outstanding
    PROVE  Len(q) <= Cardinality(inflight_reqs[0])
  <1>. DEFINE f == [r \in Range(q) |-> r.addr]
  <1>1. 0 \in Cpus /\ \A r \in Request : r.cpu = 0 /\ r = [cpu |-> 0, addr |-> r.addr]
    BY DEF Cpus, Request
  <1>2. Range(q) \subseteq Request
    BY OutstandingPlaces
  <1>3. ASSUME NEW r \in Range(q)
        PROVE  r.addr \in inflight_reqs[0]
    BY <1>1, <1>2, TableByAddress
  <1>4. f \in [Range(q) -> inflight_reqs[0]]
    BY <1>3
  <1>5. IsInjective(f)
    BY <1>1, <1>2 DEF IsInjective
  <1>6. IsFiniteSet(inflight_reqs[0])
    BY <1>1 DEF Limited
  <1>. HIDE DEF f
  <1>. QED
    BY <1>4, <1>5, <1>6, LenBound

LEMMA RoomForOneMore ==
    ASSUME NumCpus = 1, IInv, WInv, Limited,
           NEW q \in Seq(Request), IsInjective(q), Range(q) \subseteq Outstanding,
           NEW r \in Outstanding, r \notin Range(q)
    PROVE  Len(q) < MaxInFlight
  <1>1. r \in Request
    BY OutstandingPlaces
  <1>2. /\ Append(q, r) \in Seq(Request) /\ Len(Append(q, r)) = Len(q) + 1
        /\ IsInjective(Append(q, r)) /\ Range(Append(q, r)) \subseteq Outstanding
    BY <1>1, AppendOnce
  <1>3. Len(q) + 1 <= Cardinality(inflight_reqs[0])
    BY <1>2, TableBoundsQueues
  <1>4. /\ Cardinality(inflight_reqs[0]) \in Nat /\ Cardinality(inflight_reqs[0]) <= MaxInFlight
        /\ MaxInFlight \in Nat
    BY FS_CardinalityType, SizesAssumption DEF Limited, Cpus
  <1>. QED
    BY <1>3, <1>4

-----------------------------------------------------------------------------
(* Nothing is held back *)

\* A lone CPU whose limit no buffer on the way undercuts; the defaults are 4
\* everywhere (cpu_sim.hh:37, cache_sim.hh, module_factory.cc).
Roomy == NumCpus = 1 /\ \A size \in {CpuIn, MAX_BUFFER, MemIn} : MaxInFlight <= size

LEMMA IssueDirect ==
    ASSUME Roomy, IInv, WInv, Limited, NeverHeldBack, NEW c \in Cpus, Issue(c)
    PROVE  CpuPort!Direct(cpu_link[c])
  <1>1. c = 0 /\ cpu_link[c] \in CpuPort!Link(Request) /\ ~CpuPort!Behind(cpu_link[c])
    BY DEF Roomy, Cpus, IInv, TypeOK, NeverHeldBack
  <1>2. /\ cpu_link[c].in \in Seq(Request) /\ ToCache(c) = cpu_link[c].in
        /\ Len(cpu_link[c].in) \in Nat
    <2>1. /\ cpu_link[c].in \in Seq(Request) /\ Len(cpu_link[c].in) \in Nat
          /\ cpu_link[c].out = << >>
      BY <1>1 DEF CpuPort!Link, CpuPort!Behind
    <2>2. cpu_link[c].in \o << >> = cpu_link[c].in
      BY <2>1
    <2>. QED
      BY <2>1, <2>2 DEF ToCache
  <1>3. IsInjective(cpu_link[c].in) /\ Range(cpu_link[c].in) \subseteq Outstanding
    BY <1>2 DEF WInv, OneWay, LinesOnce, CpuLinesOnce, Outstanding
  <1>4. Len(cpu_link[c].in) <= Cardinality(inflight_reqs[0])
    BY <1>2, <1>3, TableBoundsQueues DEF Roomy
  <1>5. /\ Cardinality(inflight_reqs[0]) \in Nat /\ Cardinality(inflight_reqs[0]) < MaxInFlight
        /\ MaxInFlight \in Nat /\ CpuIn \in Nat /\ MaxInFlight <= CpuIn
    BY <1>1, FS_CardinalityType, SizesAssumption DEF Limited, Issue, mayIssue, Roomy
  <1>. QED
    BY <1>1, <1>2, <1>4, <1>5 DEF CpuPort!Direct, CpuPort!Room

LEMMA ForwardDirect ==
    ASSUME Roomy, IInv, WInv, Limited, NeverHeldBack, req_buffer # << >>
    PROVE  MemPort!Direct(mem_link[routeToDownstream(Head(req_buffer))])
  <1>. DEFINE r == Head(req_buffer)
              m == routeToDownstream(r)
  <1>1. r \in Request /\ r \in AtBuffer /\ m \in Mems
    <2>1. req_buffer \in Seq(Request)
      BY LinesType
    <2>2. r \in Request /\ r \in AtBuffer
      BY <2>1, TailOnce DEF AtBuffer
    <2>. QED
      BY <2>2, RouteType
  <1>2. mem_link[m] \in MemPort!Link(Routed(m)) /\ ~MemPort!Behind(mem_link[m])
    BY <1>1 DEF IInv, LinksRouted, NeverHeldBack
  <1>3. /\ mem_link[m].in \in Seq(Routed(m)) /\ ToMemory(m) = mem_link[m].in
        /\ mem_link[m].in \in Seq(Request) /\ Len(mem_link[m].in) \in Nat
    <2>. DEFINE q == mem_link[m].in
    <2>1. q \in Seq(Routed(m)) /\ Len(q) \in Nat /\ mem_link[m].out = << >>
      BY <1>2 DEF MemPort!Link, MemPort!Behind
    <2>2. q \o << >> = q
      BY <2>1
    <2>3. Seq(Routed(m)) \subseteq Seq(Request)
      BY DEF Routed
    <2>. QED
      BY <2>1, <2>2, <2>3 DEF ToMemory
  <1>4. IsInjective(mem_link[m].in) /\ Range(mem_link[m].in) \subseteq Outstanding
    BY <1>1, <1>3 DEF WInv, OneWay, LinesOnce, MemLinesOnce, Outstanding
  <1>5. Range(mem_link[m].in) \subseteq AtMemory
    BY <1>3 DEF AtMemory, Routed, Range
  <1>6. r \in Outstanding /\ r \notin Range(mem_link[m].in)
    BY <1>1, <1>5, OutstandingPlaces DEF WInv, OneWay, PlacesOnce
  <1>7. Len(mem_link[m].in) < MaxInFlight
    BY <1>3, <1>4, <1>6, RoomForOneMore DEF Roomy
  <1>8. MaxInFlight \in Nat /\ MemIn \in Nat /\ MaxInFlight <= MemIn
    BY SizesAssumption DEF Roomy
  <1>. QED
    BY <1>2, <1>3, <1>7, <1>8 DEF MemPort!Direct, MemPort!Room

LEMMA NothingRefused ==
    ASSUME Roomy, IInv, WInv, Limited, NEW c \in Cpus, cpu_link[c].in # << >>
    PROVE  ~full
  <1>. DEFINE r == Head(cpu_link[c].in)
  <1>1. r \in AtCache
    <2>1. cpu_link[c] \in CpuPort!Link(Request) /\ ToCache(c) \in Seq(Request)
      BY LinesType DEF IInv, TypeOK
    <2>2. r = Head(ToCache(c)) /\ ToCache(c) # << >> /\ r \in Request
      BY <2>1, TakenLine DEF ToCache, CpuPort!Taken, CpuPort!Link
    <2>3. r \in Range(ToCache(c))
      BY <2>1, <2>2, TailOnce
    <2>. QED
      BY <2>2, <2>3 DEF AtCache, WInv, OneWay, LinesOnce, CpuLinesOnce
  <1>2. /\ req_buffer \in Seq(Request) /\ IsInjective(req_buffer)
        /\ Range(req_buffer) \subseteq Outstanding
        /\ r \in Outstanding /\ r \notin Range(req_buffer)
    BY <1>1, LinesType, OutstandingPlaces DEF WInv, OneWay, LinesOnce, PlacesOnce, AtBuffer
  <1>3. Len(req_buffer) < MaxInFlight /\ Len(req_buffer) \in Nat
    BY <1>2, RoomForOneMore DEF Roomy
  <1>4. MaxInFlight \in Nat /\ MAX_BUFFER \in Nat /\ MaxInFlight <= MAX_BUFFER
    BY SizesAssumption DEF Roomy
  <1>. QED
    BY <1>3, <1>4 DEF full

\* tryForward empties the buffer one by one.
LEMMA ForwardMoves ==
    ASSUME Roomy, IInv, WInv, Limited, NeverHeldBack, tryForward
    PROVE  /\ \A m \in Mems : ~MemPort!Behind(mem_link'[m])
           /\ freed' = {}
           /\ req_buffer' = IF req_buffer = << >> THEN << >> ELSE Tail(req_buffer)
  <1>1. CASE req_buffer = << >>
    BY <1>1 DEF tryForward, NeverHeldBack
  <1>2. CASE req_buffer # << >>
    <2>. DEFINE r == Head(req_buffer)
                m == routeToDownstream(r)
                l == mem_link[m]
    <2>1. r \in Request /\ m \in Mems
      BY <1>2, LinesType, RouteType
    <2>2. l \in MemPort!Link(Request) /\ MemPort!Direct(l)
      BY <1>2, <2>1, ForwardDirect DEF IInv, TypeOK
    <2>3. /\ mem_link' = [mem_link EXCEPT ![m] = MemPort!Sent(l, r)]
          /\ req_buffer' = IF MemPort!Accepted(l) THEN Tail(req_buffer) ELSE req_buffer
          /\ freed' = IF MemPort!Deletes(l) > 0 THEN freed \cup {r} ELSE freed
      BY <1>2 DEF tryForward
    <2>. HIDE DEF m, l, r
    <2>4. MemPort!Accepted(l) /\ MemPort!Deletes(l) = 0 /\ MemPort!Sent(l, r).out = << >>
      BY <2>1, <2>2, SentLine
         DEF MemPort!Sent, MemPort!Link, MemPort!Direct, MemPort!Queued, MemPort!Accepted, MemPort!Deletes, MemPort!Behind
    <2>5. freed' = {} /\ req_buffer' = Tail(req_buffer)
      BY <2>3, <2>4 DEF NeverHeldBack
    <2>6. ASSUME NEW n \in Mems
          PROVE  ~MemPort!Behind(mem_link'[n])
      <3>1. CASE n = m
        BY <2>3, <2>4, <3>1 DEF IInv, TypeOK, MemPort!Behind
      <3>2. CASE n # m
        BY <2>3, <3>2 DEF IInv, TypeOK, NeverHeldBack
      <3>. QED
        BY <3>1, <3>2
    <2>. QED
      BY <1>2, <2>5, <2>6
  <1>. QED
    BY <1>1, <1>2

LEMMA IssueMoves ==
    ASSUME Roomy, IInv, WInv, Limited, NeverHeldBack, NEW c \in Cpus, Issue(c)
    PROVE  NeverHeldBack'
  <1>. DEFINE r == [cpu |-> c, addr |-> next_addr[c]]
              l == cpu_link[c]
  <1>1. r \in Request /\ l \in CpuPort!Link(Request) /\ CpuPort!Direct(l)
    BY IssueDirect DEF Issue, Request, IInv, TypeOK
  <1>2. /\ cpu_link' = [cpu_link EXCEPT ![c] = CpuPort!Sent(l, r)]
        /\ CpuPort!Accepted(l) /\ ~(CpuPort!Deletes(l) > 0) => UNCHANGED freed
        /\ UNCHANGED mem_link
    BY DEF Issue
  <1>. HIDE DEF r, l
  <1>3. CpuPort!Accepted(l) /\ CpuPort!Deletes(l) = 0 /\ CpuPort!Sent(l, r).out = << >>
    BY <1>1, SentLine
       DEF CpuPort!Sent, CpuPort!Link, CpuPort!Direct, CpuPort!Queued, CpuPort!Accepted, CpuPort!Deletes, CpuPort!Behind
  <1>4. UNCHANGED freed
    BY <1>2, <1>3
  <1>5. ASSUME NEW d \in Cpus
        PROVE  ~CpuPort!Behind(cpu_link'[d])
    <2>1. CASE d = c
      BY <1>2, <1>3, <2>1 DEF IInv, TypeOK, CpuPort!Behind
    <2>2. CASE d # c
      BY <1>2, <2>2 DEF IInv, TypeOK, NeverHeldBack
    <2>. QED
      BY <2>1, <2>2
  <1>. QED
    BY <1>2, <1>4, <1>5 DEF NeverHeldBack

\* What the receivers take leaves what waits behind it alone.
LEMMA TakingMoves ==
    ASSUME IInv, NeverHeldBack
    PROVE  /\ \A c \in Cpus : CacheAccepts(c) => NeverHeldBack'
           /\ \A m \in Mems : MemAccepts(m) => NeverHeldBack'
  <1>1. ASSUME NEW c \in Cpus, CacheAccepts(c)
        PROVE  NeverHeldBack'
    <2>1. /\ cpu_link' = [cpu_link EXCEPT ![c] = CpuPort!Taken(cpu_link[c])]
          /\ UNCHANGED mem_link /\ freed' \subseteq freed
      BY <1>1 DEF CacheAccepts
    <2>2. CpuPort!Taken(cpu_link[c]).out = cpu_link[c].out
      BY DEF IInv, TypeOK, CpuPort!Link, CpuPort!Taken
    <2>. QED
      BY <2>1, <2>2 DEF NeverHeldBack, CpuPort!Behind, IInv, TypeOK
  <1>2. ASSUME NEW m \in Mems, MemAccepts(m)
        PROVE  NeverHeldBack'
    <2>1. /\ mem_link' = [mem_link EXCEPT ![m] = MemPort!Taken(mem_link[m])]
          /\ UNCHANGED cpu_link /\ freed' \subseteq freed
      BY <1>2 DEF MemAccepts
    <2>2. MemPort!Taken(mem_link[m]).out = mem_link[m].out
      BY DEF IInv, TypeOK, MemPort!Link, MemPort!Taken
    <2>. QED
      BY <2>1, <2>2 DEF NeverHeldBack, MemPort!Behind, IInv, TypeOK
  <1>. QED
    BY <1>1, <1>2

\* What cannot happen then: the cache refuses nothing, and no port retries.
LEMMA NoRetry ==
    ASSUME Roomy, IInv, WInv, Limited, NeverHeldBack
    PROVE  /\ \A c \in Cpus : ~CacheRefuses(c) /\ ~CpuPortTick(c)
           /\ \A m \in Mems : ~CachePortTick(m)
  BY NothingRefused DEF CacheRefuses, CpuPortTick, CachePortTick, NeverHeldBack

\* With a lone CPU and buffers no smaller than its limit, as the defaults are,
\* no packet is ever held back, refused or deleted while it is queued, however
\* ticks, lambdas and answers interleave (CPUSim::tick, CacheSim, DownstreamPort).
THEOREM NothingHeldBack ==
    ASSUME Roomy
    PROVE  Spec => []NeverHeldBack
  <1>1. Init => NeverHeldBack
    BY DEF Init, NeverHeldBack, CpuPort!Idle, CpuPort!Behind, MemPort!Idle, MemPort!Behind
  <1>2. IInv /\ WInv /\ Limited /\ NeverHeldBack /\ [Next]_vars => NeverHeldBack'
    <2>1. SUFFICES ASSUME IInv, WInv, Limited, NeverHeldBack, [Next]_vars
                   PROVE  NeverHeldBack'
      OBVIOUS
    <2>2. CASE \E c \in Cpus : Issue(c)
      BY <2>1, <2>2, IssueMoves
    <2>3. CASE \E c \in Cpus : CacheAccepts(c)
      BY <2>1, <2>3, TakingMoves
    <2>4. CASE \E m \in Mems : MemAccepts(m)
      BY <2>1, <2>4, TakingMoves
    <2>5. CASE tryForward /\ UNCHANGED cpu_link
      BY <2>1, <2>5, ForwardMoves DEF NeverHeldBack
    <2>6. CASE UNCHANGED <<cpu_link, mem_link, freed>>
      BY <2>1, <2>6 DEF NeverHeldBack
    <2>. QED
      BY <2>1, <2>2, <2>3, <2>4, <2>5, <2>6, NoRetry
         DEF Next, Lambda, Idle, CacheTick, RunForward, RunRespond, RunMemory, NextCycle, vars
  <1>. QED
    BY <1>1, <1>2, InvariantHolds, WayHolds, LimitHolds, PTL DEF Spec

-----------------------------------------------------------------------------
(* There are as many calls of tryForward as buffered misses *)

Forwards == {e \in events : e.do = "tryForward"}

\* A call of tryForward was scheduled by a miss that the cache has taken, so
\* two misses never share one.
ForwardsInv == /\ IsFiniteSet(Forwards)
               /\ Len(req_buffer) <= Cardinality(Forwards)
               /\ \A e \in Forwards : e.req \in Issued /\ e.req \notin AtCache

LEMMA ForwardsType ==
    ASSUME IInv, NEW e \in Forwards
    PROVE  /\ e \in [do : {"tryForward"}, req : Request, port : Cpus, delay : {0, 1}]
           /\ e = [do |-> "tryForward", req |-> e.req, port |-> e.port, delay |-> e.delay]
  BY DEF IInv, TypeOK, Event, Forwards

\* A step that schedules or runs no such call, and buffers nothing.
LEMMA SameForwards ==
    ASSUME ForwardsInv, Forwards' = Forwards, UNCHANGED req_buffer,
           Issued \subseteq Issued', AtCache' \cap Issued \subseteq AtCache
    PROVE  ForwardsInv'
  BY DEF ForwardsInv

LEMMA IssueForwards ==
    ASSUME Roomy, IInv, WInv, Limited, NeverHeldBack, ForwardsInv, NEW c \in Cpus, Issue(c)
    PROVE  ForwardsInv'
  <1>. DEFINE r == [cpu |-> c, addr |-> next_addr[c]]
  <1>1. CpuPort!Accepted(cpu_link[c])
    BY IssueDirect DEF CpuPort!Accepted
  <1>2. r \notin Issued /\ Issued \subseteq Issued' /\ AtCache' = AtCache \cup {r}
    BY <1>1, IssuePlaces
  <1>. HIDE DEF r
  <1>3. UNCHANGED <<events, req_buffer>>
    BY DEF Issue
  <1>. QED
    BY <1>2, <1>3, SameForwards DEF Forwards

LEMMA CacheAcceptsForwards ==
    ASSUME IInv, WInv, ForwardsInv, NEW c \in Cpus, CacheAccepts(c)
    PROVE  ForwardsInv'
  <1>. DEFINE r == Head(cpu_link[c].in)
              e == [do |-> "tryForward", req |-> r, port |-> 0, delay |-> 1]
  <1>1. r \in AtCache /\ AtCache' = AtCache \ {r}
    <2>1. cpu_link[c].in # << >>
          /\ cpu_link' = [cpu_link EXCEPT ![c] = CpuPort!Taken(cpu_link[c])]
      BY DEF CacheAccepts
    <2>. QED
      BY <2>1, CacheLoses DEF WInv, OneWay, LinesOnce
  <1>2. Issued' = Issued
    BY Frames DEF CacheAccepts, cpu_vars
  <1>3. r \in Request /\ r \in Issued /\ e.req = r /\ e.do = "tryForward"
    BY <1>1 DEF AtCache, WInv, OneWay, PlacesOnce
  <1>4. CASE hit(r) /\ UNCHANGED req_buffer
             /\ events' = events \cup {[do |-> "respond", req |-> r, port |-> c, delay |-> 1]}
    <2>1. Forwards' = Forwards
      BY <1>4 DEF Forwards
    <2>. QED
      BY <1>1, <1>2, <1>4, <2>1, SameForwards
  <1>5. CASE req_buffer' = Append(req_buffer, r) /\ events' = events \cup {e}
    <2>. HIDE DEF r
    <2>1. e \notin Forwards
      BY <1>1, <1>3 DEF ForwardsInv
    <2>. HIDE DEF e
    <2>2. Forwards' = Forwards \cup {e}
      BY <1>3, <1>5 DEF Forwards
    <2>3. IsFiniteSet(Forwards') /\ Cardinality(Forwards') = Cardinality(Forwards) + 1
      BY <2>1, <2>2, FS_AddElement DEF ForwardsInv
    <2>4. Len(req_buffer') = Len(req_buffer) + 1 /\ Len(req_buffer) \in Nat
      BY <1>3, <1>5, LinesType
    <2>5. Cardinality(Forwards) \in Nat
      BY FS_CardinalityType DEF ForwardsInv
    <2>6. Len(req_buffer') <= Cardinality(Forwards')
      BY <2>3, <2>4, <2>5 DEF ForwardsInv
    <2>. QED
      BY <1>1, <1>2, <1>3, <2>2, <2>3, <2>6 DEF ForwardsInv
  <1>. QED
    BY <1>4, <1>5 DEF CacheAccepts, buffered, scheduleForward

LEMMA ForwardForwards ==
    ASSUME Roomy, IInv, WInv, Limited, NeverHeldBack, ForwardsInv,
           tryForward, UNCHANGED <<next_addr, cpu_link>>,
           \/ UNCHANGED events
           \/ \E e \in Forwards : events' = events \ {e}
    PROVE  ForwardsInv'
  <1>1. AtCache' = AtCache /\ Issued' = Issued
    BY Frames
  <1>2. req_buffer' = IF req_buffer = << >> THEN << >> ELSE Tail(req_buffer)
    BY ForwardMoves
  <1>3. /\ Len(req_buffer) \in Nat /\ Len(req_buffer') \in Nat
        /\ Len(req_buffer') = 0 \/ Len(req_buffer') = Len(req_buffer) - 1
    BY <1>2, LinesType
  <1>4. Cardinality(Forwards) \in Nat
    BY FS_CardinalityType DEF ForwardsInv
  <1>5. CASE UNCHANGED events
    <2>1. Forwards' = Forwards
      BY <1>5 DEF Forwards
    <2>. QED
      BY <1>1, <1>3, <1>4, <2>1 DEF ForwardsInv
  <1>6. ASSUME NEW e \in Forwards, events' = events \ {e}
        PROVE  ForwardsInv'
    <2>1. Forwards' = Forwards \ {e}
      BY <1>6 DEF Forwards
    <2>2. IsFiniteSet(Forwards') /\ Cardinality(Forwards') = Cardinality(Forwards) - 1
      BY <2>1, FS_RemoveElement DEF ForwardsInv
    <2>3. Cardinality(Forwards') \in Nat
      BY <2>2, FS_CardinalityType
    <2>4. Len(req_buffer') <= Cardinality(Forwards')
      BY <1>3, <1>4, <2>2, <2>3 DEF ForwardsInv
    <2>. QED
      BY <1>1, <2>1, <2>2, <2>4 DEF ForwardsInv
  <1>. QED
    BY <1>5, <1>6

LEMMA NextCycleForwards ==
    ASSUME IInv, ForwardsInv, NextCycle
    PROVE  ForwardsInv'
  <1>. DEFINE later(e) == [e EXCEPT !.delay = @ - 1]
              g == [e \in Forwards |-> later(e)]
  <1>1. /\ events' = {later(e) : e \in events}
        /\ UNCHANGED <<next_addr, cpu_link, req_buffer>>
    BY DEF NextCycle, cpu_vars
  <1>2. \A e \in events : later(e).do = e.do /\ later(e).req = e.req
    BY DEF IInv, TypeOK, Event
  <1>3. Forwards' = {later(e) : e \in Forwards}
    <2>. HIDE DEF later
    <2>. QED
      BY <1>1, <1>2 DEF Forwards
  <1>4. ASSUME NEW e \in Forwards, NEW f \in Forwards, later(e) = later(f)
        PROVE  e = f
    <2>1. /\ e = [do |-> "tryForward", req |-> e.req, port |-> e.port, delay |-> e.delay]
          /\ f = [do |-> "tryForward", req |-> f.req, port |-> f.port, delay |-> f.delay]
          /\ e.delay \in {0, 1} /\ f.delay \in {0, 1}
      BY ForwardsType
    <2>2. /\ later(e) = [do |-> "tryForward", req |-> e.req, port |-> e.port, delay |-> e.delay - 1]
          /\ later(f) = [do |-> "tryForward", req |-> f.req, port |-> f.port, delay |-> f.delay - 1]
      BY <2>1
    <2>3. e.req = f.req /\ e.port = f.port /\ e.delay - 1 = f.delay - 1
      BY <1>4, <2>2
    <2>. QED
      BY <2>1, <2>3
  <1>. HIDE DEF later
  <1>5. g \in Bijection(Forwards, Forwards')
    BY <1>3, <1>4 DEF Bijection, Injection, Surjection, IsInjective
  <1>6. IsFiniteSet(Forwards') /\ Cardinality(Forwards') = Cardinality(Forwards)
    BY <1>5, FS_Bijection DEF ForwardsInv, ExistsBijection
  <1>7. AtCache' = AtCache /\ Issued' = Issued
    BY <1>1, Frames
  <1>8. \A e \in Forwards' : e.req \in Issued' /\ e.req \notin AtCache'
    BY <1>2, <1>3, <1>7 DEF ForwardsInv, Forwards
  <1>. QED
    BY <1>1, <1>6, <1>8 DEF ForwardsInv

\* Under the same assumptions no miss waits in the cache without a call of
\* tryForward due for it, whichever of tick and lambda forwards which miss
\* (CacheSim::handleUpstreamRequest, CacheSim::tick).
THEOREM ForwardsAreEnough ==
    ASSUME Roomy
    PROVE  Spec => []ForwardsSuffice
  <1>1. Init => ForwardsInv
    BY FS_EmptySet DEF Init, ForwardsInv, Forwards
  <1>2. IInv /\ WInv /\ Limited /\ NeverHeldBack /\ ForwardsInv /\ [Next]_vars => ForwardsInv'
    <2>1. SUFFICES ASSUME IInv, WInv, Limited, NeverHeldBack, ForwardsInv, [Next]_vars
                   PROVE  ForwardsInv'
      OBVIOUS
    <2>2. CASE \E c \in Cpus : Issue(c)
      BY <2>1, <2>2, IssueForwards
    <2>3. CASE \E c \in Cpus : CacheAccepts(c)
      BY <2>1, <2>3, CacheAcceptsForwards
    <2>4. CASE CacheTick
      BY <2>1, <2>4, ForwardForwards DEF CacheTick, cpu_vars
    <2>5. CASE \E e \in events : RunForward(e)
      BY <2>1, <2>5, ForwardForwards DEF RunForward, Forwards, cpu_vars
    <2>6. CASE NextCycle
      BY <2>1, <2>6, NextCycleForwards
    <2>7. CASE /\ UNCHANGED <<next_addr, cpu_link, req_buffer>>
               /\ \/ UNCHANGED events
                  \/ \E m \in Mems : MemAccepts(m)
                  \/ \E e \in events : RunRespond(e) \/ RunMemory(e)
      <3>1. Forwards' = Forwards
        <4>1. ASSUME NEW e \in events, RunRespond(e)
              PROVE  Forwards' = Forwards
          BY <4>1 DEF Forwards, RunRespond
        <4>2. ASSUME NEW e \in events, RunMemory(e)
              PROVE  Forwards' = Forwards
          BY <4>2 DEF Forwards, RunMemory
        <4>3. ASSUME NEW m \in Mems, MemAccepts(m)
              PROVE  Forwards' = Forwards
          BY <4>3 DEF Forwards, MemAccepts
        <4>. QED
          BY <2>7, <4>1, <4>2, <4>3 DEF Forwards
      <3>2. AtCache' = AtCache /\ Issued' = Issued
        BY <2>7, Frames
      <3>. QED
        BY <2>1, <2>7, <3>1, <3>2, SameForwards
    <2>. QED
      BY <2>1, <2>2, <2>3, <2>4, <2>5, <2>6, <2>7, NoRetry
         DEF Next, Lambda, Idle, MemAccepts, RunRespond, RunMemory, vars, cpu_vars
  <1>3. ForwardsInv => ForwardsSuffice
    BY DEF ForwardsInv, Forwards, ForwardsSuffice
  <1>. QED
    BY <1>1, <1>2, <1>3, InvariantHolds, WayHolds, LimitHolds, NothingHeldBack, PTL DEF Spec

-----------------------------------------------------------------------------
(* Misses of a CPU for one memory do not overtake each other *)

\* The pairs of requests the first of which may be before the second.
Rising == {pair \in Request \X Request :
             LET x == pair[1]
                 y == pair[2]
             IN x.cpu = y.cpu /\ ~hit(x) /\ ~hit(y)
                /\ routeToDownstream(x) = routeToDownstream(y)
                => x.addr < y.addr}

\* Each queue is in order, and ahead of those behind it.
OrderInv ==
    /\ Ordered(req_buffer, Rising)
    /\ \A c \in Cpus : /\ Ordered(cpu_link[c].in, Rising)
                       /\ Precede(Range(req_buffer), Range(cpu_link[c].in), Rising)
    /\ \A m \in Mems : /\ Ordered(mem_link[m].in, Rising)
                       /\ Precede(Range(mem_link[m].in), Range(req_buffer), Rising)
                       /\ \A c \in Cpus : Precede(Range(mem_link[m].in), Range(cpu_link[c].in), Rising)

\* What the queues hold.
LEMMA QueuesType ==
    ASSUME IInv, WInv
    PROVE  /\ req_buffer \in Seq(Request) /\ Range(req_buffer) \subseteq Request \cap Issued
           /\ \A c \in Cpus : /\ cpu_link[c].in \in Seq(Request)
                              /\ Range(cpu_link[c].in) \subseteq Request \cap Issued
                              /\ \A r \in Range(cpu_link[c].in) : r.cpu = c
           /\ \A m \in Mems : /\ mem_link[m].in \in Seq(Request)
                              /\ Range(mem_link[m].in) \subseteq Request \cap Issued
  <1>1. req_buffer \in Seq(Request) /\ Range(req_buffer) \subseteq Request \cap Issued
    BY LinesType DEF WInv, OneWay, PlacesOnce, AtBuffer, Issued
  <1>2. ASSUME NEW c \in Cpus
        PROVE  /\ cpu_link[c].in \in Seq(Request)
               /\ Range(cpu_link[c].in) \subseteq Request \cap Issued
               /\ \A r \in Range(cpu_link[c].in) : r.cpu = c
    <2>1. cpu_link[c].in \in Seq(Request) /\ cpu_link[c].out \in Seq(Request)
      BY DEF IInv, TypeOK, CpuPort!Link
    <2>2. Range(cpu_link[c].in) \subseteq Range(ToCache(c))
      BY <2>1, ConcatOnce DEF ToCache
    <2>3. Range(cpu_link[c].in) \subseteq Request
      BY <2>1 DEF Range
    <2>4. \A r \in Range(cpu_link[c].in) : r.cpu = c
      BY <2>2 DEF WInv, OneWay, LinesOnce, CpuLinesOnce
    <2>5. Range(cpu_link[c].in) \subseteq AtCache
      BY <2>2, <2>3, <2>4 DEF AtCache
    <2>. QED
      BY <2>1, <2>3, <2>4, <2>5 DEF WInv, OneWay, PlacesOnce
  <1>3. ASSUME NEW m \in Mems
        PROVE  /\ mem_link[m].in \in Seq(Request)
               /\ Range(mem_link[m].in) \subseteq Request \cap Issued
    <2>1. mem_link[m].in \in Seq(Routed(m)) /\ mem_link[m].out \in Seq(Routed(m))
      BY DEF IInv, LinksRouted, MemPort!Link
    <2>2. Range(mem_link[m].in) \subseteq Range(ToMemory(m))
      BY <2>1, ConcatOnce DEF ToMemory
    <2>3. mem_link[m].in \in Seq(Request) /\ Range(mem_link[m].in) \subseteq Routed(m)
      BY <2>1 DEF Routed, Range
    <2>4. Range(mem_link[m].in) \subseteq AtMemory
      BY <2>2, <2>3 DEF AtMemory, Routed
    <2>. QED
      BY <2>3, <2>4 DEF WInv, OneWay, PlacesOnce, Issued
  <1>. QED
    BY <1>1, <1>2, <1>3

LEMMA IssueInOrder ==
    ASSUME IInv, WInv, OrderInv, NEW c \in Cpus, Issue(c)
    PROVE  OrderInv'
  <1>. DEFINE r == [cpu |-> c, addr |-> next_addr[c]]
              l == cpu_link[c]
              k == CpuPort!Sent(l, r)
  <1>1. r \in Request /\ l \in CpuPort!Link(Request)
    BY DEF Issue, Request, IInv, TypeOK
  <1>2. ASSUME NEW x \in Request \cap Issued
        PROVE  <<x, r>> \in Rising
    <2>1. x.cpu = c => x.addr < next_addr[c]
      BY DEF Issued
    <2>. QED
      BY <1>1, <2>1 DEF Rising
  <1>3. cpu_link' = [cpu_link EXCEPT ![c] = k] /\ UNCHANGED <<req_buffer, mem_link>>
    BY DEF Issue
  <1>. HIDE DEF r
  <1>4. k.in = l.in \/ k.in = Append(l.in, r)
    BY <1>1, SentLine
       DEF CpuPort!Sent, CpuPort!Link, CpuPort!Direct, CpuPort!Queued, CpuPort!Accepted, CpuPort!Deletes, CpuPort!Behind
  <1>5. /\ Ordered(k.in, Rising)
        /\ Range(k.in) \subseteq Range(l.in) \cup {r}
    <2>1. l.in \in Seq(Request) /\ Range(l.in) \subseteq Request \cap Issued
      BY QueuesType
    <2>2. Precede(Range(l.in), {r}, Rising)
      BY <1>2, <2>1 DEF Precede
    <2>3. Ordered(l.in, Rising)
      BY DEF OrderInv
    <2>. HIDE DEF k, l
    <2>4. Range(Append(l.in, r)) = Range(l.in) \cup {r} /\ Ordered(Append(l.in, r), Rising)
      BY <1>1, <2>1, <2>2, <2>3, AppendOnce, AppendOrdered
    <2>. QED
      BY <1>4, <2>3, <2>4
  <1>6. cpu_link'[c] = k /\ \A d \in Cpus \ {c} : cpu_link'[d] = cpu_link[d]
    BY <1>3 DEF IInv, TypeOK
  <1>. HIDE DEF k, l
  <1>7. ASSUME NEW d \in Cpus
        PROVE  /\ Ordered(cpu_link'[d].in, Rising)
               /\ Range(cpu_link'[d].in) \subseteq Range(cpu_link[d].in) \cup {r}
    BY <1>5, <1>6 DEF OrderInv, l
  <1>8. /\ Precede(Range(req_buffer), {r}, Rising)
        /\ \A m \in Mems : Precede(Range(mem_link[m].in), {r}, Rising)
    BY <1>2, QueuesType DEF Precede
  <1>. QED
    BY <1>3, <1>7, <1>8 DEF OrderInv, Precede

LEMMA CacheAcceptsInOrder ==
    ASSUME IInv, WInv, OrderInv, NEW c \in Cpus, CacheAccepts(c)
    PROVE  OrderInv'
  <1>. DEFINE q == cpu_link[c].in
              r == Head(q)
  <1>1. /\ q \in Seq(Request) /\ q # << >> /\ r \in Range(q) /\ r \in Request /\ r.cpu = c
        /\ Range(Tail(q)) \subseteq Range(q)
    <2>1. q \in Seq(Request) /\ q # << >>
      BY QueuesType DEF CacheAccepts
    <2>. HIDE DEF q
    <2>2. r \in Range(q) /\ r \in Request /\ Range(Tail(q)) \subseteq Range(q)
      BY <2>1, TailOnce
    <2>. QED
      BY <2>1, <2>2, QueuesType DEF q
  <1>2. /\ cpu_link'[c].in = Tail(q)
        /\ \A d \in Cpus \ {c} : cpu_link'[d] = cpu_link[d]
        /\ UNCHANGED mem_link
    <2>1. /\ cpu_link' = [cpu_link EXCEPT ![c] = CpuPort!Taken(cpu_link[c])]
          /\ UNCHANGED mem_link
      BY DEF CacheAccepts
    <2>2. CpuPort!Taken(cpu_link[c]).in = Tail(q)
      BY DEF CpuPort!Taken, CpuPort!Link, IInv, TypeOK
    <2>. QED
      BY <2>1, <2>2 DEF IInv, TypeOK
  <1>3. Ordered(Tail(q), Rising) /\ Precede({r}, Range(Tail(q)), Rising)
    BY <1>1, TailOrdered DEF OrderInv
  <1>4. req_buffer' = req_buffer \/ req_buffer' = Append(req_buffer, r)
    BY DEF CacheAccepts, buffered
  <1>. HIDE DEF q, r
  <1>5. /\ Ordered(req_buffer', Rising)
        /\ Range(req_buffer') \subseteq Range(req_buffer) \cup {r}
    <2>1. Precede(Range(req_buffer), {r}, Rising)
      BY <1>1 DEF OrderInv, Precede, q
    <2>2. req_buffer \in Seq(Request) /\ Ordered(req_buffer, Rising)
      BY QueuesType DEF OrderInv
    <2>3. Range(Append(req_buffer, r)) = Range(req_buffer) \cup {r}
      BY <1>1, <2>2, AppendOnce
    <2>4. Ordered(Append(req_buffer, r), Rising)
      BY <1>1, <2>1, <2>2, AppendOrdered
    <2>. QED
      BY <1>4, <2>2, <2>3, <2>4
  <1>6. ASSUME NEW d \in Cpus
        PROVE  /\ Ordered(cpu_link'[d].in, Rising)
               /\ Range(cpu_link'[d].in) \subseteq Range(cpu_link[d].in)
               /\ Precede({r}, Range(cpu_link'[d].in), Rising)
    <2>1. CASE d = c
      BY <1>1, <1>2, <1>3, <2>1 DEF q
    <2>2. CASE d # c
      <3>1. \A y \in Range(cpu_link[d].in) : y \in Request /\ y.cpu = d
        BY QueuesType
      <3>2. Precede({r}, Range(cpu_link[d].in), Rising)
        BY <1>1, <2>2, <3>1 DEF Precede, Rising
      <3>. QED
        BY <1>2, <2>2, <3>2 DEF OrderInv
    <2>. QED
      BY <2>1, <2>2
  <1>7. \A m \in Mems : Precede(Range(mem_link[m].in), {r}, Rising)
    BY <1>1 DEF OrderInv, Precede, q
  <1>. QED
    BY <1>2, <1>5, <1>6, <1>7 DEF OrderInv, Precede

LEMMA tryForwardInOrder ==
    ASSUME IInv, WInv, OrderInv, tryForward, UNCHANGED cpu_link
    PROVE  OrderInv'
  <1>1. CASE req_buffer = << >>
    BY <1>1 DEF tryForward, OrderInv
  <1>2. CASE req_buffer # << >>
    <2>. DEFINE r == Head(req_buffer)
                m == routeToDownstream(r)
                l == mem_link[m]
                k == MemPort!Sent(l, r)
    <2>1. /\ r \in Request /\ r \in Range(req_buffer) /\ m \in Mems
          /\ Range(Tail(req_buffer)) \subseteq Range(req_buffer)
      <3>1. /\ r \in Request /\ r \in Range(req_buffer)
            /\ Range(Tail(req_buffer)) \subseteq Range(req_buffer)
        BY <1>2, QueuesType, TailOnce
      <3>. QED
        BY <3>1, RouteType
    <2>2. Ordered(Tail(req_buffer), Rising) /\ Precede({r}, Range(Tail(req_buffer)), Rising)
      BY <1>2, QueuesType, TailOrdered DEF OrderInv
    <2>3. /\ mem_link' = [mem_link EXCEPT ![m] = k]
          /\ req_buffer' = IF MemPort!Accepted(l) THEN Tail(req_buffer) ELSE req_buffer
      BY <1>2 DEF tryForward
    <2>4. l \in MemPort!Link(Request) /\ l.in \in Seq(Request)
      BY <2>1, QueuesType DEF IInv, TypeOK
    <2>5. \/ k.in = l.in
          \/ (k.in = Append(l.in, r) /\ MemPort!Accepted(l))
      <3>. HIDE DEF r, m, l
      <3>. QED
        BY <2>1, <2>4, SentLine
           DEF k, MemPort!Sent, MemPort!Link, MemPort!Direct, MemPort!Queued, MemPort!Accepted, MemPort!Deletes, MemPort!Behind
    <2>6. mem_link'[m] = k /\ \A n \in Mems \ {m} : mem_link'[n] = mem_link[n]
      BY <2>1, <2>3 DEF IInv, TypeOK
    <2>7. /\ Ordered(req_buffer', Rising)
          /\ Range(req_buffer') \subseteq Range(req_buffer)
      BY <2>1, <2>2, <2>3 DEF OrderInv
    <2>8. Precede(Range(l.in), {r}, Rising)
      BY <2>1 DEF OrderInv, Precede
    <2>. HIDE DEF r, m, l, k
    <2>9. /\ Ordered(k.in, Rising)
          /\ Range(k.in) \subseteq Range(l.in) \cup {r}
          /\ r \in Range(k.in) /\ r \notin Range(l.in) => req_buffer' = Tail(req_buffer)
      <3>1. Ordered(l.in, Rising)
        BY <2>1 DEF OrderInv, l
      <3>2. Range(Append(l.in, r)) = Range(l.in) \cup {r}
        BY <2>1, <2>4, AppendOnce
      <3>3. Ordered(Append(l.in, r), Rising)
        BY <2>1, <2>4, <2>8, <3>1, AppendOrdered
      <3>. QED
        BY <2>3, <2>5, <3>1, <3>2, <3>3
    <2>10. Precede(Range(l.in), Range(req_buffer), Rising)
      BY <2>1 DEF OrderInv, l
    <2>11. Precede(Range(k.in), Range(req_buffer'), Rising)
      BY <2>2, <2>7, <2>9, <2>10 DEF Precede
    <2>12. ASSUME NEW c \in Cpus
           PROVE  /\ Precede({r}, Range(cpu_link[c].in), Rising)
                  /\ Precede(Range(l.in), Range(cpu_link[c].in), Rising)
      BY <2>1 DEF OrderInv, Precede, l
    <2>13. ASSUME NEW n \in Mems
           PROVE  /\ Ordered(mem_link'[n].in, Rising)
                  /\ Precede(Range(mem_link'[n].in), Range(req_buffer'), Rising)
                  /\ \A c \in Cpus : Precede(Range(mem_link'[n].in), Range(cpu_link[c].in), Rising)
      <3>1. CASE n = m
        BY <2>6, <2>9, <2>11, <2>12, <3>1 DEF Precede
      <3>2. CASE n # m
        <4>1. mem_link'[n] = mem_link[n]
          BY <2>6, <3>2
        <4>. QED
          BY <2>7, <4>1 DEF OrderInv, Precede
      <3>. QED
        BY <3>1, <3>2
    <2>14. \A c \in Cpus : Precede(Range(req_buffer'), Range(cpu_link[c].in), Rising)
      BY <2>7 DEF OrderInv, Precede
    <2>. QED
      BY <2>7, <2>13, <2>14 DEF OrderInv
  <1>. QED
    BY <1>1, <1>2

LEMMA MemAcceptsInOrder ==
    ASSUME IInv, WInv, OrderInv, NEW m \in Mems, MemAccepts(m)
    PROVE  OrderInv'
  <1>. DEFINE q == mem_link[m].in
  <1>1. q \in Seq(Request) /\ q # << >>
    BY QueuesType DEF MemAccepts
  <1>2. /\ mem_link' = [mem_link EXCEPT ![m] = MemPort!Taken(mem_link[m])]
        /\ UNCHANGED <<req_buffer, cpu_link>>
    BY DEF MemAccepts
  <1>3. /\ mem_link'[m].in = Tail(q)
        /\ \A n \in Mems \ {m} : mem_link'[n] = mem_link[n]
    BY <1>2 DEF MemPort!Taken, MemPort!Link, IInv, TypeOK
  <1>4. Ordered(Tail(q), Rising) /\ Range(Tail(q)) \subseteq Range(q)
    BY <1>1, TailOnce, TailOrdered DEF OrderInv
  <1>5. ASSUME NEW n \in Mems
        PROVE  Ordered(mem_link'[n].in, Rising) /\ Range(mem_link'[n].in) \subseteq Range(mem_link[n].in)
    BY <1>3, <1>4 DEF OrderInv
  <1>. QED
    BY <1>2, <1>5 DEF OrderInv, Precede

\* A retry turns around what waits outside, never what a receiver sees.
LEMMA RetriesInOrder ==
    ASSUME IInv, OrderInv,
           \/ \E c \in Cpus : CpuPortTick(c)
           \/ \E m \in Mems : CachePortTick(m)
    PROVE  OrderInv'
  <1>1. ASSUME NEW c \in Cpus, CpuPortTick(c)
        PROVE  OrderInv'
    <2>1. /\ cpu_link' = [cpu_link EXCEPT ![c] = CpuPort!Retried(cpu_link[c])]
          /\ UNCHANGED <<req_buffer, mem_link>>
      BY <1>1 DEF CpuPortTick
    <2>2. CpuPort!Retried(cpu_link[c]).in = cpu_link[c].in
      BY RetriedLine DEF IInv, TypeOK, CpuPort!Retried, CpuPort!Behind, CpuPort!Link
    <2>3. \A d \in Cpus : cpu_link'[d].in = cpu_link[d].in
      BY <2>1, <2>2 DEF IInv, TypeOK
    <2>. QED
      BY <2>1, <2>3 DEF OrderInv
  <1>2. ASSUME NEW m \in Mems, CachePortTick(m)
        PROVE  OrderInv'
    <2>1. /\ mem_link' = [mem_link EXCEPT ![m] = MemPort!Retried(mem_link[m])]
          /\ UNCHANGED <<req_buffer, cpu_link>>
      BY <1>2 DEF CachePortTick
    <2>2. MemPort!Retried(mem_link[m]).in = mem_link[m].in
      BY RetriedLine DEF IInv, TypeOK, MemPort!Retried, MemPort!Behind, MemPort!Link
    <2>3. \A n \in Mems : mem_link'[n].in = mem_link[n].in
      BY <2>1, <2>2 DEF IInv, TypeOK
    <2>. QED
      BY <2>1, <2>3 DEF OrderInv
  <1>. QED
    BY <1>1, <1>2

\* The misses of one CPU for one memory reach it in the order of their issue,
\* with any number of CPUs and memories and any buffers: refusals, retries and
\* forwards by tick and by lambda included (CPUSim::tick, CacheSim::tryForward,
\* DownstreamPort::sendReq).
THEOREM MissesStayInOrder == Spec => []InOrder
  <1>1. Init => OrderInv
    BY EmptyOrdered DEF Init, OrderInv, Precede, CpuPort!Idle, MemPort!Idle
  <1>2. IInv /\ WInv /\ OrderInv /\ [Next]_vars => OrderInv'
    <2>1. SUFFICES ASSUME IInv, WInv, OrderInv, [Next]_vars
                   PROVE  OrderInv'
      OBVIOUS
    <2>2. CASE \E c \in Cpus : Issue(c) \/ CacheAccepts(c)
      BY <2>1, <2>2, IssueInOrder, CacheAcceptsInOrder
    <2>3. CASE tryForward /\ UNCHANGED cpu_link
      BY <2>1, <2>3, tryForwardInOrder
    <2>4. CASE \E m \in Mems : MemAccepts(m)
      BY <2>1, <2>4, MemAcceptsInOrder
    <2>5. CASE \/ \E c \in Cpus : CpuPortTick(c)
               \/ \E m \in Mems : CachePortTick(m)
      BY <2>1, <2>5, RetriesInOrder
    <2>6. CASE UNCHANGED <<cpu_link, req_buffer, mem_link>>
      BY <2>1, <2>6 DEF OrderInv
    <2>. QED
      BY <2>1, <2>2, <2>3, <2>4, <2>5, <2>6
         DEF Next, Lambda, Idle, CacheRefuses, CacheTick, RunForward, RunRespond, RunMemory,
             NextCycle, vars
  <1>3. IInv /\ WInv /\ OrderInv => InOrder
    <2>1. SUFFICES ASSUME IInv, WInv, OrderInv, NEW c \in Cpus, NEW m \in Mems
                   PROVE  LET line == mem_link[m].in \o req_buffer \o cpu_link[c].in
                          IN \A i, j \in DOMAIN line :
                               i < j /\ {line[i], line[j]} \subseteq Misses(c, m)
                               => line[i].addr < line[j].addr
      BY DEF InOrder
    <2>. DEFINE front == mem_link[m].in \o req_buffer
                line == front \o cpu_link[c].in
    <2>2. /\ front \in Seq(Request) /\ Range(front) = Range(mem_link[m].in) \cup Range(req_buffer)
          /\ Ordered(front, Rising)
      BY <2>1, QueuesType, ConcatOnce, ConcatOrdered DEF OrderInv
    <2>. HIDE DEF front
    <2>3. Precede(Range(front), Range(cpu_link[c].in), Rising)
      BY <2>1, <2>2 DEF OrderInv, Precede
    <2>4. Ordered(line, Rising)
      BY <2>1, <2>2, <2>3, QueuesType, ConcatOrdered DEF OrderInv
    <2>. HIDE DEF line
    <2>5. ASSUME NEW x \in Misses(c, m), NEW y \in Misses(c, m), <<x, y>> \in Rising
          PROVE  x.addr < y.addr
      BY <2>5 DEF Rising, Misses
    <2>6. \A i, j \in DOMAIN line :
            i < j /\ {line[i], line[j]} \subseteq Misses(c, m) => line[i].addr < line[j].addr
      BY <2>4, <2>5 DEF Ordered
    <2>. QED
      BY <2>6 DEF line, front
  <1>. QED
    BY <1>1, <1>2, <1>3, InvariantHolds, WayHolds, PTL DEF Spec
=============================================================================
