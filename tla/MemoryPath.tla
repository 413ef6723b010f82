----------------------------- MODULE MemoryPath -----------------------------
(***************************************************************************)
(* CPUs, one cache and its memories (include/modules/cpu_sim.hh,           *)
(* cache_sim.hh, memory_sim.hh) joined by links, and the lambdas they      *)
(* schedule.  CPU c is connected to the cache's upstream port c, the       *)
(* cache's downstream port m to memory m.                                  *)
(*                                                                         *)
(* The modules delete requests that others still point to.  A step that    *)
(* uses a deleted object finds its old contents or it does not: in the     *)
(* second case (the memory was reused, the process died) `undefined' is    *)
(* set, nothing is promised any more and the model stops.                  *)
(*                                                                         *)
(* Every module is ticked once per cycle, in any order among the lambdas   *)
(* that are due (EventQueue.tla).  The ticks of the ports are called by    *)
(* their owners at times of their own.                                     *)
(***************************************************************************)
EXTENDS Integers, Sequences, FiniteSets, Functions

CONSTANTS NumCpus, NumMems,
          MaxInFlight,              \* 4 in CPUSim::tick
          MAX_BUFFER,               \* 4 in CacheSim
          CpuOut, CpuIn,            \* buffers between a CPU and the cache
          MemOut, MemIn,            \* buffers between the cache and a memory
          MemDelay,                 \* 100 in MemorySim
          FirstAddr,                \* next_addr when the run begins
          MaxRequests               \* bound: addresses issued per CPU

ASSUME SizesAssumption ==
    /\ NumCpus \in Nat \ {0} /\ NumMems \in Nat \ {0}
    /\ {MaxInFlight, MAX_BUFFER, MemDelay, FirstAddr, MaxRequests} \subseteq Nat
    /\ {CpuOut, CpuIn, MemOut, MemIn} \subseteq Nat \ {0}

Cpus == 0 .. NumCpus - 1
Mems == 0 .. NumMems - 1
Addr == {FirstAddr + 4 * i : i \in 0 .. MaxRequests - 1}
Request == [cpu : Cpus, addr : Addr]

CpuPort == INSTANCE Link WITH OutCapacity <- CpuOut, InCapacity <- CpuIn
MemPort == INSTANCE Link WITH OutCapacity <- MemOut, InCapacity <- MemIn

\* A lambda in the event queue, `delay' cycles ahead: a call of tryForward
\* scheduled by the miss req, sendResp on the cache's upstream port, or
\* sendResp on the upstream port of a memory.
Event == [do : {"tryForward", "respond"}, req : Request, port : Cpus, delay : {0, 1}]
         \cup [do : {"memory"}, req : Request, port : Mems, delay : 0 .. MemDelay]

VARIABLES next_addr, inflight_reqs,   \* of each CPU
          cpu_link,                   \* CPU c to the cache
          req_buffer,                 \* of the cache
          mem_link,                   \* the cache to memory m
          events,                     \* lambdas in the event queue
          todo,                       \* modules not ticked in this cycle yet
          freed,                      \* deleted requests that are still queued
          undefined

cpu_vars == <<next_addr, inflight_reqs>>
vars == <<cpu_vars, cpu_link, req_buffer, mem_link, events, todo, freed, undefined>>

Cache == NumCpus
Modules == Cpus \cup {Cache}

TypeOK == /\ next_addr \in [Cpus -> Addr \cup {FirstAddr + 4 * MaxRequests}]
          /\ inflight_reqs \in [Cpus -> SUBSET Addr]
          /\ cpu_link \in [Cpus -> CpuPort!Link(Request)]
          /\ req_buffer \in Seq(Request) /\ Len(req_buffer) <= MAX_BUFFER
          /\ mem_link \in [Mems -> MemPort!Link(Request)]
          /\ events \subseteq Event
          /\ todo \subseteq Modules
          /\ freed \subseteq Request
          /\ undefined \in BOOLEAN

Init == /\ next_addr = [c \in Cpus |-> FirstAddr]
        /\ inflight_reqs = [c \in Cpus |-> {}]
        /\ cpu_link = [c \in Cpus |-> CpuPort!Idle]
        /\ req_buffer = << >>
        /\ mem_link = [m \in Mems |-> MemPort!Idle]
        /\ events = {}
        /\ todo = Modules
        /\ freed = {}
        /\ undefined = FALSE

\* The step uses, or deletes once more, an object that has been deleted.
Touches(dangling) == ~undefined /\ undefined' \in (IF dangling THEN BOOLEAN ELSE {FALSE})

-----------------------------------------------------------------------------
(* CPUSim *)

\* Mutant: the limit is off by one.
mayIssueOneMore(c) == Cardinality(inflight_reqs[c]) <= MaxInFlight

mayIssue(c) == Cardinality(inflight_reqs[c]) < MaxInFlight

\* tick, when rand() says so: a request that sendReq refuses is deleted a
\* second time, and its address is tried again.
Issue(c) ==
    LET r == [cpu |-> c, addr |-> next_addr[c]]
    IN /\ c \in todo /\ next_addr[c] \in Addr
       /\ mayIssue(c)
       /\ todo' = todo \ {c}
       /\ cpu_link' = [cpu_link EXCEPT ![c] = CpuPort!Sent(@, r)]
       /\ IF CpuPort!Accepted(cpu_link[c])
          THEN /\ inflight_reqs' = [inflight_reqs EXCEPT ![c] = @ \cup {next_addr[c]}]
               /\ next_addr' = [next_addr EXCEPT ![c] = @ + 4]
               /\ freed' = IF CpuPort!Deletes(cpu_link[c]) > 0 THEN freed \cup {r} ELSE freed
          ELSE UNCHANGED <<cpu_vars, freed>>
       /\ Touches(~CpuPort!Accepted(cpu_link[c]))
       /\ UNCHANGED <<req_buffer, mem_link, events>>

\* tick, when it does not.
Idle(c) == /\ c \in todo
           /\ todo' = todo \ {c}
           /\ Touches(FALSE)
           /\ UNCHANGED <<cpu_vars, cpu_link, req_buffer, mem_link, events, freed>>

\* Mutant: the latest request is erased.
AnswerLatest(c, r) == inflight_reqs' = [inflight_reqs EXCEPT ![c] = @ \ {next_addr[c] - 4}]

\* handleDownstreamResponse.  It reads the address through original_req and
\* deletes the response with its payload, all of which are deleted already.
Answer(c, r) == inflight_reqs' = [inflight_reqs EXCEPT ![c] = @ \ {r.addr}]

-----------------------------------------------------------------------------
(* CacheSim *)

hit(r) == r.addr % 8 = 0

\* Mutants: the limit is off by one; a miss goes to the front.
fullLate == Len(req_buffer) > MAX_BUFFER
bufferedFirst(r) == <<r>> \o req_buffer

full == Len(req_buffer) >= MAX_BUFFER
buffered(r) == Append(req_buffer, r)

\* Mutant: a miss schedules no call of tryForward and waits for the tick.
scheduleForwardNever(r) == {}

scheduleForward(r) == {[do |-> "tryForward", req |-> r, port |-> 0, delay |-> 1]}

\* UpstreamPort::tick of port c with handleUpstreamRequest on its front.
CacheRefuses(c) ==
    LET l == cpu_link[c] IN
    /\ l.in # << >>
    /\ full
    /\ freed' = freed \cup {Head(l.in)}
    /\ Touches(Head(l.in) \in freed)
    /\ UNCHANGED <<cpu_vars, cpu_link, req_buffer, mem_link, events, todo>>

CacheAccepts(c) ==
    LET l == cpu_link[c]
        r == Head(l.in)
    IN /\ l.in # << >>
       /\ ~full
       /\ cpu_link' = [cpu_link EXCEPT ![c] = CpuPort!Taken(@)]
       /\ \/ /\ hit(r)
             /\ events' = events \cup {[do |-> "respond", req |-> r, port |-> c, delay |-> 1]}
             /\ freed' = freed \ {r}
             /\ UNCHANGED req_buffer
          \/ /\ ~hit(r)
             /\ req_buffer' = buffered(r)
             /\ events' = events \cup scheduleForward(r)
             /\ UNCHANGED freed
       /\ Touches(r \in freed)
       /\ UNCHANGED <<cpu_vars, mem_link, todo>>

routeToDownstream(r) == (r.addr \div 256) % NumMems

\* The front leaves the buffer when sendReq takes it.  A refused one stays,
\* deleted.
tryForward ==
    LET r == Head(req_buffer)
        m == routeToDownstream(r)
    IN IF req_buffer = << >>
       THEN Touches(FALSE) /\ UNCHANGED <<req_buffer, mem_link, freed>>
       ELSE /\ mem_link' = [mem_link EXCEPT ![m] = MemPort!Sent(@, r)]
            /\ req_buffer' = IF MemPort!Accepted(mem_link[m]) THEN Tail(req_buffer) ELSE req_buffer
            /\ freed' = IF MemPort!Deletes(mem_link[m]) > 0 THEN freed \cup {r} ELSE freed
            /\ Touches(r \in freed \/ MemPort!Deletes(mem_link[m]) > 1)

CacheTick == /\ Cache \in todo
             /\ todo' = todo \ {Cache}
             /\ tryForward
             /\ UNCHANGED <<cpu_vars, cpu_link, events>>

\* Mutant: back to the CPU that sent the request.
upstreamIdOfSender(r, m) == r.cpu

\* handleDownstreamResponse: the upstream port of a memory's response.
upstreamId(r, m) == m % NumCpus

-----------------------------------------------------------------------------
(* MemorySim *)

\* UpstreamPort::tick of memory m with handleUpstreamRequest on its front,
\* which answers and deletes it.
MemAccepts(m) ==
    LET l == mem_link[m]
        r == Head(l.in)
    IN /\ l.in # << >>
       /\ mem_link' = [mem_link EXCEPT ![m] = MemPort!Taken(@)]
       /\ events' = events \cup {[do |-> "memory", req |-> r, port |-> m, delay |-> MemDelay]}
       /\ freed' = freed \ {r}
       /\ Touches(r \in freed)
       /\ UNCHANGED <<cpu_vars, cpu_link, req_buffer, todo>>

-----------------------------------------------------------------------------
(* Lambdas, port ticks and time *)

\* A call of tryForward falls due.
RunForward(e) == /\ e \in events /\ e.do = "tryForward" /\ e.delay = 0
                 /\ events' = events \ {e}
                 /\ tryForward
                 /\ UNCHANGED <<cpu_vars, cpu_link, todo>>

\* SlavePort::sendResp of the cache reaches the CPU in the same call.
RunRespond(e) == /\ e \in events /\ e.do = "respond" /\ e.delay = 0
                 /\ events' = events \ {e}
                 /\ Answer(e.port, e.req)
                 /\ Touches(TRUE)
                 /\ UNCHANGED <<next_addr, cpu_link, req_buffer, mem_link, todo, freed>>

\* That of a memory reaches the cache, which passes the answer on a cycle
\* later and deletes request, payload and response again.
RunMemory(e) == /\ e \in events /\ e.do = "memory" /\ e.delay = 0
                /\ events' = (events \ {e}) \cup
                      {[do |-> "respond", req |-> e.req, port |-> upstreamId(e.req, e.port),
                        delay |-> 1]}
                /\ Touches(TRUE)
                /\ UNCHANGED <<cpu_vars, cpu_link, req_buffer, mem_link, todo, freed>>

\* DownstreamPort::tick of a CPU and of the cache.
CpuPortTick(c) == /\ CpuPort!Behind(cpu_link[c])
                  /\ cpu_link' = [cpu_link EXCEPT ![c] = CpuPort!Retried(@)]
                  /\ freed' = freed \cup {Head(cpu_link[c].out)}
                  /\ Touches(Head(cpu_link[c].out) \in freed)
                  /\ UNCHANGED <<cpu_vars, req_buffer, mem_link, events, todo>>

CachePortTick(m) == /\ MemPort!Behind(mem_link[m])
                    /\ mem_link' = [mem_link EXCEPT ![m] = MemPort!Retried(@)]
                    /\ freed' = freed \cup {Head(mem_link[m].out)}
                    /\ Touches(Head(mem_link[m].out) \in freed)
                    /\ UNCHANGED <<cpu_vars, cpu_link, req_buffer, events, todo>>

\* EventQueue::run goes on to the next cycle.
NextCycle == /\ todo = {}
             /\ \A e \in events : e.delay > 0
             /\ events' = {[e EXCEPT !.delay = @ - 1] : e \in events}
             /\ todo' = Modules
             /\ Touches(FALSE)
             /\ UNCHANGED <<cpu_vars, cpu_link, req_buffer, mem_link, freed>>

Lambda(e) == RunForward(e) \/ RunRespond(e) \/ RunMemory(e)

Next == \/ \E c \in Cpus : Issue(c) \/ Idle(c) \/ CacheRefuses(c) \/ CacheAccepts(c)
                           \/ CpuPortTick(c)
        \/ CacheTick
        \/ \E m \in Mems : MemAccepts(m) \/ CachePortTick(m)
        \/ \E e \in events : Lambda(e)
        \/ NextCycle

Spec == Init /\ [][Next]_vars

\* The loop of EventQueue::run goes on, and the owners tick the ports at
\* which packets arrive again and again.
Fairness ==
    /\ WF_vars(\/ CacheTick \/ NextCycle
               \/ \E c \in Cpus : Issue(c) \/ Idle(c)
               \/ \E e \in events : Lambda(e))
    /\ \A c \in Cpus : WF_vars(CacheAccepts(c))
    /\ \A m \in Mems : WF_vars(MemAccepts(m))

FairSpec == Spec /\ Fairness

-----------------------------------------------------------------------------
(* Properties *)

\* Requests that wait for the cache, in it, for memory m or for their answer.
ToCache(c) == cpu_link[c].in \o cpu_link[c].out
ToMemory(m) == mem_link[m].in \o mem_link[m].out
ToAnswer == {e.req : e \in {f \in events : f.do # "tryForward"}}
Outstanding == (UNION {Range(ToCache(c)) : c \in Cpus}) \cup Range(req_buffer)
               \cup (UNION {Range(ToMemory(m)) : m \in Mems}) \cup ToAnswer

\* The table of a lone CPU holds exactly the requests that are on their way:
\* none is forgotten while its answer is due and none stays after it, over
\* hits and misses that overtake each other (CPUSim::tick and
\* handleDownstreamResponse, through the cache and the memories).
TableExact == \A c \in Cpus : inflight_reqs[c] = {r.addr : r \in {q \in Outstanding : q.cpu = c}}

\* With several CPUs this is so for hits, the only requests whose answer goes
\* back the way they came (CacheSim::handleUpstreamRequest), whatever the
\* misrouted answers to misses erase meanwhile.
HitsExact ==
    \A c \in Cpus : {a \in inflight_reqs[c] : a % 8 = 0}
                    = {r.addr : r \in {q \in Outstanding : q.cpu = c /\ hit(q)}}

\* The limit on requests in flight keeps every buffer of the path from
\* overflowing, so nothing is ever held back, refused or deleted early:
\* with the default sizes no channel is closed for good (cpu_sim.hh:37).
NeverHeldBack == /\ \A c \in Cpus : ~CpuPort!Behind(cpu_link[c])
                 /\ \A m \in Mems : ~MemPort!Behind(mem_link[m])
                 /\ freed = {}

\* A miss leaves the cache in the cycle after it came, whoever forwards it:
\* the tick and the lambdas race for the front of the buffer, but there are
\* always as many lambdas as buffered misses (CacheSim::scheduleForward).
ForwardsSuffice == Len(req_buffer) <= Cardinality({e \in events : e.do = "tryForward"})

\* The misses of a CPU for one memory stay in the order of their issue, from
\* the CPU's link over the buffer to the memory's link.
Misses(c, m) == {r \in Request : r.cpu = c /\ ~hit(r) /\ routeToDownstream(r) = m}
InOrder ==
    \A c \in Cpus, m \in Mems :
        LET line == mem_link[m].in \o req_buffer \o cpu_link[c].in
        IN \A i, j \in DOMAIN line :
              i < j /\ {line[i], line[j]} \subseteq Misses(c, m) => line[i].addr < line[j].addr

\* An address that misses leaves the table of a CPU only if the memory it is
\* routed to answers to that CPU; otherwise the slot is lost for good, for
\* the cache routes answers by port number (cache_sim.hh:58).
SlotLost ==
    [][\A c \in Cpus : \A a \in inflight_reqs[c] :
          a % 8 # 0 /\ c # routeToDownstream([cpu |-> c, addr |-> a]) % NumCpus
          => a \in inflight_reqs'[c]]_vars

\* Every request of a lone CPU is answered, or memory it uses after deleting
\* it has been reused.
Answered == \A a \in Addr : a \in inflight_reqs[0] ~> (a \notin inflight_reqs[0] \/ undefined)
=============================================================================
