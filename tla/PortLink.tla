------------------------------ MODULE PortLink ------------------------------
(***************************************************************************)
(* One connection: a DownstreamPort with its OutputVCs and an UpstreamPort *)
(* with its InputVCs (include/port_manager.hh, virtual_channel.hh,         *)
(* master_port.hh, slave_port.hh), joined by a PortPair (simple_port.hh).  *)
(* Requests only: responses are delivered synchronously and never queued.  *)
(*                                                                         *)
(* A packet is the n-th one submitted on a virtual channel.  Both ends     *)
(* delete packets, so `deleted' records which pointers dangle; the first   *)
(* use of a dangling pointer is undefined behaviour, after which nothing   *)
(* is promised and the model stops.                                        *)
(*                                                                         *)
(* The two tick() functions are called by whoever owns the port.           *)
(***************************************************************************)
EXTENDS Integers, Sequences, FiniteSets

CONSTANTS VcIds,          \* values of Packet::vc_id
          OutVCs, InVCs,  \* ids of the output and input virtual channels
          OutCapacity, InCapacity,
          CallerTouches,  \* may the caller use a packet sendReq refused?
          MaxSent         \* bound: packets submitted per virtual channel

ASSUME ChannelsAssumption == /\ OutVCs \subseteq VcIds
                             /\ InVCs \subseteq VcIds
                             /\ OutCapacity \in [OutVCs -> Nat]
                             /\ InCapacity \in [InVCs -> Nat]
ASSUME BoundsAssumption == CallerTouches \subseteq BOOLEAN /\ MaxSent \in Nat

Packet == [vc_id : VcIds, seq_num : Nat \ {0}]

VARIABLES bound,          \* the PortPair has been constructed
          output_vcs, input_vcs,   \* OutputVC::buffer, InputVC::buffer
          out_stats, in_stats,     \* OutputVC::stats, InputVC::stats
          req_count,      \* PortStats::req_count of either port
          sent,           \* history: packets submitted, per virtual channel
          handled,        \* history: packets the receiving owner accepted
          deleted,        \* packets whose memory has been freed
          undefined       \* a freed packet has been used

queues == <<output_vcs, input_vcs, handled>>
stats == <<out_stats, in_stats, req_count>>
vars == <<bound, queues, stats, sent, deleted, undefined>>

OutStats == [enqueued : Nat, forwarded : Nat, dropped : Nat]
InStats == [enqueued : Nat, dropped : Nat, processed : Nat]

TypeOK == /\ bound \in BOOLEAN
          /\ output_vcs \in [OutVCs -> Seq(Packet)]
          /\ input_vcs \in [InVCs -> Seq(Packet)]
          /\ \A v \in OutVCs : Len(output_vcs[v]) <= OutCapacity[v]
          /\ \A v \in InVCs : Len(input_vcs[v]) <= InCapacity[v]
          /\ out_stats \in [OutVCs -> OutStats]
          /\ in_stats \in [InVCs -> InStats]
          /\ req_count \in [{"master", "slave"} -> Nat]
          /\ sent \in [VcIds -> Nat]
          /\ handled \in [InVCs -> Seq(Packet)]
          /\ deleted \subseteq Packet
          /\ undefined \in BOOLEAN

Init == /\ bound = FALSE
        /\ output_vcs = [v \in OutVCs |-> << >>]
        /\ input_vcs = [v \in InVCs |-> << >>]
        /\ out_stats = [v \in OutVCs |-> [enqueued |-> 0, forwarded |-> 0, dropped |-> 0]]
        /\ in_stats = [v \in InVCs |-> [enqueued |-> 0, dropped |-> 0, processed |-> 0]]
        /\ req_count = [master |-> 0, slave |-> 0]
        /\ sent = [v \in VcIds |-> 0]
        /\ handled = [v \in InVCs |-> << >>]
        /\ deleted = {}
        /\ undefined = FALSE

-----------------------------------------------------------------------------
\* PortPair's constructor: until then SimplePort::send returns false.
Bind == /\ ~undefined /\ ~bound
        /\ bound' = TRUE
        /\ UNCHANGED <<queues, stats, sent, deleted, undefined>>

(* DownstreamPort::sendReq with a new packet on channel v, by path. *)

fresh(v) == [vc_id |-> v, seq_num |-> sent[v] + 1]

Submit(v) == /\ ~undefined
             /\ sent[v] < MaxSent
             /\ sent' = [sent EXCEPT ![v] = @ + 1]
             /\ UNCHANGED <<bound, handled>>

\* sendReq returns false: the packet has been deleted, and the caller may
\* delete it again or keep it for a retry.
ReturnFalse(v) == /\ deleted' = deleted \cup {fresh(v)}
                  /\ undefined' \in CallerTouches

SendInvalid(v) == /\ v \notin OutVCs
                  /\ Submit(v)
                  /\ ReturnFalse(v)
                  /\ UNCHANGED <<output_vcs, input_vcs, stats>>

\* Mutant: a capacity test that is off by one.
enqueueOutOneMore(v, p) == /\ Len(output_vcs[v]) <= OutCapacity[v]
                           /\ output_vcs' = [output_vcs EXCEPT ![v] = Append(@, p)]
                           /\ out_stats' = [out_stats EXCEPT ![v].enqueued = @ + 1]

\* OutputVC::enqueue
enqueueOut(v, p) == /\ Len(output_vcs[v]) < OutCapacity[v]
                    /\ output_vcs' = [output_vcs EXCEPT ![v] = Append(@, p)]
                    /\ out_stats' = [out_stats EXCEPT ![v].enqueued = @ + 1]

\* Mutant: the drop is not counted.
dropOutUncounted(v) == /\ Len(output_vcs[v]) >= OutCapacity[v]
                       /\ UNCHANGED <<out_stats, output_vcs>>

dropOut(v) == /\ Len(output_vcs[v]) >= OutCapacity[v]
              /\ out_stats' = [out_stats EXCEPT ![v].dropped = @ + 1]
              /\ UNCHANGED output_vcs

SendBehind(v) == /\ v \in OutVCs /\ output_vcs[v] # << >>
                 /\ Submit(v)
                 /\ enqueueOut(v, fresh(v))
                 /\ UNCHANGED <<input_vcs, in_stats, req_count, deleted, undefined>>

SendOverflow(v) == /\ v \in OutVCs /\ output_vcs[v] # << >>
                   /\ Submit(v)
                   /\ dropOut(v)
                   /\ ReturnFalse(v)
                   /\ UNCHANGED <<input_vcs, in_stats, req_count>>

\* UpstreamPort::recvReq finds the channel and room in it.
PeerAccepts(v) == bound /\ v \in InVCs /\ Len(input_vcs[v]) < InCapacity[v]

\* MasterPort::send and SlavePort::recv count the request.
CountRequest ==
    req_count' = [master |-> req_count.master + 1,
                  slave |-> IF bound THEN req_count.slave + 1 ELSE req_count.slave]

\* Mutant: the peer is tried before what already waits.
SendDirectBypass(v) == /\ v \in OutVCs
                       /\ PeerAccepts(v)
                       /\ Submit(v)
                       /\ CountRequest
                       /\ input_vcs' = [input_vcs EXCEPT ![v] = Append(@, fresh(v))]
                       /\ in_stats' = [in_stats EXCEPT ![v].enqueued = @ + 1]
                       /\ UNCHANGED <<output_vcs, out_stats, deleted, undefined>>

SendDirect(v) == /\ v \in OutVCs /\ output_vcs[v] = << >>
                 /\ PeerAccepts(v)
                 /\ Submit(v)
                 /\ CountRequest
                 /\ input_vcs' = [input_vcs EXCEPT ![v] = Append(@, fresh(v))]
                 /\ in_stats' = [in_stats EXCEPT ![v].enqueued = @ + 1]
                 /\ UNCHANGED <<output_vcs, out_stats, deleted, undefined>>

\* The direct send fails: a bound peer has no such channel or no room in it
\* and deletes the packet.
Refused(v) == /\ v \in OutVCs /\ output_vcs[v] = << >>
              /\ ~PeerAccepts(v)
              /\ Submit(v)
              /\ CountRequest
              /\ in_stats' = IF bound /\ v \in InVCs
                             THEN [in_stats EXCEPT ![v].dropped = @ + 1]
                             ELSE in_stats
              /\ UNCHANGED input_vcs

SendBuffered(v) == /\ Refused(v)
                   /\ enqueueOut(v, fresh(v))
                   /\ deleted' = IF bound THEN deleted \cup {fresh(v)} ELSE deleted
                   /\ UNCHANGED undefined

\* No buffer: sendReq deletes what a bound peer has deleted already.
SendUnbuffered(v) == /\ Refused(v)
                     /\ dropOut(v)
                     /\ deleted' = deleted \cup {fresh(v)}
                     /\ IF bound THEN undefined' = TRUE ELSE undefined' \in CallerTouches

sendReq(v) == \/ SendInvalid(v)
              \/ SendBehind(v)
              \/ SendOverflow(v)
              \/ SendDirect(v)
              \/ SendBuffered(v)
              \/ SendUnbuffered(v)

-----------------------------------------------------------------------------
Waiting(buffers) == {v \in DOMAIN buffers : buffers[v] # << >>}
Heads(buffers) == {Head(buffers[v]) : v \in Waiting(buffers)}

\* tick() passes a dangling pointer to sendReq or to the owner's handler.
TouchDeleted(buffers) == /\ ~undefined
                         /\ Heads(buffers) \cap deleted # {}
                         /\ undefined' = TRUE
                         /\ UNCHANGED <<bound, queues, stats, sent, deleted>>

\* Mutants: the front is not popped; it is popped and not requeued.
trySendKeep(q, cap) == IF q # << >> /\ Len(q) < cap THEN Append(q, Head(q)) ELSE q
trySendDrain(q, cap) == IF q # << >> THEN Tail(q) ELSE q

\* DownstreamPort::tick: OutputVC::trySend on every channel.  It calls the
\* virtual sendReq, which sees a channel that is not empty: it appends the
\* front packet again when there is room (trySend then pops and deletes it),
\* and otherwise drops and deletes it (trySend leaves it at the front).
trySend(q, cap) == IF q # << >> /\ Len(q) < cap THEN Append(Tail(q), Head(q)) ELSE q

DownstreamTick ==
    /\ ~undefined
    /\ Heads(output_vcs) \cap deleted = {}
    /\ output_vcs' = [v \in OutVCs |-> trySend(output_vcs[v], OutCapacity[v])]
    /\ out_stats' = [v \in OutVCs |->
          CASE output_vcs[v] = << >> -> out_stats[v]
            [] output_vcs[v] # << >> /\ Len(output_vcs[v]) < OutCapacity[v] ->
                 [out_stats[v] EXCEPT !.enqueued = @ + 1, !.forwarded = @ + 1]
            [] OTHER -> [out_stats[v] EXCEPT !.dropped = @ + 1]]
    /\ deleted' = deleted \cup Heads(output_vcs)
    /\ UNCHANGED <<bound, input_vcs, handled, in_stats, req_count, sent, undefined>>

\* Mutant: popped whatever the handler answers.
UpstreamTickAlwaysPop(accepted) ==
    /\ ~undefined
    /\ Heads(input_vcs) \cap deleted = {}
    /\ input_vcs' = [v \in InVCs |-> IF input_vcs[v] # << >> THEN Tail(input_vcs[v])
                                                            ELSE input_vcs[v]]
    /\ handled' = [v \in InVCs |-> IF v \in accepted THEN Append(handled[v], Head(input_vcs[v]))
                                                     ELSE handled[v]]
    /\ in_stats' = [v \in InVCs |->
          IF input_vcs[v] # << >> THEN [in_stats[v] EXCEPT !.processed = @ + 1] ELSE in_stats[v]]
    /\ deleted' = deleted \cup {Head(input_vcs[v]) : v \in Waiting(input_vcs) \ accepted}
    /\ UNCHANGED <<bound, output_vcs, out_stats, req_count, sent, undefined>>

\* UpstreamPort::tick: handleUpstreamRequest on the front of every channel.
\* `accepted' are the channels whose handler returns true and takes the
\* packet; a handler that returns false has deleted it.
UpstreamTick(accepted) ==
    /\ ~undefined
    /\ Heads(input_vcs) \cap deleted = {}
    /\ input_vcs' = [v \in InVCs |-> IF v \in accepted THEN Tail(input_vcs[v])
                                                       ELSE input_vcs[v]]
    /\ handled' = [v \in InVCs |-> IF v \in accepted THEN Append(handled[v], Head(input_vcs[v]))
                                                     ELSE handled[v]]
    /\ in_stats' = [v \in InVCs |->
          IF v \in accepted THEN [in_stats[v] EXCEPT !.processed = @ + 1] ELSE in_stats[v]]
    /\ deleted' = deleted \cup {Head(input_vcs[v]) : v \in Waiting(input_vcs) \ accepted}
    /\ UNCHANGED <<bound, output_vcs, out_stats, req_count, sent, undefined>>

Next == \/ Bind
        \/ \E v \in VcIds : sendReq(v)
        \/ DownstreamTick
        \/ \E accepted \in SUBSET Waiting(input_vcs) : UpstreamTick(accepted)
        \/ TouchDeleted(output_vcs)
        \/ TouchDeleted(input_vcs)

Spec == Init /\ [][Next]_vars

-----------------------------------------------------------------------------
(* Safety *)

\* Everything that ever reached the receiver on channel v, in order.
Arrived(v) == handled[v] \o input_vcs[v]

\* Packets reach the receiver in order and without a gap; with an output
\* buffer the first to arrive is the first submitted.  sendReq never lets a
\* packet overtake one it holds back (DownstreamPort::sendReq).
NoGap ==
    \A v \in InVCs : LET q == Arrived(v) IN
        /\ \A i \in 1 .. Len(q) - 1 : q[i + 1].seq_num = q[i].seq_num + 1
        /\ q # << >> /\ v \in OutVCs /\ OutCapacity[v] > 0 => q[1].seq_num = 1

\* Each submitted packet is in exactly one place: at the receiver, in the
\* output buffer, or gone; no path of sendReq or trySend queues it twice or
\* forgets it.
OnePlace ==
    \A v \in OutVCs : \A n \in 1 .. sent[v] :
        LET p == [vc_id |-> v, seq_num |-> n]
            copies(q) == {i \in DOMAIN q : q[i] = p}
            there == IF v \in InVCs THEN copies(Arrived(v)) ELSE {}
            here == copies(output_vcs[v])
        IN /\ Cardinality(there) + Cardinality(here) <= 1
           /\ there = {} /\ here = {} => p \in deleted

\* The counters of a channel add up to the packets submitted on it, except
\* that a retry of a full channel counts its front packet as dropped while
\* it stays queued, once.
Accounted ==
    \A v \in OutVCs \cap InVCs :
        LET counted == in_stats[v].enqueued + Len(output_vcs[v]) + out_stats[v].dropped
        IN /\ counted \in {sent[v], sent[v] + 1}
           /\ counted > sent[v] => /\ Len(output_vcs[v]) = OutCapacity[v]
                                   /\ Head(output_vcs[v]) \in deleted
           /\ Len(output_vcs[v]) = out_stats[v].enqueued - out_stats[v].forwarded
           /\ Len(input_vcs[v]) = in_stats[v].enqueued - in_stats[v].processed

\* A buffered channel is refused by its peer at most once: the refusal makes
\* the output buffer non-empty for good, and nothing reads the peer again.
RefusedOnce ==
    \A v \in OutVCs \cap InVCs : OutCapacity[v] > 0 =>
        /\ in_stats[v].dropped <= 1
        /\ in_stats[v].dropped = 1 => output_vcs[v] # << >>

\* Once a packet waits in an output buffer the channel is closed: the buffer
\* never drains and no packet reaches the receiver on it any more, whatever
\* room the receiver makes (trySend calls the virtual sendReq).
ClosedForGood ==
    [][\A v \in OutVCs : output_vcs[v] # << >> =>
          /\ output_vcs'[v] # << >>
          /\ v \in InVCs => in_stats'[v].enqueued = in_stats[v].enqueued]_vars

(* Refinement *)

Abstract == INSTANCE GaplessChannel WITH
    Channels <- VcIds,
    line  <- [v \in VcIds |-> IF v \in InVCs
                              THEN [i \in 1 .. Len(Arrived(v)) |-> Arrived(v)[i].seq_num]
                              ELSE << >>],
    taken <- [v \in VcIds |-> IF v \in InVCs THEN Len(handled[v]) ELSE 0]

\* The two ports keep the promise of GaplessChannel.tla.
ImplementsGapless == Abstract!Spec

-----------------------------------------------------------------------------
(* What the repository's documents say of the link *)

\* A full buffer makes sendReq return false and leaves the caller free to
\* deal with the packet (README.md:18): doing so uses no freed memory.
RefusalIsUsable == ~undefined
=============================================================================
