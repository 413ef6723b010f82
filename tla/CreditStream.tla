---------------------------- MODULE CreditStream ----------------------------
(***************************************************************************)
(* Stream producers that share one consumer (include/modules/              *)
(* stream_producer.hh, stream_traffic_gen.hh, stream_consumer.hh).  Stream *)
(* id of producer p has a downstream port of its own, joined to an         *)
(* upstream port of its own at the consumer, which gives one credit back   *)
(* for each packet, always on its downstream port 0.                       *)
(*                                                                         *)
(* CreditPool is not in the repository; it is modelled by what the         *)
(* producer expects of it: a stream may use its reservation and, beyond    *)
(* it, what no stream has reserved or uses.                                *)
(*                                                                         *)
(* The handlers have two parameters and do not override those of SimObject *)
(* that the ports call; `own_handlers' says whether derived classes pass   *)
(* the calls on.  As in MemoryPath.tla, a step that uses a deleted packet  *)
(* may find its old contents; if not, `undefined' is set.                  *)
(***************************************************************************)
EXTENDS Integers, Sequences, FiniteSets

CONSTANTS Producers,
          credit_to,                \* the producer that the credits go to
          total_credits,            \* 8 in StreamProducer
          PortLimit,                \* 4 in StreamConsumer
          OutCapacity, InCapacity,  \* buffers of a stream's connection
          CreditIn,                 \* of the producer's upstream port
          FirstId,                  \* 1001
          PacketCounts, Reserves,   \* arguments of createStream
          MaxStreams                \* bound: calls of createStream by each

ASSUME CreditAssumption ==
    /\ IsFiniteSet(Producers)
    /\ credit_to \in Producers /\ MaxStreams \in [Producers -> Nat]
    /\ {total_credits, PortLimit, FirstId} \subseteq Nat
    /\ {OutCapacity, InCapacity, CreditIn} \subseteq Nat \ {0}
    /\ PacketCounts \subseteq Nat /\ Reserves \subseteq Nat

IdsOf(p) == FirstId .. FirstId + MaxStreams[p] - 1
Ids == UNION {IdsOf(p) : p \in Producers}

L == INSTANCE Link

\* A packet has its `producer', `stream_id' and `seq_num'; an entry of `streams'
\* is StreamInfo: stream_id, total_packets, sent_count, reserved_credits.
VARIABLES wiring, own_handlers,  \* how the consumer's port 0 is connected:
                        \*   "nowhere", "upstream" or "downstream"
          next_stream_id, streams,  \* of each producer
          used,         \* credits of its pool that each stream uses
          link,         \* connection of each stream
          processing,   \* packets whose lambda waits in the event queue
          credit_in,    \* credit packets in the producer's upstream port
          front_deleted,  \* the first of them has been deleted
          taken,        \* history: packets of each stream the consumer took
          lost,         \* history: credits sent back that reached no pool
          deleted,      \* packets whose memory has been freed
          undefined

wires == <<wiring, own_handlers>>
credit_port == <<credit_in, front_deleted>>
vars == <<wires, next_stream_id, streams, used, link, processing, credit_port, taken, lost,
          deleted, undefined>>

Init == /\ wiring \in {"nowhere", "upstream", "downstream"}
        /\ own_handlers \in BOOLEAN
        /\ next_stream_id = [p \in Producers |-> FirstId]
        /\ streams = [p \in Producers |-> << >>]
        /\ used = [p \in Producers |-> [id \in Ids |-> 0]]
        /\ link = [p \in Producers |-> [id \in Ids |-> L!Idle]]
        /\ processing = {}
        /\ credit_in = 0 /\ front_deleted = FALSE
        /\ taken = [p \in Producers |-> [id \in Ids |-> << >>]]
        /\ lost = [id \in Ids |-> 0]
        /\ deleted = {}
        /\ undefined = FALSE

\* The step uses, or deletes once more, an object that has been deleted.
Touches(dangling) == ~undefined /\ undefined' \in (IF dangling THEN BOOLEAN ELSE {FALSE})

-----------------------------------------------------------------------------
(* CreditPool *)

greater(x, y) == IF x > y THEN x ELSE y

\* The credits of pool p that its streams hold or may claim when they use u:
\* the k-th of stream i.
claims(p, u) ==
    UNION {LET s == streams[p][i]
           IN {i} \X (1 .. greater(u[s.stream_id], s.reserved_credits)) : i \in DOMAIN streams[p]}

available(p, u) == total_credits - Cardinality(claims(p, u))

\* Mutants: one credit too many is lent; a reservation is not used.
tryGetCreditOneMore(p, u, s) == u[s.stream_id] < s.reserved_credits \/ available(p, u) >= 0
tryGetCreditCommon(p, u, s) == available(p, u) > 0

tryGetCredit(p, u, s) == u[s.stream_id] < s.reserved_credits \/ available(p, u) > 0

-----------------------------------------------------------------------------
(* StreamProducer and StreamTrafficGenerator *)

\* createStream: a stream whose reservation fails uses up an id, no more.
createStream(p, packet_count, reserved) ==
    /\ next_stream_id[p] \in IdsOf(p)
    /\ next_stream_id' = [next_stream_id EXCEPT ![p] = @ + 1]
    /\ streams' = IF reserved > available(p, used[p]) THEN streams
                  ELSE [streams EXCEPT ![p] =
                           Append(@, [stream_id |-> next_stream_id[p],
                                      total_packets |-> packet_count, sent_count |-> 0,
                                      reserved_credits |-> reserved])]
    /\ Touches(FALSE)
    /\ UNCHANGED <<wires, used, link, processing, credit_port, taken, lost, deleted>>

\* Mutants: a sent packet is not counted; a refused one keeps its credit.
countedNot(s) == s
afterRefusalKeeps(st, i) ==
    [st EXCEPT !.dangling = TRUE, !.used[st.streams[i].stream_id] = @ + 1]

counted(s) == [s EXCEPT !.sent_count = @ + 1]

\* The credit goes back and the packet is deleted, which sendReq had done.
afterRefusal(st, i) == [st EXCEPT !.dangling = TRUE]

\* One round of the loop in tick, when rand() says so and there is a credit.
trySend(p, st, i) ==
    LET s == st.streams[i]
        l == st.link[s.stream_id]
        pkt == [producer |-> p, stream_id |-> s.stream_id, seq_num |-> s.sent_count]
    IN IF L!Accepted(l)
       THEN [st EXCEPT !.streams[i] = counted(@),
                       !.used[s.stream_id] = @ + 1,
                       !.link[s.stream_id] = L!Sent(@, pkt),
                       !.deleted = IF L!Deletes(l) > 0 THEN @ \cup {pkt} ELSE @]
       ELSE afterRefusal(st, i)

mayTry(p, st, i) ==
    LET s == st.streams[i]
    IN s.sent_count < s.total_packets /\ tryGetCredit(p, st.used, s)

round(p, chosen, st, i) == IF i \in chosen /\ mayTry(p, st, i) THEN trySend(p, st, i) ELSE st

\* What the loop finds.
found(p) == [streams |-> streams[p], used |-> used[p], link |-> link[p],
             deleted |-> deleted, dangling |-> FALSE]

\* tick; `chosen' are the streams for which rand() % 5 = 0.
tick(p, chosen) ==
    LET after[i \in 0 .. Len(streams[p])] ==
            IF i = 0 THEN found(p) ELSE round(p, chosen, after[i - 1], i)
        st == after[Len(streams[p])]
    IN /\ streams' = [streams EXCEPT ![p] = st.streams]
       /\ used' = [used EXCEPT ![p] = st.used]
       /\ link' = [link EXCEPT ![p] = st.link]
       /\ deleted' = st.deleted
       /\ Touches(st.dangling)
       /\ UNCHANGED <<wires, next_stream_id, processing, credit_port, taken, lost>>

\* DownstreamPort::tick.
portTick(p, id) == /\ L!Behind(link[p][id])
                   /\ link' = [link EXCEPT ![p][id] = L!Retried(@)]
                   /\ deleted' = deleted \cup {Head(link[p][id].out)}
                   /\ Touches(Head(link[p][id].out) \in deleted)
                   /\ UNCHANGED <<wires, next_stream_id, streams, used, processing, credit_port,
                                  taken, lost>>

\* UpstreamPort::tick with the handler of SimObject, the only one a producer
\* has for credits that come this way: the first is deleted again and again.
creditUnhandled == /\ credit_in > 0
                   /\ front_deleted' = TRUE
                   /\ Touches(front_deleted)
                   /\ UNCHANGED <<wires, next_stream_id, streams, used, link, processing,
                                  credit_in, taken, lost, deleted>>

-----------------------------------------------------------------------------
(* StreamConsumer *)

\* What it takes for a full buffer is the number of its ports.
full == Cardinality(UNION {{p} \X DOMAIN streams[p] : p \in Producers}) > PortLimit

\* UpstreamPort::tick with handleUpstreamRequest: the packet is deleted and
\* stays where it is, if the handler refuses it and if that of SimObject runs.
refuse(p, id) == LET l == link[p][id] IN
                 /\ l.in # << >>
                 /\ full \/ ~own_handlers
                 /\ deleted' = deleted \cup {Head(l.in)}
                 /\ Touches(Head(l.in) \in deleted)
                 /\ UNCHANGED <<wires, next_stream_id, streams, used, link, processing,
                                credit_port, taken, lost>>

accept(p, id) == LET l == link[p][id] IN
                 /\ l.in # << >>
                 /\ ~full /\ own_handlers
                 /\ link' = [link EXCEPT ![p][id] = L!Taken(@)]
                 /\ processing' = processing \cup {Head(l.in)}
                 /\ taken' = [taken EXCEPT ![p][id] = Append(@, Head(l.in).seq_num)]
                 /\ Touches(Head(l.in) \in deleted)
                 /\ UNCHANGED <<wires, next_stream_id, streams, used, credit_port, lost, deleted>>

\* The stream that gets the credit for a packet: one with the same number, of
\* the producer at port 0, whose handleDownstreamResponse returns it.
credited(pkt) ==
    IF wiring = "downstream" /\ own_handlers /\ used[credit_to][pkt.stream_id] > 0
    THEN {<<credit_to, pkt.stream_id>>} ELSE {}

\* The lambda, five cycles later.  A credit that does not reach the pool is
\* deleted on its way, leaked, or left in the producer's upstream port.
returnCredit(pkt) ==
    /\ pkt \in processing
    /\ processing' = processing \ {pkt}
    /\ used' = [p \in Producers |-> [id \in Ids |->
                   IF <<p, id>> \in credited(pkt) THEN used[p][id] - 1 ELSE used[p][id]]]
    /\ lost' = IF credited(pkt) = {} THEN [lost EXCEPT ![pkt.stream_id] = @ + 1] ELSE lost
    /\ credit_in' = IF wiring = "upstream" /\ credit_in < CreditIn THEN credit_in + 1
                    ELSE credit_in
    /\ Touches(pkt \in deleted)
    /\ UNCHANGED <<wires, next_stream_id, streams, link, front_deleted, taken, deleted>>

-----------------------------------------------------------------------------
Next == \/ \E p \in Producers :
              \/ \E n \in PacketCounts, r \in Reserves : createStream(p, n, r)
              \/ \E chosen \in SUBSET DOMAIN streams[p] : tick(p, chosen)
              \/ \E id \in IdsOf(p) : portTick(p, id) \/ refuse(p, id) \/ accept(p, id)
        \/ creditUnhandled
        \/ \E pkt \in processing : returnCredit(pkt)

Spec == Init /\ [][Next]_vars

\* rand() chooses every stream, and no other, again and again, the consumer ticks its ports
\* and the event queue runs.
Fairness ==
    /\ \A p \in Producers : \A i \in 1 .. MaxStreams[p] :
          WF_vars(i \in DOMAIN streams[p] /\ tick(p, {i}))
    /\ \A p \in Producers : \A id \in IdsOf(p) : WF_vars(accept(p, id))
    /\ WF_vars(\E pkt \in processing : returnCredit(pkt))

FairSpec == Spec /\ Fairness

-----------------------------------------------------------------------------
(* Properties *)

StreamIds(p) == {streams[p][i].stream_id : i \in DOMAIN streams[p]}
UnderWay(p, id) == Len(link[p][id].in) + Len(link[p][id].out)
                   + Cardinality({pkt \in processing : pkt.producer = p /\ pkt.stream_id = id})
Together(f) == Cardinality(UNION {{p} \X (1 .. f[p]) : p \in Producers})

\* Credits are neither made nor forgotten: over all producers, the streams
\* with one number use as many as they have packets under way and lost
\* credits, whatever was refused and to whomever the credits went
\* (StreamProducer::tick and handleDownstreamResponse, the lambda of
\* StreamConsumer::handleUpstreamRequest).
CreditsConserved ==
    \A id \in Ids :
        Together([p \in Producers |-> used[p][id]])
        = Together([p \in Producers |-> UnderWay(p, id)]) + lost[id]

\* A pool is never overdrawn: what its streams have reserved or use fits it,
\* though reservations are made while others use what is not reserved
\* (createStream between ticks).
PoolFits == \A p \in Producers : available(p, used[p]) >= 0

\* The consumer gets the packets of a stream in order, without a gap and
\* once, over refused packets whose number is used again
\* (StreamProducer::tick).
StreamInOrder ==
    \A p \in Producers, id \in Ids :
        taken[p][id] = [i \in 1 .. Len(taken[p][id]) |-> i - 1]

\* With the credits wired back to it a producer sends every packet of a stream
\* that has a reservation, unless its connection is closed by a full buffer,
\* the consumer has too many ports, or a deleted packet was reused.
Finished(p, i) ==
    i \in DOMAIN streams[p] => streams[p][i].sent_count = streams[p][i].total_packets
Exempt(p, i) ==
    \/ undefined \/ full \/ wiring # "downstream" \/ ~own_handlers
    \/ i \in DOMAIN streams[p] /\ streams[p][i].reserved_credits = 0
    \/ i \in DOMAIN streams[p] /\ L!Behind(link[p][streams[p][i].stream_id])
ReservedStreamsFinish ==
    \A i \in 1 .. MaxStreams[credit_to] : []<>(Finished(credit_to, i) \/ Exempt(credit_to, i))
=============================================================================
