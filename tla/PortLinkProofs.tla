--------------------------- MODULE PortLinkProofs ---------------------------
(***************************************************************************)
(* Proofs, for every number of virtual channels at either end and every    *)
(* choice of capacities, of the ordering and backpressure properties of    *)
(* PortLink.tla and of its refinement of GaplessChannel.tla.               *)
(*                                                                         *)
(* The argument: what has arrived on a channel is a run of consecutive     *)
(* packets, and while the output buffer is empty (and the program still    *)
(* defined) that run reaches up to the last packet submitted, so the next  *)
(* direct send continues it.  A send that misses the receiver leaves the   *)
(* output buffer non-empty, or the behaviour undefined, or was made before *)
(* anything arrived; and a non-empty output buffer stays so.               *)
(***************************************************************************)
EXTENDS PortLink, SequenceTheorems, SequenceFacts, TLAPS

-----------------------------------------------------------------------------
(* Sequences *)

\* What has arrived after one more packet is appended to the input buffer.
LEMMA ConcatAppend ==
    ASSUME NEW h \in Seq(Packet), NEW q \in Seq(Packet), NEW p \in Packet
    PROVE  h \o Append(q, p) = Append(h \o q, p)
  <1>1. Append(q, p) = q \o <<p>> /\ <<p>> \in Seq(Packet)
    BY AppendIsConcat
  <1>2. h \o q \in Seq(Packet)
    BY ConcatProperties
  <1>3. Append(h \o q, p) = (h \o q) \o <<p>>
    BY <1>2, AppendIsConcat
  <1>4. (h \o q) \o <<p>> = h \o (q \o <<p>>)
    BY <1>1, ConcatAssociative
  <1>. QED
    BY <1>1, <1>3, <1>4

\* What trySend does to an output buffer: its packets stay, so it is empty
\* afterwards exactly when it was before.
LEMMA TrySendProperties ==
    ASSUME NEW S, NEW q \in Seq(S), NEW cap \in Nat, Len(q) <= cap
    PROVE  /\ trySend(q, cap) \in Seq(S)
           /\ Len(trySend(q, cap)) = Len(q)
           /\ trySend(q, cap) = << >> <=> q = << >>
  <1>1. CASE q # << >> /\ Len(q) < cap
    <2>1. Head(q) \in S /\ Tail(q) \in Seq(S) /\ Len(Tail(q)) = Len(q) - 1 /\ Len(q) \in Nat
      BY <1>1, HeadTailProperties, EmptySeq
    <2>2. /\ Append(Tail(q), Head(q)) \in Seq(S)
          /\ Append(Tail(q), Head(q)) # << >>
          /\ Len(Append(Tail(q), Head(q))) = Len(Tail(q)) + 1
      BY <2>1, AppendProperties
    <2>. QED
      BY <1>1, <2>1, <2>2 DEF trySend
  <1>2. CASE ~(q # << >> /\ Len(q) < cap)
    BY <1>2 DEF trySend
  <1>. QED
    BY <1>1, <1>2

-----------------------------------------------------------------------------
(* Type correctness, action by action *)

LEMMA FreshType ==
    ASSUME TypeOK, NEW v \in VcIds
    PROVE  fresh(v) \in Packet
  BY DEF TypeOK, fresh, Packet

\* A channel's counters stay counters when one or two of them are incremented.
LEMMA OutStatsType ==
    ASSUME NEW s \in OutStats
    PROVE  /\ [s EXCEPT !.enqueued = s.enqueued + 1] \in OutStats
           /\ [s EXCEPT !.dropped = s.dropped + 1] \in OutStats
           /\ [s EXCEPT !.enqueued = s.enqueued + 1, !.forwarded = s.forwarded + 1] \in OutStats
  <1>1. s.enqueued + 1 \in Nat /\ s.dropped + 1 \in Nat /\ s.forwarded + 1 \in Nat
    BY DEF OutStats
  <1>. QED
    BY <1>1 DEF OutStats

LEMMA InStatsType ==
    ASSUME NEW s \in InStats
    PROVE  /\ [s EXCEPT !.enqueued = s.enqueued + 1] \in InStats
           /\ [s EXCEPT !.dropped = s.dropped + 1] \in InStats
           /\ [s EXCEPT !.processed = s.processed + 1] \in InStats
           /\ [s EXCEPT !.enqueued = s.enqueued + 1].dropped = s.dropped
           /\ [s EXCEPT !.processed = s.processed + 1].dropped = s.dropped
           /\ [s EXCEPT !.dropped = s.dropped + 1].enqueued = s.enqueued
           /\ [s EXCEPT !.dropped = s.dropped + 1].dropped = s.dropped + 1
           /\ [s EXCEPT !.processed = s.processed + 1].enqueued = s.enqueued
  <1>1. s.enqueued + 1 \in Nat /\ s.dropped + 1 \in Nat /\ s.processed + 1 \in Nat
    BY DEF InStats
  <1>. QED
    BY <1>1 DEF InStats

LEMMA SubmitType ==
    ASSUME TypeOK, NEW v \in VcIds, Submit(v)
    PROVE  /\ sent' \in [VcIds -> Nat] /\ bound' \in BOOLEAN
           /\ handled' \in [InVCs -> Seq(Packet)]
  BY DEF TypeOK, Submit

LEMMA CountRequestType ==
    ASSUME TypeOK, CountRequest
    PROVE  req_count' \in [{"master", "slave"} -> Nat]
  BY DEF TypeOK, CountRequest

LEMMA enqueueOutType ==
    ASSUME TypeOK, NEW v \in OutVCs, NEW p \in Packet, enqueueOut(v, p)
    PROVE  /\ output_vcs' \in [OutVCs -> Seq(Packet)]
           /\ \A u \in OutVCs : Len(output_vcs'[u]) <= OutCapacity[u]
           /\ out_stats' \in [OutVCs -> OutStats]
           /\ output_vcs'[v] # << >>
           /\ \A u \in OutVCs \ {v} : output_vcs'[u] = output_vcs[u]
  <1>1. output_vcs \in [OutVCs -> Seq(Packet)] /\ out_stats \in [OutVCs -> OutStats]
    BY DEF TypeOK
  <1>2. /\ Append(output_vcs[v], p) \in Seq(Packet)
        /\ Append(output_vcs[v], p) # << >>
        /\ Len(Append(output_vcs[v], p)) = Len(output_vcs[v]) + 1
    BY <1>1, AppendProperties
  <1>3. OutCapacity[v] \in Nat /\ Len(output_vcs[v]) \in Nat /\ Len(output_vcs[v]) < OutCapacity[v]
    BY <1>1, ChannelsAssumption DEF enqueueOut
  <1>4. output_vcs' = [output_vcs EXCEPT ![v] = Append(output_vcs[v], p)]
    BY DEF enqueueOut
  <1>5. out_stats' \in [OutVCs -> OutStats]
    <2>1. [out_stats[v] EXCEPT !.enqueued = out_stats[v].enqueued + 1] \in OutStats
      BY <1>1, OutStatsType
    <2>. QED
      BY <1>1, <2>1 DEF enqueueOut
  <1>6. \A u \in OutVCs : Len(output_vcs'[u]) <= OutCapacity[u]
    BY <1>1, <1>2, <1>3, <1>4 DEF TypeOK
  <1>. QED
    BY <1>1, <1>2, <1>4, <1>5, <1>6

LEMMA dropOutType ==
    ASSUME TypeOK, NEW v \in OutVCs, dropOut(v)
    PROVE  /\ output_vcs' = output_vcs
           /\ out_stats' \in [OutVCs -> OutStats]
  <1>1. out_stats \in [OutVCs -> OutStats]
    BY DEF TypeOK
  <1>2. [out_stats[v] EXCEPT !.dropped = out_stats[v].dropped + 1] \in OutStats
    BY <1>1, OutStatsType
  <1>. QED
    BY <1>1, <1>2 DEF dropOut

LEMMA RefusedType ==
    ASSUME TypeOK, NEW v \in VcIds, Refused(v)
    PROVE  /\ input_vcs' = input_vcs
           /\ in_stats' \in [InVCs -> InStats]
  <1>1. in_stats \in [InVCs -> InStats]
    BY DEF TypeOK
  <1>2. v \in InVCs =>
          [in_stats[v] EXCEPT !.dropped = in_stats[v].dropped + 1] \in InStats
    BY <1>1, InStatsType
  <1>. QED
    BY <1>1, <1>2 DEF Refused

LEMMA sendReqType ==
    ASSUME TypeOK, NEW v \in VcIds, sendReq(v)
    PROVE  TypeOK'
  <1>. USE FreshType, SubmitType
  <1>1. CASE SendInvalid(v)
    BY <1>1, BoundsAssumption DEF TypeOK, SendInvalid, ReturnFalse, stats
  <1>2. CASE SendBehind(v)
    BY <1>2, enqueueOutType DEF TypeOK, SendBehind
  <1>3. CASE SendOverflow(v)
    BY <1>3, dropOutType, BoundsAssumption DEF TypeOK, SendOverflow, ReturnFalse
  <1>4. CASE SendDirect(v)
    <2>1. v \in InVCs /\ Len(input_vcs[v]) < InCapacity[v] /\ InCapacity[v] \in Nat
      BY <1>4, ChannelsAssumption DEF SendDirect, PeerAccepts
    <2>2. /\ Append(input_vcs[v], fresh(v)) \in Seq(Packet)
          /\ Len(Append(input_vcs[v], fresh(v))) = Len(input_vcs[v]) + 1
          /\ Len(input_vcs[v]) \in Nat
      BY <2>1, AppendProperties, LenProperties DEF TypeOK
    <2>3. /\ input_vcs' \in [InVCs -> Seq(Packet)]
          /\ \A u \in InVCs : Len(input_vcs'[u]) <= InCapacity[u]
      <3>1. PICK q : q = Append(input_vcs[v], fresh(v))
        OBVIOUS
      <3>2. q \in Seq(Packet) /\ Len(q) <= InCapacity[v]
        BY <2>1, <2>2, <3>1
      <3>3. /\ input_vcs' = [input_vcs EXCEPT ![v] = q]
            /\ input_vcs \in [InVCs -> Seq(Packet)]
            /\ \A u \in InVCs : Len(input_vcs[u]) <= InCapacity[u]
        BY <1>4, <3>1 DEF TypeOK, SendDirect
      <3>. QED
        BY <2>1, <3>2, <3>3
    <2>4. in_stats' \in [InVCs -> InStats]
      <3>1. in_stats \in [InVCs -> InStats]
        BY DEF TypeOK
      <3>2. [in_stats[v] EXCEPT !.enqueued = in_stats[v].enqueued + 1] \in InStats
        BY <2>1, <3>1, InStatsType
      <3>. QED
        BY <1>4, <3>1, <3>2 DEF SendDirect
    <2>. QED
      BY <1>4, <2>3, <2>4, CountRequestType DEF TypeOK, SendDirect
  <1>5. CASE SendBuffered(v)
    <2>1. v \in OutVCs /\ Refused(v) /\ Submit(v) /\ CountRequest
      BY <1>5 DEF SendBuffered, Refused
    <2>. QED
      BY <1>5, <2>1, RefusedType, CountRequestType, enqueueOutType DEF TypeOK, SendBuffered
  <1>6. CASE SendUnbuffered(v)
    <2>1. v \in OutVCs /\ Refused(v) /\ Submit(v) /\ CountRequest
      BY <1>6 DEF SendUnbuffered, Refused
    <2>2. undefined' \in BOOLEAN
      BY <1>6, BoundsAssumption DEF SendUnbuffered
    <2>. QED
      BY <1>6, <2>1, <2>2, RefusedType, CountRequestType, dropOutType DEF TypeOK, SendUnbuffered
  <1>. QED
    BY <1>1, <1>2, <1>3, <1>4, <1>5, <1>6 DEF sendReq

LEMMA HeadsType ==
    ASSUME NEW V, NEW buffers \in [V -> Seq(Packet)]
    PROVE  /\ Heads(buffers) \subseteq Packet
           /\ Waiting(buffers) \subseteq V
           /\ \A v \in Waiting(buffers) : Head(buffers[v]) \in Packet
  <1>1. \A v \in Waiting(buffers) : v \in V /\ buffers[v] \in Seq(Packet) /\ buffers[v] # << >>
    BY DEF Waiting
  <1>2. \A v \in Waiting(buffers) : Head(buffers[v]) \in Packet
    BY <1>1, HeadTailProperties
  <1>. QED
    BY <1>1, <1>2 DEF Heads

LEMMA DownstreamTickType ==
    ASSUME TypeOK, DownstreamTick
    PROVE  /\ TypeOK'
           /\ \A v \in OutVCs : output_vcs'[v] = << >> <=> output_vcs[v] = << >>
  <1>1. ASSUME NEW v \in OutVCs
        PROVE  /\ output_vcs'[v] \in Seq(Packet)
               /\ Len(output_vcs'[v]) = Len(output_vcs[v])
               /\ output_vcs'[v] = << >> <=> output_vcs[v] = << >>
    <2>1. output_vcs'[v] = trySend(output_vcs[v], OutCapacity[v])
      BY DEF DownstreamTick
    <2>2. output_vcs[v] \in Seq(Packet) /\ OutCapacity[v] \in Nat
          /\ Len(output_vcs[v]) <= OutCapacity[v]
      BY ChannelsAssumption DEF TypeOK
    <2>. QED
      BY <2>1, <2>2, TrySendProperties
  <1>2. /\ output_vcs' \in [OutVCs -> Seq(Packet)]
        /\ \A v \in OutVCs : Len(output_vcs'[v]) <= OutCapacity[v]
    BY <1>1 DEF TypeOK, DownstreamTick
  <1>3. out_stats' \in [OutVCs -> OutStats]
    <2>1. ASSUME NEW v \in OutVCs
          PROVE  /\ [out_stats[v] EXCEPT !.dropped = @ + 1] \in OutStats
                 /\ [out_stats[v] EXCEPT !.enqueued = @ + 1, !.forwarded = @ + 1] \in OutStats
                 /\ out_stats[v] \in OutStats
      BY OutStatsType DEF TypeOK
    <2>. QED
      BY <2>1 DEF DownstreamTick
  <1>4. deleted' \subseteq Packet
    BY HeadsType DEF TypeOK, DownstreamTick
  <1>. QED
    BY <1>1, <1>2, <1>3, <1>4 DEF TypeOK, DownstreamTick

LEMMA UpstreamTickType ==
    ASSUME TypeOK, NEW accepted \in SUBSET Waiting(input_vcs), UpstreamTick(accepted)
    PROVE  TypeOK'
  <1>1. ASSUME NEW v \in accepted
        PROVE  /\ v \in InVCs /\ input_vcs[v] # << >>
               /\ Head(input_vcs[v]) \in Packet /\ Tail(input_vcs[v]) \in Seq(Packet)
               /\ Len(Tail(input_vcs[v])) <= InCapacity[v]
               /\ Append(handled[v], Head(input_vcs[v])) \in Seq(Packet)
    <2>1. v \in InVCs /\ input_vcs[v] # << >> /\ input_vcs[v] \in Seq(Packet)
          /\ handled[v] \in Seq(Packet) /\ InCapacity[v] \in Nat
          /\ Len(input_vcs[v]) <= InCapacity[v]
      BY ChannelsAssumption DEF TypeOK, Waiting
    <2>2. Head(input_vcs[v]) \in Packet /\ Tail(input_vcs[v]) \in Seq(Packet)
          /\ Len(Tail(input_vcs[v])) = Len(input_vcs[v]) - 1 /\ Len(input_vcs[v]) \in Nat
      BY <2>1, HeadTailProperties, LenProperties
    <2>. QED
      BY <2>1, <2>2, AppendProperties
  <1>2. /\ input_vcs' \in [InVCs -> Seq(Packet)]
        /\ \A v \in InVCs : Len(input_vcs'[v]) <= InCapacity[v]
    <2>1. input_vcs' = [v \in InVCs |-> IF v \in accepted THEN Tail(input_vcs[v])
                                                            ELSE input_vcs[v]]
      BY DEF UpstreamTick
    <2>2. \A v \in InVCs : input_vcs[v] \in Seq(Packet) /\ Len(input_vcs[v]) <= InCapacity[v]
      BY DEF TypeOK
    <2>. QED
      BY <1>1, <2>1, <2>2
  <1>3. handled' \in [InVCs -> Seq(Packet)]
    <2>1. handled' = [v \in InVCs |-> IF v \in accepted
                                      THEN Append(handled[v], Head(input_vcs[v]))
                                      ELSE handled[v]]
      BY DEF UpstreamTick
    <2>2. \A v \in InVCs : handled[v] \in Seq(Packet)
      BY DEF TypeOK
    <2>. QED
      BY <1>1, <2>1, <2>2
  <1>4. in_stats' \in [InVCs -> InStats]
    <2>1. ASSUME NEW v \in InVCs
          PROVE  /\ [in_stats[v] EXCEPT !.processed = @ + 1] \in InStats
                 /\ in_stats[v] \in InStats
      BY InStatsType DEF TypeOK
    <2>. QED
      BY <2>1 DEF UpstreamTick
  <1>5. deleted' \subseteq Packet
    <2>1. \A v \in Waiting(input_vcs) : Head(input_vcs[v]) \in Packet
      BY HeadsType DEF TypeOK
    <2>2. deleted' = deleted \cup {Head(input_vcs[v]) : v \in Waiting(input_vcs) \ accepted}
      BY DEF UpstreamTick
    <2>. QED
      BY <2>1, <2>2 DEF TypeOK
  <1>6. UNCHANGED <<bound, output_vcs, out_stats, req_count, sent, undefined>>
    BY DEF UpstreamTick
  <1>. QED
    BY <1>2, <1>3, <1>4, <1>5, <1>6 DEF TypeOK

LEMMA InitTypeOK == Init => TypeOK
  <1>. SUFFICES ASSUME Init PROVE TypeOK
    OBVIOUS
  <1>1. << >> \in Seq(Packet) /\ Len(<< >>) = 0
    BY EmptySeq
  <1>2. /\ output_vcs \in [OutVCs -> Seq(Packet)]
        /\ input_vcs \in [InVCs -> Seq(Packet)]
        /\ handled \in [InVCs -> Seq(Packet)]
        /\ \A v \in OutVCs : Len(output_vcs[v]) <= OutCapacity[v]
        /\ \A v \in InVCs : Len(input_vcs[v]) <= InCapacity[v]
    BY <1>1, ChannelsAssumption DEF Init
  <1>3. /\ out_stats \in [OutVCs -> OutStats]
        /\ in_stats \in [InVCs -> InStats]
    BY DEF Init, OutStats, InStats
  <1>4. req_count \in [{"master", "slave"} -> Nat]
    BY DEF Init
  <1>. QED
    BY <1>2, <1>3, <1>4 DEF Init, TypeOK

LEMMA NextTypeOK == TypeOK /\ [Next]_vars => TypeOK'
  <1>. SUFFICES ASSUME TypeOK, [Next]_vars PROVE TypeOK'
    OBVIOUS
  <1>1. CASE Bind
    BY <1>1 DEF TypeOK, Bind, queues, stats
  <1>2. CASE \E v \in VcIds : sendReq(v)
    BY <1>2, sendReqType
  <1>3. CASE DownstreamTick
    BY <1>3, DownstreamTickType
  <1>4. CASE \E accepted \in SUBSET Waiting(input_vcs) : UpstreamTick(accepted)
    BY <1>4, UpstreamTickType
  <1>5. CASE TouchDeleted(output_vcs) \/ TouchDeleted(input_vcs)
    BY <1>5 DEF TypeOK, TouchDeleted, queues, stats
  <1>6. CASE UNCHANGED vars
    BY <1>6 DEF TypeOK, vars, queues, stats
  <1>. QED
    BY <1>1, <1>2, <1>3, <1>4, <1>5, <1>6 DEF Next

\* Every state is well typed; no buffer holds more than its capacity.
THEOREM TypeCorrect == Spec => []TypeOK
  BY InitTypeOK, NextTypeOK, PTL DEF Spec

-----------------------------------------------------------------------------
(* What a step does to one virtual channel of the receiver *)

Direct(v) == /\ v \in OutVCs /\ bound /\ bound' = bound /\ ~undefined
             /\ output_vcs[v] = << >> /\ output_vcs'[v] = << >>
             /\ sent'[v] = sent[v] + 1
             /\ Arrived(v)' = Append(Arrived(v), fresh(v))

Missed(v) == /\ bound' = bound
             /\ Arrived(v)' = Arrived(v)
             /\ v \in OutVCs => \/ output_vcs'[v] # << >>
                                \/ OutCapacity[v] = 0 /\ (bound => undefined')

Untouched(v) == /\ bound => bound'
                /\ undefined => undefined'
                /\ Arrived(v)' = Arrived(v)
                /\ sent'[v] = sent[v]
                /\ v \in OutVCs => (output_vcs'[v] = << >> <=> output_vcs[v] = << >>)

LEMMA ArrivedType ==
    ASSUME TypeOK, NEW v \in InVCs
    PROVE  Arrived(v) \in Seq(Packet)
  BY ConcatProperties DEF TypeOK, Arrived

\* A sendReq on channel u leaves every other channel alone.
LEMMA OtherChannel ==
    ASSUME TypeOK, NEW u \in VcIds, sendReq(u), NEW v \in InVCs, v # u
    PROVE  Untouched(v)
  <1>. USE ChannelsAssumption
  <1>1. /\ ~undefined
        /\ bound' = bound /\ handled' = handled /\ sent'[v] = sent[v]
    BY DEF sendReq, SendInvalid, SendBehind, SendOverflow, SendDirect, SendBuffered,
           SendUnbuffered, Refused, Submit, TypeOK
  <1>2. input_vcs'[v] = input_vcs[v]
    BY DEF sendReq, SendInvalid, SendBehind, SendOverflow, SendDirect, SendBuffered,
           SendUnbuffered, Refused, TypeOK
  <1>3. v \in OutVCs => output_vcs'[v] = output_vcs[v]
    BY DEF sendReq, SendInvalid, SendBehind, SendOverflow, SendDirect, SendBuffered,
           SendUnbuffered, enqueueOut, dropOut, TypeOK
  <1>. QED
    BY <1>1, <1>2, <1>3 DEF Untouched, Arrived

\* A sendReq that is not a direct send misses the receiver.
LEMMA OwnMissed ==
    ASSUME TypeOK, NEW v \in InVCs, sendReq(v), ~SendDirect(v)
    PROVE  Missed(v)
  <1>. USE ChannelsAssumption
  <1>1. bound' = bound /\ handled' = handled /\ input_vcs' = input_vcs
    BY DEF sendReq, SendInvalid, SendBehind, SendOverflow, SendBuffered,
           SendUnbuffered, Refused, Submit
  <1>2. CASE SendInvalid(v)
    BY <1>1, <1>2 DEF Missed, Arrived, SendInvalid
  <1>3. CASE SendBehind(v) \/ SendBuffered(v)
    <2>1. output_vcs'[v] # << >>
      BY <1>3, enqueueOutType, FreshType DEF SendBehind, SendBuffered, Refused
    <2>. QED
      BY <1>1, <2>1 DEF Missed, Arrived
  <1>4. CASE SendOverflow(v)
    BY <1>1, <1>4 DEF Missed, Arrived, SendOverflow, dropOut
  <1>5. CASE SendUnbuffered(v)
    <2>1. v \in OutVCs /\ output_vcs[v] = << >> /\ Len(output_vcs[v]) >= OutCapacity[v]
      BY <1>5 DEF SendUnbuffered, Refused, dropOut
    <2>2. OutCapacity[v] = 0
      BY <2>1, EmptySeq
    <2>3. bound => undefined'
      BY <1>5 DEF SendUnbuffered
    <2>. QED
      BY <1>1, <2>2, <2>3 DEF Missed, Arrived
  <1>. QED
    BY <1>2, <1>3, <1>4, <1>5 DEF sendReq

LEMMA OwnDirect ==
    ASSUME TypeOK, NEW v \in InVCs, SendDirect(v)
    PROVE  Direct(v)
  <1>1. /\ input_vcs[v] \in Seq(Packet) /\ handled[v] \in Seq(Packet)
        /\ fresh(v) \in Packet /\ v \in OutVCs
    BY FreshType, ChannelsAssumption DEF TypeOK, SendDirect
  <1>2. /\ input_vcs'[v] = Append(input_vcs[v], fresh(v)) /\ handled' = handled
        /\ sent'[v] = sent[v] + 1
    BY ChannelsAssumption DEF TypeOK, SendDirect, Submit
  <1>3. Arrived(v)' = Append(Arrived(v), fresh(v))
    <2>1. handled[v] \o Append(input_vcs[v], fresh(v))
            = Append(handled[v] \o input_vcs[v], fresh(v))
      BY <1>1, ConcatAppend
    <2>2. Arrived(v)' = handled'[v] \o input_vcs'[v]
      BY DEF Arrived
    <2>. QED
      BY <1>2, <2>1, <2>2 DEF Arrived
  <1>4. /\ bound /\ bound' = bound /\ ~undefined
        /\ output_vcs[v] = << >> /\ output_vcs' = output_vcs
    BY DEF SendDirect, Submit, PeerAccepts
  <1>. QED
    BY <1>1, <1>2, <1>3, <1>4 DEF Direct

\* An accepted packet moves from the input buffer to the handled ones.
LEMMA TickArrived ==
    ASSUME TypeOK, NEW v \in InVCs,
           NEW accepted \in SUBSET Waiting(input_vcs), UpstreamTick(accepted)
    PROVE  Untouched(v)
  <1>1. handled[v] \in Seq(Packet) /\ input_vcs[v] \in Seq(Packet)
    BY DEF TypeOK
  <1>2. v \in accepted => input_vcs[v] # << >>
    BY DEF Waiting
  <1>3. /\ input_vcs'[v] = IF v \in accepted THEN Tail(input_vcs[v]) ELSE input_vcs[v]
        /\ handled'[v] = IF v \in accepted THEN Append(handled[v], Head(input_vcs[v]))
                                           ELSE handled[v]
    BY DEF UpstreamTick
  <1>4. Arrived(v)' = Arrived(v)
    BY <1>1, <1>2, <1>3, ConcatMoves DEF Arrived
  <1>. QED
    BY <1>4 DEF Untouched, UpstreamTick

LEMMA ChannelStep ==
    ASSUME TypeOK, [Next]_vars, NEW v \in InVCs
    PROVE  Direct(v) \/ Missed(v) \/ Untouched(v)
  <1>1. CASE Bind
    BY <1>1 DEF Bind, queues, Untouched, Arrived
  <1>2. CASE \E u \in VcIds : sendReq(u)
    BY <1>2, OwnDirect, OwnMissed, OtherChannel
  <1>3. CASE DownstreamTick
    BY <1>3, DownstreamTickType DEF DownstreamTick, Untouched, Arrived
  <1>4. CASE \E accepted \in SUBSET Waiting(input_vcs) : UpstreamTick(accepted)
    BY <1>4, TickArrived
  <1>5. CASE TouchDeleted(output_vcs) \/ TouchDeleted(input_vcs)
    BY <1>5 DEF TouchDeleted, queues, Untouched, Arrived
  <1>6. CASE UNCHANGED vars
    BY <1>6 DEF vars, queues, Untouched, Arrived
  <1>. QED
    BY <1>1, <1>2, <1>3, <1>4, <1>5, <1>6 DEF Next

-----------------------------------------------------------------------------
(* No gap *)

\* The inductive invariant of one channel.  Its third conjunct is what makes
\* the next direct send continue the line; the last makes the first arrival
\* the first submission.
Line(v) ==
    LET q == Arrived(v)
        empty == output_vcs[v] = << >>
    IN /\ \A i \in 1 .. Len(q) - 1 : q[i + 1].seq_num = q[i].seq_num + 1
       /\ q # << >> => bound /\ v \in OutVCs
       /\ v \in OutVCs /\ ~undefined /\ empty /\ q # << >> => q[Len(q)].seq_num = sent[v]
       /\ v \in OutVCs /\ OutCapacity[v] > 0 /\ q # << >> => q[1].seq_num = 1
       /\ v \in OutVCs /\ OutCapacity[v] > 0 /\ empty /\ q = << >> => sent[v] = 0

LineInv == TypeOK /\ \A v \in InVCs : Line(v)

LEMMA DirectLine ==
    ASSUME TypeOK, NEW v \in InVCs, Line(v), Direct(v)
    PROVE  Line(v)'
  <1>. DEFINE q == Arrived(v)
              n == Len(q)
              r == Append(q, fresh(v))
  <1>1. /\ q \in Seq(Packet) /\ n \in Nat /\ v \in VcIds /\ sent[v] \in Nat
        /\ fresh(v) \in Packet /\ fresh(v).seq_num = sent[v] + 1
        /\ (q # << >> => n > 0) /\ (q = << >> => n = 0)
    BY ArrivedType, FreshType, LenProperties, EmptySeq, ChannelsAssumption DEF TypeOK, fresh
  <1>2. /\ r # << >> /\ Len(r) = n + 1 /\ r[n + 1] = fresh(v)
        /\ \A i \in 1 .. n : r[i] = q[i]
    BY <1>1, AppendProperties
  <1>3. Arrived(v)' = r /\ sent'[v] = sent[v] + 1 /\ v \in OutVCs /\ ~undefined
        /\ output_vcs[v] = << >> /\ bound'
    BY DEF Direct
  <1>4. /\ \A i \in 1 .. n - 1 : q[i + 1].seq_num = q[i].seq_num + 1
        /\ q # << >> => q[n].seq_num = sent[v]
        /\ OutCapacity[v] > 0 /\ q # << >> => q[1].seq_num = 1
        /\ OutCapacity[v] > 0 /\ q = << >> => sent[v] = 0
    BY <1>3 DEF Line
  <1>. HIDE DEF q, n, r
  <1>5. ASSUME NEW i \in 1 .. Len(r) - 1
        PROVE  r[i + 1].seq_num = r[i].seq_num + 1
    <2>1. CASE i < n
      <3>1. i \in 1 .. n - 1 /\ r[i] = q[i] /\ r[i + 1] = q[i + 1]
        BY <2>1, <1>1, <1>2
      <3>. QED
        BY <3>1, <1>4
    <2>2. CASE i = n
      <3>1. q # << >> /\ r[i] = q[n] /\ r[i + 1] = fresh(v)
        BY <2>2, <1>1, <1>2
      <3>. QED
        BY <3>1, <1>1, <1>4
    <2>. QED
      BY <2>1, <2>2, <1>1, <1>2
  <1>6. r[Len(r)].seq_num = sent'[v]
    BY <1>1, <1>2, <1>3
  <1>7. OutCapacity[v] > 0 => r[1].seq_num = 1
    <2>1. CASE q = << >>
      BY <2>1, <1>1, <1>2, <1>4
    <2>2. CASE q # << >>
      <3>1. r[1] = q[1]
        BY <2>2, <1>1, <1>2
      <3>. QED
        BY <2>2, <3>1, <1>4
    <2>. QED
      BY <2>1, <2>2
  <1>. QED
    BY <1>2, <1>3, <1>5, <1>6, <1>7 DEF Line

LEMMA LineStep == LineInv /\ [Next]_vars => LineInv'
  <1>. SUFFICES ASSUME LineInv, [Next]_vars PROVE LineInv'
    OBVIOUS
  <1>1. TypeOK /\ TypeOK'
    BY NextTypeOK DEF LineInv
  <1>2. ASSUME NEW v \in InVCs
        PROVE  Line(v)'
    <2>1. Line(v) /\ TypeOK
      BY DEF LineInv
    <2>2. CASE Direct(v)
      BY <2>1, <2>2, DirectLine
    <2>3. CASE Missed(v)
      <3>1. /\ Arrived(v)' = Arrived(v) /\ bound' = bound
            /\ v \in OutVCs => \/ output_vcs'[v] # << >>
                               \/ OutCapacity[v] = 0 /\ (bound => undefined')
        BY <2>3 DEF Missed
      <3>2. OutCapacity[v] = 0 => ~(OutCapacity[v] > 0)
        OBVIOUS
      <3>. QED
        BY <2>1, <3>1, <3>2 DEF Line
    <2>4. CASE Untouched(v)
      BY <2>1, <2>4 DEF Line, Untouched
    <2>. QED
      BY <1>1, <2>2, <2>3, <2>4, ChannelStep
  <1>. QED
    BY <1>1, <1>2 DEF LineInv

LEMMA LineInit == Init => LineInv
  <1>. SUFFICES ASSUME Init PROVE LineInv
    OBVIOUS
  <1>1. ASSUME NEW v \in InVCs
        PROVE  Line(v)
    <2>1. handled[v] = << >> /\ input_vcs[v] = << >> /\ sent[v] = 0
      BY ChannelsAssumption DEF Init
    <2>2. << >> \in Seq(Packet) /\ Len(<< >>) = 0
      BY EmptySeq
    <2>3. Arrived(v) = << >>
      BY <2>1, <2>2, ConcatEmptySeq DEF Arrived
    <2>. QED
      BY <2>1, <2>2, <2>3 DEF Line
  <1>. QED
    BY <1>1, InitTypeOK DEF LineInv

LEMMA LineNoGap == LineInv => NoGap
  BY DEF LineInv, Line, NoGap

\* Packets reach the receiver in order and without a gap.
THEOREM PacketsWithoutGap == Spec => []NoGap
  BY LineInit, LineStep, LineNoGap, PTL DEF Spec

-----------------------------------------------------------------------------
(* A refused channel is closed *)

\* A refusal that is counted leaves the output buffer non-empty.
LEMMA RefusedStep == TypeOK /\ RefusedOnce /\ [Next]_vars => RefusedOnce'
  <1>. SUFFICES ASSUME TypeOK, RefusedOnce, [Next]_vars,
                       NEW v \in OutVCs \cap InVCs, OutCapacity[v] > 0
                PROVE  /\ in_stats'[v].dropped <= 1
                       /\ in_stats'[v].dropped = 1 => output_vcs'[v] # << >>
    BY DEF RefusedOnce
  <1>. DEFINE s == in_stats[v]
  <1>1. /\ s \in InStats /\ s.dropped \in Nat /\ s.dropped <= 1
        /\ s.dropped = 1 => output_vcs[v] # << >>
        /\ v \in VcIds /\ OutCapacity[v] \in Nat /\ in_stats \in [InVCs -> InStats]
    BY ChannelsAssumption DEF TypeOK, InStats, RefusedOnce
  <1>2. CASE Bind
    BY <1>1, <1>2 DEF Bind, queues, stats
  <1>3. ASSUME NEW u \in VcIds, sendReq(u)
        PROVE  /\ in_stats'[v].dropped <= 1
               /\ in_stats'[v].dropped = 1 => output_vcs'[v] # << >>
    <2>1. CASE v # u
      <3>1. output_vcs'[v] = << >> <=> output_vcs[v] = << >>
        BY <1>3, <2>1, OtherChannel DEF Untouched
      <3>2. in_stats'[v] = s
        BY <1>1, <1>3, <2>1 DEF sendReq, SendInvalid, SendBehind, SendOverflow, SendDirect,
             SendBuffered, SendUnbuffered, Refused, stats
      <3>. QED
        BY <1>1, <3>1, <3>2
    <2>2. CASE v = u /\ SendDirect(v)
      <3>1. in_stats'[v] = [s EXCEPT !.enqueued = s.enqueued + 1]
        BY <1>1, <2>2 DEF SendDirect
      <3>2. in_stats'[v].dropped = s.dropped
        BY <1>1, <3>1, InStatsType
      <3>. QED
        BY <1>1, <2>2, <3>2 DEF SendDirect
    <2>3. CASE v = u /\ ~SendDirect(v)
      <3>1. output_vcs'[v] # << >>
        <4>1. Missed(v)
          BY <1>3, <2>3, OwnMissed
        <4>. QED
          BY <4>1, <1>1 DEF Missed
      <3>2. CASE Refused(v)
        <4>1. s.dropped = 0
          BY <1>1, <3>2 DEF Refused
        <4>2. \/ in_stats'[v] = s
              \/ in_stats'[v] = [s EXCEPT !.dropped = s.dropped + 1]
          BY <1>1, <3>2 DEF Refused
        <4>3. [s EXCEPT !.dropped = s.dropped + 1].dropped = s.dropped + 1
          BY <1>1, InStatsType
        <4>4. in_stats'[v].dropped = s.dropped \/ in_stats'[v].dropped = s.dropped + 1
          BY <4>2, <4>3
        <4>. QED
          BY <3>1, <4>1, <4>4
      <3>3. CASE ~Refused(v)
        <4>1. in_stats'[v] = s
          BY <1>3, <2>3, <3>3 DEF sendReq, SendInvalid, SendBehind, SendOverflow,
               SendBuffered, SendUnbuffered, stats
        <4>. QED
          BY <1>1, <3>1, <4>1
      <3>. QED
        BY <3>2, <3>3
    <2>. QED
      BY <2>1, <2>2, <2>3
  <1>4. CASE DownstreamTick
    BY <1>1, <1>4, DownstreamTickType DEF DownstreamTick
  <1>5. ASSUME NEW accepted \in SUBSET Waiting(input_vcs), UpstreamTick(accepted)
        PROVE  /\ in_stats'[v].dropped <= 1
               /\ in_stats'[v].dropped = 1 => output_vcs'[v] # << >>
    <2>1. \/ in_stats'[v] = s
          \/ in_stats'[v] = [s EXCEPT !.processed = s.processed + 1]
      BY <1>5 DEF UpstreamTick
    <2>2. in_stats'[v].dropped = s.dropped
      BY <1>1, <2>1, InStatsType
    <2>. QED
      BY <1>1, <1>5, <2>2 DEF UpstreamTick
  <1>6. CASE TouchDeleted(output_vcs) \/ TouchDeleted(input_vcs)
    BY <1>1, <1>6 DEF TouchDeleted, queues, stats
  <1>7. CASE UNCHANGED vars
    BY <1>1, <1>7 DEF vars, queues, stats
  <1>. QED
    BY <1>2, <1>3, <1>4, <1>5, <1>6, <1>7 DEF Next

LEMMA RefusedInit == Init => RefusedOnce
  BY ChannelsAssumption DEF Init, RefusedOnce

\* The peer refuses a buffered channel at most once.
THEOREM RefusedAtMostOnce == Spec => []RefusedOnce
  <1>1. TypeOK /\ RefusedOnce /\ [Next]_vars => (TypeOK /\ RefusedOnce)'
    BY NextTypeOK, RefusedStep
  <1>. QED
    BY <1>1, InitTypeOK, RefusedInit, PTL DEF Spec

LEMMA ClosedStep ==
    ASSUME TypeOK, [Next]_vars, NEW v \in OutVCs, output_vcs[v] # << >>
    PROVE  /\ output_vcs'[v] # << >>
           /\ v \in InVCs => in_stats'[v].enqueued = in_stats[v].enqueued
  <1>. USE ChannelsAssumption
  <1>. DEFINE s == in_stats[v]
  <1>1. v \in InVCs => s \in InStats /\ in_stats \in [InVCs -> InStats]
    BY DEF TypeOK
  <1>2. CASE Bind
    BY <1>2 DEF Bind, queues, stats
  <1>3. ASSUME NEW u \in VcIds, sendReq(u)
        PROVE  /\ output_vcs'[v] # << >>
               /\ v \in InVCs => in_stats'[v].enqueued = in_stats[v].enqueued
    <2>1. output_vcs'[v] # << >>
      <3>1. CASE SendBehind(u) \/ SendBuffered(u)
        <4>1. u \in OutVCs /\ enqueueOut(u, fresh(u))
          BY <3>1 DEF SendBehind, SendBuffered, Refused
        <4>. QED
          BY <4>1, enqueueOutType, FreshType
      <3>2. CASE ~(SendBehind(u) \/ SendBuffered(u))
        BY <1>3, <3>2 DEF sendReq, SendInvalid, SendOverflow, SendDirect, SendUnbuffered,
             dropOut
      <3>. QED
        BY <3>1, <3>2
    <2>2. CASE v = u
      <3>1. SendInvalid(u) \/ SendBehind(u) \/ SendOverflow(u)
        BY <1>3, <2>2 DEF sendReq, SendDirect, SendBuffered, SendUnbuffered, Refused
      <3>2. in_stats' = in_stats
        BY <3>1 DEF SendInvalid, SendBehind, SendOverflow, stats
      <3>. QED
        BY <2>1, <3>2
    <2>3. CASE v # u /\ v \in InVCs
      <3>1. in_stats'[v] = s
        BY <1>1, <1>3, <2>3 DEF sendReq, SendInvalid, SendBehind, SendOverflow, SendDirect,
             SendBuffered, SendUnbuffered, Refused, stats
      <3>. QED
        BY <2>1, <3>1
    <2>. QED
      BY <2>1, <2>2, <2>3
  <1>4. CASE DownstreamTick
    BY <1>4, DownstreamTickType DEF DownstreamTick
  <1>5. ASSUME NEW accepted \in SUBSET Waiting(input_vcs), UpstreamTick(accepted)
        PROVE  /\ output_vcs'[v] # << >>
               /\ v \in InVCs => in_stats'[v].enqueued = in_stats[v].enqueued
    <2>1. v \in InVCs => \/ in_stats'[v] = s
                         \/ in_stats'[v] = [s EXCEPT !.processed = s.processed + 1]
      BY <1>5 DEF UpstreamTick
    <2>2. v \in InVCs => in_stats'[v].enqueued = s.enqueued
      BY <1>1, <2>1, InStatsType
    <2>. QED
      BY <1>5, <2>2 DEF UpstreamTick
  <1>6. CASE TouchDeleted(output_vcs) \/ TouchDeleted(input_vcs)
    BY <1>6 DEF TouchDeleted, queues, stats
  <1>7. CASE UNCHANGED vars
    BY <1>7 DEF vars, queues, stats
  <1>. QED
    BY <1>2, <1>3, <1>4, <1>5, <1>6, <1>7 DEF Next

\* A channel on which a packet waits is closed: its output buffer never
\* drains, and nothing reaches the receiver on it again.
THEOREM WaitingCloses == Spec => ClosedForGood
  <1>1. TypeOK /\ [Next]_vars =>
          [\A v \in OutVCs : output_vcs[v] # << >> =>
             /\ output_vcs'[v] # << >>
             /\ v \in InVCs => in_stats'[v].enqueued = in_stats[v].enqueued]_vars
    BY ClosedStep
  <1>. QED
    BY <1>1, InitTypeOK, NextTypeOK, PTL DEF Spec, ClosedForGood

-----------------------------------------------------------------------------
(* The link implements the gapless channel *)

\* The refinement mapping of `Abstract', under names the steps can use.
numbers(q) == [i \in 1 .. Len(q) |-> q[i].seq_num]
line == [v \in VcIds |-> IF v \in InVCs THEN numbers(Arrived(v)) ELSE << >>]
taken == [v \in VcIds |-> IF v \in InVCs THEN Len(handled[v]) ELSE 0]

LEMMA NumbersType ==
    ASSUME NEW q \in Seq(Packet)
    PROVE  /\ numbers(q) \in Seq(Nat)
           /\ Len(numbers(q)) = Len(q) /\ Len(q) \in Nat
           /\ \A i \in 1 .. Len(q) : q[i].seq_num \in Nat
  <1>1. Len(q) \in Nat /\ \A i \in 1 .. Len(q) : q[i] \in Packet
    BY LenProperties, ElementOfSeq
  <1>2. \A p \in Packet : p.seq_num \in Nat
    BY DEF Packet
  <1>3. numbers(q) \in [1 .. Len(q) -> Nat]
    BY <1>1, <1>2 DEF numbers
  <1>. QED
    BY <1>1, <1>2, <1>3

LEMMA NumbersAppend ==
    ASSUME NEW q \in Seq(Packet), NEW p \in Packet
    PROVE  numbers(Append(q, p)) = Append(numbers(q), p.seq_num)
  <1>. DEFINE n == Len(q)
  <1>1. n \in Nat /\ p.seq_num \in Nat
    BY NumbersType DEF Packet
  <1>3. numbers(q) \in Seq(Nat) /\ Len(numbers(q)) = n
    BY NumbersType
  <1>4. /\ Append(numbers(q), p.seq_num) \in Seq(Nat)
        /\ Len(Append(numbers(q), p.seq_num)) = n + 1
        /\ \A i \in 1 .. n : Append(numbers(q), p.seq_num)[i] = numbers(q)[i]
        /\ Append(numbers(q), p.seq_num)[n + 1] = p.seq_num
    BY <1>1, <1>3, AppendProperties
  <1>5. /\ Len(Append(q, p)) = n + 1
        /\ \A i \in 1 .. n : Append(q, p)[i] = q[i]
        /\ Append(q, p)[n + 1] = p
    BY <1>1, AppendProperties
  <1>6. \A i \in 1 .. n + 1 : Append(q, p)[i].seq_num = Append(numbers(q), p.seq_num)[i]
    <2>1. \A i \in 1 .. n : numbers(q)[i] = q[i].seq_num
      BY DEF numbers
    <2>. QED
      BY <1>1, <1>4, <1>5, <2>1
  <1>7. numbers(Append(q, p)) = [i \in 1 .. n + 1 |-> Append(numbers(q), p.seq_num)[i]]
    BY <1>5, <1>6 DEF numbers
  <1>8. Append(numbers(q), p.seq_num) = [i \in 1 .. n + 1 |-> Append(numbers(q), p.seq_num)[i]]
    BY <1>4, LenProperties
  <1>. QED
    BY <1>7, <1>8

\* A direct send is an arrival: the line is intact because nothing waits.
LEMMA DirectArrives ==
    ASSUME LineInv, NEW v \in VcIds, SendDirect(v)
    PROVE  Abstract!Arrive(v)
  <1>1. /\ TypeOK /\ v \in InVCs /\ v \in OutVCs /\ Line(v)
        /\ sent' = [sent EXCEPT ![v] = sent[v] + 1]
        /\ handled' = handled
        /\ \A u \in InVCs : u # v => input_vcs'[u] = input_vcs[u]
    BY DEF LineInv, TypeOK, SendDirect, PeerAccepts, Submit
  <1>. DEFINE q == Arrived(v)
  <1>2. /\ q \in Seq(Packet) /\ fresh(v) \in Packet /\ fresh(v).seq_num = sent[v] + 1
        /\ q # << >> => Len(q) \in 1 .. Len(q)
    BY <1>1, ArrivedType, FreshType, EmptySeq DEF fresh
  <1>3. Arrived(v)' = Append(q, fresh(v))
    BY <1>1, OwnDirect DEF Direct
  <1>4. numbers(Arrived(v))' = Append(numbers(q), sent[v] + 1)
    <2>1. numbers(Arrived(v))' = numbers(Arrived(v)')
      BY DEF numbers
    <2>. QED
      BY <1>2, <1>3, <2>1, NumbersAppend
  <1>5. \A u \in InVCs : u # v => Arrived(u)' = Arrived(u)
    BY <1>1 DEF Arrived
  <1>6. line' = [line EXCEPT ![v] = Append(line[v], sent[v] + 1)]
    <2>1. \A u \in InVCs : u # v => numbers(Arrived(u))' = numbers(Arrived(u))
      BY <1>5 DEF numbers
    <2>. QED
      BY <1>1, <1>4, <2>1 DEF line
  <1>7. taken' = taken
    BY <1>1 DEF taken
  <1>8. line[v] # << >> => line[v][Len(line[v])] = sent[v]
    <2>1. line[v] = numbers(q)
      BY <1>1 DEF line
    <2>2. q # << >> => q[Len(q)].seq_num = sent[v]
      BY <1>1 DEF Line, SendDirect, Submit
    <2>3. Len(q) \in Nat /\ (q = << >> => Len(q) = 0)
      BY <1>2, LenProperties, EmptySeq
    <2>5. numbers(q) \in Seq(Nat) /\ Len(numbers(q)) = Len(q)
      BY <1>2, NumbersType
    <2>6. numbers(q) # << >> => q # << >>
      <3>1. numbers(q) # << >> => Len(numbers(q)) # 0
        BY <2>5, EmptySeq
      <3>. QED
        BY <2>3, <2>5, <3>1
    <2>7. q # << >> => numbers(q)[Len(q)] = q[Len(q)].seq_num
      BY <1>2 DEF numbers
    <2>. QED
      BY <2>1, <2>2, <2>5, <2>6, <2>7
  <1>. QED
    BY <1>1, <1>6, <1>7, <1>8
       DEF Abstract!Arrive, Abstract!Intact, line, taken, numbers

LEMMA OtherSendMisses ==
    ASSUME NEW v \in VcIds, sendReq(v), ~SendDirect(v)
    PROVE  Abstract!Miss(v)
  <1>1. input_vcs' = input_vcs /\ handled' = handled
    BY DEF sendReq, SendInvalid, SendBehind, SendOverflow, SendBuffered,
           SendUnbuffered, Refused, Submit
  <1>2. sent' = [sent EXCEPT ![v] = sent[v] + 1]
    BY DEF sendReq, SendInvalid, SendBehind, SendOverflow, SendBuffered,
           SendUnbuffered, Refused, Submit
  <1>3. line' = line /\ taken' = taken
    BY <1>1 DEF line, taken, Arrived, numbers
  <1>. QED
    BY <1>2, <1>3 DEF Abstract!Miss, line, taken, numbers

LEMMA TickTakes ==
    ASSUME TypeOK, NEW accepted \in SUBSET Waiting(input_vcs), UpstreamTick(accepted)
    PROVE  Abstract!Take(accepted)
  <1>1. ASSUME NEW v \in InVCs
        PROVE  /\ handled[v] \in Seq(Packet) /\ Len(handled[v]) \in Nat
               /\ input_vcs[v] \in Seq(Packet) /\ Len(input_vcs[v]) \in Nat
               /\ Len(Arrived(v)) = Len(handled[v]) + Len(input_vcs[v])
               /\ v \in accepted => input_vcs[v] # << >>
               /\ v \in accepted => Len(input_vcs[v]) > 0
    <2>1. handled[v] \in Seq(Packet) /\ input_vcs[v] \in Seq(Packet)
      BY DEF TypeOK
    <2>2. v \in accepted => input_vcs[v] # << >>
      BY DEF Waiting
    <2>. QED
      BY <2>1, <2>2, LenProperties, ConcatProperties, EmptySeq DEF Arrived
  <1>2. accepted \subseteq InVCs /\ InVCs \subseteq VcIds
    BY ChannelsAssumption DEF Waiting, TypeOK
  <1>3. \A v \in InVCs : Arrived(v)' = Arrived(v)
    BY TickArrived DEF Untouched
  <1>4. line' = line
    <2>1. \A v \in InVCs : numbers(Arrived(v))' = numbers(Arrived(v))
      BY <1>3 DEF numbers
    <2>. QED
      BY <2>1 DEF line
  <1>5. taken' = [v \in VcIds |-> IF v \in accepted THEN taken[v] + 1 ELSE taken[v]]
    <2>1. ASSUME NEW v \in InVCs
          PROVE  Len(handled[v])' = IF v \in accepted THEN Len(handled[v]) + 1
                                                      ELSE Len(handled[v])
      <3>1. handled'[v] = IF v \in accepted THEN Append(handled[v], Head(input_vcs[v]))
                                            ELSE handled[v]
        BY DEF UpstreamTick
      <3>2. v \in accepted => Head(input_vcs[v]) \in Packet
        BY <1>1, HeadTailProperties
      <3>. QED
        BY <1>1, <3>1, <3>2, AppendProperties
    <2>. QED
      BY <1>2, <2>1 DEF taken
  <1>6. \A v \in accepted : taken[v] < Len(line[v])
    <2>. SUFFICES ASSUME NEW v \in accepted PROVE taken[v] < Len(line[v])
      OBVIOUS
    <2>1. line[v] = numbers(Arrived(v)) /\ taken[v] = Len(handled[v])
      BY <1>2 DEF line, taken
    <2>2. Len(numbers(Arrived(v))) = Len(Arrived(v))
      BY <1>2, ArrivedType, NumbersType
    <2>3. Len(handled[v]) < Len(Arrived(v))
      <3>1. v \in InVCs
        BY <1>2
      <3>2. /\ Len(handled[v]) \in Nat /\ Len(input_vcs[v]) \in Nat /\ Len(input_vcs[v]) > 0
            /\ Len(Arrived(v)) = Len(handled[v]) + Len(input_vcs[v])
        BY <1>1, <3>1, Zenon
      <3>3. \A a, b \in Nat : b > 0 => a < a + b
        OBVIOUS
      <3>. QED
        BY <3>2, <3>3, Zenon
    <2>. QED
      BY <2>1, <2>2, <2>3
  <1>7. sent' = sent
    BY DEF UpstreamTick
  <1>. QED
    BY <1>4, <1>5, <1>6, <1>7 DEF Abstract!Take, line, taken, numbers

LEMMA GaplessInit == Init => Abstract!Init
  <1>. SUFFICES ASSUME Init PROVE Abstract!Init
    OBVIOUS
  <1>1. ASSUME NEW v \in InVCs
        PROVE  Arrived(v) = << >> /\ handled[v] = << >>
    <2>1. << >> \in Seq(Packet)
      BY EmptySeq
    <2>. QED
      BY <2>1, ConcatEmptySeq DEF Init, Arrived
  <1>2. numbers(<< >>) = << >> /\ Len(<< >>) = 0
    BY DEF numbers
  <1>3. line = [v \in VcIds |-> << >>] /\ taken = [v \in VcIds |-> 0]
    BY <1>1, <1>2 DEF line, taken
  <1>. QED
    BY <1>3 DEF Init, Abstract!Init, line, taken, numbers

LEMMA GaplessStep == LineInv /\ [Next]_vars => [Abstract!Next]_Abstract!vars
  <1>. SUFFICES ASSUME LineInv, [Next]_vars PROVE [Abstract!Next]_Abstract!vars
    OBVIOUS
  <1>1. ASSUME NEW v \in VcIds, sendReq(v)
        PROVE  Abstract!Next
    BY <1>1, DirectArrives, OtherSendMisses DEF Abstract!Next
  <1>2. ASSUME NEW accepted \in SUBSET Waiting(input_vcs), UpstreamTick(accepted)
        PROVE  Abstract!Next
    <2>1. accepted \in SUBSET VcIds
      BY ChannelsAssumption DEF Waiting, TypeOK, LineInv
    <2>. QED
      BY <1>2, <2>1, TickTakes DEF Abstract!Next, LineInv
  <1>3. CASE ~(\E v \in VcIds : sendReq(v))
             /\ ~(\E accepted \in SUBSET Waiting(input_vcs) : UpstreamTick(accepted))
    <2>1. UNCHANGED <<handled, input_vcs, sent>>
      BY <1>3 DEF Next, Bind, DownstreamTick, TouchDeleted, vars, queues, stats
    <2>2. line' = line /\ taken' = taken
      BY <2>1 DEF line, taken, Arrived, numbers
    <2>. QED
      BY <2>1, <2>2 DEF Abstract!vars, line, taken, numbers
  <1>. QED
    BY <1>1, <1>2, <1>3

\* The two ports implement the gapless channel.
THEOREM LinkIsGapless == Spec => ImplementsGapless
  BY LineInit, LineStep, GaplessInit, GaplessStep, PTL
     DEF Spec, ImplementsGapless, Abstract!Spec

-----------------------------------------------------------------------------
(* One place for each packet of a channel of the sender *)

There(v) == IF v \in InVCs THEN Range(Arrived(v)) ELSE {}
Here(v) == Range(output_vcs[v])
Submitted(v) == {[vc_id |-> v, seq_num |-> n] : n \in 1 .. sent[v]}

Placed(v) ==
    /\ v \in InVCs => IsInjective(Arrived(v))
    /\ IsInjective(output_vcs[v])
    /\ There(v) \cap Here(v) = {}
    /\ There(v) \cup Here(v) \subseteq Submitted(v)
    /\ Submitted(v) \subseteq There(v) \cup Here(v) \cup deleted

PlacedInv == TypeOK /\ \A v \in OutVCs : Placed(v)

\* A step submits a packet on the channel, which goes to one end of it or is
\* deleted, or turns its output buffer around at most.
Stays(v) == v \in InVCs => Arrived(v)' = Arrived(v)

NewOne(v) == /\ sent'[v] = sent[v] + 1
             /\ \/ /\ v \in InVCs
                   /\ Arrived(v)' = Append(Arrived(v), fresh(v))
                   /\ output_vcs'[v] = output_vcs[v]
                \/ /\ Stays(v)
                   /\ output_vcs'[v] = Append(output_vcs[v], fresh(v))
                \/ /\ Stays(v)
                   /\ output_vcs'[v] = output_vcs[v]
                   /\ fresh(v) \in deleted'

NoneNew(v) == /\ sent'[v] = sent[v]
              /\ Stays(v)
              /\ \/ output_vcs'[v] = output_vcs[v]
                 \/ /\ output_vcs[v] # << >>
                    /\ output_vcs'[v] = Append(Tail(output_vcs[v]), Head(output_vcs[v]))

LEMMA OwnNewOne ==
    ASSUME TypeOK, NEW v \in OutVCs, sendReq(v)
    PROVE  NewOne(v) /\ deleted \subseteq deleted'
  <1>. USE ChannelsAssumption
  <1>1. v \in VcIds /\ output_vcs \in [OutVCs -> Seq(Packet)]
    BY DEF TypeOK
  <1>2. sent'[v] = sent[v] + 1
    BY <1>1 DEF sendReq, SendInvalid, SendBehind, SendOverflow, SendDirect, SendBuffered,
           SendUnbuffered, Refused, Submit, TypeOK
  <1>3. CASE SendDirect(v)
    <2>1. v \in InVCs
      BY <1>3 DEF SendDirect, PeerAccepts
    <2>2. Arrived(v)' = Append(Arrived(v), fresh(v))
      BY <1>3, <2>1, OwnDirect DEF Direct
    <2>. QED
      BY <1>2, <1>3, <2>1, <2>2 DEF NewOne, SendDirect
  <1>4. CASE ~SendDirect(v)
    <2>1. Stays(v)
      BY <1>4, OwnMissed DEF Missed, Stays
    <2>2. CASE SendBehind(v) \/ SendBuffered(v)
      <3>1. enqueueOut(v, fresh(v)) /\ deleted \subseteq deleted'
        BY <2>2 DEF SendBehind, SendBuffered
      <3>2. output_vcs'[v] = Append(output_vcs[v], fresh(v))
        BY <1>1, <3>1 DEF enqueueOut
      <3>. QED
        BY <1>2, <2>1, <3>1, <3>2 DEF NewOne
    <2>3. CASE SendOverflow(v) \/ SendUnbuffered(v)
      BY <1>2, <2>1, <2>3 DEF NewOne, SendOverflow, SendUnbuffered, ReturnFalse, dropOut
    <2>. QED
      BY <1>4, <2>2, <2>3 DEF sendReq, SendInvalid
  <1>. QED
    BY <1>3, <1>4

LEMMA OtherNoneNew ==
    ASSUME TypeOK, NEW u \in VcIds, sendReq(u), NEW v \in OutVCs, v # u
    PROVE  NoneNew(v) /\ deleted \subseteq deleted'
  <1>. USE ChannelsAssumption
  <1>1. Stays(v)
    BY OtherChannel DEF Untouched, Stays
  <1>2. sent'[v] = sent[v]
    BY DEF sendReq, SendInvalid, SendBehind, SendOverflow, SendDirect, SendBuffered,
           SendUnbuffered, Refused, Submit, TypeOK
  <1>3. output_vcs'[v] = output_vcs[v]
    BY DEF sendReq, SendInvalid, SendBehind, SendOverflow, SendDirect, SendBuffered,
           SendUnbuffered, enqueueOut, dropOut, TypeOK
  <1>4. deleted \subseteq deleted'
    BY DEF sendReq, SendInvalid, SendBehind, SendOverflow, SendDirect, SendBuffered,
           SendUnbuffered, ReturnFalse
  <1>. QED
    BY <1>1, <1>2, <1>3, <1>4 DEF NoneNew

LEMMA PlaceStep ==
    ASSUME TypeOK, [Next]_vars, NEW v \in OutVCs
    PROVE  (NewOne(v) \/ NoneNew(v)) /\ deleted \subseteq deleted'
  <1>1. CASE \E u \in VcIds : sendReq(u)
    BY <1>1, OwnNewOne, OtherNoneNew
  <1>2. CASE DownstreamTick
    <2>1. output_vcs'[v] = trySend(output_vcs[v], OutCapacity[v])
      BY <1>2 DEF DownstreamTick
    <2>. QED
      BY <1>2, <2>1 DEF DownstreamTick, NoneNew, Stays, Arrived, trySend
  <1>3. ASSUME NEW accepted \in SUBSET Waiting(input_vcs), UpstreamTick(accepted)
        PROVE  NoneNew(v) /\ deleted \subseteq deleted'
    <2>1. Stays(v)
      BY <1>3, TickArrived DEF Untouched, Stays
    <2>. QED
      BY <1>3, <2>1 DEF UpstreamTick, NoneNew
  <1>4. CASE UNCHANGED <<queues, sent, deleted>>
    BY <1>4 DEF queues, NoneNew, Stays, Arrived
  <1>. QED
    BY <1>1, <1>2, <1>3, <1>4 DEF Next, Bind, TouchDeleted, vars

LEMMA PlacedStep ==
    ASSUME TypeOK, NEW v \in OutVCs, Placed(v), deleted \subseteq deleted', NewOne(v) \/ NoneNew(v)
    PROVE  Placed(v)'
  <1>. DEFINE p == fresh(v)
              q == output_vcs[v]
              r == output_vcs'[v]
  <1>1. /\ v \in VcIds /\ sent[v] \in Nat /\ p \in Packet /\ q \in Seq(Packet)
        /\ v \in InVCs => Arrived(v) \in Seq(Packet)
    BY FreshType, ArrivedType, ChannelsAssumption DEF TypeOK
  <1>2. p \notin Submitted(v)
    <2>1. \A n \in 1 .. sent[v] : [vc_id |-> v, seq_num |-> n] # p
      <3>1. SUFFICES ASSUME NEW n \in 1 .. sent[v], [vc_id |-> v, seq_num |-> n] = p
                     PROVE  FALSE
        OBVIOUS
      <3>2. n = sent[v] + 1
        BY <3>1 DEF fresh
      <3>. QED
        BY <1>1, <3>2
    <2>. QED
      BY <2>1 DEF Submitted
  <1>3. /\ Here(v) = Range(q) /\ Here(v)' = Range(r)
        /\ v \in InVCs => There(v) = Range(Arrived(v)) /\ There(v)' = Range(Arrived(v)')
        /\ v \notin InVCs => There(v) = {} /\ There(v)' = {}
    BY DEF Here, There
  <1>4. CASE NewOne(v)
    <2>1. Submitted(v)' = Submitted(v) \cup {p}
      <3>1. sent'[v] = sent[v] + 1
        BY <1>4 DEF NewOne
      <3>2. 1 .. sent'[v] = 1 .. sent[v] \cup {sent[v] + 1}
        BY <1>1, <3>1
      <3>. QED
        BY <3>2 DEF Submitted, fresh
    <2>2. p \notin There(v) /\ p \notin Here(v)
      BY <1>2 DEF Placed
    <2>. HIDE DEF p, q, r
    <2>3. CASE v \in InVCs /\ Arrived(v)' = Append(Arrived(v), p) /\ r = q
      <3>1. IsInjective(Arrived(v)) /\ p \notin Range(Arrived(v))
        BY <1>3, <2>2, <2>3 DEF Placed
      <3>2. /\ IsInjective(Append(Arrived(v), p))
            /\ Range(Append(Arrived(v), p)) = Range(Arrived(v)) \cup {p}
        BY <1>1, <2>3, <3>1, AppendOnce
      <3>3. There(v)' = There(v) \cup {p} /\ Here(v)' = Here(v)
        BY <1>3, <2>3, <3>2
      <3>4. IsInjective(Arrived(v)') /\ IsInjective(output_vcs'[v])
        BY <2>3, <3>2 DEF Placed, q, r
      <3>. QED
        BY <2>1, <2>2, <3>3, <3>4 DEF Placed
    <2>4. CASE Stays(v) /\ r = Append(q, p)
      <3>1. IsInjective(q) /\ p \notin Range(q)
        BY <1>3, <2>2 DEF Placed, q
      <3>2. IsInjective(Append(q, p)) /\ Range(Append(q, p)) = Range(q) \cup {p}
        BY <1>1, <3>1, AppendOnce
      <3>3. There(v)' = There(v) /\ Here(v)' = Here(v) \cup {p}
        BY <1>3, <2>4, <3>2 DEF Stays
      <3>4. (v \in InVCs => IsInjective(Arrived(v)')) /\ IsInjective(output_vcs'[v])
        BY <2>4, <3>2 DEF Placed, Stays, r
      <3>. QED
        BY <2>1, <2>2, <3>3, <3>4 DEF Placed
    <2>5. CASE Stays(v) /\ r = q /\ p \in deleted'
      <3>1. There(v)' = There(v) /\ Here(v)' = Here(v)
        BY <1>3, <2>5 DEF Stays
      <3>2. (v \in InVCs => IsInjective(Arrived(v)')) /\ IsInjective(output_vcs'[v])
        BY <2>5 DEF Placed, Stays, q, r
      <3>. QED
        BY <2>1, <2>5, <3>1, <3>2 DEF Placed
    <2>. QED
      BY <1>4, <2>3, <2>4, <2>5 DEF NewOne, p, q, r
  <1>5. CASE NoneNew(v)
    <2>1. Submitted(v)' = Submitted(v)
      BY <1>5 DEF NoneNew, Submitted
    <2>2. r = q \/ (q # << >> /\ r = Append(Tail(q), Head(q)))
      BY <1>5 DEF NoneNew
    <2>. HIDE DEF q, r
    <2>3. Range(r) = Range(q) /\ (IsInjective(q) => IsInjective(r))
      BY <1>1, <2>2, RotateOnce
    <2>4. There(v)' = There(v) /\ Here(v)' = Here(v)
      BY <1>3, <1>5, <2>3 DEF NoneNew, Stays
    <2>5. (v \in InVCs => IsInjective(Arrived(v)')) /\ IsInjective(output_vcs'[v])
      BY <1>5, <2>3 DEF Placed, NoneNew, Stays, q, r
    <2>. QED
      BY <2>1, <2>4, <2>5 DEF Placed
  <1>. QED
    BY <1>4, <1>5

LEMMA PlacedInit == Init => PlacedInv
  <1>. SUFFICES ASSUME Init, NEW v \in OutVCs PROVE Placed(v)
    BY InitTypeOK DEF PlacedInv
  <1>1. output_vcs[v] = << >> /\ sent[v] = 0 /\ (v \in InVCs => Arrived(v) = << >>)
    <2>1. << >> \o << >> = << >>
      OBVIOUS
    <2>. QED
      BY <2>1, ChannelsAssumption DEF Init, Arrived
  <1>2. Range(<< >>) = {} /\ IsInjective(<< >>)
    BY DEF Range, IsInjective
  <1>3. Submitted(v) = {}
    BY <1>1 DEF Submitted
  <1>. QED
    BY <1>1, <1>2, <1>3 DEF Placed, There, Here

LEMMA PlacedOnePlace == PlacedInv => OnePlace
  <1>. SUFFICES ASSUME PlacedInv, NEW v \in OutVCs, NEW n \in 1 .. sent[v]
                PROVE  LET p == [vc_id |-> v, seq_num |-> n]
                           copies(q) == {i \in DOMAIN q : q[i] = p}
                           there == IF v \in InVCs THEN copies(Arrived(v)) ELSE {}
                           here == copies(output_vcs[v])
                       IN /\ Cardinality(there) + Cardinality(here) <= 1
                          /\ there = {} /\ here = {} => p \in deleted
    BY DEF OnePlace
  <1>. DEFINE p == [vc_id |-> v, seq_num |-> n]
              a == Arrived(v)
              q == output_vcs[v]
              inA == {i \in DOMAIN a : a[i] = p}
              inQ == {i \in DOMAIN q : q[i] = p}
              there == IF v \in InVCs THEN inA ELSE {}
  <1>1. /\ TypeOK /\ Placed(v) /\ p \in Submitted(v)
        /\ q \in Seq(Packet) /\ IsInjective(q)
        /\ v \in InVCs => a \in Seq(Packet) /\ IsInjective(a)
    BY ArrivedType DEF PlacedInv, Placed, TypeOK, Submitted
  <1>2. /\ There(v) = IF v \in InVCs THEN Range(a) ELSE {}
        /\ Here(v) = Range(q)
        /\ There(v) \cap Here(v) = {} /\ p \in There(v) \cup Here(v) \cup deleted
    BY <1>1 DEF There, Here, Placed
  <1>. HIDE DEF p, a, q
  <1>3. /\ p \in Range(q) => Cardinality(inQ) = 1
        /\ p \notin Range(q) => inQ = {} /\ Cardinality(inQ) = 0
    BY <1>1, OnePlaceOnly
  <1>4. ASSUME v \in InVCs
        PROVE  /\ p \in Range(a) => Cardinality(inA) = 1
               /\ p \notin Range(a) => inA = {} /\ Cardinality(inA) = 0
    <2>1. a \in Seq(Packet) /\ IsInjective(a)
      BY <1>1, <1>4
    <2>. QED
      BY <2>1, OnePlaceOnly
  <1>. HIDE DEF inA, inQ
  <1>5. /\ p \in There(v) => Cardinality(there) = 1
        /\ p \notin There(v) => there = {} /\ Cardinality(there) = 0
    BY <1>2, <1>4, FS_EmptySet
  <1>6. /\ Cardinality(there) + Cardinality(inQ) <= 1
        /\ there = {} /\ inQ = {} => p \in deleted
    <2>1. Cardinality({}) = 0
      BY FS_EmptySet
    <2>. HIDE DEF there
    <2>2. CASE p \in There(v)
      <3>1. Cardinality(there) = 1 /\ Cardinality(inQ) = 0
        BY <1>2, <1>3, <1>5, <2>2
      <3>2. there # {}
        BY <2>1, <3>1
      <3>. QED
        BY <3>1, <3>2
    <2>3. CASE p \in Here(v)
      <3>1. Cardinality(there) = 0 /\ Cardinality(inQ) = 1
        BY <1>2, <1>3, <1>5, <2>3
      <3>2. inQ # {}
        BY <2>1, <3>1
      <3>. QED
        BY <3>1, <3>2
    <2>4. CASE p \notin There(v) /\ p \notin Here(v)
      <3>1. Cardinality(there) = 0 /\ Cardinality(inQ) = 0 /\ p \in deleted
        BY <1>2, <1>3, <1>5, <2>4
      <3>. QED
        BY <3>1
    <2>. QED
      BY <2>2, <2>3, <2>4
  <1>. QED
    BY <1>6 DEF p, a, q, inA, inQ

\* Each packet submitted on a channel is at the receiver, in the output buffer
\* or deleted, and in one place only: no path of sendReq queues it twice, and
\* trySend never loses one that waits.
THEOREM PacketsHaveOnePlace == Spec => []OnePlace
  <1>1. PlacedInv /\ [Next]_vars => PlacedInv'
    BY NextTypeOK, PlaceStep, PlacedStep DEF PlacedInv
  <1>. QED
    BY <1>1, PlacedInit, PlacedOnePlace, PTL DEF Spec

-----------------------------------------------------------------------------
(* The counters of a channel that both ends have *)

\* The numbers that Accounted speaks of, for channel v.
inEnqueued(v) == in_stats[v].enqueued
inProcessed(v) == in_stats[v].processed
inLen(v) == Len(input_vcs[v])
outEnqueued(v) == out_stats[v].enqueued
outForwarded(v) == out_stats[v].forwarded
outDropped(v) == out_stats[v].dropped
outLen(v) == Len(output_vcs[v])
Spoiled(v) == Head(output_vcs[v]) \in deleted

Counted(v) == inEnqueued(v) + outLen(v) + outDropped(v)
Balanced(v) == /\ Counted(v) \in {sent[v], sent[v] + 1}
               /\ Counted(v) > sent[v] => outLen(v) = OutCapacity[v] /\ Spoiled(v)
               /\ outLen(v) = outEnqueued(v) - outForwarded(v)
               /\ inLen(v) = inEnqueued(v) - inProcessed(v)

LEMMA BalancedAll == Accounted <=> \A v \in OutVCs \cap InVCs : Balanced(v)
  BY DEF Accounted, Balanced, Counted, inEnqueued, inProcessed, inLen, outEnqueued,
         outForwarded, outDropped, outLen, Spoiled

LEMMA CountersType ==
    ASSUME TypeOK, NEW v \in OutVCs \cap InVCs
    PROVE  /\ v \in VcIds /\ sent[v] \in Nat /\ OutCapacity[v] \in Nat
           /\ output_vcs[v] \in Seq(Packet) /\ outLen(v) \in Nat
           /\ outLen(v) <= OutCapacity[v]
           /\ input_vcs[v] \in Seq(Packet) /\ inLen(v) \in Nat
           /\ in_stats[v] \in InStats /\ inEnqueued(v) \in Nat /\ inProcessed(v) \in Nat
           /\ out_stats[v] \in OutStats /\ outEnqueued(v) \in Nat
           /\ outForwarded(v) \in Nat /\ outDropped(v) \in Nat
  BY ChannelsAssumption DEF TypeOK, InStats, OutStats, inEnqueued, inProcessed, inLen,
     outEnqueued, outForwarded, outDropped, outLen

\* What a step leaves alone on either side of the channel.
SameOut(v) == /\ outEnqueued(v)' = outEnqueued(v) /\ outForwarded(v)' = outForwarded(v)
              /\ outDropped(v)' = outDropped(v) /\ outLen(v)' = outLen(v)
              /\ Spoiled(v) => Spoiled(v)'
SameIn(v) == /\ inEnqueued(v)' = inEnqueued(v) /\ inProcessed(v)' = inProcessed(v)
             /\ inLen(v)' = inLen(v)

\* enqueueOut and dropOut count what they do.
LEMMA OutCounts ==
    ASSUME TypeOK, NEW v \in OutVCs \cap InVCs, NEW p \in Packet
    PROVE  /\ enqueueOut(v, p) =>
                /\ outLen(v) < OutCapacity[v]
                /\ outLen(v)' = outLen(v) + 1
                /\ outEnqueued(v)' = outEnqueued(v) + 1
                /\ outForwarded(v)' = outForwarded(v)
                /\ outDropped(v)' = outDropped(v)
           /\ dropOut(v) =>
                /\ output_vcs' = output_vcs
                /\ outLen(v)' = outLen(v)
                /\ outEnqueued(v)' = outEnqueued(v)
                /\ outForwarded(v)' = outForwarded(v)
                /\ outDropped(v)' = outDropped(v) + 1
  <1>. DEFINE s == out_stats[v]
  <1>1. /\ s \in OutStats /\ out_stats \in [OutVCs -> OutStats]
        /\ output_vcs \in [OutVCs -> Seq(Packet)] /\ output_vcs[v] \in Seq(Packet)
    BY DEF TypeOK
  <1>2. ASSUME enqueueOut(v, p)
        PROVE  /\ Len(output_vcs[v]) < OutCapacity[v]
               /\ Len(output_vcs'[v]) = Len(output_vcs[v]) + 1
               /\ out_stats'[v] = [s EXCEPT !.enqueued = s.enqueued + 1]
    <2>1. output_vcs'[v] = Append(output_vcs[v], p)
      BY <1>1, <1>2 DEF enqueueOut
    <2>. QED
      BY <1>1, <1>2, <2>1, AppendProperties DEF enqueueOut
  <1>3. ASSUME dropOut(v)
        PROVE  output_vcs' = output_vcs /\ out_stats'[v] = [s EXCEPT !.dropped = s.dropped + 1]
    BY <1>1, <1>3 DEF dropOut
  <1>. HIDE DEF s
  <1>4. /\ [s EXCEPT !.enqueued = s.enqueued + 1].enqueued = s.enqueued + 1
        /\ [s EXCEPT !.enqueued = s.enqueued + 1].forwarded = s.forwarded
        /\ [s EXCEPT !.enqueued = s.enqueued + 1].dropped = s.dropped
        /\ [s EXCEPT !.dropped = s.dropped + 1].enqueued = s.enqueued
        /\ [s EXCEPT !.dropped = s.dropped + 1].forwarded = s.forwarded
        /\ [s EXCEPT !.dropped = s.dropped + 1].dropped = s.dropped + 1
    BY <1>1 DEF OutStats
  <1>. QED
    BY <1>2, <1>3, <1>4 DEF s, outLen, outEnqueued, outForwarded, outDropped

\* A request on another channel counts nothing on this one.
LEMMA OtherCounts ==
    ASSUME TypeOK, NEW u \in VcIds, sendReq(u), NEW v \in OutVCs \cap InVCs, v # u
    PROVE  sent'[v] = sent[v] /\ SameOut(v) /\ SameIn(v)
  <1>1. v \in VcIds
    BY ChannelsAssumption
  <1>2. sent'[v] = sent[v] /\ input_vcs'[v] = input_vcs[v]
    BY <1>1 DEF sendReq, SendInvalid, SendBehind, SendOverflow, SendDirect, SendBuffered,
           SendUnbuffered, Refused, Submit, TypeOK
  <1>3. output_vcs'[v] = output_vcs[v]
    BY DEF sendReq, SendInvalid, SendBehind, SendOverflow, SendDirect, SendBuffered,
           SendUnbuffered, enqueueOut, dropOut, TypeOK
  <1>4. out_stats'[v] = out_stats[v]
    BY DEF sendReq, SendInvalid, SendBehind, SendOverflow, SendDirect, SendBuffered,
           SendUnbuffered, enqueueOut, dropOut, stats, TypeOK
  <1>5. in_stats'[v] = in_stats[v]
    BY DEF sendReq, SendInvalid, SendBehind, SendOverflow, SendDirect, SendBuffered,
           SendUnbuffered, Refused, stats, TypeOK
  <1>6. deleted \subseteq deleted'
    BY DEF sendReq, SendInvalid, SendBehind, SendOverflow, SendDirect, SendBuffered,
           SendUnbuffered, ReturnFalse
  <1>. QED
    BY <1>2, <1>3, <1>4, <1>5, <1>6
       DEF SameOut, SameIn, inEnqueued, inProcessed, inLen, outEnqueued, outForwarded,
           outDropped, outLen, Spoiled

LEMMA SameBalance ==
    ASSUME NEW v \in OutVCs \cap InVCs, Balanced(v), sent'[v] = sent[v], SameOut(v), SameIn(v)
    PROVE  Balanced(v)'
  BY DEF Balanced, Counted, SameOut, SameIn

LEMMA OwnCounts ==
    ASSUME TypeOK, NEW v \in OutVCs \cap InVCs, Balanced(v), sendReq(v)
    PROVE  Balanced(v)'
  <1>. DEFINE i == in_stats[v]
  <1>1. /\ v \in VcIds /\ sent[v] \in Nat /\ OutCapacity[v] \in Nat
        /\ outLen(v) \in Nat /\ outLen(v) <= OutCapacity[v] /\ inLen(v) \in Nat
        /\ inEnqueued(v) \in Nat /\ inProcessed(v) \in Nat
        /\ outDropped(v) \in Nat /\ outEnqueued(v) \in Nat /\ outForwarded(v) \in Nat
    BY CountersType
  <1>2. /\ fresh(v) \in Packet /\ input_vcs[v] \in Seq(Packet)
        /\ in_stats \in [InVCs -> InStats] /\ i \in InStats
    BY <1>1, FreshType DEF TypeOK
  <1>3. sent'[v] = sent[v] + 1
    BY <1>1 DEF sendReq, SendInvalid, SendBehind, SendOverflow, SendDirect, SendBuffered,
           SendUnbuffered, Refused, Submit, TypeOK
  <1>4. deleted \subseteq deleted'
    BY DEF sendReq, SendInvalid, SendBehind, SendOverflow, SendDirect, SendBuffered,
           SendUnbuffered, ReturnFalse
  <1>5. CASE SendDirect(v)
    <2>1. in_stats'[v] = [i EXCEPT !.enqueued = i.enqueued + 1]
      BY <1>2, <1>5 DEF SendDirect
    <2>2. inEnqueued(v)' = inEnqueued(v) + 1 /\ inProcessed(v)' = inProcessed(v)
      BY <1>2, <2>1 DEF InStats, inEnqueued, inProcessed
    <2>3. inLen(v)' = inLen(v) + 1
      <3>1. input_vcs'[v] = Append(input_vcs[v], fresh(v))
        BY <1>5 DEF SendDirect, TypeOK
      <3>. QED
        BY <1>1, <1>2, <3>1, AppendProperties DEF inLen
    <2>4. SameOut(v)
      BY <1>4, <1>5 DEF SendDirect, SameOut, outEnqueued, outForwarded, outDropped, outLen, Spoiled
    <2>. QED
      BY <1>1, <1>3, <2>2, <2>3, <2>4 DEF Balanced, Counted, SameOut
  <1>6. CASE ~SendDirect(v)
    <2>1. SameIn(v)
      <3>1. input_vcs' = input_vcs
        BY <1>6 DEF sendReq, SendInvalid, SendBehind, SendOverflow, SendBuffered, SendUnbuffered,
               Refused
      <3>2. in_stats'[v] = i \/ in_stats'[v] = [i EXCEPT !.dropped = i.dropped + 1]
        BY <1>2, <1>6 DEF sendReq, SendInvalid, SendBehind, SendOverflow, SendBuffered,
               SendUnbuffered, Refused, stats
      <3>3. /\ [i EXCEPT !.dropped = i.dropped + 1].enqueued = i.enqueued
            /\ [i EXCEPT !.dropped = i.dropped + 1].processed = i.processed
        BY <1>2 DEF InStats
      <3>. QED
        BY <3>1, <3>2, <3>3 DEF SameIn, inEnqueued, inProcessed, inLen
    <2>2. enqueueOut(v, fresh(v)) \/ dropOut(v)
      BY <1>6 DEF sendReq, SendInvalid, SendBehind, SendOverflow, SendBuffered, SendUnbuffered
    <2>3. CASE enqueueOut(v, fresh(v))
      <3>1. /\ outLen(v) < OutCapacity[v] /\ outLen(v)' = outLen(v) + 1
            /\ outEnqueued(v)' = outEnqueued(v) + 1 /\ outForwarded(v)' = outForwarded(v)
            /\ outDropped(v)' = outDropped(v)
        BY <1>2, <2>3, OutCounts
      <3>2. Counted(v) = sent[v]
        BY <1>1, <3>1 DEF Balanced, Counted
      <3>3. Counted(v)' = sent'[v]
        BY <1>1, <1>3, <2>1, <3>1, <3>2 DEF Counted, SameIn
      <3>. QED
        BY <1>1, <1>3, <2>1, <3>1, <3>3 DEF Balanced, SameIn
    <2>4. CASE dropOut(v)
      <3>1. /\ output_vcs' = output_vcs /\ outLen(v)' = outLen(v)
            /\ outEnqueued(v)' = outEnqueued(v) /\ outForwarded(v)' = outForwarded(v)
            /\ outDropped(v)' = outDropped(v) + 1
        BY <1>2, <2>4, OutCounts
      <3>2. Counted(v)' = Counted(v) + 1 /\ Counted(v) \in Nat
        BY <1>1, <2>1, <3>1 DEF Counted, SameIn
      <3>3. Spoiled(v) => Spoiled(v)'
        BY <1>4, <3>1 DEF Spoiled
      <3>. QED
        BY <1>1, <1>3, <2>1, <3>1, <3>2, <3>3 DEF Balanced, SameIn
    <2>. QED
      BY <2>2, <2>3, <2>4
  <1>. QED
    BY <1>5, <1>6

\* A retry counts the front packet of a full buffer as dropped although it
\* stays; the next one would find it deleted.
LEMMA DownstreamTickCounts ==
    ASSUME TypeOK, NEW v \in OutVCs \cap InVCs, Balanced(v), DownstreamTick
    PROVE  Balanced(v)'
  <1>. DEFINE o == out_stats[v]
  <1>1. /\ v \in VcIds /\ sent[v] \in Nat /\ OutCapacity[v] \in Nat
        /\ output_vcs[v] \in Seq(Packet) /\ o \in OutStats
        /\ outLen(v) \in Nat /\ outLen(v) <= OutCapacity[v]
        /\ inEnqueued(v) \in Nat /\ outDropped(v) \in Nat
        /\ outEnqueued(v) \in Nat /\ outForwarded(v) \in Nat
    BY CountersType
  <1>2. /\ output_vcs'[v] = trySend(output_vcs[v], OutCapacity[v])
        /\ deleted' = deleted \cup Heads(output_vcs) /\ Heads(output_vcs) \cap deleted = {}
        /\ UNCHANGED <<input_vcs, in_stats, sent>>
    BY DEF DownstreamTick
  <1>3. outLen(v)' = outLen(v)
    BY <1>1, <1>2, TrySendProperties DEF outLen
  <1>4. SameIn(v) /\ sent'[v] = sent[v]
    BY <1>2 DEF SameIn, inEnqueued, inProcessed, inLen
  <1>5. CASE output_vcs[v] = << >>
    <2>1. out_stats'[v] = o /\ output_vcs'[v] = output_vcs[v]
      BY <1>2, <1>5 DEF DownstreamTick, trySend
    <2>2. SameOut(v)
      BY <1>2, <2>1 DEF SameOut, outEnqueued, outForwarded, outDropped, outLen, Spoiled
    <2>. QED
      BY <1>4, <2>2, SameBalance
  <1>6. CASE output_vcs[v] # << >>
    <2>1. Head(output_vcs[v]) \in Heads(output_vcs)
      <3>1. v \in Waiting(output_vcs)
        BY <1>6 DEF Waiting, TypeOK
      <3>. QED
        BY <3>1 DEF Heads
    <2>2. Counted(v) = sent[v]
      <3>1. ~Spoiled(v)
        BY <1>2, <2>1 DEF Spoiled
      <3>2. Counted(v) \in Nat
        BY <1>1 DEF Counted
      <3>. QED
        BY <1>1, <3>1, <3>2 DEF Balanced
    <2>3. CASE Len(output_vcs[v]) < OutCapacity[v]
      <3>1. out_stats'[v] = [o EXCEPT !.enqueued = o.enqueued + 1, !.forwarded = o.forwarded + 1]
        BY <1>6, <2>3 DEF DownstreamTick
      <3>2. /\ outEnqueued(v)' = outEnqueued(v) + 1 /\ outForwarded(v)' = outForwarded(v) + 1
            /\ outDropped(v)' = outDropped(v)
        BY <1>1, <3>1 DEF OutStats, outEnqueued, outForwarded, outDropped
      <3>3. Counted(v)' = Counted(v)
        BY <1>3, <1>4, <3>2 DEF Counted, SameIn
      <3>. QED
        BY <1>1, <1>3, <1>4, <2>2, <3>2, <3>3 DEF Balanced, SameIn
    <2>4. CASE ~(Len(output_vcs[v]) < OutCapacity[v])
      <3>1. out_stats'[v] = [o EXCEPT !.dropped = o.dropped + 1]
        BY <1>6, <2>4 DEF DownstreamTick
      <3>2. /\ outEnqueued(v)' = outEnqueued(v) /\ outForwarded(v)' = outForwarded(v)
            /\ outDropped(v)' = outDropped(v) + 1
        BY <1>1, <3>1 DEF OutStats, outEnqueued, outForwarded, outDropped
      <3>3. output_vcs'[v] = output_vcs[v] /\ outLen(v) = OutCapacity[v]
        BY <1>1, <1>2, <2>4 DEF trySend, outLen
      <3>4. Spoiled(v)'
        BY <1>2, <2>1, <3>3 DEF Spoiled
      <3>5. Counted(v)' = Counted(v) + 1
        BY <1>1, <1>3, <1>4, <3>2 DEF Counted, SameIn
      <3>. QED
        BY <1>1, <1>3, <1>4, <2>2, <3>2, <3>3, <3>4, <3>5 DEF Balanced, SameIn
    <2>. QED
      BY <2>3, <2>4
  <1>. QED
    BY <1>5, <1>6

LEMMA UpstreamTickCounts ==
    ASSUME TypeOK, NEW v \in OutVCs \cap InVCs, Balanced(v),
           NEW accepted \in SUBSET Waiting(input_vcs), UpstreamTick(accepted)
    PROVE  Balanced(v)'
  <1>. DEFINE i == in_stats[v]
  <1>1. /\ input_vcs[v] \in Seq(Packet) /\ i \in InStats
        /\ inLen(v) \in Nat /\ inEnqueued(v) \in Nat /\ inProcessed(v) \in Nat
    BY CountersType
  <1>2. deleted \subseteq deleted' /\ UNCHANGED <<output_vcs, out_stats, sent>>
    BY DEF UpstreamTick
  <1>3. SameOut(v)
    BY <1>2 DEF SameOut, outEnqueued, outForwarded, outDropped, outLen, Spoiled
  <1>4. CASE v \in accepted
    <2>1. input_vcs'[v] = Tail(input_vcs[v]) /\ input_vcs[v] # << >>
      BY <1>4 DEF UpstreamTick, Waiting
    <2>2. inLen(v)' = inLen(v) - 1
      BY <1>1, <2>1, HeadTailProperties DEF inLen
    <2>3. in_stats'[v] = [i EXCEPT !.processed = i.processed + 1]
      BY <1>4 DEF UpstreamTick
    <2>4. inEnqueued(v)' = inEnqueued(v) /\ inProcessed(v)' = inProcessed(v) + 1
      BY <1>1, <2>3 DEF InStats, inEnqueued, inProcessed
    <2>. QED
      BY <1>1, <1>2, <1>3, <2>2, <2>4 DEF Balanced, Counted, SameOut
  <1>5. CASE v \notin accepted
    <2>1. input_vcs'[v] = input_vcs[v] /\ in_stats'[v] = i
      BY <1>5 DEF UpstreamTick
    <2>2. SameIn(v)
      BY <2>1 DEF SameIn, inEnqueued, inProcessed, inLen
    <2>. QED
      BY <1>2, <1>3, <2>2, SameBalance
  <1>. QED
    BY <1>4, <1>5

LEMMA AccountedStep == TypeOK /\ Accounted /\ [Next]_vars => Accounted'
  <1>. SUFFICES ASSUME TypeOK, Accounted, [Next]_vars PROVE Accounted'
    OBVIOUS
  <1>1. ASSUME NEW v \in OutVCs \cap InVCs
        PROVE  Balanced(v)'
    <2>1. Balanced(v)
      BY BalancedAll
    <2>2. ASSUME NEW u \in VcIds, sendReq(u)
          PROVE  Balanced(v)'
      <3>1. CASE u = v
        BY <2>1, <2>2, <3>1, OwnCounts
      <3>2. CASE u # v
        BY <2>1, <2>2, <3>2, OtherCounts, SameBalance
      <3>. QED
        BY <3>1, <3>2
    <2>3. CASE DownstreamTick
      BY <2>1, <2>3, DownstreamTickCounts
    <2>4. CASE \E accepted \in SUBSET Waiting(input_vcs) : UpstreamTick(accepted)
      BY <2>1, <2>4, UpstreamTickCounts
    <2>5. CASE UNCHANGED <<queues, stats, sent, deleted>>
      <3>1. sent'[v] = sent[v] /\ SameOut(v) /\ SameIn(v)
        BY <2>5 DEF SameOut, SameIn, inEnqueued, inProcessed, inLen, outEnqueued,
               outForwarded, outDropped, outLen, Spoiled, queues, stats
      <3>. QED
        BY <2>1, <3>1, SameBalance
    <2>. QED
      BY <2>2, <2>3, <2>4, <2>5 DEF Next, Bind, TouchDeleted, vars
  <1>2. Accounted' <=> \A v \in OutVCs \cap InVCs : Balanced(v)'
    BY DEF Accounted, Balanced, Counted, inEnqueued, inProcessed, inLen, outEnqueued,
           outForwarded, outDropped, outLen, Spoiled
  <1>. QED
    BY <1>1, <1>2

LEMMA AccountedInit == Init => Accounted
  <1>. SUFFICES ASSUME Init, NEW v \in OutVCs \cap InVCs PROVE Balanced(v)
    BY BalancedAll
  <1>1. /\ output_vcs[v] = << >> /\ input_vcs[v] = << >> /\ sent[v] = 0
        /\ in_stats[v] = [enqueued |-> 0, dropped |-> 0, processed |-> 0]
        /\ out_stats[v] = [enqueued |-> 0, forwarded |-> 0, dropped |-> 0]
    BY ChannelsAssumption DEF Init
  <1>2. Len(<< >>) = 0
    OBVIOUS
  <1>3. /\ inEnqueued(v) = 0 /\ inProcessed(v) = 0 /\ inLen(v) = 0
        /\ outEnqueued(v) = 0 /\ outForwarded(v) = 0 /\ outDropped(v) = 0 /\ outLen(v) = 0
    BY <1>1, <1>2 DEF inEnqueued, inProcessed, inLen, outEnqueued, outForwarded, outDropped, outLen
  <1>. QED
    BY <1>1, <1>3 DEF Balanced, Counted

\* The counters of a channel add up to what was submitted on it, and a retry
\* of a full channel spoils that once at most, at any capacities: after it the
\* front packet is deleted, so no further retry is defined (OutputVC::trySend,
\* OutputVC::stats, InputVC::stats).
THEOREM CountersAddUp == Spec => []Accounted
  <1>1. TypeOK /\ Accounted /\ [Next]_vars => (TypeOK /\ Accounted)'
    BY NextTypeOK, AccountedStep
  <1>. QED
    BY <1>1, InitTypeOK, AccountedInit, PTL DEF Spec
=============================================================================
