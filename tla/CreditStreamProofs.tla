------------------------- MODULE CreditStreamProofs -------------------------
(***************************************************************************)
(* Proofs about CreditStream.tla, for any producers, pools, buffers and    *)
(* arguments: a pool is never overdrawn, credits are neither made nor      *)
(* forgotten, and the consumer gets the packets of a stream in order.      *)
(***************************************************************************)
EXTENDS CreditStream, SequenceFacts

-----------------------------------------------------------------------------
(* The inductive invariant *)

StreamInfo == [stream_id : Ids, total_packets : Nat, sent_count : Nat, reserved_credits : Nat]
Packet == [producer : Producers, stream_id : Ids, seq_num : Nat]
PacketOf(p, id) == {pkt \in Packet : pkt.producer = p /\ pkt.stream_id = id}

TypeOK == /\ wiring \in {"nowhere", "upstream", "downstream"} /\ own_handlers \in BOOLEAN
          /\ next_stream_id \in [Producers -> Nat]
          /\ streams \in [Producers -> Seq(StreamInfo)]
          /\ used \in [Producers -> [Ids -> Nat]]
          /\ link \in [Producers -> [Ids -> L!Link(Packet)]]
          /\ processing \in SUBSET Packet /\ IsFiniteSet(processing)
          /\ credit_in \in 0 .. CreditIn /\ front_deleted \in BOOLEAN
          /\ taken \in [Producers -> [Ids -> Seq(Nat)]]
          /\ lost \in [Ids -> Nat]
          /\ deleted \in SUBSET Packet
          /\ undefined \in BOOLEAN

\* The streams of a producer have ids of its own, each a different one, and
\* those to come have others.
IdsDiffer ==
    \A p \in Producers :
        /\ \A i \in DOMAIN streams[p] :
              /\ streams[p][i].stream_id \in IdsOf(p)
              /\ streams[p][i].stream_id < next_stream_id[p]
        /\ \A i, j \in DOMAIN streams[p] :
              streams[p][i].stream_id = streams[p][j].stream_id => i = j

\* What is at an id that no stream has.
Untouched ==
    \A p \in Producers : \A id \in Ids \ StreamIds(p) :
        used[p][id] = 0 /\ link[p][id] = L!Idle /\ taken[p][id] = << >>

LinksOwn == \A p \in Producers, id \in Ids : link[p][id] \in L!Link(PacketOf(p, id))

\* The packets at the consumer continue what it took, and, as long as nothing
\* waits at the producer, the next packet to be sent continues them.
Continues ==
    \A p \in Producers :
        /\ \A id \in Ids : \A k \in DOMAIN link[p][id].in :
              link[p][id].in[k].seq_num = Len(taken[p][id]) + k - 1
        /\ \A i \in DOMAIN streams[p] :
              LET id == streams[p][i].stream_id
              IN ~L!Behind(link[p][id]) =>
                    streams[p][i].sent_count = Len(taken[p][id]) + Len(link[p][id].in)

\* What is processed has been taken.
ProcessingTaken ==
    \A pkt \in processing : pkt.seq_num < Len(taken[pkt.producer][pkt.stream_id])

IInv == /\ TypeOK /\ IdsDiffer /\ Untouched /\ LinksOwn /\ Continues /\ ProcessingTaken
        /\ PoolFits /\ StreamInOrder /\ CreditsConserved
-----------------------------------------------------------------------------
(* The pool *)

LEMMA IdsType ==
    /\ Ids \subseteq Nat /\ FirstId \in Nat /\ total_credits \in Nat /\ IsFiniteSet(Producers)
    /\ \A p \in Producers : IdsOf(p) \subseteq Ids
  <1>1. \A p \in Producers : MaxStreams[p] \in Nat /\ FirstId \in Nat
    BY CreditAssumption
  <1>2. \A p \in Producers : IdsOf(p) \subseteq Nat
    BY <1>1 DEF IdsOf
  <1>. QED
    BY <1>2, CreditAssumption DEF Ids

\* The claims of streams ss of which each uses what u says.
Needs(ss, u) == [i \in DOMAIN ss |-> greater(u[ss[i].stream_id], ss[i].reserved_credits)]
ClaimsOf(ss, u) == Tokens(DOMAIN ss, Needs(ss, u))

LEMMA NeedsType ==
    ASSUME NEW ss \in Seq(StreamInfo), NEW u \in [Ids -> Nat]
    PROVE  /\ DOMAIN ss = 1 .. Len(ss) /\ Len(ss) \in Nat /\ IsFiniteSet(DOMAIN ss)
           /\ Needs(ss, u) \in [DOMAIN ss -> Nat]
           /\ Cardinality(ClaimsOf(ss, u)) \in Nat
  <1>1. DOMAIN ss = 1 .. Len(ss) /\ Len(ss) \in Nat
    OBVIOUS
  <1>2. IsFiniteSet(DOMAIN ss)
    BY <1>1, FS_Interval
  <1>3. Needs(ss, u) \in [DOMAIN ss -> Nat]
    <2>1. \A i \in DOMAIN ss : ss[i] \in StreamInfo
      BY <1>1
    <2>. QED
      BY <2>1 DEF Needs, StreamInfo, greater
  <1>. QED
    BY <1>1, <1>2, <1>3, TokensFinite DEF ClaimsOf

LEMMA ClaimsAre ==
    ASSUME NEW p \in Producers, NEW u
    PROVE  claims(p, u) = ClaimsOf(streams[p], u)
  BY DEF claims, ClaimsOf, Tokens, Needs

\* A credit that tryGetCredit grants fits the pool: the stream had reserved
\* it, or something was left.
LEMMA GrantFits ==
    ASSUME NEW ss \in Seq(StreamInfo), NEW u \in [Ids -> Nat], NEW i \in DOMAIN ss,
           \A j \in DOMAIN ss : ss[j].stream_id = ss[i].stream_id => j = i,
           Cardinality(ClaimsOf(ss, u)) <= total_credits,
           \/ u[ss[i].stream_id] < ss[i].reserved_credits
           \/ Cardinality(ClaimsOf(ss, u)) < total_credits
    PROVE  Cardinality(ClaimsOf(ss, [u EXCEPT ![ss[i].stream_id] = @ + 1])) <= total_credits
  <1>. DEFINE P == DOMAIN ss
              id == ss[i].stream_id
              v == [u EXCEPT ![id] = @ + 1]
              f == Needs(ss, u)
              g == Needs(ss, v)
  <1>1. /\ \A j \in DOMAIN ss : ss[j] \in StreamInfo
        /\ id \in Ids /\ ss[i].reserved_credits \in Nat /\ u[id] \in Nat
    <2>1. \A j \in DOMAIN ss : ss[j] \in StreamInfo
      BY NeedsType
    <2>. QED
      BY <2>1 DEF StreamInfo
  <1>2. v \in [Ids -> Nat] /\ v[id] = u[id] + 1 /\ \A d \in Ids \ {id} : v[d] = u[d]
    BY <1>1
  <1>3. /\ IsFiniteSet(P) /\ f \in [P -> Nat] /\ g \in [P -> Nat]
        /\ Cardinality(ClaimsOf(ss, u)) \in Nat
    BY <1>2, NeedsType
  <1>4. i \in P /\ \A j \in P \ {i} : g[j] = f[j]
    <2>1. \A j \in DOMAIN ss \ {i} : ss[j].stream_id \in Ids \ {id}
      BY <1>1 DEF StreamInfo
    <2>. HIDE DEF v, id
    <2>. QED
      BY <1>2, <2>1 DEF Needs
  <1>5. /\ f[i] = greater(u[id], ss[i].reserved_credits)
        /\ g[i] = greater(u[id] + 1, ss[i].reserved_credits)
    <2>. HIDE DEF v
    <2>. QED
      BY <1>2 DEF Needs
  <1>. HIDE DEF P, f, g, v, id
  <1>6. Cardinality(Tokens(P, g)) = Cardinality(Tokens(P, f)) - f[i] + g[i]
    BY <1>3, <1>4, TokensChange
  <1>7. /\ Cardinality(ClaimsOf(ss, v)) = Cardinality(Tokens(P, g))
        /\ Cardinality(ClaimsOf(ss, u)) = Cardinality(Tokens(P, f))
    BY DEF ClaimsOf, P, f, g
  <1>8. u[id] < ss[i].reserved_credits \/ Cardinality(ClaimsOf(ss, u)) < total_credits
    BY DEF id
  <1>9. Cardinality(ClaimsOf(ss, v)) <= total_credits
    BY <1>1, <1>3, <1>5, <1>6, <1>7, <1>8, IdsType DEF greater
  <1>. QED
    BY <1>9 DEF v, id

\* So does a reservation for which enough was left.
LEMMA ReservationFits ==
    ASSUME NEW ss \in Seq(StreamInfo), NEW u \in [Ids -> Nat], NEW s \in StreamInfo,
           u[s.stream_id] = 0,
           s.reserved_credits <= total_credits - Cardinality(ClaimsOf(ss, u))
    PROVE  Cardinality(ClaimsOf(Append(ss, s), u)) <= total_credits
  <1>. DEFINE P == DOMAIN ss
              n == Len(ss) + 1
              t == Append(ss, s)
              f == Needs(t, u)
              g == Needs(ss, u)
  <1>1. /\ t \in Seq(StreamInfo) /\ DOMAIN t = P \cup {n} /\ n \notin P
        /\ t[n] = s /\ \A i \in P : t[i] = ss[i]
    OBVIOUS
  <1>2. /\ IsFiniteSet(P) /\ f \in [P \cup {n} -> Nat] /\ g \in [P -> Nat]
        /\ Cardinality(ClaimsOf(ss, u)) \in Nat
    <2>1. f \in [DOMAIN t -> Nat]
      <3>. HIDE DEF t
      <3>. QED
        BY <1>1, NeedsType
    <2>. QED
      BY <1>1, <2>1, NeedsType
  <1>3. \A i \in P : g[i] = f[i]
    <2>. HIDE DEF t
    <2>. QED
      BY <1>1 DEF Needs
  <1>4. f[n] = s.reserved_credits /\ s.reserved_credits \in Nat
    <2>1. f[n] = greater(u[s.stream_id], s.reserved_credits)
      <3>. HIDE DEF t
      <3>. QED
        BY <1>1 DEF Needs
    <2>. QED
      BY <2>1 DEF greater, StreamInfo
  <1>. HIDE DEF P, n, t, f, g
  <1>5. Cardinality(Tokens(P \cup {n}, f)) = Cardinality(Tokens(P, g)) + f[n]
    <2>1. n \notin P
      BY <1>1
    <2>. QED
      BY <1>2, <1>3, <2>1, TokensMore
  <1>6. /\ Cardinality(ClaimsOf(t, u)) = Cardinality(Tokens(P \cup {n}, f))
        /\ Cardinality(ClaimsOf(ss, u)) = Cardinality(Tokens(P, g))
    BY <1>1 DEF ClaimsOf, f, g, P
  <1>7. Cardinality(ClaimsOf(t, u)) <= total_credits
    BY <1>2, <1>4, <1>5, <1>6, IdsType
  <1>. QED
    BY <1>7 DEF t

\* What is given back leaves more.
LEMMA ReturnFits ==
    ASSUME NEW ss \in Seq(StreamInfo), NEW u \in [Ids -> Nat], NEW v \in [Ids -> Nat],
           \A id \in Ids : v[id] <= u[id]
    PROVE  Cardinality(ClaimsOf(ss, v)) <= Cardinality(ClaimsOf(ss, u))
  <1>1. /\ IsFiniteSet(DOMAIN ss)
        /\ Needs(ss, u) \in [DOMAIN ss -> Nat] /\ Needs(ss, v) \in [DOMAIN ss -> Nat]
    BY NeedsType
  <1>2. \A i \in DOMAIN ss : Needs(ss, v)[i] <= Needs(ss, u)[i]
    <2>1. \A i \in DOMAIN ss : ss[i] \in StreamInfo
      BY NeedsType
    <2>. QED
      BY <2>1 DEF Needs, StreamInfo, greater
  <1>. QED
    BY <1>1, <1>2, TokensLess DEF ClaimsOf

-----------------------------------------------------------------------------
(* The connection of a stream *)

\* A packet that sendReq accepts is the last one at the consumer, or waits.
LEMMA AcceptedIsLast ==
    ASSUME NEW S, NEW l \in L!Link(S), NEW x \in S, L!Accepted(l)
    PROVE  LET k == L!Sent(l, x)
           IN /\ k \in L!Link(S)
              /\ Len(k.in) + Len(k.out) = Len(l.in) + Len(l.out) + 1
              /\ \/ l.out = << >> /\ k.out = << >> /\ k.in = Append(l.in, x)
                 \/ k.out # << >> /\ k.in = l.in
  <1>. SUFFICES ASSUME NEW k, k = L!Sent(l, x)
                PROVE  /\ k \in L!Link(S)
                       /\ Len(k.in) + Len(k.out) = Len(l.in) + Len(l.out) + 1
                       /\ \/ l.out = << >> /\ k.out = << >> /\ k.in = Append(l.in, x)
                          \/ k.out # << >> /\ k.in = l.in
    OBVIOUS
  <1>1. /\ [l EXCEPT !.in = Append(@, x)] \in L!Link(S)
        /\ [l EXCEPT !.out = Append(@, x)] \in L!Link(S)
        /\ [l EXCEPT !.in = Append(@, x)].in = Append(l.in, x)
        /\ [l EXCEPT !.in = Append(@, x)].out = l.out
        /\ [l EXCEPT !.out = Append(@, x)].in = l.in
        /\ [l EXCEPT !.out = Append(@, x)].out = Append(l.out, x)
    BY SentLine DEF L!Link
  <1>2. /\ Len(Append(l.in, x)) = Len(l.in) + 1 /\ Len(Append(l.out, x)) = Len(l.out) + 1
        /\ Append(l.out, x) # << >> /\ Len(l.in) \in Nat /\ Len(l.out) \in Nat
    <2>1. PICK q, r : q = l.in /\ r = l.out
      OBVIOUS
    <2>2. q \in Seq(S) /\ r \in Seq(S)
      BY <2>1 DEF L!Link
    <2>3. /\ Len(Append(q, x)) = Len(q) + 1 /\ Len(Append(r, x)) = Len(r) + 1
          /\ Append(r, x) # << >> /\ Len(q) \in Nat /\ Len(r) \in Nat
      BY <2>2
    <2>. QED
      BY <2>1, <2>3
  <1>3. CASE L!Direct(l)
    <2>1. k = [l EXCEPT !.in = Append(@, x)]
      BY <1>3, Zenon DEF L!Sent, L!Queued
    <2>2. l.out = << >>
      BY <1>3 DEF L!Direct, L!Behind
    <2>3. k \in L!Link(S) /\ k.in = Append(l.in, x) /\ k.out = l.out
      BY <1>1, <2>1
    <2>4. Len(k.in) = Len(l.in) + 1 /\ Len(k.out) = Len(l.out)
      BY <1>2, <2>3
    <2>5. Len(k.in) + Len(k.out) = Len(l.in) + Len(l.out) + 1
      <3>1. PICK a, b : a = Len(l.in) /\ b = Len(l.out)
        OBVIOUS
      <3>2. a \in Nat /\ b \in Nat
        BY <1>2, <3>1
      <3>3. Len(k.in) = a + 1 /\ Len(k.out) = b
        BY <2>4, <3>1, Zenon
      <3>4. (a + 1) + b = a + b + 1
        BY <3>2
      <3>. QED
        BY <3>1, <3>3, <3>4, Zenon
    <2>. QED
      BY <2>2, <2>3, <2>5
  <1>4. CASE ~L!Direct(l)
    <2>1. L!Queued(l)
      BY <1>4 DEF L!Accepted
    <2>2. k = [l EXCEPT !.out = Append(@, x)]
      BY <1>4, <2>1, Zenon DEF L!Sent
    <2>3. k \in L!Link(S) /\ k.in = l.in /\ k.out = Append(l.out, x)
      BY <1>1, <2>2
    <2>4. Len(k.in) = Len(l.in) /\ Len(k.out) = Len(l.out) + 1 /\ k.out # << >>
      BY <1>2, <2>3
    <2>5. Len(k.in) + Len(k.out) = Len(l.in) + Len(l.out) + 1
      <3>1. PICK a, b : a = Len(l.in) /\ b = Len(l.out)
        OBVIOUS
      <3>2. a \in Nat /\ b \in Nat
        BY <1>2, <3>1
      <3>3. Len(k.in) = a /\ Len(k.out) = b + 1
        BY <2>4, <3>1, Zenon
      <3>4. a + (b + 1) = a + b + 1
        BY <3>2
      <3>. QED
        BY <3>1, <3>3, <3>4, Zenon
    <2>. QED
      BY <2>3, <2>4, <2>5
  <1>. QED
    BY <1>3, <1>4

-----------------------------------------------------------------------------
(* The loop in tick *)

\* What tick has made of the streams ss, uses u and connections ln of p after
\* some rounds: nothing that identifies a stream has changed, the packets
\* still continue what the consumer took, the pool is not overdrawn and for
\* each packet sent a credit is used.
SameStreams(p, ss) ==
    /\ Len(ss) = Len(streams[p])
    /\ \A i \in DOMAIN ss : /\ ss[i].stream_id = streams[p][i].stream_id
                            /\ ss[i].reserved_credits = streams[p][i].reserved_credits
OwnPackets(p, ln) ==
    /\ \A id \in Ids : ln[id] \in L!Link(PacketOf(p, id))
    /\ \A id \in Ids : \A k \in DOMAIN ln[id].in :
          ln[id].in[k].seq_num = Len(taken[p][id]) + k - 1
NextPackets(p, ss, ln) ==
    \A i \in DOMAIN ss :
        LET id == ss[i].stream_id
        IN ln[id].out = << >> => ss[i].sent_count = Len(taken[p][id]) + Len(ln[id].in)
NoOthers(p, u, ln) == \A id \in Ids \ StreamIds(p) : u[id] = 0 /\ ln[id] = L!Idle
Paid(p, u, ln) ==
    \A id \in Ids : u[id] + Len(link[p][id].in) + Len(link[p][id].out)
                    = used[p][id] + Len(ln[id].in) + Len(ln[id].out)

Serves(p, ss, u, ln) ==
    /\ ss \in Seq(StreamInfo) /\ u \in [Ids -> Nat] /\ ln \in [Ids -> L!Link(Packet)]
    /\ SameStreams(p, ss) /\ OwnPackets(p, ln) /\ NextPackets(p, ss, ln)
    /\ NoOthers(p, u, ln) /\ Paid(p, u, ln)
    /\ Cardinality(ClaimsOf(streams[p], u)) <= total_credits

LEMMA LensAreNumbers ==
    ASSUME NEW S, NEW l \in L!Link(S)
    PROVE  Len(l.in) \in Nat /\ Len(l.out) \in Nat
  <1>1. PICK q, r : q = l.in /\ r = l.out
    OBVIOUS
  <1>2. q \in Seq(S) /\ r \in Seq(S)
    BY <1>1 DEF L!Link
  <1>3. Len(q) \in Nat /\ Len(r) \in Nat
    BY <1>2
  <1>. QED
    BY <1>1, <1>3

\* A packet that is accepted is one of its stream, the next.
LEMMA RoundServes ==
    ASSUME IInv, NEW p \in Producers, NEW ss, NEW u, NEW ln, Serves(p, ss, u, ln),
           NEW i \in DOMAIN streams[p], tryGetCredit(p, u, ss[i]),
           L!Accepted(ln[ss[i].stream_id])
    PROVE  LET id == ss[i].stream_id
               pkt == [producer |-> p, stream_id |-> id, seq_num |-> ss[i].sent_count]
           IN /\ id \in Ids /\ pkt \in Packet
              /\ Serves(p, [ss EXCEPT ![i] = counted(@)], [u EXCEPT ![id] = @ + 1],
                        [ln EXCEPT ![id] = L!Sent(@, pkt)])
  <1>. DEFINE id == ss[i].stream_id
              pkt == [producer |-> p, stream_id |-> id, seq_num |-> ss[i].sent_count]
              tt == [ss EXCEPT ![i] = counted(@)]
              v == [u EXCEPT ![id] = @ + 1]
              k == L!Sent(ln[id], pkt)
              lm == [ln EXCEPT ![id] = k]
  <1>1. /\ streams[p] \in Seq(StreamInfo) /\ ss \in Seq(StreamInfo)
        /\ Len(ss) = Len(streams[p])
        /\ DOMAIN ss = 1 .. Len(ss) /\ DOMAIN streams[p] = 1 .. Len(ss) /\ Len(ss) \in Nat
        /\ i \in DOMAIN ss
    BY DEF IInv, TypeOK, Serves, SameStreams
  <1>2. /\ ss[i] \in StreamInfo /\ id \in Ids /\ ss[i].sent_count \in Nat
        /\ ss[i].reserved_credits \in Nat
    <2>1. ss[i] \in StreamInfo
      BY <1>1
    <2>. QED
      BY <2>1 DEF StreamInfo
  <1>3. pkt \in Packet /\ pkt \in PacketOf(p, id) /\ pkt.seq_num = ss[i].sent_count
    BY <1>2 DEF Packet, PacketOf
  <1>4. id = streams[p][i].stream_id /\ ss[i].reserved_credits = streams[p][i].reserved_credits
    BY <1>1 DEF Serves, SameStreams
  <1>5. /\ \A j \in DOMAIN ss : ss[j].stream_id = id => j = i
        /\ id \in StreamIds(p)
    BY <1>1, <1>4 DEF IInv, IdsDiffer, Serves, SameStreams, StreamIds
  <1>6. /\ tt \in Seq(StreamInfo) /\ Len(tt) = Len(ss) /\ DOMAIN tt = DOMAIN ss
        /\ tt[i] = counted(ss[i]) /\ \A j \in DOMAIN ss \ {i} : tt[j] = ss[j]
    <2>1. counted(ss[i]) \in StreamInfo
      BY <1>2 DEF counted, StreamInfo
    <2>. HIDE DEF id
    <2>. QED
      BY <1>1, <2>1
  <1>7. /\ v \in [Ids -> Nat] /\ v[id] = u[id] + 1 /\ u[id] \in Nat
        /\ \A d \in Ids \ {id} : v[d] = u[d]
    <2>1. u \in [Ids -> Nat]
      BY DEF Serves
    <2>. HIDE DEF id
    <2>. QED
      BY <1>2, <2>1
  <1>8. /\ ln[id] \in L!Link(PacketOf(p, id))
        /\ k \in L!Link(PacketOf(p, id))
        /\ Len(k.in) + Len(k.out) = Len(ln[id].in) + Len(ln[id].out) + 1
        /\ \/ ln[id].out = << >> /\ k.out = << >> /\ k.in = Append(ln[id].in, pkt)
           \/ k.out # << >> /\ k.in = ln[id].in
    <2>1. ln[id] \in L!Link(PacketOf(p, id))
      BY <1>2 DEF Serves, OwnPackets
    <2>. HIDE DEF id, pkt
    <2>2. L!Accepted(ln[id])
      BY DEF id
    <2>. QED
      BY <1>3, <2>1, <2>2, AcceptedIsLast
  <1>9. /\ lm \in [Ids -> L!Link(Packet)] /\ lm[id] = k /\ \A d \in Ids \ {id} : lm[d] = ln[d]
    <2>1. ln \in [Ids -> L!Link(Packet)]
      BY DEF Serves
    <2>2. k \in L!Link(Packet)
      <3>. HIDE DEF k
      <3>. QED
        BY <1>8 DEF PacketOf, L!Link
    <2>. HIDE DEF k, id
    <2>. QED
      BY <1>2, <2>1, <2>2
  <1>. HIDE DEF id, pkt, tt, v, k, lm
  <1>10. SameStreams(p, tt)
    <2>1. tt[i].stream_id = ss[i].stream_id /\ tt[i].reserved_credits = ss[i].reserved_credits
      BY <1>2, <1>6 DEF counted, StreamInfo
    <2>. QED
      BY <1>1, <1>6, <2>1 DEF Serves, SameStreams
  <1>11. OwnPackets(p, lm)
    <2>1. \A d \in Ids : lm[d] \in L!Link(PacketOf(p, d))
      BY <1>2, <1>8, <1>9 DEF Serves, OwnPackets
    <2>2. ASSUME NEW j \in DOMAIN k.in
          PROVE  k.in[j].seq_num = Len(taken[p][id]) + j - 1
      <3>1. CASE k.in = ln[id].in
        BY <1>2, <2>2, <3>1 DEF Serves, OwnPackets
      <3>2. CASE ln[id].out = << >> /\ k.in = Append(ln[id].in, pkt)
        <4>1. PICK q : q = ln[id].in
          OBVIOUS
        <4>2. q \in Seq(PacketOf(p, id)) /\ Len(taken[p][id]) \in Nat
          <5>1. taken[p][id] \in Seq(Nat)
            BY <1>2 DEF IInv, TypeOK
          <5>. QED
            BY <1>8, <4>1, <5>1 DEF L!Link
        <4>3. pkt.seq_num = Len(taken[p][id]) + Len(q)
          BY <1>1, <1>3, <3>2, <4>1 DEF Serves, NextPackets, id
        <4>4. \A m \in DOMAIN q : q[m].seq_num = Len(taken[p][id]) + m - 1
          BY <1>2, <4>1 DEF Serves, OwnPackets
        <4>5. j \in DOMAIN Append(q, pkt) /\ k.in[j] = Append(q, pkt)[j]
          BY <2>2, <3>2, <4>1
        <4>6. /\ DOMAIN Append(q, pkt) = 1 .. Len(q) + 1 /\ DOMAIN q = 1 .. Len(q)
              /\ Len(q) \in Nat
              /\ \A m \in DOMAIN q : Append(q, pkt)[m] = q[m]
              /\ Append(q, pkt)[Len(q) + 1] = pkt
          BY <1>3, <4>2
        <4>7. CASE j = Len(q) + 1
          <5>1. k.in[j] = pkt
            BY <4>5, <4>6, <4>7
          <5>. QED
            BY <4>2, <4>3, <4>6, <4>7, <5>1
        <4>8. CASE j # Len(q) + 1
          <5>1. j \in DOMAIN q /\ k.in[j] = q[j]
            BY <4>5, <4>6, <4>8
          <5>. QED
            BY <4>4, <5>1
        <4>. QED
          BY <4>7, <4>8
      <3>. QED
        BY <1>8, <3>1, <3>2
    <2>3. \A d \in Ids : \A j \in DOMAIN lm[d].in :
             lm[d].in[j].seq_num = Len(taken[p][d]) + j - 1
      BY <1>2, <1>9, <2>2 DEF Serves, OwnPackets
    <2>. QED
      BY <2>1, <2>3 DEF OwnPackets
  <1>12. NextPackets(p, tt, lm)
    <2>1. ASSUME NEW j \in DOMAIN ss \ {i}
          PROVE  lm[tt[j].stream_id] = ln[ss[j].stream_id] /\ tt[j] = ss[j]
      <3>1. tt[j] = ss[j] /\ ss[j].stream_id # id /\ ss[j].stream_id \in Ids
        <4>1. ss[j] \in StreamInfo
          BY <1>1
        <4>2. tt[j] = ss[j] /\ ss[j].stream_id # id
          BY <1>5, <1>6
        <4>. QED
          BY <4>1, <4>2 DEF StreamInfo
      <3>. QED
        BY <1>9, <3>1
    <2>2. ASSUME k.out = << >>
          PROVE  tt[i].sent_count = Len(taken[p][id]) + Len(k.in)
      <3>1. PICK q : q = ln[id].in
        OBVIOUS
      <3>2. q \in Seq(PacketOf(p, id)) /\ Len(taken[p][id]) \in Nat
        <4>1. taken[p][id] \in Seq(Nat)
          BY <1>2 DEF IInv, TypeOK
        <4>2. Len(taken[p][id]) \in Nat
          BY <4>1
        <4>. QED
          BY <1>8, <3>1, <4>2 DEF L!Link
      <3>3. k.in = Append(q, pkt) /\ ln[id].out = << >>
        BY <1>8, <2>2, <3>1
      <3>4. ss[i].sent_count = Len(taken[p][id]) + Len(q)
        BY <1>1, <3>1, <3>3 DEF Serves, NextPackets, id
      <3>5. tt[i].sent_count = ss[i].sent_count + 1
        BY <1>2, <1>6 DEF counted, StreamInfo
      <3>6. Len(Append(q, pkt)) = Len(q) + 1 /\ Len(q) \in Nat
        BY <1>3, <3>2
      <3>7. Len(k.in) = Len(q) + 1
        BY <3>3, <3>6
      <3>8. PICK a, b : a = Len(taken[p][id]) /\ b = Len(q)
        OBVIOUS
      <3>9. a \in Nat /\ b \in Nat
        BY <3>2, <3>6, <3>8
      <3>10. tt[i].sent_count = (a + b) + 1 /\ Len(k.in) = b + 1
        BY <3>4, <3>5, <3>7, <3>8, Zenon
      <3>11. (a + b) + 1 = a + (b + 1)
        BY <3>9
      <3>. QED
        BY <3>8, <3>10, <3>11, Zenon
    <2>3. tt[i].stream_id = id
      BY <1>2, <1>6 DEF counted, StreamInfo, id
    <2>4. ASSUME NEW j \in DOMAIN tt, lm[tt[j].stream_id].out = << >>
          PROVE  tt[j].sent_count = Len(taken[p][tt[j].stream_id]) + Len(lm[tt[j].stream_id].in)
      <3>1. CASE j = i
        BY <1>9, <2>2, <2>3, <2>4, <3>1
      <3>2. CASE j # i
        <4>1. j \in DOMAIN ss \ {i}
          BY <1>6, <3>2
        <4>. QED
          BY <2>1, <2>4, <4>1 DEF Serves, NextPackets
      <3>. QED
        BY <3>1, <3>2
    <2>. QED
      BY <2>4 DEF NextPackets
  <1>13. NoOthers(p, v, lm)
    <2>1. \A d \in Ids \ StreamIds(p) : d # id
      BY <1>5
    <2>. QED
      BY <1>7, <1>9, <2>1 DEF Serves, NoOthers
  <1>14. Paid(p, v, lm)
    <2>1. \A d \in Ids : u[d] + Len(link[p][d].in) + Len(link[p][d].out)
                         = used[p][d] + Len(ln[d].in) + Len(ln[d].out)
      BY DEF Serves, Paid
    <2>2. /\ used[p][id] \in Nat /\ Len(link[p][id].in) \in Nat /\ Len(link[p][id].out) \in Nat
          /\ Len(ln[id].in) \in Nat /\ Len(ln[id].out) \in Nat
          /\ Len(k.in) \in Nat /\ Len(k.out) \in Nat
      <3>1. used[p][id] \in Nat /\ link[p][id] \in L!Link(Packet)
        BY <1>2 DEF IInv, TypeOK
      <3>. QED
        BY <1>8, <3>1, LensAreNumbers
    <2>3. v[id] + Len(link[p][id].in) + Len(link[p][id].out)
          = used[p][id] + Len(k.in) + Len(k.out)
      <3>1. u[id] + Len(link[p][id].in) + Len(link[p][id].out)
            = used[p][id] + Len(ln[id].in) + Len(ln[id].out)
        BY <1>2, <2>1
      <3>2. PICK a, b, c, d, e, f : /\ a = Len(link[p][id].in) /\ b = Len(link[p][id].out)
                                    /\ c = Len(ln[id].in) /\ d = Len(ln[id].out)
                                    /\ e = Len(k.in) /\ f = Len(k.out)
        OBVIOUS
      <3>3. {a, b, c, d, e, f, used[p][id], u[id]} \subseteq Nat
        BY <1>7, <2>2, <3>2
      <3>4. u[id] + a + b = used[p][id] + c + d /\ e + f = c + d + 1
        BY <1>8, <3>1, <3>2
      <3>5. u[id] + 1 + a + b = used[p][id] + e + f
        BY <3>3, <3>4
      <3>. QED
        BY <1>7, <3>2, <3>5
    <2>4. \A d \in Ids \ {id} : v[d] + Len(link[p][d].in) + Len(link[p][d].out)
                                = used[p][d] + Len(lm[d].in) + Len(lm[d].out)
      BY <1>7, <1>9, <2>1
    <2>. QED
      BY <1>9, <2>3, <2>4 DEF Paid
  <1>15. Cardinality(ClaimsOf(streams[p], v)) <= total_credits
    <2>1. PICK ts : ts = streams[p]
      OBVIOUS
    <2>2. /\ ts \in Seq(StreamInfo) /\ u \in [Ids -> Nat] /\ i \in DOMAIN ts
          /\ \A j \in DOMAIN ts : ts[j].stream_id = ts[i].stream_id => j = i
          /\ Cardinality(ClaimsOf(ts, u)) <= total_credits
      BY <1>1, <2>1 DEF IInv, IdsDiffer, Serves
    <2>3. \/ u[ts[i].stream_id] < ts[i].reserved_credits
          \/ Cardinality(ClaimsOf(ts, u)) < total_credits
      <3>1. u[ss[i].stream_id] < ss[i].reserved_credits \/ available(p, u) > 0
        BY DEF tryGetCredit
      <3>2. ASSUME available(p, u) > 0
            PROVE  Cardinality(ClaimsOf(ts, u)) < total_credits
        <4>1. available(p, u) = total_credits - Cardinality(ClaimsOf(ts, u))
          BY <2>1, ClaimsAre DEF available
        <4>2. Cardinality(ClaimsOf(ts, u)) \in Nat
          BY <2>2, NeedsType
        <4>. QED
          BY <3>2, <4>1, <4>2, IdsType
      <3>. QED
        BY <1>4, <2>1, <3>1, <3>2 DEF id
    <2>4. Cardinality(ClaimsOf(ts, [u EXCEPT ![ts[i].stream_id] = @ + 1])) <= total_credits
      BY <2>2, <2>3, GrantFits
    <2>. QED
      BY <1>4, <2>1, <2>4 DEF v
  <1>16. Serves(p, tt, v, lm)
    BY <1>6, <1>7, <1>9, <1>10, <1>11, <1>12, <1>13, <1>14, <1>15 DEF Serves
  <1>. QED
    BY <1>2, <1>3, <1>16 DEF id, pkt, tt, v, k, lm

\* What a round may find and leave.
Rounds(p) ==
    {st \in [streams : Seq(StreamInfo), used : [Ids -> Nat], link : [Ids -> L!Link(Packet)],
             deleted : SUBSET Packet, dangling : BOOLEAN] :
        Serves(p, st.streams, st.used, st.link)}

LEMMA RoundKeeps ==
    ASSUME IInv, NEW p \in Producers, NEW chosen, NEW st \in Rounds(p),
           NEW i \in DOMAIN streams[p]
    PROVE  round(p, chosen, st, i) \in Rounds(p)
  <1>. DEFINE s == st.streams[i]
              id == s.stream_id
              l == st.link[id]
              pkt == [producer |-> p, stream_id |-> id, seq_num |-> s.sent_count]
  <1>1. CASE ~(i \in chosen /\ mayTry(p, st, i))
    BY <1>1 DEF round
  <1>2. CASE i \in chosen /\ mayTry(p, st, i) /\ ~L!Accepted(l)
    <2>1. round(p, chosen, st, i) = [st EXCEPT !.dangling = TRUE]
      BY <1>2, Zenon DEF round, trySend, afterRefusal
    <2>. QED
      BY <2>1 DEF Rounds
  <1>3. CASE i \in chosen /\ mayTry(p, st, i) /\ L!Accepted(l)
    <2>1. PICK ss, u, ln, del, dan :
             /\ ss = st.streams /\ u = st.used /\ ln = st.link /\ del = st.deleted
             /\ dan = st.dangling
      OBVIOUS
    <2>2. PICK gone : gone = (IF L!Deletes(l) > 0 THEN del \cup {pkt} ELSE del)
      OBVIOUS
    <2>3. Serves(p, ss, u, ln) /\ del \in SUBSET Packet /\ dan \in BOOLEAN
      BY <2>1 DEF Rounds
    <2>4. st = [streams |-> ss, used |-> u, link |-> ln, deleted |-> del, dangling |-> dan]
      BY <2>1 DEF Rounds
    <2>5. round(p, chosen, st, i)
          = [st EXCEPT !.streams[i] = counted(@), !.used[id] = @ + 1,
                       !.link[id] = L!Sent(@, pkt),
                       !.deleted = IF L!Deletes(l) > 0 THEN @ \cup {pkt} ELSE @]
      BY <1>3, Zenon DEF round, trySend
    <2>6. round(p, chosen, st, i)
          = [streams |-> [ss EXCEPT ![i] = counted(@)], used |-> [u EXCEPT ![id] = @ + 1],
             link |-> [ln EXCEPT ![id] = L!Sent(@, pkt)],
             deleted |-> gone, dangling |-> dan]
      <3>. HIDE DEF pkt, id, l
      <3>. QED
        BY <2>1, <2>2, <2>4, <2>5
    <2>7. tryGetCredit(p, u, ss[i]) /\ L!Accepted(ln[ss[i].stream_id])
      BY <1>3, <2>1, Zenon DEF mayTry
    <2>8. /\ ss[i].stream_id \in Ids
          /\ [producer |-> p, stream_id |-> ss[i].stream_id, seq_num |-> ss[i].sent_count]
             \in Packet
          /\ Serves(p, [ss EXCEPT ![i] = counted(@)], [u EXCEPT ![ss[i].stream_id] = @ + 1],
                    [ln EXCEPT ![ss[i].stream_id] = L!Sent(@, [producer |-> p,
                        stream_id |-> ss[i].stream_id, seq_num |-> ss[i].sent_count])])
      BY <2>3, <2>7, RoundServes
    <2>9. /\ pkt \in Packet
          /\ Serves(p, [ss EXCEPT ![i] = counted(@)], [u EXCEPT ![id] = @ + 1],
                    [ln EXCEPT ![id] = L!Sent(@, pkt)])
      BY <2>1, <2>8, Zenon
    <2>10. PICK tt, v, lm : /\ tt = [ss EXCEPT ![i] = counted(@)]
                            /\ v = [u EXCEPT ![id] = @ + 1]
                            /\ lm = [ln EXCEPT ![id] = L!Sent(@, pkt)]
      OBVIOUS
    <2>11. Serves(p, tt, v, lm)
      BY <2>9, <2>10, Zenon
    <2>12. round(p, chosen, st, i)
           = [streams |-> tt, used |-> v, link |-> lm, deleted |-> gone, dangling |-> dan]
      BY <2>6, <2>10, Zenon
    <2>13. /\ tt \in Seq(StreamInfo) /\ v \in [Ids -> Nat] /\ lm \in [Ids -> L!Link(Packet)]
      BY <2>11 DEF Serves
    <2>14. gone \in SUBSET Packet
      <3>. HIDE DEF pkt, l
      <3>. QED
        BY <2>2, <2>3, <2>9
    <2>. QED
      BY <2>3, <2>11, <2>12, <2>13, <2>14 DEF Rounds
  <1>. QED
    BY <1>1, <1>2, <1>3

LEMMA FoundServes ==
    ASSUME IInv, NEW p \in Producers
    PROVE  found(p) \in Rounds(p)
  <1>1. /\ streams[p] \in Seq(StreamInfo) /\ used[p] \in [Ids -> Nat]
        /\ link[p] \in [Ids -> L!Link(Packet)] /\ deleted \in SUBSET Packet
    BY DEF IInv, TypeOK
  <1>2. SameStreams(p, streams[p]) /\ Paid(p, used[p], link[p])
    BY DEF SameStreams, Paid
  <1>3. OwnPackets(p, link[p]) /\ NoOthers(p, used[p], link[p])
    BY DEF IInv, LinksOwn, Continues, Untouched, OwnPackets, NoOthers
  <1>4. NextPackets(p, streams[p], link[p])
    BY DEF IInv, Continues, NextPackets, L!Behind
  <1>5. Cardinality(ClaimsOf(streams[p], used[p])) <= total_credits
    <2>1. total_credits - Cardinality(ClaimsOf(streams[p], used[p])) >= 0
      BY ClaimsAre DEF IInv, PoolFits, available
    <2>2. Cardinality(ClaimsOf(streams[p], used[p])) \in Nat
      BY <1>1, NeedsType
    <2>. QED
      BY <2>1, <2>2, IdsType
  <1>6. Serves(p, streams[p], used[p], link[p])
    BY <1>1, <1>2, <1>3, <1>4, <1>5 DEF Serves
  <1>. QED
    BY <1>1, <1>6 DEF found, Rounds

\* tick, whatever streams are chosen.
LEMMA TickServes ==
    ASSUME IInv, NEW p \in Producers, NEW chosen, tick(p, chosen)
    PROVE  \E ss, u, ln :
              /\ Serves(p, ss, u, ln)
              /\ streams' = [streams EXCEPT ![p] = ss]
              /\ used' = [used EXCEPT ![p] = u]
              /\ link' = [link EXCEPT ![p] = ln]
              /\ deleted' \in SUBSET Packet /\ undefined' \in BOOLEAN
              /\ UNCHANGED <<wires, next_stream_id, processing, credit_port, taken, lost>>
  <1>. DEFINE n == Len(streams[p])
              Defines(f) == f = [i \in 0 .. n |-> IF i = 0 THEN found(p)
                                                  ELSE round(p, chosen, f[i - 1], i)]
              after == CHOOSE f : Defines(f)
              R == [z \in Rounds(p) \X (1 .. n) |-> round(p, chosen, z[1], z[2])]
  <1>1. n \in Nat /\ DOMAIN streams[p] = 1 .. n
    <2>1. streams[p] \in Seq(StreamInfo)
      BY DEF IInv, TypeOK
    <2>. QED
      BY <2>1
  <1>2. \A st \in Rounds(p) : \A i \in 1 .. n : round(p, chosen, st, i) \in Rounds(p)
    BY <1>1, RoundKeeps
  <1>3. found(p) \in Rounds(p)
    BY FoundServes
  <1>4. Defines(after)
    <2>1. R \in [Rounds(p) \X (1 .. n) -> Rounds(p)]
      <3>. HIDE DEF n
      <3>. QED
        BY <1>2
    <2>2. \A st \in Rounds(p) : \A i \in 1 .. n : R[<<st, i>>] = round(p, chosen, st, i)
      <3>. HIDE DEF n
      <3>. QED
        OBVIOUS
    <2>. HIDE DEF R, n
    <2>3. PICK S, s, m, Q : S = Rounds(p) /\ s = found(p) /\ m = n /\ Q = R
      OBVIOUS
    <2>4. m \in Nat /\ s \in S /\ Q \in [S \X (1 .. m) -> S]
      BY <1>1, <1>3, <2>1, <2>3
    <2>5. PICK f : Executes(f, m, S, s, Q)
      BY <2>4, LoopRuns
    <2>6. Defines(f)
      <3>1. \A i \in 1 .. m : f[i] = round(p, chosen, f[i - 1], i)
        <4>1. \A i \in 1 .. m : f[i - 1] \in S
          BY <2>4, <2>5 DEF Executes
        <4>. QED
          BY <2>2, <2>3, <2>5, <4>1 DEF Executes
      <3>2. f = [i \in 0 .. m |-> IF i = 0 THEN s ELSE round(p, chosen, f[i - 1], i)]
        BY <2>4, <2>5, <3>1 DEF Executes
      <3>. QED
        BY <2>3, <3>2, Zenon
    <2>. HIDE DEF Defines
    <2>. QED
      BY <2>6, Zenon
  <1>5. PICK a : a = after
    OBVIOUS
  <1>6. a[n] \in Rounds(p)
    <2>1. Defines(a)
      BY <1>4, <1>5, Zenon
    <2>. HIDE DEF n
    <2>2. a[0] = found(p) /\ \A i \in 1 .. n : a[i] = round(p, chosen, a[i - 1], i)
      BY <1>1, <2>1
    <2>3. \A i \in 1 .. n : a[i - 1] \in Rounds(p) => a[i] \in Rounds(p)
      BY <1>2, <2>2
    <2>. HIDE DEF Defines
    <2>4. \A i \in 0 .. n : a[i] \in Rounds(p)
      BY <1>1, <1>3, <2>2, <2>3, LoopKeeps
    <2>. QED
      BY <1>1, <2>4
  <1>7. PICK st : st = a[n]
    OBVIOUS
  <1>8. /\ streams' = [streams EXCEPT ![p] = st.streams]
        /\ used' = [used EXCEPT ![p] = st.used]
        /\ link' = [link EXCEPT ![p] = st.link]
        /\ deleted' = st.deleted
        /\ Touches(st.dangling)
        /\ UNCHANGED <<wires, next_stream_id, processing, credit_port, taken, lost>>
    BY <1>5, <1>7, Zenon DEF tick
  <1>9. Serves(p, st.streams, st.used, st.link) /\ st.deleted \in SUBSET Packet
    BY <1>6, <1>7 DEF Rounds
  <1>10. undefined' \in BOOLEAN
    BY <1>8 DEF Touches
  <1>. QED
    BY <1>8, <1>9, <1>10

-----------------------------------------------------------------------------
(* The pools, and the accounts of the credits, of a state *)

LEMMA PoolsFitWhen ==
    TypeOK => (PoolFits <=> \A p \in Producers :
                  Cardinality(ClaimsOf(streams[p], used[p])) <= total_credits)
  <1>1. SUFFICES ASSUME TypeOK, NEW p \in Producers
                 PROVE  available(p, used[p]) >= 0
                        <=> Cardinality(ClaimsOf(streams[p], used[p])) <= total_credits
    BY DEF PoolFits
  <1>2. available(p, used[p]) = total_credits - Cardinality(ClaimsOf(streams[p], used[p]))
    BY ClaimsAre DEF available
  <1>3. Cardinality(ClaimsOf(streams[p], used[p])) \in Nat
    <2>1. streams[p] \in Seq(StreamInfo) /\ used[p] \in [Ids -> Nat]
      BY <1>1 DEF TypeOK
    <2>. QED
      BY <2>1, NeedsType
  <1>. QED
    BY <1>2, <1>3, IdsType

LEMMA PoolsFitNext ==
    ASSUME TypeOK'
    PROVE  PoolFits' <=> \A p \in Producers :
              Cardinality(ClaimsOf(streams'[p], used'[p])) <= total_credits
  <1>1. (PoolFits <=> \A p \in Producers :
            Cardinality(ClaimsOf(streams[p], used[p])) <= total_credits)'
    BY PoolsFitWhen, PTL
  <1>. QED
    BY <1>1

\* The packets of stream id of p that are processed.
Processed(p, id) == {pkt \in processing : pkt.producer = p /\ pkt.stream_id = id}

LEMMA UnderWayType ==
    TypeOK => \A p \in Producers, id \in Ids :
                 /\ UnderWay(p, id) \in Nat
                 /\ UnderWay(p, id) = Len(link[p][id].in) + Len(link[p][id].out)
                                      + Cardinality(Processed(p, id))
                 /\ Len(link[p][id].in) \in Nat /\ Len(link[p][id].out) \in Nat
                 /\ IsFiniteSet(Processed(p, id)) /\ Cardinality(Processed(p, id)) \in Nat
  <1>1. SUFFICES ASSUME TypeOK, NEW p \in Producers, NEW id \in Ids
                 PROVE  /\ UnderWay(p, id) \in Nat
                        /\ UnderWay(p, id) = Len(link[p][id].in) + Len(link[p][id].out)
                                             + Cardinality(Processed(p, id))
                        /\ Len(link[p][id].in) \in Nat /\ Len(link[p][id].out) \in Nat
                        /\ IsFiniteSet(Processed(p, id))
                        /\ Cardinality(Processed(p, id)) \in Nat
    OBVIOUS
  <1>2. Len(link[p][id].in) \in Nat /\ Len(link[p][id].out) \in Nat
    <2>1. link[p][id] \in L!Link(Packet)
      BY <1>1 DEF TypeOK
    <2>. QED
      BY <2>1, LensAreNumbers
  <1>3. IsFiniteSet(Processed(p, id)) /\ Cardinality(Processed(p, id)) \in Nat
    <2>1. Processed(p, id) \subseteq processing /\ IsFiniteSet(processing)
      BY <1>1 DEF TypeOK, Processed
    <2>. QED
      BY <2>1, FS_Subset, FS_CardinalityType
  <1>4. UnderWay(p, id) = Len(link[p][id].in) + Len(link[p][id].out)
                          + Cardinality(Processed(p, id))
    BY Zenon DEF UnderWay, Processed
  <1>5. UnderWay(p, id) \in Nat
    <2>1. PICK a, b, c : /\ a = Len(link[p][id].in) /\ b = Len(link[p][id].out)
                         /\ c = Cardinality(Processed(p, id))
      OBVIOUS
    <2>2. a \in Nat /\ b \in Nat /\ c \in Nat
      BY <1>2, <1>3, <2>1, Zenon
    <2>3. a + b + c \in Nat
      BY <2>2
    <2>. QED
      BY <1>4, <2>1, <2>3, Zenon
  <1>. QED
    BY <1>2, <1>3, <1>4, <1>5, Zenon

LEMMA UnderWayTypeNext ==
    ASSUME TypeOK'
    PROVE  \A p \in Producers, id \in Ids :
              /\ UnderWay(p, id)' \in Nat
              /\ UnderWay(p, id)' = Len(link'[p][id].in) + Len(link'[p][id].out)
                                    + Cardinality(Processed(p, id)')
              /\ Len(link'[p][id].in) \in Nat /\ Len(link'[p][id].out) \in Nat
  <1>1. ASSUME TypeOK'
        PROVE  (\A p \in Producers, id \in Ids :
                 /\ UnderWay(p, id) \in Nat
                 /\ UnderWay(p, id) = Len(link[p][id].in) + Len(link[p][id].out)
                                      + Cardinality(Processed(p, id))
                 /\ Len(link[p][id].in) \in Nat /\ Len(link[p][id].out) \in Nat
                 /\ IsFiniteSet(Processed(p, id)) /\ Cardinality(Processed(p, id)) \in Nat)'
    BY <1>1, UnderWayType, PTL
  <1>. QED
    BY <1>1

\* Who uses one more while one more is under way keeps the accounts.
LEMMA AccountsStay ==
    ASSUME NEW p \in Producers, NEW n \in Nat,
           NEW f \in [Producers -> Nat], NEW g \in [Producers -> Nat],
           NEW v \in [Producers -> Nat], NEW w \in [Producers -> Nat],
           \A q \in Producers \ {p} : v[q] = f[q],
           \A q \in Producers \ {p} : w[q] = g[q],
           v[p] + g[p] = f[p] + w[p], Together(f) = Together(g) + n
    PROVE  Together(v) = Together(w) + n
  <1>1. /\ Cardinality(Tokens(Producers, v)) = Cardinality(Tokens(Producers, f)) - f[p] + v[p]
        /\ Cardinality(Tokens(Producers, w)) = Cardinality(Tokens(Producers, g)) - g[p] + w[p]
    BY IdsType, TokensChange
  <1>2. /\ Cardinality(Tokens(Producers, f)) \in Nat /\ Cardinality(Tokens(Producers, g)) \in Nat
    BY IdsType, TokensFinite
  <1>3. Cardinality(Tokens(Producers, f)) = Cardinality(Tokens(Producers, g)) + n
    BY DEF Together, Tokens
  <1>4. Cardinality(Tokens(Producers, v)) = Cardinality(Tokens(Producers, w)) + n
    <2>1. f[p] \in Nat /\ g[p] \in Nat /\ v[p] \in Nat /\ w[p] \in Nat
      OBVIOUS
    <2>. QED
      BY <1>1, <1>2, <1>3, <2>1
  <1>. QED
    BY <1>4 DEF Together, Tokens

\* Nothing that is used, under way or lost changes.
LEMMA NoCreditMoves ==
    ASSUME CreditsConserved, used' = used, lost' = lost,
           \A p \in Producers, id \in Ids : UnderWay(p, id)' = UnderWay(p, id)
    PROVE  CreditsConserved'
  <1>1. SUFFICES ASSUME NEW id \in Ids
                 PROVE  Together([p \in Producers |-> used'[p][id]])
                        = Together([p \in Producers |-> UnderWay(p, id)']) + lost'[id]
    BY Zenon DEF CreditsConserved, Together
  <1>2. [p \in Producers |-> used'[p][id]] = [p \in Producers |-> used[p][id]]
    OBVIOUS
  <1>3. [p \in Producers |-> UnderWay(p, id)'] = [p \in Producers |-> UnderWay(p, id)]
    OBVIOUS
  <1>4. Together([p \in Producers |-> used[p][id]])
        = Together([p \in Producers |-> UnderWay(p, id)]) + lost[id]
    BY Zenon DEF CreditsConserved
  <1>. QED
    BY <1>2, <1>3, <1>4, Zenon

-----------------------------------------------------------------------------
(* Each step preserves the invariant *)

\* The ids that streams have, of producers whose streams keep their ids.
SameIds == \A p \in Producers : /\ DOMAIN streams'[p] = DOMAIN streams[p]
                                /\ \A i \in DOMAIN streams[p] :
                                      streams'[p][i].stream_id = streams[p][i].stream_id

LEMMA IdsStay ==
    ASSUME IdsDiffer, Untouched, next_stream_id' = next_stream_id, SameIds
    PROVE  /\ IdsDiffer'
           /\ \A p \in Producers : StreamIds(p)' = StreamIds(p)
  <1>1. IdsDiffer'
    BY DEF IdsDiffer, SameIds
  <1>2. \A p \in Producers : StreamIds(p)' = StreamIds(p)
    BY DEF SameIds, StreamIds
  <1>. QED
    BY <1>1, <1>2

LEMMA CreateKeeps ==
    ASSUME IInv, NEW p \in Producers, NEW n \in PacketCounts, NEW r \in Reserves,
           createStream(p, n, r)
    PROVE  IInv'
  <1>. DEFINE id == next_stream_id[p]
              s == [stream_id |-> id, total_packets |-> n, sent_count |-> 0,
                    reserved_credits |-> r]
  <1>1. /\ id \in IdsOf(p) /\ id \in Ids /\ id \in Nat /\ n \in Nat /\ r \in Nat
        /\ s \in StreamInfo
    <2>1. id \in IdsOf(p) /\ n \in Nat /\ r \in Nat
      BY CreditAssumption DEF createStream
    <2>2. id \in Ids /\ id \in Nat
      BY <2>1, IdsType
    <2>. QED
      BY <2>1, <2>2 DEF StreamInfo
  <1>2. /\ next_stream_id' = [next_stream_id EXCEPT ![p] = @ + 1]
        /\ UNCHANGED <<wires, used, link, processing, credit_port, taken, lost, deleted>>
        /\ undefined' \in BOOLEAN
    BY DEF createStream, Touches
  <1>3. /\ next_stream_id' \in [Producers -> Nat] /\ next_stream_id'[p] = id + 1
        /\ \A q \in Producers \ {p} : next_stream_id'[q] = next_stream_id[q]
    <2>1. next_stream_id \in [Producers -> Nat]
      BY DEF IInv, TypeOK
    <2>. QED
      BY <1>1, <1>2, <2>1
  <1>. HIDE DEF id
  <1>4. /\ LinksOwn' /\ ProcessingTaken' /\ StreamInOrder'
    BY <1>2 DEF IInv, LinksOwn, ProcessingTaken, StreamInOrder
  <1>5. CreditsConserved'
    <2>1. \A q \in Producers, d \in Ids : UnderWay(q, d)' = UnderWay(q, d)
      BY <1>2 DEF UnderWay
    <2>. QED
      BY <1>2, <2>1, NoCreditMoves DEF IInv
  <1>6. CASE streams' = streams
    <2>1. TypeOK'
      BY <1>2, <1>3, <1>6 DEF IInv, TypeOK, wires, credit_port
    <2>2. IdsDiffer'
      <3>1. \A q \in Producers : \A i \in DOMAIN streams[q] :
               streams[q][i].stream_id < next_stream_id'[q]
        <4>1. ASSUME NEW q \in Producers, NEW i \in DOMAIN streams[q]
              PROVE  streams[q][i].stream_id < next_stream_id'[q]
          <5>1. /\ streams[q][i].stream_id \in Nat
                /\ streams[q][i].stream_id < next_stream_id[q]
            BY IdsType DEF IInv, IdsDiffer
          <5>2. next_stream_id[q] \in Nat
            BY DEF IInv, TypeOK
          <5>. QED
            BY <1>3, <5>1, <5>2 DEF id
        <4>. QED
          BY <4>1
      <3>. QED
        BY <1>6, <3>1 DEF IInv, IdsDiffer
    <2>3. Untouched' /\ Continues' /\ PoolFits'
      <3>1. Untouched'
        BY <1>2, <1>6 DEF IInv, Untouched, StreamIds
      <3>2. Continues'
        BY <1>2, <1>6 DEF IInv, Continues
      <3>3. PoolFits'
        BY <1>2, <1>6 DEF IInv, PoolFits, available, claims
      <3>. QED
        BY <3>1, <3>2, <3>3
    <2>. QED
      BY <1>4, <1>5, <2>1, <2>2, <2>3 DEF IInv
  <1>7. CASE streams' # streams
    <2>1. /\ streams' = [streams EXCEPT ![p] = Append(@, s)]
          /\ ~(r > available(p, used[p]))
      BY <1>7 DEF createStream, id
    <2>. HIDE DEF s
    <2>2. PICK ss : ss = streams[p]
      OBVIOUS
    <2>3. PICK m : m = Len(ss) + 1
      OBVIOUS
    <2>4. /\ ss \in Seq(StreamInfo) /\ m \in Nat /\ m \notin DOMAIN ss
          /\ streams \in [Producers -> Seq(StreamInfo)]
          /\ Append(ss, s) \in Seq(StreamInfo)
          /\ DOMAIN Append(ss, s) = DOMAIN ss \cup {m}
          /\ Append(ss, s)[m] = s /\ \A i \in DOMAIN ss : Append(ss, s)[i] = ss[i]
      <3>1. ss \in Seq(StreamInfo) /\ streams \in [Producers -> Seq(StreamInfo)]
        BY <2>2 DEF IInv, TypeOK
      <3>. QED
        BY <1>1, <2>3, <3>1
    <2>5. PICK tt : tt = Append(ss, s)
      OBVIOUS
    <2>6. /\ streams' \in [Producers -> Seq(StreamInfo)] /\ streams'[p] = tt
          /\ \A q \in Producers \ {p} : streams'[q] = streams[q]
      BY <2>1, <2>2, <2>4, <2>5
    <2>7. /\ DOMAIN tt = DOMAIN ss \cup {m} /\ m \notin DOMAIN ss
          /\ tt[m] = s /\ \A i \in DOMAIN ss : tt[i] = ss[i]
      BY <2>4, <2>5
    <2>8. s.stream_id = id /\ s.sent_count = 0 /\ s.reserved_credits = r
      BY DEF s
    <2>9. \A i \in DOMAIN ss : ss[i].stream_id \in IdsOf(p) /\ ss[i].stream_id < id
      BY <2>2 DEF IInv, IdsDiffer, id
    <2>10. \A i \in DOMAIN ss : ss[i].stream_id # id /\ ss[i].stream_id < id + 1
      <3>1. SUFFICES ASSUME NEW i \in DOMAIN ss
                     PROVE  ss[i].stream_id # id /\ ss[i].stream_id < id + 1
        OBVIOUS
      <3>2. ss[i].stream_id \in Nat /\ ss[i].stream_id < id
        BY <2>9, IdsType
      <3>. QED
        BY <1>1, <3>2
    <2>11. id \in Ids \ StreamIds(p)
      BY <1>1, <2>2, <2>10 DEF StreamIds
    <2>12. used[p][id] = 0 /\ link[p][id] = L!Idle /\ taken[p][id] = << >>
      BY <2>11 DEF IInv, Untouched
    <2>13. TypeOK'
      BY <1>2, <1>3, <2>6 DEF IInv, TypeOK, wires, credit_port
    <2>14. IdsDiffer'
      <3>1. \A i \in DOMAIN tt : tt[i].stream_id \in IdsOf(p) /\ tt[i].stream_id < id + 1
        BY <1>1, <2>7, <2>8, <2>9, <2>10
      <3>2. \A i, j \in DOMAIN tt : tt[i].stream_id = tt[j].stream_id => i = j
        <4>1. \A i, j \in DOMAIN ss : ss[i].stream_id = ss[j].stream_id => i = j
          BY <2>2 DEF IInv, IdsDiffer
        <4>. QED
          BY <2>7, <2>8, <2>10, <4>1
      <3>3. \A q \in Producers \ {p} :
              /\ \A i \in DOMAIN streams[q] :
                    /\ streams[q][i].stream_id \in IdsOf(q)
                    /\ streams[q][i].stream_id < next_stream_id'[q]
              /\ \A i, j \in DOMAIN streams[q] :
                    streams[q][i].stream_id = streams[q][j].stream_id => i = j
        BY <1>3 DEF IInv, IdsDiffer
      <3>. QED
        BY <1>3, <2>6, <3>1, <3>2, <3>3 DEF IdsDiffer
    <2>15. Untouched'
      <3>1. \A q \in Producers : StreamIds(q) \subseteq StreamIds(q)'
        BY <2>2, <2>6, <2>7 DEF StreamIds
      <3>. QED
        BY <1>2, <3>1 DEF IInv, Untouched
    <2>16. Continues'
      <3>1. ASSUME NEW q \in Producers
            PROVE  \A i \in DOMAIN streams'[q] :
                      LET d == streams'[q][i].stream_id
                      IN ~L!Behind(link[q][d]) =>
                            streams'[q][i].sent_count = Len(taken[q][d]) + Len(link[q][d].in)
        <4>1. CASE q = p
          <5>1. 0 = Len(taken[p][id]) + Len(link[p][id].in)
            BY <2>12 DEF L!Idle
          <5>2. ASSUME NEW i \in DOMAIN ss
                PROVE  LET d == ss[i].stream_id
                       IN ~L!Behind(link[p][d]) =>
                             ss[i].sent_count = Len(taken[p][d]) + Len(link[p][d].in)
            BY <2>2 DEF IInv, Continues
          <5>3. \A i \in DOMAIN tt :
                   LET d == tt[i].stream_id
                   IN ~L!Behind(link[p][d]) =>
                         tt[i].sent_count = Len(taken[p][d]) + Len(link[p][d].in)
            BY <2>7, <2>8, <5>1, <5>2
          <5>4. streams'[q] = tt
            BY <2>6, <4>1
          <5>. QED
            BY <4>1, <5>3, <5>4, Zenon
        <4>2. CASE q # p
          <5>1. streams'[q] = streams[q]
            BY <2>6, <4>2
          <5>2. \A i \in DOMAIN streams[q] :
                   LET d == streams[q][i].stream_id
                   IN ~L!Behind(link[q][d]) =>
                         streams[q][i].sent_count = Len(taken[q][d]) + Len(link[q][d].in)
            BY DEF IInv, Continues
          <5>. QED
            BY <5>1, <5>2, Zenon
        <4>. QED
          BY <4>1, <4>2
      <3>2. \A q \in Producers, d \in Ids : \A k \in DOMAIN link[q][d].in :
               link[q][d].in[k].seq_num = Len(taken[q][d]) + k - 1
        BY DEF IInv, Continues
      <3>. QED
        BY <1>2, <3>1, <3>2 DEF Continues
    <2>17. PoolFits'
      <3>1. Cardinality(ClaimsOf(tt, used[p])) <= total_credits
        <4>1. PICK u : u = used[p]
          OBVIOUS
        <4>2. u \in [Ids -> Nat] /\ u[s.stream_id] = 0 /\ s \in StreamInfo
          BY <1>1, <2>8, <2>12, <4>1 DEF IInv, TypeOK, s
        <4>3. available(p, u) = total_credits - Cardinality(ClaimsOf(ss, u))
          BY <2>2, ClaimsAre DEF available
        <4>4. s.reserved_credits <= total_credits - Cardinality(ClaimsOf(ss, u))
          <5>1. Cardinality(ClaimsOf(ss, u)) \in Nat
            BY <2>4, <4>2, NeedsType
          <5>. QED
            BY <1>1, <2>1, <2>8, <4>1, <4>3, <5>1, IdsType
        <4>5. Cardinality(ClaimsOf(Append(ss, s), u)) <= total_credits
          BY <2>4, <4>2, <4>4, ReservationFits
        <4>. QED
          BY <2>5, <4>1, <4>5
      <3>2. \A q \in Producers : Cardinality(ClaimsOf(streams[q], used[q])) <= total_credits
        BY PoolsFitWhen DEF IInv
      <3>3. \A q \in Producers : Cardinality(ClaimsOf(streams'[q], used'[q])) <= total_credits
        BY <1>2, <2>6, <3>1, <3>2
      <3>. QED
        BY <2>13, <3>3, PoolsFitNext
    <2>. QED
      BY <1>4, <1>5, <2>13, <2>14, <2>15, <2>16, <2>17 DEF IInv
  <1>. QED
    BY <1>6, <1>7

LEMMA TickKeeps ==
    ASSUME IInv, NEW p \in Producers, NEW chosen, tick(p, chosen)
    PROVE  IInv'
  <1>1. PICK ss, u, ln :
          /\ Serves(p, ss, u, ln)
          /\ streams' = [streams EXCEPT ![p] = ss]
          /\ used' = [used EXCEPT ![p] = u]
          /\ link' = [link EXCEPT ![p] = ln]
          /\ deleted' \in SUBSET Packet /\ undefined' \in BOOLEAN
          /\ UNCHANGED <<wires, next_stream_id, processing, credit_port, taken, lost>>
    BY TickServes
  <1>2. /\ ss \in Seq(StreamInfo) /\ u \in [Ids -> Nat] /\ ln \in [Ids -> L!Link(Packet)]
        /\ SameStreams(p, ss) /\ OwnPackets(p, ln) /\ NextPackets(p, ss, ln)
        /\ NoOthers(p, u, ln) /\ Paid(p, u, ln)
        /\ Cardinality(ClaimsOf(streams[p], u)) <= total_credits
    BY <1>1 DEF Serves
  <1>3. /\ streams' \in [Producers -> Seq(StreamInfo)] /\ streams'[p] = ss
        /\ \A q \in Producers \ {p} : streams'[q] = streams[q]
        /\ used' \in [Producers -> [Ids -> Nat]] /\ used'[p] = u
        /\ \A q \in Producers \ {p} : used'[q] = used[q]
        /\ link' \in [Producers -> [Ids -> L!Link(Packet)]] /\ link'[p] = ln
        /\ \A q \in Producers \ {p} : link'[q] = link[q]
    BY <1>1, <1>2 DEF IInv, TypeOK
  <1>4. TypeOK'
    BY <1>1, <1>3 DEF IInv, TypeOK, wires, credit_port
  <1>5. DOMAIN ss = DOMAIN streams[p]
    <2>1. streams[p] \in Seq(StreamInfo)
      BY DEF IInv, TypeOK
    <2>. QED
      BY <1>2, <2>1 DEF SameStreams
  <1>6. IdsDiffer' /\ \A q \in Producers : StreamIds(q)' = StreamIds(q)
    <2>1. SameIds
      BY <1>2, <1>3, <1>5 DEF SameIds, SameStreams
    <2>. QED
      BY <1>1, <2>1, IdsStay DEF IInv
  <1>7. Untouched'
    <2>1. \A q \in Producers, id \in Ids : taken'[q][id] = taken[q][id]
      BY <1>1
    <2>2. \A id \in Ids \ StreamIds(p) : used'[p][id] = 0 /\ link'[p][id] = L!Idle
      BY <1>2, <1>3 DEF NoOthers
    <2>3. ASSUME NEW q \in Producers, NEW id \in Ids \ StreamIds(q)'
          PROVE  used'[q][id] = 0 /\ link'[q][id] = L!Idle /\ taken'[q][id] = << >>
      <3>1. id \in Ids \ StreamIds(q)
        BY <1>6, <2>3
      <3>2. used[q][id] = 0 /\ link[q][id] = L!Idle /\ taken[q][id] = << >>
        BY <3>1 DEF IInv, Untouched
      <3>3. CASE q = p
        BY <2>1, <2>2, <3>1, <3>2, <3>3
      <3>4. CASE q # p
        BY <1>3, <2>1, <3>1, <3>2, <3>4
      <3>. QED
        BY <3>3, <3>4
    <2>. QED
      BY <2>3, Zenon DEF Untouched
  <1>8. LinksOwn'
    BY <1>2, <1>3 DEF IInv, LinksOwn, OwnPackets
  <1>9. Continues'
    <2>1. \A q \in Producers, id \in Ids : \A k \in DOMAIN link'[q][id].in :
             link'[q][id].in[k].seq_num = Len(taken[q][id]) + k - 1
      <3>1. \A q \in Producers \ {p}, id \in Ids : \A k \in DOMAIN link[q][id].in :
               link[q][id].in[k].seq_num = Len(taken[q][id]) + k - 1
        BY DEF IInv, Continues
      <3>2. \A id \in Ids : \A k \in DOMAIN ln[id].in :
               ln[id].in[k].seq_num = Len(taken[p][id]) + k - 1
        BY <1>2 DEF OwnPackets
      <3>3. ASSUME NEW q \in Producers, NEW id \in Ids
            PROVE  \A k \in DOMAIN link'[q][id].in :
                      link'[q][id].in[k].seq_num = Len(taken[q][id]) + k - 1
        <4>1. CASE q = p
          <5>1. link'[q] = ln
            BY <1>3, <4>1
          <5>. QED
            BY <3>2, <4>1, <5>1, Zenon
        <4>2. CASE q # p
          <5>1. link'[q] = link[q] /\ q \in Producers \ {p}
            BY <1>3, <4>2
          <5>. QED
            BY <3>1, <5>1, Zenon
        <4>. QED
          BY <4>1, <4>2
      <3>. QED
        BY <3>3
    <2>2. ASSUME NEW q \in Producers
          PROVE  \A i \in DOMAIN streams'[q] :
                    LET d == streams'[q][i].stream_id
                    IN ~L!Behind(link'[q][d]) =>
                          streams'[q][i].sent_count = Len(taken[q][d]) + Len(link'[q][d].in)
      <3>1. CASE q = p
        <4>1. \A i \in DOMAIN ss :
                 LET d == ss[i].stream_id
                 IN ~L!Behind(ln[d]) => ss[i].sent_count = Len(taken[p][d]) + Len(ln[d].in)
          BY <1>2 DEF NextPackets, L!Behind
        <4>2. streams'[q] = ss /\ link'[q] = ln
          BY <1>3, <3>1
        <4>. QED
          BY <3>1, <4>1, <4>2, Zenon
      <3>2. CASE q # p
        <4>1. \A i \in DOMAIN streams[q] :
                 LET d == streams[q][i].stream_id
                 IN ~L!Behind(link[q][d]) =>
                       streams[q][i].sent_count = Len(taken[q][d]) + Len(link[q][d].in)
          BY DEF IInv, Continues
        <4>2. streams'[q] = streams[q] /\ link'[q] = link[q]
          BY <1>3, <3>2
        <4>. QED
          BY <4>1, <4>2, Zenon
      <3>. QED
        BY <3>1, <3>2
    <2>3. taken' = taken
      BY <1>1
    <2>. QED
      BY <2>1, <2>2, <2>3, Zenon DEF Continues
  <1>10. ProcessingTaken' /\ StreamInOrder'
    BY <1>1 DEF IInv, ProcessingTaken, StreamInOrder
  <1>11. PoolFits'
    <2>1. ClaimsOf(ss, u) = ClaimsOf(streams[p], u)
      <3>1. Needs(ss, u) = Needs(streams[p], u)
        BY <1>2, <1>5 DEF Needs, SameStreams
      <3>. QED
        BY <1>5, <3>1 DEF ClaimsOf
    <2>2. \A q \in Producers : Cardinality(ClaimsOf(streams[q], used[q])) <= total_credits
      BY PoolsFitWhen DEF IInv
    <2>3. \A q \in Producers : Cardinality(ClaimsOf(streams'[q], used'[q])) <= total_credits
      BY <1>2, <1>3, <2>1, <2>2
    <2>. QED
      BY <1>4, <2>3, PoolsFitNext
  <1>12. CreditsConserved'
    <2>1. SUFFICES ASSUME NEW id \in Ids
                   PROVE  Together([q \in Producers |-> used'[q][id]])
                          = Together([q \in Producers |-> UnderWay(q, id)']) + lost'[id]
      BY Zenon DEF CreditsConserved, Together
    <2>2. PICK n, f, g, v, w :
            /\ n = lost[id]
            /\ f = [q \in Producers |-> used[q][id]]
            /\ g = [q \in Producers |-> UnderWay(q, id)]
            /\ v = [q \in Producers |-> used'[q][id]]
            /\ w = [q \in Producers |-> UnderWay(q, id)']
      OBVIOUS
    <2>3. /\ n \in Nat /\ f \in [Producers -> Nat] /\ v \in [Producers -> Nat]
          /\ \A q \in Producers \ {p} : v[q] = f[q]
      BY <1>3, <2>2 DEF IInv, TypeOK
    <2>4. g \in [Producers -> Nat] /\ w \in [Producers -> Nat]
      <3>1. \A q \in Producers : UnderWay(q, id) \in Nat
        BY UnderWayType DEF IInv
      <3>2. \A q \in Producers : UnderWay(q, id)' \in Nat
        BY <1>4, UnderWayTypeNext
      <3>. QED
        BY <2>2, <3>1, <3>2
    <2>5. \A q \in Producers \ {p} : w[q] = g[q]
      <3>1. ASSUME NEW q \in Producers \ {p}
            PROVE  UnderWay(q, id)' = UnderWay(q, id)
        BY <1>1, <1>3 DEF UnderWay
      <3>. QED
        BY <2>2, <3>1
    <2>6. v[p] + g[p] = f[p] + w[p]
      <3>1. PICK a, b, c, d, e : /\ a = Len(link[p][id].in) /\ b = Len(link[p][id].out)
                                 /\ c = Len(ln[id].in) /\ d = Len(ln[id].out)
                                 /\ e = Cardinality(Processed(p, id))
        OBVIOUS
      <3>2. a \in Nat /\ b \in Nat /\ e \in Nat /\ UnderWay(p, id) = a + b + e
        BY <3>1, UnderWayType DEF IInv
      <3>3. Processed(p, id)' = Processed(p, id)
        BY <1>1 DEF Processed
      <3>4. c \in Nat /\ d \in Nat /\ UnderWay(p, id)' = c + d + e
        <4>1. /\ UnderWay(p, id)' = Len(link'[p][id].in) + Len(link'[p][id].out)
                                    + Cardinality(Processed(p, id)')
              /\ Len(link'[p][id].in) \in Nat /\ Len(link'[p][id].out) \in Nat
          BY <1>4, UnderWayTypeNext
        <4>. QED
          BY <1>3, <3>1, <3>3, <4>1, Zenon
      <3>5. u[id] + a + b = used[p][id] + c + d
        BY <1>2, <3>1 DEF Paid
      <3>6. u[id] \in Nat /\ used[p][id] \in Nat
        BY <1>2 DEF IInv, TypeOK
      <3>7. u[id] + (a + b + e) = used[p][id] + (c + d + e)
        BY <3>2, <3>4, <3>5, <3>6
      <3>8. v[p] = u[id] /\ f[p] = used[p][id] /\ g[p] = a + b + e /\ w[p] = c + d + e
        BY <1>3, <2>2, <3>2, <3>4
      <3>. QED
        BY <3>7, <3>8
    <2>7. Together(f) = Together(g) + n
      BY <2>2, Zenon DEF IInv, CreditsConserved
    <2>8. Together(v) = Together(w) + n
      BY <2>3, <2>4, <2>5, <2>6, <2>7, AccountsStay
    <2>9. lost' = lost
      BY <1>1
    <2>. QED
      BY <2>2, <2>8, <2>9, Zenon
  <1>. QED
    BY <1>4, <1>6, <1>7, <1>8, <1>9, <1>10, <1>11, <1>12 DEF IInv

\* A retried packet stays one of those that wait.
LEMMA PortTickKeeps ==
    ASSUME IInv, NEW p \in Producers, NEW id \in IdsOf(p), portTick(p, id)
    PROVE  IInv'
  <1>. DEFINE l == link[p][id]
              k == L!Retried(l)
  <1>1. /\ L!Behind(l) /\ link' = [link EXCEPT ![p][id] = k]
        /\ deleted' = deleted \cup {Head(l.out)} /\ undefined' \in BOOLEAN
        /\ UNCHANGED <<wires, next_stream_id, streams, used, processing, credit_port, taken, lost>>
    BY DEF portTick, Touches
  <1>2. id \in Ids /\ l \in L!Link(PacketOf(p, id)) /\ l.out # << >>
    BY <1>1, IdsType DEF IInv, LinksOwn, L!Behind
  <1>3. /\ k \in L!Link(PacketOf(p, id)) /\ Head(l.out) \in PacketOf(p, id)
        /\ k.in = l.in /\ k.out # << >> /\ Len(k.out) = Len(l.out)
    <2>. HIDE DEF l
    <2>1. PICK m : m = [l EXCEPT !.out = Append(Tail(@), Head(@))]
      OBVIOUS
    <2>2. /\ m \in L!Link(PacketOf(p, id)) /\ Head(l.out) \in PacketOf(p, id)
          /\ m.in = l.in /\ m.out = Append(Tail(l.out), Head(l.out))
      BY <1>2, <2>1, RetriedLine DEF L!Link
    <2>3. m.out # << >> /\ Len(m.out) = Len(l.out)
      <3>1. PICK q : q = l.out
        OBVIOUS
      <3>2. q \in Seq(PacketOf(p, id)) /\ q # << >>
        BY <1>2, <3>1 DEF L!Link
      <3>3. Append(Tail(q), Head(q)) # << >> /\ Len(Append(Tail(q), Head(q))) = Len(q)
        <4>1. /\ Append(Tail(q), Head(q)) \in Seq(PacketOf(p, id))
              /\ Len(Append(Tail(q), Head(q))) = Len(q)
          BY <3>2, RotateOnce
        <4>2. Len(q) # 0
          BY <3>2
        <4>. QED
          BY <4>1, <4>2
      <3>. QED
        BY <2>2, <3>1, <3>3
    <2>4. k = l \/ k = m
      BY <2>1, Zenon DEF L!Retried
    <2>. HIDE DEF k
    <2>. QED
      BY <1>2, <2>2, <2>3, <2>4
  <1>4. k \in L!Link(Packet) /\ Head(l.out) \in Packet
    <2>. HIDE DEF k, l
    <2>. QED
      BY <1>3 DEF PacketOf, L!Link
  <1>. HIDE DEF k
  <1>5. /\ link' \in [Producers -> [Ids -> L!Link(Packet)]] /\ link'[p][id] = k
        /\ \A q \in Producers, d \in Ids : <<q, d>> # <<p, id>> => link'[q][d] = link[q][d]
    <2>1. link \in [Producers -> [Ids -> L!Link(Packet)]]
      BY DEF IInv, TypeOK
    <2>. HIDE DEF l
    <2>. QED
      BY <1>1, <1>2, <1>4, <2>1
  <1>. HIDE DEF l
  <1>6. \A q \in Producers, d \in Ids : /\ link'[q][d].in = link[q][d].in
                                        /\ L!Behind(link'[q][d]) <=> L!Behind(link[q][d])
                                        /\ Len(link'[q][d].out) = Len(link[q][d].out)
    BY <1>1, <1>3, <1>5 DEF L!Behind, l
  <1>7. TypeOK'
    BY <1>1, <1>4, <1>5 DEF IInv, TypeOK, wires, credit_port
  <1>8. /\ IdsDiffer' /\ ProcessingTaken' /\ StreamInOrder'
        /\ \A q \in Producers : StreamIds(q)' = StreamIds(q)
    BY <1>1 DEF IInv, IdsDiffer, ProcessingTaken, StreamInOrder, StreamIds
  <1>9. PoolFits'
    BY <1>1 DEF IInv, PoolFits, available, claims
  <1>10. Untouched'
    <2>1. id \in StreamIds(p)
      <3>1. L!Idle.out = << >>
        BY DEF L!Idle
      <3>. QED
        BY <1>2, <3>1 DEF IInv, Untouched, l
    <2>2. ASSUME NEW q \in Producers, NEW d \in Ids \ StreamIds(q)'
          PROVE  used'[q][d] = 0 /\ link'[q][d] = L!Idle /\ taken'[q][d] = << >>
      <3>1. d \in Ids \ StreamIds(q) /\ <<q, d>> # <<p, id>>
        BY <1>8, <2>1, <2>2
      <3>2. used[q][d] = 0 /\ link[q][d] = L!Idle /\ taken[q][d] = << >>
        BY <3>1 DEF IInv, Untouched
      <3>. QED
        BY <1>1, <1>5, <3>1, <3>2
    <2>. QED
      BY <2>2, Zenon DEF Untouched
  <1>11. LinksOwn'
    BY <1>3, <1>5 DEF IInv, LinksOwn
  <1>12. Continues'
    <2>1. ASSUME NEW q \in Producers, NEW d \in Ids
          PROVE  \A j \in DOMAIN link'[q][d].in :
                    link'[q][d].in[j].seq_num = Len(taken[q][d]) + j - 1
      <3>1. \A j \in DOMAIN link[q][d].in :
               link[q][d].in[j].seq_num = Len(taken[q][d]) + j - 1
        BY DEF IInv, Continues
      <3>2. link'[q][d].in = link[q][d].in
        BY <1>6
      <3>. QED
        BY <3>1, <3>2, Zenon
    <2>2. ASSUME NEW q \in Producers, NEW i \in DOMAIN streams[q], NEW d,
                 d = streams[q][i].stream_id, ~L!Behind(link'[q][d])
          PROVE  streams[q][i].sent_count = Len(taken[q][d]) + Len(link'[q][d].in)
      <3>1. d \in Ids
        BY <2>2, IdsType DEF IInv, IdsDiffer
      <3>2. ~L!Behind(link[q][d]) /\ link'[q][d].in = link[q][d].in
        BY <1>6, <2>2, <3>1
      <3>3. streams[q][i].sent_count = Len(taken[q][d]) + Len(link[q][d].in)
        BY <2>2, <3>2 DEF IInv, Continues
      <3>. QED
        BY <3>2, <3>3
    <2>3. taken' = taken /\ streams' = streams
      BY <1>1
    <2>. QED
      BY <2>1, <2>2, <2>3, Zenon DEF Continues
  <1>13. CreditsConserved'
    <2>1. ASSUME NEW q \in Producers, NEW d \in Ids
          PROVE  UnderWay(q, d)' = UnderWay(q, d)
      <3>1. /\ link'[q][d].in = link[q][d].in
            /\ Len(link'[q][d].out) = Len(link[q][d].out) /\ processing' = processing
        BY <1>1, <1>6
      <3>. QED
        BY <3>1, Zenon DEF UnderWay
    <2>2. used' = used /\ lost' = lost
      BY <1>1
    <2>. QED
      BY <2>1, <2>2, NoCreditMoves DEF IInv
  <1>. QED
    BY <1>7, <1>8, <1>9, <1>10, <1>11, <1>12, <1>13 DEF IInv

\* A packet that is refused, or never handled, is only deleted.
LEMMA OnlyDeleted ==
    ASSUME IInv, deleted' \in SUBSET Packet, undefined' \in BOOLEAN, front_deleted' \in BOOLEAN,
           UNCHANGED <<wires, next_stream_id, streams, used, link, processing, credit_in,
                       taken, lost>>
    PROVE  IInv'
  <1>1. TypeOK'
    BY DEF IInv, TypeOK, wires
  <1>2. IdsDiffer' /\ Untouched' /\ LinksOwn' /\ Continues' /\ ProcessingTaken' /\ StreamInOrder'
    <2>1. IdsDiffer' /\ ProcessingTaken' /\ StreamInOrder'
      BY DEF IInv, IdsDiffer, ProcessingTaken, StreamInOrder
    <2>2. Untouched' /\ LinksOwn'
      BY DEF IInv, Untouched, StreamIds, LinksOwn
    <2>3. Continues'
      BY DEF IInv, Continues
    <2>. QED
      BY <2>1, <2>2, <2>3
  <1>3. PoolFits'
    BY DEF IInv, PoolFits, available, claims
  <1>4. CreditsConserved'
    <2>1. \A q \in Producers, d \in Ids : UnderWay(q, d)' = UnderWay(q, d)
      BY DEF UnderWay
    <2>. QED
      BY <2>1, NoCreditMoves DEF IInv
  <1>. QED
    BY <1>1, <1>2, <1>3, <1>4 DEF IInv

LEMMA RefuseKeeps ==
    ASSUME IInv, NEW p \in Producers, NEW id \in IdsOf(p), refuse(p, id)
    PROVE  IInv'
  <1>1. PICK q : q = link[p][id].in
    OBVIOUS
  <1>2. /\ q # << >> /\ deleted' = deleted \cup {Head(q)} /\ undefined' \in BOOLEAN
        /\ UNCHANGED <<wires, next_stream_id, streams, used, link, processing, credit_in,
                       taken, lost>>
        /\ front_deleted' = front_deleted
    BY <1>1 DEF refuse, Touches, credit_port
  <1>3. id \in Ids /\ link[p][id] \in L!Link(Packet)
    BY IdsType DEF IInv, TypeOK
  <1>4. q \in Seq(Packet)
    BY <1>1, <1>3 DEF L!Link
  <1>5. deleted' \in SUBSET Packet /\ front_deleted' \in BOOLEAN
    <2>1. Head(q) \in Packet
      BY <1>2, <1>4
    <2>. QED
      BY <1>2, <2>1 DEF IInv, TypeOK
  <1>. QED
    BY <1>2, <1>5, OnlyDeleted

LEMMA UnhandledKeeps ==
    ASSUME IInv, creditUnhandled
    PROVE  IInv'
  <1>1. /\ deleted' \in SUBSET Packet /\ undefined' \in BOOLEAN /\ front_deleted' \in BOOLEAN
        /\ UNCHANGED <<wires, next_stream_id, streams, used, link, processing, credit_in,
                       taken, lost>>
    BY DEF IInv, TypeOK, creditUnhandled, Touches
  <1>. QED
    BY <1>1, OnlyDeleted

\* The packet that the consumer accepts is the next of its stream.
LEMMA AcceptKeeps ==
    ASSUME IInv, NEW p \in Producers, NEW id \in IdsOf(p), accept(p, id)
    PROVE  IInv'
  <1>1. PICK q, x, k : q = link[p][id].in /\ x = Head(q) /\ k = L!Taken(link[p][id])
    OBVIOUS
  <1>2. /\ q # << >> /\ link' = [link EXCEPT ![p][id] = k]
        /\ processing' = processing \cup {x}
        /\ taken' = [taken EXCEPT ![p][id] = Append(@, x.seq_num)]
        /\ undefined' \in BOOLEAN
        /\ UNCHANGED <<wires, next_stream_id, streams, used, credit_port, lost, deleted>>
    BY <1>1 DEF accept, Touches
  <1>3. id \in Ids /\ link[p][id] \in L!Link(PacketOf(p, id))
    BY IdsType DEF IInv, LinksOwn
  <1>4. /\ q \in Seq(PacketOf(p, id)) /\ Len(q) \in Nat \ {0} /\ 1 \in DOMAIN q /\ x = q[1]
        /\ x \in PacketOf(p, id)
        /\ Tail(q) \in Seq(PacketOf(p, id)) /\ Len(Tail(q)) = Len(q) - 1
        /\ DOMAIN Tail(q) = 1 .. Len(q) - 1
        /\ \A j \in 1 .. Len(q) - 1 : Tail(q)[j] = q[j + 1] /\ j + 1 \in DOMAIN q
    <2>1. q \in Seq(PacketOf(p, id))
      BY <1>1, <1>3 DEF L!Link
    <2>. QED
      BY <1>1, <1>2, <2>1
  <1>5. /\ k \in L!Link(PacketOf(p, id)) /\ k.in = Tail(q) /\ k.out = link[p][id].out
    <2>1. PICK l : l = link[p][id]
      OBVIOUS
    <2>2. l \in [out : Seq(PacketOf(p, id)), in : Seq(PacketOf(p, id))] /\ l.in # << >>
      BY <1>1, <1>2, <1>3, <2>1 DEF L!Link
    <2>3. k = [l EXCEPT !.in = Tail(@)]
      BY <1>1, <2>1 DEF L!Taken
    <2>. QED
      BY <1>1, <2>1, <2>2, <2>3, TakenLine DEF L!Link
  <1>6. k \in L!Link(Packet) /\ x \in Packet /\ x.producer = p /\ x.stream_id = id
        /\ x.seq_num \in Nat
    <2>1. k \in L!Link(Packet)
      BY <1>5 DEF PacketOf, L!Link
    <2>. QED
      BY <1>4, <2>1 DEF PacketOf, Packet
  <1>7. PICK t, n : t = taken[p][id] /\ n = Len(t)
    OBVIOUS
  <1>8. /\ t \in Seq(Nat) /\ n \in Nat /\ Len(Append(t, x.seq_num)) = n + 1
        /\ Append(t, x.seq_num) \in Seq(Nat)
    <2>1. t \in Seq(Nat)
      BY <1>3, <1>7 DEF IInv, TypeOK
    <2>. QED
      BY <1>6, <1>7, <2>1
  <1>9. x.seq_num = n /\ \A j \in 1 .. Len(q) : q[j].seq_num = n + j - 1
    <2>1. \A j \in DOMAIN q : q[j].seq_num = n + j - 1
      BY <1>1, <1>3, <1>7 DEF IInv, Continues
    <2>2. x.seq_num = n + 1 - 1
      BY <1>4, <2>1
    <2>3. DOMAIN q = 1 .. Len(q) /\ n + 1 - 1 = n
      BY <1>4, <1>8
    <2>. QED
      BY <2>1, <2>2, <2>3, Zenon
  <1>10. /\ link' \in [Producers -> [Ids -> L!Link(Packet)]] /\ link'[p][id] = k
         /\ \A a \in Producers, d \in Ids : <<a, d>> # <<p, id>> => link'[a][d] = link[a][d]
    <2>1. link \in [Producers -> [Ids -> L!Link(Packet)]]
      BY DEF IInv, TypeOK
    <2>. QED
      BY <1>2, <1>3, <1>6, <2>1
  <1>11. /\ taken' \in [Producers -> [Ids -> Seq(Nat)]] /\ taken'[p][id] = Append(t, x.seq_num)
         /\ \A a \in Producers, d \in Ids : <<a, d>> # <<p, id>> => taken'[a][d] = taken[a][d]
    <2>1. taken \in [Producers -> [Ids -> Seq(Nat)]]
      BY DEF IInv, TypeOK
    <2>2. PICK tt : tt = Append(t, x.seq_num)
      OBVIOUS
    <2>3. taken' = [taken EXCEPT ![p][id] = tt]
      BY <1>2, <1>7, <2>2
    <2>4. tt \in Seq(Nat)
      BY <1>8, <2>2
    <2>. QED
      BY <1>3, <2>1, <2>2, <2>3, <2>4
  <1>12. x \notin processing
    BY <1>6, <1>7, <1>8, <1>9 DEF IInv, ProcessingTaken
  <1>13. TypeOK'
    <2>1. processing' \in SUBSET Packet /\ IsFiniteSet(processing')
      BY <1>2, <1>6, FS_AddElement DEF IInv, TypeOK
    <2>. QED
      BY <1>2, <1>10, <1>11, <2>1 DEF IInv, TypeOK, wires, credit_port
  <1>14. /\ IdsDiffer' /\ \A a \in Producers : StreamIds(a)' = StreamIds(a)
    BY <1>2 DEF IInv, IdsDiffer, StreamIds
  <1>15. PoolFits'
    BY <1>2 DEF IInv, PoolFits, available, claims
  <1>16. Untouched'
    <2>1. id \in StreamIds(p)
      <3>1. L!Idle.in = << >>
        BY DEF L!Idle
      <3>. QED
        BY <1>1, <1>2, <1>3, <3>1 DEF IInv, Untouched
    <2>2. ASSUME NEW a \in Producers, NEW d \in Ids \ StreamIds(a)'
          PROVE  used'[a][d] = 0 /\ link'[a][d] = L!Idle /\ taken'[a][d] = << >>
      <3>1. d \in Ids \ StreamIds(a) /\ <<a, d>> # <<p, id>>
        BY <1>14, <2>1, <2>2
      <3>2. used[a][d] = 0 /\ link[a][d] = L!Idle /\ taken[a][d] = << >>
        BY <3>1 DEF IInv, Untouched
      <3>. QED
        BY <1>2, <1>10, <1>11, <3>1, <3>2
    <2>. QED
      BY <2>2, Zenon DEF Untouched
  <1>17. LinksOwn'
    BY <1>5, <1>10 DEF IInv, LinksOwn
  <1>18. ProcessingTaken'
    <2>1. ASSUME NEW y \in processing'
          PROVE  y.seq_num < Len(taken'[y.producer][y.stream_id])
      <3>1. CASE y = x
        BY <1>6, <1>8, <1>9, <1>11, <3>1
      <3>2. CASE y # x
        <4>1. y \in processing /\ y \in Packet
          BY <1>2, <2>1, <3>2 DEF IInv, TypeOK
        <4>2. y.producer \in Producers /\ y.stream_id \in Ids /\ y.seq_num \in Nat
          BY <4>1 DEF Packet
        <4>3. y.seq_num < Len(taken[y.producer][y.stream_id])
          BY <4>1 DEF IInv, ProcessingTaken
        <4>4. CASE <<y.producer, y.stream_id>> = <<p, id>>
          <5>1. y.seq_num < n
            BY <1>7, <4>3, <4>4
          <5>2. taken'[y.producer][y.stream_id] = Append(t, x.seq_num)
            BY <1>11, <4>4
          <5>. QED
            BY <1>8, <4>2, <5>1, <5>2
        <4>5. CASE <<y.producer, y.stream_id>> # <<p, id>>
          BY <1>11, <4>2, <4>3, <4>5
        <4>. QED
          BY <4>4, <4>5
      <3>. QED
        BY <3>1, <3>2
    <2>. QED
      BY <2>1, Zenon DEF ProcessingTaken
  <1>19. StreamInOrder'
    <2>1. ASSUME NEW a \in Producers, NEW d \in Ids
          PROVE  taken'[a][d] = [i \in 1 .. Len(taken'[a][d]) |-> i - 1]
      <3>1. CASE <<a, d>> = <<p, id>>
        <4>1. t = [i \in 1 .. n |-> i - 1]
          BY <1>3, <1>7 DEF IInv, StreamInOrder
        <4>2. PICK tt : tt = Append(t, n)
          OBVIOUS
        <4>3. /\ tt \in Seq(Nat) /\ Len(tt) = n + 1 /\ tt[n + 1] = n
              /\ \A i \in 1 .. n : tt[i] = t[i]
          BY <1>7, <1>8, <4>2
        <4>4. \A i \in 1 .. n : tt[i] = i - 1
          BY <4>1, <4>3
        <4>5. \A i \in 1 .. n + 1 : tt[i] = i - 1
          BY <1>8, <4>3, <4>4
        <4>6. tt = [i \in 1 .. n + 1 |-> i - 1]
          BY <4>3, <4>5
        <4>7. taken'[a][d] = tt
          BY <1>9, <1>11, <3>1, <4>2
        <4>. QED
          BY <4>3, <4>6, <4>7, Zenon
      <3>2. CASE <<a, d>> # <<p, id>>
        <4>1. taken'[a][d] = taken[a][d]
          BY <1>11, <3>2
        <4>2. taken[a][d] = [i \in 1 .. Len(taken[a][d]) |-> i - 1]
          BY DEF IInv, StreamInOrder
        <4>. QED
          BY <4>1, <4>2, Zenon
      <3>. QED
        BY <3>1, <3>2
    <2>. QED
      BY <2>1, Zenon DEF StreamInOrder
  <1>20. Continues'
    <2>1. ASSUME NEW a \in Producers, NEW d \in Ids, NEW j \in DOMAIN link'[a][d].in
          PROVE  link'[a][d].in[j].seq_num = Len(taken'[a][d]) + j - 1
      <3>1. CASE <<a, d>> = <<p, id>>
        <4>1. link'[a][d].in = Tail(q) /\ taken'[a][d] = Append(t, x.seq_num)
          BY <1>5, <1>10, <1>11, <3>1
        <4>2. j \in 1 .. Len(q) - 1 /\ j + 1 \in 1 .. Len(q)
          BY <1>4, <2>1, <4>1
        <4>3. q[j + 1].seq_num = n + (j + 1) - 1
          BY <1>9, <4>2
        <4>4. Tail(q)[j] = q[j + 1]
          BY <1>4, <4>2
        <4>5. n + (j + 1) - 1 = (n + 1) + j - 1
          BY <1>8, <4>2
        <4>. QED
          BY <1>8, <4>1, <4>3, <4>4, <4>5, Zenon
      <3>2. CASE <<a, d>> # <<p, id>>
        <4>1. link'[a][d] = link[a][d] /\ taken'[a][d] = taken[a][d]
          BY <1>10, <1>11, <3>2
        <4>2. j \in DOMAIN link[a][d].in
          BY <2>1, <4>1
        <4>3. link[a][d].in[j].seq_num = Len(taken[a][d]) + j - 1
          BY <4>2 DEF IInv, Continues
        <4>. QED
          BY <4>1, <4>3, Zenon
      <3>. QED
        BY <3>1, <3>2
    <2>2. ASSUME NEW a \in Producers, NEW i \in DOMAIN streams[a], NEW d,
                 d = streams[a][i].stream_id, ~L!Behind(link'[a][d])
          PROVE  streams[a][i].sent_count = Len(taken'[a][d]) + Len(link'[a][d].in)
      <3>1. d \in Ids
        BY <2>2, IdsType DEF IInv, IdsDiffer
      <3>2. CASE <<a, d>> = <<p, id>>
        <4>1. link'[a][d].in = Tail(q) /\ taken'[a][d] = Append(t, x.seq_num)
              /\ link'[a][d].out = link[a][d].out
          BY <1>5, <1>10, <1>11, <3>2
        <4>2. ~L!Behind(link[a][d])
          BY <2>2, <4>1 DEF L!Behind
        <4>3. streams[a][i].sent_count = Len(taken[a][d]) + Len(link[a][d].in)
          BY <2>2, <4>2 DEF IInv, Continues
        <4>4. streams[a][i].sent_count = n + Len(q)
          BY <1>1, <1>7, <3>2, <4>3
        <4>5. n + Len(q) = (n + 1) + (Len(q) - 1)
          BY <1>4, <1>8
        <4>. QED
          BY <1>4, <1>8, <4>1, <4>4, <4>5, Zenon
      <3>3. CASE <<a, d>> # <<p, id>>
        <4>1. link'[a][d] = link[a][d] /\ taken'[a][d] = taken[a][d]
          BY <1>10, <1>11, <3>1, <3>3
        <4>2. ~L!Behind(link[a][d])
          BY <2>2, <4>1
        <4>3. streams[a][i].sent_count = Len(taken[a][d]) + Len(link[a][d].in)
          BY <2>2, <4>2 DEF IInv, Continues
        <4>. QED
          BY <4>1, <4>3, Zenon
      <3>. QED
        BY <3>2, <3>3
    <2>3. streams' = streams
      BY <1>2
    <2>. QED
      BY <2>1, <2>2, <2>3, Zenon DEF Continues
  <1>21. CreditsConserved'
    <2>1. ASSUME NEW a \in Producers, NEW d \in Ids
          PROVE  UnderWay(a, d)' = UnderWay(a, d)
      <3>1. /\ UnderWay(a, d)' = Len(link'[a][d].in) + Len(link'[a][d].out)
                                 + Cardinality(Processed(a, d)')
            /\ UnderWay(a, d) = Len(link[a][d].in) + Len(link[a][d].out)
                                + Cardinality(Processed(a, d))
            /\ Len(link[a][d].in) \in Nat /\ Len(link[a][d].out) \in Nat
            /\ IsFiniteSet(Processed(a, d)) /\ Cardinality(Processed(a, d)) \in Nat
        BY <1>13, UnderWayType, UnderWayTypeNext DEF IInv
      <3>2. CASE <<a, d>> = <<p, id>>
        <4>1. Processed(a, d)' = Processed(a, d) \cup {x} /\ x \notin Processed(a, d)
          BY <1>2, <1>6, <1>12, <3>2 DEF Processed
        <4>2. Cardinality(Processed(a, d)') = Cardinality(Processed(a, d)) + 1
          BY <3>1, <4>1, FS_AddElement
        <4>3. Len(link'[a][d].in) = Len(q) - 1 /\ Len(link[a][d].in) = Len(q)
              /\ link'[a][d].out = link[a][d].out
          BY <1>1, <1>4, <1>5, <1>10, <3>2
        <4>4. PICK b, c : b = Len(link[a][d].out) /\ c = Cardinality(Processed(a, d))
          OBVIOUS
        <4>5. b \in Nat /\ c \in Nat
          BY <3>1, <4>4, Zenon
        <4>6. (Len(q) - 1) + b + (c + 1) = Len(q) + b + c
          BY <1>4, <4>5
        <4>. QED
          BY <3>1, <4>2, <4>3, <4>4, <4>6, Zenon
      <3>3. CASE <<a, d>> # <<p, id>>
        <4>1. Processed(a, d)' = Processed(a, d)
          BY <1>2, <1>6, <3>3 DEF Processed
        <4>2. link'[a][d] = link[a][d]
          BY <1>10, <3>3
        <4>. QED
          BY <3>1, <4>1, <4>2, Zenon
      <3>. QED
        BY <3>2, <3>3
    <2>2. used' = used /\ lost' = lost
      BY <1>2
    <2>. QED
      BY <2>1, <2>2, NoCreditMoves DEF IInv
  <1>. QED
    BY <1>13, <1>14, <1>15, <1>16, <1>17, <1>18, <1>19, <1>20, <1>21 DEF IInv

\* The credit of a packet that was under way is given back, or lost.
LEMMA ReturnKeeps ==
    ASSUME IInv, NEW pkt \in processing, returnCredit(pkt)
    PROVE  IInv'
  <1>. DEFINE back == credited(pkt)
              to == <<credit_to, pkt.stream_id>>
  <1>1. /\ processing' = processing \ {pkt}
        /\ used' = [p \in Producers |-> [id \in Ids |->
                       IF <<p, id>> \in back THEN used[p][id] - 1 ELSE used[p][id]]]
        /\ lost' = IF back = {} THEN [lost EXCEPT ![pkt.stream_id] = @ + 1] ELSE lost
        /\ credit_in' = IF wiring = "upstream" /\ credit_in < CreditIn THEN credit_in + 1
                        ELSE credit_in
        /\ undefined' \in BOOLEAN
        /\ UNCHANGED <<wires, next_stream_id, streams, link, front_deleted, taken, deleted>>
    BY DEF returnCredit, Touches
  <1>2. /\ pkt \in Packet /\ pkt.producer \in Producers /\ pkt.stream_id \in Ids
        /\ credit_to \in Producers /\ used \in [Producers -> [Ids -> Nat]]
    BY CreditAssumption DEF IInv, TypeOK, Packet
  <1>3. \/ back = {}
        \/ back = {to} /\ used[credit_to][pkt.stream_id] > 0
    BY DEF credited
  <1>. HIDE DEF back
  <1>4. /\ used' \in [Producers -> [Ids -> Nat]]
        /\ \A p \in Producers, id \in Ids :
              used'[p][id] = IF <<p, id>> \in back THEN used[p][id] - 1 ELSE used[p][id]
        /\ \A p \in Producers, id \in Ids : used'[p][id] <= used[p][id]
        /\ \A p \in Producers, id \in Ids : <<p, id>> \in back => used[p][id] > 0
    <2>1. \A p \in Producers, id \in Ids : <<p, id>> \in back => used[p][id] > 0
      BY <1>3
    <2>2. ASSUME NEW p \in Producers, NEW id \in Ids
          PROVE  /\ used[p][id] \in Nat
                 /\ (IF <<p, id>> \in back THEN used[p][id] - 1 ELSE used[p][id]) \in Nat
                 /\ (IF <<p, id>> \in back THEN used[p][id] - 1 ELSE used[p][id]) <= used[p][id]
      <3>1. used[p][id] \in Nat
        BY <1>2
      <3>2. CASE <<p, id>> \in back
        <4>1. used[p][id] > 0
          BY <2>1, <3>2
        <4>. QED
          BY <3>1, <3>2, <4>1
      <3>3. CASE <<p, id>> \notin back
        BY <3>1, <3>3
      <3>. QED
        BY <3>2, <3>3
    <2>3. \A p \in Producers, id \in Ids :
             used'[p][id] = IF <<p, id>> \in back THEN used[p][id] - 1 ELSE used[p][id]
      BY <1>1
    <2>4. used' \in [Producers -> [Ids -> Nat]]
      BY <1>1, <2>2
    <2>. QED
      BY <2>1, <2>2, <2>3, <2>4
  <1>5. lost \in [Ids -> Nat] /\ lost' \in [Ids -> Nat]
    BY <1>1, <1>2 DEF IInv, TypeOK
  <1>6. TypeOK'
    <2>1. processing' \in SUBSET Packet /\ IsFiniteSet(processing')
      BY <1>1, FS_RemoveElement DEF IInv, TypeOK
    <2>2. credit_in' \in 0 .. CreditIn
      <3>1. CreditIn \in Nat
        BY CreditAssumption
      <3>. QED
        BY <1>1, <3>1 DEF IInv, TypeOK
    <2>. QED
      BY <1>1, <1>4, <1>5, <2>1, <2>2 DEF IInv, TypeOK, wires
  <1>7. IdsDiffer' /\ \A p \in Producers : StreamIds(p)' = StreamIds(p)
    BY <1>1 DEF IInv, IdsDiffer, StreamIds
  <1>8. Untouched'
    <2>1. ASSUME NEW p \in Producers, NEW d \in Ids \ StreamIds(p)'
          PROVE  used'[p][d] = 0 /\ link'[p][d] = L!Idle /\ taken'[p][d] = << >>
      <3>1. used[p][d] = 0 /\ link[p][d] = L!Idle /\ taken[p][d] = << >>
        BY <1>7, <2>1 DEF IInv, Untouched
      <3>2. used'[p][d] = used[p][d]
        BY <1>4, <2>1, <3>1
      <3>. QED
        BY <1>1, <3>1, <3>2
    <2>. QED
      BY <2>1, Zenon DEF Untouched
  <1>9. LinksOwn' /\ StreamInOrder' /\ ProcessingTaken'
    <2>1. processing' \subseteq processing
      BY <1>1
    <2>. QED
      BY <1>1, <2>1 DEF IInv, LinksOwn, StreamInOrder, ProcessingTaken
  <1>10. Continues'
    BY <1>1 DEF IInv, Continues
  <1>11. PoolFits'
    <2>1. ASSUME NEW p \in Producers
          PROVE  Cardinality(ClaimsOf(streams'[p], used'[p])) <= total_credits
      <3>1. PICK ss, u, v : ss = streams[p] /\ u = used[p] /\ v = used'[p]
        OBVIOUS
      <3>2. /\ ss \in Seq(StreamInfo) /\ u \in [Ids -> Nat] /\ v \in [Ids -> Nat]
            /\ \A id \in Ids : v[id] <= u[id]
        BY <1>4, <3>1 DEF IInv, TypeOK
      <3>3. Cardinality(ClaimsOf(ss, v)) <= Cardinality(ClaimsOf(ss, u))
        BY <3>2, ReturnFits
      <3>4. Cardinality(ClaimsOf(ss, u)) <= total_credits
        BY <3>1, PoolsFitWhen DEF IInv
      <3>5. Cardinality(ClaimsOf(ss, v)) \in Nat /\ Cardinality(ClaimsOf(ss, u)) \in Nat
        BY <3>2, NeedsType
      <3>6. Cardinality(ClaimsOf(ss, v)) <= total_credits
        BY <3>3, <3>4, <3>5, IdsType
      <3>7. streams'[p] = ss /\ used'[p] = v
        BY <1>1, <3>1
      <3>. QED
        BY <3>6, <3>7, Zenon
    <2>. QED
      BY <1>6, <2>1, PoolsFitNext
  <1>12. CreditsConserved'
    <2>1. SUFFICES ASSUME NEW id \in Ids
                   PROVE  Together([q \in Producers |-> used'[q][id]])
                          = Together([q \in Producers |-> UnderWay(q, id)']) + lost'[id]
      BY Zenon DEF CreditsConserved, Together
    <2>2. PICK n, m, f, g, v, w :
            /\ n = lost[id] /\ m = lost'[id]
            /\ f = [q \in Producers |-> used[q][id]]
            /\ g = [q \in Producers |-> UnderWay(q, id)]
            /\ v = [q \in Producers |-> used'[q][id]]
            /\ w = [q \in Producers |-> UnderWay(q, id)']
      OBVIOUS
    <2>3. /\ n \in Nat /\ m \in Nat
          /\ f \in [Producers -> Nat] /\ v \in [Producers -> Nat]
      BY <1>2, <1>4, <1>5, <2>2
    <2>4. g \in [Producers -> Nat] /\ w \in [Producers -> Nat]
      <3>1. \A q \in Producers : UnderWay(q, id) \in Nat
        BY UnderWayType DEF IInv
      <3>2. \A q \in Producers : UnderWay(q, id)' \in Nat
        BY <1>6, UnderWayTypeNext
      <3>. QED
        BY <2>2, <3>1, <3>2
    <2>5. Together(f) = Together(g) + n
      BY <2>2, Zenon DEF IInv, CreditsConserved
    <2>6. \A q \in Producers :
             Processed(q, id)' = IF q = pkt.producer /\ id = pkt.stream_id
                                 THEN Processed(q, id) \ {pkt} ELSE Processed(q, id)
      BY <1>1, <1>2 DEF Processed
    <2>7. \A q \in Producers :
             w[q] = IF q = pkt.producer /\ id = pkt.stream_id THEN g[q] - 1 ELSE g[q]
      <3>1. ASSUME NEW q \in Producers
            PROVE  w[q] = IF q = pkt.producer /\ id = pkt.stream_id THEN g[q] - 1 ELSE g[q]
        <4>1. /\ w[q] = Len(link[q][id].in) + Len(link[q][id].out)
                        + Cardinality(Processed(q, id)')
              /\ g[q] = Len(link[q][id].in) + Len(link[q][id].out)
                        + Cardinality(Processed(q, id))
              /\ Len(link[q][id].in) \in Nat /\ Len(link[q][id].out) \in Nat
              /\ IsFiniteSet(Processed(q, id)) /\ Cardinality(Processed(q, id)) \in Nat
          <5>1. w[q] = UnderWay(q, id)' /\ g[q] = UnderWay(q, id) /\ link' = link
            BY <1>1, <2>2
          <5>2. UnderWay(q, id)' = Len(link'[q][id].in) + Len(link'[q][id].out)
                                   + Cardinality(Processed(q, id)')
            BY <1>6, UnderWayTypeNext
          <5>3. /\ UnderWay(q, id) = Len(link[q][id].in) + Len(link[q][id].out)
                                     + Cardinality(Processed(q, id))
                /\ Len(link[q][id].in) \in Nat /\ Len(link[q][id].out) \in Nat
                /\ IsFiniteSet(Processed(q, id)) /\ Cardinality(Processed(q, id)) \in Nat
            BY UnderWayType DEF IInv
          <5>. QED
            BY <5>1, <5>2, <5>3, Zenon
        <4>2. CASE q = pkt.producer /\ id = pkt.stream_id
          <5>1. pkt \in Processed(q, id) /\ Processed(q, id)' = Processed(q, id) \ {pkt}
            BY <2>6, <4>2 DEF Processed
          <5>2. Cardinality(Processed(q, id)') = Cardinality(Processed(q, id)) - 1
            BY <4>1, <5>1, FS_RemoveElement
          <5>3. PICK a, b, c : /\ a = Len(link[q][id].in) /\ b = Len(link[q][id].out)
                               /\ c = Cardinality(Processed(q, id))
            OBVIOUS
          <5>4. a \in Nat /\ b \in Nat /\ c \in Nat
            BY <4>1, <5>3, Zenon
          <5>5. a + b + (c - 1) = (a + b + c) - 1
            BY <5>4
          <5>6. w[q] = a + b + (c - 1) /\ g[q] = a + b + c
            BY <4>1, <5>2, <5>3, Zenon
          <5>. QED
            BY <4>2, <5>5, <5>6
        <4>3. CASE ~(q = pkt.producer /\ id = pkt.stream_id)
          <5>1. Processed(q, id)' = Processed(q, id)
            BY <2>6, <4>3
          <5>2. w[q] = g[q]
            BY <4>1, <5>1, Zenon
          <5>. QED
            BY <4>3, <5>2
        <4>. QED
          BY <4>2, <4>3
      <3>. QED
        BY <3>1
    <2>8. \A q \in Producers : v[q] = IF <<q, id>> \in back THEN f[q] - 1 ELSE f[q]
      BY <1>4, <2>2
    <2>9. Together(v) = Together(w) + m
      <3>. DEFINE P == pkt.producer
      <3>1. /\ Cardinality(Tokens(Producers, f)) \in Nat /\ Cardinality(Tokens(Producers, g)) \in Nat
            /\ Cardinality(Tokens(Producers, f)) = Cardinality(Tokens(Producers, g)) + n
        BY <2>3, <2>4, <2>5, IdsType, TokensFinite DEF Together, Tokens
      <3>2. CASE id # pkt.stream_id
        <4>1. \A q \in Producers : <<q, id>> \notin back
          BY <1>3, <3>2
        <4>2. v = f /\ w = g /\ m = n
          <5>1. \A q \in Producers : v[q] = f[q]
            BY <2>8, <4>1
          <5>2. \A q \in Producers : w[q] = g[q]
            BY <2>7, <3>2
          <5>3. m = n
            BY <1>1, <1>2, <1>5, <2>2, <3>2
          <5>. QED
            BY <2>3, <2>4, <5>1, <5>2, <5>3
        <4>. QED
          BY <2>5, <4>2
      <3>3. CASE id = pkt.stream_id
        <4>1. Cardinality(Tokens(Producers, w)) = Cardinality(Tokens(Producers, g)) - 1
          <5>1. P \in Producers /\ w[P] = g[P] - 1 /\ \A q \in Producers \ {P} : w[q] = g[q]
            BY <1>2, <2>7, <3>3
          <5>2. g[P] \in Nat /\ w[P] \in Nat
            BY <2>4, <5>1
          <5>. HIDE DEF P
          <5>3. Cardinality(Tokens(Producers, w))
                = Cardinality(Tokens(Producers, g)) - g[P] + w[P]
            BY <2>4, <5>1, IdsType, TokensChange
          <5>. QED
            BY <3>1, <5>1, <5>2, <5>3
        <4>2. CASE back = {}
          <5>1. v = f
            <6>1. \A q \in Producers : v[q] = f[q]
              BY <2>8, <4>2
            <6>. QED
              BY <2>3, <6>1
          <5>2. m = n + 1
            BY <1>1, <1>2, <1>5, <2>2, <3>3, <4>2
          <5>3. Cardinality(Tokens(Producers, v)) = Cardinality(Tokens(Producers, w)) + m
            BY <2>3, <3>1, <4>1, <5>1, <5>2
          <5>. QED
            BY <5>3 DEF Together, Tokens
        <4>3. CASE back = {to}
          <5>1. v[credit_to] = f[credit_to] - 1 /\ \A q \in Producers \ {credit_to} : v[q] = f[q]
            BY <1>2, <2>8, <3>3, <4>3
          <5>2. f[credit_to] \in Nat /\ v[credit_to] \in Nat
            BY <1>2, <2>3
          <5>3. Cardinality(Tokens(Producers, v))
                = Cardinality(Tokens(Producers, f)) - f[credit_to] + v[credit_to]
            BY <1>2, <2>3, <5>1, IdsType, TokensChange
          <5>4. m = n
            BY <1>1, <2>2, <4>3
          <5>5. Cardinality(Tokens(Producers, v)) = Cardinality(Tokens(Producers, w)) + m
            BY <2>3, <3>1, <4>1, <5>1, <5>2, <5>3, <5>4
          <5>. QED
            BY <5>5 DEF Together, Tokens
        <4>. QED
          BY <1>3, <4>2, <4>3
      <3>. QED
        BY <3>2, <3>3
    <2>. QED
      BY <2>2, <2>9, Zenon
  <1>. QED
    BY <1>6, <1>7, <1>8, <1>9, <1>10, <1>11, <1>12 DEF IInv

-----------------------------------------------------------------------------
LEMMA InitInv == Init => IInv
  <1>1. SUFFICES ASSUME Init
                 PROVE  IInv
    OBVIOUS
  <1>2. /\ L!Idle \in L!Link(Packet) /\ L!Idle.in = << >> /\ L!Idle.out = << >>
        /\ \A S : L!Idle \in L!Link(S)
    BY DEF L!Idle, L!Link
  <1>3. TypeOK
    <2>1. FirstId \in Nat /\ 0 \in 0 .. CreditIn
      BY CreditAssumption
    <2>2. IsFiniteSet({})
      BY FS_EmptySet
    <2>3. /\ next_stream_id \in [Producers -> Nat] /\ credit_in \in 0 .. CreditIn
          /\ streams \in [Producers -> Seq(StreamInfo)]
      BY <1>1, <2>1 DEF Init
    <2>4. /\ used \in [Producers -> [Ids -> Nat]] /\ lost \in [Ids -> Nat]
          /\ taken \in [Producers -> [Ids -> Seq(Nat)]]
      BY <1>1 DEF Init
    <2>5. link \in [Producers -> [Ids -> L!Link(Packet)]]
      BY <1>1, <1>2 DEF Init
    <2>. QED
      BY <1>1, <2>2, <2>3, <2>4, <2>5 DEF Init, TypeOK
  <1>4. \A p \in Producers : streams[p] = << >>
    BY <1>1 DEF Init
  <1>5. IdsDiffer
    BY <1>4 DEF IdsDiffer
  <1>6. Untouched /\ LinksOwn
    BY <1>1, <1>2 DEF Init, Untouched, LinksOwn
  <1>7. Continues /\ ProcessingTaken
    BY <1>1, <1>2, <1>4 DEF Init, Continues, ProcessingTaken
  <1>8. StreamInOrder
    BY <1>1 DEF Init, StreamInOrder
  <1>9. PoolFits
    <2>1. ASSUME NEW p \in Producers
          PROVE  Cardinality(ClaimsOf(streams[p], used[p])) <= total_credits
      <3>1. ClaimsOf(streams[p], used[p]) = {}
        BY <1>4 DEF ClaimsOf, Tokens
      <3>2. Cardinality({}) = 0
        BY FS_EmptySet
      <3>. QED
        BY <3>1, <3>2, IdsType
    <2>. QED
      BY <1>3, <2>1, PoolsFitWhen
  <1>10. CreditsConserved
    <2>1. ASSUME NEW id \in Ids
          PROVE  Together([p \in Producers |-> used[p][id]])
                 = Together([p \in Producers |-> UnderWay(p, id)]) + lost[id]
      <3>1. \A p \in Producers : used[p][id] = 0
        BY <1>1 DEF Init
      <3>2. \A p \in Producers : UnderWay(p, id) = 0
        <4>1. ASSUME NEW p \in Producers
              PROVE  UnderWay(p, id) = 0
          <5>1. Len(link[p][id].in) = 0 /\ Len(link[p][id].out) = 0
            BY <1>1, <1>2 DEF Init
          <5>2. Processed(p, id) = {}
            BY <1>1 DEF Init, Processed
          <5>3. Cardinality(Processed(p, id)) = 0
            BY <5>2, FS_EmptySet
          <5>4. UnderWay(p, id) = Len(link[p][id].in) + Len(link[p][id].out)
                                  + Cardinality(Processed(p, id))
            BY <1>3, UnderWayType
          <5>. QED
            BY <5>1, <5>3, <5>4
        <4>. QED
          BY <4>1
      <3>3. /\ [p \in Producers |-> used[p][id]] = [p \in Producers |-> 0]
            /\ [p \in Producers |-> UnderWay(p, id)] = [p \in Producers |-> 0]
        BY <3>1, <3>2
      <3>4. Together([p \in Producers |-> 0]) = 0
        <4>1. UNION {{p} \X (1 .. [q \in Producers |-> 0][p]) : p \in Producers} = {}
          OBVIOUS
        <4>. QED
          BY <4>1, FS_EmptySet DEF Together
      <3>5. lost[id] = 0
        BY <1>1 DEF Init
      <3>. QED
        BY <3>3, <3>4, <3>5
    <2>. QED
      BY <2>1 DEF CreditsConserved
  <1>. QED
    BY <1>3, <1>5, <1>6, <1>7, <1>8, <1>9, <1>10 DEF IInv

LEMMA NextInv == IInv /\ [Next]_vars => IInv'
  <1>1. SUFFICES ASSUME IInv, [Next]_vars
                 PROVE  IInv'
    OBVIOUS
  <1>2. ASSUME NEW p \in Producers, NEW n \in PacketCounts, NEW r \in Reserves,
               createStream(p, n, r)
        PROVE  IInv'
    BY <1>1, <1>2, CreateKeeps
  <1>3. ASSUME NEW p \in Producers, NEW chosen \in SUBSET DOMAIN streams[p], tick(p, chosen)
        PROVE  IInv'
    BY <1>1, <1>3, TickKeeps
  <1>4. ASSUME NEW p \in Producers, NEW id \in IdsOf(p), portTick(p, id)
        PROVE  IInv'
    BY <1>1, <1>4, PortTickKeeps
  <1>5. ASSUME NEW p \in Producers, NEW id \in IdsOf(p), refuse(p, id)
        PROVE  IInv'
    BY <1>1, <1>5, RefuseKeeps
  <1>6. ASSUME NEW p \in Producers, NEW id \in IdsOf(p), accept(p, id)
        PROVE  IInv'
    BY <1>1, <1>6, AcceptKeeps
  <1>7. CASE creditUnhandled
    BY <1>1, <1>7, UnhandledKeeps
  <1>8. ASSUME NEW pkt \in processing, returnCredit(pkt)
        PROVE  IInv'
    BY <1>1, <1>8, ReturnKeeps
  <1>9. CASE UNCHANGED vars
    <2>1. /\ deleted' \in SUBSET Packet /\ undefined' \in BOOLEAN /\ front_deleted' \in BOOLEAN
          /\ UNCHANGED <<wires, next_stream_id, streams, used, link, processing, credit_in,
                         taken, lost>>
      BY <1>1, <1>9 DEF IInv, TypeOK, vars, credit_port
    <2>. QED
      BY <1>1, <2>1, OnlyDeleted
  <1>. QED
    BY <1>1, <1>2, <1>3, <1>4, <1>5, <1>6, <1>7, <1>8, <1>9 DEF Next

-----------------------------------------------------------------------------
(* Theorems *)

\* The inductive invariant holds in every state that the producers, their
\* connections and the consumer reach.
THEOREM InvariantHolds == Spec => []IInv
  BY InitInv, NextInv, PTL DEF Spec

\* Every variable of the producers, of their pools and connections and of the
\* consumer keeps its type: no stream ever uses a negative number of credits,
\* though the credits of other producers reach it.
THEOREM TypeCorrect == Spec => []TypeOK
  <1>1. IInv => TypeOK
    BY DEF IInv
  <1>. QED
    BY <1>1, InvariantHolds, PTL

\* No pool is overdrawn, whatever is reserved between the ticks and however
\* many streams one tick serves (StreamProducer::createStream and tick).
THEOREM PoolNeverOverdrawn == Spec => []PoolFits
  <1>1. IInv => PoolFits
    BY DEF IInv
  <1>. QED
    BY <1>1, InvariantHolds, PTL

\* Over all producers the credits in use are the packets under way and the
\* credits lost, whatever was refused and to whomever the credits went
\* (StreamProducer::tick and handleDownstreamResponse, the lambda of
\* StreamConsumer::handleUpstreamRequest).
THEOREM CreditsAlwaysConserved == Spec => []CreditsConserved
  <1>1. IInv => CreditsConserved
    BY DEF IInv
  <1>. QED
    BY <1>1, InvariantHolds, PTL

\* The consumer gets the packets of a stream in order, without a gap and once,
\* though the number of a refused packet is used again and a packet that waits
\* at the producer goes behind the others (StreamProducer::tick).
THEOREM StreamsStayInOrder == Spec => []StreamInOrder
  <1>1. IInv => StreamInOrder
    BY DEF IInv
  <1>. QED
    BY <1>1, InvariantHolds, PTL
=============================================================================
