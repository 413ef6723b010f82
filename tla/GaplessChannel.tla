--------------------------- MODULE GaplessChannel ---------------------------
(***************************************************************************)
(* What a connection between two ports promises the modules at its ends,   *)
(* per virtual channel: packets arrive in the order of the sendReq calls   *)
(* and without a gap.  A packet that misses the receiver is the end of the *)
(* channel, unless nothing had arrived before it: no later packet may      *)
(* overtake it.  Buffers, capacities and statistics are left out;          *)
(* PortLink.tla shows that DownstreamPort and UpstreamPort implement this. *)
(***************************************************************************)
EXTENDS Naturals, Sequences

CONSTANT Channels

VARIABLES sent,         \* per channel, the number of packets submitted
          line,         \* per channel, the numbers of those that arrived
          taken         \* per channel, how many the receiver has consumed

vars == <<sent, line, taken>>

TypeOK == /\ sent \in [Channels -> Nat]
          /\ line \in [Channels -> Seq(Nat)]
          /\ taken \in [Channels -> Nat]

Init == /\ sent = [c \in Channels |-> 0]
        /\ line = [c \in Channels |-> << >>]
        /\ taken = [c \in Channels |-> 0]

\* The next packet may arrive: it is the first, or its predecessor arrived.
Intact(c) == line[c] # << >> => line[c][Len(line[c])] = sent[c]

Arrive(c) == /\ Intact(c)
             /\ sent' = [sent EXCEPT ![c] = @ + 1]
             /\ line' = [line EXCEPT ![c] = Append(@, sent[c] + 1)]
             /\ UNCHANGED taken

Miss(c) == /\ sent' = [sent EXCEPT ![c] = @ + 1]
           /\ UNCHANGED <<line, taken>>

\* The receiver consumes the next packet of each channel of cs.
Take(cs) == /\ \A c \in cs : taken[c] < Len(line[c])
            /\ taken' = [c \in Channels |-> IF c \in cs THEN taken[c] + 1 ELSE taken[c]]
            /\ UNCHANGED <<sent, line>>

Next == \/ \E c \in Channels : Arrive(c) \/ Miss(c)
        \/ \E cs \in SUBSET Channels : Take(cs)

Spec == Init /\ [][Next]_vars
=============================================================================
