-------------------------------- MODULE Link --------------------------------
(***************************************************************************)
(* Virtual channel 0 of a bound connection as a value, for the modules     *)
(* that compose several of them: `out' is OutputVC::buffer of the sender's *)
(* DownstreamPort, `in' is InputVC::buffer of the receiver's UpstreamPort. *)
(* PortLink.tla has the same code as a state machine of its own.           *)
(***************************************************************************)
EXTENDS Naturals, Sequences

CONSTANTS OutCapacity, InCapacity

Idle == [out |-> << >>, in |-> << >>]
Link(Item) == [out : Seq(Item), in : Seq(Item)]

-----------------------------------------------------------------------------
(* DownstreamPort::sendReq, with UpstreamPort::recvReq of the peer *)

Behind(l) == l.out # << >>
Room(l) == Len(l.in) < InCapacity
Direct(l) == ~Behind(l) /\ Room(l)
Queued(l) == ~Direct(l) /\ Len(l.out) < OutCapacity

\* What sendReq returns, and the buffers it leaves behind.
Accepted(l) == Direct(l) \/ Queued(l)
Sent(l, p) == CASE Direct(l) -> [l EXCEPT !.in = Append(@, p)]
                [] Queued(l) -> [l EXCEPT !.out = Append(@, p)]
                [] OTHER     -> l

\* How often it deletes the packet: a receiver without room does, and so does
\* a sender without room.
Deletes(l) == (IF ~Behind(l) /\ ~Room(l) THEN 1 ELSE 0)
              + (IF Accepted(l) THEN 0 ELSE 1)

-----------------------------------------------------------------------------
\* DownstreamPort::tick: trySend puts the front packet behind the others when
\* there is room, and deletes it in either case.
Retried(l) == IF Behind(l) /\ Len(l.out) < OutCapacity
              THEN [l EXCEPT !.out = Append(Tail(@), Head(@))]
              ELSE l

\* UpstreamPort::tick, when the handler accepts the front packet.
Taken(l) == [l EXCEPT !.in = Tail(@)]
=============================================================================
