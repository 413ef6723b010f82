------------------------------ MODULE Metronome ------------------------------
(***************************************************************************)
(* What the simulation kernel promises a module that has called            *)
(* initiate_tick (include/sim_object.hh): from the following cycle on it   *)
(* is ticked exactly once in every cycle, and simulated time never passes  *)
(* a tick that is still owed.  How events are stored, ordered and popped   *)
(* is left out; EventQueue.tla shows that the event queue implements this. *)
(***************************************************************************)
EXTENDS Naturals

CONSTANT Tickers        \* chains of ticks, one per call of initiate_tick

Silent == 0             \* no tick is owed before cycle 1

VARIABLES now,          \* the simulated cycle
          next          \* per ticker, the cycle of the tick it is owed

vars == <<now, next>>

TypeOK == /\ now \in Nat
          /\ next \in [Tickers -> Nat]

Init == /\ now = 0
        /\ next = [t \in Tickers |-> Silent]

\* `at' is a cycle the clock may move to: no owed tick lies before it.
Reachable(at) == /\ at >= now
                 /\ \A t \in Tickers : next[t] # Silent => at <= next[t]

Start(t) == /\ next[t] = Silent
            /\ next' = [next EXCEPT ![t] = now + 1]
            /\ UNCHANGED now

Beat(t) == /\ next[t] # Silent
           /\ Reachable(next[t])
           /\ now' = next[t]
           /\ next' = [next EXCEPT ![t] = @ + 1]

Wait == /\ now' \in Nat
        /\ Reachable(now')
        /\ UNCHANGED next

Next == \/ \E t \in Tickers : Start(t) \/ Beat(t)
        \/ Wait

Spec == Init /\ [][Next]_vars

-----------------------------------------------------------------------------
\* Every ticker that was started is owed its next tick now or one cycle from
\* now, so two tickers are never more than one tick apart.
Lockstep == \A t \in Tickers : next[t] # Silent => next[t] \in {now, now + 1}
=============================================================================
