----------------------------- MODULE EventQueue -----------------------------
(***************************************************************************)
(* The discrete-event kernel: EventQueue (include/event_queue.hh) driven   *)
(* by SimObject::initiate_tick and TickEvent::process                      *)
(* (include/sim_object.hh).                                                *)
(*                                                                         *)
(* A ticker is the chain of TickEvents begun by one call of initiate_tick. *)
(* A lambda is one LambdaEvent object.  The heap orders events by          *)
(* fire_time only, so events of one cycle are popped in any order: the     *)
(* queue is a set, and popping takes any element of minimal fire_time.     *)
(* process() of either kind of event runs module code, which may schedule  *)
(* further lambdas at the cycle of the event.                              *)
(*                                                                         *)
(* Cycle arithmetic is 64 bits wide in the code and unbounded here: a run  *)
(* that wraps needs 2^64 simulated cycles.                                 *)
(***************************************************************************)
EXTENDS Integers

CONSTANTS Tickers,      \* calls of initiate_tick
          Lambdas,      \* LambdaEvent objects
          Delays,       \* delays passed to schedule()
          RunLengths,   \* arguments of run()
          MaxCycle      \* bound: no run() is begun that would end later

Never == -1

ASSUME EventsAssumption == Tickers \cap Lambdas = {}
ASSUME CyclesAssumption == /\ Delays \subseteq Nat
                           /\ RunLengths \subseteq Nat
                           /\ MaxCycle \in Nat

VARIABLES event_queue,  \* pending events with their fire_time
          cur_cycle,
          end_cycle,    \* the local variable of run()
          running,      \* run() is on the stack
          armed,        \* history: cycle of the initiate_tick call
          ticked,       \* history: calls of tick() made so far
          due,          \* history: cycle a lambda was scheduled for
          fired         \* history: cycle in which a lambda was called

vars == <<event_queue, cur_cycle, end_cycle, running, armed, ticked, due, fired>>

Cycle == Nat \cup {Never}
Event == [ev : Tickers \cup Lambdas, fire_time : Nat]

TypeOK == /\ event_queue \subseteq Event
          /\ cur_cycle \in Nat
          /\ end_cycle \in Nat
          /\ running \in BOOLEAN
          /\ armed \in [Tickers -> Cycle]
          /\ ticked \in [Tickers -> Nat]
          /\ due \in [Lambdas -> Cycle]
          /\ fired \in [Lambdas -> Cycle]

Init == /\ event_queue = {}
        /\ cur_cycle = 0
        /\ end_cycle = 0
        /\ running = FALSE
        /\ armed = [t \in Tickers |-> Never]
        /\ ticked = [t \in Tickers |-> 0]
        /\ due = [l \in Lambdas |-> Never]
        /\ fired = [l \in Lambdas |-> Never]

-----------------------------------------------------------------------------
\* Mutant: the delay taken as an absolute cycle.
scheduleAbsolute(ev, delay, now) == [ev |-> ev, fire_time |-> delay]

\* The entry schedule(ev, delay) pushes when it is called in cycle `now'.
schedule(ev, delay, now) == [ev |-> ev, fire_time |-> now + delay]

\* The entries pushed by module code that schedules, in cycle `now', every
\* lambda of the domain of `new' with its delay.
Scheduled(new, now) == {schedule(l, new[l], now) : l \in DOMAIN new}

\* What module code may schedule: LambdaEvents are allocated for the call,
\* so each is pushed once.
Requests == UNION {[S -> Delays] : S \in SUBSET {l \in Lambdas : due[l] = Never}}

Recorded(new, now) == [l \in Lambdas |-> IF l \in DOMAIN new THEN now + new[l]
                                                             ELSE due[l]]

\* The re-arming of initiate_tick at the end of TickEvent::process.
initiate_tick(t, now) == schedule(t, 1, now)

\* Mutants: an inclusive end of the run; a strict minimum, which two
\* events of one cycle both miss.
TopInclusive == {e \in event_queue : /\ e.fire_time <= end_cycle
                                     /\ \A f \in event_queue : e.fire_time <= f.fire_time}

TopStrict == {e \in event_queue : /\ e.fire_time < end_cycle
                                  /\ \A f \in event_queue \ {e} : e.fire_time < f.fire_time}

\* The events run() may pop next.
Top == {e \in event_queue : /\ e.fire_time < end_cycle
                            /\ \A f \in event_queue : e.fire_time <= f.fire_time}

-----------------------------------------------------------------------------
(* Calls made while no run() is on the stack. *)

InitiateTick(t) == /\ ~running
                   /\ armed[t] = Never
                   /\ event_queue' = event_queue \cup {initiate_tick(t, cur_cycle)}
                   /\ armed' = [armed EXCEPT ![t] = cur_cycle]
                   /\ UNCHANGED <<cur_cycle, end_cycle, running, ticked, due, fired>>

ScheduleLambda(l, delay) ==
    /\ ~running
    /\ due[l] = Never
    /\ event_queue' = event_queue \cup {schedule(l, delay, cur_cycle)}
    /\ due' = [due EXCEPT ![l] = cur_cycle + delay]
    /\ UNCHANGED <<cur_cycle, end_cycle, running, armed, ticked, fired>>

\* Mutant: the argument is taken as an absolute cycle.
RunUntil(num_cycles) == /\ ~running
                        /\ cur_cycle + num_cycles <= MaxCycle
                        /\ end_cycle' = num_cycles
                        /\ running' = TRUE
                        /\ UNCHANGED <<event_queue, cur_cycle, armed, ticked, due, fired>>

Run(num_cycles) == /\ ~running
                   /\ cur_cycle + num_cycles <= MaxCycle
                   /\ end_cycle' = cur_cycle + num_cycles
                   /\ running' = TRUE
                   /\ UNCHANGED <<event_queue, cur_cycle, armed, ticked, due, fired>>

(* One iteration of the loop of run(), by kind of event, and its exit. *)

\* Mutant: top() without pop().
TickPeek(e, new) ==
    /\ running
    /\ e.ev \in Tickers
    /\ cur_cycle' = e.fire_time
    /\ event_queue' = event_queue \cup Scheduled(new, e.fire_time)
                                  \cup {initiate_tick(e.ev, e.fire_time)}
    /\ ticked' = [ticked EXCEPT ![e.ev] = @ + 1]
    /\ due' = Recorded(new, e.fire_time)
    /\ UNCHANGED <<end_cycle, running, armed, fired>>

Tick(e, new) ==
    /\ running
    /\ e.ev \in Tickers
    /\ cur_cycle' = e.fire_time
    /\ event_queue' = (event_queue \ {e}) \cup Scheduled(new, e.fire_time)
                                          \cup {initiate_tick(e.ev, e.fire_time)}
    /\ ticked' = [ticked EXCEPT ![e.ev] = @ + 1]
    /\ due' = Recorded(new, e.fire_time)
    /\ UNCHANGED <<end_cycle, running, armed, fired>>

Fire(e, new) ==
    /\ running
    /\ e.ev \in Lambdas
    /\ cur_cycle' = e.fire_time
    /\ event_queue' = (event_queue \ {e}) \cup Scheduled(new, e.fire_time)
    /\ due' = Recorded(new, e.fire_time)
    /\ fired' = [fired EXCEPT ![e.ev] = e.fire_time]
    /\ UNCHANGED <<end_cycle, running, armed, ticked>>

Return == /\ running
          /\ \A e \in event_queue : e.fire_time >= end_cycle
          /\ cur_cycle' = end_cycle
          /\ running' = FALSE
          /\ UNCHANGED <<event_queue, end_cycle, armed, ticked, due, fired>>

Loop == \/ \E e \in Top, new \in Requests : Tick(e, new) \/ Fire(e, new)
        \/ Return

Next == \/ \E t \in Tickers : InitiateTick(t)
        \/ \E l \in Lambdas, delay \in Delays : ScheduleLambda(l, delay)
        \/ \E n \in RunLengths : Run(n)
        \/ Loop

Spec == Init /\ [][Next]_vars

\* run() is a plain loop: once entered, nothing but it is executed.
FairSpec == Spec /\ WF_vars(Loop)

-----------------------------------------------------------------------------
(* Safety *)

\* Every ticker that was started has exactly one pending TickEvent, for the
\* current cycle or the next: no module is ticked twice in a cycle, misses
\* one, or drifts from the others (TickEvent::process, EventQueue::run).
Lockstep ==
    \A t \in Tickers : armed[t] # Never =>
        \E e \in event_queue : /\ e.ev = t
                               /\ e.fire_time \in {cur_cycle, cur_cycle + 1}
                               /\ \A f \in event_queue : f.ev = t => f = e

\* Between runs a module has been ticked once for every cycle that has
\* completed since the one after its initiate_tick, however the run() calls
\* cut the simulated time up.
TickCount ==
    ~running => \A t \in Tickers : armed[t] # Never =>
        ticked[t] = IF armed[t] = cur_cycle THEN 0 ELSE cur_cycle - armed[t] - 1

\* A lambda is called in the very cycle it was scheduled for; when run()
\* has returned, every lambda due before the current cycle has been called
\* and none due in it has (the loop bound of EventQueue::run is strict).
OnTime ==
    \A l \in Lambdas :
        /\ fired[l] # Never => fired[l] = due[l]
        /\ ~running /\ due[l] # Never => (fired[l] # Never <=> due[l] < cur_cycle)

\* Simulated time never runs backwards: what the heap order of
\* event_compare and the final assignment of run() achieve together.
MonotoneClock == [][cur_cycle' >= cur_cycle]_vars

(* Liveness *)

\* Every run() returns, although each tick puts a new event in the queue:
\* initiate_tick re-arms at a later cycle.
RunReturns == running ~> ~running

(* Refinement *)

Pending(t) == CHOOSE e \in event_queue : e.ev = t

Abstract == INSTANCE Metronome WITH
    now  <- cur_cycle,
    next <- [t \in Tickers |-> IF armed[t] = Never THEN 0 ELSE Pending(t).fire_time]

\* The event queue keeps the promise of Metronome.tla.
ImplementsMetronome == Abstract!Spec
=============================================================================
