-------------------------- MODULE EventQueueProofs --------------------------
(***************************************************************************)
(* Proofs, for every set of tickers and lambdas and every choice of delays *)
(* and run lengths, of the safety properties of EventQueue.tla and of its  *)
(* refinement of Metronome.tla.                                            *)
(*                                                                         *)
(* None of them is inductive alone.  IInv ties the queue to the history:   *)
(* the one pending TickEvent of a ticker lies armed + ticked + 1 cycles    *)
(* from the start and at most one cycle ahead; a lambda is pending exactly *)
(* while it is due and not fired; and nothing has happened at or after     *)
(* end_cycle.                                                              *)
(***************************************************************************)
EXTENDS EventQueue, TLAPS

\* Nothing pending lies in the past, and no event object is queued twice.
QueueInv ==
    /\ \A e \in event_queue : e.fire_time >= cur_cycle
    /\ \A e, f \in event_queue : e.ev = f.ev => e = f

\* The cycle of the next tick of a ticker that was started.
NextTick(t) == armed[t] + ticked[t] + 1

TickerInv ==
    /\ \A e \in event_queue : e.ev \in Tickers => armed[e.ev] # Never
    /\ \A t \in Tickers : armed[t] # Never =>
         /\ [ev |-> t, fire_time |-> NextTick(t)] \in event_queue
         /\ NextTick(t) <= cur_cycle + 1
         /\ armed[t] <= cur_cycle
         /\ ticked[t] > 0 => armed[t] + ticked[t] < end_cycle
    /\ \A t \in Tickers : armed[t] = Never => ticked[t] = 0

LambdaInv ==
    /\ \A e \in event_queue : e.ev \in Lambdas =>
         due[e.ev] = e.fire_time /\ fired[e.ev] = Never
    /\ \A l \in Lambdas :
         /\ due[l] # Never /\ fired[l] = Never =>
              [ev |-> l, fire_time |-> due[l]] \in event_queue
         /\ fired[l] # Never => fired[l] = due[l] /\ fired[l] < end_cycle

ClockInv == /\ cur_cycle <= end_cycle
            /\ ~running => cur_cycle = end_cycle

IInv == TypeOK /\ QueueInv /\ TickerInv /\ LambdaInv /\ ClockInv

-----------------------------------------------------------------------------
(* The operators of the model *)

\* What module code schedules: lambdas never scheduled before.
LEMMA RequestsType ==
    ASSUME TypeOK, NEW new \in Requests
    PROVE  /\ DOMAIN new \subseteq Lambdas
           /\ \A l \in DOMAIN new : due[l] = Never /\ new[l] \in Nat
  <1>1. PICK S \in SUBSET {l \in Lambdas : due[l] = Never} : new \in [S -> Delays]
    BY DEF Requests
  <1>2. DOMAIN new = S
    BY <1>1
  <1>. QED
    BY <1>1, <1>2, CyclesAssumption

\* Each entry pushed by module code is for one of the lambdas it schedules,
\* at or after the current cycle, and recorded as due then.
LEMMA ScheduledType ==
    ASSUME TypeOK, NEW new \in Requests, NEW now \in Nat
    PROVE  /\ Scheduled(new, now) \subseteq Event
           /\ Recorded(new, now) \in [Lambdas -> Cycle]
           /\ \A e \in Scheduled(new, now) :
                /\ e.ev \in DOMAIN new
                /\ e.ev \in Lambdas
                /\ e.fire_time = now + new[e.ev]
                /\ e.fire_time >= now
                /\ e.fire_time = Recorded(new, now)[e.ev]
                /\ due[e.ev] = Never
           /\ \A l \in DOMAIN new :
                [ev |-> l, fire_time |-> Recorded(new, now)[l]] \in Scheduled(new, now)
           /\ \A l \in Lambdas \ DOMAIN new : Recorded(new, now)[l] = due[l]
  <1>1. /\ DOMAIN new \subseteq Lambdas
        /\ \A l \in DOMAIN new : due[l] = Never /\ new[l] \in Nat
    BY RequestsType
  <1>2. \A l \in DOMAIN new : Recorded(new, now)[l] = now + new[l]
    BY <1>1 DEF Recorded
  <1>3. \A l \in Lambdas \ DOMAIN new : Recorded(new, now)[l] = due[l]
    BY DEF Recorded
  <1>4. Recorded(new, now) \in [Lambdas -> Cycle]
    BY <1>1 DEF Recorded, TypeOK, Cycle
  <1>5. ASSUME NEW e \in Scheduled(new, now)
        PROVE  /\ e \in Event
               /\ e.ev \in DOMAIN new
               /\ e.ev \in Lambdas
               /\ e.fire_time = now + new[e.ev]
               /\ e.fire_time >= now
               /\ e.fire_time = Recorded(new, now)[e.ev]
               /\ due[e.ev] = Never
    <2>1. PICK l \in DOMAIN new : e = [ev |-> l, fire_time |-> now + new[l]]
      BY DEF Scheduled, schedule
    <2>2. new[l] \in Nat /\ l \in Lambdas /\ due[l] = Never
      BY <1>1
    <2>. QED
      BY <1>2, <2>1, <2>2 DEF Event
  <1>6. \A l \in DOMAIN new :
          [ev |-> l, fire_time |-> Recorded(new, now)[l]] \in Scheduled(new, now)
    BY <1>2 DEF Scheduled, schedule
  <1>. QED
    BY <1>3, <1>4, <1>5, <1>6

-----------------------------------------------------------------------------
(* The inductive invariant, action by action *)

LEMMA InitIInv == Init => IInv
  <1>. SUFFICES ASSUME Init PROVE IInv
    OBVIOUS
  <1>1. TypeOK
    BY DEF Init, TypeOK, Cycle, Event
  <1>2. TickerInv
    BY DEF Init, TickerInv
  <1>3. LambdaInv
    BY DEF Init, LambdaInv
  <1>4. QueueInv /\ ClockInv
    BY DEF Init, QueueInv, ClockInv
  <1>. QED
    BY <1>1, <1>2, <1>3, <1>4 DEF IInv

LEMMA InitiateTickIInv ==
    ASSUME IInv, NEW t \in Tickers, InitiateTick(t)
    PROVE  IInv'
  <1>. DEFINE n == [ev |-> t, fire_time |-> cur_cycle + 1]
  <1>0. /\ ~running /\ armed[t] = Never /\ ticked[t] = 0
        /\ event_queue' = event_queue \cup {n}
        /\ armed' = [armed EXCEPT ![t] = cur_cycle]
        /\ UNCHANGED <<cur_cycle, end_cycle, running, ticked, due, fired>>
    BY DEF InitiateTick, initiate_tick, schedule, IInv, TickerInv
  <1>1. cur_cycle \in Nat /\ n \in Event
    BY DEF IInv, TypeOK, Event
  <1>. HIDE DEF n
  <1>2. n.ev = t /\ n.fire_time = cur_cycle + 1
    BY DEF n
  <1>3. TypeOK'
    BY <1>0, <1>1 DEF IInv, TypeOK, Cycle
  <1>4. QueueInv'
    BY <1>0, <1>1, <1>2 DEF IInv, TypeOK, QueueInv, TickerInv
  <1>5. TickerInv'
    <2>1. \A e \in event_queue' : e.ev \in Tickers => armed'[e.ev] # Never
      BY <1>0, <1>1, <1>2 DEF IInv, TypeOK, TickerInv, Never
    <2>2. armed'[t] = cur_cycle /\ ticked'[t] = 0 /\ n = [ev |-> t, fire_time |-> NextTick(t)']
      BY <1>0, <1>1 DEF IInv, TypeOK, NextTick, n
    <2>3. \A u \in Tickers \ {t} : armed'[u] = armed[u] /\ ticked'[u] = ticked[u]
                                     /\ NextTick(u)' = NextTick(u)
      BY <1>0 DEF IInv, TypeOK, NextTick
    <2>. QED
      BY <1>0, <1>1, <1>2, <2>1, <2>2, <2>3 DEF IInv, TickerInv, n
  <1>6. LambdaInv'
    BY <1>0, <1>2, EventsAssumption DEF IInv, LambdaInv
  <1>7. ClockInv'
    BY <1>0 DEF IInv, ClockInv
  <1>. QED
    BY <1>3, <1>4, <1>5, <1>6, <1>7 DEF IInv

LEMMA ScheduleLambdaIInv ==
    ASSUME IInv, NEW l \in Lambdas, NEW delay \in Delays, ScheduleLambda(l, delay)
    PROVE  IInv'
  <1>. DEFINE n == [ev |-> l, fire_time |-> cur_cycle + delay]
  <1>0. /\ ~running /\ due[l] = Never
        /\ event_queue' = event_queue \cup {n}
        /\ due' = [due EXCEPT ![l] = cur_cycle + delay]
        /\ UNCHANGED <<cur_cycle, end_cycle, running, armed, ticked, fired>>
    BY DEF ScheduleLambda, schedule
  <1>1. cur_cycle \in Nat /\ delay \in Nat /\ n \in Event
    BY CyclesAssumption DEF IInv, TypeOK, Event
  <1>. HIDE DEF n
  <1>2. n.ev = l /\ n.fire_time = cur_cycle + delay /\ l \notin Tickers
    BY EventsAssumption DEF n
  <1>3. TypeOK'
    BY <1>0, <1>1 DEF IInv, TypeOK, Cycle
  <1>8. \A e \in event_queue : e.ev # l
    BY <1>0 DEF IInv, TypeOK, LambdaInv, Event, Never
  <1>4. QueueInv'
    BY <1>0, <1>1, <1>2, <1>8 DEF IInv, TypeOK, QueueInv
  <1>5. TickerInv'
    BY <1>0, <1>2 DEF IInv, TickerInv, NextTick
  <1>6. LambdaInv'
    <2>1. fired[l] = Never
      BY <1>0 DEF IInv, TypeOK, LambdaInv
    <2>2. due'[l] = cur_cycle + delay /\ \A m \in Lambdas \ {l} : due'[m] = due[m]
      BY <1>0 DEF IInv, TypeOK
    <2>3. \A e \in event_queue' : e.ev \in Lambdas =>
            due'[e.ev] = e.fire_time /\ fired'[e.ev] = Never
      BY <1>0, <1>2, <1>8, <2>1, <2>2 DEF IInv, LambdaInv
    <2>4. \A m \in Lambdas : due'[m] # Never /\ fired'[m] = Never =>
            [ev |-> m, fire_time |-> due'[m]] \in event_queue'
      BY <1>0, <2>2 DEF IInv, LambdaInv, n
    <2>5. \A m \in Lambdas : fired'[m] # Never =>
            fired'[m] = due'[m] /\ fired'[m] < end_cycle'
      BY <1>0, <2>1, <2>2 DEF IInv, LambdaInv
    <2>. QED
      BY <2>3, <2>4, <2>5 DEF LambdaInv
  <1>7. ClockInv'
    BY <1>0 DEF IInv, ClockInv
  <1>. QED
    BY <1>3, <1>4, <1>5, <1>6, <1>7 DEF IInv

LEMMA RunIInv ==
    ASSUME IInv, NEW n \in RunLengths, Run(n)
    PROVE  IInv'
  <1>1. n \in Nat /\ cur_cycle \in Nat /\ end_cycle \in Nat
    BY CyclesAssumption DEF IInv, TypeOK
  <1>2. end_cycle' \in Nat /\ end_cycle' >= end_cycle /\ cur_cycle <= end_cycle'
    BY <1>1 DEF Run, IInv, ClockInv
  <1>3. TypeOK'
    BY <1>2 DEF Run, IInv, TypeOK
  <1>4. QueueInv'
    BY DEF Run, IInv, QueueInv
  <1>5. TickerInv'
    BY <1>1, <1>2 DEF Run, IInv, TickerInv, TypeOK, NextTick, Cycle
  <1>6. LambdaInv'
    BY <1>1, <1>2 DEF Run, IInv, LambdaInv, TypeOK, Cycle, Never
  <1>7. ClockInv'
    BY <1>2 DEF Run, ClockInv
  <1>. QED
    BY <1>3, <1>4, <1>5, <1>6, <1>7 DEF IInv

LEMMA ReturnIInv ==
    ASSUME IInv, Return
    PROVE  IInv'
  <1>1. cur_cycle \in Nat /\ end_cycle \in Nat /\ cur_cycle <= end_cycle
    BY DEF IInv, TypeOK, ClockInv
  <1>2. TypeOK'
    BY <1>1 DEF Return, IInv, TypeOK
  <1>3. QueueInv'
    BY DEF Return, IInv, QueueInv
  <1>4. TickerInv'
    BY <1>1 DEF Return, IInv, TickerInv, TypeOK, NextTick, Cycle
  <1>5. LambdaInv'
    BY DEF Return, IInv, LambdaInv
  <1>6. ClockInv'
    BY <1>1 DEF Return, ClockInv
  <1>. QED
    BY <1>2, <1>3, <1>4, <1>5, <1>6 DEF IInv

\* What run() knows of the event it pops and of what the callback schedules.
LEMMA PopFacts ==
    ASSUME IInv, NEW e \in Top, NEW new \in Requests
    PROVE  /\ e \in event_queue /\ e \in Event
           /\ e.fire_time \in Nat /\ e.fire_time >= cur_cycle /\ e.fire_time < end_cycle
           /\ \A f \in event_queue : f.fire_time >= e.fire_time
           /\ \A f \in event_queue, s \in Scheduled(new, e.fire_time) : f.ev # s.ev
           /\ \A s, u \in Scheduled(new, e.fire_time) : s.ev = u.ev => s = u
  <1>1. e \in event_queue /\ e \in Event /\ e.fire_time \in Nat /\ e.ev \in Tickers \cup Lambdas
    BY DEF Top, IInv, TypeOK, Event
  <1>2. e.fire_time >= cur_cycle /\ e.fire_time < end_cycle
    BY <1>1 DEF Top, IInv, QueueInv
  <1>3. \A f \in event_queue : f.fire_time >= e.fire_time
    BY <1>1 DEF Top, IInv, TypeOK, Event
  <1>4. \A s \in Scheduled(new, e.fire_time) :
          s \in Event /\ s.ev \in Lambdas /\ due[s.ev] = Never
            /\ s.fire_time = e.fire_time + new[s.ev]
    BY <1>1, ScheduledType DEF IInv
  <1>5. ASSUME NEW f \in event_queue, NEW s \in Scheduled(new, e.fire_time)
        PROVE  f.ev # s.ev
    BY <1>4 DEF IInv, TypeOK, LambdaInv, Event, Never
  <1>6. ASSUME NEW s \in Scheduled(new, e.fire_time), NEW u \in Scheduled(new, e.fire_time),
               s.ev = u.ev
        PROVE  s = u
    BY <1>4, <1>6 DEF Event
  <1>. QED
    BY <1>1, <1>2, <1>3, <1>5, <1>6

LEMMA TickIInv ==
    ASSUME IInv, NEW e \in Top, NEW new \in Requests, Tick(e, new)
    PROVE  IInv'
  <1>. DEFINE t == e.ev
              at == e.fire_time
              S == Scheduled(new, at)
              n == [ev |-> t, fire_time |-> at + 1]
  <1>1. /\ running /\ t \in Tickers
        /\ cur_cycle' = at
        /\ event_queue' = (event_queue \ {e}) \cup S \cup {n}
        /\ ticked' = [ticked EXCEPT ![t] = @ + 1]
        /\ due' = Recorded(new, at)
        /\ UNCHANGED <<end_cycle, running, armed, fired>>
    BY DEF Tick, initiate_tick, schedule
  <1>2. /\ e \in event_queue /\ e \in Event
        /\ at \in Nat /\ at >= cur_cycle /\ at < end_cycle
        /\ \A f \in event_queue : f.fire_time >= at
        /\ \A f \in event_queue, s \in S : f.ev # s.ev
        /\ \A s, u \in S : s.ev = u.ev => s = u
    BY PopFacts
  <1>3. /\ S \subseteq Event
        /\ due' \in [Lambdas -> Cycle]
        /\ \A s \in S : /\ s.ev \in DOMAIN new
                        /\ s.ev \in Lambdas
                        /\ s.fire_time >= at
                        /\ s.fire_time = due'[s.ev]
                        /\ due[s.ev] = Never
        /\ \A l \in DOMAIN new : [ev |-> l, fire_time |-> due'[l]] \in S
        /\ \A l \in Lambdas \ DOMAIN new : due'[l] = due[l]
    BY <1>1, <1>2, ScheduledType DEF IInv
  <1>4. /\ DOMAIN new \subseteq Lambdas
        /\ \A l \in DOMAIN new : due[l] = Never
    BY RequestsType DEF IInv
  <1>5. n \in Event /\ n.ev = t /\ n.fire_time = at + 1 /\ t \notin Lambdas
    BY <1>1, <1>2, EventsAssumption DEF Event
  <1>6. armed[t] # Never /\ at = NextTick(t)
    <2>1. armed[t] # Never
      BY <1>1, <1>2 DEF IInv, TickerInv
    <2>2. [ev |-> t, fire_time |-> NextTick(t)] \in event_queue
      BY <1>1, <2>1 DEF IInv, TickerInv
    <2>3. e = [ev |-> t, fire_time |-> NextTick(t)]
      BY <1>2, <2>2 DEF IInv, QueueInv
    <2>. QED
      BY <2>1, <2>3
  <1>. HIDE DEF S, n, t, at
  <1>7. TypeOK'
    BY <1>1, <1>2, <1>3, <1>5 DEF IInv, TypeOK
  <1>8. QueueInv'
    <2>1. \A f \in event_queue' : f.fire_time >= cur_cycle'
      BY <1>1, <1>2, <1>3, <1>5
    <2>2. \A f \in event_queue : f.ev = t => f = e
      BY <1>2 DEF IInv, QueueInv, t
    <2>3. \A s \in S : s.ev # t
      BY <1>3, <1>5
    <2>4. \A f, g \in event_queue : f.ev = g.ev => f = g
      BY DEF IInv, QueueInv
    <2>5. \A f, g \in event_queue' : f.ev = g.ev => f = g
      BY <1>1, <1>2, <1>5, <2>2, <2>3, <2>4
    <2>. QED
      BY <2>1, <2>5 DEF QueueInv
  <1>9. TickerInv'
    <2>1. \A f \in event_queue' : f.ev \in Tickers => armed'[f.ev] # Never
      BY <1>1, <1>3, <1>5, <1>6, EventsAssumption DEF IInv, TickerInv
    <2>2. /\ armed[t] \in Nat /\ ticked[t] \in Nat /\ ticked'[t] = ticked[t] + 1
          /\ NextTick(t)' = at + 1
      BY <1>1, <1>6 DEF IInv, TypeOK, Cycle, NextTick
    <2>3. /\ [ev |-> t, fire_time |-> NextTick(t)'] \in event_queue'
          /\ NextTick(t)' <= cur_cycle' + 1
          /\ armed'[t] <= cur_cycle'
          /\ armed'[t] + ticked'[t] < end_cycle'
      BY <1>1, <1>2, <1>6, <2>2 DEF n, NextTick
    <2>4. ASSUME NEW u \in Tickers \ {t}, armed'[u] # Never
          PROVE  /\ [ev |-> u, fire_time |-> NextTick(u)'] \in event_queue'
                 /\ NextTick(u)' <= cur_cycle' + 1
                 /\ armed'[u] <= cur_cycle'
                 /\ ticked'[u] > 0 => armed'[u] + ticked'[u] < end_cycle'
      <3>1. armed'[u] = armed[u] /\ ticked'[u] = ticked[u] /\ NextTick(u)' = NextTick(u)
        BY <1>1 DEF IInv, TypeOK, NextTick
      <3>2. [ev |-> u, fire_time |-> NextTick(u)] # e
        BY DEF t
      <3>3. armed[u] \in Nat /\ ticked[u] \in Nat /\ cur_cycle \in Nat
        BY <2>4, <3>1 DEF IInv, TypeOK, Cycle
      <3>. QED
        BY <1>1, <1>2, <2>4, <3>1, <3>2, <3>3 DEF IInv, TickerInv, NextTick
    <2>5. \A u \in Tickers : armed'[u] = Never => ticked'[u] = 0
      BY <1>1, <1>6 DEF IInv, TypeOK, TickerInv
    <2>. QED
      BY <2>1, <2>3, <2>4, <2>5 DEF TickerInv
  <1>10. LambdaInv'
    <2>1. \A f \in event_queue' : f.ev \in Lambdas =>
            due'[f.ev] = f.fire_time /\ fired'[f.ev] = Never
      <3>1. ASSUME NEW s \in S PROVE due'[s.ev] = s.fire_time /\ fired'[s.ev] = Never
        BY <1>1, <1>3 DEF IInv, LambdaInv
      <3>2. ASSUME NEW f \in event_queue, f.ev \in Lambdas
            PROVE  due'[f.ev] = f.fire_time /\ fired'[f.ev] = Never
        <4>1. due[f.ev] = f.fire_time /\ fired[f.ev] = Never /\ f.fire_time \in Nat
          BY <3>2 DEF IInv, LambdaInv, TypeOK, Event
        <4>2. f.ev \notin DOMAIN new
          BY <1>4, <4>1 DEF Never
        <4>. QED
          BY <1>1, <1>3, <3>2, <4>1, <4>2
      <3>. QED
        BY <1>1, <1>5, <3>1, <3>2
    <2>2. ASSUME NEW l \in Lambdas, due'[l] # Never, fired'[l] = Never
          PROVE  [ev |-> l, fire_time |-> due'[l]] \in event_queue'
      <3>1. CASE l \in DOMAIN new
        BY <1>1, <1>3, <3>1
      <3>2. CASE l \notin DOMAIN new
        <4>1. [ev |-> l, fire_time |-> due'[l]] \in event_queue
          BY <1>1, <1>3, <2>2, <3>2 DEF IInv, LambdaInv
        <4>2. [ev |-> l, fire_time |-> due'[l]] # e
          BY <1>5 DEF t
        <4>. QED
          BY <1>1, <4>1, <4>2
      <3>. QED
        BY <3>1, <3>2
    <2>3. ASSUME NEW l \in Lambdas, fired'[l] # Never
          PROVE  fired'[l] = due'[l] /\ fired'[l] < end_cycle'
      <3>1. fired[l] # Never /\ fired[l] = due[l] /\ fired[l] < end_cycle
        BY <1>1, <2>3 DEF IInv, LambdaInv
      <3>2. l \notin DOMAIN new
        BY <1>4, <3>1
      <3>. QED
        BY <1>1, <1>3, <3>1, <3>2
    <2>. QED
      BY <2>1, <2>2, <2>3 DEF LambdaInv
  <1>11. ClockInv'
    BY <1>1, <1>2 DEF IInv, TypeOK, ClockInv
  <1>. QED
    BY <1>7, <1>8, <1>9, <1>10, <1>11 DEF IInv

LEMMA FireIInv ==
    ASSUME IInv, NEW e \in Top, NEW new \in Requests, Fire(e, new)
    PROVE  IInv'
  <1>. DEFINE m == e.ev
              at == e.fire_time
              S == Scheduled(new, at)
  <1>1. /\ running /\ m \in Lambdas
        /\ cur_cycle' = at
        /\ event_queue' = (event_queue \ {e}) \cup S
        /\ due' = Recorded(new, at)
        /\ fired' = [fired EXCEPT ![m] = at]
        /\ UNCHANGED <<end_cycle, running, armed, ticked>>
    BY DEF Fire
  <1>2. /\ e \in event_queue /\ e \in Event
        /\ at \in Nat /\ at >= cur_cycle /\ at < end_cycle
        /\ \A f \in event_queue : f.fire_time >= at
        /\ \A f \in event_queue, s \in S : f.ev # s.ev
        /\ \A s, u \in S : s.ev = u.ev => s = u
    BY PopFacts
  <1>3. /\ S \subseteq Event
        /\ due' \in [Lambdas -> Cycle]
        /\ \A s \in S : /\ s.ev \in DOMAIN new
                        /\ s.ev \in Lambdas
                        /\ s.fire_time >= at
                        /\ s.fire_time = due'[s.ev]
                        /\ due[s.ev] = Never
        /\ \A l \in DOMAIN new : [ev |-> l, fire_time |-> due'[l]] \in S
        /\ \A l \in Lambdas \ DOMAIN new : due'[l] = due[l]
    BY <1>1, <1>2, ScheduledType DEF IInv
  <1>4. /\ DOMAIN new \subseteq Lambdas
        /\ \A l \in DOMAIN new : due[l] = Never
    BY RequestsType DEF IInv
  <1>5. /\ due[m] = at /\ fired[m] = Never /\ due'[m] = at /\ m \notin DOMAIN new
        /\ fired'[m] = at /\ \A l \in Lambdas \ {m} : fired'[l] = fired[l]
    <2>1. due[m] = at /\ fired[m] = Never
      BY <1>1, <1>2 DEF IInv, LambdaInv
    <2>2. m \notin DOMAIN new
      BY <1>2, <1>4, <2>1 DEF Never
    <2>3. fired \in [Lambdas -> Cycle]
      BY DEF IInv, TypeOK
    <2>. QED
      BY <1>1, <1>3, <2>1, <2>2, <2>3
  <1>. HIDE DEF S, m, at
  <1>6. TypeOK'
    BY <1>1, <1>2, <1>3 DEF IInv, TypeOK, Cycle
  <1>7. QueueInv'
    BY <1>1, <1>2, <1>3 DEF IInv, QueueInv
  <1>8. TickerInv'
    <2>1. \A f \in event_queue' : f.ev \in Tickers => armed'[f.ev] # Never
      BY <1>1, <1>3, EventsAssumption DEF IInv, TickerInv
    <2>2. ASSUME NEW u \in Tickers, armed'[u] # Never
          PROVE  /\ [ev |-> u, fire_time |-> NextTick(u)'] \in event_queue'
                 /\ NextTick(u)' <= cur_cycle' + 1
                 /\ armed'[u] <= cur_cycle'
                 /\ ticked'[u] > 0 => armed'[u] + ticked'[u] < end_cycle'
      <3>1. armed'[u] = armed[u] /\ ticked'[u] = ticked[u] /\ NextTick(u)' = NextTick(u)
        BY <1>1 DEF NextTick
      <3>2. [ev |-> u, fire_time |-> NextTick(u)] # e
        BY <1>1, EventsAssumption DEF m
      <3>3. armed[u] \in Nat /\ ticked[u] \in Nat /\ cur_cycle \in Nat
        BY <2>2, <3>1 DEF IInv, TypeOK, Cycle
      <3>. QED
        BY <1>1, <1>2, <2>2, <3>1, <3>2, <3>3 DEF IInv, TickerInv, NextTick
    <2>3. \A u \in Tickers : armed'[u] = Never => ticked'[u] = 0
      BY <1>1 DEF IInv, TickerInv
    <2>. QED
      BY <2>1, <2>2, <2>3 DEF TickerInv
  <1>9. LambdaInv'
    <2>1. \A f \in event_queue' : f.ev \in Lambdas =>
            due'[f.ev] = f.fire_time /\ fired'[f.ev] = Never
      <3>1. ASSUME NEW s \in S PROVE due'[s.ev] = s.fire_time /\ fired'[s.ev] = Never
        <4>1. fired[s.ev] = Never
          BY <1>3 DEF IInv, LambdaInv
        <4>2. s.ev # m
          BY <1>3, <1>5
        <4>. QED
          BY <1>3, <1>5, <4>1, <4>2
      <3>2. ASSUME NEW f \in event_queue \ {e}, f.ev \in Lambdas
            PROVE  due'[f.ev] = f.fire_time /\ fired'[f.ev] = Never
        <4>1. due[f.ev] = f.fire_time /\ fired[f.ev] = Never /\ f.fire_time \in Nat
          BY <3>2 DEF IInv, LambdaInv, TypeOK, Event
        <4>2. f.ev \notin DOMAIN new
          BY <1>4, <4>1 DEF Never
        <4>3. f.ev # m
          BY <1>2 DEF IInv, QueueInv, m
        <4>. QED
          BY <1>3, <1>5, <3>2, <4>1, <4>2, <4>3
      <3>. QED
        BY <1>1, <3>1, <3>2
    <2>2. ASSUME NEW l \in Lambdas, due'[l] # Never, fired'[l] = Never
          PROVE  [ev |-> l, fire_time |-> due'[l]] \in event_queue'
      <3>0. l # m
        BY <1>2, <1>5, <2>2 DEF Never
      <3>1. CASE l \in DOMAIN new
        BY <1>1, <1>3, <3>1
      <3>2. CASE l \notin DOMAIN new
        <4>1. [ev |-> l, fire_time |-> due'[l]] \in event_queue
          BY <1>3, <1>5, <2>2, <3>0, <3>2 DEF IInv, LambdaInv
        <4>2. [ev |-> l, fire_time |-> due'[l]] # e
          BY <3>0 DEF m
        <4>. QED
          BY <1>1, <4>1, <4>2
      <3>. QED
        BY <3>1, <3>2
    <2>3. ASSUME NEW l \in Lambdas, fired'[l] # Never
          PROVE  fired'[l] = due'[l] /\ fired'[l] < end_cycle'
      <3>1. CASE l = m
        BY <1>1, <1>2, <1>5, <3>1
      <3>2. CASE l # m
        <4>1. fired[l] # Never /\ fired[l] = due[l] /\ fired[l] < end_cycle
          BY <1>5, <2>3, <3>2 DEF IInv, LambdaInv
        <4>2. l \notin DOMAIN new
          BY <1>4, <4>1
        <4>. QED
          BY <1>1, <1>3, <1>5, <3>2, <4>1, <4>2
      <3>. QED
        BY <3>1, <3>2
    <2>. QED
      BY <2>1, <2>2, <2>3 DEF LambdaInv
  <1>10. ClockInv'
    BY <1>1, <1>2 DEF IInv, TypeOK, ClockInv
  <1>. QED
    BY <1>6, <1>7, <1>8, <1>9, <1>10 DEF IInv

\* IInv holds of every reachable state.
THEOREM Inductive == Spec => []IInv
  <1>1. IInv /\ [Next]_vars => IInv'
    <2>. SUFFICES ASSUME IInv, [Next]_vars PROVE IInv'
      OBVIOUS
    <2>1. CASE \E t \in Tickers : InitiateTick(t)
      BY <2>1, InitiateTickIInv
    <2>2. CASE \E l \in Lambdas, delay \in Delays : ScheduleLambda(l, delay)
      BY <2>2, ScheduleLambdaIInv
    <2>3. CASE \E n \in RunLengths : Run(n)
      BY <2>3, RunIInv
    <2>4. CASE \E e \in Top, new \in Requests : Tick(e, new) \/ Fire(e, new)
      BY <2>4, TickIInv, FireIInv
    <2>5. CASE Return
      BY <2>5, ReturnIInv
    <2>6. CASE UNCHANGED vars
      BY <2>6 DEF vars, IInv, TypeOK, QueueInv, TickerInv, LambdaInv, ClockInv, NextTick
    <2>. QED
      BY <2>1, <2>2, <2>3, <2>4, <2>5, <2>6 DEF Next, Loop
  <1>. QED
    BY <1>1, InitIInv, PTL DEF Spec

-----------------------------------------------------------------------------
(* The properties the runs check *)

\* Every state is well typed.
THEOREM TypeCorrect == Spec => []TypeOK
  BY Inductive, PTL DEF IInv

\* Every started ticker has exactly one pending TickEvent, now or one cycle
\* ahead: TickEvent::process and EventQueue::run keep all modules in step.
THEOREM TickersInLockstep == Spec => []Lockstep
  <1>1. IInv => Lockstep
    <2>. SUFFICES ASSUME IInv, NEW t \in Tickers, armed[t] # Never
                  PROVE  \E e \in event_queue :
                           /\ e.ev = t
                           /\ e.fire_time \in {cur_cycle, cur_cycle + 1}
                           /\ \A f \in event_queue : f.ev = t => f = e
      BY DEF Lockstep
    <2>. DEFINE e == [ev |-> t, fire_time |-> NextTick(t)]
    <2>1. e \in event_queue /\ e.ev = t /\ NextTick(t) <= cur_cycle + 1
      BY DEF IInv, TickerInv
    <2>2. NextTick(t) >= cur_cycle /\ NextTick(t) \in Nat /\ cur_cycle \in Nat
      BY <2>1 DEF IInv, QueueInv, TypeOK, Event
    <2>3. \A f \in event_queue : f.ev = t => f = e
      BY <2>1 DEF IInv, QueueInv
    <2>. QED
      BY <2>1, <2>2, <2>3
  <1>. QED
    BY <1>1, Inductive, PTL

\* Between runs a module has had one tick for each completed cycle after the
\* one of its initiate_tick, for every sequence of run() lengths.
THEOREM TicksCounted == Spec => []TickCount
  <1>1. IInv => TickCount
    <2>. SUFFICES ASSUME IInv, ~running, NEW t \in Tickers, armed[t] # Never
                  PROVE  ticked[t] = IF armed[t] = cur_cycle THEN 0
                                     ELSE cur_cycle - armed[t] - 1
      BY DEF TickCount
    <2>1. /\ [ev |-> t, fire_time |-> NextTick(t)] \in event_queue
          /\ NextTick(t) <= cur_cycle + 1
          /\ armed[t] <= cur_cycle
          /\ ticked[t] > 0 => armed[t] + ticked[t] < end_cycle
      BY DEF IInv, TickerInv
    <2>2. NextTick(t) >= cur_cycle /\ cur_cycle = end_cycle
      BY <2>1 DEF IInv, QueueInv, ClockInv
    <2>3. armed[t] \in Nat /\ ticked[t] \in Nat /\ cur_cycle \in Nat
      BY DEF IInv, TypeOK, Cycle
    <2>. QED
      BY <2>1, <2>2, <2>3 DEF NextTick
  <1>. QED
    BY <1>1, Inductive, PTL

\* A lambda is called in the cycle it was scheduled for, and run() leaves
\* uncalled exactly those due at or after the cycle it returns at.
THEOREM LambdasOnTime == Spec => []OnTime
  <1>1. IInv => OnTime
    <2>. SUFFICES ASSUME IInv, NEW l \in Lambdas
                  PROVE  /\ fired[l] # Never => fired[l] = due[l]
                         /\ ~running /\ due[l] # Never =>
                              (fired[l] # Never <=> due[l] < cur_cycle)
      BY DEF OnTime
    <2>1. fired[l] # Never => fired[l] = due[l] /\ fired[l] < end_cycle
      BY DEF IInv, LambdaInv
    <2>2. due[l] # Never /\ fired[l] = Never => due[l] >= cur_cycle
      BY DEF IInv, LambdaInv, QueueInv
    <2>3. due[l] \in Cycle /\ cur_cycle \in Nat /\ (~running => cur_cycle = end_cycle)
      BY DEF IInv, TypeOK, ClockInv
    <2>. QED
      BY <2>1, <2>2, <2>3 DEF Cycle, Never
  <1>. QED
    BY <1>1, Inductive, PTL

\* Simulated time never runs backwards.
THEOREM ClockMonotone == Spec => MonotoneClock
  <1>1. IInv /\ [Next]_vars => [cur_cycle' >= cur_cycle]_vars
    <2>. SUFFICES ASSUME IInv, Next PROVE cur_cycle' >= cur_cycle
      OBVIOUS
    <2>0. cur_cycle \in Nat /\ end_cycle \in Nat /\ cur_cycle <= end_cycle
      BY DEF IInv, TypeOK, ClockInv
    <2>1. CASE \E t \in Tickers : InitiateTick(t)
      BY <2>0, <2>1 DEF InitiateTick
    <2>2. CASE \E l \in Lambdas, delay \in Delays : ScheduleLambda(l, delay)
      BY <2>0, <2>2 DEF ScheduleLambda
    <2>3. CASE \E n \in RunLengths : Run(n)
      BY <2>0, <2>3 DEF Run
    <2>4. CASE \E e \in Top, new \in Requests : Tick(e, new) \/ Fire(e, new)
      BY <2>4, PopFacts DEF Tick, Fire
    <2>5. CASE Return
      BY <2>0, <2>5 DEF Return
    <2>. QED
      BY <2>1, <2>2, <2>3, <2>4, <2>5 DEF Next, Loop
  <1>. QED
    BY <1>1, Inductive, PTL DEF Spec, MonotoneClock

-----------------------------------------------------------------------------
(* Refinement *)

\* The cycle Metronome sees as owed is the one the history determines.
owed == [t \in Tickers |-> IF armed[t] = Never THEN 0 ELSE Pending(t).fire_time]

NextTicks == [t \in Tickers |-> IF armed[t] = Never THEN 0 ELSE NextTick(t)]

OwedIsNext == owed = NextTicks

LEMMA OwedIsNextTick == IInv => OwedIsNext
  <1>. SUFFICES ASSUME IInv PROVE owed = NextTicks
    BY DEF OwedIsNext
  <1>1. ASSUME NEW t \in Tickers, armed[t] # Never
        PROVE  Pending(t).fire_time = NextTick(t)
    <2>. DEFINE p == [ev |-> t, fire_time |-> NextTick(t)]
    <2>1. p \in event_queue /\ p.ev = t
      BY <1>1 DEF IInv, TickerInv
    <2>2. Pending(t) \in event_queue /\ Pending(t).ev = t
      BY <2>1 DEF Pending
    <2>3. Pending(t) = p
      BY <2>1, <2>2 DEF IInv, QueueInv
    <2>. QED
      BY <2>3
  <1>. QED
    BY <1>1 DEF owed, NextTicks

LEMMA OwedIsNextTickAfter == IInv' => OwedIsNext'
  BY OwedIsNextTick, PTL

\* What IInv says in Metronome's terms.
LEMMA OwedFacts ==
    ASSUME IInv, NEW t \in Tickers
    PROVE  /\ owed[t] \in Nat
           /\ armed[t] = Never => owed[t] = 0
           /\ armed[t] # Never =>
                /\ owed[t] = armed[t] + ticked[t] + 1
                /\ owed[t] # 0
                /\ [ev |-> t, fire_time |-> owed[t]] \in event_queue
                /\ owed[t] >= cur_cycle
  <1>1. armed[t] \in Cycle /\ ticked[t] \in Nat
    BY DEF IInv, TypeOK
  <1>2. owed[t] = IF armed[t] = Never THEN 0 ELSE NextTick(t)
    BY OwedIsNextTick DEF OwedIsNext, NextTicks
  <1>3. armed[t] # Never =>
          [ev |-> t, fire_time |-> NextTick(t)] \in event_queue /\ NextTick(t) >= cur_cycle
    BY DEF IInv, TickerInv, QueueInv
  <1>. QED
    BY <1>1, <1>2, <1>3 DEF Cycle, NextTick

\* A step that leaves the tickers' history alone leaves every owed tick alone.
LEMMA OwedUnchanged ==
    ASSUME IInv, IInv', UNCHANGED <<armed, ticked>>
    PROVE  owed' = owed
  <1>1. NextTicks' = NextTicks
    BY DEF NextTicks, NextTick
  <1>. QED
    BY <1>1, OwedIsNextTick, OwedIsNextTickAfter DEF OwedIsNext

\* A later cycle is one Metronome's clock may move to when no pending event
\* lies before it.
LEMMA ReachableWhenNothingEarlier ==
    ASSUME IInv, NEW at \in Nat, at >= cur_cycle,
           \A e \in event_queue : e.fire_time >= at
    PROVE  Abstract!Reachable(at)
  <1>1. \A t \in Tickers : owed[t] # 0 => at <= owed[t]
    BY OwedFacts
  <1>. QED
    BY <1>1 DEF Abstract!Reachable, Abstract!Silent, owed

\* Every step of the event queue is a step of the metronome or leaves it
\* unchanged: InitiateTick is Start, Tick is Beat, Fire and Return are Wait.
LEMMA StepImplements ==
    ASSUME IInv, IInv', [Next]_vars
    PROVE  [Abstract!Next]_(Abstract!vars)
  <1>0. cur_cycle \in Nat /\ end_cycle \in Nat /\ cur_cycle <= end_cycle
    BY DEF IInv, TypeOK, ClockInv
  <1>1. ASSUME NEW t \in Tickers, InitiateTick(t)
        PROVE  Abstract!Start(t)
    <2>1. /\ armed[t] = Never /\ armed' = [armed EXCEPT ![t] = cur_cycle]
          /\ UNCHANGED <<cur_cycle, ticked>>
      BY <1>1 DEF InitiateTick
    <2>2. owed[t] = 0
      BY <2>1, OwedFacts
    <2>3. owed' = [owed EXCEPT ![t] = cur_cycle + 1]
      <3>1. ticked[t] = 0 /\ armed'[t] = cur_cycle /\ cur_cycle # Never
        BY <1>0, <2>1 DEF IInv, TypeOK, TickerInv, Never
      <3>2. NextTick(t)' = cur_cycle + 1
        BY <1>0, <2>1, <3>1 DEF NextTick
      <3>3. \A u \in Tickers \ {t} : armed'[u] = armed[u] /\ NextTick(u)' = NextTick(u)
        BY <2>1 DEF NextTick, IInv, TypeOK
      <3>4. NextTicks' = [NextTicks EXCEPT ![t] = cur_cycle + 1]
        BY <3>1, <3>2, <3>3 DEF NextTicks
      <3>. QED
        BY <3>4, OwedIsNextTick, OwedIsNextTickAfter DEF OwedIsNext
    <2>. QED
      BY <2>1, <2>2, <2>3 DEF Abstract!Start, Abstract!Silent, owed
  <1>2. ASSUME NEW e \in Top, NEW new \in Requests, Tick(e, new)
        PROVE  Abstract!Beat(e.ev)
    <2>. DEFINE t == e.ev
    <2>1. /\ t \in Tickers /\ cur_cycle' = e.fire_time
          /\ ticked' = [ticked EXCEPT ![t] = @ + 1]
          /\ UNCHANGED armed
      BY <1>2 DEF Tick
    <2>2. /\ e \in event_queue /\ e.fire_time \in Nat /\ e.fire_time >= cur_cycle
          /\ \A f \in event_queue : f.fire_time >= e.fire_time
      BY PopFacts
    <2>3. armed[t] # Never
      BY <2>1, <2>2 DEF IInv, TickerInv
    <2>4. owed[t] # 0 /\ [ev |-> t, fire_time |-> owed[t]] \in event_queue
      BY <2>1, <2>3, OwedFacts
    <2>5. owed[t] = e.fire_time
      BY <2>2, <2>4 DEF IInv, QueueInv
    <2>6. owed' = [owed EXCEPT ![t] = @ + 1]
      <3>1. armed[t] \in Nat /\ ticked[t] \in Nat
        BY <2>1, <2>3 DEF IInv, TypeOK, Cycle
      <3>2. ASSUME NEW u \in Tickers
            PROVE  NextTick(u)' = IF u = t THEN NextTick(u) + 1 ELSE NextTick(u)
        BY <2>1, <3>1 DEF NextTick, IInv, TypeOK
      <3>3. NextTicks' = [NextTicks EXCEPT ![t] = @ + 1]
        BY <2>1, <2>3, <3>2 DEF NextTicks
      <3>. QED
        BY <3>3, OwedIsNextTick, OwedIsNextTickAfter DEF OwedIsNext
    <2>7. Abstract!Reachable(owed[t])
      BY <2>2, <2>5, ReachableWhenNothingEarlier
    <2>. QED
      BY <2>1, <2>4, <2>5, <2>6, <2>7 DEF Abstract!Beat, Abstract!Silent, owed
  <1>3. ASSUME cur_cycle' \in Nat, cur_cycle' >= cur_cycle,
               \A e \in event_queue : e.fire_time >= cur_cycle',
               UNCHANGED <<armed, ticked>>
        PROVE  Abstract!Wait
    <2>1. Abstract!Reachable(cur_cycle')
      BY <1>3, ReachableWhenNothingEarlier
    <2>2. owed' = owed
      BY <1>3, OwedUnchanged
    <2>. QED
      BY <1>3, <2>1, <2>2 DEF Abstract!Wait, owed
  <1>4. ASSUME UNCHANGED <<cur_cycle, armed, ticked>>
        PROVE  UNCHANGED Abstract!vars
    BY <1>4, OwedUnchanged DEF Abstract!vars, owed
  <1>5. CASE \E t \in Tickers : InitiateTick(t)
    BY <1>1, <1>5 DEF Abstract!Next
  <1>6. CASE \E l \in Lambdas, delay \in Delays : ScheduleLambda(l, delay)
    BY <1>4, <1>6 DEF ScheduleLambda
  <1>7. CASE \E n \in RunLengths : Run(n)
    BY <1>4, <1>7 DEF Run
  <1>8. ASSUME NEW e \in Top, NEW new \in Requests, Tick(e, new)
        PROVE  Abstract!Next
    BY <1>2, <1>8 DEF Abstract!Next, Tick
  <1>9. ASSUME NEW e \in Top, NEW new \in Requests, Fire(e, new)
        PROVE  Abstract!Next
    <2>1. cur_cycle' = e.fire_time /\ UNCHANGED <<armed, ticked>>
      BY <1>9 DEF Fire
    <2>2. /\ e.fire_time \in Nat /\ e.fire_time >= cur_cycle
          /\ \A f \in event_queue : f.fire_time >= e.fire_time
      BY PopFacts
    <2>. QED
      BY <1>3, <2>1, <2>2 DEF Abstract!Next
  <1>10. CASE Return
    <2>1. /\ cur_cycle' = end_cycle /\ UNCHANGED <<armed, ticked>>
          /\ \A e \in event_queue : e.fire_time >= end_cycle
      BY <1>10 DEF Return
    <2>. QED
      BY <1>0, <1>3, <2>1 DEF Abstract!Next
  <1>11. CASE UNCHANGED vars
    BY <1>4, <1>11 DEF vars
  <1>. QED
    BY <1>5, <1>6, <1>7, <1>8, <1>9, <1>10, <1>11 DEF Next, Loop

\* The event queue ticks every module as Metronome.tla promises.
THEOREM EventQueueIsMetronome == Spec => ImplementsMetronome
  <1>1. Init => Abstract!Init
    <2>. SUFFICES ASSUME Init PROVE Abstract!Init
      OBVIOUS
    <2>1. cur_cycle = 0 /\ \A t \in Tickers : armed[t] = Never
      BY DEF Init
    <2>. QED
      BY <2>1 DEF Abstract!Init, Abstract!Silent
  <1>2. IInv /\ IInv' /\ [Next]_vars => [Abstract!Next]_(Abstract!vars)
    BY StepImplements
  <1>. QED
    BY <1>1, <1>2, Inductive, PTL DEF Spec, Abstract!Spec, ImplementsMetronome
=============================================================================
