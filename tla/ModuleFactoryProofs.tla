------------------------- MODULE ModuleFactoryProofs -------------------------
(***************************************************************************)
(* Proofs about ModuleFactory.tla, for any registrations, plugins and      *)
(* files, nested to any depth: every run invariant of it is a theorem.     *)
(*                                                                         *)
(* The arguments rest on who owns what.  An object belongs to the one      *)
(* frame that created it, so ports are bound between objects of one frame; *)
(* a frame is suspended in the fourth phase only, so a frame with bound    *)
(* ports is the innermost or has ended; and the groups of a suspended      *)
(* frame are its own but for those of the frames above it.  The last       *)
(* section is about the patterns of Wildcard.tla.                          *)
(***************************************************************************)
EXTENDS ModuleFactory, Wildcard, SequenceFacts

-----------------------------------------------------------------------------
(* What configurations, frames and objects are made of *)

Configs == {Files[p].config : p \in {q \in DOMAIN Files : Files[q].kind = "object"}}
Contents == {a \in Args \cup {Files[p] : p \in DOMAIN Files} : a.kind # "object"}
EntryNames == {c.modules[k].name : c \in Configs, k \in Nat}
GroupNames == UNION {DOMAIN c.groups : c \in Configs}
Connections == {c.connections[k] : c \in Configs, k \in Nat}
Labels == {c.src.name.port : c \in Connections} \cup {c.dst.name.port : c \in Connections}
Sizes == {BufferSizes(c.output_buffer_sizes) : c \in Connections}
         \cup {BufferSizes(c.input_buffer_sizes) : c \in Connections}
Classes == {r[2] : r \in ObjectTypes \cup ModuleRegistrations}
Members == UNION {{c.groups[g] : g \in DOMAIN c.groups} : c \in Configs}

\* A map from names of instances to numbers of objects.
Map == UNION {[D -> Nat] : D \in {S \in SUBSET EntryNames : IsFiniteSet(S)}}
FrameType == [config : Configs, arg : Contents, self : Nat, phase : 1 .. 6, i : Nat \ {0},
              objects : Map, modules : Map, redefined : SUBSET GroupNames]
Refs == Nat \X Nat
PortType == [label : Labels, sizes : Sizes, peer : {<< >>} \cup Refs]
\* Nothing is ever exposed: what instantiate is given is a path, which has no
\* outputs and inputs.
ObjectType == [class : Classes, hasPortManager : BOOLEAN,
               up : Seq(PortType), down : Seq(PortType), exposed : {<< >>}]

Statuses == {"none", "running", "returned", "threw", "crashed", "started"}
CallType == [status : Statuses] \cup [status : Statuses, arg : Args]

Shapes == /\ heap \in Seq(ObjectType)
          /\ stack \in Seq(FrameType) /\ completed \subseteq FrameType
          /\ instances = EmptyMap
          /\ \A g \in DOMAIN groups : groups[g] \in Members
          /\ call \in CallType

-----------------------------------------------------------------------------
(* The inductive invariants *)

\* A suspended call waits in the phase of the internal instances.
Suspended == \A k \in 2 .. Len(stack) : stack[k].phase = 4

\* What the maps of a frame say of the first `size' objects: each module is
\* the object of its name, unless a later entry took the name.
Entered(f, n) == \E k \in DOMAIN f.config.modules :
                    k < f.i /\ f.config.modules[k].name = n
Retaken(f, n) == \E j, k \in DOMAIN f.config.modules :
                    /\ j < k
                    /\ f.config.modules[j].name = n /\ f.config.modules[k].name = n
IsObject(f, n) == /\ n \in DOMAIN f.objects
                  /\ f.objects[n] = f.modules[n] \/ Retaken(f, n)
MapsOf(f, size) ==
    /\ f.phase = 1 => f.objects = EmptyMap /\ f.modules = EmptyMap
    /\ \A n \in DOMAIN f.objects : f.objects[n] \in 1 .. size
    /\ \A n \in DOMAIN f.modules : f.modules[n] \in 0 .. size
    /\ \A n \in DOMAIN f.modules :
          f.modules[n] # Null => IsObject(f, n) /\ (f.phase = 2 => Entered(f, n))

FramesOK == \A f \in Frames : MapsOf(f, Len(heap))

Core == TypeOK /\ Shapes /\ Suspended /\ FramesOK

-----------------------------------------------------------------------------
(* Phases, maps and sequences *)

LEMMA PhaseNumbers ==
    /\ Len(Phases) = 6
    /\ \A k \in 1 .. 6 : /\ Phases[k] = "plugin" <=> k = 1
                         /\ Phases[k] = "create" <=> k = 2
                         /\ Phases[k] = "groups" <=> k = 3
                         /\ Phases[k] = "internal" <=> k = 4
                         /\ Phases[k] = "ports" <=> k = 5
                         /\ Phases[k] = "connect" <=> k = 6
  BY DEF Phases

LEMMA PutFacts ==
    ASSUME NEW m, NEW n, NEW v
    PROVE  /\ DOMAIN Put(m, n, v) = DOMAIN m \cup {n}
           /\ Put(m, n, v)[n] = v
           /\ \A k \in DOMAIN m : k # n => Put(m, n, v)[k] = m[k]
  BY DEF Put

LEMMA PutType ==
    ASSUME NEW m \in Map, NEW n \in EntryNames, NEW v \in Nat
    PROVE  Put(m, n, v) \in Map
  <1>1. PICK D \in SUBSET EntryNames : IsFiniteSet(D) /\ m \in [D -> Nat]
    BY DEF Map
  <1>2. IsFiniteSet(D \cup {n}) /\ D \cup {n} \in SUBSET EntryNames
    BY <1>1, FS_AddElement
  <1>3. Put(m, n, v) \in [D \cup {n} -> Nat]
    BY <1>1 DEF Put
  <1>. QED
    BY <1>2, <1>3 DEF Map

LEMMA EmptyMapType == EmptyMap \in Map /\ DOMAIN EmptyMap = {}
  <1>1. EmptyMap \in [{} -> Nat] /\ DOMAIN EmptyMap = {}
    BY DEF EmptyMap
  <1>. QED
    BY <1>1, FS_EmptySet DEF Map

\* A frame on top of others.
LEMMA PushFacts ==
    ASSUME NEW S, NEW q \in Seq(S), NEW f \in S
    PROVE  /\ <<f>> \o q \in Seq(S) /\ Len(<<f>> \o q) = Len(q) + 1
           /\ (<<f>> \o q)[1] = f /\ Head(<<f>> \o q) = f /\ Tail(<<f>> \o q) = q
           /\ \A k \in 2 .. Len(q) + 1 : (<<f>> \o q)[k] = q[k - 1]
           /\ <<f>> \o q # << >>
  <1>1. <<f>> \in Seq(S) /\ Len(<<f>>) = 1 /\ <<f>>[1] = f
    OBVIOUS
  <1>2. /\ <<f>> \o q \in Seq(S) /\ Len(<<f>> \o q) = Len(q) + 1
        /\ (<<f>> \o q)[1] = f
        /\ \A k \in 2 .. Len(q) + 1 : (<<f>> \o q)[k] = q[k - 1]
    BY <1>1
  <1>3. <<f>> \o q # << >> /\ Head(<<f>> \o q) = f
    BY <1>2
  <1>4. Tail(<<f>> \o q) = q
    BY <1>2, <1>3
  <1>. QED
    BY <1>2, <1>3, <1>4

LEMMA TailFacts ==
    ASSUME NEW S, NEW q \in Seq(S), q # << >>
    PROVE  /\ Head(q) = q[1] /\ Head(q) \in S /\ Tail(q) \in Seq(S)
           /\ Len(q) \in Nat \ {0} /\ Len(Tail(q)) = Len(q) - 1
           /\ \A k \in 1 .. Len(q) - 1 : Tail(q)[k] = q[k + 1]
  OBVIOUS

\* More objects change nothing about a frame.
LEMMA MapsGrow ==
    ASSUME NEW m \in Nat, NEW n \in Nat, m <= n, NEW f, MapsOf(f, m)
    PROVE  MapsOf(f, n)
  BY DEF MapsOf, IsObject

-----------------------------------------------------------------------------
(* Stacks *)

LEMMA TopFacts ==
    ASSUME Core, Running
    PROVE  /\ stack # << >> /\ top = stack[1] /\ top \in FrameType /\ top \in Frames
           /\ MapsOf(top, Len(heap)) /\ Len(heap) \in Nat
           /\ Tail(stack) \in Seq(FrameType) /\ Len(stack) \in Nat \ {0}
           /\ DOMAIN stack = 1 .. Len(stack) /\ Len(Tail(stack)) = Len(stack) - 1
           /\ \A k \in 1 .. Len(stack) - 1 : Tail(stack)[k] = stack[k + 1]
  <1>1. stack # << >> /\ stack \in Seq(FrameType) /\ heap \in Seq(ObjectType)
    BY DEF Core, TypeOK, Shapes, Running
  <1>2. /\ top = stack[1] /\ top \in FrameType /\ Tail(stack) \in Seq(FrameType)
        /\ Len(stack) \in Nat \ {0} /\ DOMAIN stack = 1 .. Len(stack)
        /\ Len(Tail(stack)) = Len(stack) - 1
        /\ \A k \in 1 .. Len(stack) - 1 : Tail(stack)[k] = stack[k + 1]
    BY <1>1, TailFacts DEF top
  <1>3. top \in Frames
    BY <1>2 DEF Frames
  <1>. QED
    BY <1>1, <1>2, <1>3 DEF Core, FramesOK

RegistriesOK == /\ \A t \in DOMAIN object_registry : <<t, object_registry[t]>> \in ObjectTypes
                /\ \A t \in DOMAIN module_registry :
                      <<t, module_registry[t]>> \in ModuleRegistrations
                /\ registered_plugins \subseteq DOMAIN PluginTypes
                /\ \A g \in DOMAIN groups : groups[g] \in Members

\* The innermost call goes on, with a new frame f.
LEMMA ContinueCore ==
    ASSUME Core, Running, NEW f \in FrameType, Continue(f), f.self = top.self,
           MapsOf(f, Len(heap')), heap' \in Seq(ObjectType), Len(heap) <= Len(heap'),
           RegistriesOK', UNCHANGED <<instances, call, started, completed, calls>>
    PROVE  Core'
  <1>1. /\ stack' \in Seq(FrameType) /\ Len(stack') = Len(stack) /\ stack'[1] = f
        /\ stack' # << >> /\ \A k \in 2 .. Len(stack) : stack'[k] = stack[k]
    BY TopFacts, PushFacts DEF Continue
  <1>2. Len(heap) \in Nat /\ Len(heap') \in Nat /\ Len(stack) \in Nat
    BY DEF Core, Shapes
  <1>3. \A k \in 2 .. Len(stack) : MapsOf(stack[k], Len(heap'))
    <2>1. ASSUME NEW k \in 2 .. Len(stack)
          PROVE  MapsOf(stack[k], Len(heap'))
      <3>1. stack[k] \in Frames
        BY <1>2, TopFacts DEF Frames
      <3>. QED
        BY <1>2, <3>1, MapsGrow DEF Core, FramesOK
    <2>. QED
      BY <2>1
  <1>4. \A k \in 1 .. Len(stack) : MapsOf(stack'[k], Len(heap'))
    BY <1>1, <1>3
  <1>5. FramesOK'
    <2>1. \A g \in completed : MapsOf(g, Len(heap'))
      BY <1>2, MapsGrow DEF Core, FramesOK, Frames
    <2>2. DOMAIN stack' = 1 .. Len(stack)
      BY <1>1
    <2>. QED
      BY <1>4, <2>1, <2>2 DEF FramesOK, Frames
  <1>6. Suspended' /\ Shapes'
    BY <1>1 DEF Core, Suspended, Shapes, RegistriesOK
  <1>7. TypeOK'
    <2>1. \A k \in 1 .. Len(stack') :
             /\ \A n \in DOMAIN stack'[k].objects : stack'[k].objects[n] \in 1 .. Len(heap')
             /\ \A n \in DOMAIN stack'[k].modules : stack'[k].modules[n] \in 0 .. Len(heap')
             /\ stack'[k].phase \in 1 .. Len(Phases)
      <3>1. \A k \in 1 .. Len(stack') : stack'[k] \in FrameType
        BY <1>1
      <3>2. \A k \in 1 .. Len(stack') : stack'[k].phase \in 1 .. Len(Phases)
        BY <3>1, PhaseNumbers DEF FrameType
      <3>. QED
        BY <1>1, <1>4, <3>2 DEF MapsOf
    <2>2. \A k \in 1 .. Len(stack') : k = Len(stack') <=> stack'[k].self = Null
      BY <1>1, <1>2, TopFacts DEF Core, TypeOK
    <2>3. started' \subseteq 1 .. Len(heap')
      BY <1>2 DEF Core, TypeOK
    <2>. QED
      BY <1>1, <2>1, <2>2, <2>3 DEF Core, TypeOK, RegistriesOK, Running
  <1>. QED
    BY <1>5, <1>6, <1>7 DEF Core

\* Nothing is left of the calls in progress.
LEMMA UnwoundCore ==
    ASSUME Core, stack' = << >>, heap' = heap, completed' = completed,
           call' \in CallType,
           call'.status \in {"threw", "returned"}, RegistriesOK',
           UNCHANGED <<instances, started>>, calls' \in 0 .. MaxCalls
    PROVE  Core'
  <1>1. FramesOK'
    <2>1. Frames' = completed
      BY DEF Frames
    <2>. QED
      BY <2>1 DEF Core, FramesOK, Frames
  <1>2. Suspended' /\ Shapes'
    BY DEF Core, Suspended, Shapes, RegistriesOK
  <1>3. TypeOK'
    BY DEF Core, TypeOK, RegistriesOK
  <1>. QED
    BY <1>1, <1>2, <1>3 DEF Core

LEMMA RegistriesSame ==
    ASSUME Core, UNCHANGED <<registries, groups>>
    PROVE  RegistriesOK'
  BY DEF Core, TypeOK, Shapes, RegistriesOK, registries

-----------------------------------------------------------------------------
(* One step of each phase *)

LEMMA ConfigFacts ==
    ASSUME NEW c \in Configs
    PROVE  /\ Len(c.modules) \in Nat /\ DOMAIN c.modules = 1 .. Len(c.modules)
           /\ Len(c.connections) \in Nat /\ DOMAIN c.connections = 1 .. Len(c.connections)
  <1>1. IsList(c.modules) /\ IsList(c.connections)
    BY FilesAssumption DEF Configs
  <1>2. \A s : IsList(s) => Len(s) \in Nat /\ DOMAIN s = 1 .. Len(s)
    BY DEF IsList
  <1>. QED
    BY <1>1, <1>2

LEMMA EntryFacts ==
    ASSUME Core, InLoop("create") \/ InLoop("internal")
    PROVE  /\ Running /\ top.phase \in {2, 4}
           /\ InLoop("create") => top.phase = 2
           /\ InLoop("internal") => top.phase = 4
           /\ top.i \in Nat \ {0} /\ top.i \in DOMAIN top.config.modules
           /\ top.config \in Configs /\ Entry.name \in EntryNames
  <1>1. Running /\ top.i <= Items /\ top \in FrameType
    BY TopFacts DEF InLoop, InPhase
  <1>2. /\ top.phase \in 1 .. 6 /\ top.i \in Nat \ {0} /\ top.config \in Configs
    BY <1>1 DEF FrameType
  <1>3. /\ InLoop("create") => Phases[top.phase] = "create"
        /\ InLoop("internal") => Phases[top.phase] = "internal"
    BY DEF InLoop, InPhase
  <1>4. Items = Len(top.config.modules)
    BY <1>3 DEF Items
  <1>5. top.i \in DOMAIN top.config.modules
    BY <1>1, <1>2, <1>4, ConfigFacts
  <1>6. Entry.name \in EntryNames
    BY <1>2 DEF EntryNames, Entry
  <1>. QED
    BY <1>1, <1>2, <1>3, <1>5, <1>6, PhaseNumbers

LEMMA EndLoopCore ==
    ASSUME Core, EndLoop
    PROVE  Core'
  <1>1. PICK f : f = [top EXCEPT !.phase = @ + 1, !.i = 1]
    OBVIOUS
  <1>2. Running /\ Continue(f) /\ top.phase < 6
        /\ UNCHANGED <<registries, groups, heap, instances, call, started, completed, calls>>
    BY <1>1, PhaseNumbers DEF EndLoop
  <1>3. top \in FrameType /\ MapsOf(top, Len(heap)) /\ Len(heap) \in Nat
    BY <1>2, TopFacts
  <1>4. /\ f \in FrameType /\ f.self = top.self /\ f.phase = top.phase + 1
        /\ f.config = top.config /\ f.objects = top.objects /\ f.modules = top.modules
    <2>1. top.phase + 1 \in 1 .. 6
      BY <1>2, <1>3 DEF FrameType
    <2>2. 1 \in Nat \ {0}
      OBVIOUS
    <2>. QED
      BY <1>1, <1>3, <2>1, <2>2 DEF FrameType
  <1>5. MapsOf(f, Len(heap))
    <2>1. ASSUME f.phase = 2
          PROVE  DOMAIN f.modules = {}
      BY <1>3, <1>4, <2>1, EmptyMapType DEF MapsOf, FrameType
    <2>2. f.phase # 1
      BY <1>3, <1>4 DEF FrameType
    <2>. QED
      BY <1>3, <1>4, <2>1, <2>2 DEF MapsOf, IsObject, Retaken
  <1>6. heap \in Seq(ObjectType)
    BY DEF Core, Shapes
  <1>. QED
    BY <1>2, <1>3, <1>4, <1>5, <1>6, RegistriesSame, ContinueCore

\* The index goes on, and nothing else of the frame changes.
LEMMA AdvancedFacts ==
    ASSUME NEW f \in FrameType, NEW m \in Nat, MapsOf(f, m), f.phase # 1
    PROVE  Advanced(f) \in FrameType /\ MapsOf(Advanced(f), m)
  <1>. DEFINE g == Advanced(f)
  <1>1. /\ g \in FrameType /\ g.phase = f.phase /\ g.config = f.config /\ g.i = f.i + 1
        /\ g.objects = f.objects /\ g.modules = f.modules
    BY DEF Advanced, FrameType
  <1>2. f.i \in Nat
    BY DEF FrameType
  <1>. HIDE DEF g
  <1>3. \A n : Entered(f, n) => Entered(g, n)
    <2>1. \A k \in DOMAIN f.config.modules : k < f.i => k < g.i
      <3>1. \A k \in DOMAIN f.config.modules : k \in Nat
        BY ConfigFacts DEF FrameType
      <3>. QED
        BY <1>1, <1>2, <3>1
    <2>. QED
      BY <1>1, <2>1 DEF Entered
  <1>4. MapsOf(g, m)
    BY <1>1, <1>3 DEF MapsOf, IsObject, Retaken
  <1>. QED
    BY <1>1, <1>4 DEF g

\* The innermost call goes on to the next item, as frame f but for that.
LEMMA AdvanceCore ==
    ASSUME Core, Running, NEW f \in FrameType, Continue(Advanced(f)), f.self = top.self,
           f.phase # 1, MapsOf(f, Len(heap')), heap' \in Seq(ObjectType),
           Len(heap) <= Len(heap'), RegistriesOK',
           UNCHANGED <<instances, call, started, completed, calls>>
    PROVE  Core'
  <1>1. Len(heap') \in Nat
    OBVIOUS
  <1>2. PICK g : g = Advanced(f)
    OBVIOUS
  <1>3. g \in FrameType /\ MapsOf(g, Len(heap')) /\ Continue(g)
    BY <1>1, <1>2, AdvancedFacts
  <1>4. g.self = top.self
    BY <1>2 DEF Advanced, FrameType
  <1>. QED
    BY <1>3, <1>4, ContinueCore

LEMMA LoadPluginsCore ==
    ASSUME Core, NEW loaded \in SUBSET DOMAIN PluginTypes, LoadPlugins(loaded)
    PROVE  Core'
  <1>1. /\ Running /\ Continue(Advanced(top)) /\ loadPlugin(loaded)
        /\ UNCHANGED <<object_registry, groups, heap, instances, call, started, completed, calls>>
    BY DEF LoadPlugins, InLoop, InPhase
  <1>2. top \in FrameType /\ MapsOf(top, Len(heap)) /\ top.phase = 1
    BY <1>1, TopFacts, PhaseNumbers DEF LoadPlugins, InLoop, InPhase, FrameType
  <1>3. RegistriesOK'
    <2>. DEFINE new == UNION {PluginTypes[p] : p \in loaded}
    <2>1. new \subseteq ModuleRegistrations
      BY DEF ModuleRegistrations
    <2>2. \A r \in new : r = <<r[1], r[2]>>
      BY <2>1, RegistrationsAssumption
    <2>3. /\ DOMAIN module_registry' = DOMAIN module_registry \cup {r[1] : r \in new}
          /\ \A t \in DOMAIN module_registry' :
                module_registry'[t] = IF \E r \in new : r[1] = t
                                      THEN (CHOOSE r \in new : r[1] = t)[2]
                                      ELSE module_registry[t]
      BY <1>1 DEF loadPlugin
    <2>. HIDE DEF new
    <2>4. ASSUME NEW t \in DOMAIN module_registry'
          PROVE  <<t, module_registry'[t]>> \in ModuleRegistrations
      <3>1. CASE \E r \in new : r[1] = t
        <4>1. PICK r : r = CHOOSE s \in new : s[1] = t
          OBVIOUS
        <4>2. r \in new /\ r[1] = t
          BY <3>1, <4>1
        <4>3. module_registry'[t] = r[2]
          BY <2>3, <2>4, <3>1, <4>1
        <4>. QED
          BY <2>1, <2>2, <4>2, <4>3
      <3>2. CASE ~\E r \in new : r[1] = t
        <4>1. t \in DOMAIN module_registry /\ module_registry'[t] = module_registry[t]
          BY <2>3, <2>4, <3>2
        <4>. QED
          BY <4>1 DEF Core, TypeOK
      <3>. QED
        BY <3>1, <3>2
    <2>5. registered_plugins' \subseteq DOMAIN PluginTypes
      BY <1>1 DEF loadPlugin, Core, TypeOK
    <2>. QED
      BY <1>1, <2>4, <2>5 DEF RegistriesOK, Core, TypeOK, Shapes
  <1>4. PICK f : f = Advanced(top)
    OBVIOUS
  <1>5. /\ f \in FrameType /\ f.self = top.self /\ f.phase = 1
        /\ f.objects = top.objects /\ f.modules = top.modules
    BY <1>2, <1>4 DEF FrameType, Advanced
  <1>6. MapsOf(f, Len(heap))
    BY <1>2, <1>5, EmptyMapType DEF MapsOf
  <1>7. heap \in Seq(ObjectType) /\ Continue(f) /\ Len(heap) \in Nat
    BY <1>1, <1>4 DEF Core, Shapes
  <1>. QED
    BY <1>1, <1>3, <1>5, <1>6, <1>7, ContinueCore

LEMMA NewObject ==
    ASSUME NEW class \in Classes
    PROVE  Object(class) \in ObjectType
  BY DEF Object, ObjectType

\* A new object takes the name of the current entry; `mods' are the modules.
NewNumber(f, n, id, mods) == [f EXCEPT !.objects = Put(@, n, id), !.modules = mods]

LEMMA NewEntry ==
    ASSUME NEW f \in FrameType, NEW m \in Nat, MapsOf(f, m), f.phase = 2,
           f.i \in DOMAIN f.config.modules,
           NEW n \in EntryNames, n = f.config.modules[f.i].name,
           NEW mods, mods = f.modules \/ mods = Put(f.modules, n, m + 1)
    PROVE  LET g == Advanced(NewNumber(f, n, m + 1, mods))
           IN  g \in FrameType /\ g.self = f.self /\ MapsOf(g, m + 1)
  <1>. DEFINE id == m + 1
              g == Advanced(NewNumber(f, n, id, mods))
  <1>1. id \in Nat /\ id \notin 0 .. m /\ f.i \in Nat \ {0} /\ f.objects \in Map /\ f.modules \in Map
    BY DEF FrameType
  <1>2. Put(f.objects, n, id) \in Map /\ mods \in Map
    BY <1>1, PutType
  <1>3. /\ g \in FrameType /\ g.self = f.self /\ g.phase = 2 /\ g.config = f.config
        /\ g.i = f.i + 1 /\ g.objects = Put(f.objects, n, id) /\ g.modules = mods
    <2>1. PICK h : h = NewNumber(f, n, id, mods)
      OBVIOUS
    <2>2. /\ h \in FrameType /\ h.self = f.self /\ h.phase = 2 /\ h.config = f.config
          /\ h.i = f.i /\ h.objects = Put(f.objects, n, id) /\ h.modules = mods
      BY <1>2, <2>1 DEF NewNumber, FrameType
    <2>3. g = Advanced(h) /\ h.i + 1 \in Nat \ {0}
      BY <1>1, <2>1, <2>2
    <2>. HIDE DEF g
    <2>. QED
      BY <2>2, <2>3 DEF Advanced, FrameType
  <1>. HIDE DEF g
  <1>4. \A k \in DOMAIN g.config.modules : k \in Nat
    BY <1>3, ConfigFacts DEF FrameType
  <1>5. Entered(g, n) /\ \A x : Entered(f, x) => Entered(g, x)
    BY <1>1, <1>3, <1>4 DEF Entered
  <1>6. /\ DOMAIN g.objects = DOMAIN f.objects \cup {n} /\ g.objects[n] = id
        /\ \A x \in DOMAIN f.objects : x # n => g.objects[x] = f.objects[x]
    BY <1>3 DEF Put
  <1>7. \/ g.modules = f.modules
        \/ /\ DOMAIN g.modules = DOMAIN f.modules \cup {n} /\ g.modules[n] = id
           /\ \A x \in DOMAIN f.modules : x # n => g.modules[x] = f.modules[x]
    BY <1>3 DEF Put
  <1>8. /\ \A x \in DOMAIN g.objects : g.objects[x] \in 1 .. id
        /\ \A x \in DOMAIN g.modules : g.modules[x] \in 0 .. id
    <2>1. /\ \A x \in DOMAIN f.objects : f.objects[x] \in 1 .. id
          /\ \A x \in DOMAIN f.modules : f.modules[x] \in 0 .. id
      BY DEF MapsOf
    <2>2. id \in 1 .. id /\ id \in 0 .. id
      BY <1>1
    <2>. HIDE DEF id
    <2>. QED
      BY <1>6, <1>7, <2>1, <2>2
  <1>9. ASSUME NEW x \in DOMAIN g.modules, g.modules[x] # Null
        PROVE  IsObject(g, x) /\ Entered(g, x)
    <2>1. CASE x = n /\ g.modules[x] = id
      BY <1>5, <1>6, <2>1 DEF IsObject
    <2>2. CASE ~(x = n /\ g.modules[x] = id)
      <3>1. x \in DOMAIN f.modules /\ g.modules[x] = f.modules[x]
        BY <1>7, <1>9, <2>2
      <3>2. IsObject(f, x) /\ Entered(f, x)
        BY <1>9, <3>1 DEF MapsOf
      <3>3. Retaken(f, x) => Retaken(g, x)
        BY <1>3 DEF Retaken
      <3>4. CASE x # n
        BY <1>6, <3>1, <3>2, <3>3, <3>4, <1>5 DEF IsObject
      <3>5. CASE x = n
        <4>1. Retaken(g, n)
          <5>1. PICK k \in DOMAIN f.config.modules : k < f.i /\ f.config.modules[k].name = n
            BY <3>2, <3>5 DEF Entered
          <5>. QED
            BY <1>3, <5>1 DEF Retaken
        <4>. QED
          BY <1>5, <1>6, <3>5, <4>1 DEF IsObject
      <3>. QED
        BY <3>4, <3>5
    <2>. QED
      BY <2>1, <2>2
  <1>10. MapsOf(g, id)
    BY <1>3, <1>8, <1>9 DEF MapsOf
  <1>. QED
    BY <1>3, <1>10 DEF g

LEMMA CreateCore ==
    ASSUME Core, InLoop("create"),
           NEW class \in Classes, heap' = Append(heap, Object(class)),
           NEW mods, mods = top.modules \/ mods = Put(top.modules, Entry.name, Len(heap) + 1),
           Continue(Advanced(NewNumber(top, Entry.name, Len(heap) + 1, mods))),
           UNCHANGED <<registries, groups, instances, call, started, completed, calls>>
    PROVE  Core'
  <1>1. /\ Running /\ top.phase = 2 /\ top.i \in DOMAIN top.config.modules
        /\ Entry.name \in EntryNames /\ Entry.name = top.config.modules[top.i].name
    BY EntryFacts DEF Entry
  <1>2. top \in FrameType /\ MapsOf(top, Len(heap)) /\ Len(heap) \in Nat
    BY <1>1, TopFacts
  <1>3. PICK g : g = Advanced(NewNumber(top, Entry.name, Len(heap) + 1, mods))
    OBVIOUS
  <1>4. g \in FrameType /\ g.self = top.self /\ MapsOf(g, Len(heap) + 1)
    BY <1>1, <1>2, <1>3, NewEntry
  <1>5. heap' \in Seq(ObjectType) /\ Len(heap') = Len(heap) + 1
    BY NewObject DEF Core, Shapes
  <1>6. Continue(g) /\ Len(heap) <= Len(heap') /\ MapsOf(g, Len(heap'))
    BY <1>2, <1>3, <1>4, <1>5
  <1>7. RegistriesOK'
    BY RegistriesSame
  <1>. QED
    BY <1>1, <1>4, <1>5, <1>6, <1>7, ContinueCore

LEMMA CreateModuleCore ==
    ASSUME Core, CreateModule
    PROVE  Core'
  <1>1. PICK class : class = module_registry[Entry.type]
    OBVIOUS
  <1>2. class \in Classes
    <2>1. <<Entry.type, class>> \in ModuleRegistrations
      BY <1>1 DEF Core, TypeOK, CreateModule
    <2>. QED
      BY <2>1 DEF Classes
  <1>3. PICK mods : mods = Put(top.modules, Entry.name, Len(heap) + 1)
    OBVIOUS
  <1>4. [top EXCEPT !.objects = Put(@, Entry.name, Len(heap) + 1),
                    !.modules = Put(@, Entry.name, Len(heap) + 1)]
        = NewNumber(top, Entry.name, Len(heap) + 1, mods)
    <2>1. top \in FrameType
      BY TopFacts DEF CreateModule, InLoop, InPhase
    <2>. QED
      BY <1>3, <2>1 DEF NewNumber, FrameType
  <1>5. /\ InLoop("create") /\ heap' = Append(heap, Object(class))
        /\ Continue(Advanced(NewNumber(top, Entry.name, Len(heap) + 1, mods)))
        /\ UNCHANGED <<registries, groups, instances, call, started, completed, calls>>
    BY <1>1, <1>4 DEF CreateModule
  <1>. QED
    BY <1>2, <1>3, <1>5, CreateCore

LEMMA CreateObjectCore ==
    ASSUME Core, CreateObject
    PROVE  Core'
  <1>1. PICK class : class = object_registry[Entry.type]
    OBVIOUS
  <1>2. class \in Classes
    <2>1. <<Entry.type, class>> \in ObjectTypes
      BY <1>1 DEF Core, TypeOK, CreateObject
    <2>. QED
      BY <2>1 DEF Classes
  <1>3. PICK mods : mods = top.modules
    OBVIOUS
  <1>4. [top EXCEPT !.objects = Put(@, Entry.name, Len(heap) + 1)]
        = NewNumber(top, Entry.name, Len(heap) + 1, mods)
    <2>1. top \in FrameType
      BY TopFacts DEF CreateObject, InLoop, InPhase
    <2>. QED
      BY <1>3, <2>1 DEF NewNumber, FrameType
  <1>5. /\ InLoop("create") /\ heap' = Append(heap, Object(class))
        /\ Continue(Advanced(NewNumber(top, Entry.name, Len(heap) + 1, mods)))
        /\ UNCHANGED <<registries, groups, instances, call, started, completed, calls>>
    BY <1>1, <1>4 DEF CreateObject
  <1>. QED
    BY <1>2, <1>3, <1>5, CreateCore

LEMMA StatusFacts ==
    ASSUME NEW c \in CallType, NEW s \in Statuses
    PROVE  [c EXCEPT !.status = s] \in CallType /\ [c EXCEPT !.status = s].status = s
  <1>1. CASE c \in [status : Statuses]
    <2>1. [c EXCEPT !.status = s] \in [status : Statuses]
      BY <1>1
    <2>2. [c EXCEPT !.status = s].status = s
      BY <1>1
    <2>. QED
      BY <2>1, <2>2 DEF CallType
  <1>2. CASE c \in [status : Statuses, arg : Args]
    <2>1. [c EXCEPT !.status = s] \in [status : Statuses, arg : Args]
      BY <1>2
    <2>2. [c EXCEPT !.status = s].status = s
      BY <1>2
    <2>. QED
      BY <2>1, <2>2 DEF CallType
  <1>. QED
    BY <1>1, <1>2 DEF CallType

LEMMA CrashCore ==
    ASSUME Core, Running, Crash
    PROVE  Core'
  <1>1. UNCHANGED <<registries, groups, heap, instances, stack, started, completed, calls>>
    BY DEF Crash
  <1>2. call' = [call EXCEPT !.status = "crashed"]
    BY DEF Crash
  <1>3. call'.status = "crashed" /\ call' \in CallType
    <2>1. call \in CallType /\ "crashed" \in Statuses
      BY DEF Core, Shapes, Statuses
    <2>. QED
      BY <1>2, <2>1, StatusFacts
  <1>4. FramesOK' /\ Suspended' /\ Shapes'
    BY <1>1, <1>3 DEF Core, FramesOK, Frames, MapsOf, Entered, IsObject, Retaken, Suspended,
                      Shapes, registries
  <1>5. TypeOK'
    BY <1>1, <1>3 DEF Core, TypeOK, Running, registries
  <1>. QED
    BY <1>4, <1>5 DEF Core

\* The innermost call goes on to the next item, as it is.
LEMMA TopAdvances ==
    ASSUME Core, Running, top.phase # 1, Continue(Advanced(top)), heap' \in Seq(ObjectType),
           Len(heap) <= Len(heap'), RegistriesOK',
           UNCHANGED <<instances, call, started, completed, calls>>
    PROVE  Core'
  <1>1. PICK f : f = top
    OBVIOUS
  <1>2. f \in FrameType /\ MapsOf(f, Len(heap))
    BY <1>1, TopFacts
  <1>3. Len(heap) \in Nat /\ Len(heap') \in Nat
    BY DEF Core, Shapes
  <1>4. MapsOf(f, Len(heap'))
    BY <1>2, <1>3, MapsGrow
  <1>5. Continue(Advanced(f)) /\ f.self = top.self /\ f.phase # 1
    BY <1>1
  <1>. QED
    BY <1>2, <1>4, <1>5, AdvanceCore

LEMMA HeapStays ==
    ASSUME Core, UNCHANGED heap
    PROVE  heap' \in Seq(ObjectType) /\ Len(heap) <= Len(heap')
  BY DEF Core, Shapes

LEMMA CreateNothingCore ==
    ASSUME Core, CreateNothing
    PROVE  Core'
  <1>1. Running /\ top.phase = 2
    BY EntryFacts DEF CreateNothing
  <1>2. CASE Crash
    BY <1>1, <1>2, CrashCore
  <1>3. CASE /\ Continue(Advanced(top))
             /\ UNCHANGED <<registries, groups, heap, instances, call, started, completed, calls>>
    BY <1>1, <1>3, HeapStays, RegistriesSame, TopAdvances
  <1>. QED
    BY <1>2, <1>3 DEF CreateNothing

LEMMA DefineGroupsCore ==
    ASSUME Core, DefineGroups
    PROVE  Core'
  <1>1. Running /\ top \in FrameType /\ top.phase = 3 /\ Continue(Advanced(top))
    BY TopFacts, PhaseNumbers DEF DefineGroups, InLoop, InPhase, FrameType
  <1>2. \A g \in DOMAIN groups' : groups'[g] \in Members
    BY <1>1 DEF DefineGroups, Members, Core, Shapes, FrameType
  <1>3. RegistriesOK'
    BY <1>2 DEF DefineGroups, RegistriesOK, Core, TypeOK, registries
  <1>. QED
    BY <1>1, <1>3, HeapStays, TopAdvances DEF DefineGroups

LEMMA LookedFacts ==
    ASSUME NEW f \in FrameType, NEW m \in Nat, MapsOf(f, m), f.phase = 4, NEW n \in EntryNames
    PROVE  /\ Looked(f, n) \in FrameType /\ MapsOf(Looked(f, n), m)
           /\ Looked(f, n).self = f.self /\ Looked(f, n).phase = 4
  <1>1. CASE n \in DOMAIN f.modules
    BY <1>1 DEF Looked
  <1>2. CASE n \notin DOMAIN f.modules
    <2>1. PICK g : g = Looked(f, n)
      OBVIOUS
    <2>2. Put(f.modules, n, Null) \in Map
      BY PutType DEF FrameType, Null
    <2>3. /\ g \in FrameType /\ g.self = f.self /\ g.phase = 4 /\ g.config = f.config
          /\ g.objects = f.objects /\ g.modules = Put(f.modules, n, Null)
      BY <1>2, <2>1, <2>2 DEF Looked, FrameType
    <2>4. /\ DOMAIN g.modules = DOMAIN f.modules \cup {n} /\ g.modules[n] = Null
          /\ \A x \in DOMAIN f.modules : g.modules[x] = f.modules[x]
      BY <1>2, <2>3 DEF Put
    <2>5. \A x \in DOMAIN g.modules : g.modules[x] \in 0 .. m
      BY <2>4 DEF MapsOf, Null
    <2>6. \A x \in DOMAIN g.modules : g.modules[x] # Null => IsObject(g, x)
      BY <2>3, <2>4 DEF MapsOf, IsObject, Retaken
    <2>7. MapsOf(g, m)
      BY <2>3, <2>5, <2>6 DEF MapsOf
    <2>. QED
      BY <2>1, <2>3, <2>7
  <1>. QED
    BY <1>1, <1>2

LEMMA SkipInternalCore ==
    ASSUME Core, SkipInternal
    PROVE  Core'
  <1>1. /\ Running /\ top.phase = 4 /\ Entry.name \in EntryNames
        /\ UNCHANGED <<registries, groups, heap, instances, call, started, completed, calls>>
    BY EntryFacts DEF SkipInternal
  <1>2. CASE Continue(Advanced(top))
    BY <1>1, <1>2, HeapStays, RegistriesSame, TopAdvances
  <1>3. CASE Continue(Advanced(Looked(top, Entry.name)))
    <2>1. PICK f : f = Looked(top, Entry.name)
      OBVIOUS
    <2>2. top \in FrameType /\ MapsOf(top, Len(heap)) /\ Len(heap) \in Nat
      BY <1>1, TopFacts
    <2>3. /\ f \in FrameType /\ MapsOf(f, Len(heap)) /\ f.self = top.self /\ f.phase = 4
      BY <1>1, <2>1, <2>2, LookedFacts
    <2>4. /\ Continue(Advanced(f)) /\ f.phase # 1 /\ MapsOf(f, Len(heap'))
          /\ heap' \in Seq(ObjectType) /\ Len(heap) <= Len(heap')
      BY <1>1, <1>3, <2>1, <2>3, HeapStays
    <2>. QED
      BY <1>1, <2>3, <2>4, RegistriesSame, AdvanceCore
  <1>. QED
    BY <1>2, <1>3 DEF SkipInternal

LEMMA NamelessInternalCore ==
    ASSUME Core, NamelessInternal
    PROVE  Core'
  <1>1. /\ call' \in CallType
        /\ call'.status = "threw"
    <2>1. call \in CallType /\ "threw" \in Statuses
      BY DEF Core, Shapes, Statuses
    <2>. QED
      BY <2>1, StatusFacts DEF NamelessInternal
  <1>2. calls' \in 0 .. MaxCalls
    BY DEF NamelessInternal, Core, TypeOK
  <1>3. RegistriesOK'
    BY RegistriesSame DEF NamelessInternal
  <1>. QED
    BY <1>1, <1>2, <1>3, UnwoundCore DEF NamelessInternal

\* A frame at its start.
LEMMA FrameFacts ==
    ASSUME NEW config \in Configs, NEW arg \in Contents, NEW self \in Nat
    PROVE  /\ Frame(config, arg, self) \in FrameType
           /\ \A m : MapsOf(Frame(config, arg, self), m)
           /\ Frame(config, arg, self).self = self /\ Frame(config, arg, self).phase = 1
  <1>1. PICK f : f = Frame(config, arg, self)
    OBVIOUS
  <1>2. /\ f \in FrameType /\ f.self = self /\ f.phase = 1 /\ f.objects = EmptyMap
        /\ f.modules = EmptyMap
    BY <1>1, EmptyMapType DEF Frame, FrameType
  <1>3. \A m : MapsOf(f, m)
    BY <1>2, EmptyMapType DEF MapsOf
  <1>. QED
    BY <1>1, <1>2, <1>3

LEMMA LoadFacts ==
    ASSUME NEW arg \in Args \cup {Files[p] : p \in DOMAIN Files}, NEW config \in loadAndInclude(arg)
    PROVE  config \in Configs /\ arg \in Contents
  BY DEF loadAndInclude, Configs, Contents

\* What an instance is given is a path, and a module is there.
LEMMA EnterFacts ==
    ASSUME Core, EnterInternal
    PROVE  /\ InLoop("internal") /\ Running /\ top.phase = 4 /\ Entry.name \in EntryNames
           /\ Files[Entry.config] \in {Files[p] : p \in DOMAIN Files}
           /\ Entry.name \in DOMAIN top.modules /\ top.modules[Entry.name] \in Nat \ {0}
  <1>1. /\ InLoop("internal") /\ Entry.config \in DOMAIN Files
        /\ Looked(top, Entry.name).modules[Entry.name] # Null
    BY DEF EnterInternal
  <1>2. Running /\ top.phase = 4 /\ Entry.name \in EntryNames
    BY <1>1, EntryFacts
  <1>3. top \in FrameType /\ MapsOf(top, Len(heap)) /\ Len(heap) \in Nat
    BY <1>2, TopFacts
  <1>4. Entry.name \in DOMAIN top.modules
    <2>1. SUFFICES ASSUME Entry.name \notin DOMAIN top.modules
                   PROVE  FALSE
      OBVIOUS
    <2>2. Looked(top, Entry.name).modules = Put(top.modules, Entry.name, Null)
      BY <1>3, <2>1 DEF Looked, FrameType
    <2>. QED
      BY <1>1, <2>2 DEF Put
  <1>5. top.modules[Entry.name] # Null
    BY <1>1, <1>4 DEF Looked
  <1>6. top.modules[Entry.name] \in Nat
    BY <1>3, <1>4 DEF MapsOf
  <1>. QED
    BY <1>1, <1>2, <1>4, <1>5, <1>6 DEF Null

\* The stack after an instance's file was loaded, or not.
LEMMA EnterShape ==
    ASSUME Core, EnterInternal
    PROVE  /\ Running /\ top.phase = 4
           /\ UNCHANGED <<registries, groups, heap, instances, started, completed, calls>>
           /\ \/ stack' = << >> /\ call' = [call EXCEPT !.status = "threw"]
              \/ /\ call' = [call EXCEPT !.status = "running"]
                 /\ \E config \in Configs, arg \in Contents, self \in Nat \ {0} :
                       stack'[1] = Frame(config, arg, self)
                 /\ stack' \in Seq(FrameType) /\ Len(stack) \in Nat \ {0}
                 /\ Len(stack') = Len(stack) + 1 /\ stack'[2] = Advanced(top)
                 /\ \A k \in 3 .. Len(stack) + 1 : stack'[k] = stack[k - 1]
  <1>. DEFINE arg == Files[Entry.config]
              self == top.modules[Entry.name]
              below == <<Advanced(top)>> \o Tail(stack)
  <1>1. /\ Running /\ top.phase = 4 /\ arg \in {Files[p] : p \in DOMAIN Files}
        /\ self \in Nat \ {0}
    BY EnterFacts
  <1>2. instantiateAll(arg, self, below)
        /\ UNCHANGED <<registries, groups, heap, instances, started, completed, calls>>
    BY DEF EnterInternal
  <1>. HIDE DEF arg, self
  <1>3. /\ top \in FrameType /\ MapsOf(top, Len(heap)) /\ Len(heap) \in Nat
        /\ Tail(stack) \in Seq(FrameType) /\ Len(stack) \in Nat \ {0}
        /\ Len(Tail(stack)) = Len(stack) - 1
        /\ \A k \in 1 .. Len(stack) - 1 : Tail(stack)[k] = stack[k + 1]
    BY <1>1, TopFacts
  <1>4. PICK g : g = Advanced(top)
    OBVIOUS
  <1>5. g \in FrameType
    BY <1>1, <1>3, <1>4, AdvancedFacts
  <1>6. /\ below \in Seq(FrameType) /\ Len(below) = Len(stack) /\ below[1] = g
        /\ \A k \in 2 .. Len(stack) : below[k] = stack[k]
    <2>1. below = <<g>> \o Tail(stack)
      BY <1>4
    <2>. HIDE DEF below
    <2>2. /\ below \in Seq(FrameType) /\ Len(below) = Len(Tail(stack)) + 1 /\ below[1] = g
          /\ \A k \in 2 .. Len(Tail(stack)) + 1 : below[k] = Tail(stack)[k - 1]
      BY <1>3, <1>5, <2>1, PushFacts
    <2>3. \A k \in 2 .. Len(stack) : below[k] = stack[k]
      BY <1>3, <2>2
    <2>. QED
      BY <1>3, <2>2, <2>3
  <1>. HIDE DEF below
  <1>7. CASE /\ stack' = << >> /\ call' = [call EXCEPT !.status = "threw"]
    BY <1>1, <1>2, <1>7
  <1>8. CASE \E config \in loadAndInclude(arg) :
                /\ stack' = <<Frame(config, arg, self)>> \o below
                /\ call' = [call EXCEPT !.status = "running"]
    <2>1. PICK config \in loadAndInclude(arg) : stack' = <<Frame(config, arg, self)>> \o below
      BY <1>8
    <2>2. config \in Configs /\ arg \in Contents
      BY <1>1, LoadFacts
    <2>3. PICK f : f = Frame(config, arg, self)
      OBVIOUS
    <2>4. f \in FrameType
      BY <1>1, <2>2, <2>3, FrameFacts
    <2>5. /\ stack' \in Seq(FrameType) /\ Len(stack') = Len(below) + 1 /\ stack'[1] = f
          /\ \A k \in 2 .. Len(below) + 1 : stack'[k] = below[k - 1]
      BY <1>6, <2>1, <2>3, <2>4, PushFacts
    <2>6. stack'[2] = g
      BY <1>3, <1>6, <2>5
    <2>7. \A k \in 3 .. Len(stack) + 1 : stack'[k] = stack[k - 1]
      BY <1>3, <1>6, <2>5
    <2>8. call' = [call EXCEPT !.status = "running"]
      BY <1>8
    <2>. QED
      BY <1>1, <1>2, <1>3, <1>4, <1>6, <2>2, <2>3, <2>5, <2>6, <2>7, <2>8
  <1>. QED
    BY <1>2, <1>7, <1>8 DEF instantiateAll

LEMMA EnterInternalCore ==
    ASSUME Core, EnterInternal
    PROVE  Core'
  <1>1. /\ Running /\ top.phase = 4
        /\ UNCHANGED <<registries, groups, heap, instances, started, completed, calls>>
    BY EnterShape
  <1>2. call \in CallType
    BY DEF Core, Shapes
  <1>3. /\ RegistriesOK' /\ started' \subseteq 1 .. Len(heap') /\ calls' \in 0 .. MaxCalls
    BY <1>1, RegistriesSame DEF Core, TypeOK
  <1>4. CASE stack' = << >> /\ call' = [call EXCEPT !.status = "threw"]
    <2>1. call' \in CallType /\ call'.status = "threw"
      BY <1>2, <1>4, StatusFacts DEF Statuses
    <2>. QED
      BY <1>1, <1>3, <1>4, <2>1, UnwoundCore
  <1>5. CASE /\ call' = [call EXCEPT !.status = "running"]
             /\ \E config \in Configs, arg \in Contents, self \in Nat \ {0} :
                   stack'[1] = Frame(config, arg, self)
             /\ stack' \in Seq(FrameType) /\ Len(stack) \in Nat \ {0}
             /\ Len(stack') = Len(stack) + 1 /\ stack'[2] = Advanced(top)
             /\ \A k \in 3 .. Len(stack) + 1 : stack'[k] = stack[k - 1]
    <2>1. call' \in CallType /\ call'.status = "running"
      BY <1>2, <1>5, StatusFacts DEF Statuses
    <2>2. PICK f : f = stack'[1]
      OBVIOUS
    <2>3. f \in FrameType /\ MapsOf(f, Len(heap)) /\ f.self # Null /\ f.phase = 1
      <3>1. PICK config \in Configs, arg \in Contents, self \in Nat \ {0} :
               f = Frame(config, arg, self)
        BY <1>5, <2>2
      <3>2. /\ self \in Nat /\ f \in FrameType /\ MapsOf(f, Len(heap)) /\ f.phase = 1
            /\ f.self = self
        BY <3>1, FrameFacts
      <3>. QED
        BY <3>2 DEF Null
    <2>4. PICK g : g = Advanced(top)
      OBVIOUS
    <2>5. g \in FrameType /\ MapsOf(g, Len(heap)) /\ g.phase = 4 /\ g.self = top.self
      <3>1. top \in FrameType /\ MapsOf(top, Len(heap)) /\ Len(heap) \in Nat
        BY <1>1, TopFacts
      <3>2. g \in FrameType /\ MapsOf(g, Len(heap))
        BY <1>1, <2>4, <3>1, AdvancedFacts
      <3>3. g.phase = 4 /\ g.self = top.self
        BY <1>1, <2>4, <3>1 DEF Advanced, FrameType
      <3>. QED
        BY <3>2, <3>3
    <2>6. \A k \in 2 .. Len(stack) : MapsOf(stack[k], Len(heap)) /\ stack[k].phase = 4
      BY <1>1, TopFacts DEF Core, FramesOK, Frames, Suspended
    <2>7. \A k \in 1 .. Len(stack) : k = Len(stack) <=> stack[k].self = Null
      BY DEF Core, TypeOK
    <2>8. ASSUME NEW k \in 1 .. Len(stack')
          PROVE  /\ MapsOf(stack'[k], Len(heap)) /\ (k # 1 => stack'[k].phase = 4)
                 /\ k = Len(stack') <=> stack'[k].self = Null
      <3>1. Len(stack') # 1
        BY <1>5
      <3>2. CASE k = 1
        BY <2>2, <2>3, <3>1, <3>2
      <3>3. CASE k = 2
        <4>1. 2 = Len(stack') <=> g.self = Null
          <5>1. 2 = Len(stack') <=> 1 = Len(stack)
            <6>1. Len(stack) \in Nat /\ Len(stack') = Len(stack) + 1
              BY <1>5
            <6>2. \A m, n : m \in Nat /\ n = m + 1 => (2 = n <=> 1 = m)
              OBVIOUS
            <6>. QED
              BY <6>1, <6>2
          <5>2. 1 \in 1 .. Len(stack) /\ stack[1].self = g.self
            BY <1>1, <1>5, <2>5, TopFacts
          <5>. QED
            BY <2>7, <5>1, <5>2
        <4>. QED
          BY <1>5, <2>4, <2>5, <3>3, <4>1
      <3>4. CASE k # 1 /\ k # 2
        <4>1. k \in 3 .. Len(stack) + 1 /\ k - 1 \in 2 .. Len(stack) /\ k - 1 \in 1 .. Len(stack)
              /\ (k = Len(stack') <=> k - 1 = Len(stack))
          BY <1>5, <3>4
        <4>2. PICK l : l = k - 1
          OBVIOUS
        <4>3. /\ stack'[k] = stack[l] /\ l \in 2 .. Len(stack) /\ l \in 1 .. Len(stack)
              /\ (k = Len(stack') <=> l = Len(stack))
          BY <1>5, <4>1, <4>2
        <4>. QED
          BY <2>6, <2>7, <4>3
      <3>. QED
        BY <3>2, <3>3, <3>4
    <2>9. DOMAIN stack' = 1 .. Len(stack') /\ stack' # << >>
      BY <1>5
    <2>10. FramesOK' /\ Suspended'
      <3>1. \A h \in completed : MapsOf(h, Len(heap))
        BY DEF Core, FramesOK, Frames
      <3>2. FramesOK'
        BY <1>1, <2>8, <2>9, <3>1 DEF FramesOK, Frames
      <3>3. \A k \in 2 .. Len(stack') : k \in 1 .. Len(stack') /\ k # 1
        BY <1>5
      <3>4. Suspended'
        BY <2>8, <3>3 DEF Suspended
      <3>. QED
        BY <3>2, <3>4
    <2>11. Shapes'
      BY <1>1, <1>5, <2>1 DEF Core, Shapes
    <2>12. TypeOK'
      <3>1. \A k \in 1 .. Len(stack') : stack'[k].phase \in 1 .. Len(Phases)
        <4>1. \A k \in 1 .. Len(stack') : stack'[k] \in FrameType
          BY <1>5
        <4>. QED
          BY <4>1, PhaseNumbers DEF FrameType
      <3>2. \A k \in 1 .. Len(stack') :
               /\ \A n \in DOMAIN stack'[k].objects : stack'[k].objects[n] \in 1 .. Len(heap')
               /\ \A n \in DOMAIN stack'[k].modules : stack'[k].modules[n] \in 0 .. Len(heap')
        BY <1>1, <2>8 DEF MapsOf
      <3>. QED
        BY <1>3, <2>1, <2>8, <2>9, <3>1, <3>2 DEF TypeOK, RegistriesOK
    <2>. QED
      BY <2>10, <2>11, <2>12 DEF Core
  <1>. QED
    BY <1>4, <1>5, EnterShape

-----------------------------------------------------------------------------
(* Names and ports *)

LEMMA ConnectionFacts ==
    ASSUME Core, InLoop("ports") \/ InLoop("connect")
    PROVE  /\ Running
           /\ InLoop("ports") => top.phase = 5
           /\ InLoop("connect") => top.phase = 6
           /\ top.phase \in {5, 6} /\ top.config \in Configs /\ top.i \in Nat \ {0}
           /\ top.i \in DOMAIN top.config.connections /\ Connection \in Connections
  <1>1. Running /\ top.i <= Items /\ top \in FrameType
    BY TopFacts DEF InLoop, InPhase
  <1>2. top.phase \in 1 .. 6 /\ top.i \in Nat \ {0} /\ top.config \in Configs
    BY <1>1 DEF FrameType
  <1>3. /\ InLoop("ports") => Phases[top.phase] = "ports"
        /\ InLoop("connect") => Phases[top.phase] = "connect"
    BY DEF InLoop, InPhase
  <1>4. Items = Len(top.config.connections)
    BY <1>3 DEF Items
  <1>5. top.i \in DOMAIN top.config.connections
    BY <1>1, <1>2, <1>4, ConfigFacts
  <1>6. Connection \in Connections
    BY <1>2 DEF Connections, Connection
  <1>. QED
    BY <1>1, <1>2, <1>3, <1>5, <1>6, PhaseNumbers

\* A name leads to an object of the innermost call, and through no module: nothing is exposed.
LEMMA DenotedFacts ==
    ASSUME Core, Running, NEW name, ~ThroughNull(top, name), NEW d \in Denoted(top, name)
    PROVE  /\ name.port # NoPort /\ name.module \in DOMAIN top.objects
           /\ d.object = top.objects[name.module] /\ d.label = name.port
           /\ d.object \in 1 .. Len(heap)
  <1>1. top \in FrameType /\ MapsOf(top, Len(heap)) /\ Len(heap) \in Nat
        /\ heap \in Seq(ObjectType)
    BY TopFacts DEF Core, Shapes
  <1>2. PICK path :
           path = IF name.port = NoPort THEN {}
                  ELSE IF name.module \in DOMAIN top.modules
                       THEN findInternalPath(heap[top.modules[name.module]], name.port)
                       ELSE {name}
    OBVIOUS
  <1>3. PICK q \in path : /\ q.module \in DOMAIN top.objects
                          /\ d = [object |-> top.objects[q.module], label |-> q.port]
    BY <1>2 DEF Denoted
  <1>4. name.port # NoPort
    BY <1>2, <1>3
  <1>5. name.module \notin DOMAIN top.modules
    <2>1. SUFFICES ASSUME name.module \in DOMAIN top.modules
                   PROVE  FALSE
      OBVIOUS
    <2>2. PICK id : id = top.modules[name.module]
      OBVIOUS
    <2>3. id \in 1 .. Len(heap)
      BY <1>1, <1>4, <2>1, <2>2 DEF MapsOf, ThroughNull, Null
    <2>4. heap[id].exposed = << >>
      <3>1. heap[id] \in ObjectType
        BY <1>1, <2>3
      <3>. QED
        BY <3>1 DEF ObjectType
    <2>5. findInternalPath(heap[id], name.port) = {}
      BY <2>4 DEF findInternalPath
    <2>. QED
      BY <1>2, <1>3, <1>4, <2>1, <2>2, <2>5
  <1>6. q = name
    BY <1>2, <1>3, <1>4, <1>5
  <1>7. d.object = top.objects[name.module] /\ d.label = name.port
    BY <1>3, <1>6
  <1>. QED
    BY <1>1, <1>3, <1>4, <1>6, <1>7 DEF MapsOf

\* The ports of a name are ports of objects of the innermost call.
LEMMA PortsFacts ==
    ASSUME Core, Running, NEW name, ~ThroughNull(top, name), NEW side \in {"up", "down"},
           NEW p \in Ports(top, name, side)
    PROVE  /\ p \in Refs /\ p = <<p[1], p[2]>> /\ p[1] \in Created(top)
           /\ p[1] \in 1 .. Len(heap) /\ p[2] \in DOMAIN heap[p[1]][side]
  <1>1. PICK d \in Denoted(top, name) :
           /\ \E i \in DOMAIN heap[d.object][side] : heap[d.object][side][i].label = d.label
           /\ p = <<d.object, CHOOSE i \in DOMAIN heap[d.object][side] :
                    /\ heap[d.object][side][i].label = d.label
                    /\ \A j \in DOMAIN heap[d.object][side] :
                          heap[d.object][side][j].label = d.label => j <= i>>
    BY DEF Ports
  <1>2. d.object \in Created(top) /\ d.object \in 1 .. Len(heap)
    BY DenotedFacts DEF Created
  <1>3. PICK ports : ports = heap[d.object][side]
    OBVIOUS
  <1>4. ports \in Seq(PortType)
    <2>1. heap[d.object] \in ObjectType
      BY <1>2 DEF Core, Shapes
    <2>. QED
      BY <1>3, <2>1 DEF ObjectType
  <1>5. Len(ports) \in Nat /\ DOMAIN ports = 1 .. Len(ports)
    BY <1>4
  <1>. DEFINE S == {j \in DOMAIN ports : ports[j].label = d.label}
  <1>6. S \in SUBSET (1 .. Len(ports)) /\ S # {}
    BY <1>1, <1>3, <1>5
  <1>7. \E i \in S : \A j \in S : j <= i
    <2>. HIDE DEF S
    <2>. QED
      BY <1>5, <1>6, LastIndex
  <1>8. PICK i : i = CHOOSE k \in DOMAIN ports :
                        /\ ports[k].label = d.label
                        /\ \A j \in DOMAIN ports : ports[j].label = d.label => j <= k
    OBVIOUS
  <1>9. i \in DOMAIN ports
    BY <1>7, <1>8
  <1>10. p = <<d.object, i>>
    BY <1>1, <1>3, <1>8
  <1>11. i \in Nat /\ d.object \in Nat
    BY <1>2, <1>5, <1>9
  <1>. QED
    BY <1>2, <1>3, <1>9, <1>10, <1>11 DEF Refs

-----------------------------------------------------------------------------
(* What the phases of the ports and the connections do to the objects *)

LEMMA AddPortsType ==
    ASSUME NEW objects \in Seq(ObjectType), NEW side \in {"up", "down"}, NEW sizes \in Sizes,
           NEW owners, \A o \in owners : o.label \in Labels
    PROVE  addPorts(objects, owners, side, sizes) \in Seq(ObjectType)
           /\ Len(addPorts(objects, owners, side, sizes)) = Len(objects)
  <1>. DEFINE new(id) == IF \E o \in owners : o.object = id
                         THEN [objects[id] EXCEPT ![side] =
                                 Append(@, Port((CHOOSE o \in owners : TRUE).label, sizes))]
                         ELSE objects[id]
  <1>1. ASSUME NEW id \in 1 .. Len(objects)
        PROVE  new(id) \in ObjectType
    <2>1. PICK b : b = objects[id]
      OBVIOUS
    <2>2. b \in ObjectType
      BY <2>1
    <2>3. CASE \E o \in owners : o.object = id
      <3>1. PICK label : label = (CHOOSE o \in owners : TRUE).label
        OBVIOUS
      <3>2. label \in Labels
        BY <2>3, <3>1
      <3>3. Port(label, sizes) \in PortType
        BY <3>2 DEF Port, PortType
      <3>4. PICK port : port = Port(label, sizes)
        OBVIOUS
      <3>5. new(id) = [b EXCEPT ![side] = Append(@, port)]
        BY <2>1, <2>3, <3>1, <3>4
      <3>6. Append(b.up, port) \in Seq(PortType) /\ Append(b.down, port) \in Seq(PortType)
        BY <2>2, <3>3, <3>4 DEF ObjectType
      <3>. HIDE DEF new
      <3>7. CASE side = "up"
        <4>1. new(id) = [b EXCEPT !.up = Append(b.up, port)]
          BY <2>2, <3>5, <3>7 DEF ObjectType
        <4>. QED
          BY <2>2, <3>6, <4>1 DEF ObjectType
      <3>8. CASE side = "down"
        <4>1. new(id) = [b EXCEPT !.down = Append(b.down, port)]
          BY <2>2, <3>5, <3>8 DEF ObjectType
        <4>. QED
          BY <2>2, <3>6, <4>1 DEF ObjectType
      <3>. QED
        BY <3>7, <3>8
    <2>4. CASE ~\E o \in owners : o.object = id
      BY <2>1, <2>2, <2>4
    <2>. QED
      BY <2>3, <2>4
  <1>2. addPorts(objects, owners, side, sizes) = [id \in 1 .. Len(objects) |-> new(id)]
    BY DEF addPorts
  <1>. HIDE DEF new
  <1>3. [id \in 1 .. Len(objects) |-> new(id)] \in [1 .. Len(objects) -> ObjectType]
    BY <1>1
  <1>4. Len(objects) \in Nat
    OBVIOUS
  <1>. QED
    BY <1>2, <1>3, <1>4

LEMMA CreatePortsCore ==
    ASSUME Core, CreatePorts
    PROVE  Core'
  <1>1. Running /\ top.phase = 5 /\ Connection \in Connections
    BY ConnectionFacts DEF CreatePorts
  <1>2. CASE Crash
    BY <1>1, <1>2, CrashCore
  <1>3. CASE /\ \A spec \in {Connection.src, Connection.dst} :
                   spec.kind = "name" => ~ThroughNull(top, spec.name)
             /\ heap' = addPorts(addPorts(heap, PortOwners(top, Connection.src), "down",
                                          BufferSizes(Connection.output_buffer_sizes)),
                                 PortOwners(top, Connection.dst), "up",
                                 BufferSizes(Connection.input_buffer_sizes))
             /\ Continue(Advanced(top))
             /\ UNCHANGED <<registries, groups, instances, call, started, completed, calls>>
    <2>1. /\ BufferSizes(Connection.output_buffer_sizes) \in Sizes
          /\ BufferSizes(Connection.input_buffer_sizes) \in Sizes
      BY <1>1 DEF Sizes
    <2>2. /\ \A o \in PortOwners(top, Connection.src) : o.label \in Labels
          /\ \A o \in PortOwners(top, Connection.dst) : o.label \in Labels
      BY <1>1, <1>3, DenotedFacts DEF PortOwners, Labels
    <2>3. PICK ports : ports = addPorts(heap, PortOwners(top, Connection.src), "down",
                                        BufferSizes(Connection.output_buffer_sizes))
      OBVIOUS
    <2>4. ports \in Seq(ObjectType) /\ Len(ports) = Len(heap)
      BY <2>1, <2>2, <2>3, AddPortsType DEF Core, Shapes
    <2>5. heap' \in Seq(ObjectType) /\ Len(heap') = Len(heap)
      BY <1>3, <2>1, <2>2, <2>3, <2>4, AddPortsType
    <2>6. Len(heap) \in Nat
      BY DEF Core, Shapes
    <2>. QED
      BY <1>1, <1>3, <2>5, <2>6, RegistriesSame, TopAdvances
  <1>. QED
    BY <1>2, <1>3 DEF CreatePorts

\* The ports under `ports' of one object get the peer.
Rebound(id, q, ports, peer) ==
    [i \in DOMAIN q |-> IF <<id, i>> \in ports THEN [q[i] EXCEPT !.peer = peer] ELSE q[i]]

LEMMA ReboundFacts ==
    ASSUME NEW q \in Seq(PortType), NEW id, NEW ports, NEW peer \in Refs
    PROVE  /\ Rebound(id, q, ports, peer) \in Seq(PortType)
           /\ DOMAIN Rebound(id, q, ports, peer) = DOMAIN q
           /\ \A i \in DOMAIN q :
                 Rebound(id, q, ports, peer)[i].peer = IF <<id, i>> \in ports THEN peer ELSE q[i].peer
  <1>. DEFINE r == Rebound(id, q, ports, peer)
              new(i) == IF <<id, i>> \in ports THEN [q[i] EXCEPT !.peer = peer] ELSE q[i]
  <1>1. Len(q) \in Nat /\ DOMAIN q = 1 .. Len(q)
    OBVIOUS
  <1>2. ASSUME NEW i \in 1 .. Len(q)
        PROVE  /\ new(i) \in PortType
               /\ new(i).peer = IF <<id, i>> \in ports THEN peer ELSE q[i].peer
    <2>1. q[i] \in PortType
      OBVIOUS
    <2>. QED
      BY <2>1 DEF PortType
  <1>3. r = [i \in 1 .. Len(q) |-> new(i)]
    BY <1>1 DEF Rebound
  <1>. HIDE DEF new, r
  <1>4. r \in [1 .. Len(q) -> PortType]
    BY <1>2, <1>3
  <1>5. r \in Seq(PortType)
    BY <1>1, <1>4
  <1>6. \A i \in DOMAIN q : r[i].peer = IF <<id, i>> \in ports THEN peer ELSE q[i].peer
    BY <1>1, <1>2, <1>3
  <1>. QED
    BY <1>1, <1>4, <1>5, <1>6 DEF r

\* Object c is b but for the peers of its ports under `ports'.
PeersSet(b, c, side, id, ports, peer) ==
    /\ c \in ObjectType /\ c.class = b.class
    /\ \A s \in {"up", "down"} :
          DOMAIN c[s] = DOMAIN b[s]
          /\ \A i \in DOMAIN b[s] :
                c[s][i].peer = IF s = side /\ <<id, i>> \in ports THEN peer ELSE b[s][i].peer

\* PortPair at both ends: one side of one object.
LEMMA SetPeerObject ==
    ASSUME NEW b \in ObjectType, NEW side \in {"up", "down"}, NEW id, NEW ports, NEW peer \in Refs,
           NEW new, new = [b EXCEPT ![side] = Rebound(id, @, ports, peer)]
    PROVE  PeersSet(b, new, side, id, ports, peer)
  <1>1. b.up \in Seq(PortType) /\ b.down \in Seq(PortType)
    BY DEF ObjectType
  <1>2. CASE side = "up"
    <2>1. PICK r : r = Rebound(id, b.up, ports, peer)
      OBVIOUS
    <2>2. /\ r \in Seq(PortType) /\ DOMAIN r = DOMAIN b.up
          /\ \A i \in DOMAIN b.up : r[i].peer = IF <<id, i>> \in ports THEN peer ELSE b.up[i].peer
      BY <1>1, <2>1, ReboundFacts
    <2>3. new = [b EXCEPT !.up = r]
      BY <1>2, <2>1
    <2>4. /\ new \in ObjectType /\ new.class = b.class /\ new.up = r /\ new.down = b.down
      BY <2>2, <2>3 DEF ObjectType
    <2>. QED
      BY <1>2, <2>2, <2>4 DEF PeersSet
  <1>3. CASE side = "down"
    <2>1. PICK r : r = Rebound(id, b.down, ports, peer)
      OBVIOUS
    <2>2. /\ r \in Seq(PortType) /\ DOMAIN r = DOMAIN b.down
          /\ \A i \in DOMAIN b.down :
                r[i].peer = IF <<id, i>> \in ports THEN peer ELSE b.down[i].peer
      BY <1>1, <2>1, ReboundFacts
    <2>3. new = [b EXCEPT !.down = r]
      BY <1>3, <2>1
    <2>4. /\ new \in ObjectType /\ new.class = b.class /\ new.down = r /\ new.up = b.up
      BY <2>2, <2>3 DEF ObjectType
    <2>. QED
      BY <1>3, <2>2, <2>4 DEF PeersSet
  <1>. QED
    BY <1>2, <1>3

LEMMA SetPeerFacts ==
    ASSUME NEW objects \in Seq(ObjectType), NEW side \in {"up", "down"}, NEW ports,
           NEW peer \in Refs
    PROVE  LET new == setPeer(objects, side, ports, peer)
           IN  /\ new \in Seq(ObjectType) /\ Len(new) = Len(objects)
               /\ \A id \in 1 .. Len(objects) :
                     PeersSet(objects[id], new[id], side, id, ports, peer)
  <1>. DEFINE at(id) == [objects[id] EXCEPT ![side] = Rebound(id, @, ports, peer)]
              new == setPeer(objects, side, ports, peer)
  <1>1. Len(objects) \in Nat /\ DOMAIN objects = 1 .. Len(objects)
    OBVIOUS
  <1>2. new = [id \in 1 .. Len(objects) |-> at(id)]
    BY <1>1 DEF setPeer, Rebound
  <1>3. ASSUME NEW id \in 1 .. Len(objects)
        PROVE  at(id) \in ObjectType /\ PeersSet(objects[id], at(id), side, id, ports, peer)
    <2>1. PICK b : b = objects[id]
      OBVIOUS
    <2>2. b \in ObjectType
      BY <2>1
    <2>3. PICK c : c = [b EXCEPT ![side] = Rebound(id, @, ports, peer)]
      OBVIOUS
    <2>4. PeersSet(b, c, side, id, ports, peer)
      BY <2>2, <2>3, SetPeerObject
    <2>5. at(id) = c
      BY <2>1, <2>3
    <2>. HIDE DEF at
    <2>. QED
      BY <2>1, <2>4, <2>5 DEF PeersSet
  <1>. HIDE DEF at, new
  <1>4. new \in [1 .. Len(objects) -> ObjectType]
    BY <1>2, <1>3
  <1>5. new \in Seq(ObjectType) /\ Len(new) = Len(objects)
    BY <1>1, <1>4
  <1>. QED
    BY <1>2, <1>3, <1>5 DEF new

\* A port and its peer.
Bonds(objects, side) ==
    {b \in Refs \X Refs : /\ b[1][1] \in DOMAIN objects
                          /\ b[1][2] \in DOMAIN objects[b[1][1]][side]
                          /\ objects[b[1][1]][side][b[1][2]].peer = b[2]}

LEMMA SetPeerBonds ==
    ASSUME NEW objects \in Seq(ObjectType), NEW side \in {"up", "down"}, NEW ports,
           NEW peer \in Refs,
           \A p \in ports : /\ p \in Refs /\ p = <<p[1], p[2]>> /\ p[1] \in 1 .. Len(objects)
                            /\ p[2] \in DOMAIN objects[p[1]][side]
    PROVE  LET new == setPeer(objects, side, ports, peer)
           IN  /\ Bonds(new, side) = {b \in Bonds(objects, side) : b[1] \notin ports}
                                     \cup {<<p, peer>> : p \in ports}
               /\ \A s \in {"up", "down"} : s # side => Bonds(new, s) = Bonds(objects, s)
  <1>. DEFINE new == setPeer(objects, side, ports, peer)
  <1>1. /\ DOMAIN objects = 1 .. Len(objects) /\ DOMAIN new = 1 .. Len(objects)
        /\ \A id \in 1 .. Len(objects) : \A s \in {"up", "down"} :
              DOMAIN new[id][s] = DOMAIN objects[id][s]
              /\ \A i \in DOMAIN objects[id][s] :
                    new[id][s][i].peer = IF s = side /\ <<id, i>> \in ports
                                         THEN peer ELSE objects[id][s][i].peer
    BY SetPeerFacts DEF PeersSet
  <1>. HIDE DEF new
  <1>2. ASSUME NEW b \in Bonds(new, side)
        PROVE  b \in {c \in Bonds(objects, side) : c[1] \notin ports} \cup {<<p, peer>> : p \in ports}
    <2>1. /\ b \in Refs \X Refs /\ b = <<b[1], b[2]>> /\ b[1] \in Refs /\ b[1] = <<b[1][1], b[1][2]>>
          /\ b[1][1] \in 1 .. Len(objects) /\ b[1][2] \in DOMAIN objects[b[1][1]][side]
          /\ new[b[1][1]][side][b[1][2]].peer = b[2]
      BY <1>1 DEF Bonds, Refs
    <2>2. CASE b[1] \in ports
      <3>1. b[2] = peer
        BY <1>1, <2>1, <2>2
      <3>. QED
        BY <2>1, <2>2, <3>1
    <2>3. CASE b[1] \notin ports
      <3>1. objects[b[1][1]][side][b[1][2]].peer = b[2]
        BY <1>1, <2>1, <2>3
      <3>. QED
        BY <1>1, <2>1, <2>3, <3>1 DEF Bonds
    <2>. QED
      BY <2>2, <2>3
  <1>3. ASSUME NEW b \in Bonds(objects, side), b[1] \notin ports
        PROVE  b \in Bonds(new, side)
    <2>1. /\ b \in Refs \X Refs /\ b[1] = <<b[1][1], b[1][2]>>
          /\ b[1][1] \in 1 .. Len(objects) /\ b[1][2] \in DOMAIN objects[b[1][1]][side]
          /\ objects[b[1][1]][side][b[1][2]].peer = b[2]
      BY <1>1 DEF Bonds, Refs
    <2>2. new[b[1][1]][side][b[1][2]].peer = b[2]
      BY <1>1, <1>3, <2>1
    <2>. QED
      BY <1>1, <2>1, <2>2 DEF Bonds
  <1>4. ASSUME NEW p \in ports
        PROVE  <<p, peer>> \in Bonds(new, side)
    <2>1. new[p[1]][side][p[2]].peer = peer
      BY <1>1
    <2>. QED
      BY <1>1, <2>1 DEF Bonds
  <1>5. ASSUME NEW s \in {"up", "down"}, s # side
        PROVE  Bonds(new, s) = Bonds(objects, s)
    <2>1. \A id \in 1 .. Len(objects) :
             DOMAIN new[id][s] = DOMAIN objects[id][s]
             /\ \A i \in DOMAIN objects[id][s] : new[id][s][i].peer = objects[id][s][i].peer
      BY <1>1, <1>5
    <2>. QED
      BY <1>1, <2>1 DEF Bonds
  <1>. QED
    BY <1>2, <1>3, <1>4, <1>5 DEF new

\* The names of one end are numbered from 1, some may be missing, and only
\* a group has names of ports.
LEMMA NamesFacts ==
    ASSUME Core, Running, NEW spec, NEW exclude
    PROVE  /\ \E n \in Nat : DOMAIN Names(top, spec, exclude) \subseteq 1 .. n
           /\ \A k \in DOMAIN Names(top, spec, exclude) :
                 LET name == Names(top, spec, exclude)[k]
                 IN  name.port # NoPort
                     => /\ spec.kind = "group" /\ spec.group \in DOMAIN groups
                        /\ k \in DOMAIN groups[spec.group] /\ name = groups[spec.group][k]
  <1>. DEFINE matched == {n \in DOMAIN top.objects :
                             \/ spec.kind = "name" /\ spec.name = [module |-> n, port |-> NoPort]
                             \/ spec.kind = "pattern" /\ n \in spec.matches}
              instances_(n) == [module |-> n, port |-> NoPort]
              S == {instances_(n) : n \in matched}
              names == Names(top, spec, exclude)
  <1>1. CASE spec.kind = "group"
    <2>1. PICK q : q = resolve(spec.group)
      OBVIOUS
    <2>2. Len(q) \in Nat /\ DOMAIN q = 1 .. Len(q)
      <3>1. CASE spec.group \in DOMAIN groups
        <4>1. q \in Members
          BY <2>1, <3>1 DEF resolve, Core, Shapes
        <4>2. PICK c \in Configs : \E g \in DOMAIN c.groups : q = c.groups[g]
          BY <4>1 DEF Members
        <4>3. IsList(q)
          BY <4>2, FilesAssumption DEF Configs
        <4>. QED
          BY <4>3 DEF IsList
      <3>2. CASE spec.group \notin DOMAIN groups
        BY <2>1, <3>2 DEF resolve
      <3>. QED
        BY <3>1, <3>2
    <2>3. names = filterExcluded(q, exclude)
      BY <1>1, <2>1 DEF Names
    <2>. HIDE DEF names
    <2>4. DOMAIN names \subseteq 1 .. Len(q) /\ \A k \in DOMAIN names : names[k] = q[k]
      BY <2>2, <2>3 DEF filterExcluded
    <2>5. ASSUME NEW k \in DOMAIN names
          PROVE  spec.group \in DOMAIN groups /\ names[k] = groups[spec.group][k]
                 /\ k \in DOMAIN groups[spec.group]
      <3>1. k \in DOMAIN q
        BY <2>2, <2>4
      <3>2. q # << >>
        BY <3>1
      <3>. QED
        BY <2>1, <2>4, <3>1, <3>2 DEF resolve
    <2>. QED
      BY <1>1, <2>2, <2>4, <2>5 DEF names
  <1>2. CASE spec.kind # "group"
    <2>1. PICK q : q = SetToSeq(S)
      OBVIOUS
    <2>2. names = filterExcluded(q, exclude)
      BY <1>2, <2>1 DEF Names
    <2>3. IsFiniteSet(S)
      <3>1. IsFiniteSet(matched)
        <4>1. top.objects \in Map
          BY TopFacts DEF FrameType
        <4>2. IsFiniteSet(DOMAIN top.objects) /\ matched \subseteq DOMAIN top.objects
          BY <4>1 DEF Map
        <4>. HIDE DEF matched
        <4>. QED
          BY <4>2, FS_Subset
      <3>. DEFINE f == [n \in matched |-> instances_(n)]
      <3>. HIDE DEF matched
      <3>2. f \in Surjection(matched, S)
        BY DEF Surjection
      <3>. HIDE DEF f, S
      <3>. QED
        BY <3>1, <3>2, FS_Surjection DEF ExistsSurjection
    <2>4. Cardinality(S) \in Nat /\ q \in [1 .. Cardinality(S) -> S]
      <3>. HIDE DEF S
      <3>1. Cardinality(S) \in Nat /\ ExistsBijection(1 .. Cardinality(S), S)
        BY <2>3, FS_CardinalityType
      <3>2. \E f \in [1 .. Cardinality(S) -> S] : IsInjective(f)
        BY <3>1 DEF ExistsBijection, Bijection, Injection
      <3>. QED
        BY <2>1, <3>1, <3>2 DEF SetToSeq
    <2>5. \A x \in S : x.port = NoPort
      <3>. HIDE DEF matched
      <3>. QED
        OBVIOUS
    <2>. HIDE DEF S, names
    <2>6. DOMAIN names \subseteq 1 .. Cardinality(S) /\ \A k \in DOMAIN names : names[k] \in S
      BY <2>2, <2>4 DEF filterExcluded
    <2>. QED
      BY <2>4, <2>5, <2>6 DEF names
  <1>. QED
    BY <1>1, <1>2

\* What the names lead to, and the last of it.
LEMMA AllPortsFacts ==
    ASSUME Core, Running, NEW n \in Nat, NEW names, DOMAIN names \subseteq 1 .. n,
           NEW side \in {"up", "down"}, \A k \in DOMAIN names : ~ThroughNull(top, names[k])
    PROVE  /\ \A p \in AllPorts(names, side) :
                 /\ p \in Refs /\ p = <<p[1], p[2]>> /\ p[1] \in Created(top)
                 /\ p[1] \in 1 .. Len(heap) /\ p[2] \in DOMAIN heap[p[1]][side]
           /\ AllPorts(names, side) # {} => LastPort(names, side) \in AllPorts(names, side)
  <1>1. ASSUME NEW p \in AllPorts(names, side)
        PROVE  /\ p \in Refs /\ p = <<p[1], p[2]>> /\ p[1] \in Created(top)
               /\ p[1] \in 1 .. Len(heap) /\ p[2] \in DOMAIN heap[p[1]][side]
    <2>1. PICK k \in DOMAIN names : p \in Ports(top, names[k], side)
      BY DEF AllPorts
    <2>. QED
      BY <2>1, PortsFacts
  <1>2. ASSUME AllPorts(names, side) # {}
        PROVE  LastPort(names, side) \in AllPorts(names, side)
    <2>. DEFINE K == {k \in DOMAIN names : Ports(top, names[k], side) # {}}
    <2>1. K \in SUBSET (1 .. n) /\ K # {}
      BY <1>2 DEF AllPorts
    <2>2. PICK k \in K : \A j \in K : j <= k
      <3>. HIDE DEF K
      <3>. QED
        BY <2>1, LastIndex
    <2>3. \A j \in DOMAIN names : k < j => Ports(top, names[j], side) = {}
      BY <2>1, <2>2
    <2>4. PICK p : p \in Ports(top, names[k], side)
      BY <2>2
    <2>5. p \in AllPorts(names, side)
      BY <2>2, <2>4 DEF AllPorts
    <2>. QED
      BY <2>2, <2>3, <2>4, <2>5 DEF LastPort
  <1>. QED
    BY <1>1, <1>2

\* Names with ports come from groups.
LEMMA PortsOfGroups ==
    ASSUME Core, Running, NEW spec, NEW exclude, NEW side \in {"up", "down"},
           \A k \in DOMAIN Names(top, spec, exclude) :
              ~ThroughNull(top, Names(top, spec, exclude)[k]),
           AllPorts(Names(top, spec, exclude), side) # {}
    PROVE  spec.kind = "group"
  <1>. DEFINE names == Names(top, spec, exclude)
  <1>1. PICK k \in DOMAIN names : Ports(top, names[k], side) # {}
    BY DEF AllPorts
  <1>2. PICK d : d \in Denoted(top, names[k])
    BY <1>1 DEF Ports
  <1>3. names[k].port # NoPort
    BY <1>2, DenotedFacts
  <1>. QED
    BY <1>1, <1>3, NamesFacts

\* The ports S of one side get the peer pd, the ports D of the other ps.
Joined(old, new, S, D, ps, pd) ==
    /\ S \subseteq Refs /\ D \subseteq Refs /\ ps \in S /\ pd \in D
    /\ Bonds(new, "down") = {b \in Bonds(old, "down") : b[1] \notin S} \cup {<<p, pd>> : p \in S}
    /\ Bonds(new, "up") = {b \in Bonds(old, "up") : b[1] \notin D} \cup {<<p, ps>> : p \in D}

SameClasses(old, new) == \A id \in 1 .. Len(old) : new[id].class = old[id].class

LEMMA BindFacts ==
    ASSUME NEW objects \in Seq(ObjectType), NEW S, NEW D, NEW ps \in S, NEW pd \in D,
           \A p \in S : /\ p \in Refs /\ p = <<p[1], p[2]>> /\ p[1] \in 1 .. Len(objects)
                        /\ p[2] \in DOMAIN objects[p[1]]["down"],
           \A p \in D : /\ p \in Refs /\ p = <<p[1], p[2]>> /\ p[1] \in 1 .. Len(objects)
                        /\ p[2] \in DOMAIN objects[p[1]]["up"]
    PROVE  LET new == setPeer(setPeer(objects, "down", S, pd), "up", D, ps)
           IN  /\ new \in Seq(ObjectType) /\ Len(new) = Len(objects)
               /\ SameClasses(objects, new) /\ Joined(objects, new, S, D, ps, pd)
  <1>1. PICK mid : mid = setPeer(objects, "down", S, pd)
    OBVIOUS
  <1>2. PICK new : new = setPeer(mid, "up", D, ps)
    OBVIOUS
  <1>3. /\ mid \in Seq(ObjectType) /\ Len(mid) = Len(objects)
        /\ \A id \in 1 .. Len(objects) : PeersSet(objects[id], mid[id], "down", id, S, pd)
    BY <1>1, SetPeerFacts
  <1>4. /\ new \in Seq(ObjectType) /\ Len(new) = Len(objects)
        /\ \A id \in 1 .. Len(objects) : PeersSet(mid[id], new[id], "up", id, D, ps)
    BY <1>2, <1>3, SetPeerFacts
  <1>5. SameClasses(objects, new)
    BY <1>3, <1>4 DEF SameClasses, PeersSet
  <1>6. /\ Bonds(mid, "down") = {b \in Bonds(objects, "down") : b[1] \notin S}
                                \cup {<<p, pd>> : p \in S}
        /\ Bonds(mid, "up") = Bonds(objects, "up")
    BY <1>1, SetPeerBonds
  <1>7. \A p \in D : p[1] \in 1 .. Len(mid) /\ p[2] \in DOMAIN mid[p[1]]["up"]
    BY <1>3 DEF PeersSet
  <1>8. /\ Bonds(new, "up") = {b \in Bonds(mid, "up") : b[1] \notin D} \cup {<<p, ps>> : p \in D}
        /\ Bonds(new, "down") = Bonds(mid, "down")
    BY <1>2, <1>3, <1>7, SetPeerBonds
  <1>9. Joined(objects, new, S, D, ps, pd)
    BY <1>6, <1>8 DEF Joined
  <1>. QED
    BY <1>1, <1>2, <1>4, <1>5, <1>9

\* A connection between two groups joins ports of the innermost call's objects; no other
\* connection changes an object.
LEMMA ConnectFacts ==
    ASSUME Core, Connect
    PROVE  \/ Crash
           \/ /\ Continue(Advanced(top))
              /\ UNCHANGED <<registries, groups, instances, call, started, completed, calls>>
              /\ heap' \in Seq(ObjectType) /\ Len(heap') = Len(heap)
              /\ SameClasses(heap, heap')
              /\ \/ UNCHANGED heap
                 \/ /\ Connection.src.kind = "group" /\ Connection.dst.kind = "group"
                    /\ \E S, D, ps, pd :
                          /\ Joined(heap, heap', S, D, ps, pd)
                          /\ \A p \in S \cup D : p[1] \in Created(top)
  <1>. DEFINE srcs == Names(top, Connection.src, Connection.exclude)
              dsts == Names(top, Connection.dst, Connection.exclude)
              null == \/ \E k \in DOMAIN srcs : ThroughNull(top, srcs[k])
                      \/ DOMAIN srcs # {} /\ \E l \in DOMAIN dsts : ThroughNull(top, dsts[l])
  <1>1. Running /\ heap \in Seq(ObjectType)
    BY ConnectionFacts DEF Connect, Core, Shapes
  <1>2. SUFFICES ASSUME ~Crash
                 PROVE  /\ heap' \in Seq(ObjectType) /\ Len(heap') = Len(heap)
                        /\ SameClasses(heap, heap')
                        /\ \/ UNCHANGED heap
                           \/ /\ Connection.src.kind = "group" /\ Connection.dst.kind = "group"
                              /\ \E S, D, ps, pd :
                                    /\ Joined(heap, heap', S, D, ps, pd)
                                    /\ \A p \in S \cup D : p[1] \in Created(top)
    BY DEF Connect
  <1>3. ~null /\ heap' = bind(heap, srcs, dsts)
    BY <1>2 DEF Connect
  <1>4. /\ \E n \in Nat : DOMAIN srcs \subseteq 1 .. n
        /\ \E n \in Nat : DOMAIN dsts \subseteq 1 .. n
    BY <1>1, NamesFacts
  <1>5. CASE AllPorts(srcs, "down") = {} \/ AllPorts(dsts, "up") = {}
    <2>1. heap' = heap
      BY <1>3, <1>5 DEF bind
    <2>. QED
      BY <1>1, <2>1 DEF SameClasses
  <1>6. CASE AllPorts(srcs, "down") # {} /\ AllPorts(dsts, "up") # {}
    <2>1. DOMAIN srcs # {}
      BY <1>6 DEF AllPorts
    <2>2. /\ \A k \in DOMAIN srcs : ~ThroughNull(top, srcs[k])
          /\ \A k \in DOMAIN dsts : ~ThroughNull(top, dsts[k])
      BY <1>3, <2>1
    <2>3. Connection.src.kind = "group" /\ Connection.dst.kind = "group"
      BY <1>1, <1>6, <2>2, PortsOfGroups
    <2>. HIDE DEF srcs, dsts, null
    <2>4. PICK S, D, ps, pd : /\ S = AllPorts(srcs, "down") /\ D = AllPorts(dsts, "up")
                              /\ ps = LastPort(srcs, "down") /\ pd = LastPort(dsts, "up")
      OBVIOUS
    <2>5. /\ ps \in S
          /\ \A p \in S : /\ p \in Refs /\ p = <<p[1], p[2]>> /\ p[1] \in Created(top)
                          /\ p[1] \in 1 .. Len(heap) /\ p[2] \in DOMAIN heap[p[1]]["down"]
      BY <1>1, <1>4, <1>6, <2>2, <2>4, AllPortsFacts
    <2>6. /\ pd \in D
          /\ \A p \in D : /\ p \in Refs /\ p = <<p[1], p[2]>> /\ p[1] \in Created(top)
                          /\ p[1] \in 1 .. Len(heap) /\ p[2] \in DOMAIN heap[p[1]]["up"]
      BY <1>1, <1>4, <1>6, <2>2, <2>4, AllPortsFacts
    <2>7. heap' = setPeer(setPeer(heap, "down", S, pd), "up", D, ps)
      BY <1>3, <1>6, <2>4 DEF bind
    <2>8. PICK new : new = setPeer(setPeer(heap, "down", S, pd), "up", D, ps)
      OBVIOUS
    <2>9. /\ new \in Seq(ObjectType) /\ Len(new) = Len(heap)
          /\ SameClasses(heap, new) /\ Joined(heap, new, S, D, ps, pd)
      BY <1>1, <2>5, <2>6, <2>8, BindFacts
    <2>. QED
      BY <2>3, <2>5, <2>6, <2>7, <2>8, <2>9
  <1>. QED
    BY <1>5, <1>6

LEMMA ConnectCore ==
    ASSUME Core, Connect
    PROVE  Core'
  <1>1. Running /\ top.phase = 6 /\ Len(heap) \in Nat
    BY ConnectionFacts DEF Connect, Core, Shapes
  <1>2. CASE Crash
    BY <1>1, <1>2, CrashCore
  <1>3. CASE /\ Continue(Advanced(top))
             /\ UNCHANGED <<registries, groups, instances, call, started, completed, calls>>
             /\ heap' \in Seq(ObjectType) /\ Len(heap') = Len(heap)
    BY <1>1, <1>3, RegistriesSame, TopAdvances
  <1>. QED
    BY <1>2, <1>3, ConnectFacts

\* The caller's frame, once the innermost call has ended.
Resumed == [stack[2] EXCEPT !.redefined = @ \cup (top.redefined \cup DOMAIN top.config.groups)]

LEMMA ReturnFacts ==
    ASSUME Core, Return
    PROVE  /\ Running /\ top.phase = 6
           /\ UNCHANGED <<registries, groups, heap, instances, started, calls>>
           /\ completed' = completed \cup {top}
           /\ \/ stack' = << >> /\ call' = [call EXCEPT !.status = "returned"]
              \/ /\ UNCHANGED call
                 /\ Len(stack) \in Nat \ {0, 1} /\ Len(stack') = Len(stack) - 1
                 /\ stack' \in Seq(FrameType) /\ Resumed \in FrameType /\ stack'[1] = Resumed
                 /\ Resumed.redefined = stack[2].redefined
                                        \cup (top.redefined \cup DOMAIN top.config.groups)
                 /\ \A field \in {"config", "self", "phase", "i", "objects", "modules"} :
                       Resumed[field] = stack[2][field]
                 /\ \A k \in 2 .. Len(stack) - 1 : stack'[k] = stack[k + 1]
  <1>. DEFINE rest == Tail(stack)
  <1>1. Running /\ top.phase = 6 /\ top \in FrameType
    BY TopFacts, PhaseNumbers DEF Return, InPhase, FrameType
  <1>2. /\ completed' = completed \cup {top}
        /\ UNCHANGED <<registries, groups, instances, started, calls>>
    BY DEF Return
  <1>3. /\ rest \in Seq(FrameType) /\ Len(stack) \in Nat \ {0} /\ Len(rest) = Len(stack) - 1
        /\ \A k \in 1 .. Len(stack) - 1 : rest[k] = stack[k + 1]
    BY <1>1, TopFacts
  <1>4. CASE rest = << >>
    BY <1>1, <1>2, <1>4 DEF Return
  <1>5. CASE rest # << >>
    <2>1. /\ stack' = <<[Head(rest) EXCEPT !.redefined =
                             @ \cup (top.redefined \cup DOMAIN top.config.groups)]>> \o Tail(rest)
          /\ heap' = [heap EXCEPT ![top.self].exposed = @ \o Exposed(top.arg)]
          /\ UNCHANGED call
      BY <1>5 DEF Return
    <2>2. heap' = heap
      <3>1. Exposed(top.arg) = << >>
        BY <1>1 DEF FrameType, Contents, Exposed
      <3>2. PICK self : self = top.self
        OBVIOUS
      <3>3. heap' = [heap EXCEPT ![self].exposed = @ \o << >>]
        <4>1. PICK e : e = Exposed(top.arg)
          OBVIOUS
        <4>2. heap' = [heap EXCEPT ![self].exposed = @ \o e]
          BY <2>1, <3>2, <4>1
        <4>3. e = << >>
          BY <3>1, <4>1
        <4>. QED
          BY <4>2, <4>3
      <3>4. heap \in Seq(ObjectType)
        BY DEF Core, Shapes
      <3>5. CASE self \in DOMAIN heap
        <4>1. PICK b : b = heap[self]
          OBVIOUS
        <4>2. b \in ObjectType
          BY <3>4, <3>5, <4>1
        <4>3. [b EXCEPT !.exposed = @ \o << >>] = b
          BY <4>2 DEF ObjectType
        <4>4. heap' = [heap EXCEPT ![self] = [b EXCEPT !.exposed = @ \o << >>]]
          BY <3>3, <4>1
        <4>5. heap' = [heap EXCEPT ![self] = b]
          BY <4>3, <4>4
        <4>6. [heap EXCEPT ![self] = b] = heap
          BY <3>4, <4>1
        <4>. QED
          BY <4>5, <4>6
      <3>6. CASE self \notin DOMAIN heap
        BY <3>3, <3>4, <3>6
      <3>. QED
        BY <3>5, <3>6
    <2>3. /\ Len(stack) \in Nat \ {0, 1} /\ Head(rest) = stack[2]
          /\ stack[2] \in FrameType /\ Tail(rest) \in Seq(FrameType)
          /\ Len(Tail(rest)) = Len(stack) - 2
          /\ \A k \in 1 .. Len(stack) - 2 : Tail(rest)[k] = rest[k + 1]
      <3>1. Len(stack) # 1
        BY <1>3, <1>5
      <3>2. /\ Head(rest) = rest[1] /\ Head(rest) \in FrameType /\ Tail(rest) \in Seq(FrameType)
            /\ Len(Tail(rest)) = Len(rest) - 1
            /\ \A k \in 1 .. Len(rest) - 1 : Tail(rest)[k] = rest[k + 1]
        <4>. HIDE DEF rest
        <4>. QED
          BY <1>3, <1>5, TailFacts
      <3>. HIDE DEF rest
      <3>. QED
        BY <1>3, <3>1, <3>2
    <2>4. /\ Resumed \in FrameType
          /\ Resumed.redefined = stack[2].redefined
                                 \cup (top.redefined \cup DOMAIN top.config.groups)
          /\ \A field \in {"config", "self", "phase", "i", "objects", "modules"} :
                Resumed[field] = stack[2][field]
      <3>1. DOMAIN top.config.groups \subseteq GroupNames
        BY <1>1 DEF FrameType, GroupNames
      <3>. QED
        BY <1>1, <2>3, <3>1 DEF Resumed, FrameType
    <2>5. stack' = <<Resumed>> \o Tail(rest)
      BY <2>1, <2>3 DEF Resumed
    <2>6. PICK g : g = Resumed
      OBVIOUS
    <2>7. PICK q : q = Tail(rest)
      OBVIOUS
    <2>8. /\ stack' \in Seq(FrameType) /\ Len(stack') = Len(q) + 1 /\ stack'[1] = g
          /\ \A k \in 2 .. Len(q) + 1 : stack'[k] = q[k - 1]
      BY <2>3, <2>4, <2>5, <2>6, <2>7, PushFacts
    <2>9. Len(stack') = Len(stack) - 1
      BY <2>3, <2>7, <2>8
    <2>10. \A k \in 2 .. Len(stack) - 1 : stack'[k] = stack[k + 1]
      <3>1. ASSUME NEW k \in 2 .. Len(stack) - 1
            PROVE  stack'[k] = stack[k + 1]
        <4>1. stack'[k] = q[k - 1]
          BY <2>3, <2>7, <2>8
        <4>2. q[k - 1] = rest[k]
          <5>1. k - 1 \in 1 .. Len(stack) - 2 /\ (k - 1) + 1 = k
            BY <2>3
          <5>. QED
            BY <2>3, <2>7, <5>1
        <4>3. rest[k] = stack[k + 1]
          BY <1>3
        <4>. QED
          BY <4>1, <4>2, <4>3
      <3>. QED
        BY <3>1
    <2>. QED
      BY <1>1, <1>2, <2>1, <2>2, <2>3, <2>4, <2>6, <2>8, <2>9, <2>10
  <1>. QED
    BY <1>4, <1>5

LEMMA ReturnCore ==
    ASSUME Core, Return
    PROVE  Core'
  <1>1. /\ Running /\ top.phase = 6 /\ completed' = completed \cup {top}
        /\ UNCHANGED <<registries, groups, heap, instances, started, calls>>
    BY ReturnFacts
  <1>2. top \in FrameType /\ MapsOf(top, Len(heap)) /\ Len(stack) \in Nat \ {0}
    BY <1>1, TopFacts
  <1>3. RegistriesOK' /\ calls' \in 0 .. MaxCalls /\ started' \subseteq 1 .. Len(heap')
    BY <1>1, RegistriesSame DEF Core, TypeOK
  <1>4. \A f \in completed' : f \in FrameType /\ MapsOf(f, Len(heap'))
    BY <1>1, <1>2 DEF Core, FramesOK, Frames, Shapes
  <1>5. CASE stack' = << >> /\ call' = [call EXCEPT !.status = "returned"]
    <2>1. call' \in CallType /\ call'.status = "returned"
      <3>1. call \in CallType /\ "returned" \in Statuses
        BY DEF Core, Shapes, Statuses
      <3>. QED
        BY <1>5, <3>1, StatusFacts
    <2>2. FramesOK' /\ Suspended' /\ Shapes'
      <3>1. Frames' = completed'
        BY <1>5 DEF Frames
      <3>2. Suspended' /\ stack' \in Seq(FrameType)
        BY <1>5 DEF Suspended
      <3>. QED
        BY <1>1, <1>3, <1>4, <2>1, <3>1, <3>2 DEF FramesOK, Shapes, Core, RegistriesOK
    <2>3. TypeOK'
      BY <1>3, <1>5, <2>1 DEF TypeOK, RegistriesOK
    <2>. QED
      BY <2>2, <2>3 DEF Core
  <1>6. CASE stack' # << >>
    <2>1. /\ UNCHANGED call
          /\ Len(stack) \in Nat \ {0, 1} /\ Len(stack') = Len(stack) - 1
          /\ stack' \in Seq(FrameType) /\ stack'[1] = Resumed
          /\ \A k \in 2 .. Len(stack) - 1 : stack'[k] = stack[k + 1]
      BY <1>6, ReturnFacts
    <2>2. /\ Resumed \in FrameType /\ Resumed.config = stack[2].config
          /\ Resumed.self = stack[2].self /\ Resumed.phase = stack[2].phase
          /\ Resumed.i = stack[2].i /\ Resumed.objects = stack[2].objects
          /\ Resumed.modules = stack[2].modules
      BY <1>6, ReturnFacts
    <2>3. \A k \in 2 .. Len(stack) : MapsOf(stack[k], Len(heap)) /\ stack[k].phase = 4
      BY <1>1, TopFacts DEF Core, FramesOK, Frames, Suspended
    <2>4. \A k \in 1 .. Len(stack) : k = Len(stack) <=> stack[k].self = Null
      BY DEF Core, TypeOK
    <2>5. /\ MapsOf(Resumed, Len(heap)) /\ Resumed.phase = 4
          /\ 1 = Len(stack') <=> Resumed.self = Null
      <3>1. 2 \in 2 .. Len(stack) /\ 2 \in 1 .. Len(stack)
        BY <2>1
      <3>2. MapsOf(stack[2], Len(heap)) /\ stack[2].phase = 4
        BY <2>3, <3>1
      <3>3. 2 = Len(stack) <=> stack[2].self = Null
        BY <2>4, <3>1
      <3>4. MapsOf(Resumed, Len(heap))
        BY <2>2, <3>2 DEF MapsOf, IsObject, Entered, Retaken
      <3>. QED
        BY <2>1, <2>2, <3>2, <3>3, <3>4
    <2>6. ASSUME NEW k \in 1 .. Len(stack')
          PROVE  /\ MapsOf(stack'[k], Len(heap')) /\ stack'[k].phase = 4
                 /\ k = Len(stack') <=> stack'[k].self = Null
      <3>1. CASE k = 1
        BY <1>1, <2>1, <2>5, <3>1
      <3>2. CASE k # 1
        <4>1. k \in 2 .. Len(stack) - 1 /\ k + 1 \in 2 .. Len(stack) /\ k + 1 \in 1 .. Len(stack)
              /\ (k = Len(stack') <=> k + 1 = Len(stack))
          BY <2>1, <3>2
        <4>2. stack'[k] = stack[k + 1]
          BY <2>1, <4>1
        <4>3. PICK l : l = k + 1
          OBVIOUS
        <4>4. stack'[k] = stack[l] /\ l \in 2 .. Len(stack) /\ l \in 1 .. Len(stack)
              /\ (k = Len(stack') <=> l = Len(stack))
          BY <4>1, <4>2, <4>3
        <4>. QED
          BY <1>1, <2>3, <2>4, <4>4
      <3>. QED
        BY <3>1, <3>2
    <2>7. DOMAIN stack' = 1 .. Len(stack')
      BY <2>1
    <2>8. FramesOK' /\ Shapes'
      BY <1>1, <1>3, <1>4, <2>1, <2>6, <2>7 DEF Core, FramesOK, Frames, Shapes, RegistriesOK
    <2>9. Suspended'
      <3>1. \A k \in 2 .. Len(stack') : k \in 1 .. Len(stack')
        BY <2>1
      <3>. QED
        BY <2>6, <3>1 DEF Suspended
    <2>10. TypeOK'
      <3>1. \A k \in 1 .. Len(stack') :
               /\ \A n \in DOMAIN stack'[k].objects : stack'[k].objects[n] \in 1 .. Len(heap')
               /\ \A n \in DOMAIN stack'[k].modules : stack'[k].modules[n] \in 0 .. Len(heap')
               /\ stack'[k].phase \in 1 .. Len(Phases)
        BY <2>6, PhaseNumbers DEF MapsOf
      <3>2. call'.status = "running"
        BY <1>1, <2>1 DEF Running
      <3>. QED
        BY <1>3, <1>6, <2>6, <3>1, <3>2 DEF TypeOK, RegistriesOK
    <2>. QED
      BY <2>8, <2>9, <2>10 DEF Core
  <1>7. stack' = << >> => call' = [call EXCEPT !.status = "returned"]
    <2>1. ASSUME stack' = << >>, Len(stack) \in Nat \ {0, 1}, Len(stack') = Len(stack) - 1
          PROVE  FALSE
      BY <2>1
    <2>. QED
      BY <2>1, ReturnFacts
  <1>. QED
    BY <1>5, <1>6, <1>7

LEMMA CallCore ==
    ASSUME Core, NEW arg \in Args, Call(arg)
    PROVE  Core'
  <1>1. /\ stack = << >> /\ calls' \in 0 .. MaxCalls
        /\ UNCHANGED <<registries, groups, heap, instances, started, completed>>
    BY BoundAssumption DEF Call, Idle, Core, TypeOK
  <1>2. RegistriesOK'
    BY <1>1, RegistriesSame
  <1>3. \A f \in completed : MapsOf(f, Len(heap))
    BY DEF Core, FramesOK, Frames
  <1>4. CASE call' = [status |-> "threw", arg |-> arg] /\ UNCHANGED stack
    <2>1. call' \in CallType /\ call'.status = "threw"
      BY <1>4 DEF CallType, Statuses
    <2>. QED
      BY <1>1, <1>2, <1>4, <2>1, UnwoundCore
  <1>5. CASE \E config \in loadAndInclude(arg) :
                /\ stack' = <<Frame(config, arg, Null)>>
                /\ call' = [status |-> "running", arg |-> arg]
    <2>1. PICK config \in loadAndInclude(arg) : stack' = <<Frame(config, arg, Null)>>
      BY <1>5
    <2>2. call' \in CallType /\ call'.status = "running"
      BY <1>5 DEF CallType, Statuses
    <2>3. PICK f : f = Frame(config, arg, Null)
      OBVIOUS
    <2>4. f \in FrameType /\ f.self = Null /\ f.phase = 1 /\ MapsOf(f, Len(heap))
      <3>1. config \in Configs /\ arg \in Contents /\ Null \in Nat
        BY LoadFacts DEF Null
      <3>. QED
        BY <2>3, <3>1, FrameFacts
    <2>5. stack' \in Seq(FrameType) /\ Len(stack') = 1 /\ stack'[1] = f /\ stack' # << >>
          /\ DOMAIN stack' = {1}
      BY <2>1, <2>3, <2>4
    <2>6. FramesOK' /\ Shapes' /\ Suspended'
      <3>1. Frames' = completed \cup {f}
        BY <1>1, <2>5 DEF Frames
      <3>2. FramesOK'
        BY <1>1, <1>3, <2>4, <3>1 DEF FramesOK
      <3>. QED
        BY <1>1, <1>2, <2>2, <2>5, <3>2 DEF Core, Shapes, Suspended, RegistriesOK
    <2>7. TypeOK'
      <3>1. f.phase \in 1 .. Len(Phases)
        BY <2>4, PhaseNumbers
      <3>2. \A k \in 1 .. Len(stack') : k = 1 /\ stack'[k] = f
        BY <2>5
      <3>3. \A k \in 1 .. Len(stack') :
               /\ \A n \in DOMAIN stack'[k].objects : stack'[k].objects[n] \in 1 .. Len(heap')
               /\ \A n \in DOMAIN stack'[k].modules : stack'[k].modules[n] \in 0 .. Len(heap')
               /\ stack'[k].phase \in 1 .. Len(Phases)
               /\ k = Len(stack') <=> stack'[k].self = Null
        BY <1>1, <2>4, <2>5, <3>1, <3>2 DEF MapsOf
      <3>4. started' \subseteq 1 .. Len(heap')
        BY <1>1 DEF Core, TypeOK
      <3>. QED
        BY <1>1, <1>2, <2>2, <2>5, <3>3, <3>4 DEF TypeOK, RegistriesOK
    <2>. QED
      BY <2>6, <2>7 DEF Core
  <1>. QED
    BY <1>4, <1>5 DEF Call

\* A step between two calls.
LEMMA IdleCore ==
    ASSUME Core, RegistriesOK',
           UNCHANGED <<groups, heap, instances, stack, started, completed, calls>>,
           call' \in CallType, stack # << >> <=> call'.status \in {"running", "crashed"}
    PROVE  Core'
  <1>1. FramesOK' /\ Suspended' /\ Shapes'
    BY DEF Core, FramesOK, Frames, MapsOf, IsObject, Entered, Retaken, Suspended, Shapes,
           RegistriesOK
  <1>2. call'.status \in Statuses
    BY DEF CallType
  <1>3. TypeOK'
    BY <1>2 DEF Core, TypeOK, RegistriesOK, Statuses
  <1>. QED
    BY <1>1, <1>3 DEF Core

LEMMA RegistrationCore ==
    ASSUME Core, \/ \E r \in ObjectTypes : registerObject(r[1], r[2])
                 \/ \E r \in ModuleTypes : registerModule(r[1], r[2])
                 \/ \E r \in ObjectTypes : unregisterObject(r[1])
                 \/ \E r \in ModuleTypes : unregisterModule(r[1])
                 \/ clearAllTypes
    PROVE  Core'
  <1>1. UNCHANGED <<registered_plugins, groups, heap, instances, stack, call, started, completed,
                    calls>>
    BY DEF registerObject, registerModule, unregisterObject, unregisterModule, clearAllTypes
  <1>2. RegistriesOK
    BY DEF Core, TypeOK, Shapes, RegistriesOK
  <1>3. RegistriesOK'
    <2>1. CASE \E r \in ObjectTypes : registerObject(r[1], r[2])
      <3>1. PICK r \in ObjectTypes : registerObject(r[1], r[2])
        BY <2>1
      <3>2. <<r[1], r[2]>> \in ObjectTypes
        BY RegistrationsAssumption
      <3>. QED
        BY <1>1, <1>2, <3>1, <3>2 DEF registerObject, Put, RegistriesOK
    <2>2. CASE \E r \in ModuleTypes : registerModule(r[1], r[2])
      <3>1. PICK r \in ModuleTypes : registerModule(r[1], r[2])
        BY <2>2
      <3>2. <<r[1], r[2]>> \in ModuleRegistrations
        BY RegistrationsAssumption DEF ModuleRegistrations
      <3>. QED
        BY <1>1, <1>2, <3>1, <3>2 DEF registerModule, Put, RegistriesOK
    <2>3. CASE \E r \in ObjectTypes : unregisterObject(r[1])
      BY <1>1, <1>2, <2>3 DEF unregisterObject, RegistriesOK
    <2>4. CASE \E r \in ModuleTypes : unregisterModule(r[1])
      BY <1>1, <1>2, <2>4 DEF unregisterModule, RegistriesOK
    <2>5. CASE clearAllTypes
      <3>1. DOMAIN object_registry' = {} /\ DOMAIN module_registry' = {}
        BY <2>5, EmptyMapType DEF clearAllTypes
      <3>. QED
        BY <1>1, <1>2, <3>1 DEF RegistriesOK
    <2>. QED
      BY <2>1, <2>2, <2>3, <2>4, <2>5
  <1>4. call' \in CallType /\ (stack # << >> <=> call'.status \in {"running", "crashed"})
    BY <1>1 DEF Core, TypeOK, Shapes
  <1>. QED
    BY <1>1, <1>3, <1>4, IdleCore

LEMMA StartCore ==
    ASSUME Core, startAllTicks
    PROVE  Core'
  <1>1. started' = started
    BY EmptyMapType DEF startAllTicks, Core, Shapes
  <1>2. call' \in CallType /\ call'.status = "started"
    <2>1. call \in CallType /\ "started" \in Statuses
      BY DEF Core, Shapes, Statuses
    <2>. QED
      BY <2>1, StatusFacts DEF startAllTicks
  <1>3. stack = << >>
    BY DEF startAllTicks, Core, TypeOK
  <1>4. RegistriesOK'
    BY RegistriesSame DEF startAllTicks
  <1>. QED
    BY <1>1, <1>2, <1>3, <1>4, IdleCore DEF startAllTicks

LEMMA InitCore == Init => Core
  <1>. SUFFICES ASSUME Init
                PROVE  Core
    OBVIOUS
  <1>1. stack = << >> /\ heap = << >> /\ completed = {} /\ started = {} /\ calls \in 0 .. MaxCalls
    BY BoundAssumption DEF Init
  <1>2. DOMAIN object_registry = {} /\ DOMAIN module_registry = {} /\ DOMAIN groups = {}
        /\ registered_plugins = {} /\ instances = EmptyMap
    BY EmptyMapType DEF Init
  <1>3. call \in CallType /\ call.status = "none"
    BY DEF Init, CallType, Statuses
  <1>4. Frames = {} /\ Len(stack) = 0
    BY <1>1 DEF Frames
  <1>5. TypeOK
    BY <1>1, <1>2, <1>3, <1>4 DEF TypeOK
  <1>6. Shapes
    BY <1>1, <1>2, <1>3 DEF Shapes
  <1>. QED
    BY <1>4, <1>5, <1>6 DEF Core, FramesOK, Suspended

LEMMA NextCore == Core /\ [Next]_vars => Core'
  <1>. SUFFICES ASSUME Core, [Next]_vars
                PROVE  Core'
    OBVIOUS
  <1>1. CASE \/ \E r \in ObjectTypes : registerObject(r[1], r[2])
             \/ \E r \in ModuleTypes : registerModule(r[1], r[2])
             \/ \E r \in ObjectTypes : unregisterObject(r[1])
             \/ \E r \in ModuleTypes : unregisterModule(r[1])
             \/ clearAllTypes
    BY <1>1, RegistrationCore
  <1>2. CASE \E arg \in Args : Call(arg)
    BY <1>2, CallCore
  <1>3. CASE \E loaded \in SUBSET DOMAIN PluginTypes : LoadPlugins(loaded)
    BY <1>3, LoadPluginsCore
  <1>4. CASE CreateModule \/ CreateObject \/ CreateNothing
    BY <1>4, CreateModuleCore, CreateObjectCore, CreateNothingCore
  <1>5. CASE DefineGroups
    BY <1>5, DefineGroupsCore
  <1>6. CASE SkipInternal \/ EnterInternal \/ NamelessInternal
    BY <1>6, SkipInternalCore, EnterInternalCore, NamelessInternalCore
  <1>7. CASE CreatePorts \/ Connect
    BY <1>7, CreatePortsCore, ConnectCore
  <1>8. CASE EndLoop \/ Return
    BY <1>8, EndLoopCore, ReturnCore
  <1>9. CASE startAllTicks
    BY <1>9, StartCore
  <1>10. CASE UNCHANGED vars
    BY <1>10 DEF vars, registries, Core, TypeOK, Shapes, Suspended, FramesOK, Frames, MapsOf,
                 IsObject, Entered, Retaken
  <1>. QED
    BY <1>1, <1>2, <1>3, <1>4, <1>5, <1>6, <1>7, <1>8, <1>9, <1>10 DEF Next, Step

LEMMA CoreHolds == Spec => []Core
  BY InitCore, NextCore, PTL DEF Spec

\* The maps of every call refer to objects that exist, only the outermost
\* call has no owner, and a call is in progress exactly while it runs or has
\* crashed.
THEOREM TypeCorrect == Spec => []TypeOK
  BY CoreHolds, PTL DEF Core

\* No entry of module_instances and object_instances (module_factory.cc:42,
\* 62) leads to an instance of another name.
THEOREM ModulesAreObjects == Spec => []ModuleIsObject
  <1>1. Core => ModuleIsObject
    BY DEF Core, FramesOK, MapsOf, IsObject, Retaken, ModuleIsObject
  <1>. QED
    BY <1>1, CoreHolds, PTL

-----------------------------------------------------------------------------
(* What a step does to the innermost frame, the objects and the groups *)

ObjectClasses == {r[2] : r \in ObjectTypes}

GoesOn(f) == /\ Running /\ f \in FrameType /\ Continue(f)
             /\ f.config = top.config /\ f.redefined = top.redefined
             /\ UNCHANGED <<call, completed>>
SameMaps(f) == f.objects = top.objects /\ f.modules = top.modules

\* The groups of the frame's configuration are in the table.
Defined(f) == f.phase > 3 \/ (f.phase = 3 /\ f.i > 1)

Quiet(f) == /\ GoesOn(f) /\ SameMaps(f) /\ UNCHANGED <<groups, heap>>
            /\ top.phase # 6 /\ (f.phase < 4 => top.phase < 4)
            /\ (Defined(f) => Defined(top))
Creating(f) == /\ GoesOn(f) /\ UNCHANGED groups /\ top.phase = 2 /\ f.phase = 2
               /\ f.objects = Put(top.objects, Entry.name, Len(heap) + 1)
               /\ \E class \in Classes :
                     /\ heap' = Append(heap, Object(class))
                     /\ \/ f.modules = Put(top.modules, Entry.name, Len(heap) + 1)
                        \/ class \in ObjectClasses /\ f.modules = top.modules
Defining(f) == /\ GoesOn(f) /\ SameMaps(f) /\ UNCHANGED heap /\ top.phase = 3 /\ f.phase = 3
               /\ groups' = [g \in DOMAIN groups \cup DOMAIN top.config.groups |->
                                IF g \in DOMAIN top.config.groups THEN top.config.groups[g]
                                ELSE groups[g]]
Looking(f) == /\ GoesOn(f) /\ UNCHANGED <<groups, heap>> /\ top.phase = 4 /\ f.phase = 4
              /\ top.i \in DOMAIN top.config.modules /\ Entry.config # Absent
              /\ f.objects = top.objects /\ Entry.name \notin DOMAIN top.modules
              /\ f.modules = Put(top.modules, Entry.name, Null)
Porting(f) == /\ GoesOn(f) /\ SameMaps(f) /\ UNCHANGED groups /\ top.phase = 5 /\ f.phase = 5
              /\ Len(heap') = Len(heap) /\ SameClasses(heap, heap')
              /\ \A side \in {"up", "down"} : Bonds(heap', side) = Bonds(heap, side)
Connecting(f) == /\ GoesOn(f) /\ SameMaps(f) /\ UNCHANGED groups /\ top.phase = 6 /\ f.phase = 6
                 /\ top.i \in DOMAIN top.config.connections
                 /\ Len(heap') = Len(heap) /\ SameClasses(heap, heap')
                 /\ \/ UNCHANGED heap
                    \/ /\ Connection.src.kind = "group" /\ Connection.dst.kind = "group"
                       /\ \E S, D, ps, pd :
                             /\ Joined(heap, heap', S, D, ps, pd)
                             /\ \A p \in S \cup D : p[1] \in Created(top)
Entering == /\ Running /\ top.phase = 4 /\ UNCHANGED <<groups, heap, completed>>
            /\ stack' \in Seq(FrameType) /\ Len(stack) \in Nat \ {0}
            /\ Len(stack') = Len(stack) + 1
            /\ \E config \in Configs, arg \in Contents, self \in Nat \ {0} :
                  stack'[1] = Frame(config, arg, self)
            /\ stack'[2] = Advanced(top)
            /\ \A k \in 3 .. Len(stack) + 1 : stack'[k] = stack[k - 1]
            /\ call'.status = "running"
Unwinding == /\ Running /\ top.phase = 4 /\ UNCHANGED <<groups, heap, completed>>
             /\ stack' = << >> /\ call'.status = "threw"
Starting == /\ stack = << >> /\ UNCHANGED <<groups, heap, completed>>
            /\ \E config \in Configs, arg \in Contents :
                  stack' = <<Frame(config, arg, Null)>>
            /\ call'.status = "running"
Still == UNCHANGED <<groups, heap, stack, completed>>

LEMMA AdvancedFields ==
    ASSUME NEW f \in FrameType
    PROVE  /\ Advanced(f) \in FrameType /\ Advanced(f).config = f.config
           /\ Advanced(f).redefined = f.redefined /\ Advanced(f).phase = f.phase
           /\ Advanced(f).objects = f.objects /\ Advanced(f).modules = f.modules
           /\ Advanced(f).i = f.i + 1
  BY DEF Advanced, FrameType

\* The next item of the same phase.
LEMMA AdvancedTop ==
    ASSUME Core, Running, Continue(Advanced(top)), UNCHANGED <<call, completed>>
    PROVE  GoesOn(Advanced(top)) /\ SameMaps(Advanced(top)) /\ Advanced(top).phase = top.phase
           /\ (top.phase # 3 /\ Defined(Advanced(top)) => Defined(top))
  BY TopFacts, AdvancedFields DEF GoesOn, SameMaps, Defined

LEMMA CreatingStep ==
    ASSUME Core, CreateModule \/ CreateObject
    PROVE  \E f : Creating(f)
  <1>1. /\ InLoop("create") /\ Running /\ top.phase = 2 /\ top \in FrameType
        /\ Entry.name \in EntryNames /\ Len(heap) \in Nat
    BY EntryFacts, TopFacts DEF CreateModule, CreateObject
  <1>2. PICK n, id : n = Entry.name /\ id = Len(heap) + 1
    OBVIOUS
  <1>3. Put(top.objects, n, id) \in Map /\ Put(top.modules, n, id) \in Map
    <2>1. n \in EntryNames /\ id \in Nat /\ top.objects \in Map /\ top.modules \in Map
      BY <1>1, <1>2 DEF FrameType
    <2>. QED
      BY <2>1, PutType
  <1>4. CASE CreateModule
    <2>1. PICK h : h = [top EXCEPT !.objects = Put(@, n, id), !.modules = Put(@, n, id)]
      OBVIOUS
    <2>2. /\ h \in FrameType /\ h.phase = 2 /\ h.config = top.config
          /\ h.redefined = top.redefined /\ h.objects = Put(top.objects, n, id)
          /\ h.modules = Put(top.modules, n, id)
      BY <1>1, <1>3, <2>1 DEF FrameType
    <2>3. PICK f : f = Advanced(h)
      OBVIOUS
    <2>4. PICK class : class = module_registry[Entry.type]
      OBVIOUS
    <2>5. /\ heap' = Append(heap, Object(class)) /\ Continue(f)
          /\ UNCHANGED <<groups, call, completed>>
      BY <1>2, <1>4, <2>1, <2>3, <2>4 DEF CreateModule
    <2>6. class \in Classes
      <3>1. <<Entry.type, class>> \in ModuleRegistrations
        BY <1>4, <2>4 DEF Core, TypeOK, CreateModule
      <3>. QED
        BY <3>1 DEF Classes
    <2>. QED
      BY <1>1, <1>2, <2>2, <2>3, <2>5, <2>6, AdvancedFields DEF Creating, GoesOn
  <1>5. CASE CreateObject
    <2>1. PICK h : h = [top EXCEPT !.objects = Put(@, n, id)]
      OBVIOUS
    <2>2. /\ h \in FrameType /\ h.phase = 2 /\ h.config = top.config
          /\ h.redefined = top.redefined /\ h.objects = Put(top.objects, n, id)
          /\ h.modules = top.modules
      BY <1>1, <1>3, <2>1 DEF FrameType
    <2>3. PICK f : f = Advanced(h)
      OBVIOUS
    <2>4. PICK class : class = object_registry[Entry.type]
      OBVIOUS
    <2>5. /\ heap' = Append(heap, Object(class)) /\ Continue(f)
          /\ UNCHANGED <<groups, call, completed>>
      BY <1>2, <1>5, <2>1, <2>3, <2>4 DEF CreateObject
    <2>6. class \in Classes /\ class \in ObjectClasses
      <3>1. <<Entry.type, class>> \in ObjectTypes
        BY <1>5, <2>4 DEF Core, TypeOK, CreateObject
      <3>. QED
        BY <3>1 DEF Classes, ObjectClasses
    <2>. QED
      BY <1>1, <1>2, <2>2, <2>3, <2>5, <2>6, AdvancedFields DEF Creating, GoesOn
  <1>. QED
    BY <1>4, <1>5

LEMMA SkippingStep ==
    ASSUME Core, SkipInternal
    PROVE  \E f : Quiet(f) \/ Looking(f)
  <1>1. /\ Running /\ top.phase = 4 /\ top \in FrameType /\ Entry.name \in EntryNames
        /\ top.i \in DOMAIN top.config.modules /\ UNCHANGED <<groups, heap, call, completed>>
    BY EntryFacts, TopFacts DEF SkipInternal
  <1>2. CASE Continue(Advanced(top))
    <2>1. Quiet(Advanced(top))
      BY <1>1, <1>2, AdvancedTop DEF Quiet
    <2>. QED
      BY <2>1
  <1>3. CASE /\ Entry.config # Absent /\ Continue(Advanced(Looked(top, Entry.name)))
             /\ Entry.name \notin DOMAIN top.modules
    <2>1. PICK n : n = Entry.name
      OBVIOUS
    <2>2. PICK h : h = [top EXCEPT !.modules = Put(@, n, Null)]
      OBVIOUS
    <2>3. Put(top.modules, n, Null) \in Map
      <3>1. n \in EntryNames /\ Null \in Nat /\ top.modules \in Map
        BY <1>1, <2>1 DEF FrameType, Null
      <3>. QED
        BY <3>1, PutType
    <2>4. /\ h \in FrameType /\ h.phase = 4 /\ h.config = top.config
          /\ h.redefined = top.redefined /\ h.objects = top.objects
          /\ h.modules = Put(top.modules, n, Null)
      BY <1>1, <2>2, <2>3 DEF FrameType
    <2>5. PICK f : f = Advanced(h)
      OBVIOUS
    <2>6. Continue(f)
      BY <1>3, <2>1, <2>2, <2>5 DEF Looked
    <2>. QED
      BY <1>1, <1>3, <2>1, <2>4, <2>5, <2>6, AdvancedFields DEF Looking, GoesOn
  <1>4. Entry.name \in DOMAIN top.modules => Looked(top, Entry.name) = top
    BY DEF Looked
  <1>. QED
    BY <1>2, <1>3, <1>4 DEF SkipInternal

LEMMA EndLoopStep ==
    ASSUME Core, EndLoop
    PROVE  \E f : Quiet(f)
  <1>1. PICK f : f = [top EXCEPT !.phase = @ + 1, !.i = 1]
    OBVIOUS
  <1>2. /\ Running /\ Continue(f) /\ top.phase < 6 /\ top.i > Items
        /\ UNCHANGED <<groups, heap, call, completed>>
    BY <1>1, PhaseNumbers DEF EndLoop
  <1>3. top \in FrameType
    BY <1>2, TopFacts
  <1>4. /\ f \in FrameType /\ f.phase = top.phase + 1 /\ f.i = 1 /\ f.redefined = top.redefined
        /\ f.config = top.config /\ f.objects = top.objects /\ f.modules = top.modules
    <2>1. top.phase + 1 \in 1 .. 6 /\ 1 \in Nat \ {0}
      BY <1>2, <1>3 DEF FrameType
    <2>. QED
      BY <1>1, <1>3, <2>1 DEF FrameType
  <1>5. top.phase = 3 => top.i > 1
    BY <1>2, PhaseNumbers DEF Items
  <1>6. top.phase \in 1 .. 6
    BY <1>3 DEF FrameType
  <1>7. Defined(f) => Defined(top)
    BY <1>4, <1>5, <1>6 DEF Defined
  <1>8. top.phase # 6 /\ (f.phase < 4 => top.phase < 4)
    BY <1>2, <1>4, <1>6
  <1>. QED
    BY <1>2, <1>4, <1>7, <1>8 DEF Quiet, GoesOn, SameMaps

LEMMA NoPeer == << >> \notin Refs
  <1>1. \A a, b : Len(<<a, b>>) = 2 /\ Len(<< >>) = 0
    OBVIOUS
  <1>2. \A r \in Refs : r = <<r[1], r[2]>>
    BY DEF Refs
  <1>. QED
    BY <1>1, <1>2

\* Object c is b with more ports.
PortsAdded(b, c) ==
    /\ c.class = b.class
    /\ \A s \in {"up", "down"} :
          /\ DOMAIN b[s] \subseteq DOMAIN c[s]
          /\ \A i \in DOMAIN b[s] : c[s][i] = b[s][i]
          /\ \A i \in DOMAIN c[s] \ DOMAIN b[s] : c[s][i].peer = << >>

LEMMA AddPortsFacts ==
    ASSUME NEW objects \in Seq(ObjectType), NEW side \in {"up", "down"}, NEW sizes, NEW owners,
           NEW id \in 1 .. Len(objects)
    PROVE  PortsAdded(objects[id], addPorts(objects, owners, side, sizes)[id])
  <1>1. PICK b : b = objects[id]
    OBVIOUS
  <1>2. b \in ObjectType /\ id \in DOMAIN objects
    BY <1>1
  <1>3. b.up \in Seq(PortType) /\ b.down \in Seq(PortType)
    BY <1>2 DEF ObjectType
  <1>4. PICK port : port = Port((CHOOSE o \in owners : TRUE).label, sizes)
    OBVIOUS
  <1>5. port.peer = << >>
    BY <1>4 DEF Port
  <1>6. PICK c : c = addPorts(objects, owners, side, sizes)[id]
    OBVIOUS
  <1>. SUFFICES PortsAdded(b, c)
    BY <1>1, <1>6
  <1>7. c = b \/ c = [b EXCEPT ![side] = Append(@, port)]
    BY <1>1, <1>2, <1>4, <1>6 DEF addPorts
  <1>8. \A q \in Seq(PortType) : /\ DOMAIN q \subseteq DOMAIN Append(q, port)
                                 /\ \A i \in DOMAIN q : Append(q, port)[i] = q[i]
                                 /\ \A i \in DOMAIN Append(q, port) \ DOMAIN q :
                                       Append(q, port)[i] = port
    OBVIOUS
  <1>9. CASE c = b
    BY <1>9 DEF PortsAdded
  <1>10. CASE side = "up" /\ c # b
    <2>1. c = [b EXCEPT !.up = Append(@, port)]
      BY <1>7, <1>10
    <2>2. c.class = b.class /\ c.up = Append(b.up, port) /\ c.down = b.down
      BY <1>2, <2>1 DEF ObjectType
    <2>. QED
      BY <1>3, <1>5, <1>8, <2>2 DEF PortsAdded
  <1>11. CASE side = "down" /\ c # b
    <2>1. c = [b EXCEPT !.down = Append(@, port)]
      BY <1>7, <1>11
    <2>2. c.class = b.class /\ c.down = Append(b.down, port) /\ c.up = b.up
      BY <1>2, <2>1 DEF ObjectType
    <2>. QED
      BY <1>3, <1>5, <1>8, <2>2 DEF PortsAdded
  <1>. QED
    BY <1>9, <1>10, <1>11, <1>7

LEMMA AddPortsBonds ==
    ASSUME NEW objects \in Seq(ObjectType), NEW new \in Seq(ObjectType), Len(new) = Len(objects),
           \A id \in 1 .. Len(objects) : PortsAdded(objects[id], new[id]),
           NEW s \in {"up", "down"}
    PROVE  Bonds(new, s) = Bonds(objects, s) /\ SameClasses(objects, new)
  <1>1. DOMAIN objects = 1 .. Len(objects) /\ DOMAIN new = 1 .. Len(objects)
    OBVIOUS
  <1>2. ASSUME NEW b \in Bonds(objects, s)
        PROVE  b \in Bonds(new, s)
    BY <1>1 DEF Bonds, PortsAdded
  <1>3. ASSUME NEW b \in Bonds(new, s)
        PROVE  b \in Bonds(objects, s)
    <2>1. /\ b \in Refs \X Refs /\ b[2] \in Refs /\ b[1][1] \in 1 .. Len(objects)
          /\ b[1][2] \in DOMAIN new[b[1][1]][s]
          /\ new[b[1][1]][s][b[1][2]].peer = b[2]
      BY <1>1 DEF Bonds
    <2>2. b[1][2] \in DOMAIN objects[b[1][1]][s]
      BY <2>1, NoPeer DEF PortsAdded
    <2>3. objects[b[1][1]][s][b[1][2]].peer = b[2]
      BY <2>1, <2>2 DEF PortsAdded
    <2>. QED
      BY <1>1, <2>1, <2>2, <2>3 DEF Bonds
  <1>4. SameClasses(objects, new)
    BY DEF SameClasses, PortsAdded
  <1>. QED
    BY <1>2, <1>3, <1>4

LEMMA PortingStep ==
    ASSUME Core, CreatePorts, ~Crash
    PROVE  \E f : Porting(f)
  <1>1. Running /\ top.phase = 5 /\ Connection \in Connections /\ heap \in Seq(ObjectType)
    BY ConnectionFacts DEF CreatePorts, Core, Shapes
  <1>2. /\ \A spec \in {Connection.src, Connection.dst} :
              spec.kind = "name" => ~ThroughNull(top, spec.name)
        /\ heap' = addPorts(addPorts(heap, PortOwners(top, Connection.src), "down",
                                     BufferSizes(Connection.output_buffer_sizes)),
                            PortOwners(top, Connection.dst), "up",
                            BufferSizes(Connection.input_buffer_sizes))
        /\ Continue(Advanced(top)) /\ UNCHANGED <<groups, call, completed>>
    BY DEF CreatePorts
  <1>3. /\ BufferSizes(Connection.output_buffer_sizes) \in Sizes
        /\ BufferSizes(Connection.input_buffer_sizes) \in Sizes
    BY <1>1 DEF Sizes
  <1>4. /\ \A o \in PortOwners(top, Connection.src) : o.label \in Labels
        /\ \A o \in PortOwners(top, Connection.dst) : o.label \in Labels
    BY <1>1, <1>2, DenotedFacts DEF PortOwners, Labels
  <1>5. PICK mid : mid = addPorts(heap, PortOwners(top, Connection.src), "down",
                                  BufferSizes(Connection.output_buffer_sizes))
    OBVIOUS
  <1>6. /\ mid \in Seq(ObjectType) /\ Len(mid) = Len(heap)
        /\ \A id \in 1 .. Len(heap) : PortsAdded(heap[id], mid[id])
    BY <1>1, <1>3, <1>4, <1>5, AddPortsType, AddPortsFacts
  <1>7. PICK new : new = addPorts(mid, PortOwners(top, Connection.dst), "up",
                                  BufferSizes(Connection.input_buffer_sizes))
    OBVIOUS
  <1>8. /\ new \in Seq(ObjectType) /\ Len(new) = Len(mid)
        /\ \A id \in 1 .. Len(mid) : PortsAdded(mid[id], new[id])
    BY <1>3, <1>4, <1>6, <1>7, AddPortsType, AddPortsFacts
  <1>9. /\ SameClasses(heap, mid)
        /\ \A s \in {"up", "down"} : Bonds(mid, s) = Bonds(heap, s)
    BY <1>1, <1>6, AddPortsBonds
  <1>10. /\ SameClasses(mid, new)
         /\ \A s \in {"up", "down"} : Bonds(new, s) = Bonds(mid, s)
    BY <1>6, <1>8, AddPortsBonds
  <1>11. heap' = new
    BY <1>2, <1>5, <1>7
  <1>12. SameClasses(heap, new)
    BY <1>6, <1>9, <1>10 DEF SameClasses
  <1>13. Porting(Advanced(top))
    BY <1>1, <1>2, <1>6, <1>8, <1>9, <1>10, <1>11, <1>12, AdvancedTop DEF Porting
  <1>. QED
    BY <1>13

LEMMA ConnectingStep ==
    ASSUME Core, Connect, ~Crash
    PROVE  \E f : Connecting(f)
  <1>1. Running /\ top.phase = 6 /\ top.i \in DOMAIN top.config.connections
    BY ConnectionFacts DEF Connect
  <1>2. Connecting(Advanced(top))
    BY <1>1, ConnectFacts, AdvancedTop DEF Connecting
  <1>. QED
    BY <1>2

\* The kinds of steps there are, as far as frames, objects and groups go.
LEMMA StepKinds ==
    ASSUME Core, [Next]_vars
    PROVE  \/ Still
           \/ \E f : Quiet(f) \/ Creating(f) \/ Defining(f) \/ Looking(f) \/ Porting(f)
                     \/ Connecting(f)
           \/ Entering \/ Unwinding \/ Return \/ Starting
  <1>1. CASE \/ \E r \in ObjectTypes : registerObject(r[1], r[2])
             \/ \E r \in ModuleTypes : registerModule(r[1], r[2])
             \/ \E r \in ObjectTypes : unregisterObject(r[1])
             \/ \E r \in ModuleTypes : unregisterModule(r[1])
             \/ clearAllTypes
             \/ startAllTicks
             \/ UNCHANGED vars
             \/ Crash
    BY <1>1 DEF Still, registerObject, registerModule, unregisterObject, unregisterModule,
                clearAllTypes, startAllTicks, vars, Crash
  <1>2. CASE \E arg \in Args : Call(arg)
    <2>1. PICK arg \in Args : Call(arg)
      BY <1>2
    <2>2. CASE UNCHANGED stack
      BY <2>1, <2>2 DEF Call, Still
    <2>3. CASE \E config \in loadAndInclude(arg) :
                  /\ stack' = <<Frame(config, arg, Null)>>
                  /\ call' = [status |-> "running", arg |-> arg]
      <3>1. PICK config \in loadAndInclude(arg) : stack' = <<Frame(config, arg, Null)>>
        BY <2>3
      <3>2. config \in Configs /\ arg \in Contents
        BY LoadFacts
      <3>. QED
        BY <2>1, <2>3, <3>1, <3>2 DEF Starting, Call, Idle
    <2>. QED
      BY <2>1, <2>2, <2>3 DEF Call
  <1>3. CASE \E loaded \in SUBSET DOMAIN PluginTypes : LoadPlugins(loaded)
    <2>1. /\ Running /\ top.phase = 1 /\ Continue(Advanced(top))
          /\ UNCHANGED <<groups, heap, call, completed>>
      BY <1>3, TopFacts, PhaseNumbers DEF LoadPlugins, InLoop, InPhase, FrameType
    <2>2. Quiet(Advanced(top))
      BY <2>1, AdvancedTop DEF Quiet
    <2>. QED
      BY <2>2
  <1>4. CASE CreateModule \/ CreateObject
    BY <1>4, CreatingStep
  <1>5. CASE CreateNothing /\ ~Crash
    <2>1. /\ Running /\ top.phase = 2 /\ Continue(Advanced(top))
          /\ UNCHANGED <<groups, heap, call, completed>>
      BY <1>5, EntryFacts DEF CreateNothing
    <2>2. Quiet(Advanced(top))
      BY <2>1, AdvancedTop DEF Quiet
    <2>. QED
      BY <2>2
  <1>6. CASE DefineGroups
    <2>1. Running /\ top.phase = 3 /\ Continue(Advanced(top)) /\ UNCHANGED <<heap, call, completed>>
      BY <1>6, TopFacts, PhaseNumbers DEF DefineGroups, InLoop, InPhase, FrameType
    <2>2. Defining(Advanced(top))
      BY <1>6, <2>1, AdvancedTop DEF Defining, DefineGroups
    <2>. QED
      BY <2>2
  <1>7. CASE SkipInternal
    BY <1>7, SkippingStep
  <1>8. CASE EnterInternal
    <2>1. call \in CallType /\ {"running", "threw"} \subseteq Statuses
      BY DEF Core, Shapes, Statuses
    <2>2. /\ [call EXCEPT !.status = "running"].status = "running"
          /\ [call EXCEPT !.status = "threw"].status = "threw"
      BY <2>1, StatusFacts
    <2>. QED
      BY <1>8, <2>2, EnterShape DEF Entering, Unwinding
  <1>9. CASE NamelessInternal
    <2>1. call \in CallType /\ "threw" \in Statuses
      BY DEF Core, Shapes, Statuses
    <2>2. [call EXCEPT !.status = "threw"].status = "threw"
      BY <2>1, StatusFacts
    <2>. QED
      BY <1>9, <2>2, EntryFacts DEF NamelessInternal, Unwinding
  <1>10. CASE CreatePorts /\ ~Crash
    BY <1>10, PortingStep
  <1>11. CASE Connect /\ ~Crash
    BY <1>11, ConnectingStep
  <1>12. CASE EndLoop
    BY <1>12, EndLoopStep
  <1>13. CASE Return
    BY <1>13
  <1>. QED
    BY <1>1, <1>2, <1>3, <1>4, <1>5, <1>6, <1>7, <1>8, <1>9, <1>10, <1>11, <1>12, <1>13
       DEF Next, Step

-----------------------------------------------------------------------------
(* The group table *)

LEMMA ContinueFacts ==
    ASSUME Core, NEW f, GoesOn(f)
    PROVE  /\ Running /\ f \in FrameType /\ f.config = top.config /\ f.redefined = top.redefined
           /\ UNCHANGED completed
           /\ stack' \in Seq(FrameType) /\ Len(stack) \in Nat \ {0} /\ Len(stack') = Len(stack)
           /\ DOMAIN stack = 1 .. Len(stack) /\ DOMAIN stack' = 1 .. Len(stack)
           /\ top = stack[1] /\ stack'[1] = f
           /\ \A k \in 2 .. Len(stack) : stack'[k] = stack[k]
  <1>1. Running /\ f \in FrameType /\ Continue(f)
    BY DEF GoesOn
  <1>2. /\ stack' \in Seq(FrameType) /\ Len(stack) \in Nat \ {0} /\ Len(stack') = Len(stack)
        /\ stack'[1] = f /\ \A k \in 2 .. Len(stack) : stack'[k] = stack[k]
    BY <1>1, TopFacts, PushFacts DEF Continue
  <1>. QED
    BY <1>1, <1>2, TopFacts DEF GoesOn

\* The groups that a frame or a call it made has redefined for its callers.
Shadows(f) == f.redefined \cup DOMAIN f.config.groups

\* The groups of a frame are its own, but for those shadowed above it.
GroupsInv ==
    \A k \in 1 .. Len(stack) : Defined(stack[k]) =>
        \A g \in DOMAIN stack[k].config.groups :
            \/ g \in stack[k].redefined
            \/ \E j \in 1 .. k - 1 : g \in Shadows(stack[j])
            \/ g \in DOMAIN groups /\ groups[g] = stack[k].config.groups[g]

LEMMA GroupsGoOn ==
    ASSUME Core, GroupsInv, NEW f, GoesOn(f),
           \/ UNCHANGED groups /\ (Defined(f) => Defined(top))
           \/ Defining(f)
    PROVE  GroupsInv'
  <1>1. /\ stack' \in Seq(FrameType) /\ Len(stack) \in Nat \ {0} /\ Len(stack') = Len(stack)
        /\ top = stack[1] /\ stack'[1] = f
        /\ \A k \in 2 .. Len(stack) : stack'[k] = stack[k]
        /\ f.config = stack[1].config /\ f.redefined = stack[1].redefined
    BY ContinueFacts
  <1>2. \A j \in 1 .. Len(stack) : Shadows(stack'[j]) = Shadows(stack[j])
    BY <1>1 DEF Shadows
  <1>3. ASSUME NEW k \in 1 .. Len(stack), Defined(stack'[k]),
               NEW g \in DOMAIN stack'[k].config.groups
        PROVE  \/ g \in stack'[k].redefined
               \/ \E j \in 1 .. k - 1 : g \in Shadows(stack'[j])
               \/ g \in DOMAIN groups' /\ groups'[g] = stack'[k].config.groups[g]
    <2>1. stack'[k].config = stack[k].config /\ stack'[k].redefined = stack[k].redefined
      BY <1>1
    <2>2. \A j \in 1 .. k - 1 : j \in 1 .. Len(stack)
      BY <1>1
    <2>3. CASE k = 1 /\ Defining(f)
      BY <1>1, <1>3, <2>1, <2>3 DEF Defining
    <2>4. CASE ~(k = 1 /\ Defining(f))
      <3>1. Defined(stack[k])
        BY <1>1, <1>3, <2>4
      <3>2. \/ g \in stack[k].redefined
            \/ \E j \in 1 .. k - 1 : g \in Shadows(stack[j])
            \/ g \in DOMAIN groups /\ groups[g] = stack[k].config.groups[g]
        BY <1>3, <2>1, <3>1 DEF GroupsInv
      <3>3. CASE g \in stack[k].redefined \/ \E j \in 1 .. k - 1 : g \in Shadows(stack[j])
        BY <1>2, <2>1, <2>2, <3>3
      <3>4. CASE g \in DOMAIN groups /\ groups[g] = stack[k].config.groups[g]
        <4>1. CASE UNCHANGED groups
          BY <2>1, <3>4, <4>1
        <4>2. CASE Defining(f)
          <5>1. CASE g \in DOMAIN top.config.groups
            <6>1. 1 \in 1 .. k - 1
              BY <1>1, <2>4, <4>2
            <6>2. g \in Shadows(stack[1])
              BY <1>1, <5>1 DEF Shadows
            <6>. QED
              BY <1>2, <2>2, <6>1, <6>2
          <5>2. CASE g \notin DOMAIN top.config.groups
            BY <2>1, <3>4, <4>2, <5>2 DEF Defining
          <5>. QED
            BY <5>1, <5>2
        <4>. QED
          BY <4>1, <4>2
      <3>. QED
        BY <3>2, <3>3, <3>4
    <2>. QED
      BY <2>3, <2>4
  <1>. QED
    BY <1>1, <1>3 DEF GroupsInv

LEMMA GroupsEntering ==
    ASSUME Core, GroupsInv, Entering
    PROVE  GroupsInv'
  <1>1. /\ Running /\ top.phase = 4 /\ groups' = groups /\ Len(stack) \in Nat \ {0}
        /\ Len(stack') = Len(stack) + 1 /\ stack'[2] = Advanced(top)
        /\ \A k \in 3 .. Len(stack) + 1 : stack'[k] = stack[k - 1]
    BY DEF Entering
  <1>2. top = stack[1] /\ top \in FrameType
    BY <1>1, TopFacts
  <1>3. /\ stack'[2].config = stack[1].config /\ stack'[2].redefined = stack[1].redefined
        /\ Defined(stack[1])
    BY <1>1, <1>2, AdvancedFields DEF Defined
  <1>4. ~Defined(stack'[1])
    <2>1. stack'[1].phase = 1
      BY FrameFacts DEF Entering
    <2>. QED
      BY <2>1 DEF Defined
  <1>5. ASSUME NEW j \in 1 .. Len(stack)
        PROVE  /\ j + 1 \in 1 .. Len(stack') /\ stack'[j + 1].config = stack[j].config
               /\ stack'[j + 1].redefined = stack[j].redefined
    <2>1. CASE j = 1
      BY <1>1, <1>3, <2>1
    <2>2. CASE j # 1
      <3>1. j + 1 \in 3 .. Len(stack) + 1 /\ (j + 1) - 1 = j
        BY <1>1, <2>2
      <3>2. stack'[j + 1] = stack[(j + 1) - 1]
        BY <1>1, <3>1
      <3>. QED
        BY <1>1, <3>1, <3>2
    <2>. QED
      BY <2>1, <2>2
  <1>6. ASSUME NEW k \in 1 .. Len(stack'), Defined(stack'[k]),
               NEW g \in DOMAIN stack'[k].config.groups
        PROVE  \/ g \in stack'[k].redefined
               \/ \E j \in 1 .. k - 1 : g \in Shadows(stack'[j])
               \/ g \in DOMAIN groups' /\ groups'[g] = stack'[k].config.groups[g]
    <2>1. PICK l \in 1 .. Len(stack) : k = l + 1
      <3>1. k # 1
        BY <1>4, <1>6
      <3>2. k - 1 \in 1 .. Len(stack) /\ k = (k - 1) + 1
        BY <1>1, <3>1
      <3>. QED
        BY <3>2
    <2>2. stack'[k].config = stack[l].config /\ stack'[k].redefined = stack[l].redefined
      BY <1>5, <2>1
    <2>3. Defined(stack[l])
      <3>1. CASE l = 1
        BY <1>3, <3>1
      <3>2. CASE l # 1
        <4>1. k \in 3 .. Len(stack) + 1 /\ k - 1 = l
          BY <1>1, <2>1, <3>2
        <4>2. stack'[k] = stack[k - 1]
          BY <1>1, <4>1
        <4>. QED
          BY <1>6, <4>1, <4>2
      <3>. QED
        BY <3>1, <3>2
    <2>4. \/ g \in stack[l].redefined
          \/ \E j \in 1 .. l - 1 : g \in Shadows(stack[j])
          \/ g \in DOMAIN groups /\ groups[g] = stack[l].config.groups[g]
      BY <1>6, <2>2, <2>3 DEF GroupsInv
    <2>5. ASSUME NEW j \in 1 .. l - 1, g \in Shadows(stack[j])
          PROVE  \E i \in 1 .. k - 1 : g \in Shadows(stack'[i])
      <3>1. j \in 1 .. Len(stack) /\ j + 1 \in 1 .. k - 1
        BY <1>1, <2>1
      <3>2. Shadows(stack'[j + 1]) = Shadows(stack[j])
        BY <1>5, <3>1 DEF Shadows
      <3>. QED
        BY <2>5, <3>1, <3>2
    <2>. QED
      BY <1>1, <2>2, <2>4, <2>5
  <1>. QED
    BY <1>6 DEF GroupsInv

LEMMA GroupsReturning ==
    ASSUME Core, GroupsInv, Return
    PROVE  GroupsInv'
  <1>1. Running /\ groups' = groups
    BY ReturnFacts DEF registries
  <1>2. CASE stack' = << >>
    BY <1>2 DEF GroupsInv
  <1>3. CASE stack' # << >>
    <2>1. /\ Len(stack) \in Nat \ {0, 1} /\ Len(stack') = Len(stack) - 1
          /\ stack'[1] = Resumed
          /\ Resumed.redefined = stack[2].redefined
                                 \cup (top.redefined \cup DOMAIN top.config.groups)
          /\ \A k \in 2 .. Len(stack) - 1 : stack'[k] = stack[k + 1]
      BY <1>3, ReturnFacts
    <2>2. /\ Resumed.config = stack[2].config /\ Resumed.phase = stack[2].phase
          /\ Resumed.i = stack[2].i /\ top = stack[1]
      BY <1>1, <1>3, ReturnFacts, TopFacts
    <2>3. ASSUME NEW k \in 1 .. Len(stack')
          PROVE  /\ k + 1 \in 2 .. Len(stack) /\ k + 1 \in 1 .. Len(stack)
                 /\ stack'[k].config = stack[k + 1].config
                 /\ (Defined(stack'[k]) => Defined(stack[k + 1]))
                 /\ stack[k + 1].redefined \subseteq stack'[k].redefined
      <3>1. CASE k = 1
        BY <2>1, <2>2, <3>1 DEF Defined
      <3>2. CASE k # 1
        BY <2>1, <3>2
      <3>. QED
        BY <3>1, <3>2
    <2>4. Shadows(stack[1]) \subseteq stack'[1].redefined
      BY <2>1, <2>2 DEF Shadows
    <2>5. ASSUME NEW k \in 1 .. Len(stack'), Defined(stack'[k]),
                 NEW g \in DOMAIN stack'[k].config.groups
          PROVE  \/ g \in stack'[k].redefined
                 \/ \E j \in 1 .. k - 1 : g \in Shadows(stack'[j])
                 \/ g \in DOMAIN groups' /\ groups'[g] = stack'[k].config.groups[g]
      <3>1. PICK l \in 1 .. Len(stack) : l = k + 1
        BY <2>3
      <3>2. \/ g \in stack[l].redefined
            \/ \E j \in 1 .. l - 1 : g \in Shadows(stack[j])
            \/ g \in DOMAIN groups /\ groups[g] = stack[l].config.groups[g]
        BY <2>3, <2>5, <3>1 DEF GroupsInv
      <3>3. ASSUME NEW j \in 1 .. l - 1, g \in Shadows(stack[j])
            PROVE  g \in stack'[k].redefined \/ \E i \in 1 .. k - 1 : g \in Shadows(stack'[i])
        <4>1. CASE j = 1
          <5>1. g \in stack'[1].redefined
            BY <2>4, <3>3, <4>1
          <5>2. k = 1 \/ 1 \in 1 .. k - 1
            BY <2>1
          <5>. QED
            BY <5>1, <5>2 DEF Shadows
        <4>2. CASE j # 1
          <5>1. PICK i : i = j - 1
            OBVIOUS
          <5>2. i \in 1 .. k - 1 /\ i \in 1 .. Len(stack') /\ i + 1 = j
            BY <2>1, <3>1, <4>2, <5>1
          <5>3. Shadows(stack[j]) \subseteq Shadows(stack'[i])
            BY <2>3, <5>2 DEF Shadows
          <5>. QED
            BY <3>3, <5>2, <5>3
        <4>. QED
          BY <4>1, <4>2
      <3>. QED
        BY <1>1, <2>3, <3>1, <3>2, <3>3
    <2>. QED
      BY <2>5 DEF GroupsInv
  <1>. QED
    BY <1>2, <1>3

LEMMA GroupsHold == Spec => [](Core /\ GroupsInv)
  <1>1. Init => GroupsInv
    BY DEF Init, GroupsInv
  <1>2. Core /\ GroupsInv /\ [Next]_vars => GroupsInv'
    <2>. SUFFICES ASSUME Core, GroupsInv, [Next]_vars
                  PROVE  GroupsInv'
      OBVIOUS
    <2>1. CASE Still
      BY <2>1 DEF Still, GroupsInv
    <2>2. CASE \E f : Quiet(f) \/ Creating(f) \/ Defining(f) \/ Looking(f) \/ Porting(f)
                      \/ Connecting(f)
      <3>1. PICK f : Quiet(f) \/ Creating(f) \/ Defining(f) \/ Looking(f) \/ Porting(f)
                     \/ Connecting(f)
        BY <2>2
      <3>2. GoesOn(f)
        BY <3>1 DEF Quiet, Creating, Defining, Looking, Porting, Connecting
      <3>3. \/ Defining(f)
            \/ UNCHANGED groups /\ (Defined(f) => Defined(top))
        BY <3>1 DEF Quiet, Creating, Looking, Porting, Connecting, Defined
      <3>. QED
        BY <3>2, <3>3, GroupsGoOn
    <2>3. CASE Unwinding
      BY <2>3 DEF Unwinding, GroupsInv
    <2>4. CASE Starting
      <3>1. PICK config \in Configs, arg \in Contents : stack' = <<Frame(config, arg, Null)>>
        BY <2>4 DEF Starting
      <3>2. Frame(config, arg, Null).phase = 1
        BY FrameFacts DEF Null
      <3>3. \A k \in 1 .. Len(stack') : stack'[k].phase = 1
        BY <3>1, <3>2
      <3>. QED
        BY <3>3 DEF GroupsInv, Defined
    <2>. QED
      BY <2>1, <2>2, <2>3, <2>4, GroupsEntering, GroupsReturning, StepKinds
  <1>. QED
    BY <1>1, <1>2, CoreHolds, PTL DEF Spec

\* A call resolves its connections with the groups of its own configuration,
\* but for those that a nested configuration redefined, since the table is
\* static (module_group.hh:12).
THEOREM GroupsAreOwn == Spec => []GroupsOfOwnFile
  <1>1. Core /\ GroupsInv => GroupsOfOwnFile
    <2>. SUFFICES ASSUME Core, GroupsInv, Running,
                         Phases[top.phase] \in {"internal", "ports", "connect"},
                         NEW g \in DOMAIN top.config.groups \ top.redefined
                  PROVE  g \in DOMAIN groups /\ groups[g] = top.config.groups[g]
      BY DEF GroupsOfOwnFile
    <2>1. top = stack[1] /\ 1 \in 1 .. Len(stack) /\ top.phase \in 1 .. 6
      BY TopFacts DEF FrameType
    <2>2. Defined(stack[1])
      BY <2>1, PhaseNumbers DEF Defined
    <2>. QED
      BY <2>1, <2>2 DEF GroupsInv
  <1>. QED
    BY <1>1, GroupsHold, PTL

-----------------------------------------------------------------------------
(* Who created an object, and what is bound to what *)

\* An object belongs to one call: what a call in progress created, no other has.
Owned == /\ \A k, l \in DOMAIN stack : k # l => Created(stack[k]) \cap Created(stack[l]) = {}
         /\ \A k \in DOMAIN stack, f \in completed : Created(stack[k]) \cap Created(f) = {}

\* Frames in the phase of the connections, and those that have ended.
Holders == completed \cup {f \in {stack[k] : k \in DOMAIN stack} : f.phase = 6}
GroupPair(f) == \E k \in DOMAIN f.config.connections :
                   /\ f.config.connections[k].src.kind = "group"
                   /\ f.config.connections[k].dst.kind = "group"
Other(side) == IF side = "up" THEN "down" ELSE "up"

\* The two ends of a bond belong to one frame that has connected or connects
\* groups, and the far end is bound as well.
BondsInv ==
    \A side \in {"up", "down"} : \A b \in Bonds(heap, side) :
        /\ \E c \in Bonds(heap, Other(side)) : c[1] = b[2]
        /\ \E f \in Holders : {b[1][1], b[2][1]} \subseteq Created(f)
        /\ \A f \in Frames : b[1][1] \in Created(f) => GroupPair(f)

LEMMA CreatedFacts ==
    ASSUME Core, NEW f \in Frames
    PROVE  Created(f) \subseteq 1 .. Len(heap)
  BY DEF Core, FramesOK, MapsOf, Created

\* What a frame that goes on has created.
LEMMA CreatedGrows ==
    ASSUME Core, NEW f,
           Quiet(f) \/ Creating(f) \/ Defining(f) \/ Looking(f) \/ Porting(f) \/ Connecting(f)
    PROVE  /\ GoesOn(f)
           /\ Created(f) \subseteq Created(top) \cup {Len(heap) + 1}
           /\ ~Creating(f) => Created(f) = Created(top)
  <1>1. GoesOn(f)
    BY DEF Quiet, Creating, Defining, Looking, Porting, Connecting
  <1>2. CASE f.objects = top.objects
    BY <1>1, <1>2 DEF Created
  <1>3. CASE Creating(f)
    <2>1. f.objects = Put(top.objects, Entry.name, Len(heap) + 1)
      BY <1>3 DEF Creating
    <2>. QED
      BY <1>1, <1>3, <2>1 DEF Created, Put
  <1>4. ~Creating(f) => f.objects = top.objects
    BY DEF Quiet, Defining, Looking, Porting, Connecting, SameMaps
  <1>. QED
    BY <1>1, <1>2, <1>3, <1>4

LEMMA OwnedGoesOn ==
    ASSUME Core, Owned, NEW f, GoesOn(f),
           Created(f) \subseteq Created(top) \cup {Len(heap) + 1}
    PROVE  Owned'
  <1>1. /\ DOMAIN stack = 1 .. Len(stack) /\ DOMAIN stack' = 1 .. Len(stack)
        /\ top = stack[1] /\ stack'[1] = f /\ completed' = completed
        /\ \A k \in 2 .. Len(stack) : stack'[k] = stack[k]
        /\ Len(stack) \in Nat \ {0}
    BY ContinueFacts
  <1>2. Len(heap) \in Nat
    BY DEF Core, Shapes
  <1>3. Len(heap) + 1 \notin 1 .. Len(heap)
    BY <1>2
  <1>4. ASSUME NEW g \in Frames, Created(top) \cap Created(g) = {}
        PROVE  Created(f) \cap Created(g) = {}
    BY <1>3, <1>4, CreatedFacts
  <1>5. \A k \in 1 .. Len(stack) : k # 1 =>
           /\ k \in 2 .. Len(stack) /\ stack[k] \in Frames
           /\ Created(f) \cap Created(stack[k]) = {}
    BY <1>1, <1>4 DEF Owned, Frames
  <1>6. \A g \in completed : Created(f) \cap Created(g) = {}
    BY <1>1, <1>4 DEF Owned, Frames
  <1>7. ASSUME NEW k \in 1 .. Len(stack), NEW l \in 1 .. Len(stack), k # l
        PROVE  Created(stack'[k]) \cap Created(stack'[l]) = {}
    <2>1. CASE k = 1
      BY <1>1, <1>5, <1>7, <2>1
    <2>2. CASE l = 1
      BY <1>1, <1>5, <1>7, <2>2
    <2>3. CASE k # 1 /\ l # 1
      BY <1>1, <1>5, <1>7, <2>3 DEF Owned
    <2>. QED
      BY <2>1, <2>2, <2>3
  <1>8. ASSUME NEW k \in 1 .. Len(stack), NEW g \in completed
        PROVE  Created(stack'[k]) \cap Created(g) = {}
    BY <1>1, <1>5, <1>6 DEF Owned
  <1>. QED
    BY <1>1, <1>7, <1>8 DEF Owned

LEMMA EnteringFrames ==
    ASSUME Core, Entering
    PROVE  /\ DOMAIN stack = 1 .. Len(stack) /\ DOMAIN stack' = 1 .. Len(stack) + 1
           /\ Len(stack) \in Nat \ {0} /\ Created(stack'[1]) = {}
           /\ stack'[1].objects = EmptyMap /\ stack'[1].modules = EmptyMap
           /\ \A k \in 2 .. Len(stack) + 1 :
                 /\ k - 1 \in 1 .. Len(stack) /\ Created(stack'[k]) = Created(stack[k - 1])
                 /\ stack'[k].config = stack[k - 1].config
                 /\ stack'[k].phase = stack[k - 1].phase
                 /\ stack'[k].modules = stack[k - 1].modules
                 /\ stack'[k].objects = stack[k - 1].objects
  <1>1. /\ Running /\ top.phase = 4 /\ groups' = groups /\ Len(stack) \in Nat \ {0}
        /\ Len(stack') = Len(stack) + 1 /\ stack'[2] = Advanced(top)
        /\ \A k \in 3 .. Len(stack) + 1 : stack'[k] = stack[k - 1]
        /\ stack' \in Seq(FrameType)
    BY DEF Entering
  <1>2. top = stack[1] /\ top \in FrameType /\ DOMAIN stack = 1 .. Len(stack)
    BY <1>1, TopFacts
  <1>3. /\ Created(stack'[1]) = {}
        /\ stack'[1].objects = EmptyMap /\ stack'[1].modules = EmptyMap
    <2>1. PICK config \in Configs, arg \in Contents, self \in Nat \ {0} :
             stack'[1] = Frame(config, arg, self)
      BY DEF Entering
    <2>2. stack'[1].objects = EmptyMap /\ stack'[1].modules = EmptyMap
      BY <2>1 DEF Frame
    <2>. QED
      BY <2>2, EmptyMapType DEF Created
  <1>4. /\ Created(stack'[2]) = Created(stack[1]) /\ stack'[2].config = stack[1].config
        /\ stack'[2].phase = stack[1].phase
        /\ stack'[2].modules = stack[1].modules /\ stack'[2].objects = stack[1].objects
    BY <1>1, <1>2, AdvancedFields DEF Created
  <1>5. ASSUME NEW k \in 2 .. Len(stack) + 1
        PROVE  /\ k - 1 \in 1 .. Len(stack) /\ Created(stack'[k]) = Created(stack[k - 1])
               /\ stack'[k].config = stack[k - 1].config
               /\ stack'[k].phase = stack[k - 1].phase
               /\ stack'[k].modules = stack[k - 1].modules
               /\ stack'[k].objects = stack[k - 1].objects
    <2>1. CASE k = 2
      BY <1>1, <1>4, <2>1
    <2>2. CASE k # 2
      <3>1. k \in 3 .. Len(stack) + 1 /\ k - 1 \in 1 .. Len(stack)
        BY <1>1, <2>2
      <3>. QED
        BY <1>1, <3>1
    <2>. QED
      BY <2>1, <2>2
  <1>. QED
    BY <1>1, <1>2, <1>3, <1>5

LEMMA OwnedEntering ==
    ASSUME Core, Owned, Entering
    PROVE  Owned'
  <1>1. /\ DOMAIN stack = 1 .. Len(stack) /\ DOMAIN stack' = 1 .. Len(stack) + 1
        /\ Len(stack) \in Nat \ {0} /\ Created(stack'[1]) = {} /\ completed' = completed
        /\ \A k \in 2 .. Len(stack) + 1 :
              k - 1 \in 1 .. Len(stack) /\ Created(stack'[k]) = Created(stack[k - 1])
    BY EnteringFrames DEF Entering
  <1>2. \A k \in 1 .. Len(stack) + 1 : k = 1 \/ k \in 2 .. Len(stack) + 1
    BY <1>1
  <1>3. ASSUME NEW k \in 2 .. Len(stack) + 1, NEW l \in 2 .. Len(stack) + 1, k # l
        PROVE  Created(stack'[k]) \cap Created(stack'[l]) = {}
    <2>1. PICK m, n : m = k - 1 /\ n = l - 1
      OBVIOUS
    <2>2. m # n
      BY <1>1, <1>3, <2>1
    <2>. QED
      BY <1>1, <2>1, <2>2 DEF Owned
  <1>4. ASSUME NEW k \in 2 .. Len(stack) + 1, NEW g \in completed
        PROVE  Created(stack'[k]) \cap Created(g) = {}
    BY <1>1 DEF Owned
  <1>. QED
    BY <1>1, <1>2, <1>3, <1>4 DEF Owned

LEMMA ReturningFrames ==
    ASSUME Core, Return, stack' # << >>
    PROVE  /\ DOMAIN stack = 1 .. Len(stack) /\ DOMAIN stack' = 1 .. Len(stack) - 1
           /\ Len(stack) \in Nat \ {0, 1}
           /\ \A k \in 1 .. Len(stack) - 1 :
                 /\ k + 1 \in 2 .. Len(stack) /\ Created(stack'[k]) = Created(stack[k + 1])
                 /\ stack'[k].config = stack[k + 1].config
                 /\ stack'[k].phase = stack[k + 1].phase
                 /\ stack'[k].modules = stack[k + 1].modules
                 /\ stack'[k].objects = stack[k + 1].objects
  <1>1. /\ Running /\ Len(stack) \in Nat \ {0, 1} /\ Len(stack') = Len(stack) - 1
        /\ stack' \in Seq(FrameType) /\ stack'[1] = Resumed
        /\ \A k \in 2 .. Len(stack) - 1 : stack'[k] = stack[k + 1]
    BY ReturnFacts
  <1>2. /\ Resumed.config = stack[2].config /\ Resumed.phase = stack[2].phase
        /\ Resumed.objects = stack[2].objects /\ Resumed.modules = stack[2].modules
    BY ReturnFacts
  <1>3. ASSUME NEW k \in 1 .. Len(stack) - 1
        PROVE  /\ k + 1 \in 2 .. Len(stack)
               /\ stack'[k].config = stack[k + 1].config
               /\ stack'[k].phase = stack[k + 1].phase
               /\ stack'[k].modules = stack[k + 1].modules
               /\ stack'[k].objects = stack[k + 1].objects
    <2>1. CASE k = 1
      BY <1>1, <1>2, <2>1
    <2>2. CASE k # 1
      BY <1>1, <2>2
    <2>. QED
      BY <2>1, <2>2
  <1>4. DOMAIN stack = 1 .. Len(stack) /\ DOMAIN stack' = 1 .. Len(stack) - 1
    BY <1>1, TopFacts
  <1>. QED
    BY <1>1, <1>3, <1>4 DEF Created

LEMMA OwnedReturning ==
    ASSUME Core, Owned, Return
    PROVE  Owned'
  <1>1. Running /\ completed' = completed \cup {top}
    BY ReturnFacts
  <1>2. top = stack[1] /\ Len(stack) \in Nat \ {0} /\ DOMAIN stack = 1 .. Len(stack)
    BY <1>1, TopFacts
  <1>3. CASE stack' = << >>
    BY <1>3 DEF Owned
  <1>4. CASE stack' # << >>
    <2>1. /\ DOMAIN stack' = 1 .. Len(stack) - 1
          /\ \A k \in 1 .. Len(stack) - 1 :
                k + 1 \in 2 .. Len(stack) /\ Created(stack'[k]) = Created(stack[k + 1])
      BY <1>4, ReturningFrames
    <2>2. ASSUME NEW k \in 1 .. Len(stack) - 1, NEW l \in 1 .. Len(stack) - 1, k # l
          PROVE  Created(stack'[k]) \cap Created(stack'[l]) = {}
      <3>1. PICK m, n : m = k + 1 /\ n = l + 1
        OBVIOUS
      <3>2. m # n /\ m \in DOMAIN stack /\ n \in DOMAIN stack
        BY <1>2, <2>1, <2>2, <3>1
      <3>. QED
        BY <2>1, <3>1, <3>2 DEF Owned
    <2>3. ASSUME NEW k \in 1 .. Len(stack) - 1, NEW g \in completed \cup {top}
          PROVE  Created(stack'[k]) \cap Created(g) = {}
      <3>1. PICK m : m = k + 1
        OBVIOUS
      <3>2. m # 1 /\ m \in DOMAIN stack /\ 1 \in DOMAIN stack
        BY <1>2, <2>1, <3>1
      <3>. QED
        BY <1>2, <2>1, <3>1, <3>2 DEF Owned
    <2>. QED
      BY <1>1, <2>1, <2>2, <2>3 DEF Owned
  <1>. QED
    BY <1>3, <1>4

LEMMA NextOwned ==
    ASSUME Core, Owned, [Next]_vars
    PROVE  Owned'
  <1>1. CASE Still
    BY <1>1 DEF Still, Owned
  <1>2. CASE \E f : Quiet(f) \/ Creating(f) \/ Defining(f) \/ Looking(f) \/ Porting(f)
                    \/ Connecting(f)
    BY <1>2, CreatedGrows, OwnedGoesOn
  <1>3. CASE Unwinding
    BY <1>3 DEF Unwinding, Owned
  <1>4. CASE Starting
    <2>1. PICK config \in Configs, arg \in Contents : stack' = <<Frame(config, arg, Null)>>
      BY <1>4 DEF Starting
    <2>2. Frame(config, arg, Null).objects = EmptyMap
      BY DEF Frame
    <2>3. \A k \in DOMAIN stack' : k = 1 /\ Created(stack'[k]) = {}
      BY <2>1, <2>2, EmptyMapType DEF Created
    <2>. QED
      BY <2>3 DEF Owned
  <1>. QED
    BY <1>1, <1>2, <1>3, <1>4, OwnedEntering, OwnedReturning, StepKinds

\* Only the innermost frame can be in the phase of the connections.
LEMMA HoldersFacts ==
    ASSUME Core, Running
    PROVE  /\ Holders \subseteq completed \cup {top}
           /\ top.phase # 6 => Holders \subseteq completed
           /\ top.phase = 6 => top \in Holders
  <1>1. /\ top = stack[1] /\ DOMAIN stack = 1 .. Len(stack) /\ Len(stack) \in Nat \ {0}
    BY TopFacts
  <1>2. \A k \in DOMAIN stack : k # 1 => stack[k].phase # 6
    BY <1>1 DEF Core, Suspended
  <1>3. 1 \in DOMAIN stack
    BY <1>1
  <1>. QED
    BY <1>1, <1>2, <1>3 DEF Holders

LEMMA AppendBonds ==
    ASSUME NEW objects \in Seq(ObjectType), NEW class \in Classes, NEW side \in {"up", "down"}
    PROVE  Bonds(Append(objects, Object(class)), side) = Bonds(objects, side)
  <1>1. PICK b : b = Object(class)
    OBVIOUS
  <1>2. b \in ObjectType /\ b.up = << >> /\ b.down = << >>
    BY <1>1, NewObject DEF Object
  <1>3. PICK new : new = Append(objects, b)
    OBVIOUS
  <1>4. /\ DOMAIN objects = 1 .. Len(objects) /\ DOMAIN new = 1 .. Len(objects) + 1
        /\ Len(objects) \in Nat /\ new[Len(objects) + 1] = b
        /\ \A id \in 1 .. Len(objects) : new[id] = objects[id]
    BY <1>2, <1>3
  <1>5. \A id \in DOMAIN new : id \in DOMAIN objects \/ DOMAIN new[id][side] = {}
    <2>1. DOMAIN b[side] = {}
      BY <1>2
    <2>2. \A id \in DOMAIN new : id \in DOMAIN objects \/ id = Len(objects) + 1
      BY <1>4
    <2>. QED
      BY <1>4, <2>1, <2>2
  <1>6. \A id \in DOMAIN objects : id \in DOMAIN new /\ new[id] = objects[id]
    BY <1>4
  <1>7. Bonds(new, side) = Bonds(objects, side)
    BY <1>5, <1>6 DEF Bonds
  <1>. QED
    BY <1>1, <1>3, <1>7

\* Nothing is bound: every frame keeps what it has.
LEMMA BondsStay ==
    ASSUME Core, BondsInv, NEW f,
           Quiet(f) \/ Creating(f) \/ Defining(f) \/ Looking(f) \/ Porting(f)
                    \/ (Connecting(f) /\ UNCHANGED heap)
    PROVE  BondsInv'
  <1>1. /\ GoesOn(f) /\ Created(f) \subseteq Created(top) \cup {Len(heap) + 1}
        /\ ~Creating(f) => Created(f) = Created(top)
    BY CreatedGrows
  <1>2. /\ DOMAIN stack = 1 .. Len(stack) /\ DOMAIN stack' = 1 .. Len(stack)
        /\ top = stack[1] /\ stack'[1] = f /\ f.config = top.config /\ completed' = completed
        /\ \A k \in 2 .. Len(stack) : stack'[k] = stack[k]
        /\ Len(stack) \in Nat \ {0} /\ Running
    BY <1>1, ContinueFacts
  <1>3. heap \in Seq(ObjectType) /\ Len(heap) \in Nat /\ DOMAIN heap = 1 .. Len(heap)
    BY DEF Core, Shapes
  <1>4. \A side \in {"up", "down"} : Bonds(heap', side) = Bonds(heap, side)
    <2>1. CASE heap' = heap
      BY <2>1
    <2>2. CASE Creating(f)
      <3>1. PICK class \in Classes : heap' = Append(heap, Object(class))
        BY <2>2 DEF Creating
      <3>2. \A side \in {"up", "down"} :
               Bonds(Append(heap, Object(class)), side) = Bonds(heap, side)
        BY <1>3, AppendBonds
      <3>. QED
        BY <3>1, <3>2
    <2>3. CASE Porting(f)
      BY <2>3 DEF Porting
    <2>. QED
      BY <2>1, <2>2, <2>3 DEF Quiet, Defining, Looking
  <1>5. ASSUME NEW h \in Holders
        PROVE  \E g \in Holders' : Created(h) \subseteq Created(g)
    <2>1. CASE h \in completed
      BY <1>2, <2>1 DEF Holders
    <2>2. CASE h \notin completed
      <3>1. h = top /\ top.phase = 6
        BY <1>2, <1>5, <2>2, HoldersFacts
      <3>2. Connecting(f)
        BY <3>1 DEF Quiet, Creating, Defining, Looking, Porting
      <3>3. f.phase = 6 /\ Created(f) = Created(top)
        BY <1>1, <3>1, <3>2 DEF Connecting, Creating
      <3>4. f \in Holders'
        BY <1>2, <3>3 DEF Holders
      <3>. QED
        BY <3>1, <3>3, <3>4
    <2>. QED
      BY <2>1, <2>2
  <1>6. ASSUME NEW g \in Frames', NEW id \in 1 .. Len(heap), id \in Created(g)
        PROVE  \E h \in Frames : id \in Created(h) /\ (GroupPair(h) => GroupPair(g))
    <2>1. CASE g = f
      <3>1. id \in Created(top)
        BY <1>1, <1>3, <1>6, <2>1
      <3>2. top \in Frames
        BY <1>2, TopFacts
      <3>. QED
        BY <1>2, <2>1, <3>1, <3>2 DEF GroupPair
    <2>2. CASE g # f
      <3>1. g \in Frames
        BY <1>2, <1>6, <2>2 DEF Frames
      <3>. QED
        BY <1>6, <3>1
    <2>. QED
      BY <2>1, <2>2
  <1>7. ASSUME NEW side \in {"up", "down"}, NEW b \in Bonds(heap, side)
        PROVE  /\ \E c \in Bonds(heap', Other(side)) : c[1] = b[2]
               /\ \E g \in Holders' : {b[1][1], b[2][1]} \subseteq Created(g)
               /\ \A g \in Frames' : b[1][1] \in Created(g) => GroupPair(g)
    <2>1. /\ \E c \in Bonds(heap, Other(side)) : c[1] = b[2]
          /\ \E h \in Holders : {b[1][1], b[2][1]} \subseteq Created(h)
          /\ \A h \in Frames : b[1][1] \in Created(h) => GroupPair(h)
      BY DEF BondsInv
    <2>2. b[1][1] \in 1 .. Len(heap) /\ Other(side) \in {"up", "down"}
      BY <1>3 DEF Bonds, Other
    <2>3. \E g \in Holders' : {b[1][1], b[2][1]} \subseteq Created(g)
      BY <1>5, <2>1
    <2>. QED
      BY <1>4, <1>6, <2>1, <2>2, <2>3
  <1>. QED
    BY <1>4, <1>7 DEF BondsInv

\* One side of what is joined: the ports P get the peer.
JoinedSide(old, new, side, P, peer) ==
    Bonds(new, side) = {b \in Bonds(old, side) : b[1] \notin P} \cup {<<p, peer>> : p \in P}

LEMMA SideJoins ==
    ASSUME Core, Owned, BondsInv, NEW f, Connecting(f), GroupPair(f),
           NEW side \in {"up", "down"}, NEW P, NEW Q, NEW peer \in Q, NEW back \in P,
           JoinedSide(heap, heap', side, P, peer), JoinedSide(heap, heap', Other(side), Q, back),
           \A p \in P \cup Q : p[1] \in Created(top),
           NEW b \in Bonds(heap', side)
    PROVE  /\ \E c \in Bonds(heap', Other(side)) : c[1] = b[2]
           /\ \E g \in Holders' : {b[1][1], b[2][1]} \subseteq Created(g)
           /\ \A g \in Frames' : b[1][1] \in Created(g) => GroupPair(g)
  <1>1. GoesOn(f) /\ top.phase = 6 /\ f.phase = 6 /\ Created(f) = Created(top)
    BY CreatedGrows DEF Connecting, Creating
  <1>2. /\ DOMAIN stack = 1 .. Len(stack) /\ DOMAIN stack' = 1 .. Len(stack)
        /\ top = stack[1] /\ stack'[1] = f /\ completed' = completed
        /\ \A k \in 2 .. Len(stack) : stack'[k] = stack[k]
        /\ Len(stack) \in Nat \ {0} /\ Running
    BY <1>1, ContinueFacts
  <1>3. f \in Holders'
    BY <1>1, <1>2 DEF Holders
  <1>4. <<peer, back>> \in Bonds(heap', Other(side))
    BY DEF JoinedSide
  <1>5. CASE b \in Bonds(heap, side) /\ b[1] \notin P
    <2>1. PICK c \in Bonds(heap, Other(side)) : c[1] = b[2]
      BY <1>5 DEF BondsInv
    <2>2. \E d \in Bonds(heap', Other(side)) : d[1] = b[2]
      <3>1. CASE c[1] \in Q
        <4>1. <<c[1], back>> \in Bonds(heap', Other(side))
          BY <3>1 DEF JoinedSide
        <4>. QED
          BY <2>1, <4>1
      <3>2. CASE c[1] \notin Q
        BY <2>1, <3>2 DEF JoinedSide
      <3>. QED
        BY <3>1, <3>2
    <2>3. \E g \in Holders' : {b[1][1], b[2][1]} \subseteq Created(g)
      <3>1. PICK h \in Holders : {b[1][1], b[2][1]} \subseteq Created(h)
        BY <1>5 DEF BondsInv
      <3>2. CASE h \in completed
        BY <1>2, <3>1, <3>2 DEF Holders
      <3>3. CASE h = top
        BY <1>1, <1>3, <3>1, <3>3
      <3>. QED
        BY <1>2, <3>2, <3>3, HoldersFacts
    <2>4. ASSUME NEW g \in Frames', b[1][1] \in Created(g)
          PROVE  GroupPair(g)
      <3>1. g = f \/ g \in Frames
        BY <1>2 DEF Frames
      <3>. QED
        BY <1>5, <2>4, <3>1 DEF BondsInv
    <2>. QED
      BY <2>2, <2>3, <2>4
  <1>6. CASE \E p \in P : b = <<p, peer>>
    <2>1. {b[1][1], b[2][1]} \subseteq Created(f)
      BY <1>1, <1>6
    <2>2. ASSUME NEW g \in Frames', b[1][1] \in Created(g)
          PROVE  g = f
      <3>1. b[1][1] \in Created(top) /\ 1 \in DOMAIN stack
        BY <1>1, <1>2, <2>1
      <3>2. CASE g \in completed
        BY <1>2, <2>2, <3>1, <3>2 DEF Owned
      <3>3. CASE \E k \in DOMAIN stack' : g = stack'[k]
        <4>1. PICK k \in DOMAIN stack' : g = stack'[k]
          BY <3>3
        <4>2. k # 1 => k \in 2 .. Len(stack)
          BY <1>2
        <4>3. k = 1
          BY <1>2, <2>2, <3>1, <4>1, <4>2 DEF Owned
        <4>. QED
          BY <1>2, <4>1, <4>3
      <3>. QED
        BY <1>2, <3>2, <3>3 DEF Frames
    <2>. QED
      BY <1>3, <1>4, <1>6, <2>1, <2>2
  <1>. QED
    BY <1>5, <1>6 DEF JoinedSide

LEMMA BondsJoin ==
    ASSUME Core, Owned, BondsInv, NEW f, Connecting(f), ~UNCHANGED heap
    PROVE  BondsInv'
  <1>1. /\ Connection.src.kind = "group" /\ Connection.dst.kind = "group"
        /\ top.i \in DOMAIN top.config.connections /\ f.config = top.config
    BY DEF Connecting, GoesOn
  <1>2. GroupPair(f)
    BY <1>1 DEF GroupPair, Connection
  <1>3. PICK S, D, ps, pd : /\ Joined(heap, heap', S, D, ps, pd)
                            /\ \A p \in S \cup D : p[1] \in Created(top)
    BY DEF Connecting
  <1>4. /\ ps \in S /\ pd \in D
        /\ JoinedSide(heap, heap', "down", S, pd) /\ JoinedSide(heap, heap', "up", D, ps)
        /\ Other("down") = "up" /\ Other("up") = "down"
    BY <1>3 DEF Joined, JoinedSide, Other
  <1>5. ASSUME NEW b \in Bonds(heap', "down")
        PROVE  /\ \E c \in Bonds(heap', Other("down")) : c[1] = b[2]
               /\ \E g \in Holders' : {b[1][1], b[2][1]} \subseteq Created(g)
               /\ \A g \in Frames' : b[1][1] \in Created(g) => GroupPair(g)
    BY <1>2, <1>3, <1>4, SideJoins
  <1>6. ASSUME NEW b \in Bonds(heap', "up")
        PROVE  /\ \E c \in Bonds(heap', Other("up")) : c[1] = b[2]
               /\ \E g \in Holders' : {b[1][1], b[2][1]} \subseteq Created(g)
               /\ \A g \in Frames' : b[1][1] \in Created(g) => GroupPair(g)
    BY <1>2, <1>3, <1>4, SideJoins
  <1>. QED
    BY <1>5, <1>6 DEF BondsInv

LEMMA BondsKept ==
    ASSUME BondsInv, UNCHANGED heap,
           \A h \in Holders : \E g \in Holders' : Created(g) = Created(h),
           \A g \in Frames' : \/ Created(g) = {}
                              \/ \E h \in Frames : Created(g) = Created(h) /\ g.config = h.config
    PROVE  BondsInv'
  <1>1. ASSUME NEW side \in {"up", "down"}, NEW b \in Bonds(heap, side)
        PROVE  /\ \E c \in Bonds(heap, Other(side)) : c[1] = b[2]
               /\ \E g \in Holders' : {b[1][1], b[2][1]} \subseteq Created(g)
               /\ \A g \in Frames' : b[1][1] \in Created(g) => GroupPair(g)
    <2>1. /\ \E c \in Bonds(heap, Other(side)) : c[1] = b[2]
          /\ \E h \in Holders : {b[1][1], b[2][1]} \subseteq Created(h)
          /\ \A h \in Frames : b[1][1] \in Created(h) => GroupPair(h)
      BY DEF BondsInv
    <2>2. \E g \in Holders' : {b[1][1], b[2][1]} \subseteq Created(g)
      BY <2>1
    <2>3. ASSUME NEW g \in Frames', b[1][1] \in Created(g)
          PROVE  GroupPair(g)
      <3>1. PICK h \in Frames : Created(g) = Created(h) /\ g.config = h.config
        BY <2>3
      <3>2. GroupPair(h)
        BY <2>1, <2>3, <3>1
      <3>. QED
        BY <3>1, <3>2 DEF GroupPair
    <2>. QED
      BY <2>1, <2>2, <2>3
  <1>. QED
    BY <1>1 DEF BondsInv

LEMMA BondsEntering ==
    ASSUME Core, BondsInv, Entering
    PROVE  BondsInv'
  <1>1. /\ Running /\ top.phase = 4 /\ heap' = heap /\ completed' = completed
        /\ DOMAIN stack = 1 .. Len(stack) /\ DOMAIN stack' = 1 .. Len(stack) + 1
        /\ Len(stack) \in Nat \ {0} /\ Created(stack'[1]) = {}
        /\ \A k \in 2 .. Len(stack) + 1 :
              /\ k - 1 \in 1 .. Len(stack) /\ Created(stack'[k]) = Created(stack[k - 1])
              /\ stack'[k].config = stack[k - 1].config
    BY EnteringFrames DEF Entering
  <1>2. \A h \in Holders : \E g \in Holders' : Created(g) = Created(h)
    <2>1. Holders \subseteq completed
      BY <1>1, HoldersFacts
    <2>. QED
      BY <1>1, <2>1 DEF Holders
  <1>3. ASSUME NEW g \in Frames'
        PROVE  \/ Created(g) = {}
               \/ \E h \in Frames : Created(g) = Created(h) /\ g.config = h.config
    <2>1. CASE g \in completed
      BY <2>1 DEF Frames
    <2>2. CASE g \notin completed
      <3>1. PICK k \in 1 .. Len(stack) + 1 : g = stack'[k]
        BY <1>1, <2>2 DEF Frames
      <3>2. k = 1 \/ k \in 2 .. Len(stack) + 1
        BY <1>1
      <3>3. \A l \in 1 .. Len(stack) : stack[l] \in Frames
        BY <1>1 DEF Frames
      <3>. QED
        BY <1>1, <3>1, <3>2, <3>3
    <2>. QED
      BY <2>1, <2>2
  <1>. QED
    BY <1>1, <1>2, <1>3, BondsKept

LEMMA BondsReturning ==
    ASSUME Core, BondsInv, Return
    PROVE  BondsInv'
  <1>1. Running /\ heap' = heap /\ completed' = completed \cup {top} /\ top \in Frames
    BY ReturnFacts, TopFacts
  <1>2. \A h \in Holders : \E g \in Holders' : Created(g) = Created(h)
    BY <1>1, HoldersFacts DEF Holders
  <1>3. ASSUME NEW g \in Frames'
        PROVE  \E h \in Frames : Created(g) = Created(h) /\ g.config = h.config
    <2>1. CASE g \in completed'
      BY <1>1, <2>1 DEF Frames
    <2>2. CASE g \notin completed'
      <3>1. PICK k \in DOMAIN stack' : g = stack'[k]
        BY <2>2 DEF Frames
      <3>2. stack' # << >>
        BY <3>1
      <3>3. /\ k + 1 \in DOMAIN stack /\ Created(stack'[k]) = Created(stack[k + 1])
            /\ stack'[k].config = stack[k + 1].config
        BY <3>1, <3>2, ReturningFrames
      <3>. QED
        BY <3>1, <3>3 DEF Frames
    <2>. QED
      BY <2>1, <2>2
  <1>. QED
    BY <1>1, <1>2, <1>3, BondsKept

LEMMA NextBonds ==
    ASSUME Core, Owned, BondsInv, [Next]_vars
    PROVE  BondsInv'
  <1>1. CASE Still
    BY <1>1 DEF Still, BondsInv, Holders, Frames
  <1>2. CASE \E f : Quiet(f) \/ Creating(f) \/ Defining(f) \/ Looking(f) \/ Porting(f)
                    \/ Connecting(f)
    BY <1>2, BondsStay, BondsJoin
  <1>3. CASE Unwinding
    <2>1. heap' = heap /\ stack' = << >> /\ completed' = completed /\ Running /\ top.phase = 4
      BY <1>3 DEF Unwinding
    <2>2. Holders \subseteq completed
      BY <2>1, HoldersFacts
    <2>3. Frames' = completed /\ Holders' = completed
      BY <2>1 DEF Frames, Holders
    <2>4. Frames' \subseteq Frames /\ Holders \subseteq Holders'
      BY <2>2, <2>3 DEF Frames
    <2>. QED
      BY <2>1, <2>4, BondsKept
  <1>4. CASE Starting
    <2>1. PICK config \in Configs, arg \in Contents : stack' = <<Frame(config, arg, Null)>>
      BY <1>4 DEF Starting
    <2>2. heap' = heap /\ completed' = completed /\ stack = << >>
      BY <1>4 DEF Starting
    <2>3. Frame(config, arg, Null).objects = EmptyMap
      BY DEF Frame
    <2>4. \A k \in DOMAIN stack' : Created(stack'[k]) = {}
      BY <2>1, <2>3, EmptyMapType DEF Created
    <2>5. \A h \in Holders : h \in Holders'
      BY <2>2 DEF Holders
    <2>6. \A g \in Frames' : Created(g) = {} \/ g \in Frames
      BY <2>2, <2>4 DEF Frames
    <2>. QED
      BY <2>2, <2>5, <2>6, BondsKept
  <1>. QED
    BY <1>1, <1>2, <1>3, <1>4, BondsEntering, BondsReturning, StepKinds

LEMMA BondsHold == Spec => [](Core /\ Owned /\ BondsInv)
  <1>1. Init => Owned /\ BondsInv
    <2>. SUFFICES ASSUME Init
                  PROVE  Owned /\ BondsInv
      OBVIOUS
    <2>1. stack = << >> /\ heap = << >> /\ DOMAIN heap = {}
      BY DEF Init
    <2>2. \A side \in {"up", "down"} : Bonds(heap, side) = {}
      BY <2>1 DEF Bonds
    <2>. QED
      BY <2>1, <2>2 DEF Owned, BondsInv
  <1>2. Core /\ Owned /\ BondsInv /\ [Next]_vars => (Owned /\ BondsInv)'
    BY NextOwned, NextBonds
  <1>. QED
    BY <1>1, <1>2, CoreHolds, PTL DEF Spec

\* A port is bound if it is in a bond.
LEMMA BoundFacts ==
    ASSUME Core, NEW side \in {"up", "down"}
    PROVE  /\ \A p \in Bound(side) :
                 <<p, heap[p[1]][side][p[2]].peer>> \in Bonds(heap, side)
           /\ \A b \in Bonds(heap, side) : b[1] \in Bound(side)
  <1>1. heap \in Seq(ObjectType) /\ DOMAIN heap = 1 .. Len(heap) /\ Len(heap) \in Nat
    BY DEF Core, Shapes
  <1>2. ASSUME NEW p \in Bound(side)
        PROVE  <<p, heap[p[1]][side][p[2]].peer>> \in Bonds(heap, side)
    <2>1. PICK id, i : /\ id \in 1 .. Len(heap) /\ i \in DOMAIN heap[id][side]
                       /\ p = <<id, i>> /\ heap[id][side][i].peer # << >>
      BY <1>1 DEF Bound, PortRefs
    <2>2. heap[id] \in ObjectType
      BY <1>1, <2>1
    <2>3. heap[id][side] \in Seq(PortType)
      BY <2>2 DEF ObjectType
    <2>4. \A k \in DOMAIN heap[id][side] : heap[id][side][k] \in PortType /\ k \in Nat
      BY <2>3
    <2>5. heap[id][side][i].peer \in Refs
      BY <2>1, <2>4 DEF PortType
    <2>6. p \in Refs /\ p[1] = id /\ p[2] = i
      BY <1>1, <2>1, <2>4 DEF Refs
    <2>7. PICK peer : peer = heap[id][side][i].peer
      OBVIOUS
    <2>8. PICK b : b = <<p, peer>>
      OBVIOUS
    <2>9. b \in Refs \X Refs /\ b[1] = p /\ b[2] = peer
      BY <2>5, <2>6, <2>7, <2>8
    <2>10. b \in Bonds(heap, side)
      BY <1>1, <2>1, <2>6, <2>7, <2>9 DEF Bonds
    <2>. QED
      BY <2>6, <2>7, <2>8, <2>10
  <1>3. ASSUME NEW b \in Bonds(heap, side)
        PROVE  b[1] \in Bound(side)
    <2>1. /\ b[1] = <<b[1][1], b[1][2]>> /\ b[2] \in Refs /\ b[1][1] \in DOMAIN heap
          /\ b[1][2] \in DOMAIN heap[b[1][1]][side]
          /\ heap[b[1][1]][side][b[1][2]].peer = b[2]
      BY DEF Bonds, Refs
    <2>2. b[1] \in PortRefs(b[1][1], side)
      BY <2>1 DEF PortRefs
    <2>. QED
      BY <2>1, <2>2, NoPeer DEF Bound
  <1>. QED
    BY <1>2, <1>3

\* PortPair binds both ends (simple_port.hh:20): no port is left half
\* connected, and none is connected across configurations.
THEOREM PortsAreBoundTogether == Spec => []BoundTogether
  <1>1. Core /\ BondsInv => BoundTogether
    <2>. SUFFICES ASSUME Core, BondsInv, NEW side \in {"up", "down"}, NEW p \in Bound(side)
                  PROVE  /\ heap[p[1]][side][p[2]].peer \in Bound(Other(side))
                         /\ \E frame \in Frames :
                               {p[1], heap[p[1]][side][p[2]].peer[1]} \subseteq Created(frame)
      BY DEF BoundTogether, Other
    <2>1. PICK peer : peer = heap[p[1]][side][p[2]].peer
      OBVIOUS
    <2>2. PICK b : b = <<p, peer>>
      OBVIOUS
    <2>3. b \in Bonds(heap, side) /\ b[1] = p /\ b[2] = peer
      BY <2>1, <2>2, BoundFacts
    <2>4. Other(side) \in {"up", "down"} /\ Holders \subseteq Frames
      BY DEF Other, Holders, Frames
    <2>5. peer \in Bound(Other(side))
      BY <2>3, <2>4, BoundFacts DEF BondsInv
    <2>6. \E frame \in Frames : {p[1], peer[1]} \subseteq Created(frame)
      BY <2>3, <2>4 DEF BondsInv
    <2>. QED
      BY <2>1, <2>5, <2>6
  <1>. QED
    BY <1>1, BondsHold, PTL

\* Only a connection from a group to a group binds ports: every other name is
\* matched against instance names, which name no port (module_factory.cc:268).
THEOREM OnlyGroupsBind == Spec => []ThroughGroupsOnly
  <1>1. Core /\ BondsInv => ThroughGroupsOnly
    <2>. SUFFICES ASSUME Core, BondsInv, NEW frame \in Frames, ~GroupPair(frame),
                         NEW side \in {"up", "down"}, NEW p \in Bound(side)
                  PROVE  p[1] \notin Created(frame)
      BY DEF ThroughGroupsOnly, GroupPair
    <2>1. PICK b \in Bonds(heap, side) : b[1] = p
      BY BoundFacts
    <2>. QED
      BY <2>1 DEF BondsInv
  <1>. QED
    BY <1>1, BondsHold, PTL

-----------------------------------------------------------------------------
(* Null modules and what a call can crash on *)

\* Before the internal instances no module is null.  An instance without a
\* module is of an object's class, and a null module is of an entry that has
\* a "config".
NullsOf(f, objects) ==
    /\ f.phase < 4 => \A n \in DOMAIN f.modules : f.modules[n] # Null
    /\ \A n \in DOMAIN f.objects :
          \/ n \in DOMAIN f.modules /\ f.modules[n] # Null
          \/ objects[f.objects[n]].class \in ObjectClasses
    /\ \A n \in DOMAIN f.modules :
          f.modules[n] = Null
          => \E k \in DOMAIN f.config.modules : /\ f.config.modules[k].config # Absent
                                                /\ f.config.modules[k].name = n
NullsInv == \A k \in 1 .. Len(stack) : NullsOf(stack[k], heap)

LEMMA NullsCarry ==
    ASSUME NEW old, NEW new, NEW f, NEW g, NullsOf(f, old), MapsOf(f, Len(old)),
           SameClasses(old, new), g.config = f.config, g.objects = f.objects,
           g.modules = f.modules, g.phase < 4 => f.phase < 4
    PROVE  NullsOf(g, new)
  <1>1. \A n \in DOMAIN f.objects : new[f.objects[n]].class = old[f.objects[n]].class
    BY DEF MapsOf, SameClasses
  <1>2. \A n \in DOMAIN g.objects :
           \/ n \in DOMAIN g.modules /\ g.modules[n] # Null
           \/ new[g.objects[n]].class \in ObjectClasses
    BY <1>1 DEF NullsOf
  <1>3. g.phase < 4 => \A n \in DOMAIN g.modules : g.modules[n] # Null
    BY DEF NullsOf
  <1>. QED
    BY <1>2, <1>3 DEF NullsOf

LEMMA NullsCreating ==
    ASSUME Core, NEW f, Creating(f), NullsOf(top, heap)
    PROVE  NullsOf(f, heap') /\ SameClasses(heap, heap')
  <1>1. /\ Running /\ top.phase = 2 /\ f.phase = 2 /\ f.config = top.config
        /\ f.objects = Put(top.objects, Entry.name, Len(heap) + 1)
    BY DEF Creating, GoesOn
  <1>2. PICK class \in Classes :
           /\ heap' = Append(heap, Object(class))
           /\ \/ f.modules = Put(top.modules, Entry.name, Len(heap) + 1)
              \/ class \in ObjectClasses /\ f.modules = top.modules
    BY DEF Creating
  <1>3. PICK n, id : n = Entry.name /\ id = Len(heap) + 1
    OBVIOUS
  <1>4. heap \in Seq(ObjectType) /\ Len(heap) \in Nat /\ id \in Nat \ {0} /\ id # Null
    BY <1>1, <1>3, TopFacts DEF Core, Shapes, Null
  <1>5. (\A k \in 1 .. Len(heap) : heap'[k] = heap[k]) /\ heap'[id] = Object(class)
    BY <1>2, <1>3, <1>4
  <1>6. SameClasses(heap, heap')
    BY <1>5 DEF SameClasses
  <1>7. heap'[id].class = class
    BY <1>5 DEF Object
  <1>8. /\ DOMAIN f.objects = DOMAIN top.objects \cup {n} /\ f.objects[n] = id
        /\ \A x \in DOMAIN top.objects : x # n => f.objects[x] = top.objects[x]
    BY <1>1, <1>3 DEF Put
  <1>9. \A x \in DOMAIN top.objects : heap'[top.objects[x]].class = heap[top.objects[x]].class
    BY <1>1, <1>6, TopFacts DEF MapsOf, SameClasses
  <1>10. \A x \in DOMAIN top.modules : top.modules[x] # Null
    BY <1>1 DEF NullsOf
  <1>11. CASE f.modules = Put(top.modules, n, id)
    <2>1. /\ DOMAIN f.modules = DOMAIN top.modules \cup {n} /\ f.modules[n] = id
          /\ \A x \in DOMAIN top.modules : x # n => f.modules[x] = top.modules[x]
      BY <1>11 DEF Put
    <2>2. \A x \in DOMAIN f.modules : f.modules[x] # Null
      BY <1>4, <1>10, <2>1
    <2>3. \A x \in DOMAIN f.objects :
             \/ x \in DOMAIN f.modules /\ f.modules[x] # Null
             \/ heap'[f.objects[x]].class \in ObjectClasses
      BY <1>8, <1>9, <1>10, <2>1, <2>2 DEF NullsOf
    <2>. QED
      BY <1>6, <2>2, <2>3 DEF NullsOf
  <1>12. CASE class \in ObjectClasses /\ f.modules = top.modules
    <2>1. \A x \in DOMAIN f.objects :
             \/ x \in DOMAIN f.modules /\ f.modules[x] # Null
             \/ heap'[f.objects[x]].class \in ObjectClasses
      BY <1>7, <1>8, <1>9, <1>12 DEF NullsOf
    <2>. QED
      BY <1>6, <1>10, <1>12, <2>1 DEF NullsOf
  <1>. QED
    BY <1>2, <1>3, <1>11, <1>12

LEMMA NullsLooking ==
    ASSUME Core, NEW f, Looking(f), NullsOf(top, heap)
    PROVE  NullsOf(f, heap)
  <1>1. /\ f.phase = 4 /\ f.config = top.config /\ f.objects = top.objects
        /\ top.i \in DOMAIN top.config.modules /\ Entry.config # Absent
        /\ Entry = top.config.modules[top.i]
    BY DEF Looking, GoesOn, Entry
  <1>2. PICK n : n = Entry.name
    OBVIOUS
  <1>3. n \notin DOMAIN top.modules /\ f.modules = Put(top.modules, n, Null)
    BY <1>2 DEF Looking
  <1>4. /\ DOMAIN f.modules = DOMAIN top.modules \cup {n} /\ f.modules[n] = Null
        /\ \A x \in DOMAIN top.modules : f.modules[x] = top.modules[x]
    BY <1>3 DEF Put
  <1>5. \A x \in DOMAIN f.objects : \/ x \in DOMAIN f.modules /\ f.modules[x] # Null
                                    \/ heap[f.objects[x]].class \in ObjectClasses
    BY <1>1, <1>4 DEF NullsOf
  <1>6. ASSUME NEW x \in DOMAIN f.modules, f.modules[x] = Null
        PROVE  \E k \in DOMAIN f.config.modules : /\ f.config.modules[k].config # Absent
                                                  /\ f.config.modules[k].name = x
    <2>1. CASE x = n
      BY <1>1, <1>2, <2>1
    <2>2. CASE x \in DOMAIN top.modules
      BY <1>1, <1>4, <1>6, <2>2 DEF NullsOf
    <2>. QED
      BY <1>4, <2>1, <2>2
  <1>. QED
    BY <1>1, <1>5, <1>6 DEF NullsOf

LEMMA NullsGoOn ==
    ASSUME Core, NullsInv, NEW f,
           Quiet(f) \/ Creating(f) \/ Defining(f) \/ Looking(f) \/ Porting(f) \/ Connecting(f)
    PROVE  NullsInv'
  <1>1. GoesOn(f)
    BY DEF Quiet, Creating, Defining, Looking, Porting, Connecting
  <1>2. /\ Running /\ f.config = top.config /\ top = stack[1] /\ stack'[1] = f
        /\ Len(stack) \in Nat \ {0} /\ Len(stack') = Len(stack)
        /\ \A k \in 2 .. Len(stack) : stack'[k] = stack[k]
    BY <1>1, ContinueFacts
  <1>3. NullsOf(top, heap) /\ MapsOf(top, Len(heap)) /\ heap \in Seq(ObjectType)
    BY <1>2, TopFacts DEF NullsInv, Core, Shapes
  <1>4. SameClasses(heap, heap')
    <2>1. UNCHANGED heap => SameClasses(heap, heap')
      BY DEF SameClasses
    <2>2. Creating(f) => SameClasses(heap, heap')
      BY <1>3, NullsCreating
    <2>. QED
      BY <2>1, <2>2 DEF Quiet, Defining, Looking, Porting, Connecting
  <1>5. NullsOf(f, heap')
    <2>1. CASE Creating(f)
      BY <1>3, <2>1, NullsCreating
    <2>2. CASE Looking(f)
      <3>1. NullsOf(f, heap) /\ heap' = heap
        BY <1>3, <2>2, NullsLooking DEF Looking
      <3>. QED
        BY <3>1
    <2>3. CASE Quiet(f) \/ Defining(f) \/ Porting(f) \/ Connecting(f)
      <3>1. SameMaps(f) /\ (f.phase < 4 => top.phase < 4)
        BY <2>3 DEF Quiet, Defining, Porting, Connecting
      <3>. QED
        BY <1>2, <1>3, <1>4, <3>1, NullsCarry DEF SameMaps
    <2>. QED
      BY <2>1, <2>2, <2>3
  <1>6. ASSUME NEW k \in 2 .. Len(stack)
        PROVE  NullsOf(stack[k], heap')
    <2>1. k \in 1 .. Len(stack) /\ DOMAIN stack = 1 .. Len(stack)
      BY <1>2, TopFacts
    <2>2. NullsOf(stack[k], heap) /\ MapsOf(stack[k], Len(heap))
      BY <2>1 DEF NullsInv, Core, FramesOK, Frames
    <2>. QED
      BY <1>4, <2>2, NullsCarry
  <1>7. \A k \in 1 .. Len(stack') : k = 1 \/ k \in 2 .. Len(stack)
    BY <1>2
  <1>. QED
    BY <1>2, <1>5, <1>6, <1>7 DEF NullsInv

LEMMA NullsSame ==
    ASSUME NEW objects, NEW f, NEW g, NullsOf(f, objects), g.config = f.config,
           g.objects = f.objects, g.modules = f.modules, g.phase = f.phase
    PROVE  NullsOf(g, objects)
  BY DEF NullsOf

LEMMA NewFrameNulls ==
    ASSUME NEW f, NEW objects, f.objects = EmptyMap, f.modules = EmptyMap
    PROVE  NullsOf(f, objects)
  BY EmptyMapType DEF NullsOf

LEMMA NextNulls ==
    ASSUME Core, NullsInv, [Next]_vars
    PROVE  NullsInv'
  <1>1. CASE Still
    BY <1>1 DEF Still, NullsInv
  <1>2. CASE \E f : Quiet(f) \/ Creating(f) \/ Defining(f) \/ Looking(f) \/ Porting(f)
                    \/ Connecting(f)
    BY <1>2, NullsGoOn
  <1>3. CASE Unwinding
    <2>1. stack' = << >>
      BY <1>3 DEF Unwinding
    <2>. QED
      BY <2>1 DEF NullsInv
  <1>4. CASE Starting
    <2>1. PICK config \in Configs, arg \in Contents : stack' = <<Frame(config, arg, Null)>>
      BY <1>4 DEF Starting
    <2>2. PICK f : f = Frame(config, arg, Null)
      OBVIOUS
    <2>3. f.objects = EmptyMap /\ f.modules = EmptyMap
      BY <2>2 DEF Frame
    <2>4. Len(stack') = 1 /\ stack'[1] = f
      BY <2>1, <2>2
    <2>. QED
      BY <2>3, <2>4, NewFrameNulls DEF NullsInv
  <1>5. CASE Entering
    <2>1. heap' = heap /\ Len(stack) \in Nat \ {0} /\ Len(stack') = Len(stack) + 1
      BY <1>5 DEF Entering
    <2>2. /\ stack'[1].objects = EmptyMap /\ stack'[1].modules = EmptyMap
          /\ \A k \in 2 .. Len(stack) + 1 :
                /\ k - 1 \in 1 .. Len(stack)
                /\ stack'[k].config = stack[k - 1].config
                /\ stack'[k].phase = stack[k - 1].phase
                /\ stack'[k].modules = stack[k - 1].modules
                /\ stack'[k].objects = stack[k - 1].objects
      BY <1>5, EnteringFrames
    <2>3. ASSUME NEW k \in 2 .. Len(stack) + 1
          PROVE  NullsOf(stack'[k], heap)
      <3>1. PICK f, g : f = stack[k - 1] /\ g = stack'[k]
        OBVIOUS
      <3>2. NullsOf(f, heap)
        BY <2>2, <3>1 DEF NullsInv
      <3>3. /\ g.config = f.config /\ g.objects = f.objects /\ g.modules = f.modules
            /\ g.phase = f.phase
        BY <2>2, <3>1
      <3>. QED
        BY <3>1, <3>2, <3>3, NullsSame
    <2>4. \A k \in 1 .. Len(stack') : k = 1 \/ k \in 2 .. Len(stack) + 1
      BY <2>1
    <2>. QED
      BY <2>1, <2>2, <2>3, <2>4, NewFrameNulls DEF NullsInv
  <1>6. CASE Return
    <2>1. heap' = heap
      BY <1>6, ReturnFacts
    <2>2. CASE stack' = << >>
      BY <2>2 DEF NullsInv
    <2>3. CASE stack' # << >>
      <3>1. /\ Len(stack) \in Nat \ {0, 1} /\ Len(stack') = Len(stack) - 1
            /\ \A k \in 1 .. Len(stack) - 1 :
                  /\ k + 1 \in 1 .. Len(stack)
                  /\ stack'[k].config = stack[k + 1].config
                  /\ stack'[k].phase = stack[k + 1].phase
                  /\ stack'[k].modules = stack[k + 1].modules
                  /\ stack'[k].objects = stack[k + 1].objects
        <4>1. Len(stack) \in Nat \ {0, 1} /\ Len(stack') = Len(stack) - 1
          BY <1>6, <2>3, ReturnFacts
        <4>2. \A k \in 2 .. Len(stack) : k \in 1 .. Len(stack)
          BY <4>1
        <4>. QED
          BY <1>6, <2>3, <4>1, <4>2, ReturningFrames
      <3>2. ASSUME NEW k \in 1 .. Len(stack) - 1
            PROVE  NullsOf(stack'[k], heap)
        <4>1. PICK f, g : f = stack[k + 1] /\ g = stack'[k]
          OBVIOUS
        <4>2. NullsOf(f, heap)
          BY <3>1, <4>1 DEF NullsInv
        <4>3. /\ g.config = f.config /\ g.objects = f.objects /\ g.modules = f.modules
              /\ g.phase = f.phase
          BY <3>1, <4>1
        <4>. QED
          BY <4>1, <4>2, <4>3, NullsSame
      <3>. QED
        BY <2>1, <3>1, <3>2 DEF NullsInv
    <2>. QED
      BY <2>2, <2>3
  <1>. QED
    BY <1>1, <1>2, <1>3, <1>4, <1>5, <1>6, StepKinds

LEMMA NullsHold == Spec => [](Core /\ NullsInv)
  <1>1. Init => NullsInv
    BY DEF Init, NullsInv
  <1>2. Core /\ NullsInv /\ [Next]_vars => NullsInv'
    BY NextNulls
  <1>. QED
    BY <1>1, <1>2, CoreHolds, PTL DEF Spec

\* What crashes is a call in progress, at one of three places.
LEMMA CrashSteps ==
    ASSUME Core, [Next]_vars, call'.status = "crashed"
    PROVE  \/ UNCHANGED vars
           \/ Running /\ Crash /\ (CreateNothing \/ CreatePorts \/ Connect)
  <1>1. /\ call \in CallType /\ {"running", "threw", "returned", "started"} \subseteq Statuses
        /\ (stack = << >> => call.status \notin {"running", "crashed"})
    BY DEF Core, Shapes, TypeOK, Statuses
  <1>2. \A s \in {"running", "threw", "returned", "started"} :
           call' # [call EXCEPT !.status = s]
    <2>1. \A s \in {"running", "threw", "returned", "started"} :
             [call EXCEPT !.status = s].status # "crashed"
      BY <1>1, StatusFacts
    <2>. QED
      BY <2>1
  <1>3. Running => ~UNCHANGED call
    BY DEF Running
  <1>4. stack = << >> => ~UNCHANGED call
    BY <1>1
  <1>5. Step => Running
    BY DEF Step, LoadPlugins, CreateModule, CreateObject, CreateNothing, DefineGroups,
           SkipInternal, EnterInternal, NamelessInternal, CreatePorts, Connect, EndLoop, Return,
           InLoop, InPhase
  <1>6. CASE Step
    <2>1. ~\E loaded \in SUBSET DOMAIN PluginTypes : LoadPlugins(loaded)
      BY <1>3, <1>5, <1>6 DEF LoadPlugins
    <2>2. ~CreateModule /\ ~CreateObject /\ ~DefineGroups /\ ~SkipInternal /\ ~EndLoop
      BY <1>3, <1>5, <1>6 DEF CreateModule, CreateObject, DefineGroups, SkipInternal, EndLoop
    <2>3. ~EnterInternal /\ ~NamelessInternal /\ ~Return
      BY <1>2, <1>3, <1>5, <1>6 DEF EnterInternal, NamelessInternal, Return, instantiateAll
    <2>4. CreateNothing => Crash
      BY <1>3, <1>5, <1>6 DEF CreateNothing
    <2>5. CreatePorts => Crash
      BY <1>3, <1>5, <1>6 DEF CreatePorts
    <2>6. Connect => Crash
      BY <1>3, <1>5, <1>6 DEF Connect
    <2>. QED
      BY <1>5, <1>6, <2>1, <2>2, <2>3, <2>4, <2>5, <2>6 DEF Step
  <1>7. ~\E arg \in Args : Call(arg)
    BY DEF Call
  <1>8. /\ ~\E r \in ObjectTypes : registerObject(r[1], r[2])
        /\ ~\E r \in ModuleTypes : registerModule(r[1], r[2])
        /\ ~\E r \in ObjectTypes : unregisterObject(r[1])
        /\ ~\E r \in ModuleTypes : unregisterModule(r[1])
        /\ ~clearAllTypes
    BY <1>4 DEF registerObject, registerModule, unregisterObject, unregisterModule,
                clearAllTypes, Idle
  <1>9. ~startAllTicks
    BY <1>2 DEF startAllTicks
  <1>. QED
    BY <1>6, <1>7, <1>8, <1>9 DEF Next

\* No class is registered both as an object and as a module.
ClassesDiffer == ObjectClasses \cap ModuleClasses = {}

\* A null module that a connection leads through is of an entry as CrashCause says.
LEMMA NullCause ==
    ASSUME Core, NullsInv, ClassesDiffer, Running, NEW name, ThroughNull(top, name),
           Mentions(Connection, name.module)
    PROVE  \E k \in DOMAIN top.config.modules :
              LET entry == top.config.modules[k] IN
              /\ entry.config # Absent /\ Mentions(Connection, entry.name)
              /\ entry.name \in DOMAIN top.objects
                    => heap[top.objects[entry.name]].class \notin ModuleClasses
  <1>1. NullsOf(top, heap)
    <2>1. top = stack[1] /\ 1 \in 1 .. Len(stack)
      BY TopFacts
    <2>. QED
      BY <2>1 DEF NullsInv
  <1>2. name.module \in DOMAIN top.modules /\ top.modules[name.module] = Null
    BY DEF ThroughNull
  <1>3. PICK k \in DOMAIN top.config.modules :
           top.config.modules[k].config # Absent /\ top.config.modules[k].name = name.module
    BY <1>1, <1>2 DEF NullsOf
  <1>4. name.module \in DOMAIN top.objects
        => heap[top.objects[name.module]].class \notin ModuleClasses
    BY <1>1, <1>2 DEF NullsOf, ClassesDiffer
  <1>. QED
    BY <1>3, <1>4

LEMMA CrashesCause ==
    ASSUME Core, NullsInv, ClassesDiffer, Running, Crash, CreateNothing \/ CreatePorts \/ Connect
    PROVE  CrashCause'
  <1>1. /\ UNCHANGED <<heap, stack, groups, object_registry, module_registry>>
        /\ top' = top /\ Entry' = Entry /\ Connection' = Connection
    BY DEF Crash, registries, top, Entry, Connection
  <1>2. CASE CreateNothing
    <2>1. Phases[top.phase] = "create" /\ call'.status = "crashed"
      <3>1. call \in CallType /\ "crashed" \in Statuses
        BY DEF Core, Shapes, Statuses
      <3>. QED
        BY <1>2, <3>1, StatusFacts DEF CreateNothing, InLoop, InPhase, Crash
    <2>2. ~UNCHANGED call
      BY <2>1 DEF Running
    <2>3. /\ Entry.layout
          /\ Entry.type \notin DOMAIN module_registry \cup DOMAIN object_registry
      BY <1>2, <2>2 DEF CreateNothing, LayoutOfNothing
    <2>. QED
      BY <1>1, <2>1, <2>3 DEF CrashCause
  <1>3. CASE CreatePorts \/ Connect
    <2>1. Phases[top.phase] \in {"ports", "connect"}
      BY <1>3 DEF CreatePorts, Connect, InLoop, InPhase
    <2>2. ~UNCHANGED call
      <3>1. call \in CallType /\ "crashed" \in Statuses
        BY DEF Core, Shapes, Statuses
      <3>. QED
        BY <3>1, StatusFacts DEF Crash, Running
    <2>3. \E name : ThroughNull(top, name) /\ Mentions(Connection, name.module)
      <3>1. CASE CreatePorts
        <4>1. PICK spec \in {Connection.src, Connection.dst} :
                 spec.kind = "name" /\ ThroughNull(top, spec.name)
          BY <2>2, <3>1 DEF CreatePorts
        <4>. QED
          BY <4>1 DEF Mentions, ThroughNull
      <3>2. CASE Connect
        <4>1. \E spec \in {Connection.src, Connection.dst} :
                 \E k \in DOMAIN Names(top, spec, Connection.exclude) :
                    ThroughNull(top, Names(top, spec, Connection.exclude)[k])
          BY <2>2, <3>2 DEF Connect
        <4>2. PICK spec \in {Connection.src, Connection.dst} :
                 \E k \in DOMAIN Names(top, spec, Connection.exclude) :
                    ThroughNull(top, Names(top, spec, Connection.exclude)[k])
          BY <4>1
        <4>3. PICK names : names = Names(top, spec, Connection.exclude)
          OBVIOUS
        <4>4. PICK k \in DOMAIN names : ThroughNull(top, names[k])
          BY <4>2, <4>3
        <4>5. /\ spec.kind = "group" /\ spec.group \in DOMAIN groups
              /\ k \in DOMAIN groups[spec.group] /\ names[k] = groups[spec.group][k]
          BY <4>3, <4>4, NamesFacts DEF ThroughNull
        <4>6. Mentions(Connection, names[k].module)
          BY <4>5 DEF Mentions
        <4>. QED
          BY <4>4, <4>6
      <3>. QED
        BY <1>3, <3>1, <3>2
    <2>4. \E k \in DOMAIN top.config.modules :
             LET entry == top.config.modules[k] IN
             /\ entry.config # Absent /\ Mentions(Connection, entry.name)
             /\ entry.name \in DOMAIN top.objects
                   => heap[top.objects[entry.name]].class \notin ModuleClasses
      BY <2>3, NullCause
    <2>5. PICK k \in DOMAIN top.config.modules :
             /\ top.config.modules[k].config # Absent
             /\ Mentions(Connection, top.config.modules[k].name)
             /\ top.config.modules[k].name \in DOMAIN top.objects
                   => heap[top.objects[top.config.modules[k].name]].class \notin ModuleClasses
      BY <2>4
    <2>6. Mentions(Connection, top.config.modules[k].name)'
      BY <1>1, <2>5 DEF Mentions
    <2>. QED
      BY <1>1, <2>1, <2>5, <2>6 DEF CrashCause
  <1>. QED
    BY <1>2, <1>3

\* Provided that no class is registered both ways, instantiateAll follows a
\* null pointer only for the layout of an unknown type (module_factory.cc:72)
\* or a connection to a port of an entry that has a "config" and is no
\* SimModule (module_factory.cc:96).
THEOREM CrashesHaveACause ==
    ASSUME ClassesDiffer
    PROVE  Spec => []CrashCause
  <1>1. Init => CrashCause
    BY DEF Init, CrashCause
  <1>2. ASSUME Core, NullsInv, CrashCause, [Next]_vars
        PROVE  CrashCause'
    <2>1. CASE call'.status # "crashed"
      BY <2>1 DEF CrashCause
    <2>2. CASE UNCHANGED vars
      BY <1>2, <2>2 DEF CrashCause, vars, registries, top, Entry, Connection, Mentions
    <2>3. CASE Running /\ Crash /\ (CreateNothing \/ CreatePorts \/ Connect)
      BY <1>2, <2>3, CrashesCause
    <2>. QED
      BY <1>2, <2>1, <2>2, <2>3, CrashSteps
  <1>3. Core /\ NullsInv /\ CrashCause /\ [Next]_vars => CrashCause'
    BY <1>2
  <1>. QED
    BY <1>1, <1>3, NullsHold, PTL DEF Spec

-----------------------------------------------------------------------------
(* Name patterns (Wildcard.tla), of any characters and lengths.  From the   *)
(* positions of a name from which it matches the rest of an expression a    *)
(* term makes those from which it matches the term and the rest.  The terms *)
(* of the expression and those that the pattern means to a user are         *)
(* compared that way from the last to the first.                            *)

\* The positions from which one term matches, given those from which the rest does.
Starts(term, str, later) ==
    IF term.many
    THEN {j \in 1 .. Len(str) + 1 : \E k \in j .. Len(str) + 1 : k \in later}
    ELSE {j \in 1 .. Len(str) : term.char \in {"any", str[j]} /\ j + 1 \in later}

\* a[i] are the positions of str from which it matches t from its i-th term on.
Matching(a, t, str) ==
    /\ a \in [1 .. Len(t) + 1 -> SUBSET (1 .. Len(str) + 1)]
    /\ a[Len(t) + 1] = {Len(str) + 1}
    /\ \A i \in 1 .. Len(t) : a[i] = Starts(t[i], str, a[i + 1])

\* Terms that are not broken.
Sound(Chars) == [char : Chars \cup {"any"}, many : BOOLEAN]

\* They are positions of the string, or its end.
LEMMA StartsType ==
    ASSUME NEW Chars, NEW str \in Seq(Chars), NEW term, NEW later
    PROVE  Starts(term, str, later) \in SUBSET (1 .. Len(str) + 1)
  BY DEF Starts

\* More of them, the more there are for the rest.
LEMMA StartsGrow ==
    ASSUME NEW Chars, NEW str \in Seq(Chars), NEW term, NEW A, NEW B, A \subseteq B
    PROVE  Starts(term, str, A) \subseteq Starts(term, str, B)
  BY DEF Starts

\* regex_match and Glob compute such positions.
LEMMA MatchPositions ==
    ASSUME NEW Chars, NEW t \in Seq(Sound(Chars)), NEW str \in Seq(Chars)
    PROVE  \E a : Matching(a, t, str) /\ (regex_match(t, str) <=> 1 \in a[1])
  <1>. DEFINE n == Len(t)
              D == 1 .. n + 1
              V == SUBSET (1 .. Len(str) + 1)
              Is(h) == h = [i \in D |->
                  IF i > Len(t) THEN {Len(str) + 1}
                  ELSE IF t[i].many
                  THEN {j \in 1 .. Len(str) + 1 : \E k \in j .. Len(str) + 1 : k \in h[i + 1]}
                  ELSE {j \in 1 .. Len(str) : t[i].char \in {"any", str[j]} /\ j + 1 \in h[i + 1]}]
              F == [h \in [D -> V] |-> [i \in D |->
                  IF i > Len(t) THEN {Len(str) + 1} ELSE Starts(t[i], str, h[i + 1])]]
              weight == [i \in D |-> n + 1 - i]
  <1>1. regex_match(t, str) <=> 1 \in (CHOOSE h : Is(h))[1]
    BY DEF regex_match
  <1>2. n \in Nat
    OBVIOUS
  <1>3. Recursive(F, D, V, weight, n)
    <2>1. F \in [[D -> V] -> [D -> V]]
      <3>1. \A i \in D : \A later : Starts(t[i], str, later) \in V
        BY StartsType
      <3>. QED
        BY <3>1
    <2>2. weight \in [D -> 0 .. n]
      BY <1>2
    <2>3. ASSUME NEW g \in [D -> V], NEW h \in [D -> V], NEW i \in D,
                 \A e \in D : weight[e] < weight[i] => g[e] = h[e]
          PROVE  F[g][i] = F[h][i]
      <3>1. CASE i > n
        BY <3>1
      <3>2. CASE ~(i > n)
        <4>1. i + 1 \in D /\ weight[i + 1] < weight[i]
          BY <3>2
        <4>. QED
          BY <2>3, <3>2, <4>1
      <3>. QED
        BY <3>1, <3>2
    <2>. HIDE DEF F, weight, D, V, n
    <2>. QED
      BY <2>1, <2>2, <2>3 DEF Recursive
  <1>4. PICK h : Solves(h, F, D, V)
    <2>1. [i \in D |-> {}] \in [D -> V]
      OBVIOUS
    <2>. HIDE DEF F, weight, D, V, n
    <2>. QED
      BY <1>2, <1>3, <2>1, RecursionSolved
  <1>5. h \in [D -> V] /\ h = [i \in D |->
                  IF i > Len(t) THEN {Len(str) + 1} ELSE Starts(t[i], str, h[i + 1])]
    BY <1>4 DEF Solves
  <1>6. Is(h)
    BY <1>5 DEF Starts
  <1>7. PICK a : a = (CHOOSE g : Is(g)) /\ Is(a)
    <2>. HIDE DEF Is
    <2>. QED
      BY <1>6
  <1>8. Matching(a, t, str)
    <2>0. a = [i \in D |-> IF i > Len(t) THEN {Len(str) + 1} ELSE Starts(t[i], str, a[i + 1])]
      BY <1>7 DEF Starts
    <2>1. \A i \in D : a[i] = IF i > Len(t) THEN {Len(str) + 1} ELSE Starts(t[i], str, a[i + 1])
      BY <2>0
    <2>2. \A i \in D : a[i] \in V
      BY <2>1, StartsType
    <2>3. a \in [D -> V]
      BY <2>0, <2>2
    <2>4. n + 1 \in D /\ n + 1 > Len(t) /\ \A i \in 1 .. n : i \in D /\ ~(i > Len(t))
      OBVIOUS
    <2>. QED
      BY <2>1, <2>3, <2>4 DEF Matching
  <1>. HIDE DEF Is
  <1>. QED
    BY <1>1, <1>7, <1>8

\* There is only one such function.
LEMMA MatchingOnce ==
    ASSUME NEW Chars, NEW T, NEW t \in Seq(T), NEW str \in Seq(Chars), NEW a, NEW b,
           Matching(a, t, str), Matching(b, t, str)
    PROVE  a[1] = b[1]
  <1>. DEFINE S == {i \in 1 .. Len(t) + 1 : a[i] = b[i]}
  <1>0. Len(t) \in Nat
    OBVIOUS
  <1>1. Len(t) + 1 \in S
    <2>1. Len(t) + 1 \in 1 .. Len(t) + 1
      BY <1>0
    <2>. QED
      BY <2>1 DEF Matching
  <1>2. ASSUME NEW i \in 1 .. Len(t), i + 1 \in S
        PROVE  i \in S
    BY <1>2 DEF Matching
  <1>3. \A i \in 1 .. Len(t) + 1 : i \in S
    <2>. HIDE DEF S
    <2>. QED
      BY <1>0, <1>1, <1>2, Downwards
  <1>. QED
    BY <1>0, <1>3

\* The positions from which str matches t.
From(t, str) == (CHOOSE a : Matching(a, t, str))[1]

\* Nothing matches at the end only, ...
LEMMA FromEmpty ==
    ASSUME NEW Chars, NEW str \in Seq(Chars)
    PROVE  From(<< >>, str) = {Len(str) + 1}
  <1>1. << >> \in Seq(Sound(Chars))
    OBVIOUS
  <1>2. PICK a : a = (CHOOSE b : Matching(b, << >>, str)) /\ Matching(a, << >>, str)
    BY <1>1, MatchPositions
  <1>. QED
    BY <1>2 DEF From, Matching

\* ... a term and more where the term says, ...
LEMMA FromMore ==
    ASSUME NEW Chars, NEW str \in Seq(Chars), NEW x \in Sound(Chars), NEW q \in Seq(Sound(Chars))
    PROVE  From(<<x>> \o q, str) = Starts(x, str, From(q, str))
  <1>. DEFINE t == <<x>> \o q
  <1>1. t \in Seq(Sound(Chars)) /\ Len(t) = Len(q) + 1 /\ t[1] = x
        /\ \A i \in 1 .. Len(q) : t[i + 1] = q[i]
    OBVIOUS
  <1>. HIDE DEF t
  <1>2. PICK a : a = (CHOOSE g : Matching(g, t, str)) /\ Matching(a, t, str)
    BY <1>1, MatchPositions
  <1>3. PICK b : b = (CHOOSE g : Matching(g, q, str)) /\ Matching(b, q, str)
    BY <1>1, MatchPositions
  <1>. DEFINE c == [i \in 1 .. Len(q) + 1 |-> a[i + 1]]
  <1>4. Matching(c, q, str)
    <2>1. \A i \in 1 .. Len(q) + 1 : i + 1 \in 1 .. Len(t) + 1
      BY <1>1
    <2>2. c \in [1 .. Len(q) + 1 -> SUBSET (1 .. Len(str) + 1)]
      BY <1>2, <2>1 DEF Matching
    <2>3. c[Len(q) + 1] = {Len(str) + 1}
      <3>1. Len(q) + 1 \in 1 .. Len(q) + 1 /\ Len(q) + 1 + 1 = Len(t) + 1
        BY <1>1
      <3>. QED
        BY <1>2, <3>1 DEF Matching
    <2>4. ASSUME NEW i \in 1 .. Len(q)
          PROVE  c[i] = Starts(q[i], str, c[i + 1])
      <3>1. i + 1 \in 1 .. Len(t) /\ i \in 1 .. Len(q) + 1 /\ i + 1 \in 1 .. Len(q) + 1
        BY <1>1
      <3>2. a[i + 1] = Starts(t[i + 1], str, a[i + 1 + 1])
        BY <1>2, <3>1 DEF Matching
      <3>. QED
        BY <1>1, <3>1, <3>2
    <2>. QED
      BY <2>2, <2>3, <2>4 DEF Matching
  <1>5. b[1] = c[1]
    <2>. HIDE DEF c
    <2>. QED
      BY <1>3, <1>4, MatchingOnce
  <1>6. c[1] = a[2] /\ a[1] = Starts(x, str, a[2])
    <2>1. 1 \in 1 .. Len(q) + 1 /\ 1 \in 1 .. Len(t)
      BY <1>1
    <2>2. c[1] = a[1 + 1] /\ a[1] = Starts(t[1], str, a[1 + 1])
      BY <1>2, <2>1 DEF Matching
    <2>. QED
      BY <1>1, <2>2
  <1>. QED
    BY <1>2, <1>3, <1>5, <1>6 DEF From, t

\* ... and regex_match asks for the first position.
LEMMA FromDecides ==
    ASSUME NEW Chars, NEW str \in Seq(Chars), NEW t \in Seq(Sound(Chars))
    PROVE  regex_match(t, str) <=> 1 \in From(t, str)
  <1>1. PICK a : Matching(a, t, str) /\ (regex_match(t, str) <=> 1 \in a[1])
    BY MatchPositions
  <1>2. PICK b : b = (CHOOSE g : Matching(g, t, str)) /\ Matching(b, t, str)
    BY <1>1
  <1>3. a[1] = b[1]
    BY <1>1, <1>2, MatchingOnce
  <1>. QED
    BY <1>1, <1>2, <1>3 DEF From

\* What a pattern means to its users, as terms.
Meant(pattern) ==
    [i \in 1 .. Len(pattern) |-> CASE pattern[i] = "*" -> AnyMany
                                   [] pattern[i] = "?" -> AnyOne
                                   [] OTHER -> Literal(pattern[i])]

\* Glob matches the terms that the pattern means.
LEMMA GlobPositions ==
    ASSUME NEW Chars, "any" \notin Chars, NEW pattern \in Seq(Chars), NEW str \in Seq(Chars)
    PROVE  \E g : Matching(g, Meant(pattern), str) /\ (Glob(pattern, str) <=> 1 \in g[1])
  <1>. DEFINE N == Len(pattern)
              t == Meant(pattern)
              Is(h) == h = [i \in 1 .. N + 1 |->
                  IF i > N THEN {Len(str) + 1}
                  ELSE IF pattern[i] = "*"
                  THEN {j \in 1 .. Len(str) + 1 : \E k \in j .. Len(str) + 1 : k \in h[i + 1]}
                  ELSE {j \in 1 .. Len(str) : pattern[i] \in {"?", str[j]} /\ j + 1 \in h[i + 1]}]
  <1>1. Glob(pattern, str) <=> 1 \in (CHOOSE h : Is(h))[1]
    BY DEF Glob
  <1>2. /\ t \in Seq(Sound(Chars)) /\ Len(t) = N
        /\ \A i \in 1 .. N : /\ t[i] = CASE pattern[i] = "*" -> AnyMany
                                         [] pattern[i] = "?" -> AnyOne
                                         [] OTHER -> Literal(pattern[i])
                             /\ t[i] \in Sound(Chars) /\ pattern[i] \in Chars
    <2>1. \A i \in 1 .. N : pattern[i] \in Chars
      OBVIOUS
    <2>2. /\ AnyMany \in Sound(Chars) /\ AnyOne \in Sound(Chars)
          /\ \A c \in Chars : Literal(c) \in Sound(Chars)
      BY DEF AnyMany, AnyOne, Literal, Sound
    <2>3. t = [i \in 1 .. N |-> CASE pattern[i] = "*" -> AnyMany
                                   [] pattern[i] = "?" -> AnyOne
                                   [] OTHER -> Literal(pattern[i])]
      BY DEF Meant
    <2>. HIDE DEF t
    <2>4. \A i \in 1 .. N : t[i] \in Sound(Chars)
      BY <2>1, <2>2, <2>3
    <2>5. N \in Nat /\ t \in [1 .. N -> Sound(Chars)]
      BY <2>3, <2>4
    <2>6. t \in Seq(Sound(Chars)) /\ Len(t) = N
      BY <2>5
    <2>. QED
      BY <2>1, <2>3, <2>4, <2>6
  <1>. HIDE DEF t
  <1>3. ASSUME NEW i \in 1 .. N, NEW later
        PROVE  Starts(t[i], str, later) =
                  IF pattern[i] = "*"
                  THEN {j \in 1 .. Len(str) + 1 : \E k \in j .. Len(str) + 1 : k \in later}
                  ELSE {j \in 1 .. Len(str) : pattern[i] \in {"?", str[j]} /\ j + 1 \in later}
    <2>1. CASE pattern[i] = "*"
      <3>1. t[i].many
        BY <1>2, <2>1 DEF AnyMany
      <3>. QED
        BY <2>1, <3>1 DEF Starts
    <2>2. CASE pattern[i] # "*" /\ pattern[i] = "?"
      <3>1. ~t[i].many /\ t[i].char = "any"
        BY <1>2, <2>2 DEF AnyOne
      <3>. QED
        BY <2>2, <3>1 DEF Starts
    <2>3. CASE pattern[i] # "*" /\ pattern[i] # "?"
      <3>0. t[i] = Literal(pattern[i]) /\ pattern[i] \in Chars
        BY <1>2, <2>3
      <3>1. ~t[i].many /\ t[i].char = pattern[i] /\ pattern[i] # "any"
        BY <3>0 DEF Literal
      <3>. QED
        BY <2>3, <3>1 DEF Starts
    <2>. QED
      BY <2>1, <2>2, <2>3
  <1>4. PICK a : Matching(a, t, str)
    BY <1>2, MatchPositions
  <1>5. Is(a)
    <2>1. a \in [1 .. N + 1 -> SUBSET (1 .. Len(str) + 1)]
      BY <1>2, <1>4 DEF Matching
    <2>2. ASSUME NEW i \in 1 .. N + 1
          PROVE  a[i] = IF i > N THEN {Len(str) + 1}
                  ELSE IF pattern[i] = "*"
                  THEN {j \in 1 .. Len(str) + 1 : \E k \in j .. Len(str) + 1 : k \in a[i + 1]}
                  ELSE {j \in 1 .. Len(str) : pattern[i] \in {"?", str[j]} /\ j + 1 \in a[i + 1]}
      <3>1. CASE i > N
        <4>1. i = N + 1
          BY <3>1
        <4>. QED
          BY <1>2, <1>4, <3>1, <4>1 DEF Matching
      <3>2. CASE ~(i > N)
        <4>1. i \in 1 .. N
          BY <3>2
        <4>2. a[i] = Starts(t[i], str, a[i + 1])
          BY <1>2, <1>4, <4>1 DEF Matching
        <4>. QED
          BY <1>3, <3>2, <4>1, <4>2
      <3>. QED
        BY <3>1, <3>2
    <2>. QED
      BY <2>1, <2>2
  <1>6. PICK g : g = (CHOOSE h : Is(h)) /\ Is(g)
    <2>. HIDE DEF Is
    <2>. QED
      BY <1>5
  <1>7. Matching(g, t, str)
    <2>1. \A i \in 1 .. N + 1 : g[i] = IF i > N THEN {Len(str) + 1}
                  ELSE IF pattern[i] = "*"
                  THEN {j \in 1 .. Len(str) + 1 : \E k \in j .. Len(str) + 1 : k \in g[i + 1]}
                  ELSE {j \in 1 .. Len(str) : pattern[i] \in {"?", str[j]} /\ j + 1 \in g[i + 1]}
      BY <1>6
    <2>2. ASSUME NEW i \in 1 .. N + 1
          PROVE  g[i] \in SUBSET (1 .. Len(str) + 1)
      <3>1. Len(str) \in Nat
        OBVIOUS
      <3>. DEFINE stars == {j \in 1 .. Len(str) + 1 : \E k \in j .. Len(str) + 1 : k \in g[i + 1]}
                  ones == {j \in 1 .. Len(str) : pattern[i] \in {"?", str[j]} /\ j + 1 \in g[i + 1]}
      <3>2. {Len(str) + 1} \in SUBSET (1 .. Len(str) + 1)
        BY <3>1
      <3>3. stars \in SUBSET (1 .. Len(str) + 1)
        BY <3>1
      <3>4. ones \in SUBSET (1 .. Len(str) + 1)
        BY <3>1
      <3>5. g[i] = IF i > N THEN {Len(str) + 1} ELSE IF pattern[i] = "*" THEN stars ELSE ones
        BY <2>1
      <3>. HIDE DEF stars, ones
      <3>. QED
        BY <3>2, <3>3, <3>4, <3>5
    <2>3. g \in [1 .. N + 1 -> SUBSET (1 .. Len(str) + 1)]
      <3>1. DOMAIN g = 1 .. N + 1 /\ g = [i \in 1 .. N + 1 |-> g[i]]
        BY <1>6
      <3>. QED
        BY <2>2, <3>1
    <2>4. g[N + 1] = {Len(str) + 1}
      <3>1. N + 1 \in 1 .. N + 1 /\ N + 1 > N
        OBVIOUS
      <3>. QED
        BY <2>1, <3>1
    <2>5. ASSUME NEW i \in 1 .. N
          PROVE  g[i] = Starts(t[i], str, g[i + 1])
      <3>1. i \in 1 .. N + 1 /\ ~(i > N)
        OBVIOUS
      <3>. QED
        BY <1>3, <2>1, <3>1
    <2>. QED
      BY <1>2, <2>3, <2>4, <2>5 DEF Matching
  <1>. HIDE DEF Is
  <1>. QED
    BY <1>1, <1>6, <1>7 DEF t

\* The characters of which Wildcard::match makes no expression.
Refused(pattern, lenient) ==
    \/ HasPart(pattern, <<"[">>)
    \/ ~lenient /\ HasPart(pattern, <<"*", "*">>)

\* A character of the pattern, and two that follow each other, are parts of it.
LEMMA PartOfOne ==
    ASSUME NEW Chars, NEW pattern \in Seq(Chars), NEW i \in 1 .. Len(pattern), NEW c, pattern[i] = c
    PROVE  HasPart(pattern, <<c>>)
  <1>1. i - 1 \in 0 .. Len(pattern) - Len(<<c>>)
    OBVIOUS
  <1>2. \A k \in 1 .. Len(<<c>>) : pattern[(i - 1) + k] = <<c>>[k]
    OBVIOUS
  <1>. QED
    BY <1>1, <1>2 DEF HasPart

LEMMA PartOfTwo ==
    ASSUME NEW Chars, NEW pattern \in Seq(Chars), NEW i \in 1 .. Len(pattern) - 1,
           NEW c, NEW d, pattern[i] = c, pattern[i + 1] = d
    PROVE  HasPart(pattern, <<c, d>>)
  <1>1. i - 1 \in 0 .. Len(pattern) - Len(<<c, d>>)
    OBVIOUS
  <1>2. \A k \in 1 .. Len(<<c, d>>) : pattern[(i - 1) + k] = <<c, d>>[k]
    <2>1. Len(<<c, d>>) = 2 /\ <<c, d>>[1] = c /\ <<c, d>>[2] = d
      OBVIOUS
    <2>2. (i - 1) + 1 = i /\ (i - 1) + 2 = i + 1
      OBVIOUS
    <2>3. \A k \in 1 .. 2 : k = 1 \/ k = 2
      OBVIOUS
    <2>. QED
      BY <2>1, <2>2, <2>3
  <1>. QED
    BY <1>1, <1>2 DEF HasPart

\* The terms from the i-th character on are those of the loop, and none is
\* broken.
Translated(from, pattern, lenient, Chars) ==
    /\ from \in [1 .. Len(pattern) + 2 -> Seq(Sound(Chars))]
    /\ from[Len(pattern) + 1] = << >>
    /\ \A i \in 1 .. Len(pattern) :
          from[i] = IF pattern[i] # "*" THEN replaced(pattern[i], lenient) \o from[i + 1]
                    ELSE IF i = Len(pattern) THEN <<AnyMany>>
                    ELSE <<AnyMany>> \o verbatim(pattern[i + 1], lenient) \o from[i + 2]

\* Of other characters no broken term is made.
LEMMA VerbatimSound ==
    ASSUME NEW Chars, NEW c \in Chars, NEW lenient \in BOOLEAN, c # "[", c = "*" => lenient
    PROVE  verbatim(c, lenient) \in Seq(Sound(Chars)) /\ replaced(c, lenient) \in Seq(Sound(Chars))
  <1>1. AnyOne \in Sound(Chars) /\ Literal(c) \in Sound(Chars)
    BY DEF AnyOne, Literal, Sound
  <1>2. \A x \in Sound(Chars) : <<x>> \in Seq(Sound(Chars))
    OBVIOUS
  <1>3. << >> \in Seq(Sound(Chars))
    OBVIOUS
  <1>4. verbatim(c, lenient) \in Seq(Sound(Chars))
    BY <1>1, <1>2, <1>3 DEF verbatim
  <1>. QED
    BY <1>1, <1>2, <1>4 DEF replaced

\* The loop of Wildcard::match makes an expression.
LEMMA RegexTerms ==
    ASSUME NEW Chars, NEW pattern \in Seq(Chars), NEW lenient \in BOOLEAN,
           ~Refused(pattern, lenient)
    PROVE  \E from : Translated(from, pattern, lenient, Chars) /\ regex(pattern, lenient) = from[1]
  <1>. DEFINE N == Len(pattern)
              D == 1 .. N + 2
              V == Seq(Sound(Chars))
              Is(h) == h = [i \in D |->
                  IF i > N THEN << >>
                  ELSE IF pattern[i] # "*" THEN replaced(pattern[i], lenient) \o h[i + 1]
                  ELSE IF i = N THEN <<AnyMany>>
                  ELSE <<AnyMany>> \o verbatim(pattern[i + 1], lenient) \o h[i + 2]]
              F == [h \in [D -> V] |-> [i \in D |->
                  IF i > N THEN << >>
                  ELSE IF pattern[i] # "*" THEN replaced(pattern[i], lenient) \o h[i + 1]
                  ELSE IF i = N THEN <<AnyMany>>
                  ELSE <<AnyMany>> \o verbatim(pattern[i + 1], lenient) \o h[i + 2]]]
              weight == [i \in D |-> N + 2 - i]
  <1>1. regex(pattern, lenient) = (CHOOSE h : Is(h))[1]
    BY DEF regex
  <1>2. N \in Nat /\ \A i \in 1 .. N : pattern[i] \in Chars
    OBVIOUS
  <1>3. \A i \in 1 .. N : pattern[i] # "*" => replaced(pattern[i], lenient) \in V
    <2>1. ASSUME NEW i \in 1 .. N, pattern[i] = "["
          PROVE  FALSE
      <3>1. HasPart(pattern, <<"[">>)
        BY <2>1, PartOfOne
      <3>. QED
        BY <3>1 DEF Refused
    <2>. QED
      BY <1>2, <2>1, VerbatimSound
  <1>4. \A i \in 1 .. N : pattern[i] = "*" /\ i # N => verbatim(pattern[i + 1], lenient) \in V
    <2>1. SUFFICES ASSUME NEW i \in 1 .. N, pattern[i] = "*", i # N
                   PROVE  verbatim(pattern[i + 1], lenient) \in V
      OBVIOUS
    <2>2. i + 1 \in 1 .. N /\ i \in 1 .. N - 1
      BY <2>1
    <2>3. pattern[i + 1] # "["
      <3>1. pattern[i + 1] = "[" => HasPart(pattern, <<"[">>)
        BY <2>2, PartOfOne
      <3>. QED
        BY <3>1 DEF Refused
    <2>4. pattern[i + 1] = "*" => lenient
      <3>1. pattern[i + 1] = "*" => HasPart(pattern, <<"*", "*">>)
        BY <2>1, <2>2, PartOfTwo
      <3>. QED
        BY <3>1 DEF Refused
    <2>. QED
      BY <1>2, <2>2, <2>3, <2>4, VerbatimSound
  <1>5. << >> \in V /\ <<AnyMany>> \in V /\ \A p, q \in V : p \o q \in V
    <2>1. AnyMany \in Sound(Chars)
      BY DEF AnyMany, Sound
    <2>. QED
      BY <2>1
  <1>. HIDE DEF V
  <1>6. ASSUME NEW h \in [D -> V], NEW i \in D
        PROVE  /\ F[h][i] \in V
               /\ F[h][i] = IF i > N THEN << >>
                  ELSE IF pattern[i] # "*" THEN replaced(pattern[i], lenient) \o h[i + 1]
                  ELSE IF i = N THEN <<AnyMany>>
                  ELSE <<AnyMany>> \o verbatim(pattern[i + 1], lenient) \o h[i + 2]
    <2>1. i > N \/ i \in 1 .. N
      OBVIOUS
    <2>2. i \in 1 .. N => i + 1 \in D /\ i + 2 \in D
      BY <1>2
    <2>3. i \in 1 .. N => h[i + 1] \in V /\ h[i + 2] \in V
      BY <2>2
    <2>. QED
      BY <1>3, <1>4, <1>5, <2>1, <2>3
  <1>7. Recursive(F, D, V, weight, N + 2)
    <2>1. F \in [[D -> V] -> [D -> V]]
      <3>1. \A h \in [D -> V] : DOMAIN F[h] = D /\ F[h] = [i \in D |-> F[h][i]]
        OBVIOUS
      <3>2. \A h \in [D -> V] : F[h] \in [D -> V]
        <4>1. \A h \in [D -> V], i \in D : F[h][i] \in V
          BY <1>6
        <4>. HIDE DEF F
        <4>. QED
          BY <3>1, <4>1
      <3>. QED
        BY <3>2
    <2>2. weight \in [D -> 0 .. N + 2]
      BY <1>2
    <2>3. ASSUME NEW g \in [D -> V], NEW h \in [D -> V], NEW i \in D,
                 \A e \in D : weight[e] < weight[i] => g[e] = h[e]
          PROVE  F[g][i] = F[h][i]
      <3>1. CASE i > N
        BY <1>6, <3>1
      <3>2. CASE ~(i > N)
        <4>1. i + 1 \in D /\ i + 2 \in D /\ weight[i + 1] < weight[i] /\ weight[i + 2] < weight[i]
          BY <1>2, <3>2
        <4>2. g[i + 1] = h[i + 1] /\ g[i + 2] = h[i + 2]
          BY <2>3, <4>1
        <4>. HIDE DEF F
        <4>. QED
          BY <1>6, <3>2, <4>2
      <3>. QED
        BY <3>1, <3>2
    <2>. HIDE DEF F, weight, D, N
    <2>. QED
      BY <2>1, <2>2, <2>3 DEF Recursive
  <1>8. PICK h : Solves(h, F, D, V)
    <2>1. [i \in D |-> << >>] \in [D -> V]
      BY <1>5
    <2>2. N + 2 \in Nat
      BY <1>2
    <2>. HIDE DEF F, weight, D, N
    <2>. QED
      BY <1>7, <2>1, <2>2, RecursionSolved
  <1>9. Is(h)
    BY <1>8 DEF Solves
  <1>10. PICK from : from = (CHOOSE g : Is(g)) /\ Is(from)
    <2>. HIDE DEF Is
    <2>. QED
      BY <1>9
  <1>11. \A i \in D : from[i] = IF i > N THEN << >>
                  ELSE IF pattern[i] # "*" THEN replaced(pattern[i], lenient) \o from[i + 1]
                  ELSE IF i = N THEN <<AnyMany>>
                  ELSE <<AnyMany>> \o verbatim(pattern[i + 1], lenient) \o from[i + 2]
    BY <1>10
  <1>12. from[N + 1] = << >> /\ from[N + 2] = << >>
    <2>1. N + 1 \in D /\ N + 1 > N /\ N + 2 \in D /\ N + 2 > N
      BY <1>2
    <2>. QED
      BY <1>11, <2>1
  <1>. DEFINE T == {i \in 1 .. N + 1 : from[i] \in V /\ from[i + 1] \in V}
  <1>13. N + 1 \in T
    BY <1>2, <1>5, <1>12
  <1>14. ASSUME NEW i \in 1 .. N, i + 1 \in T
         PROVE  i \in T
    <2>1. i \in D /\ ~(i > N) /\ i + 1 + 1 = i + 2 /\ i \in 1 .. N + 1
      BY <1>2
    <2>2. from[i + 1] \in V /\ from[i + 2] \in V
      BY <1>14, <2>1
    <2>3. from[i] \in V
      BY <1>3, <1>4, <1>5, <1>11, <2>1, <2>2
    <2>. QED
      BY <2>1, <2>2, <2>3
  <1>15. \A i \in 1 .. N + 1 : i \in T
    <2>. HIDE DEF T, N
    <2>. QED
      BY <1>2, <1>13, <1>14, Downwards
  <1>16. from \in [D -> V]
    <2>1. \A i \in D : from[i] \in V
      <3>1. \A i \in D : i \in 1 .. N + 1 \/ i = N + 2
        BY <1>2
      <3>. QED
        BY <1>5, <1>12, <1>15, <3>1
    <2>2. DOMAIN from = D /\ from = [i \in D |-> from[i]]
      BY <1>10
    <2>. QED
      BY <2>1, <2>2
  <1>17. Translated(from, pattern, lenient, Chars)
    <2>1. \A i \in 1 .. N : i \in D /\ ~(i > N)
      BY <1>2
    <2>2. \A i \in 1 .. N :
          from[i] = IF pattern[i] # "*" THEN replaced(pattern[i], lenient) \o from[i + 1]
                    ELSE IF i = N THEN <<AnyMany>>
                    ELSE <<AnyMany>> \o verbatim(pattern[i + 1], lenient) \o from[i + 2]
      BY <1>11, <2>1
    <2>. QED
      BY <1>12, <1>16, <2>2 DEF Translated, V
  <1>. HIDE DEF Is
  <1>. QED
    BY <1>1, <1>10, <1>17

\* A superset, and the same set but for a dot or a question mark behind a star.
Close(A, B, pattern) ==
    /\ A \subseteq B
    /\ B \subseteq A \/ HasPart(pattern, <<".">>) \/ HasPart(pattern, <<"*", "?">>)

\* A star and another, or a question mark, match no more than a star.
LEMMA StarTwice ==
    ASSUME NEW Chars, NEW str \in Seq(Chars), NEW A
    PROVE  /\ Starts(AnyMany, str, Starts(AnyMany, str, A)) = Starts(AnyMany, str, A)
           /\ Starts(AnyMany, str, Starts(AnyOne, str, A)) \subseteq Starts(AnyMany, str, A)
  <1>1. AnyMany.many /\ ~AnyOne.many /\ Len(str) \in Nat
    BY DEF AnyMany, AnyOne
  <1>2. \A B : Starts(AnyMany, str, B) =
                 {j \in 1 .. Len(str) + 1 : \E k \in j .. Len(str) + 1 : k \in B}
    BY <1>1 DEF Starts
  <1>3. Starts(AnyOne, str, A) =
           {j \in 1 .. Len(str) : AnyOne.char \in {"any", str[j]} /\ j + 1 \in A}
    BY <1>1 DEF Starts
  <1>4. Starts(AnyMany, str, Starts(AnyMany, str, A)) \subseteq Starts(AnyMany, str, A)
    BY <1>1, <1>2
  <1>5. Starts(AnyMany, str, A) \subseteq Starts(AnyMany, str, Starts(AnyMany, str, A))
    BY <1>1, <1>2
  <1>6. Starts(AnyMany, str, Starts(AnyOne, str, A)) \subseteq Starts(AnyMany, str, A)
    <2>1. SUFFICES ASSUME NEW j \in 1 .. Len(str) + 1, NEW k \in j .. Len(str) + 1,
                          k \in 1 .. Len(str), k + 1 \in A
                   PROVE  j \in Starts(AnyMany, str, A)
      BY <1>1, <1>2, <1>3
    <2>2. k + 1 \in j .. Len(str) + 1
      BY <1>1, <2>1
    <2>. QED
      BY <1>2, <2>1, <2>2
  <1>. QED
    BY <1>4, <1>5, <1>6

\* A dot in an expression matches a dot, too.
LEMMA DotAny ==
    ASSUME NEW Chars, NEW str \in Seq(Chars), NEW A
    PROVE  Starts(Literal("."), str, A) \subseteq Starts(AnyOne, str, A)
  BY DEF Starts, Literal, AnyOne

\* One term more changes nothing about that.
LEMMA CloseStarts ==
    ASSUME NEW Chars, NEW str \in Seq(Chars), NEW pattern, NEW x, NEW A, NEW B, Close(A, B, pattern)
    PROVE  Close(Starts(x, str, A), Starts(x, str, B), pattern)
  <1>1. A \subseteq B => Starts(x, str, A) \subseteq Starts(x, str, B)
    BY StartsGrow
  <1>2. B \subseteq A => Starts(x, str, B) \subseteq Starts(x, str, A)
    BY StartsGrow
  <1>. QED
    BY <1>1, <1>2 DEF Close

\* The positions from which a name matches the expression are those from which
\* it matches the pattern, but for these two.
LEMMA FromClose ==
    ASSUME NEW Chars, "any" \notin Chars, NEW pattern \in Seq(Chars), NEW str \in Seq(Chars),
           NEW lenient \in BOOLEAN, ~Refused(pattern, lenient),
           NEW from, Translated(from, pattern, lenient, Chars),
           NEW g, Matching(g, Meant(pattern), str)
    PROVE  Close(g[1], From(from[1], str), pattern)
  <1>. DEFINE N == Len(pattern)
              P(i) == Close(g[i], From(from[i], str), pattern)
              M(i) == From(from[i], str)
  <1>1. N \in Nat /\ \A i \in 1 .. N : pattern[i] \in Chars
    OBVIOUS
  <1>2. /\ g[N + 1] = {Len(str) + 1}
        /\ \A i \in 1 .. N : pattern[i] = "*" => g[i] = Starts(AnyMany, str, g[i + 1])
        /\ \A i \in 1 .. N : pattern[i] = "?" => g[i] = Starts(AnyOne, str, g[i + 1])
        /\ \A i \in 1 .. N : pattern[i] \notin {"*", "?"} =>
                                g[i] = Starts(Literal(pattern[i]), str, g[i + 1])
    <2>1. Len(Meant(pattern)) = N /\ \A i \in 1 .. N :
               Meant(pattern)[i] = CASE pattern[i] = "*" -> AnyMany
                                     [] pattern[i] = "?" -> AnyOne
                                     [] OTHER -> Literal(pattern[i])
      BY <1>1 DEF Meant
    <2>2. \A i \in 1 .. N : g[i] = Starts(Meant(pattern)[i], str, g[i + 1])
      BY <2>1 DEF Matching
    <2>. QED
      BY <2>1, <2>2 DEF Matching
  <1>3. /\ M(N + 1) = {Len(str) + 1}
        /\ \A i \in 1 .. N + 2 : from[i] \in Seq(Sound(Chars))
        /\ \A i \in 1 .. N : pattern[i] # "*" => from[i] = replaced(pattern[i], lenient) \o from[i + 1]
        /\ \A i \in 1 .. N : pattern[i] = "*" /\ i = N => from[i] = <<AnyMany>>
        /\ \A i \in 1 .. N : pattern[i] = "*" /\ i # N =>
              from[i] = <<AnyMany>> \o verbatim(pattern[i + 1], lenient) \o from[i + 2]
    <2>1. from[N + 1] = << >>
      BY DEF Translated
    <2>2. M(N + 1) = {Len(str) + 1}
      BY <2>1, FromEmpty
    <2>. QED
      BY <2>2 DEF Translated
  <1>4. /\ AnyMany \in Sound(Chars) /\ AnyOne \in Sound(Chars)
        /\ \A c \in Chars : Literal(c) \in Sound(Chars)
    BY DEF AnyMany, AnyOne, Literal, Sound
  <1>5. \A i \in 1 .. N : pattern[i] # "["
    <2>1. ASSUME NEW i \in 1 .. N, pattern[i] = "["
          PROVE  FALSE
      <3>1. HasPart(pattern, <<"[">>)
        BY <2>1, PartOfOne
      <3>. QED
        BY <3>1 DEF Refused
    <2>. QED
      BY <2>1
  <1>6. ASSUME NEW q \in Seq(Sound(Chars)), NEW x \in Sound(Chars)
        PROVE  From(<<x>> \o q, str) = Starts(x, str, From(q, str))
    BY FromMore
  <1>7. P(N + 1)
    BY <1>2, <1>3 DEF Close
  \* A character that stands first, as a term of its own.
  <1>8. ASSUME NEW i \in 1 .. N, pattern[i] # "*", P(i + 1)
        PROVE  P(i)
    <2>0. i + 1 \in 1 .. N + 2 /\ from[i + 1] \in Seq(Sound(Chars)) /\ pattern[i] \in Chars
      BY <1>1, <1>3
    <2>1. CASE pattern[i] = "?"
      <3>1. from[i] = <<AnyOne>> \o from[i + 1]
        BY <1>3, <1>8, <2>1 DEF replaced
      <3>2. M(i) = Starts(AnyOne, str, M(i + 1)) /\ g[i] = Starts(AnyOne, str, g[i + 1])
        BY <1>2, <1>4, <1>6, <2>0, <2>1, <3>1
      <3>. QED
        BY <1>8, <3>2, CloseStarts
    <2>2. CASE pattern[i] = "."
      <3>1. from[i] = <<AnyOne>> \o from[i + 1]
        BY <1>3, <1>8, <2>2 DEF replaced, verbatim
      <3>2. M(i) = Starts(AnyOne, str, M(i + 1)) /\ g[i] = Starts(Literal("."), str, g[i + 1])
        BY <1>2, <1>4, <1>6, <2>0, <2>2, <3>1
      <3>3. HasPart(pattern, <<".">>)
        BY <2>2, PartOfOne
      <3>4. Close(Starts(AnyOne, str, g[i + 1]), M(i), pattern)
        BY <1>8, <3>2, CloseStarts
      <3>. QED
        BY <3>2, <3>3, <3>4, DotAny DEF Close
    <2>3. CASE pattern[i] \notin {"*", "?", ".", "["}
      <3>1. from[i] = <<Literal(pattern[i])>> \o from[i + 1]
        BY <1>3, <2>3 DEF replaced, verbatim
      <3>2. /\ M(i) = Starts(Literal(pattern[i]), str, M(i + 1))
            /\ g[i] = Starts(Literal(pattern[i]), str, g[i + 1])
        BY <1>2, <1>4, <1>6, <2>0, <2>3, <3>1
      <3>. QED
        BY <1>8, <3>2, CloseStarts
    <2>. QED
      BY <1>5, <1>8, <2>1, <2>2, <2>3
  <1>9. ASSUME NEW i \in 1 .. N, pattern[i] = "*", i = N
        PROVE  P(i)
    <2>0. << >> \in Seq(Sound(Chars)) /\ <<AnyMany>> \o << >> = <<AnyMany>>
      OBVIOUS
    <2>1. from[i] = <<AnyMany>>
      BY <1>3, <1>9
    <2>2. from[i + 1] = << >>
      BY <1>9 DEF Translated
    <2>3. M(i) = Starts(AnyMany, str, M(i + 1))
      <3>1. From(<<AnyMany>> \o << >>, str) = Starts(AnyMany, str, From(<< >>, str))
        BY <1>4, <1>6, <2>0
      <3>. QED
        BY <2>0, <2>1, <2>2, <3>1
    <2>4. g[i] = Starts(AnyMany, str, g[i + 1])
      BY <1>2, <1>9
    <2>. QED
      BY <1>7, <1>9, <2>3, <2>4, CloseStarts
  \* A star, the character behind it, and the rest.
  <1>10. ASSUME NEW i \in 1 .. N, pattern[i] = "*", i # N, P(i + 2)
         PROVE  P(i)
    <2>. DEFINE c == pattern[i + 1]
                q == from[i + 2]
    <2>0. i + 1 \in 1 .. N /\ (i + 1) + 1 = i + 2 /\ q \in Seq(Sound(Chars)) /\ c \in Chars /\ c # "["
          /\ i \in 1 .. N - 1
      BY <1>1, <1>3, <1>5, <1>10
    <2>1. from[i] = <<AnyMany>> \o verbatim(c, lenient) \o q /\ g[i] = Starts(AnyMany, str, g[i + 1])
      BY <1>2, <1>3, <1>10
    <2>2. \A x : <<AnyMany>> \o <<x>> \o q = <<AnyMany>> \o (<<x>> \o q)
      BY <2>0
    <2>3. <<AnyMany>> \o << >> \o q = <<AnyMany>> \o q
      BY <2>0
    <2>4. ASSUME NEW x \in Sound(Chars)
          PROVE  From(<<AnyMany>> \o (<<x>> \o q), str)
                    = Starts(AnyMany, str, Starts(x, str, From(q, str)))
      <3>1. <<x>> \o q \in Seq(Sound(Chars))
        BY <2>0
      <3>. QED
        BY <1>4, <1>6, <2>0, <3>1
    <2>5. From(<<AnyMany>> \o q, str) = Starts(AnyMany, str, From(q, str))
      BY <1>4, <1>6, <2>0
    <2>6. Close(g[i + 2], From(q, str), pattern)
      BY <1>10
    <2>7. Close(Starts(AnyMany, str, g[i + 2]), Starts(AnyMany, str, From(q, str)), pattern)
      BY <2>6, CloseStarts
    <2>. HIDE DEF q, c
    <2>8. CASE c = "*"
      <3>1. lenient
        BY <1>10, <2>0, <2>8, PartOfTwo DEF Refused, c
      <3>2. from[i] = <<AnyMany>> \o q
        BY <2>1, <2>3, <2>8, <3>1 DEF verbatim
      <3>3. g[i + 1] = Starts(AnyMany, str, g[i + 2])
        BY <1>2, <2>0, <2>8 DEF c
      <3>4. g[i] = Starts(AnyMany, str, g[i + 2])
        BY <2>1, <3>3, StarTwice
      <3>. QED
        BY <2>5, <2>7, <3>2, <3>4
    <2>9. CASE c = "?"
      <3>1. from[i] = <<AnyMany>> \o q
        BY <2>1, <2>3, <2>9 DEF verbatim
      <3>2. g[i + 1] = Starts(AnyOne, str, g[i + 2])
        BY <1>2, <2>0, <2>9 DEF c
      <3>3. g[i] \subseteq Starts(AnyMany, str, g[i + 2])
        BY <2>1, <3>2, StarTwice
      <3>4. HasPart(pattern, <<"*", "?">>)
        BY <1>10, <2>0, <2>9, PartOfTwo DEF c
      <3>. QED
        BY <2>5, <2>7, <3>1, <3>3, <3>4 DEF Close
    <2>10. CASE c = "."
      <3>1. verbatim(c, lenient) = <<AnyOne>>
        BY <2>10 DEF verbatim
      <3>2. M(i) = Starts(AnyMany, str, Starts(AnyOne, str, From(q, str)))
        BY <1>4, <2>1, <2>2, <2>4, <3>1
      <3>3. g[i + 1] = Starts(Literal("."), str, g[i + 2])
        BY <1>2, <2>0, <2>10 DEF c
      <3>4. HasPart(pattern, <<".">>)
        BY <2>0, <2>10, PartOfOne DEF c
      <3>5. g[i + 1] \subseteq Starts(AnyOne, str, From(q, str))
        <4>1. Starts(AnyOne, str, g[i + 2]) \subseteq Starts(AnyOne, str, From(q, str))
          BY <2>6, StartsGrow DEF Close
        <4>. QED
          BY <3>3, <4>1, DotAny
      <3>6. g[i] \subseteq M(i)
        BY <2>1, <3>2, <3>5, StartsGrow
      <3>. QED
        BY <3>4, <3>6 DEF Close
    <2>11. CASE c \notin {"*", "?", ".", "["}
      <3>1. verbatim(c, lenient) = <<Literal(c)>>
        BY <2>11 DEF verbatim
      <3>2. M(i) = Starts(AnyMany, str, Starts(Literal(c), str, From(q, str)))
        BY <1>4, <2>0, <2>1, <2>2, <2>4, <3>1
      <3>3. g[i + 1] = Starts(Literal(c), str, g[i + 2])
        BY <1>2, <2>0, <2>11 DEF c
      <3>4. Close(g[i + 1], Starts(Literal(c), str, From(q, str)), pattern)
        BY <2>6, <3>3, CloseStarts
      <3>. QED
        BY <2>1, <3>2, <3>4, CloseStarts
    <2>. QED
      BY <2>0, <2>8, <2>9, <2>10, <2>11
  <1>. HIDE DEF P
  <1>. DEFINE T == {i \in 1 .. N + 1 : P(i) /\ (i < N + 1 => P(i + 1))}
  <1>11. N + 1 \in T
    BY <1>1, <1>7
  <1>12. ASSUME NEW i \in 1 .. N, i + 1 \in T
         PROVE  i \in T
    <2>1. P(i + 1) /\ (i # N => P(i + 2))
      <3>1. (i + 1) + 1 = i + 2 /\ (i # N => i + 1 < N + 1)
        BY <1>1
      <3>. QED
        BY <1>12, <3>1
    <2>2. P(i)
      BY <1>8, <1>9, <1>10, <2>1
    <2>. QED
      BY <2>1, <2>2
  <1>13. \A i \in 1 .. N + 1 : i \in T
    <2>. HIDE DEF T, N
    <2>. QED
      BY <1>1, <1>11, <1>12, Downwards
  <1>14. P(1)
    BY <1>1, <1>13
  <1>. QED
    BY <1>14 DEF P

\* Whatever the characters of a pattern and a name, Wildcard::match does what
\* users expect of patterns, but for those that FollowsGlob names: it matches
\* every name they mean, and others only for a dot or for a question mark
\* behind a star (Wildcard::match, its loop and the regular expression).
THEOREM MatchFollowsGlob ==
    ASSUME NEW Chars, {"any", "broken"} \cap Chars = {}, NEW pattern \in Seq(Chars),
           NEW str \in Seq(Chars), NEW lenient \in BOOLEAN
    PROVE  FollowsGlob(pattern, str, lenient, match(pattern, str, lenient))
  <1>1. SUFFICES ASSUME ~Refused(pattern, lenient)
                 PROVE  FollowsGlob(pattern, str, lenient, match(pattern, str, lenient))
    BY DEF FollowsGlob, Refused
  <1>2. PICK from : Translated(from, pattern, lenient, Chars) /\ regex(pattern, lenient) = from[1]
    BY <1>1, RegexTerms
  <1>3. PICK g : Matching(g, Meant(pattern), str) /\ (Glob(pattern, str) <=> 1 \in g[1])
    BY GlobPositions
  <1>4. Close(g[1], From(from[1], str), pattern)
    BY <1>1, <1>2, <1>3, FromClose
  <1>5. PICK t : t = from[1]
    OBVIOUS
  <1>6. t \in Seq(Sound(Chars))
    <2>1. 1 \in 1 .. Len(pattern) + 2
      OBVIOUS
    <2>. QED
      BY <1>2, <1>5, <2>1 DEF Translated
  <1>7. \A i \in DOMAIN t : t[i] # Broken
    <2>1. \A x \in Sound(Chars) : x # Broken
      BY DEF Sound, Broken
    <2>. QED
      BY <1>6, <2>1
  <1>8. match(pattern, str, lenient) = regex_match(t, str)
    BY <1>2, <1>5, <1>7 DEF match
  <1>9. regex_match(t, str) <=> 1 \in From(t, str)
    BY <1>6, FromDecides
  <1>. QED
    BY <1>3, <1>4, <1>5, <1>8, <1>9 DEF FollowsGlob, Close

\* The pattern "*" matches every name: the test instantiateAll makes of the
\* ends of a connection, Wildcard::match("*", src_spec), never fails, so that a
\* name which is no pattern is compared with the modules' (ModuleFactory.Names).
THEOREM StarMatchesAll ==
    ASSUME NEW Chars, {"any", "broken"} \cap Chars = {}, "*" \in Chars,
           NEW str \in Seq(Chars), NEW lenient \in BOOLEAN
    PROVE  match(<<"*">>, str, lenient)
  <1>1. <<"*">> \in Seq(Chars) /\ Len(<<"*">>) = 1 /\ <<"*">>[1] = "*"
    OBVIOUS
  <1>2. ~HasPart(<<"*">>, <<"[">>) /\ ~HasPart(<<"*">>, <<"*", "*">>)
    <2>1. ~HasPart(<<"*">>, <<"[">>)
      BY DEF HasPart
    <2>2. ~HasPart(<<"*">>, <<"*", "*">>)
      BY DEF HasPart
    <2>. QED
      BY <2>1, <2>2
  <1>3. Glob(<<"*">>, str)
    <2>1. PICK g : Matching(g, Meant(<<"*">>), str) /\ (Glob(<<"*">>, str) <=> 1 \in g[1])
      BY <1>1, GlobPositions
    <2>2. Len(Meant(<<"*">>)) = 1 /\ Meant(<<"*">>)[1] = AnyMany
      BY <1>1 DEF Meant
    <2>3. g[1] = Starts(AnyMany, str, {Len(str) + 1})
      <3>1. g[2] = {Len(str) + 1}
        BY <2>1, <2>2 DEF Matching
      <3>2. 1 \in 1 .. Len(Meant(<<"*">>))
        BY <2>2
      <3>3. g[1] = Starts(Meant(<<"*">>)[1], str, g[1 + 1])
        BY <2>1, <3>2 DEF Matching
      <3>4. Meant(<<"*">>)[1] = AnyMany /\ 1 + 1 = 2
        BY <2>2
      <3>. QED
        BY <3>1, <3>3, <3>4, Zenon
    <2>4. AnyMany.many /\ Len(str) \in Nat
      BY DEF AnyMany
    <2>. QED
      BY <2>1, <2>3, <2>4 DEF Starts
  <1>. QED
    BY <1>1, <1>2, <1>3, MatchFollowsGlob DEF FollowsGlob

=============================================================================
