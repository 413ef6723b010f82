--------------------------- MODULE ModuleFactory ---------------------------
(***************************************************************************)
(* The factory that builds a system from its configuration: registries,    *)
(* plugins, instances, groups, nested SimModules, ports and connections    *)
(* (src/core/module_factory.cc, include/module_factory.hh, sim_module.hh,  *)
(* utils/module_group.hh, regex_matcher.hh).                               *)
(*                                                                         *)
(* instantiateAll calls itself through SimModule::instantiate: `stack'     *)
(* holds one frame per active call, the innermost first, with the call's   *)
(* local variables.  Registries, groups and loaded plugins are static and  *)
(* shared by all of them.                                                  *)
(*                                                                         *)
(* What a file or a caller supplies is either a JSON string, a `path', or  *)
(* an `object', a configuration whose includes are resolved.  A name in a  *)
(* connection is "module.port", or "module" alone, for which `port' is     *)
(* NoPort.  A pattern is given by the names it matches.                    *)
(***************************************************************************)
EXTENDS Naturals, Sequences, SequencesExt

CONSTANTS ObjectTypes,    \* registrations a caller may make: <<type, class>>
          ModuleTypes,
          PluginTypes,    \* plugin -> the module registrations it makes
          EagerClasses,   \* classes whose constructor creates the port manager
          Files,          \* path -> content
          Args,           \* what instantiateAll may be called with
          NoPort, Absent,
          MaxCalls        \* bound: calls of instantiateAll from outside

ASSUME BoundAssumption == MaxCalls \in Nat

\* Modules, connections and the members of a group are lists.
IsList(s) == s \in Seq(Range(s))
ASSUME FilesAssumption ==
    \A p \in DOMAIN Files :
        Files[p].kind = "object" =>
            /\ IsList(Files[p].config.modules)
            /\ IsList(Files[p].config.connections)
            /\ \A g \in DOMAIN Files[p].config.groups : IsList(Files[p].config.groups[g])

VARIABLES object_registry, module_registry,   \* type -> class
          registered_plugins,
          groups,         \* group -> members, in order
          heap,           \* every SimObject created, by number
          instances,      \* ModuleFactory::instances of the outer factory
          stack,
          call,           \* how the last outer call went, and with what
          started,        \* objects whose ticks were started
          completed,      \* history: frames that ran to their end
          calls

registries == <<object_registry, module_registry, registered_plugins>>
vars == <<registries, groups, heap, instances, stack, call, started, completed, calls>>

Phases == <<"plugin", "create", "groups", "internal", "ports", "connect">>
EmptyMap == << >>
Null == 0

ModuleRegistrations == ModuleTypes \cup UNION {PluginTypes[p] : p \in DOMAIN PluginTypes}
ModuleClasses == {r[2] : r \in ModuleRegistrations}
ASSUME RegistrationsAssumption ==
    \A r \in ObjectTypes \cup ModuleRegistrations : r = <<r[1], r[2]>>

TypeOK == /\ \A t \in DOMAIN object_registry : <<t, object_registry[t]>> \in ObjectTypes
          /\ \A t \in DOMAIN module_registry : <<t, module_registry[t]>> \in ModuleRegistrations
          /\ registered_plugins \subseteq DOMAIN PluginTypes
          /\ \A k \in 1 .. Len(stack) :
                /\ \A n \in DOMAIN stack[k].objects : stack[k].objects[n] \in 1 .. Len(heap)
                /\ \A n \in DOMAIN stack[k].modules : stack[k].modules[n] \in 0 .. Len(heap)
                /\ stack[k].phase \in 1 .. Len(Phases)
                /\ k = Len(stack) <=> stack[k].self = Null
          /\ call.status \in {"none", "running", "returned", "threw", "crashed", "started"}
          /\ stack # << >> <=> call.status \in {"running", "crashed"}
          /\ started \subseteq 1 .. Len(heap)
          /\ calls \in 0 .. MaxCalls

Init == /\ object_registry = EmptyMap /\ module_registry = EmptyMap
        /\ registered_plugins = {}
        /\ groups = EmptyMap
        /\ heap = << >>
        /\ instances = EmptyMap
        /\ stack = << >>
        /\ call = [status |-> "none"]
        /\ started = {}
        /\ completed = {}
        /\ calls = 0

\* map[key] = value
Put(map, key, value) == [k \in DOMAIN map \cup {key} |-> IF k = key THEN value ELSE map[k]]

-----------------------------------------------------------------------------
(* The registries, used between calls *)

Idle == stack = << >>

registerObject(type, class) ==
    /\ Idle
    /\ object_registry' = Put(object_registry, type, class)
    /\ UNCHANGED <<module_registry, registered_plugins, groups, heap, instances, stack, call,
                   started, completed, calls>>

registerModule(type, class) ==
    /\ Idle
    /\ module_registry' = Put(module_registry, type, class)
    /\ UNCHANGED <<object_registry, registered_plugins, groups, heap, instances, stack, call,
                   started, completed, calls>>

unregisterObject(type) ==
    /\ Idle /\ type \in DOMAIN object_registry
    /\ object_registry' = [t \in DOMAIN object_registry \ {type} |-> object_registry[t]]
    /\ UNCHANGED <<module_registry, registered_plugins, groups, heap, instances, stack, call,
                   started, completed, calls>>

unregisterModule(type) ==
    /\ Idle /\ type \in DOMAIN module_registry
    /\ module_registry' = [t \in DOMAIN module_registry \ {type} |-> module_registry[t]]
    /\ UNCHANGED <<object_registry, registered_plugins, groups, heap, instances, stack, call,
                   started, completed, calls>>

clearAllTypes ==
    /\ Idle
    /\ object_registry' = EmptyMap /\ module_registry' = EmptyMap
    /\ UNCHANGED <<registered_plugins, groups, heap, instances, stack, call, started,
                   completed, calls>>

-----------------------------------------------------------------------------
(* Entering and leaving instantiateAll *)

\* The argument is converted to the name of the file to load.  The set is
\* empty when an exception is thrown: an object does not convert, the file
\* may be missing, and a file that holds a string has no "modules".
loadAndInclude(arg) == IF arg.kind = "object" THEN {}
                       ELSE {Files[p].config : p \in {q \in DOMAIN Files :
                                                        q = arg.path /\ Files[q].kind = "object"}}

Frame(config, arg, self) ==
    [config |-> config, arg |-> arg, self |-> self, phase |-> 1, i |-> 1,
     objects |-> EmptyMap, modules |-> EmptyMap, redefined |-> {}]

\* Mutant: an exception ends the innermost call only.
instantiateAllCaught(arg, self, below) ==
    \/ \E config \in loadAndInclude(arg) :
          /\ stack' = <<Frame(config, arg, self)>> \o below
          /\ call' = [call EXCEPT !.status = "running"]
    \/ /\ loadAndInclude(arg) = {}
       /\ stack' = below
       /\ call' = [call EXCEPT !.status = "threw"]

\* SimModule::instantiate: instantiateAll(arg) by the owner `self' on top of `below'; an exception
\* unwinds every active call.
instantiateAll(arg, self, below) ==
    \/ \E config \in loadAndInclude(arg) :
          /\ stack' = <<Frame(config, arg, self)>> \o below
          /\ call' = [call EXCEPT !.status = "running"]
    \/ /\ loadAndInclude(arg) = {}
       /\ stack' = << >>
       /\ call' = [call EXCEPT !.status = "threw"]

Call(arg) ==
    /\ Idle /\ calls < MaxCalls
    /\ calls' = calls + 1
    /\ \/ \E config \in loadAndInclude(arg) :
             /\ stack' = <<Frame(config, arg, Null)>>
             /\ call' = [status |-> "running", arg |-> arg]
       \/ /\ loadAndInclude(arg) = {}
          /\ call' = [status |-> "threw", arg |-> arg]
          /\ UNCHANGED stack
    /\ UNCHANGED <<registries, groups, heap, instances, started, completed>>

\* A null pointer is dereferenced, which ends the process.
Crash == /\ call' = [call EXCEPT !.status = "crashed"]
         /\ UNCHANGED <<registries, groups, heap, instances, stack, started, completed, calls>>

-----------------------------------------------------------------------------
(* The phases of the innermost call *)

top == Head(stack)
Running == call.status = "running"
InPhase(p) == Running /\ Phases[top.phase] = p
Continue(frame) == stack' = <<frame>> \o Tail(stack)

\* What the loop of the current phase iterates over.
Items == CASE Phases[top.phase] \in {"create", "internal"} -> Len(top.config.modules)
           [] Phases[top.phase] \in {"ports", "connect"} -> Len(top.config.connections)
           [] OTHER -> 1

InLoop(p) == InPhase(p) /\ top.i <= Items
Advanced(frame) == [frame EXCEPT !.i = @ + 1]
Entry == top.config.modules[top.i]
Connection == top.config.connections[top.i]

EndLoop == /\ Running /\ top.i > Items /\ top.phase < Len(Phases)
           /\ Continue([top EXCEPT !.phase = @ + 1, !.i = 1])
           /\ UNCHANGED <<registries, groups, heap, instances, call, started, completed, calls>>

\* DynamicLoader::loadPlugin, for plugins that were not loaded before: their
\* initialisers register their types.
loadPlugin(loaded) ==
    /\ LET new == UNION {PluginTypes[p] : p \in loaded} IN
       module_registry' = [t \in DOMAIN module_registry \cup {r[1] : r \in new} |->
                              IF \E r \in new : r[1] = t
                              THEN (CHOOSE r \in new : r[1] = t)[2] ELSE module_registry[t]]
    /\ registered_plugins' = registered_plugins \cup loaded

\* `loaded' are those that dlopen finds; one that was loaded before is not
\* loaded again.
LoadPlugins(loaded) ==
    /\ InLoop("plugin")
    /\ loaded \subseteq top.config.plugin \ registered_plugins
    /\ loadPlugin(loaded)
    /\ Continue(Advanced(top))
    /\ UNCHANGED <<object_registry, groups, heap, instances, call, started, completed, calls>>

Object(class) == [class |-> class, hasPortManager |-> class \in EagerClasses,
                  up |-> << >>, down |-> << >>, exposed |-> << >>]

\* setLayout through objects[name], which is null when no entry of that name
\* has been created.
LayoutOfNothing == Entry.layout /\ Entry.name \notin DOMAIN top.objects
Complete(entry) == entry.name # Absent /\ entry.type # Absent

CreateModule ==
    /\ InLoop("create") /\ Complete(Entry) /\ Entry.type \in DOMAIN module_registry
    /\ heap' = Append(heap, Object(module_registry[Entry.type]))
    /\ Continue(Advanced([top EXCEPT !.objects = Put(@, Entry.name, Len(heap) + 1),
                                     !.modules = Put(@, Entry.name, Len(heap) + 1)]))
    /\ UNCHANGED <<registries, groups, instances, call, started, completed, calls>>

\* Mutant: an object is entered among the modules.
CreateObjectMisfiled ==
    /\ InLoop("create") /\ Complete(Entry)
    /\ Entry.type \notin DOMAIN module_registry /\ Entry.type \in DOMAIN object_registry
    /\ heap' = Append(heap, Object(object_registry[Entry.type]))
    /\ Continue(Advanced([top EXCEPT !.modules = Put(@, Entry.name, Len(heap) + 1)]))
    /\ UNCHANGED <<registries, groups, instances, call, started, completed, calls>>

CreateObject ==
    /\ InLoop("create") /\ Complete(Entry)
    /\ Entry.type \notin DOMAIN module_registry /\ Entry.type \in DOMAIN object_registry
    /\ heap' = Append(heap, Object(object_registry[Entry.type]))
    /\ Continue(Advanced([top EXCEPT !.objects = Put(@, Entry.name, Len(heap) + 1)]))
    /\ UNCHANGED <<registries, groups, instances, call, started, completed, calls>>

\* Mutant: an entry is skipped without going on to the next.
CreateNothingStays ==
    /\ InLoop("create")
    /\ Complete(Entry) => Entry.type \notin DOMAIN module_registry \cup DOMAIN object_registry
    /\ \/ Complete(Entry) /\ LayoutOfNothing /\ Crash
       \/ ~(Complete(Entry) /\ LayoutOfNothing) /\ UNCHANGED vars

\* An incomplete entry is skipped; an unknown type is reported.
CreateNothing ==
    /\ InLoop("create")
    /\ Complete(Entry) => Entry.type \notin DOMAIN module_registry \cup DOMAIN object_registry
    /\ \/ /\ Complete(Entry) /\ LayoutOfNothing
          /\ Crash
       \/ /\ ~(Complete(Entry) /\ LayoutOfNothing)
          /\ Continue(Advanced(top))
          /\ UNCHANGED <<registries, groups, heap, instances, call, started, completed, calls>>

\* Mutant: the groups of this configuration replace all others.
DefineGroupsOnly ==
    /\ InLoop("groups")
    /\ groups' = top.config.groups
    /\ Continue(Advanced(top))
    /\ UNCHANGED <<registries, heap, instances, call, started, completed, calls>>

\* ModuleGroup::define for every group of the configuration.
DefineGroups ==
    /\ InLoop("groups")
    /\ groups' = [g \in DOMAIN groups \cup DOMAIN top.config.groups |->
                     IF g \in DOMAIN top.config.groups THEN top.config.groups[g] ELSE groups[g]]
    /\ Continue(Advanced(top))
    /\ UNCHANGED <<registries, heap, instances, call, started, completed, calls>>

\* module_instances[name] creates a null entry for a name that is not there.
Looked(frame, name) == IF name \in DOMAIN frame.modules THEN frame
                       ELSE [frame EXCEPT !.modules = Put(@, name, Null)]

\* Mutant: every entry is looked up, also those without a "config".
SkipInternalLooked ==
    /\ InLoop("internal")
    /\ Entry.config = Absent \/ Looked(top, Entry.name).modules[Entry.name] = Null
                             \/ Entry.config \notin DOMAIN Files
    /\ Continue(Advanced(Looked(top, Entry.name)))
    /\ UNCHANGED <<registries, groups, heap, instances, call, started, completed, calls>>

\* No "config", no SimModule of that name, or no such file.
SkipInternal ==
    /\ InLoop("internal")
    /\ \/ /\ Entry.config = Absent
          /\ Continue(Advanced(top))
       \/ /\ Entry.config # Absent /\ Entry.name # Absent
          /\ \/ Looked(top, Entry.name).modules[Entry.name] = Null
             \/ Entry.config \notin DOMAIN Files
          /\ Continue(Advanced(Looked(top, Entry.name)))
    /\ UNCHANGED <<registries, groups, heap, instances, call, started, completed, calls>>

\* SimModule::instantiate on the content of the file.
EnterInternal ==
    /\ InLoop("internal")
    /\ Entry.config \in DOMAIN Files /\ Entry.name # Absent
    /\ Looked(top, Entry.name).modules[Entry.name] # Null
    /\ instantiateAll(Files[Entry.config], top.modules[Entry.name],
                      <<Advanced(top)>> \o Tail(stack))
    /\ UNCHANGED <<registries, groups, heap, instances, started, completed, calls>>

\* A "config" without a name: null does not convert to a string.
NamelessInternal ==
    /\ InLoop("internal")
    /\ Entry.config # Absent /\ Entry.name = Absent
    /\ stack' = << >>
    /\ call' = [call EXCEPT !.status = "threw"]
    /\ UNCHANGED <<registries, groups, heap, instances, started, completed, calls>>

-----------------------------------------------------------------------------
(* Names and ports *)

\* findInternalPath is called through a null pointer.
ThroughNull(frame, name) == /\ name.port # NoPort
                            /\ name.module \in DOMAIN frame.modules
                            /\ frame.modules[name.module] = Null

\* SimModule::findInternalPath: the first exposed port with that label.
findInternalPath(object, label) ==
    LET S == {i \in DOMAIN object.exposed : object.exposed[i].external = label}
    IN  IF S = {} THEN {} ELSE {object.exposed[CHOOSE i \in S : \A j \in S : i <= j].internal}

\* The object and the label that a name stands for, at most one.
Denoted(frame, name) ==
    LET path == IF name.port = NoPort THEN {}
                ELSE IF name.module \in DOMAIN frame.modules
                     THEN findInternalPath(heap[frame.modules[name.module]], name.port)
                     ELSE {name}
    IN  {[object |-> frame.objects[p.module], label |-> p.port] :
            p \in {q \in path : /\ q.module \in DOMAIN frame.objects
                                /\ heap[frame.objects[q.module]].hasPortManager}}

\* The ports to create for one end of a connection.  Groups and patterns
\* name no instance.
PortOwners(frame, spec) == IF spec.kind = "name" THEN Denoted(frame, spec.name) ELSE {}

Port(label, sizes) == [label |-> label, sizes |-> sizes, peer |-> << >>]

addPorts(objects, owners, side, sizes) ==
    [id \in DOMAIN objects |->
        IF \E o \in owners : o.object = id
        THEN [objects[id] EXCEPT ![side] = Append(@, Port((CHOOSE o \in owners : TRUE).label, sizes))]
        ELSE objects[id]]

\* The configured sizes come after the default.
BufferSizes(configured) == <<4>> \o configured

CreatePorts ==
    /\ InLoop("ports")
    /\ \/ /\ \E spec \in {Connection.src, Connection.dst} :
                spec.kind = "name" /\ ThroughNull(top, spec.name)
          /\ Crash
       \/ /\ \A spec \in {Connection.src, Connection.dst} :
                spec.kind = "name" => ~ThroughNull(top, spec.name)
          /\ heap' = addPorts(addPorts(heap, PortOwners(top, Connection.src), "down",
                                       BufferSizes(Connection.output_buffer_sizes)),
                              PortOwners(top, Connection.dst), "up",
                              BufferSizes(Connection.input_buffer_sizes))
          /\ Continue(Advanced(top))
          /\ UNCHANGED <<registries, groups, instances, call, started, completed, calls>>

\* ModuleGroup::resolve
resolve(group) == IF group \in DOMAIN groups THEN groups[group] ELSE << >>

\* Exclude patterns are matched against the full name.  What is left keeps its
\* index, and so its place in the order.
filterExcluded(names, exclude) ==
    [k \in {i \in DOMAIN names : names[i] \notin exclude} |-> names[k]]

\* Mutant: a name that is no pattern stands for itself.
NamesPlain(frame, spec, exclude) ==
    filterExcluded(CASE spec.kind = "group" -> resolve(spec.group)
                     [] spec.kind = "name" -> <<spec.name>>
                     [] OTHER -> << >>, exclude)

\* The names one end of a connection stands for.  The test for a wildcard is
\* true of every string, so whatever is no group is matched against the
\* instance names, which contain no port.
Names(frame, spec, exclude) ==
    LET matched == {n \in DOMAIN frame.objects :
                      \/ spec.kind = "name" /\ spec.name = [module |-> n, port |-> NoPort]
                      \/ spec.kind = "pattern" /\ n \in spec.matches}
    IN  filterExcluded(IF spec.kind = "group" THEN resolve(spec.group)
                       ELSE SetToSeq({[module |-> n, port |-> NoPort] : n \in matched}), exclude)

\* PortManager::getUpstreamPort, getDownstreamPort by label: the last port
\* added under a label hides the others.
Ports(frame, name, side) ==
    {<<d.object, CHOOSE i \in DOMAIN heap[d.object][side] :
                    /\ heap[d.object][side][i].label = d.label
                    /\ \A j \in DOMAIN heap[d.object][side] :
                          heap[d.object][side][j].label = d.label => j <= i>> :
        d \in {e \in Denoted(frame, name) :
                  /\ e.label # NoPort
                  /\ \E i \in DOMAIN heap[e.object][side] : heap[e.object][side][i].label = e.label}}

AllPorts(names, side) == UNION {Ports(top, names[k], side) : k \in DOMAIN names}
LastPort(names, side) ==
    CHOOSE p \in AllPorts(names, side) :
        \E k \in DOMAIN names :
            /\ p \in Ports(top, names[k], side)
            /\ \A j \in DOMAIN names : k < j => Ports(top, names[j], side) = {}

setPeer(objects, side, ports, peer) ==
    [id \in DOMAIN objects |->
        [objects[id] EXCEPT ![side] =
            [i \in DOMAIN @ |-> IF <<id, i>> \in ports THEN [@[i] EXCEPT !.peer = peer]
                                ELSE @[i]]]]

\* Mutant: only the masters learn of the pairs.
bindMasters(objects, srcs, dsts) ==
    IF AllPorts(srcs, "down") = {} \/ AllPorts(dsts, "up") = {} THEN objects
    ELSE setPeer(objects, "down", AllPorts(srcs, "down"), LastPort(dsts, "up"))

\* A PortPair for each source and each destination, sources in the outer loop.
\* Its constructor binds both ends, so each port keeps the last peer it gets.
bind(objects, srcs, dsts) ==
    IF AllPorts(srcs, "down") = {} \/ AllPorts(dsts, "up") = {} THEN objects
    ELSE setPeer(setPeer(objects, "down", AllPorts(srcs, "down"), LastPort(dsts, "up")),
                 "up", AllPorts(dsts, "up"), LastPort(srcs, "down"))

Connect ==
    /\ InLoop("connect")
    /\ LET srcs == Names(top, Connection.src, Connection.exclude)
           dsts == Names(top, Connection.dst, Connection.exclude)
           null == \/ \E k \in DOMAIN srcs : ThroughNull(top, srcs[k])
                   \/ DOMAIN srcs # {} /\ \E l \in DOMAIN dsts : ThroughNull(top, dsts[l])
       IN \/ null /\ Crash
          \/ /\ ~null
             /\ heap' = bind(heap, srcs, dsts)
             /\ Continue(Advanced(top))
             /\ UNCHANGED <<registries, groups, instances, call, started, completed, calls>>

\* SimModule::parsePortConfigs, on what instantiate was given.
Exposed(arg) == IF arg.kind = "object" THEN arg.config.outputs \o arg.config.inputs ELSE << >>

Return ==
    /\ InPhase("connect") /\ top.i > Items
    /\ completed' = completed \cup {top}
    /\ LET rest == Tail(stack)
           shadowed == top.redefined \cup DOMAIN top.config.groups
       IN IF rest = << >>
          THEN /\ stack' = << >>
               /\ call' = [call EXCEPT !.status = "returned"]
               /\ UNCHANGED heap
          ELSE /\ stack' = <<[Head(rest) EXCEPT !.redefined = @ \cup shadowed]>> \o Tail(rest)
               /\ heap' = [heap EXCEPT ![top.self].exposed = @ \o Exposed(top.arg)]
               /\ UNCHANGED call
    /\ UNCHANGED <<registries, groups, instances, started, calls>>

\* ModuleFactory::startAllTicks, after a call that returned
startAllTicks ==
    /\ call.status = "returned"
    /\ started' = started \cup {instances[n] : n \in DOMAIN instances}
    /\ call' = [call EXCEPT !.status = "started"]
    /\ UNCHANGED <<registries, groups, heap, instances, stack, completed, calls>>

-----------------------------------------------------------------------------
(* Specification *)

\* One step of a call in progress.
Step == \/ \E loaded \in SUBSET DOMAIN PluginTypes : LoadPlugins(loaded)
        \/ CreateModule \/ CreateObject \/ CreateNothing
        \/ DefineGroups
        \/ SkipInternal \/ EnterInternal \/ NamelessInternal
        \/ CreatePorts
        \/ Connect
        \/ EndLoop \/ Return

Next == \/ \E r \in ObjectTypes : registerObject(r[1], r[2])
        \/ \E r \in ModuleTypes : registerModule(r[1], r[2])
        \/ \E r \in ObjectTypes : unregisterObject(r[1])
        \/ \E r \in ModuleTypes : unregisterModule(r[1])
        \/ clearAllTypes
        \/ \E arg \in Args : Call(arg)
        \/ Step
        \/ startAllTicks

Spec == Init /\ [][Next]_vars

\* Once entered, instantiateAll is the only code that executes.
FairSpec == Spec /\ WF_vars(Step)

-----------------------------------------------------------------------------
(* What holds *)

Frames == completed \cup {stack[k] : k \in DOMAIN stack}
Created(frame) == {frame.objects[n] : n \in DOMAIN frame.objects}
PortRefs(id, side) == {<<id, i>> : i \in DOMAIN heap[id][side]}
Bound(side) == {p \in UNION {PortRefs(id, side) : id \in DOMAIN heap} :
                   heap[p[1]][side][p[2]].peer # << >>}

\* A port is bound only in a configuration with a connection from a group to
\* a group: every other kind of name is matched against instance names
\* (module_factory.cc:268, 280), and an instance name names no port.
ThroughGroupsOnly ==
    \A frame \in Frames :
        (\A k \in DOMAIN frame.config.connections :
            \/ frame.config.connections[k].src.kind # "group"
            \/ frame.config.connections[k].dst.kind # "group")
        => \A p \in Bound("down") \cup Bound("up") : p[1] \notin Created(frame)

\* The connections of a call are resolved with the groups of its own
\* configuration, except those that a nested configuration has redefined
\* since (the group table is static, module_group.hh:12).
GroupsOfOwnFile ==
    Running /\ Phases[top.phase] \in {"internal", "ports", "connect"}
    => \A g \in DOMAIN top.config.groups \ top.redefined :
          g \in DOMAIN groups /\ groups[g] = top.config.groups[g]

\* Every module that a name can lead to, with its exposed ports, is an
\* instance of that name, unless a later entry has taken the name.
ModuleIsObject ==
    \A frame \in Frames : \A n \in DOMAIN frame.modules :
        frame.modules[n] # Null
        => /\ n \in DOMAIN frame.objects
           /\ \/ frame.objects[n] = frame.modules[n]
              \/ \E j, k \in DOMAIN frame.config.modules :
                    /\ j < k
                    /\ frame.config.modules[j].name = n /\ frame.config.modules[k].name = n

\* instantiateAll follows a null pointer for two reasons only: the layout of
\* an entry whose type is unknown (module_factory.cc:72), and a connection
\* to a port of an entry with a "config" that is no SimModule, for which the
\* lookup at module_factory.cc:96 left a null module (141, 189, 299, 324).
Mentions(connection, name) ==
    \E spec \in {connection.src, connection.dst} :
        \/ spec.kind = "name" /\ spec.name.module = name /\ spec.name.port # NoPort
        \/ /\ spec.kind = "group" /\ spec.group \in DOMAIN groups
           /\ \E k \in DOMAIN groups[spec.group] : groups[spec.group][k].module = name
CrashCause ==
    call.status = "crashed"
    => \/ /\ Phases[top.phase] = "create"
          /\ Entry.layout /\ Entry.type \notin DOMAIN module_registry \cup DOMAIN object_registry
       \/ /\ Phases[top.phase] \in {"ports", "connect"}
          /\ \E k \in DOMAIN top.config.modules :
                LET entry == top.config.modules[k] IN
                /\ entry.config # Absent /\ Mentions(Connection, entry.name)
                /\ entry.name \in DOMAIN top.objects
                      => heap[top.objects[entry.name]].class \notin ModuleClasses

\* A port is never left half connected: the peer of a bound port is bound,
\* and belongs to an instance of the same configuration.
BoundTogether ==
    \A side \in {"up", "down"} : \A p \in Bound(side) :
        LET peer == heap[p[1]][side][p[2]].peer IN
        /\ peer \in Bound(IF side = "up" THEN "down" ELSE "up")
        /\ \E frame \in Frames : {p[1], peer[1]} \subseteq Created(frame)

\* instantiateAll ends, by return, exception or crash, when no file leads
\* back to itself.
Terminates == Running ~> ~Running

-----------------------------------------------------------------------------
(* What the documents and tests say, and the code does not *)

\* test/test_module_registration.cc:56 and main.cpp: instantiateAll takes a
\* configuration object.
ObjectIsAccepted == call.status = "threw" => call.arg.kind # "object"

\* README.md:14: every module is ticked in every cycle, that is, after
\* startAllTicks each instance has been started.
AllStarted ==
    call.status = "started"
    => \A frame \in completed :
          frame.self = Null /\ frame.arg = call.arg => Created(frame) \subseteq started
=============================================================================
