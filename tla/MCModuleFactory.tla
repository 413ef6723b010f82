-------------------------- MODULE MCModuleFactory --------------------------
EXTENDS ModuleFactory

MCObjectTypes == {<<"Leaf", "leaf">>, <<"Eager", "eager">>}
MCModuleTypes == {<<"Cluster", "cluster">>}
MCPluginTypes == [lib |-> {<<"Extra", "extra">>}]
MCEagerClasses == {"eager"}

Instance(name, type) == [name |-> name, type |-> type, config |-> Absent, layout |-> FALSE]
Nested(name, type, file) == [Instance(name, type) EXCEPT !.config = file]
Placed(name, type) == [Instance(name, type) EXCEPT !.layout = TRUE]

Name(module, port) == [module |-> module, port |-> port]
ByName(module, port) == [kind |-> "name", name |-> Name(module, port)]
ByGroup(group) == [kind |-> "group", group |-> group]
ByPattern(matches) == [kind |-> "pattern", matches |-> matches]
Connected(src, dst) == [src |-> src, dst |-> dst, exclude |-> {},
                        output_buffer_sizes |-> << >>, input_buffer_sizes |-> << >>]

Nothing == [plugin |-> {}, modules |-> << >>, groups |-> << >>, connections |-> << >>,
            outputs |-> << >>, inputs |-> << >>]
AsObject(config) == [kind |-> "object", config |-> config]
AsPath(path) == [kind |-> "path", path |-> path]

\* Two masters and a slave; plain connections create the ports, the group
\* connection binds them.
Fan == [Nothing EXCEPT
    !.modules = <<Instance("m1", "Eager"), Instance("m2", "Eager"), Instance("s", "Eager")>>,
    !.groups = [ms |-> <<Name("m1", "out"), Name("m2", "out"), Name("s", "out")>>,
                ss |-> <<Name("s", "in"), Name("m1", NoPort)>>],
    !.connections = <<
        [Connected(ByName("m1", "out"), ByName("s", "in")) EXCEPT !.output_buffer_sizes = <<8, 4>>],
        Connected(ByName("m2", "out"), ByName("s", NoPort)),
        [Connected(ByGroup("ms"), ByGroup("ss")) EXCEPT !.exclude = {Name("s", "out")}],
        Connected(ByGroup("none"), ByGroup("ss"))>>]

\* No groups: a pattern and plain names, a module without port manager, an
\* incomplete entry.
Flat == [Nothing EXCEPT
    !.modules = <<Instance("m1", "Eager"), Instance("s", "Eager"), Instance("l", "Leaf"),
                  Instance(Absent, "Leaf")>>,
    !.connections = <<Connected(ByPattern({"m1"}), ByName("s", NoPort)),
                      Connected(ByName("m1", "out"), ByName("s", "in")),
                      Connected(ByName("m1", "out"), ByName("l", "in"))>>]

\* The configuration of test/test_connection_resolution.cc.
Wild == [Nothing EXCEPT
    !.modules = <<Instance("cpu0", "Eager"), Instance("cpu1", "Eager"), Instance("l1", "Eager")>>,
    !.connections = <<Connected(ByPattern({"cpu0", "cpu1"}), ByName("l1", NoPort))>>]

\* A cluster whose file names another file, which redefines one group of the
\* outer configuration; the outer connection goes to a port of the cluster.
Outer == [Nothing EXCEPT
    !.modules = <<Nested("c", "Cluster", "toInner"), Instance("m", "Eager"),
                  Nested("c2", "Cluster", "missing")>>,
    !.groups = [g |-> <<Name("m", "out")>>, h |-> <<Name("c", "in")>>],
    !.connections = <<Connected(ByName("m", "out"), ByName("c", "in")),
                      Connected(ByGroup("g"), ByGroup("h"))>>]
Inner == [Nothing EXCEPT
    !.plugin = {"lib"},
    !.modules = <<Instance("m", "Eager"), Instance("x", "Extra")>>,
    !.groups = [g |-> <<Name("m", "out")>>],
    !.outputs = <<[internal |-> Name("m", "out"), external |-> "in"]>>]

\* A cluster whose file holds its configuration.
Cluster == [Nothing EXCEPT !.modules = <<Nested("c", "Cluster", "inner")>>]

\* An object that has a "config", and a connection to one of its ports.
Odd == [Nothing EXCEPT
    !.modules = <<Nested("l", "Leaf", "inner"), Instance("m", "Eager")>>,
    !.groups = [g |-> <<Name("l", "in")>>],
    !.connections = <<Connected(ByGroup("g"), ByName("m", "out")),
                      Connected(ByName("m", "out"), ByName("l", "in"))>>]
OddByGroup == [Odd EXCEPT
    !.groups = [g |-> <<Name("l", "in")>>, h |-> <<Name("m", "out")>>],
    !.connections = <<Connected(ByGroup("h"), ByGroup("g"))>>]

\* An unknown type with a layout, and a name used twice.
Ghost == [Nothing EXCEPT !.modules = <<Placed("m", "Eager"), Placed("g", "Ghost")>>]
Twice == [Nothing EXCEPT
    !.modules = <<Nested("c", "Cluster", "toInner"), Placed("c", "Leaf"), Placed("c", "Ghost")>>,
    !.connections = <<Connected(ByName("c", "in"), ByName("c", "out"))>>]
Unnamed == [Nothing EXCEPT !.modules = <<Nested(Absent, "Leaf", "inner")>>]

MCFiles == [fan |-> AsObject(Fan), flat |-> AsObject(Flat), wild |-> AsObject(Wild),
            outer |-> AsObject(Outer),
            inner |-> AsObject(Inner), cluster |-> AsObject(Cluster), odd |-> AsObject(Odd),
            oddByGroup |-> AsObject(OddByGroup), ghost |-> AsObject(Ghost),
            twice |-> AsObject(Twice), unnamed |-> AsObject(Unnamed),
            toInner |-> AsPath("inner")]

Paths == DOMAIN MCFiles \cup {"missing"}
MCArgs == {AsPath(p) : p \in Paths} \cup {AsObject(Flat)}
=============================================================================
