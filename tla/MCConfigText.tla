---------------------------- MODULE MCConfigText ----------------------------
EXTENDS ConfigText, TLC

Main == <<"main">>
Decoy == <<"more">>
Base == <<"lib", "base">>
More == <<"lib", "more">>
MCFiles == {Main, Decoy, Base, More}

Entry(k, v) == {<< >>, k :> v}
Include(path) == "include" :> [text |-> path]
Own(path) == Entry("x", [text |-> path])
Sub(path, targets) ==
    {<< >>} \cup {"sub" :> [object |-> o] :
                     o \in {"x" :> [text |-> path]} \cup {Include(t) : t \in targets}}
            \cup {"list" :> [items |-> ("0" :> [text |-> path]) @@ ("1" :> [object |-> Include(t)])] :
                     t \in targets}
Document(path, targets) ==
    {a @@ b @@ c : a \in Own(path), b \in {<< >>} \cup {Include(t) : t \in targets},
                   c \in Sub(path, targets)}

\* A file at the top with a decoy beside it, a library file it includes, and a
\* third one that may be missing or lead back.
MCDisks ==
    {(Main :> m) @@ (Base :> b) @@ (Decoy :> d) @@ (More :> l) :
        m \in Document(Main, {Base, Decoy}),
        b \in Document(Base, {Decoy, <<"absent">>}),
        d \in {None, "x" :> [text |-> Decoy], Include(Base)},
        l \in {None, "x" :> [text |-> More], Include(<<"base">>)}}
=============================================================================
