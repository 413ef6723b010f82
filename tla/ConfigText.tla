----------------------------- MODULE ConfigText -----------------------------
(***************************************************************************)
(* What a configuration says, before modules are made of it: the include   *)
(* directives of its files (include/utils/json_includer.hh) and the        *)
(* patterns of its connections (Wildcard.tla).  Both are functions of      *)
(* their arguments; a step calls one of them on any of the inputs, and the *)
(* properties compare the result with a definition that does not follow    *)
(* the code.                                                               *)
(*                                                                         *)
(* A path is the sequence of its components, a JSON object the function    *)
(* from its keys to values; a value is a scalar, [text |-> s], a nested    *)
(* object, [object |-> o], or an array, [items |-> f] with a function from *)
(* its indices, which are strings here.  Patterns and names are sequences  *)
(* of characters.                                                          *)
(***************************************************************************)
EXTENDS Naturals, Sequences, FiniteSets, Wildcard

CONSTANTS Files,                    \* paths that exist or are referred to
          Disks,                    \* what may be in them; None: no such file
          None,
          Letters,                  \* characters that mean themselves
          MaxPattern, MaxName       \* bounds: lengths of patterns and names

ASSUME TextAssumption == /\ \A disk \in Disks : DOMAIN disk = Files
                         /\ {"*", "?", ".", "[", "any", "broken"} \cap Letters = {}
                         /\ {MaxPattern, MaxName} \subseteq Nat

VARIABLES call, result              \* the latest call and what it returned

vars == <<call, result>>

Strings(n, chars) == UNION {[1 .. k -> chars] : k \in 0 .. n}
Pattern == Strings(MaxPattern, Letters \cup {"*", "?", ".", "["})
Name == Strings(MaxName, Letters \cup {"."})

Init == call = None /\ result = None

-----------------------------------------------------------------------------
(* JsonIncluder *)

\* An exception, or recursion that does not end.
Failed == [failed |-> TRUE]

Directory(path) == SubSeq(path, 1, Len(path) - 1)
IsObject(value) == "object" \in DOMAIN value
IsArray(value) == "items" \in DOMAIN value

\* Mutants: included keys replace those of the node; the directive stays.
mergeOver(included, node) ==
    [k \in (DOMAIN node \cup DOMAIN included) \ {"include"} |->
        IF k \in DOMAIN included THEN included[k] ELSE node[k]]
mergeKept(included, node) ==
    [k \in DOMAIN node \cup DOMAIN included |->
        IF k \in DOMAIN node THEN node[k] ELSE included[k]]

\* The merge in processIncludes.
merge(included, node) ==
    [k \in (DOMAIN node \cup DOMAIN included) \ {"include"} |->
        IF k \in DOMAIN node THEN node[k] ELSE included[k]]

RECURSIVE loadAndInclude(_, _, _), processIncludes(_, _, _, _), processValue(_, _, _, _)

\* `active' are the files being loaded: a file that is loaded for the sake of
\* itself is loaded again for ever.
loadAndInclude(disk, path, active) ==
    IF path \notin Files \/ path \in active THEN Failed
    ELSE IF disk[path] = None THEN Failed
    ELSE processIncludes(disk, disk[path], path, active \cup {path})

\* Mutant: children are resolved in the working directory.
baseOfChildrenLost(base_path) == <<"">>

baseOfChildren(base_path) == base_path

\* processIncludes of an object, and of any value.
processIncludes(disk, node, base_path, active) ==
    LET included == IF "include" \in DOMAIN node
                    THEN loadAndInclude(disk, Directory(base_path) \o node["include"].text,
                                        active)
                    ELSE << >>
        merged == merge(included, node)
        children == [k \in DOMAIN merged |->
                        processValue(disk, merged[k], baseOfChildren(base_path), active)]
    IN IF included = Failed \/ \E k \in DOMAIN merged : children[k] = Failed
       THEN Failed ELSE children

processValue(disk, value, base_path, active) ==
    IF IsObject(value)
    THEN LET o == processIncludes(disk, value.object, base_path, active)
         IN IF o = Failed THEN Failed ELSE [object |-> o]
    ELSE IF IsArray(value)
    THEN LET items == [i \in DOMAIN value.items |->
                          processValue(disk, value.items[i], base_path, active)]
         IN IF \E i \in DOMAIN items : items[i] = Failed THEN Failed ELSE [items |-> items]
    ELSE value

Load(disk, path) == /\ call' = [do |-> "load", disk |-> disk, path |-> path]
                    /\ result' = loadAndInclude(disk, path, {})

-----------------------------------------------------------------------------
(* Wildcard *)

Match(pattern, str, lenient) ==
    /\ call' = [do |-> "match", pattern |-> pattern, str |-> str, lenient |-> lenient]
    /\ result' = match(pattern, str, lenient)

-----------------------------------------------------------------------------
Next == /\ call = None
        /\ \/ \E disk \in Disks, path \in Files : Load(disk, path)
           \/ \E pattern \in Pattern, str \in Name, lenient \in BOOLEAN :
                 Match(pattern, str, lenient)

Spec == Init /\ [][Next]_vars

-----------------------------------------------------------------------------
(* Properties *)

\* Include directives, at any depth of an object.
RECURSIVE Includes(_)
Includes(node) ==
    LET within(value) == IF IsObject(value) THEN Includes(value.object)
                         ELSE IF IsArray(value) THEN Includes(value.items) ELSE {}
    IN {node[k].text : k \in DOMAIN node \cap {"include"}}
       \cup UNION {within(node[k]) : k \in DOMAIN node}

\* The files that a file names, and those it leads to in n steps or fewer.
Named(disk, path) == IF path \notin Files THEN {}
                     ELSE IF disk[path] = None THEN {}
                     ELSE {Directory(path) \o text : text \in Includes(disk[path])}
LeadsTo(disk, path, n) ==
    LET in[k \in 1 .. n] == IF k = 1 THEN Named(disk, path)
                            ELSE in[k - 1] \cup UNION {Named(disk, f) : f \in in[k - 1]}
    IN in[n]
Everywhere(disk, path) == LeadsTo(disk, path, Cardinality(Files) + 1)

\* What stands at a list of keys and indices, when every object is asked first
\* itself and then the file it includes.
RECURSIVE Lookup(_, _, _, _)
Lookup(disk, path, node, keys) ==
    LET k == Head(keys)
        next == Directory(path) \o node["include"].text
    IN CASE k \in DOMAIN node /\ Len(keys) = 1 ->
              IF IsObject(node[k]) THEN "object" ELSE IF IsArray(node[k]) THEN "array" ELSE node[k]
         [] k \in DOMAIN node /\ Len(keys) > 1 ->
              IF IsObject(node[k]) THEN Lookup(disk, path, node[k].object, Tail(keys))
              ELSE IF IsArray(node[k]) THEN Lookup(disk, path, node[k].items, Tail(keys))
              ELSE "absent"
         [] k \notin DOMAIN node /\ "include" \in DOMAIN node ->
              Lookup(disk, next, disk[next], keys)
         [] OTHER -> "absent"

Keys == {<<"x">>, <<"sub">>, <<"sub", "x">>, <<"sub", "sub">>, <<"list">>,
         <<"list", "0", "x">>, <<"list", "1", "x">>}

\* Loading fails exactly if a file that is named somewhere, in an overridden
\* value too, does not exist or leads back to itself (JsonIncluder).
LoadFails ==
    call # None /\ call.do = "load" =>
        LET all == {call.path} \cup Everywhere(call.disk, call.path)
        IN result = Failed <=> \E f \in all : \/ f \notin Files
                                              \/ call.disk[f] = None
                                              \/ f \in Everywhere(call.disk, f)

\* The merged configuration holds at every key what the file itself says
\* there, else the file it includes says, and so on, at any depth, each file
\* looking for others in its own directory; no directive is left
\* (JsonIncluder::processIncludes).
NearestWins ==
    call # None /\ call.do = "load" /\ result # Failed =>
        /\ \A keys \in Keys : Lookup(call.disk, call.path, result, keys)
                             = Lookup(call.disk, call.path, call.disk[call.path], keys)
        /\ Includes(result) = {}

\* Wildcard::match does what users expect of patterns, but for those that
\* FollowsGlob names (Wildcard::match).
MatchesGlob ==
    call # None /\ call.do = "match" =>
        FollowsGlob(call.pattern, call.str, call.lenient, result)
=============================================================================
