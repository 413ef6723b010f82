------------------------------ MODULE Wildcard ------------------------------
(***************************************************************************)
(* Whether a name matches a pattern (include/utils/wildcard.hh), and what  *)
(* a user expects of it.  Patterns and names are sequences of characters.  *)
(* The pattern becomes a regular expression: a sequence of terms, each for *)
(* one character or, if `many', for any number of any characters.          *)
(***************************************************************************)
EXTENDS Naturals, Sequences

AnyOne == [char |-> "any", many |-> FALSE]
AnyMany == [char |-> "any", many |-> TRUE]
Literal(c) == [char |-> c, many |-> FALSE]
Broken == [char |-> "broken", many |-> FALSE]

\* Mutant: the character after a star is lost.
verbatimLost(c, lenient) == << >>

\* What character c means in a regular expression that stands behind ".*": a
\* second star is a repetition of the repetition, if the library accepts that
\* (`lenient', libstdc++ does), a question mark makes the first one lazy.
verbatim(c, lenient) == CASE c = "*" -> IF lenient THEN << >> ELSE <<Broken>>
                          [] c = "?" -> << >>
                          [] c = "." -> <<AnyOne>>
                          [] c = "[" -> <<Broken>>
                          [] OTHER   -> <<Literal(c)>>

replaced(c, lenient) == CASE c = "?" -> <<AnyOne>>
                          [] OTHER   -> verbatim(c, lenient)

\* The loop of Wildcard::match: having replaced a star by two characters it
\* goes on three characters further, so it leaves out the one behind the star.
regex(pattern, lenient) ==
    LET from[i \in 1 .. Len(pattern) + 2] ==
            IF i > Len(pattern) THEN << >>
            ELSE IF pattern[i] # "*" THEN replaced(pattern[i], lenient) \o from[i + 1]
            ELSE IF i = Len(pattern) THEN <<AnyMany>>
            ELSE <<AnyMany>> \o verbatim(pattern[i + 1], lenient) \o from[i + 2]
    IN from[1]

\* std::regex_match: from the positions in at[i] the string matches the terms
\* from the i-th on.
regex_match(terms, str) ==
    LET at[i \in 1 .. Len(terms) + 1] ==
            IF i > Len(terms) THEN {Len(str) + 1}
            ELSE IF terms[i].many
            THEN {j \in 1 .. Len(str) + 1 : \E k \in j .. Len(str) + 1 : k \in at[i + 1]}
            ELSE {j \in 1 .. Len(str) : terms[i].char \in {"any", str[j]} /\ j + 1 \in at[i + 1]}
    IN 1 \in at[1]

\* Wildcard::match: an expression that is not one matches literally.
match(pattern, str, lenient) ==
    LET terms == regex(pattern, lenient)
    IN IF \E i \in DOMAIN terms : terms[i] = Broken THEN pattern = str
       ELSE regex_match(terms, str)

-----------------------------------------------------------------------------
\* File-name matching as users know it: a star stands for any characters, a
\* question mark for one.
Glob(pattern, str) ==
    LET at[i \in 1 .. Len(pattern) + 1] ==
            IF i > Len(pattern) THEN {Len(str) + 1}
            ELSE IF pattern[i] = "*"
            THEN {j \in 1 .. Len(str) + 1 : \E k \in j .. Len(str) + 1 : k \in at[i + 1]}
            ELSE {j \in 1 .. Len(str) : pattern[i] \in {"?", str[j]} /\ j + 1 \in at[i + 1]}
    IN 1 \in at[1]

\* The characters of `part' follow each other somewhere in the pattern.
HasPart(pattern, part) ==
    \E i \in 0 .. Len(pattern) - Len(part) :
       \A k \in 1 .. Len(part) : pattern[i + k] = part[k]

\* A result is the one expected: a pattern matches every name it should, and
\* another only because of a dot, which stands for any character, or of a
\* question mark behind a star, which the loop leaves out.  Patterns with a
\* bracket, and with two adjacent stars on a library that refuses them, are no
\* expressions.
FollowsGlob(pattern, str, lenient, result) ==
    \/ HasPart(pattern, <<"[">>)
    \/ ~lenient /\ HasPart(pattern, <<"*", "*">>)
    \/ /\ Glob(pattern, str) => result
       /\ result => \/ Glob(pattern, str)
                    \/ HasPart(pattern, <<".">>)
                    \/ HasPart(pattern, <<"*", "?">>)
=============================================================================
