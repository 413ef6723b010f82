---------------------------- MODULE SequenceFacts ----------------------------
(***************************************************************************)
(* Facts that the proofs of several modules need, about sequences (the     *)
(* buffers of ports and modules hold each packet once, and in order),      *)
(* loops and sums.                                                         *)
(***************************************************************************)
EXTENDS Integers, Sequences, FiniteSets, Functions, FiniteSetTheorems, TLAPS

\* Appending x puts it into the range, and repeats nothing if x is new.
LEMMA AppendOnce ==
    ASSUME NEW S, NEW q \in Seq(S), NEW x \in S
    PROVE  /\ Range(Append(q, x)) = Range(q) \cup {x}
           /\ IsInjective(q) /\ x \notin Range(q) => IsInjective(Append(q, x))
  <1>1. /\ DOMAIN q = 1 .. Len(q) /\ Len(q) \in Nat
        /\ DOMAIN Append(q, x) = 1 .. Len(q) + 1
        /\ Append(q, x)[Len(q) + 1] = x
        /\ \A i \in 1 .. Len(q) : Append(q, x)[i] = q[i]
    OBVIOUS
  <1>2. Range(Append(q, x)) = Range(q) \cup {x}
    BY <1>1 DEF Range
  <1>3. ASSUME IsInjective(q), x \notin Range(q)
        PROVE  IsInjective(Append(q, x))
    BY <1>1, <1>3 DEF Range, IsInjective
  <1>. QED
    BY <1>2, <1>3

\* The tail has lost the head, if it was there once.
LEMMA TailOnce ==
    ASSUME NEW S, NEW q \in Seq(S), q # << >>
    PROVE  /\ Head(q) \in Range(q) /\ Range(Tail(q)) \subseteq Range(q)
           /\ Range(q) = Range(Tail(q)) \cup {Head(q)}
           /\ IsInjective(q) => /\ IsInjective(Tail(q))
                                /\ Head(q) \notin Range(Tail(q))
  <1>1. /\ DOMAIN q = 1 .. Len(q) /\ Len(q) \in Nat \ {0}
        /\ DOMAIN Tail(q) = 1 .. Len(q) - 1
        /\ Head(q) = q[1]
        /\ \A i \in 1 .. Len(q) - 1 : Tail(q)[i] = q[i + 1]
    OBVIOUS
  <1>2. Head(q) \in Range(q) /\ Range(Tail(q)) \subseteq Range(q)
    BY <1>1 DEF Range
  <1>3. Range(q) \subseteq Range(Tail(q)) \cup {Head(q)}
    <2>1. SUFFICES ASSUME NEW i \in 1 .. Len(q), i # 1
                   PROVE  q[i] \in Range(Tail(q))
      BY <1>1 DEF Range
    <2>2. i - 1 \in 1 .. Len(q) - 1 /\ Tail(q)[i - 1] = q[i]
      BY <1>1, <2>1
    <2>. QED
      BY <1>1, <2>2 DEF Range
  <1>4. ASSUME IsInjective(q)
        PROVE  IsInjective(Tail(q)) /\ Head(q) \notin Range(Tail(q))
    BY <1>1, <1>4 DEF Range, IsInjective
  <1>. QED
    BY <1>2, <1>3, <1>4

\* A concatenation repeats nothing when its parts do not and share nothing.
LEMMA ConcatOnce ==
    ASSUME NEW S, NEW q \in Seq(S), NEW r \in Seq(S)
    PROVE  /\ Range(q \o r) = Range(q) \cup Range(r)
           /\ IsInjective(q \o r) <=> /\ IsInjective(q) /\ IsInjective(r)
                                      /\ Range(q) \cap Range(r) = {}
  <1>1. /\ DOMAIN q = 1 .. Len(q) /\ Len(q) \in Nat
        /\ DOMAIN r = 1 .. Len(r) /\ Len(r) \in Nat
        /\ DOMAIN (q \o r) = 1 .. Len(q) + Len(r)
        /\ \A i \in 1 .. Len(q) : (q \o r)[i] = q[i]
        /\ \A i \in 1 .. Len(r) : (q \o r)[Len(q) + i] = r[i]
    OBVIOUS
  <1>2. ASSUME NEW k \in 1 .. Len(q) + Len(r)
        PROVE  \/ k \in 1 .. Len(q)
               \/ \E i \in 1 .. Len(r) : k = Len(q) + i
    <2>1. CASE k > Len(q)
      <3>1. k - Len(q) \in 1 .. Len(r) /\ k = Len(q) + (k - Len(q))
        BY <1>1, <2>1
      <3>. QED
        BY <3>1
    <2>. QED
      BY <1>1, <2>1
  <1>3. Range(q \o r) = Range(q) \cup Range(r)
    <2>1. Range(q \o r) \subseteq Range(q) \cup Range(r)
      <3>1. ASSUME NEW k \in 1 .. Len(q) + Len(r)
            PROVE  (q \o r)[k] \in Range(q) \cup Range(r)
        <4>1. CASE k \in 1 .. Len(q)
          BY <1>1, <4>1 DEF Range
        <4>2. CASE \E i \in 1 .. Len(r) : k = Len(q) + i
          BY <1>1, <4>2 DEF Range
        <4>. QED
          BY <1>2, <4>1, <4>2
      <3>. QED
        BY <1>1, <3>1 DEF Range
    <2>2. \A i \in 1 .. Len(r) : Len(q) + i \in 1 .. Len(q) + Len(r)
      BY <1>1
    <2>3. Range(q) \subseteq Range(q \o r)
      BY <1>1 DEF Range
    <2>4. ASSUME NEW i \in 1 .. Len(r)
          PROVE  r[i] \in Range(q \o r)
      BY <1>1, <2>2 DEF Range
    <2>5. Range(r) \subseteq Range(q \o r)
      BY <1>1, <2>4 DEF Range
    <2>. QED
      BY <2>1, <2>3, <2>5
  <1>4. ASSUME IsInjective(q), IsInjective(r), Range(q) \cap Range(r) = {}
        PROVE  IsInjective(q \o r)
    <2>1. SUFFICES ASSUME NEW j \in 1 .. Len(q) + Len(r), NEW k \in 1 .. Len(q) + Len(r),
                          (q \o r)[j] = (q \o r)[k]
                   PROVE  j = k
      BY <1>1 DEF IsInjective
    <2>2. CASE j \in 1 .. Len(q) /\ k \in 1 .. Len(q)
      BY <1>1, <1>4, <2>1, <2>2 DEF IsInjective
    <2>3. ASSUME NEW m \in 1 .. Len(q), NEW i \in 1 .. Len(r)
          PROVE  (q \o r)[m] # (q \o r)[Len(q) + i]
      <3>1. (q \o r)[m] \in Range(q) /\ (q \o r)[Len(q) + i] \in Range(r)
        BY <1>1 DEF Range
      <3>. QED
        BY <1>4, <3>1
    <2>4. CASE j \in 1 .. Len(q) /\ k \notin 1 .. Len(q)
      BY <1>2, <2>1, <2>3, <2>4
    <2>5. CASE j \notin 1 .. Len(q) /\ k \in 1 .. Len(q)
      BY <1>2, <2>1, <2>3, <2>5
    <2>6. CASE j \notin 1 .. Len(q) /\ k \notin 1 .. Len(q)
      <3>1. PICK i \in 1 .. Len(r), m \in 1 .. Len(r) : j = Len(q) + i /\ k = Len(q) + m
        BY <1>2, <2>6
      <3>2. r[i] = r[m]
        BY <1>1, <2>1, <3>1
      <3>. QED
        BY <1>1, <1>4, <3>1, <3>2 DEF IsInjective
    <2>. QED
      BY <2>2, <2>4, <2>5, <2>6
  <1>5. ASSUME IsInjective(q \o r)
        PROVE  IsInjective(q) /\ IsInjective(r) /\ Range(q) \cap Range(r) = {}
    <2>1. \A i \in 1 .. Len(q) : i \in 1 .. Len(q) + Len(r)
      BY <1>1
    <2>2. \A i \in 1 .. Len(r) : Len(q) + i \in 1 .. Len(q) + Len(r)
      BY <1>1
    <2>3. IsInjective(q)
      BY <1>1, <1>5, <2>1 DEF IsInjective
    <2>4. IsInjective(r)
      <3>1. SUFFICES ASSUME NEW j \in 1 .. Len(r), NEW k \in 1 .. Len(r), r[j] = r[k]
                     PROVE  j = k
        BY <1>1 DEF IsInjective
      <3>2. Len(q) + j = Len(q) + k
        BY <1>1, <1>5, <2>2, <3>1 DEF IsInjective
      <3>. QED
        BY <1>1, <3>2
    <2>5. ASSUME NEW j \in 1 .. Len(q), NEW k \in 1 .. Len(r), q[j] = r[k]
          PROVE  FALSE
      <3>1. j = Len(q) + k
        BY <1>1, <1>5, <2>1, <2>2, <2>5 DEF IsInjective
      <3>. QED
        BY <1>1, <3>1
    <2>. QED
      BY <1>1, <2>3, <2>4, <2>5 DEF Range
  <1>. QED
    BY <1>3, <1>4, <1>5

\* Putting the head behind the others keeps what there is.
LEMMA RotateOnce ==
    ASSUME NEW S, NEW q \in Seq(S), q # << >>
    PROVE  /\ Append(Tail(q), Head(q)) \in Seq(S)
           /\ Len(Append(Tail(q), Head(q))) = Len(q)
           /\ Range(Append(Tail(q), Head(q))) = Range(q)
           /\ IsInjective(q) => IsInjective(Append(Tail(q), Head(q)))
  <1>1. Head(q) \in S /\ Tail(q) \in Seq(S) /\ Len(Tail(q)) = Len(q) - 1
    OBVIOUS
  <1>2. Append(Tail(q), Head(q)) \in Seq(S) /\ Len(Append(Tail(q), Head(q))) = Len(q)
    BY <1>1
  <1>3. /\ Range(q) = Range(Tail(q)) \cup {Head(q)}
        /\ IsInjective(q) => IsInjective(Tail(q)) /\ Head(q) \notin Range(Tail(q))
    BY TailOnce
  <1>4. /\ Range(Append(Tail(q), Head(q))) = Range(Tail(q)) \cup {Head(q)}
        /\ IsInjective(Tail(q)) /\ Head(q) \notin Range(Tail(q))
           => IsInjective(Append(Tail(q), Head(q)))
    BY <1>1, AppendOnce
  <1>. QED
    BY <1>2, <1>3, <1>4

\* So does turning around the second part of a concatenation.
LEMMA RotateSecondOnce ==
    ASSUME NEW S, NEW q \in Seq(S), NEW r \in Seq(S), r # << >>
    PROVE  LET t == Append(Tail(r), Head(r))
           IN /\ Range(q \o t) = Range(q \o r)
              /\ IsInjective(q \o r) => IsInjective(q \o t)
  <1>. DEFINE t == Append(Tail(r), Head(r))
  <1>1. t \in Seq(S) /\ Range(t) = Range(r) /\ (IsInjective(r) => IsInjective(t))
    BY RotateOnce
  <1>. HIDE DEF t
  <1>2. /\ Range(q \o r) = Range(q) \cup Range(r)
        /\ IsInjective(q \o r) <=> /\ IsInjective(q) /\ IsInjective(r)
                                   /\ Range(q) \cap Range(r) = {}
    BY ConcatOnce
  <1>3. /\ Range(q \o t) = Range(q) \cup Range(t)
        /\ IsInjective(q \o t) <=> /\ IsInjective(q) /\ IsInjective(t)
                                   /\ Range(q) \cap Range(t) = {}
    BY <1>1, ConcatOnce
  <1>4. Range(q \o t) = Range(q \o r) /\ (IsInjective(q \o r) => IsInjective(q \o t))
    BY <1>1, <1>2, <1>3
  <1>. QED
    BY <1>4 DEF t

\* What occurs in such a sequence has one place in it.
LEMMA OnePlaceOnly ==
    ASSUME NEW S, NEW q \in Seq(S), IsInjective(q), NEW x
    PROVE  LET places == {i \in DOMAIN q : q[i] = x}
           IN /\ IsFiniteSet(places)
              /\ x \in Range(q) => Cardinality(places) = 1
              /\ x \notin Range(q) => places = {} /\ Cardinality(places) = 0
  <1>. DEFINE places == {i \in DOMAIN q : q[i] = x}
  <1>1. CASE x \in Range(q)
    <2>1. PICK i \in DOMAIN q : q[i] = x
      BY <1>1 DEF Range
    <2>2. places = {i}
      BY <2>1 DEF IsInjective
    <2>. QED
      BY <1>1, <2>2, FS_Singleton
  <1>2. CASE x \notin Range(q)
    <2>1. places = {}
      BY <1>2 DEF Range
    <2>. QED
      BY <1>2, <2>1, FS_EmptySet
  <1>. QED
    BY <1>1, <1>2

\* It is as long as it has elements.
LEMMA LenIsCardinality ==
    ASSUME NEW S, NEW q \in Seq(S), IsInjective(q)
    PROVE  IsFiniteSet(Range(q)) /\ Cardinality(Range(q)) = Len(q)
  <1>1. Len(q) \in Nat /\ DOMAIN q = 1 .. Len(q) /\ q \in [1 .. Len(q) -> Range(q)]
    BY DEF Range
  <1>2. IsFiniteSet(1 .. Len(q)) /\ Cardinality(1 .. Len(q)) = Len(q)
    BY <1>1, FS_Interval
  <1>3. q \in Bijection(1 .. Len(q), Range(q))
    BY <1>1 DEF Bijection, Injection, Surjection, Range, IsInjective
  <1>4. ExistsBijection(1 .. Len(q), Range(q))
    BY <1>3 DEF ExistsBijection
  <1>. QED
    BY <1>2, <1>4, FS_Bijection

\* Moving the head of the second part to the end of the first changes nothing.
LEMMA ConcatMoves ==
    ASSUME NEW S, NEW q \in Seq(S), NEW r \in Seq(S), r # << >>
    PROVE  Append(q, Head(r)) \o Tail(r) = q \o r
  <1>. DEFINE s == Append(q, Head(r)) \o Tail(r)
              t == q \o r
  <1>1. /\ Len(q) \in Nat /\ Len(r) \in Nat \ {0} /\ Head(r) \in S /\ Head(r) = r[1]
        /\ Tail(r) \in Seq(S) /\ Len(Tail(r)) = Len(r) - 1
        /\ \A i \in 1 .. Len(r) - 1 : Tail(r)[i] = r[i + 1]
    OBVIOUS
  <1>2. /\ Append(q, Head(r)) \in Seq(S) /\ Len(Append(q, Head(r))) = Len(q) + 1
        /\ \A i \in 1 .. Len(q) : Append(q, Head(r))[i] = q[i]
        /\ Append(q, Head(r))[Len(q) + 1] = r[1]
    BY <1>1
  <1>3. s \in Seq(S) /\ t \in Seq(S) /\ Len(s) = Len(q) + Len(r) /\ Len(t) = Len(q) + Len(r)
    BY <1>1, <1>2
  <1>4. ASSUME NEW i \in 1 .. Len(q) + Len(r)
        PROVE  s[i] = t[i]
    <2>1. CASE i <= Len(q)
      BY <1>1, <1>2, <2>1
    <2>2. CASE i = Len(q) + 1
      BY <1>1, <1>2, <2>2
    <2>3. CASE i > Len(q) + 1
      <3>1. s[i] = Tail(r)[i - (Len(q) + 1)] /\ i - (Len(q) + 1) \in 1 .. Len(r) - 1
        BY <1>1, <1>2, <2>3
      <3>2. t[i] = r[i - Len(q)] /\ (i - (Len(q) + 1)) + 1 = i - Len(q)
        BY <1>1, <2>3
      <3>. QED
        BY <1>1, <3>1, <3>2
    <2>. QED
      BY <1>1, <2>1, <2>2, <2>3
  <1>. HIDE DEF s, t
  <1>5. s = t
    BY <1>3, <1>4
  <1>. QED
    BY <1>5 DEF s, t

\* With fewer elements than a set it is mapped to one to one, it is no longer.
LEMMA LenBound ==
    ASSUME NEW S, NEW q \in Seq(S), IsInjective(q), NEW T, IsFiniteSet(T),
           NEW f \in [Range(q) -> T], IsInjective(f)
    PROVE  Len(q) <= Cardinality(T)
  <1>1. f \in Injection(Range(q), T)
    BY DEF Injection
  <1>2. Cardinality(Range(q)) <= Cardinality(T)
    BY <1>1, FS_Injection
  <1>. QED
    BY <1>2, LenIsCardinality

-----------------------------------------------------------------------------
(* Sequences in an order, given as the set of pairs that may follow         *)
(* each other at any distance                                               *)

Ordered(q, R) == \A i, j \in DOMAIN q : i < j => <<q[i], q[j]>> \in R

\* Every item of A may precede every item of B.
Precede(A, B, R) == \A x \in A, y \in B : <<x, y>> \in R

LEMMA EmptyOrdered ==
    ASSUME NEW R
    PROVE  Ordered(<< >>, R) /\ Range(<< >>) = {}
  BY DEF Ordered, Range

LEMMA AppendOrdered ==
    ASSUME NEW S, NEW q \in Seq(S), NEW x \in S, NEW R
    PROVE  Ordered(Append(q, x), R) <=> Ordered(q, R) /\ Precede(Range(q), {x}, R)
  <1>1. /\ DOMAIN q = 1 .. Len(q) /\ Len(q) \in Nat
        /\ DOMAIN Append(q, x) = 1 .. Len(q) + 1
        /\ Append(q, x)[Len(q) + 1] = x
        /\ \A i \in 1 .. Len(q) : Append(q, x)[i] = q[i]
    OBVIOUS
  <1>2. ASSUME Ordered(Append(q, x), R)
        PROVE  Ordered(q, R) /\ Precede(Range(q), {x}, R)
    <2>1. Ordered(q, R)
      BY <1>1, <1>2 DEF Ordered
    <2>2. ASSUME NEW i \in 1 .. Len(q)
          PROVE  <<q[i], x>> \in R
      <3>1. i \in 1 .. Len(q) + 1 /\ Len(q) + 1 \in 1 .. Len(q) + 1 /\ i < Len(q) + 1
        BY <1>1
      <3>. QED
        BY <1>1, <1>2, <3>1 DEF Ordered
    <2>. QED
      BY <1>1, <2>1, <2>2 DEF Precede, Range
  <1>3. ASSUME Ordered(q, R), Precede(Range(q), {x}, R)
        PROVE  Ordered(Append(q, x), R)
    <2>1. SUFFICES ASSUME NEW i \in 1 .. Len(q) + 1, NEW j \in 1 .. Len(q) + 1, i < j
                   PROVE  <<Append(q, x)[i], Append(q, x)[j]>> \in R
      BY <1>1 DEF Ordered
    <2>2. i \in 1 .. Len(q) /\ Append(q, x)[i] = q[i] /\ q[i] \in Range(q)
      BY <1>1, <2>1 DEF Range
    <2>3. CASE j = Len(q) + 1
      BY <1>1, <1>3, <2>2, <2>3 DEF Precede
    <2>4. CASE j \in 1 .. Len(q)
      BY <1>1, <1>3, <2>1, <2>2, <2>4 DEF Ordered
    <2>. QED
      BY <1>1, <2>3, <2>4
  <1>. QED
    BY <1>2, <1>3

\* The head precedes the tail.
LEMMA TailOrdered ==
    ASSUME NEW S, NEW q \in Seq(S), q # << >>, NEW R, Ordered(q, R)
    PROVE  Ordered(Tail(q), R) /\ Precede({Head(q)}, Range(Tail(q)), R)
  <1>1. /\ DOMAIN q = 1 .. Len(q) /\ Len(q) \in Nat \ {0}
        /\ DOMAIN Tail(q) = 1 .. Len(q) - 1
        /\ Head(q) = q[1]
        /\ \A i \in 1 .. Len(q) - 1 : Tail(q)[i] = q[i + 1]
    OBVIOUS
  <1>2. ASSUME NEW i \in 1 .. Len(q) - 1, NEW j \in 1 .. Len(q) - 1, i < j
        PROVE  <<Tail(q)[i], Tail(q)[j]>> \in R
    <2>1. i + 1 \in 1 .. Len(q) /\ j + 1 \in 1 .. Len(q) /\ i + 1 < j + 1
      BY <1>1, <1>2
    <2>. QED
      BY <1>1, <2>1 DEF Ordered
  <1>3. ASSUME NEW i \in 1 .. Len(q) - 1
        PROVE  <<Head(q), Tail(q)[i]>> \in R
    <2>1. i + 1 \in 1 .. Len(q) /\ 1 \in 1 .. Len(q) /\ 1 < i + 1
      BY <1>1
    <2>. QED
      BY <1>1, <2>1 DEF Ordered
  <1>. QED
    BY <1>1, <1>2, <1>3 DEF Ordered, Precede, Range

LEMMA ConcatOrdered ==
    ASSUME NEW S, NEW q \in Seq(S), NEW r \in Seq(S), NEW R
    PROVE  Ordered(q \o r, R) <=> Ordered(q, R) /\ Ordered(r, R) /\ Precede(Range(q), Range(r), R)
  <1>1. /\ DOMAIN q = 1 .. Len(q) /\ Len(q) \in Nat
        /\ DOMAIN r = 1 .. Len(r) /\ Len(r) \in Nat
        /\ DOMAIN (q \o r) = 1 .. Len(q) + Len(r)
        /\ \A i \in 1 .. Len(q) : (q \o r)[i] = q[i]
        /\ \A i \in 1 .. Len(r) : (q \o r)[Len(q) + i] = r[i]
    OBVIOUS
  <1>2. ASSUME Ordered(q \o r, R)
        PROVE  Ordered(q, R) /\ Ordered(r, R) /\ Precede(Range(q), Range(r), R)
    <2>1. ASSUME NEW i \in 1 .. Len(q), NEW j \in 1 .. Len(q), i < j
          PROVE  <<q[i], q[j]>> \in R
      <3>1. i \in 1 .. Len(q) + Len(r) /\ j \in 1 .. Len(q) + Len(r)
        BY <1>1
      <3>. QED
        BY <1>1, <1>2, <2>1, <3>1 DEF Ordered
    <2>2. ASSUME NEW i \in 1 .. Len(r), NEW j \in 1 .. Len(r), i < j
          PROVE  <<r[i], r[j]>> \in R
      <3>1. /\ Len(q) + i \in 1 .. Len(q) + Len(r) /\ Len(q) + j \in 1 .. Len(q) + Len(r)
            /\ Len(q) + i < Len(q) + j
        BY <1>1, <2>2
      <3>. QED
        BY <1>1, <1>2, <3>1 DEF Ordered
    <2>3. ASSUME NEW i \in 1 .. Len(q), NEW j \in 1 .. Len(r)
          PROVE  <<q[i], r[j]>> \in R
      <3>1. /\ i \in 1 .. Len(q) + Len(r) /\ Len(q) + j \in 1 .. Len(q) + Len(r)
            /\ i < Len(q) + j
        BY <1>1
      <3>. QED
        BY <1>1, <1>2, <3>1 DEF Ordered
    <2>. QED
      BY <1>1, <2>1, <2>2, <2>3 DEF Ordered, Precede, Range
  <1>3. ASSUME Ordered(q, R), Ordered(r, R), Precede(Range(q), Range(r), R)
        PROVE  Ordered(q \o r, R)
    <2>1. SUFFICES ASSUME NEW i \in 1 .. Len(q) + Len(r), NEW j \in 1 .. Len(q) + Len(r), i < j
                   PROVE  <<(q \o r)[i], (q \o r)[j]>> \in R
      BY <1>1 DEF Ordered
    <2>2. ASSUME NEW k \in 1 .. Len(q) + Len(r), k > Len(q)
          PROVE  k - Len(q) \in 1 .. Len(r) /\ (q \o r)[k] = r[k - Len(q)]
      <3>1. k - Len(q) \in 1 .. Len(r) /\ k = Len(q) + (k - Len(q))
        BY <1>1, <2>2
      <3>. QED
        BY <1>1, <3>1
    <2>3. CASE j <= Len(q)
      <3>1. i \in 1 .. Len(q) /\ j \in 1 .. Len(q)
        BY <1>1, <2>1, <2>3
      <3>. QED
        BY <1>1, <1>3, <2>1, <3>1 DEF Ordered
    <2>4. CASE i <= Len(q) /\ j > Len(q)
      <3>1. i \in 1 .. Len(q)
        BY <1>1, <2>4
      <3>2. (q \o r)[i] \in Range(q) /\ (q \o r)[j] \in Range(r)
        BY <1>1, <2>2, <2>4, <3>1 DEF Range
      <3>. QED
        BY <1>3, <3>2 DEF Precede
    <2>5. CASE i > Len(q) /\ j > Len(q)
      <3>. DEFINE a == i - Len(q)
                  b == j - Len(q)
      <3>1. /\ a \in 1 .. Len(r) /\ b \in 1 .. Len(r) /\ a < b
            /\ (q \o r)[i] = r[a] /\ (q \o r)[j] = r[b]
        BY <1>1, <2>1, <2>2, <2>5
      <3>. HIDE DEF a, b
      <3>2. <<r[a], r[b]>> \in R
        BY <1>1, <1>3, <3>1 DEF Ordered
      <3>. QED
        BY <3>1, <3>2
    <2>6. \/ j <= Len(q)
         \/ (i <= Len(q) /\ j > Len(q))
         \/ (i > Len(q) /\ j > Len(q))
      BY <1>1, <2>1
    <2>. QED
      BY <2>3, <2>4, <2>5, <2>6
  <1>. QED
    BY <1>2, <1>3
-----------------------------------------------------------------------------
(* The last of some indices *)

\* A bounded set of numbers has a greatest member: of the sets of those that
\* are not below one, a least exists (FS_StrictSubsetOrderingWellFounded).
LEMMA LastIndex ==
    ASSUME NEW n \in Nat, NEW S \in SUBSET (1 .. n), S # {}
    PROVE  \E k \in S : \A j \in S : j <= k
  <1>. DEFINE from(k) == {j \in S : j >= k}
              T == {from(k) : k \in S}
              R == StrictSubsetOrdering(S)
  <1>1. IsFiniteSet(S)
    <2>1. IsFiniteSet(1 .. n)
      BY FS_Interval
    <2>. QED
      BY <2>1, FS_Subset
  <1>2. IsWellFoundedOn(R, SUBSET S)
    BY <1>1, FS_StrictSubsetOrderingWellFounded, FS_FiniteSubsetsOfFinite
  <1>3. T \subseteq SUBSET S /\ T # {}
    OBVIOUS
  <1>. HIDE DEF T
  <1>4. PICK x \in T : \A y \in T : <<y, x>> \notin R
    BY <1>2, <1>3, WFMin
  <1>5. PICK k \in S : x = from(k)
    BY <1>4 DEF T
  <1>6. ASSUME NEW j \in S, j > k
        PROVE  FALSE
    <2>1. from(j) \subseteq from(k) /\ from(j) # from(k)
      <3>1. k \in from(k) /\ k \notin from(j)
        BY <1>6
      <3>2. \A i \in from(j) : i \in from(k)
        BY <1>6
      <3>. QED
        BY <3>1, <3>2
    <2>2. from(j) \in T /\ from(j) \in SUBSET S /\ from(k) \in SUBSET S
      BY DEF T
    <2>. QED
      BY <1>4, <1>5, <2>1, <2>2 DEF StrictSubsetOrdering
  <1>. QED
    BY <1>6
-----------------------------------------------------------------------------
(* A connection (Link.tla) is a record of two such buffers *)

\* A packet behind the others, the first one taken away.
LEMMA ConcatEnds ==
    ASSUME NEW Item, NEW q \in Seq(Item), NEW r \in Seq(Item), NEW p \in Item
    PROVE  /\ q \o Append(r, p) = Append(q \o r, p)
           /\ q # << >> => /\ q \o r # << >> /\ Head(q \o r) = Head(q)
                           /\ Tail(q) \o r = Tail(q \o r)
  <1>1. q \o Append(r, p) = Append(q \o r, p)
    <2>. DEFINE s == q \o Append(r, p)
                t == Append(q \o r, p)
    <2>1. s \in Seq(Item) /\ t \in Seq(Item) /\ Len(s) = Len(t)
      OBVIOUS
    <2>2. \A i \in 1 .. Len(s) : s[i] = t[i]
      OBVIOUS
    <2>. QED
      BY <2>1, <2>2
  <1>2. ASSUME q # << >>
        PROVE  /\ q \o r # << >> /\ Head(q \o r) = Head(q)
               /\ Tail(q) \o r = Tail(q \o r)
    <2>1. Len(q) \in Nat \ {0} /\ Len(q \o r) = Len(q) + Len(r) /\ Len(r) \in Nat
      BY <1>2
    <2>2. q \o r # << >> /\ q \o r \in Seq(Item)
      BY <2>1
    <2>3. Head(q \o r) = Head(q)
      BY <1>2, <2>1, <2>2
    <2>. DEFINE s == Tail(q) \o r
                t == Tail(q \o r)
    <2>4. s \in Seq(Item) /\ t \in Seq(Item) /\ Len(s) = Len(t)
      BY <1>2, <2>1, <2>2
    <2>5. \A i \in 1 .. Len(s) : s[i] = t[i]
      BY <1>2, <2>1, <2>2
    <2>. QED
      BY <2>2, <2>3, <2>4, <2>5
  <1>. QED
    BY <1>1, <1>2

\* What is sent ends up in one of the buffers, behind all that was there
\* (DownstreamPort::sendReq).
LEMMA SentLine ==
    ASSUME NEW Item, NEW l \in [out : Seq(Item), in : Seq(Item)], NEW p \in Item
    PROVE  LET inside == [l EXCEPT !.in = Append(@, p)]
               outside == [l EXCEPT !.out = Append(@, p)]
           IN /\ {inside, outside} \subseteq [out : Seq(Item), in : Seq(Item)]
              /\ inside.in = Append(l.in, p) /\ inside.out = l.out
              /\ outside.in = l.in /\ outside.out = Append(l.out, p)
              /\ l.out = << >> => inside.in \o inside.out = Append(l.in \o l.out, p)
              /\ outside.in \o outside.out = Append(l.in \o l.out, p)
  <1>. DEFINE inside == [l EXCEPT !.in = Append(@, p)]
              outside == [l EXCEPT !.out = Append(@, p)]
  <1>1. /\ l.in \in Seq(Item) /\ l.out \in Seq(Item)
        /\ Append(l.in, p) \in Seq(Item) /\ Append(l.out, p) \in Seq(Item)
    OBVIOUS
  <1>2. /\ {inside, outside} \subseteq [out : Seq(Item), in : Seq(Item)]
        /\ inside.in = Append(l.in, p) /\ inside.out = l.out
        /\ outside.in = l.in /\ outside.out = Append(l.out, p)
    BY <1>1
  <1>3. l.out = << >> => Append(l.in, p) \o l.out = Append(l.in \o l.out, p)
    BY <1>1
  <1>4. l.in \o Append(l.out, p) = Append(l.in \o l.out, p)
    BY <1>1, ConcatEnds
  <1>. HIDE DEF inside, outside
  <1>5. /\ l.out = << >> => inside.in \o inside.out = Append(l.in \o l.out, p)
        /\ outside.in \o outside.out = Append(l.in \o l.out, p)
    BY <1>2, <1>3, <1>4
  <1>. QED
    BY <1>2, <1>5 DEF inside, outside

\* What waits outside turns around (DownstreamPort::tick).
LEMMA RetriedLine ==
    ASSUME NEW Item, NEW l \in [out : Seq(Item), in : Seq(Item)], l.out # << >>
    PROVE  LET k == [l EXCEPT !.out = Append(Tail(@), Head(@))]
           IN /\ k \in [out : Seq(Item), in : Seq(Item)] /\ Head(l.out) \in Item
              /\ k.in = l.in /\ k.out = Append(Tail(l.out), Head(l.out))
  <1>1. Head(l.out) \in Item /\ Tail(l.out) \in Seq(Item)
    OBVIOUS
  <1>2. Append(Tail(l.out), Head(l.out)) \in Seq(Item)
    BY <1>1
  <1>. QED
    BY <1>1, <1>2

\* The first packet inside is the first of all (UpstreamPort::tick).
LEMMA TakenLine ==
    ASSUME NEW Item, NEW l \in [out : Seq(Item), in : Seq(Item)], l.in # << >>
    PROVE  LET k == [l EXCEPT !.in = Tail(@)]
           IN /\ k \in [out : Seq(Item), in : Seq(Item)] /\ Head(l.in) \in Item
              /\ k.in = Tail(l.in) /\ k.out = l.out
              /\ l.in \o l.out # << >> /\ Head(l.in \o l.out) = Head(l.in)
              /\ k.in \o k.out = Tail(l.in \o l.out)
  <1>. DEFINE k == [l EXCEPT !.in = Tail(@)]
  <1>1. /\ Head(l.in) \in Item /\ Tail(l.in) \in Seq(Item)
        /\ l.in \in Seq(Item) /\ l.out \in Seq(Item)
    OBVIOUS
  <1>2. /\ k \in [out : Seq(Item), in : Seq(Item)]
        /\ k.in = Tail(l.in) /\ k.out = l.out
    BY <1>1
  <1>3. /\ l.in \o l.out # << >> /\ Head(l.in \o l.out) = Head(l.in)
        /\ Tail(l.in) \o l.out = Tail(l.in \o l.out)
    BY <1>1, ConcatEnds
  <1>. HIDE DEF k
  <1>4. k.in \o k.out = Tail(l.in \o l.out)
    BY <1>2, <1>3
  <1>. QED
    BY <1>1, <1>2, <1>3, <1>4 DEF k

-----------------------------------------------------------------------------
(* Loops: what holds after every round *)

\* Among some numbers one is the least: a smaller one would be an interval
\* of fewer elements, and inclusion of finite sets is well founded.
LEMMA LeastNumber ==
    ASSUME NEW T, T \subseteq Nat, T # {}
    PROVE  \E n \in T : \A m \in T : n <= m
  <1>. DEFINE F == {1 .. n : n \in T}
  <1>1. IsWellFoundedOn(StrictSubsetOrdering(Nat), FiniteSubsetsOf(Nat))
    BY FS_StrictSubsetOrderingWellFounded
  <1>2. F \subseteq FiniteSubsetsOf(Nat) /\ F # {}
    <2>1. \A n \in T : IsFiniteSet(1 .. n) /\ 1 .. n \in SUBSET Nat
      BY FS_Interval
    <2>. QED
      BY <2>1 DEF FiniteSubsetsOf
  <1>3. PICK I \in F : \A J \in F : ~(<<J, I>> \in StrictSubsetOrdering(Nat))
    <2>. HIDE DEF F
    <2>. QED
      BY <1>1, <1>2, WFMin
  <1>4. PICK n \in T : I = 1 .. n
    OBVIOUS
  <1>5. ASSUME NEW m \in T, m < n
        PROVE  FALSE
    <2>1. 1 .. m \in F
      OBVIOUS
    <2>2. 1 .. m \in SUBSET Nat /\ 1 .. n \in SUBSET Nat /\ 1 .. m \subseteq 1 .. n
      BY <1>5
    <2>3. n \in 1 .. n /\ n \notin 1 .. m
      BY <1>5
    <2>. QED
      BY <1>3, <1>4, <2>1, <2>2, <2>3 DEF StrictSubsetOrdering
  <1>. QED
    BY <1>5

\* Induction up to a bound, for the members of a set.
LEMMA Upwards ==
    ASSUME NEW n \in Nat, NEW S, 0 \in S, \A i \in 1 .. n : i - 1 \in S => i \in S
    PROVE  \A i \in 0 .. n : i \in S
  <1>. DEFINE T == {i \in 0 .. n : i \notin S}
  <1>1. SUFFICES ASSUME T # {}
                 PROVE  FALSE
    OBVIOUS
  <1>2. PICK m \in T : \A k \in T : m <= k
    <2>1. T \subseteq Nat
      OBVIOUS
    <2>. HIDE DEF T
    <2>. QED
      BY <1>1, <2>1, LeastNumber
  <1>3. m \in 1 .. n /\ m - 1 \in S
    BY <1>2
  <1>. QED
    BY <1>2, <1>3

\* And downwards from one.
LEMMA Downwards ==
    ASSUME NEW n \in Nat, NEW S, n + 1 \in S, \A i \in 1 .. n : i + 1 \in S => i \in S
    PROVE  \A i \in 1 .. n + 1 : i \in S
  <1>. DEFINE T == {m \in 0 .. n : n + 1 - m \in S}
  <1>1. 0 \in T
    OBVIOUS
  <1>2. ASSUME NEW m \in 1 .. n, m - 1 \in T
        PROVE  m \in T
    <2>1. PICK i \in 1 .. n : i = n + 1 - m
      OBVIOUS
    <2>2. i + 1 \in S
      BY <1>2, <2>1
    <2>. QED
      BY <2>1, <2>2
  <1>3. \A m \in 0 .. n : m \in T
    <2>. HIDE DEF T
    <2>. QED
      BY <1>1, <1>2, Upwards
  <1>4. ASSUME NEW i \in 1 .. n + 1
        PROVE  i \in S
    <2>1. PICK m \in 0 .. n : m = n + 1 - i
      OBVIOUS
    <2>2. m \in T /\ n + 1 - m = i
      BY <1>3, <2>1
    <2>. QED
      BY <2>2
  <1>. QED
    BY <1>4

\* What holds at first and after every round holds at the end.
LEMMA LoopKeeps ==
    ASSUME NEW n \in Nat, NEW f, NEW S, f[0] \in S,
           \A i \in 1 .. n : f[i - 1] \in S => f[i] \in S
    PROVE  \A i \in 0 .. n : f[i] \in S
  <1>. DEFINE T == {i \in 0 .. n : f[i] \in S}
  <1>1. 0 \in T /\ \A i \in 1 .. n : i - 1 \in T => i \in T
    OBVIOUS
  <1>2. \A i \in 0 .. n : i \in T
    <2>. HIDE DEF T
    <2>. QED
      BY <1>1, Upwards
  <1>. QED
    BY <1>2

\* A loop of n rounds that starts with s and whose i-th round makes R[<<x, i>>]
\* of x has an execution: what a recursive function defines exists.
Executes(f, n, S, s, R) ==
    f \in [0 .. n -> S] /\ f[0] = s /\ \A i \in 1 .. n : f[i] = R[<<f[i - 1], i>>]

LEMMA LoopRuns ==
    ASSUME NEW n \in Nat, NEW S, NEW s \in S, NEW R \in [S \X (1 .. n) -> S]
    PROVE  \E f : Executes(f, n, S, s, R)
  <1>. DEFINE Runs(f, m) == Executes(f, m, S, s, R)
              T == {m \in 0 .. n : \E f : Runs(f, m)}
  <1>1. 0 \in T
    <2>1. Runs([i \in 0 .. 0 |-> s], 0)
      BY DEF Executes
    <2>. HIDE DEF Runs
    <2>. QED
      BY <2>1
  <1>2. ASSUME NEW m \in 1 .. n, m - 1 \in T
        PROVE  m \in T
    <2>1. PICK f : Runs(f, m - 1)
      BY <1>2
    <2>. DEFINE g == [i \in 0 .. m |-> IF i = m THEN R[<<f[m - 1], m>>] ELSE f[i]]
    <2>2. f[m - 1] \in S /\ R[<<f[m - 1], m>>] \in S
      BY <2>1 DEF Executes
    <2>3. g \in [0 .. m -> S] /\ g[0] = s
      BY <2>1, <2>2 DEF Executes
    <2>4. ASSUME NEW i \in 1 .. m
          PROVE  g[i] = R[<<g[i - 1], i>>]
      <3>1. CASE i = m
        <4>1. g[m] = R[<<f[m - 1], m>>] /\ g[m - 1] = f[m - 1]
          OBVIOUS
        <4>. QED
          BY <3>1, <4>1, Zenon
      <3>2. CASE i # m
        <4>1. i \in 1 .. m - 1 /\ g[i] = f[i] /\ g[i - 1] = f[i - 1]
          BY <3>2
        <4>2. f[i] = R[<<f[i - 1], i>>]
          BY <2>1, <4>1 DEF Executes
        <4>. QED
          BY <4>1, <4>2, Zenon
      <3>. QED
        BY <3>1, <3>2
    <2>5. Runs(g, m)
      BY <2>3, <2>4 DEF Executes
    <2>. HIDE DEF g, Runs
    <2>. QED
      BY <2>5
  <1>3. \A i \in 0 .. n : i \in T
    <2>. HIDE DEF T
    <2>. QED
      BY <1>1, <1>2, Upwards
  <1>. QED
    BY <1>3

\* A recursive definition: F makes of a function on D, of values in V, the
\* function of its right-hand side, which at d asks for values at elements of
\* less weight than d only.
Recursive(F, D, V, weight, n) ==
    /\ F \in [[D -> V] -> [D -> V]] /\ weight \in [D -> 0 .. n]
    /\ \A g, h \in [D -> V], d \in D :
          (\A e \in D : weight[e] < weight[d] => g[e] = h[e]) => F[g][d] = F[h][d]

Solves(h, F, D, V) == h \in [D -> V] /\ F[h] = h

\* It has a solution: after as many rounds as there are weights, beginning
\* with any function, another round changes nothing.
LEMMA RecursionSolved ==
    ASSUME NEW D, NEW V, NEW first \in [D -> V], NEW n \in Nat, NEW weight, NEW F,
           Recursive(F, D, V, weight, n)
    PROVE  \E h : Solves(h, F, D, V)
  <1>. DEFINE H == [D -> V]
              Loop == [p \in H \X (1 .. n + 1) |-> F[p[1]]]
  <1>1. F \in [H -> H]
    BY DEF Recursive
  <1>. HIDE DEF H
  <1>2. Loop \in [H \X (1 .. n + 1) -> H] /\ first \in H
    <2>1. \A p \in H \X (1 .. n + 1) : p[1] \in H
      OBVIOUS
    <2>. QED
      BY <1>1, <2>1 DEF H
  <1>3. PICK f : Executes(f, n + 1, H, first, Loop)
    <2>1. n + 1 \in Nat
      OBVIOUS
    <2>. HIDE DEF Loop
    <2>. QED
      BY <1>2, <2>1, LoopRuns
  <1>4. \A i \in 0 .. n + 1 : f[i] \in H
    BY <1>3 DEF Executes
  <1>5. \A i \in 0 .. n : f[i + 1] = F[f[i]]
    <2>1. SUFFICES ASSUME NEW i \in 0 .. n
                   PROVE  f[i + 1] = F[f[i]]
      OBVIOUS
    <2>2. PICK j \in 1 .. n + 1 : j = i + 1 /\ j - 1 = i
      OBVIOUS
    <2>3. f[j] = Loop[<<f[j - 1], j>>]
      BY <1>3, <2>2 DEF Executes
    <2>5. f[j - 1] \in H
      <3>1. j - 1 \in 0 .. n + 1
        BY <2>2
      <3>. QED
        BY <1>4, <3>1
    <2>4. Loop[<<f[j - 1], j>>] = F[f[j - 1]]
      BY <2>5
    <2>. QED
      BY <2>2, <2>3, <2>4, Zenon
  <1>. HIDE DEF Loop
  <1>6. \A g, h \in H, d \in D :
           (\A e \in D : weight[e] < weight[d] => g[e] = h[e]) => F[g][d] = F[h][d]
    BY DEF Recursive, H
  <1>7. \A d \in D : weight[d] \in 0 .. n
    BY DEF Recursive
  <1>. DEFINE T == {i \in 0 .. n : \A d \in D : weight[d] < i => f[i][d] = f[i + 1][d]}
  <1>8. 0 \in T
    BY <1>7
  <1>9. ASSUME NEW i \in 1 .. n, i - 1 \in T
        PROVE  i \in T
    <2>1. SUFFICES ASSUME NEW d \in D, weight[d] < i
                   PROVE  f[i][d] = f[i + 1][d]
      OBVIOUS
    <2>2. PICK k : k = i - 1
      OBVIOUS
    <2>3. k \in 0 .. n /\ k + 1 = i /\ i \in 0 .. n /\ f[k] \in H /\ f[i] \in H
      BY <1>4, <2>2
    <2>4. ASSUME NEW e \in D, weight[e] < weight[d]
          PROVE  f[k][e] = f[i][e]
      <3>1. weight[e] < k
        BY <1>7, <2>1, <2>2, <2>4
      <3>2. f[k][e] = f[k + 1][e]
        BY <1>9, <2>2, <3>1
      <3>. QED
        BY <2>3, <3>2
    <2>5. F[f[k]][d] = F[f[i]][d]
      BY <1>6, <2>3, <2>4
    <2>6. f[k + 1] = F[f[k]] /\ f[i + 1] = F[f[i]]
      BY <1>5, <2>3
    <2>. QED
      BY <2>3, <2>5, <2>6
  <1>10. n \in T
    <2>1. \A i \in 0 .. n : i \in T
      <3>. HIDE DEF T
      <3>. QED
        BY <1>8, <1>9, Upwards
    <2>. QED
      BY <2>1
  <1>11. PICK g, h : g = f[n] /\ h = f[n + 1]
    OBVIOUS
  <1>12. g \in H /\ h \in H /\ h = F[g]
    BY <1>4, <1>5, <1>11
  <1>13. F[g] = F[h]
    <2>1. ASSUME NEW d \in D
          PROVE  F[g][d] = F[h][d]
      <3>1. ASSUME NEW e \in D, weight[e] < weight[d]
            PROVE  g[e] = h[e]
        <4>1. weight[e] < n
          BY <1>7, <3>1
        <4>. QED
          BY <1>10, <1>11, <4>1
      <3>. QED
        BY <1>6, <1>12, <3>1
    <2>2. F[g] \in [D -> V] /\ F[h] \in [D -> V]
      BY <1>1, <1>12 DEF H
    <2>. QED
      BY <2>1, <2>2
  <1>14. Solves(h, F, D, V)
    BY <1>12, <1>13 DEF Solves, H
  <1>. QED
    BY <1>14

-----------------------------------------------------------------------------
(* Sums: f[p] tokens of each p *)

Tokens(P, f) == UNION {{p} \X (1 .. f[p]) : p \in P}

LEMMA TokensFinite ==
    ASSUME NEW P, IsFiniteSet(P), NEW f \in [P -> Nat]
    PROVE  IsFiniteSet(Tokens(P, f)) /\ Cardinality(Tokens(P, f)) \in Nat
  <1>. DEFINE g == [p \in P |-> {p} \X (1 .. f[p])]
              T == {{p} \X (1 .. f[p]) : p \in P}
  <1>1. g \in Surjection(P, T)
    BY DEF Surjection
  <1>2. IsFiniteSet(T)
    <2>. HIDE DEF g, T
    <2>. QED
      BY <1>1, FS_Surjection
  <1>3. \A U \in T : IsFiniteSet(U)
    <2>1. SUFFICES ASSUME NEW p \in P
                   PROVE  IsFiniteSet({p} \X (1 .. f[p]))
      OBVIOUS
    <2>2. IsFiniteSet({p}) /\ IsFiniteSet(1 .. f[p])
      <3>1. f[p] \in Int /\ 1 \in Int
        OBVIOUS
      <3>. QED
        BY <3>1, FS_Singleton, FS_Interval
    <2>. QED
      BY <2>2, FS_Product
  <1>4. IsFiniteSet(UNION T)
    <2>. HIDE DEF T
    <2>. QED
      BY <1>2, <1>3, FS_UNION
  <1>. QED
    BY <1>4, FS_CardinalityType DEF Tokens

\* A new p adds its tokens to those of the others.
LEMMA TokensMore ==
    ASSUME NEW P, IsFiniteSet(P), NEW p, p \notin P, NEW f \in [P \cup {p} -> Nat],
           NEW g \in [P -> Nat], \A q \in P : g[q] = f[q]
    PROVE  Cardinality(Tokens(P \cup {p}, f)) = Cardinality(Tokens(P, g)) + f[p]
  <1>. DEFINE A == Tokens(P, g)
              B == {p} \X (1 .. f[p])
  <1>1. IsFiniteSet(A) /\ Cardinality(A) \in Nat
    BY TokensFinite
  <1>2. IsFiniteSet(B) /\ Cardinality(B) = f[p]
    <2>1. f[p] \in Nat
      OBVIOUS
    <2>2. IsFiniteSet({p}) /\ Cardinality({p}) = 1
      BY FS_Singleton
    <2>3. IsFiniteSet(1 .. f[p]) /\ Cardinality(1 .. f[p]) = f[p]
      BY <2>1, FS_Interval
    <2>4. IsFiniteSet(B) /\ Cardinality(B) = Cardinality({p}) * Cardinality(1 .. f[p])
      BY <2>2, <2>3, FS_Product, Zenon
    <2>. QED
      BY <2>1, <2>2, <2>3, <2>4
  <1>3. A \cap B = {} /\ Tokens(P \cup {p}, f) = A \cup B
    BY DEF Tokens
  <1>4. Cardinality(A \cap B) = 0
    BY <1>3, FS_EmptySet
  <1>. HIDE DEF A, B
  <1>5. Cardinality(A \cup B) = Cardinality(A) + Cardinality(B) - Cardinality(A \cap B)
    BY <1>1, <1>2, FS_Union
  <1>6. f[p] \in Nat
    OBVIOUS
  <1>7. Cardinality(A \cup B) = Cardinality(A) + f[p]
    BY <1>1, <1>2, <1>4, <1>5, <1>6
  <1>. QED
    BY <1>3, <1>7 DEF A

LEMMA TokensOfOthers ==
    ASSUME NEW P, IsFiniteSet(P), NEW f \in [P -> Nat], NEW p \in P
    PROVE  Cardinality(Tokens(P, f))
           = Cardinality(Tokens(P \ {p}, [q \in P \ {p} |-> f[q]])) + f[p]
  <1>. DEFINE Q == P \ {p}
              h == [q \in Q |-> f[q]]
  <1>1. IsFiniteSet(Q) /\ p \notin Q /\ Q \cup {p} = P
    BY FS_RemoveElement
  <1>2. h \in [Q -> Nat] /\ \A q \in Q : h[q] = f[q]
    OBVIOUS
  <1>. HIDE DEF Q, h
  <1>3. Cardinality(Tokens(Q \cup {p}, f)) = Cardinality(Tokens(Q, h)) + f[p]
    BY <1>1, <1>2, TokensMore
  <1>. QED
    BY <1>1, <1>3 DEF Q, h

\* What changes at one p changes in the sum.
LEMMA TokensChange ==
    ASSUME NEW P, IsFiniteSet(P), NEW f \in [P -> Nat], NEW g \in [P -> Nat], NEW p \in P,
           \A q \in P \ {p} : g[q] = f[q]
    PROVE  Cardinality(Tokens(P, g)) = Cardinality(Tokens(P, f)) - f[p] + g[p]
  <1>. DEFINE h == [q \in P \ {p} |-> f[q]]
  <1>1. h \in [P \ {p} -> Nat] /\ h = [q \in P \ {p} |-> g[q]]
    OBVIOUS
  <1>2. /\ Cardinality(Tokens(P, f)) = Cardinality(Tokens(P \ {p}, h)) + f[p]
        /\ Cardinality(Tokens(P, g)) = Cardinality(Tokens(P \ {p}, h)) + g[p]
    <2>1. Cardinality(Tokens(P, f)) = Cardinality(Tokens(P \ {p}, h)) + f[p]
      BY TokensOfOthers
    <2>2. Cardinality(Tokens(P, g))
          = Cardinality(Tokens(P \ {p}, [q \in P \ {p} |-> g[q]])) + g[p]
      BY TokensOfOthers
    <2>. HIDE DEF h
    <2>. QED
      BY <1>1, <2>1, <2>2
  <1>. HIDE DEF h
  <1>3. Cardinality(Tokens(P \ {p}, h)) \in Nat /\ f[p] \in Nat /\ g[p] \in Nat
    BY <1>1, FS_RemoveElement, TokensFinite
  <1>. QED
    BY <1>2, <1>3

\* Who has less of each has less in all.
LEMMA TokensLess ==
    ASSUME NEW P, IsFiniteSet(P), NEW f \in [P -> Nat], NEW g \in [P -> Nat],
           \A q \in P : g[q] <= f[q]
    PROVE  Cardinality(Tokens(P, g)) <= Cardinality(Tokens(P, f))
  <1>1. IsFiniteSet(Tokens(P, f))
    BY TokensFinite
  <1>2. Tokens(P, g) \subseteq Tokens(P, f)
    <2>1. \A q \in P : {q} \X (1 .. g[q]) \subseteq {q} \X (1 .. f[q])
      OBVIOUS
    <2>. QED
      BY <2>1 DEF Tokens
  <1>. QED
    BY <1>1, <1>2, FS_Subset

-----------------------------------------------------------------------------
(* Folds over sets: what the functions FoldFunction and SumFunction iterate *)

\* Induction over the subsets of a finite set, for the members of a set.
LEMMA SubsetsUpwards ==
    ASSUME NEW S, IsFiniteSet(S), NEW T, {} \in T,
           \A s \in SUBSET S : s # {} /\ (\A x \in s : s \ {x} \in T) => s \in T
    PROVE  \A s \in SUBSET S : s \in T
  <1>. DEFINE F == {s \in SUBSET S : s \notin T}
  <1>1. SUFFICES ASSUME F # {}
                 PROVE  FALSE
    OBVIOUS
  <1>2. IsWellFoundedOn(StrictSubsetOrdering(S), SUBSET S)
    BY FS_StrictSubsetOrderingWellFounded, FS_FiniteSubsetsOfFinite
  <1>3. PICK s \in F : \A t \in F : ~(<<t, s>> \in StrictSubsetOrdering(S))
    <2>1. F \subseteq SUBSET S
      OBVIOUS
    <2>. HIDE DEF F
    <2>. QED
      BY <1>1, <1>2, <2>1, WFMin
  <1>4. ASSUME NEW x \in s
        PROVE  s \ {x} \in T
    <2>1. s \ {x} \in SUBSET S /\ s \in SUBSET S /\ s \ {x} \subseteq s /\ s \ {x} # s
      BY <1>4
    <2>2. <<s \ {x}, s>> \in StrictSubsetOrdering(S)
      BY <2>1 DEF StrictSubsetOrdering
    <2>3. s \ {x} \notin F
      BY <1>3, <2>2
    <2>. QED
      BY <2>1, <2>3
  <1>5. s \in SUBSET S /\ s \notin T
    OBVIOUS
  <1>. HIDE DEF F
  <1>. QED
    BY <1>4, <1>5

\* The function on the subsets that such a fold defines: b of the empty set,
\* R[<<x, v>>] when x joins a set of which v has been made.
Folding(h, S, V, b, R) ==
    /\ h \in [SUBSET S -> V]
    /\ \A s \in SUBSET S :
          h[s] = IF s = {} THEN b
                 ELSE R[<<CHOOSE x \in s : TRUE, h[s \ {CHOOSE x \in s : TRUE}]>>]

LEMMA FoldExists ==
    ASSUME NEW S, IsFiniteSet(S), NEW V, NEW b \in V, NEW R \in [S \X V -> V]
    PROVE  \E h : Folding(h, S, V, b, R)
  <1>. DEFINE some(s) == CHOOSE x \in s : TRUE
              D == SUBSET S
              F == [h \in [D -> V] |->
                       [s \in D |-> IF s = {} THEN b ELSE R[<<some(s), h[s \ {some(s)}]>>]]]
              weight == [s \in D |-> Cardinality(s)]
              n == Cardinality(S)
  <1>1. \A s \in D : s # {} => some(s) \in s /\ some(s) \in S /\ s \ {some(s)} \in D
    OBVIOUS
  <1>2. n \in Nat /\ \A s \in D : IsFiniteSet(s) /\ Cardinality(s) \in 0 .. n
    BY FS_Subset, FS_CardinalityType
  <1>. HIDE DEF some, n
  <1>3. Recursive(F, D, V, weight, n)
    <2>1. F \in [[D -> V] -> [D -> V]]
      BY <1>1
    <2>2. weight \in [D -> 0 .. n]
      BY <1>2
    <2>3. ASSUME NEW g \in [D -> V], NEW h \in [D -> V], NEW s \in D,
                 \A t \in D : weight[t] < weight[s] => g[t] = h[t]
          PROVE  F[g][s] = F[h][s]
      <3>1. CASE s = {}
        BY <3>1
      <3>2. CASE s # {}
        <4>1. PICK t : t = s \ {some(s)}
          OBVIOUS
        <4>2. t \in D /\ Cardinality(t) = Cardinality(s) - 1
          BY <1>1, <1>2, <3>2, <4>1, FS_RemoveElement
        <4>3. Cardinality(t) < Cardinality(s)
          BY <1>2, <4>2
        <4>4. weight[t] = Cardinality(t) /\ weight[s] = Cardinality(s)
          BY <4>2
        <4>5. g[t] = h[t]
          BY <2>3, <4>2, <4>3, <4>4
        <4>. QED
          BY <3>2, <4>1, <4>5
      <3>. QED
        BY <3>1, <3>2
    <2>. HIDE DEF F, weight, D
    <2>. QED
      BY <2>1, <2>2, <2>3 DEF Recursive
  <1>4. PICK h : Solves(h, F, D, V)
    <2>1. [s \in D |-> b] \in [D -> V]
      OBVIOUS
    <2>. HIDE DEF F, weight, D
    <2>. QED
      BY <1>2, <1>3, <2>1, RecursionSolved
  <1>5. h \in [D -> V] /\ F[h] = h
    BY <1>4 DEF Solves
  <1>6. \A s \in D : h[s] = IF s = {} THEN b ELSE R[<<some(s), h[s \ {some(s)}]>>]
    BY <1>5
  <1>. QED
    BY <1>5, <1>6 DEF Folding, some

\* A sum of numbers is the number of tokens: the fold adds those of one
\* element at a time.
LEMMA SumIsTokens ==
    ASSUME NEW S, IsFiniteSet(S), NEW f \in [S -> Nat]
    PROVE  SumFunction(f) = Cardinality(Tokens(S, f))
  <1>. DEFINE some(s) == CHOOSE x \in s : TRUE
              Is(h) == h = [s \in SUBSET S |-> IF s = {} THEN 0
                                                ELSE f[some(s)] + h[s \ {some(s)}]]
              R == [p \in S \X Nat |-> f[p[1]] + p[2]]
              T == {s \in SUBSET S : (CHOOSE h : Is(h))[s] = Cardinality(Tokens(s, f))}
  <1>1. SumFunction(f) = (CHOOSE h : Is(h))[S]
    <2>1. DOMAIN f = S
      OBVIOUS
    <2>. QED
      BY <2>1, Zenon DEF SumFunction, SumFunctionOnSet, FoldFunctionOnSet, MapThenFoldSet
  <1>2. \A s \in SUBSET S : s # {} => some(s) \in s
    OBVIOUS
  <1>3. Is(CHOOSE h : Is(h))
    <2>1. R \in [S \X Nat -> Nat]
      OBVIOUS
    <2>2. PICK h : Folding(h, S, Nat, 0, R)
      <3>. HIDE DEF R
      <3>. QED
        BY <2>1, FoldExists
    <2>3. \A s \in SUBSET S : h[s] = IF s = {} THEN 0 ELSE R[<<some(s), h[s \ {some(s)}]>>]
      BY <2>2 DEF Folding
    <2>4. ASSUME NEW s \in SUBSET S
          PROVE  h[s] = IF s = {} THEN 0 ELSE f[some(s)] + h[s \ {some(s)}]
      <3>1. s # {} => some(s) \in S /\ h[s \ {some(s)}] \in Nat
        BY <1>2, <2>2 DEF Folding
      <3>. HIDE DEF some
      <3>. QED
        BY <2>3, <3>1
    <2>5. h = [s \in SUBSET S |-> h[s]]
      BY <2>2 DEF Folding
    <2>6. Is(h)
      <3>. HIDE DEF some
      <3>. QED
        BY <2>4, <2>5
    <2>. HIDE DEF Is
    <2>. QED
      BY <2>6
  <1>4. PICK h : h = (CHOOSE g : Is(g)) /\ Is(h)
    <2>. HIDE DEF Is
    <2>. QED
      BY <1>3
  <1>5. {} \in T
    <2>1. Tokens({}, f) = {}
      BY DEF Tokens
    <2>2. h[{}] = 0
      BY <1>4
    <2>3. Cardinality(Tokens({}, f)) = 0
      BY <2>1, FS_EmptySet
    <2>. HIDE DEF Is
    <2>. QED
      BY <1>4, <2>2, <2>3
  <1>6. ASSUME NEW s \in SUBSET S, s # {}, \A x \in s : s \ {x} \in T
        PROVE  s \in T
    <2>1. PICK x : x = some(s)
      OBVIOUS
    <2>2. x \in s
      BY <1>2, <1>6, <2>1
    <2>3. h[s] = f[x] + h[s \ {x}]
      BY <1>4, <1>6, <2>1
    <2>4. h[s \ {x}] = Cardinality(Tokens(s \ {x}, f))
      <3>. HIDE DEF Is
      <3>. QED
        BY <1>4, <1>6, <2>2
    <2>5. Cardinality(Tokens(s, f)) = Cardinality(Tokens(s \ {x}, f)) + f[x]
      <3>1. PICK g : g = [y \in s |-> f[y]]
        OBVIOUS
      <3>2. g \in [s -> Nat] /\ \A y \in s : g[y] = f[y]
        BY <3>1
      <3>3. /\ Tokens(s, g) = Tokens(s, f)
            /\ Tokens(s \ {x}, [y \in s \ {x} |-> g[y]]) = Tokens(s \ {x}, f)
        BY <3>2 DEF Tokens
      <3>4. IsFiniteSet(s)
        BY FS_Subset
      <3>5. Cardinality(Tokens(s, g))
            = Cardinality(Tokens(s \ {x}, [y \in s \ {x} |-> g[y]])) + g[x]
        BY <2>2, <3>2, <3>4, TokensOfOthers
      <3>. QED
        BY <2>2, <3>2, <3>3, <3>5
    <2>6. f[x] \in Nat /\ Cardinality(Tokens(s \ {x}, f)) \in Nat
      <3>1. IsFiniteSet(s \ {x}) /\ s \ {x} \subseteq S
        BY FS_Subset
      <3>2. PICK t : t = s \ {x}
        OBVIOUS
      <3>3. [y \in t |-> f[y]] \in [t -> Nat]
        BY <3>1, <3>2
      <3>4. Tokens(t, [y \in t |-> f[y]]) = Tokens(t, f)
        BY DEF Tokens
      <3>5. Cardinality(Tokens(t, [y \in t |-> f[y]])) \in Nat
        BY <3>1, <3>2, <3>3, TokensFinite
      <3>. QED
        BY <2>2, <3>2, <3>4, <3>5
    <2>7. h[s] = Cardinality(Tokens(s, f))
      BY <2>3, <2>4, <2>5, <2>6
    <2>. HIDE DEF Is
    <2>. QED
      BY <1>4, <2>7
  <1>7. S \in T
    <2>1. \A s \in SUBSET S : s \in T
      <3>. HIDE DEF T
      <3>. QED
        BY <1>5, <1>6, SubsetsUpwards
    <2>. QED
      BY <2>1
  <1>. QED
    BY <1>1, <1>7

Numbers(f) == IsFiniteSet(DOMAIN f) /\ f \in [DOMAIN f -> Nat]

\* g is f, and one number more.
Joins(g, x, f) ==
    x \notin DOMAIN f /\ DOMAIN g = DOMAIN f \cup {x} /\ \A y \in DOMAIN f : g[y] = f[y]

LEMMA SumType ==
    ASSUME NEW f, Numbers(f)
    PROVE  SumFunction(f) \in Nat
  BY SumIsTokens, TokensFinite DEF Numbers

LEMMA SumMore ==
    ASSUME NEW f, NEW g, NEW x, Numbers(f), Numbers(g), Joins(g, x, f)
    PROVE  SumFunction(g) = SumFunction(f) + g[x]
  <1>1. PICK S : S = DOMAIN f
    OBVIOUS
  <1>2. /\ IsFiniteSet(S) /\ x \notin S /\ f \in [S -> Nat] /\ g \in [S \cup {x} -> Nat]
        /\ IsFiniteSet(S \cup {x}) /\ \A y \in S : f[y] = g[y]
    BY <1>1 DEF Numbers, Joins
  <1>3. SumFunction(f) = Cardinality(Tokens(S, f))
    BY <1>2, SumIsTokens
  <1>4. SumFunction(g) = Cardinality(Tokens(S \cup {x}, g))
    BY <1>2, SumIsTokens
  <1>5. Cardinality(Tokens(S \cup {x}, g)) = Cardinality(Tokens(S, f)) + g[x]
    BY <1>2, TokensMore
  <1>. QED
    BY <1>3, <1>4, <1>5

==============================================================================
