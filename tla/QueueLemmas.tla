---------------------------- MODULE QueueLemmas ----------------------------
(***************************************************************************)
(* Facts about sequences used as FIFO queues (List.push and List.pop of    *)
(* stdlib/list.cxy), cited by the proofs about the modules that keep       *)
(* coroutines in lists.                                                    *)
(***************************************************************************)
EXTENDS Naturals, Sequences, SequencesExt, Lists, SequenceTheorems,
        WellFoundedInduction, TLAPS

\* The elements of a sequence are what its indices 1 .. Len give.
LEMMA QueueElements ==
  ASSUME NEW S, NEW s \in Seq(S)
  PROVE  /\ \A x : x \in ToSet(s) <=> \E i \in 1 .. Len(s) : x = s[i]
         /\ ToSet(s) \subseteq S
         /\ IsInjective(s) <=>
              \A i, j \in 1 .. Len(s) : s[i] = s[j] => i = j
  BY LenProperties DEF ToSet, IsInjective

\* The empty queue has no elements.
LEMMA EmptyQueue ==
  ASSUME NEW S
  PROVE  <<>> \in Seq(S) /\ ToSet(<<>>) = {} /\ IsInjective(<<>>)
  BY DEF ToSet, IsInjective

\* List.push adds one element, and repeats none if it is new.
LEMMA PushQueue ==
  ASSUME NEW S, NEW s \in Seq(S), NEW x \in S
  PROVE  /\ Append(s, x) \in Seq(S)
         /\ ToSet(Append(s, x)) = ToSet(s) \union {x}
         /\ IsInjective(s) /\ x \notin ToSet(s) => IsInjective(Append(s, x))
<1> DEFINE p == Append(s, x)
<1>1. /\ p \in Seq(S)
      /\ Len(p) = Len(s) + 1
      /\ Len(s) \in Nat
      /\ \A i \in 1 .. Len(s) : p[i] = s[i]
      /\ p[Len(s) + 1] = x
  BY AppendProperties, LenProperties
<1> HIDE DEF p
<1>2. \A y : y \in ToSet(p) <=> y \in ToSet(s) \union {x}
  <2>1. \A i \in 1 .. Len(p) : i \in 1 .. Len(s) \/ i = Len(s) + 1
    BY <1>1
  <2>2. \A i \in 1 .. Len(s) : i \in 1 .. Len(p)
    BY <1>1
  <2>3. Len(s) + 1 \in 1 .. Len(p)
    BY <1>1
  <2> QED
    BY <1>1, <2>1, <2>2, <2>3, QueueElements
<1>3. ASSUME IsInjective(s), x \notin ToSet(s)
      PROVE  IsInjective(p)
  <2>1. ASSUME NEW i \in 1 .. Len(p), NEW j \in 1 .. Len(p), p[i] = p[j]
        PROVE  i = j
    <3>1. /\ i \in 1 .. Len(s) \/ i = Len(s) + 1
          /\ j \in 1 .. Len(s) \/ j = Len(s) + 1
      BY <1>1
    <3> QED
      BY <1>1, <1>3, <2>1, <3>1, QueueElements
  <2> QED
    BY <1>1, <2>1, QueueElements
<1> QED
  BY <1>1, <1>2, <1>3 DEF p

\* List.pop on a queue without repetitions removes its head and nothing else.
LEMMA PopQueue ==
  ASSUME NEW S, NEW s \in Seq(S), s # <<>>, IsInjective(s)
  PROVE  /\ Head(s) \in S
         /\ Head(s) \in ToSet(s)
         /\ Tail(s) \in Seq(S)
         /\ IsInjective(Tail(s))
         /\ ToSet(Tail(s)) = ToSet(s) \ {Head(s)}
<1> DEFINE t == Tail(s)
<1>1. /\ Head(s) \in S
      /\ t \in Seq(S)
      /\ Len(s) \in Nat \ {0}
      /\ Len(t) = Len(s) - 1
      /\ Head(s) = s[1]
      /\ \A i \in 1 .. Len(t) : t[i] = s[i + 1]
  BY HeadTailProperties, LenProperties, EmptySeq
<1> HIDE DEF t
<1>2. /\ 1 \in 1 .. Len(s)
      /\ \A i \in 1 .. Len(t) : i + 1 \in 1 .. Len(s) /\ i + 1 # 1
      /\ \A i \in 1 .. Len(s) : i # 1 => i - 1 \in 1 .. Len(t) /\ (i - 1) + 1 = i
      /\ \A i, j \in 1 .. Len(t) : i + 1 = j + 1 => i = j
  BY <1>1
<1>3. Head(s) \in ToSet(s)
  BY <1>1, <1>2, QueueElements
<1>4. IsInjective(t)
  BY <1>1, <1>2, QueueElements
<1>5. \A y : y \in ToSet(t) <=> y \in ToSet(s) \ {Head(s)}
  <2>1. ASSUME NEW y, y \in ToSet(t)
        PROVE  y \in ToSet(s) \ {Head(s)}
    <3>1. PICK i \in 1 .. Len(t) : y = t[i]
      BY <1>1, <2>1, QueueElements
    <3>2. y = s[i + 1] /\ i + 1 \in 1 .. Len(s) /\ i + 1 # 1
      BY <1>1, <1>2, <3>1
    <3> QED
      BY <1>1, <1>2, <3>2, QueueElements
  <2>2. ASSUME NEW y, y \in ToSet(s) \ {Head(s)}
        PROVE  y \in ToSet(t)
    <3>1. PICK i \in 1 .. Len(s) : y = s[i]
      BY <2>2, QueueElements
    <3>2. i # 1
      BY <1>1, <2>2, <3>1
    <3>3. i - 1 \in 1 .. Len(t) /\ t[i - 1] = y
      BY <1>1, <1>2, <3>1, <3>2
    <3> QED
      BY <1>1, <3>3, QueueElements
  <2> QED
    BY <2>1, <2>2
<1> QED
  BY <1>1, <1>3, <1>4, <1>5 DEF t

\* Draining one queue into another joins their elements; nothing is repeated
\* iff neither repeats anything and they share nothing.
LEMMA DrainQueue ==
  ASSUME NEW S, NEW s \in Seq(S), NEW r \in Seq(S)
  PROVE  /\ s \o r \in Seq(S)
         /\ ToSet(s \o r) = ToSet(s) \union ToSet(r)
         /\ IsInjective(s \o r) <=>
              /\ IsInjective(s)
              /\ IsInjective(r)
              /\ ToSet(s) \intersect ToSet(r) = {}
<1> DEFINE c == s \o r
<1>1. /\ c \in Seq(S)
      /\ Len(s) \in Nat
      /\ Len(r) \in Nat
      /\ Len(c) = Len(s) + Len(r)
      /\ \A i \in 1 .. Len(s) : i \in 1 .. Len(c) /\ c[i] = s[i]
      /\ \A i \in 1 .. Len(r) :
            Len(s) + i \in 1 .. Len(c) /\ c[Len(s) + i] = r[i]
  BY ConcatProperties, LenProperties
<1> HIDE DEF c
<1>2. /\ \A i \in 1 .. Len(c) :
           \/ i \in 1 .. Len(s)
           \/ \E j \in 1 .. Len(r) : i = Len(s) + j
      /\ \A i \in 1 .. Len(s), j \in 1 .. Len(r) : i # Len(s) + j
      /\ \A i, j \in 1 .. Len(r) : Len(s) + i = Len(s) + j => i = j
  <2>1. ASSUME NEW i \in 1 .. Len(c), i \notin 1 .. Len(s)
        PROVE  i - Len(s) \in 1 .. Len(r) /\ i = Len(s) + (i - Len(s))
    BY <1>1, <2>1
  <2>2. \A i \in 1 .. Len(c) :
           \/ i \in 1 .. Len(s)
           \/ \E j \in 1 .. Len(r) : i = Len(s) + j
    BY <2>1
  <2>3. \A i \in 1 .. Len(s), j \in 1 .. Len(r) : i # Len(s) + j
    BY <1>1
  <2>4. \A i, j \in 1 .. Len(r) : Len(s) + i = Len(s) + j => i = j
    BY <1>1
  <2> QED
    BY <2>2, <2>3, <2>4
<1>3. \A y : y \in ToSet(c) <=> y \in ToSet(s) \union ToSet(r)
  <2>1. ASSUME NEW y, y \in ToSet(c) PROVE y \in ToSet(s) \union ToSet(r)
    <3>1. PICK i \in 1 .. Len(c) : y = c[i]
      BY <1>1, <2>1, QueueElements
    <3>2. CASE i \in 1 .. Len(s)
      BY <1>1, <3>1, <3>2, QueueElements
    <3>3. ASSUME NEW j \in 1 .. Len(r), i = Len(s) + j
          PROVE  y \in ToSet(r)
      BY <1>1, <3>1, <3>3, QueueElements
    <3> QED
      BY <1>2, <3>2, <3>3
  <2>2. ASSUME NEW y, y \in ToSet(s) PROVE y \in ToSet(c)
    BY <1>1, <2>2, QueueElements
  <2>3. ASSUME NEW y, y \in ToSet(r) PROVE y \in ToSet(c)
    <3>1. PICK i \in 1 .. Len(r) : y = r[i]
      BY <2>3, QueueElements
    <3>2. Len(s) + i \in 1 .. Len(c) /\ c[Len(s) + i] = y
      BY <1>1, <3>1
    <3> QED
      BY <1>1, <3>2, QueueElements
  <2> QED
    BY <2>1, <2>2, <2>3
<1>4. ASSUME IsInjective(c)
      PROVE  IsInjective(s) /\ IsInjective(r) /\ ToSet(s) \intersect ToSet(r) = {}
  <2>1. \A i, j \in 1 .. Len(c) : c[i] = c[j] => i = j
    BY <1>1, <1>4, QueueElements
  <2>2. IsInjective(s)
    BY <1>1, <2>1, QueueElements
  <2>3. ASSUME NEW i \in 1 .. Len(r), NEW j \in 1 .. Len(r), r[i] = r[j]
        PROVE  i = j
    <3>1. Len(s) + i = Len(s) + j
      BY <1>1, <2>1, <2>3
    <3> QED
      BY <1>2, <3>1
  <2>4. IsInjective(r)
    BY <2>3, QueueElements
  <2>5. ASSUME NEW y, y \in ToSet(s), y \in ToSet(r) PROVE FALSE
    <3>1. PICK i \in 1 .. Len(s) : y = s[i]
      BY <2>5, QueueElements
    <3>2. PICK j \in 1 .. Len(r) : y = r[j]
      BY <2>5, QueueElements
    <3>3. i = Len(s) + j
      BY <1>1, <2>1, <3>1, <3>2
    <3> QED
      BY <1>2, <3>3
  <2> QED
    BY <2>2, <2>4, <2>5
<1>5. ASSUME IsInjective(s), IsInjective(r), ToSet(s) \intersect ToSet(r) = {}
      PROVE  IsInjective(c)
  <2>1. ASSUME NEW i \in 1 .. Len(c), NEW j \in 1 .. Len(c), c[i] = c[j]
        PROVE  i = j
    <3>1. ASSUME NEW a \in 1 .. Len(s), NEW b \in 1 .. Len(r)
          PROVE  s[a] # r[b]
      BY <1>5, QueueElements
    <3>2. \A a, b \in 1 .. Len(s) : s[a] = s[b] => a = b
      BY <1>5, QueueElements
    <3>3. \A a, b \in 1 .. Len(r) : r[a] = r[b] => a = b
      BY <1>5, QueueElements
    <3>4. CASE i \in 1 .. Len(s) /\ j \in 1 .. Len(s)
      BY <1>1, <2>1, <3>2, <3>4
    <3>5. ASSUME i \in 1 .. Len(s), NEW b \in 1 .. Len(r), j = Len(s) + b
          PROVE  FALSE
      BY <1>1, <2>1, <3>1, <3>5
    <3>6. ASSUME NEW a \in 1 .. Len(r), i = Len(s) + a, j \in 1 .. Len(s)
          PROVE  FALSE
      <4>1. s[j] = r[a]
        BY <1>1, <2>1, <3>6
      <4> QED
        BY <4>1, <3>1, <3>6
    <3>7. ASSUME NEW a \in 1 .. Len(r), i = Len(s) + a,
                 NEW b \in 1 .. Len(r), j = Len(s) + b
          PROVE  i = j
      <4>1. r[a] = r[b]
        BY <1>1, <2>1, <3>7
      <4> QED
        BY <4>1, <3>3, <3>7
    <3> QED
      BY <1>2, <3>4, <3>5, <3>6, <3>7
  <2> QED
    BY <1>1, <2>1, QueueElements
<1> QED
  BY <1>1, <1>3, <1>4, <1>5 DEF c

\* A queue drained into nothing, or of nothing, is itself.
LEMMA DrainEmpty ==
  ASSUME NEW S, NEW s \in Seq(S)
  PROVE  s \o <<>> = s /\ <<>> \o s = s
  BY ConcatEmptySeq

\* A list with one more element at its head.
LEMMA PushFront ==
  ASSUME NEW S, NEW s \in Seq(S), NEW x \in S
  PROVE  /\ <<x>> \o s \in Seq(S)
         /\ ToSet(<<x>> \o s) = ToSet(s) \union {x}
         /\ IsInjective(s) /\ x \notin ToSet(s) => IsInjective(<<x>> \o s)
<1>1. PICK r : r = <<x>>
  OBVIOUS
<1>2. r \in Seq(S) /\ ToSet(r) = {x} /\ IsInjective(r)
  BY <1>1 DEF ToSet, IsInjective
<1>3. /\ r \o s \in Seq(S)
      /\ ToSet(r \o s) = ToSet(r) \union ToSet(s)
      /\ IsInjective(s) /\ ToSet(r) \intersect ToSet(s) = {} => IsInjective(r \o s)
  BY <1>2, DrainQueue
<1> QED
  BY <1>1, <1>2, <1>3

\* A nonempty set of numbers has a least element.
LEMMA LeastElement ==
  ASSUME NEW T \in SUBSET Nat, T # {}
  PROVE  \E x \in T : \A y \in T : x <= y
<1>1. \E x \in T : \A y \in T : ~(<<y, x>> \in OpToRel(<, Nat))
  BY NatLessThanWellFounded, WFMin
<1>2. ASSUME NEW x \in T, NEW y \in T, ~(<<y, x>> \in OpToRel(<, Nat))
      PROVE  x <= y
  BY <1>2 DEF OpToRel
<1> QED
  BY <1>1, <1>2

\* Induction: a set of numbers with 0 in it that is closed under successor.
LEMMA Induction ==
  ASSUME NEW Q \in SUBSET Nat, 0 \in Q, \A n \in Q : n + 1 \in Q
  PROVE  Q = Nat
<1> SUFFICES ASSUME Nat \ Q # {} PROVE FALSE
  OBVIOUS
<1>1. PICK x \in Nat \ Q : \A y \in Nat \ Q : x <= y
  BY LeastElement
<1>2. x # 0 /\ x - 1 \in Nat /\ x - 1 \in Q
  BY <1>1
<1> QED
  BY <1>2

\* The head of a list is one of its elements, and the rest are in its tail.
LEMMA HeadAndTail ==
  ASSUME NEW S, NEW s \in Seq(S), s # <<>>
  PROVE  /\ Head(s) \in S /\ Tail(s) \in Seq(S)
         /\ ToSet(s) = {Head(s)} \union ToSet(Tail(s))
<1> DEFINE t == Tail(s)
<1>1. /\ Head(s) \in S /\ t \in Seq(S)
      /\ Len(s) \in Nat \ {0} /\ Len(t) = Len(s) - 1
      /\ Head(s) = s[1]
      /\ \A i \in 1 .. Len(t) : t[i] = s[i + 1]
  BY HeadTailProperties, LenProperties, EmptySeq
<1> HIDE DEF t
<1>2. /\ 1 \in 1 .. Len(s)
      /\ \A i \in 1 .. Len(t) : i + 1 \in 1 .. Len(s)
      /\ \A i \in 1 .. Len(s) : i # 1 => i - 1 \in 1 .. Len(t) /\ (i - 1) + 1 = i
  BY <1>1
<1>3. ASSUME NEW y, y \in ToSet(t) PROVE y \in ToSet(s)
  <2>1. PICK i \in 1 .. Len(t) : y = t[i]
    BY <1>1, <1>3, QueueElements
  <2> QED
    BY <1>1, <1>2, <2>1, QueueElements
<1>4. ASSUME NEW y, y \in ToSet(s), y # Head(s) PROVE y \in ToSet(t)
  <2>1. PICK i \in 1 .. Len(s) : y = s[i]
    BY <1>4, QueueElements
  <2>2. i - 1 \in 1 .. Len(t) /\ t[i - 1] = y
    BY <1>1, <1>2, <1>4, <2>1
  <2> QED
    BY <1>1, <2>2, QueueElements
<1>5. Head(s) \in ToSet(s)
  BY <1>1, <1>2, QueueElements
<1> QED
  BY <1>1, <1>3, <1>4, <1>5 DEF t

\* A list of one element, and no other, has an empty tail.
LEMMA LastOfList ==
  ASSUME NEW S, NEW s \in Seq(S), s # <<>>
  PROVE  Tail(s) = <<>> <=> Len(s) = 1
<1>1. /\ Tail(s) \in Seq(S) /\ Len(s) \in Nat \ {0}
      /\ Len(Tail(s)) = Len(s) - 1
  BY HeadTailProperties, LenProperties, EmptySeq
<1>2. Tail(s) = <<>> <=> Len(Tail(s)) = 0
  BY <1>1, EmptySeq
<1> QED
  BY <1>1, <1>2

\* The loop of Only is defined for every list ...
LEMMA OnlyIsDefined ==
  ASSUME NEW X, NEW s \in Seq(X), NEW S
  PROVE  \E kept :
           /\ kept = [n \in 0 .. Len(s) |->
                        IF n = 0 THEN <<>>
                        ELSE IF s[n] \in S THEN Append(kept[n - 1], s[n])
                             ELSE kept[n - 1]]
           /\ Only(s, S) = kept[Len(s)]
<1> DEFINE Loop(kept, m) ==
             kept = [n \in 0 .. m |->
                       IF n = 0 THEN <<>>
                       ELSE IF s[n] \in S THEN Append(kept[n - 1], s[n])
                            ELSE kept[n - 1]]
           Q == {m \in Nat : \E kept : Loop(kept, m)}
<1>1. Len(s) \in Nat
  BY LenProperties
<1>2. 0 \in Q
  <2> DEFINE k == [n \in 0 .. 0 |-> <<>>]
  <2>1. Loop(k, 0)
    OBVIOUS
  <2> QED
    BY <2>1
<1>3. ASSUME NEW m \in Q PROVE m + 1 \in Q
  <2>1. m \in Nat /\ m + 1 \in Nat
    OBVIOUS
  <2>2. PICK kept : Loop(kept, m)
    OBVIOUS
  <2> DEFINE more == [n \in 0 .. m + 1 |->
                        IF n = m + 1
                          THEN IF s[n] \in S THEN Append(kept[m], s[n])
                               ELSE kept[m]
                          ELSE kept[n]]
  <2>3. ASSUME NEW n \in 0 .. m + 1
        PROVE  more[n] = IF n = 0 THEN <<>>
                         ELSE IF s[n] \in S THEN Append(more[n - 1], s[n])
                              ELSE more[n - 1]
    <3>1. CASE n = m + 1
      <4>1. n # 0 /\ n - 1 = m /\ m \in 0 .. m + 1 /\ m # m + 1
        BY <2>1, <3>1
      <4> QED
        BY <2>1, <3>1, <4>1
    <3>2. CASE n = 0
      <4>1. 0 \in 0 .. m /\ 0 # m + 1 /\ kept[0] = <<>>
        BY <2>1, <2>2
      <4> QED
        BY <3>2, <4>1
    <3>3. CASE n # 0 /\ n # m + 1
      <4>1. /\ n \in 0 .. m /\ n - 1 \in 0 .. m + 1 /\ n - 1 # m + 1
        BY <2>1, <3>3
      <4>2. kept[n] = IF s[n] \in S THEN Append(kept[n - 1], s[n])
                      ELSE kept[n - 1]
        BY <2>2, <3>3, <4>1
      <4> QED
        BY <3>3, <4>1, <4>2
    <3> QED
      BY <3>1, <3>2, <3>3
  <2>4. more = [n \in 0 .. m + 1 |-> more[n]]
    OBVIOUS
  <2> HIDE DEF more
  <2>5. Loop(more, m + 1)
    BY <2>3, <2>4
  <2> QED
    BY <2>1, <2>5
<1>4. Len(s) \in Q
  <2> HIDE DEF Q
  <2>1. Q = Nat
    <3>1. Q \in SUBSET Nat
      BY DEF Q
    <3> QED
      BY <1>2, <1>3, <3>1, Induction
  <2> QED
    BY <1>1, <2>1
<1>5. \E kept : Loop(kept, Len(s))
  BY <1>4
<1> DEFINE chosen == CHOOSE kept : Loop(kept, Len(s))
<1>6. Loop(chosen, Len(s))
  BY <1>5
<1>7. Only(s, S) = chosen[Len(s)]
  BY DEF Only
<1> QED
  BY <1>6, <1>7

\* ... and keeps exactly the entries in S, each as often as it was there if that
\* is once.
LEMMA OnlyProperties ==
  ASSUME NEW X, NEW s \in Seq(X), NEW S
  PROVE  /\ Only(s, S) \in Seq(X)
         /\ Len(Only(s, S)) <= Len(s)
         /\ ToSet(Only(s, S)) = ToSet(s) \intersect S
         /\ IsInjective(s) => IsInjective(Only(s, S))
<1>1. PICK kept : /\ kept = [n \in 0 .. Len(s) |->
                               IF n = 0 THEN <<>>
                               ELSE IF s[n] \in S THEN Append(kept[n - 1], s[n])
                                    ELSE kept[n - 1]]
                  /\ Only(s, S) = kept[Len(s)]
  BY OnlyIsDefined
<1>2. Len(s) \in Nat /\ \A i \in 1 .. Len(s) : s[i] \in X
  BY LenProperties, ElementOfSeq
<1> DEFINE Upto(n) == {s[i] : i \in 1 .. n}
           Good(n) == /\ kept[n] \in Seq(X)
                      /\ Len(kept[n]) <= n
                      /\ ToSet(kept[n]) = Upto(n) \intersect S
                      /\ IsInjective(s) => IsInjective(kept[n])
           Q == {n \in Nat : n <= Len(s) => Good(n)}
<1>3. 0 \in Q
  <2>1. kept[0] = <<>>
    BY <1>1, <1>2
  <2>2. Upto(0) = {}
    OBVIOUS
  <2>3. /\ <<>> \in Seq(X) /\ ToSet(<<>>) = {} /\ Len(<<>>) = 0
        /\ IsInjective(<<>>)
    BY EmptyQueue
  <2> HIDE DEF Upto
  <2>4. Good(0)
    BY <2>1, <2>2, <2>3
  <2> QED
    BY <2>4
<1>4. ASSUME NEW n \in Q PROVE n + 1 \in Q
  <2> SUFFICES ASSUME n + 1 <= Len(s) PROVE Good(n + 1)
    OBVIOUS
  <2>1. n \in Nat /\ n <= Len(s) /\ n + 1 \in 1 .. Len(s)
    BY <1>2
  <2>2. Good(n)
    BY <2>1
  <2>3. kept[n + 1] = IF s[n + 1] \in S THEN Append(kept[n], s[n + 1])
                      ELSE kept[n]
    <3>1. n + 1 \in 0 .. Len(s) /\ n + 1 # 0 /\ (n + 1) - 1 = n
      BY <2>1
    <3> QED
      BY <1>1, <3>1
  <2>4. Upto(n + 1) = Upto(n) \union {s[n + 1]}
    <3>1. 1 .. n + 1 = (1 .. n) \union {n + 1}
      BY <2>1
    <3> QED
      BY <3>1
  <2> HIDE DEF Upto
  <2>5. CASE s[n + 1] \notin S
    BY <2>1, <2>2, <2>3, <2>4, <2>5, LenProperties
  <2>6. CASE s[n + 1] \in S
    <3>1. s[n + 1] \in X
      BY <1>2, <2>1
    <3>2. kept[n + 1] = Append(kept[n], s[n + 1])
      BY <2>3, <2>6
    <3>3. /\ kept[n + 1] \in Seq(X)
          /\ Len(kept[n + 1]) = Len(kept[n]) + 1 /\ Len(kept[n]) \in Nat
          /\ ToSet(kept[n + 1]) = ToSet(kept[n]) \union {s[n + 1]}
          /\ IsInjective(kept[n]) /\ s[n + 1] \notin ToSet(kept[n])
               => IsInjective(kept[n + 1])
      BY <2>2, <3>1, <3>2, PushQueue, AppendProperties, LenProperties
    <3>4. IsInjective(s) => s[n + 1] \notin ToSet(kept[n])
      <4>1. ASSUME IsInjective(s), NEW i \in 1 .. n, s[i] = s[n + 1] PROVE FALSE
        <5>1. i \in 1 .. Len(s) /\ i # n + 1
          BY <1>2, <2>1
        <5> QED
          BY <2>1, <4>1, <5>1, QueueElements
      <4>2. IsInjective(s) => s[n + 1] \notin Upto(n)
        BY <4>1 DEF Upto
      <4> QED
        BY <2>2, <4>2
    <3> QED
      BY <2>1, <2>2, <2>4, <2>6, <3>3, <3>4
  <2> QED
    BY <2>5, <2>6
<1>5. Good(Len(s))
  <2> HIDE DEF Q
  <2>1. Q = Nat
    <3>1. Q \in SUBSET Nat
      BY DEF Q
    <3> QED
      BY <1>3, <1>4, <3>1, Induction
  <2>2. Len(s) \in Q /\ Len(s) <= Len(s)
    BY <1>2, <2>1
  <2> HIDE DEF Good
  <2> QED
    BY <2>2 DEF Q
<1>6. Upto(Len(s)) = ToSet(s)
  BY <1>2 DEF ToSet
<1> QED
  BY <1>1, <1>5, <1>6

\* The n-th turn of a loop takes what the one before it left to what F[n] makes
\* of it; g has what each turn leaves.
Bodies(X) == [Nat -> [X -> X]]
IsLoop(g, x, F, N) ==
  g[0] = x /\ \A n \in 1 .. N : g[n] = F[n][g[n - 1]]

\* A loop is defined for any number of turns.
LEMMA LoopIsDefined ==
  ASSUME NEW X, NEW x \in X, NEW F \in Bodies(X), NEW N \in Nat
  PROVE  \E g \in [0 .. N -> X] : IsLoop(g, x, F, N)
<1> USE DEF Bodies, IsLoop
<1> DEFINE Loop(g, m) ==
             /\ g \in [0 .. m -> X]
             /\ g[0] = x /\ \A n \in 1 .. m : g[n] = F[n][g[n - 1]]
           Q == {m \in Nat : \E g : Loop(g, m)}
<1>1. 0 \in Q
  <2> DEFINE k == [n \in 0 .. 0 |-> x]
  <2>1. Loop(k, 0)
    OBVIOUS
  <2> QED
    BY <2>1
<1>2. ASSUME NEW m \in Q PROVE m + 1 \in Q
  <2>1. m \in Nat /\ m + 1 \in Nat
    OBVIOUS
  <2>2. PICK g : Loop(g, m)
    OBVIOUS
  <2> DEFINE more == [n \in 0 .. m + 1 |->
                        IF n = m + 1 THEN F[m + 1][g[m]] ELSE g[n]]
  <2>3. g[m] \in X /\ F[m + 1] \in [X -> X]
    BY <2>1, <2>2
  <2>4. F[m + 1][g[m]] \in X
    BY <2>3
  <2>5. more \in [0 .. m + 1 -> X]
    BY <2>1, <2>2, <2>4
  <2>6. more[0] = x
    BY <2>1, <2>2
  <2>7. ASSUME NEW n \in 1 .. m + 1 PROVE more[n] = F[n][more[n - 1]]
    <3>1. CASE n = m + 1
      <4>1. n - 1 = m /\ m \in 0 .. m + 1 /\ m # m + 1
        BY <2>1, <3>1
      <4> QED
        BY <2>1, <3>1, <4>1
    <3>2. CASE n # m + 1
      <4>1. n \in 1 .. m /\ n - 1 \in 0 .. m + 1 /\ n - 1 # m + 1
        BY <2>1, <3>2
      <4>2. g[n] = F[n][g[n - 1]]
        BY <2>2, <4>1
      <4> QED
        BY <3>2, <4>1, <4>2
    <3> QED
      BY <3>1, <3>2
  <2> HIDE DEF more
  <2>8. Loop(more, m + 1)
    BY <2>5, <2>6, <2>7
  <2> QED
    BY <2>1, <2>8
<1>3. N \in Q
  <2> HIDE DEF Q
  <2>1. Q = Nat
    <3>1. Q \in SUBSET Nat
      BY DEF Q
    <3> QED
      BY <1>1, <1>2, <3>1, Induction
  <2> QED
    BY <2>1
<1> QED
  BY <1>3
=============================================================================
