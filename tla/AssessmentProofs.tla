-------------------------- MODULE AssessmentProofs --------------------------
(***************************************************************************)
(* The verdicts of Assessment are true of the server, for every set of     *)
(* profile documents, topics, snapshots and bounds.                        *)
(*                                                                         *)
(* First what the searches and folds of CatalogChecks compute, for every   *)
(* input: MembersOf is reachability, EffectiveClasses is the last word     *)
(* about a class.                                                          *)
(***************************************************************************)
EXTENDS Assessment, FiniteSetTheorems, WellFoundedInduction, TLAPS

----------------------------------------------------------------------------
(* Numbers and recursive functions.                                        *)

\* A counterexample among the naturals has a least one.
LEMMA LeastNumber ==
  ASSUME NEW T, T \subseteq Nat, T # {}
  PROVE  \E n \in T : \A m \in T : n <= m
<1>1. \E n \in T : \A m \in T : ~(<<m, n>> \in OpToRel(<, Nat))
  BY NatLessThanWellFounded, WFMin, Zenon
<1>2. PICK n \in T : \A m \in T : ~(m < n)
  BY <1>1 DEF OpToRel
<1> QED BY <1>2

\* A value and a function per step make a function on the naturals.
LEMMA Recursion ==
  ASSUME NEW S, NEW start \in S, NEW step \in [Nat -> [S -> S]]
  PROVE  \E g \in [Nat -> S] : g[0] = start /\ \A n \in Nat : g[n + 1] = step[n + 1][g[n]]
<1> DEFINE Upto(n, h) == /\ h \in [0 .. n -> S] /\ h[0] = start
                         /\ \A i \in 1 .. n : h[i] = step[i][h[i - 1]]
<1>1. \A n \in Nat : \E h : Upto(n, h)
  <2> DEFINE Bad == {n \in Nat : ~\E h : Upto(n, h)}
  <2> SUFFICES ASSUME Bad # {} PROVE FALSE
    OBVIOUS
  <2>1. PICK n \in Bad : \A m \in Bad : n <= m
    <3> HIDE DEF Upto
    <3> QED BY LeastNumber
  <2>2. n # 0
    <3>1. Upto(0, [i \in 0 .. 0 |-> start])
      OBVIOUS
    <3> QED BY <3>1, <2>1
  <2>3. n - 1 \in Nat /\ n - 1 \notin Bad
    <3>1. n - 1 \in Nat /\ ~(n <= n - 1)
      BY <2>2
    <3> HIDE DEF Bad
    <3> QED BY <2>1, <3>1
  <2>4. PICK h : Upto(n - 1, h)
    BY <2>3
  <2>5. Upto(n, [i \in 0 .. n |-> IF i = n THEN step[n][h[n - 1]] ELSE h[i]])
    BY <2>2, <2>4
  <2> QED BY <2>1, <2>5
<1>2. ASSUME NEW n \in Nat, NEW h, NEW k, Upto(n, h), Upto(n + 1, k)
      PROVE  \A i \in 0 .. n : h[i] = k[i]
  <2> DEFINE Bad == {i \in 0 .. n : h[i] # k[i]}
  <2> SUFFICES ASSUME Bad # {} PROVE FALSE
    OBVIOUS
  <2>1. PICK i \in Bad : \A m \in Bad : i <= m
    <3>1. Bad \subseteq Nat
      OBVIOUS
    <3> HIDE DEF Bad, Upto
    <3> QED BY <3>1, LeastNumber
  <2>2. i # 0
    BY <1>2, <2>1
  <2>3. i - 1 \in 0 .. n /\ i - 1 \notin Bad
    BY <2>1, <2>2
  <2>4. h[i] = step[i][h[i - 1]] /\ k[i] = step[i][k[i - 1]]
    BY <1>2, <2>1, <2>2
  <2> QED BY <2>1, <2>3, <2>4
<1> DEFINE at(n) == CHOOSE h : Upto(n, h)
           g == [n \in Nat |-> at(n)[n]]
<1>3. \A n \in Nat : Upto(n, at(n))
  <2> HIDE DEF Upto
  <2> QED BY <1>1
<1> HIDE DEF at
<1>4. \A n \in Nat : at(n) \in [0 .. n -> S] /\ n \in 0 .. n /\ at(n)[0] = start
  BY <1>3
<1>5. g \in [Nat -> S] /\ g[0] = start
  BY <1>4
<1>6. \A n \in Nat : g[n + 1] = step[n + 1][g[n]]
  <2> SUFFICES ASSUME NEW n \in Nat PROVE g[n + 1] = step[n + 1][g[n]]
    OBVIOUS
  <2>1. Upto(n, at(n)) /\ Upto(n + 1, at(n + 1))
    <3> HIDE DEF Upto
    <3> QED BY <1>3
  <2>2. at(n + 1)[n + 1] = step[n + 1][at(n + 1)[n]]
    BY <2>1
  <2>3. \A i \in 0 .. n : at(n)[i] = at(n + 1)[i]
    <3> HIDE DEF Upto
    <3> QED BY <1>2, <2>1
  <2> QED BY <2>2, <2>3
<1> QED BY <1>5, <1>6

----------------------------------------------------------------------------
(* The search of MembersOf.                                                *)

Heads(memberships, X) == {m[2] : m \in {p \in memberships : p[1] \in X}}

\* The recursive function of MembersOf.
Layers(memberships, role) ==
  CHOOSE layer : layer = [n \in Nat |-> IF n = 0 THEN {role}
                                        ELSE layer[n - 1] \cup Heads(memberships, layer[n - 1])]

LEMMA MembersOfLayers ==
  ASSUME NEW memberships, NEW role
  PROVE  MembersOf(memberships, role) = Layers(memberships, role)[Cardinality(memberships)] \ {role}
BY DEF MembersOf, Layers, Heads

LEMMA LayersDefined ==
  ASSUME NEW M, NEW role
  PROVE  /\ Layers(M, role)[0] = {role}
         /\ \A n \in Nat : Layers(M, role)[n + 1] = Layers(M, role)[n] \cup Heads(M, Layers(M, role)[n])
<1> DEFINE S == SUBSET ({role} \cup {m[2] : m \in M})
           step == [n \in Nat |-> [X \in S |-> X \cup Heads(M, X)]]
<1>1. {role} \in S /\ step \in [Nat -> [S -> S]]
  BY DEF Heads
<1>2. PICK g \in [Nat -> S] : g[0] = {role} /\ \A n \in Nat : g[n + 1] = step[n + 1][g[n]]
  <2> DEFINE start == {role}
  <2> HIDE DEF S, step, start
  <2>1. start \in S /\ step \in [Nat -> [S -> S]]
    BY <1>1 DEF start
  <2>2. \E g \in [Nat -> S] : g[0] = start /\ \A n \in Nat : g[n + 1] = step[n + 1][g[n]]
    BY <2>1, Recursion, SMTT(60)
  <2> QED BY <2>2 DEF start
<1>3. \A n \in Nat \ {0} : g[n] = g[n - 1] \cup Heads(M, g[n - 1])
  <2> SUFFICES ASSUME NEW n \in Nat \ {0} PROVE g[n] = g[n - 1] \cup Heads(M, g[n - 1])
    OBVIOUS
  <2>1. n - 1 \in Nat /\ n = (n - 1) + 1 /\ g[n - 1] \in S
    BY <1>2
  <2>2. g[n] = step[n][g[n - 1]]
    <3> HIDE DEF S, step
    <3> QED BY <1>2, <2>1
  <2>3. step[n] = [X \in S |-> X \cup Heads(M, X)]
    OBVIOUS
  <2> HIDE DEF S
  <2> QED BY <2>1, <2>2, <2>3
<1>4. g = [n \in Nat |-> IF n = 0 THEN {role} ELSE g[n - 1] \cup Heads(M, g[n - 1])]
  <2> HIDE DEF S
  <2> QED BY <1>2, <1>3
<1>5. Layers(M, role) =
        [n \in Nat |-> IF n = 0 THEN {role}
                       ELSE Layers(M, role)[n - 1] \cup Heads(M, Layers(M, role)[n - 1])]
  BY <1>4 DEF Layers
<1> QED BY <1>5

\* A set that has the role and is closed under membership has every layer.
LEMMA LayersAreNecessary ==
  ASSUME NEW M, NEW role, NEW T, role \in T, Heads(M, T) \subseteq T
  PROVE  \A n \in Nat : Layers(M, role)[n] \subseteq T
<1> DEFINE L == Layers(M, role)
           Bad == {n \in Nat : ~(L[n] \subseteq T)}
<1> SUFFICES ASSUME Bad # {} PROVE FALSE
  OBVIOUS
<1>1. L[0] = {role} /\ \A n \in Nat : L[n + 1] = L[n] \cup Heads(M, L[n])
  BY LayersDefined
<1> HIDE DEF L
<1>2. PICK n \in Bad : \A m \in Bad : n <= m
  <2>1. Bad \subseteq Nat
    OBVIOUS
  <2> HIDE DEF Bad
  <2> QED BY <2>1, LeastNumber
<1>3. n # 0
  BY <1>1
<1>4. n - 1 \in Nat /\ n = (n - 1) + 1 /\ L[n - 1] \subseteq T
  <2>1. n - 1 \in Nat /\ ~(n <= n - 1)
    BY <1>3
  <2> QED BY <1>2, <2>1
<1>5. L[n] = L[n - 1] \cup Heads(M, L[n - 1])
  BY <1>1, <1>4
<1>6. Heads(M, L[n - 1]) \subseteq Heads(M, T)
  BY <1>4 DEF Heads
<1> QED BY <1>4, <1>5, <1>6

LEMMA LayersGrow ==
  ASSUME NEW M, NEW role
  PROVE  \A n \in Nat : /\ Layers(M, role)[n] \subseteq Layers(M, role)[n + 1]
                        /\ role \in Layers(M, role)[n]
                        /\ Layers(M, role)[n] \ {role} \subseteq {m[2] : m \in M}
<1> DEFINE L == Layers(M, role)
           Bad == {n \in Nat : role \notin L[n]}
<1>1. L[0] = {role} /\ \A n \in Nat : L[n + 1] = L[n] \cup Heads(M, L[n])
  BY LayersDefined
<1> HIDE DEF L
<1>2. Bad = {}
  <2> SUFFICES ASSUME Bad # {} PROVE FALSE
    OBVIOUS
  <2>1. PICK n \in Bad : \A m \in Bad : n <= m
    <3>1. Bad \subseteq Nat
      OBVIOUS
    <3> HIDE DEF Bad
    <3> QED BY <3>1, LeastNumber
  <2>2. n # 0
    BY <1>1
  <2>3. n - 1 \in Nat /\ n = (n - 1) + 1 /\ role \in L[n - 1]
    <3>1. n - 1 \in Nat /\ ~(n <= n - 1)
      BY <2>2
    <3> QED BY <2>1, <3>1
  <2> QED BY <1>1, <2>3
<1>3. \A n \in Nat : L[n] \subseteq {role} \cup {m[2] : m \in M}
  <2>1. Heads(M, {role} \cup {m[2] : m \in M}) \subseteq {role} \cup {m[2] : m \in M}
    BY DEF Heads
  <2> QED BY <2>1, LayersAreNecessary DEF L
<1> QED BY <1>1, <1>2, <1>3 DEF L

\* Each layer adds a head of its own until nothing is added any more, and there
\* are no more heads than memberships: the last layer is closed.
LEMMA LastLayerIsClosed ==
  ASSUME NEW M, IsFiniteSet(M), NEW role
  PROVE  LET last == Layers(M, role)[Cardinality(M)] IN Heads(M, last) \subseteq last
<1> DEFINE L == Layers(M, role)
           H == {m[2] : m \in M}
           New(n) == L[n] \ {role}
           Closed(n) == Heads(M, L[n]) \subseteq L[n]
           k == Cardinality(M)
           Bad == {n \in Nat : ~Closed(n) /\ ~(Cardinality(New(n)) >= n)}
<1>1. \A n \in Nat : L[n + 1] = L[n] \cup Heads(M, L[n])
  BY LayersDefined
<1>2. \A n \in Nat : L[n] \subseteq L[n + 1] /\ role \in L[n] /\ New(n) \subseteq H
  BY LayersGrow
<1> HIDE DEF L
<1>3. IsFiniteSet(H) /\ Cardinality(H) <= k /\ k \in Nat /\ Cardinality(H) \in Nat
  <2>1. [m \in M |-> m[2]] \in Surjection(M, H)
    BY DEF Surjection
  <2> HIDE DEF H
  <2> QED BY <2>1, FS_Surjection, FS_CardinalityType
<1>4. \A n \in Nat : IsFiniteSet(New(n)) /\ Cardinality(New(n)) \in Nat
  <2> HIDE DEF H, New
  <2> QED BY <1>2, <1>3, FS_Subset, FS_CardinalityType
<1>5. Bad = {}
  <2> SUFFICES ASSUME Bad # {} PROVE FALSE
    OBVIOUS
  <2>1. PICK n \in Bad : \A m \in Bad : n <= m
    <3>1. Bad \subseteq Nat
      OBVIOUS
    <3> HIDE DEF Bad
    <3> QED BY <3>1, LeastNumber
  <2>2. n \in Nat /\ ~Closed(n) /\ Cardinality(New(n)) < n
    <3>1. n \in Nat /\ Cardinality(New(n)) \in Nat
      BY <1>4
    <3> HIDE DEF New
    <3> QED BY <3>1
  <2>3. n - 1 \in Nat /\ n = (n - 1) + 1 /\ n - 1 \notin Bad
    <3>1. Cardinality(New(n)) \in Nat
      BY <1>4, <2>2
    <3>2. n - 1 \in Nat /\ n = (n - 1) + 1 /\ ~(n <= n - 1)
      BY <2>2, <3>1
    <3> HIDE DEF Bad
    <3> QED BY <2>1, <3>2
  <2>4. L[n] = L[n - 1] \cup Heads(M, L[n - 1])
    BY <1>1, <2>3
  <2>5. ~Closed(n - 1)
    BY <2>2, <2>4
  <2>6. Cardinality(New(n - 1)) >= n - 1
    BY <2>3, <2>5
  <2>7. PICK h : h \in L[n] /\ h \notin L[n - 1]
    BY <2>4, <2>5
  <2>8. h \notin New(n - 1) /\ New(n - 1) \cup {h} \subseteq New(n)
    BY <1>2, <2>3, <2>4, <2>7
  <2>9. Cardinality(New(n - 1) \cup {h}) = Cardinality(New(n - 1)) + 1
    <3> HIDE DEF New
    <3> QED BY <1>4, <2>3, <2>8, FS_AddElement
  <2>10. Cardinality(New(n - 1) \cup {h}) <= Cardinality(New(n))
    <3> HIDE DEF New
    <3> QED BY <1>4, <2>2, <2>8, FS_Subset
  <2>11. Cardinality(New(n)) \in Nat /\ Cardinality(New(n - 1)) \in Nat
    BY <1>4, <2>2, <2>3
  <2> HIDE DEF New
  <2> QED BY <2>2, <2>3, <2>6, <2>9, <2>10, <2>11
<1>6. CASE Closed(k)
  BY <1>6 DEF L
<1>7. CASE ~Closed(k)
  <2>1. Cardinality(New(k)) >= k
    BY <1>3, <1>5, <1>7
  <2>2. Cardinality(New(k)) <= Cardinality(H) /\ (Cardinality(H) = Cardinality(New(k)) => H = New(k))
    <3> HIDE DEF New, H
    <3> QED BY <1>2, <1>3, FS_Subset
  <2>3. H = New(k)
    <3> HIDE DEF New, H, k
    <3> QED BY <1>3, <1>4, <2>1, <2>2
  <2>4. Heads(M, L[k]) \subseteq H
    BY DEF Heads
  <2> QED BY <1>7, <2>3, <2>4
<1> QED BY <1>6, <1>7

\* The breadth-first search stops late enough: whoever is a member of a member
\* is found, for every set of memberships, cycles included.
LEMMA MembersAreClosed ==
  ASSUME NEW M, IsFiniteSet(M), NEW S
  PROVE  LET all == S \cup MembersOfAll(M, S) IN \A m \in M : m[1] \in all => m[2] \in all
<1> DEFINE last(r) == Layers(M, r)[Cardinality(M)]
           all == S \cup MembersOfAll(M, S)
<1>1. \A r : r \in last(r) /\ MembersOf(M, r) = last(r) \ {r}
  BY FS_CardinalityType, LayersGrow, MembersOfLayers
<1>2. \A r : \A m \in M : m[1] \in last(r) => m[2] \in last(r)
  BY LastLayerIsClosed DEF Heads
<1> HIDE DEF last
<1>3. all = UNION {last(r) : r \in S}
  BY <1>1 DEF MembersOfAll
<1> QED BY <1>2, <1>3

\* And it finds nobody else.
LEMMA MembersAreNecessary ==
  ASSUME NEW M, IsFiniteSet(M), NEW S, NEW T, S \subseteq T,
         \A m \in M : m[1] \in T => m[2] \in T
  PROVE  MembersOfAll(M, S) \subseteq T
<1>1. Heads(M, T) \subseteq T
  BY DEF Heads
<1>2. \A r \in S : MembersOf(M, r) \subseteq T
  BY <1>1, FS_CardinalityType, LayersAreNecessary, MembersOfLayers
<1> QED BY <1>2 DEF MembersOfAll

----------------------------------------------------------------------------
(* The fold of EffectiveClasses.                                           *)

\* What a word says about classes, and the recursive function of the fold.
Bits(w) == IF w.class = "all" THEN Classes ELSE {w.class} \cap Classes

WordsRead(words) ==
  CHOOSE found : found = [n \in 0 .. Len(words) |->
    IF n = 0 THEN {}
    ELSE IF words[n].minus THEN found[n - 1] \ Bits(words[n]) ELSE found[n - 1] \cup Bits(words[n])]

LEMMA WordsReadDefined ==
  ASSUME NEW words, Len(words) \in Nat
  PROVE  /\ WordsRead(words)[0] = {}
         /\ \A n \in 1 .. Len(words) : WordsRead(words)[n] =
              IF words[n].minus THEN WordsRead(words)[n - 1] \ Bits(words[n])
                                ELSE WordsRead(words)[n - 1] \cup Bits(words[n])
<1> DEFINE S == SUBSET Classes
           next(n, X) == IF words[n].minus THEN X \ Bits(words[n]) ELSE X \cup Bits(words[n])
           step == [n \in Nat |-> [X \in S |-> next(n, X)]]
           start == {}
<1>1. start \in S /\ step \in [Nat -> [S -> S]]
  BY DEF Bits
<1>2. PICK g \in [Nat -> S] : g[0] = start /\ \A n \in Nat : g[n + 1] = step[n + 1][g[n]]
  <2> HIDE DEF S, step, start, next
  <2>1. start \in S /\ step \in [Nat -> [S -> S]]
    BY <1>1
  <2>2. \E g \in [Nat -> S] : g[0] = start /\ \A n \in Nat : g[n + 1] = step[n + 1][g[n]]
    BY ONLY <2>1, Recursion, SMTT(60)
  <2> QED BY <2>2
<1> DEFINE h == [n \in 0 .. Len(words) |-> g[n]]
<1>3. \A n \in 1 .. Len(words) : h[n] = next(n, h[n - 1])
  <2> SUFFICES ASSUME NEW n \in 1 .. Len(words) PROVE h[n] = next(n, h[n - 1])
    OBVIOUS
  <2>1. n - 1 \in Nat /\ n = (n - 1) + 1 /\ n - 1 \in 0 .. Len(words) /\ g[n - 1] \in S
    BY <1>2
  <2>2. g[n] = step[n][g[n - 1]]
    <3> HIDE DEF S, step
    <3> QED BY <1>2, <2>1
  <2>3. step[n] = [X \in S |-> next(n, X)]
    OBVIOUS
  <2> HIDE DEF S, next
  <2> QED BY <2>1, <2>2, <2>3
<1>4. h = [n \in 0 .. Len(words) |->
             IF n = 0 THEN {} ELSE IF words[n].minus THEN h[n - 1] \ Bits(words[n])
                                                     ELSE h[n - 1] \cup Bits(words[n])]
  <2>1. h[0] = {}
    BY <1>2
  <2>2. \A n \in 0 .. Len(words) : n # 0 => n \in 1 .. Len(words)
    OBVIOUS
  <2> HIDE DEF S
  <2> QED BY <1>3, <2>1, <2>2
<1>5. WordsRead(words) =
        [n \in 0 .. Len(words) |->
           IF n = 0 THEN {}
           ELSE IF words[n].minus THEN WordsRead(words)[n - 1] \ Bits(words[n])
                                  ELSE WordsRead(words)[n - 1] \cup Bits(words[n])]
  BY <1>4 DEF WordsRead
<1>6. 0 \in 0 .. Len(words) /\ \A n \in 1 .. Len(words) : n \in 0 .. Len(words) /\ n # 0
  OBVIOUS
<1> QED BY <1>5, <1>6, Zenon

LEMMA EffectiveClassesRead ==
  ASSUME NEW words PROVE EffectiveClasses(words) = WordsRead(words)[Len(words)]
BY DEF EffectiveClasses, WordsRead, Bits

\* Word i names the class, and no word after it, up to word n, takes it away.
Named(words, i, k) == words[i].class \in {k, "all"}
AddedUpTo(words, n, k) ==
  \E i \in 1 .. n : /\ Named(words, i, k) /\ ~words[i].minus
                    /\ \A j \in i + 1 .. n : words[j].minus => ~Named(words, j, k)

\* One more word adds the class, takes it away, or says nothing about it.
LEMMA NextWord ==
  ASSUME NEW words, NEW n \in Nat \ {0}, NEW k
  PROVE  AddedUpTo(words, n, k) <=>
           IF Named(words, n, k) THEN ~words[n].minus ELSE AddedUpTo(words, n - 1, k)
<1>1. CASE Named(words, n, k) /\ ~words[n].minus
  BY <1>1 DEF AddedUpTo
<1>2. CASE Named(words, n, k) /\ words[n].minus
  <2>1. \A i \in 1 .. n : i = n \/ n \in i + 1 .. n
    OBVIOUS
  <2> QED BY <1>2, <2>1 DEF AddedUpTo
<1>3. CASE ~Named(words, n, k)
  <2>1. \A i \in 1 .. n - 1 : i \in 1 .. n /\ \A j \in i + 1 .. n : j = n \/ j \in i + 1 .. n - 1
    OBVIOUS
  <2>2. \A i \in 1 .. n : Named(words, i, k) =>
          i \in 1 .. n - 1 /\ \A j \in i + 1 .. n - 1 : j \in i + 1 .. n
    BY <1>3
  <2>3. ASSUME AddedUpTo(words, n, k) PROVE AddedUpTo(words, n - 1, k)
    BY <2>2, <2>3 DEF AddedUpTo
  <2>4. ASSUME AddedUpTo(words, n - 1, k) PROVE AddedUpTo(words, n, k)
    BY <1>3, <2>1, <2>4 DEF AddedUpTo
  <2> QED BY <1>3, <2>3, <2>4
<1> QED BY <1>1, <1>2, <1>3

\* The last word about a class decides.
LEMMA LastWordDecides ==
  ASSUME NEW words, Len(words) \in Nat, NEW k \in Classes
  PROVE  k \in EffectiveClasses(words) <=> AddedUpTo(words, Len(words), k)
<1> DEFINE W == WordsRead(words)
           Bad == {n \in 0 .. Len(words) : ~(k \in W[n] <=> AddedUpTo(words, n, k))}
<1>1. W[0] = {} /\ \A n \in 1 .. Len(words) :
        W[n] = IF words[n].minus THEN W[n - 1] \ Bits(words[n]) ELSE W[n - 1] \cup Bits(words[n])
  BY WordsReadDefined
<1> HIDE DEF W
<1>2. \A n : k \in Bits(words[n]) <=> Named(words, n, k)
  BY DEF Bits, Named, Classes
<1>3. Bad = {}
  <2> SUFFICES ASSUME Bad # {} PROVE FALSE
    OBVIOUS
  <2>1. PICK n \in Bad : \A m \in Bad : n <= m
    <3>1. Bad \subseteq Nat
      OBVIOUS
    <3> HIDE DEF Bad
    <3> QED BY <3>1, LeastNumber
  <2>2. n # 0
    BY <1>1 DEF AddedUpTo
  <2>3. n \in 1 .. Len(words) /\ n - 1 \in 0 .. Len(words) /\ ~(n <= n - 1)
    BY <2>2
  <2>4. k \in W[n - 1] <=> AddedUpTo(words, n - 1, k)
    <3>1. n - 1 \notin Bad
      <4> HIDE DEF Bad
      <4> QED BY <2>1, <2>3
    <3> QED BY <2>3, <3>1
  <2>5. AddedUpTo(words, n, k) <=>
          IF Named(words, n, k) THEN ~words[n].minus ELSE AddedUpTo(words, n - 1, k)
    BY <2>3, NextWord
  <2>6. k \in W[n] <=> IF Named(words, n, k) THEN ~words[n].minus ELSE k \in W[n - 1]
    BY <1>1, <1>2, <2>3
  <2> QED BY <2>4, <2>5, <2>6
<1>4. k \in W[Len(words)] <=> AddedUpTo(words, Len(words), k)
  BY <1>3
<1> QED BY <1>4, EffectiveClassesRead DEF W

----------------------------------------------------------------------------
(* Setting evidence.                                                       *)

\* What the collector brings back of the setting part of a server with values v.
SettingSeen(v) == SettingEvidence(v) \cup Refusable(v) \cup {Clean(v)}

\* An entry without a problem, of a setting no session set, shows the server's
\* value.
Faithful(set, v) ==
  /\ \A k \in ManifestKeys(Specs) :
       /\ set.entry[k] \in EntryStates
       /\ set.entry[k] = "ok" /\ SettingOf(k) \notin set.session => set.value[k] = v[SettingOf(k)]

LEMMA CleanFaithful == ASSUME NEW v PROVE Faithful(Clean(v), v)
BY DEF Clean, Faithful, EntryStates

LEMMA SeenFaithful == ASSUME NEW v, NEW set \in SettingSeen(v) PROVE Faithful(set, v)
<1> DEFINE K == ManifestKeys(Specs)
<1> USE DEF Clean
<1>1. CASE set = Clean(v)
  BY <1>1, CleanFaithful
<1>2. CASE set \in Refusable(v)
  <2>1. set.entry = Clean(v).entry /\ set.value = Clean(v).value /\ set.session = Clean(v).session
    BY <1>2 DEF Refusable
  <2> QED BY <2>1, CleanFaithful DEF Faithful
<1>3. ASSUME NEW k \in K, NEW state \in EntryStates \ {"ok"}, NEW seen, set = EntryWrong(v, k, state, seen)
      PROVE  Faithful(set, v)
  <2>1. /\ set.entry = [Clean(v).entry EXCEPT ![k] = state]
        /\ set.value = [Clean(v).value EXCEPT ![k] = seen]
    BY <1>3 DEF EntryWrong
  <2> QED BY <1>3, <2>1 DEF Faithful, EntryStates
<1>4. ASSUME NEW name, NEW seen, set = SessionValue(v, name, seen)
      PROVE  Faithful(set, v)
  <2>1. /\ set.entry = Clean(v).entry /\ set.session = {name}
        /\ set.value = [k \in K |-> IF SettingOf(k) = name THEN seen ELSE Clean(v).value[k]]
    BY <1>4 DEF SessionValue
  <2> QED BY <1>4, <2>1 DEF Faithful, EntryStates
<1> HIDE DEF K, Clean
<1>5. ASSUME set \in SettingEvidence(v)
      PROVE  \/ set = Clean(v)
             \/ \E k \in K : \E state \in EntryStates \ {"ok"} : \E seen : set = EntryWrong(v, k, state, seen)
             \/ \E name, seen : set = SessionValue(v, name, seen)
  <2> DEFINE values(n) == {w[n] : w \in SettingTruths(topic)}
             A(k) == {EntryWrong(v, k, state, seen) : state \in EntryStates \ {"ok"}, seen \in values(SettingOf(k))}
             B(n) == {SessionValue(v, n, seen) : seen \in values(n)}
             AA == {A(k) : k \in K}
             BB == {B(n) : n \in DOMAIN v}
  <2>1. set \in UNION {{Clean(v)}, UNION AA, UNION BB}
    BY <1>5 DEF SettingEvidence, K
  <2>2. ASSUME NEW X \in AA, set \in X
        PROVE  \E k \in K : \E state \in EntryStates \ {"ok"} : \E seen : set = EntryWrong(v, k, state, seen)
    <3>1. PICK k \in K : X = A(k)
      OBVIOUS
    <3> QED BY <2>2, <3>1
  <2>3. ASSUME NEW X \in BB, set \in X PROVE \E name, seen : set = SessionValue(v, name, seen)
    BY <2>3
  <2> HIDE DEF AA, BB
  <2> QED BY <2>1, <2>2, <2>3
<1>6. set = Clean(v) \/ set \in Refusable(v) \/ set \in SettingEvidence(v)
  BY DEF SettingSeen
<1> QED BY <1>1, <1>2, <1>3, <1>4, <1>5, <1>6

----------------------------------------------------------------------------
(* The decision of a setting check.                                        *)

LEMMA ListeningSpecs ==
  ASSUME topic = "listening"
  PROVE  /\ DOMAIN Specs = {"5.2", "3.1.14", "3.1.8", "6.x"}
         /\ Specs["5.2"] = Automated("addresses", "no_item_in", {"*", "0.0.0.0"}, {})
         /\ Specs["3.1.14"] = Automated("level", "at_or_more_verbose", {"warning"}, {})
         /\ Specs["3.1.8"] = [Automated("age", "in", {}, {}) EXCEPT !.tier = "parameterised"]
         /\ Specs["6.x"] = [Automated("level", "equals", {}, {}) EXCEPT !.tier = "manual"]
<1> HIDE DEF Automated
<1> QED BY DEF Specs

LEMMA OtherSpecs ==
  ASSUME topic # "listening"
  PROVE  /\ DOMAIN Specs = {"3.1.2", "3.1.12"}
         /\ Specs["3.1.2"] = Automated("destination", "contains_items", {"csvlog"}, {})
         /\ Specs["3.1.12"] = Automated("facility", "equals", {"local0"},
                                {[setting |-> "destination", op |-> "contains_items",
                                  expected |-> {"syslog"}]})
<1> HIDE DEF Automated
<1> QED BY DEF Specs

\* The checks the collector is asked for, and the setting each shows.
LEMMA CheckAsked ==
  ASSUME NEW c \in DOMAIN Specs, Specs[c].tier # "manual"
  PROVE  CheckKey(c) \in ManifestKeys(Specs) /\ SettingOf(CheckKey(c)) = Specs[c].setting
BY DEF ManifestKeys, SettingOf, CheckKey

LEMMA ConditionAsked ==
  ASSUME NEW c \in DOMAIN Specs, NEW w, Specs[c].when = {w}
  PROVE  ConditionKey(c) \in ManifestKeys(Specs) /\ SettingOf(ConditionKey(c)) = w.setting
<1>1. ConditionKey(c) \in ManifestKeys(Specs)
  BY DEF ManifestKeys
<1>2. (CHOOSE x \in {w} : TRUE) = w
  OBVIOUS
<1>3. ConditionKey(c)[1] = c /\ ConditionKey(c)[2] # "check"
  BY DEF ConditionKey
<1> QED BY <1>1, <1>2, <1>3 DEF SettingOf

\* What a check is judged by.
ExpectedOf(c, p) ==
  IF Specs[c].tier = "parameterised" THEN (CHOOSE e \in PolicyEntry(c, p) : TRUE).expected
  ELSE Specs[c].expected

\* A verdict is the operator's answer on the server's own value.
LEMMA DecidedByValue ==
  ASSUME NEW v, NEW set, Faithful(set, v), NEW p, NEW c \in DOMAIN Specs
  PROVE  LET d == Decide(Specs, c, set, p)
             a == Apply(Specs[c], v[Specs[c].setting], ExpectedOf(c, p))
         IN /\ d \in {"PASS", "FAIL"} => (Specs[c].tier = "parameterised" => PolicyEntry(c, p) # {})
            /\ d = "PASS" => a = "true"
            /\ d = "FAIL" => a = "false"
            /\ d = "MANUAL" => Specs[c].tier # "automated"
<1> DEFINE entry == set.entry[CheckKey(c)]
<1>1. CASE Specs[c].tier = "manual"
  BY <1>1 DEF Decide
<1>2. CASE Specs[c].tier = "parameterised" /\ PolicyEntry(c, p) = {}
  BY <1>2 DEF Decide
<1>3. CASE Specs[c].tier # "manual" /\ (Specs[c].tier = "parameterised" => PolicyEntry(c, p) # {})
  <2> DEFINE a == Apply(Specs[c], set.value[CheckKey(c)], ExpectedOf(c, p))
             d == Decide(Specs, c, set, p)
  <2>1. entry \in EntryStates
    BY <1>3, CheckAsked DEF Faithful
  <2>2. entry # "ok" => d \in {"NOT_COLLECTED", "STALE", "ERROR"}
    BY <1>3, <2>1 DEF Decide, Problem, EntryStates
  <2>3. entry = "ok" /\ Specs[c].setting \in set.session => d = "NOT_COLLECTED"
    BY <1>3 DEF Decide
  <2>4. entry = "ok" /\ Specs[c].setting \notin set.session =>
          set.value[CheckKey(c)] = v[Specs[c].setting]
    BY <1>3, CheckAsked DEF Faithful
  <2>5. a \in {"true", "false", "error"}
    BY DEF Apply, Answer, ContainsItems, NoItemIn, Severity
  <2>6. entry = "ok" => /\ d # "MANUAL"
                        /\ d = "PASS" => a = "true"
                        /\ d = "FAIL" => a = "false"
    <3>1. Specs[c].when # {} => set.entry[ConditionKey(c)] \in EntryStates
      BY DEF Faithful, ManifestKeys
    <3>2. Specs[c].when # {} /\ set.entry[ConditionKey(c)] # "ok" =>
            Problem(set.entry[ConditionKey(c)]) \in {"NOT_COLLECTED", "STALE", "ERROR"}
      BY <3>1 DEF Problem, EntryStates
    <3> HIDE DEF a
    <3> QED BY <1>3, <2>5, <3>2 DEF Decide, ExpectedOf, a
  <2> QED BY <1>3, <2>2, <2>3, <2>4, <2>6
<1> QED BY <1>1, <1>2, <1>3

\* A control is inapplicable only when its condition is false on the server.
LEMMA InapplicableByValue ==
  ASSUME NEW v, NEW set, Faithful(set, v), NEW p, NEW c \in DOMAIN Specs,
         Decide(Specs, c, set, p) = "NOT_APPLICABLE"
  PROVE  \E w \in Specs[c].when :
           Specs[c].when = {w} => Apply(w, v[w.setting], w.expected) = "false"
<1> DEFINE cond == set.entry[ConditionKey(c)]
<1>1. Specs[c].tier # "manual" /\ ~(Specs[c].tier = "parameterised" /\ PolicyEntry(c, p) = {})
  BY DEF Decide
<1>2. set.entry[CheckKey(c)] = "ok" /\ Specs[c].setting \notin set.session
  <2>1. set.entry[CheckKey(c)] \in EntryStates
    BY <1>1, CheckAsked DEF Faithful
  <2> QED BY <1>1, <2>1 DEF Decide, Problem, EntryStates
<1>3. PICK w \in Specs[c].when : Apply(w, set.value[ConditionKey(c)], w.expected) = "false" /\ cond = "ok"
                                 /\ w.setting \notin set.session
  <2>1. Specs[c].when # {} => cond \in EntryStates
    BY DEF Faithful, ManifestKeys
  <2>2. Specs[c].when # {} /\ cond # "ok" => Problem(cond) \in {"NOT_COLLECTED", "STALE", "ERROR"}
    BY <2>1 DEF Problem, EntryStates
  <2> DEFINE a == Apply(Specs[c], set.value[CheckKey(c)], ExpectedOf(c, p))
  <2>3. a \in {"true", "false", "error"}
    BY DEF Apply, Answer, ContainsItems, NoItemIn, Severity
  <2> HIDE DEF a
  <2> QED BY <1>1, <1>2, <2>2, <2>3 DEF Decide, ExpectedOf, a
<1>4. ASSUME Specs[c].when = {w} PROVE set.value[ConditionKey(c)] = v[w.setting]
  BY <1>3, <1>4, ConditionAsked DEF Faithful
<1> QED BY <1>3, <1>4

----------------------------------------------------------------------------
(* Each setting control, on the server and on the value of its fix.        *)

\* Position is the index of a level that is on the scale.
LEMMA Positions ==
  /\ DOMAIN Levels = 1 .. 4
  /\ Position({"info"}) = 1 /\ Position({"warning"}) = 2
  /\ Position({"error"}) = 3 /\ Position({"panic"}) = 4
<1>1. DOMAIN Levels = 1 .. 4 /\ Levels[1] = "info" /\ Levels[2] = "warning"
      /\ Levels[3] = "error" /\ Levels[4] = "panic"
  BY DEF Levels
<1>2. \A i \in 1 .. 4 : i = 1 \/ i = 2 \/ i = 3 \/ i = 4
  OBVIOUS
<1>3. \A i, j \in 1 .. 4 : {Levels[j]} = {Levels[i]} => i = j
  BY <1>1, <1>2
<1>4. ASSUME NEW i \in 1 .. 4 PROVE Position({Levels[i]}) = i
  BY <1>1, <1>3 DEF Position
<1>5. 1 \in 1 .. 4 /\ 2 \in 1 .. 4 /\ 3 \in 1 .. 4 /\ 4 \in 1 .. 4
  OBVIOUS
<1> QED BY <1>1, <1>4, <1>5

\* On the scale of levels the verbose ones are info and warning.
LEMMA VerboseLevels ==
  ASSUME NEW a
  PROVE  /\ Severity("at_or_more_verbose", a, {"warning"}) = "true" => a \in {{"info"}, {"warning"}}
         /\ Severity("at_or_more_verbose", a, {"warning"}) = "false" => a \notin {{"info"}, {"warning"}}
<1>1. Levels[1] = "info" /\ Levels[2] = "warning" /\ Levels[3] = "error" /\ Levels[4] = "panic"
  BY DEF Levels
<1>2. \A i \in DOMAIN Levels : i = 1 \/ i = 2 \/ i = 3 \/ i = 4
  BY Positions
<1>3. CASE \E i \in DOMAIN Levels : {Levels[i]} = a
  <2>1. a \in {{"info"}, {"warning"}, {"error"}, {"panic"}}
    BY <1>1, <1>2, <1>3
  <2>2. {"info"} # {"error"} /\ {"info"} # {"panic"} /\ {"warning"} # {"error"} /\ {"warning"} # {"panic"}
    OBVIOUS
  <2> QED BY <1>3, <2>1, <2>2, Positions DEF Severity, Answer
<1>4. CASE ~\E i \in DOMAIN Levels : {Levels[i]} = a
  BY <1>4 DEF Severity
<1> QED BY <1>3, <1>4

\* What an operator's answer on a value means for the control.
LEMMA AnswerMeans ==
  ASSUME topic \in SettingTopics \cup CatalogTopics, NEW v \in SettingTruths(topic), NEW p,
         NEW c \in DOMAIN Specs, Specs[c].tier # "manual",
         Specs[c].tier = "parameterised" => PolicyEntry(c, p) # {}, NEW a
  PROVE  LET answer == Apply(Specs[c], a, ExpectedOf(c, p))
             w == [v EXCEPT ![Specs[c].setting] = a]
         IN /\ answer = "true" => Meets(c, w, p)
            /\ answer = "false" /\ (c = "3.1.12" => "syslog" \in v.destination) => ~Meets(c, w, p)
<1> DEFINE answer == Apply(Specs[c], a, ExpectedOf(c, p))
           w == [v EXCEPT ![Specs[c].setting] = a]
<1>1. CASE topic = "listening"
  <2>1. v \in [addresses : (SUBSET {"*", "0x0", "localhost"}) \cup {{"?"}},
               level : {{l} : l \in {"info", "warning", "error", "?"}}, age : {{"1d"}, {"9d"}}]
    BY <1>1 DEF SettingTruths
  <2>2. CASE c = "5.2"
    <3>1. Specs[c] = Automated("addresses", "no_item_in", {"*", "0.0.0.0"}, {}) /\ w.addresses = a
      BY <1>1, <2>1, <2>2, ListeningSpecs DEF Automated
    <3> QED BY <2>2, <3>1 DEF Apply, NoItemIn, Meets, ExpectedOf, Automated
  <2>3. CASE c = "3.1.14"
    <3>1. Specs[c] = Automated("level", "at_or_more_verbose", {"warning"}, {}) /\ w.level = a
      BY <1>1, <2>1, <2>3, ListeningSpecs DEF Automated
    <3>2. Meets(c, w, p) <=> a \in {{"info"}, {"warning"}}
      BY <2>3, <3>1 DEF Meets
    <3>3. answer = Severity("at_or_more_verbose", a, {"warning"})
      BY <3>1 DEF Apply, ExpectedOf, Automated
    <3> QED BY <3>2, <3>3, VerboseLevels
  <2>4. CASE c = "3.1.8"
    <3>1. /\ Specs[c].setting = "age" /\ Specs[c].op = "in" /\ Specs[c].tier = "parameterised"
          /\ w.age = a
      BY <1>1, <2>1, <2>4, ListeningSpecs DEF Automated
    <3>2. "3.1.8" \in DOMAIN p.values /\ ExpectedOf(c, p) = p.values["3.1.8"].expected
      BY <2>4, <3>1 DEF PolicyEntry, ExpectedOf
    <3> QED BY <2>4, <3>1, <3>2 DEF Apply, Answer, Meets
  <2>5. CASE c = "6.x"
    BY <1>1, <2>5, ListeningSpecs DEF Automated
  <2> QED BY <1>1, <2>2, <2>3, <2>4, <2>5, ListeningSpecs
<1>2. CASE topic # "listening"
  <2>1. DOMAIN v = {"destination", "facility"} /\ v = [x \in DOMAIN v |-> v[x]]
    BY <1>2 DEF SettingTruths, Settled, SettingTopics, CatalogTopics
  <2>2. CASE c = "3.1.2"
    <3>1. Specs[c] = Automated("destination", "contains_items", {"csvlog"}, {}) /\ w.destination = a
      BY <1>2, <2>1, <2>2, OtherSpecs DEF Automated
    <3> QED BY <2>2, <3>1 DEF Apply, ContainsItems, Answer, Meets, ExpectedOf, Automated
  <2>3. CASE c = "3.1.12"
    <3>1. /\ Specs[c].setting = "facility" /\ Specs[c].op = "equals" /\ Specs[c].tier = "automated"
          /\ Specs[c].expected = {"local0"}
          /\ w.facility = a /\ w.destination = v.destination
      BY <1>2, <2>1, <2>3, OtherSpecs DEF Automated
    <3> QED BY <2>3, <3>1 DEF Apply, Answer, Meets, ExpectedOf
  <2> QED BY <1>2, <2>2, <2>3, OtherSpecs
<1> QED BY <1>1, <1>2

\* The verdict on one control of one snapshot.
SettingJudged(v, set, p, c) ==
  LET result == Decide(Specs, c, set, p)
  IN  /\ result = "PASS" => Meets(c, v, p)
      /\ result = "FAIL" => ~Meets(c, v, p)
      /\ result = "NOT_APPLICABLE" => c = "3.1.12" /\ "syslog" \notin v.destination

\* Where the one condition there is does not hold, its control is never failed.
LEMMA ConditionHolds ==
  ASSUME topic # "listening", NEW v, NEW set, Faithful(set, v), NEW p,
         Decide(Specs, "3.1.12", set, p) = "FAIL"
  PROVE  "syslog" \in v.destination
<1> DEFINE w == [setting |-> "destination", op |-> "contains_items", expected |-> {"syslog"}]
           cond == set.entry[ConditionKey("3.1.12")]
           seen == set.value[ConditionKey("3.1.12")]
<1>1. "3.1.12" \in DOMAIN Specs /\ Specs["3.1.12"].when = {w} /\ Specs["3.1.12"].tier = "automated"
  BY OtherSpecs DEF Automated
<1>2. ConditionKey("3.1.12") \in ManifestKeys(Specs) /\ SettingOf(ConditionKey("3.1.12")) = "destination"
  BY <1>1, ConditionAsked
<1>3. cond \in EntryStates
  BY <1>2 DEF Faithful
<1>4. set.entry[CheckKey("3.1.12")] \in EntryStates
  BY <1>1, CheckAsked DEF Faithful
<1>5. \A e \in EntryStates : e # "ok" => Problem(e) # "FAIL"
  BY DEF Problem, EntryStates
<1>6. cond = "ok" /\ w.setting \notin set.session /\ Apply(w, seen, w.expected) \notin {"error", "false"}
  <2> HIDE DEF w
  <2> QED BY <1>1, <1>3, <1>4, <1>5 DEF Decide
<1>7. seen = v.destination
  BY <1>2, <1>6 DEF Faithful
<1> QED BY <1>6, <1>7 DEF Apply, ContainsItems, Answer

LEMMA SettingVerdict ==
  ASSUME topic \in SettingTopics \cup CatalogTopics, NEW v \in SettingTruths(topic),
         NEW set \in SettingSeen(v), NEW p, NEW c \in DOMAIN Specs
  PROVE  SettingJudged(v, set, p, c)
<1> DEFINE d == Decide(Specs, c, set, p)
<1>1. Faithful(set, v)
  BY SeenFaithful
<1>2. [v EXCEPT ![Specs[c].setting] = v[Specs[c].setting]] = v
  <2>1. v = [x \in DOMAIN v |-> v[x]]
    BY DEF SettingTruths, Settled, SettingTopics, CatalogTopics
  <2> QED BY <2>1
<1>3. ASSUME d \in {"PASS", "FAIL"} PROVE Specs[c].tier # "manual"
  BY <1>3 DEF Decide
<1>4. d = "PASS" => Meets(c, v, p)
  BY <1>1, <1>2, <1>3, DecidedByValue, AnswerMeans
<1>5. ASSUME d = "FAIL" PROVE ~Meets(c, v, p)
  <2>1. c = "3.1.12" => "syslog" \in v.destination
    BY <1>1, <1>5, ConditionHolds, ListeningSpecs
  <2> QED BY <1>1, <1>2, <1>3, <1>5, <2>1, DecidedByValue, AnswerMeans
<1>6. ASSUME d = "NOT_APPLICABLE" PROVE c = "3.1.12" /\ "syslog" \notin v.destination
  <2> DEFINE w == [setting |-> "destination", op |-> "contains_items", expected |-> {"syslog"}]
  <2>1. Specs[c].when # {}
    BY <1>1, <1>6, InapplicableByValue
  <2>2. c = "3.1.12" /\ Specs[c].when = {w}
    BY <2>1, ListeningSpecs, OtherSpecs DEF Automated
  <2>3. Apply(w, v["destination"], {"syslog"}) = "false"
    BY <1>1, <1>6, <2>2, InapplicableByValue
  <2> QED BY <2>2, <2>3 DEF Apply, ContainsItems, Answer
<1> QED BY <1>4, <1>5, <1>6 DEF SettingJudged

\* What the fix that is offered for a failing control does to the server.
FixJudged(v, p, c) ==
  \A f \in OfferedFix(c, p) :
    /\ Meets(c, [v EXCEPT ![Specs[c].setting] = f], p)
    /\ c = "5.2" => "localhost" \in f /\ f \cap {"::", "1host"} = {}
    /\ "';--" \notin f
    /\ ~p.approved => c = "3.1.14"

\* Only the level has a reviewed literal.
LEMMA OneLiteral ==
  /\ \A s \in {"addresses", "age", "destination", "facility"} : Policies[s] = FromProfile
  /\ Policies["level"] = {"warning"} /\ Policies["level"] # FromProfile
<1>1. /\ Policies["level"] = {"warning"}
      /\ Policies["addresses"] = FromProfile /\ Policies["age"] = FromProfile
      /\ Policies["destination"] = FromProfile /\ Policies["facility"] = FromProfile
  BY DEF Policies
<1>2. "warning" \notin FromProfile
  BY DEF FromProfile
<1> QED BY <1>1, <1>2

LEMMA SettingFix ==
  ASSUME topic \in SettingTopics \cup CatalogTopics, NEW v \in SettingTruths(topic),
         NEW p, NEW c \in DOMAIN Specs
  PROVE  FixJudged(v, p, c)
<1> SUFFICES ASSUME NEW f \in OfferedFix(c, p)
             PROVE  /\ Meets(c, [v EXCEPT ![Specs[c].setting] = f], p)
                    /\ c = "5.2" => "localhost" \in f /\ f \cap {"::", "1host"} = {}
                    /\ "';--" \notin f
                    /\ ~p.approved => c = "3.1.14"
  BY DEF FixJudged
<1>1. Specs[c].tier # "manual"
  BY DEF OfferedFix, FixScope
<1>2. PICK x \in Candidates(Specs, c, p) :
        f = x.value /\ SettingValueOk(Specs[c].setting, f) /\ Apply(Specs[c], f, x.expected) = "true"
  BY <1>1 DEF OfferedFix, FixScope
<1>3. x.expected = ExpectedOf(c, p) /\ (Specs[c].tier = "parameterised" => PolicyEntry(c, p) # {})
  <2>1. \A e \in PolicyEntry(c, p) : e = CHOOSE y \in PolicyEntry(c, p) : TRUE
    BY DEF PolicyEntry
  <2>2. CASE Specs[c].tier = "parameterised"
    <3>1. PICK e \in PolicyEntry(c, p) : x = [value |-> e.fix, expected |-> e.expected]
      BY <1>2, <2>2 DEF Candidates, UsesPolicy
    <3> QED BY <2>1, <2>2, <3>1 DEF ExpectedOf
  <2>3. CASE Specs[c].tier # "parameterised"
    BY <1>2, <2>3 DEF Candidates, UsesPolicy, ExpectedOf
  <2> QED BY <2>2, <2>3
<1>4. Meets(c, [v EXCEPT ![Specs[c].setting] = f], p)
  BY <1>1, <1>2, <1>3, AnswerMeans
<1>5. ASSUME c = "5.2" PROVE "localhost" \in f /\ f \cap {"::", "1host"} = {}
  <2>1. Specs[c].setting = "addresses"
    BY <1>5, ListeningSpecs, OtherSpecs DEF Automated
  <2> QED BY <1>2, <2>1 DEF SettingValueOk, ListenOk, StrictAddresses, HostNames
<1>6. "';--" \notin f
  BY <1>2 DEF SettingValueOk, Forbidden
<1>7. ASSUME ~p.approved PROVE c = "3.1.14"
  <2>1. PolicyEntry(c, p) = {} /\ SiteFix(c, p) = {}
    BY <1>7 DEF PolicyEntry, SiteFix
  <2>2. Specs[c].tier # "parameterised" /\ Policies[Specs[c].setting] # FromProfile
    BY <1>2, <2>1 DEF Candidates, UsesPolicy
  <2>3. Specs[c].setting \notin {"addresses", "age", "destination", "facility"}
    BY <2>2, OneLiteral
  <2> QED BY <1>1, <2>3, ListeningSpecs, OtherSpecs DEF Automated
<1> QED BY <1>4, <1>5, <1>6, <1>7

----------------------------------------------------------------------------
(* Catalog evidence.                                                       *)

\* What the collector brings back of the catalog part of a server with facts f.
CatalogSeen(f) == CatalogEvidence(f) \cup {Complete(f)}

\* The facts of a snapshot are a view of the server's, and the row of
\* pgaudit.log is absent exactly where the server has none.
LEMMA SeenIsView ==
  ASSUME NEW f, NEW e \in CatalogSeen(f)
  PROVE  /\ e.f \in Views(f, e.sec) \cup {f}
         /\ topic = "3.2" /\ f.row \in BOOLEAN => (e.sec["pgaudit.log"] = "absent" <=> ~f.row)
         /\ "connections" \in SectionsOf(topic) => e.sec["connections"] \in {"ok", "gap", "bad", "hidden"}
<1>1. topic = "3.2" => "pgaudit.log" \in SectionsOf(topic)
  BY DEF SectionsOf, Required, Further
<1>2. CASE e = Complete(f)
  BY <1>1, <1>2 DEF Complete
<1>3. CASE e \in CatalogEvidence(f)
  <2> DEFINE seen(v, q, g) == [pg17 |-> v, sec |-> q, f |-> g]
             V == IF topic = "4.5" THEN BOOLEAN ELSE {TRUE}
             A(q) == {seen(v, q, g) : g \in Views(f, q), v \in V}
             AA == {A(q) : q \in SectionStates(f)}
  <2>1. CatalogEvidence(f) = UNION AA
    BY DEF CatalogEvidence
  <2>2. PICK q \in SectionStates(f) : e \in A(q)
    <3> HIDE DEF A
    <3>1. \A X \in AA : \E q \in SectionStates(f) : X = A(q)
      OBVIOUS
    <3> HIDE DEF AA
    <3> QED BY <1>3, <2>1, <3>1
  <2> HIDE DEF seen, V
  <2>5. PICK g \in Views(f, q), v \in V : e = seen(v, q, g)
    BY <2>2
  <2>3. e.sec = q /\ e.f \in Views(f, q)
    BY <2>5 DEF seen
  <2>4. ASSUME topic = "3.2", f.row \in BOOLEAN PROVE q["pgaudit.log"] = "absent" <=> ~f.row
    <3> DEFINE states == [SectionsOf(topic) -> {"ok", "gap", "bad", "hidden"}]
    <3>1. PICK q0 \in states :
            q = [s \in DOMAIN q0 |-> IF topic = "3.2" /\ s = "pgaudit.log" /\ ~f.row THEN "absent" ELSE q0[s]]
      BY <2>2 DEF SectionStates
    <3>2. "pgaudit.log" \in DOMAIN q0 /\ q0["pgaudit.log"] # "absent"
      BY <1>1, <2>4, <3>1
    <3> QED BY <2>4, <3>1, <3>2
  <2>6. ASSUME "connections" \in SectionsOf(topic) PROVE q["connections"] \in {"ok", "gap", "bad", "hidden"}
    <3>1. PICK q0 \in [SectionsOf(topic) -> {"ok", "gap", "bad", "hidden"}] :
            q = [s \in DOMAIN q0 |-> IF topic = "3.2" /\ s = "pgaudit.log" /\ ~f.row THEN "absent" ELSE q0[s]]
      BY <2>2 DEF SectionStates
    <3> QED BY <2>6, <3>1
  <2> QED BY <2>3, <2>4, <2>6
<1> QED BY <1>2, <1>3 DEF CatalogSeen

\* The verdict of the topic's check on one snapshot.
CatalogJudged(f, e, p) ==
  LET result == Evaluate(topic, e, p)
  IN  /\ result = "PASS" => Good(topic, f, p)
      /\ result = "FAIL" => Wrong(topic, f, p)

LEMMA FunctionsVerdict ==
  ASSUME topic = "4.5", NEW f \in CatalogTruths(topic), NEW e \in CatalogSeen(f), NEW p
  PROVE  CatalogJudged(f, e, p)
<1>1. e.f = f
  BY SeenIsView DEF Views
<1>2. Evaluate(topic, e, p) \in {"GAPPED", ElevatedFunctions(e)}
  BY DEF Evaluate
<1>3. ElevatedFunctions(e) \in {"PASS", "MANUAL", "GAPPED"}
  BY DEF ElevatedFunctions, IfKnown
<1>4. ElevatedFunctions(e) = "PASS" => Good(topic, f, p)
  BY <1>1 DEF ElevatedFunctions, IfKnown, Good, CatalogTruths
<1> QED BY <1>2, <1>3, <1>4 DEF CatalogJudged

LEMMA PasswordVerdict ==
  ASSUME topic = "4.10", NEW f \in CatalogTruths(topic), NEW e \in CatalogSeen(f), NEW p
  PROVE  CatalogJudged(f, e, p)
<1>1. /\ e.f.login = f.login
      /\ e.f.nopassword = f.nopassword \cap e.f.listed \/ e.f = f
  <2>1. f = [roles |-> f.roles, login |-> f.login, listed |-> f.listed, nopassword |-> f.nopassword]
    BY DEF CatalogTruths
  <2>2. CASE e.f = f
    BY <2>2
  <2>3. CASE e.f # f
    <3> DEFINE view(r, l) == [f EXCEPT !.roles = r, !.listed = l, !.nopassword = @ \cap l]
               L == {Roles, Roles \ {"app"}}
    <3>1. Views(f, e.sec) = {view(r, l) : r \in RoleLists, l \in L}
      BY DEF Views
    <3>2. PICK r \in RoleLists, l \in L : e.f = view(r, l)
      <4> HIDE DEF view, L
      <4>1. e.f \in Views(f, e.sec) \cup {f}
        BY SeenIsView
      <4>2. e.f \in Views(f, e.sec)
        BY <4>1, <2>3
      <4> QED BY <4>2, <3>1
    <3>3. e.f = view(r, l)
      BY <3>2
    <3> QED BY <2>1, <3>2
  <2> QED BY <2>2, <2>3
<1>2. Evaluate(topic, e, p) \in {"GAPPED", LoginRolesWithoutPassword(e)}
  BY DEF Evaluate
<1>3. LoginRolesWithoutPassword(e) \in {"PASS", "MANUAL", "GAPPED"}
  BY DEF LoginRolesWithoutPassword, IfKnown
<1>4. LoginRolesWithoutPassword(e) = "PASS" => Good(topic, f, p)
  BY <1>1 DEF LoginRolesWithoutPassword, IfKnown, Good
<1> QED BY <1>2, <1>3, <1>4 DEF CatalogJudged

LEMMA LimitsVerdict ==
  ASSUME topic = "5.5", NEW f \in CatalogTruths(topic), NEW e \in CatalogSeen(f), NEW p
  PROVE  CatalogJudged(f, e, p)
<1>1. e.f.login = f.login /\ e.f.limit = f.limit
  <2>1. f = [roles |-> f.roles, login |-> f.login, limit |-> f.limit]
    BY DEF CatalogTruths
  <2> QED BY <2>1, SeenIsView DEF Views
<1>2. Evaluate(topic, e, p) \in {"GAPPED", RoleConnectionLimits(e)}
  BY DEF Evaluate
<1>3. RoleConnectionLimits(e) = "PASS" => Good(topic, f, p)
  BY <1>1 DEF RoleConnectionLimits, IfKnown, Good
<1>4. RoleConnectionLimits(e) = "FAIL" => ~Good(topic, f, p)
  BY <1>1 DEF RoleConnectionLimits, IfKnown, Good
<1> QED BY <1>2, <1>3, <1>4 DEF CatalogJudged, Wrong

LEMMA ArchivingVerdict ==
  ASSUME topic = "7.4", NEW f \in CatalogTruths(topic), NEW e \in CatalogSeen(f), NEW p
  PROVE  CatalogJudged(f, e, p)
<1>1. e.f = f
  BY SeenIsView DEF Views
<1>2. Evaluate(topic, e, p) \in {"GAPPED", WalArchiving(e)}
  BY DEF Evaluate
<1>3. WalArchiving(e) = "PASS" => Good(topic, f, p)
  BY <1>1, CatalogAssumption DEF WalArchiving, IfKnown, Good, Archives, CatalogTruths, None
<1>4. WalArchiving(e) = "FAIL" => Wrong(topic, f, p)
  BY <1>1, CatalogAssumption DEF WalArchiving, IfKnown, Wrong, Archives, CatalogTruths, None
<1> QED BY <1>2, <1>3, <1>4 DEF CatalogJudged

LEMMA PasswordModuleVerdict ==
  ASSUME topic = "5.6", NEW f \in CatalogTruths(topic), NEW e \in CatalogSeen(f), NEW p
  PROVE  CatalogJudged(f, e, p)
<1>1. /\ Readable(e, "preload") => e.f.preload = f.preload
      /\ Readable(e, "path") => e.f.path = f.path
  <2>1. f = [preload |-> f.preload, path |-> f.path]
    BY DEF CatalogTruths
  <2>2. CASE e.f = f
    BY <2>2
  <2>3. CASE e.f # f
    <3> DEFINE view(x, d) == [f EXCEPT !.preload = x, !.path = d]
    <3>1. Views(f, e.sec) = {view(x, d) : x \in IF e.sec["preload"] = "ok" THEN {f.preload} ELSE {"absent", "bare"},
               d \in IF e.sec["path"] = "ok" THEN {f.path} ELSE {"$libdir", "custom"}}
      BY DEF Views
    <3>2. PICK x \in IF e.sec["preload"] = "ok" THEN {f.preload} ELSE {"absent", "bare"},
               d \in IF e.sec["path"] = "ok" THEN {f.path} ELSE {"$libdir", "custom"} : e.f = view(x, d)
      <4> HIDE DEF view
      <4>1. e.f \in Views(f, e.sec) \cup {f}
        BY SeenIsView
      <4>2. e.f \in Views(f, e.sec)
        BY <4>1, <2>3
      <4> QED BY <4>2, <3>1
    <3>3. e.f = view(x, d)
      BY <3>2
    <3> QED BY <2>1, <3>2 DEF Readable
  <2> QED BY <2>2, <2>3
<1>2. Evaluate(topic, e, p) \in {"GAPPED", PasswordComplexityModule(e)}
  BY DEF Evaluate
<1>3. f.preload \in {"absent", "bare", "libdir", "unparseable"} /\ f.path \in {"$libdir", "custom"}
  BY DEF CatalogTruths
<1>4. PasswordComplexityModule(e) = "PASS" => Good(topic, f, p)
  BY <1>1, <1>3 DEF PasswordComplexityModule, Good
<1>5. PasswordComplexityModule(e) = "FAIL" => Wrong(topic, f, p)
  BY <1>1, <1>3 DEF PasswordComplexityModule, Wrong
<1> QED BY <1>2, <1>4, <1>5 DEF CatalogJudged

LEMMA TlsVerdict ==
  ASSUME topic = "6.8", NEW f \in CatalogTruths(topic), NEW e \in CatalogSeen(f), NEW p
  PROVE  CatalogJudged(f, e, p)
<1>1. /\ e.f.hba = f.hba /\ e.f.connections \subseteq f.connections
      /\ ConnectionsKnown(e) => e.f.connections = f.connections
      /\ Readable(e, "ssl") => e.f.ssl = f.ssl
  <2>1. f = [ssl |-> f.ssl, hba |-> f.hba, connections |-> f.connections]
    BY DEF CatalogTruths
  <2>2. CASE e.f = f
    BY <2>2
  <2>3. CASE e.f # f
    <3> DEFINE view(c, s) == [f EXCEPT !.connections = c, !.ssl = s]
    <3>1. Views(f, e.sec) = {view(c, s) : c \in IF e.sec["connections"] = "ok" THEN {f.connections} ELSE SUBSET f.connections,
               s \in IF e.sec["ssl"] = "ok" THEN {f.ssl} ELSE BOOLEAN}
      BY DEF Views
    <3>2. PICK c \in IF e.sec["connections"] = "ok" THEN {f.connections} ELSE SUBSET f.connections,
               s \in IF e.sec["ssl"] = "ok" THEN {f.ssl} ELSE BOOLEAN : e.f = view(c, s)
      <4> HIDE DEF view
      <4>1. e.f \in Views(f, e.sec) \cup {f}
        BY SeenIsView
      <4>2. e.f \in Views(f, e.sec)
        BY <4>1, <2>3
      <4> QED BY <4>2, <3>1
    <3>3. e.f = view(c, s)
      BY <3>2
    <3>4. e.sec["connections"] \in {"ok", "gap", "bad", "hidden"}
      BY SeenIsView DEF SectionsOf, Required, Further
    <3> QED BY <2>1, <3>2, <3>4 DEF Readable, ConnectionsKnown
  <2> QED BY <2>2, <2>3
<1>2. Evaluate(topic, e, p) \in {"GAPPED", TlsEnabledAndEnforced(e)}
  BY DEF Evaluate
<1>3. f.hba \subseteq {"local", "hostssl", "host", "hostgssenc", "broken"}
  BY DEF CatalogTruths, Rules
<1>4. TlsEnabledAndEnforced(e) = "PASS" => Good(topic, f, p)
  BY <1>1, <1>3 DEF TlsEnabledAndEnforced, IfKnown, AllReadable, Good
<1>5. TlsEnabledAndEnforced(e) = "FAIL" => Wrong(topic, f, p)
  BY <1>1 DEF TlsEnabledAndEnforced, IfKnown, Wrong
<1> QED BY <1>2, <1>4, <1>5 DEF CatalogJudged

LEMMA CiphersVerdict ==
  ASSUME topic = "6.10", NEW f \in CatalogTruths(topic), NEW e \in CatalogSeen(f), NEW p
  PROVE  CatalogJudged(f, e, p)
<1>1. /\ e.f.connections \subseteq f.connections
      /\ ConnectionsKnown(e) => e.f.connections = f.connections
      /\ Readable(e, "ssl_ciphers") => e.f.ciphers = f.ciphers
  <2>1. f = [ciphers |-> f.ciphers, connections |-> f.connections]
    BY DEF CatalogTruths
  <2>2. CASE e.f = f
    BY <2>2
  <2>3. CASE e.f # f
    <3> DEFINE view(c, s) == [f EXCEPT !.connections = c, !.ciphers = s]
    <3>1. Views(f, e.sec) = {view(c, s) : c \in IF e.sec["connections"] = "ok" THEN {f.connections} ELSE SUBSET f.connections,
               s \in IF e.sec["ssl_ciphers"] = "ok" THEN {f.ciphers} ELSE {"cis", "other"}}
      BY DEF Views
    <3>2. PICK c \in IF e.sec["connections"] = "ok" THEN {f.connections} ELSE SUBSET f.connections,
               s \in IF e.sec["ssl_ciphers"] = "ok" THEN {f.ciphers} ELSE {"cis", "other"} : e.f = view(c, s)
      <4> HIDE DEF view
      <4>1. e.f \in Views(f, e.sec) \cup {f}
        BY SeenIsView
      <4>2. e.f \in Views(f, e.sec)
        BY <4>1, <2>3
      <4> QED BY <4>2, <3>1
    <3>3. e.f = view(c, s)
      BY <3>2
    <3>4. e.sec["connections"] \in {"ok", "gap", "bad", "hidden"}
      BY SeenIsView DEF SectionsOf, Required, Further
    <3> QED BY <2>1, <3>2, <3>4 DEF Readable, ConnectionsKnown
  <2> QED BY <2>2, <2>3
<1>2. Evaluate(topic, e, p) \in {"GAPPED", TlsCipherSuites(e)}
  BY DEF Evaluate
<1>3. f.ciphers \in {"cis", "other", "empty"}
  BY DEF CatalogTruths
<1>4. TlsCipherSuites(e) = "PASS" => Good(topic, f, p)
  BY <1>1, <1>3 DEF TlsCipherSuites, IfKnown, Good
<1>5. TlsCipherSuites(e) = "FAIL" => Wrong(topic, f, p)
  BY <1>1 DEF TlsCipherSuites, IfKnown, Wrong
<1> QED BY <1>2, <1>4, <1>5 DEF CatalogJudged

\* Role memberships are finite and lead to roles.
LEMMA MembersTyped ==
  ASSUME NEW M \in Members
  PROVE  IsFiniteSet(M) /\ \A m \in M : m[2] \in Roles
<1> DEFINE All == {<<"boot", "dba">>, <<"dba", "app">>, <<"app", "dba">>, <<"pg_sys", "app">>}
<1>1. M \subseteq All
  BY DEF Members
<1>2. IsFiniteSet(All)
  <2>1. All = (((({} \cup {<<"boot", "dba">>}) \cup {<<"dba", "app">>}) \cup {<<"app", "dba">>}) \cup {<<"pg_sys", "app">>})
    OBVIOUS
  <2>2. \A S, x : IsFiniteSet(S) => IsFiniteSet(S \cup {x})
    BY FS_AddElement
  <2> HIDE DEF All
  <2>3. IsFiniteSet((({} \cup {<<"boot", "dba">>}) \cup {<<"dba", "app">>}) \cup {<<"app", "dba">>})
    BY FS_EmptySet, <2>2
  <2> QED BY <2>1, <2>2, <2>3
<1>3. \A m \in All : m[2] \in Roles
  BY DEF Roles
<1> QED BY <1>1, <1>2, <1>3, FS_Subset

\* The search of MembersOf finds everybody who is reached.
LEMMA ReachedAreFound ==
  ASSUME NEW M \in Members, NEW S \in SUBSET Roles, NEW r, Reaches(M, S, r)
  PROVE  r \in S \cup MembersOfAll(M, S)
<1>1. IsFiniteSet(M) /\ MembersOfAll(M, S) \subseteq Roles
  BY MembersTyped, MembersAreNecessary
<1> DEFINE T == S \cup MembersOfAll(M, S)
<1>2. \A m \in M : m[1] \in T => m[2] \in T
  BY <1>1, MembersAreClosed
<1>3. T \in SUBSET Roles /\ S \subseteq T
  BY <1>1
<1> QED BY <1>2, <1>3 DEF Reaches

LEMMA SetUserVerdict ==
  ASSUME topic = "4.8", NEW f \in CatalogTruths(topic), NEW e \in CatalogSeen(f), NEW p
  PROVE  CatalogJudged(f, e, p)
<1>1. /\ f = [available |-> f.available, roles |-> f.roles, login |-> f.login, super |-> f.super,
             members |-> f.members]
      /\ f.login \subseteq UserRoles /\ f.super \in Superusers /\ f.members \in Members /\ f.roles = Roles
  BY DEF CatalogTruths
<1> DEFINE lists == RoleLists \cup IF "app" \in MembersOfAll(f.members, f.super) THEN {Roles \ {"app"}} ELSE {}
<1>2. \E r \in lists \cup {Roles} :
         /\ e.f.available = f.available /\ e.f.members = f.members /\ e.f.roles = r
         /\ e.f.login = f.login \cap r /\ e.f.super = f.super \cap r
  <2>1. CASE e.f = f
    BY <1>1, <2>1 DEF Superusers, Roles, UserRoles
  <2>2. CASE e.f # f
    <3> DEFINE view(r) == [f EXCEPT !.roles = r, !.login = @ \cap r, !.super = @ \cap r]
    <3>1. Views(f, e.sec) = {view(r) : r \in lists}
      BY DEF Views
    <3>2. PICK r \in lists : e.f = view(r)
      <4> HIDE DEF view, lists
      <4>1. e.f \in Views(f, e.sec) \cup {f}
        BY SeenIsView
      <4>2. e.f \in Views(f, e.sec)
        BY <4>1, <2>2
      <4> QED BY <4>2, <3>1
    <3> HIDE DEF lists
    <3> QED BY <1>1, <3>2
  <2> QED BY <2>1, <2>2
<1>3. Evaluate(topic, e, p) \in {"GAPPED", SetUserExtension(e)}
  BY DEF Evaluate
<1>4. ASSUME SetUserExtension(e) = "PASS" PROVE Good(topic, f, p)
  <2>1. /\ e.f.available /\ "boot" \in e.f.roles
        /\ MembersOfAll(e.f.members, e.f.super) \subseteq e.f.roles
        /\ e.f.login \cap (e.f.super \cup MembersOfAll(e.f.members, e.f.super)) = {}
    BY <1>4 DEF SetUserExtension, IfKnown, RolesKnown, SuperuserLogins
  <2>2. e.f.login = f.login /\ e.f.super = f.super
    <3>1. PICK r \in lists \cup {Roles} :
            /\ e.f.members = f.members /\ e.f.roles = r
            /\ e.f.login = f.login \cap r /\ e.f.super = f.super \cap r
      BY <1>2
    <3>2. r = Roles
      <4>1. r # Roles \ {"boot"}
        BY <2>1, <3>1
      <4>2. ASSUME r = Roles \ {"app"}, "app" \in MembersOfAll(f.members, f.super) PROVE FALSE
        <5>1. f.super \cap r = f.super
          BY <1>1, <4>2 DEF Superusers, Roles
        <5> QED BY <2>1, <3>1, <4>2, <5>1
      <4> QED BY <3>1, <4>1, <4>2 DEF RoleLists
    <3> QED BY <1>1, <3>1, <3>2 DEF Superusers, UserRoles, Roles
  <2>3. f.super \subseteq Roles
    BY <1>1 DEF Superusers, Roles
  <2>4. \A r \in f.login : ~Reaches(f.members, f.super, r)
    BY <1>1, <1>2, <2>1, <2>2, <2>3, ReachedAreFound
  <2> QED BY <1>2, <2>1, <2>4 DEF Good
<1>5. SetUserExtension(e) = "FAIL" => Wrong(topic, f, p)
  <2>1. f.available = e.f.available
    BY <1>2
  <2> QED BY <2>1 DEF SetUserExtension, IfKnown, Wrong
<1> QED BY <1>3, <1>4, <1>5 DEF CatalogJudged

\* What pgaudit.log logs is what the last word about a class says.
LEMMA LogsDecided ==
  ASSUME NEW words \in Words \cup {<<>>}, NEW k \in Classes
  PROVE  k \in EffectiveClasses(words) <=> Logs(words, k)
<1> DEFINE w(m, c) == [minus |-> m, class |-> c]
           Word == {w(FALSE, "odd"), w(FALSE, "none"), w(FALSE, "read"), w(FALSE, "all"), w(TRUE, "read")}
<1>1. words \in Seq(Word)
  <2>3. Words = {<<w(FALSE, "odd")>>, <<w(FALSE, "none"), w(FALSE, "read")>>,
                 <<w(FALSE, "all"), w(TRUE, "read")>>, <<w(TRUE, "read"), w(FALSE, "all")>>}
    BY DEF Words
  <2> HIDE DEF w
  <2>4. \A a, b \in Word : <<>> \in Seq(Word) /\ <<a>> \in Seq(Word) /\ <<a, b>> \in Seq(Word)
    <3> HIDE DEF Word
    <3> QED OBVIOUS
  <2> QED BY <2>3, <2>4
<1>2. Len(words) \in Nat /\ DOMAIN words = 1 .. Len(words)
  BY <1>1
<1>3. AddedUpTo(words, Len(words), k) <=> Logs(words, k)
  BY <1>2 DEF AddedUpTo, Named, Logs
<1> QED BY <1>2, <1>3, LastWordDecides

LEMMA PgauditVerdict ==
  ASSUME topic = "3.2", NEW f \in CatalogTruths(topic), NEW e \in CatalogSeen(f), NEW p,
         p.classes \subseteq Classes
  PROVE  CatalogJudged(f, e, p)
<1>1. /\ f = [preload |-> f.preload, log |-> f.log, row |-> f.row] /\ f.row \in BOOLEAN
      /\ f.preload \in {"absent", "named", "unparseable"} /\ f.log \in Words \cup {<<>>}
  BY DEF CatalogTruths
<1>2. /\ Readable(e, "preload") => e.f.preload = f.preload
      /\ Readable(e, "pgaudit.log") => e.f.log = f.log
      /\ e.sec["pgaudit.log"] = "absent" <=> ~f.row
  <2>1. CASE e.f = f
    BY <1>1, <2>1, SeenIsView
  <2>2. CASE e.f # f
    <3> DEFINE view(x, l) == [f EXCEPT !.preload = x, !.log = l]
               P == IF e.sec["preload"] = "ok" THEN {f.preload} ELSE {"absent", "named"}
               L == IF e.sec["pgaudit.log"] \in {"ok", "absent"} THEN {f.log}
                    ELSE {<<>>, <<[minus |-> FALSE, class |-> "all"]>>}
    <3>1. Views(f, e.sec) = {view(x, l) : x \in P, l \in L}
      BY DEF Views
    <3>2. PICK x \in P, l \in L : e.f = view(x, l)
      <4> HIDE DEF view, P, L
      <4>1. e.f \in Views(f, e.sec) \cup {f}
        BY SeenIsView
      <4>2. e.f \in Views(f, e.sec)
        BY <4>1, <2>2
      <4> QED BY <4>2, <3>1
    <3>3. Readable(e, "pgaudit.log") => l = f.log
      BY <3>2 DEF Readable
    <3>4. e.f.preload = x /\ e.f.log = l
      <4> HIDE DEF L, P
      <4> QED BY <1>1, <3>2
    <3> QED BY <1>1, <3>2, <3>3, <3>4, SeenIsView DEF Readable
  <2> QED BY <2>1, <2>2
<1>3. Evaluate(topic, e, p) \in {"GAPPED", PgauditEnabled(e, p)}
  BY DEF Evaluate
<1>4. Good(topic, f, p) <=> f.preload = "named" /\ f.row /\ p.classes \subseteq EffectiveClasses(f.log)
  BY <1>1, LogsDecided DEF Good
<1>5. Wrong(topic, f, p) <=> f.preload # "unparseable" /\ ~Good(topic, f, p)
  BY DEF Wrong
<1>6. PgauditEnabled(e, p) = "PASS" => Good(topic, f, p)
  BY <1>1, <1>2, <1>4 DEF PgauditEnabled
<1>7. PgauditEnabled(e, p) = "FAIL" => Wrong(topic, f, p)
  BY <1>1, <1>2, <1>4, <1>5 DEF PgauditEnabled
<1> QED BY <1>3, <1>6, <1>7 DEF CatalogJudged

LEMMA ReviewVerdict ==
  ASSUME topic \in ReviewChecks \cup {"6.11"}, NEW e, NEW p
  PROVE  Evaluate(topic, e, p) \in {"GAPPED", ManualReview(topic, e)}
         /\ ManualReview(topic, e) \in {"GAPPED", "MANUAL"}
BY DEF Evaluate, ReviewChecks, ManualReview, IfKnown

\* The verdict of every catalog check is true of the server.
LEMMA CatalogVerdict ==
  ASSUME topic \in CatalogTopics, NEW f \in CatalogTruths(topic), NEW e \in CatalogSeen(f), NEW p,
         p.classes \subseteq Classes
  PROVE  CatalogJudged(f, e, p)
<1>1. CASE topic \in ReviewChecks \cup {"6.11"}
  BY <1>1, ReviewVerdict DEF CatalogJudged
<1>2. CASE topic \notin ReviewChecks \cup {"6.11"}
  <2>1. topic \in {"3.2", "4.5", "4.8", "4.10", "5.5", "5.6", "6.8", "6.10", "7.4"}
    BY <1>2 DEF CatalogTopics, ReviewChecks
  <2> QED BY <2>1, PgauditVerdict, FunctionsVerdict, SetUserVerdict, PasswordVerdict, LimitsVerdict,
             PasswordModuleVerdict, TlsVerdict, CiphersVerdict, ArchivingVerdict
<1> QED BY <1>1, <1>2

----------------------------------------------------------------------------
(* Who a review check lists.                                               *)

\* Who is promised a place on the list of a review check that answers MANUAL
\* is on it.
ReviewListed(f, e, p) ==
  Evaluate(topic, e, p) = "MANUAL" =>
    CASE topic = "4.6" -> /\ "PUBLIC" \in f.grantees => "PUBLIC" \in Review(topic, e)
                          /\ \A r \in Writers(f) \ {"pg_sys"} : r \in Review(topic, e) \/ Unpromised(f, r)
      [] topic = "4.7" -> \A r \in UserRoles :
                            (r \in f.bypass \cup f.super \/ f.owned[r] = "enabled") => r \in Review(topic, e)
      [] topic = "5.3" -> f.hba \cap {"local", "broken"} \subseteq Review(topic, e)
      [] topic = "5.4" -> f.hba \ {"local"} \subseteq Review(topic, e)
      [] OTHER -> f.marked \ {"pg_sys"} \subseteq Review(topic, e)

\* Who holds what a member of A or B holds, holds it by A or by B: the roles
\* that are reached from either are closed under membership.
LEMMA ReachedByOne ==
  ASSUME NEW M \in Members, NEW A \in SUBSET Roles, NEW B \in SUBSET Roles,
         NEW r \in Roles, Reaches(M, A \cup B, r)
  PROVE  Reaches(M, A, r) \/ Reaches(M, B, r)
<1> DEFINE held(S) == {x \in Roles : Reaches(M, S, x)}
<1>1. \A m \in M : m[2] \in Roles
  BY MembersTyped
<1>2. \A S \in SUBSET Roles : S \subseteq held(S) /\ \A m \in M : m[1] \in held(S) => m[2] \in held(S)
  BY <1>1 DEF Reaches
<1>3. held(A) \cup held(B) \in SUBSET Roles
  OBVIOUS
<1>4. A \cup B \subseteq held(A) \cup held(B)
  BY <1>2
<1>5. \A m \in M : m[1] \in held(A) \cup held(B) => m[2] \in held(A) \cup held(B)
  BY <1>2
<1>6. r \in held(A) \cup held(B)
  <2> HIDE DEF held
  <2> QED BY <1>3, <1>4, <1>5 DEF Reaches
<1> QED BY <1>6

LEMMA WritersListed ==
  ASSUME topic = "4.6", NEW f \in CatalogTruths(topic), NEW e \in CatalogSeen(f)
  PROVE  /\ "PUBLIC" \in f.grantees => "PUBLIC" \in TableWriters(e)
         /\ \A r \in Writers(f) \ {"pg_sys"} : r \in TableWriters(e) \/ Unpromised(f, r)
<1>1. /\ f = [roles |-> f.roles, grantees |-> f.grantees, super |-> f.super, members |-> f.members]
      /\ f.grantees \subseteq {"PUBLIC", "boot", "app", "dba"} /\ f.super \in Superusers /\ f.members \in Members
  BY DEF CatalogTruths
<1>2. e.f.grantees = f.grantees /\ e.f.super = f.super /\ e.f.members = f.members
  BY <1>1, SeenIsView DEF Views
<1> DEFINE granted == f.grantees \ {Owner, "PUBLIC"}
           owning == {Owner} \cup f.super
<1>3. granted \in SUBSET Roles /\ owning \in SUBSET Roles /\ {"pg_sys"} \in SUBSET Roles
  BY <1>1 DEF Roles, Owner, Superusers
<1>4. "PUBLIC" \in f.grantees => "PUBLIC" \in TableWriters(e)
  BY <1>2 DEF TableWriters, Owner
<1>5. ASSUME NEW r \in Roles, r \in f.super PROVE r \in TableWriters(e)
  BY <1>2, <1>5 DEF TableWriters
<1>6. ASSUME NEW r \in Roles, Reaches(f.members, {"pg_sys"}, r), r # "pg_sys" PROVE r \in TableWriters(e)
  <2>1. r \in MembersOfAll(f.members, {"pg_sys"})
    BY <1>1, <1>3, <1>6, ReachedAreFound
  <2> QED BY <1>2, <2>1 DEF TableWriters, MembersOfAll
<1>7. ASSUME NEW r \in Roles, Reaches(f.members, granted, r), r # Owner PROVE r \in TableWriters(e)
  <2>1. r \in granted \/ r \in MembersOfAll(f.members, granted)
    BY <1>1, <1>3, <1>7, ReachedAreFound
  <2>2. (e.f.grantees \ {Owner}) \ {"PUBLIC"} = granted
    BY <1>2
  <2> QED BY <1>2, <1>7, <2>1, <2>2 DEF TableWriters
<1>8. ASSUME NEW r \in Writers(f) \ {"pg_sys"}, r \notin TableWriters(e) PROVE Unpromised(f, r)
  <2>1. r \in Roles /\ Reaches(f.members, owning \cup ({"pg_sys"} \cup granted), r)
    <3>1. {Owner, "pg_sys"} \cup f.super \cup (f.grantees \ {"PUBLIC"}) = owning \cup ({"pg_sys"} \cup granted)
      OBVIOUS
    <3> QED BY <3>1 DEF Writers
  <2>2. ~Reaches(f.members, {"pg_sys"}, r) /\ (r = Owner \/ ~Reaches(f.members, granted, r)) /\ r \notin f.super
    BY <1>5, <1>6, <1>7, <1>8, <2>1
  <2>3. Reaches(f.members, owning, r) \/ Reaches(f.members, {"pg_sys"} \cup granted, r)
    <3> HIDE DEF owning, granted
    <3> QED BY <1>1, <1>3, <2>1, ReachedByOne
  <2>4. Reaches(f.members, {"pg_sys"} \cup granted, r) =>
          Reaches(f.members, {"pg_sys"}, r) \/ Reaches(f.members, granted, r)
    <3> HIDE DEF granted
    <3> QED BY <1>1, <1>3, <2>1, ReachedByOne
  <2>5. r = Owner => Reaches(f.members, owning, r)
    BY DEF Reaches
  <2> QED BY <2>2, <2>3, <2>4, <2>5 DEF Unpromised
<1> QED BY <1>4, <1>8

LEMMA ReviewList ==
  ASSUME topic \in ReviewChecks, NEW f \in CatalogTruths(topic), NEW e \in CatalogSeen(f), NEW p
  PROVE  ReviewListed(f, e, p)
<1>1. CASE topic = "4.6"
  <2>1. Review(topic, e) = TableWriters(e)
    BY <1>1 DEF Review
  <2> QED BY <1>1, <2>1, WritersListed DEF ReviewListed
<1>2. CASE topic = "4.7"
  <2>1. f = [roles |-> f.roles, bypass |-> f.bypass, super |-> f.super, owned |-> f.owned]
    BY <1>2 DEF CatalogTruths
  <2>2. e.f.bypass = f.bypass /\ e.f.super = f.super /\ e.f.owned = f.owned
    BY <1>2, <2>1, SeenIsView DEF Views
  <2>3. Review(topic, e) = BypassRoles(e)
    BY <1>2 DEF Review
  <2> QED BY <1>2, <2>2, <2>3 DEF ReviewListed, BypassRoles
<1>3. CASE topic \in {"5.3", "5.4"}
  <2>1. f.hba \subseteq {"local", "hostssl", "host", "hostgssenc", "broken"} /\ e.f = f
    <3>1. CatalogTruths(topic) = [hba : Rules]
      BY <1>3 DEF CatalogTruths
    <3>2. Views(f, e.sec) = {f}
      <4>1. topic = "5.3" => Views(f, e.sec) = {f}
        BY DEF Views
      <4>2. topic = "5.4" => Views(f, e.sec) = {f}
        BY DEF Views
      <4> QED BY <1>3, <4>1, <4>2
    <3>3. e.f = f
      BY <3>2, SeenIsView
    <3> QED BY <3>1, <3>3 DEF Rules
  <2>2. Review(topic, e) = ListedRules(topic, e)
    BY <1>3 DEF Review
  <2>3. topic = "5.3" => f.hba \cap {"local", "broken"} \subseteq ListedRules(topic, e)
    BY <2>1 DEF ListedRules
  <2>4. topic = "5.4" => f.hba \ {"local"} \subseteq ListedRules(topic, e)
    BY <2>1 DEF ListedRules, HostRules
  <2> QED BY <1>3, <2>2, <2>3, <2>4 DEF ReviewListed
<1>4. CASE topic \in {"4.3", "4.4", "4.9", "7.1"}
  <2>1. f = [roles |-> f.roles, marked |-> f.marked] /\ f.marked \subseteq Roles
    BY <1>4 DEF CatalogTruths
  <2>2. e.f.marked = f.marked
    <3> DEFINE view(r) == [f EXCEPT !.roles = r]
    <3>1. Views(f, e.sec) = {view(r) : r \in RoleLists}
      <4>1. topic = "4.3" => Views(f, e.sec) = {view(r) : r \in RoleLists}
        BY DEF Views
      <4>2. topic = "4.4" => Views(f, e.sec) = {view(r) : r \in RoleLists}
        BY DEF Views
      <4>3. topic = "4.9" => Views(f, e.sec) = {view(r) : r \in RoleLists}
        BY DEF Views
      <4>4. topic = "7.1" => Views(f, e.sec) = {view(r) : r \in RoleLists}
        BY DEF Views
      <4> QED BY <1>4, <4>1, <4>2, <4>3, <4>4
    <3>2. e.f = f \/ \E r \in RoleLists : e.f = view(r)
      <4> HIDE DEF view
      <4>1. e.f \in Views(f, e.sec) \cup {f}
        BY SeenIsView
      <4> QED BY <4>1, <3>1
    <3> QED BY <2>1, <3>2
  <2>3. Review(topic, e) = ListedRoles(topic, e)
    BY <1>4 DEF Review
  <2>4. f.marked \ {"pg_sys"} \subseteq ListedRoles(topic, e)
    BY <2>1, <2>2 DEF ListedRoles, UserRoles, Roles
  <2> QED BY <1>4, <2>3, <2>4 DEF ReviewListed
<1> QED BY <1>1, <1>2, <1>3, <1>4 DEF ReviewChecks

----------------------------------------------------------------------------
(* The inductive invariant.                                                *)

\* Every snapshot that can be taken of a server of the topic.
Taken == UNION {SnapshotsOf(t, n) : t \in Truths(topic), n \in 0 .. MaxTime}

StateTyped ==
  /\ topic \in Topics /\ truth \in Truths(topic) /\ now \in 0 .. MaxTime
  /\ profile \in Profiles
  /\ snaps \in Seq(Taken) /\ Len(snaps) <= MaxSnapshots

\* The recorded run names a snapshot on which the control fails and no setting
\* is unknown.
RunRecorded(i, p) ==
  /\ topic \in RunTopics
  /\ run = [old |-> i, pin |-> {p}]
  /\ FixedResult(snaps[i], p) = "FAIL"
  /\ GappedSettings(FindingsOf(snaps[i], p)) = {}

RunOk == run # NoRun => \E i \in DOMAIN snaps : \E p \in Profiles : RunRecorded(i, p)

\* A verdict is about a recorded run and an uploaded snapshot.
VerdictOk ==
  verdict # NoVerdict =>
    /\ run # NoRun
    /\ \E i \in DOMAIN snaps : \E status \in {"REFUSED", "CONFIRMED", "FAILED"} :
         verdict = [fresh |-> i, status |-> status]

IInv == StateTyped /\ RunOk /\ VerdictOk /\ ConfirmedMeansFixed

\* A snapshot shows what the collector may see of the server it was taken of.
LEMMA TakenSnapshot ==
  ASSUME NEW s \in Taken
  PROVE  /\ s.truth \in Truths(topic)
         /\ s.set \in SettingSeen(s.truth.value)
         /\ s.cat \in CatalogSeen(s.truth.cat)
<1> DEFINE TT == Truths(topic)
           B(t) == UNION {SnapshotsOf(t, n) : n \in 0 .. MaxTime}
<1>1. PICK t \in TT, n \in 0 .. MaxTime : s \in SnapshotsOf(t, n)
  <2> HIDE DEF TT
  <2> QED BY DEF Taken, TT
<1> DEFINE stamp(i, v, c) == [at |-> n, truth |-> t, ident |-> i, set |-> v, cat |-> c]
           Known == Refusable(t.value) \cup {Clean(t.value)}
<1>2. SnapshotsOf(t, n) =
        UNION {{stamp(1, v, Complete(t.cat)) : v \in SettingEvidence(t.value)},
               {stamp(1, Clean(t.value), c) : c \in CatalogEvidence(t.cat)},
               {stamp(i, v, Complete(t.cat)) : i \in {1, 2}, v \in Known}}
  BY DEF SnapshotsOf
<1>3. \E i, v, c : /\ s = stamp(i, v, c)
                   /\ v \in SettingEvidence(t.value) \cup Known
                   /\ c \in CatalogEvidence(t.cat) \cup {Complete(t.cat)}
  <2> HIDE DEF stamp
  <2>1. \/ s \in {stamp(1, v, Complete(t.cat)) : v \in SettingEvidence(t.value)}
        \/ s \in {stamp(1, Clean(t.value), c) : c \in CatalogEvidence(t.cat)}
        \/ s \in {stamp(i, v, Complete(t.cat)) : i \in {1, 2}, v \in Known}
    BY <1>1, <1>2
  <2> QED BY <2>1
<1>4. PICK i, v, c : /\ s = stamp(i, v, c)
                    /\ v \in SettingEvidence(t.value) \cup Known
                    /\ c \in CatalogEvidence(t.cat) \cup {Complete(t.cat)}
  BY <1>3
<1>5. s.truth = t /\ s.set = v /\ s.cat = c
  BY <1>4
<1> QED BY <1>1, <1>4, <1>5 DEF SettingSeen, CatalogSeen

----------------------------------------------------------------------------
(* What the topic alone determines.                                        *)

LEMMA SpecsKept == topic' = topic => Specs' = Specs
BY DEF Specs, Automated

LEMMA ProfilesKept == topic' = topic => Profiles' = Profiles
<1> SUFFICES ASSUME topic' = topic PROVE Profiles' = Profiles
  OBVIOUS
<1> QED BY SpecsKept DEF Profiles

LEMMA SettingEvidenceKept ==
  ASSUME topic' = topic, NEW v
  PROVE  Clean(v)' = Clean(v) /\ Refusable(v)' = Refusable(v) /\ SettingEvidence(v)' = SettingEvidence(v)
<1>1. Specs' = Specs
  BY SpecsKept
<1>2. \A k : SettingOf(k)' = SettingOf(k)
  BY <1>1 DEF SettingOf
<1>3. Clean(v)' = Clean(v)
  BY <1>1, <1>2 DEF Clean, SettingOf
<1>4. Refusable(v)' = Refusable(v)
  BY <1>3 DEF Refusable
<1>5. \A k, state, seen : EntryWrong(v, k, state, seen)' = EntryWrong(v, k, state, seen)
  BY <1>3 DEF EntryWrong
<1>6. \A n, seen : SessionValue(v, n, seen)' = SessionValue(v, n, seen)
  BY <1>1, <1>3 DEF SessionValue, SettingOf
<1>7. SettingEvidence(v)' = SettingEvidence(v)
  BY <1>1, <1>2, <1>3, <1>5, <1>6 DEF SettingEvidence
<1> QED BY <1>3, <1>4, <1>7

LEMMA CatalogEvidenceKept ==
  ASSUME topic' = topic, NEW f
  PROVE  Complete(f)' = Complete(f) /\ CatalogEvidence(f)' = CatalogEvidence(f)
<1>1. Complete(f)' = Complete(f)
  BY DEF Complete
<1>2. SectionStates(f)' = SectionStates(f)
  BY DEF SectionStates
<1>3. \A q : Views(f, q)' = Views(f, q)
  BY DEF Views
<1>4. CatalogEvidence(f)' = CatalogEvidence(f)
  <2> DEFINE seen(v, q, g) == [pg17 |-> v, sec |-> q, f |-> g]
             V == IF topic = "4.5" THEN BOOLEAN ELSE {TRUE}
             A(q) == {seen(v, q, g) : g \in Views(f, q), v \in V}
             B(q) == {seen(v, q, g) : g \in Views(f, q)', v \in V'}
  <2>1. CatalogEvidence(f) = UNION {A(q) : q \in SectionStates(f)}
    BY DEF CatalogEvidence
  <2>2. CatalogEvidence(f)' = UNION {B(q) : q \in SectionStates(f)'}
    BY DEF CatalogEvidence
  <2>3. V' = V
    OBVIOUS
  <2> HIDE DEF seen, V
  <2>4. \A q : A(q) = B(q)
    BY <1>3, <2>3
  <2> HIDE DEF A, B
  <2> QED BY <1>2, <2>1, <2>2, <2>4
<1> QED BY <1>1, <1>4

LEMMA TakenKept ==
  ASSUME topic' = topic
  PROVE  Taken' = Taken
<1>1. \A t, n : SnapshotsOf(t, n)' = SnapshotsOf(t, n)
  <2> SUFFICES ASSUME NEW t, NEW n PROVE SnapshotsOf(t, n)' = SnapshotsOf(t, n)
    OBVIOUS
  <2> QED BY SettingEvidenceKept, CatalogEvidenceKept DEF SnapshotsOf
<1> QED BY <1>1 DEF Taken

\* So are the verdicts on a snapshot.
LEMMA VerdictsKept ==
  ASSUME topic' = topic, NEW s, NEW p
  PROVE  /\ CatalogResult(s, p)' = CatalogResult(s, p)
         /\ FindingsOf(s, p)' = FindingsOf(s, p)
         /\ FixedResult(s, p)' = FixedResult(s, p)
<1>1. CatalogResult(s, p)' = CatalogResult(s, p)
  BY DEF CatalogResult
<1>2. FindingsOf(s, p)' = FindingsOf(s, p)
  BY SpecsKept DEF FindingsOf
<1> QED BY <1>1, <1>2 DEF FixedResult

----------------------------------------------------------------------------
(* A confirmation.                                                         *)

LEMMA ProfileRead ==
  ASSUME NEW p \in Profiles PROVE p.approved \in BOOLEAN /\ p.classes \subseteq Classes
<1>1. PICK d \in Documents[topic] : Parses(d) /\ p = Profile(d)
  BY DEF Profiles
<1> QED BY <1>1, AssessmentAssumption DEF Profile, Parses

LEMMA TopicKnown == topic \in Topics => topic \in SettingTopics \cup CatalogTopics
BY AssessmentAssumption

LEMMA TruthTyped ==
  ASSUME NEW t \in Truths(topic)
  PROVE  t.value \in SettingTruths(topic) /\ t.cat \in CatalogTruths(topic)
BY DEF Truths

\* What is wrong is not good.
LEMMA WrongIsNotGood ==
  ASSUME topic \in CatalogTopics, NEW f \in CatalogTruths(topic), NEW p, Wrong(topic, f, p)
  PROVE  ~Good(topic, f, p)
<1>1. CASE topic \in {"4.5", "4.10", "6.11"} \cup ReviewChecks
  BY <1>1 DEF Wrong, ReviewChecks
<1>2. CASE topic \in {"4.8", "5.5", "3.2"}
  BY <1>2 DEF Wrong, Good
<1>3. CASE topic = "7.4"
  BY <1>3 DEF Wrong, Good, Archives
<1>4. CASE topic = "5.6"
  BY <1>4 DEF Wrong, Good
<1>5. CASE topic = "6.8"
  BY <1>5 DEF Wrong, Good
<1>6. CASE topic = "6.10"
  BY <1>6 DEF Wrong, Good
<1> QED BY <1>1, <1>2, <1>3, <1>4, <1>5, <1>6 DEF CatalogTopics, ReviewChecks

\* The result of the fixed control is true of the server.
LEMMA FixedJudged ==
  ASSUME topic \in {"logging"} \cup CatalogTopics, NEW s \in Taken, NEW p \in Profiles
  PROVE  /\ FixedResult(s, p) = "PASS" => Fixed(s.truth, p)
         /\ FixedResult(s, p) = "FAIL" => ~Fixed(s.truth, p)
<1>1. /\ s.truth.value \in SettingTruths(topic) /\ s.truth.cat \in CatalogTruths(topic)
      /\ s.set \in SettingSeen(s.truth.value) /\ s.cat \in CatalogSeen(s.truth.cat)
  BY TakenSnapshot, TruthTyped
<1>2. CASE topic = "logging"
  <2>1. FixedControl \in DOMAIN Specs
    BY <1>2, OtherSpecs DEF FixedControl
  <2>2. SettingJudged(s.truth.value, s.set, p, FixedControl)
    BY <1>1, <1>2, <2>1, SettingVerdict DEF SettingTopics
  <2>3. FixedResult(s, p) = UiStatus(Decide(Specs, FixedControl, s.set, p))
    BY <1>2, <2>1 DEF FixedResult, FindingsOf, Findings
  <2> QED BY <1>2, <2>2, <2>3 DEF UiStatus, SettingJudged, Fixed
<1>3. CASE topic # "logging"
  <2>1. FixedResult(s, p) = Evaluate(topic, s.cat, p) /\ (Fixed(s.truth, p) <=> Good(topic, s.truth.cat, p))
    BY <1>3 DEF FixedResult, CatalogResult, Fixed
  <2>2. CatalogJudged(s.truth.cat, s.cat, p)
    BY <1>1, <1>3, CatalogVerdict, ProfileRead
  <2> QED BY <1>1, <1>3, <2>1, <2>2, WrongIsNotGood DEF CatalogJudged
<1> QED BY <1>2, <1>3

\* Without an unknown before and a regression since, what was met is still met.
LEMMA MetIsKept ==
  ASSUME topic \in {"logging"} \cup CatalogTopics, NEW old \in Taken, NEW new \in Taken, NEW p,
         GappedSettings(FindingsOf(old, p)) = {}, Regressions(old, new, p) = {},
         NEW c \in DOMAIN Specs, Meets(c, old.truth.value, p)
  PROVE  Meets(c, new.truth.value, p)
<1>1. topic # "listening" /\ topic \in SettingTopics \cup CatalogTopics
  BY DEF SettingTopics, CatalogTopics
<1> DEFINE d(s) == Decide(Specs, c, s.set, p)
<1>2. /\ SettingJudged(old.truth.value, old.set, p, c)
      /\ SettingJudged(new.truth.value, new.set, p, c)
  BY <1>1, TakenSnapshot, TruthTyped, SettingVerdict
<1>3. FindingsOf(old, p)[c] = UiStatus(d(old)) /\ FindingsOf(new, p)[c] = UiStatus(d(new))
      /\ DOMAIN FindingsOf(old, p) = DOMAIN Specs
  BY DEF FindingsOf, Findings
<1>4. Specs[c].tier = "automated" /\ c \in {"3.1.2", "3.1.12"}
  BY <1>1, OtherSpecs DEF Automated
<1>5. d(old) # "MANUAL"
  BY <1>1, <1>4, TakenSnapshot, TruthTyped, SeenFaithful, DecidedByValue
<1>6. UiStatus(d(old)) # "GAPPED"
  BY <1>3 DEF GappedSettings
<1>7. d(old) \in {"PASS", "NOT_APPLICABLE"}
  BY <1>2, <1>5, <1>6 DEF UiStatus, SettingJudged
<1>8. ~IsRegression(UiStatus(d(old)), UiStatus(d(new)))
  BY <1>3 DEF Regressions
<1>9. d(new) \in {"PASS", "NOT_APPLICABLE"}
  BY <1>7, <1>8 DEF UiStatus, IsRegression
<1> QED BY <1>2, <1>4, <1>9 DEF SettingJudged, Meets

----------------------------------------------------------------------------
(* The invariant is inductive.                                             *)

LEMMA InitIInv == Init => IInv
<1> SUFFICES ASSUME Init PROVE IInv
  OBVIOUS
<1>1. StateTyped
  BY AssessmentAssumption DEF Init, StateTyped
<1>2. RunOk /\ VerdictOk /\ ConfirmedMeansFixed
  BY DEF Init, RunOk, VerdictOk, ConfirmedMeansFixed, NoVerdict
<1> QED BY <1>1, <1>2 DEF IInv

\* A step that keeps the topic, the run, the verdict and every snapshot keeps
\* what is said about them.
LEMMA RecordsKept ==
  ASSUME IInv, topic' = topic, run' = run, verdict' = verdict,
         DOMAIN snaps \subseteq DOMAIN snaps', \A i \in DOMAIN snaps : snaps'[i] = snaps[i]
  PROVE  RunOk' /\ VerdictOk' /\ ConfirmedMeansFixed'
<1>1. Profiles' = Profiles /\ Specs' = Specs
  BY ProfilesKept, SpecsKept
<1>2. ASSUME NEW i \in DOMAIN snaps, NEW p \in Profiles, RunRecorded(i, p) PROVE RunRecorded(i, p)'
  <2>1. FixedResult(snaps[i], p)' = FixedResult(snaps[i], p) /\ FindingsOf(snaps[i], p)' = FindingsOf(snaps[i], p)
    <3> DEFINE s == snaps[i]
    <3>1. s' = s
      OBVIOUS
    <3>2. \A x : FixedResult(x, p)' = FixedResult(x, p) /\ FindingsOf(x, p)' = FindingsOf(x, p)
      BY VerdictsKept
    <3> QED BY <3>1, <3>2
  <2> QED BY <1>2, <2>1 DEF RunRecorded
<1>3. RunOk'
  BY <1>1, <1>2 DEF IInv, RunOk
<1>4. VerdictOk'
  BY DEF IInv, VerdictOk
<1>5. ASSUME verdict.status = "CONFIRMED"
      PROVE  /\ run.old \in DOMAIN snaps /\ verdict.fresh \in DOMAIN snaps
             /\ snaps'[run.old] = snaps[run.old] /\ snaps'[verdict.fresh] = snaps[verdict.fresh]
  <2>1. verdict # NoVerdict
    BY <1>5 DEF NoVerdict
  <2>2. run # NoRun /\ verdict.fresh \in DOMAIN snaps
    BY <2>1 DEF IInv, VerdictOk
  <2>3. run.old \in DOMAIN snaps
    BY <2>2 DEF IInv, RunOk, RunRecorded
  <2> QED BY <2>2, <2>3
<1>6. Pinned' = Pinned /\ \A t, p : Fixed(t, p)' = Fixed(t, p)
  BY DEF Pinned, Fixed
<1>7. ConfirmedMeansFixed'
  BY <1>1, <1>5, <1>6 DEF IInv, ConfirmedMeansFixed
<1> QED BY <1>3, <1>4, <1>7

LEMMA CollectKeeps == IInv /\ Collect => IInv'
<1> SUFFICES ASSUME IInv, Collect PROVE IInv'
  OBVIOUS
<1>1. PICK s \in Snapshots : snaps' = Append(snaps, s)
  BY DEF Collect
<1>2. topic \in Topics /\ truth \in Truths(topic) /\ now \in 0 .. MaxTime /\ profile \in Profiles
      /\ snaps \in Seq(Taken) /\ Len(snaps) <= MaxSnapshots
  BY DEF IInv, StateTyped
<1>3. s \in Taken
  BY <1>1, <1>2 DEF Snapshots, Taken
<1>4. Taken' = Taken /\ Profiles' = Profiles
  BY TakenKept, ProfilesKept DEF Collect
<1>5. /\ snaps' \in Seq(Taken) /\ Len(snaps') = Len(snaps) + 1
      /\ DOMAIN snaps \subseteq DOMAIN snaps' /\ \A i \in DOMAIN snaps : snaps'[i] = snaps[i]
  BY <1>1, <1>2, <1>3
<1>6. Len(snaps') <= MaxSnapshots
  BY <1>2, <1>5, AssessmentAssumption DEF Collect
<1>7. StateTyped'
  BY <1>2, <1>4, <1>5, <1>6 DEF Collect, StateTyped
<1>8. RunOk' /\ VerdictOk' /\ ConfirmedMeansFixed'
  BY <1>5, RecordsKept DEF Collect
<1> QED BY <1>7, <1>8 DEF IInv

LEMMA RecordRunKeeps == IInv /\ (\E i \in DOMAIN snaps : RecordRun(i)) => IInv'
<1> SUFFICES ASSUME IInv, NEW i \in DOMAIN snaps, RecordRun(i) PROVE IInv'
  OBVIOUS
<1>1. UNCHANGED <<topic, truth, now, snaps, profile, verdict>> /\ run = NoRun
      /\ topic \in RunTopics /\ run' = [old |-> i, pin |-> {profile}]
      /\ FixedResult(snaps[i], profile) = "FAIL" /\ GappedSettings(FindingsOf(snaps[i], profile)) = {}
  BY DEF RecordRun, ValidHandoff
<1>2. StateTyped'
  BY <1>1, TakenKept, ProfilesKept DEF IInv, StateTyped
<1>3. verdict = NoVerdict
  BY <1>1 DEF IInv, VerdictOk
<1>4. RunRecorded(i, profile)'
  <2> DEFINE s == snaps[i]  p == profile
  <2>1. s' = s /\ p' = p
    BY <1>1
  <2>2. \A x, y : FixedResult(x, y)' = FixedResult(x, y) /\ FindingsOf(x, y)' = FindingsOf(x, y)
    BY <1>1, VerdictsKept
  <2>3. FixedResult(s, p)' = FixedResult(s, p) /\ FindingsOf(s, p)' = FindingsOf(s, p)
    BY <2>1, <2>2
  <2> QED BY <1>1, <2>3 DEF RunRecorded
<1>5. RunOk'
  <2>1. profile \in Profiles /\ Profiles' = Profiles
    BY <1>1, ProfilesKept DEF IInv, StateTyped
  <2> QED BY <1>1, <1>4, <2>1 DEF RunOk
<1>6. VerdictOk' /\ ConfirmedMeansFixed'
  BY <1>1, <1>3 DEF VerdictOk, ConfirmedMeansFixed, NoVerdict
<1> QED BY <1>2, <1>5, <1>6 DEF IInv

LEMMA ServerKeeps == IInv /\ (Change \/ Tick) => IInv'
<1> SUFFICES ASSUME IInv, Change \/ Tick PROVE IInv'
  OBVIOUS
<1>1. UNCHANGED <<topic, snaps, profile, run, verdict>>
  BY DEF Change, Tick
<1>2. truth' \in Truths(topic) /\ now' \in 0 .. MaxTime
  BY AssessmentAssumption DEF Change, Tick, IInv, StateTyped
<1>3. StateTyped'
  BY <1>1, <1>2, TakenKept, ProfilesKept DEF IInv, StateTyped
<1>4. RunOk' /\ VerdictOk' /\ ConfirmedMeansFixed'
  BY <1>1, RecordsKept
<1> QED BY <1>3, <1>4 DEF IInv

LEMMA ChooseProfileKeeps == IInv /\ ChooseProfile => IInv'
<1> SUFFICES ASSUME IInv, ChooseProfile PROVE IInv'
  OBVIOUS
<1>1. UNCHANGED <<topic, truth, now, snaps, run, verdict>> /\ profile' \in Profiles
  BY DEF ChooseProfile
<1>2. StateTyped'
  BY <1>1, TakenKept, ProfilesKept DEF IInv, StateTyped
<1>3. RunOk' /\ VerdictOk' /\ ConfirmedMeansFixed'
  BY <1>1, RecordsKept
<1> QED BY <1>2, <1>3 DEF IInv

\* A verdict of CONFIRMED: the old snapshot failed, the new one passes.
LEMMA Confirmation ==
  ASSUME IInv, NEW i \in DOMAIN snaps, run # NoRun, NEW installed,
         Comparable(snaps[run.old], snaps[i], installed), Verified(snaps[run.old], snaps[i], Pinned)
  PROVE  /\ snaps[i].ident = snaps[run.old].ident /\ snaps[i].at > snaps[run.old].at
         /\ ~Fixed(snaps[run.old].truth, Pinned) /\ Fixed(snaps[i].truth, Pinned)
         /\ \A c \in DOMAIN Specs :
              Meets(c, snaps[run.old].truth.value, Pinned) => Meets(c, snaps[i].truth.value, Pinned)
<1>1. PICK j \in DOMAIN snaps, p \in Profiles : RunRecorded(j, p)
  BY DEF IInv, RunOk
<1>2. run.old = j /\ Pinned = p /\ topic \in RunTopics
  <2>1. run.old = j /\ run.pin = {p}
    BY <1>1 DEF RunRecorded
  <2> QED BY <1>1, <2>1 DEF Pinned, RunRecorded
<1>3. snaps[i] \in Taken /\ snaps[j] \in Taken /\ topic \in {"logging"} \cup CatalogTopics
  BY <1>2, AssessmentAssumption DEF IInv, StateTyped
<1>4. ~Fixed(snaps[j].truth, p)
  BY <1>1, <1>3, FixedJudged DEF RunRecorded
<1>5. Fixed(snaps[i].truth, p)
  BY <1>2, <1>3, FixedJudged DEF Verified
<1>6. \A c \in DOMAIN Specs : Meets(c, snaps[j].truth.value, p) => Meets(c, snaps[i].truth.value, p)
  BY <1>1, <1>2, <1>3, MetIsKept DEF Verified, RunRecorded
<1> QED BY <1>2, <1>4, <1>5, <1>6 DEF Comparable

LEMMA ReassessKeeps ==
  IInv /\ (\E i \in DOMAIN snaps, installed \in BOOLEAN : Reassess(i, installed)) => IInv'
<1> SUFFICES ASSUME IInv, NEW i \in DOMAIN snaps, NEW installed \in BOOLEAN, Reassess(i, installed)
             PROVE  IInv'
  OBVIOUS
<1>1. UNCHANGED <<topic, truth, now, snaps, profile, run>> /\ run # NoRun
  BY DEF Reassess
<1>2. StateTyped'
  BY <1>1, TakenKept, ProfilesKept DEF IInv, StateTyped
<1> DEFINE status == IF ~Comparable(snaps[run.old], snaps[i], installed) THEN "REFUSED"
                     ELSE IF Verified(snaps[run.old], snaps[i], Pinned) THEN "CONFIRMED" ELSE "FAILED"
<1>3. verdict' = [fresh |-> i, status |-> status] /\ status \in {"REFUSED", "CONFIRMED", "FAILED"}
  BY DEF Reassess
<1>4. RunOk'
  <2> DEFINE kept == RunOk
  <2>1. \A x, p : FixedResult(x, p)' = FixedResult(x, p) /\ FindingsOf(x, p)' = FindingsOf(x, p)
    BY <1>1, VerdictsKept
  <2>2. Profiles' = Profiles
    BY <1>1, ProfilesKept
  <2>3. PICK j \in DOMAIN snaps, p \in Profiles : RunRecorded(j, p)
    BY <1>1 DEF IInv, RunOk
  <2> DEFINE s == snaps[j]
  <2>4. s' = s
    BY <1>1
  <2>5. FixedResult(s, p)' = FixedResult(s, p) /\ FindingsOf(s, p)' = FindingsOf(s, p)
    BY <2>1, <2>4
  <2>6. RunRecorded(j, p)'
    BY <1>1, <2>3, <2>5 DEF RunRecorded
  <2> QED BY <1>1, <2>2, <2>6 DEF RunOk
<1>5. VerdictOk'
  BY <1>1, <1>3 DEF VerdictOk
<1>6. ConfirmedMeansFixed'
  <2> SUFFICES ASSUME status = "CONFIRMED" PROVE ConfirmedMeansFixed'
    BY <1>3 DEF ConfirmedMeansFixed
  <2>1. Comparable(snaps[run.old], snaps[i], installed) /\ Verified(snaps[run.old], snaps[i], Pinned)
    OBVIOUS
  <2>2. /\ snaps[i].ident = snaps[run.old].ident /\ snaps[i].at > snaps[run.old].at
        /\ ~Fixed(snaps[run.old].truth, Pinned) /\ Fixed(snaps[i].truth, Pinned)
        /\ \A c \in DOMAIN Specs :
             Meets(c, snaps[run.old].truth.value, Pinned) => Meets(c, snaps[i].truth.value, Pinned)
    BY <1>1, <2>1, Confirmation
  <2>3. Pinned' = Pinned /\ Specs' = Specs /\ verdict'.fresh = i
    BY <1>1, <1>3, SpecsKept DEF Pinned
  <2>4. \A t, p : Fixed(t, p)' = Fixed(t, p)
    BY <1>1 DEF Fixed
  <2> HIDE DEF status
  <2> QED BY <1>1, <2>2, <2>3, <2>4 DEF ConfirmedMeansFixed
<1> QED BY <1>2, <1>4, <1>5, <1>6 DEF IInv

LEMMA NextKeepsIInv == IInv /\ [Next]_vars => IInv'
<1> SUFFICES ASSUME IInv, [Next]_vars PROVE IInv'
  OBVIOUS
<1>1. CASE UNCHANGED vars
  <2>1. UNCHANGED <<topic, truth, now, snaps, profile, run, verdict>>
    BY <1>1 DEF vars
  <2>2. StateTyped'
    BY <2>1, TakenKept, ProfilesKept DEF IInv, StateTyped
  <2> QED BY <2>1, <2>2, RecordsKept DEF IInv
<1> QED BY <1>1, CollectKeeps, RecordRunKeeps, ServerKeeps, ChooseProfileKeeps, ReassessKeeps DEF Next

LEMMA IInvHolds == Spec => []IInv
BY InitIInv, NextKeepsIInv, PTL DEF Spec

----------------------------------------------------------------------------
(* The theorems.                                                           *)

\* The state has its types; a run and a verdict refer to snapshots that were
\* uploaded.
THEOREM TypeCorrect == Spec => []TypeOK
<1>1. ASSUME IInv PROVE TypeOK
  <2>1. topic \in Topics /\ truth \in Truths(topic) /\ profile.approved \in BOOLEAN /\ now \in 0 .. MaxTime
        /\ Len(snaps) <= MaxSnapshots /\ Len(snaps) \in Nat /\ DOMAIN snaps = 1 .. Len(snaps)
    BY <1>1, ProfileRead DEF IInv, StateTyped
  <2>2. run.old \in 0 .. Len(snaps) /\ Cardinality(run.pin) <= 1
    <3>1. CASE run = NoRun
      BY <2>1, <3>1, FS_EmptySet DEF NoRun
    <3>2. CASE run # NoRun
      <4>1. PICK i \in DOMAIN snaps, p \in Profiles : run = [old |-> i, pin |-> {p}]
        BY <1>1, <3>2 DEF IInv, RunOk, RunRecorded
      <4>2. Cardinality({p}) = 1
        BY FS_Singleton
      <4> QED BY <2>1, <4>1, <4>2
    <3> QED BY <3>1, <3>2
  <2>3. verdict.fresh \in 0 .. Len(snaps) /\ verdict.status \in {"none", "REFUSED", "CONFIRMED", "FAILED"}
    <3>1. CASE verdict = NoVerdict
      BY <2>1, <3>1 DEF NoVerdict
    <3>2. CASE verdict # NoVerdict
      BY <1>1, <2>1, <3>2 DEF IInv, VerdictOk
    <3> QED BY <3>1, <3>2
  <2> QED BY <2>1, <2>2, <2>3 DEF TypeOK
<1> QED BY <1>1, IInvHolds, PTL

\* A setting control passes, fails or is inapplicable only where the server says
\* so, whatever is missing from the evidence, and the fix that is offered for a
\* failing one repairs it (assess._decide, planning.fix_scope).
THEOREM SettingVerdicts == Spec => []SettingVerdictsTrue
<1>1. ASSUME IInv PROVE SettingVerdictsTrue
  <2> SUFFICES ASSUME NEW i \in DOMAIN snaps, NEW c \in DOMAIN Specs
               PROVE  /\ SettingJudged(snaps[i].truth.value, snaps[i].set, profile, c)
                      /\ FixJudged(snaps[i].truth.value, profile, c)
    BY DEF SettingVerdictsTrue, SettingJudged, FixJudged
  <2>1. snaps[i] \in Taken /\ topic \in SettingTopics \cup CatalogTopics
    BY <1>1, TopicKnown DEF IInv, StateTyped
  <2>2. snaps[i].truth.value \in SettingTruths(topic) /\ snaps[i].set \in SettingSeen(snaps[i].truth.value)
    BY <2>1, TakenSnapshot, TruthTyped
  <2> QED BY <2>1, <2>2, SettingVerdict, SettingFix
<1> QED BY <1>1, IInvHolds, PTL

\* A catalog check passes only on a server that is right and fails only on one
\* that is wrong, whatever the evidence lacks (catalog_checks.py).
THEOREM CatalogVerdicts == Spec => []CatalogVerdictsTrue
<1>1. ASSUME IInv PROVE CatalogVerdictsTrue
  <2> SUFFICES ASSUME topic \notin {"logging", "listening"}, NEW i \in DOMAIN snaps
               PROVE  CatalogJudged(snaps[i].truth.cat, snaps[i].cat, profile)
    BY DEF CatalogVerdictsTrue, CatalogJudged, CatalogResult
  <2>1. snaps[i] \in Taken /\ profile \in Profiles /\ topic \in CatalogTopics
    BY <1>1, TopicKnown DEF IInv, StateTyped, SettingTopics
  <2>2. snaps[i].truth.cat \in CatalogTruths(topic) /\ snaps[i].cat \in CatalogSeen(snaps[i].truth.cat)
    BY <2>1, TakenSnapshot, TruthTyped
  <2> QED BY <2>1, <2>2, ProfileRead, CatalogVerdict
<1> QED BY <1>1, IInvHolds, PTL

\* A review check that answers MANUAL lists whoever its evaluator looks for,
\* however the memberships lead to a role; a writer that the list of 4.6 lacks
\* is the table's owner or a member of the owner or of a superuser, and writes
\* in no other way (catalog_checks.py).
THEOREM ReviewComplete == Spec => []ReviewListComplete
<1>1. ASSUME IInv PROVE ReviewListComplete
  <2> SUFFICES ASSUME topic \in ReviewChecks, NEW i \in DOMAIN snaps
               PROVE  ReviewListed(snaps[i].truth.cat, snaps[i].cat, profile)
    BY DEF ReviewListComplete, ReviewListed, CatalogResult
  <2>1. snaps[i] \in Taken
    BY <1>1 DEF IInv, StateTyped
  <2>2. snaps[i].truth.cat \in CatalogTruths(topic) /\ snaps[i].cat \in CatalogSeen(snaps[i].truth.cat)
    BY <2>1, TakenSnapshot, TruthTyped
  <2> QED BY <2>2, ReviewList
<1> QED BY <1>1, IInvHolds, PTL

\* A confirmed target is fixed: the same cluster, later, meets the tested
\* control under the recorded policy, and what it met before it still meets
\* (history.compare).
THEOREM ConfirmedFixed == Spec => []ConfirmedMeansFixed
BY IInvHolds, PTL DEF IInv
=============================================================================
