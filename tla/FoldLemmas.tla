---- MODULE FoldLemmas ----
(***************************************************************************)
(* Lemmas about the operators of the libraries that the modules fold and   *)
(* list with: induction on the numbers, the folds over the positions of a  *)
(* sequence, the sequence of a finite set.                                 *)
(***************************************************************************)
EXTENDS Naturals, SequencesExt, FiniteSetTheorems, WellFoundedInduction, TLAPS

(* Induction on the natural numbers, with the property as a set. *)
LEMMA NatSetInduction ==
  ASSUME NEW S, 0 \in S, \A n \in Nat : n \in S => n + 1 \in S
  PROVE  Nat \subseteq S
  <1> DEFINE T == Nat \ S
             R == OpToRel(<, Nat)
  <1> SUFFICES ASSUME T # {} PROVE FALSE
    OBVIOUS
  <1>1. IsWellFoundedOn(R, Nat)
    BY NatLessThanWellFounded
  <1> HIDE DEF R
  <1>2. PICK x \in T : \A y \in T : <<y, x>> \notin R
    <2>1. T \subseteq Nat
      OBVIOUS
    <2> HIDE DEF T
    <2> QED
      BY <1>1, <2>1, WFMin
  <1>3. x \in Nat /\ x # 0 /\ x - 1 \in Nat
    OBVIOUS
  <1>4. x - 1 \notin S
    <2>1. SUFFICES ASSUME x - 1 \in S PROVE FALSE
      OBVIOUS
    <2>2. (x - 1) + 1 \in S
      BY <1>3, <2>1
    <2> QED
      BY <1>3, <2>2
  <1>5. <<x - 1, x>> \in R
    BY <1>3 DEF R, OpToRel
  <1> QED
    BY <1>2, <1>3, <1>4, <1>5

(* A number with a property is the least one, or there is a lesser one. *)
LEMMA LeastNumber ==
  ASSUME NEW S \in SUBSET Nat, S # {}
  PROVE  \E n \in S : \A k \in S : n <= k
  <1> DEFINE L == {n \in Nat : (\E k \in S : k <= n) => \E m \in S : \A k \in S : m <= k}
  <1>1. 0 \in L
    OBVIOUS
  <1>2. \A n \in Nat : n \in L => n + 1 \in L
    <2> SUFFICES ASSUME NEW n \in Nat, n \in L, NEW j \in S, j <= n + 1
                 PROVE  \E m \in S : \A k \in S : m <= k
      OBVIOUS
    <2>1. CASE \E k \in S : k <= n
      BY <2>1
    <2>2. CASE ~ \E k \in S : k <= n
      <3>1. \A k \in S : j <= k
        BY <2>2
      <3> QED
        BY <3>1
    <2> QED
      BY <2>1, <2>2
  <1>3. Nat \subseteq L
    <2> HIDE DEF L
    <2> QED
      BY <1>1, <1>2, NatSetInduction
  <1>4. PICK j \in S : TRUE
    OBVIOUS
  <1>5. j \in L
    BY <1>3
  <1> QED
    BY <1>4, <1>5

----------------------------------------------------------------------------
(* Folds *)

(* The last position of a sequence. *)
LEMMA MaxOfInterval ==
  ASSUME NEW n \in Nat \ {0}
  PROVE  Max(1 .. n) = n
  <1>1. /\ n \in 1 .. n /\ \A y \in 1 .. n : n >= y
        /\ \A x \in 1 .. n : (\A y \in 1 .. n : x >= y) => x = n
    OBVIOUS
  <1> QED
    BY <1>1 DEF Max

(* A non-empty set of positions has a last one. *)
LEMMA MaxExists ==
  ASSUME NEW n \in Nat, NEW s \in SUBSET (1 .. n), s # {}
  PROVE  Max(s) \in s /\ \A y \in s : Max(s) >= y
  <1> DEFINE L == {k \in Nat : (\A x \in s : x <= k) => \E x \in s : \A y \in s : x >= y}
  <1>1. 0 \in L
    <2>1. \A x \in s : x \in Nat /\ ~ x <= 0
      OBVIOUS
    <2> QED
      BY <2>1
  <1>2. \A k \in Nat : k \in L => k + 1 \in L
    <2> SUFFICES ASSUME NEW k \in Nat, k \in L, \A x \in s : x <= k + 1
                 PROVE  \E x \in s : \A y \in s : x >= y
      OBVIOUS
    <2>1. CASE k + 1 \in s
      BY <2>1
    <2>2. CASE k + 1 \notin s
      <3>1. \A x \in s : x <= k
        BY <2>2
      <3> QED
        BY <3>1
    <2> QED
      BY <2>1, <2>2
  <1>3. n \in L
    <2> HIDE DEF L
    <2> QED
      BY <1>1, <1>2, NatSetInduction
  <1>4. \E x \in s : \A y \in s : x >= y
    BY <1>3
  <1> QED
    BY <1>4 DEF Max

(* The folds of the last n positions' prefixes. *)
IsFold(f, n, base, step) ==
    f = [s \in SUBSET (1 .. n) |->
           IF s = {} THEN base ELSE step[<<f[s \ {Max(s)}], Max(s)>>]]

(* A fold over the positions of a sequence, from the last one down to the  *)
(* first, exists: it is the limit of its restrictions to the sets of at    *)
(* most k positions.                                                       *)
LEMMA FoldExists ==
  ASSUME NEW n \in Nat, NEW V, NEW base \in V, NEW step \in [V \X (1 .. n) -> V]
  PROVE  \E f \in [SUBSET (1 .. n) -> V] : IsFold(f, n, base, step)
  <1> DEFINE D == 1 .. n
             Small(k) == {s \in SUBSET D : Cardinality(s) <= k}
             Fold(g, k) ==
               \A s \in Small(k) :
                  g[s] = IF s = {} THEN base ELSE step[<<g[s \ {Max(s)}], Max(s)>>]
             K == {k \in Nat : \E g \in [SUBSET D -> V] : Fold(g, k)}
  <1>1. \A s \in SUBSET D : /\ IsFiniteSet(s) /\ Cardinality(s) \in Nat
                            /\ Cardinality(s) <= n
                            /\ Cardinality(s) = 0 <=> s = {}
    <2>1. IsFiniteSet(D) /\ Cardinality(D) = n
      BY FS_Interval
    <2> HIDE DEF D
    <2> QED
      BY <2>1, FS_Subset, FS_CardinalityType, FS_EmptySet
  <1>2. \A s \in SUBSET D : s # {} =>
           /\ Max(s) \in s
           /\ s \ {Max(s)} \in SUBSET D
           /\ Cardinality(s \ {Max(s)}) = Cardinality(s) - 1
    <2> SUFFICES ASSUME NEW s \in SUBSET D, s # {}
                 PROVE  /\ Max(s) \in s
                        /\ s \ {Max(s)} \in SUBSET D
                        /\ Cardinality(s \ {Max(s)}) = Cardinality(s) - 1
      OBVIOUS
    <2>1. Max(s) \in s
      BY MaxExists
    <2> HIDE DEF D
    <2> QED
      BY <1>1, <2>1, FS_RemoveElement
  <1> HIDE DEF D
  <1>3. 0 \in K
    <2> DEFINE g == [s \in SUBSET D |-> base]
    <2>1. g \in [SUBSET D -> V]
      OBVIOUS
    <2>2. Fold(g, 0)
      BY <1>1
    <2> QED
      BY <2>1, <2>2
  <1>4. ASSUME NEW k \in Nat, NEW g \in [SUBSET D -> V], Fold(g, k)
        PROVE  \E h \in [SUBSET D -> V] : Fold(h, k + 1)
    <2> DEFINE h == [s \in SUBSET D |->
                       IF s = {} THEN base ELSE step[<<g[s \ {Max(s)}], Max(s)>>]]
    <2>1. h \in [SUBSET D -> V]
      BY <1>2 DEF D
    <2>2. \A s \in Small(k) : h[s] = g[s]
      BY <1>4
    <2>3. ASSUME NEW s \in Small(k + 1), s # {}
          PROVE  h[s] = step[<<h[s \ {Max(s)}], Max(s)>>]
      <3>1. s \ {Max(s)} \in Small(k)
        BY <1>1, <1>2, <2>3
      <3>2. h[s \ {Max(s)}] = g[s \ {Max(s)}]
        BY <2>2, <3>1
      <3> QED
        BY <2>3, <3>2
    <2>4. \A s \in SUBSET D : s = {} => h[s] = base
      OBVIOUS
    <2>5. Fold(h, k + 1)
      <3> HIDE DEF h
      <3> QED
        BY <2>3, <2>4
    <2> QED
      BY <2>1, <2>5
  <1>5. n \in K
    <2>1. \A k \in Nat : k \in K => k + 1 \in K
      <3> HIDE DEF Fold
      <3>1. ASSUME NEW k \in Nat, k \in K
            PROVE  k + 1 \in K
        <4>1. \E g \in [SUBSET D -> V] : Fold(g, k)
          BY <3>1
        <4>2. \E h \in [SUBSET D -> V] : Fold(h, k + 1)
          BY <1>4, <4>1
        <4> QED
          BY <4>2
      <3> QED
        BY <3>1
    <2> HIDE DEF K
    <2> QED
      BY <1>3, <2>1, NatSetInduction
  <1>6. PICK f \in [SUBSET D -> V] : Fold(f, n)
    BY <1>5
  <1>7. Small(n) = SUBSET D
    BY <1>1
  <1>8. f = [s \in SUBSET D |-> IF s = {} THEN base ELSE step[<<f[s \ {Max(s)}], Max(s)>>]]
    BY <1>6, <1>7
  <1> QED
    BY <1>6, <1>8 DEF D, IsFold

(* A function that takes these steps as long as its values are in V. *)
Folds(iter, n, V, base, step) ==
    /\ iter[{}] = base
    /\ \A s \in SUBSET (1 .. n) :
         s # {} /\ iter[s \ {Max(s)}] \in V =>
            iter[s] = step[<<iter[s \ {Max(s)}], Max(s)>>]

(* The values the steps give one after the other. *)
Run(acc, n, base, step, last) ==
    /\ acc[0] = base
    /\ \A i \in 1 .. n : acc[i] = step[<<acc[i - 1], i>>]
    /\ acc[n] = last

(* Its values are in V, and are those of the steps one after the other. *)
LEMMA FoldSteps ==
  ASSUME NEW n \in Nat, NEW V, NEW base \in V, NEW step \in [V \X (1 .. n) -> V],
         NEW iter, Folds(iter, n, V, base, step)
  PROVE  \E acc \in [0 .. n -> V] : Run(acc, n, base, step, iter[1 .. n])
  <1>1. /\ iter[{}] = base
        /\ \A s \in SUBSET (1 .. n) :
             s # {} /\ iter[s \ {Max(s)}] \in V =>
                iter[s] = step[<<iter[s \ {Max(s)}], Max(s)>>]
    BY DEF Folds
  <1>2. iter[1 .. 0] = base
    <2>1. 1 .. 0 = {}
      OBVIOUS
    <2> QED
      BY <1>1, <2>1
  <1>3. \A i \in 1 .. n : iter[1 .. i - 1] \in V =>
           iter[1 .. i] = step[<<iter[1 .. i - 1], i>>]
    <2> SUFFICES ASSUME NEW i \in 1 .. n, iter[1 .. i - 1] \in V
                 PROVE  iter[1 .. i] = step[<<iter[1 .. i - 1], i>>]
      OBVIOUS
    <2>1. Max(1 .. i) = i
      BY MaxOfInterval
    <2>2. (1 .. i) \ {i} = 1 .. i - 1
      OBVIOUS
    <2>3. 1 .. i \in SUBSET (1 .. n) /\ 1 \in 1 .. i
      OBVIOUS
    <2> QED
      BY <1>1, <2>1, <2>2, <2>3
  <1> DEFINE K == {k \in Nat : k <= n => iter[1 .. k] \in V}
  <1>4. 0 \in K
    BY <1>2
  <1>5. \A k \in Nat : k \in K => k + 1 \in K
    <2>1. ASSUME NEW k \in Nat, k \in K
          PROVE  k + 1 \in K
      <3> SUFFICES ASSUME k + 1 <= n
                   PROVE  iter[1 .. k + 1] \in V
        OBVIOUS
      <3>1. iter[1 .. k] \in V /\ k + 1 \in 1 .. n /\ (k + 1) - 1 = k
        BY <2>1
      <3>2. iter[1 .. k + 1] = step[<<iter[1 .. k], k + 1>>]
        BY <1>3, <3>1
      <3> QED
        BY <3>1, <3>2
    <2> HIDE DEF K
    <2> QED
      BY <2>1
  <1>6. \A k \in 0 .. n : iter[1 .. k] \in V
    <2>1. Nat \subseteq K
      <3> HIDE DEF K
      <3> QED
        BY <1>4, <1>5, NatSetInduction
    <2> QED
      BY <2>1
  <1> DEFINE acc == [k \in 0 .. n |-> iter[1 .. k]]
  <1>7. acc \in [0 .. n -> V] /\ acc[0] = base /\ acc[n] = iter[1 .. n]
    BY <1>2, <1>6
  <1>8. \A i \in 1 .. n : acc[i] = step[<<acc[i - 1], i>>]
    <2>1. \A i \in 1 .. n : i - 1 \in 0 .. n /\ i \in 0 .. n
      OBVIOUS
    <2> QED
      BY <1>3, <1>6, <2>1
  <1> HIDE DEF acc
  <1> QED
    BY <1>7, <1>8 DEF Run

----------------------------------------------------------------------------
(* Sequences of sequences *)

(* What the first sequences of a list make, put together. *)
Joins(pre, V, parts) ==
    /\ pre \in [0 .. Len(parts) -> Seq(V)]
    /\ pre[0] = <<>>
    /\ \A i \in 1 .. Len(parts) : pre[i] = pre[i - 1] \o parts[i]

(* FlattenSeq puts the sequences of a list together. *)
LEMMA FlattenJoins ==
  ASSUME NEW V, NEW parts \in Seq(Seq(V)), NEW pre, Joins(pre, V, parts)
  PROVE  FlattenSeq(parts) = pre[Len(parts)]
  <1> DEFINE n == Len(parts)
             flatten == CHOOSE f : f = [i \in 1 .. n |->
                           IF i = 1 THEN parts[i] ELSE f[i - 1] \o parts[i]]
             g == [i \in 1 .. n |-> pre[i]]
  <1>1. /\ n \in Nat /\ pre[0] = <<>>
        /\ \A i \in 0 .. n : pre[i] \in Seq(V)
        /\ \A i \in 1 .. n : parts[i] \in Seq(V)
        /\ \A i \in 1 .. n : \A j : j = i - 1 => pre[i] = pre[j] \o parts[i]
    <2>1. n \in Nat
      OBVIOUS
    <2>2. pre[0] = <<>> /\ \A i \in 0 .. n : pre[i] \in Seq(V)
      BY DEF Joins
    <2>3. \A i \in 1 .. n : parts[i] \in Seq(V)
      OBVIOUS
    <2>4. \A i \in 1 .. n : \A j : j = i - 1 => pre[i] = pre[j] \o parts[i]
      BY DEF Joins
    <2> QED
      BY <2>1, <2>2, <2>3, <2>4
  <1>2. CASE n = 0
    BY <1>1, <1>2 DEF FlattenSeq
  <1>3. CASE n # 0
    <2>1. FlattenSeq(parts) = flatten[n]
      BY <1>3 DEF FlattenSeq
    <2> HIDE DEF n
    <2>2. \A i \in 1 .. n : g[i] = IF i = 1 THEN parts[i] ELSE g[i - 1] \o parts[i]
      <3> SUFFICES ASSUME NEW i \in 1 .. n
                   PROVE  pre[i] = IF i = 1 THEN parts[i] ELSE g[i - 1] \o parts[i]
        OBVIOUS
      <3>1. CASE i = 1
        <4>1. pre[1] = pre[0] \o parts[1] /\ parts[1] \in Seq(V)
          <5>1. 0 = 1 - 1
            OBVIOUS
          <5> QED
            BY <1>1, <3>1, <5>1
        <4>2. <<>> \o parts[1] = parts[1]
          BY <4>1
        <4> QED
          BY <1>1, <3>1, <4>1, <4>2
      <3>2. CASE i # 1
        <4>1. i - 1 \in 1 .. n
          BY <1>1, <3>2
        <4> QED
          BY <1>1, <3>2, <4>1
      <3> QED
        BY <3>1, <3>2
    <2>3. g = [i \in 1 .. n |-> IF i = 1 THEN parts[i] ELSE g[i - 1] \o parts[i]]
      <3> HIDE DEF g
      <3>1. g = [i \in 1 .. n |-> g[i]]
        BY DEF g
      <3> QED
        BY <2>2, <3>1
    <2> HIDE DEF g
    <2>4. flatten = [i \in 1 .. n |-> IF i = 1 THEN parts[i] ELSE flatten[i - 1] \o parts[i]]
      BY <2>3
    <2> HIDE DEF flatten
    <2> DEFINE K == {k \in Nat : k \in 1 .. n => flatten[k] = pre[k]}
    <2>5. 0 \in K
      OBVIOUS
    <2>6. ASSUME NEW k \in Nat, k \in K
          PROVE  k + 1 \in K
      <3> SUFFICES ASSUME k + 1 \in 1 .. n
                   PROVE  flatten[k + 1] = pre[k + 1]
        OBVIOUS
      <3>1. flatten[k + 1] = IF k + 1 = 1 THEN parts[k + 1] ELSE flatten[(k + 1) - 1] \o parts[k + 1]
        BY <2>4
      <3>2. (k + 1) - 1 = k
        OBVIOUS
      <3>3. pre[k + 1] = pre[k] \o parts[k + 1] /\ parts[k + 1] \in Seq(V)
        BY <1>1, <3>2
      <3>4. CASE k = 0
        <4>1. <<>> \o parts[k + 1] = parts[k + 1]
          BY <3>3
        <4> QED
          BY <1>1, <3>1, <3>4, <3>3, <4>1
      <3>5. CASE k # 0
        <4>1. k \in 1 .. n /\ k + 1 # 1
          BY <1>1, <3>5
        <4>2. flatten[k] = pre[k]
          BY <2>6, <4>1
        <4> QED
          BY <3>1, <3>2, <3>3, <4>1, <4>2
      <3> QED
        BY <3>4, <3>5
    <2>7. Nat \subseteq K
      <3>1. \A k \in Nat : k \in K => k + 1 \in K
        BY <2>6
      <3> HIDE DEF K
      <3> QED
        BY <2>5, <3>1, NatSetInduction
    <2>8. flatten[n] = pre[n]
      BY <1>1, <1>3, <2>7 DEF n
    <2> QED
      BY <2>1, <2>8 DEF n
  <1> QED
    BY <1>2, <1>3

(* The sequences of a list make this one, put together. *)
Joined(V, parts, all) == \E pre : Joins(pre, V, parts) /\ pre[Len(parts)] = all

LEMMA FlattenJoined ==
  ASSUME NEW V, NEW parts \in Seq(Seq(V)), NEW all, Joined(V, parts, all)
  PROVE  FlattenSeq(parts) = all
  BY FlattenJoins DEF Joined

(* An empty list makes nothing. *)
LEMMA JoinedNothing ==
  ASSUME NEW V
  PROVE  Joined(V, <<>>, <<>>)
  <1> DEFINE pre == [j \in 0 .. 0 |-> <<>>]
  <1>1. Joins(pre, V, <<>>) /\ pre[Len(<<>>)] = <<>>
    BY DEF Joins
  <1> QED
    BY <1>1 DEF Joined

(* One more sequence is put behind the others. *)
LEMMA JoinedAppend ==
  ASSUME NEW V, NEW parts \in Seq(Seq(V)), NEW all \in Seq(V), Joined(V, parts, all),
         NEW part \in Seq(V)
  PROVE  Joined(V, Append(parts, part), all \o part)
  <1>1. PICK pre : Joins(pre, V, parts) /\ pre[Len(parts)] = all
    BY DEF Joined
  <1> DEFINE n == Len(parts)
             next == Append(parts, part)
             post == [j \in 0 .. n + 1 |-> IF j = n + 1 THEN all \o part ELSE pre[j]]
  <1>2. /\ n \in Nat /\ Len(next) = n + 1 /\ next[n + 1] = part
        /\ \A j \in 1 .. n : next[j] = parts[j]
    OBVIOUS
  <1>3. /\ \A j \in 0 .. n : pre[j] \in Seq(V)
        /\ pre[0] = <<>> /\ pre[n] = all
        /\ \A j \in 1 .. n : pre[j] = pre[j - 1] \o parts[j]
    BY <1>1 DEF Joins
  <1> HIDE DEF n, next
  <1>4. post \in [0 .. n + 1 -> Seq(V)]
    BY <1>2, <1>3
  <1>5. post[0] = <<>> /\ post[n + 1] = all \o part
    BY <1>2, <1>3
  <1>6. ASSUME NEW j \in 1 .. n + 1
        PROVE  post[j] = post[j - 1] \o next[j]
    <2>1. CASE j = n + 1
      <3>1. post[j - 1] = all /\ j - 1 = n
        BY <1>2, <1>3, <2>1
      <3> QED
        BY <1>2, <1>5, <2>1, <3>1
    <2>2. CASE j # n + 1
      <3>1. j \in 1 .. n /\ j - 1 \in 0 .. n /\ j - 1 # n + 1
        BY <1>2, <2>2
      <3>2. post[j] = pre[j] /\ post[j - 1] = pre[j - 1]
        BY <1>2, <2>2, <3>1
      <3> QED
        BY <1>2, <1>3, <3>1, <3>2
    <2> QED
      BY <2>1, <2>2
  <1> HIDE DEF post
  <1>7. Joins(post, V, next) /\ post[Len(next)] = all \o part
    BY <1>2, <1>4, <1>5, <1>6 DEF Joins
  <1> QED
    BY <1>7 DEF Joined, next

----------------------------------------------------------------------------
(* Sequences of sets *)

(* All elements of a finite set are in its sequence, once. *)
LEMMA SetToSeqRange ==
  ASSUME NEW S, IsFiniteSet(S)
  PROVE  /\ SetToSeq(S) \in Seq(S) /\ Len(SetToSeq(S)) = Cardinality(S)
         /\ Cardinality(S) \in Nat
         /\ \A x \in S : \E i \in 1 .. Len(SetToSeq(S)) : SetToSeq(S)[i] = x
         /\ \A i, j \in 1 .. Len(SetToSeq(S)) : SetToSeq(S)[i] = SetToSeq(S)[j] => i = j
  <1> DEFINE n == Cardinality(S)
             q == SetToSeq(S)
  <1>1. n \in Nat /\ ExistsBijection(1 .. n, S)
    BY FS_CardinalityType
  <1>2. \E f \in [1 .. n -> S] : IsInjective(f)
    BY <1>1 DEF ExistsBijection, Bijection, Injection
  <1>3. q \in [1 .. n -> S] /\ IsInjective(q)
    BY <1>2 DEF SetToSeq
  <1>4. q \in Seq(S) /\ Len(q) = n
    BY <1>1, <1>3
  <1>5. IsFiniteSet(1 .. n) /\ Cardinality(1 .. n) = n
    BY <1>1, FS_Interval
  <1>6. q \in Injection(1 .. n, S)
    BY <1>3 DEF Injection
  <1> HIDE DEF q
  <1>7. q \in Surjection(1 .. n, S)
    BY <1>5, <1>6, FS_Injection
  <1>8. \A x \in S : \E i \in 1 .. n : q[i] = x
    BY <1>7 DEF Surjection
  <1>9. \A i, j \in 1 .. n : q[i] = q[j] => i = j
    BY <1>6 DEF Injection, IsInjective
  <1> QED
    BY <1>1, <1>4, <1>8, <1>9 DEF q

====
