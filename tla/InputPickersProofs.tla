------------------------- MODULE InputPickersProofs -------------------------
(***************************************************************************)
(* solve with its input pickers implements the fixpoint over downsets of   *)
(* KBoundedSafety, for every picker, automaton and K, as long as the       *)
(* values of K fit in VECTOR_ELT_T.  The pickers' orders and lists stay    *)
(* permutations, so that no input and no output is left out; the elements  *)
(* of the scan are all of F; and what is computed on maximal elements is   *)
(* what cpre and the raise of K give on downsets.                          *)
(***************************************************************************)
EXTENDS InputPickers, KBoundedGameProofs, FiniteSetTheorems, SequenceTheorems, TLAPS

NoOverflow == TopK < EltHalf

-----------------------------------------------------------------------------
(***************************************************************************)
(* Permutations: the orders of the pickers, and their lists of outputs.    *)
(***************************************************************************)
LEMMA PermutationIs ==
  ASSUME NEW S, IsFiniteSet(S), NEW s \in SetToSeqs(S)
  PROVE  /\ s \in Seq(S) /\ Len(s) = Cardinality(S) /\ DOMAIN s = 1 .. Len(s) /\ Len(s) \in Nat
         /\ \A m, n \in DOMAIN s : m # n => s[m] # s[n]
         /\ ToSet(s) = S
         /\ \A x \in S : \E n \in DOMAIN s : s[n] = x
<1> DEFINE D == 1 .. Cardinality(S)
<1>1. Cardinality(S) \in Nat
  BY FS_CardinalityType
<1>2. s \in [D -> S] /\ \A m, n \in D : m # n => s[m] # s[n]
  BY DEF SetToSeqs
<1>3. s \in Seq(S) /\ Len(s) = Cardinality(S) /\ DOMAIN s = 1 .. Len(s)
  BY <1>1, <1>2
<1>4. IsFiniteSet(D) /\ Cardinality(D) = Cardinality(S)
  <2>1. 1 \in Int /\ Cardinality(S) \in Int
    BY <1>1
  <2>2. IsFiniteSet(1 .. Cardinality(S))
        /\ Cardinality(1 .. Cardinality(S)) = IF 1 > Cardinality(S) THEN 0 ELSE Cardinality(S) - 1 + 1
    BY ONLY <2>1, FS_Interval
  <2> QED BY <1>1, <2>2
<1> HIDE DEF D
<1>5. s \in Injection(D, S)
  BY <1>2 DEF Injection, IsInjective
<1>6. s \in Surjection(D, S)
  BY <1>4, <1>5, FS_Injection
<1>7. \A x \in S : \E n \in D : s[n] = x
  BY <1>6 DEF Surjection
<1>8. D = DOMAIN s
  BY <1>2
<1> QED BY <1>1, <1>2, <1>3, <1>7, <1>8 DEF ToSet

(* The sequence without its n-th element. *)
LEMMA Removed ==
  ASSUME NEW S, IsFiniteSet(S), NEW s \in SetToSeqs(S), NEW n \in DOMAIN s
  PROVE  RemoveAt(s, n) \in SetToSeqs(S \ {s[n]})
<1> DEFINE N == Len(s)
           r == RemoveAt(s, n)
           h == SubSeq(s, 1, n - 1)
           t == SubSeq(s, n + 1, N)
<1>1. /\ s \in Seq(S) /\ N = Cardinality(S) /\ DOMAIN s = 1 .. N /\ N \in Nat
      /\ \A k, l \in DOMAIN s : k # l => s[k] # s[l]
  BY PermutationIs
<1>2. n \in 1 .. N /\ \A k \in 1 .. N : s[k] \in S
  BY <1>1, ElementOfSeq
<1>3. /\ h \in Seq(S) /\ Len(h) = n - 1 /\ \A k \in 1 .. n - 1 : h[k] = s[k]
  <2>1. 1 \in Int /\ n - 1 \in Int /\ \A k \in 1 .. n - 1 : s[k] \in S
    BY <1>1, <1>2
  <2>2. /\ SubSeq(s, 1, n - 1) \in Seq(S)
        /\ Len(SubSeq(s, 1, n - 1)) = IF 1 =< n - 1 THEN n - 1 - 1 + 1 ELSE 0
        /\ \A k \in 1 .. n - 1 - 1 + 1 : SubSeq(s, 1, n - 1)[k] = s[1 + k - 1]
    BY <2>1, SubSeqProperties
  <2> QED BY <1>1, <1>2, <2>2
<1>4. /\ t \in Seq(S) /\ Len(t) = N - n /\ \A k \in 1 .. N - n : t[k] = s[k + n]
  <2>1. n + 1 \in Int /\ N \in Int /\ \A k \in n + 1 .. N : s[k] \in S
    BY <1>1, <1>2
  <2>2. /\ SubSeq(s, n + 1, N) \in Seq(S)
        /\ Len(SubSeq(s, n + 1, N)) = IF n + 1 =< N THEN N - (n + 1) + 1 ELSE 0
        /\ \A k \in 1 .. N - (n + 1) + 1 : SubSeq(s, n + 1, N)[k] = s[n + 1 + k - 1]
    BY <2>1, SubSeqProperties
  <2> QED BY <1>1, <1>2, <2>2
<1>5. r = h \o t
  BY DEF RemoveAt
<1> HIDE DEF h, t, r
<1>6. /\ r \in Seq(S) /\ Len(r) = N - 1
      /\ \A k \in 1 .. N - 1 : r[k] = IF k < n THEN s[k] ELSE s[k + 1]
  <2>1. /\ r \in Seq(S) /\ Len(r) = Len(h) + Len(t)
        /\ \A k \in 1 .. Len(h) + Len(t) : r[k] = IF k <= Len(h) THEN h[k] ELSE t[k - Len(h)]
    BY <1>3, <1>4, <1>5, ConcatProperties
  <2>2. Len(h) + Len(t) = N - 1 /\ Len(h) = n - 1
    BY <1>1, <1>2, <1>3, <1>4
  <2>3. ASSUME NEW k \in 1 .. N - 1
        PROVE  r[k] = IF k < n THEN s[k] ELSE s[k + 1]
    <3>1. r[k] = IF k <= n - 1 THEN h[k] ELSE t[k - (n - 1)]
      BY <2>1, <2>2
    <3>2. CASE k < n
      BY <1>1, <1>2, <1>3, <3>1, <3>2
    <3>3. CASE k >= n
      <4>1. k - (n - 1) \in 1 .. N - n /\ k - (n - 1) + n = k + 1
        BY <1>1, <1>2, <3>3
      <4>2. t[k - (n - 1)] = s[k + 1]
        BY <1>4, <4>1
      <4> QED BY <1>1, <1>2, <3>1, <3>3, <4>2
    <3> QED BY <1>1, <1>2, <3>2, <3>3
  <2> QED BY <2>1, <2>2, <2>3
<1>7. Cardinality(S \ {s[n]}) = N - 1
  BY <1>1, <1>2, FS_RemoveElement
<1>8. DOMAIN r = 1 .. N - 1
  BY <1>1, <1>2, <1>6, LenProperties
<1>9. \A k \in 1 .. N - 1 : r[k] \in S \ {s[n]}
  BY <1>1, <1>2, <1>6
<1>10. ASSUME NEW k \in 1 .. N - 1, NEW l \in 1 .. N - 1, k # l
       PROVE  r[k] # r[l]
  <2> DEFINE at(j) == IF j < n THEN j ELSE j + 1
  <2>1. at(k) \in 1 .. N /\ at(l) \in 1 .. N /\ at(k) # at(l)
    BY <1>1, <1>2, <1>10
  <2>2. r[k] = s[at(k)] /\ r[l] = s[at(l)]
    BY <1>6
  <2> HIDE DEF at
  <2> QED BY <1>1, <2>1, <2>2
<1>11. r \in [1 .. N - 1 -> S \ {s[n]}]
  BY <1>6, <1>8, <1>9, SeqDef
<1> QED BY <1>7, <1>10, <1>11 DEF SetToSeqs, r

(* The sequence with x before its p-th element. *)
LEMMA Inserted ==
  ASSUME NEW S, IsFiniteSet(S), NEW s \in SetToSeqs(S), NEW x, x \notin S, NEW p \in 1 .. Len(s) + 1
  PROVE  /\ InsertAt(s, p, x) \in SetToSeqs(S \cup {x})
         /\ p = 1 => InsertAt(s, p, x) = <<x>> \o s
<1> DEFINE N == Len(s)
           T == S \cup {x}
           h == SubSeq(s, 1, p - 1)
           t == SubSeq(s, p, N)
           r == InsertAt(s, p, x)
<1>1. /\ s \in Seq(S) /\ N = Cardinality(S) /\ DOMAIN s = 1 .. N /\ N \in Nat
      /\ \A k, l \in DOMAIN s : k # l => s[k] # s[l]
  BY PermutationIs
<1>2. p \in 1 .. N + 1 /\ \A k \in 1 .. N : s[k] \in S
  BY <1>1, ElementOfSeq
<1>3. /\ h \in Seq(T) /\ Len(h) = p - 1 /\ \A k \in 1 .. p - 1 : h[k] = s[k]
  <2>1. 1 \in Int /\ p - 1 \in Int /\ \A k \in 1 .. p - 1 : s[k] \in T
    BY <1>1, <1>2
  <2>2. /\ SubSeq(s, 1, p - 1) \in Seq(T)
        /\ Len(SubSeq(s, 1, p - 1)) = IF 1 =< p - 1 THEN p - 1 - 1 + 1 ELSE 0
        /\ \A k \in 1 .. p - 1 - 1 + 1 : SubSeq(s, 1, p - 1)[k] = s[1 + k - 1]
    BY <2>1, SubSeqProperties
  <2> QED BY <1>1, <1>2, <2>2
<1>4. /\ t \in Seq(T) /\ Len(t) = N - p + 1 /\ \A k \in 1 .. N - p + 1 : t[k] = s[k + p - 1]
  <2>1. p \in Int /\ N \in Int /\ \A k \in p .. N : s[k] \in T
    BY <1>1, <1>2
  <2>2. /\ SubSeq(s, p, N) \in Seq(T)
        /\ Len(SubSeq(s, p, N)) = IF p =< N THEN N - p + 1 ELSE 0
        /\ \A k \in 1 .. N - p + 1 : SubSeq(s, p, N)[k] = s[p + k - 1]
    BY <2>1, SubSeqProperties
  <2> QED BY <1>1, <1>2, <2>2
<1>5. r = h \o <<x>> \o t
  BY DEF InsertAt
<1>6. p = 1 => r = <<x>> \o s
  <2> SUFFICES ASSUME p = 1
               PROVE  r = <<x>> \o s
    OBVIOUS
  <2>1. h = <<>>
    BY <1>3, EmptySeq
  <2>2. t = s
    <3>1. s \in Seq(T)
      BY <1>1
    <3>2. \A k \in 1 .. N : t[k] = s[k]
      BY <1>1, <1>4
    <3> QED BY <1>1, <1>4, <3>1, <3>2, SeqEqual
  <2>3. <<x>> \in Seq(T)
    OBVIOUS
  <2>4. <<>> \o <<x>> = <<x>>
    BY <2>3, ConcatEmptySeq
  <2> QED BY <1>5, <2>1, <2>2, <2>4
<1> HIDE DEF h, t, r
<1>7. /\ r \in Seq(T) /\ Len(r) = N + 1
      /\ \A k \in 1 .. N + 1 : r[k] = IF k < p THEN s[k] ELSE IF k = p THEN x ELSE s[k - 1]
  <2> DEFINE g == h \o <<x>>
  <2>1. <<x>> \in Seq(T) /\ Len(<<x>>) = 1 /\ <<x>>[1] = x
    OBVIOUS
  <2>2. /\ g \in Seq(T) /\ Len(g) = p
        /\ \A k \in 1 .. p : g[k] = IF k =< p - 1 THEN h[k] ELSE x
    <3>1. /\ g \in Seq(T) /\ Len(g) = Len(h) + 1
          /\ \A k \in 1 .. Len(h) + 1 : g[k] = IF k <= Len(h) THEN h[k] ELSE <<x>>[k - Len(h)]
      BY <1>3, <2>1, ConcatProperties
    <3> QED BY <1>1, <1>2, <1>3, <3>1
  <2>3. r = g \o t
    BY <1>5
  <2> HIDE DEF g
  <2>4. /\ r \in Seq(T) /\ Len(r) = N + 1
        /\ \A k \in 1 .. N + 1 : r[k] = IF k <= p THEN g[k] ELSE t[k - p]
    <3>1. /\ r \in Seq(T) /\ Len(r) = Len(g) + Len(t)
          /\ \A k \in 1 .. Len(g) + Len(t) : r[k] = IF k <= Len(g) THEN g[k] ELSE t[k - Len(g)]
      BY <1>4, <2>2, <2>3, ConcatProperties
    <3>2. Len(g) + Len(t) = N + 1 /\ Len(g) = p
      BY <1>1, <1>2, <1>4, <2>2
    <3> QED BY <3>1, <3>2
  <2>5. ASSUME NEW k \in 1 .. N + 1
        PROVE  r[k] = IF k < p THEN s[k] ELSE IF k = p THEN x ELSE s[k - 1]
    <3>1. CASE k =< p
      BY <1>1, <1>2, <1>3, <2>2, <2>4, <3>1
    <3>2. CASE k > p
      <4>1. k - p \in 1 .. N - p + 1 /\ k - p + p - 1 = k - 1
        BY <1>1, <1>2, <3>2
      <4>2. t[k - p] = s[k - 1]
        BY <1>4, <4>1
      <4> QED BY <1>1, <1>2, <2>4, <3>2, <4>2
    <3> QED BY <1>1, <1>2, <3>1, <3>2
  <2> QED BY <2>4, <2>5
<1>8. Cardinality(T) = N + 1
  BY <1>1, FS_AddElement
<1>9. r \in [1 .. N + 1 -> T]
  BY <1>1, <1>7, LenProperties
<1>10. ASSUME NEW k \in 1 .. N + 1, NEW l \in 1 .. N + 1, k # l
       PROVE  r[k] # r[l]
  <2> DEFINE at(j) == IF j < p THEN j ELSE j - 1
  <2>1. ASSUME NEW j \in 1 .. N + 1, j # p
        PROVE  at(j) \in 1 .. N /\ r[j] = s[at(j)] /\ s[at(j)] # x
    <3>1. at(j) \in 1 .. N
      BY <1>1, <1>2, <2>1
    <3>2. r[j] = s[at(j)]
      BY <1>2, <1>7, <2>1
    <3>3. s[at(j)] \in S
      BY <1>2, <3>1
    <3> QED BY <3>1, <3>2, <3>3
  <2>2. r[p] = x
    BY <1>1, <1>2, <1>7
  <2>3. CASE k = p
    BY <1>10, <2>1, <2>2, <2>3
  <2>4. CASE l = p
    BY <1>10, <2>1, <2>2, <2>4
  <2>5. CASE k # p /\ l # p
    <3>1. at(k) # at(l)
      BY <1>1, <1>2, <1>10, <2>5
    <3> HIDE DEF at
    <3> QED BY <1>1, <2>1, <2>5, <3>1
  <2> QED BY <2>3, <2>4, <2>5
<1> QED BY <1>6, <1>8, <1>9, <1>10 DEF SetToSeqs, r

(***************************************************************************)
(* Moving an element to the front, or behind those of a lower priority,    *)
(* and the orders of the pickers, lose no input and no output.             *)
(***************************************************************************)
LEMMA ToFrontPermutes ==
  ASSUME NEW S, IsFiniteSet(S), NEW s \in SetToSeqs(S), NEW n \in DOMAIN s
  PROVE  ToFront(s, n) \in SetToSeqs(S)
<1> DEFINE R == S \ {s[n]}
           rest == RemoveAt(s, n)
<1>1. s[n] \in S
  BY PermutationIs, ElementOfSeq
<1>2. rest \in SetToSeqs(R) /\ IsFiniteSet(R)
  BY Removed, FS_RemoveElement
<1>3. R \cup {s[n]} = S /\ s[n] \notin R
  BY <1>1
<1>4. ToFront(s, n) = <<s[n]>> \o rest
  BY DEF ToFront
<1> HIDE DEF R, rest
<1>5. 1 \in 1 .. Len(rest) + 1
  BY <1>2, PermutationIs
<1> DEFINE x == s[n]
<1> HIDE DEF x
<1>6. x \notin R
  BY <1>3 DEF x
<1>7. /\ InsertAt(rest, 1, x) \in SetToSeqs(R \cup {x})
      /\ InsertAt(rest, 1, x) = <<x>> \o rest
  BY <1>2, <1>5, <1>6, Inserted
<1> QED BY <1>3, <1>4, <1>7 DEF x

LEMMA RequeuePermutes ==
  ASSUME IsFiniteSet(Inputs), order \in SetToSeqs(Inputs), NEW n \in DOMAIN order
  PROVE  Requeue(n) \in SetToSeqs(Inputs)
<1> DEFINE x == order[n]
           R == Inputs \ {x}
           others == RemoveAt(order, n)
           sooner == {j \in ToSet(others) : priority[j] =< priority[x] - 1}
           p == Cardinality(sooner) + 1
<1>1. x \in Inputs
  BY PermutationIs, ElementOfSeq
<1>2. others \in SetToSeqs(R) /\ IsFiniteSet(R)
  BY Removed, FS_RemoveElement
<1>3. R \cup {x} = Inputs /\ x \notin R
  BY <1>1
<1>4. Requeue(n) = InsertAt(others, p, x)
  BY DEF Requeue
<1> HIDE DEF R, others, x
<1>5. Len(others) = Cardinality(R) /\ Len(others) \in Nat /\ ToSet(others) = R
  BY <1>2, PermutationIs
<1>6. sooner \subseteq R
  BY <1>5
<1> HIDE DEF sooner
<1>7. Cardinality(sooner) \in Nat /\ Cardinality(sooner) =< Cardinality(R)
  BY <1>2, <1>6, FS_Subset, FS_CardinalityType
<1>8. p \in 1 .. Len(others) + 1
  BY <1>5, <1>7
<1> HIDE DEF p
<1>9. InsertAt(others, p, x) \in SetToSeqs(R \cup {x})
  BY <1>2, <1>3, <1>8, Inserted
<1> QED BY <1>3, <1>4, <1>9

LEMMA OrdersPermute ==
  ASSUME fwd_actions \in SetToSeqs(Inputs), order \in SetToSeqs(Inputs),
         picker \in Pickers, IsFiniteSet(Inputs), NEW s \in Orders
  PROVE  s \in SetToSeqs(Inputs)
<1>1. ToSet(fwd_actions) = Inputs
  BY PermutationIs
<1> QED BY <1>1, PickersAssumption DEF Orders

-----------------------------------------------------------------------------
(***************************************************************************)
(* Downsets and their maximal elements.                                    *)
(***************************************************************************)
LEMMA FiniteStatesOf ==
  /\ IsFiniteSet(States) /\ IsFiniteSet(Values) /\ IsFiniteSet(States \X Values)
  /\ -1 \in Int /\ TopK \in Int /\ TopK >= 1
<1>1. -1 \in Int /\ TopK \in Int /\ TopK >= 1
  BY GameAssumption
<1>2. IsFiniteSet(Values)
  BY <1>1, FS_Interval DEF Values
<1> QED BY <1>1, <1>2, PickersAssumption, FS_Product

LEMMA LeqAntisymmetric ==
  ASSUME NEW v \in Vectors, NEW w \in Vectors, Leq(v, w), Leq(w, v)
  PROVE  v = w
<1>1. \A q \in States : v[q] = w[q]
  BY GameAssumption DEF Leq, Vectors, Values
<1> QED BY <1>1 DEF Vectors

(* How far a vector is from the largest one. *)
Above(w) == {c \in States \X Values : c[2] > w[c[1]]}

(* Every vector of a set is below a maximal element of the set. *)
LEMMA MaximalAbove ==
  ASSUME NEW T \in SUBSET Vectors, NEW v \in T
  PROVE  \E m \in Maximal(T) : Leq(v, m)
<1> DEFINE U == {w \in T : Leq(v, w)}
           C == {Cardinality(Above(w)) : w \in U}
<1>0. v \in U
  BY LeqOrder
<1>1. \A w : IsFiniteSet(Above(w)) /\ Cardinality(Above(w)) \in Nat
  <2> SUFFICES ASSUME NEW w
               PROVE  IsFiniteSet(Above(w)) /\ Cardinality(Above(w)) \in Nat
    OBVIOUS
  <2>1. Above(w) \in SUBSET (States \X Values)
    BY DEF Above
  <2> QED BY <2>1, FiniteStatesOf, FS_Subset, FS_CardinalityType
<1>2. C \in SUBSET Nat /\ C # {}
  BY <1>0, <1>1
<1>3. PICK c \in C : \A d \in C : c =< d
  BY <1>2, LeastNatural
<1>4. PICK m \in U : c = Cardinality(Above(m))
  OBVIOUS
<1>5. ASSUME NEW w \in T, Leq(m, w)
      PROVE  m = w
  <2>1. m \in Vectors /\ w \in Vectors /\ v \in Vectors /\ Leq(v, m)
    OBVIOUS
  <2>2. w \in U
    BY <1>5, <2>1, LeqOrder
  <2>3. Above(w) \subseteq Above(m)
    <3> SUFFICES ASSUME NEW q \in States, NEW n \in Values, n > w[q]
                 PROVE  n > m[q]
      BY DEF Above
    <3>1. m[q] =< w[q] /\ m[q] \in Int /\ w[q] \in Int /\ n \in Int
      BY <1>5, <2>1, GameAssumption DEF Leq, Vectors, Values
    <3> QED BY <3>1
  <2>4. Cardinality(Above(m)) =< Cardinality(Above(w))
    BY <1>3, <1>4, <2>2
  <2>5. Above(w) = Above(m)
    <3>1. /\ Cardinality(Above(w)) =< Cardinality(Above(m))
          /\ Cardinality(Above(m)) = Cardinality(Above(w)) => Above(m) = Above(w)
      BY <1>1, <2>3, FS_Subset
    <3>2. Cardinality(Above(w)) \in Nat /\ Cardinality(Above(m)) \in Nat
      BY <1>1
    <3> QED BY <2>4, <3>1, <3>2
  <2>6. Leq(w, m)
    <3> SUFFICES ASSUME NEW q \in States, ~(w[q] =< m[q])
                 PROVE  FALSE
      BY DEF Leq
    <3>1. m[q] \in Int /\ w[q] \in Values /\ w[q] \in Int
      BY <2>1, GameAssumption DEF Vectors, Values
    <3>2. <<q, w[q]>> \in Above(m)
      BY <3>1 DEF Above
    <3>3. ~(w[q] > w[q])
      BY <3>1
    <3> QED BY <2>5, <3>2, <3>3 DEF Above
  <2> QED BY <1>5, <2>1, <2>6, LeqAntisymmetric
<1>6. m \in Maximal(T)
  BY <1>5 DEF Maximal
<1> QED BY <1>6

(* Hence a set and its maximal elements stand for the same downset. *)
LEMMA DownMaximal ==
  ASSUME NEW T \in SUBSET Vectors
  PROVE  /\ Down(Maximal(T)) = Down(T)
         /\ Maximal(T) \subseteq T
         /\ T # {} => Maximal(T) # {}
<1>1. Maximal(T) \subseteq T
  BY DEF Maximal
<1>2. ASSUME NEW v \in Down(T)
      PROVE  v \in Down(Maximal(T))
  <2>1. PICK w \in T : v \in Vectors /\ Leq(v, w)
    BY DEF Down
  <2>2. PICK m \in Maximal(T) : Leq(w, m)
    BY MaximalAbove
  <2>3. Leq(v, m)
    BY <1>1, <2>1, <2>2, LeqOrder
  <2> QED BY <2>1, <2>3 DEF Down
<1>3. Down(Maximal(T)) \subseteq Down(T)
  BY <1>1 DEF Down
<1>4. T # {} => Maximal(T) # {}
  BY MaximalAbove
<1> QED BY <1>1, <1>2, <1>3, <1>4

LEMMA CoveredIsDown ==
  ASSUME NEW T, NEW v \in Vectors
  PROVE  Covered(T, v) <=> v \in Down(T)
BY DEF Covered, Down

(* The meets of the elements of two downsets stand for their intersection. *)
LEMMA DownIntersect ==
  ASSUME NEW S \in SUBSET Vectors, NEW T \in SUBSET Vectors
  PROVE  /\ Intersect(S, T) \subseteq Vectors
         /\ Down(Intersect(S, T)) = Down(S) \cap Down(T)
         /\ S # {} /\ T # {} => Intersect(S, T) # {}
<1> DEFINE M == {Meet(v, w) : v \in S, w \in T}
<1>1. ASSUME NEW v \in Vectors, NEW w \in Vectors
      PROVE  /\ Meet(v, w) \in Vectors
             /\ \A u \in Vectors : Leq(u, Meet(v, w)) <=> Leq(u, v) /\ Leq(u, w)
  <2>1. \A q \in States : v[q] \in Values /\ w[q] \in Values
    BY DEF Vectors
  <2>2. Meet(v, w) \in Vectors
    BY <2>1, GameAssumption DEF Meet, Vectors, Values
  <2>3. ASSUME NEW u \in Vectors
        PROVE  Leq(u, Meet(v, w)) <=> Leq(u, v) /\ Leq(u, w)
    <3>1. ASSUME NEW q \in States
          PROVE  u[q] =< Meet(v, w)[q] <=> u[q] =< v[q] /\ u[q] =< w[q]
      <4>1. u[q] \in Int /\ v[q] \in Int /\ w[q] \in Int
        BY GameAssumption DEF Vectors, Values
      <4> QED BY <4>1 DEF Meet
    <3> QED BY <3>1 DEF Leq
  <2> QED BY <2>2, <2>3
<1>2. M \in SUBSET Vectors
  BY <1>1
<1>3. Down(M) = Down(S) \cap Down(T)
  <2> SUFFICES ASSUME NEW u \in Vectors
               PROVE  u \in Down(M) <=> u \in Down(S) /\ u \in Down(T)
    BY DEF Down
  <2>1. u \in Down(M) <=> \E v \in S, w \in T : Leq(u, Meet(v, w))
    BY DEF Down
  <2>2. (\E v \in S, w \in T : Leq(u, Meet(v, w))) <=> \E v \in S, w \in T : Leq(u, v) /\ Leq(u, w)
    BY <1>1
  <2> QED BY <2>1, <2>2 DEF Down
<1>4. Intersect(S, T) = Maximal(M)
  BY DEF Intersect
<1>5. S # {} /\ T # {} => M # {}
  OBVIOUS
<1> HIDE DEF M
<1> QED BY <1>2, <1>3, <1>4, <1>5, DownMaximal

-----------------------------------------------------------------------------
(***************************************************************************)
(* The actions and the raise of K are monotone, so that it is enough to    *)
(* compute them on maximal elements.                                       *)
(***************************************************************************)
LEMMA ForwardMonotone ==
  ASSUME NEW a \in Automata, NEW v \in Vectors, NEW w \in Vectors, Leq(v, w),
         NEW i \in Inputs, NEW o \in Outputs, NEW k \in 1 .. TopK
  PROVE  Leq(Forward(a, v, i, o, k), Forward(a, w, i, o, k))
<1> DEFINE RV(p) == Reached(a, v, i, o, k, p)
           RW(p) == Reached(a, w, i, o, k, p)
<1>0. k \in Int /\ k >= 1 /\ TopK \in Int
  BY GameAssumption
<1>1. \A p \in States : /\ Forward(a, v, i, o, k)[p] = Stored(p, Max(RV(p)))
                        /\ Forward(a, w, i, o, k)[p] = Stored(p, Max(RW(p)))
  BY DEF Forward, Reached
<1>2. \A p \in States : /\ Max(RV(p)) \in RV(p) /\ Max(RV(p)) \in Int
                        /\ Max(RW(p)) \in Int /\ Max(RW(p)) >= -1
                        /\ \A x \in RW(p) : x =< Max(RW(p))
  <2>1. \A p \in States : Max(RV(p)) \in -1 .. k /\ Max(RW(p)) \in -1 .. k
    BY ReachedMax
  <2>2. \A p \in States : Max(RV(p)) \in RV(p) /\ \A x \in RW(p) : x =< Max(RW(p))
    BY ReachedMax
  <2> HIDE DEF RV, RW
  <2> QED BY <1>0, <2>1, <2>2
<1>3. ASSUME NEW p \in States
      PROVE  Max(RV(p)) =< Max(RW(p))
  <2>1. CASE Max(RV(p)) = -1
    BY <1>2, <2>1
  <2>2. CASE Max(RV(p)) # -1
    <3>1. PICK q \in ActivePreds(a, v, i, o, p) : Max(RV(p)) = Capped(k, v[q] + Count(a, p))
      BY <1>2, <2>2 DEF Reached
    <3>2. q \in States /\ v[q] \in -1 .. TopK /\ v[q] # -1 /\ w[q] \in -1 .. TopK /\ v[q] =< w[q]
      BY DEF ActivePreds, Vectors, Values, Leq
    <3>3. q \in ActivePreds(a, w, i, o, p)
      BY <1>0, <3>2 DEF ActivePreds
    <3>4. Capped(k, w[q] + Count(a, p)) \in RW(p)
      BY <3>3 DEF Reached
    <3>5. Count(a, p) \in {0, 1}
      BY DEF Count
    <3>6. Capped(k, v[q] + Count(a, p)) =< Capped(k, w[q] + Count(a, p))
      BY <1>0, <3>2, <3>5 DEF Capped
    <3>7. Capped(k, w[q] + Count(a, p)) \in Int
      BY <1>0, <3>2, <3>5 DEF Capped
    <3> HIDE DEF RV, RW
    <3> QED BY <1>2, <3>1, <3>4, <3>6, <3>7
  <2> QED BY <2>1, <2>2
<1> HIDE DEF RV, RW
<1>4. \A p \in States : Stored(p, Max(RV(p))) =< Stored(p, Max(RW(p)))
  BY <1>2, <1>3 DEF Stored
<1> QED BY <1>1, <1>4 DEF Leq

LEMMA BackwardMonotone ==
  ASSUME NEW a \in Automata, NEW m \in Vectors, NEW n \in Vectors, Leq(m, n),
         NEW i \in Inputs, NEW o \in Outputs, NEW k \in 1 .. TopK
  PROVE  Leq(Backward(a, m, i, o, Uniform(k - 1)), Backward(a, n, i, o, Uniform(k - 1)))
<1> DEFINE AM(q) == Allowance(a, m, i, o, k, q)
           AN(q) == Allowance(a, n, i, o, k, q)
<1>0. k \in Int /\ k >= 1 /\ TopK \in Int
  BY GameAssumption
<1>1. \A q \in States : /\ Backward(a, m, i, o, Uniform(k - 1))[q] = Min(AM(q))
                        /\ Backward(a, n, i, o, Uniform(k - 1))[q] = Min(AN(q))
  BY DEF Backward, Allowance
<1>2. \A q \in States : /\ AM(q) \subseteq Int /\ Min(AM(q)) \in AM(q)
                        /\ \A x \in AM(q) : Min(AM(q)) =< x
                        /\ AN(q) \subseteq Int /\ Min(AN(q)) \in AN(q)
  BY AllowanceMin
<1>3. ASSUME NEW q \in States, NEW x \in AN(q)
      PROVE  \E y \in AM(q) : y =< x
  <2>1. CASE x = Uniform(k - 1)[q]
    <3>1. x \in AM(q) /\ x \in Int
      BY <1>2, <2>1 DEF Allowance
    <3> QED BY <3>1
  <2>2. CASE \E p \in Succs(a, q, i, o) : x = AtLeastMinus1(n[p] - Count(a, p))
    <3>1. PICK p \in Succs(a, q, i, o) : x = AtLeastMinus1(n[p] - Count(a, p))
      BY <2>2
    <3>2. p \in States /\ m[p] \in Int /\ n[p] \in Int /\ m[p] =< n[p] /\ Count(a, p) \in {0, 1}
      BY <1>0 DEF Succs, Vectors, Values, Leq, Count
    <3>3. AtLeastMinus1(m[p] - Count(a, p)) =< AtLeastMinus1(n[p] - Count(a, p))
      BY <3>2 DEF AtLeastMinus1
    <3>4. AtLeastMinus1(m[p] - Count(a, p)) \in AM(q)
      BY DEF Allowance
    <3> QED BY <3>1, <3>3, <3>4
  <2> QED BY <2>1, <2>2 DEF Allowance
<1> HIDE DEF AM, AN
<1>4. \A q \in States : Min(AM(q)) =< Min(AN(q))
  <2> SUFFICES ASSUME NEW q \in States
               PROVE  Min(AM(q)) =< Min(AN(q))
    OBVIOUS
  <2>1. PICK y \in AM(q) : y =< Min(AN(q))
    BY <1>2, <1>3
  <2>2. Min(AM(q)) =< y /\ y \in Int /\ Min(AM(q)) \in Int /\ Min(AN(q)) \in Int
    BY <1>2
  <2> QED BY <2>1, <2>2
<1> QED BY <1>1, <1>4 DEF Leq

-----------------------------------------------------------------------------
(***************************************************************************)
(* The operators of the game that KBoundedSafety uses are those used here, *)
(* and the conversion to VECTOR_ELT_T is the identity on the values of K.  *)
(***************************************************************************)
LEMMA SameOperators ==
  /\ \A a, v, i, o, k : Solver!Forward(a, v, i, o, k) = Forward(a, v, i, o, k)
  /\ \A a, m, i, o, r : Solver!Backward(a, m, i, o, r) = Backward(a, m, i, o, r)
  /\ \A S : Solver!Down(S) = Down(S)
  /\ \A a, i : Solver!Answers(a, i) = Answers(a, i)
  /\ \A x : Solver!Uniform(x) = Uniform(x)
  /\ Solver!Bottom = Bottom
  /\ Solver!Vectors = Vectors
<1>1. ASSUME NEW a, NEW v, NEW i, NEW o, NEW k
      PROVE  Solver!Forward(a, v, i, o, k) = Forward(a, v, i, o, k)
  BY DEF Solver!Forward, Forward, Solver!Stored, Stored, Solver!Capped, Capped,
         Solver!ActivePreds, ActivePreds, Solver!Count, Count, Solver!Max, Max
<1>2. ASSUME NEW a, NEW m, NEW i, NEW o, NEW r
      PROVE  Solver!Backward(a, m, i, o, r) = Backward(a, m, i, o, r)
  BY DEF Solver!Backward, Backward, Solver!AtLeastMinus1, AtLeastMinus1,
         Solver!Succs, Succs, Solver!Count, Count, Solver!Min, Min
<1>3. ASSUME NEW S
      PROVE  Solver!Down(S) = Down(S)
  BY DEF Solver!Down, Down, Solver!Vectors, Vectors, Solver!Leq, Leq, Solver!Values, Values
<1>4. ASSUME NEW a, NEW i
      PROVE  Solver!Answers(a, i) = Answers(a, i)
  BY DEF Solver!Answers, Answers
<1>5. ASSUME NEW x
      PROVE  Solver!Uniform(x) = Uniform(x)
  BY DEF Solver!Uniform, Uniform
<1>6. Solver!Bottom = Bottom
  BY DEF Solver!Bottom, Bottom
<1>7. Solver!Vectors = Vectors
  BY DEF Solver!Vectors, Vectors, Solver!Values, Values
<1> QED BY <1>1, <1>2, <1>3, <1>4, <1>5, <1>6, <1>7

LEMMA EltFits ==
  ASSUME NoOverflow, NEW x \in 0 .. TopK
  PROVE  Solver!Elt(x) = x
<1>1. EltHalf \in Int /\ EltHalf > TopK /\ x \in Int /\ TopK \in Int
  BY GameAssumption, KAssumption DEF NoOverflow
<1>2. x + EltHalf \in 0 .. (2 * EltHalf - 1)
  BY <1>1
<1>3. (x + EltHalf) % (2 * EltHalf) = x + EltHalf
  BY <1>1, <1>2
<1> QED BY <1>1, <1>3 DEF Solver!Elt

LEMMA KIs ==
  ASSUME K \in Kfrom .. TopK
  PROVE  /\ K \in 1 .. TopK /\ K \in 0 .. TopK /\ K - 1 \in 0 .. TopK
         /\ K < Kto => /\ K + Kinc \in Kfrom .. TopK /\ K - 1 + Kinc \in 0 .. TopK
                       /\ Kinc \in Int /\ Kinc >= 1
BY GameAssumption, KAssumption

LEMMA SameActions ==
  ASSUME NoOverflow, K \in Kfrom .. TopK
  PROVE  /\ \A v, i, o : Solver!Fwd(v, i, o) = Forward(aut, v, i, o, K)
         /\ \A m, i, o : Solver!Bwd(m, i, o) = Backward(aut, m, i, o, Uniform(K - 1))
<1>1. Solver!Elt(K) = K /\ Solver!Elt(K - 1) = K - 1
  BY KIs, EltFits
<1> QED BY <1>1, SameOperators DEF Solver!Fwd, Solver!Bwd

(***************************************************************************)
(* On vectors that are safe for K, the raise of K is monotone, and gives   *)
(* vectors.                                                                *)
(***************************************************************************)
LEMMA RaiseMonotone ==
  ASSUME NoOverflow, K \in Kfrom .. TopK, K < Kto, NEW v \in Safe(K)
  PROVE  /\ Solver!AddKinc(v) \in Vectors
         /\ \A w \in Safe(K) : Leq(v, w) => Leq(Solver!AddKinc(v), Solver!AddKinc(w))
<1>1. /\ K \in 1 .. TopK /\ Kinc \in Int /\ Kinc >= 1 /\ K - 1 + Kinc \in 0 .. TopK
      /\ TopK \in Int /\ NonBool \subseteq States
  BY KIs, GameAssumption
<1>2. ASSUME NEW u \in Safe(K)
      PROVE  /\ u \in Vectors
             /\ \A q \in NonBool : u[q] \in Int /\ Solver!Elt(u[q] + Kinc) = u[q] + Kinc
                                   /\ u[q] + Kinc \in 0 .. TopK
  <2>1. u \in Vectors
    BY DEF Safe, Down
  <2>2. \A q \in NonBool : u[q] =< K - 1 /\ u[q] \in Int /\ u[q] >= -1
    BY <1>1, <2>1, SafeIff DEF Vectors, Values
  <2>3. \A q \in NonBool : u[q] + Kinc \in 0 .. TopK
    BY <1>1, <2>2
  <2> QED BY <2>1, <2>2, <2>3, EltFits
<1>3. Solver!AddKinc(v) \in Vectors
  BY <1>1, <1>2 DEF Solver!AddKinc, Vectors, Values
<1>4. ASSUME NEW w \in Safe(K), Leq(v, w)
      PROVE  Leq(Solver!AddKinc(v), Solver!AddKinc(w))
  <2>1. ASSUME NEW q \in States
        PROVE  Solver!AddKinc(v)[q] =< Solver!AddKinc(w)[q]
    <3>1. CASE q \in NonBool
      <4>1. v[q] =< w[q]
        BY <1>4 DEF Leq
      <4>2. Solver!AddKinc(v)[q] = v[q] + Kinc /\ Solver!AddKinc(w)[q] = w[q] + Kinc
        BY <1>2, <3>1 DEF Solver!AddKinc
      <4>3. v[q] \in Int /\ w[q] \in Int
        BY <1>2, <3>1
      <4> QED BY <1>1, <4>1, <4>2, <4>3
    <3>2. CASE q \notin NonBool
      BY <3>2 DEF Solver!AddKinc
    <3> QED BY <3>1, <3>2
  <2> QED BY <2>1 DEF Leq
<1> QED BY <1>3, <1>4

-----------------------------------------------------------------------------
(***************************************************************************)
(* What is found on elements is what holds of the downset.                 *)
(***************************************************************************)
(* Some output keeps e in F on input i. *)
Kept(e, i) == \E o \in Answers(aut, i) : Covered(elements, Solver!Fwd(e, i, o))

(* An input is critical when it is for an element: one below has no more. *)
LEMMA CriticalElement ==
  ASSUME NoOverflow, TypeOK, NEW i \in Inputs
  PROVE  Solver!Critical(i) <=> \E e \in elements : ~Kept(e, i)
<1>1. K \in 1 .. TopK /\ aut \in Automata /\ elements \subseteq Vectors
  BY KIs DEF TypeOK
<1>2. /\ \A v, o : Solver!Fwd(v, i, o) = Forward(aut, v, i, o, K)
      /\ Solver!Answers(aut, i) = Answers(aut, i) /\ Answers(aut, i) \subseteq Outputs
  BY SameActions, SameOperators DEF TypeOK, Answers
<1>3. ASSUME NEW v \in Vectors, NEW o \in Answers(aut, i)
      PROVE  Solver!Fwd(v, i, o) \in Vectors
  BY <1>1, <1>2, ForwardType
<1>4. Solver!Critical(i) <=>
        \E v \in Down(elements) : \A o \in Answers(aut, i) : Solver!Fwd(v, i, o) \notin Down(elements)
  BY <1>2 DEF Solver!Critical, Solver!Witness
<1>5. ASSUME NEW e \in elements, ~Kept(e, i)
      PROVE  Solver!Critical(i)
  <2>1. e \in Down(elements)
    BY <1>1, LeqOrder DEF Down
  <2>2. \A o \in Answers(aut, i) : Solver!Fwd(e, i, o) \notin Down(elements)
    BY <1>5 DEF Kept, Covered, Down
  <2> QED BY <1>4, <2>1, <2>2
<1>6. ASSUME Solver!Critical(i)
      PROVE  \E e \in elements : ~Kept(e, i)
  <2>1. PICK v \in Down(elements) :
          \A o \in Answers(aut, i) : Solver!Fwd(v, i, o) \notin Down(elements)
    BY <1>4, <1>6
  <2>2. PICK e \in elements : v \in Vectors /\ Leq(v, e)
    BY DEF Down
  <2>3. ASSUME Kept(e, i)
        PROVE  FALSE
    <3>1. PICK o \in Answers(aut, i), m \in elements : Leq(Solver!Fwd(e, i, o), m)
      BY <2>3 DEF Kept, Covered
    <3>2. Leq(Solver!Fwd(v, i, o), Solver!Fwd(e, i, o))
      BY <1>1, <1>2, <2>2, ForwardMonotone
    <3>3. /\ Solver!Fwd(v, i, o) \in Vectors /\ Solver!Fwd(e, i, o) \in Vectors
          /\ e \in Vectors /\ m \in Vectors
      BY <1>1, <1>3, <2>2
    <3>4. Leq(Solver!Fwd(v, i, o), m)
      BY <3>1, <3>2, <3>3, LeqOrder
    <3>5. Solver!Fwd(v, i, o) \in Down(elements)
      BY <3>3, <3>4 DEF Down
    <3> QED BY <2>1, <3>5
  <2> QED BY <2>3
<1> QED BY <1>5, <1>6

(* cpre_inplace: the elements it computes stand for cpre of the downset. *)
LEMMA CPreElements ==
  ASSUME NoOverflow, TypeOK
  PROVE  LET G == Intersect(elements, F1i)
         IN  /\ G \subseteq Safe(K) /\ G # {}
             /\ Down(G) = Solver!CPre(critical)
<1> DEFINE l == lists[critical]
           A == Answers(aut, critical)
           B(m, o) == Backward(aut, m, critical, o, Uniform(K - 1))
           All == {Bottom} \cup {B(m, o) : m \in Down(elements), o \in A}
           G == Intersect(elements, F1i)
<1>1. /\ K \in 1 .. TopK /\ aut \in Automata /\ elements \subseteq Vectors /\ elements # {}
      /\ critical \in Inputs /\ A \subseteq Outputs /\ IsFiniteSet(A)
  <2>1. A \subseteq Outputs
    BY DEF Answers
  <2> QED BY <2>1, KIs, PickersAssumption, FS_Subset DEF TypeOK
<1>2. ToSet(l) = A /\ (l = << >> <=> A = {})
  <2>1. l \in SetToSeqs(A)
    BY DEF TypeOK
  <2>2. ToSet(l) = A /\ l \in Seq(A)
    BY <1>1, <2>1, PermutationIs
  <2> QED BY <2>2 DEF ToSet
<1>3. \A m, o : Solver!Bwd(m, critical, o) = B(m, o)
  BY SameActions DEF TypeOK
<1>4. F1i = IF A = {} THEN {Bottom} ELSE {B(m, o) : m \in elements, o \in A}
  BY <1>2, <1>3 DEF F1i
<1>5. Solver!CPre(critical) = Down(elements) \cap Down(All)
  <2>1. Solver!CPre(critical) =
          Down(elements) \cap Down({Bottom} \cup {Solver!Bwd(m, critical, o) :
                                      m \in Down(elements), o \in A})
    BY SameOperators DEF Solver!CPre
  <2> QED BY <1>3, <2>1
<1>6. Down(elements) \subseteq Vectors /\ elements \subseteq Down(elements)
  BY <1>1, LeqOrder DEF Down
<1>7. Bottom \in Vectors /\ Bottom \in Safe(K) /\ \A v \in Vectors : Leq(Bottom, v)
  <2>1. Bottom \in Vectors
    BY GameAssumption DEF Bottom, Vectors, Values
  <2>2. K \in Int /\ K >= 1
    BY <1>1, GameAssumption
  <2>3. \A q \in NonBool : Bottom[q] =< K - 1
    BY <2>2, GameAssumption DEF Bottom
  <2>4. \A v \in Vectors : Leq(Bottom, v)
    BY GameAssumption DEF Leq, Bottom, Vectors, Values
  <2> QED BY <1>1, <2>1, <2>3, <2>4, SafeIff
<1>8. ASSUME NEW m \in Vectors, NEW o \in A
      PROVE  B(m, o) \in Vectors /\ B(m, o) \in Safe(K)
  BY <1>1, BackwardSafe
<1>9. F1i \subseteq Vectors /\ F1i \subseteq Safe(K) /\ F1i # {} /\ F1i \subseteq All
  <2>1. CASE A = {}
    BY <1>4, <1>7, <2>1
  <2>2. CASE A # {}
    <3>1. F1i = {B(m, o) : m \in elements, o \in A}
      BY <1>4, <2>2
    <3>2. F1i # {}
      <4> HIDE DEF B
      <4> QED BY <1>1, <2>2, <3>1
    <3>3. ASSUME NEW m \in elements, NEW o \in A
          PROVE  B(m, o) \in Vectors /\ B(m, o) \in Safe(K) /\ B(m, o) \in All
      <4>1. m \in Vectors /\ m \in Down(elements)
        BY <1>1, <1>6
      <4> QED BY <1>8, <4>1
    <3>4. ASSUME NEW x \in F1i
          PROVE  x \in Vectors /\ x \in Safe(K) /\ x \in All
      <4>1. PICK m \in elements, o \in A : x = B(m, o)
        BY <3>1
      <4> HIDE DEF B, All
      <4> QED BY <3>3, <4>1
    <3> QED BY <3>2, <3>4
  <2> QED BY <2>1, <2>2
<1>10. ASSUME NEW x \in All
       PROVE  \E y \in F1i : Leq(x, y)
  <2>1. CASE x = Bottom
    BY <1>7, <1>9, <2>1
  <2>2. CASE x # Bottom
    <3>1. PICK m \in Down(elements), o \in A : x = B(m, o)
      BY <2>2
    <3>2. PICK n \in elements : m \in Vectors /\ Leq(m, n)
      BY DEF Down
    <3>3. Leq(B(m, o), B(n, o))
      BY <1>1, <3>2, BackwardMonotone
    <3>4. B(n, o) \in F1i
      BY <1>4
    <3> QED BY <3>1, <3>3, <3>4
  <2> QED BY <2>1, <2>2
<1>11. All \subseteq Vectors
  BY <1>6, <1>7, <1>8
<1> HIDE DEF All
<1>12. Down(All) = Down(F1i)
  <2>1. ASSUME NEW v \in Down(All)
        PROVE  v \in Down(F1i)
    <3>1. PICK x \in All : v \in Vectors /\ Leq(v, x)
      BY DEF Down
    <3>2. PICK y \in F1i : Leq(x, y)
      BY <1>10
    <3>3. Leq(v, y)
      BY <1>9, <1>11, <3>1, <3>2, LeqOrder
    <3> QED BY <3>1, <3>3 DEF Down
  <2>2. Down(F1i) \subseteq Down(All)
    BY <1>9 DEF Down
  <2> QED BY <2>1, <2>2
<1>13. G \subseteq Vectors /\ Down(G) = Down(elements) \cap Down(F1i) /\ G # {}
  BY <1>1, <1>9, DownIntersect
<1>14. G \subseteq Safe(K)
  <2> HIDE DEF G
  <2> SUFFICES ASSUME NEW g \in G
               PROVE  g \in Safe(K)
    OBVIOUS
  <2>1. g \in Vectors /\ g \in Down(G)
    BY <1>13, LeqOrder DEF Down
  <2>2. PICK y \in F1i : Leq(g, y)
    BY <1>13, <2>1 DEF Down
  <2>3. y \in Vectors /\ \A q \in NonBool : y[q] =< K - 1
    BY <1>1, <1>9, SafeIff
  <2>4. \A q \in NonBool : g[q] =< K - 1
    <3> SUFFICES ASSUME NEW q \in NonBool
                 PROVE  g[q] =< K - 1
      OBVIOUS
    <3>1. q \in States /\ g[q] \in Int /\ y[q] \in Int /\ K - 1 \in Int
      BY <1>1, <2>1, <2>3, GameAssumption DEF Vectors, Values
    <3>2. g[q] =< y[q] /\ y[q] =< K - 1
      BY <2>2, <2>3, <3>1 DEF Leq
    <3> QED BY <3>1, <3>2
  <2> QED BY <1>1, <2>1, <2>4, SafeIff
<1> HIDE DEF G
<1>15. Down(G) = Solver!CPre(critical)
  BY <1>5, <1>12, <1>13
<1> QED BY <1>13, <1>14, <1>15 DEF G

(* The raised elements stand for the raised downset. *)
LEMMA RaisedElements ==
  ASSUME NoOverflow, K \in Kfrom .. TopK, K < Kto, NEW G \in SUBSET Safe(K)
  PROVE  LET T == {Solver!AddKinc(s) : s \in G}
         IN  /\ T \subseteq Vectors
             /\ Down(Maximal(T)) = Down({Solver!AddKinc(s) : s \in Down(G)})
<1> DEFINE T == {Solver!AddKinc(s) : s \in G}
           D == {Solver!AddKinc(s) : s \in Down(G)}
<1>1. K \in 1 .. TopK
  BY KIs
<1>2. G \subseteq Vectors
  BY DEF Safe, Down
<1>3. Down(G) \subseteq Safe(K) /\ G \subseteq Down(G)
  <2>1. G \subseteq Down(G)
    BY <1>2, LeqOrder DEF Down
  <2>2. ASSUME NEW v \in Down(G)
        PROVE  v \in Safe(K)
    <3>1. PICK m \in G : v \in Vectors /\ Leq(v, m)
      BY DEF Down
    <3>2. PICK u \in {Uniform(K - 1)} : m \in Vectors /\ Leq(m, u)
      BY DEF Safe, Down
    <3>3. \A q \in NonBool : m[q] =< K - 1
      BY <1>1, <3>2, SafeIff
    <3>4. \A q \in NonBool : v[q] =< K - 1
      <4> SUFFICES ASSUME NEW q \in NonBool
                   PROVE  v[q] =< K - 1
        OBVIOUS
      <4>1. q \in States /\ v[q] \in Int /\ m[q] \in Int /\ K - 1 \in Int
        BY <1>1, <3>1, <3>2, GameAssumption DEF Vectors, Values
      <4> QED BY <3>1, <3>3, <4>1 DEF Leq
    <3> QED BY <1>1, <3>1, <3>4, SafeIff
  <2> QED BY <2>1, <2>2
<1>4. T \subseteq Vectors /\ D \subseteq Vectors
  BY <1>3, RaiseMonotone
<1>5. Down(T) = Down(D)
  <2>1. Down(T) \subseteq Down(D)
    BY <1>3 DEF Down
  <2>2. ASSUME NEW v \in Down(D)
        PROVE  v \in Down(T)
    <3>1. PICK s \in Down(G) : v \in Vectors /\ Leq(v, Solver!AddKinc(s))
      BY DEF Down
    <3>2. PICK m \in G : Leq(s, m)
      BY DEF Down
    <3>3. Leq(Solver!AddKinc(s), Solver!AddKinc(m))
      BY <1>3, <3>2, RaiseMonotone
    <3>4. Solver!AddKinc(s) \in Vectors /\ Solver!AddKinc(m) \in Vectors
      BY <1>4
    <3>5. Leq(v, Solver!AddKinc(m))
      BY <3>1, <3>3, <3>4, LeqOrder
    <3> QED BY <3>1, <3>5 DEF Down
  <2> QED BY <2>1, <2>2
<1> HIDE DEF T, D
<1>6. Down(Maximal(T)) = Down(D)
  BY <1>4, <1>5, DownMaximal
<1> QED BY <1>4, <1>6 DEF T, D

-----------------------------------------------------------------------------
(***************************************************************************)
(* The inductive invariant: while a picker runs, the elements it has left  *)
(* behind keep every input, and f keeps those before pos; when it has      *)
(* picked an input, f loses it.                                            *)
(***************************************************************************)
ScanInv ==
  /\ pc # "turn" => result = "running" /\ f \in elements
  /\ pc = "scan" => /\ left \subseteq elements
                    /\ \A e \in elements \ (left \cup {f}) : \A i \in Inputs : Kept(e, i)
                    /\ \A n \in 1 .. pos - 1 : Kept(f, order[n])
  /\ pc = "cpre" => ~Kept(f, critical)

IInv == TypeOK /\ ScanInv

LEMMA KeptStays ==
  ASSUME UNCHANGED <<aut, K, elements>>
  PROVE  \A e, i : Kept(e, i)' <=> Kept(e, i)
BY DEF Kept, Covered, Answers, Solver!Fwd

(* The lists and the orders in a state of the invariant. *)
LEMMA ListsAre ==
  ASSUME TypeOK
  PROVE  /\ Len(order) \in Nat /\ Len(order) = Cardinality(Inputs) /\ DOMAIN order = 1 .. Len(order)
         /\ \A n \in 1 .. Len(order) : order[n] \in Inputs
         /\ \A i \in Inputs : \E n \in 1 .. Len(order) : order[n] = i
         /\ \A i \in Inputs : \A n \in DOMAIN lists[i] : lists[i][n] \in Answers(aut, i)
         /\ \A i \in Inputs : \A o \in Answers(aut, i) : \E n \in DOMAIN lists[i] : lists[i][n] = o
<1>1. \A i \in Inputs : IsFiniteSet(Answers(aut, i)) /\ lists[i] \in SetToSeqs(Answers(aut, i))
  <2> SUFFICES ASSUME NEW i \in Inputs
               PROVE  IsFiniteSet(Answers(aut, i)) /\ lists[i] \in SetToSeqs(Answers(aut, i))
    OBVIOUS
  <2>1. Answers(aut, i) \in SUBSET Outputs
    BY DEF Answers
  <2> QED BY <2>1, PickersAssumption, FS_Subset DEF TypeOK
<1>2. order \in SetToSeqs(Inputs) /\ IsFiniteSet(Inputs)
  BY PickersAssumption DEF TypeOK
<1>3. /\ order \in Seq(Inputs) /\ Len(order) = Cardinality(Inputs)
      /\ DOMAIN order = 1 .. Len(order) /\ Len(order) \in Nat
      /\ \A i \in Inputs : \E n \in DOMAIN order : order[n] = i
  BY <1>2, PermutationIs
<1>4. ASSUME NEW i \in Inputs
      PROVE  /\ lists[i] \in Seq(Answers(aut, i)) /\ DOMAIN lists[i] = 1 .. Len(lists[i])
             /\ \A o \in Answers(aut, i) : \E n \in DOMAIN lists[i] : lists[i][n] = o
  BY <1>1, PermutationIs
<1>5. \A i \in Inputs : \A n \in DOMAIN lists[i] : lists[i][n] \in Answers(aut, i)
  BY <1>4, ElementOfSeq
<1>6. \A n \in 1 .. Len(order) : order[n] \in Inputs
  BY <1>3, ElementOfSeq
<1> QED BY <1>3, <1>4, <1>5, <1>6

(* Trying an input: Stays of some output is Kept. *)
LEMMA StaysIsKept ==
  ASSUME TypeOK, Trying
  PROVE  /\ order[pos] \in Inputs /\ pos \in 1 .. Len(order)
         /\ (\E n \in DOMAIN lists[order[pos]] : Stays(n)) <=> Kept(f, order[pos])
<1>1. pos \in 1 .. Len(order)
  BY ListsAre DEF TypeOK, Trying
<1>2. order[pos] \in Inputs
  BY <1>1, ListsAre
<1> DEFINE i == order[pos]
<1>3. /\ \A n \in DOMAIN lists[i] : lists[i][n] \in Answers(aut, i)
      /\ \A o \in Answers(aut, i) : \E n \in DOMAIN lists[i] : lists[i][n] = o
  BY <1>2, ListsAre
<1>4. \A n : Stays(n) <=> Covered(elements, Solver!Fwd(f, i, lists[i][n]))
  BY DEF Stays
<1> HIDE DEF i
<1>5. (\E n \in DOMAIN lists[i] : Stays(n)) <=> Kept(f, i)
  BY <1>3, <1>4 DEF Kept
<1> QED BY <1>1, <1>2, <1>5 DEF i

LEMMA InitIInv ==
  ASSUME NoOverflow, Init
  PROVE  IInv
<1>1. K \in Kfrom .. TopK
  BY KAssumption, GameAssumption DEF Init
<1>2. elements # {} /\ elements \subseteq Vectors
  <2>1. aut.start # {} /\ aut.start \in SUBSET Vectors
    BY PickersAssumption, GameAssumption DEF Init, IsAutomaton
  <2> QED BY <2>1, DownMaximal DEF Init
<1>3. /\ fwd_actions \in SetToSeqs(Inputs) /\ order = fwd_actions /\ IsFiniteSet(Inputs)
      /\ Inputs # {}
  BY PickersAssumption DEF Init
<1>4. DOMAIN fwd_actions = 1 .. Len(fwd_actions) /\ Len(fwd_actions) \in Nat
      /\ \A i \in Inputs : \E n \in DOMAIN fwd_actions : fwd_actions[n] = i
  BY <1>3, PermutationIs
<1>5. priority \in [Inputs -> Int]
  <2> DEFINE at(i) == CHOOSE n \in DOMAIN fwd_actions : fwd_actions[n] = i
  <2>1. \A i \in Inputs : at(i) \in 1 .. Len(fwd_actions)
    BY <1>4
  <2>2. priority = [i \in Inputs |-> at(i) - 1]
    BY DEF Init
  <2> HIDE DEF at
  <2>3. \A i \in Inputs : at(i) - 1 \in Int
    BY <1>4, <2>1
  <2> QED BY <2>2, <2>3
<1>6. DOMAIN lists = Inputs /\ \A i \in Inputs : lists[i] \in SetToSeqs(Answers(aut, i))
  BY DEF Init, InOrder
<1>7. Bottom \in Vectors
  BY GameAssumption DEF Bottom, Vectors, Values
<1>8. critical \in Inputs
  BY <1>3 DEF Init
<1>9. pos \in 1 .. Len(order) + 1
  BY <1>3, <1>4 DEF Init
<1>10. TypeOK
  BY <1>1, <1>2, <1>3, <1>5, <1>6, <1>7, <1>8, <1>9 DEF Init, TypeOK
<1>11. ScanInv
  BY DEF Init, ScanInv
<1> QED BY <1>10, <1>11 DEF IInv

LEMMA StartTurnIInv ==
  ASSUME IInv, StartTurn
  PROVE  IInv'
<1>1. order' \in SetToSeqs(Inputs)
  BY OrdersPermute, PickersAssumption DEF IInv, TypeOK, StartTurn
<1>2. Len(order') \in Nat
  BY <1>1, PermutationIs, PickersAssumption
<1>3. /\ f' \in elements /\ left' = elements \ {f'} /\ pos' = 1
      /\ UNCHANGED <<aut, picker, fwd_actions, K, result, elements, priority, lists, critical>>
      /\ pc' = "scan" /\ result = "running"
  BY DEF StartTurn, Scan, built, loop
<1>4. TypeOK'
  BY <1>1, <1>2, <1>3 DEF IInv, TypeOK, Answers
<1>5. ScanInv'
  BY <1>3 DEF ScanInv
<1> QED BY <1>4, <1>5 DEF IInv

LEMMA PassIInv ==
  ASSUME IInv, Pass
  PROVE  IInv'
<1>1. /\ UNCHANGED <<aut, picker, fwd_actions, K, result, elements, order, priority, pc, f, left, critical>>
      /\ pos' = pos + 1 /\ Trying /\ pc = "scan" /\ TypeOK /\ ScanInv
  BY DEF Pass, Trying, built, loop, pq, IInv
<1>2. PICK n \in DOMAIN lists[order[pos]] :
        Stays(n) /\ lists' = [lists EXCEPT ![order[pos]] = ToFront(@, n)]
  BY DEF Pass
<1>3. order[pos] \in Inputs /\ pos \in 1 .. Len(order) /\ Kept(f, order[pos])
  BY <1>1, <1>2, StaysIsKept
<1>4. \A i \in Inputs : lists'[i] \in SetToSeqs(Answers(aut, i))
  <2>1. IsFiniteSet(Answers(aut, order[pos]))
    <3>1. Answers(aut, order[pos]) \in SUBSET Outputs
      BY DEF Answers
    <3> QED BY <3>1, PickersAssumption, FS_Subset
  <2>2. ToFront(lists[order[pos]], n) \in SetToSeqs(Answers(aut, order[pos]))
    BY <1>1, <1>3, <2>1, ToFrontPermutes DEF TypeOK
  <2> QED BY <1>1, <1>2, <1>3, <2>2 DEF TypeOK
<1>5. TypeOK'
  <2>1. pos' \in 1 .. Len(order) + 1
    BY <1>1, <1>3, ListsAre
  <2>2. DOMAIN lists' = Inputs
    BY <1>1, <1>2 DEF TypeOK
  <2> QED BY <1>1, <1>4, <2>1, <2>2 DEF TypeOK, Answers
<1>6. ScanInv'
  <2>1. \A e, i : Kept(e, i)' <=> Kept(e, i)
    BY <1>1, KeptStays
  <2>2. \A m \in 1 .. pos' - 1 : Kept(f, order[m])
    <3> SUFFICES ASSUME NEW m \in 1 .. pos' - 1
                 PROVE  Kept(f, order[m])
      OBVIOUS
    <3>1. m \in 1 .. pos - 1 \/ m = pos
      BY <1>1, <1>3, ListsAre
    <3> QED BY <1>1, <1>3, <3>1 DEF ScanInv
  <2>3. \A m \in 1 .. pos' - 1 : Kept(f, order[m])'
    BY <1>1, <2>1, <2>2
  <2>4. /\ left' \subseteq elements' /\ f' \in elements' /\ result' = "running" /\ pc' = "scan"
        /\ \A e \in elements' \ (left' \cup {f'}) : \A i \in Inputs : Kept(e, i)'
    BY <1>1, <2>1 DEF ScanInv
  <2> QED BY <2>3, <2>4 DEF ScanInv
<1> QED BY <1>5, <1>6 DEF IInv

LEMMA HitIInv ==
  ASSUME IInv, Hit
  PROVE  IInv'
<1>1. /\ UNCHANGED <<aut, picker, fwd_actions, K, result, elements, lists, f, left, pos>>
      /\ critical' = order[pos] /\ pc' = "cpre" /\ Trying /\ pc = "scan" /\ TypeOK /\ ScanInv
  BY DEF Hit, Trying, built, loop, scan, IInv
<1>2. order[pos] \in Inputs /\ pos \in 1 .. Len(order) /\ ~Kept(f, order[pos])
  BY <1>1, StaysIsKept DEF Hit
<1>3. order' \in SetToSeqs(Inputs) /\ priority' \in [Inputs -> Int]
  <2>1. CASE picker = "critical_pq"
    <3>1. order' = Requeue(pos) /\ priority' = [priority EXCEPT ![order[pos]] = @ - 1]
      BY <2>1 DEF Hit
    <3>2. order' \in SetToSeqs(Inputs)
      BY <1>1, <1>2, <3>1, ListsAre, RequeuePermutes, PickersAssumption DEF TypeOK
    <3> QED BY <1>1, <1>2, <3>1, <3>2 DEF TypeOK
  <2>2. CASE picker # "critical_pq"
    BY <1>1, <2>2 DEF Hit, pq, TypeOK
  <2> QED BY <2>1, <2>2
<1>4. Len(order') = Len(order)
  BY <1>1, <1>3, ListsAre, PermutationIs, PickersAssumption
<1>5. TypeOK'
  BY <1>1, <1>2, <1>3, <1>4 DEF TypeOK, Answers
<1>6. ScanInv'
  BY <1>1, <1>2, KeptStays DEF ScanInv
<1> QED BY <1>5, <1>6 DEF IInv

LEMMA ScannedKeeps ==
  ASSUME IInv, ScannedElement
  PROVE  \A e \in elements \ left : \A i \in Inputs : Kept(e, i)
<1>1. TypeOK /\ ScanInv /\ pc = "scan" /\ pos > Len(order)
  BY DEF IInv, ScannedElement
<1>2. \A i \in Inputs : Kept(f, i)
  <2> SUFFICES ASSUME NEW i \in Inputs
               PROVE  Kept(f, i)
    OBVIOUS
  <2>1. PICK n \in 1 .. Len(order) : order[n] = i
    BY <1>1, ListsAre
  <2>2. n \in 1 .. pos - 1
    BY <1>1, ListsAre DEF TypeOK
  <2> QED BY <1>1, <2>1, <2>2 DEF ScanInv
<1> QED BY <1>1, <1>2 DEF ScanInv

LEMMA NextElementIInv ==
  ASSUME IInv, NextElement
  PROVE  IInv'
<1>1. /\ UNCHANGED <<aut, picker, fwd_actions, K, result, elements, order, priority, lists, pc, critical>>
      /\ f' \in left /\ left' = left \ {f'} /\ pos' = 1
      /\ ScannedElement /\ pc = "scan" /\ TypeOK /\ ScanInv
  BY DEF NextElement, ScannedElement, Scan, built, loop, pq, IInv
<1>2. left \subseteq elements
  BY <1>1 DEF ScanInv
<1>3. 1 \in 1 .. Len(order) + 1
  BY <1>1, ListsAre
<1>4. TypeOK'
  BY <1>1, <1>3 DEF TypeOK, Answers
<1>5. ScanInv'
  <2>1. \A e, i : Kept(e, i)' <=> Kept(e, i)
    BY <1>1, KeptStays
  <2>2. \A e \in elements \ left : \A i \in Inputs : Kept(e, i)
    BY <1>1, ScannedKeeps
  <2>3. left' \cup {f'} = left
    BY <1>1
  <2> QED BY <1>1, <1>2, <2>1, <2>2, <2>3 DEF ScanInv
<1> QED BY <1>4, <1>5 DEF IInv

LEMMA ReturnIInv ==
  ASSUME IInv, Return
  PROVE  IInv'
<1>1. /\ UNCHANGED <<aut, picker, fwd_actions, K, elements, order, priority, lists, f, left, pos, critical>>
      /\ result' = "region" /\ pc' = "turn" /\ TypeOK
  BY DEF Return, built, pq, scan, IInv
<1>2. TypeOK'
  BY <1>1 DEF TypeOK, Answers
<1>3. ScanInv'
  BY <1>1 DEF ScanInv
<1> QED BY <1>2, <1>3 DEF IInv

(* The three outcomes of cpre_inplace, on the downset the elements stand for. *)
LEMMA CPreOutcome ==
  ASSUME NoOverflow, IInv, CPre
  PROVE  /\ UNCHANGED <<aut, picker, fwd_actions, order, priority, lists, f, left, pos, critical>>
         /\ pc' = "turn" /\ result = "running" /\ pc = "cpre"
         /\ elements' # {} /\ elements' \subseteq Vectors /\ K' \in Kfrom .. TopK
         /\ result' \in {"running", "region", "nullopt"}
         /\ LET D == Solver!CPre(critical)
            IN  \/ Solver!Narrow(D) \/ Solver!Raise(D) \/ Solver!GiveUp(D)
<1> DEFINE G == Intersect(elements, F1i)
           D == Solver!CPre(critical)
<1>1. /\ UNCHANGED <<aut, picker, fwd_actions, order, priority, lists, f, left, pos, critical>>
      /\ pc' = "turn" /\ pc = "cpre" /\ TypeOK /\ result = "running"
  BY DEF CPre, IInv, ScanInv, built, pq, scan
<1>2. G \subseteq Safe(K) /\ G # {} /\ Down(G) = D /\ G \subseteq Vectors
  <2>1. G \subseteq Safe(K) /\ G # {} /\ Down(G) = D
    BY <1>1, CPreElements
  <2> HIDE DEF G, D
  <2> QED BY <2>1 DEF Safe, Down
<1>3. aut.init \in Vectors /\ K \in Kfrom .. TopK
  BY <1>1, GameAssumption DEF TypeOK, IsAutomaton
<1>4. \/ /\ Covered(G, aut.init)
         /\ elements' = G /\ UNCHANGED <<K, result>>
      \/ /\ ~Covered(G, aut.init) /\ K < Kto
         /\ K' = K + Kinc
         /\ elements' = Maximal({Solver!AddKinc(s) : s \in G}) /\ UNCHANGED result
      \/ /\ ~Covered(G, aut.init) /\ K >= Kto
         /\ result' = "nullopt"
         /\ elements' = G /\ UNCHANGED K
  BY DEF CPre
<1> HIDE DEF G, D
<1>5. Covered(G, aut.init) <=> aut.init \in D
  BY <1>2, <1>3, CoveredIsDown
<1>6. CASE Covered(G, aut.init) /\ elements' = G /\ UNCHANGED <<K, result>>
  <2>1. Solver!Narrow(D)
    BY <1>2, <1>5, <1>6 DEF Solver!Narrow, Down
  <2> QED BY <1>1, <1>2, <1>3, <1>6, <2>1 DEF D
<1>7. CASE /\ ~Covered(G, aut.init) /\ K < Kto
           /\ K' = K + Kinc
           /\ elements' = Maximal({Solver!AddKinc(s) : s \in G}) /\ UNCHANGED result
  <2> DEFINE T == {Solver!AddKinc(s) : s \in G}
  <2>1. T \subseteq Vectors /\ Down(Maximal(T)) = Down({Solver!AddKinc(s) : s \in Down(G)})
    BY <1>2, <1>3, <1>7, RaisedElements
  <2>2. T # {}
    BY <1>2
  <2>3. elements' = Maximal(T)
    BY <1>7
  <2>4. Down(elements)' = Down({Solver!AddKinc(s) : s \in D})
    BY <1>2, <2>1, <2>3 DEF Down
  <2>5. Solver!Raise(D)
    BY <1>5, <1>7, <2>4, SameOperators DEF Solver!Raise
  <2> HIDE DEF T
  <2>6. elements' # {} /\ elements' \subseteq Vectors
    BY <2>1, <2>2, <2>3, DownMaximal
  <2>7. K' \in Kfrom .. TopK
    BY <1>3, <1>7, KIs
  <2> QED BY <1>1, <1>7, <2>5, <2>6, <2>7 DEF D
<1>8. CASE /\ ~Covered(G, aut.init) /\ K >= Kto
           /\ result' = "nullopt"
           /\ elements' = G /\ UNCHANGED K
  <2>1. Solver!GiveUp(D)
    BY <1>2, <1>5, <1>8 DEF Solver!GiveUp, Down
  <2> QED BY <1>1, <1>2, <1>3, <1>8, <2>1 DEF D
<1> QED BY <1>4, <1>6, <1>7, <1>8

LEMMA CPreIInv ==
  ASSUME NoOverflow, IInv, CPre
  PROVE  IInv'
<1>1. /\ UNCHANGED <<aut, picker, fwd_actions, order, priority, lists, f, left, pos, critical>>
      /\ pc' = "turn"
      /\ elements' # {} /\ elements' \subseteq Vectors /\ K' \in Kfrom .. TopK
      /\ result' \in {"running", "region", "nullopt"}
  BY CPreOutcome
<1>2. TypeOK'
  BY <1>1 DEF IInv, TypeOK, Answers
<1>3. ScanInv'
  BY <1>1 DEF ScanInv
<1> QED BY <1>2, <1>3 DEF IInv

LEMMA StutterIInv ==
  ASSUME IInv, UNCHANGED vars
  PROVE  IInv'
<1>1. UNCHANGED <<aut, picker, fwd_actions, K, result, elements, order, priority, lists, pc,
                  f, left, pos, critical>>
  BY DEF vars, built, loop, pq, scan
<1>2. TypeOK'
  BY <1>1 DEF IInv, TypeOK, Answers
<1>3. ScanInv'
  BY <1>1, KeptStays DEF IInv, ScanInv
<1> QED BY <1>2, <1>3 DEF IInv

LEMMA NextIInv ==
  ASSUME NoOverflow, IInv, [Next]_vars
  PROVE  IInv'
<1>1. CASE Step
  BY <1>1, StartTurnIInv, PassIInv, HitIInv, NextElementIInv, ReturnIInv, CPreIInv DEF Step
<1>2. CASE Done
  BY <1>2, StutterIInv DEF Done
<1>3. CASE UNCHANGED vars
  BY <1>3, StutterIInv
<1> QED BY <1>1, <1>2, <1>3 DEF Next

LEMMA PickersInvariant ==
  ASSUME NoOverflow
  PROVE  Spec => []IInv
<1>1. Init => IInv
  BY InitIInv
<1>2. IInv /\ [Next]_vars => IInv'
  BY NextIInv
<1> QED BY <1>1, <1>2, PTL DEF Spec

(***************************************************************************)
(* Whatever the picker, the orders and the lists stay permutations of the  *)
(* inputs and of the outputs that the precomputer gave for them, and the   *)
(* set of elements is never empty.                                         *)
(***************************************************************************)
THEOREM PickersTypeOK ==
  ASSUME NoOverflow
  PROVE  Spec => []TypeOK
<1>1. IInv => TypeOK
  BY DEF IInv
<1> QED BY <1>1, PickersInvariant, PTL

-----------------------------------------------------------------------------
(***************************************************************************)
(* The step of the fixpoint that each action of the loop is.               *)
(***************************************************************************)
LEMMA InitSolver ==
  ASSUME Init
  PROVE  Solver!Init
<1>1. aut.start = Down(aut.start) /\ aut.start \in SUBSET Vectors
  BY PickersAssumption, GameAssumption DEF Init, IsAutomaton
<1>2. Down(elements) = aut.start
  BY <1>1, DownMaximal DEF Init
<1> QED BY <1>2 DEF Init, Solver!Init

LEMMA StepSolver ==
  ASSUME NoOverflow, IInv, [Next]_vars
  PROVE  [Solver!Next]_Solver!vars
<1>1. ASSUME UNCHANGED <<aut, K, elements, result>>
      PROVE  UNCHANGED Solver!vars
  BY <1>1 DEF Solver!vars, Down
<1>2. CASE StartTurn \/ Pass \/ Hit \/ NextElement
  BY <1>1, <1>2 DEF StartTurn, Pass, Hit, NextElement, built, loop
<1>3. CASE Return
  <2>1. \A e \in elements : \A i \in Inputs : Kept(e, i)
    BY <1>3, ScannedKeeps DEF Return
  <2>2. \A i \in Inputs : ~Solver!Critical(i)
    BY <2>1, CriticalElement DEF IInv
  <2>3. result = "running" /\ result' = "region" /\ UNCHANGED <<aut, K, elements>>
    BY <1>3 DEF Return, ScannedElement, IInv, ScanInv, built
  <2>4. Solver!Return
    BY <2>2, <2>3 DEF Solver!Return, Down
  <2> QED BY <2>4 DEF Solver!Next, Solver!Turn
<1>4. CASE CPre
  <2>1. /\ result = "running" /\ pc = "cpre" /\ UNCHANGED aut
        /\ LET D == Solver!CPre(critical)
           IN  \/ Solver!Narrow(D) \/ Solver!Raise(D) \/ Solver!GiveUp(D)
    BY <1>4, CPreOutcome
  <2>2. f \in elements /\ ~Kept(f, critical) /\ critical \in Inputs
    BY <2>1 DEF IInv, ScanInv, TypeOK
  <2>3. Solver!Critical(critical)
    BY <2>2, CriticalElement DEF IInv
  <2>4. Solver!Iterate(critical)
    BY <2>1, <2>3 DEF Solver!Iterate
  <2> QED BY <2>2, <2>4 DEF Solver!Next, Solver!Turn
<1>5. CASE UNCHANGED vars
  BY <1>1, <1>5 DEF vars, built, loop
<1> QED BY <1>2, <1>3, <1>4, <1>5 DEF Next, Step, Done

(***************************************************************************)
(* solve with any of the pickers implements the fixpoint over downsets:    *)
(* an input is only picked when it is critical for F, F is only returned   *)
(* when no input is, and the elements stand for what cpre and the raise of *)
(* K give.                                                                 *)
(***************************************************************************)
THEOREM PickersImplementSolver ==
  ASSUME NoOverflow
  PROVE  Spec => ImplementsSolver
<1>1. Init => Solver!Init
  BY InitSolver
<1>2. IInv /\ [Next]_vars => [Solver!Next]_Solver!vars
  BY StepSolver
<1>3. Spec => Solver!Spec
  BY <1>1, <1>2, PickersInvariant, PTL DEF Spec, Solver!Spec
<1> QED BY <1>3 DEF ImplementsSolver

-----------------------------------------------------------------------------
(***************************************************************************)
(* What is proved of the solver holds of the program's loop.               *)
(***************************************************************************)
SolverProofs == INSTANCE KBoundedSafetyProofs WITH F <- Down(elements)

(* The two instances of the solver are one. *)
LEMMA SameSolver ==
  /\ Solver!Init <=> SolverProofs!Init
  /\ Solver!Next <=> SolverProofs!Next
  /\ UNCHANGED Solver!vars <=> UNCHANGED SolverProofs!vars
<1>1. Solver!Init <=> SolverProofs!Init
  BY Zenon DEF Solver!Init, Solver!Down, Solver!Vectors, Solver!Values, Solver!Leq,
      SolverProofs!Init, SolverProofs!Down, SolverProofs!Vectors, SolverProofs!Values,
      SolverProofs!Leq
<1>2. UNCHANGED Solver!vars <=> UNCHANGED SolverProofs!vars
  BY Zenon DEF Solver!vars, Solver!Down, Solver!Vectors, Solver!Values, Solver!Leq,
      SolverProofs!vars, SolverProofs!Down, SolverProofs!Vectors, SolverProofs!Values,
      SolverProofs!Leq
<1>3. ASSUME NEW i
      PROVE  Solver!Critical(i) <=> SolverProofs!Critical(i)
  BY Zenon
  DEF Solver!Down, Solver!Vectors, Solver!Values, Solver!Leq, Solver!Answers,
      Solver!Forward, Solver!Stored, Solver!Capped, Solver!Count, Solver!ActivePreds,
      Solver!Max, Solver!Elt, Solver!Fwd, Solver!Witness, Solver!Critical,
      SolverProofs!Down, SolverProofs!Vectors, SolverProofs!Values, SolverProofs!Leq,
      SolverProofs!Answers, SolverProofs!Forward, SolverProofs!Stored,
      SolverProofs!Capped, SolverProofs!Count, SolverProofs!ActivePreds,
      SolverProofs!Max, SolverProofs!Elt, SolverProofs!Fwd, SolverProofs!Witness,
      SolverProofs!Critical
<1>4. ASSUME NEW i
      PROVE  Solver!CPre(i) = SolverProofs!CPre(i)
  <2>1. ASSUME NEW m, NEW o
        PROVE  Solver!Bwd(m, i, o) = SolverProofs!Bwd(m, i, o)
    BY Zenon
    DEF Solver!Bwd, Solver!Backward, Solver!AtLeastMinus1, Solver!Min, Solver!Succs,
        Solver!Count, Solver!Uniform, Solver!Elt, SolverProofs!Bwd,
        SolverProofs!Backward, SolverProofs!AtLeastMinus1, SolverProofs!Min,
        SolverProofs!Succs, SolverProofs!Count, SolverProofs!Uniform, SolverProofs!Elt
  <2>2. ASSUME NEW S
        PROVE  Solver!Down(S) = SolverProofs!Down(S)
    BY Zenon DEF Solver!Down, Solver!Vectors, Solver!Values, Solver!Leq, SolverProofs!Down,
        SolverProofs!Vectors, SolverProofs!Values, SolverProofs!Leq
  <2>3. Solver!Bottom = SolverProofs!Bottom /\ Solver!Answers(aut, i) = SolverProofs!Answers(aut, i)
    BY DEF Solver!Bottom, Solver!Answers, SolverProofs!Bottom, SolverProofs!Answers
  <2> DEFINE X == {Solver!Bwd(m, i, o) : m \in Down(elements), o \in Solver!Answers(aut, i)}
             Y == {SolverProofs!Bwd(m, i, o) : m \in Down(elements), o \in SolverProofs!Answers(aut, i)}
  <2>4. X = Y
    BY <2>1, <2>3, SMT
  <2>5. Solver!CPre(i) = Down(elements) \cap Solver!Down({Solver!Bottom} \cup X)
    BY DEF Solver!CPre
  <2>6. SolverProofs!CPre(i) = Down(elements) \cap SolverProofs!Down({SolverProofs!Bottom} \cup Y)
    BY DEF SolverProofs!CPre
  <2> HIDE DEF X, Y
  <2> QED BY <2>2, <2>3, <2>4, <2>5, <2>6
<1>5. ASSUME NEW G
      PROVE  /\ Solver!Narrow(G) <=> SolverProofs!Narrow(G)
             /\ Solver!Raise(G) <=> SolverProofs!Raise(G)
             /\ Solver!GiveUp(G) <=> SolverProofs!GiveUp(G)
  BY Zenon DEF Solver!Narrow, Solver!Raise, Solver!GiveUp, Solver!AddKinc, Solver!Elt,
      Solver!Down, Solver!Vectors, Solver!Values, Solver!Leq, SolverProofs!Narrow,
      SolverProofs!Raise, SolverProofs!GiveUp, SolverProofs!AddKinc, SolverProofs!Elt,
      SolverProofs!Down, SolverProofs!Vectors, SolverProofs!Values, SolverProofs!Leq
<1>6. Solver!Return <=> SolverProofs!Return
  BY <1>3, Zenon DEF Solver!Return, Solver!Down, Solver!Vectors, Solver!Values, Solver!Leq,
      SolverProofs!Return, SolverProofs!Down, SolverProofs!Vectors,
      SolverProofs!Values, SolverProofs!Leq
<1>7. ASSUME NEW i
      PROVE  Solver!Iterate(i) <=> SolverProofs!Iterate(i)
  BY <1>3, <1>4, <1>5, Zenon DEF Solver!Iterate, SolverProofs!Iterate
<1>8. Solver!Turn <=> SolverProofs!Turn
  BY <1>6, <1>7, Zenon DEF Solver!Turn, SolverProofs!Turn
<1> QED
  BY <1>1, <1>2, <1>8, Zenon DEF Solver!Next, SolverProofs!Next, Solver!Done, SolverProofs!Done

LEMMA SameGame ==
  SolverProofs!Winning(aut, K) <=> Winning(aut, K)
BY Zenon
DEF Winning, WinRegion, Controlled, Safe, Down, Uniform, Vectors, Values, Leq, Answers,
    Forward, Stored, Capped, Count, ActivePreds, Max,
    SolverProofs!Winning, SolverProofs!WinRegion, SolverProofs!Controlled,
    SolverProofs!Safe, SolverProofs!Down, SolverProofs!Uniform, SolverProofs!Vectors,
    SolverProofs!Values, SolverProofs!Leq, SolverProofs!Answers, SolverProofs!Forward,
    SolverProofs!Stored, SolverProofs!Capped, SolverProofs!Count,
    SolverProofs!ActivePreds, SolverProofs!Max

(***************************************************************************)
(* Whichever picker is used, and in whatever order it tries inputs and     *)
(* outputs: solve returns a region if and only if the controller wins the  *)
(* game for the K it stops at.                                             *)
(***************************************************************************)
PickersVerdict == result # "running" => (result = "region" <=> Winning(aut, K))

THEOREM PickersExact ==
  ASSUME NoOverflow, SolverProofs!DefaultInits, SolverProofs!GoodStarts
  PROVE  Spec => []PickersVerdict
<1>1. /\ SolverProofs!NoOverflow
      /\ Kfrom \in Nat \ {0} /\ Kto \in Nat /\ Kinc \in Nat /\ EltHalf \in Nat \ {0}
      /\ Kfrom =< Kto /\ (Kfrom < Kto => Kinc > 0)
      /\ TopK >= Kto /\ (Kfrom < Kto => TopK >= Kto + Kinc - 1)
      /\ NonBool \subseteq States /\ TopK \in Nat \ {0}
  BY KAssumption, GameAssumption DEF NoOverflow, SolverProofs!NoOverflow
<1>2. \A a \in Automata : SolverProofs!IsAutomaton(a)
  BY GameAssumption
  DEF SolverProofs!IsAutomaton, IsAutomaton, Vectors, Values, SolverProofs!Vectors, SolverProofs!Values
<1>3. SolverProofs!Spec => []SolverProofs!VerdictExact
  BY <1>1, <1>2, SolverProofs!SolverExact, PTL
<1>4. SolverProofs!VerdictExact => PickersVerdict
  BY SameGame DEF SolverProofs!VerdictExact, PickersVerdict
<1>5. Solver!Spec => SolverProofs!Spec
  BY SameSolver, PTL DEF Solver!Spec, SolverProofs!Spec
<1>6. Spec => Solver!Spec
  BY PickersImplementSolver DEF ImplementsSolver
<1> QED BY <1>3, <1>4, <1>5, <1>6, PTL
=============================================================================
