---------------------------- MODULE SequenceFolds ----------------------------
(***************************************************************************)
(* Facts about the operators on sequences that are defined by recursion,   *)
(* FoldLeft and FlattenSeq.                                                *)
(*                                                                         *)
(* A fact about FoldLeft concerns any operator, and the provers cannot     *)
(* instantiate a theorem for an operator.  So the operator is a constant   *)
(* of this module, and a module that folds with an operator of its own     *)
(* instantiates this one for it.  What else the operator depends on, the   *)
(* context, is its first argument.                                         *)
(*                                                                         *)
(* Induction over the natural numbers is done with sets instead of         *)
(* predicates, from the well-foundedness of < on Nat.                      *)
(***************************************************************************)
EXTENDS Integers, SequencesExt, SequenceTheorems, WellFoundedInduction, TLAPS

CONSTANT Op(_, _, _)

-----------------------------------------------------------------------------
\* A set that has 0 and with a number the next one has them all.
LEMMA NatSetInduction ==
    \A T : 0 \in T /\ (\A n \in Nat : n \in T => n + 1 \in T)
              => \A n \in Nat : n \in T
<1> SUFFICES ASSUME NEW T, 0 \in T, \A n \in Nat : n \in T => n + 1 \in T,
                    \E n \in Nat : n \notin T
             PROVE  FALSE
  OBVIOUS
<1> PICK U : U = {n \in Nat : n \notin T}
  OBVIOUS
<1>0. PICK R : R = OpToRel(<, Nat)
  OBVIOUS
<1>1. IsWellFoundedOn(R, Nat)
  BY <1>0, NatLessThanWellFounded
<1>2. PICK x \in U : \A y \in U : <<y, x>> \notin R
  BY <1>1, WFMin
<1>3. PICK n \in Nat : n = x /\ n # 0 /\ n \notin T
  OBVIOUS
<1>4. n - 1 \in Nat /\ n - 1 < n /\ (n - 1) + 1 = n
  BY <1>3
<1>5. <<n - 1, n>> \in R
  BY <1>0, <1>4 DEF OpToRel
<1>6. n - 1 \in T
  BY <1>2, <1>3, <1>4, <1>5
<1> QED
  BY <1>3, <1>4, <1>6

\* Among numbers up to n one is the greatest.
LEMMA MaxOfNumbers ==
    \A n \in Nat : \A s \in SUBSET (1 .. n) :
        s # {} => Max(s) \in s /\ \A y \in s : Max(s) >= y
<1> PICK T : T = {n \in Nat : \A s \in SUBSET (1 .. n) :
                                 s # {} => \E x \in s : \A y \in s : x >= y}
  OBVIOUS
<1>1. 0 \in T
  <2>1. \A s \in SUBSET (1 .. 0) : s = {}
    OBVIOUS
  <2> QED
    BY <2>1
<1>2. ASSUME NEW n \in Nat, n \in T
      PROVE  n + 1 \in T
  <2> SUFFICES ASSUME NEW s \in SUBSET (1 .. n + 1), s # {}
               PROVE  \E x \in s : \A y \in s : x >= y
    OBVIOUS
  <2>1. CASE n + 1 \in s
    BY <2>1
  <2>2. CASE n + 1 \notin s
    <3>1. s \in SUBSET (1 .. n)
      BY <2>2
    <3> QED
      BY <1>2, <3>1
  <2> QED
    BY <2>1, <2>2
<1>3. \A n \in Nat : n \in T
  BY <1>1, <1>2, NatSetInduction
<1> SUFFICES ASSUME NEW n \in Nat, NEW s \in SUBSET (1 .. n), s # {}
             PROVE  Max(s) \in s /\ \A y \in s : Max(s) >= y
  OBVIOUS
<1>4. PICK x \in s : \A y \in s : x >= y
  BY <1>3
<1> QED
  BY <1>4 DEF Max

\* A set that has the empty sequence and with a sequence every longer one by one
\* element has them all.
LEMMA SeqSetInduction ==
    \A S, T : /\ <<>> \in T
              /\ \A s \in Seq(S), e \in S : s \in T => Append(s, e) \in T
              => \A s \in Seq(S) : s \in T
<1> SUFFICES ASSUME NEW S, NEW T, <<>> \in T,
                    \A s \in Seq(S), e \in S : s \in T => Append(s, e) \in T
             PROVE  \A s \in Seq(S) : s \in T
  OBVIOUS
<1> PICK N : N = {n \in Nat : \A s \in Seq(S) : Len(s) = n => s \in T}
  OBVIOUS
<1>1. 0 \in N
  BY EmptySeq
<1>2. ASSUME NEW n \in Nat, n \in N
      PROVE  n + 1 \in N
  <2> SUFFICES ASSUME NEW s \in Seq(S), Len(s) = n + 1
               PROVE  s \in T
    OBVIOUS
  <2>1. s # <<>>
    BY EmptySeq
  <2>2. PICK t \in Seq(S), e \in S : s = Append(t, e)
    BY <2>1, SequenceEmptyOrAppend
  <2>3. Len(t) = n
    BY <2>2, AppendProperties, LenProperties
  <2> QED
    BY <1>2, <2>2, <2>3
<1>3. \A n \in Nat : n \in N
  BY <1>1, <1>2, NatSetInduction
<1> QED
  BY <1>3, LenProperties
-----------------------------------------------------------------------------
(***************************************************************************)
(* FoldLeft.  MapThenFoldSet defines it by a function on the sets of       *)
(* indices, which takes the greatest index off a set first.                *)
(***************************************************************************)
Folded(context, base, seq) ==
    FoldLeft(LAMBDA x, y : Op(context, x, y), base, seq)

\* The fold over the first n elements.
FoldedTo(context, base, seq, n) == Folded(context, base, SubSeq(seq, 1, n))

IsIteration(f, context, base, seq, n) ==
    f = [s \in SUBSET (1 .. n) |->
            IF s = {} THEN base
            ELSE Op(context, f[s \ {Max(s)}], seq[Max(s)])]

LEMMA WithoutMax ==
    \A n \in Nat : \A s \in SUBSET (1 .. n + 1) :
        s # {} => Max(s) \in 1 .. n + 1 /\ s \ {Max(s)} \in SUBSET (1 .. n)
<1> SUFFICES ASSUME NEW n \in Nat, NEW s \in SUBSET (1 .. n + 1), s # {}
             PROVE  Max(s) \in 1 .. n + 1 /\ s \ {Max(s)} \in SUBSET (1 .. n)
  OBVIOUS
<1> PICK m : m = Max(s)
  OBVIOUS
<1>1. n + 1 \in Nat
  OBVIOUS
<1>2. m \in s /\ \A y \in s : m >= y
  BY <1>1, MaxOfNumbers
<1>3. ASSUME NEW y \in s \ {m}
      PROVE  y \in 1 .. n
  <2>1. m \in 1 .. n + 1 /\ y \in 1 .. n + 1 /\ y # m /\ m >= y
    BY <1>2
  <2> QED
    BY <2>1
<1> QED
  BY <1>2, <1>3

\* There is such a function.
LEMMA IterationExists ==
    \A context, base, seq : \A n \in Nat :
        \E f : IsIteration(f, context, base, seq, n)
<1> SUFFICES ASSUME NEW context, NEW base, NEW seq
             PROVE  \A n \in Nat : \E f : IsIteration(f, context, base, seq, n)
  OBVIOUS
<1> PICK T : T = {n \in Nat : \E f : IsIteration(f, context, base, seq, n)}
  OBVIOUS
<1>1. 0 \in T
  <2> PICK f : f = [s \in SUBSET (1 .. 0) |-> base]
    OBVIOUS
  <2>1. f = [s \in SUBSET (1 .. 0) |->
                IF s = {} THEN base
                ELSE Op(context, f[s \ {Max(s)}], seq[Max(s)])]
    <3>1. \A s \in SUBSET (1 .. 0) : s = {}
      OBVIOUS
    <3> QED
      BY <3>1
  <2> QED
    BY <2>1 DEF IsIteration
<1>2. ASSUME NEW n \in Nat, n \in T
      PROVE  n + 1 \in T
  <2>1. PICK f : IsIteration(f, context, base, seq, n)
    BY <1>2
  <2>2. PICK g : g = [s \in SUBSET (1 .. n + 1) |->
                         IF s = {} THEN base
                         ELSE Op(context, f[s \ {Max(s)}], seq[Max(s)])]
    OBVIOUS
  <2>3. \A s \in SUBSET (1 .. n) : f[s] = g[s]
    <3>1. SUBSET (1 .. n) \subseteq SUBSET (1 .. n + 1)
      OBVIOUS
    <3> QED
      BY <2>1, <2>2, <3>1 DEF IsIteration
  <2>4. g = [s \in SUBSET (1 .. n + 1) |->
                IF s = {} THEN base
                ELSE Op(context, g[s \ {Max(s)}], seq[Max(s)])]
    <3>1. \A s \in SUBSET (1 .. n + 1) :
             s # {} => f[s \ {Max(s)}] = g[s \ {Max(s)}]
      BY <2>3, WithoutMax
    <3> QED
      BY <2>2, <3>1
  <2>5. IsIteration(g, context, base, seq, n + 1)
    BY <2>4 DEF IsIteration
  <2> QED
    BY <2>5
<1>3. \A n \in Nat : n \in T
  BY <1>1, <1>2, NatSetInduction
<1> QED
  BY <1>3

\* Two of them agree where their sequences do.
LEMMA IterationsAgree ==
    \A context, base, f, g, s, t : \A m, n, k \in Nat :
        /\ IsIteration(f, context, base, s, m)
        /\ IsIteration(g, context, base, t, n)
        /\ k <= m /\ k <= n
        /\ \A i \in 1 .. k : s[i] = t[i]
        => f[1 .. k] = g[1 .. k]
<1> SUFFICES ASSUME NEW context, NEW base, NEW f, NEW g, NEW s, NEW t,
                    NEW m \in Nat, NEW n \in Nat, NEW k \in Nat,
                    IsIteration(f, context, base, s, m),
                    IsIteration(g, context, base, t, n),
                    k <= m, k <= n,
                    \A i \in 1 .. k : s[i] = t[i]
             PROVE  f[1 .. k] = g[1 .. k]
  OBVIOUS
<1> PICK T : T = {l \in Nat : l <= k => \A u \in SUBSET (1 .. l) : f[u] = g[u]}
  OBVIOUS
<1>0. \A u \in SUBSET (1 .. k) :
         /\ f[u] = IF u = {} THEN base ELSE Op(context, f[u \ {Max(u)}], s[Max(u)])
         /\ g[u] = IF u = {} THEN base ELSE Op(context, g[u \ {Max(u)}], t[Max(u)])
  <2>1. SUBSET (1 .. k) \subseteq SUBSET (1 .. m)
    OBVIOUS
  <2>2. SUBSET (1 .. k) \subseteq SUBSET (1 .. n)
    OBVIOUS
  <2> QED
    BY <2>1, <2>2 DEF IsIteration
<1>1. 0 \in T
  <2>1. \A u \in SUBSET (1 .. 0) : u = {}
    OBVIOUS
  <2> QED
    BY <1>0, <2>1
<1>2. ASSUME NEW l \in Nat, l \in T
      PROVE  l + 1 \in T
  <2> SUFFICES ASSUME l + 1 <= k, NEW u \in SUBSET (1 .. l + 1), u # {}
               PROVE  f[u] = g[u]
    <3>1. {} \in SUBSET (1 .. k)
      OBVIOUS
    <3> QED
      BY <1>0, <3>1
  <2>1. Max(u) \in 1 .. l + 1 /\ u \ {Max(u)} \in SUBSET (1 .. l)
    BY WithoutMax
  <2>2. u \in SUBSET (1 .. k)
    OBVIOUS
  <2>3. f[u \ {Max(u)}] = g[u \ {Max(u)}]
    BY <1>2, <2>1
  <2>4. s[Max(u)] = t[Max(u)]
    BY <2>1
  <2> QED
    BY <1>0, <2>2, <2>3, <2>4
<1>3. \A l \in Nat : l \in T
  BY <1>1, <1>2, NatSetInduction
<1> QED
  BY <1>3

\* The fold is such a function's value for all indices.
LEMMA FoldIsIteration ==
    \A context, base, S : \A seq \in Seq(S) :
        \E f : /\ IsIteration(f, context, base, seq, Len(seq))
               /\ Folded(context, base, seq) = f[1 .. Len(seq)]
<1> SUFFICES ASSUME NEW context, NEW base, NEW S, NEW seq \in Seq(S)
             PROVE  \E f : /\ IsIteration(f, context, base, seq, Len(seq))
                           /\ Folded(context, base, seq) = f[1 .. Len(seq)]
  OBVIOUS
<1>1. Len(seq) \in Nat /\ DOMAIN seq = 1 .. Len(seq)
  BY LenProperties
<1>2. \E f : f = [s \in SUBSET DOMAIN seq |->
                     IF s = {} THEN base
                     ELSE Op(context, f[s \ {Max(s)}], seq[Max(s)])]
  <2>1. PICK f : IsIteration(f, context, base, seq, Len(seq))
    BY <1>1, IterationExists
  <2> QED
    BY <1>1, <2>1 DEF IsIteration
<1> PICK f : f = CHOOSE h : h = [s \in SUBSET DOMAIN seq |->
                     IF s = {} THEN base
                     ELSE Op(context, h[s \ {Max(s)}], seq[Max(s)])]
  OBVIOUS
<1>3. f = [s \in SUBSET DOMAIN seq |->
                     IF s = {} THEN base
                     ELSE Op(context, f[s \ {Max(s)}], seq[Max(s)])]
  BY <1>2
<1>4. Folded(context, base, seq) = f[DOMAIN seq]
  BY DEF Folded, FoldLeft, MapThenFoldSet
<1> QED
  BY <1>1, <1>3, <1>4 DEF IsIteration

\* A fold over nothing is the base.
LEMMA FoldedNone ==
    \A context, base, S : \A seq \in Seq(S) :
        FoldedTo(context, base, seq, 0) = base
<1> SUFFICES ASSUME NEW context, NEW base, NEW S, NEW seq \in Seq(S)
             PROVE  FoldedTo(context, base, seq, 0) = base
  OBVIOUS
<1> PICK none : none = SubSeq(seq, 1, 0)
  OBVIOUS
<1>1. none \in Seq(S) /\ Len(none) = 0
  OBVIOUS
<1>2. PICK f : IsIteration(f, context, base, none, 0) /\ Folded(context, base, none) = f[1 .. 0]
  BY <1>1, FoldIsIteration
<1>3. 1 .. 0 = {} /\ {} \in SUBSET (1 .. 0)
  OBVIOUS
<1>4. f[{}] = base
  BY <1>2, <1>3 DEF IsIteration
<1> QED
  BY <1>2, <1>3, <1>4 DEF FoldedTo

\* One more element is one more step.
LEMMA FoldedNext ==
    \A context, base, S : \A seq \in Seq(S) : \A n \in 0 .. Len(seq) - 1 :
        FoldedTo(context, base, seq, n + 1)
            = Op(context, FoldedTo(context, base, seq, n), seq[n + 1])
<1> SUFFICES ASSUME NEW context, NEW base, NEW S, NEW seq \in Seq(S),
                    NEW n \in 0 .. Len(seq) - 1
             PROVE  FoldedTo(context, base, seq, n + 1)
                       = Op(context, FoldedTo(context, base, seq, n), seq[n + 1])
  OBVIOUS
<1>s. PICK s : s = SubSeq(seq, 1, n)
  OBVIOUS
<1>t. PICK t : t = SubSeq(seq, 1, n + 1)
  OBVIOUS
<1>0. Len(seq) \in Nat /\ n \in Nat /\ n + 1 \in Nat
  OBVIOUS
<1>1. s \in Seq(S) /\ Len(s) = n /\ \A i \in 1 .. n : s[i] = seq[i]
  BY <1>0, <1>s
<1>2. t \in Seq(S) /\ Len(t) = n + 1 /\ \A i \in 1 .. n + 1 : t[i] = seq[i]
  BY <1>0, <1>t
<1>3. PICK f : IsIteration(f, context, base, s, n) /\ Folded(context, base, s) = f[1 .. n]
  <2>1. PICK f : /\ IsIteration(f, context, base, s, Len(s))
                 /\ Folded(context, base, s) = f[1 .. Len(s)]
    BY <1>1, FoldIsIteration
  <2> QED
    BY <1>1, <2>1, Zenon
<1>4. PICK g : /\ IsIteration(g, context, base, t, n + 1)
               /\ Folded(context, base, t) = g[1 .. n + 1]
  <2>1. PICK g : /\ IsIteration(g, context, base, t, Len(t))
                 /\ Folded(context, base, t) = g[1 .. Len(t)]
    BY <1>2, FoldIsIteration
  <2> QED
    BY <1>2, <2>1, Zenon
<1>5. f[1 .. n] = g[1 .. n]
  <2>1. \A i \in 1 .. n : s[i] = t[i]
    BY <1>0, <1>1, <1>2
  <2>2. PICK m \in Nat : m = n + 1 /\ n <= m /\ n <= n
    BY <1>0
  <2>3. IsIteration(g, context, base, t, m)
    BY <1>4, <2>2, Zenon
  <2> QED
    BY <1>0, <1>3, <2>1, <2>2, <2>3, IterationsAgree
<1>6. g[1 .. n + 1] = Op(context, g[(1 .. n + 1) \ {Max(1 .. n + 1)}], t[Max(1 .. n + 1)])
  <2>1. 1 .. n + 1 \in SUBSET (1 .. n + 1) /\ 1 .. n + 1 # {}
    <3>1. n + 1 \in 1 .. n + 1
      BY <1>0
    <3> QED
      BY <3>1
  <2> QED
    BY <1>4, <2>1 DEF IsIteration
<1>7. Max(1 .. n + 1) = n + 1
  <2> PICK m : m = Max(1 .. n + 1)
    OBVIOUS
  <2>1. m \in 1 .. n + 1 /\ \A y \in 1 .. n + 1 : m >= y
    <3>1. n + 1 \in 1 .. n + 1
      BY <1>0
    <3>2. 1 .. n + 1 \in SUBSET (1 .. n + 1) /\ 1 .. n + 1 # {}
      BY <3>1
    <3> QED
      BY <1>0, <3>2, MaxOfNumbers
  <2>2. n + 1 \in 1 .. n + 1
    BY <1>0
  <2> QED
    BY <1>0, <2>1, <2>2
<1>8. (1 .. n + 1) \ {n + 1} = 1 .. n
  BY <1>0
<1>9. t[n + 1] = seq[n + 1]
  BY <1>0, <1>2
<1>10. FoldedTo(context, base, seq, n + 1) = g[1 .. n + 1]
  BY <1>t, <1>4, Zenon DEF FoldedTo
<1>11. FoldedTo(context, base, seq, n) = f[1 .. n]
  BY <1>s, <1>3, Zenon DEF FoldedTo
<1> QED
  BY <1>5, <1>6, <1>7, <1>8, <1>9, <1>10, <1>11, Zenon

\* The fold is the fold over all its elements.
LEMMA FoldedAll ==
    \A context, base, S : \A seq \in Seq(S) :
        Folded(context, base, seq) = FoldedTo(context, base, seq, Len(seq))
<1> SUFFICES ASSUME NEW context, NEW base, NEW S, NEW seq \in Seq(S)
             PROVE  SubSeq(seq, 1, Len(seq)) = seq
  BY DEF FoldedTo
<1> QED
  BY SubSeqProperties, LenProperties
-----------------------------------------------------------------------------
(***************************************************************************)
(* FlattenSeq.                                                             *)
(***************************************************************************)
FlatTo(f, seqs, n) ==
    f = [i \in 1 .. n |-> IF i = 1 THEN seqs[i] ELSE f[i - 1] \o seqs[i]]

LEMMA FlatteningExists ==
    \A seqs : \A n \in Nat : \E f : FlatTo(f, seqs, n)
<1> SUFFICES ASSUME NEW seqs
             PROVE  \A n \in Nat : \E f : FlatTo(f, seqs, n)
  OBVIOUS
<1> PICK T : T = {n \in Nat : \E f : FlatTo(f, seqs, n)}
  OBVIOUS
<1>1. 0 \in T
  <2> PICK f : f = [i \in 1 .. 0 |-> <<>>]
    OBVIOUS
  <2>1. 1 .. 0 = {}
    OBVIOUS
  <2>2. FlatTo(f, seqs, 0)
    BY <2>1 DEF FlatTo
  <2> QED
    BY <2>2
<1>2. ASSUME NEW n \in Nat, n \in T
      PROVE  n + 1 \in T
  <2>1. PICK f : FlatTo(f, seqs, n)
    BY <1>2
  <2>2. PICK g : g = [i \in 1 .. n + 1 |->
                        IF i = 1 THEN seqs[i] ELSE f[i - 1] \o seqs[i]]
    OBVIOUS
  <2>3. ASSUME NEW i \in 1 .. n
        PROVE  g[i] = f[i]
    <3>1. i \in 1 .. n + 1
      OBVIOUS
    <3>2. g[i] = IF i = 1 THEN seqs[i] ELSE f[i - 1] \o seqs[i]
      BY <2>2, <3>1
    <3>3. f[i] = IF i = 1 THEN seqs[i] ELSE f[i - 1] \o seqs[i]
      BY <2>1 DEF FlatTo
    <3> QED
      BY <3>2, <3>3
  <2>4. \A i \in 1 .. n + 1 : i # 1 => g[i - 1] = f[i - 1]
    BY <2>3
  <2>5. FlatTo(g, seqs, n + 1)
    BY <2>2, <2>4 DEF FlatTo
  <2> QED
    BY <2>5
<1>3. \A n \in Nat : n \in T
  BY <1>1, <1>2, NatSetInduction
<1> QED
  BY <1>3

\* Two of them agree where their sequences do.
LEMMA FlatteningsAgree ==
    \A f, g, s, t : \A n, m \in Nat :
        /\ FlatTo(f, s, n) /\ FlatTo(g, t, m) /\ 0 < n /\ n <= m
        /\ \A i \in 1 .. n : t[i] = s[i]
        => g[n] = f[n]
<1> SUFFICES ASSUME NEW f, NEW g, NEW s, NEW t,
                    NEW n \in Nat, NEW m \in Nat,
                    FlatTo(f, s, n), FlatTo(g, t, m), 0 < n, n <= m,
                    \A i \in 1 .. n : t[i] = s[i]
             PROVE  g[n] = f[n]
  OBVIOUS
<1>f. \A i \in 1 .. n : f[i] = IF i = 1 THEN s[i] ELSE f[i - 1] \o s[i]
  BY DEF FlatTo
<1>g. \A i \in 1 .. m : g[i] = IF i = 1 THEN t[i] ELSE g[i - 1] \o t[i]
  BY DEF FlatTo
<1> PICK T : T = {k \in Nat : k + 1 \in 1 .. n => g[k + 1] = f[k + 1]}
  OBVIOUS
<1>1. 0 \in T
  BY <1>f, <1>g
<1>2. ASSUME NEW k \in Nat, k \in T
      PROVE  k + 1 \in T
  <2> SUFFICES ASSUME (k + 1) + 1 \in 1 .. n
               PROVE  g[(k + 1) + 1] = f[(k + 1) + 1]
    OBVIOUS
  <2>i. PICK i \in 1 .. n : i = (k + 1) + 1
    OBVIOUS
  <2>1. i # 1 /\ i - 1 = k + 1 /\ k + 1 \in 1 .. n /\ i \in 1 .. m
    BY <2>i
  <2>2. g[k + 1] = f[k + 1]
    BY <1>2, <2>1
  <2>3. f[i] = f[i - 1] \o s[i]
    BY <1>f, <2>1
  <2>4. g[i] = g[i - 1] \o t[i]
    BY <1>g, <2>1
  <2> QED
    BY <2>i, <2>1, <2>2, <2>3, <2>4
<1>3. n - 1 \in T
  <2>1. n - 1 \in Nat
    OBVIOUS
  <2> QED
    BY <1>1, <1>2, <2>1, NatSetInduction
<1> QED
  BY <1>3

LEMMA FlattenIsFlattening ==
    \A S : \A seqs \in Seq(S) : Len(seqs) > 0 =>
        \E f : FlatTo(f, seqs, Len(seqs)) /\ FlattenSeq(seqs) = f[Len(seqs)]
<1> SUFFICES ASSUME NEW S, NEW seqs \in Seq(S), Len(seqs) > 0
             PROVE  \E f : FlatTo(f, seqs, Len(seqs)) /\ FlattenSeq(seqs) = f[Len(seqs)]
  OBVIOUS
<1>1. Len(seqs) \in Nat /\ Len(seqs) # 0
  BY LenProperties
<1>2. \E f : f = [i \in 1 .. Len(seqs) |->
                     IF i = 1 THEN seqs[i] ELSE f[i - 1] \o seqs[i]]
  <2>1. PICK f : FlatTo(f, seqs, Len(seqs))
    BY <1>1, FlatteningExists
  <2> QED
    BY <2>1 DEF FlatTo
<1> PICK f : f = CHOOSE h : h = [i \in 1 .. Len(seqs) |->
                     IF i = 1 THEN seqs[i] ELSE h[i - 1] \o seqs[i]]
  OBVIOUS
<1>3. f = [i \in 1 .. Len(seqs) |->
                     IF i = 1 THEN seqs[i] ELSE f[i - 1] \o seqs[i]]
  BY <1>2
<1>4. FlattenSeq(seqs) = f[Len(seqs)]
  BY <1>1 DEF FlattenSeq
<1>5. FlatTo(f, seqs, Len(seqs))
  BY <1>3 DEF FlatTo
<1> QED
  BY <1>4, <1>5

\* Nothing flattened is nothing.
LEMMA FlattenNone == FlattenSeq(<<>>) = <<>>
  BY DEF FlattenSeq

\* One more sequence comes behind the others.
LEMMA FlattenNext ==
    \A S : \A seqs \in Seq(Seq(S)), s \in Seq(S) :
        FlattenSeq(Append(seqs, s)) = FlattenSeq(seqs) \o s
<1> SUFFICES ASSUME NEW S, NEW seqs \in Seq(Seq(S)), NEW s \in Seq(S)
             PROVE  FlattenSeq(Append(seqs, s)) = FlattenSeq(seqs) \o s
  OBVIOUS
<1>t. PICK t : t = Append(seqs, s)
  OBVIOUS
<1>n. PICK n \in Nat : n = Len(seqs)
  BY LenProperties
<1>1. /\ t \in Seq(Seq(S)) /\ Len(t) = n + 1 /\ t[n + 1] = s
      /\ \A i \in 1 .. n : t[i] = seqs[i]
  BY <1>t, <1>n
<1>2. PICK g : FlatTo(g, t, n + 1) /\ FlattenSeq(t) = g[n + 1]
  <2>1. Len(t) > 0
    BY <1>1
  <2>2. PICK g : FlatTo(g, t, Len(t)) /\ FlattenSeq(t) = g[Len(t)]
    BY <1>1, <2>1, FlattenIsFlattening
  <2> QED
    BY <1>1, <2>2, Zenon
<1>3. g[n + 1] = IF n + 1 = 1 THEN t[n + 1] ELSE g[(n + 1) - 1] \o t[n + 1]
  <2>1. n + 1 \in 1 .. n + 1
    OBVIOUS
  <2> QED
    BY <1>2, <2>1 DEF FlatTo
<1>4. CASE n = 0
  <2>1. seqs = <<>>
    BY <1>n, <1>4, EmptySeq
  <2>2. FlattenSeq(t) = s
    BY <1>1, <1>2, <1>3, <1>4
  <2>3. <<>> \o s = s
    OBVIOUS
  <2> QED
    BY <1>t, <2>1, <2>2, <2>3, FlattenNone
<1>5. CASE n # 0
  <2>1. PICK f : FlatTo(f, seqs, n) /\ FlattenSeq(seqs) = f[n]
    <3>1. Len(seqs) > 0
      BY <1>n, <1>5
    <3>2. PICK f : FlatTo(f, seqs, Len(seqs)) /\ FlattenSeq(seqs) = f[Len(seqs)]
      BY <3>1, FlattenIsFlattening
    <3> QED
      BY <1>n, <3>2, Zenon
  <2>2. g[n] = f[n]
    <3>1. \A i \in 1 .. n : t[i] = seqs[i]
      BY <1>1
    <3>2. PICK m \in Nat : m = n + 1 /\ 0 < n /\ n <= m
      BY <1>5
    <3>3. FlatTo(g, t, m)
      BY <1>2, <3>2, Zenon
    <3> QED
      BY <2>1, <3>1, <3>2, <3>3, FlatteningsAgree
  <2>3. g[n + 1] = g[n] \o t[n + 1]
    <3>1. n + 1 # 1 /\ (n + 1) - 1 = n
      BY <1>5
    <3> QED
      BY <1>3, <3>1, Zenon
  <2> QED
    BY <1>1, <1>2, <1>t, <2>1, <2>2, <2>3
<1> QED
  BY <1>4, <1>5

\* What is flattened is a sequence of the same elements.
LEMMA FlattenType ==
    \A S : \A seqs \in Seq(Seq(S)) : FlattenSeq(seqs) \in Seq(S)
<1> SUFFICES ASSUME NEW S
             PROVE  \A seqs \in Seq(Seq(S)) : FlattenSeq(seqs) \in Seq(S)
  OBVIOUS
<1> PICK T : T = {seqs \in Seq(Seq(S)) : FlattenSeq(seqs) \in Seq(S)}
  OBVIOUS
<1>1. <<>> \in T
  BY FlattenNone, EmptySeq
<1>2. ASSUME NEW seqs \in Seq(Seq(S)), NEW s \in Seq(S), seqs \in T
      PROVE  Append(seqs, s) \in T
  BY <1>2, FlattenNext, AppendProperties, ConcatProperties
<1> QED
  BY <1>1, <1>2, SeqSetInduction

\* Sequences behind others are flattened behind them.
LEMMA FlattenConcat ==
    \A S : \A s, t \in Seq(Seq(S)) : FlattenSeq(s \o t) = FlattenSeq(s) \o FlattenSeq(t)
<1> SUFFICES ASSUME NEW S, NEW s \in Seq(Seq(S))
             PROVE  \A t \in Seq(Seq(S)) : FlattenSeq(s \o t) = FlattenSeq(s) \o FlattenSeq(t)
  OBVIOUS
<1> PICK T : T = {t \in Seq(Seq(S)) : FlattenSeq(s \o t) = FlattenSeq(s) \o FlattenSeq(t)}
  OBVIOUS
<1>1. <<>> \in T
  BY FlattenNone, FlattenType, ConcatEmptySeq, EmptySeq
<1>2. ASSUME NEW t \in Seq(Seq(S)), NEW e \in Seq(S), t \in T
      PROVE  Append(t, e) \in T
  <2>1. s \o Append(t, e) = Append(s \o t, e) /\ s \o t \in Seq(Seq(S))
    BY AppendIsConcat, ConcatAssociative, ConcatProperties
  <2>2. FlattenSeq(Append(s \o t, e)) = FlattenSeq(s \o t) \o e
    BY <2>1, FlattenNext
  <2>3. FlattenSeq(Append(t, e)) = FlattenSeq(t) \o e
    BY FlattenNext
  <2>4. FlattenSeq(s \o t) = FlattenSeq(s) \o FlattenSeq(t)
    BY <1>2
  <2>5. /\ FlattenSeq(s) \in Seq(S)
        /\ FlattenSeq(t) \in Seq(S)
    BY FlattenType
  <2>6. (FlattenSeq(s) \o FlattenSeq(t)) \o e = FlattenSeq(s) \o (FlattenSeq(t) \o e)
    BY <2>5, ConcatAssociative
  <2>7. Append(t, e) \in Seq(Seq(S))
    BY AppendProperties
  <2> QED
    BY <2>1, <2>2, <2>3, <2>4, <2>6, <2>7
<1> QED
  BY <1>1, <1>2, SeqSetInduction
=============================================================================
