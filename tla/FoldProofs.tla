----------------------------- MODULE FoldProofs ------------------------------
(***************************************************************************)
(* Proofs about sequences and folds, which the proofs about paths and      *)
(* about configurations rest on: the smallest and the largest number of a  *)
(* set, induction over numbers and over sequences for the members of a set *)
(* (Counting, Appending), folds that are followed along the prefixes of a  *)
(* sequence (FoldRuns), and laws of concatenation.                         *)
(***************************************************************************)
EXTENDS Integers, SequencesExt, FiniteSetsExt, SequenceTheorems, WellFoundedInduction, TLAPS

-----------------------------------------------------------------------------
(* Numbers, and sequences that grow element by element.                    *)
LEMMA SmallestNumber ==
    ASSUME NEW S \in SUBSET Nat, S # {}
    PROVE  Min(S) \in S /\ \A y \in S : Min(S) <= y
<1>1. PICK x \in S : \A y \in S : <<y, x>> \notin OpToRel(<, Nat)
  BY NatLessThanWellFounded, WFMin
<1>2. \A y \in S : ~(y < x)
  BY <1>1 DEF OpToRel
<1>3. \A y \in S : x <= y
  BY <1>2
<1> QED
  BY <1>3 DEF Min

(* A bounded set of numbers has a largest one.                              *)
LEMMA LargestNumber ==
    ASSUME NEW bound \in Nat, NEW S \in SUBSET (0..bound), S # {}
    PROVE  Max(S) \in S /\ \A y \in S : y <= Max(S)
<1> DEFINE T == {bound - y : y \in S}
<1>1. \A y \in S : y \in 0..bound /\ bound - y \in Nat
  OBVIOUS
<1>2. T \in SUBSET Nat /\ T # {}
  BY <1>1
<1>3. Min(T) \in T /\ \A t \in T : Min(T) <= t
  BY <1>2, SmallestNumber
<1>4. PICK y \in S : Min(T) = bound - y
  BY <1>3
<1>5. \A z \in S : bound - y <= bound - z
  BY <1>3, <1>4
<1>6. \A z \in S : y >= z
  BY <1>1, <1>5
<1>7. Max(S) \in S /\ \A z \in S : Max(S) >= z
  BY <1>6 DEF Max
<1> QED
  BY <1>1, <1>7

-----------------------------------------------------------------------------
(* Induction over numbers and over sequences, for the members of a set.    *)
LEMMA Counting ==
    ASSUME NEW n \in Nat, NEW S, 0 \in S,
           \A k \in 1..n : k - 1 \in S => k \in S
    PROVE  0..n \subseteq S
<1> DEFINE T == {k \in 0..n : k \notin S}
<1> SUFFICES ASSUME T # {} PROVE FALSE
  OBVIOUS
<1>1. T \in SUBSET Nat
  OBVIOUS
<1>2. Min(T) \in T /\ \A y \in T : Min(T) <= y
  <2> HIDE DEF T
  <2> QED
    BY <1>1, SmallestNumber
<1> DEFINE m == Min(T)
<1>3. m \in 0..n /\ m \notin S
  BY <1>2
<1>4. \A y \in 0..n : y \in S \/ m <= y
  BY <1>2
<1> HIDE DEF m, T
<1>5. m # 0
  BY <1>3
<1>6. m \in 1..n /\ m - 1 \in 0..n /\ ~(m <= m - 1)
  BY <1>3, <1>5
<1>7. m - 1 \in S
  BY <1>4, <1>6
<1> QED
  BY <1>3, <1>6, <1>7

(* What holds of the empty sequence and goes on with every element, holds.  *)
LEMMA Appending ==
    ASSUME NEW Y, NEW S, <<>> \in S,
           \A t \in Seq(Y) : \A c \in Y : t \in S => Append(t, c) \in S
    PROVE  Seq(Y) \subseteq S
<1> SUFFICES ASSUME NEW u \in Seq(Y) PROVE u \in S
  OBVIOUS
<1> DEFINE n == Len(u)
           K == {k \in 0..n : SubSeq(u, 1, k) \in S}
<1>1. n \in Nat
  OBVIOUS
<1>2. 0 \in K
  <2>1. SubSeq(u, 1, 0) = <<>>
    BY SubSeqEmpty
  <2>2. SubSeq(u, 1, 0) \in S
    BY <2>1, Zenon
  <2>3. 0 \in 0..n
    BY <1>1
  <2> QED
    BY <2>2, <2>3
<1>3. ASSUME NEW k \in 1..n, k - 1 \in K PROVE k \in K
  <2> DEFINE t == SubSeq(u, 1, k - 1)
  <2>1. k \in 1..Len(u) /\ k \in 1..k /\ 1 \in Int /\ k - 1 \in Int /\ 1 \in 1..Len(u)
        /\ \A i \in 1..k - 1 : i \in 1..Len(u)
    OBVIOUS
  <2>2. u[k] \in Y /\ \A i \in 1..k - 1 : u[i] \in Y
    BY <2>1, ElementOfSeq
  <2>3. t \in Seq(Y) /\ t \in S
    BY <1>3, <2>1, <2>2, SubSeqProperties
  <2>4. SubSeq(u, 1, k) = t \o <<u[k]>>
    BY <2>1, SubSeqRecursiveSecond
  <2> HIDE DEF t
  <2>5. SubSeq(u, 1, k) = Append(t, u[k])
    BY <2>2, <2>3, <2>4, AppendIsConcat
  <2>6. SubSeq(u, 1, k) \in S
    BY <2>2, <2>3, <2>5
  <2> QED
    BY <2>6
<1> HIDE DEF K
<1>4. 0..n \subseteq K
  BY <1>1, <1>2, <1>3, Counting
<1>5. n \in K /\ SubSeq(u, 1, n) = u
  BY <1>1, <1>4, SubSeqFull
<1> QED
  BY <1>5 DEF K

-----------------------------------------------------------------------------
(* Folds.  The step of a fold is a function here, from what is done and    *)
(* what comes next to what is done then, and Run is the value that the     *)
(* steps along a sequence lead to.                                         *)
Chain(f, op, base, seq, n) ==
    f[0] = base /\ \A i \in 1..n : f[i] = op[<<f[i - 1], seq[i]>>]
Run(op, base, seq) == (CHOOSE f : Chain(f, op, base, seq, Len(seq)))[Len(seq)]

(* The states that an operator passes through along a sequence.             *)
LEMMA ChainsExist ==
    ASSUME NEW X, NEW Y, NEW base \in X, NEW op \in [X \X Y -> X],
           NEW n \in Nat, NEW seq, \A i \in 1..n : seq[i] \in Y
    PROVE  \E f \in [0..n -> X] : Chain(f, op, base, seq, n)
<1> DEFINE S == {k \in 0..n : \E f \in [0..k -> X] : Chain(f, op, base, seq, k)}
<1>1. 0 \in S
  <2> DEFINE f == [i \in 0..0 |-> base]
  <2>1. f \in [0..0 -> X] /\ Chain(f, op, base, seq, 0)
    BY DEF Chain
  <2> QED
    BY <2>1
<1>2. ASSUME NEW k \in 1..n, k - 1 \in S PROVE k \in S
  <2>1. PICK f \in [0..k - 1 -> X] : Chain(f, op, base, seq, k - 1)
    BY <1>2
  <2> DEFINE g == [i \in 0..k |-> IF i = k THEN op[<<f[k - 1], seq[k]>>] ELSE f[i]]
  <2>2. k - 1 \in 0..k - 1 /\ f[k - 1] \in X /\ seq[k] \in Y
    OBVIOUS
  <2>3. op[<<f[k - 1], seq[k]>>] \in X
    BY <2>2
  <2>4. g \in [0..k -> X]
    BY <2>3
  <2>5. g[0] = base
    BY <2>1 DEF Chain
  <2>6. ASSUME NEW i \in 1..k PROVE g[i] = op[<<g[i - 1], seq[i]>>]
    <3>1. i - 1 \in 0..k /\ i - 1 # k /\ i \in 0..k
      OBVIOUS
    <3>2. g[i - 1] = f[i - 1]
      BY <3>1
    <3>3. CASE i = k
      BY <3>1, <3>2, <3>3
    <3>4. CASE i # k
      <4>1. i \in 1..k - 1
        BY <3>4
      <4> QED
        BY <2>1, <3>1, <3>2, <3>4, <4>1 DEF Chain
    <3> QED
      BY <3>3, <3>4
  <2>7. Chain(g, op, base, seq, k)
    BY <2>5, <2>6 DEF Chain
  <2> QED
    BY <2>4, <2>7
<1> HIDE DEF S
<1>3. 0..n \subseteq S
  BY <1>1, <1>2, Counting
<1>4. n \in S
  BY <1>3
<1> QED
  BY <1>4 DEF S

(* Two chains along sequences that begin in the same way.                  *)
LEMMA ChainsAgree ==
    ASSUME NEW op, NEW base, NEW n \in Nat, NEW s, NEW t, \A i \in 1..n : s[i] = t[i],
           NEW f, Chain(f, op, base, s, n), NEW g, Chain(g, op, base, t, n)
    PROVE  f[n] = g[n]
<1> DEFINE S == {k \in 0..n : f[k] = g[k]}
<1>1. 0 \in S
  BY DEF Chain
<1>2. ASSUME NEW k \in 1..n, k - 1 \in S PROVE k \in S
  <2>1. f[k] = op[<<f[k - 1], s[k]>>] /\ g[k] = op[<<g[k - 1], t[k]>>]
    BY DEF Chain
  <2>2. f[k - 1] = g[k - 1] /\ s[k] = t[k] /\ k \in 0..n
    BY <1>2
  <2> QED
    BY <2>1, <2>2
<1> HIDE DEF S
<1>3. 0..n \subseteq S
  BY <1>1, <1>2, Counting
<1>4. n \in S
  BY <1>3
<1> QED
  BY <1>4 DEF S

(* Run is the last state of any such chain.                                 *)
LEMMA RunIs ==
    ASSUME NEW op, NEW base, NEW seq, Len(seq) \in Nat,
           NEW f, Chain(f, op, base, seq, Len(seq))
    PROVE  Run(op, base, seq) = f[Len(seq)]
<1> DEFINE g == CHOOSE h : Chain(h, op, base, seq, Len(seq))
<1>1. Chain(g, op, base, seq, Len(seq))
  OBVIOUS
<1>2. Run(op, base, seq) = g[Len(seq)]
  BY DEF Run
<1> HIDE DEF g
<1>3. f[Len(seq)] = g[Len(seq)]
  BY <1>1, ChainsAgree
<1> QED
  BY <1>2, <1>3

LEMMA RunEmpty ==
    ASSUME NEW op, NEW base
    PROVE  Run(op, base, <<>>) = base
<1> DEFINE f == [i \in 0..0 |-> base]
<1>1. Chain(f, op, base, <<>>, 0) /\ Len(<<>>) = 0 /\ f[0] = base
  BY DEF Chain
<1> HIDE DEF f
<1>2. Run(op, base, <<>>) = f[0]
  BY <1>1, RunIs
<1> QED
  BY <1>1, <1>2

LEMMA RunIn ==
    ASSUME NEW X, NEW Y, NEW base \in X, NEW op \in [X \X Y -> X], NEW t \in Seq(Y)
    PROVE  Run(op, base, t) \in X
<1>1. Len(t) \in Nat /\ \A i \in 1..Len(t) : t[i] \in Y
  BY ElementOfSeq
<1>2. PICK f \in [0..Len(t) -> X] : Chain(f, op, base, t, Len(t))
  BY <1>1, ChainsExist
<1>3. Run(op, base, t) = f[Len(t)]
  BY <1>1, <1>2, RunIs
<1> QED
  BY <1>1, <1>2, <1>3

Appended(op, base, t, c) == Run(op, base, Append(t, c)) = op[<<Run(op, base, t), c>>]

(* One element more is one step more.                                       *)
LEMMA RunAppend ==
    ASSUME NEW X, NEW Y, NEW base \in X, NEW op \in [X \X Y -> X],
           NEW t \in Seq(Y), NEW c \in Y
    PROVE  Appended(op, base, t, c)
<1> DEFINE n == Len(t)
           u == Append(t, c)
<1>1. /\ u \in Seq(Y) /\ Len(u) = n + 1 /\ u[n + 1] = c /\ n \in Nat
      /\ \A i \in 1..n : u[i] = t[i]
  BY AppendProperties
<1>2. \A i \in 1..n + 1 : u[i] \in Y
  BY <1>1, ElementOfSeq
<1> HIDE DEF u
<1>3. PICK f \in [0..n + 1 -> X] : Chain(f, op, base, u, n + 1)
  <2>1. n + 1 \in Nat
    BY <1>1
  <2> QED
    BY <1>2, <2>1, ChainsExist
<1>4. Run(op, base, u) = f[n + 1]
  BY <1>1, <1>3, RunIs
<1>5. Chain(f, op, base, t, n)
  <2>1. ASSUME NEW i \in 1..n PROVE f[i] = op[<<f[i - 1], t[i]>>]
    <3>1. i \in 1..n + 1 /\ u[i] = t[i]
      BY <1>1
    <3> QED
      BY <1>3, <3>1 DEF Chain
  <2> QED
    BY <1>3, <2>1 DEF Chain
<1>6. Run(op, base, t) = f[n]
  BY <1>1, <1>5, RunIs
<1>7. f[n + 1] = op[<<f[n], c>>]
  <2>1. n + 1 \in 1..n + 1 /\ (n + 1) - 1 = n
    BY <1>1
  <2> QED
    BY <1>1, <1>3, <2>1 DEF Chain
<1> QED
  BY <1>4, <1>6, <1>7 DEF u, Appended

(* The folds of the library go over the sets of the places of a sequence,  *)
(* and take the last place away.  A function that does so exists.          *)
Folded(it, op, base, seq) ==
    it = [s \in SUBSET DOMAIN seq |->
             IF s = {} THEN base ELSE op[<<it[s \ {Max(s)}], seq[Max(s)]>>]]

(* FoldLeft, which goes through sets of places, is well defined.            *)
LEMMA FoldsExist ==
    ASSUME NEW X, NEW Y, NEW base \in X, NEW op \in [X \X Y -> X], NEW seq \in Seq(Y)
    PROVE  \E it \in [SUBSET DOMAIN seq -> X] : Folded(it, op, base, seq)
<1> DEFINE n == Len(seq)
           Part(it, k) ==
              \A s \in SUBSET (1..k) :
                 it[s] = IF s = {} THEN base ELSE op[<<it[s \ {Max(s)}], seq[Max(s)]>>]
           S == {k \in 0..n : \E it \in [SUBSET (1..k) -> X] : Part(it, k)}
<1>1. /\ n \in Nat /\ DOMAIN seq = 1..n
      /\ \A i \in 1..n : seq[i] \in Y
  BY LenProperties, ElementOfSeq
<1>2. 0 \in S
  <2> DEFINE it == [s \in SUBSET (1..0) |-> base]
  <2>1. it \in [SUBSET (1..0) -> X]
    OBVIOUS
  <2>2. Part(it, 0)
    <3>1. \A s \in SUBSET (1..0) : s = {} /\ it[s] = base
      OBVIOUS
    <3> HIDE DEF it
    <3> QED
      BY <3>1
  <2>3. 0 \in 0..n
    BY <1>1
  <2> HIDE DEF Part, it
  <2> QED
    BY <2>1, <2>2, <2>3, Zenon
<1>3. ASSUME NEW k \in 1..n, k - 1 \in S PROVE k \in S
  <2>1. PICK f \in [SUBSET (1..k - 1) -> X] : Part(f, k - 1)
    BY <1>3
  <2> DEFINE it == [s \in SUBSET (1..k) |->
                       IF k \in s THEN op[<<f[s \ {k}], seq[k]>>] ELSE f[s]]
  <2>2. \A s \in SUBSET (1..k) :
           /\ s \ {k} \in SUBSET (1..k - 1)
           /\ k \notin s => s \in SUBSET (1..k - 1) /\ s \in SUBSET (1..k)
    BY <1>1
  <2>3. it \in [SUBSET (1..k) -> X]
    <3>1. ASSUME NEW s \in SUBSET (1..k) PROVE it[s] \in X
      <4>1. f[s \ {k}] \in X /\ seq[k] \in Y /\ (k \notin s => f[s] \in X)
        BY <1>1, <2>2
      <4> QED
        BY <4>1
    <3> QED
      BY <3>1
  <2>4. ASSUME NEW s \in SUBSET (1..k)
        PROVE  it[s] = IF s = {} THEN base ELSE op[<<it[s \ {Max(s)}], seq[Max(s)]>>]
    <3>1. CASE k \in s
      <4>1. Max(s) = k
        <5>1. s \in SUBSET (0..k) /\ s # {} /\ k \in Nat
          BY <1>1, <3>1
        <5>2. Max(s) \in s /\ \A y \in s : y <= Max(s)
          BY <5>1, LargestNumber
        <5>3. Max(s) \in 1..k /\ k <= Max(s)
          BY <3>1, <5>2
        <5> QED
          BY <5>3
      <4>2. s \ {k} \in SUBSET (1..k) /\ k \notin s \ {k}
        BY <2>2
      <4>3. it[s \ {k}] = f[s \ {k}] /\ it[s] = op[<<f[s \ {k}], seq[k]>>]
        BY <3>1, <4>2
      <4> HIDE DEF it
      <4> QED
        BY <3>1, <4>1, <4>3
    <3>2. CASE k \notin s
      <4>1. s \in SUBSET (1..k - 1) /\ it[s] = f[s]
        BY <2>2, <3>2
      <4>2. s \ {Max(s)} \in SUBSET (1..k) /\ k \notin s \ {Max(s)}
        BY <3>2
      <4>3. it[s \ {Max(s)}] = f[s \ {Max(s)}]
        BY <4>2
      <4>4. f[s] = IF s = {} THEN base ELSE op[<<f[s \ {Max(s)}], seq[Max(s)]>>]
        BY <2>1, <4>1
      <4> HIDE DEF it
      <4> QED
        BY <4>1, <4>3, <4>4
    <3> QED
      BY <3>1, <3>2
  <2>5. Part(it, k)
    BY <2>4
  <2>6. k \in 0..n
    BY <1>1
  <2> HIDE DEF Part, it
  <2> QED
    BY <2>3, <2>5, <2>6, Zenon
<1> HIDE DEF S
<1>4. 0..n \subseteq S
  BY <1>1, <1>2, <1>3, Counting
<1>5. n \in S
  BY <1>1, <1>4
<1>6. \E it \in [SUBSET (1..n) -> X] : Part(it, n)
  BY <1>5 DEF S
<1>7. PICK it \in [SUBSET (1..n) -> X] : Part(it, n)
  BY <1>6
<1>8. Folded(it, op, base, seq)
  BY <1>1, <1>7 DEF Folded
<1> QED
  BY <1>1, <1>7, <1>8

LEMMA PlaceOfMax ==
    ASSUME NEW Y, NEW seq \in Seq(Y), NEW s \in SUBSET DOMAIN seq, s # {}
    PROVE  seq[Max(s)] \in Y
<1>1. DOMAIN seq = 1..Len(seq) /\ Len(seq) \in Nat
  BY LenProperties
<1>2. s \in SUBSET (0..Len(seq))
  BY <1>1
<1>3. Max(s) \in s
  BY <1>1, <1>2, LargestNumber
<1>4. Max(s) \in 1..Len(seq)
  BY <1>1, <1>3
<1> QED
  BY <1>4, ElementOfSeq

LEMMA MaxOfSegment ==
    ASSUME NEW Y, NEW seq \in Seq(Y), NEW k \in 1..Len(seq)
    PROVE  /\ 1..k \in SUBSET DOMAIN seq /\ Max(1..k) = k /\ (1..k) \ {k} = 1..k - 1
           /\ 1..k # {} /\ seq[k] \in Y
<1>1. DOMAIN seq = 1..Len(seq) /\ Len(seq) \in Nat /\ seq[k] \in Y
  BY LenProperties, ElementOfSeq
<1>2. 1..k \in SUBSET (0..k) /\ k \in 1..k /\ k \in Nat
  BY <1>1
<1>3. Max(1..k) \in 1..k /\ \A y \in 1..k : y <= Max(1..k)
  BY <1>2, LargestNumber
<1>4. Max(1..k) = k
  BY <1>2, <1>3
<1>5. 1..k \in SUBSET (1..Len(seq))
  BY <1>1, <1>2
<1>6. 1..k # {}
  BY <1>2
<1>7. (1..k) \ {k} = 1..k - 1
  <2> SUFFICES ASSUME NEW x PROVE x \in (1..k) \ {k} <=> x \in 1..k - 1
    OBVIOUS
  <2> QED
    BY <1>2
<1> QED
  BY <1>1, <1>4, <1>5, <1>6, <1>7

(* What such a function leads to is what the steps lead to.                *)
Goes(it, X, op, base, seq) ==
    /\ it[{}] = base
    /\ \A k \in 1..Len(seq) :
          it[1..k - 1] \in X => it[1..k] = op[<<it[1..k - 1], seq[k]>>]
LeadsTo(it, op, base, seq) == it[DOMAIN seq] = Run(op, base, seq)

(* Along the prefixes of a sequence, the fold takes the steps of Run.       *)
LEMMA FoldRuns ==
    ASSUME NEW X, NEW Y, NEW base \in X, NEW op \in [X \X Y -> X], NEW seq \in Seq(Y),
           NEW it, Goes(it, X, op, base, seq)
    PROVE  LeadsTo(it, op, base, seq)
<1> DEFINE n == Len(seq)
           f == [k \in 0..n |-> it[1..k]]
           S == {k \in 0..n : it[1..k] \in X}
<1>1. n \in Nat /\ DOMAIN seq = 1..n /\ (\A i \in 1..n : seq[i] \in Y) /\ 1..0 = {}
  BY LenProperties, ElementOfSeq
<1>2. 0 \in S
  BY <1>1 DEF Goes
<1>3. ASSUME NEW k \in 1..n, k - 1 \in S PROVE k \in S
  <2>1. it[1..k] = op[<<it[1..k - 1], seq[k]>>] /\ it[1..k - 1] \in X /\ seq[k] \in Y
        /\ k \in 0..n
    BY <1>1, <1>3 DEF Goes
  <2> QED
    BY <2>1
<1> HIDE DEF S
<1>4. 0..n \subseteq S
  BY <1>1, <1>2, <1>3, Counting
<1>5. f[0] = base
  BY <1>1 DEF Goes
<1>6. ASSUME NEW k \in 1..n PROVE f[k] = op[<<f[k - 1], seq[k]>>]
  <2>1. k - 1 \in 0..n /\ k \in 0..n
    BY <1>1
  <2>2. it[1..k - 1] \in X
    BY <1>4, <2>1 DEF S
  <2> QED
    BY <2>1, <2>2 DEF Goes
<1>7. f[n] = it[1..n]
  BY <1>1
<1> HIDE DEF f
<1>8. Chain(f, op, base, seq, n)
  BY <1>5, <1>6 DEF Chain
<1>9. Run(op, base, seq) = f[n]
  BY <1>1, <1>8, RunIs
<1> QED
  BY <1>1, <1>7, <1>9 DEF LeadsTo

-----------------------------------------------------------------------------
(* Texts put together, piece by piece.                                     *)
(* A sequence is its front and its last element.                            *)
LEMMA FrontAndLast ==
    ASSUME NEW Y, NEW s \in Seq(Y), s # <<>>
    PROVE  /\ Front(s) \in Seq(Y) /\ Last(s) \in Y /\ Len(Front(s)) = Len(s) - 1
           /\ s = Append(Front(s), Last(s))
           /\ \A i \in 1..Len(s) - 1 : Front(s)[i] = s[i]
<1>1. Len(s) \in Nat \ {0} /\ \A i \in 1..Len(s) : s[i] \in Y
  BY EmptySeq, ElementOfSeq
<1>2. Len(s) - 1 \in Int /\ 1 \in Int /\ Len(s) \in 1..Len(s) /\ 1 \in 1..Len(s)
      /\ \A i \in 1..Len(s) - 1 : i \in 1..Len(s)
  BY <1>1
<1>3. /\ Front(s) \in Seq(Y) /\ Last(s) \in Y /\ Len(Front(s)) = Len(s) - 1
      /\ \A i \in 1..Len(s) - 1 : Front(s)[i] = s[i]
  <2> DEFINE n == Len(s) - 1
  <2>1. n \in Int /\ 1 \in Int /\ \A i \in 1..n : s[i] \in Y
    BY <1>1, <1>2
  <2>2. /\ SubSeq(s, 1, n) \in Seq(Y)
        /\ Len(SubSeq(s, 1, n)) = IF 1 <= n THEN n - 1 + 1 ELSE 0
        /\ \A i \in 1..n - 1 + 1 : SubSeq(s, 1, n)[i] = s[1 + i - 1]
    BY <2>1, SubSeqProperties
  <2>3. Front(s) = SubSeq(s, 1, n) /\ Last(s) = s[Len(s)]
    BY DEF Front, Last
  <2>4. n \in Nat /\ Last(s) \in Y
    BY <1>1, <1>2, <2>3
  <2> HIDE DEF n
  <2>5. Len(Front(s)) = n /\ \A i \in 1..n : Front(s)[i] = s[i]
    BY <2>2, <2>3, <2>4
  <2> QED
    BY <2>2, <2>3, <2>4, <2>5 DEF n
<1>4. s = Append(Front(s), Last(s))
  <2>1. SubSeq(s, 1, Len(s)) = Front(s) \o <<Last(s)>>
    BY <1>2, SubSeqRecursiveSecond DEF Front, Last
  <2>2. SubSeq(s, 1, Len(s)) = s
    BY SubSeqFull
  <2> QED
    BY <1>3, <2>1, <2>2, AppendIsConcat
<1> QED
  BY <1>3, <1>4

Grouped(a, b, c) == (a \o b) \o c = a \o (b \o c)

(* Laws of concatenation, in the forms that are needed below.               *)
LEMMA Grouping ==
    ASSUME NEW Y, NEW a \in Seq(Y), NEW b \in Seq(Y), NEW c \in Seq(Y)
    PROVE  Grouped(a, b, c)
BY ConcatAssociative, SMTT(30) DEF Grouped

LEMMA ConcatAppend ==
    ASSUME NEW Y, NEW a \in Seq(Y), NEW b \in Seq(Y), NEW c \in Y
    PROVE  a \o Append(b, c) = Append(a \o b, c)
<1>1. <<c>> \in Seq(Y) /\ a \o b \in Seq(Y)
  BY ConcatProperties
<1>2. Append(b, c) = b \o <<c>>
  BY AppendIsConcat
<1>3. Append(a \o b, c) = (a \o b) \o <<c>>
  BY <1>1, AppendIsConcat
<1>4. (a \o b) \o <<c>> = a \o (b \o <<c>>)
  BY <1>1, Grouping DEF Grouped
<1> QED
  BY <1>2, <1>3, <1>4

LEMMA AppendParts ==
    ASSUME NEW Y, NEW s \in Seq(Y), NEW c \in Y
    PROVE  /\ Append(s, c) \in Seq(Y) /\ Append(s, c) # <<>>
           /\ Front(Append(s, c)) = s /\ Last(Append(s, c)) = c
<1> DEFINE a == Append(s, c)
<1>1. a \in Seq(Y) /\ a # <<>>
  BY AppendProperties
<1> HIDE DEF a
<1>2. /\ Front(a) \in Seq(Y) /\ Last(a) \in Y
      /\ a = Append(Front(a), Last(a))
  BY <1>1, FrontAndLast
<1>3. Append(Front(a), Last(a)) = Append(s, c)
  BY <1>2 DEF a
<1>4. Front(a) = s /\ Last(a) = c
  BY <1>2, <1>3, AppendInjective
<1> QED
  BY <1>1, <1>4 DEF a

LEMMA ConcatParts ==
    ASSUME NEW Y, NEW a \in Seq(Y), NEW b \in Seq(Y), b # <<>>
    PROVE  /\ a \o b # <<>> /\ Front(a \o b) = a \o Front(b) /\ Last(a \o b) = Last(b)
<1>1. Front(b) \in Seq(Y) /\ Last(b) \in Y /\ b = Append(Front(b), Last(b))
  BY FrontAndLast
<1>2. a \o Append(Front(b), Last(b)) = Append(a \o Front(b), Last(b))
  BY <1>1, ConcatAppend
<1>3. a \o Front(b) \in Seq(Y)
  BY <1>1, ConcatProperties
<1>4. a \o b = Append(a \o Front(b), Last(b))
  BY <1>1, <1>2
<1> DEFINE w == a \o Front(b)
           x == Append(w, Last(b))
<1>5. w \in Seq(Y)
  BY <1>3
<1> HIDE DEF w
<1>6. x # <<>> /\ Front(x) = w /\ Last(x) = Last(b)
  BY <1>1, <1>5, AppendParts
<1> QED
  BY <1>4, <1>6 DEF w

LEMMA SubSeqOne ==
    ASSUME NEW Y, NEW s \in Seq(Y), NEW i \in 1..Len(s)
    PROVE  SubSeq(s, i, i) = <<s[i]>>
<1>1. i \in Int /\ s[i] \in Y /\ \A j \in i..i : s[j] \in Y
  BY ElementOfSeq
<1>2. /\ SubSeq(s, i, i) \in Seq(Y)
      /\ Len(SubSeq(s, i, i)) = IF i <= i THEN i - i + 1 ELSE 0
      /\ \A j \in 1..i - i + 1 : SubSeq(s, i, i)[j] = s[i + j - 1]
  BY <1>1, SubSeqProperties
<1> DEFINE t == SubSeq(s, i, i)
<1>3. t \in Seq(Y) /\ Len(t) = 1 /\ t[1] = s[i]
  BY <1>1, <1>2
<1> HIDE DEF t
<1>4. t = <<s[i]>>
  BY <1>1, <1>3
<1> QED
  BY <1>4 DEF t

LEMMA Singles ==
    ASSUME NEW Y, NEW c \in Y
    PROVE  /\ <<c>> \in Seq(Y) /\ <<c>> # <<>> /\ Append(<<>>, c) = <<c>>
           /\ Front(<<c>>) = <<>> /\ Last(<<c>>) = c
<1>1. <<>> \in Seq(Y)
  BY EmptySeq
<1>2. Append(<<>>, c) = <<c>>
  OBVIOUS
<1>3. /\ Append(<<>>, c) \in Seq(Y) /\ Append(<<>>, c) # <<>>
      /\ Front(Append(<<>>, c)) = <<>> /\ Last(Append(<<>>, c)) = c
  BY <1>1, AppendParts
<1> QED
  BY <1>2, <1>3

-----------------------------------------------------------------------------
(* Texts put together.                                                     *)
LEMMA FlattenGrows ==
    ASSUME NEW Y, NEW t \in Seq(Seq(Y))
    PROVE  /\ FlattenSeq(<<>>) = <<>> /\ FlattenSeq(t) \in Seq(Y)
           /\ \A c \in Seq(Y) : FlattenSeq(Append(t, c)) = FlattenSeq(t) \o c
<1> DEFINE X == Seq(Y)
           op == [p \in X \X X |-> p[1] \o p[2]]
           Flat(f, u) == f = [i \in 1..Len(u) |-> IF i = 1 THEN u[i] ELSE f[i - 1] \o u[i]]
           F(u) == CHOOSE f : Flat(f, u)
<1>1. <<>> \in X /\ op \in [X \X X -> X]
  BY EmptySeq, ConcatProperties
<1>2. ASSUME NEW u \in Seq(X) PROVE FlattenSeq(u) = Run(op, <<>>, u)
  <2>1. CASE u = <<>>
    <3>1. FlattenSeq(u) = <<>>
      BY <2>1 DEF FlattenSeq
    <3> QED
      BY <2>1, <3>1, RunEmpty
  <2>2. CASE u # <<>>
    <3> DEFINE n == Len(u)
    <3>1. n \in Nat \ {0} /\ \A i \in 1..n : u[i] \in X
      BY <2>2, EmptySeq, ElementOfSeq
    <3>2. FlattenSeq(u) = F(u)[n]
      <4>1. Len(u) # 0
        BY <3>1
      <4> QED
        BY <4>1, Zenon DEF FlattenSeq
    <3>3. PICK g \in [0..n -> X] : Chain(g, op, <<>>, u, n)
      BY <1>1, <3>1, ChainsExist
    <3> DEFINE h == [i \in 1..n |-> g[i]]
    <3>4. ASSUME NEW i \in 1..n PROVE h[i] = IF i = 1 THEN u[i] ELSE h[i - 1] \o u[i]
      <4>1. g[i] = op[<<g[i - 1], u[i]>>]
        BY <3>3 DEF Chain
      <4>2. i - 1 \in 0..n /\ g[i - 1] \in X /\ u[i] \in X
        <5>1. i - 1 \in 0..n
          BY <3>1
        <5> QED
          BY <3>1, <3>3, <5>1
      <4>3. g[i] = g[i - 1] \o u[i] /\ h[i] = g[i]
        BY <4>1, <4>2
      <4>4. CASE i = 1
        <5>1. g[i - 1] = <<>>
          BY <3>3, <4>4 DEF Chain
        <5> HIDE DEF h
        <5>2. <<>> \o u[i] = u[i]
          BY <4>2, ConcatEmptySeq
        <5> QED
          BY <4>3, <4>4, <5>1, <5>2
      <4>5. CASE i # 1
        <5>1. i - 1 \in 1..n
          BY <4>5
        <5>2. h[i - 1] = g[i - 1]
          BY <5>1
        <5> HIDE DEF h
        <5> QED
          BY <4>3, <4>5, <5>2
      <4> QED
        BY <4>4, <4>5
    <3>5. Flat(h, u)
      BY <3>4
    <3> HIDE DEF h, Flat
    <3>6. Flat(F(u), u)
      BY <3>5
    <3> DEFINE f == F(u)
               k == [i \in 0..n |-> IF i = 0 THEN <<>> ELSE f[i]]
    <3>7. \A i \in 1..n : f[i] = IF i = 1 THEN u[i] ELSE f[i - 1] \o u[i]
      BY <3>6 DEF Flat
    <3> HIDE DEF f
    <3> DEFINE S == {i \in 0..n : k[i] \in X}
    <3>8. ASSUME NEW i \in 1..n PROVE k[i] = k[i - 1] \o u[i]
      <4>1. i - 1 \in 0..n /\ i \in 0..n /\ i # 0
        BY <3>1
      <4>2. CASE i = 1
        <5>1. k[i - 1] = <<>> /\ k[i] = u[i] /\ u[i] \in X
          BY <3>1, <3>7, <4>1, <4>2
        <5> HIDE DEF k
        <5>2. <<>> \o u[i] = u[i]
          BY <5>1, ConcatEmptySeq
        <5> QED
          BY <5>1, <5>2
      <4>3. CASE i # 1
        <5>1. i - 1 # 0
          BY <4>3
        <5>2. k[i] = f[i] /\ k[i - 1] = f[i - 1]
          BY <4>1, <5>1
        <5> HIDE DEF k, X, op
        <5>3. f[i] = f[i - 1] \o u[i]
          BY <3>7, <4>3, Zenon
        <5> QED
          BY <5>2, <5>3
      <4> QED
        BY <4>2, <4>3
    <3>9. k[0] = <<>> /\ k[n] = f[n]
      <4>1. 0 \in 0..n /\ n \in 0..n /\ n # 0
        BY <3>1
      <4> QED
        BY <4>1
    <3> HIDE DEF k
    <3>10. 0 \in S
      <4>1. 0 \in 0..n /\ k[0] \in X
        BY <1>1, <3>1, <3>9
      <4> QED
        BY <4>1
    <3>11. ASSUME NEW i \in 1..n, i - 1 \in S PROVE i \in S
      <4>1. k[i - 1] \in X /\ u[i] \in X /\ i \in 0..n
        BY <3>1, <3>11
      <4>2. k[i - 1] \o u[i] \in X
        BY <4>1, ConcatProperties
      <4> QED
        BY <3>8, <4>1, <4>2
    <3> HIDE DEF S
    <3>12. 0..n \subseteq S
      BY <3>1, <3>10, <3>11, Counting
    <3>13. ASSUME NEW i \in 1..n PROVE k[i] = op[<<k[i - 1], u[i]>>]
      <4>1. i - 1 \in 0..n
        BY <3>1
      <4>2. k[i - 1] \in X /\ u[i] \in X
        BY <3>1, <3>12, <4>1 DEF S
      <4> QED
        BY <3>8, <4>2
    <3>14. Chain(k, op, <<>>, u, n)
      BY <3>9, <3>13 DEF Chain
    <3>15. Run(op, <<>>, u) = k[n]
      BY <3>1, <3>14, RunIs
    <3> QED
      BY <3>2, <3>9, <3>15 DEF f
  <2> QED
    BY <2>1, <2>2
<1>3. FlattenSeq(<<>>) = <<>>
  BY DEF FlattenSeq
<1>4. FlattenSeq(t) \in X
  <2> HIDE DEF op
  <2>1. Run(op, <<>>, t) \in X
    BY <1>1, RunIn
  <2> QED
    BY <1>2, <2>1
<1>5. ASSUME NEW c \in X PROVE FlattenSeq(Append(t, c)) = FlattenSeq(t) \o c
  <2>1. Append(t, c) \in Seq(X)
    BY AppendProperties
  <2>2. FlattenSeq(Append(t, c)) = op[<<FlattenSeq(t), c>>]
    <3> HIDE DEF op
    <3>1. FlattenSeq(Append(t, c)) = Run(op, <<>>, Append(t, c))
          /\ FlattenSeq(t) = Run(op, <<>>, t)
      BY <1>2, <2>1
    <3>2. Appended(op, <<>>, t, c)
      BY <1>1, RunAppend
    <3> QED
      BY <3>1, <3>2 DEF Appended
  <2> QED
    BY <1>4, <2>2
<1> QED
  BY <1>3, <1>4, <1>5
==============================================================================
