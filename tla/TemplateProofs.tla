---------------------------- MODULE TemplateProofs ----------------------------
(***************************************************************************)
(* Proofs about Template, for every operation, every call and every        *)
(* rounding of the floats: no value leaves its slot, and every parameter   *)
(* arrives in its slot.  A text is expanded token by token, so what it     *)
(* becomes is proved by induction on it; an induction rests on the least   *)
(* element of a set of naturals.                                           *)
(***************************************************************************)
EXTENDS Template, SequenceTheorems, WellFoundedInduction, TLAPS

----------------------------------------------------------------------------
\* Sequences.

\* A set of naturals that is not empty has a least element.
LEMMA Least == ASSUME NEW S, S \subseteq Nat, S # {} PROVE \E m \in S : \A k \in S : m <= k
<1> DEFINE R == OpToRel(<, Nat)
<1>1. IsWellFoundedOn(R, Nat)
  BY NatLessThanWellFounded
<1>2. R = {ss \in Nat \X Nat : ss[1] < ss[2]}
  BY DEF OpToRel
<1> HIDE DEF R
<1>3. PICK m \in S : \A y \in S : ~ (<<y, m>> \in R)
  BY <1>1, WFMin
<1>4. ASSUME NEW k \in S PROVE m <= k
  <2>1. <<k, m>> \notin R /\ k \in Nat /\ m \in Nat
    BY <1>3
  <2> QED BY <1>2, <2>1
<1> QED BY <1>3, <1>4

\* The concatenations of the first parts, one part longer at each step.
IsFlatten(f, seqs, n) ==
    f = [i \in 1..n |-> IF i = 1 THEN seqs[i] ELSE f[i - 1] \o seqs[i]]

\* The concatenations of the first parts exist, however many there are.
LEMMA FlattenExists ==
    ASSUME NEW seqs, NEW n \in Nat
    PROVE  \E f : IsFlatten(f, seqs, n)
<1> DEFINE Bad == {m \in Nat : ~ \E f : IsFlatten(f, seqs, m)}
<1> SUFFICES ASSUME Bad # {} PROVE FALSE
  OBVIOUS
<1>1. PICK m \in Bad : \A k \in Bad : m <= k
  <2> Bad \subseteq Nat
    OBVIOUS
  <2> HIDE DEF Bad
  <2> QED BY Least
<1>2. m # 0
  <2>1. IsFlatten([i \in 1..0 |-> 0], seqs, 0)
    BY DEF IsFlatten
  <2> QED BY <2>1
<1>3. PICK f : IsFlatten(f, seqs, m - 1)
  BY <1>1, <1>2
<1> DEFINE g == [i \in 1..m |->
             IF i = m THEN (IF m = 1 THEN seqs[1] ELSE f[m - 1] \o seqs[m]) ELSE f[i]]
<1>4. IsFlatten(g, seqs, m)
  <2>0. m \in Nat /\ m >= 1
    BY <1>2
  <2> SUFFICES ASSUME NEW i \in 1..m
               PROVE  g[i] = IF i = 1 THEN seqs[i] ELSE g[i - 1] \o seqs[i]
    BY DEF IsFlatten
  <2>1. CASE i = m
    BY <2>0, <2>1
  <2>2. CASE i # m
    <3>1. i \in 1..(m - 1) /\ g[i] = f[i] /\ (i # 1 => i - 1 \in 1..m /\ i - 1 # m)
      BY <2>0, <2>2
    <3>2. f[i] = IF i = 1 THEN seqs[i] ELSE f[i - 1] \o seqs[i]
      BY <1>3, <3>1 DEF IsFlatten
    <3> QED BY <3>1, <3>2
  <2> QED BY <2>1, <2>2
<1> QED BY <1>4

\* FlattenSeq is the last of the concatenations of the first parts.
LEMMA FlattenIsAFlatten ==
    ASSUME NEW seqs, Len(seqs) \in Nat, Len(seqs) # 0
    PROVE  \E f : IsFlatten(f, seqs, Len(seqs)) /\ FlattenSeq(seqs) = f[Len(seqs)]
<1> DEFINE flat == CHOOSE f : IsFlatten(f, seqs, Len(seqs))
<1>1. IsFlatten(flat, seqs, Len(seqs))
  BY FlattenExists
<1>2. FlattenSeq(seqs) = flat[Len(seqs)]
  BY DEF FlattenSeq, IsFlatten
<1> QED BY <1>1, <1>2

\* A step of the concatenation looks at no later part.
LEMMA FlattenIsUnique ==
    ASSUME NEW n \in Nat, NEW p, NEW q, NEW f, NEW g, IsFlatten(f, p, n), IsFlatten(g, q, n),
           \A k \in 1..n : p[k] = q[k]
    PROVE  \A k \in 1..n : f[k] = g[k]
<1> DEFINE Bad == {k \in 1..n : f[k] # g[k]}
<1> SUFFICES ASSUME Bad # {} PROVE FALSE
  OBVIOUS
<1>1. PICK k \in Bad : \A j \in Bad : k <= j
  <2>1. Bad \subseteq Nat
    OBVIOUS
  <2> HIDE DEF Bad
  <2> QED BY <2>1, Least
<1>2. /\ f[k] = IF k = 1 THEN p[k] ELSE f[k - 1] \o p[k]
      /\ g[k] = IF k = 1 THEN q[k] ELSE g[k - 1] \o q[k]
  BY <1>1 DEF IsFlatten
<1>3. k # 1 => k - 1 \in 1..n /\ f[k - 1] = g[k - 1]
  BY <1>1
<1> QED BY <1>1, <1>2, <1>3

\* A sequence with one element more at its end.
LEMMA ConcatOne ==
    ASSUME NEW U, NEW p \in Seq(U), NEW x \in U
    PROVE  /\ p \o <<x>> \in Seq(U) /\ Len(p \o <<x>>) = Len(p) + 1 /\ Len(p) \in Nat
           /\ (p \o <<x>>)[Len(p) + 1] = x
           /\ \A k \in 1..Len(p) : (p \o <<x>>)[k] = p[k]
<1>1. <<x>> \in Seq(U) /\ Len(<<x>>) = 1 /\ <<x>>[1] = x /\ Len(p) \in Nat
  OBVIOUS
<1>2. p \o <<x>> \in Seq(U) /\ Len(p \o <<x>>) = Len(p) + 1
  BY <1>1, ConcatProperties
<1>3. \A i \in 1..(Len(p) + 1) : (p \o <<x>>)[i] = IF i <= Len(p) THEN p[i] ELSE <<x>>[i - Len(p)]
  BY <1>1, ConcatProperties
<1>4. (p \o <<x>>)[Len(p) + 1] = x
  BY <1>1, <1>3
<1>5. \A k \in 1..Len(p) : (p \o <<x>>)[k] = p[k]
  BY <1>1, <1>3
<1> QED BY <1>1, <1>2, <1>4, <1>5

\* One part more at the end adds its text.
LEMMA FlattenSnoc ==
    ASSUME NEW S, NEW p \in Seq(Seq(S)), NEW x \in Seq(S)
    PROVE  FlattenSeq(p \o <<x>>) = FlattenSeq(p) \o x
<1> DEFINE q == p \o <<x>>
           n == Len(p)
<1>0. /\ q \in Seq(Seq(S)) /\ n \in Nat /\ Len(q) = n + 1 /\ q[n + 1] = x
      /\ \A k \in 1..n : q[k] = p[k]
  <2> DEFINE U == Seq(S)
  <2> HIDE DEF U
  <2>1. ASSUME NEW r \in Seq(U), NEW y \in U PROVE /\ r \o <<y>> \in Seq(U)
           /\ Len(r \o <<y>>) = Len(r) + 1 /\ Len(r) \in Nat /\ (r \o <<y>>)[Len(r) + 1] = y
           /\ \A k \in 1..Len(r) : (r \o <<y>>)[k] = r[k]
    BY ConcatOne
  <2> QED BY <2>1 DEF U
<1>1. PICK g : IsFlatten(g, q, n + 1) /\ FlattenSeq(q) = g[n + 1]
  <2> HIDE DEF q
  <2>1. Len(q) \in Nat /\ Len(q) # 0
    BY <1>0
  <2> QED BY <1>0, <2>1, FlattenIsAFlatten
<1>2. g[n + 1] = IF n = 0 THEN x ELSE g[n] \o x
  <2> HIDE DEF q
  <2>1. n + 1 \in 1..(n + 1) /\ (n + 1) - 1 = n /\ (n + 1 = 1 <=> n = 0)
    BY <1>0
  <2>2. g[n + 1] = IF n + 1 = 1 THEN q[n + 1] ELSE g[(n + 1) - 1] \o q[n + 1]
    BY <1>1, <2>1 DEF IsFlatten
  <2> QED BY <1>0, <2>1, <2>2
<1>3. CASE n = 0
  <2>1. p = <<>> /\ FlattenSeq(p) = <<>>
    BY <1>0, <1>3 DEF FlattenSeq
  <2>2. <<>> \o x = x
    BY ConcatEmptySeq
  <2> QED BY <1>1, <1>2, <1>3, <2>1, <2>2
<1>4. CASE n # 0
  <2>1. PICK f : IsFlatten(f, p, n) /\ FlattenSeq(p) = f[n]
    BY <1>0, <1>4, FlattenIsAFlatten
  <2> DEFINE h == [i \in 1..n |-> g[i]]
  <2>2. IsFlatten(h, q, n)
    <3> SUFFICES ASSUME NEW i \in 1..n
                 PROVE  h[i] = IF i = 1 THEN q[i] ELSE h[i - 1] \o q[i]
      BY DEF IsFlatten
    <3>0. i \in 1..(n + 1)
      BY <1>0
    <3> HIDE DEF q, h
    <3>1. g[i] = IF i = 1 THEN q[i] ELSE g[i - 1] \o q[i]
      BY <3>0, <1>1 DEF IsFlatten
    <3>2. h[i] = g[i] /\ (i # 1 => h[i - 1] = g[i - 1])
      BY <1>0 DEF h
    <3> QED BY <3>1, <3>2
  <2>3. h[n] = f[n]
    <3>1. \A k \in 1..n : q[k] = p[k]
      BY <1>0
    <3> HIDE DEF h, q, n
    <3>2. n \in Nat /\ n \in 1..n
      BY <1>0, <1>4
    <3>3. IsFlatten(f, p, n)
      BY <2>1
    <3>4. \A k \in 1..n : h[k] = f[k]
      BY <2>2, <3>1, <3>2, <3>3, FlattenIsUnique
    <3> QED BY <3>2, <3>4
  <2>4. h[n] = g[n]
    BY <1>0, <1>4
  <2>5. FlattenSeq(q) = FlattenSeq(p) \o x
    <3> HIDE DEF q, h
    <3> QED BY <1>1, <1>2, <1>4, <2>1, <2>3, <2>4
  <2> QED BY <2>5
<1> QED BY <1>3, <1>4

\* A sequence that is not empty has a last element.
LEMMA LastOf ==
    ASSUME NEW S, NEW s \in Seq(S), Len(s) # 0
    PROVE  \E u \in Seq(S), x \in S : Len(u) = Len(s) - 1 /\ s = u \o <<x>>
<1> DEFINE n == Len(s) - 1
           u == SubSeq(s, 1, n)
           x == s[n + 1]
<1>1. n \in Nat /\ Len(s) = n + 1 /\ x \in S /\ \A i \in 1..n : s[i] \in S
  OBVIOUS
<1>2. u \in Seq(S) /\ Len(u) = n /\ \A i \in 1..n : u[i] = s[i]
  BY <1>1, SubSeqProperties
<1> HIDE DEF u, x, n
<1>3. u \o <<x>> \in Seq(S) /\ Len(u \o <<x>>) = n + 1 /\ (u \o <<x>>)[n + 1] = x
      /\ \A k \in 1..n : (u \o <<x>>)[k] = s[k]
  BY <1>1, <1>2, ConcatOne
<1>4. s = u \o <<x>>
  <2> DEFINE t == u \o <<x>>
  <2>1. t \in Seq(S) /\ Len(t) = n + 1 /\ t[n + 1] = x /\ \A k \in 1..n : t[k] = s[k]
    BY <1>3
  <2> HIDE DEF t
  <2>2. s[n + 1] = x
    BY DEF x
  <2>3. \A i \in 1..(n + 1) : s[i] = t[i]
    <3> HIDE DEF x
    <3> QED BY <1>1, <2>1, <2>2
  <2>4. s = t
    BY <1>1, <2>1, <2>3, SeqEqual
  <2> QED BY <2>4 DEF t
<1> QED BY <1>1, <1>2, <1>4 DEF n

\* What holds of the empty sequence, and of every sequence with one element
\* more, holds of all.
LEMMA SnocInduction ==
    ASSUME NEW S, NEW P, <<>> \in P, \A u \in Seq(S), x \in S : u \in P => u \o <<x>> \in P
    PROVE  \A s \in Seq(S) : s \in P
<1> DEFINE Bad == {n \in Nat : \E s \in Seq(S) : Len(s) = n /\ s \notin P}
<1>1. CASE Bad = {}
  BY <1>1
<1>2. CASE Bad # {}
  <2>1. PICK n \in Bad : \A k \in Bad : n <= k
    <3>1. Bad \subseteq Nat
      OBVIOUS
    <3> HIDE DEF Bad
    <3> QED BY <1>2, <3>1, Least
  <2>2. PICK s \in Seq(S) : Len(s) = n /\ s \notin P
    BY <2>1
  <2>3. n # 0
    <3>1. n = 0 => s = <<>>
      BY <2>2
    <3> QED BY <2>2, <3>1
  <2>4. n \in Nat /\ n - 1 \in Nat /\ Len(s) = (n - 1) + 1
    BY <2>1, <2>2, <2>3
  <2>5. PICK u \in Seq(S), x \in S : Len(u) = n - 1 /\ s = u \o <<x>>
    <3>1. Len(s) # 0
      BY <2>2, <2>3
    <3>2. PICK u \in Seq(S), x \in S : Len(u) = Len(s) - 1 /\ s = u \o <<x>>
      BY <3>1, LastOf
    <3> QED BY <2>2, <3>2
  <2>6. u \notin P
    BY <2>2, <2>5
  <2>7. n - 1 \in Bad
    BY <2>4, <2>5, <2>6
  <2> HIDE DEF Bad
  <2> QED BY <2>1, <2>4, <2>7
<1> QED BY <1>1, <1>2

\* A text in which each token is replaced by its piece.
Spread(f, text) == FlattenSeq([k \in DOMAIN text |-> f[text[k]]])

\* The empty text has no pieces.
LEMMA SpreadEmpty == ASSUME NEW f PROVE Spread(f, <<>>) = <<>>
<1>1. Len([k \in DOMAIN <<>> |-> f[<<>>[k]]]) = 0
  <2>1. DOMAIN <<>> = 1..0
    OBVIOUS
  <2>2. [k \in 1..0 |-> f[<<>>[k]]] \in Seq({})
    OBVIOUS
  <2>3. Len([k \in 1..0 |-> f[<<>>[k]]]) = 0
    BY <2>2
  <2> QED BY <2>1, <2>3
<1>2. \A s : s \in Seq({}) => s = <<>>
  OBVIOUS
<1>3. [k \in DOMAIN <<>> |-> f[<<>>[k]]] = <<>>
  OBVIOUS
<1>4. FlattenSeq(<<>>) = <<>>
  BY DEF FlattenSeq
<1> QED BY <1>3, <1>4 DEF Spread

\* The pieces of a text are a sequence, a piece for each token.
LEMMA SpreadParts ==
    ASSUME NEW A, NEW U, NEW f \in [A -> U], NEW s \in Seq(A), NEW p,
           p = [k \in DOMAIN s |-> f[s[k]]]
    PROVE  p \in Seq(U) /\ Len(p) = Len(s) /\ \A k \in 1..Len(s) : p[k] = f[s[k]]
<1>1. DOMAIN s = 1..Len(s) /\ Len(s) \in Nat /\ \A k \in 1..Len(s) : s[k] \in A
  OBVIOUS
<1>2. p \in [1..Len(s) -> U] /\ \A k \in 1..Len(s) : p[k] = f[s[k]]
  BY <1>1
<1> QED BY <1>1, <1>2

\* One token more at the end of a text adds its piece.
LEMMA SpreadSnoc ==
    ASSUME NEW A, NEW B, NEW f \in [A -> Seq(B)], NEW u \in Seq(A), NEW x \in A
    PROVE  Spread(f, u \o <<x>>) = Spread(f, u) \o f[x]
<1> DEFINE s == u \o <<x>>
           p == [k \in DOMAIN u |-> f[u[k]]]
           q == [k \in DOMAIN s |-> f[s[k]]]
           n == Len(u)
           U == Seq(B)
<1>1. /\ s \in Seq(A) /\ n \in Nat /\ Len(s) = n + 1 /\ s[n + 1] = x
      /\ \A k \in 1..n : s[k] = u[k]
  OBVIOUS
<1>2. p \in Seq(U) /\ Len(p) = n /\ \A k \in 1..n : p[k] = f[u[k]]
  <2> HIDE DEF U
  <2>1. f \in [A -> U]
    BY DEF U
  <2> HIDE DEF p
  <2>2. p = [k \in DOMAIN u |-> f[u[k]]]
    BY DEF p
  <2> QED BY <2>1, <2>2, SpreadParts
<1>3. q \in Seq(U) /\ Len(q) = n + 1 /\ \A k \in 1..(n + 1) : q[k] = f[s[k]]
  <2> HIDE DEF U
  <2>1. f \in [A -> U]
    BY DEF U
  <2> HIDE DEF q, s
  <2>2. q = [k \in DOMAIN s |-> f[s[k]]]
    BY DEF q
  <2> QED BY <1>1, <2>1, <2>2, SpreadParts
<1>4. q = p \o <<f[x]>>
  <2> DEFINE r == p \o <<f[x]>>
  <2>1. f[x] \in U
    OBVIOUS
  <2> HIDE DEF p, q, s, U, n
  <2>2. /\ r \in Seq(U) /\ Len(r) = n + 1 /\ r[n + 1] = f[x]
        /\ \A k \in 1..n : r[k] = p[k]
    BY <1>2, <2>1, ConcatOne
  <2> HIDE DEF r
  <2>4. ASSUME NEW i \in 1..(n + 1) PROVE q[i] = r[i]
    <3>1. CASE i = n + 1
      BY <1>1, <1>3, <2>2, <3>1
    <3>2. CASE i # n + 1
      <4>1. i \in 1..n
        BY <1>1, <3>2
      <4>2. q[i] = f[u[i]]
        BY <1>1, <1>3, <4>1
      <4> QED BY <1>2, <2>2, <4>1, <4>2
    <3> QED BY <3>1, <3>2
  <2>5. q = r
    BY <1>3, <2>2, <2>4, SeqEqual
  <2> QED BY <2>5 DEF r
<1>5. FlattenSeq(q) = FlattenSeq(p) \o f[x]
  <2> HIDE DEF p, q
  <2>1. p \in Seq(Seq(B)) /\ f[x] \in Seq(B)
    BY <1>2
  <2> QED BY <1>4, <2>1, FlattenSnoc
<1> QED BY <1>5 DEF Spread

\* A text of pieces is a sequence of what the pieces are made of.
LEMMA SpreadIsASeq ==
    ASSUME NEW A, NEW B, NEW f \in [A -> Seq(B)], NEW s \in Seq(A)
    PROVE  Spread(f, s) \in Seq(B)
<1> DEFINE P == {u \in Seq(A) : Spread(f, u) \in Seq(B)}
<1>1. <<>> \in P
  <2>1. Spread(f, <<>>) = <<>>
    BY SpreadEmpty
  <2>2. <<>> \in Seq(A) /\ <<>> \in Seq(B)
    OBVIOUS
  <2> QED BY <2>1, <2>2
<1>2. ASSUME NEW u \in Seq(A), NEW x \in A, u \in P PROVE u \o <<x>> \in P
  <2>1. Spread(f, u \o <<x>>) = Spread(f, u) \o f[x]
    BY SpreadSnoc
  <2>2. Spread(f, u) \in Seq(B) /\ f[x] \in Seq(B) /\ u \o <<x>> \in Seq(A)
    BY <1>2
  <2>3. Spread(f, u) \o f[x] \in Seq(B)
    BY <2>2
  <2> QED BY <2>1, <2>2, <2>3
<1>3. s \in P
  <2> HIDE DEF P
  <2> QED BY <1>1, <1>2, SnocInduction
<1> QED BY <1>3

\* A text that is spread is spread in parts.
LEMMA SpreadConcat ==
    ASSUME NEW A, NEW B, NEW f \in [A -> Seq(B)], NEW s \in Seq(A), NEW t \in Seq(A)
    PROVE  Spread(f, s \o t) = Spread(f, s) \o Spread(f, t)
<1> DEFINE P == {u \in Seq(A) : Spread(f, s \o u) = Spread(f, s) \o Spread(f, u)}
<1>0. Spread(f, s) \in Seq(B)
  BY SpreadIsASeq
<1>1. <<>> \in P
  <2>1. Spread(f, <<>>) = <<>>
    BY SpreadEmpty
  <2>2. s \o <<>> = s /\ Spread(f, s) \o <<>> = Spread(f, s)
    BY <1>0, ConcatEmptySeq
  <2>3. <<>> \in Seq(A)
    OBVIOUS
  <2> QED BY <2>1, <2>2, <2>3
<1>2. ASSUME NEW u \in Seq(A), NEW x \in A, u \in P PROVE u \o <<x>> \in P
  <2>0. <<x>> \in Seq(A) /\ s \o u \in Seq(A) /\ u \o <<x>> \in Seq(A) /\ f[x] \in Seq(B)
    OBVIOUS
  <2>1. <<x>> \in Seq(A) /\ s \o u \in Seq(A) /\ Spread(f, u) \in Seq(B) /\ f[x] \in Seq(B)
    BY <2>0, SpreadIsASeq
  <2>2. s \o (u \o <<x>>) = (s \o u) \o <<x>>
    BY <2>1, ConcatAssociative
  <2>3. Spread(f, (s \o u) \o <<x>>) = Spread(f, s \o u) \o f[x]
    BY <2>1, SpreadSnoc
  <2>4. Spread(f, u \o <<x>>) = Spread(f, u) \o f[x]
    BY SpreadSnoc
  <2>5. (Spread(f, s) \o Spread(f, u)) \o f[x] = Spread(f, s) \o (Spread(f, u) \o f[x])
    BY <1>0, <2>1, ConcatAssociative
  <2> QED BY <1>2, <2>0, <2>2, <2>3, <2>4, <2>5
<1>3. t \in P
  <2> HIDE DEF P
  <2> QED BY <1>1, <1>2, SnocInduction
<1> QED BY <1>3

\* A text of one token is its piece.
LEMMA SpreadOne ==
    ASSUME NEW A, NEW B, NEW f \in [A -> Seq(B)], NEW x \in A
    PROVE  Spread(f, <<x>>) = f[x]
<1>0. <<>> \in Seq(A) /\ <<x>> \in Seq(A) /\ f[x] \in Seq(B)
  OBVIOUS
<1>1. Spread(f, <<>> \o <<x>>) = Spread(f, <<>>) \o f[x]
  BY <1>0, SpreadSnoc
<1>2. <<>> \o <<x>> = <<x>> /\ <<>> \o f[x] = f[x]
  BY <1>0, ConcatEmptySeq
<1>3. Spread(f, <<>>) = <<>>
  BY SpreadEmpty
<1> QED BY <1>1, <1>2, <1>3

\* Each token its own piece: the text is unchanged.
LEMMA SpreadSame ==
    ASSUME NEW A, NEW B, NEW f \in [A -> Seq(B)], NEW S \in SUBSET A, \A x \in S : f[x] = <<x>>,
           NEW s \in Seq(S)
    PROVE  Spread(f, s) = s
<1> DEFINE P == {u \in Seq(S) : Spread(f, u) = u}
<1>1. <<>> \in P
  <2>1. Spread(f, <<>>) = <<>>
    BY SpreadEmpty
  <2>2. <<>> \in Seq(S)
    OBVIOUS
  <2> QED BY <2>1, <2>2
<1>2. ASSUME NEW u \in Seq(S), NEW x \in S, u \in P PROVE u \o <<x>> \in P
  <2>1. u \in Seq(A)
    OBVIOUS
  <2>4. u \o <<x>> \in Seq(S)
    OBVIOUS
  <2>5. x \in A
    OBVIOUS
  <2>2. Spread(f, u \o <<x>>) = Spread(f, u) \o f[x]
    BY <2>1, <2>5, SpreadSnoc
  <2> QED BY <1>2, <2>2, <2>4
<1>3. s \in P
  <2> HIDE DEF P
  <2> QED BY <1>1, <1>2, SnocInduction
<1> QED BY <1>3

\* No token with a piece: nothing is left.
LEMMA SpreadNothing ==
    ASSUME NEW A, NEW B, NEW f \in [A -> Seq(B)], NEW S \in SUBSET A, \A x \in S : f[x] = <<>>,
           NEW s \in Seq(S)
    PROVE  Spread(f, s) = <<>>
<1> DEFINE P == {u \in Seq(S) : Spread(f, u) = <<>>}
<1>1. <<>> \in P
  <2>1. Spread(f, <<>>) = <<>>
    BY SpreadEmpty
  <2>2. <<>> \in Seq(S)
    OBVIOUS
  <2> QED BY <2>1, <2>2
<1>2. ASSUME NEW u \in Seq(S), NEW x \in S, u \in P PROVE u \o <<x>> \in P
  <2>1. u \in Seq(A)
    OBVIOUS
  <2>4. u \o <<x>> \in Seq(S)
    OBVIOUS
  <2>5. x \in A
    OBVIOUS
  <2>2. Spread(f, u \o <<x>>) = Spread(f, u) \o f[x]
    BY <2>1, <2>5, SpreadSnoc
  <2>3. <<>> \o <<>> = <<>>
    <3>1. <<>> \in Seq({})
      OBVIOUS
    <3> QED BY <3>1, ConcatEmptySeq
  <2> QED BY <1>2, <2>2, <2>3, <2>4
<1>3. s \in P
  <2> HIDE DEF P
  <2> QED BY <1>1, <1>2, SnocInduction
<1> QED BY <1>3

IsTwice(A, B, C, f, g, h) ==
    /\ f \in [A -> Seq(B)] /\ g \in [B -> Seq(C)] /\ h \in [A -> Seq(C)]
    /\ \A x \in A : Spread(g, f[x]) = h[x]

\* What is spread twice is spread once, by the pieces of the pieces.
LEMMA SpreadTwice ==
    ASSUME NEW A, NEW B, NEW C, NEW f, NEW g, NEW h, IsTwice(A, B, C, f, g, h), NEW s \in Seq(A)
    PROVE  Spread(g, Spread(f, s)) = Spread(h, s)
<1> DEFINE P == {u \in Seq(A) : Spread(g, Spread(f, u)) = Spread(h, u)}
<1>0. ASSUME NEW v \in Seq(B), NEW w \in Seq(B)
      PROVE  Spread(g, v \o w) = Spread(g, v) \o Spread(g, w)
  <2>1. g \in [B -> Seq(C)]
    BY DEF IsTwice
  <2> QED BY <2>1, SpreadConcat
<1>p. f \in [A -> Seq(B)] /\ h \in [A -> Seq(C)]
  BY DEF IsTwice
<1>1. <<>> \in P
  <2>1. Spread(f, <<>>) = <<>> /\ Spread(g, <<>>) = <<>> /\ Spread(h, <<>>) = <<>>
    BY SpreadEmpty
  <2>2. <<>> \in Seq(A)
    OBVIOUS
  <2> QED BY <2>1, <2>2
<1>2. ASSUME NEW u \in Seq(A), NEW x \in A, u \in P PROVE u \o <<x>> \in P
  <2>0. u \o <<x>> \in Seq(A) /\ f[x] \in Seq(B)
    BY <1>p
  <2>1. Spread(f, u) \in Seq(B) /\ f[x] \in Seq(B)
    BY <1>p, <2>0, SpreadIsASeq
  <2>2. Spread(f, u \o <<x>>) = Spread(f, u) \o f[x] /\ Spread(h, u \o <<x>>) = Spread(h, u) \o h[x]
    BY <1>p, SpreadSnoc
  <2>3. Spread(g, Spread(f, u) \o f[x]) = Spread(g, Spread(f, u)) \o Spread(g, f[x])
    BY <1>0, <2>1
  <2>4. Spread(g, f[x]) = h[x]
    BY DEF IsTwice
  <2> QED BY <1>2, <2>0, <2>2, <2>3, <2>4
<1>3. s \in P
  <2> HIDE DEF P
  <2> QED BY <1>1, <1>2, SnocInduction
<1> QED BY <1>3

----------------------------------------------------------------------------
\* What expansion makes of one token.
Piece(t, ps, escaped) ==
    IF t.c \in DOMAIN Placeholders /\ Placeholders[t.c] \in DOMAIN ps
    THEN LET value == ValueString(ps[Placeholders[t.c]])
         IN IF escaped THEN [j \in DOMAIN value |-> PathEscape(value[j])] ELSE value
    ELSE <<t>>

\* expandString replaces each token by its piece.
LEMMA ExpandIsASpread ==
    ASSUME NEW A, NEW text \in Seq(A), NEW ps, NEW escaped, NEW f,
           \A t \in A : f[t] = Piece(t, ps, escaped)
    PROVE  Expand(text, ps, escaped) = Spread(f, text)
<1>1. \A k \in DOMAIN text : text[k] \in A
  OBVIOUS
<1>2. \A k \in DOMAIN text : f[text[k]] = Piece(text[k], ps, escaped)
  BY <1>1
<1>3. [k \in DOMAIN text |-> f[text[k]]] = [k \in DOMAIN text |-> Piece(text[k], ps, escaped)]
  BY <1>2
<1> QED BY <1>3 DEF Expand, Spread, Piece

\* The delimiters of a text are those of its tokens.
LEMMA DelimitersIsASpread ==
    ASSUME NEW A, NEW text \in Seq(A), NEW f,
           \A t \in A : f[t] = IF Delimits(t) THEN <<t>> ELSE <<>>
    PROVE  DelimitersOf(text) = Spread(f, text)
<1>1. \A k \in DOMAIN text : text[k] \in A
  OBVIOUS
<1>2. \A k \in DOMAIN text : f[text[k]] = IF Delimits(text[k]) THEN <<text[k]>> ELSE <<>>
  BY <1>1
<1>3. [k \in DOMAIN text |-> f[text[k]]]
        = [k \in DOMAIN text |-> IF Delimits(text[k]) THEN <<text[k]>> ELSE <<>>]
  BY <1>2
<1> QED BY <1>3 DEF DelimitersOf, Spread

\* Every parameter can be written out.
AreWritten(ps) == \A p \in DOMAIN ps : IsText(ValueString(ps[p]))

\* What a token becomes is a sequence.
LEMMA PieceIsASeq ==
    ASSUME NEW t, NEW ps, AreWritten(ps), NEW escaped
    PROVE  Piece(t, ps, escaped) \in Seq(Range(Piece(t, ps, escaped)))
<1>1. CASE t.c \in DOMAIN Placeholders /\ Placeholders[t.c] \in DOMAIN ps
  <2> DEFINE value == ValueString(ps[Placeholders[t.c]])
             n == Len(value)
             out == [j \in DOMAIN value |-> PathEscape(value[j])]
  <2>1. value \in Seq(Range(value))
    BY <1>1 DEF AreWritten, IsText
  <2>2. Piece(t, ps, escaped) = IF escaped THEN out ELSE value
    BY <1>1 DEF Piece
  <2> HIDE DEF value
  <2>3. n \in Nat /\ DOMAIN value = 1..n
    BY <2>1
  <2>4. out \in [1..n -> Range(out)]
    BY <2>3 DEF Range
  <2>5. out \in Seq(Range(out))
    BY <2>3, <2>4
  <2> QED BY <2>1, <2>2, <2>5
<1>2. CASE ~ (t.c \in DOMAIN Placeholders /\ Placeholders[t.c] \in DOMAIN ps)
  <2>1. Piece(t, ps, escaped) = <<t>>
    BY <1>2 DEF Piece
  <2>2. t \in Range(<<t>>)
    BY DEF Range
  <2>3. <<t>> \in Seq(Range(<<t>>))
    BY <2>2
  <2> QED BY <2>1, <2>3
<1> QED BY <1>1, <1>2

\* Expansion, as a spread of sequences over one set.
IsExpansion(f, A, B, ps, escaped) ==
    /\ A \subseteq B /\ f \in [A -> Seq(B)]
    /\ \A t \in A : f[t] = Piece(t, ps, escaped)

\* There is a set that the pieces of every token are sequences over.
LEMMA PiecesAreSeqs ==
    ASSUME NEW A, NEW ps, AreWritten(ps), NEW escaped
    PROVE  \E B, f : IsExpansion(f, A, B, ps, escaped)
<1> DEFINE B == A \cup UNION {Range(Piece(t, ps, escaped)) : t \in A}
           f == [t \in A |-> Piece(t, ps, escaped)]
<1>1. ASSUME NEW t \in A PROVE Piece(t, ps, escaped) \in Seq(B)
  <2>1. Piece(t, ps, escaped) \in Seq(Range(Piece(t, ps, escaped)))
    BY PieceIsASeq
  <2>2. Range(Piece(t, ps, escaped)) \subseteq B
    OBVIOUS
  <2> HIDE DEF B
  <2> QED BY <2>1, <2>2, SeqMonotonic
<1>2. A \subseteq B
  OBVIOUS
<1> HIDE DEF B
<1>3. f \in [A -> Seq(B)] /\ \A t \in A : f[t] = Piece(t, ps, escaped)
  BY <1>1
<1> HIDE DEF f
<1>4. IsExpansion(f, A, B, ps, escaped)
  BY <1>2, <1>3 DEF IsExpansion
<1> QED BY <1>4

\* The way a path is expanded, and the way the other texts are.
Escaped == TRUE
Plainly == FALSE

\* No token of an escaped value is a delimiter.
LEMMA NoValueDelimits ==
    ASSUME NEW t, NEW ps, AreWritten(ps),
           t.c \in DOMAIN Placeholders, Placeholders[t.c] \in DOMAIN ps,
           NEW u \in Range(Piece(t, ps, Escaped))
    PROVE  ~ Delimits(u)
<1> DEFINE value == ValueString(ps[Placeholders[t.c]])
<1>1. IsText(value)
  BY DEF AreWritten
<1>2. Piece(t, ps, Escaped) = [j \in DOMAIN value |-> PathEscape(value[j])]
  BY DEF Piece, Escaped
<1> HIDE DEF value
<1>3. PICK j \in DOMAIN value : u = PathEscape(value[j])
  BY <1>2 DEF Range
<1>4. IsToken(value[j])
  BY <1>1 DEF IsText, Range
<1> QED BY <1>3, <1>4, TemplateAssumption DEF PathEscape, Delimits, IsToken

\* A path keeps the delimiters of its template, and gets no other.
LEMMA DelimitersStand ==
    ASSUME NEW text, IsText(text), NEW ps, AreWritten(ps)
    PROVE  DelimitersOf(Expand(text, ps, Escaped)) = DelimitersOf(text)
<1> DEFINE A == Range(text)
<1>1. text \in Seq(A)
  BY DEF IsText
<1> HIDE DEF A
<1>0. PICK B, f : IsExpansion(f, A, B, ps, Escaped)
  BY PiecesAreSeqs
<1>2. /\ A \subseteq B /\ f \in [A -> Seq(B)]
      /\ \A t \in A : f[t] = Piece(t, ps, Escaped)
  BY <1>0 DEF IsExpansion
<1> DEFINE g == [t \in B |-> IF Delimits(t) THEN <<t>> ELSE <<>>]
           h == [t \in A |-> IF Delimits(t) THEN <<t>> ELSE <<>>]
<1>3. g \in [B -> Seq(B)] /\ h \in [A -> Seq(B)]
  BY <1>2
<1>4. /\ \A t \in B : g[t] = IF Delimits(t) THEN <<t>> ELSE <<>>
      /\ \A t \in A : h[t] = IF Delimits(t) THEN <<t>> ELSE <<>>
  OBVIOUS
<1> HIDE DEF g, h
<1>5. ASSUME NEW x \in A PROVE Spread(g, f[x]) = h[x]
  <2>0. f[x] \in Seq(B) /\ f[x] = Piece(x, ps, Escaped)
    BY <1>1, <1>2
  <2>1. CASE x.c \in DOMAIN Placeholders /\ Placeholders[x.c] \in DOMAIN ps
    <3> DEFINE S == {b \in B : ~ Delimits(b)}
               y == f[x]
    <3>1. \A u \in Range(y) : ~ Delimits(u)
      BY <2>0, <2>1, NoValueDelimits
    <3>2. y \in Seq(B)
      BY <2>0
    <3> HIDE DEF y
    <3>3. y \in Seq(S)
      <4>1. Len(y) \in Nat /\ DOMAIN y = 1..Len(y) /\ \A k \in 1..Len(y) : y[k] \in B
        BY <3>2
      <4>2. \A k \in 1..Len(y) : y[k] \in Range(y)
        BY <4>1 DEF Range
      <4>3. \A k \in 1..Len(y) : y[k] \in S
        BY <3>1, <4>1, <4>2
      <4> HIDE DEF S
      <4> QED BY <3>2, <4>1, <4>3
    <3>4. S \in SUBSET B /\ \A u \in S : g[u] = <<>>
      BY <1>4
    <3>5. Spread(g, y) = <<>>
      <4> HIDE DEF S
      <4> QED BY <1>3, <3>3, <3>4, SpreadNothing
    <3>6. h[x] = <<>>
      BY <1>4, <2>1, TemplateAssumption DEF Delimits
    <3> QED BY <3>5, <3>6 DEF y
  <2>2. CASE ~ (x.c \in DOMAIN Placeholders /\ Placeholders[x.c] \in DOMAIN ps)
    <3>1. f[x] = <<x>> /\ x \in B /\ g[x] = h[x]
      BY <1>2, <1>4, <2>0, <2>2 DEF Piece
    <3>2. Spread(g, <<x>>) = g[x]
      BY <1>3, <3>1, SpreadOne
    <3> QED BY <3>1, <3>2
  <2> QED BY <2>1, <2>2
<1>6. Expand(text, ps, Escaped) = Spread(f, text)
  BY <1>1, <1>2, ExpandIsASpread
<1>7. Spread(f, text) \in Seq(B)
  BY <1>1, <1>2, SpreadIsASeq
<1>8. DelimitersOf(Spread(f, text)) = Spread(g, Spread(f, text))
  BY <1>4, <1>7, DelimitersIsASpread
<1>9. DelimitersOf(text) = Spread(h, text)
  BY <1>1, <1>4, DelimitersIsASpread
<1>10. Spread(g, Spread(f, text)) = Spread(h, text)
  <2>1. IsTwice(A, B, B, f, g, h)
    BY <1>2, <1>3, <1>5 DEF IsTwice
  <2> QED BY <1>1, <2>1, SpreadTwice
<1> QED BY <1>6, <1>8, <1>9, <1>10

----------------------------------------------------------------------------
\* A text that ends in a segment of n dots so far, and one with a segment of dots
\* that has ended.
Opens(s, n) == \E i \in DOMAIN s : DotsFollow(s, i, n) /\ i + n = Len(s)
Closed(s) ==
    \E i \in DOMAIN s, n \in 1..2 :
        DotsFollow(s, i, n) /\ i + n + 1 \in DOMAIN s /\ Delimits(s[i + n + 1])

\* A segment of dots has ended, or the text ends in it.
LEMMA DotSegments ==
    ASSUME NEW U, NEW s \in Seq(U)
    PROVE  HasDotSegment(s) <=> Closed(s) \/ Opens(s, 1) \/ Opens(s, 2)
<1>0. Len(s) \in Nat /\ DOMAIN s = 1..Len(s) /\ 1..2 = {1, 2}
  OBVIOUS
<1>1. ASSUME HasDotSegment(s) PROVE Closed(s) \/ Opens(s, 1) \/ Opens(s, 2)
  <2>1. PICK i \in DOMAIN s, n \in 1..2 :
             DotsFollow(s, i, n) /\ (i + n = Len(s) \/ Delimits(s[i + n + 1]))
    BY <1>1 DEF HasDotSegment
  <2>2. CASE i + n = Len(s)
    BY <1>0, <2>1, <2>2 DEF Opens
  <2>3. CASE i + n # Len(s)
    <3>1. i + n <= Len(s)
      BY <2>1 DEF DotsFollow
    <3>2. i + n + 1 \in DOMAIN s
      BY <1>0, <2>3, <3>1
    <3> QED BY <2>1, <2>3, <3>2 DEF Closed
  <2> QED BY <2>2, <2>3
<1>2. ASSUME Closed(s) \/ Opens(s, 1) \/ Opens(s, 2) PROVE HasDotSegment(s)
  <2>1. Closed(s) => HasDotSegment(s)
    BY DEF Closed, HasDotSegment
  <2>2. ASSUME NEW n \in 1..2, Opens(s, n) PROVE HasDotSegment(s)
    BY <2>2 DEF Opens, HasDotSegment
  <2> QED BY <1>0, <1>2, <2>1, <2>2
<1> QED BY <1>1, <1>2

\* What one token more at its end makes of the dots of a text.
LEMMA DotsSnoc ==
    ASSUME NEW U, NEW s \in Seq(U), NEW x \in U
    PROVE  /\ Opens(s \o <<x>>, 0) <=> x.c = "/" /\ ~ x.esc
           /\ \A n \in 0..1 : Opens(s \o <<x>>, n + 1) <=> Opens(s, n) /\ x.c = "."
           /\ Closed(s \o <<x>>) <=>
                Closed(s) \/ (Delimits(x) /\ (Opens(s, 1) \/ Opens(s, 2)))
<1> DEFINE t == s \o <<x>>
           m == Len(s)
<1>1. /\ t \in Seq(U) /\ Len(t) = m + 1 /\ m \in Nat /\ t[m + 1] = x
      /\ \A k \in 1..m : t[k] = s[k]
  BY ConcatOne
<1>2. DOMAIN s = 1..m /\ DOMAIN t = 1..(m + 1)
  BY <1>1
<1> HIDE DEF t
<1>3. Opens(t, 0) <=> x.c = "/" /\ ~ x.esc
  <2>1. ASSUME Opens(t, 0) PROVE x.c = "/" /\ ~ x.esc
    <3>1. PICK i \in DOMAIN t : DotsFollow(t, i, 0) /\ i + 0 = Len(t)
      BY <2>1 DEF Opens
    <3>2. i = m + 1
      BY <1>1, <1>2, <3>1
    <3> QED BY <1>1, <3>1, <3>2 DEF DotsFollow
  <2>2. ASSUME x.c = "/", ~ x.esc PROVE Opens(t, 0)
    <3>1. m + 1 \in DOMAIN t /\ (m + 1) + 0 = Len(t) /\ ((m + 1) + 1)..((m + 1) + 0) = {}
      BY <1>1, <1>2
    <3>2. DotsFollow(t, m + 1, 0)
      BY <1>1, <2>2, <3>1 DEF DotsFollow
    <3> QED BY <3>1, <3>2 DEF Opens
  <2> QED BY <2>1, <2>2
<1>4. ASSUME NEW i \in 1..m, NEW n \in 0..2, i + n <= m
      PROVE  DotsFollow(t, i, n) <=> DotsFollow(s, i, n)
  <2>1. t[i] = s[i] /\ i + n <= Len(t) /\ \A k \in (i + 1)..(i + n) : t[k] = s[k]
    BY <1>1, <1>4
  <2> QED BY <1>1, <1>4, <2>1 DEF DotsFollow
<1>5. ASSUME NEW n \in 0..1 PROVE Opens(t, n + 1) <=> Opens(s, n) /\ x.c = "."
  <2>1. ASSUME Opens(t, n + 1) PROVE Opens(s, n) /\ x.c = "."
    <3>1. PICK i \in DOMAIN t : DotsFollow(t, i, n + 1) /\ i + (n + 1) = Len(t)
      BY <2>1 DEF Opens
    <3>2. i \in 1..m /\ i + n = m /\ i + n <= m /\ m + 1 \in (i + 1)..(i + (n + 1))
      BY <1>1, <1>2, <3>1
    <3>3. x.c = "."
      BY <1>1, <3>1, <3>2 DEF DotsFollow
    <3>4. DotsFollow(t, i, n)
      <4>1. (i + 1)..(i + n) \subseteq (i + 1)..(i + (n + 1)) /\ i + n <= Len(t)
        BY <1>1, <3>2
      <4> QED BY <3>1, <4>1 DEF DotsFollow
    <3>5. DotsFollow(s, i, n)
      BY <1>4, <3>2, <3>4
    <3> QED BY <1>2, <3>2, <3>3, <3>5 DEF Opens
  <2>2. ASSUME Opens(s, n), x.c = "." PROVE Opens(t, n + 1)
    <3>1. PICK i \in DOMAIN s : DotsFollow(s, i, n) /\ i + n = Len(s)
      BY <2>2 DEF Opens
    <3>2. i \in 1..m /\ i + n <= m /\ i + (n + 1) = m + 1 /\ i \in DOMAIN t
      BY <1>1, <1>2, <3>1
    <3>3. DotsFollow(t, i, n)
      BY <1>4, <3>1, <3>2
    <3>4. \A k \in (i + 1)..(i + (n + 1)) : t[k].c = "."
      <4>1. \A k \in (i + 1)..(i + (n + 1)) : k \in (i + 1)..(i + n) \/ k = m + 1
        BY <1>1, <3>2
      <4> QED BY <1>1, <2>2, <3>3, <4>1 DEF DotsFollow
    <3>5. DotsFollow(t, i, n + 1)
      BY <1>1, <3>2, <3>3, <3>4 DEF DotsFollow
    <3> QED BY <1>1, <3>2, <3>5 DEF Opens
  <2> QED BY <2>1, <2>2
<1>6. Closed(t) <=> Closed(s) \/ (Delimits(x) /\ (Opens(s, 1) \/ Opens(s, 2)))
  <2>0. 1..2 = {1, 2}
    OBVIOUS
  <2>1. ASSUME Closed(t) PROVE Closed(s) \/ (Delimits(x) /\ (Opens(s, 1) \/ Opens(s, 2)))
    <3>1. PICK i \in DOMAIN t, n \in 1..2 :
              DotsFollow(t, i, n) /\ i + n + 1 \in DOMAIN t /\ Delimits(t[i + n + 1])
      BY <2>1 DEF Closed
    <3>2. i \in 1..m /\ i + n <= m /\ n \in 0..2
      BY <1>1, <1>2, <3>1
    <3>3. DotsFollow(s, i, n)
      BY <1>4, <3>1, <3>2
    <3>4. CASE i + n = m
      <4>1. Delimits(x) /\ Opens(s, n)
        BY <1>1, <1>2, <3>1, <3>2, <3>3, <3>4 DEF Opens
      <4> QED BY <2>0, <4>1
    <3>5. CASE i + n # m
      <4>1. i + n + 1 \in 1..m
        BY <1>1, <3>2, <3>5
      <4>2. t[i + n + 1] = s[i + n + 1]
        BY <1>1, <4>1
      <4> QED BY <1>2, <3>1, <3>2, <3>3, <4>1, <4>2 DEF Closed
    <3> QED BY <3>4, <3>5
  <2>2. ASSUME Closed(s) PROVE Closed(t)
    <3>1. PICK i \in DOMAIN s, n \in 1..2 :
              DotsFollow(s, i, n) /\ i + n + 1 \in DOMAIN s /\ Delimits(s[i + n + 1])
      BY <2>2 DEF Closed
    <3>2. /\ i \in 1..m /\ i + n <= m /\ n \in 0..2 /\ i \in DOMAIN t
          /\ i + n + 1 \in 1..m /\ i + n + 1 \in DOMAIN t
      BY <1>1, <1>2, <3>1
    <3>3. DotsFollow(t, i, n) /\ t[i + n + 1] = s[i + n + 1]
      BY <1>1, <1>4, <3>1, <3>2
    <3> QED BY <3>1, <3>2, <3>3 DEF Closed
  <2>3. ASSUME Delimits(x), NEW n \in 1..2, Opens(s, n) PROVE Closed(t)
    <3>1. PICK i \in DOMAIN s : DotsFollow(s, i, n) /\ i + n = Len(s)
      BY <2>3 DEF Opens
    <3>2. /\ i \in 1..m /\ i + n <= m /\ n \in 0..2 /\ i \in DOMAIN t
          /\ i + n + 1 = m + 1 /\ i + n + 1 \in DOMAIN t
      BY <1>1, <1>2, <3>1
    <3>3. DotsFollow(t, i, n)
      BY <1>4, <3>1, <3>2
    <3>4. Delimits(t[i + n + 1])
      BY <1>1, <2>3, <3>2
    <3> QED BY <3>2, <3>3, <3>4 DEF Closed
  <2> QED BY <2>0, <2>1, <2>2, <2>3
<1> QED BY <1>3, <1>5, <1>6 DEF t

\* A value that delimits nothing and is not of dots alone ends a run of dots, and
\* ends no segment.
LEMMA DotsStop ==
    ASSUME NEW U, NEW s \in Seq(U), NEW v \in Seq(U), \A t \in Range(v) : ~ Delimits(t), ~ IsDots(v)
    PROVE  /\ \A n \in 0..2 : ~ Opens(s \o v, n)
           /\ Closed(s \o v) => Closed(s)
<1> DEFINE o == s \o v
           m == Len(s)
           l == Len(v)
<1>1. /\ o \in Seq(U) /\ Len(o) = m + l /\ m \in Nat /\ l \in Nat
      /\ \A i \in 1..(m + l) : o[i] = IF i <= m THEN s[i] ELSE v[i - m]
      /\ DOMAIN s = 1..m /\ DOMAIN v = 1..l /\ DOMAIN o = 1..(m + l)
  BY ConcatProperties
<1> HIDE DEF o
<1>2. ASSUME NEW i \in DOMAIN o, Delimits(o[i]) PROVE i \in 1..m
  <2>1. ASSUME i > m PROVE FALSE
    <3>1. i - m \in DOMAIN v /\ o[i] = v[i - m]
      BY <1>1, <2>1
    <3>2. v[i - m] \in Range(v)
      BY <3>1 DEF Range
    <3> QED BY <1>2, <3>1, <3>2
  <2> QED BY <1>1, <2>1
<1>3. ASSUME NEW i \in DOMAIN o, NEW n, DotsFollow(o, i, n) PROVE i \in 1..m
  <2>1. Delimits(o[i])
    BY <1>3, TemplateAssumption DEF DotsFollow, Delimits
  <2> QED BY <1>2, <2>1
<1>4. ASSUME NEW n \in 0..2, Opens(o, n) PROVE FALSE
  <2>1. PICK i \in DOMAIN o : DotsFollow(o, i, n) /\ i + n = Len(o)
    BY <1>4 DEF Opens
  <2>2. i \in 1..m
    BY <1>3, <2>1
  <2>3. PICK j \in DOMAIN v : v[j].c # "."
    BY DEF IsDots, Range
  <2>4. m + j \in (i + 1)..(i + n) /\ o[m + j] = v[j]
    BY <1>1, <2>1, <2>2, <2>3
  <2> QED BY <2>1, <2>3, <2>4 DEF DotsFollow
<1>5. ASSUME Closed(o) PROVE Closed(s)
  <2>1. PICK i \in DOMAIN o, n \in 1..2 :
            DotsFollow(o, i, n) /\ i + n + 1 \in DOMAIN o /\ Delimits(o[i + n + 1])
    BY <1>5 DEF Closed
  <2>2. i \in 1..m /\ i + n + 1 \in 1..m
    BY <1>2, <1>3, <2>1
  <2>3. /\ o[i] = s[i] /\ o[i + n + 1] = s[i + n + 1] /\ i + n <= m
        /\ \A k \in (i + 1)..(i + n) : o[k] = s[k]
    BY <1>1, <2>1, <2>2
  <2>4. DotsFollow(s, i, n)
    BY <2>1, <2>3 DEF DotsFollow
  <2> QED BY <1>1, <2>1, <2>2, <2>3, <2>4 DEF Closed
<1> QED BY <1>4, <1>5 DEF o

\* The dots of one text are dots of another.
DotsWithin(o, s) ==
    /\ Closed(o) => Closed(s)
    /\ \A n \in 0..2 : Opens(o, n) => Opens(s, n)

\* The same token at the end of both keeps it so.
LEMMA DotsWithinSnoc ==
    ASSUME NEW A, NEW B, NEW o \in Seq(B), NEW s \in Seq(A), NEW x \in A, x \in B, DotsWithin(o, s)
    PROVE  DotsWithin(o \o <<x>>, s \o <<x>>)
<1> DEFINE ox == o \o <<x>>
           sx == s \o <<x>>
<1>1. /\ Opens(ox, 0) <=> x.c = "/" /\ ~ x.esc
      /\ \A n \in 0..1 : Opens(ox, n + 1) <=> Opens(o, n) /\ x.c = "."
      /\ Closed(ox) <=> Closed(o) \/ (Delimits(x) /\ (Opens(o, 1) \/ Opens(o, 2)))
  BY DotsSnoc
<1>2. /\ Opens(sx, 0) <=> x.c = "/" /\ ~ x.esc
      /\ \A n \in 0..1 : Opens(sx, n + 1) <=> Opens(s, n) /\ x.c = "."
      /\ Closed(sx) <=> Closed(s) \/ (Delimits(x) /\ (Opens(s, 1) \/ Opens(s, 2)))
  BY DotsSnoc
<1> HIDE DEF ox, sx
<1>3. Closed(ox) => Closed(sx)
  BY <1>1, <1>2 DEF DotsWithin
<1>4. ASSUME NEW n \in 0..2, Opens(ox, n) PROVE Opens(sx, n)
  <2>1. CASE n = 0
    BY <1>1, <1>2, <1>4, <2>1
  <2>2. CASE n # 0
    <3>1. n - 1 \in 0..1 /\ (n - 1) + 1 = n /\ n - 1 \in 0..2
      BY <2>2
    <3>2. Opens(o, n - 1) /\ x.c = "."
      BY <1>1, <1>4, <3>1
    <3>3. Opens(s, n - 1)
      BY <3>1, <3>2 DEF DotsWithin
    <3> QED BY <1>2, <3>1, <3>2, <3>3
  <2> QED BY <2>1, <2>2
<1> QED BY <1>3, <1>4 DEF DotsWithin, ox, sx

\* A written value keeps what is not a dot.
LEMMA EscapedIsNoDots ==
    ASSUME NEW t, NEW ps, AreWritten(ps),
           t.c \in DOMAIN Placeholders, Placeholders[t.c] \in DOMAIN ps,
           ~ IsDots(ValueString(ps[Placeholders[t.c]]))
    PROVE  ~ IsDots(Piece(t, ps, Escaped))
<1> DEFINE value == ValueString(ps[Placeholders[t.c]])
<1>1. IsText(value) /\ ~ IsDots(value)
  BY DEF AreWritten
<1>2. Piece(t, ps, Escaped) = [j \in DOMAIN value |-> PathEscape(value[j])]
  BY DEF Piece, Escaped
<1> HIDE DEF value
<1>3. PICK j \in DOMAIN value : value[j].c # "."
  BY <1>1 DEF IsDots, Range
<1>4. IsToken(value[j])
  BY <1>1 DEF IsText, Range
<1>5. PathEscape(value[j]).c # "."
  BY <1>3, <1>4 DEF PathEscape, IsToken
<1> QED BY <1>2, <1>3, <1>5 DEF IsDots, Range

\* A path gets no segment of dots, unless a value of it is made of dots.
LEMMA NoDotSegmentAppears ==
    ASSUME NEW text, IsText(text), NEW ps, AreWritten(ps),
           \A p \in RefsIn(text) \cap DOMAIN ps : ~ IsDots(ValueString(ps[p]))
    PROVE  HasDotSegment(Expand(text, ps, Escaped)) => HasDotSegment(text)
<1> DEFINE A == Range(text)
<1>1. text \in Seq(A)
  BY DEF IsText
<1>a. ASSUME NEW t \in A, t.c \in DOMAIN Placeholders, Placeholders[t.c] \in DOMAIN ps
      PROVE  ~ IsDots(ValueString(ps[Placeholders[t.c]]))
  BY <1>a DEF RefsIn
<1> HIDE DEF A
<1>0. PICK B, f : IsExpansion(f, A, B, ps, Escaped)
  BY PiecesAreSeqs
<1>2. /\ A \subseteq B /\ f \in [A -> Seq(B)]
      /\ \A t \in A : f[t] = Piece(t, ps, Escaped)
  BY <1>0 DEF IsExpansion
<1> DEFINE P == {u \in Seq(A) : DotsWithin(Spread(f, u), u)}
<1>3. <<>> \in P
  <2>1. Spread(f, <<>>) = <<>> /\ <<>> \in Seq(A)
    BY SpreadEmpty
  <2> QED BY <2>1 DEF DotsWithin
<1>4. ASSUME NEW u \in Seq(A), NEW x \in A, u \in P PROVE u \o <<x>> \in P
  <2>0. u \o <<x>> \in Seq(A) /\ x \in B /\ f[x] \in Seq(B) /\ f[x] = Piece(x, ps, Escaped)
    BY <1>2
  <2>1. Spread(f, u) \in Seq(B)
    BY <1>2, SpreadIsASeq
  <2>2. Spread(f, u \o <<x>>) = Spread(f, u) \o f[x]
    BY <1>2, SpreadSnoc
  <2>3. DotsWithin(Spread(f, u), u)
    BY <1>4
  <2>4. CASE x.c \in DOMAIN Placeholders /\ Placeholders[x.c] \in DOMAIN ps
    <3> DEFINE o == Spread(f, u)
               v == f[x]
               ux == u \o <<x>>
    <3>1. (\A t \in Range(v) : ~ Delimits(t)) /\ ~ IsDots(v)
      BY <1>a, <2>0, <2>4, NoValueDelimits, EscapedIsNoDots
    <3>2. o \in Seq(B) /\ v \in Seq(B) /\ DotsWithin(o, u)
      BY <2>0, <2>1, <2>3
    <3>3. Closed(u) => Closed(ux)
      BY DotsSnoc
    <3> HIDE DEF o, v, ux
    <3>4. (\A n \in 0..2 : ~ Opens(o \o v, n)) /\ (Closed(o \o v) => Closed(o))
      BY <3>1, <3>2, DotsStop
    <3>5. DotsWithin(o \o v, ux)
      BY <3>2, <3>3, <3>4 DEF DotsWithin
    <3> QED BY <2>0, <2>2, <3>5 DEF o, v, ux
  <2>5. CASE ~ (x.c \in DOMAIN Placeholders /\ Placeholders[x.c] \in DOMAIN ps)
    <3>1. f[x] = <<x>>
      BY <2>0, <2>5 DEF Piece
    <3>2. DotsWithin(Spread(f, u) \o <<x>>, u \o <<x>>)
      BY <2>0, <2>1, <2>3, DotsWithinSnoc
    <3> QED BY <2>0, <2>2, <3>1, <3>2
  <2> QED BY <2>4, <2>5
<1>5. text \in P
  <2> HIDE DEF P
  <2> QED BY <1>1, <1>3, <1>4, SnocInduction
<1>6. Expand(text, ps, Escaped) = Spread(f, text)
  BY <1>1, <1>2, ExpandIsASpread
<1>7. Spread(f, text) \in Seq(B)
  BY <1>1, <1>2, SpreadIsASeq
<1> DEFINE out == Spread(f, text)
<1>8. DotsWithin(out, text)
  BY <1>5
<1> HIDE DEF out, P
<1>9. HasDotSegment(out) => HasDotSegment(text)
  <2>1. HasDotSegment(out) <=> Closed(out) \/ Opens(out, 1) \/ Opens(out, 2)
    BY <1>7, DotSegments DEF out
  <2>2. HasDotSegment(text) <=> Closed(text) \/ Opens(text, 1) \/ Opens(text, 2)
    BY <1>1, DotSegments
  <2> QED BY <1>8, <2>1, <2>2 DEF DotsWithin
<1> QED BY <1>6, <1>9 DEF out

----------------------------------------------------------------------------
\* A token as it is read back.
DecodedToken(t) == [t EXCEPT !.esc = FALSE, !.c = IF @ = "exponent" THEN "number" ELSE @]

\* A text is read back token by token.
LEMMA DecodedIsASeq ==
    ASSUME NEW A, NEW s \in Seq(A), NEW C, C = {DecodedToken(t) : t \in A}
    PROVE  Decoded(s) \in Seq(C) /\ Len(Decoded(s)) = Len(s)
           /\ \A k \in 1..Len(s) : Decoded(s)[k] = DecodedToken(s[k])
<1>1. Decoded(s) = [k \in DOMAIN s |-> DecodedToken(s[k])]
  BY DEF Decoded, DecodedToken
<1>2. Len(s) \in Nat /\ DOMAIN s = 1..Len(s) /\ \A k \in 1..Len(s) : s[k] \in A
  OBVIOUS
<1>3. \A k \in 1..Len(s) : DecodedToken(s[k]) \in C
  BY <1>2
<1>4. Decoded(s) \in [1..Len(s) -> C]
  BY <1>1, <1>2, <1>3
<1>5. \A k \in 1..Len(s) : Decoded(s)[k] = DecodedToken(s[k])
  BY <1>1, <1>2
<1> HIDE DEF DecodedToken, Decoded
<1> QED BY <1>2, <1>4, <1>5

\* A text is decoded in parts.
LEMMA DecodedConcat ==
    ASSUME NEW A, NEW s \in Seq(A), NEW t \in Seq(A)
    PROVE  Decoded(s \o t) = Decoded(s) \o Decoded(t)
<1> DEFINE C == {DecodedToken(u) : u \in A}
           st == s \o t
           ds == Decoded(s)
           dt == Decoded(t)
           dst == Decoded(st)
           d == ds \o dt
<1>1. C = {DecodedToken(u) : u \in A}
  OBVIOUS
<1> HIDE DEF C
<1>2. /\ st \in Seq(A) /\ Len(st) = Len(s) + Len(t) /\ Len(s) \in Nat /\ Len(t) \in Nat
      /\ \A i \in 1..(Len(s) + Len(t)) : st[i] = IF i <= Len(s) THEN s[i] ELSE t[i - Len(s)]
  BY ConcatProperties
<1> HIDE DEF st
<1>3. ds \in Seq(C) /\ Len(ds) = Len(s) /\ \A k \in 1..Len(s) : ds[k] = DecodedToken(s[k])
  BY <1>1, DecodedIsASeq
<1>4. dt \in Seq(C) /\ Len(dt) = Len(t) /\ \A k \in 1..Len(t) : dt[k] = DecodedToken(t[k])
  BY <1>1, DecodedIsASeq
<1>5. dst \in Seq(C) /\ Len(dst) = Len(st) /\ \A k \in 1..Len(st) : dst[k] = DecodedToken(st[k])
  BY <1>1, <1>2, DecodedIsASeq
<1> HIDE DEF ds, dt, dst
<1>6. /\ d \in Seq(C) /\ Len(d) = Len(s) + Len(t)
      /\ \A i \in 1..(Len(s) + Len(t)) : d[i] = IF i <= Len(s) THEN ds[i] ELSE dt[i - Len(s)]
  <2>1. ds \in Seq(C) /\ dt \in Seq(C)
    BY <1>3, <1>4
  <2>2. /\ d \in Seq(C) /\ Len(d) = Len(ds) + Len(dt)
        /\ \A i \in 1..Len(ds) + Len(dt) : d[i] = IF i <= Len(ds) THEN ds[i] ELSE dt[i - Len(ds)]
    BY <2>1, ConcatProperties
  <2> HIDE DEF d
  <2> QED BY <1>3, <1>4, <2>2
<1> HIDE DEF d
<1>7. ASSUME NEW i \in 1..(Len(s) + Len(t)) PROVE dst[i] = d[i]
  <2>0. dst[i] = DecodedToken(st[i])
    BY <1>2, <1>5
  <2>1. CASE i <= Len(s)
    <3>1. i \in 1..Len(s)
      BY <1>2, <2>1
    <3> QED BY <1>2, <1>3, <1>6, <2>0, <2>1, <3>1
  <2>2. CASE ~ (i <= Len(s))
    <3>1. i - Len(s) \in 1..Len(t)
      BY <1>2, <2>2
    <3> QED BY <1>2, <1>4, <1>6, <2>0, <2>2, <3>1
  <2> QED BY <2>1, <2>2
<1>8. dst = d
  BY <1>2, <1>5, <1>6, <1>7, SeqEqual
<1> QED BY <1>8 DEF dst, d, ds, dt, st

\* Escaping is undone by the decoding.
LEMMA DecodedTwice ==
    ASSUME NEW t, IsToken(t)
    PROVE  DecodedToken(PathEscape(t)) = DecodedToken(t)
BY DEF IsToken, PathEscape, DecodedToken

\* What an argument is decoded to reads like the argument, escaped or not.
LEMMA PieceReads ==
    ASSUME NEW t, NEW ps, AreWritten(ps), NEW escaped, NEW value, IsText(value),
           t.c \in DOMAIN Placeholders, Placeholders[t.c] \in DOMAIN ps,
           Decoded(ValueString(ps[Placeholders[t.c]])) = Decoded(value)
    PROVE  Decoded(Piece(t, ps, escaped)) = Decoded(value)
<1> DEFINE w == ValueString(ps[Placeholders[t.c]])
           out == [j \in DOMAIN w |-> PathEscape(w[j])]
<1>1. IsText(w) /\ Decoded(w) = Decoded(value)
  BY DEF AreWritten
<1>2. Piece(t, ps, escaped) = IF escaped THEN out ELSE w
  BY DEF Piece
<1> HIDE DEF w
<1>3. Decoded(out) = Decoded(w)
  <2>1. Decoded(out) = [k \in DOMAIN w |-> DecodedToken(out[k])]
    BY DEF Decoded, DecodedToken
  <2>2. Decoded(w) = [k \in DOMAIN w |-> DecodedToken(w[k])]
    BY DEF Decoded, DecodedToken
  <2>3. ASSUME NEW k \in DOMAIN w PROVE DecodedToken(out[k]) = DecodedToken(w[k])
    <3>1. IsToken(w[k])
      BY <1>1 DEF IsText, Range
    <3>2. out[k] = PathEscape(w[k])
      OBVIOUS
    <3> QED BY <3>1, <3>2, DecodedTwice
  <2> HIDE DEF out
  <2> QED BY <2>1, <2>2, <2>3
<1> QED BY <1>1, <1>2, <1>3

IsSplit(text, k, a, b, S) == a \in Seq(S) /\ b \in Seq(S) /\ text = (a \o <<text[k]>>) \o b

\* A text is its parts before, at and after one of its tokens.
LEMMA SplitAt ==
    ASSUME NEW A, NEW text \in Seq(A), NEW k \in 1..Len(text), NEW S,
           \A i \in 1..Len(text) : i # k => text[i] \in S,
           NEW a, NEW b, a = SubSeq(text, 1, k - 1), b = SubSeq(text, k + 1, Len(text))
    PROVE  IsSplit(text, k, a, b, S)
<1> DEFINE n == Len(text)
           T == A \cup S
           ax == a \o <<text[k]>>
<1>0. n \in Nat /\ text \in Seq(T) /\ text[k] \in T /\ k \in Nat
  OBVIOUS
<1>1. a \in Seq(S) /\ Len(a) = k - 1 /\ \A i \in 1..(k - 1) : a[i] = text[i]
  <2>1. \A i \in 1..(k - 1) : text[i] \in S
    BY <1>0
  <2> HIDE DEF n, T
  <2>2. a \in Seq(S)
    BY <1>0, <2>1, SubSeqProperties
  <2>3. Len(a) = k - 1
    BY <1>0, <2>1, SubSeqProperties
  <2>4. \A i \in 1..(k - 1) : a[i] = text[i]
    BY <1>0, <2>1, SubSeqProperties
  <2> QED BY <2>2, <2>3, <2>4
<1>2. b \in Seq(S) /\ Len(b) = n - k /\ \A i \in 1..(n - k) : b[i] = text[k + i]
  <2>1. \A i \in (k + 1)..n : text[i] \in S
    BY <1>0
  <2>2. b = SubSeq(text, k + 1, n)
    OBVIOUS
  <2> HIDE DEF n, T
  <2>3. b \in Seq(S)
    BY <1>0, <2>1, <2>2, SubSeqProperties
  <2>4. Len(b) = n - k
    BY <1>0, <2>1, <2>2, SubSeqProperties DEF n
  <2>5. \A i \in 1..(n - k) : b[i] = text[k + i]
    BY <1>0, <2>1, <2>2, SubSeqProperties
  <2> QED BY <2>3, <2>4, <2>5
<1>3. a \in Seq(T) /\ b \in Seq(T)
  BY <1>1, <1>2
<1>4. /\ ax \in Seq(T) /\ Len(ax) = k /\ ax[k] = text[k]
      /\ \A i \in 1..(k - 1) : ax[i] = text[i]
  <2>1. /\ ax \in Seq(T) /\ Len(ax) = Len(a) + 1 /\ ax[Len(a) + 1] = text[k]
        /\ \A i \in 1..Len(a) : ax[i] = a[i]
    <3> HIDE DEF T
    <3> QED BY <1>0, <1>3, ConcatOne
  <2> HIDE DEF ax
  <2> QED BY <1>0, <1>1, <2>1
<1>5. text = ax \o b
  <2> DEFINE all == ax \o b
  <2>1. /\ all \in Seq(T) /\ Len(all) = Len(ax) + Len(b)
        /\ \A i \in 1..Len(ax) + Len(b) : all[i] = IF i <= Len(ax) THEN ax[i] ELSE b[i - Len(ax)]
    <3>1. ax \in Seq(T)
      BY <1>4
    <3>2. b \in Seq(T)
      BY <1>3
    <3> HIDE DEF T, ax
    <3> QED BY <3>1, <3>2, ConcatProperties
  <2> HIDE DEF all, ax, T
  <2>2. Len(all) = n /\ \A i \in 1..n : all[i] = IF i <= k THEN ax[i] ELSE b[i - k]
    BY <1>0, <1>2, <1>4, <2>1
  <2>3. ASSUME NEW i \in 1..n PROVE all[i] = text[i]
    <3>1. CASE i <= k - 1
      <4>1. i \in 1..(k - 1) /\ i <= k
        BY <1>0, <3>1
      <4> QED BY <1>4, <2>2, <4>1
    <3>2. CASE i = k
      BY <1>0, <1>4, <2>2, <3>2
    <3>3. CASE i > k
      <4>1. i - k \in 1..(n - k) /\ k + (i - k) = i /\ ~ (i <= k)
        BY <1>0, <3>3
      <4> QED BY <1>2, <2>2, <4>1
    <3> QED BY <1>0, <3>1, <3>2, <3>3
  <2>4. all = text
    <3> HIDE DEF n
    <3>1. Len(text) = n
      BY DEF n
    <3> QED BY <1>0, <2>1, <2>2, <2>3, <3>1, SeqEqual
  <2> QED BY <2>4 DEF all
<1> QED BY <1>1, <1>2, <1>5 DEF IsSplit

IsSpreadAt(A, B, f, S, a, x, b, s, out) ==
    /\ f \in [A -> Seq(B)] /\ S \in SUBSET A /\ \A t \in S : f[t] = <<t>>
    /\ a \in Seq(S) /\ x \in A /\ b \in Seq(S)
    /\ s = (a \o <<x>>) \o b /\ out = (a \o f[x]) \o b

\* Only the piece of the one token that has another is new.
LEMMA SpreadAt ==
    ASSUME NEW A, NEW B, NEW f, NEW S, NEW a, NEW x, NEW b, NEW s, NEW out,
           IsSpreadAt(A, B, f, S, a, x, b, s, out)
    PROVE  Spread(f, s) = out
<1> DEFINE ax == a \o <<x>>
<1>1. f \in [A -> Seq(B)]
  BY DEF IsSpreadAt
<1>2. a \in Seq(A) /\ b \in Seq(A) /\ x \in A
  <2>1. S \subseteq A /\ a \in Seq(S) /\ b \in Seq(S) /\ x \in A
    BY DEF IsSpreadAt
  <2> QED BY <2>1, SeqMonotonic
<1>3. ax \in Seq(A)
  BY <1>2
<1>4. Spread(f, ax) = Spread(f, a) \o f[x]
  BY <1>1, <1>2, SpreadSnoc
<1> HIDE DEF ax
<1>5. Spread(f, ax \o b) = Spread(f, ax) \o Spread(f, b)
  <2>1. b \in Seq(A)
    BY <1>2
  <2> QED BY <1>1, <1>3, <2>1, SpreadConcat
<1>6. ASSUME NEW u \in Seq(S) PROVE Spread(f, u) = u
  <2>1. S \in SUBSET A /\ \A t \in S : f[t] = <<t>>
    BY DEF IsSpreadAt
  <2> QED BY <1>1, <2>1, SpreadSame
<1>7. Spread(f, a) = a /\ Spread(f, b) = b
  BY <1>6 DEF IsSpreadAt
<1>8. s = ax \o b /\ out = (a \o f[x]) \o b
  BY DEF IsSpreadAt, ax
<1> QED BY <1>4, <1>5, <1>7, <1>8

\* A text with one placeholder, once it is expanded, holds the value there.
LEMMA ExpansionHolds ==
    ASSUME NEW text, IsText(text), NEW ps, AreWritten(ps), NEW escaped, NEW value, IsText(value),
           NEW p, RefsIn(text) = {p}, p \in DOMAIN ps,
           Decoded(ValueString(ps[p])) = Decoded(value)
    PROVE  Holds(Expand(text, ps, escaped), text, value)
<1> SUFFICES ASSUME NEW k \in Slots(text), Slots(text) = {k}
             PROVE  Decoded(Expand(text, ps, escaped)) =
                      Decoded(SubSeq(text, 1, k - 1) \o value \o SubSeq(text, k + 1, Len(text)))
  BY DEF Holds
<1> DEFINE A == Range(text)
           S == {t \in A : t.c \notin DOMAIN Placeholders}
           x == text[k]
           a == SubSeq(text, 1, k - 1)
           b == SubSeq(text, k + 1, Len(text))
<1>1. /\ text \in Seq(A) /\ Len(text) \in Nat /\ DOMAIN text = 1..Len(text) /\ k \in 1..Len(text)
      /\ x \in A /\ x.c \in DOMAIN Placeholders
  BY DEF IsText, Range, Slots
<1>2. Placeholders[x.c] = p
  BY <1>1 DEF RefsIn
<1>3. \A i \in 1..Len(text) : i # k => text[i] \in S
  BY <1>1 DEF Slots, Range
<1>4. S \subseteq A
  OBVIOUS
<1> HIDE DEF A, S
<1>5. a \in Seq(S) /\ b \in Seq(S) /\ text = (a \o <<x>>) \o b
  <2>1. text \in Seq(A)
    BY <1>1
  <2>2. k \in 1..Len(text)
    BY <1>1
  <2>3. a = SubSeq(text, 1, k - 1)
    OBVIOUS
  <2>4. b = SubSeq(text, k + 1, Len(text))
    OBVIOUS
  <2> HIDE DEF a, b
  <2>5. IsSplit(text, k, a, b, S)
    BY <1>3, <2>1, <2>2, <2>3, <2>4, SplitAt
  <2> QED BY <2>5 DEF IsSplit
<1>6. PICK B, f : IsExpansion(f, A, B, ps, escaped)
  BY PiecesAreSeqs
<1>7. f \in [A -> Seq(B)] /\ A \subseteq B /\ \A t \in A : f[t] = Piece(t, ps, escaped)
  BY <1>6 DEF IsExpansion
<1>8. Expand(text, ps, escaped) = Spread(f, text)
  BY <1>1, <1>7, ExpandIsASpread
<1> HIDE DEF x, a, b
<1>9. a \in Seq(B) /\ b \in Seq(B) /\ f[x] \in Seq(B)
  <2>1. S \subseteq B
    BY <1>4, <1>7
  <2>2. a \in Seq(B) /\ b \in Seq(B)
    BY <1>5, <2>1, SeqMonotonic
  <2> QED BY <1>1, <1>7, <2>2
<1>12. Spread(f, text) = (a \o f[x]) \o b
  <2>1. \A t \in S : f[t] = <<t>>
    BY <1>4, <1>7 DEF S, Piece
  <2>2. f \in [A -> Seq(B)]
    BY <1>7
  <2> DEFINE out == (a \o f[x]) \o b
  <2>3. IsSpreadAt(A, B, f, S, a, x, b, text, out)
    BY <1>1, <1>4, <1>5, <2>1, <2>2 DEF IsSpreadAt
  <2> HIDE DEF out
  <2>4. Spread(f, text) = out
    BY <2>3, SpreadAt
  <2> QED BY <2>4 DEF out
<1>13. Decoded(f[x]) = Decoded(value)
  <2>1. f[x] = Piece(x, ps, escaped)
    BY <1>1, <1>7
  <2> QED BY <1>1, <1>2, <2>1, PieceReads
<1>14. Decoded((a \o f[x]) \o b) = (Decoded(a) \o Decoded(f[x])) \o Decoded(b)
  <2>1. a \o f[x] \in Seq(B)
    BY <1>9
  <2>2. Decoded((a \o f[x]) \o b) = Decoded(a \o f[x]) \o Decoded(b)
    BY <1>9, <2>1, DecodedConcat
  <2>3. Decoded(a \o f[x]) = Decoded(a) \o Decoded(f[x])
    BY <1>9, DecodedConcat
  <2> QED BY <2>2, <2>3
<1>15. Decoded((a \o value) \o b) = (Decoded(a) \o Decoded(value)) \o Decoded(b)
  <2> DEFINE V == B \cup Range(value)
  <2>1. a \in Seq(V) /\ b \in Seq(V) /\ value \in Seq(V)
    <3>1. value \in Seq(Range(value))
      BY DEF IsText
    <3>2. B \subseteq V /\ Range(value) \subseteq V
      OBVIOUS
    <3> HIDE DEF V
    <3> QED BY <1>9, <3>1, <3>2, SeqMonotonic
  <2> HIDE DEF V
  <2>2. a \o value \in Seq(V)
    BY <2>1
  <2>3. Decoded((a \o value) \o b) = Decoded(a \o value) \o Decoded(b)
    BY <2>1, <2>2, DecodedConcat
  <2>4. Decoded(a \o value) = Decoded(a) \o Decoded(value)
    BY <2>1, DecodedConcat
  <2> QED BY <2>3, <2>4
<1>16. Decoded(Spread(f, text)) = Decoded((a \o value) \o b)
  BY <1>12, <1>13, <1>14, <1>15
<1> QED BY <1>8, <1>16 DEF a, b

\* A text without a placeholder is left as it is.
LEMMA ExpansionKeeps ==
    ASSUME NEW text, IsText(text), NEW ps, AreWritten(ps), NEW escaped, RefsIn(text) = {}
    PROVE  Expand(text, ps, escaped) = text
<1> DEFINE A == Range(text)
<1>1. text \in Seq(A) /\ \A t \in A : t.c \notin DOMAIN Placeholders
  BY DEF IsText, RefsIn
<1> HIDE DEF A
<1>2. PICK B, f : IsExpansion(f, A, B, ps, escaped)
  BY PiecesAreSeqs
<1>3. f \in [A -> Seq(B)] /\ \A t \in A : f[t] = Piece(t, ps, escaped)
  BY <1>2 DEF IsExpansion
<1>4. Expand(text, ps, escaped) = Spread(f, text)
  BY <1>1, <1>3, ExpandIsASpread
<1>5. Spread(f, text) = text
  <2> DEFINE S == A
  <2>1. \A t \in S : f[t] = <<t>>
    BY <1>1, <1>3 DEF Piece
  <2>2. f \in [A -> Seq(B)]
    BY <1>3
  <2>3. S \in SUBSET A /\ text \in Seq(S)
    BY <1>1
  <2> HIDE DEF S
  <2> QED BY <2>1, <2>2, <2>3, SpreadSame
<1> QED BY <1>4, <1>5

----------------------------------------------------------------------------
\* The inductive invariant.

\* Only an operation that passed its checks is offered, and only a call that
\* the schema admits is decoded.
CallIsAdmitted ==
    /\ operation \in Operations
    /\ phase \notin {"configure", "refused"} => ~OperationRefuses(operation)
    /\ phase \in {"decode", "render", "rendered"} => args \in Calls /\ Admits(operation, args)

\* The parameters are the call's, decoded one by one.
ParametersAreDecoded ==
    phase \in {"render", "rendered"} =>
        /\ DOMAIN params = DOMAIN args \ {Discriminator}
        /\ \A p \in DOMAIN params : params[p] \in DecodedAs(operation.params[p], args[p])

\* The request is the operation, with the parameters in its texts.
RequestIsRendered ==
    request # None => phase = "rendered" /\ request = Rendered(operation, params)

IInv == CallIsAdmitted /\ ParametersAreDecoded /\ RequestIsRendered

----------------------------------------------------------------------------
\* The decoding of one parameter.

\* A value that its parameter admits is decoded to itself, or, an integer for a
\* number, to the same JSON.
LEMMA DecodingIsFaithful ==
    ASSUME NEW p, NEW call \in Calls, NEW q \in DOMAIN call, Fits(p, call[q]), IsExact(call[q]),
           NEW w \in DecodedAs(p, call[q])
    PROVE  SameJson(w, call[q])
<1> DEFINE v == call[q]
           n == v.text[1].n
<1>1. CASE v.type = "integer"
  <2>1. n \in Int /\ n \in -Exact..Exact /\ v.text = NumberText(n)
    BY <1>1, TemplateAssumption DEF IsExact, IsValue
  <2>2. Float(n) = n /\ AsInt64(n) = {n}
    BY <2>1, TemplateAssumption DEF AsInt64
  <2>3. CASE p.type = "integer"
    <3>1. w = [type |-> "integer", text |-> NumberText(n)]
      BY <2>2, <2>3 DEF DecodedAs
    <3> QED BY <1>1, <2>1, <3>1 DEF SameJson
  <2>4. CASE p.type = "number"
    <3>1. w = [type |-> "number", text |-> NumberText(n)]
      BY <1>1, <2>2, <2>4 DEF DecodedAs
    <3> QED BY <1>1, <2>1, <3>1 DEF SameJson
  <2> QED BY <1>1, <2>3, <2>4 DEF Fits
<1>2. CASE v.type # "integer"
  <2>1. p.type # "integer"
    BY <1>2 DEF Fits
  <2>2. w = v
    BY <1>2, <2>1 DEF DecodedAs
  <2> QED BY <2>2 DEF SameJson
<1> QED BY <1>1, <1>2

\* A large float is the number, written with an exponent.
LEMMA ExponentOfNumber ==
    ASSUME NEW n
    PROVE  [NumberText(n)[1] EXCEPT !.c = "exponent"] = [c |-> "exponent", n |-> n, esc |-> FALSE]
<1> DEFINE t == NumberText(n)[1]
           e == [t EXCEPT !.c = "exponent"]
<1>1. t = [c |-> "number", n |-> n, esc |-> FALSE]
  BY DEF NumberText
<1> HIDE DEF t
<1>2. t \in [c : {"number"}, n : {n}, esc : {FALSE}]
  BY <1>1
<1>3. e \in [c : {"exponent"}, n : {n}, esc : {FALSE}]
  BY <1>2
<1> HIDE DEF e
<1>4. e = [c |-> "exponent", n |-> n, esc |-> FALSE]
  BY <1>3
<1> QED BY <1>4 DEF e, t

\* The three fields of a token that is read back.
LEMMA ExponentReads ==
    ASSUME NEW t, IsToken(t)
    PROVE  DecodedToken(t) =
             [c |-> IF t.c = "exponent" THEN "number" ELSE t.c, n |-> t.n, esc |-> FALSE]
<1> DEFINE d == IF t.c = "exponent" THEN "number" ELSE t.c
<1>1. t = [c |-> t.c, n |-> t.n, esc |-> t.esc]
  BY DEF IsToken
<1>2. t \in [c : {t.c}, n : {t.n}, esc : {t.esc}]
  BY <1>1
<1> HIDE DEF d
<1>3. DecodedToken(t) = [t EXCEPT !.esc = FALSE, !.c = d]
  BY DEF DecodedToken, d
<1>4. [t EXCEPT !.esc = FALSE, !.c = d] \in [c : {d}, n : {t.n}, esc : {FALSE}]
  BY <1>2
<1>5. DecodedToken(t) = [c |-> d, n |-> t.n, esc |-> FALSE]
  BY <1>3, <1>4
<1> QED BY <1>5 DEF d

\* A text of one token is read back as that token.
LEMMA DecodedOne ==
    ASSUME NEW t
    PROVE  Decoded(<<t>>) = <<DecodedToken(t)>>
<1>1. DOMAIN <<t>> = {1} /\ <<t>>[1] = t
  OBVIOUS
<1>2. Decoded(<<t>>) = [k \in {1} |-> DecodedToken(t)]
  BY <1>1 DEF Decoded, DecodedToken
<1> HIDE DEF DecodedToken
<1>3. <<DecodedToken(t)>> = [k \in {1} |-> DecodedToken(t)]
  OBVIOUS
<1> QED BY <1>2, <1>3

\* What an argument is decoded to can be written out.
LEMMA DecodingIsWritten ==
    ASSUME NEW p, NEW v, IsValue(v), Fits(p, v), NEW w \in DecodedAs(p, v)
    PROVE  IsText(ValueString(w))
<1>1. ASSUME NEW t, IsToken(t) PROVE IsText(<<t>>)
  <2>1. Range(<<t>>) = {t} /\ <<t>> \in Seq({t})
    BY DEF Range
  <2> QED BY <1>1, <2>1 DEF IsText
<1>2. ASSUME NEW n PROVE /\ IsText(NumberText(n))
                         /\ IsText(<<[NumberText(n)[1] EXCEPT !.c = "exponent"]>>)
  <2>1. NumberText(n) = <<[c |-> "number", n |-> n, esc |-> FALSE]>>
    BY DEF NumberText
  <2>2. [NumberText(n)[1] EXCEPT !.c = "exponent"] = [c |-> "exponent", n |-> n, esc |-> FALSE]
    BY ExponentOfNumber
  <2>3. /\ IsToken([c |-> "number", n |-> n, esc |-> FALSE])
        /\ IsToken([c |-> "exponent", n |-> n, esc |-> FALSE])
    BY DEF IsToken
  <2> QED BY <1>1, <2>1, <2>2, <2>3
<1>3. w = v \/ \E n : w.text = NumberText(n)
  <2>1. CASE p.type = "integer"
    BY <2>1 DEF DecodedAs
  <2>2. CASE p.type # "integer" /\ p.type = "number" /\ v.type = "integer"
    BY <2>2 DEF DecodedAs
  <2>3. CASE p.type # "integer" /\ ~ (p.type = "number" /\ v.type = "integer")
    BY <2>3 DEF DecodedAs
  <2> QED BY <2>1, <2>2, <2>3
<1>4. CASE \E n : w.text = NumberText(n)
  <2>1. PICK n : w.text = NumberText(n)
    BY <1>4
  <2>2. ValueString(w) \in {w.text, <<[w.text[1] EXCEPT !.c = "exponent"]>>}
    BY DEF ValueString
  <2> QED BY <1>2, <2>1, <2>2
<1>5. CASE w = v /\ v.type # "number"
  BY <1>5 DEF ValueString, IsValue
<1>6. CASE w = v /\ v.type = "number"
  <2>1. \E n : w.text = NumberText(n)
    BY <1>6 DEF IsValue
  <2> QED BY <1>4, <2>1
<1> QED BY <1>3, <1>4, <1>5, <1>6

\* What is written out of an argument reads like the argument.
LEMMA DecodingReads ==
    ASSUME NEW p, NEW call \in Calls, NEW q \in DOMAIN call, Fits(p, call[q]), IsExact(call[q]),
           NEW w \in DecodedAs(p, call[q])
    PROVE  Decoded(ValueString(w)) = Decoded(call[q].text)
<1> DEFINE v == call[q]
<1>1. SameJson(w, v)
  BY DecodingIsFaithful
<1>2. IsValue(v)
  BY TemplateAssumption
<1>3. CASE ValueString(w) = w.text
  BY <1>1, <1>3 DEF SameJson
<1>4. CASE ValueString(w) # w.text
  <2>1. w.type = "number" /\ ValueString(w) = <<[w.text[1] EXCEPT !.c = "exponent"]>>
    BY <1>4 DEF ValueString
  <2>2. v.type \in {"number", "integer"} /\ w.text = v.text
    BY <1>1, <2>1 DEF SameJson
  <2>3. PICK n : w.text = NumberText(n) /\ v.text = NumberText(n)
    BY <1>2, <2>2 DEF IsValue
  <2>4. ValueString(w) = <<[c |-> "exponent", n |-> n, esc |-> FALSE]>>
    BY <2>1, <2>3, ExponentOfNumber
  <2>5. v.text = <<[c |-> "number", n |-> n, esc |-> FALSE]>>
    BY <2>3 DEF NumberText
  <2>6. ASSUME NEW t PROVE Decoded(<<t>>) = <<DecodedToken(t)>>
    BY DecodedOne
  <2>7. DecodedToken([c |-> "exponent", n |-> n, esc |-> FALSE])
          = DecodedToken([c |-> "number", n |-> n, esc |-> FALSE])
    <3>1. ASSUME NEW c \in {"number", "exponent"}, NEW t, t = [c |-> c, n |-> n, esc |-> FALSE]
          PROVE  DecodedToken(t) = [c |-> "number", n |-> n, esc |-> FALSE]
      <4>1. IsToken(t) /\ t.n = n /\ t.c \in {"number", "exponent"}
        BY <3>1 DEF IsToken
      <4>2. DecodedToken(t) =
              [c |-> IF t.c = "exponent" THEN "number" ELSE t.c, n |-> t.n, esc |-> FALSE]
        BY <4>1, ExponentReads
      <4>3. (IF t.c = "exponent" THEN "number" ELSE t.c) = "number"
        BY <4>1
      <4> QED BY <4>1, <4>2, <4>3
    <3> QED BY <3>1
  <2> QED BY <2>4, <2>5, <2>6, <2>7
<1> QED BY <1>3, <1>4

----------------------------------------------------------------------------
\* The invariant is inductive.

\* Every initial state satisfies the invariant.
LEMMA InitInvariant == Init => IInv
BY DEF Init, IInv, CallIsAdmitted, ParametersAreDecoded, RequestIsRendered

\* Every step keeps the invariant.
LEMMA NextInvariant == IInv /\ [Next]_vars => IInv'
<1> SUFFICES ASSUME IInv, [Next]_vars PROVE IInv'
  OBVIOUS
<1> USE DEF IInv
<1>1. CASE Configure
  BY <1>1 DEF Configure, CallIsAdmitted, ParametersAreDecoded, RequestIsRendered
<1>2. ASSUME NEW call \in Calls, Call(call) PROVE IInv'
  <2>1. CallIsAdmitted'
    BY <1>2 DEF Call, CallIsAdmitted
  <2>2. ParametersAreDecoded' /\ RequestIsRendered'
    BY <1>2 DEF Call, ParametersAreDecoded, RequestIsRendered
  <2> QED BY <2>1, <2>2
<1>3. CASE Decode
  <2>1. /\ DOMAIN params' = DOMAIN args \ {Discriminator}
        /\ \A p \in DOMAIN args \ {Discriminator} :
              params'[p] \in DecodedAs(operation.params[p], args[p])
    BY <1>3 DEF Decode
  <2>2. phase = "decode" /\ phase' = "render" /\ UNCHANGED <<operation, args, request>>
    BY <1>3 DEF Decode
  <2>3. CallIsAdmitted' /\ RequestIsRendered'
    BY <2>2 DEF CallIsAdmitted, RequestIsRendered
  <2>4. ParametersAreDecoded'
    BY <2>1, <2>2 DEF ParametersAreDecoded
  <2> QED BY <2>3, <2>4
<1>4. CASE Render
  <2>1. phase = "render" /\ phase' = "rendered" /\ UNCHANGED <<operation, args, params>>
    BY <1>4 DEF Render
  <2>2. CallIsAdmitted' /\ ParametersAreDecoded'
    BY <2>1 DEF CallIsAdmitted, ParametersAreDecoded
  <2>4. RequestIsRendered'
    BY <1>4, <2>1 DEF Render, RequestIsRendered
  <2> QED BY <2>2, <2>4
<1>5. CASE UNCHANGED vars
  BY <1>5 DEF vars, CallIsAdmitted, ParametersAreDecoded, RequestIsRendered
<1> QED BY <1>1, <1>2, <1>3, <1>4, <1>5 DEF Next

----------------------------------------------------------------------------
\* The theorems.

\* The invariant holds in every state of the specification.
THEOREM Invariance == Spec => []IInv
BY InitInvariant, NextInvariant, PTL DEF Spec

\* Every variable has its type.
THEOREM TypeCorrectness == Spec => []TypeOK
<1>1. Init => TypeOK
  BY DEF Init, TypeOK
<1>2. TypeOK /\ [Next]_vars => TypeOK'
  BY DEF TypeOK, Next, vars, Configure, Call, Decode, Render
<1> QED BY <1>1, <1>2, PTL DEF Spec

\* The parameters of a request, and what they were decoded from.
LEMMA ParametersAreKnown ==
    ASSUME IInv, request # None
    PROVE  /\ operation \in Operations /\ args \in Calls /\ AreWritten(params)
           /\ request = Rendered(operation, params)
           /\ DOMAIN params = DOMAIN args \ {Discriminator}
           /\ \A p \in DOMAIN params :
                Fits(operation.params[p], args[p])
                    /\ params[p] \in DecodedAs(operation.params[p], args[p])
<1>1. /\ operation \in Operations /\ args \in Calls /\ Admits(operation, args)
      /\ request = Rendered(operation, params)
      /\ DOMAIN params = DOMAIN args \ {Discriminator}
      /\ \A p \in DOMAIN params : params[p] \in DecodedAs(operation.params[p], args[p])
  BY DEF IInv, CallIsAdmitted, ParametersAreDecoded, RequestIsRendered
<1>2. \A p \in DOMAIN params : Fits(operation.params[p], args[p])
  BY <1>1 DEF Admits
<1>3. ASSUME NEW p \in DOMAIN params PROVE IsText(ValueString(params[p]))
  <2>1. IsValue(args[p])
    BY <1>1, TemplateAssumption
  <2> QED BY <1>1, <1>2, <2>1, DecodingIsWritten
<1> QED BY <1>1, <1>2, <1>3 DEF AreWritten

\* A leaf without a placeholder is the same JSON in the request.
LEMMA LeafStands ==
    ASSUME NEW leaf, IsValue(leaf), NEW ps, AreWritten(ps), RefsIn(leaf.text) = {}, IsExact(leaf)
    PROVE  SameJson(Leaf(leaf, ps), leaf)
<1>1. CASE leaf.type = "integer"
  <2>1. leaf.text = NumberText(leaf.text[1].n) /\ Float(leaf.text[1].n) = leaf.text[1].n
    BY <1>1, TemplateAssumption DEF IsValue, IsExact
  <2>2. Leaf(leaf, ps) = [type |-> "number", text |-> leaf.text]
    BY <1>1, <2>1 DEF Leaf
  <2> QED BY <1>1, <2>2 DEF SameJson
<1>2. CASE leaf.type # "integer" /\ leaf.type # "string"
  BY <1>2 DEF Leaf, SameJson
<1>3. CASE leaf.type = "string"
  <2>1. ~ IsWhole(leaf.text)
    BY DEF IsWhole, RefsIn, Range
  <2>2. Leaf(leaf, ps) = [type |-> "string", text |-> Expand(leaf.text, ps, Plainly)]
    BY <1>3, <2>1 DEF Leaf, Plainly
  <2>3. IsText(leaf.text)
    BY DEF IsValue
  <2>4. Expand(leaf.text, ps, Plainly) = leaf.text
    BY <2>3, ExpansionKeeps
  <2> QED BY <1>3, <2>2, <2>4 DEF SameJson
<1> QED BY <1>1, <1>2, <1>3

\* ValuesStayInTheirSlots: no value adds a segment to the path or ends one, none
\* gives it a segment "." or ".." unless the value is made of dots alone or empty,
\* and none changes the JSON around its placeholder (Handler, render).
THEOREM NoValueLeavesItsSlot == Spec => []ValuesStayInTheirSlots
<1>1. IInv => ValuesStayInTheirSlots
  <2> SUFFICES ASSUME IInv, request # None PROVE ValuesStayInTheirSlots
    BY DEF ValuesStayInTheirSlots
  <2>1. operation \in Operations /\ AreWritten(params) /\ request = Rendered(operation, params)
    BY ParametersAreKnown
  <2>2. /\ request.path = Expand(operation.path, params, Escaped)
        /\ request.body = Body(operation, params)
        /\ IsText(operation.path)
    BY <2>1, TemplateAssumption DEF Rendered, Escaped
  <2>3. DelimitersOf(request.path) = DelimitersOf(operation.path)
    BY <2>1, <2>2, DelimitersStand
  <2>4. ASSUME HasDotSegment(request.path), ~ HasDotSegment(operation.path)
        PROVE  \E p \in RefsIn(operation.path) \cap DOMAIN params : IsDots(ValueString(params[p]))
    BY <2>1, <2>2, <2>4, NoDotSegmentAppears
  <2>5. ASSUME operation.body # None, NEW l \in DOMAIN operation.body.leaves,
               RefsIn(operation.body.leaves[l].text) = {}, IsExact(operation.body.leaves[l])
        PROVE  SameJson(request.body.leaves[l], operation.body.leaves[l])
    <3>1. request.body.leaves[l] = Leaf(operation.body.leaves[l], params)
      BY <2>2, <2>5 DEF Body
    <3>2. IsValue(operation.body.leaves[l])
      BY <2>1, <2>5, TemplateAssumption
    <3>3. SameJson(Leaf(operation.body.leaves[l], params), operation.body.leaves[l])
      BY <2>1, <2>5, <3>2, LeafStands
    <3> QED BY <3>1, <3>3
  <2> QED BY <2>3, <2>4, <2>5 DEF ValuesStayInTheirSlots
<1> QED BY <1>1, Invariance, PTL

\* ParametersArrive: every parameter arrives where its operation has it, as it
\* was given, unless it is an integer that no float64 holds (decodeParams,
\* expandString, substituteJSON).
THEOREM EveryParameterArrives == Spec => []ParametersArrive
<1>1. IInv => ParametersArrive
  <2> SUFFICES ASSUME IInv, request # None PROVE ParametersArrive
    BY DEF ParametersArrive
  <2>1. /\ operation \in Operations /\ args \in Calls /\ AreWritten(params)
        /\ request = Rendered(operation, params)
        /\ DOMAIN params = DOMAIN args \ {Discriminator}
        /\ \A p \in DOMAIN params :
             Fits(operation.params[p], args[p])
                 /\ params[p] \in DecodedAs(operation.params[p], args[p])
    BY ParametersAreKnown
  <2>2. /\ request.path = Expand(operation.path, params, Escaped)
        /\ \A k \in DOMAIN operation.query :
             request.query[k] = Expand(operation.query[k], params, Plainly)
        /\ request.body = Body(operation, params)
    BY <2>1 DEF Rendered, Escaped, Plainly
  <2>3. ASSUME NEW p \in DOMAIN operation.params \ {Discriminator}, operation.params[p].required
        PROVE  p \in DOMAIN params
    BY <2>1, <2>3 DEF IInv, CallIsAdmitted, RequestIsRendered, Admits
  <2>4. ASSUME NEW p \in DOMAIN args \ {Discriminator}, IsExact(args[p])
        PROVE  /\ p \in DOMAIN params /\ IsText(args[p].text)
               /\ SameJson(params[p], args[p])
               /\ Decoded(ValueString(params[p])) = Decoded(args[p].text)
    <3>1. p \in DOMAIN params /\ p \in DOMAIN args
      BY <2>1
    <3>2. IsText(args[p].text)
      BY <2>1, <3>1, TemplateAssumption DEF IsValue
    <3>3. SameJson(params[p], args[p])
      BY <2>1, <2>4, <3>1, DecodingIsFaithful
    <3>4. Decoded(ValueString(params[p])) = Decoded(args[p].text)
      BY <2>1, <2>4, <3>1, DecodingReads
    <3> QED BY <3>1, <3>2, <3>3, <3>4
  <2>5. ASSUME NEW p \in DOMAIN args \ {Discriminator}, IsExact(args[p]),
               NEW text, IsText(text), RefsIn(text) = {p}, NEW escaped
        PROVE  Holds(Expand(text, params, escaped), text, args[p].text)
    BY <2>1, <2>4, <2>5, ExpansionHolds
  <2>6. ASSUME NEW p \in DOMAIN args \ {Discriminator}, IsExact(args[p]),
               RefsIn(operation.path) = {p}
        PROVE  Holds(request.path, operation.path, args[p].text)
    <3>1. IsText(operation.path)
      BY <2>1, TemplateAssumption
    <3> QED BY <2>2, <2>5, <2>6, <3>1
  <2>7. ASSUME NEW p \in DOMAIN args \ {Discriminator}, IsExact(args[p]),
               NEW k \in DOMAIN operation.query, RefsIn(operation.query[k]) = {p}
        PROVE  Holds(request.query[k], operation.query[k], args[p].text)
    <3>1. IsText(operation.query[k])
      BY <2>1, TemplateAssumption
    <3> QED BY <2>2, <2>5, <2>7, <3>1
  <2>8. ASSUME NEW p \in DOMAIN args \ {Discriminator}, IsExact(args[p]), operation.body # None,
               NEW l \in DOMAIN operation.body.leaves, NEW leaf, leaf = operation.body.leaves[l],
               leaf.type = "string", RefsIn(leaf.text) = {p}
        PROVE  IF IsWhole(leaf.text) THEN SameJson(request.body.leaves[l], args[p])
               ELSE /\ request.body.leaves[l].type = "string"
                    /\ Holds(request.body.leaves[l].text, leaf.text, args[p].text)
    <3>1. request.body.leaves[l] = Leaf(leaf, params)
      BY <2>2, <2>8 DEF Body
    <3>2. IsText(leaf.text)
      BY <2>1, <2>8, TemplateAssumption DEF IsValue
    <3>3. CASE IsWhole(leaf.text)
      <4>1. Placeholders[leaf.text[1].c] = p
        BY <2>8, <3>3 DEF IsWhole, RefsIn, Range
      <4>2. Leaf(leaf, params) = params[p]
        BY <2>4, <2>8, <3>3, <4>1 DEF Leaf
      <4> QED BY <2>4, <2>8, <3>1, <3>3, <4>2
    <3>4. CASE ~ IsWhole(leaf.text)
      <4>1. Leaf(leaf, params) = [type |-> "string", text |-> Expand(leaf.text, params, Plainly)]
        BY <2>8, <3>4 DEF Leaf, Plainly
      <4>2. Holds(Expand(leaf.text, params, Plainly), leaf.text, args[p].text)
        BY <2>5, <2>8, <3>2
      <4> QED BY <3>1, <3>4, <4>1, <4>2
    <3> QED BY <3>3, <3>4
  <2> QED BY <2>3, <2>6, <2>7, <2>8 DEF ParametersArrive
<1> QED BY <1>1, Invariance, PTL
=============================================================================
