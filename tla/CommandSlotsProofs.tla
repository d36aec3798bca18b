-------------------------- MODULE CommandSlotsProofs --------------------------
(***************************************************************************)
(* Proofs about CommandSlots, for every rule and every value: the schema   *)
(* and the driver agree, no value becomes a flag, and what was approved is *)
(* what runs.                                                              *)
(***************************************************************************)
EXTENDS CommandSlots, WellFoundedInduction, TLAPS

----------------------------------------------------------------------------
\* The inductive invariant.

\* Only a rule that passed its checks is offered.
RuleIsSound == phase \notin {"configure", "refused"} => ~RuleRefuses(rule)

\* The Validator's word, and what became of it.
CheckIsKept ==
    /\ phase \in {"configure", "refused", "offered", "called"} => ~checked
    /\ checked => Admits(rule, params)
    /\ phase = "invalid" /\ checked => ~Resolves(rule, params)

\* Only what resolves runs, and it is the last step.
RunIsLast ==
    /\ phase # "ran" => ran = None
    /\ phase = "ran" => Resolves(rule, params) /\ ran = Prompt(rule, params)

\* A checked call of a rule that asks has been shown.
ShownIsThePrompt ==
    phase \in {"dispatch", "invalid", "ran"} /\ checked /\ rule.approval =>
        shown = Prompt(rule, params)

\* A call has filled some slots, with values.
CallIsTyped ==
    phase \notin {"configure", "refused", "offered"} =>
        \E ns \in SUBSET SlotNames : params \in [ns -> Values]

IInv == TypeOK /\ CallIsTyped /\ RuleIsSound /\ CheckIsKept /\ RunIsLast /\ ShownIsThePrompt

----------------------------------------------------------------------------
\* The schema and the driver.

\* What the driver runs, the schema admits.
LEMMA ResolvesIsAdmitted == ASSUME NEW r, NEW ps, Resolves(r, ps) PROVE Admits(r, ps)
<1>1. ASSUME NEW n \in DOMAIN r.params PROVE ps[n] \in Published(r.params[n])
  BY <1>1 DEF Resolves, Valid, Matches, Published
<1> QED BY <1>1 DEF Resolves, Admits

\* What the schema of a sound rule admits, the driver refuses only for what no
\* schema says.
LEMMA AdmittedIsValid ==
    ASSUME NEW r \in Rules, ~RuleRefuses(r), NEW ps, Admits(r, ps), NEW n \in DOMAIN r.params,
           ~StartsWithDash(ps[n]), Range(ps[n]) \cap Controls = {}
    PROVE  Valid(r.params[n], ps[n])
<1> DEFINE d == r.params[n]
<1>1. ps[n] \in Published(d) /\ ~CompileRefuses(d)
  BY DEF Admits, RuleRefuses
<1>2. CASE d.oneOf # {}
  BY <1>1, <1>2 DEF Published, Valid
<1>3. CASE d.oneOf = {}
  <2>1. <<>> \notin d.pattern
    BY <1>1, <1>3 DEF CompileRefuses, PatternRefuses
  <2>2. ps[n] \in d.pattern /\ (d.exclude # NoText => ps[n] \notin d.exclude)
    BY <1>1, <1>3 DEF Published
  <2> QED BY <1>3, <2>1, <2>2 DEF Valid, Matches
<1> QED BY <1>2, <1>3

----------------------------------------------------------------------------
\* What a concatenation of texts holds.

\* A set of naturals that is not empty has a least element.
LEMMA Least == ASSUME NEW S, S \subseteq Nat, S # {} PROVE \E m \in S : \A k \in S : m <= k
<1> DEFINE R == OpToRel(<, Nat)
<1>1. IsWellFoundedOn(R, Nat)
  BY NatLessThanWellFounded
<1>2. R = {ss \in Nat \X Nat : ss[1] < ss[2]}
  BY DEF OpToRel
<1> HIDE DEF R
<1>3. PICK m \in S : \A y \in S : ~ (<<y, m>> \in R)
  BY <1>1, WFMin
<1>4. ASSUME NEW k \in S PROVE m <= k
  <2>1. <<k, m>> \notin R /\ k \in Nat /\ m \in Nat
    BY <1>3
  <2> QED BY <1>2, <2>1
<1> QED BY <1>3, <1>4

\* The concatenations of the first parts, one part longer at each step.
IsFlatten(f, seqs, n) ==
    f = [i \in 1..n |-> IF i = 1 THEN seqs[i] ELSE f[i - 1] \o seqs[i]]

\* The concatenations of the first parts exist, however many there are.
LEMMA FlattenExists ==
    ASSUME NEW seqs, NEW n \in Nat
    PROVE  \E f : IsFlatten(f, seqs, n)
<1> DEFINE Bad == {m \in Nat : ~ \E f : IsFlatten(f, seqs, m)}
<1> SUFFICES ASSUME Bad # {} PROVE FALSE
  OBVIOUS
<1>1. PICK m \in Bad : \A k \in Bad : m <= k
  <2> Bad \subseteq Nat
    OBVIOUS
  <2> HIDE DEF Bad
  <2> QED BY Least
<1>2. m # 0
  <2>1. IsFlatten([i \in 1..0 |-> 0], seqs, 0)
    BY DEF IsFlatten
  <2> QED BY <2>1
<1>3. PICK f : IsFlatten(f, seqs, m - 1)
  BY <1>1, <1>2
<1> DEFINE g == [i \in 1..m |->
             IF i = m THEN (IF m = 1 THEN seqs[1] ELSE f[m - 1] \o seqs[m]) ELSE f[i]]
<1>4. IsFlatten(g, seqs, m)
  <2>0. m \in Nat /\ m >= 1
    BY <1>2
  <2> SUFFICES ASSUME NEW i \in 1..m
               PROVE  g[i] = IF i = 1 THEN seqs[i] ELSE g[i - 1] \o seqs[i]
    BY DEF IsFlatten
  <2>1. CASE i = m
    BY <2>0, <2>1
  <2>2. CASE i # m
    <3>1. i \in 1..(m - 1) /\ g[i] = f[i] /\ (i # 1 => i - 1 \in 1..m /\ i - 1 # m)
      BY <2>0, <2>2
    <3>2. f[i] = IF i = 1 THEN seqs[i] ELSE f[i - 1] \o seqs[i]
      BY <1>3, <3>1 DEF IsFlatten
    <3> QED BY <3>1, <3>2
  <2> QED BY <2>1, <2>2
<1> QED BY <1>4

\* FlattenSeq is the last of the concatenations of the first parts.
LEMMA FlattenIsAFlatten ==
    ASSUME NEW seqs, Len(seqs) \in Nat, Len(seqs) # 0
    PROVE  \E f : IsFlatten(f, seqs, Len(seqs)) /\ FlattenSeq(seqs) = f[Len(seqs)]
<1> DEFINE flat == CHOOSE f : IsFlatten(f, seqs, Len(seqs))
<1>1. IsFlatten(flat, seqs, Len(seqs))
  BY FlattenExists
<1>2. FlattenSeq(seqs) = flat[Len(seqs)]
  BY DEF FlattenSeq, IsFlatten
<1> QED BY <1>1, <1>2

\* What a concatenation holds comes from its parts; it starts as the first part
\* that is not empty, and is empty when they all are.
IsJoin(s, parts, n) ==
    /\ \A j \in 1..Len(s) : \E k \in 1..n : s[j] \in Range(parts[k])
    /\ s = <<>> => \A k \in 1..n : parts[k] = <<>>
    /\ s # <<>> =>
         \E k \in 1..n : /\ parts[k] # <<>> /\ s[1] = parts[k][1]
                        /\ \A j \in 1..(k - 1) : parts[j] = <<>>

\* A join of n parts and the next part are a join of n + 1.
LEMMA Extend ==
    ASSUME NEW T, NEW s \in Seq(T), NEW parts, NEW n \in Nat, IsJoin(s, parts, n),
           parts[n + 1] \in Seq(T)
    PROVE  s \o parts[n + 1] \in Seq(T) /\ IsJoin(s \o parts[n + 1], parts, n + 1)
<1> DEFINE p == parts[n + 1]
           t == s \o p
<1>0. t \in Seq(T) /\ Len(t) = Len(s) + Len(p) /\ Len(s) \in Nat /\ Len(p) \in Nat
  OBVIOUS
<1>1. ASSUME NEW j \in 1..Len(t)
      PROVE  \E k \in 1..(n + 1) : t[j] \in Range(parts[k])
  <2>1. CASE j <= Len(s)
    <3>1. t[j] = s[j] /\ j \in 1..Len(s)
      BY <1>0, <2>1
    <3>2. PICK k \in 1..n : s[j] \in Range(parts[k])
      BY <3>1 DEF IsJoin
    <3> QED BY <3>1, <3>2
  <2>2. CASE j > Len(s)
    <3>1. t[j] = p[j - Len(s)] /\ j - Len(s) \in DOMAIN p
      BY <1>0, <2>2
    <3>2. t[j] \in Range(p)
      BY <3>1 DEF Range
    <3> QED BY <3>2
  <2> QED BY <1>0, <2>1, <2>2
<1>2. ASSUME t = <<>>
      PROVE  \A k \in 1..(n + 1) : parts[k] = <<>>
  <2>1. s = <<>> /\ p = <<>>
    BY <1>0, <1>2
  <2> QED BY <2>1 DEF IsJoin
<1>3. ASSUME t # <<>>
      PROVE  \E k \in 1..(n + 1) : /\ parts[k] # <<>> /\ t[1] = parts[k][1]
                                   /\ \A j \in 1..(k - 1) : parts[j] = <<>>
  <2>1. CASE s = <<>>
    <3>1. p # <<>> /\ t = p
      BY <1>0, <1>3, <2>1
    <3>2. \A j \in 1..((n + 1) - 1) : parts[j] = <<>>
      BY <2>1 DEF IsJoin
    <3>3. n + 1 \in 1..(n + 1)
      OBVIOUS
    <3> QED BY <3>1, <3>2, <3>3
  <2>2. CASE s # <<>>
    <3>1. t[1] = s[1]
      BY <1>0, <2>2
    <3>2. PICK k \in 1..n : /\ parts[k] # <<>> /\ s[1] = parts[k][1]
                            /\ \A j \in 1..(k - 1) : parts[j] = <<>>
      BY <2>2 DEF IsJoin
    <3> QED BY <3>1, <3>2
  <2> QED BY <2>1, <2>2
<1> QED BY <1>0, <1>1, <1>2, <1>3 DEF IsJoin

\* FlattenSeq joins its parts: all of them, in order, and nothing else.
LEMMA FlattenIsJoin ==
    ASSUME NEW T, NEW seqs \in Seq(Seq(T))
    PROVE  FlattenSeq(seqs) \in Seq(T) /\ IsJoin(FlattenSeq(seqs), seqs, Len(seqs))
<1>1. CASE Len(seqs) = 0
  <2>1. seqs = <<>>
    BY <1>1
  <2>2. FlattenSeq(seqs) = <<>>
    BY <1>1, <2>1 DEF FlattenSeq
  <2> QED BY <1>1, <2>2 DEF IsJoin
<1>2. CASE Len(seqs) # 0
  <2> DEFINE n == Len(seqs)
  <2>0. n \in Nat /\ n # 0 /\ \A k \in 1..n : seqs[k] \in Seq(T)
    BY <1>2
  <2>1. PICK f : IsFlatten(f, seqs, n) /\ FlattenSeq(seqs) = f[n]
    BY <2>0, FlattenIsAFlatten
  <2> DEFINE Good(m) == f[m] \in Seq(T) /\ IsJoin(f[m], seqs, m)
             Bad == {m \in 1..n : ~Good(m)}
  <2>2. ASSUME Bad # {} PROVE FALSE
    <3>1. PICK m \in Bad : \A k \in Bad : m <= k
      <4>1. Bad \subseteq Nat
        BY <2>0
      <4> HIDE DEF Bad
      <4> QED BY <2>2, <4>1, Least
    <3>2. CASE m = 1
      <4>1. f[1] = seqs[1] /\ seqs[1] \in Seq(T)
        BY <2>0, <2>1 DEF IsFlatten
      <4>2. IsJoin(seqs[1], seqs, 1)
        BY <4>1 DEF IsJoin, Range
      <4> QED BY <3>2, <4>1, <4>2
    <3>3. CASE m # 1
      <4>1. m - 1 \in 1..n /\ m - 1 \in Nat /\ (m - 1) + 1 = m
        BY <2>0, <3>3
      <4>2. Good(m - 1)
        BY <3>1, <4>1
      <4>3. f[m] = f[m - 1] \o seqs[m]
        BY <2>1, <3>3 DEF IsFlatten
      <4>4. seqs[m] \in Seq(T)
        BY <2>0
      <4> QED BY <4>1, <4>2, <4>3, <4>4, Extend
    <3> QED BY <3>2, <3>3
  <2>3. Good(n)
    BY <2>0, <2>2
  <2> QED BY <2>1, <2>3
<1> QED BY <1>1, <1>2
----------------------------------------------------------------------------
\* What the guest can make of an argument.

\* The texts that substitute puts one after the other.
Parts(arg, ps) ==
    [k \in DOMAIN arg |->
        IF arg[k] \in DOMAIN Placeholders THEN Filling(ps, arg[k]) ELSE <<arg[k]>>]

\* A part is a token of the author's or the valid value of a slot.
LEMMA PartsAreFilled ==
    ASSUME NEW r \in Rules, ~RuleRefuses(r), NEW ps, Resolves(r, ps),
           \A n \in DOMAIN ps : ps[n] \in Values,
           NEW i \in DOMAIN r.args, NEW k \in DOMAIN r.args[i]
    PROVE  LET t == r.args[i][k]
               n == Placeholders[t]
               part == Parts(r.args[i], ps)[k]
           IN  \/ t \notin DOMAIN Placeholders /\ part = <<t>>
               \/ /\ t \in DOMAIN Placeholders /\ n \in DOMAIN ps
                  /\ part = ps[n] /\ part \in Values /\ Valid(r.params[n], part)
<1> DEFINE t == r.args[i][k]
<1>1. CASE t \notin DOMAIN Placeholders
  BY <1>1 DEF Parts
<1>2. CASE t \in DOMAIN Placeholders
  <2>1. t \in Range(r.args[i])
    BY DEF Range
  <2>2. Placeholders[t] \in Referenced(r.args)
    BY <1>2, <2>1 DEF Referenced
  <2>3. Placeholders[t] \in DOMAIN r.params /\ DOMAIN ps = DOMAIN r.params
    BY <2>2 DEF RuleRefuses, TemplateRefuses, Resolves
  <2>4. Parts(r.args[i], ps)[k] = ps[Placeholders[t]]
    BY <1>2, <2>3 DEF Parts, Filling
  <2> QED BY <1>2, <2>3, <2>4 DEF Resolves
<1> QED BY <1>1, <1>2

\* An argument of the vector is what FlattenIsJoin says of its parts.
LEMMA ArgumentIsJoin ==
    ASSUME NEW r \in Rules, ~RuleRefuses(r), NEW ps, Resolves(r, ps),
           \A n \in DOMAIN ps : ps[n] \in Values,
           NEW i \in DOMAIN r.args
    PROVE  /\ Len(r.args[i]) \in Nat /\ DOMAIN r.args[i] = 1..Len(r.args[i])
           /\ IsJoin(Substitute(r.args, ps)[i], Parts(r.args[i], ps), Len(r.args[i]))
           /\ Len(Substitute(r.args, ps)[i]) \in Nat
           /\ DOMAIN Substitute(r.args, ps)[i] = 1..Len(Substitute(r.args, ps)[i])
<1> DEFINE arg == r.args[i]
           parts == Parts(arg, ps)
           T == Range(arg) \cup UNION {Range(v) : v \in Values}
<1>1. arg \in Seq(Range(arg)) /\ Len(arg) \in Nat /\ DOMAIN arg = 1..Len(arg)
  <2>1. arg \in Range(r.args)
    BY DEF Range
  <2>2. arg \in Seq(Range(arg))
    BY <2>1, SlotsAssumption
  <2> QED BY <2>2
<1>2. ASSUME NEW k \in DOMAIN arg PROVE parts[k] \in Seq(T)
  <2>1. CASE parts[k] = <<arg[k]>>
    <3>1. arg[k] \in T
      BY DEF Range
    <3> QED BY <2>1, <3>1
  <2>2. CASE parts[k] \in Values
    <3>1. parts[k] \in Seq(Range(parts[k]))
      BY <2>2, SlotsAssumption
    <3>2. Range(parts[k]) \subseteq T
      BY <2>2
    <3> HIDE DEF T, parts
    <3> QED BY <3>1, <3>2
  <2> QED BY <2>1, <2>2, PartsAreFilled
<1>3. parts \in Seq(Seq(T)) /\ Len(parts) = Len(arg)
  <2>1. parts = [k \in 1..Len(arg) |-> parts[k]]
    BY <1>1 DEF Parts
  <2>2. \A k \in 1..Len(arg) : parts[k] \in Seq(T)
    BY <1>1, <1>2
  <2> HIDE DEF T, parts
  <2>3. parts \in [1..Len(arg) -> Seq(T)]
    BY <2>1, <2>2
  <2>4. Len(arg) \in Nat
    BY <1>1
  <2> HIDE DEF arg
  <2> QED BY <2>3, <2>4
<1>4. Substitute(r.args, ps)[i] = FlattenSeq(parts)
  BY DEF Substitute, Parts
<1>5. FlattenSeq(parts) \in Seq(T) /\ IsJoin(FlattenSeq(parts), parts, Len(arg))
  <2> HIDE DEF T, parts
  <2> QED BY <1>3, FlattenIsJoin
<1> HIDE DEF T
<1> QED BY <1>1, <1>4, <1>5

----------------------------------------------------------------------------
\* The invariant is inductive.

\* Every initial state satisfies the invariant.
LEMMA InitInvariant == Init => IInv
BY DEF Init, IInv, TypeOK, CallIsTyped, RuleIsSound, CheckIsKept, RunIsLast, ShownIsThePrompt

\* Every step keeps the invariant.
LEMMA NextInvariant == IInv /\ [Next]_vars => IInv'
<1> SUFFICES ASSUME IInv, [Next]_vars PROVE IInv'
  OBVIOUS
<1> USE DEF IInv
<1>1. CASE Configure
  <2>1. TypeOK' /\ CallIsTyped'
    BY <1>1 DEF Configure, TypeOK, CallIsTyped
  <2>2. RuleIsSound' /\ CheckIsKept' /\ RunIsLast' /\ ShownIsThePrompt'
    BY <1>1 DEF Configure, RuleIsSound, CheckIsKept, RunIsLast, ShownIsThePrompt
  <2> QED BY <2>1, <2>2
<1>2. ASSUME NEW ns \in SUBSET SlotNames, NEW ps \in [ns -> Values], Call(ps) PROVE IInv'
  <2>1. TypeOK' /\ CallIsTyped'
    BY <1>2 DEF Call, TypeOK, CallIsTyped
  <2>2. RuleIsSound' /\ CheckIsKept' /\ RunIsLast' /\ ShownIsThePrompt'
    BY <1>2 DEF Call, RuleIsSound, CheckIsKept, RunIsLast, ShownIsThePrompt
  <2> QED BY <2>1, <2>2
<1>3. CASE Validate
  <2>1. checked' = Admits(rule, params) /\ UNCHANGED <<rule, params, shown, ran>>
        /\ phase = "called" /\ phase' \in {"invalid", "asking", "dispatch"}
    BY <1>3 DEF Validate
  <2>2. phase' = "invalid" => ~checked'
    BY <1>3 DEF Validate
  <2>3. phase' = "dispatch" /\ checked' => ~rule.approval
    BY <1>3 DEF Validate
  <2>4. \E ns \in SUBSET SlotNames : params' \in [ns -> Values]
    BY <2>1 DEF CallIsTyped
  <2>5. TypeOK'
    <3>1. checked' \in BOOLEAN
      BY <2>1 DEF Admits
    <3> QED BY <2>1, <2>4, <3>1 DEF TypeOK
  <2>6. CallIsTyped'
    BY <2>4 DEF CallIsTyped
  <2> QED BY <2>1, <2>2, <2>3, <2>5, <2>6 DEF RuleIsSound, CheckIsKept, RunIsLast, ShownIsThePrompt
<1>4. CASE ByHand
  <2>1. TypeOK' /\ CallIsTyped'
    BY <1>4 DEF ByHand, TypeOK, CallIsTyped
  <2> QED BY <1>4, <2>1 DEF ByHand, RuleIsSound, CheckIsKept, RunIsLast, ShownIsThePrompt
<1>5. CASE Approve
  <2>1. TypeOK' /\ CallIsTyped'
    BY <1>5 DEF Approve, TypeOK, CallIsTyped
  <2> QED BY <1>5, <2>1 DEF Approve, RuleIsSound, CheckIsKept, RunIsLast, ShownIsThePrompt
<1>6. CASE Deny
  <2>1. TypeOK' /\ CallIsTyped'
    BY <1>6 DEF Deny, TypeOK, CallIsTyped
  <2> QED BY <1>6, <2>1 DEF Deny, RuleIsSound, CheckIsKept, RunIsLast, ShownIsThePrompt
<1>7. CASE Refuse
  <2>1. TypeOK' /\ CallIsTyped'
    BY <1>7 DEF Refuse, TypeOK, CallIsTyped
  <2> QED BY <1>7, <2>1 DEF Refuse, RuleIsSound, CheckIsKept, RunIsLast, ShownIsThePrompt
<1>8. CASE Run
  <2>1. TypeOK' /\ CallIsTyped'
    BY <1>8 DEF Run, TypeOK, CallIsTyped
  <2>2. ran' = Prompt(rule, params)
    BY <1>8 DEF Run, Prompt
  <2> QED BY <1>8, <2>1, <2>2 DEF Run, RuleIsSound, CheckIsKept, RunIsLast, ShownIsThePrompt
<1>9. CASE UNCHANGED vars
  BY <1>9 DEF vars, TypeOK, CallIsTyped, RuleIsSound, CheckIsKept, RunIsLast, ShownIsThePrompt
<1> QED BY <1>1, <1>2, <1>3, <1>4, <1>5, <1>6, <1>7, <1>8, <1>9 DEF Next

----------------------------------------------------------------------------
\* The theorems.

\* The inductive invariant holds in every reachable state.
THEOREM Invariance == Spec => []IInv
BY InitInvariant, NextInvariant, PTL DEF Spec

\* Every variable has its type.
THEOREM TypeCorrectness == Spec => []TypeOK
BY Invariance, PTL DEF IInv

\* Nothing runs that the published schema does not admit, and what it admits is
\* refused only for a dash or a control character.
THEOREM SchemaIsTheCheck == Spec => []SchemaAndDriverAgree
<1>1. IInv => SchemaAndDriverAgree
  <2> SUFFICES ASSUME IInv
               PROVE  SchemaAndDriverAgree
    OBVIOUS
  <2>1. ran # None => Admits(rule, params)
    BY ResolvesIsAdmitted DEF IInv, RunIsLast
  <2>2. ASSUME phase = "invalid", checked
        PROVE  \E n \in DOMAIN params :
                  StartsWithDash(params[n]) \/ Range(params[n]) \cap Controls # {}
    <3>1. rule \in Rules /\ ~RuleRefuses(rule) /\ Admits(rule, params) /\ ~Resolves(rule, params)
      BY <2>2 DEF IInv, TypeOK, RuleIsSound, CheckIsKept
    <3>2. PICK n \in DOMAIN rule.params : ~Valid(rule.params[n], params[n])
      BY <3>1 DEF Resolves, Admits
    <3> QED BY <3>1, <3>2, AdmittedIsValid DEF Admits
  <2> QED BY <2>1, <2>2 DEF SchemaAndDriverAgree
<1> QED BY <1>1, Invariance, PTL

\* A rule that passed its checks, and a call of it that resolves.
Sound(r, ps) ==
    /\ r \in Rules /\ ~RuleRefuses(r) /\ Resolves(r, ps)
    /\ \A n \in DOMAIN ps : ps[n] \in Values

\* What ran is the filling of a sound rule.
LEMMA RanIsSound ==
    ASSUME IInv, ran # None
    PROVE  Sound(rule, params) /\ ran = Prompt(rule, params)
BY DEF IInv, TypeOK, CallIsTyped, RuleIsSound, RunIsLast, Sound

\* The vector has as many elements as the template.
LEMMA VectorKeepsItsLength ==
    ASSUME NEW r \in Rules, NEW ps
    PROVE  /\ Len(Substitute(r.args, ps)) = Len(r.args)
           /\ DOMAIN Substitute(r.args, ps) = DOMAIN r.args
<1> DEFINE argv == Substitute(r.args, ps)
           S == {argv[i] : i \in DOMAIN r.args}
<1>1. DOMAIN r.args = 1..Len(r.args) /\ Len(r.args) \in Nat
  BY SlotsAssumption
<1>2. argv = [i \in DOMAIN r.args |-> argv[i]]
  BY DEF Substitute
<1> HIDE DEF argv
<1>3. argv \in [1..Len(r.args) -> S]
  BY <1>1, <1>2
<1> HIDE DEF S
<1>4. argv \in Seq(S) /\ Len(argv) = Len(r.args)
  BY <1>1, <1>3
<1> QED BY <1>2, <1>4 DEF argv

\* A part that is empty is a slot's, whose author enumerated "".
LEMMA EmptyPartIsOnPurpose ==
    ASSUME NEW r, NEW ps, Sound(r, ps), NEW i \in DOMAIN r.args, NEW k \in DOMAIN r.args[i],
           Parts(r.args[i], ps)[k] = <<>>
    PROVE  /\ r.args[i][k] \in DOMAIN Placeholders
           /\ <<>> \in r.params[Placeholders[r.args[i][k]]].oneOf
<1>1. <<r.args[i][k]>> # <<>>
  OBVIOUS
<1>2. r \in Rules /\ ~RuleRefuses(r) /\ Resolves(r, ps) /\ \A n \in DOMAIN ps : ps[n] \in Values
  BY DEF Sound
<1>3. /\ r.args[i][k] \in DOMAIN Placeholders
      /\ Valid(r.params[Placeholders[r.args[i][k]]], Parts(r.args[i], ps)[k])
  BY <1>1, <1>2, PartsAreFilled
<1> QED BY <1>3 DEF Valid

\* A part that starts with a dash is the author's own dash.
LEMMA DashIsTheAuthors ==
    ASSUME NEW r, NEW ps, Sound(r, ps), NEW i \in DOMAIN r.args, NEW k \in DOMAIN r.args[i],
           Parts(r.args[i], ps)[k] # <<>>, Parts(r.args[i], ps)[k][1] = Dash
    PROVE  r.args[i][k] = Dash
<1>1. <<r.args[i][k]>>[1] = r.args[i][k]
  OBVIOUS
<1> QED BY <1>1, PartsAreFilled DEF Sound, Valid, StartsWithDash

\* What a part holds is the author's token or the text of a slot's value, which
\* has no control character.
LEMMA PartHolds ==
    ASSUME NEW r, NEW ps, Sound(r, ps), NEW i \in DOMAIN r.args, NEW k \in DOMAIN r.args[i],
           NEW c \in Range(Parts(r.args[i], ps)[k])
    PROVE  \/ c = r.args[i][k] /\ c \notin DOMAIN Placeholders
           \/ c \notin Controls /\ \E n \in DOMAIN ps : c \in Range(ps[n])
<1>1. Range(<<r.args[i][k]>>) = {r.args[i][k]}
  BY DEF Range
<1>2. r \in Rules /\ ~RuleRefuses(r) /\ Resolves(r, ps) /\ \A n \in DOMAIN ps : ps[n] \in Values
  BY DEF Sound
<1> DEFINE t == r.args[i][k]
           part == Parts(r.args[i], ps)[k]
<1>3. CASE t \notin DOMAIN Placeholders
  <2>1. part = <<t>>
    BY <1>2, <1>3, PartsAreFilled
  <2> QED BY <1>1, <1>3, <2>1
<1>4. CASE t \in DOMAIN Placeholders
  <2>1. Placeholders[t] \in DOMAIN ps /\ part = ps[Placeholders[t]]
        /\ Valid(r.params[Placeholders[t]], part)
    BY <1>2, <1>4, PartsAreFilled
  <2>2. Range(part) \cap Controls = {}
    BY <2>1 DEF Valid
  <2> QED BY <2>1, <2>2
<1> QED BY <1>3, <1>4

\* No value becomes a flag, an empty argument is had on purpose, and no control
\* character is a guest's: for every rule the driver configures and every call.
THEOREM NoValueBecomesAFlag == Spec => []ArgumentsAreTheAuthors
<1>1. IInv => ArgumentsAreTheAuthors
  <2> SUFFICES ASSUME IInv, ran # None
               PROVE  /\ Len(ran.argv) = Len(rule.args)
                      /\ \A i \in DOMAIN ran.argv :
                          LET arg == rule.args[i] IN
                          /\ StartsWithDash(ran.argv[i]) =>
                               \E k \in DOMAIN arg : arg[k] = Dash /\ OnlyEmptyBefore(arg, k)
                          /\ ran.argv[i] = <<>> => OnlyEmptyBefore(arg, Len(arg) + 1)
                          /\ Range(ran.argv[i]) \cap Controls \subseteq Range(arg)
    BY DEF ArgumentsAreTheAuthors
  <2> DEFINE parts(i) == Parts(rule.args[i], params)
  <2>1. Sound(rule, params) /\ rule \in Rules /\ ran.argv = Substitute(rule.args, params)
    BY RanIsSound DEF Prompt, Sound
  <2>2. Len(ran.argv) = Len(rule.args) /\ DOMAIN ran.argv = DOMAIN rule.args
    BY <2>1, VectorKeepsItsLength
  <2>3. ASSUME NEW i \in DOMAIN rule.args
        PROVE  /\ Len(rule.args[i]) \in Nat /\ DOMAIN rule.args[i] = 1..Len(rule.args[i])
               /\ IsJoin(ran.argv[i], parts(i), Len(rule.args[i]))
               /\ Len(ran.argv[i]) \in Nat /\ DOMAIN ran.argv[i] = 1..Len(ran.argv[i])
    BY <2>1, ArgumentIsJoin DEF Sound
  <2>4. ASSUME NEW i \in DOMAIN rule.args, StartsWithDash(ran.argv[i])
        PROVE  \E k \in DOMAIN rule.args[i] :
                  rule.args[i][k] = Dash /\ OnlyEmptyBefore(rule.args[i], k)
    <3>1. PICK k \in DOMAIN rule.args[i] :
              /\ parts(i)[k] # <<>> /\ ran.argv[i][1] = parts(i)[k][1]
              /\ \A j \in 1..(k - 1) : parts(i)[j] = <<>>
      BY <2>3, <2>4 DEF IsJoin, StartsWithDash
    <3>2. rule.args[i][k] = Dash
      BY <2>1, <2>4, <3>1, DashIsTheAuthors DEF StartsWithDash
    <3>3. \A j \in 1..(k - 1) : j \in DOMAIN rule.args[i]
      BY <2>3, <3>1
    <3>4. OnlyEmptyBefore(rule.args[i], k)
      BY <2>1, <3>1, <3>3, EmptyPartIsOnPurpose DEF OnlyEmptyBefore
    <3> QED BY <3>2, <3>4
  <2>5. ASSUME NEW i \in DOMAIN rule.args, ran.argv[i] = <<>>
        PROVE  OnlyEmptyBefore(rule.args[i], Len(rule.args[i]) + 1)
    <3>1. \A k \in 1..Len(rule.args[i]) : parts(i)[k] = <<>>
      BY <2>3, <2>5 DEF IsJoin
    <3>2. \A j \in 1..((Len(rule.args[i]) + 1) - 1) : j \in DOMAIN rule.args[i] /\ parts(i)[j] = <<>>
      BY <2>3, <3>1
    <3> QED BY <2>1, <3>2, EmptyPartIsOnPurpose DEF OnlyEmptyBefore
  <2>6. ASSUME NEW i \in DOMAIN rule.args
        PROVE  Range(ran.argv[i]) \cap Controls \subseteq Range(rule.args[i])
    <3> SUFFICES ASSUME NEW c \in Range(ran.argv[i]), c \in Controls
                 PROVE  c \in Range(rule.args[i])
      OBVIOUS
    <3>1. PICK j \in 1..Len(ran.argv[i]) : c = ran.argv[i][j]
      BY <2>3 DEF Range
    <3>2. PICK k \in DOMAIN rule.args[i] : c \in Range(parts(i)[k])
      BY <2>3, <3>1 DEF IsJoin
    <3>3. c = rule.args[i][k]
      BY <2>1, <3>2, PartHolds
    <3> QED BY <3>3 DEF Range
  <2> QED BY <2>2, <2>4, <2>5, <2>6
<1> QED BY <1>1, Invariance, PTL

\* What was approved is what runs, and every placeholder of the template's own is
\* filled: what looks like one in the vector is the text of a value.
THEOREM ApprovalIsOfTheRun == Spec => []ApprovedIsWhatRuns
<1>1. IInv => ApprovedIsWhatRuns
  <2> SUFFICES ASSUME IInv, ran # None
               PROVE  /\ checked /\ rule.approval => shown = ran
                      /\ \A i \in DOMAIN ran.argv :
                           Range(ran.argv[i]) \cap DOMAIN Placeholders \subseteq
                               UNION {Range(params[n]) : n \in DOMAIN params}
    BY DEF ApprovedIsWhatRuns
  <2>1. Sound(rule, params) /\ rule \in Rules /\ ran.argv = Substitute(rule.args, params)
    BY RanIsSound DEF Prompt, Sound
  <2>2. DOMAIN ran.argv = DOMAIN rule.args
    BY <2>1, VectorKeepsItsLength
  <2>3. checked /\ rule.approval => shown = ran
    BY DEF IInv, RunIsLast, ShownIsThePrompt
  <2>4. ASSUME NEW i \in DOMAIN rule.args, NEW c \in Range(ran.argv[i]), c \in DOMAIN Placeholders
        PROVE  c \in UNION {Range(params[n]) : n \in DOMAIN params}
    <3>1. /\ DOMAIN rule.args[i] = 1..Len(rule.args[i])
          /\ IsJoin(ran.argv[i], Parts(rule.args[i], params), Len(rule.args[i]))
          /\ DOMAIN ran.argv[i] = 1..Len(ran.argv[i])
      BY <2>1, ArgumentIsJoin DEF Sound
    <3>2. PICK j \in 1..Len(ran.argv[i]) : c = ran.argv[i][j]
      BY <3>1 DEF Range
    <3>3. PICK k \in DOMAIN rule.args[i] : c \in Range(Parts(rule.args[i], params)[k])
      BY <3>1, <3>2 DEF IsJoin
    <3>4. \E n \in DOMAIN params : c \in Range(params[n])
      BY <2>1, <2>4, <3>3, PartHolds
    <3> QED BY <3>4
  <2> QED BY <2>2, <2>3, <2>4
<1> QED BY <1>1, Invariance, PTL
=============================================================================
