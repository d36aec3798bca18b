--------------------------- MODULE GrantTableProofs ---------------------------
(***************************************************************************)
(* Proofs about GrantTable, for every list of grants and every set of      *)
(* registrations: what a table that is built says of its grants, and what  *)
(* each of its entries owes to every permission that covers it.            *)
(***************************************************************************)
EXTENDS GrantTable, WellFoundedInduction, TLAPS

----------------------------------------------------------------------------
\* The inductive invariant.

GrantsAreTyped ==
    /\ grants \in Grants
    /\ next \in 1..(Len(grants) + 1)
    /\ hidden \subseteq DOMAIN Drivers
    /\ outcome \in {"building", "built", "failed"}
    /\ outcome = "built" => next = Len(grants) + 1

\* The drivers took every grant so far.
GrantsAreSound ==
    \A n \in 1..(next - 1) :
        /\ grants[n].syscall \in DOMAIN Drivers
        /\ ~ConfigFails(Drivers[grants[n].syscall], grants[n].config)

\* Every entry came from a grant of its own syscall.
EntriesAreGranted ==
    \A e \in table : \E n \in 1..(next - 1) :
        grants[n].syscall = e.syscall /\ e \in Family(grants[n])

\* And every grant so far has all of its entries, unless the build failed.
GrantsAreServed ==
    outcome # "failed" =>
        \A n \in 1..(next - 1) : \A e \in Family(grants[n]) :
            e \in table /\ e.syscall = grants[n].syscall

KeysAreUnique == \A e, f \in table : Key(e) = Key(f) => e = f

\* No two grants so far serve the same operation.
FamiliesAreApart ==
    \A i, j \in 1..(next - 1) : \A e \in Family(grants[i]), f \in Family(grants[j]) :
        Key(e) = Key(f) => i = j

\* What is kept off the menu is what the grants so far keep off it.
HiddenIsAskedFor ==
    outcome # "failed" =>
        hidden = {grants[n].syscall : n \in {m \in 1..(next - 1) : grants[m].hidden}}

IInv ==
    /\ GrantsAreTyped /\ GrantsAreSound
    /\ EntriesAreGranted /\ GrantsAreServed /\ KeysAreUnique
    /\ FamiliesAreApart /\ HiddenIsAskedFor

----------------------------------------------------------------------------
\* What internetMethodPolicies makes of a config, permission by permission.

\* Every set of naturals that is not empty has a least element: the inductions
\* below go to the first index at which a claim fails.
LEMMA Least == ASSUME NEW S, S \subseteq Nat, S # {} PROVE \E m \in S : \A k \in S : m <= k
<1> DEFINE R == OpToRel(<, Nat)
<1>1. IsWellFoundedOn(R, Nat)
  BY NatLessThanWellFounded
<1>2. R = {ss \in Nat \X Nat : ss[1] < ss[2]}
  BY DEF OpToRel
<1> HIDE DEF R
<1>3. PICK m \in S : \A y \in S : ~ (<<y, m>> \in R)
  BY <1>1, WFMin
<1>4. ASSUME NEW k \in S PROVE m <= k
  <2>1. <<k, m>> \notin R /\ k \in Nat /\ m \in Nat
    BY <1>3
  <2> QED BY <1>2, <2>1
<1> QED BY <1>3, <1>4

\* The policies of the first permissions, one permission more at each step.
IsFold(f, config, n) ==
    f = [i \in 0..n |->
            IF i = 0 THEN [m \in {} |-> NoPolicy] ELSE AddPermission(f[i - 1], config[i])]

\* The policies after the first permissions exist, however many there are.
LEMMA FoldExists ==
    ASSUME NEW config, NEW n \in Nat
    PROVE  \E f : IsFold(f, config, n)
<1> DEFINE Bad == {m \in Nat : ~ \E f : IsFold(f, config, m)}
<1> SUFFICES ASSUME Bad # {} PROVE FALSE
  OBVIOUS
<1>1. PICK m \in Bad : \A k \in Bad : m <= k
  <2> Bad \subseteq Nat
    OBVIOUS
  <2> HIDE DEF Bad
  <2> QED BY Least
<1>2. m # 0
  <2> DEFINE none == [i \in 0..0 |-> [x \in {} |-> NoPolicy]]
  <2>1. IsFold(none, config, 0)
    BY DEF IsFold
  <2> QED BY <2>1
<1>3. PICK f : IsFold(f, config, m - 1)
  BY <1>1, <1>2
<1> DEFINE g == [i \in 0..m |-> IF i = m THEN AddPermission(f[m - 1], config[m]) ELSE f[i]]
<1>4. IsFold(g, config, m)
  <2>0. m \in Nat /\ m >= 1
    BY <1>2
  <2> SUFFICES ASSUME NEW i \in 0..m
               PROVE  g[i] = IF i = 0 THEN [x \in {} |-> NoPolicy]
                             ELSE AddPermission(g[i - 1], config[i])
    BY DEF IsFold
  <2>1. CASE i = m
    BY <2>0, <2>1
  <2>2. CASE i # m
    <3>1. i \in 0..(m - 1) /\ g[i] = f[i] /\ (i # 0 => g[i - 1] = f[i - 1])
      BY <2>0, <2>2
    <3>2. f[i] = IF i = 0 THEN [x \in {} |-> NoPolicy] ELSE AddPermission(f[i - 1], config[i])
      BY <1>3, <3>1 DEF IsFold
    <3> QED BY <3>1, <3>2
  <2> QED BY <2>1, <2>2
<1> QED BY <1>4

\* MethodPolicies is what the last permission leaves.
LEMMA MethodPoliciesIsAFold ==
    ASSUME NEW config, Len(config) \in Nat
    PROVE  \E f : IsFold(f, config, Len(config)) /\ MethodPolicies(config) = f[Len(config)]
<1> DEFINE fold == CHOOSE f : IsFold(f, config, Len(config))
<1>1. IsFold(fold, config, Len(config))
  BY FoldExists
<1>2. MethodPolicies(config) = fold[Len(config)]
  BY DEF MethodPolicies, IsFold
<1> QED BY <1>1, <1>2

\* The first permissions that name a method, and what they add up to.
Naming(config, n, m) == {k \in 1..n : m \in config[k].operations}
SumOf(config, n, m) ==
    Policy(UNION {config[k].labels : k \in Naming(config, n, m)},
           WithEgressFloor(UNION {config[k].taints : k \in Naming(config, n, m)}),
           \E k \in Naming(config, n, m) : config[k].approval = "yes")

\* Policies that are exactly what the first permissions add up to.
AddsUp(methods, config, n) ==
    /\ DOMAIN methods = UNION {config[k].operations : k \in 1..n}
    /\ \A m \in DOMAIN methods : methods[m] = SumOf(config, n, m)

\* One permission more adds what it asks for, and nothing else.
LEMMA AddPermissionAddsUp ==
    ASSUME NEW config, NEW n \in Nat, NEW methods, AddsUp(methods, config, n)
    PROVE  AddsUp(AddPermission(methods, config[n + 1]), config, n + 1)
<1> DEFINE p == config[n + 1]
           new == AddPermission(methods, p)
           old(m) == IF m \in DOMAIN methods THEN methods[m] ELSE NoPolicy
<1>0. 1..(n + 1) = 1..n \cup {n + 1}
  OBVIOUS
<1>1. DOMAIN new = DOMAIN methods \cup p.operations
  BY DEF AddPermission
<1>2. DOMAIN new = UNION {config[k].operations : k \in 1..(n + 1)}
  BY <1>0, <1>1 DEF AddsUp
<1>3. ASSUME NEW m \in DOMAIN new PROVE new[m] = SumOf(config, n + 1, m)
  <2>1. CASE m \notin p.operations
    <3>1. new[m] = methods[m] /\ m \in DOMAIN methods
      BY <1>1, <2>1 DEF AddPermission
    <3>2. Naming(config, n + 1, m) = Naming(config, n, m)
      BY <1>0, <2>1 DEF Naming
    <3> QED BY <3>1, <3>2 DEF AddsUp, SumOf
  <2>2. CASE m \in p.operations
    <3> DEFINE few == Naming(config, n, m)
    <3>1. Naming(config, n + 1, m) = few \cup {n + 1}
      BY <1>0, <2>2 DEF Naming
    <3>2. /\ old(m).labels = UNION {config[k].labels : k \in few}
          /\ WithEgressFloor(old(m).forbid) = WithEgressFloor(UNION {config[k].taints : k \in few})
          /\ old(m).approval = \E k \in few : config[k].approval = "yes"
      <4>1. CASE m \in DOMAIN methods
        <5>1. old(m) = SumOf(config, n, m)
          BY <4>1 DEF AddsUp
        <5> HIDE DEF old, few
        <5>2. old(m).labels = UNION {config[k].labels : k \in few}
          BY <5>1 DEF SumOf, Policy, few
        <5>3. old(m).forbid = WithEgressFloor(UNION {config[k].taints : k \in few})
          BY <5>1 DEF SumOf, Policy, few
        <5>4. old(m).approval = \E k \in few : config[k].approval = "yes"
          BY <5>1 DEF SumOf, Policy, few
        <5> QED BY <5>2, <5>3, <5>4 DEF WithEgressFloor
      <4>2. CASE m \notin DOMAIN methods
        <5>1. few = {}
          BY <4>2 DEF Naming, AddsUp
        <5>2. old(m) = NoPolicy
          BY <4>2
        <5> HIDE DEF old, few
        <5>3. old(m).labels = {} /\ old(m).forbid = {} /\ old(m).approval = FALSE
          BY <5>2 DEF NoPolicy, Policy
        <5> QED BY <5>1, <5>3
      <4> QED BY <4>1, <4>2
    <3>3. new[m] = Policy(old(m).labels \cup p.labels, WithEgressFloor(old(m).forbid \cup p.taints),
                          old(m).approval \/ p.approval = "yes")
      BY <2>2 DEF AddPermission
    <3> HIDE DEF few, old, new
    <3>4. old(m).labels \cup p.labels = UNION {config[k].labels : k \in few \cup {n + 1}}
      BY <3>2
    <3>5. WithEgressFloor(old(m).forbid \cup p.taints) =
              WithEgressFloor(UNION {config[k].taints : k \in few \cup {n + 1}})
      <4>1. UNION {config[k].taints : k \in few \cup {n + 1}} =
                (UNION {config[k].taints : k \in few}) \cup p.taints
        OBVIOUS
      <4>2. WithEgressFloor(old(m).forbid) =
                WithEgressFloor(UNION {config[k].taints : k \in few})
        BY <3>2
      <4> QED BY <4>1, <4>2 DEF WithEgressFloor
    <3>6. (old(m).approval \/ p.approval = "yes") =
              \E k \in few \cup {n + 1} : config[k].approval = "yes"
      BY <3>2
    <3> QED BY <3>1, <3>3, <3>4, <3>5, <3>6 DEF SumOf
  <2> QED BY <2>1, <2>2
<1> HIDE DEF new
<1>4. AddsUp(new, config, n + 1)
  BY <1>2, <1>3 DEF AddsUp
<1> QED BY <1>4 DEF new

\* What the permissions of one grant say of a method adds up in its policy.
LEMMA MethodPoliciesAddUp ==
    ASSUME NEW config \in Seq(Permissions)
    PROVE  AddsUp(MethodPolicies(config), config, Len(config))
<1> DEFINE n == Len(config)
<1>0. n \in Nat /\ \A k \in 1..n : config[k] \in Permissions
  OBVIOUS
<1>1. PICK f : IsFold(f, config, n) /\ MethodPolicies(config) = f[n]
  BY <1>0, MethodPoliciesIsAFold
<1> DEFINE Bad == {i \in 0..n : ~AddsUp(f[i], config, i)}
<1>2. ASSUME Bad # {} PROVE FALSE
  <2>1. PICK i \in Bad : \A k \in Bad : i <= k
    <3>1. Bad \subseteq Nat
      BY <1>0
    <3> HIDE DEF Bad
    <3> QED BY <1>2, <3>1, Least
  <2>2. CASE i = 0
    <3>1. f[0] = [m \in {} |-> NoPolicy]
      BY <1>0, <1>1 DEF IsFold
    <3>2. AddsUp(f[0], config, 0)
      BY <3>1 DEF AddsUp
    <3> QED BY <2>2, <3>2
  <2>3. CASE i # 0
    <3>1. i - 1 \in 0..n /\ i - 1 \in Nat /\ (i - 1) + 1 = i /\ i \in 1..n
      BY <1>0, <2>3
    <3>2. AddsUp(f[i - 1], config, i - 1)
      BY <2>1, <3>1
    <3>3. f[i] = AddPermission(f[i - 1], config[i])
      BY <1>1, <2>3, <3>1 DEF IsFold
    <3> QED BY <1>0, <3>1, <3>2, <3>3, AddPermissionAddsUp
  <2> QED BY <2>2, <2>3
<1>3. AddsUp(f[n], config, n)
  BY <1>0, <1>2
<1> QED BY <1>1, <1>3

----------------------------------------------------------------------------
\* What one driver lets through.

\* Whatever the driver, a config that it takes forges no label and references
\* no secret that the host does not hold.
LEMMA ConfigIsSound ==
    ASSUME NEW driver \in DriverNames, NEW config, ~ConfigFails(driver, config),
           NEW p \in ToSet(config)
    PROVE  /\ (p.labels \cup p.taints) \cap Reserved = {}
           /\ p.secret \in Secrets \cup {NoSecret}
           /\ p.operations # {}
<1>1. PICK k \in DOMAIN config : p = config[k]
  BY DEF ToSet
<1>2. ~InternetRefuses(config) /\ ~SecretMissing(config)
  BY DEF DriverNames, Known, ConfigFails, GrantsRefuse, RulesRefuse
<1> QED BY <1>1, <1>2 DEF InternetRefuses, ForgesLabels, SecretMissing

\* One family has one entry for an operation.
LEMMA FamilyHasKeys ==
    ASSUME NEW g, NEW e \in Family(g), NEW f \in Family(g), Key(e) = Key(f)
    PROVE  e = f
<1> DEFINE policies == Policies(Drivers[g.syscall], g.config)
           Entry(o) == [syscall |-> Contributes[g.syscall], operation |-> o,
                        labels |-> policies[o].labels, forbid |-> policies[o].forbid,
                        approval |-> policies[o].approval]
<1>1. PICK a \in DOMAIN policies : e = Entry(a)
  BY DEF Family
<1>2. PICK b \in DOMAIN policies : f = Entry(b)
  BY DEF Family
<1> HIDE DEF policies
<1>3. a = b
  BY <1>1, <1>2 DEF Key
<1> QED BY <1>1, <1>2, <1>3

\* A grant that its driver takes: its config is typed, and where the driver grants
\* operation by operation, each permission has one, and no two the same.
Taken(g) ==
    /\ Drivers[g.syscall] \in DriverNames /\ ~ConfigFails(Drivers[g.syscall], g.config)
    /\ g.config \in Seq(Permissions)
    /\ Drivers[g.syscall] # "internet" =>
         \A p \in ToSet(g.config) : \A o, q \in p.operations : o = q

\* A grant that is taken has permissions for its configuration.
LEMMA ConfigIsTyped ==
    ASSUME NEW g, Taken(g), NEW k \in DOMAIN g.config
    PROVE  g.config[k] \in Permissions
BY DEF Taken

\* Outside core.internet, a permission names its one operation.
LEMMA OneOperation ==
    ASSUME NEW g, Taken(g), Drivers[g.syscall] # "internet"
    PROVE  /\ \A k \in DOMAIN g.config : g.config[k].operations = {OperationOf(g.config[k])}
           /\ \A j, k \in DOMAIN g.config :
                OperationOf(g.config[j]) = OperationOf(g.config[k]) => j = k
<1>1. ASSUME NEW k \in DOMAIN g.config
      PROVE  g.config[k].operations = {OperationOf(g.config[k])}
  <2>1. g.config[k] \in ToSet(g.config)
    BY DEF ToSet
  <2>2. g.config[k].operations # {}
    BY <2>1, ConfigIsSound DEF Taken
  <2>3. OperationOf(g.config[k]) \in g.config[k].operations
    BY <2>2 DEF OperationOf
  <2> QED BY <2>1, <2>3 DEF Taken
<1>2. ~RulesRefuse(g.config)
  BY DEF Taken, DriverNames, ConfigFails, GrantsRefuse, Known
<1> QED BY <1>1, <1>2 DEF RulesRefuse

\* The policy of an operation that a driver grants by itself is the one of its
\* permission, or of the compartment.
LEMMA PolicyOfOperation ==
    ASSUME NEW g, Taken(g), Drivers[g.syscall] # "internet", NEW k \in DOMAIN g.config,
           NEW o, o = OperationOf(g.config[k])
    PROVE  Policies(Drivers[g.syscall], g.config)[o] =
               CASE Drivers[g.syscall] = "scratch" -> CompartmentPolicy(g.config, o)
                 [] Drivers[g.syscall] = "command" -> CommandPolicy(g.config[k])
                 [] OTHER -> EgressPolicy(g.config[k])
<1> DEFINE c == CHOOSE j \in DOMAIN g.config : OperationOf(g.config[j]) = o
<1>1. c \in DOMAIN g.config /\ OperationOf(g.config[c]) = o
  OBVIOUS
<1>2. c = k
  BY <1>1, OneOperation
<1>3. o \in {OperationOf(g.config[j]) : j \in DOMAIN g.config}
  OBVIOUS
<1> HIDE DEF c
<1> QED BY <1>2, <1>3 DEF Policies, c

\* An operation of a policy, and one of a permission, are the same.
LEMMA PoliciesServe ==
    ASSUME NEW g, Taken(g)
    PROVE  DOMAIN Policies(Drivers[g.syscall], g.config) =
               UNION {g.config[k].operations : k \in DOMAIN g.config}
<1>1. CASE Drivers[g.syscall] = "internet"
  <2>1. DOMAIN g.config = 1..Len(g.config)
    BY DEF Taken
  <2> QED BY <1>1, <2>1, MethodPoliciesAddUp DEF Taken, AddsUp, Policies
<1>2. CASE Drivers[g.syscall] # "internet"
  <2>1. DOMAIN Policies(Drivers[g.syscall], g.config) =
            {OperationOf(g.config[k]) : k \in DOMAIN g.config}
    BY <1>2 DEF Policies
  <2>2. \A k \in DOMAIN g.config : g.config[k].operations = {OperationOf(g.config[k])}
    BY <1>2, OneOperation
  <2> QED BY <2>1, <2>2
<1> QED BY <1>1, <1>2

----------------------------------------------------------------------------
\* What an entry owes to its grant.

\* The policy that the grant's permissions add up to.
IsExact(g, o, policy) ==
    /\ policy.labels = Promised!LabelsOf(g, o)
    /\ policy.forbid = Promised!ForbiddenBy(g, o)
    /\ policy.approval = Promised!IsAsked(g, o)

\* The permissions that speak for a method of core.internet are those that its
\* fold added up.
LEMMA InternetPolicyIsExact ==
    ASSUME NEW g, Taken(g), Drivers[g.syscall] = "internet",
           NEW o \in DOMAIN Policies(Drivers[g.syscall], g.config)
    PROVE  IsExact(g, o, Policies(Drivers[g.syscall], g.config)[o])
<1> DEFINE few == Naming(g.config, Len(g.config), o)
           policy == Policies(Drivers[g.syscall], g.config)[o]
<1>1. policy = SumOf(g.config, Len(g.config), o)
  BY MethodPoliciesAddUp DEF Taken, AddsUp, Policies
<1>2. DOMAIN g.config = 1..Len(g.config)
  BY DEF Taken
<1>3. Promised!Speaking(g, o) = {g.config[k] : k \in few}
  BY <1>2 DEF Promised!Speaking, Naming, Promised!ToSet, ToSet
<1> HIDE DEF few, policy
<1>4. /\ policy.labels = UNION {g.config[k].labels : k \in few}
      /\ policy.forbid = (UNION {g.config[k].taints : k \in few}) \cup {SecretClass}
      /\ policy.approval = \E k \in few : g.config[k].approval = "yes"
  <2>1. policy.labels = UNION {g.config[k].labels : k \in few}
    BY <1>1 DEF SumOf, Policy, few
  <2>2. policy.forbid = (UNION {g.config[k].taints : k \in few}) \cup {SecretClass}
    BY <1>1 DEF SumOf, Policy, WithEgressFloor, few
  <2>3. policy.approval = \E k \in few : g.config[k].approval = "yes"
    BY <1>1 DEF SumOf, Policy, few
  <2> QED BY <2>1, <2>2, <2>3
<1>5. policy.labels = Promised!LabelsOf(g, o)
  BY <1>3, <1>4 DEF Promised!LabelsOf, Promised!ToSet, ToSet
<1>6. policy.forbid = Promised!ForbiddenBy(g, o)
  BY <1>3, <1>4 DEF Promised!ForbiddenBy, Promised!Floor, Promised!IsSink
<1>7. policy.approval = Promised!IsAsked(g, o)
  BY <1>3, <1>4 DEF Promised!IsAsked, Promised!IsSink, Promised!Asks
<1> QED BY <1>5, <1>6, <1>7 DEF IsExact, policy

\* Every permission of a scratch grant speaks for each of its operations.
LEMMA ScratchPolicyIsExact ==
    ASSUME NEW g, Taken(g), Drivers[g.syscall] = "scratch",
           NEW o \in DOMAIN Policies(Drivers[g.syscall], g.config)
    PROVE  IsExact(g, o, Policies(Drivers[g.syscall], g.config)[o])
<1> DEFINE policy == CompartmentPolicy(g.config, o)
<1>1. PICK k \in DOMAIN g.config : o = OperationOf(g.config[k])
  BY DEF Policies
<1>2. Policies(Drivers[g.syscall], g.config)[o] = policy
  BY <1>1, PolicyOfOperation
<1>3. Promised!Speaking(g, o) = {g.config[j] : j \in DOMAIN g.config}
  BY DEF Promised!Speaking, Promised!ToSet, ToSet
<1>4. policy.labels = Promised!LabelsOf(g, o)
  BY <1>3 DEF CompartmentPolicy, Policy, Promised!LabelsOf, Promised!ToSet, ToSet
<1>5. policy.forbid = Promised!ForbiddenBy(g, o)
  BY <1>3 DEF CompartmentPolicy, Policy, Promised!ForbiddenBy, Promised!Floor, Promised!IsSink
<1>6. policy.approval = Promised!IsAsked(g, o)
  BY <1>3 DEF CompartmentPolicy, Policy, Promised!IsAsked, Promised!IsSink, Promised!Asks
<1> HIDE DEF policy
<1> QED BY <1>2, <1>4, <1>5, <1>6 DEF IsExact

\* One permission speaks for an operation of the other drivers.
LEMMA OtherPolicyIsExact ==
    ASSUME NEW g, Taken(g), Drivers[g.syscall] \in {"template", "openai", "command"},
           NEW o \in DOMAIN Policies(Drivers[g.syscall], g.config)
    PROVE  IsExact(g, o, Policies(Drivers[g.syscall], g.config)[o])
<1> DEFINE driver == Drivers[g.syscall]
           policy == Policies(driver, g.config)[o]
<1>1. PICK k \in DOMAIN g.config : o = OperationOf(g.config[k])
  BY DEF Policies
<1> DEFINE p == g.config[k]
<1>2. policy = IF driver = "command" THEN CommandPolicy(p) ELSE EgressPolicy(p)
  BY <1>1, PolicyOfOperation
<1>3. p \in ToSet(g.config) /\ o \in p.operations
  BY <1>1, OneOperation DEF ToSet
<1>4. ASSUME NEW q \in ToSet(g.config), o \in q.operations PROVE q = p
  <2>1. PICK j \in DOMAIN g.config : q = g.config[j]
    BY DEF ToSet
  <2>2. OperationOf(q) = o
    BY <1>4, <2>1, OneOperation
  <2> QED BY <1>1, <2>1, <2>2, OneOperation
<1>5. Promised!Speaking(g, o) = {p}
  BY <1>3, <1>4 DEF Promised!Speaking, Promised!ToSet, ToSet
<1> HIDE DEF p, policy
<1>6. /\ policy.labels = p.labels
      /\ policy.forbid = IF driver = "command" THEN p.taints ELSE p.taints \cup {SecretClass}
      /\ policy.approval = IF driver = "command" THEN p.approval # "no" ELSE p.approval = "yes"
  BY <1>2 DEF CommandPolicy, EgressPolicy, Policy, WithEgressFloor
<1>7. policy.labels = Promised!LabelsOf(g, o)
  BY <1>5, <1>6 DEF Promised!LabelsOf, Promised!ToSet, ToSet
<1>8. policy.forbid = Promised!ForbiddenBy(g, o)
  BY <1>5, <1>6 DEF Promised!ForbiddenBy, Promised!Floor, Promised!IsSink
<1>9. policy.approval = Promised!IsAsked(g, o)
  BY <1>5, <1>6 DEF Promised!IsAsked, Promised!IsSink, Promised!Asks
<1> QED BY <1>7, <1>8, <1>9 DEF IsExact, policy

\* Every policy is exactly the one its permissions add up to.
LEMMA EveryPolicyIsExact ==
    ASSUME NEW g, Taken(g), NEW o \in DOMAIN Policies(Drivers[g.syscall], g.config)
    PROVE  IsExact(g, o, Policies(Drivers[g.syscall], g.config)[o])
BY InternetPolicyIsExact, ScratchPolicyIsExact, OtherPolicyIsExact DEF Taken, DriverNames

\* An entry is the one that the manifest says, but for the syscall that the
\* registration contributes it to.
LEMMA FamilyIsExact ==
    ASSUME NEW g, Taken(g), NEW e \in Family(g)
    PROVE  /\ e.operation \in Promised!Named(g)
           /\ e = [Promised!EntryOf(g, e.operation) EXCEPT !.syscall = Contributes[g.syscall]]
<1> DEFINE policies == Policies(Drivers[g.syscall], g.config)
<1>1. PICK o \in DOMAIN policies :
          e = [syscall |-> Contributes[g.syscall], operation |-> o, labels |-> policies[o].labels,
               forbid |-> policies[o].forbid, approval |-> policies[o].approval]
  BY DEF Family
<1>2. IsExact(g, o, policies[o])
  BY EveryPolicyIsExact
<1>3. o \in Promised!Named(g)
  <2>1. DOMAIN policies = UNION {g.config[k].operations : k \in DOMAIN g.config}
    BY PoliciesServe
  <2> HIDE DEF policies
  <2>2. PICK k \in DOMAIN g.config : o \in g.config[k].operations
    BY <2>1
  <2> QED BY <2>2 DEF Promised!Named, Promised!ToSet
<1> HIDE DEF policies
<1>4. e.operation = o
  BY <1>1
<1>5. e = [syscall |-> Contributes[g.syscall], operation |-> o, labels |-> Promised!LabelsOf(g, o),
           forbid |-> Promised!ForbiddenBy(g, o), approval |-> Promised!IsAsked(g, o)]
  BY <1>1, <1>2 DEF IsExact
<1> QED BY <1>3, <1>4, <1>5 DEF Promised!EntryOf

\* An operation of the grant's has its entry.
LEMMA FamilyServes ==
    ASSUME NEW g, Taken(g), NEW o \in Promised!Named(g)
    PROVE  \E e \in Family(g) : e.operation = o
<1>1. o \in DOMAIN Policies(Drivers[g.syscall], g.config)
  BY PoliciesServe DEF Promised!Named, Promised!ToSet, ToSet
<1> DEFINE policies == Policies(Drivers[g.syscall], g.config)
           e == [syscall |-> Contributes[g.syscall], operation |-> o, labels |-> policies[o].labels,
                 forbid |-> policies[o].forbid, approval |-> policies[o].approval]
<1>2. e \in Family(g)
  BY <1>1 DEF Family
<1>3. e.operation = o
  OBVIOUS
<1> HIDE DEF e
<1> QED BY <1>2, <1>3

\* A family on the grant's own syscall is what the manifest says of the grant.
LEMMA FamilyIsPromised ==
    ASSUME NEW g, Taken(g), \A e \in Family(g) : e.syscall = g.syscall
    PROVE  /\ Contributes[g.syscall] = g.syscall
           /\ Family(g) = {Promised!EntryOf(g, o) : o \in Promised!Named(g)}
<1>1. ASSUME NEW e \in Family(g)
      PROVE  /\ Contributes[g.syscall] = g.syscall
             /\ e.operation \in Promised!Named(g) /\ e = Promised!EntryOf(g, e.operation)
  <2>1. e.syscall = g.syscall
    OBVIOUS
  <2>2. e = [Promised!EntryOf(g, e.operation) EXCEPT !.syscall = Contributes[g.syscall]]
        /\ e.operation \in Promised!Named(g)
    BY FamilyIsExact
  <2>3. e.syscall = Contributes[g.syscall]
    BY <2>2 DEF Promised!EntryOf
  <2>4. Promised!EntryOf(g, e.operation).syscall = g.syscall
    BY DEF Promised!EntryOf
  <2> QED BY <2>1, <2>2, <2>3, <2>4 DEF Promised!EntryOf
<1>2. ASSUME NEW o \in Promised!Named(g) PROVE Promised!EntryOf(g, o) \in Family(g)
  <2>1. PICK e \in Family(g) : e.operation = o
    BY FamilyServes
  <2> QED BY <1>1, <2>1
<1>3. Promised!Named(g) # {}
  <2>1. g.config # <<>> /\ g.config \in Seq(Permissions)
    BY DEF Taken, DriverNames, Known, ConfigFails, GrantsRefuse, RulesRefuse, InternetRefuses
  <2>2. 1 \in DOMAIN g.config
    BY <2>1
  <2>3. g.config[1] \in ToSet(g.config)
    BY <2>2 DEF ToSet
  <2>4. g.config[1].operations # {}
    BY <2>3, ConfigIsSound DEF Taken
  <2> QED BY <2>3, <2>4 DEF Promised!Named, Promised!ToSet, ToSet
<1> QED BY <1>1, <1>2, <1>3

\* What the promised entry says is well typed, closed and as strict as every
\* permission that covers it.
LEMMA PromisedEntryIsTyped ==
    ASSUME NEW g, Taken(g), NEW o \in Promised!Named(g)
    PROVE  /\ o \in Operations
           /\ Promised!LabelsOf(g, o) \subseteq Labels
           /\ Promised!ForbiddenBy(g, o) \subseteq Labels
           /\ Promised!IsAsked(g, o) \in BOOLEAN
<1>1. \A p \in ToSet(g.config) : p \in Permissions
  BY ConfigIsTyped DEF ToSet
<1>2. o \in Operations
  BY <1>1 DEF Promised!Named, Permissions, Promised!ToSet, ToSet
<1>3. Promised!LabelsOf(g, o) \subseteq Labels
  BY <1>1 DEF Promised!LabelsOf, Promised!Speaking, Permissions, Promised!ToSet, ToSet
<1>4. Promised!ForbiddenBy(g, o) \subseteq Labels
  BY <1>1, GrantTableAssumption
  DEF Promised!ForbiddenBy, Promised!Floor, Promised!Speaking, Permissions, Promised!ToSet, ToSet
<1> QED BY <1>2, <1>3, <1>4 DEF Promised!IsAsked, Promised!ToSet, ToSet

----------------------------------------------------------------------------
\* The invariant is inductive.

\* Every initial state satisfies the invariant.
LEMMA InitInvariant == Init => IInv
<1> SUFFICES ASSUME Init PROVE IInv
  OBVIOUS
<1>1. Len(grants) \in Nat
  BY GrantTableAssumption DEF Init
<1> QED BY <1>1 DEF Init, IInv, GrantsAreTyped, GrantsAreSound, EntriesAreGranted, GrantsAreServed,
                    KeysAreUnique, FamiliesAreApart, HiddenIsAskedFor

\* Every step keeps the invariant.
LEMMA NextInvariant == IInv /\ [Next]_vars => IInv'
<1> SUFFICES ASSUME IInv, [Next]_vars PROVE IInv'
  OBVIOUS
<1>0. GrantsAreTyped /\ GrantsAreSound /\ EntriesAreGranted /\ GrantsAreServed
      /\ KeysAreUnique /\ FamiliesAreApart /\ HiddenIsAskedFor
      /\ Len(grants) \in Nat
  BY GrantTableAssumption DEF IInv, GrantsAreTyped
<1>1. ASSUME Building, Fail PROVE IInv'
  BY <1>0, <1>1 DEF Building, Fail, IInv, GrantsAreTyped, GrantsAreSound, EntriesAreGranted,
                    GrantsAreServed, KeysAreUnique, FamiliesAreApart, HiddenIsAskedFor, Family, Key
<1>2. CASE AddGrant
  <2> DEFINE family == Family(Current)
  <2>1. /\ ~Duplicates(family) /\ ~Foreign(family, Current.syscall)
        /\ table' = table \cup family /\ next' = next + 1
        /\ UNCHANGED <<grants, outcome>>
        /\ outcome = "building" /\ next \in 1..Len(grants) /\ Configured
    BY <1>0, <1>2 DEF AddGrant, Building, GrantsAreTyped
  <2>2. Current = grants[next]
    BY DEF Current
  <2>3. GrantsAreTyped'
    BY <1>0, <1>2, <2>1 DEF GrantsAreTyped, AddGrant, Configured
  <2>4. 1..(next' - 1) = 1..(next - 1) \cup {next}
    BY <2>1
  <2>5. GrantsAreSound'
    BY <1>0, <2>1, <2>2, <2>4 DEF GrantsAreSound, Configured
  <2>6. EntriesAreGranted'
    <3> SUFFICES ASSUME NEW e \in table \cup family
                 PROVE  \E n \in 1..(next' - 1) :
                           grants[n].syscall = e.syscall /\ e \in Family(grants[n])
      BY <2>1 DEF EntriesAreGranted, Family
    <3>1. CASE e \in table
      BY <1>0, <2>4, <3>1 DEF EntriesAreGranted
    <3>2. CASE e \in family
      BY <2>1, <2>2, <2>4, <3>2 DEF Foreign
    <3> QED BY <3>1, <3>2
  <2>7. KeysAreUnique'
    <3> SUFFICES ASSUME NEW e \in table \cup family, NEW f \in table \cup family, Key(e) = Key(f)
                 PROVE  e = f
      BY <2>1 DEF KeysAreUnique, Key
    <3>1. CASE e \in table /\ f \in table
      BY <1>0, <3>1 DEF KeysAreUnique
    <3>2. CASE e \in family /\ f \in family
      BY <3>2, FamilyHasKeys
    <3>3. ASSUME NEW a \in table, NEW b \in family, Key(a) = Key(b) PROVE FALSE
      BY <2>1, <3>3 DEF Duplicates
    <3> QED BY <3>1, <3>2, <3>3
  <2>8. GrantsAreServed'
    <3> SUFFICES ASSUME NEW n \in 1..(next' - 1), NEW e \in Family(grants[n])
                 PROVE  e \in table' /\ e.syscall = grants[n].syscall
      BY <2>1 DEF GrantsAreServed, Family
    <3>1. CASE n = next
      BY <2>1, <2>2, <3>1 DEF Foreign
    <3>2. CASE n # next
      BY <1>0, <2>1, <2>4, <3>2 DEF GrantsAreServed
    <3> QED BY <3>1, <3>2
  <2>9. FamiliesAreApart'
    <3> SUFFICES ASSUME NEW i \in 1..(next' - 1), NEW j \in 1..(next' - 1),
                        NEW e \in Family(grants[i]), NEW f \in Family(grants[j]), Key(e) = Key(f)
                 PROVE  i = j
      BY <2>1 DEF FamiliesAreApart, Family, Key
    <3>1. CASE i # next /\ j # next
      BY <1>0, <2>4, <3>1 DEF FamiliesAreApart
    <3>2. ASSUME NEW n \in 1..(next - 1), NEW a \in Family(grants[n]), NEW b \in family,
                 Key(a) = Key(b)
          PROVE  FALSE
      <4>1. a \in table
        BY <1>0, <2>1 DEF GrantsAreServed
      <4> QED BY <2>1, <3>2, <4>1 DEF Duplicates
    <3> QED BY <2>2, <2>4, <3>1, <3>2
  <2>10. HiddenIsAskedFor'
    <3>1. hidden' = IF Current.hidden THEN hidden \cup {Current.syscall} ELSE hidden
      BY <1>2 DEF AddGrant
    <3> QED BY <1>0, <2>1, <2>2, <2>4, <3>1 DEF HiddenIsAskedFor
  <2> QED BY <2>3, <2>5, <2>6, <2>7, <2>8, <2>9, <2>10 DEF IInv
<1>3. CASE Finish
  <2>1. next = Len(grants) + 1 /\ UNCHANGED <<grants, next, table, hidden>>
    BY <1>0, <1>3 DEF Finish, GrantsAreTyped
  <2>2. outcome = "building" /\ outcome' = "built"
    BY <1>3 DEF Finish
  <2>3. GrantsAreTyped' /\ GrantsAreSound'
    BY <1>0, <2>1, <2>2 DEF GrantsAreTyped, GrantsAreSound
  <2>4. EntriesAreGranted' /\ KeysAreUnique'
    BY <1>0, <2>1 DEF EntriesAreGranted, KeysAreUnique, Key, Family
  <2>5. GrantsAreServed'
    BY <1>0, <2>1, <2>2 DEF GrantsAreServed, Family
  <2>6. FamiliesAreApart' /\ HiddenIsAskedFor'
    BY <1>0, <2>1, <2>2 DEF FamiliesAreApart, HiddenIsAskedFor, Family, Key
  <2> QED BY <2>3, <2>4, <2>5, <2>6 DEF IInv
<1>4. CASE UNCHANGED vars
  BY <1>0, <1>4 DEF vars, IInv, GrantsAreTyped, GrantsAreSound, EntriesAreGranted,
                    GrantsAreServed, KeysAreUnique, FamiliesAreApart, HiddenIsAskedFor,
                    Key, Family
<1> QED
  BY <1>1, <1>2, <1>3, <1>4 DEF Next, NoSuchSyscall, ConfigureFails, AddRefuses, ServesAnother

----------------------------------------------------------------------------
\* The theorems.

\* The inductive invariant holds in every reachable state.
THEOREM Invariance == Spec => []IInv
BY InitInvariant, NextInvariant, PTL DEF Spec

\* A table that is built has no grant, of any driver, that forges a reserved
\* label or references a secret that the host does not hold.
THEOREM BuiltGrantsAreSound == Spec => []OnlySoundGrantsBuild
<1>1. IInv => OnlySoundGrantsBuild
  <2> SUFFICES ASSUME IInv, outcome = "built", NEW g \in ToSet(grants), NEW p \in ToSet(g.config)
               PROVE  /\ (p.labels \cup p.taints) \cap Reserved = {}
                      /\ p.secret \in Secrets \cup {NoSecret}
    BY DEF OnlySoundGrantsBuild
  <2>1. grants \in Grants /\ next = Len(grants) + 1 /\ Len(grants) \in Nat
        /\ DOMAIN grants = 1..Len(grants)
    BY GrantTableAssumption DEF IInv, GrantsAreTyped
  <2>2. PICK n \in 1..(next - 1) : g = grants[n]
    BY <2>1 DEF ToSet
  <2>3. Drivers[g.syscall] \in DriverNames /\ ~ConfigFails(Drivers[g.syscall], g.config)
    BY <2>2, GrantTableAssumption DEF IInv, GrantsAreSound
  <2> QED BY <2>3, ConfigIsSound
<1> QED BY <1>1, Invariance, PTL

\* The grants of the invariant are the ones the lemmas speak of.
LEMMA GrantsAreTaken ==
    ASSUME IInv, NEW n \in 1..(next - 1)
    PROVE  Taken(grants[n]) /\ n \in DOMAIN grants /\ grants[n] \in ToSet(grants)
<1>1. /\ grants \in Grants /\ next \in 1..(Len(grants) + 1)
      /\ grants[n].syscall \in DOMAIN Drivers
      /\ ~ConfigFails(Drivers[grants[n].syscall], grants[n].config)
  BY DEF IInv, GrantsAreTyped, GrantsAreSound
<1>2. DOMAIN grants = 1..Len(grants) /\ Len(grants) \in Nat
  BY <1>1, GrantTableAssumption
<1>3. n \in 1..Len(grants)
  BY <1>1, <1>2
<1>4. Taken(grants[n])
  BY <1>1, <1>3, GrantTableAssumption DEF Taken
<1> QED BY <1>2, <1>3, <1>4 DEF ToSet

\* A build that has gone through all of its grants has gone through each.
LEMMA HasThemAll ==
    ASSUME IInv, next = Len(grants) + 1, NEW g \in ToSet(grants)
    PROVE  \E n \in 1..(next - 1) : g = grants[n]
<1>1. next = Len(grants) + 1 /\ DOMAIN grants = 1..Len(grants) /\ Len(grants) \in Nat
  BY GrantTableAssumption DEF IInv, GrantsAreTyped
<1> QED BY <1>1 DEF ToSet

\* What an entry of the table owes to the grant it came from.
LEMMA EntryIsPromised ==
    ASSUME IInv, NEW e \in table
    PROVE  \E n \in 1..(next - 1) :
              /\ Taken(grants[n]) /\ grants[n] \in ToSet(grants)
              /\ grants[n].syscall = e.syscall
              /\ e.operation \in Promised!Named(grants[n])
              /\ e = Promised!EntryOf(grants[n], e.operation)
<1>1. PICK n \in 1..(next - 1) : grants[n].syscall = e.syscall /\ e \in Family(grants[n])
  BY DEF IInv, EntriesAreGranted
<1>2. Taken(grants[n]) /\ grants[n] \in ToSet(grants)
  BY GrantsAreTaken
<1> DEFINE g == grants[n]
<1>3. /\ e.operation \in Promised!Named(g)
      /\ e = [Promised!EntryOf(g, e.operation) EXCEPT !.syscall = Contributes[g.syscall]]
  BY <1>1, <1>2, FamilyIsExact
<1>4. Contributes[g.syscall] = g.syscall
  BY <1>1, <1>3 DEF Promised!EntryOf
<1>5. e = Promised!EntryOf(g, e.operation)
  BY <1>3, <1>4 DEF Promised!EntryOf
<1> QED BY <1>1, <1>2, <1>3, <1>5

\* Until a build fails, the grants so far have the entries that they promise.
LEMMA GrantIsServed ==
    ASSUME IInv, outcome # "failed", NEW n \in 1..(next - 1)
    PROVE  /\ Contributes[grants[n].syscall] = grants[n].syscall
           /\ Family(grants[n]) =
                  {Promised!EntryOf(grants[n], o) : o \in Promised!Named(grants[n])}
           /\ Family(grants[n]) \subseteq table
<1>1. Taken(grants[n])
  BY GrantsAreTaken
<1>2. \A e \in Family(grants[n]) : e \in table /\ e.syscall = grants[n].syscall
  BY DEF IInv, GrantsAreServed
<1> QED BY <1>1, <1>2, FamilyIsPromised

\* Every variable has its type, and no two entries share a key.
THEOREM TypeCorrectness == Spec => []TypeOK
<1>1. IInv => TypeOK
  <2> SUFFICES ASSUME IInv PROVE TypeOK
    OBVIOUS
  <2>1. ASSUME NEW e \in table
        PROVE  /\ e.operation \in Operations /\ e.labels \subseteq Labels
               /\ e.forbid \subseteq Labels /\ e.approval \in BOOLEAN
    <3>1. PICK n \in 1..(next - 1) :
              /\ Taken(grants[n]) /\ e.operation \in Promised!Named(grants[n])
              /\ e = Promised!EntryOf(grants[n], e.operation)
      BY EntryIsPromised
    <3>2. /\ e.labels = Promised!LabelsOf(grants[n], e.operation)
          /\ e.forbid = Promised!ForbiddenBy(grants[n], e.operation)
          /\ e.approval = Promised!IsAsked(grants[n], e.operation)
      BY <3>1 DEF Promised!EntryOf
    <3> QED BY <3>1, <3>2, PromisedEntryIsTyped
  <2> QED BY <2>1 DEF TypeOK, IInv, GrantsAreTyped, KeysAreUnique
<1> QED BY <1>1, Invariance, PTL

\* A table that is complete is the one that the manifest promises.
LEMMA TableIsPromised ==
    ASSUME IInv, outcome # "failed", next = Len(grants) + 1
    PROVE  table = Promised!TableOf(grants)
<1>1. ASSUME NEW e \in table PROVE e \in Promised!TableOf(grants)
  <2>1. PICK n \in 1..(next - 1) :
            /\ grants[n] \in ToSet(grants) /\ e.operation \in Promised!Named(grants[n])
            /\ e = Promised!EntryOf(grants[n], e.operation)
    BY EntryIsPromised
  <2> QED BY <2>1 DEF Promised!TableOf, Promised!ToSet, ToSet
<1>2. ASSUME NEW g \in ToSet(grants), NEW o \in Promised!Named(g)
      PROVE  Promised!EntryOf(g, o) \in table
  <2>1. PICK n \in 1..(next - 1) : g = grants[n]
    BY HasThemAll
  <2> QED BY <2>1, GrantIsServed
<1> QED BY <1>1, <1>2 DEF Promised!TableOf, Promised!ToSet, ToSet

\* A table that is built serves the operations its grants name, on their own
\* syscalls, and nothing else.
THEOREM BuiltIsTheGrant == Spec => []TableIsTheGrant
<1>1. IInv => TableIsTheGrant
  <2> SUFFICES ASSUME IInv, outcome = "built"
               PROVE  {Key(e) : e \in table} = Granted
    BY DEF TableIsTheGrant
  <2>1. table = Promised!TableOf(grants)
    BY TableIsPromised DEF IInv, GrantsAreTyped
  <2>2. {Key(e) : e \in table} =
            UNION {{Key(Promised!EntryOf(g, o)) : o \in Promised!Named(g)} : g \in ToSet(grants)}
    BY <2>1 DEF Promised!TableOf, Promised!ToSet, ToSet
  <2>3. \A g \in ToSet(grants) : \A o \in Promised!Named(g) :
            Key(Promised!EntryOf(g, o)) = <<g.syscall, o>>
    BY DEF Promised!EntryOf, Key
  <2>4. \A g \in ToSet(grants) :
            Promised!Named(g) = UNION {g.config[k].operations : k \in DOMAIN g.config}
    BY DEF Promised!Named, Promised!ToSet, ToSet
  <2>5. Granted =
            UNION {{<<g.syscall, o>> : o \in Promised!Named(g)} : g \in ToSet(grants)}
    BY <2>4 DEF Granted
  <2> QED BY <2>2, <2>3, <2>5
<1> QED BY <1>1, Invariance, PTL

\* No permission is weakened by another of the same operation or compartment,
\* however many there are and in whatever order they are written.
THEOREM EveryPermissionHolds == Spec => []PermissionsAddUp
<1>1. IInv => PermissionsAddUp
  <2> SUFFICES ASSUME IInv, outcome = "built", NEW e \in table, NEW g \in ToSet(grants),
                      NEW p \in ToSet(g.config), Covers(g, p, e)
               PROVE  /\ p.labels \subseteq e.labels
                      /\ p.taints \subseteq e.forbid
                      /\ p.approval = "yes" => e.approval
    BY DEF PermissionsAddUp
  <2> DEFINE o == e.operation
  <2>1. PICK n \in 1..(next - 1) : g = grants[n]
    BY HasThemAll DEF IInv, GrantsAreTyped
  <2>2. g.syscall = e.syscall /\ o \in Promised!Named(g)
    BY DEF Covers, Promised!Named, Promised!ToSet, ToSet
  <2>3. Promised!EntryOf(g, o) \in table
    BY <2>1, <2>2, GrantIsServed
  <2>4. Key(e) = Key(Promised!EntryOf(g, o))
    BY <2>2 DEF Key, Promised!EntryOf
  <2>5. e = Promised!EntryOf(g, o)
    BY <2>3, <2>4 DEF IInv, KeysAreUnique
  <2>6. p \in Promised!Speaking(g, o) /\ Promised!IsSink(g, o)
    BY DEF Covers, Promised!Speaking, Promised!IsSink, Promised!ToSet, ToSet
  <2>7. /\ e.labels = Promised!LabelsOf(g, o)
        /\ e.forbid = Promised!ForbiddenBy(g, o)
        /\ e.approval = Promised!IsAsked(g, o)
    BY <2>5 DEF Promised!EntryOf
  <2> HIDE DEF o
  <2>8. p.labels \subseteq e.labels
    BY <2>6, <2>7 DEF Promised!LabelsOf, Promised!ToSet, ToSet
  <2>9. p.taints \subseteq e.forbid
    BY <2>6, <2>7 DEF Promised!ForbiddenBy, Promised!ToSet, ToSet
  <2>10. p.approval = "yes" => e.approval
    BY <2>6, <2>7 DEF Promised!IsAsked, Promised!Asks, Promised!ToSet, ToSet
  <2> QED BY <2>8, <2>9, <2>10
<1> QED BY <1>1, Invariance, PTL

\* Whatever the grants say, an entry of a network driver forbids the reserved
\* secret class, and a command runs unapproved only where a rule says so: at
\* every step, and not only in a table that is built.
THEOREM DefaultsStayClosed == Spec => []DefaultsAreClosed
<1>1. IInv => DefaultsAreClosed
  <2> SUFFICES ASSUME IInv, NEW e \in table
               PROVE  /\ Drivers[e.syscall] \in {"internet", "template", "openai"} =>
                             SecretClass \in e.forbid
                      /\ Drivers[e.syscall] = "command" /\ ~e.approval =>
                             \E g \in ToSet(grants) : \E p \in ToSet(g.config) :
                                 e.operation \in p.operations /\ p.approval = "no"
    BY DEF DefaultsAreClosed
  <2>1. PICK n \in 1..(next - 1) :
            /\ grants[n] \in ToSet(grants) /\ grants[n].syscall = e.syscall
            /\ e.operation \in Promised!Named(grants[n])
            /\ e = Promised!EntryOf(grants[n], e.operation)
    BY EntryIsPromised
  <2>2. /\ e.forbid = Promised!ForbiddenBy(grants[n], e.operation)
        /\ e.approval = Promised!IsAsked(grants[n], e.operation)
    BY <2>1 DEF Promised!EntryOf
  <2>3. Drivers[e.syscall] \in {"internet", "template", "openai"} => SecretClass \in e.forbid
    BY <2>1, <2>2 DEF Promised!ForbiddenBy, Promised!Floor, Promised!ToSet, ToSet
  <2>4. ASSUME Drivers[e.syscall] = "command", ~e.approval
        PROVE  \E p \in ToSet(grants[n].config) : e.operation \in p.operations /\ p.approval = "no"
    <3>1. PICK p \in ToSet(grants[n].config) : e.operation \in p.operations
      BY <2>1 DEF Promised!Named, Promised!ToSet, ToSet
    <3>2. p \in Promised!Speaking(grants[n], e.operation) /\ Promised!IsSink(grants[n], e.operation)
      BY <2>1, <2>4, <3>1 DEF Promised!Speaking, Promised!IsSink, Promised!ToSet, ToSet
    <3>3. ~Promised!Asks(grants[n], p)
      BY <2>2, <2>4, <3>2 DEF Promised!IsAsked, Promised!ToSet, ToSet
    <3>4. p.approval = "no"
      BY <2>1, <2>4, <3>3 DEF Promised!Asks
    <3> QED BY <3>1, <3>4
  <2> QED BY <2>1, <2>3, <2>4
<1> QED BY <1>1, Invariance, PTL

\* An entry of the table is on the syscall of the grant it came from, and no key
\* is served twice.
THEOREM EntriesStayHome == Spec => [](EntriesAreGranted /\ KeysAreUnique)
BY Invariance, PTL DEF IInv

----------------------------------------------------------------------------
\* The table is the grant.

\* A configuration is refused for a fault of the grant, and a sound one is taken.
LEMMA SoundIsTaken ==
    ASSUME NEW g, g.config \in Seq(Permissions), g.syscall \in DOMAIN Drivers,
           Drivers[g.syscall] \in DriverNames, Promised!IsSound(g)
    PROVE  ~ConfigFails(Drivers[g.syscall], g.config)
<1> DEFINE c == g.config
           driver == Drivers[g.syscall]
<1>1. \A k \in DOMAIN c : Promised!IsSoundPermission(c[k])
  BY DEF Promised!IsSound, Promised!ToSet, ToSet
<1>2. ~SecretMissing(c) /\ ~InternetRefuses(c)
  <2>1. c # <<>>
    BY DEF Promised!IsSound, Promised!ToSet, ToSet
  <2> QED BY <1>1, <2>1
          DEF Promised!IsSoundPermission, SecretMissing, InternetRefuses, ForgesLabels
<1>3. \A k \in DOMAIN c : OperationOf(c[k]) \in c[k].operations
  BY <1>1 DEF Promised!IsSoundPermission, OperationOf
<1>4. driver # "internet" => ~RulesRefuse(c)
  BY <1>2, <1>3 DEF RulesRefuse, Promised!IsSound, Promised!ToSet, ToSet
<1>5. driver \in DOMAIN Known => ~GrantsRefuse(driver, c)
  <2> SUFFICES ASSUME driver \in DOMAIN Known, NEW k \in DOMAIN c
               PROVE  OperationOf(c[k]) \in Known[driver]
    BY <1>4 DEF GrantsRefuse, Known, ToSet
  <2>1. OperationOf(c[k]) \in Promised!Named(g)
    BY <1>3 DEF Promised!Named, Promised!ToSet, ToSet
  <2>2. Known = Promised!Vocabulary
    BY DEF Known, Promised!Vocabulary
  <2> QED BY <2>1, <2>2 DEF Promised!IsSound, Promised!ToSet, ToSet
<1> QED BY <1>2, <1>4, <1>5 DEF ConfigFails, DriverNames

\* A grant that its driver takes, under its own syscall, is sound.
LEMMA TakenIsSound ==
    ASSUME NEW g, Taken(g), g.syscall \in DOMAIN Drivers, Contributes[g.syscall] = g.syscall
    PROVE  Promised!IsSound(g)
<1> DEFINE c == g.config
           driver == Drivers[g.syscall]
<1>1. ~SecretMissing(c) /\ ~InternetRefuses(c)
  BY DEF Taken, DriverNames, Known, ConfigFails, GrantsRefuse, RulesRefuse
<1>2. \A p \in ToSet(c) : Promised!IsSoundPermission(p)
  BY <1>1 DEF SecretMissing, InternetRefuses, ForgesLabels, Promised!IsSoundPermission, ToSet
<1>3. c # <<>>
  BY <1>1 DEF InternetRefuses
<1>4. ASSUME driver # "internet", NEW j \in DOMAIN c, NEW k \in DOMAIN c, j # k
      PROVE  c[j].operations \cap c[k].operations = {}
  <2>1. /\ c[j].operations = {OperationOf(c[j])} /\ c[k].operations = {OperationOf(c[k])}
        /\ OperationOf(c[j]) # OperationOf(c[k])
    BY <1>4, OneOperation
  <2> QED BY <2>1
<1>5. ASSUME driver \in DOMAIN Promised!Vocabulary
      PROVE  Promised!Named(g) \subseteq Promised!Vocabulary[driver]
  <2>1. Known = Promised!Vocabulary
    BY DEF Known, Promised!Vocabulary
  <2>2. ~GrantsRefuse(driver, c) /\ driver # "internet"
    BY <1>5, <2>1 DEF Taken, ConfigFails, Known
  <2>3. \A k \in DOMAIN c : c[k].operations = {OperationOf(c[k])}
    BY <2>2, OneOperation
  <2>4. \A p \in ToSet(c) : OperationOf(p) \in Known[driver]
    BY <2>2 DEF GrantsRefuse
  <2> QED BY <2>1, <2>3, <2>4 DEF Promised!Named, Promised!ToSet, ToSet
<1> QED BY <1>2, <1>3, <1>4, <1>5 DEF Promised!IsSound, Promised!ToSet, ToSet

\* The last step of a build is the promised one.
LEMMA FinishBuilds == ASSUME IInv, Finish PROVE Promised!Build
<1>1. /\ grants \in Grants /\ next = Len(grants) + 1 /\ Len(grants) \in Nat
      /\ DOMAIN grants = 1..Len(grants)
      /\ outcome = "building" /\ outcome' = "built" /\ UNCHANGED <<grants, next, table, hidden>>
  BY GrantTableAssumption DEF Finish, IInv, GrantsAreTyped
<1>2. ASSUME NEW g \in ToSet(grants) PROVE Promised!IsSound(g)
  <2>1. PICK n \in 1..(next - 1) : g = grants[n]
    BY <1>1, HasThemAll
  <2>2. g.syscall \in DOMAIN Drivers
    BY <2>1 DEF IInv, GrantsAreSound
  <2> QED BY <1>1, <2>1, <2>2, GrantsAreTaken, GrantIsServed, TakenIsSound
<1>3. Promised!AreApart(grants)
  <2> SUFFICES ASSUME NEW i \in 1..(next - 1), NEW j \in 1..(next - 1), i # j,
                      grants[i].syscall = grants[j].syscall,
                      NEW o \in Promised!Named(grants[i]) \cap Promised!Named(grants[j])
               PROVE  FALSE
    BY <1>1 DEF Promised!AreApart
  <2> DEFINE e == Promised!EntryOf(grants[i], o)
             f == Promised!EntryOf(grants[j], o)
  <2>1. e \in Family(grants[i]) /\ f \in Family(grants[j])
    BY <1>1, GrantIsServed
  <2>2. Key(e) = Key(f)
    BY DEF Key, Promised!EntryOf
  <2> QED BY <2>1, <2>2 DEF IInv, FamiliesAreApart
<1>4. table = Promised!TableOf(grants)
  BY <1>1, TableIsPromised
<1>5. hidden = {g.syscall : g \in {h \in ToSet(grants) : h.hidden}}
  <2>1. hidden = {grants[n].syscall : n \in {m \in 1..(next - 1) : grants[m].hidden}}
    BY <1>1 DEF IInv, HiddenIsAskedFor
  <2> QED BY <1>1, <2>1 DEF ToSet
<1> QED BY <1>1, <1>2, <1>3, <1>4, <1>5 DEF Promised!Build, Returned, Promised!ToSet, ToSet

\* A build fails for a fault of the manifest.
LEMMA FailureIsAFault ==
    ASSUME IInv, NoSuchSyscall \/ ConfigureFails \/ AddRefuses \/ ServesAnother
    PROVE  Promised!Refuse
<1>1. Building /\ Fail /\ grants \in Grants /\ Current = grants[next] /\ Len(grants) \in Nat
      /\ DOMAIN grants = 1..Len(grants) /\ next \in 1..Len(grants)
  BY GrantTableAssumption
  DEF NoSuchSyscall, ConfigureFails, AddRefuses, ServesAnother, Building, Current, IInv,
      GrantsAreTyped
<1>2. Current \in ToSet(grants)
  BY <1>1 DEF ToSet
<1>3. ~Promised!AreDistinct(grants) \/ ~Promised!IsSound(Current)
  <2>1. CASE NoSuchSyscall
    BY <2>1 DEF NoSuchSyscall, Promised!IsSound, Promised!ToSet, ToSet
  <2>2. CASE ConfigureFails
    BY <1>1, <2>2, SoundIsTaken, GrantTableAssumption DEF ConfigureFails
  <2>3. CASE ServesAnother
    <3>1. PICK e \in Family(Current) : e.syscall # Current.syscall
      BY <2>3 DEF ServesAnother, Foreign
    <3>2. e.syscall = Contributes[Current.syscall]
      BY DEF Family
    <3> QED BY <3>1, <3>2 DEF Promised!IsSound, Promised!ToSet, ToSet
  <2>4. CASE AddRefuses
    <3>1. PICK e \in table, f \in Family(Current) : e.syscall = f.syscall
      BY <2>4 DEF AddRefuses, Duplicates, Key
    <3>2. PICK n \in 1..(next - 1) : grants[n].syscall = e.syscall
      BY DEF IInv, EntriesAreGranted
    <3>3. f.syscall = Contributes[Current.syscall]
      BY DEF Family
    <3>4. CASE Contributes[Current.syscall] = Current.syscall
      <4>1. grants[n].syscall = grants[next].syscall /\ n # next /\ n \in DOMAIN grants
        BY <1>1, <3>1, <3>2, <3>3, <3>4
      <4> QED BY <1>1, <4>1 DEF Promised!AreDistinct
    <3>5. CASE Contributes[Current.syscall] # Current.syscall
      BY <3>5 DEF Promised!IsSound, Promised!ToSet, ToSet
    <3> QED BY <3>4, <3>5
  <2> QED BY <2>1, <2>2, <2>3, <2>4
<1> QED BY <1>1, <1>2, <1>3 DEF Promised!Refuse, Building, Fail, Returned, Promised!ToSet, ToSet

\* Registry.Build implements the promised table: added grant by grant, the table
\* is what the manifest says in one step, with every policy neither weaker nor
\* stricter than its permissions, and a manifest without a fault is not refused.
THEOREM TableIsTheManifest == Spec => ImplementsGrantedTable
<1>1. Init => Promised!Init
  BY DEF Init, Promised!Init, Returned
<1>2. ASSUME IInv, [Next]_vars PROVE [Promised!Next]_(Promised!vars)
  <2>1. CASE NoSuchSyscall \/ ConfigureFails \/ AddRefuses \/ ServesAnother
    BY <1>2, <2>1, FailureIsAFault DEF Promised!Next
  <2>2. CASE AddGrant
    BY <2>2 DEF AddGrant, Building, Promised!vars, Returned
  <2>3. CASE Finish
    BY <1>2, <2>3, FinishBuilds DEF Promised!Next
  <2>4. CASE UNCHANGED vars
    BY <2>4 DEF vars, Promised!vars, Returned
  <2> QED BY <1>2, <2>1, <2>2, <2>3, <2>4 DEF Next
<1> QED BY <1>1, <1>2, Invariance, PTL DEF Spec, ImplementsGrantedTable, Promised!Spec
=============================================================================
