----------------------------- MODULE GrantTable -----------------------------
(***************************************************************************)
(* Building a process's capability table from its grants: Registry.Build   *)
(* (src/registry/registry.go), the grant vocabulary (grants.go), secret    *)
(* resolution (secret.go) and what each driver's Configure makes of a      *)
(* grant's flow and approval policy.  A grant's config is the sequence of  *)
(* its `capabilities', each of one operation but for core.internet's, where*)
(* one permission may name several methods; label lists are sets, for      *)
(* UnionLabels and NormalizeLabels sort them and drop duplicates.          *)
(* capability.Table is external: it refuses an entry it already holds; and *)
(* whether it takes a second family of one syscall with other operations   *)
(* is left open.                                                           *)
(***************************************************************************)
EXTENDS Naturals, Sequences, SequencesExt, FiniteSetsExt

CONSTANTS
    Grants,       \* the manifests in play: sequences of [syscall, hidden, config]
    Drivers,      \* [syscall -> driver]: the registrations
    Contributes,  \* [syscall -> syscall]: the syscall a registration's entries name
    Operations,   \* operation names, and HTTP methods in canonical form
    Labels,       \* labels, the reserved secret class and reserved names included
    SecretClass,  \* EgressForbidFloor
    Reserved,     \* labels under the kernel's "syscall:" prefix
    Secrets,      \* the secret names the resolver knows
    NoSecret      \* a capability that references none

DriverNames == {"internet", "template", "openai", "command", "scratch"}
Approvals == {"unset", "yes", "no"}
Permissions == [operations : SUBSET Operations, labels : SUBSET Labels, taints : SUBSET Labels,
                approval : Approvals, secret : Secrets \cup {"missing", NoSecret}]

ASSUME GrantTableAssumption ==
    /\ SecretClass \in Labels /\ Reserved \subseteq Labels /\ SecretClass \notin Reserved
    /\ \A s \in DOMAIN Drivers : Drivers[s] \in DriverNames
    /\ DOMAIN Contributes = DOMAIN Drivers
    /\ \A g \in Grants : g \in Seq(ToSet(g))
    /\ \A g \in Grants : \A n \in 1..Len(g) :
        /\ g[n].config \in Seq(Permissions)
        /\ g[n].syscall \in DOMAIN Drivers /\ Drivers[g[n].syscall] # "internet" =>
             \A p \in ToSet(g[n].config) : \A o, q \in p.operations : o = q

VARIABLES
    grants,   \* the grants to build
    next,     \* the grant under way
    table,    \* the table so far: [syscall, operation, labels, forbid, approval]
    hidden,   \* the syscalls kept off the menu
    outcome   \* "building", "built" or "failed"

vars == <<grants, next, table, hidden, outcome>>

----------------------------------------------------------------------------
\* The drivers.

\* Variant of WithEgressFloor: the floor is a default for omitted taints.
FloorWhenOmitted(taints) == IF taints = {} THEN {SecretClass} ELSE taints

\* Every network-egress sink forbids the reserved secret class.
WithEgressFloor(taints) == taints \cup {SecretClass}

Policy(labels, forbid, approval) == [labels |-> labels, forbid |-> forbid, approval |-> approval]

\* Variant of AddPermission: a later permission replaces an earlier one's policy
\* for the method.
ReplacePermission(methods, p) ==
    [m \in DOMAIN methods \cup p.operations |->
        IF m \in p.operations
        THEN Policy(p.labels, WithEgressFloor(p.taints), p.approval = "yes")
        ELSE methods[m]]

NoPolicy == Policy({}, {}, FALSE)

\* One permission's labels, taints and approval are added to those of its methods.
AddPermission(methods, p) ==
    [m \in DOMAIN methods \cup p.operations |->
        LET old == IF m \in DOMAIN methods THEN methods[m] ELSE NoPolicy IN
        IF m \in p.operations
        THEN Policy(old.labels \cup p.labels, WithEgressFloor(old.forbid \cup p.taints),
                    old.approval \/ p.approval = "yes")
        ELSE old]

\* internetMethodPolicies: the policies of the permissions, method by method.
MethodPolicies(config) ==
    LET upTo[n \in 0..Len(config)] ==
          IF n = 0 THEN [m \in {} |-> NoPolicy] ELSE AddPermission(upTo[n - 1], config[n])
    IN  upTo[Len(config)]

OperationOf(p) == CHOOSE o \in p.operations : TRUE

\* core.scratch: one policy for the whole space, its sinks the writes.
CompartmentPolicy(config, o) ==
    LET labels == UNION {config[k].labels : k \in DOMAIN config}
        taints == UNION {config[k].taints : k \in DOMAIN config}
        asked == \E k \in DOMAIN config : config[k].approval = "yes"
    IN IF o \in {"put", "store"} THEN Policy(labels, taints, asked)
       ELSE Policy(labels, {}, FALSE)

\* core.command: no egress floor, and approval unless the rule waives it.
CommandPolicy(p) == Policy(p.labels, p.taints, p.approval # "no")

\* core.httpTemplate and core.openaiApi: every operation is egress.
EgressPolicy(p) == Policy(p.labels, WithEgressFloor(p.taints), p.approval = "yes")

\* The policy each driver publishes for each operation a config grants.
Policies(driver, config) ==
    IF driver = "internet" THEN MethodPolicies(config)
    ELSE [o \in {OperationOf(config[k]) : k \in DOMAIN config} |->
            LET p == config[CHOOSE k \in DOMAIN config : OperationOf(config[k]) = o] IN
            CASE driver = "scratch" -> CompartmentPolicy(config, o)
              [] driver = "command" -> CommandPolicy(p)
              [] OTHER -> EgressPolicy(p)]

----------------------------------------------------------------------------
\* What a driver refuses to configure.

\* NormalizeLabels: a label in the kernel's namespace.
ForgesLabels(config) ==
    \E k \in DOMAIN config : (config[k].labels \cup config[k].taints) \cap Reserved # {}

\* Variant of SecretMissing: a missing secret is left to the call.
SecretsUnchecked(config) == FALSE

\* Secret.Resolve: the host does not hold a secret that the config names.
SecretMissing(config) == \E k \in DOMAIN config : config[k].secret \notin Secrets \cup {NoSecret}

\* No permission, or one without a method.
InternetRefuses(config) ==
    config = <<>> \/ ForgesLabels(config) \/ \E k \in DOMAIN config : config[k].operations = {}

\* A command or a template is granted by its name, and only once.
RulesRefuse(config) ==
    \/ InternetRefuses(config)
    \/ \E j, k \in DOMAIN config : j # k /\ OperationOf(config[j]) = OperationOf(config[k])

\* The operations a driver has of its own.
Known == [scratch |-> {"get", "put", "store", "list", "search"},
          openai |-> {"chat", "responses", "embeddings", "models"}]

\* ParseOperationGrants: each operation is one of the driver's.
GrantsRefuse(driver, config) ==
    RulesRefuse(config) \/ \E p \in ToSet(config) : OperationOf(p) \notin Known[driver]

ConfigFails(driver, config) ==
    \/ SecretMissing(config)
    \/ driver = "internet" /\ InternetRefuses(config)
    \/ driver \in {"command", "template"} /\ RulesRefuse(config)
    \/ driver \in DOMAIN Known /\ GrantsRefuse(driver, config)

Family(g) ==
    LET policies == Policies(Drivers[g.syscall], g.config) IN
    {[syscall |-> Contributes[g.syscall], operation |-> o, labels |-> policies[o].labels,
      forbid |-> policies[o].forbid, approval |-> policies[o].approval] : o \in DOMAIN policies}

----------------------------------------------------------------------------
\* Registry.Build, one grant a step.

Init ==
    /\ grants \in Grants
    /\ next = 1
    /\ table = {}
    /\ hidden = {}
    /\ outcome = "building"

Key(e) == <<e.syscall, e.operation>>
Current == grants[next]

\* Variant of Fail: the table so far comes with the error.
FailWithTable ==
    /\ outcome' = "failed"
    /\ UNCHANGED <<grants, next, table, hidden>>

\* Build returns no table.
Fail ==
    /\ outcome' = "failed"
    /\ table' = {}
    /\ hidden' = {}
    /\ UNCHANGED <<grants, next>>

Building == outcome = "building" /\ next <= Len(grants)
Configured ==
    Current.syscall \in DOMAIN Drivers /\ ~ConfigFails(Drivers[Current.syscall], Current.config)

NoSuchSyscall ==
    /\ Building
    /\ Current.syscall \notin DOMAIN Drivers
    /\ Fail

ConfigureFails ==
    /\ Building
    /\ Current.syscall \in DOMAIN Drivers
    /\ ConfigFails(Drivers[Current.syscall], Current.config)
    /\ Fail

\* capability.Table.Add: an entry it holds already.
Duplicates(family) == {Key(e) : e \in family} \cap {Key(e) : e \in table} # {}

AddRefuses ==
    /\ Building /\ Configured
    /\ LET family == Family(Current) IN
        Duplicates(family) \/ \E e \in table, f \in family : e.syscall = f.syscall
    /\ Fail

Foreign(family, syscall) == \E e \in family : e.syscall # syscall

ServesAnother ==
    /\ Building /\ Configured
    /\ LET family == Family(Current) IN ~Duplicates(family) /\ Foreign(family, Current.syscall)
    /\ Fail

AddGrant ==
    /\ Building /\ Configured
    /\ LET family == Family(Current) IN
        /\ ~Duplicates(family) /\ ~Foreign(family, Current.syscall)
        /\ table' = table \cup family
    /\ hidden' = IF Current.hidden THEN hidden \cup {Current.syscall} ELSE hidden
    /\ next' = next + 1
    /\ UNCHANGED <<grants, outcome>>

Finish ==
    /\ outcome = "building" /\ next > Len(grants)
    /\ outcome' = "built"
    /\ UNCHANGED <<grants, next, table, hidden>>

Next == NoSuchSyscall \/ ConfigureFails \/ AddRefuses \/ ServesAnother \/ AddGrant \/ Finish

Spec == Init /\ [][Next]_vars

----------------------------------------------------------------------------
\* Correctness.

\* Every variable has its type, and no two entries share a key.
TypeOK ==
    /\ next \in 1..(Len(grants) + 1)
    /\ \A e \in table :
        /\ e.operation \in Operations /\ e.labels \subseteq Labels
        /\ e.forbid \subseteq Labels /\ e.approval \in BOOLEAN
    /\ \A e, f \in table : Key(e) = Key(f) => e = f
    /\ hidden \subseteq DOMAIN Drivers
    /\ outcome \in {"building", "built", "failed"}

\* "The table is the grant" (README): what a built table serves is exactly the
\* operations its grants name, each on its own syscall.
Granted ==
    UNION {UNION {{<<g.syscall, o>> : o \in g.config[k].operations} : k \in DOMAIN g.config} :
             g \in ToSet(grants)}
TableIsTheGrant == outcome = "built" => {Key(e) : e \in table} = Granted

\* A permission speaks for its own operations; in the scratch compartment, for
\* every write of the grant.
Covers(g, p, e) ==
    /\ g.syscall = e.syscall
    /\ IF Drivers[g.syscall] = "scratch"
       THEN e.operation \in {"put", "store"} /\ \E q \in ToSet(g.config) : e.operation \in q.operations
       ELSE e.operation \in p.operations

\* No permission of a grant is weakened by another of the same operation or of
\* the same compartment, in whatever order they are written: its labels are
\* stamped, its taints forbidden and its approval asked.
PermissionsAddUp ==
    outcome = "built" =>
        \A e \in table, g \in ToSet(grants) : \A p \in ToSet(g.config) :
            Covers(g, p, e) =>
                /\ p.labels \subseteq e.labels
                /\ p.taints \subseteq e.forbid
                /\ p.approval = "yes" => e.approval

\* "Fails CLOSED on omission" (grants.go): whatever the manifest says, data of
\* the reserved secret class reaches no network egress without approval, and
\* no command runs unapproved unless its rule says so.
DefaultsAreClosed ==
    \A e \in table :
        /\ Drivers[e.syscall] \in {"internet", "template", "openai"} => SecretClass \in e.forbid
        /\ Drivers[e.syscall] = "command" /\ ~e.approval =>
             \E g \in ToSet(grants) : \E p \in ToSet(g.config) :
                 e.operation \in p.operations /\ p.approval = "no"

\* "A manifest must not be able to declare a label in the kernel's reserved
\* namespace" (reserved_labels_test.go), and a grant whose secret the host does
\* not hold does not build: a built table has neither, in any grant.
OnlySoundGrantsBuild ==
    outcome = "built" =>
        \A g \in ToSet(grants) : \A p \in ToSet(g.config) :
            /\ (p.labels \cup p.taints) \cap Reserved = {}
            /\ p.secret \in Secrets \cup {NoSecret}

\* What a caller of Build has: nothing before it returns, and then its table, the
\* one that comes with an error included.
Returned(t) == IF outcome = "building" THEN {} ELSE t

Promised == INSTANCE GrantedTable WITH table <- Returned(table), hidden <- Returned(hidden)

\* "The table is the grant" (README), exactly: built grant by grant, and by
\* drivers that each make policies of their own, the table comes out as if it had
\* been written down from the manifest in one step, with every policy neither
\* weaker nor stricter than the permissions that speak for the operation; and a
\* build fails only for a fault of the manifest, with nothing of a table.
ImplementsGrantedTable == Promised!Spec
=============================================================================
