---------------------------- MODULE GrantedTable ----------------------------
(***************************************************************************)
(* What a registry promises: "the table is the grant" (src/README.md).     *)
(* The table of a manifest appears whole, in a single step, or not at all; *)
(* it serves the operations that the manifest names, each under exactly    *)
(* the policy that the permissions speaking for it add up to; and a        *)
(* manifest is refused only for a fault of its own.  GrantTable.tla, which *)
(* adds one grant at a time and has each driver make its own policies,     *)
(* implements this.                                                        *)
(***************************************************************************)
EXTENDS Naturals, Sequences, SequencesExt

CONSTANTS
    Drivers,      \* [syscall -> driver]: the registrations
    Contributes,  \* [syscall -> syscall]: the syscall a registration's entries name
    SecretClass,  \* the label no network egress may carry
    Reserved,     \* labels that no manifest may declare
    Secrets,      \* the secret names the host holds
    NoSecret      \* a permission that references none

VARIABLES
    grants,   \* the manifest, a sequence of [syscall, hidden, config]
    table,    \* the entries served: [syscall, operation, labels, forbid, approval]
    hidden,   \* the syscalls kept off the menu
    outcome   \* "building", "built" or "failed"

vars == <<grants, table, hidden, outcome>>

\* Of any manifest.
Init ==
    /\ table = {}
    /\ hidden = {}
    /\ outcome = "building"

----------------------------------------------------------------------------
\* The policy of an operation.

Named(g) == UNION {p.operations : p \in ToSet(g.config)}

\* The permissions that speak for an operation: those that name it, and in the
\* compartment of a session all of the grant's.
Speaking(g, o) == {p \in ToSet(g.config) : Drivers[g.syscall] = "scratch" \/ o \in p.operations}

\* Only the writes of a compartment are sinks; every other operation is one.
IsSink(g, o) == Drivers[g.syscall] = "scratch" => o \in {"put", "store"}

Floor(g) == IF Drivers[g.syscall] \in {"internet", "template", "openai"} THEN {SecretClass} ELSE {}

\* A command asks unless it is waived; the others are asked for.
Asks(g, p) == IF Drivers[g.syscall] = "command" THEN p.approval # "no" ELSE p.approval = "yes"

LabelsOf(g, o) == UNION {p.labels : p \in Speaking(g, o)}
ForbiddenBy(g, o) == Floor(g) \cup UNION {p.taints : p \in {q \in Speaking(g, o) : IsSink(g, o)}}
IsAsked(g, o) == \E p \in Speaking(g, o) : IsSink(g, o) /\ Asks(g, p)

EntryOf(g, o) ==
    [syscall |-> g.syscall, operation |-> o, labels |-> LabelsOf(g, o),
     forbid |-> ForbiddenBy(g, o), approval |-> IsAsked(g, o)]

TableOf(gs) == UNION {{EntryOf(g, o) : o \in Named(g)} : g \in ToSet(gs)}

----------------------------------------------------------------------------
\* What a manifest may be.

Vocabulary == [scratch |-> {"get", "put", "store", "list", "search"},
               openai |-> {"chat", "responses", "embeddings", "models"}]

IsSoundPermission(p) ==
    /\ p.operations # {}
    /\ (p.labels \cup p.taints) \cap Reserved = {}
    /\ p.secret \in Secrets \cup {NoSecret}

\* A grant of a syscall that is served, by a registration that answers for it.
IsSound(g) ==
    /\ g.syscall \in DOMAIN Drivers /\ Contributes[g.syscall] = g.syscall
    /\ g.config # <<>>
    /\ \A p \in ToSet(g.config) : IsSoundPermission(p)
    /\ Drivers[g.syscall] # "internet" =>
         \A j, k \in DOMAIN g.config :
            j # k => g.config[j].operations \cap g.config[k].operations = {}
    /\ Drivers[g.syscall] \in DOMAIN Vocabulary => Named(g) \subseteq Vocabulary[Drivers[g.syscall]]

\* No operation is granted twice.
AreApart(gs) ==
    \A i, j \in DOMAIN gs :
        i # j /\ gs[i].syscall = gs[j].syscall => Named(gs[i]) \cap Named(gs[j]) = {}

AreDistinct(gs) == \A i, j \in DOMAIN gs : gs[i].syscall = gs[j].syscall => i = j

Build ==
    /\ outcome = "building"
    /\ \A g \in ToSet(grants) : IsSound(g)
    /\ AreApart(grants)
    /\ outcome' = "built"
    /\ table' = TableOf(grants)
    /\ hidden' = {g.syscall : g \in {h \in ToSet(grants) : h.hidden}}
    /\ UNCHANGED grants

\* A manifest of sound grants, each of a syscall of its own, is never refused.
Refuse ==
    /\ outcome = "building"
    /\ ~AreDistinct(grants) \/ \E g \in ToSet(grants) : ~IsSound(g)
    /\ outcome' = "failed"
    /\ UNCHANGED <<grants, table, hidden>>

Next == Build \/ Refuse

Spec == Init /\ [][Next]_vars
=============================================================================
