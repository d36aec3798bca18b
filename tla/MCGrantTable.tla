---------------------------- MODULE MCGrantTable ----------------------------
(* Small instances of GrantTable for TLC. *)
EXTENDS GrantTable, TLC

CONSTANTS web, secret, forged, key, none

MCDrivers == ("core.internet" :> "internet") @@ ("core.openaiApi" :> "openai")
    @@ ("core.command" :> "command") @@ ("core.scratch" :> "scratch")
    @@ ("core.httpTemplate" :> "template") @@ ("custom" :> "template")

\* The custom registration answers for a syscall that is not its own.
MCContributes == [s \in DOMAIN MCDrivers |-> IF s = "custom" THEN "core.internet" ELSE s]

P(operations, labels, taints, approval, ref) ==
    [operations |-> operations, labels |-> labels, taints |-> taints, approval |-> approval,
     secret |-> ref]

\* The permissions of each syscall: methods alone and together, operations with
\* and without policy, a forged label, a secret that is missing.
MCPermissions(s) ==
    CASE s = "core.internet" ->
            {P(m, l, t, a, none) : m \in {{"GET"}, {"GET", "POST"}}, l \in {{}, {web}},
                                   t \in {{}, {web}}, a \in {"unset", "yes"}}
            \cup {P({"POST"}, {}, {}, "no", key), P({"POST"}, {}, {}, "no", "missing")}
      [] s = "core.scratch" ->
            {P({o}, l, t, a, none) : o \in {"get", "put"}, l \in {{}, {web}},
                                     t \in {{}, {web}}, a \in {"unset", "yes"}}
            \cup {P({"store"}, {forged}, {}, "unset", none), P({"chat"}, {}, {}, "unset", none)}
      [] OTHER ->
            {P({o}, {}, t, a, r) : o \in {"chat", "models"}, t \in {{}, {web}},
                                   a \in Approvals, r \in {none, key}}

MCConfigs(s) ==
    {<<>>} \cup {<<p>> : p \in MCPermissions(s)}
        \cup {<<p, q>> : p \in MCPermissions(s), q \in MCPermissions(s)}

One == UNION {{[syscall |-> s, hidden |-> FALSE, config |-> c] : c \in MCConfigs(s)} :
                s \in DOMAIN MCDrivers}

\* Second grants: of the same syscall or of another, hidden, and of a syscall
\* that nothing serves.
Second == {[syscall |-> "core.scratch", hidden |-> TRUE, config |-> <<P({"list"}, {web}, {}, "unset", none)>>],
           [syscall |-> "core.internet", hidden |-> FALSE, config |-> <<P({"GET"}, {}, {}, "yes", none)>>],
           [syscall |-> "core.bogus", hidden |-> FALSE, config |-> <<>>]}

MCGrants == {<<g>> : g \in One} \cup {<<g, h>> : g \in One, h \in Second}
MCOperations == {"GET", "POST", "get", "put", "store", "list", "chat", "models"}
=============================================================================
