------------------------------ MODULE Scratch ------------------------------
(***************************************************************************)
(* core.scratch: the handler (src/scratch/handler.go) over one session's   *)
(* Store (src/scratch/store.go), configured by a grant                     *)
(* (src/scratch/registration.go), under the runtime that calls it: a       *)
(* monitor that keeps each process's taint and asks for approval, and a    *)
(* journal that records a call before it is served and its result after.   *)
(* The runtime is outside the repository and is modelled from how the      *)
(* handlers use it.  The processes of a session run one at a time.         *)
(*                                                                         *)
(* `origin' and `exposure' are history variables: what a stored value and  *)
(* a process were really derived from, whatever the labels say.            *)
(***************************************************************************)
EXTENDS ScratchKeys, Naturals, FiniteSets

CONSTANTS
    Procs,       \* the session's processes
    Labels,      \* provenance labels
    Missing,     \* what a key that was never written holds
    NoCall,      \* a process with no call under way
    Grants,      \* the grant: a set of [operation, labels, taints, approval]
    MaxCalls,    \* bound: calls made in a session
    MaxCrashes   \* bound: interrupted calls in a session

Operations == {"get", "put", "store", "list", "search"}

ASSUME GrantsAssumption ==
    /\ Grants \subseteq [operation : Operations, labels : SUBSET Labels,
                         taints : SUBSET Labels, approval : BOOLEAN]
    /\ \A g, h \in Grants : g.operation = h.operation => g = h

ASSUME BoundsAssumption == MaxCalls \in Nat /\ MaxCrashes \in Nat

VARIABLES
    values,    \* the Store: [Keys -> Entry or Missing]
    pc,        \* where each process is
    call,      \* the call under way, journaled as an intent
    approved,  \* whether a person approved it
    saved,     \* the labels store's lookup returned
    result,    \* what the handler returned, not journaled yet
    taint,     \* what the flow monitor has accumulated for each process
    landed,    \* the call's write reached the Store at least once
    origin,    \* history: labels of what each stored value derives from
    exposure,  \* history: labels of what each process has observed
    calls,     \* bound counter
    crashes    \* bound counter

vars == <<values, pc, call, approved, saved, result, taint, landed,
          origin, exposure, calls, crashes>>

Entry == [text : Texts, labels : SUBSET Labels]

Calls == [op : {"get", "list"}, key : GuestKeys]
    \cup [op : {"search"}, key : GuestKeys, validPattern : BOOLEAN]
    \cup [op : {"put"}, key : GuestKeys, text : Texts]
    \cup [op : {"store"}, text : Texts]

\* The sentinels are no calls and no entries, as stored or as promised.
ASSUME SentinelAssumption ==
    /\ NoCall \notin Calls
    /\ Missing \notin Entry
    /\ Missing \notin [value : Texts, labels : SUBSET Labels]

Reads == {"get", "list", "search"}
Writes == {"put", "store"}

Statuses == {"none", "ok", "invalid_args", "transient"}
Results == [status : Statuses, labels : SUBSET Labels, sources : SUBSET Labels]
NoResult == [status |-> "none", labels |-> {}, sources |-> {}]
Failure(status) == [status |-> status, labels |-> {}, sources |-> {}]

States == {"waiting", "thinking", "gated", "intent", "saving", "served", "exited"}
Serving == {"intent", "saving", "served"}

----------------------------------------------------------------------------
\* The grant's flow policy: one property of the whole compartment.

GrantLabels == UNION {g.labels : g \in Grants}
GrantTaints == UNION {g.taints : g \in Grants}
GrantApproval == \E g \in Grants : g.approval

\* Variant of Forbid: each write is guarded by its own grant alone.
OwnTaintsOnly(op) ==
    IF op \in Writes THEN UNION {g.taints : g \in {h \in Grants : h.operation = op}} ELSE {}

\* Configure: only a write is a sink.
Forbid(op) == IF op \in Writes THEN GrantTaints ELSE {}
RequireApproval(op) == op \in Writes /\ GrantApproval
EntryLabels == GrantLabels

----------------------------------------------------------------------------
Init ==
    /\ values = [k \in Keys |-> Missing]
    /\ pc = [p \in Procs |-> "waiting"]
    /\ call = [p \in Procs |-> NoCall]
    /\ approved = [p \in Procs |-> FALSE]
    /\ saved = [p \in Procs |-> {}]
    /\ result = [p \in Procs |-> NoResult]
    /\ taint = [p \in Procs |-> {}]
    /\ landed = [p \in Procs |-> FALSE]
    /\ origin = [k \in Keys |-> {}]
    /\ exposure = [p \in Procs |-> {}]
    /\ calls = 0
    /\ crashes = 0

\* Variant of MayStart: two processes may share the session.
StartAnytime(p) == pc[p] = "waiting"

\* A session runs one process at a time.
MayStart(p) == pc[p] = "waiting" /\ \A q \in Procs : pc[q] \in {"waiting", "exited"}

Start(p) ==
    /\ MayStart(p)
    /\ pc' = [pc EXCEPT ![p] = "thinking"]
    /\ UNCHANGED <<values, call, approved, saved, result, taint, landed,
                   origin, exposure, calls, crashes>>

\* The guest ends.
Exit(p) ==
    /\ pc[p] = "thinking"
    /\ pc' = [pc EXCEPT ![p] = "exited"]
    /\ UNCHANGED <<values, call, approved, saved, result, taint, landed,
                   origin, exposure, calls, crashes>>

\* A result of another capability carries label l into the process.
Observe(p, l) ==
    /\ pc[p] = "thinking"
    /\ taint' = [taint EXCEPT ![p] = @ \cup {l}]
    /\ exposure' = [exposure EXCEPT ![p] = @ \cup {l}]
    /\ UNCHANGED <<values, pc, call, approved, saved, result, landed,
                   origin, calls, crashes>>

\* The guest calls a granted operation.  The monitor holds the call for
\* approval, or journals its intent.
Issue(p, c) ==
    /\ pc[p] = "thinking"
    /\ calls < MaxCalls
    /\ \E g \in Grants : g.operation = c.op
    /\ pc' = [pc EXCEPT ![p] =
                IF RequireApproval(c.op) \/ Forbid(c.op) \cap taint[p] # {}
                THEN "gated" ELSE "intent"]
    /\ call' = [call EXCEPT ![p] = c]
    /\ calls' = calls + 1
    /\ UNCHANGED <<values, approved, saved, result, taint, landed,
                   origin, exposure, crashes>>

Approve(p) ==
    /\ pc[p] = "gated"
    /\ pc' = [pc EXCEPT ![p] = "intent"]
    /\ approved' = [approved EXCEPT ![p] = TRUE]
    /\ UNCHANGED <<values, call, saved, result, taint, landed,
                   origin, exposure, calls, crashes>>

\* A refused call reaches no handler.
Deny(p) ==
    /\ pc[p] = "gated"
    /\ pc' = [pc EXCEPT ![p] = "thinking"]
    /\ call' = [call EXCEPT ![p] = NoCall]
    /\ UNCHANGED <<values, approved, saved, result, taint, landed,
                   origin, exposure, calls, crashes>>

----------------------------------------------------------------------------
\* The handler.

\* Variants of PutRefuses: put may name a saved value; any other key will do.
ReplaceFreely(k) == ~ValidKey(k)
AnyPath(k) == UnderSaved(k)

\* put's two checks: the key is a path, and not one of a saved value.
PutRefuses(k) == ~ValidKey(k) \/ UnderSaved(k)

\* What each operation refuses before it touches the Store.
Refused(c) ==
    \/ c.op \in {"get", "search"} /\ ~ValidKey(c.key)
    \/ c.op = "list" /\ c.key # Root /\ ~ValidKey(c.key)
    \/ c.op = "put" /\ PutRefuses(c.key)
    \/ c.op = "search" /\ ~c.validPattern

\* Variant of Return: the handler tries a failed Store again by itself.
RetryInside(p, r) ==
    /\ pc' = [pc EXCEPT ![p] = IF r.status = "transient" THEN "intent" ELSE "served"]
    /\ result' = [result EXCEPT ![p] = IF r.status = "transient" THEN @ ELSE r]

Return(p, r) ==
    /\ pc' = [pc EXCEPT ![p] = "served"]
    /\ result' = [result EXCEPT ![p] = r]

Refuse(p) ==
    /\ pc[p] = "intent"
    /\ Refused(call[p])
    /\ Return(p, Failure("invalid_args"))
    /\ UNCHANGED <<values, call, approved, saved, taint, landed,
                   origin, exposure, calls, crashes>>

\* The entries get, search (one key) and list (a prefix) read.
ReadKeys(c) == IF c.op = "list" THEN {k \in Keys : UnderPrefix(c.key, k)} ELSE {c.key}
Found(c) == {k \in ReadKeys(c) : values[k] # Missing}

\* Variant of ReadLabels: a key name carries no label.
ListsNamesOnly(c) ==
    IF c.op = "list" THEN {} ELSE UNION {values[k].labels : k \in Found(c)}

\* result.WithLabels: a read carries the labels of everything it read.
ReadLabels(c) == UNION {values[k].labels : k \in Found(c)}

Read(p) ==
    /\ pc[p] = "intent"
    /\ call[p].op \in Reads
    /\ ~Refused(call[p])
    /\ Return(p, [status |-> "ok", labels |-> ReadLabels(call[p]),
                  sources |-> GrantLabels \cup UNION {origin[k] : k \in Found(call[p])}])
    /\ UNCHANGED <<values, call, approved, saved, taint, landed,
                   origin, exposure, calls, crashes>>

\* The write put makes, with the process's taint.
PutLands(p) ==
    /\ values' = [values EXCEPT ![call[p].key] =
                    [text |-> call[p].text, labels |-> taint[p]]]
    /\ origin' = [origin EXCEPT ![call[p].key] = exposure[p]]
    /\ landed' = [landed EXCEPT ![p] = TRUE]

Put(p) ==
    /\ pc[p] = "intent"
    /\ call[p].op = "put"
    /\ ~Refused(call[p])
    /\ PutLands(p)
    /\ Return(p, [NoResult EXCEPT !.status = "ok"])
    /\ UNCHANGED <<call, approved, saved, taint, exposure, calls, crashes>>

\* The labels Store.Get returns: none for a key never written.
StoredLabels(k) == IF values[k] = Missing THEN {} ELSE values[k].labels

\* store, first half: Store.Get for the labels already there.
LookUp(p) ==
    /\ pc[p] = "intent"
    /\ call[p].op = "store"
    /\ pc' = [pc EXCEPT ![p] = "saving"]
    /\ saved' = [saved EXCEPT ![p] = StoredLabels(SavedKey(call[p].text))]
    /\ UNCHANGED <<values, call, approved, result, taint, landed,
                   origin, exposure, calls, crashes>>

\* Variants of SavedEntry: the text as the guest spaced it; the labels of the
\* last writer alone.
SavedAsWritten(p) == [text |-> call[p].text, labels |-> saved[p] \cup taint[p]]
SavedForWriter(p) == [text |-> Compact[call[p].text], labels |-> taint[p]]

\* What store writes: the compact text, under the labels it found and the
\* process's taint.
SavedEntry(p) == [text |-> Compact[call[p].text], labels |-> saved[p] \cup taint[p]]

SaveLands(p) ==
    LET k == SavedKey(call[p].text) IN
    /\ values' = [values EXCEPT ![k] = SavedEntry(p)]
    /\ origin' = [origin EXCEPT ![k] = @ \cup exposure[p]]
    /\ landed' = [landed EXCEPT ![p] = TRUE]

\* store, second half: Store.Put.
Save(p) ==
    /\ pc[p] = "saving"
    /\ SaveLands(p)
    /\ Return(p, [NoResult EXCEPT !.status = "ok"])
    /\ UNCHANGED <<call, approved, saved, taint, exposure, calls, crashes>>

\* storeFailure: any Store call may fail, and the guest is told to try again.
StoreFails(p) ==
    /\ \/ pc[p] = "intent" /\ ~Refused(call[p])
       \/ pc[p] = "saving"
    /\ Return(p, Failure("transient"))
    /\ UNCHANGED <<values, call, approved, saved, taint, landed,
                   origin, exposure, calls, crashes>>

\* ... and a write that failed may have reached the Store all the same.
WriteLandsAndFails(p) ==
    /\ \/ pc[p] = "intent" /\ call[p].op = "put" /\ ~Refused(call[p]) /\ PutLands(p)
       \/ pc[p] = "saving" /\ SaveLands(p)
    /\ Return(p, Failure("transient"))
    /\ UNCHANGED <<call, approved, saved, taint, exposure, calls, crashes>>

----------------------------------------------------------------------------
\* The runtime journals the completion, and the monitor adds the labels of
\* the result and of the entry to the process's taint.
Complete(p) ==
    LET r == result[p] IN
    /\ pc[p] = "served"
    /\ pc' = [pc EXCEPT ![p] = "thinking"]
    /\ taint' = [taint EXCEPT ![p] =
                   IF r.status = "ok" THEN @ \cup r.labels \cup EntryLabels ELSE @]
    /\ exposure' = [exposure EXCEPT ![p] = @ \cup r.sources]
    /\ call' = [call EXCEPT ![p] = NoCall]
    /\ approved' = [approved EXCEPT ![p] = FALSE]
    /\ result' = [result EXCEPT ![p] = NoResult]
    /\ saved' = [saved EXCEPT ![p] = {}]
    /\ landed' = [landed EXCEPT ![p] = FALSE]
    /\ UNCHANGED <<values, origin, calls, crashes>>

\* The host crashes, or the call's context is cancelled, before completion is
\* journaled.  The intent is, so the runtime drives the call again.
Interrupt(p) ==
    /\ pc[p] \in {"saving", "served"}
    /\ crashes < MaxCrashes
    /\ crashes' = crashes + 1
    /\ pc' = [pc EXCEPT ![p] = "intent"]
    /\ result' = [result EXCEPT ![p] = NoResult]
    /\ saved' = [saved EXCEPT ![p] = {}]
    /\ UNCHANGED <<values, call, approved, taint, landed, origin, exposure, calls>>

Serve(p) ==
    Refuse(p) \/ Read(p) \/ Put(p) \/ LookUp(p) \/ Save(p)
        \/ StoreFails(p) \/ WriteLandsAndFails(p) \/ Complete(p)

Step(p) ==
    \/ Start(p)
    \/ Exit(p)
    \/ \E l \in Labels : Observe(p, l)
    \/ \E c \in Calls : Issue(p, c)
    \/ Approve(p)
    \/ Deny(p)
    \/ Serve(p)
    \/ Interrupt(p)

Next == \E p \in Procs : Step(p)

Spec == Init /\ [][Next]_vars

\* The host serves and journals every call it has taken.
FairSpec == Spec /\ \A p \in Procs : WF_vars(Serve(p))

----------------------------------------------------------------------------
\* Correctness.

\* Every variable has its type, and every key that holds a value is a valid
\* relative path (checkKey stands before every write).
TypeOK ==
    /\ values \in [Keys -> Entry \cup {Missing}]
    /\ \A k \in Keys : values[k] # Missing => ValidKey(k)
    /\ pc \in [Procs -> States]
    /\ call \in [Procs -> Calls \cup {NoCall}]
    /\ \A p \in Procs : pc[p] \in Serving \cup {"gated"} <=> call[p] # NoCall
    /\ approved \in [Procs -> BOOLEAN]
    /\ saved \in [Procs -> SUBSET Labels]
    /\ result \in [Procs -> Results]
    /\ taint \in [Procs -> SUBSET Labels]
    /\ landed \in [Procs -> BOOLEAN]
    /\ origin \in [Keys -> SUBSET Labels]
    /\ exposure \in [Procs -> SUBSET Labels]
    /\ calls \in 0..MaxCalls
    /\ crashes \in 0..MaxCrashes

\* No data sheds a label by passing through the space: a value carries the
\* labels of all it derives from, and a process that read it, searched it or
\* listed its key is tainted by them, over any sequence of writers, saves of
\* the same content, failed writes and calls driven again.
NoLaundering ==
    /\ \A k \in Keys : values[k] # Missing => origin[k] \subseteq values[k].labels
    /\ \A p \in Procs : exposure[p] \subseteq taint[p]

\* A saved value is the content its key was made from, in compact form.
SavedHoldsItsContent ==
    \A t \in Texts : values[SavedKey(t)] # Missing => values[SavedKey(t)].text = Compact[t]

\* "A saved value never changes" (handler.go, savedPrefix): once saved, a text
\* stays as it is and only gains labels, whoever puts or saves what.
SavedNeverChanges ==
    [][\A t \in Texts :
         LET k == SavedKey(t) IN
         values[k] # Missing =>
             /\ values'[k] # Missing
             /\ values'[k].text = values[k].text
             /\ values[k].labels \subseteq values'[k].labels]_vars

\* "A crash between intent and completion runs the write again, which is
\* harmless" (store.go): once a call's write has landed, serving the call
\* again changes nothing in the space.
RedriveIsHarmless ==
    [][\A p \in Procs :
         landed[p] /\ pc[p] \in {"intent", "saving"} /\ pc'[p] # pc[p]
             => values' = values]_vars

\* The space is one compartment: a write that any grant of it forbids for
\* what the writer has observed, or that any grant wants approved, changes the
\* space only once a person approved that call.
WritesRespectEveryGrant ==
    [][\A k \in Keys :
         values'[k] # values[k] =>
             \E p \in Procs :
                 /\ pc[p] \in Serving
                 /\ \/ approved[p]
                    \/ \A g \in Grants : ~g.approval /\ g.taints \cap taint[p] = {}]_vars

\* Every call the host took on comes to a journaled result, however many
\* times it is interrupted and driven again.
CallsComplete == \A p \in Procs : pc[p] \in Serving ~> pc[p] = "thinking"

\* The labelled memory the guests see: compact JSON values.
Contents == {Compact[t] : t \in Texts}
Seen == [k \in Keys |->
           IF values[k] = Missing THEN Missing
           ELSE [value |-> Compact[values[k].text], labels |-> values[k].labels]]

Promised == INSTANCE SessionMemory WITH
    Values <- Contents,
    Saved <- [v \in Contents |-> SavedKey(v)],
    memory <- Seen

\* The handler's two-step saves, its results journaled later and its writes
\* run again after a crash look like single atomic steps of that memory.
ImplementsSessionMemory == Promised!Spec
=============================================================================
