--------------------------- MODULE SessionMemory ---------------------------
(***************************************************************************)
(* What core.scratch promises the processes of one session: one labelled   *)
(* memory whose operations are single steps.  Scratch.tla, where a save is *)
(* a lookup and a write, a result is journaled after the store answered,   *)
(* and a crash runs a write again, implements this.                        *)
(***************************************************************************)
CONSTANTS Procs, Keys, Values, Labels,
          Saved,     \* the key a value is saved under: [Values -> Keys]
          Missing,   \* what a key that was never written holds
          GrantLabels  \* the labels every read of the compartment carries

VARIABLES
    memory,   \* [Keys -> entry or Missing]
    taint     \* [Procs -> SUBSET Labels], what each process has observed

vars == <<memory, taint>>

Entry == [value : Values, labels : SUBSET Labels]

LabelsIn(K) == UNION {memory[k].labels : k \in {j \in K : memory[j] # Missing}}

Init ==
    /\ memory = [k \in Keys |-> Missing]
    /\ taint = [p \in Procs |-> {}]

\* Another capability's result taints the process.
Observe(p, l) ==
    /\ taint' = [taint EXCEPT ![p] = @ \cup {l}]
    /\ UNCHANGED memory

\* A write replaces the value and labels it with all the writer observed.
Write(p, k, v) ==
    /\ k \notin {Saved[w] : w \in Values}
    /\ memory' = [memory EXCEPT ![k] = [value |-> v, labels |-> taint[p]]]
    /\ UNCHANGED taint

\* A save never changes the value under its key, and never forgets a label.
Save(p, v) ==
    /\ memory[Saved[v]] # Missing => memory[Saved[v]].value = v
    /\ memory' = [memory EXCEPT ![Saved[v]] =
                    [value |-> v, labels |-> LabelsIn({Saved[v]}) \cup taint[p]]]
    /\ UNCHANGED taint

\* A read taints the reader with the labels of everything it read, as it is
\* stored when the read completes.
Read(p, K) ==
    /\ taint' = [taint EXCEPT ![p] = @ \cup LabelsIn(K) \cup GrantLabels]
    /\ UNCHANGED memory

Next ==
    \E p \in Procs :
        \/ \E l \in Labels : Observe(p, l)
        \/ \E k \in Keys, v \in Values : Write(p, k, v)
        \/ \E v \in Values : Save(p, v)
        \/ \E K \in SUBSET Keys : Read(p, K)

Spec == Init /\ [][Next]_vars
=============================================================================
