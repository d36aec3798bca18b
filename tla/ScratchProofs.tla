--------------------------- MODULE ScratchProofs ---------------------------
(***************************************************************************)
(* Theorems about Scratch for every set of processes, labels, keys, texts  *)
(* and grants.                                                             *)
(***************************************************************************)
EXTENDS Scratch, TLAPS

\* What store writes under is a valid key of the space that put refuses, and
\* only texts of equal compact form share it.
LEMMA SavedKeyFacts ==
    ASSUME NEW t \in Texts
    PROVE  /\ SavedKey(t) \in Keys
           /\ ValidKey(SavedKey(t))
           /\ UnderSaved(SavedKey(t))
           /\ Compact[t] \in Texts
           /\ \A s \in Texts : SavedKey(s) = SavedKey(t) => Compact[s] = Compact[t]
  <1>1. Compact[t] \in Texts
    BY CompactAssumption
  <1>2. Len(SavedKey(t)) = 2 /\ SavedKey(t)[1] = "io" /\ SavedKey(t)[2] = Digest[Compact[t]]
    BY DEF SavedKey
  <1>3. Digest[Compact[t]] \notin {"", ".", ".."}
    BY <1>1, DigestAssumption
  <1>4. ValidKey(SavedKey(t))
    <2> SUFFICES ASSUME NEW i \in 1..Len(SavedKey(t))
                 PROVE  SavedKey(t)[i] \notin {"", ".", ".."}
      BY DEF ValidKey
    <2>1. i = 1 \/ i = 2
      BY <1>2
    <2>2. "io" \notin {"", ".", ".."}
      OBVIOUS
    <2> QED BY <1>2, <1>3, <2>1, <2>2
  <1>5. UnderSaved(SavedKey(t))
    BY <1>2 DEF UnderSaved
  <1>6. ASSUME NEW s \in Texts, SavedKey(s) = SavedKey(t)
        PROVE  Compact[s] = Compact[t]
    <2>1. SavedKey(s)[2] = Digest[Compact[s]]
      BY DEF SavedKey
    <2>2. Digest[Compact[s]] = Digest[Compact[t]]
      BY <1>2, <1>6, <2>1
    <2> QED BY <2>2, DigestAssumption
  <1> QED BY <1>1, <1>4, <1>5, <1>6 DEF Keys

\* The fields of a call, by its operation.
LEMMA CallFields ==
    ASSUME NEW c \in Calls
    PROVE  /\ c.op \in Operations
           /\ c.op # "store" => c.key \in Keys
           /\ c.op \in Writes => c.text \in Texts
  BY DEF Calls, Operations, Writes, Keys

----------------------------------------------------------------------------
(* Types.  A call in its second half is a store, and a call whose write has *)
(* landed is a write that was not refused.                                  *)

CallShape ==
    \A p \in Procs :
        /\ pc[p] = "saving" => call[p].op = "store"
        /\ landed[p] => pc[p] \in Serving /\ call[p].op \in Writes /\ ~Refused(call[p])

TypeInv == TypeOK /\ CallShape

\* What a write of put leaves: entries of the right type under valid keys.
LEMMA PutTypes ==
    ASSUME TypeInv, NEW p \in Procs, PutLands(p),
           pc[p] = "intent", call[p].op = "put", ~Refused(call[p])
    PROVE  /\ values' \in [Keys -> Entry \cup {Missing}]
           /\ \A k \in Keys : values'[k] # Missing => ValidKey(k)
           /\ origin' \in [Keys -> SUBSET Labels]
           /\ landed' \in [Procs -> BOOLEAN]
           /\ landed' = [landed EXCEPT ![p] = TRUE]
  <1> USE DEF TypeInv, TypeOK
  <1>1. call[p] \in Calls
    BY DEF Serving
  <1>2. call[p].key \in Keys /\ call[p].text \in Texts
    BY <1>1, CallFields DEF Writes
  <1>3. ValidKey(call[p].key)
    BY DEF Refused, PutRefuses
  <1>4. [text |-> call[p].text, labels |-> taint[p]] \in Entry
    BY <1>2 DEF Entry
  <1> QED BY <1>2, <1>3, <1>4 DEF PutLands

\* What a write of store leaves.
LEMMA SaveTypes ==
    ASSUME TypeInv, NEW p \in Procs, SaveLands(p), pc[p] = "saving"
    PROVE  /\ values' \in [Keys -> Entry \cup {Missing}]
           /\ \A k \in Keys : values'[k] # Missing => ValidKey(k)
           /\ origin' \in [Keys -> SUBSET Labels]
           /\ landed' \in [Procs -> BOOLEAN]
           /\ landed' = [landed EXCEPT ![p] = TRUE]
           /\ call[p].op = "store" /\ ~Refused(call[p])
  <1> USE DEF TypeInv, TypeOK, CallShape
  <1>1. call[p] \in Calls /\ call[p].op = "store"
    BY DEF Serving
  <1>2. call[p].text \in Texts
    BY <1>1, CallFields DEF Writes
  <1>3. SavedEntry(p) \in Entry
    BY <1>2, SavedKeyFacts DEF SavedEntry, Entry
  <1>4. ~Refused(call[p])
    BY <1>1 DEF Refused
  <1> QED BY <1>1, <1>2, <1>3, <1>4, SavedKeyFacts DEF SaveLands

\* A read carries labels, and derives from labels.
LEMMA ReadTypes ==
    ASSUME TypeInv, NEW c \in Calls, c.op \in Reads
    PROVE  /\ ReadLabels(c) \in SUBSET Labels
           /\ GrantLabels \cup UNION {origin[k] : k \in Found(c)} \in SUBSET Labels
  <1> USE DEF TypeInv, TypeOK
  <1>1. \A k \in Found(c) : values[k] # Missing
    BY DEF Found
  <1>2. ASSUME NEW k \in Found(c), k \in Keys
        PROVE  values[k].labels \subseteq Labels
    BY <1>1, <1>2 DEF Entry
  <1>3. Found(c) \subseteq Keys
    BY CallFields DEF Found, ReadKeys, Reads
  <1>4. GrantLabels \subseteq Labels
    BY GrantsAssumption DEF GrantLabels
  <1> QED BY <1>2, <1>3, <1>4 DEF ReadLabels

\* The empty space and its waiting processes have their types.
LEMMA TypeInit == Init => TypeInv
  BY SentinelAssumption, BoundsAssumption
  DEF Init, TypeInv, TypeOK, CallShape, States, Serving, NoResult, Results, Statuses

\* No operation, failure or interruption breaks a type, nor the tie between
\* where a process is and the call it holds.
LEMMA TypeStep == TypeInv /\ [Next]_vars => TypeInv'
  <1> SUFFICES ASSUME TypeInv, [Next]_vars PROVE TypeInv'
    OBVIOUS
  <1> USE SentinelAssumption, BoundsAssumption DEF TypeInv, TypeOK, CallShape
  <1>0. CASE UNCHANGED vars
    BY <1>0 DEF vars
  <1>1. ASSUME NEW p \in Procs, Start(p) PROVE TypeInv'
    BY <1>1 DEF Start, MayStart, States, Serving
  <1>2. ASSUME NEW p \in Procs, Exit(p) PROVE TypeInv'
    BY <1>2 DEF Exit, States, Serving
  <1>3. ASSUME NEW p \in Procs, NEW l \in Labels, Observe(p, l) PROVE TypeInv'
    BY <1>3 DEF Observe
  <1>4. ASSUME NEW p \in Procs, NEW c \in Calls, Issue(p, c) PROVE TypeInv'
    BY <1>4 DEF Issue, States, Serving
  <1>5. ASSUME NEW p \in Procs, Approve(p) PROVE TypeInv'
    BY <1>5 DEF Approve, States, Serving
  <1>6. ASSUME NEW p \in Procs, Deny(p) PROVE TypeInv'
    BY <1>6 DEF Deny, States, Serving
  <1>7. ASSUME NEW p \in Procs, Refuse(p) PROVE TypeInv'
    <2>1. Failure("invalid_args") \in Results
      BY DEF Failure, Results, Statuses
    <2> QED BY <1>7, <2>1 DEF Refuse, Return, States, Serving
  <1>8. ASSUME NEW p \in Procs, Read(p) PROVE TypeInv'
    <2>1. call[p] \in Calls /\ call[p].op \in Reads
      BY <1>8 DEF Read, Serving
    <2>2. /\ ReadLabels(call[p]) \in SUBSET Labels
          /\ GrantLabels \cup UNION {origin[k] : k \in Found(call[p])} \in SUBSET Labels
      BY <2>1, ReadTypes
    <2> QED BY <1>8, <2>2 DEF Read, Return, States, Serving, Statuses, Results
  <1>9. ASSUME NEW p \in Procs, Put(p) PROVE TypeInv'
    <2>1. PutLands(p) /\ pc[p] = "intent" /\ call[p].op = "put" /\ ~Refused(call[p])
      BY <1>9 DEF Put
    <2>2. [NoResult EXCEPT !.status = "ok"] \in Results
      BY DEF NoResult, Results, Statuses
    <2> QED BY <1>9, <2>1, <2>2, PutTypes DEF Put, Return, States, Serving, Writes
  <1>10. ASSUME NEW p \in Procs, LookUp(p) PROVE TypeInv'
    <2>1. call[p] \in Calls /\ call[p].op = "store" /\ call[p].text \in Texts
      BY <1>10, CallFields DEF LookUp, Serving, Writes
    <2>2. StoredLabels(SavedKey(call[p].text)) \in SUBSET Labels
      BY <2>1, SavedKeyFacts DEF StoredLabels, Entry
    <2> QED BY <1>10, <2>1, <2>2 DEF LookUp, States, Serving
  <1>11. ASSUME NEW p \in Procs, Save(p) PROVE TypeInv'
    <2>1. SaveLands(p) /\ pc[p] = "saving"
      BY <1>11 DEF Save
    <2>2. [NoResult EXCEPT !.status = "ok"] \in Results
      BY DEF NoResult, Results, Statuses
    <2> QED BY <1>11, <2>1, <2>2, SaveTypes DEF Save, Return, States, Serving, Writes
  <1>12. ASSUME NEW p \in Procs, StoreFails(p) PROVE TypeInv'
    <2>1. Failure("transient") \in Results
      BY DEF Failure, Results, Statuses
    <2> QED BY <1>12, <2>1 DEF StoreFails, Return, States, Serving
  <1>13. ASSUME NEW p \in Procs, WriteLandsAndFails(p) PROVE TypeInv'
    <2>1. Failure("transient") \in Results
      BY DEF Failure, Results, Statuses
    <2>2. CASE pc[p] = "intent" /\ call[p].op = "put" /\ ~Refused(call[p]) /\ PutLands(p)
      BY <1>13, <2>1, <2>2, PutTypes DEF WriteLandsAndFails, Return, States, Serving, Writes
    <2>3. CASE pc[p] = "saving" /\ SaveLands(p)
      BY <1>13, <2>1, <2>3, SaveTypes DEF WriteLandsAndFails, Return, States, Serving, Writes
    <2> QED BY <1>13, <2>2, <2>3 DEF WriteLandsAndFails
  <1>14. ASSUME NEW p \in Procs, Complete(p) PROVE TypeInv'
    <2>1. NoResult \in Results
      BY DEF NoResult, Results, Statuses
    <2>2. EntryLabels \subseteq Labels
      BY GrantsAssumption DEF EntryLabels, GrantLabels
    <2> QED BY <1>14, <2>1, <2>2 DEF Complete, States, Serving, Results
  <1>15. ASSUME NEW p \in Procs, Interrupt(p) PROVE TypeInv'
    <2>1. NoResult \in Results
      BY DEF NoResult, Results, Statuses
    <2> QED BY <1>15, <2>1 DEF Interrupt, States, Serving
  <1> QED
    BY <1>0, <1>1, <1>2, <1>3, <1>4, <1>5, <1>6, <1>7, <1>8, <1>9, <1>10, <1>11,
       <1>12, <1>13, <1>14, <1>15 DEF Next, Step, Serve

\* TypeOK is invariant: every key that holds a value is a valid relative path.
THEOREM TypeCorrect == Spec => []TypeOK
  <1>1. TypeInv => TypeOK
    BY DEF TypeInv
  <1> QED BY <1>1, TypeInit, TypeStep, PTL DEF Spec

----------------------------------------------------------------------------
(* Who writes.  Only put and store change the space, each in the one way the *)
(* handler gives it.                                                         *)

Written(p) ==
    /\ pc' = [pc EXCEPT ![p] = "served"]
    /\ UNCHANGED <<call, approved, saved, taint, exposure>>

PutWrites(p) ==
    /\ pc[p] = "intent" /\ call[p].op = "put" /\ ~Refused(call[p])
    /\ PutLands(p)
    /\ Written(p)

SaveWrites(p) == pc[p] = "saving" /\ SaveLands(p) /\ Written(p)

\* The space changes only by a write of put or of store, each by its process.
LEMMA WhoWrites ==
    ASSUME [Next]_vars
    PROVE  \/ UNCHANGED <<values, origin>>
           \/ \E p \in Procs : PutWrites(p)
           \/ \E p \in Procs : SaveWrites(p)
  <1>0. CASE UNCHANGED vars
    BY <1>0 DEF vars
  <1>1. ASSUME NEW p \in Procs, Put(p) PROVE PutWrites(p)
    BY <1>1 DEF Put, Return, PutWrites, Written
  <1>2. ASSUME NEW p \in Procs, Save(p) PROVE SaveWrites(p)
    BY <1>2 DEF Save, Return, SaveWrites, Written
  <1>3. ASSUME NEW p \in Procs, WriteLandsAndFails(p) PROVE PutWrites(p) \/ SaveWrites(p)
    BY <1>3 DEF WriteLandsAndFails, Return, PutWrites, SaveWrites, Written
  <1>4. ASSUME NEW p \in Procs, Step(p), ~Put(p), ~Save(p), ~WriteLandsAndFails(p)
        PROVE  UNCHANGED <<values, origin>>
    BY <1>4 DEF Step, Serve, Start, Exit, Observe, Issue, Approve, Deny, Refuse, Read,
       LookUp, StoreFails, Complete, Interrupt
  <1> QED BY <1>0, <1>1, <1>2, <1>3, <1>4 DEF Next

\* One process at a time: the runtime's promise the handler relies on.
Active(p) == pc[p] \notin {"waiting", "exited"}
OneActive == \A p, q \in Procs : Active(p) /\ Active(q) => p = q

\* At most one process of the session is active: only an idle session starts
\* one.
LEMMA OneActiveStep == TypeInv /\ OneActive /\ [Next]_vars => OneActive'
  <1> SUFFICES ASSUME TypeInv, OneActive, [Next]_vars PROVE OneActive'
    OBVIOUS
  <1> USE DEF TypeInv, TypeOK, OneActive, Active
  <1>0. CASE UNCHANGED vars
    BY <1>0 DEF vars
  <1>1. ASSUME NEW p \in Procs, Start(p) PROVE OneActive'
    BY <1>1 DEF Start, MayStart
  <1>2. ASSUME NEW p \in Procs, Step(p), ~Start(p)
        PROVE  (pc' = pc \/ \E s : pc' = [pc EXCEPT ![p] = s]) /\ Active(p)
    BY <1>2 DEF Step, Serve, Exit, Observe, Issue, Approve, Deny, Refuse, Read, Put,
       LookUp, Save, StoreFails, WriteLandsAndFails, Complete, Interrupt, Return
  <1>3. ASSUME NEW p \in Procs, Step(p), ~Start(p) PROVE OneActive'
    BY <1>2, <1>3
  <1> QED BY <1>0, <1>1, <1>3 DEF Next

----------------------------------------------------------------------------
(* Saved values.                                                             *)

\* A step leaves every saved value the content of its key: put may not write
\* there, and store writes the compact text.
LEMMA SavedContentStep ==
    ASSUME TypeInv, SavedHoldsItsContent, [Next]_vars
    PROVE  SavedHoldsItsContent'
  <1> USE DEF TypeInv, TypeOK
  <1> SUFFICES ASSUME NEW t \in Texts, values'[SavedKey(t)] # Missing
               PROVE  values'[SavedKey(t)].text = Compact[t]
    BY DEF SavedHoldsItsContent
  <1>1. SavedKey(t) \in Keys
    BY SavedKeyFacts
  <1>2. CASE values' = values
    BY <1>2 DEF SavedHoldsItsContent
  <1>3. ASSUME NEW p \in Procs, PutWrites(p) PROVE values'[SavedKey(t)] = values[SavedKey(t)]
    <2>1. call[p].key # SavedKey(t)
      BY <1>3, SavedKeyFacts DEF PutWrites, Refused, PutRefuses
    <2> QED BY <1>1, <1>3, <2>1 DEF PutWrites, PutLands
  <1>4. ASSUME NEW p \in Procs, SaveWrites(p)
        PROVE  values'[SavedKey(t)] = values[SavedKey(t)]
                 \/ values'[SavedKey(t)].text = Compact[t]
    <2>1. call[p].text \in Texts
      BY <1>4, CallFields DEF SaveWrites, CallShape, Serving, Writes
    <2>2. CASE SavedKey(call[p].text) = SavedKey(t)
      <3>1. Compact[call[p].text] = Compact[t]
        BY <2>1, <2>2, SavedKeyFacts
      <3>2. values'[SavedKey(t)] = SavedEntry(p)
        BY <1>1, <1>4, <2>2 DEF SaveWrites, SaveLands
      <3> QED BY <3>1, <3>2 DEF SavedEntry
    <2>3. CASE SavedKey(call[p].text) # SavedKey(t)
      BY <1>1, <1>4, <2>3 DEF SaveWrites, SaveLands
    <2> QED BY <2>2, <2>3
  <1> QED BY <1>2, <1>3, <1>4, WhoWrites DEF SavedHoldsItsContent

\* A saved value is always the compact content its key was made from.
THEOREM SavedContent == Spec => []SavedHoldsItsContent
  <1>1. Init => SavedHoldsItsContent
    BY SavedKeyFacts DEF Init, SavedHoldsItsContent
  <1>2. TypeInv /\ SavedHoldsItsContent /\ [Next]_vars => SavedHoldsItsContent'
    BY SavedContentStep
  <1> QED BY <1>1, <1>2, TypeInit, TypeStep, PTL DEF Spec

----------------------------------------------------------------------------
(* Labels.  NoLaundering alone is not inductive: a result on its way to the  *)
(* process must carry what it derives from, and a save must still hold, when *)
(* it writes, the labels its lookup found.                                   *)

LookUpIsFresh ==
    \A p \in Procs : pc[p] = "saving" => saved[p] = StoredLabels(SavedKey(call[p].text))

ResultsCarryTheirSources ==
    \A p \in Procs :
        /\ result[p].sources \subseteq result[p].labels \cup EntryLabels
        /\ result[p].status # "ok" => result[p].sources = {}

OnlyValuesHaveOrigins == \A k \in Keys : values[k] = Missing => origin[k] = {}

LabelInv ==
    NoLaundering /\ OnlyValuesHaveOrigins /\ ResultsCarryTheirSources /\ LookUpIsFresh

\* The labels store looked up are still the ones of the key when it writes: no
\* other process writes in between.
LEMMA FreshStep ==
    ASSUME TypeInv, OneActive, LookUpIsFresh, [Next]_vars
    PROVE  LookUpIsFresh'
  <1> USE DEF TypeInv, TypeOK, LookUpIsFresh
  <1> SUFFICES ASSUME NEW p \in Procs, pc'[p] = "saving"
               PROVE  (saved[p] = StoredLabels(SavedKey(call[p].text)))'
    OBVIOUS
  <1>1. CASE UNCHANGED vars
    BY <1>1 DEF vars, StoredLabels
  <1>2. ASSUME NEW q \in Procs, LookUp(q)
        PROVE  (saved[p] = StoredLabels(SavedKey(call[p].text)))'
    BY <1>2 DEF LookUp, StoredLabels
  <1>3. ASSUME NEW q \in Procs, Step(q), ~LookUp(q)
        PROVE  /\ q # p
               /\ pc[p] = "saving"
               /\ Active(q) \/ UNCHANGED <<values, saved, call>>
               /\ saved'[p] = saved[p] /\ call'[p] = call[p]
    BY <1>3 DEF Step, Serve, Start, Exit, Observe, Issue, Approve, Deny, Refuse, Read, Put,
       Save, StoreFails, WriteLandsAndFails, Complete, Interrupt, Return, Active,
       MayStart, PutLands, SaveLands
  <1>4. ASSUME NEW q \in Procs, Step(q), ~LookUp(q)
        PROVE  (saved[p] = StoredLabels(SavedKey(call[p].text)))'
    <2>1. Active(p)
      BY <1>3, <1>4 DEF Active
    <2>2. UNCHANGED <<values, saved, call>>
      BY <1>3, <1>4, <2>1 DEF OneActive
    <2> QED BY <1>3, <1>4, <2>2 DEF StoredLabels
  <1> QED BY <1>1, <1>2, <1>4 DEF Next

\* An empty space launders nothing.
LEMMA LabelInit == Init => LabelInv
  BY DEF Init, LabelInv, NoLaundering, OnlyValuesHaveOrigins, ResultsCarryTheirSources,
     LookUpIsFresh, NoResult

\* A step keeps labels over origins and taint over exposure, each given the
\* other, what results carry and the freshness of a look-up.
LEMMA LabelStep ==
    ASSUME TypeInv, OneActive, LabelInv, [Next]_vars
    PROVE  LabelInv'
  <1> USE DEF TypeInv, TypeOK
  <1>1. LookUpIsFresh'
    BY FreshStep DEF LabelInv
  <1>2. OnlyValuesHaveOrigins' /\ \A k \in Keys : values'[k] # Missing =>
                                     origin'[k] \subseteq values'[k].labels
    <2> USE DEF LabelInv, NoLaundering, OnlyValuesHaveOrigins
    <2>1. CASE UNCHANGED <<values, origin>>
      BY <2>1
    <2>2. ASSUME NEW p \in Procs, PutWrites(p)
          PROVE  /\ OnlyValuesHaveOrigins'
                 /\ \A k \in Keys : values'[k] # Missing => origin'[k] \subseteq values'[k].labels
      <3>1. [text |-> call[p].text, labels |-> taint[p]] \in Entry
        BY <2>2, CallFields DEF PutWrites, Entry, Writes, Serving
      <3> QED BY <2>2, <3>1, SentinelAssumption DEF PutWrites, PutLands
    <2>3. ASSUME NEW p \in Procs, SaveWrites(p)
          PROVE  /\ OnlyValuesHaveOrigins'
                 /\ \A k \in Keys : values'[k] # Missing => origin'[k] \subseteq values'[k].labels
      <3> DEFINE k == SavedKey(call[p].text)
      <3>1. call[p].text \in Texts /\ k \in Keys
        BY <2>3, CallFields, SavedKeyFacts DEF SaveWrites, CallShape, Serving, Writes
      <3>2. saved[p] = StoredLabels(k) /\ exposure[p] \subseteq taint[p]
        BY <2>3 DEF SaveWrites, LookUpIsFresh
      <3>3. origin[k] \subseteq saved[p]
        BY <3>1, <3>2 DEF StoredLabels
      <3>4. SavedEntry(p) \in Entry
        BY <3>1, SavedKeyFacts DEF SavedEntry, Entry
      <3>5. SavedEntry(p) # Missing /\ origin[k] \cup exposure[p] \subseteq SavedEntry(p).labels
        BY <3>2, <3>3, <3>4, SentinelAssumption DEF SavedEntry
      <3>6. /\ values' = [values EXCEPT ![k] = SavedEntry(p)]
            /\ origin' = [origin EXCEPT ![k] = @ \cup exposure[p]]
        BY <2>3 DEF SaveWrites, SaveLands
      <3> HIDE DEF k
      <3> QED BY <3>1, <3>5, <3>6
    <2> QED BY <2>1, <2>2, <2>3, WhoWrites
  <1>3. ResultsCarryTheirSources' /\ \A p \in Procs : exposure'[p] \subseteq taint'[p]
    <2> USE DEF LabelInv, NoLaundering, ResultsCarryTheirSources
    <2>0. CASE UNCHANGED vars
      BY <2>0 DEF vars, EntryLabels
    <2>1. ASSUME NEW p \in Procs, Read(p)
          PROVE  /\ ResultsCarryTheirSources'
                 /\ \A q \in Procs : exposure'[q] \subseteq taint'[q]
      <3> DEFINE src == UNION {origin[k] : k \in Found(call[p])}
      <3>1. Found(call[p]) \subseteq Keys /\ \A k \in Found(call[p]) : values[k] # Missing
        BY <2>1, CallFields DEF Read, Reads, Found, ReadKeys, Serving
      <3>2. src \subseteq ReadLabels(call[p])
        BY <3>1 DEF ReadLabels
      <3>3. result' = [result EXCEPT ![p] = [status |-> "ok", labels |-> ReadLabels(call[p]),
                                             sources |-> GrantLabels \cup src]]
              /\ UNCHANGED <<exposure, taint>>
        BY <2>1 DEF Read, Return
      <3> HIDE DEF src
      <3> QED BY <3>2, <3>3 DEF EntryLabels
    <2>2. ASSUME NEW p \in Procs, Complete(p)
          PROVE  /\ ResultsCarryTheirSources'
                 /\ \A q \in Procs : exposure'[q] \subseteq taint'[q]
      BY <2>2 DEF Complete, NoResult, EntryLabels
    <2>3. ASSUME NEW p \in Procs, Step(p), ~Read(p), ~Complete(p)
          PROVE  /\ \/ UNCHANGED result
                    \/ \E r : r.sources = {} /\ result' = [result EXCEPT ![p] = r]
                 /\ \/ UNCHANGED <<exposure, taint>>
                    \/ \E l : /\ exposure' = [exposure EXCEPT ![p] = @ \cup {l}]
                              /\ taint' = [taint EXCEPT ![p] = @ \cup {l}]
      BY <2>3 DEF Step, Serve, Start, Exit, Observe, Issue, Approve, Deny, Refuse, Put,
         LookUp, Save, StoreFails, WriteLandsAndFails, Interrupt, Return, Failure, NoResult
    <2>4. ASSUME NEW p \in Procs, Step(p), ~Read(p), ~Complete(p)
          PROVE  /\ ResultsCarryTheirSources'
                 /\ \A q \in Procs : exposure'[q] \subseteq taint'[q]
      BY <2>3, <2>4 DEF EntryLabels
    <2> QED BY <2>0, <2>1, <2>2, <2>4 DEF Next
  <1> QED BY <1>1, <1>2, <1>3 DEF LabelInv, NoLaundering

\* No data sheds a label by passing through the space, over any number of
\* processes, calls, failures and interruptions.
THEOREM LabelsFollowTheData == Spec => []NoLaundering
  <1>1. Init => OneActive
    BY DEF Init, OneActive, Active
  <1>2. TypeInv /\ OneActive /\ LabelInv /\ [Next]_vars => LabelInv'
    BY LabelStep
  <1>3. LabelInv => NoLaundering
    BY DEF LabelInv
  <1> QED BY <1>1, <1>2, <1>3, TypeInit, TypeStep, OneActiveStep, LabelInit, PTL DEF Spec

----------------------------------------------------------------------------
(* Writes served again, and writes under the grant's policy.                 *)

\* What a landed write left is still there while its call is served.
LandedStays ==
    \A p \in Procs : landed[p] =>
        /\ call[p].op = "put" =>
             values[call[p].key] = [text |-> call[p].text, labels |-> taint[p]]
        /\ call[p].op = "store" =>
             LET k == SavedKey(call[p].text) IN
             /\ values[k] # Missing
             /\ values[k].text = Compact[call[p].text]
             /\ taint[p] \subseteq values[k].labels

\* A write that is being served was approved, or no grant objects to it.
WritesAreCleared ==
    \A p \in Procs : pc[p] \in Serving /\ call[p].op \in Writes =>
        approved[p] \/ (~GrantApproval /\ GrantTaints \cap taint[p] = {})

\* What put leaves under its key.
LEMMA PutLeaves ==
    ASSUME TypeInv, NEW p \in Procs, PutWrites(p)
    PROVE  values'[call[p].key] = [text |-> call[p].text, labels |-> taint[p]]
  BY CallFields DEF TypeInv, TypeOK, PutWrites, PutLands, Serving, Writes

\* What store leaves under its key: its content, under all it had and the
\* writer's taint.
LEMMA SaveLeaves ==
    ASSUME TypeInv, OneActive, LookUpIsFresh, NEW p \in Procs, SaveWrites(p)
    PROVE  LET k == SavedKey(call[p].text) IN
           /\ call[p].op = "store" /\ call[p].text \in Texts /\ k \in Keys
           /\ values' = [values EXCEPT ![k] = SavedEntry(p)]
           /\ SavedEntry(p) \in Entry /\ SavedEntry(p) # Missing
           /\ SavedEntry(p).text = Compact[call[p].text]
           /\ SavedEntry(p).labels = StoredLabels(k) \cup taint[p]
  <1>1. call[p].op = "store" /\ call[p].text \in Texts
    BY CallFields DEF TypeInv, TypeOK, CallShape, SaveWrites, Serving, Writes
  <1>2. SavedEntry(p) \in Entry
    BY <1>1, SavedKeyFacts DEF SavedEntry, Entry, TypeInv, TypeOK
  <1>3. saved[p] = StoredLabels(SavedKey(call[p].text))
    BY DEF SaveWrites, LookUpIsFresh
  <1> QED BY <1>1, <1>2, <1>3, SavedKeyFacts, SentinelAssumption
          DEF SaveWrites, SaveLands, SavedEntry

\* A call whose write landed finds it unchanged until it completes.
LEMMA LandedStep ==
    ASSUME TypeInv, OneActive, LookUpIsFresh, LandedStays, [Next]_vars
    PROVE  LandedStays'
  <1> USE DEF TypeInv, TypeOK
  <1>1. ASSUME NEW p \in Procs, PutWrites(p) PROVE LandedStays'
    <2>1. \A q \in Procs : landed'[q] => q = p
      BY <1>1 DEF PutWrites, PutLands, OneActive, Active, CallShape, Serving
    <2>2. call' = call /\ taint' = taint /\ call[p].op = "put"
      BY <1>1 DEF PutWrites, Written
    <2> QED BY <1>1, <2>1, <2>2, PutLeaves DEF LandedStays
  <1>2. ASSUME NEW p \in Procs, SaveWrites(p) PROVE LandedStays'
    <2>1. \A q \in Procs : landed'[q] => q = p
      BY <1>2 DEF SaveWrites, SaveLands, OneActive, Active, CallShape, Serving
    <2>2. call' = call /\ taint' = taint /\ call[p].op = "store"
      BY <1>2, SaveLeaves DEF SaveWrites, Written
    <2>3. values'[SavedKey(call[p].text)] = SavedEntry(p)
      BY <1>2, SaveLeaves
    <2> QED BY <1>2, <2>1, <2>2, <2>3, SaveLeaves DEF LandedStays
  <1>3. ASSUME NEW p \in Procs, Step(p), ~Put(p), ~Save(p), ~WriteLandsAndFails(p)
        PROVE  LandedStays'
    <2>1. /\ values' = values
          /\ \A q \in Procs : landed'[q] =>
               landed[q] /\ call'[q] = call[q] /\ taint'[q] = taint[q]
      BY <1>3 DEF Step, Serve, Start, Exit, Observe, Issue, Approve, Deny, Refuse, Read,
         LookUp, StoreFails, Complete, Interrupt, CallShape, Serving
    <2> QED BY <2>1 DEF LandedStays
  <1>4. CASE UNCHANGED vars
    BY <1>4 DEF vars, LandedStays
  <1>5. ASSUME NEW p \in Procs, Put(p) \/ Save(p) \/ WriteLandsAndFails(p)
        PROVE  PutWrites(p) \/ SaveWrites(p)
    BY <1>5 DEF Put, Save, WriteLandsAndFails, Return, PutWrites, SaveWrites, Written
  <1> QED BY <1>1, <1>2, <1>3, <1>4, <1>5 DEF Next

\* A write under way stays approved, or allowed by every grant: a process's
\* taint does not grow while a call of its is served.
LEMMA ClearedStep ==
    ASSUME TypeInv, WritesAreCleared, [Next]_vars
    PROVE  WritesAreCleared'
  <1> USE DEF TypeInv, TypeOK, WritesAreCleared
  <1>0. CASE UNCHANGED vars
    BY <1>0 DEF vars
  <1>1. ASSUME NEW p \in Procs, NEW c \in Calls, Issue(p, c) PROVE WritesAreCleared'
    BY <1>1 DEF Issue, Forbid, RequireApproval, Serving
  <1>2. ASSUME NEW p \in Procs, Step(p), ~(\E c \in Calls : Issue(p, c))
        PROVE  \A q \in Procs : pc'[q] \in Serving =>
                 /\ call'[q] = call[q] /\ taint'[q] = taint[q]
                 /\ approved'[q] \/ (pc[q] \in Serving /\ approved'[q] = approved[q])
    BY <1>2 DEF Step, Serve, Start, Exit, Observe, Approve, Deny, Refuse, Read, Put,
       LookUp, Save, StoreFails, WriteLandsAndFails, Complete, Interrupt, Return, Serving,
       States
  <1>3. ASSUME NEW p \in Procs, Step(p), ~(\E c \in Calls : Issue(p, c))
        PROVE  WritesAreCleared'
    BY <1>2, <1>3
  <1> QED BY <1>0, <1>1, <1>3 DEF Next

----------------------------------------------------------------------------
(* The inductive invariant, and the action properties that follow from it.   *)

IInv == /\ TypeInv
        /\ OneActive
        /\ LabelInv
        /\ SavedHoldsItsContent
        /\ LandedStays
        /\ WritesAreCleared

\* The inductive invariant: types, one active process, saved contents, labels
\* over origins, landed writes and cleared writes, together.
THEOREM Invariance == Spec => []IInv
  <1>1. Init => IInv
    <2> SUFFICES ASSUME Init PROVE OneActive /\ SavedHoldsItsContent /\ LandedStays
                                     /\ WritesAreCleared
      BY TypeInit, LabelInit DEF IInv
    <2>1. OneActive /\ LandedStays /\ WritesAreCleared
      BY DEF Init, OneActive, Active, LandedStays, WritesAreCleared, Serving
    <2>2. SavedHoldsItsContent
      BY SavedKeyFacts DEF Init, SavedHoldsItsContent
    <2> QED BY <2>1, <2>2
  <1>2. IInv /\ [Next]_vars => IInv'
    BY TypeStep, OneActiveStep, LabelStep, SavedContentStep, LandedStep, ClearedStep
    DEF IInv, LabelInv
  <1> QED BY <1>1, <1>2, PTL DEF Spec

\* A saved text never changes and only gains labels.
THEOREM SavedValuesNeverChange == Spec => SavedNeverChanges
  <1> DEFINE Kept(t) ==
        LET k == SavedKey(t) IN
        values[k] # Missing =>
            /\ values'[k] # Missing
            /\ values'[k].text = values[k].text
            /\ values[k].labels \subseteq values'[k].labels
  <1>1. ASSUME IInv, [Next]_vars, NEW t \in Texts PROVE Kept(t)
    <2> DEFINE k == SavedKey(t)
    <2> SUFFICES ASSUME values[k] # Missing
                 PROVE  /\ values'[k] # Missing
                        /\ values'[k].text = values[k].text
                        /\ values[k].labels \subseteq values'[k].labels
      OBVIOUS
    <2> USE <1>1 DEF IInv, TypeInv, TypeOK, LabelInv
    <2>1. k \in Keys /\ UnderSaved(k)
      BY SavedKeyFacts
    <2>2. ASSUME NEW p \in Procs, PutWrites(p) PROVE values'[k] = values[k]
      <3>1. call[p].key # k
        BY <2>1, <2>2 DEF PutWrites, Refused, PutRefuses
      <3> QED BY <2>1, <2>2, <3>1 DEF PutWrites, PutLands
    <2>3. ASSUME NEW p \in Procs, SaveWrites(p)
          PROVE  /\ values'[k] # Missing
                 /\ values'[k].text = values[k].text
                 /\ values[k].labels \subseteq values'[k].labels
      <3>1. CASE SavedKey(call[p].text) = k
        <4>1. values'[k] = SavedEntry(p)
          BY <2>1, <2>3, <3>1, SaveLeaves
        <4>2. Compact[call[p].text] = Compact[t]
          BY <2>3, <3>1, SaveLeaves, SavedKeyFacts
        <4>3. values[k].text = Compact[t]
          BY DEF SavedHoldsItsContent
        <4> QED BY <2>3, <3>1, <4>1, <4>2, <4>3, SaveLeaves DEF StoredLabels
      <3>2. CASE SavedKey(call[p].text) # k
        BY <2>1, <2>3, <3>2, SaveLeaves
      <3> QED BY <3>1, <3>2
    <2> QED BY <2>2, <2>3, WhoWrites
  <1>2. IInv /\ [Next]_vars => [\A t \in Texts : Kept(t)]_vars
    BY <1>1
  <1> QED BY <1>2, Invariance, PTL DEF Spec, SavedNeverChanges

\* Once a call's write has landed, serving the call again changes nothing.
THEOREM RedriveHarmless == Spec => RedriveIsHarmless
  <1> DEFINE Again(p) == landed[p] /\ pc[p] \in {"intent", "saving"} /\ pc'[p] # pc[p]
  <1>1. ASSUME IInv, [Next]_vars, NEW p \in Procs, Again(p) PROVE values' = values
    <2> USE <1>1 DEF IInv, TypeInv, TypeOK, LabelInv
    <2>1. ASSUME NEW q \in Procs, PutWrites(q) PROVE values' = values
      <3>1. q = p
        BY <2>1 DEF OneActive, Active, PutWrites
      <3>2. values[call[q].key] = [text |-> call[q].text, labels |-> taint[q]]
        BY <2>1, <3>1 DEF PutWrites, LandedStays
      <3> QED BY <2>1, <3>2 DEF PutWrites, PutLands
    <2>2. ASSUME NEW q \in Procs, SaveWrites(q) PROVE values' = values
      <3> DEFINE k == SavedKey(call[q].text)
      <3>1. q = p
        BY <2>2 DEF OneActive, Active, SaveWrites
      <3>2. call[q].op = "store" /\ k \in Keys /\ values' = [values EXCEPT ![k] = SavedEntry(q)]
        BY <2>2, SaveLeaves
      <3>3. /\ values[k] \in Entry
            /\ values[k].text = Compact[call[q].text]
            /\ taint[q] \subseteq values[k].labels
        BY <3>1, <3>2 DEF LandedStays
      <3>4. SavedEntry(q).labels = StoredLabels(k) \cup taint[q]
        BY <2>2, SaveLeaves
      <3>5. StoredLabels(k) = values[k].labels
        BY <3>3, SentinelAssumption DEF StoredLabels
      <3>6. SavedEntry(q) \in Entry /\ SavedEntry(q).text = values[k].text
        BY <2>2, <3>3, SaveLeaves
      <3>7. SavedEntry(q).labels = values[k].labels
        BY <3>3, <3>4, <3>5
      <3>8. SavedEntry(q) = values[k]
        BY <3>3, <3>6, <3>7 DEF Entry
      <3> QED BY <3>2, <3>8
    <2> QED BY <2>1, <2>2, WhoWrites
  <1>2. IInv /\ [Next]_vars => [\A p \in Procs : Again(p) => values' = values]_vars
    BY <1>1
  <1> QED BY <1>2, Invariance, PTL DEF Spec, RedriveIsHarmless

\* Every grant's forbidden labels and approval gate hold for every write.
THEOREM GrantsRespected == Spec => WritesRespectEveryGrant
  <1> DEFINE Cleared ==
        \A k \in Keys :
          values'[k] # values[k] =>
             \E p \in Procs :
                 /\ pc[p] \in Serving
                 /\ \/ approved[p]
                    \/ \A g \in Grants : ~g.approval /\ g.taints \cap taint[p] = {}
  <1>1. ASSUME IInv, [Next]_vars PROVE Cleared
    <2> USE <1>1 DEF IInv, TypeInv, TypeOK
    <2> SUFFICES ASSUME values' # values PROVE Cleared
      OBVIOUS
    <2>1. PICK p \in Procs : PutWrites(p) \/ SaveWrites(p)
      BY WhoWrites
    <2>2. pc[p] \in Serving /\ call[p].op \in Writes
      BY <2>1 DEF PutWrites, SaveWrites, CallShape, Serving, Writes
    <2>3. approved[p] \/ (~GrantApproval /\ GrantTaints \cap taint[p] = {})
      BY <2>2 DEF WritesAreCleared
    <2>4. approved[p] \/ \A g \in Grants : ~g.approval /\ g.taints \cap taint[p] = {}
      BY <2>3 DEF GrantApproval, GrantTaints
    <2> QED BY <2>2, <2>4
  <1>2. IInv /\ [Next]_vars => [Cleared]_vars
    BY <1>1
  <1> QED BY <1>2, Invariance, PTL DEF Spec, WritesRespectEveryGrant

----------------------------------------------------------------------------
(* Scratch implements SessionMemory: a landing write is Write or Save, a     *)
(* completed read is Read, and everything else is a stutter.                 *)

LabelsOf(K) == UNION {values[k].labels : k \in {j \in K : values[j] # Missing}}

\* A result's labels are those its keys still have when it is journaled.
ResultIsCurrent ==
    \A p \in Procs : pc[p] = "served" /\ result[p].status = "ok" =>
        \E K \in SUBSET Keys : result[p].labels = LabelsOf(K)

\* The result of a read waiting to be journaled carries the labels of keys as
\* they are stored now: nothing is written before it completes.
LEMMA CurrentStep ==
    ASSUME TypeInv, OneActive, ResultIsCurrent, [Next]_vars
    PROVE  ResultIsCurrent'
  <1> USE DEF TypeInv, TypeOK
  <1> SUFFICES ASSUME NEW p \in Procs, pc'[p] = "served", result'[p].status = "ok"
               PROVE  \E K \in SUBSET Keys : result'[p].labels = LabelsOf(K)'
    BY DEF ResultIsCurrent
  <1>0. CASE UNCHANGED vars
    <2>1. PICK K \in SUBSET Keys : result[p].labels = LabelsOf(K)
      BY <1>0 DEF vars, ResultIsCurrent
    <2> QED BY <1>0, <2>1 DEF vars, LabelsOf
  <1>1. CASE Read(p)
    <2>1. ReadKeys(call[p]) \in SUBSET Keys
      BY <1>1, CallFields DEF Read, Reads, ReadKeys, Serving
    <2>2. result'[p].labels = ReadLabels(call[p]) /\ values' = values
      BY <1>1 DEF Read, Return
    <2>3. ReadLabels(call[p]) = LabelsOf(ReadKeys(call[p]))
      BY DEF ReadLabels, Found, LabelsOf
    <2>4. ASSUME NEW K \in SUBSET Keys PROVE LabelsOf(K)' = LabelsOf(K)
      BY <2>2 DEF LabelsOf
    <2> QED BY <2>1, <2>2, <2>3, <2>4
  <1>2. CASE Put(p) \/ Save(p)
    <2>1. result'[p].labels = {}
      BY <1>2 DEF Put, Save, Return, NoResult
    <2>2. LabelsOf({})' = {}
      BY DEF LabelsOf
    <2> QED BY <2>1, <2>2
  <1>3. ASSUME NEW q \in Procs, Step(q), ~Read(p), ~Put(p), ~Save(p)
        PROVE  pc[p] = "served" /\ result'[p] = result[p] /\ q # p
    BY <1>3 DEF Step, Serve, Start, Exit, Observe, Issue, Approve, Deny, Refuse, Read, Put,
       LookUp, Save, StoreFails, WriteLandsAndFails, Complete, Interrupt, Return, Failure
  <1>4. ASSUME NEW q \in Procs, Step(q), ~Read(p), ~Put(p), ~Save(p)
        PROVE  \E K \in SUBSET Keys : result'[p].labels = LabelsOf(K)'
    <2>1. \A r \in Procs : ~PutWrites(r) /\ ~SaveWrites(r)
      BY <1>3, <1>4 DEF OneActive, Active, PutWrites, SaveWrites
    <2>2. values' = values
      BY <2>1, WhoWrites
    <2>3. PICK K \in SUBSET Keys : result[p].labels = LabelsOf(K)
      BY <1>3, <1>4 DEF ResultIsCurrent
    <2>4. LabelsOf(K)' = LabelsOf(K)
      BY <2>2 DEF LabelsOf
    <2> QED BY <1>3, <1>4, <2>3, <2>4
  <1> QED BY <1>0, <1>1, <1>2, <1>4 DEF Next

\* Where a value is stored, the promised memory holds its compact form under
\* the same labels.
LEMMA SeenFacts ==
    ASSUME TypeInv, NEW k \in Keys
    PROVE  /\ Seen[k] = Missing <=> values[k] = Missing
           /\ values[k] # Missing =>
                /\ Seen[k] = [value |-> Compact[values[k].text], labels |-> values[k].labels]
                /\ Seen[k].labels = values[k].labels
                /\ Seen[k].value = Compact[values[k].text]
  <1>1. CASE values[k] = Missing
    BY <1>1 DEF Seen
  <1>2. CASE values[k] # Missing
    <2>1. values[k] \in Entry
      BY <1>2 DEF TypeInv, TypeOK
    <2>2. [value |-> Compact[values[k].text], labels |-> values[k].labels]
            \in [value : Texts, labels : SUBSET Labels]
      BY <2>1, CompactAssumption DEF Entry
    <2> QED BY <1>2, <2>2, SentinelAssumption DEF Seen
  <1> QED BY <1>1, <1>2

\* The labels of stored keys are the labels the promised memory holds for them.
LEMMA SeenLabels ==
    ASSUME TypeInv, NEW K \in SUBSET Keys
    PROVE  Promised!LabelsIn(K) = LabelsOf(K)
  <1>1. {j \in K : Seen[j] # Missing} = {j \in K : values[j] # Missing}
    BY SeenFacts
  <1>2. \A j \in K : values[j] # Missing => Seen[j].labels = values[j].labels
    BY SeenFacts
  <1> QED BY <1>1, <1>2 DEF Promised!LabelsIn, LabelsOf

\* A completed call: the taint grows by labels read as they are stored, or
\* stays as it is.
LEMMA CompleteReads ==
    ASSUME IInv, ResultIsCurrent, NEW p \in Procs, Complete(p)
    PROVE  (\E K \in SUBSET Keys : Promised!Read(p, K)) \/ UNCHANGED Promised!vars
  <1> USE DEF IInv, TypeInv, TypeOK
  <1>1. values' = values /\ Seen' = Seen
    BY DEF Complete, Seen
  <1>2. CASE result[p].status = "ok"
    <2>1. PICK K \in SUBSET Keys : result[p].labels = LabelsOf(K)
      BY <1>2 DEF Complete, ResultIsCurrent
    <2>2. LabelsOf(K) = Promised!LabelsIn(K)
      BY SeenLabels
    <2>3. taint' = [taint EXCEPT ![p] = @ \cup LabelsOf(K) \cup GrantLabels]
      BY <1>2, <2>1 DEF Complete, EntryLabels
    <2> QED BY <1>1, <2>1, <2>2, <2>3 DEF Promised!Read
  <1>3. CASE result[p].status # "ok"
    BY <1>1, <1>3 DEF Complete, Promised!vars
  <1> QED BY <1>2, <1>3

\* A write of put is a Write of the promised memory.
LEMMA PutIsAWrite ==
    ASSUME IInv, NEW p \in Procs, PutWrites(p)
    PROVE  Promised!Write(p, call[p].key, Compact[call[p].text])
           /\ call[p].key \in Keys /\ Compact[call[p].text] \in Contents
  <1> DEFINE k == call[p].key
             e == [text |-> call[p].text, labels |-> taint[p]]
  <1> USE DEF IInv, TypeInv, TypeOK
  <1>1. k \in Keys /\ call[p].text \in Texts
    BY CallFields DEF PutWrites, Serving, Writes
  <1>2. e \in Entry /\ e # Missing
    BY <1>1, SentinelAssumption DEF Entry
  <1>3. values' = [values EXCEPT ![k] = e] /\ taint' = taint
    BY DEF PutWrites, PutLands, Written
  <1>4. Seen' = [Seen EXCEPT ![k] = [value |-> Compact[call[p].text], labels |-> taint[p]]]
    BY <1>1, <1>2, <1>3 DEF Seen
  <1>5. ~UnderSaved(k)
    BY DEF PutWrites, Refused, PutRefuses
  <1>6. k \notin {[v \in Contents |-> SavedKey(v)][w] : w \in Contents}
    BY <1>5, SavedKeyFacts DEF Contents
  <1> QED BY <1>1, <1>3, <1>4, <1>6 DEF Promised!Write, Contents

\* A write of store is a Save of the promised memory.
LEMMA SaveIsASave ==
    ASSUME IInv, NEW p \in Procs, SaveWrites(p)
    PROVE  Promised!Save(p, Compact[call[p].text]) /\ Compact[call[p].text] \in Contents
  <1> DEFINE k == SavedKey(call[p].text)
             v == Compact[call[p].text]
             S == [w \in Contents |-> SavedKey(w)]
  <1> USE DEF IInv, TypeInv, TypeOK, LabelInv
  <1>1. /\ call[p].text \in Texts /\ k \in Keys
        /\ values' = [values EXCEPT ![k] = SavedEntry(p)]
        /\ SavedEntry(p) # Missing
        /\ SavedEntry(p).text = v
        /\ SavedEntry(p).labels = StoredLabels(k) \cup taint[p]
    BY SaveLeaves
  <1>2. v \in Contents /\ v \in Texts /\ Compact[v] = v
    BY <1>1, CompactAssumption DEF Contents
  <1>3. S[v] = k
    BY <1>2 DEF SavedKey
  <1>4. Promised!LabelsIn({k}) = StoredLabels(k)
    <2>1. Promised!LabelsIn({k}) = LabelsOf({k})
      BY <1>1, SeenLabels
    <2>2. CASE values[k] = Missing
      <3>1. {j \in {k} : values[j] # Missing} = {}
        BY <2>2
      <3>2. LabelsOf({k}) = {}
        BY <3>1 DEF LabelsOf
      <3> QED BY <2>1, <2>2, <3>2 DEF StoredLabels
    <2>3. CASE values[k] # Missing
      <3>1. {j \in {k} : values[j] # Missing} = {k}
        BY <2>3
      <3>2. LabelsOf({k}) = values[k].labels
        BY <3>1 DEF LabelsOf
      <3> QED BY <2>1, <2>3, <3>2 DEF StoredLabels
    <2> QED BY <2>2, <2>3
  <1>5. Seen' = [Seen EXCEPT ![k] = [value |-> v, labels |-> StoredLabels(k) \cup taint[p]]]
    BY <1>1, <1>2 DEF Seen
  <1>6. Seen[k] # Missing => Seen[k].value = v
    BY <1>1, <1>2, SeenFacts DEF SavedHoldsItsContent
  <1>7. taint' = taint
    BY DEF SaveWrites, Written
  <1>8. Seen[S[v]] # Missing => Seen[S[v]].value = v
    BY <1>3, <1>6
  <1>9. Seen' = [Seen EXCEPT ![S[v]] =
                   [value |-> v, labels |-> Promised!LabelsIn({S[v]}) \cup taint[p]]]
    BY <1>3, <1>4, <1>5
  <1> QED BY <1>2, <1>7, <1>8, <1>9 DEF Promised!Save

\* Every step is a step of the promised memory or leaves it as it is.
LEMMA PromisedStep ==
    ASSUME IInv, ResultIsCurrent, [Next]_vars
    PROVE  [Promised!Next]_(Promised!vars)
  <1>0. CASE UNCHANGED vars
    BY <1>0 DEF vars, Promised!vars, Seen
  <1>1. ASSUME NEW p \in Procs, NEW l \in Labels, Observe(p, l) PROVE Promised!Next
    BY <1>1 DEF Observe, Promised!Observe, Promised!Next, Seen
  <1>2. ASSUME NEW p \in Procs, Complete(p) PROVE [Promised!Next]_(Promised!vars)
    BY <1>2, CompleteReads DEF Promised!Next
  <1>3. ASSUME NEW p \in Procs, PutWrites(p) PROVE Promised!Next
    BY <1>3, PutIsAWrite DEF Promised!Next
  <1>4. ASSUME NEW p \in Procs, SaveWrites(p) PROVE Promised!Next
    BY <1>4, SaveIsASave DEF Promised!Next
  <1>5. ASSUME NEW p \in Procs, Step(p), ~Complete(p), values' = values,
               ~(\E l \in Labels : Observe(p, l))
        PROVE  UNCHANGED Promised!vars
    <2>1. taint' = taint
      BY <1>5 DEF Step, Serve, Start, Exit, Issue, Approve, Deny, Refuse, Read, Put,
         LookUp, Save, StoreFails, WriteLandsAndFails, Interrupt
    <2> QED BY <1>5, <2>1 DEF Promised!vars, Seen
  <1> QED BY <1>0, <1>1, <1>2, <1>3, <1>4, <1>5, WhoWrites DEF Next

\* core.scratch is an atomic labelled memory: saves in two steps, results
\* journaled late, failed writes and writes run again are single steps of
\* SessionMemory or no step at all.
THEOREM Refinement == Spec => ImplementsSessionMemory
  <1>1. Init => Promised!Init
    BY DEF Init, Promised!Init, Seen
  <1>2. Init => ResultIsCurrent
    BY DEF Init, ResultIsCurrent
  <1>3. IInv /\ ResultIsCurrent /\ [Next]_vars => ResultIsCurrent'
    BY CurrentStep DEF IInv
  <1>4. IInv /\ ResultIsCurrent /\ [Next]_vars => [Promised!Next]_(Promised!vars)
    BY PromisedStep
  <1> QED BY <1>1, <1>2, <1>3, <1>4, Invariance, PTL
          DEF Spec, ImplementsSessionMemory, Promised!Spec

----------------------------------------------------------------------------
(* How long a call can last.                                                 *)

\* The steps that a served call has ahead of it, if it is not interrupted.
Ahead == [intent |-> 3, saving |-> 2, served |-> 1, thinking |-> 0]

\* The steps of its process that a call has ahead of it at most.
Rank(p) == 3 * (MaxCrashes - crashes) + Ahead[pc[p]]

\* A call that the host has taken comes nearer to its completion with each step
\* of its process, an interruption included, and no other process takes it back:
\* it is served again once for each interruption, and for nothing else.
THEOREM CallsAreBounded ==
    Spec => [][\A p \in Procs :
                 pc[p] \in Serving =>
                     /\ Rank(p) \in 1..(3 * MaxCrashes + 3)
                     /\ Rank(p)' <= Rank(p)
                     /\ pc'[p] # pc[p] => Rank(p)' < Rank(p)]_vars
  <1>1. ASSUME TypeInv, Next, NEW p \in Procs, pc[p] \in Serving
        PROVE  /\ Rank(p) \in 1..(3 * MaxCrashes + 3)
               /\ Rank(p)' <= Rank(p)
               /\ pc'[p] # pc[p] => Rank(p)' < Rank(p)
    <2> USE BoundsAssumption
    <2>1. /\ MaxCrashes \in Nat /\ crashes \in 0..MaxCrashes
          /\ Ahead[pc[p]] \in 1..3
      BY <1>1 DEF TypeInv, TypeOK, Serving, Ahead
    <2>2. Rank(p) \in 1..(3 * MaxCrashes + 3)
      BY <2>1 DEF Rank
    <2>3. PICK q \in Procs : Step(q)
      BY <1>1 DEF Next
    <2>4. CASE Interrupt(q)
      <3>1. crashes' = crashes + 1 /\ crashes' \in 0..MaxCrashes
        BY <2>1, <2>4 DEF Interrupt
      <3>2. pc'[p] = pc[p] \/ pc'[p] = "intent"
        BY <1>1, <2>4 DEF Interrupt, TypeInv, TypeOK
      <3>3. Ahead[pc[p]]' \in 1..3 /\ Ahead[pc[p]]' <= Ahead[pc[p]] + 2
        BY <2>1, <3>2 DEF Ahead
      <3> QED BY <2>1, <2>2, <3>1, <3>3 DEF Rank
    <2>5. CASE ~Interrupt(q)
      <3>1. crashes' = crashes
        BY <2>3, <2>5 DEF Step, Serve, Start, Exit, Observe, Issue, Approve, Deny, Refuse, Read, Put,
           LookUp, Save, StoreFails, WriteLandsAndFails, Complete
      <3>2. pc'[p] = pc[p] \/ (Ahead[pc[p]]' \in 0..2 /\ Ahead[pc[p]]' < Ahead[pc[p]])
        <4>1. CASE q # p
          BY <1>1, <2>3, <2>5, <4>1 DEF Step, Serve, Start, Exit, Observe, Issue, Approve, Deny, Refuse,
             Read, Put, LookUp, Save, StoreFails, WriteLandsAndFails, Complete, Return, TypeInv, TypeOK
        <4>2. CASE q = p
          <5>1. Serve(p)
            BY <1>1, <2>3, <2>5, <4>2 DEF Step, Start, MayStart, Exit, Observe, Issue, Approve, Deny,
               Serving
          <5>2. \/ pc[p] = "intent" /\ pc' = [pc EXCEPT ![p] = "saving"]
                \/ pc[p] \in {"intent", "saving"} /\ pc' = [pc EXCEPT ![p] = "served"]
                \/ pc[p] = "served" /\ pc' = [pc EXCEPT ![p] = "thinking"]
            BY <5>1 DEF Serve, Refuse, Read, Put, LookUp, Save, StoreFails, WriteLandsAndFails, Complete,
               Return
          <5> QED BY <1>1, <5>2 DEF Ahead, TypeInv, TypeOK
        <4> QED BY <4>1, <4>2
      <3> QED BY <2>1, <2>2, <3>1, <3>2 DEF Rank
    <2> QED BY <2>4, <2>5
  <1>2. TypeInv /\ [Next]_vars
          => [\A p \in Procs :
                pc[p] \in Serving =>
                    /\ Rank(p) \in 1..(3 * MaxCrashes + 3)
                    /\ Rank(p)' <= Rank(p)
                    /\ pc'[p] # pc[p] => Rank(p)' < Rank(p)]_vars
    BY <1>1
  <1> QED BY <1>2, TypeInit, TypeStep, PTL DEF Spec
============================================================================
