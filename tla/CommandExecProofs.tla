-------------------------- MODULE CommandExecProofs --------------------------
(***************************************************************************)
(* Proofs about CommandExec, for any number of processes and of streams    *)
(* and any bound on the output: what the guest reads of the output, and    *)
(* what it is told of a command that was stopped or could not start.       *)
(***************************************************************************)
EXTENDS CommandExec, TLAPS

Stopped == watcher \in {"cancelled", "gave_up"}

----------------------------------------------------------------------------
\* The inductive invariant.

\* The process runs while execCommand waits for it, and is reaped after that.
LeaderFollowsTheRun ==
    /\ run = "start" => leader = "none"
    /\ run = "wait" => leader \in {"running", "zombie"}
    /\ run \in {"watch", "output"} => leader = "reaped"
    /\ run \in {"classify", "dispatch", "done"} => leader \in {"none", "reaped"}

\* The watcher acts only on a context that is done, on a command that was
\* started, and what it did makes Run return an error.
StopIsAnError ==
    Stopped =>
        /\ CtxDone
        /\ leader # "none"
        /\ run \in {"output", "classify"} => runErr

\* What the signal reached is gone, and no process joins the group after it:
\* the leader, the only one that spawns, has ended or is out of the group.
GroupIsGone ==
    Stopped =>
        /\ leader = "running" => ~inGroup
        /\ \A k \in Kids : ~InGroup(k)

\* How each phase leaves the outcome.
OutcomeFollowsTheRun ==
    /\ run \notin {"dispatch", "done"} => outcome = "none"
    /\ run = "dispatch" => outcome \in {"ran", "timed_out", "error"}
    /\ run = "done" => outcome \in {"result", "transient", "internal", "caller"}
    /\ outcome = "ran" => ~Stopped /\ leader # "none"
    /\ outcome = "timed_out" => CtxDone
    /\ outcome = "error" => leader = "none"
    /\ outcome = "caller" => left

\* The watcher has not done its last before the run came to it: it stands down
\* when Wait asks it, and gives up on a leader that it killed.
WatcherFollowsTheRun ==
    /\ run = "start" => watcher = "armed"
    /\ watcher = "stood_down" => run \notin {"start", "wait", "watch"}
    /\ watcher = "gave_up" => leader # "running"
    /\ run \notin {"start", "wait", "watch"} /\ leader # "none" => watcher # "armed"

\* Only the watcher kills the leader, and only the leader spawns.
EndsHaveCauses ==
    /\ end = "killed" => Stopped
    /\ leader = "none" => \A k \in Kids : ~Alive(k)

IInv ==
    /\ TypeOK
    /\ OutputIsFaithful
    /\ LeaderFollowsTheRun
    /\ StopIsAnError
    /\ GroupIsGone
    /\ OutcomeFollowsTheRun
    /\ WatcherFollowsTheRun
    /\ EndsHaveCauses
    /\ KilledIsNoVerdict
    /\ FailureTellsWhy

----------------------------------------------------------------------------
\* boundedBuffer.Write keeps what fits, and what is kept so far stays a prefix.

\* What Write keeps still fits, and is all that was written while that fits.
LEMMA KeepsAPrefix ==
    ASSUME NEW w \in Nat, NEW n \in Nat, NEW len \in 0..Limit,
           len = IF w <= Limit THEN w ELSE Limit
    PROVE  /\ len + KeepOf(n, len) \in 0..Limit
           /\ len + KeepOf(n, len) = IF w + n <= Limit THEN w + n ELSE Limit
           /\ w > len \/ KeepOf(n, len) < n <=> w + n > len + KeepOf(n, len)
BY OutputAssumption DEF KeepOf

----------------------------------------------------------------------------
\* The invariant is inductive.

\* Every initial state satisfies the invariant.
LEMMA InitInvariant == Init => IInv
<1> SUFFICES ASSUME Init PROVE IInv
  OBVIOUS
<1>1. TypeOK
  <2>1. written \in [Streams -> 0..MaxWritten] /\ kept \in [Streams -> 0..Limit]
        /\ truncated \in [Streams -> BOOLEAN]
    BY OutputAssumption DEF Init
  <2>2. kids \in [Kids -> KidStates]
    BY DEF Init, KidStates
  <2>3. run \in Phases /\ outcome \in Outcomes
    BY DEF Init, Phases, Outcomes
  <2> QED BY <2>1, <2>2, <2>3 DEF Init, TypeOK
<1>2. OutputIsFaithful
  BY OutputAssumption DEF Init, OutputIsFaithful
<1>3. LeaderFollowsTheRun /\ StopIsAnError /\ GroupIsGone /\ OutcomeFollowsTheRun
      /\ WatcherFollowsTheRun /\ EndsHaveCauses /\ KilledIsNoVerdict /\ FailureTellsWhy
  BY DEF Init, LeaderFollowsTheRun, StopIsAnError, GroupIsGone, OutcomeFollowsTheRun, Stopped,
         WatcherFollowsTheRun, EndsHaveCauses, Alive, KilledIsNoVerdict, FailureTellsWhy
<1> QED BY <1>1, <1>2, <1>3 DEF IInv

\* Every step keeps the types, and what the buffers kept a prefix.
LEMMA TypeStep == TypeOK /\ OutputIsFaithful /\ [Next]_vars => TypeOK' /\ OutputIsFaithful'
<1> SUFFICES ASSUME TypeOK, OutputIsFaithful, [Next]_vars PROVE TypeOK' /\ OutputIsFaithful'
  OBVIOUS
<1>1. ASSUME NEW s \in Streams, NEW n \in 1..MaxChunk, Copy(s, n) PROVE TypeOK' /\ OutputIsFaithful'
  <2>1. n \in Nat /\ written[s] \in Nat /\ written[s] + n \in 0..MaxWritten /\ kept[s] \in 0..Limit
    BY <1>1, OutputAssumption DEF Copy, TypeOK
  <2>2. kept[s] = IF written[s] <= Limit THEN written[s] ELSE Limit
    BY DEF OutputIsFaithful
  <2>3. /\ kept[s] + KeepOf(n, kept[s]) \in 0..Limit
        /\ kept[s] + KeepOf(n, kept[s]) = IF written[s] + n <= Limit THEN written[s] + n ELSE Limit
        /\ written[s] > kept[s] \/ KeepOf(n, kept[s]) < n
             <=> written[s] + n > kept[s] + KeepOf(n, kept[s])
    BY <2>1, <2>2, KeepsAPrefix
  <2>4. written' = [written EXCEPT ![s] = written[s] + n]
        /\ kept' = [kept EXCEPT ![s] = kept[s] + KeepOf(n, kept[s])]
        /\ truncated' = [truncated EXCEPT ![s] = truncated[s] \/ KeepOf(n, kept[s]) < n]
    BY <1>1 DEF Copy
  <2>5. written' \in [Streams -> 0..MaxWritten] /\ kept' \in [Streams -> 0..Limit]
        /\ truncated' \in [Streams -> BOOLEAN]
    BY <2>1, <2>3, <2>4 DEF TypeOK
  <2>6. TypeOK'
    BY <1>1, <2>5 DEF Copy, TypeOK, world
  <2>7. OutputIsFaithful'
    <3> SUFFICES ASSUME NEW t \in Streams
                 PROVE  /\ kept'[t] = IF written'[t] <= Limit THEN written'[t] ELSE Limit
                        /\ truncated'[t] <=> written'[t] > kept'[t]
      BY DEF OutputIsFaithful
    <3>1. CASE t = s
      <4>1. written'[t] = written[s] + n /\ kept'[t] = kept[s] + KeepOf(n, kept[s])
            /\ truncated'[t] = (truncated[s] \/ KeepOf(n, kept[s]) < n)
        BY <2>4, <3>1 DEF TypeOK
      <4>2. truncated[s] <=> written[s] > kept[s]
        BY DEF OutputIsFaithful
      <4> QED BY <2>3, <4>1, <4>2
    <3>2. CASE t # s
      BY <2>4, <3>2 DEF TypeOK, OutputIsFaithful
    <3> QED BY <3>1, <3>2
  <2> QED BY <2>6, <2>7
<1>2. ASSUME UNCHANGED buffers, TypeOK' PROVE TypeOK' /\ OutputIsFaithful'
  BY <1>2 DEF buffers, OutputIsFaithful
<1>3. ASSUME Host PROVE TypeOK' /\ OutputIsFaithful'
  <2>1. UNCHANGED buffers
    BY <1>3 DEF Host, RefuseRelative, StartFails, Start, Reap, Cancel, KillLeader, TakeWatch, Drain,
                OutputDone, OutputGivenUp, Classify, Dispatch
  <2>2. kids' \in [Kids -> KidStates]
    BY <1>3 DEF Host, RefuseRelative, StartFails, Start, Reap, Cancel, KillLeader, TakeWatch, Drain,
                OutputDone, OutputGivenUp, Classify, Dispatch, world, TypeOK, KidStates
  <2>3. outcome' \in Outcomes
    BY <1>3 DEF Host, RefuseRelative, StartFails, Start, Reap, Cancel, KillLeader, TakeWatch, Drain,
                OutputDone, OutputGivenUp, Classify, Dispatch, Verdict, Answer, TypeOK, Outcomes
  <2>4. runErr' \in BOOLEAN
    BY <1>3 DEF Host, RefuseRelative, StartFails, Start, Reap, Cancel, KillLeader, TakeWatch, Drain,
                OutputDone, OutputGivenUp, Classify, Dispatch, TypeOK
  <2>5. run' \in Phases
    BY <1>3 DEF Host, RefuseRelative, StartFails, Start, Reap, Cancel, KillLeader, TakeWatch, Drain,
                OutputDone, OutputGivenUp, Classify, Dispatch, TypeOK, Phases
  <2>6. /\ leader' \in {"none", "running", "zombie", "reaped"}
        /\ end' \in {"none", "zero", "nonzero", "signal", "killed"}
        /\ watcher' \in {"armed", "cancelled", "gave_up", "stood_down"}
        /\ pipes' \in {"open", "copied", "closed"}
    BY <1>3 DEF Host, RefuseRelative, StartFails, Start, Reap, Cancel, KillLeader, TakeWatch, Drain,
                OutputDone, OutputGivenUp, Classify, Dispatch, world, TypeOK
  <2>7. UNCHANGED <<absolute, present, inGroup, expired, left, selfEnded>>
    BY <1>3 DEF Host, RefuseRelative, StartFails, Start, Reap, Cancel, KillLeader, TakeWatch, Drain,
                OutputDone, OutputGivenUp, Classify, Dispatch, world
  <2>8. TypeOK'
    BY <2>1, <2>2, <2>3, <2>4, <2>5, <2>6, <2>7 DEF TypeOK, buffers
  <2> QED BY <1>2, <2>1, <2>8
<1>4. ASSUME NEW how \in {"zero", "nonzero", "signal"}, LeaderEnds(how)
      PROVE  TypeOK' /\ OutputIsFaithful'
  BY <1>2, <1>4 DEF LeaderEnds, TypeOK, CtxDone, buffers
<1>5. ASSUME LeaderLeavesGroup PROVE TypeOK' /\ OutputIsFaithful'
  <2>0. /\ inGroup' = FALSE
        /\ UNCHANGED <<absolute, present, run, leader, end, kids, watcher, runErr, pipes, written,
                       kept, truncated, expired, left, selfEnded, outcome>>
    BY <1>5 DEF LeaderLeavesGroup, buffers
  <2>1. TypeOK'
    <3>1. inGroup' \in BOOLEAN
      BY <2>0
    <3>2. /\ absolute' \in BOOLEAN /\ present' \in BOOLEAN /\ runErr' \in BOOLEAN
          /\ expired' \in BOOLEAN /\ left' \in BOOLEAN /\ selfEnded' \in BOOLEAN
      BY <2>0 DEF TypeOK
    <3>3. /\ run' \in Phases /\ kids' \in [Kids -> KidStates] /\ outcome' \in Outcomes
          /\ leader' \in {"none", "running", "zombie", "reaped"}
          /\ end' \in {"none", "zero", "nonzero", "signal", "killed"}
          /\ watcher' \in {"armed", "cancelled", "gave_up", "stood_down"}
          /\ pipes' \in {"open", "copied", "closed"}
      BY <2>0 DEF TypeOK
    <3>4. /\ written' \in [Streams -> 0..MaxWritten] /\ kept' \in [Streams -> 0..Limit]
          /\ truncated' \in [Streams -> BOOLEAN]
      BY <2>0 DEF TypeOK
    <3> QED BY <3>1, <3>2, <3>3, <3>4 DEF TypeOK
  <2> QED BY <1>2, <1>5, <2>1 DEF LeaderLeavesGroup
<1>6. ASSUME NEW k \in Kids, NEW g \in {"group", "escaped"}, NEW h \in {"holds", "detached"},
             Spawn(k, g, h)
      PROVE  TypeOK' /\ OutputIsFaithful'
  <2>1. kids' \in [Kids -> KidStates]
    BY <1>6 DEF Spawn, TypeOK, KidStates
  <2>2. TypeOK'
    BY <1>6, <2>1 DEF Spawn, TypeOK, buffers
  <2> QED BY <1>2, <1>6, <2>2 DEF Spawn
<1>7. ASSUME NEW k \in Kids, KidEnds(k) PROVE TypeOK' /\ OutputIsFaithful'
  <2>1. kids' \in [Kids -> KidStates]
    BY <1>7 DEF KidEnds, TypeOK, KidStates
  <2>2. TypeOK'
    BY <1>7, <2>1 DEF KidEnds, TypeOK, buffers
  <2> QED BY <1>2, <1>7, <2>2 DEF KidEnds
<1>8. ASSUME Deadline \/ CallerLeaves PROVE TypeOK' /\ OutputIsFaithful'
  <2>1. UNCHANGED <<absolute, present, run, world, watcher, runErr, pipes, buffers, outcome>>
    BY <1>8 DEF Deadline, CallerLeaves
  <2>2. expired' \in BOOLEAN /\ left' \in BOOLEAN
    BY <1>8 DEF Deadline, CallerLeaves, TypeOK
  <2>3. TypeOK'
    BY <2>1, <2>2 DEF TypeOK, buffers, world
  <2> QED BY <1>2, <2>1, <2>3
<1>9. ASSUME UNCHANGED vars PROVE TypeOK' /\ OutputIsFaithful'
  BY <1>2, <1>9 DEF vars, TypeOK, buffers
<1> QED BY <1>1, <1>3, <1>4, <1>5, <1>6, <1>7, <1>8, <1>9 DEF Next, Command

\* Only the watcher's steps kill the leader, and no process is there before it.
LEMMA CausesStep == IInv /\ [Next]_vars => EndsHaveCauses'
<1> SUFFICES ASSUME IInv, [Next]_vars PROVE EndsHaveCauses'
  OBVIOUS
<1> USE DEF EndsHaveCauses, Stopped, Alive
<1>0. EndsHaveCauses /\ TypeOK /\ LeaderFollowsTheRun /\ WatcherFollowsTheRun /\ StopIsAnError
  BY DEF IInv
<1>1. CASE RefuseRelative \/ StartFails \/ Start \/ Reap \/ TakeWatch \/ Drain \/ OutputDone
           \/ OutputGivenUp \/ Classify \/ Dispatch \/ Deadline \/ CallerLeaves
  BY <1>0, <1>1 DEF RefuseRelative, StartFails, Start, Reap, TakeWatch, Drain, OutputDone,
     OutputGivenUp, Classify, Dispatch, Deadline, CallerLeaves, world
<1>2. CASE Cancel \/ KillLeader
  <2>1. leader # "none" /\ leader' # "none" /\ Stopped'
    BY <1>0, <1>2 DEF Cancel, KillLeader, LeaderFollowsTheRun
  <2> QED BY <2>1
<1>3. ASSUME NEW how \in {"zero", "nonzero", "signal"}, LeaderEnds(how) PROVE EndsHaveCauses'
  BY <1>0, <1>3 DEF LeaderEnds
<1>4. ASSUME NEW k \in Kids, NEW g \in {"group", "escaped"}, NEW h \in {"holds", "detached"},
             Spawn(k, g, h)
      PROVE  EndsHaveCauses'
  BY <1>0, <1>4 DEF Spawn
<1>5. ASSUME NEW k \in Kids, KidEnds(k) PROVE EndsHaveCauses'
  BY <1>0, <1>5 DEF KidEnds
<1>6. ASSUME NEW s \in Streams, NEW n \in 1..MaxChunk, Copy(s, n) PROVE EndsHaveCauses'
  BY <1>0, <1>6 DEF Copy, world
<1>7. CASE LeaderLeavesGroup \/ UNCHANGED vars
  BY <1>0, <1>7 DEF LeaderLeavesGroup, vars
<1> QED
  BY <1>1, <1>2, <1>3, <1>4, <1>5, <1>6, <1>7 DEF Next, Host, Command

\* Every step keeps the invariant.
LEMMA NextInvariant == IInv /\ [Next]_vars => IInv'
<1> SUFFICES ASSUME IInv, [Next]_vars PROVE IInv'
  OBVIOUS
<1> DEFINE Rest == /\ LeaderFollowsTheRun /\ StopIsAnError /\ GroupIsGone
                   /\ OutcomeFollowsTheRun /\ WatcherFollowsTheRun /\ KilledIsNoVerdict
                   /\ FailureTellsWhy
<1>0. TypeOK' /\ OutputIsFaithful' /\ TypeOK /\ Rest
  BY TypeStep DEF IInv
<1> USE DEF LeaderFollowsTheRun, StopIsAnError, OutcomeFollowsTheRun, WatcherFollowsTheRun,
            KilledIsNoVerdict, FailureTellsWhy, Stopped, CtxDone
<1> SUFFICES Rest'
  BY <1>0, CausesStep DEF IInv
<1>1. ASSUME RefuseRelative \/ StartFails \/ Start \/ Reap PROVE Rest'
  BY <1>0, <1>1 DEF RefuseRelative, StartFails, Start, Reap, GroupIsGone, InGroup, Alive, world
<1>2. CASE Cancel
  <2>1. \A k \in Kids : ~InGroup(k)'
    BY <1>2 DEF Cancel, Killed, InGroup, Alive, Gone
  <2>2. GroupIsGone'
    BY <1>0, <1>2, <2>1 DEF Cancel, GroupIsGone
  <2> QED BY <1>0, <1>2, <2>2 DEF Cancel
<1>3. ASSUME KillLeader \/ TakeWatch \/ Drain \/ OutputDone \/ OutputGivenUp PROVE Rest'
  <2>1. kids' = kids /\ inGroup' = inGroup /\ (leader' = "running" => leader = "running")
        /\ (Stopped' => Stopped)
    BY <1>3 DEF KillLeader, TakeWatch, Drain, OutputDone, OutputGivenUp, world
  <2>2. GroupIsGone'
    BY <1>0, <2>1 DEF GroupIsGone, InGroup, Alive
  <2> QED BY <1>0, <1>3, <2>2 DEF KillLeader, TakeWatch, Drain, OutputDone, OutputGivenUp, world
<1>4. CASE Classify
  BY <1>0, <1>4 DEF Classify, Verdict, GroupIsGone, InGroup, Alive, world
<1>5. CASE Dispatch
  <2>1. outcome' \in {"result", "transient", "internal", "caller"}
    BY <1>5 DEF Dispatch, Answer
  <2>2. /\ outcome' = "result" => outcome = "ran"
        /\ outcome' = "internal" => outcome = "error"
        /\ outcome' = "transient" => outcome = "timed_out" /\ ~left
        /\ outcome' = "caller" => left
    BY <1>0, <1>5 DEF Dispatch, Answer
  <2>3. GroupIsGone'
    BY <1>0, <1>5 DEF Dispatch, GroupIsGone, InGroup, Alive, world
  <2>4. watcher \in {"armed", "cancelled", "gave_up", "stood_down"}
    BY <1>0 DEF TypeOK
  <2> QED BY <1>0, <1>5, <2>1, <2>2, <2>3, <2>4 DEF Dispatch, world
<1>6. ASSUME NEW how \in {"zero", "nonzero", "signal"}, LeaderEnds(how) PROVE Rest'
  BY <1>0, <1>6 DEF LeaderEnds, GroupIsGone, InGroup, Alive
<1>7. CASE LeaderLeavesGroup
  BY <1>0, <1>7 DEF LeaderLeavesGroup, GroupIsGone, InGroup, Alive
<1>8. ASSUME NEW k \in Kids, NEW g \in {"group", "escaped"}, NEW h \in {"holds", "detached"},
             Spawn(k, g, h)
      PROVE  Rest'
  <2>1. Stopped => g = "escaped"
    BY <1>0, <1>8 DEF Spawn, GroupIsGone
  <2>2. GroupIsGone'
    BY <1>0, <1>8, <2>1 DEF Spawn, GroupIsGone, InGroup, Alive, TypeOK
  <2> QED BY <1>0, <1>8, <2>2 DEF Spawn
<1>9. ASSUME NEW k \in Kids, KidEnds(k) PROVE Rest'
  <2>1. GroupIsGone'
    BY <1>0, <1>9 DEF KidEnds, GroupIsGone, InGroup, Alive, TypeOK
  <2> QED BY <1>0, <1>9, <2>1 DEF KidEnds
<1>10. ASSUME NEW s \in Streams, NEW n \in 1..MaxChunk, Copy(s, n) PROVE Rest'
  BY <1>0, <1>10 DEF Copy, GroupIsGone, InGroup, Alive, world
<1>11. ASSUME Deadline \/ CallerLeaves PROVE Rest'
  BY <1>0, <1>11 DEF Deadline, CallerLeaves, GroupIsGone, InGroup, Alive, world
<1>12. CASE UNCHANGED vars
  BY <1>0, <1>12 DEF vars, GroupIsGone, InGroup, Alive
<1> QED
  BY <1>1, <1>2, <1>3, <1>4, <1>5, <1>6, <1>7, <1>8, <1>9, <1>10, <1>11, <1>12
  DEF Next, Host, Command

----------------------------------------------------------------------------
\* The theorems.

\* The inductive invariant holds in every reachable state.
THEOREM Invariance == Spec => []IInv
BY InitInvariant, NextInvariant, PTL DEF Spec

\* Every variable has its type, and no buffer outgrows its bound.
THEOREM TypeCorrectness == Spec => []TypeOK
BY Invariance, PTL DEF IInv

\* The guest reads as much of the output as the bound allows, and is told of
\* every byte that was dropped, however the output is cut into writes.
THEOREM OutputIsSound == Spec => []OutputIsFaithful
BY Invariance, PTL DEF IInv

\* A command that was stopped is never passed off as one that ended by itself.
THEOREM StoppedIsNoResult == Spec => []KilledIsNoVerdict
BY Invariance, PTL DEF IInv

\* A call leaves a process of its command's group alive only when the leader had
\* ended by itself and the watcher was stood down: once the signal was sent, or the
\* leader was killed, nothing of the group is left when the call returns.
THEOREM KillsLeaveNoChildren == Spec => []OnlyTheEndedLeaveChildren
<1>1. IInv => OnlyTheEndedLeaveChildren
  <2> SUFFICES ASSUME IInv, run = "done", NEW k \in Kids, InGroup(k)
               PROVE  leader = "reaped" /\ end # "killed" /\ watcher = "stood_down"
    BY DEF OnlyTheEndedLeaveChildren
  <2>1. leader = "reaped"
    BY DEF IInv, LeaderFollowsTheRun, EndsHaveCauses, InGroup
  <2>2. ~Stopped
    BY DEF IInv, GroupIsGone
  <2>3. watcher = "stood_down"
    BY <2>1, <2>2 DEF IInv, TypeOK, WatcherFollowsTheRun, Stopped
  <2> QED BY <2>1, <2>2, <2>3 DEF IInv, EndsHaveCauses
<1> QED BY <1>1, Invariance, PTL

\* A fault is reported only when nothing ran, and a retry is invited only when
\* the deadline passed.
THEOREM FailuresAreExplained == Spec => []FailureTellsWhy
BY Invariance, PTL DEF IInv
----------------------------------------------------------------------------
\* The promise of every driver.

\* The steps that are none of the promise's: nothing is started, nothing answered.
LEMMA OtherStepsStutter ==
    ASSUME IInv, Next, ~Start, ~Dispatch, ~CallerLeaves
    PROVE  UNCHANGED Promised!vars
<1>1. ASSUME UNCHANGED <<run, outcome, left>>, (leader = "none") <=> (leader' = "none")
      PROVE  UNCHANGED Promised!vars
  BY <1>1 DEF Promised!vars, Answered
<1>2. ASSUME run # "done", run' # "done", UNCHANGED left, (leader = "none") <=> (leader' = "none")
      PROVE  UNCHANGED Promised!vars
  BY <1>2 DEF Promised!vars, Answered
<1>3. CASE RefuseRelative \/ StartFails \/ Reap \/ TakeWatch \/ OutputDone \/ OutputGivenUp \/ Classify
  BY <1>2, <1>3 DEF RefuseRelative, StartFails, Reap, TakeWatch, OutputDone, OutputGivenUp, Classify,
                    world
<1>4. CASE Cancel \/ KillLeader \/ Drain
  BY <1>1, <1>4 DEF Cancel, KillLeader, Drain, world
<1>5. CASE Command
  BY <1>1, <1>5 DEF Command, LeaderEnds, LeaderLeavesGroup, Spawn, KidEnds, Copy, world
<1>6. CASE Deadline
  BY <1>1, <1>6 DEF Deadline, world
<1> QED BY <1>3, <1>4, <1>5, <1>6 DEF Next, Host

\* The end of a call is an answer that the promise allows.
LEMMA DispatchAnswers == ASSUME IInv, Dispatch PROVE Promised!Next
<1>1. /\ run = "dispatch" /\ run' = "done" /\ outcome' = Answer /\ UNCHANGED <<leader, left>>
      /\ outcome \in {"ran", "timed_out", "error"}
  BY DEF Dispatch, world, IInv, OutcomeFollowsTheRun
<1>2. Answered = "none"
  BY <1>1 DEF Answered
<1>3. /\ outcome = "ran" => leader # "none"
      /\ outcome = "error" => leader = "none"
  BY <1>1 DEF IInv, OutcomeFollowsTheRun
<1>4. CASE outcome = "ran"
  <2>1. Answered' = "result"
    BY <1>1, <1>4 DEF Answered, Answer
  <2> QED BY <1>1, <1>2, <1>3, <1>4, <2>1 DEF Promised!Next, Promised!Result, Promised!Answer
<1>5. CASE outcome # "ran" /\ left
  <2>1. Answered' = "nothing"
    BY <1>1, <1>5 DEF Answered, Answer
  <2> QED BY <1>1, <1>2, <1>5, <2>1 DEF Promised!Next, Promised!Abandon, Promised!Answer
<1>6. CASE outcome = "timed_out" /\ ~left
  <2>1. Answered' = "transient"
    BY <1>1, <1>6 DEF Answered, Answer
  <2> QED BY <1>1, <1>2, <2>1 DEF Promised!Next, Promised!Fail, Promised!Answer
<1>7. CASE outcome = "error" /\ ~left
  <2>1. Answered' = "refused"
    BY <1>1, <1>7 DEF Answered, Answer
  <2> QED BY <1>1, <1>2, <1>3, <1>7, <2>1 DEF Promised!Next, Promised!Refuse, Promised!Answer
<1> QED BY <1>1, <1>4, <1>5, <1>6, <1>7

\* A command keeps the promise of every driver: through every race of its end
\* with the deadline, the caller and the output, a result is of a command that
\* ran, a refusal of one that never started, and only a caller that has left gets
\* no outcome.
THEOREM KeepsThePromise == Spec => ImplementsDriverCall
<1>1. Init => Promised!Init
  BY DEF Init, Promised!Init, Answered
<1>2. ASSUME IInv, [Next]_vars PROVE [Promised!Next]_(Promised!vars)
  <2>1. CASE Start
    <3>1. /\ leader = "none" /\ leader' = "running" /\ run # "done" /\ run' # "done"
          /\ UNCHANGED left
      BY <1>2, <2>1 DEF Start, IInv, LeaderFollowsTheRun
    <3> QED BY <3>1 DEF Promised!Next, Promised!Begin, Answered
  <2>2. CASE CallerLeaves
    <3>1. run # "done" /\ ~left /\ left' /\ UNCHANGED <<run, leader>>
      BY <2>2 DEF CallerLeaves, world
    <3> QED BY <3>1 DEF Promised!Next, Promised!Leave, Answered
  <2>3. CASE Dispatch
    BY <1>2, <2>3, DispatchAnswers
  <2>4. CASE UNCHANGED vars
    BY <2>4 DEF vars, Promised!vars, Answered
  <2> QED BY <1>2, <2>1, <2>2, <2>3, <2>4, OtherStepsStutter
<1> QED BY <1>1, <1>2, Invariance, PTL DEF Spec, ImplementsDriverCall, Promised!Spec
----------------------------------------------------------------------------
\* A call that nobody ended keeps its exit status.

\* "The command ran, and its exit status stands" (command.go), also when its
\* output is held past WaitDelay: of a command that was started, in a call whose
\* deadline has not passed and whose caller is there when it returns, the guest
\* reads the result.  ExitStatusStands departs from this only by the context being
\* looked at after the end.
THEOREM ExitStandsInTime ==
    Spec => [](run = "done" /\ leader # "none" /\ ~CtxDone => outcome = "result")
<1>1. IInv => (run = "done" /\ leader # "none" /\ ~CtxDone => outcome = "result")
  BY DEF IInv, OutcomeFollowsTheRun, FailureTellsWhy, CtxDone
<1> QED BY <1>1, Invariance, PTL
----------------------------------------------------------------------------
\* How long a call can last.

\* What the host can do now: ENABLED Host, guard by guard.
HostCanStep ==
    \/ run \in {"start", "watch", "output", "classify", "dispatch"}
    \/ run = "wait" /\ leader = "zombie"
    \/ run = "wait" /\ watcher = "armed" /\ CtxDone
    \/ run = "wait" /\ watcher = "cancelled" /\ WaitDelayIsSet
    \/ run = "wait" /\ pipes = "open" /\ leader # "running" /\ \A k \in Kids : ~Holds(k)

\* The command holds a call for no longer than its deadline: from then on, or
\* once the caller left, the host is never without a step to take until the call
\* is done, whether or not the command or its children heed the signal.
THEOREM NothingHoldsACall == Spec => [](CtxDone /\ run # "done" => HostCanStep)
<1>1. IInv => (CtxDone /\ run # "done" => HostCanStep)
  BY DEF IInv, TypeOK, Phases, LeaderFollowsTheRun, WatcherFollowsTheRun, HostCanStep, WaitDelayIsSet
<1> QED BY <1>1, Invariance, PTL

\* The steps that each part of the host has ahead of it at most.
RunAhead ==
    [start |-> 6, wait |-> 5, watch |-> 4, output |-> 3, classify |-> 2, dispatch |-> 1, done |-> 0]
WatcherAhead == [armed |-> 2, cancelled |-> 1, gave_up |-> 0, stood_down |-> 0]
PipesAhead == [open |-> 1, copied |-> 0, closed |-> 0]

Rank == RunAhead[run] + WatcherAhead[watcher] + PipesAhead[pipes]

\* A call is nine steps of the host long at most: each brings it nearer to its
\* end, and nothing that the command, its children, the clock or the caller do
\* takes it back.
THEOREM CallsAreBounded ==
    Spec => [](Rank \in 0..9) /\ [][Rank' <= Rank /\ (Host => Rank' < Rank)]_vars
<1>1. IInv => /\ RunAhead[run] \in 0..6 /\ WatcherAhead[watcher] \in 0..2 /\ PipesAhead[pipes] \in 0..1
              /\ Rank \in 0..9
  <2> SUFFICES ASSUME IInv
               PROVE  /\ RunAhead[run] \in 0..6 /\ WatcherAhead[watcher] \in 0..2
                      /\ PipesAhead[pipes] \in 0..1 /\ Rank \in 0..9
    OBVIOUS
  <2>1. /\ RunAhead[run] \in 0..6 /\ WatcherAhead[watcher] \in 0..2 /\ PipesAhead[pipes] \in 0..1
    BY DEF IInv, TypeOK, Phases, RunAhead, WatcherAhead, PipesAhead
  <2> QED BY <2>1 DEF Rank
<1>2. IInv /\ [Next]_vars => [Rank' <= Rank /\ (Host => Rank' < Rank)]_vars
  <2> SUFFICES ASSUME IInv, Next PROVE Rank' <= Rank /\ (Host => Rank' < Rank)
    OBVIOUS
  <2>1. /\ RunAhead[run] \in 0..6 /\ WatcherAhead[watcher] \in 0..2 /\ PipesAhead[pipes] \in 0..1
        /\ RunAhead[run]' \in 0..6 /\ WatcherAhead[watcher]' \in 0..2 /\ PipesAhead[pipes]' \in 0..1
    <3>1. run' \in Phases /\ watcher' \in {"armed", "cancelled", "gave_up", "stood_down"}
          /\ pipes' \in {"open", "copied", "closed"}
      BY NextInvariant DEF IInv, TypeOK
    <3> QED BY <1>1, <3>1 DEF Phases, RunAhead, WatcherAhead, PipesAhead
  <2>2. CASE Host
    <3>1. CASE UNCHANGED <<watcher, pipes>> /\ RunAhead[run]' < RunAhead[run]
      BY <2>1, <3>1 DEF Rank
    <3>2. CASE RefuseRelative \/ StartFails \/ Start \/ Reap \/ OutputDone \/ Classify \/ Dispatch
      BY <3>1, <3>2
      DEF RefuseRelative, StartFails, Start, Reap, OutputDone, Classify, Dispatch, RunAhead
    <3>3. CASE Cancel
      <4>1. UNCHANGED <<run, pipes>> /\ WatcherAhead[watcher]' < WatcherAhead[watcher]
        BY <3>3 DEF Cancel, WatcherAhead
      <4> QED BY <2>1, <4>1 DEF Rank
    <3>4. CASE KillLeader
      <4>1. /\ UNCHANGED run /\ WatcherAhead[watcher]' < WatcherAhead[watcher]
            /\ PipesAhead[pipes]' <= PipesAhead[pipes]
        BY <2>1, <3>4 DEF KillLeader, WatcherAhead, PipesAhead
      <4> QED BY <2>1, <4>1 DEF Rank
    <3>5. CASE TakeWatch
      <4>1. /\ UNCHANGED pipes /\ RunAhead[run]' < RunAhead[run]
            /\ WatcherAhead[watcher]' <= WatcherAhead[watcher]
        BY <2>1, <3>5 DEF TakeWatch, RunAhead, WatcherAhead
      <4> QED BY <2>1, <4>1 DEF Rank
    <3>6. CASE Drain
      <4>1. UNCHANGED <<run, watcher>> /\ PipesAhead[pipes]' < PipesAhead[pipes]
        BY <3>6 DEF Drain, PipesAhead
      <4> QED BY <2>1, <4>1 DEF Rank
    <3>7. CASE OutputGivenUp
      <4>1. /\ UNCHANGED watcher /\ RunAhead[run]' < RunAhead[run]
            /\ PipesAhead[pipes]' < PipesAhead[pipes]
        BY <3>7 DEF OutputGivenUp, RunAhead, PipesAhead
      <4> QED BY <2>1, <4>1 DEF Rank
    <3> QED BY <2>2, <3>2, <3>3, <3>4, <3>5, <3>6, <3>7 DEF Host
  <2>3. CASE ~Host
    <3>1. UNCHANGED <<run, watcher, pipes>>
      BY <2>3
      DEF Next, Command, LeaderEnds, LeaderLeavesGroup, Spawn, KidEnds, Copy, Deadline, CallerLeaves
    <3> QED BY <2>1, <2>3, <3>1 DEF Rank
  <2> QED BY <2>2, <2>3
<1> QED BY <1>1, <1>2, Invariance, PTL DEF Spec
=============================================================================
