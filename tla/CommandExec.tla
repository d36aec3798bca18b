---------------------------- MODULE CommandExec ----------------------------
(***************************************************************************)
(* One run of a command (src/command/command.go: execCommand and what      *)
(* DispatchCall makes of it), with the parts it races against: the         *)
(* command's own processes, its deadline, the caller's context, and the    *)
(* two goroutines of Go's os/exec.  os/exec and the operating system are   *)
(* external, modelled from how execCommand configures them:                *)
(*   - Wait reaps the leader, takes the watcher's word, then waits for the *)
(*     output to be copied;                                                *)
(*   - the watcher calls Cancel once the context is done, unless Wait has  *)
(*     stood it down first, and kills the leader itself after WaitDelay.   *)
(***************************************************************************)
EXTENDS Naturals, FiniteSets

CONSTANTS
    Kids,       \* the processes the command may leave behind
    Streams,    \* stdout and stderr
    Limit,      \* MaxOutputBytes
    MaxChunk,   \* bound: bytes one write of the command carries
    MaxWritten  \* bound: bytes a stream carries

ASSUME OutputAssumption ==
    /\ Limit \in Nat \ {0} /\ MaxChunk \in Nat /\ MaxWritten \in Nat

VARIABLES
    absolute,   \* the configured path is absolute
    present,    \* the binary and its working directory exist
    run,        \* where execCommand is
    leader,     \* the command's process
    end,        \* how the leader ended: by itself, or "killed" by the host
    inGroup,    \* the leader is still in the group Setpgid gave it
    kids,       \* [Kids -> the state of a process the command spawned]
    watcher,    \* the goroutine that watches the context
    runErr,     \* whether cmd.Run returns an error
    pipes,      \* "open", "copied" (EOF reached) or "closed" (given up on)
    written,    \* [Streams -> bytes copied from the command]
    kept,       \* [Streams -> bytes its boundedBuffer holds]
    truncated,  \* [Streams -> the buffer dropped some]
    expired,    \* the command's deadline passed
    left,       \* the caller's context is done
    selfEnded,  \* history: the leader ended by itself, before any of these two
    outcome     \* what DispatchCall returned

vars == <<absolute, present, run, leader, end, inGroup, kids, watcher, runErr, pipes,
          written, kept, truncated, expired, left, selfEnded, outcome>>

world == <<leader, end, inGroup, kids, selfEnded>>
buffers == <<written, kept, truncated>>

Phases == {"start", "wait", "watch", "output", "classify", "dispatch", "done"}
None == <<"none", "detached">>
Gone == <<"gone", "detached">>
KidStates == {None, Gone} \cup ({"group", "escaped"} \X {"holds", "detached"})
Outcomes == {"none", "ran", "timed_out", "error", "result", "transient", "internal", "caller"}

CtxDone == expired \/ left
Alive(k) == kids[k] \notin {None, Gone}
InGroup(k) == Alive(k) /\ kids[k][1] = "group"
Holds(k) == Alive(k) /\ kids[k][2] = "holds"

Init ==
    /\ absolute \in BOOLEAN
    /\ present \in BOOLEAN
    /\ run = "start"
    /\ leader = "none"
    /\ end = "none"
    /\ inGroup = TRUE
    /\ kids = [k \in Kids |-> None]
    /\ watcher = "armed"
    /\ runErr = FALSE
    /\ pipes = "open"
    /\ written = [s \in Streams |-> 0]
    /\ kept = [s \in Streams |-> 0]
    /\ truncated = [s \in Streams |-> FALSE]
    /\ expired = FALSE
    /\ left = FALSE
    /\ selfEnded = FALSE
    /\ outcome = "none"

----------------------------------------------------------------------------
\* The command and the clock.

LeaderEnds(how) ==
    /\ leader = "running"
    /\ leader' = "zombie"
    /\ end' = how
    /\ selfEnded' = ~CtxDone
    /\ UNCHANGED <<absolute, present, run, inGroup, kids, watcher, runErr, pipes, buffers,
                   expired, left, outcome>>

LeaderLeavesGroup ==
    /\ leader = "running" /\ inGroup
    /\ inGroup' = FALSE
    /\ UNCHANGED <<absolute, present, run, leader, end, kids, watcher, runErr, pipes,
                   buffers, expired, left, selfEnded, outcome>>

\* A child stays in the leader's group or has left it, and keeps the output
\* pipes or has closed them.
Spawn(k, group, pipe) ==
    /\ leader = "running" /\ kids[k] = None
    /\ group = "group" => inGroup
    /\ kids' = [kids EXCEPT ![k] = <<group, pipe>>]
    /\ UNCHANGED <<absolute, present, run, leader, end, inGroup, watcher, runErr, pipes,
                   buffers, expired, left, selfEnded, outcome>>

KidEnds(k) ==
    /\ Alive(k)
    /\ kids' = [kids EXCEPT ![k] = Gone]
    /\ UNCHANGED <<absolute, present, run, leader, end, inGroup, watcher, runErr, pipes,
                   buffers, expired, left, selfEnded, outcome>>

Deadline ==
    /\ run # "done" /\ ~expired
    /\ expired' = TRUE
    /\ UNCHANGED <<absolute, present, run, world, watcher, runErr, pipes, buffers,
                   left, outcome>>

CallerLeaves ==
    /\ run # "done" /\ ~left
    /\ left' = TRUE
    /\ UNCHANGED <<absolute, present, run, world, watcher, runErr, pipes, buffers,
                   expired, outcome>>

\* Variants of KeepOf: a write that does not fit is dropped whole, or kept
\* whole as long as the buffer is not full.
KeepPastLimit(n, len) == IF len < Limit THEN n ELSE 0
KeepWhole(n, len) == IF n <= Limit - len THEN n ELSE 0

\* boundedBuffer.Write: how much of n bytes a buffer of len bytes keeps.
KeepOf(n, len) == IF n <= Limit - len THEN n ELSE Limit - len

\* A copying goroutine moves a write of the command into its buffer.
Copy(s, n) ==
    /\ pipes = "open"
    /\ leader = "running" \/ \E k \in Kids : Holds(k)
    /\ written[s] + n <= MaxWritten
    /\ written' = [written EXCEPT ![s] = @ + n]
    /\ kept' = [kept EXCEPT ![s] = @ + KeepOf(n, @)]
    /\ truncated' = [truncated EXCEPT ![s] = @ \/ KeepOf(n, kept[s]) < n]
    /\ UNCHANGED <<absolute, present, run, world, watcher, runErr, pipes, expired, left,
                   outcome>>

----------------------------------------------------------------------------
\* execCommand and os/exec.

\* The floor under a Command built by hand: no relative path runs.
RefuseRelative ==
    /\ run = "start" /\ ~absolute
    /\ run' = "dispatch"
    /\ outcome' = "error"
    /\ UNCHANGED <<absolute, present, world, watcher, runErr, pipes, buffers, expired, left>>

\* cmd.Start fails: the context is done already, or there is no such binary.
StartFails ==
    /\ run = "start" /\ absolute
    /\ CtxDone \/ ~present
    /\ run' = "classify"
    /\ runErr' = TRUE
    /\ UNCHANGED <<absolute, present, world, watcher, pipes, buffers, expired, left, outcome>>

Start ==
    /\ run = "start" /\ absolute /\ present /\ ~CtxDone
    /\ run' = "wait"
    /\ leader' = "running"
    /\ UNCHANGED <<absolute, present, end, inGroup, kids, watcher, runErr, pipes, buffers,
                   expired, left, selfEnded, outcome>>

\* Process.Wait: an exit other than zero is an error.
Reap ==
    /\ run = "wait" /\ leader = "zombie"
    /\ leader' = "reaped"
    /\ runErr' = (end # "zero")
    /\ run' = "watch"
    /\ UNCHANGED <<absolute, present, end, inGroup, kids, watcher, pipes, buffers, expired,
                   left, selfEnded, outcome>>

\* Variant of Killed: the signal goes to the leader alone.
KilledLeader(k) == FALSE

\* kill(-pid): every process still in the leader's group.
Killed(k) == InGroup(k)

\* cmd.Cancel, called by the watcher once the context is done.
Cancel ==
    /\ run \in {"wait", "watch"} /\ watcher = "armed" /\ CtxDone
    /\ watcher' = "cancelled"
    /\ kids' = [k \in Kids |-> IF Killed(k) THEN Gone ELSE kids[k]]
    /\ IF leader = "running" /\ inGroup
       THEN leader' = "zombie" /\ end' = "killed"
       ELSE UNCHANGED <<leader, end>>
    /\ UNCHANGED <<absolute, present, run, inGroup, runErr, pipes, buffers, expired, left,
                   selfEnded, outcome>>

\* Variant of WaitDelayIsSet: exec's default.
WaitDelayIsZero == FALSE

\* cmd.WaitDelay = 2s
WaitDelayIsSet == TRUE

\* WaitDelay after Cancel, the leader not reaped: the watcher kills the leader
\* itself and gives up on the output.
KillLeader ==
    /\ WaitDelayIsSet
    /\ run = "wait" /\ watcher = "cancelled"
    /\ watcher' = "gave_up"
    /\ pipes' = IF pipes = "open" THEN "closed" ELSE pipes
    /\ IF leader = "running"
       THEN leader' = "zombie" /\ end' = "killed"
       ELSE UNCHANGED <<leader, end>>
    /\ UNCHANGED <<absolute, present, run, inGroup, kids, runErr, buffers, expired, left,
                   selfEnded, outcome>>

\* Wait takes the watcher's word: nothing happened, and it stands down, or an
\* error.
TakeWatch ==
    /\ run = "watch"
    /\ run' = "output"
    /\ watcher' = IF watcher = "armed" THEN "stood_down" ELSE watcher
    /\ runErr' = (runErr \/ watcher # "armed")
    /\ UNCHANGED <<absolute, present, world, pipes, buffers, expired, left, outcome>>

\* Every holder of the pipes is gone, so the copying ends.
Drain ==
    /\ run \in {"wait", "watch", "output"} /\ pipes = "open"
    /\ leader # "running" /\ \A k \in Kids : ~Holds(k)
    /\ pipes' = "copied"
    /\ UNCHANGED <<absolute, present, run, world, watcher, runErr, buffers, expired, left,
                   outcome>>

OutputDone ==
    /\ run = "output" /\ pipes # "open"
    /\ run' = "classify"
    /\ UNCHANGED <<absolute, present, world, watcher, runErr, pipes, buffers, expired, left,
                   outcome>>

\* WaitDelay after the leader ended, the output still held: ErrWaitDelay.
OutputGivenUp ==
    /\ WaitDelayIsSet
    /\ run = "output" /\ pipes = "open"
    /\ run' = "classify"
    /\ pipes' = "closed"
    /\ runErr' = TRUE
    /\ UNCHANGED <<absolute, present, world, watcher, buffers, expired, left, outcome>>

\* Variants of Verdict: an error of Run is a failure; a process state is a
\* result.
ErrorFails ==
    CASE runErr /\ CtxDone -> "timed_out"
      [] runErr /\ ~CtxDone -> "error"
      [] OTHER -> "ran"

StateStands ==
    CASE leader = "none" /\ ~CtxDone -> "error"
      [] leader = "none" /\ CtxDone -> "timed_out"
      [] OTHER -> "ran"

\* The switch after cmd.Run.
Verdict ==
    CASE runErr /\ CtxDone -> "timed_out"
      [] ~(runErr /\ CtxDone) /\ leader = "none" -> "error"
      [] OTHER -> "ran"

Classify ==
    /\ run = "classify"
    /\ run' = "dispatch"
    /\ outcome' = Verdict
    /\ UNCHANGED <<absolute, present, world, watcher, runErr, pipes, buffers, expired, left>>

\* DispatchCall: a result, the caller's own error, or a failure the guest sees.
Answer ==
    CASE outcome = "ran" -> "result"
      [] outcome # "ran" /\ left -> "caller"
      [] outcome = "timed_out" /\ ~left -> "transient"
      [] OTHER -> "internal"

Dispatch ==
    /\ run = "dispatch"
    /\ run' = "done"
    /\ outcome' = Answer
    /\ UNCHANGED <<absolute, present, world, watcher, runErr, pipes, buffers, expired, left>>

----------------------------------------------------------------------------
\* What the host does by itself, and what the command does as it pleases.
Host ==
    \/ RefuseRelative \/ StartFails \/ Start \/ Reap \/ Cancel \/ KillLeader \/ TakeWatch
    \/ Drain \/ OutputDone \/ OutputGivenUp \/ Classify \/ Dispatch

Command ==
    \/ \E how \in {"zero", "nonzero", "signal"} : LeaderEnds(how)
    \/ LeaderLeavesGroup
    \/ \E k \in Kids, g \in {"group", "escaped"}, h \in {"holds", "detached"} : Spawn(k, g, h)
    \/ \E k \in Kids : KidEnds(k)
    \/ \E s \in Streams, n \in 1..MaxChunk : Copy(s, n)

Next == Host \/ Command \/ Deadline \/ CallerLeaves

Spec == Init /\ [][Next]_vars

\* Time passes and the host's goroutines run; the command owes nothing.
FairSpec == Spec /\ WF_vars(Host) /\ WF_vars(Deadline)

----------------------------------------------------------------------------
\* Correctness.

\* Every variable has its type, and no buffer outgrows its bound.
TypeOK ==
    /\ absolute \in BOOLEAN /\ present \in BOOLEAN
    /\ run \in Phases
    /\ leader \in {"none", "running", "zombie", "reaped"}
    /\ end \in {"none", "zero", "nonzero", "signal", "killed"}
    /\ inGroup \in BOOLEAN
    /\ kids \in [Kids -> KidStates]
    /\ watcher \in {"armed", "cancelled", "gave_up", "stood_down"}
    /\ runErr \in BOOLEAN
    /\ pipes \in {"open", "copied", "closed"}
    /\ written \in [Streams -> 0..MaxWritten]
    /\ kept \in [Streams -> 0..Limit]
    /\ truncated \in [Streams -> BOOLEAN]
    /\ expired \in BOOLEAN /\ left \in BOOLEAN /\ selfEnded \in BOOLEAN
    /\ outcome \in Outcomes

\* What the guest reads is a prefix of what was copied of the output, as long as
\* the bound allows, and a byte that the buffer drops is always reported
\* (boundedBuffer, Response.Truncated).
OutputIsFaithful ==
    \A s \in Streams :
        /\ kept[s] = IF written[s] <= Limit THEN written[s] ELSE Limit
        /\ truncated[s] <=> written[s] > kept[s]

\* A command its deadline or its caller stopped is never passed off as one
\* that ended by itself (the order of execCommand's switch).
KilledIsNoVerdict == outcome = "result" => watcher \in {"armed", "stood_down"}

\* A process of the command's group outlives the call only when its leader had
\* ended by itself and Wait had stood the watcher down: a leader that the host
\* killed takes its whole group with it, and so does one that had ended when the
\* signal was sent (cmd.Cancel, Setpgid).
OnlyTheEndedLeaveChildren ==
    run = "done" /\ (\E k \in Kids : InGroup(k)) =>
        leader = "reaped" /\ end # "killed" /\ watcher = "stood_down"

\* "A timeout may well pass on a retry, while a command that could not start at
\* all is a configuration fault" (command.go, DispatchCall): the guest is told
\* of a fault only when nothing ran, whatever ended the command or holds its
\* output, and is invited to retry only when the deadline passed.
FailureTellsWhy ==
    /\ outcome = "internal" => leader = "none"
    /\ outcome = "transient" => expired

\* Every call returns, whatever the command does: it may ignore its deadline,
\* leave its group, or leave children that hold the output for ever.
CallReturns == <>(run = "done")

\* What the caller of DispatchCall sees.
Answered ==
    CASE run # "done" -> "none"
      [] run = "done" /\ outcome = "internal" -> "refused"
      [] run = "done" /\ outcome = "caller" -> "nothing"
      [] OTHER -> outcome

Promised == INSTANCE DriverCall WITH begun <- leader # "none", answer <- Answered

\* "A timeout may well pass on a retry, while a command that could not start at
\* all is a configuration fault that retrying will not fix" (command.go): a
\* command keeps what every driver promises of a call, through every race of its
\* end with the deadline and the caller.
ImplementsDriverCall == Promised!Spec

\* "The command ran, and its exit status stands -- also when a child it left
\* behind held the output open past WaitDelay" (command.go): a leader that
\* ended by itself in time gives a result.
ExitStatusStands == run = "done" /\ selfEnded => outcome = "result"

\* "A command that outruns its deadline is killed, and so is the process tree it
\* started -- a child holding the output pipe must not outlive the call"
\* (command_test.go; "cancellation reaches the whole tree", command.go): when the
\* guest is told of a timeout, no such child is left in the group.
CancelReachesTheTree ==
    run = "done" /\ leader # "none" /\ outcome = "transient" =>
        \A k \in Kids : ~(InGroup(k) /\ Holds(k))

\* Of the two statements above, at least one: a command was let end, and its exit
\* status stands, or it was cut off, and its tree with it (execCommand).
EndedOrStopped == ExitStatusStands \/ CancelReachesTheTree
=============================================================================
