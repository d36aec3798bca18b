----------------------------- MODULE DriverCall -----------------------------
(***************************************************************************)
(* What the drivers that reach outside the host promise of one call,       *)
(* whatever they do in it: a result is of work that was begun; a refusal   *)
(* that no retry will fix (invalid arguments, denied, internal) says that  *)
(* nothing was; anything else that goes wrong is transient; only a caller  *)
(* that has left gets no outcome at all, so that none is journaled; and    *)
(* what was answered stands.  CommandExec.tla, HttpClient.tla and          *)
(* ProviderCall.tla implement this.                                        *)
(***************************************************************************)

VARIABLES
    begun,   \* the driver has started what the call asks for: a process, a request
    left,    \* the caller's context is done
    answer   \* "none" until the call returns

vars == <<begun, left, answer>>

Init ==
    /\ begun = FALSE
    /\ left = FALSE
    /\ answer = "none"

\* The driver starts a process, or sends its first request.
Begin ==
    /\ answer = "none"
    /\ ~begun /\ begun'
    /\ UNCHANGED <<left, answer>>

Leave ==
    /\ answer = "none"
    /\ ~left /\ left'
    /\ UNCHANGED <<begun, answer>>

Answer(a) == answer = "none" /\ answer' = a /\ UNCHANGED begun

\* What the call did, which stands also for a caller that has left.
Result == begun /\ Answer("result") /\ UNCHANGED left

\* Nothing was done, and a retry would do nothing either.
Refuse == ~begun /\ Answer("refused") /\ UNCHANGED left

\* It may pass on a retry, whether anything was done or not.
Fail == Answer("transient") /\ UNCHANGED left

\* No outcome: the caller has left, or is found to have.
Abandon == Answer("nothing") /\ left'

Next == Begin \/ Leave \/ Result \/ Refuse \/ Fail \/ Abandon

Spec == Init /\ [][Next]_vars
=============================================================================
