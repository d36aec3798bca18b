------------------------- MODULE ProviderCallProofs -------------------------
(***************************************************************************)
(* Proofs about ProviderCall, for every list of models, every call and     *)
(* every number of retries: the model that is sent, what is tried again    *)
(* and how a call that is cancelled ends.                                  *)
(***************************************************************************)
EXTENDS ProviderCall, TLAPS

----------------------------------------------------------------------------
\* The inductive invariant.

\* The model is settled before the first attempt.
ModelIsSettled ==
    /\ ~SettingsRefuse(settings)
    /\ phase \in {"validate", "check"} => model = NoModel
    /\ phase # "validate" /\ outcome # "refused" =>
        SchemaAdmits(operation) /\ (operation.post => shown \in Shown(operation))
    /\ model # NoModel => outcome # "refused" /\ operation.post /\ model = ModelOf(operation)

\* An attempt is judged by how it ended; only what may be retried waits.
AttemptIsJudged ==
    /\ phase \in {"judge", "wait", "classify"} => last \in Endings
    /\ phase = "wait" => Retryable /\ attempt < MaxRetries

\* Why no other attempt is made.
Final ==
    \/ attempt = MaxRetries
    \/ last \in {"ok", "not_json", "too_long", "client_error"}
    \/ cancelled

\* There is an outcome once the call is done.
GivenUp ==
    /\ phase = "classify" => Final
    /\ phase # "done" => outcome = "none"

\* No attempt is made before the call is admitted.
NothingIsSent == phase \in {"validate", "check"} => last = "none"

\* The context is looked at after each attempt and in each wait.
CancelIsSeen ==
    /\ phase \notin {"classify", "done"} => ~late
    /\ late => cancelled
    /\ cancelled /\ phase = "wait" => attempt = leftAt

IInv ==
    /\ TypeOK
    /\ ModelIsSettled
    /\ AttemptIsJudged
    /\ GivenUp
    /\ NothingIsSent
    /\ CancelIsSeen
    /\ RetriesAreMade
    /\ CancelledIsNoFailure
    /\ CancelEndsTheRetries

----------------------------------------------------------------------------
\* The models of a call are models.

\* The models of any settings are models.
LEMMA ModelsAreTyped ==
    ASSUME settings \in Settings, NEW o \in Operations
    PROVE  /\ ModelOf(o) \in Models \cup {NoModel}
           /\ Shown(o) \subseteq Models \cup {NoModel}
<1>1. o.model \in Texts \cup {NoModel} /\ o.other \in Texts \cup {NoModel}
  BY RetryAssumption
<1>2. \A m \in Texts \cup {NoModel} : Or(Trimmed[m], settings.default) \in Models \cup {NoModel}
  BY RetryAssumption DEF Or, Settings
<1> QED BY <1>1, <1>2 DEF ModelOf, Shown

----------------------------------------------------------------------------
\* The invariant is inductive.

\* Every initial state satisfies the invariant.
LEMMA InitInvariant == Init => IInv
<1> SUFFICES ASSUME Init PROVE IInv
  OBVIOUS
<1>1. TypeOK
  <2>1. settings \in Settings
    BY DEF Init
  <2>2. attempt \in 0..MaxRetries /\ leftAt \in 0..MaxRetries
    BY RetryAssumption DEF Init
  <2>3. phase \in Phases /\ outcome \in Outcomes /\ last \in Endings \cup {"none"}
    BY DEF Init, Phases, Outcomes
  <2>4. cancelled \in BOOLEAN /\ late \in BOOLEAN
    BY DEF Init
  <2>5. shown \in Models \cup {NoModel} /\ model \in Models \cup {NoModel} /\ operation \in Operations
    BY DEF Init
  <2> QED BY <2>1, <2>2, <2>3, <2>4, <2>5 DEF TypeOK
<1>2. ModelIsSettled /\ AttemptIsJudged /\ GivenUp /\ NothingIsSent /\ CancelIsSeen
  BY DEF Init, ModelIsSettled, AttemptIsJudged, GivenUp, NothingIsSent, CancelIsSeen
<1>3. RetriesAreMade /\ CancelledIsNoFailure /\ CancelEndsTheRetries
  BY DEF Init, RetriesAreMade, CancelledIsNoFailure, CancelEndsTheRetries
<1> QED BY <1>1, <1>2, <1>3 DEF IInv

\* Every step keeps the invariant.
LEMMA NextInvariant == IInv /\ [Next]_vars => IInv'
<1> SUFFICES ASSUME IInv, [Next]_vars PROVE IInv'
  OBVIOUS
<1> USE RetryAssumption
<1> USE DEF IInv, TypeOK, NothingIsSent, Phases, Outcomes, Endings, Refusals, NetworkErrors, Responses
<1>1. CASE Validate
  <2>1. shown' \in Models \cup {NoModel}
    BY <1>1, ModelsAreTyped DEF Validate
  <2>2. TypeOK'
    BY <1>1, <2>1 DEF Validate
  <2>3. ModelIsSettled'
    BY <1>1 DEF Validate, ModelIsSettled, GivenUp, SchemaAdmits, Shown
  <2>4. AttemptIsJudged' /\ GivenUp' /\ NothingIsSent' /\ CancelIsSeen' /\ RetriesAreMade'
        /\ CancelledIsNoFailure' /\ CancelEndsTheRetries'
    BY <1>1 DEF Validate, AttemptIsJudged, GivenUp, CancelIsSeen, RetriesAreMade, CancelledIsNoFailure,
                CancelEndsTheRetries
  <2> QED BY <2>2, <2>3, <2>4
<1>2. CASE Cancel
  <2>1. TypeOK'
    BY <1>2 DEF Cancel
  <2>2. ModelIsSettled'
    BY <1>2 DEF Cancel, ModelIsSettled, SchemaAdmits, Shown, ModelOf
  <2>3. AttemptIsJudged' /\ GivenUp' /\ NothingIsSent'
    BY <1>2 DEF Cancel, AttemptIsJudged, GivenUp, Final, Retryable
  <2>4. CancelIsSeen' /\ RetriesAreMade' /\ CancelledIsNoFailure' /\ CancelEndsTheRetries'
    BY <1>2 DEF Cancel, CancelIsSeen, RetriesAreMade, CancelledIsNoFailure, CancelEndsTheRetries
  <2> QED BY <2>1, <2>2, <2>3, <2>4
<1>3. CASE Refuse
  <2>1. TypeOK'
    BY <1>3 DEF Refuse
  <2>2. ModelIsSettled'
    BY <1>3 DEF Refuse, ModelIsSettled, GivenUp, SchemaAdmits, Shown, ModelOf
  <2>3. AttemptIsJudged' /\ GivenUp' /\ NothingIsSent' /\ CancelIsSeen' /\ RetriesAreMade'
        /\ CancelledIsNoFailure' /\ CancelEndsTheRetries'
    BY <1>3 DEF Refuse, AttemptIsJudged, GivenUp, CancelIsSeen, RetriesAreMade, CancelledIsNoFailure,
                CancelEndsTheRetries
  <2> QED BY <2>1, <2>2, <2>3
<1>4. CASE Admit
  <2>1. model' \in Models \cup {NoModel}
    BY <1>4, ModelsAreTyped DEF Admit
  <2>2. TypeOK'
    BY <1>4, <2>1 DEF Admit
  <2>3. ModelIsSettled'
    BY <1>4 DEF Admit, ModelIsSettled, GivenUp, SchemaAdmits, Shown, ModelOf
  <2>4. AttemptIsJudged' /\ GivenUp' /\ NothingIsSent' /\ CancelIsSeen' /\ RetriesAreMade'
        /\ CancelledIsNoFailure' /\ CancelEndsTheRetries'
    BY <1>4 DEF Admit, AttemptIsJudged, GivenUp, CancelIsSeen, RetriesAreMade, CancelledIsNoFailure,
                CancelEndsTheRetries
  <2> QED BY <2>2, <2>3, <2>4
<1>5. ASSUME NEW e \in Endings, Attempt(e) PROVE IInv'
  <2>1. TypeOK'
    BY <1>5 DEF Attempt
  <2>2. ModelIsSettled'
    BY <1>5 DEF Attempt, ModelIsSettled, SchemaAdmits, Shown, ModelOf
  <2>3. AttemptIsJudged' /\ GivenUp' /\ NothingIsSent' /\ CancelIsSeen' /\ RetriesAreMade'
        /\ CancelledIsNoFailure' /\ CancelEndsTheRetries'
    BY <1>5 DEF Attempt, AttemptIsJudged, GivenUp, CancelIsSeen, RetriesAreMade, CancelledIsNoFailure,
                CancelEndsTheRetries
  <2> QED BY <2>1, <2>2, <2>3
<1>6. CASE Judge
  <2>1. TypeOK'
    BY <1>6 DEF Judge
  <2>2. ModelIsSettled'
    BY <1>6 DEF Judge, ModelIsSettled, SchemaAdmits, Shown, ModelOf
  <2>3. GivesUp => Final
    BY <1>6 DEF Judge, GivesUp, Final, Answered, Retryable, RetriesSpent, AttemptIsJudged
  <2>4. ~GivesUp => Retryable /\ attempt < MaxRetries /\ ~cancelled
    BY DEF GivesUp, RetriesSpent
  <2>5. AttemptIsJudged' /\ GivenUp' /\ NothingIsSent'
    BY <1>6, <2>3, <2>4 DEF Judge, AttemptIsJudged, GivenUp, Final, Retryable
  <2>6. CancelIsSeen' /\ RetriesAreMade' /\ CancelledIsNoFailure' /\ CancelEndsTheRetries'
    BY <1>6, <2>4 DEF Judge, GivenUp, CancelIsSeen, RetriesAreMade, CancelledIsNoFailure,
                      CancelEndsTheRetries
  <2> QED BY <2>1, <2>2, <2>5, <2>6
<1>7. CASE Retry
  <2>1. attempt < MaxRetries /\ attempt' = attempt + 1 /\ attempt' \in 0..MaxRetries
    BY <1>7 DEF Retry, NextAttempt, AttemptIsJudged
  <2>2. TypeOK'
    BY <1>7, <2>1 DEF Retry
  <2>3. ModelIsSettled'
    BY <1>7 DEF Retry, ModelIsSettled, SchemaAdmits, Shown, ModelOf
  <2>4. AttemptIsJudged' /\ GivenUp' /\ NothingIsSent' /\ CancelIsSeen' /\ RetriesAreMade'
        /\ CancelledIsNoFailure'
    BY <1>7 DEF Retry, AttemptIsJudged, GivenUp, CancelIsSeen, RetriesAreMade, CancelledIsNoFailure
  <2>5. CancelEndsTheRetries'
    BY <1>7, <2>1 DEF Retry, CancelIsSeen, CancelEndsTheRetries
  <2> QED BY <2>2, <2>3, <2>4, <2>5
<1>8. CASE StopWaiting
  <2>1. TypeOK'
    BY <1>8 DEF StopWaiting
  <2>2. ModelIsSettled'
    BY <1>8 DEF StopWaiting, ModelIsSettled, SchemaAdmits, Shown, ModelOf
  <2>3. AttemptIsJudged' /\ GivenUp' /\ NothingIsSent' /\ CancelIsSeen' /\ RetriesAreMade'
        /\ CancelledIsNoFailure' /\ CancelEndsTheRetries'
    BY <1>8 DEF StopWaiting, AttemptIsJudged, GivenUp, Final, CancelIsSeen, RetriesAreMade,
                CancelledIsNoFailure, CancelEndsTheRetries
  <2> QED BY <2>1, <2>2, <2>3
<1>9. CASE Classify
  <2>1. outcome' \in {"result", "transient", "caller"}
    BY <1>9 DEF Classify, Verdict
  <2>2. TypeOK'
    BY <1>9, <2>1 DEF Classify
  <2>3. ModelIsSettled'
    BY <1>9, <2>1 DEF Classify, ModelIsSettled, GivenUp, SchemaAdmits, Shown, ModelOf
  <2>4. AttemptIsJudged' /\ GivenUp' /\ NothingIsSent' /\ CancelIsSeen' /\ CancelEndsTheRetries'
    BY <1>9 DEF Classify, AttemptIsJudged, GivenUp, CancelIsSeen, CancelEndsTheRetries
  <2>5. RetriesAreMade'
    BY <1>9 DEF Classify, Verdict, Answered, RetriesAreMade, GivenUp, Final
  <2>6. CancelledIsNoFailure'
    BY <1>9 DEF Classify, Verdict, Answered, CancelledIsNoFailure, CancelIsSeen
  <2> QED BY <2>2, <2>3, <2>4, <2>5, <2>6
<1>10. CASE UNCHANGED vars
  BY <1>10 DEF vars, ModelIsSettled, SchemaAdmits, Shown, ModelOf, AttemptIsJudged, Retryable, GivenUp,
               Final, CancelIsSeen, RetriesAreMade, CancelledIsNoFailure, CancelEndsTheRetries
<1> QED
  BY <1>1, <1>2, <1>3, <1>4, <1>5, <1>6, <1>7, <1>8, <1>9, <1>10 DEF Next, Host

----------------------------------------------------------------------------
\* The theorems.

\* The inductive invariant holds in every reachable state.
THEOREM Invariance == Spec => []IInv
BY InitInvariant, NextInvariant, PTL DEF Spec

\* Every variable has its type, and no call retries more than it may.
THEOREM TypeCorrectness == Spec => []TypeOK
BY Invariance, PTL DEF IInv

\* The model that is sent is one the grant allows, and the one that was shown.
THEOREM ModelIsSound == Spec => []ModelIsAllowedAndShown
<1>1. IInv => ModelIsAllowedAndShown
  <2> SUFFICES ASSUME IInv, model # NoModel
               PROVE  /\ settings.allowed # {} => model \in settings.allowed
                      /\ operation.other = NoModel => shown = model
    BY DEF ModelIsAllowedAndShown
  <2>1. operation.post /\ model = ModelOf(operation) /\ SchemaAdmits(operation)
        /\ shown \in Shown(operation) /\ ~SettingsRefuse(settings) /\ settings \in Settings
    BY DEF IInv, ModelIsSettled, TypeOK
  <2>2. settings.allowed # {} => model \in settings.allowed
    <3>1. CASE operation.model = NoModel
      BY <2>1, <3>1, RetryAssumption DEF ModelOf, Or, SettingsRefuse
    <3>2. CASE operation.model \in settings.allowed
      <4>1. Trimmed[operation.model] = operation.model /\ operation.model # NoModel
        BY <2>1, <3>2, RetryAssumption DEF Settings
      <4> QED BY <2>1, <3>2, <4>1 DEF ModelOf, Or
    <3> QED BY <2>1, <3>1, <3>2 DEF SchemaAdmits
  <2>3. operation.other = NoModel => shown = model
    BY <2>1 DEF Shown, ModelOf
  <2> QED BY <2>2, <2>3
<1> QED BY <1>1, Invariance, PTL

\* A call that gives up has made every retry it may.
THEOREM RetriesAreAllMade == Spec => []RetriesAreMade
BY Invariance, PTL DEF IInv

\* A call that its caller left has no failure for an outcome.
THEOREM CancellationIsClean == Spec => []CancelledIsNoFailure
BY Invariance, PTL DEF IInv

\* A caller that leaves waits for one more attempt at most.
THEOREM CancellationIsPrompt == Spec => []CancelEndsTheRetries
BY Invariance, PTL DEF IInv

\* What the provider answered for good is never asked again.
THEOREM AnswersAreFinal == Spec => VerdictsAreFinal
<1>1. IInv /\ [Next]_vars
        => [attempt' # attempt => last \notin {"ok", "not_json", "too_long", "client_error"}]_vars
  <2> SUFFICES ASSUME IInv, Next, attempt' # attempt
               PROVE  last \notin {"ok", "not_json", "too_long", "client_error"}
    OBVIOUS
  <2>1. Retry
    BY DEF Next, Host, Validate, Cancel, Refuse, Admit, Attempt, Judge, StopWaiting, Classify
  <2> QED BY <2>1 DEF IInv, Retry, AttemptIsJudged, Retryable, Refusals, NetworkErrors
<1> QED BY <1>1, Invariance, PTL DEF Spec, VerdictsAreFinal
----------------------------------------------------------------------------
\* The promise of every driver.

\* Every step of a call is one that the promise allows, or none of its own.
LEMMA PromisedStep == IInv /\ [Next]_vars => [Promised!Next]_(Promised!vars)
<1> SUFFICES ASSUME IInv, [Next]_vars PROVE [Promised!Next]_(Promised!vars)
  OBVIOUS
<1> USE DEF Promised!Next, Promised!vars
<1>1. CASE Validate
  <2>1. last = "none" /\ outcome = "none" /\ UNCHANGED <<last, cancelled>>
    BY <1>1 DEF Validate, IInv, NothingIsSent, GivenUp
  <2> QED BY <1>1, <2>1 DEF Validate, Promised!Refuse, Promised!Answer
<1>2. CASE Refuse
  <2>1. last = "none" /\ outcome = "none" /\ UNCHANGED <<last, cancelled>> /\ outcome' = "invalid_args"
    BY <1>2 DEF Refuse, IInv, NothingIsSent, GivenUp
  <2> QED BY <2>1 DEF Promised!Refuse, Promised!Answer
<1>3. CASE Cancel
  <2>1. outcome = "none" /\ ~cancelled /\ cancelled' /\ UNCHANGED <<last, outcome>>
    BY <1>3 DEF Cancel, IInv, GivenUp
  <2> QED BY <2>1 DEF Promised!Leave
<1>4. ASSUME NEW e \in Endings, Attempt(e) PROVE [Promised!Next]_(Promised!vars)
  <2>1. outcome = "none" /\ last' # "none" /\ UNCHANGED <<outcome, cancelled>>
    BY <1>4 DEF Attempt, IInv, GivenUp, Endings, Refusals, NetworkErrors, Responses
  <2> QED BY <2>1 DEF Promised!Begin
<1>5. CASE Classify
  <2>1. outcome = "none" /\ last # "none" /\ UNCHANGED <<last, cancelled>> /\ outcome' = Verdict
    BY <1>5
    DEF Classify, IInv, GivenUp, AttemptIsJudged, Endings, Refusals, NetworkErrors, Responses
  <2>2. CASE last = "ok"
    BY <2>1, <2>2 DEF Verdict, Answered, Promised!Result, Promised!Answer
  <2>3. CASE ~Answered /\ cancelled
    BY <2>1, <2>3 DEF Verdict, Answered, Promised!Abandon, Promised!Answer
  <2>4. CASE last # "ok" /\ ~(~Answered /\ cancelled)
    BY <2>1, <2>4 DEF Verdict, Answered, Promised!Fail, Promised!Answer
  <2> QED BY <2>2, <2>3, <2>4
<1>6. CASE Admit \/ Judge \/ Retry \/ StopWaiting \/ UNCHANGED vars
  BY <1>6 DEF Admit, Judge, Retry, StopWaiting, vars
<1> QED BY <1>1, <1>2, <1>3, <1>4, <1>5, <1>6 DEF Next, Host

\* A provider call keeps the promise of every driver, however many attempts it
\* makes: it is refused only before the first, a result is of an attempt that was
\* answered, and only a caller that has left gets no outcome.
THEOREM KeepsThePromise == Spec => ImplementsDriverCall
<1>1. Init => Promised!Init
  BY DEF Init, Promised!Init
<1> QED BY <1>1, PromisedStep, Invariance, PTL DEF Spec, ImplementsDriverCall, Promised!Spec
----------------------------------------------------------------------------
\* How long a call can last.

\* The steps that a phase has ahead of it, if nothing is tried again.
Ahead ==
    [validate |-> 6, check |-> 5, send |-> 4, judge |-> 3, wait |-> 2, classify |-> 1, done |-> 0]

\* The steps a call has ahead of it at most, its caller's among them.
Rank == 3 * (MaxRetries - attempt) + Ahead[phase] + (IF cancelled THEN 0 ELSE 1)

\* A call is never more steps from its end than its retries account for, and
\* comes nearer with each step, whatever the provider and the caller do.
THEOREM CallsAreBounded == Spec => [](Rank \in 0..(3 * MaxRetries + 7)) /\ [][Rank' < Rank]_vars
<1>1. IInv => Rank \in 0..(3 * MaxRetries + 7)
  <2> SUFFICES ASSUME IInv PROVE Rank \in 0..(3 * MaxRetries + 7)
    OBVIOUS
  <2>1. MaxRetries \in Nat /\ attempt \in 0..MaxRetries
    BY RetryAssumption DEF IInv, TypeOK
  <2>2. Ahead[phase] \in 0..6
    BY DEF IInv, TypeOK, Phases, Ahead
  <2> QED BY <2>1, <2>2 DEF Rank
<1>2. IInv /\ [Next]_vars => [Rank' < Rank]_vars
  <2> SUFFICES ASSUME IInv, Next PROVE Rank' < Rank
    OBVIOUS
  <2>1. MaxRetries \in Nat /\ attempt \in 0..MaxRetries
    BY RetryAssumption DEF IInv, TypeOK
  <2>2. Ahead[phase] \in 0..6 /\ Ahead[phase]' \in 0..6
    <3>1. phase \in Phases /\ phase' \in Phases
      BY NextInvariant DEF IInv, TypeOK
    <3> QED BY <3>1 DEF Phases, Ahead
  <2>3. CASE Retry
    <3>1. attempt' = attempt + 1 /\ Ahead[phase] = 2 /\ Ahead[phase]' = 4 /\ UNCHANGED cancelled
      BY <2>3 DEF Retry, NextAttempt, Ahead
    <3> QED BY <2>1, <3>1 DEF Rank
  <2>4. CASE Cancel
    <3>1. ~cancelled /\ cancelled' /\ UNCHANGED <<attempt, phase>>
      BY <2>4 DEF Cancel
    <3> QED BY <2>1, <2>2, <3>1 DEF Rank
  <2>5. CASE Host /\ ~Retry
    <3>1. UNCHANGED <<attempt, cancelled>> /\ Ahead[phase]' < Ahead[phase]
      BY <2>5
      DEF Host, Validate, Refuse, Admit, Attempt, Judge, StopWaiting, Classify, Ahead
    <3> QED BY <2>1, <2>2, <3>1 DEF Rank
  <2> QED BY <2>3, <2>4, <2>5 DEF Next
<1> QED BY <1>1, <1>2, Invariance, PTL DEF Spec
=============================================================================
