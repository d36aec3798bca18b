---------------------------- MODULE ProviderCall ----------------------------
(***************************************************************************)
(* One core.openaiApi call.  The grant's models are normalized             *)
(* (src/openaillm/settings.go) and published (registration.go), the        *)
(* kernel's Validator (external) holds the call to them and shows a human  *)
(* the model it runs on; the handler (handler.go) settles the model,       *)
(* checks the request and classifies the outcome, and the provider client  *)
(* (src/openaillm/client.go) sends it, tries again and waits in between.   *)
(* internet.Client is the HttpClient module's; here it is one attempt that *)
(* ends in a response or an error.  The provider and the clock are         *)
(* external.  The caller may cancel at any moment, also between the end of *)
(* an attempt and the looks the code takes at its context.                 *)
(***************************************************************************)
EXTENDS Naturals

CONSTANTS
    Operations,   \* the calls in play: [post, fits, model, other]
    Models,       \* the models, as they are without space around them
    Texts,        \* the texts a call may give as its model, Models and blanks too
    Trimmed,      \* strings.TrimSpace: [Texts -> Models and NoModel]
    NoModel,      \* no model, and the empty text
    MaxRetries    \* max_retries

ASSUME RetryAssumption ==
    /\ MaxRetries \in Nat
    /\ Models \subseteq Texts /\ NoModel \notin Models
    /\ Trimmed \in [Texts \cup {NoModel} -> Models \cup {NoModel}]
    /\ \A m \in Models \cup {NoModel} : Trimmed[m] = m
    /\ Operations \subseteq [post : BOOLEAN, fits : BOOLEAN, model : Texts \cup {NoModel},
                             other : Texts \cup {NoModel}]

VARIABLES
    settings,   \* the grant's models: [allowed, default]
    operation,  \* is the call a POST, do its args fit, what are its "model" and
                \* a key that is "model" but for its case
    shown,      \* the model the approval prompt shows
    model,      \* the model that is sent
    phase,      \* where the call is
    attempt,    \* retries made so far
    last,       \* how the latest attempt ended
    cancelled,  \* the caller's context is done
    outcome,    \* what the handler returned
    leftAt,     \* history: the attempt under way when the caller cancelled
    late        \* history: the context was done when an attempt was judged

vars == <<settings, operation, shown, model, phase, attempt, last, cancelled, outcome, leftAt, late>>

\* How an attempt ends: the client refuses before it sends (the allowlist, a
\* bound) or on a redirect, the network fails with the request lost or
\* received, or there is a response.
Refusals == {"refused_unsent", "refused_redirect"}
NetworkErrors == {"lost", "received"}
Responses == {"ok", "not_json", "too_long", "client_error", "busy", "server_error"}
Endings == Refusals \cup NetworkErrors \cup Responses
Phases == {"validate", "check", "send", "judge", "wait", "classify", "done"}
Outcomes == {"none", "result", "refused", "invalid_args", "transient", "caller"}

Settings == [allowed : SUBSET Models, default : Models \cup {NoModel}]

\* Variant of SettingsRefuse: the default is not held to the list.
DefaultUnchecked(s) == FALSE

\* normalizeSettings: a call that names no model runs on the default.
SettingsRefuse(s) == s.default # NoModel /\ s.allowed # {} /\ s.default \notin s.allowed

Init ==
    /\ settings \in {s \in Settings : ~SettingsRefuse(s)}
    /\ operation \in Operations
    /\ shown = NoModel
    /\ model = NoModel
    /\ phase = "validate"
    /\ attempt = 0
    /\ last = "none"
    /\ cancelled = FALSE
    /\ outcome = "none"
    /\ leftAt = 0
    /\ late = FALSE

\* allowModels: the published schema lists the models, when the grant does.
SchemaAdmits(o) ==
    ~o.post \/ settings.allowed = {} \/ o.model = NoModel \/ o.model \in settings.allowed

Or(m, default) == IF m = NoModel THEN default ELSE m

\* modelPrompt: encoding/json fills the field from a key of any case, and the
\* later of two.
Shown(o) ==
    {Or(Trimmed[m], settings.default) :
        m \in IF o.other = NoModel THEN {o.model}
              ELSE {o.other} \cup IF o.model = NoModel THEN {} ELSE {o.model}}

\* External: the Validator refuses the call, or it is shown and goes on to the
\* handler.
Validate ==
    /\ phase = "validate"
    /\ IF SchemaAdmits(operation)
       THEN /\ phase' = "check"
            /\ shown' \in IF operation.post THEN Shown(operation) ELSE {NoModel}
            /\ UNCHANGED outcome
       ELSE phase' = "done" /\ outcome' = "refused" /\ UNCHANGED shown
    /\ UNCHANGED <<settings, operation, model, attempt, last, cancelled, leftAt, late>>

Cancel ==
    /\ phase \notin {"validate", "done"} /\ ~cancelled
    /\ cancelled' = TRUE
    /\ leftAt' = attempt
    /\ UNCHANGED <<settings, operation, shown, model, phase, attempt, last, outcome, late>>

\* The model a call runs on: its own "model", else the default.
ModelOf(o) == Or(Trimmed[o.model], settings.default)

\* The handler checks a POST's size and that it has a model; a GET is sent as
\* it is.
Admissible(o) == ~o.post \/ (o.fits /\ ModelOf(o) # NoModel)

Refuse ==
    /\ phase = "check" /\ ~Admissible(operation)
    /\ phase' = "done"
    /\ outcome' = "invalid_args"
    /\ UNCHANGED <<settings, operation, shown, model, attempt, last, cancelled, leftAt, late>>

Admit ==
    /\ phase = "check" /\ Admissible(operation)
    /\ phase' = "send"
    /\ model' = IF operation.post THEN ModelOf(operation) ELSE NoModel
    /\ UNCHANGED <<settings, operation, shown, attempt, last, cancelled, outcome, leftAt, late>>

\* internet.Client.Do; under a context that is done an attempt is not sent or
\* is cut off, and either way ends in an error.
Attempt(ending) ==
    /\ phase = "send"
    /\ cancelled => ending \in {"refused_unsent"} \cup NetworkErrors
    /\ phase' = "judge"
    /\ last' = ending
    /\ UNCHANGED <<settings, operation, shown, model, attempt, cancelled, outcome, leftAt, late>>

Answered == last \in {"ok", "not_json"}

\* Variant of Retryable: any bad status is tried again.
AnyErrorRetries == last \in Refusals \cup NetworkErrors \cup {"client_error", "busy", "server_error"}

\* Any error of the client, 429 and 5xx; a response over its bound is none.
Retryable == last \in Refusals \cup NetworkErrors \cup {"busy", "server_error"}

\* Variants of RetriesSpent: one retry too few; one too many.
SpentEarly == attempt + 1 >= MaxRetries
SpentLate == attempt > MaxRetries

RetriesSpent == attempt >= MaxRetries

\* Variant of GivesUp: the context is only looked at in the wait.
GivesUpOnVerdicts == Answered \/ ~Retryable \/ RetriesSpent

GivesUp == Answered \/ ~Retryable \/ RetriesSpent \/ cancelled

\* What Do does with an attempt: return, or wait before the next.
Judge ==
    /\ phase = "judge"
    /\ phase' = IF GivesUp THEN "classify" ELSE "wait"
    /\ late' = cancelled
    /\ UNCHANGED <<settings, operation, shown, model, attempt, last, cancelled, outcome, leftAt>>

\* Variant of NextAttempt: the count is not kept.
SameAttempt == attempt

NextAttempt == attempt + 1

\* time.After fires; when the context is done too, select may pick either.
Retry ==
    /\ phase = "wait"
    /\ phase' = "send"
    /\ attempt' = NextAttempt
    /\ UNCHANGED <<settings, operation, shown, model, last, cancelled, outcome, leftAt, late>>

StopWaiting ==
    /\ phase = "wait" /\ cancelled
    /\ phase' = "classify"
    /\ late' = TRUE
    /\ UNCHANGED <<settings, operation, shown, model, attempt, last, cancelled, outcome, leftAt>>

\* Variant of Verdict: the error text is taken for an answer of the provider.
EveryErrorIsTransient == IF last = "ok" THEN "result" ELSE "transient"

\* Variant of Verdict: an attempt that timed out is taken for the caller's context.
TimeoutIsTheCallers ==
    CASE last = "ok" -> "result"
      [] ~Answered /\ (cancelled \/ last = "lost") -> "caller"
      [] OTHER -> "transient"

\* providerResult
Verdict ==
    CASE last = "ok" -> "result"
      [] ~Answered /\ cancelled -> "caller"
      [] OTHER -> "transient"

Classify ==
    /\ phase = "classify"
    /\ phase' = "done"
    /\ outcome' = Verdict
    /\ UNCHANGED <<settings, operation, shown, model, attempt, last, cancelled, leftAt, late>>

Host ==
    \/ Validate
    \/ Refuse
    \/ Admit
    \/ \E e \in Endings : Attempt(e)
    \/ Judge
    \/ Retry
    \/ StopWaiting
    \/ Classify

Next == Cancel \/ Host

Spec == Init /\ [][Next]_vars

\* Attempts time out and timers fire; the caller need not cancel.
FairSpec == Spec /\ WF_vars(Host)

----------------------------------------------------------------------------
\* Correctness.

\* Every variable has its type, and no call retries more than it may.
TypeOK ==
    /\ settings \in Settings
    /\ shown \in Models \cup {NoModel} /\ model \in Models \cup {NoModel}
    /\ operation \in Operations
    /\ phase \in Phases
    /\ attempt \in 0..MaxRetries
    /\ last \in Endings \cup {"none"}
    /\ cancelled \in BOOLEAN /\ late \in BOOLEAN
    /\ outcome \in Outcomes
    /\ leftAt \in 0..MaxRetries

\* The human who approves a model call is shown "which model it runs on"
\* (registration.go, modelPrompt), and where the grant lists its models it is one
\* of them: what is sent is allowed, and is what was shown, whatever the call
\* says and the default is; but for a call that also has a "model" key in other
\* letter case, which only the prompt reads.
ModelIsAllowedAndShown ==
    model # NoModel =>
        /\ settings.allowed # {} => model \in settings.allowed
        /\ operation.other = NoModel => shown = model

\* Once the driver has an answer of the provider, or its refusal of the request as
\* it stands, the request is never sent again.  (One whose answer was lost on the
\* way is: the provider may have served that one too.)
VerdictsAreFinal ==
    [][attempt' # attempt => last \notin {"ok", "not_json", "too_long", "client_error"}]_vars

\* A call that gives up on the provider has made every retry the grant allows,
\* unless the provider's answer was final or the caller left.
RetriesAreMade ==
    outcome = "transient" =>
        \/ attempt = MaxRetries
        \/ last \in {"not_json", "too_long", "client_error"}
        \/ cancelled

\* "No journaled outcome is produced" for a call cut short by its caller
\* (handler.go, providerResult): when the context was done by the end of the
\* last attempt or in the wait after it, the guest sees no failure, and sees a
\* result when the provider had answered (an answer that is no JSON is a failure
\* all the same).
CancelledIsNoFailure ==
    phase = "done" /\ late /\ last # "not_json" =>
        outcome = IF last = "ok" THEN "result" ELSE "caller"

\* A caller that cancels waits for one more attempt at most: the one that the
\* timer of the wait may start when it fires as the context is done.
CancelEndsTheRetries == cancelled => attempt <= leftAt + 1

Promised ==
    INSTANCE DriverCall WITH
        begun <- last # "none", left <- cancelled,
        answer <- CASE outcome = "invalid_args" -> "refused"
                    [] outcome = "caller" -> "nothing"
                    [] OTHER -> outcome

\* "The context-cancellation branch returns an error rather than a result, so no
\* journaled outcome is produced" (handler.go): a provider call keeps what every
\* driver promises of a call, through any number of attempts: it is refused only
\* before the first, and left without an outcome only by its caller.
ImplementsDriverCall == Promised!Spec

\* The call ends, against a provider that is always busy.
CallReturns == <>(phase = "done")
=============================================================================
