# A verification of aurora-dispatchers in TLA+

`aurora-dispatchers` is a Go library of capability drivers. An agent, which is a
Wasm program with no authority of its own, sends a *syscall*; a runtime checks
the call against the agent's grants, records it in a journal and hands it to the
driver that serves it: an HTTP client (`core.internet`, `core.httpTemplate`), a
session store (`core.scratch`), a runner of allowlisted commands
(`core.command`) or an LLM provider (`core.openaiApi`). The drivers are in this
repository. The runtime (monitor, journal, approval, capability table) is not: it
appears in the models as the drivers use it, and is marked *external* in
`PROJECT.json`.

Contents: [inventory](#inventory), [modules](#modules),
[runs](#runs-and-their-bounds), [fairness](#fairness), [proofs](#proofs),
[findings](#findings), [abstractions](#abstractions-and-assumptions),
[plan](#plan).

## Inventory

| Component | State it keeps | Operations | Interacts with | What is hard |
| --- | --- | --- | --- | --- |
| `scratch/` handler and store | one session's map from key to value and labels (`MapStore.values`) | `get`, `put`, `store`, `list`, `search` | the monitor (the taint goes in by the context, labels come out on results), the journal (a call with an intent and no completion runs again) | a save is a `Get` and then a `Put`; writes run at least once; a failed write may have landed; key names carry data |
| `scratch/` registration | none (one policy per grant) | `Configure` | registry, monitor | the policy of a write is the union over the grants |
| `internet/` client and policy | the rules; per request the credential binding in the context | `Do`, `CheckRedirect`, the dial guard, `Policy.Check` | `net/http`, DNS, servers | chains of redirects that change method, scheme and host, while net/http copies the first request's headers again at each hop |
| `internet/` handler | the injections | `inject`, `DispatchCall` | client, monitor | header names in several spellings; labels on failures |
| `internet/` registration | none | `parseInternetConfig`, `internetMethodPolicies`, `ValidateInjection`, `buildInjections` | registry, secrets | several permissions of one method fold into one policy; which credentials a manifest may bind to which origin |
| `openaillm/` client and handler | the attempt count of a call | `provider.Do`, `DispatchCall`, `providerResult` | `internet.Client`, timers | retries, final answers and cancellation meet in one test |
| `openaillm/` registration and settings | none | `Configure`, `normalizeSettings`, `allowModels` | registry, secrets, Validator, approver | the default model and the allowed models agree; the prompt and the handler read the model each in its own way |
| `command/` execution | one process group, two output buffers | `execCommand`, `boundedBuffer.Write`, `DispatchCall` | the operating system, `os/exec` and its goroutines | the exit, the deadline, the kill, held pipes and the caller race |
| `command/` slots and registration | none | `validate`, `resolve`, `substitute`, `compile`, `normalizeCommandRule` | registry, Validator | the declaration, the published schema and the check agree |
| `httptemplate/` handler and registration | none | `render`, `decodeParams`, `substituteJSON`, `parseTemplateConfig` | `internet.Client` | a value stays in its slot; an absent value; integers through floats |
| `registry/` | a table under construction | `Build`, `ValidateConfig`, `ParseOperationGrants`, `Normalized`, `WithEgressFloor`, `Secret.Resolve` | every registration, the capability table | all or nothing; nothing but what was granted |

What makes each component correct:

* **scratch**: labels follow data through any sequence of calls; a saved value
  never changes; running a write again is harmless; a write meets every grant of
  the compartment; a reply of `search` is the first hits and says when it is not
  all of them.
* **internet**: every request that goes out, redirects included, is allowed for
  its own method and URL; a credential stays where it is bound, wins over the
  guest's header and is named on every result it had a part in.
* **openaillm**: a call runs on a model that the grant allows and the approver was
  shown; it retries as often as the grant says, never after an
  answer it has received, and journals no failure for a caller that left.
* **command**: the published schema and the driver's check agree; no value becomes
  a flag, and an empty argument is had on purpose only; what was approved is what
  runs; the call returns whatever the command does; a stopped command is never
  reported as finished and takes its group with it; the output says when it was cut.
* **httptemplate**: no value leaves its slot: it adds no segment to the path and ends
  none (what a value of dots does is a [finding](#findings)); every parameter
  arrives whole, as its own type, where the operation has it; the credential of one
  operation stays with its origin.
* **registry**: a built table is the grant, with no policy weaker than written
  and the defaults closed; a build that fails returns nothing of a table.

The hazards of the code, each at its line and with the properties that would
catch it going wrong, are in `PROJECT.json`.

## Modules

| Module | Models | Kind |
| --- | --- | --- |
| `ScratchKeys` | keys, `checkKey`, the key of a saved value, prefixes | operators |
| `SessionMemory` | what `core.scratch` promises: one labelled memory with single-step operations | abstract specification |
| `Scratch` | `scratch/handler.go` over `scratch/store.go` with the monitor and the journal around them | component |
| `Grep` | `grepValue` and `truncateBytes`: the scan behind `search` | algorithm, a loop turn a step |
| `CommandSlots` | a `core.command` rule from the manifest to the argument vector: `compile`, `normalizeCommandRule`, the published schema, `validate`, `resolve`, `substitute`, `prompt` | component |
| `CommandExec` | `execCommand`, `boundedBuffer`, the result of `Command.DispatchCall`, with the command's processes and os/exec | component |
| `NetGrants` | what a network manifest allows and holds: `NewRule`, `Policy.Check`, `LoopbackHost`, `ValidateInjection`, `ResolveInjectedHeaders`, and what the three network drivers refuse to configure | operators |
| `HttpClient` | a request of `core.internet`, `core.httpTemplate` or `core.openaiApi` through `inject`, `Client.Do`, `CheckRedirect` and the dial guard; extends `NetGrants` | component |
| `Template` | a `core.httpTemplate` operation from the manifest to the request: `parseTemplateConfig`, the published schema, `decodeParams`, `render`, `expandString`, `substituteJSON` | component |
| `ProviderCall` | `normalizeSettings`' models, `allowModels`, `modelPrompt`, `operation.DispatchCall`, `provider.Do`, `providerResult` | component |
| `GrantTable` | `Registry.Build` and the policy each driver's `Configure` publishes | component |
| `GrantedTable` | what `Registry.Build` promises: the table of a manifest, whole and in one step, or a refusal for a fault of the manifest | abstract specification |
| `DriverCall` | what the drivers that reach outside the host promise of one call | abstract specification |
| `ScratchProofs`, `HttpClientProofs`, `CommandExecProofs`, `CommandSlotsProofs`, `ProviderCallProofs`, `GrepProofs`, `GrantTableProofs`, `TemplateProofs` | theorems about the module each is named for | proofs |
| `MC*` | small instances for TLC | model checking |

A definition named *"Variant of X"* in a comment is X with a plausible mistake
(a missing reset, an off-by-one, a dropped guard). No specification uses a variant.
`PROJECT.json` pairs each with the property that it breaks, and so records that the
property depends on the line of code.

### Scratch

`values` is the store. Each process of the session has a `pc`: *waiting*, then
*thinking* (in the guest), *gated* (held for approval), *intent* (journaled, not
served), *saving* (between the two halves of `store`), *served* (the handler
returned; the completion is not journaled yet) and *exited*.

| Action | Code |
| --- | --- |
| `Issue`, `Approve`, `Deny` | external: the monitor checks the entry that `Registration.Configure` published; a held call needs a person |
| `Refuse` | the `ErrnoInvalidArgs` returns of the five handlers (`checkKey`, `put` under `io/`, a bad pattern) |
| `Read` | `get`, `list`, `search`, with `result.WithLabels` |
| `Put` | `put`: `Store.Put` with the process's taint |
| `LookUp`, `Save` | `store`: `Store.Get` of the labels there, then `Store.Put` of the union |
| `StoreFails`, `WriteLandsAndFails` | `storeFailure`; a `Store` is an interface, so a failed write may have been made |
| `Complete` | external: the journal takes the completion, the monitor adds the labels |
| `Interrupt` | external: the host crashes, or the context is cancelled, between intent and completion; the call runs again |

`origin` and `exposure` are history variables. They record what a value and a
process were *really* derived from, whatever labels they carry, so
`NoLaundering` compares the labels with the truth rather than with themselves.
`SessionMemory` is implemented under a refinement mapping that compacts the
stored texts (two spacings of one JSON value are the same value to a reader).

### CommandSlots and CommandExec

A `core.command` call is modelled in two parts. `CommandSlots` takes a rule through
`Configure` (what `normalizeCommandRule`, `compile` and the secrets refuse), publishes
it (`Admits` is the JSON schema, slot by slot), and takes a call with any slots and
values through the Validator and the approver, or straight to the driver (`ByHand`), to
`resolve` and `substitute`. A text is a sequence of tokens and a placeholder is one of
them; a regular expression stands for the set of values that it matches anchored. That
the schema and the driver may differ is the point: `Published` and `Valid` are
translated each from its own function, and `SchemaAndDriverAgree` relates them.

`CommandExec` is what happens to the arguments. `run` is where `execCommand` and `cmd.Run` are; `leader` and `kids` are the
command's processes (in the group or out of it, holding the pipes or not);
`watcher` is os/exec's goroutine on the context. The command does as it pleases:
it exits in any way, forks, leaves its group, writes and lets go of the pipes.
`Cancel` kills the group, as `Setpgid` and `Kill(-pid)` do; it is the watcher's, and
`TakeWatch` stands the watcher down once the leader is reaped. `Verdict` is the switch
after `cmd.Run`, `Answer` is the end of `DispatchCall`. `Deadline` and
`CallerLeaves` may fall between any two steps.

### DriverCall

The command runner, the HTTP client and the provider each say in comments of their own
what an errno of theirs means. `DriverCall` is what they have in common, as a
specification of three variables: a call has *begun* something (a process, a request,
an attempt), its caller has *left*, and its *answer*. A result is of something begun; a
refusal (the errnos that no retry will fix) says that nothing was; anything else is
transient; only a caller that has left gets no outcome, so that none is journaled. Each
of the three modules implements it (`ImplementsDriverCall`) under a mapping of its own:
what was begun is `leader # "none"`, `sent # {}` and `last # "none"`.

### NetGrants and HttpClient

The three network drivers share one client. `NetGrants` has a manifest be a driver, its
capabilities and its switches, and says for each driver what it refuses and which rules
and credentials it makes of the rest; `HttpClient` starts from any manifest that is not
refused, so that no property depends on an injection or a rule that cannot be declared.
`Inject` is `core.internet`'s, for a guest's own request; `Attach` is the other two's,
whose request has the host's headers only. The template driver binds its headers to the
operation's origin; the provider binds none, for its allowlist has one origin. A
template's labels are on its entry and are stamped by the monitor (external). The caller
may leave from the first look at the context on (`CallerLeaves`), and what `CheckRedirect`
refuses of a request that is out is a failure on the way (`RedirectStatus`), not a denial.

A call goes *inject*, *check*, *send*, *answer* and back to *send* for each
redirect. A header of a hop is absent, the guest's, or the host's. `Carried(u)` is
the set of header maps a redirected request may have: net/http builds it from the
*first* request's headers, may withhold some, and `CheckRedirect` deletes the
injected names when the hop leaves the origin. `sent` is the history of what went
out. A name may resolve to a public or to a private address at each hop.

### Template

`Configure` is `normalizeOperation` and the base URL; `Admits` is the closed schema that
`operationParamSchema` and `OperationBranch` publish; `Decode` takes every integer through
a float64 (`Float`, any rounding that is exact up to `Exact`) and back into an int64
(`AsInt64`: out of range, either end); `Render` is one step. A text is a sequence of
tokens that know whether they are percent-encoded, so that a separator a value brings can
be told from one of the template's. `Delimiters` are the tokens that end a segment of a path,
as RFC 3986 has them; `Reserved` are those that `url.PathEscape` encodes, which are more;
and a segment of one dot or two is one that the server resolves away (`HasDotSegment`),
whatever `PathEscape` thinks of dots. A JSON template is the map from its leaves to what
they hold: `substituteJSON` walks objects and arrays and keeps their keys. The request
that is rendered, its origin and its credential are `HttpClient`'s to send.

### ProviderCall, Grep, GrantTable

`ProviderCall` settles the model (the grant's list and default, the call's own, and a
second key that differs in letter case, which `encoding/json` gives to the prompt and
not to the handler), has an attempt end in one of ten ways, and lets the caller cancel
between any two looks at the context. `Grep` takes a turn of the loop per step.
`GrantTable` takes a grant per step; `Family` is what the driver's `Configure` makes of a
config, `ConfigFails` is when its parse refuses. `GrantedTable` gives the same table in
one step and by other means: `Speaking(g, o)` are the permissions that speak for an
operation, and its entry is what they add up to. The mapping shows the table from the
moment `Build` returns, with an error or without, so a table that came half built with an
error would be seen. Nothing of it is read off the drivers' code; that five drivers, each in its own way, come to it is `ImplementsGrantedTable`.

## Runs and their bounds

| Run | What it asks | Bounds, and why they are enough |
| --- | --- | --- |
| `MCScratch` | all properties of the session store, and that it implements `SessionMemory` | 2 processes, 2 labels, 3 calls, 1 interruption; 1 content in 2 spacings; a plain key, the saved key named by a guest, the empty key. The hazards need at most a writer, a second writer or saver, and a reader, so three calls; one interruption puts a call after its own write. `put`'s own grant forbids nothing and `store`'s forbids a label, so only the union guards `put`. |
| `MCCommandExec` | the races of one command, and that it keeps `DriverCall` | 2 children, 2 streams, a limit of 2 bytes, chunks of 1 and 2 bytes, 3 bytes a stream. One child in the group and one out of it, one that holds the pipes and one that does not, are all pairs the code can tell apart; a chunk of 2 can straddle the limit. |
| `MCHttpClient` | redirects and credentials, for the three network drivers, and that a request keeps `DriverCall` | 19 manifests, 11 of them unsound in one way each; 8 URLs (the bound host over TLS and in the clear, another allowlisted host, a loopback name and a bracketed loopback literal, a host not allowlisted, a URL with credentials, a foreign scheme); 2 methods, 3 headers in 4 spellings, a cap of 3. A chain of three leaves the origin, and comes back to it. |
| `MCCommandSlots` | from a rule to an argument vector | rules of one slot (7 argument vectors by 27 declarations, held for approval or not) and of two (3 vectors by 6 pairs), and one rule unsound in each other way; 8 values: nothing, words one of which contains another, a flag, a dash inside, a control character, text that reads like a placeholder. Every test of `compile` and `validate` has a value on each side. |
| `MCTemplate` | from an operation to a request | 5 paths by 5 bodies by 11 declarations of a parameter, operations of two parameters (side by side in one segment, too), and ones that are refused; 16 values: empty and plain texts, one dot and two, separators, what reads like a placeholder, a truth value, and integers below, at and above what a float holds exactly (8 here) and what an int64 holds (31 here). |
| `MCGrep` | the reply of a search | every value of 1 to 4 lines of 0, 2 or 5 bytes; caps of 0 (the default, 3), 1 and 2; context 0 and 1; 5 bytes a match, 8 a reply. Both caps are met at, before and after the last line. |
| `MCProviderCall` | retries and cancellation, and that a call keeps `DriverCall` | 2 retries (the default), all ten endings at each attempt, cancellation at any point; 2 models, every list and default of them, calls that name one, name one with space around it, name a blank or none, and have the key in another case besides. |
| `MCGrantTable` | building the table, and that it implements `GrantedTable` | 12360 manifests of one or two grants over all five drivers, each with up to two permissions, among them a forged label, a missing secret, an unknown operation, a duplicate and a registration that answers for another syscall. Two permissions are the fewest that fold, two grants the fewest that collide. |
| `MCCommandExit`, `MCGrepText`, `MCHttpMethods`, `MCTemplatePath` | one statement of a comment or a test each, `MCCommandExit` two at once | the bounds of the run they share a module with; each ends in a counterexample, see [findings](#findings) |

The bounds in the specifications themselves are constants with a comment that says
so: `MaxCalls` and `MaxCrashes` in `Scratch`, `MaxChunk` and `MaxWritten` in
`CommandExec`, `MaxLines`, `Sizes` in `Grep`. `HttpClient.via` counts to one more
than the cap and stays there; the code never lets it past the cap, which is part of
`TypeOK`. Deadlock is not checked anywhere because every one of these systems ends:
a call returns, a build is done, the last guest exits.

What the runs show, property by property, is stated in a comment above each
definition. The ones that carry most:

* `Scratch!NoLaundering`: what a value or a process derives from is always a
  subset of the labels it carries.
* `Scratch!ImplementsSessionMemory`: two-step saves, late journaling, failed
  writes and writes that run twice look like single atomic steps.
* `Scratch!RedriveIsHarmless`: the promise of `store.go`'s package comment. It
  depends on the session running one process at a time; the variant
  `StartAnytime`, in which two run together, breaks it.
* `CommandExec!OnlyTheEndedLeaveChildren`, `KilledIsNoVerdict`, `CallReturns`: a
  command that the host killed is dead with its whole group, is not passed off as
  finished, and never holds the call. Children are left behind only by a leader that
  ended by itself, before a deadline that then kills nothing (the second of the
  [findings](#findings)).
* `CommandSlots!SchemaAndDriverAgree`, `ArgumentsAreTheAuthors`: the two checks of a
  value, one in a schema and one in Go, admit the same values but for dashes and
  control characters; a leading dash or an empty argument is its author's.
* `HttpClient!CredentialNeverStrays`: from any driver and over any chain of redirects a
  host-held header goes only to the host of a capability that holds it and applies, over
  TLS or to loopback.
* `Template!ValuesStayInTheirSlots`, `ParametersArrive`: no value adds a segment to the
  path or ends one, nor leaves a segment of dots unless it is dots alone or empty, and
  nothing of a value is lost on its way into the request.
* `ProviderCall!ModelIsAllowedAndShown`: a default that no schema sees is held to the
  list, and what is sent is what was shown.
* `ProviderCall!VerdictsAreFinal`: a request whose final answer was received is never
  sent again. One whose answer was lost is, though it may have been served.
* `GrantTable!PermissionsAddUp`: no permission weakens another, in any order; and
  `ImplementsGrantedTable`: nor makes another stricter than it is, in a table that comes
  whole or not at all, an error in the middle of a build included.
* `ImplementsDriverCall`, of three modules: whatever races in a call, an outcome means
  to the guest what it means from every driver.

## Fairness

* `Scratch`: `WF_vars(Serve(p))`. The host serves a call it has taken and
  journals its result. Nothing is assumed of guests, of people who approve, or of
  when crashes come. `CallsComplete` needs the number of crashes to be finite
  (`MaxCrashes`), as any retried call does.
* `CommandExec`: `WF_vars(Host) /\ WF_vars(Deadline)`. The host's goroutines run
  and time passes. Nothing is assumed of the command: `CallReturns` holds for one
  that ignores everything and leaves children that hold its output for ever.
* `HttpClient`: `WF_vars(Next)`. Every exchange has a timeout
  (`http.Client.Timeout`), so a call that hangs takes `Fails`.
* `ProviderCall`: `WF_vars(Host)`. Attempts time out and timers fire; the caller
  need not cancel.
* `CommandSlots`, `Template`, `Grep`, `GrantTable`: none; only safety is stated.

## Proofs

Eight modules hold proofs, one for each component. Each proves an inductive invariant
`IInv` (theorem `Invariance`) and draws its theorems from it; all are about every value of
the constants that the named assumptions of the module allow, which TLC evaluates in the
module's run.

### The session store

`ScratchProofs` proves, for every set of processes, labels, keys, texts and grants,
and any bound on calls and crashes:

| Theorem | States |
| --- | --- |
| `TypeCorrect` | `Spec => []TypeOK` |
| `Invariance` | `Spec => []IInv`, the inductive invariant |
| `SavedContent` | `Spec => []SavedHoldsItsContent` |
| `LabelsFollowTheData` | `Spec => []NoLaundering` |
| `SavedValuesNeverChange` | `Spec => SavedNeverChanges` |
| `RedriveHarmless` | `Spec => RedriveIsHarmless` |
| `GrantsRespected` | `Spec => WritesRespectEveryGrant` |
| `Refinement` | `Spec => ImplementsSessionMemory` |
| `CallsAreBounded` | a call is served again once for each interruption, and for nothing else |

They rest on the assumptions named in `ScratchKeys` and `Scratch`: compacting is
idempotent (`CompactAssumption`), contents in play do not collide in the 64 bits of
the digest that a key keeps (`DigestAssumption`), a grant lists an operation once
(`GrantsAssumption`, which `ParseOperationGrants` enforces), and the sentinels are
no data (`SentinelAssumption`). TLC evaluates each of them in `MCScratch`.

The invariants are not inductive as they stand. `IInv` adds:

* `CallShape`: which call is where. Only a `store` is between two halves, and a
  landed write is one that was not refused.
* `OneActive`: at most one process of the session is past *waiting* and before
  *exited*. Without it a second process could change a label set between the two
  halves of a save, or a value between a write and the same write run again.
* `LabelInv`: `NoLaundering`, and what it needs half way through a call. The
  labels that `LookUp` found cover the origin of what is still there, and a result
  not journaled yet carries labels for its sources.
* `LandedStays`: what a landed write left is exactly what writing it again would
  leave. This is `RedriveIsHarmless` one step early.
* `WritesAreCleared`: a call past its gate is approved, or its process carries
  nothing that any grant forbids.

Each part has a lemma per action that can disturb it; the temporal theorems
combine them. The refinement maps `Put` to the abstract write, `Save` to the abstract
save, `Complete` after a read to the abstract read (as of the moment it completes:
no other process can have changed the store since), and every other step to a
stutter or to an observation of labels already held.

### The other components

| Theorem | States | What its invariant adds |
| --- | --- | --- |
| `HttpClientProofs`: `TypeCorrectness`, `HopsAreAllowed`, `CredentialsStayHome`, `HostWins`, `CredentialsAreNamed`, `KeepsThePromise` | `TypeOK`, `EveryHopIsAllowed`, `CredentialNeverStrays`, `HostHeaderWins`, `UsedCredentialIsNamed`, `ImplementsDriverCall` | `Attached`: what the driver put on the first request, and that its origin may carry it (`MayCarry`, from `ValidateInjection` and the like); `HopIsSound`: the hop under way is allowlisted and has no header that the first request lacks, the host's only where it may ride; `Counted`: requests are counted before they are answered; `AnswersAreOfRequests` |
| `CommandExecProofs`: `TypeCorrectness`, `OutputIsSound`, `StoppedIsNoResult`, `KillsLeaveNoChildren`, `FailuresAreExplained`, `KeepsThePromise` | `TypeOK`, `OutputIsFaithful`, `KilledIsNoVerdict`, `OnlyTheEndedLeaveChildren`, `FailureTellsWhy`, `ImplementsDriverCall` | `LeaderFollowsTheRun`; `WatcherFollowsTheRun`; `StopIsAnError`: what the watcher did reaches `Run`'s error; `GroupIsGone`: after the signal no process is in the group, for only the leader spawns; `EndsHaveCauses`: a leader that was killed was killed by the watcher; `OutcomeFollowsTheRun`: what each outcome says of the leader, the clock and the caller |
| `CommandSlotsProofs`: `SchemaIsTheCheck`, `NoValueBecomesAFlag`, `ApprovalIsOfTheRun` | `SchemaAndDriverAgree`, `ArgumentsAreTheAuthors`, `ApprovedIsWhatRuns` | the rule was sound when it was offered; the Validator's word is kept; the prompt shown is that of the call; what ran is the prompt of a call that resolves |
| `ProviderCallProofs`: `TypeCorrectness`, `ModelIsSound`, `RetriesAreAllMade`, `CancellationIsClean`, `CancellationIsPrompt`, `AnswersAreFinal`, `KeepsThePromise` | `TypeOK`, every safety and action property of `ProviderCall`, `ImplementsDriverCall` | `ModelIsSettled`: the schema admitted what the handler reads; `AttemptIsJudged`: only what may be retried waits; `NothingIsSent` before the call is admitted; `GivenUp`; `CancelIsSeen`: how far a cancelled call can be past the moment it was cancelled |
| `GrepProofs`: `TypeCorrectness`, `FirstHits`, `RepliesStayBounded` | `TypeOK`, `ReplyIsTheFirstHits`, `ReplyIsBounded` | the reply so far is the hits before the scan, in order; a scan that goes on has met neither cap, and one that returned says why |
| `GrantTableProofs`: `TypeCorrectness`, `BuiltGrantsAreSound`, `BuiltIsTheGrant`, `EveryPermissionHolds`, `DefaultsStayClosed`, `EntriesStayHome`, `TableIsTheManifest` | `TypeOK`, `OnlySoundGrantsBuild`, `TableIsTheGrant`, `PermissionsAddUp`, `DefaultsAreClosed`; entries are on the syscall of their grant; `ImplementsGrantedTable` | every grant so far was taken by its driver and has its entries in the table, and every entry is of the family of one of them; `FamiliesAreApart`: no two of them serve one operation; `HiddenIsAskedFor` |
| `TemplateProofs`: `NoValueLeavesItsSlot`, `EveryParameterArrives` | `ValuesStayInTheirSlots`, `ParametersArrive` | the call was admitted, its parameters were decoded one by one, the request was rendered from them; that a path gets no segment of dots is then a fact about expansion alone (`NoDotSegmentAppears`) |

`TypeOK` of `CommandExec`, `ProviderCall` and `GrantTable`, and `TableIsTheGrant`, which
`ImplementsGrantedTable` entails, are proved and in no run.

`CredentialsStayHome` is the one that a reader of the code should find least obvious. The
provider never binds its key to an origin, and `validateBaseURL` takes `http://[::1]`,
which `LoopbackHost` does not call loopback; no key goes out in the clear all the same,
because the same miss leaves the dial guard on, and it refuses the address
(`MayCarry`'s second half).

### Refinements

Five theorems say that a component implements an abstract specification (`Refinement`,
`TableIsTheManifest`, and `KeepsThePromise` in three modules, one per driver). Each has
the same shape: the initial states map to initial states, and under the invariant every
step is one of the abstract specification, or none of its own.

* `TableIsTheManifest`: only `Finish` and the four ways to fail are steps of
  `GrantedTable`. `Finish` needs the table to be *exactly* the promised one, so each
  driver's policy is proved equal to what the permissions add up to
  (`InternetPolicyIsExact`, by induction over the permissions that
  `internetMethodPolicies` folds; `ScratchPolicyIsExact`, `OtherPolicyIsExact`). A failure
  needs the converse: a grant that is refused, or an entry that is there already, is a
  fault that the manifest has (`FailureIsAFault`).
* `KeepsThePromise`: most steps stutter. What needs the invariant is the end: that a
  result is of a command that was started or a request that went out, that a refusal is
  not, and that a call without an outcome has no caller.

### How long a call can last

Liveness is out of the prover's reach, and what is hard about it is not. Each component that
claims to end has a *rank*, a natural number that `CallsAreBounded` (`ScansAreBounded` in
`GrepProofs`) proves to go down with every step of the host: `ProviderCall` takes at most
`3 * MaxRetries + 7` steps, the caller's own included, `HttpClient`
`2 * MaxRedirects + 4`, a command nine of the host's whatever the command, its children
and the clock do in between, and a call of `core.scratch` three for each time it is served.
For a command, which could hold its host, `NothingHoldsACall` proves the other half: from the
deadline on, or once the caller left, the host has a step to take until the call is done
(`HostCanStep` is `ENABLED Host` written out, guard by guard). With the fairness of
`FairSpec`, which says that it takes one, the call ends. That last inference, and the
liveness properties as they stand, are TLC's.

### How far the findings go

The [findings](#findings) say that statements of the repository do not hold as they are
written. A theorem for each says how much of it does:

* `CommandExecProofs!ExitStandsInTime`: of a command that was started, in a call whose
  deadline has not passed and whose caller is there when it returns, the exit status
  stands, also when a child holds the output past `WaitDelay`.
* `CommandExecProofs!KillsLeaveNoChildren`: a call leaves a process of its group behind only
  when the leader ended by itself and the watcher was stood down, so never when the leader
  was killed or the watcher sent its signal.
* `TemplateProofs!NoValueLeavesItsSlot`: the path of a request has a segment of dots that
  its template lacks only when a value of the path is made of dots alone, or is empty; no
  value with a separator, a word or anything else beside the dots gives it one.
* `GrepProofs!MatchesShowTheirLines`: a match shows some of its line whenever the context
  in front of it leaves room for one rune within the limit, so always when no context was
  asked for.
* `HttpClientProofs!CredentialsKeepTheirMethod`: a credential goes out under the call's
  own method, which its capability has, or under the GET that net/http makes of it.

`ProviderRequestsStayHome` states what the provider's comment says of its client: no
request of a provider call goes out to another origin than its endpoint's.

### Induction over data, and assumptions

Four of these modules are about data of any length: the arguments that `substitute` joins,
the texts that `expandString` expands, the permissions that `internetMethodPolicies` folds
and the bytes of a block of lines. Each is a recursive function or a `FlattenSeq`, and the
library's induction theorems, which take an operator, cannot be instantiated by the
installed provers. So the induction is done on sets: a set of naturals that is not empty
has a least element (`Least`, from the well-foundedness of `<`), so the set of lengths at
which a claim fails is empty. `TemplateProofs` turns this once into an induction over
texts, one token longer at a time (`SnocInduction`), and applies it to each thing that is
read off a text: its delimiters (`DelimitersOf`), its tokens, what is left of it when it
is decoded, and the dots it ends in. For the last, the induction carries how many dots
end the text since a separator (`Opens`) and whether such a segment was ended (`Closed`),
and that the expansion has no more of either than the template (`DotsWithin`).

What the proofs assume of the constants is what a manifest, a call and a host can be: a
text is a sequence of tokens and a value is typed (`TemplateAssumption`), a text a call
brings has no percent-encoded token yet (the escape is the path's own), `PathEscape`
encodes every delimiter and none of them, nor a dot, is a placeholder, an argument vector
is a sequence of texts (`SlotsAssumption`), a permission outside `core.internet` names one
operation (`GrantTableAssumption`, as the JSON has it), the sizes and caps are naturals
(`GrepAssumption`).

What stays with TLC is liveness (`CallsComplete`, `CallReturns`, `CallEnds`), since the
prover has no `ENABLED`. Type correctness of `CommandSlots` and `Template` is proved
(`TypeCorrectness` in each) and is in no run.

## Findings

Statements of the repository that its code disagrees with. Each is refuted by the
counterexample of a run; the first two by one behaviour of `MCCommandExit`, whose property
`EndedOrStopped` asks that at least one of the two hold.

1. `MCCommandExit`: *"The command ran, and its exit status stands — also when a
   child it left behind held the output open past WaitDelay"*
   (`command/command.go:334-335`). The switch looks at `ctx.Err()` after `cmd.Run`
   returned. A leader that ended by itself in time, but whose output a child held
   until the deadline passed, or that exited non-zero and was looked at just after
   the deadline, is reported as timed out, and the guest is invited to retry it.
2. `MCCommandExit` again: *"cancellation reaches the whole tree"*
   (`command/command.go:306-309`), and *"A command that outruns its deadline is killed,
   and so is the process tree it started — a child holding the output pipe must not
   outlive the call"* (`command/command_test.go:227-228`). Once `Wait` has reaped the
   leader it stands the watcher down, and the watcher is what calls `cmd.Cancel`. When the
   deadline passes, or the caller leaves, while a child of the group still holds the
   output, nothing is killed: the call is cut off by `WaitDelay`, says that it timed
   out, and leaves the child running. The test kills a leader that is still there.
3. `MCGrepText`: a match is *"the matching line, with any requested surrounding
   context, truncated if very long"* (`scratch/handler.go:82-83`). The block is cut
   from its end, so 512 bytes of context before the match leave nothing of the line.
4. `MCHttpMethods`: *"A method the injection does not list must not receive the
   credential, even on the bound host"* (`internet/inject_test.go:165-166`). After a
   302 on the same origin a POST becomes a GET and keeps the header, because
   `CheckRedirect` compares origins only. The GET itself meets the allowlist
   (`EveryHopIsAllowed` holds).
5. `MCTemplatePath`: *"Path and query placeholders are percent-encoded, so a value cannot
   traverse the path"* (`httptemplate/httptemplate_test.go:116-117`), and *"a value can
   never break out of its slot to alter the method, host, path, or JSON shape"*
   (`httptemplate/httptemplate.go:28-31`). `url.PathEscape` encodes separators and leaves
   dots as they are, so a value `..` for `/api/docs/{{id}}` goes out as `/api/docs/..`, which
   a server resolves to `/api/`. The method, the origin and the allowlist are untouched; a
   value with a separator in it, such as the test's `a/../secret`, stays one segment.

Disagreements noted without a run:

* *"It tries a call again after a network error, a 429 or a 5xx"*
  (`openaillm/client.go:34-35`). It also retries what its own client refused: a body over
  the bound once the model was added, a redirect that is not allowlisted. `ProviderCall` has
  both (`refused_unsent`, `refused_redirect`), and its properties hold with them.
* *"modelPrompt shows the human approving a model call which model it runs on"*
  (`openaillm/registration.go:162-163`). It decodes into a struct, so a key that is `model`
  but for its case fills it; the handler reads the key `model`. A call that has such a key
  may be shown as one model and run on another, which is always an allowed one.
  `ModelIsAllowedAndShown` leaves these calls out of what it says of the prompt. Whether the
  Validator lets such a key pass is outside this repository.
* `SearchResponse.Truncated` is documented as "a cap stopped the scan before the whole value
  was searched" (`scratch/handler.go:93-94`) and is also set when the hit that meets the
  size cap is on the last line.

Also noted without a run, since no statement of the repository is against them:

* An integer parameter over 2^53, and an integer over 2^53 in a template's own body, is
  rounded on its way (`decodeParams`, `compileOperation`); one over an int64's range
  becomes whatever the build converts it to. `ParametersArrive` speaks of the others.
* A `number` parameter of 10^6 or more is written `1e+06` in a path, a query or a text.
* A template parameter named `operation` may be declared and referred to, but the schema
  pins that name and `decodeParams` deletes it, so its placeholder is sent as it stands.
* What a child writes once the pipes were closed on it (`exec.ErrWaitDelay`) is lost, and
  `Truncated` does not say so. `OutputIsFaithful` is about the bytes that were copied.
* `http://[::1]` without a port is taken as an endpoint of `core.openaiApi`, and then
  every dial to it is refused: `validateBaseURL` asks for the host without its brackets,
  `LoopbackHost` does not. With a port the two agree.
* A command's enumerated value that has a control character is published in the schema,
  and refused by the driver.

## Abstractions and assumptions

* A session runs one process at a time (`store.go:13-14`). The runtime guarantees
  it; `MayStart` states it.
* JSON texts, labels, URLs and headers are members of small sets. Compaction and
  the digest are functions with the assumptions above. Lines are a flag (does the
  pattern match) and a length.
* A rune is up to four bytes, so a cut at a limit may lose up to three: `Cuts` is
  the set of the possible cuts.
* The monitor holds a call for approval when the entry asks for it or forbids what
  the process carries, and adds the labels of the entry and of a successful result
  to the process's taint. This follows the comments in `handler.go`, `grants.go` and
  the README of the repository.
* os/exec and net/http are modelled from how the code configures them: the order in
  `Cmd.Wait`, the watcher, `WaitDelay`, `redirectBehavior` and the copying of
  headers.
* `capability.Table.Add` refuses an entry it holds; whether it takes a second family
  of a syscall is left open, and the properties hold either way.
* A redirected hop may lack any of the first request's headers; net/http withholds fewer.
* A float64 is any function of the integers that is the identity up to `Exact` and whose
  values there are in an int64's range; fractions are left out.
* In `GrantTable`, a grant's secret is modelled per capability; `core.openaiApi` has one for the whole
  grant, which is the same refusal.

Not modelled: the shell script under `command/examples` (outside the library); the
descriptions published to the model, the JSON that schemas are written in, and the
wording of errors (text); the fingerprint's HMAC and the JSON form of a secret reference
(data); the extra headers, the timeout and the numeric bounds of a grant's settings, each
a test of its own value; the exact IP ranges of the dial guard (the split of `Addresses`);
the length of the backoff. A saved key's 64 bits of digest are assumed not to collide.

## Plan

Done, in this order: the session store with its abstract memory and its proofs
(labels and the at-least-once writes are what the rest of the system relies on);
the command runner (the most concurrent code); the HTTP client; the search scan;
the provider's retries; the grant table; then the slots of a command, the template
driver, the manifests of the three network drivers in front of the HTTP client, the
provider's models, and proofs for every component: every safety property that a run
checks is also a theorem; then the two abstract specifications that more than one
component answers to, `GrantedTable` and `DriverCall`, and the bounds on how long a call
can last.

What is left:

1. `ProviderCall` over `HttpClient`, attempt by attempt, in place of the ten endings.
2. One definition of the compartment's policy for `Scratch` and `GrantTable`, which each
   translate `scratch/registration.go` for themselves.
