---------------------------- MODULE CommandSlots ----------------------------
(***************************************************************************)
(* One call of a core.command rule, from the manifest to the argument      *)
(* vector: the rule is validated and compiled (src/command/registration.go)*)
(* and published as a schema, a guest fills its slots, a person may be     *)
(* asked, and the driver checks the values and fills the template          *)
(* (command.go: resolve, validate, substitute, prompt).  What runs then is *)
(* CommandExec's.  The kernel's Validator and the approval are external;   *)
(* a handler built by hand has neither in front of it.                     *)
(*                                                                         *)
(* A text is a sequence of tokens; a placeholder {name} is one token.  A   *)
(* pattern stands for the set of values it matches when it is anchored.    *)
(***************************************************************************)
EXTENDS Naturals, Sequences, SequencesExt

CONSTANTS
    Rules,         \* the rules in play: [path, dir, env, args, params, approval]
    Values,        \* the values guests supply
    Placeholders,  \* [token -> slot name]: the tokens that read {name}
    Dash,          \* the token "-"
    Controls,      \* the tokens that are control characters
    Clean,         \* the paths that are absolute and cleaned
    EnvNames,      \* the names a variable may have
    Secrets,       \* the secrets the host holds
    Plain,         \* an env value that is no secret reference
    NoText,        \* a pattern or an exclusion that is not declared
    Invalid,       \* a pattern or an exclusion that does not compile
    None           \* nothing, yet

\* The three forms of CommandParam: a list, a pattern, a pattern minus another.
IsText(x) == x \in {NoText, Invalid} \/ x \subseteq Values
IsDeclaration(d) ==
    /\ d.oneOf \subseteq Values /\ IsText(d.pattern) /\ IsText(d.exclude)
    /\ d.oneOf # {} => d.pattern = NoText /\ d.exclude = NoText

ASSUME SlotsAssumption ==
    /\ \A v \in Values : v \in Seq(Range(v)) /\ None \notin Values
    /\ <<>> \in Values
    /\ Dash \notin DOMAIN Placeholders /\ Dash \notin Controls
    /\ None \notin Rules
    /\ \A r \in Rules :
        /\ r.args \in Seq(Range(r.args))
        /\ \A arg \in Range(r.args) : arg \in Seq(Range(arg))
        /\ \A n \in DOMAIN r.params : IsDeclaration(r.params[n])

VARIABLES
    rule,     \* the rule as the manifest has it
    phase,    \* where the rule, and then the call, is
    params,   \* the values of the call: [slot name -> value]
    checked,  \* the Validator admitted the call
    shown,    \* what the person who approved was shown
    ran       \* what was run

vars == <<rule, phase, params, checked, shown, ran>>

Init ==
    /\ rule \in Rules
    /\ phase = "configure"
    /\ params = None
    /\ checked = FALSE
    /\ shown = None
    /\ ran = None

----------------------------------------------------------------------------
\* Registration.Configure

StartsWithDash(v) == v # <<>> /\ v[1] = Dash

\* compile, for a list.
ListRefuses(d) == \E v \in d.oneOf : StartsWithDash(v)

\* compile, for a pattern: it must be there, compile, and not match "".
PatternRefuses(d) ==
    \/ d.pattern \in {NoText, Invalid}
    \/ <<>> \in d.pattern
    \/ d.exclude = Invalid

CompileRefuses(d) == IF d.oneOf # {} THEN ListRefuses(d) ELSE PatternRefuses(d)

\* The slots the arguments refer to.
Referenced(args) ==
    {Placeholders[t] : t \in DOMAIN Placeholders \cap UNION {Range(args[i]) : i \in DOMAIN args}}

\* The template and the declarations agree in both directions.
TemplateRefuses(r) == DOMAIN r.params # Referenced(r.args)

\* normalizeCommandRule, and buildCommand's secrets.
RuleRefuses(r) ==
    \/ {r.path, r.dir} \ Clean # {}
    \/ DOMAIN r.env \ EnvNames # {}
    \/ \E n \in DOMAIN r.params : CompileRefuses(r.params[n])
    \/ TemplateRefuses(r)
    \/ \E n \in DOMAIN r.env : r.env[n] \notin Secrets \cup {Plain}

Configure ==
    /\ phase = "configure"
    /\ phase' = IF RuleRefuses(rule) THEN "refused" ELSE "offered"
    /\ UNCHANGED <<rule, params, checked, shown, ran>>

\* paramSchema: the values the published schema admits for a slot.
Published(d) ==
    IF d.oneOf # {} THEN d.oneOf
    ELSE IF d.exclude = NoText THEN d.pattern ELSE d.pattern \ d.exclude

\* commandParamsSchema: every slot, with its own values, and no other.
Admits(r, ps) ==
    /\ DOMAIN ps = DOMAIN r.params
    /\ \A n \in DOMAIN r.params : ps[n] \in Published(r.params[n])

----------------------------------------------------------------------------
\* The call on its way to the driver.

\* The guest names the command and fills slots, declared or not.
Call(ps) ==
    /\ phase = "offered"
    /\ params' = ps
    /\ phase' = "called"
    /\ UNCHANGED <<rule, checked, shown, ran>>

\* External: the kernel's Validator, before dispatch.
Validate ==
    /\ phase = "called"
    /\ checked' = Admits(rule, params)
    /\ phase' = IF ~Admits(rule, params) THEN "invalid"
                ELSE IF rule.approval THEN "asking" ELSE "dispatch"
    /\ UNCHANGED <<rule, params, shown, ran>>

\* A Command built by hand: the call comes straight to the driver.
ByHand ==
    /\ phase = "called"
    /\ phase' = "dispatch"
    /\ UNCHANGED <<rule, params, checked, shown, ran>>

\* The text that takes a placeholder's place.
Filling(ps, t) ==
    IF Placeholders[t] \in DOMAIN ps THEN ps[Placeholders[t]] ELSE <<>>

\* substitute: one pass over each argument, which stays one element.
Substitute(args, ps) ==
    [i \in DOMAIN args |->
        FlattenSeq([k \in DOMAIN args[i] |->
            IF args[i][k] \in DOMAIN Placeholders THEN Filling(ps, args[i][k])
            ELSE <<args[i][k]>>])]

\* Variant of Prompt: the approver is shown the rule, not the call.
PromptOfTemplate(r, ps) == [path |-> r.path, argv |-> r.args, dir |-> r.dir, env |-> DOMAIN r.env]

\* prompt: the executable, the arguments, the directory, the names of the
\* environment.
Prompt(r, ps) ==
    [path |-> r.path, argv |-> Substitute(r.args, ps), dir |-> r.dir, env |-> DOMAIN r.env]

\* External: a person is shown the prompt and lets the call pass, or not.
Approve ==
    /\ phase = "asking"
    /\ shown' = Prompt(rule, params)
    /\ phase' = "dispatch"
    /\ UNCHANGED <<rule, params, checked, ran>>

Deny ==
    /\ phase = "asking"
    /\ phase' = "denied"
    /\ UNCHANGED <<rule, params, checked, shown, ran>>

----------------------------------------------------------------------------
\* Command.DispatchCall

\* Variant of Matches: the pattern is not anchored.
MatchesInside(d, v) == \E w \in d.pattern : w \in SubSeqs(v)

\* An anchored pattern, minus what the anchored exclusion matches.
Matches(d, v) == v \in d.pattern /\ (d.exclude # NoText => v \notin d.exclude)

\* Variant of Valid: a value that the set or the pattern admits may be a flag.
FlagsPass(d, v) ==
    /\ v = <<>> => <<>> \in d.oneOf
    /\ Range(v) \cap Controls = {}
    /\ IF d.oneOf # {} THEN v \in d.oneOf ELSE Matches(d, v)

\* validate: whatever else it matches, a value is no flag, is empty only when
\* "" is enumerated, and has no control character.
Valid(d, v) ==
    /\ ~StartsWithDash(v)
    /\ v = <<>> => <<>> \in d.oneOf
    /\ Range(v) \cap Controls = {}
    /\ IF d.oneOf # {} THEN v \in d.oneOf ELSE Matches(d, v)

\* resolve: every declared slot, no other, each with a valid value.
Resolves(r, ps) ==
    /\ DOMAIN ps = DOMAIN r.params
    /\ \A n \in DOMAIN r.params : Valid(r.params[n], ps[n])

Refuse ==
    /\ phase = "dispatch" /\ ~Resolves(rule, params)
    /\ phase' = "invalid"
    /\ UNCHANGED <<rule, params, checked, shown, ran>>

Run ==
    /\ phase = "dispatch" /\ Resolves(rule, params)
    /\ ran' = [path |-> rule.path, argv |-> Substitute(rule.args, params), dir |-> rule.dir,
               env |-> DOMAIN rule.env]
    /\ phase' = "ran"
    /\ UNCHANGED <<rule, params, checked, shown>>

SlotNames == Range(Placeholders)

Next ==
    \/ Configure
    \/ \E ns \in SUBSET SlotNames : \E ps \in [ns -> Values] : Call(ps)
    \/ Validate \/ ByHand
    \/ Approve \/ Deny
    \/ Refuse \/ Run

Spec == Init /\ [][Next]_vars

----------------------------------------------------------------------------
\* Correctness.

\* Every variable has its type.
TypeOK ==
    /\ rule \in Rules
    /\ phase \in {"configure", "refused", "offered", "called", "asking", "denied", "dispatch",
                  "invalid", "ran"}
    /\ params = None \/ \E ns \in SUBSET SlotNames : params \in [ns -> Values]
    /\ checked \in BOOLEAN

\* The schema that is published and the check that the driver makes agree
\* (registration.go, commandParamsSchema: "refused before the driver sees it —
\* and the driver checks again").  Nothing runs that the schema does not admit,
\* with or without the Validator in front; and a call that the Validator admitted
\* is refused by the driver only for a dash or a control character, never for a
\* missing slot or a value out of its set.
SchemaAndDriverAgree ==
    /\ ran # None => Admits(rule, params)
    /\ phase = "invalid" /\ checked =>
         \E n \in DOMAIN params :
            StartsWithDash(params[n]) \/ Range(params[n]) \cap Controls # {}

\* The slots of an argument that stand before its k-th token.
OnlyEmptyBefore(arg, k) ==
    \A j \in 1..(k - 1) :
        /\ arg[j] \in DOMAIN Placeholders
        /\ <<>> \in rule.params[Placeholders[arg[j]]].oneOf

\* "No parameter may become a flag" and "an empty argument is only ever had on
\* purpose" (command_test.go, compile): argument by argument, a leading dash is
\* one that the author wrote, and only slots that may be empty stand before it;
\* an argument is empty only when its author wrote nothing or enumerated "" for
\* every slot in it; and no control character comes from the guest.
ArgumentsAreTheAuthors ==
    ran # None =>
        /\ Len(ran.argv) = Len(rule.args)
        /\ \A i \in DOMAIN ran.argv :
            LET arg == rule.args[i] IN
            /\ StartsWithDash(ran.argv[i]) =>
                 \E k \in DOMAIN arg : arg[k] = Dash /\ OnlyEmptyBefore(arg, k)
            /\ ran.argv[i] = <<>> => OnlyEmptyBefore(arg, Len(arg) + 1)
            /\ Range(ran.argv[i]) \cap Controls \subseteq Range(arg)

\* "The approver sees what will run: the executable and its exact arguments"
\* (registration_test.go): a call that was held for approval runs as it was
\* shown, and a template's own placeholders are all filled in: what looks like
\* one is a value's own text.
ApprovedIsWhatRuns ==
    ran # None =>
        /\ checked /\ rule.approval => shown = ran
        /\ \A i \in DOMAIN ran.argv :
             Range(ran.argv[i]) \cap DOMAIN Placeholders \subseteq
                 UNION {Range(params[n]) : n \in DOMAIN params}
=============================================================================
