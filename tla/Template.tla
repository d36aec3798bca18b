------------------------------ MODULE Template ------------------------------
(***************************************************************************)
(* One core.httpTemplate call, from the manifest's operation to the        *)
(* request: the operation is validated (src/httptemplate/registration.go), *)
(* the kernel's Validator (external) holds the call to the published       *)
(* schema, and the handler decodes the parameters and renders the request  *)
(* (httptemplate.go: decodeParams, render, expandString, substituteJSON).  *)
(* The request then goes through HttpClient's.                             *)
(*                                                                         *)
(* A text is a sequence of tokens [c, n, esc]: what it reads, its value if *)
(* it is a number, and whether it is percent-encoded.  A value is a typed  *)
(* text.  A JSON template is the map from its leaves to what they hold;    *)
(* the walk of substituteJSON keeps its keys and its shape.                *)
(***************************************************************************)
EXTENDS Integers, Sequences, SequencesExt

CONSTANTS
    Operations,    \* the operations in play: [method, base, path, query, body, params, headers]
    Calls,         \* the calls in play: [parameter name -> value]
    DefaultBase,   \* the grant's base_url, or None
    Placeholders,  \* ["{{name}}" -> name]
    Reserved,      \* the tokens that url.PathEscape encodes
    Delimiters,    \* the tokens that end a segment of a path: "/", "?" and "#"
    AnyMethod,     \* "*"
    Discriminator, \* the parameter name "operation"
    Float(_),      \* the float64 nearest to an integer
    Exact,         \* 2^53: up to it, an integer is its own float
    Plain,         \* 10^6: from it on, a float's text has an exponent
    IntMin, IntMax,\* the range of an int64
    None           \* nothing

Types == {"string", "integer", "number", "boolean"}
NumberText(n) == <<[c |-> "number", n |-> n, esc |-> FALSE]>>

IsToken(t) == t = [c |-> t.c, n |-> t.n, esc |-> t.esc] /\ t.esc \in BOOLEAN
IsText(text) == text \in Seq(Range(text)) /\ \A t \in Range(text) : IsToken(t)
IsValue(v) ==
    /\ v = [type |-> v.type, text |-> v.text] /\ IsText(v.text)
    /\ v.type \in {"integer", "number"} => v.text = NumberText(v.text[1].n)
    /\ v.type = "integer" => v.text[1].n \in Int

ASSUME TemplateAssumption ==
    /\ "/" \in Delimiters /\ Delimiters \subseteq Reserved
    /\ (Delimiters \cup {"."}) \cap DOMAIN Placeholders = {}
    /\ Exact \in Nat /\ Plain \in Nat /\ IntMin \in Int /\ IntMax \in Int
    /\ \A n \in -Exact..Exact : Float(n) = n /\ n \in IntMin..IntMax
    /\ \A o \in Operations :
        /\ IsText(o.path)
        /\ \A k \in DOMAIN o.query : IsText(o.query[k])
        /\ o.body # None => \A l \in DOMAIN o.body.leaves : IsValue(o.body.leaves[l])
    /\ \A call \in Calls :
        /\ Discriminator \in DOMAIN call
        /\ \A p \in DOMAIN call :
            /\ IsValue(call[p])
            /\ \A t \in Range(call[p].text) : ~t.esc /\ t.c # "exponent"

VARIABLES
    operation,  \* the operation as the manifest has it
    phase,      \* where the operation, and then the call, is
    args,       \* the arguments of the call
    params,     \* the decoded parameters
    request     \* the request that is rendered

vars == <<operation, phase, args, params, request>>

Init ==
    /\ operation \in Operations
    /\ phase = "configure"
    /\ args = None
    /\ params = None
    /\ request = None

----------------------------------------------------------------------------
\* parseTemplateConfig, for one operation.

\* The operation's own base_url, or the grant's.
Base(o) == IF o.base # None THEN o.base ELSE DefaultBase

RefsIn(text) == {Placeholders[t.c] : t \in {u \in Range(text) : u.c \in DOMAIN Placeholders}}

\* placeholderRefs: the body's are collected from its JSON text, keys included.
References(o) ==
    RefsIn(o.path)
        \cup (UNION {RefsIn(o.query[k]) : k \in DOMAIN o.query})
        \cup IF o.body = None THEN {}
             ELSE o.body.keys \cup UNION {RefsIn(o.body.leaves[l].text) : l \in DOMAIN o.body.leaves}

OperationRefuses(o) ==
    \/ Base(o) = None
    \/ o.method \in {"", AnyMethod}
    \/ o.path = <<>> \/ o.path[1].c # "/"
    \/ \E p \in DOMAIN o.params : o.params[p].type \notin Types
    \/ ~(References(o) \subseteq DOMAIN o.params)

Configure ==
    /\ phase = "configure"
    /\ phase' = IF OperationRefuses(operation) THEN "refused" ELSE "offered"
    /\ UNCHANGED <<operation, args, params, request>>

----------------------------------------------------------------------------
\* The call on its way to the handler.

\* JSON Schema: an integer is a number too, an enumeration is one of strings.
Fits(p, v) ==
    /\ v.type = p.type \/ (p.type = "number" /\ v.type = "integer")
    /\ p.enum # {} => v.type = "string" /\ v.text \in p.enum

\* operationParamSchema and OperationBranch: a closed object, where the
\* discriminator takes the place of a parameter of its name.
Admits(o, call) ==
    LET slots == DOMAIN o.params \ {Discriminator}
        given == DOMAIN call \ {Discriminator}
    IN /\ given \subseteq slots
       /\ \A p \in slots : o.params[p].required => p \in given
       /\ \A p \in given : Fits(o.params[p], call[p])

\* External: a guest calls, and the Validator admits the call or refuses it.
Call(call) ==
    /\ phase = "offered"
    /\ args' = call
    /\ phase' = IF Admits(operation, call) THEN "decode" ELSE "invalid"
    /\ UNCHANGED <<operation, params, request>>

----------------------------------------------------------------------------
\* Handler.DispatchCall

\* int64(value.(float64)); out of an int64's range, what the build makes of it.
AsInt64(n) == IF Float(n) \in IntMin..IntMax THEN {Float(n)} ELSE {IntMin, IntMax}

\* A parameter as the handler decodes it: every JSON number is a float64, and
\* the declared integers are converted back.
DecodedAs(p, v) ==
    CASE p.type = "integer" ->
            {[type |-> "integer", text |-> NumberText(m)] : m \in AsInt64(v.text[1].n)}
      [] p.type = "number" /\ v.type = "integer" ->
            {[type |-> "number", text |-> NumberText(Float(v.text[1].n))]}
      [] OTHER -> {v}

\* decodeParams: the discriminator is not a parameter.
Decode ==
    /\ phase = "decode"
    /\ LET given == DOMAIN args \ {Discriminator} IN
        params' \in {ps \in [given -> UNION {DecodedAs(operation.params[p], args[p]) : p \in given}] :
                        \A p \in given : ps[p] \in DecodedAs(operation.params[p], args[p])}
    /\ phase' = "render"
    /\ UNCHANGED <<operation, args, request>>

\* Variant of PathEscape: a path is expanded like a query.
NoEscape(t) == t

\* url.PathEscape, a token at a time.
PathEscape(t) == IF t.c \in Reserved THEN [t EXCEPT !.esc = TRUE] ELSE t

\* valueString: a float64 as strconv writes it, with an exponent from Plain on.
ValueString(v) ==
    IF v.type = "number" /\ v.text[1].n \notin (-Plain + 1)..(Plain - 1)
    THEN <<[v.text[1] EXCEPT !.c = "exponent"]>>
    ELSE v.text

\* expandString, with an escaper or none: a placeholder of an absent parameter
\* is left intact.
Expand(text, ps, escaped) ==
    FlattenSeq([k \in DOMAIN text |->
        IF text[k].c \in DOMAIN Placeholders /\ Placeholders[text[k].c] \in DOMAIN ps
        THEN LET value == ValueString(ps[Placeholders[text[k].c]])
             IN IF escaped THEN [j \in DOMAIN value |-> PathEscape(value[j])] ELSE value
        ELSE <<text[k]>>])

IsWhole(text) == Len(text) = 1 /\ text[1].c \in DOMAIN Placeholders

\* Variant of Leaf: a whole placeholder is expanded like any other text.
LeafAsText(leaf, ps) ==
    IF leaf.type # "string" THEN leaf
    ELSE [type |-> "string", text |-> Expand(leaf.text, ps, FALSE)]

\* substituteJSON at a leaf: a string that is one placeholder takes the typed
\* value.  A number of the template was decoded to a float64.
Leaf(leaf, ps) ==
    IF leaf.type = "integer" THEN [type |-> "number", text |-> NumberText(Float(leaf.text[1].n))]
    ELSE IF leaf.type # "string" THEN leaf
    ELSE IF IsWhole(leaf.text)
    THEN LET name == Placeholders[leaf.text[1].c] IN IF name \in DOMAIN ps THEN ps[name] ELSE leaf
    ELSE [type |-> "string", text |-> Expand(leaf.text, ps, FALSE)]

Body(o, ps) ==
    IF o.body = None THEN None
    ELSE [keys |-> o.body.keys,
          leaves |-> [l \in DOMAIN o.body.leaves |-> Leaf(o.body.leaves[l], ps)]]

\* render
Rendered(o, ps) ==
    [method |-> o.method,
     base |-> Base(o),
     path |-> Expand(o.path, ps, TRUE),
     query |-> [k \in DOMAIN o.query |-> Expand(o.query[k], ps, FALSE)],
     body |-> Body(o, ps),
     headers |-> o.headers \cup IF o.body = None THEN {} ELSE {"Content-Type"}]

Render ==
    /\ phase = "render"
    /\ request' = Rendered(operation, params)
    /\ phase' = "rendered"
    /\ UNCHANGED <<operation, args, params>>

Next == Configure \/ (\E call \in Calls : Call(call)) \/ Decode \/ Render

Spec == Init /\ [][Next]_vars

----------------------------------------------------------------------------
\* Correctness.

\* Every variable has its type.
TypeOK ==
    /\ operation \in Operations
    /\ phase \in {"configure", "refused", "offered", "invalid", "decode", "render", "rendered"}
    /\ args \in Calls \cup {None}

\* What gives a path its shape: its delimiters, where they are not encoded.
Delimits(t) == t.c \in Delimiters /\ ~t.esc

DelimitersOf(text) ==
    FlattenSeq([k \in DOMAIN text |-> IF Delimits(text[k]) THEN <<text[k]>> ELSE <<>>])

IsDots(text) == \A t \in Range(text) : t.c = "."

\* A segment that reads "." or "..", which whoever serves the path resolves away.
DotsFollow(text, i, n) ==
    /\ text[i].c = "/" /\ ~text[i].esc
    /\ i + n <= Len(text)
    /\ \A k \in (i + 1)..(i + n) : text[k].c = "."
HasDotSegment(text) ==
    \E i \in DOMAIN text, n \in 1..2 :
        DotsFollow(text, i, n) /\ (i + n = Len(text) \/ Delimits(text[i + n + 1]))

\* The integers that every conversion on the way leaves alone.
IsExact(v) == v.type = "integer" => v.text[1].n \in -Exact..Exact

\* What is read back, once it is decoded, whatever way a number is written.
Decoded(text) ==
    [k \in DOMAIN text |-> [text[k] EXCEPT !.esc = FALSE, !.c = IF @ = "exponent" THEN "number" ELSE @]]

\* One JSON value: JSON has a single type of numbers.
SameJson(v, w) ==
    /\ v.text = w.text
    /\ v.type = w.type \/ {v.type, w.type} = {"integer", "number"}

\* What there is to "a value can never break out of its slot to alter the method,
\* host, path, or JSON shape" (httptemplate.go, Handler): the path has the
\* template's segments and no other, and none of them is "." or ".." unless the
\* template has it or a value of the path is made of dots alone (or of nothing);
\* and the leaves of the JSON that have no placeholder are unchanged.
ValuesStayInTheirSlots ==
    request # None =>
        /\ DelimitersOf(request.path) = DelimitersOf(operation.path)
        /\ HasDotSegment(request.path) /\ ~HasDotSegment(operation.path) =>
             \E p \in RefsIn(operation.path) \cap DOMAIN params : IsDots(ValueString(params[p]))
        /\ operation.body # None =>
             \A l \in DOMAIN operation.body.leaves :
                 LET leaf == operation.body.leaves[l] IN
                 RefsIn(leaf.text) = {} /\ IsExact(leaf) => SameJson(request.body.leaves[l], leaf)

\* What became of a text with one placeholder is the author's text, with the
\* value where the placeholder was.
Slots(text) == {k \in DOMAIN text : text[k].c \in DOMAIN Placeholders}
Holds(out, text, value) ==
    \A k \in Slots(text) :
        Slots(text) = {k} =>
            Decoded(out) =
                Decoded(SubSeq(text, 1, k - 1) \o value \o SubSeq(text, k + 1, Len(text)))

\* Every parameter arrives where its operation has it, up to the integers that
\* no float64 holds: in the path, in the query and inside a text in full and
\* decoded once; alone in a JSON leaf as its own JSON type ("substituted as its
\* JSON type (a number, not a string)", httptemplate_test.go); and nothing that
\* is required is left unfilled.
ParametersArrive ==
    request # None =>
        /\ \A p \in DOMAIN operation.params \ {Discriminator} :
             operation.params[p].required => p \in DOMAIN params
        /\ \A p \in {q \in DOMAIN args \ {Discriminator} : IsExact(args[q])} :
            /\ RefsIn(operation.path) = {p} => Holds(request.path, operation.path, args[p].text)
            /\ \A k \in DOMAIN operation.query :
                 RefsIn(operation.query[k]) = {p} =>
                     Holds(request.query[k], operation.query[k], args[p].text)
            /\ operation.body # None =>
                 \A l \in DOMAIN operation.body.leaves :
                    LET leaf == operation.body.leaves[l]
                        out == request.body.leaves[l]
                    IN leaf.type = "string" /\ RefsIn(leaf.text) = {p} =>
                        IF IsWhole(leaf.text) THEN SameJson(out, args[p])
                        ELSE out.type = "string" /\ Holds(out.text, leaf.text, args[p].text)

\* "Path and query placeholders are percent-encoded, so a value cannot traverse the
\* path" (httptemplate_test.go): no segment of the request's path is resolved away
\* that the template does not have resolved.
PathIsNotTraversed ==
    request # None /\ HasDotSegment(request.path) => HasDotSegment(operation.path)
=============================================================================
