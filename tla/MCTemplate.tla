----------------------------- MODULE MCTemplate -----------------------------
(* Small instances of Template for TLC. *)
EXTENDS Template, TLC

CONSTANT none

MCIntMin == -32

\* Floats of three bits of mantissa: past 8 an integer goes to a multiple of 2,
\* past 16 of 4, and the nearer, or the even one of two.
Nearest(n, step) ==
    LET low == (n \div step) * step
        over == n - low
    IN IF 2 * over < step \/ (2 * over = step /\ (low \div step) % 2 = 0) THEN low ELSE low + step
MCFloat(n) ==
    LET size == IF n < 0 THEN -n ELSE n
        near == IF size <= 8 THEN size ELSE IF size <= 16 THEN Nearest(size, 2) ELSE Nearest(size, 4)
    IN IF n < 0 THEN -near ELSE near

MCPlaceholders == ("{{p}}" :> "p") @@ ("{{q}}" :> "q") @@ ("{{operation}}" :> "operation")

T(s) == [c |-> s, n |-> 0, esc |-> FALSE]
Text(ts) == [k \in DOMAIN ts |-> T(ts[k])]
String(ts) == [type |-> "string", text |-> Text(ts)]
Integer(m) == [type |-> "integer", text |-> <<[c |-> "number", n |-> m, esc |-> FALSE]>>]

\* Nothing, a word, dots, a separator, what reads like a placeholder; integers up
\* to and over the exact ones and an int64's; a truth value.
MCStrings == {String(<<>>), String(<<"w">>), String(<<"w", "/", "w">>), String(<<"{{q}}">>),
              String(<<"?", "w">>), String(<<".">>), String(<<".", ".">>)}
MCValues == MCStrings \cup {Integer(m) : m \in {-40, -9, 0, 8, 9, 11, 17, 40}}
                \cup {[type |-> "boolean", text |-> Text(<<"true">>)]}

Name == "operation" :> String(<<"search">>)
MCCalls ==
    {Name} \cup {("p" :> v) @@ Name : v \in MCValues} \cup {("q" :> v) @@ Name : v \in MCStrings}
        \cup {("p" :> v) @@ ("q" :> w) @@ Name : v \in MCStrings \cup {Integer(9)}, w \in MCStrings}

P(type, required, enum) == [type |-> type, required |-> required, enum |-> enum]
Word == {Text(<<"w">>)}
Optional == P("string", FALSE, {})
Types1 == {P(t, r, {}) : t \in Types, r \in BOOLEAN}
              \cup {P("string", TRUE, Word), P("integer", FALSE, Word), P("blob", TRUE, {})}

O(method, base, path, query, body, slots) ==
    [method |-> method, base |-> base, path |-> Text(path), query |-> query, body |-> body,
     params |-> slots, headers |-> {"Authorization"}]
J(leaves, keys) == [leaves |-> leaves, keys |-> keys]

Paths == {<<"/", "docs">>, <<"/", "{{p}}">>, <<"/", "{{p}}", "/", "w">>, <<"/", "x", "{{p}}">>,
          <<"/", ".", "{{p}}">>}
Bodies == {none, J("l" :> String(<<"{{p}}">>), {}), J("l" :> String(<<"w", "{{p}}">>), {}),
           J(("l" :> String(<<"w">>)) @@ ("m" :> Integer(17)), {}),
           J("l" :> String(<<"w">>), {"p"})}

MCOperations ==
    {O("POST", "https://api", path, "k" :> Text(<<"{{p}}">>), body, "p" :> p) :
        path \in Paths, body \in Bodies, p \in Types1}
    \cup {O("GET", none, path, "k" :> Text(<<"w", "{{q}}">>), body, ("p" :> p) @@ ("q" :> Optional)) :
        path \in Paths \cup {<<"/", "{{q}}", "/", "{{p}}">>, <<"/", "{{q}}", "{{p}}">>}, body \in {none, J("l" :> String(<<"{{p}}", "{{q}}">>), {})},
        p \in {P("string", TRUE, {}), P("integer", FALSE, {})}}
    \cup {O("GET", "https://api", <<"/", "{{operation}}">>, <<>>, none,
            "operation" :> P("string", FALSE, {})),
          O("*", "https://api", <<"/">>, <<>>, none, <<>>),
          O("GET", "https://api", <<"docs">>, <<>>, none, <<>>),
          O("GET", "https://api", <<"/", "{{q}}">>, <<>>, none, "p" :> Optional)}
=============================================================================
