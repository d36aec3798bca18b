--------------------------- MODULE MCCommandSlots ---------------------------
(* Small instances of CommandSlots for TLC. *)
EXTENDS CommandSlots, TLC

CONSTANTS none, noText, invalid

MCPlaceholders == ("{a}" :> "a") @@ ("{b}" :> "b")

\* Nothing, two words, one that contains another, a flag, a dash inside, a
\* control character, and text that reads like a placeholder.
Word == <<"w">>
Other == <<"v">>
Longer == <<"w", "v">>
Flag == <<"-", "w">>
Inner == <<"w", "-">>
Broken == <<"w", "newline">>
Braces == <<"{b}">>
MCValues == {<<>>, Word, Other, Longer, Flag, Inner, Broken, Braces}

List(vs) == [oneOf |-> vs, pattern |-> noText, exclude |-> noText]
Pattern(p, x) == [oneOf |-> {}, pattern |-> p, exclude |-> x]

Lists == {List({Word}), List({<<>>, Word}), List({Word, Braces}), List({Word, Broken}),
          List({<<>>}), List({Flag, Word})}
Patterns == {Pattern(p, x) : p \in {{Word}, {Word, Other, Longer}, {Word, Inner, Flag, Broken},
                                    {<<>>, Word}, {Word, Braces}, noText, invalid},
                             x \in {noText, {Word}, invalid}}

\* A placeholder alone, inside a flag, after nothing but another, beside text,
\* in no argument and in two.
OneSlot == {<<<<"{a}">>>>, <<<<"-", "{a}">>, <<"v">>>>, <<<<"{a}", "-", "v">>>>,
            <<<<"{a}">>, <<"v", "{a}">>>>, <<<<"v">>>>, <<>>, <<<<"{b}">>>>}
TwoSlots == {<<<<"{a}", "{b}">>>>, <<<<"{a}">>, <<"{b}", "-">>>>, <<<<"{a}", "-", "{b}">>>>}

R(args, slots, asks) ==
    [path |-> "/bin/x", dir |-> "/srv", env |-> "PATH" :> Plain, args |-> args,
     params |-> slots, approval |-> asks]
Sound == R(<<<<"v">>>>, <<>>, TRUE)

MCRules ==
    {R(args, "a" :> d, asks) : args \in OneSlot, d \in Lists \cup Patterns, asks \in BOOLEAN}
        \cup {R(args, ("a" :> d) @@ ("b" :> e), TRUE) : args \in TwoSlots,
                d \in {List({<<>>, Word}), List({Word, Braces}), Pattern({Word, Braces}, noText)},
                e \in {List({<<>>, Word}), Pattern({Word, Flag, Broken}, noText)}}
        \cup {Sound, [Sound EXCEPT !.path = "x"], [Sound EXCEPT !.dir = "/srv/.."],
              [Sound EXCEPT !.env = "A=B" :> Plain], [Sound EXCEPT !.env = "KEY" :> "missing"],
              [Sound EXCEPT !.env = "KEY" :> "held"]}
=============================================================================
