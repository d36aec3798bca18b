--------------------------- MODULE MCProviderCall ---------------------------
(* Small instances of ProviderCall for TLC. *)
EXTENDS ProviderCall, TLC

CONSTANTS gpt, mini, padded, blank, none

\* A text with space around a model, and one that is nothing else.
MCTrimmed == (gpt :> gpt) @@ (mini :> mini) @@ (padded :> gpt) @@ (blank :> none) @@ (none :> none)
MCTexts == {gpt, mini, padded, blank}

\* Every operation: the calls that POST, that fit or not, with each text as the
\* model, in any case of the key, and the GET of models.
MCOperations ==
    [post : {TRUE}, fits : {TRUE}, model : MCTexts \cup {none}, other : {none, mini}]
        \cup {[post |-> TRUE, fits |-> FALSE, model |-> gpt, other |-> none],
              [post |-> FALSE, fits |-> TRUE, model |-> none, other |-> none]}
=============================================================================
