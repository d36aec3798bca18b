----------------------------- MODULE MCScratch -----------------------------
(* Small instances of Scratch for TLC. *)
EXTENDS Scratch, TLC

CONSTANTS plain, secret

\* One content, spaced in two ways.
MCTexts == {"a", "a "}
MCCompact == ("a" :> "a") @@ ("a " :> "a")
MCDigest == ("a" :> "d0") @@ ("a " :> "d1")

\* A plain key, the key of the saved content, and the empty key, which only
\* list takes.
MCGuestKeys == {<<"n">>, <<"io", "d0">>, Root}

MCLabels == {plain, secret}

\* put's own grant forbids nothing, so only the union guards it.
MCGrants == {[operation |-> op, labels |-> IF op = "list" THEN {plain} ELSE {},
              taints |-> IF op = "store" THEN {secret} ELSE {}, approval |-> FALSE] :
                op \in Operations}
=============================================================================
