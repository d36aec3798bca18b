---------------------------- MODULE ScratchKeys ----------------------------
(***************************************************************************)
(* The slash-path keys of core.scratch (src/scratch/handler.go, store.go). *)
(* A key is the sequence of its segments: strings.Split(key, "/"), so ""   *)
(* is <<"">> and "/a" is <<"", "a">>.  JSON texts are members of a set;    *)
(* Compact maps a text to its compact form and Digest a text to the hex of *)
(* the first 64 bits of its SHA-256.                                       *)
(***************************************************************************)
EXTENDS Sequences, SequencesExt

CONSTANTS
    Texts,      \* JSON texts, spacing included
    Compact,    \* json.Compact: the text without insignificant space
    Digest,     \* hex(sha256(text)[:8]), one path segment
    GuestKeys   \* the keys and prefixes guests name, well-formed or not

\* Compacting a text twice changes nothing more.
ASSUME CompactAssumption ==
    /\ Compact \in [Texts -> Texts]
    /\ \A t \in Texts : Compact[Compact[t]] = Compact[t]

\* A digest is hexadecimal, so a valid segment, and no two contents in play
\* share the 64 bits of it a saved key keeps.
ASSUME DigestAssumption ==
    /\ \A t \in Texts : Digest[t] \notin {"", ".", ".."}
    /\ \A s, t \in Texts : Digest[Compact[s]] = Digest[Compact[t]] => Compact[s] = Compact[t]

Root == <<"">>   \* the empty string, which list takes as "every key"

\* checkKey: no segment is empty, "." or "..".  A leading "/" is an empty
\* first segment, so this covers the relative-path check too.
ValidKey(k) == \A i \in 1..Len(k) : k[i] \notin {"", ".", ".."}

\* strings.HasPrefix(key, "io/")
UnderSaved(k) == Len(k) >= 2 /\ k[1] = "io"

\* The key store gives a text: savedPrefix + digest of its compact form.
SavedKey(t) == <<"io", Digest[Compact[t]]>>

\* Every key the space can hold.
Keys == GuestKeys \cup {SavedKey(t) : t \in Texts}

\* MapStore.List's test: key == prefix, or prefix + "/" starts it.
UnderPrefix(prefix, k) == prefix = Root \/ IsPrefix(prefix, k)
=============================================================================
