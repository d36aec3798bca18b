-------------------------------- MODULE Grep --------------------------------
(***************************************************************************)
(* core.scratch's search over one stored value (src/scratch/handler.go:    *)
(* grepValue): the scan of the value's lines under a cap on matches and a  *)
(* cap on the reply's size.  A line is whether the pattern matches it and  *)
(* its length in bytes.  An action is one turn of the scan's loop.         *)
(***************************************************************************)
EXTENDS Naturals, Sequences, SequencesExt

CONSTANTS
    MaxLines,        \* bound: lines in a value
    Sizes,           \* bound: line lengths
    Contexts,        \* the context lines a call may ask for
    MatchCaps,       \* the max_matches a call may ask for; 0 when it asks for none
    DefaultMatches,  \* searchDefaultMaxMatches
    MatchBytes,      \* searchMaxMatchBytes
    TotalBytes,      \* searchMaxTotalBytes
    Mark,            \* the bytes of the mark truncateBytes appends
    RuneBytes        \* the longest rune, so a cut loses RuneBytes - 1 at most

ASSUME GrepAssumption ==
    /\ MaxLines \in Nat /\ Sizes \subseteq Nat /\ Contexts \subseteq Nat /\ MatchCaps \subseteq Nat
    /\ DefaultMatches \in Nat \ {0} /\ TotalBytes \in Nat \ {0}
    /\ RuneBytes \in Nat \ {0} /\ MatchBytes \in Nat /\ MatchBytes >= RuneBytes
    /\ Mark \in Nat

VARIABLES
    lines,       \* the value: a sequence of [hit, size]
    context,     \* lines of context around each match
    maxMatches,  \* the cap in force
    i,           \* the line under the scan
    matches,     \* the reply: a sequence of [line, kept, cut]
    total,       \* the bytes of its texts
    truncated,   \* a cap cut the scan short
    returned     \* the scan is over

vars == <<lines, context, maxMatches, i, matches, total, truncated, returned>>

Lines == BoundedSeq([hit : BOOLEAN, size : Sizes], MaxLines)

\* The first and the last line of a match's block.
From(n) == IF n > context THEN n - context ELSE 1
Until(n) == IF n + context < Len(lines) THEN n + context ELSE Len(lines)

\* Lines a to b, with a newline between each two.
Bytes(a, b) ==
    LET joined[n \in a..b] ==
          IF n = a THEN lines[n].size ELSE joined[n - 1] + 1 + lines[n].size
    IN  joined[b]

\* The block of a match at line n.
Block(n) == Bytes(From(n), Until(n))

\* Variant of Cuts: one byte more than the limit fits.
CutsLate(size) ==
    IF size <= MatchBytes + 1 THEN {[kept |-> size, cut |-> FALSE]}
    ELSE {[kept |-> MatchBytes + 1, cut |-> TRUE]}

\* truncateBytes: the text whole, or cut at the last rune that starts within
\* the limit.
Cuts(size) ==
    IF size <= MatchBytes THEN {[kept |-> size, cut |-> FALSE]}
    ELSE {[kept |-> k, cut |-> TRUE] : k \in (MatchBytes + 1 - RuneBytes)..MatchBytes}

TextBytes(m) == m.kept + (IF m.cut THEN Mark ELSE 0)

----------------------------------------------------------------------------
Init ==
    /\ lines \in {s \in Lines : s # <<>>}
    /\ context \in Contexts
    /\ \E cap \in MatchCaps : maxMatches = IF cap = 0 THEN DefaultMatches ELSE cap
    /\ i = 1
    /\ matches = <<>>
    /\ total = 0
    /\ truncated = FALSE
    /\ returned = FALSE

Scanning == ~returned /\ i <= Len(lines)

Pass ==
    /\ Scanning /\ ~lines[i].hit
    /\ i' = i + 1
    /\ UNCHANGED <<lines, context, maxMatches, matches, total, truncated, returned>>

\* Variant of AtCap: the last match the cap allows ends the scan.
CapReachedEarly == Len(matches) >= maxMatches - 1

AtCap == Len(matches) >= maxMatches

\* One match more than the cap allows.
StopAtCap ==
    /\ Scanning /\ lines[i].hit /\ AtCap
    /\ returned' = TRUE
    /\ truncated' = TRUE
    /\ UNCHANGED <<lines, context, maxMatches, i, matches, total>>

\* Variant of Full: the size cap is never looked at.
NeverFull(bytes) == FALSE

Full(bytes) == bytes >= TotalBytes

\* A match goes into the reply, and may fill it.
Take ==
    /\ Scanning /\ lines[i].hit /\ ~AtCap
    /\ \E c \in Cuts(Block(i)) :
        LET m == [line |-> i, kept |-> c.kept, cut |-> c.cut] IN
        /\ matches' = Append(matches, m)
        /\ total' = total + TextBytes(m)
        /\ returned' = Full(total')
        /\ truncated' = Full(total')
    /\ i' = i + 1
    /\ UNCHANGED <<lines, context, maxMatches>>

EndOfValue ==
    /\ ~returned /\ i > Len(lines)
    /\ returned' = TRUE
    /\ UNCHANGED <<lines, context, maxMatches, i, matches, total, truncated>>

Next == Pass \/ StopAtCap \/ Take \/ EndOfValue

Spec == Init /\ [][Next]_vars

----------------------------------------------------------------------------
\* Correctness.

Hits == {n \in 1..Len(lines) : lines[n].hit}
Reported == {matches[k].line : k \in 1..Len(matches)}

\* Every variable has its type.
TypeOK ==
    /\ lines \in Lines
    /\ context \in Contexts
    /\ maxMatches \in MatchCaps \cup {DefaultMatches}
    /\ i \in 1..(MaxLines + 1)
    /\ matches \in Seq([line : 1..MaxLines, kept : 0..MatchBytes, cut : BOOLEAN])
    /\ total \in Nat
    /\ truncated \in BOOLEAN /\ returned \in BOOLEAN

\* The reply is the first hits of the value in order, none skipped and none
\* twice; one that does not say it was truncated holds every hit, and one that
\* does had reached a cap.
ReplyIsTheFirstHits ==
    returned =>
        /\ \A k \in 1..Len(matches) - 1 : matches[k].line < matches[k + 1].line
        /\ Reported \subseteq Hits
        /\ \A n \in Hits \ Reported, m \in Reported : m < n
        /\ ~truncated => Reported = Hits
        /\ truncated => Len(matches) = maxMatches \/ total >= TotalBytes

\* "A search over any-size value returns a small, capped result" (handler.go):
\* whatever the value, no more matches than asked for, and all their texts
\* within the size cap and one last text.
ReplyIsBounded ==
    /\ Len(matches) <= maxMatches
    /\ total < TotalBytes + MatchBytes + Mark

\* A match is "the matching line, with any requested surrounding context,
\* truncated if very long" (handler.go): some of its line is always in it.
MatchShowsItsLine ==
    \A k \in 1..Len(matches) :
        LET n == matches[k].line IN
        lines[n].size > 0 =>
            matches[k].kept > Block(n) - Bytes(n, Until(n))
=============================================================================
