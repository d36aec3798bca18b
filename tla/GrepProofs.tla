------------------------------ MODULE GrepProofs ------------------------------
(***************************************************************************)
(* Proofs about Grep, for every value, every cap and every context: a      *)
(* search returns the first hits of the value, no more than asked for, and *)
(* no more bytes than its cap and one last text.                           *)
(***************************************************************************)
EXTENDS Grep, WellFoundedInduction, TLAPS

----------------------------------------------------------------------------
\* The inductive invariant.

\* The part of TypeOK that does not look at the texts.
Typed ==
    /\ Len(lines) \in Nat
    /\ maxMatches \in Nat
    /\ i \in 1..(Len(lines) + 1)
    /\ \E S : matches \in Seq(S)
    /\ \A k \in 1..Len(matches) : matches[k].line \in 1..Len(lines)
    /\ truncated \in BOOLEAN /\ returned \in BOOLEAN

\* The reply so far: hits in order, all of them up to the line under the scan.
SoFar ==
    /\ \A k \in 1..Len(matches) : matches[k].line < i /\ lines[matches[k].line].hit
    /\ \A k \in 1..Len(matches) - 1 : matches[k].line < matches[k + 1].line
    /\ \A n \in 1..(i - 1) : lines[n].hit => n \in Reported

CountIsCapped == Len(matches) <= maxMatches

\* The scan ends at the end of the value, or at a cap, and says which.
EndIsTold ==
    /\ returned /\ ~truncated => i = Len(lines) + 1
    /\ truncated => returned /\ (Len(matches) = maxMatches \/ total >= TotalBytes)

\* Until the scan is over, the texts are short of the size cap.
TextsAreCapped ==
    /\ ~returned => total < TotalBytes
    /\ total < TotalBytes + MatchBytes + Mark

IInv == TypeOK /\ Typed /\ SoFar /\ CountIsCapped /\ EndIsTold /\ TextsAreCapped

----------------------------------------------------------------------------
\* The length of a block.

\* Every set of naturals that is not empty has a least element: the inductions
\* below go to the first index at which a claim fails.
LEMMA Least == ASSUME NEW S, S \subseteq Nat, S # {} PROVE \E m \in S : \A k \in S : m <= k
<1> DEFINE R == OpToRel(<, Nat)
<1>1. IsWellFoundedOn(R, Nat)
  BY NatLessThanWellFounded
<1>2. R = {ss \in Nat \X Nat : ss[1] < ss[2]}
  BY DEF OpToRel
<1> HIDE DEF R
<1>3. PICK m \in S : \A y \in S : ~ (<<y, m>> \in R)
  BY <1>1, WFMin
<1>4. ASSUME NEW k \in S PROVE m <= k
  <2>1. <<k, m>> \notin R /\ k \in Nat /\ m \in Nat
    BY <1>3
  <2> QED BY <1>2, <2>1
<1> QED BY <1>3, <1>4

\* The lengths of the joined lines from a to each line up to b.
IsJoined(f, a, b) ==
    f = [n \in a..b |-> IF n = a THEN lines[n].size ELSE f[n - 1] + 1 + lines[n].size]

\* The sizes of the first lines add up, however many there are.
LEMMA JoinedExists ==
    ASSUME NEW a \in Nat, NEW d \in Nat
    PROVE  \E f : IsJoined(f, a, a + d)
<1> DEFINE Bad == {m \in Nat : ~ \E f : IsJoined(f, a, a + m)}
<1> SUFFICES ASSUME Bad # {} PROVE FALSE
  OBVIOUS
<1>1. PICK m \in Bad : \A k \in Bad : m <= k
  <2> Bad \subseteq Nat
    OBVIOUS
  <2> HIDE DEF Bad
  <2> QED BY Least
<1>2. m # 0
  <2> DEFINE one == [n \in a..(a + 0) |-> lines[n].size]
  <2>1. IsJoined(one, a, a + 0)
    BY DEF IsJoined
  <2> QED BY <2>1
<1>3. PICK f : IsJoined(f, a, a + (m - 1))
  BY <1>1, <1>2
<1> DEFINE b == a + m
           g == [n \in a..b |-> IF n = b THEN f[b - 1] + 1 + lines[b].size ELSE f[n]]
<1>4. IsJoined(g, a, b)
  <2>0. m \in Nat /\ m >= 1
    BY <1>2
  <2> SUFFICES ASSUME NEW n \in a..b
               PROVE  g[n] = IF n = a THEN lines[n].size ELSE g[n - 1] + 1 + lines[n].size
    BY DEF IsJoined
  <2>1. CASE n = b
    <3>1. n # a /\ n - 1 \in a..b /\ n - 1 # b
      BY <2>0, <2>1
    <3> QED BY <2>1, <3>1
  <2>2. CASE n # b
    <3>1. n \in a..(a + (m - 1)) /\ g[n] = f[n] /\ (n # a => g[n - 1] = f[n - 1])
      BY <2>0, <2>2
    <3>2. f[n] = IF n = a THEN lines[n].size ELSE f[n - 1] + 1 + lines[n].size
      BY <1>3, <3>1 DEF IsJoined
    <3> QED BY <3>1, <3>2
  <2> QED BY <2>1, <2>2
<1> QED BY <1>4

\* The size of a run of lines is a natural number, and no less than its first line.
LEMMA BytesAreBounded ==
    ASSUME NEW a \in Nat, NEW b \in Nat, a <= b, \A n \in a..b : lines[n].size \in Nat
    PROVE  Bytes(a, b) \in Nat /\ Bytes(a, b) >= lines[a].size
<1> DEFINE joined == CHOOSE f : IsJoined(f, a, b)
<1>1. IsJoined(joined, a, b)
  <2>1. b - a \in Nat /\ a + (b - a) = b
    OBVIOUS
  <2>2. \E f : IsJoined(f, a, b)
    BY <2>1, JoinedExists
  <2> QED BY <2>2
<1>2. Bytes(a, b) = joined[b]
  BY DEF Bytes, IsJoined
<1> HIDE DEF joined
<1> DEFINE Bad == {n \in a..b : ~(joined[n] \in Nat /\ joined[n] >= lines[a].size)}
<1>3. ASSUME Bad # {} PROVE FALSE
  <2>1. PICK n \in Bad : \A k \in Bad : n <= k
    <3>1. Bad \subseteq Nat
      OBVIOUS
    <3> HIDE DEF Bad
    <3> QED BY <1>3, <3>1, Least
  <2>2. joined[n] = IF n = a THEN lines[n].size ELSE joined[n - 1] + 1 + lines[n].size
    BY <1>1 DEF IsJoined
  <2>3. n # a => n - 1 \in a..b /\ joined[n - 1] \in Nat /\ joined[n - 1] >= lines[a].size
    BY <2>1
  <2>4. lines[n].size \in Nat /\ lines[a].size \in Nat
    BY <2>1
  <2> QED BY <2>2, <2>3, <2>4
<1> QED BY <1>2, <1>3

\* What is kept of a text is within the limit, and so is what it adds with the mark.
LEMMA CutsAreBounded ==
    ASSUME NEW size \in Nat, NEW c \in Cuts(size), NEW m, m.kept = c.kept, m.cut = c.cut
    PROVE  /\ c.kept \in 0..MatchBytes /\ c.cut \in BOOLEAN
           /\ TextBytes(m) \in Nat /\ TextBytes(m) <= MatchBytes + Mark
<1>1. c.kept \in 0..MatchBytes /\ c.cut \in BOOLEAN
  <2>1. CASE size <= MatchBytes
    <3>1. c = [kept |-> size, cut |-> FALSE]
      BY <2>1 DEF Cuts
    <3>2. size \in 0..MatchBytes
      BY <2>1, GrepAssumption
    <3> QED BY <3>1, <3>2
  <2>2. CASE ~(size <= MatchBytes)
    <3>1. PICK k \in (MatchBytes + 1 - RuneBytes)..MatchBytes : c = [kept |-> k, cut |-> TRUE]
      BY <2>2 DEF Cuts
    <3>2. k \in 0..MatchBytes
      BY GrepAssumption
    <3> QED BY <3>1, <3>2
  <2> QED BY <2>1, <2>2
<1> QED BY <1>1, GrepAssumption DEF TextBytes

\* A value of the model has its lengths.
LEMMA LinesAreTyped ==
    ASSUME lines \in Lines
    PROVE  /\ Len(lines) \in 0..MaxLines
           /\ \A n \in 1..Len(lines) : lines[n].size \in Nat
<1>1. PICK m \in 0..MaxLines : lines \in [1..m -> [hit : BOOLEAN, size : Sizes]]
  BY DEF Lines, BoundedSeq, SeqOf
<1>2. m \in Nat /\ DOMAIN lines = 1..m
  BY <1>1, GrepAssumption
<1>3. Len(lines) = m
  BY <1>1, <1>2
<1> QED BY <1>1, <1>3, GrepAssumption

\* The size of a match's block of lines is a natural number, and so is the part
\* of it from the match on, which has the match's line.
LEMMA BlocksAreBounded ==
    ASSUME lines \in Lines, context \in Contexts, NEW n \in 1..Len(lines)
    PROVE  /\ Block(n) \in Nat
           /\ Bytes(n, Until(n)) \in Nat /\ Bytes(n, Until(n)) >= lines[n].size
<1>1. Len(lines) \in Nat /\ context \in Nat /\ \A k \in 1..Len(lines) : lines[k].size \in Nat
  BY LinesAreTyped, GrepAssumption
<1>2. From(n) \in 1..n /\ Until(n) \in n..Len(lines)
  BY <1>1 DEF From, Until
<1>3. /\ From(n) \in Nat /\ Until(n) \in Nat /\ From(n) <= Until(n)
      /\ \A k \in From(n)..Until(n) : lines[k].size \in Nat
  BY <1>1, <1>2
<1>4. Block(n) \in Nat
  BY <1>3, BytesAreBounded DEF Block
<1>5. n \in Nat /\ n <= Until(n) /\ \A k \in n..Until(n) : lines[k].size \in Nat
  BY <1>1, <1>2
<1>6. Bytes(n, Until(n)) \in Nat /\ Bytes(n, Until(n)) >= lines[n].size
  BY <1>3, <1>5, BytesAreBounded
<1> QED BY <1>4, <1>6

----------------------------------------------------------------------------
\* A match at the end of the reply.

\* A match that is appended is the last, and the others stay where they are.
LEMMA AppendedMatch ==
    ASSUME NEW S, NEW ms \in Seq(S), NEW m
    PROVE  /\ Append(ms, m) \in Seq(S \cup {m})
           /\ Len(Append(ms, m)) = Len(ms) + 1
           /\ \A k \in 1..Len(ms) : Append(ms, m)[k] = ms[k]
           /\ Append(ms, m)[Len(ms) + 1] = m
OBVIOUS

----------------------------------------------------------------------------
\* The invariant is inductive.

\* Every initial state satisfies the invariant.
LEMMA InitInvariant == Init => IInv
<1> SUFFICES ASSUME Init PROVE IInv
  OBVIOUS
<1>1. lines \in Lines /\ Len(lines) \in Nat
  BY LinesAreTyped DEF Init
<1>2. maxMatches \in Nat
  BY GrepAssumption DEF Init
<1>3. matches = <<>> /\ i = 1 /\ truncated = FALSE /\ returned = FALSE
  BY DEF Init
<1>4. matches \in Seq({}) /\ Len(matches) = 0
  BY <1>3
<1>5. Typed
  <2>1. \E S : matches \in Seq(S)
    BY <1>4
  <2>2. i \in 1..(Len(lines) + 1) /\ 1..Len(matches) = {}
    BY <1>1, <1>3, <1>4
  <2> QED BY <1>1, <1>2, <1>3, <2>1, <2>2 DEF Typed
<1>6. SoFar
  BY <1>3, <1>4 DEF SoFar
<1>7. CountIsCapped /\ EndIsTold
  BY <1>2, <1>3, <1>4 DEF CountIsCapped, EndIsTold
<1>8. TypeOK
  <2>1. maxMatches \in MatchCaps \cup {DefaultMatches} /\ context \in Contexts /\ total = 0
    BY DEF Init
  <2>2. matches \in Seq([line : 1..MaxLines, kept : 0..MatchBytes, cut : BOOLEAN])
    BY <1>3
  <2>3. i \in 1..(MaxLines + 1)
    BY <1>3, GrepAssumption
  <2> QED BY <1>1, <1>3, <2>1, <2>2, <2>3 DEF TypeOK
<1>9. TextsAreCapped
  BY GrepAssumption DEF Init, TextsAreCapped
<1> QED BY <1>5, <1>6, <1>7, <1>8, <1>9 DEF IInv

\* Every step keeps the invariant.
LEMMA NextInvariant == IInv /\ [Next]_vars => IInv'
<1> SUFFICES ASSUME IInv, [Next]_vars PROVE IInv'
  OBVIOUS
<1>0. Typed /\ SoFar /\ CountIsCapped /\ EndIsTold /\ Len(lines) \in Nat /\ Len(matches) \in Nat
      /\ TypeOK /\ TextsAreCapped /\ Len(lines) <= MaxLines /\ MaxLines \in Nat
  <2>1. PICK S : matches \in Seq(S)
    BY DEF IInv, Typed
  <2>2. Len(lines) \in 0..MaxLines
    BY LinesAreTyped DEF IInv, TypeOK
  <2> QED BY <2>1, <2>2, GrepAssumption DEF IInv, Typed
<1>1. CASE Pass
  <2>1. Reported' = Reported
    BY <1>1 DEF Pass, Reported
  <2>2. i \in 1..Len(lines) /\ i' = i + 1 /\ ~lines[i].hit
        /\ UNCHANGED <<lines, maxMatches, matches, total, truncated, returned>> /\ ~returned
    BY <1>0, <1>1 DEF Pass, Scanning, Typed
  <2>3. Typed'
    BY <1>0, <2>1, <2>2 DEF Typed
  <2>4. \A k \in 1..Len(matches) : matches[k].line \in 1..Len(lines)
    BY <1>0 DEF Typed
  <2>5. SoFar'
    BY <1>0, <2>1, <2>2, <2>4 DEF SoFar
  <2>6. context' = context
    BY <1>1 DEF Pass
  <2>7. TypeOK' /\ TextsAreCapped'
    BY <1>0, <2>2, <2>6 DEF TypeOK, TextsAreCapped
  <2> QED BY <1>0, <2>2, <2>3, <2>5, <2>7 DEF IInv, CountIsCapped, EndIsTold
<1>2. CASE StopAtCap
  <2>1. Reported' = Reported
    BY <1>2 DEF StopAtCap, Reported
  <2>2. Typed'
    BY <1>0, <1>2, <2>1 DEF StopAtCap, Typed
  <2>3. SoFar' /\ CountIsCapped'
    BY <1>0, <1>2, <2>1 DEF StopAtCap, SoFar, CountIsCapped
  <2>4. Len(matches) = maxMatches
    BY <1>0, <1>2 DEF StopAtCap, AtCap, CountIsCapped, Typed
  <2>5. EndIsTold'
    BY <1>2, <2>4 DEF StopAtCap, EndIsTold
  <2>6. TypeOK' /\ TextsAreCapped'
    BY <1>0, <1>2 DEF StopAtCap, TypeOK, TextsAreCapped
  <2> QED BY <2>2, <2>3, <2>5, <2>6 DEF IInv
<1>3. CASE Take
  <2>1. PICK c \in Cuts(Block(i)) :
            /\ matches' = Append(matches, [line |-> i, kept |-> c.kept, cut |-> c.cut])
            /\ returned' = (total' >= TotalBytes)
            /\ truncated' = (total' >= TotalBytes)
            /\ total' = total + TextBytes([line |-> i, kept |-> c.kept, cut |-> c.cut])
    BY <1>3 DEF Take, Full
  <2> DEFINE m == [line |-> i, kept |-> c.kept, cut |-> c.cut]
  <2>2. i \in 1..Len(lines) /\ i' = i + 1 /\ lines[i].hit /\ ~AtCap
        /\ UNCHANGED <<lines, context, maxMatches>> /\ ~returned
    BY <1>0, <1>3 DEF Take, Scanning, Typed
  <2>3. PICK S : matches \in Seq(S)
    BY <1>0 DEF Typed
  <2>4. m.line = i /\ m.kept = c.kept /\ m.cut = c.cut
        /\ m = [line |-> i, kept |-> c.kept, cut |-> c.cut]
    OBVIOUS
  <2> HIDE DEF m
  <2>6. /\ matches' \in Seq(S \cup {m})
        /\ Len(matches') = Len(matches) + 1
        /\ \A k \in 1..Len(matches) : matches'[k] = matches[k]
        /\ matches'[Len(matches) + 1] = m
    BY <2>1, <2>3, AppendedMatch DEF m
  <2>7. Typed'
    <3>1. returned' \in BOOLEAN /\ truncated' \in BOOLEAN
      BY <2>1
    <3>2. i' \in 1..(Len(lines) + 1)
      BY <1>0, <2>2
    <3>3. \A k \in 1..Len(matches') : matches'[k].line \in 1..Len(lines')
      <4> SUFFICES ASSUME NEW k \in 1..Len(matches') PROVE matches'[k].line \in 1..Len(lines)
        BY <2>2
      <4>1. CASE k \in 1..Len(matches)
        BY <1>0, <2>6, <4>1 DEF Typed
      <4>2. CASE k = Len(matches) + 1
        BY <2>2, <2>4, <2>6, <4>2
      <4> QED BY <1>0, <2>6, <4>1, <4>2
    <3> QED BY <1>0, <2>2, <2>6, <3>1, <3>2, <3>3 DEF Typed
  <2>8. \A k \in 1..Len(matches) : matches[k].line \in 1..Len(lines) /\ matches[k].line < i
                                   /\ lines[matches[k].line].hit
    BY <1>0 DEF Typed, SoFar
  <2>9. \A k \in 1..Len(matches') : matches'[k].line < i' /\ lines'[matches'[k].line].hit
    <3> SUFFICES ASSUME NEW k \in 1..Len(matches')
                 PROVE  matches'[k].line < i' /\ lines[matches'[k].line].hit
      BY <2>2
    <3>1. CASE k \in 1..Len(matches)
      BY <2>2, <2>6, <2>8, <3>1
    <3>2. CASE k = Len(matches) + 1
      BY <2>2, <2>4, <2>6, <3>2
    <3> QED BY <1>0, <2>6, <3>1, <3>2
  <2>10. \A k \in 1..Len(matches') - 1 : matches'[k].line < matches'[k + 1].line
    <3> SUFFICES ASSUME NEW k \in 1..Len(matches)
                 PROVE  matches'[k].line < matches'[k + 1].line
      BY <1>0, <2>6
    <3>1. CASE k = Len(matches)
      BY <1>0, <2>4, <2>6, <2>8, <3>1
    <3>2. CASE k \in 1..Len(matches) - 1
      <4>1. k + 1 \in 1..Len(matches)
        BY <1>0, <3>2
      <4>2. matches[k].line < matches[k + 1].line
        BY <1>0, <3>2 DEF SoFar
      <4> QED BY <2>6, <4>1, <4>2
    <3> QED BY <1>0, <3>1, <3>2
  <2>11. \A n \in 1..(i' - 1) : lines'[n].hit => n \in Reported'
    <3> SUFFICES ASSUME NEW n \in 1..i, lines[n].hit
                 PROVE  \E k \in 1..Len(matches') : matches'[k].line = n
      BY <2>2 DEF Reported
    <3>1. CASE n = i
      BY <1>0, <2>4, <2>6, <3>1
    <3>2. CASE n \in 1..(i - 1)
      <4>1. PICK k \in 1..Len(matches) : matches[k].line = n
        BY <1>0, <3>2 DEF SoFar, Reported
      <4> QED BY <1>0, <2>6, <4>1
    <3> QED BY <2>2, <3>1, <3>2
  <2>12. SoFar'
    BY <2>9, <2>10, <2>11 DEF SoFar
  <2>13. CountIsCapped'
    BY <1>0, <2>2, <2>6 DEF CountIsCapped, AtCap, Typed
  <2>14. EndIsTold'
    BY <2>1 DEF EndIsTold
  <2>15. Block(i) \in Nat
    BY <1>0, <2>2, BlocksAreBounded DEF TypeOK
  <2>16. /\ c.kept \in 0..MatchBytes /\ c.cut \in BOOLEAN
         /\ TextBytes(m) \in Nat /\ TextBytes(m) <= MatchBytes + Mark
    BY <2>1, <2>4, <2>15, CutsAreBounded
  <2>17. total' = total + TextBytes(m) /\ total \in Nat /\ total < TotalBytes
    BY <1>0, <2>1, <2>2, <2>4 DEF TypeOK, TextsAreCapped
  <2>18. TypeOK'
    <3> DEFINE M == [line : 1..MaxLines, kept : 0..MatchBytes, cut : BOOLEAN]
    <3>1. m \in M
      BY <1>0, <2>2, <2>4, <2>16
    <3>2. matches \in Seq(M)
      BY <1>0 DEF TypeOK
    <3> HIDE DEF M
    <3>3. matches' \in Seq(M)
      BY <2>1, <2>4, <3>1, <3>2
    <3>4. i' \in 1..(MaxLines + 1)
      BY <1>0, <2>2
    <3>5. total' \in Nat /\ returned' \in BOOLEAN /\ truncated' \in BOOLEAN
      BY <2>1, <2>16, <2>17
    <3>6. lines' \in Lines /\ context' \in Contexts
          /\ maxMatches' \in MatchCaps \cup {DefaultMatches}
      BY <1>0, <2>2 DEF TypeOK
    <3> QED BY <3>3, <3>4, <3>5, <3>6 DEF TypeOK, M
  <2>19. TextsAreCapped'
    <3>1. total' \in Nat /\ total' < TotalBytes + MatchBytes + Mark
      BY <2>16, <2>17, GrepAssumption
    <3>2. returned' \/ ~(total' >= TotalBytes)
      BY <2>1
    <3>3. returned' \/ total' < TotalBytes
      BY <3>1, <3>2, GrepAssumption
    <3> QED BY <3>1, <3>3 DEF TextsAreCapped
  <2> QED BY <2>7, <2>12, <2>13, <2>14, <2>18, <2>19 DEF IInv
<1>4. CASE EndOfValue
  <2>1. Reported' = Reported
    BY <1>4 DEF EndOfValue, Reported
  <2>2. Typed'
    BY <1>0, <1>4, <2>1 DEF EndOfValue, Typed
  <2>3. SoFar' /\ CountIsCapped'
    BY <1>0, <1>4, <2>1 DEF EndOfValue, SoFar, CountIsCapped
  <2>4. EndIsTold'
    BY <1>0, <1>4 DEF EndOfValue, EndIsTold, Typed
  <2>5. TypeOK' /\ TextsAreCapped'
    BY <1>0, <1>4 DEF EndOfValue, TypeOK, TextsAreCapped
  <2> QED BY <2>2, <2>3, <2>4, <2>5 DEF IInv
<1>5. CASE UNCHANGED vars
  <2>1. Reported' = Reported
    BY <1>5 DEF vars, Reported
  <2> QED BY <1>0, <1>5, <2>1 DEF vars, IInv, TypeOK, Typed, SoFar, CountIsCapped, EndIsTold,
                                 TextsAreCapped
<1> QED BY <1>1, <1>2, <1>3, <1>4, <1>5 DEF Next

----------------------------------------------------------------------------
\* The theorems.

\* The inductive invariant holds in every reachable state.
THEOREM Invariance == Spec => []IInv
BY InitInvariant, NextInvariant, PTL DEF Spec

\* A search returns the first hits of the value, each once and in order: all of
\* them, or as many as a cap let through.
THEOREM FirstHits == Spec => []ReplyIsTheFirstHits
<1>1. IInv => ReplyIsTheFirstHits
  <2> SUFFICES ASSUME IInv, returned PROVE ReplyIsTheFirstHits
    BY DEF ReplyIsTheFirstHits
  <2>1. Len(lines) \in Nat /\ i \in 1..(Len(lines) + 1)
        /\ \A k \in 1..Len(matches) : matches[k].line \in 1..Len(lines)
    BY DEF IInv, Typed
  <2>2. \A k \in 1..Len(matches) - 1 : matches[k].line < matches[k + 1].line
    BY DEF IInv, SoFar
  <2>3. Reported \subseteq Hits
    BY <2>1 DEF IInv, SoFar, Reported, Hits
  <2>4. \A n \in Hits : n < i => n \in Reported
    BY <2>1 DEF IInv, SoFar, Hits
  <2>5. \A m \in Reported : m \in 1..Len(lines) /\ m < i
    BY <2>1 DEF IInv, SoFar, Reported
  <2>6. \A n \in Hits \ Reported, m \in Reported : m < n
    BY <2>1, <2>4, <2>5 DEF Hits
  <2>7. ~truncated => Reported = Hits
    <3> SUFFICES ASSUME ~truncated PROVE Hits \subseteq Reported
      BY <2>3
    <3>1. i = Len(lines) + 1
      BY DEF IInv, EndIsTold
    <3> QED BY <2>1, <2>4, <3>1 DEF Hits
  <2>8. truncated => Len(matches) = maxMatches \/ total >= TotalBytes
    BY DEF IInv, EndIsTold
  <2> QED BY <2>2, <2>3, <2>6, <2>7, <2>8 DEF ReplyIsTheFirstHits
<1> QED BY <1>1, Invariance, PTL

\* Every variable has its type.
THEOREM TypeCorrectness == Spec => []TypeOK
BY Invariance, PTL DEF IInv

\* No search returns more matches than its cap, or more bytes than the size cap
\* and one last text, whatever the value and its lines.
THEOREM RepliesStayBounded == Spec => []ReplyIsBounded
<1>1. IInv => ReplyIsBounded
  BY DEF IInv, CountIsCapped, TextsAreCapped, ReplyIsBounded
<1> QED BY <1>1, Invariance, PTL
----------------------------------------------------------------------------
\* A match shows its line, unless the context in front of it is too long.

\* A match in the reply is a cut of the block of its line.
CutFromItsBlock(m) == [kept |-> m.kept, cut |-> m.cut] \in Cuts(Block(m.line))
CutFromBlocks == \A k \in 1..Len(matches) : CutFromItsBlock(matches[k])

\* The bytes of a match's context in front of its line.
Before(n) == Block(n) - Bytes(n, Until(n))

\* What truncateBytes keeps of a text that goes on past the limit reaches any
\* byte that lies a rune inside of it.
LEMMA CutsReach ==
    ASSUME NEW size \in Nat, NEW before \in Int, before < size, before <= MatchBytes - RuneBytes,
           NEW c \in Cuts(size)
    PROVE  c.kept > before
<1>1. CASE size <= MatchBytes
  BY <1>1 DEF Cuts
<1>2. CASE ~(size <= MatchBytes)
  <2>1. PICK k \in (MatchBytes + 1 - RuneBytes)..MatchBytes : c = [kept |-> k, cut |-> TRUE]
    BY <1>2 DEF Cuts
  <2> QED BY <2>1, GrepAssumption
<1> QED BY <1>1, <1>2

\* Every step keeps the matches cuts of their blocks.
LEMMA CutsStep == IInv /\ CutFromBlocks /\ [Next]_vars => CutFromBlocks'
<1> SUFFICES ASSUME IInv, CutFromBlocks, [Next]_vars PROVE CutFromBlocks'
  OBVIOUS
<1>1. UNCHANGED <<lines, context>>
  BY DEF Next, Pass, StopAtCap, Take, EndOfValue, vars
<1>2. \A n : Block(n)' = Block(n)
  BY <1>1 DEF Block, Bytes, From, Until
<1>3. \A m : CutFromItsBlock(m)' <=> CutFromItsBlock(m)
  BY <1>2 DEF CutFromItsBlock, Cuts
<1>4. CASE UNCHANGED matches
  BY <1>3, <1>4 DEF CutFromBlocks
<1>5. CASE Take
  <2>1. PICK c \in Cuts(Block(i)) :
            matches' = Append(matches, [line |-> i, kept |-> c.kept, cut |-> c.cut])
    BY <1>5 DEF Take
  <2> DEFINE m == [line |-> i, kept |-> c.kept, cut |-> c.cut]
  <2>2. CutFromItsBlock(m)
    <3>1. c = [kept |-> c.kept, cut |-> c.cut]
      BY <2>1 DEF Cuts
    <3> QED BY <2>1, <3>1 DEF CutFromItsBlock
  <2>3. PICK S : matches \in Seq(S)
    BY DEF IInv, Typed
  <2> HIDE DEF m
  <2>4. /\ Len(matches') = Len(matches) + 1
        /\ \A k \in 1..Len(matches) : matches'[k] = matches[k]
        /\ matches'[Len(matches) + 1] = m
    BY <2>1, <2>3, AppendedMatch DEF m
  <2> SUFFICES ASSUME NEW k \in 1..Len(matches') PROVE CutFromItsBlock(matches'[k])
    BY <1>3 DEF CutFromBlocks
  <2>5. CASE k \in 1..Len(matches)
    BY <2>4, <2>5 DEF CutFromBlocks
  <2>6. CASE k = Len(matches) + 1
    BY <2>2, <2>4, <2>6
  <2>7. Len(matches) \in Nat
    BY <2>3
  <2> QED BY <2>4, <2>5, <2>6, <2>7
<1> QED BY <1>4, <1>5 DEF Next, Pass, StopAtCap, EndOfValue, vars

\* A match shows some of its line whenever the context in front of it leaves room
\* for a rune, and so always when no context was asked for: MatchShowsItsLine fails
\* of nothing else.
THEOREM MatchesShowTheirLines ==
    Spec => [](\A k \in 1..Len(matches) :
                   LET n == matches[k].line IN
                   lines[n].size > 0 /\ (context = 0 \/ Before(n) <= MatchBytes - RuneBytes)
                       => matches[k].kept > Before(n))
<1>1. Init => CutFromBlocks
  BY DEF Init, CutFromBlocks
<1>2. ASSUME IInv, CutFromBlocks, NEW k \in 1..Len(matches), lines[matches[k].line].size > 0,
             context = 0 \/ Before(matches[k].line) <= MatchBytes - RuneBytes
      PROVE  matches[k].kept > Before(matches[k].line)
  <2> DEFINE n == matches[k].line
  <2>1. n \in 1..Len(lines) /\ lines \in Lines /\ context \in Contexts /\ Len(lines) \in Nat
    BY <1>2 DEF IInv, Typed, TypeOK
  <2>2. lines[n].size \in Nat
    BY <2>1, LinesAreTyped
  <2>3. Block(n) \in Nat /\ Bytes(n, Until(n)) \in Nat /\ Bytes(n, Until(n)) >= lines[n].size
    BY <2>1, BlocksAreBounded
  <2>4. Before(n) \in Int /\ Before(n) < Block(n)
    BY <1>2, <2>2, <2>3 DEF Before
  <2>5. context = 0 => Before(n) = 0
    BY <2>1, <2>3 DEF Before, Block, From
  <2>6. Before(n) <= MatchBytes - RuneBytes
    BY <1>2, <2>5, GrepAssumption
  <2>7. [kept |-> matches[k].kept, cut |-> matches[k].cut] \in Cuts(Block(n))
    BY <1>2 DEF CutFromBlocks, CutFromItsBlock
  <2> QED BY <2>3, <2>4, <2>6, <2>7, CutsReach
<1>3. IInv /\ CutFromBlocks
        => \A k \in 1..Len(matches) :
               LET n == matches[k].line IN
               lines[n].size > 0 /\ (context = 0 \/ Before(n) <= MatchBytes - RuneBytes)
                   => matches[k].kept > Before(n)
  BY <1>2
<1> QED BY <1>1, <1>3, CutsStep, Invariance, PTL DEF Spec
----------------------------------------------------------------------------
\* How long a scan can last.

\* The lines ahead of the scan, and the return.
Rank == Len(lines) + 1 - i + (IF returned THEN 0 ELSE 1)

\* A search looks at each line once: every step brings it nearer to its return.
THEOREM ScansAreBounded == Spec => [](Rank \in 0..(MaxLines + 1)) /\ [][Rank' < Rank]_vars
<1>1. IInv => /\ Len(lines) \in 0..MaxLines /\ i \in 1..(Len(lines) + 1)
              /\ Rank \in 0..(MaxLines + 1)
  <2> SUFFICES ASSUME IInv
               PROVE  /\ Len(lines) \in 0..MaxLines /\ i \in 1..(Len(lines) + 1)
                      /\ Rank \in 0..(MaxLines + 1)
    OBVIOUS
  <2>1. MaxLines \in Nat /\ Len(lines) \in 0..MaxLines /\ i \in 1..(Len(lines) + 1)
    BY LinesAreTyped, GrepAssumption DEF IInv, TypeOK, Typed
  <2> QED BY <2>1 DEF Rank
<1>2. IInv /\ [Next]_vars => [Rank' < Rank]_vars
  <2> SUFFICES ASSUME IInv, Next PROVE Rank' < Rank
    OBVIOUS
  <2>1. MaxLines \in Nat /\ Len(lines) \in 0..MaxLines /\ i \in 1..(Len(lines) + 1)
    BY <1>1, GrepAssumption
  <2>2. CASE Pass \/ Take
    <3>1. UNCHANGED lines /\ i' = i + 1 /\ ~returned
      BY <2>2 DEF Pass, Take, Scanning
    <3> QED BY <2>1, <3>1 DEF Rank
  <2>3. CASE StopAtCap \/ EndOfValue
    <3>1. UNCHANGED <<lines, i>> /\ ~returned /\ returned'
      BY <2>3 DEF StopAtCap, EndOfValue, Scanning
    <3> QED BY <2>1, <3>1 DEF Rank
  <2> QED BY <2>2, <2>3 DEF Next
<1> QED BY <1>1, <1>2, Invariance, PTL DEF Spec
=============================================================================
