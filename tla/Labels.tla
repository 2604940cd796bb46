------------------------------- MODULE Labels --------------------------------
(***************************************************************************)
(* The look-alike test of internal/score/score.go: the root labels of two  *)
(* domains are folded to what the eye reads, and compared by equality, by  *)
(* edit distance and by containment.  The fold walks a Go map, so its      *)
(* replacements come in any order; the distance is computed row by row.    *)
(* A domain is a sequence of labels, a label a sequence of characters.     *)
(***************************************************************************)
EXTENDS Integers, FiniteSets, SequencesExt

CONSTANT Pairs  \* the <<target, suspect>> domains to compare

\* Splitting a name at its dots leaves at least one label.
ASSUME LabelsAssumption ==
    \A pair \in Pairs :
        /\ pair \in Seq(Seq(Seq(STRING))) /\ Len(pair) = 2
        /\ \A k \in {1, 2} : Len(pair[k]) >= 1

VARIABLES
    pair,     \* the two domains
    words,    \* their root labels, as far as they are folded
    folding,  \* which of the two is being folded
    todo,     \* the map entries the range loop has not visited
    pc,       \* begin, fold, compare, measure or done
    at, row,  \* levenshtein's i and prev: the rows filled, the last of them
    similar   \* the verdict being returned

vars == <<pair, words, folding, todo, pc, at, row, similar>>

\* Variant: one more confusable, which shares a character with another.
ConfusablesOverlapping ==
    {<<<<"r", "n">>, <<"m">>>>, <<<<"v", "v">>, <<"w">>>>, <<<<"0">>, <<"o">>>>, <<<<"1">>, <<"l">>>>,
     <<<<"5">>, <<"s">>>>, <<<<"2">>, <<"z">>>>, <<<<"c", "l">>, <<"d">>>>}

\* The replacements map.
Confusables ==
    {<<<<"r", "n">>, <<"m">>>>, <<<<"v", "v">>, <<"w">>>>, <<<<"0">>, <<"o">>>>, <<<<"1">>, <<"l">>>>,
     <<<<"5">>, <<"s">>>>, <<<<"2">>, <<"z">>>>}

Occurs(old, s, i) ==
    i + Len(old) - 1 <= Len(s) /\ SubSeq(s, i, i + Len(old) - 1) = old

\* strings.ReplaceAll: occurrences from the left, none overlapping another.
Replaced(s, old, new) ==
    LET from[i \in 1 .. Len(s) + 1] ==
            IF i > Len(s) THEN <<>>
            ELSE IF Occurs(old, s, i) THEN new \o from[i + Len(old)]
            ELSE <<s[i]>> \o from[i + 1]
    IN  from[1]

rootLabel(domain) == domain[1]

Init ==
    /\ pair \in Pairs
    /\ words = <<rootLabel(pair[1]), rootLabel(pair[2])>>
    /\ folding = 1
    /\ todo = Confusables
    /\ pc = "begin"
    /\ at = 0 /\ row = <<>>
    /\ similar = FALSE

Return(value) == pc' = "done" /\ similar' = value /\ UNCHANGED <<at, row>>

\* An empty label is like nothing.
Begin ==
    /\ pc = "begin"
    /\ IF <<>> \in {words[1], words[2]} THEN Return(FALSE)
       ELSE pc' = "fold" /\ UNCHANGED <<at, row, similar>>
    /\ UNCHANGED <<pair, words, folding, todo>>

\* One iteration of normalizeConfusables, over whichever entry comes next.
Fold ==
    /\ pc = "fold"
    /\ \E entry \in todo :
          /\ words' = [words EXCEPT ![folding] = Replaced(@, entry[1], entry[2])]
          /\ todo' = todo \ {entry}
    /\ UNCHANGED <<pair, folding, pc, at, row, similar>>

\* normalizeConfusables returns: a is folded before b.
Folded ==
    /\ pc = "fold" /\ todo = {}
    /\ IF folding = 1 THEN folding' = 2 /\ todo' = Confusables /\ UNCHANGED pc
                      ELSE pc' = "compare" /\ UNCHANGED <<folding, todo>>
    /\ UNCHANGED <<pair, words, at, row, similar>>

Shorter == IF Len(words[2]) < Len(words[1]) THEN Len(words[2]) ELSE Len(words[1])

\* The early returns, or the first row of the distance table.
Compare ==
    /\ pc = "compare"
    /\ IF words[1] = words[2] THEN Return(TRUE)
       ELSE IF Shorter < 4 THEN Return(FALSE)
       ELSE /\ pc' = "measure"
            /\ row' = [j \in 0 .. Len(words[2]) |-> j]
            /\ UNCHANGED <<at, similar>>
    /\ UNCHANGED <<pair, words, folding, todo>>

Least(S) == CHOOSE x \in S : \A y \in S : x <= y

\* Variant: a substitution costs as much as a deletion and an insertion.
NextRowIndel(i) ==
    LET cur[j \in 0 .. Len(words[2])] ==
            IF j = 0 THEN i
            ELSE Least({row[j] + 1, cur[j - 1] + 1} \union
                       IF words[1][i] = words[2][j] THEN {row[j - 1]} ELSE {})
    IN  cur

\* levenshtein's cur for the i-th character of a.
NextRow(i) ==
    LET cost(j) == IF words[1][i] = words[2][j] THEN 0 ELSE 1
        cur[j \in 0 .. Len(words[2])] ==
            IF j = 0 THEN i ELSE Least({row[j] + 1, cur[j - 1] + 1, row[j - 1] + cost(j)})
    IN  cur

Measure ==
    /\ pc = "measure" /\ at < Len(words[1])
    /\ row' = NextRow(at + 1)
    /\ at' = at + 1
    /\ UNCHANGED <<pair, words, folding, todo, pc, similar>>

Within(inner, outer) == \E i \in 1 .. Len(outer) : Occurs(inner, outer, i)

\* Variant: only the target's label is looked for in the suspect's.
MeasuredOneWay ==
    /\ pc = "measure" /\ at = Len(words[1])
    /\ Return(row[Len(words[2])] <= 2 \/ (Shorter >= 5 /\ Within(words[1], words[2])))
    /\ UNCHANGED <<pair, words, folding, todo>>

\* The whole table is filled: a small distance, or one label in the other.
Measured ==
    /\ pc = "measure" /\ at = Len(words[1])
    /\ Return(\/ row[Len(words[2])] <= 2
              \/ Shorter >= 5 /\ (Within(words[1], words[2]) \/ Within(words[2], words[1])))
    /\ UNCHANGED <<pair, words, folding, todo>>

Returned == pc = "done" /\ UNCHANGED vars

Next == Begin \/ Fold \/ Folded \/ Compare \/ Measure \/ Measured \/ Returned

Spec == Init /\ [][Next]_vars

-----------------------------------------------------------------------------
(* What the computation is for, said without its loops.                    *)

\* A label as the eye reads it from left to right, all confusables at once.
AsRead(s) ==
    LET from[i \in 1 .. Len(s) + 1] ==
            IF i > Len(s) THEN <<>>
            ELSE LET here == {c \in Confusables : Occurs(c[1], s, i)}
                 IN  IF here = {} THEN <<s[i]>> \o from[i + 1]
                     ELSE LET c == CHOOSE c \in here : TRUE IN c[2] \o from[i + Len(c[1])]
    IN  from[1]

\* The alignments that keep these characters: each has a partner among n, in
\* the same order.
Alignment(kept, n) ==
    {partner \in [kept -> 1 .. n] :
        \A i, j \in kept : i < j => partner[i] < partner[j]}

\* What lining up s with t costs: the characters without a partner are
\* dropped, and unequal partners replaced.
Price(s, t, partner) ==
    LET kept == DOMAIN partner
    IN  Len(s) + Len(t) - 2 * Cardinality(kept)
            + Cardinality({i \in kept : s[i] # t[partner[i]]})

Distance(s, t) ==
    Least(UNION {{Price(s, t, partner) : partner \in Alignment(kept, Len(t))} :
                 kept \in SUBSET (1 .. Len(s))})

AlikeAsRead(s, t) ==
    \/ s = t
    \/ /\ Len(s) >= 4 /\ Len(t) >= 4
       /\ Distance(s, t) <= 2
    \/ /\ Len(s) >= 5 /\ Len(t) >= 5
       /\ \E u \in SubSeqs(s) \intersect SubSeqs(t) : u \in {s, t}

\* The fold means the same in every run: whatever order the map is walked in,
\* a label ends as it is read in one pass.  (score.go:326-340)
FoldIgnoresMapOrder ==
    pc \in {"compare", "measure"} =>
        \A k \in {1, 2} : words[k] = AsRead(rootLabel(pair[k]))

\* Every row of the table is right, not only the last entry: it holds the
\* least number of edits from the characters consumed to each prefix of b.
\* (score.go:343-362)
RowsAreDistances ==
    pc = "measure" =>
        \A j \in 0 .. Len(words[2]) :
            row[j] = Distance(SubSeq(words[1], 1, at), SubSeq(words[2], 1, j))

\* The verdict depends on how the two labels read and on nothing else, and
\* not on which of them is the target's.  (score.go:294-320)
VerdictIsMutual ==
    pc = "done" =>
        LET a == AsRead(rootLabel(pair[1]))
            b == AsRead(rootLabel(pair[2]))
        IN  similar <=> <<>> \notin {a, b} /\ AlikeAsRead(b, a)

=============================================================================
