------------------------------ MODULE StrDistance ------------------------------
(***************************************************************************)
(* str_distance (src/src/utils.c): the edit distance of two strings, row   *)
(* by row of the table A of the distances of their prefixes, of which only *)
(* the previous row (v0) and the current one (v1) are kept.                *)
(*                                                                         *)
(* A step is the work on one character of a, or a return.                  *)
(***************************************************************************)
EXTENDS Naturals, Sequences

CONSTANTS
    Char,
    MaxLength   \* bound on the strings

ASSUME MaxLengthAssumption == MaxLength \in Nat

String == UNION {[1 .. n -> Char] : n \in 0 .. MaxLength}
NoResult == MaxLength + 1   \* it has not returned

Least(x, y) == IF x <= y THEN x ELSE y

\* What it is to compute: A[<<x, y>>] is the distance of the first x characters
\* of s and the first y of t, one edit deleting, inserting or replacing a character.
Prefixes(s, t) == (0 .. Len(s)) \X (0 .. Len(t))

LeastEdits(A, s, t, x, y) ==
    IF x = 0 \/ y = 0 THEN x + y
    ELSE Least(Least(A[<<x - 1, y>>], A[<<x, y - 1>>]) + 1,
               A[<<x - 1, y - 1>>] + (IF s[x] = t[y] THEN 0 ELSE 1))

Distances(s, t) ==
    LET A[p \in Prefixes(s, t)] == LeastEdits(A, s, t, p[1], p[2])
    IN A

EditDistance(s, t) == Distances(s, t)[<<Len(s), Len(t)>>]

VARIABLES
    a, b,   \* the arguments
    i,      \* how many characters of a were worked on
    v0, v1, \* the rows, from column 0 to b's length
    result  \* what was returned, or NoResult

vars == <<a, b, i, v0, v1, result>>

Columns == 0 .. Len(b)

TypeOK ==
    /\ a \in String /\ b \in String
    /\ i \in 0 .. Len(a)
    /\ v0 \in [Columns -> 0 .. MaxLength]
    /\ v1 \in [Columns -> 0 .. MaxLength]
    /\ result \in 0 .. MaxLength + 1

Init ==
    /\ a \in String
    /\ b \in String
    /\ i = 0
    /\ v0 = [j \in Columns |-> j]
    /\ v1 = [j \in Columns |-> 0]
    /\ result = NoResult

\* The degenerate cases.
ReturnAtOnce ==
    /\ i = 0
    /\ result = NoResult
    /\ \/ a = b /\ result' = 0
       \/ a # b /\ (a = <<>> \/ b = <<>>) /\ result' = Len(a)
    /\ UNCHANGED <<a, b, i, v0, v1>>

\* Mutants of CurrentRow: the previous row's column is off by one; the costs are
\* swapped; the least of the three is not taken.
RowOffByOne(c) ==
    LET row[j \in Columns] ==
            IF j = 0 THEN i + 1
            ELSE Least(row[j - 1] + 1,
                       Least(v0[j - 1] + 1,
                             v0[j - 1] + (IF c = b[j] THEN 0 ELSE 1)))
    IN row

CostSwapped(c) ==
    LET row[j \in Columns] ==
            IF j = 0 THEN i + 1
            ELSE Least(row[j - 1] + 1,
                       Least(v0[j] + 1,
                             v0[j - 1] + (IF c = b[j] THEN 1 ELSE 0)))
    IN row

RowOfSums(c) ==
    LET row[j \in Columns] ==
            IF j = 0 THEN i + 1
            ELSE row[j - 1] + 1
    IN row

\* The row of the prefix of a that ends in the character c.
CurrentRow(c) ==
    LET row[j \in Columns] ==
            IF j = 0 THEN i + 1
            ELSE Least(row[j - 1] + 1,
                       Least(v0[j] + 1,
                             v0[j - 1] + (IF c = b[j] THEN 0 ELSE 1)))
    IN row

\* Mutant of CopyRow: one number less is copied.
CopyLess(row) == v0' = [j \in Columns |-> IF j < Len(b) - 1 THEN row[j] ELSE v0[j]]

\* "copy v1 (current row) to v0 (previous row) for next iteration"
\* (utils.c:117): as many numbers as b has characters, all columns but the last.
CopyRow(row) == v0' = [j \in Columns |-> IF j < Len(b) THEN row[j] ELSE v0[j]]

Row ==
    /\ result = NoResult
    /\ a # b /\ a # <<>> /\ b # <<>>
    /\ i < Len(a)
    /\ v1' = CurrentRow(a[i + 1])
    /\ CopyRow(v1')
    /\ i' = i + 1
    /\ UNCHANGED <<a, b, result>>

Return ==
    /\ result = NoResult
    /\ a # b /\ a # <<>> /\ b # <<>>
    /\ i = Len(a)
    /\ result' = v1[Len(b)]
    /\ UNCHANGED <<a, b, i, v0, v1>>

Next == ReturnAtOnce \/ Row \/ Return
Spec == Init /\ [][Next]_vars

-----------------------------------------------------------------------------
\* Properties.

\* v0 is "the previous row of distances" (utils.c:83) in every column but the
\* last: there each number is the distance of two prefixes.
RowIsExact ==
    \A j \in Columns : j < Len(b) =>
        v0[j] = EditDistance(SubSeq(a, 1, i), SubSeq(b, 1, j))

\* Whatever the last column gets wrong, only equal strings, or an empty first
\* one, have distance 0.
ZeroIsEqual ==
    result = 0 => a = b \/ a = <<>>
===============================================================================
