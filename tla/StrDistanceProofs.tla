--------------------------- MODULE StrDistanceProofs ---------------------------
(***************************************************************************)
(* The invariants of StrDistance, for strings of every length over every   *)
(* alphabet.                                                               *)
(*                                                                         *)
(* The table of distances and the rows of the program are recursive        *)
(* functions. What they compute is proved by induction in the form of      *)
(* NatSetInduction, over a set of numbers; that there is a function that   *)
(* satisfies the equations at all is proved first (DistancesDef, RowDef).  *)
(***************************************************************************)
EXTENDS StrDistance, WellFoundedInduction, TLAPS

USE MaxLengthAssumption

-----------------------------------------------------------------------------
\* Induction.

\* A set of natural numbers that is not empty has a least element.
LEMMA LeastElement ==
    ASSUME NEW T, T \subseteq Nat, T # {}
    PROVE  \E x \in T : \A y \in T : x <= y
<1>1. IsWellFoundedOn(OpToRel(<, Nat), Nat)
  BY NatLessThanWellFounded
<1>2. PICK x \in T : \A y \in T : ~(<<y, x>> \in OpToRel(<, Nat))
  BY <1>1, WFMin
<1>3. \A y \in T : <<y, x>> \in OpToRel(<, Nat) <=> y < x
  BY DEF OpToRel
<1>4. \A y \in T : x \in Nat /\ y \in Nat /\ ~(y < x)
  BY <1>2, <1>3
<1> QED BY <1>4

\* A set that holds 0, and the successor of each of its numbers, holds them all.
LEMMA NatSetInduction ==
    ASSUME NEW S, 0 \in S, \A n \in Nat : n \in S => n + 1 \in S
    PROVE  \A n \in Nat : n \in S
<1> DEFINE T == {n \in Nat : n \notin S}
<1> SUFFICES ASSUME T # {} PROVE FALSE OBVIOUS
<1>1. PICK x \in T : \A y \in T : x <= y BY LeastElement
<1>2. x # 0 OBVIOUS
<1>3. x - 1 \in Nat /\ x - 1 \notin T BY <1>1, <1>2
<1> QED BY <1>3

-----------------------------------------------------------------------------
\* The table of distances.

\* D is a table of the distances of the prefixes of s and t: all of it, or its
\* first k + 1 diagonals.
IsTable(D, s, t) ==
    \A x \in 0 .. Len(s), y \in 0 .. Len(t) :
        D[<<x, y>>] = LeastEdits(D, s, t, x, y)

IsTableUpTo(D, s, t, k) ==
    \A x \in 0 .. Len(s), y \in 0 .. Len(t) :
        x + y <= k => D[<<x, y>>] = LeastEdits(D, s, t, x, y)

\* There is a table of which the numbers on the first k + 1 diagonals satisfy
\* the recursion.
LEMMA DiagonalsExist ==
    ASSUME NEW s, NEW t, Len(s) \in Nat, Len(t) \in Nat, NEW k \in Nat
    PROVE  \E A \in [Prefixes(s, t) -> Nat] : IsTableUpTo(A, s, t, k)
<1> DEFINE S == {n \in Nat : \E A \in [Prefixes(s, t) -> Nat] : IsTableUpTo(A, s, t, n)}
<1>1. 0 \in S
  <2> DEFINE A == [p \in Prefixes(s, t) |-> 0]
  <2>1. A \in [Prefixes(s, t) -> Nat] OBVIOUS
  <2>2. IsTableUpTo(A, s, t, 0) BY DEF IsTableUpTo, LeastEdits, Prefixes
  <2> QED BY <2>1, <2>2
<1>2. ASSUME NEW n \in Nat, n \in S PROVE n + 1 \in S
  <2>1. PICK A \in [Prefixes(s, t) -> Nat] : IsTableUpTo(A, s, t, n) BY <1>2
  <2> DEFINE B == [p \in Prefixes(s, t) |->
        IF p[1] + p[2] = n + 1 THEN LeastEdits(A, s, t, p[1], p[2]) ELSE A[p]]
  <2>2. \A x \in 0 .. Len(s), y \in 0 .. Len(t) :
          /\ <<x, y>> \in Prefixes(s, t)
          /\ A[<<x, y>>] \in Nat
          /\ LeastEdits(A, s, t, x, y) \in Nat
    <3> TAKE x \in 0 .. Len(s), y \in 0 .. Len(t)
    <3>1. \A u \in 0 .. Len(s), v \in 0 .. Len(t) :
             <<u, v>> \in Prefixes(s, t) /\ A[<<u, v>>] \in Nat
      BY DEF Prefixes
    <3>2. CASE x = 0 \/ y = 0 BY <3>1, <3>2 DEF LeastEdits
    <3>3. CASE x # 0 /\ y # 0
      <4>1. x - 1 \in 0 .. Len(s) /\ y - 1 \in 0 .. Len(t) BY <3>3
      <4>2. A[<<x - 1, y>>] \in Nat /\ A[<<x, y - 1>>] \in Nat /\ A[<<x - 1, y - 1>>] \in Nat
        BY <4>1, <3>1
      <4> QED BY <3>1, <3>3, <4>2 DEF LeastEdits, Least
    <3> QED BY <3>2, <3>3
  <2>3. \A x \in 0 .. Len(s), y \in 0 .. Len(t) :
          B[<<x, y>>] = IF x + y = n + 1 THEN LeastEdits(A, s, t, x, y) ELSE A[<<x, y>>]
    BY <2>2
  <2>4. B \in [Prefixes(s, t) -> Nat]
    <3> SUFFICES ASSUME NEW p \in Prefixes(s, t) PROVE B[p] \in Nat OBVIOUS
    <3>1. p = <<p[1], p[2]>> /\ p[1] \in 0 .. Len(s) /\ p[2] \in 0 .. Len(t)
      BY DEF Prefixes
    <3> QED BY <2>2, <3>1
  <2>5. \A x \in 0 .. Len(s), y \in 0 .. Len(t) :
          x + y <= n + 1 => LeastEdits(B, s, t, x, y) = LeastEdits(A, s, t, x, y)
    <3> TAKE x \in 0 .. Len(s), y \in 0 .. Len(t)
    <3> HAVE x + y <= n + 1
    <3> HIDE DEF B
    <3>1. CASE x = 0 \/ y = 0 BY <3>1 DEF LeastEdits
    <3>2. CASE x # 0 /\ y # 0
      <4>1. x - 1 \in 0 .. Len(s) /\ y - 1 \in 0 .. Len(t) BY <3>2
      <4>2. /\ B[<<x - 1, y>>] = A[<<x - 1, y>>]
            /\ B[<<x, y - 1>>] = A[<<x, y - 1>>]
            /\ B[<<x - 1, y - 1>>] = A[<<x - 1, y - 1>>]
        BY <4>1, <2>3
      <4> QED BY <3>2, <4>2 DEF LeastEdits
    <3> QED BY <3>1, <3>2
  <2>6. IsTableUpTo(B, s, t, n + 1)
    <3> SUFFICES ASSUME NEW x \in 0 .. Len(s), NEW y \in 0 .. Len(t), x + y <= n + 1
                 PROVE  B[<<x, y>>] = LeastEdits(B, s, t, x, y)
      BY DEF IsTableUpTo
    <3> HIDE DEF B
    <3>1. CASE x + y = n + 1 BY <3>1, <2>3, <2>5
    <3>2. CASE x + y # n + 1
      <4>1. x + y <= n BY <3>2
      <4>2. A[<<x, y>>] = LeastEdits(A, s, t, x, y) BY <2>1, <4>1 DEF IsTableUpTo
      <4> QED BY <4>2, <3>2, <2>3, <2>5
    <3> QED BY <3>1, <3>2
  <2> QED BY <2>4, <2>6
<1> HIDE DEF S
<1>3. k \in S BY <1>1, <1>2, NatSetInduction
<1> QED BY <1>3 DEF S

\* p is what s begins with.
Begins(p, s) ==
    /\ Len(p) \in 0 .. Len(s)
    /\ \A x \in 1 .. Len(p) : p[x] = s[x]

\* Two tables have the same distances of the prefixes of p and q.
Agree(D, E, p, q) ==
    \A x \in 0 .. Len(p), y \in 0 .. Len(q) : D[<<x, y>>] = E[<<x, y>>]

\* The table of two prefixes is a part of the table of the strings.
LEMMA TablesAgree ==
    ASSUME NEW s, NEW t, NEW p, NEW q, NEW D, NEW E,
           Len(s) \in Nat, Len(t) \in Nat, Begins(p, s), Begins(q, t),
           IsTable(D, s, t), IsTable(E, p, q)
    PROVE  Agree(D, E, p, q)
<1> USE DEF Begins
<1> DEFINE Same(x, y) == D[<<x, y>>] = E[<<x, y>>]
           S == {n \in Nat : \A x \in 0 .. Len(p), y \in 0 .. Len(q) :
                                 x + y <= n => Same(x, y)}
<1>1. ASSUME NEW x \in 0 .. Len(p), NEW y \in 0 .. Len(q),
             \A u \in 0 .. Len(p), w \in 0 .. Len(q) : u + w < x + y => Same(u, w)
      PROVE  Same(x, y)
  <2>1. /\ D[<<x, y>>] = LeastEdits(D, s, t, x, y)
        /\ E[<<x, y>>] = LeastEdits(E, p, q, x, y)
    BY DEF IsTable
  <2>2. CASE x = 0 \/ y = 0 BY <2>1, <2>2 DEF LeastEdits
  <2>3. CASE x # 0 /\ y # 0
    <3>1. /\ x - 1 \in 0 .. Len(p) /\ y - 1 \in 0 .. Len(q)
          /\ x \in 1 .. Len(p) /\ y \in 1 .. Len(q)
      BY <2>3
    <3>2. Same(x - 1, y) /\ Same(x, y - 1) /\ Same(x - 1, y - 1)
      BY <3>1, <1>1
    <3>3. s[x] = p[x] /\ t[y] = q[y] BY <3>1
    <3> QED BY <2>1, <2>3, <3>2, <3>3 DEF LeastEdits
  <2> QED BY <2>2, <2>3
<1> HIDE DEF Same
<1>2. 0 \in S BY <1>1
<1>3. ASSUME NEW n \in Nat, n \in S PROVE n + 1 \in S
  <2> SUFFICES ASSUME NEW x \in 0 .. Len(p), NEW y \in 0 .. Len(q), x + y <= n + 1
               PROVE  Same(x, y)
    OBVIOUS
  <2>1. \A u \in 0 .. Len(p), w \in 0 .. Len(q) : u + w < x + y => Same(u, w)
    BY <1>3
  <2> QED BY <1>1, <2>1
<1> HIDE DEF S
<1>4. \A n \in Nat : n \in S BY <1>2, <1>3, NatSetInduction
<1>5. ASSUME NEW x \in 0 .. Len(p), NEW y \in 0 .. Len(q)
      PROVE  Same(x, y)
  <2>1. x + y \in S BY <1>4
  <2> QED BY <2>1 DEF S
<1> QED BY <1>5 DEF Same, Agree

\* Distances satisfies the equations it is defined by, and its values are
\* numbers.
LEMMA DistancesDef ==
    ASSUME NEW s, NEW t, Len(s) \in Nat, Len(t) \in Nat
    PROVE  /\ IsTable(Distances(s, t), s, t)
           /\ \A x \in 0 .. Len(s), y \in 0 .. Len(t) : Distances(s, t)[<<x, y>>] \in Nat
<1> DEFINE F(A) == [p \in Prefixes(s, t) |-> LeastEdits(A, s, t, p[1], p[2])]
           D == CHOOSE A : A = F(A)
           k == Len(s) + Len(t)
<1>1. k \in Nat /\ \A x \in 0 .. Len(s), y \in 0 .. Len(t) : x + y <= k
  OBVIOUS
<1> HIDE DEF k
<1>2. PICK A \in [Prefixes(s, t) -> Nat] : IsTableUpTo(A, s, t, k)
  BY <1>1, DiagonalsExist
<1>3. IsTable(A, s, t) BY <1>1, <1>2 DEF IsTable, IsTableUpTo
<1>4. \A p \in Prefixes(s, t) :
         p = <<p[1], p[2]>> /\ p[1] \in 0 .. Len(s) /\ p[2] \in 0 .. Len(t)
  BY DEF Prefixes
<1>5. \A x \in 0 .. Len(s), y \in 0 .. Len(t) : <<x, y>> \in Prefixes(s, t)
  BY DEF Prefixes
<1>6. A = F(A)
  <2>1. \A p \in Prefixes(s, t) : A[p] = LeastEdits(A, s, t, p[1], p[2])
    BY <1>3, <1>4 DEF IsTable
  <2> QED BY <2>1
<1>7. D = F(D) BY <1>6
<1>8. Distances(s, t) = D BY DEF Distances
<1> HIDE DEF D
<1>9. IsTable(D, s, t)
  <2>1. \A p \in Prefixes(s, t) : D[p] = LeastEdits(D, s, t, p[1], p[2]) BY <1>7
  <2> QED BY <2>1, <1>5 DEF IsTable
<1>10. Agree(D, A, s, t)
  <2>1. Begins(s, s) /\ Begins(t, t) BY DEF Begins
  <2> QED BY <1>3, <1>9, <2>1, TablesAgree
<1>11. \A x \in 0 .. Len(s), y \in 0 .. Len(t) : D[<<x, y>>] \in Nat
  BY <1>5, <1>10 DEF Agree
<1> QED BY <1>8, <1>9, <1>11

\* Each distance is at most the length of the longer prefix.
LEMMA DistanceBound ==
    ASSUME NEW s, NEW t, Len(s) \in Nat, Len(t) \in Nat
    PROVE  \A x \in 0 .. Len(s), y \in 0 .. Len(t) :
              Distances(s, t)[<<x, y>>] <= x \/ Distances(s, t)[<<x, y>>] <= y
<1> DEFINE D == Distances(s, t)
           S == {n \in Nat : \A x \in 0 .. Len(s), y \in 0 .. Len(t) :
                                 x = n => D[<<x, y>>] <= x \/ D[<<x, y>>] <= y}
<1> HIDE DEF D
<1>1. /\ \A x \in 0 .. Len(s), y \in 0 .. Len(t) : D[<<x, y>>] = LeastEdits(D, s, t, x, y)
      /\ \A x \in 0 .. Len(s), y \in 0 .. Len(t) : D[<<x, y>>] \in Nat
  BY DistancesDef DEF D, IsTable
<1>2. 0 \in S
  <2> SUFFICES ASSUME NEW x \in 0 .. Len(s), NEW y \in 0 .. Len(t), x = 0
               PROVE  D[<<x, y>>] = y
    OBVIOUS
  <2>1. D[<<x, y>>] = LeastEdits(D, s, t, x, y) BY <1>1
  <2> QED BY <2>1 DEF LeastEdits
<1>3. ASSUME NEW n \in Nat, n \in S PROVE n + 1 \in S
  <2> SUFFICES ASSUME NEW x \in 0 .. Len(s), NEW y \in 0 .. Len(t), x = n + 1
               PROVE  D[<<x, y>>] <= x \/ D[<<x, y>>] <= y
    OBVIOUS
  <2>1. D[<<x, y>>] = LeastEdits(D, s, t, x, y) BY <1>1
  <2>2. CASE y = 0 BY <2>1, <2>2 DEF LeastEdits
  <2>3. CASE y # 0
    <3>1. x - 1 \in 0 .. Len(s) /\ y - 1 \in 0 .. Len(t) /\ x - 1 = n BY <2>3
    <3>2. D[<<x - 1, y - 1>>] <= x - 1 \/ D[<<x - 1, y - 1>>] <= y - 1 BY <1>3, <3>1
    <3>3. D[<<x - 1, y>>] \in Nat /\ D[<<x, y - 1>>] \in Nat /\ D[<<x - 1, y - 1>>] \in Nat
      BY <1>1, <3>1
    <3>4. D[<<x, y>>] = Least(Least(D[<<x - 1, y>>], D[<<x, y - 1>>]) + 1,
                              D[<<x - 1, y - 1>>] + (IF s[x] = t[y] THEN 0 ELSE 1))
      BY <2>1, <2>3 DEF LeastEdits
    <3> QED BY <3>1, <3>2, <3>3, <3>4 DEF Least
  <2> QED BY <2>2, <2>3
<1> HIDE DEF S
<1>4. \A n \in Nat : n \in S BY <1>2, <1>3, NatSetInduction
<1>5. ASSUME NEW x \in 0 .. Len(s), NEW y \in 0 .. Len(t)
      PROVE  D[<<x, y>>] <= x \/ D[<<x, y>>] <= y
  <2>1. x \in S BY <1>4
  <2> QED BY <2>1 DEF S
<1> QED BY <1>5 DEF D

\* Only prefixes that are equal have distance 0.
LEMMA DistanceZero ==
    ASSUME NEW s, NEW t, Len(s) \in Nat, Len(t) \in Nat
    PROVE  \A x \in 0 .. Len(s), y \in 0 .. Len(t) :
              Distances(s, t)[<<x, y>>] = 0 => x = y /\ \A k \in 1 .. x : s[k] = t[k]
<1> DEFINE D == Distances(s, t)
           Equal(x, y) == x = y /\ \A k \in 1 .. x : s[k] = t[k]
           S == {n \in Nat : \A x \in 0 .. Len(s), y \in 0 .. Len(t) :
                                 x = n /\ D[<<x, y>>] = 0 => Equal(x, y)}
<1> HIDE DEF D
<1>1. /\ \A x \in 0 .. Len(s), y \in 0 .. Len(t) : D[<<x, y>>] = LeastEdits(D, s, t, x, y)
      /\ \A x \in 0 .. Len(s), y \in 0 .. Len(t) : D[<<x, y>>] \in Nat
  BY DistancesDef DEF D, IsTable
<1>2. 0 \in S
  <2> SUFFICES ASSUME NEW x \in 0 .. Len(s), NEW y \in 0 .. Len(t), x = 0
               PROVE  D[<<x, y>>] = y
    OBVIOUS
  <2>1. D[<<x, y>>] = LeastEdits(D, s, t, x, y) BY <1>1
  <2> QED BY <2>1 DEF LeastEdits
<1>3. ASSUME NEW n \in Nat, n \in S PROVE n + 1 \in S
  <2> SUFFICES ASSUME NEW x \in 0 .. Len(s), NEW y \in 0 .. Len(t),
                      x = n + 1, D[<<x, y>>] = 0
               PROVE  Equal(x, y)
    OBVIOUS
  <2>1. D[<<x, y>>] = LeastEdits(D, s, t, x, y) BY <1>1
  <2>2. CASE y = 0 BY <2>1, <2>2 DEF LeastEdits
  <2>3. CASE y # 0
    <3>1. x - 1 \in 0 .. Len(s) /\ y - 1 \in 0 .. Len(t) /\ x - 1 = n BY <2>3
    <3>2. D[<<x - 1, y>>] \in Nat /\ D[<<x, y - 1>>] \in Nat /\ D[<<x - 1, y - 1>>] \in Nat
      BY <1>1, <3>1
    <3>3. D[<<x, y>>] = Least(Least(D[<<x - 1, y>>], D[<<x, y - 1>>]) + 1,
                              D[<<x - 1, y - 1>>] + (IF s[x] = t[y] THEN 0 ELSE 1))
      BY <2>1, <2>3 DEF LeastEdits
    <3>4. D[<<x - 1, y - 1>>] = 0 /\ s[x] = t[y] BY <3>2, <3>3 DEF Least
    <3>5. Equal(x - 1, y - 1) BY <1>3, <3>1, <3>4
    <3>6. x = y BY <3>5
    <3>7. \A k \in 1 .. x : k \in 1 .. x - 1 \/ k = x OBVIOUS
    <3> QED BY <3>4, <3>5, <3>6, <3>7
  <2> QED BY <2>2, <2>3
<1> HIDE DEF S
<1>4. \A n \in Nat : n \in S BY <1>2, <1>3, NatSetInduction
<1>5. ASSUME NEW x \in 0 .. Len(s), NEW y \in 0 .. Len(t), D[<<x, y>>] = 0
      PROVE  Equal(x, y)
  <2>1. x \in S BY <1>4
  <2> QED BY <1>5, <2>1 DEF S
<1> QED BY <1>5 DEF D

-----------------------------------------------------------------------------
\* Strings and their prefixes.

LEMMA StringType ==
    ASSUME NEW s \in String
    PROVE  s \in Seq(Char) /\ Len(s) \in 0 .. MaxLength
<1>1. PICK n \in 0 .. MaxLength : s \in [1 .. n -> Char] BY DEF String
<1>2. n \in Nat OBVIOUS
<1> QED BY <1>1, <1>2

\* The distance of two prefixes stands in the table of the strings.
LEMMA PrefixDistance ==
    ASSUME NEW s \in String, NEW t \in String, NEW x \in 0 .. Len(s), NEW y \in 0 .. Len(t)
    PROVE  EditDistance(SubSeq(s, 1, x), SubSeq(t, 1, y)) = Distances(s, t)[<<x, y>>]
<1> DEFINE p == SubSeq(s, 1, x)
           q == SubSeq(t, 1, y)
<1>1. s \in Seq(Char) /\ t \in Seq(Char) /\ Len(s) \in Nat /\ Len(t) \in Nat
  BY StringType
<1>2. Len(p) = x /\ \A k \in 1 .. x : p[k] = s[k] BY <1>1
<1>3. Len(q) = y /\ \A k \in 1 .. y : q[k] = t[k] BY <1>1
<1> HIDE DEF p, q
<1>4. Begins(p, s) /\ Begins(q, t) BY <1>2, <1>3 DEF Begins
<1>5. IsTable(Distances(s, t), s, t) /\ IsTable(Distances(p, q), p, q)
  BY <1>1, <1>2, <1>3, DistancesDef
<1>6. Agree(Distances(s, t), Distances(p, q), p, q) BY <1>1, <1>4, <1>5, TablesAgree
<1>7. Distances(s, t)[<<x, y>>] = Distances(p, q)[<<x, y>>]
  BY <1>2, <1>3, <1>6 DEF Agree
<1> QED BY <1>2, <1>3, <1>7 DEF EditDistance, p, q

-----------------------------------------------------------------------------
\* The rows of the program.

\* A row of n + 1 numbers that begins with k; f is what each column takes from
\* the row above.
IsRow(row, n, k, f) ==
    \A j \in 0 .. n : row[j] = IF j = 0 THEN k ELSE Least(row[j - 1] + 1, f[j])

\* There is such a row.
LEMMA RowExists ==
    ASSUME NEW n \in Nat, NEW k \in Nat, NEW f \in [1 .. n -> Nat]
    PROVE  \E row \in [0 .. n -> Nat] : IsRow(row, n, k, f)
<1> DEFINE Good(row, m) ==
        \A j \in 0 .. n : j <= m => row[j] = IF j = 0 THEN k ELSE Least(row[j - 1] + 1, f[j])
           S == {m \in Nat : \E row \in [0 .. n -> Nat] : Good(row, m)}
<1>1. 0 \in S
  <2> DEFINE row == [j \in 0 .. n |-> k]
  <2>1. row \in [0 .. n -> Nat] /\ Good(row, 0) OBVIOUS
  <2> QED BY <2>1
<1>2. ASSUME NEW m \in Nat, m \in S PROVE m + 1 \in S
  <2>1. PICK row \in [0 .. n -> Nat] : Good(row, m) BY <1>2
  <2> DEFINE new == [j \in 0 .. n |-> IF j = m + 1 THEN Least(row[m] + 1, f[j]) ELSE row[j]]
  <2>2. new \in [0 .. n -> Nat]
    <3> SUFFICES ASSUME NEW j \in 0 .. n PROVE new[j] \in Nat OBVIOUS
    <3>1. CASE j = m + 1
      <4>1. m \in 0 .. n /\ j \in 1 .. n BY <3>1
      <4>2. row[m] \in Nat /\ f[j] \in Nat BY <4>1
      <4> QED BY <3>1, <4>2 DEF Least
    <3>2. CASE j # m + 1 BY <3>2
    <3> QED BY <3>1, <3>2
  <2>3. Good(new, m + 1)
    <3> SUFFICES ASSUME NEW j \in 0 .. n, j <= m + 1
                 PROVE  new[j] = IF j = 0 THEN k ELSE Least(new[j - 1] + 1, f[j])
      OBVIOUS
    <3>1. j # 0 => j - 1 \in 0 .. n /\ j - 1 # m + 1 OBVIOUS
    <3>2. j # 0 => new[j - 1] = row[j - 1] BY <3>1
    <3>3. CASE j = m + 1
      <4>1. new[j] = Least(row[j - 1] + 1, f[j]) BY <3>3
      <4> QED BY <3>2, <3>3, <4>1
    <3>4. CASE j # m + 1
      <4>1. new[j] = row[j] /\ j <= m BY <3>4
      <4>2. row[j] = IF j = 0 THEN k ELSE Least(row[j - 1] + 1, f[j]) BY <2>1, <4>1
      <4> HIDE DEF new
      <4> QED BY <3>2, <4>1, <4>2
    <3> QED BY <3>3, <3>4
  <2> HIDE DEF Good
  <2> QED BY <2>2, <2>3
<1> HIDE DEF S
<1>3. n \in S BY <1>1, <1>2, NatSetInduction
<1>4. PICK row \in [0 .. n -> Nat] : Good(row, n) BY <1>3 DEF S
<1>5. IsRow(row, n, k, f) BY <1>4 DEF IsRow
<1> QED BY <1>5

\* What column j takes from the previous row.
FromAbove(c, j) == Least(v0[j] + 1, v0[j - 1] + (IF c = b[j] THEN 0 ELSE 1))

\* The current row satisfies the equations it is computed by, and its values
\* are numbers.
LEMMA RowDef ==
    ASSUME Len(b) \in Nat, i \in Nat, v0 \in [Columns -> Nat], NEW c
    PROVE  /\ CurrentRow(c) = [j \in Columns |-> CurrentRow(c)[j]]
           /\ CurrentRow(c)[0] = i + 1
           /\ \A j \in Columns : CurrentRow(c)[j] \in Nat
           /\ \A j \in Columns : j # 0 =>
                CurrentRow(c)[j] = Least(CurrentRow(c)[j - 1] + 1, FromAbove(c, j))
<1> DEFINE f == [j \in 1 .. Len(b) |-> FromAbove(c, j)]
           F(row) == [j \in Columns |->
               IF j = 0 THEN i + 1
               ELSE Least(row[j - 1] + 1,
                          Least(v0[j] + 1, v0[j - 1] + (IF c = b[j] THEN 0 ELSE 1)))]
           R == CHOOSE row : row = F(row)
<1>1. f \in [1 .. Len(b) -> Nat]
  <2> SUFFICES ASSUME NEW j \in 1 .. Len(b) PROVE FromAbove(c, j) \in Nat OBVIOUS
  <2>1. j \in Columns /\ j - 1 \in Columns BY DEF Columns
  <2>2. v0[j] \in Nat /\ v0[j - 1] \in Nat BY <2>1
  <2> QED BY <2>2 DEF FromAbove, Least
<1>2. i + 1 \in Nat OBVIOUS
<1>3. \A j \in 1 .. Len(b) : f[j] = FromAbove(c, j) OBVIOUS
<1> HIDE DEF f
<1>4. PICK row \in [0 .. Len(b) -> Nat] : IsRow(row, Len(b), i + 1, f)
  BY <1>1, <1>2, RowExists
<1>5. row = F(row)
  <2>1. \A j \in Columns : row[j] =
               IF j = 0 THEN i + 1
               ELSE Least(row[j - 1] + 1,
                          Least(v0[j] + 1, v0[j - 1] + (IF c = b[j] THEN 0 ELSE 1)))
    BY <1>3, <1>4 DEF IsRow, FromAbove, Columns
  <2> QED BY <1>4, <2>1 DEF Columns
<1>6. R = F(R) BY <1>5
<1>7. CurrentRow(c) = R BY DEF CurrentRow
<1> HIDE DEF R
<1>8. /\ R = [j \in Columns |-> R[j]]
      /\ \A j \in Columns : R[j] = IF j = 0 THEN i + 1 ELSE Least(R[j - 1] + 1, FromAbove(c, j))
  BY <1>6 DEF FromAbove
<1>9. R[0] = i + 1
  <2>1. 0 \in Columns BY DEF Columns
  <2> QED BY <1>8, <2>1
<1>10. \A j \in Columns : j # 0 => R[j] = Least(R[j - 1] + 1, FromAbove(c, j))
  BY <1>8
<1>11. \A j \in Columns : R[j] \in Nat
  <2> DEFINE S == {n \in Nat : n \in Columns => R[n] \in Nat}
  <2>1. 0 \in S BY <1>9
  <2>2. ASSUME NEW n \in Nat, n \in S PROVE n + 1 \in S
    <3> SUFFICES ASSUME n + 1 \in Columns PROVE R[n + 1] \in Nat OBVIOUS
    <3>1. n \in Columns /\ n + 1 \in 1 .. Len(b) BY DEF Columns
    <3>2. R[n] \in Nat /\ FromAbove(c, n + 1) \in Nat BY <1>1, <1>3, <2>2, <3>1
    <3>3. R[n + 1] = Least(R[n] + 1, FromAbove(c, n + 1))
      <4>1. n + 1 # 0 /\ (n + 1) - 1 = n OBVIOUS
      <4> QED BY <1>10, <4>1
    <3> QED BY <3>2, <3>3 DEF Least
  <2> HIDE DEF S
  <2>3. \A n \in Nat : n \in S BY <2>1, <2>2, NatSetInduction
  <2> QED BY <2>3 DEF S, Columns
<1> QED BY <1>7, <1>8, <1>9, <1>10, <1>11

-----------------------------------------------------------------------------
\* The inductive invariant.

\* In every column but the last the previous row is the row of the table.
Exact == \A j \in Columns : j < Len(b) => v0[j] = Distances(a, b)[<<i, j>>]

\* The last number of the previous row is never written (utils.c:119).
LastKept == v0[Len(b)] = Len(b)

\* Rows are computed of strings that differ, and the current row ends in 0 only
\* when the strings without their last characters are equal and so are these.
LastRow ==
    i > 0 =>
        /\ a # b /\ a # <<>> /\ b # <<>>
        /\ v1[Len(b)] = 0 =>
              /\ Distances(a, b)[<<i - 1, Len(b) - 1>>] = 0
              /\ a[i] = b[Len(b)]

IInv == TypeOK /\ Exact /\ LastKept /\ LastRow /\ ZeroIsEqual

LEMMA Arguments ==
    ASSUME TypeOK
    PROVE  /\ a \in Seq(Char) /\ Len(a) \in Nat /\ Len(a) <= MaxLength
           /\ b \in Seq(Char) /\ Len(b) \in Nat /\ Len(b) <= MaxLength
           /\ i \in Nat /\ i <= Len(a)
           /\ v0 \in [Columns -> Nat]
  BY StringType DEF TypeOK

\* The program takes the least of the three in another order.
LEMMA LeastOfThree ==
    ASSUME NEW x \in Nat, NEW y \in Nat, NEW z \in Nat
    PROVE  \A cost \in Nat :
              Least(x + 1, Least(y + 1, z + cost)) = Least(Least(y, x) + 1, z + cost)
  BY DEF Least

\* The current row is a row of the table, in every column but the last.
LEMMA RowExact ==
    ASSUME TypeOK, Exact, i < Len(a)
    PROVE  \A j \in Columns : j < Len(b) =>
              CurrentRow(a[i + 1])[j] = Distances(a, b)[<<i + 1, j>>]
<1> DEFINE D == Distances(a, b)
           R == CurrentRow(a[i + 1])
           S == {n \in Nat : n < Len(b) => R[n] = D[<<i + 1, n>>]}
<1>1. /\ Len(a) \in Nat /\ Len(b) \in Nat /\ i \in Nat /\ i <= Len(a)
      /\ v0 \in [Columns -> Nat]
  BY Arguments
<1>2. /\ R[0] = i + 1
      /\ \A j \in Columns : R[j] \in Nat
      /\ \A j \in Columns : j # 0 => R[j] = Least(R[j - 1] + 1, FromAbove(a[i + 1], j))
  BY <1>1, RowDef
<1>3. /\ \A x \in 0 .. Len(a), y \in 0 .. Len(b) : D[<<x, y>>] = LeastEdits(D, a, b, x, y)
      /\ \A x \in 0 .. Len(a), y \in 0 .. Len(b) : D[<<x, y>>] \in Nat
  BY <1>1, DistancesDef DEF IsTable
<1>4. \A j \in Columns : j < Len(b) => v0[j] = D[<<i, j>>]
  BY DEF Exact
<1> HIDE DEF D, R
<1>5. 0 \in S
  <2>1. i + 1 \in 0 .. Len(a) /\ 0 \in 0 .. Len(b) BY <1>1
  <2>2. D[<<i + 1, 0>>] = LeastEdits(D, a, b, i + 1, 0) BY <1>3, <2>1
  <2>3. D[<<i + 1, 0>>] = i + 1 BY <1>1, <2>2 DEF LeastEdits
  <2> QED BY <1>2, <2>3
<1>6. ASSUME NEW n \in Nat, n \in S PROVE n + 1 \in S
  <2> SUFFICES ASSUME n + 1 < Len(b) PROVE R[n + 1] = D[<<i + 1, n + 1>>]
    OBVIOUS
  <2> DEFINE j == n + 1
             cost == IF a[i + 1] = b[j] THEN 0 ELSE 1
  <2>1. /\ n \in 0 .. Len(b) /\ j \in 0 .. Len(b) /\ j # 0 /\ j - 1 = n
        /\ i \in 0 .. Len(a) /\ i + 1 \in 0 .. Len(a) /\ i + 1 # 0 /\ (i + 1) - 1 = i
        /\ n < Len(b) /\ j < Len(b)
    BY <1>1
  <2> HIDE DEF j
  <2>2. /\ D[<<i, n>>] \in Nat /\ D[<<i, j>>] \in Nat /\ D[<<i + 1, n>>] \in Nat
        /\ v0[n] = D[<<i, n>>] /\ v0[j] = D[<<i, j>>] /\ R[n] = D[<<i + 1, n>>]
    BY <1>3, <1>4, <1>6, <2>1 DEF Columns
  <2>3. R[j] = Least(R[n] + 1, FromAbove(a[i + 1], j))
    BY <1>2, <2>1 DEF Columns
  <2>4. FromAbove(a[i + 1], j) = Least(v0[j] + 1, v0[n] + cost)
    BY <2>1 DEF FromAbove
  <2>5. D[<<i + 1, j>>] = LeastEdits(D, a, b, i + 1, j)
    BY <1>3, <2>1
  <2>6. D[<<i + 1, j>>] = Least(Least(D[<<i, j>>], D[<<i + 1, n>>]) + 1, D[<<i, n>>] + cost)
    BY <2>1, <2>5 DEF LeastEdits
  <2>7. cost \in Nat OBVIOUS
  <2> HIDE DEF cost
  <2>8. R[j] = D[<<i + 1, j>>]
    <3>1. R[j] = Least(D[<<i + 1, n>>] + 1, Least(D[<<i, j>>] + 1, D[<<i, n>>] + cost))
      BY <2>2, <2>3, <2>4
    <3>2. \A x, y, z \in Nat : Least(x + 1, Least(y + 1, z + cost)) = Least(Least(y, x) + 1, z + cost)
      BY <2>7, LeastOfThree
    <3> QED BY <2>2, <2>6, <3>1, <3>2
  <2> QED BY <2>8 DEF j
<1> HIDE DEF S
<1>7. \A n \in Nat : n \in S BY <1>5, <1>6, NatSetInduction
<1> QED BY <1>1, <1>7 DEF S, Columns, D, R

\* The numbers of the current row are within the bound, and the last is 0 only
\* when LastRow allows it.
LEMMA RowBounds ==
    ASSUME TypeOK, Exact, LastKept, i < Len(a), b # <<>>
    PROVE  /\ CurrentRow(a[i + 1]) \in [Columns -> 0 .. MaxLength]
           /\ CurrentRow(a[i + 1])[Len(b)] = 0 =>
                 /\ Distances(a, b)[<<i, Len(b) - 1>>] = 0
                 /\ a[i + 1] = b[Len(b)]
<1> DEFINE D == Distances(a, b)
           R == CurrentRow(a[i + 1])
           n == Len(b)
           cost == IF a[i + 1] = b[n] THEN 0 ELSE 1
<1>1. /\ Len(a) \in Nat /\ n \in Nat /\ i \in Nat /\ i <= Len(a)
      /\ Len(a) <= MaxLength /\ n <= MaxLength /\ n # 0
      /\ v0 \in [Columns -> Nat]
  BY Arguments
<1>2. /\ R = [j \in Columns |-> R[j]]
      /\ \A j \in Columns : R[j] \in Nat
      /\ \A j \in Columns : j # 0 => R[j] = Least(R[j - 1] + 1, FromAbove(a[i + 1], j))
  BY <1>1, RowDef
<1>3. \A x \in 0 .. Len(a), y \in 0 .. n :
         D[<<x, y>>] \in Nat /\ (D[<<x, y>>] <= x \/ D[<<x, y>>] <= y)
  BY <1>1, DistancesDef, DistanceBound
<1>4. \A j \in Columns : j < n => R[j] = D[<<i + 1, j>>]
  BY RowExact
<1> HIDE DEF D, R
<1>5. /\ n \in Columns /\ n - 1 \in Columns /\ n - 1 < n
      /\ i \in 0 .. Len(a) /\ i + 1 \in 0 .. Len(a) /\ n - 1 \in 0 .. n
  BY <1>1 DEF Columns
<1>6. v0[n - 1] = D[<<i, n - 1>>] /\ v0[n] = n
  BY <1>5 DEF Exact, LastKept, D
<1>7. R[n] = Least(R[n - 1] + 1, Least(v0[n] + 1, v0[n - 1] + cost))
  <2>1. R[n] = Least(R[n - 1] + 1, FromAbove(a[i + 1], n)) BY <1>1, <1>2, <1>5
  <2> QED BY <2>1 DEF FromAbove
<1>8. D[<<i, n - 1>>] \in Nat /\ (D[<<i, n - 1>>] <= i \/ D[<<i, n - 1>>] <= n - 1)
  BY <1>3, <1>5
<1>9. R[n] \in Nat /\ R[n - 1] \in Nat BY <1>2, <1>5
<1>10. cost \in {0, 1} /\ (cost = 0 => a[i + 1] = b[n]) OBVIOUS
<1> HIDE DEF cost, n
<1>11. R[n] <= MaxLength
  BY <1>1, <1>6, <1>7, <1>8, <1>9, <1>10 DEF Least
<1>12. R[n] = 0 => D[<<i, n - 1>>] = 0 /\ a[i + 1] = b[n]
  BY <1>1, <1>6, <1>7, <1>8, <1>9, <1>10 DEF Least
<1>13. ASSUME NEW j \in Columns PROVE R[j] \in 0 .. MaxLength
  <2>1. CASE j = n BY <1>9, <1>11, <2>1
  <2>2. CASE j # n
    <3>1. j \in 0 .. n /\ j < n BY <1>1, <2>2 DEF Columns, n
    <3>2. R[j] = D[<<i + 1, j>>] BY <1>4, <3>1
    <3>3. D[<<i + 1, j>>] \in Nat /\ (D[<<i + 1, j>>] <= i + 1 \/ D[<<i + 1, j>>] <= j)
      BY <1>3, <1>5, <3>1
    <3> QED BY <1>1, <3>1, <3>2, <3>3
  <2> QED BY <2>1, <2>2
<1>14. R \in [Columns -> 0 .. MaxLength] BY <1>2, <1>13
<1> QED BY <1>12, <1>14 DEF D, R, n

LEMMA InitIInv == Init => IInv
<1> SUFFICES ASSUME Init PROVE IInv OBVIOUS
<1>1. /\ Len(a) \in 0 .. MaxLength /\ Len(b) \in 0 .. MaxLength
  BY StringType DEF Init
<1>2. TypeOK BY <1>1 DEF Init, TypeOK, Columns, NoResult
<1>3. Exact
  <2> SUFFICES ASSUME NEW j \in Columns PROVE v0[j] = Distances(a, b)[<<0, j>>]
    BY DEF Exact, Init
  <2>1. Distances(a, b)[<<0, j>>] = LeastEdits(Distances(a, b), a, b, 0, j)
    BY <1>1, DistancesDef DEF IsTable, Columns
  <2>2. Distances(a, b)[<<0, j>>] = j BY <2>1 DEF LeastEdits, Columns
  <2> QED BY <2>2 DEF Init
<1>4. LastKept BY <1>1 DEF Init, LastKept, Columns
<1>5. LastRow /\ ZeroIsEqual BY DEF Init, LastRow, ZeroIsEqual, NoResult
<1> QED BY <1>2, <1>3, <1>4, <1>5 DEF IInv

LEMMA RowKeepsIInv == IInv /\ Row => IInv'
<1> SUFFICES ASSUME IInv, Row PROVE IInv' OBVIOUS
<1> USE DEF IInv
<1> DEFINE R == CurrentRow(a[i + 1])
<1>1. /\ Len(a) \in Nat /\ Len(b) \in Nat /\ i \in Nat
      /\ Len(a) <= MaxLength /\ Len(b) <= MaxLength
  BY Arguments
<1>2. /\ i < Len(a) /\ b # <<>> /\ a # <<>> /\ a # b
      /\ a' = a /\ b' = b /\ result' = result /\ i' = i + 1
      /\ v1' = R
      /\ v0' = [j \in Columns |-> IF j < Len(b) THEN R[j] ELSE v0[j]]
  BY DEF Row, CopyRow
<1>3. /\ R \in [Columns -> 0 .. MaxLength]
      /\ R[Len(b)] = 0 => /\ Distances(a, b)[<<i, Len(b) - 1>>] = 0
                          /\ a[i + 1] = b[Len(b)]
  BY <1>2, RowBounds
<1>4. \A j \in Columns : j < Len(b) => R[j] = Distances(a, b)[<<i + 1, j>>]
  BY <1>2, RowExact
<1> HIDE DEF R
<1>5. Columns' = Columns BY <1>2 DEF Columns
<1>6. TypeOK'
  <2>1. i' \in 0 .. Len(a') BY <1>1, <1>2
  <2>2. v0' \in [Columns -> 0 .. MaxLength] BY <1>2, <1>3 DEF TypeOK
  <2> QED BY <1>2, <1>3, <1>5, <2>1, <2>2 DEF TypeOK
<1>7. Exact' BY <1>2, <1>4, <1>5 DEF Exact
<1>8. LastKept'
  <2>1. Len(b) \in Columns /\ ~(Len(b) < Len(b)) BY <1>1 DEF Columns
  <2> QED BY <1>2, <2>1 DEF LastKept
<1>9. LastRow'
  <2>1. i' - 1 = i /\ a'[i'] = a[i + 1] BY <1>1, <1>2
  <2> QED BY <1>2, <1>3, <2>1 DEF LastRow
<1>10. ZeroIsEqual' BY <1>2 DEF ZeroIsEqual
<1> QED BY <1>6, <1>7, <1>8, <1>9, <1>10

\* Strings whose last row ends in 0 are equal.
LEMMA ReturnKeepsIInv == IInv /\ Return => IInv'
<1> SUFFICES ASSUME IInv, Return PROVE IInv' OBVIOUS
<1> USE DEF IInv
<1>1. /\ a \in Seq(Char) /\ b \in Seq(Char)
      /\ Len(a) \in Nat /\ Len(b) \in Nat /\ i \in Nat
  BY Arguments
<1>2. /\ i = Len(a) /\ b # <<>> /\ a # <<>> /\ a # b
      /\ result' = v1[Len(b)]
      /\ UNCHANGED <<a, b, i, v0, v1>>
  BY DEF Return
<1>3. Len(a) > 0 /\ Len(b) > 0 BY <1>1, <1>2
<1>4. v1[Len(b)] # 0
  <2> SUFFICES ASSUME v1[Len(b)] = 0 PROVE FALSE OBVIOUS
  <2>1. Distances(a, b)[<<Len(a) - 1, Len(b) - 1>>] = 0 /\ a[Len(a)] = b[Len(b)]
    BY <1>2, <1>3 DEF LastRow
  <2>2. Len(a) - 1 \in 0 .. Len(a) /\ Len(b) - 1 \in 0 .. Len(b) BY <1>1, <1>3
  <2>3. Len(a) - 1 = Len(b) - 1 /\ \A k \in 1 .. Len(a) - 1 : a[k] = b[k]
    BY <1>1, <2>1, <2>2, DistanceZero
  <2>4. Len(a) = Len(b) BY <1>1, <2>3
  <2>5. \A k \in 1 .. Len(a) : a[k] = b[k]
    <3>1. \A k \in 1 .. Len(a) : k \in 1 .. Len(a) - 1 \/ k = Len(a) BY <1>1
    <3> QED BY <2>1, <2>3, <2>4, <3>1
  <2>6. a = b BY <1>1, <2>4, <2>5
  <2> QED BY <1>2, <2>6
<1>5. Columns' = Columns BY <1>2 DEF Columns
<1>6. TypeOK'
  <2>1. Len(b) \in Columns BY <1>1 DEF Columns
  <2>2. v1[Len(b)] \in 0 .. MaxLength BY <2>1 DEF TypeOK
  <2> QED BY <1>2, <1>5, <2>2 DEF TypeOK
<1>7. Exact' /\ LastKept' /\ LastRow' BY <1>2, <1>5 DEF Exact, LastKept, LastRow
<1>8. ZeroIsEqual' BY <1>2, <1>4 DEF ZeroIsEqual
<1> QED BY <1>6, <1>7, <1>8

LEMMA ReturnAtOnceKeepsIInv == IInv /\ ReturnAtOnce => IInv'
<1> SUFFICES ASSUME IInv, ReturnAtOnce PROVE IInv' OBVIOUS
<1> USE DEF IInv
<1>1. /\ a \in Seq(Char) /\ b \in Seq(Char)
      /\ Len(a) \in Nat /\ Len(b) \in Nat /\ i \in Nat /\ Len(a) <= MaxLength
  BY Arguments
<1>2. /\ UNCHANGED <<a, b, i, v0, v1>>
      /\ \/ a = b /\ result' = 0
         \/ a # b /\ (a = <<>> \/ b = <<>>) /\ result' = Len(a)
  BY DEF ReturnAtOnce
<1>3. Columns' = Columns BY <1>2 DEF Columns
<1>4. TypeOK' BY <1>1, <1>2, <1>3 DEF TypeOK
<1>5. Exact' /\ LastKept' /\ LastRow' BY <1>2, <1>3 DEF Exact, LastKept, LastRow
<1>6. ZeroIsEqual' BY <1>1, <1>2 DEF ZeroIsEqual
<1> QED BY <1>4, <1>5, <1>6

LEMMA StepIInv == IInv /\ [Next]_vars => IInv'
<1> SUFFICES ASSUME IInv, [Next]_vars PROVE IInv' OBVIOUS
<1>1. CASE ReturnAtOnce BY <1>1, ReturnAtOnceKeepsIInv
<1>2. CASE Row BY <1>2, RowKeepsIInv
<1>3. CASE Return BY <1>3, ReturnKeepsIInv
<1>4. CASE UNCHANGED vars
  <2>1. UNCHANGED <<a, b, i, v0, v1, result>> BY <1>4 DEF vars
  <2>2. Columns' = Columns BY <2>1 DEF Columns
  <2> QED BY <2>1, <2>2 DEF IInv, TypeOK, Exact, LastKept, LastRow, ZeroIsEqual
<1> QED BY <1>1, <1>2, <1>3, <1>4 DEF Next

LEMMA Invariance == Spec => []IInv
BY InitIInv, StepIInv, PTL DEF Spec

-----------------------------------------------------------------------------
\* The theorems.

\* The rows have a number for every column and the numbers are at most as long
\* as the strings (str_distance's vectors).
THEOREM TypeCorrect == Spec => []TypeOK
<1>1. IInv => TypeOK BY DEF IInv
<1> QED BY <1>1, Invariance, PTL

\* The previous row is the row of the table of distances in every column but
\* the last, after any number of characters (utils.c:83).
THEOREM RowsExact == Spec => []RowIsExact
<1>1. IInv => RowIsExact
  <2> SUFFICES ASSUME IInv, NEW j \in Columns, j < Len(b)
               PROVE  v0[j] = EditDistance(SubSeq(a, 1, i), SubSeq(b, 1, j))
    BY DEF RowIsExact
  <2>1. a \in String /\ b \in String /\ i \in 0 .. Len(a) /\ j \in 0 .. Len(b)
    BY DEF IInv, TypeOK, Columns
  <2>2. EditDistance(SubSeq(a, 1, i), SubSeq(b, 1, j)) = Distances(a, b)[<<i, j>>]
    BY <2>1, PrefixDistance
  <2> QED BY <2>2 DEF IInv, Exact
<1> QED BY <1>1, Invariance, PTL

\* str_distance returns 0 of equal strings and of an empty first one only,
\* whatever its last column gets wrong.
THEOREM ZerosEqual == Spec => []ZeroIsEqual
<1>1. IInv => ZeroIsEqual BY DEF IInv
<1> QED BY <1>1, Invariance, PTL
=============================================================================
