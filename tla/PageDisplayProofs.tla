------------------------- MODULE PageDisplayProofs -------------------------
(***************************************************************************)
(* What the reader keeps, for every text, every size of the LCD and of     *)
(* pageBreak, and whatever the words next to pageBreak hold.               *)
(*                                                                         *)
(* The rows of a page are a recursive function of the place where the page *)
(* starts.  That it has the values its definition gives is proved first,   *)
(* by the least number of rows for which it would not.  Then all rests on  *)
(* one fact about the layout: a page that starts earlier in the text has   *)
(* each row start no later, and so has a row wherever the other has one.   *)
(* This is why scrollDown, which goes back, may print over the old page.   *)
(***************************************************************************)
EXTENDS PageDisplay, FiniteSetTheorems, WellFoundedInduction, TLAPS

LEMMA LeastOf ==
  ASSUME NEW S \in SUBSET Nat, S # {}
  PROVE  \E n \in S : \A m \in S : n <= m
<1> DEFINE R == OpToRel(<, Nat)
<1>1. IsWellFoundedOn(R, Nat)
  BY NatLessThanWellFounded
<1>2. PICK n \in S : \A m \in S : <<m, n>> \notin R
  BY <1>1, WFMin
<1>3. \A i, j \in Nat : i < j => <<i, j>> \in R
  BY DEF OpToRel
<1>4. \A m \in S : ~(m < n)
  <2> HIDE DEF R
  <2> QED
    BY <1>2, <1>3
<1>5. \A i, j \in Nat : ~(i < j) => j <= i
  OBVIOUS
<1> QED
  BY <1>4, <1>5

\* Induction over a row's number, stated of a set.
LEMMA RowInduction ==
  ASSUME NEW N \in Nat, NEW T, 1 \in T,
         \A k \in 1 .. N : k < N /\ k \in T => k + 1 \in T
  PROVE  1 .. N \subseteq T
<1> DEFINE S == {k \in 1 .. N : k \notin T}
<1> SUFFICES ASSUME S # {} PROVE FALSE
  OBVIOUS
<1>1. PICK n \in S : \A m \in S : n <= m
  <2>1. S \in SUBSET Nat
    OBVIOUS
  <2> HIDE DEF S
  <2> QED
    BY <2>1, LeastOf
<1>2. n \in 1 .. N /\ n \notin T /\ n # 1
  BY <1>1
<1>3. n - 1 \in 1 .. N /\ n - 1 < N /\ n - 1 \notin S
  BY <1>1, <1>2
<1>4. n - 1 \in T
  BY <1>3
<1>5. (n - 1) + 1 \in T
  BY <1>3, <1>4
<1> QED
  BY <1>2, <1>5
-----------------------------------------------------------------------------
(* The layout of a text.                                                   *)

LEMMA MinOf ==
  ASSUME NEW S \in SUBSET Nat, S # {}
  PROVE  Min(S) \in S /\ \A n \in S : Min(S) <= n
BY LeastOf DEF Min

\* strchr finds the first newline from p on, or none.
LEMMA NewlineIs ==
  ASSUME NEW nl \in SUBSET Nat, NEW p
  PROVE  \/ /\ Newline(nl, p) = NULL
            /\ \A n \in nl : ~(n >= p)
         \/ /\ Newline(nl, p) \in nl
            /\ Newline(nl, p) >= p
            /\ Newline(nl, p) # NULL
            /\ \A n \in nl : n >= p => Newline(nl, p) <= n
<1> DEFINE after == {n \in nl : n >= p}
<1>1. CASE after = {}
  BY <1>1 DEF Newline
<1>2. CASE after # {}
  <2>1. after \in SUBSET Nat
    OBVIOUS
  <2>2. Newline(nl, p) = Min(after)
    BY <1>2 DEF Newline
  <2>3. Min(after) \in after /\ \A n \in after : Min(after) <= n
    <3> HIDE DEF after
    <3> QED
      BY <1>2, <2>1, MinOf
  <2>4. \A n \in Nat : n # NULL
    BY DEF NULL
  <2> QED
    BY <2>2, <2>3, <2>4
<1> QED
  BY <1>1, <1>2

\* There is a row at p exactly if there is a newline to end it.
LEMMA HasRowIs ==
  ASSUME NEW nl \in SUBSET Nat, NEW p \in Nat
  PROVE  HasRow(nl, p) <=> \E n \in nl : n >= p
<1>1. p # NULL
  BY DEF NULL
<1> QED
  BY <1>1, NewlineIs DEF HasRow

\* A row ends within the LCD, at its newline or before it.
LEMMA RowEndIs ==
  ASSUME NEW nl \in SUBSET Nat, NEW p \in Nat, HasRow(nl, p)
  PROVE  /\ Newline(nl, p) \in nl
         /\ RowEnd(nl, p) \in p .. p + Width
         /\ RowEnd(nl, p) <= Newline(nl, p)
         /\ \A n \in nl : ~(p <= n /\ n < RowEnd(nl, p))
         /\ RowEnd(nl, p) \in nl <=> ~IsLong(nl, p)
         /\ IsLong(nl, p) => RowEnd(nl, p) = p + Width
         /\ ~IsLong(nl, p) => RowEnd(nl, p) = Newline(nl, p)
<1> DEFINE N == Newline(nl, p)
<1>1. N \in nl /\ N \in Nat /\ N >= p /\ \A n \in nl : n >= p => N <= n
  BY NewlineIs DEF HasRow
<1>2. Width \in Nat \ {0}
  BY LayoutAssumption
<1>3. CASE N - p > Width
  <2>1. RowEnd(nl, p) = p + Width /\ IsLong(nl, p)
    BY <1>3 DEF RowEnd, IsLong
  <2>2. p + Width \in p .. p + Width /\ p + Width < N
    BY <1>1, <1>2, <1>3
  <2>3. p + Width \notin nl
    BY <1>1, <1>2, <2>2
  <2> HIDE DEF N
  <2>4. \A n \in nl : ~(p <= n /\ n < p + Width)
    BY <1>1, <1>2, <2>2
  <2> QED
    BY <1>1, <2>1, <2>2, <2>3, <2>4 DEF N
<1>4. CASE ~(N - p > Width)
  <2>1. RowEnd(nl, p) = N /\ ~IsLong(nl, p)
    BY <1>4 DEF RowEnd, IsLong
  <2>2. N \in p .. p + Width
    BY <1>1, <1>2, <1>4
  <2> QED
    BY <1>1, <2>1, <2>2
<1> QED
  BY <1>3, <1>4

\* The next row goes on at once, or after the newline.
LEMMA NextRowIs ==
  ASSUME NEW nl \in SUBSET Nat, NEW p \in Nat \cup {NULL}
  PROVE  /\ ~HasRow(nl, p) => NextRow(nl, p) = NULL
         /\ HasRow(nl, p) =>
              /\ p \in Nat
              /\ NextRow(nl, p) = IF RowEnd(nl, p) \in nl THEN RowEnd(nl, p) + 1
                                  ELSE RowEnd(nl, p)
              /\ NextRow(nl, p) \in Nat \ {0}
              /\ NextRow(nl, p) <= Newline(nl, p) + 1
<1>1. Width \in Nat \ {0}
  BY LayoutAssumption
<1>2. CASE ~HasRow(nl, p)
  BY <1>2 DEF NextRow
<1>3. CASE HasRow(nl, p)
  <2>1. p \in Nat
    BY <1>3 DEF HasRow
  <2>2. NextRow(nl, p) = IF IsLong(nl, p) THEN RowEnd(nl, p) ELSE RowEnd(nl, p) + 1
    BY <1>3 DEF NextRow
  <2>3. /\ RowEnd(nl, p) \in p .. p + Width
        /\ Newline(nl, p) \in Nat
        /\ RowEnd(nl, p) <= Newline(nl, p)
        /\ RowEnd(nl, p) \in nl <=> ~IsLong(nl, p)
        /\ IsLong(nl, p) => RowEnd(nl, p) = p + Width
    BY <1>3, <2>1, RowEndIs
  <2> QED
    BY <1>1, <1>3, <2>1, <2>2, <2>3
<1> QED
  BY <1>2, <1>3

\* A row that starts no later ends no later, and is there if the other is.
LEMMA NextRowMonotone ==
  ASSUME NEW nl \in SUBSET Nat, NEW p \in Nat, NEW q \in Nat, q <= p, HasRow(nl, p)
  PROVE  HasRow(nl, q) /\ NextRow(nl, q) <= NextRow(nl, p)
<1> DEFINE N == Newline(nl, p)
           M == Newline(nl, q)
<1>1. Width \in Nat \ {0}
  BY LayoutAssumption
<1>2. N \in nl /\ N >= p
  BY NewlineIs DEF HasRow
<1>3. HasRow(nl, q)
  BY <1>2, HasRowIs
<1>4. M \in nl /\ M >= q /\ M <= N
  <2>1. N \in Nat /\ N >= q
    <3> HIDE DEF N
    <3> QED
      BY <1>2
  <2>2. M \in nl /\ M >= q /\ \A n \in nl : n >= q => M <= n
    BY <1>3, NewlineIs DEF HasRow
  <2> QED
    BY <1>2, <2>1, <2>2
<1>5. /\ NextRow(nl, p) = IF N - p > Width THEN p + Width ELSE N + 1
      /\ NextRow(nl, q) = IF M - q > Width THEN q + Width ELSE M + 1
  BY <1>3 DEF NextRow, RowEnd, IsLong
<1>6. N \in Nat /\ M \in Nat
  BY <1>2, <1>4
<1>7. CASE q = p
  BY <1>3, <1>5, <1>6, <1>7, <1>1
<1>8. CASE q < p
  <2> HIDE DEF N, M
  <2> QED
    BY <1>1, <1>2, <1>3, <1>4, <1>5, <1>6, <1>8
<1> QED
  BY <1>7, <1>8
-----------------------------------------------------------------------------
(* The rows of a page.                                                     *)

\* The rows, as their definition has them, for n rows.
RowsUpTo(nl, p, n, g) ==
  g = [k \in 1 .. n |-> IF k = 1 THEN p ELSE NextRow(nl, g[k - 1])]

LEMMA RowsExist ==
  ASSUME NEW nl, NEW p, NEW N \in Nat \ {0}
  PROVE  \E g : RowsUpTo(nl, p, N, g)
<1> DEFINE T == {n \in 1 .. N : \E g : RowsUpTo(nl, p, n, g)}
<1>1. 1 \in T
  <2> DEFINE g == [k \in 1 .. 1 |-> p]
  <2>1. g = [k \in 1 .. 1 |-> IF k = 1 THEN p ELSE NextRow(nl, g[k - 1])]
    OBVIOUS
  <2>2. RowsUpTo(nl, p, 1, g)
    <3> HIDE DEF g
    <3> QED
      BY <2>1 DEF RowsUpTo
  <2> QED
    BY <2>2
<1>2. ASSUME NEW n \in 1 .. N, n < N, n \in T
      PROVE  n + 1 \in T
  <2>1. PICK g : g = [k \in 1 .. n |-> IF k = 1 THEN p ELSE NextRow(nl, g[k - 1])]
    BY <1>2 DEF RowsUpTo
  <2> DEFINE h == [k \in 1 .. n + 1 |-> IF k = n + 1 THEN NextRow(nl, g[n]) ELSE g[k]]
  <2>2. ASSUME NEW k \in 1 .. n + 1
        PROVE  h[k] = IF k = 1 THEN p ELSE NextRow(nl, h[k - 1])
    <3>1. CASE k = n + 1
      <4>1. k # 1 /\ k - 1 = n /\ n \in 1 .. n + 1 /\ n # n + 1
        BY <3>1
      <4>2. h[k - 1] = g[n]
        BY <4>1
      <4> QED
        BY <3>1, <4>1, <4>2
    <3>2. CASE k # n + 1
      <4>1. k \in 1 .. n
        BY <3>2
      <4>2. g[k] = IF k = 1 THEN p ELSE NextRow(nl, g[k - 1])
        BY <2>1, <4>1
      <4>3. k # 1 => k - 1 \in 1 .. n + 1 /\ k - 1 # n + 1
        BY <4>1
      <4>4. h[k] = g[k]
        BY <3>2
      <4>5. k # 1 => h[k - 1] = g[k - 1]
        BY <4>3
      <4> QED
        BY <4>2, <4>4, <4>5
    <3> QED
      BY <3>1, <3>2
  <2>3. h = [k \in 1 .. n + 1 |-> IF k = 1 THEN p ELSE NextRow(nl, h[k - 1])]
    <3>1. h = [k \in 1 .. n + 1 |-> h[k]]
      OBVIOUS
    <3> HIDE DEF h
    <3> QED
      BY <2>2, <3>1
  <2>4. RowsUpTo(nl, p, n + 1, h)
    <3> HIDE DEF h
    <3> QED
      BY <2>3 DEF RowsUpTo
  <2> QED
    BY <1>2, <2>4
<1>3. 1 .. N \subseteq T
  <2> HIDE DEF T
  <2> QED
    BY <1>1, <1>2, RowInduction
<1> QED
  BY <1>3

\* The recursion is well founded: the rows are what their definition says.
LEMMA StartsAre ==
  ASSUME NEW nl, NEW p
  PROVE  /\ Starts(nl, p)[1] = p
         /\ \A k \in 1 .. Rows :
              k # 1 => Starts(nl, p)[k] = NextRow(nl, Starts(nl, p)[k - 1])
<1> DEFINE s == Starts(nl, p)
<1>1. Rows \in Nat \ {0}
  BY LayoutAssumption
<1>2. \E g : g = [k \in 1 .. Rows |-> IF k = 1 THEN p ELSE NextRow(nl, g[k - 1])]
  <2>1. PICK g : RowsUpTo(nl, p, Rows, g)
    BY <1>1, RowsExist
  <2>2. g = [k \in 1 .. Rows |-> IF k = 1 THEN p ELSE NextRow(nl, g[k - 1])]
    BY <2>1 DEF RowsUpTo
  <2> QED
    BY <2>2
<1>3. s = [k \in 1 .. Rows |-> IF k = 1 THEN p ELSE NextRow(nl, s[k - 1])]
  BY <1>2 DEF Starts
<1> HIDE DEF s
<1> QED
  BY <1>1, <1>3 DEF s

LEMMA StartsType ==
  ASSUME NEW nl \in SUBSET Nat, NEW p \in Nat
  PROVE  \A k \in 1 .. Rows : Starts(nl, p)[k] \in Nat \cup {NULL}
<1> DEFINE s == Starts(nl, p)
           T == {k \in 1 .. Rows : s[k] \in Nat \cup {NULL}}
<1>1. Rows \in Nat \ {0}
  BY LayoutAssumption
<1>2. s[1] = p /\ \A k \in 1 .. Rows : k # 1 => s[k] = NextRow(nl, s[k - 1])
  BY StartsAre
<1> HIDE DEF s
<1>3. 1 \in T
  BY <1>1, <1>2
<1>4. \A k \in 1 .. Rows : k < Rows /\ k \in T => k + 1 \in T
  <2> SUFFICES ASSUME NEW k \in 1 .. Rows, k < Rows, s[k] \in Nat \cup {NULL}
               PROVE  s[k + 1] \in Nat \cup {NULL}
    BY <1>1
  <2>1. s[k + 1] = NextRow(nl, s[k])
    BY <1>1, <1>2
  <2> QED
    BY <2>1, NextRowIs
<1>5. 1 .. Rows \subseteq T
  <2> HIDE DEF T
  <2> QED
    BY <1>1, <1>3, <1>4, RowInduction
<1> QED
  BY <1>5 DEF s

\* A page that starts no later has a row wherever the other has one, and it
\* starts no later.
LEMMA StartsMonotone ==
  ASSUME NEW nl \in SUBSET Nat, NEW p \in Nat, NEW q \in Nat, q <= p
  PROVE  \A k \in 1 .. Rows :
           HasRow(nl, Starts(nl, p)[k]) =>
             HasRow(nl, Starts(nl, q)[k]) /\ Starts(nl, q)[k] <= Starts(nl, p)[k]
<1> DEFINE s == Starts(nl, p)
           t == Starts(nl, q)
           T == {k \in 1 .. Rows :
                   HasRow(nl, s[k]) => HasRow(nl, t[k]) /\ t[k] <= s[k]}
<1>1. Rows \in Nat \ {0}
  BY LayoutAssumption
<1>2. /\ s[1] = p /\ \A k \in 1 .. Rows : k # 1 => s[k] = NextRow(nl, s[k - 1])
      /\ t[1] = q /\ \A k \in 1 .. Rows : k # 1 => t[k] = NextRow(nl, t[k - 1])
  BY StartsAre
<1>3. \A k \in 1 .. Rows : s[k] \in Nat \cup {NULL} /\ t[k] \in Nat \cup {NULL}
  BY StartsType
<1> HIDE DEF s, t
<1>4. 1 \in T
  BY <1>1, <1>2, NextRowMonotone
<1>5. \A k \in 1 .. Rows : k < Rows /\ k \in T => k + 1 \in T
  <2> SUFFICES ASSUME NEW k \in 1 .. Rows, k < Rows,
                      HasRow(nl, s[k]) => HasRow(nl, t[k]) /\ t[k] <= s[k],
                      HasRow(nl, s[k + 1])
               PROVE  HasRow(nl, t[k + 1]) /\ t[k + 1] <= s[k + 1]
    BY <1>1
  <2>1. s[k + 1] = NextRow(nl, s[k]) /\ t[k + 1] = NextRow(nl, t[k]) /\ k + 1 \in 1 .. Rows
    BY <1>1, <1>2
  <2>2. s[k + 1] \in Nat /\ s[k + 1] # NULL
    BY <1>3, <2>1 DEF HasRow
  <2>3. HasRow(nl, s[k])
    BY <1>3, <2>1, <2>2, NextRowIs
  <2>4. HasRow(nl, t[k]) /\ t[k] <= s[k] /\ s[k] \in Nat /\ t[k] \in Nat
    BY <1>3, <2>3, NextRowIs
  <2>5. t[k + 1] <= s[k + 1] /\ t[k + 1] \in Nat
    BY <1>3, <2>1, <2>3, <2>4, NextRowMonotone, NextRowIs
  <2> QED
    BY <2>2, <2>5, NextRowMonotone
<1>6. 1 .. Rows \subseteq T
  <2> HIDE DEF T
  <2> QED
    BY <1>1, <1>4, <1>5, RowInduction
<1> QED
  BY <1>6 DEF s, t

\* A row more needs a newline more.
LEMMA OneLineLess ==
  ASSUME NEW nl \in SUBSET Nat, IsFiniteSet(nl), NEW p \in Nat, HasRow(nl, p),
         NEW m \in Nat, Cardinality({n \in nl : n >= p}) >= m + 1
  PROVE  Cardinality({n \in nl : n >= NextRow(nl, p)}) >= m
<1> DEFINE A == {n \in nl : n >= p}
           N == Newline(nl, p)
           B == {n \in nl : n >= NextRow(nl, p)}
<1>1. N \in A /\ IsFiniteSet(A) /\ IsFiniteSet(B)
  <2>1. N \in nl /\ N >= p
    BY NewlineIs DEF HasRow
  <2> QED
    BY <2>1, FS_Subset
<1>2. A \ {N} \subseteq B
  <2>1. \A n \in nl : n >= p => N <= n
    BY NewlineIs DEF HasRow
  <2>2. NextRow(nl, p) \in Nat /\ NextRow(nl, p) <= N + 1
    BY NextRowIs
  <2>3. N \in Nat
    BY <1>1
  <2> HIDE DEF N
  <2>4. ASSUME NEW n \in nl, n >= p, n # N
        PROVE  n >= NextRow(nl, p)
    <3>1. N <= n /\ n \in Nat
      BY <2>1, <2>4
    <3> QED
      BY <2>2, <2>3, <2>4, <3>1
  <2> QED
    BY <2>4
<1> HIDE DEF A, B, N
<1>3. Cardinality(A \ {N}) = Cardinality(A) - 1 /\ IsFiniteSet(A \ {N})
  BY <1>1, FS_RemoveElement
<1>4. Cardinality(A \ {N}) <= Cardinality(B)
  BY <1>1, <1>2, FS_Subset
<1>5. Cardinality(A) \in Nat /\ Cardinality(B) \in Nat /\ Cardinality(A) >= m + 1
  BY <1>1, FS_CardinalityType DEF A
<1>6. Cardinality(B) >= m
  BY <1>3, <1>4, <1>5
<1> QED
  BY <1>6 DEF B

\* A text with as many lines as there are rows fills the first page.
LEMMA FirstPageIsFull ==
  ASSUME NEW nl \in SUBSET Nat, IsFiniteSet(nl), Cardinality(nl) >= Rows
  PROVE  \A k \in 1 .. Rows : HasRow(nl, Starts(nl, 0)[k])
<1> DEFINE s == Starts(nl, 0)
           Rest(k) == {n \in nl : n >= s[k]}
           T == {k \in 1 .. Rows : s[k] \in Nat /\ Cardinality(Rest(k)) >= Rows - k + 1}
<1>1. Rows \in Nat \ {0}
  BY LayoutAssumption
<1>2. s[1] = 0 /\ \A k \in 1 .. Rows : k # 1 => s[k] = NextRow(nl, s[k - 1])
  BY StartsAre
<1> HIDE DEF s
<1>3. 1 \in T
  <2>1. Rest(1) = nl
    <3>1. \A n \in nl : n >= 0
      OBVIOUS
    <3> QED
      BY <1>2, <3>1
  <2>2. Cardinality(nl) \in Nat
    BY FS_CardinalityType
  <2> QED
    BY <1>1, <1>2, <2>1, <2>2
<1>4. ASSUME NEW k \in 1 .. Rows, s[k] \in Nat, Cardinality(Rest(k)) >= Rows - k + 1
      PROVE  HasRow(nl, s[k])
  <2>1. Cardinality({}) = 0
    BY FS_EmptySet
  <2>2. Rows - k + 1 \in Nat /\ Rows - k + 1 > 0
    BY <1>1
  <2>3. Rest(k) # {}
    <3> HIDE DEF Rest
    <3> QED
      BY <1>4, <2>1, <2>2
  <2> QED
    BY <1>4, <2>3, HasRowIs
<1>5. \A k \in 1 .. Rows : k < Rows /\ k \in T => k + 1 \in T
  <2> SUFFICES ASSUME NEW k \in 1 .. Rows, k < Rows, s[k] \in Nat,
                      Cardinality(Rest(k)) >= Rows - k + 1
               PROVE  s[k + 1] \in Nat /\ Cardinality(Rest(k + 1)) >= Rows - (k + 1) + 1
    BY <1>1
  <2>1. s[k + 1] = NextRow(nl, s[k])
    BY <1>1, <1>2
  <2>2. HasRow(nl, s[k])
    BY <1>4
  <2>3. s[k + 1] \in Nat
    BY <2>1, <2>2, NextRowIs
  <2>4. Rows - k \in Nat /\ Rows - (k + 1) + 1 = Rows - k
    BY <1>1
  <2>5. Cardinality(Rest(k + 1)) >= Rows - k
    BY <2>1, <2>2, <2>4, OneLineLess
  <2> QED
    BY <2>3, <2>4, <2>5
<1>6. 1 .. Rows \subseteq T
  <2> HIDE DEF T
  <2> QED
    BY <1>1, <1>3, <1>5, RowInduction
<1> QED
  BY <1>4, <1>6 DEF s

\* What two skipped rows and a line lead to is a newline, and not at the start.
LEMMA LineEndIs ==
  ASSUME NEW nl \in SUBSET Nat, NEW p \in Nat
  PROVE  LineEnd(nl, p) = NULL \/ LineEnd(nl, p) \in nl \ {0}
<1> DEFINE second == NextRow(nl, p)
           third  == NextRow(nl, second)
<1>1. second \in Nat \cup {NULL}
  BY NextRowIs
<1>2. third = NULL \/ third \in Nat \ {0}
  <2> HIDE DEF second
  <2> QED
    BY <1>1, NextRowIs
<1>3. LineEnd(nl, p) = IF HasRow(nl, third) THEN Newline(nl, third) ELSE NULL
  BY DEF LineEnd
<1> HIDE DEF second, third
<1>4. CASE HasRow(nl, third)
  <2>1. third \in Nat \ {0}
    BY <1>2, <1>4 DEF HasRow
  <2>2. Newline(nl, third) \in nl /\ Newline(nl, third) >= third
    BY <1>4, NewlineIs DEF HasRow
  <2> QED
    BY <1>3, <1>4, <2>1, <2>2
<1>5. CASE ~HasRow(nl, third)
  BY <1>3, <1>5
<1> QED
  BY <1>4, <1>5
-----------------------------------------------------------------------------
(* What is printed.                                                        *)

LEMMA BookIs ==
  ASSUME book \in Books
  PROVE  /\ book.nl \in SUBSET Nat /\ IsFiniteSet(book.nl) /\ Cardinality(book.nl) >= Rows
         /\ book.nl \subseteq 2 .. book.len - 1
         /\ book.len \in Nat
<1>1. /\ book.len \in Nat /\ book.nl \subseteq 2 .. book.len - 1
      /\ Cardinality(book.nl) >= Rows
  BY BookAssumption
<1>2. IsFiniteSet(2 .. book.len - 1)
  BY <1>1, FS_Interval
<1> QED
  BY <1>1, <1>2, FS_Subset

\* A page ends in the text.
LEMMA PageEndIs ==
  ASSUME book \in Books, NEW p \in Nat, IsFull(book.nl, p)
  PROVE  PageEnd(book.nl, p) \in 0 .. book.len
<1> DEFINE r == Starts(book.nl, p)[Rows]
<1>1. Rows \in 1 .. Rows
  BY LayoutAssumption
<1>2. HasRow(book.nl, r) /\ r \in Nat
  BY <1>1, StartsType, BookIs DEF IsFull, HasRow
<1> HIDE DEF r
<1>3. RowEnd(book.nl, r) \in Nat /\ RowEnd(book.nl, r) <= Newline(book.nl, r)
  <2>1. RowEnd(book.nl, r) \in r .. r + Width /\ r + Width \in Nat
    BY <1>2, BookIs, RowEndIs, LayoutAssumption
  <2> QED
    BY <1>2, <2>1, BookIs, RowEndIs
<1>4. Newline(book.nl, r) \in 2 .. book.len - 1
  BY <1>2, BookIs, RowEndIs
<1>5. RowEnd(book.nl, r) \in 0 .. book.len
  BY <1>3, <1>4, BookIs
<1> QED
  BY <1>5 DEF PageEnd, r

\* Printing over a page that starts no earlier leaves nothing of it.
LEMMA PrintedOver ==
  ASSUME book \in Books, NEW p \in Nat, NEW q \in Nat, q <= p
  PROVE  Printed(q, Printed(p, Cleared)) = Printed(q, Cleared)
<1> DEFINE s == Starts(book.nl, p)
           t == Starts(book.nl, q)
           old == Printed(p, Cleared)
<1>1. \A k \in 1 .. Rows : HasRow(book.nl, s[k]) => HasRow(book.nl, t[k])
  BY BookIs, StartsMonotone
<1>2. \A k \in 1 .. Rows : ~HasRow(book.nl, s[k]) => old[k] = Cleared[k]
  BY DEF Printed
<1>3. /\ Printed(q, old) =
           [k \in 1 .. Rows |-> IF HasRow(book.nl, t[k])
                                THEN Row(t[k], RowEnd(book.nl, t[k])) ELSE old[k]]
      /\ Printed(q, Cleared) =
           [k \in 1 .. Rows |-> IF HasRow(book.nl, t[k])
                                THEN Row(t[k], RowEnd(book.nl, t[k])) ELSE Cleared[k]]
  BY DEF Printed
<1> HIDE DEF s, t, old
<1> QED
  BY <1>1, <1>2, <1>3 DEF old

\* The first page replaces all that was shown.
LEMMA FirstPrinted ==
  ASSUME book \in Books, NEW shown
  PROVE  IsFull(book.nl, 0) /\ Printed(0, shown) = Printed(0, Cleared)
<1> DEFINE s == Starts(book.nl, 0)
<1>1. \A k \in 1 .. Rows : HasRow(book.nl, s[k])
  BY BookIs, FirstPageIsFull
<1>2. Rows \in 1 .. Rows
  BY LayoutAssumption
<1>3. \A any : Printed(0, any) =
        [k \in 1 .. Rows |-> IF HasRow(book.nl, s[k])
                             THEN Row(s[k], RowEnd(book.nl, s[k])) ELSE any[k]]
  BY DEF Printed
<1>4. IsFull(book.nl, 0)
  BY <1>1, <1>2 DEF IsFull
<1> HIDE DEF s
<1> QED
  BY <1>1, <1>3, <1>4

\* Where a text position may be.
Places == 0 .. book.len \cup Outside

LEMMA PlacesApart ==
  ASSUME book \in Books
  PROVE  /\ \A p \in Places : p \notin Outside => p \in Nat /\ p \in 0 .. book.len
         /\ \A p \in Nat : p \notin Outside
BY BookIs DEF Places, Outside, NULL, WILD
-----------------------------------------------------------------------------
(* The invariant.                                                          *)

\* Until the first page is shown, nothing of PrintDisplay's state has changed.
OnceInv ==
  /\ doOnce <=> light = "none"
  /\ doOnce => currentPos = NULL /\ pageCount = 0

\* The break after a full page is where its last row ends.
BreakIsEnd ==
  (~doOnce /\ currentPos \notin Outside /\ IsFull(book.nl, currentPos) /\ pageCount + 1 \in Page)
    => pageBreak[pageCount + 1] = PageEnd(book.nl, currentPos)

IInv == TypeOK /\ OnceInv /\ ScreenIsPage /\ BreakIsEnd

\* The counters that wrap stay within pageBreak.
LEMMA Wraps ==
  ASSUME NEW i \in Int
  PROVE  i % PAGES \in Page /\ (i \in Page => i % PAGES = i)
<1>1. PAGES \in Nat \ {0, 1}
  BY LayoutAssumption
<1> QED
  BY <1>1 DEF Page

\* What PrintDisplay does once a page was full.
LEMMA PrintStep ==
  ASSUME TypeOK, ~doOnce, NEW pos \in Places, NEW shown, DOMAIN shown = 1 .. Rows,
         pageCount' \in Page, book' = book, PrintDisplay(pos, shown)
  PROVE  /\ currentPos' = pos /\ doOnce' = FALSE
         /\ pageBreak' \in [Page -> Places]
         /\ DOMAIN screen' = 1 .. Rows
         /\ pos \notin Outside => screen' = Printed(pos, shown)
         /\ BreakIsEnd'
<1> DEFINE next == (pageCount' + 1) % PAGES
           end == PageEnd(book.nl, pos)
<1>1. book \in Books /\ pageBreak \in [Page -> Places] /\ doOnce = FALSE
  BY DEF TypeOK, Places
<1>2. pageCount' + 1 \in Int
  <2>1. \A c \in Page : c + 1 \in Int
    BY DEF Page
  <2> QED
    BY <2>1
<1>3. next \in Page
  BY <1>2, Wraps
<1>4. pageCount' + 1 \in Page => next = pageCount' + 1
  BY <1>2, Wraps
<1>5. currentPos' = pos
  BY DEF PrintDisplay
<1> HIDE DEF next, end
<1>6. CASE pos \notin Outside
  <2>1. /\ screen' = Printed(pos, shown)
        /\ doOnce' = (doOnce /\ ~IsFull(book.nl, pos))
        /\ pageBreak' = IF IsFull(book.nl, pos) THEN [pageBreak EXCEPT ![next] = end]
                        ELSE pageBreak
    BY <1>1, <1>6 DEF PrintDisplay, next, end
  <2>2. doOnce' = FALSE
    BY <1>1, <2>1
  <2>3. IsFull(book.nl, pos) => end \in Places
    BY <1>1, <1>6, PlacesApart, PageEndIs DEF Places, end
  <2>4. pageBreak' \in [Page -> Places]
    BY <1>1, <1>3, <2>1, <2>3
  <2>5. DOMAIN screen' = 1 .. Rows
    BY <2>1 DEF Printed
  <2>6. BreakIsEnd'
    <3> SUFFICES ASSUME IsFull(book.nl, pos), pageCount' + 1 \in Page
                 PROVE  pageBreak'[pageCount' + 1] = PageEnd(book.nl, pos)
      BY <1>5 DEF BreakIsEnd
    <3>1. pageBreak' = [pageBreak EXCEPT ![next] = end] /\ next = pageCount' + 1
      BY <1>4, <2>1
    <3> QED
      BY <1>1, <1>3, <3>1 DEF end
  <2> QED
    BY <1>5, <2>1, <2>2, <2>4, <2>5, <2>6
<1>7. CASE pos \in Outside
  <2>1. /\ UNCHANGED doOnce
        /\ \/ screen' = shown /\ pageBreak' = pageBreak
           \/ /\ screen' = [k \in 1 .. Rows |-> Garbage]
              /\ pageBreak' = [pageBreak EXCEPT ![next] = WILD]
    BY <1>1, <1>7 DEF PrintDisplay, next
  <2>2. WILD \in Places
    BY DEF Places, Outside
  <2>3. pageBreak' \in [Page -> Places] /\ DOMAIN screen' = 1 .. Rows
    BY <1>1, <1>3, <2>1, <2>2
  <2>4. BreakIsEnd'
    BY <1>5, <1>7 DEF BreakIsEnd, Outside, NULL, WILD
  <2> QED
    BY <1>1, <1>5, <1>7, <2>1, <2>3, <2>4
<1> QED
  BY <1>6, <1>7

\* The first call of PrintDisplay shows the first page.
LEMMA FirstStep ==
  ASSUME TypeOK, doOnce, NEW pos, NEW shown,
         pageCount' \in Page, book' = book, PrintDisplay(pos, shown)
  PROVE  /\ currentPos' = 0 /\ doOnce' = FALSE
         /\ pageBreak' \in [Page -> Places]
         /\ DOMAIN screen' = 1 .. Rows
         /\ screen' = Printed(0, Cleared)
         /\ pageCount' = 0 => BreakIsEnd'
<1> DEFINE first == [[i \in Page |-> IF 4 * i < PAGES THEN NULL ELSE pageBreak[i]]
                       EXCEPT ![pageCount'] = 0]
           end == PageEnd(book.nl, 0)
<1>1. book \in Books /\ pageBreak \in [Page -> Places] /\ doOnce = TRUE
  BY DEF TypeOK, Places
<1>2. 0 \in Page /\ 1 \in Page
  BY LayoutAssumption DEF Page
<1>3. 0 \in Places /\ NULL \in Places /\ 0 \notin Outside
  BY <1>1, BookIs, PlacesApart DEF Places, Outside
<1>4. end \in Places /\ IsFull(book.nl, 0) /\ Printed(0, shown) = Printed(0, Cleared)
  BY <1>1, FirstPrinted, PageEndIs DEF Places
<1> HIDE DEF end
<1>5. /\ currentPos' = 0
      /\ screen' = Printed(0, shown)
      /\ doOnce' = (doOnce /\ ~IsFull(book.nl, 0))
      /\ pageBreak' = [first EXCEPT ![1] = end]
  BY <1>1, <1>3, <1>4 DEF PrintDisplay, end
<1>6. first \in [Page -> Places]
  BY <1>1, <1>3
<1> HIDE DEF first
<1>7. pageBreak' \in [Page -> Places] /\ pageBreak'[1] = end
  BY <1>2, <1>4, <1>5, <1>6
<1>8. doOnce' = FALSE
  BY <1>4, <1>5
<1>9. DOMAIN screen' = 1 .. Rows
  BY <1>5 DEF Printed
<1>10. pageCount' = 0 => BreakIsEnd'
  BY <1>5, <1>7 DEF BreakIsEnd, end
<1> QED
  BY <1>4, <1>5, <1>7, <1>8, <1>9, <1>10

LEMMA ClearedIs == DOMAIN Cleared = 1 .. Rows
BY DEF Cleared

\* A way back leads to a place at the current one or before it.
LEMMA BackIs ==
  ASSUME book \in Books, currentPos \in 0 .. book.len,
         NEW rest \in IF currentPos = book.len THEN {-1} ELSE {0, 1},
         NEW pos \in Back(rest)
  PROVE  pos \in 0 .. currentPos
<1> DEFINE last == currentPos + rest
           copy == Reversed(last)
           n == LineEnd(copy, 0)
           m == LineEnd(copy \cup {0}, 0)
           To(k) == IF k = NULL THEN 0 ELSE currentPos - (k + 1)
<1>1. currentPos \in Nat /\ currentPos <= book.len /\ book.len \in Nat
  BY BookIs
<1>2. rest \in {-1, 0, 1} /\ (rest = -1 => currentPos = book.len)
  OBVIOUS
<1>3. \A k \in copy : \E i \in book.nl : i <= currentPos /\ k = last - i
  BY DEF Reversed
<1> HIDE DEF copy
<1>4. \A k \in copy : k \in Nat /\ k + 1 <= currentPos
  <2> TAKE k \in copy
  <2>1. PICK i \in book.nl : i <= currentPos /\ k = last - i
    BY <1>3
  <2>2. i \in 2 .. book.len - 1
    BY BookIs
  <2> QED
    BY <1>1, <1>2, <2>1, <2>2
<1>5. /\ n = NULL \/ n \in copy
      /\ m = NULL \/ m \in copy
  <2>1. copy \in SUBSET Nat /\ copy \cup {0} \in SUBSET Nat /\ 0 \in Nat
    BY <1>4
  <2> QED
    BY <2>1, LineEndIs
<1>6. pos = To(n) \/ pos = To(m)
  <2>1. Back(rest) = {To(n)} \cup (IF rest = 1 THEN {To(m)} ELSE {})
    BY DEF Back, copy
  <2> HIDE DEF n, m, To
  <2> QED
    BY <2>1
<1> HIDE DEF n, m, last
<1>7. \A k : k = NULL \/ k \in copy => To(k) \in 0 .. currentPos
  <2> TAKE k
  <2>1. CASE k = NULL
    BY <1>1, <2>1
  <2>2. CASE k # NULL /\ k \in copy
    <3>1. k \in Nat /\ k + 1 <= currentPos
      BY <1>4, <2>2
    <3> QED
      BY <1>1, <2>2, <3>1
  <2> QED
    BY <2>1, <2>2
<1> QED
  BY <1>5, <1>6, <1>7
-----------------------------------------------------------------------------
(* The steps.                                                              *)

\* Once a page was full, PrintDisplay keeps the invariant if nothing of what
\* is shown before shows through.
LEMMA Shows ==
  ASSUME IInv, ~doOnce, NEW pos \in Places, NEW shown, DOMAIN shown = 1 .. Rows,
         pageCount' \in Page, book' = book, light' \in {"light", "dark"},
         PrintDisplay(pos, shown),
         pos \notin Outside => Printed(pos, shown) = Printed(pos, Cleared)
  PROVE  IInv'
<1>1. /\ currentPos' = pos /\ doOnce' = FALSE
      /\ pageBreak' \in [Page -> Places]
      /\ DOMAIN screen' = 1 .. Rows
      /\ pos \notin Outside => screen' = Printed(pos, shown)
      /\ BreakIsEnd'
  BY PrintStep DEF IInv
<1>2. TypeOK'
  BY <1>1 DEF IInv, TypeOK, Places
<1>3. OnceInv'
  BY <1>1 DEF OnceInv
<1>4. ScreenIsPage'
  <2> SUFFICES ASSUME pos \notin Outside
               PROVE  screen' = Printed(pos, Cleared)'
    BY <1>1 DEF ScreenIsPage, Outside, NULL, WILD
  <2>1. Printed(pos, Cleared)' = Printed(pos, Cleared)
    BY DEF Printed, Cleared
  <2> QED
    BY <1>1, <2>1
<1> QED
  BY <1>1, <1>2, <1>3, <1>4 DEF IInv

LEMMA InitLcdStep ==
  ASSUME IInv, InitLcd
  PROVE  IInv'
<1>1. doOnce /\ pageCount = 0 /\ book \in Books /\ TypeOK
  BY DEF InitLcd, IInv, OnceInv, TypeOK
<1>2. /\ light' = "light" /\ book' = book /\ pageCount' = pageCount
      /\ PrintDisplay(currentPos, screen)
  BY DEF InitLcd
<1>3. pageCount' \in Page
  BY <1>1, <1>2 DEF TypeOK
<1>4. /\ currentPos' = 0 /\ doOnce' = FALSE
      /\ pageBreak' \in [Page -> Places]
      /\ DOMAIN screen' = 1 .. Rows
      /\ screen' = Printed(0, Cleared)
      /\ BreakIsEnd'
  BY <1>1, <1>2, <1>3, FirstStep
<1>5. 0 \in Places
  BY <1>1, BookIs DEF Places
<1>6. TypeOK'
  BY <1>1, <1>2, <1>3, <1>4, <1>5 DEF TypeOK, Places
<1>7. OnceInv'
  BY <1>2, <1>4 DEF OnceInv
<1>8. Printed(0, Cleared)' = Printed(0, Cleared)
  BY <1>2 DEF Printed, Cleared
<1>9. ScreenIsPage'
  BY <1>4, <1>8 DEF ScreenIsPage
<1> QED
  BY <1>4, <1>6, <1>7, <1>9 DEF IInv

LEMMA DarkensStep ==
  ASSUME IInv, Darkens
  PROVE  IInv'
<1>1. /\ light' = "dark" /\ screen' = Cleared /\ light = "light"
      /\ UNCHANGED <<book, currentPos, pageCount, pageBreak, doOnce>>
  BY DEF Darkens
<1>2. TypeOK'
  BY <1>1, ClearedIs DEF IInv, TypeOK
<1>3. OnceInv'
  BY <1>1 DEF IInv, OnceInv
<1>4. ScreenIsPage'
  BY <1>1 DEF ScreenIsPage, Cleared
<1>5. BreakIsEnd'
  BY <1>1 DEF IInv, BreakIsEnd
<1> QED
  BY <1>2, <1>3, <1>4, <1>5 DEF IInv

\* A place prints as on a blank screen over the page that starts there or later.
LEMMA NothingShowsThrough ==
  ASSUME IInv, light # "none", currentPos \notin Outside, NEW q \in Nat, q <= currentPos
  PROVE  Printed(q, screen) = Printed(q, Cleared)
<1>1. book \in Books /\ currentPos \in Nat
  BY PlacesApart DEF IInv, TypeOK, Places
<1>2. screen = Printed(currentPos, Cleared) \/ screen = Cleared
  BY DEF IInv, ScreenIsPage
<1> QED
  BY <1>1, <1>2, PrintedOver

LEMMA LightensStep ==
  ASSUME IInv, Lightens
  PROVE  IInv'
<1>1. /\ light = "dark" /\ light' = "light" /\ book' = book /\ pageCount' = pageCount
      /\ PrintDisplay(currentPos, screen)
  BY DEF Lightens
<1>2. ~doOnce /\ currentPos \in Places /\ DOMAIN screen = 1 .. Rows /\ pageCount' \in Page
  BY <1>1 DEF IInv, OnceInv, TypeOK, Places
<1>3. currentPos \notin Outside => Printed(currentPos, screen) = Printed(currentPos, Cleared)
  <2> SUFFICES ASSUME currentPos \notin Outside
               PROVE  Printed(currentPos, screen) = Printed(currentPos, Cleared)
    OBVIOUS
  <2>1. currentPos \in Nat
    BY <1>2, PlacesApart DEF IInv, TypeOK
  <2> QED
    BY <1>1, <2>1, NothingShowsThrough
<1> QED
  BY <1>1, <1>2, <1>3, Shows

LEMMA TurnsPageStep ==
  ASSUME IInv, TurnsPage
  PROVE  IInv'
<1>1. ~doOnce /\ light' = light /\ book' = book /\ light \in {"light", "dark"}
  BY DEF TurnsPage, IInv, OnceInv, TypeOK
<1>2. PICK i \in {pageCount + 1, pageCount - 1} : TurnTo(i)
  BY DEF TurnsPage, nextPage, prevPage
<1>3. pageCount \in Page /\ pageBreak \in [Page -> Places] /\ currentPos \in Places
      /\ DOMAIN screen = 1 .. Rows
  BY DEF IInv, TypeOK, Places
<1>4. CASE pageCount' = i % PAGES /\ PrintDisplay(pageBreak[pageCount'], Cleared)
  <2>1. i \in Int
    <3>1. \A c \in Page : c + 1 \in Int /\ c - 1 \in Int
      BY DEF Page
    <3> QED
      BY <1>2, <1>3, <3>1
  <2>2. pageCount' \in Page
    BY <1>4, <2>1, Wraps
  <2>3. pageBreak[pageCount'] \in Places
    BY <1>3, <2>2
  <2> QED
    BY <1>1, <1>4, <2>2, <2>3, ClearedIs, Shows
<1>5. CASE UNCHANGED pageCount /\ PrintDisplay(currentPos, screen)
  <2>1. pageCount' \in Page
    BY <1>3, <1>5
  <2>2. currentPos \notin Outside => Printed(currentPos, screen) = Printed(currentPos, Cleared)
    <3> SUFFICES ASSUME currentPos \notin Outside
                 PROVE  Printed(currentPos, screen) = Printed(currentPos, Cleared)
      OBVIOUS
    <3>1. currentPos \in Nat
      BY <1>3, PlacesApart DEF IInv, TypeOK
    <3> QED
      BY <1>1, <3>1, NothingShowsThrough
  <2> QED
    BY <1>1, <1>3, <1>5, <2>1, <2>2, Shows
<1> QED
  BY <1>2, <1>4, <1>5 DEF TurnTo

LEMMA ScrollsStep ==
  ASSUME IInv, Scrolls
  PROVE  IInv'
<1>1. ~doOnce /\ light' = light /\ book' = book /\ light \in {"light", "dark"}
  BY DEF Scrolls, IInv, OnceInv, TypeOK
<1>2. /\ pageCount \in Page /\ currentPos \in Places /\ DOMAIN screen = 1 .. Rows
      /\ book \in Books
  BY DEF IInv, TypeOK, Places
<1>3. CASE scrollUp
  <2> DEFINE n == IF currentPos \in Outside THEN NULL ELSE LineEnd(book.nl, currentPos)
             pos == IF n = NULL THEN WILD ELSE n + 1
  <2>1. UNCHANGED pageCount /\ PrintDisplay(pos, Cleared)
    BY <1>3 DEF scrollUp
  <2>2. n = NULL \/ n \in book.nl
    <3>1. CASE currentPos \in Outside
      BY <3>1
    <3>2. CASE currentPos \notin Outside
      BY <1>2, <3>2, BookIs, PlacesApart, LineEndIs
    <3> QED
      BY <3>1, <3>2
  <2> HIDE DEF n
  <2>3. pos \in Places
    <3>1. WILD \in Places
      BY DEF Places, Outside
    <3>2. \A k \in book.nl : k + 1 \in Places
      BY <1>2, BookIs DEF Places
    <3> QED
      BY <2>2, <3>1, <3>2
  <2> HIDE DEF pos
  <2> QED
    BY <1>1, <1>2, <2>1, <2>3, ClearedIs, Shows
<1>4. CASE scrollDown
  <2>1. CASE UNCHANGED pageCount /\ PrintDisplay(currentPos, screen)
    <3>1. currentPos \notin Outside => Printed(currentPos, screen) = Printed(currentPos, Cleared)
      <4> SUFFICES ASSUME currentPos \notin Outside
                   PROVE  Printed(currentPos, screen) = Printed(currentPos, Cleared)
        OBVIOUS
      <4>1. currentPos \in Nat
        BY <1>2, PlacesApart
      <4> QED
        BY <1>1, <4>1, NothingShowsThrough
    <3> QED
      BY <1>1, <1>2, <2>1, <3>1, Shows
  <2>2. CASE /\ currentPos \notin Outside
             /\ \E rest \in IF currentPos = book.len THEN {-1} ELSE {0, 1} :
                  \E pos \in Back(rest) : PrintDisplay(pos, screen)
    <3>1. PICK rest \in IF currentPos = book.len THEN {-1} ELSE {0, 1} :
            \E pos \in Back(rest) : PrintDisplay(pos, screen)
      BY <2>2
    <3>2. PICK pos \in Back(rest) : PrintDisplay(pos, screen)
      BY <3>1
    <3>3. currentPos \in Nat /\ currentPos \in 0 .. book.len /\ book.len \in Nat
      BY <1>2, <2>2, PlacesApart, BookIs
    <3>4. pos \in 0 .. currentPos
      BY <1>2, <3>3, BackIs
    <3>5. pos \in Nat /\ pos <= currentPos /\ pos \in Places
      BY <3>3, <3>4 DEF Places
    <3>6. Printed(pos, screen) = Printed(pos, Cleared)
      BY <1>1, <2>2, <3>5, NothingShowsThrough
    <3>7. pageCount' = pageCount
      BY <1>4 DEF scrollDown
    <3> QED
      BY <1>1, <1>2, <3>2, <3>5, <3>6, <3>7, Shows
  <2> QED
    BY <1>4, <2>1, <2>2 DEF scrollDown
<1> QED
  BY <1>3, <1>4 DEF Scrolls

LEMMA Inductive == Spec => []IInv
<1>1. Init => IInv
  <2> SUFFICES ASSUME Init PROVE IInv
    OBVIOUS
  <2>1. 0 \in Page
    BY LayoutAssumption DEF Page
  <2>2. doOnce \in BOOLEAN /\ doOnce = TRUE
    BY Zenon DEF Init
  <2>3. TypeOK
    BY <2>1, <2>2 DEF Init, TypeOK, Outside
  <2>4. OnceInv /\ ScreenIsPage /\ BreakIsEnd
    BY <2>2 DEF Init, OnceInv, ScreenIsPage, BreakIsEnd
  <2> QED
    BY <2>3, <2>4 DEF IInv
<1>2. IInv /\ [Next]_vars => IInv'
  <2> SUFFICES ASSUME IInv, [Next]_vars PROVE IInv'
    OBVIOUS
  <2>1. CASE UNCHANGED vars
    BY <2>1 DEF vars, IInv, TypeOK, OnceInv, ScreenIsPage, BreakIsEnd, Printed, Cleared
  <2> QED
    BY <2>1, InitLcdStep, DarkensStep, LightensStep, TurnsPageStep, ScrollsStep DEF Next
<1> QED
  BY <1>1, <1>2, PTL DEF Spec

LEMMA RowIs ==
  ASSUME NEW a, NEW b
  PROVE  Row(a, b).from = a /\ Row(a, b).to = b
BY DEF Row

\* A page on the LCD is text.
LEMMA PrintedIsText ==
  ASSUME TypeOK, currentPos \notin Outside, screen = Printed(currentPos, Cleared),
         NEW k \in 1 .. Rows, screen[k] \notin {Blank, Status}
  PROVE  LET r == screen[k]
         IN  /\ r.from <= r.to /\ r.to <= r.from + Width
             /\ \A n \in r.from .. r.to - 1 : n \notin book.nl
             /\ (k < Rows /\ screen[k + 1] \notin {Blank, Status}) =>
                  screen[k + 1].from = IF r.to \in book.nl THEN r.to + 1 ELSE r.to
<1> DEFINE s == Starts(book.nl, currentPos)
           r == screen[k]
<1>1. /\ book.nl \in SUBSET Nat /\ currentPos \in Nat
      /\ Width \in Nat /\ Rows \in Nat \ {0}
  BY BookIs, PlacesApart, LayoutAssumption DEF TypeOK, Places
<1>2. \A j \in 1 .. Rows : screen[j] \notin {Blank, Status} =>
        HasRow(book.nl, s[j]) /\ screen[j] = Row(s[j], RowEnd(book.nl, s[j]))
  BY DEF Printed, Cleared
<1>3. s[k] \in Nat \cup {NULL} /\ \A j \in 1 .. Rows : j # 1 => s[j] = NextRow(book.nl, s[j - 1])
  BY <1>1, StartsType, StartsAre
<1> HIDE DEF s
<1>4. HasRow(book.nl, s[k]) /\ r.from = s[k] /\ r.to = RowEnd(book.nl, s[k])
  <2>1. HasRow(book.nl, s[k]) /\ r = Row(s[k], RowEnd(book.nl, s[k]))
    BY <1>2
  <2> QED
    BY <2>1, RowIs
<1>5. s[k] \in Nat
  BY <1>3, <1>4 DEF HasRow
<1> HIDE DEF r
<1>6. r.to \in r.from .. r.from + Width /\ \A n \in book.nl : ~(r.from <= n /\ n < r.to)
  BY <1>1, <1>4, <1>5, RowEndIs
<1>7. \A n \in r.from .. r.to - 1 : n \notin book.nl
  <2> TAKE n \in r.from .. r.to - 1
  <2>1. r.from \in Nat /\ r.to \in Nat
    BY <1>1, <1>4, <1>5, <1>6
  <2>2. r.from <= n /\ n < r.to
    BY <2>1
  <2> QED
    BY <1>6, <2>2
<1>8. ASSUME k < Rows, screen[k + 1] \notin {Blank, Status}
      PROVE  screen[k + 1].from = IF r.to \in book.nl THEN r.to + 1 ELSE r.to
  <2>1. k + 1 \in 1 .. Rows /\ k + 1 # 1 /\ (k + 1) - 1 = k
    BY <1>1, <1>8
  <2>2. screen[k + 1].from = s[k + 1]
    <3>1. screen[k + 1] = Row(s[k + 1], RowEnd(book.nl, s[k + 1]))
      BY <1>2, <1>8, <2>1
    <3> QED
      BY <3>1, RowIs
  <2>3. s[k + 1] = NextRow(book.nl, s[k])
    BY <1>3, <2>1
  <2> QED
    BY <1>1, <1>4, <1>5, <2>2, <2>3, NextRowIs
<1>9. r.from <= r.to /\ r.to <= r.from + Width
  BY <1>1, <1>4, <1>5, <1>6
<1> QED
  BY <1>7, <1>8, <1>9 DEF r

\* A row that starts in the text at p is empty exactly if a newline stands there.
LEMMA EmptyRow ==
  ASSUME NEW nl \in SUBSET Nat, NEW p \in Nat, HasRow(nl, p)
  PROVE  RowEnd(nl, p) = p <=> p \in nl
<1>1. Width \in Nat \ {0}
  BY LayoutAssumption
<1>2. CASE IsLong(nl, p)
  <2>1. RowEnd(nl, p) = p + Width /\ \A n \in nl : ~(p <= n /\ n < RowEnd(nl, p))
    BY <1>2, RowEndIs
  <2> QED
    BY <1>1, <2>1
<1>3. CASE ~IsLong(nl, p)
  <2>1. RowEnd(nl, p) \in nl /\ RowEnd(nl, p) \in p .. p + Width
        /\ \A n \in nl : ~(p <= n /\ n < RowEnd(nl, p))
    BY <1>3, RowEndIs
  <2> QED
    BY <1>1, <2>1
<1> QED
  BY <1>2, <1>3

\* Where a full page ends, the next one has a row to show.
LEMMA MoreToShow ==
  ASSUME book \in Books, NEW p \in Nat, IsFull(book.nl, p)
  PROVE  HasRow(book.nl, PageEnd(book.nl, p)) /\ PageEnd(book.nl, p) \in Nat
<1> DEFINE r == Starts(book.nl, p)[Rows]
<1>1. Rows \in 1 .. Rows
  BY LayoutAssumption
<1>2. HasRow(book.nl, r) /\ r \in Nat
  BY <1>1, StartsType, BookIs DEF IsFull, HasRow
<1>3. PageEnd(book.nl, p) = RowEnd(book.nl, r)
  BY DEF PageEnd
<1> HIDE DEF r
<1>4. PageEnd(book.nl, p) \in Nat
  BY BookIs, PageEndIs
<1>5. Newline(book.nl, r) \in book.nl /\ PageEnd(book.nl, p) <= Newline(book.nl, r)
  BY <1>2, <1>3, BookIs, RowEndIs
<1>6. Newline(book.nl, r) >= PageEnd(book.nl, p)
  BY <1>4, <1>5, BookIs
<1> QED
  BY <1>4, <1>5, <1>6, BookIs, HasRowIs

\* Turning from a full page shows the page that goes on at its break.
LEMMA NextPageStep ==
  ASSUME IInv, nextPage, pageCount + 1 \in Page,
         light # "none", currentPos \notin Outside, screen[Rows] # Blank
  PROVE  /\ pageCount' = pageCount + 1
         /\ screen'[1].from = screen[Rows].to
         /\ screen'[1].to = screen[Rows].to <=> screen[Rows].to \in book.nl
<1> DEFINE nl   == book.nl
           last == Starts(nl, currentPos)[Rows]
           end  == PageEnd(nl, currentPos)
<1>1. /\ book \in Books /\ nl \in SUBSET Nat /\ currentPos \in Nat /\ ~doOnce
      /\ Rows \in 1 .. Rows /\ 1 \in 1 .. Rows
  BY BookIs, PlacesApart, LayoutAssumption DEF IInv, TypeOK, OnceInv, Places
<1>2. HasRow(nl, last) /\ screen[Rows] = Row(last, end)
  <2>1. screen = Printed(currentPos, Cleared)
    BY <1>1 DEF IInv, ScreenIsPage, Cleared
  <2> QED
    BY <1>1, <2>1 DEF Printed, Cleared, PageEnd
<1>3. IsFull(nl, currentPos) /\ screen[Rows].to = end
  <2>1. Row(last, end).to = end
    BY RowIs
  <2> QED
    BY <1>2, <2>1 DEF IsFull
<1>4. end \in Nat /\ HasRow(nl, end) /\ end \notin Outside
  BY <1>1, <1>3, MoreToShow, PlacesApart
<1>5. pageBreak[pageCount + 1] = end
  BY <1>1, <1>3 DEF IInv, BreakIsEnd
<1> HIDE DEF end, last
<1>6. pageCount' = pageCount + 1 /\ PrintDisplay(end, Cleared)
  <2>1. pageCount + 1 \in Int
    BY DEF Page
  <2>2. (pageCount + 1) % PAGES = pageCount + 1
    BY <2>1, Wraps
  <2>3. ReadBreak(pageCount + 1) = {end} /\ end # NULL
    BY <1>4, <1>5 DEF ReadBreak, Outside
  <2> QED
    BY <1>5, <2>2, <2>3 DEF nextPage, TurnTo
<1>7. screen' = Printed(end, Cleared)
  BY <1>1, <1>4, <1>6 DEF PrintDisplay
<1>8. screen'[1] = Row(end, RowEnd(nl, end))
  <2>1. Starts(nl, end)[1] = end
    BY StartsAre
  <2> QED
    BY <1>1, <1>4, <1>7, <2>1 DEF Printed
<1>9. screen'[1].from = end /\ screen'[1].to = RowEnd(nl, end)
  BY <1>8, RowIs
<1>10. RowEnd(nl, end) = end <=> end \in nl
  BY <1>1, <1>4, EmptyRow
<1> QED
  BY <1>3, <1>6, <1>9, <1>10
-----------------------------------------------------------------------------
(* The theorems.                                                           *)

\* Every place that is kept, the current one and the breaks, lies in the text
\* or is a stray pointer; pageCount stays an index (PageDisplay.c:36-127).
THEOREM TypeCorrect == Spec => []TypeOK
<1>1. IInv => TypeOK
  BY DEF IInv
<1> QED
  BY <1>1, Inductive, PTL

\* Nothing of an earlier page stays on the LCD, although scrollDown prints
\* over it without clearing it (PageDisplay.c:165-216).
THEOREM PageIsShown == Spec => []ScreenIsPage
<1>1. IInv => ScreenIsPage
  BY DEF IInv
<1> QED
  BY <1>1, Inductive, PTL

\* Rows fit the LCD, hold no newline, and drop and repeat no character of the
\* text, for every width and every text (PageDisplay.c:84-125).
THEOREM TextAsItIs == Spec => []RowsAreText
<1>1. ASSUME IInv PROVE RowsAreText
  <2> SUFFICES ASSUME light = "light", currentPos \notin Outside
               PROVE  RowsAreText
    BY DEF RowsAreText
  <2>1. TypeOK /\ screen = Printed(currentPos, Cleared)
    BY <1>1 DEF IInv, ScreenIsPage
  <2> QED
    BY <2>1, PrintedIsText DEF RowsAreText
<1> QED
  BY <1>1, Inductive, PTL

\* The next page starts where the last row of the one shown ends, however one
\* came to it; at the end of a line it opens with an empty row
\* (PageDisplay.c:98-113, 218-239).
THEOREM PagesContinue == Spec => NextPageContinues
<1> DEFINE Turns == /\ nextPage /\ pageCount + 1 \in Page
                    /\ light # "none" /\ currentPos \notin Outside /\ screen[Rows] # Blank
           Goes  == /\ pageCount' = pageCount + 1
                    /\ screen'[1].from = screen[Rows].to
                    /\ screen'[1].to = screen[Rows].to <=> screen[Rows].to \in book.nl
<1>1. IInv /\ [Next]_vars => [Turns => Goes]_vars
  BY NextPageStep
<1> QED
  BY <1>1, Inductive, PTL DEF Spec, NextPageContinues
=============================================================================
