---------------------- MODULE ContentExtractionProofs ----------------------
(*****************************************************************************)
(* Machine-checked lemmas about ContentExtraction: what rewriting the lines  *)
(* of an email one by one preserves, and so what the extractor is certain to *)
(* find, for texts of every length.                                          *)
(*****************************************************************************)
EXTENDS ContentExtraction, SequenceTheorems, WellFoundedInduction, TLAPS

-----------------------------------------------------------------------------
(* Naturals.                                                                 *)

LEMMA NatOrderWellFounded ==
  IsWellFoundedOn({p \in Nat \X Nat : p[1] < p[2]}, Nat)
BY NatLessThanWellFounded DEF OpToRel

(* The first of some positions is one of them, and none comes before it.     *)
LEMMA MinIsMember ==
  ASSUME NEW S \in SUBSET Nat, S # {}
  PROVE  Min(S) \in S /\ \A y \in S : Min(S) <= y
<1> DEFINE R == {p \in Nat \X Nat : p[1] < p[2]}
<1>1. IsWellFoundedOn(R, Nat) /\ S \subseteq Nat
  BY NatOrderWellFounded
<1>2. \A x, y \in Nat : ~(<<y, x>> \in R) => x <= y
  OBVIOUS
<1> HIDE DEF R
<1>3. \E x \in S : \A y \in S : ~(<<y, x>> \in R)
  BY <1>1, WFMin, Zenon
<1>4. \E x \in S : \A y \in S : x <= y
  BY <1>1, <1>2, <1>3
<1> QED
  BY <1>4 DEF Min

(* Induction over a set of naturals.                                         *)
LEMMA Induction ==
  ASSUME NEW T, 0 \in T, \A n \in Nat : n \in T => n + 1 \in T
  PROVE  \A n \in Nat : n \in T
<1> DEFINE S == {n \in Nat : n \notin T}
<1> SUFFICES ASSUME S # {} PROVE FALSE
  OBVIOUS
<1>1. PICK m \in S : \A y \in S : m <= y
  BY MinIsMember
<1>2. m # 0 /\ m - 1 \in Nat /\ m - 1 \notin S
  BY <1>1
<1> QED
  BY <1>1, <1>2

-----------------------------------------------------------------------------
(* Concatenation of many sequences.                                          *)

Solves(ss, f, n) ==
  f = [i \in 1 .. n |-> IF i = 1 THEN ss[i] ELSE f[i - 1] \o ss[i]]

LEMMA ExtendBy ==
  ASSUME NEW ss, NEW k \in Nat, NEW f, Solves(ss, f, k),
         NEW g, g = [i \in 1 .. (k + 1) |-> IF i = 1 THEN ss[i] ELSE f[i - 1] \o ss[i]]
  PROVE  Solves(ss, g, k + 1)
<1>1. \A i \in 1 .. k : f[i] = IF i = 1 THEN ss[i] ELSE f[i - 1] \o ss[i]
  BY Zenon DEF Solves
<1>2. \A i \in 1 .. (k + 1) : g[i] = IF i = 1 THEN ss[i] ELSE f[i - 1] \o ss[i]
  BY Zenon
<1>3. ASSUME NEW i \in 1 .. k PROVE g[i] = f[i]
  <2>1. i \in 1 .. (k + 1)
    OBVIOUS
  <2> QED
    BY <1>1, <1>2, <2>1, Zenon
<1>4. ASSUME NEW i \in 1 .. (k + 1), i # 1 PROVE g[i - 1] = f[i - 1]
  <2>1. i - 1 \in 1 .. k
    BY <1>4
  <2> QED
    BY <1>3, <2>1, Zenon
<1>5. ASSUME NEW i \in 1 .. (k + 1)
      PROVE (IF i = 1 THEN ss[i] ELSE f[i - 1] \o ss[i])
              = (IF i = 1 THEN ss[i] ELSE g[i - 1] \o ss[i])
  BY <1>4, Zenon
<1>6. [i \in 1 .. (k + 1) |-> IF i = 1 THEN ss[i] ELSE f[i - 1] \o ss[i]]
      = [i \in 1 .. (k + 1) |-> IF i = 1 THEN ss[i] ELSE g[i - 1] \o ss[i]]
  BY <1>5, Zenon
<1> QED
  BY <1>6, Zenon DEF Solves

(* The recursion that defines the concatenation has a solution.              *)
LEMMA FlattenDefined ==
  ASSUME NEW ss, NEW n \in Nat
  PROVE  \E f : Solves(ss, f, n)
<1>1. PICK T : T = {k \in Nat : \E f : Solves(ss, f, k)}
  OBVIOUS
<1>2. 0 \in T
  <2>1. PICK f : f = [i \in 1 .. 0 |-> <<>>]
    OBVIOUS
  <2>2. Solves(ss, f, 0)
    BY <2>1 DEF Solves
  <2> QED
    BY <1>1, <2>2
<1>3. ASSUME NEW k \in Nat, k \in T PROVE k + 1 \in T
  <2>1. PICK f : Solves(ss, f, k)
    BY <1>1, <1>3
  <2>2. PICK g : g = [i \in 1 .. (k + 1) |-> IF i = 1 THEN ss[i] ELSE f[i - 1] \o ss[i]]
    OBVIOUS
  <2>3. Solves(ss, g, k + 1)
    BY <2>1, <2>2, ExtendBy, Zenon
  <2> QED
    BY <1>1, <2>3
<1>4. n \in T
  BY <1>2, <1>3, Induction
<1> QED
  BY <1>1, <1>4, Zenon

LEMMA Appended ==
  ASSUME NEW S, NEW s \in Seq(S), NEW t \in Seq(S), NEW both, both = s \o t,
         NEW m \in Nat, m = Len(s), NEW n \in Nat, n = Len(t)
  PROVE  /\ both \in Seq(S)
         /\ Len(both) = m + n
         /\ \A j \in 1 .. m : both[j] = s[j]
         /\ \A j \in 1 .. n : both[m + j] = t[j]
<1>1. /\ both \in Seq(S) /\ Len(both) = m + n
      /\ \A i \in 1 .. m + n : both[i] = IF i <= m THEN s[i] ELSE t[i - m]
  BY ConcatProperties, Zenon
<1>2. \A j \in 1 .. m : both[j] = s[j]
  BY <1>1
<1>3. ASSUME NEW j \in 1 .. n PROVE both[m + j] = t[j]
  <2>1. PICK k \in 1 .. m + n : k = m + j /\ ~(k <= m) /\ k - m = j
    OBVIOUS
  <2>2. both[k] = t[k - m]
    BY <1>1, <2>1, Zenon
  <2> QED
    BY <2>1, <2>2, Zenon
<1> QED
  BY <1>1, <1>2, <1>3, Zenon

(* The first n sequences make up a whole, each from where it starts.         *)
Laid(S, ss, start, whole, n) ==
  /\ whole \in Seq(S)
  /\ start[n] \in Nat
  /\ Len(whole) = start[n] + Len(ss[n])
  /\ \A i \in 1 .. n : \A j \in 1 .. Len(ss[i]) :
       /\ start[i] \in Nat
       /\ start[i] + j \in 1 .. Len(whole)
       /\ whole[start[i] + j] = ss[i][j]

LEMMA LaidNext ==
  ASSUME NEW S, NEW ss, NEW n \in Nat, NEW p, p = n + 1,
         NEW start, NEW whole \in Seq(S), Laid(S, ss, start, whole, n),
         ss[p] \in Seq(S), start[p] = Len(whole), NEW both, both = whole \o ss[p]
  PROVE  Laid(S, ss, start, both, p)
<1>0. Len(whole) \in Nat /\ Len(ss[p]) \in Nat
  BY LenProperties, Zenon
<1>1. PICK m \in Nat, k \in Nat : m = Len(whole) /\ k = Len(ss[p])
  BY <1>0, Zenon
<1>2. /\ both \in Seq(S) /\ Len(both) = m + k
      /\ \A j \in 1 .. m : both[j] = whole[j]
      /\ \A j \in 1 .. k : both[m + j] = ss[p][j]
  <2>1. PICK t \in Seq(S) : t = ss[p]
    OBVIOUS
  <2>2. both = whole \o t /\ k = Len(t)
    BY <1>1, <2>1
  <2> QED
    BY <1>1, <2>1, <2>2, Appended
<1>3. ASSUME NEW i \in 1 .. p, NEW j \in 1 .. Len(ss[i])
      PROVE  /\ start[i] \in Nat
             /\ start[i] + j \in 1 .. Len(both)
             /\ both[start[i] + j] = ss[i][j]
  <2>1. CASE i = p
    <3>1. start[i] = m /\ j \in 1 .. k
      BY <1>1, <2>1, Zenon
    <3>2. m + j \in 1 .. m + k
      BY <3>1
    <3> QED
      BY <1>1, <1>2, <2>1, <3>1, <3>2, Zenon
  <2>2. CASE i # p
    <3>0. i \in 1 .. n
      BY <1>1, <2>2
    <3>1. /\ start[i] \in Nat
          /\ start[i] + j \in 1 .. m
          /\ whole[start[i] + j] = ss[i][j]
      BY <1>1, <3>0, Zenon DEF Laid
    <3>2. start[i] + j \in 1 .. m + k
      BY <3>1
    <3> QED
      BY <1>2, <3>1, <3>2, Zenon
  <2> QED
    BY <2>1, <2>2
<1>4. start[p] \in Nat /\ Len(both) = start[p] + Len(ss[p])
  BY <1>1, <1>2, Zenon
<1> QED
  BY <1>1, <1>2, <1>3, <1>4, Zenon DEF Laid

LEMMA LaidAll ==
  ASSUME NEW S, NEW ss, NEW len \in Nat \ {0}, \A i \in 1 .. len : ss[i] \in Seq(S),
         NEW g, NEW start,
         g[1] = ss[1], \A i \in 2 .. len : g[i] = g[i - 1] \o ss[i],
         start[1] = 0, \A i \in 2 .. (len + 1) : start[i] = Len(g[i - 1])
  PROVE  \A n \in 1 .. len : Laid(S, ss, start, g[n], n)
<1>1. PICK T : T = {n \in Nat : \A p \in 1 .. len : p = n + 1 => Laid(S, ss, start, g[p], p)}
  OBVIOUS
<1>2. 0 \in T
  <2>1. ss[1] \in Seq(S) /\ Len(ss[1]) \in Nat
    BY LenProperties
  <2>2. Laid(S, ss, start, ss[1], 1)
    BY <2>1 DEF Laid
  <2> QED
    BY <1>1, <2>2
<1>3. ASSUME NEW n \in Nat, n \in T PROVE n + 1 \in T
  <2> SUFFICES ASSUME NEW p \in 1 .. len, p = n + 2 PROVE Laid(S, ss, start, g[p], p)
    BY <1>1
  <2>1. PICK q \in 1 .. len : q = n + 1 /\ q \in Nat /\ p = q + 1 /\ q = p - 1
    OBVIOUS
  <2>2. Laid(S, ss, start, g[q], q)
    BY <1>1, <1>3, <2>1, Zenon
  <2>3. p \in 2 .. len /\ p \in 2 .. (len + 1)
    OBVIOUS
  <2>4. g[p] = g[q] \o ss[p] /\ start[p] = Len(g[q])
    BY <2>1, <2>3, Zenon
  <2>5. g[q] \in Seq(S)
    BY <2>2, Zenon DEF Laid
  <2> QED
    BY <2>1, <2>2, <2>4, <2>5, LaidNext, Zenon
<1>4. ASSUME NEW n \in 1 .. len PROVE Laid(S, ss, start, g[n], n)
  <2>1. PICK m \in Nat : n = m + 1
    OBVIOUS
  <2>2. m \in T
    BY <1>2, <1>3, Induction
  <2> QED
    BY <1>1, <2>1, <2>2
<1> QED
  BY <1>4

(* Where each of the sequences starts in their concatenation.                *)
Starts(S, ss, start, whole, len) ==
  /\ whole \in Seq(S)
  /\ start \in [1 .. (len + 1) -> Nat]
  /\ start[1] = 0
  /\ Len(whole) = start[len + 1]
  /\ \A i \in 1 .. len : start[i + 1] = start[i] + Len(ss[i])
  /\ \A i \in 1 .. len : \A j \in 1 .. Len(ss[i]) : whole[start[i] + j] = ss[i][j]

LEMMA FlattenStarts ==
  ASSUME NEW S, NEW ss \in Seq(Seq(S)), NEW len \in Nat, len = Len(ss)
  PROVE  \E start : Starts(S, ss, start, FlattenSeq(ss), len)
<1>1. CASE len = 0
  <2>0. ss = <<>>
    BY <1>1, EmptySeq
  <2>1. FlattenSeq(ss) = <<>> /\ <<>> \in Seq(S) /\ Len(<<>>) = 0
    BY <2>0 DEF FlattenSeq
  <2>2. PICK start : start = [i \in 1 .. 1 |-> 0]
    OBVIOUS
  <2>3. start \in [1 .. (len + 1) -> Nat] /\ start[1] = 0 /\ start[len + 1] = 0
    BY <1>1, <2>2
  <2>4. Starts(S, ss, start, FlattenSeq(ss), len)
    BY <1>1, <2>1, <2>3 DEF Starts
  <2> QED
    BY <2>4
<1>2. CASE len # 0
  <2>1. PICK f : f = [i \in 1 .. len |-> IF i = 1 THEN ss[i] ELSE f[i - 1] \o ss[i]]
    BY FlattenDefined, Zenon DEF Solves
  <2>2. PICK g : /\ g = [i \in 1 .. len |-> IF i = 1 THEN ss[i] ELSE g[i - 1] \o ss[i]]
                 /\ FlattenSeq(ss) = g[len]
    BY <1>2, <2>1 DEF FlattenSeq
  <2>3. \A i \in 1 .. len : g[i] = IF i = 1 THEN ss[i] ELSE g[i - 1] \o ss[i]
    BY <2>2, Zenon
  <2>4. g[1] = ss[1] /\ \A i \in 2 .. len : g[i] = g[i - 1] \o ss[i]
    <3>1. 1 \in 1 .. len /\ \A i \in 2 .. len : i \in 1 .. len /\ i # 1
      BY <1>2
    <3> QED
      BY <2>3, <3>1, Zenon
  <2>5. PICK start : start = [i \in 1 .. (len + 1) |-> IF i = 1 THEN 0 ELSE Len(g[i - 1])]
    OBVIOUS
  <2>6. start[1] = 0 /\ \A i \in 2 .. (len + 1) : start[i] = Len(g[i - 1])
    BY <2>5
  <2>7. \A i \in 1 .. len : ss[i] \in Seq(S)
    OBVIOUS
  <2>8. \A n \in 1 .. len : Laid(S, ss, start, g[n], n)
    BY <1>2, <2>4, <2>6, <2>7, LaidAll
  <2>9. ASSUME NEW n \in 1 .. len
        PROVE  /\ start[n + 1] = start[n] + Len(ss[n])
               /\ start[n] \in Nat /\ start[n + 1] \in Nat
    <3>1. PICK p \in 2 .. (len + 1) : p = n + 1 /\ p - 1 = n
      OBVIOUS
    <3>2. /\ start[p] = Len(g[n]) /\ g[n] \in Seq(S) /\ start[n] \in Nat
          /\ Len(g[n]) = start[n] + Len(ss[n])
      BY <2>6, <2>8, <3>1, Zenon DEF Laid
    <3>3. Len(g[n]) \in Nat
      BY <3>2, LenProperties, Zenon
    <3> QED
      BY <3>1, <3>2, <3>3, Zenon
  <2>10. \A n \in 1 .. (len + 1) : start[n] \in Nat
    <3>1. \A n \in 1 .. (len + 1) : n \in 1 .. len \/ \E m \in 1 .. len : n = m + 1
      BY <1>2
    <3> QED
      BY <2>9, <3>1
  <2>11. start \in [1 .. (len + 1) -> Nat]
    BY <2>5, <2>10
  <2>12. Laid(S, ss, start, g[len], len)
    BY <1>2, <2>8
  <2>13. len \in 1 .. len
    BY <1>2
  <2>14. /\ g[len] \in Seq(S) /\ Len(g[len]) = start[len + 1]
         /\ \A i \in 1 .. len : \A j \in 1 .. Len(ss[i]) : g[len][start[i] + j] = ss[i][j]
    BY <2>9, <2>12, <2>13, Zenon DEF Laid
  <2>15. /\ FlattenSeq(ss) \in Seq(S) /\ Len(FlattenSeq(ss)) = start[len + 1]
         /\ \A i \in 1 .. len : \A j \in 1 .. Len(ss[i]) : FlattenSeq(ss)[start[i] + j] = ss[i][j]
    BY <2>2, <2>14, ZenonT(30)
  <2>16. start[1] = 0 /\ \A i \in 1 .. len : start[i + 1] = start[i] + Len(ss[i])
    BY <2>6, <2>9, Zenon
  <2>17. Starts(S, ss, start, FlattenSeq(ss), len)
    BY <2>11, <2>15, <2>16 DEF Starts
  <2> QED
    BY <2>17
<1> QED
  BY <1>1, <1>2, Zenon

LEMMA StartsGrow ==
  ASSUME NEW S, NEW ss, NEW start, NEW whole, NEW len \in Nat,
         \A i \in 1 .. len : Len(ss[i]) \in Nat,
         Starts(S, ss, start, whole, len),
         NEW i \in 1 .. (len + 1), NEW k \in 1 .. (len + 1), i <= k
  PROVE  start[i] <= start[k]
<1>1. PICK T : T = {n \in Nat : \A m \in 1 .. (len + 1) : m = i + n => start[i] <= start[m]}
  OBVIOUS
<1>2. 0 \in T
  BY <1>1 DEF Starts
<1>3. ASSUME NEW n \in Nat, n \in T PROVE n + 1 \in T
  <2> SUFFICES ASSUME NEW m \in 1 .. (len + 1), m = i + n + 1 PROVE start[i] <= start[m]
    BY <1>1
  <2>1. PICK p \in 1 .. len : p = i + n /\ p \in 1 .. (len + 1) /\ m = p + 1
    OBVIOUS
  <2>2. start[i] <= start[p]
    BY <1>1, <1>3, <2>1, Zenon
  <2>3. start[m] = start[p] + Len(ss[p])
    BY <2>1, Zenon DEF Starts
  <2>4. start[i] \in Nat /\ start[p] \in Nat /\ Len(ss[p]) \in Nat
    BY <2>1 DEF Starts
  <2> QED
    BY <2>2, <2>3, <2>4
<1>4. PICK n \in Nat : k = i + n
  OBVIOUS
<1>5. n \in T
  BY <1>2, <1>3, Induction
<1> QED
  BY <1>1, <1>4, <1>5, Zenon

LEMMA StartsCover ==
  ASSUME NEW S, NEW ss, NEW start, NEW whole, NEW len \in Nat,
         \A i \in 1 .. len : Len(ss[i]) \in Nat,
         Starts(S, ss, start, whole, len), NEW k \in 1 .. Len(whole)
  PROVE  \E i \in 1 .. len : \E j \in 1 .. Len(ss[i]) : k = start[i] + j
<1>1. PICK T : T = {i \in 1 .. (len + 1) : k <= start[i]}
  OBVIOUS
<1>2. start[len + 1] = Len(whole) /\ start[len + 1] \in Nat
  BY DEF Starts
<1>3. len + 1 \in T
  BY <1>1, <1>2
<1>4. T \in SUBSET Nat
  BY <1>1
<1>5. PICK m \in T : \A y \in T : m <= y
  BY <1>3, <1>4, MinIsMember
<1>6. m # 1
  BY <1>1, <1>5 DEF Starts
<1>7. PICK i \in 1 .. len : m = i + 1 /\ i \notin T /\ i \in 1 .. (len + 1)
  BY <1>1, <1>5, <1>6
<1>8. start[m] = start[i] + Len(ss[i]) /\ start[i] \in Nat /\ Len(ss[i]) \in Nat
  BY <1>7 DEF Starts
<1>9. start[i] < k /\ k <= start[i] + Len(ss[i])
  BY <1>1, <1>7, <1>8
<1>10. k - start[i] \in 1 .. Len(ss[i]) /\ k = start[i] + (k - start[i])
  BY <1>8, <1>9
<1> QED
  BY <1>10

-----------------------------------------------------------------------------
(* Lines that are kept, and lines of tables.                                 *)

(* Kept lines stay in their order, next to each other if they were, and      *)
(* there are no others.                                                      *)
Places(S, lines, kept, at, new) ==
  /\ new \in Seq(S)
  /\ at \in [kept -> 1 .. Len(new)]
  /\ \A i \in kept : new[at[i]] = lines[i]
  /\ \A i, k \in kept : i < k => at[i] < at[k]
  /\ \A i, k \in kept : k = i + 1 => at[k] = at[i] + 1
  /\ \A p \in 1 .. Len(new) : \E i \in kept : p = at[i]

LEMMA KeptLines ==
  ASSUME NEW S, NEW lines \in Seq(S), NEW kept \in SUBSET DOMAIN lines
  PROVE  \E at : Places(S, lines, kept, at, Keep(lines, kept))
<1>1. PICK len \in Nat : len = Len(lines) /\ DOMAIN lines = 1 .. len
  OBVIOUS
<1>2. PICK ss : ss = [i \in 1 .. len |-> IF i \in kept THEN <<lines[i]>> ELSE <<>>]
  OBVIOUS
<1>3. \A i \in 1 .. len : lines[i] \in S
  BY <1>1
<1>4. ss \in Seq(Seq(S)) /\ Len(ss) = len
  BY <1>2, <1>3
<1>5. PICK new : new = Keep(lines, kept)
  OBVIOUS
<1>6. new = FlattenSeq(ss)
  BY <1>1, <1>2, <1>5, Zenon DEF Keep
<1>7. PICK start : Starts(S, ss, start, new, len)
  BY <1>4, <1>6, FlattenStarts, Zenon
<1>8. \A i \in 1 .. len : /\ i \in kept => Len(ss[i]) = 1 /\ ss[i][1] = lines[i]
                          /\ i \notin kept => Len(ss[i]) = 0
  BY <1>2
<1>9. \A i \in 1 .. len : Len(ss[i]) \in Nat
  BY <1>8
<1>10. PICK at : at = [i \in kept |-> start[i] + 1]
  OBVIOUS
<1>11. ASSUME NEW i \in kept
       PROVE  /\ i \in 1 .. len /\ i + 1 \in 1 .. (len + 1) /\ i \in 1 .. (len + 1)
              /\ start[i] \in Nat /\ start[i + 1] = start[i] + 1
              /\ new[start[i] + 1] = lines[i]
  <2>1. i \in 1 .. len /\ i + 1 \in 1 .. (len + 1) /\ i \in 1 .. (len + 1)
    BY <1>1
  <2>2. start[i] \in Nat /\ start[i + 1] = start[i] + Len(ss[i])
    BY <1>7, <2>1 DEF Starts
  <2>3. 1 \in 1 .. Len(ss[i]) /\ ss[i][1] = lines[i] /\ Len(ss[i]) = 1
    BY <1>8, <2>1
  <2>4. new[start[i] + 1] = ss[i][1]
    BY <1>7, <2>1, <2>3, Zenon DEF Starts
  <2> QED
    BY <2>1, <2>2, <2>3, <2>4
<1>12. ASSUME NEW i \in kept, NEW k \in 1 .. (len + 1), i < k
       PROVE  start[i] + 1 <= start[k] /\ start[k] \in Nat
  <2>1. i + 1 <= k
    BY <1>11, <1>12
  <2>2. start[i + 1] <= start[k]
    BY <1>7, <1>9, <1>11, <2>1, StartsGrow, Zenon
  <2> QED
    BY <1>7, <1>11, <2>2 DEF Starts
<1>13. PICK size \in Nat : size = Len(new) /\ size = start[len + 1] /\ new \in Seq(S)
  BY <1>7 DEF Starts
<1>14. at \in [kept -> 1 .. size]
  <2>1. ASSUME NEW i \in kept PROVE start[i] + 1 \in 1 .. size
    <3>1. i < len + 1 /\ len + 1 \in 1 .. (len + 1)
      BY <1>11
    <3>2. start[i] + 1 <= size
      BY <1>12, <1>13, <3>1
    <3> QED
      BY <1>11, <3>2
  <2> QED
    BY <1>10, <2>1
<1>15. \A i \in kept : new[at[i]] = lines[i]
  BY <1>10, <1>11
<1>16. \A i, k \in kept : i < k => at[i] < at[k]
  BY <1>10, <1>11, <1>12, SMTT(30)
<1>17. \A i, k \in kept : k = i + 1 => at[k] = at[i] + 1
  BY <1>10, <1>11
<1>18. ASSUME NEW p \in 1 .. Len(new) PROVE \E i \in kept : p = at[i]
  <2>0. PICK i \in 1 .. len : \E j \in 1 .. Len(ss[i]) : p = start[i] + j
    BY <1>7, <1>9, <1>18, StartsCover
  <2>1. PICK j \in 1 .. Len(ss[i]) : p = start[i] + j
    BY <2>0
  <2>2. i \in kept
    <3>1. i \notin kept => Len(ss[i]) = 0
      BY <1>8
    <3> QED
      BY <2>1, <3>1
  <2>3. j = 1
    <3>1. Len(ss[i]) = 1
      BY <1>8, <2>2
    <3> QED
      BY <2>1, <3>1
  <2> QED
    BY <1>10, <2>1, <2>2, <2>3
<1>19. Places(S, lines, kept, at, new)
  BY <1>13, <1>14, <1>15, <1>16, <1>17, <1>18 DEF Places
<1> QED
  BY <1>5, <1>19

(* A row of a table becomes a label and the value below it, a rule nothing,  *)
(* and every other line stays.                                               *)
Value(l) == [l EXCEPT !.tag = "text", !.name = "none"]
LabelOf(l) == [l EXCEPT !.tag = "label", !.shape = "none"]
IsRow(l) == l.tag = "row" /\ l.shape # "none"

LEMMA LinesOfTables ==
  ASSUME NEW l \in Lines
  PROVE  /\ TableLines(l) \in Seq(Lines)
         /\ IsRow(l) => TableLines(l) = <<LabelOf(l), Value(l)>>
         /\ (~IsRow(l) /\ l.tag # "rule") => TableLines(l) = <<l>>
         /\ l.tag = "rule" => TableLines(l) = <<>>
<1>1. l.tag = "rule" => TableLines(l) = <<>>
  BY DEF TableLines
<1>2. IsRow(l) => TableLines(l) = <<LabelOf(l), Value(l)>>
  BY DEF TableLines, IsRow, LabelOf, Value
<1>3. (~IsRow(l) /\ l.tag # "rule") => TableLines(l) = <<l>>
  BY DEF TableLines, IsRow
<1>4. IsRow(l) => LabelOf(l) \in Lines /\ Value(l) \in Lines
  <2>1. l \in Lines /\ "none" \in Names /\ "none" \in Shapes
    BY DEF Names, Shapes
  <2> QED
    BY <2>1 DEF Lines, IsRow, LabelOf, Value
<1>5. TableLines(l) \in Seq(Lines)
  <2>1. CASE l.tag = "rule"
    BY <1>1, <2>1
  <2>2. CASE IsRow(l)
    <3>1. PICK a \in Lines, b \in Lines : a = LabelOf(l) /\ b = Value(l)
      BY <1>4, <2>2
    <3>2. TableLines(l) = <<a, b>>
      BY <1>2, <2>2, <3>1
    <3> QED
      BY <3>2
  <2>3. CASE l.tag # "rule" /\ ~IsRow(l)
    <3>1. <<l>> \in Seq(Lines)
      OBVIOUS
    <3> QED
      BY <1>3, <2>3, <3>1, Zenon
  <2> QED
    BY <2>1, <2>2, <2>3 DEF IsRow
<1> QED
  BY <1>1, <1>2, <1>3, <1>5

(* The lines of an email, each rewritten, make up the normalized text.       *)
Normalizes(lines, len, ss, start, new) ==
  /\ Starts(Lines, ss, start, new, len)
  /\ \A i \in 1 .. len : ss[i] = TableLines(lines[i]) /\ Len(ss[i]) \in Nat

LEMMA NormalizedStarts ==
  ASSUME NEW lines \in Seq(Lines), NEW len \in Nat, len = Len(lines)
  PROVE  \E ss, start : Normalizes(lines, len, ss, start, NormalizeTables(lines))
<1>1. DOMAIN lines = 1 .. len
  OBVIOUS
<1>2. PICK ss : ss = [i \in 1 .. len |-> TableLines(lines[i])]
  OBVIOUS
<1>3. \A i \in 1 .. len : lines[i] \in Lines
  BY <1>1
<1>4. \A i \in 1 .. len : ss[i] = TableLines(lines[i]) /\ ss[i] \in Seq(Lines)
  BY <1>2, <1>3, LinesOfTables
<1>5. ss \in Seq(Seq(Lines)) /\ Len(ss) = len
  <2>1. ss \in [1 .. len -> Seq(Lines)]
    BY <1>2, <1>4
  <2> QED
    BY <2>1
<1>6. NormalizeTables(lines) = FlattenSeq(ss)
  BY <1>1, <1>2, Zenon DEF NormalizeTables
<1>7. \E start : Starts(Lines, ss, start, NormalizeTables(lines), len)
  BY <1>5, <1>6, FlattenStarts, Zenon
<1>8. \A i \in 1 .. len : Len(ss[i]) \in Nat
  BY <1>4, LenProperties
<1> QED
  BY <1>4, <1>7, <1>8, Zenon DEF Normalizes

(* The lines of one origin come after those of the origins before it.        *)
LEMMA OriginsOrdered ==
  ASSUME NEW lines, NEW len \in Nat, NEW ss, NEW start, NEW new,
         Normalizes(lines, len, ss, start, new),
         NEW i \in 1 .. len, NEW k \in 1 .. (len + 1), i < k
  PROVE  /\ start[i] \in Nat /\ start[k] \in Nat /\ Len(ss[i]) \in Nat
         /\ start[i] + Len(ss[i]) <= start[k]
<1>1. Starts(Lines, ss, start, new, len) /\ \A n \in 1 .. len : Len(ss[n]) \in Nat
  BY Zenon DEF Normalizes
<1>2. PICK m \in 1 .. (len + 1) : m = i + 1 /\ m <= k /\ i \in 1 .. (len + 1)
  OBVIOUS
<1>3. start[m] = start[i] + Len(ss[i])
  BY <1>1, <1>2, Zenon DEF Starts
<1>4. start[m] <= start[k]
  BY <1>1, <1>2, StartsGrow
<1>5. start[i] \in Nat /\ start[k] \in Nat
  BY <1>1, <1>2, Zenon DEF Starts
<1> QED
  BY <1>1, <1>3, <1>4, <1>5

(* What is written for a line is in the new text.                            *)
Placed(len, ss, start, new) ==
  \A i \in 1 .. len : \A j \in 1 .. Len(ss[i]) :
    start[i] + j \in DOMAIN new /\ new[start[i] + j] = ss[i][j]

LEMMA OriginsPlaced ==
  ASSUME NEW lines, NEW len \in Nat, NEW ss, NEW start, NEW new,
         Normalizes(lines, len, ss, start, new)
  PROVE  Placed(len, ss, start, new)
<1>1. Starts(Lines, ss, start, new, len)
  BY Zenon DEF Normalizes
<1>2. new \in Seq(Lines) /\ Len(new) = start[len + 1]
  BY <1>1, Zenon DEF Starts
<1>3. DOMAIN new = 1 .. Len(new)
  BY <1>2, LenProperties
<1>4. ASSUME NEW i \in 1 .. len, NEW j \in 1 .. Len(ss[i])
      PROVE  start[i] + j \in DOMAIN new /\ new[start[i] + j] = ss[i][j]
  <2>1. len + 1 \in 1 .. (len + 1) /\ i < len + 1
    OBVIOUS
  <2>2. /\ start[i] \in Nat /\ start[len + 1] \in Nat /\ Len(ss[i]) \in Nat
        /\ start[i] + Len(ss[i]) <= start[len + 1]
    BY <2>1, OriginsOrdered
  <2>3. start[i] + j \in 1 .. start[len + 1]
    BY <2>2
  <2>4. new[start[i] + j] = ss[i][j]
    BY <1>1, Zenon DEF Starts
  <2> QED
    BY <1>2, <1>3, <2>3, <2>4, Zenon
<1> QED
  BY <1>4, Zenon DEF Placed

(* And only that: every line has an origin; before the lines of an origin    *)
(* come only those of earlier ones.                                          *)
Origin(len, ss, start, new, k, m, j) ==
  /\ m \in 1 .. len /\ j \in 1 .. Len(ss[m])
  /\ k = start[m] + j /\ new[k] = ss[m][j]
  /\ \A i \in 1 .. len : k <= start[i] => m < i

LEMMA OriginOf ==
  ASSUME NEW lines, NEW len \in Nat, NEW ss, NEW start, NEW new,
         Normalizes(lines, len, ss, start, new), NEW k \in DOMAIN new
  PROVE  \E m, j : Origin(len, ss, start, new, k, m, j)
<1>1. /\ Starts(Lines, ss, start, new, len)
      /\ \A n \in 1 .. len : Len(ss[n]) \in Nat
  BY Zenon DEF Normalizes
<1>2. k \in 1 .. Len(new)
  <2>1. new \in Seq(Lines)
    BY <1>1, Zenon DEF Starts
  <2> QED
    BY <2>1, LenProperties
<1>3. PICK m \in 1 .. len : \E j \in 1 .. Len(ss[m]) : k = start[m] + j
  BY <1>1, <1>2, StartsCover
<1>4. PICK j : j \in 1 .. Len(ss[m]) /\ k = start[m] + j
  BY <1>3
<1>5. new[k] = ss[m][j]
  BY <1>1, <1>4, Zenon DEF Starts
<1>6. ASSUME NEW i, i \in 1 .. len, k <= start[i] PROVE m < i
  <2>1. m \in 1 .. (len + 1) /\ i \in 1 .. (len + 1)
    BY <1>6
  <2>2. start \in [1 .. (len + 1) -> Nat]
    BY <1>1, Zenon DEF Starts
  <2>3. start[m] \in Nat /\ start[i] \in Nat /\ Len(ss[i]) \in Nat /\ Len(ss[m]) \in Nat
    BY <1>1, <1>6, <2>1, <2>2, Zenon
  <2>4. start[m] < start[i]
    BY <1>4, <1>6, <2>3
  <2> SUFFICES ASSUME i <= m PROVE FALSE
    BY <1>6
  <2>5. start[i] <= start[m]
    BY <1>1, <2>1, StartsGrow
  <2> QED
    BY <2>3, <2>4, <2>5
<1>7. Origin(len, ss, start, new, k, m, j)
  BY <1>4, <1>5, <1>6 DEF Origin
<1> QED
  BY <1>7

(* Lines that are not rewritten follow each other as they did.               *)
Untouched(lines, ss, e, i) ==
  \A m \in e .. i : ss[m] = <<lines[m]>>

LEMMA BlockSurvives ==
  ASSUME NEW lines, NEW len \in Nat, NEW ss, NEW start, NEW new,
         Normalizes(lines, len, ss, start, new),
         NEW e \in 1 .. len, NEW i \in 1 .. len, e < i,
         Untouched(lines, ss, e, i),
         NEW b, b = start[e] + 1, NEW p, p = start[i] + 1
  PROVE  /\ b \in 1 .. (p - 1) /\ new[b] = lines[e]
         /\ \A q \in (b + 1) .. p : \E m \in (e + 1) .. i : new[q] = lines[m]
<1>1. /\ Starts(Lines, ss, start, new, len)
      /\ \A n \in 1 .. len : Len(ss[n]) \in Nat
  BY Zenon DEF Normalizes
<1>2. ASSUME NEW m \in e .. i PROVE Len(ss[m]) = 1 /\ ss[m][1] = lines[m]
  <2>1. ss[m] = <<lines[m]>>
    BY Zenon DEF Untouched
  <2>2. PICK t : t = <<lines[m]>>
    OBVIOUS
  <2>3. Len(t) = 1 /\ t[1] = lines[m]
    BY <2>2
  <2> QED
    BY <2>1, <2>2, <2>3, Zenon
<1>3. e \in e .. i /\ i \in e .. i /\ i < len + 1 /\ len + 1 \in 1 .. (len + 1)
      /\ i \in 1 .. (len + 1)
  OBVIOUS
<1>4. start[e] \in Nat /\ start[i] \in Nat /\ start[e] + 1 <= start[i]
  <2>1. /\ start[e] \in Nat /\ start[i] \in Nat /\ Len(ss[e]) \in Nat
        /\ start[e] + Len(ss[e]) <= start[i]
    BY <1>3, OriginsOrdered
  <2>2. Len(ss[e]) = 1
    BY <1>2, <1>3
  <2> QED
    BY <2>1, <2>2
<1>5. start[len + 1] \in Nat /\ start[i] + 1 <= start[len + 1]
  <2>1. /\ start[len + 1] \in Nat
        /\ start[i] + Len(ss[i]) <= start[len + 1]
    BY <1>3, OriginsOrdered
  <2>2. Len(ss[i]) = 1
    BY <1>2, <1>3
  <2> QED
    BY <2>1, <2>2
<1>6. b \in 1 .. (p - 1)
  BY <1>4
<1>7. new[b] = lines[e]
  <2>1. Len(ss[e]) = 1 /\ ss[e][1] = lines[e]
    BY <1>2, <1>3
  <2>2. 1 \in 1 .. Len(ss[e])
    BY <2>1
  <2> QED
    BY <1>1, <2>1, <2>2, Zenon DEF Starts
<1>8. ASSUME NEW q, q \in (b + 1) .. p PROVE \E m \in (e + 1) .. i : new[q] = lines[m]
  <2>1. q \in 1 .. Len(new)
    <3>1. Len(new) = start[len + 1]
      BY <1>1 DEF Starts
    <3> QED
      BY <1>4, <1>5, <1>8, <3>1, SMTT(30)
  <2>2. PICK m \in 1 .. len : \E j \in 1 .. Len(ss[m]) : q = start[m] + j
    BY <1>1, <2>1, StartsCover, SMTT(30)
  <2>4. Len(ss[m]) \in Nat /\ m \in 1 .. (len + 1) /\ start[m] \in Nat
    <3>1. m \in 1 .. (len + 1)
      OBVIOUS
    <3>2. start \in [1 .. (len + 1) -> Nat]
      BY <1>1, Zenon DEF Starts
    <3>3. start[m] \in Nat
      BY <3>1, <3>2, Zenon
    <3> QED
      BY <1>1, <3>1, <3>3, Zenon
  <2>3. PICK j : j \in 1 .. Len(ss[m]) /\ q = start[m] + j
    BY <2>2
  <2>5. ~(m < e)
    <3> SUFFICES ASSUME m < e PROVE FALSE
      OBVIOUS
    <3>1. PICK n \in Nat : n = Len(ss[m])
      BY <2>4
    <3>2. start[m] + Len(ss[m]) <= start[e]
      BY <2>4, OriginsOrdered
    <3>3. start[m] + n <= start[e]
      BY <3>1, <3>2, Zenon
    <3>4. j \in 1 .. n
      BY <2>3, <3>1, Zenon
    <3>5. q <= start[e]
      BY <1>4, <2>3, <2>4, <3>3, <3>4, SMTT(30)
    <3> QED
      BY <1>4, <1>8, <3>5
  <2>6. m # e
    <3> SUFFICES ASSUME m = e PROVE FALSE
      OBVIOUS
    <3>1. Len(ss[m]) = 1 /\ start[m] = start[e]
      BY <1>2, <1>3
    <3>2. j = 1
      BY <2>3, <3>1
    <3> QED
      BY <1>4, <1>8, <2>3, <3>1, <3>2
  <2>7. ~(i < m)
    <3> SUFFICES ASSUME i < m PROVE FALSE
      OBVIOUS
    <3>1. start[i] + Len(ss[i]) <= start[m]
      BY <2>4, OriginsOrdered
    <3>2. Len(ss[i]) = 1
      BY <1>2, <1>3
    <3>3. start[i] + 1 <= start[m]
      BY <3>1, <3>2
    <3>4. q > start[m]
      BY <2>3, <2>4
    <3> QED
      BY <1>4, <1>8, <2>4, <3>3, <3>4
  <2>8. m \in (e + 1) .. i /\ m \in e .. i
    BY <2>5, <2>6, <2>7
  <2>9. Len(ss[m]) = 1 /\ ss[m][1] = lines[m]
    BY <1>2, <2>8
  <2>10. j = 1
    BY <2>3, <2>9
  <2>11. new[q] = ss[m][j]
    BY <1>1, <2>3, Zenon DEF Starts
  <2> QED
    BY <2>8, <2>9, <2>10, <2>11
<1> QED
  BY <1>6, <1>7, <1>8

-----------------------------------------------------------------------------
(* What a text gives under a name.                                           *)

(* The first line with the name has the value beside it or below it.         *)
Gives(lines, name, v) ==
  \E i \in DOMAIN lines :
    /\ lines[i].name = name
    /\ \A k \in DOMAIN lines : k < i => lines[k].name # name
    /\ \/ lines[i].tag = "field" /\ v = lines[i]
       \/ /\ lines[i].tag = "label" /\ v.tag = "text"
          /\ \E n \in DOMAIN lines : n = i + 1 /\ v = lines[n]

(* It still does when the lines with the name are kept, and the values below *)
(* those that are labels.                                                    *)
Spares(lines, kept, name) ==
  \A i \in DOMAIN lines :
    (lines[i].name = name /\ lines[i].tag \in {"field", "label"}) =>
      /\ i \in kept
      /\ \A n \in DOMAIN lines :
           (lines[i].tag = "label" /\ n = i + 1 /\ lines[n].tag = "text") => n \in kept

LEMMA KeepGives ==
  ASSUME NEW lines \in Seq(Lines), NEW kept \in SUBSET DOMAIN lines, NEW name, NEW v,
         Gives(lines, name, v), Spares(lines, kept, name)
  PROVE  Keep(lines, kept) \in Seq(Lines) /\ Gives(Keep(lines, kept), name, v)
<1>1. PICK new : new = Keep(lines, kept)
  OBVIOUS
<1>2. PICK at : Places(Lines, lines, kept, at, new)
  BY <1>1, KeptLines, Zenon
<1>3. /\ new \in Seq(Lines) /\ DOMAIN new = 1 .. Len(new) /\ Len(new) \in Nat
      /\ DOMAIN lines \subseteq Nat
  BY <1>2 DEF Places
<1>4. \A i \in kept : at[i] \in DOMAIN new /\ new[at[i]] = lines[i]
  BY <1>2, <1>3 DEF Places
<1>5. PICK i \in DOMAIN lines :
        /\ lines[i].name = name
        /\ \A k \in DOMAIN lines : k < i => lines[k].name # name
        /\ \/ lines[i].tag = "field" /\ v = lines[i]
           \/ /\ lines[i].tag = "label" /\ v.tag = "text"
              /\ \E n \in DOMAIN lines : n = i + 1 /\ v = lines[n]
  BY Zenon DEF Gives
<1>6. i \in kept
  <2>1. lines[i].tag \in {"field", "label"}
    BY <1>5
  <2> QED
    BY <1>5, <2>1, Zenon DEF Spares
<1>7. ASSUME NEW p \in DOMAIN new, p < at[i] PROVE new[p].name # name
  <2>1. PICK k \in kept : p = at[k]
    BY <1>2, <1>3 DEF Places
  <2>2. k < i
    <3>1. k = i \/ i < k \/ k < i
      BY <1>3
    <3>2. i < k => at[i] < at[k]
      BY <1>2, <1>6, Zenon DEF Places
    <3>3. at[i] \in Nat /\ at[k] \in Nat
      BY <1>3, <1>4, <1>6
    <3> QED
      BY <1>7, <2>1, <3>1, <3>2, <3>3
  <2>3. lines[k].name # name
    BY <1>5, <2>2
  <2> QED
    BY <1>4, <2>1, <2>3
<1>8. CASE lines[i].tag = "field" /\ v = lines[i]
  <2>1. /\ at[i] \in DOMAIN new /\ new[at[i]].name = name
        /\ new[at[i]].tag = "field" /\ v = new[at[i]]
    BY <1>4, <1>5, <1>6, <1>8
  <2> QED
    BY <1>1, <1>3, <1>7, <2>1, Zenon DEF Gives
<1>9. CASE /\ lines[i].tag = "label" /\ v.tag = "text"
           /\ \E n \in DOMAIN lines : n = i + 1 /\ v = lines[n]
  <2>1. PICK n \in DOMAIN lines : n = i + 1 /\ v = lines[n]
    BY <1>9
  <2>2. n \in kept
    <3>1. lines[n].tag = "text"
      BY <1>9, <2>1, Zenon
    <3>2. lines[i].tag \in {"field", "label"}
      BY <1>9
    <3> QED
      BY <1>5, <1>9, <2>1, <3>1, <3>2, Zenon DEF Spares
  <2>3. at[n] = at[i] + 1
    BY <1>2, <1>6, <2>1, <2>2, Zenon DEF Places
  <2>4. /\ at[i] \in DOMAIN new /\ new[at[i]].name = name /\ new[at[i]].tag = "label"
        /\ v.tag = "text" /\ at[n] \in DOMAIN new /\ v = new[at[n]]
    BY <1>4, <1>5, <1>6, <1>9, <2>1, <2>2
  <2> QED
    BY <1>1, <1>3, <1>7, <2>3, <2>4, Zenon DEF Gives
<1> QED
  BY <1>5, <1>8, <1>9

(* What is written for a line has its value, and its name and shape if any.  *)
LEMMA SameValue ==
  ASSUME NEW l \in Lines, NEW j \in 1 .. Len(TableLines(l)),
         NEW new, new = TableLines(l)[j]
  PROVE  /\ new.is = l.is
         /\ new.name \in {l.name, "none"} /\ new.shape \in {l.shape, "none"}
<1>1. CASE IsRow(l)
  <2>1. PICK a, b : a = LabelOf(l) /\ b = Value(l)
    OBVIOUS
  <2>2. TableLines(l) = <<a, b>>
    BY <1>1, <2>1, LinesOfTables
  <2>3. j \in 1 .. 2 /\ new \in {a, b}
    BY <2>2
  <2>4. /\ a.is = l.is /\ a.name = l.name /\ a.shape = "none"
        /\ b.is = l.is /\ b.name = "none" /\ b.shape = l.shape
    BY <2>1 DEF LabelOf, Value, Lines
  <2> QED
    BY <2>3, <2>4
<1>2. CASE l.tag = "rule"
  <2>1. TableLines(l) = <<>>
    BY <1>2, LinesOfTables
  <2> QED
    BY <2>1
<1>3. CASE ~IsRow(l) /\ l.tag # "rule"
  <2>1. TableLines(l) = <<l>>
    BY <1>3, LinesOfTables
  <2>2. new = l
    BY <2>1
  <2> QED
    BY <2>2
<1> QED
  BY <1>1, <1>2, <1>3

(* An alert gives a value beside or below a name, or in a table.             *)
Writes(lines, i, name, v) ==
  /\ lines[i].name = name
  /\ \A k \in DOMAIN lines : k < i => lines[k].name # name
  /\ v.shape # "none"
  /\ \/ lines[i].tag \in {"field", "row"} /\ v = lines[i]
     \/ /\ lines[i].tag = "label" /\ v.tag = "text"
        /\ \E n \in DOMAIN lines : n = i + 1 /\ v = lines[n]

(* What is given still is when tables are rewritten.                         *)
LEMMA NormalizeGives ==
  ASSUME NEW lines \in Seq(Lines), NEW i \in DOMAIN lines, NEW name, name # "none",
         NEW v, Writes(lines, i, name, v)
  PROVE  /\ NormalizeTables(lines) \in Seq(Lines)
         /\ \E w : /\ Gives(NormalizeTables(lines), name, w)
                  /\ w.is = v.is /\ w.shape = v.shape
<1>1. PICK len \in Nat : len = Len(lines) /\ DOMAIN lines = 1 .. len
  OBVIOUS
<1>2. PICK new : new = NormalizeTables(lines)
  OBVIOUS
<1>3. PICK ss, start : Normalizes(lines, len, ss, start, new)
  BY <1>1, <1>2, NormalizedStarts, Zenon
<1>4. new \in Seq(Lines)
  BY <1>3, Zenon DEF Normalizes, Starts
<1>5. DOMAIN new = 1 .. Len(new) /\ Len(new) \in Nat
  BY <1>4, LenProperties
<1>6. \A m \in 1 .. len : ss[m] = TableLines(lines[m]) /\ lines[m] \in Lines
  <2>1. \A m \in 1 .. len : lines[m] \in Lines
    BY <1>1
  <2> QED
    BY <1>3, <2>1, Zenon DEF Normalizes
<1>7. i \in 1 .. len /\ lines[i] \in Lines
  BY <1>1, <1>6
<1>8. PICK l \in Lines : l = lines[i] /\ ss[i] = TableLines(l)
  BY <1>6, <1>7
<1>9. /\ l.name = name
      /\ \A k \in DOMAIN lines : k < i => lines[k].name # name
      /\ v.shape # "none"
      /\ \/ l.tag \in {"field", "row"} /\ v = l
         \/ /\ l.tag = "label" /\ v.tag = "text"
            /\ \E n \in DOMAIN lines : n = i + 1 /\ v = lines[n]
  BY <1>8, Zenon DEF Writes
<1>10. PICK p : p = start[i] + 1
  OBVIOUS
<1>11. start[i] \in Nat
  <2>1. len + 1 \in 1 .. (len + 1) /\ i < len + 1
    BY <1>7
  <2> QED
    BY <1>3, <1>7, <2>1, OriginsOrdered
<1>12. ASSUME NEW k \in DOMAIN new, k < p PROVE new[k].name # name
  <2>1. PICK m, j : Origin(len, ss, start, new, k, m, j)
    BY <1>3, OriginOf, Zenon
  <2>2. /\ m \in 1 .. len /\ j \in 1 .. Len(ss[m]) /\ new[k] = ss[m][j]
        /\ \A n \in 1 .. len : k <= start[n] => m < n
    BY <2>1, Zenon DEF Origin
  <2>3. k <= start[i]
    BY <1>5, <1>10, <1>11, <1>12
  <2>4. m < i
    BY <1>7, <2>2, <2>3, Zenon
  <2>5. lines[m].name # name /\ lines[m] \in Lines /\ ss[m] = TableLines(lines[m])
    BY <1>1, <1>6, <1>9, <2>2, <2>4, Zenon
  <2>6. new[k].name \in {lines[m].name, "none"}
    <3>1. PICK t \in Lines : t = lines[m] /\ ss[m] = TableLines(t)
      BY <2>5, Zenon
    <3>2. j \in 1 .. Len(TableLines(t)) /\ new[k] = TableLines(t)[j]
      BY <2>2, <3>1, Zenon
    <3>3. new[k].name \in {t.name, "none"}
      BY <3>2, SameValue, Zenon
    <3> QED
      BY <3>1, <3>3, Zenon
  <2> QED
    BY <2>5, <2>6
<1>13. ASSUME NEW m \in 1 .. len, NEW j \in 1 .. Len(ss[m]), NEW q, q = start[m] + j
       PROVE  q \in DOMAIN new /\ new[q] = ss[m][j]
  <2>1. Placed(len, ss, start, new)
    BY <1>3, OriginsPlaced, Zenon
  <2> QED
    BY <1>13, <2>1, Zenon DEF Placed
<1>14. CASE l.tag = "field" /\ v = l
  <2>1. ~IsRow(l) /\ l.tag # "rule"
    BY <1>14 DEF IsRow
  <2>2. ss[i] = <<l>>
    BY <1>8, <2>1, LinesOfTables, Zenon
  <2>3. 1 \in 1 .. Len(ss[i]) /\ ss[i][1] = l
    BY <2>2
  <2>4. p \in DOMAIN new /\ new[p] = l
    BY <1>7, <1>10, <1>13, <2>3, Zenon
  <2>5. Gives(new, name, l)
    BY <1>9, <1>12, <1>14, <2>4, Zenon DEF Gives
  <2> QED
    BY <1>2, <1>4, <1>14, <2>5, Zenon
<1>15. CASE l.tag = "row" /\ v = l
  <2>1. IsRow(l)
    BY <1>9, <1>15 DEF IsRow
  <2>2. PICK a, b : a = LabelOf(l) /\ b = Value(l)
    OBVIOUS
  <2>3. ss[i] = <<a, b>>
    BY <1>8, <2>1, <2>2, LinesOfTables, Zenon
  <2>4. PICK q : q = start[i] + 2 /\ q = p + 1
    <3>1. start[i] + 2 = p + 1
      BY <1>10, <1>11
    <3> QED
      BY <3>1, Zenon
  <2>5. /\ 1 \in 1 .. Len(ss[i]) /\ ss[i][1] = a
        /\ 2 \in 1 .. Len(ss[i]) /\ ss[i][2] = b
    BY <2>3
  <2>6. p \in DOMAIN new /\ new[p] = a /\ q \in DOMAIN new /\ new[q] = b
    BY <1>7, <1>10, <1>13, <2>4, <2>5, ZenonT(30)
  <2>7. /\ a.tag = "label" /\ a.name = name /\ b.tag = "text"
        /\ b.is = l.is /\ b.shape = l.shape
    BY <1>9, <2>2 DEF LabelOf, Value, Lines
  <2>8. Gives(new, name, b)
    BY <1>12, <2>4, <2>6, <2>7, Zenon DEF Gives
  <2> QED
    BY <1>2, <1>4, <1>15, <2>7, <2>8, Zenon
<1>16. CASE /\ l.tag = "label" /\ v.tag = "text"
            /\ \E n \in DOMAIN lines : n = i + 1 /\ v = lines[n]
  <2>1. PICK n \in DOMAIN lines : n = i + 1 /\ v = lines[n]
    BY <1>16
  <2>2. n \in 1 .. len /\ v \in Lines /\ ss[n] = TableLines(v)
    BY <1>1, <1>6, <2>1, Zenon
  <2>3. ~IsRow(l) /\ l.tag # "rule" /\ ~IsRow(v) /\ v.tag # "rule"
    BY <1>16 DEF IsRow
  <2>4. ss[i] = <<l>> /\ ss[n] = <<v>>
    BY <1>8, <2>2, <2>3, LinesOfTables, Zenon
  <2>5. /\ 1 \in 1 .. Len(ss[i]) /\ ss[i][1] = l /\ Len(ss[i]) = 1
        /\ 1 \in 1 .. Len(ss[n]) /\ ss[n][1] = v
    BY <2>4
  <2>6. start[n] = p
    <3>1. start[n] = start[i] + Len(ss[i])
      BY <1>3, <1>7, <2>1, Zenon DEF Normalizes, Starts
    <3> QED
      BY <1>10, <2>5, <3>1
  <2>7. PICK q : q = start[n] + 1 /\ q = p + 1
    BY <2>6
  <2>8. p \in DOMAIN new /\ new[p] = l /\ q \in DOMAIN new /\ new[q] = v
    BY <1>7, <1>10, <1>13, <2>2, <2>5, <2>7, Zenon
  <2>9. Gives(new, name, v)
    BY <1>9, <1>12, <1>16, <2>7, <2>8, Zenon DEF Gives
  <2> QED
    BY <1>2, <1>4, <2>9, Zenon
<1> QED
  BY <1>9, <1>14, <1>15, <1>16

(* No line that gives a value goes with the forward headers or the footer.   *)
Given3 == {"amount", "merchant", "transaction date"}

LEMMA StripGives ==
  ASSUME NEW lines \in Seq(Lines), NEW name \in Given3, NEW v, Gives(lines, name, v)
  PROVE  /\ StripForwardHeaders(lines) \in Seq(Lines)
         /\ Gives(StripForwardHeaders(lines), name, v)
         /\ StripFooter(lines) \in Seq(Lines)
         /\ Gives(StripFooter(lines), name, v)
<1>1. DOMAIN lines \subseteq Nat
  OBVIOUS
<1>2. ASSUME NEW i \in DOMAIN lines, lines[i].name = name,
             lines[i].tag \in {"field", "label"}
      PROVE  /\ ~InForwardBlock(lines, i) /\ lines[i].tag # "footer"
             /\ \A n \in DOMAIN lines :
                  (lines[i].tag = "label" /\ n = i + 1 /\ lines[n].tag = "text") =>
                    ~InForwardBlock(lines, n) /\ lines[n].tag # "footer"
  <2>1. ~Skippable(lines[i]) /\ lines[i].tag # "marker"
    BY <1>2 DEF Skippable, IsHeader, HeaderNames, Given3
  <2>2. ASSUME NEW n \in DOMAIN lines, n = i \/ n = i + 1, NEW j \in 1 .. (n - 1)
        PROVE  j = i \/ i \in (j + 1) .. n
    BY <1>1, <2>2
  <2>3. ASSUME NEW n \in DOMAIN lines, n = i \/ n = i + 1
        PROVE  ~InForwardBlock(lines, n)
    BY <2>1, <2>2, <2>3, Zenon DEF InForwardBlock
  <2> QED
    BY <1>2, <2>3
<1>3. PICK kept \in SUBSET DOMAIN lines :
        kept = {i \in DOMAIN lines : ~InForwardBlock(lines, i)}
  OBVIOUS
<1>4. PICK rest \in SUBSET DOMAIN lines :
        rest = {i \in DOMAIN lines : lines[i].tag # "footer"}
  OBVIOUS
<1>5. Keep(lines, kept) \in Seq(Lines) /\ Gives(Keep(lines, kept), name, v)
  <2>1. Spares(lines, kept, name)
    BY <1>2, <1>3 DEF Spares
  <2> QED
    BY <2>1, KeepGives
<1>6. Keep(lines, rest) \in Seq(Lines) /\ Gives(Keep(lines, rest), name, v)
  <2>1. Spares(lines, rest, name)
    BY <1>2, <1>4 DEF Spares
  <2> QED
    BY <2>1, KeepGives
<1> QED
  BY <1>3, <1>4, <1>5, <1>6 DEF StripForwardHeaders, StripFooter

-----------------------------------------------------------------------------
(* What the extractor reads under a name.                                    *)

LEMMA MinIs ==
  ASSUME NEW S \in SUBSET Nat, NEW i \in S, \A y \in S : i <= y
  PROVE  Min(S) = i
<1>1. Min(S) \in S /\ \A y \in S : Min(S) <= y
  BY MinIsMember
<1>2. Min(S) <= i /\ i <= Min(S) /\ Min(S) \in Nat /\ i \in Nat
  BY <1>1
<1> QED
  BY <1>2

Long(lines, name) == {i \in Filled(lines, name) : ~TooShort(Labelled(lines, i))}

(* However labels without a value are counted, w is the first.               *)
Introduces(lines, name, w) ==
  /\ w.tag = "text"
  /\ \A S \in {Labels(lines, name), Filled(lines, name), Long(lines, name)} :
       S # {} /\ Labelled(lines, Min(S)) = w

LEMMA GivenIsIntroduced ==
  ASSUME NEW lines \in Seq(Lines), NEW name, NEW v, v.shape # "none", Gives(lines, name, v)
  PROVE  \E w : Introduces(lines, name, w) /\ w.is = v.is /\ w.shape = v.shape
<1>1. PICK len \in Nat : len = Len(lines) /\ DOMAIN lines = 1 .. len
  OBVIOUS
<1>2. PICK i \in DOMAIN lines :
        /\ lines[i].name = name
        /\ \A k \in DOMAIN lines : k < i => lines[k].name # name
        /\ \/ lines[i].tag = "field" /\ v = lines[i]
           \/ /\ lines[i].tag = "label" /\ v.tag = "text"
              /\ \E n \in DOMAIN lines : n = i + 1 /\ v = lines[n]
  BY Zenon DEF Gives
<1>3. PICK w : w = Labelled(lines, i)
  OBVIOUS
<1>4. /\ i \in Labels(lines, name) /\ w.tag = "text"
      /\ w.is = v.is /\ w.shape = v.shape
  <2>1. CASE lines[i].tag = "field" /\ v = lines[i]
    <3>1. v \in Lines
      BY <2>1
    <3>2. w = [v EXCEPT !.tag = "text", !.name = "none"]
      BY <1>3, <2>1 DEF Labelled
    <3>3. w.tag = "text" /\ w.is = v.is /\ w.shape = v.shape
      BY <3>1, <3>2 DEF Lines
    <3> QED
      BY <1>2, <2>1, <3>3 DEF Labels
  <2>2. CASE /\ lines[i].tag = "label" /\ v.tag = "text"
             /\ \E n \in DOMAIN lines : n = i + 1 /\ v = lines[n]
    <3>1. PICK n \in DOMAIN lines : n = i + 1 /\ v = lines[n]
      BY <2>2
    <3>2. w = v
      BY <1>3, <2>2, <3>1 DEF Labelled
    <3>3. i < len
      BY <1>1, <3>1
    <3> QED
      BY <1>1, <1>2, <2>2, <3>2, <3>3 DEF Labels
  <2> QED
    BY <1>2, <2>1, <2>2
<1>5. i \in Filled(lines, name) /\ i \in Long(lines, name)
  BY <1>3, <1>4 DEF Filled, Long, Empty, TooShort
<1>6. ASSUME NEW S, i \in S, S \subseteq Labels(lines, name)
      PROVE  S # {} /\ Labelled(lines, Min(S)) = w
  <2>1. S \in SUBSET Nat /\ \A y \in S : i <= y
    <3>1. \A y \in S : y \in DOMAIN lines /\ lines[y].name = name
      BY <1>6 DEF Labels
    <3> QED
      BY <1>1, <1>2, <3>1
  <2>2. Min(S) = i
    BY <1>6, <2>1, MinIs
  <2> QED
    BY <1>3, <1>6, <2>2
<1>7. /\ Filled(lines, name) \subseteq Labels(lines, name)
      /\ Long(lines, name) \subseteq Labels(lines, name)
  BY DEF Filled, Long
<1>8. Introduces(lines, name, w)
  BY <1>4, <1>5, <1>6, <1>7 DEF Introduces
<1> QED
  BY <1>4, <1>8

(* What is introduced as an amount, a merchant or a date is read as such.    *)
LEMMA AmountIsRead ==
  ASSUME NEW lines, NEW w, Introduces(lines, "amount", w),
         w.shape \in PricedShapes \cup {"number", "digits"}
  PROVE  Amount(lines) = w
<1>1. /\ w.tag = "text" /\ Labels(lines, "amount") # {}
      /\ Labelled(lines, Min(Labels(lines, "amount"))) = w
  BY Zenon DEF Introduces
<1>2. LabelledAmount(w)
  BY <1>1 DEF LabelledAmount
<1> QED
  BY <1>1, <1>2, Zenon DEF Amount

LEMMA MerchantIsRead ==
  ASSUME NEW lines, NEW w, Introduces(lines, "merchant", w), w.shape = "words"
  PROVE  Merchant(lines) = w
<1>1. /\ w.tag = "text" /\ Filled(lines, "merchant") # {}
      /\ Labelled(lines, Min(Filled(lines, "merchant"))) = w
  BY Zenon DEF Introduces
<1>2. ~LooksWrong(w)
  BY <1>1 DEF LooksWrong, PricedShapes
<1> QED
  BY <1>1, <1>2, Zenon DEF Merchant

LEMMA DateIsUnder ==
  ASSUME NEW lines, NEW name, NEW w, Introduces(lines, name, w), w.shape \in DateShapes
  PROVE  DateUnder(lines, name) = w /\ w # Nothing
<1>1. /\ w.tag = "text" /\ Long(lines, name) # {}
      /\ Labelled(lines, Min(Long(lines, name))) = w
  BY Zenon DEF Introduces
<1>2. IsDate(w)
  BY <1>1 DEF IsDate
<1>3. Nothing.tag = "blank"
  BY Zenon DEF Nothing
<1> QED
  BY <1>1, <1>2, <1>3, Zenon DEF DateUnder, Long

(* The first way that finds something is one of the ways, and the first of   *)
(* them if that finds something.                                             *)
LEMMA WayChosen ==
  ASSUME NEW T, NEW ways \in Seq(T)
  PROVE  /\ \/ FirstWay(ways) = Nothing
            \/ \E i \in 1 .. Len(ways) : FirstWay(ways) = ways[i]
         /\ (Len(ways) > 0 /\ ways[1] # Nothing) => FirstWay(ways) = ways[1]
<1>1. PICK I : I = {i \in 1 .. Len(ways) : ways[i] # Nothing}
  OBVIOUS
<1>2. PICK first : first = IF I # {} THEN Min(I) ELSE 0
  OBVIOUS
<1>3. FirstWay(ways) = IF first = 0 THEN Nothing ELSE ways[first]
  BY <1>1, <1>2, Zenon DEF FirstWay, SelectInSeq
<1>4. I \in SUBSET Nat /\ 0 \notin I
  BY <1>1
<1>5. I # {} => first \in I /\ \A y \in I : first <= y
  BY <1>2, <1>4, MinIsMember
<1>6. ASSUME Len(ways) > 0, ways[1] # Nothing PROVE first = 1
  <2>1. 1 \in I
    BY <1>1, <1>6
  <2>2. first \in Nat /\ first # 0 /\ first <= 1
    BY <1>4, <1>5, <2>1
  <2> QED
    BY <2>2
<1>7. CASE first = 0
  BY <1>3, <1>6, <1>7
<1>8. CASE first # 0
  <2>1. first \in 1 .. Len(ways) /\ FirstWay(ways) = ways[first]
    BY <1>1, <1>2, <1>3, <1>5, <1>8
  <2> QED
    BY <1>6, <2>1, Zenon
<1> QED
  BY <1>7, <1>8

(* The ways to a date.                                                       *)
WaysToDate(lines, ways) ==
  /\ TransactionDate(lines) = FirstWay(ways)
  /\ \E T : ways \in Seq(T)
  /\ Len(ways) = 5 /\ Len(ways) > 0
  /\ ways[1] = DateUnder(lines, "transaction date")
  /\ ways[5] = DateUnder(lines, "date")
  /\ \A i \in 2 .. 4 : \E shape \in DateShapes : ways[i] = ShapeFirst(lines, {shape})

LEMMA DateWays ==
  ASSUME NEW lines
  PROVE  \E ways : WaysToDate(lines, ways)
<1>1. PICK a, b, c, d, e :
        /\ a = DateUnder(lines, "transaction date") /\ b = ShapeFirst(lines, {"iso"})
        /\ c = ShapeFirst(lines, {"spelled"}) /\ d = ShapeFirst(lines, {"slashed"})
        /\ e = DateUnder(lines, "date")
  OBVIOUS
<1>2. PICK ways : ways = <<a, b, c, d, e>>
  OBVIOUS
<1>3. TransactionDate(lines) = FirstWay(ways)
  BY <1>1, <1>2, Zenon DEF TransactionDate
<1>4. /\ ways \in Seq({a, b, c, d, e}) /\ Len(ways) = 5 /\ Len(ways) > 0
      /\ ways[1] = a /\ ways[2] = b /\ ways[3] = c /\ ways[4] = d /\ ways[5] = e
  BY <1>2
<1>5. {"iso", "spelled", "slashed"} \subseteq DateShapes
  BY DEF DateShapes
<1>6. \A i \in 2 .. 4 : i = 2 \/ i = 3 \/ i = 4
  OBVIOUS
<1>7. ASSUME NEW i \in 2 .. 4
      PROVE  \E shape \in DateShapes : ways[i] = ShapeFirst(lines, {shape})
  BY <1>1, <1>4, <1>5, <1>6, Zenon
<1>8. WaysToDate(lines, ways)
  BY <1>1, <1>3, <1>4, <1>7, Zenon DEF WaysToDate
<1> QED
  BY <1>8, Zenon

LEMMA DateIsRead ==
  ASSUME NEW lines, NEW w, Introduces(lines, "transaction date", w),
         w.shape \in DateShapes
  PROVE  TransactionDate(lines) = w
<1>1. PICK ways : WaysToDate(lines, ways)
  BY DateWays, Zenon
<1>2. PICK T : ways \in Seq(T)
  BY <1>1, Zenon DEF WaysToDate
<1>3. TransactionDate(lines) = FirstWay(ways) /\ Len(ways) = 5 /\ ways[1] = w
  BY <1>1, DateIsUnder, Zenon DEF WaysToDate
<1>4. ways[1] # Nothing
  BY <1>3, DateIsUnder, Zenon
<1>5. (Len(ways) > 0 /\ ways[1] # Nothing) => FirstWay(ways) = ways[1]
  BY <1>2, WayChosen, Zenon
<1>6. Len(ways) > 0
  BY <1>1, Zenon DEF WaysToDate
<1> QED
  BY <1>3, <1>4, <1>5, <1>6, Zenon

(* What an alert writes beside or below one of the three names, or in a      *)
(* table, is introduced by it after preparation.                             *)
LEMMA WrittenIsIntroduced ==
  ASSUME NEW lines \in Seq(Lines), NEW i \in DOMAIN lines, NEW name \in Given3,
         NEW v, Writes(lines, i, name, v)
  PROVE  \E w : /\ Introduces(StripFooter(StripForwardHeaders(NormalizeTables(lines))), name, w)
               /\ w.is = v.is /\ w.shape = v.shape
<1>1. name # "none"
  BY DEF Given3
<1>2. PICK N : N = NormalizeTables(lines)
  OBVIOUS
<1>3. N \in Seq(Lines) /\ \E u : Gives(N, name, u) /\ u.is = v.is /\ u.shape = v.shape
  BY <1>1, <1>2, NormalizeGives
<1>4. PICK u : Gives(N, name, u) /\ u.is = v.is /\ u.shape = v.shape
  BY <1>3
<1>5. PICK M : M = StripForwardHeaders(N)
  OBVIOUS
<1>6. M \in Seq(Lines) /\ Gives(M, name, u)
  BY <1>3, <1>4, <1>5, StripGives, Zenon
<1>7. PICK P : P = StripFooter(M)
  OBVIOUS
<1>8. P \in Seq(Lines) /\ Gives(P, name, u)
  BY <1>6, <1>7, StripGives, Zenon
<1>9. u.shape # "none"
  BY <1>4, Zenon DEF Writes
<1>10. PICK w : Introduces(P, name, w) /\ w.is = u.is /\ w.shape = u.shape
  BY <1>8, <1>9, GivenIsIntroduced
<1> QED
  BY <1>2, <1>4, <1>5, <1>7, <1>10, Zenon

-----------------------------------------------------------------------------
(* Where a date that is read comes from.                                     *)

LEMMA KeptOrigin ==
  ASSUME NEW S, NEW lines \in Seq(S), NEW kept \in SUBSET DOMAIN lines,
         NEW new, new = Keep(lines, kept)
  PROVE  /\ new \in Seq(S)
         /\ \A k \in DOMAIN new : \E i \in kept : new[k] = lines[i]
<1>1. PICK at : Places(S, lines, kept, at, new)
  BY KeptLines, Zenon
<1>2. new \in Seq(S) /\ DOMAIN new = 1 .. Len(new)
  BY <1>1 DEF Places
<1>3. ASSUME NEW k \in DOMAIN new PROVE \E i \in kept : new[k] = lines[i]
  <2>1. PICK i \in kept : k = at[i]
    BY <1>1, <1>2, Zenon DEF Places
  <2>2. new[at[i]] = lines[i]
    BY <1>1, Zenon DEF Places
  <2> QED
    BY <2>1, <2>2
<1> QED
  BY <1>2, <1>3, Zenon

(* What is read stood outside of the headers of a forward.                   *)
LEMMA Survivor ==
  ASSUME NEW lines \in Seq(Lines), NEW text, text = StripFooter(StripForwardHeaders(lines))
  PROVE  /\ text \in Seq(Lines)
         /\ \A k \in DOMAIN text :
              \E q \in DOMAIN lines : ~InForwardBlock(lines, q) /\ text[k] = lines[q]
<1>1. PICK kept \in SUBSET DOMAIN lines :
        kept = {i \in DOMAIN lines : ~InForwardBlock(lines, i)}
  OBVIOUS
<1>2. PICK body : body = Keep(lines, kept)
  OBVIOUS
<1>3. body = StripForwardHeaders(lines)
  BY <1>1, <1>2, Zenon DEF StripForwardHeaders
<1>4. /\ body \in Seq(Lines)
      /\ \A k \in DOMAIN body : \E i \in kept : body[k] = lines[i]
  BY <1>2, KeptOrigin
<1>5. PICK rest \in SUBSET DOMAIN body : rest = {i \in DOMAIN body : body[i].tag # "footer"}
  OBVIOUS
<1>6. text = Keep(body, rest)
  BY <1>3, <1>5, Zenon DEF StripFooter
<1>7. /\ text \in Seq(Lines)
      /\ \A k \in DOMAIN text : \E i \in rest : text[k] = body[i]
  BY <1>4, <1>6, KeptOrigin
<1>8. ASSUME NEW k \in DOMAIN text
      PROVE \E q \in DOMAIN lines : ~InForwardBlock(lines, q) /\ text[k] = lines[q]
  <2>1. PICK i \in rest : text[k] = body[i]
    BY <1>7
  <2>2. PICK q \in kept : body[i] = lines[q]
    BY <1>4, <1>5, <2>1
  <2> QED
    BY <1>1, <2>1, <2>2
<1> QED
  BY <1>7, <1>8

(* A date stands on a line of its own or of its name.                        *)
IsDated(lines, d) ==
  /\ d.shape \in DateShapes
  /\ \E k \in DOMAIN lines : lines[k].is = d.is /\ lines[k].shape = d.shape

LEMMA DateUnderIsDated ==
  ASSUME NEW lines \in Seq(Lines), NEW name, NEW d, d = DateUnder(lines, name), d # Nothing
  PROVE  IsDated(lines, d)
<1>1. PICK S : S = {i \in Filled(lines, name) : ~TooShort(Labelled(lines, i))}
  OBVIOUS
<1>2. S # {} /\ IsDate(Labelled(lines, Min(S))) /\ d = Labelled(lines, Min(S))
  BY <1>1, Zenon DEF DateUnder
<1>3. S \in SUBSET Nat /\ S \subseteq Labels(lines, name)
  BY <1>1 DEF Filled, Labels
<1>4. PICK i \in S : i = Min(S)
  BY <1>2, <1>3, MinIsMember
<1>5. /\ d = Labelled(lines, i) /\ d.shape \in DateShapes
      /\ i \in DOMAIN lines /\ lines[i].tag \in {"field", "label"}
      /\ lines[i].tag = "label" => i < Len(lines)
  BY <1>2, <1>3, <1>4 DEF IsDate, Labels
<1>6. CASE lines[i].tag = "field"
  <2>1. PICK l \in Lines : l = lines[i]
    BY <1>5
  <2>2. d = [l EXCEPT !.tag = "text", !.name = "none"]
    BY <1>5, <1>6, <2>1 DEF Labelled
  <2>3. d.is = l.is /\ d.shape = l.shape
    BY <2>2 DEF Lines
  <2> QED
    BY <1>5, <2>1, <2>3 DEF IsDated
<1>7. CASE lines[i].tag = "label"
  <2>1. d = lines[i + 1]
    BY <1>5, <1>7 DEF Labelled
  <2>2. i + 1 \in DOMAIN lines
    BY <1>5, <1>7
  <2> QED
    BY <1>5, <2>1, <2>2 DEF IsDated
<1> QED
  BY <1>5, <1>6, <1>7

LEMMA DateShapeIsDated ==
  ASSUME NEW lines \in Seq(Lines), NEW shape \in DateShapes,
         NEW d, d = ShapeFirst(lines, {shape}), d # Nothing
  PROVE  IsDated(lines, d)
<1>1. PICK S : S = {i \in 1 .. Len(lines) : lines[i].shape \in {shape}}
  OBVIOUS
<1>2. PICK first : first = IF S # {} THEN Min(S) ELSE 0
  OBVIOUS
<1>3. d = IF first = 0 THEN Nothing ELSE lines[first]
  <2>1. PICK shapes : shapes = {shape}
    OBVIOUS
  <2>2. d = ShapeFirst(lines, shapes) /\ S = {i \in 1 .. Len(lines) : lines[i].shape \in shapes}
    BY <1>1, <2>1
  <2> QED
    BY <1>2, <2>2, Zenon DEF ShapeFirst, SelectInSeq
<1>4. S # {} /\ S \in SUBSET Nat
  BY <1>1, <1>2, <1>3
<1>5. first \in S /\ d = lines[first]
  BY <1>2, <1>3, <1>4, MinIsMember
<1>6. first \in DOMAIN lines /\ d.shape = shape
  BY <1>1, <1>5
<1> QED
  BY <1>5, <1>6, Zenon DEF IsDated

LEMMA DateReadIsDated ==
  ASSUME NEW lines \in Seq(Lines), NEW d, d = TransactionDate(lines), d # Nothing
  PROVE  IsDated(lines, d)
<1>1. PICK ways : WaysToDate(lines, ways)
  BY DateWays, Zenon
<1>2. PICK T : ways \in Seq(T)
  BY <1>1, Zenon DEF WaysToDate
<1>3. d = FirstWay(ways) /\ Len(ways) = 5
  BY <1>1, Zenon DEF WaysToDate
<1>4. PICK i \in 1 .. Len(ways) : d = ways[i]
  BY <1>2, <1>3, WayChosen, Zenon
<1>5. i = 1 \/ i \in 2 .. 4 \/ i = 5
  BY <1>3, <1>4
<1>6. CASE i = 1
  BY <1>1, <1>4, <1>6, DateUnderIsDated, Zenon DEF WaysToDate
<1>7. CASE i \in 2 .. 4
  BY <1>1, <1>4, <1>7, DateShapeIsDated, Zenon DEF WaysToDate
<1>8. CASE i = 5
  BY <1>1, <1>4, <1>8, DateUnderIsDated, Zenon DEF WaysToDate
<1> QED
  BY <1>5, <1>6, <1>7, <1>8
=============================================================================
