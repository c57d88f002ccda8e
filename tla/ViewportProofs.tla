---------------------------- MODULE ViewportProofs ----------------------------
(***************************************************************************)
(* What the model of the page satisfies for every ring, every set of lines *)
(* and however they wrap, every banner and every terminal size: what is    *)
(* painted is what the log says, and a reader's place is kept.             *)
(***************************************************************************)
EXTENDS Viewport, SequenceTheorems, FiniteSetTheorems, TLAPS

-------------------------------------------------------------------------------
(* Numbers.                                                                *)

\* A set of numbers that is not empty has a least one.
LEMMA Least ==
    ASSUME NEW S, S \subseteq Nat, S # {}
    PROVE  \E n \in S : \A m \in S : n <= m
<1> DEFINE R == OpToRel(<, Nat)
<1>1. IsWellFoundedOn(R, Nat)  BY NatLessThanWellFounded, Zenon
<1>2. \A m \in Nat, n \in Nat : m < n => <<m, n>> \in R  BY DEF OpToRel
<1> HIDE DEF R
<1>3. PICK n \in S : \A m \in S : <<m, n>> \notin R  BY <1>1, WFMin
<1>4. \A m \in S : ~(m < n)  BY <1>2, <1>3
<1> QED  BY <1>4

\* What holds at 0 and goes from each number to the next holds up to N.
LEMMA UpTo ==
    ASSUME NEW N \in Nat, NEW S, 0 \in S,
           \A n \in 1 .. N : n - 1 \in S => n \in S
    PROVE  \A n \in 0 .. N : n \in S
<1> DEFINE bad == (0 .. N) \ S
<1>1. SUFFICES ASSUME bad # {} PROVE FALSE  OBVIOUS
<1>2. bad \subseteq Nat  OBVIOUS
<1> HIDE DEF bad
<1>3. PICK n \in bad : \A m \in bad : n <= m  BY <1>1, <1>2, Least
<1>4. n \in 1 .. N /\ n \notin S  BY <1>3 DEF bad
<1>5. n - 1 \in 0 .. N /\ ~(n <= n - 1)  BY <1>4
<1>6. n - 1 \notin bad  BY <1>3, <1>5
<1>7. n - 1 \in S  BY <1>5, <1>6 DEF bad
<1> QED  BY <1>4, <1>7

\* A set of numbers up to N that is not empty has a greatest one, and Max is it.
LEMMA Greatest ==
    ASSUME NEW N \in Nat, NEW S, S \subseteq 0 .. N, S # {}
    PROVE  Max(S) \in S /\ \A m \in S : m <= Max(S)
<1> DEFINE bounds == {n \in Nat : \A m \in S : m <= n}
<1>1. N \in bounds /\ bounds \subseteq Nat  OBVIOUS
<1> HIDE DEF bounds
<1>2. PICK n \in bounds : \A m \in bounds : n <= m  BY <1>1, Least
<1>3. n \in Nat /\ \A m \in S : m <= n  BY <1>2 DEF bounds
<1>4. n \in S
  <2>1. SUFFICES ASSUME n \notin S PROVE FALSE  OBVIOUS
  <2>2. \A m \in S : m \in Nat /\ m <= n - 1  BY <1>3, <2>1
  <2>3. PICK m \in S : TRUE  OBVIOUS
  <2>4. n - 1 \in bounds  BY <1>3, <2>2, <2>3 DEF bounds
  <2> QED  BY <1>2, <1>3, <2>4
<1>5. \E x \in S : \A y \in S : x >= y
  <2>1. \A m \in S : m \in Nat /\ n >= m  BY <1>3
  <2> QED  BY <1>4, <2>1
<1>6. Max(S) \in S /\ \A y \in S : Max(S) >= y  BY <1>5 DEF Max
<1> QED  BY <1>6

\* A place in the ring, from its head.
LEMMA Wrapped ==
    ASSUME NEW h \in 0 .. MaxLines - 1, NEW i \in 0 .. MaxLines
    PROVE  /\ (h + i) % MaxLines = IF h + i < MaxLines THEN h + i ELSE h + i - MaxLines
           /\ (h + i) % MaxLines \in 0 .. MaxLines - 1
<1>1. MaxLines \in Nat \ {0}  BY BoundAssumption
<1>2. (h + i) % MaxLines = IF h + i < MaxLines THEN h + i ELSE h + i - MaxLines  BY <1>1, SMTT(30)
<1> QED  BY <1>1, <1>2

-------------------------------------------------------------------------------
(* Sums and where a row is in them.                                        *)

\* Prefix sums, as ui_wrap_index_sync computes them.
LEMMA SumsAre ==
    ASSUME NEW counts \in Seq(Nat)
    PROVE  /\ Sums(counts) \in Seq(Nat) /\ Len(Sums(counts)) = Len(counts) + 1
           /\ \A k \in 1 .. Len(counts) + 1 : Sums(counts)[k] \in Nat
           /\ Sums(counts)[1] = 0
           /\ \A k \in 1 .. Len(counts) : Sums(counts)[k + 1] = Sums(counts)[k] + counts[k]
<1> DEFINE N == Len(counts)
           Is(f) == f = [k \in 0 .. N |-> IF k = 0 THEN 0 ELSE f[k - 1] + counts[k]]
           Upto(n, t) == /\ t \in [0 .. n -> Nat] /\ t[0] = 0
                         /\ \A i \in 1 .. n : t[i] = t[i - 1] + counts[i]
           good == {n \in 0 .. N : \E t : Upto(n, t)}
<1>0. N \in Nat /\ \A i \in 1 .. N : counts[i] \in Nat  OBVIOUS
<1>1. 0 \in good
  <2>1. Upto(0, [i \in 0 .. 0 |-> 0])  OBVIOUS
  <2> HIDE DEF Upto
  <2> QED  BY <1>0, <2>1
<1>2. ASSUME NEW n \in 1 .. N, n - 1 \in good PROVE n \in good
  <2>0. n - 1 \in 0 .. N /\ n - 1 \in 0 .. n - 1 /\ n # 0 /\ n \in Nat  BY <1>0
  <2>1. PICK t : Upto(n - 1, t)  BY <1>2, <2>0
  <2> DEFINE h == [i \in 0 .. n |-> IF i = n THEN t[n - 1] + counts[n] ELSE t[i]]
  <2>2. t[n - 1] + counts[n] \in Nat  BY <1>0, <2>0, <2>1
  <2>3. \A i \in 0 .. n : i # n => i \in 0 .. n - 1  BY <2>0
  <2>4. h \in [0 .. n -> Nat]  BY <2>1, <2>2, <2>3
  <2>5. h[0] = 0  BY <2>0, <2>1
  <2>6. ASSUME NEW i \in 1 .. n PROVE h[i] = h[i - 1] + counts[i]
    <3>1. i \in 0 .. n /\ i - 1 \in 0 .. n /\ i - 1 # n  BY <2>0
    <3>2. h[i - 1] = t[i - 1]  BY <3>1
    <3>3. CASE i = n  BY <3>1, <3>2, <3>3
    <3>4. CASE i # n
      <4>1. i \in 1 .. n - 1  BY <2>0, <3>4
      <4>2. h[i] = t[i]  BY <3>1, <3>4
      <4> QED  BY <2>1, <3>2, <4>1, <4>2
    <3> QED  BY <3>3, <3>4
  <2>7. Upto(n, h)  BY <2>4, <2>5, <2>6
  <2> HIDE DEF Upto
  <2> QED  BY <1>0, <2>0, <2>7
<1> HIDE DEF good
<1>3. N \in good
  <2>1. \A n \in 0 .. N : n \in good  BY <1>0, <1>1, <1>2, UpTo
  <2> QED  BY <1>0, <2>1
<1>4. PICK t : Upto(N, t)  BY <1>3 DEF good
<1>5. Is(t)
  <2>1. t = [k \in 0 .. N |-> t[k]]  BY <1>4
  <2>2. \A k \in 0 .. N : t[k] = IF k = 0 THEN 0 ELSE t[k - 1] + counts[k]  BY <1>0, <1>4
  <2> QED  BY <2>1, <2>2
<1> DEFINE sum == CHOOSE f : Is(f)
<1>6. Is(sum)  BY <1>5, Zenon
<1>7. Sums(counts) = [k \in 1 .. N + 1 |-> sum[k - 1]] \o << >>  BY DEF Sums
<1> HIDE DEF sum
<1>8. /\ DOMAIN sum = 0 .. N /\ sum[0] = 0
      /\ \A k \in 1 .. N : sum[k] = sum[k - 1] + counts[k]  BY <1>0, <1>6, SMTT(30)
<1>9. \A k \in 0 .. N : sum[k] \in Nat
  <2> DEFINE natural == {k \in 0 .. N : sum[k] \in Nat}
  <2>1. 0 \in natural  BY <1>0, <1>8
  <2>2. \A k \in 1 .. N : k - 1 \in natural => k \in natural  BY <1>0, <1>8, SMTT(30)
  <2> HIDE DEF natural
  <2>3. \A k \in 0 .. N : k \in natural  BY <1>0, <2>1, <2>2, UpTo
  <2> QED  BY <2>3 DEF natural
<1>10. [k \in 1 .. N + 1 |-> sum[k - 1]] \in Seq(Nat)
  <2>1. \A k \in 1 .. N + 1 : sum[k - 1] \in Nat  BY <1>0, <1>9
  <2> QED  BY <1>0, <2>1
<1>11. Sums(counts) = [k \in 1 .. N + 1 |-> sum[k - 1]]  BY <1>7, <1>10, ConcatEmptySeq
<1>12. Len(Sums(counts)) = N + 1  BY <1>0, <1>11
<1>13. \A k \in 1 .. N : Sums(counts)[k + 1] = Sums(counts)[k] + counts[k]
  <2>1. \A k \in 1 .. N : k \in 1 .. N + 1 /\ k + 1 \in 1 .. N + 1 /\ k + 1 - 1 = k  BY <1>0
  <2> QED  BY <1>8, <1>11, <2>1
<1>14. \A k \in 1 .. N + 1 : Sums(counts)[k] \in Nat
  <2>1. \A k \in 1 .. N + 1 : k - 1 \in 0 .. N  BY <1>0
  <2> QED  BY <1>9, <1>11, <2>1
<1> QED  BY <1>0, <1>8, <1>10, <1>11, <1>12, <1>13, <1>14

\* Sums grow.
LEMMA SumsGrow ==
    ASSUME NEW counts \in Seq(Nat), NEW i \in 1 .. Len(counts) + 1, NEW j \in i .. Len(counts) + 1
    PROVE  Sums(counts)[i] <= Sums(counts)[j]
<1> DEFINE P == Sums(counts)
           N == Len(counts)
           above == {n \in 0 .. N + 1 - i : P[i] <= P[i + n]}
<1>0. N \in Nat /\ \A k \in 1 .. N : counts[k] \in Nat  OBVIOUS
<1>1. /\ \A k \in 1 .. N + 1 : P[k] \in Nat
      /\ \A k \in 1 .. N : P[k + 1] = P[k] + counts[k]  BY SumsAre
<1> HIDE DEF P, N
<1>2. 0 \in above  BY <1>0, <1>1 DEF N
<1>3. ASSUME NEW n \in 1 .. N + 1 - i, n - 1 \in above PROVE n \in above
  <2>1. i + n - 1 \in 1 .. N /\ i + (n - 1) = i + n - 1 /\ i + n - 1 + 1 = i + n  BY <1>0 DEF N
  <2>2. P[i + n] = P[i + n - 1] + counts[i + n - 1]  BY <1>1, <2>1
  <2>3. P[i] <= P[i + n - 1]  BY <1>3, <2>1
  <2>4. i \in 1 .. N + 1 /\ i + n - 1 \in 1 .. N + 1  BY <1>0, <2>1 DEF N
  <2>5. P[i] <= P[i + n]  BY <1>0, <1>1, <2>1, <2>2, <2>3, <2>4, SMTT(30)
  <2> QED  BY <1>0, <2>5
<1> HIDE DEF above
<1>4. \A n \in 0 .. N + 1 - i : n \in above
  <2>1. N + 1 - i \in Nat  BY <1>0 DEF N
  <2> QED  BY <1>2, <1>3, <2>1, UpTo
<1>5. j - i \in 0 .. N + 1 - i /\ i + (j - i) = j  BY <1>0 DEF N
<1>6. j - i \in above  BY <1>4, <1>5
<1> QED  BY <1>5, <1>6 DEF above, P

\* The n elements of a after the i-th are those of b after the j-th.
Agree(a, b, i, j, n) ==
    i + n <= Len(a) /\ j + n <= Len(b) /\ \A k \in 1 .. n : a[i + k] = b[j + k]

\* The sums of a and b grow alike over those elements.
GrowAlike(a, b, i, j, n) ==
    \A k \in 0 .. n : Sums(a)[i + k + 1] - Sums(a)[i + 1] = Sums(b)[j + k + 1] - Sums(b)[j + 1]

\* Sequences that agree over a stretch have sums that grow alike over it.
LEMMA SumsAgree ==
    ASSUME NEW a \in Seq(Nat), NEW b \in Seq(Nat), NEW i \in Nat, NEW j \in Nat, NEW n \in Nat,
           Agree(a, b, i, j, n)
    PROVE  GrowAlike(a, b, i, j, n)
<1> DEFINE A == Sums(a)
           B == Sums(b)
           alike == {k \in 0 .. n : A[i + k + 1] - A[i + 1] = B[j + k + 1] - B[j + 1]}
<1>0. i + n <= Len(a) /\ j + n <= Len(b) /\ \A k \in 1 .. n : a[i + k] = b[j + k]  BY DEF Agree
<1>1. /\ \A k \in 1 .. Len(a) + 1 : A[k] \in Nat
      /\ \A k \in 1 .. Len(a) : A[k + 1] = A[k] + a[k]  BY SumsAre
<1>2. /\ \A k \in 1 .. Len(b) + 1 : B[k] \in Nat
      /\ \A k \in 1 .. Len(b) : B[k + 1] = B[k] + b[k]  BY SumsAre
<1>3. Len(a) \in Nat /\ Len(b) \in Nat
      /\ (\A k \in 1 .. Len(a) : a[k] \in Nat) /\ \A k \in 1 .. Len(b) : b[k] \in Nat  OBVIOUS
<1> HIDE DEF A, B
<1>4. 0 \in alike
  <2>1. i + 1 \in 1 .. Len(a) + 1 /\ j + 1 \in 1 .. Len(b) + 1  BY <1>0, <1>3
  <2>2. A[i + 1] \in Nat /\ B[j + 1] \in Nat /\ i + 0 + 1 = i + 1 /\ j + 0 + 1 = j + 1
      BY <1>1, <1>2, <2>1
  <2> QED  BY <2>2
<1>5. ASSUME NEW k \in 1 .. n, k - 1 \in alike PROVE k \in alike
  <2>1. /\ i + k \in 1 .. Len(a) /\ i + k \in 1 .. Len(a) + 1 /\ i + 1 \in 1 .. Len(a) + 1
        /\ i + (k - 1) + 1 = i + k
        /\ j + k \in 1 .. Len(b) /\ j + k \in 1 .. Len(b) + 1 /\ j + 1 \in 1 .. Len(b) + 1
        /\ j + (k - 1) + 1 = j + k  BY <1>0, <1>3
  <2>2. A[i + k + 1] = A[i + k] + a[i + k] /\ B[j + k + 1] = B[j + k] + b[j + k]
      BY <1>1, <1>2, <2>1
  <2>3. A[i + k] - A[i + 1] = B[j + k] - B[j + 1]  BY <1>5, <2>1
  <2>4. /\ A[i + k] \in Nat /\ A[i + 1] \in Nat /\ a[i + k] \in Nat
        /\ B[j + k] \in Nat /\ B[j + 1] \in Nat /\ b[j + k] \in Nat  BY <1>1, <1>2, <1>3, <2>1
  <2>5. a[i + k] = b[j + k]  BY <1>0
  <2> DEFINE p == A[i + k]
             q == B[j + k]
             x == A[i + 1]
             y == B[j + 1]
             c == a[i + k]
  <2>6. p - x = q - y /\ p \in Nat /\ q \in Nat /\ x \in Nat /\ y \in Nat /\ c \in Nat
      BY <2>3, <2>4
  <2>7. (p + c) - x = (q + c) - y
    <3> HIDE DEF p, q, x, y, c
    <3> QED  BY <2>6
  <2>8. A[i + k + 1] - A[i + 1] = B[j + k + 1] - B[j + 1]  BY <2>2, <2>5, <2>7, Zenon
  <2> QED  BY <2>8
<1> HIDE DEF alike
<1>6. \A k \in 0 .. n : k \in alike  BY <1>4, <1>5, UpTo
<1> QED  BY <1>6 DEF alike, A, B, GrowAlike

\* ui_wrap_index_locate: the number of lines that end above row r, counted from 0.
LEMMA Located ==
    ASSUME NEW counts \in Seq(Nat), NEW r \in Nat
    PROVE  LET P == Sums(counts)
               m == Locate(P, r)
           IN /\ m \in 0 .. Len(counts) /\ P[m + 1] <= r
              /\ m < Len(counts) => r < P[m + 2]
              /\ r < P[Len(counts) + 1] => m < Len(counts)
<1> DEFINE P == Sums(counts)
           N == Len(counts)
           S == {k \in 0 .. N : P[k + 1] <= r}
<1>0. N \in Nat  OBVIOUS
<1>1. P \in Seq(Nat) /\ Len(P) = N + 1 /\ P[1] = 0 /\ \A k \in 1 .. N + 1 : P[k] \in Nat  BY SumsAre
<1>2. \A i \in 1 .. N + 1 : \A j \in i .. N + 1 : P[i] <= P[j]  BY SumsGrow
<1> HIDE DEF P, N
<1>3. 0 \in S /\ S \subseteq 0 .. N  BY <1>0, <1>1
<1> HIDE DEF S
<1>4. PICK m : m \in S /\ \A k \in S : k <= m  BY <1>0, <1>3, Greatest
<1>5. m \in 0 .. N /\ P[m + 1] <= r  BY <1>4 DEF S
<1>6. {k \in 2 .. Len(P) : P[k] <= r} = 2 .. m + 1
  <2>1. ASSUME NEW k \in 2 .. N + 1, P[k] <= r PROVE k <= m + 1
    <3>1. k - 1 \in 0 .. N /\ (k - 1) + 1 = k  BY <1>0
    <3>2. k - 1 \in S  BY <2>1, <3>1 DEF S
    <3> QED  BY <1>0, <1>4, <1>5, <3>2
  <2>2. ASSUME NEW k \in 2 .. m + 1 PROVE k \in 2 .. N + 1 /\ P[k] <= r
    <3>1. k \in 1 .. N + 1 /\ m + 1 \in k .. N + 1  BY <1>0, <1>5
    <3>2. P[k] <= P[m + 1] /\ P[k] \in Nat /\ P[m + 1] \in Nat  BY <1>1, <1>2, <1>5, <3>1
    <3> QED  BY <1>0, <1>5, <3>1, <3>2
  <2> QED  BY <1>0, <1>1, <1>5, <2>1, <2>2
<1>7. Cardinality(2 .. m + 1) = m
  <2>1. 2 \in Int /\ m + 1 \in Int /\ m \in Nat  BY <1>0, <1>5
  <2>2. Cardinality(2 .. m + 1) = IF 2 > m + 1 THEN 0 ELSE m + 1 - 2 + 1  BY <2>1, FS_Interval
  <2> QED  BY <2>1, <2>2
<1>8. Locate(P, r) = m  BY <1>6, <1>7 DEF Locate
<1>9. m < N => r < P[m + 2]
  <2>1. SUFFICES ASSUME m < N, ~(r < P[m + 2]) PROVE FALSE  OBVIOUS
  <2>2. m + 1 \in 0 .. N /\ (m + 1) + 1 = m + 2 /\ m + 2 \in 1 .. N + 1  BY <1>0, <1>5, <2>1
  <2>3. P[m + 2] <= r  BY <1>1, <2>1, <2>2
  <2>4. m + 1 \in S  BY <2>2, <2>3 DEF S
  <2> QED  BY <1>4, <1>5, <2>4
<1>10. r < P[N + 1] => m < N  BY <1>0, <1>1, <1>5
<1> QED  BY <1>5, <1>8, <1>9, <1>10 DEF P, N

\* There is one line a row is in.
LEMMA LocatedIs ==
    ASSUME NEW counts \in Seq(Nat), NEW r \in Nat, NEW i \in 0 .. Len(counts) - 1,
           Sums(counts)[i + 1] <= r, r < Sums(counts)[i + 2]
    PROVE  Locate(Sums(counts), r) = i
<1> DEFINE P == Sums(counts)
           N == Len(counts)
<1>0. N \in Nat  OBVIOUS
<1>1. \A k \in 1 .. N + 1 : P[k] \in Nat  BY SumsAre
<1>2. \A k \in 1 .. N + 1 : \A j \in k .. N + 1 : P[k] <= P[j]  BY SumsGrow
<1>3. PICK m : m = Locate(P, r)  OBVIOUS
<1>4. m \in 0 .. N /\ P[m + 1] <= r /\ (m < N => r < P[m + 2])  BY <1>3, Located
<1> HIDE DEF P, N
<1>5. i \in 0 .. N - 1 /\ P[i + 1] <= r /\ r < P[i + 2]  BY DEF P, N
<1>6. ~(m < i)
  <2>1. SUFFICES ASSUME m < i PROVE FALSE  OBVIOUS
  <2>2. m + 2 \in 1 .. N + 1 /\ i + 1 \in m + 2 .. N + 1 /\ i + 1 \in 1 .. N + 1
      BY <1>0, <1>4, <1>5, <2>1
  <2>3. P[m + 2] <= P[i + 1] /\ P[m + 2] \in Nat /\ P[i + 1] \in Nat  BY <1>1, <1>2, <2>2
  <2> QED  BY <1>0, <1>4, <1>5, <2>1, <2>3
<1>7. ~(i < m)
  <2>1. SUFFICES ASSUME i < m PROVE FALSE  OBVIOUS
  <2>2. i + 2 \in 1 .. N + 1 /\ m + 1 \in i + 2 .. N + 1 /\ m + 1 \in 1 .. N + 1
      BY <1>0, <1>4, <1>5, <2>1
  <2>3. P[i + 2] <= P[m + 1] /\ P[i + 2] \in Nat /\ P[m + 1] \in Nat  BY <1>1, <1>2, <2>2
  <2> QED  BY <1>4, <1>5, <2>3
<1> QED  BY <1>3, <1>4, <1>5, <1>6, <1>7 DEF P

-------------------------------------------------------------------------------
(* Colours.                                                                *)

\* The state lines leave is the last colour among them, if there is one.
LEMMA FedIs ==
    ASSUME NEW S, NEW lines \in Seq(S), NEW style
    PROVE  \/ /\ \A j \in 1 .. Len(lines) : Colour[lines[j]] = Keep
              /\ Fed(style, lines) = style
           \/ \E i \in 1 .. Len(lines) :
                 /\ Colour[lines[i]] # Keep
                 /\ \A j \in i + 1 .. Len(lines) : Colour[lines[j]] = Keep
                 /\ Fed(style, lines) = Colour[lines[i]]
<1> DEFINE coloured == {i \in DOMAIN lines : Colour[lines[i]] # Keep}
<1>0. Len(lines) \in Nat /\ DOMAIN lines = 1 .. Len(lines)  OBVIOUS
<1>1. Fed(style, lines) = IF coloured = {} THEN style ELSE Colour[lines[Max(coloured)]]  BY DEF Fed
<1>2. CASE coloured = {}
  <2>1. \A j \in 1 .. Len(lines) : Colour[lines[j]] = Keep  BY <1>0, <1>2
  <2> QED  BY <1>1, <1>2, <2>1
<1>3. CASE coloured # {}
  <2>1. coloured \subseteq 0 .. Len(lines)  BY <1>0
  <2>2. Max(coloured) \in coloured /\ \A m \in coloured : m <= Max(coloured)
      BY <1>0, <1>3, <2>1, Greatest
  <2>3. PICK i : i = Max(coloured)  OBVIOUS
  <2>4. i \in 1 .. Len(lines) /\ Colour[lines[i]] # Keep  BY <1>0, <2>2, <2>3
  <2>5. ASSUME NEW j \in i + 1 .. Len(lines) PROVE Colour[lines[j]] = Keep
    <3>1. j \in 1 .. Len(lines) /\ ~(j <= i)  BY <1>0, <2>4
    <3> QED  BY <1>0, <2>2, <2>3, <3>1
  <2>6. Fed(style, lines) = Colour[lines[i]]  BY <1>1, <1>3, <2>3
  <2> QED  BY <2>4, <2>5, <2>6
<1> QED  BY <1>2, <1>3

\* A stretch of a sequence.
LEMMA Stretch ==
    ASSUME NEW S, NEW s \in Seq(S), NEW a \in 0 .. Len(s), NEW b \in a .. Len(s)
    PROVE  /\ SubSeq(s, a + 1, b) \in Seq(S) /\ Len(SubSeq(s, a + 1, b)) = b - a
           /\ \A i \in 1 .. b - a : SubSeq(s, a + 1, b)[i] = s[a + i]
<1> DEFINE x == SubSeq(s, a + 1, b)
<1>0. Len(s) \in Nat /\ a \in Nat /\ b \in Nat /\ a <= b /\ b <= Len(s)  OBVIOUS
<1>1. \A i \in a + 1 .. b : s[i] \in S  BY <1>0
<1>2. a + 1 \in Int /\ b \in Int  BY <1>0
<1>3. /\ x \in Seq(S) /\ Len(x) = IF a + 1 <= b THEN b - (a + 1) + 1 ELSE 0
      /\ \A i \in 1 .. b - (a + 1) + 1 : x[i] = s[a + 1 + i - 1]  BY <1>1, <1>2, SubSeqProperties
<1>4. b - (a + 1) + 1 = b - a /\ \A i \in 1 .. b - a : a + 1 + i - 1 = a + i  BY <1>0
<1>5. (IF a + 1 <= b THEN b - (a + 1) + 1 ELSE 0) = b - a  BY <1>0
<1>6. Len(x) = b - a  BY <1>3, <1>5
<1> QED  BY <1>3, <1>4, <1>6

\* The first elements of a sequence.
LEMMA Beginning ==
    ASSUME NEW S, NEW s \in Seq(S), NEW b \in 0 .. Len(s)
    PROVE  /\ SubSeq(s, 1, b) \in Seq(S) /\ Len(SubSeq(s, 1, b)) = b
           /\ \A i \in 1 .. b : SubSeq(s, 1, b)[i] = s[i]
<1>0. Len(s) \in Nat /\ b \in Nat /\ b <= Len(s)  OBVIOUS
<1>1. PICK a \in 0 .. Len(s) : a = 0 /\ b \in a .. Len(s)  BY <1>0
<1>2. /\ SubSeq(s, a + 1, b) \in Seq(S) /\ Len(SubSeq(s, a + 1, b)) = b - a
      /\ \A i \in 1 .. b - a : SubSeq(s, a + 1, b)[i] = s[a + i]  BY <1>1, Stretch
<1>3. a + 1 = 1 /\ b - a = b /\ \A i \in 1 .. b : a + i = i  BY <1>0, <1>1
<1> QED  BY <1>2, <1>3

\* A stretch of one element.
LEMMA Single ==
    ASSUME NEW S, NEW s \in Seq(S), NEW b \in 1 .. Len(s)
    PROVE  SubSeq(s, b, b) = <<s[b]>>
<1>0. Len(s) \in Nat /\ b \in Nat /\ s[b] \in S  OBVIOUS
<1>1. PICK a \in 0 .. Len(s) : a + 1 = b /\ b \in a .. Len(s) /\ b - a = 1
  <2>1. b - 1 \in 0 .. Len(s) /\ b - 1 + 1 = b /\ b \in b - 1 .. Len(s) /\ b - (b - 1) = 1  BY <1>0
  <2> QED  BY <2>1
<1>2. /\ SubSeq(s, a + 1, b) \in Seq(S) /\ Len(SubSeq(s, a + 1, b)) = b - a
      /\ \A i \in 1 .. b - a : SubSeq(s, a + 1, b)[i] = s[a + i]  BY <1>1, Stretch
<1>3. /\ SubSeq(s, b, b) \in Seq(S) /\ Len(SubSeq(s, b, b)) = 1
      /\ \A i \in 1 .. 1 : SubSeq(s, b, b)[i] = s[a + i]  BY <1>1, <1>2
<1>4. SubSeq(s, b, b)[1] = s[b]
  <2>1. 1 \in 1 .. 1  OBVIOUS
  <2> QED  BY <1>1, <1>3, <2>1
<1> DEFINE x == SubSeq(s, b, b)
<1>5. x \in Seq(S) /\ Len(x) = 1 /\ x[1] = s[b]  BY <1>3, <1>4
<1> HIDE DEF x
<1>6. x = <<s[b]>>  BY <1>0, <1>5
<1> QED  BY <1>6 DEF x

\* What lines leave after others is what all of them leave.
LEMMA FedOn ==
    ASSUME NEW S, NEW lines \in Seq(S), NEW m \in 0 .. Len(lines),
           NEW n \in m .. Len(lines), NEW style
    PROVE  Fed(Fed(style, SubSeq(lines, 1, m)), SubSeq(lines, m + 1, n))
             = Fed(style, SubSeq(lines, 1, n))
<1> DEFINE a == SubSeq(lines, 1, m)
           b == SubSeq(lines, m + 1, n)
           c == SubSeq(lines, 1, n)
<1>0. Len(lines) \in Nat /\ m \in Nat /\ n \in Nat  OBVIOUS
<1>1. a \in Seq(S) /\ Len(a) = m /\ \A i \in 1 .. m : a[i] = lines[i]  BY Beginning
<1>2. b \in Seq(S) /\ Len(b) = n - m /\ \A i \in 1 .. n - m : b[i] = lines[m + i]  BY Stretch
<1>3. c \in Seq(S) /\ Len(c) = n /\ \A i \in 1 .. n : c[i] = lines[i]
  <2>1. n \in 0 .. Len(lines)  BY <1>0
  <2> QED  BY <2>1, Beginning
<1> HIDE DEF a, b, c
<1>a. \/ (\A j \in 1 .. Len(a) : Colour[a[j]] = Keep) /\ Fed(style, a) = style
      \/ \E i \in 1 .. Len(a) :
            /\ Colour[a[i]] # Keep
            /\ \A j \in i + 1 .. Len(a) : Colour[a[j]] = Keep
            /\ Fed(style, a) = Colour[a[i]]  BY <1>1, FedIs, SMTT(30)
<1>b. \/ (\A j \in 1 .. Len(b) : Colour[b[j]] = Keep) /\ Fed(Fed(style, a), b) = Fed(style, a)
      \/ \E i \in 1 .. Len(b) :
            /\ Colour[b[i]] # Keep
            /\ \A j \in i + 1 .. Len(b) : Colour[b[j]] = Keep
            /\ Fed(Fed(style, a), b) = Colour[b[i]]  BY <1>2, FedIs
<1>c. \/ (\A j \in 1 .. Len(c) : Colour[c[j]] = Keep) /\ Fed(style, c) = style
      \/ \E i \in 1 .. Len(c) :
            /\ Colour[c[i]] # Keep
            /\ \A j \in i + 1 .. Len(c) : Colour[c[j]] = Keep
            /\ Fed(style, c) = Colour[c[i]]  BY <1>3, FedIs
<1>4. \A i \in 1 .. m : i \in 1 .. n /\ a[i] = c[i]  BY <1>0, <1>1, <1>3
<1>5. \A i \in 1 .. n - m : m + i \in 1 .. n /\ b[i] = c[m + i]  BY <1>0, <1>2, <1>3
<1>6. CASE \A j \in 1 .. Len(b) : Colour[b[j]] = Keep
  <2>1. Fed(Fed(style, a), b) = Fed(style, a)  BY <1>6, <1>b
  <2>2. \A j \in m + 1 .. n : Colour[c[j]] = Keep
    <3>1. \A j \in m + 1 .. n : j - m \in 1 .. n - m /\ m + (j - m) = j  BY <1>0
    <3> QED  BY <1>2, <1>5, <1>6, <3>1
  <2>3. CASE \A j \in 1 .. Len(a) : Colour[a[j]] = Keep
    <3>1. \A j \in 1 .. n : Colour[c[j]] = Keep
      <4>1. \A j \in 1 .. n : j \in 1 .. m \/ j \in m + 1 .. n  BY <1>0
      <4> QED  BY <1>1, <1>4, <2>2, <2>3, <4>1
    <3>2. Fed(style, c) = style  BY <1>3, <1>c, <3>1
    <3>3. Fed(style, a) = style  BY <1>a, <2>3
    <3> QED  BY <2>1, <3>2, <3>3 DEF a, b, c
  <2>4. CASE ~ \A j \in 1 .. Len(a) : Colour[a[j]] = Keep
    <3>1. PICK i \in 1 .. m : /\ Colour[a[i]] # Keep
                              /\ \A j \in i + 1 .. m : Colour[a[j]] = Keep
                              /\ Fed(style, a) = Colour[a[i]]  BY <1>a, <1>1, <2>4
    <3>2. i \in 1 .. n /\ Colour[c[i]] # Keep /\ Fed(style, a) = Colour[c[i]]  BY <1>4, <3>1
    <3>3. \A j \in i + 1 .. n : Colour[c[j]] = Keep
      <4>1. \A j \in i + 1 .. n : (j \in 1 .. m /\ j \in i + 1 .. m) \/ j \in m + 1 .. n  BY <1>0
      <4> QED  BY <1>4, <2>2, <3>1, <4>1
    <3>4. PICK k \in 1 .. n : /\ Colour[c[k]] # Keep
                              /\ \A j \in k + 1 .. n : Colour[c[j]] = Keep
                              /\ Fed(style, c) = Colour[c[k]]  BY <1>c, <1>3, <3>2
    <3>5. k = i
      <4>1. ~(k < i) /\ ~(i < k)
        <5>1. k < i => i \in k + 1 .. n  BY <1>0, <3>2
        <5>2. i < k => k \in i + 1 .. n  BY <1>0
        <5> QED  BY <3>2, <3>3, <3>4, <5>1, <5>2
      <4> QED  BY <1>0, <4>1
    <3> QED  BY <2>1, <3>2, <3>4, <3>5 DEF a, b, c
  <2> QED  BY <2>3, <2>4
<1>7. CASE ~ \A j \in 1 .. Len(b) : Colour[b[j]] = Keep
  <2>1. PICK i \in 1 .. n - m : /\ Colour[b[i]] # Keep
                                /\ \A j \in i + 1 .. n - m : Colour[b[j]] = Keep
                                /\ Fed(Fed(style, a), b) = Colour[b[i]]  BY <1>b, <1>2, <1>7
  <2>2. m + i \in 1 .. n /\ Colour[c[m + i]] # Keep /\ Fed(Fed(style, a), b) = Colour[c[m + i]]
      BY <1>5, <2>1
  <2>3. \A j \in m + i + 1 .. n : Colour[c[j]] = Keep
    <3>1. TAKE j \in m + i + 1 .. n
    <3>2. PICK h \in i + 1 .. n - m : h \in 1 .. n - m /\ m + h = j
      <4>1. j - m \in i + 1 .. n - m /\ j - m \in 1 .. n - m /\ m + (j - m) = j  BY <1>0
      <4> QED  BY <4>1
    <3>3. Colour[b[h]] = Keep /\ b[h] = c[m + h]  BY <1>5, <2>1, <3>2
    <3> QED  BY <3>2, <3>3
  <2>4. PICK k \in 1 .. n : /\ Colour[c[k]] # Keep
                            /\ \A j \in k + 1 .. n : Colour[c[j]] = Keep
                            /\ Fed(style, c) = Colour[c[k]]  BY <1>c, <1>3, <2>2
  <2>5. k = m + i
    <3>1. k < m + i => m + i \in k + 1 .. n  BY <1>0, <2>2
    <3>2. m + i < k => k \in m + i + 1 .. n  BY <1>0
    <3>3. ~(k < m + i) /\ ~(m + i < k)  BY <2>2, <2>3, <2>4, <3>1, <3>2
    <3> QED  BY <1>0, <3>3
  <2> QED  BY <2>2, <2>4, <2>5 DEF a, b, c
<1> QED  BY <1>6, <1>7

-------------------------------------------------------------------------------
(* Rows.                                                                   *)

Widths == {Wrap(s.cols) : s \in Sizes}

\* Where the rows of a line begin.
LEMMA StartsAre ==
    ASSUME NEW l \in Lines, NEW w \in Widths
    PROVE  /\ Starts[l][w] \in Seq(Nat) /\ Len(Starts[l][w]) \in Nat \ {0}
           /\ DOMAIN Starts[l][w] = 1 .. Len(Starts[l][w])
           /\ Starts[l][w][1] = 0
           /\ \A i \in 1 .. Len(Starts[l][w]) : Starts[l][w][i] \in Nat
           /\ \A i, j \in 1 .. Len(Starts[l][w]) : i < j => Starts[l][w][i] < Starts[l][w][j]
<1>1. PICK s \in Sizes : w = Wrap(s.cols)  BY DEF Widths
<1> DEFINE starts == Starts[l][w]
<1>2. /\ starts \in Seq(Nat) /\ starts # << >> /\ starts[1] = 0
      /\ \A i, j \in 1 .. Len(starts) : i < j => starts[i] < starts[j]  BY <1>1, StartAssumption
<1> HIDE DEF starts
<1>3. Len(starts) \in Nat \ {0} /\ DOMAIN starts = 1 .. Len(starts)
      /\ \A i \in 1 .. Len(starts) : starts[i] \in Nat  BY <1>2
<1> QED  BY <1>2, <1>3 DEF starts

\* The numbers of rows of lines.
LEMMA CountsAre ==
    ASSUME NEW lines \in Seq(Lines), NEW w \in Widths
    PROVE  /\ RowCounts(lines, w) \in Seq(Nat) /\ Len(RowCounts(lines, w)) = Len(lines)
           /\ \A i \in 1 .. Len(lines) :
                 /\ RowCounts(lines, w)[i] = Len(Starts[lines[i]][w])
                 /\ RowCounts(lines, w)[i] \in Nat \ {0}
<1>0. Len(lines) \in Nat  OBVIOUS
<1>1. \A i \in 1 .. Len(lines) : lines[i] \in Lines  OBVIOUS
<1>2. \A i \in 1 .. Len(lines) : Len(Starts[lines[i]][w]) \in Nat \ {0}  BY <1>1, StartsAre
<1>3. RowCounts(lines, w) = [i \in 1 .. Len(lines) |-> Len(Starts[lines[i]][w])]  BY DEF RowCounts
<1>4. [i \in 1 .. Len(lines) |-> Len(Starts[lines[i]][w])] \in Seq(Nat)  BY <1>0, <1>2
<1>5. Len(RowCounts(lines, w)) = Len(lines)  BY <1>0, <1>3
<1> QED  BY <1>2, <1>3, <1>4, <1>5

\* The k-th row of the i-th line.
RowIn(lines, style, w, i, k) ==
    [n |-> i, byte |-> Starts[lines[i]][w][k],
     shows |-> Row(lines[i], Starts[lines[i]][w][k],
                   Fed(style, SubSeq(lines, 1, IF k = 1 THEN i - 1 ELSE i)))]

\* Which row is which.
LEMMA RowsAre ==
    ASSUME NEW lines \in Seq(Lines), NEW w \in Widths, NEW style
    PROVE  LET P == Sums(RowCounts(lines, w))
               rows == RowsOf(lines, style, w)
           IN /\ Len(rows) = P[Len(lines) + 1] /\ Len(rows) \in Nat /\ DOMAIN rows = 1 .. Len(rows)
              /\ \A i \in 1 .. Len(lines) : \A k \in 1 .. RowCounts(lines, w)[i] :
                    P[i] + k \in 1 .. Len(rows) /\ rows[P[i] + k] = RowIn(lines, style, w, i, k)
              /\ \A r \in 1 .. Len(rows) : \E i \in 1 .. Len(lines) :
                    \E k \in 1 .. RowCounts(lines, w)[i] : r = P[i] + k
<1> DEFINE C == RowCounts(lines, w)
           P == Sums(C)
           n == Len(lines)
           I(r) == Locate(P, r - 1) + 1
           At(r) == RowIn(lines, style, w, I(r), r - P[I(r)])
           rows == RowsOf(lines, style, w)
<1>0. n \in Nat  OBVIOUS
<1>1. C \in Seq(Nat) /\ Len(C) = n /\ \A i \in 1 .. n : C[i] \in Nat \ {0}  BY CountsAre
<1>2. /\ P \in Seq(Nat) /\ Len(P) = n + 1 /\ P[1] = 0
      /\ \A k \in 1 .. n + 1 : P[k] \in Nat
      /\ \A k \in 1 .. n : P[k + 1] = P[k] + C[k]
  <2> HIDE DEF C
  <2> QED  BY <1>1, SumsAre
<1>3. Last(P) = P[n + 1]  BY <1>2 DEF Last
<1>4. rows = [r \in 1 .. P[n + 1] |-> At(r)] \o << >>  BY <1>3 DEF RowsOf, RowIn
<1>5. \A r \in 1 .. P[n + 1] : r - 1 \in Nat /\ r \in Nat  BY <1>0, <1>2
<1>l. \A r \in Nat : /\ Locate(P, r) \in 0 .. n /\ P[Locate(P, r) + 1] <= r
                     /\ Locate(P, r) < n => r < P[Locate(P, r) + 2]
                     /\ r < P[n + 1] => Locate(P, r) < n
  <2> HIDE DEF C
  <2> QED  BY <1>1, Located
<1>m. \A r \in Nat : \A i \in 0 .. n - 1 : P[i + 1] <= r /\ r < P[i + 2] => Locate(P, r) = i
  <2> HIDE DEF C
  <2> QED  BY <1>1, LocatedIs
<1>g. \A i \in 1 .. n + 1 : \A j \in i .. n + 1 : P[i] <= P[j]
  <2> HIDE DEF C
  <2> QED  BY <1>1, SumsGrow
<1> HIDE DEF C, P, n, At, rows
<1>6. rows = [r \in 1 .. P[n + 1] |-> At(r)] /\ Len(rows) = P[n + 1]
  <2>1. P[n + 1] \in Nat  BY <1>0, <1>2
  <2> DEFINE S == {At(r) : r \in 1 .. P[n + 1]}
             f == [r \in 1 .. P[n + 1] |-> At(r)]
  <2>2. \A r \in 1 .. P[n + 1] : At(r) \in S  OBVIOUS
  <2> HIDE DEF S
  <2>3. f \in Seq(S) /\ Len(f) = P[n + 1]  BY <2>1, <2>2
  <2> HIDE DEF f
  <2>4. f \o << >> = f  BY <2>3, ConcatEmptySeq
  <2>5. rows = f \o << >>  BY <1>4 DEF f
  <2>6. rows = f /\ Len(rows) = P[n + 1]  BY <2>3, <2>4, <2>5
  <2> QED  BY <2>6 DEF f
<1>7. Len(rows) \in Nat /\ DOMAIN rows = 1 .. Len(rows)  BY <1>0, <1>2, <1>6
<1>8. ASSUME NEW i \in 1 .. n, NEW k \in 1 .. C[i]
      PROVE  P[i] + k \in 1 .. Len(rows) /\ rows[P[i] + k] = RowIn(lines, style, w, i, k)
  <2>1. i \in 1 .. n + 1 /\ i + 1 \in 1 .. n + 1 /\ n + 1 \in i + 1 .. n + 1  BY <1>0
  <2>2. P[i] \in Nat /\ P[i + 1] \in Nat /\ C[i] \in Nat /\ P[i + 1] = P[i] + C[i]
        /\ P[i + 1] <= P[n + 1] /\ P[n + 1] \in Nat  BY <1>0, <1>1, <1>2, <1>g, <2>1
  <2>3. P[i] + k \in 1 .. P[n + 1]  BY <2>2
  <2> DEFINE r == P[i] + k
  <2>4. r - 1 \in Nat /\ P[i] <= r - 1 /\ r - 1 < P[i + 1] /\ r - P[i] = k  BY <2>2
  <2>5. i - 1 \in 0 .. n - 1 /\ (i - 1) + 1 = i /\ (i - 1) + 2 = i + 1  BY <1>0
  <2>6. Locate(P, r - 1) = i - 1
    <3> HIDE DEF r
    <3> QED  BY <1>m, <2>4, <2>5
  <2>7. I(r) = i  BY <2>5, <2>6
  <2>8. At(r) = RowIn(lines, style, w, i, k)  BY <2>4, <2>7 DEF At
  <2>9. rows[r] = At(r)  BY <1>6, <2>3
  <2> QED  BY <1>6, <2>3, <2>8, <2>9
<1>9. ASSUME NEW r \in 1 .. Len(rows) PROVE \E i \in 1 .. n : \E k \in 1 .. C[i] : r = P[i] + k
  <2>1. r - 1 \in Nat /\ r - 1 < P[n + 1] /\ P[n + 1] \in Nat  BY <1>0, <1>2, <1>6
  <2>2. PICK m : m = Locate(P, r - 1)  OBVIOUS
  <2>3. m \in 0 .. n /\ P[m + 1] <= r - 1 /\ m < n /\ r - 1 < P[m + 2]  BY <1>l, <2>1, <2>2
  <2>4. m + 1 \in 1 .. n /\ m + 1 \in 1 .. n + 1 /\ m + 1 + 1 = m + 2  BY <1>0, <2>3
  <2>5. P[m + 2] = P[m + 1] + C[m + 1] /\ P[m + 1] \in Nat /\ C[m + 1] \in Nat  BY <1>1, <1>2, <2>4
  <2>6. r - P[m + 1] \in 1 .. C[m + 1] /\ r = P[m + 1] + (r - P[m + 1])  BY <2>3, <2>5, SMTT(30)
  <2> QED  BY <2>4, <2>6
<1> QED  BY <1>6, <1>7, <1>8, <1>9 DEF C, P, n, rows

\* The rows of all but the first m lines are the last rows of all of them.
LEMMA RowsOfRest ==
    ASSUME NEW lines \in Seq(Lines), NEW w \in Widths, NEW style, NEW m \in 0 .. Len(lines)
    PROVE  LET d == Sums(RowCounts(lines, w))[m + 1]
               rows == RowsOf(lines, style, w)
               rest == RowsOf(SubSeq(lines, m + 1, Len(lines)), Fed(style, SubSeq(lines, 1, m)), w)
           IN /\ d \in 0 .. Len(rows) /\ Len(rest) = Len(rows) - d
              /\ \A r \in 1 .. Len(rest) :
                    /\ rows[d + r].n = m + rest[r].n
                    /\ rows[d + r].byte = rest[r].byte
                    /\ rows[d + r].shows = rest[r].shows
<1> DEFINE C == RowCounts(lines, w)
           P == Sums(C)
           n == Len(lines)
           late == SubSeq(lines, m + 1, n)
           D == RowCounts(late, w)
           Q == Sums(D)
           then == Fed(style, SubSeq(lines, 1, m))
           rows == RowsOf(lines, style, w)
           rest == RowsOf(late, then, w)
<1>0. n \in Nat /\ m \in Nat /\ n - m \in Nat  OBVIOUS
<1>1. late \in Seq(Lines) /\ Len(late) = n - m /\ \A i \in 1 .. n - m : late[i] = lines[m + i]
  <2>1. n \in m .. Len(lines)  BY <1>0
  <2> HIDE DEF n
  <2> QED  BY <2>1, Stretch
<1>2. C \in Seq(Nat) /\ Len(C) = n
      /\ \A i \in 1 .. n : C[i] = Len(Starts[lines[i]][w]) /\ C[i] \in Nat \ {0}  BY CountsAre
<1> HIDE DEF late
<1>3. D \in Seq(Nat) /\ Len(D) = n - m
      /\ \A i \in 1 .. n - m : D[i] = Len(Starts[late[i]][w]) /\ D[i] \in Nat \ {0}
  BY <1>1, CountsAre
<1>r. /\ Len(rows) = P[n + 1] /\ Len(rows) \in Nat /\ DOMAIN rows = 1 .. Len(rows)
      /\ \A i \in 1 .. n : \A k \in 1 .. C[i] : rows[P[i] + k] = RowIn(lines, style, w, i, k)
  BY RowsAre
<1>s. /\ Len(rest) = Q[n - m + 1] /\ Len(rest) \in Nat /\ DOMAIN rest = 1 .. Len(rest)
      /\ \A i \in 1 .. n - m : \A k \in 1 .. D[i] : rest[Q[i] + k] = RowIn(late, then, w, i, k)
      /\ \A r \in 1 .. Len(rest) : \E i \in 1 .. n - m : \E k \in 1 .. D[i] : r = Q[i] + k
  <2> HIDE DEF then
  <2>1. \A i \in 1 .. Len(late) : \A k \in 1 .. D[i] : rest[Q[i] + k] = RowIn(late, then, w, i, k)
      BY <1>1, RowsAre
  <2>2. \A r \in 1 .. Len(rest) : \E i \in 1 .. Len(late) : \E k \in 1 .. D[i] : r = Q[i] + k
      BY <1>1, RowsAre, SMTT(30)
  <2>3. /\ Len(rest) = Q[Len(late) + 1] /\ Len(rest) \in Nat /\ DOMAIN rest = 1 .. Len(rest)
      BY <1>1, RowsAre
  <2> QED  BY <1>1, <2>1, <2>2, <2>3
<1>4. \A i \in 1 .. n - m : D[i] = C[m + i]
  <2>1. \A i \in 1 .. n - m : m + i \in 1 .. n  BY <1>0
  <2> QED  BY <1>1, <1>2, <1>3, <2>1
<1> HIDE DEF C, D
<1>p. /\ \A k \in 1 .. n + 1 : P[k] \in Nat
      /\ \A i \in 1 .. n + 1 : \A j \in i .. n + 1 : P[i] <= P[j]  BY <1>2, SumsAre, SumsGrow
<1>q. (\A k \in 1 .. n - m + 1 : Q[k] \in Nat) /\ Q[1] = 0  BY <1>3, SumsAre
<1>5. \A k \in 0 .. n - m : Q[k + 1] = P[m + k + 1] - P[m + 1]
  <2>1. \A k \in 1 .. n - m : C[m + k] = D[0 + k]  BY <1>4
  <2>2. m + (n - m) <= Len(C) /\ 0 + (n - m) <= Len(D)  BY <1>0, <1>2, <1>3
  <2>3. Agree(C, D, m, 0, n - m)  BY <2>1, <2>2 DEF Agree
  <2>4. C \in Seq(Nat) /\ D \in Seq(Nat)  BY <1>2, <1>3
  <2>5. \A k \in 0 .. n - m : P[m + k + 1] - P[m + 1] = Q[0 + k + 1] - Q[0 + 1]
    <3>1. 0 \in Nat  OBVIOUS
    <3>2. GrowAlike(C, D, m, 0, n - m)
      <4> HIDE DEF n
      <4> QED  BY <1>0, <2>3, <2>4, <3>1, SumsAgree, Zenon
    <3> QED  BY <3>2 DEF GrowAlike
  <2>6. ASSUME NEW k \in 0 .. n - m PROVE Q[k + 1] = P[m + k + 1] - P[m + 1]
    <3>1. 0 + k + 1 = k + 1 /\ k + 1 \in 1 .. n - m + 1  BY <1>0
    <3>2. Q[k + 1] \in Nat  BY <1>q, <3>1
    <3>3. Q[k + 1] - Q[1] = P[m + k + 1] - P[m + 1]  BY <2>5, <3>1
    <3> QED  BY <1>q, <3>2, <3>3
  <2> QED  BY <2>6
<1> DEFINE d == P[m + 1]
<1>6. d \in Nat /\ d <= P[n + 1] /\ P[n + 1] \in Nat
  <2>1. m + 1 \in 1 .. n + 1 /\ n + 1 \in m + 1 .. n + 1 /\ n + 1 \in 1 .. n + 1  BY <1>0
  <2> QED  BY <1>p, <2>1
<1>7. Len(rest) = Len(rows) - d
  <2>1. n - m \in 0 .. n - m /\ m + (n - m) + 1 = n + 1  BY <1>0
  <2>2. Q[n - m + 1] = P[m + (n - m) + 1] - P[m + 1]  BY <1>5, <2>1
  <2> QED  BY <1>r, <1>s, <2>1, <2>2
<1>8. ASSUME NEW r \in 1 .. Len(rest)
      PROVE  /\ rows[d + r].n = m + rest[r].n
             /\ rows[d + r].byte = rest[r].byte
             /\ rows[d + r].shows = rest[r].shows
  <2>1. PICK i \in 1 .. n - m : \E k \in 1 .. D[i] : r = Q[i] + k  BY <1>s
  <2>2. PICK k \in 1 .. D[i] : r = Q[i] + k  BY <2>1
  <2>3. rest[r] = RowIn(late, then, w, i, k)  BY <1>s, <2>2
  <2>4. m + i \in 1 .. n /\ m + i \in 1 .. n + 1 /\ i \in 1 .. n - m + 1  BY <1>0
  <2>5. k \in 1 .. C[m + i] /\ k \in Nat  BY <1>3, <1>4, <2>2, SMTT(30)
  <2>6. d + r = P[m + i] + k
    <3>1. i - 1 \in 0 .. n - m /\ (i - 1) + 1 = i /\ m + (i - 1) + 1 = m + i  BY <1>0
    <3>2. Q[i] = P[m + i] - d  BY <1>5, <3>1
    <3>3. P[m + i] \in Nat /\ Q[i] \in Nat  BY <1>p, <1>q, <2>4
    <3> HIDE DEF d
    <3> QED  BY <1>6, <2>2, <2>5, <3>2, <3>3, SMTT(30)
  <2>7. rows[d + r] = RowIn(lines, style, w, m + i, k)  BY <1>r, <2>4, <2>5, <2>6
  <2>8. late[i] = lines[m + i]  BY <1>1
  <2>9. PICK h \in 0 .. n - m : h = IF k = 1 THEN i - 1 ELSE i  BY <1>0
  <2>10. (IF k = 1 THEN m + i - 1 ELSE m + i) = m + h  BY <1>0, <2>9
  <2>11. SubSeq(late, 1, h) = SubSeq(lines, m + 1, m + h)
    <3> DEFINE x == SubSeq(late, 1, h)
               y == SubSeq(lines, m + 1, m + h)
    <3>1. /\ 0 \in 0 .. Len(late) /\ h \in 0 .. Len(late) /\ 0 + 1 = 1 /\ h - 0 = h
          /\ m \in 0 .. Len(lines) /\ m + h \in m .. Len(lines) /\ (m + h) - m = h
          /\ \A g \in 1 .. h : 0 + g = g /\ g \in 1 .. n - m
      <4>1. h \in Nat /\ h <= n - m  BY <1>0
      <4> HIDE DEF n
      <4>2. m + h <= n  BY <1>0, <4>1
      <4>3. 0 \in 0 .. n - m /\ h \in 0 .. n - m  BY <1>0, <4>1
      <4>4. m + h \in m .. n /\ m \in 0 .. n  BY <1>0, <4>1, <4>2
      <4>5. 0 + 1 = 1 /\ h - 0 = h /\ (m + h) - m = h  BY <1>0, <4>1
      <4>6. \A g \in 1 .. h : 0 + g = g /\ g \in 1 .. n - m  BY <1>0, <4>1
      <4> QED  BY <1>1, <4>3, <4>4, <4>5, <4>6 DEF n
    <3>2. x \in Seq(Lines) /\ Len(x) = h /\ \A g \in 1 .. h : x[g] = lines[m + g]
      <4>1. x \in Seq(Lines) /\ Len(x) = h /\ \A g \in 1 .. h : x[g] = late[g]
          BY <1>1, <3>1, Beginning
      <4> QED  BY <1>1, <3>1, <4>1
    <3>3. y \in Seq(Lines) /\ Len(y) = h /\ \A g \in 1 .. h : y[g] = lines[m + g]
      <4>1. /\ y \in Seq(Lines) /\ Len(y) = (m + h) - m
            /\ \A g \in 1 .. (m + h) - m : y[g] = lines[m + g]  BY <3>1, Stretch
      <4> QED  BY <3>1, <4>1
    <3> HIDE DEF x, y
    <3>4. x = y  BY <3>2, <3>3, SeqEqual
    <3> QED  BY <3>4 DEF x, y
  <2>12. Fed(then, SubSeq(late, 1, h)) = Fed(style, SubSeq(lines, 1, m + h))
    <3>1. m \in 0 .. Len(lines) /\ m + h \in m .. Len(lines)  BY <1>0
    <3>2. Fed(Fed(style, SubSeq(lines, 1, m)), SubSeq(lines, m + 1, m + h))
            = Fed(style, SubSeq(lines, 1, m + h))  BY <3>1, FedOn
    <3> QED  BY <2>11, <3>2
  <2>13. (IF k = 1 THEN i - 1 ELSE i) = h /\ (IF k = 1 THEN m + i - 1 ELSE m + i) = m + h
      BY <2>9, <2>10
  <2> HIDE DEF then, rows, rest, d
  <2>14. /\ rows[d + r].n = m + i /\ rest[r].n = i
         /\ rows[d + r].byte = Starts[lines[m + i]][w][k] /\ rest[r].byte = Starts[late[i]][w][k]
      BY <2>3, <2>7 DEF RowIn
  <2>15. rows[d + r].shows = Row(lines[m + i], Starts[lines[m + i]][w][k],
                                 Fed(style, SubSeq(lines, 1, m + h)))
      BY <2>7, <2>13 DEF RowIn
  <2>16. rest[r].shows = Row(late[i], Starts[late[i]][w][k], Fed(then, SubSeq(late, 1, h)))
      BY <2>3, <2>13 DEF RowIn
  <2> QED  BY <2>8, <2>12, <2>14, <2>15, <2>16
<1> QED  BY <1>6, <1>7, <1>8, <1>r DEF C, late, then

-------------------------------------------------------------------------------
(* The ring, and the cached counts of its rows.                            *)

Indexes == [cols : Nat, head : 0 .. MaxLines - 1, rows : Seq(Nat)]

StoreType ==
    /\ log \in Seq(Lines)
    /\ ring \in [lines : [0 .. MaxLines - 1 -> Lines \cup {Empty}], head : 0 .. MaxLines - 1,
                 count : 0 .. MaxLines]
    /\ index \in Indexes
    /\ frame \in 0 .. Len(log)
    /\ tty \in Sizes /\ term \in Sizes \cup {NoSize}

\* The ring holds the last lines output, and its base style is what the others left.
RingInv ==
    /\ ring.count = Minimum(Len(log), MaxLines)
    /\ ring.count < MaxLines => ring.head = 0
    /\ ring.head <= Evicted
    /\ \A i \in 0 .. ring.count - 1 : Stored(i) = log[Evicted + i + 1]
    /\ base = Fed(Plain, SubSeq(log, 1, Evicted))

\* A count in the index is of the line that was in its place when the head was the index's,
\* and the ring has not gone round since.
IndexTrue(ix) ==
    \/ ix = NoIndex
    \/ /\ ix.cols \in Widths /\ ix.head <= ring.head /\ Len(ix.rows) <= MaxLines
       /\ Evicted - ring.head + ix.head + Len(ix.rows) <= Len(log)
       /\ \A k \in 1 .. Len(ix.rows) :
             ix.rows[k] = Len(Starts[log[Evicted - ring.head + ix.head + k]][ix.cols])

StoreInv == StoreType /\ RingInv /\ IndexTrue(index)

\* Every width has a column.
LEMMA WidthsAre == \A w \in Widths : w \in Nat \ {0}
<1>1. TAKE w \in Widths
<1>2. PICK s \in Sizes : w = Wrap(s.cols)  BY DEF Widths
<1>3. s.cols \in Nat \ {0, 1}  BY SizeAssumption
<1> QED  BY <1>2, <1>3 DEF Wrap

\* A line that is output takes the place of the oldest.
LEMMA OutputKeepsRing ==
    ASSUME StoreInv, NEW l \in Lines, OutputEvent(l)
    PROVE  /\ log' \in Seq(Lines)
           /\ ring' \in [lines : [0 .. MaxLines - 1 -> Lines \cup {Empty}],
                         head : 0 .. MaxLines - 1,
                         count : 0 .. MaxLines]
           /\ RingInv'
<1> DEFINE full == ring.count = MaxLines
           next == (ring.head + 1) % MaxLines
           slot == (ring.head + (IF full THEN 0 ELSE ring.count)) % MaxLines
           h == ring.head
           n == Len(log)
<1>0. MaxLines \in Nat \ {0}  BY BoundAssumption
<1>1. /\ log \in Seq(Lines) /\ n \in Nat /\ h \in 0 .. MaxLines - 1
      /\ ring.lines \in [0 .. MaxLines - 1 -> Lines \cup {Empty}] /\ ring.count \in 0 .. MaxLines
  BY DEF StoreInv, StoreType
<1>2. /\ log' = Append(log, l)
      /\ ring' = [lines |-> [ring.lines EXCEPT ![slot] = l],
                  head |-> IF full THEN next ELSE ring.head,
                  count |-> IF full THEN MaxLines ELSE ring.count + 1]
      /\ base' = IF full THEN Fed(base, <<ring.lines[slot]>>) ELSE base
  BY DEF OutputEvent
<1>3. /\ ring.count = Minimum(n, MaxLines)
      /\ ring.count < MaxLines => h = 0
      /\ h <= Evicted
      /\ \A i \in 0 .. ring.count - 1 : ring.lines[(h + i) % MaxLines] = log[Evicted + i + 1]
      /\ base = Fed(Plain, SubSeq(log, 1, Evicted))  BY DEF StoreInv, RingInv, Stored
<1>4. log' \in Seq(Lines) /\ Len(log') = n + 1 /\ log'[n + 1] = l
      /\ \A i \in 1 .. n : log'[i] = log[i]  BY <1>1, <1>2
<1>5. slot = (IF full THEN h ELSE ring.count) /\ slot \in 0 .. MaxLines - 1
  <2>1. CASE full
    <3>1. 0 \in 0 .. MaxLines  BY <1>0
    <3>2. (h + 0) % MaxLines = IF h + 0 < MaxLines THEN h + 0 ELSE h + 0 - MaxLines
        BY <1>1, <3>1, Wrapped
    <3> QED  BY <1>0, <1>1, <2>1, <3>2
  <2>2. CASE ~full
    <3>1. h = 0 /\ ring.count \in 0 .. MaxLines - 1  BY <1>0, <1>1, <1>3, <2>2
    <3>2. (h + ring.count) % MaxLines
            = IF h + ring.count < MaxLines THEN h + ring.count ELSE h + ring.count - MaxLines
        BY <1>1, Wrapped
    <3> QED  BY <1>0, <1>1, <2>2, <3>1, <3>2
  <2> QED  BY <2>1, <2>2
<1>6. next = (IF h + 1 < MaxLines THEN h + 1 ELSE 0) /\ next \in 0 .. MaxLines - 1
  <2>1. 1 \in 0 .. MaxLines  BY <1>0
  <2>2. next = IF h + 1 < MaxLines THEN h + 1 ELSE h + 1 - MaxLines  BY <1>1, <2>1, Wrapped
  <2> QED  BY <1>0, <1>1, <2>2, SMTT(30)
<1> HIDE DEF next, slot
<1>7. ring' \in [lines : [0 .. MaxLines - 1 -> Lines \cup {Empty}], head : 0 .. MaxLines - 1,
                 count : 0 .. MaxLines]
  <2>1. [ring.lines EXCEPT ![slot] = l] \in [0 .. MaxLines - 1 -> Lines \cup {Empty}]  BY <1>1
  <2>2. (IF full THEN next ELSE ring.head) \in 0 .. MaxLines - 1  BY <1>1, <1>6
  <2>3. (IF full THEN MaxLines ELSE ring.count + 1) \in 0 .. MaxLines  BY <1>0, <1>1
  <2> QED  BY <1>2, <2>1, <2>2, <2>3
<1>8. /\ ring'.head = (IF full THEN next ELSE h)
      /\ ring'.count = (IF full THEN MaxLines ELSE ring.count + 1)
      /\ \A i \in 0 .. MaxLines - 1 : ring'.lines[i] = IF i = slot THEN l ELSE ring.lines[i]
  BY <1>1, <1>2
<1>e. Evicted = IF n > MaxLines THEN n - MaxLines ELSE 0  BY DEF Evicted, Monus
<1>f. Evicted' = IF n + 1 > MaxLines THEN n + 1 - MaxLines ELSE 0
  BY <1>0, <1>1, <1>4 DEF Evicted, Monus
<1>9. CASE ~full
  <2>1. h = 0 /\ n < MaxLines /\ ring.count = n /\ Evicted = 0 /\ Evicted' = 0
      BY <1>0, <1>1, <1>3, <1>9, <1>e, <1>f DEF Minimum
  <2>2. ring'.head = 0 /\ ring'.count = n + 1 /\ slot = n  BY <1>5, <1>8, <1>9, <2>1
  <2>3. ASSUME NEW i \in 0 .. n PROVE ring'.lines[(0 + i) % MaxLines] = log'[0 + i + 1]
    <3>1. (0 + i) % MaxLines = i /\ i \in 0 .. MaxLines - 1
      <4>1. 0 \in 0 .. MaxLines - 1 /\ i \in 0 .. MaxLines  BY <1>0, <1>1, <2>1
      <4>2. (h + i) % MaxLines = IF h + i < MaxLines THEN h + i ELSE h + i - MaxLines
          BY <1>1, <4>1, Wrapped
      <4> QED  BY <1>0, <1>1, <2>1, <4>2
    <3>2. CASE i = n  BY <1>4, <1>8, <2>1, <2>2, <3>1, <3>2
    <3>3. CASE i # n
      <4>1. i \in 0 .. ring.count - 1 /\ i + 1 \in 1 .. n  BY <1>1, <2>1, <3>3
      <4>2. ring.lines[(h + i) % MaxLines] = log[Evicted + i + 1]  BY <1>3, <4>1
      <4>3. ring.lines[i] = log[i + 1]  BY <2>1, <3>1, <4>2
      <4>4. ring'.lines[i] = ring.lines[i]  BY <1>8, <2>2, <3>1, <3>3
      <4> QED  BY <1>4, <3>1, <4>1, <4>3, <4>4
    <3> QED  BY <3>2, <3>3
  <2>4. base' = Fed(Plain, SubSeq(log', 1, 0))
    <3>1. SubSeq(log', 1, 0) = << >> /\ SubSeq(log, 1, 0) = << >>  BY <1>1, <1>4
    <3> QED  BY <1>2, <1>3, <1>9, <2>1, <3>1
  <2>5. /\ ring'.count = Minimum(Len(log'), MaxLines)
        /\ ring'.count < MaxLines => ring'.head = 0
        /\ ring'.head <= Evicted'  BY <1>0, <1>1, <1>4, <2>1, <2>2 DEF Minimum
  <2>6. \A i \in 0 .. ring'.count - 1 :
          ring'.lines[(ring'.head + i) % MaxLines] = log'[Evicted' + i + 1]
    <3>1. ring'.count - 1 = n  BY <1>1, <2>2
    <3> QED  BY <2>1, <2>2, <2>3, <3>1
  <2>7. RingInv'  BY <2>1, <2>4, <2>5, <2>6 DEF RingInv, Stored
  <2> QED  BY <1>4, <1>7, <2>7
<1>10. CASE full
  <2>1. n >= MaxLines /\ Evicted = n - MaxLines /\ Evicted' = Evicted + 1 /\ Evicted \in Nat
      BY <1>0, <1>1, <1>3, <1>10, <1>e, <1>f DEF Minimum
  <2>2. ring'.head = next /\ ring'.count = MaxLines /\ slot = h  BY <1>5, <1>8, <1>10
  <2>3. ASSUME NEW i \in 0 .. MaxLines - 1
        PROVE  ring'.lines[(next + i) % MaxLines] = log'[Evicted + 1 + i + 1]
    <3>0. i \in 0 .. MaxLines /\ i + 1 \in 0 .. MaxLines  BY <1>0
    <3>1. (next + i) % MaxLines = IF next + i < MaxLines THEN next + i ELSE next + i - MaxLines
        BY <1>6, <3>0, Wrapped
    <3>2. (h + (i + 1)) % MaxLines
            = IF h + (i + 1) < MaxLines THEN h + (i + 1) ELSE h + (i + 1) - MaxLines
        BY <1>1, <3>0, Wrapped
    <3>3. CASE i = MaxLines - 1
      <4>1. (next + i) % MaxLines = h  BY <1>0, <1>1, <1>6, <3>1, <3>3, SMTT(30)
      <4>2. Evicted + 1 + i + 1 = n + 1  BY <1>0, <1>1, <2>1, <3>3
      <4> QED  BY <1>1, <1>4, <1>8, <2>2, <4>1, <4>2
    <3>4. CASE i # MaxLines - 1
      <4>1. i + 1 \in 0 .. ring.count - 1 /\ Evicted + (i + 1) + 1 \in 1 .. n
            /\ Evicted + (i + 1) + 1 = Evicted + 1 + i + 1  BY <1>0, <1>1, <1>10, <2>1, <3>4
      <4>2. ring.lines[(h + (i + 1)) % MaxLines] = log[Evicted + (i + 1) + 1]  BY <1>3, <4>1
      <4>3. PICK p \in 0 .. MaxLines - 1 :
              p = (next + i) % MaxLines /\ p = (h + (i + 1)) % MaxLines /\ p # h
        <5>1. PICK x : x = (next + i) % MaxLines  OBVIOUS
        <5>2. PICK y : y = (h + (i + 1)) % MaxLines  OBVIOUS
        <5>3. x = IF next + i < MaxLines THEN next + i ELSE next + i - MaxLines  BY <3>1, <5>1
        <5>4. y = IF h + (i + 1) < MaxLines THEN h + (i + 1) ELSE h + (i + 1) - MaxLines
            BY <3>2, <5>2
        <5>5. x = y /\ x # h /\ x \in 0 .. MaxLines - 1
          <6>1. CASE h + 1 < MaxLines
            <7>1. next = h + 1  BY <1>6, <6>1
            <7>2. h \in Nat /\ MaxLines \in Nat /\ i \in Nat  BY <1>0, <1>1
            <7>3. x = IF h + 1 + i < MaxLines THEN h + 1 + i ELSE (h + 1 + i) - MaxLines
                BY <1>0, <5>3, <7>1, <7>2
            <7>4. y = IF h + 1 + i < MaxLines THEN h + 1 + i ELSE (h + 1 + i) - MaxLines
                BY <1>0, <5>4, <7>2
            <7>5. i < MaxLines - 1 /\ h < MaxLines  BY <1>0, <1>1, <3>4
            <7>6. x # h /\ x \in 0 .. MaxLines - 1  BY <7>2, <7>3, <7>5
            <7> QED  BY <7>3, <7>4, <7>6
          <6>2. CASE ~(h + 1 < MaxLines)
            <7>1. next = 0 /\ h = MaxLines - 1  BY <1>0, <1>1, <1>6, <6>2
            <7> QED  BY <1>0, <3>4, <5>3, <5>4, <7>1
          <6> QED  BY <6>1, <6>2
        <5> QED  BY <5>1, <5>2, <5>5
      <4>4. ring'.lines[p] = ring.lines[p]  BY <1>8, <2>2, <4>3
      <4> QED  BY <1>4, <4>1, <4>2, <4>3, <4>4
    <3> QED  BY <3>3, <3>4
  <2>4. base' = Fed(Plain, SubSeq(log', 1, Evicted + 1))
    <3>1. 0 \in 0 .. ring.count - 1 /\ 0 \in 0 .. MaxLines  BY <1>0, <1>1, <1>10
    <3>2. (h + 0) % MaxLines = h
      <4>1. (h + 0) % MaxLines = IF h + 0 < MaxLines THEN h + 0 ELSE h + 0 - MaxLines
          BY <1>1, <3>1, Wrapped
      <4> QED  BY <1>0, <1>1, <4>1
    <3>3. ring.lines[h] = log[Evicted + 1]
      <4>1. ring.lines[(h + 0) % MaxLines] = log[Evicted + 0 + 1]  BY <1>3, <3>1
      <4> QED  BY <2>1, <3>2, <4>1
    <3>4. /\ Evicted \in 0 .. Len(log) /\ Evicted + 1 \in Evicted .. Len(log)
          /\ Evicted + 1 \in 0 .. Len(log) /\ Evicted + 1 \in 0 .. Len(log')
          BY <1>0, <1>1, <1>4, <2>1
    <3>5. Fed(Fed(Plain, SubSeq(log, 1, Evicted)), SubSeq(log, Evicted + 1, Evicted + 1))
            = Fed(Plain, SubSeq(log, 1, Evicted + 1))  BY <1>1, <3>4, FedOn
    <3>6. SubSeq(log, Evicted + 1, Evicted + 1) = <<log[Evicted + 1]>>
      <4>1. PICK b \in 1 .. Len(log) : b = Evicted + 1  BY <1>0, <1>1, <2>1
      <4>2. SubSeq(log, b, b) = <<log[b]>>  BY <1>1, Single
      <4> QED  BY <4>1, <4>2
    <3>7. SubSeq(log', 1, Evicted + 1) = SubSeq(log, 1, Evicted + 1)
      <4>1. PICK b \in 0 .. Len(log) : b = Evicted + 1 /\ b \in 0 .. Len(log')  BY <3>4
      <4>2. /\ SubSeq(log, 1, b) \in Seq(Lines) /\ Len(SubSeq(log, 1, b)) = b
            /\ \A i \in 1 .. b : SubSeq(log, 1, b)[i] = log[i]  BY <1>1, Beginning
      <4>3. /\ SubSeq(log', 1, b) \in Seq(Lines) /\ Len(SubSeq(log', 1, b)) = b
            /\ \A i \in 1 .. b : SubSeq(log', 1, b)[i] = log'[i]  BY <1>4, <4>1, Beginning
      <4>4. \A i \in 1 .. b : log'[i] = log[i]  BY <1>1, <1>4
      <4>5. \A i \in 1 .. b : SubSeq(log', 1, b)[i] = SubSeq(log, 1, b)[i]  BY <4>2, <4>3, <4>4
      <4>6. SubSeq(log', 1, b) = SubSeq(log, 1, b)  BY <4>2, <4>3, <4>5, SeqEqual
      <4> QED  BY <4>1, <4>6
    <3>8. base' = Fed(base, <<log[Evicted + 1]>>)  BY <1>2, <1>10, <2>2, <3>3
    <3> QED  BY <1>3, <3>5, <3>6, <3>7, <3>8, Zenon
  <2>5. /\ ring'.count = Minimum(Len(log'), MaxLines)
        /\ ring'.count < MaxLines => ring'.head = 0
        /\ ring'.head <= Evicted'
    <3>1. ring'.count = Minimum(Len(log'), MaxLines)  BY <1>0, <1>1, <1>4, <2>1, <2>2 DEF Minimum
    <3>2. next <= Evicted + 1  BY <1>1, <1>3, <1>6, <2>1
    <3>3. ring'.head <= Evicted'  BY <2>1, <2>2, <3>2
    <3>4. ~(ring'.count < MaxLines)  BY <1>0, <2>2
    <3> QED  BY <3>1, <3>3, <3>4
  <2>6. \A i \in 0 .. ring'.count - 1 :
          ring'.lines[(ring'.head + i) % MaxLines] = log'[Evicted' + i + 1]
      BY <2>1, <2>2, <2>3
  <2>7. RingInv'  BY <2>1, <2>4, <2>5, <2>6 DEF RingInv, Stored
  <2> QED  BY <1>4, <1>7, <2>7
<1> QED  BY <1>9, <1>10

\* The index is still true, for a line that is output does not move the others.
LEMMA OutputKeepsIndex ==
    ASSUME StoreInv, NEW l \in Lines, OutputEvent(l)
    PROVE  index' \in Indexes /\ IndexTrue(index)'
<1> DEFINE full == ring.count = MaxLines
           next == (ring.head + 1) % MaxLines
           h == ring.head
           n == Len(log)
<1>0. MaxLines \in Nat \ {0}  BY BoundAssumption
<1>1. /\ log \in Seq(Lines) /\ n \in Nat /\ h \in 0 .. MaxLines - 1
      /\ ring.count \in 0 .. MaxLines /\ index \in Indexes /\ IndexTrue(index)
  BY DEF StoreInv, StoreType
<1>2. /\ log' = Append(log, l)
      /\ ring'.head = (IF full THEN next ELSE h)
      /\ index' = IF full /\ next = 0 THEN NoIndex ELSE index
  BY DEF OutputEvent
<1>3. /\ ring.count = Minimum(n, MaxLines) /\ (ring.count < MaxLines => h = 0)
  BY DEF StoreInv, RingInv
<1>4. Len(log') = n + 1 /\ \A i \in 1 .. n : log'[i] = log[i]  BY <1>1, <1>2
<1>5. next = (IF h + 1 < MaxLines THEN h + 1 ELSE 0) /\ next \in 0 .. MaxLines - 1
  <2>1. 1 \in 0 .. MaxLines  BY <1>0
  <2>2. next = IF h + 1 < MaxLines THEN h + 1 ELSE h + 1 - MaxLines  BY <1>1, <2>1, Wrapped
  <2> QED  BY <1>0, <1>1, <2>2
<1> HIDE DEF next
<1>6. NoIndex \in Indexes  BY <1>0 DEF NoIndex, Indexes
<1>7. CASE index' = NoIndex  BY <1>6, <1>7 DEF IndexTrue
<1>8. CASE index' # NoIndex
  <2>1. index' = index /\ index # NoIndex /\ ~(full /\ next = 0)  BY <1>2, <1>8
  <2>2. /\ index.cols \in Widths /\ index.head <= h /\ Len(index.rows) <= MaxLines
        /\ Evicted - h + index.head + Len(index.rows) <= n
        /\ \A k \in 1 .. Len(index.rows) :
              index.rows[k] = Len(Starts[log[Evicted - h + index.head + k]][index.cols])
      BY <1>1, <2>1 DEF IndexTrue
  <2>3. index.head \in Nat /\ index.rows \in Seq(Nat) /\ Len(index.rows) \in Nat
      BY <1>1 DEF Indexes
  <2>4. Evicted = (IF n > MaxLines THEN n - MaxLines ELSE 0)
        /\ Evicted' = (IF n + 1 > MaxLines THEN n + 1 - MaxLines ELSE 0)
      BY <1>0, <1>1, <1>4 DEF Evicted, Monus
  <2>5. Evicted' - ring'.head = Evicted - h /\ Evicted - h \in Int /\ h <= ring'.head
    <3>1. CASE full
      <4>1. n >= MaxLines  BY <1>0, <1>1, <1>3, <3>1 DEF Minimum
      <4>2. ring'.head = h + 1  BY <1>2, <1>5, <2>1, <3>1
      <4> QED  BY <1>0, <1>1, <2>4, <4>1, <4>2, SMTT(30)
    <3>2. CASE ~full
      <4>1. n < MaxLines  BY <1>0, <1>1, <1>3, <3>2 DEF Minimum
      <4>2. ring'.head = h  BY <1>2, <3>2
      <4> QED  BY <1>0, <1>1, <2>4, <4>1, <4>2
    <3> QED  BY <3>1, <3>2
  <2>6. h <= Evicted  BY DEF StoreInv, RingInv
  <2>7. PICK d : d = Evicted - h  OBVIOUS
  <2>8. d \in Nat /\ d + index.head + Len(index.rows) <= n
    <3>1. Evicted \in Nat  BY <1>0, <1>1, <2>4
    <3> QED  BY <1>1, <2>2, <2>6, <2>7, <3>1
  <2>9. \A k \in 1 .. Len(index.rows) :
          index.rows[k] = Len(Starts[log'[d + index.head + k]][index.cols])
    <3>1. TAKE k \in 1 .. Len(index.rows)
    <3>2. index.rows[k] = Len(Starts[log[d + index.head + k]][index.cols])  BY <2>2, <2>7
    <3>3. d + index.head + k \in 1 .. n
      <4>1. n \in Nat /\ index.head \in Nat /\ Len(index.rows) \in Nat /\ d \in Nat
          BY <1>1, <2>3, <2>8
      <4>2. d + index.head + Len(index.rows) <= n  BY <2>8
      <4> HIDE DEF n
      <4> QED  BY <4>1, <4>2, SMTT(30)
    <3> QED  BY <1>4, <3>2, <3>3
  <2>10. index.head <= ring'.head
    <3>1. ring'.head \in Nat  BY <1>1, <1>2, <1>5
    <3> QED  BY <1>1, <2>2, <2>3, <2>5, <3>1
  <2>11. d + index.head + Len(index.rows) <= Len(log')  BY <1>1, <1>4, <2>3, <2>8
  <2>12. d = Evicted' - ring'.head  BY <2>5, <2>7
  <2>13. IndexTrue(index)'
    <3>1. /\ index'.cols \in Widths /\ index'.head <= ring'.head /\ Len(index'.rows) <= MaxLines
          /\ Evicted' - ring'.head + index'.head + Len(index'.rows) <= Len(log')
          /\ \A k \in 1 .. Len(index'.rows) :
               index'.rows[k]
                 = Len(Starts[log'[Evicted' - ring'.head + index'.head + k]][index'.cols])
      BY <2>1, <2>2, <2>9, <2>10, <2>11, <2>12
    <3> QED  BY <3>1 DEF IndexTrue
  <2> QED  BY <1>1, <2>1, <2>13
<1> QED  BY <1>7, <1>8

\* The lines the ring holds, oldest first.
LEMMA RetainedAre ==
    ASSUME StoreInv
    PROVE  /\ Evicted \in 0 .. Len(log) /\ Len(log) - Evicted = ring.count
           /\ Len(log) \in Nat /\ ring.count \in Nat
           /\ SubSeq(log, Evicted + 1, Len(log)) \in Seq(Lines)
           /\ Len(SubSeq(log, Evicted + 1, Len(log))) = ring.count
           /\ \A i \in 1 .. ring.count : SubSeq(log, Evicted + 1, Len(log))[i] = log[Evicted + i]
           /\ \A i \in 0 .. ring.count - 1 :
                 Stored(i) = log[Evicted + i + 1] /\ Stored(i) \in Lines
           /\ Retained = SubSeq(log, Evicted + 1, Len(log))
<1> DEFINE n == Len(log)
           late == SubSeq(log, Evicted + 1, n)
<1>0. MaxLines \in Nat \ {0}  BY BoundAssumption
<1>1. log \in Seq(Lines) /\ n \in Nat /\ ring.count \in Nat  BY DEF StoreInv, StoreType
<1>2. ring.count = Minimum(n, MaxLines)  BY DEF StoreInv, RingInv
<1>3. Evicted \in 0 .. n /\ n - Evicted = ring.count
  <2>1. n \in Nat  BY <1>1
  <2>2. Evicted = Monus(n, MaxLines)  BY DEF Evicted
  <2> HIDE DEF n
  <2>3. Monus(n, MaxLines) \in 0 .. n /\ n - Monus(n, MaxLines) = Minimum(n, MaxLines)
      BY <1>0, <2>1 DEF Monus, Minimum
  <2> QED  BY <1>2, <2>2, <2>3
<1>4. late \in Seq(Lines) /\ Len(late) = ring.count
      /\ \A i \in 1 .. ring.count : late[i] = log[Evicted + i]
  <2>1. n \in Evicted .. Len(log)  BY <1>1, <1>3
  <2>2. late \in Seq(Lines) /\ Len(late) = n - Evicted
        /\ \A i \in 1 .. n - Evicted : late[i] = log[Evicted + i]  BY <1>1, <1>3, <2>1, Stretch
  <2> QED  BY <1>3, <2>2
<1>5. \A i \in 0 .. ring.count - 1 : Stored(i) = log[Evicted + i + 1] /\ Stored(i) \in Lines
  <2>1. TAKE i \in 0 .. ring.count - 1
  <2>2. Stored(i) = log[Evicted + i + 1]  BY DEF StoreInv, RingInv
  <2>3. Evicted + i + 1 \in 1 .. n  BY <1>1, <1>3
  <2> QED  BY <1>1, <2>2, <2>3
<1> HIDE DEF late
<1>6. Retained = late
  <2>1. ASSUME NEW i \in 1 .. ring.count PROVE Stored(i - 1) = late[i] /\ Stored(i - 1) \in Lines
    <3>1. i - 1 \in 0 .. ring.count - 1 /\ Evicted + (i - 1) + 1 = Evicted + i  BY <1>1, <1>3
    <3> QED  BY <1>4, <1>5, <3>1
  <2>2. Retained = [i \in 1 .. ring.count |-> Stored(i - 1)]  BY DEF Retained
  <2>3. [i \in 1 .. ring.count |-> Stored(i - 1)] \in Seq(Lines)  BY <1>1, <2>1
  <2>4. Retained \in Seq(Lines) /\ Len(Retained) = ring.count
        /\ \A i \in 1 .. ring.count : Retained[i] = late[i]  BY <1>1, <2>1, <2>2, <2>3
  <2> HIDE DEF Retained
  <2> QED  BY <1>4, <2>4, SeqEqual
<1> QED  BY <1>1, <1>3, <1>4, <1>5, <1>6 DEF late

\* ui_wrap_index_sync: whatever was in the cache, the counts are those of the ring's lines.
LEMMA SyncedIs ==
    ASSUME StoreInv, NEW ix \in Indexes, IndexTrue(ix), NEW w \in Widths
    PROVE  /\ Synced(ix, w) = [cols |-> w, head |-> ring.head,
                               rows |-> RowCounts(SubSeq(log, Evicted + 1, Len(log)), w)]
           /\ Synced(ix, w) \in Indexes /\ IndexTrue(Synced(ix, w))
<1> DEFINE late == SubSeq(log, Evicted + 1, Len(log))
           rows == RowCounts(late, w)
           known == Len(ix.rows)
           same == ix.cols = w /\ ix.head = ring.head
           shifted == /\ ix.cols = w /\ known = MaxLines /\ ring.count = MaxLines
                      /\ ring.head = (ix.head + 1) % MaxLines
           n == ring.count
<1>0. MaxLines \in Nat \ {0}  BY BoundAssumption
<1>1. /\ n \in Nat /\ n <= MaxLines /\ ring.head \in 0 .. MaxLines - 1
      /\ ix.cols \in Nat /\ ix.head \in 0 .. MaxLines - 1 /\ ix.rows \in Seq(Nat) /\ known \in Nat
      /\ \A k \in 1 .. known : ix.rows[k] \in Nat
  BY SMTT(30) DEF StoreInv, StoreType, Indexes
<1>2. /\ Evicted \in 0 .. Len(log) /\ Len(log) - Evicted = n /\ Len(log) \in Nat
      /\ late \in Seq(Lines) /\ Len(late) = n /\ \A i \in 1 .. n : late[i] = log[Evicted + i]
      /\ \A i \in 0 .. n - 1 : Stored(i) = log[Evicted + i + 1]  BY RetainedAre
<1>3. /\ rows \in Seq(Nat) /\ Len(rows) = n
      /\ \A i \in 1 .. n : rows[i] = Len(Starts[late[i]][w]) /\ rows[i] \in Nat
  <2> HIDE DEF late
  <2> QED  BY <1>2, CountsAre
<1> HIDE DEF late, rows
<1>4. ASSUME NEW from \in 0 .. n
      PROVE  /\ Counts(from, w) \in Seq(Nat) /\ Len(Counts(from, w)) = n - from
             /\ \A i \in 1 .. n - from : Counts(from, w)[i] = rows[from + i]
  <2>1. ASSUME NEW i \in 1 .. n - from
        PROVE  /\ Len(Starts[Stored(from + i - 1)][w]) = rows[from + i] /\ rows[from + i] \in Nat
    <3>1. from + i - 1 \in 0 .. n - 1 /\ from + i \in 1 .. n
          /\ Evicted + (from + i - 1) + 1 = Evicted + (from + i)  BY <1>1, <1>2
    <3>2. Stored(from + i - 1) = late[from + i]  BY <1>2, <3>1
    <3> QED  BY <1>3, <3>1, <3>2
  <2>2. Counts(from, w) = [i \in 1 .. n - from |-> Len(Starts[Stored(from + i - 1)][w])]
      BY DEF Counts
  <2>3. n - from \in Nat  BY <1>1
  <2>4. [i \in 1 .. n - from |-> Len(Starts[Stored(from + i - 1)][w])] \in Seq(Nat)
      BY <2>1, <2>3
  <2> QED  BY <2>1, <2>2, <2>3, <2>4
<1>5. /\ Synced(ix, w).rows = IF same /\ n >= known THEN ix.rows \o Counts(known, w)
                              ELSE IF shifted THEN Tail(ix.rows) \o Counts(MaxLines - 1, w)
                              ELSE Counts(0, w)
      /\ Synced(ix, w) = [cols |-> w, head |-> ring.head, rows |-> Synced(ix, w).rows]
  BY DEF Synced
<1>6. w # 0  BY WidthsAre
<1>7. ix.cols = w =>
         /\ ix.head <= ring.head /\ known <= MaxLines
         /\ Evicted - ring.head + ix.head + known <= Len(log)
         /\ \A k \in 1 .. known :
               ix.rows[k] = Len(Starts[log[Evicted - ring.head + ix.head + k]][w])
  BY <1>6 DEF IndexTrue, NoIndex
<1>8. Synced(ix, w).rows = rows
  <2>1. CASE same /\ n >= known
    <3>1. \A k \in 1 .. known : ix.rows[k] = rows[k]
      <4>1. TAKE k \in 1 .. known
      <4>2. Evicted - ring.head + ix.head + k = Evicted + k /\ k \in 1 .. n
          BY <1>1, <1>2, <2>1, SMTT(30)
      <4>3. ix.rows[k] = Len(Starts[log[Evicted + k]][w])  BY <1>7, <2>1, <4>2
      <4> QED  BY <1>2, <1>3, <4>2, <4>3
    <3>2. known \in 0 .. n  BY <1>1, <2>1
    <3> DEFINE more == Counts(known, w)
    <3>3. more \in Seq(Nat) /\ Len(more) = n - known
          /\ \A i \in 1 .. n - known : more[i] = rows[known + i]  BY <1>4, <3>2
    <3> HIDE DEF more
    <3>4. /\ ix.rows \o more \in Seq(Nat) /\ Len(ix.rows \o more) = known + (n - known)
          /\ \A i \in 1 .. known + (n - known) :
                (ix.rows \o more)[i] = IF i <= known THEN ix.rows[i] ELSE more[i - known]
      <4>1. ix.rows \in Seq(Nat)  BY <1>1
      <4>2. more \in Seq(Nat) /\ Len(more) = n - known  BY <3>3
      <4>3. PICK p \in Seq(Nat) : p = ix.rows  BY <4>1
      <4>4. /\ p \o more \in Seq(Nat) /\ Len(p \o more) = Len(p) + Len(more)
            /\ \A i \in 1 .. Len(p) + Len(more) :
                  (p \o more)[i] = IF i <= Len(p) THEN p[i] ELSE more[i - Len(p)]
          BY <4>2, ConcatProperties, Zenon
      <4>5. Len(p) = known  BY <4>3
      <4> QED  BY <4>2, <4>3, <4>4, <4>5, Zenon
    <3>5. known + (n - known) = n  BY <1>1
    <3>6. ASSUME NEW i \in 1 .. n PROVE (ix.rows \o more)[i] = rows[i]
      <4>1. CASE i <= known
        <5>1. i \in 1 .. known  BY <1>1, <4>1
        <5> QED  BY <3>1, <3>4, <3>5, <4>1, <5>1
      <4>2. CASE ~(i <= known)
        <5>1. i - known \in 1 .. n - known /\ known + (i - known) = i  BY <1>1, <4>2
        <5> QED  BY <3>3, <3>4, <3>5, <4>2, <5>1
      <4> QED  BY <4>1, <4>2
    <3>7. ix.rows \o more = rows  BY <1>3, <3>4, <3>5, <3>6, SeqEqual, ZenonT(60)
    <3> QED  BY <1>5, <2>1, <3>7 DEF more
  <2>2. CASE ~(same /\ n >= known) /\ shifted
    <3>1. ix.head <= ring.head /\ ring.head # ix.head
      <4>1. n >= known  BY <1>0, <2>2
      <4> QED  BY <1>7, <2>2, <4>1
    <3>2. ring.head = ix.head + 1
      <4>1. 1 \in 0 .. MaxLines  BY <1>0
      <4>2. (ix.head + 1) % MaxLines
              = IF ix.head + 1 < MaxLines THEN ix.head + 1 ELSE ix.head + 1 - MaxLines
          BY <1>1, <4>1, Wrapped
      <4> QED  BY <1>0, <1>1, <2>2, <3>1, <4>2
    <3>3. known = MaxLines /\ n = MaxLines /\ MaxLines - 1 \in 0 .. n /\ n - (MaxLines - 1) = 1
        BY <1>0, <2>2
    <3>4. \A k \in 1 .. known - 1 : ix.rows[k + 1] = rows[k]
      <4>1. TAKE k \in 1 .. known - 1
      <4>2. Evicted - ring.head + ix.head + (k + 1) = Evicted + k /\ k + 1 \in 1 .. known
            /\ k \in 1 .. n
        <5>1. Evicted \in Nat /\ ix.head \in Nat /\ n \in Nat /\ known \in Nat /\ n = known
            BY <1>1, <1>2, <3>3
        <5> HIDE DEF n, known
        <5> QED  BY <3>2, <5>1
      <4>3. ix.rows[k + 1] = Len(Starts[log[Evicted + k]][w])
        <5>1. PICK j \in 1 .. known : j = k + 1  BY <4>2
        <5>2. ix.rows[j] = Len(Starts[log[Evicted - ring.head + ix.head + j]][w])  BY <1>7, <2>2
        <5> QED  BY <4>2, <5>1, <5>2
      <4> QED  BY <1>2, <1>3, <4>2, <4>3
    <3>5. /\ Tail(ix.rows) \in Seq(Nat) /\ Len(Tail(ix.rows)) = known - 1
          /\ \A k \in 1 .. known - 1 : Tail(ix.rows)[k] = ix.rows[k + 1]
      <4>1. ix.rows # << >>  BY <1>0, <1>1, <3>3
      <4> QED  BY <1>1, <4>1, HeadTailProperties
    <3> DEFINE more == Counts(MaxLines - 1, w)
               older == Tail(ix.rows)
    <3>6. more \in Seq(Nat) /\ Len(more) = 1 /\ more[1] = rows[n]
      <4>1. PICK f \in 0 .. n : f = MaxLines - 1  BY <3>3
      <4>2. /\ Counts(f, w) \in Seq(Nat) /\ Len(Counts(f, w)) = n - f
            /\ \A i \in 1 .. n - f : Counts(f, w)[i] = rows[f + i]  BY <1>4
      <4>3. n - f = 1 /\ f + 1 = n /\ 1 \in 1 .. n - f  BY <1>0, <3>3, <4>1
      <4>4. Counts(f, w)[1] = rows[f + 1]  BY <4>2, <4>3
      <4> QED  BY <4>1, <4>2, <4>3, <4>4
    <3> HIDE DEF more, older
    <3>7. /\ older \o more \in Seq(Nat) /\ Len(older \o more) = known - 1 + 1
          /\ \A i \in 1 .. known - 1 + 1 :
                (older \o more)[i] = IF i <= known - 1 THEN older[i] ELSE more[i - (known - 1)]
      <4>1. older \in Seq(Nat) /\ Len(older) = known - 1  BY <3>5 DEF older
      <4>2. more \in Seq(Nat) /\ Len(more) = 1  BY <3>6
      <4>3. /\ older \o more \in Seq(Nat) /\ Len(older \o more) = Len(older) + Len(more)
            /\ \A i \in 1 .. Len(older) + Len(more) :
                  (older \o more)[i]
                    = IF i <= Len(older) THEN older[i] ELSE more[i - Len(older)]
          BY <4>1, <4>2, ConcatProperties, Zenon
      <4> QED  BY <4>1, <4>2, <4>3
    <3>8. known - 1 + 1 = n  BY <1>0, <3>3
    <3>9. ASSUME NEW i \in 1 .. n PROVE (older \o more)[i] = rows[i]
      <4>1. CASE i <= known - 1
        <5>1. i \in 1 .. known - 1  BY <1>1, <4>1
        <5>2. older[i] = rows[i]  BY <3>4, <3>5, <5>1 DEF older
        <5> QED  BY <3>7, <3>8, <4>1, <5>2
      <4>2. CASE ~(i <= known - 1)
        <5>1. i = n /\ i - (known - 1) = 1  BY <1>0, <1>1, <3>3, <4>2, SMTT(30)
        <5> QED  BY <3>6, <3>7, <3>8, <4>2, <5>1
      <4> QED  BY <4>1, <4>2
    <3>10. older \o more = rows  BY <1>3, <3>7, <3>8, <3>9, SeqEqual
    <3>11. Synced(ix, w).rows = Tail(ix.rows) \o Counts(MaxLines - 1, w)  BY <1>5, <2>2
    <3> QED  BY <3>10, <3>11 DEF more, older
  <2>3. CASE ~(same /\ n >= known) /\ ~shifted
    <3> DEFINE all == Counts(0, w)
    <3>1. PICK f \in 0 .. n : f = 0  BY <1>1
    <3>2. /\ Counts(f, w) \in Seq(Nat) /\ Len(Counts(f, w)) = n - f
          /\ \A i \in 1 .. n - f : Counts(f, w)[i] = rows[f + i]  BY <1>4
    <3>3. n - f = n /\ \A i \in 1 .. n : f + i = i  BY <1>1, <3>1
    <3>4. all \in Seq(Nat) /\ Len(all) = n /\ \A i \in 1 .. n : all[i] = rows[i]
        BY <3>1, <3>2, <3>3
    <3> HIDE DEF all
    <3>5. all = rows  BY <1>3, <3>4, SeqEqual
    <3>6. Synced(ix, w).rows = Counts(0, w)  BY <1>5, <2>3
    <3> QED  BY <3>5, <3>6 DEF all
  <2> QED  BY <2>1, <2>2, <2>3
<1>9. Synced(ix, w) = [cols |-> w, head |-> ring.head, rows |-> rows]  BY <1>5, <1>8
<1>10. [cols |-> w, head |-> ring.head, rows |-> rows] \in Indexes
  BY <1>1, <1>3, WidthsAre DEF Indexes
<1>11. IndexTrue([cols |-> w, head |-> ring.head, rows |-> rows])
  <2>1. Evicted - ring.head + ring.head + n <= Len(log)  BY <1>1, <1>2
  <2>2. \A k \in 1 .. n : rows[k] = Len(Starts[log[Evicted - ring.head + ring.head + k]][w])
    <3>1. \A k \in 1 .. n : Evicted - ring.head + ring.head + k = Evicted + k  BY <1>1, <1>2
    <3> QED  BY <1>2, <1>3, <3>1
  <2>3. ring.head <= ring.head /\ Len(rows) <= MaxLines  BY <1>1, <1>3
  <2> QED  BY <1>3, <2>1, <2>2, <2>3 DEF IndexTrue
<1> QED  BY <1>9, <1>10, <1>11 DEF late, rows

-------------------------------------------------------------------------------
(* What the page should show, and what kui_scrollback_render paints.       *)

\* The rows of the first n lines output, and the rows of all of them.
Above(w, n) == Sums(RowCounts(log, w))[n + 1]
AllRows(w) == RowsOf(log, Plain, w)
Late == SubSeq(log, Evicted + 1, Len(log))

\* The rows above each line grow by the rows of the line.
LEMMA AboveAre ==
    ASSUME StoreInv, NEW w \in Widths
    PROVE  /\ RowCounts(log, w) \in Seq(Nat) /\ Len(RowCounts(log, w)) = Len(log)
           /\ \A n \in 1 .. Len(log) : RowCounts(log, w)[n] = Len(Starts[log[n]][w])
           /\ \A n \in 0 .. Len(log) : Above(w, n) \in Nat
           /\ Above(w, 0) = 0
           /\ \A n \in 1 .. Len(log) :
                 /\ Len(Starts[log[n]][w]) \in Nat \ {0}
                 /\ Above(w, n) = Above(w, n - 1) + Len(Starts[log[n]][w])
           /\ \A i \in 0 .. Len(log) : \A j \in i .. Len(log) : Above(w, i) <= Above(w, j)
<1> DEFINE C == RowCounts(log, w)
           N == Len(log)
<1>1. log \in Seq(Lines) /\ N \in Nat  BY DEF StoreInv, StoreType
<1>2. /\ C \in Seq(Nat) /\ Len(C) = N
      /\ \A n \in 1 .. N : C[n] = Len(Starts[log[n]][w]) /\ C[n] \in Nat \ {0}  BY <1>1, CountsAre
<1> HIDE DEF C
<1>3. /\ \A k \in 1 .. N + 1 : Sums(C)[k] \in Nat
      /\ Sums(C)[1] = 0
      /\ \A k \in 1 .. N : Sums(C)[k + 1] = Sums(C)[k] + C[k]  BY <1>2, SumsAre
<1>4. \A i \in 1 .. N + 1 : \A j \in i .. N + 1 : Sums(C)[i] <= Sums(C)[j]  BY <1>2, SumsGrow
<1>5. \A n \in 0 .. N : Above(w, n) = Sums(C)[n + 1]  BY DEF Above, C
<1>6. \A n \in 0 .. N : n + 1 \in 1 .. N + 1  BY <1>1
<1>7. \A n \in 0 .. N : Above(w, n) \in Nat  BY <1>3, <1>5, <1>6
<1>8. Above(w, 0) = 0  BY <1>1, <1>3, <1>5
<1>9. ASSUME NEW n \in 1 .. N PROVE Above(w, n) = Above(w, n - 1) + Len(Starts[log[n]][w])
  <2>1. n \in 0 .. N /\ n - 1 \in 0 .. N /\ (n - 1) + 1 = n  BY <1>1
  <2> QED  BY <1>2, <1>3, <1>5, <2>1, ZenonT(60)
<1>10. ASSUME NEW i \in 0 .. N, NEW j \in i .. N PROVE Above(w, i) <= Above(w, j)
  <2>1. i + 1 \in 1 .. N + 1 /\ j + 1 \in i + 1 .. N + 1 /\ j \in 0 .. N  BY <1>1
  <2> QED  BY <1>4, <1>5, <2>1
<1> QED  BY <1>2, <1>7, <1>8, <1>9, <1>10 DEF C

\* The sums over the ring's lines are those over all the lines, from the first it holds on.
LEMMA PrefixIs ==
    ASSUME StoreInv, NEW w \in Widths
    PROVE  /\ RowCounts(Late, w) \in Seq(Nat) /\ Len(RowCounts(Late, w)) = ring.count
           /\ \A k \in 0 .. ring.count :
                 Sums(RowCounts(Late, w))[k + 1] = Above(w, Evicted + k) - Above(w, Evicted)
<1> DEFINE C == RowCounts(log, w)
           D == RowCounts(Late, w)
           n == ring.count
           P == Sums(D)
<1>1. /\ Evicted \in 0 .. Len(log) /\ Len(log) - Evicted = n /\ Len(log) \in Nat /\ n \in Nat
      /\ Late \in Seq(Lines) /\ Len(Late) = n
      /\ \A i \in 1 .. n : Late[i] = log[Evicted + i]  BY RetainedAre DEF Late
<1>2. /\ C \in Seq(Nat) /\ Len(C) = Len(log)
      /\ \A i \in 1 .. Len(log) : C[i] = Len(Starts[log[i]][w])  BY AboveAre
<1> HIDE DEF Late
<1>3. D \in Seq(Nat) /\ Len(D) = n /\ \A i \in 1 .. n : D[i] = Len(Starts[Late[i]][w])
  BY <1>1, CountsAre
<1>4. \A i \in 1 .. n : C[Evicted + i] = D[0 + i]
  <2>1. \A i \in 1 .. n : Evicted + i \in 1 .. Len(log) /\ 0 + i = i  BY <1>1
  <2> QED  BY <1>1, <1>2, <1>3, <2>1, ZenonT(60)
<1> HIDE DEF C, D
<1>5. Evicted + n <= Len(C) /\ 0 + n <= Len(D)  BY <1>1, <1>2, <1>3
<1>6. Agree(C, D, Evicted, 0, n)  BY <1>4, <1>5 DEF Agree
<1>7. GrowAlike(C, D, Evicted, 0, n)
  <2>1. 0 \in Nat /\ Evicted \in Nat /\ C \in Seq(Nat) /\ D \in Seq(Nat) /\ n \in Nat
      BY <1>1, <1>2, <1>3
  <2> HIDE DEF n
  <2> QED  BY <1>6, <2>1, SumsAgree, Zenon
<1>8. P[1] = 0 /\ \A k \in 1 .. n + 1 : P[k] \in Nat  BY <1>3, SumsAre
<1>9. ASSUME NEW k \in 0 .. n PROVE P[k + 1] = Above(w, Evicted + k) - Above(w, Evicted)
  <2>1. Sums(C)[Evicted + k + 1] - Sums(C)[Evicted + 1] = Sums(D)[0 + k + 1] - Sums(D)[0 + 1]
      BY <1>7 DEF GrowAlike
  <2>2. 0 + k + 1 = k + 1 /\ 0 + 1 = 1 /\ k + 1 \in 1 .. n + 1
        /\ Evicted + k + 1 = (Evicted + k) + 1
      BY <1>1
  <2>3. Above(w, Evicted + k) - Above(w, Evicted) = P[k + 1] - P[1]  BY <2>1, <2>2 DEF Above, C
  <2>4. P[k + 1] \in Nat  BY <1>8, <2>2
  <2> HIDE DEF P
  <2> QED  BY <1>8, <2>3, <2>4
<1> QED  BY <1>3, <1>9 DEF D

\* kui_display_first_logical: the lines before it are those the display mode hides.
LEMMA HiddenIs ==
    ASSUME StoreInv
    PROVE  /\ Hidden \in Nat /\ Evicted <= Hidden /\ Hidden <= Len(log)
           /\ FirstLogical = Hidden - Evicted /\ FirstLogical \in 0 .. ring.count
<1>1. /\ Evicted \in 0 .. Len(log) /\ Len(log) - Evicted = ring.count
      /\ Len(log) \in Nat /\ ring.count \in Nat  BY RetainedAre
<1>2. frame \in 0 .. Len(log)  BY DEF StoreInv, StoreType
<1>3. PICK n \in Nat, c \in Nat, e \in Nat, f \in Nat :
        n = Len(log) /\ c = ring.count /\ e = Evicted /\ f = frame /\ e <= n /\ n - e = c /\ f <= n
  BY <1>1, <1>2
<1>4. Monus(n, c) = e  BY <1>3 DEF Monus
<1>5. FirstLogical = IF mode = "frame" THEN Minimum(Monus(f, e), c) ELSE 0
  BY <1>3, <1>4 DEF FirstLogical
<1>6. Hidden = IF mode = "frame" /\ f > e THEN f ELSE e  BY <1>3 DEF Hidden
<1>7. CASE mode = "frame" /\ f > e
  <2>1. Hidden = f /\ FirstLogical = f - e  BY <1>3, <1>5, <1>6, <1>7 DEF Minimum, Monus
  <2> QED  BY <1>3, <1>7, <2>1
<1>8. CASE ~(mode = "frame" /\ f > e)
  <2>1. Hidden = e /\ FirstLogical = 0  BY <1>3, <1>5, <1>6, <1>8 DEF Minimum, Monus
  <2> QED  BY <1>3, <2>1
<1> QED  BY <1>7, <1>8

\* The rows to show are the last of all the rows.
LEMMA TrueRowsAre ==
    ASSUME StoreInv, NEW w \in Widths
    PROVE  /\ Len(TrueRows(w)) = Above(w, Len(log)) - Above(w, Hidden)
           /\ Len(TrueRows(w)) \in Nat
           /\ Above(w, Hidden) \in Nat /\ Above(w, Hidden) <= Above(w, Len(log))
           /\ \A r \in 1 .. Len(TrueRows(w)) :
                 /\ AllRows(w)[Above(w, Hidden) + r].n = Hidden + TrueRows(w)[r].n
                 /\ AllRows(w)[Above(w, Hidden) + r].byte = TrueRows(w)[r].byte
                 /\ AllRows(w)[Above(w, Hidden) + r].shows = TrueRows(w)[r].shows
<1>1. log \in Seq(Lines) /\ Len(log) \in Nat  BY DEF StoreInv, StoreType
<1>2. Hidden \in 0 .. Len(log)  BY <1>1, HiddenIs
<1>3. PICK m \in 0 .. Len(log) : m = Hidden  BY <1>2
<1> DEFINE d == Sums(RowCounts(log, w))[m + 1]
           rows == RowsOf(log, Plain, w)
           rest == RowsOf(SubSeq(log, m + 1, Len(log)), Fed(Plain, SubSeq(log, 1, m)), w)
<1>4. /\ d \in 0 .. Len(rows) /\ Len(rest) = Len(rows) - d
      /\ \A r \in 1 .. Len(rest) :
            /\ rows[d + r].n = m + rest[r].n
            /\ rows[d + r].byte = rest[r].byte
            /\ rows[d + r].shows = rest[r].shows
  BY <1>1, RowsOfRest
<1>5. Len(rows) = Sums(RowCounts(log, w))[Len(log) + 1] /\ Len(rows) \in Nat  BY <1>1, RowsAre
<1>6. rest = TrueRows(w)  BY <1>3 DEF TrueRows
<1>7. d = Above(w, Hidden) /\ rows = AllRows(w) /\ Len(rows) = Above(w, Len(log))
  BY <1>3, <1>5 DEF Above, AllRows
<1> HIDE DEF d, rows, rest
<1> QED  BY <1>3, <1>4, <1>5, <1>6, <1>7

\* The rows of the ring's lines from the s-th on are the last of all the rows, too.
LEMMA RetainedRowsAre ==
    ASSUME StoreInv, NEW w \in Widths, NEW s \in 0 .. ring.count
    PROVE  LET rows == RowsOf(SubSeq(Retained, s + 1, ring.count),
                              Fed(base, SubSeq(Retained, 1, s)), w)
           IN /\ Len(rows) = Above(w, Len(log)) - Above(w, Evicted + s)
              /\ \A r \in 1 .. Len(rows) :
                    AllRows(w)[Above(w, Evicted + s) + r].shows = rows[r].shows
<1> DEFINE n == ring.count
           N == Len(log)
<1>1. log \in Seq(Lines) /\ N \in Nat  BY DEF StoreInv, StoreType
<1>2. /\ Evicted \in 0 .. N /\ N - Evicted = n /\ n \in Nat
      /\ Late \in Seq(Lines) /\ Len(Late) = n
      /\ \A i \in 1 .. n : Late[i] = log[Evicted + i]
      /\ Retained = Late  BY RetainedAre DEF Late
<1> HIDE DEF Late
<1>3. PICK e \in 0 .. N : e = Evicted  BY <1>2
<1>4. s \in Nat /\ e + s \in 0 .. N /\ e + s \in e .. N /\ N = e + n  BY <1>1, <1>2, <1>3
<1> DEFINE x == SubSeq(Late, s + 1, n)
           y == SubSeq(log, (e + s) + 1, N)
<1>5. x = y
  <2>1. x \in Seq(Lines) /\ Len(x) = n - s /\ \A i \in 1 .. n - s : x[i] = Late[s + i]
    <3>1. s \in 0 .. Len(Late) /\ n \in s .. Len(Late)  BY <1>2
    <3> HIDE DEF n
    <3> QED  BY <1>2, <3>1, Stretch
  <2>2. y \in Seq(Lines) /\ Len(y) = N - (e + s)
        /\ \A i \in 1 .. N - (e + s) : y[i] = log[(e + s) + i]
    <3>1. e + s \in 0 .. Len(log) /\ N \in e + s .. Len(log)  BY <1>1, <1>4
    <3>2. PICK a \in 0 .. Len(log) : a = e + s /\ N \in a .. Len(log)  BY <3>1
    <3>3. /\ SubSeq(log, a + 1, N) \in Seq(Lines) /\ Len(SubSeq(log, a + 1, N)) = N - a
          /\ \A i \in 1 .. N - a : SubSeq(log, a + 1, N)[i] = log[a + i]  BY <1>1, <3>2, Stretch
    <3> QED  BY <3>2, <3>3
  <2>3. N - (e + s) = n - s
    <3>1. n \in Nat /\ N = e + n  BY <1>2, <1>4
    <3> HIDE DEF n, N
    <3> QED  BY <1>4, <3>1
  <2>4. ASSUME NEW i \in 1 .. n - s PROVE x[i] = y[i]
    <3>1. s + i \in 1 .. n /\ e + (s + i) = (e + s) + i  BY <1>2, <1>3, <1>4
    <3>2. Late[s + i] = log[e + (s + i)]  BY <1>2, <1>3, <3>1
    <3> QED  BY <2>1, <2>2, <2>3, <3>1, <3>2
  <2> HIDE DEF x, y
  <2> QED  BY <2>1, <2>2, <2>3, <2>4, SeqEqual
<1>6. Fed(base, SubSeq(Late, 1, s)) = Fed(Plain, SubSeq(log, 1, e + s))
  <2>1. base = Fed(Plain, SubSeq(log, 1, e))  BY <1>3 DEF StoreInv, RingInv
  <2>2. PICK b \in e .. N : b = e + s /\ b \in 0 .. N  BY <1>4
  <2>3. Fed(Fed(Plain, SubSeq(log, 1, e)), SubSeq(log, e + 1, b)) = Fed(Plain, SubSeq(log, 1, b))
      BY <1>1, FedOn
  <2>4. SubSeq(Late, 1, s) = SubSeq(log, e + 1, b)
    <3> DEFINE p == SubSeq(Late, 1, s)
               q == SubSeq(log, e + 1, b)
    <3>1. p \in Seq(Lines) /\ Len(p) = s /\ \A i \in 1 .. s : p[i] = Late[i]
      <4>1. s \in 0 .. Len(Late)  BY <1>2
      <4> QED  BY <1>2, <4>1, Beginning
    <3>2. q \in Seq(Lines) /\ Len(q) = b - e /\ \A i \in 1 .. b - e : q[i] = log[e + i]
        BY <1>1, Stretch
    <3>3. b - e = s /\ \A i \in 1 .. s : i \in 1 .. n  BY <1>2, <1>4, <2>2
    <3>4. \A i \in 1 .. s : p[i] = q[i]  BY <1>2, <1>3, <3>1, <3>2, <3>3
    <3> HIDE DEF p, q
    <3>5. p = q  BY <3>1, <3>2, <3>3, <3>4, SeqEqual
    <3> QED  BY <3>5 DEF p, q
  <2> QED  BY <2>1, <2>2, <2>3, <2>4
<1>7. PICK m \in 0 .. Len(log) : m = e + s  BY <1>4
<1> DEFINE d == Sums(RowCounts(log, w))[m + 1]
           rows == RowsOf(log, Plain, w)
           rest == RowsOf(SubSeq(log, m + 1, Len(log)), Fed(Plain, SubSeq(log, 1, m)), w)
<1>8. /\ d \in 0 .. Len(rows) /\ Len(rest) = Len(rows) - d
      /\ \A r \in 1 .. Len(rest) :
            /\ rows[d + r].n = m + rest[r].n
            /\ rows[d + r].byte = rest[r].byte
            /\ rows[d + r].shows = rest[r].shows
  BY <1>1, RowsOfRest
<1>9. Len(rows) = Sums(RowCounts(log, w))[Len(log) + 1]  BY <1>1, RowsAre
<1>10. rest = RowsOf(SubSeq(Retained, s + 1, n), Fed(base, SubSeq(Retained, 1, s)), w)
  BY <1>2, <1>5, <1>6, <1>7
<1>11. d = Above(w, Evicted + s) /\ rows = AllRows(w) /\ Len(rows) = Above(w, Len(log))
  BY <1>3, <1>7, <1>9 DEF Above, AllRows
<1> HIDE DEF d, rows, rest
<1> QED  BY <1>8, <1>10, <1>11

\* kui_scrollback_render finds the page's rows in the index of the ring.
ViewIn(w, wanted, height) ==
    LET total == Len(TrueRows(w))
        now == Minimum(wanted, Monus(total, height))
    IN [offset |-> now, maxOff |-> Monus(total, height), total |-> total,
        row |-> Above(w, Hidden) - Above(w, Evicted) + Monus(total, now + height),
        rendered |-> Minimum(Monus(total, now), height)]

\* What ui_wrap_index_prefix gives for the first line that shows and for all of them.
LEMMA PrefixAt ==
    ASSUME StoreInv, NEW w \in Widths
    PROVE  LET P == Sums(RowCounts(Late, w))
           IN /\ P[FirstLogical + 1] = Above(w, Hidden) - Above(w, Evicted)
              /\ P[FirstLogical + 1] \in Nat
              /\ Last(P) = Above(w, Len(log)) - Above(w, Evicted) /\ Last(P) \in Nat
              /\ Last(P) - P[FirstLogical + 1] = Len(TrueRows(w))
              /\ ring.count = 0 => Len(TrueRows(w)) = 0
              /\ Len(P) = ring.count + 1 /\ P[ring.count + 1] = Last(P)
              /\ Above(w, Evicted) \in Nat
<1> DEFINE D == RowCounts(Late, w)
           P == Sums(D)
           n == ring.count
           N == Len(log)
<1>1. /\ Evicted \in 0 .. N /\ N - Evicted = n /\ N \in Nat /\ n \in Nat  BY RetainedAre
<1>2. /\ Hidden \in Nat /\ Evicted <= Hidden /\ Hidden <= N
      /\ FirstLogical = Hidden - Evicted /\ FirstLogical \in 0 .. n  BY HiddenIs
<1>3. /\ D \in Seq(Nat) /\ Len(D) = n
      /\ \A k \in 0 .. n : P[k + 1] = Above(w, Evicted + k) - Above(w, Evicted)  BY PrefixIs
<1> HIDE DEF D
<1>4. Len(P) = n + 1 /\ \A k \in 1 .. n + 1 : P[k] \in Nat  BY <1>3, SumsAre
<1> HIDE DEF P
<1>5. Evicted + n = N /\ Evicted + FirstLogical = Hidden /\ n \in 0 .. n /\ Hidden \in 0 .. N
  BY <1>1, <1>2
<1>6. P[n + 1] = Above(w, N) - Above(w, Evicted) /\ P[n + 1] \in Nat /\ Last(P) = P[n + 1]
  <2>1. n + 1 \in 1 .. n + 1  BY <1>1
  <2> QED  BY <1>3, <1>4, <1>5, <2>1 DEF Last
<1>7. P[FirstLogical + 1] = Above(w, Hidden) - Above(w, Evicted) /\ P[FirstLogical + 1] \in Nat
  <2>1. FirstLogical + 1 \in 1 .. n + 1  BY <1>1, <1>2
  <2> QED  BY <1>2, <1>3, <1>4, <1>5, <2>1
<1>8. Len(TrueRows(w)) = Above(w, N) - Above(w, Hidden) /\ Above(w, Hidden) \in Nat  BY TrueRowsAre
<1>9. Above(w, N) \in Nat /\ Above(w, Evicted) \in Nat  BY <1>1, <1>5, AboveAre
<1>10. n = 0 => Len(TrueRows(w)) = 0
  <2>1. n = 0 => Hidden = N  BY <1>1, <1>2
  <2> QED  BY <1>8, <1>9, <2>1
<1>11. Last(P) - P[FirstLogical + 1] = Len(TrueRows(w))
  <2>1. PICK a \in Nat, b \in Nat, c \in Nat :
          a = Above(w, N) /\ b = Above(w, Hidden) /\ c = Above(w, Evicted)  BY <1>8, <1>9
  <2>2. Last(P) = a - c /\ P[FirstLogical + 1] = b - c /\ Len(TrueRows(w)) = a - b
      BY <1>6, <1>7, <1>8, <2>1
  <2>3. (a - c) - (b - c) = a - b  OBVIOUS
  <2> QED  BY <2>2, <2>3, Zenon
<1> QED  BY <1>4, <1>6, <1>7, <1>9, <1>10, <1>11 DEF P, D

\* kui_scrollback_render's view, from the ring's index, is that of the rows to show.
LEMMA ViewIs ==
    ASSUME StoreInv, NEW w \in Widths, NEW wanted, NEW height
    PROVE  ViewOf(Sums(RowCounts(Late, w)), wanted, height) = ViewIn(w, wanted, height)
<1> DEFINE P == Sums(RowCounts(Late, w))
           total == Len(TrueRows(w))
           now == Minimum(wanted, Monus(total, height))
<1>1. /\ P[FirstLogical + 1] = Above(w, Hidden) - Above(w, Evicted)
      /\ Last(P) - P[FirstLogical + 1] = total
      /\ ring.count = 0 => total = 0  BY PrefixAt
<1> HIDE DEF P
<1>2. (IF ring.count = 0 THEN 0 ELSE Last(P) - P[FirstLogical + 1]) = total  BY <1>1
<1>3. ViewOf(P, wanted, height)
        = [offset |-> now, maxOff |-> Monus(total, height), total |-> total,
           row |-> P[FirstLogical + 1] + Monus(total, now + height),
           rendered |-> Minimum(Monus(total, now), height)]
  BY <1>2, Zenon DEF ViewOf
<1> QED  BY <1>1, <1>3, Zenon DEF ViewIn, P

\* The rows painted, which begin in the middle of a line, are those that should show.
LEMMA DesiredIs ==
    ASSUME StoreInv, NEW wanted \in Nat, NEW height \in Nat \ {0}
    PROVE  LET w == Wrap(tty.cols)
               rows == TrueRows(w)
               shown == ViewIn(w, wanted, height)
           IN DesiredRows(Sums(RowCounts(Late, w)), shown, height)
                = Window(rows, Monus(Len(rows), shown.offset + height), height) \o Under(churn)
<1> DEFINE w == Wrap(tty.cols)
           rows == TrueRows(w)
           total == Len(rows)
           shown == ViewIn(w, wanted, height)
           now == shown.offset
           first == Monus(total, now + height)
           D == RowCounts(Late, w)
           P == Sums(D)
           n == ring.count
           N == Len(log)
           start == Locate(P, shown.row)
           held == RowsOf(SubSeq(Retained, start + 1, n), Fed(base, SubSeq(Retained, 1, start)), w)
           from == shown.row - P[start + 1]
<1>0. w \in Widths  BY DEF StoreInv, StoreType, Widths
<1> HIDE DEF w
<1>1. /\ Evicted \in 0 .. N /\ N - Evicted = n /\ N \in Nat /\ n \in Nat  BY RetainedAre
<1>2. /\ D \in Seq(Nat) /\ Len(D) = n
      /\ \A k \in 0 .. n : P[k + 1] = Above(w, Evicted + k) - Above(w, Evicted)  BY <1>0, PrefixIs
<1>3. /\ P[FirstLogical + 1] = Above(w, Hidden) - Above(w, Evicted) /\ P[FirstLogical + 1] \in Nat
      /\ Last(P) - P[FirstLogical + 1] = total /\ P[n + 1] = Last(P) /\ Last(P) \in Nat
      /\ Above(w, Evicted) \in Nat  BY <1>0, PrefixAt
<1>4. /\ total \in Nat /\ total = Above(w, N) - Above(w, Hidden)
      /\ Above(w, Hidden) \in Nat
      /\ \A r \in 1 .. total : AllRows(w)[Above(w, Hidden) + r].shows = rows[r].shows
  BY <1>0, TrueRowsAre
<1>5. shown.total = total /\ now \in Nat /\ shown.row = P[FirstLogical + 1] + first
  <2>1. now = Minimum(wanted, Monus(total, height)) /\ shown.total = total
        /\ shown.row = Above(w, Hidden) - Above(w, Evicted) + Monus(total, now + height)
      BY DEF ViewIn
  <2>2. now \in Nat
    <3> HIDE DEF rows, shown
    <3> QED  BY <1>4, <2>1 DEF Minimum, Monus
  <2> QED  BY <1>3, <2>1, <2>2
<1>6. DesiredRows(P, shown, height)
        = Window(IF shown.total = 0 THEN << >> ELSE held, from, height) \o Under(churn)
  BY DEF DesiredRows, w
<1> HIDE DEF rows, shown, D
<1>7. first \in Nat /\ (total > 0 => first < total)  BY <1>4, <1>5 DEF Monus
<1>8. Window(IF shown.total = 0 THEN << >> ELSE held, from, height) = Window(rows, first, height)
  <2>1. CASE total = 0
    <3>1. Len(<< >>) = 0  OBVIOUS
    <3>2. shown.total = 0  BY <1>5, <2>1
    <3>3. \A i \in 1 .. height : ~(from + i <= Len(<< >>)) /\ ~(first + i <= total)
      <4>1. shown.row = P[FirstLogical + 1] + first /\ shown.row \in Nat  BY <1>3, <1>5, <1>7
      <4>2. P[n + 1] \in Nat /\ shown.row - P[start + 1] \in Nat
        <5>1. start \in 0 .. n /\ P[start + 1] <= shown.row
          <6> HIDE DEF P
          <6> QED  BY <1>2, <4>1, Located DEF P
        <5>2. \A k \in 1 .. n + 1 : P[k] \in Nat  BY <1>2, SumsAre
        <5>3. P[start + 1] \in Nat  BY <1>1, <5>1, <5>2
        <5> QED  BY <1>3, <4>1, <5>1, <5>3
      <4> HIDE DEF from
      <4>3. from \in Nat  BY <4>2 DEF from
      <4> QED  BY <1>7, <2>1, <3>1, <4>3
    <3>4. Window(<< >>, from, height) = [i \in 1 .. height |-> Blank]  BY <3>3, Zenon DEF Window
    <3>5. Window(rows, first, height) = [i \in 1 .. height |-> Blank]  BY <3>3, Zenon DEF Window
    <3> QED  BY <3>2, <3>4, <3>5
  <2>2. CASE total # 0
    <3>1. PICK q \in Nat : q = shown.row /\ q < P[n + 1]
      <4>1. shown.row \in Nat  BY <1>3, <1>5, <1>7
      <4>2. P[FirstLogical + 1] + first < Last(P)  BY <1>3, <1>4, <1>7, <2>2
      <4> QED  BY <1>3, <1>5, <4>1, <4>2
    <3>2. start \in 0 .. n /\ P[start + 1] <= q /\ start < n
      <4>1. PICK m : m = start  OBVIOUS
      <4>2. Locate(P, q) \in 0 .. n /\ P[Locate(P, q) + 1] <= q /\ Locate(P, q) < n
        <5> HIDE DEF n
        <5> QED  BY <1>2, <3>1, Located
      <4> QED  BY <3>1, <4>2
    <3>3. PICK s \in 0 .. n : s = start  BY <3>2
    <3>4. /\ Len(held) = Above(w, N) - Above(w, Evicted + s)
          /\ \A r \in 1 .. Len(held) :
                AllRows(w)[Above(w, Evicted + s) + r].shows = held[r].shows
        BY <1>0, <3>3, RetainedRowsAre
    <3> HIDE DEF start, held
    <3>5. P[s + 1] = Above(w, Evicted + s) - Above(w, Evicted) /\ P[s + 1] \in Nat
          /\ Above(w, Evicted + s) \in Nat
      <4>1. \A k \in 1 .. n + 1 : P[k] \in Nat  BY <1>2, SumsAre
      <4>2. s + 1 \in 1 .. n + 1 /\ Evicted + s \in 0 .. N  BY <1>1
      <4>3. Above(w, Evicted + s) \in Nat  BY <1>0, <4>2, AboveAre
      <4> QED  BY <1>2, <4>1, <4>2, <4>3
    <3>6. PICK a \in Nat, b \in Nat, c \in Nat, d \in Nat :
            /\ a = Above(w, N) /\ b = Above(w, Hidden) /\ c = Above(w, Evicted)
            /\ d = Above(w, Evicted + s)
      <4>1. N \in 0 .. N  BY <1>1
      <4>2. Above(w, N) \in Nat  BY <1>0, <4>1, AboveAre
      <4> QED  BY <1>3, <1>4, <3>5, <4>2
    <3>7. total = a - b /\ Len(held) = a - d /\ P[s + 1] = d - c /\ q = (b - c) + first
          /\ d - c <= q
        BY <1>3, <1>4, <1>5, <3>1, <3>2, <3>3, <3>4, <3>5, <3>6
    <3>8. from = q - (d - c)  BY <3>1, <3>3, <3>7 DEF start
    <3> HIDE DEF P, first, from, total, n, N
    <3>9. first \in Nat /\ from \in Nat /\ from + d = first + b  BY <1>7, <3>7, <3>8
    <3>10. ASSUME NEW i \in 1 .. height
           PROVE  (IF from + i <= Len(held) THEN held[from + i].shows ELSE Blank)
                    = (IF first + i <= total THEN rows[first + i].shows ELSE Blank)
      <4>1. i \in Nat /\ (from + i <= Len(held) <=> first + i <= total)
            /\ d + (from + i) = b + (first + i)  BY <3>7, <3>9
      <4>2. CASE first + i <= total
        <5>1. first + i \in 1 .. total /\ from + i \in 1 .. Len(held)
          <6>1. Len(held) \in Nat /\ total \in Nat  BY <1>4, <3>7, <3>9, <4>1, <4>2
          <6> QED  BY <3>9, <4>1, <4>2, <6>1
        <5>2. AllRows(w)[b + (first + i)].shows = rows[first + i].shows
            BY <1>4, <3>6, <5>1
        <5>3. AllRows(w)[d + (from + i)].shows = held[from + i].shows  BY <3>4, <3>6, <5>1
        <5> QED  BY <4>1, <4>2, <5>2, <5>3
      <4>3. CASE ~(first + i <= total)  BY <4>1, <4>3
      <4> QED  BY <4>2, <4>3
    <3>11. Window(held, from, height) = Window(rows, first, height)
      <4>1. Len(rows) = total  BY DEF total
      <4> QED  BY <3>10, <4>1, Zenon DEF Window
    <3>12. shown.total # 0  BY <1>5, <2>2
    <3> QED  BY <3>11, <3>12
  <2> QED  BY <2>1, <2>2
<1> QED  BY <1>6, <1>8 DEF w, rows, shown, D

-------------------------------------------------------------------------------
(* What the rows of a terminal show.                                       *)

Colours == {Plain} \cup {Colour[l] : l \in Lines}
Texts == Inputs \cup {""}
Prompts == {PromptRow(text, s.cols) : text \in Texts, s \in Sizes}
Shown ==
    {Blank, Churning, Notice, Unknown} \cup Prompts \cup {<<"banner", closes>> : closes \in BOOLEAN}
        \cup {Row(l, from, style) : l \in Lines, from \in Nat, style \in Colours}
Known == Shown \ {Unknown}

\* What can be left is what resetting leaves, or a line's colour.
LEMMA FedColour ==
    ASSUME NEW lines \in Seq(Lines), NEW style \in Colours
    PROVE  Fed(style, lines) \in Colours
<1>1. \A i \in 1 .. Len(lines) : Colour[lines[i]] \in Colours  BY DEF Colours
<1> QED  BY <1>1, FedIs

\* What is not a row of the output.
LEMMA ShownAre ==
    /\ Blank \in Known /\ Churning \in Known /\ Notice \in Known /\ Unknown \in Shown
    /\ \A i, height : BannerRow(i, height) \in Known /\ BannerRow(i, height) # Blank
    /\ \A text \in Texts, s \in Sizes :
          PromptRow(text, s.cols) \in Known /\ PromptRow(text, s.cols) \in Prompts
    /\ \A text, cols : PromptRow(text, cols) # Unknown
    /\ \A l \in Lines, from \in Nat, style \in Colours : Row(l, from, style) \in Known
<1>1. Len(Unknown) = 1 /\ Unknown[1] = "unknown" /\ Len(Blank) = 1 /\ Blank[1] = "blank"
      /\ Len(Churning) = 1 /\ Churning[1] = "churning" /\ Len(Notice) = 1 /\ Notice[1] = "too small"
  BY DEF Unknown, Blank, Churning, Notice
<1>2. \A i, height : Len(BannerRow(i, height)) = 2  BY DEF BannerRow
<1>3. \A text, cols : Len(PromptRow(text, cols)) = 3  BY DEF PromptRow
<1>4. \A l, from, style : Len(Row(l, from, style)) = 4  BY DEF Row
<1>5. Blank # Unknown /\ Churning # Unknown /\ Notice # Unknown  BY <1>1
<1>6. \A i, height : BannerRow(i, height) # Unknown /\ BannerRow(i, height) # Blank
  <2>1. TAKE i, height
  <2>2. PICK x : x = BannerRow(i, height)  OBVIOUS
  <2>3. Len(x) = 2  BY <1>2, <2>2, Zenon
  <2>4. x = Unknown => Len(x) = 1  BY <1>1, Zenon
  <2>5. x = Blank => Len(x) = 1  BY <1>1, Zenon
  <2>6. x # Unknown /\ x # Blank  BY <2>3, <2>4, <2>5
  <2> QED  BY <2>2, <2>6
<1>7. \A text, cols : PromptRow(text, cols) # Unknown
  <2>1. TAKE text, cols
  <2>2. PICK x : x = PromptRow(text, cols)  OBVIOUS
  <2>3. Len(x) = 3  BY <1>3, <2>2, Zenon
  <2>4. x = Unknown => Len(x) = 1  BY <1>1, Zenon
  <2>5. x # Unknown  BY <2>3, <2>4
  <2> QED  BY <2>2, <2>5
<1>8. \A l, from, style : Row(l, from, style) # Unknown
  <2>1. TAKE l, from, style
  <2>2. PICK x : x = Row(l, from, style)  OBVIOUS
  <2>3. Len(x) = 4  BY <1>4, <2>2, Zenon
  <2>4. x = Unknown => Len(x) = 1  BY <1>1, Zenon
  <2>5. x # Unknown  BY <2>3, <2>4
  <2> QED  BY <2>2, <2>5
<1>9. \A i, height : BannerRow(i, height) \in Shown
  <2>1. TAKE i, height
  <2>2. PICK closes \in BOOLEAN : closes = (i = height)  OBVIOUS
  <2>3. BannerRow(i, height) = <<"banner", closes>>  BY <2>2, Zenon DEF BannerRow
  <2>4. <<"banner", closes>> \in {<<"banner", c>> : c \in BOOLEAN}  OBVIOUS
  <2>5. {<<"banner", c>> : c \in BOOLEAN} \subseteq Shown  BY DEF Shown
  <2> QED  BY <2>3, <2>4, <2>5
<1>10. \A text \in Texts, s \in Sizes : PromptRow(text, s.cols) \in Prompts  BY DEF Prompts
<1>11. Prompts \subseteq Shown  BY DEF Shown
<1>12. \A l \in Lines, from \in Nat, style \in Colours : Row(l, from, style) \in Shown
  BY DEF Shown
<1>13. {Blank, Churning, Notice, Unknown} \subseteq Shown  BY DEF Shown
<1> HIDE DEF Shown, Prompts
<1>14. Blank \in Known /\ Churning \in Known /\ Notice \in Known /\ Unknown \in Shown
  BY <1>5, <1>13 DEF Known
<1>15. \A i, height : BannerRow(i, height) \in Known  BY <1>6, <1>9, Zenon DEF Known
<1>16. \A text \in Texts, s \in Sizes : PromptRow(text, s.cols) \in Known
  BY <1>7, <1>10, <1>11, Zenon DEF Known
<1>17. \A l \in Lines, from \in Nat, style \in Colours : Row(l, from, style) \in Known
  BY <1>8, <1>12, Zenon DEF Known
<1> QED  BY <1>6, <1>7, <1>10, <1>14, <1>15, <1>16, <1>17, Zenon

\* A row of the output is known.
LEMMA OutputShown ==
    ASSUME StoreInv, NEW w \in Widths, NEW r \in 1 .. Len(TrueRows(w))
    PROVE  TrueRows(w)[r].shows \in Known
<1> DEFINE lines == SubSeq(log, Hidden + 1, Len(log))
           style == Fed(Plain, SubSeq(log, 1, Hidden))
           rows == RowsOf(lines, style, w)
<1>1. log \in Seq(Lines) /\ Len(log) \in Nat  BY DEF StoreInv, StoreType
<1>2. Hidden \in 0 .. Len(log) /\ Len(log) \in Hidden .. Len(log)  BY <1>1, HiddenIs
<1>3. lines \in Seq(Lines) /\ SubSeq(log, 1, Hidden) \in Seq(Lines)
  <2>1. lines \in Seq(Lines)  BY <1>1, <1>2, Stretch
  <2>2. SubSeq(log, 1, Hidden) \in Seq(Lines)  BY <1>1, <1>2, Beginning
  <2> QED  BY <2>1, <2>2
<1>4. style \in Colours
  <2>1. Plain \in Colours  BY DEF Colours
  <2> QED  BY <1>3, <2>1, FedColour
<1>5. TrueRows(w) = rows  BY DEF TrueRows
<1> HIDE DEF lines, style
<1>6. PICK i \in 1 .. Len(lines) : \E k \in 1 .. RowCounts(lines, w)[i] :
        r = Sums(RowCounts(lines, w))[i] + k  BY <1>3, <1>5, RowsAre, SMTT(30)
<1>7. PICK k \in 1 .. RowCounts(lines, w)[i] : r = Sums(RowCounts(lines, w))[i] + k  BY <1>6
<1>8. rows[r] = RowIn(lines, style, w, i, k)  BY <1>3, <1>7, RowsAre
<1>9. /\ lines[i] \in Lines /\ k \in 1 .. Len(Starts[lines[i]][w])
  <2>1. RowCounts(lines, w)[i] = Len(Starts[lines[i]][w])  BY <1>3, CountsAre
  <2> QED  BY <1>3, <1>7, <2>1
<1>10. Starts[lines[i]][w][k] \in Nat  BY <1>9, StartsAre
<1> DEFINE h == IF k = 1 THEN i - 1 ELSE i
<1>11. Fed(style, SubSeq(lines, 1, h)) \in Colours
  <2>1. PICK b \in 0 .. Len(lines) : b = h
    <3>1. Len(lines) \in Nat  BY <1>3
    <3> QED  BY <3>1
  <2>2. SubSeq(lines, 1, b) \in Seq(Lines)  BY <1>3, Beginning
  <2> QED  BY <1>4, <2>1, <2>2, FedColour
<1>12. rows[r].shows = Row(lines[i], Starts[lines[i]][w][k], Fed(style, SubSeq(lines, 1, h)))
  <2> HIDE DEF rows
  <2> QED  BY <1>8 DEF RowIn
<1> QED  BY <1>5, <1>9, <1>10, <1>11, <1>12, ShownAre, Zenon

\* The rows under the banner when off rows are below the view.
PageOf(w, off, height, progress) ==
    Window(TrueRows(w), Monus(Len(TrueRows(w)), off + height), height) \o Under(progress)

\* The rows of a page one by one: those of the view, then blank ones.
LEMMA PageOfIs ==
    ASSUME StoreInv, NEW w \in Widths, NEW off \in Nat, NEW height \in Nat, NEW progress \in BOOLEAN
    PROVE  LET rows == TrueRows(w)
               first == Monus(Len(rows), off + height)
               content == PageOf(w, off, height, progress)
           IN /\ content \in Seq(Known) /\ Len(content) = height + (IF progress THEN 2 ELSE 1)
              /\ \A i \in 1 .. height :
                   content[i] = IF first + i <= Len(rows) THEN rows[first + i].shows ELSE Blank
              /\ progress => content[height + 2] = Blank
              /\ ~progress => content[height + 1] = Blank
              /\ Window(rows, first, height) \in Seq(Known) /\ Under(progress) \in Seq(Known)
<1> DEFINE rows == TrueRows(w)
           n == Len(rows)
           first == Monus(n, off + height)
           window == Window(rows, first, height)
           under == Under(progress)
<1>1. n \in Nat  BY TrueRowsAre
<1> HIDE DEF n
<1>2. first \in Nat  BY <1>1 DEF Monus
<1>3. \A i \in 1 .. height : (IF first + i <= n THEN rows[first + i].shows ELSE Blank) \in Known
  <2>1. TAKE i \in 1 .. height
  <2>2. CASE first + i <= n
    <3>1. first + i \in 1 .. n  BY <1>1, <1>2, <2>2
    <3>2. rows[first + i].shows \in Known  BY <3>1, OutputShown DEF n
    <3> QED  BY <2>2, <3>2
  <2>3. CASE ~(first + i <= n)  BY <2>3, ShownAre
  <2> QED  BY <2>2, <2>3
<1>4. window = [i \in 1 .. height |-> IF first + i <= n THEN rows[first + i].shows ELSE Blank]
  BY DEF Window, n
<1> HIDE DEF rows, first, window
<1>5. /\ window \in Seq(Known) /\ Len(window) = height
      /\ \A i \in 1 .. height :
            window[i] = IF first + i <= n THEN rows[first + i].shows ELSE Blank
  <2>1. [i \in 1 .. height |-> IF first + i <= n THEN rows[first + i].shows ELSE Blank]
          \in Seq(Known)  BY <1>3
  <2> QED  BY <1>4, <2>1
<1>6. /\ under \in Seq(Known) /\ Len(under) = (IF progress THEN 2 ELSE 1)
      /\ progress => under[2] = Blank
      /\ ~progress => under[1] = Blank
  BY ShownAre DEF Under
<1> HIDE DEF under
<1>7. /\ window \o under \in Seq(Known) /\ Len(window \o under) = Len(window) + Len(under)
      /\ \A i \in 1 .. Len(window) + Len(under) :
            (window \o under)[i] = IF i <= Len(window) THEN window[i] ELSE under[i - Len(window)]
  BY <1>5, <1>6, ConcatProperties, Zenon
<1> DEFINE content == window \o under
<1>8. content = PageOf(w, off, height, progress)  BY DEF PageOf, window, under, rows, first, n
<1> HIDE DEF content
<1>9. \A i \in 1 .. height : content[i] = window[i]
  <2>1. \A i \in 1 .. height : i \in 1 .. Len(window) + Len(under) /\ i <= Len(window)
      BY <1>5, <1>6
  <2> QED  BY <1>7, <2>1 DEF content
<1>10. /\ progress => content[height + 2] = Blank
       /\ ~progress => content[height + 1] = Blank
  <2>1. ASSUME progress PROVE content[height + 2] = Blank
    <3>1. /\ height + 2 \in 1 .. Len(window) + Len(under) /\ ~(height + 2 <= Len(window))
          /\ height + 2 - Len(window) = 2  BY <1>5, <1>6, <2>1
    <3> QED  BY <1>6, <1>7, <2>1, <3>1 DEF content
  <2>2. ASSUME ~progress PROVE content[height + 1] = Blank
    <3>1. /\ height + 1 \in 1 .. Len(window) + Len(under) /\ ~(height + 1 <= Len(window))
          /\ height + 1 - Len(window) = 1  BY <1>5, <1>6, <2>2
    <3> QED  BY <1>6, <1>7, <2>2, <3>1 DEF content
  <2> QED  BY <2>1, <2>2
<1>11. content \in Seq(Known) /\ Len(content) = height + (IF progress THEN 2 ELSE 1)
  <2>1. content \in Seq(Known) /\ Len(content) = Len(window) + Len(under)  BY <1>7 DEF content
  <2> QED  BY <1>5, <1>6, <2>1
<1>12. \A i \in 1 .. height :
         content[i] = IF first + i <= n THEN rows[first + i].shows ELSE Blank  BY <1>5, <1>9
<1>13. Window(rows, first, height) \in Seq(Known) /\ Under(progress) \in Seq(Known)
  BY <1>5, <1>6 DEF window, under
<1> QED  BY <1>8, <1>10, <1>11, <1>12, <1>13 DEF rows, first, n

\* Rows that all show the same.
LEMMA AllAlike ==
    ASSUME NEW S, NEW content \in S, NEW n \in Nat
    PROVE  /\ Rows(n, content) \in Seq(S) /\ Len(Rows(n, content)) = n
           /\ \A r \in 1 .. n : Rows(n, content)[r] = content
<1>1. [r \in 1 .. n |-> content] \in Seq(S)  OBVIOUS
<1>2. Rows(n, content) = [r \in 1 .. n |-> content]  BY DEF Rows
<1> QED  BY <1>1, <1>2

\* banner(): what its rows show, painted over p.
BannerAt(p, prev, r) ==
    LET all == banner.cols # tty.cols \/ prev = 0
        before == IF all THEN 0 ELSE prev
        Shows(i, height) == IF i <= height THEN BannerRow(i, height) ELSE Blank
    IN IF (r <= banner.height \/ r <= before)
             /\ (all \/ Shows(r, before) # Shows(r, banner.height))
       THEN Shows(r, banner.height) ELSE p[r]

\* The banner changes its own rows and no others.
LEMMA BannerOnIs ==
    ASSUME NEW p \in Seq(Shown), NEW prev
    PROVE  /\ BannerOn(p, prev) \in Seq(Shown) /\ Len(BannerOn(p, prev)) = Len(p)
           /\ \A r \in 1 .. Len(p) : BannerOn(p, prev)[r] = BannerAt(p, prev, r)
<1> DEFINE f == [r \in 1 .. Len(p) |-> BannerAt(p, prev, r)]
<1>0. Len(p) \in Nat /\ \A r \in 1 .. Len(p) : p[r] \in Shown  OBVIOUS
<1>1. BannerOn(p, prev) = f \o << >>  BY Zenon DEF BannerOn, BannerAt
<1>2. \A r \in 1 .. Len(p) : BannerAt(p, prev, r) \in Shown
  <2>1. TAKE r \in 1 .. Len(p)
  <2>2. \A height : BannerRow(r, height) \in Shown /\ Blank \in Shown  BY ShownAre DEF Known
  <2>3. BannerAt(p, prev, r) \in {BannerRow(r, banner.height), Blank, p[r]}  BY DEF BannerAt
  <2> QED  BY <1>0, <2>2, <2>3
<1>3. f \in Seq(Shown) /\ Len(f) = Len(p)  BY <1>0, <1>2
<1>4. \A r \in 1 .. Len(p) : f[r] = BannerAt(p, prev, r)  OBVIOUS
<1> HIDE DEF f
<1>5. f \o << >> = f  BY <1>3, ConcatEmptySeq
<1> QED  BY <1>1, <1>3, <1>4, <1>5

\* What a commit leaves on the screen: the rows above top are left alone, and a row whose write
\* was skipped keeps what it showed.
Committed(after, before, top, current, desired, fault) ==
    /\ after \in Seq(Shown) /\ Len(after) = Len(before)
    /\ \A r \in 1 .. top - 1 : after[r] = before[r]
    /\ \A r \in top .. Len(before) :
          after[r] = IF fault # "none" THEN Unknown
                     ELSE IF current[r - top + 1] = desired[r - top + 1] THEN before[r]
                     ELSE desired[r - top + 1]

\* ui_screen_commit: the rows above top are left alone.
LEMMA CommitIs ==
    ASSUME NEW before \in Seq(Shown), NEW top \in 1 .. Len(before), NEW desired \in Seq(Shown),
           Len(desired) = Len(before) - top + 1, NEW current, NEW fault
    PROVE  Committed(Commit(before, top, current, desired, fault),
                     before, top, current, desired, fault)
<1> DEFINE n == Len(before)
           m == Len(desired)
           a == SubSeq(before, 1, top - 1)
           At(i) == IF fault # "none" THEN Unknown
                    ELSE IF current[i] = desired[i] THEN before[top + i - 1] ELSE desired[i]
           b == [i \in 1 .. m |-> At(i)]
           after == a \o b
<1>0. n \in Nat /\ top \in Nat /\ m \in Nat /\ top <= n /\ m = (n - top) + 1  OBVIOUS
<1>1. after = Commit(before, top, current, desired, fault)  BY DEF Commit
<1>2. a \in Seq(Shown) /\ Len(a) = top - 1 /\ \A i \in 1 .. top - 1 : a[i] = before[i]
  <2>1. top - 1 \in 0 .. Len(before)  BY <1>0
  <2>2. PICK q \in 0 .. Len(before) : q = top - 1  BY <2>1
  <2>3. /\ SubSeq(before, 1, q) \in Seq(Shown) /\ Len(SubSeq(before, 1, q)) = q
        /\ \A i \in 1 .. q : SubSeq(before, 1, q)[i] = before[i]  BY Beginning
  <2> QED  BY <2>2, <2>3
<1>3. \A i \in 1 .. m : At(i) \in Shown
  <2>1. TAKE i \in 1 .. m
  <2>2. top + i - 1 \in 1 .. n /\ i \in 1 .. m  BY <1>0
  <2>3. before[top + i - 1] \in Shown /\ desired[i] \in Shown /\ Unknown \in Shown
      BY <2>2, ShownAre
  <2> QED  BY <2>3
<1>4. b \in Seq(Shown) /\ Len(b) = m /\ \A i \in 1 .. m : b[i] = At(i)  BY <1>0, <1>3
<1> HIDE DEF a, b
<1>5. /\ after \in Seq(Shown) /\ Len(after) = Len(a) + Len(b)
      /\ \A i \in 1 .. Len(a) + Len(b) :
            after[i] = IF i <= Len(a) THEN a[i] ELSE b[i - Len(a)]
  <2>1. a \in Seq(Shown) /\ b \in Seq(Shown)  BY <1>2, <1>4
  <2> QED  BY <2>1, ConcatProperties, Zenon
<1> HIDE DEF after
<1>6. Len(a) + Len(b) = n  BY <1>0, <1>2, <1>4
<1>7. \A r \in 1 .. top - 1 : after[r] = before[r]
  <2>1. \A r \in 1 .. top - 1 : r \in 1 .. Len(a) + Len(b) /\ r <= Len(a)  BY <1>0, <1>2, <1>6
  <2> QED  BY <1>2, <1>5, <2>1
<1>8. ASSUME NEW r \in top .. n PROVE after[r] = At(r - top + 1) /\ top + (r - top + 1) - 1 = r
  <2>1. r \in 1 .. Len(a) + Len(b) /\ ~(r <= Len(a)) /\ r - Len(a) = r - top + 1
      BY <1>0, <1>2, <1>6
  <2>2. r - top + 1 \in 1 .. m /\ top + (r - top + 1) - 1 = r  BY <1>0
  <2> HIDE DEF At
  <2> QED  BY <1>4, <1>5, <2>1, <2>2
<1>9. \A r \in top .. n : after[r] = IF fault # "none" THEN Unknown
                          ELSE IF current[r - top + 1] = desired[r - top + 1] THEN before[r]
                          ELSE desired[r - top + 1]  BY <1>8
<1> QED  BY <1>1, <1>5, <1>6, <1>7, <1>9 DEF Committed

-------------------------------------------------------------------------------
(* The row a viewport begins with, over a resize.                          *)

Anchors == [valid : BOOLEAN, logical : Nat, byte : Nat]
IndexOf(w) == [cols |-> w, head |-> ring.head, rows |-> RowCounts(Late, w)]

\* The row of all the rows a place is in.
RowAt(p, w) == Above(w, p.line - 1) + SegmentOf(log[p.line], w, p.byte) + 1

\* ui_wrap_segment_of: the last row that begins at the byte or before it.
LEMMA SegmentIs ==
    ASSUME NEW l \in Lines, NEW w \in Widths, NEW byte \in Nat
    PROVE  /\ SegmentOf(l, w, byte) \in 0 .. Len(Starts[l][w]) - 1
           /\ \A k \in 1 .. Len(Starts[l][w]) :
                 Starts[l][w][k] <= byte <=> k <= SegmentOf(l, w, byte) + 1
<1> DEFINE starts == Starts[l][w]
           n == Len(starts)
           S == {k \in 1 .. n : starts[k] <= byte}
<1>1. /\ n \in Nat \ {0} /\ starts[1] = 0
      /\ \A i \in 1 .. n : starts[i] \in Nat
      /\ \A i, j \in 1 .. n : i < j => starts[i] < starts[j]  BY StartsAre
<1> HIDE DEF starts, n
<1>2. 1 \in S /\ S \subseteq 0 .. n  BY <1>1
<1> HIDE DEF S
<1>3. PICK m : m \in S /\ \A k \in S : k <= m  BY <1>1, <1>2, Greatest
<1>4. m \in 1 .. n /\ starts[m] <= byte  BY <1>3 DEF S
<1>5. ASSUME NEW k \in 1 .. n PROVE starts[k] <= byte <=> k <= m
  <2>1. starts[k] <= byte => k <= m  BY <1>3 DEF S
  <2>2. ASSUME k <= m PROVE starts[k] <= byte
    <3>1. CASE k = m  BY <1>4, <3>1
    <3>2. CASE k # m
      <4>1. k < m  BY <1>4, <2>2, <3>2
      <4>2. starts[k] < starts[m] /\ starts[k] \in Nat /\ starts[m] \in Nat  BY <1>1, <1>4, <4>1
      <4> QED  BY <1>4, <4>2
    <3> QED  BY <3>1, <3>2
  <2> QED  BY <2>1, <2>2
<1>6. S = 1 .. m
  <2>1. \A k : k \in S <=> k \in 1 .. n /\ k <= m  BY <1>5 DEF S
  <2>2. \A k : k \in 1 .. n /\ k <= m <=> k \in 1 .. m  BY <1>1, <1>4
  <2> QED  BY <2>1, <2>2
<1>7. Cardinality(S) = m
  <2>1. 1 \in Int /\ m \in Int  BY <1>4
  <2>2. Cardinality(1 .. m) = IF 1 > m THEN 0 ELSE m - 1 + 1  BY <2>1, FS_Interval
  <2> QED  BY <1>4, <1>6, <2>2
<1>8. SegmentOf(l, w, byte) = m - 1  BY <1>7 DEF SegmentOf, S, n, starts
<1>9. m - 1 \in 0 .. n - 1 /\ m - 1 + 1 = m  BY <1>1, <1>4
<1> QED  BY <1>5, <1>8, <1>9 DEF starts, n

\* A place in a line that was output has a row.
LEMMA RowAtIs ==
    ASSUME StoreInv, NEW w \in Widths, NEW line \in 1 .. Len(log), NEW byte \in Nat
    PROVE  LET p == [line |-> line, byte |-> byte]
           IN /\ RowAt(p, w) \in Nat /\ log[line] \in Lines
              /\ Above(w, line - 1) < RowAt(p, w) /\ RowAt(p, w) <= Above(w, line)
<1>1. log \in Seq(Lines) /\ Len(log) \in Nat /\ log[line] \in Lines  BY DEF StoreInv, StoreType
<1>2. line - 1 \in 0 .. Len(log) /\ line \in 0 .. Len(log)  BY <1>1
<1>3. Above(w, line - 1) \in Nat /\ Above(w, line) = Above(w, line - 1) + Len(Starts[log[line]][w])
  BY <1>2, AboveAre
<1>4. SegmentOf(log[line], w, byte) \in 0 .. Len(Starts[log[line]][w]) - 1  BY <1>1, SegmentIs
<1>5. Len(Starts[log[line]][w]) \in Nat  BY <1>1, StartsAre
<1>6. RowAt([line |-> line, byte |-> byte], w)
        = Above(w, line - 1) + SegmentOf(log[line], w, byte) + 1  BY DEF RowAt
<1>7. PICK a \in Nat, n \in Nat, k \in Nat :
        /\ a = Above(w, line - 1) /\ n = Len(Starts[log[line]][w])
        /\ k = SegmentOf(log[line], w, byte) /\ k < n
  BY <1>3, <1>4, <1>5
<1>8. RowAt([line |-> line, byte |-> byte], w) = a + k + 1 /\ Above(w, line) = a + n
  BY <1>3, <1>6, <1>7
<1> DEFINE row == RowAt([line |-> line, byte |-> byte], w)
           after == Above(w, line)
<1>9. row = a + k + 1 /\ after = a + n /\ a = Above(w, line - 1) /\ k < n  BY <1>7, <1>8
<1> HIDE DEF row, after
<1>10. row \in Nat /\ a < row /\ row <= after  BY <1>9
<1> QED  BY <1>1, <1>9, <1>10 DEF row, after

\* kui_anchor_before_resize: the anchor is the first row of the view.
LEMMA AnchorIs ==
    ASSUME StoreInv, NEW w \in Widths, NEW off \in Nat, Height \in Nat
    PROVE  LET a == AnchorBefore(IndexOf(w), off)
               rows == TrueRows(w)
               top == Monus(Len(rows), off + Height)
           IN /\ a \in Anchors
              /\ a.valid <=> top < Len(rows)
              /\ a.valid => /\ a.logical \in 0 .. ring.count - 1
                            /\ Evicted + a.logical + 1 = Hidden + rows[top + 1].n
                            /\ a.byte = rows[top + 1].byte
<1> DEFINE D == RowCounts(Late, w)
           P == Sums(D)
           n == ring.count
           N == Len(log)
           rows == TrueRows(w)
           total == Len(rows)
           top == Monus(total, off + Height)
           row == P[FirstLogical + 1] + Monus(total, Height + Minimum(off, total))
           m == Locate(P, row)
           a == AnchorBefore(IndexOf(w), off)
<1>1. /\ Evicted \in 0 .. N /\ N - Evicted = n /\ N \in Nat /\ n \in Nat
      /\ \A i \in 0 .. n - 1 : Stored(i) = log[Evicted + i + 1] /\ Stored(i) \in Lines
  BY RetainedAre
<1>2. /\ D \in Seq(Nat) /\ Len(D) = n
      /\ \A k \in 0 .. n : P[k + 1] = Above(w, Evicted + k) - Above(w, Evicted)  BY PrefixIs
<1>3. /\ P[FirstLogical + 1] = Above(w, Hidden) - Above(w, Evicted) /\ P[FirstLogical + 1] \in Nat
      /\ Last(P) - P[FirstLogical + 1] = total /\ P[n + 1] = Last(P) /\ Last(P) \in Nat
      /\ Above(w, Evicted) \in Nat  BY PrefixAt
<1>4. /\ total \in Nat /\ Above(w, Hidden) \in Nat
      /\ \A r \in 1 .. total :
            /\ AllRows(w)[Above(w, Hidden) + r].n = Hidden + rows[r].n
            /\ AllRows(w)[Above(w, Hidden) + r].byte = rows[r].byte
  BY TrueRowsAre
<1>5. a = IF row >= Last(P) THEN NoAnchor
          ELSE [valid |-> TRUE, logical |-> m, byte |-> Starts[Stored(m)][w][row - P[m + 1] + 1]]
  <2>1. Prefix(IndexOf(w)) = P /\ IndexOf(w).cols = w  BY DEF Prefix, IndexOf
  <2>2. Last(P) - P[FirstLogical + 1] = total  BY <1>3
  <2>3. Height = layout.bottom - layout.top + 1  BY DEF Height
  <2> HIDE DEF P
  <2> QED  BY <2>1, <2>2, <2>3, Zenon DEF AnchorBefore
<1> HIDE DEF D, rows, a
<1>6. top = Monus(total, Height + Minimum(off, total)) /\ top \in Nat
  <2> HIDE DEF total
  <2> QED  BY <1>4 DEF Monus, Minimum
<1>7. row = P[FirstLogical + 1] + top /\ row \in Nat  BY <1>3, <1>6
<1>8. row >= Last(P) <=> ~(top < total)
  <2>1. PICK x \in Nat, y \in Nat, z \in Nat :
          x = Last(P) /\ y = P[FirstLogical + 1] /\ z = total  BY <1>3, <1>4
  <2>2. row = y + top /\ x - y = z  BY <1>3, <1>7, <2>1
  <2> HIDE DEF row, top
  <2>3. row >= x <=> ~(top < z)  BY <1>6, <2>1, <2>2, SMTT(30)
  <2> QED  BY <2>1, <2>3
<1>9. CASE ~(top < total)
  <2>1. a = NoAnchor  BY <1>5, <1>8, <1>9
  <2> QED  BY <1>9, <2>1 DEF NoAnchor, Anchors, a, rows
<1>10. CASE top < total
  <2>1. a = [valid |-> TRUE, logical |-> m, byte |-> Starts[Stored(m)][w][row - P[m + 1] + 1]]
      BY <1>5, <1>8, <1>10
  <2>2. m \in 0 .. n /\ P[m + 1] <= row /\ m < n /\ row < P[m + 2]
    <3>1. row < P[n + 1]
      <4> HIDE DEF row, P
      <4>1. ~(row >= Last(P))  BY <1>8, <1>10
      <4> QED  BY <1>3, <1>7, <4>1
    <3> HIDE DEF row, n
    <3> QED  BY <1>2, <1>7, <3>1, Located
  <2>3. PICK i \in 0 .. n - 1 : i = m  BY <1>1, <2>2
  <2>4. PICK r \in Nat : r = row /\ P[i + 1] <= r /\ r < P[i + 2]  BY <1>7, <2>2, <2>3
  <2> HIDE DEF m, row, top
  <2>5. /\ i + 1 \in 0 .. n /\ i \in 0 .. n /\ Evicted + i \in 0 .. N /\ Evicted + i + 1 \in 1 .. N
        /\ (i + 1) + 1 = i + 2 /\ Evicted + (i + 1) = Evicted + i + 1
        /\ (Evicted + i + 1) - 1 = Evicted + i  BY <1>1
  <2> DEFINE line == Evicted + i + 1
  <2>6. /\ P[i + 1] = Above(w, Evicted + i) - Above(w, Evicted)
        /\ P[i + 2] = Above(w, line) - Above(w, Evicted)  BY <1>2, <2>5
  <2>7. /\ Above(w, Evicted + i) \in Nat
        /\ Above(w, line) = Above(w, Evicted + i) + Len(Starts[log[line]][w])
        /\ Len(Starts[log[line]][w]) \in Nat  BY <2>5, AboveAre
  <2>8. PICK b \in Nat, c \in Nat, d \in Nat, h \in Nat :
          /\ b = Above(w, Evicted) /\ c = Above(w, Evicted + i)
          /\ d = Len(Starts[log[line]][w]) /\ h = Above(w, Hidden)  BY <1>3, <1>4, <2>7
  <2>9. PICK k \in 1 .. d : k = r - P[i + 1] + 1 /\ c + k = h + (top + 1)
    <3>1. P[i + 1] = c - b /\ P[i + 2] = (c + d) - b
      <4>1. Above(w, line) = c + d  BY <2>7, <2>8
      <4> QED  BY <2>6, <2>8, <4>1
    <3>2. PICK t \in Nat : t = top  BY <1>6
    <3>3. r = (h - b) + t  BY <1>3, <1>7, <2>4, <2>8, <3>2
    <3>4. c - b <= r /\ r < (c + d) - b  BY <2>4, <3>1
    <3>5. r - (c - b) + 1 \in 1 .. d /\ c + (r - (c - b) + 1) = h + (t + 1)  BY <3>3, <3>4
    <3> QED  BY <3>1, <3>2, <3>5
  <2>10. /\ log \in Seq(Lines) /\ log[line] \in Lines /\ Stored(i) = log[line]
         /\ RowCounts(log, w)[line] = d
    <3>1. log \in Seq(Lines)  BY DEF StoreInv, StoreType
    <3>2. RowCounts(log, w)[line] = Len(Starts[log[line]][w])  BY <2>5, AboveAre
    <3> QED  BY <1>1, <2>5, <2>8, <3>1, <3>2
  <2>11. AllRows(w)[c + k] = RowIn(log, Plain, w, line, k)
    <3>1. PICK q \in 1 .. Len(log) : q = line  BY <2>5
    <3>2. k \in 1 .. RowCounts(log, w)[q]  BY <2>10, <3>1
    <3>3. RowsOf(log, Plain, w)[Sums(RowCounts(log, w))[q] + k] = RowIn(log, Plain, w, q, k)
        BY <2>10, <3>2, RowsAre
    <3>4. Sums(RowCounts(log, w))[q] = Above(w, Evicted + i)  BY <2>5, <3>1 DEF Above
    <3> QED  BY <2>8, <3>1, <3>3, <3>4 DEF AllRows
  <2>12. AllRows(w)[c + k].n = line /\ AllRows(w)[c + k].byte = Starts[log[line]][w][k]
      BY <2>11 DEF RowIn
  <2>13. top + 1 \in 1 .. total  BY <1>4, <1>6, <1>10
  <2>14. Hidden + rows[top + 1].n = line /\ rows[top + 1].byte = Starts[log[line]][w][k]
      BY <1>4, <2>8, <2>9, <2>12, <2>13
  <2>15. Starts[log[line]][w][k] \in Nat  BY <2>8, <2>10, StartsAre
  <2>16. a = [valid |-> TRUE, logical |-> i, byte |-> Starts[log[line]][w][k]]
      BY <2>1, <2>3, <2>4, <2>9, <2>10
  <2>17. a \in Anchors /\ a.valid /\ a.logical = i /\ a.byte = Starts[log[line]][w][k]
    <3>1. i \in Nat  OBVIOUS
    <3> QED  BY <2>15, <2>16, <3>1 DEF Anchors
  <2> QED  BY <1>10, <2>14, <2>17 DEF a, rows, top
<1> QED  BY <1>9, <1>10

\* kui_anchor_after_resize: the offset that puts the anchor's row at the top.
LEMMA OffsetIs ==
    ASSUME StoreInv, NEW w \in Widths, NEW height \in Nat, NEW a \in Anchors, ring.count > 0
    PROVE  LET line == Evicted + Minimum(a.logical, ring.count - 1) + 1
           IN /\ line \in 1 .. Len(log)
              /\ AnchorAfter(IndexOf(w), height, a)
                   = Monus(Len(TrueRows(w)),
                           Monus(RowAt([line |-> line, byte |-> a.byte], w) - 1, Above(w, Hidden))
                             + height)
              /\ AnchorAfter(IndexOf(w), height, a) \in Nat
<1> DEFINE D == RowCounts(Late, w)
           P == Sums(D)
           n == ring.count
           N == Len(log)
           total == Len(TrueRows(w))
           i == Minimum(a.logical, n - 1)
           line == Evicted + i + 1
           above == P[FirstLogical + 1]
           row == P[i + 1] + SegmentOf(Stored(i), w, a.byte)
           p == [line |-> line, byte |-> a.byte]
<1>0. a.logical \in Nat /\ a.byte \in Nat  BY DEF Anchors
<1>1. /\ Evicted \in 0 .. N /\ N - Evicted = n /\ N \in Nat /\ n \in Nat
      /\ \A k \in 0 .. n - 1 : Stored(k) = log[Evicted + k + 1] /\ Stored(k) \in Lines
  BY RetainedAre
<1>2. \A k \in 0 .. n : P[k + 1] = Above(w, Evicted + k) - Above(w, Evicted)  BY PrefixIs
<1>3. /\ above = Above(w, Hidden) - Above(w, Evicted) /\ above \in Nat
      /\ Last(P) - above = total /\ Above(w, Evicted) \in Nat  BY PrefixAt
<1>4. total \in Nat /\ Above(w, Hidden) \in Nat  BY TrueRowsAre
<1>5. i \in 0 .. n - 1  BY <1>0, <1>1 DEF Minimum
<1>6. AnchorAfter(IndexOf(w), height, a) = Monus(total, Monus(row, above) + height)
  <2>1. Prefix(IndexOf(w)) = P /\ IndexOf(w).cols = w  BY DEF Prefix, IndexOf
  <2>2. Last(P) - above = total  BY <1>3
  <2> HIDE DEF P
  <2> QED  BY <2>1, <2>2, Zenon DEF AnchorAfter
<1> HIDE DEF i, D, P
<1>7. line \in 1 .. N /\ line - 1 = Evicted + i /\ i \in 0 .. n  BY <1>1, <1>5
<1>8. Stored(i) = log[line] /\ log[line] \in Lines  BY <1>1, <1>5
<1>9. SegmentOf(log[line], w, a.byte) \in Nat /\ Above(w, line - 1) \in Nat
  <2>1. SegmentOf(log[line], w, a.byte) \in 0 .. Len(Starts[log[line]][w]) - 1
      BY <1>0, <1>8, SegmentIs
  <2>2. line - 1 \in 0 .. N  BY <1>1, <1>7
  <2> QED  BY <2>1, <2>2, AboveAre
<1>10. PICK x \in Nat, e \in Nat, h \in Nat, s \in Nat :
         /\ x = Above(w, line - 1) /\ e = Above(w, Evicted) /\ h = Above(w, Hidden)
         /\ s = SegmentOf(log[line], w, a.byte)  BY <1>3, <1>4, <1>9
<1>11. row = (x - e) + s /\ above = h - e /\ RowAt(p, w) = x + s + 1
  <2>1. P[i + 1] = x - e  BY <1>2, <1>7, <1>10
  <2>2. RowAt(p, w) = x + s + 1  BY <1>10 DEF RowAt
  <2> QED  BY <1>3, <1>8, <1>10, <2>1, <2>2
<1> HIDE DEF row, above, p
<1>12. Monus(row, above) = Monus(RowAt(p, w) - 1, h) /\ Monus(row, above) \in Nat
  BY <1>11 DEF Monus
<1>13. Monus(total, Monus(row, above) + height) \in Nat  BY <1>4, <1>12 DEF Monus
<1> QED  BY <1>6, <1>7, <1>10, <1>12, <1>13 DEF p, i

-------------------------------------------------------------------------------
(* The command thread's steps, as the events the renderer handles.         *)

InputLines == [active : BOOLEAN, text : Texts, last : Prompts \cup {Unknown}]
InputType == input \in InputLines

AskedTodo == {<< >>, <<"INPUT">>, <<"RENDER", "INPUT">>}
BusyTodo ==
    {<< >>, <<"FRAME">>, <<"RENDER", "RENDER", "BEGIN", "INPUT">>, <<"RENDER", "BEGIN", "INPUT">>,
     <<"BEGIN", "INPUT">>, <<"INPUT">>}

\* A line is typed at only between INPUT_BEGIN and INPUT_END.
ThreadInv ==
    /\ \/ at = "prompt" /\ todo \in AskedTodo
       \/ at = "command" /\ todo \in BusyTodo
    /\ input.active <=> at = "prompt" \/ todo = <<"INPUT">>

\* What a place in the output is kept for: a line typed at, until its command starts.
Asked == at = "prompt" \/ todo = <<"FRAME">>

BaseInv == StoreInv /\ InputType /\ ThreadInv

Rendered(off, chosen) ==
    /\ chosen \in BOOLEAN /\ (offset \in Nat /\ maxOff \in Nat => off \in Nat)
    /\ IF chosen THEN AtPrompt ELSE off = offset
    /\ Render(off, chosen)
    /\ UNCHANGED <<output, mode, frame, churn, tty>>

Nothing == UNCHANGED <<output, view, mode, frame, churn, input, page, terminal, history>>

Event ==
    \/ \E off, chosen : Rendered(off, chosen)
    \/ \E l \in Lines : OutputEvent(l)
    \/ \E text \in Texts : InputEvent(text)
    \/ InputBeginEvent
    \/ InputEndEvent
    \/ FrameStartEvent
    \/ \E m \in {"continuous", "frame"} : InCommand /\ ModeEvent(m)
    \/ InCommand /\ ChurnEvent(~churn)
    \/ ContextChanges
    \/ Resize
    \/ Nothing

\* A wheel that turns asks for a page at another offset, or for nothing.
LEMMA ScrollIs ==
    ASSUME AtPrompt, NEW rows \in {-1, 1}, ScrollEvent(rows)
    PROVE  Nothing \/ \E off : Rendered(off, TRUE)
<1> DEFINE to == IF rows >= 0
                 THEN IF rows > Monus(maxOff, offset) THEN maxOff ELSE offset + rows
                 ELSE Monus(offset, -rows)
<1>1. \/ UNCHANGED <<output, view, mode, frame, churn, input, page, terminal, changes, history>>
      \/ Render(to, TRUE) /\ UNCHANGED <<output, mode, frame, churn, tty>>
  BY Zenon DEF ScrollEvent
<1>2. offset \in Nat /\ maxOff \in Nat => to \in Nat  BY DEF Monus
<1> HIDE DEF to
<1>3. CASE Render(to, TRUE) /\ UNCHANGED <<output, mode, frame, churn, tty>>
  <2>1. Rendered(to, TRUE)  BY <1>2, <1>3 DEF Rendered
  <2> QED  BY <2>1
<1>4. CASE UNCHANGED <<output, view, mode, frame, churn, input, page, terminal, changes, history>>
  BY <1>4 DEF Nothing
<1> QED  BY <1>1, <1>3, <1>4

\* What the thread posts next.
LEMMA HandleIs ==
    ASSUME ThreadInv, todo # << >>
    PROVE  \/ /\ Head(todo) = "RENDER" /\ todo # <<"INPUT">>
              /\ \/ at = "prompt" /\ Tail(todo) \in AskedTodo
                 \/ at = "command" /\ Tail(todo) \in BusyTodo /\ Tail(todo) # <<"INPUT">>
           \/ Head(todo) = "BEGIN" /\ at = "command" /\ Tail(todo) = <<"INPUT">>
           \/ Head(todo) = "INPUT" /\ Tail(todo) = << >> /\ (at = "prompt" \/ todo = <<"INPUT">>)
           \/ Head(todo) = "FRAME" /\ at = "command" /\ Tail(todo) = << >> /\ todo = <<"FRAME">>
<1>1. /\ todo \in AskedTodo => at = "prompt" \/ todo \in BusyTodo
      /\ \/ at = "prompt" /\ todo \in AskedTodo
         \/ at = "command" /\ todo \in BusyTodo  BY DEF ThreadInv
<1>2. /\ <<"INPUT">> # <<"RENDER", "BEGIN", "INPUT">> /\ <<"INPUT">> # <<"BEGIN", "INPUT">>
      /\ <<"INPUT">> # <<"RENDER", "INPUT">>
      /\ <<"INPUT">> # <<"RENDER", "RENDER", "BEGIN", "INPUT">>
  <2>1. /\ Len(<<"INPUT">>) = 1 /\ Len(<<"RENDER", "INPUT">>) = 2 /\ Len(<<"BEGIN", "INPUT">>) = 2
        /\ Len(<<"RENDER", "BEGIN", "INPUT">>) = 3
        /\ Len(<<"RENDER", "RENDER", "BEGIN", "INPUT">>) = 4  OBVIOUS
  <2>2. 1 # 2 /\ 1 # 3 /\ 1 # 4  OBVIOUS
  <2> QED  BY <2>1, <2>2, Zenon
<1>3. CASE todo = <<"INPUT">>
  <2>1. Head(todo) = "INPUT" /\ Tail(todo) = << >>  BY <1>3
  <2> QED  BY <1>3, <2>1
<1>4. CASE todo = <<"FRAME">>
  <2>1. Head(todo) = "FRAME" /\ Tail(todo) = << >> /\ Head(<<"INPUT">>) = "INPUT"  BY <1>4
  <2>2. todo \notin AskedTodo
    <3>1. Head(<<"RENDER", "INPUT">>) = "RENDER"  OBVIOUS
    <3>2. todo # << >>  OBVIOUS
    <3>3. todo # <<"INPUT">> /\ todo # <<"RENDER", "INPUT">>  BY <2>1, <3>1
    <3> QED  BY <3>2, <3>3, Zenon DEF AskedTodo
  <2> QED  BY <1>1, <1>4, <2>1, <2>2
<1>5. CASE todo = <<"RENDER", "INPUT">>
  <2>1. Head(todo) = "RENDER" /\ Tail(todo) = <<"INPUT">>  BY <1>5
  <2>2. <<"INPUT">> \in AskedTodo  BY DEF AskedTodo
  <2>3. at = "prompt"
    <3>1. Len(todo) = 2 /\ Len(<<"FRAME">>) = 1 /\ Len(<<"BEGIN", "INPUT">>) = 2  BY <1>5
    <3>2. Len(<<"RENDER", "BEGIN", "INPUT">>) = 3
          /\ Len(<<"RENDER", "RENDER", "BEGIN", "INPUT">>) = 4
          /\ Len(<<"INPUT">>) = 1  OBVIOUS
    <3>3. Head(<<"BEGIN", "INPUT">>) = "BEGIN"  OBVIOUS
    <3>4. todo # <<"FRAME">> /\ todo # <<"INPUT">>
          /\ todo # <<"RENDER", "BEGIN", "INPUT">>
          /\ todo # <<"RENDER", "RENDER", "BEGIN", "INPUT">>
      <4>1. 2 # 1 /\ 2 # 3 /\ 2 # 4  OBVIOUS
      <4> QED  BY <3>1, <3>2, <4>1, Zenon
    <3>5. todo # <<"BEGIN", "INPUT">>  BY <2>1, <3>3
    <3>6. todo \notin BusyTodo  BY <3>4, <3>5, Zenon DEF BusyTodo
    <3> QED  BY <1>1, <3>6
  <2> QED  BY <1>2, <1>5, <2>1, <2>2, <2>3
<1>6. CASE todo \in BusyTodo /\ at = "command"
  <2>1. CASE todo = <<"RENDER", "RENDER", "BEGIN", "INPUT">>
    <3>1. Head(todo) = "RENDER" /\ Tail(todo) = <<"RENDER", "BEGIN", "INPUT">>  BY <2>1
    <3>2. <<"RENDER", "BEGIN", "INPUT">> \in BusyTodo  BY DEF BusyTodo
    <3> QED  BY <1>2, <1>6, <2>1, <3>1, <3>2
  <2>2. CASE todo = <<"RENDER", "BEGIN", "INPUT">>
    <3>1. Head(todo) = "RENDER" /\ Tail(todo) = <<"BEGIN", "INPUT">>  BY <2>2
    <3>2. <<"BEGIN", "INPUT">> \in BusyTodo  BY DEF BusyTodo
    <3> QED  BY <1>2, <1>6, <2>2, <3>1, <3>2
  <2>3. CASE todo = <<"BEGIN", "INPUT">>
    <3>1. Head(todo) = "BEGIN" /\ Tail(todo) = <<"INPUT">>  BY <2>3
    <3> QED  BY <1>6, <3>1
  <2> QED  BY <1>3, <1>4, <1>6, <2>1, <2>2, <2>3 DEF BusyTodo
<1> QED  BY <1>1, <1>3, <1>5, <1>6 DEF AskedTodo

\* Every step of the model is an event the renderer handles, or none for it.
LEMMA NextIs ==
    ASSUME BaseInv, Next
    PROVE  Event
<1>0. ThreadInv /\ input.text \in Texts /\ "" \in Texts
    BY DEF BaseInv, InputType, InputLines, Texts
<1>1. RenderEvent => Rendered(offset, FALSE)  BY DEF RenderEvent, Rendered
<1>2. CASE Handle
  <2>1. todo # << >>  BY <1>2 DEF Handle
  <2>2. CASE Head(todo) = "RENDER"
    <3>1. RenderEvent  BY <1>2, <2>2 DEF Handle
    <3> QED  BY <1>1, <3>1 DEF Event
  <2>3. CASE Head(todo) = "BEGIN"
    <3>1. InputBeginEvent  BY <1>2, <2>3 DEF Handle
    <3> QED  BY <3>1 DEF Event
  <2>4. CASE Head(todo) = "INPUT"
    <3>1. InputEvent(IF at = "prompt" THEN input.text ELSE "")  BY <1>2, <2>4 DEF Handle
    <3>2. (IF at = "prompt" THEN input.text ELSE "") \in Texts  BY <1>0
    <3> QED  BY <3>1, <3>2, Zenon DEF Event
  <2>5. CASE Head(todo) = "FRAME"
    <3>1. FrameStartEvent  BY <1>2, <2>5 DEF Handle
    <3> QED  BY <3>1 DEF Event
  <2> QED  BY <1>0, <2>1, <2>2, <2>3, <2>4, <2>5, HandleIs
<1>3. CASE Type
  <2>1. PICK text \in Inputs : InputEvent(text)  BY <1>3 DEF Type
  <2>2. text \in Texts  BY DEF Texts
  <2> QED  BY <2>1, <2>2, Zenon DEF Event
<1>4. CASE Scroll
  <2>1. AtPrompt /\ \E rows \in {-1, 1} : ScrollEvent(rows)  BY <1>4 DEF Scroll
  <2> QED  BY <2>1, ScrollIs DEF Event
<1>5. CASE HistoryNotice  BY <1>5 DEF HistoryNotice, Event
<1>6. CASE NoticeSize  BY <1>1, <1>6 DEF NoticeSize, Event
<1>7. CASE Enter  BY <1>7 DEF Enter, Event
<1>8. CASE Output  BY <1>8 DEF Output, Event
<1>9. CASE RenderOnce  BY <1>1, <1>9 DEF RenderOnce, Event
<1>10. CASE Progress  BY <1>10 DEF Progress, Event
<1>11. CASE SetMode  BY <1>11 DEF SetMode, Event
<1>12. CASE ContextChanges  BY <1>12 DEF Event
<1>13. CASE CommandEnds
  <2>1. Nothing  BY <1>13 DEF CommandEnds, Nothing
  <2> QED  BY <2>1 DEF Event
<1>14. CASE Resize  BY <1>14 DEF Event
<1> QED
  BY <1>2, <1>3, <1>4, <1>5, <1>6, <1>7, <1>8, <1>9, <1>10, <1>11, <1>12, <1>13, <1>14 DEF Next

-------------------------------------------------------------------------------
(* The indexes a page is made with.                                        *)

Wide == Wrap(tty.cols)

\* Both indexes a page uses are true, and its own is in step with the ring.
LEMMA PageIndexIs ==
    ASSUME StoreInv, NEW off
    PROVE  /\ ResizeIndex(off) \in Indexes /\ IndexTrue(ResizeIndex(off))
           /\ PageIndex(off) \in Indexes /\ IndexTrue(PageIndex(off))
           /\ Prefix(PageIndex(off)) = Sums(RowCounts(Late, Wide))
           /\ ring.count > 0 => PageIndex(off) = IndexOf(Wide)
           /\ LeavesView(off) => ResizeIndex(off) = IndexOf(Wrap(term.cols)) /\ term \in Sizes
<1>0. /\ index \in Indexes /\ IndexTrue(index) /\ tty \in Sizes /\ term \in Sizes \cup {NoSize}
  BY DEF StoreInv, StoreType
<1>1. Wide \in Widths  BY <1>0 DEF Widths, Wide
<1>2. ASSUME NEW ix \in Indexes, IndexTrue(ix), NEW w \in Widths
      PROVE  Synced(ix, w) = IndexOf(w) /\ Synced(ix, w) \in Indexes /\ IndexTrue(Synced(ix, w))
  BY <1>2, SyncedIs DEF IndexOf, Late
<1>3. LeavesView(off) => term \in Sizes /\ Wrap(term.cols) \in Widths
  BY <1>0 DEF LeavesView, Widths
<1>4. LeavesView(off) => /\ ResizeIndex(off) = IndexOf(Wrap(term.cols))
                         /\ ResizeIndex(off) \in Indexes /\ IndexTrue(ResizeIndex(off))
  <2>1. LeavesView(off) => ResizeIndex(off) = Synced(index, Wrap(term.cols))  BY DEF ResizeIndex
  <2>2. LeavesView(off) => /\ Synced(index, Wrap(term.cols)) = IndexOf(Wrap(term.cols))
                           /\ Synced(index, Wrap(term.cols)) \in Indexes
                           /\ IndexTrue(Synced(index, Wrap(term.cols)))  BY <1>0, <1>2, <1>3
  <2> QED  BY <2>1, <2>2, Zenon
<1>5. ~LeavesView(off) => ResizeIndex(off) = index  BY DEF ResizeIndex
<1>6. ResizeIndex(off) \in Indexes /\ IndexTrue(ResizeIndex(off))  BY <1>0, <1>4, <1>5, Zenon
<1>7. ring.count \in Nat /\ Len(log) \in Nat /\ Evicted \in 0 .. Len(log)
      /\ Len(log) - Evicted = ring.count  BY RetainedAre
<1>8. CASE ring.count # 0
  <2>1. PageIndex(off) = Synced(ResizeIndex(off), Wide)  BY <1>8 DEF PageIndex, Wide
  <2>2. /\ Synced(ResizeIndex(off), Wide) = IndexOf(Wide)
        /\ Synced(ResizeIndex(off), Wide) \in Indexes
        /\ IndexTrue(Synced(ResizeIndex(off), Wide))  BY <1>1, <1>2, <1>6
  <2>3. Prefix(IndexOf(Wide)) = Sums(RowCounts(Late, Wide))  BY DEF Prefix, IndexOf
  <2>4. PageIndex(off) = IndexOf(Wide) /\ PageIndex(off) \in Indexes /\ IndexTrue(PageIndex(off))
      BY <2>1, <2>2, Zenon
  <2> QED  BY <1>3, <1>4, <1>6, <2>3, <2>4, Zenon
<1>9. CASE ring.count = 0
  <2>1. ~LeavesView(off) /\ PageIndex(off) = index
    <3>1. ~LeavesView(off)  BY <1>9 DEF LeavesView, HasView
    <3> QED  BY <1>5, <1>9, <3>1 DEF PageIndex
  <2>2. Len(log) = 0
    <3>1. ring.count = Minimum(Len(log), MaxLines) /\ MaxLines \in Nat \ {0}
        BY BoundAssumption DEF StoreInv, RingInv
    <3> QED  BY <1>7, <1>9, <3>1 DEF Minimum
  <2>3. index.rows = << >>
    <3>1. CASE index = NoIndex  BY <3>1 DEF NoIndex
    <3>2. CASE index # NoIndex
      <4>1. Evicted - ring.head + index.head + Len(index.rows) <= Len(log)
          BY <1>0, <3>2 DEF IndexTrue
      <4>2. index.rows \in Seq(Nat) /\ index.head \in Nat  BY <1>0 DEF Indexes
      <4>3. ring.head <= Evicted /\ ring.head \in Nat  BY DEF StoreInv, RingInv, StoreType
      <4>4. Len(index.rows) \in Nat  BY <4>2
      <4>5. Len(index.rows) = 0  BY <1>7, <2>2, <4>1, <4>2, <4>3, <4>4
      <4> QED  BY <4>2, <4>5
    <3> QED  BY <3>1, <3>2
  <2>4. RowCounts(Late, Wide) = << >>
    <3>1. RowCounts(Late, Wide) \in Seq(Nat) /\ Len(RowCounts(Late, Wide)) = 0
        BY <1>1, <1>9, PrefixIs
    <3> QED  BY <3>1
  <2>5. Prefix(PageIndex(off)) = Sums(RowCounts(Late, Wide))  BY <2>1, <2>3, <2>4, Zenon DEF Prefix
  <2>6. ~(ring.count > 0)  BY <1>9
  <2> QED  BY <1>0, <1>6, <2>1, <2>5, <2>6, Zenon
<1> QED  BY <1>8, <1>9

-------------------------------------------------------------------------------
(* What a page is made of.                                                 *)

Top == banner.height + 1
Bottom == tty.rows - (IF churn THEN 2 ELSE 1)
High == Bottom - Top + 1

Wanted(off) ==
    IF PageAnchor(off).valid /\ ring.count > 0
    THEN AnchorAfter(PageIndex(off), High, PageAnchor(off)) ELSE off
PageView(off) == ViewOf(Prefix(PageIndex(off)), Wanted(off), High)
PageRow(off) == PromptUnder(Top, PageView(off).rendered)
PageDesired(off) == DesiredRows(Prefix(PageIndex(off)), PageView(off), High)
PageInput(off, fault) ==
    Dirty(input, \/ SizeChanged \/ small \/ Moves(PageRow(off))
                 \/ fault = "begin" /\ prompt # 0)
PageBanner ==
    BannerOn(IF small THEN Rows(tty.rows, Blank) ELSE phys,
             IF SizeChanged \/ small THEN 0 ELSE banner.prev)
PagePainted(off, fault) ==
    Commit(PageBanner, Top, Current(Top, PageRow(off)), PageDesired(off), fault)
Painting(off, chosen, fault, top, bottom, height, ix, back, shown, row, desired, rows, in,
         painted) ==
    /\ index' = ix
    /\ offset' = shown.offset
    /\ maxOff' = shown.maxOff
    /\ layout' = [top |-> top, bottom |-> bottom]
    /\ prompt' = row
    /\ screen' = CommittedScreen(top, desired, fault)
    /\ anchor' = IF input.active THEN row ELSE anchor
    /\ input' = IF input.active THEN Drawn(in) ELSE in
    /\ phys' = IF input.active THEN DrawnOn(painted, in, row) ELSE painted
    /\ drawn' = (fault = "none" /\ (drawn \/ (input.active /\ Paints(in))))
    /\ place' = IF chosen /\ ~back.valid THEN Here(rows, shown.offset, height)
                ELSE Settled(Sought(off, chosen), rows, shown.offset, height)

\* The page's parts follow one from the other.
LEMMA PageDrawn ==
    ASSUME NEW off, NEW chosen, NEW fault, RenderPage(off, chosen, fault)
    PROVE  Painting(off, chosen, fault, Top, Bottom, High, PageIndex(off), PageAnchor(off),
                    PageView(off), PageRow(off), PageDesired(off), TrueRows(Wrap(tty.cols)),
                    PageInput(off, fault), PagePainted(off, fault))
<1> DEFINE Ins(r) == {Dirty(input, \/ SizeChanged \/ small \/ Moves(r)
                                   \/ fault = "begin" /\ prompt # 0)}
           Pts(t, r, d) == {Commit(BannerOn(IF small THEN Rows(tty.rows, Blank) ELSE phys,
                                            IF SizeChanged \/ small THEN 0 ELSE banner.prev),
                                   t, Current(t, r), d, fault)}
<1>1. PICK top \in {banner.height + 1}, bottom \in {tty.rows - (IF churn THEN 2 ELSE 1)} :
       \E height \in {bottom - top + 1}, ix \in {PageIndex(off)}, back \in {PageAnchor(off)} :
       \E wanted \in {IF back.valid /\ ring.count > 0 THEN AnchorAfter(ix, height, back) ELSE off} :
       \E shown \in {ViewOf(Prefix(ix), wanted, height)} :
       \E row \in {PromptUnder(top, shown.rendered)},
          desired \in {DesiredRows(Prefix(ix), shown, height)},
          rows \in {TrueRows(Wrap(tty.cols))} :
       \E in \in Ins(row), painted \in Pts(top, row, desired) :
          Painting(off, chosen, fault, top, bottom, height, ix, back, shown, row, desired, rows,
                   in, painted)
  BY Zenon DEF RenderPage, Painting
<1> HIDE DEF Ins, Pts
<1>2. PICK height \in {bottom - top + 1}, ix \in {PageIndex(off)}, back \in {PageAnchor(off)} :
       \E wanted \in {IF back.valid /\ ring.count > 0 THEN AnchorAfter(ix, height, back) ELSE off} :
       \E shown \in {ViewOf(Prefix(ix), wanted, height)} :
       \E row \in {PromptUnder(top, shown.rendered)},
          desired \in {DesiredRows(Prefix(ix), shown, height)},
          rows \in {TrueRows(Wrap(tty.cols))} :
       \E in \in Ins(row), painted \in Pts(top, row, desired) :
          Painting(off, chosen, fault, top, bottom, height, ix, back, shown, row, desired, rows,
                   in, painted)
  BY <1>1, Zenon
<1>3. top = Top /\ bottom = Bottom /\ height = High /\ ix = PageIndex(off) /\ back = PageAnchor(off)
  <2>1. top = banner.height + 1  BY <1>1, Zenon
  <2>2. bottom = tty.rows - (IF churn THEN 2 ELSE 1)  BY <1>1, Zenon
  <2>3. height = bottom - top + 1  BY <1>2, Zenon
  <2>4. ix = PageIndex(off) /\ back = PageAnchor(off)  BY <1>2, Zenon
  <2> QED  BY <2>1, <2>2, <2>3, <2>4, Zenon DEF Top, Bottom, High
<1>4. PICK wanted \in {IF back.valid /\ ring.count > 0
                      THEN AnchorAfter(ix, height, back) ELSE off} :
       \E shown \in {ViewOf(Prefix(ix), wanted, height)} :
       \E row \in {PromptUnder(top, shown.rendered)},
          desired \in {DesiredRows(Prefix(ix), shown, height)},
          rows \in {TrueRows(Wrap(tty.cols))} :
       \E in \in Ins(row), painted \in Pts(top, row, desired) :
          Painting(off, chosen, fault, top, bottom, height, ix, back, shown, row, desired, rows,
                   in, painted)
  BY <1>2, Zenon
<1>5. PICK shown \in {ViewOf(Prefix(ix), wanted, height)} :
       \E row \in {PromptUnder(top, shown.rendered)},
          desired \in {DesiredRows(Prefix(ix), shown, height)},
          rows \in {TrueRows(Wrap(tty.cols))} :
       \E in \in Ins(row), painted \in Pts(top, row, desired) :
          Painting(off, chosen, fault, top, bottom, height, ix, back, shown, row, desired, rows,
                   in, painted)
  BY <1>4, Zenon
<1>a. shown = PageView(off)
  <2>1. wanted = IF back.valid /\ ring.count > 0 THEN AnchorAfter(ix, height, back) ELSE off
      BY <1>4, Zenon
  <2>2. wanted = Wanted(off)  BY <1>3, <2>1, Zenon DEF Wanted
  <2>3. shown = ViewOf(Prefix(ix), wanted, height)  BY <1>5, Zenon
  <2> QED  BY <1>3, <2>2, <2>3, Zenon DEF PageView
<1>6. PICK row \in {PromptUnder(top, shown.rendered)},
           desired \in {DesiredRows(Prefix(ix), shown, height)},
          rows \in {TrueRows(Wrap(tty.cols))} :
       \E in \in Ins(row), painted \in Pts(top, row, desired) :
          Painting(off, chosen, fault, top, bottom, height, ix, back, shown, row, desired, rows,
                   in, painted)
  BY <1>5, Zenon
<1>7. row = PageRow(off) /\ desired = PageDesired(off) /\ rows = TrueRows(Wrap(tty.cols))
  BY <1>3, <1>a, <1>6, Zenon DEF PageRow, PageDesired
<1>8. PICK in \in Ins(row), painted \in Pts(top, row, desired) :
          Painting(off, chosen, fault, top, bottom, height, ix, back, shown, row, desired, rows,
                   in, painted)
  BY <1>6, Zenon
<1>9. in = PageInput(off, fault) /\ painted = PagePainted(off, fault)
  <2>1. in \in Ins(PageRow(off)) /\ painted \in Pts(Top, PageRow(off), PageDesired(off))
      BY <1>3, <1>7, <1>8, Zenon
  <2> QED  BY <2>1 DEF PageInput, PagePainted, PageBanner, Ins, Pts
<1> QED  BY <1>3, <1>a, <1>7, <1>8, <1>9, Zenon

-------------------------------------------------------------------------------
(* The ring, the index and the prompt's line, for every step.              *)

\* What painting and invalidating leave of the line that is typed.
LEMMA InputsAre ==
    ASSUME tty \in Sizes, NEW in \in InputLines
    PROVE  /\ \A if : /\ Dirty(in, if) \in InputLines
                      /\ Dirty(in, if).active = in.active /\ Dirty(in, if).text = in.text
                      /\ Dirty(in, if).last = IF if THEN Unknown ELSE in.last
           /\ Drawn(in) \in InputLines
           /\ Drawn(in).active = in.active /\ Drawn(in).text = in.text
           /\ Drawn(in).last = PromptRow(in.text, tty.cols)
<1>1. in.text \in Texts  BY DEF InputLines
<1>2. PromptRow(in.text, tty.cols) \in Prompts  BY <1>1, ShownAre
<1>3. \A if : IF if THEN Dirty(in, if) = [in EXCEPT !.last = Unknown] ELSE Dirty(in, if) = in
  BY DEF Dirty
<1> QED  BY <1>2, <1>3 DEF Drawn, InputLines

\* What a page leaves of what only the renderer keeps.
LEMMA RenderLeaves ==
    ASSUME NEW off, NEW chosen, Render(off, chosen)
    PROVE  /\ term' = tty
           /\ index' \in {ResizeIndex(off), PageIndex(off)}
           /\ \E if : input' \in {Dirty(input, if), Drawn(Dirty(input, if))}
<1>1. CASE RenderSmall(off, chosen)  BY <1>1 DEF RenderSmall
<1>2. ASSUME NEW fault, RenderPage(off, chosen, fault)
      PROVE  /\ term' = tty
             /\ index' \in {ResizeIndex(off), PageIndex(off)}
             /\ \E if : input' \in {Dirty(input, if), Drawn(Dirty(input, if))}
  <2>1. term' = tty  BY <1>2 DEF RenderPage
  <2>2. /\ index' = PageIndex(off)
        /\ input' = IF input.active THEN Drawn(PageInput(off, fault)) ELSE PageInput(off, fault)
      BY <1>2, PageDrawn, Zenon DEF Painting
  <2>3. \E if : input' \in {Dirty(input, if), Drawn(Dirty(input, if))}  BY <2>2 DEF PageInput
  <2> QED  BY <2>1, <2>2, <2>3
<1> QED  BY <1>1, <1>2 DEF Render

\* The line typed at is active from INPUT_BEGIN to INPUT_END.
LEMMA InputKept ==
    ASSUME BaseInv, [Next]_vars
    PROVE  /\ InputType'
           /\ \/ InputBeginEvent /\ input'.active
              \/ InputEndEvent /\ ~input'.active
              \/ input'.active = input.active
<1>0. tty \in Sizes /\ input \in InputLines  BY DEF BaseInv, StoreInv, StoreType, InputType
<1>1. CASE Next
  <2>1. Event  BY <1>1, NextIs
  <2>2. ASSUME NEW off, NEW chosen, Rendered(off, chosen)
        PROVE  input' \in InputLines /\ input'.active = input.active
    <3>1. PICK if : input' \in {Dirty(input, if), Drawn(Dirty(input, if))}
        BY <2>2, RenderLeaves DEF Rendered
    <3>2. Dirty(input, if) \in InputLines /\ Dirty(input, if).active = input.active
        BY <1>0, InputsAre
    <3>3. /\ Drawn(Dirty(input, if)) \in InputLines
          /\ Drawn(Dirty(input, if)).active = Dirty(input, if).active  BY <1>0, <3>2, InputsAre
    <3> QED  BY <3>1, <3>2, <3>3
  <2>3. ASSUME NEW text \in Texts, InputEvent(text)
        PROVE  input' \in InputLines /\ input'.active = input.active
    <3> DEFINE in == [input EXCEPT !.text = text]
    <3>1. in \in InputLines /\ in.active = input.active  BY <1>0 DEF InputLines
    <3>2. input' \in {Drawn(in), in}  BY <2>3 DEF InputEvent
    <3> HIDE DEF in
    <3>3. Drawn(in) \in InputLines /\ Drawn(in).active = in.active  BY <1>0, <3>1, InputsAre
    <3> QED  BY <3>1, <3>2, <3>3
  <2>4. ASSUME NEW on \in BOOLEAN, input' = Dirty([input EXCEPT !.active = on], TRUE)
        PROVE  input' \in InputLines /\ input'.active = on
    <3> DEFINE in == [input EXCEPT !.active = on]
    <3>1. in \in InputLines /\ in.active = on  BY <1>0 DEF InputLines
    <3>2. input' = Dirty(in, TRUE)  BY <2>4
    <3> HIDE DEF in
    <3>3. Dirty(in, TRUE) \in InputLines /\ Dirty(in, TRUE).active = in.active
        BY <1>0, <3>1, InputsAre
    <3> QED  BY <3>1, <3>2, <3>3
  <2>5. CASE InputBeginEvent
    <3>1. input' = Dirty([input EXCEPT !.active = TRUE], TRUE)  BY <2>5 DEF InputBeginEvent
    <3> QED  BY <2>4, <2>5, <3>1 DEF InputType
  <2>6. CASE InputEndEvent
    <3>1. input' = Dirty([input EXCEPT !.active = FALSE], TRUE)  BY <2>6 DEF InputEndEvent
    <3> QED  BY <2>4, <2>6, <3>1 DEF InputType
  <2>7. (\E l \in Lines : OutputEvent(l)) => input' = input  BY DEF OutputEvent
  <2>8. FrameStartEvent => input' = input  BY DEF FrameStartEvent
  <2>9. (\E m \in {"continuous", "frame"} : InCommand /\ ModeEvent(m)) => input' = input
      BY DEF ModeEvent
  <2>10. ChurnEvent(~churn) => input' = input  BY DEF ChurnEvent
  <2>11. ContextChanges => input' = input  BY DEF ContextChanges
  <2>12. Resize => input' = input  BY DEF Resize
  <2>13. Nothing => input' = input  BY DEF Nothing
  <2>14. input' = input => InputType' /\ input'.active = input.active  BY <1>0 DEF InputType
  <2> QED
      BY <2>1, <2>2, <2>3, <2>5, <2>6, <2>7, <2>8, <2>9, <2>10, <2>11, <2>12, <2>13, <2>14
      DEF Event, InputType
<1>2. CASE UNCHANGED vars  BY <1>0, <1>2 DEF vars, InputType
<1> QED  BY <1>1, <1>2

\* The events come in their order, and a place is left only when its command starts.
LEMMA ThreadKept ==
    ASSUME BaseInv, [Next]_vars
    PROVE  ThreadInv' /\ (~Asked' => ~Asked \/ FrameStartEvent)
<1> DEFINE Same == input'.active = input.active
           OutputOnly == \E l \in Lines : OutputEvent(l)
<1>0. ThreadInv /\ input \in InputLines  BY DEF BaseInv, InputType
<1>a. InputType' /\ input'.active \in BOOLEAN  BY InputKept DEF InputType, InputLines
<1>1. (at' = at /\ todo' = todo /\ Same) => ThreadInv' /\ (~Asked' => ~Asked)
  BY <1>0 DEF ThreadInv, Asked
<1>2. /\ << >> \in AskedTodo /\ <<"INPUT">> \in AskedTodo /\ <<"RENDER", "INPUT">> \in AskedTodo
      /\ << >> \in BusyTodo /\ <<"INPUT">> \in BusyTodo /\ <<"FRAME">> \in BusyTodo
      /\ <<"RENDER", "BEGIN", "INPUT">> \in BusyTodo  BY DEF AskedTodo, BusyTodo
<1>3. /\ << >> # <<"INPUT">> /\ << >> # <<"FRAME">>
      /\ <<"INPUT">> # <<"FRAME">> /\ <<"INPUT">> # <<"RENDER", "BEGIN", "INPUT">>
  <2>1. << >> # <<"INPUT">> /\ << >> # <<"FRAME">>  OBVIOUS
  <2>2. Head(<<"INPUT">>) = "INPUT" /\ Head(<<"FRAME">>) = "FRAME"
        /\ Head(<<"RENDER", "BEGIN", "INPUT">>) = "RENDER"  OBVIOUS
  <2>3. "INPUT" # "FRAME" /\ "INPUT" # "RENDER"  OBVIOUS
  <2> QED  BY <2>1, <2>2, <2>3, Zenon
<1>4. \A off, chosen : Rendered(off, chosen) => Same
  <2>1. SUFFICES ASSUME NEW off, NEW chosen, Rendered(off, chosen) PROVE Same  OBVIOUS
  <2>2. PICK if : input' \in {Dirty(input, if), Drawn(Dirty(input, if))}
      BY <2>1, RenderLeaves DEF Rendered
  <2>3. tty \in Sizes  BY DEF BaseInv, StoreInv, StoreType
  <2>4. Dirty(input, if) \in InputLines /\ Dirty(input, if).active = input.active
      BY <1>0, <2>3, InputsAre
  <2>5. Drawn(Dirty(input, if)).active = Dirty(input, if).active  BY <2>3, <2>4, InputsAre
  <2> QED  BY <2>2, <2>4, <2>5
<1>5. RenderEvent => Same  BY <1>4 DEF RenderEvent, Rendered
<1>6. \A text \in Texts : InputEvent(text) => Same
  <2>1. SUFFICES ASSUME NEW text \in Texts, InputEvent(text) PROVE Same  OBVIOUS
  <2> DEFINE in == [input EXCEPT !.text = text]
  <2>2. in \in InputLines /\ in.active = input.active  BY <1>0 DEF InputLines
  <2>3. input' \in {Drawn(in), in}  BY <2>1 DEF InputEvent
  <2>4. tty \in Sizes  BY DEF BaseInv, StoreInv, StoreType
  <2> HIDE DEF in
  <2>5. Drawn(in).active = in.active  BY <2>2, <2>4, InputsAre
  <2> QED  BY <2>2, <2>3, <2>5
<1>7. OutputOnly => Same  BY DEF OutputEvent
<1> HIDE DEF Same, OutputOnly
<1>8. CASE Handle
  <2>1. todo # << >> /\ todo' = Tail(todo)
        /\ at' = IF Head(todo) = "INPUT" THEN "prompt" ELSE at  BY <1>8 DEF Handle
  <2>2. CASE Head(todo) = "RENDER"
    <3>1. RenderEvent  BY <1>8, <2>2 DEF Handle
    <3>2. at' = at  BY <2>1, <2>2
    <3>3. /\ todo # <<"INPUT">>
          /\ \/ at = "prompt" /\ Tail(todo) \in AskedTodo
             \/ at = "command" /\ Tail(todo) \in BusyTodo /\ Tail(todo) # <<"INPUT">>
      <4>1. "RENDER" # "BEGIN" /\ "RENDER" # "INPUT" /\ "RENDER" # "FRAME"  OBVIOUS
      <4> QED  BY <1>0, <2>1, <2>2, <4>1, HandleIs, Zenon
    <3>4. Asked => at = "prompt"
      <4>1. todo # <<"FRAME">>
        <5>1. Head(<<"FRAME">>) = "FRAME" /\ "FRAME" # "RENDER"  OBVIOUS
        <5> QED  BY <2>2, <5>1, Zenon
      <4> QED  BY <4>1, Zenon DEF Asked
    <3>5. input'.active <=> at' = "prompt" \/ todo' = <<"INPUT">>
      <4>1. input.active <=> at = "prompt"  BY <1>0, <3>3, Zenon DEF ThreadInv
      <4>2. input'.active = input.active  BY <1>5, <3>1 DEF Same
      <4>3. at = "prompt" \/ Tail(todo) # <<"INPUT">>  BY <3>3, Zenon
      <4>4. (at = "prompt" \/ Tail(todo) = <<"INPUT">>) <=> at = "prompt"  BY <4>3, Zenon
      <4> QED  BY <2>1, <3>2, <4>1, <4>2, <4>4, Zenon
    <3>6. ThreadInv'  BY <2>1, <3>2, <3>3, <3>5, Zenon DEF ThreadInv
    <3> QED  BY <3>2, <3>4, <3>6, Zenon DEF Asked
  <2>3. CASE Head(todo) = "BEGIN"
    <3>1. InputBeginEvent /\ at' = at  BY <1>8, <2>1, <2>3 DEF Handle
    <3>2. at = "command" /\ Tail(todo) = <<"INPUT">>
      <4>1. "BEGIN" # "RENDER" /\ "BEGIN" # "INPUT" /\ "BEGIN" # "FRAME"  OBVIOUS
      <4> QED  BY <1>0, <2>1, <2>3, <4>1, HandleIs, Zenon
    <3>3. input'.active
      <4>1. input' = Dirty([input EXCEPT !.active = TRUE], TRUE)  BY <3>1 DEF InputBeginEvent
      <4> QED  BY <1>0, <4>1 DEF Dirty, InputLines
    <3>4. ~Asked
      <4>1. Head(<<"FRAME">>) = "FRAME" /\ "FRAME" # "BEGIN" /\ "command" # "prompt"  OBVIOUS
      <4> QED  BY <2>3, <3>2, <4>1, Zenon DEF Asked
    <3>5. ThreadInv'  BY <1>2, <2>1, <3>1, <3>2, <3>3, Zenon DEF ThreadInv
    <3> QED  BY <3>4, <3>5
  <2>4. CASE Head(todo) = "INPUT"
    <3>1. InputEvent(IF at = "prompt" THEN input.text ELSE "") /\ at' = "prompt"
        BY <1>8, <2>1, <2>4 DEF Handle
    <3>2. (IF at = "prompt" THEN input.text ELSE "") \in Texts  BY <1>0 DEF InputLines, Texts
    <3>3. input'.active = input.active  BY <1>6, <3>1, <3>2, Zenon DEF Same
    <3>4. Tail(todo) = << >> /\ (at = "prompt" \/ todo = <<"INPUT">>)
      <4>1. "INPUT" # "RENDER" /\ "INPUT" # "BEGIN" /\ "INPUT" # "FRAME"  OBVIOUS
      <4> QED  BY <1>0, <2>1, <2>4, <4>1, HandleIs, Zenon
    <3>5. ThreadInv'  BY <1>0, <1>2, <2>1, <3>1, <3>3, <3>4, Zenon DEF ThreadInv
    <3> QED  BY <3>1, <3>5 DEF Asked
  <2>5. CASE Head(todo) = "FRAME"
    <3>1. FrameStartEvent /\ at' = at  BY <1>8, <2>1, <2>5 DEF Handle
    <3>2. at = "command" /\ Tail(todo) = << >> /\ todo = <<"FRAME">>
      <4>1. "FRAME" # "RENDER" /\ "FRAME" # "BEGIN" /\ "FRAME" # "INPUT"  OBVIOUS
      <4> QED  BY <1>0, <2>1, <2>5, <4>1, HandleIs, Zenon
    <3>3. input' = input  BY <3>1 DEF FrameStartEvent
    <3>4. "command" # "prompt"  OBVIOUS
    <3>5. ~input.active  BY <1>0, <1>3, <3>2, <3>4, Zenon DEF ThreadInv
    <3>6. ThreadInv'  BY <1>2, <1>3, <2>1, <3>1, <3>2, <3>3, <3>4, <3>5, Zenon DEF ThreadInv
    <3> QED  BY <3>1, <3>6
  <2> QED  BY <1>0, <2>1, <2>2, <2>3, <2>4, <2>5, HandleIs, Zenon
<1>9. CASE AtPrompt /\ Same /\ at' = at /\ todo' \in AskedTodo
  BY <1>0, <1>9, Zenon DEF AtPrompt, ThreadInv, Asked, Same
<1>10. CASE Enter
  <2>1. InputEndEvent /\ at' = "command" /\ todo' = <<"FRAME">>  BY <1>10 DEF Enter
  <2>2. ~input'.active
    <3>1. input' = Dirty([input EXCEPT !.active = FALSE], TRUE)  BY <2>1 DEF InputEndEvent
    <3> QED  BY <1>0, <3>1 DEF Dirty, InputLines
  <2>3. "command" # "prompt"  OBVIOUS
  <2>4. ThreadInv'  BY <1>2, <1>3, <2>1, <2>2, <2>3, Zenon DEF ThreadInv
  <2> QED  BY <2>1, <2>4 DEF Asked
<1>11. CASE CommandEnds
  <2>1. at = "command" /\ todo = << >> /\ input' = input
      BY <1>11 DEF CommandEnds, InCommand
  <2>2. at' = at /\ todo' = <<"RENDER", "BEGIN", "INPUT">>  BY <1>11 DEF CommandEnds, Then
  <2>3. "command" # "prompt"  OBVIOUS
  <2>4. ~input.active  BY <1>0, <1>3, <2>1, <2>3, Zenon DEF ThreadInv
  <2>5. ThreadInv'  BY <1>2, <1>3, <2>1, <2>2, <2>3, <2>4, Zenon DEF ThreadInv
  <2>6. ~Asked  BY <1>3, <2>1, <2>3, Zenon DEF Asked
  <2> QED  BY <2>5, <2>6
<1>12. CASE Type
  <2>1. AtPrompt /\ at' = at /\ todo' = << >>  BY <1>12 DEF Type, Then
  <2>2. PICK text \in Inputs : InputEvent(text)  BY <1>12 DEF Type
  <2>3. text \in Texts  BY DEF Texts
  <2>4. Same  BY <1>6, <2>2, <2>3
  <2> QED  BY <1>2, <1>9, <2>1, <2>4
<1>13. CASE Scroll
  <2>1. AtPrompt /\ at' = at /\ todo' = <<"INPUT">>  BY <1>13 DEF Scroll, Then
  <2>2. PICK rows \in {-1, 1} : ScrollEvent(rows)  BY <1>13 DEF Scroll
  <2>3. Nothing \/ \E off : Rendered(off, TRUE)  BY <2>1, <2>2, ScrollIs
  <2>4. Nothing => Same  BY DEF Nothing, Same
  <2>5. Same  BY <1>4, <2>3, <2>4
  <2> QED  BY <1>2, <1>9, <2>1, <2>5
<1>14. CASE HistoryNotice
  <2>1. AtPrompt /\ at' = at /\ todo' = <<"RENDER", "INPUT">> /\ OutputOnly
      BY <1>14 DEF HistoryNotice, Then, OutputOnly
  <2> QED  BY <1>2, <1>7, <1>9, <2>1
<1>15. CASE NoticeSize
  <2>1. AtPrompt /\ at' = at /\ todo' = todo /\ RenderEvent  BY <1>15 DEF NoticeSize
  <2> QED  BY <1>1, <1>5, <2>1
<1>16. CASE \/ Output \/ RenderOnce \/ Progress \/ SetMode \/ ContextChanges
  <2>1. InCommand /\ at' = at /\ todo' = << >>
      BY <1>16 DEF Output, RenderOnce, Progress, SetMode, ContextChanges, Then
  <2>2. Same
    <3>1. Output => Same  BY <1>7 DEF Output, OutputOnly
    <3>2. RenderOnce => Same  BY <1>5 DEF RenderOnce
    <3>3. Progress => Same  BY DEF Progress, ChurnEvent, Same
    <3>4. SetMode => Same  BY DEF SetMode, ModeEvent, Same
    <3>5. ContextChanges => Same  BY DEF ContextChanges, Same
    <3> QED  BY <1>16, <3>1, <3>2, <3>3, <3>4, <3>5
  <2>3. todo' = todo  BY <2>1 DEF InCommand
  <2> QED  BY <1>1, <2>1, <2>2, <2>3
<1>17. CASE Resize
  <2>1. at' = at /\ todo' = todo /\ input' = input  BY <1>17 DEF Resize, thread
  <2> QED  BY <1>1, <2>1 DEF Same
<1>18. CASE UNCHANGED vars
  <2>1. at' = at /\ todo' = todo /\ input' = input  BY <1>18 DEF vars, thread
  <2> QED  BY <1>1, <2>1 DEF Same
<1> QED
  BY <1>8, <1>10, <1>11, <1>12, <1>13, <1>14, <1>15, <1>16, <1>17, <1>18, Zenon DEF Next

\* With the lines as they are, the ring and a true index stay so.
LEMMA StoreSame ==
    ASSUME StoreInv, UNCHANGED output, NEW ix \in Indexes, IndexTrue(ix), index' = ix,
           frame' \in 0 .. Len(log), tty' \in Sizes, term' \in Sizes \cup {NoSize}
    PROVE  StoreInv'
<1>1. log' = log /\ ring' = ring /\ base' = base  BY DEF output
<1>2. Evicted' = Evicted  BY <1>1 DEF Evicted
<1>3. StoreType'  BY <1>1 DEF StoreInv, StoreType
<1>4. RingInv'
  <2>1. RingInv  BY DEF StoreInv
  <2>2. \A i : Stored(i)' = Stored(i)  BY <1>1 DEF Stored
  <2> QED  BY <1>1, <1>2, <2>1, <2>2 DEF RingInv
<1>5. IndexTrue(index)'  BY <1>1, <1>2 DEF IndexTrue
<1> QED  BY <1>3, <1>4, <1>5 DEF StoreInv

\* Every step leaves the ring, its base style and the index true.
LEMMA StoreKept ==
    ASSUME BaseInv, [Next]_vars
    PROVE  StoreInv'
<1>0. StoreInv  BY DEF BaseInv
<1>1. /\ index \in Indexes /\ IndexTrue(index) /\ frame \in 0 .. Len(log) /\ Len(log) \in Nat
      /\ tty \in Sizes /\ term \in Sizes \cup {NoSize}
  BY <1>0 DEF StoreInv, StoreType
<1>2. CASE Next
  <2>1. Event  BY <1>2, NextIs
  <2>2. ASSUME NEW off, NEW chosen, Rendered(off, chosen) PROVE StoreInv'
    <3>1. term' = tty /\ index' \in {ResizeIndex(off), PageIndex(off)}
        BY <2>2, RenderLeaves DEF Rendered
    <3>2. PICK ix \in Indexes : IndexTrue(ix) /\ index' = ix  BY <1>0, <3>1, PageIndexIs
    <3>3. UNCHANGED output /\ frame' = frame /\ tty' = tty  BY <2>2 DEF Rendered
    <3> QED  BY <1>0, <1>1, <3>1, <3>2, <3>3, StoreSame
  <2>3. ASSUME NEW l \in Lines, OutputEvent(l) PROVE StoreInv'
    <3>1. /\ log' \in Seq(Lines)
          /\ ring' \in [lines : [0 .. MaxLines - 1 -> Lines \cup {Empty}], head : 0 .. MaxLines - 1,
                        count : 0 .. MaxLines]
          /\ RingInv'  BY <1>0, <2>3, OutputKeepsRing
    <3>2. index' \in Indexes /\ IndexTrue(index)'  BY <1>0, <2>3, OutputKeepsIndex
    <3>3. frame' = frame /\ term' = term /\ tty' = tty /\ log' = Append(log, l)
        BY <2>3 DEF OutputEvent, page, terminal
    <3>4. frame' \in 0 .. Len(log')
      <4>1. Len(log') = Len(log) + 1  BY <1>0, <3>3 DEF StoreInv, StoreType
      <4> QED  BY <1>1, <3>3, <4>1
    <3> QED  BY <1>1, <3>1, <3>2, <3>3, <3>4 DEF StoreInv, StoreType
  <2>4. CASE FrameStartEvent
    <3>1. frame' = Len(log) /\ UNCHANGED output /\ index' = index /\ tty' = tty /\ term' = term
        BY <2>4 DEF FrameStartEvent, page, terminal
    <3> QED  BY <1>0, <1>1, <3>1, StoreSame
  <2>5. CASE Resize
    <3>1. tty' \in Sizes /\ UNCHANGED output /\ index' = index /\ frame' = frame /\ term' = term
        BY <2>5 DEF Resize, page, view
    <3> QED  BY <1>0, <1>1, <3>1, StoreSame
  <2>6. ASSUME UNCHANGED output, index' = index, frame' = frame, tty' = tty, term' = term
        PROVE  StoreInv'
    BY <1>0, <1>1, <2>6, StoreSame
  <2>7. ASSUME NEW text, InputEvent(text) PROVE StoreInv'
    BY <2>6, <2>7 DEF InputEvent, page, view
  <2>8. CASE InputBeginEvent  BY <2>6, <2>8 DEF InputBeginEvent, page, view
  <2>9. CASE InputEndEvent  BY <2>6, <2>9 DEF InputEndEvent, page, view, terminal
  <2>10. ASSUME NEW m, ModeEvent(m) PROVE StoreInv'  BY <2>6, <2>10 DEF ModeEvent, terminal
  <2>11. CASE ChurnEvent(~churn)  BY <2>6, <2>11 DEF ChurnEvent, page, view, terminal
  <2>12. CASE ContextChanges  BY <2>6, <2>12 DEF ContextChanges, view, terminal
  <2>13. CASE Nothing  BY <2>6, <2>13 DEF Nothing, page, view, terminal
  <2> QED
      BY <2>1, <2>2, <2>3, <2>4, <2>5, <2>7, <2>8, <2>9, <2>10, <2>11, <2>12, <2>13 DEF Event
<1>3. CASE UNCHANGED vars
  <2>1. UNCHANGED output /\ index' = index /\ frame' = frame /\ tty' = tty /\ term' = term
      BY <1>3 DEF vars, view, page, terminal
  <2> QED  BY <1>0, <1>1, <2>1, StoreSame
<1> QED  BY <1>2, <1>3

\* The ring holds the last lines output, oldest first, with the colour the others left; the
\* cached counts of rows, whichever of kui.c's paths brought them up to date, are the counts of
\* the lines they stand for; and the prompt is typed at only between its begin and its end.
THEOREM StoreCorrect == Spec => []BaseInv
<1>1. Init => BaseInv
  <2> SUFFICES ASSUME Init PROVE BaseInv  OBVIOUS
  <2>0. MaxLines \in Nat \ {0}  BY BoundAssumption
  <2>1. log = << >> /\ base = Plain /\ index = NoIndex /\ frame = 0  BY DEF Init
  <2>2. ring = [lines |-> [i \in 0 .. MaxLines - 1 |-> Empty], head |-> 0, count |-> 0]
    BY DEF Init
  <2>3. input = [active |-> FALSE, text |-> "", last |-> Unknown]  BY DEF Init
  <2>4. term = NoSize /\ tty \in Sizes  BY DEF Init
  <2>5. at = "command" /\ todo = <<"RENDER", "RENDER", "BEGIN", "INPUT">>  BY DEF Init
  <2>6. Len(log) = 0 /\ log \in Seq(Lines)  BY <2>1
  <2>7. Evicted = 0  BY <2>0, <2>6 DEF Evicted, Monus
  <2>8. StoreType
    <3>1. ring \in [lines : [0 .. MaxLines - 1 -> Lines \cup {Empty}], head : 0 .. MaxLines - 1,
                    count : 0 .. MaxLines]
      <4>1. [i \in 0 .. MaxLines - 1 |-> Empty] \in [0 .. MaxLines - 1 -> Lines \cup {Empty}]
          OBVIOUS
      <4>2. 0 \in 0 .. MaxLines - 1 /\ 0 \in 0 .. MaxLines  BY <2>0
      <4> QED  BY <2>2, <4>1, <4>2
    <3>2. index \in Indexes  BY <2>0, <2>1 DEF NoIndex, Indexes
    <3>3. frame \in 0 .. Len(log)  BY <2>1, <2>6
    <3> QED  BY <2>4, <2>6, <3>1, <3>2, <3>3, Zenon DEF StoreType
  <2>9. RingInv
    <3>1. Fed(Plain, SubSeq(log, 1, Evicted)) = Plain
      <4>1. SubSeq(log, 1, Evicted) = << >>  BY <2>1, <2>7
      <4>2. \A lines \in Seq(Lines) : Len(lines) = 0 => Fed(Plain, lines) = Plain
        <5>1. SUFFICES ASSUME NEW lines \in Seq(Lines), Len(lines) = 0
                       PROVE  Fed(Plain, lines) = Plain  OBVIOUS
        <5>2. ~\E i : i \in 1 .. Len(lines)  BY <5>1
        <5> QED  BY <5>2, FedIs
      <4>3. << >> \in Seq(Lines) /\ Len(<< >>) = 0  OBVIOUS
      <4> QED  BY <4>1, <4>2, <4>3, Zenon
    <3>2. ring.count = 0 /\ ring.head = 0  BY <2>2
    <3>3. Minimum(Len(log), MaxLines) = 0  BY <2>0, <2>6 DEF Minimum
    <3>4. \A i \in 0 .. ring.count - 1 : Stored(i) = log[Evicted + i + 1]  BY <3>2
    <3>5. ring.head <= Evicted  BY <2>7, <3>2
    <3> QED  BY <2>1, <3>1, <3>2, <3>3, <3>4, <3>5, Zenon DEF RingInv
  <2>10. InputType
    <3>1. "" \in Texts  BY DEF Texts
    <3> QED  BY <2>3, <3>1 DEF InputType, InputLines
  <2>11. ThreadInv
    <3>1. todo \in BusyTodo  BY <2>5 DEF BusyTodo
    <3>2. todo # <<"INPUT">>
      <4>1. Head(todo) = "RENDER" /\ Head(<<"INPUT">>) = "INPUT"  BY <2>5
      <4> QED  BY <4>1
    <3>3. ~input.active  BY <2>3
    <3>4. at # "prompt"  BY <2>5
    <3> QED  BY <2>5, <3>1, <3>2, <3>3, <3>4, Zenon DEF ThreadInv
  <2> QED  BY <2>1, <2>8, <2>9, <2>10, <2>11, Zenon DEF BaseInv, StoreInv, IndexTrue
<1>2. BaseInv /\ [Next]_vars => BaseInv'
  BY StoreKept, InputKept, ThreadKept DEF BaseInv
<1> QED  BY <1>1, <1>2, PTL DEF Spec

-------------------------------------------------------------------------------
(* The page, for every step.                                               *)

PageType ==
    /\ offset \in Nat /\ maxOff \in Nat /\ churn \in BOOLEAN
    /\ term = NoSize => offset = 0
    /\ small \in BOOLEAN /\ prompt \in Nat
    /\ layout \in [top : Nat, bottom : Nat]
    /\ saved \in Anchors
    /\ banner \in [height : Banners, prev : Nat, cols : Nat]
    /\ screen \in [rows : Nat, cols : Nat, top : Nat, current : Seq(Shown)]
    /\ phys \in Seq(Shown) /\ Len(phys) = tty.rows
    /\ fresh \in BOOLEAN /\ drawn \in BOOLEAN

\* There is a page, of the size last seen.
Up == ~small /\ term # NoSize

\* The parts of the last page, and where the cursor was saved.
LayoutInv ==
    /\ Up => /\ banner.prev \in Banners /\ banner.cols = term.cols
             /\ prompt \in banner.prev + 1 .. term.rows
             /\ layout.top = banner.prev + 1 /\ layout.bottom \in layout.top .. term.rows - 1
             /\ ~(term.rows < MinRows \/ term.cols < MinCols)
    /\ saved.valid => small
    /\ input.active /\ Up => anchor = prompt

\* Where there is room for a page its parts fill the terminal.
LEMMA RoomIs ==
    ASSUME StoreInv, PageType, ~NoRoom
    PROVE  /\ banner.height \in Banners /\ banner.height \in Nat \ {0} /\ tty.rows \in Nat
           /\ Top \in Nat \ {0} /\ High \in Nat \ {0} /\ Bottom \in Top .. tty.rows - 1
           /\ Top <= tty.rows
           /\ High + (IF churn THEN 2 ELSE 1) = tty.rows - Top + 1
<1>1. banner.height \in Banners /\ banner.height \in Nat \ {0} /\ churn \in BOOLEAN
  BY BannerAssumption DEF PageType
<1>2. tty \in Sizes /\ tty.rows \in Nat /\ tty.rows # banner.height + 2
  BY <1>1, BannerAssumption, SizeAssumption DEF StoreInv, StoreType
<1>3. PICK b \in Nat \ {0}, n \in Nat : b = banner.height /\ n = tty.rows  BY <1>1, <1>2
<1>4. ~(b >= n - 1) /\ n # b + 2  BY <1>2, <1>3 DEF NoRoom
<1>5. Top = b + 1 /\ Bottom = n - (IF churn THEN 2 ELSE 1)  BY <1>3 DEF Top, Bottom
<1>6. High = (Bottom - Top) + 1  BY DEF High
<1> HIDE DEF Top, Bottom, High
<1>7. CASE churn  BY <1>1, <1>2, <1>3, <1>4, <1>5, <1>6, <1>7
<1>8. CASE ~churn  BY <1>1, <1>2, <1>3, <1>4, <1>5, <1>6, <1>8
<1> QED  BY <1>1, <1>7, <1>8

\* What a page leaves is a row of the output, or nothing.
LEMMA LeftIs ==
    ASSUME StoreInv, PageType, LayoutInv, NEW off \in Nat
    PROVE  /\ ResizeAnchor(off) \in Anchors /\ PageAnchor(off) \in Anchors
           /\ LeavesView(off) =>
                 /\ Height \in Nat \ {0} /\ Wrap(term.cols) \in Widths
                 /\ ResizeAnchor(off) = AnchorBefore(IndexOf(Wrap(term.cols)), off)
           /\ ~LeavesView(off) => ResizeAnchor(off) = NoAnchor
<1>1. NoAnchor \in Anchors /\ saved \in Anchors  BY DEF NoAnchor, Anchors, PageType
<1>2. ASSUME LeavesView(off)
      PROVE  /\ Height \in Nat \ {0} /\ Wrap(term.cols) \in Widths
             /\ ResizeAnchor(off) = AnchorBefore(IndexOf(Wrap(term.cols)), off)
             /\ ResizeAnchor(off) \in Anchors
  <2>1. ResizeIndex(off) = IndexOf(Wrap(term.cols)) /\ term \in Sizes  BY <1>2, PageIndexIs
  <2>2. Wrap(term.cols) \in Widths  BY <2>1 DEF Widths
  <2>3. Up  BY <1>2 DEF LeavesView, Up
  <2>4. layout.bottom \in layout.top .. term.rows - 1 /\ layout.top \in Nat /\ layout.bottom \in Nat
    <3>1. layout.bottom \in layout.top .. term.rows - 1  BY <2>3 DEF LayoutInv
    <3> QED  BY <3>1 DEF PageType
  <2>5. term.rows \in Nat  BY <2>1, SizeAssumption
  <2>6. Height \in Nat \ {0}  BY <2>4, <2>5 DEF Height
  <2>7. ResizeAnchor(off) = AnchorBefore(IndexOf(Wrap(term.cols)), off)
      BY <1>2, <2>1 DEF ResizeAnchor
  <2>8. AnchorBefore(IndexOf(Wrap(term.cols)), off) \in Anchors  BY <2>2, <2>6, AnchorIs
  <2> QED  BY <2>2, <2>6, <2>7, <2>8
<1>3. ~LeavesView(off) => ResizeAnchor(off) = NoAnchor  BY DEF ResizeAnchor
<1>4. ResizeAnchor(off) \in Anchors  BY <1>1, <1>2, <1>3
<1>5. PageAnchor(off) \in Anchors  BY <1>1, <1>4 DEF PageAnchor
<1> QED  BY <1>2, <1>3, <1>4, <1>5

\* The offset a page aims at: that of its anchor, if it has one.
LEMMA WantedIs ==
    ASSUME StoreInv, PageType, LayoutInv, NEW off \in Nat, ~NoRoom
    PROVE  /\ Wanted(off) \in Nat
           /\ PageAnchor(off).valid /\ ring.count > 0 =>
                 Wanted(off) = AnchorAfter(IndexOf(Wide), High, PageAnchor(off))
           /\ ~(PageAnchor(off).valid /\ ring.count > 0) => Wanted(off) = off
<1>1. High \in Nat  BY RoomIs
<1>2. PICK a \in Anchors : a = PageAnchor(off)  BY LeftIs
<1>3. Wide \in Widths  BY DEF Wide, Widths, StoreInv, StoreType
<1>4. CASE a.valid /\ ring.count > 0
  <2>1. PageIndex(off) = IndexOf(Wide)  BY <1>4, PageIndexIs
  <2>2. Wanted(off) = AnchorAfter(IndexOf(Wide), High, a)  BY <1>2, <1>4, <2>1 DEF Wanted
  <2>3. AnchorAfter(IndexOf(Wide), High, a) \in Nat  BY <1>1, <1>3, <1>4, OffsetIs
  <2> QED  BY <1>2, <1>4, <2>2, <2>3
<1>5. CASE ~(a.valid /\ ring.count > 0)  BY <1>2, <1>5 DEF Wanted
<1> QED  BY <1>4, <1>5

\* What is under the rows of the view, where the prompt is, is blank.
LEMMA PageIs ==
    ASSUME StoreInv, PageType, LayoutInv, NEW off \in Nat, ~NoRoom
    PROVE  /\ PageView(off) = ViewIn(Wide, Wanted(off), High)
           /\ PageView(off).offset \in Nat /\ PageView(off).maxOff \in Nat
           /\ PageView(off).offset = Minimum(Wanted(off), Monus(Len(TrueRows(Wide)), High))
           /\ PageDesired(off) = PageOf(Wide, PageView(off).offset, High, churn)
           /\ PageDesired(off) \in Seq(Known) /\ Len(PageDesired(off)) = tty.rows - Top + 1
           /\ PageRow(off) \in Top .. tty.rows
           /\ PageDesired(off)[PageRow(off) - Top + 1] = Blank
<1> DEFINE shown == PageView(off)
           wanted == Wanted(off)
           total == Len(TrueRows(Wide))
           now == shown.offset
           desired == PageDesired(off)
           under == Minimum(Top + shown.rendered, tty.rows)
<1>1. /\ tty.rows \in Nat /\ Top \in Nat \ {0} /\ High \in Nat \ {0} /\ Top <= tty.rows
      /\ High + (IF churn THEN 2 ELSE 1) = tty.rows - Top + 1 /\ churn \in BOOLEAN
  BY RoomIs DEF PageType
<1>2. wanted \in Nat  BY WantedIs
<1>3. Wide \in Widths  BY DEF Wide, Widths, StoreInv, StoreType
<1>4. total \in Nat  BY <1>3, TrueRowsAre
<1>5. Prefix(PageIndex(off)) = Sums(RowCounts(Late, Wide))  BY PageIndexIs
<1>6. shown = ViewIn(Wide, wanted, High)
  <2>1. ViewOf(Sums(RowCounts(Late, Wide)), wanted, High) = ViewIn(Wide, wanted, High)
      BY <1>3, ViewIs
  <2> QED  BY <1>5, <2>1, Zenon DEF PageView
<1> HIDE DEF wanted, shown
<1>7. /\ now = Minimum(wanted, Monus(total, High)) /\ shown.maxOff = Monus(total, High)
      /\ shown.rendered = Minimum(Monus(total, now), High)
  BY <1>6 DEF ViewIn
<1> HIDE DEF total, now
<1>8. now \in Nat /\ Monus(total, High) \in Nat /\ shown.rendered \in 0 .. High
  BY <1>1, <1>2, <1>4, <1>7 DEF Minimum, Monus
<1>9. desired = PageOf(Wide, now, High, churn)
  <2>1. DesiredRows(Sums(RowCounts(Late, Wide)), ViewIn(Wide, wanted, High), High)
          = Window(TrueRows(Wide),
                   Monus(Len(TrueRows(Wide)), ViewIn(Wide, wanted, High).offset + High), High)
              \o Under(churn)
      BY <1>1, <1>2, DesiredIs DEF Wide
  <2>2. DesiredRows(Sums(RowCounts(Late, Wide)), shown, High)
          = Window(TrueRows(Wide), Monus(Len(TrueRows(Wide)), now + High), High) \o Under(churn)
      BY <1>6, <2>1, Zenon DEF now
  <2>3. desired = DesiredRows(Sums(RowCounts(Late, Wide)), shown, High)
      BY <1>5, Zenon DEF PageDesired, shown
  <2> QED  BY <2>2, <2>3, Zenon DEF PageOf
<1> HIDE DEF desired
<1> DEFINE first == Monus(total, now + High)
<1>10. /\ desired \in Seq(Known) /\ Len(desired) = High + (IF churn THEN 2 ELSE 1)
       /\ \A i \in 1 .. High :
             desired[i] = IF first + i <= total THEN TrueRows(Wide)[first + i].shows ELSE Blank
       /\ churn => desired[High + 2] = Blank
       /\ ~churn => desired[High + 1] = Blank
  <2>1. LET content == PageOf(Wide, now, High, churn)
        IN /\ content \in Seq(Known) /\ Len(content) = High + (IF churn THEN 2 ELSE 1)
           /\ \A i \in 1 .. High :
                content[i] = IF Monus(Len(TrueRows(Wide)), now + High) + i <= Len(TrueRows(Wide))
                             THEN TrueRows(Wide)[Monus(Len(TrueRows(Wide)), now + High) + i].shows
                             ELSE Blank
           /\ churn => content[High + 2] = Blank
           /\ ~churn => content[High + 1] = Blank
    <3>1. High \in Nat /\ churn \in BOOLEAN  BY <1>1
    <3> QED  BY <1>3, <1>8, <3>1, PageOfIs, ZenonT(60)
  <2> QED  BY <1>9, <2>1, Zenon DEF total
<1> HIDE DEF first
<1>11. shown.rendered < High => ~(first + (shown.rendered + 1) <= total)
  BY <1>1, <1>2, <1>4, <1>7, <1>8 DEF Minimum, Monus, first
<1>12. PICK n \in 0 .. High : n = shown.rendered  BY <1>8
<1>13. PageRow(off) = IF churn /\ under >= tty.rows - 1 THEN tty.rows ELSE under
  BY Zenon DEF PageRow, PromptUnder, shown
<1>14. under = Top + n \/ (under = tty.rows /\ Top + n >= tty.rows)
  BY <1>1, <1>12 DEF Minimum
<1> HIDE DEF under
<1>15. PageRow(off) \in Top .. tty.rows /\ desired[PageRow(off) - Top + 1] = Blank
  <2>1. CASE n < High
    <3>1. desired[n + 1] = Blank  BY <1>1, <1>10, <1>11, <1>12, <2>1
    <3>2. CASE churn
      <4>1. under = Top + n  BY <1>1, <1>14, <2>1, <3>2
      <4>2. CASE under >= tty.rows - 1
        <5>1. PageRow(off) = tty.rows /\ tty.rows - Top + 1 = High + 2  BY <1>1, <1>13, <3>2, <4>2
        <5> QED  BY <1>1, <1>10, <3>2, <5>1
      <4>3. CASE ~(under >= tty.rows - 1)
        <5>1. PageRow(off) = Top + n /\ (Top + n) - Top + 1 = n + 1  BY <1>1, <1>13, <4>1, <4>3
        <5> QED  BY <1>1, <2>1, <3>1, <3>2, <5>1
      <4> QED  BY <4>2, <4>3
    <3>3. CASE ~churn
      <4>1. under = Top + n  BY <1>1, <1>14, <2>1, <3>3
      <4>2. PageRow(off) = Top + n /\ (Top + n) - Top + 1 = n + 1  BY <1>1, <1>13, <3>3, <4>1
      <4> QED  BY <1>1, <2>1, <3>1, <3>3, <4>2
    <3>4. PageRow(off) \in Top .. tty.rows /\ desired[PageRow(off) - Top + 1] = Blank
        BY <3>2, <3>3
    <3> QED  BY <3>4
  <2>2. CASE n = High
    <3>1. CASE churn
      <4>1. under = Top + High /\ under >= tty.rows - 1  BY <1>1, <1>14, <2>2, <3>1
      <4>2. PageRow(off) = tty.rows /\ tty.rows - Top + 1 = High + 2  BY <1>1, <1>13, <3>1, <4>1
      <4> QED  BY <1>1, <1>10, <3>1, <4>2
    <3>2. CASE ~churn
      <4>1. under = tty.rows  BY <1>1, <1>14, <2>2, <3>2
      <4>2. PageRow(off) = tty.rows /\ tty.rows - Top + 1 = High + 1  BY <1>1, <1>13, <3>2, <4>1
      <4> QED  BY <1>1, <1>10, <3>2, <4>2
    <3>3. PageRow(off) \in Top .. tty.rows /\ desired[PageRow(off) - Top + 1] = Blank
        BY <3>1, <3>2
    <3> QED  BY <3>3
  <2> QED
    <3>1. n < High \/ n = High  BY <1>1
    <3> QED  BY <2>1, <2>2, <3>1
<1>18. Len(desired) = tty.rows - Top + 1  BY <1>1, <1>10
<1> QED
  BY <1>6, <1>7, <1>8, <1>9, <1>10, <1>15, <1>18, Zenon DEF shown, wanted, total, now, desired

\* The screen's cache is of the terminal as it is.
Cached == Up /\ term = tty /\ screen.rows = tty.rows /\ screen.cols = tty.cols

\* What the caches take the terminal to show, it shows, but for the prompt's row.
CacheInv ==
    /\ Cached =>
         /\ screen.top = banner.prev + 1 /\ Len(screen.current) = tty.rows - screen.top + 1
         /\ \A r \in screen.top .. tty.rows :
               \/ screen.current[r - screen.top + 1] \in {Unknown, phys[r]}
               \/ r = prompt /\ phys[r] # Unknown
    /\ Up /\ term = tty => \A r \in 1 .. banner.prev : phys[r] = BannerRow(r, banner.prev)

\* The banner's rows show the banner, whatever was painted of it before.
LEMMA BannerIs ==
    ASSUME StoreInv, PageType, LayoutInv, CacheInv, ~NoRoom
    PROVE  /\ PageBanner \in Seq(Shown) /\ Len(PageBanner) = tty.rows
           /\ \A r \in 1 .. banner.height : PageBanner[r] = BannerRow(r, banner.height)
           /\ Up /\ term = tty /\ banner.prev = banner.height =>
                 \A r \in Top .. tty.rows : PageBanner[r] = phys[r]
<1> DEFINE p == IF small THEN Rows(tty.rows, Blank) ELSE phys
           prev == IF SizeChanged \/ small THEN 0 ELSE banner.prev
           height == banner.height
<1>1. height \in Nat \ {0} /\ Top \in Nat /\ tty.rows \in Nat /\ Top <= tty.rows  BY RoomIs
<1>2. tty # NoSize
  <2>1. tty \in Sizes /\ tty.rows # 0  BY SizeAssumption DEF StoreInv, StoreType
  <2> QED  BY <2>1 DEF NoSize
<1>3. p \in Seq(Shown) /\ Len(p) = tty.rows
  <2>1. Blank \in Shown  BY ShownAre DEF Known
  <2>2. Rows(tty.rows, Blank) \in Seq(Shown) /\ Len(Rows(tty.rows, Blank)) = tty.rows
      BY <1>1, <2>1, AllAlike
  <2> QED  BY <2>2 DEF PageType
<1>4. PageBanner = BannerOn(p, prev)  BY DEF PageBanner
<1>5. ~SizeChanged /\ ~small => p = phys /\ prev = banner.prev /\ Up /\ term = tty
  BY <1>2 DEF SizeChanged, Up
<1>6. SizeChanged \/ small => prev = 0  OBVIOUS
<1>7. banner.prev \in Nat  BY DEF PageType
<1> HIDE DEF p, prev
<1>8. /\ PageBanner \in Seq(Shown) /\ Len(PageBanner) = tty.rows
      /\ \A r \in 1 .. tty.rows : PageBanner[r] = BannerAt(p, prev, r)
  BY <1>3, <1>4, BannerOnIs
<1>9. ASSUME NEW r \in 1 .. height PROVE PageBanner[r] = BannerRow(r, height)
  <2>1. r \in 1 .. tty.rows
    <3>1. height + 1 <= tty.rows  BY <1>1 DEF Top
    <3> QED  BY <1>1, <3>1
  <2>2. PageBanner[r] = BannerAt(p, prev, r)  BY <1>8, <2>1
  <2>3. CASE banner.cols # tty.cols \/ prev = 0
    <3>1. r <= height  OBVIOUS
    <3>2. BannerAt(p, prev, r) = BannerRow(r, height)  BY <2>3, <3>1 DEF BannerAt
    <3> QED  BY <2>2, <3>2
  <2>4. CASE ~(banner.cols # tty.cols \/ prev = 0)
    <3>1. p = phys /\ prev = banner.prev /\ Up /\ term = tty  BY <1>5, <1>6, <2>4
    <3>2. \A i \in 1 .. prev : phys[i] = BannerRow(i, prev)  BY <3>1 DEF CacheInv
    <3>3. CASE r <= prev
      <4>1. r \in 1 .. prev  BY <1>7, <3>1, <3>3
      <4>2. phys[r] = BannerRow(r, prev)  BY <3>2, <4>1
      <4>3. BannerAt(p, prev, r) = IF BannerRow(r, prev) # BannerRow(r, height)
                                   THEN BannerRow(r, height) ELSE phys[r]
        <5>1. r <= height  OBVIOUS
        <5> QED  BY <2>4, <3>1, <3>3, <5>1, Zenon DEF BannerAt
      <4> QED  BY <2>2, <4>2, <4>3, Zenon
    <3>4. CASE ~(r <= prev)
      <4>1. BannerRow(r, height) # Blank  BY ShownAre
      <4>2. BannerAt(p, prev, r) = IF Blank # BannerRow(r, height)
                                   THEN BannerRow(r, height) ELSE phys[r]
        <5>1. r <= height  OBVIOUS
        <5> QED  BY <2>4, <3>1, <3>4, <5>1, Zenon DEF BannerAt
      <4> QED  BY <2>2, <4>1, <4>2, Zenon
    <3> QED  BY <3>3, <3>4
  <2> QED  BY <2>3, <2>4
<1>10. ASSUME Up, term = tty, banner.prev = height, NEW r \in Top .. tty.rows
       PROVE  PageBanner[r] = phys[r]
  <2>1. banner.cols = tty.cols  BY <1>10 DEF LayoutInv
  <2>2. p = phys /\ prev = height
    <3>1. ~SizeChanged /\ ~small  BY <1>10 DEF SizeChanged, Up
    <3> QED  BY <1>5, <1>10, <3>1
  <2>3. prev # 0  BY <1>1, <2>2
  <2>4. ~(r <= height) /\ r \in 1 .. tty.rows  BY <1>1 DEF Top
  <2>5. BannerAt(p, prev, r) = phys[r]  BY <2>1, <2>2, <2>3, <2>4, Zenon DEF BannerAt
  <2> QED  BY <1>8, <2>4, <2>5
<1> QED  BY <1>8, <1>9, <1>10

\* A row that was not painted over shows what the page wants there, but for a prompt that
\* was there before and is again.
LEMMA PaintedIs ==
    ASSUME StoreInv, PageType, LayoutInv, CacheInv, NEW off \in Nat, ~NoRoom, NEW fault
    PROVE  /\ PagePainted(off, fault) \in Seq(Shown) /\ Len(PagePainted(off, fault)) = tty.rows
           /\ \A r \in 1 .. banner.height :
                 PagePainted(off, fault)[r] = BannerRow(r, banner.height)
           /\ fault = "none" => \A r \in Top .. tty.rows :
                 /\ PagePainted(off, fault)[r] # Unknown
                 /\ \/ PagePainted(off, fault)[r] = PageDesired(off)[r - Top + 1]
                    \/ r = PageRow(off) /\ prompt = r /\ input.active
           /\ fault = "none" /\ Cached /\ banner.prev = banner.height /\ input.active
                /\ prompt = PageRow(off) /\ screen.current[prompt - Top + 1] = Blank =>
                 PagePainted(off, fault)[prompt] = phys[prompt]
<1> DEFINE row == PageRow(off)
           desired == PageDesired(off)
           current == Current(Top, row)
           painted == PagePainted(off, fault)
           n == tty.rows
<1>1. /\ banner.height \in Nat \ {0} /\ n \in Nat /\ Top \in Nat \ {0} /\ Top <= n
      /\ Top = banner.height + 1  BY RoomIs DEF Top
<1>2. /\ PageBanner \in Seq(Shown) /\ Len(PageBanner) = n
      /\ \A r \in 1 .. banner.height : PageBanner[r] = BannerRow(r, banner.height)
      /\ Up /\ term = tty /\ banner.prev = banner.height =>
            \A r \in Top .. n : PageBanner[r] = phys[r]
  BY BannerIs
<1>3. /\ desired \in Seq(Known) /\ Len(desired) = n - Top + 1 /\ row \in Top .. n
      /\ desired[row - Top + 1] = Blank  BY PageIs
<1>4. desired \in Seq(Shown) /\ \A i \in 1 .. Len(desired) : desired[i] # Unknown
  <2>1. Known \subseteq Shown /\ Unknown \notin Known  BY Zenon DEF Known
  <2>2. \A i \in 1 .. Len(desired) : desired[i] \in Known  BY <1>3
  <2>3. \A i \in 1 .. Len(desired) : desired[i] # Unknown  BY <2>1, <2>2, Zenon
  <2>4. desired \in Seq(Shown)  BY <1>3, <2>1
  <2> QED  BY <2>3, <2>4
<1>5. painted = Commit(PageBanner, Top, current, desired, fault)  BY DEF PagePainted
<1>6. \A i \in 1 .. n - Top + 1 :
        \/ current[i] = Unknown
        \/ /\ current[i] = screen.current[i] /\ Cached /\ screen.top = Top
           /\ ~(Moves(row) /\ Top + i - 1 = prompt)
  <2>1. TAKE i \in 1 .. n - Top + 1
  <2> DEFINE valid == /\ ~SizeChanged /\ ~small /\ screen.rows = tty.rows
                      /\ screen.cols = tty.cols /\ screen.top = Top
  <2>2. current[i] = IF valid /\ ~(Moves(row) /\ Top + i - 1 = prompt)
                     THEN screen.current[i] ELSE Unknown  BY DEF Current
  <2>3. valid => Cached /\ screen.top = Top
    <3>1. tty # NoSize
      <4>1. tty \in Sizes /\ tty.rows # 0  BY SizeAssumption DEF StoreInv, StoreType
      <4> QED  BY <4>1 DEF NoSize
    <3> QED  BY <3>1 DEF Cached, Up, SizeChanged
  <2> HIDE DEF valid, current
  <2> QED  BY <2>2, <2>3
<1>7. Cached /\ banner.prev = banner.height => \A i \in 1 .. n - Top + 1 :
        ~(Moves(row) /\ Top + i - 1 = prompt) => current[i] = screen.current[i]
  <2>1. SUFFICES ASSUME Cached, banner.prev = banner.height, NEW i \in 1 .. n - Top + 1,
                        ~(Moves(row) /\ Top + i - 1 = prompt)
                 PROVE  current[i] = screen.current[i]  OBVIOUS
  <2>2. screen.top = Top  BY <1>1, <2>1 DEF CacheInv
  <2>3. /\ ~SizeChanged /\ ~small /\ screen.rows = tty.rows /\ screen.cols = tty.cols
      BY <2>1 DEF Cached, Up, SizeChanged
  <2> QED  BY <2>1, <2>2, <2>3 DEF Current
<1> HIDE DEF row, desired, current, painted
<1>8. /\ painted \in Seq(Shown) /\ Len(painted) = n
      /\ \A r \in 1 .. Top - 1 : painted[r] = PageBanner[r]
      /\ \A r \in Top .. n :
            painted[r] = IF fault # "none" THEN Unknown
                         ELSE IF current[r - Top + 1] = desired[r - Top + 1] THEN PageBanner[r]
                         ELSE desired[r - Top + 1]
  <2>1. Top \in 1 .. Len(PageBanner)  BY <1>1, <1>2
  <2>2. Len(desired) = Len(PageBanner) - Top + 1  BY <1>2, <1>3
  <2>3. Committed(Commit(PageBanner, Top, current, desired, fault),
                  PageBanner, Top, current, desired, fault)
    <3>1. PageBanner \in Seq(Shown) /\ desired \in Seq(Shown)  BY <1>2, <1>4
    <3> QED  BY <2>1, <2>2, <3>1, CommitIs, Zenon
  <2>4. Committed(painted, PageBanner, Top, current, desired, fault)  BY <1>5, <2>3, Zenon
  <2> QED  BY <1>2, <2>4, Zenon DEF Committed
<1>9. \A r \in 1 .. banner.height : painted[r] = BannerRow(r, banner.height)
  <2>1. Top - 1 = banner.height  BY <1>1
  <2> QED  BY <1>2, <1>8, <2>1, Zenon
<1>10. ASSUME fault = "none", NEW r \in Top .. n
       PROVE  /\ painted[r] # Unknown
              /\ painted[r] = desired[r - Top + 1] \/ (r = row /\ prompt = r /\ input.active)
  <2>1. PICK i \in 1 .. n - Top + 1 : i = r - Top + 1 /\ Top + i - 1 = r  BY <1>1
  <2>2. painted[r] = IF current[i] = desired[i] THEN PageBanner[r] ELSE desired[i]
      BY <1>8, <1>10, <2>1
  <2>3. desired[i] # Unknown  BY <1>3, <1>4, <2>1
  <2>4. CASE current[i] # desired[i]  BY <2>1, <2>2, <2>3, <2>4
  <2>5. CASE current[i] = desired[i]
    <3>1. /\ current[i] = screen.current[i] /\ Cached /\ screen.top = Top
          /\ ~(Moves(row) /\ r = prompt)  BY <1>6, <2>1, <2>3, <2>5
    <3>2. /\ screen.top = banner.prev + 1
          /\ \/ screen.current[r - screen.top + 1] \in {Unknown, phys[r]}
             \/ r = prompt /\ phys[r] # Unknown
        BY <3>1 DEF CacheInv
    <3>3. banner.prev = banner.height
      <4>1. banner.prev \in Nat  BY DEF PageType
      <4> QED  BY <1>1, <3>1, <3>2, <4>1
    <3>4. PageBanner[r] = phys[r]  BY <1>2, <3>1, <3>3 DEF Cached
    <3>5. painted[r] = phys[r]  BY <2>2, <2>5, <3>4
    <3>6. CASE screen.current[i] = phys[r]  BY <2>1, <2>3, <2>5, <3>1, <3>5, <3>6
    <3>7. CASE r = prompt /\ phys[r] # Unknown
      <4>1. prompt # 0  BY <1>1, <3>7
      <4>2. r = row /\ input.active  BY <3>1, <3>7, <4>1 DEF Moves
      <4> QED  BY <3>5, <3>7, <4>2
    <3>8. screen.current[i] # Unknown  BY <2>3, <2>5, <3>1
    <3> QED  BY <2>1, <3>1, <3>2, <3>6, <3>7, <3>8
  <2> QED  BY <2>4, <2>5
<1>11. ASSUME fault = "none", Cached, banner.prev = banner.height, input.active, prompt = row,
              screen.current[prompt - Top + 1] = Blank
       PROVE  painted[prompt] = phys[prompt]
  <2>0. row \in Top .. n  BY <1>3
  <2>1. PICK i \in 1 .. n - Top + 1 : i = row - Top + 1 /\ Top + i - 1 = row  BY <1>1, <2>0
  <2>2. ~Moves(row)  BY <1>11 DEF Moves
  <2>3. current[i] = desired[i]  BY <1>3, <1>7, <1>11, <2>1, <2>2
  <2>4. painted[row] = PageBanner[row]  BY <1>3, <1>8, <1>11, <2>1, <2>3
  <2>5. PageBanner[row] = phys[row]  BY <1>2, <1>3, <1>11 DEF Cached
  <2> QED  BY <1>11, <2>4, <2>5
<1> QED  BY <1>8, <1>9, <1>10, <1>11 DEF row, desired, painted

\* The rows under the banner, as they should be.
Content == PageOf(Wrap(term.cols), offset, Height, churn)

\* A page painted without a fault is the page that should be, in the cache and on the terminal.
FreshInv ==
    fresh /\ ~small =>
        /\ Cached /\ banner.prev = banner.height /\ layout.bottom = Bottom
        /\ screen.current = Content
        /\ screen.current[prompt - screen.top + 1] = Blank
        /\ phys[prompt] # Unknown
        /\ input.active \/ phys[prompt] = Blank

\* A prompt that was painted is there as long as its terminal and its line are.
DrawnInv ==
    drawn /\ input.active /\ Up /\ term = tty =>
        /\ Cached /\ banner.prev = banner.height
        /\ screen.current[prompt - screen.top + 1] = Blank
        /\ phys[prompt] = input.last /\ input.last = PromptRow(input.text, tty.cols)

PageInv == PageType /\ LayoutInv /\ CacheInv /\ FreshInv /\ DrawnInv

\* The output is the same as long as its lines and what hides them are.
LEMMA SameRows ==
    ASSUME UNCHANGED <<output, mode, frame>>
    PROVE  /\ log' = log /\ ring' = ring /\ Evicted' = Evicted /\ Hidden' = Hidden
           /\ \A w : TrueRows(w)' = TrueRows(w)
           /\ \A w, n : Above(w, n)' = Above(w, n)
<1>1. log' = log /\ ring' = ring /\ mode' = mode /\ frame' = frame  BY DEF output
<1>2. Evicted' = Evicted  BY <1>1 DEF Evicted
<1>3. Hidden' = Hidden  BY <1>1, <1>2 DEF Hidden
<1>4. \A w : TrueRows(w)' = TrueRows(w)  BY <1>1, <1>3 DEF TrueRows
<1>5. \A w, n : Above(w, n)' = Above(w, n)  BY <1>1 DEF Above
<1> QED  BY <1>1, <1>2, <1>3, <1>4, <1>5

\* The prompt changes its own row only, and only where the cursor is known to be.
LEMMA DrawnOnIs ==
    ASSUME tty \in Sizes, NEW p \in Seq(Shown), NEW in \in InputLines, NEW row
    PROVE  /\ DrawnOn(p, in, row) \in Seq(Shown) /\ Len(DrawnOn(p, in, row)) = Len(p)
           /\ \A r \in 1 .. Len(p) : r # row => DrawnOn(p, in, row)[r] = p[r]
           /\ row \in 1 .. Len(p) =>
                 DrawnOn(p, in, row)[row]
                   = IF Paints(in) /\ p[row] # Unknown THEN PromptRow(in.text, tty.cols) ELSE p[row]
<1>1. PromptRow(in.text, tty.cols) \in Shown
  <2>1. in.text \in Texts  BY DEF InputLines
  <2>2. PromptRow(in.text, tty.cols) \in Known  BY <2>1, ShownAre
  <2> QED  BY <2>2 DEF Known
<1> DEFINE painted == PromptRow(in.text, tty.cols)
<1>2. DOMAIN p = 1 .. Len(p)  OBVIOUS
<1>3. DrawnOn(p, in, row) = IF Paints(in) /\ row \in 1 .. Len(p) /\ p[row] # Unknown
                            THEN [p EXCEPT ![row] = painted] ELSE p  BY <1>2 DEF DrawnOn
<1> HIDE DEF painted
<1>4. row \in 1 .. Len(p) =>
        /\ [p EXCEPT ![row] = painted] \in Seq(Shown)
        /\ Len([p EXCEPT ![row] = painted]) = Len(p)
        /\ [p EXCEPT ![row] = painted][row] = painted
        /\ \A r \in 1 .. Len(p) : r # row => [p EXCEPT ![row] = painted][r] = p[r]
  BY <1>1 DEF painted
<1>5. CASE Paints(in) /\ row \in 1 .. Len(p) /\ p[row] # Unknown
  <2>1. DrawnOn(p, in, row) = [p EXCEPT ![row] = painted]  BY <1>3, <1>5, Zenon
  <2> QED  BY <1>4, <1>5, <2>1, Zenon DEF painted
<1>6. CASE ~(Paints(in) /\ row \in 1 .. Len(p) /\ p[row] # Unknown)
  <2>1. DrawnOn(p, in, row) = p  BY <1>3, <1>6, Zenon
  <2> QED  BY <1>6, <2>1
<1> QED  BY <1>5, <1>6

\* A page that is painted, or that fails on the way.
LEMMA PagePaints ==
    ASSUME BaseInv, PageInv, NEW off \in Nat, NEW chosen, NEW fault \in {"none", "begin", "commit"},
           RenderPage(off, chosen, fault), UNCHANGED <<output, mode, frame, churn, tty>>
    PROVE  PageInv'
<1> DEFINE row == PageRow(off)
           desired == PageDesired(off)
           painted == PagePainted(off, fault)
           in == PageInput(off, fault)
           now == PageView(off).offset
           n == tty.rows
           height == banner.height
<1>1. StoreInv /\ PageType /\ LayoutInv /\ CacheInv /\ FreshInv /\ DrawnInv
      /\ input \in InputLines /\ tty \in Sizes /\ tty # NoSize /\ tty.rows \in Nat
  <2>1. tty \in Sizes  BY DEF BaseInv, StoreInv, StoreType
  <2>2. tty.rows \in Nat \ {0}  BY <2>1, SizeAssumption
  <2>3. tty # NoSize  BY <2>2 DEF NoSize
  <2> QED  BY <2>1, <2>2, <2>3 DEF BaseInv, PageInv, InputType
<1>2. /\ ~NoRoom /\ term' = tty /\ small' = FALSE /\ saved' = (IF small THEN NoAnchor ELSE saved)
      /\ banner' = [banner EXCEPT !.prev = banner.height, !.cols = tty.cols]
      /\ fresh' = (fault = "none") /\ (fault = "begin" => screen.rows # tty.rows)
      /\ tty' = tty /\ churn' = churn
  BY DEF RenderPage
<1>3. /\ offset' = now /\ maxOff' = PageView(off).maxOff
      /\ layout' = [top |-> Top, bottom |-> Bottom] /\ prompt' = row
      /\ screen' = CommittedScreen(Top, desired, fault)
      /\ anchor' = (IF input.active THEN row ELSE anchor)
      /\ input' = (IF input.active THEN Drawn(in) ELSE in)
      /\ phys' = (IF input.active THEN DrawnOn(painted, in, row) ELSE painted)
      /\ drawn' = (fault = "none" /\ (drawn \/ (input.active /\ Paints(in))))
  BY PageDrawn, Zenon DEF Painting
<1>4. /\ height \in Banners /\ height \in Nat \ {0} /\ Top \in Nat \ {0} /\ High \in Nat \ {0}
      /\ Bottom \in Top .. n - 1 /\ Top <= n /\ Top = height + 1
  BY <1>1, <1>2, RoomIs DEF Top
<1>5. /\ now \in Nat /\ PageView(off).maxOff \in Nat
      /\ desired = PageOf(Wide, now, High, churn)
      /\ desired \in Seq(Known) /\ Len(desired) = n - Top + 1
      /\ row \in Top .. n /\ desired[row - Top + 1] = Blank
  BY <1>1, <1>2, PageIs
<1>6. /\ painted \in Seq(Shown) /\ Len(painted) = n
      /\ \A r \in 1 .. height : painted[r] = BannerRow(r, height)
      /\ fault = "none" => \A r \in Top .. n :
            /\ painted[r] # Unknown
            /\ painted[r] = desired[r - Top + 1] \/ (r = row /\ prompt = r /\ input.active)
      /\ fault = "none" /\ Cached /\ banner.prev = height /\ input.active
           /\ prompt = row /\ screen.current[prompt - Top + 1] = Blank =>
            painted[prompt] = phys[prompt]
  BY <1>1, <1>2, PaintedIs
<1>7. /\ in \in InputLines /\ in.active = input.active /\ in.text = input.text
      /\ SizeChanged \/ small \/ Moves(row) => in.last = Unknown
      /\ in.last \in {Unknown, input.last}
  <2>1. in = Dirty(input, \/ SizeChanged \/ small \/ Moves(row)
                          \/ fault = "begin" /\ prompt # 0)  BY DEF PageInput
  <2>2. PICK if : /\ if = (\/ SizeChanged \/ small \/ Moves(row)
                           \/ fault = "begin" /\ prompt # 0)
                  /\ in = Dirty(input, if)  BY <2>1, Zenon
  <2>3. /\ in \in InputLines /\ in.active = input.active /\ in.text = input.text
        /\ in.last = IF if THEN Unknown ELSE input.last
    <3>1. \A c : /\ Dirty(input, c) \in InputLines
                 /\ Dirty(input, c).active = input.active /\ Dirty(input, c).text = input.text
                 /\ Dirty(input, c).last = IF c THEN Unknown ELSE input.last
        BY <1>1, InputsAre
    <3> HIDE DEF in, row
    <3> QED  BY <2>2, <3>1, Zenon
  <2> HIDE DEF in, row
  <2> QED  BY <2>2, <2>3, Zenon
<1> HIDE DEF row, desired, painted, in, now
<1>8. /\ input' \in InputLines /\ input'.active = input.active /\ input'.text = input.text
      /\ input.active => input'.last = PromptRow(input.text, tty.cols)
  BY <1>1, <1>3, <1>7, InputsAre
<1>9. /\ banner' \in [height : Banners, prev : Nat, cols : Nat]
      /\ banner'.prev = height /\ banner'.cols = tty.cols /\ banner'.height = height
  <2>1. banner \in [height : Banners, prev : Nat, cols : Nat]  BY <1>1 DEF PageType
  <2>2. tty.cols \in Nat  BY <1>1, SizeAssumption
  <2> QED  BY <1>2, <1>4, <2>1, <2>2
<1>10. /\ phys' \in Seq(Shown) /\ Len(phys') = n
       /\ \A r \in 1 .. n : r # row => phys'[r] = painted[r]
       /\ phys'[row] = IF input.active /\ Paints(in) /\ painted[row] # Unknown
                       THEN PromptRow(input.text, tty.cols) ELSE painted[row]
  <2>1. row \in 1 .. n  BY <1>4, <1>5
  <2>2. CASE input.active
    <3>1. phys' = DrawnOn(painted, in, row)  BY <1>3, <2>2
    <3>2. \A p \in Seq(Shown), typed \in InputLines : \A x : x \in 1 .. Len(p) =>
            /\ DrawnOn(p, typed, x) \in Seq(Shown) /\ Len(DrawnOn(p, typed, x)) = Len(p)
            /\ \A r \in 1 .. Len(p) : r # x => DrawnOn(p, typed, x)[r] = p[r]
            /\ DrawnOn(p, typed, x)[x]
                  = IF Paints(typed) /\ p[x] # Unknown
                    THEN PromptRow(typed.text, tty.cols) ELSE p[x]
      <4>1. tty \in Sizes  BY <1>1
      <4> TAKE p \in Seq(Shown), typed \in InputLines
      <4>2. TAKE x
      <4>3. HAVE x \in 1 .. Len(p)
      <4> QED  BY <4>1, <4>3, DrawnOnIs, ZenonT(60)
    <3>3. painted \in Seq(Shown) /\ in \in InputLines /\ row \in 1 .. Len(painted)
        BY <1>6, <1>7, <2>1
    <3>4. /\ DrawnOn(painted, in, row) \in Seq(Shown)
          /\ Len(DrawnOn(painted, in, row)) = Len(painted)
          /\ \A r \in 1 .. Len(painted) : r # row => DrawnOn(painted, in, row)[r] = painted[r]
          /\ DrawnOn(painted, in, row)[row]
                = IF Paints(in) /\ painted[row] # Unknown
                  THEN PromptRow(in.text, tty.cols) ELSE painted[row]
        BY <3>2, <3>3, ZenonT(60)
    <3>5. Len(painted) = n /\ in.text = input.text  BY <1>6, <1>7
    <3> QED  BY <2>2, <3>1, <3>4, <3>5, Zenon
  <2>3. CASE ~input.active
    <3>1. phys' = painted  BY <1>3, <2>3
    <3> QED  BY <1>6, <2>3, <3>1
  <2> QED  BY <2>2, <2>3
<1>11. /\ screen' \in [rows : Nat, cols : Nat, top : Nat, current : Seq(Shown)]
       /\ fault = "begin" => screen'.rows = screen.rows
       /\ fault # "begin" => /\ screen'.rows = n /\ screen'.cols = tty.cols /\ screen'.top = Top
                             /\ Len(screen'.current) = n - Top + 1
       /\ fault = "none" => screen'.current = desired
       /\ fault = "commit" => \A i \in 1 .. n - Top + 1 : screen'.current[i] = Unknown
  <2>1. screen \in [rows : Nat, cols : Nat, top : Nat, current : Seq(Shown)]  BY <1>1 DEF PageType
  <2>2. CASE fault = "begin"
    <3>1. Rows(Len(screen.current), Unknown) \in Seq(Shown)
      <4>1. Len(screen.current) \in Nat /\ Unknown \in Shown  BY <2>1, ShownAre
      <4> QED  BY <4>1, AllAlike
    <3>2. Invalidated = [screen EXCEPT !.current = Rows(Len(screen.current), Unknown)]
        BY DEF Invalidated
    <3>3. screen' \in {Invalidated, screen}  BY <1>3, <2>2 DEF CommittedScreen
    <3> QED  BY <2>1, <2>2, <3>1, <3>2, <3>3
  <2>3. CASE fault # "begin"
    <3>1. screen' = [rows |-> n, cols |-> tty.cols, top |-> Top,
                     current |-> IF fault = "none" THEN desired ELSE Rows(Len(desired), Unknown)]
        BY <1>3, <2>3 DEF CommittedScreen
    <3>2. /\ Rows(Len(desired), Unknown) \in Seq(Shown)
          /\ Len(Rows(Len(desired), Unknown)) = Len(desired)
          /\ \A r \in 1 .. Len(desired) : Rows(Len(desired), Unknown)[r] = Unknown
      <4>1. Len(desired) \in Nat /\ Unknown \in Shown  BY <1>5, ShownAre
      <4> QED  BY <4>1, AllAlike
    <3>3. desired \in Seq(Shown)
      <4>1. Known \subseteq Shown  BY DEF Known
      <4> QED  BY <1>5, <4>1
    <3>4. tty.cols \in Nat /\ n \in Nat /\ Top \in Nat  BY <1>1, <1>4, SizeAssumption
    <3> QED  BY <1>5, <2>3, <3>1, <3>2, <3>3, <3>4
  <2> QED  BY <2>2, <2>3
<1>12. Up' /\ term' = tty'  BY <1>1, <1>2 DEF Up
<1>13. Cached' <=> fault # "begin"
  <2>1. Cached' <=> screen'.rows = tty'.rows /\ screen'.cols = tty'.cols  BY <1>12 DEF Cached
  <2> QED  BY <1>2, <1>11, <2>1
<1>14. PageType'
  <2>1. NoAnchor \in Anchors  BY DEF NoAnchor, Anchors
  <2>2. saved' \in Anchors  BY <1>1, <1>2, <2>1 DEF PageType
  <2>3. layout' \in [top : Nat, bottom : Nat]  BY <1>3, <1>4
  <2>4. prompt' \in Nat /\ offset' \in Nat /\ maxOff' \in Nat  BY <1>3, <1>4, <1>5
  <2>5. small' \in BOOLEAN /\ fresh' \in BOOLEAN /\ churn' \in BOOLEAN
      BY <1>1, <1>2 DEF PageType
  <2>6. drawn' \in BOOLEAN  BY <1>3, Zenon
  <2>7. term' # NoSize  BY <1>1, <1>2
  <2>8. Len(phys') = tty'.rows  BY <1>2, <1>10
  <2> QED  BY <1>9, <1>10, <1>11, <2>2, <2>3, <2>4, <2>5, <2>6, <2>7, <2>8, Zenon DEF PageType
<1>15. LayoutInv'
  <2>1. saved'.valid => small'
    <3>1. ~NoAnchor.valid  BY DEF NoAnchor
    <3> QED  BY <1>1, <1>2, <3>1 DEF LayoutInv
  <2>2. layout'.top = Top /\ layout'.bottom = Bottom  BY <1>3
  <2>3. input'.active => anchor' = prompt'  BY <1>3, <1>8
  <2>4. prompt' \in banner'.prev + 1 .. term'.rows  BY <1>2, <1>3, <1>4, <1>5, <1>9
  <2>5. ~(term'.rows < MinRows \/ term'.cols < MinCols)  BY <1>2 DEF RenderPage, TooLow
  <2> QED  BY <1>2, <1>4, <1>9, <2>1, <2>2, <2>3, <2>4, <2>5 DEF LayoutInv
<1>16. fault = "none" => phys'[row] # Unknown
  <2>1. PromptRow(input.text, tty.cols) # Unknown  BY ShownAre
  <2>2. fault = "none" => painted[row] # Unknown  BY <1>5, <1>6
  <2> QED  BY <1>10, <2>1, <2>2
<1>17. CacheInv'
  <2>1. ASSUME Cached', NEW r \in Top .. n
        PROVE  \/ screen'.current[r - Top + 1] \in {Unknown, phys'[r]}
               \/ r = prompt' /\ phys'[r] # Unknown
    <3>1. PICK i \in 1 .. n - Top + 1 : i = r - Top + 1  BY <1>1, <1>4
    <3>2. CASE fault = "commit"  BY <1>11, <3>1, <3>2
    <3>3. CASE fault = "none"
      <4>1. CASE r = row  BY <1>3, <1>16, <3>3, <4>1
      <4>2. CASE r # row
        <5>1. r \in 1 .. n  BY <1>1, <1>4
        <5>2. phys'[r] = painted[r]  BY <1>10, <4>2, <5>1
        <5>3. painted[r] = desired[r - Top + 1]  BY <1>6, <3>3, <4>2
        <5> QED  BY <1>11, <3>3, <5>2, <5>3
      <4> QED  BY <4>1, <4>2
    <3> QED  BY <1>13, <2>1, <3>2, <3>3
  <2>2. Cached' => /\ screen'.top = banner'.prev + 1 /\ screen'.top = Top
                   /\ Len(screen'.current) = n - Top + 1
      BY <1>4, <1>9, <1>11, <1>13
  <2>3. ASSUME NEW r \in 1 .. banner'.prev PROVE phys'[r] = BannerRow(r, banner'.prev)
    <3>1. r \in 1 .. height /\ r \in 1 .. n /\ r # row
      <4>1. r \in 1 .. height /\ row \in Top .. n  BY <1>5, <1>9
      <4> QED  BY <1>1, <1>4, <4>1
    <3>2. phys'[r] = painted[r]  BY <1>10, <3>1
    <3> QED  BY <1>6, <1>9, <3>1, <3>2
  <2> QED  BY <1>2, <2>1, <2>2, <2>3 DEF CacheInv
<1>18. FreshInv'
  <2> SUFFICES ASSUME fault = "none"
               PROVE  /\ Cached' /\ banner'.prev = banner'.height /\ layout'.bottom = Bottom'
                      /\ screen'.current = Content'
                      /\ screen'.current[prompt' - screen'.top + 1] = Blank
                      /\ phys'[prompt'] # Unknown
                      /\ input'.active \/ phys'[prompt'] = Blank
    BY <1>2 DEF FreshInv
  <2>1. Cached' /\ banner'.prev = banner'.height  BY <1>9, <1>13
  <2>2. layout'.bottom = Bottom'
    <3>1. Bottom' = Bottom  BY <1>2 DEF Bottom
    <3> QED  BY <1>3, <3>1
  <2>3. Content' = PageOf(Wide, now, High, churn)
    <3>1. Height' = High
      <4>1. Height' = layout'.bottom - layout'.top + 1  BY DEF Height
      <4> QED  BY <1>3, <4>1 DEF High
    <3>2. log' = log /\ Hidden' = Hidden  BY SameRows
    <3>3. TrueRows(Wrap(term.cols))' = TrueRows(Wide)  BY <1>2, <3>2 DEF TrueRows, Wide
    <3> QED  BY <1>2, <1>3, <3>1, <3>3 DEF Content, PageOf
  <2>4. screen'.current = desired /\ screen'.top = Top  BY <1>11
  <2>5. ~input.active => phys'[row] = Blank
    <3>1. ~input.active => painted[row] = desired[row - Top + 1]  BY <1>5, <1>6
    <3> QED  BY <1>5, <1>10, <3>1
  <2> QED  BY <1>3, <1>5, <1>8, <1>16, <2>1, <2>2, <2>3, <2>4, <2>5
<1>19. DrawnInv'
  <2> SUFFICES ASSUME drawn', input'.active
               PROVE  /\ Cached' /\ banner'.prev = banner'.height
                      /\ screen'.current[prompt' - screen'.top + 1] = Blank
                      /\ phys'[prompt'] = input'.last
                      /\ input'.last = PromptRow(input'.text, tty'.cols)
    BY DEF DrawnInv
  <2>1. fault = "none" /\ input.active /\ (drawn \/ Paints(in))  BY <1>3, <1>8
  <2>2. Cached' /\ banner'.prev = banner'.height  BY <1>9, <1>13, <2>1
  <2>3. screen'.current[prompt' - screen'.top + 1] = Blank  BY <1>3, <1>5, <1>11, <2>1
  <2>4. input'.last = PromptRow(input.text, tty.cols)  BY <1>8, <2>1
  <2>5. phys'[row] = PromptRow(input.text, tty.cols)
    <3>1. CASE Paints(in)  BY <1>5, <1>6, <1>10, <2>1, <3>1
    <3>2. CASE ~Paints(in)
      <4>1. in.last = PromptRow(in.text, tty.cols) /\ drawn  BY <2>1, <3>2 DEF Paints
      <4>2. in.last # Unknown  BY <4>1, ShownAre
      <4>3. ~SizeChanged /\ ~small /\ ~Moves(row)  BY <1>7, <4>2
      <4>4. Up /\ term = tty  BY <1>1, <4>3 DEF Up, SizeChanged
      <4>5. /\ Cached /\ banner.prev = height
            /\ screen.current[prompt - screen.top + 1] = Blank
            /\ phys[prompt] = input.last /\ input.last = PromptRow(input.text, tty.cols)
          BY <1>1, <2>1, <4>1, <4>4 DEF DrawnInv
      <4>6. prompt = row
        <5>1. prompt \in banner.prev + 1 .. term.rows  BY <1>1, <4>4 DEF LayoutInv
        <5>2. prompt # 0  BY <1>4, <4>5, <5>1
        <5> QED  BY <4>3, <5>2 DEF Moves
      <4>7. screen.top = Top  BY <1>1, <1>4, <4>5 DEF CacheInv
      <4>8. painted[prompt] = phys[prompt]  BY <1>6, <2>1, <4>5, <4>6, <4>7
      <4> QED  BY <1>10, <3>2, <4>5, <4>6, <4>8
    <3> QED  BY <3>1, <3>2
  <2> QED  BY <1>2, <1>3, <1>8, <2>2, <2>3, <2>4, <2>5
<1> QED  BY <1>14, <1>15, <1>17, <1>18, <1>19 DEF PageInv

\* What a page is made of stays as long as nothing of it is touched; output, a frame that
\* starts and a progress line only make it out of date.
LEMMA PageStays ==
    ASSUME BaseInv, PageInv, UNCHANGED <<page, terminal, input, drawn>>,
           offset' \in Nat, maxOff' \in Nat, churn' \in BOOLEAN, term = NoSize => offset' = 0,
           \/ fresh' = FALSE
           \/ UNCHANGED <<output, offset, mode, frame, churn, fresh>>
    PROVE  PageInv'
<1>1. /\ UNCHANGED <<term, small, layout, prompt, saved, banner, screen>>
      /\ UNCHANGED <<tty, phys, anchor>> /\ input' = input /\ drawn' = drawn
  BY DEF page, terminal
<1>2. PageType /\ LayoutInv /\ CacheInv /\ FreshInv /\ DrawnInv  BY DEF PageInv
<1>3. Up' = Up /\ Cached' = Cached  BY <1>1 DEF Up, Cached
<1>4. PageType'
  <2>1. fresh' \in BOOLEAN  BY <1>2 DEF PageType
  <2> QED  BY <1>1, <1>2, <2>1 DEF PageType
<1>5. LayoutInv'  BY <1>1, <1>2, <1>3 DEF LayoutInv
<1>6. CacheInv'  BY <1>1, <1>2, <1>3 DEF CacheInv
<1>7. DrawnInv'  BY <1>1, <1>2, <1>3 DEF DrawnInv
<1>8. FreshInv'
  <2>1. CASE fresh' = FALSE  BY <2>1 DEF FreshInv
  <2>2. CASE UNCHANGED <<output, offset, mode, frame, churn, fresh>>
    <3>1. /\ \A w : TrueRows(w)' = TrueRows(w)
          /\ Height' = Height /\ Bottom' = Bottom /\ Wrap(term.cols)' = Wrap(term.cols)
        BY <1>1, <2>2, SameRows DEF Height, Bottom
    <3>2. Content' = Content
      <4>1. TrueRows(Wrap(term.cols))' = TrueRows(Wrap(term.cols))
        <5>1. log' = log /\ Hidden' = Hidden  BY <2>2, SameRows
        <5> QED  BY <1>1, <5>1 DEF TrueRows
      <4> QED  BY <1>1, <2>2, <3>1, <4>1 DEF Content, PageOf
    <3> QED  BY <1>1, <1>2, <1>3, <2>2, <3>1, <3>2 DEF FreshInv
  <2> QED  BY <2>1, <2>2
<1> QED  BY <1>4, <1>5, <1>6, <1>7, <1>8 DEF PageInv

\* A window too small leaves no page to be true of.
LEMMA SmallPaints ==
    ASSUME BaseInv, PageInv, NEW off \in Nat, NEW chosen, RenderSmall(off, chosen),
           UNCHANGED <<output, mode, frame, churn, tty>>
    PROVE  PageInv'
<1>1. StoreInv /\ PageType /\ LayoutInv /\ tty \in Sizes
      /\ tty.rows \in Nat \ {0} /\ tty.cols \in Nat
  <2>1. StoreInv /\ tty \in Sizes  BY DEF BaseInv, StoreInv, StoreType
  <2> QED  BY <2>1, SizeAssumption DEF PageInv
<1>2. /\ term' = tty /\ small' = TRUE /\ prompt' = 0 /\ offset' = off
      /\ layout' = [top |-> 0, bottom |-> 0] /\ screen' = Invalidated
      /\ saved' \in {ResizeAnchor(off), saved}
      /\ maxOff' = maxOff /\ fresh' = fresh /\ drawn' = drawn /\ tty' = tty /\ churn' = churn
  BY DEF RenderSmall
<1>3. tty # NoSize  BY <1>1 DEF NoSize
<1>4. ~Up'  BY <1>2 DEF Up
<1>5. /\ banner' = [banner EXCEPT !.prev = banner.height, !.cols = tty.cols]
         \/ banner' = [banner EXCEPT !.prev = 0, !.cols = 0] \/ banner' = banner
      /\ phys' = phys \/ phys' = <<Notice>> \o Rows(tty.rows - 1, Blank)
  BY Zenon DEF RenderSmall
<1>6. banner' \in [height : Banners, prev : Nat, cols : Nat]
  <2>1. banner \in [height : Banners, prev : Nat, cols : Nat] /\ Banners \subseteq Nat
      BY <1>1, BannerAssumption DEF PageType
  <2>2. /\ [banner EXCEPT !.prev = banner.height, !.cols = tty.cols]
              \in [height : Banners, prev : Nat, cols : Nat]
        /\ [banner EXCEPT !.prev = 0, !.cols = 0] \in [height : Banners, prev : Nat, cols : Nat]
      BY <1>1, <2>1
  <2> QED  BY <1>5, <2>1, <2>2, Zenon
<1>7. phys' \in Seq(Shown) /\ Len(phys') = tty.rows
  <2>1. CASE phys' = phys  BY <1>1, <2>1 DEF PageType
  <2>2. CASE phys' = <<Notice>> \o Rows(tty.rows - 1, Blank)
    <3>1. PICK n \in Nat : n = tty.rows - 1  BY <1>1
    <3>2. Blank \in Shown /\ Notice \in Shown  BY ShownAre DEF Known
    <3>3. Rows(n, Blank) \in Seq(Shown) /\ Len(Rows(n, Blank)) = n  BY <3>2, AllAlike
    <3>4. <<Notice>> \in Seq(Shown) /\ Len(<<Notice>>) = 1  BY <3>2
    <3>5. PICK a \in Seq(Shown), b \in Seq(Shown) :
            a = <<Notice>> /\ b = Rows(n, Blank) /\ Len(a) = 1 /\ Len(b) = n
        BY <3>3, <3>4
    <3>6. a \o b \in Seq(Shown) /\ Len(a \o b) = 1 + n  BY <3>5
    <3>7. phys' = a \o b  BY <2>2, <3>1, <3>5, Zenon
    <3> QED  BY <1>1, <3>1, <3>6, <3>7
  <2> QED  BY <1>5, <2>1, <2>2
<1>8. screen' \in [rows : Nat, cols : Nat, top : Nat, current : Seq(Shown)]
  <2>1. screen \in [rows : Nat, cols : Nat, top : Nat, current : Seq(Shown)]  BY <1>1 DEF PageType
  <2>2. Rows(Len(screen.current), Unknown) \in Seq(Shown)
    <3>1. Len(screen.current) \in Nat /\ Unknown \in Shown  BY <2>1, ShownAre
    <3> QED  BY <3>1, AllAlike
  <2> QED  BY <1>2, <2>1, <2>2 DEF Invalidated
<1>9. saved' \in Anchors  BY <1>1, <1>2, LeftIs DEF PageType
<1>10. PageType'
  <2>1. term' # NoSize /\ layout' \in [top : Nat, bottom : Nat]  BY <1>2, <1>3
  <2> QED  BY <1>1, <1>2, <1>6, <1>7, <1>8, <1>9, <2>1 DEF PageType
<1>11. LayoutInv'  BY <1>2, <1>4 DEF LayoutInv
<1>12. ~Cached'  BY <1>4 DEF Cached
<1>13. CacheInv'  BY <1>4, <1>12 DEF CacheInv
<1>14. FreshInv' /\ DrawnInv'  BY <1>2, <1>4 DEF FreshInv, DrawnInv
<1> QED  BY <1>10, <1>11, <1>13, <1>14 DEF PageInv

\* The prompt as it is typed: painted where the last page put it, or nowhere.
LEMMA PromptPaints ==
    ASSUME BaseInv, PageInv, NEW text \in Texts, InputEvent(text)
    PROVE  PageInv'
<1> DEFINE in == [input EXCEPT !.text = text]
           draws == input.active /\ ~small
<1>1. /\ StoreInv /\ PageType /\ LayoutInv /\ CacheInv /\ FreshInv /\ DrawnInv
      /\ tty \in Sizes /\ tty.rows \in Nat /\ input \in InputLines
  <2>1. StoreInv /\ tty \in Sizes  BY DEF BaseInv, StoreInv, StoreType
  <2> QED  BY <2>1, SizeAssumption DEF PageInv, BaseInv, InputType
<1>2. /\ input' = IF draws THEN Drawn(in) ELSE in
      /\ phys' = IF draws THEN DrawnOn(phys, in, anchor) ELSE phys
      /\ drawn' = (drawn \/ (draws /\ fresh /\ Paints(in)))
      /\ UNCHANGED <<term, small, layout, prompt, saved, banner, screen>>
      /\ UNCHANGED <<output, offset, maxOff, mode, frame, churn, tty, anchor, fresh>>
  BY DEF InputEvent, page, view
<1>3. /\ in \in InputLines /\ in.active = input.active /\ in.text = text
      /\ in.last = input.last
  BY <1>1 DEF InputLines
<1> HIDE DEF in
<1>4. /\ input' \in InputLines /\ input'.active = input.active /\ input'.text = text
      /\ draws => input'.last = PromptRow(text, tty.cols)
  BY <1>1, <1>2, <1>3, InputsAre
<1>5. /\ DrawnOn(phys, in, anchor) \in Seq(Shown) /\ Len(DrawnOn(phys, in, anchor)) = Len(phys)
      /\ \A r \in 1 .. Len(phys) : r # anchor => DrawnOn(phys, in, anchor)[r] = phys[r]
      /\ anchor \in 1 .. Len(phys) =>
            DrawnOn(phys, in, anchor)[anchor]
              = IF Paints(in) /\ phys[anchor] # Unknown THEN PromptRow(in.text, tty.cols)
                ELSE phys[anchor]
  <2>1. phys \in Seq(Shown) /\ tty \in Sizes  BY <1>1 DEF PageType
  <2> QED  BY <1>3, <2>1, DrawnOnIs, Zenon
<1>6. Up' = Up /\ (Up => draws \/ ~input.active)  BY <1>2 DEF Up
<1>7. Cached' = Cached
  BY <1>2, <1>6 DEF Cached
<1>8. /\ phys' \in Seq(Shown) /\ Len(phys') = tty.rows
      /\ \A r \in 1 .. tty.rows : r # prompt /\ Up => phys'[r] = phys[r]
      /\ \A r \in 1 .. tty.rows : phys[r] # Unknown => phys'[r] # Unknown
      /\ ~input.active => phys' = phys
      /\ Up /\ input.active /\ prompt \in 1 .. tty.rows =>
           phys'[prompt] = IF Paints(in) /\ phys[prompt] # Unknown THEN PromptRow(text, tty.cols)
                           ELSE phys[prompt]
  <2>1. phys \in Seq(Shown) /\ Len(phys) = tty.rows  BY <1>1 DEF PageType
  <2>2. CASE draws
    <3>1. phys' = DrawnOn(phys, in, anchor)  BY <1>2, <2>2
    <3>2. Up => anchor = prompt  BY <1>1, <2>2 DEF LayoutInv
    <3>3. PromptRow(in.text, tty.cols) # Unknown  BY ShownAre
    <3>4. \A r \in 1 .. tty.rows : phys[r] # Unknown => phys'[r] # Unknown
      <4>1. TAKE r \in 1 .. tty.rows
      <4>2. CASE r = anchor  BY <1>5, <2>1, <3>1, <3>3, <4>2
      <4>3. CASE r # anchor  BY <1>5, <2>1, <3>1, <4>3
      <4> QED  BY <4>2, <4>3
    <3>5. \A r \in 1 .. tty.rows : r # prompt /\ Up => phys'[r] = phys[r]
        BY <1>5, <2>1, <3>1, <3>2
    <3>6. Up /\ prompt \in 1 .. tty.rows =>
           phys'[prompt] = IF Paints(in) /\ phys[prompt] # Unknown THEN PromptRow(text, tty.cols)
                           ELSE phys[prompt]
        BY <1>3, <1>5, <2>1, <3>1, <3>2, Zenon
    <3>7. phys' \in Seq(Shown) /\ Len(phys') = tty.rows  BY <1>5, <2>1, <3>1
    <3> QED  BY <2>2, <3>4, <3>5, <3>6, <3>7
  <2>3. CASE ~draws
    <3>1. phys' = phys /\ (Up => ~input.active)  BY <1>2, <1>6, <2>3
    <3> QED  BY <2>1, <3>1
  <2> QED  BY <2>2, <2>3
<1> HIDE DEF draws
<1>9. PageType'
  <2>1. drawn' \in BOOLEAN  BY <1>2, Zenon
  <2>2. Len(phys') = tty'.rows  BY <1>2, <1>8
  <2> QED  BY <1>1, <1>2, <1>8, <2>1, <2>2 DEF PageType
<1>10. LayoutInv'  BY <1>1, <1>2, <1>4, <1>6 DEF LayoutInv
<1>11. /\ Up /\ term = tty => prompt \in 1 .. tty.rows /\ prompt \in banner.prev + 1 .. tty.rows
       /\ Up => banner.prev \in Nat \ {0}
  <2>1. Up => banner.prev \in Nat \ {0}  BY <1>1, BannerAssumption DEF LayoutInv
  <2>2. Up => prompt \in banner.prev + 1 .. term.rows  BY <1>1 DEF LayoutInv
  <2> QED  BY <1>1, <2>1, <2>2
<1>12. CacheInv'
  <2>1. ASSUME Cached, NEW r \in screen.top .. tty.rows
        PROVE  \/ screen.current[r - screen.top + 1] \in {Unknown, phys'[r]}
               \/ r = prompt /\ phys'[r] # Unknown
    <3>1. Up /\ term = tty /\ screen.top = banner.prev + 1  BY <1>1, <2>1 DEF Cached, CacheInv
    <3>2. r \in 1 .. tty.rows  BY <1>1, <1>11, <3>1
    <3>3. \/ screen.current[r - screen.top + 1] \in {Unknown, phys[r]}
          \/ r = prompt /\ phys[r] # Unknown
        BY <1>1, <2>1 DEF CacheInv
    <3>4. CASE r # prompt
      <4>1. phys'[r] = phys[r]  BY <1>8, <3>1, <3>2, <3>4
      <4> QED  BY <3>3, <3>4, <4>1
    <3>5. CASE r = prompt
      <4>1. CASE screen.current[r - screen.top + 1] = Unknown  BY <4>1
      <4>2. CASE phys[r] # Unknown  BY <1>8, <3>2, <3>5, <4>2
      <4>3. CASE phys[r] = Unknown /\ screen.current[r - screen.top + 1] = phys[r]  BY <4>3
      <4> QED  BY <3>3, <4>1, <4>2, <4>3
    <3> QED  BY <3>4, <3>5
  <2>2. ASSUME Up, term = tty, NEW r \in 1 .. banner.prev
        PROVE  phys'[r] = BannerRow(r, banner.prev)
    <3>1. r \in 1 .. tty.rows /\ r # prompt
      <4>1. banner.prev \in Nat \ {0} /\ prompt \in banner.prev + 1 .. tty.rows  BY <1>11, <2>2
      <4> QED  BY <1>1, <4>1
    <3>2. phys[r] = BannerRow(r, banner.prev)  BY <1>1, <2>2 DEF CacheInv
    <3> QED  BY <1>8, <2>2, <3>1, <3>2
  <2>3. Cached => /\ screen.top = banner.prev + 1
                  /\ Len(screen.current) = tty.rows - screen.top + 1
      BY <1>1 DEF CacheInv
  <2> QED  BY <1>2, <1>6, <1>7, <2>1, <2>2, <2>3 DEF CacheInv
<1>13. FreshInv'
  <2> SUFFICES ASSUME fresh, ~small
               PROVE  /\ Cached' /\ banner'.prev = banner'.height /\ layout'.bottom = Bottom'
                      /\ screen'.current = Content'
                      /\ screen'.current[prompt' - screen'.top + 1] = Blank
                      /\ phys'[prompt'] # Unknown
                      /\ input'.active \/ phys'[prompt'] = Blank
    BY <1>2 DEF FreshInv
  <2>1. /\ Cached /\ banner.prev = banner.height /\ layout.bottom = Bottom
        /\ screen.current = Content
        /\ screen.current[prompt - screen.top + 1] = Blank
        /\ phys[prompt] # Unknown
        /\ input.active \/ phys[prompt] = Blank
      BY <1>1 DEF FreshInv
  <2>2. Bottom' = Bottom /\ Height' = Height  BY <1>2 DEF Bottom, Height
  <2>3. Content' = Content
    <3>1. log' = log /\ Hidden' = Hidden  BY <1>2, SameRows
    <3>2. TrueRows(Wrap(term.cols))' = TrueRows(Wrap(term.cols))  BY <1>2, <3>1 DEF TrueRows
    <3> QED  BY <1>2, <2>2, <3>2 DEF Content, PageOf
  <2>4. prompt \in 1 .. tty.rows  BY <1>11, <2>1 DEF Cached
  <2>5. phys'[prompt] # Unknown /\ (~input.active => phys'[prompt] = phys[prompt])
      BY <1>8, <2>1, <2>4
  <2> QED  BY <1>2, <1>4, <1>7, <2>1, <2>2, <2>3, <2>5
<1>14. DrawnInv'
  <2> SUFFICES ASSUME drawn', input'.active, Up', term' = tty'
               PROVE  /\ Cached' /\ banner'.prev = banner'.height
                      /\ screen'.current[prompt' - screen'.top + 1] = Blank
                      /\ phys'[prompt'] = input'.last
                      /\ input'.last = PromptRow(input'.text, tty'.cols)
    BY DEF DrawnInv
  <2>1. Up /\ term = tty /\ input.active /\ draws  BY <1>2, <1>4, <1>6
  <2>2. prompt \in 1 .. tty.rows  BY <1>11, <2>1
  <2>3. input'.last = PromptRow(text, tty.cols)  BY <1>4, <2>1
  <2>4. phys'[prompt] = IF Paints(in) /\ phys[prompt] # Unknown THEN PromptRow(text, tty.cols)
                        ELSE phys[prompt]
      BY <1>8, <2>1, <2>2
  <2>5. CASE drawn
    <3>1. /\ Cached /\ banner.prev = banner.height
          /\ screen.current[prompt - screen.top + 1] = Blank
          /\ phys[prompt] = input.last /\ input.last = PromptRow(input.text, tty.cols)
        BY <1>1, <2>1, <2>5 DEF DrawnInv
    <3>2. phys[prompt] # Unknown  BY <3>1, ShownAre
    <3>3. phys'[prompt] = PromptRow(text, tty.cols)
      <4>1. CASE Paints(in)  BY <2>4, <3>2, <4>1
      <4>2. CASE ~Paints(in)
        <5>1. in.last = PromptRow(text, tty.cols)  BY <1>3, <4>2 DEF Paints
        <5> QED  BY <1>3, <2>4, <3>1, <4>2, <5>1
      <4> QED  BY <4>1, <4>2
    <3> QED  BY <1>2, <1>4, <1>7, <2>3, <3>1, <3>3
  <2>6. CASE ~drawn
    <3>1. fresh /\ Paints(in) /\ ~small  BY <1>2, <2>6 DEF draws
    <3>2. /\ Cached /\ banner.prev = banner.height
          /\ screen.current[prompt - screen.top + 1] = Blank /\ phys[prompt] # Unknown
        BY <1>1, <3>1 DEF FreshInv
    <3>3. phys'[prompt] = PromptRow(text, tty.cols)  BY <2>4, <3>1, <3>2
    <3> QED  BY <1>2, <1>4, <1>7, <2>3, <3>2, <3>3
  <2> QED  BY <2>5, <2>6
<1> QED  BY <1>9, <1>10, <1>12, <1>13, <1>14 DEF PageInv

\* Every step leaves the page as the caches say.
LEMMA PageKept ==
    ASSUME BaseInv, BaseInv', PageInv, [Next]_vars
    PROVE  PageInv'
<1>1. /\ StoreInv /\ PageType /\ LayoutInv /\ CacheInv /\ FreshInv /\ DrawnInv
      /\ tty \in Sizes /\ tty.rows \in Nat /\ input \in InputLines
      /\ term \in Sizes \cup {NoSize} /\ Len(log) \in Nat
  <2>1. StoreInv /\ tty \in Sizes /\ term \in Sizes \cup {NoSize} /\ Len(log) \in Nat
      BY DEF BaseInv, StoreInv, StoreType
  <2> QED  BY <2>1, SizeAssumption DEF PageInv, BaseInv, InputType
<1>2. CASE Next
  <2>1. Event  BY <1>2, NextIs
  <2>2. ASSUME NEW off, NEW chosen, Rendered(off, chosen) PROVE PageInv'
    <3>1. PICK o \in Nat : o = off /\ Render(o, chosen)  BY <1>1, <2>2 DEF Rendered, PageType
    <3>2. UNCHANGED <<output, mode, frame, churn, tty>>  BY <2>2 DEF Rendered
    <3>3. CASE RenderSmall(o, chosen)  BY <3>2, <3>3, SmallPaints
    <3>4. CASE \E fault \in {"none", "begin", "commit"} : RenderPage(o, chosen, fault)
        BY <3>2, <3>4, PagePaints
    <3> QED  BY <3>1, <3>3, <3>4 DEF Render
  <2>3. ASSUME NEW l \in Lines, OutputEvent(l) PROVE PageInv'
    <3>1. /\ UNCHANGED <<page, terminal, input, drawn>> /\ fresh' = FALSE
          /\ maxOff' = maxOff /\ churn' = churn
          /\ offset' = IF offset > 0 THEN offset + Len(Starts[l][Wrap(term.cols)]) ELSE offset
        BY <2>3 DEF OutputEvent
    <3>2. offset' \in Nat /\ (term = NoSize => offset' = 0)
      <4>1. offset \in Nat /\ (term = NoSize => offset = 0)  BY <1>1 DEF PageType
      <4>2. CASE offset = 0  BY <3>1, <4>1, <4>2
      <4>3. CASE offset # 0
        <5>1. term # NoSize /\ term \in Sizes  BY <1>1, <4>1, <4>3
        <5>2. Wrap(term.cols) \in Widths  BY <5>1 DEF Widths
        <5>3. Len(Starts[l][Wrap(term.cols)]) \in Nat  BY <5>2, StartsAre
        <5> QED  BY <3>1, <4>1, <5>1, <5>3
      <4> QED  BY <4>2, <4>3
    <3>3. maxOff' \in Nat /\ churn' \in BOOLEAN  BY <1>1, <3>1 DEF PageType
    <3> QED  BY <3>1, <3>2, <3>3, PageStays
  <2>4. ASSUME NEW text \in Texts, InputEvent(text) PROVE PageInv'  BY <2>4, PromptPaints
  <2>5. CASE InputBeginEvent
    <3>1. /\ UNCHANGED <<output, view, mode, frame, churn, page, tty, phys, fresh>>
          /\ anchor' = (IF small THEN anchor ELSE prompt) /\ drawn' = FALSE
          /\ input' = Dirty([input EXCEPT !.active = TRUE], TRUE)
        BY <2>5 DEF InputBeginEvent
    <3>2. input'.active  BY <1>1, <3>1 DEF Dirty, InputLines
    <3>3. UNCHANGED <<term, small, layout, prompt, saved, banner, screen, offset, maxOff>>
        BY <3>1 DEF page, view
    <3>4. Up' = Up /\ Cached' = Cached  BY <3>1, <3>3 DEF Up, Cached
    <3>5. PageType'  BY <1>1, <3>1, <3>3 DEF PageType
    <3>6. LayoutInv'
      <4>1. Up => anchor' = prompt  BY <3>1 DEF Up
      <4> QED  BY <1>1, <3>3, <3>4, <4>1 DEF LayoutInv
    <3>7. CacheInv'  BY <1>1, <3>1, <3>3, <3>4 DEF CacheInv
    <3>8. FreshInv'
      <4>1. Bottom' = Bottom /\ Height' = Height  BY <3>1, <3>3 DEF Bottom, Height
      <4>2. Content' = Content
        <5>1. log' = log /\ Hidden' = Hidden  BY <3>1, SameRows
        <5>2. TrueRows(Wrap(term.cols))' = TrueRows(Wrap(term.cols))
            BY <3>3, <5>1 DEF TrueRows
        <5> QED  BY <3>1, <3>3, <4>1, <5>2 DEF Content, PageOf
      <4> QED  BY <1>1, <3>1, <3>2, <3>3, <3>4, <4>1, <4>2 DEF FreshInv
    <3>9. DrawnInv'  BY <3>1 DEF DrawnInv
    <3> QED  BY <3>5, <3>6, <3>7, <3>8, <3>9 DEF PageInv
  <2>6. CASE InputEndEvent
    <3>1. /\ UNCHANGED <<output, view, mode, frame, churn, page, terminal, drawn>>
          /\ fresh' = FALSE
          /\ input' = Dirty([input EXCEPT !.active = FALSE], TRUE)
        BY <2>6 DEF InputEndEvent
    <3>2. ~input'.active  BY <1>1, <3>1 DEF Dirty, InputLines
    <3>3. UNCHANGED <<term, small, layout, prompt, saved, banner, screen, offset, maxOff>>
          /\ UNCHANGED <<tty, phys, anchor>>
        BY <3>1 DEF page, view, terminal
    <3>4. Up' = Up /\ Cached' = Cached  BY <3>3 DEF Up, Cached
    <3>5. PageType'  BY <1>1, <3>1, <3>3 DEF PageType
    <3>6. LayoutInv'  BY <1>1, <3>2, <3>3, <3>4 DEF LayoutInv
    <3>7. CacheInv'  BY <1>1, <3>3, <3>4 DEF CacheInv
    <3>8. FreshInv' /\ DrawnInv'  BY <3>1, <3>2 DEF FreshInv, DrawnInv
    <3> QED  BY <3>5, <3>6, <3>7, <3>8 DEF PageInv
  <2>7. CASE FrameStartEvent
    <3>1. /\ UNCHANGED <<page, terminal, input, drawn>> /\ fresh' = FALSE
          /\ offset' = 0 /\ maxOff' = maxOff /\ churn' = churn
        BY <2>7 DEF FrameStartEvent
    <3>2. maxOff' \in Nat /\ churn' \in BOOLEAN /\ offset' \in Nat  BY <1>1, <3>1 DEF PageType
    <3> QED  BY <3>1, <3>2, PageStays
  <2>8. ASSUME NEW m, InCommand /\ ModeEvent(m) PROVE PageInv'
    <3>1. /\ UNCHANGED <<churn, input, term, small, layout, prompt, saved, banner, drawn>>
          /\ UNCHANGED <<tty, phys, anchor>>
          /\ offset' = 0 /\ maxOff' = 0 /\ screen' = Invalidated /\ fresh' = FALSE
        BY <2>8 DEF ModeEvent, terminal
    <3>2. ~input.active
      <4>1. at = "command" /\ todo = << >> /\ "command" # "prompt"  BY <2>8 DEF InCommand
      <4>2. todo # <<"INPUT">>  BY <4>1
      <4> QED  BY <4>1, <4>2, Zenon DEF BaseInv, ThreadInv
    <3>3. screen \in [rows : Nat, cols : Nat, top : Nat, current : Seq(Shown)]  BY <1>1 DEF PageType
    <3>4. PICK n \in Nat : n = Len(screen.current)  BY <3>3
    <3>5. /\ Rows(n, Unknown) \in Seq(Shown) /\ Len(Rows(n, Unknown)) = n
          /\ \A r \in 1 .. n : Rows(n, Unknown)[r] = Unknown
      <4>1. Unknown \in Shown  BY ShownAre
      <4> QED  BY <4>1, AllAlike
    <3>6. /\ screen' = [screen EXCEPT !.current = Rows(n, Unknown)]
          /\ screen' \in [rows : Nat, cols : Nat, top : Nat, current : Seq(Shown)]
          /\ screen'.rows = screen.rows /\ screen'.cols = screen.cols
          /\ screen'.top = screen.top /\ screen'.current = Rows(n, Unknown)
        BY <3>1, <3>3, <3>4, <3>5 DEF Invalidated
    <3>7. Up' = Up /\ Cached' = Cached  BY <3>1, <3>6 DEF Up, Cached
    <3>8. PageType'  BY <1>1, <3>1, <3>6 DEF PageType
    <3>9. LayoutInv'  BY <1>1, <3>1, <3>7 DEF LayoutInv
    <3>10. CacheInv'
      <4>1. ASSUME Cached, NEW r \in screen.top .. tty.rows
            PROVE  \/ screen'.current[r - screen.top + 1] \in {Unknown, phys[r]}
                   \/ r = prompt /\ phys[r] # Unknown
        <5>1. n = tty.rows - screen.top + 1  BY <1>1, <3>4, <4>1 DEF CacheInv
        <5>2. r - screen.top + 1 \in 1 .. n  BY <1>1, <3>3, <5>1, SMTT(30)
        <5>3. screen'.current[r - screen.top + 1] = Unknown  BY <3>5, <3>6, <5>2
        <5> QED  BY <5>3
      <4>2. Cached => /\ screen.top = banner.prev + 1
                      /\ Len(screen'.current) = tty.rows - screen.top + 1
        <5>1. Cached => screen.top = banner.prev + 1 /\ n = tty.rows - screen.top + 1
            BY <1>1, <3>4 DEF CacheInv
        <5>2. Len(screen'.current) = n  BY <3>5, <3>6
        <5> QED  BY <5>1, <5>2
      <4>3. Up /\ term = tty => \A r \in 1 .. banner.prev : phys[r] = BannerRow(r, banner.prev)
          BY <1>1 DEF CacheInv
      <4> QED  BY <3>1, <3>6, <3>7, <4>1, <4>2, <4>3 DEF CacheInv
    <3>11. FreshInv' /\ DrawnInv'  BY <3>1, <3>2 DEF FreshInv, DrawnInv
    <3> QED  BY <3>8, <3>9, <3>10, <3>11 DEF PageInv
  <2>9. CASE ChurnEvent(~churn)
    <3>1. /\ UNCHANGED <<page, terminal, input, drawn>> /\ fresh' = FALSE
          /\ offset' = offset /\ maxOff' = maxOff /\ churn' = ~churn
        BY <2>9 DEF ChurnEvent, view
    <3>2. /\ maxOff' \in Nat /\ offset' \in Nat /\ churn' \in BOOLEAN
          /\ (term = NoSize => offset' = 0)  BY <1>1, <3>1 DEF PageType
    <3> QED  BY <3>1, <3>2, PageStays
  <2>10. CASE ContextChanges
    <3>1. /\ InCommand /\ fresh' = FALSE
          /\ \E b \in Banners \ {banner.height} : banner' = [banner EXCEPT !.height = b]
          /\ UNCHANGED <<output, view, mode, frame, churn, input, term, small, layout, prompt,
                         saved, screen, terminal, drawn>>
        BY <2>10 DEF ContextChanges
    <3>2. ~input.active
      <4>1. at = "command" /\ todo = << >> /\ "command" # "prompt"  BY <3>1 DEF InCommand
      <4>2. todo # <<"INPUT">>  BY <4>1
      <4> QED  BY <4>1, <4>2, Zenon DEF BaseInv, ThreadInv
    <3>3. /\ banner' \in [height : Banners, prev : Nat, cols : Nat]
          /\ banner'.prev = banner.prev /\ banner'.cols = banner.cols
      <4>1. banner \in [height : Banners, prev : Nat, cols : Nat]  BY <1>1 DEF PageType
      <4>2. PICK b \in Banners : banner' = [banner EXCEPT !.height = b]  BY <3>1
      <4> QED  BY <4>1, <4>2
    <3>4. UNCHANGED <<offset, maxOff, tty, phys, anchor>>  BY <3>1 DEF view, terminal
    <3>5. Up' = Up /\ Cached' = Cached  BY <3>1, <3>4 DEF Up, Cached
    <3>6. PageType'  BY <1>1, <3>1, <3>3, <3>4 DEF PageType
    <3>7. LayoutInv'  BY <1>1, <3>1, <3>3, <3>4, <3>5 DEF LayoutInv
    <3>8. CacheInv'  BY <1>1, <3>1, <3>3, <3>4, <3>5 DEF CacheInv
    <3>9. FreshInv' /\ DrawnInv'  BY <3>1, <3>2 DEF FreshInv, DrawnInv
    <3> QED  BY <3>6, <3>7, <3>8, <3>9 DEF PageInv
  <2>11. CASE Resize
    <3>1. /\ tty = term /\ tty' \in Sizes \ {tty} /\ phys' = Rows(tty'.rows, Unknown)
          /\ fresh' = FALSE
          /\ UNCHANGED <<output, view, mode, frame, churn, input, page, anchor, drawn>>
        BY <2>11 DEF Resize
    <3>2. UNCHANGED <<offset, maxOff, term, small, layout, prompt, saved, banner, screen>>
        BY <3>1 DEF view, page
    <3>3. term' # tty' /\ Up' = Up  BY <3>1, <3>2 DEF Up
    <3>4. phys' \in Seq(Shown) /\ Len(phys') = tty'.rows
      <4>1. PICK n \in Nat : n = tty'.rows  BY <3>1, SizeAssumption
      <4>2. Unknown \in Shown  BY ShownAre
      <4>3. Rows(n, Unknown) \in Seq(Shown) /\ Len(Rows(n, Unknown)) = n  BY <4>2, AllAlike
      <4> QED  BY <3>1, <4>1, <4>3
    <3>5. PageType'  BY <1>1, <3>1, <3>2, <3>4 DEF PageType
    <3>6. LayoutInv'  BY <1>1, <3>1, <3>2, <3>3 DEF LayoutInv
    <3>7. CacheInv'  BY <3>3 DEF CacheInv, Cached
    <3>8. FreshInv' /\ DrawnInv'  BY <3>1, <3>3 DEF FreshInv, DrawnInv
    <3> QED  BY <3>5, <3>6, <3>7, <3>8 DEF PageInv
  <2>12. CASE Nothing
    <3>1. /\ UNCHANGED <<page, terminal, input, drawn>>
          /\ UNCHANGED <<output, offset, maxOff, mode, frame, churn, fresh>>
        BY <2>12 DEF Nothing, view, history
    <3>2. /\ maxOff' \in Nat /\ offset' \in Nat /\ churn' \in BOOLEAN
          /\ (term = NoSize => offset' = 0)  BY <1>1, <3>1 DEF PageType
    <3> QED  BY <3>1, <3>2, PageStays
  <2> QED
      BY <2>1, <2>2, <2>3, <2>4, <2>5, <2>6, <2>7, <2>8, <2>9, <2>10, <2>11, <2>12, Zenon DEF Event
<1>3. CASE UNCHANGED vars
  <2>1. /\ UNCHANGED <<page, terminal, input, drawn>>
        /\ UNCHANGED <<output, offset, maxOff, mode, frame, churn, fresh>>
      BY <1>3 DEF vars, view, history
  <2>2. /\ maxOff' \in Nat /\ offset' \in Nat /\ churn' \in BOOLEAN
        /\ (term = NoSize => offset' = 0)  BY <1>1, <2>1 DEF PageType
  <2> QED  BY <2>1, <2>2, PageStays
<1> QED  BY <1>2, <1>3

\* Before the first page nothing is taken for shown.
LEMMA PageBegins == Init => PageInv
<1> SUFFICES ASSUME Init PROVE PageInv  OBVIOUS
<1>1. /\ offset = 0 /\ maxOff = 0 /\ churn = FALSE /\ term = NoSize /\ small = FALSE
      /\ layout = [top |-> 0, bottom |-> 0] /\ prompt = 0 /\ saved = NoAnchor
  BY DEF Init
<1>2. /\ banner = [height |-> Min(Banners), prev |-> 0, cols |-> 0]
      /\ screen = [rows |-> 0, cols |-> 0, top |-> 0, current |-> << >>]
  BY DEF Init
<1>3. tty \in Sizes /\ phys = Rows(tty.rows, Blank) /\ fresh = FALSE /\ drawn = FALSE
  BY DEF Init
<1>4. Min(Banners) \in Banners
  <2>1. Banners \subseteq Nat /\ Banners # {}  BY BannerAssumption
  <2>2. PICK b \in Banners : \A a \in Banners : b <= a  BY <2>1, Least
  <2> QED  BY <2>2, Zenon DEF Min
<1>5. phys \in Seq(Shown) /\ Len(phys) = tty.rows
  <2>1. PICK n \in Nat : n = tty.rows  BY <1>3, SizeAssumption
  <2>2. Blank \in Shown  BY ShownAre DEF Known
  <2>3. Rows(n, Blank) \in Seq(Shown) /\ Len(Rows(n, Blank)) = n  BY <2>2, AllAlike
  <2> QED  BY <1>3, <2>1, <2>3
<1>6. PageType
  <2>1. saved \in Anchors /\ layout \in [top : Nat, bottom : Nat]
      BY <1>1 DEF NoAnchor, Anchors
  <2>2. banner \in [height : Banners, prev : Nat, cols : Nat]  BY <1>2, <1>4
  <2>3. screen \in [rows : Nat, cols : Nat, top : Nat, current : Seq(Shown)]  BY <1>2
  <2> QED  BY <1>1, <1>3, <1>5, <2>1, <2>2, <2>3 DEF PageType
<1>7. ~Up /\ ~Cached  BY <1>1 DEF Up, Cached
<1>8. LayoutInv
  <2>1. ~saved.valid  BY <1>1 DEF NoAnchor
  <2> QED  BY <1>7, <2>1 DEF LayoutInv
<1>9. CacheInv /\ FreshInv /\ DrawnInv  BY <1>3, <1>7 DEF CacheInv, FreshInv, DrawnInv
<1> QED  BY <1>6, <1>8, <1>9 DEF PageInv

\* What the caches and the layout say of the terminal, and of the last page, holds always.
THEOREM PageCorrect == Spec => [](BaseInv /\ PageInv)
<1>1. BaseInv /\ BaseInv' /\ PageInv /\ [Next]_vars => PageInv'  BY PageKept
<1> QED  BY <1>1, PageBegins, StoreCorrect, PTL DEF Spec

\* Whatever was output, evicted, cached, resized or left half painted before, a page painted
\* without a fault is on the terminal row for row as the lines, the display mode and the
\* viewport say it should be, and the prompt on it is the line being typed.
THEOREM ScreenTrue == Spec => []ScreenIsTrue
<1>1. BaseInv /\ PageInv => ScreenIsTrue
  <2> SUFFICES ASSUME BaseInv, PageInv, fresh, ~small, NEW r \in 1 .. tty.rows
               PROVE  IF r # prompt THEN phys[r] = ExpectedPage[r]
                      ELSE IF ~input.active THEN phys[r] = Blank
                      ELSE drawn => phys[r] = PromptRow(input.text, tty.cols)
    BY DEF ScreenIsTrue
  <2> DEFINE w == Wrap(term.cols)
             height == banner.height
             n == tty.rows
  <2>1. /\ StoreInv /\ PageType /\ LayoutInv /\ CacheInv /\ FreshInv /\ DrawnInv
        /\ n \in Nat \ {0} /\ tty \in Sizes
    <3>1. StoreInv /\ tty \in Sizes  BY DEF BaseInv, StoreInv, StoreType
    <3> QED  BY <3>1, SizeAssumption DEF PageInv
  <2>2. /\ Cached /\ banner.prev = height /\ layout.bottom = Bottom
        /\ screen.current = Content
        /\ screen.current[prompt - screen.top + 1] = Blank
        /\ phys[prompt] # Unknown /\ (input.active \/ phys[prompt] = Blank)
    BY <2>1 DEF FreshInv
  <2>3. Up /\ term = tty /\ screen.top = height + 1  BY <2>1, <2>2 DEF Cached, CacheInv
  <2>4. /\ height \in Nat \ {0} /\ offset \in Nat /\ churn \in BOOLEAN
        /\ layout.top = height + 1 /\ layout.bottom \in layout.top .. n - 1
        /\ Height = layout.bottom - layout.top + 1
        /\ layout.bottom = n - (IF churn THEN 2 ELSE 1)
    <3>1. height \in Nat \ {0} /\ offset \in Nat /\ churn \in BOOLEAN
        BY <2>1, BannerAssumption DEF PageType
    <3>2. layout.top = height + 1 /\ layout.bottom \in layout.top .. n - 1
        BY <2>1, <2>2, <2>3 DEF LayoutInv
    <3> QED  BY <2>2, <3>1, <3>2 DEF Height, Bottom
  <2>5. w \in Widths  BY <2>1, <2>3 DEF Widths
  <2>6. Height \in Nat /\ Height + (IF churn THEN 2 ELSE 1) = n - height
    <3>1. PICK b \in Nat, h \in Nat, m \in Nat :
            b = layout.bottom /\ h = height /\ m = n /\ b \in h + 1 .. m - 1
      <4>1. layout.bottom \in height + 1 .. n - 1  BY <2>4
      <4>2. layout.bottom \in Nat /\ height \in Nat /\ n \in Nat  BY <2>1, <2>4, <4>1
      <4> QED  BY <4>1, <4>2
    <3>2. Height = b - (h + 1) + 1  BY <2>4, <3>1
    <3>3. Height \in Nat /\ Height = b - h  BY <3>1, <3>2
    <3>4. CASE churn
      <4>1. b = m - 2  BY <2>4, <3>1, <3>4
      <4>2. Height + 2 = m - h  BY <3>1, <3>3, <4>1
      <4> QED  BY <3>1, <3>3, <3>4, <4>2
    <3>5. CASE ~churn
      <4>1. b = m - 1  BY <2>4, <3>1, <3>5
      <4>2. Height + 1 = m - h  BY <3>1, <3>3, <4>1
      <4> QED  BY <3>1, <3>3, <3>5, <4>2
    <3> QED  BY <3>4, <3>5
  <2>7. /\ Content \in Seq(Known) /\ Len(Content) = n - height
        /\ Content = Window(TrueRows(w), Monus(Len(TrueRows(w)), offset + Height), Height)
                       \o Under(churn)
        /\ Window(TrueRows(w), Monus(Len(TrueRows(w)), offset + Height), Height) \in Seq(Known)
        /\ Under(churn) \in Seq(Known)
    <3>1. LET rows == TrueRows(w)
              first == Monus(Len(rows), offset + Height)
              content == PageOf(w, offset, Height, churn)
          IN /\ content \in Seq(Known) /\ Len(content) = Height + (IF churn THEN 2 ELSE 1)
             /\ \A i \in 1 .. Height :
                  content[i] = IF first + i <= Len(rows) THEN rows[first + i].shows ELSE Blank
             /\ churn => content[Height + 2] = Blank
             /\ ~churn => content[Height + 1] = Blank
             /\ Window(rows, first, Height) \in Seq(Known) /\ Under(churn) \in Seq(Known)
      <4>1. StoreInv /\ w \in Widths /\ offset \in Nat /\ Height \in Nat /\ churn \in BOOLEAN
          BY <2>1, <2>4, <2>5, <2>6
      <4> HIDE DEF w
      <4> QED  BY <4>1, PageOfIs, Zenon
    <3>2. Content = PageOf(w, offset, Height, churn)  BY DEF Content
    <3>3. Content = Window(TrueRows(w), Monus(Len(TrueRows(w)), offset + Height), Height)
                       \o Under(churn)
        BY <3>2, Zenon DEF PageOf
    <3>4. Content \in Seq(Known) /\ Len(Content) = Height + (IF churn THEN 2 ELSE 1)
        BY <3>1, <3>2, Zenon
    <3>5. Len(Content) = n - height
      <4>1. PICK k : k = IF churn THEN 2 ELSE 1  OBVIOUS
      <4>2. Height + k = n - height  BY <2>6, <4>1, Zenon
      <4>3. Len(Content) = Height + k  BY <3>4, <4>1, Zenon
      <4> QED  BY <4>2, <4>3, Zenon
    <3> QED  BY <3>1, <3>3, <3>4, <3>5, Zenon
  <2> DEFINE head == BannerRows(height)
             first == Monus(Len(TrueRows(w)), offset + Height)
             window == Window(TrueRows(w), first, Height)
             under == Under(churn)
  <2>8. /\ head \in Seq(Shown) /\ Len(head) = height
        /\ \A i \in 1 .. height : head[i] = BannerRow(i, height)
    <3>1. PICK h \in Nat : h = height  BY <2>4
    <3>2. \A i \in 1 .. h : BannerRow(i, h) \in Shown  BY ShownAre DEF Known
    <3>3. /\ [i \in 1 .. h |-> BannerRow(i, h)] \in Seq(Shown)
          /\ Len([i \in 1 .. h |-> BannerRow(i, h)]) = h
          /\ \A i \in 1 .. h : [j \in 1 .. h |-> BannerRow(j, h)][i] = BannerRow(i, h)
        BY <3>2
    <3>4. head = [i \in 1 .. h |-> BannerRow(i, h)]  BY <3>1 DEF BannerRows
    <3> HIDE DEF head
    <3> QED  BY <3>1, <3>3, <3>4, Zenon
  <2>9. window \in Seq(Shown) /\ under \in Seq(Shown)
    <3>1. window \in Seq(Known) /\ under \in Seq(Known)  BY <2>7
    <3>2. Known \subseteq Shown  BY DEF Known
    <3> HIDE DEF window, under
    <3> QED  BY <3>1, <3>2
  <2>10. ExpectedPage = (head \o window) \o under  BY Zenon DEF ExpectedPage
  <2>11. Content = window \o under  BY <2>7
  <2> HIDE DEF head, window, under
  <2>12. ExpectedPage = head \o Content
    <3>1. PICK a \in Seq(Shown), b \in Seq(Shown), c \in Seq(Shown) :
            a = head /\ b = window /\ c = under  BY <2>8, <2>9
    <3>2. (a \o b) \o c = a \o (b \o c)  BY ConcatAssociative, SMTT(30)
    <3> QED  BY <2>10, <2>11, <3>1, <3>2, Zenon
  <2>13. \A i \in 1 .. n :
           ExpectedPage[i] = IF i <= height THEN BannerRow(i, height) ELSE Content[i - height]
    <3>1. Content \in Seq(Shown)  BY <2>7 DEF Known
    <3>2. \A i \in 1 .. Len(head) + Len(Content) :
            (head \o Content)[i] = IF i <= Len(head) THEN head[i] ELSE Content[i - Len(head)]
        BY <2>8, <3>1, ConcatProperties, Zenon
    <3>3. Len(head) + Len(Content) = n
      <4>1. PICK h \in Nat, m \in Nat : h = height /\ m = n  BY <2>1, <2>4
      <4>2. Len(head) = h /\ Len(Content) = m - h  BY <2>7, <2>8, <4>1, Zenon
      <4>3. h + (m - h) = m  OBVIOUS
      <4> QED  BY <4>1, <4>2, <4>3, Zenon
    <3>4. TAKE i \in 1 .. n
    <3>5. ExpectedPage[i] = IF i <= height THEN head[i] ELSE Content[i - height]
        BY <2>8, <2>12, <3>2, <3>3, Zenon
    <3>6. i <= height => head[i] = BannerRow(i, height)  BY <2>1, <2>8
    <3> QED  BY <3>5, <3>6
  <2>14. CASE r = prompt
    <3>1. input.active /\ drawn => phys[r] = PromptRow(input.text, tty.cols)
        BY <2>1, <2>3, <2>14 DEF DrawnInv
    <3> QED  BY <2>2, <2>14, <3>1
  <2>15. CASE r # prompt
    <3>1. CASE r <= height
      <4>1. r \in 1 .. banner.prev  BY <2>1, <2>2, <2>4, <3>1
      <4>2. phys[r] = BannerRow(r, height)  BY <2>1, <2>2, <2>3, <4>1 DEF CacheInv
      <4> QED  BY <2>13, <2>15, <3>1, <4>2
    <3>2. CASE ~(r <= height)
      <4>1. PICK i \in 1 .. n - height : i = r - height  BY <2>1, <2>4, <3>2
      <4>2. r \in screen.top .. tty.rows /\ r - screen.top + 1 = i
          BY <2>1, <2>3, <2>4, <3>2, <4>1
      <4>3. screen.current[i] \in {Unknown, phys[r]}
          BY <2>1, <2>2, <2>15, <4>2 DEF CacheInv
      <4>4. Content[i] # Unknown
        <5>1. Content[i] \in Known  BY <2>7, <4>1
        <5> QED  BY <5>1 DEF Known
      <4>5. phys[r] = Content[i]  BY <2>2, <4>3, <4>4
      <4> QED  BY <2>13, <2>15, <3>2, <4>1, <4>5
    <3> QED  BY <3>1, <3>2
  <2> QED  BY <2>14, <2>15
<1> QED  BY <1>1, PageCorrect, PTL

-------------------------------------------------------------------------------
(* The reader's place, in any width.                                       *)

\* The row that begins at a byte is the one that holds it.
LEMMA SegmentAt ==
    ASSUME NEW l \in Lines, NEW w \in Widths, NEW k \in 1 .. Len(Starts[l][w])
    PROVE  Starts[l][w][k] \in Nat /\ SegmentOf(l, w, Starts[l][w][k]) = k - 1
<1>1. PICK n \in Nat \ {0}, byte \in Nat : n = Len(Starts[l][w]) /\ byte = Starts[l][w][k]
  BY StartsAre
<1>2. \A i, j \in 1 .. n : i < j => Starts[l][w][i] < Starts[l][w][j]  BY <1>1, StartsAre
<1>3. \A i \in 1 .. n : Starts[l][w][i] \in Nat  BY <1>1, StartsAre
<1>4. PICK m \in 0 .. n - 1 : /\ m = SegmentOf(l, w, byte)
                              /\ \A i \in 1 .. n : Starts[l][w][i] <= byte <=> i <= m + 1
  BY <1>1, SegmentIs
<1>5. k \in 1 .. n  BY <1>1
<1>6. k <= m + 1  BY <1>1, <1>4, <1>5
<1>7. m + 1 <= k
  <2>1. m + 1 \in 1 .. n  BY <1>1, <1>4
  <2>2. Starts[l][w][m + 1] <= byte  BY <1>1, <1>4, <2>1
  <2>3. ~(k < m + 1)  BY <1>1, <1>2, <1>3, <1>5, <2>1, <2>2
  <2> QED  BY <1>4, <1>5, <2>1, <2>3
<1>8. m = k - 1  BY <1>1, <1>4, <1>5, <1>6, <1>7
<1> QED  BY <1>1, <1>4, <1>8

\* A row to show begins at a byte of a line that is not hidden.
LEMMA PlaceOfRow ==
    ASSUME StoreInv, NEW w \in Widths, NEW r \in 1 .. Len(TrueRows(w))
    PROVE  LET line == Hidden + TrueRows(w)[r].n
               byte == TrueRows(w)[r].byte
           IN /\ line \in Hidden + 1 .. Len(log) /\ line \in 1 .. Len(log) /\ log[line] \in Lines
              /\ \E k \in 1 .. Len(Starts[log[line]][w]) :
                    /\ byte = Starts[log[line]][w][k]
                    /\ Above(w, Hidden) + r = Above(w, line - 1) + k
<1>1. /\ log \in Seq(Lines) /\ Len(log) \in Nat /\ Hidden \in Nat /\ Hidden <= Len(log)
  BY HiddenIs DEF StoreInv, StoreType
<1>2. PICK total \in Nat, above \in Nat :
        /\ total = Len(TrueRows(w)) /\ above = Above(w, Hidden)
        /\ total = Above(w, Len(log)) - above
  BY TrueRowsAre
<1>3. PICK row \in Nat : row = above + r /\ row > above /\ row <= Above(w, Len(log))
  <2>1. Above(w, Len(log)) \in Nat  BY <1>1, AboveAre
  <2> QED  BY <1>2, <2>1
<1>4. /\ AllRows(w)[row].n = Hidden + TrueRows(w)[r].n
      /\ AllRows(w)[row].byte = TrueRows(w)[r].byte
  BY <1>2, <1>3, TrueRowsAre
<1>5. \E i \in 1 .. Len(log) : \E k \in 1 .. RowCounts(log, w)[i] :
        row = Sums(RowCounts(log, w))[i] + k /\ AllRows(w)[row] = RowIn(log, Plain, w, i, k)
  <2> DEFINE P == Sums(RowCounts(log, w))
             rows == RowsOf(log, Plain, w)
  <2>1. Len(rows) = P[Len(log) + 1]  BY <1>1, RowsAre
  <2>2. Len(rows) = Above(w, Len(log))  BY <2>1 DEF Above
  <2>3. row \in 1 .. Len(rows)  BY <1>2, <1>3, <2>2
  <2>4. \A q \in 1 .. Len(rows) : \E i \in 1 .. Len(log) :
          \E k \in 1 .. RowCounts(log, w)[i] : q = P[i] + k
    <3>1. log \in Seq(Lines)  BY <1>1
    <3> QED  BY <3>1, RowsAre
  <2>5. PICK i \in 1 .. Len(log) : \E k \in 1 .. RowCounts(log, w)[i] : row = P[i] + k
      BY <2>3, <2>4, Zenon
  <2>6. PICK k \in 1 .. RowCounts(log, w)[i] : row = P[i] + k  BY <2>5
  <2>7. rows[P[i] + k] = RowIn(log, Plain, w, i, k)  BY <1>1, RowsAre
  <2>8. RowsOf(log, Plain, w)[row] = RowIn(log, Plain, w, i, k)  BY <2>6, <2>7, Zenon
  <2> QED  BY <2>6, <2>8, Zenon DEF AllRows
<1>6. PICK i \in 1 .. Len(log) : \E k \in 1 .. RowCounts(log, w)[i] :
        row = Sums(RowCounts(log, w))[i] + k /\ AllRows(w)[row] = RowIn(log, Plain, w, i, k)
  BY <1>5
<1>7. PICK k \in 1 .. RowCounts(log, w)[i] :
        row = Sums(RowCounts(log, w))[i] + k /\ AllRows(w)[row] = RowIn(log, Plain, w, i, k)
  BY <1>6
<1>8. AllRows(w)[row].n = i /\ AllRows(w)[row].byte = Starts[log[i]][w][k]  BY <1>7 DEF RowIn
<1>9. Sums(RowCounts(log, w))[i] = Above(w, i - 1)
  <2>1. i - 1 + 1 = i  OBVIOUS
  <2> QED  BY <2>1, Zenon DEF Above
<1>10. RowCounts(log, w)[i] = Len(Starts[log[i]][w])  BY AboveAre
<1>11. log[i] \in Lines  BY <1>1
<1>12. i > Hidden
  <2>1. PICK j \in 1 .. Len(log) : j = i  OBVIOUS
  <2>2. /\ Above(w, j) = Above(w, j - 1) + Len(Starts[log[j]][w])
        /\ Len(Starts[log[j]][w]) \in Nat \ {0}  BY AboveAre
  <2>3. PICK before \in Nat, n \in Nat :
          before = Above(w, j - 1) /\ n = Len(Starts[log[j]][w])
    <3>1. j - 1 \in 0 .. Len(log)  BY <1>1
    <3> QED  BY <2>2, <3>1, AboveAre
  <2>4. row = before + k /\ k \in 1 .. n  BY <1>7, <1>9, <1>10, <2>1, <2>3
  <2>5. row <= Above(w, j)  BY <2>2, <2>3, <2>4, SMTT(30)
  <2>6. j <= Hidden => Above(w, j) <= above
    <3>1. j <= Hidden => j \in 0 .. Len(log) /\ Hidden \in j .. Len(log)  BY <1>1
    <3> QED  BY <1>2, <3>1, AboveAre
  <2>7. Above(w, j) \in Nat  BY <2>2, <2>3, SMTT(30)
  <2> QED  BY <1>1, <1>2, <1>3, <2>1, <2>5, <2>6, <2>7
<1>13. Hidden + TrueRows(w)[r].n = i /\ TrueRows(w)[r].byte = Starts[log[i]][w][k]
  BY <1>4, <1>8
<1>14. above + r = Above(w, i - 1) + k  BY <1>3, <1>7, <1>9
<1>15. i \in Hidden + 1 .. Len(log)  BY <1>1, <1>12
<1>16. k \in 1 .. Len(Starts[log[i]][w])  BY <1>10
<1> QED  BY <1>2, <1>11, <1>13, <1>14, <1>15, <1>16, Zenon

\* A place is in the row its byte is in, and that is one row.
LEMMA RowOfPlace ==
    ASSUME StoreInv, NEW w \in Widths, NEW p \in [line : 1 .. Len(log), byte : Nat],
           NEW k \in 1 .. Len(Starts[log[p.line]][w]), p.byte = Starts[log[p.line]][w][k]
    PROVE  RowAt(p, w) = Above(w, p.line - 1) + k
<1>1. log[p.line] \in Lines  BY DEF StoreInv, StoreType
<1>2. SegmentOf(log[p.line], w, p.byte) = k - 1  BY <1>1, SegmentAt
<1>3. Above(w, p.line - 1) \in Nat
  <2>1. p.line - 1 \in 0 .. Len(log)  BY RetainedAre, SMTT(30)
  <2> QED  BY <2>1, AboveAre
<1>4. PICK a \in Nat : a = Above(w, p.line - 1)  BY <1>3
<1>5. RowAt(p, w) = a + (k - 1) + 1  BY <1>2, <1>4 DEF RowAt
<1>6. k \in Nat  BY <1>1, StartsAre
<1>7. a + (k - 1) + 1 = a + k  BY <1>4, <1>6
<1> QED  BY <1>4, <1>5, <1>7

\* The places a reader can have, and the offset that puts one at the top of the view.
Places == [line : 1 .. Len(log), byte : Nat]
ViewAt(p, w, height) ==
    Monus(Len(TrueRows(w)), Monus(RowAt(p, w) - 1, Above(w, Hidden)) + height)

\* A place's row, and what is above the lines that show.
LEMMA PlaceIs ==
    ASSUME StoreInv, NEW w \in Widths, NEW p \in Places
    PROVE  /\ log[p.line] \in Lines /\ p.line \in 1 .. Len(log) /\ p.byte \in Nat
           /\ RowAt(p, w) \in Nat \ {0}
           /\ Above(w, p.line - 1) \in Nat /\ Above(w, p.line) \in Nat
           /\ Above(w, p.line - 1) < RowAt(p, w) /\ RowAt(p, w) <= Above(w, p.line)
           /\ RowAt(p, w) <= Above(w, Len(log)) /\ Above(w, Len(log)) \in Nat
           /\ p # Following /\ p # Lost
<1>1. p.line \in 1 .. Len(log) /\ p.byte \in Nat /\ p = [line |-> p.line, byte |-> p.byte]
  BY DEF Places
<1>2. PICK line \in 1 .. Len(log), byte \in Nat : line = p.line /\ byte = p.byte  BY <1>1
<1>3. LET q == [line |-> line, byte |-> byte]
      IN /\ RowAt(q, w) \in Nat /\ log[line] \in Lines
         /\ Above(w, line - 1) < RowAt(q, w) /\ RowAt(q, w) <= Above(w, line)
  BY RowAtIs
<1>4. [line |-> line, byte |-> byte] = p  BY <1>1, <1>2
<1>5. /\ RowAt(p, w) \in Nat /\ log[line] \in Lines
      /\ Above(w, line - 1) < RowAt(p, w) /\ RowAt(p, w) <= Above(w, line)
  BY <1>3, <1>4, Zenon
<1>6. Len(log) \in Nat  BY RetainedAre
<1>7. line - 1 \in 0 .. Len(log) /\ line \in 0 .. Len(log) /\ Len(log) \in line .. Len(log)
      /\ Len(log) \in 0 .. Len(log)  BY <1>6
<1>8. Above(w, line - 1) \in Nat /\ Above(w, line) \in Nat /\ Above(w, Len(log)) \in Nat
      /\ Above(w, line) <= Above(w, Len(log))  BY <1>7, AboveAre
<1>9. RowAt(p, w) # 0 /\ RowAt(p, w) <= Above(w, Len(log))  BY <1>5, <1>8
<1>10. p # Following /\ p # Lost  BY <1>1 DEF Following, Lost
<1> QED  BY <1>1, <1>2, <1>5, <1>8, <1>9, <1>10

\* Of the rows to show, those up to the place's are the first.
LEMMA UpToPlace ==
    ASSUME StoreInv, NEW w \in Widths, NEW p \in Places, NEW i \in 1 .. Len(TrueRows(w))
    PROVE  \/ Hidden + TrueRows(w)[i].n < p.line
           \/ Hidden + TrueRows(w)[i].n = p.line /\ TrueRows(w)[i].byte <= p.byte
           <=> i <= Monus(RowAt(p, w), Above(w, Hidden))
<1> DEFINE n == Hidden + TrueRows(w)[i].n
           b == TrueRows(w)[i].byte
<1>1. /\ n \in 1 .. Len(log) /\ log[n] \in Lines
      /\ \E k \in 1 .. Len(Starts[log[n]][w]) :
            b = Starts[log[n]][w][k] /\ Above(w, Hidden) + i = Above(w, n - 1) + k
  BY PlaceOfRow
<1> HIDE DEF n, b
<1>2. PICK k \in 1 .. Len(Starts[log[n]][w]) :
        b = Starts[log[n]][w][k] /\ Above(w, Hidden) + i = Above(w, n - 1) + k
  BY <1>1
<1>3. PICK line \in 1 .. Len(log), byte \in Nat, R \in Nat :
        line = p.line /\ byte = p.byte /\ R = RowAt(p, w)
  BY PlaceIs
<1>4. PICK total \in Nat, above \in Nat :
        /\ total = Len(TrueRows(w)) /\ above = Above(w, Hidden)
  BY TrueRowsAre
<1>5. Len(log) \in Nat /\ i \in Nat \ {0} /\ k \in Nat \ {0}
  <2>1. Len(Starts[log[n]][w]) \in Nat  BY <1>1, StartsAre
  <2> QED  BY <1>4, <2>1, RetainedAre, SMTT(30)
<1>6. /\ \A j \in 0 .. Len(log) : Above(w, j) \in Nat
      /\ \A j \in 0 .. Len(log) : \A m \in j .. Len(log) : Above(w, j) <= Above(w, m)
  BY AboveAre
<1>7. PICK before \in Nat, size \in Nat :
        before = Above(w, n - 1) /\ size = Len(Starts[log[n]][w]) /\ Above(w, n) = before + size
  <2>1. n - 1 \in 0 .. Len(log)  BY <1>1, <1>5
  <2>2. Len(Starts[log[n]][w]) \in Nat /\ Above(w, n) = Above(w, n - 1) + Len(Starts[log[n]][w])
      BY <1>1, AboveAre
  <2> QED  BY <1>6, <2>1, <2>2
<1>8. PICK q \in Nat \ {0}, h \in Nat \ {0} : q = i /\ h = k  BY <1>5
<1>9. h <= size /\ above + q = before + h  BY <1>2, <1>4, <1>7, <1>8
<1>10. q <= Monus(R, above) <=> above + q <= R
  <2>1. CASE R > above
    <3>1. Monus(R, above) = R - above  BY <2>1 DEF Monus
    <3> QED  BY <3>1
  <2>2. CASE ~(R > above)
    <3>1. Monus(R, above) = 0  BY <2>2 DEF Monus
    <3> QED  BY <2>2, <3>1
  <2> QED  BY <2>1, <2>2
<1>11. i <= Monus(RowAt(p, w), Above(w, Hidden)) <=> above + q <= R
  BY <1>3, <1>4, <1>8, <1>10
<1> DEFINE isUpTo == n < p.line \/ (n = p.line /\ b <= p.byte)
<1>12. CASE n < line
  <2>1. above + q <= before + size  BY <1>9
  <2>2. PICK mid \in Nat : mid = Above(w, line - 1) /\ before + size <= mid /\ mid < R
    <3>1. n \in 0 .. Len(log) /\ line - 1 \in n .. Len(log)  BY <1>1, <1>3, <1>5, <1>12, SMTT(30)
    <3>2. Above(w, line - 1) < R /\ Above(w, line - 1) \in Nat  BY <1>3, PlaceIs
    <3> QED  BY <1>6, <1>7, <3>1, <3>2
  <2>3. above + q <= R  BY <2>1, <2>2
  <2>4. isUpTo  BY <1>3, <1>12
  <2> QED  BY <1>11, <2>3, <2>4 DEF n, b
<1>13. CASE n = line
  <2>1. PICK seg \in Nat : /\ seg = SegmentOf(log[n], w, byte)
                           /\ Starts[log[n]][w][k] <= byte <=> k <= seg + 1
    <3>1. \A s : s \in 0 .. Len(Starts[log[n]][w]) - 1 => s \in Nat
        BY <1>1, StartsAre
    <3>2. SegmentOf(log[n], w, byte) \in 0 .. Len(Starts[log[n]][w]) - 1  BY <1>1, SegmentIs
    <3>3. Starts[log[n]][w][k] <= byte <=> k <= SegmentOf(log[n], w, byte) + 1
        BY <1>1, SegmentIs
    <3> QED  BY <3>1, <3>2, <3>3
  <2>2. R = before + seg + 1  BY <1>3, <1>7, <1>13, <2>1 DEF RowAt
  <2>3. b <= byte <=> h <= seg + 1  BY <1>2, <1>8, <2>1
  <2>4. above + q <= R <=> h <= seg + 1  BY <1>9, <2>2
  <2>5. ~(n < line)  BY <1>1, <1>3, <1>5, <1>13
  <2>6. isUpTo <=> h <= seg + 1
    <3>1. ~(n < p.line) /\ n = p.line /\ (b <= p.byte <=> h <= seg + 1)
        BY <1>3, <1>13, <2>3, <2>5
    <3> QED  BY <3>1, Zenon
  <2> QED  BY <1>11, <2>4, <2>6 DEF n, b
<1>14. CASE n > line
  <2>1. PICK mid \in Nat : mid = Above(w, line) /\ mid <= before /\ R <= mid
    <3>1. line \in 0 .. Len(log) /\ n - 1 \in line .. Len(log)  BY <1>1, <1>3, <1>5, <1>14, SMTT(30)
    <3>2. R <= Above(w, line) /\ Above(w, line) \in Nat  BY <1>3, PlaceIs
    <3> QED  BY <1>6, <1>7, <3>1, <3>2
  <2>2. ~(above + q <= R)  BY <1>9, <2>1
  <2>3. ~isUpTo
    <3>1. ~(n < line) /\ n # line  BY <1>1, <1>3, <1>5, <1>14, SMTT(30)
    <3> QED  BY <1>3, <3>1
  <2> QED  BY <1>11, <2>2, <2>3 DEF n, b
<1>15. n < line \/ n = line \/ n > line  BY <1>1, <1>3, <1>5
<1> QED  BY <1>12, <1>13, <1>14, <1>15

\* A place is kept when the view begins with its row, as near as its lines allow.
LEMMA KeptIs ==
    ASSUME StoreInv, NEW w \in Widths, NEW p \in Places, NEW off, NEW height
    PROVE  Kept(p, TrueRows(w), off, height) <=> off = ViewAt(p, w, height)
<1> DEFINE rows == TrueRows(w)
           upTo == {i \in 1 .. Len(rows) :
                      \/ Hidden + rows[i].n < p.line
                      \/ Hidden + rows[i].n = p.line /\ rows[i].byte <= p.byte}
<1>1. p # Following /\ p # Lost  BY PlaceIs
<1>2. Kept(p, rows, off, height) <=>
        off = Monus(Len(rows), Monus(Cardinality(upTo), 1) + height)
  BY <1>1, Zenon DEF Kept
<1>3. PICK total \in Nat, above \in Nat, R \in Nat \ {0} :
        /\ total = Len(rows) /\ above = Above(w, Hidden) /\ R = RowAt(p, w) /\ R <= above + total
  <2>1. RowAt(p, w) \in Nat \ {0} /\ RowAt(p, w) <= Above(w, Len(log))
        /\ Above(w, Len(log)) \in Nat  BY PlaceIs
  <2>2. Len(rows) = Above(w, Len(log)) - Above(w, Hidden) /\ Len(rows) \in Nat
        /\ Above(w, Hidden) \in Nat  BY TrueRowsAre
  <2>3. Above(w, Len(log)) = Above(w, Hidden) + Len(rows)  BY <2>1, <2>2
  <2> QED  BY <2>1, <2>2, <2>3
<1> DEFINE last == Monus(R, above)
<1>4. last \in 0 .. total /\ Monus(last, 1) = Monus(R - 1, above)  BY <1>3 DEF Monus
<1>5. upTo = 1 .. last
  <2>1. upTo = {i \in 1 .. total : i <= last}
    <3>1. \A i \in 1 .. Len(rows) :
            (\/ Hidden + rows[i].n < p.line
             \/ Hidden + rows[i].n = p.line /\ rows[i].byte <= p.byte)
            <=> i <= last
      <4>1. TAKE i \in 1 .. Len(rows)
      <4>2. \/ Hidden + TrueRows(w)[i].n < p.line
            \/ Hidden + TrueRows(w)[i].n = p.line /\ TrueRows(w)[i].byte <= p.byte
            <=> i <= Monus(RowAt(p, w), Above(w, Hidden))
          BY UpToPlace
      <4> QED  BY <1>3, <4>2, Zenon
    <3> HIDE DEF rows, last
    <3> QED  BY <1>3, <3>1
  <2> HIDE DEF last, upTo
  <2> QED  BY <1>3, <1>4, <2>1
<1>6. Cardinality(upTo) = last
  <2> HIDE DEF last, upTo
  <2>1. Cardinality(1 .. last) = IF 1 > last THEN 0 ELSE last - 1 + 1
    <3>1. last \in Int /\ 1 \in Int  BY <1>4
    <3> QED  BY <3>1, FS_Interval
  <2>2. (IF 1 > last THEN 0 ELSE last - 1 + 1) = last  BY <1>4
  <2> QED  BY <1>5, <2>1, <2>2
<1>7. ViewAt(p, w, height) = Monus(total, Monus(R - 1, above) + height)  BY <1>3 DEF ViewAt
<1> QED  BY <1>2, <1>3, <1>4, <1>6, <1>7, Zenon DEF rows

\* The view begins with a place's row, which begins with the place's byte, with off rows
\* under it.
AtTop(p, w, off, height) ==
    /\ p \in Places
    /\ \E k \in 1 .. Len(Starts[log[p.line]][w]) : p.byte = Starts[log[p.line]][w][k]
    /\ off \in Nat \ {0}
    /\ off + height + RowAt(p, w) = Above(w, Len(log)) + 1

\* The first row of a view that does not go over the oldest row.
LEMMA HereIs ==
    ASSUME StoreInv, NEW w \in Widths, NEW off \in Nat, NEW height \in Nat \ {0},
           off <= Monus(Len(TrueRows(w)), height)
    PROVE  LET p == Here(TrueRows(w), off, height)
           IN /\ off = 0 => p = Following
              /\ off # 0 => AtTop(p, w, off, height) /\ p.line > Hidden
<1> DEFINE rows == TrueRows(w)
           p == Here(rows, off, height)
<1>1. PICK total \in Nat, above \in Nat :
        /\ total = Len(rows) /\ above = Above(w, Hidden) /\ Above(w, Len(log)) = above + total
  <2>1. Len(rows) = Above(w, Len(log)) - Above(w, Hidden) /\ Len(rows) \in Nat
        /\ Above(w, Hidden) \in Nat  BY TrueRowsAre
  <2>2. Above(w, Len(log)) \in Nat
    <3>1. Len(log) \in 0 .. Len(log)  BY RetainedAre
    <3> QED  BY <3>1, AboveAre
  <2>3. Above(w, Len(log)) = Above(w, Hidden) + Len(rows)  BY <2>1, <2>2
  <2> QED  BY <2>1, <2>3
<1>2. CASE off = 0  BY <1>2 DEF Here
<1>3. CASE off # 0
  <2>1. PICK r \in 1 .. total : r = Monus(total, off + height) + 1 /\ r + off + height = total + 1
    <3>1. off + height <= total
      <4>1. CASE total > height
        <5>1. off <= total - height  BY <1>1, <4>1 DEF Monus
        <5> QED  BY <4>1, <5>1
      <4>2. CASE ~(total > height)
        <5>1. off <= 0  BY <1>1, <4>2 DEF Monus
        <5> QED  BY <1>3, <5>1
      <4> QED  BY <4>1, <4>2
    <3>2. Monus(total, off + height) = total - (off + height)  BY <3>1 DEF Monus
    <3> QED  BY <1>3, <3>1, <3>2
  <2>2. p = [line |-> Hidden + rows[r].n, byte |-> rows[r].byte]
      BY <1>1, <1>3, <2>1 DEF Here
  <2> DEFINE line == Hidden + rows[r].n
             byte == rows[r].byte
  <2>3. /\ line \in Hidden + 1 .. Len(log) /\ line \in 1 .. Len(log) /\ log[line] \in Lines
        /\ \E k \in 1 .. Len(Starts[log[line]][w]) :
              byte = Starts[log[line]][w][k] /\ Above(w, Hidden) + r = Above(w, line - 1) + k
      BY <1>1, PlaceOfRow
  <2>4. p.line = line /\ p.byte = byte  BY <2>2
  <2> HIDE DEF line, byte, p
  <2>5. PICK k \in 1 .. Len(Starts[log[p.line]][w]) :
          /\ p.byte = Starts[log[p.line]][w][k]
          /\ Above(w, Hidden) + r = Above(w, p.line - 1) + k
      BY <2>3, <2>4, Zenon
  <2>6. p \in Places
    <3>1. byte \in Nat  BY <2>3, <2>4, <2>5, StartsAre
    <3> QED  BY <2>2, <2>3, <3>1 DEF Places, line, byte
  <2>7. RowAt(p, w) = Above(w, p.line - 1) + k
    <3>1. p \in [line : 1 .. Len(log), byte : Nat]  BY <2>6 DEF Places
    <3> QED  BY <2>5, <3>1, RowOfPlace, Zenon
  <2>8. RowAt(p, w) = above + r  BY <1>1, <2>5, <2>7, Zenon
  <2>9. off + height + RowAt(p, w) = Above(w, Len(log)) + 1
    <3>1. PICK R \in Nat : R = RowAt(p, w) /\ R = above + r  BY <1>1, <2>8
    <3>2. PICK o \in Nat, h \in Nat, q \in Nat :
            o = off /\ h = height /\ q = r /\ q + o + h = total + 1  BY <2>1
    <3>3. o + h + (above + q) = above + total + 1  BY <3>2
    <3> QED  BY <1>1, <3>1, <3>2, <3>3
  <2>10. p.line > Hidden
    <3>1. line \in Hidden + 1 .. Len(log) /\ Hidden \in Nat  BY <2>3, HiddenIs
    <3> QED  BY <2>4, <3>1
  <2>11. AtTop(p, w, off, height)  BY <1>3, <2>5, <2>6, <2>9 DEF AtTop
  <2> QED  BY <1>3, <2>10, <2>11 DEF p
<1> QED  BY <1>2, <1>3

\* A view that begins with a place's row keeps the place, and one that the lines gone since
\* have left too high keeps it as soon as it is limited.
LEMMA AtTopIs ==
    ASSUME StoreInv, NEW w \in Widths, NEW p, NEW off, NEW height \in Nat \ {0},
           AtTop(p, w, off, height)
    PROVE  /\ Minimum(off, Monus(Len(TrueRows(w)), height)) = ViewAt(p, w, height)
           /\ p.line > Hidden => off = ViewAt(p, w, height)
           /\ p.line > Hidden =>
                 /\ Monus(Len(TrueRows(w)), off + height) + 1 = RowAt(p, w) - Above(w, Hidden)
                 /\ RowAt(p, w) - Above(w, Hidden) \in 1 .. Len(TrueRows(w))
           /\ p.line <= Hidden => Monus(Len(TrueRows(w)), off + height) = 0
<1>0. p \in Places /\ off \in Nat \ {0} /\ off + height + RowAt(p, w) = Above(w, Len(log)) + 1
  BY DEF AtTop
<1>1. PICK total \in Nat, above \in Nat :
        /\ total = Len(TrueRows(w)) /\ above = Above(w, Hidden)
        /\ Above(w, Len(log)) = above + total
  <2>1. Len(TrueRows(w)) = Above(w, Len(log)) - Above(w, Hidden) /\ Len(TrueRows(w)) \in Nat
        /\ Above(w, Hidden) \in Nat  BY TrueRowsAre
  <2>2. Above(w, Len(log)) \in Nat  BY <1>0, PlaceIs
  <2>3. Above(w, Len(log)) = Above(w, Hidden) + Len(TrueRows(w))  BY <2>1, <2>2
  <2> QED  BY <2>1, <2>3
<1>2. PICK o \in Nat \ {0}, h \in Nat \ {0}, R \in Nat \ {0} :
        /\ o = off /\ h = height /\ R = RowAt(p, w) /\ o + h + R = above + total + 1
  <2>1. RowAt(p, w) \in Nat \ {0}  BY <1>0, PlaceIs
  <2> QED  BY <1>0, <1>1, <2>1
<1>3. ViewAt(p, w, height) = Monus(total, Monus(R - 1, above) + h)  BY <1>1, <1>2 DEF ViewAt
<1>4. /\ Hidden \in Nat /\ Len(log) \in Nat /\ Hidden <= Len(log) /\ p.line \in 1 .. Len(log)
  BY <1>0, HiddenIs, RetainedAre, PlaceIs
<1>5. CASE p.line > Hidden
  <2>1. R > above
    <3>1. Hidden \in 0 .. Len(log) /\ p.line - 1 \in Hidden .. Len(log)  BY <1>4, <1>5
    <3>2. above <= Above(w, p.line - 1)  BY <1>1, <3>1, AboveAre
    <3>3. Above(w, p.line - 1) \in Nat /\ Above(w, p.line - 1) < R  BY <1>0, <1>2, PlaceIs
    <3> QED  BY <3>2, <3>3
  <2>2. Monus(R - 1, above) = R - 1 - above
    <3>1. CASE R - 1 > above  BY <3>1 DEF Monus
    <3>2. CASE ~(R - 1 > above)
      <4>1. R - 1 = above  BY <2>1, <3>2
      <4> QED  BY <3>2, <4>1 DEF Monus
    <3> QED  BY <3>1, <3>2
  <2>3. Monus(total, R - 1 - above + h) = o
    <3>1. total - (R - 1 - above + h) = o /\ total > R - 1 - above + h  BY <1>2
    <3> QED  BY <3>1 DEF Monus
  <2>4. off = ViewAt(p, w, height)  BY <1>2, <1>3, <2>2, <2>3
  <2>5. Monus(total, h) = total - h /\ o <= total - h
    <3>1. o <= total - h  BY <1>2, <2>1
    <3> QED  BY <3>1 DEF Monus
  <2>6. Minimum(o, Monus(total, h)) = o
    <3>1. PICK most \in Nat : most = Monus(total, h) /\ o <= most  BY <2>5
    <3> QED  BY <3>1 DEF Minimum
  <2>7. Monus(total, o + h) + 1 = R - above /\ R - above \in 1 .. total
    <3>1. total - (o + h) + 1 = R - above /\ o + h <= total  BY <1>2, <2>1
    <3>2. Monus(total, o + h) = total - (o + h)  BY <3>1 DEF Monus
    <3> QED  BY <1>2, <2>1, <3>1, <3>2
  <2>8. ~(p.line <= Hidden)  BY <1>4, <1>5
  <2> QED  BY <1>1, <1>2, <2>4, <2>6, <2>7, <2>8
<1>6. CASE ~(p.line > Hidden)
  <2>1. R <= above
    <3>1. p.line \in 0 .. Len(log) /\ Hidden \in p.line .. Len(log)  BY <1>4, <1>6
    <3>2. Above(w, p.line) <= above  BY <1>1, <3>1, AboveAre
    <3>3. Above(w, p.line) \in Nat /\ R <= Above(w, p.line)  BY <1>0, <1>2, PlaceIs
    <3> QED  BY <3>2, <3>3
  <2>2. Monus(R - 1, above) = 0  BY <2>1 DEF Monus
  <2>3. ViewAt(p, w, height) = Monus(total, h)  BY <1>3, <2>2
  <2>4. Minimum(o, Monus(total, h)) = Monus(total, h)
    <3>1. o + h >= total + 1  BY <1>2, <2>1
    <3>2. CASE total > h
      <4>1. Monus(total, h) = total - h  BY <3>2 DEF Monus
      <4> QED  BY <3>1, <3>2, <4>1 DEF Minimum
    <3>3. CASE ~(total > h)
      <4>1. Monus(total, h) = 0  BY <3>3 DEF Monus
      <4> QED  BY <4>1 DEF Minimum
    <3> QED  BY <3>2, <3>3
  <2>5. Monus(total, o + h) = 0
    <3>1. ~(total > o + h)  BY <1>2, <2>1
    <3> QED  BY <3>1 DEF Monus
  <2> QED  BY <1>1, <1>2, <1>6, <2>3, <2>4, <2>5
<1> QED  BY <1>5, <1>6

\* One row of the output is one row of one line.
LEMMA OneRow ==
    ASSUME StoreInv, NEW w \in Widths, NEW m \in 1 .. Len(log), NEW n \in 1 .. Len(log),
           NEW j \in 1 .. Len(Starts[log[m]][w]), NEW k \in 1 .. Len(Starts[log[n]][w]),
           Above(w, m - 1) + j = Above(w, n - 1) + k
    PROVE  m = n /\ j = k
<1>1. /\ Len(log) \in Nat /\ \A i \in 0 .. Len(log) : Above(w, i) \in Nat
      /\ \A i \in 1 .. Len(log) :
            /\ Len(Starts[log[i]][w]) \in Nat \ {0}
            /\ Above(w, i) = Above(w, i - 1) + Len(Starts[log[i]][w])
      /\ \A a \in 0 .. Len(log) : \A b \in a .. Len(log) : Above(w, a) <= Above(w, b)
  BY AboveAre, RetainedAre
<1>2. ASSUME NEW a \in 1 .. Len(log), NEW b \in 1 .. Len(log), a < b,
             NEW s \in 1 .. Len(Starts[log[a]][w]), NEW t \in 1 .. Len(Starts[log[b]][w])
      PROVE  Above(w, a - 1) + s # Above(w, b - 1) + t
  <2>1. a \in 0 .. Len(log) /\ a - 1 \in 0 .. Len(log) /\ b - 1 \in a .. Len(log)
        /\ b - 1 \in 0 .. Len(log)
    <3>1. Len(log) \in Nat  BY RetainedAre
    <3> QED  BY <1>2, <3>1, SMTT(30)
  <2>2. Above(w, a) <= Above(w, b - 1) /\ Above(w, a) = Above(w, a - 1) + Len(Starts[log[a]][w])
      BY <1>1, <2>1
  <2>3. PICK x \in Nat, size \in Nat, y \in Nat, p \in Nat \ {0}, q \in Nat \ {0} :
          /\ x = Above(w, a - 1) /\ size = Len(Starts[log[a]][w]) /\ y = Above(w, b - 1)
          /\ p = s /\ q = t /\ p <= size /\ x + size <= y
    <3>1. Len(Starts[log[a]][w]) \in Nat /\ Len(Starts[log[b]][w]) \in Nat  BY <1>1
    <3>2. s \in Nat \ {0} /\ t \in Nat \ {0} /\ s <= Len(Starts[log[a]][w])  BY <3>1, SMTT(30)
    <3>3. Above(w, a - 1) \in Nat /\ Above(w, b - 1) \in Nat  BY <1>1, <2>1
    <3> QED  BY <2>2, <3>1, <3>2, <3>3
  <2>4. p <= size /\ x + size <= y  BY <2>3
  <2>5. x + p # y + q  BY <2>4
  <2> QED  BY <2>3, <2>5
<1>3. m = n
  <2>1. ~(m < n)  BY <1>2
  <2>2. ~(n < m)  BY <1>2
  <2> QED  BY <1>1, <2>1, <2>2
<1>4. j = k
  <2>1. m - 1 \in 0 .. Len(log)  BY <1>1
  <2>2. PICK x \in Nat, size \in Nat : x = Above(w, m - 1) /\ size = Len(Starts[log[m]][w])
      BY <1>1, <2>1
  <2>3. PICK p \in Nat, q \in Nat : p = j /\ q = k  BY <1>3, <2>2
  <2>4. x + p = x + q  BY <1>3, <2>2, <2>3
  <2>5. p = q  BY <2>4
  <2> QED  BY <2>3, <2>5
<1> QED  BY <1>3, <1>4

\* What an anchor kept for a place says of it, whatever the width: its row, or the first that
\* is not hidden when the place's line is.
SavedBy(a, p) ==
    /\ a.valid /\ ring.count > 0
    /\ \/ a.logical + Evicted + 1 = p.line /\ a.byte = p.byte /\ p.line > Hidden
       \/ a.logical = Hidden - Evicted /\ a.byte = 0 /\ p.line <= Hidden

\* Something shows as long as a place's line was output in the frame that shows.
LEMMA PlaceShows ==
    ASSUME StoreInv, NEW p \in Places, mode = "frame" => frame < p.line
    PROVE  Hidden < Len(log) /\ ring.count > 0 /\ (mode = "frame" => frame <= Hidden)
<1>1. p.line \in 1 .. Len(log) /\ Len(log) \in Nat /\ Evicted \in 0 .. Len(log)
      /\ Len(log) - Evicted = ring.count /\ ring.count \in Nat
  BY RetainedAre DEF Places
<1>2. ring.count = Minimum(Len(log), MaxLines) /\ frame \in 0 .. Len(log)
  BY DEF StoreInv, RingInv, StoreType
<1>3. ring.count > 0  BY <1>1, <1>2, BoundAssumption DEF Minimum
<1>4. Evicted < Len(log)  BY <1>1, <1>3
<1>5. Hidden = IF mode = "frame" /\ frame > Evicted THEN frame ELSE Evicted  BY DEF Hidden
<1>6. mode = "frame" => frame < Len(log)  BY <1>1, <1>2
<1>7. Hidden < Len(log)  BY <1>4, <1>5, <1>6
<1>8. mode = "frame" => frame <= Hidden  BY <1>1, <1>2, <1>5
<1> QED  BY <1>3, <1>7, <1>8

\* The anchor kui_anchor_before_resize takes is of the place at the top of the view.
LEMMA AnchorSaves ==
    ASSUME StoreInv, NEW w \in Widths, NEW p, NEW off, Height \in Nat \ {0},
           AtTop(p, w, off, Height), Hidden < Len(log), ring.count > 0
    PROVE  SavedBy(AnchorBefore(IndexOf(w), off), p)
<1> DEFINE a == AnchorBefore(IndexOf(w), off)
           rows == TrueRows(w)
           top == Monus(Len(rows), off + Height)
<1>1. /\ p \in Places /\ off \in Nat \ {0} /\ off \in Nat
      /\ \E k \in 1 .. Len(Starts[log[p.line]][w]) : p.byte = Starts[log[p.line]][w][k]
  BY DEF AtTop
<1>2. PICK k \in 1 .. Len(Starts[log[p.line]][w]) : p.byte = Starts[log[p.line]][w][k]  BY <1>1
<1>3. RowAt(p, w) = Above(w, p.line - 1) + k
  <2>1. p \in [line : 1 .. Len(log), byte : Nat]  BY <1>1 DEF Places
  <2> QED  BY <1>2, <2>1, RowOfPlace, Zenon
<1>4. /\ Hidden \in Nat /\ Len(log) \in Nat /\ p.line \in 1 .. Len(log) /\ Evicted \in Nat
  BY <1>1, HiddenIs, RetainedAre, PlaceIs
<1>5. /\ a.valid <=> top < Len(rows)
      /\ a.valid => /\ a.logical \in 0 .. ring.count - 1
                    /\ Evicted + a.logical + 1 = Hidden + rows[top + 1].n
                    /\ a.byte = rows[top + 1].byte
  BY <1>1, AnchorIs
<1>6. /\ p.line > Hidden => /\ top + 1 = RowAt(p, w) - Above(w, Hidden)
                            /\ RowAt(p, w) - Above(w, Hidden) \in 1 .. Len(rows)
      /\ p.line <= Hidden => top = 0
  BY AtTopIs
<1>7. PICK total \in Nat, above \in Nat : total = Len(rows) /\ above = Above(w, Hidden)
  BY TrueRowsAre
<1>8. ASSUME NEW t \in Nat, t = top, t < total,
             NEW line \in 1 .. Len(log), NEW q \in 1 .. Len(Starts[log[line]][w]),
             above + (t + 1) = Above(w, line - 1) + q
      PROVE  a.valid /\ a.logical + Evicted + 1 = line /\ a.byte = Starts[log[line]][w][q]
  <2>1. PICK r \in 1 .. total : r = t + 1  BY <1>8
  <2> DEFINE n == Hidden + rows[r].n
             byte == rows[r].byte
  <2>2. /\ n \in 1 .. Len(log)
        /\ \E j \in 1 .. Len(Starts[log[n]][w]) :
              byte = Starts[log[n]][w][j] /\ above + r = Above(w, n - 1) + j
      BY <1>7, PlaceOfRow
  <2> HIDE DEF n, byte
  <2>3. PICK j \in 1 .. Len(Starts[log[n]][w]) :
          byte = Starts[log[n]][w][j] /\ above + r = Above(w, n - 1) + j
      BY <2>2
  <2>4. Above(w, line - 1) + q = Above(w, n - 1) + j  BY <1>8, <2>1, <2>3, Zenon
  <2>5. line = n /\ q = j  BY <2>2, <2>4, OneRow, SMTT(30)
  <2>6. a.valid  BY <1>5, <1>7, <1>8
  <2>7. Evicted + a.logical + 1 = n /\ a.byte = byte /\ a.logical \in Nat
    <3>1. top + 1 = r  BY <1>8, <2>1
    <3>2. a.logical \in 0 .. ring.count - 1  BY <1>5, <2>6
    <3> HIDE DEF a, rows, top
    <3> QED  BY <1>5, <2>6, <3>1, <3>2 DEF n, byte
  <2> HIDE DEF a
  <2>8. a.logical + Evicted + 1 = n  BY <1>4, <2>7
  <2> QED  BY <2>3, <2>5, <2>6, <2>7, <2>8
<1> HIDE DEF a, rows, top
<1>9. CASE p.line > Hidden
  <2>1. PICK R \in Nat : R = RowAt(p, w)  BY <1>1, PlaceIs
  <2>2. top + 1 = R - above /\ R - above \in 1 .. total  BY <1>6, <1>7, <1>9, <2>1
  <2>3. PICK t \in Nat : t = top /\ t < total /\ above + (t + 1) = R
    <3>1. PICK t \in Nat : t = R - above - 1  BY <2>2
    <3>2. top \in Nat  BY <1>1, <1>7 DEF top, Monus
    <3>3. t = top /\ t < total /\ above + (t + 1) = R  BY <2>2, <3>1, <3>2
    <3> QED  BY <3>3
  <2>4. above + (t + 1) = Above(w, p.line - 1) + k  BY <1>3, <2>1, <2>3
  <2>5. a.valid /\ a.logical + Evicted + 1 = p.line /\ a.byte = p.byte
      BY <1>2, <1>4, <1>8, <2>3, <2>4
  <2> QED  BY <1>9, <2>5 DEF SavedBy, a
<1>10. CASE ~(p.line > Hidden)
  <2>1. p.line <= Hidden /\ top = 0  BY <1>4, <1>6, <1>10
  <2>2. PICK line \in 1 .. Len(log) : line = Hidden + 1  BY <1>4
  <2>3. log[line] \in Lines /\ line - 1 = Hidden
    <3>1. log[line] \in Lines  BY DEF StoreInv, StoreType
    <3> QED  BY <1>4, <2>2, <3>1
  <2>4. PICK q \in 1 .. Len(Starts[log[line]][w]) : q = 1 /\ Starts[log[line]][w][q] = 0
    <3>1. Len(Starts[log[line]][w]) \in Nat \ {0} /\ Starts[log[line]][w][1] = 0
        BY <2>3, StartsAre
    <3> QED  BY <3>1
  <2>5. 0 < total
    <3>1. line \in 0 .. Len(log) /\ Len(log) \in line .. Len(log)  BY <1>4
    <3>2. /\ Above(w, line) = Above(w, line - 1) + Len(Starts[log[line]][w])
          /\ Len(Starts[log[line]][w]) \in Nat \ {0} /\ Above(w, line) <= Above(w, Len(log))
          /\ Above(w, line) \in Nat
        BY <3>1, AboveAre
    <3>3. total = Above(w, Len(log)) - above  BY <1>7, TrueRowsAre DEF rows
    <3>4. Above(w, Len(log)) \in Nat
      <4>1. Len(log) \in 0 .. Len(log)  BY <1>4
      <4> QED  BY <4>1, AboveAre
    <3>5. PICK size \in Nat \ {0}, all \in Nat :
            size = Len(Starts[log[line]][w]) /\ all = Above(w, Len(log)) /\ above + size <= all
        BY <1>7, <2>3, <3>2, <3>4
    <3> QED  BY <3>3, <3>5
  <2>6. above + (0 + 1) = Above(w, line - 1) + q  BY <1>7, <2>3, <2>4
  <2>7. a.valid /\ a.logical + Evicted + 1 = line /\ a.byte = 0
    <3>1. PICK t \in Nat : t = 0  OBVIOUS
    <3>2. t = top /\ t < total /\ above + (t + 1) = Above(w, line - 1) + q
        BY <2>1, <2>5, <2>6, <3>1
    <3>3. a.valid /\ a.logical + Evicted + 1 = line /\ a.byte = Starts[log[line]][w][q]
        BY <1>8, <3>2
    <3> QED  BY <2>4, <3>3
  <2>8. a.logical = Hidden - Evicted
    <3>1. a.logical \in Nat
      <4>1. a.logical \in 0 .. ring.count - 1  BY <1>5, <2>7
      <4> QED  BY <4>1
    <3> QED  BY <1>4, <2>2, <2>7, <3>1, SMTT(30)
  <2> QED  BY <2>1, <2>7, <2>8 DEF SavedBy, a
<1> QED  BY <1>9, <1>10

\* The first row of a view is a place, and its anchor is kept for it.
LEMMA HereAnchor ==
    ASSUME StoreInv, NEW w \in Widths, NEW off \in Nat \ {0}, Height \in Nat \ {0},
           AnchorBefore(IndexOf(w), off).valid
    PROVE  LET p == Here(TrueRows(w), off, Height)
           IN p \in Places /\ p.line > Hidden /\ SavedBy(AnchorBefore(IndexOf(w), off), p)
<1> DEFINE a == AnchorBefore(IndexOf(w), off)
           rows == TrueRows(w)
           top == Monus(Len(rows), off + Height)
           p == Here(rows, off, Height)
<1>1. /\ top < Len(rows) /\ a.logical \in 0 .. ring.count - 1
      /\ Evicted + a.logical + 1 = Hidden + rows[top + 1].n
      /\ a.byte = rows[top + 1].byte
  BY AnchorIs
<1>2. Len(rows) \in Nat /\ Hidden \in Nat /\ Evicted \in Nat /\ Len(log) \in Nat
      /\ ring.count \in Nat
  BY TrueRowsAre, HiddenIs, RetainedAre
<1>3. PICK r \in 1 .. Len(rows) : r = top + 1
  <2>1. top \in Nat  BY <1>2 DEF Monus
  <2> QED  BY <1>1, <1>2, <2>1
<1> DEFINE n == Hidden + rows[r].n
           byte == rows[r].byte
<1>4. /\ n \in Hidden + 1 .. Len(log) /\ n \in 1 .. Len(log) /\ log[n] \in Lines
      /\ \E k \in 1 .. Len(Starts[log[n]][w]) : byte = Starts[log[n]][w][k]
  BY <1>3, PlaceOfRow, ZenonT(60)
<1>5. byte \in Nat  BY <1>4, StartsAre
<1>6. p = [line |-> n, byte |-> byte]  BY <1>3 DEF Here
<1>7. Evicted + a.logical + 1 = n /\ a.byte = byte  BY <1>1, <1>3
<1> HIDE DEF n, byte, p, a, rows, top
<1>8. p.line = n /\ p.byte = byte /\ n > Hidden /\ p \in Places
  BY <1>2, <1>4, <1>5, <1>6 DEF Places
<1>9. ring.count > 0 /\ a.logical + Evicted + 1 = n  BY <1>1, <1>2, <1>7
<1>10. a.valid  BY DEF a
<1>11. SavedBy(a, p)  BY <1>7, <1>8, <1>9, <1>10 DEF SavedBy
<1> QED  BY <1>8, <1>11 DEF a, p, rows

\* A place's view is as the rows allow.
LEMMA ViewAtFits ==
    ASSUME StoreInv, NEW w \in Widths, NEW p \in Places, NEW height \in Nat
    PROVE  /\ ViewAt(p, w, height) \in Nat
           /\ Minimum(ViewAt(p, w, height), Monus(Len(TrueRows(w)), height)) = ViewAt(p, w, height)
<1>1. PICK total \in Nat, above \in Nat : total = Len(TrueRows(w)) /\ above = Above(w, Hidden)
  BY TrueRowsAre
<1>2. PICK R \in Nat : R = RowAt(p, w)  BY PlaceIs
<1>3. PICK x \in Nat : x = Monus(R - 1, above)
  <2>1. Monus(R - 1, above) \in Nat  BY DEF Monus
  <2> QED  BY <2>1
<1>4. ViewAt(p, w, height) = Monus(total, x + height)  BY <1>1, <1>2, <1>3 DEF ViewAt
<1>5. PICK v \in Nat, m \in Nat : v = Monus(total, x + height) /\ m = Monus(total, height) /\ v <= m
  <2>1. Monus(total, x + height) \in Nat /\ Monus(total, height) \in Nat
        /\ Monus(total, x + height) <= Monus(total, height)
      BY DEF Monus
  <2> QED  BY <2>1
<1>6. Minimum(v, m) = v  BY <1>5 DEF Minimum
<1> QED  BY <1>1, <1>4, <1>5, <1>6

\* kui_anchor_after_resize finds the view again that the anchor was kept for.
LEMMA SavedView ==
    ASSUME StoreInv, NEW w \in Widths, NEW p \in Places, NEW a \in Anchors, NEW height \in Nat,
           SavedBy(a, p), Hidden < Len(log)
    PROVE  AnchorAfter(IndexOf(w), height, a) = ViewAt(p, w, height)
<1> DEFINE line == Evicted + Minimum(a.logical, ring.count - 1) + 1
           q == [line |-> line, byte |-> a.byte]
<1>1. /\ Hidden \in Nat /\ Evicted \in Nat /\ Len(log) \in Nat /\ ring.count \in Nat
      /\ Len(log) - Evicted = ring.count /\ a.logical \in Nat /\ Evicted <= Hidden
  BY HiddenIs, RetainedAre DEF Anchors
<1>2. p.line \in 1 .. Len(log) /\ p.byte \in Nat /\ p = [line |-> p.line, byte |-> p.byte]
  BY DEF Places
<1>3. /\ line \in 1 .. Len(log)
      /\ AnchorAfter(IndexOf(w), height, a)
           = Monus(Len(TrueRows(w)), Monus(RowAt(q, w) - 1, Above(w, Hidden)) + height)
  BY OffsetIs DEF SavedBy
<1>4. CASE a.logical + Evicted + 1 = p.line /\ a.byte = p.byte
  <2>1. a.logical <= ring.count - 1  BY <1>1, <1>2, <1>4
  <2>2. Minimum(a.logical, ring.count - 1) = a.logical  BY <1>1, <2>1 DEF Minimum
  <2>3. line = p.line  BY <1>1, <1>4, <2>2
  <2>4. q = p  BY <1>2, <1>4, <2>3
  <2> HIDE DEF q
  <2> QED  BY <1>3, <2>4, Zenon DEF ViewAt
<1>5. CASE a.logical = Hidden - Evicted /\ a.byte = 0 /\ p.line <= Hidden
  <2>1. Minimum(a.logical, ring.count - 1) = a.logical
    <3>1. a.logical <= ring.count - 1  BY <1>1, <1>5
    <3> QED  BY <1>1, <3>1 DEF Minimum
  <2>2. line = Hidden + 1  BY <1>1, <1>5, <2>1
  <2>3. PICK n \in 1 .. Len(log) : n = line /\ n - 1 = Hidden /\ log[n] \in Lines
    <3>1. Hidden + 1 \in 1 .. Len(log)  BY <1>1
    <3>2. PICK n \in 1 .. Len(log) : n = Hidden + 1  BY <3>1
    <3>3. log[n] \in Lines  BY DEF StoreInv, StoreType
    <3> QED  BY <1>1, <2>2, <3>2, <3>3
  <2> HIDE DEF line
  <2>4. q = [line |-> n, byte |-> 0] /\ q \in [line : 1 .. Len(log), byte : Nat] /\ q.line = n
        /\ q.byte = 0
      BY <1>5, <2>3
  <2> HIDE DEF q
  <2>5. PICK k \in 1 .. Len(Starts[log[q.line]][w]) : k = 1 /\ q.byte = Starts[log[q.line]][w][k]
    <3>1. Len(Starts[log[n]][w]) \in Nat \ {0} /\ Starts[log[n]][w][1] = 0  BY <2>3, StartsAre
    <3>2. 1 \in 1 .. Len(Starts[log[n]][w])  BY <3>1
    <3> QED  BY <2>4, <3>1, <3>2
  <2>6. RowAt(q, w) = Above(w, q.line - 1) + k  BY <2>4, <2>5, RowOfPlace, Zenon
  <2>7. PICK above \in Nat : above = Above(w, Hidden)  BY TrueRowsAre
  <2>8. RowAt(q, w) = above + 1  BY <2>3, <2>4, <2>5, <2>6, <2>7
  <2>9. Monus(RowAt(q, w) - 1, above) = 0
    <3>1. RowAt(q, w) - 1 = above  BY <2>7, <2>8
    <3> QED  BY <3>1 DEF Monus
  <2>10. Monus(RowAt(p, w) - 1, above) = 0
    <3>1. p.line \in 0 .. Len(log) /\ Hidden \in p.line .. Len(log)  BY <1>1, <1>2, <1>5, SMTT(30)
    <3>2. Above(w, p.line) <= above  BY <2>7, <3>1, AboveAre
    <3>3. PICK R \in Nat, b \in Nat : R = RowAt(p, w) /\ b = Above(w, p.line) /\ R <= b
        BY PlaceIs
    <3>4. ~(R - 1 > above)  BY <3>2, <3>3
    <3> QED  BY <3>3, <3>4 DEF Monus
  <2> QED  BY <1>3, <2>7, <2>9, <2>10, Zenon DEF ViewAt
<1> QED  BY <1>4, <1>5 DEF SavedBy

-------------------------------------------------------------------------------
(* The reader's place, for every step.                                     *)

\* A place in the output, which is kept only while a line is typed at: a page has it at its
\* top, and a window too small for one an anchor.
PlaceHeld ==
    /\ Asked /\ place \in Places
    /\ mode = "frame" => frame < place.line
    /\ small => SavedBy(saved, place)
    /\ ~small => /\ term # NoSize
                 /\ layout = [top |-> banner.height + 1,
                              bottom |-> term.rows - (IF churn THEN 2 ELSE 1)]
                 /\ AtTop(place, Wrap(term.cols), offset, Height)
                 /\ fresh => place.line > Hidden
PlaceInv ==
    /\ place \in {Following, Lost} \/ PlaceHeld
    /\ place = Following => offset = 0 /\ ~saved.valid

\* A place is not the end of the output.
LEMMA PlacesAre == \A p \in Places : p.line > 0 /\ p # Following /\ p # Lost /\ Following # Lost
<1> TAKE p \in Places
<1>1. p.line \in 1 .. Len(log)  BY DEF Places
<1>2. Following.line = 0 /\ Lost.line = 0 /\ Following.byte = 0 /\ Lost.byte = 1
  BY DEF Following, Lost
<1>3. p.line # 0 /\ p.line > 0  BY <1>1
<1> QED  BY <1>2, <1>3

\* To follow the output is not to have lost the place.
LEMMA EndsDiffer == Following # Lost
<1>1. Following.byte = 0 /\ Lost.byte = 1  BY DEF Following, Lost
<1> QED  BY <1>1

\* The rows above a line are the same when another is output.
LEMMA AboveLater ==
    ASSUME StoreInv, NEW l \in Lines, OutputEvent(l), StoreInv', NEW w \in Widths
    PROVE  /\ log' = Append(log, l) /\ Len(log') = Len(log) + 1
           /\ \A n \in 1 .. Len(log) : log'[n] = log[n]
           /\ \A n \in 0 .. Len(log) : Sums(RowCounts(log', w))[n + 1] = Above(w, n)
           /\ Sums(RowCounts(log', w))[Len(log') + 1]
                = Above(w, Len(log)) + Len(Starts[l][w])
<1> DEFINE a == RowCounts(log, w)
           b == RowCounts(log', w)
           L == Len(log)
<1>1. log' = Append(log, l) /\ log \in Seq(Lines) /\ log' \in Seq(Lines) /\ L \in Nat
  BY DEF OutputEvent, StoreInv, StoreType
<1>2. Len(log') = L + 1 /\ (\A n \in 1 .. L : log'[n] = log[n]) /\ log'[L + 1] = l  BY <1>1
<1>3. /\ a \in Seq(Nat) /\ Len(a) = L
      /\ \A i \in 1 .. L : a[i] = Len(Starts[log[i]][w])
  BY <1>1, CountsAre
<1>4. /\ b \in Seq(Nat) /\ Len(b) = L + 1
      /\ \A i \in 1 .. L + 1 : b[i] = Len(Starts[log'[i]][w])
  <2>1. /\ b \in Seq(Nat) /\ Len(b) = Len(log')
        /\ \A i \in 1 .. Len(log') : b[i] = Len(Starts[log'[i]][w])
    <3>1. PICK lines \in Seq(Lines) : lines = log'  BY <1>1
    <3>2. /\ RowCounts(lines, w) \in Seq(Nat) /\ Len(RowCounts(lines, w)) = Len(lines)
          /\ \A i \in 1 .. Len(lines) : RowCounts(lines, w)[i] = Len(Starts[lines[i]][w])
        BY CountsAre
    <3> QED  BY <3>1, <3>2, Zenon
  <2> HIDE DEF b
  <2> QED  BY <1>2, <2>1
<1> HIDE DEF a, b
<1>5. Agree(a, b, 0, 0, L)
  <2>1. 0 + L <= Len(a) /\ 0 + L <= Len(b)  BY <1>1, <1>3, <1>4
  <2>2. ASSUME NEW k \in 1 .. L PROVE a[0 + k] = b[0 + k]
    <3>1. 0 + k = k /\ k \in 1 .. L + 1  BY <1>1
    <3> QED  BY <1>2, <1>3, <1>4, <3>1
  <2> QED  BY <2>1, <2>2 DEF Agree
<1>6. GrowAlike(a, b, 0, 0, L)
  <2>1. PICK z \in Nat : z = 0  OBVIOUS
  <2>2. Agree(a, b, z, z, L)  BY <1>5, <2>1, Zenon
  <2>3. GrowAlike(a, b, z, z, L)  BY <1>1, <1>3, <1>4, <2>2, SumsAgree, Zenon
  <2> QED  BY <2>1, <2>3, Zenon
<1>7. /\ Sums(a)[1] = 0 /\ \A k \in 1 .. L + 1 : Sums(a)[k] \in Nat
  BY <1>3, SumsAre
<1>8. /\ Sums(b)[1] = 0 /\ (\A k \in 1 .. L + 2 : Sums(b)[k] \in Nat)
      /\ Sums(b)[(L + 1) + 1] = Sums(b)[L + 1] + b[L + 1]
  <2>1. /\ Sums(b)[1] = 0 /\ (\A k \in 1 .. Len(b) + 1 : Sums(b)[k] \in Nat)
        /\ \A k \in 1 .. Len(b) : Sums(b)[k + 1] = Sums(b)[k] + b[k]
      BY <1>4, SumsAre
  <2>2. L + 1 \in 1 .. Len(b) /\ Len(b) + 1 = L + 2  BY <1>1, <1>4
  <2> QED  BY <2>1, <2>2
<1>9. \A n \in 0 .. L : Sums(b)[n + 1] = Sums(a)[n + 1]
  <2> TAKE n \in 0 .. L
  <2>1. Sums(a)[0 + n + 1] - Sums(a)[0 + 1] = Sums(b)[0 + n + 1] - Sums(b)[0 + 1]
      BY <1>6 DEF GrowAlike
  <2>2. 0 + n + 1 = n + 1 /\ 0 + 1 = 1 /\ n + 1 \in 1 .. L + 1 /\ n + 1 \in 1 .. L + 2  BY <1>1
  <2>3. PICK x \in Nat, y \in Nat : x = Sums(a)[n + 1] /\ y = Sums(b)[n + 1]
      BY <1>7, <1>8, <2>2
  <2>4. x - 0 = y - 0  BY <1>7, <1>8, <2>1, <2>2, <2>3
  <2>5. x = y  BY <2>4
  <2> QED  BY <2>3, <2>5
<1>10. Sums(b)[Len(log') + 1] = Above(w, L) + Len(Starts[l][w])
  <2>1. b[L + 1] = Len(Starts[l][w])  BY <1>1, <1>2, <1>4
  <2>2. Sums(b)[L + 1] = Sums(a)[L + 1]
    <3>1. L \in 0 .. L  BY <1>1
    <3> QED  BY <1>9, <3>1
  <2> QED  BY <1>2, <1>8, <2>1, <2>2 DEF Above, a
<1> QED  BY <1>1, <1>2, <1>9, <1>10 DEF Above, a, b

\* What the page is made of, with a place in it, stays.
LEMMA PlaceStays ==
    ASSUME PlaceInv, UNCHANGED <<output, mode, frame, churn, offset>>,
           UNCHANGED <<term, small, layout, saved, place>>, banner'.height = banner.height,
           fresh' => fresh, Asked => Asked'
    PROVE  PlaceInv'
<1>1. /\ log' = log /\ ring' = ring /\ Evicted' = Evicted /\ Hidden' = Hidden
      /\ \A w, n : Above(w, n)' = Above(w, n)
  BY SameRows
<1>2. place \in {Following, Lost} => place' \in {Following', Lost'}  BY DEF Following, Lost
<1>3. PlaceHeld => PlaceHeld'
  <2> SUFFICES ASSUME PlaceHeld PROVE PlaceHeld'  OBVIOUS
  <2>1. Asked' /\ place' \in Places'  BY <1>1 DEF PlaceHeld, Places
  <2>2. mode' = "frame" => frame' < place'.line  BY DEF PlaceHeld
  <2>3. small' => SavedBy(saved, place)'  BY <1>1 DEF PlaceHeld, SavedBy
  <2>4. Height' = Height  BY DEF Height
  <2>5. AtTop(place, Wrap(term.cols), offset, Height)'
          <=> AtTop(place, Wrap(term.cols), offset, Height)
      BY <1>1, <2>4 DEF AtTop, Places, RowAt, Above
  <2>6. ~small' => /\ term' # NoSize
                   /\ layout' = [top |-> banner'.height + 1,
                                 bottom |-> term'.rows - (IF churn' THEN 2 ELSE 1)]
                   /\ fresh' => place'.line > Hidden'
      BY <1>1 DEF PlaceHeld
  <2>7. ~small' => AtTop(place, Wrap(term.cols), offset, Height)'  BY <2>5 DEF PlaceHeld
  <2> QED  BY <2>1, <2>2, <2>3, <2>6, <2>7 DEF PlaceHeld, NoSize
<1>4. place' = Following' => offset' = 0 /\ ~saved'.valid  BY DEF PlaceInv, Following
<1> QED  BY <1>2, <1>3, <1>4 DEF PlaceInv

\* A reader who follows the output, or whose place is lost.
LEMMA PlaceLeft ==
    ASSUME place' \in {Following, Lost}, place' = Following => offset' = 0 /\ ~saved'.valid
    PROVE  PlaceInv'
<1>1. Following' = Following /\ Lost' = Lost  BY DEF Following, Lost
<1> QED  BY <1>1 DEF PlaceInv

\* A place an anchor is kept for.
LEMMA PlaceSaved ==
    ASSUME UNCHANGED <<output, mode, frame>>, NEW a, NEW p \in Places, saved' = a, place' = p,
           small', Asked', mode = "frame" => frame < p.line, SavedBy(a, p)
    PROVE  PlaceInv'
<1>1. log' = log /\ ring' = ring /\ Evicted' = Evicted /\ Hidden' = Hidden  BY SameRows
<1>2. place' \in Places' /\ (mode' = "frame" => frame' < place'.line)  BY <1>1 DEF Places
<1>3. SavedBy(saved, place)'  BY <1>1 DEF SavedBy
<1>4. PlaceHeld'  BY <1>2, <1>3 DEF PlaceHeld
<1>5. place' # Following'
  <2>1. Following' = Following  BY DEF Following
  <2> QED  BY <2>1, PlacesAre
<1> QED  BY <1>4, <1>5 DEF PlaceInv

\* A place a page has at its top.
LEMMA PlaceOnTop ==
    ASSUME StoreInv, UNCHANGED <<output, mode, frame, churn, tty>>, NEW now, NEW p,
           offset' = now, place' = p, small' = FALSE, term' = tty, Asked',
           layout' = [top |-> Top, bottom |-> Bottom], banner'.height = banner.height,
           mode = "frame" => frame <= Hidden, AtTop(p, Wide, now, High), p.line > Hidden
    PROVE  PlaceInv'
<1>1. /\ log' = log /\ ring' = ring /\ Evicted' = Evicted /\ Hidden' = Hidden
      /\ \A w, n : Above(w, n)' = Above(w, n)
  BY SameRows
<1>2. p \in Places  BY DEF AtTop
<1>3. place' \in Places'  BY <1>1, <1>2 DEF Places
<1>4. mode' = "frame" => frame' < place'.line
  <2>1. p.line \in Nat /\ Hidden \in Nat /\ frame \in Nat
    <3>1. p.line \in 1 .. Len(log) /\ frame \in 0 .. Len(log)
        BY <1>2 DEF Places, StoreInv, StoreType
    <3> QED  BY <3>1, HiddenIs
  <2> QED  BY <2>1
<1>5. term' # NoSize'
  <2>1. tty.rows \in Nat \ {0}  BY SizeAssumption DEF StoreInv, StoreType
  <2> QED  BY <2>1 DEF NoSize
<1>6. layout' = [top |-> banner'.height + 1, bottom |-> term'.rows - (IF churn' THEN 2 ELSE 1)]
  BY DEF Top, Bottom
<1>7. Height' = High  BY DEF Height, High
<1>8. AtTop(place, Wrap(term.cols), offset, Height)'
  BY <1>1, <1>7 DEF AtTop, Places, RowAt, Above, Wide
<1>9. place'.line > Hidden'  BY <1>1
<1>10. PlaceHeld'  BY <1>3, <1>4, <1>5, <1>6, <1>8, <1>9 DEF PlaceHeld
<1>11. place' # Following'
  <2>1. Following' = Following  BY DEF Following
  <2> QED  BY <1>2, <2>1, PlacesAre
<1> QED  BY <1>10, <1>11 DEF PlaceInv

\* A place the reader has just chosen, on the page that is left.
LEMMA ChosenIs ==
    ASSUME StoreInv, PageType, LayoutInv, NEW off \in Nat, ResizeAnchor(off).valid
    PROVE  LET p == Here(TrueRows(Wrap(term.cols)), off, Height)
           IN /\ p \in Places /\ p.line > Hidden /\ SavedBy(ResizeAnchor(off), p)
              /\ Hidden < Len(log) /\ ~small /\ (mode = "frame" => frame < p.line)
<1> DEFINE p == Here(TrueRows(Wrap(term.cols)), off, Height)
<1>1. LeavesView(off)
  <2>1. ~NoAnchor.valid  BY DEF NoAnchor
  <2> QED  BY <2>1, LeftIs
<1>2. ~small /\ off \in Nat \ {0}  BY <1>1 DEF LeavesView, HasView
<1>3. /\ Height \in Nat \ {0} /\ Wrap(term.cols) \in Widths
      /\ ResizeAnchor(off) = AnchorBefore(IndexOf(Wrap(term.cols)), off)
  BY <1>1, LeftIs
<1>4. p \in Places /\ p.line > Hidden /\ SavedBy(ResizeAnchor(off), p)
  <2>1. PICK w \in Widths : w = Wrap(term.cols)  BY <1>3
  <2>2. AnchorBefore(IndexOf(w), off).valid  BY <1>3, <2>1
  <2>3. /\ Here(TrueRows(w), off, Height) \in Places
        /\ Here(TrueRows(w), off, Height).line > Hidden
        /\ SavedBy(AnchorBefore(IndexOf(w), off), Here(TrueRows(w), off, Height))
      BY <1>2, <1>3, <2>2, HereAnchor, Zenon
  <2> QED  BY <1>3, <2>1, <2>3, Zenon
<1> HIDE DEF p
<1>5. p.line \in 1 .. Len(log) /\ Len(log) \in Nat /\ Hidden \in Nat /\ frame \in Nat
  <2>1. p.line \in 1 .. Len(log) /\ frame \in 0 .. Len(log)
      BY <1>4 DEF Places, StoreInv, StoreType
  <2> QED  BY <2>1, HiddenIs, RetainedAre
<1>6. Hidden < Len(log)  BY <1>4, <1>5
<1>7. mode = "frame" => frame < p.line
  <2>1. Hidden = IF mode = "frame" /\ frame > Evicted THEN frame ELSE Evicted  BY DEF Hidden
  <2>2. Evicted \in Nat  BY <1>5, RetainedAre
  <2>3. mode = "frame" => frame <= Hidden  BY <1>5, <2>1, <2>2
  <2> QED  BY <1>4, <1>5, <2>3
<1> QED  BY <1>2, <1>4, <1>6, <1>7 DEF p

\* A page with a place at its top leaves an anchor of it.
LEMMA HeldSaves ==
    ASSUME StoreInv, PageType, LayoutInv, PlaceHeld, ~small, LeavesView(offset)
    PROVE  SavedBy(ResizeAnchor(offset), place)
<1>1. /\ Height \in Nat \ {0} /\ Wrap(term.cols) \in Widths
      /\ ResizeAnchor(offset) = AnchorBefore(IndexOf(Wrap(term.cols)), offset)
  <2>1. offset \in Nat  BY DEF PageType
  <2> QED  BY <2>1, LeftIs
<1>2. place \in Places /\ AtTop(place, Wrap(term.cols), offset, Height)  BY DEF PlaceHeld
<1>3. Hidden < Len(log) /\ ring.count > 0  BY <1>2, PlaceShows DEF PlaceHeld
<1> QED  BY <1>1, <1>2, <1>3, AnchorSaves

\* A page that gives way to the notice.
LEMMA SmallKeeps ==
    ASSUME StoreInv, PageType, LayoutInv, PlaceInv, NEW off \in Nat, NEW chosen \in BOOLEAN,
           RenderSmall(off, chosen), UNCHANGED <<output, mode, frame, churn, tty>>,
           chosen => Asked, ~chosen => off = offset, Asked => Asked'
    PROVE  PlaceInv'
<1> DEFINE a == ResizeAnchor(off)
<1>1. /\ TooLow \/ NoRoom
      /\ small' = TRUE /\ offset' = off /\ saved' = (IF a.valid THEN a ELSE saved)
      /\ place' = IF ~chosen \/ saved'.valid THEN Sought(off, chosen)
                  ELSE IF off = 0 THEN Following ELSE Lost
  BY DEF RenderSmall
<1>2. Sought(off, chosen) = IF chosen /\ a.valid THEN Here(TrueRows(Wrap(term.cols)), off, Height)
                            ELSE place
  BY DEF Sought
<1>3. UNCHANGED <<output, mode, frame>>  OBVIOUS
<1>4. a.valid => LeavesView(off)
  <2>1. ~NoAnchor.valid  BY DEF NoAnchor
  <2> QED  BY <2>1, LeftIs
<1>5. saved.valid => small  BY DEF LayoutInv
<1>6. LeavesView(off) => ~small /\ off > 0  BY DEF LeavesView, HasView
<1> HIDE DEF a
<1>7. CASE chosen /\ a.valid
  <2>1. PICK p \in Places : /\ p = Here(TrueRows(Wrap(term.cols)), off, Height)
                            /\ SavedBy(a, p) /\ (mode = "frame" => frame < p.line)
      BY <1>7, ChosenIs DEF a
  <2>2. saved' = a /\ place' = p  BY <1>1, <1>2, <1>7, <2>1
  <2> QED  BY <1>1, <1>3, <1>7, <2>1, <2>2, PlaceSaved
<1>8. CASE PlaceHeld /\ ~(chosen /\ a.valid) /\ (~chosen \/ saved'.valid)
  <2>1. place' = place /\ place \in Places /\ Asked' /\ (mode = "frame" => frame < place.line)
      BY <1>1, <1>2, <1>8 DEF PlaceHeld
  <2>2. ~small => ~chosen
    <3>1. chosen => saved' = saved  BY <1>1, <1>8
    <3> QED  BY <1>5, <1>8, <3>1
  <2>3. CASE small
    <3>1. SavedBy(saved, place)  BY <1>8, <2>3 DEF PlaceHeld
    <3>2. saved' = saved  BY <1>1, <1>4, <1>6, <2>3
    <3> QED  BY <1>1, <1>3, <2>1, <3>1, <3>2, PlaceSaved
  <2>4. CASE ~small
    <3>1. term # NoSize /\ AtTop(place, Wrap(term.cols), offset, Height)
          /\ layout.top = banner.height + 1
        BY <1>8, <2>4 DEF PlaceHeld
    <3>2. Up /\ term \in Sizes  BY <2>4, <3>1 DEF Up, StoreInv, StoreType
    <3>3. SizeChanged
      <4>1. /\ layout.bottom \in layout.top .. term.rows - 1
            /\ ~(term.rows < MinRows \/ term.cols < MinCols)
          BY <3>2 DEF LayoutInv
      <4>2. banner.height \in Nat /\ term.rows \in Nat
          BY <3>2, SizeAssumption, BannerAssumption DEF PageType
      <4>3. ~(banner.height >= term.rows - 1)  BY <3>1, <4>1, <4>2
      <4> QED  BY <1>1, <4>1, <4>3 DEF TooLow, NoRoom, SizeChanged
    <3>4. HasView(offset)
      <4>1. ring.count > 0  BY <2>1, PlaceShows
      <4>2. offset > 0  BY <3>1 DEF AtTop
      <4>3. layout.top > 0
        <5>1. PICK b \in Nat : b = banner.height  BY BannerAssumption DEF PageType
        <5> QED  BY <3>1, <5>1
      <4> QED  BY <4>1, <4>2, <4>3 DEF HasView
    <3>5. LeavesView(offset)  BY <2>4, <3>1, <3>3, <3>4 DEF LeavesView
    <3>6. SavedBy(ResizeAnchor(offset), place)  BY <1>8, <2>4, <3>5, HeldSaves
    <3>7. off = offset  BY <2>2, <2>4
    <3>8. SavedBy(a, place)  BY <3>6, <3>7 DEF a
    <3>9. saved' = a  BY <1>1, <3>8 DEF SavedBy
    <3> QED  BY <1>1, <1>3, <2>1, <3>8, <3>9, PlaceSaved
  <2> QED  BY <2>3, <2>4
<1>9. CASE place \in {Following, Lost} /\ ~(chosen /\ a.valid) /\ (~chosen \/ saved'.valid)
  <2>1. place' = place  BY <1>1, <1>2, <1>9
  <2>2. place = Following => offset' = 0 /\ ~saved'.valid
    <3>1. ASSUME place = Following PROVE offset' = 0 /\ ~saved'.valid
      <4>1. offset = 0 /\ ~saved.valid  BY <3>1 DEF PlaceInv
      <4>2. ~chosen
        <5>1. chosen => saved' = saved  BY <1>1, <1>9
        <5> QED  BY <1>9, <4>1, <5>1
      <4>3. off = 0  BY <4>1, <4>2
      <4>4. saved' = saved  BY <1>1, <1>4, <1>6, <4>3
      <4> QED  BY <1>1, <4>1, <4>3, <4>4
    <3> QED  BY <3>1
  <2> QED  BY <1>9, <2>1, <2>2, PlaceLeft
<1>10. CASE chosen /\ ~saved'.valid
  <2>1. place' = IF off = 0 THEN Following ELSE Lost  BY <1>1, <1>10
  <2> QED  BY <1>1, <1>10, <2>1, EndsDiffer, PlaceLeft
<1> QED  BY <1>7, <1>8, <1>9, <1>10 DEF PlaceInv

\* What the next page has to put at its top, unless the reader has chosen by rows: the place
\* kept, or that of the reader's choice on a page the resize left.
LEMMA SoughtIs ==
    ASSUME StoreInv, PageType, LayoutInv, PlaceInv, NEW off \in Nat, NEW chosen \in BOOLEAN,
           ~NoRoom, chosen => Asked, ~chosen => off = offset, PageAnchor(off).valid \/ ~chosen
    PROVE  /\ Sought(off, chosen) \in {Following, Lost} \cup Places
           /\ Sought(off, chosen) = Following => PageView(off).offset = 0
           /\ Sought(off, chosen) \in Places =>
                 /\ Asked /\ (mode = "frame" => frame <= Hidden)
                 /\ PageView(off).offset = ViewAt(Sought(off, chosen), Wide, High)
<1> DEFINE a == ResizeAnchor(off)
           s == Sought(off, chosen)
           now == PageView(off).offset
           most == Monus(Len(TrueRows(Wide)), High)
<1>1. s = IF chosen /\ a.valid THEN Here(TrueRows(Wrap(term.cols)), off, Height) ELSE place
  BY DEF Sought
<1>2. a.valid => LeavesView(off)
  <2>1. ~NoAnchor.valid  BY DEF NoAnchor
  <2> QED  BY <2>1, LeftIs
<1>3. saved.valid => small  BY DEF LayoutInv
<1>4. LeavesView(off) => ~small /\ off > 0  BY DEF LeavesView, HasView
<1>5. /\ High \in Nat \ {0} /\ Wide \in Widths
      /\ now = Minimum(Wanted(off), most)
  <2>1. Wide \in Widths  BY DEF Wide, Widths, StoreInv, StoreType
  <2> QED  BY <2>1, RoomIs, PageIs
<1>6. ~saved.valid => PageAnchor(off) = a  BY DEF PageAnchor
<1> HIDE DEF a, s
<1>7. ASSUME NEW p \in Places, SavedBy(PageAnchor(off), p), Hidden < Len(log)
      PROVE  now = ViewAt(p, Wide, High)
  <2>1. PageAnchor(off).valid /\ ring.count > 0  BY <1>7 DEF SavedBy
  <2>2. Wanted(off) = AnchorAfter(IndexOf(Wide), High, PageAnchor(off))  BY <2>1, WantedIs
  <2>3. PICK b \in Anchors : b = PageAnchor(off)  BY LeftIs
  <2>4. AnchorAfter(IndexOf(Wide), High, b) = ViewAt(p, Wide, High)
      BY <1>5, <1>7, <2>3, SavedView
  <2>5. Minimum(ViewAt(p, Wide, High), most) = ViewAt(p, Wide, High)  BY <1>5, ViewAtFits
  <2> QED  BY <1>5, <2>2, <2>3, <2>4, <2>5, Zenon
<1>8. CASE chosen /\ a.valid
  <2>1. PICK p \in Places : /\ p = s /\ SavedBy(a, p) /\ Hidden < Len(log)
      BY <1>1, <1>8, ChosenIs DEF a
  <2>2. PageAnchor(off) = a  BY <1>2, <1>3, <1>4, <1>6, <1>8
  <2>3. now = ViewAt(s, Wide, High)  BY <1>7, <2>1, <2>2
  <2>4. s # Following  BY <2>1, PlacesAre
  <2>5. mode = "frame" => frame <= Hidden
    <3>1. mode = "frame" => frame < p.line  BY <1>1, <1>8, <2>1, ChosenIs DEF a
    <3> QED  BY <3>1, PlaceShows
  <2> QED  BY <1>8, <2>1, <2>3, <2>4, <2>5 DEF s
<1>9. CASE ~(chosen /\ a.valid) /\ place \in {Following, Lost}
  <2>1. s = place  BY <1>1, <1>9
  <2>2. ASSUME s = Following PROVE now = 0
    <3>1. offset = 0 /\ ~saved.valid  BY <2>1, <2>2 DEF PlaceInv
    <3>2. ~chosen  BY <1>6, <1>9, <3>1
    <3>3. off = 0  BY <3>1, <3>2
    <3>4. ~PageAnchor(off).valid  BY <1>2, <1>4, <1>6, <3>1, <3>3
    <3>5. Wanted(off) = 0  BY <3>3, <3>4, WantedIs
    <3>6. PICK m \in Nat : m = most
      <4>1. Len(TrueRows(Wide)) \in Nat  BY <1>5, TrueRowsAre
      <4>2. Monus(Len(TrueRows(Wide)), High) \in Nat  BY <1>5, <4>1 DEF Monus
      <4> QED  BY <4>2
    <3>7. Minimum(0, m) = 0  BY DEF Minimum
    <3> QED  BY <1>5, <3>5, <3>6, <3>7, Zenon
  <2>3. s \notin Places  BY <1>9, <2>1, PlacesAre
  <2> QED  BY <1>9, <2>1, <2>2, <2>3 DEF s
<1>10. CASE ~(chosen /\ a.valid) /\ PlaceHeld
  <2>1. s = place /\ place \in Places /\ Asked  BY <1>1, <1>10 DEF PlaceHeld
  <2>2. Hidden < Len(log) /\ ring.count > 0 /\ (mode = "frame" => frame <= Hidden)
      BY <1>10, <2>1, PlaceShows DEF PlaceHeld
  <2>3. now = ViewAt(place, Wide, High)
    <3>1. CASE small
      <4>1. SavedBy(saved, place)  BY <1>10, <3>1 DEF PlaceHeld
      <4>2. PageAnchor(off) = saved  BY <3>1, <4>1 DEF PageAnchor, SavedBy
      <4> QED  BY <1>7, <2>1, <2>2, <4>1, <4>2
    <3>2. CASE ~small
      <4>1. PageAnchor(off) = a  BY <1>3, <1>6, <3>2
      <4>2. ~chosen /\ off = offset  BY <1>10, <4>1
      <4>3. /\ term # NoSize /\ AtTop(place, Wrap(term.cols), off, Height)
            /\ layout = [top |-> banner.height + 1,
                         bottom |-> term.rows - (IF churn THEN 2 ELSE 1)]
          BY <1>10, <3>2, <4>2 DEF PlaceHeld
      <4>4. CASE LeavesView(off)
        <5>1. SavedBy(ResizeAnchor(offset), place)  BY <1>10, <3>2, <4>2, <4>4, HeldSaves
        <5>2. SavedBy(PageAnchor(off), place)  BY <4>1, <4>2, <5>1 DEF a
        <5> QED  BY <1>7, <2>1, <2>2, <5>2
      <4>5. CASE ~LeavesView(off)
        <5>1. off > 0  BY <4>3 DEF AtTop
        <5>2. layout.top > 0
          <6>1. PICK b \in Nat : b = banner.height  BY BannerAssumption DEF PageType
          <6> QED  BY <4>3, <6>1
        <5>3. term = tty
            BY <2>2, <3>2, <4>3, <4>5, <5>1, <5>2 DEF LeavesView, HasView, SizeChanged
        <5>4. Height = High /\ Wrap(term.cols) = Wide
            BY <4>3, <5>3 DEF Height, High, Top, Bottom, Wide
        <5>5. Wanted(off) = off  BY <1>2, <4>1, <4>5, WantedIs
        <5>6. Minimum(off, most) = ViewAt(place, Wide, High)
          <6>1. AtTop(place, Wide, off, High)  BY <4>3, <5>4
          <6> QED  BY <1>5, <6>1, AtTopIs
        <5> QED  BY <1>5, <5>5, <5>6
      <4> QED  BY <4>4, <4>5
    <3> QED  BY <3>1, <3>2
  <2>4. s # Following  BY <2>1, PlacesAre
  <2> QED  BY <2>1, <2>2, <2>3, <2>4 DEF s
<1> QED  BY <1>8, <1>9, <1>10 DEF PlaceInv

\* A page that is painted, or fails on the way, finds the place it has to keep.
LEMMA PageKeeps ==
    ASSUME StoreInv, PageType, LayoutInv, PlaceInv, NEW off \in Nat, NEW chosen \in BOOLEAN,
           NEW fault, RenderPage(off, chosen, fault), UNCHANGED <<output, mode, frame, churn, tty>>,
           chosen => Asked, ~chosen => off = offset, Asked => Asked'
    PROVE  PlaceInv'
<1> DEFINE now == PageView(off).offset
           rows == TrueRows(Wide)
           p == Here(rows, now, High)
           s == Sought(off, chosen)
<1>1. /\ ~NoRoom /\ term' = tty /\ small' = FALSE /\ saved' = (IF small THEN NoAnchor ELSE saved)
      /\ banner' = [banner EXCEPT !.prev = banner.height, !.cols = tty.cols]
  BY DEF RenderPage
<1>2. /\ offset' = now /\ layout' = [top |-> Top, bottom |-> Bottom]
      /\ place' = IF chosen /\ ~PageAnchor(off).valid THEN p ELSE Settled(s, rows, now, High)
  BY PageDrawn, Zenon DEF Painting, Wide
<1>3. banner'.height = banner.height  BY <1>1 DEF PageType
<1>4. ~saved'.valid
  <2>1. ~NoAnchor.valid  BY DEF NoAnchor
  <2> QED  BY <1>1, <2>1 DEF LayoutInv
<1>5. /\ High \in Nat \ {0} /\ Wide \in Widths /\ now \in Nat /\ now <= Monus(Len(rows), High)
  <2>1. Wide \in Widths  BY DEF Wide, Widths, StoreInv, StoreType
  <2>2. High \in Nat \ {0} /\ Wanted(off) \in Nat  BY <1>1, RoomIs, WantedIs
  <2>3. PICK m \in Nat : m = Monus(Len(rows), High)
    <3>1. Len(rows) \in Nat  BY <2>1, TrueRowsAre
    <3>2. Monus(Len(rows), High) \in Nat  BY <2>2, <3>1 DEF Monus
    <3> QED  BY <3>2
  <2>4. now = Minimum(Wanted(off), m)  BY <1>1, <2>3, PageIs
  <2> HIDE DEF now, rows
  <2>5. now \in Nat /\ now <= m  BY <2>2, <2>4 DEF Minimum
  <2> QED  BY <2>1, <2>2, <2>3, <2>5
<1>6. /\ now = 0 => p = Following
      /\ now # 0 => AtTop(p, Wide, now, High) /\ p.line > Hidden
  BY <1>5, HereIs
<1> HIDE DEF now, p, s, rows
<1>7. ASSUME place' = p, now # 0 => Asked PROVE PlaceInv'
  <2>1. CASE now = 0
    <3>1. place' = Following /\ offset' = 0  BY <1>2, <1>6, <1>7, <2>1
    <3> QED  BY <1>4, <3>1, PlaceLeft
  <2>2. CASE now # 0
    <3>1. AtTop(p, Wide, now, High) /\ p.line > Hidden /\ Asked'  BY <1>6, <1>7, <2>2
    <3>2. mode = "frame" => frame <= Hidden
      <4>1. Hidden = IF mode = "frame" /\ frame > Evicted THEN frame ELSE Evicted  BY DEF Hidden
      <4>2. frame \in Nat /\ Evicted \in Nat
        <5>1. frame \in 0 .. Len(log)  BY DEF StoreInv, StoreType
        <5>2. Evicted \in 0 .. Len(log)  BY RetainedAre
        <5> QED  BY <5>1, <5>2
      <4> QED  BY <4>1, <4>2
    <3> QED  BY <1>1, <1>2, <1>3, <1>7, <3>1, <3>2, PlaceOnTop
  <2> QED  BY <2>1, <2>2
<1>8. CASE chosen /\ ~PageAnchor(off).valid  BY <1>2, <1>7, <1>8
<1>9. CASE ~(chosen /\ ~PageAnchor(off).valid)
  <2>1. /\ s \in {Following, Lost} \cup Places
        /\ s = Following => now = 0
        /\ s \in Places => Asked /\ now = ViewAt(s, Wide, High)
      BY <1>1, <1>9, SoughtIs DEF s, now
  <2>2. Kept(s, rows, now, High)
    <3>1. CASE s = Following  BY <2>1, <3>1, EndsDiffer DEF Kept
    <3>2. CASE s = Lost  BY <3>2, EndsDiffer, Zenon DEF Kept
    <3>3. CASE s \in Places  BY <1>5, <2>1, <3>3, KeptIs DEF rows
    <3> QED  BY <2>1, <3>1, <3>2, <3>3
  <2>3. Settled(s, rows, now, High) = IF s # Lost \/ now = 0 THEN p ELSE s
      BY <2>2 DEF Settled, p
  <2>4. CASE s # Lost \/ now = 0
    <3>1. place' = p  BY <1>2, <1>9, <2>3, <2>4
    <3>2. now # 0 => Asked  BY <2>1, <2>4
    <3> QED  BY <1>7, <3>1, <3>2
  <2>5. CASE ~(s # Lost \/ now = 0)
    <3>1. place' = Lost  BY <1>2, <1>9, <2>3, <2>5
    <3> QED  BY <3>1, EndsDiffer, PlaceLeft
  <2> QED  BY <2>4, <2>5
<1> QED  BY <1>8, <1>9

\* A line that is output leaves the view where it is: the rows under it are as many more as
\* the line has.
LEMMA OutputKeeps ==
    ASSUME StoreInv, StoreInv', PageType, PlaceInv, NEW l \in Lines, OutputEvent(l),
           Asked => Asked'
    PROVE  PlaceInv'
<1>1. /\ ring'.count = IF ring.count = MaxLines THEN MaxLines ELSE ring.count + 1
      /\ offset' = IF offset > 0 THEN offset + Len(Starts[l][Wrap(term.cols)]) ELSE offset
      /\ place' = IF ring.count = MaxLines /\ saved.valid THEN Lost ELSE place
      /\ fresh' = FALSE
      /\ UNCHANGED <<mode, frame, churn, page>>
  BY DEF OutputEvent
<1>2. UNCHANGED <<term, small, layout, saved, banner>>  BY <1>1 DEF page
<1>3. CASE ring.count = MaxLines /\ saved.valid
  <2>1. place' = Lost  BY <1>1, <1>3
  <2> QED  BY <2>1, EndsDiffer, PlaceLeft
<1>4. CASE ~(ring.count = MaxLines /\ saved.valid) /\ place \in {Following, Lost}
  <2>1. place' = place  BY <1>1, <1>4
  <2>2. place = Following => offset' = 0 /\ ~saved'.valid  BY <1>1, <1>2 DEF PlaceInv
  <2> QED  BY <1>4, <2>1, <2>2, PlaceLeft
<1>5. CASE ~(ring.count = MaxLines /\ saved.valid) /\ PlaceHeld
  <2>1. place' = place /\ place \in Places /\ Asked'  BY <1>1, <1>5 DEF PlaceHeld
  <2>2. PICK L \in Nat : L = Len(log)  BY RetainedAre
  <2>3. place.line \in 1 .. L /\ Len(log') = L + 1
    <3>1. log' = Append(log, l) /\ log \in Seq(Lines)  BY DEF OutputEvent, StoreInv, StoreType
    <3> QED  BY <2>1, <2>2, <3>1 DEF Places
  <2>4. place' \in Places'
    <3>1. place.line \in 1 .. Len(log')  BY <2>2, <2>3
    <3> QED  BY <2>1, <3>1 DEF Places
  <2>5. mode' = "frame" => frame' < place'.line  BY <1>1, <1>5, <2>1 DEF PlaceHeld
  <2>6. ASSUME small PROVE SavedBy(saved, place)'
    <3>1. SavedBy(saved, place) /\ saved.valid  BY <1>5, <2>6 DEF PlaceHeld, SavedBy
    <3>2. ring.count # MaxLines  BY <1>5, <3>1
    <3>3. ring.count = Minimum(Len(log), MaxLines)  BY DEF StoreInv, RingInv
    <3>4. L < MaxLines  BY <2>2, <3>2, <3>3, BoundAssumption DEF Minimum
    <3>5. Evicted = 0 /\ Evicted' = 0
      <4>1. ~(L > MaxLines) /\ ~(L + 1 > MaxLines)  BY <3>4, BoundAssumption
      <4>2. Evicted = 0  BY <2>2, <4>1 DEF Evicted, Monus
      <4>3. Monus(Len(log'), MaxLines) = 0  BY <2>3, <4>1 DEF Monus
      <4> QED  BY <4>2, <4>3 DEF Evicted
    <3>6. Hidden' = Hidden  BY <1>1, <3>5 DEF Hidden
    <3>7. ring'.count > 0
      <4>1. ring.count \in Nat  BY RetainedAre
      <4> QED  BY <1>1, <3>2, <4>1
    <3> QED  BY <1>2, <2>1, <3>1, <3>5, <3>6, <3>7 DEF SavedBy
  <2>7. ASSUME ~small
        PROVE  /\ term' # NoSize'
               /\ layout' = [top |-> banner'.height + 1,
                             bottom |-> term'.rows - (IF churn' THEN 2 ELSE 1)]
               /\ AtTop(place, Wrap(term.cols), offset, Height)'
    <3> DEFINE w == Wrap(term.cols)
               R == RowAt(place, w)
    <3>1. /\ term # NoSize /\ AtTop(place, w, offset, Height)
          /\ layout = [top |-> banner.height + 1,
                       bottom |-> term.rows - (IF churn THEN 2 ELSE 1)]
        BY <1>5, <2>7 DEF PlaceHeld
    <3>2. w \in Widths  BY <3>1 DEF Widths, StoreInv, StoreType
    <3>3. /\ \A n \in 1 .. Len(log) : log'[n] = log[n]
          /\ \A n \in 0 .. Len(log) : Sums(RowCounts(log', w))[n + 1] = Above(w, n)
          /\ Sums(RowCounts(log', w))[Len(log') + 1] = Above(w, L) + Len(Starts[l][w])
      <4> HIDE DEF w
      <4> QED  BY <2>2, <3>2, AboveLater
    <3>4. term' = term /\ layout' = layout /\ Height' = Height /\ w' = w
        BY <1>2 DEF Height
    <3> HIDE DEF w
    <3>5. log'[place.line] = log[place.line]  BY <2>2, <2>3, <3>3
    <3>6. RowAt(place, w)' = R
      <4>1. place.line - 1 \in 0 .. Len(log)  BY <2>2, <2>3
      <4>2. Sums(RowCounts(log', w))[(place.line - 1) + 1] = Above(w, place.line - 1)
          BY <3>3, <4>1
      <4> QED  BY <2>1, <3>4, <3>5, <4>2 DEF RowAt, Above
    <3>7. PICK size \in Nat : size = Len(Starts[l][w])  BY <3>2, StartsAre
    <3>8. offset \in Nat \ {0} /\ offset' = offset + size
      <4>1. offset \in Nat \ {0}  BY <3>1 DEF AtTop
      <4> QED  BY <1>1, <3>7, <4>1 DEF w
    <3>9. offset' + Height' + RowAt(place, w)' = Above(w, Len(log))' + 1
      <4>1. Above(w, Len(log))' = Above(w, L) + size
          BY <3>3, <3>4, <3>7 DEF Above
      <4>2. PICK o \in Nat, r \in Nat, all \in Nat :
              /\ o = offset /\ r = R /\ all = Above(w, L)
        <5>1. R \in Nat /\ Above(w, Len(log)) \in Nat  BY <2>1, <3>2, PlaceIs
        <5> QED  BY <2>2, <3>8, <5>1
      <4>3. Height \in Int
        <5>1. Height = term.rows - (IF churn THEN 2 ELSE 1) - (banner.height + 1) + 1
            BY <3>1 DEF Height
        <5>2. term.rows \in Nat /\ banner.height \in Nat
            BY <3>1, SizeAssumption, BannerAssumption DEF StoreInv, StoreType, PageType
        <5> QED  BY <5>1, <5>2
      <4>4. PICK h \in Int : h = Height  BY <4>3
      <4>5. o + h + r = all + 1  BY <2>2, <3>1, <4>2, <4>4 DEF AtTop
      <4>6. (o + size) + h + r = (all + size) + 1  BY <4>5
      <4>7. offset' = o + size  BY <3>8, <4>2
      <4> QED  BY <3>4, <3>6, <4>1, <4>2, <4>4, <4>6, <4>7
    <3>10. \E k \in 1 .. Len(Starts[log'[place.line]][w]) :
              place.byte = Starts[log'[place.line]][w][k]
        BY <3>1, <3>5 DEF AtTop
    <3>11. offset' \in Nat \ {0}  BY <3>8
    <3>12. AtTop(place, w, offset, Height)'
        BY <2>1, <2>4, <3>4, <3>9, <3>10, <3>11 DEF AtTop
    <3> QED  BY <1>1, <1>2, <3>1, <3>12 DEF w, NoSize
  <2>8. PlaceHeld'  BY <1>1, <1>2, <2>1, <2>4, <2>5, <2>6, <2>7 DEF PlaceHeld
  <2>9. place' # Following'
    <3>1. Following' = Following  BY DEF Following
    <3> QED  BY <2>1, <3>1, PlacesAre
  <2> QED  BY <2>8, <2>9 DEF PlaceInv
<1> QED  BY <1>3, <1>4, <1>5 DEF PlaceInv

\* A place is kept whatever happens while a line is typed at, and given up when its command
\* starts.
LEMMA PlaceKept ==
    ASSUME BaseInv, BaseInv', PageInv, PlaceInv, [Next]_vars
    PROVE  PlaceInv'
<1>1. /\ StoreInv /\ StoreInv' /\ PageType /\ LayoutInv  BY DEF BaseInv, PageInv
<1>2. ASSUME place' = (IF saved.valid THEN Lost ELSE Following), offset' = 0, saved' = saved
      PROVE  PlaceInv'
  BY <1>2, EndsDiffer, PlaceLeft
<1>3. CASE FrameStartEvent
  <2>1. BackToEnd /\ offset' = 0 /\ saved' = saved  BY <1>3 DEF FrameStartEvent, page
  <2> QED  BY <1>2, <2>1 DEF BackToEnd
<1>4. ASSUME ~FrameStartEvent PROVE Asked => Asked'  BY <1>4, ThreadKept
<1>5. ASSUME InCommand PROVE place \in {Following, Lost}
  <2>1. ~Asked
    <3>1. at = "command" /\ todo = << >>  BY <1>5 DEF InCommand
    <3> QED  BY <3>1 DEF Asked
  <2> QED  BY <2>1 DEF PlaceInv, PlaceHeld
<1>6. CASE Next /\ ~FrameStartEvent
  <2>1. Event /\ (Asked => Asked')  BY <1>4, <1>6, NextIs
  <2>2. ASSUME NEW off, NEW chosen, Rendered(off, chosen) PROVE PlaceInv'
    <3>1. PICK o \in Nat : o = off /\ Render(o, chosen)  BY <1>1, <2>2 DEF Rendered, PageType
    <3>2. /\ UNCHANGED <<output, mode, frame, churn, tty>> /\ chosen \in BOOLEAN
          /\ (chosen => AtPrompt) /\ (~chosen => off = offset)
        BY <2>2 DEF Rendered
    <3>3. chosen => Asked  BY <3>2 DEF AtPrompt, Asked
    <3>4. CASE RenderSmall(o, chosen)  BY <1>1, <2>1, <3>1, <3>2, <3>3, <3>4, SmallKeeps
    <3>5. CASE \E fault \in {"none", "begin", "commit"} : RenderPage(o, chosen, fault)
        BY <1>1, <2>1, <3>1, <3>2, <3>3, <3>5, PageKeeps
    <3> QED  BY <3>1, <3>4, <3>5 DEF Render
  <2>3. ASSUME NEW l \in Lines, OutputEvent(l) PROVE PlaceInv'
      BY <1>1, <2>1, <2>3, OutputKeeps
  <2>4. ASSUME NEW text \in Texts, InputEvent(text) PROVE PlaceInv'
      BY <2>1, <2>4, PlaceStays DEF InputEvent, view, page
  <2>5. CASE InputBeginEvent  BY <2>1, <2>5, PlaceStays DEF InputBeginEvent, view, page
  <2>6. CASE InputEndEvent  BY <2>1, <2>6, PlaceStays DEF InputEndEvent, view, page
  <2>7. ASSUME NEW m \in {"continuous", "frame"}, InCommand, ModeEvent(m) PROVE PlaceInv'
    <3>1. BackToEnd /\ offset' = 0 /\ saved' = saved  BY <2>7 DEF ModeEvent
    <3> QED  BY <1>2, <3>1 DEF BackToEnd
  <2>8. CASE InCommand /\ ChurnEvent(~churn)
    <3>1. place' = place /\ offset' = offset /\ saved' = saved
        BY <2>8 DEF ChurnEvent, view, page
    <3> QED  BY <1>5, <2>8, <3>1, PlaceLeft DEF PlaceInv
  <2>9. CASE ContextChanges
    <3>1. InCommand /\ place' = place /\ offset' = offset /\ saved' = saved
        BY <2>9 DEF ContextChanges, view
    <3> QED  BY <1>5, <3>1, PlaceLeft DEF PlaceInv
  <2>10. CASE Resize  BY <2>1, <2>10, PlaceStays DEF Resize, view, page
  <2>11. CASE Nothing  BY <2>1, <2>11, PlaceStays DEF Nothing, view, page, history
  <2> QED
      BY <2>1, <2>2, <2>3, <2>4, <2>5, <2>6, <2>7, <2>8, <2>9, <2>10, <2>11, <1>6, Zenon DEF Event
<1>7. CASE UNCHANGED vars
  <2>1. Asked => Asked'  BY <1>7 DEF vars, thread, Asked
  <2>2. /\ UNCHANGED <<output, mode, frame, churn, offset>>
        /\ UNCHANGED <<term, small, layout, saved, place>> /\ banner'.height = banner.height
        /\ (fresh' => fresh)
      BY <1>7 DEF vars, view, page, history
  <2> QED  BY <2>1, <2>2, PlaceStays
<1> QED  BY <1>3, <1>6, <1>7

\* Wherever the reader's place is, the anchor or the offset the next page goes by is of it.
THEOREM PlaceCorrect == Spec => []PlaceInv
<1>1. Init => PlaceInv
  <2> SUFFICES ASSUME Init PROVE PlaceInv  OBVIOUS
  <2>1. place = Following /\ offset = 0 /\ saved = NoAnchor  BY DEF Init
  <2>2. ~saved.valid  BY <2>1 DEF NoAnchor
  <2> QED  BY <2>1, <2>2 DEF PlaceInv
<1>2. BaseInv /\ BaseInv' /\ PageInv /\ PlaceInv /\ [Next]_vars => PlaceInv'  BY PlaceKept
<1> QED  BY <1>1, <1>2, PageCorrect, PTL DEF Spec

\* A reader who follows the output stays at its end, and one who scrolled up keeps the row at
\* the top, whatever is output or evicted and however the terminal is resized, through windows
\* too small for a page too.
THEOREM ViewKept == Spec => []ViewStays
<1>1. BaseInv /\ PageInv /\ PlaceInv => ViewStays
  <2> SUFFICES ASSUME BaseInv, PageInv, PlaceInv, fresh, ~small
               PROVE  Kept(place, TrueRows(Wrap(term.cols)), offset, Height)
    BY DEF ViewStays
  <2>1. CASE place = Lost  BY <2>1, EndsDiffer, Zenon DEF Kept
  <2>2. CASE place = Following
    <3>1. offset = 0  BY <2>2 DEF PlaceInv
    <3> QED  BY <2>2, <3>1, EndsDiffer, Zenon DEF Kept
  <2>3. CASE PlaceHeld
    <3> DEFINE w == Wrap(term.cols)
    <3>1. /\ place \in Places /\ term # NoSize /\ AtTop(place, w, offset, Height)
          /\ place.line > Hidden
        BY <2>3 DEF PlaceHeld
    <3>2. StoreInv /\ PageType /\ LayoutInv  BY DEF BaseInv, PageInv
    <3>3. w \in Widths  BY <3>1, <3>2 DEF Widths, StoreInv, StoreType
    <3>4. Height \in Nat \ {0}
      <4>1. Up /\ term \in Sizes  BY <3>1, <3>2 DEF Up, StoreInv, StoreType
      <4>2. layout.bottom \in layout.top .. term.rows - 1  BY <3>2, <4>1 DEF LayoutInv
      <4>3. layout.top \in Nat /\ layout.bottom \in Nat /\ term.rows \in Nat
          BY <3>2, <4>1, SizeAssumption DEF PageType
      <4> QED  BY <4>2, <4>3 DEF Height
    <3> HIDE DEF w
    <3>5. offset = ViewAt(place, w, Height)  BY <3>1, <3>2, <3>3, <3>4, AtTopIs
    <3>6. Kept(place, TrueRows(w), offset, Height)  BY <3>1, <3>2, <3>3, <3>5, KeptIs
    <3> QED  BY <3>6 DEF w
  <2> QED  BY <2>1, <2>2, <2>3 DEF PlaceInv
<1> QED  BY <1>1, StoreCorrect, PageCorrect, PlaceCorrect, PTL

===============================================================================
