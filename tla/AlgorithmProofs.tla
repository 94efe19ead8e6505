-------------------------- MODULE AlgorithmProofs --------------------------
(***************************************************************************)
(* Proofs about Shell, for any names and lines: the shell and vFinder()    *)
(* agree on what is sent, and the text of the current directory follows    *)
(* PathTree however it is taken apart and put together. About Md5, for     *)
(* whatever is done with a block: reads, buffer, padding and count come to *)
(* RFC 1321. About ExpireClock: single seconds, added one by one, follow   *)
(* the calendar.                                                           *)
(***************************************************************************)
EXTENDS Shell, Md5, ExpireClock, SequenceTheorems, WellFoundedInduction, Integers, TLAPS

(***************************************************************************)
(* What a function computes that is defined by recursion: induction over a *)
(* set of numbers, in which no number is the least one missing.            *)
(***************************************************************************)
LEMMA UpTo ==
    ASSUME NEW n \in Nat, NEW P, 0 \in P, \A k \in 1 .. n : k - 1 \in P => k \in P
    PROVE  \A k \in 0 .. n : k \in P
<1> DEFINE T == (0 .. n) \ P
           R == OpToRel(<, Nat)
<1> SUFFICES ASSUME T # {} PROVE FALSE
  OBVIOUS
<1>1. PICK x \in T : \A y \in T : ~(<<y, x>> \in R)
  <2>1. T \subseteq Nat
    OBVIOUS
  <2> HIDE DEF T
  <2> QED BY <2>1, WFMin, NatLessThanWellFounded, Zenon
<1>2. x \in 1 .. n /\ x - 1 \in 0 .. n
  <2>1. x \in 0 .. n /\ x # 0
    OBVIOUS
  <2> HIDE DEF T, R
  <2> QED BY <2>1
<1>3. x - 1 \in T
  BY <1>1, <1>2
<1>4. x - 1 < x /\ x \in Nat /\ x - 1 \in Nat
  BY <1>2
<1>5. <<x - 1, x>> \in R
  BY <1>4, Zenon DEF OpToRel
<1> HIDE DEF R, T
<1> QED BY <1>1, <1>3, <1>5

\* r comes about when G takes in the first k numbers one after the other.
Taken(r, k, base, G) == r[0] = base /\ \A i \in 1 .. k : r[i] = G[<<r[i - 1], i>>]
HasTaken(k, Acc, base, G) == \E r \in [0 .. k -> Acc] : Taken(r, k, base, G)

\* Such a sequence of results exists.
LEMMA RecursionExists ==
    ASSUME NEW n \in Nat, NEW Acc, NEW base \in Acc, NEW G \in [Acc \X (1 .. n) -> Acc]
    PROVE  HasTaken(n, Acc, base, G)
<1> DEFINE P == {k \in 0 .. n : HasTaken(k, Acc, base, G)}
<1>1. 0 \in P
  <2>1. PICK r : r = [k \in 0 .. 0 |-> base]
    OBVIOUS
  <2> QED BY <2>1 DEF HasTaken, Taken
<1>2. ASSUME NEW k \in 1 .. n, k - 1 \in P PROVE k \in P
  <2>1. PICK q \in [0 .. k - 1 -> Acc] : Taken(q, k - 1, base, G)
    BY <1>2 DEF HasTaken
  <2>2. PICK r : r = [i \in 0 .. k |-> IF i = k THEN G[<<q[k - 1], k>>] ELSE q[i]]
    OBVIOUS
  <2>3. q[k - 1] \in Acc /\ k - 1 \in 0 .. k
    BY <2>1
  <2>4. r \in [0 .. k -> Acc]
    BY <2>1, <2>2, <2>3
  <2>5. r[0] = base
    BY <2>1, <2>2 DEF Taken
  <2>6. ASSUME NEW i \in 1 .. k PROVE r[i] = G[<<r[i - 1], i>>]
    <3>1. i - 1 \in 0 .. k - 1 /\ r[i - 1] = q[i - 1]
      BY <2>2
    <3>2. CASE i = k
      <4>1. k \in 0 .. k
        OBVIOUS
      <4>2. r[k] = G[<<q[k - 1], k>>]
        BY <2>2, <4>1
      <4> QED BY <3>1, <3>2, <4>2
    <3>3. CASE i # k
      <4>1. i \in 1 .. k - 1 /\ i \in 0 .. k
        BY <3>3
      <4>2. q[i] = G[<<q[i - 1], i>>]
        BY <2>1, <4>1 DEF Taken
      <4>3. r[i] = q[i]
        BY <2>2, <3>3, <4>1
      <4> QED BY <3>1, <4>2, <4>3
    <3> QED BY <3>2, <3>3
  <2> QED BY <2>4, <2>5, <2>6 DEF HasTaken, Taken
<1> HIDE DEF P
<1>3. n \in P
  BY <1>1, <1>2, UpTo
<1> QED BY <1>3 DEF P

\* An empty name, and what strtok() makes of one more name. (The solver of the
\* proof system rejects every formula with an empty string: Blank hides it.)
Blank(n) == n = ""
Kept(names, n) == IF Blank(n) THEN names ELSE Append(names, n)

\* Every name has a size, and all but the empty one take a character.
LEMMA Sizes ==
    \A n \in DOMAIN Size : Size[n] \in Nat /\ (~Blank(n) => Size[n] > 0)
BY TextsAssumption, Zenon DEF Blank

\* Tokens takes in the names one by one.
LEMMA TokensSteps ==
    ASSUME NEW S, NEW s \in Seq(S)
    PROVE  \E t \in [0 .. Len(s) -> Seq(S)] :
               /\ t[0] = <<>>
               /\ \A k \in 1 .. Len(s) : t[k] = Kept(t[k - 1], s[k])
               /\ t[Len(s)] = Tokens(s)
<1>1. PICK n \in Nat : n = Len(s) /\ \A k \in 1 .. n : s[k] \in S
  OBVIOUS
<1> DEFINE G == [x \in Seq(S) \X (1 .. n) |-> Kept(x[1], s[x[2]])]
           Body(g) == [i \in 0 .. Len(s) |-> IF i = 0 THEN <<>> ELSE IF Blank(s[i]) THEN g[i - 1]
                                              ELSE Append(g[i - 1], s[i])]
           f == CHOOSE g : g = Body(g)
<1>2. Tokens(s) = f[Len(s)]
  BY Zenon DEF Tokens, Blank
<1>3. G \in [Seq(S) \X (1 .. n) -> Seq(S)]
  <2>1. ASSUME NEW x \in Seq(S) \X (1 .. n) PROVE Kept(x[1], s[x[2]]) \in Seq(S)
    <3>1. PICK names, e : names = x[1] /\ e = s[x[2]]
      OBVIOUS
    <3>2. names \in Seq(S) /\ e \in S
      BY <1>1, <3>1
    <3>3. Kept(names, e) \in Seq(S)
      BY <3>2, AppendProperties DEF Kept
    <3> QED BY <3>1, <3>3
  <2> QED BY <2>1
<1>4. PICK h \in [0 .. n -> Seq(S)] : Taken(h, n, <<>>, G)
  <2>1. <<>> \in Seq(S)
    OBVIOUS
  <2> HIDE DEF G
  <2> QED BY <1>3, <2>1, RecursionExists DEF HasTaken
<1>5. ASSUME NEW k \in 1 .. n PROVE h[k] = Kept(h[k - 1], s[k])
  <2>1. h[k - 1] \in Seq(S)
    OBVIOUS
  <2>2. h[k] = G[<<h[k - 1], k>>]
    BY <1>4, Zenon DEF Taken
  <2> QED BY <2>1, <2>2
<1>6. h = Body(h)
  <2>1. h = [i \in 0 .. n |-> h[i]]
    OBVIOUS
  <2>2. \A i \in 0 .. n : h[i] = IF i = 0 THEN <<>> ELSE IF Blank(s[i]) THEN h[i - 1]
                               ELSE Append(h[i - 1], s[i])
    <3> SUFFICES ASSUME NEW i \in 0 .. n
                 PROVE  h[i] = IF i = 0 THEN <<>> ELSE IF Blank(s[i]) THEN h[i - 1]
                                 ELSE Append(h[i - 1], s[i])
      OBVIOUS
    <3>1. CASE i = 0
      BY <1>4, <3>1 DEF Taken
    <3>2. CASE i # 0
      <4>1. i \in 1 .. n
        BY <3>2
      <4> HIDE DEF G
      <4> QED BY <1>5, <3>2, <4>1 DEF Kept
    <3> QED BY <3>1, <3>2
  <2> QED BY <1>1, <2>1, <2>2
<1>7. f = Body(f)
  BY <1>6, Zenon
<1> HIDE DEF f
<1>8. ASSUME NEW k \in 0 .. n PROVE f[k] = h[k]
  <2> DEFINE P == {i \in 0 .. n : f[i] = h[i]}
  <2>1. 0 \in P
    <3>1. 0 \in 0 .. Len(s)
      BY <1>1
    <3>2. f[0] = IF 0 = 0 THEN <<>> ELSE IF Blank(s[0]) THEN f[0 - 1] ELSE Append(f[0 - 1], s[0])
      BY <1>7, <3>1, Zenon
    <3> QED BY <1>4, <3>2 DEF Taken
  <2>2. ASSUME NEW i \in 1 .. n, i - 1 \in P PROVE i \in P
    <3>1. i \in 0 .. Len(s) /\ i # 0
      BY <1>1
    <3>2. f[i] = IF i = 0 THEN <<>> ELSE IF Blank(s[i]) THEN f[i - 1] ELSE Append(f[i - 1], s[i])
      BY <1>7, <3>1, Zenon
    <3>3. f[i] = Kept(f[i - 1], s[i])
      BY <3>1, <3>2 DEF Kept
    <3> QED BY <1>5, <2>2, <3>3
  <2> HIDE DEF P
  <2>3. k \in P
    BY <2>1, <2>2, UpTo
  <2> QED BY <2>3 DEF P
<1>9. h[Len(s)] = Tokens(s)
  <2>1. Len(s) \in 0 .. n
    BY <1>1
  <2> QED BY <1>2, <1>8, <2>1, Zenon
<1>10. h[0] = <<>>
  BY <1>4, Zenon DEF Taken
<1> QED BY <1>1, <1>5, <1>9, <1>10, Zenon

\* So does Characters.
LEMMA CharactersSteps ==
    ASSUME NEW s \in Seq(DOMAIN Size)
    PROVE  \E c \in [0 .. Len(s) -> Nat] :
               /\ c[0] = 0
               /\ \A k \in 1 .. Len(s) : c[k] = c[k - 1] + Size[s[k]] + 1
               /\ c[Len(s)] = Characters(s)
<1>1. PICK n \in Nat : n = Len(s) /\ \A k \in 1 .. n : Size[s[k]] \in Nat
  <2>1. \A k \in 1 .. Len(s) : s[k] \in DOMAIN Size
    OBVIOUS
  <2>2. \A x \in DOMAIN Size : Size[x] \in Nat
    BY Sizes
  <2> QED BY <2>1, <2>2
<1> DEFINE G == [x \in Nat \X (1 .. n) |-> x[1] + Size[s[x[2]]] + 1]
           Body(g) == [i \in 0 .. Len(s) |-> IF i = 0 THEN 0 ELSE g[i - 1] + Size[s[i]] + 1]
           f == CHOOSE g : g = Body(g)
<1>2. Characters(s) = f[Len(s)]
  BY Zenon DEF Characters
<1>3. G \in [Nat \X (1 .. n) -> Nat]
  BY <1>1
<1>4. PICK h \in [0 .. n -> Nat] : Taken(h, n, 0, G)
  <2> HIDE DEF G
  <2> QED BY <1>3, RecursionExists DEF HasTaken
<1>5. ASSUME NEW k \in 1 .. n PROVE h[k] = h[k - 1] + Size[s[k]] + 1
  <2>1. h[k - 1] \in Nat
    OBVIOUS
  <2>2. h[k] = G[<<h[k - 1], k>>]
    BY <1>4, Zenon DEF Taken
  <2> QED BY <2>1, <2>2
<1>6. h = Body(h)
  <2>1. h = [i \in 0 .. n |-> h[i]]
    OBVIOUS
  <2>2. \A i \in 0 .. n : h[i] = IF i = 0 THEN 0 ELSE h[i - 1] + Size[s[i]] + 1
    BY <1>4, <1>5 DEF Taken
  <2> QED BY <1>1, <2>1, <2>2
<1>7. f = Body(f)
  BY <1>6, Zenon
<1> HIDE DEF f
<1>8. ASSUME NEW k \in 0 .. n PROVE f[k] = h[k]
  <2> DEFINE P == {i \in 0 .. n : f[i] = h[i]}
  <2>1. 0 \in P
    <3>1. 0 \in 0 .. Len(s)
      BY <1>1
    <3>2. f[0] = IF 0 = 0 THEN 0 ELSE f[0 - 1] + Size[s[0]] + 1
      BY <1>7, <3>1, Zenon
    <3> QED BY <1>4, <3>2 DEF Taken
  <2>2. ASSUME NEW i \in 1 .. n, i - 1 \in P PROVE i \in P
    <3>1. i \in 0 .. Len(s) /\ i # 0
      BY <1>1
    <3>2. f[i] = IF i = 0 THEN 0 ELSE f[i - 1] + Size[s[i]] + 1
      BY <1>7, <3>1, Zenon
    <3>3. f[i] = f[i - 1] + Size[s[i]] + 1
      BY <3>1, <3>2
    <3> QED BY <1>5, <2>2, <3>3
  <2> HIDE DEF P
  <2>3. k \in P
    BY <2>1, <2>2, UpTo
  <2> QED BY <2>3 DEF P
<1>9. h[Len(s)] = Characters(s)
  <2>1. Len(s) \in 0 .. n
    BY <1>1
  <2> QED BY <1>2, <1>8, <2>1, Zenon
<1>10. h[0] = 0
  BY <1>4, Zenon DEF Taken
<1> QED BY <1>1, <1>5, <1>9, <1>10, Zenon

(***************************************************************************)
(* The names of a path: none is empty, a path put after a path, and how    *)
(* many go into a column.                                                  *)
(***************************************************************************)
NonBlank == {n \in DOMAIN Size : ~Blank(n)}

\* No name of a path is empty.
LEMMA TokensAre ==
    ASSUME NEW s \in Seq(DOMAIN Size)
    PROVE  Tokens(s) \in Seq(NonBlank)
<1>1. PICK t \in [0 .. Len(s) -> Seq(DOMAIN Size)] :
          /\ t[0] = <<>>
          /\ \A k \in 1 .. Len(s) : t[k] = Kept(t[k - 1], s[k])
          /\ t[Len(s)] = Tokens(s)
  BY TokensSteps
<1>2. PICK n \in Nat : n = Len(s) /\ \A k \in 1 .. n : s[k] \in DOMAIN Size
  OBVIOUS
<1> DEFINE P == {k \in 0 .. n : t[k] \in Seq(NonBlank)}
<1>3. 0 \in P
  BY <1>1
<1>4. ASSUME NEW k \in 1 .. n, k - 1 \in P PROVE k \in P
  <2>1. PICK names, e : names = t[k - 1] /\ e = s[k]
    OBVIOUS
  <2>2. names \in Seq(NonBlank) /\ (~Blank(e) => e \in NonBlank)
    BY <1>2, <1>4, <2>1 DEF NonBlank
  <2>3. Kept(names, e) \in Seq(NonBlank)
    BY <2>2, AppendProperties DEF Kept
  <2> QED BY <1>1, <1>2, <2>1, <2>3
<1> HIDE DEF P
<1>5. n \in P
  <2>1. \A k \in 0 .. n : k \in P
    BY <1>3, <1>4, UpTo, Zenon
  <2> QED BY <2>1
<1> QED BY <1>1, <1>2, <1>5 DEF P

\* One name more, or none.
LEMMA KeptLen ==
    ASSUME NEW S, NEW q \in Seq(S), NEW e \in S
    PROVE  Kept(q, e) \in Seq(S) /\ Len(Kept(q, e)) = IF Blank(e) THEN Len(q) ELSE Len(q) + 1
<1>1. Append(q, e) \in Seq(S) /\ Len(Append(q, e)) = Len(q) + 1
  BY AppendProperties
<1> QED BY <1>1 DEF Kept

\* The names of two texts one after the other.
LEMMA TokensJoin ==
    ASSUME NEW S, NEW r \in Seq(S), NEW s \in Seq(S)
    PROVE  Tokens(r \o s) = Tokens(r) \o Tokens(s)
<1>10. ASSUME NEW p \in Seq(S), NEW q \in Seq(S), NEW e \in S PROVE Kept(p \o q, e) = p \o Kept(q, e)
  <2>1. p \o q \in Seq(S) /\ <<e>> \in Seq(S)
    OBVIOUS
  <2>2. Append(p \o q, e) = (p \o q) \o <<e>> /\ Append(q, e) = q \o <<e>>
    <3>1. PICK pq \in Seq(S) : pq = p \o q
      BY <2>1, Zenon
    <3>2. Append(pq, e) = pq \o <<e>>
      BY AppendIsConcat
    <3>3. Append(q, e) = q \o <<e>>
      BY AppendIsConcat
    <3> QED BY <3>1, <3>2, <3>3, Zenon
  <2>3. (p \o q) \o <<e>> = p \o (q \o <<e>>)
    <3>1. PICK d \in Seq(S) : d = <<e>>
      BY <2>1, Zenon
    <3>2. (p \o q) \o d = p \o (q \o d)
      BY ConcatAssociative, SMTT(40)
    <3> QED BY <3>1, <3>2, Zenon
  <2> QED BY <2>2, <2>3, Zenon DEF Kept
<1>1. PICK n \in Nat, m \in Nat : n = Len(r) /\ m = Len(s)
  OBVIOUS
<1>2. PICK rs \in Seq(S) : rs = r \o s
  BY ConcatProperties
<1>8. Len(rs) = n + m
  BY <1>1, <1>2, ConcatProperties
<1>9. \A i \in 1 .. n + m : rs[i] = IF i <= n THEN r[i] ELSE s[i - n]
  BY <1>1, <1>2, ConcatProperties
<1>3. PICK a \in [0 .. n -> Seq(S)] :
          a[0] = <<>> /\ (\A k \in 1 .. n : a[k] = Kept(a[k - 1], r[k])) /\ a[n] = Tokens(r)
  BY <1>1, TokensSteps
<1>4. PICK b \in [0 .. m -> Seq(S)] :
          b[0] = <<>> /\ (\A k \in 1 .. m : b[k] = Kept(b[k - 1], s[k])) /\ b[m] = Tokens(s)
  BY <1>1, TokensSteps
<1>5. PICK c \in [0 .. n + m -> Seq(S)] :
          c[0] = <<>> /\ (\A k \in 1 .. n + m : c[k] = Kept(c[k - 1], rs[k])) /\ c[n + m] = Tokens(rs)
  <2>1. \E t \in [0 .. Len(rs) -> Seq(S)] :
            t[0] = <<>> /\ (\A k \in 1 .. Len(rs) : t[k] = Kept(t[k - 1], rs[k])) /\ t[Len(rs)] = Tokens(rs)
    BY TokensSteps
  <2> QED BY <1>8, <2>1, Zenon
<1>6. c[n] = a[n]
  <2> DEFINE P == {k \in 0 .. n : c[k] = a[k]}
  <2>1. 0 \in P
    BY <1>3, <1>5
  <2>2. ASSUME NEW k \in 1 .. n, k - 1 \in P PROVE k \in P
    <3>1. k \in 1 .. n + m /\ k <= n /\ k \in 0 .. n
      OBVIOUS
    <3>2. rs[k] = r[k]
      BY <1>9, <3>1
    <3>3. c[k] = Kept(c[k - 1], rs[k]) /\ a[k] = Kept(a[k - 1], r[k])
      BY <1>3, <1>5, <3>1, Zenon
    <3>4. c[k] = a[k]
      BY <2>2, <3>2, <3>3, Zenon
    <3> QED BY <3>1, <3>4
  <2> HIDE DEF P
  <2>3. \A k \in 0 .. n : k \in P
    BY <2>1, <2>2, UpTo, Zenon
  <2>4. n \in 0 .. n
    OBVIOUS
  <2> QED BY <2>3, <2>4, Zenon DEF P
<1>7. c[n + m] = a[n] \o b[m]
  <2> DEFINE P == {k \in 0 .. m : c[n + k] = a[n] \o b[k]}
  <2>1. 0 \in P
    <3>1. a[n] \in Seq(S) /\ n + 0 = n
      OBVIOUS
    <3>2. a[n] \o <<>> = a[n]
      BY <3>1, ConcatEmptySeq
    <3>3. c[n + 0] = a[n] \o b[0]
      BY <1>4, <1>6, <3>1, <3>2, Zenon
    <3>4. 0 \in 0 .. m
      OBVIOUS
    <3> QED BY <3>3, <3>4
  <2>2. ASSUME NEW k \in 1 .. m, k - 1 \in P PROVE k \in P
    <3>1. PICK j \in 1 .. n + m : j = n + k /\ ~(j <= n) /\ j - n = k /\ j - 1 = n + (k - 1)
      OBVIOUS
    <3>2. rs[j] = s[k]
      BY <1>9, <3>1
    <3>3. c[j] = Kept(c[j - 1], rs[j]) /\ b[k] = Kept(b[k - 1], s[k])
      BY <1>4, <1>5
    <3>4. c[j - 1] = a[n] \o b[k - 1]
      BY <2>2, <3>1
    <3>5. PICK p \in Seq(S), q \in Seq(S), e \in S : p = a[n] /\ q = b[k - 1] /\ e = s[k]
      <4>1. a[n] \in Seq(S) /\ b[k - 1] \in Seq(S)
        OBVIOUS
      <4>2. s[k] \in S
        BY <1>1
      <4> QED BY <4>1, <4>2, Zenon
    <3>6. Kept(p \o q, e) = p \o Kept(q, e)
      BY <1>10
    <3>7. c[n + k] = a[n] \o b[k]
      BY <3>1, <3>2, <3>3, <3>4, <3>5, <3>6, Zenon
    <3>8. k \in 0 .. m
      OBVIOUS
    <3> QED BY <3>7, <3>8
  <2> HIDE DEF P
  <2>3. \A k \in 0 .. m : k \in P
    BY <2>1, <2>2, UpTo, Zenon
  <2>4. m \in 0 .. m
    OBVIOUS
  <2> QED BY <2>3, <2>4, Zenon DEF P
<1> QED BY <1>2, <1>3, <1>4, <1>5, <1>7, Zenon

\* What has no empty names stays as it is.
LEMMA TokensStay ==
    ASSUME NEW S, \A x \in S : ~Blank(x), NEW s \in Seq(S)
    PROVE  Tokens(s) = s
<1>1. PICK n \in Nat : n = Len(s)
  OBVIOUS
<1>2. PICK t \in [0 .. n -> Seq(S)] :
          t[0] = <<>> /\ (\A k \in 1 .. n : t[k] = Kept(t[k - 1], s[k])) /\ t[n] = Tokens(s)
  BY <1>1, TokensSteps
<1>3. ASSUME NEW k \in 1 .. n, t[k - 1] = SubSeq(s, 1, k - 1) PROVE t[k] = SubSeq(s, 1, k)
  <2>1. k \in 1 .. Len(s) /\ 1 \in 1 .. Len(s) /\ k - 1 \in 0 .. n
    BY <1>1
  <2>2. SubSeq(s, 1, k) = SubSeq(s, 1, k - 1) \o <<s[k]>>
    BY <2>1, SubSeqRecursiveSecond
  <2>3. PICK e \in S, q \in Seq(S) : e = s[k] /\ q = t[k - 1]
    BY <2>1
  <2>4. t[k] = Append(q, e)
    BY <1>2, <2>3 DEF Kept
  <2>5. Append(q, e) = q \o <<e>>
    BY AppendIsConcat
  <2> QED BY <1>3, <2>2, <2>3, <2>4, <2>5
<1>4. t[0] = SubSeq(s, 1, 0)
  BY <1>2, SubSeqEmpty
<1> DEFINE P == {k \in 0 .. n : t[k] = SubSeq(s, 1, k)}
<1>5. 0 \in P
  BY <1>4
<1>6. ASSUME NEW k \in 1 .. n, k - 1 \in P PROVE k \in P
  <2>1. t[k - 1] = SubSeq(s, 1, k - 1)
    BY <1>6, Zenon
  <2>2. t[k] = SubSeq(s, 1, k)
    BY <1>3, <2>1, Zenon
  <2> QED BY <2>2
<1> HIDE DEF P
<1>7. n \in P
  <2>1. \A k \in 0 .. n : k \in P
    BY <1>5, <1>6, UpTo, Zenon
  <2> QED BY <2>1
<1>8. t[n] = SubSeq(s, 1, Len(s))
  BY <1>1, <1>7 DEF P
<1> QED BY <1>2, <1>8, SubSeqFull

\* What a name of z characters adds to the two sums.
LEMMA Grown ==
    ASSUME NEW l1 \in Nat, NEW l2 \in Nat, NEW c1 \in Nat, NEW c2 \in Nat, NEW z \in Nat, NEW e,
           c2 = c1 + z + 1, ~Blank(e) => z > 0, l2 = IF Blank(e) THEN l1 ELSE l1 + 1
    PROVE  /\ 2 * l1 <= c1 => 2 * l2 <= c2
           /\ 2 * l1 + 1 <= c1 => 2 * l2 + 1 <= c2
           /\ 2 * l1 <= c1 /\ Blank(e) => 2 * l2 + 1 <= c2
<1>1. CASE Blank(e)
  BY <1>1
<1>2. CASE ~Blank(e)
  BY <1>2
<1> QED BY <1>1, <1>2

\* A slash takes a character, a name one at least.
LEMMA TokensFit ==
    ASSUME NEW s \in Seq(DOMAIN Size)
    PROVE  /\ Characters(s) \in Nat /\ Len(Tokens(s)) \in Nat
           /\ 2 * Len(Tokens(s)) <= Characters(s)
           /\ s # <<>> /\ Blank(s[1]) => 2 * Len(Tokens(s)) + 1 <= Characters(s)
<1>1. PICK S : S = DOMAIN Size
  OBVIOUS
<1>2. PICK n \in Nat : n = Len(s)
  OBVIOUS
<1>3. PICK t \in [0 .. n -> Seq(S)] :
          t[0] = <<>> /\ (\A k \in 1 .. n : t[k] = Kept(t[k - 1], s[k])) /\ t[n] = Tokens(s)
  BY <1>1, <1>2, TokensSteps
<1>4. PICK c \in [0 .. n -> Nat] :
          c[0] = 0 /\ (\A k \in 1 .. n : c[k] = c[k - 1] + Size[s[k]] + 1) /\ c[n] = Characters(s)
  BY <1>2, CharactersSteps
<1> DEFINE P == {k \in 0 .. n : /\ 2 * Len(t[k]) <= c[k]
                                /\ k = 0 \/ ~Blank(s[1]) \/ 2 * Len(t[k]) + 1 <= c[k]}
<1>5. 0 \in P
  <2>1. Len(t[0]) = 0
    BY <1>3
  <2> QED BY <1>4, <2>1
<1>6. ASSUME NEW k \in 1 .. n, k - 1 \in P PROVE k \in P
  <2>1. k - 1 \in 0 .. n /\ k \in 0 .. n /\ k \in 1 .. Len(s)
    BY <1>2
  <2>2. PICK q \in Seq(S), e \in S : q = t[k - 1] /\ e = s[k]
    BY <1>1, <2>1
  <2>3. PICK l1 \in Nat, c1 \in Nat, c2 \in Nat, z \in Nat :
            l1 = Len(q) /\ c1 = c[k - 1] /\ c2 = c[k] /\ z = Size[e]
    <3>1. Len(q) \in Nat
      OBVIOUS
    <3>2. c[k - 1] \in Nat /\ c[k] \in Nat
      BY <2>1
    <3>3. Size[e] \in Nat
      BY <1>1, Sizes
    <3> QED BY <3>1, <3>2, <3>3
  <2>4. c2 = c1 + z + 1 /\ (~Blank(e) => z > 0)
    <3>1. c[k] = c[k - 1] + Size[s[k]] + 1
      BY <1>4
    <3>2. ~Blank(e) => Size[e] > 0
      BY <1>1, Sizes
    <3> QED BY <2>2, <2>3, <3>1, <3>2
  <2>5. PICK l2 \in Nat : l2 = Len(t[k]) /\ l2 = IF Blank(e) THEN l1 ELSE l1 + 1
    <3>1. t[k] = Kept(q, e)
      BY <1>3, <2>2, Zenon
    <3>2. Len(Kept(q, e)) = IF Blank(e) THEN l1 ELSE l1 + 1
      BY <2>3, KeptLen
    <3>3. Len(Kept(q, e)) \in Nat
      BY KeptLen
    <3> QED BY <3>1, <3>2, <3>3, Zenon
  <2>6. 2 * l1 <= c1 /\ (k - 1 = 0 \/ ~Blank(s[1]) \/ 2 * l1 + 1 <= c1)
    BY <1>6, <2>2, <2>3
  <2>7. /\ 2 * l1 <= c1 => 2 * l2 <= c2
        /\ 2 * l1 + 1 <= c1 => 2 * l2 + 1 <= c2
        /\ 2 * l1 <= c1 /\ Blank(e) => 2 * l2 + 1 <= c2
    BY <2>4, <2>5, Grown
  <2>8. 2 * l2 <= c2
    BY <2>6, <2>7, Zenon
  <2>9. k = 0 \/ ~Blank(s[1]) \/ 2 * l2 + 1 <= c2
    <3>1. CASE k = 1
      BY <2>2, <2>6, <2>7, <3>1, Zenon
    <3>2. CASE k # 1
      <4>1. k - 1 # 0
        BY <3>2
      <4> QED BY <2>6, <2>7, <4>1, Zenon
    <3> QED BY <3>1, <3>2
  <2> QED BY <2>1, <2>3, <2>5, <2>8, <2>9, Zenon
<1> HIDE DEF P
<1>7. n \in P
  <2>1. \A k \in 0 .. n : k \in P
    BY <1>5, <1>6, UpTo, Zenon
  <2> QED BY <2>1
<1>8. s # <<>> => n # 0
  BY <1>2, EmptySeq
<1>9. Tokens(s) \in Seq(S) /\ Characters(s) \in Nat
  <2>1. n \in 0 .. n
    OBVIOUS
  <2> QED BY <1>3, <1>4, <2>1
<1>10. 2 * Len(t[n]) <= c[n] /\ (n = 0 \/ ~Blank(s[1]) \/ 2 * Len(t[n]) + 1 <= c[n])
  BY <1>7, Zenon DEF P
<1>11. Len(Tokens(s)) \in Nat
  BY <1>9
<1>12. s # <<>> /\ Blank(s[1]) => 2 * Len(Tokens(s)) + 1 <= Characters(s)
  BY <1>3, <1>4, <1>8, <1>10, Zenon
<1>13. 2 * Len(Tokens(s)) <= Characters(s)
  BY <1>3, <1>4, <1>10, Zenon
<1> QED BY <1>9, <1>11, <1>12, <1>13

\* The empty text has no names.
LEMMA TokensNone == Tokens(<<>>) = <<>>
<1>1. <<>> \in Seq({}) /\ \A x \in {} : ~Blank(x)
  OBVIOUS
<1> QED BY <1>1, TokensStay

\* One name: itself, or nothing.
LEMMA TokensOne ==
    ASSUME NEW e
    PROVE  /\ Blank(e) => Tokens(<<e>>) = <<>>
           /\ ~Blank(e) => Tokens(<<e>>) = <<e>>
<1>1. PICK s \in Seq({e}) : s = <<e>> /\ Len(s) = 1 /\ s[1] = e
  <2>1. <<e>> \in Seq({e}) /\ Len(<<e>>) = 1 /\ <<e>>[1] = e
    OBVIOUS
  <2> QED BY <2>1, Zenon
<1>2. PICK t \in [0 .. 1 -> Seq({e})] :
          t[0] = <<>> /\ (\A k \in 1 .. 1 : t[k] = Kept(t[k - 1], s[k])) /\ t[1] = Tokens(s)
  BY <1>1, TokensSteps
<1>3. 1 \in 1 .. 1 /\ 1 - 1 = 0
  OBVIOUS
<1>4. Tokens(<<e>>) = Kept(<<>>, e)
  BY <1>1, <1>2, <1>3, Zenon
<1>5. Append(<<>>, e) = <<e>>
  OBVIOUS
<1> QED BY <1>4, <1>5, Zenon DEF Kept

\* The literals, once and for all.
LEMMA PwdIsNotBlank == ~Blank("pwd")
BY Zenon DEF Blank

LEMMA UserNameIsNotBlank == ~Blank(UserName) /\ UserName \in DOMAIN Size
BY TextsAssumption, Zenon DEF Blank

\* The home directory's path: an empty name and the user's.
LEMMA HomeIs ==
    \E e \in DOMAIN Size : /\ Blank(e)
                           /\ HomeText = <<e, UserName>>
                           /\ \A f : <<"">> \o f = <<e>> \o f
<1>1. Blank("") /\ "" \in DOMAIN Size
  BY TextsAssumption, Zenon DEF Blank
<1> QED BY <1>1, Zenon DEF HomeText

\* Two names one after the other.
LEMMA Pair ==
    ASSUME NEW S, NEW a \in S, NEW b \in S
    PROVE  <<a>> \in Seq(S) /\ <<b>> \in Seq(S) /\ <<a>> \o <<b>> = <<a, b>>
<1>1. <<a>> \in Seq(S) /\ <<b>> \in Seq(S) /\ <<a, b>> \in Seq(S)
  OBVIOUS
<1>2. <<a>> \o <<b>> \in Seq(S) /\ Len(<<a>> \o <<b>>) = 2
      /\ \A i \in 1 .. 2 : (<<a>> \o <<b>>)[i] = <<a, b>>[i]
  OBVIOUS
<1> QED BY <1>1, <1>2, SeqEqual

\* HomeText is a text of one name.
LEMMA HomeTokens == /\ HomeText \in Seq(DOMAIN Size) /\ Len(HomeText) = 2 /\ Blank(HomeText[1])
                    /\ Tokens(HomeText) = <<UserName>>
<1>1. PICK e \in DOMAIN Size : Blank(e) /\ HomeText = <<e, UserName>>
  BY HomeIs
<1>2. UserName \in DOMAIN Size /\ ~Blank(UserName)
  BY UserNameIsNotBlank
<1>3. PICK S : S = DOMAIN Size
  OBVIOUS
<1>4. <<e>> \in Seq(S) /\ <<UserName>> \in Seq(S) /\ <<e>> \o <<UserName>> = <<e, UserName>>
  BY <1>1, <1>2, <1>3, Pair
<1>5. Tokens(<<e, UserName>>) = Tokens(<<e>>) \o Tokens(<<UserName>>)
  BY <1>4, TokensJoin
<1>6. Tokens(<<e>>) = <<>> /\ Tokens(<<UserName>>) = <<UserName>>
  BY <1>1, <1>2, TokensOne
<1>7. <<>> \o <<UserName>> = <<UserName>>
  OBVIOUS
<1>8. Tokens(HomeText) = <<UserName>>
  BY <1>1, <1>5, <1>6, <1>7, Zenon
<1>9. <<e, UserName>> \in Seq(S) /\ Len(<<e, UserName>>) = 2 /\ <<e, UserName>>[1] = e
  BY <1>1, <1>2, <1>3
<1> QED BY <1>1, <1>3, <1>8, <1>9, Zenon

-----------------------------------------------------------------------------
(***************************************************************************)
(* What is on its way between the shell and vFinder().                     *)
(***************************************************************************)
Commands == {"pwd", "ls", "cd", "mkdir", "rm", "rmdir", "gets", "puts"}

\* The command of the line is the one that the shell waits for.
Says(name) == /\ Len(myParse(line)) = Argc[name]
              /\ myParse(line)[1] = name
LineFits == line # <<>> => /\ answer = <<>> /\ at # "prompt"
                           /\ Says(IF at = "off" THEN "exit" ELSE at)

\* The inductive invariant of ShellReadsWhatIsSent.
AInv == at \in {"off", "prompt"} \cup Commands /\ LineFits /\ AnswerFitsCommand

\* The line of a login, and no line at all.
LEMMA ParseOne == /\ myParse(<<"pwd">>) = <<"pwd">>
                  /\ myParse(<<>>) = <<>>
<1>1. Tokens(<<"pwd">>) = <<"pwd">>
  BY PwdIsNotBlank, TokensOne
<1>2. Tokens(<<>>) = <<>>
  BY TokensNone
<1>3. ASSUME NEW w, w = <<"pwd">> \/ w = <<>>
      PROVE  SubSeq(w, 1, IF Len(w) < ARGCMAX THEN Len(w) ELSE ARGCMAX) = w
  <2>1. PICK S : w \in Seq(S) /\ Len(w) \in {0, 1}
    <3>1. <<"pwd">> \in Seq({"pwd"}) /\ <<>> \in Seq({"pwd"}) /\ Len(<<"pwd">>) = 1 /\ Len(<<>>) = 0
      OBVIOUS
    <3> QED BY <1>3, <3>1
  <2>2. (IF Len(w) < ARGCMAX THEN Len(w) ELSE ARGCMAX) = Len(w)
    BY <2>1, ShellAssumption
  <2> QED BY <2>1, <2>2, SubSeqFull
<1> QED BY <1>1, <1>2, <1>3, Zenon DEF myParse

\* What vFinder() was asked for is what the shell waits for, or the end.
LEMMA CommandIs ==
    ASSUME AInv, NEW name, Command(name)
    PROVE  /\ line # <<>> /\ answer = <<>>
           /\ name = IF at = "off" THEN "exit" ELSE at
           /\ at # "prompt"
BY DEF AInv, LineFits, Says, Command

\* The kinds of the items that vFinder() sends.
Fitting(name, items) ==
    \/ [i \in DOMAIN items |-> items[i].kind] = IF name \in DOMAIN Expects THEN Expects[name] ELSE <<"int">>
    \/ name = "ls" /\ items = <<>>
    \/ name = "off" /\ items = <<>>

\* A path and a number are what pwd and cd wait for.
LEMMA PathFits ==
    ASSUME NEW text, NEW items, items = <<Path(text), Other("int")>>
    PROVE  /\ Fitting("pwd", items) /\ Fitting("cd", items)
           /\ items # <<>> /\ items[1].kind = "path" /\ items[1].val = text
<1>1. items # <<>> /\ items[1].kind = "path" /\ items[1].val = text
  BY DEF Path
<1>2. [i \in DOMAIN items |-> items[i].kind] = <<"path", "int">>
  BY DEF Path, Other
<1> QED BY <1>1, <1>2 DEF Fitting, Expects

\* A number is what these wait for.
LEMMA IntFits ==
    ASSUME NEW name \in {"mkdir", "rm", "rmdir", "gets", "puts"}, NEW items, items = <<Other("int")>>
    PROVE  Fitting(name, items)
<1>1. [i \in DOMAIN items |-> items[i].kind] = <<"int">>
  BY DEF Other
<1>2. name \notin DOMAIN Expects
  BY DEF Expects
<1> QED BY <1>1, <1>2 DEF Fitting

\* ls waits for a list, and gets it or nothing.
LEMMA ListFits ==
    ASSUME NEW ok \in BOOLEAN
    PROVE  Fitting("ls", myLs(ok))
<1>1. CASE ok
  <2>1. PICK items : items = <<Other("list")>>
    OBVIOUS
  <2>2. [i \in DOMAIN items |-> items[i].kind] = <<"list">>
    BY <2>1 DEF Other
  <2> QED BY <1>1, <2>1, <2>2 DEF Fitting, Expects, myLs
<1>2. CASE ~ok
  BY <1>2 DEF Fitting, myLs
<1> QED BY <1>1, <1>2

\* An answer that fits the command.
LEMMA AnsweredFits ==
    ASSUME AInv, NEW name, Command(name), NEW items, Fitting(name, items), name # "exit",
           answer' = items, line' = <<>>, at' = at
    PROVE  AInv'
<1>1. name = at /\ at \in Commands
  BY CommandIs DEF AInv, Commands
<1>2. name # "off"
  BY <1>1 DEF Commands
<1>3. AnswerFitsCommand'
  BY <1>1, <1>2 DEF AnswerFitsCommand, Fitting, Kinds, Waits, Commands
<1> QED BY <1>1, <1>3 DEF AInv, LineFits

\* The answers of pwd and cd.
LEMMA PathAnswered ==
    ASSUME AInv, NEW name \in {"pwd", "cd"}, Command(name), NEW text, AnswersPath(text), at' = at
    PROVE  AInv'
<1>1. PICK items : items = <<Path(text), Other("int")>>
  OBVIOUS
<1>2. answer' = items /\ line' = <<>>
  BY <1>1 DEF AnswersPath, Answers
<1>3. Fitting(name, items)
  BY <1>1, PathFits
<1>4. name # "exit"
  OBVIOUS
<1> QED BY <1>2, <1>3, <1>4, AnsweredFits

LEMMA InitAInv == Init => AInv
BY DEF Init, AInv, LineFits, AnswerFitsCommand, Waits

\* At the prompt and with the client off nothing is left over.
LEMMA AtPromptNothing ==
    ASSUME AInv
    PROVE  /\ at = "prompt" => line = <<>> /\ answer = <<>>
           /\ at = "off" => answer = <<>>
           /\ answer # <<>> => line = <<>>
BY DEF AInv, LineFits, AnswerFitsCommand, Waits

\* The branches of vShell().
LEMMA ShellKeepsAInv ==
    ASSUME AInv, NEW typed, vShell(typed)
    PROVE  AInv'
<1>1. ASSUME NEW name \in Commands \cup {"exit"}, Ask(name, typed) PROVE AInv'
  <2>1. line = <<>> /\ answer = <<>> /\ answer' = <<>> /\ line' = typed
    BY <1>1, AtPromptNothing DEF Ask
  <2>2. typed # <<>> /\ Len(myParse(typed)) = Argc[name] /\ myParse(typed)[1] = name
    <3>1. myParse(typed) # <<>> /\ Len(myParse(typed)) = Argc[name] /\ myParse(typed)[1] = name
      BY <1>1 DEF Ask
    <3> QED BY <3>1, ParseOne, Zenon
  <2>3. name = IF at' = "off" THEN "exit" ELSE at'
    BY <1>1 DEF Ask, Commands
  <2>4. at' \in {"off"} \cup Commands /\ at' # "prompt"
    BY <1>1 DEF Ask, Commands
  <2>5. LineFits'
    BY <2>1, <2>2, <2>3, <2>4 DEF LineFits, Says
  <2>6. AnswerFitsCommand'
    BY <2>1, <2>2 DEF AnswerFitsCommand
  <2> QED BY <2>4, <2>5, <2>6 DEF AInv
<1>2. ASSUME NEW name, Take(name) PROVE AInv'
  <2>1. answer' = <<>> /\ at' = "prompt" /\ line' = <<>>
    BY <1>2, AtPromptNothing DEF Take
  <2> QED BY <2>1 DEF AInv, LineFits, AnswerFitsCommand, Waits
<1>3. CASE ShellBlanks(typed) \/ ShellOverrun(typed)
  <2>1. answer' = <<>> /\ at' \in {"off", "prompt"} /\ line' = <<>>
    BY <1>3, AtPromptNothing DEF ShellBlanks, ShellOverrun
  <2> QED BY <2>1 DEF AInv, LineFits, AnswerFitsCommand, Waits
<1>4. {"pwd", "ls", "cd", "mkdir", "rm", "rmdir", "gets", "puts", "exit"} \subseteq Commands \cup {"exit"}
  BY DEF Commands
<1>5. (\E name \in Commands \cup {"exit"} : Ask(name, typed) \/ Take(name)) \/ ShellBlanks(typed) \/ ShellOverrun(typed)
  BY <1>4, Zenon DEF vShell, ShellExit, ShellPwd, ShellMkdir, ShellGets, ShellPuts, ShellLs, ShellCd,
        ShellRm, ShellRmdir
<1> QED BY <1>1, <1>2, <1>3, <1>5

\* The commands of vFinder().
LEMMA FinderKeepsAInv ==
    ASSUME AInv, vFinder
    PROVE  AInv'
<1>1. CASE Pwd
  <2>1. PICK text : AnswersPath(text) /\ Command("pwd") /\ at' = at
    BY <1>1 DEF Pwd
  <2> QED BY <2>1, PathAnswered
<1>2. ASSUME Command("cd"), at' = at, NEW text, AnswersPath(text) PROVE AInv'
  BY <1>2, PathAnswered
<1>3. CASE CdDot
  <2>1. PICK text : AnswersPath(text) /\ Command("cd") /\ at' = at
    BY <1>3 DEF CdDot, Cd
  <2> QED BY <2>1, <1>2
<1>4. CASE CdUp
  <2>1. PICK text : AnswersPath(text)
    BY <1>4, Zenon DEF CdUp
  <2> QED BY <1>2, <1>4, <2>1 DEF CdUp, Cd
<1>5. CASE CdHome
  BY <1>2, <1>5 DEF CdHome, Cd
<1>6. CASE CdName
  <2>1. PICK arg : Cd(arg) /\ \E user, ok, again, saved \in BOOLEAN :
             LET id == getUserId(user)
                 to == myPwd(myPwd(<<>>, id, ok), id, again) \o Names[arg]
             IN  AnswersPath(to) /\ updateUserPwd(to, saved)
    BY <1>6, Zenon DEF CdName
  <2>2. PICK text : AnswersPath(text)
    BY <2>1, Zenon
  <2> QED BY <1>2, <2>1, <2>2 DEF Cd
<1>7. CASE Ls
  <2>1. PICK ok \in BOOLEAN : answer' = myLs(ok) /\ line' = <<>> /\ Command("ls") /\ at' = at
    BY <1>7 DEF Ls, Answers
  <2> QED BY <2>1, ListFits, AnsweredFits
<1>8. CASE Exit
  <2>1. Command("exit") /\ answer' = <<>> /\ line' = <<>> /\ at' = at
    BY <1>8 DEF Exit, Answers
  <2>2. at = "off"
    BY <2>1, CommandIs DEF AInv, Commands
  <2> QED BY <2>1, <2>2 DEF AInv, LineFits, AnswerFitsCommand, Waits
<1>9. ASSUME NEW name \in {"mkdir", "rm", "rmdir", "gets", "puts"}, Change(name) \/ Port(name) PROVE AInv'
  <2>1. PICK items : items = <<Other("int")>>
    OBVIOUS
  <2>2. Command(name) /\ answer' = items /\ line' = <<>> /\ at' = at /\ name # "exit"
    BY <1>9, <2>1 DEF Change, Port, Answers
  <2>3. Fitting(name, items)
    BY <2>1, IntFits
  <2> QED BY <2>2, <2>3, AnsweredFits
<1> QED BY <1>1, <1>3, <1>4, <1>5, <1>6, <1>7, <1>8, <1>9 DEF vFinder

LEMMA NextKeepsAInv == AInv /\ [Next]_vars => AInv'
<1> SUFFICES ASSUME AInv, [Next]_vars PROVE AInv'
  OBVIOUS
<1>1. CASE Login
  <2>1. at' = "pwd" /\ line' = <<"pwd">> /\ answer' = <<>>
    BY <1>1, AtPromptNothing DEF Login
  <2>2. Argc["pwd"] = 1
    BY DEF Argc
  <2>3. myParse(line') = <<"pwd">> /\ Len(<<"pwd">>) = 1 /\ <<"pwd">>[1] = "pwd"
    BY <2>1, ParseOne
  <2>4. LineFits'
    BY <2>1, <2>2, <2>3 DEF LineFits, Says
  <2> QED BY <2>1, <2>4 DEF AInv, AnswerFitsCommand, Commands
<1>2. CASE \E typed \in Lines : vShell(typed)
  BY <1>2, ShellKeepsAInv
<1>3. CASE TimerCloses
  <2>1. answer' = <<>> /\ at' = "off" /\ line' = <<>>
    BY <1>3 DEF TimerCloses
  <2> QED BY <2>1 DEF AInv, LineFits, AnswerFitsCommand, Waits
<1>4. CASE vFinder
  BY <1>4, FinderKeepsAInv
<1>5. CASE UNCHANGED vars
  BY <1>5 DEF vars, AInv, LineFits, Says, AnswerFitsCommand, Kinds, Waits
<1> QED BY <1>1, <1>2, <1>3, <1>4, <1>5 DEF Next

LEMMA SpecAInv == Spec => []AInv
<1>1. Init => AInv
  BY InitAInv
<1>2. AInv /\ [Next]_vars => AInv'
  BY NextKeepsAInv
<1> QED BY <1>1, <1>2, PTL DEF Spec

\* Whatever is typed and whichever queries fail, the shell reads as many items
\* as vFinder() sends, and of the kinds that it expects.
THEOREM ShellReadsWhatIsSent == Spec => []AnswerFitsCommand
<1>1. AInv => AnswerFitsCommand
  BY DEF AInv
<1> QED BY <1>1, SpecAInv, PTL

(***************************************************************************)
(* The text of the current directory follows PathTree.                     *)
(***************************************************************************)
\* What a user's column may hold.
Storable(text) == text \in Seq(DOMAIN Size) /\ (Characters(text) <= VARCHAR \/ text = HomeText)
\* The inductive invariant of TextFollowsTree, with AInv: what the column holds,
\* and that the buffer holds a line at most.
PathInv == Storable(u_pwd)
BufInv  == buf \in 0 .. BUFFERSIZE

\* AtHome, without a literal.
LEMMA AtHomeIs ==
    \A text : AtHome(text) <=> /\ Len(text) > 1 /\ Blank(text[1])
                               /\ Tokens(text) # <<>> /\ Tokens(text)[1] = UserName
BY Zenon DEF AtHome, Blank

\* A text that the column may hold has few enough names.
LEMMA TextFits ==
    ASSUME NEW text, Storable(text)
    PROVE  /\ AtHome(text) => Tokens(text) # <<>> /\ Tokens(text)[1] = UserName
           /\ Len(Tokens(text)) <= IF ~AtHome(text) THEN (ROUTEDEPTH - 1) + 1 ELSE ROUTEDEPTH - 1
<1>1. text \in Seq(DOMAIN Size)
  BY DEF Storable
<1>2. PICK c \in Nat, l \in Nat : /\ c = Characters(text) /\ l = Len(Tokens(text)) /\ 2 * l <= c
                                  /\ text # <<>> /\ Blank(text[1]) => 2 * l + 1 <= c
  BY <1>1, TokensFit
<1>3. AtHome(text) => text # <<>> /\ Blank(text[1]) /\ Tokens(text) # <<>> /\ Tokens(text)[1] = UserName
  <2>1. Len(<<>>) = 0
    OBVIOUS
  <2> QED BY <2>1, AtHomeIs
<1>4. PICK r \in Nat, v \in Nat : r = ROUTEDEPTH /\ v = VARCHAR /\ r > 1 /\ v <= 2 * r
  BY ShellAssumption
<1>5. c <= v \/ text = HomeText
  BY <1>2, <1>4 DEF Storable
<1>6. CASE c <= v
  <2>1. l <= r
    BY <1>2, <1>4, <1>6
  <2>2. AtHome(text) => 2 * l + 1 <= c
    BY <1>2, <1>3, Zenon
  <2>3. AtHome(text) => l <= r - 1
    BY <1>4, <1>6, <2>2
  <2> QED BY <1>2, <1>3, <1>4, <2>1, <2>3
<1>7. CASE text = HomeText
  <2>1. l = 1
    BY <1>2, <1>7, HomeTokens
  <2> QED BY <1>2, <1>3, <1>4, <2>1
<1> QED BY <1>5, <1>6, <1>7

LEMMA HomeIsAtHome == AtHome(HomeText)
<1>1. <<UserName>> # <<>> /\ <<UserName>>[1] = UserName
  OBVIOUS
<1> QED BY <1>1, HomeTokens, AtHomeIs

\* One name less.
LEMMA UpIs ==
    ASSUME NEW text, Storable(text), ~AtTop(text), NEW e \in DOMAIN Size, Blank(e),
           NEW up, up = <<e>> \o Front(Tokens(text))
    PROVE  /\ up \in Seq(DOMAIN Size)
           /\ Len(Tokens(text)) > 1
           /\ Tokens(up) = Front(Tokens(text))
           /\ AtHome(text) => AtHome(up)
<1>1. PICK S : S = DOMAIN Size
  OBVIOUS
<1>2. e \in S /\ Blank(e) /\ up = <<e>> \o Front(Tokens(text))
  BY <1>1
<1>3. PICK w \in Seq(NonBlank) : w = Tokens(text) /\ Len(w) > 1
  <2>1. Tokens(text) \in Seq(NonBlank)
    BY TokensAre DEF Storable
  <2>2. Tokens(text) = myLastWd(text)
    BY DEF myLastWd
  <2> QED BY <2>1, <2>2 DEF AtTop
<1>4. PICK f \in Seq(NonBlank) : f = Front(w) /\ Len(f) = Len(w) - 1 /\ f # <<>> /\ f[1] = w[1]
  <2>1. w # <<>> /\ Front(w) = SubSeq(w, 1, Len(w) - 1)
    BY <1>3 DEF Front
  <2>2. PICK f : f = SubSeq(w, 1, Len(w) - 1)
    OBVIOUS
  <2>3. f \in Seq(NonBlank) /\ Len(f) = Len(w) - 1 /\ f[1] = w[1]
    BY <1>3, <2>2
  <2>4. f # <<>>
    BY <1>3, <2>3
  <2> QED BY <2>1, <2>2, <2>3, <2>4
<1>5. f \in Seq(S) /\ <<e>> \in Seq(S) /\ Len(<<e>>) = 1 /\ <<e>>[1] = e
  <2>1. NonBlank \subseteq S
    BY <1>1 DEF NonBlank
  <2>2. f \in Seq(S)
    BY <1>4, <2>1
  <2>3. <<e>> \in Seq(S) /\ Len(<<e>>) = 1 /\ <<e>>[1] = e
    BY <1>2
  <2> QED BY <2>2, <2>3, Zenon
<1>6. up \in Seq(S) /\ Len(up) = 1 + Len(f) /\ up[1] = e
  <2>1. up = <<e>> \o f
    BY <1>2, <1>3, <1>4, Zenon
  <2>2. PICK d \in Seq(S) : d = <<e>> /\ Len(d) = 1 /\ d[1] = e
    BY <1>5, Zenon
  <2>3. d \o f \in Seq(S) /\ Len(d \o f) = 1 + Len(f) /\ (d \o f)[1] = d[1]
    BY <1>5, <2>2
  <2> QED BY <2>1, <2>2, <2>3, Zenon
<1>7. Tokens(up) = f
  <2>1. Tokens(up) = Tokens(<<e>>) \o Tokens(f)
    BY <1>2, <1>3, <1>4, <1>5, TokensJoin, Zenon
  <2>2. Tokens(<<e>>) = <<>>
    BY <1>2, TokensOne
  <2>3. Tokens(f) = f
    <3>1. \A x \in NonBlank : ~Blank(x)
      BY DEF NonBlank
    <3> QED BY <1>4, <3>1, TokensStay
  <2>4. <<>> \o f = f
    BY <1>5
  <2> QED BY <2>1, <2>2, <2>3, <2>4, Zenon
<1>8. ASSUME AtHome(text) PROVE AtHome(up)
  <2>1. w[1] = UserName
    BY <1>3, <1>8, AtHomeIs
  <2>2. Len(up) > 1 /\ Blank(up[1])
    BY <1>2, <1>3, <1>4, <1>6
  <2> QED BY <1>4, <1>7, <2>1, <2>2, AtHomeIs
<1> QED BY <1>1, <1>3, <1>4, <1>6, <1>7, <1>8, Zenon

\* A name put after a text.
LEMMA DownIs ==
    ASSUME NEW text \in Seq(DOMAIN Size), NEW name \in Seq(DOMAIN Size), NEW to, to = text \o name
    PROVE  /\ to \in Seq(DOMAIN Size)
           /\ Tokens(to) = Tokens(text) \o Tokens(name)
           /\ Tokens(text) # <<>> => (AtHome(to) <=> AtHome(text))
<1>1. PICK S : S = DOMAIN Size
  OBVIOUS
<1>2. to \in Seq(S) /\ Tokens(to) = Tokens(text) \o Tokens(name)
  BY <1>1, TokensJoin, ConcatProperties
<1>3. ASSUME Tokens(text) # <<>> PROVE AtHome(to) <=> AtHome(text)
  <2>1. PICK w \in Seq(S), v \in Seq(S) : w = Tokens(text) /\ v = Tokens(name) /\ w # <<>>
    <3>1. NonBlank \subseteq S
      BY <1>1 DEF NonBlank
    <3>2. Tokens(text) \in Seq(NonBlank) /\ Tokens(name) \in Seq(NonBlank)
      BY TokensAre
    <3> QED BY <1>3, <3>1, <3>2
  <2>2. w \o v # <<>> /\ (w \o v)[1] = w[1]
    BY <2>1
  <2>3. Tokens(to) # <<>> /\ Tokens(to)[1] = w[1]
    BY <1>2, <2>1, <2>2
  <2>4. text # <<>>
    BY <1>3, TokensNone
  <2>5. PICK t \in Seq(S), m \in Seq(S) : t = text /\ m = name
    BY <1>1
  <2>6. Len(t) \in Nat /\ Len(t) >= 1 /\ Len(to) = Len(t) + Len(m) /\ Len(m) \in Nat /\ to[1] = t[1]
    BY <2>4, <2>5
  <2>7. CASE Len(t) > 1
    <3>1. Len(to) > 1
      BY <2>6, <2>7
    <3> QED BY <2>1, <2>3, <2>5, <2>6, <2>7, <3>1, AtHomeIs
  <2>8. CASE Len(t) = 1
    <3>1. PICK e : t = <<e>> /\ t[1] = e
      <4>1. t = <<t[1]>>
        BY <2>8
      <4> QED BY <4>1
    <3>2. ~Blank(t[1])
      BY <2>1, <2>5, <3>1, TokensOne
    <3>3. ~(Len(t) > 1)
      BY <2>8
    <3> QED BY <2>5, <2>6, <3>2, <3>3, AtHomeIs
  <2>9. Len(t) > 1 \/ Len(t) = 1
    <3>1. PICK l \in Nat : l = Len(t) /\ l >= 1
      BY <2>6
    <3>2. l > 1 \/ l = 1
      BY <3>1
    <3> QED BY <3>1, <3>2, Zenon
  <2> QED BY <2>7, <2>8, <2>9, Zenon
<1> QED BY <1>1, <1>2, <1>3

\* What vFinder() reads of the user's row: the path, or an empty text.
LEMMA PwdReads ==
    ASSUME NEW userId, NEW text, NEW ok
    PROVE  myPwd(text, userId, ok) \in {text, u_pwd}
BY DEF myPwd

LEMMA EmptyText == <<>> \in Seq(DOMAIN Size)
OBVIOUS

\* What a step does to the text, and to what is shown.
Saves(text) == /\ text \in Seq(DOMAIN Size)
               /\ u_pwd' \in {u_pwd, text} /\ (u_pwd' # u_pwd => Storable(text))
Shows(text) == /\ Shown' = text
               /\ Trails' = 0 \/ (buf' > Characters(text) /\ Trails' = buf' - Characters(text))

\* What is written is short enough, or home.
LEMMA Saved ==
    ASSUME NEW text \in Seq(DOMAIN Size), NEW ok \in BOOLEAN, updateUserPwd(text, ok)
    PROVE  Saves(text)
BY DEF updateUserPwd, Saves, Storable

\* Home can always be saved.
LEMMA HomeSaved == Storable(HomeText)
BY HomeTokens DEF Storable

\* The path of an answer is shown.
LEMMA PathShown ==
    ASSUME NEW text, AnswersPath(text)
    PROVE  Shows(text)
<1>1. PICK items : items = <<Path(text), Other("int")>>
  OBVIOUS
<1>2. answer' = items
  BY <1>1 DEF AnswersPath, Answers
<1>3. items # <<>> /\ items[1].kind = "path" /\ items[1].val = text
  BY <1>1, PathFits
<1>4. HasPath' /\ answer'[1].val = text
  BY <1>2, <1>3 DEF HasPath
<1>5. Shown' = text /\ Trails' = Beyond(text)'
  BY <1>4 DEF Shown, Trails, Beyond
<1>6. Beyond(text)' = 0 \/ (buf' > Characters(text) /\ Beyond(text)' = buf' - Characters(text))
  BY DEF Beyond
<1> QED BY <1>5, <1>6 DEF Shows

\* The three ways in which cd moves, and one in which the path is looked at.
Stays  == u_pwd' = u_pwd /\ Shown' = Shown /\ Trails' = Trails
Looks  == u_pwd' = u_pwd /\ (Shows(u_pwd) \/ Shows(<<>>))
Goes(text) == Saves(text) /\ Shows(text)
Climbs == ~AtTop(u_pwd) /\ \E e \in DOMAIN Size : Blank(e) /\ Goes(<<e>> \o Front(Tokens(u_pwd)))
Enters(names) == Goes(u_pwd \o names) \/ Goes(names)

\* cd ..: up one name, or a look when there is one name or none.
LEMMA UpGoes ==
    ASSUME PathInv, AInv, CdUp
    PROVE  Looks \/ Climbs
<1>1. PICK user, ok, again, saved \in BOOLEAN :
          LET id   == getUserId(user)
              text == myPwd(<<>>, id, ok)
              up   == <<"">> \o Front(myLastWd(text))
          IN  \/ AtTop(text) /\ AnswersPath(myPwd(text, id, again)) /\ UNCHANGED u_pwd
              \/ ~AtTop(text) /\ AnswersPath(up) /\ updateUserPwd(up, saved)
  BY Zenon DEF CdUp
<1>2. PICK id, text : id = getUserId(user) /\ text = myPwd(<<>>, id, ok)
  BY Zenon
<1>3. text = <<>> \/ text = u_pwd
  BY <1>2, PwdReads
<1>4. PICK again_ : again_ = myPwd(text, id, again)
  BY Zenon
<1>5. again_ = <<>> \/ again_ = u_pwd
  BY <1>3, <1>4, PwdReads
<1>6. CASE AtTop(text) /\ AnswersPath(again_) /\ u_pwd' = u_pwd
  BY <1>5, <1>6, PathShown, Zenon DEF Looks
<1>7. ASSUME ~AtTop(text), AnswersPath(<<"">> \o Front(myLastWd(text))),
             updateUserPwd(<<"">> \o Front(myLastWd(text)), saved)
      PROVE  Climbs
  <2>1. text = u_pwd
    <3>1. Len(Tokens(<<>>)) = 0
      BY TokensNone
    <3>2. AtTop(<<>>)
      BY <3>1 DEF AtTop, myLastWd
    <3> QED BY <1>3, <1>7, <3>2, Zenon
  <2>2. PICK e \in DOMAIN Size : Blank(e) /\ \A f : <<"">> \o f = <<e>> \o f
    BY HomeIs, Zenon
  <2>3. PICK up : up = <<e>> \o Front(Tokens(u_pwd)) /\ AnswersPath(up) /\ updateUserPwd(up, saved)
    BY <1>7, <2>1, <2>2, Zenon DEF myLastWd
  <2>4. Storable(u_pwd) /\ ~AtTop(u_pwd)
    BY <1>7, <2>1, Zenon DEF PathInv
  <2>5. up \in Seq(DOMAIN Size)
    BY <2>2, <2>3, <2>4, UpIs, Zenon
  <2>6. Goes(up)
    BY <2>3, <2>5, Saved, PathShown, Zenon DEF Goes
  <2> QED BY <2>2, <2>3, <2>4, <2>6, Zenon DEF Climbs
<1> QED BY <1>1, <1>2, <1>4, <1>6, <1>7, Zenon

\* What may be typed after cd.
LEMMA NamesAreTexts == \A a \in DOMAIN Names : Names[a] \in Seq(DOMAIN Size)
BY TextsAssumption, Zenon

\* cd with a name, after the path or after the empty text.
LEMMA NameGoes ==
    ASSUME PathInv, AInv, CdName
    PROVE  \E a \in DOMAIN Names : Enters(Names[a])
<1>1. PICK a \in DOMAIN Names : \E user, ok, again, saved \in BOOLEAN :
             LET id == getUserId(user)
                 to == myPwd(myPwd(<<>>, id, ok), id, again) \o Names[a]
             IN  AnswersPath(to) /\ updateUserPwd(to, saved)
  BY Zenon DEF CdName
<1>2. PICK user, ok, again, saved \in BOOLEAN :
             LET id == getUserId(user)
                 to == myPwd(myPwd(<<>>, id, ok), id, again) \o Names[a]
             IN  AnswersPath(to) /\ updateUserPwd(to, saved)
  BY <1>1, Zenon
<1>3. PICK id, text, read : id = getUserId(user) /\ text = myPwd(<<>>, id, ok)
                              /\ read = myPwd(text, id, again)
  BY Zenon
<1>4. read = <<>> \/ read = u_pwd
  <2>1. text = <<>> \/ text = u_pwd
    BY <1>3, PwdReads
  <2> QED BY <1>3, <2>1, PwdReads
<1>5. PICK names \in Seq(DOMAIN Size) : names = Names[a]
  BY NamesAreTexts, Zenon
<1>6. PICK to : to = read \o names /\ AnswersPath(to) /\ updateUserPwd(to, saved)
  BY <1>2, <1>3, <1>5, Zenon
<1>7. read \in Seq(DOMAIN Size)
  BY <1>4, EmptyText DEF PathInv, Storable
<1>8. to \in Seq(DOMAIN Size)
  BY <1>6, <1>7
<1>9. Goes(to)
  BY <1>6, <1>8, Saved, PathShown, Zenon DEF Goes
<1>10. <<>> \o names = names
  BY <1>5
<1>11. Enters(names)
  BY <1>4, <1>6, <1>9, <1>10, Zenon DEF Enters
<1> QED BY <1>5, <1>11, Zenon

\* Until there is an answer the prompt is shown.
LEMMA PromptShown ==
    ASSUME answer = <<>>
    PROVE  Shown = pwd /\ Trails = tail
BY DEF Shown, Trails, HasPath

\* What the shell takes was shown before.
LEMMA TakeStays ==
    ASSUME AInv, NEW name, Take(name), name \in Commands
    PROVE  Stays
<1>1. at = name /\ answer # <<>> /\ line = <<>> /\ answer' = <<>> /\ u_pwd' = u_pwd
  BY AtPromptNothing DEF Take
<1>2. Shown' = pwd' /\ Trails' = tail'
  BY <1>1 DEF Shown, Trails, HasPath
<1>3. Kinds = IF at \in DOMAIN Expects THEN Expects[at] ELSE <<"int">>
  BY <1>1 DEF AInv, AnswerFitsCommand, Waits, Commands
<1>4. Kinds[1] = answer[1].kind
  <2>1. PICK k : k = Kinds
    OBVIOUS
  <2>2. 1 \in DOMAIN k
    <3>1. k = <<"path", "int">> \/ k = <<"list">> \/ k = <<"int">>
      BY <1>3, <2>1 DEF Expects
    <3> QED BY <3>1
  <2> QED BY <2>1, <2>2 DEF Kinds
<1>5. CASE name \in {"pwd", "cd"}
  <2>1. Kinds[1] = "path"
    BY <1>1, <1>3, <1>5 DEF Expects
  <2>2. Shown = answer[1].val /\ Trails = Beyond(answer[1].val)
    BY <1>1, <1>4, <2>1 DEF Shown, Trails, HasPath
  <2>3. pwd' = answer[1].val /\ tail' = Beyond(answer[1].val)
    BY <1>5 DEF Take
  <2> QED BY <1>1, <1>2, <2>2, <2>3 DEF Stays
<1>6. CASE name \notin {"pwd", "cd"}
  <2>1. Kinds[1] # "path"
    BY <1>1, <1>3, <1>6 DEF Expects
  <2>2. Shown = pwd /\ Trails = tail
    BY <1>1, <1>4, <2>1 DEF Shown, Trails, HasPath
  <2>3. pwd' = pwd /\ tail' = tail
    BY <1>6 DEF Take
  <2> QED BY <1>1, <1>2, <2>2, <2>3 DEF Stays
<1> QED BY <1>5, <1>6

\* Nothing that the shell does moves the user.
LEMMA ShellStays ==
    ASSUME AInv, NEW typed, vShell(typed)
    PROVE  Stays
<1>1. ASSUME NEW name, Ask(name, typed) \/ ShellBlanks(typed) \/ ShellOverrun(typed) PROVE Stays
  <2>1. answer = <<>> /\ answer' = <<>>
    BY <1>1, AtPromptNothing DEF Ask, ShellBlanks, ShellOverrun
  <2>2. UNCHANGED <<u_pwd, pwd, tail>>
    BY <1>1 DEF Ask, ShellBlanks, ShellOverrun
  <2> QED BY <2>1, <2>2 DEF Stays, Shown, Trails, HasPath
<1>2. {"pwd", "ls", "cd", "mkdir", "rm", "rmdir", "gets", "puts"} \subseteq Commands
  BY DEF Commands
<1>3. (\E name : Ask(name, typed)) \/ (\E name \in Commands : Take(name))
      \/ ShellBlanks(typed) \/ ShellOverrun(typed)
  BY <1>2, Zenon DEF vShell, ShellExit, ShellPwd, ShellMkdir, ShellGets, ShellPuts, ShellLs, ShellCd,
        ShellRm, ShellRmdir
<1> QED BY <1>1, <1>3, TakeStays

\* What a step does to the path and to what is shown.
LEMMA StepMoves ==
    ASSUME AInv, PathInv, [Next]_vars
    PROVE  Stays \/ Looks \/ Climbs \/ Goes(HomeText) \/ \E a \in DOMAIN Names : Enters(Names[a])
<1>1. CASE Login
  <2>1. u_pwd' = HomeText /\ Shown' = HomeText /\ Trails' = 0
    BY <1>1, AtPromptNothing DEF Login, Shown, Trails, HasPath
  <2> QED BY <2>1, HomeSaved, HomeTokens DEF Goes, Saves, Shows
<1>2. CASE \E typed \in Lines : vShell(typed)
  BY <1>2, ShellStays
<1>3. CASE TimerCloses
  BY <1>3 DEF TimerCloses, Stays, Shown, Trails, HasPath
<1>4. CASE vFinder
  <2>1. ASSUME NEW text, AnswersPath(text), text = <<>> \/ text = u_pwd, u_pwd' = u_pwd PROVE Looks
    BY <2>1, PathShown, Zenon DEF Looks
  <2>2. CASE Pwd
    <3>1. PICK text, id, ok : AnswersPath(text) /\ text = myPwd(<<>>, id, ok) /\ u_pwd' = u_pwd
      BY <2>2, Zenon DEF Pwd
    <3>2. text = <<>> \/ text = u_pwd
      BY <3>1, PwdReads
    <3> QED BY <2>1, <3>1, <3>2
  <2>3. CASE CdDot
    <3>1. PICK text, id, ok : AnswersPath(text) /\ text = myPwd(<<>>, id, ok) /\ u_pwd' = u_pwd
      BY <2>3, Zenon DEF CdDot
    <3>2. text = <<>> \/ text = u_pwd
      BY <3>1, PwdReads
    <3> QED BY <2>1, <3>1, <3>2
  <2>4. CASE CdUp
    BY <2>4, UpGoes
  <2>5. CASE CdHome
    <3>1. PICK saved \in BOOLEAN : AnswersPath(HomeText) /\ updateUserPwd(HomeText, saved)
      BY <2>5 DEF CdHome
    <3> QED BY <3>1, HomeTokens, Saved, PathShown, Zenon DEF Goes
  <2>6. CASE CdName
    BY <2>6, NameGoes
  <2>7. ASSUME NEW name, Command(name), NEW items, answer' = items, items = <<>> \/ items[1].kind # "path",
               u_pwd' = u_pwd, pwd' = pwd, tail' = tail
        PROVE  Stays
    <3>1. Shown = pwd /\ Trails = tail
      BY <2>7, CommandIs, PromptShown
    <3>2. Shown' = pwd' /\ Trails' = tail'
      BY <2>7 DEF Shown, Trails, HasPath
    <3> QED BY <2>7, <3>1, <3>2 DEF Stays
  <2>8. \A kind : Other(kind).kind = kind /\ <<Other(kind)>>[1] = Other(kind)
    BY DEF Other
  <2>9. CASE Ls
    <3>1. PICK ok, items : Command("ls") /\ items = myLs(ok) /\ answer' = items
                             /\ u_pwd' = u_pwd /\ pwd' = pwd /\ tail' = tail
      BY <2>9, Zenon DEF Ls, Answers
    <3>2. items = <<>> \/ items[1].kind = "list"
      BY <2>8, <3>1 DEF myLs
    <3> QED BY <2>7, <3>1, <3>2
  <2>10. CASE Exit
    BY <2>7, <2>10 DEF Exit, Answers
  <2>11. ASSUME NEW name, Change(name) \/ Port(name) PROVE Stays
    <3>1. PICK items : Command(name) /\ items = <<Other("int")>> /\ answer' = items
                         /\ u_pwd' = u_pwd /\ pwd' = pwd /\ tail' = tail
      BY <2>11, Zenon DEF Change, Port, Answers
    <3>2. items[1].kind = "int"
      BY <2>8, <3>1
    <3> QED BY <2>7, <3>1, <3>2
  <2> QED BY <1>4, <2>2, <2>3, <2>4, <2>5, <2>6, <2>9, <2>10, <2>11, Zenon DEF vFinder
<1>5. CASE UNCHANGED vars
  BY <1>5 DEF vars, Stays, Shown, Trails, HasPath, Beyond
<1> QED BY <1>1, <1>2, <1>3, <1>4, <1>5 DEF Next

\* The column holds home or what fits.
LEMMA NextKeepsPathInv == AInv /\ PathInv /\ [Next]_vars => PathInv'
<1> SUFFICES ASSUME AInv, PathInv, [Next]_vars PROVE Storable(u_pwd')
  BY DEF PathInv
<1>1. u_pwd' = u_pwd \/ \E text : Storable(text) /\ u_pwd' = text
  <2>1. ASSUME NEW text, Goes(text) PROVE u_pwd' = u_pwd \/ \E t : Storable(t) /\ u_pwd' = t
    BY <2>1 DEF Goes, Saves
  <2> QED BY <2>1, StepMoves, Zenon DEF Stays, Looks, Climbs, Enters
<1> QED BY <1>1, Zenon DEF PathInv

\* A line fits the buffer, and the buffer holds no more than a line.
LEMMA NextKeepsBufInv == BufInv /\ [Next]_vars => BufInv'
<1> SUFFICES ASSUME BufInv, [Next]_vars PROVE BufInv'
  OBVIOUS
<1>1. ASSUME buf' \in {buf, 0} PROVE BufInv'
  BY <1>1, ShellAssumption DEF BufInv
<1>2. ASSUME NEW typed \in Lines, NEW name, Ask(name, typed) PROVE BufInv'
  <2>1. CASE name = "pwd"
    BY <1>1, <1>2, <2>1 DEF Ask
  <2>2. CASE name # "pwd"
    <3>1. buf' = Characters(typed) - 1
      BY <1>2, <2>2 DEF Ask
    <3>2. typed \in Seq(DOMAIN Size) /\ Characters(typed) <= BUFFERSIZE
      BY LinesAssumption
    <3>3. myParse(typed) # <<>>
      BY <1>2 DEF Ask
    <3>4. PICK c \in Nat, l \in Nat : c = Characters(typed) /\ l = Len(Tokens(typed)) /\ 2 * l <= c
      BY <3>2, TokensFit
    <3>5. l > 0
      <4>1. PICK w : w = Tokens(typed) /\ w \in Seq(NonBlank)
        BY <3>2, TokensAre
      <4>2. CASE w = <<>>
        <5>1. SubSeq(<<>>, 1, IF Len(<<>>) < ARGCMAX THEN Len(<<>>) ELSE ARGCMAX) = <<>>
          <6>1. Len(<<>>) = 0 /\ 0 < ARGCMAX /\ SubSeq(<<>>, 1, 0) = <<>>
            BY ShellAssumption
          <6> QED BY <6>1
        <5> QED BY <3>3, <4>1, <4>2, <5>1, Zenon DEF myParse
      <4>3. CASE w # <<>>
        BY <3>4, <4>1, <4>3
      <4> QED BY <4>2, <4>3
    <3>6. c - 1 \in 0 .. BUFFERSIZE
      BY <3>2, <3>4, <3>5, ShellAssumption
    <3> QED BY <3>1, <3>4, <3>6 DEF BufInv
  <2> QED BY <2>1, <2>2
<1>3. ASSUME NEW typed \in Lines, vShell(typed) PROVE BufInv'
  <2>1. ASSUME NEW name, Take(name) PROVE BufInv'
    BY <1>1, <2>1 DEF Take
  <2>2. CASE ShellBlanks(typed) \/ ShellOverrun(typed)
    BY <1>1, <2>2 DEF ShellBlanks, ShellOverrun
  <2>3. (\E name : Ask(name, typed)) \/ (\E name : Take(name)) \/ ShellBlanks(typed) \/ ShellOverrun(typed)
    BY <1>3, Zenon DEF vShell, ShellExit, ShellPwd, ShellMkdir, ShellGets, ShellPuts, ShellLs, ShellCd,
          ShellRm, ShellRmdir
  <2> QED BY <1>2, <2>1, <2>2, <2>3
<1>4. CASE Login
  BY <1>1, <1>4 DEF Login
<1>5. CASE TimerCloses
  BY <1>1, <1>5 DEF TimerCloses
<1>6. CASE vFinder
  <2>1. buf' = buf
    BY <1>6, Zenon DEF vFinder, Pwd, CdDot, CdUp, CdHome, CdName, Cd, Ls, Exit, Change, Port
  <2> QED BY <1>1, <2>1
<1>7. CASE UNCHANGED vars
  BY <1>1, <1>7 DEF vars
<1> QED BY <1>3, <1>4, <1>5, <1>6, <1>7 DEF Next

LEMMA SpecBufInv == Spec => []BufInv
<1>1. Init => BufInv
  BY ShellAssumption DEF Init, BufInv
<1> QED BY <1>1, NextKeepsBufInv, PTL DEF Spec

LEMMA InitPathInv == Init => PathInv
BY HomeSaved DEF Init, PathInv

LEMMA SpecPathInv == Spec => []PathInv
<1>1. Init => PathInv
  BY InitPathInv
<1>2. AInv /\ PathInv /\ [Next]_vars => PathInv'
  BY NextKeepsPathInv
<1> QED BY <1>1, <1>2, SpecAInv, PTL DEF Spec

(***************************************************************************)
(* Each of those moves is a step of PathTree.                              *)
(***************************************************************************)
LEMMA InitFollows == Init => Tree!Init
<1> SUFFICES ASSUME Init PROVE Tree!Init
  OBVIOUS
<1>1. u_pwd = HomeText /\ Shown = HomeText /\ Trails = 0
  BY DEF Init, Shown, Trails, HasPath
<1>2. Tokens(HomeText) = <<UserName>> /\ AtHome(HomeText)
  BY HomeTokens, HomeIsAtHome
<1> QED BY <1>1, <1>2 DEF Tree!Init

\* After every step the path fits.
LEMMA FitsAfter ==
    ASSUME PathInv'
    PROVE  Tree!Fits'
<1>1. PICK text : text = u_pwd' /\ Storable(text)
  BY DEF PathInv
<1>2. /\ AtHome(text) => Tokens(text) # <<>> /\ Tokens(text)[1] = UserName
      /\ Len(Tokens(text)) <= IF ~AtHome(text) THEN (ROUTEDEPTH - 1) + 1 ELSE ROUTEDEPTH - 1
  BY <1>1, TextFits
<1> QED BY <1>1, <1>2, Zenon DEF Tree!Fits

\* What is shown behind a text is the rest of a longer line.
LEMMA ShowsIs ==
    ASSUME BufInv', NEW text \in Seq(DOMAIN Size), Shows(text)
    PROVE  Tree!Show(Tokens(text))
<1>1. PICK c \in Nat, l \in Nat : c = Characters(text) /\ l = Len(Tokens(text)) /\ 2 * l <= c
  BY TokensFit
<1>2. PICK t : t = Trails' /\ (t = 0 \/ (buf' > c /\ t = buf' - c))
  BY <1>1 DEF Shows
<1>3. t = 0 \/ 2 * l + t <= BUFFERSIZE
  BY <1>1, <1>2, ShellAssumption DEF BufInv
<1>4. Trails' = 0 \/ 2 * Len(Tokens(text)) + Trails' <= BUFFERSIZE
  BY <1>1, <1>2, <1>3, Zenon
<1>5. Tokens(Shown') = Tokens(text)
  BY Zenon DEF Shows
<1> QED BY <1>4, <1>5, Zenon DEF Tree!Show

\* A text that is shown, and perhaps saved.
LEMMA GoesIs ==
    ASSUME BufInv', NEW text, Goes(text), NEW astray, u_pwd' = text => (~AtHome(text)) = astray
    PROVE  Tree!Go(Tokens(text), astray)
<1>1. Tree!Show(Tokens(text))
  <2>1. text \in Seq(DOMAIN Size) /\ Shows(text)
    BY DEF Goes, Saves
  <2> QED BY <2>1, ShowsIs
<1>2. CASE u_pwd' = text
  <2>1. Tokens(u_pwd') = Tokens(text) /\ (~AtHome(u_pwd')) = astray
    BY <1>2, Zenon
  <2> QED BY <1>1, <2>1, Zenon DEF Tree!Go
<1>3. CASE u_pwd' = u_pwd
  <2>1. Tokens(u_pwd') = Tokens(u_pwd) /\ (~AtHome(u_pwd')) = (~AtHome(u_pwd))
    BY <1>3, Zenon
  <2> QED BY <1>1, <2>1, Zenon DEF Tree!Go
<1> QED BY <1>2, <1>3 DEF Goes, Saves

\* cd ..
LEMMA ClimbsIsLeave ==
    ASSUME BufInv', PathInv, Climbs
    PROVE  Tree!Leave
<1>0. PICK e \in DOMAIN Size : /\ ~AtTop(u_pwd) /\ Blank(e)
                               /\ \E up : up = <<e>> \o Front(Tokens(u_pwd)) /\ Goes(up)
  BY Zenon DEF Climbs
<1>1. PICK up : up = <<e>> \o Front(Tokens(u_pwd)) /\ Goes(up)
  BY <1>0, Zenon
<1>2. Storable(u_pwd)
  BY DEF PathInv
<1>3. Len(Tokens(u_pwd)) > 1 /\ Tokens(up) = Front(Tokens(u_pwd)) /\ (AtHome(u_pwd) => AtHome(up))
  BY <1>0, <1>1, <1>2, UpIs, Zenon
<1>4. (~AtHome(up)) \in {~AtHome(u_pwd), FALSE}
  BY <1>3
<1>5. Tree!Go(Front(Tokens(u_pwd)), ~AtHome(up))
  BY <1>1, <1>3, GoesIs, Zenon
<1> QED BY <1>3, <1>4, <1>5, Zenon DEF Tree!Leave, Tree!Front, Front

\* A login and cd /.
LEMMA HomeIsHome ==
    ASSUME BufInv', Goes(HomeText)
    PROVE  Tree!Home
<1>1. Tokens(HomeText) = <<UserName>> /\ (~AtHome(HomeText)) = FALSE
  BY HomeTokens, HomeIsAtHome
<1>2. Tree!Go(Tokens(HomeText), FALSE)
  BY <1>1, GoesIs, Zenon
<1> QED BY <1>1, <1>2, Zenon DEF Tree!Home

\* pwd, cd . and cd .. at the top.
LEMMA LooksIsLook ==
    ASSUME BufInv', PathInv, Looks
    PROVE  Tree!Look
<1>1. Tree!Show(Tokens(u_pwd)) \/ Tree!Show(<<>>)
  <2>1. u_pwd \in Seq(DOMAIN Size)
    BY DEF PathInv, Storable
  <2> QED BY <2>1, EmptyText, TokensNone, ShowsIs, Zenon DEF Looks
<1>2. Tokens(u_pwd') = Tokens(u_pwd) /\ (~AtHome(u_pwd')) = (~AtHome(u_pwd))
  BY Zenon DEF Looks
<1> QED BY <1>1, <1>2, Zenon DEF Tree!Look

\* All else.
LEMMA StaysIsStutter ==
    ASSUME Stays
    PROVE  UNCHANGED Tree!vars
<1>1. Tokens(u_pwd') = Tokens(u_pwd) /\ (~AtHome(u_pwd')) = (~AtHome(u_pwd))
      /\ Tokens(Shown') = Tokens(Shown) /\ Trails' = Trails
  BY Zenon DEF Stays
<1> QED BY <1>1, Zenon DEF Tree!vars

\* With a path that was read cd enters; what it makes of no path is anywhere.
LEMMA EntersIsEnter ==
    ASSUME BufInv', PathInv, NEW a \in DOMAIN Names, Enters(Names[a])
    PROVE  \E ns \in {Tokens(Names[b]) : b \in DOMAIN Names} : Tree!Enter(ns) \/ Tree!Stray(ns)
<1>1. PICK names, ns : names = Names[a] /\ ns = Tokens(names)
  OBVIOUS
<1>2. ns \in {Tokens(Names[b]) : b \in DOMAIN Names}
  BY <1>1, Zenon
<1>3. names \in Seq(DOMAIN Size) /\ u_pwd \in Seq(DOMAIN Size)
  BY <1>1, NamesAreTexts, Zenon DEF PathInv, Storable
<1>4. ASSUME NEW text, Goes(text), Tokens(text) = ns PROVE Tree!Stray(ns)
  <2>1. (~AtHome(text)) \in BOOLEAN
    OBVIOUS
  <2>2. Tree!Go(ns, ~AtHome(text))
    BY <1>4, GoesIs, Zenon
  <2> QED BY <2>1, <2>2, Zenon DEF Tree!Stray
<1>5. CASE Goes(names)
  BY <1>1, <1>2, <1>4, <1>5, Zenon
<1>6. CASE Goes(u_pwd \o names)
  <2>1. PICK to : to = u_pwd \o names /\ Goes(to)
    BY <1>6, Zenon
  <2>2. /\ Tokens(to) = Tokens(u_pwd) \o ns
        /\ Tokens(u_pwd) # <<>> => (AtHome(to) <=> AtHome(u_pwd))
    BY <1>1, <1>3, <2>1, DownIs, Zenon
  <2>3. CASE Tokens(u_pwd) = <<>>
    <3>1. ns \in Seq(NonBlank)
      BY <1>1, <1>3, TokensAre
    <3>2. <<>> \o ns = ns
      BY <3>1
    <3>3. Tokens(to) = ns
      BY <2>2, <2>3, <3>2, Zenon
    <3> QED BY <1>2, <1>4, <2>1, <3>3, Zenon
  <2>4. CASE Tokens(u_pwd) # <<>>
    <3>1. (~AtHome(to)) = (~AtHome(u_pwd))
      BY <2>2, <2>4
    <3>2. Tree!Go(Tokens(u_pwd) \o ns, ~AtHome(u_pwd))
      BY <2>1, <2>2, <3>1, GoesIs, Zenon
    <3> QED BY <1>2, <3>2, Zenon DEF Tree!Enter
  <2> QED BY <2>3, <2>4
<1> QED BY <1>1, <1>5, <1>6, Zenon DEF Enters

\* A step of Shell is a step of PathTree or none.
LEMMA StepFollows == AInv /\ PathInv /\ BufInv /\ [Next]_vars => [Tree!Next]_(Tree!vars)
<1> SUFFICES ASSUME AInv, PathInv, BufInv, [Next]_vars PROVE Tree!Next \/ UNCHANGED Tree!vars
  OBVIOUS
<1>0. BufInv'
  BY NextKeepsBufInv
<1>1. Tree!Fits'
  BY NextKeepsPathInv, FitsAfter
<1>2. Stays \/ Looks \/ Climbs \/ Goes(HomeText) \/ \E a \in DOMAIN Names : Enters(Names[a])
  BY StepMoves
<1>3. CASE Stays
  BY <1>3, StaysIsStutter
<1>4. CASE Looks
  BY <1>0, <1>1, <1>4, LooksIsLook, Zenon DEF Tree!Next
<1>5. CASE Climbs
  BY <1>0, <1>1, <1>5, ClimbsIsLeave, Zenon DEF Tree!Next
<1>6. CASE Goes(HomeText)
  BY <1>0, <1>1, <1>6, HomeIsHome, Zenon DEF Tree!Next
<1>7. CASE \E a \in DOMAIN Names : Enters(Names[a])
  BY <1>0, <1>1, <1>7, EntersIsEnter, Zenon DEF Tree!Next
<1> QED BY <1>2, <1>3, <1>4, <1>5, <1>6, <1>7

\* Every step of the shell and of vFinder() is one step of PathTree, or none.
THEOREM TextFollowsTree == Spec => PathsFollowTree
<1>1. Spec => Tree!Init
  BY InitFollows DEF Spec
<1>2. Spec => [][Tree!Next]_(Tree!vars)
  BY SpecAInv, SpecPathInv, SpecBufInv, StepFollows, PTL DEF Spec
<1> QED BY <1>1, <1>2 DEF PathsFollowTree, Tree!Spec

-----------------------------------------------------------------------------

(***************************************************************************)
(* The calendar: days before a year that begins in March, days of a month, *)
(* and what expireUserToken() makes of them second by second.              *)
(***************************************************************************)
Years(y) == 365 * y + (y \div 4) - (y \div 100) + (y \div 400)
RealLeap(y) == y % 4 = 0 /\ (y % 100 # 0 \/ y % 400 = 0)
Before(m) == <<306, 337, 0, 31, 61, 92, 122, 153, 184, 214, 245, 275>>[m]
Length(y, m) == <<31, IF RealLeap(y) THEN 29 ELSE 28, 31, 30, 31, 30, 31, 31, 30, 31, 30, 31>>[m]

LEMMA YearsStep ==
    ASSUME NEW y \in Nat
    PROVE  /\ Years(y) = Years(y - 1) + (IF RealLeap(y) THEN 366 ELSE 365)
           /\ Years(y) \in Int /\ Years(y - 1) \in Int
BY DEF Years, RealLeap

LEMMA LeapIs == ASSUME NEW y \in Nat
                PROVE  /\ Leap(y) <=> (RealLeap(y) \/ (y % 100 = 0 /\ y % 400 # 0))
                       /\ y % 100 = 0 /\ y % 400 # 0 => ~RealLeap(y)
BY DEF Leap, RealLeap

LEMMA BeforeIs ==
    ASSUME NEW m \in 1 .. 12
    PROVE  Before(m) = (153 * ((m + 9) % 12) + 2) \div 5 /\ Before(m) \in Nat
BY DEF Before

LEMMA DayNumberIs ==
    ASSUME NEW t, t.month \in 1 .. 12
    PROVE  DayNumber(t) = Years(IF t.month > 2 THEN t.year ELSE t.year - 1) + Before(t.month) + t.day
BY BeforeIs DEF DayNumber, Years

\* The first day of the next month comes Length days after the first of this one.
LEMMA MonthsMeet ==
    ASSUME NEW t \in Time
    PROVE  DayNumber(FirstOfNext(t)) - DayNumber([t EXCEPT !.day = 1]) = Length(t.year, t.month)
<1>1. PICK y \in Nat, m \in 1 .. 12 : y = t.year /\ m = t.month
  BY DEF Time
<1>2. PICK u : u = [t EXCEPT !.day = 1]
  OBVIOUS
<1>3. u.year = y /\ u.month = m /\ u.day = 1
  BY <1>1, <1>2 DEF Time
<1>4. DayNumber(u) = Years(IF m > 2 THEN y ELSE y - 1) + Before(m) + 1
  BY <1>3, DayNumberIs
<1>5. PICK v : v = FirstOfNext(t)
  OBVIOUS
<1>6. /\ v.day = 1
      /\ m = 12 => v.year = y + 1 /\ v.month = 1
      /\ m # 12 => v.year = y /\ v.month = m + 1
  BY <1>1, <1>5 DEF FirstOfNext, Time
<1>7. DayNumber(v) = Years(IF m > 2 THEN (IF m = 12 THEN y + 1 - 1 ELSE y)
                           ELSE IF m = 2 THEN y ELSE y - 1) + Before(IF m = 12 THEN 1 ELSE m + 1) + 1
  <2>1. CASE m = 12
    <3>1. v.month \in 1 .. 12 /\ ~(v.month > 2)
      BY <1>6, <2>1
    <3> QED BY <1>6, <2>1, <3>1, DayNumberIs
  <2>2. CASE m # 12
    <3>1. v.month \in 1 .. 12 /\ (v.month > 2 <=> m >= 2)
      BY <1>6, <2>2
    <3> QED BY <1>6, <2>2, <3>1, DayNumberIs
  <2> QED BY <2>1, <2>2
<1>8. y + 1 - 1 = y
  OBVIOUS
<1>9. DayNumber(v) - DayNumber(u) = Length(y, m)
  <2>1. CASE m = 2
    BY <1>4, <1>7, <2>1, YearsStep DEF Before, Length
  <2>2. CASE m # 2
    <3>1. PICK d \in Int : d = Years(IF m > 2 THEN y ELSE y - 1)
      BY YearsStep
    <3>2. DayNumber(v) = d + Before(IF m = 12 THEN 1 ELSE m + 1) + 1
      BY <1>7, <1>8, <2>2, <3>1
    <3>3. DayNumber(u) = d + Before(m) + 1
      BY <1>4, <3>1
    <3> QED BY <2>2, <3>2, <3>3 DEF Before, Length
  <2> QED BY <2>1, <2>2
<1> QED BY <1>1, <1>2, <1>5, <1>9

LEMMA RealDayIs == ASSUME NEW t \in Time PROVE RealDay(t) <=> t.day <= Length(t.year, t.month)
BY MonthsMeet DEF RealDay

LEMMA MonthDaysAre ==
    ASSUME NEW t \in Time
    PROVE  /\ monthDays(t) \in 28 .. 31
           /\ monthDays(t) = IF t.month = 2 /\ t.year % 100 = 0 /\ t.year % 400 # 0 THEN Length(t.year, t.month) + 1
                             ELSE Length(t.year, t.month)
           /\ Length(t.year, t.month) \in 28 .. 31
<1>1. PICK y \in Nat, m \in 1 .. 12 : y = t.year /\ m = t.month
  BY DEF Time
<1>2. Length(y, m) \in 28 .. 31
  BY DEF Length
<1>3. m # 2 => monthDays(t) = Length(y, m)
  BY <1>1 DEF monthDays, Length
<1>4. m = 2 => /\ monthDays(t) = IF Leap(y) THEN 29 ELSE 28
               /\ Length(y, m) = IF RealLeap(y) THEN 29 ELSE 28
  BY <1>1 DEF monthDays, Length
<1>5. m = 2 => monthDays(t) = IF y % 100 = 0 /\ y % 400 # 0 THEN Length(y, m) + 1 ELSE Length(y, m)
  BY <1>4, LeapIs
<1>6. monthDays(t) \in 28 .. 31
  BY <1>2, <1>3, <1>4
<1> QED BY <1>1, <1>2, <1>3, <1>5, <1>6

\* The day from which the code goes to a day that is none.
WrongDay(t) == t.year % 100 = 0 /\ t.year % 400 # 0 /\ t.month = 2 /\ t.day = 28

\* u has that date, midnight, and otherwise the time of t.
Dated(u, y, m, d, t) ==
    u = [year |-> y, month |-> m, day |-> d, hour |-> 0, minute |-> t.minute, second |-> t.second]

LEMMA NextDayDated ==
    ASSUME NEW t \in Time
    PROVE  /\ t.day + 1 <= monthDays(t) => Dated(NextDay(t), t.year, t.month, t.day + 1, t)
           /\ t.day + 1 > monthDays(t) /\ t.month < 12 => Dated(NextDay(t), t.year, t.month + 1, 1, t)
           /\ t.day + 1 > monthDays(t) /\ t.month = 12 => Dated(NextDay(t), t.year + 1, 1, 1, t)
<1>1. PICK y \in Nat, m \in 1 .. 12, d \in 1 .. 31 : y = t.year /\ m = t.month /\ d = t.day
  BY DEF Time
<1>2. PICK u : u = NextDay(t)
  OBVIOUS
<1>3. PICK last \in 28 .. 31 : last = monthDays(t)
  BY MonthDaysAre
<1>4. /\ d + 1 <= last => Dated(u, y, m, d + 1, t)
      /\ d + 1 > last /\ m < 12 => Dated(u, y, m + 1, 1, t)
      /\ d + 1 > last /\ m = 12 => Dated(u, y + 1, 1, 1, t)
  <2>1. PICK on : on = [t EXCEPT !.day = @ + 1, !.hour = 0]
    OBVIOUS
  <2>2. Dated(on, y, m, d + 1, t)
    BY <1>1, <2>1 DEF Dated, Time
  <2>3. u = CASE ~(on.day > last)             -> on
              [] on.day > last /\ t.month < 12 -> [on EXCEPT !.month = @ + 1, !.day = 1]
              [] on.day > last /\ t.month = 12 -> [on EXCEPT !.year = @ + 1, !.month = 1, !.day = 1]
    BY <1>2, <1>3, <2>1, Zenon DEF NextDay
  <2>4. on.day = d + 1
    BY <2>2 DEF Dated
  <2>5. CASE d + 1 <= last
    <3>1. u = on
      BY <1>3, <2>3, <2>4, <2>5
    <3> QED BY <1>3, <2>2, <2>5, <3>1
  <2>6. CASE d + 1 > last /\ m < 12
    <3>1. u = [on EXCEPT !.month = @ + 1, !.day = 1]
      BY <1>1, <1>3, <2>3, <2>4, <2>6
    <3>2. Dated(u, y, m + 1, 1, t)
      BY <2>2, <3>1 DEF Dated
    <3> QED BY <1>3, <2>6, <3>2
  <2>7. CASE d + 1 > last /\ m = 12
    <3>1. u = [on EXCEPT !.year = @ + 1, !.month = 1, !.day = 1]
      BY <1>1, <1>3, <2>3, <2>4, <2>7
    <3>2. Dated(u, y + 1, 1, 1, t)
      BY <2>2, <3>1 DEF Dated
    <3> QED BY <1>3, <2>7, <3>2
  <2> QED BY <1>3, <2>5, <2>6, <2>7
<1> QED BY <1>1, <1>2, <1>3, <1>4

LEMMA NextDayIs ==
    ASSUME NEW t \in Time
    PROVE  /\ NextDay(t) \in Time
           /\ RealDay(t) => IF WrongDay(t) THEN ~RealDay(NextDay(t))
                            ELSE RealDay(NextDay(t)) /\ DayNumber(NextDay(t)) = DayNumber(t) + 1
<1>1. PICK y \in Nat, m \in 1 .. 12, d \in 1 .. 31 : y = t.year /\ m = t.month /\ d = t.day
  BY DEF Time
<1>2. PICK u : u = NextDay(t)
  OBVIOUS
<1>3. PICK last \in 28 .. 31 : last = monthDays(t)
  BY MonthDaysAre
<1>4. /\ d + 1 <= last => Dated(u, y, m, d + 1, t)
      /\ d + 1 > last /\ m < 12 => Dated(u, y, m + 1, 1, t)
      /\ d + 1 > last /\ m = 12 => Dated(u, y + 1, 1, 1, t)
  BY <1>1, <1>2, <1>3, NextDayDated
<1>5. u \in Time
  <2>1. t.minute \in 0 .. 59 /\ t.second \in 0 .. 59
    BY DEF Time
  <2>2. CASE d + 1 <= last
    BY <1>3, <1>4, <2>1, <2>2 DEF Time, Dated
  <2>3. CASE d + 1 > last /\ m < 12
    BY <1>3, <1>4, <2>1, <2>3 DEF Time, Dated
  <2>4. CASE d + 1 > last /\ m = 12
    BY <1>3, <1>4, <2>1, <2>4 DEF Time, Dated
  <2> QED BY <1>3, <2>2, <2>3, <2>4
<1> SUFFICES ASSUME RealDay(t)
             PROVE  IF WrongDay(t) THEN ~RealDay(u) ELSE RealDay(u) /\ DayNumber(u) = DayNumber(t) + 1
  BY <1>2, <1>5
<1>6. d <= Length(y, m) /\ Length(y, m) \in 28 .. 31
  BY <1>1, RealDayIs, MonthDaysAre
<1>7. WrongDay(t) => ~RealDay(u)
  <2> SUFFICES ASSUME WrongDay(t) PROVE ~RealDay(u)
    OBVIOUS
  <2>1. m = 2 /\ d = 28 /\ y % 100 = 0 /\ y % 400 # 0
    BY <1>1 DEF WrongDay
  <2>2. Length(y, m) = 28
    BY <2>1, LeapIs DEF Length
  <2>3. last = 29
    <3>1. monthDays(t) = IF m = 2 /\ y % 100 = 0 /\ y % 400 # 0 THEN Length(y, m) + 1 ELSE Length(y, m)
      BY <1>1, MonthDaysAre
    <3> QED BY <1>3, <2>1, <2>2, <3>1
  <2>4. u.year = y /\ u.month = m /\ u.day = 29
    BY <1>4, <2>1, <2>3 DEF Dated
  <2> QED BY <1>5, <2>2, <2>4, RealDayIs
<1>8. ~WrongDay(t) => RealDay(u) /\ DayNumber(u) = DayNumber(t) + 1
  <2> SUFFICES ASSUME ~WrongDay(t) PROVE RealDay(u) /\ DayNumber(u) = DayNumber(t) + 1
    OBVIOUS
  <2>1. DayNumber(t) = Years(IF m > 2 THEN y ELSE y - 1) + Before(m) + d
    BY <1>1, DayNumberIs
  <2>2. CASE d + 1 <= Length(y, m)
    <3>1. d + 1 <= last
      BY <1>1, <1>3, <1>6, <2>2, MonthDaysAre
    <3>2. u.year = y /\ u.month = m /\ u.day = d + 1
      BY <1>4, <3>1 DEF Dated
    <3>3. DayNumber(u) = Years(IF m > 2 THEN y ELSE y - 1) + Before(m) + (d + 1)
      BY <3>2, DayNumberIs
    <3>4. Years(IF m > 2 THEN y ELSE y - 1) \in Int /\ Before(m) \in Int
      BY YearsStep, BeforeIs
    <3> QED BY <1>5, <2>1, <2>2, <3>2, <3>3, <3>4, RealDayIs
  <2>3. CASE d + 1 > Length(y, m)
    <3>1. d = Length(y, m)
      BY <1>6, <2>3
    <3>2. d + 1 > last
      <4>1. ~(m = 2 /\ y % 100 = 0 /\ y % 400 # 0)
        BY <1>1, <3>1, LeapIs DEF WrongDay, Length
      <4> QED BY <1>1, <1>3, <1>6, <2>3, <4>1, MonthDaysAre
    <3>3. PICK v : v = FirstOfNext(t)
      OBVIOUS
    <3>4. v.year = u.year /\ v.month = u.month /\ v.day = 1 /\ u.day = 1 /\ u.month \in 1 .. 12
      BY <1>1, <1>4, <3>2, <3>3 DEF FirstOfNext, Time, Dated
    <3>5. DayNumber(u) = DayNumber(v)
      BY <3>4, DayNumberIs
    <3>6. PICK w : w = [t EXCEPT !.day = 1]
      OBVIOUS
    <3>7. w.year = y /\ w.month = m /\ w.day = 1
      BY <1>1, <3>6 DEF Time
    <3>8. DayNumber(w) = Years(IF m > 2 THEN y ELSE y - 1) + Before(m) + 1
      BY <3>7, DayNumberIs
    <3>9. DayNumber(v) - DayNumber(w) = Length(y, m)
      BY <1>1, <3>3, <3>6, MonthsMeet
    <3>10. Years(IF m > 2 THEN y ELSE y - 1) \in Int /\ Before(m) \in Int
      BY YearsStep, BeforeIs
    <3>11. DayNumber(v) \in Int
      <4>1. u.year \in Nat
        BY <1>5 DEF Time
      <4>2. Years(IF u.month > 2 THEN u.year ELSE u.year - 1) \in Int /\ Before(u.month) \in Int
        BY <3>4, <4>1, YearsStep, BeforeIs
      <4> QED BY <3>4, <4>2, DayNumberIs
    <3>12. DayNumber(u) = DayNumber(t) + 1
      BY <2>1, <3>1, <3>5, <3>8, <3>9, <3>10, <3>11
    <3>13. u.day <= Length(u.year, u.month)
      BY <1>5, <3>4, MonthDaysAre
    <3> QED BY <1>5, <3>12, <3>13, RealDayIs
  <2> QED BY <1>6, <2>2, <2>3
<1> QED BY <1>7, <1>8
SameDate(u, t) == u.year = t.year /\ u.month = t.month /\ u.day = t.day

LEMMA DayNumberIsInt == ASSUME NEW t \in Time PROVE DayNumber(t) \in Int
<1>1. PICK y \in Nat, m \in 1 .. 12, d \in 1 .. 31 : y = t.year /\ m = t.month /\ d = t.day
  BY DEF Time
<1>2. Years(IF m > 2 THEN y ELSE y - 1) \in Int /\ Before(m) \in Int
  BY YearsStep, BeforeIs
<1>3. DayNumber(t) = Years(IF m > 2 THEN y ELSE y - 1) + Before(m) + d
  BY <1>1, DayNumberIs
<1> QED BY <1>2, <1>3

LEMMA SameDateIs ==
    ASSUME NEW u \in Time, NEW t \in Time, SameDate(u, t)
    PROVE  (RealDay(u) <=> RealDay(t)) /\ DayNumber(u) = DayNumber(t)
<1>1. t.month \in 1 .. 12
  BY DEF Time
<1> QED BY <1>1, RealDayIs, DayNumberIs DEF SameDate

LEMMA SecondIs == ASSUME NEW t \in Time PROVE SecondOfDay(t) \in Nat /\ SecondOfDay(t) < Day
<1>1. PICK h \in 0 .. 23, m \in 0 .. 59, s \in 0 .. 59 : h = t.hour /\ m = t.minute /\ s = t.second
  BY DEF Time
<1>2. 3600 * h + 60 * m + s \in Nat /\ 3600 * h + 60 * m + s < 86400
  OBVIOUS
<1>3. SecondOfDay(t) = 3600 * h + 60 * m + s
  BY <1>1 DEF SecondOfDay
<1> QED BY <1>2, <1>3 DEF Day

LEMMA TickInDay ==
    ASSUME NEW t \in Time, SecondOfDay(t) # Day - 1
    PROVE  Tick(t) \in Time /\ SameDate(Tick(t), t) /\ SecondOfDay(Tick(t)) = SecondOfDay(t) + 1
<1>1. PICK h \in 0 .. 23, m \in 0 .. 59, s \in 0 .. 59 : h = t.hour /\ m = t.minute /\ s = t.second
  BY DEF Time
<1>2. SecondOfDay(t) = 3600 * h + 60 * m + s
  BY <1>1 DEF SecondOfDay
<1>3. PICK u : u = Tick(t)
  OBVIOUS
<1>4. CASE s # 59
  <2>1. u = [t EXCEPT !.second = @ + 1]
    BY <1>1, <1>3, <1>4 DEF Tick
  <2>2. u \in Time /\ SameDate(u, t) /\ u.hour = h /\ u.minute = m /\ u.second = s + 1
    BY <1>1, <1>4, <2>1 DEF Time, SameDate
  <2>3. SecondOfDay(u) = SecondOfDay(t) + 1
    BY <1>2, <2>2 DEF SecondOfDay
  <2> QED BY <1>3, <2>2, <2>3
<1>5. CASE s = 59 /\ m # 59
  <2>1. u = [t EXCEPT !.minute = @ + 1, !.second = 0]
    BY <1>1, <1>3, <1>5 DEF Tick
  <2>2. u \in Time /\ SameDate(u, t) /\ u.hour = h /\ u.minute = m + 1 /\ u.second = 0
    <3>1. m + 1 \in 0 .. 59
      BY <1>5
    <3>2. u = [year |-> t.year, month |-> t.month, day |-> t.day, hour |-> h, minute |-> m + 1, second |-> 0]
      BY <1>1, <2>1 DEF Time
    <3> QED BY <3>1, <3>2 DEF Time, SameDate
  <2>3. SecondOfDay(u) = SecondOfDay(t) + 1
    BY <1>2, <1>5, <2>2 DEF SecondOfDay
  <2> QED BY <1>3, <2>2, <2>3
<1>6. CASE s = 59 /\ m = 59
  <2>1. h # 23
    BY <1>2, <1>6 DEF Day
  <2>2. u = [t EXCEPT !.hour = @ + 1, !.minute = 0, !.second = 0]
    BY <1>1, <1>3, <1>6, <2>1 DEF Tick
  <2>3. u \in Time /\ SameDate(u, t) /\ u.hour = h + 1 /\ u.minute = 0 /\ u.second = 0
    <3>1. h + 1 \in 0 .. 23
      BY <2>1
    <3>2. u = [year |-> t.year, month |-> t.month, day |-> t.day, hour |-> h + 1, minute |-> 0, second |-> 0]
      BY <1>1, <2>2 DEF Time
    <3> QED BY <3>1, <3>2 DEF Time, SameDate
  <2>4. SecondOfDay(u) = SecondOfDay(t) + 1
    BY <1>2, <1>6, <2>3 DEF SecondOfDay
  <2> QED BY <1>3, <2>3, <2>4
<1> QED BY <1>4, <1>5, <1>6

LEMMA TickAtMidnight ==
    ASSUME NEW t \in Time, SecondOfDay(t) = Day - 1
    PROVE  Tick(t) \in Time /\ SameDate(Tick(t), NextDay(t)) /\ SecondOfDay(Tick(t)) = 0
<1>1. t.hour = 23 /\ t.minute = 59 /\ t.second = 59
  <2>1. PICK h \in 0 .. 23, m \in 0 .. 59, s \in 0 .. 59 : h = t.hour /\ m = t.minute /\ s = t.second
    BY DEF Time
  <2>2. SecondOfDay(t) = 3600 * h + 60 * m + s
    BY <2>1 DEF SecondOfDay
  <2>3. 3600 * h + 60 * m + s = 86399
    BY <2>2 DEF Day
  <2> QED BY <2>1, <2>3
<1>2. PICK v : v = [t EXCEPT !.hour = @ + 1, !.minute = 0, !.second = 0]
  OBVIOUS
<1>3. Tick(t) = NextDay(v)
  BY <1>1, <1>2 DEF Tick
<1>4. PICK w : w = [t EXCEPT !.minute = 0, !.second = 0]
  OBVIOUS
<1>5. w \in Time /\ w.minute = 0 /\ w.second = 0 /\ w.year = t.year /\ w.month = t.month /\ w.day = t.day
  <2>1. w = [year |-> t.year, month |-> t.month, day |-> t.day, hour |-> t.hour, minute |-> 0, second |-> 0]
    BY <1>4 DEF Time
  <2> QED BY <2>1 DEF Time
<1>6. NextDay(v) = NextDay(w)
  <2>1. [v EXCEPT !.day = @ + 1, !.hour = 0] = [w EXCEPT !.day = @ + 1, !.hour = 0]
    BY <1>2, <1>4 DEF Time
  <2>2. v.month = w.month /\ v.year = w.year
    BY <1>2, <1>4 DEF Time
  <2>3. monthDays(v) = monthDays(w)
    BY <2>2 DEF monthDays
  <2> QED BY <2>1, <2>2, <2>3, Zenon DEF NextDay
<1>7. monthDays(w) = monthDays(t)
  BY <1>5 DEF monthDays
<1>8. PICK last \in 28 .. 31 : last = monthDays(t)
  BY MonthDaysAre
<1>9. ASSUME NEW y, NEW m, NEW d, Dated(NextDay(w), y, m, d, w), Dated(NextDay(t), y, m, d, t)
      PROVE  SameDate(NextDay(w), NextDay(t)) /\ SecondOfDay(NextDay(w)) = 0
  <2>1. SameDate(NextDay(w), NextDay(t))
    BY <1>9 DEF Dated, SameDate
  <2>2. NextDay(w).hour = 0 /\ NextDay(w).minute = 0 /\ NextDay(w).second = 0
    BY <1>5, <1>9 DEF Dated
  <2> QED BY <2>1, <2>2 DEF SecondOfDay
<1>10. SameDate(NextDay(w), NextDay(t)) /\ SecondOfDay(NextDay(w)) = 0
  <2>1. t.month \in 1 .. 12 /\ t.day \in 1 .. 31
    BY DEF Time
  <2>2. CASE t.day + 1 <= last
    <3>1. Dated(NextDay(w), t.year, t.month, t.day + 1, w) /\ Dated(NextDay(t), t.year, t.month, t.day + 1, t)
      BY <1>5, <1>7, <1>8, <2>2, NextDayDated
    <3> QED BY <1>9, <3>1
  <2>3. CASE t.day + 1 > last /\ t.month < 12
    <3>1. Dated(NextDay(w), t.year, t.month + 1, 1, w) /\ Dated(NextDay(t), t.year, t.month + 1, 1, t)
      BY <1>5, <1>7, <1>8, <2>3, NextDayDated
    <3> QED BY <1>9, <3>1
  <2>4. CASE t.day + 1 > last /\ t.month = 12
    <3>1. Dated(NextDay(w), t.year + 1, 1, 1, w) /\ Dated(NextDay(t), t.year + 1, 1, 1, t)
      BY <1>5, <1>7, <1>8, <2>4, NextDayDated
    <3> QED BY <1>9, <3>1
  <2> QED BY <1>8, <2>1, <2>2, <2>3, <2>4
<1>11. NextDay(w) \in Time
  BY <1>5, NextDayIs
<1> QED BY <1>3, <1>6, <1>10, <1>11

\* n seconds after the midnight before now.
Ahead(t, now, n) ==
    /\ t \in Time
    /\ n < Day  => SameDate(t, now) /\ SecondOfDay(t) = n
    /\ n >= Day => SameDate(t, NextDay(now)) /\ SecondOfDay(t) = n - Day

LEMMA SameNextDay ==
    ASSUME NEW u \in Time, NEW t \in Time, SameDate(u, t)
    PROVE  SameDate(NextDay(u), NextDay(t))
<1>1. monthDays(u) = monthDays(t)
  BY DEF monthDays, SameDate
<1>2. PICK last \in 28 .. 31 : last = monthDays(t)
  BY MonthDaysAre
<1>3. ASSUME NEW y, NEW m, NEW d, Dated(NextDay(u), y, m, d, u), Dated(NextDay(t), y, m, d, t)
      PROVE  SameDate(NextDay(u), NextDay(t))
  BY <1>3 DEF Dated, SameDate
<1>4. t.month \in 1 .. 12 /\ t.day \in 1 .. 31 /\ u.year = t.year /\ u.month = t.month /\ u.day = t.day
  BY DEF Time, SameDate
<1>5. CASE t.day + 1 <= last
  <2>1. Dated(NextDay(u), t.year, t.month, t.day + 1, u) /\ Dated(NextDay(t), t.year, t.month, t.day + 1, t)
    BY <1>1, <1>2, <1>4, <1>5, NextDayDated
  <2> QED BY <1>3, <2>1
<1>6. CASE t.day + 1 > last /\ t.month < 12
  <2>1. Dated(NextDay(u), t.year, t.month + 1, 1, u) /\ Dated(NextDay(t), t.year, t.month + 1, 1, t)
    BY <1>1, <1>2, <1>4, <1>6, NextDayDated
  <2> QED BY <1>3, <2>1
<1>7. CASE t.day + 1 > last /\ t.month = 12
  <2>1. Dated(NextDay(u), t.year + 1, 1, 1, u) /\ Dated(NextDay(t), t.year + 1, 1, 1, t)
    BY <1>1, <1>2, <1>4, <1>7, NextDayDated
  <2> QED BY <1>3, <2>1
<1> QED BY <1>2, <1>4, <1>5, <1>6, <1>7

LEMMA TickIsAhead ==
    ASSUME NEW now \in Time, NEW t, NEW n \in Nat, n < 2 * Day - 1, Ahead(t, now, n)
    PROVE  Ahead(Tick(t), now, n + 1)
<1>1. t \in Time
  BY DEF Ahead
<1>2. CASE n < 86399
  <2>1. SameDate(t, now) /\ SecondOfDay(t) = n
    BY <1>2 DEF Ahead, Day
  <2>2. Tick(t) \in Time /\ SameDate(Tick(t), t) /\ SecondOfDay(Tick(t)) = n + 1
    BY <1>1, <1>2, <2>1, TickInDay DEF Day
  <2>3. SameDate(Tick(t), now)
    BY <2>1, <2>2 DEF SameDate
  <2> QED BY <1>2, <2>2, <2>3 DEF Ahead, Day
<1>3. CASE n = 86399
  <2>1. SameDate(t, now) /\ SecondOfDay(t) = Day - 1
    BY <1>3 DEF Ahead, Day
  <2>2. Tick(t) \in Time /\ SameDate(Tick(t), NextDay(t)) /\ SecondOfDay(Tick(t)) = 0
    BY <1>1, <2>1, TickAtMidnight
  <2>3. SameDate(NextDay(t), NextDay(now))
    BY <1>1, <2>1, SameNextDay
  <2>4. SameDate(Tick(t), NextDay(now))
    BY <2>2, <2>3 DEF SameDate
  <2> QED BY <1>3, <2>2, <2>4 DEF Ahead, Day
<1>4. CASE n > 86399
  <2>1. SameDate(t, NextDay(now)) /\ SecondOfDay(t) = n - 86400
    BY <1>4 DEF Ahead, Day
  <2>2. Tick(t) \in Time /\ SameDate(Tick(t), t) /\ SecondOfDay(Tick(t)) = n - 86400 + 1
    BY <1>1, <1>4, <2>1, TickInDay DEF Day
  <2>3. SameDate(Tick(t), NextDay(now))
    BY <2>1, <2>2 DEF SameDate
  <2> QED BY <1>4, <2>2, <2>3 DEF Ahead, Day
<1> QED BY <1>2, <1>3, <1>4

\* The clock of expireUserToken() goes through the seconds after now.
LEMMA ExpiryIsAhead ==
    ASSUME NEW now \in Time
    PROVE  Ahead(expireUserToken(now), now, SecondOfDay(now) + EXPIRETIME)
<1>1. PICK n \in Nat : n = EXPIRETIME /\ n <= Day
  BY ExpireAssumption DEF Day
<1>2. PICK s \in Nat : s = SecondOfDay(now) /\ s < Day
  BY SecondIs DEF Day
<1> DEFINE G == [x \in Time \X (1 .. n) |-> Tick(x[1])]
           Body(g) == [i \in 0 .. EXPIRETIME |-> IF i = 0 THEN now ELSE Tick(g[i - 1])]
           f == CHOOSE g : g = Body(g)
<1>3. expireUserToken(now) = f[n]
  BY <1>1, Zenon DEF expireUserToken
<1>4. G \in [Time \X (1 .. n) -> Time]
  <2>1. ASSUME NEW x \in Time \X (1 .. n) PROVE Tick(x[1]) \in Time
    BY TickInDay, TickAtMidnight
  <2> QED BY <2>1
<1>5. PICK h \in [0 .. n -> Time] : Taken(h, n, now, G)
  <2> HIDE DEF G
  <2> QED BY <1>4, RecursionExists DEF HasTaken
<1>6. ASSUME NEW k \in 1 .. n PROVE h[k] = Tick(h[k - 1])
  <2>1. h[k - 1] \in Time
    OBVIOUS
  <2>2. h[k] = G[<<h[k - 1], k>>]
    BY <1>5, Zenon DEF Taken
  <2> QED BY <2>1, <2>2
<1>7. h = Body(h)
  <2>1. h = [i \in 0 .. n |-> h[i]]
    OBVIOUS
  <2>2. ASSUME NEW i \in 0 .. n PROVE h[i] = IF i = 0 THEN now ELSE Tick(h[i - 1])
    <3>1. i # 0 => i \in 1 .. n
      OBVIOUS
    <3> HIDE DEF G
    <3> QED BY <1>5, <1>6, <3>1 DEF Taken
  <2> QED BY <1>1, <2>1, <2>2
<1>8. f = Body(f)
  BY <1>7, Zenon
<1> HIDE DEF f, G
<1> DEFINE P == {i \in 0 .. n : Ahead(f[i], now, s + i)}
<1>9. 0 \in P
  <2>1. f[0] = now
    <3>1. 0 \in 0 .. EXPIRETIME
      BY <1>1
    <3>2. f[0] = IF 0 = 0 THEN now ELSE Tick(f[0 - 1])
      BY <1>8, <3>1, Zenon
    <3> QED BY <3>2
  <2>2. SameDate(now, now)
    BY DEF SameDate
  <2>3. Ahead(now, now, s)
    <3>1. ~(s >= Day)
      BY <1>2 DEF Day
    <3> QED BY <1>2, <2>2, <3>1, Zenon DEF Ahead
  <2> QED BY <2>1, <2>3
<1>10. ASSUME NEW k \in 1 .. n, k - 1 \in P PROVE k \in P
  <2>1. k \in 0 .. EXPIRETIME /\ k # 0
    BY <1>1
  <2>2. f[k] = IF k = 0 THEN now ELSE Tick(f[k - 1])
    BY <1>8, <2>1, Zenon
  <2>3. f[k] = Tick(f[k - 1])
    BY <2>1, <2>2
  <2>4. PICK q \in Nat : q = s + (k - 1) /\ q < 2 * Day - 1 /\ q + 1 = s + k
    BY <1>1, <1>2 DEF Day
  <2>5. Ahead(f[k - 1], now, q)
    BY <1>10, <2>4
  <2>6. Ahead(f[k], now, s + k)
    BY <2>3, <2>4, <2>5, TickIsAhead
  <2> QED BY <2>6
<1> HIDE DEF P
<1>11. n \in P
  BY <1>9, <1>10, UpTo
<1> QED BY <1>1, <1>2, <1>3, <1>11 DEF P

\* That is EXPIRETIME seconds after now, but for the wrong leap days.
LEMMA RightExpiry ==
    ASSUME NEW now \in Times
    PROVE  IsAfter(expireUserToken(now), now, EXPIRETIME) <=> ~WrongLeapDay(now)
<1>1. now \in Time /\ RealDay(now)
  BY TimesAssumption
<1>2. PICK u : u = expireUserToken(now)
  OBVIOUS
<1>3. PICK n \in Nat : n = SecondOfDay(now) + EXPIRETIME /\ n < 2 * Day
  <2>1. EXPIRETIME \in Nat /\ EXPIRETIME <= Day
    BY ExpireAssumption DEF Day
  <2> QED BY <1>1, <2>1, SecondIs DEF Day
<1>4. Ahead(u, now, n) /\ u \in Time
  BY <1>1, <1>2, <1>3, ExpiryIsAhead DEF Ahead
<1>5. PICK d \in Int : d = DayNumber(now)
  BY <1>1, DayNumberIsInt
<1>6. IsAfter(u, now, EXPIRETIME) <=> /\ RealDay(u)
                                     /\ DayNumber(u) = d + (n \div 86400)
                                     /\ SecondOfDay(u) = n % 86400
  BY <1>3, <1>5 DEF IsAfter, Day
<1>7. CASE n < Day
  <2>1. SameDate(u, now) /\ SecondOfDay(u) = n
    BY <1>4, <1>7 DEF Ahead
  <2>2. RealDay(u) /\ DayNumber(u) = d
    BY <1>1, <1>4, <1>5, <2>1, SameDateIs
  <2>3. n \div 86400 = 0 /\ n % 86400 = n
    BY <1>7 DEF Day
  <2>4. IsAfter(u, now, EXPIRETIME)
    BY <1>6, <2>1, <2>2, <2>3
  <2>5. ~WrongLeapDay(now)
    BY <1>3, <1>7 DEF WrongLeapDay, Day
  <2> QED BY <1>2, <2>4, <2>5
<1>8. CASE n >= Day
  <2>1. SameDate(u, NextDay(now)) /\ SecondOfDay(u) = n - Day
    BY <1>4, <1>8 DEF Ahead
  <2>2. NextDay(now) \in Time
    BY <1>1, NextDayIs
  <2>3. (RealDay(u) <=> RealDay(NextDay(now))) /\ DayNumber(u) = DayNumber(NextDay(now))
    BY <1>4, <2>1, <2>2, SameDateIs
  <2>4. n \div 86400 = 1 /\ n % 86400 = n - 86400
    BY <1>3, <1>8 DEF Day
  <2>5. WrongLeapDay(now) <=> WrongDay(now)
    BY <1>3, <1>8 DEF WrongLeapDay, WrongDay
  <2>6. CASE WrongDay(now)
    <3>1. ~RealDay(u)
      BY <1>1, <2>3, <2>6, NextDayIs
    <3> QED BY <1>2, <1>6, <2>5, <2>6, <3>1
  <2>7. CASE ~WrongDay(now)
    <3>1. RealDay(u) /\ DayNumber(u) = d + 1
      BY <1>1, <1>5, <2>3, <2>7, NextDayIs
    <3>2. IsAfter(u, now, EXPIRETIME)
      BY <1>6, <2>1, <2>4, <3>1 DEF Day
    <3> QED BY <1>2, <2>5, <2>7, <3>2
  <2> QED BY <2>6, <2>7
<1> QED BY <1>3, <1>7, <1>8 DEF Day

\* The times that the table is asked for.
ExpiryInv == \A u \in updates : u.now \in Times /\ u.newExpire = expireUserToken(u.now)

\* Single seconds carry the time of a command to the right second of the
\* calendar, whatever months and years end on the way, but for the day that the
\* leap rule has too many: for any real time and any EXPIRETIME up to a day.
THEOREM ExpiryFollowsCalendar == ExpireSpec => []ExpiryIsRight
<1>1. NoUpdate => ExpiryInv
  BY DEF NoUpdate, ExpiryInv
<1>2. ExpiryInv /\ [Expire]_updates => ExpiryInv'
  BY DEF Expire, ExpiryInv
<1>3. ExpiryInv => ExpiryIsRight
  BY RightExpiry DEF ExpiryInv, ExpiryIsRight
<1> QED BY <1>1, <1>2, <1>3, PTL DEF ExpireSpec

-----------------------------------------------------------------------------

(***************************************************************************)
(* Blocks, one after the other.                                            *)
(***************************************************************************)
BlockAt(bytes, from, k) == SubSeq(bytes, from + 64 * k - 63, from + 64 * k)

\* r holds the states after the first k blocks.
States(r, k, state, bytes, from) ==
    r = [i \in 0 .. k |-> IF i = 0 THEN state ELSE Transform(r[i - 1], BlockAt(bytes, from, i))]

LEMMA StatesExist ==
    ASSUME NEW n \in Nat, NEW state, NEW bytes, NEW from
    PROVE  \E r : States(r, n, state, bytes, from)
<1> DEFINE P == {k \in 0 .. n : \E r : States(r, k, state, bytes, from)}
<1>1. 0 \in P
  <2>1. PICK r : r = [i \in 0 .. 0 |-> state]
    OBVIOUS
  <2>2. States(r, 0, state, bytes, from)
    <3>1. \A i \in 0 .. 0 : i = 0
      OBVIOUS
    <3> QED BY <2>1, <3>1, Zenon DEF States
  <2> QED BY <2>2
<1>2. ASSUME NEW k \in 1 .. n, k - 1 \in P PROVE k \in P
  <2>1. PICK q : States(q, k - 1, state, bytes, from)
    BY <1>2
  <2>2. PICK r : r = [i \in 0 .. k |-> IF i = k THEN Transform(q[k - 1], BlockAt(bytes, from, k)) ELSE q[i]]
    OBVIOUS
  <2>3. \A i \in 0 .. k - 1 : r[i] = q[i]
    BY <2>2
  <2>4. ASSUME NEW i \in 0 .. k PROVE r[i] = IF i = 0 THEN state ELSE Transform(r[i - 1], BlockAt(bytes, from, i))
    <3>1. CASE i = k
      <4>1. r[k] = Transform(q[k - 1], BlockAt(bytes, from, k))
        BY <2>2
      <4>2. r[k - 1] = q[k - 1]
        BY <2>3
      <4> QED BY <3>1, <4>1, <4>2
    <3>2. CASE i # k
      <4>1. i \in 0 .. k - 1
        BY <3>2
      <4>2. q[i] = IF i = 0 THEN state ELSE Transform(q[i - 1], BlockAt(bytes, from, i))
        BY <2>1, <4>1, Zenon DEF States
      <4>3. i # 0 => r[i - 1] = q[i - 1]
        BY <2>3, <4>1
      <4> QED BY <2>3, <4>1, <4>2, <4>3
    <3> QED BY <3>1, <3>2
  <2>5. States(r, k, state, bytes, from)
    BY <2>2, <2>4, Zenon DEF States
  <2> QED BY <2>5
<1> HIDE DEF P
<1>3. n \in P
  BY <1>1, <1>2, UpTo
<1> QED BY <1>3 DEF P

\* Two such sequences agree as far as both go.
LEMMA StatesAgree ==
    ASSUME NEW m \in Nat, NEW n \in Nat, m <= n, NEW r, NEW q, NEW state, NEW a, NEW from, NEW b, NEW then,
           States(r, m, state, a, from), States(q, n, state, b, then),
           \A k \in 1 .. m : BlockAt(a, from, k) = BlockAt(b, then, k)
    PROVE  \A k \in 0 .. m : r[k] = q[k]
<1> DEFINE P == {k \in 0 .. m : r[k] = q[k]}
<1>1. \A k \in 0 .. m : /\ r[k] = IF k = 0 THEN state ELSE Transform(r[k - 1], BlockAt(a, from, k))
                        /\ q[k] = IF k = 0 THEN state ELSE Transform(q[k - 1], BlockAt(b, then, k))
  <2>1. \A k \in 0 .. m : k \in 0 .. n
    OBVIOUS
  <2> QED BY <2>1, Zenon DEF States
<1>2. 0 \in P
  BY <1>1
<1>3. ASSUME NEW k \in 1 .. m, k - 1 \in P PROVE k \in P
  <2>1. k \in 0 .. m /\ k # 0
    OBVIOUS
  <2>2. r[k - 1] = q[k - 1]
    BY <1>3
  <2> QED BY <1>1, <2>1, <2>2, Zenon
<1> HIDE DEF P
<1>4. \A k \in 0 .. m : k \in P
  BY <1>2, <1>3, UpTo
<1> QED BY <1>4 DEF P

LEMMA BlocksAre ==
    ASSUME NEW n \in Nat, NEW state, NEW bytes, NEW from
    PROVE  \E r : States(r, n, state, bytes, from) /\ Blocks(state, bytes, from, n) = r[n]
<1> DEFINE Body(g) == [k \in 0 .. n |-> IF k = 0 THEN state
                                        ELSE Transform(g[k - 1], SubSeq(bytes, from + 64 * k - 63, from + 64 * k))]
           f == CHOOSE g : g = Body(g)
<1>1. Blocks(state, bytes, from, n) = f[n]
  BY Zenon DEF Blocks
<1>2. PICK r : r = Body(r)
  <2>1. PICK r : States(r, n, state, bytes, from)
    BY StatesExist
  <2>2. r = Body(r)
    BY <2>1, Zenon DEF States, BlockAt
  <2> QED BY <2>2, Zenon
<1>3. f = Body(f)
  BY <1>2, Zenon
<1>4. States(f, n, state, bytes, from)
  BY <1>3, Zenon DEF States, BlockAt
<1> QED BY <1>1, <1>4

LEMMA BlocksNone == ASSUME NEW state, NEW bytes, NEW from PROVE Blocks(state, bytes, from, 0) = state
<1>1. PICK r : States(r, 0, state, bytes, from) /\ Blocks(state, bytes, from, 0) = r[0]
  BY BlocksAre
<1>2. 0 \in 0 .. 0
  OBVIOUS
<1>3. r[0] = state
  BY <1>1, <1>2, Zenon DEF States
<1> QED BY <1>1, <1>3

LEMMA BlocksStep ==
    ASSUME NEW n \in Nat, n # 0, NEW state, NEW bytes, NEW from
    PROVE  Blocks(state, bytes, from, n) = Transform(Blocks(state, bytes, from, n - 1), BlockAt(bytes, from, n))
<1>1. PICK r : States(r, n, state, bytes, from) /\ Blocks(state, bytes, from, n) = r[n]
  BY BlocksAre
<1>2. n - 1 \in Nat /\ n - 1 <= n /\ n \in 0 .. n /\ n - 1 \in 0 .. n - 1
  OBVIOUS
<1>3. PICK m \in Nat : m = n - 1
  BY <1>2
<1>4. PICK q : States(q, m, state, bytes, from) /\ Blocks(state, bytes, from, m) = q[m]
  BY BlocksAre
<1>5. q[m] = r[m]
  <2>1. \A k \in 0 .. m : q[k] = r[k]
    BY <1>1, <1>2, <1>3, <1>4, StatesAgree
  <2> QED BY <2>1
<1>6. r[n] = Transform(r[m], BlockAt(bytes, from, n))
  BY <1>1, <1>2, <1>3, Zenon DEF States
<1> QED BY <1>1, <1>3, <1>4, <1>5, <1>6

LEMMA BlocksAgree ==
    ASSUME NEW n \in Nat, NEW state, NEW a, NEW from, NEW b, NEW then,
           \A k \in 1 .. n : BlockAt(a, from, k) = BlockAt(b, then, k)
    PROVE  Blocks(state, a, from, n) = Blocks(state, b, then, n)
<1>1. PICK r : States(r, n, state, a, from) /\ Blocks(state, a, from, n) = r[n]
  BY BlocksAre
<1>2. PICK q : States(q, n, state, b, then) /\ Blocks(state, b, then, n) = q[n]
  BY BlocksAre
<1>3. \A k \in 0 .. n : r[k] = q[k]
  <2>1. n <= n
    OBVIOUS
  <2> QED BY <1>1, <1>2, <2>1, StatesAgree
<1> QED BY <1>1, <1>2, <1>3

\* First i blocks, then n more.
LEMMA BlocksJoin ==
    ASSUME NEW i \in Nat, NEW n \in Nat, NEW state, NEW bytes
    PROVE  Blocks(state, bytes, 0, i + n) = Blocks(Blocks(state, bytes, 0, i), bytes, 64 * i, n)
<1> DEFINE mid == Blocks(state, bytes, 0, i)
           P == {k \in 0 .. n : Blocks(state, bytes, 0, i + k) = Blocks(mid, bytes, 64 * i, k)}
<1>1. 0 \in P
  <2>1. i + 0 = i
    OBVIOUS
  <2> QED BY <2>1, BlocksNone
<1>2. ASSUME NEW k \in 1 .. n, k - 1 \in P PROVE k \in P
  <2>1. k \in Nat /\ k # 0 /\ i + k \in Nat /\ i + k # 0 /\ i + k - 1 = i + (k - 1)
    OBVIOUS
  <2>2. Blocks(state, bytes, 0, i + k) = Transform(Blocks(state, bytes, 0, i + k - 1), BlockAt(bytes, 0, i + k))
    BY <2>1, BlocksStep
  <2>3. Blocks(mid, bytes, 64 * i, k) = Transform(Blocks(mid, bytes, 64 * i, k - 1), BlockAt(bytes, 64 * i, k))
    BY <2>1, BlocksStep
  <2>4. BlockAt(bytes, 0, i + k) = BlockAt(bytes, 64 * i, k)
    <3>1. 0 + 64 * (i + k) - 63 = 64 * i + 64 * k - 63 /\ 0 + 64 * (i + k) = 64 * i + 64 * k
      OBVIOUS
    <3> QED BY <3>1 DEF BlockAt
  <2>5. Blocks(state, bytes, 0, i + (k - 1)) = Blocks(mid, bytes, 64 * i, k - 1)
    BY <1>2
  <2> HIDE DEF mid
  <2> QED BY <2>1, <2>2, <2>3, <2>4, <2>5
<1> HIDE DEF P
<1>3. n \in P
  BY <1>1, <1>2, UpTo
<1> QED BY <1>3 DEF P

(***************************************************************************)
(* The count of the bits.                                                  *)
(***************************************************************************)
\* Up to here a count is eight times its bytes, and more.
Limit == 512 * WordBytes

\* The two words that hold eight times n.
Count(n) == <<<<(n \div 8192) % 65536, (n % 8192) * 8>>, Word(n \div WordBytes)>>

LEMMA CountIs ==
    ASSUME NEW n \in Nat
    PROVE  /\ Count(n)[1][1] \in Nat /\ Count(n)[1][2] \in Nat
           /\ (Count(n)[1][2] \div 8) % 64 = n % 64
BY SMT DEF Count, WordBytes, Word

LEMMA WordOf ==
    ASSUME NEW n \in Nat, NEW A \in Nat, NEW E \in Nat, NEW e \in Nat, NEW a \in Nat, e < 65536, a < 8192,
           n = 8192 * A + a, A = 65536 * E + e
    PROVE  n \div WordBytes = E
<1>1. PICK f \in Nat : f = 8192 * e + a
  OBVIOUS
<1>2. f < WordBytes
  BY <1>1, SMT DEF WordBytes
<1>3. n = WordBytes * E + f
  BY <1>1, SMT DEF WordBytes
<1>4. \A x \in Int : x = 536870912 * E + f /\ f < 536870912 => x \div 536870912 = E
  BY SMT
<1> QED BY <1>2, <1>3, <1>4, SMT DEF WordBytes

\* A number in the parts that the words of its count hold.
Parts(n, A, a, E, e) ==
    /\ A \in Nat /\ a \in Nat /\ E \in Nat /\ e \in Nat
    /\ n = 8192 * A + a /\ a < 8192 /\ A = 65536 * E + e /\ e < 65536

LEMMA PartsAre ==
    ASSUME NEW n \in Nat, NEW A, NEW a, NEW E, NEW e, Parts(n, A, a, E, e)
    PROVE  n % 8192 = a /\ n \div 8192 = A /\ A % 65536 = e /\ n \div WordBytes = E
<1>1. n % 8192 = a /\ n \div 8192 = A
  BY DEF Parts
<1>2. A % 65536 = e
  BY DEF Parts
<1>3. n \div WordBytes = E
  BY WordOf DEF Parts
<1> QED BY <1>1, <1>2, <1>3

LEMMA PartsExist ==
    ASSUME NEW n \in Nat
    PROVE  \E A, a, E, e : Parts(n, A, a, E, e)
<1>1. PICK A \in Nat, a \in Nat : n = 8192 * A + a /\ a < 8192
  <2>1. n = 8192 * (n \div 8192) + (n % 8192) /\ n % 8192 < 8192 /\ n \div 8192 \in Nat /\ n % 8192 \in Nat
    OBVIOUS
  <2> QED BY <2>1
<1>2. PICK E \in Nat, e \in Nat : A = 65536 * E + e /\ e < 65536
  <2>1. A = 65536 * (A \div 65536) + (A % 65536) /\ A % 65536 < 65536 /\ A \div 65536 \in Nat /\ A % 65536 \in Nat
    OBVIOUS
  <2> QED BY <2>1
<1>3. Parts(n, A, a, E, e)
  BY <1>1, <1>2 DEF Parts
<1> QED BY <1>3

\* The sum of two counts, in quotients and remainders.
LEMMA Carries ==
    ASSUME NEW n \in Nat, NEW k \in Nat, k < WordBytes
    PROVE  \E c, d \in {0, 1} :
               /\ c = 1 <=> (n % 8192) + (k % 8192) >= 8192
               /\ d = 1 <=> ((n \div 8192) % 65536) + (k \div 8192) + c >= 65536
               /\ (n + k) % 8192 = (n % 8192) + (k % 8192) - 8192 * c
               /\ ((n + k) \div 8192) % 65536 = ((n \div 8192) % 65536) + (k \div 8192) + c - 65536 * d
               /\ (n + k) \div WordBytes = (n \div WordBytes) + d
<1>1. PICK A, a, E, e : Parts(n, A, a, E, e)
  BY PartsExist
<1>2. PICK B, b, F, f : Parts(k, B, b, F, f)
  BY PartsExist
<1>3. B \in Nat /\ B < 65536
  <2>1. B \in Nat /\ b \in Nat /\ k = 8192 * B + b
    BY <1>2 DEF Parts
  <2> QED BY <2>1, SMT DEF WordBytes
<1>4. PICK c \in {0, 1} : c = 1 <=> a + b >= 8192
  OBVIOUS
<1>5. PICK d \in {0, 1} : d = 1 <=> e + B + c >= 65536
  OBVIOUS
<1>6. PICK C, g, G, h : C = A + B + c /\ g = a + b - 8192 * c /\ G = E + d /\ h = e + B + c - 65536 * d
  OBVIOUS
<1>7. n + k \in Nat /\ Parts(n + k, C, g, G, h)
  <2>1. /\ A \in Nat /\ a \in Nat /\ E \in Nat /\ e \in Nat /\ b \in Nat
        /\ n = 8192 * A + a /\ a < 8192 /\ A = 65536 * E + e /\ e < 65536
        /\ k = 8192 * B + b /\ b < 8192
    BY <1>1, <1>2 DEF Parts
  <2>2. g \in Nat /\ g < 8192
    BY <1>4, <1>6, <2>1
  <2>3. h \in Nat /\ h < 65536
    BY <1>3, <1>5, <1>6, <2>1
  <2>4. C \in Nat /\ G \in Nat /\ n + k = 8192 * C + g /\ C = 65536 * G + h
    BY <1>3, <1>6, <2>1
  <2> QED BY <2>2, <2>3, <2>4 DEF Parts
<1>8. /\ n % 8192 = a /\ n \div 8192 = A /\ A % 65536 = e /\ n \div WordBytes = E
      /\ k % 8192 = b /\ k \div 8192 = B
      /\ (n + k) % 8192 = g /\ (n + k) \div 8192 = C /\ C % 65536 = h /\ (n + k) \div WordBytes = G
  <2>1. n % 8192 = a /\ n \div 8192 = A /\ A % 65536 = e /\ n \div WordBytes = E
    BY <1>1, PartsAre
  <2>2. k % 8192 = b /\ k \div 8192 = B
    BY <1>2, PartsAre
  <2>3. PICK s \in Nat : s = n + k
    OBVIOUS
  <2>4. s % 8192 = g /\ s \div 8192 = C /\ C % 65536 = h /\ s \div WordBytes = G
    BY <1>7, <2>3, PartsAre
  <2> QED BY <2>1, <2>2, <2>3, <2>4
<1>9. /\ c = 1 <=> (n % 8192) + (k % 8192) >= 8192
      /\ d = 1 <=> ((n \div 8192) % 65536) + (k \div 8192) + c >= 65536
      /\ (n + k) % 8192 = (n % 8192) + (k % 8192) - 8192 * c
      /\ ((n + k) \div 8192) % 65536 = ((n \div 8192) % 65536) + (k \div 8192) + c - 65536 * d
      /\ (n + k) \div WordBytes = (n \div WordBytes) + d
  <2>1. c = 1 <=> (n % 8192) + (k % 8192) >= 8192
    BY <1>4, <1>8
  <2>2. d = 1 <=> ((n \div 8192) % 65536) + (k \div 8192) + c >= 65536
    BY <1>5, <1>8
  <2>3. (n + k) % 8192 = (n % 8192) + (k % 8192) - 8192 * c
    BY <1>6, <1>8
  <2>4. ((n + k) \div 8192) % 65536 = ((n \div 8192) % 65536) + (k \div 8192) + c - 65536 * d
    BY <1>6, <1>8
  <2>5. (n + k) \div WordBytes = (n \div WordBytes) + d
    BY <1>6, <1>8
  <2> QED BY <2>1, <2>2, <2>3, <2>4, <2>5
<1> QED BY <1>9

\* MD5Update() adds the bits of the input.
LEMMA CountAdds ==
    ASSUME NEW n \in Nat, NEW k \in Nat, k < WordBytes, n + k < Limit
    PROVE  LET bits == Word(k * 8)
               low  == Plus(Count(n)[1], bits)
           IN  Count(n + k) = <<low, Plus(Plus(Count(n)[2], Word(IF Less(low, bits) THEN 1 ELSE 0)),
                                        Word(k \div WordBytes))>>
<1>1. PICK c, d \in {0, 1} :
               /\ c = 1 <=> (n % 8192) + (k % 8192) >= 8192
               /\ d = 1 <=> ((n \div 8192) % 65536) + (k \div 8192) + c >= 65536
               /\ (n + k) % 8192 = (n % 8192) + (k % 8192) - 8192 * c
               /\ ((n + k) \div 8192) % 65536 = ((n \div 8192) % 65536) + (k \div 8192) + c - 65536 * d
               /\ (n + k) \div WordBytes = (n \div WordBytes) + d
  BY Carries
<1>2. PICK a \in Nat, e \in Nat, b \in Nat, B \in Nat, E \in Nat :
          /\ a = n % 8192 /\ a < 8192 /\ e = (n \div 8192) % 65536 /\ e < 65536
          /\ b = k % 8192 /\ b < 8192 /\ B = k \div 8192 /\ B < 65536
          /\ E = n \div WordBytes
  BY SMT DEF WordBytes
<1>3. PICK bits : bits = Word(k * 8)
  OBVIOUS
<1>4. bits = <<B, b * 8>>
  <2>1. (k * 8) \div 65536 = B /\ (k * 8) % 65536 = b * 8
    BY <1>2
  <2> QED BY <1>3, <2>1 DEF Word, Half
<1>5. PICK low : low = Plus(Count(n)[1], bits)
  OBVIOUS
<1>6. low = <<e + B + c - 65536 * d, (a + b - 8192 * c) * 8>>
  <2>1. PICK lo \in Nat : lo = a * 8 + b * 8
    OBVIOUS
  <2>2. lo \div 65536 = c /\ lo % 65536 = (a + b - 8192 * c) * 8
    BY <1>1, <1>2, <2>1
  <2>3. (e + B + c) % 65536 = e + B + c - 65536 * d
    BY <1>1, <1>2
  <2>4. Count(n)[1] = <<e, a * 8>>
    BY <1>2 DEF Count
  <2>5. low = <<(e + B + (lo \div 65536)) % 65536, lo % 65536>>
    BY <1>4, <1>5, <2>1, <2>4 DEF Plus, Half
  <2> QED BY <2>2, <2>3, <2>5
<1>7. Less(low, bits) <=> d = 1
  <2>1. Less(low, bits) <=> \/ e + B + c - 65536 * d < B
                           \/ (e + B + c - 65536 * d = B /\ (a + b - 8192 * c) * 8 < b * 8)
    BY <1>4, <1>6 DEF Less
  <2> QED BY <1>1, <1>2, <2>1
<1>8. Word(IF Less(low, bits) THEN 1 ELSE 0) = <<0, d>>
  BY <1>7 DEF Word, Half
<1>9. Word(k \div WordBytes) = <<0, 0>>
  <2>1. k \div WordBytes = 0
    BY SMT DEF WordBytes
  <2> QED BY <2>1 DEF Word, Half
<1>10. Count(n)[2] = <<0, E>> /\ E + d < 65536
  <2>1. E + d < 513
    <3>1. E < 512
      BY <1>2, SMT DEF Limit, WordBytes
    <3> QED BY <3>1
  <2>2. Count(n)[2] = Word(E)
    BY <1>2 DEF Count
  <2> QED BY <2>1, <2>2 DEF Word, Half
<1>11. Plus(Plus(<<0, E>>, <<0, d>>), <<0, 0>>) = <<0, E + d>>
  <2>1. Plus(<<0, E>>, <<0, d>>) = <<0, E + d>>
    <3>1. (E + d) \div 65536 = 0 /\ (E + d) % 65536 = E + d
      BY <1>10
    <3> QED BY <3>1 DEF Plus, Half
  <2>2. (E + d + 0) \div 65536 = 0 /\ (E + d + 0) % 65536 = E + d
    BY <1>10
  <2> QED BY <2>1, <2>2 DEF Plus, Half
<1>12. Count(n + k) = <<low, <<0, E + d>>>>
  <2>1. Word(E + d) = <<0, E + d>>
    BY <1>10 DEF Word, Half
  <2>2. Count(n + k) = <<<<e + B + c - 65536 * d, (a + b - 8192 * c) * 8>>, Word(E + d)>>
    BY <1>1, <1>2 DEF Count
  <2> QED BY <1>6, <2>1, <2>2
<1> QED BY <1>3, <1>5, <1>8, <1>9, <1>10, <1>11, <1>12

(***************************************************************************)
(* The buffer and the state.                                               *)
(***************************************************************************)
LEMMA SubFirst ==
    ASSUME NEW S, NEW p \in Seq(S), NEW q \in Seq(S), NEW a \in Nat \ {0}, NEW b \in Nat, b <= Len(p)
    PROVE  SubSeq(p \o q, a, b) = SubSeq(p, a, b)
<1>1. \A i \in 1 .. (1 + b - a) : (p \o q)[i + a - 1] = p[i + a - 1]
  OBVIOUS
<1> QED BY <1>1

LEMMA SubSecond ==
    ASSUME NEW S, NEW p \in Seq(S), NEW q \in Seq(S), NEW a \in Nat \ {0}, NEW b \in Nat, b <= Len(q)
    PROVE  SubSeq(p \o q, Len(p) + a, Len(p) + b) = SubSeq(q, a, b)
<1>1. \A i \in 1 .. (1 + b - a) : (p \o q)[i + (Len(p) + a) - 1] = q[i + a - 1]
  OBVIOUS
<1>2. 1 + (Len(p) + b) - (Len(p) + a) = 1 + b - a
  OBVIOUS
<1> QED BY <1>1, <1>2

\* From a in p to b in q, where all is both.
Across(all, p, q, a, b) == SubSeq(all, a, Len(p) + b) = SubSeq(p, a, Len(p)) \o SubSeq(q, 1, b)

LEMMA SubAcross ==
    ASSUME NEW S, NEW p \in Seq(S), NEW q \in Seq(S), NEW all, all = p \o q,
           NEW a, a \in Nat, a # 0, NEW b, b \in Nat, a <= Len(p) + 1, b <= Len(q)
    PROVE  Across(all, p, q, a, b)
<1>1. PICK l : l = SubSeq(all, a, Len(p) + b)
  OBVIOUS
<1>2. PICK u : u = SubSeq(p, a, Len(p))
  OBVIOUS
<1>3. PICK v : v = SubSeq(q, 1, b)
  OBVIOUS
<1>4. PICK m \in Nat, z \in Nat : m = Len(p) /\ z = 1 + m - a
  OBVIOUS
<1>5. u \in Seq(S) /\ Len(u) = z /\ \A i \in 1 .. z : u[i] = p[i + a - 1]
  BY <1>2, <1>4
<1>6. v \in Seq(S) /\ Len(v) = b /\ \A i \in 1 .. b : v[i] = q[i]
  BY <1>3
<1>7. /\ all \in Seq(S) /\ Len(all) = m + Len(q)
      /\ \A i \in 1 .. m + Len(q) : all[i] = IF i <= m THEN p[i] ELSE q[i - m]
  BY <1>4, ConcatProperties
<1>8. l \in Seq(S) /\ Len(l) = z + b /\ \A i \in 1 .. z + b : l[i] = all[i + a - 1]
  <2>1. \A i \in a .. m + b : i \in 1 .. m + Len(q)
    BY <1>4
  <2>2. \A i \in a .. m + b : all[i] \in S
    BY <1>7, <2>1
  <2>3. l = [i \in 1 .. z + b |-> all[i + a - 1]]
    BY <1>1, <1>4
  <2>4. \A i \in 1 .. z + b : i + a - 1 \in a .. m + b
    BY <1>4
  <2>5. PICK n \in Nat : n = z + b
    <3>1. z \in Nat /\ b \in Nat
      BY <1>4
    <3> QED BY <3>1
  <2>6. \A i \in 1 .. n : l[i] = all[i + a - 1] /\ l[i] \in S
    BY <2>2, <2>3, <2>4, <2>5
  <2>7. l \in [1 .. n -> S]
    BY <2>3, <2>5, <2>6
  <2>8. l \in Seq(S) /\ Len(l) = n
    BY <2>5, <2>7
  <2> QED BY <2>5, <2>6, <2>8
<1>9. PICK w : w = u \o v
  OBVIOUS
<1>10. /\ w \in Seq(S) /\ Len(w) = z + b
       /\ \A i \in 1 .. z + b : w[i] = IF i <= z THEN u[i] ELSE v[i - z]
  <2>1. /\ w \in Seq(S) /\ Len(w) = Len(u) + Len(v)
        /\ \A i \in 1 .. Len(u) + Len(v) : w[i] = IF i <= Len(u) THEN u[i] ELSE v[i - Len(u)]
    BY <1>5, <1>6, <1>9, ConcatProperties
  <2> QED BY <1>5, <1>6, <2>1
<1>11. ASSUME NEW i \in 1 .. z + b PROVE l[i] = w[i]
  <2>1. PICK j \in 1 .. m + Len(q) : j = i + a - 1
    BY <1>4
  <2>2. l[i] = IF j <= m THEN p[j] ELSE q[j - m]
    BY <1>7, <1>8, <2>1
  <2>3. CASE i <= z
    <3>1. j <= m /\ i \in 1 .. z
      BY <1>4, <2>1, <2>3
    <3>2. w[i] = u[i] /\ u[i] = p[j]
      BY <1>5, <1>10, <2>1, <2>3, <3>1
    <3> QED BY <2>2, <3>1, <3>2
  <2>4. CASE i > z
    <3>1. PICK h \in 1 .. b : h = i - z
      <4>1. z \in Nat
        BY <1>4
      <4> QED BY <2>4, <4>1
    <3>2. ~(j <= m) /\ j - m = h
      BY <1>4, <2>1, <2>4, <3>1
    <3>3. w[i] = v[i - z]
      <4>1. ~(i <= z)
        BY <1>4, <2>4
      <4> QED BY <1>10, <4>1
    <3>4. v[h] = q[h]
      BY <1>6
    <3> QED BY <2>2, <3>1, <3>2, <3>3, <3>4
  <2> QED BY <1>4, <2>3, <2>4
<1>12. l = w
  <2>1. Len(l) = Len(w) /\ \A i \in 1 .. Len(l) : l[i] = w[i]
    BY <1>8, <1>10, <1>11
  <2> QED BY <1>8, <1>10, <2>1, SeqEqual
<1> QED BY <1>1, <1>2, <1>3, <1>9, <1>12 DEF Across

\* The context c has taken in p, the end of a message of n bytes that begins
\* with whole blocks.
Holds(c, p, n) ==
    /\ p \in Seq(Byte) /\ n \in Nat /\ n < Limit /\ n % 64 = Len(p) % 64
    /\ c.count = Count(n)
    /\ c.state = Blocks(MD5Init.state, p, 0, Len(p) \div 64)
    /\ c.buffer = SubSeq(p, 64 * (Len(p) \div 64) + 1, Len(p))

LEMMA SameBlocks ==
    ASSUME NEW p \in Seq(Byte), NEW q \in Seq(Byte), NEW n \in Nat, 64 * n <= Len(p), NEW state
    PROVE  Blocks(state, p \o q, 0, n) = Blocks(state, p, 0, n)
<1>1. ASSUME NEW k \in 1 .. n PROVE BlockAt(p \o q, 0, k) = BlockAt(p, 0, k)
  <2>1. PICK a \in Nat \ {0}, b \in Nat : a = 0 + 64 * k - 63 /\ b = 0 + 64 * k /\ b <= Len(p)
    OBVIOUS
  <2>2. SubSeq(p \o q, a, b) = SubSeq(p, a, b)
    BY <2>1, SubFirst
  <2> QED BY <2>1, <2>2 DEF BlockAt
<1> QED BY <1>1, BlocksAgree

\* A block is filled up from the input, and the input has more of them.
Continues(state, p, q, k, part, more) ==
    Blocks(Transform(Blocks(state, p, 0, k), SubSeq(p, 64 * k + 1, Len(p)) \o SubSeq(q, 1, part)), q, part, more)
        = Blocks(state, p \o q, 0, k + 1 + more)

LEMMA MoreBlocks ==
    ASSUME NEW p \in Seq(Byte), NEW q \in Seq(Byte), NEW k \in Nat, NEW part \in Nat, NEW more \in Nat,
           Len(p) + part = 64 * (k + 1), 64 * k <= Len(p), part + 64 * more <= Len(q), NEW state
    PROVE  Continues(state, p, q, k, part, more)
<1>1. PICK all : all = p \o q
  OBVIOUS
<1>2. PICK first : first = Transform(Blocks(state, p, 0, k), SubSeq(p, 64 * k + 1, Len(p)) \o SubSeq(q, 1, part))
  OBVIOUS
<1>3. first = Blocks(state, all, 0, k + 1)
  <2>1. Blocks(state, all, 0, k) = Blocks(state, p, 0, k)
    BY <1>1, SameBlocks
  <2>2. BlockAt(all, 0, k + 1) = SubSeq(p, 64 * k + 1, Len(p)) \o SubSeq(q, 1, part)
    <3>1. PICK a \in Nat \ {0} : a = 64 * k + 1 /\ a <= Len(p) + 1
      OBVIOUS
    <3>2. part <= Len(q)
      OBVIOUS
    <3>3. SubSeq(all, a, Len(p) + part) = SubSeq(p, a, Len(p)) \o SubSeq(q, 1, part)
      <4>1. Across(all, p, q, a, part)
        BY <1>1, <3>1, <3>2, SubAcross
      <4> QED BY <4>1 DEF Across
    <3>4. 0 + 64 * (k + 1) - 63 = a /\ 0 + 64 * (k + 1) = Len(p) + part
      BY <3>1
    <3> QED BY <3>1, <3>3, <3>4 DEF BlockAt
  <2>3. k + 1 \in Nat /\ k + 1 # 0 /\ k + 1 - 1 = k
    OBVIOUS
  <2>4. Blocks(state, all, 0, k + 1) = Transform(Blocks(state, all, 0, k + 1 - 1), BlockAt(all, 0, k + 1))
    BY <2>3, BlocksStep
  <2> QED BY <1>2, <2>1, <2>2, <2>3, <2>4
<1>4. ASSUME NEW j \in 1 .. more PROVE BlockAt(q, part, j) = BlockAt(all, 64 * (k + 1), j)
  <2>1. PICK a \in Nat \ {0}, b \in Nat : a = part + 64 * j - 63 /\ b = part + 64 * j /\ b <= Len(q)
    OBVIOUS
  <2>2. SubSeq(all, Len(p) + a, Len(p) + b) = SubSeq(q, a, b)
    BY <1>1, <2>1, SubSecond
  <2>3. Len(p) + a = 64 * (k + 1) + 64 * j - 63 /\ Len(p) + b = 64 * (k + 1) + 64 * j
    BY <2>1
  <2> QED BY <2>1, <2>2, <2>3 DEF BlockAt
<1>5. Blocks(first, q, part, more) = Blocks(first, all, 64 * (k + 1), more)
  BY <1>4, BlocksAgree
<1>6. k + 1 \in Nat
  OBVIOUS
<1>7. Blocks(state, all, 0, k + 1 + more) = Blocks(Blocks(state, all, 0, k + 1), all, 64 * (k + 1), more)
  BY <1>6, BlocksJoin
<1> QED BY <1>1, <1>2, <1>3, <1>5, <1>7 DEF Continues

\* What MD5Update() makes of c.
Updated(d, c, input, len, part, more) ==
    LET bits == Word(len * 8)
        low  == Plus(c.count[1], bits)
    IN  /\ d.count = <<low, Plus(Plus(c.count[2], Word(IF Less(low, bits) THEN 1 ELSE 0)),
                                Word(len \div WordBytes))>>
        /\ len >= part => /\ d.buffer = SubSeq(input, part + 64 * more + 1, len)
                          /\ d.state = Blocks(Transform(c.state, c.buffer \o SubSeq(input, 1, part)),
                                               input, part, more)
        /\ ~(len >= part) => d.state = c.state /\ d.buffer = c.buffer \o input

LEMMA UpdateIs ==
    ASSUME NEW c, NEW input
    PROVE  Updated(MD5Update(c, input), c, input, Len(input), 64 - Index(c), (Len(input) - (64 - Index(c))) \div 64)
BY DEF MD5Update, Updated

LEMMA HoldsThen ==
    ASSUME NEW d, NEW all \in Seq(Byte), NEW m \in Nat, NEW k \in Nat, NEW l \in Nat,
           l = Len(all), k = l \div 64, m < Limit, m % 64 = l % 64, d.count = Count(m),
           d.state = Blocks(MD5Init.state, all, 0, k), d.buffer = SubSeq(all, 64 * k + 1, l)
    PROVE  Holds(d, all, m)
BY Zenon DEF Holds

\* MD5Update() takes in the input, wherever the blocks end.
LEMMA UpdateHolds ==
    ASSUME NEW c, NEW p, NEW n, Holds(c, p, n),
           NEW input \in Seq(Byte), Len(input) < WordBytes, n + Len(input) < Limit
    PROVE  Holds(MD5Update(c, input), p \o input, n + Len(input))
<1>1. p \in Seq(Byte) /\ n \in Nat
  BY DEF Holds
<1>2. PICK len \in Nat, l \in Nat : len = Len(input) /\ l = Len(p)
  BY <1>1
<1>3. PICK k \in Nat, r \in Nat : k = l \div 64 /\ r = l % 64 /\ l = 64 * k + r /\ r < 64
  OBVIOUS
<1>4. /\ n % 64 = r
      /\ c.count = Count(n)
      /\ c.state = Blocks(MD5Init.state, p, 0, k)
      /\ c.buffer = SubSeq(p, 64 * k + 1, l)
  BY <1>2, <1>3, Zenon DEF Holds
<1>5. Index(c) = r
  BY <1>1, <1>4, CountIs DEF Index
<1>6. PICK all \in Seq(Byte) : all = p \o input /\ Len(all) = l + len
  BY <1>1, <1>2, ConcatProperties
<1>7. PICK d : d = MD5Update(c, input)
  OBVIOUS
<1>8. PICK part \in Nat : part = 64 - r
  BY <1>3
<1>9. PICK more : more = (len - part) \div 64
  OBVIOUS
<1>10. part = 64 - Index(c)
  BY <1>5, <1>8
<1>14. Updated(d, c, input, len, part, more)
  BY <1>2, <1>7, <1>9, <1>10, UpdateIs
<1>15. /\ len >= part => /\ d.buffer = SubSeq(input, part + 64 * more + 1, len)
                         /\ d.state = Blocks(Transform(c.state, c.buffer \o SubSeq(input, 1, part)), input, part, more)
       /\ ~(len >= part) => d.state = c.state /\ d.buffer = c.buffer \o input
  BY <1>14, Zenon DEF Updated
<1>11. d.count = Count(n + len)
  <2>1. n + len < Limit /\ len < WordBytes
    BY <1>2
  <2>2. LET bits == Word(len * 8)
            low  == Plus(Count(n)[1], bits)
        IN  Count(n + len) = <<low, Plus(Plus(Count(n)[2], Word(IF Less(low, bits) THEN 1 ELSE 0)),
                                         Word(len \div WordBytes))>>
    BY <1>1, <2>1, CountAdds
  <2>3. LET bits == Word(len * 8)
            low  == Plus(c.count[1], bits)
        IN  d.count = <<low, Plus(Plus(c.count[2], Word(IF Less(low, bits) THEN 1 ELSE 0)),
                                  Word(len \div WordBytes))>>
    BY <1>14, Zenon DEF Updated
  <2> QED BY <1>4, <2>2, <2>3
<1>12. PICK m \in Nat, t \in Nat : m = n + len /\ t = l + len /\ m % 64 = t % 64 /\ m < Limit
  <2>1. PICK x \in Nat : n = 64 * x + r
    BY <1>1, <1>4
  <2>2. n + len = 64 * x + (r + len) /\ l + len = 64 * k + (r + len) /\ r + len \in Nat
    BY <1>3, <2>1
  <2>3. (n + len) % 64 = (r + len) % 64 /\ (l + len) % 64 = (r + len) % 64
    BY <2>2
  <2>4. n + len \in Nat /\ l + len \in Nat /\ n + len < Limit
    BY <1>1, <1>2
  <2> QED BY <2>3, <2>4, Zenon
<1>13. CASE len < part
  <2>1. d.state = c.state /\ d.buffer = c.buffer \o input
    BY <1>15, <1>13
  <2>2. t \div 64 = k /\ 64 * k <= Len(p)
    <3>1. t = 64 * k + (r + len) /\ r + len < 64 /\ r + len \in Nat
      BY <1>3, <1>8, <1>12, <1>13
    <3>2. t \div 64 = k
      BY <3>1
    <3>3. 64 * k <= Len(p)
      BY <1>2, <1>3
    <3> QED BY <3>2, <3>3
  <2>3. Blocks(MD5Init.state, all, 0, k) = Blocks(MD5Init.state, p, 0, k)
    BY <1>1, <1>6, <2>2, SameBlocks
  <2>4. SubSeq(all, 64 * k + 1, t) = SubSeq(p, 64 * k + 1, l) \o input
    <3>1. PICK a \in Nat \ {0} : a = 64 * k + 1 /\ a <= Len(p) + 1
      BY <2>2
    <3>2. len <= Len(input)
      BY <1>2
    <3>3. SubSeq(all, a, Len(p) + len) = SubSeq(p, a, Len(p)) \o SubSeq(input, 1, len)
      <4>1. Across(all, p, input, a, len)
        BY <1>1, <1>2, <1>6, <3>1, <3>2, SubAcross
      <4> QED BY <4>1 DEF Across
    <3>4. SubSeq(input, 1, len) = input
      BY <1>2
    <3> QED BY <1>2, <1>12, <3>1, <3>3, <3>4
  <2>5. d.state = Blocks(MD5Init.state, all, 0, k) /\ d.buffer = SubSeq(all, 64 * k + 1, t)
    BY <1>4, <2>1, <2>3, <2>4
  <2>6. t = Len(all) /\ k = t \div 64 /\ d.count = Count(m)
    BY <1>6, <1>11, <1>12, <2>2
  <2>7. Holds(d, all, m)
    BY <1>12, <2>5, <2>6, HoldsThen
  <2> QED BY <1>2, <1>6, <1>7, <1>12, <2>7
<1>16. CASE len >= part
  <2>1. PICK j \in Nat : /\ j = more /\ part + 64 * j <= len /\ k + 1 + j = t \div 64 /\ l + part = 64 * (k + 1)
    BY <1>3, <1>8, <1>9, <1>12, <1>16
  <2>2. d.state = Blocks(Transform(c.state, c.buffer \o SubSeq(input, 1, part)), input, part, j)
    BY <1>15, <1>16, <2>1
  <2>3. d.buffer = SubSeq(input, part + 64 * j + 1, len)
    BY <1>15, <1>16, <2>1
  <2>4. d.state = Blocks(MD5Init.state, all, 0, k + 1 + j)
    <3>1. Len(p) + part = 64 * (k + 1) /\ 64 * k <= Len(p) /\ part + 64 * j <= Len(input)
      BY <1>2, <1>3, <2>1
    <3>2. Continues(MD5Init.state, p, input, k, part, j)
      BY <1>1, <3>1, MoreBlocks
    <3> QED BY <1>2, <1>4, <1>6, <2>2, <3>2, Zenon DEF Continues
  <2>5. SubSeq(all, 64 * (k + 1 + j) + 1, t) = SubSeq(input, part + 64 * j + 1, len)
    <3>1. PICK a \in Nat \ {0} : a = part + 64 * j + 1
      OBVIOUS
    <3>2. len <= Len(input)
      BY <1>2
    <3>3. SubSeq(all, Len(p) + a, Len(p) + len) = SubSeq(input, a, len)
      BY <1>1, <1>6, <3>1, <3>2, SubSecond
    <3>4. Len(p) + a = 64 * (k + 1 + j) + 1
      BY <1>2, <2>1, <3>1
    <3> QED BY <1>2, <1>12, <3>1, <3>3, <3>4
  <2>6. PICK e \in Nat : e = k + 1 + j
    OBVIOUS
  <2>7. t = Len(all) /\ e = t \div 64 /\ d.count = Count(m)
    BY <1>6, <1>11, <1>12, <2>1, <2>6
  <2>8. d.state = Blocks(MD5Init.state, all, 0, e) /\ d.buffer = SubSeq(all, 64 * e + 1, t)
    BY <2>3, <2>4, <2>5, <2>6
  <2>9. Holds(d, all, m)
    BY <1>12, <2>7, <2>8, HoldsThen
  <2> QED BY <1>2, <1>6, <1>7, <1>12, <2>9
<1> QED BY <1>2, <1>8, <1>13, <1>16

LEMMA HoldsAtStart ==
    ASSUME NEW b \in Nat, b < MostBlocks
    PROVE  Holds(Resumed(b), <<>>, 64 * b)
<1>1. PICK n \in Nat : n = 64 * b
  OBVIOUS
<1>2. n < Limit
  BY <1>1, SMT DEF Limit, WordBytes, MostBlocks
<1>3. n % 64 = 0
  BY <1>1
<1>4. n \div 8192 = b \div 128 /\ (n % 8192) * 8 = (b % 128) * 512
  BY <1>1
<1>5. n \div WordBytes = b \div 8388608
  BY <1>1, SMT DEF WordBytes
<1>6. PICK c : c = Resumed(b)
  OBVIOUS
<1>7. /\ c.count = <<<<(b \div 128) % 65536, (b % 128) * 512>>, Word(b \div 8388608)>>
      /\ c.state = MD5Init.state /\ c.buffer = <<>>
  BY <1>6, SMT DEF Resumed
<1>8. c.count = Count(n)
  BY <1>4, <1>5, <1>7, SMT DEF Count
<1>9. PICK p \in Seq(Byte) : p = <<>> /\ Len(p) = 0
  <2>1. <<>> \in Seq(Byte) /\ Len(<<>>) = 0
    OBVIOUS
  <2> QED BY <2>1, Zenon
<1>10. 0 = Len(p) /\ 0 = 0 \div 64 /\ n % 64 = 0 % 64 /\ 0 \in Nat
  BY <1>3, <1>9
<1>11. c.state = Blocks(MD5Init.state, p, 0, 0)
  BY <1>7, BlocksNone
<1>12. c.buffer = SubSeq(p, 64 * 0 + 1, 0)
  <2>1. 0 < 64 * 0 + 1 /\ 64 * 0 + 1 \in Int /\ 0 \in Int
    OBVIOUS
  <2>2. SubSeq(p, 64 * 0 + 1, 0) = <<>>
    BY <2>1, SubSeqEmpty
  <2> QED BY <1>7, <2>2
<1>13. Holds(c, p, n)
  BY <1>2, <1>8, <1>10, <1>11, <1>12, HoldsThen
<1> QED BY <1>1, <1>6, <1>9, <1>13

(***************************************************************************)
(* Reads.                                                                  *)
(***************************************************************************)
\* r holds the contexts after the first k of the whole + 1 reads of a file.
Chunk(file, whole, k) ==
    SubSeq(file, READ_DATA_SIZE * (k - 1) + 1, IF k <= whole THEN READ_DATA_SIZE * k ELSE Len(file))
Reads(r, k, context, file, whole) ==
    r = [i \in 0 .. k |-> IF i = 0 THEN context ELSE MD5Update(r[i - 1], Chunk(file, whole, i))]

LEMMA ReadsExist ==
    ASSUME NEW n \in Nat, NEW context, NEW file, NEW whole
    PROVE  \E r : Reads(r, n, context, file, whole)
<1> DEFINE P == {k \in 0 .. n : \E r : Reads(r, k, context, file, whole)}
<1>1. 0 \in P
  <2>1. PICK r : r = [i \in 0 .. 0 |-> context]
    OBVIOUS
  <2>2. Reads(r, 0, context, file, whole)
    <3>1. \A i \in 0 .. 0 : i = 0
      OBVIOUS
    <3> QED BY <2>1, <3>1, Zenon DEF Reads
  <2> QED BY <2>2
<1>2. ASSUME NEW k \in 1 .. n, k - 1 \in P PROVE k \in P
  <2>1. PICK q : Reads(q, k - 1, context, file, whole)
    BY <1>2
  <2>2. PICK r : r = [i \in 0 .. k |-> IF i = k THEN MD5Update(q[k - 1], Chunk(file, whole, k)) ELSE q[i]]
    OBVIOUS
  <2>3. \A i \in 0 .. k - 1 : r[i] = q[i]
    BY <2>2
  <2>4. ASSUME NEW i \in 0 .. k
        PROVE  r[i] = IF i = 0 THEN context ELSE MD5Update(r[i - 1], Chunk(file, whole, i))
    <3>1. CASE i = k
      <4>1. r[k] = MD5Update(q[k - 1], Chunk(file, whole, k))
        BY <2>2
      <4>2. r[k - 1] = q[k - 1]
        BY <2>3
      <4> QED BY <3>1, <4>1, <4>2
    <3>2. CASE i # k
      <4>1. i \in 0 .. k - 1
        BY <3>2
      <4>2. q[i] = IF i = 0 THEN context ELSE MD5Update(q[i - 1], Chunk(file, whole, i))
        BY <2>1, <4>1, Zenon DEF Reads
      <4>3. i # 0 => r[i - 1] = q[i - 1]
        BY <2>3, <4>1
      <4> QED BY <2>3, <4>1, <4>2, <4>3
    <3> QED BY <3>1, <3>2
  <2>5. Reads(r, k, context, file, whole)
    BY <2>2, <2>4, Zenon DEF Reads
  <2> QED BY <2>5
<1> HIDE DEF P
<1>3. n \in P
  BY <1>1, <1>2, UpTo
<1> QED BY <1>3 DEF P

LEMMA DigestReads ==
    ASSUME NEW context, NEW file, NEW whole \in Nat, whole = Len(file) \div READ_DATA_SIZE
    PROVE  \E r : /\ Reads(r, whole + 1, context, file, whole)
                  /\ Compute_file_md5(context, file) = MD5Final(r[whole + 1])
<1> DEFINE Body(g) == [k \in 0 .. whole + 1 |-> IF k = 0 THEN context ELSE MD5Update(g[k - 1], Chunk(file, whole, k))]
           f == CHOOSE g : g = Body(g)
<1>1. Compute_file_md5(context, file) = MD5Final(f[whole + 1])
  BY Zenon DEF Compute_file_md5, Chunk
<1>2. PICK r : r = Body(r)
  <2>1. whole + 1 \in Nat
    OBVIOUS
  <2>2. PICK r : Reads(r, whole + 1, context, file, whole)
    BY <2>1, ReadsExist
  <2>3. r = Body(r)
    BY <2>2, Zenon DEF Reads
  <2> QED BY <2>3, Zenon
<1>3. f = Body(f)
  BY <1>2, Zenon
<1>4. Reads(f, whole + 1, context, file, whole)
  BY <1>3, Zenon DEF Reads
<1> QED BY <1>1, <1>4

LEMMA WholeReads ==
    ASSUME NEW l \in Nat
    PROVE  /\ l \div READ_DATA_SIZE \in Nat
           /\ READ_DATA_SIZE * (l \div READ_DATA_SIZE) <= l
           /\ l < READ_DATA_SIZE * (l \div READ_DATA_SIZE) + READ_DATA_SIZE
<1>1. READ_DATA_SIZE \in Nat \ {0}
  BY Md5Assumption
<1>2. PICK R \in Nat : R = READ_DATA_SIZE /\ R > 0
  BY <1>1
<1>3. l = R * (l \div R) + (l % R) /\ l % R \in 0 .. R - 1 /\ l \div R \in Nat
  BY <1>2
<1> QED BY <1>2, <1>3

\* Bytes that have been asked for after k reads.
Asked(file, whole, k) == IF k <= whole THEN READ_DATA_SIZE * k ELSE Len(file)

LEMMA ReadTakesIn ==
    ASSUME NEW file \in Seq(Byte), NEW n \in Nat, n + Len(file) < Limit, NEW a \in Nat, NEW b \in Nat,
           a <= b, b <= Len(file), b - a < WordBytes, NEW c, Holds(c, SubSeq(file, 1, a), n + a)
    PROVE  Holds(MD5Update(c, SubSeq(file, a + 1, b)), SubSeq(file, 1, b), n + b)
<1>1. PICK p, chunk : p = SubSeq(file, 1, a) /\ chunk = SubSeq(file, a + 1, b)
  OBVIOUS
<1>2. p \o chunk = SubSeq(file, 1, b)
  <2>1. 1 \in 1 .. Len(file) + 1 /\ a \in 1 - 1 .. Len(file) /\ b \in a .. Len(file)
    OBVIOUS
  <2> QED BY <1>1, <2>1, ConcatAdjacentSubSeq
<1>3. chunk \in Seq(Byte) /\ Len(chunk) = b - a
  <2>1. a + 1 \in Int /\ b \in Int /\ \A i \in a + 1 .. b : file[i] \in Byte
    OBVIOUS
  <2>2. chunk \in Seq(Byte) /\ Len(chunk) = IF a + 1 <= b THEN b - (a + 1) + 1 ELSE 0
    BY <1>1, <2>1, SubSeqProperties
  <2>3. (IF a + 1 <= b THEN b - (a + 1) + 1 ELSE 0) = b - a
    OBVIOUS
  <2> QED BY <2>2, <2>3
<1>4. PICK m \in Nat : m = n + a
  OBVIOUS
<1>5. Holds(c, p, m)
  BY <1>1, <1>4
<1>6. m + (b - a) = n + b
  BY <1>4
<1>7. n + b < Limit
  <2>1. PICK l \in Nat : l = Len(file)
    OBVIOUS
  <2>2. Limit \in Nat
    BY SMT DEF Limit, WordBytes
  <2> QED BY <2>1, <2>2
<1>8. Holds(MD5Update(c, chunk), p \o chunk, m + Len(chunk))
  BY <1>3, <1>5, <1>6, <1>7, UpdateHolds
<1> QED BY <1>1, <1>2, <1>3, <1>6, <1>8

Part(file, whole, k, l, a, b) ==
    /\ a \in Nat /\ b \in Nat
    /\ a = Asked(file, whole, k - 1) /\ b = Asked(file, whole, k)
    /\ a <= b /\ b <= l /\ b - a < WordBytes
    /\ Chunk(file, whole, k) = SubSeq(file, a + 1, b)

LEMMA AskedAre ==
    ASSUME NEW file, NEW l \in Nat, l = Len(file), NEW whole \in Nat, whole = l \div READ_DATA_SIZE,
           NEW k \in 1 .. whole + 1
    PROVE  \E a, b : Part(file, whole, k, l, a, b)
<1>1. PICK R \in Nat : R = READ_DATA_SIZE /\ R > 0 /\ R < WordBytes
  BY Md5Assumption
<1>2. PICK w \in Nat : w = R * whole /\ w <= l /\ l < w + R
  <2>1. R * whole \in Nat /\ R * whole <= l /\ l < R * whole + R
    BY <1>1, WholeReads
  <2> QED BY <2>1
<1>3. k - 1 <= whole /\ k - 1 \in Nat
  OBVIOUS
<1>4. PICK a \in Nat : a = R * (k - 1) /\ a = Asked(file, whole, k - 1)
  <2>1. R * (k - 1) \in Nat
    BY <1>3
  <2>2. Asked(file, whole, k - 1) = R * (k - 1)
    BY <1>1, <1>3, Zenon DEF Asked
  <2> QED BY <2>1, <2>2
<1>5. PICK b : b = Asked(file, whole, k)
  OBVIOUS
<1>6. b = IF k <= whole THEN R * k ELSE l
  BY <1>1, <1>5, Zenon DEF Asked
<1>7. Chunk(file, whole, k) = SubSeq(file, a + 1, b)
  BY <1>1, <1>4, <1>5, Zenon DEF Asked, Chunk
<1>8. b \in Nat /\ a <= b /\ b <= l /\ b - a < WordBytes
  <2>1. WordBytes \in Nat
    BY SMT DEF WordBytes
  <2>2. CASE k <= whole
    <3>1. PICK d \in Nat : d = whole - k
      BY <2>2
    <3>2. R * whole = R * k + R * d /\ R * d \in Nat /\ R * k \in Nat
      BY <3>1
    <3>3. R * k = a + R
      BY <1>4
    <3> QED BY <1>1, <1>2, <1>6, <2>1, <2>2, <3>2, <3>3
  <2>3. CASE ~(k <= whole)
    <3>1. k - 1 = whole
      BY <2>3
    <3>2. a = w /\ b = l
      BY <1>2, <1>4, <1>6, <2>3, <3>1
    <3> QED BY <1>1, <1>2, <2>1, <3>2
  <2> QED BY <2>2, <2>3
<1>9. Part(file, whole, k, l, a, b)
  BY <1>4, <1>5, <1>7, <1>8 DEF Part
<1> QED BY <1>9

LEMMA AllReads ==
    ASSUME NEW file \in Seq(Byte), NEW whole \in Nat, whole = Len(file) \div READ_DATA_SIZE,
           NEW n \in Nat, n + Len(file) < Limit, NEW context, Holds(context, <<>>, n),
           NEW r, Reads(r, whole + 1, context, file, whole)
    PROVE  Holds(r[whole + 1], file, n + Len(file))
<1> DEFINE P == {k \in 0 .. whole + 1 : Holds(r[k], SubSeq(file, 1, Asked(file, whole, k)), n + Asked(file, whole, k))}
<1>1. \A k \in 0 .. whole + 1 : r[k] = IF k = 0 THEN context ELSE MD5Update(r[k - 1], Chunk(file, whole, k))
  BY Zenon DEF Reads
<1>2. 0 \in P
  <2>1. Asked(file, whole, 0) = 0
    BY Md5Assumption DEF Asked
  <2>2. SubSeq(file, 1, 0) = <<>>
    OBVIOUS
  <2>3. 0 \in 0 .. whole + 1 /\ n + 0 = n
    OBVIOUS
  <2>4. r[0] = context
    BY <1>1, <2>3
  <2>5. Holds(r[0], SubSeq(file, 1, Asked(file, whole, 0)), n + Asked(file, whole, 0))
    BY <2>1, <2>2, <2>3, <2>4
  <2> QED BY <2>3, <2>5
<1>3. ASSUME NEW k \in 1 .. whole + 1, k - 1 \in P PROVE k \in P
  <2>1. Holds(r[k - 1], SubSeq(file, 1, Asked(file, whole, k - 1)), n + Asked(file, whole, k - 1))
    BY <1>3
  <2>2. PICK c : c = r[k - 1]
    OBVIOUS
  <2>3. Holds(MD5Update(c, Chunk(file, whole, k)), SubSeq(file, 1, Asked(file, whole, k)), n + Asked(file, whole, k))
    <3>1. PICK l \in Nat : l = Len(file)
      OBVIOUS
    <3>2. PICK a, b : Part(file, whole, k, l, a, b)
      BY <3>1, AskedAre
    <3>5. /\ a \in Nat /\ b \in Nat
          /\ a = Asked(file, whole, k - 1) /\ b = Asked(file, whole, k)
          /\ a <= b /\ b <= l /\ b - a < WordBytes
          /\ Chunk(file, whole, k) = SubSeq(file, a + 1, b)
      BY <3>2, Zenon DEF Part
    <3>3. Holds(c, SubSeq(file, 1, a), n + a)
      BY <2>1, <2>2, <3>5, Zenon
    <3>4. Holds(MD5Update(c, SubSeq(file, a + 1, b)), SubSeq(file, 1, b), n + b)
      BY <3>1, <3>3, <3>5, ReadTakesIn
    <3> QED BY <3>4, <3>5, Zenon
  <2>4. k \in 0 .. whole + 1 /\ k # 0
    OBVIOUS
  <2>5. r[k] = MD5Update(c, Chunk(file, whole, k))
    BY <1>1, <2>2, <2>4
  <2> QED BY <2>3, <2>4, <2>5
<1> HIDE DEF P
<1>4. whole + 1 \in P
  <2>1. whole + 1 \in Nat /\ whole + 1 \in 0 .. whole + 1
    OBVIOUS
  <2> QED BY <1>2, <1>3, <2>1, UpTo
<1>5. Asked(file, whole, whole + 1) = Len(file)
  BY DEF Asked
<1>6. SubSeq(file, 1, Len(file)) = file
  BY SubSeqFull
<1> QED BY <1>4, <1>5, <1>6 DEF P

(***************************************************************************)
(* The padding and the length.                                             *)
(***************************************************************************)
Zeros(n) == [i \in 1 .. n |-> 0]

LEMMA PaddingIs ==
    ASSUME NEW n \in Nat
    PROVE  /\ SubSeq(PADDING, 1, PadLength(n % 64)) = <<128>> \o Zeros((55 - n) % 64)
           /\ PadLength(n % 64) \in Nat /\ PadLength(n % 64) <= 64
           /\ Zeros((55 - n) % 64) \in Seq(Byte) /\ <<128>> \in Seq(Byte)
<1>1. PICK r \in Nat : r = n % 64 /\ r < 64
  OBVIOUS
<1>2. PICK z \in Nat : z = (55 - n) % 64 /\ z < 64
  OBVIOUS
<1>3. PadLength(r) = z + 1
  <2>1. z = IF r < 56 THEN 55 - r ELSE 119 - r
    BY <1>1, <1>2
  <2> QED BY <1>1, <2>1 DEF PadLength
<1>4. PICK one : one = <<128>>
  OBVIOUS
<1>5. one \in Seq(Byte) /\ Len(one) = 1 /\ one[1] = 128
  BY <1>4 DEF Byte
<1>6. PICK long, short : long = Zeros(63) /\ short = Zeros(z)
  OBVIOUS
<1>7. long \in Seq(Byte) /\ Len(long) = 63 /\ \A i \in 1 .. 63 : long[i] = 0
  BY <1>6 DEF Zeros, Byte
<1>8. short \in Seq(Byte) /\ Len(short) = z /\ \A i \in 1 .. z : short[i] = 0
  BY <1>2, <1>6 DEF Zeros, Byte
<1>9. PADDING = one \o long
  BY <1>4, <1>6, Zenon DEF PADDING, Zeros
<1>10. PICK whole : whole = one \o long
  OBVIOUS
<1>11. Across(whole, one, long, 1, z)
  <2>1. 1 <= Len(one) + 1 /\ z <= Len(long) /\ 1 \in Nat /\ 1 # 0
    BY <1>2, <1>5, <1>7
  <2>2. one \in Seq(Byte) /\ long \in Seq(Byte)
    BY <1>5, <1>7
  <2> QED BY <1>10, <2>1, <2>2, SubAcross
<1>12. SubSeq(whole, 1, 1 + z) = SubSeq(one, 1, 1) \o SubSeq(long, 1, z)
  BY <1>5, <1>11 DEF Across
<1>13. SubSeq(one, 1, 1) = one
  BY <1>5, SubSeqFull
<1>14. SubSeq(long, 1, z) = short
  <2>1. SubSeq(long, 1, z) = [i \in 1 .. z |-> long[i]]
    BY <1>2
  <2>2. \A i \in 1 .. z : i \in 1 .. 63
    BY <1>2
  <2> QED BY <1>6, <1>7, <2>1, <2>2, Zenon DEF Zeros
<1>15. SubSeq(PADDING, 1, z + 1) = one \o short
  <2>1. 1 + z = z + 1
    OBVIOUS
  <2> QED BY <1>9, <1>10, <1>12, <1>13, <1>14, <2>1
<1>16. SubSeq(PADDING, 1, PadLength(n % 64)) = <<128>> \o Zeros((55 - n) % 64)
  BY <1>1, <1>2, <1>3, <1>4, <1>6, <1>15, Zenon
<1>17. PadLength(n % 64) \in Nat /\ PadLength(n % 64) <= 64
  BY <1>1, <1>2, <1>3
<1>18. Zeros((55 - n) % 64) \in Seq(Byte) /\ <<128>> \in Seq(Byte)
  BY <1>2, <1>4, <1>5, <1>6, <1>8, Zenon
<1> QED BY <1>16, <1>17, <1>18

LEMMA EncodedCount ==
    ASSUME NEW n \in Nat, n < 256 * WordBytes
    PROVE  MD5Encode(Count(n)) = LengthBytes(n) /\ LengthBytes(n) \in Seq(Byte) /\ Len(LengthBytes(n)) = 8
<1>1. PICK E \in Nat : E = n \div WordBytes /\ E < 256
  BY SMT DEF WordBytes
<1>2. PICK lo \in Nat, hi \in Nat : lo = (n % 8192) * 8 /\ hi = (n \div 8192) % 65536
  OBVIOUS
<1>3. /\ lo % 256 = (n % 32) * 8 /\ lo \div 256 = (n \div 32) % 256
      /\ lo % 256 \in Byte /\ lo \div 256 \in Byte
  BY <1>2 DEF Byte
<1>4. /\ hi % 256 = (n \div 8192) % 256 /\ hi \div 256 = (n \div 2097152) % 256
      /\ hi % 256 \in Byte /\ hi \div 256 \in Byte
  <2>1. PICK A \in Nat : A = n \div 8192
    OBVIOUS
  <2>2. PICK F \in Nat : hi = A % 65536 /\ A = 65536 * F + hi /\ hi < 65536
    <3>1. A = 65536 * (A \div 65536) + (A % 65536) /\ A \div 65536 \in Nat /\ A % 65536 < 65536
      OBVIOUS
    <3> QED BY <1>2, <2>1, <3>1
  <2>3. hi % 256 = A % 256 /\ hi \div 256 = (A \div 256) % 256
    BY <2>2
  <2>4. A \div 256 = n \div 2097152
    BY <2>1
  <2>5. hi % 256 \in 0 .. 255 /\ hi \div 256 \in 0 .. 255
    BY <2>2
  <2> QED BY <2>1, <2>3, <2>4, <2>5 DEF Byte
<1>5. E % 256 = E /\ E \div 256 = 0 /\ 0 % 256 = 0 /\ 0 \div 256 = 0 /\ E \in Byte /\ 0 \in Byte
  BY <1>1 DEF Byte
<1>6. (n \div 536870912) % 256 = E
  BY <1>1, SMT DEF WordBytes
<1>7. LengthBytes(n) = <<lo % 256, lo \div 256, hi % 256, hi \div 256, E, 0, 0, 0>>
  BY <1>3, <1>4, <1>6, SMT DEF LengthBytes
<1>8. Count(n) = <<<<hi, lo>>, <<0, E>>>>
  <2>1. E \div 65536 = 0 /\ E % 65536 = E
    BY <1>1
  <2> QED BY <1>1, <1>2, <2>1, SMT DEF Count, Word, Half
<1>9. PICK w : w = <<<<hi, lo>>, <<0, E>>>>
  OBVIOUS
<1>10. EncodeWord(w[1]) = <<lo % 256, lo \div 256, hi % 256, hi \div 256>>
  BY <1>9 DEF EncodeWord
<1>11. EncodeWord(w[2]) = <<E, 0, 0, 0>>
  BY <1>5, <1>9 DEF EncodeWord
<1>12. PICK t : t = <<lo % 256, lo \div 256, hi % 256, hi \div 256, E, 0, 0, 0>>
  OBVIOUS
<1>13. MD5Encode(w) = [j \in 1 .. 8 |-> EncodeWord(w[((j - 1) \div 4) + 1])[((j - 1) % 4) + 1]]
  <2>1. 4 * Len(w) = 8
    BY <1>9
  <2> QED BY <2>1 DEF MD5Encode
<1>14. \A j \in 1 .. 8 : EncodeWord(w[((j - 1) \div 4) + 1])[((j - 1) % 4) + 1] = t[j]
  <2>1. ASSUME NEW j \in 1 .. 4 PROVE EncodeWord(w[((j - 1) \div 4) + 1])[((j - 1) % 4) + 1] = t[j]
    <3>1. ((j - 1) \div 4) + 1 = 1 /\ ((j - 1) % 4) + 1 = j
      OBVIOUS
    <3>2. <<lo % 256, lo \div 256, hi % 256, hi \div 256>>[j] = t[j]
      BY <1>12
    <3> QED BY <1>10, <3>1, <3>2
  <2>2. ASSUME NEW j \in 5 .. 8 PROVE EncodeWord(w[((j - 1) \div 4) + 1])[((j - 1) % 4) + 1] = t[j]
    <3>1. ((j - 1) \div 4) + 1 = 2 /\ ((j - 1) % 4) + 1 = j - 4
      OBVIOUS
    <3>2. <<E, 0, 0, 0>>[j - 4] = t[j]
      BY <1>12
    <3> QED BY <1>11, <3>1, <3>2
  <2>3. \A j \in 1 .. 8 : j \in 1 .. 4 \/ j \in 5 .. 8
    OBVIOUS
  <2> QED BY <2>1, <2>2, <2>3
<1>15. t = [j \in 1 .. 8 |-> t[j]] /\ Len(t) = 8 /\ t \in Seq(Byte)
  BY <1>3, <1>4, <1>5, <1>12
<1>16. MD5Encode(w) = t
  BY <1>13, <1>14, <1>15
<1> QED BY <1>7, <1>8, <1>9, <1>12, <1>15, <1>16

Associate(s, t, u) == (s \o t) \o u = s \o (t \o u)

LEMMA TextsAssociate ==
    ASSUME NEW s \in Seq(Byte), NEW t \in Seq(Byte), NEW u \in Seq(Byte)
    PROVE  Associate(s, t, u)
BY ConcatAssociative, SMT DEF Associate

LEMMA FinalIs ==
    ASSUME NEW c, NEW text, NEW n, n < 256 * WordBytes, Holds(c, text, n)
    PROVE  MD5Final(c) = RfcDigest(text, n)
<1>1. text \in Seq(Byte) /\ n \in Nat /\ n % 64 = Len(text) % 64 /\ c.count = Count(n)
  BY DEF Holds
<1>2. Index(c) = n % 64
  BY <1>1, CountIs DEF Index
<1>3. PICK one, zeros, bits : one = <<128>> /\ zeros = Zeros((55 - n) % 64) /\ bits = LengthBytes(n)
  OBVIOUS
<1>4. one \in Seq(Byte) /\ zeros \in Seq(Byte) /\ bits \in Seq(Byte) /\ Len(bits) = 8 /\ MD5Encode(c.count) = bits
  BY <1>1, <1>3, PaddingIs, EncodedCount
<1>5. PICK pad \in Seq(Byte) : /\ pad = one \o zeros /\ pad = SubSeq(PADDING, 1, PadLength(Index(c)))
                               /\ Len(pad) \in Nat /\ Len(pad) <= 64
  <2>1. SubSeq(PADDING, 1, PadLength(Index(c))) = one \o zeros
    BY <1>1, <1>2, <1>3, PaddingIs
  <2>2. PICK pad : pad = one \o zeros
    OBVIOUS
  <2>3. pad \in Seq(Byte) /\ Len(pad) = Len(one) + Len(zeros)
    BY <1>4, <2>2, ConcatProperties
  <2>4. Len(one) = 1 /\ Len(zeros) < 64 /\ Len(zeros) \in Nat
    BY <1>1, <1>3 DEF Zeros
  <2>5. Len(pad) \in Nat /\ Len(pad) <= 64
    BY <2>3, <2>4
  <2> QED BY <2>1, <2>2, <2>3, <2>5
<1>6. PICK d : d = MD5Update(c, pad)
  OBVIOUS
<1>7. PICK m \in Nat : m = n + Len(pad) /\ m < Limit - 100
  BY <1>1, <1>5, SMT DEF Limit, WordBytes
<1>8. Holds(d, text \o pad, m)
  <2>1. Len(pad) < WordBytes /\ n + Len(pad) < Limit
    BY <1>5, <1>7, SMT DEF WordBytes, Limit
  <2> QED BY <1>6, <1>7, <2>1, UpdateHolds
<1>9. PICK e : e = MD5Update(d, bits)
  OBVIOUS
<1>10. Holds(e, (text \o pad) \o bits, m + Len(bits))
  <2>1. Len(bits) < WordBytes /\ m + Len(bits) < Limit
    BY <1>4, <1>7, SMT DEF WordBytes, Limit
  <2> QED BY <1>4, <1>8, <1>9, <2>1, UpdateHolds
<1>11. PICK all : all = Padded(text, n)
  OBVIOUS
<1>12. all = (text \o pad) \o bits
  <2>1. all = text \o <<128>> \o Zeros((55 - n) % 64) \o LengthBytes(n)
    BY <1>11, Zenon DEF Padded, Zeros
  <2>2. (text \o one) \o zeros = text \o (one \o zeros)
    <3>1. Associate(text, one, zeros)
      BY <1>1, <1>4, TextsAssociate
    <3> QED BY <3>1, Zenon DEF Associate
  <2> QED BY <1>3, <1>5, <2>1, <2>2, Zenon
<1>13. e.state = Blocks(MD5Init.state, all, 0, Len(all) \div 64)
  BY <1>10, <1>12 DEF Holds
<1>14. MD5Final(c) = MD5Encode(e.state)
  BY <1>4, <1>5, <1>6, <1>9, Zenon DEF MD5Final
<1>15. RfcDigest(text, n) = MD5Encode(Blocks(MD5Init.state, all, 0, Len(all) \div 64))
  BY <1>11, Zenon DEF RfcDigest
<1> QED BY <1>13, <1>14, <1>15

LEMMA DigestIsRfc ==
    ASSUME NEW f \in Files
    PROVE  Compute_file_md5(Resumed(f.before), f.text) = RfcDigest(f.text, 64 * f.before + Len(f.text))
<1>1. PICK b \in Nat, text \in Seq(Byte) : b = f.before /\ text = f.text /\ b + (Len(text) \div 64) < MostBlocks
  BY FilesAssumption
<1>2. PICK l \in Nat : l = Len(text)
  OBVIOUS
<1>3. PICK n \in Nat : n = 64 * b
  OBVIOUS
<1>4. b < MostBlocks /\ n + l < 256 * WordBytes /\ n + l < Limit
  <2>1. l \div 64 \in Nat /\ l < 64 * (l \div 64) + 64
    BY <1>2
  <2>2. b + (l \div 64) < MostBlocks
    BY <1>1, <1>2
  <2> QED BY <1>3, <2>1, <2>2, SMT DEF Limit, WordBytes, MostBlocks
<1>5. PICK context : context = Resumed(b)
  OBVIOUS
<1>6. Holds(context, <<>>, n)
  BY <1>3, <1>4, <1>5, HoldsAtStart
<1>7. PICK whole \in Nat : whole = Len(text) \div READ_DATA_SIZE
  BY <1>2, WholeReads
<1>8. PICK r : Reads(r, whole + 1, context, text, whole) /\ Compute_file_md5(context, text) = MD5Final(r[whole + 1])
  BY <1>7, DigestReads
<1>9. Holds(r[whole + 1], text, n + Len(text))
  BY <1>2, <1>4, <1>6, <1>7, <1>8, AllReads
<1>10. MD5Final(r[whole + 1]) = RfcDigest(text, n + Len(text))
  BY <1>2, <1>4, <1>9, FinalIs
<1> QED BY <1>1, <1>3, <1>5, <1>8, <1>10

\* What the client sends for a file that it has digested.
DigestInv ==
    \A d \in digests : d.file \in Files /\ d.md5_str = Compute_file_md5(Resumed(d.file.before), d.file.text)

\* Compute_file_md5() gives the digest of RFC 1321, for a text of any length, any
\* size of a read and any work on a block: reads, buffer and padding come to the
\* padded message in blocks, and the two words of the count to its length.
THEOREM DigestFollowsRfc == DigestSpec => []DigestIsRight
<1>1. NoDigest => DigestInv
  BY DEF NoDigest, DigestInv
<1>2. DigestInv /\ [Digest]_digests => DigestInv'
  <2> SUFFICES ASSUME DigestInv, [Digest]_digests PROVE DigestInv'
    OBVIOUS
  <2>1. CASE Digest
    <3>1. PICK f \in Files : digests' = {[file |-> f, md5_str |-> Compute_file_md5(Resumed(f.before), f.text)]}
      BY <2>1 DEF Digest
    <3>2. PICK v : v = Compute_file_md5(Resumed(f.before), f.text)
      OBVIOUS
    <3>3. PICK u : u = [file |-> f, md5_str |-> v]
      OBVIOUS
    <3>4. u.file = f /\ u.md5_str = v
      BY <3>3
    <3>5. \A d \in digests' : d = u
      BY <3>1, <3>2, <3>3
    <3> QED BY <3>2, <3>4, <3>5 DEF DigestInv
  <2>2. CASE UNCHANGED digests
    BY <2>2 DEF DigestInv
  <2> QED BY <2>1, <2>2
<1>3. DigestInv => DigestIsRight
  BY DigestIsRfc DEF DigestInv, DigestIsRight
<1> QED BY <1>1, <1>2, <1>3, PTL DEF DigestSpec
=============================================================================
