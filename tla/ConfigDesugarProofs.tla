-------------------------- MODULE ConfigDesugarProofs --------------------------
(******************************************************************************)
(* What the validation of a configuration guarantees to the study it loads.   *)
(******************************************************************************)
EXTENDS ConfigDesugar, FiniteSetTheorems, WellFoundedInduction, TLAPS

(* A set of natural numbers has a least element.                              *)
LEMMA Least ==
  ASSUME NEW S, S \subseteq Nat, S # {}
  PROVE  \E m \in S : \A k \in S : m <= k
<1> DEFINE R == OpToRel(<, Nat)
<1>1. PICK m \in S : \A k \in S : <<k, m>> \notin R
  <2>1. IsWellFoundedOn(R, Nat)
    BY NatLessThanWellFounded
  <2> HIDE DEF R
  <2> QED
    BY <2>1, WFMin
<1>2. \A k \in S : ~(k < m)
  BY <1>1 DEF OpToRel
<1> HIDE DEF R
<1> QED
  BY <1>2

(* A bounded set of natural numbers has a greatest element.                   *)
LEMMA Greatest ==
  ASSUME NEW S, S \subseteq Nat, S # {}, NEW b \in Nat, \A n \in S : n <= b
  PROVE  \E m \in S : \A k \in S : k <= m
<1> DEFINE Above == {k \in Nat : \A n \in S : n <= k}
<1>1. PICK m \in Above : \A k \in Above : m <= k
  <2>1. Above \subseteq Nat /\ Above # {}
    OBVIOUS
  <2> HIDE DEF Above
  <2> QED
    BY <2>1, Least
<1>2. SUFFICES ASSUME m \notin S
               PROVE  FALSE
  BY <1>1
<1>3. \A n \in S : n <= m - 1
  BY <1>1, <1>2
<1>4. m - 1 \in Nat
  <2>1. PICK n \in S : TRUE
    OBVIOUS
  <2> QED
    BY <1>1, <1>3, <2>1
<1> QED
  BY <1>1, <1>3, <1>4

(* The natural numbers are the least set that has 0 and every successor.      *)
LEMMA Induction ==
  ASSUME NEW S, 0 \in S, \A n \in Nat : n \in S => n + 1 \in S
  PROVE  Nat \subseteq S
<1>1. SUFFICES ASSUME Nat \ S # {}
               PROVE  FALSE
  OBVIOUS
<1>2. PICK m \in Nat \ S : \A k \in Nat \ S : m <= k
  BY <1>1, Least
<1>3. m # 0
  BY <1>2
<1>4. m - 1 \in Nat /\ (m - 1) + 1 = m
  BY <1>3
<1>5. m - 1 \in S
  BY <1>2, <1>4
<1> QED
  BY <1>4, <1>5

(* A function on the natural numbers may be defined by its first value and    *)
(* by what makes each value out of the one before.                            *)
Steps(S) == [S \X Nat -> S]
Iterates(f, S, a, step) ==
  f \in [Nat -> S] /\ f[0] = a /\ \A n \in Nat : f[n + 1] = step[<<f[n], n + 1>>]

(* A step function can be iterated from any start: induction over the data,   *)
(* by the least counterexample of a set.                                      *)
LEMMA Recursion ==
  ASSUME NEW S, NEW a \in S, NEW step \in Steps(S)
  PROVE  \E f : Iterates(f, S, a, step)
<1> step \in [S \X Nat -> S]
  BY DEF Steps
<1> DEFINE G(n) == {g \in [0 .. n -> S] : g[0] = a /\ \A i \in 1 .. n : g[i] = step[<<g[i - 1], i>>]}
           Some == {n \in Nat : G(n) # {}}
<1>1. Nat \subseteq Some
  <2>1. 0 \in Some
    <3>1. [i \in 0 .. 0 |-> a] \in G(0)
      OBVIOUS
    <3> QED
      BY <3>1
  <2>2. ASSUME NEW n \in Nat, n \in Some
        PROVE  n + 1 \in Some
    <3>1. PICK g \in G(n) : TRUE
      BY <2>2
    <3> DEFINE h == [i \in 0 .. n + 1 |-> IF i <= n THEN g[i] ELSE step[<<g[n], n + 1>>]]
    <3>2. g \in [0 .. n -> S] /\ g[0] = a /\ \A i \in 1 .. n : g[i] = step[<<g[i - 1], i>>]
      BY <3>1
    <3>3. step[<<g[n], n + 1>>] \in S
      BY <3>2
    <3>4. h \in [0 .. n + 1 -> S]
      BY <3>2, <3>3
    <3>5. h[0] = a /\ \A i \in 1 .. n + 1 : h[i] = step[<<h[i - 1], i>>]
      <4>1. h[0] = a
        BY <3>2
      <4>2. ASSUME NEW i \in 1 .. n + 1
            PROVE  h[i] = step[<<h[i - 1], i>>]
        <5>1. i - 1 \in 0 .. n /\ h[i - 1] = g[i - 1]
          OBVIOUS
        <5>2. CASE i <= n
          BY <3>2, <5>1, <5>2
        <5>3. CASE i = n + 1
          <6>1. h[n + 1] = step[<<g[n], n + 1>>] /\ h[i - 1] = g[n] /\ h[i] = h[n + 1]
            BY <5>1, <5>3
          <6> QED
            BY <5>3, <6>1
        <5> QED
          BY <5>2, <5>3
      <4> QED
        BY <4>1, <4>2
    <3>6. h \in G(n + 1)
      BY <3>4, <3>5
    <3> HIDE DEF G, h
    <3> QED
      BY <3>6
  <2> HIDE DEF Some
  <2> QED
    BY <2>1, <2>2, Induction
<1>2. ASSUME NEW m \in Nat, NEW n \in Nat, NEW g \in G(m), NEW h \in G(n)
      PROVE  \A i \in Nat : i <= m /\ i <= n => g[i] = h[i]
  <2> DEFINE Same == {i \in Nat : i <= m /\ i <= n => g[i] = h[i]}
  <2>1. 0 \in Same
    OBVIOUS
  <2>2. ASSUME NEW i \in Nat, i \in Same
        PROVE  i + 1 \in Same
    <3>1. CASE i + 1 <= m /\ i + 1 <= n
      <4>1. g[i] = h[i] /\ i + 1 \in 1 .. m /\ i + 1 \in 1 .. n
        BY <2>2, <3>1
      <4>2. g[i + 1] = step[<<g[i + 1 - 1], i + 1>>] /\ h[i + 1] = step[<<h[i + 1 - 1], i + 1>>]
        BY <4>1
      <4> QED
        BY <4>1, <4>2
    <3> QED
      BY <3>1
  <2>3. Nat \subseteq Same
    <3> HIDE DEF Same
    <3> QED
      BY <2>1, <2>2, Induction
  <2> QED
    BY <2>3
<1> DEFINE upTo(n) == CHOOSE g \in G(n) : TRUE
           f == [n \in Nat |-> upTo(n)[n]]
<1>3. ASSUME NEW n \in Nat
      PROVE  upTo(n) \in G(n)
  BY <1>1
<1>4. f \in [Nat -> S]
  <2>1. ASSUME NEW n \in Nat
        PROVE  upTo(n)[n] \in S
    <3>1. upTo(n) \in [0 .. n -> S]
      BY <1>3
    <3> HIDE DEF upTo
    <3> QED
      BY <3>1
  <2> HIDE DEF upTo
  <2> QED
    BY <2>1
<1>5. f[0] = a
  <2>1. upTo(0) \in G(0)
    BY <1>3
  <2> HIDE DEF upTo
  <2> QED
    BY <2>1
<1>6. ASSUME NEW n \in Nat
      PROVE  f[n + 1] = step[<<f[n], n + 1>>]
  <2>1. upTo(n) \in G(n) /\ upTo(n + 1) \in G(n + 1) /\ n + 1 \in Nat /\ n + 1 \in 1 .. n + 1
    <3>1. n + 1 \in Nat /\ n + 1 \in 1 .. n + 1
      OBVIOUS
    <3> HIDE DEF upTo, G
    <3> QED
      BY <1>3, <3>1
  <2>2. upTo(n + 1)[n + 1] = step[<<upTo(n + 1)[(n + 1) - 1], n + 1>>]
    <3> HIDE DEF upTo
    <3> QED
      BY <2>1
  <2>3. upTo(n + 1)[n] = upTo(n)[n]
    <3>1. n <= n /\ n <= n + 1
      OBVIOUS
    <3> HIDE DEF G, upTo
    <3> QED
      BY <1>2, <2>1, <3>1
  <2> HIDE DEF upTo
  <2> QED
    BY <2>1, <2>2, <2>3
<1> QED
  <2> HIDE DEF f
  <2>1. Iterates(f, S, a, step)
    BY <1>4, <1>5, <1>6 DEF Iterates
  <2> QED
    BY <2>1

(* Every element of a flattened sequence comes from a place in one of the     *)
(* sequences: row says in which, col says where, and both keep the order.     *)
Places(flat, ss, n, row, col) ==
  /\ row \in [1 .. Len(flat) -> 1 .. n] /\ col \in [1 .. Len(flat) -> Nat]
  /\ \A k \in 1 .. Len(flat) : col[k] \in 1 .. Len(ss[row[k]]) /\ flat[k] = ss[row[k]][col[k]]
  /\ \A k, l \in 1 .. Len(flat) : k < l => row[k] < row[l] \/ (row[k] = row[l] /\ col[k] < col[l])
  /\ \A i \in 1 .. n : \A j \in 1 .. Len(ss[i]) : \E k \in 1 .. Len(flat) : row[k] = i /\ col[k] = j

(* A flattened list with its places, longer by one of the lists.              *)
LEMMA FlattenStep ==
  ASSUME NEW S, NEW ss \in Seq(Seq(S)), NEW n \in Nat, n + 1 <= Len(ss),
         NEW flat \in Seq(S), NEW row, NEW col, Places(flat, ss, n, row, col)
  PROVE  \E r, c : Places(flat \o ss[n + 1], ss, n + 1, r, c)
<1> DEFINE last == ss[n + 1]
           whole == flat \o last
           m == Len(flat)
           r == [k \in 1 .. Len(whole) |-> IF k <= m THEN row[k] ELSE n + 1]
           c == [k \in 1 .. Len(whole) |-> IF k <= m THEN col[k] ELSE k - m]
<1>1. last \in Seq(S) /\ m \in Nat /\ Len(last) \in Nat /\ Len(whole) = m + Len(last)
  OBVIOUS
<1>2. \A k \in 1 .. Len(whole) :
        /\ k <= m => k \in 1 .. m /\ whole[k] = flat[k] /\ r[k] = row[k] /\ c[k] = col[k]
        /\ ~(k <= m) => /\ k - m \in 1 .. Len(last) /\ whole[k] = last[k - m]
                        /\ r[k] = n + 1 /\ c[k] = k - m
  BY <1>1
<1> HIDE DEF r, c, whole, last, m
<1>3. /\ row \in [1 .. m -> 1 .. n] /\ col \in [1 .. m -> Nat]
      /\ \A k \in 1 .. m : col[k] \in 1 .. Len(ss[row[k]]) /\ flat[k] = ss[row[k]][col[k]]
      /\ \A k, l \in 1 .. m : k < l => row[k] < row[l] \/ (row[k] = row[l] /\ col[k] < col[l])
      /\ \A i \in 1 .. n : \A j \in 1 .. Len(ss[i]) : \E k \in 1 .. m : row[k] = i /\ col[k] = j
  BY DEF Places, m
<1>4. r \in [1 .. Len(whole) -> 1 .. n + 1] /\ c \in [1 .. Len(whole) -> Nat]
  <2>1. ASSUME NEW k \in 1 .. Len(whole)
        PROVE  r[k] \in 1 .. n + 1 /\ c[k] \in Nat
    <3>1. CASE k <= m
      <4>1. row[k] \in 1 .. n /\ col[k] \in Nat /\ r[k] = row[k] /\ c[k] = col[k]
        BY <1>2, <1>3, <3>1
      <4> QED
        BY <4>1
    <3>2. CASE ~(k <= m)
      BY <1>1, <1>2, <3>2
    <3> QED
      BY <3>1, <3>2
  <2> QED
    BY <2>1 DEF r, c
<1>5. \A k \in 1 .. Len(whole) : c[k] \in 1 .. Len(ss[r[k]]) /\ whole[k] = ss[r[k]][c[k]]
  <2> TAKE k \in 1 .. Len(whole)
  <2>1. CASE k <= m
    BY <1>2, <1>3, <2>1
  <2>2. CASE ~(k <= m)
    BY <1>2, <2>2 DEF last
  <2> QED
    BY <1>1, <2>1, <2>2
<1>6. \A k, l \in 1 .. Len(whole) : k < l => r[k] < r[l] \/ (r[k] = r[l] /\ c[k] < c[l])
  <2> SUFFICES ASSUME NEW k \in 1 .. Len(whole), NEW l \in 1 .. Len(whole), k < l
               PROVE  r[k] < r[l] \/ (r[k] = r[l] /\ c[k] < c[l])
    OBVIOUS
  <2>1. CASE l <= m
    <3>1. k <= m
      BY <1>1, <2>1
    <3>2. k \in 1 .. m /\ l \in 1 .. m /\ r[k] = row[k] /\ c[k] = col[k] /\ r[l] = row[l] /\ c[l] = col[l]
      BY <1>2, <2>1, <3>1
    <3> QED
      BY <1>3, <3>2
  <2>2. CASE k <= m /\ ~(l <= m)
    <3>1. row[k] \in 1 .. n /\ r[k] = row[k] /\ r[l] = n + 1
      BY <1>2, <1>3, <2>2
    <3> QED
      BY <3>1
  <2>3. CASE ~(k <= m)
    <3>1. k \in Int /\ l \in Int /\ m \in Int /\ ~(l <= m)
      BY <1>1, <2>3
    <3>2. r[k] = n + 1 /\ r[l] = n + 1 /\ c[k] = k - m /\ c[l] = l - m
      BY <1>2, <2>3, <3>1
    <3> QED
      BY <3>1, <3>2
  <2> QED
    BY <1>1, <2>1, <2>2, <2>3
<1>7. \A i \in 1 .. n + 1 : \A j \in 1 .. Len(ss[i]) :
        \E k \in 1 .. Len(whole) : r[k] = i /\ c[k] = j
  <2> SUFFICES ASSUME NEW i \in 1 .. n + 1, NEW j \in 1 .. Len(ss[i])
               PROVE  \E k \in 1 .. Len(whole) : r[k] = i /\ c[k] = j
    OBVIOUS
  <2>1. CASE i \in 1 .. n
    <3>1. PICK k \in 1 .. m : row[k] = i /\ col[k] = j
      BY <1>3, <2>1
    <3>2. k \in 1 .. Len(whole) /\ k <= m
      BY <1>1
    <3> QED
      BY <1>2, <3>1, <3>2
  <2>2. CASE i = n + 1
    <3>1. m + j \in 1 .. Len(whole) /\ ~(m + j <= m) /\ (m + j) - m = j
      BY <1>1, <2>2 DEF last
    <3> QED
      BY <1>2, <2>2, <3>1
  <2> QED
    BY <2>1, <2>2
<1>8. Places(whole, ss, n + 1, r, c)
  BY <1>4, <1>5, <1>6, <1>7 DEF Places
<1> QED
  BY <1>8 DEF whole, last

(* FlattenSeq: every element is at one row and column of the lists, and the   *)
(* places are in the order of the lists.                                      *)
LEMMA FlattenPlaces ==
  ASSUME NEW S, NEW ss \in Seq(Seq(S))
  PROVE  /\ FlattenSeq(ss) \in Seq(S)
         /\ \E row, col : Places(FlattenSeq(ss), ss, Len(ss), row, col)
<1> DEFINE L == Len(ss)
<1>1. CASE L = 0
  <2>1. FlattenSeq(ss) = <<>> /\ Len(<<>>) = 0 /\ <<>> \in Seq(S)
    BY <1>1 DEF FlattenSeq
  <2>2. Places(<<>>, ss, 0, <<>>, <<>>)
    BY DEF Places
  <2> QED
    BY <1>1, <2>1, <2>2
<1>2. CASE L # 0
  <2> DEFINE Flat(h) == h = [i \in 1 .. L |-> IF i = 1 THEN ss[i] ELSE h[i - 1] \o ss[i]]
             fl == CHOOSE h : Flat(h)
             step == [p \in Seq(S) \X Nat |-> IF p[2] \in 1 .. L THEN p[1] \o ss[p[2]] ELSE <<>>]
  <2>1. step \in [Seq(S) \X Nat -> Seq(S)]
    OBVIOUS
  <2>2. PICK f \in [Nat -> Seq(S)] : f[0] = <<>> /\ \A n \in Nat : f[n + 1] = step[<<f[n], n + 1>>]
    <3>1. <<>> \in Seq(S) /\ step \in Steps(Seq(S))
      BY <2>1 DEF Steps
    <3> HIDE DEF step
    <3>2. \E h : Iterates(h, Seq(S), <<>>, step)
      BY <3>1, Recursion
    <3> QED
      BY <3>2 DEF Iterates
  <2>3. \A i \in 1 .. L : f[i] = (IF i = 1 THEN ss[i] ELSE f[i - 1] \o ss[i])
    <3> SUFFICES ASSUME NEW i \in 1 .. L
                 PROVE  f[i] = (IF i = 1 THEN ss[i] ELSE f[i - 1] \o ss[i])
      OBVIOUS
    <3>1. i \in Nat /\ i - 1 \in Nat /\ (i - 1) + 1 = i /\ f[i - 1] \in Seq(S) /\ ss[i] \in Seq(S)
      <4>1. i \in Nat /\ i - 1 \in Nat /\ (i - 1) + 1 = i
        OBVIOUS
      <4>2. ss[i] \in Seq(S)
        OBVIOUS
      <4>3. f[i - 1] \in Seq(S)
        BY <4>1
      <4> QED
        BY <4>1, <4>2, <4>3
    <3>2. f[i] = step[<<f[i - 1], i>>]
      <4> HIDE DEF step
      <4> QED
        BY <2>2, <3>1
    <3>3. f[i] = f[i - 1] \o ss[i]
      BY <3>1, <3>2
    <3>4. f[0] = <<>>
      <4> HIDE DEF step
      <4> QED
        BY <2>2
    <3>5. <<>> \o ss[i] = ss[i]
      BY <3>1
    <3>6. i = 1 => f[i - 1] = <<>>
      BY <3>4
    <3> QED
      BY <3>3, <3>5, <3>6
  <2>4. \E h : Flat(h)
    <3> DEFINE h == [i \in 1 .. L |-> f[i]]
    <3>1. \A i \in 1 .. L : h[i] = f[i] /\ (i # 1 => h[i - 1] = f[i - 1])
      OBVIOUS
    <3>2. \A i \in 1 .. L : f[i] = (IF i = 1 THEN ss[i] ELSE h[i - 1] \o ss[i])
      BY <2>3, <3>1
    <3>3. h = [i \in 1 .. L |-> IF i = 1 THEN ss[i] ELSE h[i - 1] \o ss[i]]
      <4> DEFINE e(i) == IF i = 1 THEN ss[i] ELSE h[i - 1] \o ss[i]
      <4>1. \A i \in 1 .. L : f[i] = e(i)
        BY <3>2
      <4> HIDE DEF e
      <4>2. [i \in 1 .. L |-> f[i]] = [i \in 1 .. L |-> e(i)]
        BY <4>1
      <4> QED
        BY <4>2 DEF e
    <3> QED
      BY <3>3
  <2>5. Flat(fl)
    <3> HIDE DEF Flat
    <3> QED
      BY <2>4
  <2>6. FlattenSeq(ss) = fl[L]
    BY <1>2, Zenon DEF FlattenSeq
  <2> HIDE DEF fl
  <2>7. \A i \in 1 .. L : fl[i] = IF i = 1 THEN ss[i] ELSE fl[i - 1] \o ss[i]
    BY <2>5
  <2> DEFINE Good(n) == fl[n] \in Seq(S) /\ \E row, col : Places(fl[n], ss, n, row, col)
             All == {n \in Nat : n + 1 <= L => Good(n + 1)}
  <2>8. 0 \in All
    <3>1. 1 \in 1 .. L /\ fl[1] = ss[1] /\ ss[1] \in Seq(S)
      <4>1. L \in Nat /\ 1 \in 1 .. L /\ DOMAIN ss = 1 .. L
        BY <1>2
      <4>2. ss[1] \in Seq(S)
        <5> HIDE DEF L
        <5> QED
          BY <4>1
      <4>3. fl[1] = IF 1 = 1 THEN ss[1] ELSE fl[1 - 1] \o ss[1]
        <5> HIDE DEF L
        <5> QED
          BY <2>7, <4>1, Zenon
      <4> QED
        BY <4>1, <4>2, <4>3, Zenon
    <3>2. <<>> \in Seq(S) /\ Places(<<>>, ss, 0, <<>>, <<>>) /\ <<>> \o ss[1] = ss[1] /\ 0 + 1 <= Len(ss)
      BY <3>1 DEF Places
    <3>3. \E row, col : Places(<<>> \o ss[0 + 1], ss, 0 + 1, row, col)
      BY <3>2, FlattenStep
    <3>4. Good(1)
      BY <3>1, <3>2, <3>3
    <3> QED
      BY <3>4
  <2>9. ASSUME NEW n \in Nat, n \in All
        PROVE  n + 1 \in All
    <3> SUFFICES ASSUME (n + 1) + 1 <= L
                 PROVE  Good((n + 1) + 1)
      OBVIOUS
    <3>1. Good(n + 1) /\ n + 1 \in Nat
      BY <2>9
    <3>2. fl[(n + 1) + 1] = fl[n + 1] \o ss[(n + 1) + 1] /\ ss[(n + 1) + 1] \in Seq(S)
      <4> DEFINE i == (n + 1) + 1
      <4>1. i \in 1 .. L /\ i # 1 /\ i - 1 = n + 1
        OBVIOUS
      <4>2. ss[i] \in Seq(S)
        BY <4>1
      <4>3. fl[i] = fl[i - 1] \o ss[i]
        <5> HIDE DEF i
        <5> QED
          BY <2>7, <4>1
      <4> QED
        BY <4>1, <4>2, <4>3
    <3>3. \E r, c : Places(fl[n + 1] \o ss[(n + 1) + 1], ss, (n + 1) + 1, r, c)
      BY <3>1, FlattenStep
    <3>4. fl[n + 1] \o ss[(n + 1) + 1] \in Seq(S)
      BY <3>1, <3>2
    <3> QED
      BY <3>2, <3>3, <3>4
  <2>10. Nat \subseteq All
    <3> HIDE DEF All
    <3> QED
      BY <2>8, <2>9, Induction
  <2>11. Good(L)
    <3>1. L - 1 \in Nat /\ (L - 1) + 1 = L
      BY <1>2
    <3>2. L - 1 \in All
      BY <2>10, <3>1
    <3> HIDE DEF Good
    <3> QED
      BY <3>1, <3>2
  <2> QED
    BY <2>6, <2>11
<1> QED
  BY <1>1, <1>2

------------------------------------------------------------------------------
(* The areas of a configuration.                                              *)

(* What a configuration consists of; its areas are named once each.           *)
LEMMA ConfigFacts ==
  ASSUME config \in Config
  PROVE  /\ config.areas \in Seq(AreaEntry) /\ Len(config.areas) \in Nat
         /\ DOMAIN config.areas = 1 .. Len(config.areas)
         /\ config.combineAreas \in Seq(Name) /\ config.waves \in Seq(SUBSET {Plain(a) : a \in Name})
         /\ \A i, j \in DOMAIN config.areas : Names[i] \in Name /\ (Names[i] = Names[j] => i = j)
<1>1. /\ config.areas \in Seq(AreaEntry) /\ Len(config.areas) <= Len(Names)
      /\ config.combineAreas \in Seq(Name) /\ config.waves \in Seq(SUBSET {Plain(a) : a \in Name})
      /\ Names \in Seq(Name) /\ IsInjective(Names)
  BY ConfigAssumption
<1>2. DOMAIN config.areas = 1 .. Len(config.areas) /\ DOMAIN Names = 1 .. Len(Names)
  BY <1>1
<1>3. DOMAIN config.areas \subseteq DOMAIN Names
  BY <1>1, <1>2
<1> QED
  BY <1>1, <1>2, <1>3 DEF IsInjective

(* by_id: the listed names and the areas belong to each other.                *)
LEMMA AreaFacts ==
  ASSUME config \in Config
  PROVE  /\ \A i \in DOMAIN config.areas : Names[i] \in Listed /\ AreaNamed(Names[i]) = config.areas[i]
         /\ \A n \in Listed : /\ n \in Name /\ AreaNamed(n) \in AreaEntry /\ AreaNamed(n) \in Areas
                              /\ \E i \in DOMAIN config.areas : n = Names[i]
         /\ \A a \in Areas : \E n \in Listed : a = AreaNamed(n)
<1>1. ASSUME NEW i \in DOMAIN config.areas
      PROVE  Names[i] \in Listed /\ AreaNamed(Names[i]) = config.areas[i]
  BY ConfigFacts DEF Listed, AreaNamed
<1>2. \A i \in DOMAIN config.areas : config.areas[i] \in AreaEntry /\ config.areas[i] \in Areas
  BY ConfigFacts DEF Areas, ToSet
<1>3. \A n \in Listed : \E i \in DOMAIN config.areas : n = Names[i]
  BY DEF Listed
<1>4. \A a \in Areas : \E i \in DOMAIN config.areas : a = config.areas[i]
  BY DEF Areas, ToSet
<1>5. \A i \in DOMAIN config.areas : Names[i] \in Name
  BY ConfigFacts
<1> QED
  BY <1>1, <1>2, <1>3, <1>4, <1>5

(* One step up from an area.                                                  *)
Above(n) == IF n \in Listed /\ Inherits(AreaNamed(n)) THEN AreaNamed(n).parent ELSE None

(* The area above one, or None.                                               *)
LEMMA AboveFacts ==
  ASSUME config \in Config
  PROVE  /\ Above(None) = None /\ \A n : Above(n) \in Name \cup {None}
         /\ \A n \in Listed : Above(n) # None <=> Inherits(AreaNamed(n))
<1>1. None \notin Listed
  BY AreaFacts, ConfigAssumption
<1>2. \A n \in Listed : AreaNamed(n).parent \in Name \cup {None}
  BY AreaFacts DEF AreaEntry
<1> QED
  BY <1>1, <1>2 DEF Above, Inherits

(* level's recursion, one step at a time.                                     *)
LEMMA AncestryFacts ==
  ASSUME config \in Config, NEW n
  PROVE  /\ Ancestry(n)[0] = n
         /\ \A i \in 1 .. Len(config.areas) : Ancestry(n)[i] = Above(Ancestry(n)[i - 1])
<1> DEFINE L == Len(config.areas)
           Up(h) == h = [i \in 0 .. L |-> IF i = 0 THEN n ELSE Above(h[i - 1])]
           S == Name \cup {None, n}
           step == [p \in S \X Nat |-> Above(p[1])]
<1>1. PICK f : Iterates(f, S, n, step)
  <2>1. step \in Steps(S)
    BY AboveFacts DEF Steps
  <2>2. n \in S
    OBVIOUS
  <2> HIDE DEF S, step
  <2> QED
    BY <2>1, <2>2, Recursion
<1>2. f[0] = n /\ \A i \in Nat : f[i + 1] = Above(f[i])
  <2>1. f \in [Nat -> S] /\ f[0] = n /\ \A i \in Nat : f[i + 1] = step[<<f[i], i + 1>>]
    BY <1>1 DEF Iterates
  <2>2. ASSUME NEW i \in Nat
        PROVE  step[<<f[i], i + 1>>] = Above(f[i])
    <3>1. <<f[i], i + 1>> \in S \X Nat
      BY <2>1
    <3> QED
      BY <3>1
  <2> QED
    BY <2>1, <2>2
<1>3. \E h : Up(h)
  <2> DEFINE h == [i \in 0 .. L |-> f[i]]
             e(i) == IF i = 0 THEN n ELSE Above(h[i - 1])
  <2>1. ASSUME NEW i \in 0 .. L
        PROVE  f[i] = e(i)
    <3>1. CASE i = 0
      BY <1>2, <3>1
    <3>2. CASE i # 0
      <4>1. i - 1 \in Nat /\ (i - 1) + 1 = i /\ h[i - 1] = f[i - 1]
        BY <3>2
      <4>2. f[(i - 1) + 1] = Above(f[i - 1])
        BY <1>2, <4>1
      <4> QED
        BY <3>2, <4>1, <4>2
    <3> QED
      BY <3>1, <3>2
  <2>2. h = [i \in 0 .. L |-> e(i)]
    <3> HIDE DEF e
    <3> QED
      BY <2>1
  <2> QED
    BY <2>2
<1>4. Ancestry(n) = CHOOSE h : Up(h)
  BY Zenon DEF Ancestry, Above
<1>5. Up(Ancestry(n))
  <2> HIDE DEF Up
  <2> QED
    BY <1>3, <1>4
<1>6. L \in Nat
  BY ConfigFacts
<1> DEFINE an == Ancestry(n)
<1> HIDE DEF an
<1>7. an = [i \in 0 .. L |-> IF i = 0 THEN n ELSE Above(an[i - 1])]
  BY <1>5 DEF an
<1>8. an[0] = n /\ \A i \in 1 .. L : an[i] = Above(an[i - 1])
  BY <1>6, <1>7
<1> QED
  BY <1>8 DEF an

Accepted == WellFormed /\ ~DesugarFails

(* Going up from an area ends after as many areas as its level.               *)
Reach(n, k) == \A i \in 1 .. Len(config.areas) : Ancestry(n)[i] # None <=> i <= k

(* Above the top there is nothing more.                                       *)
LEMMA NoneStays ==
  ASSUME config \in Config, NEW n, NEW i \in 0 .. Len(config.areas), Ancestry(n)[i] = None
  PROVE  \A j \in i .. Len(config.areas) : Ancestry(n)[j] = None
<1> DEFINE L == Len(config.areas)
           an == Ancestry(n)
           S == {d \in Nat : i + d <= L => an[i + d] = None}
<1>1. L \in Nat /\ i \in Nat
  BY ConfigFacts
<1>2. 0 \in S
  BY <1>1
<1>3. ASSUME NEW d \in Nat, d \in S
      PROVE  d + 1 \in S
  <2> SUFFICES ASSUME i + (d + 1) <= L
               PROVE  an[i + (d + 1)] = None
    OBVIOUS
  <2>1. an[i + d] = None /\ i + (d + 1) \in 1 .. L /\ (i + (d + 1)) - 1 = i + d
    BY <1>1, <1>3
  <2> HIDE DEF an
  <2> QED
    BY <2>1, AncestryFacts, AboveFacts DEF an
<1>4. Nat \subseteq S
  <2> HIDE DEF S
  <2> QED
    BY <1>2, <1>3, Induction
<1>5. ASSUME NEW j \in i .. L
      PROVE  an[j] = None
  <2>1. j - i \in Nat /\ i + (j - i) = j
    BY <1>1
  <2>2. j - i \in S
    BY <1>4, <2>1
  <2> QED
    BY <2>1, <2>2
<1> QED
  BY <1>5

(* Where the way up ends is the level ...                                     *)
LEMMA ReachLevel ==
  ASSUME config \in Config, NEW n, NEW k \in 0 .. Len(config.areas), Reach(n, k)
  PROVE  Level(n) = k
<1>1. Len(config.areas) \in Nat /\ k \in Nat
  BY ConfigFacts
<1>2. {i \in 1 .. Len(config.areas) : Ancestry(n)[i] # None} = 1 .. k
  BY <1>1 DEF Reach
<1>3. Cardinality(1 .. k) = k
  BY <1>1, FS_Interval
<1> QED
  BY <1>2, <1>3 DEF Level

(* ... and without cycles it ends, below the number of areas.                 *)
LEMMA LevelReached ==
  ASSUME config \in Config, Accepted, NEW n \in Listed
  PROVE  Level(n) \in 0 .. Len(config.areas) - 1 /\ Reach(n, Level(n))
<1> DEFINE L == Len(config.areas)
           an == Ancestry(n)
           S == {i \in 0 .. L : an[i] = None}
<1>1. L \in Nat /\ an[L] = None /\ an[0] = n /\ n # None
  BY ConfigFacts, AreaFacts, AncestryFacts, ConfigAssumption DEF Accepted, DesugarFails, InCycle
<1>2. PICK m \in S : \A j \in S : m <= j
  <2>1. L \in S /\ S \subseteq Nat
    BY <1>1
  <2> HIDE DEF S
  <2> QED
    BY <2>1, Least
<1>3. m \in 1 .. L /\ m - 1 \in 0 .. L - 1
  BY <1>1, <1>2
<1>4. \A j \in m .. L : an[j] = None
  BY <1>2, NoneStays
<1>5. Reach(n, m - 1)
  <2> SUFFICES ASSUME NEW i \in 1 .. L
               PROVE  an[i] # None <=> i <= m - 1
    BY DEF Reach
  <2>1. CASE i <= m - 1
    BY <1>2, <1>3, <2>1
  <2>2. CASE ~(i <= m - 1)
    <3>1. i \in m .. L
      BY <1>1, <1>3, <2>2
    <3> QED
      BY <1>4, <2>2, <3>1
  <2> QED
    BY <2>1, <2>2
<1>6. m - 1 \in 0 .. L
  BY <1>1, <1>3
<1> QED
  BY <1>3, <1>5, <1>6, ReachLevel

(* The way up from an area is that from the area above, one later.            *)
LEMMA AncestryShift ==
  ASSUME config \in Config, NEW n
  PROVE  \A i \in 1 .. Len(config.areas) : Ancestry(n)[i] = Ancestry(Above(n))[i - 1]
<1> DEFINE L == Len(config.areas)
           a == Ancestry(n)
           b == Ancestry(Above(n))
           S == {d \in Nat : d + 1 <= L => a[d + 1] = b[d]}
<1>1. L \in Nat
  BY ConfigFacts
<1> HIDE DEF a, b
<1>2. a[0] = n /\ b[0] = Above(n)
  BY AncestryFacts DEF a, b
<1>3. \A i \in 1 .. L : a[i] = Above(a[i - 1]) /\ b[i] = Above(b[i - 1])
  BY AncestryFacts DEF a, b
<1>4. 0 \in S
  <2>1. ASSUME 0 + 1 <= L
        PROVE  a[0 + 1] = b[0]
    <3>1. 1 \in 1 .. L
      BY <1>1, <2>1
    <3> QED
      BY <1>2, <1>3, <3>1
  <2> QED
    BY <2>1
<1>5. ASSUME NEW d \in Nat, d \in S
      PROVE  d + 1 \in S
  <2> SUFFICES ASSUME (d + 1) + 1 <= L
               PROVE  a[(d + 1) + 1] = b[d + 1]
    OBVIOUS
  <2>1. (d + 1) + 1 \in 1 .. L /\ d + 1 \in 1 .. L /\ ((d + 1) + 1) - 1 = d + 1 /\ (d + 1) - 1 = d
    BY <1>1
  <2>2. a[d + 1] = b[d]
    BY <1>1, <1>5
  <2>3. a[(d + 1) + 1] = Above(a[d + 1])
    BY <1>3, <2>1
  <2>4. b[d + 1] = Above(b[d])
    BY <1>3, <2>1
  <2> QED
    BY <2>2, <2>3, <2>4
<1>6. Nat \subseteq S
  <2> HIDE DEF S
  <2> QED
    BY <1>4, <1>5, Induction
<1>7. ASSUME NEW i \in 1 .. L
      PROVE  a[i] = b[i - 1]
  <2>1. i - 1 \in Nat /\ (i - 1) + 1 = i
    BY <1>1
  <2>2. i - 1 \in S
    BY <1>6, <2>1
  <2> QED
    BY <1>1, <2>1, <2>2
<1> QED
  BY <1>7 DEF a, b

(* An area is one level above the area it inherits from.                      *)
LEMMA LevelAbove ==
  ASSUME config \in Config, Accepted, NEW n \in Listed, Inherits(AreaNamed(n))
  PROVE  AreaNamed(n).parent \in Listed /\ Level(n) = Level(AreaNamed(n).parent) + 1
<1> DEFINE L == Len(config.areas)
           p == AreaNamed(n).parent
<1>1. p \in Listed /\ Above(n) = p
  BY AreaFacts DEF Accepted, DesugarFails, Above
<1>2. Level(p) \in 0 .. L - 1 /\ Reach(p, Level(p)) /\ L \in Nat
  BY <1>1, LevelReached, ConfigFacts
<1>3. Ancestry(p)[0] # None
  BY <1>1, AncestryFacts, AreaFacts, ConfigAssumption
<1>4. Reach(n, Level(p) + 1)
  <2> SUFFICES ASSUME NEW i \in 1 .. L
               PROVE  Ancestry(n)[i] # None <=> i <= Level(p) + 1
    BY DEF Reach
  <2>1. Ancestry(n)[i] = Ancestry(p)[i - 1]
    BY <1>1, AncestryShift
  <2>2. CASE i = 1
    BY <1>2, <1>3, <2>1, <2>2
  <2>3. CASE i # 1
    <3>1. i - 1 \in 1 .. L
      BY <2>3
    <3>2. Ancestry(p)[i - 1] # None <=> i - 1 <= Level(p)
      BY <1>2, <3>1 DEF Reach
    <3> HIDE DEF p
    <3> QED
      BY <1>2, <2>1, <3>2
  <2> QED
    BY <2>2, <2>3
<1>5. Level(p) + 1 \in 0 .. L
  BY <1>2
<1> QED
  BY <1>1, <1>4, <1>5, ReachLevel

------------------------------------------------------------------------------
(* The groups that areas expand to.                                           *)

(* leaf_id: the leaves of an area are numbered apart.                         *)
LEMMA LeafIdFacts ==
  ASSUME config \in Config, NEW n \in Listed
  PROVE  /\ LeafIds(n) \in Seq(Id) /\ Len(LeafIds(n)) \in Nat \ {0}
         /\ DOMAIN LeafIds(n) = 1 .. Len(LeafIds(n))
         /\ \A i \in DOMAIN LeafIds(n) : LeafIds(n)[i] \in {Plain(n)} \cup {Leaf(n, j) : j \in Nat}
         /\ \A i, j \in DOMAIN LeafIds(n) : LeafIds(n)[i] = LeafIds(n)[j] => i = j
<1>1. n \in Name /\ AreaNamed(n).approaches \in Nat
  BY AreaFacts DEF AreaEntry
<1>2. Plain(n) \in Id /\ \A i \in Nat : Leaf(n, i) \in Id
  BY <1>1 DEF Plain, Leaf, Id
<1>3. CASE AreaNamed(n).approaches <= 1
  <2>1. LeafIds(n) = <<Plain(n)>>
    BY <1>3 DEF LeafIds
  <2> QED
    BY <1>2, <2>1
<1>4. CASE ~(AreaNamed(n).approaches <= 1)
  <2> DEFINE k == AreaNamed(n).approaches
  <2>1. LeafIds(n) = [i \in 1 .. k |-> Leaf(n, i)] /\ k \in Nat /\ k # 0
    BY <1>1, <1>4 DEF LeafIds
  <2> HIDE DEF k
  <2>2. \A i, j \in 1 .. k : Leaf(n, i) = Leaf(n, j) => i = j
    BY DEF Leaf
  <2>3. \A i \in 1 .. k : Leaf(n, i) \in Id /\ i \in Nat
    BY <1>2, <2>1
  <2>4. DOMAIN LeafIds(n) = 1 .. k /\ \A i \in 1 .. k : LeafIds(n)[i] = Leaf(n, i)
    BY <2>1
  <2>5. LeafIds(n) \in Seq(Id) /\ Len(LeafIds(n)) = k
    BY <2>1, <2>3
  <2> QED
    BY <2>1, <2>2, <2>3, <2>4, <2>5
<1> QED
  BY <1>3, <1>4

(* result_node: the collapse of an area or the area itself.                   *)
LEMMA ResultNodeFacts ==
  ASSUME NEW n \in Name
  PROVE  ResultNode(n) \in Id /\ ResultNode(n) \in {Plain(n), Collapse(n)}
BY DEF ResultNode, Collapse, Plain, Id

(* The groups of an area are well formed.                                     *)
LEMMA LeafGroupFacts ==
  ASSUME config \in Config, NEW n \in Listed
  PROVE  /\ \A id \in ToSet(LeafIds(n)) : LeafGroup(n, id) \in Group
         /\ CollapseGroup(n) \in Group
<1>1. /\ n \in Name /\ AreaNamed(n).task \in {"experiment", "merge"} /\ AreaNamed(n).combine \in BOOLEAN
      /\ AreaNamed(n).parent \in Name \cup {None}
  BY AreaFacts DEF AreaEntry
<1>2. LeafParent(AreaNamed(n)) \in Id \cup {None}
  <2>1. \A p \in Name : Plain(p) \in Id
    BY DEF Plain, Id
  <2> QED
    BY <1>1, <2>1, ResultNodeFacts DEF LeafParent, Inherits
<1>3. LeafIds(n) \in Seq(Id) /\ ToSet(LeafIds(n)) \subseteq Id
  BY LeafIdFacts DEF ToSet
<1>4. Collapse(n) \in Id /\ <<>> \in Seq(Id)
  BY <1>1 DEF Collapse, Id
<1> QED
  BY <1>1, <1>2, <1>3, <1>4 DEF LeafGroup, CollapseGroup, Group

(* The groups of an area, and that no two have the same id.                   *)
Members(n) ==
  {LeafGroup(n, id) : id \in ToSet(LeafIds(n))}
  \cup (IF AreaNamed(n).approaches <= 1 THEN {} ELSE {CollapseGroup(n)})

(* An area expands to its members, each with an id of its own.                *)
LEMMA ExpandFacts ==
  ASSUME config \in Config, NEW n \in Listed
  PROVE  /\ Expand(n) \in Seq(Group)
         /\ ToSet(Expand(n)) = Members(n)
         /\ \A g \in Members(n) : g \in Group /\ g.area = n /\ g.id[1] = n
         /\ \A i, j \in 1 .. Len(Expand(n)) : Expand(n)[i].id = Expand(n)[j].id => i = j
<1> DEFINE leaves == [i \in DOMAIN LeafIds(n) |-> LeafGroup(n, LeafIds(n)[i])]
           tail == IF AreaNamed(n).approaches <= 1 THEN <<>> ELSE <<CollapseGroup(n)>>
           k == Len(LeafIds(n))
<1>1. /\ k \in Nat /\ DOMAIN LeafIds(n) = 1 .. k
      /\ \A i \in 1 .. k : LeafIds(n)[i] \in ToSet(LeafIds(n))
  BY LeafIdFacts DEF ToSet
<1>2. /\ leaves \in Seq(Group) /\ Len(leaves) = k
      /\ \A i \in 1 .. k : leaves[i] = LeafGroup(n, LeafIds(n)[i])
  <2>1. \A i \in 1 .. k : LeafGroup(n, LeafIds(n)[i]) \in Group
    BY <1>1, LeafGroupFacts
  <2>2. leaves = [i \in 1 .. k |-> LeafGroup(n, LeafIds(n)[i])]
    BY <1>1
  <2> HIDE DEF leaves, k
  <2> QED
    BY <1>1, <2>1, <2>2
<1>3. tail \in Seq(Group) /\ Len(tail) \in {0, 1}
  BY LeafGroupFacts
<1>4. Expand(n) = leaves \o tail
  BY DEF Expand
<1> HIDE DEF leaves
<1>5. Expand(n) \in Seq(Group) /\ Len(Expand(n)) = k + Len(tail)
  BY <1>1, <1>2, <1>3, <1>4
<1>6. \A i \in 1 .. Len(Expand(n)) :
        \/ i \in 1 .. k /\ Expand(n)[i] = LeafGroup(n, LeafIds(n)[i])
        \/ i = k + 1 /\ ~(AreaNamed(n).approaches <= 1) /\ Expand(n)[i] = CollapseGroup(n)
  BY <1>1, <1>2, <1>3, <1>4, <1>5
<1>7. /\ \A i \in 1 .. k : i \in 1 .. Len(Expand(n)) /\ Expand(n)[i] = LeafGroup(n, LeafIds(n)[i])
      /\ ~(AreaNamed(n).approaches <= 1) =>
           k + 1 \in 1 .. Len(Expand(n)) /\ Expand(n)[k + 1] = CollapseGroup(n)
  BY <1>1, <1>2, <1>3, <1>4, <1>5
<1>8. DOMAIN Expand(n) = 1 .. Len(Expand(n))
  BY <1>5
<1>9. \A id \in ToSet(LeafIds(n)) : \E i \in 1 .. k : id = LeafIds(n)[i]
  BY <1>1 DEF ToSet
<1> HIDE DEF k, tail
<1>10. ToSet(Expand(n)) \subseteq Members(n)
  BY <1>1, <1>6, <1>8 DEF ToSet, Members
<1>11. Members(n) \subseteq ToSet(Expand(n))
  BY <1>7, <1>8, <1>9 DEF ToSet, Members
<1>12. ASSUME NEW id \in ToSet(LeafIds(n))
       PROVE  /\ LeafGroup(n, id) \in Group /\ LeafGroup(n, id).area = n /\ LeafGroup(n, id).id[1] = n
              /\ LeafGroup(n, id).id = id /\ id # Collapse(n)
  BY <1>1, <1>9, LeafGroupFacts, LeafIdFacts DEF LeafGroup, Plain, Leaf, Collapse
<1>13. /\ CollapseGroup(n) \in Group /\ CollapseGroup(n).area = n /\ CollapseGroup(n).id[1] = n
       /\ CollapseGroup(n).id = Collapse(n)
  BY LeafGroupFacts DEF CollapseGroup, Collapse
<1>14. \A g \in Members(n) : g \in Group /\ g.area = n /\ g.id[1] = n
  BY <1>12, <1>13 DEF Members
<1>15. \A i, j \in 1 .. Len(Expand(n)) : Expand(n)[i].id = Expand(n)[j].id => i = j
  BY <1>1, <1>6, <1>12, <1>13, LeafIdFacts
<1> QED
  BY <1>5, <1>10, <1>11, <1>14, <1>15

(* The elements of a sequence are the values at its places.                   *)
LEMMA ElementsAt ==
  ASSUME NEW S, NEW s \in Seq(S)
  PROVE  /\ DOMAIN s = 1 .. Len(s) /\ Len(s) \in Nat /\ ToSet(s) \subseteq S
         /\ \A x : x \in ToSet(s) <=> \E i \in 1 .. Len(s) : x = s[i]
BY DEF ToSet

(* All areas expand to all members, ids still apart: an id holds its area.    *)
LEMMA ExpandedFacts ==
  ASSUME config \in Config
  PROVE  /\ Expanded \in Seq(Group)
         /\ \A g : g \in ToSet(Expanded) <=> \E n \in Listed : g \in Members(n)
         /\ \A i, j \in 1 .. Len(Expanded) : Expanded[i].id = Expanded[j].id => i = j
<1> DEFINE L == Len(config.areas)
           ss == [i \in DOMAIN config.areas |-> Expand(Names[i])]
<1>1. /\ L \in Nat /\ DOMAIN config.areas = 1 .. L
      /\ \A i \in 1 .. L : Names[i] \in Listed
      /\ \A i, j \in 1 .. L : Names[i] = Names[j] => i = j
      /\ \A n \in Listed : \E i \in 1 .. L : n = Names[i]
  BY ConfigFacts, AreaFacts
<1>2. ss \in Seq(Seq(Group)) /\ Len(ss) = L /\ \A i \in 1 .. L : ss[i] = Expand(Names[i])
  <2>1. \A i \in 1 .. L : Expand(Names[i]) \in Seq(Group)
    BY <1>1, ExpandFacts
  <2>2. ss = [i \in 1 .. L |-> Expand(Names[i])]
    BY <1>1
  <2> HIDE DEF ss, L
  <2> QED
    BY <1>1, <2>1, <2>2
<1>3. Expanded = FlattenSeq(ss)
  BY DEF Expanded
<1> HIDE DEF ss, L
<1>4. PICK row, col : Places(Expanded, ss, L, row, col)
  BY <1>2, <1>3, FlattenPlaces
<1>5. Expanded \in Seq(Group)
  BY <1>2, <1>3, FlattenPlaces
<1> DEFINE m == Len(Expanded)
<1>6. /\ \A k \in 1 .. m : row[k] \in 1 .. L /\ col[k] \in 1 .. Len(Expand(Names[row[k]]))
                           /\ Expanded[k] = Expand(Names[row[k]])[col[k]]
      /\ \A k, l \in 1 .. m : k < l => row[k] < row[l] \/ (row[k] = row[l] /\ col[k] < col[l])
      /\ \A i \in 1 .. L : \A j \in 1 .. Len(Expand(Names[i])) : \E k \in 1 .. m : row[k] = i /\ col[k] = j
  <2>1. /\ row \in [1 .. m -> 1 .. L]
        /\ \A k \in 1 .. m : col[k] \in 1 .. Len(ss[row[k]]) /\ Expanded[k] = ss[row[k]][col[k]]
        /\ \A k, l \in 1 .. m : k < l => row[k] < row[l] \/ (row[k] = row[l] /\ col[k] < col[l])
        /\ \A i \in 1 .. L : \A j \in 1 .. Len(ss[i]) : \E k \in 1 .. m : row[k] = i /\ col[k] = j
    BY <1>4 DEF Places
  <2>2. \A k \in 1 .. m : row[k] \in 1 .. L /\ ss[row[k]] = Expand(Names[row[k]])
    BY <1>2, <2>1
  <2> QED
    BY <1>2, <2>1, <2>2
<1>7. ASSUME NEW g
      PROVE  g \in ToSet(Expanded) <=> \E n \in Listed : g \in Members(n)
  <2>1. g \in ToSet(Expanded) <=> \E k \in 1 .. m : g = Expanded[k]
    BY <1>5, ElementsAt
  <2>2. \A n \in Listed : g \in Members(n) <=> \E j \in 1 .. Len(Expand(n)) : g = Expand(n)[j]
    <3> SUFFICES ASSUME NEW n \in Listed
                 PROVE  g \in Members(n) <=> \E j \in 1 .. Len(Expand(n)) : g = Expand(n)[j]
      OBVIOUS
    <3>1. Expand(n) \in Seq(Group) /\ ToSet(Expand(n)) = Members(n)
      BY ExpandFacts
    <3> QED
      BY <3>1, ElementsAt
  <2> HIDE DEF m
  <2>3. ASSUME NEW k \in 1 .. m, g = Expanded[k]
        PROVE  \E n \in Listed : g \in Members(n)
    <3>1. Names[row[k]] \in Listed
      BY <1>1, <1>6
    <3> QED
      BY <1>6, <2>2, <2>3, <3>1
  <2>4. ASSUME NEW n \in Listed, g \in Members(n)
        PROVE  \E k \in 1 .. m : g = Expanded[k]
    <3>1. PICK i \in 1 .. L : n = Names[i]
      BY <1>1
    <3>2. PICK j \in 1 .. Len(Expand(n)) : g = Expand(n)[j]
      BY <2>2, <2>4
    <3>3. PICK k \in 1 .. m : row[k] = i /\ col[k] = j
      BY <1>6, <3>1, <3>2
    <3> QED
      BY <1>6, <3>1, <3>2, <3>3
  <2> QED
    BY <2>1, <2>3, <2>4
<1>8. ASSUME NEW k \in 1 .. m, NEW l \in 1 .. m, Expanded[k].id = Expanded[l].id
      PROVE  k = l
  <2> HIDE DEF m
  <2>1. ASSUME NEW x \in 1 .. m
        PROVE  Expanded[x].id[1] = Names[row[x]]
    <3>1. Names[row[x]] \in Listed
      BY <1>1, <1>6
    <3>2. Expanded[x] \in Members(Names[row[x]])
      <4>1. ToSet(Expand(Names[row[x]])) = Members(Names[row[x]]) /\ Expand(Names[row[x]]) \in Seq(Group)
        BY <3>1, ExpandFacts
      <4>2. PICK s : s = Expand(Names[row[x]])
        OBVIOUS
      <4>3. col[x] \in 1 .. Len(s) /\ Expanded[x] = s[col[x]]
        BY <1>6, <4>2
      <4>4. Expanded[x] \in ToSet(s)
        BY <4>1, <4>2, <4>3, ElementsAt
      <4> QED
        BY <4>1, <4>2, <4>4
    <3> QED
      BY <3>1, <3>2, ExpandFacts
  <2>2. Names[row[k]] = Names[row[l]]
    BY <1>8, <2>1
  <2>3. row[k] = row[l]
    BY <1>1, <1>6, <2>2
  <2>4. Names[row[k]] \in Listed
    BY <1>1, <1>6
  <2>5. col[k] = col[l]
    <3>1. PICK s : s = Expand(Names[row[k]])
      OBVIOUS
    <3>2. /\ col[k] \in 1 .. Len(s) /\ Expanded[k] = s[col[k]]
          /\ col[l] \in 1 .. Len(s) /\ Expanded[l] = s[col[l]]
      BY <1>6, <2>3, <3>1
    <3>3. \A i, j \in 1 .. Len(s) : s[i].id = s[j].id => i = j
      BY <2>4, <3>1, ExpandFacts
    <3> QED
      BY <1>8, <3>2, <3>3
  <2>6. row[k] \in Int /\ row[l] \in Int /\ col[k] \in Int /\ col[l] \in Int
    BY <1>6
  <2>7. ~(k < l) /\ ~(l < k)
    BY <1>6, <2>3, <2>5, <2>6
  <2>8. m \in Nat
    BY <1>5 DEF m
  <2> QED
    BY <2>7, <2>8
<1> QED
  BY <1>5, <1>7, <1>8

(* The areas a final merge is made of.                                        *)
LEMMA FinalAreasFacts ==
  ASSUME config \in Config
  PROVE  /\ FinalAreas \in Seq(Name)
         /\ config.combineAreas # <<>> => FinalAreas = config.combineAreas
         /\ config.combineAreas = <<>> =>
              /\ \A n : n \in ToSet(FinalAreas) <=> n \in Listed /\ Terminal(n)
              /\ \A i, j \in 1 .. Len(FinalAreas) : FinalAreas[i] = FinalAreas[j] => i = j
<1> DEFINE L == Len(config.areas)
           one(n) == IF Terminal(n) THEN <<n>> ELSE <<>>
           ss == [i \in DOMAIN config.areas |-> IF Terminal(Names[i]) THEN <<Names[i]>> ELSE <<>>]
<1>1. /\ L \in Nat /\ DOMAIN config.areas = 1 .. L
      /\ \A i \in 1 .. L : Names[i] \in Name /\ Names[i] \in Listed
      /\ \A i, j \in 1 .. L : Names[i] = Names[j] => i = j
      /\ \A n \in Listed : \E i \in 1 .. L : n = Names[i]
      /\ config.combineAreas \in Seq(Name)
  BY ConfigFacts, AreaFacts
<1>2. ss \in Seq(Seq(Name)) /\ Len(ss) = L /\ \A i \in 1 .. L : ss[i] = one(Names[i])
  <2>1. \A i \in 1 .. L : one(Names[i]) \in Seq(Name)
    BY <1>1
  <2>2. ss = [i \in 1 .. L |-> one(Names[i])]
    BY <1>1
  <2> HIDE DEF ss, L, one
  <2> QED
    BY <1>1, <2>1, <2>2
<1>3. CASE config.combineAreas # <<>>
  BY <1>1, <1>3 DEF FinalAreas
<1>4. CASE config.combineAreas = <<>>
  <2>1. FinalAreas = FlattenSeq(ss)
    BY <1>4 DEF FinalAreas
  <2>2. \A n : /\ Terminal(n) => Len(one(n)) = 1 /\ one(n)[1] = n
               /\ ~Terminal(n) => Len(one(n)) = 0
    OBVIOUS
  <2> HIDE DEF ss, L, one
  <2>3. FinalAreas \in Seq(Name) /\ \E row, col : Places(FinalAreas, ss, L, row, col)
    BY <1>2, <2>1, FlattenPlaces
  <2>4. PICK row, col : Places(FinalAreas, ss, L, row, col)
    BY <2>3
  <2> DEFINE m == Len(FinalAreas)
  <2>5. /\ \A k \in 1 .. m : row[k] \in 1 .. L /\ col[k] \in 1 .. Len(one(Names[row[k]]))
                             /\ FinalAreas[k] = one(Names[row[k]])[col[k]]
        /\ \A k, l \in 1 .. m : k < l => row[k] < row[l] \/ (row[k] = row[l] /\ col[k] < col[l])
        /\ \A i \in 1 .. L : \A j \in 1 .. Len(one(Names[i])) : \E k \in 1 .. m : row[k] = i /\ col[k] = j
    <3>1. /\ row \in [1 .. m -> 1 .. L]
          /\ \A k \in 1 .. m : col[k] \in 1 .. Len(ss[row[k]]) /\ FinalAreas[k] = ss[row[k]][col[k]]
          /\ \A k, l \in 1 .. m : k < l => row[k] < row[l] \/ (row[k] = row[l] /\ col[k] < col[l])
          /\ \A i \in 1 .. L : \A j \in 1 .. Len(ss[i]) : \E k \in 1 .. m : row[k] = i /\ col[k] = j
      BY <2>4 DEF Places
    <3>2. \A k \in 1 .. m : row[k] \in 1 .. L /\ ss[row[k]] = one(Names[row[k]])
      BY <1>2, <3>1
    <3> QED
      <4>1. \A k \in 1 .. m : col[k] \in 1 .. Len(one(Names[row[k]])) /\ FinalAreas[k] = one(Names[row[k]])[col[k]]
        BY <3>1, <3>2
      <4>2. \A i \in 1 .. L : ss[i] = one(Names[i])
        BY <1>2
      <4>3. ASSUME NEW i \in 1 .. L, NEW j \in 1 .. Len(one(Names[i]))
            PROVE  \E k \in 1 .. m : row[k] = i /\ col[k] = j
        <5>1. j \in 1 .. Len(ss[i])
          BY <4>2
        <5> QED
          BY <3>1, <5>1
      <4> QED
        BY <3>1, <3>2, <4>1, <4>3
  <2>6. \A k \in 1 .. m : Terminal(Names[row[k]]) /\ col[k] = 1 /\ FinalAreas[k] = Names[row[k]]
    BY <2>2, <2>5
  <2> HIDE DEF m
  <2>7. ASSUME NEW n
        PROVE  n \in ToSet(FinalAreas) <=> n \in Listed /\ Terminal(n)
    <3>1. n \in ToSet(FinalAreas) <=> \E k \in 1 .. m : n = FinalAreas[k]
      BY <2>3, ElementsAt DEF m
    <3>2. ASSUME n \in Listed, Terminal(n)
          PROVE  \E k \in 1 .. m : n = FinalAreas[k]
      <4>1. PICK i \in 1 .. L : n = Names[i]
        BY <1>1, <3>2
      <4>2. 1 \in 1 .. Len(one(Names[i]))
        BY <2>2, <3>2, <4>1
      <4>3. PICK k \in 1 .. m : row[k] = i
        BY <2>5, <4>2
      <4> QED
        BY <2>6, <4>1, <4>3
    <3> QED
      BY <1>1, <2>5, <2>6, <3>1, <3>2
  <2>8. ASSUME NEW k \in 1 .. m, NEW l \in 1 .. m, FinalAreas[k] = FinalAreas[l]
        PROVE  k = l
    <3>1. row[k] = row[l] /\ row[k] \in Int /\ col[k] = 1 /\ col[l] = 1
      <4>1. Names[row[k]] = Names[row[l]] /\ row[k] \in 1 .. L /\ row[l] \in 1 .. L
        BY <2>5, <2>6, <2>8
      <4> QED
        BY <1>1, <2>6, <4>1
    <3>2. ~(k < l) /\ ~(l < k)
      BY <2>5, <3>1
    <3>3. m \in Nat
      BY <2>3 DEF m
    <3> QED
      BY <3>2, <3>3
  <2> QED
    BY <1>4, <2>3, <2>7, <2>8 DEF m
<1> QED
  BY <1>3, <1>4

(* The final merge draws from the results of the final areas, if two or more. *)
LEMMA FinalMergeFacts ==
  ASSUME config \in Config
  PROVE  /\ FinalGroup \in Group /\ FinalGroup.id = FinalId
         /\ FinalGroup.draws \in Seq(Id) /\ ToSet(FinalGroup.draws) = {ResultNode(n) : n \in ToSet(FinalAreas)}
         /\ Len(FinalAreas) < 2 => FinalMerge = <<>>
         /\ ~(Len(FinalAreas) < 2) => FinalMerge = <<FinalGroup>>
<1>1. FinalAreas \in Seq(Name)
  BY FinalAreasFacts
<1> DEFINE k == Len(FinalAreas)
           draws == [i \in DOMAIN FinalAreas |-> ResultNode(FinalAreas[i])]
<1>2. k \in Nat /\ DOMAIN FinalAreas = 1 .. k /\ \A i \in 1 .. k : FinalAreas[i] \in Name
  BY <1>1, ElementsAt
<1>3. \A i \in 1 .. k : ResultNode(FinalAreas[i]) \in Id
  BY <1>2, ResultNodeFacts
<1>4. draws = [i \in 1 .. k |-> ResultNode(FinalAreas[i])]
  BY <1>2
<1>5. \A n : n \in ToSet(FinalAreas) <=> \E i \in 1 .. k : n = FinalAreas[i]
  BY <1>1, ElementsAt
<1>6. FinalGroup = [id |-> FinalId, task |-> "merge", parent |-> None, draws |-> draws,
                    select |-> FALSE, area |-> "final_merge", role |-> "final_merge"]
  BY DEF FinalGroup
<1> HIDE DEF draws, k
<1>7. draws \in Seq(Id) /\ Len(draws) = k /\ \A i \in 1 .. k : draws[i] = ResultNode(FinalAreas[i])
  BY <1>2, <1>3, <1>4
<1>8. \A x : x \in ToSet(draws) <=> \E i \in 1 .. k : x = draws[i]
  BY <1>7, ElementsAt
<1>9. ToSet(draws) = {ResultNode(n) : n \in ToSet(FinalAreas)}
  BY <1>5, <1>7, <1>8
<1>10. FinalId \in Id
  BY DEF Id
<1>11. FinalGroup \in Group
  BY <1>6, <1>7, <1>10 DEF Group
<1> QED
  BY <1>6, <1>7, <1>9, <1>11 DEF FinalMerge

(* The groups of a fanned-out study, and that an id stands for one of them.   *)
Made(g) == (\E n \in Listed : g \in Members(n)) \/ (~(Len(FinalAreas) < 2) /\ g = FinalGroup)

(* The groups of an expanded study: the members of the areas and the final    *)
(* merge.                                                                     *)
LEMMA DerivedGroups ==
  ASSUME config \in Config, groups = Expanded \o FinalMerge
  PROVE  /\ groups \in Seq(Group)
         /\ \A g : g \in ToSet(groups) <=> Made(g)
         /\ \A i, j \in 1 .. Len(groups) : groups[i].id = groups[j].id => i = j
<1>1. /\ Expanded \in Seq(Group)
      /\ \A g : g \in ToSet(Expanded) <=> \E n \in Listed : g \in Members(n)
      /\ \A i, j \in 1 .. Len(Expanded) : Expanded[i].id = Expanded[j].id => i = j
  BY ExpandedFacts
<1>2. CASE Len(FinalAreas) < 2
  <2>1. groups = Expanded
    BY <1>1, <1>2, FinalMergeFacts
  <2> QED
    BY <1>1, <1>2, <2>1 DEF Made
<1>3. CASE ~(Len(FinalAreas) < 2)
  <2> DEFINE m == Len(Expanded)
  <2>1. FinalMerge = <<FinalGroup>> /\ FinalGroup \in Group
    BY <1>3, FinalMergeFacts
  <2>2. /\ groups \in Seq(Group) /\ Len(groups) = m + 1 /\ m \in Nat
        /\ \A i \in 1 .. m : groups[i] = Expanded[i]
        /\ groups[m + 1] = FinalGroup
    BY <1>1, <2>1
  <2> HIDE DEF m
  <2>3. ASSUME NEW g
        PROVE  g \in ToSet(groups) <=> Made(g)
    <3>1. /\ g \in ToSet(groups) <=> \E i \in 1 .. m + 1 : g = groups[i]
          /\ g \in ToSet(Expanded) <=> \E i \in 1 .. m : g = Expanded[i]
      <4>1. g \in ToSet(groups) <=> \E i \in 1 .. Len(groups) : g = groups[i]
        BY <2>2, ElementsAt
      <4>2. g \in ToSet(Expanded) <=> \E i \in 1 .. Len(Expanded) : g = Expanded[i]
        BY <1>1, ElementsAt
      <4> QED
        BY <2>2, <4>1, <4>2 DEF m
    <3>2. (\E i \in 1 .. m + 1 : g = groups[i]) <=> (\E i \in 1 .. m : g = groups[i]) \/ g = groups[m + 1]
      <4>1. m \in Nat
        BY <2>2
      <4>2. \A i : i \in 1 .. m + 1 <=> i \in 1 .. m \/ i = m + 1
        BY <4>1
      <4> QED
        BY <4>2
    <3> QED
      BY <1>1, <1>3, <2>2, <3>1, <3>2 DEF Made
  <2>4. \A i \in 1 .. m : groups[i].id # groups[m + 1].id
    <3> SUFFICES ASSUME NEW i \in 1 .. m
                 PROVE  groups[i].id # groups[m + 1].id
      OBVIOUS
    <3>1. Expanded[i] \in ToSet(Expanded)
      BY <1>1, ElementsAt DEF m
    <3>2. PICK n \in Listed : Expanded[i] \in Members(n)
      BY <1>1, <3>1
    <3>3. Expanded[i].id[1] = n /\ n \in Name
      BY <3>2, ExpandFacts, AreaFacts
    <3>4. FinalGroup.id[1] = "final_merge"
      BY FinalMergeFacts DEF FinalId
    <3>5. "final_merge" \notin Name
      BY ConfigAssumption
    <3> QED
      BY <2>2, <3>3, <3>4, <3>5
  <2>5. \A i, j \in 1 .. Len(groups) : groups[i].id = groups[j].id => i = j
    <3> SUFFICES ASSUME NEW i \in 1 .. m + 1, NEW j \in 1 .. m + 1, groups[i].id = groups[j].id
                 PROVE  i = j
      BY <2>2
    <3>1. CASE i \in 1 .. m /\ j \in 1 .. m
      BY <1>1, <2>2, <3>1 DEF m
    <3>2. CASE ~(i \in 1 .. m /\ j \in 1 .. m)
      <4>1. (i = m + 1 \/ i \in 1 .. m) /\ (j = m + 1 \/ j \in 1 .. m)
        BY <2>2
      <4> QED
        BY <2>4, <3>2, <4>1
    <3> QED
      BY <3>1, <3>2
  <2> QED
    BY <2>2, <2>3, <2>5
<1> QED
  BY <1>2, <1>3

(* With ids apart, a group is found by its id.                                *)
LEMMA UniqueIds ==
  ASSUME groups \in Seq(Group), \A i, j \in 1 .. Len(groups) : groups[i].id = groups[j].id => i = j
  PROVE  /\ \A g \in ToSet(groups) : g.id \in Ids /\ GroupWith(g.id) = g
         /\ \A x \in Ids : GroupWith(x) \in ToSet(groups) /\ GroupWith(x).id = x
         /\ Ids \subseteq Id /\ IsFiniteSet(Ids) /\ Cardinality(Ids) = Len(groups)
<1>1. /\ DOMAIN groups = 1 .. Len(groups) /\ Len(groups) \in Nat
      /\ \A g : g \in ToSet(groups) <=> \E i \in 1 .. Len(groups) : g = groups[i]
  BY ElementsAt
<1>2. ASSUME NEW g \in ToSet(groups)
      PROVE  g.id \in Ids /\ GroupWith(g.id) = g
  <2>1. PICK i \in 1 .. Len(groups) : g = groups[i]
    BY <1>1
  <2>2. \A h \in ToSet(groups) : h.id = g.id => h = g
    BY <1>1, <2>1
  <2> QED
    BY <1>1, <2>1, <2>2 DEF Ids, GroupWith
<1>3. \A x \in Ids : GroupWith(x) \in ToSet(groups) /\ GroupWith(x).id = x
  BY <1>1, <1>2 DEF Ids
<1>4. Ids \subseteq Id
  <2>1. \A g \in Group : g.id \in Id
    BY DEF Group
  <2>2. \A i \in 1 .. Len(groups) : groups[i] \in Group
    BY <1>1
  <2> QED
    BY <1>1, <2>1, <2>2 DEF Ids
<1>5. IsFiniteSet(Ids) /\ Cardinality(Ids) = Len(groups)
  <2> DEFINE f == [i \in 1 .. Len(groups) |-> groups[i].id]
  <2>1. Ids = {groups[i].id : i \in 1 .. Len(groups)}
    BY <1>1 DEF Ids
  <2>2. ExistsBijection(1 .. Len(groups), Ids)
    <3>1. f \in [1 .. Len(groups) -> Ids] /\ \A i \in 1 .. Len(groups) : f[i] = groups[i].id
      BY <2>1
    <3> HIDE DEF f
    <3>2. \A i, j \in 1 .. Len(groups) : f[i] = f[j] => i = j
      BY <3>1
    <3>3. \A x \in Ids : \E i \in 1 .. Len(groups) : f[i] = x
      BY <2>1, <3>1
    <3>4. DOMAIN f = 1 .. Len(groups)
      BY <3>1
    <3>5. f \in Bijection(1 .. Len(groups), Ids)
      BY <3>1, <3>2, <3>3, <3>4 DEF Bijection, Injection, Surjection, IsInjective
    <3> QED
      BY <3>5 DEF ExistsBijection
  <2>3. PICK n \in Nat : n = Len(groups)
    BY <1>1
  <2>4. ExistsBijection(1 .. n, Ids)
    BY <2>2, <2>3
  <2> HIDE DEF f
  <2> QED
    BY <2>3, <2>4, FS_CountingElements, FS_NatBijection
<1> QED
  BY <1>2, <1>3, <1>4, <1>5

------------------------------------------------------------------------------
(* The waves of a fanned-out study: the lower the rank of a group, the        *)
(* earlier its wave.                                                          *)
Rank(g) ==
  IF g.role = "final_merge" THEN 2 * Len(config.areas)
  ELSE 2 * Level(g.area) + (IF g.role = "collapse" THEN 1 ELSE 0)
RankWave(G, r) == {g.id : g \in {h \in G : Rank(h) = r}}

(* A leaf is in the wave 2 * level, its collapse one later.                   *)
LEMMA MemberRank ==
  ASSUME config \in Config, Accepted, NEW n \in Listed, NEW g \in Members(n)
  PROVE  /\ g.role \in {"leaf", "collapse"} /\ g.area = n
         /\ Level(n) \in 0 .. Len(config.areas) - 1 /\ Len(config.areas) \in Nat
         /\ g.role = "leaf" => Rank(g) = 2 * Level(n)
         /\ g.role = "collapse" => Rank(g) = 2 * Level(n) + 1
         /\ Rank(g) \in Nat /\ Rank(g) < 2 * Len(config.areas)
<1>1. g.role \in {"leaf", "collapse"} /\ g.area = n
  BY DEF Members, LeafGroup, CollapseGroup
<1>2. Level(n) \in 0 .. Len(config.areas) - 1 /\ Len(config.areas) \in Nat
  BY LevelReached, ConfigFacts
<1>3. /\ g.role = "leaf" => Rank(g) = 2 * Level(n)
      /\ g.role = "collapse" => Rank(g) = 2 * Level(n) + 1
  BY <1>1, <1>2 DEF Rank
<1> QED
  BY <1>1, <1>2, <1>3

(* leaf_waves and collapse_waves by rank.                                     *)
LEMMA WaveRanks ==
  ASSUME config \in Config, Accepted, NEW level \in Nat
  PROVE  /\ WaveOf(level, "leaf") = RankWave(ToSet(Expanded), 2 * level)
         /\ WaveOf(level, "collapse") = RankWave(ToSet(Expanded), 2 * level + 1)
<1>1. ASSUME NEW g \in ToSet(Expanded)
      PROVE  /\ g.role = "leaf" /\ Level(g.area) = level <=> Rank(g) = 2 * level
             /\ g.role = "collapse" /\ Level(g.area) = level <=> Rank(g) = 2 * level + 1
  <2>1. PICK n \in Listed : g \in Members(n)
    BY ExpandedFacts
  <2>2. /\ g.role \in {"leaf", "collapse"} /\ g.area = n /\ Level(n) \in Nat
        /\ g.role = "leaf" => Rank(g) = 2 * Level(n)
        /\ g.role = "collapse" => Rank(g) = 2 * Level(n) + 1
    BY <2>1, MemberRank
  <2> QED
    BY <2>2
<1> QED
  BY <1>1, Zenon DEF WaveOf, RankWave

(* Of two waves side by side, either of which may be missing, which comes at  *)
(* the place j.                                                               *)
Which(a, j) == IF a # {} THEN j - 1 ELSE 1

InTurn(T, a, b, both) ==
  /\ both \in Seq(T)
  /\ \A j \in 1 .. Len(both) : /\ Which(a, j) \in {0, 1} /\ both[j] # {}
                               /\ Which(a, j) = 0 => both[j] = a
                               /\ Which(a, j) = 1 => both[j] = b
  /\ \A i, j \in 1 .. Len(both) : i < j => Which(a, i) < Which(a, j)
  /\ a # {} => \E j \in 1 .. Len(both) : Which(a, j) = 0
  /\ b # {} => \E j \in 1 .. Len(both) : Which(a, j) = 1

(* An empty wave is left out.                                                 *)
LEMMA TwoWaves ==
  ASSUME NEW T, NEW a \in T, NEW b \in T
  PROVE  InTurn(T, a, b, WaveIfAny(a) \o WaveIfAny(b))
<1> DEFINE both == WaveIfAny(a) \o WaveIfAny(b)
<1> SUFFICES InTurn(T, a, b, both)
  OBVIOUS
<1>1. both = WaveIfAny(a) \o WaveIfAny(b)
  OBVIOUS
<1> HIDE DEF both
<1>2. CASE a # {} /\ b # {}
  <2>1. both = <<a>> \o <<b>>
    BY <1>1, <1>2 DEF WaveIfAny
  <2>2. both \in Seq(T) /\ Len(both) = 2 /\ both[1] = a /\ both[2] = b
    BY <2>1
  <2>3. Which(a, 1) = 0 /\ Which(a, 2) = 1 /\ 1 .. 2 = {1, 2}
    BY <1>2 DEF Which
  <2> QED
    BY <1>2, <2>2, <2>3 DEF InTurn
<1>3. CASE a # {} /\ b = {}
  <2>1. both = <<a>> \o <<>>
    BY <1>1, <1>3 DEF WaveIfAny
  <2>2. both \in Seq(T) /\ Len(both) = 1 /\ both[1] = a
    BY <2>1
  <2>3. Which(a, 1) = 0 /\ 1 .. 1 = {1}
    BY <1>3 DEF Which
  <2> QED
    BY <1>3, <2>2, <2>3 DEF InTurn
<1>4. CASE a = {} /\ b # {}
  <2>1. both = <<>> \o <<b>>
    BY <1>1, <1>4 DEF WaveIfAny
  <2>2. both \in Seq(T) /\ Len(both) = 1 /\ both[1] = b
    BY <2>1
  <2>3. Which(a, 1) = 1 /\ 1 .. 1 = {1}
    BY <1>4 DEF Which
  <2> QED
    BY <1>4, <2>2, <2>3 DEF InTurn
<1>5. CASE a = {} /\ b = {}
  <2>1. both = <<>> \o <<>>
    BY <1>1, <1>5 DEF WaveIfAny
  <2>2. both \in Seq(T) /\ Len(both) = 0
    BY <2>1
  <2> QED
    BY <1>5, <2>2 DEF InTurn
<1> QED
  BY <1>2, <1>3, <1>4, <1>5

(* Waves in the order of the ranks of their groups, and none that is empty.   *)
Ranked(ws, G, rank) ==
  /\ rank \in [1 .. Len(ws) -> Nat]
  /\ \A k, l \in 1 .. Len(ws) : k < l => rank[k] < rank[l]
  /\ \A k \in 1 .. Len(ws) : ws[k] = RankWave(G, rank[k]) /\ ws[k] # {}
  /\ \A g \in G : \E k \in 1 .. Len(ws) : rank[k] = Rank(g)

(* The waves of the areas put every member in the place of its rank.          *)
LEMMA AreaWavesFacts ==
  ASSUME config \in Config, Accepted
  PROVE  /\ AreaWaves \in Seq(SUBSET Id)
         /\ \E rank : Ranked(AreaWaves, ToSet(Expanded), rank)
<1> DEFINE L == Len(config.areas)
           G == ToSet(Expanded)
           leafWave(i) == WaveOf(i - 1, "leaf")
           collapseWave(i) == WaveOf(i - 1, "collapse")
           ss == [i \in DOMAIN config.areas |-> WaveIfAny(WaveOf(i - 1, "leaf")) \o WaveIfAny(WaveOf(i - 1, "collapse"))]
<1>1. /\ L \in Nat /\ DOMAIN config.areas = 1 .. L
      /\ Expanded \in Seq(Group) /\ G \subseteq Group
  BY ConfigFacts, ExpandedFacts, ElementsAt
<1>2. \A i \in 1 .. L : /\ leafWave(i) = RankWave(G, 2 * (i - 1))
                        /\ collapseWave(i) = RankWave(G, 2 * (i - 1) + 1)
  <2> SUFFICES ASSUME NEW i \in 1 .. L
               PROVE  /\ leafWave(i) = RankWave(G, 2 * (i - 1))
                      /\ collapseWave(i) = RankWave(G, 2 * (i - 1) + 1)
    OBVIOUS
  <2>1. i - 1 \in Nat
    BY <1>1
  <2> QED
    BY <2>1, WaveRanks
<1>3. \A r : RankWave(G, r) \in SUBSET Id
  <2>1. \A g \in Group : g.id \in Id
    BY DEF Group
  <2> QED
    BY <1>1, <2>1 DEF RankWave
<1> HIDE DEF G
<1>4. \A i \in 1 .. L : ss[i] = WaveIfAny(leafWave(i)) \o WaveIfAny(collapseWave(i))
  BY <1>1
<1>5. AreaWaves = FlattenSeq(ss)
  BY DEF AreaWaves
<1>6. ss = [i \in 1 .. L |-> WaveIfAny(leafWave(i)) \o WaveIfAny(collapseWave(i))]
  BY <1>1
<1> HIDE DEF ss, leafWave, collapseWave, L
<1>7. ASSUME NEW i \in 1 .. L
      PROVE  /\ ss[i] \in Seq(SUBSET Id)
             /\ \A j \in 1 .. Len(ss[i]) : /\ Which(leafWave(i), j) \in {0, 1}
                                           /\ ss[i][j] = RankWave(G, 2 * (i - 1) + Which(leafWave(i), j))
                                           /\ ss[i][j] # {}
             /\ \A j, k \in 1 .. Len(ss[i]) : j < k => Which(leafWave(i), j) < Which(leafWave(i), k)
             /\ \A d \in {0, 1} : RankWave(G, 2 * (i - 1) + d) # {} =>
                  \E j \in 1 .. Len(ss[i]) : Which(leafWave(i), j) = d
  <2> DEFINE a == leafWave(i)
             b == collapseWave(i)
             both == ss[i]
  <2>1. a \in SUBSET Id /\ b \in SUBSET Id /\ both = WaveIfAny(a) \o WaveIfAny(b)
    BY <1>2, <1>3, <1>4
  <2>2. i \in Int /\ 2 * (i - 1) + 0 = 2 * (i - 1)
    BY <1>1
  <2>3. a = RankWave(G, 2 * (i - 1) + 0) /\ b = RankWave(G, 2 * (i - 1) + 1)
    BY <1>2, <2>2
  <2> HIDE DEF a, b, both
  <2>4. /\ both \in Seq(SUBSET Id)
        /\ \A j \in 1 .. Len(both) : /\ Which(a, j) \in {0, 1} /\ both[j] # {}
                                     /\ Which(a, j) = 0 => both[j] = a
                                     /\ Which(a, j) = 1 => both[j] = b
        /\ \A j, k \in 1 .. Len(both) : j < k => Which(a, j) < Which(a, k)
        /\ a # {} => \E j \in 1 .. Len(both) : Which(a, j) = 0
        /\ b # {} => \E j \in 1 .. Len(both) : Which(a, j) = 1
    <3> DEFINE T == SUBSET Id
    <3>1. a \in T /\ b \in T
      BY <2>1
    <3> HIDE DEF T
    <3>2. InTurn(T, a, b, WaveIfAny(a) \o WaveIfAny(b))
      BY <3>1, TwoWaves
    <3>3. InTurn(T, a, b, both)
      BY <2>1, <3>2
    <3> QED
      BY <3>3 DEF T, InTurn
  <2>5. \A j \in 1 .. Len(both) : both[j] = RankWave(G, 2 * (i - 1) + Which(a, j))
    BY <2>3, <2>4
  <2>6. \A d \in {0, 1} : RankWave(G, 2 * (i - 1) + d) # {} => \E j \in 1 .. Len(both) : Which(a, j) = d
    BY <2>3, <2>4
  <2> QED
    BY <2>4, <2>5, <2>6 DEF a, both
<1>8. ss \in Seq(Seq(SUBSET Id)) /\ Len(ss) = L
  <2>1. \A i \in 1 .. L : ss[i] \in Seq(SUBSET Id)
    BY <1>7
  <2>2. DOMAIN ss = 1 .. L /\ ss = [i \in 1 .. L |-> ss[i]]
    BY <1>6
  <2> DEFINE T == Seq(SUBSET Id)
  <2>3. L \in Nat /\ \A i \in 1 .. L : ss[i] \in T
    BY <1>1, <2>1
  <2> HIDE DEF T, L, ss
  <2>4. ss \in Seq(T) /\ Len(ss) = L
    BY <2>2, <2>3
  <2> QED
    BY <2>4 DEF T
<1>9. AreaWaves \in Seq(SUBSET Id) /\ \E row, col : Places(AreaWaves, ss, L, row, col)
  BY <1>5, <1>8, FlattenPlaces
<1>10. PICK row, col : Places(AreaWaves, ss, L, row, col)
  BY <1>9
<1> DEFINE m == Len(AreaWaves)
           bit(k) == Which(leafWave(row[k]), col[k])
           rank == [k \in 1 .. m |-> 2 * (row[k] - 1) + bit(k)]
<1>11. /\ \A k \in 1 .. m : row[k] \in 1 .. L /\ col[k] \in 1 .. Len(ss[row[k]]) /\ AreaWaves[k] = ss[row[k]][col[k]]
       /\ \A k, l \in 1 .. m : k < l => row[k] < row[l] \/ (row[k] = row[l] /\ col[k] < col[l])
  BY <1>10 DEF Places
<1>12. \A i \in 1 .. L : \A j \in 1 .. Len(ss[i]) : \E k \in 1 .. m : row[k] = i /\ col[k] = j
  BY <1>10 DEF Places
<1>13. \A k \in 1 .. m : rank[k] = 2 * (row[k] - 1) + bit(k)
  OBVIOUS
<1>14. rank = [k \in 1 .. m |-> rank[k]]
  OBVIOUS
<1> HIDE DEF rank, m
<1>15. \A k \in 1 .. m : bit(k) \in {0, 1} /\ AreaWaves[k] = RankWave(G, rank[k]) /\ AreaWaves[k] # {}
  <2> TAKE k \in 1 .. m
  <2>1. row[k] \in 1 .. L /\ col[k] \in 1 .. Len(ss[row[k]]) /\ AreaWaves[k] = ss[row[k]][col[k]]
    BY <1>11
  <2>2. /\ Which(leafWave(row[k]), col[k]) \in {0, 1} /\ ss[row[k]][col[k]] # {}
        /\ ss[row[k]][col[k]] = RankWave(G, 2 * (row[k] - 1) + Which(leafWave(row[k]), col[k]))
    BY <1>7, <2>1
  <2> QED
    BY <1>13, <2>1, <2>2
<1>16. \A k, l \in 1 .. m : row[k] = row[l] /\ col[k] < col[l] => bit(k) < bit(l)
  BY <1>7, <1>11
<1> HIDE DEF bit
<1>17. \A k \in 1 .. m : rank[k] \in Nat
  BY <1>1, <1>11, <1>13, <1>15
<1>18. \A k, l \in 1 .. m : k < l => rank[k] < rank[l]
  <2> SUFFICES ASSUME NEW k \in 1 .. m, NEW l \in 1 .. m, k < l
               PROVE  rank[k] < rank[l]
    OBVIOUS
  <2>1. /\ row[k] \in Int /\ row[l] \in Int /\ bit(k) \in {0, 1} /\ bit(l) \in {0, 1}
        /\ rank[k] = 2 * (row[k] - 1) + bit(k) /\ rank[l] = 2 * (row[l] - 1) + bit(l)
    BY <1>1, <1>11, <1>13, <1>15
  <2>2. row[k] < row[l] \/ (row[k] = row[l] /\ bit(k) < bit(l))
    BY <1>11, <1>16
  <2> QED
    BY <2>1, <2>2
<1>19. ASSUME NEW g \in G
       PROVE  \E k \in 1 .. m : rank[k] = Rank(g)
  <2>1. PICK n \in Listed : g \in Members(n)
    BY ExpandedFacts DEF G
  <2>2. /\ Level(n) \in 0 .. L - 1 /\ g.role \in {"leaf", "collapse"}
        /\ g.role = "leaf" => Rank(g) = 2 * Level(n)
        /\ g.role = "collapse" => Rank(g) = 2 * Level(n) + 1
    BY <2>1, MemberRank DEF L
  <2>3. PICK i \in 1 .. L, d \in {0, 1} : Rank(g) = 2 * (i - 1) + d
    <3>1. Level(n) + 1 \in 1 .. L /\ (Level(n) + 1) - 1 = Level(n)
      BY <1>1, <2>2
    <3>2. PICK d \in {0, 1} : Rank(g) = 2 * Level(n) + d
      BY <2>2
    <3> QED
      BY <3>1, <3>2
  <2>4. RankWave(G, 2 * (i - 1) + d) # {}
    BY <2>3 DEF RankWave
  <2>5. PICK j \in 1 .. Len(ss[i]) : Which(leafWave(i), j) = d
    BY <1>7, <2>4
  <2>6. PICK k \in 1 .. m : row[k] = i /\ col[k] = j
    BY <1>12
  <2> QED
    BY <1>13, <2>3, <2>5, <2>6 DEF bit
<1>20. Ranked(AreaWaves, G, rank)
  BY <1>14, <1>15, <1>17, <1>18, <1>19 DEF Ranked, m
<1> QED
  BY <1>9, <1>20 DEF G

(* A group that is named once runs where it is named.                         *)
LEMMA PositionOfNamed ==
  ASSUME NamedOnce, NEW w \in DOMAIN waves, NEW id \in waves[w]
  PROVE  Position(id) = w /\ id \in Placed
<1>1. WavesOf(id) = {w}
  BY DEF NamedOnce, WavesOf
<1>2. id \in Placed
  BY DEF Placed, ToSet
<1> QED
  BY <1>1, <1>2 DEF Position

(* What DesugarAreas makes of the file.                                       *)
Derived == groups = Expanded \o FinalMerge /\ waves = DerivedWaves

(* The ranks of all groups; the final merge comes last.                       *)
LEMMA DerivedRanks ==
  ASSUME config \in Config, Accepted, Derived, NEW g \in ToSet(groups)
  PROVE  /\ g \in Group /\ Rank(g) \in Nat
         /\ \/ g.role \in {"leaf", "collapse"} /\ Rank(g) < 2 * Len(config.areas)
               /\ \E n \in Listed : g \in Members(n) /\ g.area = n
            \/ g = FinalGroup /\ g.role = "final_merge" /\ Rank(g) = 2 * Len(config.areas)
               /\ ~(Len(FinalAreas) < 2)
<1>1. g \in Group /\ Made(g)
  BY DerivedGroups, ElementsAt DEF Derived
<1>2. CASE \E n \in Listed : g \in Members(n)
  <2>1. PICK n \in Listed : g \in Members(n)
    BY <1>2
  <2>2. g.role \in {"leaf", "collapse"} /\ Rank(g) \in Nat /\ Rank(g) < 2 * Len(config.areas) /\ g.area = n
    BY <2>1, MemberRank
  <2> QED
    BY <1>1, <2>1, <2>2
<1>3. CASE ~(Len(FinalAreas) < 2) /\ g = FinalGroup
  <2>1. g.role = "final_merge" /\ Len(config.areas) \in Nat
    BY <1>3, ConfigFacts DEF FinalGroup
  <2> QED
    BY <1>1, <1>3, <2>1 DEF Rank
<1> QED
  BY <1>1, <1>2, <1>3 DEF Made

(* The waves of the study put every group in the place of its rank.           *)
LEMMA DerivedWavesFacts ==
  ASSUME config \in Config, Accepted, Derived
  PROVE  /\ waves \in Seq(SUBSET Id)
         /\ \E rank : Ranked(waves, ToSet(groups), rank)
<1> DEFINE L == Len(config.areas)
           m == Len(AreaWaves)
           old == ToSet(Expanded)
           all == ToSet(groups)
           SetOfIds == SUBSET Id
<1>1. AreaWaves \in Seq(SetOfIds) /\ L \in Nat /\ m \in Nat /\ FinalId \in Id
  BY AreaWavesFacts, ConfigFacts DEF Id
<1>2. PICK rank : Ranked(AreaWaves, old, rank)
  BY AreaWavesFacts
<1>3. Expanded \in Seq(Group) /\ \A g : g \in all <=> g \in old \/ (~(Len(FinalAreas) < 2) /\ g = FinalGroup)
  <2>1. \A g : g \in all <=> Made(g)
    BY DerivedGroups DEF Derived
  <2>2. \A g : g \in old <=> \E n \in Listed : g \in Members(n)
    BY ExpandedFacts
  <2> HIDE DEF all, old
  <2> QED
    BY <2>1, <2>2, ExpandedFacts DEF Made
<1>4. groups = Expanded \o FinalMerge /\ waves = AreaWaves \o [i \in DOMAIN FinalMerge |-> {FinalId}]
  BY DEF Derived, DerivedWaves
<1>5. \A g \in all : Rank(g) \in Nat
  BY DerivedRanks
<1> HIDE DEF all, old, m, SetOfIds
<1>6. CASE Len(FinalAreas) < 2
  <2>1. FinalMerge = <<>>
    BY <1>6, FinalMergeFacts
  <2>2. [i \in DOMAIN FinalMerge |-> {FinalId}] = <<>>
    BY <2>1
  <2>3. waves = AreaWaves
    BY <1>1, <1>4, <2>2
  <2>4. all = old
    BY <1>3, <1>6
  <2> QED
    BY <1>1, <1>2, <2>3, <2>4 DEF all, SetOfIds
<1>7. CASE ~(Len(FinalAreas) < 2)
  <2>1. FinalMerge = <<FinalGroup>> /\ {FinalId} \in SetOfIds
    BY <1>1, <1>7, FinalMergeFacts DEF SetOfIds
  <2>2. [i \in DOMAIN FinalMerge |-> {FinalId}] = <<{FinalId}>>
    BY <2>1
  <2>3. /\ waves \in Seq(SetOfIds) /\ Len(waves) = m + 1
        /\ \A k \in 1 .. m : waves[k] = AreaWaves[k]
        /\ waves[m + 1] = {FinalId}
    BY <1>1, <1>4, <2>1, <2>2 DEF m
  <2> DEFINE r == [k \in 1 .. m + 1 |-> IF k <= m THEN rank[k] ELSE 2 * L]
  <2>4. (\A k \in 1 .. m : k \in 1 .. m + 1 /\ r[k] = rank[k]) /\ r[m + 1] = 2 * L /\ m + 1 \in 1 .. m + 1
    BY <1>1
  <2>5. r = [k \in 1 .. m + 1 |-> r[k]]
    OBVIOUS
  <2> HIDE DEF r
  <2>6. /\ rank \in [1 .. m -> Nat]
        /\ \A k, l \in 1 .. m : k < l => rank[k] < rank[l]
        /\ \A k \in 1 .. m : AreaWaves[k] = RankWave(old, rank[k]) /\ AreaWaves[k] # {}
        /\ \A g \in old : \E k \in 1 .. m : rank[k] = Rank(g)
    BY <1>2 DEF Ranked, m
  <2>7. \A g \in old : Rank(g) \in Nat /\ Rank(g) < 2 * L
    <3> SUFFICES ASSUME NEW g \in old
                 PROVE  Rank(g) \in Nat /\ Rank(g) < 2 * L
      OBVIOUS
    <3>1. PICK n \in Listed : g \in Members(n)
      BY ExpandedFacts DEF old
    <3> QED
      BY <3>1, MemberRank
  <2>8. FinalGroup.id = FinalId /\ Rank(FinalGroup) = 2 * L
    BY <1>1 DEF FinalGroup, Rank
  <2> HIDE DEF L
  <2>9. \A k \in 1 .. m : rank[k] < 2 * L
    <3> SUFFICES ASSUME NEW k \in 1 .. m
                 PROVE  rank[k] < 2 * L
      OBVIOUS
    <3>1. RankWave(old, rank[k]) # {}
      BY <2>6
    <3>2. PICK g \in old : Rank(g) = rank[k]
      BY <3>1 DEF RankWave
    <3> QED
      BY <2>7, <3>2
  <2>10. \A k \in 1 .. m : RankWave(all, rank[k]) = RankWave(old, rank[k])
    <3> SUFFICES ASSUME NEW k \in 1 .. m
                 PROVE  RankWave(all, rank[k]) = RankWave(old, rank[k])
      OBVIOUS
    <3>1. rank[k] # 2 * L
      BY <1>1, <2>6, <2>9
    <3>2. \A g : g \in all /\ Rank(g) = rank[k] <=> g \in old /\ Rank(g) = rank[k]
      BY <1>3, <2>8, <3>1
    <3> QED
      BY <3>2 DEF RankWave
  <2>11. RankWave(all, 2 * L) = {FinalId}
    <3>1. \A g : g \in all /\ Rank(g) = 2 * L <=> g = FinalGroup
      <4>1. \A g \in old : Rank(g) # 2 * L
        BY <1>1, <2>7
      <4> QED
        BY <1>3, <1>7, <2>8, <4>1
    <3> QED
      BY <2>8, <3>1 DEF RankWave
  <2>12. \A k \in 1 .. m + 1 : k \in 1 .. m \/ k = m + 1
    BY <1>1
  <2>13. \A k \in 1 .. m + 1 : r[k] \in Nat
    BY <1>1, <2>4, <2>6, <2>12
  <2>14. \A k, l \in 1 .. m + 1 : k < l => r[k] < r[l]
    <3> SUFFICES ASSUME NEW k \in 1 .. m + 1, NEW l \in 1 .. m + 1, k < l
                 PROVE  r[k] < r[l]
      OBVIOUS
    <3>1. k \in 1 .. m
      BY <1>1
    <3> QED
      BY <2>4, <2>6, <2>9, <2>12, <3>1
  <2>15. \A k \in 1 .. m + 1 : waves[k] = RankWave(all, r[k]) /\ waves[k] # {}
    BY <2>3, <2>4, <2>6, <2>10, <2>11, <2>12
  <2>16. \A g \in all : \E k \in 1 .. m + 1 : r[k] = Rank(g)
    BY <1>3, <2>4, <2>6, <2>8
  <2>17. Ranked(waves, all, r)
    BY <2>3, <2>5, <2>13, <2>14, <2>15, <2>16 DEF Ranked
  <2> QED
    BY <2>3, <2>17 DEF all, SetOfIds
<1> QED
  BY <1>6, <1>7

(* Every group of a fanned-out study has its one place, by rank.              *)
LEMMA DerivedPlaces ==
  ASSUME config \in Config, Accepted, Derived
  PROVE  /\ Placed = Ids /\ NamedOnce
         /\ \A w \in DOMAIN waves : waves[w] # {}
         /\ \A g \in ToSet(groups) : Position(g.id) \in DOMAIN waves /\ g.id \in waves[Position(g.id)]
         /\ \A g, h \in ToSet(groups) : Rank(g) < Rank(h) <=> Position(g.id) < Position(h.id)
<1> DEFINE all == ToSet(groups)
           n == Len(waves)
<1>1. waves \in Seq(SUBSET Id) /\ \E rank : Ranked(waves, all, rank)
  BY DerivedWavesFacts
<1>2. PICK rank : Ranked(waves, all, rank)
  BY <1>1
<1>3. DOMAIN waves = 1 .. n /\ n \in Nat
  BY <1>1
<1>4. /\ \A g \in all : g.id \in Ids /\ GroupWith(g.id) = g /\ Rank(g) \in Nat
      /\ \A x \in Ids : GroupWith(x) \in all /\ GroupWith(x).id = x
  BY DerivedGroups, UniqueIds, DerivedRanks DEF Derived
<1> HIDE DEF all, n
<1>5. /\ \A k \in 1 .. n : rank[k] \in Nat
      /\ \A k, l \in 1 .. n : k < l => rank[k] < rank[l]
      /\ \A k \in 1 .. n : waves[k] = RankWave(all, rank[k]) /\ waves[k] # {}
      /\ \A g \in all : \E k \in 1 .. n : rank[k] = Rank(g)
  BY <1>2 DEF Ranked, n
<1>6. \A k, l \in 1 .. n : rank[k] = rank[l] => k = l
  BY <1>3, <1>5
<1>7. \A k \in 1 .. n : \A g \in all : g.id \in waves[k] <=> Rank(g) = rank[k]
  <2> SUFFICES ASSUME NEW k \in 1 .. n, NEW g \in all
               PROVE  g.id \in waves[k] <=> Rank(g) = rank[k]
    OBVIOUS
  <2>1. g.id \in RankWave(all, rank[k]) <=> \E h \in all : Rank(h) = rank[k] /\ h.id = g.id
    BY DEF RankWave
  <2>2. \A h \in all : h.id = g.id => h = g
    BY <1>4
  <2> QED
    BY <1>5, <2>1, <2>2
<1>8. \A k \in 1 .. n : \A x \in waves[k] : \E g \in all : x = g.id
  BY <1>5 DEF RankWave
<1>9. Placed = Ids
  <2>1. \A x : x \in Placed <=> \E k \in 1 .. n : x \in waves[k]
    BY <1>3 DEF Placed, ToSet
  <2>2. \A x \in Ids : \E k \in 1 .. n : x \in waves[k]
    BY <1>4, <1>5, <1>7
  <2>3. ASSUME NEW x \in Placed
        PROVE  x \in Ids
    BY <1>4, <1>8, <2>1
  <2>4. ASSUME NEW x \in Ids
        PROVE  x \in Placed
    BY <2>1, <2>2
  <2> QED
    BY <2>3, <2>4, Zenon
<1>10. NamedOnce
  <2> SUFFICES ASSUME NEW v \in 1 .. n, NEW w \in 1 .. n, v # w, NEW x \in waves[v], x \in waves[w]
               PROVE  FALSE
    BY <1>3 DEF NamedOnce
  <2> QED
    BY <1>6, <1>7, <1>8
<1>11. \A g \in all : /\ Position(g.id) \in 1 .. n /\ g.id \in waves[Position(g.id)]
                      /\ rank[Position(g.id)] = Rank(g)
  <2> SUFFICES ASSUME NEW g \in all
               PROVE  /\ Position(g.id) \in 1 .. n /\ g.id \in waves[Position(g.id)]
                      /\ rank[Position(g.id)] = Rank(g)
    OBVIOUS
  <2>1. PICK k \in 1 .. n : rank[k] = Rank(g)
    BY <1>5
  <2>2. g.id \in waves[k]
    BY <1>7, <2>1
  <2>3. Position(g.id) = k
    BY <1>3, <1>10, <2>2, PositionOfNamed
  <2> QED
    BY <2>1, <2>2, <2>3
<1>12. \A g, h \in all : Rank(g) < Rank(h) <=> Position(g.id) < Position(h.id)
  <2> SUFFICES ASSUME NEW g \in all, NEW h \in all
               PROVE  Rank(g) < Rank(h) <=> Position(g.id) < Position(h.id)
    OBVIOUS
  <2> DEFINE k == Position(g.id)
             l == Position(h.id)
  <2>1. k \in 1 .. n /\ l \in 1 .. n /\ rank[k] = Rank(g) /\ rank[l] = Rank(h)
    BY <1>11
  <2> HIDE DEF k, l
  <2>2. k < l => rank[k] < rank[l]
    BY <1>5, <2>1
  <2>3. ~(k < l) => k = l \/ l < k
    BY <1>3, <2>1
  <2>4. l < k => rank[l] < rank[k]
    BY <1>5, <2>1
  <2>5. rank[k] \in Nat /\ rank[l] \in Nat
    BY <1>5, <2>1
  <2>6. (rank[k] < rank[l]) <=> k < l
    BY <2>2, <2>3, <2>4, <2>5
  <2> QED
    BY <2>1, <2>6 DEF k, l
<1> QED
  BY <1>3, <1>5, <1>9, <1>10, <1>11, <1>12 DEF all

------------------------------------------------------------------------------
(* Loading leaves the file as it is, and with it all that is read off it.     *)
LEMMA SameFile ==
  ASSUME config' = config
  PROVE  /\ FansOut' = FansOut /\ Accepted' = Accepted
         /\ Expanded' = Expanded /\ FinalMerge' = FinalMerge /\ DerivedWaves' = DerivedWaves
<1>1. /\ Areas' = Areas /\ Listed' = Listed /\ \A n : AreaNamed(n)' = AreaNamed(n)
  BY Zenon DEF Areas, Listed, AreaNamed
<1>2. FansOut' = FansOut /\ WellFormed' = WellFormed
  BY <1>1, Zenon DEF FansOut, WellFormed
<1>3. \A n : Ancestry(n)' = Ancestry(n)
  BY <1>1, Zenon DEF Ancestry
<1>4. \A n : InCycle(n)' = InCycle(n) /\ Level(n)' = Level(n)
  BY <1>3, Zenon DEF InCycle, Level
<1>5. DesugarFails' = DesugarFails
  BY <1>1, <1>4, Zenon DEF DesugarFails
<1>6. \A n : LeafIds(n)' = LeafIds(n) /\ ResultNode(n)' = ResultNode(n)
  BY <1>1, Zenon DEF LeafIds, ResultNode
<1>7. \A a : LeafParent(a)' = LeafParent(a)
  BY <1>6, Zenon DEF LeafParent
<1>8. \A n, id : LeafGroup(n, id)' = LeafGroup(n, id)
  BY <1>1, <1>7, Zenon DEF LeafGroup
<1>9. \A n : CollapseGroup(n)' = CollapseGroup(n)
  BY <1>1, <1>6, Zenon DEF CollapseGroup
<1>10. \A n : Expand(n)' = Expand(n)
  BY <1>1, <1>6, <1>8, <1>9, Zenon DEF Expand
<1>11. Expanded' = Expanded
  BY <1>10, Zenon DEF Expanded
<1>12. \A n : Terminal(n)' = Terminal(n)
  BY <1>1, Zenon DEF Terminal
<1>13. FinalAreas' = FinalAreas
  BY <1>12, Zenon DEF FinalAreas
<1>14. FinalGroup' = FinalGroup
  BY <1>6, <1>13, Zenon DEF FinalGroup
<1>15. FinalMerge' = FinalMerge
  BY <1>13, <1>14, Zenon DEF FinalMerge
<1>16. \A level, role : WaveOf(level, role)' = WaveOf(level, role)
  BY <1>4, <1>11, Zenon DEF WaveOf
<1>17. AreaWaves' = AreaWaves
  BY <1>16, Zenon DEF AreaWaves
<1>18. DerivedWaves' = DerivedWaves
  BY <1>15, <1>17, Zenon DEF DerivedWaves
<1> QED
  BY <1>2, <1>5, <1>11, <1>15, <1>18, Zenon DEF Accepted

(* The rules are about the groups and the waves only.                         *)
LEMMA SameStudy ==
  ASSUME groups' = groups, waves' = waves
  PROVE  ValidReferences' = ValidReferences
<1>1. /\ Ids' = Ids /\ Placed' = Placed
      /\ \A id : Position(id)' = Position(id)
  BY Zenon DEF Ids, Placed, Position, WavesOf
<1>2. ValidOrder' = ValidOrder
  BY <1>1, Zenon DEF ValidOrder, AfterOthers, AfterSources
<1> QED
  BY <1>1, <1>2, Zenon DEF ValidReferences

(* What areas expand to is well formed.                                       *)
LEMMA DerivedTyped ==
  config \in Config /\ Accepted /\ Derived =>
    /\ groups \in Seq(Group) /\ waves \in Seq(SUBSET Id)
    /\ \A g \in ToSet(groups) : g.area # None /\ g.role # None
<1> SUFFICES ASSUME config \in Config, Accepted, Derived
             PROVE  /\ groups \in Seq(Group) /\ waves \in Seq(SUBSET Id)
                    /\ \A g \in ToSet(groups) : g.area # None /\ g.role # None
  OBVIOUS
<1>1. groups \in Seq(Group) /\ waves \in Seq(SUBSET Id)
  BY DerivedGroups, DerivedWavesFacts DEF Derived
<1>2. ASSUME NEW g \in ToSet(groups)
      PROVE  g.area # None /\ g.role # None
  <2>1. g.role \in {"leaf", "collapse", "final_merge"} /\ (g.area \in Name \/ g.area = "final_merge")
    BY DerivedRanks, AreaFacts DEF FinalGroup
  <2> QED
    BY <2>1, ConfigAssumption
<1> QED
  BY <1>1, <1>2

(* What a flat configuration passes through as is well formed.                *)
LEMMA FlatTyped ==
  ASSUME config \in Config
  PROVE  /\ FlatGroups \in Seq(Group) /\ \A g \in ToSet(FlatGroups) : g.area = None
         /\ config.waves \in Seq(SUBSET Id)
         /\ [i \in DOMAIN config.areas |-> {Plain(Names[i])}] \in Seq(SUBSET Id)
<1> DEFINE L == Len(config.areas)
           SetOfIds == SUBSET Id
           draws(a) == [i \in DOMAIN a.draws |-> Plain(a.draws[i])]
<1>1. L \in Nat /\ DOMAIN config.areas = 1 .. L /\ \A i \in 1 .. L : Names[i] \in Listed /\ Names[i] \in Name
  BY ConfigFacts, AreaFacts
<1>2. \A n \in Name : Plain(n) \in Id
  BY DEF Plain, Id
<1>3. ASSUME NEW n \in Listed
      PROVE  FlatGroup(n) \in Group /\ FlatGroup(n).area = None
  <2> DEFINE a == AreaNamed(n)
  <2>1. a \in AreaEntry /\ n \in Name
    BY AreaFacts
  <2>2. draws(a) \in Seq(Id)
    <3>1. a.draws \in Seq(Name)
      BY <2>1 DEF AreaEntry
    <3> HIDE DEF a
    <3>2. DOMAIN a.draws = 1 .. Len(a.draws) /\ Len(a.draws) \in Nat
      BY <3>1
    <3>3. \A i \in 1 .. Len(a.draws) : Plain(a.draws[i]) \in Id
      BY <1>2, <3>1
    <3> QED
      BY <3>2, <3>3
  <2>3. FlatGroup(n) = [id |-> Plain(n), task |-> a.task, select |-> FALSE,
                        parent |-> IF a.parent = None THEN None ELSE Plain(a.parent),
                        draws |-> draws(a), area |-> None, role |-> None]
    BY DEF FlatGroup
  <2>4. a.task \in {"experiment", "merge"} /\ a.parent \in Name \cup {None}
    BY <2>1 DEF AreaEntry
  <2> HIDE DEF a, draws
  <2> QED
    BY <1>2, <2>1, <2>2, <2>3, <2>4 DEF Group
<1>4. FlatGroups = [i \in 1 .. L |-> FlatGroup(Names[i])]
  BY <1>1 DEF FlatGroups
<1>5. [i \in DOMAIN config.areas |-> {Plain(Names[i])}] = [i \in 1 .. L |-> {Plain(Names[i])}]
  BY <1>1
<1>6. config.waves \in Seq(SUBSET Id)
  <2>1. config.waves \in Seq(SUBSET {Plain(a) : a \in Name})
    BY ConfigFacts
  <2>2. SUBSET {Plain(a) : a \in Name} \subseteq SUBSET Id
    BY <1>2
  <2> QED
    BY <2>1, <2>2
<1>7. \A i \in 1 .. L : {Plain(Names[i])} \in SetOfIds
  BY <1>1, <1>2
<1> HIDE DEF L, SetOfIds
<1>8. [i \in 1 .. L |-> {Plain(Names[i])}] \in Seq(SetOfIds)
  BY <1>1, <1>7
<1>9. /\ FlatGroups \in Seq(Group) /\ Len(FlatGroups) = L
      /\ \A i \in 1 .. L : FlatGroups[i] = FlatGroup(Names[i])
  BY <1>1, <1>3, <1>4
<1>10. \A g \in ToSet(FlatGroups) : g.area = None
  BY <1>1, <1>3, <1>9, ElementsAt
<1> QED
  BY <1>5, <1>6, <1>8, <1>9, <1>10 DEF SetOfIds

(* The inductive invariant: what a fanned-out study is at each stage, and     *)
(* that only the references can still have it refused.                        *)
Loading ==
  /\ TypeOK
  /\ stage = "desugared" => \A g \in ToSet(groups) : g.area # None => g.role # None
  /\ stage \in {"desugared", "described", "loaded"} /\ FansOut => Accepted /\ Derived
  /\ stage = "rejected" /\ FansOut /\ Accepted => Derived /\ ~ValidReferences

(* It holds of a configuration as it was read ...                             *)
LEMMA LoadingInit == Init => Loading
<1> SUFFICES ASSUME Init
             PROVE  Loading
  OBVIOUS
<1>1. TypeOK
  BY DEF Init, TypeOK
<1> QED
  BY <1>1 DEF Init, Loading

(* ... and no validator breaks it.                                            *)
LEMMA LoadingNext == Loading /\ [Next]_vars => Loading'
<1> SUFFICES ASSUME Loading, [Next]_vars
             PROVE  Loading'
  OBVIOUS
<1>1. config' = config /\ config \in Config
  BY DEF Loading, TypeOK, Next, vars, PassFlat, DesugarAreas, AssignAreaMetadata, ValidateReferences, Reject
<1>2. FansOut' = FansOut /\ Accepted' = Accepted
  BY <1>1, SameFile
<1>3. groups' = groups => (Derived' <=> (groups = Expanded \o FinalMerge /\ waves' = DerivedWaves))
  BY <1>1, SameFile DEF Derived
<1>4. CASE PassFlat
  <2>1. groups' \in Seq(Group) /\ waves' \in Seq(SUBSET Id) /\ \A g \in ToSet(groups') : g.area = None
    BY <1>1, <1>4, FlatTyped DEF PassFlat
  <2>2. stage' = "desugared" /\ ~FansOut
    BY <1>4 DEF PassFlat
  <2> QED
    BY <1>1, <1>2, <2>1, <2>2 DEF Loading, TypeOK
<1>5. CASE DesugarAreas
  <2>1. Accepted' /\ Derived' /\ config' \in Config /\ stage' = "desugared"
    BY <1>1, <1>2, <1>5, SameFile DEF DesugarAreas, Derived, Accepted
  <2>2. (config \in Config /\ Accepted /\ Derived =>
           /\ groups \in Seq(Group) /\ waves \in Seq(SUBSET Id)
           /\ \A g \in ToSet(groups) : g.area # None /\ g.role # None)'
    BY DerivedTyped, PTL
  <2>3. /\ (groups \in Seq(Group))' /\ (waves \in Seq(SUBSET Id))'
        /\ (\A g \in ToSet(groups) : g.area # None /\ g.role # None)'
    BY <2>1, <2>2
  <2> QED
    BY <2>1, <2>3 DEF Loading, TypeOK
<1>6. CASE AssignAreaMetadata
  <2>1. stage = "desugared" /\ stage' = "described" /\ waves' = waves
    BY <1>6 DEF AssignAreaMetadata
  <2>2. /\ groups \in Seq(Group) /\ waves \in Seq(SUBSET Id)
        /\ \A g \in ToSet(groups) : g.area # None => g.role # None
    BY <2>1 DEF Loading, TypeOK
  <2> DEFINE n == Len(groups)
             set(g) == [g EXCEPT !.area = g.id[1], !.role = IF g.task = "merge" THEN "final_merge" ELSE "leaf"]
             new(g) == IF g.area # None THEN g ELSE set(g)
  <2>3. /\ DOMAIN groups = 1 .. n /\ n \in Nat
        /\ \A i \in 1 .. n : groups[i] \in Group /\ groups[i] \in ToSet(groups)
    BY <2>2, ElementsAt
  <2>4. groups' = [i \in 1 .. n |-> new(groups[i])]
    BY <1>6, <2>3 DEF AssignAreaMetadata
  <2>5. \A g \in Group : set(g) \in Group /\ set(g).role # None
    <3>1. \A g \in Group : g.id[1] \in Name \cup {"final_merge"}
      BY DEF Group, Id, FinalId
    <3>2. None # "leaf" /\ None # "final_merge"
      BY ConfigAssumption
    <3> QED
      BY <3>1, <3>2 DEF Group
  <2>6. \A i \in 1 .. n : new(groups[i]) \in Group /\ new(groups[i]).role # None
    BY <2>2, <2>3, <2>5
  <2> HIDE DEF n, new, set
  <2>7. /\ groups' \in Seq(Group) /\ Len(groups') = n
        /\ \A i \in 1 .. n : groups'[i] = new(groups[i])
    BY <2>3, <2>4, <2>6
  <2>8. \A g \in ToSet(groups') : g.role # None
    <3>1. \A g \in ToSet(groups') : \E i \in 1 .. n : g = groups'[i]
      BY <2>7, ElementsAt
    <3> QED
      BY <2>6, <2>7, <3>1
  <2>9. FansOut => Accepted /\ Derived'
    <3> SUFFICES ASSUME FansOut
                 PROVE  Accepted /\ Derived'
      OBVIOUS
    <3>1. Accepted /\ Derived
      BY <2>1 DEF Loading
    <3>2. \A g \in ToSet(groups) : g.area # None
      BY <1>1, <3>1, DerivedTyped
    <3>3. \A i \in 1 .. n : new(groups[i]) = groups[i]
      BY <2>3, <3>2 DEF new
    <3>4. groups' = groups
      BY <2>2, <2>3, <2>4, <3>3 DEF n
    <3> QED
      BY <1>3, <2>1, <3>1, <3>4 DEF Derived
  <2> QED
    BY <1>1, <1>2, <2>1, <2>2, <2>7, <2>8, <2>9 DEF Loading, TypeOK
<1>7. CASE ValidateReferences
  <2>1. stage = "described" /\ stage' = "loaded" /\ groups' = groups /\ waves' = waves
    BY <1>7 DEF ValidateReferences
  <2> QED
    BY <1>1, <1>2, <1>3, <2>1 DEF Loading, TypeOK, Derived
<1>8. CASE Reject
  <2>1. groups' = groups /\ waves' = waves /\ stage' = "rejected"
    BY <1>8 DEF Reject
  <2>2. FansOut /\ Accepted => Derived /\ ~ValidReferences
    BY <1>8 DEF Reject, Loading, Accepted
  <2>3. ValidReferences' = ValidReferences
    BY <2>1, SameStudy
  <2> QED
    BY <1>1, <1>2, <1>3, <2>1, <2>2, <2>3 DEF Loading, TypeOK, Derived
<1>9. CASE UNCHANGED vars
  <2>1. groups' = groups /\ waves' = waves /\ stage' = stage
    BY <1>9 DEF vars
  <2>2. ValidReferences' = ValidReferences
    BY <2>1, SameStudy
  <2>3. Derived' <=> Derived
    BY <1>3, <2>1 DEF Derived
  <2> QED
    BY <1>1, <1>2, <2>1, <2>2, <2>3 DEF Loading, TypeOK
<1> QED
  BY <1>4, <1>5, <1>6, <1>7, <1>8, <1>9 DEF Next

(* The invariant holds of every configuration, at every stage of its loading. *)
LEMMA LoadingInvariant == Spec => []Loading
BY LoadingInit, LoadingNext, PTL DEF Spec

(* Every group a configuration is turned into is well formed, and after       *)
(* assign_area_metadata each has a role.                                      *)
THEOREM TypeCorrect == Spec => []TypeOK
<1>1. Loading => TypeOK
  BY DEF Loading
<1> QED
  BY <1>1, LoadingInvariant, PTL

(* Areas expand to a study in which every group runs, and runs once.          *)
LEMMA LoadingRunsOnce == Loading => RunsOnce
<1> SUFFICES ASSUME Loading, stage = "loaded", FansOut
             PROVE  Placed = Ids /\ NamedOnce
  BY DEF RunsOnce
<1>1. config \in Config /\ Accepted /\ Derived
  BY DEF Loading, TypeOK
<1> QED
  BY <1>1, DerivedPlaces

(* RunsOnce: once loaded, areas with approaches have become waves that hold   *)
(* every group of theirs, and each in one wave only.                          *)
THEOREM FannedOutRunsOnce == Spec => []RunsOnce
BY LoadingInvariant, LoadingRunsOnce, PTL

(* Nothing changes a configuration after it has been validated.               *)
Validated == stage = "loaded" => ValidReferences

(* Nothing changes a configuration after it has been validated.               *)
LEMMA ValidatedInvariant == Spec => []Validated
<1>1. Init => Validated
  BY DEF Init, Validated
<1>2. Validated /\ [Next]_vars => Validated'
  <2> SUFFICES ASSUME Validated, [Next]_vars, stage' = "loaded" PROVE ValidReferences'
    BY DEF Validated
  <2>1. ValidReferences /\ UNCHANGED <<groups, waves>>
    BY DEF Validated, Next, vars, PassFlat, DesugarAreas, AssignAreaMetadata,
           ValidateReferences, Reject
  <2>2. groups' = groups /\ waves' = waves
    BY <2>1
  <2> QED
    BY <2>1, <2>2, SameStudy
<1> QED
  BY <1>1, <1>2, PTL DEF Spec

------------------------------------------------------------------------------
(* What the groups of a fanned-out study are started from.                    *)

(* The result of an area is one of its groups: its collapse or its only leaf. *)
LEMMA ResultGroup ==
  ASSUME config \in Config, NEW n \in Listed
  PROVE  /\ ResultNode(n) \in Id /\ ResultNode(n) # None
         /\ \E h \in Members(n) : h.id = ResultNode(n)
         /\ \A h \in Members(n) : h.id = ResultNode(n) /\ h.role = "leaf" =>
              \A x \in Members(n) : x.role = "leaf"
<1>1. n \in Name /\ AreaNamed(n).approaches \in Nat
  BY AreaFacts DEF AreaEntry
<1>2. ResultNode(n) \in Id /\ None \notin Id
  BY <1>1, ResultNodeFacts, ConfigAssumption
<1>3. CASE AreaNamed(n).approaches <= 1
  <2>1. LeafIds(n) = <<Plain(n)>> /\ ResultNode(n) = Plain(n)
    BY <1>1, <1>3 DEF LeafIds, ResultNode
  <2>2. Members(n) = {LeafGroup(n, id) : id \in ToSet(LeafIds(n))} /\ Plain(n) \in ToSet(LeafIds(n))
    BY <1>3, <2>1 DEF Members, ToSet
  <2>3. \A h \in Members(n) : h.role = "leaf"
    BY <2>2 DEF LeafGroup
  <2>4. LeafGroup(n, Plain(n)) \in Members(n) /\ LeafGroup(n, Plain(n)).id = Plain(n)
    BY <2>2 DEF LeafGroup
  <2> QED
    BY <1>2, <2>1, <2>3, <2>4
<1>4. CASE ~(AreaNamed(n).approaches <= 1)
  <2>1. ResultNode(n) = Collapse(n) /\ CollapseGroup(n) \in Members(n)
    BY <1>1, <1>4 DEF ResultNode, Members
  <2>2. \A id \in ToSet(LeafIds(n)) : id # Collapse(n)
    <3>1. \A id \in ToSet(LeafIds(n)) : id \in {Plain(n)} \cup {Leaf(n, j) : j \in Nat}
      BY LeafIdFacts DEF ToSet
    <3> QED
      BY <3>1 DEF Plain, Leaf, Collapse
  <2>3. \A h \in Members(n) : h.id = ResultNode(n) => h = CollapseGroup(n)
    BY <2>1, <2>2 DEF Members, LeafGroup
  <2> QED
    BY <1>2, <2>1, <2>3 DEF CollapseGroup
<1> QED
  BY <1>3, <1>4

(* What a leaf names: the result of the area it inherits from.                *)
LEMMA LeafSources ==
  ASSUME config \in Config, NEW n \in Listed, NEW g \in Members(n), g.role = "leaf"
  PROVE  /\ g.task = AreaNamed(n).task
         /\ Inherits(AreaNamed(n)) => Explicit(g) = {ResultNode(AreaNamed(n).parent)} \ {None}
         /\ ~Inherits(AreaNamed(n)) /\ AreaNamed(n).parent = None => Explicit(g) = {}
         /\ ~Inherits(AreaNamed(n)) /\ AreaNamed(n).parent # None => Explicit(g) = {Plain(AreaNamed(n).parent)} \ {None}
<1>1. g.task = AreaNamed(n).task /\ g.parent = LeafParent(AreaNamed(n)) /\ g.draws = <<>>
  BY DEF Members, LeafGroup, CollapseGroup
<1>2. ToSet(<<>>) = {}
  BY DEF ToSet
<1> QED
  BY <1>1, <1>2 DEF Explicit, LeafParent

(* What a collapse names: the leaves of its own area.                         *)
LEMMA CollapseSources ==
  ASSUME config \in Config, NEW n \in Listed, NEW g \in Members(n), g.role = "collapse"
  PROVE  /\ g = CollapseGroup(n) /\ g.task = "merge"
         /\ Explicit(g) = ToSet(LeafIds(n)) /\ Explicit(g) # {}
         /\ \A s \in Explicit(g) : \E h \in Members(n) : h.id = s /\ h.role = "leaf"
<1>1. g = CollapseGroup(n)
  <2>1. \A id : LeafGroup(n, id).role # "collapse"
    BY DEF LeafGroup
  <2>2. g \notin {LeafGroup(n, id) : id \in ToSet(LeafIds(n))}
    BY <2>1
  <2>3. CASE AreaNamed(n).approaches <= 1
    BY <2>2, <2>3 DEF Members
  <2>4. CASE ~(AreaNamed(n).approaches <= 1)
    BY <2>2, <2>4 DEF Members
  <2> QED
    BY <2>3, <2>4
<1>2. g.draws = LeafIds(n) /\ g.parent = None /\ g.task = "merge"
  BY <1>1 DEF CollapseGroup
<1>3. Explicit(g) = ToSet(LeafIds(n))
  BY <1>2 DEF Explicit
<1>4. ToSet(LeafIds(n)) # {}
  BY LeafIdFacts DEF ToSet
<1>5. \A s \in ToSet(LeafIds(n)) : \E h \in Members(n) : h.id = s /\ h.role = "leaf"
  <2>1. \A s \in ToSet(LeafIds(n)) : LeafGroup(n, s) \in Members(n)
    BY DEF Members
  <2>2. \A s : LeafGroup(n, s).id = s /\ LeafGroup(n, s).role = "leaf"
    BY DEF LeafGroup
  <2> QED
    BY <2>1, <2>2
<1> QED
  BY <1>1, <1>2, <1>3, <1>4, <1>5

(* What the final merge names: the results of the final areas.                *)
LEMMA FinalSources ==
  ASSUME config \in Config, Accepted
  PROVE  /\ Explicit(FinalGroup) = {ResultNode(n) : n \in ToSet(FinalAreas)}
         /\ ToSet(FinalAreas) \subseteq Listed
         /\ ~(Len(FinalAreas) < 2) => Explicit(FinalGroup) # {}
<1>1. Explicit(FinalGroup) = {ResultNode(n) : n \in ToSet(FinalAreas)}
  BY FinalMergeFacts DEF Explicit, FinalGroup
<1>2. ToSet(FinalAreas) \subseteq Listed
  BY FinalAreasFacts DEF Accepted, DesugarFails
<1>3. ASSUME ~(Len(FinalAreas) < 2)
      PROVE  ToSet(FinalAreas) # {}
  <2>1. FinalAreas \in Seq(Name)
    BY FinalAreasFacts
  <2>2. Len(FinalAreas) \in Nat /\ 1 \in 1 .. Len(FinalAreas)
    BY <1>3, <2>1
  <2>3. FinalAreas[1] \in ToSet(FinalAreas)
    BY <2>1, <2>2, ElementsAt
  <2> QED
    BY <2>3
<1> QED
  BY <1>1, <1>2, <1>3

(* In a study of areas that make sense, what a group is started from is a     *)
(* group of lower rank.                                                       *)
LEMMA SourcesRankLower ==
  ASSUME config \in Config, Accepted, Derived, SoundAreas, NEW g \in ToSet(groups), NEW s \in Explicit(g)
  PROVE  \E h \in ToSet(groups) : h.id = s /\ Rank(h) < Rank(g)
<1>1. \A h : h \in ToSet(groups) <=> Made(h)
  BY DerivedGroups DEF Derived
<1>2. ASSUME NEW n \in Listed, g \in Members(n), g.role = "leaf"
      PROVE  \E h \in ToSet(groups) : h.id = s /\ Rank(h) < Rank(g)
  <2> DEFINE a == AreaNamed(n)
             p == a.parent
  <2>1. a \in AreaEntry /\ a \in Areas
    BY AreaFacts
  <2>2. ~Inherits(a) => p = None
    BY <2>1 DEF SoundAreas, AreaEntry, Inherits
  <2>3. Inherits(a) /\ s = ResultNode(p)
    BY <1>2, <2>2, LeafSources
  <2>4. p \in Listed /\ Level(n) = Level(p) + 1
    BY <2>3, LevelAbove
  <2>5. PICK h \in Members(p) : h.id = s
    BY <2>3, <2>4, ResultGroup
  <2>6. Level(p) \in Nat /\ (Rank(h) = 2 * Level(p) \/ Rank(h) = 2 * Level(p) + 1)
    BY <2>4, <2>5, MemberRank
  <2>7. Rank(g) = 2 * Level(n)
    BY <1>2, MemberRank
  <2> HIDE DEF p, a
  <2>8. Rank(h) < Rank(g)
    BY <2>4, <2>6, <2>7
  <2> QED
    BY <1>1, <2>4, <2>5, <2>8 DEF Made
<1>3. ASSUME NEW n \in Listed, g \in Members(n), g.role = "collapse"
      PROVE  \E h \in ToSet(groups) : h.id = s /\ Rank(h) < Rank(g)
  <2>1. PICK h \in Members(n) : h.id = s /\ h.role = "leaf"
    BY <1>3, CollapseSources
  <2>2. Rank(h) = 2 * Level(n) /\ Rank(g) = 2 * Level(n) + 1 /\ Level(n) \in Nat
    BY <1>3, <2>1, MemberRank
  <2>3. Rank(h) < Rank(g)
    BY <2>2
  <2> QED
    BY <1>1, <2>1, <2>3 DEF Made
<1>4. ASSUME g = FinalGroup, Rank(g) = 2 * Len(config.areas)
      PROVE  \E h \in ToSet(groups) : h.id = s /\ Rank(h) < Rank(g)
  <2>1. PICK n \in Listed : s = ResultNode(n)
    BY <1>4, FinalSources
  <2>2. PICK h \in Members(n) : h.id = s
    BY <2>1, ResultGroup
  <2>3. Rank(h) < 2 * Len(config.areas)
    BY <2>2, MemberRank
  <2> QED
    BY <1>1, <1>4, <2>2, <2>3 DEF Made
<1> QED
  BY <1>2, <1>3, <1>4, DerivedRanks

(* The expansion of areas that make sense satisfies every rule of             *)
(* validate_references.                                                       *)
LEMMA SoundIsValid ==
  ASSUME config \in Config, Derived, SoundAreas
  PROVE  ValidReferences
<1>1. Accepted
  BY DEF SoundAreas, Accepted
<1>2. /\ \A g \in ToSet(groups) : g.id \in Ids /\ GroupWith(g.id) = g
      /\ Cardinality(Ids) = Len(groups)
  BY DerivedGroups, UniqueIds DEF Derived
<1>3. \A g \in ToSet(groups) : \A s \in Explicit(g) : \E h \in ToSet(groups) : h.id = s /\ Rank(h) < Rank(g)
  BY <1>1, SourcesRankLower
<1>4. /\ Placed = Ids
      /\ \A g, h \in ToSet(groups) : Rank(g) < Rank(h) <=> Position(g.id) < Position(h.id)
  BY <1>1, DerivedPlaces
<1>5. \A g \in ToSet(groups) : Explicit(g) \subseteq Ids /\ AfterSources(g)
  BY <1>2, <1>3, <1>4 DEF AfterSources
<1>6. ASSUME NEW g \in ToSet(groups)
      PROVE  ~(g.task = "merge" /\ Explicit(g) = {})
  <2>1. ASSUME NEW n \in Listed, g \in Members(n), g.role = "leaf"
        PROVE  g.task # "merge"
    BY <2>1, LeafSources, AreaFacts DEF SoundAreas
  <2>2. ASSUME NEW n \in Listed, g \in Members(n), g.role = "collapse"
        PROVE  Explicit(g) # {}
    BY <2>2, CollapseSources
  <2> QED
    BY <1>1, <2>1, <2>2, DerivedRanks, FinalSources
<1>7. ValidOrder
  BY <1>4, <1>5, <1>6 DEF ValidOrder
<1> QED
  BY <1>2, <1>5, <1>7 DEF ValidReferences

(* Areas that make sense together are never refused by what they expand to.   *)
LEMMA LoadingSound == Loading => SoundAreasLoad
<1> SUFFICES ASSUME Loading, stage = "rejected", FansOut, SoundAreas
             PROVE  FALSE
  BY DEF SoundAreasLoad
<1>1. config \in Config /\ Accepted
  BY DEF Loading, TypeOK, SoundAreas, Accepted
<1>2. Derived /\ ~ValidReferences
  BY <1>1 DEF Loading
<1> QED
  BY <1>1, <1>2, SoundIsValid

(* SoundAreasLoad: the validators of the expanded study refuse nothing that   *)
(* the areas themselves could not be blamed for.                              *)
THEOREM SoundAreasAreLoaded == Spec => []SoundAreasLoad
BY LoadingInvariant, LoadingSound, PTL

(* Whoever inherits from an area with approaches, or merges it, starts from   *)
(* its collapse and not from one of the leaves.                               *)
LEMMA LoadingEdges == Loading /\ Validated => EdgesJoinResults
<1> SUFFICES ASSUME Loading, Validated, stage = "loaded", FansOut,
                    NEW g \in ToSet(groups), NEW x \in Explicit(g), GroupWith(x).area # g.area,
                    GroupWith(x).role = "leaf",
                    NEW h \in ToSet(groups), h.area = GroupWith(x).area, h.role # "leaf"
             PROVE  FALSE
  BY DEF EdgesJoinResults
<1> DEFINE s == GroupWith(x)
<1>1. config \in Config /\ Accepted /\ Derived
  BY DEF Loading, TypeOK
<1>2. x \in Ids
  BY DEF Validated, ValidReferences
<1>3. s \in ToSet(groups) /\ s.id = x
  BY <1>1, <1>2, DerivedGroups, UniqueIds DEF Derived
<1> HIDE DEF s
<1>4. ASSUME NEW k \in ToSet(groups), NEW n \in Listed, k \in Members(n) \/ k.area = n
      PROVE  k \in Members(n) /\ k.area = n
  <2>1. "final_merge" \notin Name /\ n \in Name
    BY <1>1, AreaFacts, ConfigAssumption
  <2>2. k \in Members(n) => k.area = n
    BY <1>1, MemberRank
  <2>3. k.area = n => k \in Members(n)
    BY <1>1, <2>1, DerivedRanks DEF FinalGroup
  <2> QED
    BY <1>4, <2>2, <2>3
<1>5. ASSUME NEW n \in Listed, x = ResultNode(n)
      PROVE  FALSE
  <2>1. PICK k \in Members(n) : k.id = ResultNode(n)
    BY <1>1, ResultGroup
  <2>2. k \in ToSet(groups)
    BY <1>1, DerivedGroups DEF Derived, Made
  <2>3. s = k
    BY <1>1, <1>3, <1>5, <2>1, <2>2, DerivedGroups, UniqueIds DEF Derived
  <2>4. s \in Members(n) /\ s.area = n
    BY <1>4, <2>1, <2>2, <2>3
  <2>5. h \in Members(n)
    BY <1>4, <2>4 DEF s
  <2> QED
    BY <1>1, <2>1, <2>3, <2>5, ResultGroup DEF s
<1>6. ASSUME NEW n \in Listed, g \in Members(n), g.role = "leaf"
      PROVE  FALSE
  <2> DEFINE p == AreaNamed(n).parent
  <2>1. CASE Inherits(AreaNamed(n))
    BY <1>1, <1>5, <1>6, <2>1, LeafSources, LevelAbove
  <2>2. CASE ~Inherits(AreaNamed(n))
    <3>1. x = Plain(p) /\ p # None
      BY <1>1, <1>6, <2>2, LeafSources
    <3>2. p \in Name
      BY <1>1, <3>1, AreaFacts DEF AreaEntry
    <3>3. s.id = Plain(p) /\ Plain(p)[1] = p /\ "final_merge" \notin Name /\ FinalId[1] = "final_merge"
      BY <1>3, <3>1, ConfigAssumption DEF Plain, FinalId
    <3>4. PICK m \in Listed : s \in Members(m)
      <4>1. s # FinalGroup
        BY <1>1, <3>2, <3>3, FinalMergeFacts
      <4> QED
        BY <1>1, <1>3, <4>1, DerivedRanks
    <3>5. m = p
      BY <1>1, <3>3, <3>4, ExpandFacts
    <3>6. AreaNamed(p).approaches <= 1
      <4>1. CASE ~(AreaNamed(p).approaches <= 1)
        <5>1. LeafIds(p) = [i \in 1 .. AreaNamed(p).approaches |-> Leaf(p, i)]
          BY <4>1 DEF LeafIds
        <5>2. \A id \in ToSet(LeafIds(p)) : id # Plain(p)
          BY <5>1 DEF ToSet, Leaf, Plain
        <5>3. Collapse(p) # Plain(p)
          BY DEF Collapse, Plain
        <5> QED
          BY <3>3, <3>4, <3>5, <4>1, <5>2, <5>3 DEF Members, LeafGroup, CollapseGroup
      <4> QED
        BY <4>1
    <3>7. ResultNode(p) = Plain(p)
      <4>1. AreaNamed(p).approaches \in Nat
        BY <1>1, <3>4, <3>5, AreaFacts DEF AreaEntry
      <4> QED
        BY <3>6, <4>1 DEF ResultNode
    <3> QED
      BY <1>5, <3>1, <3>4, <3>5, <3>7
  <2> QED
    BY <2>1, <2>2
<1>7. ASSUME NEW n \in Listed, g \in Members(n), g.role = "collapse"
      PROVE  FALSE
  <2>1. PICK k \in Members(n) : k.id = x
    BY <1>1, <1>7, CollapseSources
  <2>2. k \in ToSet(groups)
    BY <1>1, DerivedGroups DEF Derived, Made
  <2>3. s = k
    BY <1>1, <1>3, <2>1, <2>2, DerivedGroups, UniqueIds DEF Derived
  <2>4. s.area = n /\ g.area = n
    BY <1>4, <1>7, <2>1, <2>2, <2>3
  <2> QED
    BY <2>4 DEF s
<1>8. ASSUME g = FinalGroup
      PROVE  FALSE
  BY <1>1, <1>5, <1>8, FinalSources
<1> QED
  BY <1>1, <1>6, <1>7, <1>8, DerivedRanks

(* EdgesJoinResults: an edge into another area starts at the collapse of that *)
(* area when it has one, never at one of its leaves.                          *)
THEOREM EdgesStartAtResults == Spec => []EdgesJoinResults
BY LoadingInvariant, ValidatedInvariant, LoadingEdges, PTL

------------------------------------------------------------------------------
(* What a group builds on.                                                    *)

(* A set that only grows, and within a finite one, stops growing after as     *)
(* many steps as that one has elements.                                       *)
LEMMA Saturation ==
  ASSUME NEW U, IsFiniteSet(U), NEW step \in [SUBSET U -> SUBSET U], \A A \in SUBSET U : A \subseteq step[A],
         NEW f \in [Nat -> SUBSET U], f[0] # {}, \A n \in Nat : f[n + 1] = step[f[n]]
  PROVE  step[f[Cardinality(U)]] = f[Cardinality(U)] /\ f[0] \subseteq f[Cardinality(U)]
<1> DEFINE Good == {n \in Nat : f[0] \subseteq f[n] /\ (step[f[n]] = f[n] \/ n + 1 <= Cardinality(f[n]))}
<1>1. \A A \in SUBSET U : IsFiniteSet(A) /\ Cardinality(A) \in Nat /\ Cardinality(A) <= Cardinality(U)
  BY FS_Subset, FS_CardinalityType
<1>2. Cardinality(U) \in Nat
  BY FS_CardinalityType
<1>3. 0 \in Good
  <2>1. f[0] \in SUBSET U
    OBVIOUS
  <2>2. Cardinality(f[0]) # 0
    BY <1>1, <2>1, FS_EmptySet
  <2> QED
    BY <1>1, <2>1, <2>2
<1>4. ASSUME NEW n \in Nat, n \in Good
      PROVE  n + 1 \in Good
  <2> DEFINE A == f[n]
             B == f[n + 1]
  <2>1. A \in SUBSET U /\ B \in SUBSET U /\ B = step[A] /\ A \subseteq B /\ f[0] \subseteq A
    BY <1>4
  <2>2. step[A] = A \/ n + 1 <= Cardinality(A)
    BY <1>4
  <2> HIDE DEF A, B
  <2>3. CASE step[A] = A
    <3>1. B = A /\ step[B] = B
      BY <2>1, <2>3
    <3> QED
      BY <2>1, <3>1 DEF B
  <2>4. CASE step[A] # A /\ n + 1 <= Cardinality(A)
    <3>1. Cardinality(A) < Cardinality(B)
      <4>1. A # B /\ IsFiniteSet(B)
        BY <1>1, <2>1, <2>4
      <4> QED
        BY <1>1, <2>1, <4>1, FS_Subset
    <3>2. (n + 1) + 1 <= Cardinality(B)
      BY <1>1, <2>1, <2>4, <3>1
    <3>3. f[0] \subseteq B
      BY <2>1
    <3> QED
      BY <3>2, <3>3 DEF B
  <2> QED
    BY <2>2, <2>3, <2>4
<1>5. Nat \subseteq Good
  <2> HIDE DEF Good
  <2> QED
    BY <1>3, <1>4, Induction
<1>6. Cardinality(U) \in Good
  BY <1>2, <1>5
<1>7. Cardinality(f[Cardinality(U)]) <= Cardinality(U)
  <2>1. f[Cardinality(U)] \in SUBSET U
    BY <1>2
  <2> QED
    BY <1>1, <2>1
<1>8. Cardinality(f[Cardinality(U)]) \in Nat
  <2>1. f[Cardinality(U)] \in SUBSET U
    BY <1>2
  <2> QED
    BY <1>1, <2>1
<1> QED
  BY <1>2, <1>6, <1>7, <1>8

Near(A) == A \cup UNION {SourcesOf(GroupWith(i)) : i \in A}

(* BuildsOn is closed under sources: it saturates within the number of        *)
(* groups.                                                                    *)
LEMMA BuildsOnFacts ==
  ASSUME IsFiniteSet(Ids), Cardinality(Ids) = Len(groups), NEW id \in Ids,
         \A i \in Ids : SourcesOf(GroupWith(i)) \subseteq Ids
  PROVE  /\ BuildsOn(id) \subseteq Ids /\ id \in BuildsOn(id)
         /\ \A i \in BuildsOn(id) : SourcesOf(GroupWith(i)) \subseteq BuildsOn(id)
<1> DEFINE S == SUBSET Ids
           step == [A \in S |-> Near(A)]
           wide == [p \in S \X Nat |-> Near(p[1])]
           Back(h) == h = [n \in Nat |-> IF n = 0 THEN {id} ELSE Near(h[n - 1])]
<1>1. \A A \in S : Near(A) \in S /\ A \subseteq Near(A)
  BY DEF Near
<1>2. PICK f : Iterates(f, S, {id}, wide)
  <2>1. wide \in Steps(S) /\ {id} \in S
    BY <1>1 DEF Steps
  <2> HIDE DEF S, wide
  <2> QED
    BY <2>1, Recursion
<1>3. f \in [Nat -> S] /\ f[0] = {id} /\ \A n \in Nat : f[n + 1] = Near(f[n])
  <2>1. f \in [Nat -> S] /\ f[0] = {id} /\ \A n \in Nat : f[n + 1] = wide[<<f[n], n + 1>>]
    BY <1>2 DEF Iterates
  <2>2. ASSUME NEW n \in Nat
        PROVE  wide[<<f[n], n + 1>>] = Near(f[n])
    <3>1. <<f[n], n + 1>> \in S \X Nat
      BY <2>1
    <3> QED
      BY <3>1
  <2> QED
    BY <2>1, <2>2
<1>4. \E h : Back(h)
  <2> DEFINE e(n) == IF n = 0 THEN {id} ELSE Near(f[n - 1])
  <2>1. ASSUME NEW n \in Nat
        PROVE  f[n] = e(n)
    <3>1. CASE n = 0
      BY <1>3, <3>1
    <3>2. CASE n # 0
      <4>1. n - 1 \in Nat /\ (n - 1) + 1 = n
        BY <3>2
      <4>2. f[(n - 1) + 1] = Near(f[n - 1])
        BY <1>3, <4>1
      <4> QED
        BY <3>2, <4>1, <4>2
    <3> QED
      BY <3>1, <3>2
  <2>2. f = [n \in Nat |-> e(n)]
    <3> HIDE DEF e, S
    <3> QED
      BY <1>3, <2>1
  <2> QED
    BY <2>2
<1> DEFINE back == CHOOSE h : Back(h)
<1>5. BuildsOn(id) = back[Len(groups)]
  BY Zenon DEF BuildsOn, Near
<1>6. Back(back)
  <2> HIDE DEF Back
  <2> QED
    BY <1>4
<1> HIDE DEF back
<1>7. back[0] = {id} /\ \A n \in Nat : back[n + 1] = Near(back[n])
  <2>1. back[0] = {id}
    BY <1>6
  <2>2. ASSUME NEW n \in Nat
        PROVE  back[n + 1] = Near(back[n])
    <3>1. n + 1 \in Nat /\ n + 1 # 0 /\ (n + 1) - 1 = n
      OBVIOUS
    <3> DEFINE m == n + 1
    <3>2. back[m] = Near(back[m - 1])
      <4>1. m \in Nat /\ m # 0
        BY <3>1
      <4> HIDE DEF m
      <4> QED
        BY <1>6, <4>1
    <3> QED
      BY <3>1, <3>2
  <2> QED
    BY <2>1, <2>2
<1>8. back \in [Nat -> S]
  <2> DEFINE In == {n \in Nat : back[n] \in S}
  <2>1. 0 \in In
    BY <1>7
  <2>2. ASSUME NEW n \in Nat, n \in In
        PROVE  n + 1 \in In
    <3>1. back[n] \in S
      BY <2>2
    <3>2. Near(back[n]) \in S
      BY <1>1, <3>1
    <3>3. back[n + 1] \in S
      BY <1>7, <3>2
    <3> QED
      BY <3>3
  <2>3. Nat \subseteq In
    <3> HIDE DEF In
    <3> QED
      BY <2>1, <2>2, Induction
  <2>4. \A n \in Nat : back[n] \in S
    BY <2>3
  <2>5. back = [n \in Nat |-> back[n]]
    BY <1>6
  <2> QED
    BY <2>4, <2>5
<1>9. step \in [S -> S] /\ (\A A \in S : A \subseteq step[A]) /\ \A n \in Nat : back[n + 1] = step[back[n]]
  BY <1>1, <1>7, <1>8
<1> DEFINE all == back[Cardinality(Ids)]
<1>10. step[all] = all /\ back[0] \subseteq all
  <2>1. back[0] # {}
    BY <1>7
  <2> HIDE DEF step
  <2> QED
    BY <1>8, <1>9, <2>1, Saturation
<1>11. all \in S
  BY <1>8, FS_CardinalityType
<1> HIDE DEF all
<1>12. Near(all) = all
  BY <1>10, <1>11
<1>13. BuildsOn(id) = all
  BY <1>5 DEF all
<1> QED
  BY <1>7, <1>10, <1>11, <1>12, <1>13 DEF Near

(* After validation all sources are groups of the study.                      *)
LEMMA SourcesInside ==
  ASSUME ValidReferences, NEW g \in ToSet(groups)
  PROVE  /\ SourcesOf(g) \subseteq Ids
         /\ Explicit(g) # {} => SourcesOf(g) = Explicit(g)
<1>1. Explicit(g) \subseteq Ids
  BY DEF ValidReferences
<1>2. \A h \in ToSet(groups) : h.id \in Ids
  BY DEF Ids, ToSet
<1> QED
  BY <1>1, <1>2 DEF SourcesOf

(* What holds the result of every terminal area, and the sources of all that  *)
(* it holds, holds every group.                                               *)
LEMMA ClosedIsAll ==
  ASSUME config \in Config, Accepted, Derived, ValidReferences, config.combineAreas = <<>>,
         NEW C, \A i \in C : SourcesOf(GroupWith(i)) \subseteq C,
         \A n \in Listed : Terminal(n) => ResultNode(n) \in C,
         ~(Len(FinalAreas) < 2) => FinalId \in C
  PROVE  Ids \subseteq C
<1> DEFINE Missing == {n \in Listed : ResultNode(n) \notin C}
           Heights == {Level(n) : n \in Missing}
<1>1. /\ \A g : g \in ToSet(groups) <=> Made(g)
      /\ \A g \in ToSet(groups) : g.id \in Ids /\ GroupWith(g.id) = g
      /\ \A x \in Ids : GroupWith(x) \in ToSet(groups) /\ GroupWith(x).id = x
  BY DerivedGroups, UniqueIds DEF Derived
<1>2. ASSUME NEW g \in ToSet(groups), g.id \in C, Explicit(g) # {}
      PROVE  Explicit(g) \subseteq C
  BY <1>1, <1>2, SourcesInside
<1>3. ASSUME NEW n \in Listed, ResultNode(n) \in C, NEW g \in Members(n)
      PROVE  g.id \in C
  <2>1. AreaNamed(n).approaches \in Nat /\ g \in ToSet(groups)
    BY <1>1, AreaFacts DEF AreaEntry, Made
  <2>2. CASE AreaNamed(n).approaches <= 1
    <3>1. LeafIds(n) = <<Plain(n)>> /\ ResultNode(n) = Plain(n)
      BY <2>1, <2>2 DEF LeafIds, ResultNode
    <3>2. g \in {LeafGroup(n, id) : id \in ToSet(LeafIds(n))}
      BY <2>2 DEF Members
    <3>3. g.id = Plain(n)
      BY <3>1, <3>2 DEF LeafGroup, ToSet
    <3> QED
      BY <1>3, <3>1, <3>3
  <2>3. CASE ~(AreaNamed(n).approaches <= 1)
    <3>1. ResultNode(n) = Collapse(n) /\ CollapseGroup(n) \in Members(n)
      BY <2>1, <2>3 DEF ResultNode, Members
    <3>2. CollapseGroup(n).id = Collapse(n) /\ CollapseGroup(n).role = "collapse"
      BY DEF CollapseGroup
    <3>3. CollapseGroup(n) \in ToSet(groups)
      BY <1>1, <3>1 DEF Made
    <3>4. ToSet(LeafIds(n)) \subseteq C
      BY <1>2, <1>3, <3>1, <3>2, <3>3, CollapseSources
    <3>5. g = CollapseGroup(n) \/ g.id \in ToSet(LeafIds(n))
      BY <2>3 DEF Members, LeafGroup
    <3> QED
      BY <1>3, <3>1, <3>2, <3>4, <3>5
  <2> QED
    BY <2>2, <2>3
<1>4. Missing = {}
  <2> SUFFICES ASSUME Missing # {}
               PROVE  FALSE
    OBVIOUS
  <2>1. Len(config.areas) \in Nat /\ \A n \in Listed : Level(n) \in Nat /\ Level(n) <= Len(config.areas)
    BY ConfigFacts, LevelReached
  <2>2. PICK top \in Heights : \A k \in Heights : k <= top
    <3>1. Heights \subseteq Nat /\ Heights # {} /\ \A k \in Heights : k <= Len(config.areas)
      BY <2>1
    <3> HIDE DEF Heights
    <3> QED
      BY <2>1, <3>1, Greatest
  <2>3. PICK n \in Missing : Level(n) = top
    OBVIOUS
  <2>4. \A m \in Missing : Level(m) <= Level(n)
    BY <2>2, <2>3
  <2>5. ~Terminal(n)
    BY <2>3
  <2>6. PICK m \in Listed : Inherits(AreaNamed(m)) /\ AreaNamed(m).parent = n
    BY <2>5, AreaFacts DEF Terminal
  <2>7. Level(m) = Level(n) + 1 /\ Level(n) \in Nat
    BY <2>1, <2>3, <2>6, LevelAbove
  <2>8. m \notin Missing
    BY <2>4, <2>7
  <2>9. ResultNode(m) \in C
    BY <2>8
  <2>10. PICK g \in Members(m) : g.role = "leaf"
    <3>1. LeafIds(m)[1] \in ToSet(LeafIds(m))
      BY LeafIdFacts DEF ToSet
    <3>2. LeafGroup(m, LeafIds(m)[1]) \in Members(m)
      BY <3>1 DEF Members
    <3>3. LeafGroup(m, LeafIds(m)[1]).role = "leaf"
      BY DEF LeafGroup
    <3> QED
      BY <3>2, <3>3
  <2>11. g \in ToSet(groups) /\ g.id \in C
    BY <1>1, <1>3, <2>9 DEF Made
  <2>12. Explicit(g) = {ResultNode(n)}
    BY <2>3, <2>6, <2>10, LeafSources, ResultGroup
  <2>13. ResultNode(n) \in C
    BY <1>2, <2>11, <2>12
  <2> QED
    BY <2>3, <2>13
<1>5. ASSUME NEW x \in Ids
      PROVE  x \in C
  <2>1. PICK g \in ToSet(groups) : g.id = x
    BY <1>1
  <2>2. CASE \E n \in Listed : g \in Members(n)
    BY <1>3, <1>4, <2>1, <2>2
  <2>3. CASE ~(Len(FinalAreas) < 2) /\ g = FinalGroup
    BY <2>1, <2>3, FinalMergeFacts
  <2> QED
    BY <1>1, <2>1, <2>2, <2>3 DEF Made
<1> QED
  BY <1>5

(* No area inherits from one of the highest level.                            *)
LEMMA HighestIsTerminal ==
  ASSUME config \in Config, Accepted, NEW n \in Listed, \A m \in Listed : Level(m) <= Level(n)
  PROVE  Terminal(n)
<1> SUFFICES ASSUME NEW m \in Listed, Inherits(AreaNamed(m)), AreaNamed(m).parent = n
             PROVE  FALSE
  BY AreaFacts DEF Terminal
<1>1. Level(m) = Level(n) + 1 /\ Level(n) \in 0 .. Len(config.areas) - 1 /\ Len(config.areas) \in Nat
  BY LevelAbove, LevelReached, ConfigFacts
<1>2. Level(m) <= Level(n)
  OBVIOUS
<1> QED
  BY <1>1, <1>2

(* A group that ranks above all others is alone in the last wave.             *)
LEMMA LastOfAll ==
  ASSUME config \in Config, Accepted, Derived, NEW g \in ToSet(groups),
         \A h \in ToSet(groups) : h # g => Rank(h) < Rank(g)
  PROVE  waves[Len(waves)] = {g.id}
<1> DEFINE n == Len(waves)
<1>1. /\ Placed = Ids /\ NamedOnce
      /\ \A w \in DOMAIN waves : waves[w] # {}
      /\ Position(g.id) \in DOMAIN waves
      /\ \A h \in ToSet(groups) : h # g => Position(h.id) < Position(g.id)
  BY DerivedPlaces
<1>2. DOMAIN waves = 1 .. n /\ n \in Nat
  BY DerivedWavesFacts
<1>3. n \in DOMAIN waves /\ Position(g.id) <= n /\ Position(g.id) \in Nat
  BY <1>1, <1>2
<1>4. ASSUME NEW x \in waves[n]
      PROVE  x = g.id
  <2>1. Position(x) = n /\ x \in Ids
    BY <1>1, <1>3, PositionOfNamed
  <2>2. PICK h \in ToSet(groups) : h.id = x
    BY <2>1, DerivedGroups, UniqueIds DEF Derived
  <2>3. CASE h # g
    BY <1>1, <1>2, <1>3, <2>1, <2>2, <2>3
  <2> QED
    BY <2>2, <2>3
<1>5. waves[n] # {}
  BY <1>1, <1>3
<1> QED
  BY <1>4, <1>5

(* Unless combine_areas says otherwise, a fanned-out study ends in one group, *)
(* the result of its one terminal area or the merge of the results of all.    *)
LEMMA EndsInOne ==
  ASSUME config \in Config, Accepted, Derived, FansOut, config.combineAreas = <<>>
  PROVE  \E g \in ToSet(groups) :
           /\ waves[Len(waves)] = {g.id}
           /\ IF Len(FinalAreas) < 2 THEN \A n \in Listed : Terminal(n) => ResultNode(n) = g.id
              ELSE g = FinalGroup
<1>1. \A g : g \in ToSet(groups) <=> Made(g)
  BY DerivedGroups DEF Derived
<1>2. CASE ~(Len(FinalAreas) < 2)
  <2>1. FinalGroup \in ToSet(groups)
    BY <1>1, <1>2 DEF Made
  <2>2. ASSUME NEW h \in ToSet(groups), h # FinalGroup
        PROVE  Rank(h) < Rank(FinalGroup)
    <3>1. Rank(FinalGroup) = 2 * Len(config.areas)
      BY DEF FinalGroup, Rank
    <3>2. Rank(h) < 2 * Len(config.areas)
      BY <2>2, DerivedRanks
    <3> QED
      BY <3>1, <3>2
  <2> QED
    BY <1>2, <2>1, <2>2, LastOfAll
<1>3. CASE Len(FinalAreas) < 2
  <2> DEFINE Heights == {Level(n) : n \in Listed}
  <2>1. Len(config.areas) \in Nat /\ \A n \in Listed : Level(n) \in Nat /\ Level(n) <= Len(config.areas)
    BY ConfigFacts, LevelReached
  <2>2. Listed # {}
    <3>1. PICK a \in Areas : a.approaches > 0
      BY DEF FansOut
    <3> QED
      BY <3>1, AreaFacts
  <2>3. PICK t \in Listed : \A n \in Listed : Level(n) <= Level(t)
    <3>1. PICK top \in Heights : \A k \in Heights : k <= top
      <4>1. Heights \subseteq Nat /\ Heights # {} /\ \A k \in Heights : k <= Len(config.areas)
        BY <2>1, <2>2
      <4> HIDE DEF Heights
      <4> QED
        BY <2>1, <4>1, Greatest
    <3>2. PICK t \in Listed : Level(t) = top
      OBVIOUS
    <3> QED
      BY <3>1, <3>2
  <2>4. Terminal(t)
    BY <2>3, HighestIsTerminal
  <2>5. \A n \in Listed : Terminal(n) => n = t
    <3> SUFFICES ASSUME NEW n \in Listed, Terminal(n)
                 PROVE  n = t
      OBVIOUS
    <3>1. FinalAreas \in Seq(Name) /\ n \in ToSet(FinalAreas) /\ t \in ToSet(FinalAreas)
      BY <2>4, FinalAreasFacts
    <3>2. PICK i \in 1 .. Len(FinalAreas), j \in 1 .. Len(FinalAreas) : n = FinalAreas[i] /\ t = FinalAreas[j]
      BY <3>1, ElementsAt
    <3>3. Len(FinalAreas) \in Nat /\ i = j
      BY <1>3, <3>1, <3>2
    <3> QED
      BY <3>2, <3>3
  <2>6. PICK g \in Members(t) : g.id = ResultNode(t)
    BY ResultGroup
  <2>7. g \in ToSet(groups)
    BY <1>1 DEF Made
  <2>8. ASSUME NEW h \in ToSet(groups), h # g
        PROVE  Rank(h) < Rank(g)
    <3>1. PICK n \in Listed : h \in Members(n)
      BY <1>1, <1>3 DEF Made
    <3>2. /\ Level(t) \in Nat /\ (Rank(g) = 2 * Level(t) \/ Rank(g) = 2 * Level(t) + 1)
          /\ Level(n) \in Nat /\ (Rank(h) = 2 * Level(n) \/ Rank(h) = 2 * Level(n) + 1)
      <4>1. t \in Listed /\ config \in Config /\ Accepted
        BY <1>1, <2>3
      <4>2. /\ Level(t) \in 0 .. Len(config.areas) - 1 /\ g.role \in {"leaf", "collapse"}
            /\ g.role = "leaf" => Rank(g) = 2 * Level(t)
            /\ g.role = "collapse" => Rank(g) = 2 * Level(t) + 1
        BY <2>6, <4>1, MemberRank
      <4>3. /\ Level(n) \in 0 .. Len(config.areas) - 1 /\ h.role \in {"leaf", "collapse"}
            /\ h.role = "leaf" => Rank(h) = 2 * Level(n)
            /\ h.role = "collapse" => Rank(h) = 2 * Level(n) + 1
        BY <3>1, <4>1, MemberRank
      <4> QED
        BY <4>2, <4>3
    <3>3. CASE n = t
      <4>1. g.role = "collapse" /\ h.role = "leaf"
        <5>1. AreaNamed(t).approaches \in Nat
          BY AreaFacts DEF AreaEntry
        <5>2. CASE AreaNamed(t).approaches <= 1
          <6>1. LeafIds(t) = <<Plain(t)>>
            BY <5>2 DEF LeafIds
          <6>2. ToSet(LeafIds(t)) = {Plain(t)}
            BY <6>1 DEF ToSet
          <6>3. Members(t) = {LeafGroup(t, Plain(t))}
            BY <5>2, <6>2 DEF Members
          <6> QED
            BY <2>6, <2>8, <3>1, <3>3, <6>3
        <5>3. CASE ~(AreaNamed(t).approaches <= 1)
          <6>1. CollapseGroup(t) \in Members(t) /\ CollapseGroup(t).id = ResultNode(t)
            BY <5>1, <5>3 DEF Members, CollapseGroup, ResultNode
          <6>2. CollapseGroup(t) \in ToSet(groups)
            BY <1>1, <6>1 DEF Made
          <6>3. g = CollapseGroup(t)
            BY <2>6, <2>7, <6>1, <6>2, DerivedGroups, UniqueIds DEF Derived
          <6>4. h.role = "leaf"
            BY <2>8, <3>1, <3>3, <5>3, <6>3 DEF Members, LeafGroup
          <6> QED
            BY <6>3, <6>4 DEF CollapseGroup
        <5> QED
          BY <5>2, <5>3
      <4>2. Rank(g) = 2 * Level(t) + 1 /\ Rank(h) = 2 * Level(t)
        BY <2>6, <3>1, <3>3, <4>1, MemberRank
      <4> QED
        BY <3>2, <4>2
    <3>4. CASE n # t
      <4>1. Level(n) <= Level(t)
        BY <2>3
      <4>2. Level(n) # Level(t)
        BY <2>3, <2>5, <3>4, HighestIsTerminal
      <4> QED
        BY <3>2, <4>1, <4>2
    <3> QED
      BY <3>3, <3>4
  <2>9. waves[Len(waves)] = {g.id}
    BY <2>7, <2>8, LastOfAll
  <2>10. \A n \in Listed : Terminal(n) => ResultNode(n) = g.id
    BY <2>5, <2>6
  <2> QED
    BY <1>3, <2>7, <2>9, <2>10
<1> QED
  BY <1>2, <1>3

(* Nothing the study does is lost: unless combine_areas says otherwise, its   *)
(* last wave is one group that builds on every other one.                     *)
LEMMA LoadingLeavesNothingOut == Loading /\ Validated => NothingIsLeftOut
<1> SUFFICES ASSUME Loading, Validated, stage = "loaded", FansOut, config.combineAreas = <<>>
             PROVE  \E id \in Ids : waves[Len(waves)] = {id} /\ BuildsOn(id) = Ids
  BY DEF NothingIsLeftOut
<1>1. config \in Config /\ Accepted /\ Derived /\ ValidReferences
  BY DEF Loading, TypeOK, Validated
<1>2. /\ \A g \in ToSet(groups) : g.id \in Ids /\ GroupWith(g.id) = g
      /\ \A x \in Ids : GroupWith(x) \in ToSet(groups) /\ GroupWith(x).id = x
      /\ IsFiniteSet(Ids) /\ Cardinality(Ids) = Len(groups)
  BY <1>1, DerivedGroups, UniqueIds DEF Derived
<1>3. PICK g \in ToSet(groups) :
        /\ waves[Len(waves)] = {g.id}
        /\ IF Len(FinalAreas) < 2 THEN \A n \in Listed : Terminal(n) => ResultNode(n) = g.id
           ELSE g = FinalGroup
  BY <1>1, EndsInOne
<1> DEFINE C == BuildsOn(g.id)
<1>4. g.id \in Ids
  BY <1>2
<1>5. /\ C \subseteq Ids /\ g.id \in C
      /\ \A i \in C : SourcesOf(GroupWith(i)) \subseteq C
  BY <1>1, <1>2, <1>4, SourcesInside, BuildsOnFacts
<1> HIDE DEF C
<1>6. ~(Len(FinalAreas) < 2) => FinalId \in C
  BY <1>1, <1>3, <1>5, FinalMergeFacts
<1>7. \A n \in Listed : Terminal(n) => ResultNode(n) \in C
  <2>1. CASE Len(FinalAreas) < 2
    BY <1>3, <1>5, <2>1
  <2>2. CASE ~(Len(FinalAreas) < 2)
    <3>1. Explicit(FinalGroup) = {ResultNode(n) : n \in ToSet(FinalAreas)} /\ Explicit(FinalGroup) # {}
      BY <1>1, <2>2, FinalSources
    <3>2. Explicit(FinalGroup) \subseteq C
      BY <1>1, <1>2, <1>3, <1>5, <2>2, <3>1, SourcesInside
    <3>3. \A n \in Listed : Terminal(n) => n \in ToSet(FinalAreas)
      BY <1>1, FinalAreasFacts
    <3> QED
      BY <3>1, <3>2, <3>3
  <2> QED
    BY <2>1, <2>2
<1>8. Ids \subseteq C
  BY <1>1, <1>5, <1>6, <1>7, ClosedIsAll
<1> QED
  BY <1>3, <1>4, <1>5, <1>8 DEF C

(* NothingIsLeftOut: when combine_areas is left to the desugar, the last wave *)
(* is a single group and every other group is among those it builds on.       *)
THEOREM StudyEndsInOne == Spec => []NothingIsLeftOut
BY LoadingInvariant, ValidatedInvariant, LoadingLeavesNothingOut, PTL

(* What the validator has accepted is ordered.                                *)
LEMMA ValidatedIsOrdered == Validated => RunsInOrder
<1> SUFFICES ASSUME Validated, stage = "loaded", NamedOnce,
                    NEW v \in DOMAIN waves, NEW w \in DOMAIN waves,
                    NEW id \in waves[w], NEW s \in waves[v], s \in SourcesOf(GroupWith(id))
             PROVE  v < w
  BY DEF RunsInOrder
<1> DEFINE g == GroupWith(id)
<1>1. Position(id) = w /\ id \in Placed /\ Position(s) = v /\ s \in Placed
  BY PositionOfNamed
<1>2. ValidOrder
  BY DEF Validated, ValidReferences
<1>3. g \in ToSet(groups) /\ g.id = id
  BY <1>1, <1>2 DEF ValidOrder, Ids, ToSet, GroupWith
<1>4. CASE g.task = "merge" /\ Explicit(g) = {}
  <2>1. AfterOthers(g)
    BY <1>1, <1>2, <1>3, <1>4 DEF ValidOrder
  <2>2. PICK h \in ToSet(groups) : h.task # "merge" /\ h.id = s
    BY <1>4 DEF SourcesOf
  <2> QED
    BY <1>1, <1>3, <2>1, <2>2 DEF AfterOthers
<1>5. CASE ~(g.task = "merge" /\ Explicit(g) = {})
  <2>1. AfterSources(g)
    BY <1>1, <1>2, <1>3, <1>5 DEF ValidOrder
  <2>2. s \in Explicit(g)
    BY <1>5 DEF SourcesOf
  <2> QED
    BY <1>1, <1>3, <2>1, <2>2 DEF AfterSources
<1> QED
  BY <1>4, <1>5

(* Whatever the configuration, areas or flat, a study that is loaded and names*)
(* every group once runs each after all it is started from: what LoopsAll     *)
(* assumes as WavesAreOrdered is what _validate_orchestration_order enforces. *)
THEOREM LoadedRunsInOrder == Spec => []RunsInOrder
BY ValidatedInvariant, ValidatedIsOrdered, PTL
===============================================================================
