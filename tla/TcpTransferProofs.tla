------------------------- MODULE TcpTransferProofs --------------------------
(***************************************************************************)
(* The TCP exchange, for any number of clients, any sizes, limits and base *)
(* and whatever the streams are cut into.                                  *)
(***************************************************************************)
EXTENDS TcpTransfer, WellFoundedInduction, SequenceTheorems, TLAPS

-----------------------------------------------------------------------------
(* Induction on the naturals, stated of sets.                              *)

LEMMA Least ==
    ASSUME NEW S \in SUBSET Nat, S # {}
    PROVE  \E m \in S : \A k \in S : m <= k
<1> DEFINE R == OpToRel(<, Nat)
<1>1. IsWellFoundedOn(R, Nat)
  BY NatLessThanWellFounded
<1>2. \A x, y \in Nat : <<y, x>> \in R <=> y < x
  BY DEF OpToRel
<1> HIDE DEF R
<1>3. PICK m \in S : \A k \in S : <<k, m>> \notin R
  BY <1>1, WFMin
<1>4. ASSUME NEW k \in S PROVE m <= k
  <2>1. k \in Nat /\ m \in Nat
    OBVIOUS
  <2>2. ~ (k < m)
    BY <1>2, <1>3, <2>1
  <2> QED
    BY <2>1, <2>2
<1> QED
  BY <1>4

LEMMA Induction ==
    ASSUME NEW S, \A n \in Nat : (\A m \in 0 .. n - 1 : m \in S) => n \in S
    PROVE  Nat \subseteq S
<1> SUFFICES ASSUME Nat \ S # {} PROVE FALSE
  OBVIOUS
<1>1. PICK n \in Nat \ S : \A k \in Nat \ S : n <= k
  BY Least
<1>2. \A m \in 0 .. n - 1 : m \in S
  BY <1>1
<1> QED
  BY <1>1, <1>2

\* A function may be defined by recursion on naturals: f[n] from f[prev[n]] where
\* this is smaller, else outright.
Recurs(f, D, base, prev, step) ==
    \A n \in D : f[n] = IF prev[n] < n THEN step[n][f[prev[n]]] ELSE base[n]
LEMMA Recursion ==
    ASSUME NEW D \in SUBSET Nat, \A n \in D : 0 .. n \subseteq D,
           NEW V, NEW base \in [D -> V], NEW prev \in [D -> Nat], NEW step \in [D -> [V -> V]]
    PROVE  \E f \in [D -> V] : Recurs(f, D, base, prev, step)
<1> DEFINE Rec(f, n) == IF prev[n] < n THEN step[n][f[prev[n]]] ELSE base[n]
           Upto(g, k) == g \in [0 .. k -> V] /\ \A n \in 0 .. k : g[n] = Rec(g, n)
<1>1. ASSUME NEW k \in D, NEW l \in D, NEW g, NEW h, Upto(g, k), Upto(h, l)
      PROVE  \A n \in Nat : n <= k /\ n <= l => g[n] = h[n]
  <2> DEFINE S == {n \in Nat : n <= k /\ n <= l => g[n] = h[n]}
  <2>1. ASSUME NEW n \in Nat, \A m \in 0 .. n - 1 : m \in S PROVE n \in S
    <3> SUFFICES ASSUME n <= k, n <= l PROVE g[n] = h[n]
      OBVIOUS
    <3>1. n \in D /\ n \in 0 .. k /\ n \in 0 .. l
      OBVIOUS
    <3>2. g[n] = Rec(g, n) /\ h[n] = Rec(h, n)
      BY <1>1, <3>1
    <3>3. ASSUME prev[n] < n PROVE g[prev[n]] = h[prev[n]]
      <4>1. prev[n] \in 0 .. n - 1 /\ prev[n] <= k /\ prev[n] <= l
        BY <3>1, <3>3
      <4>2. prev[n] \in S
        BY <2>1, <4>1
      <4> QED
        BY <4>1, <4>2
    <3> QED
      BY <3>2, <3>3
  <2>2. Nat \subseteq S
    <3> HIDE DEF S
    <3> QED
      BY <2>1, Induction
  <2> QED
    BY <2>2
<1>2. ASSUME NEW k \in D PROVE \E g : Upto(g, k)
  <2> DEFINE S == {n \in Nat : n \in D => \E g : Upto(g, n)}
  <2>1. ASSUME NEW n \in Nat, \A m \in 0 .. n - 1 : m \in S PROVE n \in S
    <3> SUFFICES ASSUME n \in D PROVE \E g : Upto(g, n)
      OBVIOUS
    <3>1. \E g : n > 0 => Upto(g, n - 1)
      <4>1. n > 0 => n - 1 \in 0 .. n - 1 /\ n - 1 \in D
        OBVIOUS
      <4> QED
        BY <2>1, <4>1
    <3>2. PICK g : n > 0 => Upto(g, n - 1)
      BY <3>1
    <3> DEFINE h == [m \in 0 .. n |-> IF m = n THEN Rec(g, n) ELSE g[m]]
    <3>3. \A m \in 0 .. n : m # n => h[m] = g[m] /\ g[m] \in V
      BY <3>2
    <3>4. Rec(g, n) \in V
      <4>1. prev[n] \in Nat /\ (prev[n] < n => prev[n] \in 0 .. n /\ prev[n] # n)
        OBVIOUS
      <4> QED
        BY <3>3, <4>1
    <3>5. h \in [0 .. n -> V]
      BY <3>3, <3>4
    <3>6. ASSUME NEW m \in 0 .. n PROVE h[m] = Rec(h, m)
      <4>1. m \in D /\ prev[m] \in Nat
        OBVIOUS
      <4>2. prev[m] < m => prev[m] \in 0 .. n /\ prev[m] # n
        BY <4>1
      <4>3. Rec(h, m) = Rec(g, m)
        BY <3>3, <4>2
      <4>4. h[m] = Rec(g, m)
        BY <3>2
      <4> QED
        BY <4>3, <4>4
    <3> QED
      BY <3>5, <3>6
  <2>2. Nat \subseteq S
    <3> HIDE DEF S
    <3> QED
      BY <2>1, Induction
  <2> QED
    BY <2>2
<1> DEFINE G(n) == CHOOSE g : Upto(g, n)
           f == [n \in D |-> G(n)[n]]
<1>3. \A n \in D : Upto(G(n), n)
  BY <1>2
<1>4. ASSUME NEW n \in D PROVE f[n] \in V /\ f[n] = Rec(f, n)
  <2>1. n \in Nat /\ n \in 0 .. n
    OBVIOUS
  <2>2. Upto(G(n), n) /\ f[n] = G(n)[n]
    BY <1>3
  <2>3. ASSUME prev[n] < n PROVE G(n)[prev[n]] = f[prev[n]]
    <3>1. prev[n] \in D /\ prev[n] \in Nat /\ prev[n] <= n
      BY <2>1, <2>3
    <3>2. Upto(G(prev[n]), prev[n]) /\ f[prev[n]] = G(prev[n])[prev[n]]
      BY <1>3, <3>1
    <3> HIDE DEF Upto, G, f
    <3> QED
      BY <1>1, <2>1, <2>2, <3>1, <3>2
  <2>4. G(n)[n] \in V /\ G(n)[n] = Rec(G(n), n)
    <3> HIDE DEF G, f
    <3> QED
      BY <2>1, <2>2
  <2> HIDE DEF G, f
  <2> QED
    BY <2>2, <2>3, <2>4
<1>5. f \in [D -> V]
  BY <1>4
<1> HIDE DEF G, f
<1> QED
  BY <1>4, <1>5 DEF Recurs

-----------------------------------------------------------------------------
(* Numbers and their digits.                                               *)

LEMMA Division ==
    ASSUME NEW n \in Nat
    PROVE  /\ n \div BASE \in Nat /\ n % BASE \in Digits
           /\ n = BASE * (n \div BASE) + (n % BASE)
           /\ n < BASE => n % BASE = n
           /\ n >= BASE => n \div BASE < n
<1>1. BASE \in Nat /\ BASE > 1
  BY TransferAssumption
<1>2. n % BASE \in 0 .. BASE - 1 /\ n \div BASE \in Int /\ n \div BASE >= 0
  BY <1>1
<1>3. n % BASE = n - BASE * (n \div BASE)
  BY <1>1
<1>4. n = BASE * (n \div BASE) + (n % BASE)
  BY <1>1, <1>2, <1>3
<1>5. (n < BASE => n % BASE = n) /\ (n >= BASE => n \div BASE < n)
  BY <1>1
<1> QED
  BY <1>2, <1>4, <1>5 DEF Digits

Digit == {[digit |-> d] : d \in Digits}

\* What Written is: the digits of the quotient, then that of the rest.
LEMMA WrittenIs ==
    /\ Written \in [Nat -> Seq(Digit)]
    /\ \A n \in Nat : Written[n] = IF n < BASE THEN <<[digit |-> n]>>
                                   ELSE Append(Written[n \div BASE], [digit |-> n % BASE])
<1> DEFINE V == Seq(Digit)
           base == [n \in Nat |-> <<[digit |-> n % BASE]>>]
           prev == [n \in Nat |-> IF n < BASE THEN n ELSE n \div BASE]
           step == [n \in Nat |-> [v \in V |-> Append(v, [digit |-> n % BASE])]]
<1>0. BASE \in Nat /\ BASE > 1
  BY TransferAssumption
<1>1. \A n \in Nat : [digit |-> n % BASE] \in Digit
  BY Division DEF Digit
<1>2. base \in [Nat -> V] /\ prev \in [Nat -> Nat] /\ step \in [Nat -> [V -> V]]
  BY <1>1, Division
<1>3. PICK f \in [Nat -> V] : Recurs(f, Nat, base, prev, step)
  <2>1. Nat \in SUBSET Nat /\ \A n \in Nat : 0 .. n \subseteq Nat
    OBVIOUS
  <2> HIDE DEF V, base, prev, step
  <2> QED
    BY <1>2, <2>1, Recursion
<1>4. \A n \in Nat : f[n] = IF n < BASE THEN <<[digit |-> n]>>
                            ELSE Append(f[n \div BASE], [digit |-> n % BASE])
  <2> SUFFICES ASSUME NEW n \in Nat
               PROVE  f[n] = IF n < BASE THEN <<[digit |-> n]>>
                             ELSE Append(f[n \div BASE], [digit |-> n % BASE])
    OBVIOUS
  <2>1. CASE n < BASE
    <3>1. n % BASE = n
      BY <2>1, Division
    <3>2. ~ (prev[n] < n) /\ base[n] = <<[digit |-> n % BASE]>>
      BY <2>1
    <3>3. f[n] = base[n]
      <4> HIDE DEF base, prev, step
      <4> QED
        BY <1>3, <3>2 DEF Recurs
    <3> QED
      BY <2>1, <3>1, <3>2, <3>3
  <2>2. CASE ~ (n < BASE)
    <3>1. n \div BASE \in Nat /\ n \div BASE < n
      BY <1>0, <2>2, Division
    <3> QED
      BY <1>3, <2>2, <3>1 DEF Recurs
  <2> QED
    BY <2>1, <2>2
<1>5. f = [n \in Nat |-> IF n < BASE THEN <<[digit |-> n]>>
                         ELSE Append(f[n \div BASE], [digit |-> n % BASE])]
  BY <1>3, <1>4
<1>6. Written = [n \in Nat |-> IF n < BASE THEN <<[digit |-> n]>>
                         ELSE Append(Written[n \div BASE], [digit |-> n % BASE])]
  BY <1>5, Zenon DEF Written
<1>7. \A n \in Nat : Written[n] = IF n < BASE THEN <<[digit |-> n]>>
                         ELSE Append(Written[n \div BASE], [digit |-> n % BASE])
  BY <1>6
<1>8. \A n \in Nat : Written[n] \in V
  <2>0. ASSUME NEW n \in Nat, n >= BASE PROVE n \div BASE \in 0 .. n - 1
    <3>1. n \div BASE \in Nat /\ n \div BASE < n
      BY <2>0, Division
    <3> QED
      BY <3>1
  <2> DEFINE S == {n \in Nat : Written[n] \in V}
  <2>1. ASSUME NEW n \in Nat, n < BASE PROVE Written[n] \in V
    <3>1. [digit |-> n] \in Digit
      BY <1>0, <2>1 DEF Digit, Digits
    <3> HIDE DEF Digit
    <3>2. <<[digit |-> n]>> \in Seq(Digit)
      BY <3>1
    <3> QED
      BY <1>7, <2>1, <3>2
  <2>2. ASSUME NEW n \in Nat, ~ (n < BASE), Written[n \div BASE] \in V PROVE Written[n] \in V
    <3>1. Append(Written[n \div BASE], [digit |-> n % BASE]) \in Seq(Digit)
      BY <1>1, <2>2, AppendProperties
    <3> QED
      BY <1>7, <2>2, <3>1
  <2>3. ASSUME NEW n \in Nat, \A m \in 0 .. n - 1 : m \in S PROVE n \in S
    <3>1. n >= BASE => Written[n \div BASE] \in V
      BY <2>0, <2>3
    <3>2. n < BASE \/ (n >= BASE /\ ~ (n < BASE))
      BY <1>0
    <3> QED
      BY <2>1, <2>2, <3>1, <3>2
  <2>4. Nat \subseteq S
    <3> HIDE DEF S
    <3> QED
      BY <2>3, Induction
  <2> QED
    BY <2>4
<1>9. Written \in [Nat -> V]
  <2>1. Written = [n \in Nat |-> Written[n]]
    BY <1>6, Zenon
  <2> QED
    BY <1>8, <2>1
<1> QED
  BY <1>7, <1>9

LEMMA WrittenLonger ==
    ASSUME NEW n \in Nat
    PROVE  Len(Written[n]) \in Nat \ {0}
<1>1. n < BASE => Written[n] = <<[digit |-> n]>>
  BY WrittenIs
<1>2. ~ (n < BASE) => /\ n \div BASE \in Nat
                      /\ Written[n] = Append(Written[n \div BASE], [digit |-> n % BASE])
  BY WrittenIs, Division
<1>3. n \div BASE \in Nat => Written[n \div BASE] \in Seq(Digit)
  BY WrittenIs
<1>4. \A q \in Seq(Digit) : \A d : Len(Append(q, d)) = Len(q) + 1 /\ Len(q) \in Nat
  BY AppendProperties
<1> QED
  BY <1>1, <1>2, <1>3, <1>4

LEMMA MinIs ==
    ASSUME NEW S \in SUBSET Nat, S # {}
    PROVE  Min(S) \in S /\ \A k \in S : Min(S) <= k
BY Least DEF Min

LEMMA DigitTokens ==
    ASSUME NEW t \in Token, "digit" \in DOMAIN t
    PROVE  t \in Digit /\ t.digit \in Nat
<1>1. BASE \in Nat
  BY TransferAssumption
<1>2. \A x : "digit" \notin DOMAIN T(x)
  BY DEF T
<1>3. \E d \in Digits : t = [digit |-> d]
  BY <1>2 DEF Token
<1> QED
  BY <1>1, <1>3 DEF Digit, Digits

LEMMA StepInNat ==
    ASSUME NEW m \in Nat, NEW d \in Nat
    PROVE  BASE * m + d \in Nat
<1>1. BASE \in Nat
  BY TransferAssumption
<1>2. BASE * m \in Nat
  BY <1>1
<1> QED
  BY <1>2

\* The values v of the first n places of s, all digits.
Values(v, n, s) ==
    /\ v \in [0 .. n -> Nat]
    /\ v[0] = 0 /\ \A i \in 1 .. n : v[i] = BASE * v[i - 1] + s[i].digit
Leading(n, s) ==
    /\ n + 1 \in DOMAIN s /\ "digit" \notin DOMAIN s[n + 1]
    /\ \A i \in 1 .. n : "digit" \in DOMAIN s[i]

LEMMA AtolIs ==
    ASSUME NEW s \in Seq(Token), s # <<>>, s[Len(s)] = T("nul")
    PROVE  \E n \in Nat : \E v : Leading(n, s) /\ Values(v, n, s) /\ Atol(s) = v[n]
<1> DEFINE S == {i \in DOMAIN s : "digit" \notin DOMAIN s[i]}
           n == Min(S) - 1
           value[i \in 0 .. n] == IF i = 0 THEN 0 ELSE BASE * value[i - 1] + s[i].digit
<1>1. Atol(s) = value[n]
  BY DEF Atol
<1>2. DOMAIN s = 1 .. Len(s) /\ Len(s) \in Nat \ {0}
  BY EmptySeq, LenProperties
<1>3. Len(s) \in S
  BY <1>2 DEF T
<1>4. S \in SUBSET Nat
  BY <1>2
<1>5. n \in Nat /\ n + 1 \in S /\ \A i \in S : n + 1 <= i
  <2> HIDE DEF S
  <2>1. Min(S) \in S /\ \A k \in S : Min(S) <= k
    BY <1>3, <1>4, MinIs
  <2>2. \A k \in S : k \in Nat \ {0}
    BY <1>2 DEF S
  <2> QED
    BY <2>1, <2>2
<1>6. Leading(n, s)
  <2> HIDE DEF n
  <2>1. ASSUME NEW i \in 1 .. n PROVE "digit" \in DOMAIN s[i]
    <3>1. i \in DOMAIN s /\ i \notin S
      BY <1>2, <1>5
    <3> QED
      BY <3>1
  <2> QED
    BY <1>5, <2>1 DEF Leading
<1> HIDE DEF n
<1>7. \A i \in 1 .. n : s[i].digit \in Nat
  BY <1>2, <1>5, <1>6, DigitTokens DEF Leading
<1> DEFINE D == 0 .. n
           base == [i \in D |-> 0]
           prev == [i \in D |-> IF i = 0 THEN 0 ELSE i - 1]
           step == [i \in D |-> [m \in Nat |-> IF i = 0 THEN 0 ELSE BASE * m + s[i].digit]]
<1>8. PICK f \in [D -> Nat] : Recurs(f, D, base, prev, step)
  <2>1. base \in [D -> Nat] /\ prev \in [D -> Nat]
    BY <1>5
  <2>2. step \in [D -> [Nat -> Nat]]
    <3>1. ASSUME NEW i \in D, NEW m \in Nat PROVE (IF i = 0 THEN 0 ELSE BASE * m + s[i].digit) \in Nat
      <4>1. i # 0 => i \in 1 .. n
        BY <1>5
      <4> QED
        BY <1>7, <4>1, StepInNat
    <3> QED
      BY <3>1
  <2>3. D \in SUBSET Nat /\ \A i \in D : 0 .. i \subseteq D
    BY <1>5
  <2> HIDE DEF D, base, prev, step
  <2> QED
    BY <2>1, <2>2, <2>3, Recursion
<1>9. ASSUME NEW i \in D PROVE f[i] = IF i = 0 THEN 0 ELSE BASE * f[i - 1] + s[i].digit
  <2>1. CASE i = 0
    <3>1. ~ (prev[i] < i) /\ base[i] = 0
      BY <1>5, <2>1
    <3> HIDE DEF base, prev, step
    <3> QED
      BY <1>8, <2>1, <3>1 DEF Recurs
  <2>2. CASE i # 0
    <3>1. i \in Nat /\ prev[i] = i - 1 /\ prev[i] < i /\ f[i - 1] \in Nat
      BY <1>5, <2>2
    <3>2. step[i][f[i - 1]] = BASE * f[i - 1] + s[i].digit
      BY <2>2, <3>1
    <3> HIDE DEF base, prev, step
    <3> QED
      BY <1>8, <2>2, <3>1, <3>2 DEF Recurs
  <2> QED
    BY <2>1, <2>2
<1>10. f = [i \in 0 .. n |-> IF i = 0 THEN 0 ELSE BASE * f[i - 1] + s[i].digit]
  BY <1>9
<1>11. value = [i \in 0 .. n |-> IF i = 0 THEN 0 ELSE BASE * value[i - 1] + s[i].digit]
  BY <1>10, Zenon
<1> HIDE DEF value, D
<1>12. value[0] = 0 /\ \A i \in 1 .. n : value[i] = BASE * value[i - 1] + s[i].digit
  BY <1>5, <1>11
<1>13. \A i \in 0 .. n : value[i] \in Nat
  <2> DEFINE W == {i \in Nat : i <= n => value[i] \in Nat}
  <2>1. ASSUME NEW i \in Nat, \A m \in 0 .. i - 1 : m \in W PROVE i \in W
    <3> SUFFICES ASSUME i <= n, i # 0 PROVE value[i] \in Nat
      BY <1>12
    <3>1. i - 1 \in 0 .. i - 1 /\ i \in 1 .. n /\ i - 1 <= n
      BY <1>5
    <3>2. value[i - 1] \in Nat /\ s[i].digit \in Nat
      BY <1>7, <2>1, <3>1
    <3> QED
      BY <1>12, <3>1, <3>2, StepInNat
  <2>2. Nat \subseteq W
    <3> HIDE DEF W
    <3> QED
      BY <2>1, Induction
  <2> QED
    BY <1>5, <2>2
<1>14. value \in [0 .. n -> Nat]
  BY <1>11, <1>13
<1> QED
  BY <1>1, <1>5, <1>6, <1>12, <1>14 DEF Values

\* Read digit by digit, Written[n] is n.
LEMMA ValueOfWritten ==
    ASSUME NEW s, NEW k \in Nat, NEW v, Values(v, k, s)
    PROVE  \A n \in Nat :
              Len(Written[n]) <= k /\ (\A i \in 1 .. Len(Written[n]) : s[i] = Written[n][i]) =>
                  v[Len(Written[n])] = n
<1> DEFINE Read(n) ==
              Len(Written[n]) <= k /\ (\A i \in 1 .. Len(Written[n]) : s[i] = Written[n][i]) =>
                  v[Len(Written[n])] = n
           S == {n \in Nat : Read(n)}
<1>0. BASE \in Nat /\ v[0] = 0 /\ \A i \in 1 .. k : v[i] = BASE * v[i - 1] + s[i].digit
  BY TransferAssumption DEF Values
<1>1. ASSUME NEW n \in Nat, n < BASE PROVE Read(n)
  <2>1. Written[n] = <<[digit |-> n]>>
    BY <1>1, WrittenIs
  <2>2. Len(Written[n]) = 1 /\ Written[n][1].digit = n
    BY <2>1
  <2> SUFFICES ASSUME 1 <= k, s[1] = Written[n][1] PROVE v[1] = n
    BY <2>2
  <2>3. v[1] = BASE * v[0] + s[1].digit
    BY <1>0
  <2> QED
    BY <1>0, <2>2, <2>3
<1>2. ASSUME NEW n \in Nat, n >= BASE, Read(n \div BASE) PROVE Read(n)
  <2> DEFINE q == n \div BASE
             w == Written[q]
             L == Len(w)
  <2>1. /\ q \in Nat /\ n = BASE * q + (n % BASE) /\ n % BASE \in Nat
        /\ Written[n] = Append(w, [digit |-> n % BASE])
        /\ w \in Seq(Digit)
    <3>1. q \in Nat /\ n = BASE * q + (n % BASE) /\ n % BASE \in Digits
      BY Division
    <3>2. n % BASE \in Nat
      BY <1>0, <3>1 DEF Digits
    <3>3. ~ (n < BASE)
      BY <1>0, <1>2
    <3> QED
      BY <3>1, <3>2, <3>3, WrittenIs
  <2>2. L \in Nat \ {0}
    BY <2>1, WrittenLonger
  <2>3. /\ Len(Written[n]) = L + 1
        /\ \A i \in 1 .. L : Written[n][i] = w[i]
        /\ Written[n][L + 1] = [digit |-> n % BASE]
    BY <2>1, <2>2, AppendProperties
  <2> HIDE DEF q, w, L
  <2> SUFFICES ASSUME L + 1 <= k, \A i \in 1 .. L + 1 : s[i] = Written[n][i]
               PROVE  v[L + 1] = n
    BY <2>3
  <2>4. v[L] = q
    <3>1. L <= k /\ \A i \in 1 .. L : s[i] = w[i]
      BY <2>2, <2>3
    <3> QED
      BY <1>2, <3>1 DEF q, w, L
  <2>5. v[L + 1] = BASE * v[(L + 1) - 1] + s[L + 1].digit
    BY <1>0, <2>2
  <2>6. (L + 1) - 1 = L /\ s[L + 1] = [digit |-> n % BASE]
    BY <2>2, <2>3
  <2> QED
    BY <2>1, <2>4, <2>5, <2>6
<1>3. ASSUME NEW n \in Nat, \A m \in 0 .. n - 1 : m \in S PROVE n \in S
  <2>1. ASSUME n >= BASE PROVE Read(n \div BASE)
    <3>1. n \div BASE \in Nat /\ n \div BASE < n
      BY <2>1, Division
    <3>2. n \div BASE \in 0 .. n - 1
      BY <3>1
    <3> HIDE DEF Read
    <3> QED
      BY <1>3, <3>2
  <2>2. n < BASE \/ n >= BASE
    BY <1>0
  <2> HIDE DEF Read
  <2> QED
    BY <1>1, <1>2, <2>1, <2>2
<1>4. Nat \subseteq S
  <2> HIDE DEF S
  <2> QED
    BY <1>3, Induction
<1> HIDE DEF Read
<1>5. \A n \in Nat : Read(n)
  BY <1>4
<1> QED
  BY <1>5 DEF Read

LEMMA AtolWritten ==
    ASSUME NEW n \in Nat, NEW s \in Seq(Token), s # <<>>, s[Len(s)] = T("nul"),
           Len(Written[n]) < Len(s), \A i \in 1 .. Len(Written[n]) : s[i] = Written[n][i],
           s[Len(Written[n]) + 1] = T("nul")
    PROVE  Atol(s) = n
<1> DEFINE L == Len(Written[n])
<1>1. PICK m \in Nat : \E v : Leading(m, s) /\ Values(v, m, s) /\ Atol(s) = v[m]
  BY AtolIs
<1>0. PICK v : Leading(m, s) /\ Values(v, m, s) /\ Atol(s) = v[m]
  BY <1>1
<1>2. L \in Nat /\ Written[n] \in Seq(Digit)
  BY WrittenLonger, WrittenIs
<1>3. \A i \in 1 .. L : "digit" \in DOMAIN s[i]
  <2>1. \A i \in 1 .. L : s[i] \in Digit
    BY <1>2
  <2> QED
    BY <2>1 DEF Digit
<1>4. "digit" \notin DOMAIN s[L + 1]
  BY DEF T
<1> HIDE DEF L
<1>5. m = L
  BY <1>0, <1>2, <1>3, <1>4 DEF Leading
<1>6. Len(Written[n]) <= m /\ \A i \in 1 .. Len(Written[n]) : s[i] = Written[n][i]
  BY <1>2, <1>5 DEF L
<1> QED
  BY <1>0, <1>5, <1>6, ValueOfWritten DEF L


LEMMA TextTokens ==
    /\ \A x \in {"<", "EOF>", "byte", "nul", "Small", "Large", " file", "Accepted"} : T(x) \in Token
    /\ Delimiter \in Seq(Token) /\ Len(Delimiter) = 2 /\ Delimiter[1] = T("<")
    /\ SmallFile = <<T("Small"), T(" file")>> /\ SmallFile \in Seq(Token)
    /\ LargeFile = <<T("Large"), T(" file")>> /\ LargeFile \in Seq(Token)
    /\ Accepted = <<T("Accepted")>> /\ Accepted \in Seq(Token)
<1>1. \A x \in {"<", "EOF>", "byte", "nul", "Small", "Large", " file", "Accepted"} : T(x) \in Token
  BY DEF Token
<1>2. \A x, y : Texts(<<x, y>>) = <<T(x), T(y)>> /\ Texts(<<x>>) = <<T(x)>>
  BY DEF Texts
<1>3. /\ Delimiter = <<T("<"), T("EOF>")>>
      /\ SmallFile = <<T("Small"), T(" file")>>
      /\ LargeFile = <<T("Large"), T(" file")>>
      /\ Accepted = <<T("Accepted")>>
  BY <1>2 DEF Delimiter, SmallFile, LargeFile, Accepted
<1>4. /\ T("<") \in Token /\ T("EOF>") \in Token /\ T("Small") \in Token /\ T("Large") \in Token
      /\ T(" file") \in Token /\ T("Accepted") \in Token
  BY <1>1
<1>5. \A x, y \in Token : <<x, y>> \in Seq(Token) /\ <<x>> \in Seq(Token)
  OBVIOUS
<1> HIDE DEF Token, T
<1>6. /\ Delimiter \in Seq(Token) /\ SmallFile \in Seq(Token) /\ LargeFile \in Seq(Token)
      /\ Accepted \in Seq(Token)
  BY <1>3, <1>4, <1>5
<1>7. Len(Delimiter) = 2 /\ Delimiter[1] = T("<")
  BY <1>3
<1> QED
  BY <1>1, <1>3, <1>6, <1>7

LEMMA DigitIsToken == Digit \subseteq Token
BY DEF Digit, Token

LEMMA SizeMessageIs ==
    ASSUME NEW n \in Nat
    PROVE  /\ SizeMessage(n) \in Seq(Token)
           /\ Len(SizeMessage(n)) = Len(Written[n]) + 2 /\ Len(Written[n]) \in Nat \ {0}
           /\ \A i \in 1 .. Len(Written[n]) : SizeMessage(n)[i] = Written[n][i]
           /\ SizeMessage(n)[Len(Written[n]) + 1] = T("<")
<1>1. Written[n] \in Seq(Token) /\ Delimiter \in Seq(Token)
  <2>1. Written[n] \in Seq(Digit)
    BY WrittenIs
  <2> QED
    BY <2>1, DigitIsToken, TextTokens, SeqMonotonic
<1>2. Len(Written[n]) \in Nat \ {0}
  BY WrittenLonger
<1> DEFINE w == Written[n]
<1>3. /\ w \in Seq(Token) /\ Len(w) \in Nat \ {0}
      /\ Delimiter \in Seq(Token) /\ Len(Delimiter) = 2 /\ Delimiter[1] = T("<")
  BY <1>1, <1>2, TextTokens
<1> HIDE DEF w
<1>4. /\ w \o Delimiter \in Seq(Token) /\ Len(w \o Delimiter) = Len(w) + 2
      /\ \A i \in 1 .. Len(w) : (w \o Delimiter)[i] = w[i]
  <2>1. w \o Delimiter \in Seq(Token) /\ Len(w \o Delimiter) = Len(w) + 2
    BY <1>3, ConcatProperties, SMTT(30)
  <2>2. ASSUME NEW i \in 1 .. Len(w) PROVE (w \o Delimiter)[i] = w[i]
    <3>1. i \in 1 .. Len(w) + Len(Delimiter) /\ i <= Len(w)
      BY <1>3
    <3> QED
      BY <1>3, <3>1, ConcatProperties
  <2> QED
    BY <2>1, <2>2
<1>5. (w \o Delimiter)[Len(w) + 1] = Delimiter[1]
  <2>1. Len(w) + 1 \in 1 .. Len(w) + Len(Delimiter) /\ Len(w) + 1 > Len(w)
        /\ (Len(w) + 1) - Len(w) = 1
    BY <1>3
  <2> QED
    BY <1>3, <2>1, ConcatProperties, SMTT(30)
<1> QED
  BY <1>3, <1>4, <1>5 DEF SizeMessage, w

\* size_str keeps its length and its last zero byte, and strtok may put another.
LEMMA StrtokTyped ==
    ASSUME NEW s \in Buffer
    PROVE  Strtok(s) \in Buffer /\ Len(Strtok(s)) = Len(s)
<1>1. s \in Seq(Token) /\ s # <<>> /\ s[Len(s)] = T("nul") /\ T("nul") \in Token
  BY TextTokens DEF Buffer
<1>2. CASE TokenEnds(s) # {}
  <2>1. TokenEnds(s) \in SUBSET Nat /\ TokenEnds(s) \subseteq DOMAIN s
    BY <1>1 DEF TokenEnds
  <2>2. Min(TokenEnds(s)) \in 1 .. Len(s)
    BY <1>1, <1>2, <2>1, MinIs
  <2>3. Strtok(s) = [s EXCEPT ![Min(TokenEnds(s))] = T("nul")]
    BY <1>2 DEF Strtok
  <2> DEFINE k == Min(TokenEnds(s))
             r == [s EXCEPT ![k] = T("nul")]
  <2> HIDE DEF k
  <2>4. r \in Seq(Token) /\ Len(r) = Len(s) /\ r[Len(s)] = T("nul")
    BY <1>1, <2>2, ExceptSeq DEF k
  <2>5. r # <<>>
    BY <1>1, <2>4, EmptySeq
  <2> QED
    BY <2>3, <2>4, <2>5 DEF Buffer, k
<1>3. CASE TokenEnds(s) = {}
  BY <1>3 DEF Strtok
<1> QED
  BY <1>2, <1>3

\* strtok ends a whole size where its delimiter begins.
LEMMA StrtokSize ==
    ASSUME NEW n \in Nat, NEW s \in Buffer, Len(Written[n]) + 2 <= Len(s),
           \A i \in 1 .. Len(Written[n]) : s[i] = Written[n][i],
           s[Len(Written[n]) + 1] = T("<")
    PROVE  /\ \A i \in 1 .. Len(Written[n]) : Strtok(s)[i] = Written[n][i]
           /\ Strtok(s)[Len(Written[n]) + 1] = T("nul")
<1> DEFINE L == Len(Written[n])
<1>1. s \in Seq(Token) /\ L \in Nat \ {0} /\ L + 2 <= Len(s)
  BY WrittenLonger DEF Buffer
<1>2. ASSUME NEW i \in 1 .. L PROVE s[i] # T("nul") /\ ~ IsDelimiter(s[i])
  <2>1. s[i] \in Digit
    <3>1. Written[n] \in Seq(Digit)
      BY WrittenIs
    <3> QED
      BY <3>1
  <2> QED
    BY <2>1 DEF Digit, T, IsDelimiter
<1>3. L + 1 \in TokenEnds(s)
  <2>1. L + 1 \in DOMAIN s /\ IsDelimiter(s[L + 1])
    BY <1>1 DEF IsDelimiter
  <2>2. 1 .. (L + 1) - 1 = 1 .. L /\ 1 \in 1 .. L
    BY <1>1
  <2> HIDE DEF L
  <2> QED
    BY <1>2, <2>1, <2>2 DEF TokenEnds
<1>4. \A i \in TokenEnds(s) : i \in Nat /\ i \notin 1 .. L /\ i \in DOMAIN s
  <2> HIDE DEF L
  <2> QED
    BY <1>1, <1>2 DEF TokenEnds
<1>5. TokenEnds(s) \in SUBSET Nat
  BY <1>4
<1>6. Min(TokenEnds(s)) = L + 1
  <2> HIDE DEF L
  <2>1. Min(TokenEnds(s)) \in TokenEnds(s) /\ Min(TokenEnds(s)) <= L + 1
    BY <1>3, <1>5, MinIs
  <2>2. Min(TokenEnds(s)) \in Nat /\ Min(TokenEnds(s)) \notin 1 .. L /\ Min(TokenEnds(s)) # 0
    BY <1>1, <1>4, <2>1
  <2> QED
    BY <1>1, <2>1, <2>2
<1>7. Strtok(s) = [s EXCEPT ![L + 1] = T("nul")]
  BY <1>3, <1>6 DEF Strtok
<1> HIDE DEF L
<1>8. Strtok(s)[L + 1] = T("nul") /\ \A i \in 1 .. L : Strtok(s)[i] = s[i]
  BY <1>1, <1>7
<1> QED
  BY <1>8 DEF L

\* What is received goes over the start of size_str.
LEMMA OverStart ==
    ASSUME NEW old \in Buffer, NEW got \in Seq(Token), Len(got) <= Len(old) - 1
    PROVE  LET b == got \o SubSeq(old, Len(got) + 1, Len(old))
           IN /\ b \in Buffer /\ Len(b) = Len(old)
              /\ \A i \in 1 .. Len(got) : b[i] = got[i]
<1> DEFINE rest == SubSeq(old, Len(got) + 1, Len(old))
           b == got \o rest
<1>1. old \in Seq(Token) /\ old[Len(old)] = T("nul") /\ Len(old) \in Nat /\ Len(got) \in Nat
  BY DEF Buffer
<1>2. /\ rest \in Seq(Token) /\ Len(rest) = Len(old) - Len(got)
      /\ rest[Len(rest)] = old[Len(old)]
  <2>1. \A i \in Len(got) + 1 .. Len(old) : old[i] \in Token
    BY <1>1
  <2> QED
    BY <1>1, <2>1, SubSeqProperties
<1> HIDE DEF rest
<1>3. /\ b \in Seq(Token) /\ Len(b) = Len(old)
      /\ \A i \in 1 .. Len(got) : b[i] = got[i]
      /\ b[Len(old)] = rest[Len(rest)]
  BY <1>1, <1>2, ConcatProperties
<1>4. b # <<>>
  BY <1>1, <1>3, EmptySeq
<1> QED
  BY <1>1, <1>2, <1>3, <1>4 DEF Buffer, rest

\* A size that arrives whole is read as what it is, whatever was there before.
LEMMA SizeRead ==
    ASSUME NEW n \in Nat, NEW old \in Buffer, Len(SizeMessage(n)) <= Len(old) - 1
    PROVE  LET got == SizeMessage(n)
           IN Atol(Strtok(got \o SubSeq(old, Len(got) + 1, Len(old)))) = n
<1> DEFINE got == SizeMessage(n)
           b == got \o SubSeq(old, Len(got) + 1, Len(old))
<1>1. /\ got \in Seq(Token) /\ Len(got) = Len(Written[n]) + 2 /\ Len(Written[n]) \in Nat \ {0}
      /\ \A i \in 1 .. Len(Written[n]) : got[i] = Written[n][i]
      /\ got[Len(Written[n]) + 1] = T("<")
  BY SizeMessageIs
<1>2. b \in Buffer /\ Len(b) = Len(old) /\ \A i \in 1 .. Len(got) : b[i] = got[i]
  BY <1>1, OverStart
<1> HIDE DEF b, got
<1>3. Len(Written[n]) + 2 <= Len(b) /\ Len(old) \in Nat
  BY <1>1, <1>2 DEF got, Buffer
<1>4. /\ \A i \in 1 .. Len(Written[n]) : b[i] = Written[n][i]
      /\ b[Len(Written[n]) + 1] = T("<")
  <2>1. Len(Written[n]) + 1 \in 1 .. Len(got) /\ 1 .. Len(Written[n]) \subseteq 1 .. Len(got)
    BY <1>1
  <2> QED
    BY <1>1, <1>2, <2>1
<1>5. /\ \A i \in 1 .. Len(Written[n]) : Strtok(b)[i] = Written[n][i]
      /\ Strtok(b)[Len(Written[n]) + 1] = T("nul")
  BY <1>2, <1>3, <1>4, StrtokSize
<1>6. Strtok(b) \in Buffer /\ Len(Strtok(b)) = Len(b)
  BY <1>2, StrtokTyped
<1>7. /\ Strtok(b) \in Seq(Token) /\ Strtok(b) # <<>> /\ Strtok(b)[Len(Strtok(b))] = T("nul")
      /\ Len(Written[n]) < Len(Strtok(b))
  BY <1>1, <1>3, <1>6 DEF Buffer
<1>8. Atol(Strtok(b)) = n
  BY <1>5, <1>7, AtolWritten
<1> QED
  BY <1>8 DEF b, got

LEMMA AtolTyped ==
    ASSUME NEW s \in Buffer
    PROVE  Atol(s) \in Nat
<1>1. PICK n \in Nat : \E v : Leading(n, s) /\ Values(v, n, s) /\ Atol(s) = v[n]
  BY AtolIs DEF Buffer
<1> QED
  BY <1>1 DEF Values

-----------------------------------------------------------------------------
(* The streams.                                                            *)

\* What recv returns is a first part, of no more than it was asked for, and
\* what is left then is the rest.
LEMMA ReceivedIs ==
    ASSUME NEW s \in Seq(Token), NEW link, NEW n \in Nat, NEW got \in Received(s, link, n)
    PROVE  /\ got \in Seq(Token) /\ Len(got) <= n /\ Len(got) <= Len(s)
           /\ \A i \in 1 .. Len(got) : got[i] = s[i]
           /\ After(s, got) \in Seq(Token) /\ Len(After(s, got)) = Len(s) - Len(got)
           /\ s = <<>> => link \in {"left", "gone"}
<1>1. Len(s) \in Nat /\ DOMAIN s = 1 .. Len(s)
  BY LenProperties
<1>2. CASE got = <<>>
  <2>1. got \in Seq(Token) /\ Len(got) = 0
    BY <1>2
  <2>2. \A i \in 1 .. Len(s) : s[i] \in Token
    BY <1>1
  <2>3. After(s, got) \in Seq(Token) /\ Len(After(s, got)) = Len(s)
    BY <1>1, <2>1, <2>2, SubSeqProperties DEF After
  <2> QED
    BY <1>1, <2>1, <2>3 DEF Received
<1>3. CASE got \in Prefixes(s, n) /\ s # <<>> /\ n # 0
  <2>1. Min({n, Len(s)}) \in {n, Len(s)} /\ Min({n, Len(s)}) <= n /\ Min({n, Len(s)}) <= Len(s)
    <3>1. {n, Len(s)} \in SUBSET Nat /\ {n, Len(s)} # {}
      BY <1>1
    <3> QED
      BY <3>1, MinIs
  <2>2. PICK k \in 1 .. Min({n, Len(s)}) : got = SubSeq(s, 1, k)
    BY <1>3 DEF Prefixes
  <2>3. k \in Nat /\ 1 <= k /\ k <= n /\ k <= Len(s)
    BY <1>1, <2>1, <2>2
  <2>4. \A i \in 1 .. Len(s) : s[i] \in Token
    BY <1>1
  <2>5. got \in Seq(Token) /\ Len(got) = k /\ \A i \in 1 .. k : got[i] = s[i]
    BY <1>1, <2>2, <2>3, <2>4, SubSeqProperties
  <2>6. After(s, got) \in Seq(Token) /\ Len(After(s, got)) = Len(s) - k
    <3>1. \A i \in k + 1 .. Len(s) : s[i] \in Token
      BY <2>3, <2>4
    <3>2. SubSeq(s, k + 1, Len(s)) \in Seq(Token)
      BY <1>1, <2>3, <3>1, SubSeqProperties
    <3>3. Len(SubSeq(s, k + 1, Len(s))) = IF k + 1 <= Len(s) THEN Len(s) - (k + 1) + 1 ELSE 0
      BY <1>1, <2>3, <3>1, SubSeqProperties
    <3>4. After(s, got) = SubSeq(s, k + 1, Len(s))
      BY <2>5 DEF After
    <3>5. \A l, j \in Nat : j <= l => (IF j + 1 <= l THEN l - (j + 1) + 1 ELSE 0) = l - j
      OBVIOUS
    <3>6. (IF k + 1 <= Len(s) THEN Len(s) - (k + 1) + 1 ELSE 0) = Len(s) - k
      BY <1>1, <2>3, <3>5, Zenon
    <3> QED
      BY <3>2, <3>3, <3>4, <3>6, Zenon
  <2> QED
    BY <1>3, <2>3, <2>5, <2>6
<1> QED
  BY <1>2, <1>3 DEF Received

\* What is received of the start of a file is the start of a file.
LEMMA BytesTyped ==
    ASSUME NEW n \in Nat
    PROVE  Bytes(n) \in Seq(Token) /\ Len(Bytes(n)) = n /\ \A i \in 1 .. n : Bytes(n)[i] = T("byte")
<1>1. T("byte") \in Token
  BY TextTokens
<1> HIDE DEF T, Token
<1> QED
  BY <1>1 DEF Bytes

LEMMA BytesAre ==
    ASSUME NEW s \in Seq(Token), \A i \in 1 .. Len(s) : s[i] = T("byte")
    PROVE  s = Bytes(Len(s))
<1>1. Len(s) \in Nat
  BY LenProperties
<1>2. Bytes(Len(s)) \in Seq(Token) /\ Len(Bytes(Len(s))) = Len(s)
      /\ \A i \in 1 .. Len(s) : Bytes(Len(s))[i] = T("byte")
  BY <1>1, BytesTyped
<1> HIDE DEF Bytes, T
<1> DEFINE b == Bytes(Len(s))
<1>3. b \in Seq(Token) /\ Len(b) = Len(s) /\ \A i \in 1 .. Len(s) : s[i] = b[i]
  BY <1>2
<1> HIDE DEF b
<1>4. s = b
  BY <1>1, <1>3, SeqEqual
<1> QED
  BY <1>4 DEF b

LEMMA BytesNext ==
    ASSUME NEW m \in Nat, NEW n \in Nat
    PROVE  Bytes(m) \o Bytes(n) = Bytes(m + n)
<1> DEFINE a == Bytes(m)
           b == Bytes(n)
<1>1. a \in Seq(Token) /\ Len(a) = m /\ \A i \in 1 .. m : a[i] = T("byte")
  BY BytesTyped
<1>2. b \in Seq(Token) /\ Len(b) = n /\ \A i \in 1 .. n : b[i] = T("byte")
  BY BytesTyped
<1> HIDE DEF a, b
<1>3. a \o b \in Seq(Token) /\ Len(a \o b) = m + n
  BY <1>1, <1>2, ConcatProperties
<1>4. ASSUME NEW i \in 1 .. m + n PROVE (a \o b)[i] = T("byte")
  <2>1. CASE i <= m
    <3>1. (a \o b)[i] = a[i] /\ i \in 1 .. m
      BY <1>1, <1>2, <2>1, ConcatProperties
    <3> QED
      BY <1>1, <3>1
  <2>2. CASE i > m
    <3>1. (a \o b)[i] = b[i - m] /\ i - m \in 1 .. n
      BY <1>1, <1>2, <2>2, ConcatProperties
    <3> QED
      BY <1>2, <3>1
  <2>3. i <= m \/ i > m
    OBVIOUS
  <2> QED
    BY <2>1, <2>2, <2>3, Zenon
<1>5. a \o b = Bytes(Len(a \o b))
  BY <1>3, <1>4, BytesAre
<1> QED
  BY <1>3, <1>5 DEF a, b

-----------------------------------------------------------------------------
(* What a step of a client does, connection by connection.                 *)

At == {"stat", "connect"} \cup Connected \cup Ended
EndsTyped ==
    /\ cpc \in [Clients -> At]
    /\ size \in [Clients -> Nat]
    /\ left \in [Clients -> Nat] /\ \A c \in Clients : left[c] <= size[c]
    /\ altered \in [Clients -> BOOLEAN]
    /\ clink \in [Clients -> Link] /\ slink \in [Clients -> Link]
    /\ up \in [Clients -> Seq(Token)] /\ down \in [Clients -> Seq(Token)]

\* What belongs to connection d stays as it is; and so for all but that of c.
Same(d) ==
    /\ cpc'[d] = cpc[d] /\ left'[d] = left[d] /\ altered'[d] = altered[d]
    /\ clink'[d] = clink[d] /\ slink'[d] = slink[d] /\ up'[d] = up[d] /\ down'[d] = down[d]
Frame(c) == size' = size /\ \A d \in Clients \ {c} : Same(d)

\* What the invariant says of one connection, with the server at stage.
Joint(stage, complete, c) ==
    /\ Meets(stage, cpc[c], size[c], clink[c], slink[c], up[c], down[c])
    /\ Sends(stage, complete, cpc[c], size[c], left[c], altered[c], up[c])

LEMMA ExceptAt ==
    ASSUME NEW V, NEW f \in [Clients -> V], NEW c \in Clients, NEW v \in V
    PROVE  /\ [f EXCEPT ![c] = v] \in [Clients -> V]
           /\ [f EXCEPT ![c] = v][c] = v
           /\ \A d \in Clients \ {c} : [f EXCEPT ![c] = v][d] = f[d]
OBVIOUS

LEMMA ClosingTyped ==
    ASSUME NEW link \in Link, NEW s
    PROVE  Closing(link, s) \in Link
BY DEF Closing, Link

\* A client that leaves: the types, the frame and the values.
Left(c, unread, to) ==
    /\ cpc'[c] = to /\ slink'[c] = Closing(slink[c], unread) /\ down'[c] = <<>>
    /\ left'[c] = 0 /\ altered'[c] = FALSE
LEMMA LeaveEffect ==
    ASSUME EndsTyped, NEW c \in Clients, NEW unread, NEW to \in At,
           LeaveWith(c, unread, to), UNCHANGED <<size, clink, up>>
    PROVE  EndsTyped' /\ Frame(c) /\ Left(c, unread, to) /\ clink'[c] = clink[c] /\ up'[c] = up[c]
<1>1. cpc' \in [Clients -> At] /\ cpc'[c] = to /\ \A d \in Clients \ {c} : cpc'[d] = cpc[d]
  <2>1. cpc' = [cpc EXCEPT ![c] = to] /\ cpc \in [Clients -> At]
    BY DEF LeaveWith, Client, EndsTyped
  <2> QED
    BY <2>1, ExceptAt
<1>2. slink' \in [Clients -> Link] /\ slink'[c] = Closing(slink[c], unread)
      /\ \A d \in Clients \ {c} : slink'[d] = slink[d]
  <2>1. slink' = [slink EXCEPT ![c] = Closing(slink[c], unread)] /\ slink \in [Clients -> Link]
    BY DEF LeaveWith, EndsTyped
  <2>2. Closing(slink[c], unread) \in Link
    BY <2>1, ClosingTyped
  <2> QED
    BY <2>1, <2>2, ExceptAt
<1>3. down' \in [Clients -> Seq(Token)] /\ down'[c] = <<>> /\ \A d \in Clients \ {c} : down'[d] = down[d]
  <2>1. down' = [down EXCEPT ![c] = <<>>] /\ down \in [Clients -> Seq(Token)] /\ <<>> \in Seq(Token)
    BY DEF LeaveWith, EndsTyped
  <2> QED
    BY <2>1, ExceptAt
<1>4. left' \in [Clients -> Nat] /\ left'[c] = 0 /\ \A d \in Clients \ {c} : left'[d] = left[d]
  <2>1. left' = [left EXCEPT ![c] = 0] /\ left \in [Clients -> Nat]
    BY DEF LeaveWith, EndsTyped
  <2> QED
    BY <2>1, ExceptAt
<1>5. altered' \in [Clients -> BOOLEAN] /\ altered'[c] = FALSE
      /\ \A d \in Clients \ {c} : altered'[d] = altered[d]
  <2>1. altered' = [altered EXCEPT ![c] = FALSE] /\ altered \in [Clients -> BOOLEAN]
    BY DEF LeaveWith, EndsTyped
  <2> QED
    BY <2>1, ExceptAt
<1>6. \A d \in Clients : left'[d] <= size'[d]
  <2> TAKE d \in Clients
  <2>1. CASE d = c
    BY <1>4, <2>1 DEF EndsTyped
  <2>2. CASE d # c
    BY <1>4, <2>2 DEF EndsTyped
  <2> QED
    BY <2>1, <2>2
<1>7. EndsTyped'
  BY <1>1, <1>2, <1>3, <1>4, <1>5, <1>6 DEF EndsTyped
<1>8. Frame(c)
  BY <1>1, <1>2, <1>3, <1>4, <1>5 DEF Frame, Same
<1> QED
  BY <1>1, <1>2, <1>3, <1>4, <1>5, <1>7, <1>8 DEF Left

\* Wherever it is in the exchange a client may fall; and with an answer it has
\* not read to its end, or with no server, it may go.
LEMMA LeaveJoint ==
    ASSUME NEW c \in Clients, NEW stage, NEW complete, NEW unread, NEW to \in Ended,
           Joint(stage, complete, c), cpc[c] \in Connected, Frame(c),
           Left(c, unread, to), clink'[c] = clink[c], up'[c] = up[c],
           \/ to \in Fallen /\ unread = down[c]
           \/ stage = "none"
           \/ stage \in {"file", "accepted"} /\ unread # <<>>
    PROVE  Joint(stage, complete, c)'
<1>1. Meets(stage, cpc[c], size[c], clink[c], slink[c], up[c], down[c])
  BY DEF Joint
<1>2. slink[c] = "open"
  BY <1>1 DEF Meets, Connected, Ended
<1>3. slink'[c] = IF unread = <<>> THEN "left" ELSE "aborted"
  BY <1>2 DEF Left, Closing
<1>4. cpc'[c] = to /\ down'[c] = <<>> /\ size' = size
  BY DEF Left, Frame
<1>5. Meets(stage, to, size[c], clink[c], slink'[c], up[c], <<>>)
  BY <1>1, <1>2, <1>3 DEF Meets, Connected, Ended, Fallen
<1>6. Sends(stage, complete, to, size[c], 0, FALSE, up[c])
  BY DEF Joint, Sends, Ended
<1> QED
  BY <1>4, <1>5, <1>6 DEF Joint, Left

\* A client that goes on: the types, the frame and the values.
Set(f, g, c, v) == g = [f EXCEPT ![c] = v]
LEMMA SetSame ==
    ASSUME NEW V, NEW f \in [Clients -> V], NEW c \in Clients
    PROVE  Set(f, f, c, f[c])
BY DEF Set

LEMMA GoEffect ==
    ASSUME EndsTyped, NEW c \in Clients, size' = size, slink' = slink,
           NEW to \in At, Set(cpc, cpc', c, to),
           NEW rest \in Nat, rest <= size[c], Set(left, left', c, rest),
           NEW emptied \in BOOLEAN, Set(altered, altered', c, emptied),
           NEW link \in Link, Set(clink, clink', c, link),
           NEW u \in Seq(Token), Set(up, up', c, u),
           NEW d \in Seq(Token), Set(down, down', c, d)
    PROVE  /\ EndsTyped' /\ Frame(c)
           /\ cpc'[c] = to /\ left'[c] = rest /\ altered'[c] = emptied
           /\ clink'[c] = link /\ slink'[c] = slink[c] /\ up'[c] = u /\ down'[c] = d
<1>1. cpc' \in [Clients -> At] /\ cpc'[c] = to /\ \A e \in Clients \ {c} : cpc'[e] = cpc[e]
  <2>1. cpc \in [Clients -> At] /\ cpc' = [cpc EXCEPT ![c] = to]
    BY DEF EndsTyped, Set
  <2> QED
    BY <2>1, ExceptAt
<1>2. left' \in [Clients -> Nat] /\ left'[c] = rest /\ \A e \in Clients \ {c} : left'[e] = left[e]
  <2>1. left \in [Clients -> Nat] /\ left' = [left EXCEPT ![c] = rest]
    BY DEF EndsTyped, Set
  <2> QED
    BY <2>1, ExceptAt
<1>3. altered' \in [Clients -> BOOLEAN] /\ altered'[c] = emptied
      /\ \A e \in Clients \ {c} : altered'[e] = altered[e]
  <2>1. altered \in [Clients -> BOOLEAN] /\ altered' = [altered EXCEPT ![c] = emptied]
    BY DEF EndsTyped, Set
  <2> QED
    BY <2>1, ExceptAt
<1>4. clink' \in [Clients -> Link] /\ clink'[c] = link /\ \A e \in Clients \ {c} : clink'[e] = clink[e]
  <2>1. clink \in [Clients -> Link] /\ clink' = [clink EXCEPT ![c] = link]
    BY DEF EndsTyped, Set
  <2> QED
    BY <2>1, ExceptAt
<1>5. up' \in [Clients -> Seq(Token)] /\ up'[c] = u /\ \A e \in Clients \ {c} : up'[e] = up[e]
  <2>1. up \in [Clients -> Seq(Token)] /\ up' = [up EXCEPT ![c] = u]
    BY DEF EndsTyped, Set
  <2> QED
    BY <2>1, ExceptAt
<1>6. down' \in [Clients -> Seq(Token)] /\ down'[c] = d /\ \A e \in Clients \ {c} : down'[e] = down[e]
  <2>1. down \in [Clients -> Seq(Token)] /\ down' = [down EXCEPT ![c] = d]
    BY DEF EndsTyped, Set
  <2> QED
    BY <2>1, ExceptAt
<1>7. \A e \in Clients : left'[e] <= size'[e]
  <2> TAKE e \in Clients
  <2>1. CASE e = c
    BY <1>2, <2>1
  <2>2. CASE e # c
    BY <1>2, <2>2 DEF EndsTyped
  <2> QED
    BY <2>1, <2>2
<1>8. EndsTyped'
  BY <1>1, <1>2, <1>3, <1>4, <1>5, <1>6, <1>7 DEF EndsTyped
<1>9. Frame(c)
  BY <1>1, <1>2, <1>3, <1>4, <1>5, <1>6 DEF Frame, Same
<1> QED
  BY <1>1, <1>2, <1>3, <1>4, <1>5, <1>6, <1>8, <1>9

LEMMA Still ==
    ASSUME EndsTyped, NEW c \in Clients
    PROVE  /\ cpc[c] \in At /\ Set(cpc, cpc, c, cpc[c])
           /\ left[c] \in Nat /\ left[c] <= size[c] /\ Set(left, left, c, left[c])
           /\ altered[c] \in BOOLEAN /\ Set(altered, altered, c, altered[c])
           /\ clink[c] \in Link /\ Set(clink, clink, c, clink[c])
           /\ up[c] \in Seq(Token) /\ Set(up, up, c, up[c])
           /\ down[c] \in Seq(Token) /\ Set(down, down, c, down[c])
<1>1. cpc[c] \in At /\ Set(cpc, cpc, c, cpc[c])
  BY SetSame DEF EndsTyped
<1>2. left[c] \in Nat /\ left[c] <= size[c] /\ Set(left, left, c, left[c])
  BY SetSame DEF EndsTyped
<1>3. altered[c] \in BOOLEAN /\ Set(altered, altered, c, altered[c])
  BY SetSame DEF EndsTyped
<1>4. clink[c] \in Link /\ Set(clink, clink, c, clink[c])
  BY SetSame DEF EndsTyped
<1>5. up[c] \in Seq(Token) /\ Set(up, up, c, up[c])
  BY SetSame DEF EndsTyped
<1>6. down[c] \in Seq(Token) /\ Set(down, down, c, down[c])
  BY SetSame DEF EndsTyped
<1> QED
  BY <1>1, <1>2, <1>3, <1>4, <1>5, <1>6

\* tcp_send of a client: sent, lost, or the client ends.
Going(c, rest, to) ==
    /\ cpc'[c] = to /\ left'[c] = rest /\ altered'[c] = altered[c]
    /\ slink'[c] = slink[c] /\ down'[c] = down[c]
LEMMA SendEffect ==
    ASSUME EndsTyped, NEW c \in Clients, NEW message \in Seq(Token), NEW rest \in Nat,
           rest <= size[c], NEW to \in At, Send(c, message, rest, to), UNCHANGED size
    PROVE  /\ EndsTyped' /\ Frame(c)
           /\ \/ /\ clink[c] = "open" /\ Going(c, rest, to)
                 /\ clink'[c] = clink[c] /\ up'[c] = up[c] \o message
              \/ clink[c] # "open" /\ Going(c, rest, to) /\ clink'[c] # "open" /\ up'[c] = up[c]
              \/ /\ clink[c] # "open" /\ clink'[c] = clink[c] /\ up'[c] = up[c]
                 /\ \E end \in {"failed", "killed"} : Left(c, down[c], end)
<1> DEFINE Concl == /\ EndsTyped' /\ Frame(c)
                    /\ \/ /\ clink[c] = "open" /\ Going(c, rest, to)
                          /\ clink'[c] = clink[c] /\ up'[c] = up[c] \o message
                       \/ clink[c] # "open" /\ Going(c, rest, to) /\ clink'[c] # "open" /\ up'[c] = up[c]
                       \/ /\ clink[c] # "open" /\ clink'[c] = clink[c] /\ up'[c] = up[c]
                          /\ \E end \in {"failed", "killed"} : Left(c, down[c], end)
<1>0. /\ clink[c] \in Link /\ up[c] \in Seq(Token) /\ down[c] \in Seq(Token) /\ altered[c] \in BOOLEAN
      /\ Set(clink, clink, c, clink[c]) /\ Set(up, up, c, up[c]) /\ Set(down, down, c, down[c])
      /\ Set(altered, altered, c, altered[c])
  BY Still
<1>1. CASE /\ clink[c] = "open"
           /\ up' = [up EXCEPT ![c] = up[c] \o message]
           /\ Client(c, to)
           /\ left' = [left EXCEPT ![c] = rest]
           /\ UNCHANGED <<clink, slink, down, altered>>
  <2> DEFINE u == up[c] \o message
  <2>1. u \in Seq(Token)
    BY <1>0, ConcatProperties
  <2>2. Set(cpc, cpc', c, to) /\ Set(left, left', c, rest) /\ Set(up, up', c, u)
    BY <1>1 DEF Set, Client
  <2> HIDE DEF u
  <2>3. Set(clink, clink', c, clink[c]) /\ Set(down, down', c, down[c]) /\ Set(altered, altered', c, altered[c])
    BY <1>0, <1>1
  <2>0. size' = size /\ slink' = slink
    BY <1>1
  <2>4. /\ EndsTyped' /\ Frame(c)
        /\ cpc'[c] = to /\ left'[c] = rest /\ altered'[c] = altered[c]
        /\ clink'[c] = clink[c] /\ slink'[c] = slink[c]
        /\ up'[c] = u /\ down'[c] = down[c]
    BY <1>0, <2>0, <2>1, <2>2, <2>3, GoEffect
  <2> QED
    BY <1>1, <2>4 DEF Going, u
<1>2. CASE /\ clink[c] = "left"
           /\ clink' \in {clink, [clink EXCEPT ![c] = "gone"]}
           /\ Client(c, to)
           /\ left' = [left EXCEPT ![c] = rest]
           /\ UNCHANGED <<slink, up, down, altered>>
  <2>1. PICK link \in {"left", "gone"} : Set(clink, clink', c, link)
    <3>1. CASE clink' = clink
      BY <1>0, <1>2, <3>1
    <3>2. CASE clink' = [clink EXCEPT ![c] = "gone"]
      BY <3>2 DEF Set
    <3> QED
      BY <1>2, <3>1, <3>2
  <2>2. Set(cpc, cpc', c, to) /\ Set(left, left', c, rest)
    BY <1>2 DEF Set, Client
  <2>3. Set(up, up', c, up[c]) /\ Set(down, down', c, down[c]) /\ Set(altered, altered', c, altered[c])
    BY <1>0, <1>2
  <2>4. link \in Link
    BY DEF Link
  <2>0. size' = size /\ slink' = slink
    BY <1>2
  <2>5. /\ EndsTyped' /\ Frame(c)
        /\ cpc'[c] = to /\ left'[c] = rest /\ altered'[c] = altered[c]
        /\ clink'[c] = link /\ slink'[c] = slink[c] /\ up'[c] = up[c] /\ down'[c] = down[c]
    BY <1>0, <2>0, <2>1, <2>2, <2>3, <2>4, GoEffect
  <2> QED
    BY <1>2, <2>1, <2>5 DEF Going
<1>3. ASSUME NEW end \in {"failed", "killed"}, clink[c] # "open", Leave(c, end), UNCHANGED <<clink, up>>
      PROVE  Concl
  <2>1. end \in At /\ LeaveWith(c, down[c], end)
    BY <1>3 DEF Leave, At, Ended
  <2>2. EndsTyped' /\ Frame(c) /\ Left(c, down[c], end) /\ clink'[c] = clink[c] /\ up'[c] = up[c]
    BY <1>3, <2>1, LeaveEffect
  <2> QED
    BY <1>3, <2>2
<1> QED
  BY <1>1, <1>2, <1>3 DEF Send

-----------------------------------------------------------------------------
(* The steps of a client.  Each is one of a client that has not ended; it  *)
(* keeps the types, leaves the other connections alone, and keeps what the *)
(* invariant says of its own, wherever the server is with it.              *)

Stages == {"none", "waiting", "size", "ack", "file", "accepted"}
Kept(c) ==
    /\ EndsTyped' /\ Frame(c) /\ cpc[c] \notin Ended
    /\ \A stage \in Stages, complete \in BOOLEAN :
          Joint(stage, complete, c) => Joint(stage, complete, c)'

LEMMA FallKeeps ==
    ASSUME EndsTyped, NEW c \in Clients, cpc[c] \in Connected, NEW to \in Fallen,
           Leave(c, to), size' = size, clink' = clink, up' = up
    PROVE  Kept(c)
<1>1. to \in At /\ to \in Ended /\ LeaveWith(c, down[c], to)
  BY DEF Fallen, At, Ended, Leave
<1>2. EndsTyped' /\ Frame(c) /\ Left(c, down[c], to) /\ clink'[c] = clink[c] /\ up'[c] = up[c]
  BY <1>1, LeaveEffect
<1>3. ASSUME NEW stage \in Stages, NEW complete \in BOOLEAN, Joint(stage, complete, c)
      PROVE  Joint(stage, complete, c)'
  BY <1>1, <1>2, <1>3, LeaveJoint
<1>4. cpc[c] \notin Ended
  BY DEF Connected, Ended
<1> QED
  BY <1>2, <1>3, <1>4 DEF Kept

\* Before it is connected.
LEMMA TurnKeeps ==
    ASSUME EndsTyped, NEW c \in Clients, cpc[c] \in {"stat", "connect"},
           NEW to \in {"failed", "connect"}, Client(c, to), UNCHANGED <<size, left, altered, links>>
    PROVE  Kept(c)
<1>1. Set(cpc, cpc', c, to)
  BY DEF Client, Set
<1>2. to \in At
  BY DEF At, Ended
<1>3. /\ size' = size /\ slink' = slink /\ left' = left /\ altered' = altered
      /\ clink' = clink /\ up' = up /\ down' = down
  BY DEF links
<1>4. /\ left[c] \in Nat /\ left[c] <= size[c] /\ Set(left, left', c, left[c])
      /\ altered[c] \in BOOLEAN /\ Set(altered, altered', c, altered[c])
      /\ clink[c] \in Link /\ Set(clink, clink', c, clink[c])
      /\ up[c] \in Seq(Token) /\ Set(up, up', c, up[c])
      /\ down[c] \in Seq(Token) /\ Set(down, down', c, down[c])
  BY <1>3, Still
<1>5. /\ EndsTyped' /\ Frame(c)
      /\ cpc'[c] = to /\ left'[c] = left[c] /\ altered'[c] = altered[c]
      /\ clink'[c] = clink[c] /\ slink'[c] = slink[c] /\ up'[c] = up[c] /\ down'[c] = down[c]
  BY <1>1, <1>2, <1>3, <1>4, GoEffect
<1>6. ASSUME NEW stage \in Stages, NEW complete \in BOOLEAN, Joint(stage, complete, c)
      PROVE  Joint(stage, complete, c)'
  <2>1. Meets(stage, cpc[c], size[c], clink[c], slink[c], up[c], down[c])
    BY <1>6 DEF Joint
  <2>2. stage = "none" /\ Meets(stage, to, size[c], clink[c], slink[c], up[c], down[c])
    BY <2>1 DEF Meets, Ended
  <2>3. Sends(stage, complete, to, size[c], left[c], altered[c], up[c])
    BY <2>2 DEF Sends
  <2> QED
    BY <1>3, <1>5, <2>2, <2>3 DEF Joint
<1> QED
  BY <1>2, <1>5, <1>6 DEF Kept, Ended

LEMMA StatKeeps ==
    ASSUME EndsTyped, NEW c \in Clients, Stat(c)
    PROVE  Kept(c)
BY TurnKeeps DEF Stat

LEMMA SendSizeKeeps ==
    ASSUME EndsTyped, NEW c \in Clients, SendSize(c)
    PROVE  Kept(c)
<1>0. cpc[c] = "size" /\ size' = size /\ size[c] \in Nat
  BY DEF SendSize, EndsTyped
<1>1. SizeMessage(size[c]) \in Seq(Token)
  BY <1>0, SizeMessageIs
<1> DEFINE message == SizeMessage(size[c])
<1>2. CASE Send(c, message, 0, "ack")
  <2>1. 0 <= size[c] /\ "ack" \in At
    BY <1>0 DEF At, Connected
  <2> HIDE DEF message
  <2>2. /\ EndsTyped' /\ Frame(c)
        /\ \/ /\ clink[c] = "open" /\ Going(c, 0, "ack")
              /\ clink'[c] = clink[c] /\ up'[c] = up[c] \o message
           \/ clink[c] # "open" /\ Going(c, 0, "ack") /\ clink'[c] # "open" /\ up'[c] = up[c]
           \/ /\ clink[c] # "open" /\ clink'[c] = clink[c] /\ up'[c] = up[c]
              /\ \E end \in {"failed", "killed"} : Left(c, down[c], end)
    BY <1>0, <1>1, <1>2, <2>1, SendEffect DEF message
  <2>3. ASSUME NEW stage \in Stages, NEW complete \in BOOLEAN, Joint(stage, complete, c)
        PROVE  Joint(stage, complete, c)'
    <3>1. Meets(stage, "size", size[c], clink[c], slink[c], up[c], down[c])
      BY <1>0, <2>3 DEF Joint
    <3>2. clink[c] = "open" \/ stage = "none"
      BY <3>1 DEF Meets
    <3>3. stage \in {"none", "waiting", "size"} /\ (stage # "none" => up[c] = <<>>)
      BY <3>1 DEF Meets, Stages
    <3>4. CASE clink[c] = "open" /\ Going(c, 0, "ack") /\ clink'[c] = clink[c] /\ up'[c] = up[c] \o message
      <4>1. stage # "none" => up'[c] = SizeMessage(size[c])
        BY <1>1, <3>3, <3>4, ConcatEmptySeq DEF message
      <4>2. Meets(stage, "ack", size[c], clink[c], slink[c], up'[c], down[c])
        BY <3>1, <3>3, <4>1 DEF Meets, Ended
      <4>3. Sends(stage, complete, "ack", size[c], 0, altered[c], up'[c])
        BY <3>3 DEF Sends
      <4> QED
        BY <1>0, <3>4, <4>2, <4>3 DEF Joint, Going
    <3>5. CASE clink[c] # "open" /\ Going(c, 0, "ack") /\ up'[c] = up[c]
      <4>1. stage = "none"
        BY <3>2, <3>5
      <4>2. Meets(stage, "ack", size[c], clink'[c], slink[c], up[c], down[c])
        BY <3>1, <4>1 DEF Meets, Ended
      <4>3. Sends(stage, complete, "ack", size[c], 0, altered[c], up[c])
        BY <4>1 DEF Sends
      <4> QED
        BY <1>0, <3>5, <4>2, <4>3 DEF Joint, Going
    <3>6. CASE /\ clink[c] # "open" /\ clink'[c] = clink[c] /\ up'[c] = up[c]
               /\ \E end \in {"failed", "killed"} : Left(c, down[c], end)
      <4>1. PICK end \in {"failed", "killed"} : Left(c, down[c], end)
        BY <3>6
      <4>2. end \in Ended /\ cpc[c] \in Connected /\ stage = "none"
        BY <1>0, <3>2, <3>6 DEF Ended, Connected
      <4> QED
        BY <2>2, <2>3, <3>6, <4>1, <4>2, LeaveJoint
    <3> QED
      BY <2>2, <3>4, <3>5, <3>6
  <2> QED
    BY <1>0, <2>2, <2>3 DEF Kept, Ended
<1>3. CASE Leave(c, "crashed") /\ UNCHANGED <<clink, up>>
  BY <1>0, <1>3, FallKeeps DEF Connected, Fallen
<1> QED
  BY <1>2, <1>3 DEF SendSize

\* A recv that fails, and the client leaves.
LEMMA FailKeeps ==
    ASSUME EndsTyped, NEW c \in Clients, cpc[c] \in {"ack", "final"}, RecvFails(down[c], clink[c]),
           Leave(c, "failed"), size' = size, clink' = clink, up' = up
    PROVE  Kept(c)
<1>1. "failed" \in At /\ "failed" \in Ended /\ LeaveWith(c, down[c], "failed")
  BY DEF At, Ended, Leave
<1>2. /\ EndsTyped' /\ Frame(c) /\ Left(c, down[c], "failed")
      /\ clink'[c] = clink[c] /\ up'[c] = up[c]
  BY <1>1, LeaveEffect
<1>3. cpc[c] \in Connected /\ cpc[c] \notin Ended
  BY DEF Connected, Ended
<1>4. ASSUME NEW stage \in Stages, NEW complete \in BOOLEAN, Joint(stage, complete, c)
      PROVE  Joint(stage, complete, c)'
  <2>1. stage = "none"
    BY <1>4 DEF Joint, Meets, RecvFails
  <2> QED
    BY <1>1, <1>2, <1>3, <1>4, <2>1, LeaveJoint
<1> QED
  BY <1>2, <1>3, <1>4 DEF Kept

\* A client that has received what it takes for an answer closes.
LEMMA DoneKeeps ==
    ASSUME EndsTyped, NEW c \in Clients, cpc[c] \in {"ack", "final"},
           NEW got \in Received(down[c], clink[c], Len(down[c])),
           cpc[c] = "ack" => got # SmallFile,
           LeaveWith(c, After(down[c], got), "done"), size' = size, clink' = clink, up' = up
    PROVE  Kept(c)
<1> DEFINE unread == After(down[c], got)
<1>1. "done" \in At /\ "done" \in Ended
  BY DEF At, Ended
<1>2. /\ EndsTyped' /\ Frame(c) /\ Left(c, unread, "done")
      /\ clink'[c] = clink[c] /\ up'[c] = up[c]
  BY <1>1, LeaveEffect
<1>3. cpc[c] \in Connected /\ cpc[c] \notin Ended
  BY DEF Connected, Ended
<1>4. /\ got \in Seq(Token) /\ Len(got) <= Len(down[c])
      /\ \A i \in 1 .. Len(got) : got[i] = down[c][i]
      /\ Len(unread) = Len(down[c]) - Len(got)
      /\ down[c] = <<>> => clink[c] \in {"left", "gone"}
  <2>1. down[c] \in Seq(Token) /\ Len(down[c]) \in Nat
    BY DEF EndsTyped
  <2> QED
    BY <2>1, ReceivedIs, SMTT(30)
<1> HIDE DEF unread
<1>5. ASSUME NEW stage \in Stages, NEW complete \in BOOLEAN, Joint(stage, complete, c)
      PROVE  Joint(stage, complete, c)'
  <2>1. Meets(stage, cpc[c], size[c], clink[c], slink[c], up[c], down[c])
    BY <1>5 DEF Joint
  <2>2. stage # "none" => clink[c] = "open"
    BY <2>1 DEF Meets
  <2>3. stage = "none" \/ down[c] # <<>>
    BY <1>4, <2>2
  <2>4. stage # "none" => stage \in {"file", "accepted"}
    BY <2>1, <2>3 DEF Meets, Stages
  <2>5. stage # "none" => cpc[c] = "ack" /\ down[c] = SmallFile
    BY <2>1, <2>3, <2>4 DEF Meets
  <2>6. ASSUME stage # "none" PROVE unread # <<>>
    <3>1. got # down[c] /\ down[c] \in Seq(Token) /\ Len(got) \in Nat /\ Len(down[c]) \in Nat
      BY <1>4, <2>5, <2>6 DEF EndsTyped
    <3>2. Len(got) # Len(down[c])
      BY <1>4, <3>1, SeqEqual
    <3>3. Len(unread) # 0
      BY <1>4, <3>1, <3>2
    <3> QED
      BY <3>3
  <2> QED
    BY <1>1, <1>2, <1>3, <1>5, <2>4, <2>6, LeaveJoint
<1> QED
  BY <1>2, <1>3, <1>5 DEF Kept

LEMMA ReadAckKeeps ==
    ASSUME EndsTyped, NEW c \in Clients, ReadAck(c)
    PROVE  Kept(c)
<1>0. cpc[c] = "ack" /\ size' = size /\ clink' = clink /\ up' = up
  BY DEF ReadAck
<1>1. CASE RecvFails(down[c], clink[c]) /\ Leave(c, "failed")
  BY <1>0, <1>1, FailKeeps
<1>2. ASSUME NEW got \in Received(down[c], clink[c], Len(down[c])), got # SmallFile,
             LeaveWith(c, After(down[c], got), "done")
      PROVE  Kept(c)
  BY <1>0, <1>2, DoneKeeps
<1>3. ASSUME NEW got \in Received(down[c], clink[c], Len(down[c])), got = SmallFile,
             down' = [down EXCEPT ![c] = After(@, got)], Client(c, "open"),
             UNCHANGED <<slink, left, altered>>
      PROVE  Kept(c)
  <2> DEFINE rest == After(down[c], got)
  <2>1. /\ rest \in Seq(Token) /\ Len(rest) = Len(down[c]) - Len(got)
        /\ down[c] = <<>> => clink[c] \in {"left", "gone"}
    <3>1. down[c] \in Seq(Token) /\ Len(down[c]) \in Nat
      BY DEF EndsTyped
    <3> QED
      BY <3>1, ReceivedIs
  <2>2. Set(cpc, cpc', c, "open") /\ Set(down, down', c, rest)
    BY <1>3 DEF Set, Client
  <2> HIDE DEF rest
  <2>3. slink' = slink /\ left' = left /\ altered' = altered
    BY <1>3
  <2>4. /\ left[c] \in Nat /\ left[c] <= size[c] /\ Set(left, left', c, left[c])
        /\ altered[c] \in BOOLEAN /\ Set(altered, altered', c, altered[c])
        /\ clink[c] \in Link /\ Set(clink, clink', c, clink[c])
        /\ up[c] \in Seq(Token) /\ Set(up, up', c, up[c])
    BY <1>0, <2>3, Still
  <2>5. "open" \in At
    BY DEF At, Connected
  <2>6. /\ EndsTyped' /\ Frame(c)
        /\ cpc'[c] = "open" /\ left'[c] = left[c] /\ altered'[c] = altered[c]
        /\ clink'[c] = clink[c] /\ slink'[c] = slink[c] /\ up'[c] = up[c] /\ down'[c] = rest
    BY <1>0, <2>1, <2>2, <2>3, <2>4, <2>5, GoEffect
  <2>7. ASSUME NEW stage \in Stages, NEW complete \in BOOLEAN, Joint(stage, complete, c)
        PROVE  Joint(stage, complete, c)'
    <3>1. Meets(stage, "ack", size[c], clink[c], slink[c], up[c], down[c])
      BY <1>0, <2>7 DEF Joint
    <3>2. stage # "none" => clink[c] = "open" /\ down[c] # <<>>
      BY <2>1, <3>1 DEF Meets
    <3>3. stage # "none" => stage \in {"file", "accepted"} /\ down[c] = SmallFile
      BY <3>1, <3>2 DEF Meets, Stages
    <3>4. stage # "none" => rest = <<>>
      <4>1. SmallFile \in Seq(Token) /\ Len(SmallFile) \in Nat
        BY TextTokens
      <4> QED
        BY <1>3, <2>1, <3>3, <4>1, EmptySeq
    <3>5. Meets(stage, "open", size[c], clink[c], slink[c], up[c], rest)
      BY <3>1, <3>3, <3>4 DEF Meets, Ended, Fallen
    <3>6. Sends(stage, complete, "ack", size[c], left[c], altered[c], up[c])
      BY <1>0, <2>7 DEF Joint
    <3>7. Sends(stage, complete, "open", size[c], left[c], altered[c], up[c])
      BY <3>6 DEF Sends
    <3> QED
      BY <1>0, <2>6, <3>5, <3>7 DEF Joint
  <2> QED
    BY <1>0, <2>6, <2>7 DEF Kept, Ended
<1> QED
  BY <1>1, <1>2, <1>3 DEF ReadAck

LEMMA ReadFinalKeeps ==
    ASSUME EndsTyped, NEW c \in Clients, ReadFinal(c)
    PROVE  Kept(c)
<1>0. cpc[c] = "final" /\ size' = size /\ clink' = clink /\ up' = up
  BY DEF ReadFinal
<1>1. CASE RecvFails(down[c], clink[c]) /\ Leave(c, "failed")
  BY <1>0, <1>1, FailKeeps
<1>2. ASSUME NEW got \in Received(down[c], clink[c], Len(down[c])),
             LeaveWith(c, After(down[c], got), "done")
      PROVE  Kept(c)
  BY <1>0, <1>2, DoneKeeps
<1> QED
  BY <1>1, <1>2 DEF ReadFinal

LEMMA OpenKeeps ==
    ASSUME EndsTyped, NEW c \in Clients, Open(c)
    PROVE  Kept(c)
<1>0. cpc[c] = "open" /\ size' = size /\ size[c] \in Nat
  BY DEF Open, EndsTyped
<1>1. CASE Leave(c, "crashed") /\ UNCHANGED <<clink, up>>
  BY <1>0, <1>1, FallKeeps DEF Connected, Fallen
<1>2. CASE /\ left' = [left EXCEPT ![c] = IF altered[c] THEN 0 ELSE size[c]]
           /\ Client(c, "sending")
           /\ UNCHANGED <<altered, links>>
  <2> DEFINE rest == IF altered[c] THEN 0 ELSE size[c]
  <2>1. rest \in Nat /\ rest <= size[c]
    BY <1>0
  <2>2. Set(cpc, cpc', c, "sending") /\ Set(left, left', c, rest)
    BY <1>2 DEF Set, Client
  <2>3. ~ altered[c] => rest = size[c]
    OBVIOUS
  <2> HIDE DEF rest
  <2>4. /\ slink' = slink /\ altered' = altered /\ clink' = clink /\ up' = up /\ down' = down
    BY <1>2 DEF links
  <2>5. /\ altered[c] \in BOOLEAN /\ Set(altered, altered', c, altered[c])
        /\ clink[c] \in Link /\ Set(clink, clink', c, clink[c])
        /\ up[c] \in Seq(Token) /\ Set(up, up', c, up[c])
        /\ down[c] \in Seq(Token) /\ Set(down, down', c, down[c])
    BY <2>4, Still
  <2>6. "sending" \in At
    BY DEF At, Connected
  <2>7. /\ EndsTyped' /\ Frame(c)
        /\ cpc'[c] = "sending" /\ left'[c] = rest /\ altered'[c] = altered[c]
        /\ clink'[c] = clink[c] /\ slink'[c] = slink[c] /\ up'[c] = up[c] /\ down'[c] = down[c]
    BY <1>0, <2>1, <2>2, <2>4, <2>5, <2>6, GoEffect
  <2>8. ASSUME NEW stage \in Stages, NEW complete \in BOOLEAN, Joint(stage, complete, c)
        PROVE  Joint(stage, complete, c)'
    <3>1. Meets(stage, "open", size[c], clink[c], slink[c], up[c], down[c])
      BY <1>0, <2>8 DEF Joint
    <3>2. Meets(stage, "sending", size[c], clink[c], slink[c], up[c], down[c])
      BY <3>1 DEF Meets, Ended, Fallen
    <3>3. Sends(stage, complete, "open", size[c], left[c], altered[c], up[c])
      BY <1>0, <2>8 DEF Joint
    <3>4. Sends(stage, complete, "sending", size[c], rest, altered[c], up[c])
      BY <2>1, <2>3, <3>3 DEF Sends
    <3> QED
      BY <1>0, <2>7, <3>2, <3>4 DEF Joint
  <2> QED
    BY <1>0, <2>7, <2>8 DEF Kept, Ended
<1> QED
  BY <1>1, <1>2 DEF Open

LEMMA EmptyKeeps ==
    ASSUME EndsTyped, NEW c \in Clients, Empty(c)
    PROVE  Kept(c)
<1>0. cpc[c] \in {"open", "sending"} /\ size[c] \in Nat
  BY DEF Empty, EndsTyped
<1>1. Set(left, left', c, 0) /\ Set(altered, altered', c, TRUE) /\ 0 <= size[c]
  BY <1>0 DEF Empty, Set
<1>2. /\ size' = size /\ slink' = slink /\ cpc' = cpc /\ clink' = clink /\ up' = up /\ down' = down
  BY DEF Empty, links
<1>3. /\ cpc[c] \in At /\ Set(cpc, cpc', c, cpc[c])
      /\ clink[c] \in Link /\ Set(clink, clink', c, clink[c])
      /\ up[c] \in Seq(Token) /\ Set(up, up', c, up[c])
      /\ down[c] \in Seq(Token) /\ Set(down, down', c, down[c])
  BY <1>2, Still
<1>4. /\ EndsTyped' /\ Frame(c)
      /\ cpc'[c] = cpc[c] /\ left'[c] = 0 /\ altered'[c] = TRUE
      /\ clink'[c] = clink[c] /\ slink'[c] = slink[c] /\ up'[c] = up[c] /\ down'[c] = down[c]
  BY <1>1, <1>2, <1>3, GoEffect
<1>5. ASSUME NEW stage \in Stages, NEW complete \in BOOLEAN, Joint(stage, complete, c)
      PROVE  Joint(stage, complete, c)'
  <2>1. Sends(stage, complete, cpc[c], size[c], left[c], altered[c], up[c])
    BY <1>5 DEF Joint
  <2>2. Sends(stage, complete, cpc[c], size[c], 0, TRUE, up[c])
    BY <1>0, <2>1 DEF Sends
  <2> QED
    BY <1>2, <1>4, <1>5, <2>2 DEF Joint
<1> QED
  BY <1>0, <1>4, <1>5 DEF Kept, Ended

LEMMA KilledKeeps ==
    ASSUME EndsTyped, NEW c \in Clients, Killed(c)
    PROVE  Kept(c)
BY FallKeeps DEF Killed, Fallen

LEMMA FreadIs ==
    ASSUME NEW n \in Nat
    PROVE  Fread(n) \in Nat /\ Fread(n) <= n /\ (Fread(n) = 0 => n = 0)
<1>1. MAX_FILE_SIZE \in Nat \ {0}
  BY TransferAssumption
<1>2. {n, MAX_FILE_SIZE} \in SUBSET Nat /\ {n, MAX_FILE_SIZE} # {}
  BY <1>1
<1>3. Min({n, MAX_FILE_SIZE}) \in {n, MAX_FILE_SIZE} /\ \A k \in {n, MAX_FILE_SIZE} : Min({n, MAX_FILE_SIZE}) <= k
  BY <1>2, MinIs
<1> QED
  BY <1>1, <1>3 DEF Fread

LEMMA SendFileKeeps ==
    ASSUME EndsTyped, NEW c \in Clients, SendFile(c)
    PROVE  Kept(c)
<1> DEFINE n == Fread(left[c])
           rest == left[c] - n
<1>0. /\ cpc[c] = "sending" /\ size' = size /\ size[c] \in Nat /\ left[c] \in Nat /\ left[c] <= size[c]
      /\ up[c] \in Seq(Token)
  BY DEF SendFile, EndsTyped
<1>1. n \in Nat /\ n <= left[c] /\ (n = 0 => left[c] = 0)
  BY <1>0, FreadIs
<1>2. "sending" \in At /\ "final" \in At
  BY DEF At, Connected
<1>3. \/ n > 0 /\ Send(c, Bytes(n), rest, "sending")
      \/ ~ (n > 0) /\ Client(c, "final") /\ left' = [left EXCEPT ![c] = 0] /\ UNCHANGED <<altered, links>>
  BY DEF SendFile
<1> HIDE DEF n
<1>4. CASE n > 0 /\ Send(c, Bytes(n), rest, "sending")
  <2>1. rest \in Nat /\ rest <= size[c] /\ rest + n = left[c] /\ rest < size[c]
    BY <1>0, <1>1, <1>4
  <2>2. Bytes(n) \in Seq(Token) /\ Len(Bytes(n)) = n
    BY <1>1, BytesTyped
  <2> HIDE DEF rest
  <2> DEFINE message == Bytes(n)
  <2> HIDE DEF message
  <2>3. message \in Seq(Token) /\ Send(c, message, rest, "sending")
    BY <1>4, <2>2 DEF message
  <2>4. /\ EndsTyped' /\ Frame(c)
        /\ \/ /\ clink[c] = "open" /\ Going(c, rest, "sending")
              /\ clink'[c] = clink[c] /\ up'[c] = up[c] \o message
           \/ clink[c] # "open" /\ Going(c, rest, "sending") /\ clink'[c] # "open" /\ up'[c] = up[c]
           \/ /\ clink[c] # "open" /\ clink'[c] = clink[c] /\ up'[c] = up[c]
              /\ \E end \in {"failed", "killed"} : Left(c, down[c], end)
    BY <1>0, <1>2, <2>1, <2>3, SendEffect
  <2>5. ASSUME NEW stage \in Stages, NEW complete \in BOOLEAN, Joint(stage, complete, c)
        PROVE  Joint(stage, complete, c)'
    <3>1. Meets(stage, "sending", size[c], clink[c], slink[c], up[c], down[c])
      BY <1>0, <2>5 DEF Joint
    <3>2. stage \in {"none", "file", "accepted"} /\ (clink[c] # "open" => stage = "none")
      BY <3>1 DEF Meets, Stages, Fallen
    <3>3. CASE /\ clink[c] = "open" /\ Going(c, rest, "sending")
               /\ clink'[c] = clink[c] /\ up'[c] = up[c] \o message
      <4>1. Meets(stage, "sending", size[c], clink[c], slink[c], up[c] \o message, down[c])
        BY <3>1, <3>2 DEF Meets
      <4>2. up[c] \o message # <<>>
        <5>1. up[c] \o message \in Seq(Token) /\ Len(up[c] \o message) = Len(up[c]) + Len(message)
              /\ Len(up[c]) \in Nat
          BY <1>0, <2>3, ConcatProperties
        <5>2. Len(up[c] \o message) > 0
          BY <1>1, <1>4, <2>2, <5>1 DEF message
        <5> QED
          BY <5>1, <5>2, EmptySeq
      <4>3. ASSUME stage = "file", complete
            PROVE  \E k \in 0 .. size[c] : up[c] \o message = Bytes(k) /\ k + rest <= size[c]
        <5>1. PICK k \in 0 .. size[c] : up[c] = Bytes(k) /\ k + left[c] <= size[c]
          BY <1>0, <2>5, <4>3 DEF Joint, Sends
        <5>2. up[c] \o message = Bytes(k + n) /\ k \in Nat
          <6>1. k \in Nat
            BY <1>0
          <6> QED
            BY <1>1, <5>1, <6>1, BytesNext DEF message
        <5>3. k + n \in 0 .. size[c] /\ (k + n) + rest <= size[c]
          BY <1>0, <1>1, <2>1, <5>1, <5>2
        <5> QED
          BY <5>2, <5>3
      <4>4. Sends(stage, complete, "sending", size[c], rest, altered[c], up[c] \o message)
        BY <3>2, <4>2, <4>3 DEF Sends
      <4> QED
        BY <1>0, <3>3, <4>1, <4>4 DEF Joint, Going
    <3>4. CASE clink[c] # "open" /\ Going(c, rest, "sending") /\ up'[c] = up[c]
      <4>1. stage = "none"
        BY <3>2, <3>4
      <4>2. Meets(stage, "sending", size[c], clink'[c], slink[c], up[c], down[c])
        BY <3>1, <4>1 DEF Meets
      <4>3. Sends(stage, complete, "sending", size[c], rest, altered[c], up[c])
        BY <4>1 DEF Sends
      <4> QED
        BY <1>0, <3>4, <4>2, <4>3 DEF Joint, Going
    <3>5. CASE /\ clink[c] # "open" /\ clink'[c] = clink[c] /\ up'[c] = up[c]
               /\ \E end \in {"failed", "killed"} : Left(c, down[c], end)
      <4>1. PICK end \in {"failed", "killed"} : Left(c, down[c], end)
        BY <3>5
      <4>2. end \in Ended /\ cpc[c] \in Connected /\ stage = "none"
        BY <1>0, <3>2, <3>5 DEF Ended, Connected
      <4> QED
        BY <2>4, <2>5, <3>5, <4>1, <4>2, LeaveJoint
    <3> QED
      BY <2>4, <3>3, <3>4, <3>5
  <2> QED
    BY <1>0, <2>4, <2>5 DEF Kept, Ended
<1>5. CASE /\ ~ (n > 0) /\ Client(c, "final")
           /\ left' = [left EXCEPT ![c] = 0] /\ UNCHANGED <<altered, links>>
  <2>1. left[c] = 0 /\ 0 <= size[c]
    BY <1>0, <1>1, <1>5
  <2>2. Set(cpc, cpc', c, "final") /\ Set(left, left', c, 0)
    BY <1>5 DEF Set, Client
  <2>3. slink' = slink /\ altered' = altered /\ clink' = clink /\ up' = up /\ down' = down
    BY <1>5 DEF links
  <2>4. /\ altered[c] \in BOOLEAN /\ Set(altered, altered', c, altered[c])
        /\ clink[c] \in Link /\ Set(clink, clink', c, clink[c])
        /\ up[c] \in Seq(Token) /\ Set(up, up', c, up[c])
        /\ down[c] \in Seq(Token) /\ Set(down, down', c, down[c])
    BY <2>3, Still
  <2>5. /\ EndsTyped' /\ Frame(c)
        /\ cpc'[c] = "final" /\ left'[c] = 0 /\ altered'[c] = altered[c]
        /\ clink'[c] = clink[c] /\ slink'[c] = slink[c] /\ up'[c] = up[c] /\ down'[c] = down[c]
    BY <1>0, <1>2, <2>1, <2>2, <2>3, <2>4, GoEffect
  <2>6. ASSUME NEW stage \in Stages, NEW complete \in BOOLEAN, Joint(stage, complete, c)
        PROVE  Joint(stage, complete, c)'
    <3>1. Meets(stage, "sending", size[c], clink[c], slink[c], up[c], down[c])
      BY <1>0, <2>6 DEF Joint
    <3>2. Meets(stage, "final", size[c], clink[c], slink[c], up[c], down[c])
      BY <3>1 DEF Meets, Ended, Fallen
    <3>3. Sends(stage, complete, "sending", size[c], left[c], altered[c], up[c])
      BY <1>0, <2>6 DEF Joint
    <3>4. Sends(stage, complete, "final", size[c], 0, altered[c], up[c])
      BY <2>1, <3>3 DEF Sends
    <3> QED
      BY <1>0, <2>5, <3>2, <3>4 DEF Joint
  <2> QED
    BY <1>0, <2>5, <2>6 DEF Kept, Ended
<1> QED
  BY <1>3, <1>4, <1>5

-----------------------------------------------------------------------------
(* The invariant, step by step: first the steps of the clients.            *)

LEMMA EndsAreTyped ==
    ASSUME TypeOK
    PROVE  EndsTyped
<1>1. Sizes \subseteq Nat
  BY TransferAssumption
<1> QED
  BY <1>1 DEF TypeOK, EndsTyped, At

LEMMA StageIs ==
    ASSUME TypeOK, NEW c \in Clients
    PROVE  Stage(c) \in Stages
BY DEF TypeOK, Stage, Stages, Serving

LEMMA JointIs ==
    ASSUME TransferInv, NEW c \in Clients
    PROVE  Joint(Stage(c), whole, c)
BY DEF TransferInv, Joint, Meeting, Sent

\* Where nothing of a connection changes.
LEMMA SameJoint ==
    ASSUME NEW c \in Clients, NEW stage, NEW complete, Same(c), size' = size,
           Joint(stage, complete, c)
    PROVE  Joint(stage, complete, c)'
BY DEF Same, Joint

\* A step of a client that leaves the server and its queue alone.
LEMMA QuietStep ==
    ASSUME TypeOK, TransferInv, NEW c \in Clients, Kept(c), UNCHANGED <<backlog, server>>
    PROVE  TypeOK' /\ TransferInv'
<1>1. EndsTyped' /\ Frame(c) /\ cpc[c] \notin Ended /\ size' = size
  BY DEF Kept, Frame
<1>2. /\ backlog' = backlog /\ spc' = spc /\ current' = current /\ size_str' = size_str
      /\ file_size' = file_size /\ content' = content /\ whole' = whole
  BY DEF server, serverData
<1>3. TypeOK'
  BY <1>1, <1>2 DEF TypeOK, EndsTyped, At
<1>4. ASSUME NEW d \in Clients PROVE (Meeting(d) /\ Sent(d))'
  <2>1. Stage(d)' = Stage(d)
    BY <1>2 DEF Stage, Waiting, Serving
  <2>2. PICK stage \in Stages : stage = Stage(d)
    BY StageIs
  <2>3. PICK complete \in BOOLEAN : complete = whole
    BY DEF TypeOK
  <2>4. Joint(stage, complete, d)
    BY <2>2, <2>3, JointIs
  <2>5. CASE d = c
    <3>1. Joint(stage, complete, c)'
      BY <2>4, <2>5 DEF Kept
    <3> QED
      BY <1>2, <2>1, <2>2, <2>3, <2>5, <3>1 DEF Joint, Meeting, Sent
  <2>6. CASE d # c
    <3>1. Same(d)
      BY <1>1, <2>6 DEF Frame
    <3>2. Joint(stage, complete, d)'
      BY <1>1, <2>4, <3>1, SameJoint
    <3> QED
      BY <1>2, <2>1, <2>2, <2>3, <3>2 DEF Joint, Meeting, Sent
  <2> QED
    BY <2>5, <2>6
<1>5. Queue'
  BY <1>2 DEF TransferInv, Queue, Waiting, Serving
<1>6. SizeDelimited'
  BY <1>1, <1>2 DEF TransferInv, SizeDelimited
<1>7. ServerSurvives'
  <2> SUFFICES ASSUME spc = "dead" PROVE \E d \in Clients : cpc'[d] \in {"killed", "crashed"}
    BY <1>2 DEF ServerSurvives
  <2>1. PICK d \in Clients : cpc[d] \in {"killed", "crashed"}
    BY DEF TransferInv, ServerSurvives
  <2>2. d # c
    BY <1>1, <2>1 DEF Ended
  <2> QED
    BY <1>1, <2>1, <2>2 DEF Frame, Same
<1> QED
  BY <1>3, <1>4, <1>5, <1>6, <1>7 DEF TransferInv

\* A client that connects queues behind the others.
LEMMA ConnectStep ==
    ASSUME TypeOK, TransferInv, NEW c \in Clients, Connect(c)
    PROVE  TypeOK' /\ TransferInv'
<1>0. EndsTyped /\ cpc[c] = "connect" /\ UNCHANGED <<size, left, altered, links, server>>
  BY EndsAreTyped DEF Connect
<1>1. CASE Client(c, "failed") /\ UNCHANGED backlog
  <2>1. Kept(c)
    BY <1>0, <1>1, TurnKeeps
  <2> QED
    BY <1>0, <1>1, <2>1, QuietStep
<1>2. CASE spc # "dead" /\ Client(c, "size") /\ backlog' = Append(backlog, c)
  <2>1. /\ size' = size /\ slink' = slink /\ left' = left /\ altered' = altered
        /\ clink' = clink /\ up' = up /\ down' = down
    BY <1>0 DEF links
  <2>2. /\ spc' = spc /\ current' = current /\ size_str' = size_str
        /\ file_size' = file_size /\ content' = content /\ whole' = whole
    BY <1>0 DEF server, serverData
  <2>3. Set(cpc, cpc', c, "size") /\ "size" \in At
    BY <1>2 DEF Set, Client, At, Connected
  <2>4. /\ left[c] \in Nat /\ left[c] <= size[c] /\ Set(left, left', c, left[c])
        /\ altered[c] \in BOOLEAN /\ Set(altered, altered', c, altered[c])
        /\ clink[c] \in Link /\ Set(clink, clink', c, clink[c])
        /\ up[c] \in Seq(Token) /\ Set(up, up', c, up[c])
        /\ down[c] \in Seq(Token) /\ Set(down, down', c, down[c])
    BY <1>0, <2>1, Still
  <2>5. EndsTyped' /\ Frame(c) /\ cpc'[c] = "size"
    BY <1>0, <2>1, <2>3, <2>4, GoEffect
  <2>6. backlog \in Seq(Clients) /\ Len(backlog) \in Nat /\ DOMAIN backlog = 1 .. Len(backlog)
    BY DEF TypeOK
  <2>7. /\ backlog' \in Seq(Clients) /\ DOMAIN backlog' = 1 .. Len(backlog) + 1
        /\ backlog'[Len(backlog) + 1] = c
        /\ \A i \in DOMAIN backlog : backlog'[i] = backlog[i]
    <3>1. /\ Append(backlog, c) \in Seq(Clients) /\ Len(Append(backlog, c)) = Len(backlog) + 1
          /\ Append(backlog, c)[Len(backlog) + 1] = c
          /\ \A i \in 1 .. Len(backlog) : Append(backlog, c)[i] = backlog[i]
      BY <2>6, AppendProperties
    <3> QED
      BY <1>2, <2>6, <3>1
  <2>8. /\ Meets(Stage(c), "connect", size[c], clink[c], slink[c], up[c], down[c])
    BY <1>0 DEF TransferInv, Meeting
  <2>9. /\ Stage(c) = "none" /\ clink[c] = "open" /\ slink[c] = "open"
        /\ up[c] = <<>> /\ down[c] = <<>>
    BY <2>8 DEF Meets, Ended
  <2>10. ~ Waiting(c) /\ ~ Serving(c)
    BY <2>9 DEF Stage, Serving
  <2>11. Waiting(c)' /\ \A d \in Clients \ {c} : Waiting(d)' <=> Waiting(d)
    <3>1. Len(backlog) + 1 \in DOMAIN backlog'
      BY <2>6, <2>7
    <3>2. \A i \in DOMAIN backlog' : i \in DOMAIN backlog \/ i = Len(backlog) + 1
      BY <2>6, <2>7
    <3>3. DOMAIN backlog \subseteq DOMAIN backlog'
      BY <2>6, <2>7
    <3> QED
      BY <2>7, <3>1, <3>2, <3>3 DEF Waiting
  <2>12. \A d \in Clients : Serving(d)' <=> Serving(d)
    BY <2>2 DEF Serving
  <2>13. ASSUME NEW d \in Clients PROVE (Meeting(d) /\ Sent(d))'
    <3>1. CASE d = c
      <4>1. Stage(c)' = "waiting"
        BY <2>11 DEF Stage
      <4>2. Meets("waiting", "size", size[c], "open", "open", <<>>, <<>>)
        BY DEF Meets, Ended
      <4>3. \A w, r, e : Sends("waiting", w, "size", size[c], r, e, <<>>)
        BY DEF Sends
      <4> QED
        BY <2>1, <2>5, <2>9, <3>1, <4>1, <4>2, <4>3 DEF Meeting, Sent
    <3>2. CASE d # c
      <4>1. Stage(d)' = Stage(d)
        BY <2>2, <2>11, <2>12, <3>2 DEF Stage
      <4>2. PICK stage \in Stages : stage = Stage(d)
        BY StageIs
      <4>3. PICK complete \in BOOLEAN : complete = whole
        BY DEF TypeOK
      <4>4. Joint(stage, complete, d) /\ Same(d)
        BY <2>5, <3>2, <4>2, <4>3, JointIs DEF Frame
      <4>5. Joint(stage, complete, d)'
        BY <2>1, <4>4, SameJoint
      <4> QED
        BY <2>2, <4>1, <4>2, <4>3, <4>5 DEF Joint, Meeting, Sent
    <3> QED
      BY <3>1, <3>2
  <2>14. Queue'
    <3>1. \A i, j \in DOMAIN backlog : backlog[i] = backlog[j] => i = j
      BY DEF TransferInv, Queue
    <3>2. \A i \in DOMAIN backlog : backlog[i] # c
      BY <2>10 DEF Waiting
    <3>3. \A i \in DOMAIN backlog' : i \in DOMAIN backlog \/ i = Len(backlog) + 1
      BY <2>6, <2>7
    <3>4. \A i, j \in DOMAIN backlog' : backlog'[i] = backlog'[j] => i = j
      BY <2>7, <3>1, <3>2, <3>3
    <3>5. \A d \in Clients : (Waiting(d) => ~ Serving(d))'
      <4>1. \A d \in Clients : Waiting(d) => ~ Serving(d)
        BY DEF TransferInv, Queue
      <4> QED
        BY <2>10, <2>11, <2>12, <4>1
    <3>6. (spc = "file" => file_size < MAX_FILE_SIZE)'
      BY <2>2 DEF TransferInv, Queue
    <3> QED
      BY <3>4, <3>5, <3>6 DEF Queue
  <2>15. SizeDelimited'
    BY <2>1, <2>2 DEF TransferInv, SizeDelimited
  <2>16. ServerSurvives'
    BY <1>2, <2>2 DEF ServerSurvives
  <2>17. TypeOK'
    BY <2>1, <2>2, <2>5, <2>7 DEF TypeOK, EndsTyped, At
  <2> QED
    BY <2>13, <2>14, <2>15, <2>16, <2>17 DEF TransferInv
<1> QED
  BY <1>0, <1>1, <1>2 DEF Connect

LEMMA ClientStep ==
    ASSUME TypeOK, TransferInv, NEW c \in Clients, Run(c) \/ Empty(c) \/ Killed(c)
    PROVE  TypeOK' /\ TransferInv'
<1>0. EndsTyped
  BY EndsAreTyped
<1>1. CASE Connect(c)
  BY <1>1, ConnectStep
<1>2. CASE Stat(c)
  <2>1. Kept(c) /\ UNCHANGED <<backlog, server>>
    BY <1>0, <1>2, StatKeeps DEF Stat
  <2> QED
    BY <2>1, QuietStep
<1>3. CASE SendSize(c)
  <2>1. Kept(c) /\ UNCHANGED <<backlog, server>>
    BY <1>0, <1>3, SendSizeKeeps DEF SendSize
  <2> QED
    BY <2>1, QuietStep
<1>4. CASE ReadAck(c)
  <2>1. Kept(c) /\ UNCHANGED <<backlog, server>>
    BY <1>0, <1>4, ReadAckKeeps DEF ReadAck
  <2> QED
    BY <2>1, QuietStep
<1>5. CASE Open(c)
  <2>1. Kept(c) /\ UNCHANGED <<backlog, server>>
    BY <1>0, <1>5, OpenKeeps DEF Open
  <2> QED
    BY <2>1, QuietStep
<1>6. CASE SendFile(c)
  <2>1. Kept(c) /\ UNCHANGED <<backlog, server>>
    BY <1>0, <1>6, SendFileKeeps DEF SendFile
  <2> QED
    BY <2>1, QuietStep
<1>7. CASE ReadFinal(c)
  <2>1. Kept(c) /\ UNCHANGED <<backlog, server>>
    BY <1>0, <1>7, ReadFinalKeeps DEF ReadFinal
  <2> QED
    BY <2>1, QuietStep
<1>8. CASE Empty(c)
  <2>1. Kept(c) /\ UNCHANGED <<backlog, server>>
    BY <1>0, <1>8, EmptyKeeps DEF Empty
  <2> QED
    BY <2>1, QuietStep
<1>9. CASE Killed(c)
  <2>1. Kept(c) /\ UNCHANGED <<backlog, server>>
    BY <1>0, <1>9, KilledKeeps DEF Killed
  <2> QED
    BY <2>1, QuietStep
<1> QED
  BY <1>1, <1>2, <1>3, <1>4, <1>5, <1>6, <1>7, <1>8, <1>9 DEF Run

-----------------------------------------------------------------------------
(* The steps of the server.                                                *)

Busy == {"size", "ack", "file", "accepted"}

LEMMA ServeEffect ==
    ASSUME EndsTyped, NEW c \in Clients, UNCHANGED client,
           NEW l \in Link, Set(clink, clink', c, l), NEW k \in Link, Set(slink, slink', c, k),
           NEW u \in Seq(Token), Set(up, up', c, u), NEW d \in Seq(Token), Set(down, down', c, d)
    PROVE  /\ EndsTyped' /\ Frame(c)
           /\ cpc'[c] = cpc[c] /\ size'[c] = size[c] /\ left'[c] = left[c] /\ altered'[c] = altered[c]
           /\ clink'[c] = l /\ slink'[c] = k /\ up'[c] = u /\ down'[c] = d
<1>1. cpc' = cpc /\ size' = size /\ left' = left /\ altered' = altered
  BY DEF client
<1>2. clink' \in [Clients -> Link] /\ clink'[c] = l /\ \A e \in Clients \ {c} : clink'[e] = clink[e]
  <2>1. clink \in [Clients -> Link] /\ clink' = [clink EXCEPT ![c] = l]
    BY DEF EndsTyped, Set
  <2> QED
    BY <2>1, ExceptAt
<1>3. slink' \in [Clients -> Link] /\ slink'[c] = k /\ \A e \in Clients \ {c} : slink'[e] = slink[e]
  <2>1. slink \in [Clients -> Link] /\ slink' = [slink EXCEPT ![c] = k]
    BY DEF EndsTyped, Set
  <2> QED
    BY <2>1, ExceptAt
<1>4. up' \in [Clients -> Seq(Token)] /\ up'[c] = u /\ \A e \in Clients \ {c} : up'[e] = up[e]
  <2>1. up \in [Clients -> Seq(Token)] /\ up' = [up EXCEPT ![c] = u]
    BY DEF EndsTyped, Set
  <2> QED
    BY <2>1, ExceptAt
<1>5. down' \in [Clients -> Seq(Token)] /\ down'[c] = d /\ \A e \in Clients \ {c} : down'[e] = down[e]
  <2>1. down \in [Clients -> Seq(Token)] /\ down' = [down EXCEPT ![c] = d]
    BY DEF EndsTyped, Set
  <2> QED
    BY <2>1, ExceptAt
<1>6. EndsTyped'
  BY <1>1, <1>2, <1>3, <1>4, <1>5 DEF EndsTyped
<1>7. Frame(c)
  BY <1>1, <1>2, <1>3, <1>4, <1>5 DEF Frame, Same
<1> QED
  BY <1>1, <1>2, <1>3, <1>4, <1>5, <1>6, <1>7

\* A step of the server with the client it serves leaves the others as they are.
LEMMA ServedStep ==
    ASSUME TypeOK, TransferInv, spc \in Busy, NEW c \in Clients, c = current,
           UNCHANGED <<client, backlog, current>>, EndsTyped', Frame(c),
           NEW to \in Busy \cup {"accept"}, spc' = to, NEW complete \in BOOLEAN, whole' = complete,
           size_str' \in Buffer, file_size' \in Nat, Len(content') < MAX_FILE_SIZE,
           to = "file" => file_size' < MAX_FILE_SIZE,
           Joint(IF to = "accept" THEN "none" ELSE to, complete, c)',
           SizeDelimited'
    PROVE  TypeOK' /\ TransferInv'
<1>1. backlog' = backlog /\ current' = current /\ size' = size /\ cpc' = cpc
  BY DEF client
<1>2. TypeOK'
  BY <1>1 DEF TypeOK, EndsTyped, At, Busy
<1>3. Serving(c) /\ ~ Waiting(c) /\ ~ Waiting(c)'
  BY <1>1 DEF Serving, Busy, TransferInv, Queue, Waiting
<1>4. ASSUME NEW d \in Clients PROVE (Meeting(d) /\ Sent(d))'
  <2>1. CASE d = c
    <3>1. Stage(c)' = IF to = "accept" THEN "none" ELSE to
      BY <1>1, <1>3 DEF Stage, Serving, Busy
    <3> QED
      BY <2>1, <3>1 DEF Joint, Meeting, Sent
  <2>2. CASE d # c
    <3>1. Stage(d)' = Stage(d) /\ Stage(d) \in {"none", "waiting"}
      BY <1>1, <2>2 DEF Stage, Serving, Waiting
    <3>2. PICK stage \in {"none", "waiting"} : stage = Stage(d)
      BY <3>1
    <3>3. Joint(stage, whole, d) /\ Same(d)
      BY <2>2, <3>2, JointIs DEF Frame
    <3>4. Joint(stage, complete, d)
      BY <3>3 DEF Joint, Sends
    <3>5. Joint(stage, complete, d)'
      BY <1>1, <3>3, <3>4, SameJoint
    <3> QED
      BY <3>1, <3>2, <3>5 DEF Joint, Meeting, Sent
  <2> QED
    BY <2>1, <2>2
<1>5. Queue'
  <2>1. \A i, j \in DOMAIN backlog : backlog[i] = backlog[j] => i = j
    BY DEF TransferInv, Queue
  <2>2. \A d \in Clients : (Waiting(d) => ~ Serving(d))'
    BY <1>1, <1>3 DEF Serving, Waiting
  <2> QED
    BY <1>1, <2>1, <2>2 DEF Queue
<1>6. ServerSurvives'
  BY DEF ServerSurvives, Busy
<1> QED
  BY <1>2, <1>4, <1>5, <1>6 DEF TransferInv

\* The connection is closed, whatever is unread on either side.
LEMMA CloseStep ==
    ASSUME TypeOK, TransferInv, spc \in Busy, NEW c \in Clients, c = current,
           UNCHANGED <<client, backlog, current, size_str>>, Close,
           NEW k \in Link, Set(slink, slink', c, k), NEW d \in Seq(Token), Set(down, down', c, d),
           k # slink[c] => slink[c] # "open"
    PROVE  TypeOK' /\ TransferInv'
<1>1. UNCHANGED client /\ size_str' = size_str /\ EndsTyped
  BY EndsAreTyped
<1> DEFINE l == Closing(clink[c], up[c])
<1>2. l \in Link
  <2>1. clink[c] \in Link
    BY DEF TypeOK
  <2> QED
    BY <2>1, ClosingTyped
<1>3. Set(clink, clink', c, l) /\ Set(up, up', c, <<>>) /\ <<>> \in Seq(Token)
  BY DEF Close, Set
<1> HIDE DEF l
<1>4. /\ EndsTyped' /\ Frame(c)
      /\ cpc'[c] = cpc[c] /\ size'[c] = size[c] /\ left'[c] = left[c] /\ altered'[c] = altered[c]
      /\ clink'[c] = l /\ slink'[c] = k /\ up'[c] = <<>> /\ down'[c] = d
  <2>1. EndsTyped /\ UNCHANGED client
    BY <1>1
  <2>2. k \in Link /\ d \in Seq(Token) /\ Set(slink, slink', c, k) /\ Set(down, down', c, d)
    OBVIOUS
  <2> QED
    BY <1>2, <1>3, <2>1, <2>2, ServeEffect, ZenonT(30)
<1>5. Stage(c) = spc
  BY DEF Stage, Serving, Busy, TransferInv, Queue
<1>6. Meets(spc, cpc[c], size[c], clink[c], slink[c], up[c], down[c])
  BY <1>5 DEF TransferInv, Meeting
<1>7. Meets("none", cpc[c], size[c], l, k, <<>>, d)
  BY <1>6 DEF Meets, Busy
<1>8. Sends("none", FALSE, cpc[c], size[c], left[c], altered[c], <<>>)
  BY DEF Sends
<1>9. Joint("none", FALSE, c)'
  BY <1>4, <1>7, <1>8 DEF Joint
<1>10. spc' = "accept" /\ whole' = FALSE /\ file_size' = 0 /\ content' = <<>>
  BY DEF Close, Server
<1>11. Len(<<>>) < MAX_FILE_SIZE
  BY TransferAssumption
<1>12. SizeDelimited'
  BY <1>10 DEF SizeDelimited
<1>13. size_str' \in Buffer
  BY <1>1 DEF TypeOK
<1> DEFINE to == "accept"
<1>14. to \in Busy \cup {"accept"} /\ spc' = to /\ (to = "file" => file_size' < MAX_FILE_SIZE)
       /\ Joint(IF to = "accept" THEN "none" ELSE to, FALSE, c)'
  BY <1>9, <1>10
<1> HIDE DEF to
<1> QED
  BY <1>4, <1>10, <1>11, <1>12, <1>13, <1>14, ServedStep

LEMMA Served ==
    ASSUME TypeOK, TransferInv, spc \in Busy, NEW c \in Clients, c = current
    PROVE  /\ Stage(c) = spc
           /\ Meets(spc, cpc[c], size[c], clink[c], slink[c], up[c], down[c])
           /\ Sends(spc, whole, cpc[c], size[c], left[c], altered[c], up[c])
<1>1. Stage(c) = spc
  BY DEF Stage, Serving, Busy, TransferInv, Queue
<1> QED
  BY <1>1 DEF TransferInv, Meeting, Sent

\* A size is read, and taken for whole only if it is.
LEMMA ReadSizeStep ==
    ASSUME TypeOK, TransferInv, ReadSize
    PROVE  TypeOK' /\ TransferInv'
<1>0. PICK c \in Clients : c = current
  BY DEF TypeOK
<1>1. EndsTyped /\ spc = "size" /\ spc \in Busy /\ UNCHANGED <<client, backlog, current>>
  BY EndsAreTyped DEF ReadSize, Busy
<1>2. /\ Meets("size", cpc[c], size[c], clink[c], slink[c], up[c], down[c])
  BY <1>0, <1>1, Served
<1>3. /\ size_str \in Buffer /\ size[c] \in Nat /\ up[c] \in Seq(Token)
      /\ Len(size_str) \in Nat \ {0}
  <2>1. size_str \in Buffer
    BY DEF TypeOK
  <2>2. size_str \in Seq(Token) /\ size_str # <<>>
    BY <2>1 DEF Buffer
  <2>3. Len(size_str) \in Nat \ {0}
    BY <2>2, EmptySeq
  <2> QED
    BY <1>1, <2>1, <2>3 DEF EndsTyped
<1>4. CASE /\ RecvFails(up[current], slink[current]) /\ Close
           /\ UNCHANGED <<size_str, slink, down>>
  BY <1>0, <1>2, <1>4 DEF RecvFails, Meets
<1>5. ASSUME NEW got \in Received(up[current], slink[current], Len(size_str) - 1),
             up' = [up EXCEPT ![current] = After(@, got)],
             size_str' = Strtok(got \o SubSeq(size_str, Len(got) + 1, Len(size_str))),
             file_size' = Atol(size_str'),
             whole' = (got = SizeMessage(size[current])),
             Server("ack"),
             UNCHANGED <<content, clink, slink, down>>
      PROVE  TypeOK' /\ TransferInv'
  <2> DEFINE u == After(up[c], got)
  <2>1. /\ got \in Seq(Token) /\ Len(got) <= Len(size_str) - 1 /\ Len(got) <= Len(up[c])
        /\ u \in Seq(Token) /\ Len(u) = Len(up[c]) - Len(got)
        /\ up[c] = <<>> => slink[c] \in {"left", "gone"}
    <3> DEFINE places == Len(size_str) - 1
    <3>1. got \in Received(up[c], slink[c], places) /\ places \in Nat
      BY <1>0, <1>3, <1>5
    <3> HIDE DEF places
    <3> DEFINE stream == up[c]
               link == slink[c]
    <3>2. stream \in Seq(Token) /\ got \in Received(stream, link, places)
      BY <1>3, <3>1
    <3> HIDE DEF stream, link
    <3>3. got \in Seq(Token) /\ Len(got) <= places /\ Len(got) <= Len(stream)
      BY <3>1, <3>2, ReceivedIs
    <3>4. After(stream, got) \in Seq(Token) /\ Len(After(stream, got)) = Len(stream) - Len(got)
      BY <3>1, <3>2, ReceivedIs
    <3>5. stream = <<>> => link \in {"left", "gone"}
      BY <3>1, <3>2, ReceivedIs
    <3> QED
      BY <3>3, <3>4, <3>5 DEF places, stream, link, u
  <2>2. Set(up, up', c, u)
    BY <1>0, <1>5 DEF Set
  <2> HIDE DEF u
  <2>3. /\ clink[c] \in Link /\ Set(clink, clink', c, clink[c])
        /\ slink[c] \in Link /\ Set(slink, slink', c, slink[c])
        /\ down[c] \in Seq(Token) /\ Set(down, down', c, down[c])
    <3>1. clink \in [Clients -> Link] /\ slink \in [Clients -> Link] /\ down \in [Clients -> Seq(Token)]
      BY <1>1 DEF EndsTyped
    <3>2. clink[c] \in Link /\ slink[c] \in Link /\ down[c] \in Seq(Token)
      BY <3>1
    <3> QED
      BY <1>5, <3>1, <3>2, SetSame
  <2>4. UNCHANGED client
    BY <1>1
  <2>5. /\ EndsTyped' /\ Frame(c)
        /\ cpc'[c] = cpc[c] /\ size'[c] = size[c] /\ left'[c] = left[c] /\ altered'[c] = altered[c]
        /\ clink'[c] = clink[c] /\ slink'[c] = slink[c] /\ up'[c] = u /\ down'[c] = down[c]
    BY <1>1, <2>1, <2>2, <2>3, <2>4, ServeEffect
  <2>6. PICK complete \in BOOLEAN : complete = (got = SizeMessage(size[c]))
    OBVIOUS
  <2>7. whole' = complete /\ spc' = "ack"
    BY <1>0, <1>5, <2>6 DEF Server
  <2>8. cpc[c] # "size"
    BY <1>2, <2>1 DEF Meets, Fallen
  <2>9. Meets("ack", cpc[c], size[c], clink[c], slink[c], u, down[c])
    BY <1>2, <2>8 DEF Meets
  <2>10. ASSUME complete PROVE u = <<>>
    <3>1. got = SizeMessage(size[c]) /\ Len(got) \in Nat \ {0}
      <4>1. Len(SizeMessage(size[c])) = Len(Written[size[c]]) + 2 /\ Len(Written[size[c]]) \in Nat \ {0}
        BY <1>3, SizeMessageIs
      <4>2. got = SizeMessage(size[c])
        BY <2>6, <2>10
      <4> QED
        BY <4>1, <4>2
    <3>2. up[c] # <<>>
      BY <2>1, <3>1
    <3>3. up[c] = got
      BY <1>2, <3>1, <3>2 DEF Meets
    <3>4. Len(u) = 0
      BY <2>1, <3>1, <3>3
    <3> QED
      BY <2>1, <3>4, EmptySeq
  <2>11. Sends("ack", complete, cpc[c], size[c], left[c], altered[c], u)
    <3>1. Bytes(0) = <<>>
      <4>1. Bytes(0) \in Seq(Token) /\ Len(Bytes(0)) = 0
        BY BytesTyped
      <4> QED
        BY <4>1, EmptySeq
    <3>2. cpc[c] \in {"size", "ack"} \cup Fallen
      BY <1>2 DEF Meets
    <3>3. 0 \in 0 .. size[c]
      BY <1>3
    <3>4. complete => u = Bytes(0)
      BY <2>10, <3>1
    <3> QED
      BY <3>2, <3>3, <3>4 DEF Sends, Fallen
  <2>12. Joint("ack", complete, c)'
    BY <2>5, <2>9, <2>11 DEF Joint
  <2> DEFINE b == got \o SubSeq(size_str, Len(got) + 1, Len(size_str))
  <2>13. b \in Buffer
    BY <1>3, <2>1, OverStart
  <2>14. size_str' = Strtok(b) /\ size_str' \in Buffer
    BY <1>5, <2>13, StrtokTyped
  <2>15. file_size' \in Nat
    BY <1>5, <2>14, AtolTyped
  <2>16. ASSUME complete PROVE file_size' = size[c]
    <3>1. got = SizeMessage(size[c])
      BY <2>6, <2>16
    <3>2. Len(SizeMessage(size[c])) <= Len(size_str) - 1
      BY <2>1, <3>1
    <3>3. Atol(Strtok(b)) = size[c]
      BY <1>3, <3>1, <3>2, SizeRead
    <3>4. file_size' = Atol(Strtok(b))
      BY <1>5, <2>14
    <3> QED
      BY <3>3, <3>4
  <2> HIDE DEF b
  <2>17. SizeDelimited'
    <3>1. current' = c /\ size'[c] = size[c]
      BY <1>0, <1>1, <2>5
    <3> QED
      BY <2>7, <2>16, <3>1 DEF SizeDelimited
  <2>18. Len(content') < MAX_FILE_SIZE
    BY <1>5 DEF TypeOK
  <2> DEFINE to == "ack"
  <2>19. to \in Busy \cup {"accept"} /\ spc' = to /\ (to = "file" => file_size' < MAX_FILE_SIZE)
         /\ Joint(IF to = "accept" THEN "none" ELSE to, complete, c)'
    BY <2>7, <2>12 DEF Busy
  <2> HIDE DEF to
  <2> QED
    BY <1>0, <1>1, <2>5, <2>7, <2>14, <2>15, <2>17, <2>18, <2>19, ServedStep
<1> QED
  BY <1>4, <1>5 DEF ReadSize

\* The first part of the file that is there is taken for all of it.
LEMMA ReadFileStep ==
    ASSUME TypeOK, TransferInv, ReadFile
    PROVE  TypeOK' /\ TransferInv'
<1>0. PICK c \in Clients : c = current
  BY DEF TypeOK
<1>1. /\ EndsTyped /\ spc = "file" /\ spc \in Busy
      /\ UNCHANGED <<client, backlog, current>> /\ size_str' = size_str
  BY EndsAreTyped DEF ReadFile, Busy
<1>2. /\ Meets("file", cpc[c], size[c], clink[c], slink[c], up[c], down[c])
      /\ Sends("file", whole, cpc[c], size[c], left[c], altered[c], up[c])
  BY <1>0, <1>1, Served
<1>3. size[c] \in Nat /\ up[c] \in Seq(Token) /\ file_size \in Nat /\ file_size < MAX_FILE_SIZE
  BY <1>1 DEF EndsTyped, TypeOK, TransferInv, Queue
<1>4. /\ clink[c] \in Link /\ Set(clink, clink, c, clink[c])
      /\ slink[c] \in Link /\ Set(slink, slink, c, slink[c])
      /\ down[c] \in Seq(Token) /\ Set(down, down, c, down[c])
  <2>1. clink \in [Clients -> Link] /\ slink \in [Clients -> Link] /\ down \in [Clients -> Seq(Token)]
    BY <1>1 DEF EndsTyped
  <2>2. clink[c] \in Link /\ slink[c] \in Link /\ down[c] \in Seq(Token)
    BY <2>1
  <2> QED
    BY <2>1, <2>2, SetSame
<1>5. CASE RecvFails(up[current], slink[current]) /\ Close /\ UNCHANGED <<slink, down>>
  <2>1. Close /\ Set(slink, slink', c, slink[c]) /\ Set(down, down', c, down[c])
    BY <1>4, <1>5
  <2>2. UNCHANGED <<client, backlog, current, size_str>>
    BY <1>1
  <2> QED
    BY <1>0, <1>1, <1>4, <2>1, <2>2, CloseStep
<1>6. ASSUME NEW got \in Received(up[current], slink[current], file_size),
             content' = got,
             up' = [up EXCEPT ![current] = After(@, got)],
             Server("accepted"),
             UNCHANGED <<file_size, whole, clink, slink, down>>
      PROVE  TypeOK' /\ TransferInv'
  <2> DEFINE u == After(up[c], got)
  <2>1. /\ got \in Seq(Token) /\ Len(got) <= file_size /\ Len(got) <= Len(up[c])
        /\ \A i \in 1 .. Len(got) : got[i] = up[c][i]
        /\ u \in Seq(Token)
    <3>1. got \in Received(up[c], slink[c], file_size)
      BY <1>0, <1>6
    <3> QED
      BY <1>3, <3>1, ReceivedIs
  <2>2. Set(up, up', c, u)
    BY <1>0, <1>6 DEF Set
  <2> HIDE DEF u
  <2>3. Set(clink, clink', c, clink[c]) /\ Set(slink, slink', c, slink[c]) /\ Set(down, down', c, down[c])
    BY <1>4, <1>6
  <2>4. UNCHANGED client
    BY <1>1
  <2>5. /\ EndsTyped' /\ Frame(c)
        /\ cpc'[c] = cpc[c] /\ size'[c] = size[c] /\ left'[c] = left[c] /\ altered'[c] = altered[c]
        /\ clink'[c] = clink[c] /\ slink'[c] = slink[c] /\ up'[c] = u /\ down'[c] = down[c]
    BY <1>1, <1>4, <2>1, <2>2, <2>3, <2>4, ServeEffect
  <2>6. PICK complete \in BOOLEAN : complete = whole
    BY DEF TypeOK
  <2>7. /\ whole' = complete /\ spc' = "accepted" /\ content' = got
        /\ file_size' = file_size /\ size_str' = size_str
    BY <1>1, <1>6, <2>6 DEF Server
  <2>8. Meets("accepted", cpc[c], size[c], clink[c], slink[c], u, down[c])
    BY <1>2 DEF Meets
  <2>9. Sends("accepted", complete, cpc[c], size[c], left[c], altered[c], u)
    BY DEF Sends
  <2>10. Joint("accepted", complete, c)'
    BY <2>5, <2>8, <2>9 DEF Joint
  <2>11. Len(got) \in Nat
    BY <2>1
  <2>12. ASSUME whole PROVE got \in {Bytes(n) : n \in 0 .. size[c]}
    <3>1. PICK k \in 0 .. size[c] : up[c] = Bytes(k)
      BY <1>2, <2>12 DEF Sends
    <3>2. k \in Nat /\ k <= size[c]
      BY <1>3
    <3>3. Len(up[c]) = k /\ \A i \in 1 .. k : up[c][i] = T("byte")
      BY <3>1, <3>2, BytesTyped
    <3>4. \A i \in 1 .. Len(got) : got[i] = T("byte")
      BY <2>1, <2>11, <3>2, <3>3
    <3>5. got = Bytes(Len(got))
      BY <2>1, <3>4, BytesAre
    <3>6. Len(got) \in 0 .. size[c]
      BY <1>3, <2>1, <2>11, <3>2, <3>3
    <3> QED
      BY <3>5, <3>6
  <2>13. SizeDelimited'
    <3>1. current' = c /\ size'[c] = size[c]
      BY <1>0, <1>1, <2>5
    <3>2. whole => file_size = size[c]
      BY <1>0, <1>1 DEF TransferInv, SizeDelimited
    <3> QED
      BY <2>6, <2>7, <2>12, <3>1, <3>2 DEF SizeDelimited
  <2>14. Len(content') < MAX_FILE_SIZE
    <3>1. MAX_FILE_SIZE \in Nat
      BY TransferAssumption
    <3> QED
      BY <1>3, <2>1, <2>7, <2>11, <3>1
  <2>15. size_str' \in Buffer /\ file_size' \in Nat
    BY <1>3, <2>7 DEF TypeOK
  <2> DEFINE to == "accepted"
  <2>16. to \in Busy \cup {"accept"} /\ spc' = to /\ (to = "file" => file_size' < MAX_FILE_SIZE)
         /\ Joint(IF to = "accept" THEN "none" ELSE to, complete, c)'
    BY <2>7, <2>10 DEF Busy
  <2> HIDE DEF to
  <2> QED
    BY <1>0, <1>1, <2>5, <2>7, <2>13, <2>14, <2>15, <2>16, ServedStep
<1> QED
  BY <1>5, <1>6 DEF ReadFile

\* SIGPIPE ends the server only over a client that fell; all others connected are
\* reset.
LEMMA DieStep ==
    ASSUME TypeOK, TransferInv, spc \in {"ack", "accepted"}, slink[current] = "gone",
           UNCHANGED <<client, current, size_str>>, Die
    PROVE  TypeOK' /\ TransferInv'
<1>0. PICK c \in Clients : c = current
  BY DEF TypeOK
<1>1. /\ cpc' = cpc /\ size' = size /\ left' = left /\ altered' = altered /\ current' = current
      /\ slink' = slink /\ up' = up /\ down' = down /\ backlog' = <<>> /\ spc' = "dead"
      /\ file_size' = file_size /\ content' = content /\ whole' = whole /\ size_str' = size_str
  BY DEF client, Die, Server
<1>2. spc \in Busy /\ EndsTyped
  BY EndsAreTyped DEF Busy
<1>3. cpc[c] \in Fallen
  <2>1. Meets(spc, cpc[c], size[c], clink[c], slink[c], up[c], down[c])
    BY <1>0, <1>2, Served
  <2> QED
    BY <1>0, <2>1 DEF Meets
<1>4. clink' = [d \in Clients |->
         IF d = current \/ \E i \in DOMAIN backlog : backlog[i] = d
         THEN Closing(clink[d], up[d]) ELSE clink[d]]
  BY DEF Die
<1>5. clink' \in [Clients -> Link]
  <2>1. \A d \in Clients : clink[d] \in Link
    BY DEF TypeOK
  <2>2. \A d \in Clients : Closing(clink[d], up[d]) \in Link
    BY <2>1, ClosingTyped
  <2> QED
    BY <1>4, <2>1, <2>2
<1>6. TypeOK'
  <2>1. backlog' \in Seq(Clients)
    BY <1>1
  <2> QED
    BY <1>1, <1>5, <2>1 DEF TypeOK
<1>7. ASSUME NEW d \in Clients PROVE (Meeting(d) /\ Sent(d))'
  <2>1. Stage(d)' = "none"
    BY <1>1 DEF Stage, Waiting, Serving
  <2>2. Meets(Stage(d), cpc[d], size[d], clink[d], slink[d], up[d], down[d])
    BY DEF TransferInv, Meeting
  <2>3. cpc[d] \in {"stat", "connect"} => clink'[d] = clink[d]
    <3>1. cpc[d] \in {"stat", "connect"} => Stage(d) = "none"
      BY <2>2 DEF Meets
    <3>2. Stage(d) = "none" => ~ Waiting(d) /\ ~ Serving(d)
      BY <1>2 DEF Stage, Serving, Busy
    <3>3. ~ Serving(d) => d # current
      BY <1>2 DEF Serving, Busy
    <3> QED
      BY <1>4, <3>1, <3>2, <3>3 DEF Waiting
  <2>4. Meets("none", cpc[d], size[d], clink'[d], slink[d], up[d], down[d])
    BY <2>2, <2>3 DEF Meets
  <2>5. Sends("none", whole, cpc[d], size[d], left[d], altered[d], up[d])
    BY DEF Sends
  <2> QED
    BY <1>1, <2>1, <2>4, <2>5 DEF Meeting, Sent
<1>8. Queue'
  BY <1>1 DEF Queue, Waiting
<1>9. SizeDelimited'
  BY <1>1 DEF SizeDelimited
<1>10. ServerSurvives'
  BY <1>1, <1>3 DEF ServerSurvives, Fallen
<1> QED
  BY <1>6, <1>7, <1>8, <1>9, <1>10 DEF TransferInv

\* tcp_send of the server that does not fail.
LEMMA ReplyEffect ==
    ASSUME TypeOK, NEW c \in Clients, NEW message \in Seq(Token),
           \/ /\ slink[c] = "open"
              /\ down' = [down EXCEPT ![c] = @ \o message]
              /\ UNCHANGED slink
           \/ /\ slink[c] = "left"
              /\ slink' \in {slink, [slink EXCEPT ![c] = "gone"]}
              /\ UNCHANGED down
    PROVE  \E k \in Link, d \in Seq(Token) :
              /\ Set(slink, slink', c, k) /\ Set(down, down', c, d)
              /\ \/ slink[c] = "open" /\ k = "open" /\ d = down[c] \o message
                 \/ slink[c] = "left" /\ k \in {"left", "gone"} /\ d = down[c]
<1>1. slink \in [Clients -> Link] /\ down \in [Clients -> Seq(Token)] /\ down[c] \in Seq(Token)
  BY DEF TypeOK
<1>2. "open" \in Link /\ "left" \in Link /\ "gone" \in Link
  BY DEF Link
<1>3. CASE /\ slink[c] = "open" /\ down' = [down EXCEPT ![c] = @ \o message] /\ UNCHANGED slink
  <2> DEFINE d == down[c] \o message
  <2>1. d \in Seq(Token)
    BY <1>1, ConcatProperties
  <2>2. Set(down, down', c, d) /\ slink' = slink
    BY <1>3 DEF Set
  <2>3. Set(slink, slink', c, "open")
    BY <1>1, <1>3, <2>2 DEF Set
  <2> HIDE DEF d
  <2>4. slink[c] = "open" /\ d = down[c] \o message
    BY <1>3 DEF d
  <2> QED
    BY <1>2, <2>1, <2>2, <2>3, <2>4
<1>4. CASE /\ slink[c] = "left" /\ slink' \in {slink, [slink EXCEPT ![c] = "gone"]} /\ UNCHANGED down
  <2>1. PICK k \in {"left", "gone"} : Set(slink, slink', c, k)
    <3>1. CASE slink' = slink
      BY <1>1, <1>4, <3>1 DEF Set
    <3>2. CASE slink' = [slink EXCEPT ![c] = "gone"]
      BY <3>2 DEF Set
    <3> QED
      BY <1>4, <3>1, <3>2
  <2>2. Set(down, down', c, down[c])
    BY <1>1, <1>4, SetSame
  <2> QED
    BY <1>1, <1>2, <1>4, <2>1, <2>2
<1> QED
  BY <1>3, <1>4

LEMMA SendAckStep ==
    ASSUME TypeOK, TransferInv, SendAck
    PROVE  TypeOK' /\ TransferInv'
<1>0. PICK c \in Clients : c = current
  BY DEF TypeOK
<1>1. EndsTyped /\ spc = "ack" /\ spc \in Busy /\ UNCHANGED <<client, current, size_str>>
  BY EndsAreTyped DEF SendAck, Busy
<1>2. /\ Meets("ack", cpc[c], size[c], clink[c], slink[c], up[c], down[c])
      /\ Sends("ack", whole, cpc[c], size[c], left[c], altered[c], up[c])
  BY <1>0, <1>1, Served
<1> DEFINE message == IF Small THEN SmallFile ELSE LargeFile
           Through == \/ /\ slink[c] = "open"
                       /\ down' = [down EXCEPT ![c] = @ \o message]
                       /\ UNCHANGED slink
                    \/ /\ slink[c] = "left"
                       /\ slink' \in {slink, [slink EXCEPT ![c] = "gone"]}
                       /\ UNCHANGED down
           Then == IF Small THEN Server("file") /\ UNCHANGED <<clink, up, file_size, content, whole>>
                   ELSE Close
<1>3. message \in Seq(Token)
  BY TextTokens
<1>4. \/ Through /\ Then /\ backlog' = backlog
      \/ slink[c] = "aborted" /\ Close /\ UNCHANGED <<slink, down, backlog>>
      \/ slink[c] = "gone" /\ Die
  BY <1>0 DEF SendAck, Reply
<1>5. CASE Through /\ Then /\ backlog' = backlog
  <2>1. PICK k \in Link, d \in Seq(Token) :
              /\ Set(slink, slink', c, k) /\ Set(down, down', c, d)
              /\ \/ slink[c] = "open" /\ k = "open" /\ d = down[c] \o message
                 \/ slink[c] = "left" /\ k \in {"left", "gone"} /\ d = down[c]
    <3> HIDE DEF message
    <3> QED
      BY <1>3, <1>5, ReplyEffect
  <2>2. CASE ~ Small
    <3>1. Close /\ UNCHANGED <<client, backlog, current, size_str>>
      BY <1>1, <1>5, <2>2
    <3>2. k # slink[c] => slink[c] # "open"
      BY <2>1
    <3> QED
      BY <1>0, <1>1, <2>1, <3>1, <3>2, CloseStep
  <2>3. CASE Small
    <3>1. /\ spc' = "file" /\ clink' = clink /\ up' = up /\ file_size' = file_size
          /\ content' = content /\ whole' = whole /\ backlog' = backlog /\ message = SmallFile
      BY <1>5, <2>3 DEF Server
    <3>2. /\ clink[c] \in Link /\ Set(clink, clink', c, clink[c])
          /\ up[c] \in Seq(Token) /\ Set(up, up', c, up[c])
      BY <1>1, <3>1, Still
    <3>3. UNCHANGED client
      BY <1>1
    <3>4. /\ EndsTyped' /\ Frame(c)
          /\ cpc'[c] = cpc[c] /\ size'[c] = size[c] /\ left'[c] = left[c] /\ altered'[c] = altered[c]
          /\ clink'[c] = clink[c] /\ slink'[c] = k /\ up'[c] = up[c] /\ down'[c] = d
      BY <1>1, <2>1, <3>2, <3>3, ServeEffect
    <3>5. PICK complete \in BOOLEAN : complete = whole
      BY DEF TypeOK
    <3>6. cpc[c] = "ack" => d = SmallFile
      <4>1. cpc[c] = "ack" => slink[c] = "open" /\ down[c] = <<>>
        BY <1>2 DEF Meets, Ended
      <4>2. SmallFile \in Seq(Token)
        BY TextTokens
      <4>3. <<>> \o SmallFile = SmallFile
        BY <4>2, ConcatEmptySeq
      <4> QED
        BY <2>1, <3>1, <4>1, <4>3
    <3>7. Meets("file", cpc[c], size[c], clink[c], k, up[c], d)
      BY <1>2, <2>1, <3>6 DEF Meets, Fallen, Ended
    <3>8. Sends("file", complete, cpc[c], size[c], left[c], altered[c], up[c])
      <4>1. cpc[c] \in {"size", "ack"} \cup Fallen
        BY <1>2 DEF Meets
      <4> QED
        BY <1>2, <3>5, <4>1 DEF Sends, Fallen
    <3>9. Joint("file", complete, c)'
      BY <3>4, <3>7, <3>8 DEF Joint
    <3>10. SizeDelimited'
      <4>1. whole => file_size = size[c]
        BY <1>0, <1>1 DEF TransferInv, SizeDelimited
      <4>2. current' = c
        BY <1>0, <1>1
      <4> QED
        BY <3>1, <3>4, <4>1, <4>2 DEF SizeDelimited
    <3>11. size_str' \in Buffer /\ file_size' \in Nat /\ Len(content') < MAX_FILE_SIZE
      BY <1>1, <3>1 DEF TypeOK
    <3> DEFINE to == "file"
    <3>12. to \in Busy \cup {"accept"} /\ spc' = to /\ (to = "file" => file_size' < MAX_FILE_SIZE)
           /\ Joint(IF to = "accept" THEN "none" ELSE to, complete, c)'
      BY <2>3, <3>1, <3>9 DEF Busy, Small
    <3>13. UNCHANGED <<client, backlog, current>> /\ whole' = complete
      BY <1>1, <3>1, <3>5
    <3> HIDE DEF to
    <3> QED
      BY <1>0, <1>1, <3>4, <3>10, <3>11, <3>12, <3>13, ServedStep
  <2> QED
    BY <2>2, <2>3
<1>6. CASE slink[c] = "aborted" /\ Close /\ UNCHANGED <<slink, down, backlog>>
  BY <1>2, <1>6 DEF Meets
<1>7. CASE slink[c] = "gone" /\ Die
  BY <1>0, <1>1, <1>7, DieStep
<1> QED
  BY <1>4, <1>5, <1>6, <1>7

LEMMA SendAcceptedStep ==
    ASSUME TypeOK, TransferInv, SendAccepted
    PROVE  TypeOK' /\ TransferInv'
<1>0. PICK c \in Clients : c = current
  BY DEF TypeOK
<1>1. EndsTyped /\ spc = "accepted" /\ spc \in Busy /\ UNCHANGED <<client, current, size_str>>
  BY EndsAreTyped DEF SendAccepted, Busy
<1> DEFINE Through == \/ /\ slink[c] = "open"
                       /\ down' = [down EXCEPT ![c] = @ \o Accepted]
                       /\ UNCHANGED slink
                    \/ /\ slink[c] = "left"
                       /\ slink' \in {slink, [slink EXCEPT ![c] = "gone"]}
                       /\ UNCHANGED down
<1>2. \/ Through /\ Close /\ backlog' = backlog
      \/ slink[c] = "aborted" /\ Close /\ UNCHANGED <<slink, down, backlog>>
      \/ slink[c] = "gone" /\ Die
  BY <1>0 DEF SendAccepted, Reply
<1>3. CASE Through /\ Close /\ backlog' = backlog
  <2>1. Accepted \in Seq(Token)
    BY TextTokens
  <2>2. PICK k \in Link, d \in Seq(Token) :
              /\ Set(slink, slink', c, k) /\ Set(down, down', c, d)
              /\ \/ slink[c] = "open" /\ k = "open" /\ d = down[c] \o Accepted
                 \/ slink[c] = "left" /\ k \in {"left", "gone"} /\ d = down[c]
    BY <1>3, <2>1, ReplyEffect
  <2>3. Close /\ UNCHANGED <<client, backlog, current, size_str>>
    BY <1>1, <1>3
  <2>4. k # slink[c] => slink[c] # "open"
    BY <2>2
  <2> QED
    BY <1>0, <1>1, <2>2, <2>3, <2>4, CloseStep
<1>4. CASE slink[c] = "aborted" /\ Close /\ UNCHANGED <<slink, down, backlog>>
  <2>1. /\ slink[c] \in Link /\ Set(slink, slink', c, slink[c])
        /\ down[c] \in Seq(Token) /\ Set(down, down', c, down[c])
    <3>1. slink \in [Clients -> Link] /\ down \in [Clients -> Seq(Token)] /\ slink' = slink /\ down' = down
      BY <1>4 DEF TypeOK
    <3> QED
      BY <3>1, SetSame
  <2>2. Close /\ UNCHANGED <<client, backlog, current, size_str>>
    BY <1>1, <1>4
  <2> QED
    BY <1>0, <1>1, <2>1, <2>2, CloseStep
<1>5. CASE slink[c] = "gone" /\ Die
  BY <1>0, <1>1, <1>5, DieStep
<1> QED
  BY <1>2, <1>3, <1>4, <1>5

LEMMA AcceptStep ==
    ASSUME TypeOK, TransferInv, Accept
    PROVE  TypeOK' /\ TransferInv'
<1>1. /\ cpc' = cpc /\ size' = size /\ left' = left /\ altered' = altered
      /\ clink' = clink /\ slink' = slink /\ up' = up /\ down' = down
      /\ size_str' = size_str /\ file_size' = file_size /\ content' = content /\ whole' = whole
      /\ spc = "accept" /\ spc' = "size"
  BY DEF Accept, client, links, serverData, Server
<1>2. backlog \in Seq(Clients) /\ backlog # <<>> /\ current' = Head(backlog) /\ backlog' = Tail(backlog)
  BY DEF Accept, TypeOK
<1>3. /\ Len(backlog) \in Nat \ {0} /\ DOMAIN backlog = 1 .. Len(backlog)
      /\ current' = backlog[1] /\ current' \in Clients
  BY <1>2, EmptySeq, HeadTailProperties
<1>4. /\ backlog' \in Seq(Clients) /\ DOMAIN backlog' = 1 .. Len(backlog) - 1
      /\ \A i \in DOMAIN backlog' : backlog'[i] = backlog[i + 1]
  <2>1. /\ Tail(backlog) \in Seq(Clients) /\ Len(Tail(backlog)) = Len(backlog) - 1
        /\ \A i \in 1 .. Len(Tail(backlog)) : Tail(backlog)[i] = backlog[i + 1]
    BY <1>2, HeadTailProperties
  <2> QED
    BY <1>2, <2>1
<1>5. \A i, j \in DOMAIN backlog : backlog[i] = backlog[j] => i = j
  BY DEF TransferInv, Queue
<1>6. PICK h \in Clients : h = current'
  BY <1>3
<1>7. Waiting(h) /\ ~ Waiting(h)'
  <2>1. 1 \in DOMAIN backlog
    BY <1>3
  <2>2. \A i \in DOMAIN backlog' : i + 1 \in DOMAIN backlog /\ i + 1 # 1
    BY <1>3, <1>4
  <2>3. \A i \in DOMAIN backlog' : backlog'[i] # h
    BY <1>3, <1>4, <1>5, <1>6, <2>1, <2>2
  <2> QED
    BY <1>3, <1>6, <2>1, <2>3 DEF Waiting
<1>8. \A d \in Clients \ {h} : Waiting(d)' <=> Waiting(d)
  <2>1. \A i \in DOMAIN backlog' : i + 1 \in DOMAIN backlog
    BY <1>3, <1>4
  <2>2. \A i \in DOMAIN backlog : i = 1 \/ (i - 1 \in DOMAIN backlog' /\ backlog'[i - 1] = backlog[i])
    <3> SUFFICES ASSUME NEW i \in 1 .. Len(backlog), i # 1
                 PROVE  i - 1 \in DOMAIN backlog' /\ backlog'[i - 1] = backlog[i]
      BY <1>3
    <3>1. i - 1 \in 1 .. Len(backlog) - 1 /\ (i - 1) + 1 = i
      BY <1>3
    <3> QED
      BY <1>4, <3>1
  <2> QED
    BY <1>3, <1>4, <1>6, <2>1, <2>2 DEF Waiting
<1>9. \A d \in Clients : ~ Serving(d) /\ (Serving(d)' <=> d = h)
  BY <1>1, <1>6 DEF Serving
<1>10. ASSUME NEW d \in Clients PROVE (Meeting(d) /\ Sent(d))'
  <2>1. CASE d = h
    <3>1. Stage(d) = "waiting" /\ Stage(d)' = "size"
      BY <1>1, <1>7, <1>9, <2>1 DEF Stage
    <3>2. Meets("waiting", cpc[d], size[d], clink[d], slink[d], up[d], down[d])
      BY <3>1 DEF TransferInv, Meeting
    <3>3. Meets("size", cpc[d], size[d], clink[d], slink[d], up[d], down[d])
      BY <3>2 DEF Meets
    <3>4. Sends("size", whole, cpc[d], size[d], left[d], altered[d], up[d])
      BY DEF Sends
    <3> QED
      BY <1>1, <3>1, <3>3, <3>4 DEF Meeting, Sent
  <2>2. CASE d # h
    <3>1. Stage(d)' = Stage(d)
      BY <1>8, <1>9, <2>2 DEF Stage
    <3>2. Meets(Stage(d), cpc[d], size[d], clink[d], slink[d], up[d], down[d])
          /\ Sends(Stage(d), whole, cpc[d], size[d], left[d], altered[d], up[d])
      BY DEF TransferInv, Meeting, Sent
    <3> QED
      BY <1>1, <3>1, <3>2 DEF Meeting, Sent
  <2> QED
    BY <2>1, <2>2
<1>11. Queue'
  <2>1. ASSUME NEW i \in DOMAIN backlog', NEW j \in DOMAIN backlog', backlog'[i] = backlog'[j]
        PROVE  i = j
    <3>1. i + 1 \in DOMAIN backlog /\ j + 1 \in DOMAIN backlog /\ i \in Nat /\ j \in Nat
      BY <1>3, <1>4
    <3>2. backlog[i + 1] = backlog[j + 1]
      BY <1>4, <2>1
    <3>3. i + 1 = j + 1
      BY <1>5, <3>1, <3>2
    <3> QED
      BY <3>1, <3>3
  <2>2. \A d \in Clients : (Waiting(d) => ~ Serving(d))'
    BY <1>7, <1>9
  <2> QED
    BY <1>1, <2>1, <2>2 DEF Queue
<1>12. SizeDelimited' /\ ServerSurvives'
  BY <1>1 DEF SizeDelimited, ServerSurvives
<1>13. TypeOK'
  BY <1>1, <1>3, <1>4 DEF TypeOK
<1> QED
  BY <1>10, <1>11, <1>12, <1>13 DEF TransferInv

-----------------------------------------------------------------------------
(* The theorems.                                                           *)

LEMMA TransferInit == Init => TypeOK /\ TransferInv
<1> SUFFICES ASSUME Init PROVE TypeOK /\ TransferInv
  OBVIOUS
<1>1. /\ Garbage \subseteq Buffer /\ Clients # {} /\ MAX_FILE_SIZE \in Nat \ {0}
      /\ Sizes \subseteq Nat
  BY TransferAssumption
<1>2. current \in Clients
  BY <1>1 DEF Init
<1>3. /\ cpc = [c \in Clients |-> "stat"] /\ left = [c \in Clients |-> 0]
      /\ altered = [c \in Clients |-> FALSE]
      /\ clink = [c \in Clients |-> "open"] /\ slink = [c \in Clients |-> "open"]
      /\ up = [c \in Clients |-> <<>>] /\ down = [c \in Clients |-> <<>>]
      /\ backlog = <<>> /\ spc = "accept"
  BY DEF Init
<1>4. TypeOK
  <2>1. ASSUME NEW c \in Clients PROVE size[c] \in Nat /\ left[c] <= size[c]
    <3>1. size[c] \in Nat
      BY <1>1 DEF Init
    <3>2. left[c] = 0
      BY <1>3
    <3> QED
      BY <3>1, <3>2
  <2>2. size \in [Clients -> Sizes] /\ size_str \in Buffer /\ file_size = 0 /\ content = <<>> /\ whole = FALSE
    BY <1>1 DEF Init
  <2>3. clink \in [Clients -> Link] /\ slink \in [Clients -> Link]
    BY <1>3 DEF Link
  <2>4. up \in [Clients -> Seq(Token)] /\ down \in [Clients -> Seq(Token)] /\ backlog \in Seq(Clients)
    BY <1>3
  <2>5. Len(content) < MAX_FILE_SIZE
    BY <1>1, <2>2
  <2> QED
    BY <1>2, <1>3, <2>1, <2>2, <2>3, <2>4, <2>5 DEF TypeOK
<1>5. ASSUME NEW c \in Clients PROVE Meeting(c) /\ Sent(c)
  <2>1. Stage(c) = "none"
    BY <1>3 DEF Stage, Waiting, Serving
  <2>2. Meets("none", "stat", size[c], "open", "open", <<>>, <<>>)
    BY DEF Meets, Ended
  <2>3. \A w, r, e, u : Sends("none", w, "stat", size[c], r, e, u)
    BY DEF Sends
  <2> QED
    BY <1>3, <2>1, <2>2, <2>3 DEF Meeting, Sent
<1>6. Queue /\ SizeDelimited /\ ServerSurvives
  BY <1>3 DEF Queue, Waiting, SizeDelimited, ServerSurvives
<1> QED
  BY <1>4, <1>5, <1>6 DEF TransferInv

LEMMA TransferStutters ==
    ASSUME TypeOK, TransferInv, UNCHANGED vars
    PROVE  TypeOK' /\ TransferInv'
<1>1. /\ cpc' = cpc /\ size' = size /\ left' = left /\ altered' = altered
      /\ clink' = clink /\ slink' = slink /\ up' = up /\ down' = down
      /\ backlog' = backlog /\ spc' = spc /\ current' = current /\ size_str' = size_str
      /\ file_size' = file_size /\ content' = content /\ whole' = whole
  BY DEF vars, client, links, server, serverData
<1>2. TypeOK'
  BY <1>1 DEF TypeOK
<1>3. ASSUME NEW d \in Clients PROVE (Meeting(d) /\ Sent(d))'
  <2>1. Stage(d)' = Stage(d)
    BY <1>1 DEF Stage, Waiting, Serving
  <2> QED
    BY <1>1, <2>1 DEF TransferInv, Meeting, Sent
<1>4. Queue' /\ SizeDelimited' /\ ServerSurvives'
  BY <1>1 DEF TransferInv, Queue, Waiting, Serving, SizeDelimited, ServerSurvives
<1> QED
  BY <1>2, <1>3, <1>4 DEF TransferInv

\* In every state the variables have their types, and what each end knows of the
\* other is what Meets and Sends say of the stage the server is at with it
\* (tcp-test-client.c:46-96, tcp-test-server.c:34-84).
THEOREM TransferInvariant == Spec => [](TypeOK /\ TransferInv)
<1>1. Init => TypeOK /\ TransferInv
  BY TransferInit
<1>2. TypeOK /\ TransferInv /\ [Next]_vars => TypeOK' /\ TransferInv'
  <2> SUFFICES ASSUME TypeOK, TransferInv, [Next]_vars PROVE TypeOK' /\ TransferInv'
    OBVIOUS
  <2>1. CASE Accept
    BY <2>1, AcceptStep
  <2>2. CASE ReadSize
    BY <2>2, ReadSizeStep
  <2>3. CASE SendAck
    BY <2>3, SendAckStep
  <2>4. CASE ReadFile
    BY <2>4, ReadFileStep
  <2>5. CASE SendAccepted
    BY <2>5, SendAcceptedStep
  <2>6. ASSUME NEW c \in Clients, Run(c) \/ Empty(c) \/ Killed(c) PROVE TypeOK' /\ TransferInv'
    BY <2>6, ClientStep
  <2>7. CASE UNCHANGED vars
    BY <2>7, TransferStutters
  <2> QED
    BY <2>1, <2>2, <2>3, <2>4, <2>5, <2>6, <2>7 DEF Next, Serve
<1> QED
  BY <1>1, <1>2, PTL DEF Spec

\* The type invariant: content fits in the buffer the file is read into, and the
\* last zero byte of size_str stays where it is, whatever is received
\* (tcp-test-server.c:41-50, 67-70).
THEOREM TransferTyped == Spec => []TypeOK
BY TransferInvariant, PTL

\* A size that arrives whole is read as itself over anything size_str may have
\* held, in any base, and what is taken for the file is the start of the file
\* (tcp-test-server.c:42-51, tcp-test-client.c:50-57).
THEOREM SizesDelimited == Spec => []SizeDelimited
<1>1. TypeOK /\ TransferInv => SizeDelimited
  BY DEF TransferInv
<1> QED
  BY <1>1, TransferInvariant, PTL

\* However the streams are cut, the two ends wait for each other only over a file
\* of which there was nothing to send (tcp-test-client.c:61-90,
\* tcp-test-server.c:42-70).
THEOREM ExchangeNeverStuck == Spec => []NeverStuck
<1>1. ASSUME TypeOK, TransferInv PROVE NeverStuck
  <2> SUFFICES ASSUME ServerWaits, ClientWaits(current)
               PROVE  size[current] = 0 \/ altered[current]
    BY DEF NeverStuck
  <2>0. PICK c \in Clients : c = current
    BY <1>1 DEF TypeOK
  <2>1. spc \in {"size", "file"} /\ spc \in Busy /\ up[c] = <<>>
        /\ cpc[c] \in {"ack", "final"} /\ down[c] = <<>>
    BY <2>0 DEF ServerWaits, ClientWaits, Busy
  <2>2. /\ Meets(spc, cpc[c], size[c], clink[c], slink[c], up[c], down[c])
        /\ Sends(spc, whole, cpc[c], size[c], left[c], altered[c], up[c])
    BY <1>1, <2>0, <2>1, Served
  <2>3. CASE spc = "size"
    <3>1. cpc[c] = "ack"
      BY <2>1, <2>2, <2>3 DEF Meets, Fallen
    <3>2. SizeMessage(size[c]) = <<>>
      BY <2>1, <2>2, <2>3, <3>1 DEF Meets
    <3>3. Len(SizeMessage(size[c])) = Len(Written[size[c]]) + 2 /\ Len(Written[size[c]]) \in Nat
      <4>1. size[c] \in Nat
        BY <1>1, TransferAssumption DEF TypeOK
      <4> QED
        BY <4>1, SizeMessageIs
    <3> QED
      BY <3>2, <3>3
  <2>4. CASE spc = "file"
    <3>1. cpc[c] # "ack"
      <4>1. Len(SmallFile) # 0
        <5>1. SmallFile = <<T("Small"), T(" file")>>
          BY TextTokens
        <5>2. \A x, y : Len(<<x, y>>) # 0
          OBVIOUS
        <5> QED
          BY <5>1, <5>2
      <4> QED
        BY <2>1, <2>2, <2>4, <4>1 DEF Meets
    <3> QED
      BY <2>0, <2>1, <2>2, <2>4, <3>1 DEF Sends
  <2> QED
    BY <2>1, <2>3, <2>4
<1> QED
  BY <1>1, TransferInvariant, PTL

\* The server dies of SIGPIPE only after a client that was killed or crashed: one
\* that leaves before it has read its answer leaves it unread, and is met aborted
\* (tcp-test-server.c:53-63, 76-81, tcp-test-client.c:61-69).
THEOREM ServerSurvivesAll == Spec => []ServerSurvives
<1>1. TypeOK /\ TransferInv => ServerSurvives
  BY DEF TransferInv
<1> QED
  BY <1>1, TransferInvariant, PTL
=============================================================================
