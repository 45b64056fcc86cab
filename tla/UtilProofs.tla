----------------------------- MODULE UtilProofs -----------------------------
(***************************************************************************)
(* Proofs about the classes of util that stand alone: iAddr, for texts of  *)
(* any length, and BitMap, for a map of any size.                          *)
(***************************************************************************)
EXTENDS IAddr, BitMap, WellFoundedInduction, TLAPS

-----------------------------------------------------------------------------
(* Induction, as a fact about sets: the least number outside a set has a   *)
(* predecessor in it.                                                      *)
LEMMA Least ==
  ASSUME NEW T \in SUBSET Nat, T # {}
  PROVE  \E n \in T : \A m \in T : n <= m
<1>1. T \subseteq Nat /\ T # {}
  OBVIOUS
<1>2. PICK n \in T : \A m \in T : ~(<<m, n>> \in OpToRel(<, Nat))
  BY <1>1, WFMin, NatLessThanWellFounded, Zenon
<1>3. \A m \in T : ~(m < n)
  BY <1>1, <1>2, Zenon DEF OpToRel
<1> QED BY <1>1, <1>3

LEMMA Induction ==
  ASSUME NEW L \in Nat, NEW S, 0 \in S,
         \A n \in 0 .. L - 1 : n \in S => n + 1 \in S
  PROVE  0 .. L \subseteq S
<1> SUFFICES ASSUME (0 .. L) \ S # {} PROVE FALSE
  OBVIOUS
<1>0. (0 .. L) \ S \in SUBSET Nat
  OBVIOUS
<1>1. PICK n \in (0 .. L) \ S : \A m \in (0 .. L) \ S : n <= m
  BY <1>0, Least, Zenon
<1>2. n # 0 /\ n - 1 \in 0 .. L - 1
  BY <1>1
<1>3. n - 1 \in S
  BY <1>1, <1>2
<1> QED BY <1>1, <1>2, <1>3

Follows(f, b, step, n) ==
  f[0] = b /\ \A m \in 1 .. n : f[m] = step[m][f[m - 1]]

(* There is a function with a given first value and given steps.           *)
LEMMA Recursion ==
  ASSUME NEW V, NEW b \in V, NEW L \in Nat, NEW step \in [1 .. L -> [V -> V]]
  PROVE  \E f \in [0 .. L -> V] : Follows(f, b, step, L)
<1> DEFINE Up(n) == \E f \in [0 .. L -> V] : Follows(f, b, step, n)
           S == {n \in Nat : Up(n)}
<1>1. Up(0)
  <2>1. [m \in 0 .. L |-> b] \in [0 .. L -> V] /\ Follows([m \in 0 .. L |-> b], b, step, 0)
    BY DEF Follows
  <2> QED BY <2>1
<1>2. ASSUME NEW n \in 0 .. L - 1, Up(n) PROVE Up(n + 1)
  <2>1. PICK f \in [0 .. L -> V] : Follows(f, b, step, n)
    BY <1>2
  <2>2. n \in 0 .. L /\ n + 1 \in 1 .. L /\ f[n] \in V
    BY <2>1
  <2>3. step[n + 1] \in [V -> V]
    BY <2>2
  <2>4. PICK e \in V : e = step[n + 1][f[n]]
    BY <2>2, <2>3
  <2> DEFINE g == [m \in 0 .. L |-> IF m = n + 1 THEN e ELSE f[m]]
  <2>5. g \in [0 .. L -> V] /\ g[n + 1] = e /\ \A m \in 0 .. n : g[m] = f[m]
    BY <2>1, <2>2
  <2> HIDE DEF g
  <2>6. ASSUME NEW m \in 1 .. n + 1 PROVE g[m] = step[m][g[m - 1]]
    <3>1. CASE m = n + 1
      <4>1. m - 1 = n /\ g[m - 1] = f[n] /\ g[m] = e
        BY <2>2, <2>5, <3>1
      <4> QED BY <2>4, <3>1, <4>1
    <3>2. CASE m # n + 1
      <4>1. m \in 1 .. n /\ m \in 0 .. n /\ m - 1 \in 0 .. n
        BY <3>2
      <4>2. f[m] = step[m][f[m - 1]]
        BY <2>1, <4>1 DEF Follows
      <4> QED BY <2>5, <4>1, <4>2
    <3> QED BY <3>1, <3>2
  <2>7. g[0] = b
    BY <2>1, <2>5 DEF Follows
  <2>8. Follows(g, b, step, n + 1)
    BY <2>6, <2>7 DEF Follows
  <2> QED BY <2>5, <2>8
<1> HIDE DEF Up
<1>3. L \in S
  <2>1. 0 \in S /\ \A n \in 0 .. L - 1 : n \in S => n + 1 \in S
    BY <1>1, <1>2
  <2>2. L \in 0 .. L
    OBVIOUS
  <2> HIDE DEF S
  <2> QED BY <2>1, <2>2, Induction
<1> QED BY <1>3 DEF Up

-----------------------------------------------------------------------------
(* The recursive functions of IAddr are what their equations say.          *)
LEMMA StoiIsNat ==
  ASSUME NEW s \in Seq(Nat)
  PROVE  stoi(s) \in Nat
<1>0. PICK L \in Nat : L = Len(s)
  OBVIOUS
<1>1. 0 \in Nat /\ \A n \in 1 .. L : s[n] \in Nat
  BY <1>0
<1> DEFINE IsValue(f) == f = [n \in 0 .. L |-> IF n = 0 THEN 0 ELSE 10 * f[n - 1] + s[n]]
<1>2. \E f : IsValue(f)
  <2>1. PICK step \in [1 .. L -> [Nat -> Nat]] :
                \A n \in 1 .. L, v \in Nat : step[n][v] = 10 * v + s[n]
    <3> DEFINE step == [n \in 1 .. L |-> [v \in Nat |-> 10 * v + s[n]]]
    <3>1. step \in [1 .. L -> [Nat -> Nat]]
      BY <1>1
    <3> QED BY <3>1
  <2>2. PICK f \in [0 .. L -> Nat] : Follows(f, 0, step, L)
    BY <1>1, Recursion
  <2>3. ASSUME NEW n \in 1 .. L PROVE f[n] = 10 * f[n - 1] + s[n]
    <3>1. f[n - 1] \in Nat
      BY <2>2, <2>3
    <3> QED BY <2>1, <2>2, <2>3, <3>1 DEF Follows
  <2>4. IsValue(f)
    BY <2>2, <2>3 DEF Follows
  <2> QED BY <2>4
<1>3. PICK f : IsValue(f) /\ stoi(s) = f[L]
  BY <1>0, <1>2 DEF stoi
<1> DEFINE S == {n \in Nat : f[n] \in Nat}
<1>4. 0 \in S /\ \A n \in 0 .. L - 1 : n \in S => n + 1 \in S
  <2>1. f[0] = 0 /\ \A n \in 0 .. L - 1 : f[n + 1] = 10 * f[n] + s[n + 1]
    BY <1>1, <1>3
  <2>2. ASSUME NEW n \in 0 .. L - 1, n \in S PROVE n + 1 \in S
    <3>1. PICK k \in Nat, d \in Nat : k = f[n] /\ d = s[n + 1]
      BY <1>1, <2>2
    <3>2. n + 1 \in Nat /\ f[n + 1] = 10 * k + d
      BY <2>1, <3>1
    <3>3. 10 * k + d \in Nat
      OBVIOUS
    <3> QED BY <3>2, <3>3
  <2> QED BY <2>1, <2>2
<1>5. L \in S
  <2> HIDE DEF S
  <2>1. 0 .. L \subseteq S
    BY <1>4, Induction
  <2> QED BY <2>1
<1> QED BY <1>3, <1>5

Octets == [1 .. 4 -> 0 .. 255]

LEMMA CarriesAre ==
  ASSUME NEW n \in Octets, NEW v \in Nat
  PROVE  /\ \A m \in 0 .. 4 : Carries(n, v)[m] \in Nat
         /\ Carries(n, v)[0] = v
         /\ \A m \in 1 .. 4 :
              Carries(n, v)[m] = (n[5 - m] + Carries(n, v)[m - 1]) \div 256
<1> DEFINE IsCarry(f) ==
             f = [m \in 0 .. 4 |-> IF m = 0 THEN v ELSE (n[5 - m] + f[m - 1]) \div 256]
<1>1. \E f : IsCarry(f)
  <2>0. \A m \in 1 .. 4 : n[5 - m] \in Nat
    BY DEF Octets
  <2>1. PICK step \in [1 .. 4 -> [Nat -> Nat]] :
                \A m \in 1 .. 4, c \in Nat : step[m][c] = (n[5 - m] + c) \div 256
    <3> DEFINE step == [m \in 1 .. 4 |-> [c \in Nat |-> (n[5 - m] + c) \div 256]]
    <3>1. step \in [1 .. 4 -> [Nat -> Nat]]
      BY <2>0
    <3> QED BY <3>1
  <2>2. PICK f \in [0 .. 4 -> Nat] : Follows(f, v, step, 4)
    BY Recursion
  <2>3. f[0] = v /\ \A m \in 1 .. 4 : f[m] = (n[5 - m] + f[m - 1]) \div 256
    BY <2>1, <2>2, SMTT(30) DEF Follows
  <2>4. IsCarry(f)
    BY <2>2, <2>3
  <2> QED BY <2>4, SMTT(30)
<1>2. IsCarry(Carries(n, v))
  BY <1>1 DEF Carries
<1>3. PICK f : f = Carries(n, v)
  OBVIOUS
<1>4. /\ f[0] = v /\ f[1] = (n[4] + f[0]) \div 256 /\ f[2] = (n[3] + f[1]) \div 256
      /\ f[3] = (n[2] + f[2]) \div 256 /\ f[4] = (n[1] + f[3]) \div 256
  BY <1>2, <1>3
<1>5. n[1] \in Nat /\ n[2] \in Nat /\ n[3] \in Nat /\ n[4] \in Nat
  BY DEF Octets
<1>6. f[0] \in Nat /\ f[1] \in Nat /\ f[2] \in Nat /\ f[3] \in Nat /\ f[4] \in Nat
  BY <1>4, <1>5
<1>7. \A m \in 0 .. 4 : f[m] \in Nat
  BY <1>6
<1>8. \A m \in 1 .. 4 : f[m] = (n[5 - m] + f[m - 1]) \div 256
  BY <1>4
<1> QED BY <1>3, <1>4, <1>7, <1>8

LEMMA CarriesUnrolled ==
  ASSUME NEW n \in Octets, NEW v \in Nat
  PROVE  /\ Carries(n, v)[0] = v
         /\ Carries(n, v)[1] = (n[4] + Carries(n, v)[0]) \div 256
         /\ Carries(n, v)[2] = (n[3] + Carries(n, v)[1]) \div 256
         /\ Carries(n, v)[3] = (n[2] + Carries(n, v)[2]) \div 256
<1>1. Carries(n, v)[0] = v
  BY CarriesAre
<1>2. \A m \in 1 .. 4 : Carries(n, v)[m] = (n[5 - m] + Carries(n, v)[m - 1]) \div 256
  BY CarriesAre
<1> QED BY <1>1, <1>2

\* the m-th value from the right, or none
FromRight(values, m) == IF m <= Len(values) THEN values[Len(values) + 1 - m] ELSE 0

LEMMA FromRightIs ==
  ASSUME NEW values \in Seq(Nat)
  PROVE  \E last \in [1 .. 4 -> Nat] : \A m \in 1 .. 4 : last[m] = FromRight(values, m)
<1>1. \A m \in 1 .. 4 : FromRight(values, m) \in Nat
  BY DEF FromRight
<1> DEFINE last == [m \in 1 .. 4 |-> FromRight(values, m)]
<1>2. last \in [1 .. 4 -> Nat] /\ \A m \in 1 .. 4 : last[m] = FromRight(values, m)
  BY <1>1
<1> QED BY <1>2

LEMMA SumsAre ==
  ASSUME NEW values \in Seq(Nat)
  PROVE  /\ \A m \in 0 .. 4 : Sums(values)[m] \in Nat
         /\ Sums(values)[0] = 0
         /\ \A m \in 1 .. 4 :
              Sums(values)[m] = FromRight(values, m) + Sums(values)[m - 1] \div 256
<1>0. PICK last \in [1 .. 4 -> Nat] : \A m \in 1 .. 4 : last[m] = FromRight(values, m)
  BY FromRightIs
<1>a. \A k, c \in Nat : k + c \div 256 \in Nat
  OBVIOUS
<1> DEFINE IsSum(f) ==
             f = [m \in 0 .. 4 |-> IF m = 0 THEN 0
                                   ELSE FromRight(values, m) + f[m - 1] \div 256]
           IsSumOf(f) ==
             f = [m \in 0 .. 4 |-> IF m = 0 THEN 0 ELSE last[m] + f[m - 1] \div 256]
<1>1. \E f : IsSumOf(f)
  <2>1. PICK step \in [1 .. 4 -> [Nat -> Nat]] :
                \A m \in 1 .. 4, c \in Nat : step[m][c] = last[m] + c \div 256
    <3> DEFINE step == [m \in 1 .. 4 |-> [c \in Nat |-> last[m] + c \div 256]]
    <3>1. step \in [1 .. 4 -> [Nat -> Nat]]
      BY <1>a
    <3> QED BY <3>1
  <2>2. PICK f \in [0 .. 4 -> Nat] : Follows(f, 0, step, 4)
    BY Recursion
  <2>3. f[0] = 0
    BY <2>2 DEF Follows
  <2>4. ASSUME NEW m \in 1 .. 4 PROVE f[m] = last[m] + f[m - 1] \div 256
    <3>1. PICK c \in Nat : c = f[m - 1]
      <4>1. m - 1 \in 0 .. 4
        OBVIOUS
      <4> QED BY <2>2, <4>1
    <3>2. f[m] = step[m][c]
      BY <2>2, <3>1 DEF Follows
    <3> QED BY <2>1, <3>1, <3>2, ZenonT(40)
  <2>5. IsSumOf(f)
    BY <2>2, <2>3, <2>4
  <2> QED BY <2>5, ZenonT(40)
<1>2. ASSUME NEW f PROVE IsSum(f) <=> IsSumOf(f)
  <2> DEFINE This(m) == IF m = 0 THEN 0 ELSE FromRight(values, m) + f[m - 1] \div 256
             That(m) == IF m = 0 THEN 0 ELSE last[m] + f[m - 1] \div 256
  <2>1. ASSUME NEW m \in 0 .. 4 PROVE This(m) = That(m)
    <3>1. m # 0 => m \in 1 .. 4
      OBVIOUS
    <3>2. m # 0 => last[m] = FromRight(values, m)
      BY <1>0, <3>1, Zenon
    <3> QED BY <3>2, Zenon
  <2>2. [m \in 0 .. 4 |-> This(m)] = [m \in 0 .. 4 |-> That(m)]
    <3> HIDE DEF This, That
    <3> QED BY <2>1
  <2> QED BY <2>2, Zenon
<1>3. IsSumOf(Sums(values))
  <2>1. IsSum(Sums(values))
    <3>1. \E f : IsSum(f)
      <4> HIDE DEF IsSum, IsSumOf
      <4> QED BY <1>1, <1>2
    <3> QED BY <3>1, Zenon DEF Sums, FromRight
  <2> QED BY <1>2, <2>1
<1>4. PICK f : f = Sums(values)
  OBVIOUS
<1>5. f[0] = 0 /\ \A m \in 1 .. 4 : f[m] = last[m] + f[m - 1] \div 256
  BY <1>3, <1>4
<1>6. ASSUME NEW m \in 1 .. 4, f[m - 1] \in Nat PROVE f[m] \in Nat
  <2>1. PICK k \in Nat, c \in Nat : k = last[m] /\ c = f[m - 1]
    BY <1>0, <1>6
  <2>2. f[m] = k + c \div 256
    BY <1>5, <2>1
  <2> QED BY <1>a, <2>2
<1>7. f[0] \in Nat /\ f[1] \in Nat /\ f[2] \in Nat /\ f[3] \in Nat /\ f[4] \in Nat
  <2>0. f[0] \in Nat
    BY <1>5
  <2>1. f[0] \in Nat /\ f[1] \in Nat
    BY <1>6, <2>0
  <2>2. f[2] \in Nat
    BY <1>6, <2>1
  <2>3. f[3] \in Nat
    BY <1>6, <2>2
  <2> QED BY <1>6, <2>1, <2>2, <2>3
<1>8. \A m \in 0 .. 4 : f[m] \in Nat
  BY <1>7, SMTT(30)
<1> QED BY <1>0, <1>4, <1>5, <1>8

-----------------------------------------------------------------------------
(* The components of a text: there is one at least, and a separator or a   *)
(* digit touches the last one only.                                        *)
Chars == Digits \cup {Dot}

PartLists == Seq(Seq(Digits)) \ {<<>>}

Grow(p, c) ==
  IF c = Dot THEN Append(p, <<>>) ELSE [p EXCEPT ![Len(p)] = Append(@, c)]

LEMMA GrowIs ==
  ASSUME NEW p \in PartLists, NEW c \in Chars
  PROVE  /\ Len(p) \in Nat \ {0} /\ Grow(p, c) \in PartLists
         /\ c = Dot => /\ Len(Grow(p, c)) = Len(p) + 1
                       /\ Grow(p, c)[Len(p) + 1] = <<>>
                       /\ \A k \in 1 .. Len(p) : Grow(p, c)[k] = p[k]
         /\ c # Dot => /\ Len(Grow(p, c)) = Len(p)
                       /\ Grow(p, c)[Len(p)] = Append(p[Len(p)], c)
                       /\ \A k \in 1 .. Len(p) - 1 : Grow(p, c)[k] = p[k]
<1>1. p \in Seq(Seq(Digits)) /\ Len(p) \in Nat \ {0}
  BY DEF PartLists
<1>2. CASE c = Dot
  <2>1. Grow(p, c) = Append(p, <<>>)
    BY <1>2 DEF Grow
  <2>2. <<>> \in Seq(Digits)
    OBVIOUS
  <2> QED BY <1>1, <1>2, <2>1, <2>2 DEF PartLists
<1>3. CASE c # Dot
  <2>1. Len(p) \in 1 .. Len(p)
    BY <1>1
  <2>2. PICK e \in Seq(Digits) : e = Append(p[Len(p)], c)
    <3>1. PICK q \in Seq(Digits) : q = p[Len(p)]
      BY <1>1, <2>1
    <3>2. c \in Digits
      BY <1>3 DEF Chars
    <3>3. Append(q, c) \in Seq(Digits)
      BY <3>2
    <3> QED BY <3>1, <3>3
  <2>3. Grow(p, c) = [p EXCEPT ![Len(p)] = e]
    BY <1>3, <2>2 DEF Grow
  <2>4. Grow(p, c) \in Seq(Seq(Digits)) /\ Len(Grow(p, c)) = Len(p)
    BY <1>1, <2>1, <2>3
  <2>5. /\ Grow(p, c)[Len(p)] = e
        /\ \A k \in 1 .. Len(p) - 1 : Grow(p, c)[k] = p[k]
    BY <1>1, <2>1, <2>3
  <2>6. Grow(p, c) # <<>>
    BY <1>1, <2>4
  <2> QED BY <1>1, <1>3, <2>2, <2>4, <2>5, <2>6 DEF PartLists
<1> QED BY <1>2, <1>3

LEMMA PartsAre ==
  ASSUME NEW s \in Seq(Chars)
  PROVE  /\ Parts(s)[0] = << <<>> >>
         /\ \A n \in 0 .. Len(s) : Parts(s)[n] \in PartLists
         /\ \A n \in 1 .. Len(s) : Parts(s)[n] = Grow(Parts(s)[n - 1], s[n])
<1>0. PICK L \in Nat : L = Len(s)
  OBVIOUS
<1>1. \A n \in 1 .. L : s[n] \in Chars
  BY <1>0
<1>2. << <<>> >> \in PartLists
  BY DEF PartLists
<1> DEFINE IsParts(f) ==
             f = [n \in 0 .. L |->
                    IF n = 0 THEN << <<>> >>
                    ELSE IF s[n] = Dot THEN Append(f[n - 1], <<>>)
                    ELSE [f[n - 1] EXCEPT ![Len(f[n - 1])] = Append(@, s[n])]]
           Steps(f) == /\ f[0] = << <<>> >>
                       /\ \A n \in 1 .. L : f[n] = Grow(f[n - 1], s[n])
<1>3. PICK step \in [1 .. L -> [PartLists -> PartLists]] :
              \A n \in 1 .. L, p \in PartLists : step[n][p] = Grow(p, s[n])
  <2> DEFINE step == [n \in 1 .. L |-> [p \in PartLists |-> Grow(p, s[n])]]
  <2>1. \A n \in 1 .. L, p \in PartLists : Grow(p, s[n]) \in PartLists
    BY <1>1, GrowIs
  <2>2. step \in [1 .. L -> [PartLists -> PartLists]]
    BY <2>1
  <2> QED BY <2>2
<1>4. PICK f \in [0 .. L -> PartLists] : Follows(f, << <<>> >>, step, L)
  BY <1>2, Recursion
<1>5. Steps(f)
  <2>1. f[0] = << <<>> >>
    BY <1>4 DEF Follows
  <2>2. ASSUME NEW n \in 1 .. L PROVE f[n] = Grow(f[n - 1], s[n])
    <3>1. f[n - 1] \in PartLists
      <4>1. n - 1 \in 0 .. L
        OBVIOUS
      <4> QED BY <1>4, <4>1
    <3>2. f[n] = step[n][f[n - 1]]
      BY <1>4 DEF Follows
    <3> QED BY <1>3, <3>1, <3>2
  <2> QED BY <2>1, <2>2
<1>6. IsParts(f)
  <2> DEFINE Body(n) == IF n = 0 THEN << <<>> >>
                        ELSE IF s[n] = Dot THEN Append(f[n - 1], <<>>)
                        ELSE [f[n - 1] EXCEPT ![Len(f[n - 1])] = Append(@, s[n])]
  <2>1. ASSUME NEW n \in 0 .. L PROVE f[n] = Body(n)
    <3>1. n # 0 => n \in 1 .. L
      OBVIOUS
    <3>2. n # 0 => f[n] = Grow(f[n - 1], s[n])
      BY <1>5, <3>1, Zenon
    <3>3. n = 0 => f[n] = << <<>> >>
      BY <1>5, Zenon
    <3> QED BY <3>2, <3>3, Zenon DEF Grow
  <2>2. f = [n \in 0 .. L |-> Body(n)]
    <3> HIDE DEF Body
    <3> QED BY <1>4, <2>1
  <2> QED BY <2>2, Zenon
<1>7. PICK g : g = Parts(s)
  OBVIOUS
<1>8. IsParts(g)
  <2>1. \E h : IsParts(h)
    BY <1>6, Zenon
  <2> QED BY <1>0, <1>7, <2>1, Zenon DEF Parts
<1>9. Steps(g)
  <2>1. g[0] = << <<>> >>
    BY <1>8
  <2>2. ASSUME NEW n \in 1 .. L PROVE g[n] = Grow(g[n - 1], s[n])
    <3>1. n \in 0 .. L /\ n # 0
      OBVIOUS
    <3> QED BY <1>8, <3>1, Zenon DEF Grow
  <2> QED BY <2>1, <2>2
<1>10. \A n \in 0 .. L : g[n] \in PartLists
  <2> DEFINE S == {n \in Nat : g[n] \in PartLists}
  <2>1. 0 \in S
    BY <1>2, <1>9
  <2>2. ASSUME NEW n \in 0 .. L - 1, n \in S PROVE n + 1 \in S
    <3>1. n + 1 \in 1 .. L /\ n + 1 \in Nat /\ n + 1 - 1 = n
      OBVIOUS
    <3>2. g[n + 1] = Grow(g[n], s[n + 1])
      BY <1>9, <3>1
    <3> QED BY <1>1, <2>2, <3>1, <3>2, GrowIs, ZenonT(40)
  <2>3. 0 .. L \subseteq S
    <3> HIDE DEF S
    <3> QED BY <2>1, <2>2, Induction
  <2> QED BY <2>3
<1> QED BY <1>0, <1>7, <1>9, <1>10

(* What a separator has ended stays as it is.                              *)
LEMMA PartsKeep ==
  ASSUME NEW s \in Seq(Chars), NEW n \in 0 .. Len(s),
         NEW k \in 1 .. Len(Parts(s)[n]) - 1
  PROVE  k \in 1 .. Len(Parts(s)[Len(s)]) /\ Parts(s)[Len(s)][k] = Parts(s)[n][k]
<1>0. PICK L \in Nat : L = Len(s)
  OBVIOUS
<1>1. PICK g : g = Parts(s)
  OBVIOUS
<1>2. /\ \A m \in 0 .. L : g[m] \in PartLists
      /\ \A m \in 1 .. L : g[m] = Grow(g[m - 1], s[m]) /\ s[m] \in Chars
  BY <1>0, <1>1, PartsAre
<1>3. PICK K \in Nat : K = Len(g[n])
  BY <1>0, <1>2, GrowIs DEF PartLists
<1> DEFINE Kept(p) == K <= Len(p) /\ p[k] = g[n][k]
           S == {m \in Nat : Kept(g[n + m])}
<1>4. k \in 1 .. K - 1
  BY <1>1, <1>3
<1>5. 0 \in S
  BY <1>0, <1>3
<1>6. ASSUME NEW m \in 0 .. L - n - 1, m \in S PROVE m + 1 \in S
  <2>1. /\ n + m \in 0 .. L /\ n + (m + 1) \in 1 .. L /\ n + (m + 1) - 1 = n + m
        /\ m + 1 \in Nat
    BY <1>0
  <2>2. PICK p \in PartLists, c \in Chars : p = g[n + m] /\ c = s[n + (m + 1)]
    BY <1>2, <2>1
  <2>3. g[n + (m + 1)] = Grow(p, c)
    BY <1>2, <2>1, <2>2
  <2>4. K <= Len(p) /\ p[k] = g[n][k]
    BY <1>6, <2>2
  <2>5. k \in 1 .. Len(p) - 1 /\ k \in 1 .. Len(p)
    <3>1. Len(p) \in Nat
      BY GrowIs
    <3> QED BY <1>4, <2>4, <3>1
  <2>6. /\ Grow(p, c)[k] = p[k] /\ Len(p) <= Len(Grow(p, c))
        /\ Len(p) \in Nat /\ Len(Grow(p, c)) \in Nat
    <3>1. PICK q \in PartLists : q = Grow(p, c)
      BY GrowIs
    <3>2. Len(p) \in Nat /\ (Len(q) = Len(p) \/ Len(q) = Len(p) + 1) /\ q[k] = p[k]
      BY <2>5, <3>1, GrowIs
    <3> QED BY <3>1, <3>2
  <2>7. Kept(Grow(p, c))
    BY <2>4, <2>6
  <2> QED BY <2>1, <2>3, <2>7, Zenon
<1>7. L - n \in Nat /\ n + (L - n) = L
  BY <1>0
<1>8. 0 .. L - n \subseteq S
  <2> HIDE DEF S
  <2> QED BY <1>5, <1>6, <1>7, Induction
<1>9. Kept(g[L])
  BY <1>7, <1>8
<1>10. Len(g[L]) \in Nat
  BY <1>0, <1>2, GrowIs
<1> QED BY <1>0, <1>1, <1>4, <1>9, <1>10

-----------------------------------------------------------------------------
(* Addition in octets.                                                     *)
LEMMA PlusIs ==
  ASSUME NEW n \in Octets, NEW v \in Nat
  PROVE  Plus(n, v) \in Octets /\ ShiftLeft8(n) \in Octets
<1>1. ShiftLeft8(n) \in Octets
  <2>1. PICK p, q, r : p = n[2] /\ q = n[3] /\ r = n[4]
    OBVIOUS
  <2>2. p \in 0 .. 255 /\ q \in 0 .. 255 /\ r \in 0 .. 255
    BY <2>1 DEF Octets
  <2>3. << p, q, r, 0 >> \in [1 .. 4 -> 0 .. 255]
    BY <2>2
  <2> QED BY <2>1, <2>3 DEF ShiftLeft8, Octets
<1>2. ASSUME NEW k \in 1 .. 4
      PROVE  (n[k] + Carries(n, v)[4 - k]) % 256 \in 0 .. 255
  <2>1. PICK c \in Nat : c = Carries(n, v)[4 - k]
    BY CarriesAre
  <2>2. n[k] \in Nat
    BY DEF Octets
  <2> QED BY <2>1, <2>2
<1> QED BY <1>1, <1>2 DEF Plus, Octets

LEMMA PositionalIs ==
  ASSUME NEW values \in Seq(Nat)
  PROVE  Positional(values) \in Octets
<1>1. ASSUME NEW k \in 1 .. 4 PROVE Sums(values)[5 - k] % 256 \in 0 .. 255
  <2>1. PICK c \in Nat : c = Sums(values)[5 - k]
    <3>1. 5 - k \in 0 .. 4
      OBVIOUS
    <3> QED BY <3>1, SumsAre, SMTT(30)
  <2>2. c % 256 \in 0 .. 255
    OBVIOUS
  <2> QED BY <2>1, <2>2, Zenon
<1> QED BY <1>1 DEF Positional, Octets

LEMMA PositionalOfNone == Positional(<<>>) = Zero
<1>1. PICK f : f = Sums(<<>>)
  OBVIOUS
<1>2. f[0] = 0 /\ \A m \in 1 .. 4 : f[m] = FromRight(<<>>, m) + f[m - 1] \div 256
  <2>1. <<>> \in Seq(Nat)
    OBVIOUS
  <2> QED BY <1>1, <2>1, SumsAre, ZenonT(40)
<1>3. \A m \in 1 .. 4 : FromRight(<<>>, m) = 0
  BY DEF FromRight
<1>4. f[1] = 0
  BY <1>2, <1>3
<1>5. f[2] = 0
  BY <1>2, <1>3, <1>4
<1>6. f[3] = 0
  BY <1>2, <1>3, <1>5
<1>7. f[4] = 0
  BY <1>2, <1>3, <1>6
<1> QED BY <1>1, <1>4, <1>5, <1>6, <1>7 DEF Positional, Zero

(* A sum is what the sum one value ago was and what is carried to it; then *)
(* so is the next one, and their octets agree.                             *)
LEMMA SumsShift ==
  ASSUME NEW l \in Nat, NEW f \in Nat, NEW c \in Nat
  PROVE  /\ l + (f + c) \div 256 = (l + f \div 256) + (((f % 256) + c) \div 256)
         /\ (f + c) % 256 = ((f % 256) + c) % 256
         /\ l + f \div 256 \in Nat /\ ((f % 256) + c) \div 256 \in Nat
OBVIOUS

(* One value more is eight bits more: the sum of each octet is that of the *)
(* octet after it before, and what is carried to it now.                   *)
LEMMA PositionalAppend ==
  ASSUME NEW values \in Seq(Nat), NEW v \in Nat
  PROVE  Positional(Append(values, v)) = Plus(ShiftLeft8(Positional(values)), v)
<1>1. PICK vs \in Seq(Nat) : vs = Append(values, v)
  <2>1. Append(values, v) \in Seq(Nat)
    OBVIOUS
  <2> QED BY <2>1
<1>2. PICK f : f = Sums(values)
  OBVIOUS
<1>3. PICK g : g = Sums(vs)
  OBVIOUS
<1>4. PICK q \in Octets : q = Positional(values)
  BY PositionalIs
<1>5. PICK n \in Octets : n = ShiftLeft8(q)
  BY PlusIs
<1>6. PICK c : c = Carries(n, v)
  OBVIOUS
<1>7. PICK last \in [1 .. 4 -> Nat] : \A m \in 1 .. 4 : last[m] = FromRight(values, m)
  BY FromRightIs
<1>8. PICK next \in [1 .. 4 -> Nat] : \A m \in 1 .. 4 : next[m] = FromRight(vs, m)
  BY FromRightIs
<1>9. next[1] = v /\ next[2] = last[1] /\ next[3] = last[2] /\ next[4] = last[3]
  <2>1. PICK L \in Nat : L = Len(values)
    OBVIOUS
  <2>2. Len(vs) = L + 1 /\ vs[L + 1] = v /\ \A m \in 1 .. L : vs[m] = values[m]
    BY <1>1, <2>1
  <2>3. FromRight(vs, 1) = v
    BY <2>1, <2>2 DEF FromRight
  <2>4. ASSUME NEW m \in 1 .. 3 PROVE FromRight(vs, m + 1) = FromRight(values, m)
    <3>1. m + 1 <= L + 1 <=> m <= L
      OBVIOUS
    <3>2. m <= L => L + 1 + 1 - (m + 1) = L + 1 - m /\ L + 1 - m \in 1 .. L
      OBVIOUS
    <3>3. m <= L => vs[L + 1 + 1 - (m + 1)] = values[L + 1 - m]
      BY <2>2, <3>2
    <3> QED BY <2>1, <2>2, <3>1, <3>3, Zenon DEF FromRight
  <2>5. next[1 + 1] = last[1] /\ next[2 + 1] = last[2] /\ next[3 + 1] = last[3]
    <3>1. ASSUME NEW m \in 1 .. 3 PROVE next[m + 1] = last[m]
      <4>1. m \in 1 .. 4 /\ m + 1 \in 1 .. 4
        OBVIOUS
      <4> QED BY <1>7, <1>8, <2>4, <4>1, Zenon
    <3> QED BY <3>1
  <2> QED BY <1>8, <2>3, <2>5
<1>10. f[1] = last[1] /\ f[2] = last[2] + f[1] \div 256 /\ f[3] = last[3] + f[2] \div 256
  <2>1. ASSUME NEW m \in 1 .. 4 PROVE f[m] = last[m] + f[m - 1] \div 256
    <3>1. f[m] = FromRight(values, m) + f[m - 1] \div 256
      BY <1>2, SumsAre, ZenonT(40)
    <3> QED BY <1>7, <3>1, Zenon
  <2>2. f[0] = 0
    BY <1>2, SumsAre, Zenon
  <2>3. /\ f[1] = last[1] + f[0] \div 256 /\ f[2] = last[2] + f[1] \div 256
        /\ f[3] = last[3] + f[2] \div 256
    BY <2>1
  <2>4. PICK k \in Nat : k = last[1]
    BY <1>7
  <2>5. k + 0 \div 256 = k
    OBVIOUS
  <2>6. f[1] = last[1]
    BY <2>2, <2>3, <2>4, <2>5
  <2> QED BY <2>3, <2>6
<1>11. /\ g[1] = v /\ g[2] = last[1] + g[1] \div 256
       /\ g[3] = last[2] + g[2] \div 256 /\ g[4] = last[3] + g[3] \div 256
  <2>1. ASSUME NEW m \in 1 .. 4 PROVE g[m] = next[m] + g[m - 1] \div 256
    <3>1. g[m] = FromRight(vs, m) + g[m - 1] \div 256
      BY <1>3, SumsAre, ZenonT(40)
    <3> QED BY <1>8, <3>1, Zenon
  <2>2. g[0] = 0
    BY <1>3, SumsAre, Zenon
  <2>3. /\ g[1] = next[1] + g[0] \div 256 /\ g[2] = next[2] + g[1] \div 256
        /\ g[3] = next[3] + g[2] \div 256 /\ g[4] = next[4] + g[3] \div 256
    BY <2>1
  <2>4. v + 0 \div 256 = v
    OBVIOUS
  <2>5. g[1] = v
    BY <1>9, <2>2, <2>3, <2>4
  <2> QED BY <1>9, <2>3, <2>5
<1>12. n[1] = f[3] % 256 /\ n[2] = f[2] % 256 /\ n[3] = f[1] % 256 /\ n[4] = 0
  <2>1. \A k \in 1 .. 4 : q[k] = f[5 - k] % 256
    BY <1>2, <1>4, Zenon DEF Positional
  <2>2. q[2] = f[3] % 256 /\ q[3] = f[2] % 256 /\ q[4] = f[1] % 256
    BY <2>1
  <2> QED BY <1>5, <2>2 DEF ShiftLeft8
<1>13. /\ c[0] = v /\ c[1] = v \div 256
       /\ c[2] = ((f[1] % 256) + c[1]) \div 256 /\ c[3] = ((f[2] % 256) + c[2]) \div 256
  <2>1. /\ c[0] = v /\ c[1] = (n[4] + c[0]) \div 256
        /\ c[2] = (n[3] + c[1]) \div 256 /\ c[3] = (n[2] + c[2]) \div 256
    <3>1. n \in Octets /\ v \in Nat
      BY <1>5
    <3>2. /\ Carries(n, v)[0] = v
          /\ Carries(n, v)[1] = (n[4] + Carries(n, v)[0]) \div 256
          /\ Carries(n, v)[2] = (n[3] + Carries(n, v)[1]) \div 256
          /\ Carries(n, v)[3] = (n[2] + Carries(n, v)[2]) \div 256
      BY <3>1, CarriesUnrolled
    <3> QED BY <1>6, <3>2, Zenon
  <2>2. 0 + v = v
    OBVIOUS
  <2>3. c[1] = v \div 256
    BY <1>12, <2>1, <2>2
  <2> QED BY <1>12, <2>1, <2>3
<1>14. /\ g[2] % 256 = ((f[1] % 256) + c[1]) % 256
       /\ g[3] % 256 = ((f[2] % 256) + c[2]) % 256
       /\ g[4] % 256 = ((f[3] % 256) + c[3]) % 256
  <2>1. last[1] \in Nat /\ last[2] \in Nat /\ last[3] \in Nat
    BY <1>7
  <2>2. PICK f1, f2, f3, g1, g2, g3, g4, c1, c2, c3 :
          /\ f1 = f[1] /\ f2 = f[2] /\ f3 = f[3]
          /\ g1 = g[1] /\ g2 = g[2] /\ g3 = g[3] /\ g4 = g[4]
          /\ c1 = c[1] /\ c2 = c[2] /\ c3 = c[3]
    OBVIOUS
  <2>3. PICK l1 \in Nat, l2 \in Nat, l3 \in Nat :
          l1 = last[1] /\ l2 = last[2] /\ l3 = last[3]
    BY <2>1
  <2>4. f1 = l1 /\ f2 = l2 + f1 \div 256 /\ f3 = l3 + f2 \div 256
    BY <1>10, <2>2, <2>3
  <2>5. /\ g1 = v /\ g2 = l1 + g1 \div 256
        /\ g3 = l2 + g2 \div 256 /\ g4 = l3 + g3 \div 256
    BY <1>11, <2>2, <2>3
  <2>6. /\ c1 = v \div 256
        /\ c2 = ((f1 % 256) + c1) \div 256 /\ c3 = ((f2 % 256) + c2) \div 256
    BY <1>13, <2>2
  <2>7. f1 \in Nat /\ c1 \in Nat /\ g2 = f1 + c1
    BY <2>4, <2>5, <2>6
  <2>8. f2 \in Nat /\ c2 \in Nat /\ g3 = f2 + c2
    BY <2>4, <2>5, <2>6, <2>7, SumsShift
  <2>9. f3 \in Nat /\ c3 \in Nat /\ g4 = f3 + c3
    BY <2>4, <2>5, <2>6, <2>8, SumsShift
  <2>10. /\ g2 % 256 = ((f1 % 256) + c1) % 256
         /\ g3 % 256 = ((f2 % 256) + c2) % 256
         /\ g4 % 256 = ((f3 % 256) + c3) % 256
    BY <2>7, <2>8, <2>9, SumsShift
  <2> QED BY <2>2, <2>10
<1>15. ASSUME NEW k \in 1 .. 4 PROVE g[5 - k] % 256 = (n[k] + c[4 - k]) % 256
  <2>1. /\ g[4] % 256 = (n[1] + c[3]) % 256 /\ g[3] % 256 = (n[2] + c[2]) % 256
        /\ g[2] % 256 = (n[3] + c[1]) % 256 /\ g[1] % 256 = (n[4] + c[0]) % 256
    <3>1. 0 + v = v
      OBVIOUS
    <3>2. g[1] % 256 = (n[4] + c[0]) % 256
      BY <1>11, <1>12, <1>13, <3>1
    <3> QED BY <1>12, <1>14, <3>2
  <2> DEFINE Same(m) == g[5 - m] % 256 = (n[m] + c[4 - m]) % 256
  <2>2. Same(1) /\ Same(2) /\ Same(3) /\ Same(4)
    <3>1. /\ 5 - 1 = 4 /\ 5 - 2 = 3 /\ 5 - 3 = 2 /\ 5 - 4 = 1
          /\ 4 - 1 = 3 /\ 4 - 2 = 2 /\ 4 - 3 = 1 /\ 4 - 4 = 0
      OBVIOUS
    <3> QED BY <2>1, <3>1
  <2>3. k = 1 \/ k = 2 \/ k = 3 \/ k = 4
    OBVIOUS
  <2>4. Same(k)
    <3> HIDE DEF Same
    <3> QED BY <2>2, <2>3
  <2> QED BY <2>4
<1>16. [k \in 1 .. 4 |-> g[5 - k] % 256] = [k \in 1 .. 4 |-> (n[k] + c[4 - k]) % 256]
  <2> DEFINE This(k) == g[5 - k] % 256
             That(k) == (n[k] + c[4 - k]) % 256
  <2>1. \A k \in 1 .. 4 : This(k) = That(k)
    BY <1>15, Zenon
  <2>2. [k \in 1 .. 4 |-> This(k)] = [k \in 1 .. 4 |-> That(k)]
    <3> HIDE DEF This, That
    <3> QED BY <2>1
  <2> QED BY <2>2, Zenon
<1>17. Positional(vs) = [k \in 1 .. 4 |-> g[5 - k] % 256]
  BY <1>3, Zenon DEF Positional
<1>18. Plus(n, v) = [k \in 1 .. 4 |-> (n[k] + c[4 - k]) % 256]
  BY <1>6, Zenon DEF Plus
<1> QED BY <1>1, <1>4, <1>5, <1>16, <1>17, <1>18, Zenon

-----------------------------------------------------------------------------
LEMMA DigitsRead ==
  ASSUME NEW s \in Seq(Digits)
  PROVE  s \in Seq(Nat) /\ stoi(s) \in Nat
<1>1. s \in Seq(Nat)
  <2>1. Digits \subseteq Nat
    BY IAddrAssumption
  <2>2. Len(s) \in Nat /\ s \in [1 .. Len(s) -> Digits]
    OBVIOUS
  <2>3. s \in [1 .. Len(s) -> Nat]
    BY <2>1, <2>2
  <2> QED BY <2>2, <2>3
<1> QED BY <1>1, StoiIsNat

LEMMA AddComponentIs ==
  ASSUME TypeOK
  PROVE  AddComponent \in Octets
<1>1. x \in Octets /\ stoi(temp) \in Nat
  BY DigitsRead DEF TypeOK, Octets
<1>2. ShiftLeft8(x) \in Octets
  BY <1>1, PlusIs
<1> QED BY <1>1, <1>2, PlusIs DEF AddComponent

(* The types hold for a text of any length, of any digits: in particular   *)
(* no addition leaves the four octets (iAddr.cpp:8-25, 32-50).             *)
THEOREM IAddrTypes == Spec => []TypeOK
<1>1. Init => TypeOK
  <2> SUFFICES ASSUME Init PROVE TypeOK
    OBVIOUS
  <2>1. text \in Seq(Digits \cup {Dot})
    BY DEF Init, Texts
  <2>2. 0 \in 0 .. Len(text)
    BY <2>1
  <2> QED BY <2>1, <2>2 DEF Init, TypeOK, Zero
<1>2. TypeOK /\ [Next]_vars => TypeOK'
  <2> SUFFICES ASSUME TypeOK, [Next]_vars PROVE TypeOK'
    OBVIOUS
  <2>1. PICK sum \in [1 .. 4 -> 0 .. 255] : sum = AddComponent
    BY AddComponentIs DEF Octets
  <2>2. CASE ReadSeparator
    <3>1. text' = text /\ by' = by /\ i' = i + 1 /\ i < Len(text)
      BY <2>2 DEF ReadSeparator
    <3>2. i' \in 0 .. Len(text')
      BY <3>1 DEF TypeOK
    <3>3. \/ status' = "threw" /\ UNCHANGED <<x, temp, addr_i>>
          \/ x' = sum /\ temp' = <<>> /\ UNCHANGED <<status, addr_i>>
      BY <2>1, <2>2 DEF ReadSeparator, Throw
    <3>4. <<>> \in Seq(Digits)
      OBVIOUS
    <3>5. temp' \in Seq(Digits) /\ status' \in {"reading", "returned", "threw"}
      BY <3>3, <3>4 DEF TypeOK
    <3>6. x' \in [1 .. 4 -> 0 .. 255] /\ addr_i' \in [1 .. 4 -> 0 .. 255]
      BY <3>3, ZenonT(40) DEF TypeOK
    <3> QED BY <3>1, <3>2, <3>5, <3>6 DEF TypeOK
  <2>3. CASE ReadDigit
    <3>1. text' = text /\ by' = by /\ i' = i + 1 /\ i < Len(text)
          /\ UNCHANGED <<x, status, addr_i>>
      BY <2>3 DEF ReadDigit
    <3>2. i' \in 0 .. Len(text') /\ i + 1 \in 1 .. Len(text)
      BY <3>1 DEF TypeOK
    <3>3. PICK c \in Digits : c = text[i + 1]
      BY <2>3, <3>2 DEF ReadDigit, Separates, TypeOK
    <3>4. temp' = Append(temp, c)
      BY <2>3, <3>3 DEF ReadDigit
    <3>5. temp' \in Seq(Digits)
      BY <3>4 DEF TypeOK
    <3> QED BY <3>1, <3>2, <3>5 DEF TypeOK
  <2>4. CASE ReadLast
    <3>1. text' = text /\ by' = by /\ i' = i /\ temp' = temp
      BY <2>4 DEF ReadLast, Throw
    <3>2. \/ status' = "threw" /\ UNCHANGED <<x, addr_i>>
          \/ x' = sum /\ addr_i' = sum /\ status' = "returned"
      BY <2>1, <2>4 DEF ReadLast, Throw
    <3> QED BY <3>1, <3>2, ZenonT(40) DEF TypeOK
  <2>5. CASE UNCHANGED vars
    BY <2>5 DEF vars, TypeOK
  <2> QED BY <2>2, <2>3, <2>4, <2>5 DEF Next
<1> QED BY <1>1, <1>2, PTL DEF Spec

Values(p) == [k \in 1 .. Len(p) |-> stoi(p[k])]

\* the components that a separator has ended
Ended(p) == [k \in 1 .. Len(p) - 1 |-> stoi(p[k])]

Constructing(p, all) ==
  /\ status = "reading" => /\ temp = p[Len(p)]
                           /\ \A k \in 1 .. Len(p) - 1 : CanRead(p[k])
                           /\ x = Positional(Ended(p))
  /\ status = "threw" => \E k \in 1 .. Len(all) : ~CanRead(all[k])
  /\ status = "returned" => /\ \A k \in 1 .. Len(all) : CanRead(all[k])
                            /\ addr_i = Positional(Values(all))

LEMMA EndedGrows ==
  ASSUME NEW p \in PartLists
  PROVE  /\ Ended(p) \in Seq(Nat) /\ stoi(p[Len(p)]) \in Nat
         /\ Append(Ended(p), stoi(p[Len(p)])) = Values(p)
         /\ Ended(Grow(p, Dot)) = Values(p)
         /\ \A c \in Digits : Ended(Grow(p, c)) = Ended(p)
<1>1. PICK n \in Nat \ {0} : n = Len(p)
  BY DEF PartLists
<1>2. PICK value \in [1 .. n -> Nat] : \A k \in 1 .. n : value[k] = stoi(p[k])
  <2>1. \A k \in 1 .. n : p[k] \in Seq(Digits)
    BY <1>1 DEF PartLists
  <2>2. \A k \in 1 .. n : stoi(p[k]) \in Nat
    BY <2>1, DigitsRead
  <2> DEFINE value == [k \in 1 .. n |-> stoi(p[k])]
  <2>3. value \in [1 .. n -> Nat] /\ \A k \in 1 .. n : value[k] = stoi(p[k])
    BY <2>2
  <2> QED BY <2>3
<1>3. Values(p) = [k \in 1 .. n |-> value[k]] /\ Ended(p) = [k \in 1 .. n - 1 |-> value[k]]
  <2>1. 1 .. n - 1 \subseteq 1 .. n
    OBVIOUS
  <2> QED BY <1>1, <1>2, <2>1 DEF Values, Ended
<1>4. Ended(p) \in Seq(Nat) /\ stoi(p[Len(p)]) \in Nat
  <2>1. n - 1 \in Nat /\ n \in 1 .. n /\ 1 .. n - 1 \subseteq 1 .. n
    OBVIOUS
  <2>2. Ended(p) \in [1 .. n - 1 -> Nat]
    BY <1>2, <1>3, <2>1
  <2>3. Ended(p) \in Seq(Nat)
    <3>1. PICK e, m : e = Ended(p) /\ m = n - 1
      OBVIOUS
    <3>2. m \in Nat /\ e \in [1 .. m -> Nat]
      BY <2>1, <2>2, <3>1
    <3>3. e \in Seq(Nat)
      BY <3>2
    <3> QED BY <3>1, <3>3
  <2>4. stoi(p[Len(p)]) \in Nat
    BY <1>1, <1>2, <2>1
  <2> QED BY <2>3, <2>4
<1>5. Append(Ended(p), stoi(p[Len(p)])) = Values(p)
  <2>1. PICK v \in Nat : v = stoi(p[Len(p)]) /\ v = value[n]
    BY <1>1, <1>2, <1>4
  <2>2. PICK e \in Seq(Nat) : e = Ended(p)
    BY <1>4
  <2>3. Len(e) = n - 1 /\ \A k \in 1 .. n - 1 : e[k] = value[k]
    BY <1>3, <2>2
  <2>4. Append(e, v) \in Seq(Nat) /\ Len(Append(e, v)) = n
        /\ Append(e, v)[n] = v /\ \A k \in 1 .. n - 1 : Append(e, v)[k] = e[k]
    BY <2>3
  <2>5. Append(e, v) = [k \in 1 .. n |-> value[k]]
    <3>1. ASSUME NEW k \in 1 .. n PROVE Append(e, v)[k] = value[k]
      BY <2>1, <2>3, <2>4
    <3>2. PICK w : w = Append(e, v)
      OBVIOUS
    <3>3. w \in Seq(Nat) /\ Len(w) = n /\ \A k \in 1 .. n : w[k] = value[k]
      BY <2>4, <3>1, <3>2
    <3>4. w \in [1 .. Len(w) -> Nat]
      BY <3>3
    <3>5. w = [k \in 1 .. n |-> value[k]]
      <4>1. w \in [1 .. n -> Nat]
        BY <3>3, <3>4, Zenon
      <4> QED BY <3>3, <4>1
    <3> QED BY <3>2, <3>5
  <2> QED BY <1>3, <2>1, <2>2, <2>5
<1>6. Ended(Grow(p, Dot)) = Values(p)
  <2>1. PICK q \in PartLists : q = Grow(p, Dot)
    BY GrowIs DEF Chars
  <2>2. Len(q) = n + 1 /\ \A k \in 1 .. n : q[k] = p[k]
    BY <1>1, <2>1, GrowIs DEF Chars
  <2>3. n + 1 - 1 = n
    OBVIOUS
  <2>4. Ended(q) = [k \in 1 .. n |-> stoi(q[k])]
    BY <2>2, <2>3 DEF Ended
  <2> QED BY <1>1, <2>1, <2>2, <2>4 DEF Values
<1>7. ASSUME NEW c \in Digits PROVE Ended(Grow(p, c)) = Ended(p)
  <2>1. c \in Chars /\ c # Dot
    BY IAddrAssumption DEF Chars
  <2>2. PICK q \in PartLists : q = Grow(p, c)
    BY <2>1, GrowIs
  <2>3. Len(q) = n /\ \A k \in 1 .. n - 1 : q[k] = p[k]
    BY <1>1, <2>1, <2>2, GrowIs
  <2> QED BY <1>1, <2>2, <2>3 DEF Ended
<1> QED BY <1>4, <1>5, <1>6, <1>7

(* The constructor gives every text of any length its dotted form's value, *)
(* or throws for a component it cannot read, the first of which no later   *)
(* character can mend (iAddr.cpp:8-25).                                    *)
THEOREM ConstructorReadsHolds == Spec => []ConstructorReads
<1> DEFINE Inv == by = "iAddr" => Constructing(Parts(text)[i], Components)
<1>1. TypeOK => /\ \A n \in 0 .. Len(text) : Parts(text)[n] \in PartLists
                /\ Parts(text)[0] = << <<>> >>
                /\ text \in Seq(Chars) /\ i \in 0 .. Len(text)
                /\ Components \in PartLists
  <2> SUFFICES ASSUME TypeOK
               PROVE  /\ \A n \in 0 .. Len(text) : Parts(text)[n] \in PartLists
                      /\ Parts(text)[0] = << <<>> >>
                      /\ text \in Seq(Chars) /\ i \in 0 .. Len(text)
                      /\ Components \in PartLists
    OBVIOUS
  <2>1. text \in Seq(Chars) /\ i \in 0 .. Len(text) /\ Len(text) \in 0 .. Len(text)
    BY DEF TypeOK, Chars
  <2> QED BY <2>1, PartsAre DEF Components
<1>2. TypeOK /\ Init => Inv
  <2> SUFFICES ASSUME TypeOK, Init PROVE Constructing(Parts(text)[i], Components)
    OBVIOUS
  <2>1. i = 0 /\ temp = <<>> /\ x = Zero /\ status = "reading"
    BY DEF Init
  <2>2. PICK p : p = << <<>> >>
    OBVIOUS
  <2>3. Len(p) = 1 /\ p[1] = <<>>
    BY <2>2
  <2>4. Ended(p) = <<>>
    BY <2>3 DEF Ended
  <2>5. x = Positional(Ended(p))
    BY <2>1, <2>4, PositionalOfNone
  <2>6. Constructing(p, Components)
    BY <2>1, <2>3, <2>5 DEF Constructing
  <2> QED BY <1>1, <2>1, <2>2, <2>6
<1>3. TypeOK /\ TypeOK' /\ Inv /\ [Next]_vars => Inv'
  <2> SUFFICES ASSUME TypeOK, TypeOK', Inv, [Next]_vars, by' = "iAddr"
               PROVE  Constructing(Parts(text)[i], Components)'
    OBVIOUS
  <2>0. by = "iAddr" /\ text' = text
    BY DEF Next, vars, ReadSeparator, ReadDigit, ReadLast
  <2>1. PICK p \in PartLists, all \in PartLists :
               p = Parts(text)[i] /\ all = Components
    BY <1>1
  <2>2. Constructing(p, all) /\ Components' = all
    BY <2>0, <2>1 DEF Components
  <2>3. ASSUME NEW q, q = Parts(text)[i'], Constructing(q, all)'
        PROVE  Constructing(Parts(text)[i], Components)'
    <3>1. Parts(text')[i'] = q
      BY <2>0, <2>3
    <3> QED BY <2>2, <2>3, <3>1 DEF Constructing
  <2>4. \A k \in 1 .. Len(p) : p[k] \in Seq(Digits)
    BY DEF PartLists
  <2>5. CASE ReadSeparator
    <3>1. i < Len(text) /\ i' = i + 1 /\ text[i + 1] = Dot /\ status = "reading"
      BY <2>0, <2>5 DEF ReadSeparator, Separates
    <3>2. i + 1 \in 1 .. Len(text) /\ i + 1 - 1 = i /\ i + 1 \in 0 .. Len(text)
      BY <1>1, <3>1
    <3>3. PICK q \in PartLists : q = Grow(p, Dot) /\ q = Parts(text)[i']
      BY <1>1, <2>1, <3>1, <3>2, PartsAre
    <3>4. /\ Len(p) \in Nat \ {0} /\ Len(q) = Len(p) + 1 /\ q[Len(q)] = <<>>
          /\ \A k \in 1 .. Len(p) : q[k] = p[k]
      <4>1. /\ Len(Grow(p, Dot)) = Len(p) + 1 /\ Grow(p, Dot)[Len(p) + 1] = <<>>
            /\ Len(p) \in Nat \ {0} /\ \A k \in 1 .. Len(p) : Grow(p, Dot)[k] = p[k]
        BY GrowIs DEF Chars
      <4> QED BY <3>3, <4>1
    <3>5. temp = p[Len(p)] /\ (\A k \in 1 .. Len(p) - 1 : CanRead(p[k]))
          /\ x = Positional(Ended(p))
      BY <2>2, <3>1 DEF Constructing
    <3>6. CASE ~CanRead(temp) /\ Throw
      <4>1. PICK k : k = Len(p) /\ k \in 1 .. Len(q) - 1
        BY <3>4
      <4>2. k \in 1 .. Len(all) /\ all[k] = q[k]
        BY <1>1, <2>1, <3>1, <3>2, <3>3, <4>1, PartsKeep DEF Components
      <4>3. ~CanRead(all[k])
        BY <3>4, <3>5, <3>6, <4>1, <4>2
      <4>4. Constructing(q, all)'
        BY <3>6, <4>2, <4>3 DEF Constructing, Throw
      <4> QED BY <2>3, <3>3, <4>4
    <3>7. CASE CanRead(temp) /\ x' = AddComponent /\ temp' = <<>> /\ status' = status
      <4>1. \A k \in 1 .. Len(q) - 1 : CanRead(q[k])
        <5>1. ASSUME NEW k \in 1 .. Len(q) - 1 PROVE CanRead(q[k])
          <6>1. k \in 1 .. Len(p) /\ (k = Len(p) \/ k \in 1 .. Len(p) - 1)
            BY <3>4
          <6> QED BY <3>4, <3>5, <3>7, <6>1
        <5> QED BY <5>1
      <4>2. x' = Positional(Ended(q))
        <5>1. Append(Ended(p), stoi(temp)) = Ended(q)
          BY <3>3, <3>5, EndedGrows
        <5>2. Ended(p) \in Seq(Nat) /\ stoi(temp) \in Nat
          BY <3>5, EndedGrows
        <5>3. AddComponent = Positional(Append(Ended(p), stoi(temp)))
          BY <3>5, <5>2, PositionalAppend DEF AddComponent
        <5> QED BY <3>7, <5>1, <5>3
      <4>3. Constructing(q, all)'
        BY <3>1, <3>4, <3>7, <4>1, <4>2 DEF Constructing
      <4> QED BY <2>3, <3>3, <4>3
    <3> QED BY <2>5, <3>6, <3>7 DEF ReadSeparator
  <2>6. CASE ReadDigit
    <3>1. i < Len(text) /\ i' = i + 1 /\ text[i + 1] # Dot /\ status = "reading"
          /\ temp' = Append(temp, text[i + 1]) /\ UNCHANGED <<x, status, addr_i>>
      BY <2>0, <2>6 DEF ReadDigit, Separates
    <3>2. i + 1 \in 1 .. Len(text) /\ i + 1 - 1 = i /\ i + 1 \in 0 .. Len(text)
      BY <1>1, <3>1
    <3>3. PICK c \in Digits : c = text[i + 1]
      BY <1>1, <3>1, <3>2 DEF Chars
    <3>4. c \in Chars /\ c # Dot
      BY <3>1, <3>3 DEF Chars
    <3>5. PICK q \in PartLists : q = Grow(p, c) /\ q = Parts(text)[i']
      BY <1>1, <2>1, <3>1, <3>2, <3>3, PartsAre
    <3>6. /\ Len(q) = Len(p) /\ q[Len(p)] = Append(p[Len(p)], c)
          /\ \A k \in 1 .. Len(p) - 1 : q[k] = p[k]
      <4>1. /\ Len(Grow(p, c)) = Len(p) /\ Grow(p, c)[Len(p)] = Append(p[Len(p)], c)
            /\ \A k \in 1 .. Len(p) - 1 : Grow(p, c)[k] = p[k]
        BY <3>4, GrowIs
      <4> QED BY <3>5, <4>1
    <3>7. temp = p[Len(p)] /\ (\A k \in 1 .. Len(p) - 1 : CanRead(p[k]))
          /\ x = Positional(Ended(p))
      BY <2>2, <3>1 DEF Constructing
    <3>8. Ended(q) = Ended(p)
      BY <3>5, EndedGrows
    <3>9. Constructing(q, all)'
      BY <3>1, <3>3, <3>6, <3>7, <3>8 DEF Constructing
    <3> QED BY <2>3, <3>5, <3>9
  <2>7. CASE ReadLast
    <3>1. i' = i /\ i = Len(text) /\ status = "reading"
      BY <2>7 DEF ReadLast
    <3>2. p = all /\ p = Parts(text)[i']
      BY <2>1, <3>1 DEF Components
    <3>3. temp = p[Len(p)] /\ (\A k \in 1 .. Len(p) - 1 : CanRead(p[k]))
          /\ x = Positional(Ended(p)) /\ Len(p) \in Nat \ {0}
      BY <2>2, <3>1 DEF Constructing, PartLists
    <3>4. CASE ~CanRead(temp) /\ Throw
      <4>1. Len(p) \in 1 .. Len(all) /\ ~CanRead(all[Len(p)])
        BY <3>2, <3>3, <3>4
      <4>2. Constructing(p, all)'
        BY <3>4, <4>1 DEF Constructing, Throw
      <4> QED BY <2>3, <3>2, <4>2
    <3>5. CASE CanRead(temp) /\ addr_i' = AddComponent /\ status' = "returned"
      <4>1. \A k \in 1 .. Len(all) : CanRead(all[k])
        <5>1. ASSUME NEW k \in 1 .. Len(p) PROVE CanRead(p[k])
          <6>1. k = Len(p) \/ k \in 1 .. Len(p) - 1
            BY <3>3
          <6> QED BY <3>3, <3>5, <6>1
        <5> QED BY <3>2, <5>1
      <4>2. addr_i' = Positional(Values(all))
        <5>1. Append(Ended(p), stoi(temp)) = Values(all)
          BY <3>2, <3>3, EndedGrows
        <5>2. Ended(p) \in Seq(Nat) /\ stoi(temp) \in Nat
          BY <3>3, EndedGrows
        <5>3. AddComponent = Positional(Append(Ended(p), stoi(temp)))
          BY <3>3, <5>2, PositionalAppend DEF AddComponent
        <5> QED BY <3>5, <5>1, <5>3
      <4>3. Constructing(p, all)'
        BY <3>5, <4>1, <4>2 DEF Constructing
      <4> QED BY <2>3, <3>2, <4>3
    <3> QED BY <2>7, <3>4, <3>5 DEF ReadLast
  <2>8. CASE UNCHANGED vars
    <3>1. Constructing(p, all)' /\ i' = i
      BY <2>2, <2>8 DEF Constructing, vars
    <3> QED BY <2>1, <2>3, <3>1
  <2> QED BY <2>5, <2>6, <2>7, <2>8 DEF Next
<1>4. TypeOK /\ Inv => ConstructorReads
  <2> SUFFICES ASSUME TypeOK, Inv, by = "iAddr", status # "reading"
               PROVE  LET values == [k \in DOMAIN Components |-> stoi(Components[k])]
                      IN  IF \E k \in DOMAIN Components : ~CanRead(Components[k])
                          THEN status = "threw"
                          ELSE status = "returned" /\ addr_i = Positional(values)
    BY DEF ConstructorReads
  <2>1. PICK all \in PartLists : all = Components
    BY <1>1
  <2>2. DOMAIN all = 1 .. Len(all)
    BY <2>1 DEF PartLists
  <2>3. [k \in DOMAIN all |-> stoi(all[k])] = Values(all)
    BY <2>2 DEF Values
  <2>4. /\ status = "threw" => \E k \in 1 .. Len(all) : ~CanRead(all[k])
        /\ status = "returned" => /\ \A k \in 1 .. Len(all) : CanRead(all[k])
                                  /\ addr_i = Positional(Values(all))
    BY <2>1 DEF Constructing
  <2>5. status = "threw" \/ status = "returned"
    BY DEF TypeOK
  <2> QED BY <2>1, <2>2, <2>3, <2>4, <2>5
<1>5. Spec => []TypeOK
  BY IAddrTypes
<1> QED BY <1>2, <1>3, <1>4, <1>5, PTL DEF Spec

(* Nothing is carried out of components up to 255.                         *)
LEMMA QuadIsPositional ==
  ASSUME NEW values \in [1 .. 4 -> 0 .. 255]
  PROVE  Positional(values) = values
<1>1. values \in Seq(Nat) /\ Len(values) = 4
  <2>1. values \in [1 .. 4 -> Nat] /\ 4 \in Nat
    OBVIOUS
  <2>2. values = [k \in 1 .. 4 |-> values[k]] /\ \A k \in 1 .. 4 : values[k] \in Nat
    BY <2>1
  <2>3. [k \in 1 .. 4 |-> values[k]] \in Seq(Nat)
    BY <2>2
  <2> QED BY <2>1, <2>2, <2>3
<1>2. PICK f : f = Sums(values)
  OBVIOUS
<1>3. f[0] = 0 /\ \A m \in 1 .. 4 : f[m] = FromRight(values, m) + f[m - 1] \div 256
  BY <1>1, <1>2, SumsAre, ZenonT(40)
<1>4. ASSUME NEW m \in 1 .. 4 PROVE FromRight(values, m) = values[5 - m]
  BY <1>1 DEF FromRight
<1>5. ASSUME NEW v \in 0 .. 255, NEW w \in 0 .. 255
      PROVE  v + w \div 256 = v /\ v % 256 = v
  OBVIOUS
<1>6. /\ values[1] \in 0 .. 255 /\ values[2] \in 0 .. 255
      /\ values[3] \in 0 .. 255 /\ values[4] \in 0 .. 255
  OBVIOUS
<1>7. /\ FromRight(values, 1) = values[4] /\ FromRight(values, 2) = values[3]
      /\ FromRight(values, 3) = values[2] /\ FromRight(values, 4) = values[1]
  BY <1>4
<1>8. /\ f[1] = values[4] + f[0] \div 256 /\ f[2] = values[3] + f[1] \div 256
      /\ f[3] = values[2] + f[2] \div 256 /\ f[4] = values[1] + f[3] \div 256
  <2>1. /\ f[1] = FromRight(values, 1) + f[0] \div 256
        /\ f[2] = FromRight(values, 2) + f[1] \div 256
        /\ f[3] = FromRight(values, 3) + f[2] \div 256
        /\ f[4] = FromRight(values, 4) + f[3] \div 256
    BY <1>3
  <2> QED BY <1>7, <2>1
<1>9. f[1] = values[4]
  BY <1>3, <1>5, <1>6, <1>8
<1>10. f[2] = values[3]
  BY <1>5, <1>6, <1>8, <1>9
<1>11. f[3] = values[2]
  BY <1>5, <1>6, <1>8, <1>10
<1>12. f[4] = values[1]
  BY <1>5, <1>6, <1>8, <1>11
<1>13. /\ f[1] % 256 = values[4] /\ f[2] % 256 = values[3]
       /\ f[3] % 256 = values[2] /\ f[4] % 256 = values[1]
  BY <1>5, <1>6, <1>9, <1>10, <1>11, <1>12
<1>14. ASSUME NEW k \in 1 .. 4 PROVE f[5 - k] % 256 = values[k]
  BY <1>13
<1>15. Positional(values) = [k \in 1 .. 4 |-> f[5 - k] % 256]
  BY <1>2, Zenon DEF Positional
<1> QED BY <1>14, <1>15

(* The constructor makes of four components up to 255, written with any    *)
(* number of digits, the four octets of the address: no two servers named  *)
(* so share a key of the manager's hash (iAddr.cpp:8-25).                  *)
THEOREM DottedQuadHolds == Spec => []DottedQuad
<1>1. TypeOK /\ ConstructorReads => DottedQuad
  <2> SUFFICES ASSUME TypeOK, ConstructorReads, by = "iAddr", status # "reading", Quad
               PROVE  /\ status = "returned"
                      /\ addr_i = [k \in 1 .. 4 |-> stoi(Components[k])]
    BY DEF DottedQuad
  <2>1. PICK all : all = Components
    OBVIOUS
  <2>2. all \in PartLists
    <3>1. text \in Seq(Chars)
      BY DEF TypeOK, Chars
    <3>2. Len(text) \in 0 .. Len(text)
      BY <3>1
    <3> QED BY <2>1, <3>1, <3>2, PartsAre DEF Components
  <2>3. Len(all) = 4 /\ \A k \in 1 .. 4 : CanRead(all[k]) /\ stoi(all[k]) <= 255
    BY <2>1 DEF Quad
  <2>4. DOMAIN all = 1 .. 4 /\ \A k \in 1 .. 4 : all[k] \in Seq(Digits)
    <3>1. DOMAIN all = 1 .. Len(all) /\ \A k \in 1 .. Len(all) : all[k] \in Seq(Digits)
      BY <2>2 DEF PartLists
    <3>2. Len(all) = 4
      BY <2>3
    <3> QED BY <3>1, <3>2
  <2>5. \A k \in 1 .. 4 : stoi(all[k]) \in 0 .. 255
    <3>1. \A k \in 1 .. 4 : stoi(all[k]) \in Nat
      BY <2>4, DigitsRead
    <3> QED BY <2>3, <3>1
  <2>6. status = "returned" /\ addr_i = Positional([k \in DOMAIN all |-> stoi(all[k])])
    BY <2>1, <2>3, <2>4 DEF ConstructorReads
  <2>7. PICK values : values = [k \in 1 .. 4 |-> stoi(all[k])]
    OBVIOUS
  <2>8. values \in [1 .. 4 -> 0 .. 255]
    BY <2>5, <2>7
  <2>9. Positional(values) = values
    BY <2>8, QuadIsPositional
  <2> QED BY <2>1, <2>4, <2>6, <2>7, <2>9
<1> QED BY <1>1, IAddrTypes, ConstructorReadsHolds, PTL

TwoTo32 == 256 * (256 * (256 * 256))

Number(n) == 256 * (256 * (256 * n[1] + n[2]) + n[3]) + n[4]

\* the same, of a number c before the octets
Wide(c, r1, r2, r3, r4) == 256 * (256 * (256 * (256 * c + r1) + r2) + r3) + r4

Byte == 0 .. 255

LEMMA Remainder ==
  ASSUME NEW r1 \in Byte, NEW r2 \in Byte, NEW r3 \in Byte, NEW r4 \in Byte, NEW c \in Nat
  PROVE  Wide(c, r1, r2, r3, r4) % TwoTo32 = Wide(0, r1, r2, r3, r4)
<1>1. (256 * (256 * (256 * (256 * c + r1) + r2) + r3) + r4)
        % (256 * (256 * (256 * 256)))
        = 256 * (256 * (256 * r1 + r2) + r3) + r4
  BY DEF Byte
<1>2. 256 * 0 + r1 = r1
  BY DEF Byte
<1> QED BY <1>1, <1>2 DEF Wide, TwoTo32

\* a column of the addition: what is written, what is carried
IsColumn(k, w, c, r) ==
  c \in Nat /\ r \in Byte /\ k + w = 256 * c + r

LEMMA Column ==
  ASSUME NEW k \in Byte, NEW w \in Nat
  PROVE  IsColumn(k, w, (k + w) \div 256, (k + w) % 256)
<1>1. /\ (k + w) \div 256 \in Nat /\ (k + w) % 256 \in 0 .. 255
      /\ k + w = 256 * ((k + w) \div 256) + ((k + w) % 256)
  BY DEF Byte
<1> QED BY <1>1, Zenon DEF IsColumn, Byte

LEMMA ColumnsAre ==
  ASSUME NEW n \in Octets, NEW v \in Nat,
         NEW c1, NEW c2, NEW c3, NEW c4, NEW r1, NEW r2, NEW r3, NEW r4,
         IsColumn(n[4], v, c1, r4), IsColumn(n[3], c1, c2, r3),
         IsColumn(n[2], c2, c3, r2), IsColumn(n[1], c3, c4, r1)
  PROVE  Number(n) + v = Wide(c4, r1, r2, r3, r4)
<1>1. PICK n1 \in Byte, n2 \in Byte, n3 \in Byte, n4 \in Byte :
           n1 = n[1] /\ n2 = n[2] /\ n3 = n[3] /\ n4 = n[4]
  <2>1. n[1] \in Byte /\ n[2] \in Byte /\ n[3] \in Byte /\ n[4] \in Byte
    BY DEF Octets, Byte
  <2> QED BY <2>1
<1>2. /\ n4 + v = 256 * c1 + r4 /\ n3 + c1 = 256 * c2 + r3
      /\ n2 + c2 = 256 * c3 + r2 /\ n1 + c3 = 256 * c4 + r1
  BY <1>1 DEF IsColumn
<1>3. /\ c1 \in Nat /\ c2 \in Nat /\ c3 \in Nat /\ c4 \in Nat
      /\ r1 \in Nat /\ r2 \in Nat /\ r3 \in Nat /\ r4 \in Nat
      /\ n1 \in Nat /\ n2 \in Nat /\ n3 \in Nat /\ n4 \in Nat
  <2>1. c1 \in Nat /\ c2 \in Nat /\ c3 \in Nat /\ c4 \in Nat
    BY Zenon DEF IsColumn
  <2>2. r1 \in Byte /\ r2 \in Byte /\ r3 \in Byte /\ r4 \in Byte
    BY Zenon DEF IsColumn
  <2>3. \A k \in Byte : k \in Nat
    BY DEF Byte
  <2> QED BY <1>1, <2>1, <2>2, <2>3, Zenon
<1>4. 256 * (256 * (256 * n1 + n2) + n3) + n4 + v = Wide(c4, r1, r2, r3, r4)
  BY <1>2, <1>3 DEF Wide
<1> QED BY <1>1, <1>4 DEF Number

(* The octets are int arithmetic: an addition adds to the number that they *)
(* write, modulo 2^32 (iAddr.cpp:15-16, 22-23).                            *)
THEOREM PlusAdds ==
  ASSUME NEW n \in Octets, NEW v \in Nat
  PROVE  Number(Plus(n, v)) = (Number(n) + v) % TwoTo32
<1>1. PICK c : c = Carries(n, v)
  OBVIOUS
<1>2. /\ c[0] = v /\ c[1] = (n[4] + c[0]) \div 256 /\ c[2] = (n[3] + c[1]) \div 256
      /\ c[3] = (n[2] + c[2]) \div 256
  <2>1. /\ Carries(n, v)[0] = v
        /\ Carries(n, v)[1] = (n[4] + Carries(n, v)[0]) \div 256
        /\ Carries(n, v)[2] = (n[3] + Carries(n, v)[1]) \div 256
        /\ Carries(n, v)[3] = (n[2] + Carries(n, v)[2]) \div 256
    BY CarriesUnrolled
  <2> QED BY <1>1, <2>1, Zenon
<1>3. PICK c4, p : c4 = (n[1] + c[3]) \div 256 /\ p = Plus(n, v)
  OBVIOUS
<1>4. /\ p[1] = (n[1] + c[3]) % 256 /\ p[2] = (n[2] + c[2]) % 256
      /\ p[3] = (n[3] + c[1]) % 256 /\ p[4] = (n[4] + c[0]) % 256
  <2>1. p = [k \in 1 .. 4 |-> (n[k] + c[4 - k]) % 256]
    BY <1>1, <1>3, Zenon DEF Plus
  <2> QED BY <2>1
<1>5. n[1] \in Byte /\ n[2] \in Byte /\ n[3] \in Byte /\ n[4] \in Byte
  BY DEF Octets, Byte
<1>6. /\ v \in Nat /\ c[1] \in Nat /\ c[2] \in Nat /\ c[3] \in Nat
  BY <1>1, CarriesAre
<1>7. IsColumn(n[4], v, c[1], p[4])
  BY <1>2, <1>4, <1>5, Column
<1>8. IsColumn(n[3], c[1], c[2], p[3])
  BY <1>2, <1>4, <1>5, <1>6, Column
<1>9. IsColumn(n[2], c[2], c[3], p[2])
  BY <1>2, <1>4, <1>5, <1>6, Column
<1>10. IsColumn(n[1], c[3], c4, p[1])
  BY <1>3, <1>4, <1>5, <1>6, Column
<1>11. Number(n) + v = Wide(c4, p[1], p[2], p[3], p[4])
  BY <1>7, <1>8, <1>9, <1>10, ColumnsAre
<1>12. Wide(c4, p[1], p[2], p[3], p[4]) % TwoTo32 = Wide(0, p[1], p[2], p[3], p[4])
  <2>1. p[1] \in Byte /\ p[2] \in Byte /\ p[3] \in Byte /\ p[4] \in Byte /\ c4 \in Nat
    BY <1>7, <1>8, <1>9, <1>10, Zenon DEF IsColumn
  <2> QED BY <2>1, Remainder
<1>13. Wide(0, p[1], p[2], p[3], p[4]) = Number(p)
  <2>1. p[1] \in Nat
    BY <1>7, <1>8, <1>9, <1>10 DEF IsColumn, Byte
  <2>2. 256 * 0 + p[1] = p[1]
    BY <2>1
  <2> QED BY <2>2 DEF Wide, Number
<1> QED BY <1>3, <1>11, <1>12, <1>13, Zenon

(* And a shift by eight bits multiplies it by 256, modulo 2^32             *)
(* (iAddr.cpp:15, 22).                                                     *)
THEOREM ShiftMultiplies ==
  ASSUME NEW n \in Octets
  PROVE  Number(ShiftLeft8(n)) = (256 * Number(n)) % TwoTo32
<1>1. PICK n1 \in Byte, n2 \in Byte, n3 \in Byte, n4 \in Byte :
           n1 = n[1] /\ n2 = n[2] /\ n3 = n[3] /\ n4 = n[4]
  <2>1. n[1] \in Byte /\ n[2] \in Byte /\ n[3] \in Byte /\ n[4] \in Byte
    BY DEF Octets, Byte
  <2> QED BY <2>1
<1>2. /\ n1 \in Nat /\ n2 \in Byte /\ n3 \in Byte /\ n4 \in Byte /\ 0 \in Byte
      /\ n2 \in Nat /\ n3 \in Nat /\ n4 \in Nat
  BY <1>1, SMTT(30) DEF Byte
<1>3. Wide(n1, n2, n3, n4, 0) % TwoTo32 = Wide(0, n2, n3, n4, 0)
  BY <1>2, Remainder
<1>4. 256 * Number(n) = Wide(n1, n2, n3, n4, 0)
  <2>1. Number(n) = 256 * (256 * (256 * n1 + n2) + n3) + n4
    BY <1>1 DEF Number
  <2> QED BY <1>2, <2>1 DEF Wide
<1>5. Number(ShiftLeft8(n)) = Wide(0, n2, n3, n4, 0)
  <2>1. Number(ShiftLeft8(n)) = 256 * (256 * (256 * n2 + n3) + n4) + 0
    BY <1>1 DEF Number, ShiftLeft8
  <2> QED BY <1>2, <2>1 DEF Wide
<1> QED BY <1>3, <1>4, <1>5

-----------------------------------------------------------------------------
(* BitMap: the words and the bits of two different numbers are not both    *)
(* equal, so each bit stands for one number.                               *)
Typed == a \in [Words -> [0 .. 31 -> BOOLEAN]]

(* A number inside the vector has a word and a bit, and no other number    *)
(* has the same.                                                           *)
LEMMA Positions ==
  ASSUME num \in Nat
  PROVE  /\ \A m \in Index : shift(m) \in Words /\ mask(m) \in 0 .. 31
         /\ \A m, n \in Index : shift(m) = shift(n) /\ mask(m) = mask(n) => m = n
<1>1. num \in Nat /\ num \div 32 \in Nat
  OBVIOUS
<1>2. \A m \in Nat : /\ m = 32 * (m \div 32) + (m % 32)
                     /\ m % 32 \in 0 .. 31 /\ m \div 32 \in Nat
  OBVIOUS
<1>3. ASSUME NEW m \in Index
      PROVE  m \in Nat /\ shift(m) \in Words /\ mask(m) \in 0 .. 31
  BY <1>1, <1>2 DEF Index, Words, shift, mask
<1> QED BY <1>2, <1>3 DEF shift, mask

(* No step of the vector changes its shape.                                *)
LEMMA TypedHolds ==
  ASSUME num \in Nat
  PROVE  BitMapSpec => []Typed
<1>1. BitMapInit => Typed
  BY DEF BitMapInit, Typed
<1>2. Typed /\ [BitMapNext]_a => Typed'
  <2> SUFFICES ASSUME num \in Nat, Typed, [BitMapNext]_a PROVE Typed'
    OBVIOUS
  <2>1. CASE UNCHANGED a
    BY <2>1 DEF Typed
  <2>2. ASSUME NEW m \in Index, NEW v \in BOOLEAN,
               a' = [a EXCEPT ![shift(m)][mask(m)] = v]
        PROVE  Typed'
    <3>1. shift(m) \in Words /\ mask(m) \in 0 .. 31
      BY Positions
    <3>2. [a[shift(m)] EXCEPT ![mask(m)] = v] \in [0 .. 31 -> BOOLEAN]
      BY <3>1 DEF Typed
    <3> QED BY <2>2, <3>1, <3>2 DEF Typed
  <2> QED BY <2>1, <2>2 DEF BitMapNext, set, clear
<1> QED BY <1>1, <1>2, PTL DEF BitMapSpec

(* What set and clear do to every test.                                    *)
LEMMA TestAfter ==
  ASSUME num \in Nat, Typed, NEW m \in Index, NEW n \in Index
  PROVE  /\ set(m) => (test(n)' <=> (n = m \/ test(n)))
         /\ clear(m) => (test(n)' <=> (n # m /\ test(n)))
<1>1. /\ shift(m) \in Words /\ mask(m) \in 0 .. 31
      /\ shift(n) \in Words /\ mask(n) \in 0 .. 31
      /\ n # m => shift(n) # shift(m) \/ mask(n) # mask(m)
  BY Positions
<1>2. CASE n = m
  <2>1. set(m) => a'[shift(m)][mask(m)] = TRUE
    BY <1>1 DEF Typed, set
  <2>2. clear(m) => a'[shift(m)][mask(m)] = FALSE
    BY <1>1 DEF Typed, clear
  <2> QED BY <1>2, <2>1, <2>2 DEF test
<1>3. CASE n # m
  <2>1. set(m) \/ clear(m) => a'[shift(n)][mask(n)] = a[shift(n)][mask(n)]
    BY <1>1, <1>3 DEF Typed, set, clear
  <2> QED BY <1>3, <2>1 DEF test
<1> QED BY <1>2, <1>3

(* A bitmap of any size implements a set of the numbers that fit.          *)
THEOREM BitMapIsASet ==
  ASSUME num \in Nat
  PROVE  BitMapSpec => IsASet
<1>1. BitMapInit => Members!Init
  <2>1. BitMapInit => \A m \in Index : ~test(m)
    BY Positions DEF BitMapInit, test
  <2> QED BY <2>1 DEF Members!Init
<1>2. Typed /\ [BitMapNext]_a => [Members!Next]_{n \in Index : test(n)}
  <2> SUFFICES ASSUME num \in Nat, Typed, [BitMapNext]_a
               PROVE  [Members!Next]_{n \in Index : test(n)}
    OBVIOUS
  <2>1. CASE UNCHANGED a
    BY <2>1 DEF test
  <2>2. ASSUME NEW m \in Index, set(m) PROVE Members!Add(m)
    <3>1. \A n \in Index : test(n)' <=> (n = m \/ test(n))
      BY <2>2, TestAfter
    <3> QED BY <3>1 DEF Members!Add
  <2>3. ASSUME NEW m \in Index, clear(m) PROVE Members!Remove(m)
    <3>1. \A n \in Index : test(n)' <=> (n # m /\ test(n))
      BY <2>3, TestAfter
    <3> QED BY <3>1 DEF Members!Remove
  <2> QED BY <2>1, <2>2, <2>3 DEF BitMapNext, Members!Next
<1> QED BY <1>1, <1>2, TypedHolds, PTL DEF BitMapSpec, IsASet, Members!Spec

(* The numbers the constructor was asked for all fit.                      *)
THEOREM NumFitsAlways ==
  ASSUME num \in Nat
  PROVE  NumFits
<1>1. num \in Nat /\ num < 32 * (1 + num \div 32)
  OBVIOUS
<1> QED BY <1>1 DEF NumFits, Index
=============================================================================
