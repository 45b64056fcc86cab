--------------------------- MODULE FreeListProofs ---------------------------
(***************************************************************************)
(* Proofs about FreeListUse, for every size of the list and of its         *)
(* extensions, every descriptor limit and every number of extensions.      *)
(*                                                                         *)
(* The argument: the descriptors opened so far are divided between the     *)
(* list and the holders, and no two places of the list have the same; so   *)
(* counting places is counting descriptors.  The names an extension takes  *)
(* are all above count_, which is above every earlier name, and grow from  *)
(* round to round.                                                         *)
(***************************************************************************)
EXTENDS FreeListUse, FiniteSetTheorems, FunctionTheorems, SequenceTheorems, TLAPS

\* the ids in a list and those in a set h are the descriptors below top, and
\* each is in one place
Divides(list, h, top) ==
  /\ \A i, j \in DOMAIN list : list[i] # NoFd /\ list[i] = list[j] => i = j
  /\ \A i \in DOMAIN list : list[i] \notin h
  /\ \A x \in Nat : x \in FirstFd .. top - 1 <=>
                      x \in h \/ \E i \in DOMAIN list : list[i] = x

Divided == Divides(free_list_, held, nextFd)

Named == segs \subseteq 0 .. count_ /\ OneSegmentPerFd

IInv == TypeOK /\ Divided /\ Named

-----------------------------------------------------------------------------
(* The names of an extension grow: the i-th is above count_ and below the  *)
(* next one.                                                               *)
LEMMA NamesGrow ==
  ASSUME count_ \in Nat
  PROVE  /\ \A i \in Nat \ {0} : ExtendedName(i) \in Nat /\ ExtendedName(i) > count_
         /\ \A i, j \in Nat : i < j => ExtendedName(i) < ExtendedName(j)
<1> DEFINE tri(i) == (i * (i + 1)) \div 2
<1>1. \A i \in Nat : i * (i + 1) \in Nat
  OBVIOUS
<1>2. \A i, j \in Nat : i < j => i * (i + 1) + 2 <= j * (j + 1)
  <2> SUFFICES ASSUME NEW i \in Nat, NEW j \in Nat, i < j
               PROVE  i * (i + 1) + 2 <= j * (j + 1)
    OBVIOUS
  <2>1. PICK d \in Nat : j = i + 1 + d
    <3>1. j - i - 1 \in Nat /\ j = i + 1 + (j - i - 1)
      OBVIOUS
    <3> QED BY <3>1
  <2>2. j * (j + 1) = i * (i + 1) + 2 * i + 2 + 2 * i * d + 3 * d + d * d
    BY <2>1
  <2>3. 2 * i * d \in Nat /\ d * d \in Nat
    OBVIOUS
  <2> QED BY <2>2, <2>3
<1>3. \A x, y \in Nat : x + 2 <= y => x \div 2 < y \div 2
  OBVIOUS
<1>4. \A i, j \in Nat : i < j => tri(i) < tri(j)
  BY <1>1, <1>2, <1>3
<1>5. \A i \in Nat : tri(i) \in Nat
  BY <1>1
<1>6. tri(0) = 0
  OBVIOUS
<1>7. \A i \in Nat \ {0} : tri(i) > 0
  BY <1>4, <1>6
<1> HIDE DEF tri
<1>8. \A i : ExtendedName(i) = count_ + tri(i)
  BY DEF ExtendedName, tri
<1> QED BY <1>4, <1>5, <1>7, <1>8

(* What an extension opens are the next descriptors, as far as there are   *)
(* any, and it makes as many names, none of which existed.                 *)
Opened == {i \in 1 .. EXTENDSIZE : OpenedFd(i) # NoFd}

LEMMA ExtensionOpens ==
  ASSUME TypeOK
  PROVE  LET top == IF nextFd + EXTENDSIZE <= FdLimit THEN nextFd + EXTENDSIZE
                                                      ELSE FdLimit
         IN  /\ top \in nextFd .. FdLimit
             /\ Opened = 1 .. top - nextFd
             /\ \A i \in Opened : OpenedFd(i) = nextFd + i - 1
  BY FreeListAssumption DEF TypeOK, Opened, OpenedFd, NoFd

LEMMA ExtensionNames ==
  ASSUME TypeOK, Named, NEW k \in Nat
  PROVE  LET new == {ExtendedName(i) : i \in 1 .. k}
         IN  /\ IsFiniteSet(segs \cup new)
             /\ Cardinality(segs \cup new) = Cardinality(segs) + k
             /\ k <= EXTENDSIZE => segs \cup new \subseteq 0 .. ExtendedName(EXTENDSIZE)
<1> DEFINE new == {ExtendedName(i) : i \in 1 .. k}
           name == [i \in 1 .. k |-> ExtendedName(i)]
<1>1. count_ \in Nat
  BY DEF TypeOK
<1>2. IsFiniteSet(segs)
  <2>1. IsFiniteSet(0 .. count_)
    BY <1>1, FS_Interval
  <2> QED BY <2>1, FS_Subset DEF Named
<1>3. ExistsBijection(1 .. k, new)
  <2>1. name \in [1 .. k -> new]
    OBVIOUS
  <2>2. \A i, j \in 1 .. k : name[i] = name[j] => i = j
    <3>1. SUFFICES ASSUME NEW i \in 1 .. k, NEW j \in 1 .. k,
                          ExtendedName(i) = ExtendedName(j)
                   PROVE  i = j
      OBVIOUS
    <3>2. i \in Nat \ {0} /\ j \in Nat \ {0}
      OBVIOUS
    <3>3. ExtendedName(i) \in Nat /\ ~(i < j) /\ ~(j < i)
      BY <1>1, <3>1, <3>2, NamesGrow
    <3> QED BY <3>2, <3>3
  <2>3. \A x \in new : \E i \in 1 .. k : name[i] = x
    OBVIOUS
  <2>4. name \in Bijection(1 .. k, new)
    BY <2>1, <2>2, <2>3, Fun_IsBij
  <2> QED BY <2>4, Fun_ExistsBij
<1>4. IsFiniteSet(new) /\ Cardinality(new) = k
  <2>1. IsFiniteSet(1 .. k) /\ Cardinality(1 .. k) = k
    BY FS_Interval
  <2> QED BY <1>3, <2>1, FS_Bijection
<1>5. \A x \in new : x \in Nat /\ x > count_
  <2>1. \A i \in 1 .. k : i \in Nat \ {0}
    OBVIOUS
  <2> QED BY <1>1, <2>1, NamesGrow
<1>6. segs \cap new = {}
  BY <1>1, <1>5 DEF Named
<1>7. IsFiniteSet(segs \cup new) /\ Cardinality(segs \cup new) = Cardinality(segs) + k
  <2>1. /\ IsFiniteSet(segs \cup new)
        /\ Cardinality(segs \cup new)
             = Cardinality(segs) + Cardinality(new) - Cardinality(segs \cap new)
    BY <1>2, <1>4, FS_Union
  <2>2. Cardinality(segs \cap new) = 0 /\ Cardinality(segs) \in Nat
    BY <1>2, <1>6, FS_EmptySet, FS_CardinalityType
  <2> QED BY <1>4, <2>1, <2>2
<1>8. ASSUME k <= EXTENDSIZE
      PROVE  segs \cup new \subseteq 0 .. ExtendedName(EXTENDSIZE)
  <2>1. EXTENDSIZE \in Nat \ {0}
    BY FreeListAssumption
  <2>2. ExtendedName(EXTENDSIZE) \in Nat /\ ExtendedName(EXTENDSIZE) > count_
    BY <1>1, <2>1, NamesGrow
  <2>3. \A i \in 1 .. k : ExtendedName(i) \in Nat
                          /\ ExtendedName(i) <= ExtendedName(EXTENDSIZE)
    <3>1. SUFFICES ASSUME NEW i \in 1 .. k
                   PROVE  ExtendedName(i) \in Nat
                          /\ ExtendedName(i) <= ExtendedName(EXTENDSIZE)
      OBVIOUS
    <3>2. i \in Nat \ {0} /\ (i = EXTENDSIZE \/ i < EXTENDSIZE)
      BY <1>8, <2>1
    <3>3. ExtendedName(i) \in Nat
      BY <1>1, <3>2, NamesGrow
    <3>4. CASE i < EXTENDSIZE
      <4>1. ExtendedName(i) < ExtendedName(EXTENDSIZE)
        BY <1>1, <2>1, <3>2, <3>4, NamesGrow
      <4> QED BY <2>2, <3>3, <4>1
    <3>5. CASE i = EXTENDSIZE
      BY <2>2, <3>3, <3>5
    <3> QED BY <3>2, <3>4, <3>5
  <2>4. \A x \in new : x \in 0 .. ExtendedName(EXTENDSIZE)
    BY <2>2, <2>3
  <2>5. \A x \in segs : x \in 0 .. ExtendedName(EXTENDSIZE)
    BY <1>1, <2>2 DEF Named
  <2> QED BY <2>4, <2>5
<1> QED BY <1>7, <1>8

(* Whoever takes the front of a list holds it from then on.                *)
LEMMA FrontChangesHands ==
  ASSUME NEW list \in Seq(Nat \cup {NoFd}), list # <<>>,
         NEW h, NEW top \in Nat, Divides(list, h, top), NoFd \notin h
  PROVE  Divides(Tail(list),
                 IF Head(list) = NoFd THEN h ELSE h \cup {Head(list)}, top)
<1> DEFINE n == Len(list)
<1>1. /\ n \in Nat \ {0} /\ DOMAIN list = 1 .. n
      /\ DOMAIN Tail(list) = 1 .. n - 1
      /\ Head(list) = list[1]
      /\ \A i \in 1 .. n - 1 : Tail(list)[i] = list[i + 1]
  OBVIOUS
<1>2. \A i \in 1 .. n : i = 1 \/ (i - 1 \in 1 .. n - 1 /\ i = (i - 1) + 1)
  BY <1>1
<1>3. \A i \in 1 .. n - 1 : i + 1 \in 1 .. n /\ i + 1 # 1
  BY <1>1
<1> DEFINE h2 == IF Head(list) = NoFd THEN h ELSE h \cup {Head(list)}
<1> HIDE DEF n
<1>4. \A i, j \in 1 .. n - 1 :
        Tail(list)[i] # NoFd /\ Tail(list)[i] = Tail(list)[j] => i = j
  BY <1>1, <1>3 DEF Divides
<1>5. \A i \in 1 .. n - 1 : Tail(list)[i] \notin h2
  BY <1>1, <1>3 DEF Divides
<1>6. NoFd \notin Nat
  BY DEF NoFd
<1>7. \A x \in Nat : x \in FirstFd .. top - 1 <=>
                       x \in h2 \/ \E i \in 1 .. n - 1 : Tail(list)[i] = x
  <2> SUFFICES ASSUME NEW x \in Nat
               PROVE  (x \in h \/ \E i \in 1 .. n : list[i] = x) <=>
                      (x \in h2 \/ \E i \in 1 .. n - 1 : Tail(list)[i] = x)
    BY <1>1 DEF Divides
  <2>1. ASSUME NEW i \in 1 .. n, list[i] = x
        PROVE  x \in h2 \/ \E j \in 1 .. n - 1 : Tail(list)[j] = x
    BY <1>1, <1>2, <1>6, <2>1
  <2>2. ASSUME NEW i \in 1 .. n - 1, Tail(list)[i] = x
        PROVE  \E j \in 1 .. n : list[j] = x
    BY <1>1, <1>3, <2>2
  <2>3. x \in h2 => x \in h \/ x = list[1]
    BY <1>1
  <2>4. x \in h => x \in h2
    OBVIOUS
  <2> QED BY <1>1, <2>1, <2>2, <2>3, <2>4
<1> QED BY <1>1, <1>4, <1>5, <1>7 DEF Divides

-----------------------------------------------------------------------------
LEMMA InitIInv == Init => IInv
<1> SUFFICES ASSUME Init PROVE IInv
  OBVIOUS
<1>1. TypeOK
  BY FreeListAssumption, MaxRoundsAssumption DEF Init, FreeListInit, TypeOK
<1>2. Divided
  BY FreeListAssumption DEF Init, FreeListInit, Divided, Divides, NoFd
<1>3. Cardinality(segs) = INITIALSIZE
  <2>1. Cardinality(0 .. INITIALSIZE - 1) = INITIALSIZE
    BY FreeListAssumption, FS_Interval
  <2> QED BY <2>1 DEF Init, FreeListInit
<1>4. Named
  BY <1>3, FreeListAssumption DEF Init, FreeListInit, Named, OneSegmentPerFd
<1> QED BY <1>1, <1>2, <1>4 DEF IInv

(* The ids that an extension puts into the empty list are new.             *)
LEMMA ExtensionDivides ==
  ASSUME IInv, free_list_ = <<>>, NEW top \in Nat,
         top = IF nextFd + EXTENDSIZE <= FdLimit THEN nextFd + EXTENDSIZE
                                                 ELSE FdLimit
  PROVE  Divides([i \in 1 .. EXTENDSIZE |-> OpenedFd(i)], held, top)
<1> DEFINE list == [i \in 1 .. EXTENDSIZE |-> OpenedFd(i)]
<1>1. /\ Opened = 1 .. top - nextFd /\ top \in nextFd .. FdLimit
      /\ nextFd \in Nat /\ FirstFd \in Nat /\ FirstFd <= nextFd
      /\ \A i \in Opened : list[i] = nextFd + i - 1
      /\ \A i \in DOMAIN list : list[i] # NoFd => i \in Opened
      /\ \A i \in DOMAIN list \ Opened : list[i] = -1
      /\ Opened \subseteq DOMAIN list
  BY ExtensionOpens, FreeListAssumption DEF IInv, TypeOK, Opened, NoFd
<1>2. \A x \in Nat : x \in FirstFd .. nextFd - 1 <=> x \in held
  BY DEF IInv, Divided, Divides
<1>3. held \subseteq Nat
  BY DEF IInv, TypeOK
<1> HIDE DEF list
<1>4. \A i, j \in DOMAIN list : list[i] # NoFd /\ list[i] = list[j] => i = j
  <2> SUFFICES ASSUME NEW i \in DOMAIN list, NEW j \in DOMAIN list,
                      list[i] # NoFd, list[i] = list[j]
               PROVE  i = j
    OBVIOUS
  <2>1. i \in Opened /\ j \in Opened
    BY <1>1
  <2>2. nextFd + i - 1 = nextFd + j - 1 /\ i \in Int /\ j \in Int
    BY <1>1, <2>1
  <2> QED BY <1>1, <2>2
<1>5. \A i \in DOMAIN list : list[i] \notin held
  <2> SUFFICES ASSUME NEW i \in DOMAIN list, list[i] \in held PROVE FALSE
    OBVIOUS
  <2>1. list[i] \in Nat /\ list[i] < nextFd
    BY <1>1, <1>2, <1>3
  <2>2. i \in Opened
    BY <1>1, <2>1 DEF NoFd
  <2>3. list[i] = nextFd + i - 1 /\ i \in Nat \ {0}
    BY <1>1, <2>2
  <2> QED BY <1>1, <2>1, <2>3
<1>6. ASSUME NEW x \in Nat
      PROVE  x \in FirstFd .. top - 1 <=>
               x \in held \/ \E i \in DOMAIN list : list[i] = x
  <2>1. CASE x < nextFd
    <3>1. ASSUME NEW i \in DOMAIN list, list[i] = x
          PROVE  FALSE
      <4>1. i \in Opened
        BY <1>1, <3>1 DEF NoFd
      <4>2. x = nextFd + i - 1 /\ i \in Nat \ {0}
        BY <1>1, <3>1, <4>1
      <4> QED BY <1>1, <2>1, <4>2
    <3> QED BY <1>1, <1>2, <2>1, <3>1
  <2>2. CASE x >= nextFd
    <3>1. x \notin held
      BY <1>1, <1>2, <2>2
    <3>2. ASSUME x < top
          PROVE  \E i \in DOMAIN list : list[i] = x
      <4>1. x - nextFd + 1 \in Opened
        BY <1>1, <2>2, <3>2
      <4>2. list[x - nextFd + 1] = nextFd + (x - nextFd + 1) - 1
        BY <1>1, <4>1
      <4>3. list[x - nextFd + 1] = x
        BY <1>1, <4>2
      <4> QED BY <1>1, <4>1, <4>3
    <3>3. ASSUME NEW i \in DOMAIN list, list[i] = x
          PROVE  x < top
      <4>1. i \in Opened
        BY <1>1, <3>3 DEF NoFd
      <4>2. x = nextFd + i - 1
        BY <1>1, <3>3, <4>1
      <4>3. i \in Int /\ i <= top - nextFd /\ top \in Nat
        BY <1>1, <4>1
      <4> QED BY <1>1, <4>2, <4>3
    <3> QED BY <1>1, <2>2, <3>1, <3>2, <3>3
  <2> QED BY <1>1, <2>1, <2>2
<1>7. Divides(list, held, top)
  BY <1>4, <1>5, <1>6 DEF Divides
<1> QED BY <1>7 DEF list

LEMMA TakeKeeps ==
  ASSUME IInv, Take
  PROVE  IInv'
<1>1. CASE free_list_ # <<>>
  <2>1. /\ free_list_' = Tail(free_list_) /\ FreeFront = Head(free_list_)
        /\ UNCHANGED <<count_, nextFd, segs, rounds>>
    BY <1>1 DEF Take, GetFreeFd, FreeFront
  <2>2. held' = IF Head(free_list_) = NoFd THEN held
                                           ELSE held \cup {Head(free_list_)}
    BY <2>1 DEF Take
  <2>3. /\ free_list_ \in Seq(Nat \cup {NoFd}) /\ nextFd \in Nat
        /\ NoFd \notin held
    BY FreeListAssumption DEF IInv, TypeOK, NoFd
  <2>4. TypeOK'
    <3>1. /\ Tail(free_list_) \in Seq(Nat \cup {NoFd})
          /\ Head(free_list_) \in Nat \cup {NoFd}
      BY <1>1, <2>3
    <3> QED BY <2>1, <2>2, <3>1 DEF IInv, TypeOK
  <2>5. Divided'
    BY <1>1, <2>1, <2>2, <2>3, FrontChangesHands DEF IInv, Divided
  <2>6. Named'
    BY <2>1 DEF IInv, Named, OneSegmentPerFd
  <2> QED BY <2>4, <2>5, <2>6 DEF IInv
<1>2. CASE free_list_ = <<>>
  <2> DEFINE list == [i \in 1 .. EXTENDSIZE |-> OpenedFd(i)]
             top  == IF nextFd + EXTENDSIZE <= FdLimit THEN nextFd + EXTENDSIZE
                                                       ELSE FdLimit
             new  == {ExtendedName(i) : i \in 1 .. top - nextFd}
  <2>1. /\ free_list_' = Tail(list) /\ nextFd' = top
        /\ count_' = ExtendedName(EXTENDSIZE)
        /\ segs' = segs \cup {ExtendedName(i) : i \in Opened}
        /\ rounds' = rounds + 1 /\ rounds < MaxRounds
        /\ FreeFront = OpenedFd(1)
    BY <1>2 DEF Take, GetFreeFd, FreeFront, Opened
  <2>2. /\ top \in nextFd .. FdLimit /\ top \in Nat
        /\ Opened = 1 .. top - nextFd /\ top - nextFd \in Nat
        /\ top - nextFd <= EXTENDSIZE
        /\ nextFd \in Nat /\ FirstFd <= nextFd
    BY ExtensionOpens, FreeListAssumption DEF IInv, TypeOK
  <2>3. /\ list \in Seq(Nat \cup {NoFd}) /\ list # <<>>
        /\ Head(list) = OpenedFd(1) /\ OpenedFd(1) \in Nat \cup {NoFd}
    BY FreeListAssumption DEF IInv, TypeOK, OpenedFd, NoFd
  <2>4. held' = IF Head(list) = NoFd THEN held ELSE held \cup {Head(list)}
    BY <2>1, <2>3 DEF Take
  <2>5. count_ \in Nat /\ ExtendedName(EXTENDSIZE) \in Nat
    BY NamesGrow, FreeListAssumption DEF IInv, TypeOK
  <2>6. /\ Cardinality(segs \cup new) = Cardinality(segs) + (top - nextFd)
        /\ segs \cup new \subseteq 0 .. ExtendedName(EXTENDSIZE)
    BY <2>2, ExtensionNames DEF IInv
  <2>7. segs' = segs \cup new
    BY <2>1, <2>2
  <2> HIDE DEF new, top
  <2>8. TypeOK'
    <3>1. free_list_' \in Seq(Nat \cup {NoFd})
      BY <2>1, <2>3
    <3>2. held' \subseteq Nat
      BY <2>3, <2>4 DEF IInv, TypeOK
    <3>3. segs' \subseteq Nat
      BY <2>5, <2>6, <2>7
    <3>4. nextFd' \in FirstFd .. FdLimit /\ rounds' \in 0 .. MaxRounds
      BY <2>1, <2>2, FreeListAssumption, MaxRoundsAssumption DEF IInv, TypeOK
    <3> QED BY <2>1, <2>5, <3>1, <3>2, <3>3, <3>4 DEF TypeOK
  <2>9. Divided'
    <3>1. Divides(list, held, top)
      BY <1>2, <2>2, ExtensionDivides DEF top
    <3>2. NoFd \notin held
      BY DEF IInv, TypeOK, NoFd
    <3> HIDE DEF list
    <3>3. Divides(Tail(list), held', top)
      BY <2>2, <2>3, <2>4, <3>1, <3>2, FrontChangesHands
    <3> QED BY <2>1, <3>3 DEF Divided
  <2>10. Named'
    <3>1. Cardinality(segs) = nextFd - FirstFd
      BY DEF IInv, Named, OneSegmentPerFd
    <3>2. Cardinality(segs') = nextFd - FirstFd + (top - nextFd)
      BY <2>6, <2>7, <3>1
    <3>3. Cardinality(segs') = nextFd' - FirstFd
      BY <2>1, <2>2, <3>2, FreeListAssumption
    <3> QED BY <2>1, <2>6, <2>7, <3>3 DEF Named, OneSegmentPerFd
  <2> QED BY <2>8, <2>9, <2>10 DEF IInv
<1> QED BY <1>1, <1>2

LEMMA GiveBackKeeps ==
  ASSUME IInv, NEW id \in held, GiveBack(id)
  PROVE  IInv'
<1> DEFINE n == Len(free_list_)
<1>1. /\ free_list_' = Append(free_list_, id) /\ held' = held \ {id}
      /\ UNCHANGED <<count_, nextFd, segs, rounds>>
  BY DEF GiveBack, FreeFd
<1>2. /\ free_list_ \in Seq(Nat \cup {NoFd}) /\ id \in Nat /\ n \in Nat
      /\ DOMAIN free_list_ = 1 .. n /\ NoFd \notin Nat
  BY DEF IInv, TypeOK, NoFd
<1>3. /\ DOMAIN free_list_' = 1 .. n + 1 /\ free_list_'[n + 1] = id
      /\ \A i \in 1 .. n : free_list_'[i] = free_list_[i]
      /\ \A i \in 1 .. n + 1 : i \in 1 .. n \/ i = n + 1
      /\ 1 .. n \subseteq 1 .. n + 1 /\ n + 1 \in 1 .. n + 1
  BY <1>1, <1>2
<1> HIDE DEF n
<1>4. TypeOK'
  BY <1>1, <1>2 DEF IInv, TypeOK
<1>5. Divided'
  <2>1. /\ \A i, j \in 1 .. n :
               free_list_[i] # NoFd /\ free_list_[i] = free_list_[j] => i = j
        /\ \A i \in 1 .. n : free_list_[i] \notin held
        /\ \A x \in Nat : x \in FirstFd .. nextFd - 1 <=>
                            x \in held \/ \E i \in 1 .. n : free_list_[i] = x
    BY <1>2 DEF IInv, Divided, Divides
  <2>2. \A i, j \in 1 .. n + 1 :
          free_list_'[i] # NoFd /\ free_list_'[i] = free_list_'[j] => i = j
    BY <1>3, <2>1
  <2>3. \A i \in 1 .. n + 1 : free_list_'[i] \notin held'
    BY <1>1, <1>3, <2>1
  <2>4. \A x \in Nat : x \in FirstFd .. nextFd - 1 <=>
                        x \in held' \/ \E i \in 1 .. n + 1 : free_list_'[i] = x
    BY <1>1, <1>3, <2>1
  <2> QED BY <1>1, <1>3, <2>2, <2>3, <2>4 DEF Divided, Divides
<1>6. Named'
  BY <1>1 DEF IInv, Named, OneSegmentPerFd
<1> QED BY <1>4, <1>5, <1>6 DEF IInv

(* Ids are divided between the list and the holders, and names are new     *)
(* (freeList.cpp:12-60).                                                   *)
THEOREM ListInvariant == Spec => []IInv
<1>1. IInv /\ [Next]_vars => IInv'
  <2> SUFFICES ASSUME IInv, [Next]_vars PROVE IInv'
    OBVIOUS
  <2>1. CASE Take
    BY <2>1, TakeKeeps
  <2>2. ASSUME NEW id \in held, GiveBack(id) PROVE IInv'
    BY <2>2, GiveBackKeeps
  <2>3. CASE UNCHANGED vars
    BY <2>3 DEF IInv, TypeOK, Divided, Named, OneSegmentPerFd, vars, freeListVars
  <2> QED BY <2>1, <2>2, <2>3 DEF Next
<1> QED BY InitIInv, <1>1, PTL DEF Spec

-----------------------------------------------------------------------------
(* Counting places of the list is counting ids, for no id is in two.       *)
LEMMA DividedOnce == IInv => EachIdOnce
<1> SUFFICES ASSUME IInv PROVE EachIdOnce
  OBVIOUS
<1> DEFINE listed == {i \in DOMAIN free_list_ : free_list_[i] # NoFd}
           ids    == {free_list_[i] : i \in listed}
           at     == [i \in listed |-> free_list_[i]]
           all    == FirstFd .. nextFd - 1
<1>1. /\ FirstFd \in Nat /\ nextFd \in Nat /\ FirstFd <= nextFd
      /\ held \subseteq Nat /\ DOMAIN free_list_ = 1 .. Len(free_list_)
      /\ Len(free_list_) \in Nat /\ NoFd \notin Nat
      /\ \A i \in DOMAIN free_list_ : free_list_[i] \in Nat \cup {NoFd}
  BY FreeListAssumption DEF IInv, TypeOK, NoFd
<1>2. /\ \A i, j \in listed : free_list_[i] = free_list_[j] => i = j
      /\ held \cap ids = {}
      /\ \A x \in Nat : x \in all <=> x \in held \/ \E i \in listed : free_list_[i] = x
  BY <1>1 DEF IInv, Divided, Divides
<1>3. held \cup ids = all
  <2>1. ids \subseteq Nat /\ all \subseteq Nat
    BY <1>1
  <2>2. \A x : x \in ids <=> \E i \in listed : free_list_[i] = x
    OBVIOUS
  <2> HIDE DEF ids, listed, all
  <2> QED BY <1>1, <1>2, <2>1, <2>2
<1>4. IsFiniteSet(listed)
  <2>1. IsFiniteSet(1 .. Len(free_list_)) /\ listed \subseteq 1 .. Len(free_list_)
    BY <1>1, FS_Interval
  <2> QED BY <2>1, FS_Subset
<1>5. Cardinality(ids) = Cardinality(listed) /\ IsFiniteSet(ids)
  <2>1. at \in [listed -> ids] /\ \A x \in ids : \E i \in listed : at[i] = x
    OBVIOUS
  <2>2. \A i, j \in listed : at[i] = at[j] => i = j
    BY <1>2
  <2> HIDE DEF listed, ids, at
  <2>3. at \in Bijection(listed, ids)
    BY <2>1, <2>2, Fun_IsBij
  <2> QED BY <1>4, <2>3, Fun_ExistsBij, FS_Bijection
<1>6. IsFiniteSet(all) /\ Cardinality(all) = nextFd - FirstFd
  <2>1. FirstFd \in Int /\ nextFd - 1 \in Int
    BY <1>1
  <2>2. /\ IsFiniteSet(all)
        /\ Cardinality(all) = IF FirstFd > nextFd - 1 THEN 0
                                                      ELSE nextFd - 1 - FirstFd + 1
    BY <2>1, FS_Interval
  <2> QED BY <1>1, <2>2
<1>7. IsFiniteSet(held)
  BY <1>3, <1>6, FS_Subset
<1> HIDE DEF listed, ids, all
<1>8. Cardinality(held) + Cardinality(ids) = Cardinality(all)
  <2>1. Cardinality(held \cup ids)
          = Cardinality(held) + Cardinality(ids) - Cardinality(held \cap ids)
    BY <1>5, <1>7, FS_Union
  <2>2. Cardinality(held \cap ids) = 0
    BY <1>2, FS_EmptySet
  <2>3. Cardinality(held) \in Nat /\ Cardinality(ids) \in Nat
    BY <1>5, <1>7, FS_CardinalityType
  <2> QED BY <1>3, <2>1, <2>2, <2>3
<1> QED BY <1>3, <1>5, <1>6, <1>8 DEF EachIdOnce, listed, ids, all

(* The variables keep their types (freeList.cpp:12-60).                    *)
THEOREM FreeListTypes == Spec => []TypeOK
<1>1. IInv => TypeOK
  BY DEF IInv
<1> QED BY ListInvariant, <1>1, PTL

(* No id is lost or doubled, across extensions and after the descriptors   *)
(* have run out (freeList.cpp:31-52).                                      *)
THEOREM EachIdOnceHolds == Spec => []EachIdOnce
BY ListInvariant, DividedOnce, PTL

(* An extension makes as many new segments as it gets descriptors          *)
(* (freeList.cpp:35).                                                      *)
THEOREM OneSegmentPerFdHolds == Spec => []OneSegmentPerFd
<1>1. IInv => OneSegmentPerFd
  BY DEF IInv, Named
<1> QED BY ListInvariant, <1>1, PTL
=============================================================================
