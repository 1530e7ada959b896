-------------------------- MODULE RateLimiter_proofs --------------------------
(* Theorems about RateLimiter, for every limit, window and resolution of    *)
(* the clocks, and however often the wall clock is set back.                *)
EXTENDS RateLimiter, FiniteSetTheorems, WellFoundedInduction, TLAPS

-----------------------------------------------------------------------------
\* The inductive invariant

Entry == [elapsed : Nat, wall : Int]

TypeInv ==
    /\ elapsed \in Nat /\ wall \in Int /\ setBacks \in Nat
    /\ admitted \in [Keys -> Seq(Entry)]
    /\ kept \in [Keys -> SUBSET Nat]
    /\ told \in [Keys -> Int \cup {None}]
    /\ \A k \in Keys : /\ kept[k] \subseteq DOMAIN admitted[k]
                       /\ IsFiniteSet(kept[k])
                       /\ Cardinality(kept[k]) <= Max(k)

\* The clocks: every entry lies in the past, an entry looks at most as old as
\* it is, and the entries are in the order of their admission.
ClockInv ==
    /\ setBacks = 0 => wall = elapsed
    /\ \A k \in Keys : \A i \in DOMAIN admitted[k] :
        /\ admitted[k][i].elapsed <= elapsed
        /\ wall - admitted[k][i].wall <= elapsed - admitted[k][i].elapsed
        /\ setBacks = 0 => admitted[k][i].wall = admitted[k][i].elapsed
        /\ \A j \in DOMAIN admitted[k] :
              i <= j => admitted[k][i].elapsed <= admitted[k][j].elapsed

\* What a list has dropped is as old as the window.
DroppedInv ==
    \A k \in Keys : \A i \in DOMAIN admitted[k] \ kept[k] :
        elapsed - admitted[k][i].elapsed >= Window(k)

\* What a 429 has said, against the list that has not changed since.
ToldInv ==
    \A k \in Keys : told[k] # None =>
        /\ \E i \in kept[k] : admitted[k][i].wall + Window(k) < told[k] + Second
        /\ setBacks = 0 =>
              /\ Cardinality(kept[k]) >= Max(k)
              /\ \A i \in kept[k] : told[k] - Second <= admitted[k][i].wall + Window(k)

RInv == TypeInv /\ ClockInv /\ DroppedInv /\ ToldInv /\ WithinLimit

-----------------------------------------------------------------------------
\* Lemmas

\* What the assumption says of the constants, one fact at a time.
LEMMA ConstantsType ==
    /\ Second \in Nat /\ Second >= 1 /\ None \notin Int
    /\ \A k \in Keys : /\ Max(k) \in Nat /\ Max(k) >= 1
                       /\ Window(k) \in Nat /\ Window(k) >= 1
<1>1. Second \in Nat /\ Second >= 1 /\ None \notin Int
  BY RateLimiterAssumption
<1>2. ASSUME NEW k \in Keys
      PROVE  /\ Max(k) \in Nat /\ Max(k) >= 1
             /\ Window(k) \in Nat /\ Window(k) >= 1
  <2>1. k[2] \in Routes
    BY DEF Keys
  <2>2. MaxRequests[k[2]] \in Nat \ {0} /\ WindowSeconds[k[2]] \in Nat \ {0}
    BY <2>1, RateLimiterAssumption
  <2>3. \A a, b \in Nat \ {0} : a * b \in Nat /\ a * b >= 1
    OBVIOUS
  <2> QED BY <2>2, <2>3, RateLimiterAssumption DEF Max, Window
<1> QED BY <1>1, <1>2

\* Division with a remainder.
LEMMA DivBounds ==
    ASSUME NEW a \in Nat, NEW d \in Nat, d >= 1
    PROVE  a \div d \in Nat /\ (a \div d) * d <= a /\ a < (a \div d) * d + d
  BY SMTT(30)

\* A finite set of positions that is not empty has a first one: the
\* beginnings of the set are well-founded under strict inclusion.
LEMMA FirstExists ==
    ASSUME NEW S \in SUBSET Nat, IsFiniteSet(S), S # {}
    PROVE  \E i \in S : \A j \in S : i <= j
<1> DEFINE Upto(i) == {j \in S : j <= i}
           T == {Upto(i) : i \in S}
<1>1. T \subseteq SUBSET S /\ T # {}
  OBVIOUS
<1>2. IsWellFoundedOn(StrictSubsetOrdering(S), SUBSET S)
  BY FS_StrictSubsetOrderingWellFounded, FS_FiniteSubsetsOfFinite
<1>3. PICK x \in T : \A y \in T : ~ (<<y, x>> \in StrictSubsetOrdering(S))
  BY <1>1, <1>2, WFMin
<1>4. PICK i \in S : x = Upto(i)
  BY <1>3
<1>5. ASSUME NEW j \in S, j < i
      PROVE  FALSE
  <2>0. i \in Nat /\ j \in Nat /\ j < i
    BY <1>5
  <2>1. Upto(j) \subseteq Upto(i) /\ i \in Upto(i) /\ i \notin Upto(j)
    <3>1. ASSUME NEW h \in Upto(j)
          PROVE  h \in Upto(i)
      <4>1. h \in S /\ h \in Nat /\ h <= j
        OBVIOUS
      <4>2. h <= i
        BY <2>0, <4>1
      <4> QED BY <4>1, <4>2
    <3>2. i <= i /\ ~(i <= j)
      BY <2>0
    <3> QED BY <3>1, <3>2
  <2>2. Upto(j) \in T /\ Upto(j) \in SUBSET S /\ Upto(i) \in SUBSET S
    OBVIOUS
  <2>3. <<Upto(j), Upto(i)>> \in StrictSubsetOrdering(S)
    BY <2>1, <2>2 DEF StrictSubsetOrdering
  <2> QED BY <1>3, <1>4, <2>2, <2>3
<1> QED BY <1>5

\* The entries that are fresh are some of those kept.
LEMMA FreshType ==
    ASSUME TypeInv, NEW k \in Keys
    PROVE  /\ Fresh(k) \subseteq kept[k]
           /\ Fresh(k) \in SUBSET Nat
           /\ IsFiniteSet(Fresh(k))
           /\ Cardinality(Fresh(k)) \in Nat
           /\ Cardinality(kept[k]) \in Nat
           /\ Cardinality(Fresh(k)) <= Cardinality(kept[k])
           /\ Cardinality(Fresh(k)) = Cardinality(kept[k]) => Fresh(k) = kept[k]
<1>1. Fresh(k) \subseteq kept[k] /\ kept[k] \in SUBSET Nat /\ IsFiniteSet(kept[k])
  BY DEF Fresh, TypeInv
<1>2. /\ IsFiniteSet(Fresh(k))
      /\ Cardinality(Fresh(k)) <= Cardinality(kept[k])
      /\ Cardinality(Fresh(k)) = Cardinality(kept[k]) => Fresh(k) = kept[k]
  BY <1>1, FS_Subset
<1>3. Cardinality(Fresh(k)) \in Nat /\ Cardinality(kept[k]) \in Nat
  BY <1>1, <1>2, FS_CardinalityType
<1> QED BY <1>1, <1>2, <1>3

\* The advice of a refusal: less than a second after the first fresh entry
\* leaves the window, and at most a second before.
LEMMA RetryAfterBounds ==
    ASSUME TypeInv, NEW k \in Keys, Full(k)
    PROVE  /\ ComeBack(k) \in Int
           /\ First(k) \in Fresh(k)
           /\ \A i \in Fresh(k) : First(k) <= i
           /\ admitted[k][First(k)].wall + Window(k) < ComeBack(k) + Second
           /\ ComeBack(k) - Second <= admitted[k][First(k)].wall + Window(k)
<1>1. Fresh(k) # {}
  <2>1. Cardinality(Fresh(k)) >= 1
    BY ConstantsType, FreshType DEF Full
  <2> QED BY <2>1, FS_EmptySet
<1>2. First(k) \in Fresh(k) /\ \A i \in Fresh(k) : First(k) <= i
  BY <1>1, FreshType, FirstExists DEF First
<1> DEFINE at == admitted[k][First(k)].wall
           rest == Window(k) - (wall - at)
<1>3. at \in Int /\ wall - at < Window(k)
  <2>1. First(k) \in DOMAIN admitted[k] /\ admitted[k] \in Seq(Entry)
    BY <1>2, FreshType DEF TypeInv
  <2>2. admitted[k][First(k)] \in Entry
    BY <2>1
  <2> QED BY <1>2, <2>2 DEF Entry, Fresh
<1>4. rest \in Nat /\ rest >= 1 /\ at + Window(k) = wall + rest
  <2>1. wall \in Int /\ Window(k) \in Int
    BY ConstantsType DEF TypeInv
  <2> QED BY <1>3, <2>1
<1>5. /\ rest \div Second \in Nat
      /\ (rest \div Second) * Second <= rest
      /\ rest < (rest \div Second) * Second + Second
  BY <1>4, ConstantsType, DivBounds
<1>6. RetryAfter(k) = IF rest \div Second < 1 THEN 1 ELSE rest \div Second
  BY DEF RetryAfter
<1> HIDE DEF rest
<1>7. CASE rest \div Second < 1
  <2>1. RetryAfter(k) = 1 /\ rest \div Second = 0
    BY <1>5, <1>6, <1>7
  <2>2. 1 * Second = Second /\ 0 * Second = 0
    BY ConstantsType
  <2>3. rest < Second
    BY <1>4, <1>5, <2>1, <2>2, ConstantsType
  <2>4. ComeBack(k) = wall + Second
    BY <2>1, <2>2 DEF ComeBack
  <2> QED BY <1>2, <1>3, <1>4, <2>3, <2>4, ConstantsType DEF TypeInv
<1>8. CASE ~(rest \div Second < 1)
  <2>1. RetryAfter(k) = rest \div Second
    BY <1>6, <1>8
  <2> DEFINE r == (rest \div Second) * Second
  <2>2. r \in Nat /\ r <= rest /\ rest < r + Second
    BY <1>5, ConstantsType
  <2>3. ComeBack(k) = wall + r
    BY <2>1 DEF ComeBack
  <2> HIDE DEF r
  <2> QED BY <1>2, <1>3, <1>4, <2>2, <2>3, ConstantsType DEF TypeInv
<1> QED BY <1>7, <1>8

-----------------------------------------------------------------------------
\* The invariant is inductive

\* The invariant holds before the first request.
LEMMA InitRInv ==
    ASSUME Init
    PROVE  RInv
<1>1. \A k \in Keys : admitted[k] = << >> /\ kept[k] = {} /\ told[k] = None
  BY DEF Init
<1>2. IsFiniteSet({}) /\ Cardinality({}) = 0
  BY FS_EmptySet
<1>3. TypeInv
  BY <1>1, <1>2, ConstantsType DEF Init, TypeInv, Entry
<1>4. ClockInv /\ DroppedInv /\ ToldInv /\ WithinLimit
  BY <1>1 DEF Init, ClockInv, DroppedInv, ToldInv, WithinLimit
<1> QED BY <1>3, <1>4 DEF RInv

\* A step of a clock: elapsed time does not go back, and the wall clock does
\* not gain on it.
LEMMA ClockStep ==
    ASSUME RInv, Tick \/ SetBack
    PROVE  RInv'
<1> USE DEF RInv
<1>1. /\ UNCHANGED <<admitted, kept, told>>
      /\ elapsed' \in Nat /\ wall' \in Int /\ setBacks' \in Nat
      /\ elapsed' >= elapsed
      /\ wall' - wall <= elapsed' - elapsed
      /\ setBacks' = 0 => setBacks = 0 /\ wall' - wall = elapsed' - elapsed
  BY DEF Tick, SetBack, TypeInv
<1>2. TypeInv'
  BY <1>1 DEF TypeInv, Keys, Max
<1>3. ASSUME NEW k \in Keys, NEW i \in DOMAIN admitted[k]
      PROVE  admitted[k][i].elapsed \in Nat /\ admitted[k][i].wall \in Int
  <2>1. admitted[k] \in Seq(Entry)
    BY DEF TypeInv
  <2>2. admitted[k][i] \in Entry
    BY <2>1
  <2> QED BY <2>2 DEF Entry
<1>4. ClockInv'
  <2> SUFFICES ASSUME NEW k \in Keys, NEW i \in DOMAIN admitted[k]
               PROVE  /\ admitted[k][i].elapsed <= elapsed'
                      /\ wall' - admitted[k][i].wall <= elapsed' - admitted[k][i].elapsed
    BY <1>1 DEF ClockInv, TypeInv, Keys
  <2>1. /\ admitted[k][i].elapsed <= elapsed
        /\ wall - admitted[k][i].wall <= elapsed - admitted[k][i].elapsed
    BY DEF ClockInv
  <2>2. elapsed \in Nat /\ wall \in Int
    BY DEF TypeInv
  <2>3. admitted[k][i].elapsed \in Nat /\ admitted[k][i].wall \in Int
    BY <1>3
  <2>4. /\ elapsed' \in Nat /\ wall' \in Int
        /\ elapsed' >= elapsed /\ wall' - wall <= elapsed' - elapsed
    BY <1>1
  <2> DEFINE a == admitted[k][i].elapsed
             b == admitted[k][i].wall
  <2>5. a \in Nat /\ b \in Int /\ a <= elapsed /\ wall - b <= elapsed - a
    BY <2>1, <2>3
  <2> HIDE DEF RInv, a, b
  <2>6. \A e, w, e1, w1, x, y \in Int :
           x <= e /\ w - y <= e - x /\ e1 >= e /\ w1 - w <= e1 - e
              => x <= e1 /\ w1 - y <= e1 - x
    OBVIOUS
  <2>7. elapsed \in Int /\ elapsed' \in Int /\ a \in Int
    BY <2>2, <2>4, <2>5
  <2>8. a <= elapsed' /\ wall' - b <= elapsed' - a
    BY <2>2, <2>4, <2>5, <2>6, <2>7, Zenon
  <2> QED BY <2>8 DEF a, b
<1>5. DroppedInv'
  <2> SUFFICES ASSUME NEW k \in Keys, NEW i \in DOMAIN admitted[k] \ kept[k]
               PROVE  elapsed' - admitted[k][i].elapsed >= Window(k)
    BY <1>1 DEF DroppedInv, Keys, Window
  <2>1. elapsed - admitted[k][i].elapsed >= Window(k)
    BY DEF DroppedInv
  <2>2. elapsed \in Nat /\ Window(k) \in Nat
    BY ConstantsType DEF TypeInv
  <2> QED BY <1>1, <1>3, <2>1, <2>2
<1>6. ToldInv'
  BY <1>1 DEF ToldInv, Keys, Max, Window
<1>7. WithinLimit'
  BY <1>1 DEF WithinLimit, Keys, Max, Window
<1> QED BY <1>2, <1>4, <1>5, <1>6, <1>7

\* A refusal: the list is full of fresh entries, and the advice is taken from
\* the first of them.
LEMMA RefuseStep ==
    ASSUME RInv, NEW k \in Keys, Refuse(k)
    PROVE  RInv'
<1> USE DEF RInv
<1> DEFINE advice == ComeBack(k)
<1>1. /\ UNCHANGED <<elapsed, wall, setBacks, admitted, kept>>
      /\ told' = [told EXCEPT ![k] = advice]
      /\ Full(k)
  BY DEF Refuse
<1>2. TypeInv
  OBVIOUS
<1>3. /\ advice \in Int
      /\ First(k) \in Fresh(k)
      /\ \A i \in Fresh(k) : First(k) <= i
      /\ admitted[k][First(k)].wall + Window(k) < advice + Second
      /\ advice - Second <= admitted[k][First(k)].wall + Window(k)
  <2> HIDE DEF RInv
  <2> QED BY <1>1, <1>2, RetryAfterBounds, Zenon
<1> HIDE DEF advice
<1>4. Fresh(k) = kept[k] /\ Cardinality(kept[k]) >= Max(k)
  BY <1>1, FreshType, ConstantsType DEF TypeInv, Full
<1>5. \A h \in Keys : told'[h] = IF h = k THEN advice ELSE told[h]
  BY <1>1 DEF TypeInv
<1>6. TypeInv'
  BY <1>1, <1>3 DEF TypeInv, Keys, Max
<1>7. ClockInv' /\ DroppedInv' /\ WithinLimit'
  BY <1>1 DEF ClockInv, DroppedInv, WithinLimit, Keys, Max, Window
<1>8. setBacks = 0 =>
         \A i \in kept[k] : advice - Second <= admitted[k][i].wall + Window(k)
  <2> SUFFICES ASSUME setBacks = 0, NEW i \in kept[k]
               PROVE  advice - Second <= admitted[k][i].wall + Window(k)
    OBVIOUS
  <2>1. /\ First(k) \in DOMAIN admitted[k] /\ i \in DOMAIN admitted[k]
        /\ First(k) <= i
    BY <1>3, <1>4 DEF TypeInv
  <2>2. admitted[k][First(k)] \in Entry /\ admitted[k][i] \in Entry
    BY <2>1 DEF TypeInv
  <2>3. admitted[k][First(k)].wall <= admitted[k][i].wall
    BY <2>1 DEF ClockInv
  <2> QED BY <1>3, <2>2, <2>3, ConstantsType DEF Entry
<1>9. ToldInv'
  <2> SUFFICES ASSUME NEW h \in Keys, told'[h] # None
               PROVE  /\ \E i \in kept[h] :
                            admitted[h][i].wall + Window(h) < told'[h] + Second
                      /\ setBacks = 0 =>
                            /\ Cardinality(kept[h]) >= Max(h)
                            /\ \A i \in kept[h] :
                                  told'[h] - Second <= admitted[h][i].wall + Window(h)
    BY <1>1 DEF ToldInv, Keys, Max, Window
  <2>1. CASE h = k
    BY <1>3, <1>4, <1>5, <1>8, <2>1
  <2>2. CASE h # k
    BY <1>5, <2>2 DEF ToldInv
  <2> QED BY <2>1, <2>2
<1> QED BY <1>6, <1>7, <1>9

\* What an admission does to the requests let through.
LEMMA AdmitAppends ==
    ASSUME TypeInv, NEW k \in Keys, Admit(k)
    PROVE  LET n == Len(admitted[k]) + 1
           IN  /\ n \in Nat
               /\ DOMAIN admitted[k] = 1 .. (n - 1)
               /\ admitted'[k] \in Seq(Entry)
               /\ DOMAIN admitted'[k] = 1 .. n
               /\ admitted'[k][n] = [elapsed |-> elapsed, wall |-> wall]
               /\ \A i \in 1 .. (n - 1) : admitted'[k][i] = admitted[k][i]
<1> DEFINE e == [elapsed |-> elapsed, wall |-> wall]
           s == admitted[k]
<1>1. s \in Seq(Entry) /\ e \in Entry
  BY DEF TypeInv, Entry
<1>2. admitted'[k] = Append(s, e)
  BY DEF Admit, TypeInv
<1> HIDE DEF e, s
<1>3. /\ Len(s) \in Nat /\ DOMAIN s = 1 .. Len(s)
      /\ Append(s, e) \in Seq(Entry)
      /\ DOMAIN Append(s, e) = 1 .. (Len(s) + 1)
      /\ Append(s, e)[Len(s) + 1] = e
      /\ \A i \in 1 .. Len(s) : Append(s, e)[i] = s[i]
  BY <1>1
<1>4. (Len(s) + 1) - 1 = Len(s) /\ Len(s) + 1 \in Nat
  BY <1>3
<1> QED BY <1>2, <1>3, <1>4 DEF e, s

\* The heart of the limit: if the Max-th request before this one were younger
\* than the window, it and all that followed would still be fresh, and there
\* would be Max of them.
LEMMA AdmitWithinLimit ==
    ASSUME RInv, NEW k \in Keys, ~Full(k),
           Max(k) <= Len(admitted[k])
    PROVE  elapsed - admitted[k][Len(admitted[k]) + 1 - Max(k)].elapsed >= Window(k)
<1> DEFINE last == Len(admitted[k])
           i == last + 1 - Max(k)
<1>1. /\ last \in Nat /\ DOMAIN admitted[k] = 1 .. last
      /\ \A m \in 1 .. last : /\ admitted[k][m].elapsed \in Nat
                             /\ admitted[k][m].wall \in Int
  <2>1. admitted[k] \in Seq(Entry)
    BY DEF RInv, TypeInv
  <2>2. last \in Nat /\ DOMAIN admitted[k] = 1 .. last
    BY <2>1
  <2>3. \A m \in 1 .. last : admitted[k][m] \in Entry
    BY <2>1, <2>2
  <2> QED BY <2>2, <2>3 DEF Entry
<1>2. i \in 1 .. last
  BY <1>1, ConstantsType
<1> HIDE DEF last, i
<1>3. SUFFICES ASSUME elapsed - admitted[k][i].elapsed < Window(k)
               PROVE  FALSE
  BY <1>1, <1>2, ConstantsType DEF RInv, TypeInv, last, i
<1>4. ASSUME NEW m \in i .. last
      PROVE  m \in Fresh(k)
  <2>1. m \in 1 .. last /\ i <= m
    BY <1>1, <1>2
  <2>2. admitted[k][i].elapsed <= admitted[k][m].elapsed
    BY <1>1, <1>2, <2>1 DEF RInv, ClockInv
  <2>3. elapsed - admitted[k][m].elapsed < Window(k)
    BY <1>1, <1>2, <1>3, <2>1, <2>2, ConstantsType DEF RInv, TypeInv
  <2>4. m \in kept[k]
    <3>1. m \notin kept[k] => elapsed - admitted[k][m].elapsed >= Window(k)
      BY <1>1, <2>1 DEF RInv, DroppedInv
    <3>2. elapsed - admitted[k][m].elapsed \in Int
      BY <1>1, <2>1 DEF RInv, TypeInv
    <3> QED BY <2>3, <3>1, <3>2, ConstantsType
  <2>5. wall - admitted[k][m].wall <= elapsed - admitted[k][m].elapsed
    BY <1>1, <2>1 DEF RInv, ClockInv
  <2>6. wall - admitted[k][m].wall < Window(k)
    BY <1>1, <2>1, <2>3, <2>5, ConstantsType DEF RInv, TypeInv
  <2> QED BY <2>4, <2>6 DEF Fresh
<1>5. Cardinality(i .. last) = Max(k)
  <2>1. Cardinality(i .. last) = IF i > last THEN 0 ELSE last - i + 1
    BY <1>1, <1>2, FS_Interval
  <2> QED BY <1>1, <1>2, <2>1, ConstantsType DEF i
<1>6. Cardinality(i .. last) <= Cardinality(Fresh(k))
  <2>1. (i .. last) \in SUBSET Fresh(k)
    BY <1>4
  <2>2. IsFiniteSet(Fresh(k))
    BY FreshType DEF RInv
  <2> QED BY <2>1, <2>2, FS_Subset
<1> QED BY <1>5, <1>6 DEF Full

\* A request that is let in keeps it: the limit was not reached.
LEMMA AdmitStep ==
    ASSUME RInv, NEW k \in Keys, Admit(k)
    PROVE  RInv'
<1> DEFINE n == Len(admitted[k]) + 1
<1>0. TypeInv /\ ClockInv /\ DroppedInv /\ ToldInv /\ WithinLimit
  BY DEF RInv
<1>1. /\ n \in Nat /\ n >= 1
      /\ DOMAIN admitted[k] = 1 .. (n - 1)
      /\ admitted'[k] \in Seq(Entry)
      /\ DOMAIN admitted'[k] = 1 .. n
      /\ admitted'[k][n] = [elapsed |-> elapsed, wall |-> wall]
      /\ \A i \in 1 .. (n - 1) : admitted'[k][i] = admitted[k][i]
  <2>1. Len(admitted[k]) \in Nat
    BY <1>0 DEF TypeInv
  <2> QED BY <1>0, <2>1, AdmitAppends
<1>2. ~Full(k) /\ UNCHANGED <<elapsed, wall, setBacks>>
  BY DEF Admit
<1>3. /\ kept'[k] = Fresh(k) \cup {n}
      /\ told'[k] = None
      /\ \A h \in Keys : h # k => /\ admitted'[h] = admitted[h]
                                 /\ kept'[h] = kept[h]
                                 /\ told'[h] = told[h]
  BY <1>0 DEF Admit, TypeInv
<1>4. ASSUME NEW i \in 1 .. (n - 1)
      PROVE  /\ admitted[k][i].elapsed \in Nat
             /\ admitted[k][i].wall \in Int
  <2>1. admitted[k][i] \in Entry
    BY <1>0, <1>1 DEF TypeInv
  <2> QED BY <2>1 DEF Entry
<1>5. TypeInv'
  <2>1. /\ admitted' \in [Keys -> Seq(Entry)]
        /\ kept' \in [Keys -> SUBSET Nat]
        /\ told' \in [Keys -> Int \cup {None}]
    <3>1. Fresh(k) \cup {n} \in SUBSET Nat
      BY <1>0, <1>1, FreshType
    <3>2. /\ DOMAIN admitted' = Keys /\ DOMAIN kept' = Keys /\ DOMAIN told' = Keys
          /\ admitted' = [h \in Keys |-> admitted'[h]]
          /\ kept' = [h \in Keys |-> kept'[h]]
          /\ told' = [h \in Keys |-> told'[h]]
      BY <1>0 DEF Admit, TypeInv
    <3>3. \A h \in Keys : /\ admitted'[h] \in Seq(Entry)
                         /\ kept'[h] \in SUBSET Nat
                         /\ told'[h] \in Int \cup {None}
      BY <1>0, <1>1, <1>3, <3>1 DEF TypeInv
    <3> QED BY <3>2, <3>3
  <2>2. /\ kept'[k] \subseteq DOMAIN admitted'[k]
        /\ IsFiniteSet(kept'[k])
        /\ Cardinality(kept'[k]) <= Max(k)
    <3>1. Fresh(k) \subseteq 1 .. (n - 1)
      BY <1>0, <1>1, FreshType DEF TypeInv
    <3>2. IsFiniteSet(Fresh(k)) /\ Cardinality(Fresh(k)) \in Nat
      BY <1>0, FreshType
    <3>3. Cardinality(Fresh(k)) < Max(k)
      BY <1>2, <3>2, ConstantsType DEF Full
    <3>4. /\ IsFiniteSet(Fresh(k) \cup {n})
          /\ Cardinality(Fresh(k) \cup {n}) =
                IF n \in Fresh(k) THEN Cardinality(Fresh(k)) ELSE Cardinality(Fresh(k)) + 1
      BY <3>2, FS_AddElement
    <3>5. Cardinality(Fresh(k) \cup {n}) <= Max(k)
      BY <3>2, <3>3, <3>4, ConstantsType
    <3> QED BY <1>1, <1>3, <3>1, <3>4, <3>5
  <2>3. \A h \in Keys : /\ kept'[h] \subseteq DOMAIN admitted'[h]
                       /\ IsFiniteSet(kept'[h])
                       /\ Cardinality(kept'[h]) <= Max(h)
    BY <1>0, <1>3, <2>2 DEF TypeInv
  <2>4. /\ elapsed' \in Nat /\ wall' \in Int /\ setBacks' \in Nat
        /\ UNCHANGED <<Keys>> /\ \A h \in Keys : Max(h)' = Max(h)
    BY <1>0, <1>2 DEF TypeInv, Keys, Max
  <2> QED BY <2>1, <2>3, <2>4 DEF TypeInv, Keys, Max
<1>6. ClockInv'
  <2>1. ASSUME NEW i \in 1 .. n
        PROVE  /\ admitted'[k][i].elapsed <= elapsed
               /\ wall - admitted'[k][i].wall <= elapsed - admitted'[k][i].elapsed
               /\ setBacks = 0 => admitted'[k][i].wall = admitted'[k][i].elapsed
               /\ \A j \in 1 .. n :
                     i <= j => admitted'[k][i].elapsed <= admitted'[k][j].elapsed
    <3>1. CASE i = n
      BY <1>0, <1>1, <3>1 DEF TypeInv, ClockInv
    <3>2. CASE i # n
      <4>1. i \in 1 .. (n - 1) /\ admitted'[k][i] = admitted[k][i]
        BY <1>1, <3>2
      <4>2. /\ admitted[k][i].elapsed <= elapsed
            /\ wall - admitted[k][i].wall <= elapsed - admitted[k][i].elapsed
            /\ setBacks = 0 => admitted[k][i].wall = admitted[k][i].elapsed
            /\ \A j \in 1 .. (n - 1) :
                  i <= j => admitted[k][i].elapsed <= admitted[k][j].elapsed
        BY <1>0, <1>1, <4>1 DEF ClockInv
      <4>3. ASSUME NEW j \in 1 .. n, i <= j
            PROVE  admitted'[k][i].elapsed <= admitted'[k][j].elapsed
        <5>1. CASE j = n
          BY <1>1, <4>1, <4>2, <5>1
        <5>2. CASE j # n
          <6>1. j \in 1 .. (n - 1) /\ i <= j
            BY ONLY <1>1, <4>3, <5>2
          <6>2. admitted'[k][j] = admitted[k][j]
            BY ONLY <1>1, <6>1
          <6> QED BY ONLY <4>1, <4>2, <6>1, <6>2
        <5> QED BY <5>1, <5>2
      <4> QED BY <4>1, <4>2, <4>3
    <3> QED BY <3>1, <3>2
  <2>2. ASSUME NEW h \in Keys, NEW i \in DOMAIN admitted'[h]
        PROVE  /\ admitted'[h][i].elapsed <= elapsed
               /\ wall - admitted'[h][i].wall <= elapsed - admitted'[h][i].elapsed
               /\ setBacks = 0 => admitted'[h][i].wall = admitted'[h][i].elapsed
               /\ \A j \in DOMAIN admitted'[h] :
                     i <= j => admitted'[h][i].elapsed <= admitted'[h][j].elapsed
    <3>1. CASE h = k
      BY <1>1, <2>1, <3>1
    <3>2. CASE h # k
      BY <1>0, <1>3, <3>2 DEF ClockInv
    <3> QED BY <3>1, <3>2
  <2>3. setBacks = 0 => wall = elapsed
    BY <1>0 DEF ClockInv
  <2> QED BY <1>2, <2>2, <2>3 DEF ClockInv, Keys
<1>7. DroppedInv'
  <2> SUFFICES ASSUME NEW h \in Keys, NEW i \in DOMAIN admitted'[h] \ kept'[h]
               PROVE  elapsed - admitted'[h][i].elapsed >= Window(h)
    BY <1>2 DEF DroppedInv, Keys, Window
  <2>1. CASE h # k
    BY <1>0, <1>3, <2>1 DEF DroppedInv
  <2>2. CASE h = k
    <3>1. i \in 1 .. (n - 1) /\ i \notin Fresh(k) /\ admitted'[k][i] = admitted[k][i]
      BY <1>1, <1>3, <2>2
    <3>2. CASE i \notin kept[k]
      BY <1>0, <1>1, <2>2, <3>1, <3>2 DEF DroppedInv
    <3>3. CASE i \in kept[k]
      <4>1. ~(wall - admitted[k][i].wall < Window(k))
        BY <3>1, <3>3 DEF Fresh
      <4>2. wall - admitted[k][i].wall <= elapsed - admitted[k][i].elapsed
        BY <1>0, <1>1, <3>1 DEF ClockInv
      <4> QED BY <1>0, <1>4, <2>2, <3>1, <4>1, <4>2, ConstantsType DEF TypeInv
    <3> QED BY <3>2, <3>3
  <2> QED BY <2>1, <2>2
<1>8. ToldInv'
  <2> SUFFICES ASSUME NEW h \in Keys, told'[h] # None
               PROVE  /\ \E i \in kept'[h] :
                            admitted'[h][i].wall + Window(h) < told'[h] + Second
                      /\ setBacks = 0 =>
                            /\ Cardinality(kept'[h]) >= Max(h)
                            /\ \A i \in kept'[h] :
                                  told'[h] - Second <= admitted'[h][i].wall + Window(h)
    BY <1>2 DEF ToldInv, Keys, Max, Window
  <2>1. h # k
    BY <1>3
  <2> QED BY <1>0, <1>3, <2>1 DEF ToldInv
<1>9. WithinLimit'
  <2> SUFFICES ASSUME NEW h \in Keys, NEW i \in DOMAIN admitted'[h],
                      NEW j \in DOMAIN admitted'[h], j = i + Max(h)
               PROVE  admitted'[h][j].elapsed - admitted'[h][i].elapsed >= Window(h)
    BY DEF WithinLimit, Keys, Max, Window
  <2>1. CASE h # k
    BY <1>0, <1>3, <2>1 DEF WithinLimit
  <2>2. CASE h = k /\ j # n
    <3>0. i \in 1 .. n /\ j \in 1 .. n /\ j = i + Max(k) /\ j # n
      BY <1>1, <2>2
    <3>1. i \in 1 .. (n - 1) /\ j \in 1 .. (n - 1)
      <4> HIDE DEF n
      <4> QED BY <1>1, <3>0, ConstantsType
    <3> QED BY <1>0, <1>1, <2>2, <3>1 DEF WithinLimit
  <2>3. CASE h = k /\ j = n
    <3>1. i = n - Max(k) /\ i \in 1 .. (n - 1) /\ Max(k) <= n - 1
      <4>1. i \in 1 .. n /\ n = i + Max(k)
        BY <1>1, <2>3
      <4> HIDE DEF n
      <4> QED BY <1>1, <4>1, ConstantsType
    <3>2. n = Len(admitted[k]) + 1 /\ Len(admitted[k]) \in Nat
      BY <1>0 DEF TypeInv
    <3>3. Max(k) <= Len(admitted[k])
      BY <3>1, <3>2, ConstantsType
    <3>4. elapsed - admitted[k][n - Max(k)].elapsed >= Window(k)
      <4>1. RInv /\ ~Full(k)
        BY <1>2
      <4>2. elapsed - admitted[k][Len(admitted[k]) + 1 - Max(k)].elapsed >= Window(k)
        BY <3>3, <4>1, AdmitWithinLimit, Zenon
      <4>3. Len(admitted[k]) + 1 - Max(k) = n - Max(k)
        BY <3>2, ConstantsType
      <4> HIDE DEF n
      <4> QED BY <4>2, <4>3
    <3>5. admitted'[k][j].elapsed = elapsed /\ admitted'[k][i] = admitted[k][i]
      BY <1>1, <2>3, <3>1
    <3> QED BY <2>3, <3>1, <3>4, <3>5
  <2> QED BY <2>1, <2>2, <2>3
<1> QED BY <1>5, <1>6, <1>7, <1>8, <1>9 DEF RInv

\* It is an invariant.
LEMMA RInvariant == Spec => []RInv
<1>1. Init => RInv
  BY InitRInv
<1>2. RInv /\ [Next]_vars => RInv'
  <2> SUFFICES ASSUME RInv, [Next]_vars
               PROVE  RInv'
    OBVIOUS
  <2>1. ASSUME NEW k \in Keys, Admit(k)
        PROVE  RInv'
    BY <2>1, AdmitStep
  <2>2. ASSUME NEW k \in Keys, Refuse(k)
        PROVE  RInv'
    BY <2>2, RefuseStep
  <2>3. CASE Tick \/ SetBack
    BY <2>3, ClockStep
  <2>4. CASE UNCHANGED vars
    BY <2>4 DEF vars, RInv, TypeInv, ClockInv, DroppedInv, ToldInv, WithinLimit,
                Keys, Max, Window
  <2> QED BY <2>1, <2>2, <2>3, <2>4 DEF Next
<1> QED BY <1>1, <1>2, PTL DEF Spec

-----------------------------------------------------------------------------
\* Theorems

\* The clocks and lists keep their types and a list never holds more entries
\* than the limit, for every limit, window and history of the clock.
THEOREM LimiterTypeCorrect == Spec => []TypeOK
<1>1. RInv => TypeOK
  BY DEF RInv, TypeInv, TypeOK, Entry
<1> QED BY <1>1, RInvariant, PTL

\* The limit is never exceeded in any stretch of elapsed time as long as the
\* window, however often the wall clock is set back.
THEOREM LimitIsKept == Spec => []WithinLimit
<1>1. RInv => WithinLimit
  BY DEF RInv
<1> QED BY <1>1, RInvariant, PTL

\* The time told with a 429 is right to a second.
THEOREM AdviceIsRight == Spec => []RetryAfterIsRight
<1>1. RInv => RetryAfterIsRight
  <2> SUFFICES ASSUME RInv, NEW k \in Keys, told[k] # None
               PROVE  /\ wall >= told[k] + Second => ~Full(k)
                      /\ setBacks = 0 /\ wall < told[k] - Second => Full(k)
    BY DEF RetryAfterIsRight
  <2>1. TypeInv /\ ToldInv
    BY DEF RInv
  <2>2. told[k] \in Int /\ wall \in Int
    BY <2>1 DEF TypeInv
  <2>3. ASSUME NEW i \in kept[k]
        PROVE  admitted[k][i].wall \in Int
    <3>1. i \in DOMAIN admitted[k] /\ admitted[k] \in Seq(Entry)
      BY <2>1 DEF TypeInv
    <3>2. admitted[k][i] \in Entry
      BY <3>1
    <3> QED BY <3>2 DEF Entry
  <2>4. ASSUME wall >= told[k] + Second
        PROVE  ~Full(k)
    <3>1. PICK i \in kept[k] : admitted[k][i].wall + Window(k) < told[k] + Second
      BY <2>1 DEF ToldInv
    <3>2. ~(wall - admitted[k][i].wall < Window(k))
      BY <2>2, <2>3, <2>4, <3>1, ConstantsType
    <3>3. i \notin Fresh(k)
      BY <3>2 DEF Fresh
    <3>4. Cardinality(Fresh(k)) # Cardinality(kept[k])
      BY <2>1, <3>1, <3>3, FreshType
    <3>5. Cardinality(kept[k]) <= Max(k)
      BY <2>1 DEF TypeInv
    <3>6. /\ Cardinality(Fresh(k)) \in Nat /\ Cardinality(kept[k]) \in Nat
          /\ Cardinality(Fresh(k)) <= Cardinality(kept[k])
      BY <2>1, FreshType
    <3> QED BY <3>4, <3>5, <3>6, ConstantsType DEF Full
  <2>5. ASSUME setBacks = 0, wall < told[k] - Second
        PROVE  Full(k)
    <3>1. /\ Cardinality(kept[k]) >= Max(k)
          /\ \A i \in kept[k] : told[k] - Second <= admitted[k][i].wall + Window(k)
      BY <2>1, <2>5 DEF ToldInv
    <3>2. \A i \in kept[k] : wall - admitted[k][i].wall < Window(k)
      BY <2>2, <2>3, <2>5, <3>1, ConstantsType
    <3>3. Fresh(k) = kept[k]
      BY <3>2 DEF Fresh
    <3> QED BY <3>1, <3>3 DEF Full
  <2> QED BY <2>4, <2>5
<1> QED BY <1>1, RInvariant, PTL

=============================================================================
