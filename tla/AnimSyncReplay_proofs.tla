------------------------ MODULE AnimSyncReplay_proofs ------------------------
(***************************************************************************)
(* AnimSync implements InputReplay, for every set of peers, profile and     *)
(* tolerance: the lossy form under Spec, the reliable one under StableSpec. *)
(***************************************************************************)
EXTENDS AnimSyncReplay, AnimSyncStable_proofs, WellFoundedInduction

-----------------------------------------------------------------------------
(* Induction over a set of numbers. *)

LEMMA LeastElement ==
  ASSUME NEW T \in SUBSET Nat, T # {}
  PROVE  \E x \in T : \A y \in T : x <= y
<1> DEFINE R == OpToRel(<, Nat)
<1>1. IsWellFoundedOn(R, Nat)
  BY NatLessThanWellFounded
<1> HIDE DEF R
<1>2. PICK x \in T : \A y \in T : <<y, x>> \notin R
  BY <1>1, WFMin
<1>3. \A y \in T : ~(y < x)
  BY <1>2 DEF R, OpToRel
<1> QED
  BY <1>2, <1>3

LEMMA SetInduction ==
  ASSUME NEW S, 0 \in S, \A n \in Nat : n \in S => n+1 \in S
  PROVE  \A n \in Nat : n \in S
<1> SUFFICES ASSUME ~(Nat \subseteq S) PROVE FALSE
  OBVIOUS
<1>1. PICK x \in Nat \ S : \A y \in Nat \ S : x <= y
  BY LeastElement
<1>2. x # 0 /\ x - 1 \in Nat /\ x - 1 \in S
  BY <1>1
<1> QED
  BY <1>1, <1>2

-----------------------------------------------------------------------------
(* The inputs among the packets of a queue: the recursion is well-defined. *)

Input == [tag : Events, at : Capture]

\* What the recursion of InputsAmong says of the first k packets of q, up to
\* n of them.
Counts(first, p, q, n) ==
  first = [k \in 0..n |->
             IF k = 0 THEN << >>
             ELSE IF Awaited(p, q[k]) THEN Append(first[k-1], InputOf(q[k]))
             ELSE first[k-1]]

LEMMA CountsAt ==
  ASSUME NEW first, NEW p, NEW q, NEW n \in Nat
  PROVE  Counts(first, p, q, n)
           => /\ first[0] = << >>
              /\ \A k \in 1..n :
                   first[k] = IF Awaited(p, q[k])
                              THEN Append(first[k-1], InputOf(q[k]))
                              ELSE first[k-1]
<1> SUFFICES ASSUME Counts(first, p, q, n)
             PROVE  /\ first[0] = << >>
                    /\ \A k \in 1..n :
                         first[k] = IF Awaited(p, q[k])
                                    THEN Append(first[k-1], InputOf(q[k]))
                                    ELSE first[k-1]
  OBVIOUS
<1>1. 0 \in 0..n /\ \A k \in 1..n : k \in 0..n /\ k # 0
  OBVIOUS
<1>2. \A k \in 0..n :
        first[k] = IF k = 0 THEN << >>
                   ELSE IF Awaited(p, q[k]) THEN Append(first[k-1], InputOf(q[k]))
                   ELSE first[k-1]
  BY DEF Counts
<1> QED
  BY <1>1, <1>2

LEMMA CountsExists ==
  ASSUME NEW p, NEW q
  PROVE  \A n \in Nat : \E first : Counts(first, p, q, n)
<1> DEFINE S == {n \in Nat : \E first : Counts(first, p, q, n)}
<1>1. 0 \in S
  <2>1. Counts([k \in 0..0 |-> << >>], p, q, 0)
    BY DEF Counts
  <2> QED
    BY <2>1
<1>2. ASSUME NEW n \in Nat, n \in S PROVE n+1 \in S
  <2>1. PICK f : Counts(f, p, q, n)
    BY <1>2
  <2> DEFINE last == IF Awaited(p, q[n+1]) THEN Append(f[n], InputOf(q[n+1]))
                                           ELSE f[n]
             g == [k \in 0..(n+1) |-> IF k = n+1 THEN last ELSE f[k]]
             value(k) == IF k = 0 THEN << >>
                         ELSE IF Awaited(p, q[k]) THEN Append(g[k-1], InputOf(q[k]))
                         ELSE g[k-1]
  <2>2. \A k \in 0..n : g[k] = f[k]
    OBVIOUS
  <2>3. ASSUME NEW k \in 0..(n+1) PROVE g[k] = value(k)
    <3>1. CASE k = 0
      BY <2>1, <2>2, <3>1, CountsAt
    <3>2. CASE k \in 1..n
      <4>1. k-1 \in 0..n /\ k \in 0..n /\ k # 0
        BY <3>2
      <4>2. g[k] = f[k] /\ g[k-1] = f[k-1]
        BY <2>2, <4>1
      <4> HIDE DEF g
      <4> QED
        BY <2>1, <3>2, <4>1, <4>2, CountsAt
    <3>3. CASE k = n+1
      <4>1. k-1 = n /\ n \in 0..n /\ k # 0
        BY <3>3
      <4>2. g[k] = last /\ g[n] = f[n]
        BY <2>2, <3>3, <4>1
      <4> HIDE DEF g
      <4> QED
        BY <3>3, <4>1, <4>2
    <3> QED
      BY <3>1, <3>2, <3>3
  <2>4. g = [k \in 0..(n+1) |-> value(k)]
    BY <2>3
  <2>5. Counts(g, p, q, n+1)
    BY <2>4 DEF Counts
  <2> QED
    BY <2>5
<1> HIDE DEF S
<1>3. \A n \in Nat : n \in S
  BY <1>1, <1>2, SetInduction
<1> QED
  BY <1>3 DEF S

\* The recursion of InputsAmong, by name.
First(p, q) == CHOOSE first : Counts(first, p, q, Len(q))

LEMMA FirstCounts ==
  ASSUME NEW p, NEW q, Len(q) \in Nat
  PROVE  Counts(First(p, q), p, q, Len(q))
  BY CountsExists DEF First

LEMMA FirstAtZero ==
  ASSUME NEW p, NEW q, Len(q) \in Nat
  PROVE  First(p, q)[0] = << >>
  BY FirstCounts, CountsAt

LEMMA FirstAtInput ==
  ASSUME NEW p, NEW q, Len(q) \in Nat, NEW k \in 1..Len(q), Awaited(p, q[k])
  PROVE  First(p, q)[k] = Append(First(p, q)[k-1], InputOf(q[k]))
  BY FirstCounts, CountsAt

LEMMA FirstAtOther ==
  ASSUME NEW p, NEW q, Len(q) \in Nat, NEW k \in 1..Len(q), ~Awaited(p, q[k])
  PROVE  First(p, q)[k] = First(p, q)[k-1]
  BY FirstCounts, CountsAt

LEMMA FirstAtEnd ==
  ASSUME NEW p, NEW q
  PROVE  InputsAmong(p, q) = First(p, q)[Len(q)]
  BY DEF InputsAmong, First, Counts

-----------------------------------------------------------------------------
(* The inputs among the packets of a queue: what appending, taking the head *)
(* and cutting the end do to them. *)

\* They depend on the packets counted only.
LEMMA FirstAgrees ==
  ASSUME NEW p, NEW q, NEW r, Len(q) \in Nat, Len(r) \in Nat,
         NEW n \in 0..Len(q), n <= Len(r), \A i \in 1..n : q[i] = r[i]
  PROVE  First(p, q)[n] = First(p, r)[n]
<1> DEFINE S == {k \in Nat : k <= n => First(p, q)[k] = First(p, r)[k]}
<1>1. 0 \in S
  BY FirstAtZero
<1>2. ASSUME NEW k \in Nat, k \in S PROVE k+1 \in S
  <2> SUFFICES ASSUME k+1 <= n PROVE First(p, q)[k+1] = First(p, r)[k+1]
    OBVIOUS
  <2> DEFINE j == k+1
  <2>1. j \in 1..n /\ j-1 = k /\ n \in Nat
    OBVIOUS
  <2>0. First(p, q)[j-1] = First(p, r)[j-1]
    BY <1>2, <2>1
  <2> HIDE DEF j
  <2>2. /\ j \in 1..Len(q) /\ j \in 1..Len(r) /\ q[j] = r[j]
    BY <2>1
  <2>3. First(p, q)[j] = First(p, r)[j]
    <3>1. CASE Awaited(p, q[j])
      <4>1. First(p, q)[j] = Append(First(p, q)[j-1], InputOf(q[j]))
        BY <2>2, <3>1, FirstAtInput
      <4>2. First(p, r)[j] = Append(First(p, r)[j-1], InputOf(r[j]))
        BY <2>2, <3>1, FirstAtInput
      <4> QED
        BY <2>0, <2>2, <4>1, <4>2
    <3>2. CASE ~Awaited(p, q[j])
      BY <2>0, <2>2, <3>2, FirstAtOther
    <3> QED
      BY <3>1, <3>2
  <2> QED
    BY <2>3 DEF j
<1> HIDE DEF S
<1>3. n \in S
  BY <1>1, <1>2, SetInduction
<1> QED
  BY <1>3 DEF S

LEMMA InputType ==
  ASSUME NEW m \in SyncPacket, m.kind = "event"
  PROVE  InputOf(m) \in Input
<1>1. m \in EventPacket
  BY DEF SyncPacket, VariablePacket
<1> QED
  BY <1>1 DEF EventPacket, InputOf, Input

LEMMA FirstType ==
  ASSUME NEW p, NEW q \in Seq(SyncPacket)
  PROVE  \A k \in 0..Len(q) : First(p, q)[k] \in Seq(Input)
<1> DEFINE S == {k \in Nat : k <= Len(q) => First(p, q)[k] \in Seq(Input)}
<1>0. Len(q) \in Nat /\ \A k \in 1..Len(q) : q[k] \in SyncPacket
  BY LenProperties, ElementOfSeq
<1>1. 0 \in S
  <2>1. First(p, q)[0] = << >>
    BY <1>0, FirstAtZero
  <2> QED
    BY <2>1, EmptySeq
<1>2. ASSUME NEW k \in Nat, k \in S PROVE k+1 \in S
  <2> SUFFICES ASSUME k+1 <= Len(q) PROVE First(p, q)[k+1] \in Seq(Input)
    OBVIOUS
  <2>1. k+1 \in 1..Len(q) /\ (k+1)-1 = k /\ First(p, q)[k] \in Seq(Input)
    BY <1>0, <1>2
  <2>2. CASE Awaited(p, q[k+1])
    <3>1. First(p, q)[k+1] = Append(First(p, q)[k], InputOf(q[k+1]))
      BY <1>0, <2>1, <2>2, FirstAtInput
    <3>2. InputOf(q[k+1]) \in Input
      BY <1>0, <2>1, <2>2, InputType DEF Awaited
    <3> QED
      BY <2>1, <3>1, <3>2, AppendProperties
  <2>3. CASE ~Awaited(p, q[k+1])
    BY <1>0, <2>1, <2>3, FirstAtOther
  <2> QED
    BY <2>2, <2>3
<1> HIDE DEF S
<1>3. \A k \in Nat : k \in S
  BY <1>1, <1>2, SetInduction
<1> QED
  BY <1>0, <1>3 DEF S

LEMMA InputsType ==
  ASSUME NEW p, NEW q \in Seq(SyncPacket)
  PROVE  InputsAmong(p, q) \in Seq(Input)
<1>1. Len(q) \in Nat /\ Len(q) \in 0..Len(q)
  BY LenProperties
<1> QED
  BY <1>1, FirstAtEnd, FirstType

LEMMA InputsEmpty ==
  ASSUME NEW p
  PROVE  InputsAmong(p, << >>) = << >>
<1>1. Len(<< >>) = 0
  OBVIOUS
<1> QED
  BY <1>1, FirstAtZero, FirstAtEnd

\* A packet that joins the queue adds its input, if it has one for p.
LEMMA InputsAppend ==
  ASSUME NEW p, NEW q \in Seq(SyncPacket), NEW m \in SyncPacket
  PROVE  InputsAmong(p, Append(q, m)) =
           IF Awaited(p, m) THEN Append(InputsAmong(p, q), InputOf(m))
                            ELSE InputsAmong(p, q)
<1> DEFINE r == Append(q, m)
           n == Len(q)
<1>1. /\ Len(r) = n + 1 /\ r[n+1] = m /\ \A i \in 1..n : q[i] = r[i]
  BY AppendProperties
<1>2. n \in Nat
  BY LenProperties
<1> HIDE DEF r, n
<1>3. First(p, q)[n] = First(p, r)[n]
  BY <1>1, <1>2, FirstAgrees DEF n
<1>4. PICK at \in 1..Len(r) : at = Len(r) /\ at-1 = n /\ Len(r) \in Nat /\ r[at] = m
  BY <1>1, <1>2
<1>5. InputsAmong(p, q) = First(p, r)[at-1] /\ InputsAmong(p, r) = First(p, r)[at]
  BY <1>3, <1>4, FirstAtEnd DEF n
<1>6. CASE Awaited(p, m)
  BY <1>4, <1>5, <1>6, FirstAtInput DEF r
<1>7. CASE ~Awaited(p, m)
  BY <1>4, <1>5, <1>7, FirstAtOther DEF r
<1> QED
  BY <1>6, <1>7

LEMMA ConcatEmpty ==
  ASSUME NEW S, NEW s \in Seq(S)
  PROVE  s \o << >> = s /\ << >> \o s = s
  OBVIOUS

\* Taking the packet at the head of the queue takes its input, if any.
LEMMA InputsTail ==
  ASSUME NEW p, NEW q \in Seq(SyncPacket), q # << >>
  PROVE  InputsAmong(p, q) =
           IF Awaited(p, Head(q))
           THEN << InputOf(Head(q)) >> \o InputsAmong(p, Tail(q))
           ELSE InputsAmong(p, Tail(q))
<1> DEFINE r == Tail(q)
           n == Len(q)
           own == IF Awaited(p, Head(q)) THEN << InputOf(Head(q)) >> ELSE << >>
           At(k) == k+1 <= n => First(p, q)[k+1] = own \o First(p, r)[k]
           S == {k \in Nat : At(k)}
<1>1. /\ r \in Seq(SyncPacket) /\ Head(q) = q[1] /\ Len(r) = n - 1
      /\ \A i \in 1..Len(r) : r[i] = q[i+1]
      /\ Head(q) \in SyncPacket
  BY HeadTailProperties
<1>2. n \in Nat /\ n > 0
  BY LenProperties, EmptySeq
<1>3. \A k \in 1..n : q[k] \in SyncPacket
  BY ElementOfSeq
<1>4. own \in Seq(Input)
  <2>1. Awaited(p, Head(q)) => InputOf(Head(q)) \in Input
    BY <1>1, InputType DEF Awaited
  <2> QED
    BY <2>1
<1>5. \A k \in 0..(n-1) : First(p, r)[k] \in Seq(Input)
  BY <1>1, FirstType
<1>6. 0 \in S
  <2>1. PICK j \in 1..n : j = 1 /\ j-1 = 0 /\ q[j] = Head(q)
    BY <1>1, <1>2
  <2>2. First(p, q)[j-1] = << >> /\ First(p, r)[0] = << >>
    BY <1>1, <1>2, <2>1, FirstAtZero
  <2>3. \A x : Append(<< >>, x) = << x >>
    OBVIOUS
  <2>4. First(p, q)[j] = own
    <3>1. CASE Awaited(p, q[j])
      BY <1>2, <2>1, <2>2, <2>3, <3>1, FirstAtInput
    <3>2. CASE ~Awaited(p, q[j])
      BY <1>2, <2>1, <2>2, <3>2, FirstAtOther
    <3> QED
      BY <3>1, <3>2
  <2>5. own \o << >> = own
    BY <1>4, ConcatEmpty
  <2> HIDE DEF own
  <2>6. First(p, q)[0+1] = own \o First(p, r)[0]
    <3>1. 0+1 = j
      BY <2>1
    <3>2. First(p, q)[j] = own \o First(p, r)[0]
      BY ONLY <2>2, <2>4, <2>5
    <3> QED
      BY ONLY <3>1, <3>2
  <2>7. At(0)
    BY <2>6
  <2> HIDE DEF At
  <2> QED
    BY <2>7
<1> HIDE DEF own
<1>7. ASSUME NEW k \in Nat, k \in S PROVE k+1 \in S
  <2> SUFFICES ASSUME (k+1)+1 <= n
               PROVE  First(p, q)[(k+1)+1] = own \o First(p, r)[k+1]
    OBVIOUS
  <2> DEFINE i == k+1
             j == i+1
  <2>0. k+1 <= n /\ k \in 0..(n-1)
    BY <1>2
  <2>1. /\ j \in 1..n /\ j-1 = i /\ i \in 1..Len(r) /\ i-1 = k
        /\ Len(q) \in Nat /\ Len(r) \in Nat
    BY <1>1, <1>2
  <2>2. r[i] = q[j] /\ q[j] \in SyncPacket
    BY <1>1, <1>3, <2>1
  <2>3. PICK rest \in Seq(Input) : First(p, q)[i] = own \o rest /\ First(p, r)[k] = rest
    BY <1>5, <1>7, <2>0
  <2> HIDE DEF i, j, r, S
  <2>4. CASE Awaited(p, q[j])
    <3>1. InputOf(q[j]) \in Input
      BY <2>2, <2>4, InputType DEF Awaited
    <3>2. First(p, q)[j] = Append(First(p, q)[i], InputOf(q[j]))
      BY <2>1, <2>4, FirstAtInput
    <3>3. First(p, r)[i] = Append(First(p, r)[k], InputOf(q[j]))
      BY <2>1, <2>2, <2>4, FirstAtInput
    <3>4. own \o Append(rest, InputOf(q[j])) = Append(own \o rest, InputOf(q[j]))
      BY <1>4, <3>1, ConcatAppend
    <3> QED
      BY <2>3, <3>2, <3>3, <3>4 DEF i, j
  <2>5. CASE ~Awaited(p, q[j])
    <3>1. First(p, q)[j] = First(p, q)[i]
      BY <2>1, <2>5, FirstAtOther
    <3>2. First(p, r)[i] = First(p, r)[k]
      BY <2>1, <2>2, <2>5, FirstAtOther
    <3> QED
      BY <2>3, <3>1, <3>2 DEF i, j
  <2> QED
    BY <2>4, <2>5
<1> HIDE DEF S
<1>8. n-1 \in S
  BY <1>2, <1>6, <1>7, SetInduction
<1>9. First(p, q)[n] = own \o First(p, r)[n-1]
  BY <1>2, <1>8 DEF S
<1>10. InputsAmong(p, q) = own \o InputsAmong(p, r)
  BY <1>1, <1>2, <1>9, FirstAtEnd
<1>11. << >> \o InputsAmong(p, r) = InputsAmong(p, r)
  BY <1>1, InputsType, ConcatEmpty
<1> QED
  BY <1>10, <1>11 DEF own

\* The inputs of the front of a queue are the front of its inputs.
LEMMA InputsPrefix ==
  ASSUME NEW p, NEW q \in Seq(SyncPacket), NEW t \in Seq(SyncPacket)
  PROVE  \E rest \in Seq(Input) :
           InputsAmong(p, q \o t) = InputsAmong(p, q) \o rest
<1> DEFINE r == q \o t
           n == Len(q)
           S == {k \in Nat :
                   n+k <= Len(r) =>
                     \E rest \in Seq(Input) :
                       First(p, r)[n+k] = InputsAmong(p, q) \o rest}
<1>1. /\ r \in Seq(SyncPacket) /\ Len(r) = n + Len(t)
      /\ \A i \in 1..n : q[i] = r[i]
  BY ConcatProperties, LenProperties
<1>2. n \in Nat /\ Len(t) \in Nat /\ Len(r) \in Nat
  BY <1>1, LenProperties
<1>3. \A k \in 1..Len(r) : r[k] \in SyncPacket
  BY <1>1, ElementOfSeq
<1>4. InputsAmong(p, q) \in Seq(Input)
  BY InputsType
<1> HIDE DEF r, n
<1>5. First(p, r)[n] = InputsAmong(p, q)
  <2>1. n \in 0..Len(q) /\ n <= Len(r) /\ Len(q) \in Nat
    BY <1>1, <1>2 DEF n
  <2>2. First(p, q)[n] = First(p, r)[n]
    BY <1>1, <1>2, <2>1, FirstAgrees
  <2> QED
    BY <2>2, FirstAtEnd DEF n
<1>6. 0 \in S
  <2>1. InputsAmong(p, q) = InputsAmong(p, q) \o << >> /\ << >> \in Seq(Input)
    BY <1>4, ConcatEmpty, EmptySeq
  <2>2. n + 0 = n
    BY <1>2
  <2> QED
    BY <1>5, <2>1, <2>2
<1>7. ASSUME NEW k \in Nat, k \in S PROVE k+1 \in S
  <2> SUFFICES ASSUME n+(k+1) <= Len(r)
               PROVE  \E rest \in Seq(Input) :
                        First(p, r)[n+(k+1)] = InputsAmong(p, q) \o rest
    OBVIOUS
  <2>1. PICK at \in 1..Len(r) : at = n+(k+1) /\ at-1 = n+k /\ n+k <= Len(r)
    BY <1>2
  <2>2. PICK rest \in Seq(Input) : First(p, r)[at-1] = InputsAmong(p, q) \o rest
    BY <1>7, <2>1
  <2>3. CASE Awaited(p, r[at])
    <3>1. InputOf(r[at]) \in Input
      BY <1>3, <2>3, InputType DEF Awaited
    <3>2. InputsAmong(p, q) \o Append(rest, InputOf(r[at]))
            = Append(InputsAmong(p, q) \o rest, InputOf(r[at]))
      BY <1>4, <3>1, ConcatAppend
    <3>3. Append(rest, InputOf(r[at])) \in Seq(Input)
      BY <3>1, AppendProperties
    <3>4. First(p, r)[at] = Append(First(p, r)[at-1], InputOf(r[at]))
      BY <1>2, <2>3, FirstAtInput
    <3> QED
      BY <2>1, <2>2, <3>2, <3>3, <3>4
  <2>4. CASE ~Awaited(p, r[at])
    BY <1>2, <2>1, <2>2, <2>4, FirstAtOther
  <2> QED
    BY <2>3, <2>4
<1> HIDE DEF S
<1>8. Len(t) \in S
  BY <1>2, <1>6, <1>7, SetInduction
<1>9. \E rest \in Seq(Input) : First(p, r)[Len(r)] = InputsAmong(p, q) \o rest
  BY <1>1, <1>2, <1>8 DEF S
<1>10. InputsAmong(p, r) = First(p, r)[Len(r)]
  BY FirstAtEnd
<1> QED
  BY <1>9, <1>10 DEF r

-----------------------------------------------------------------------------
(* Where values come from: the invariant that types the mapping. *)

\* A choice holds, for each name, one of its values.
LEMMA ChoicesType ==
  ASSUME NEW values, NEW g
  PROVE  g \in Choices(values) <=>
           /\ g = [n \in Names |-> g[n]]
           /\ \A n \in Names : g[n] \in values[n]
<1>1. ASSUME g = [n \in Names |-> g[n]], \A n \in Names : g[n] \in values[n]
      PROVE  g \in [Names -> UNION {values[n] : n \in Names}]
  BY <1>1
<1> QED
  BY <1>1 DEF Choices

LEMMA ChoiceSet ==
  ASSUME NEW values, NEW g \in Choices(values), NEW n \in Names,
         NEW x \in values[n]
  PROVE  [g EXCEPT ![n] = x] \in Choices(values)
<1> DEFINE h == [g EXCEPT ![n] = x]
<1>1. g = [m \in Names |-> g[m]] /\ \A m \in Names : g[m] \in values[m]
  BY ChoicesType
<1>2. h = [m \in Names |-> h[m]] /\ \A m \in Names : h[m] \in values[m]
  BY <1>1
<1> HIDE DEF h
<1>3. h \in Choices(values)
  BY <1>2, ChoicesType
<1> QED
  BY <1>3 DEF h

LEMMA SetLocalSourced ==
  ASSUME NEW g \in LocalGraphs, NEW n \in Names, NEW x \in LocalValues[n]
  PROVE  [g EXCEPT ![n] = x] \in LocalGraphs
  BY ChoiceSet DEF LocalGraphs, GraphValues

LEMMA LocalGraphValues ==
  ASSUME NEW g \in LocalGraphs, NEW n \in Names
  PROVE  /\ g[n] \in GraphValues[n]
         /\ Readable(g[n]) => g[n] \in LocalValues[n] /\ g[n] \in Int
  BY ChoicesType, DeltaAssumption DEF LocalGraphs, GraphValues, Readable

LEMMA NoGraphSourced == NoGraph \in LocalGraphs
  BY ChoicesType DEF NoGraph, LocalGraphs, GraphValues

\* What a packet may bring under a name.
LEMMA ValueArrives ==
  ASSUME NEW n \in Names, NEW x \in LocalValues[n], x \in Int
  PROVE  x \in ProxyValues[n] /\ x \in ProxyValues[NameOnWire[n]]
<1>1. NameOnWire[n] \in Names
  BY WireType
<1>2. x \in Arriving(n) /\ x \in Arriving(NameOnWire[n])
  BY DEF Arriving
<1>3. x # Absent /\ x # NaN
  BY DeltaAssumption
<1> QED
  BY <1>1, <1>2, <1>3 DEF ProxyValues

LEMMA ZeroArrives == \A n \in Names : 0 \in ProxyValues[n]
  BY DeltaAssumption DEF ProxyValues

LEMMA SetProxySourced ==
  ASSUME NEW g \in ProxyGraphs, NEW n \in Names, NEW x \in ProxyValues[n]
  PROVE  [g EXCEPT ![n] = x] \in ProxyGraphs
  BY ChoiceSet DEF ProxyGraphs

LEMMA FreshSourced == Fresh \in ProxyGraphs
  BY ZeroArrives, ChoicesType DEF Fresh, ProxyGraphs

\* A packet brings what the local graph may hold.
Sourced(m) ==
  /\ m.kind = "variable" => m.value \in ProxyValues[m.name]
  /\ m.kind = "event" => /\ m.animType \in GraphValues[AnimType]
                         /\ m.offsetType \in GraphValues[OffsetType]
SourcedPacket == {m \in SyncPacket : Sourced(m)}

\* An activation has read what the local graph may hold, and lost rules only.
SourcedHook(h) ==
  /\ h.seen \in LocalGraphs /\ h.lost \subseteq RuleNames
  /\ h.animType \in GraphValues[AnimType]
  /\ h.offsetType \in GraphValues[OffsetType]

SourcedSender ==
  /\ graph \in LocalGraphs
  /\ SourcedHook(hook)
  /\ \A i \in 1..Len(outer) : SourcedHook(outer[i])

SourcedPeers ==
  /\ inbox \in [Peers -> Seq(SourcedPacket)]
  /\ tasks \in [Peers -> Seq(SourcedPacket)]
  /\ \A p \in Peers : proxy[p] \in ProxyGraphs

\* The state embedded in a packet is one a proxy may show.
LEMMA EmbeddedSourced ==
  ASSUME NEW m \in EventPacket, Sourced(m), NEW vals \in ProxyGraphs
  PROVE  Embedded(m, vals) \in ProxyGraphs
<1>1. AnimType \in Names /\ OffsetType \in Names
  BY GPMANames
<1>2. \A n \in Names : vals[n] \in ProxyValues[n]
  BY ChoicesType DEF ProxyGraphs
<1>3. m.kind = "event"
  BY DEF EventPacket
<1>4. ASSUME NEW n \in Names, NEW x \in GraphValues[n], Readable(x)
      PROVE  x \in ProxyValues[n]
  <2>1. x \in LocalValues[n] /\ x \in Int
    BY <1>4, DeltaAssumption DEF GraphValues, Readable
  <2> QED
    BY <2>1, ValueArrives
<1> DEFINE a == IF Readable(m.animType) THEN m.animType ELSE vals[AnimType]
           o == IF Readable(m.offsetType) THEN m.offsetType ELSE vals[OffsetType]
<1>5. a \in ProxyValues[AnimType] /\ o \in ProxyValues[OffsetType]
  BY <1>1, <1>2, <1>3, <1>4 DEF Sourced
<1>6. AnimType # OffsetType
  BY DEF AnimType, OffsetType
<1>7. Embedded(m, vals) =
        IF m.tag # Start THEN vals
        ELSE [[vals EXCEPT ![AnimType] = a] EXCEPT ![OffsetType] = o]
  BY <1>6 DEF Embedded
<1> HIDE DEF a, o
<1>8. [vals EXCEPT ![AnimType] = a] \in ProxyGraphs
  BY <1>1, <1>5, SetProxySourced
<1> DEFINE b == [vals EXCEPT ![AnimType] = a]
<1>9. b \in ProxyGraphs
  BY <1>8
<1> HIDE DEF b
<1>10. [b EXCEPT ![OffsetType] = o] \in ProxyGraphs
  BY <1>1, <1>5, <1>9, SetProxySourced
<1> QED
  BY <1>7, <1>10 DEF b

LEMMA SourcedInit == Init => SourcedSender /\ SourcedPeers /\ OnlyAcceptedTasks
<1> SUFFICES ASSUME Init
             PROVE  SourcedSender /\ SourcedPeers /\ OnlyAcceptedTasks
  OBVIOUS
<1>1. SourcedHook(IdleHook)
  BY NoGraphSourced, GPMANames DEF IdleHook, SourcedHook, GraphValues
<1>2. SourcedSender
  BY <1>1, NoGraphSourced DEF Init, SourcedSender
<1>3. SourcedPeers
  BY FreshSourced DEF Init, SourcedPeers
<1> QED
  BY <1>2, <1>3 DEF Init, OnlyAcceptedTasks

LEMMA LeaveSourced ==
  ASSUME TypeOK, SourcedSender, LeaveHook, UNCHANGED graph
  PROVE  SourcedSender'
<1>1. CASE outer = << >>
  <2>1. SourcedHook(IdleHook)
    BY NoGraphSourced, GPMANames DEF IdleHook, SourcedHook, GraphValues
  <2>2. hook' = IdleHook /\ outer' = outer
    BY <1>1 DEF LeaveHook
  <2> QED
    BY <2>1, <2>2 DEF SourcedSender
<1>2. CASE outer # << >>
  <2> hook' = Head(outer) /\ outer' = Tail(outer)
    BY <1>2 DEF LeaveHook
  <2> outer \in Seq(Suspended)
    BY DEF TypeOK
  <2>1. /\ hook' = outer[1] /\ 1 \in 1..Len(outer)
        /\ \A i \in 1..Len(outer') : outer'[i] = outer[i+1] /\ i+1 \in 1..Len(outer)
    BY <1>2
  <2> QED
    BY <2>1 DEF SourcedSender
<1> QED
  BY <1>1, <1>2

\* A capture step changes of an activation where it is and what it has lost.
LEMMA CaptureSourced ==
  ASSUME TypeOK, SourcedSender, CaptureRule
  PROVE  SourcedSender'
<1> DEFINE rule == Rules[hook.next]
<1>1. rule.name \in RuleNames /\ rule.name \in Names
  BY RuleType DEF CaptureRule, RuleNames, Rule
<1>2. hook \in Hook /\ SourcedHook(hook) /\ UNCHANGED graph
  BY DEF TypeOK, SourcedSender, CaptureRule
<1>3. SourcedHook(hook')
  <2>1. CASE hook' = [hook EXCEPT !.next = @ + 1]
    BY <1>2, <2>1 DEF SourcedHook, Hook
  <2>2. CASE hook' = [hook EXCEPT !.next = @ + 1, !.lost = @ \cup {rule.name}]
    <3>1. /\ hook'.seen = hook.seen /\ hook'.lost = hook.lost \cup {rule.name}
          /\ hook'.animType = hook.animType /\ hook'.offsetType = hook.offsetType
      BY <1>2, <2>2 DEF Hook
    <3> QED
      BY <1>1, <1>2, <3>1 DEF SourcedHook
  <2> QED
    BY <2>1, <2>2 DEF CaptureRule, SkipRule, SendRule, LoseRule
<1>4. \A i \in 1..Len(outer') : SourcedHook(outer'[i])
  <2>1. CASE SentAgain(rule.name)
    <3>1. outer \in Seq(Suspended)
      BY DEF TypeOK
    <3> DEFINE n == rule.name
    <3>2. /\ Len(outer') = Len(outer)
          /\ \A i \in 1..Len(outer) :
               /\ outer[i] \in Suspended
               /\ outer'[i] = [outer[i] EXCEPT !.lost = @ \cup {n}]
      BY <1>1, <2>1, <3>1, SentAgainType
    <3>3. n \in RuleNames
      BY <1>1
    <3> HIDE DEF n, rule
    <3>4. ASSUME NEW h \in Suspended, NEW g, g = [h EXCEPT !.lost = @ \cup {n}],
                 SourcedHook(h)
          PROVE  SourcedHook(g)
      <4>1. /\ g.seen = h.seen /\ g.lost = h.lost \cup {n}
            /\ g.animType = h.animType /\ g.offsetType = h.offsetType
        BY <3>4 DEF Suspended, Hook
      <4> QED
        BY <3>3, <3>4, <4>1 DEF SourcedHook
    <3>5. \A i \in 1..Len(outer) : SourcedHook(outer[i])
      BY DEF SourcedSender
    <3> QED
      BY <3>2, <3>4, <3>5
  <2>2. CASE UNCHANGED outer
    BY <2>2 DEF SourcedSender
  <2> QED
    BY <2>1, <2>2 DEF CaptureRule, SkipRule, SendRule, LoseRule
<1> QED
  BY <1>2, <1>3, <1>4 DEF SourcedSender

LEMMA SenderSourced ==
  ASSUME TypeOK, SourcedSender, [Next]_vars
  PROVE  SourcedSender'
<1>1. ASSUME UNCHANGED <<graph, hook, outer>> PROVE SourcedSender'
  BY <1>1 DEF SourcedSender
<1>2. ASSUME NEW n \in Names, SetLocalVariable(n) PROVE SourcedSender'
  <2>1. PICK x \in LocalValues[n] : graph' = [graph EXCEPT ![n] = x]
    BY <1>2 DEF SetLocalVariable
  <2>2. graph' \in LocalGraphs
    BY <2>1, SetLocalSourced DEF SourcedSender
  <2> QED
    BY <1>2, <2>2 DEF SetLocalVariable, SourcedSender
<1>3. ASSUME NEW e \in Events, EnterHook(e) PROVE SourcedSender'
  <2>1. SourcedHook(hook')
    <3>1. /\ hook'.seen = graph /\ hook'.lost = {}
          /\ hook'.animType = Absent /\ hook'.offsetType = Absent
      BY <1>3 DEF EnterHook, IdleHook
    <3> QED
      BY <3>1, GPMANames DEF SourcedHook, SourcedSender, GraphValues
  <2>2. \A i \in 1..Len(outer') : SourcedHook(outer'[i])
    <3>1. CASE outer' = outer
      BY <3>1 DEF SourcedSender
    <3>2. CASE outer' = << hook >> \o outer
      <4>1. /\ Len(outer') = Len(outer) + 1 /\ outer'[1] = hook
            /\ \A i \in 2..Len(outer') : outer'[i] = outer[i-1]
            /\ Len(outer) \in Nat
        BY <3>2 DEF TypeOK
      <4> QED
        BY <4>1 DEF SourcedSender
    <3> QED
      BY <1>3, <3>1, <3>2 DEF EnterHook
  <2> QED
    BY <1>3, <2>1, <2>2 DEF EnterHook, SourcedSender
<1>4. ASSUME CallOriginal PROVE SourcedSender'
  <2>1. /\ hook'.seen = hook.seen /\ hook'.lost = hook.lost
        /\ hook'.animType \in {hook.animType, graph[AnimType]}
        /\ hook'.offsetType \in {hook.offsetType, graph[OffsetType]}
    BY <1>4 DEF CallOriginal, TypeOK, Hook
  <2>2. /\ graph[AnimType] \in GraphValues[AnimType]
        /\ graph[OffsetType] \in GraphValues[OffsetType]
    BY GPMANames, LocalGraphValues DEF SourcedSender
  <2>3. SourcedHook(hook')
    BY <2>1, <2>2 DEF SourcedHook, SourcedSender
  <2> QED
    BY <1>4, <2>3 DEF CallOriginal, SourcedSender
<1>5. CASE ReturnAndSend
  BY <1>5, LeaveSourced DEF ReturnAndSend
<1>6. ASSUME NEW accepted \in BOOLEAN, ReturnSilently(accepted)
      PROVE  SourcedSender'
  BY <1>6, LeaveSourced DEF ReturnSilently
<1>7. CASE Reset
  BY <1>1, <1>7 DEF Reset
<1>8. ASSUME NEW p \in Peers, Receiver(p) \/ Churn(p) PROVE SourcedSender'
  BY <1>1, <1>8
  DEF Receiver, Churn, OnSyncMessage, ApplyGraphVariableMessage,
      ApplyAnimationMessage, RunTask, ProxyStopOutput, Join, Leave,
      ResolverChanges, BodyChanges, senderVars
<1>9. CASE UNCHANGED vars
  BY <1>1, <1>9 DEF vars, senderVars
<1> QED
  BY <1>2, <1>3, <1>4, <1>5, <1>6, <1>7, <1>8, <1>9, CaptureSourced
  DEF Next, StableNext, Sender

-----------------------------------------------------------------------------
(* The packets and the proxies. *)

LEMMA BroadcastSourced ==
  ASSUME SourcedPeers, NEW m \in SourcedPacket, Broadcast(m)
  PROVE  inbox' \in [Peers -> Seq(SourcedPacket)]
  BY AppendProperties DEF Broadcast, SourcedPeers

LEMMA VariableSentSourced ==
  ASSUME TypeOK, SourcedSender, NEW rule \in Rule, Sends(rule)
  PROVE  [kind |-> "variable", name |-> NameOnWire[rule.name],
          type |-> rule.type, value |-> graph[rule.name]] \in SourcedPacket
<1> DEFINE m == [kind |-> "variable", name |-> NameOnWire[rule.name],
                 type |-> rule.type, value |-> graph[rule.name]]
<1>1. m \in SyncPacket
  BY WireType DEF Sends, Readable, SyncPacket, VariablePacket, Rule
<1>2. graph[rule.name] \in ProxyValues[NameOnWire[rule.name]]
  BY LocalGraphValues, ValueArrives DEF Sends, SourcedSender, Rule
<1>3. m.kind # "event" /\ m.value = graph[rule.name] /\ m.name = NameOnWire[rule.name]
  OBVIOUS
<1> HIDE DEF m
<1>4. m \in SourcedPacket
  BY <1>1, <1>2, <1>3 DEF SourcedPacket, Sourced
<1> QED
  BY <1>4 DEF m

LEMMA EventSentType ==
  ASSUME TypeOK, ReturnAndSend
  PROVE  EventSent \in SyncPacket
  BY SyncedEventsType, WireType
  DEF ReturnAndSend, EventSent, SyncPacket, EventPacket, Capture, Hook, TypeOK

LEMMA EventSentSourced ==
  ASSUME TypeOK, SourcedSender, ReturnAndSend
  PROVE  EventSent \in SourcedPacket
  BY EventSentType
  DEF EventSent, SourcedPacket, Sourced, SourcedSender, SourcedHook

LEMMA VariableSetSourced ==
  ASSUME TypeOK, SourcedPeers, NEW p \in Peers, NEW n \in Names,
         NEW x \in ProxyValues[n], proxy' = [proxy EXCEPT ![p][n] = x]
  PROVE  \A r \in Peers : proxy'[r] \in ProxyGraphs
<1>1. [proxy[p] EXCEPT ![n] = x] \in ProxyGraphs
  BY SetProxySourced DEF SourcedPeers
<1> QED
  BY <1>1 DEF TypeOK, SourcedPeers

LEMMA RunSourced ==
  ASSUME SourcedPeers, NEW p \in Peers, NEW kind, RunTask(p, kind)
  PROVE  /\ Head(tasks[p]) \in SourcedPacket
         /\ inbox' \in [Peers -> Seq(SourcedPacket)]
         /\ tasks' \in [Peers -> Seq(SourcedPacket)]
<1>1. tasks[p] \in Seq(SourcedPacket) /\ tasks[p] # << >>
  BY DEF SourcedPeers, RunTask
<1>2. Head(tasks[p]) \in SourcedPacket /\ Tail(tasks[p]) \in Seq(SourcedPacket)
  BY <1>1, HeadTailProperties
<1> QED
  BY <1>2 DEF RunTask, SourcedPeers

LEMMA VariableTaskSourced ==
  ASSUME TypeOK, SourcedPeers, NEW p \in Peers, ApplyGraphVariableMessage(p)
  PROVE  SourcedPeers'
<1> DEFINE m == Head(tasks[p])
<1>1. RunTask(p, "variable") /\ m.kind = "variable"
  BY DEF ApplyGraphVariableMessage, RunTask
<1>2. m \in SourcedPacket
  BY <1>1, RunSourced
<1>3. m \in VariablePacket /\ m.value \in ProxyValues[m.name]
  BY <1>1, <1>2 DEF SourcedPacket, Sourced, SyncPacket, EventPacket
<1>4. \A r \in Peers : proxy'[r] \in ProxyGraphs
  <2>1. CASE UNCHANGED proxy
    BY <2>1 DEF SourcedPeers
  <2>2. CASE proxy' = [proxy EXCEPT ![p][m.name] = m.value]
    <3>1. m.name \in Names
      BY <1>3 DEF VariablePacket
    <3> QED
      BY <1>3, <2>2, <3>1, VariableSetSourced
  <2> QED
    BY <2>1, <2>2 DEF ApplyGraphVariableMessage
<1> QED
  BY <1>1, <1>4, RunSourced DEF SourcedPeers

LEMMA EventTaskSourced ==
  ASSUME TypeOK, SourcedPeers, NEW p \in Peers, ApplyAnimationMessage(p)
  PROVE  /\ SourcedPeers'
         /\ Embedded(Head(tasks[p]), proxy[p]) \in ProxyGraphs
<1> DEFINE m == Head(tasks[p])
           vals == Embedded(m, proxy[p])
           reset == [vals EXCEPT ![AnimType] = 0]
<1>1. RunTask(p, "event") /\ m.kind = "event"
  BY DEF ApplyAnimationMessage, RunTask
<1>2. m \in SourcedPacket
  BY <1>1, RunSourced
<1>3. m \in EventPacket /\ Sourced(m)
  BY <1>1, <1>2 DEF SourcedPacket, SyncPacket, VariablePacket
<1>4. vals \in ProxyGraphs
  BY <1>3, EmbeddedSourced DEF SourcedPeers
<1>5. \E x \in {vals, reset, proxy[p]} : proxy' = [proxy EXCEPT ![p] = x]
  <2>1. CASE ReplayEvent(p, m)
    BY <2>1 DEF ReplayEvent
  <2>2. CASE UNCHANGED proxy
    BY <2>2 DEF TypeOK
  <2> QED
    BY <2>1, <2>2 DEF ApplyAnimationMessage
<1> HIDE DEF vals
<1>6. reset \in ProxyGraphs
  BY <1>4, GPMANames, ZeroArrives, SetProxySourced
<1> HIDE DEF reset
<1>7. \A r \in Peers : proxy'[r] \in ProxyGraphs
  BY <1>4, <1>5, <1>6 DEF SourcedPeers, TypeOK
<1> QED
  BY <1>1, <1>4, <1>7, RunSourced DEF SourcedPeers, vals

LEMMA PeersSourced ==
  ASSUME TypeOK, SourcedSender, SourcedPeers, [Next]_vars
  PROVE  SourcedPeers'
<1>1. ASSUME UNCHANGED <<inbox, tasks, proxy>> PROVE SourcedPeers'
  BY <1>1 DEF SourcedPeers
<1>2. ASSUME NEW m \in SourcedPacket, Broadcast(m), UNCHANGED <<tasks, proxy>>
      PROVE  SourcedPeers'
  BY <1>2, BroadcastSourced DEF SourcedPeers
<1>3. CASE CaptureRule
  <2> DEFINE rule == Rules[hook.next]
  <2>1. rule \in Rule /\ UNCHANGED <<tasks, proxy>>
    BY <1>3, RuleType DEF CaptureRule, peerVars
  <2>2. CASE SendRule(rule)
    BY <1>2, <2>1, <2>2, VariableSentSourced DEF SendRule
  <2>3. CASE SkipRule(rule) \/ LoseRule(rule)
    BY <1>1, <2>1, <2>3 DEF SkipRule, LoseRule
  <2> QED
    BY <1>3, <2>2, <2>3 DEF CaptureRule
<1>4. CASE ReturnAndSend
  BY <1>2, <1>4, EventSentSourced DEF ReturnAndSend, peerVars
<1>5. ASSUME NEW p \in Peers, OnSyncMessage(p) PROVE SourcedPeers'
  <2>1. /\ Head(inbox[p]) \in SourcedPacket
        /\ Tail(inbox[p]) \in Seq(SourcedPacket)
    BY <1>5, HeadTailProperties DEF OnSyncMessage, SourcedPeers
  <2>2. /\ inbox' \in [Peers -> Seq(SourcedPacket)]
        /\ tasks' \in [Peers -> Seq(SourcedPacket)]
    BY <1>5, <2>1, AppendProperties DEF OnSyncMessage, SourcedPeers
  <2> QED
    BY <1>5, <2>2 DEF OnSyncMessage, SourcedPeers, peerVars
<1>6. ASSUME NEW p \in Peers, ProxyStopOutput(p) PROVE SourcedPeers'
  <2>1. \A r \in Peers : proxy'[r] \in ProxyGraphs
    BY <1>6, GPMANames, ZeroArrives, VariableSetSourced DEF ProxyStopOutput
  <2> QED
    BY <1>6, <2>1 DEF ProxyStopOutput, SourcedPeers
<1>7. ASSUME NEW p \in Peers, Leave(p) PROVE SourcedPeers'
  <2>1. inbox' \in [Peers -> Seq(SourcedPacket)]
    BY <1>7 DEF Leave, SourcedPeers
  <2> QED
    BY <1>7, <2>1 DEF Leave, SourcedPeers, peerVars
<1>8. ASSUME NEW p \in Peers, BodyChanges(p) PROVE SourcedPeers'
  <2>1. \A r \in Peers : proxy'[r] \in ProxyGraphs
    BY <1>8, FreshSourced DEF BodyChanges, SourcedPeers, TypeOK
  <2> QED
    BY <1>8, <2>1 DEF BodyChanges, SourcedPeers
<1>9. ASSUME NEW p \in Peers, Join(p) \/ ResolverChanges(p) PROVE SourcedPeers'
  BY <1>1, <1>9 DEF Join, ResolverChanges, peerVars
<1>10. ASSUME NEW n \in Names, SetLocalVariable(n) PROVE SourcedPeers'
  BY <1>1, <1>10 DEF SetLocalVariable, peerVars
<1>11. ASSUME NEW e \in Events, EnterHook(e) PROVE SourcedPeers'
  BY <1>1, <1>11 DEF EnterHook, peerVars
<1>12. CASE CallOriginal \/ Reset \/ \E a \in BOOLEAN : ReturnSilently(a)
  BY <1>1, <1>12 DEF CallOriginal, Reset, ReturnSilently, peerVars
<1>13. CASE UNCHANGED vars
  BY <1>1, <1>13 DEF vars, peerVars
<1> QED
  BY <1>3, <1>4, <1>5, <1>6, <1>7, <1>8, <1>9, <1>10, <1>11, <1>12, <1>13,
     VariableTaskSourced, EventTaskSourced
  DEF Next, StableNext, Sender, Receiver, Churn

LEMMA AcceptedTasksNext ==
  ASSUME TypeOK, OnlyAcceptedTasks, [Next]_vars
  PROVE  OnlyAcceptedTasks'
<1>1. CASE UNCHANGED tasks
  BY <1>1 DEF OnlyAcceptedTasks
<1>2. ASSUME NEW p \in Peers, OnSyncMessage(p) PROVE OnlyAcceptedTasks'
  BY <1>2 DEF OnSyncMessage, OnlyAcceptedTasks, TypeOK
<1>3. ASSUME NEW p \in Peers, NEW kind, RunTask(p, kind) PROVE OnlyAcceptedTasks'
  <2>1. p \in Accepting
    BY <1>3 DEF RunTask, OnlyAcceptedTasks
  <2> QED
    BY <1>3, <2>1 DEF RunTask, OnlyAcceptedTasks, TypeOK
<1>4. CASE Sender
  BY <1>1, <1>4 DEF Sender, SetLocalVariable, EnterHook, CaptureRule, CallOriginal,
                    ReturnAndSend, ReturnSilently, Reset
<1>5. ASSUME NEW p \in Peers, Churn(p) \/ ProxyStopOutput(p)
      PROVE  OnlyAcceptedTasks'
  BY <1>1, <1>5 DEF Churn, Join, Leave, ResolverChanges, BodyChanges, ProxyStopOutput
<1>6. CASE UNCHANGED vars
  BY <1>1, <1>6 DEF vars
<1> QED
  BY <1>2, <1>3, <1>4, <1>5, <1>6
  DEF Next, StableNext, Receiver, ApplyGraphVariableMessage, ApplyAnimationMessage

-----------------------------------------------------------------------------
(* What waits for the peers, as packets are sent, delivered and run. *)

LEMMA WaitingAt ==
  ASSUME NEW p \in Accepting
  PROVE  /\ Waiting[p] = InputsAmong(p, Pending(p))
         /\ Waiting'[p] = InputsAmong(p, Pending(p)')
  BY DEF Waiting, Awaiting

LEMMA WaitingIs ==
  /\ Waiting = [p \in Accepting |-> Waiting[p]]
  /\ Waiting' = [p \in Accepting |-> Waiting'[p]]
  BY DEF Waiting

LEMMA WaitingType ==
  ASSUME TypeOK, NEW p \in Accepting
  PROVE  Waiting[p] \in Seq(Input)
<1>1. Pending(p) \in Seq(SyncPacket)
  BY AcceptingPeers, PendingType
<1> QED
  BY <1>1, InputsType, WaitingAt

LEMMA WaitingKept ==
  ASSUME \A p \in Accepting : Waiting'[p] = Waiting[p]
  PROVE  UNCHANGED Waiting
  BY WaitingIs

LEMMA QueuesKept ==
  ASSUME UNCHANGED <<inbox, tasks>>
  PROVE  UNCHANGED Waiting
<1>1. \A p \in Accepting : Pending(p)' = Pending(p)
  BY DEF Pending
<1> QED
  BY <1>1, WaitingAt, WaitingKept

\* A packet that is broadcast waits where it is awaited and received.
LEMMA WaitingBroadcast ==
  ASSUME TypeOK, NEW m \in SyncPacket, Broadcast(m), UNCHANGED tasks,
         NEW p \in Accepting
  PROVE  Waiting'[p] = IF connected[p] /\ Awaited(p, m)
                       THEN Append(Waiting[p], InputOf(m)) ELSE Waiting[p]
<1>1. p \in Peers
  BY AcceptingPeers
<1>2. CASE connected[p]
  <2>1. Pending(p)' = Append(Pending(p), m) /\ Pending(p) \in Seq(SyncPacket)
    BY <1>1, <1>2, PendingBroadcast, PendingType
  <2>2. InputsAmong(p, Append(Pending(p), m)) =
          IF Awaited(p, m) THEN Append(InputsAmong(p, Pending(p)), InputOf(m))
                           ELSE InputsAmong(p, Pending(p))
    BY <2>1, InputsAppend
  <2> QED
    BY <1>2, <2>1, <2>2, WaitingAt
<1>3. CASE ~connected[p]
  <2>1. Pending(p)' = Pending(p)
    BY <1>1, <1>3 DEF Broadcast, Pending
  <2> QED
    BY <1>3, <2>1, WaitingAt
<1> QED
  BY <1>2, <1>3

LEMMA HeadOfInputs ==
  ASSUME NEW S, NEW x \in S, NEW s \in Seq(S)
  PROVE  /\ << x >> \o s # << >> /\ Head(<< x >> \o s) = x
         /\ Tail(<< x >> \o s) = s
  OBVIOUS

\* A task that runs takes the input of its packet, if the peer awaits it.
LEMMA WaitingRun ==
  ASSUME TypeOK, NEW p \in Accepting, NEW kind, RunTask(p, kind)
  PROVE  /\ Awaited(p, Head(tasks[p])) =>
              /\ Waiting[p] # << >> /\ Head(Waiting[p]) = InputOf(Head(tasks[p]))
              /\ Waiting' = [Waiting EXCEPT ![p] = Tail(@)]
         /\ ~Awaited(p, Head(tasks[p])) => UNCHANGED Waiting
<1> DEFINE m == Head(tasks[p])
           q == Pending(p)
           r == Tail(q)
<1>1. p \in Peers
  BY AcceptingPeers
<1>2. /\ q # << >> /\ Head(q) = m /\ Pending(p)' = r
      /\ \A o \in Peers \ {p} : Pending(o)' = Pending(o)
  BY <1>1, PendingRun
<1>3. q \in Seq(SyncPacket) /\ r \in Seq(SyncPacket) /\ m \in SyncPacket
  BY <1>1, <1>2, PendingType, HeadTailProperties
<1>4. InputsAmong(p, q) = IF Awaited(p, m) THEN << InputOf(m) >> \o InputsAmong(p, r)
                                           ELSE InputsAmong(p, r)
  BY <1>2, <1>3, InputsTail
<1>5. \A o \in Accepting \ {p} : Waiting'[o] = Waiting[o]
  <2> SUFFICES ASSUME NEW o \in Accepting \ {p} PROVE Waiting'[o] = Waiting[o]
    OBVIOUS
  <2>1. o \in Peers \ {p}
    BY AcceptingPeers
  <2> QED
    BY <1>2, <2>1, WaitingAt
<1>6. Waiting[p] = InputsAmong(p, q) /\ Waiting'[p] = InputsAmong(p, r)
  BY <1>2, WaitingAt
<1> HIDE DEF m, q, r
<1>7. CASE Awaited(p, m)
  <2>1. InputOf(m) \in Input /\ InputsAmong(p, r) \in Seq(Input)
    BY <1>3, <1>7, InputType, InputsType DEF Awaited
  <2>2. /\ Waiting[p] # << >> /\ Head(Waiting[p]) = InputOf(m)
        /\ Tail(Waiting[p]) = Waiting'[p]
    BY <1>4, <1>6, <1>7, <2>1, HeadOfInputs
  <2>3. Waiting' = [Waiting EXCEPT ![p] = Tail(@)]
    BY <1>5, <2>2, WaitingIs
  <2> QED
    BY <1>7, <2>2, <2>3 DEF m
<1>8. CASE ~Awaited(p, m)
  <2>1. Waiting'[p] = Waiting[p]
    BY <1>4, <1>6, <1>8
  <2>2. UNCHANGED Waiting
    BY <1>5, <2>1, WaitingKept
  <2> QED
    BY <1>8, <2>2 DEF m
<1> QED
  BY <1>7, <1>8

LEMMA FrontOfConcat ==
  ASSUME NEW S, NEW s \in Seq(S), NEW t \in Seq(S)
  PROVE  /\ SubSeq(s \o t, 1, Len(s)) = s
         /\ t # << >> => s \o t # << >> /\ Len(s) \in 0..(Len(s \o t) - 1)
<1>1. Len(s) \in Nat /\ Len(t) \in Nat /\ Len(s \o t) = Len(s) + Len(t)
  BY LenProperties, ConcatProperties
<1>2. SubSeq(s \o t, 1, Len(s)) = s
  BY SubSeqOfConcat1
<1>3. ASSUME t # << >> PROVE Len(t) > 0 /\ s \o t # << >>
  BY <1>3
<1> QED
  BY <1>1, <1>2, <1>3

\* A peer that leaves keeps the front of what waits for it.
LEMMA WaitingLeft ==
  ASSUME TypeOK, NEW p \in Peers, Leave(p)
  PROVE  \/ UNCHANGED Waiting
         \/ /\ p \in Accepting /\ Waiting[p] # << >>
            /\ \E k \in 0..(Len(Waiting[p]) - 1) :
                 Waiting' = [Waiting EXCEPT ![p] = SubSeq(@, 1, k)]
<1>1. ASSUME NEW o \in Accepting \ {p} PROVE Waiting'[o] = Waiting[o]
  <2>1. o \in Peers \ {p}
    BY AcceptingPeers
  <2>2. Pending(o)' = Pending(o)
    BY <2>1 DEF Leave, Pending, TypeOK
  <2> QED
    BY <2>2, WaitingAt
<1>2. CASE p \notin Accepting
  BY <1>1, <1>2, WaitingKept
<1>3. CASE p \in Accepting
  <2> DEFINE t == tasks[p]
             i == inbox[p]
             kept == InputsAmong(p, t)
  <2>1. t \in Seq(SyncPacket) /\ i \in Seq(SyncPacket)
    BY DEF TypeOK
  <2>2. Pending(p) = t \o i /\ Pending(p)' = t \o << >>
    BY DEF Leave, Pending, TypeOK
  <2> HIDE DEF t, i
  <2>3. Waiting[p] = InputsAmong(p, t \o i) /\ Waiting'[p] = kept
    BY <1>3, <2>1, <2>2, WaitingAt, ConcatEmpty
  <2>4. PICK rest \in Seq(Input) : InputsAmong(p, t \o i) = kept \o rest
    BY <2>1, InputsPrefix
  <2>5. kept \in Seq(Input)
    BY <2>1, InputsType
  <2> HIDE DEF kept
  <2>6. CASE rest = << >>
    <3>1. Waiting'[p] = Waiting[p]
      BY <2>3, <2>4, <2>5, <2>6, ConcatEmpty
    <3> QED
      BY <1>1, <3>1, WaitingKept
  <2>7. CASE rest # << >>
    <3>1. /\ SubSeq(Waiting[p], 1, Len(kept)) = kept /\ Waiting[p] # << >>
          /\ Len(kept) \in 0..(Len(Waiting[p]) - 1)
      BY <2>3, <2>4, <2>5, <2>7, FrontOfConcat
    <3>2. Waiting' = [Waiting EXCEPT ![p] = SubSeq(@, 1, Len(kept))]
      BY <1>1, <2>3, <3>1, WaitingIs
    <3> QED
      BY <1>3, <3>1, <3>2
  <2> QED
    BY <2>6, <2>7
<1> QED
  BY <1>2, <1>3

-----------------------------------------------------------------------------
(* The steps of AnimSync are steps of InputReplay. *)

\* Steps in which what waits stays the same and nothing is replayed.
LEMMA QuietSteps ==
  ASSUME TypeOK, SourcedSender, OnlyAcceptedTasks, [Next]_vars
  PROVE  \/ Quiet /\ UNCHANGED Waiting
         \/ ReturnAndSend
         \/ \E p \in Peers : ApplyAnimationMessage(p) \/ Leave(p)
         \/ UNCHANGED <<Waiting, replay>>
<1>1. CASE CaptureRule
  <2> DEFINE rule == Rules[hook.next]
             m == [kind |-> "variable", name |-> NameOnWire[rule.name],
                   type |-> rule.type, value |-> graph[rule.name]]
  <2>1. rule \in Rule /\ UNCHANGED tasks /\ Quiet
    BY <1>1, RuleType DEF CaptureRule
  <2>2. CASE SendRule(rule)
    <3>1. m \in SyncPacket /\ Broadcast(m) /\ m.kind = "variable"
      BY <2>1, <2>2, VariableSentSourced DEF SendRule, SourcedPacket
    <3> HIDE DEF m
    <3>2. \A p \in Accepting : Waiting'[p] = Waiting[p]
      BY <2>1, <3>1, WaitingBroadcast DEF Awaited
    <3> QED
      BY <2>1, <3>2, WaitingKept
  <2>3. CASE SkipRule(rule) \/ LoseRule(rule)
    BY <2>1, <2>3, QueuesKept DEF SkipRule, LoseRule
  <2> QED
    BY <1>1, <2>2, <2>3 DEF CaptureRule
<1>2. ASSUME NEW p \in Peers, OnSyncMessage(p) PROVE Quiet /\ UNCHANGED Waiting
  <2>1. \A q \in Accepting : Pending(q)' = Pending(q)
    BY <1>2, PendingDelivered
  <2>2. UNCHANGED Waiting
    BY <2>1, WaitingAt, WaitingKept
  <2> QED
    BY <1>2, <2>2 DEF OnSyncMessage
<1>3. ASSUME NEW p \in Peers, ApplyGraphVariableMessage(p)
      PROVE  Quiet /\ UNCHANGED Waiting
  <2>1. RunTask(p, "variable") /\ Quiet
    BY <1>3 DEF ApplyGraphVariableMessage
  <2>2. p \in Accepting /\ ~Awaited(p, Head(tasks[p]))
    BY <1>3, <2>1 DEF OnlyAcceptedTasks, RunTask, Awaited
  <2> QED
    BY <2>1, <2>2, WaitingRun
<1>4. ASSUME UNCHANGED <<inbox, tasks>>, Quiet PROVE Quiet /\ UNCHANGED Waiting
  BY <1>4, QueuesKept
<1>5. ASSUME NEW p \in Peers,
             ProxyStopOutput(p) \/ Join(p) \/ ResolverChanges(p) \/ BodyChanges(p)
      PROVE  Quiet /\ UNCHANGED Waiting
  BY <1>4, <1>5 DEF ProxyStopOutput, Join, ResolverChanges, BodyChanges
<1>6. ASSUME NEW n \in Names, SetLocalVariable(n) PROVE Quiet /\ UNCHANGED Waiting
  BY <1>4, <1>6 DEF SetLocalVariable
<1>7. ASSUME NEW e \in Events, EnterHook(e) PROVE Quiet /\ UNCHANGED Waiting
  BY <1>4, <1>7 DEF EnterHook
<1>8. CASE CallOriginal \/ Reset \/ \E a \in BOOLEAN : ReturnSilently(a)
  BY <1>4, <1>8 DEF CallOriginal, Reset, ReturnSilently
<1>9. CASE UNCHANGED vars
  BY <1>9, QueuesKept DEF vars
<1> QED
  BY <1>1, <1>2, <1>3, <1>5, <1>6, <1>7, <1>8, <1>9
  DEF Next, StableNext, Sender, Receiver, Churn

\* The input of the event that is sent is one the local client may issue.
LEMMA SentIsIssuable ==
  ASSUME TypeOK, SourcedSender, ReturnAndSend
  PROVE  InputOf(EventSent) \in Issuable /\ EventSent.kind = "event"
<1>1. /\ EventSent.tag = TagOnWire[hook.event] /\ EventSent.kind = "event"
      /\ EventSent.at = [seen |-> hook.seen, lost |-> hook.lost]
  BY DEF EventSent
<1>2. hook.event \in SyncedEvents
  BY DEF ReturnAndSend
<1>3. hook.seen \in LocalGraphs /\ hook.lost \in SUBSET RuleNames
  BY DEF SourcedSender, SourcedHook
<1> QED
  BY <1>1, <1>2, <1>3 DEF InputOf, Issuable

\* Some of the clients that follow its tag get the input.
LEMMA SendIssues ==
  ASSUME TypeOK, SourcedSender, ReturnAndSend
  PROVE  \E audience \in SUBSET Accepting, input \in Issuable :
           Lossy!IssueTo(audience, input)
<1> DEFINE m == EventSent
           audience == {p \in Accepting : connected[p] /\ Awaited(p, m)}
<1>1. m \in SyncPacket /\ Broadcast(m) /\ UNCHANGED tasks /\ replay' = NoReplay
  BY EventSentType DEF ReturnAndSend, Quiet
<1>2. InputOf(m) \in Issuable /\ InputOf(m).tag = m.tag
  BY SentIsIssuable DEF InputOf
<1> HIDE DEF m
<1>3. \A f \in audience : InputOf(m).tag \in PeerEvents[f]
  BY <1>2 DEF Awaited, ShouldSyncEvent
<1>4. Waiting' = [f \in Accepting |-> IF f \in audience
                                      THEN Append(Waiting[f], InputOf(m))
                                      ELSE Waiting[f]]
  BY <1>1, WaitingBroadcast, WaitingIs
<1>5. Lossy!IssueTo(audience, InputOf(m))
  BY <1>1, <1>3, <1>4 DEF Lossy!IssueTo
<1>6. audience \in SUBSET Accepting
  OBVIOUS
<1> HIDE DEF audience
<1> QED
  BY <1>2, <1>5, <1>6

\* In a session in which everyone is connected, all of them get it.
LEMMA SendIssuesToAll ==
  ASSUME TypeOK, SourcedSender, AllPresent, ReturnAndSend
  PROVE  \E input \in Issuable : Reliable!Issue(input)
<1> DEFINE m == EventSent
           audience == {f \in Accepting : InputOf(m).tag \in PeerEvents[f]}
<1>1. m \in SyncPacket /\ Broadcast(m) /\ UNCHANGED tasks /\ replay' = NoReplay
  BY EventSentType DEF ReturnAndSend, Quiet
<1>2. /\ InputOf(m) \in Issuable /\ InputOf(m).tag = m.tag /\ m.kind = "event"
  BY SentIsIssuable DEF InputOf
<1> HIDE DEF m
<1>3. \A f \in Accepting : connected[f] /\ (f \in audience <=> Awaited(f, m))
  BY <1>2, StableConnected DEF Awaited, ShouldSyncEvent
<1>4. Waiting' = [f \in Accepting |-> IF f \in audience
                                      THEN Append(Waiting[f], InputOf(m))
                                      ELSE Waiting[f]]
  BY <1>1, <1>3, WaitingBroadcast, WaitingIs
<1>5. Reliable!Issue(InputOf(m))
  BY <1>1, <1>4 DEF Reliable!Issue, Reliable!IssueTo
<1> QED
  BY <1>2, <1>5

\* What a replay records, and for whom.
LEMMA ReplayRecord ==
  ASSUME TypeOK, SourcedPeers, OnlyAcceptedTasks, NEW p \in Peers,
         ApplyAnimationMessage(p), ~Quiet
  PROVE  LET m == Head(tasks[p])
             view == Embedded(m, proxy[p])
         IN /\ p \in Accepting /\ view \in ProxyGraphs
            /\ Waiting[p] # << >> /\ Head(Waiting[p]) = InputOf(m)
            /\ Waiting' = [Waiting EXCEPT ![p] = Tail(@)]
            /\ replay' = [to |-> p, tag |-> m.tag, vals |-> view, at |-> m.at]
<1> DEFINE m == Head(tasks[p])
<1>1. RunTask(p, "event") /\ EventApplies(p, m) /\ ReplayEvent(p, m)
  BY DEF ApplyAnimationMessage
<1>2. p \in Accepting /\ Awaited(p, m)
  BY <1>1 DEF OnlyAcceptedTasks, RunTask, Awaited, EventApplies
<1>3. Embedded(m, proxy[p]) \in ProxyGraphs
  BY EventTaskSourced
<1>4. /\ Waiting[p] # << >> /\ Head(Waiting[p]) = InputOf(m)
      /\ Waiting' = [Waiting EXCEPT ![p] = Tail(@)]
  BY <1>1, <1>2, WaitingRun
<1>5. replay' = [to |-> p, tag |-> m.tag, vals |-> Embedded(m, proxy[p]),
                 at |-> m.at]
  BY <1>1 DEF ReplayEvent
<1> QED
  BY <1>2, <1>3, <1>4, <1>5

\* The replay takes place under the GPMA state that the input was issued with.
LEMMA ReplayImplementsLossy ==
  ASSUME TypeOK, SourcedPeers, OnlyAcceptedTasks, GPMAStateAtReplay',
         NEW p \in Peers, ApplyAnimationMessage(p), ~Quiet
  PROVE  p \in Accepting /\ Lossy!Replay(p)
<1> DEFINE m == Head(tasks[p])
           view == Embedded(m, proxy[p])
<1>1. /\ p \in Accepting /\ view \in ProxyGraphs
      /\ Waiting[p] # << >> /\ Head(Waiting[p]) = InputOf(m)
      /\ Waiting' = [Waiting EXCEPT ![p] = Tail(@)]
      /\ replay' = [to |-> p, tag |-> m.tag, vals |-> view, at |-> m.at]
  BY ReplayRecord
<1> HIDE DEF m, view
<1>2. ShowsGPMAState(p, InputOf(m), view)
  BY <1>1 DEF GPMAStateAtReplay, Quiet, ShowsGPMAState, InputOf
<1>3. InputOf(m).tag = m.tag /\ InputOf(m).at = m.at
  BY DEF InputOf
<1>4. Lossy!Replay(p)
  BY <1>1, <1>2, <1>3 DEF Lossy!Replay
<1> QED
  BY <1>1, <1>4

\* While the proxies stay up, it also finds every variable that was captured.
LEMMA ReplayImplementsReliable ==
  ASSUME TypeOK, SourcedPeers, OnlyAcceptedTasks, GPMAStateAtReplay',
         ReplaySeesCapturedState', NEW p \in Peers, ApplyAnimationMessage(p), ~Quiet
  PROVE  p \in Accepting /\ Reliable!Replay(p)
<1> DEFINE m == Head(tasks[p])
           view == Embedded(m, proxy[p])
<1>1. /\ p \in Accepting /\ view \in ProxyGraphs
      /\ Waiting[p] # << >> /\ Head(Waiting[p]) = InputOf(m)
      /\ Waiting' = [Waiting EXCEPT ![p] = Tail(@)]
      /\ replay' = [to |-> p, tag |-> m.tag, vals |-> view, at |-> m.at]
  BY ReplayRecord
<1> HIDE DEF m, view
<1>2. ShowsGPMAState(p, InputOf(m), view)
  BY <1>1 DEF GPMAStateAtReplay, Quiet, ShowsGPMAState, InputOf
<1>3. \A n \in TransportedVars(p) \ InputOf(m).at.lost :
        Readable(InputOf(m).at.seen[n]) =>
          Close(TypeOf(n), view[n], InputOf(m).at.seen[n])
  BY <1>1 DEF ReplaySeesCapturedState, Quiet, InputOf
<1>4. ShowsCapture(p, InputOf(m), view)
  BY <1>2, <1>3 DEF ShowsCapture
<1>5. InputOf(m).tag = m.tag /\ InputOf(m).at = m.at
  BY DEF InputOf
<1>6. Reliable!Replay(p)
  BY <1>1, <1>4, <1>5 DEF Reliable!Replay
<1> QED
  BY <1>1, <1>6

\* An event that is not replayed, because its proxy is away, is dropped.
LEMMA MissedEventDrops ==
  ASSUME TypeOK, OnlyAcceptedTasks, NEW p \in Peers,
         ApplyAnimationMessage(p), Quiet
  PROVE  Lossy!Rest \/ (p \in Accepting /\ Lossy!Drop(p))
<1>1. RunTask(p, "event") /\ p \in Accepting /\ replay' = NoReplay
  BY DEF ApplyAnimationMessage, RunTask, OnlyAcceptedTasks, Quiet
<1>2. CASE Awaited(p, Head(tasks[p]))
  <2>1. Waiting[p] # << >> /\ Waiting' = [Waiting EXCEPT ![p] = Tail(@)]
    BY <1>1, <1>2, WaitingRun
  <2> QED
    BY <1>1, <2>1 DEF Lossy!Drop
<1>3. CASE ~Awaited(p, Head(tasks[p]))
  <2>1. UNCHANGED Waiting
    BY <1>1, <1>3, WaitingRun
  <2> QED
    BY <1>1, <2>1 DEF Lossy!Rest
<1> QED
  BY <1>2, <1>3

LEMMA LeaveDrops ==
  ASSUME TypeOK, NEW p \in Peers, Leave(p)
  PROVE  Lossy!Rest \/ (p \in Accepting /\ Lossy!Drop(p))
<1>1. replay' = NoReplay
  BY DEF Leave, Quiet
<1>2. CASE UNCHANGED Waiting
  BY <1>1, <1>2 DEF Lossy!Rest
<1>3. CASE /\ p \in Accepting /\ Waiting[p] # << >>
           /\ \E k \in 0..(Len(Waiting[p]) - 1) :
                Waiting' = [Waiting EXCEPT ![p] = SubSeq(@, 1, k)]
  BY <1>1, <1>3 DEF Lossy!Drop
<1> QED
  BY <1>2, <1>3, WaitingLeft

\* What InputReplay says of what waits holds at the start.
LEMMA MappedInit == Init => Waiting = [p \in Accepting |-> << >>] /\ replay = NoReplay
<1> SUFFICES ASSUME Init
             PROVE  Waiting = [p \in Accepting |-> << >>] /\ replay = NoReplay
  OBVIOUS
<1>1. ASSUME NEW p \in Accepting PROVE Waiting[p] = << >>
  <2>1. Pending(p) = << >>
    BY AcceptingPeers DEF Init, Pending
  <2> QED
    BY <2>1, InputsEmpty, WaitingAt
<1> QED
  BY <1>1, WaitingIs DEF Init

SourceInv == EmbeddedInv /\ SourcedSender /\ SourcedPeers /\ OnlyAcceptedTasks

LEMMA SourceInvInit == Init => SourceInv
<1> SUFFICES ASSUME Init PROVE SourceInv
  OBVIOUS
<1>1. TypeOK /\ HookEmbedsCapture /\ GPMAStateAtReplay
  BY InitType
  DEF Init, HookEmbedsCapture, EmbedsSeen, GPMAStateAtReplay, IdleHook
<1>2. EmbeddedInv
  BY <1>1 DEF Init, EmbeddedInv
<1> QED
  BY <1>2, SourcedInit DEF SourceInv

LEMMA SourceInvNext == SourceInv /\ [Next]_vars => SourceInv'
  BY EmbeddedNext, SenderSourced, PeersSourced, AcceptedTasksNext
  DEF SourceInv, EmbeddedInv

LEMMA StepImplementsLossy ==
  SourceInv /\ [Next]_vars => [Lossy!Lossily]_(Lossy!vars)
<1> SUFFICES ASSUME SourceInv, [Next]_vars
             PROVE  Lossy!Lossily \/ UNCHANGED <<Waiting, replay>>
  BY DEF Lossy!vars
<1>1. /\ TypeOK /\ SourcedSender /\ SourcedPeers /\ OnlyAcceptedTasks
      /\ GPMAStateAtReplay'
  BY EmbeddedNext DEF SourceInv, EmbeddedInv
<1>2. CASE Quiet /\ UNCHANGED Waiting
  BY <1>2 DEF Quiet, Lossy!Lossily, Lossy!Rest
<1>3. CASE ReturnAndSend
  BY <1>1, <1>3, SendIssues DEF Lossy!Lossily
<1>4. ASSUME NEW p \in Peers, ApplyAnimationMessage(p) PROVE Lossy!Lossily
  BY <1>1, <1>4, ReplayImplementsLossy, MissedEventDrops DEF Lossy!Lossily
<1>5. ASSUME NEW p \in Peers, Leave(p) PROVE Lossy!Lossily
  BY <1>1, <1>5, LeaveDrops DEF Lossy!Lossily
<1> QED
  BY <1>1, <1>2, <1>3, <1>4, <1>5, QuietSteps

\* Whatever peers, proxies and transport do, inputs are at worst lost: every
\* step of AnimSync issues, replays or drops one that waits, in order, or none.
THEOREM ImplementsLossy == Spec => ReplaysAtMostOnce
<1>1. Init => Lossy!Init
  BY MappedInit DEF Lossy!Init
<1>2. Init => SourceInv
  BY SourceInvInit
<1>3. SourceInv /\ [Next]_vars => SourceInv'
  BY SourceInvNext
<1>4. SourceInv /\ [Next]_vars => [Lossy!Lossily]_(Lossy!vars)
  BY StepImplementsLossy
<1> QED
  BY <1>1, <1>2, <1>3, <1>4, PTL DEF Spec, ReplaysAtMostOnce, Lossy!LossySpec

-----------------------------------------------------------------------------
(* While the proxies stay up, nothing is dropped. *)

\* A session has no steps but those of the sender and of the tasks.
LEMMA NobodyLeaves ==
  ASSUME StableInv, [StableNext]_vars, NEW p \in Peers, Leave(p)
  PROVE  FALSE
<1>1. connected[p] /\ connected' = [connected EXCEPT ![p] = FALSE]
  BY DEF Leave
<1>2. UNCHANGED connected
  BY DEF StableNext, Sender, Receiver, SetLocalVariable, EnterHook,
         CaptureRule, CallOriginal, ReturnAndSend, ReturnSilently,
         Reset, OnSyncMessage, ApplyGraphVariableMessage,
         ApplyAnimationMessage, RunTask, ProxyStopOutput, vars
<1> QED
  BY <1>1, <1>2 DEF StableInv, TypeOK

\* A replay is visible: no call is taken for none.
LEMMA ReplayIsNotQuiet ==
  ASSUME TypeOK, NEW p \in Peers, RunTask(p, "event"),
         ReplayEvent(p, Head(tasks[p]))
  PROVE  ~Quiet
<1> DEFINE m == Head(tasks[p])
           view == Embedded(m, proxy[p])
<1>1. m \in EventPacket
  BY HeadType DEF RunTask, SyncPacket, VariablePacket
<1>2. view \in [Names -> Int]
  BY <1>1, EmbeddedType DEF TypeOK
<1>3. replay' = [to |-> p, tag |-> m.tag, vals |-> view, at |-> m.at]
  BY DEF ReplayEvent
<1> HIDE DEF m, view
<1>4. replay' \in Replay
  BY <1>1, <1>2, <1>3 DEF Replay, EventPacket
<1> QED
  BY <1>4, NoReplayAssumption DEF Quiet

\* An event that is not replayed is one that the peer does not follow.
LEMMA NoEventMissed ==
  ASSUME TypeOK, OnlyAcceptedTasks, AllPresent, NEW p \in Peers,
         ApplyAnimationMessage(p), Quiet
  PROVE  Reliable!Rest
<1>1. RunTask(p, "event") /\ p \in Accepting /\ replay' = NoReplay
  BY DEF ApplyAnimationMessage, RunTask, OnlyAcceptedTasks, Quiet
<1>2. ~ReplayEvent(p, Head(tasks[p]))
  BY <1>1, ReplayIsNotQuiet
<1>3. resolved[p] /\ body[p] = "ready"
  BY DEF AllPresent
<1>4. ~EventApplies(p, Head(tasks[p]))
  BY <1>2, <1>3 DEF ApplyAnimationMessage
<1>5. ~Awaited(p, Head(tasks[p]))
  BY <1>3, <1>4 DEF EventApplies, Awaited
<1>6. UNCHANGED Waiting
  BY <1>1, <1>5, WaitingRun
<1> QED
  BY <1>1, <1>6 DEF Reliable!Rest

LEMMA StepImplementsReliable ==
  StableInv /\ SourceInv /\ ReplaySeesCapturedState /\ [StableNext]_vars
    => [Reliable!Reliably]_(Reliable!vars)
<1> SUFFICES ASSUME StableInv, SourceInv, ReplaySeesCapturedState,
                    [StableNext]_vars
             PROVE  Reliable!Reliably \/ UNCHANGED <<Waiting, replay>>
  BY DEF Reliable!vars
<1>1. [Next]_vars
  BY DEF Next
<1>2. /\ TypeOK /\ SourcedSender /\ SourcedPeers /\ OnlyAcceptedTasks
      /\ AllPresent /\ GPMAStateAtReplay' /\ ReplaySeesCapturedState'
  BY <1>1, EmbeddedNext, ReplayStep DEF SourceInv, EmbeddedInv, StableInv
<1>3. CASE Quiet /\ UNCHANGED Waiting
  BY <1>3 DEF Quiet, Reliable!Reliably, Reliable!Rest
<1>4. CASE ReturnAndSend
  BY <1>2, <1>4, SendIssuesToAll DEF Reliable!Reliably
<1>5. ASSUME NEW p \in Peers, ApplyAnimationMessage(p) PROVE Reliable!Reliably
  BY <1>2, <1>5, ReplayImplementsReliable, NoEventMissed DEF Reliable!Reliably
<1>6. ASSUME NEW p \in Peers, Leave(p) PROVE FALSE
  BY <1>6, NobodyLeaves
<1> QED
  BY <1>1, <1>2, <1>3, <1>4, <1>5, <1>6, QuietSteps

\* While the proxies stay up, every input that is sent is replayed on every
\* proxy that follows it, exactly once, in the order of the sends and under
\* the captured state, for every set of peers, profile, nesting and order of
\* the transport's and the game's threads.
THEOREM ImplementsReliable == StableSpec => ReplaysReliably
<1>1. StableInit => Reliable!Init
  BY MappedInit DEF Reliable!Init, StableInit
<1>2. StableInit => SourceInv
  BY SourceInvInit DEF StableInit
<1>3. SourceInv /\ [StableNext]_vars => SourceInv'
  BY SourceInvNext DEF Next
<1>4. StableInv /\ SourceInv /\ ReplaySeesCapturedState /\ [StableNext]_vars
        => [Reliable!Reliably]_(Reliable!vars)
  BY StepImplementsReliable
<1> QED
  BY <1>1, <1>2, <1>3, <1>4, StableInvariant, ReplayFaithful, PTL
  DEF StableSpec, ReplaysReliably, Reliable!ReliableSpec

=============================================================================
