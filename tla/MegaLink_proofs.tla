----------------------------- MODULE MegaLink_proofs ----------------------------
(*****************************************************************************)
(* Proofs about the gate as a TWI slave and its masters: every answer, of    *)
(* any length, over any number of requests, keys, errors on the bus and any  *)
(* interleaving of the main loop, the interrupt handler and the masters.     *)
(*****************************************************************************)
EXTENDS MegaLinkProperties, SequenceTheorems, FiniteSetTheorems,
        WellFoundedInduction, TLAPS

-----------------------------------------------------------------------------
(***************************************************************************)
(* Packets.  A sequence of bytes is sound, for answers of these sizes, when  *)
(* it is whole packets, each of them once and in the order they were made.  *)
(***************************************************************************)
Sizes == 3..RESPONSE_MAX_LENGTH
PacketsOf(n) == (1..n) \X (1..RESPONSE_MAX_LENGTH)
AnyBytes(n) == PacketsOf(n) \cup PlainBytes

\* Whole, for these sizes of the answers.
WholeOf(b, m, sizes) ==
  \A o \in 1..m :
    /\ b[o][1] # 0 /\ o - b[o][2] >= 0 /\ (o - b[o][2]) + sizes[b[o][1]] <= m
    /\ \A j \in 1..sizes[b[o][1]] : b[(o - b[o][2]) + j] = <<b[o][1], j>>

Earlier(x, y) == x[1] < y[1] \/ (x[1] = y[1] /\ x[2] < y[2])

Sound(b, sizes) ==
  /\ WholeOf(b, Len(b), sizes)
  /\ \A i, j \in 1..Len(b) : i < j => Earlier(b[i], b[j])

\* The reader has all of a response.
Filled(s, sizes) == s # <<>> /\ s[1] = Plain(Len(s) - 1) /\ Sound(Tail(s), sizes)

\* The reader has the length of the response and k bytes of its data.
Begun(s, data, k) ==
  /\ Len(s) = k + 1 /\ k <= Len(data)
  /\ s[1] = Plain(Len(data))
  /\ \A i \in 1..k : s[i + 1] = data[i]

\* The answers of S were made before those of T.
Under(S, T) == \A x \in S, y \in T : x < y

Increasing(t) == \A i, j \in 1..Len(t) : i < j => t[i] < t[j]

LEMMA SizesFacts ==
  /\ RESPONSE_MAX_LENGTH \in Nat /\ RESPONSE_MAX_LENGTH > 3
  /\ Hello \in Sizes /\ 3 \in Sizes /\ 4 \in Sizes /\ Results \subseteq Sizes
  /\ \A n \in Sizes : n \in Nat /\ n >= 3 /\ n <= RESPONSE_MAX_LENGTH
  BY TwiAssumption DEF Sizes

-----------------------------------------------------------------------------
(***************************************************************************)
(* Bytes and what is in them.                                              *)
(***************************************************************************)
LEMMA BytesShape ==
  ASSUME NEW what, NEW n \in Nat
  PROVE  /\ Bytes(what, n) \in Seq({what} \X (1..n)) /\ Len(Bytes(what, n)) = n
         /\ \A i \in 1..n : Bytes(what, n)[i] = <<what, i>>
  BY DEF Bytes

LEMMA FunctionIsSeq ==
  ASSUME NEW S, NEW n \in Nat, NEW t \in [1..n -> S]
  PROVE  t \in Seq(S)
  OBVIOUS

LEMMA Concats ==
  ASSUME NEW S, NEW s \in Seq(S), NEW t \in Seq(S)
  PROVE  s \o t \in Seq(S) /\ Len(s \o t) = Len(s) + Len(t)
  BY ConcatProperties

LEMMA InElements ==
  ASSUME NEW S, NEW s \in Seq(S)
  PROVE  In(s) = {s[i][1] : i \in 1..Len(s)} \ {0}
  <1>1. Range(s) = {s[i] : i \in 1..Len(s)}
    BY RangeEquality
  <1> QED
    BY <1>1 DEF In

LEMMA InEmpty == In(<<>>) = {}
  BY DEF In, Range

LEMMA InConcat ==
  ASSUME NEW S, NEW s \in Seq(S), NEW t \in Seq(S)
  PROVE  In(s \o t) = In(s) \cup In(t)
  <1>1. Range(s \o t) = Range(s) \cup Range(t)
    BY RangeConcatenation
  <1> QED
    BY <1>1 DEF In

LEMMA InAppend ==
  ASSUME NEW S, NEW s \in Seq(S), NEW e \in S
  PROVE  In(Append(s, e)) = In(s) \cup ({e[1]} \ {0})
  <1>1. Append(s, e) = s \o <<e>> /\ <<e>> \in Seq(S)
    BY AppendIsConcat
  <1>2. In(<<e>>) = {e[1]} \ {0}
    BY DEF In, Range
  <1>3. In(s \o <<e>>) = In(s) \cup In(<<e>>)
    <2>1. PICK t \in Seq(S) : t = <<e>>
      BY <1>1, Zenon
    <2>2. In(s \o t) = In(s) \cup In(t)
      BY InConcat
    <2> QED
      BY <2>1, <2>2, Zenon
  <1> QED
    BY <1>1, <1>2, <1>3, Zenon

LEMMA InPackets ==
  ASSUME NEW n \in Nat, NEW s \in Seq(AnyBytes(n))
  PROVE  In(s) \subseteq 1..n
  <1>1. In(s) = {s[i][1] : i \in 1..Len(s)} \ {0}
    BY InElements
  <1>2. \A i \in 1..Len(s) : s[i][1] \in (1..n) \cup {0}
    <2> TAKE i \in 1..Len(s)
    <2>1. s[i] \in AnyBytes(n)
      BY ElementOfSeq
    <2> QED
      BY <2>1 DEF AnyBytes, PacketsOf, PlainBytes
  <1> QED
    BY <1>1, <1>2

LEMMA InBytes ==
  ASSUME NEW id \in Nat \ {0}, NEW n \in Nat \ {0}
  PROVE  In(Bytes(id, n)) = {id}
  <1> DEFINE p == Bytes(id, n)
  <1>0. n \in Nat /\ 1 \in 1..n
    OBVIOUS
  <1>1. p \in Seq({id} \X (1..n)) /\ Len(p) = n /\ \A i \in 1..n : p[i] = <<id, i>>
    BY <1>0, BytesShape
  <1> HIDE DEF p
  <1>2. In(p) = {p[i][1] : i \in 1..n} \ {0}
    BY <1>1, InElements
  <1>3. \A i \in 1..n : p[i][1] = id
    BY <1>1
  <1>4. In(p) = {id}
    BY <1>0, <1>2, <1>3
  <1> QED
    BY <1>4 DEF p

-----------------------------------------------------------------------------
(***************************************************************************)
(* Sound sequences.                                                        *)
(***************************************************************************)
LEMMA SoundEmpty == ASSUME NEW sizes PROVE Sound(<<>>, sizes)
  BY DEF Sound, WholeOf

\* Answers made later do not matter.
LEMMA SoundGrows ==
  ASSUME NEW sizes \in Seq(Sizes), NEW n \in Sizes,
         NEW b \in Seq(PacketsOf(Len(sizes))), Sound(b, sizes)
  PROVE  Sound(b, Append(sizes, n))
  <1>1. \A o \in 1..Len(b) : b[o][1] \in 1..Len(sizes)
    <2> TAKE o \in 1..Len(b)
    <2>1. b[o] \in PacketsOf(Len(sizes))
      BY ElementOfSeq
    <2> QED
      BY <2>1 DEF PacketsOf
  <1>2. \A i \in 1..Len(sizes) : Append(sizes, n)[i] = sizes[i]
    BY AppendProperties
  <1>3. \A o \in 1..Len(b) : Append(sizes, n)[b[o][1]] = sizes[b[o][1]]
    BY <1>1, <1>2
  <1> QED
    BY <1>3 DEF Sound, WholeOf

\* A packet of at least three bytes.
LEMMA SoundIsLong ==
  ASSUME NEW sizes \in Seq(Sizes), NEW b \in Seq(PacketsOf(Len(sizes))),
         Sound(b, sizes), b # <<>>
  PROVE  Len(b) >= 3
  <1>1. Len(b) \in Nat /\ 1 \in 1..Len(b)
    BY EmptySeq
  <1>2. b[1] \in PacketsOf(Len(sizes))
    BY <1>1, ElementOfSeq
  <1>3. b[1][1] \in 1..Len(sizes) /\ b[1][2] \in Nat
    BY <1>2 DEF PacketsOf
  <1>4. sizes[b[1][1]] \in Sizes
    BY <1>3, ElementOfSeq
  <1>5. 1 - b[1][2] >= 0 /\ (1 - b[1][2]) + sizes[b[1][1]] <= Len(b)
    BY <1>1 DEF Sound, WholeOf
  <1>6. RESPONSE_MAX_LENGTH \in Nat
    BY TwiAssumption
  <1>7. PICK k \in Nat, z \in Int : k = b[1][2] /\ z = sizes[b[1][1]] /\ z >= 3
    BY <1>3, <1>4, <1>6 DEF Sizes
  <1>8. 1 - k >= 0 /\ (1 - k) + z <= Len(b) /\ k \in 1..RESPONSE_MAX_LENGTH
    BY <1>2, <1>5, <1>7 DEF PacketsOf
  <1>9. k = 1
    BY <1>6, <1>7, <1>8
  <1> QED
    BY <1>1, <1>7, <1>8, <1>9

\* Say appends a packet.
LEMMA SoundSay ==
  ASSUME NEW sizes \in Seq(Sizes), NEW n \in Sizes,
         NEW b \in Seq(PacketsOf(Len(sizes))), Sound(b, sizes)
  PROVE  LET id == Len(sizes) + 1 IN
         /\ b \o Bytes(id, n) \in Seq(PacketsOf(id))
         /\ Sound(b \o Bytes(id, n), Append(sizes, n))
  <1> DEFINE id == Len(sizes) + 1
             p == Bytes(id, n)
             c == b \o p
             more == Append(sizes, n)
  <1>1. n \in Nat /\ n <= RESPONSE_MAX_LENGTH /\ n >= 3 /\ Len(sizes) \in Nat
        /\ RESPONSE_MAX_LENGTH \in Nat
    BY TwiAssumption DEF Sizes
  <1>2. p \in Seq(PacketsOf(id)) /\ Len(p) = n /\ \A i \in 1..n : p[i] = <<id, i>>
    <2>1. p \in Seq({id} \X (1..n)) /\ Len(p) = n /\ \A i \in 1..n : p[i] = <<id, i>>
      BY <1>1, BytesShape
    <2>2. {id} \X (1..n) \subseteq PacketsOf(id)
      BY <1>1 DEF PacketsOf
    <2> QED
      BY <2>1, <2>2, SeqMonotonic
  <1>3. b \in Seq(PacketsOf(id))
    <2>1. PacketsOf(Len(sizes)) \subseteq PacketsOf(id)
      BY <1>1 DEF PacketsOf
    <2> QED
      BY <2>1, SeqMonotonic
  <1>4. more[id] = n
    BY AppendProperties
  <1>5. Sound(b, more)
    BY SoundGrows
  <1> HIDE DEF p, more
  <1>6. /\ c \in Seq(PacketsOf(id)) /\ Len(c) = Len(b) + n /\ Len(b) \in Nat
        /\ \A i \in 1..Len(b) : c[i] = b[i]
        /\ \A i \in 1..n : c[Len(b) + i] = <<id, i>>
    <2>1. c \in Seq(PacketsOf(id)) /\ Len(c) = Len(b) + n /\ Len(b) \in Nat
      BY <1>2, <1>3, ConcatProperties, LenProperties
    <2>2. \A i \in 1..(Len(b) + n) : c[i] = IF i <= Len(b) THEN b[i] ELSE p[i - Len(b)]
      BY <1>2, <1>3, ConcatProperties
    <2>3. \A i \in 1..Len(b) : c[i] = b[i]
      BY <1>1, <2>1, <2>2
    <2>4. \A i \in 1..n : Len(b) + i \in 1..(Len(b) + n) /\ ~(Len(b) + i <= Len(b))
                          /\ (Len(b) + i) - Len(b) = i
      BY <1>1, <2>1
    <2>5. \A i \in 1..n : c[Len(b) + i] = p[i]
      BY <2>2, <2>4
    <2> QED
      BY <1>2, <2>1, <2>3, <2>5
  <1>7. \A o \in 1..Len(b) : b[o][1] \in 1..Len(sizes) /\ b[o][2] \in 1..RESPONSE_MAX_LENGTH
    <2> TAKE o \in 1..Len(b)
    <2>1. b[o] \in PacketsOf(Len(sizes))
      BY ElementOfSeq
    <2> QED
      BY <2>1 DEF PacketsOf
  <1> HIDE DEF c
  <1>8. ASSUME NEW o \in 1..Len(c)
        PROVE  /\ c[o][1] # 0 /\ o - c[o][2] >= 0 /\ (o - c[o][2]) + more[c[o][1]] <= Len(c)
               /\ \A j \in 1..more[c[o][1]] : c[(o - c[o][2]) + j] = <<c[o][1], j>>
    <2>1. CASE o \in 1..Len(b)
      <3>1. c[o] = b[o]
        BY <1>6, <2>1
      <3>2. /\ b[o][1] # 0 /\ o - b[o][2] >= 0 /\ (o - b[o][2]) + more[b[o][1]] <= Len(b)
            /\ \A j \in 1..more[b[o][1]] : b[(o - b[o][2]) + j] = <<b[o][1], j>>
        BY <1>5, <2>1 DEF Sound, WholeOf
      <3>3. more[b[o][1]] \in Nat /\ b[o][2] \in Nat
        <4>1. b[o][1] \in 1..Len(sizes)
          BY <1>7, <2>1
        <4>2. more[b[o][1]] = sizes[b[o][1]] /\ sizes[b[o][1]] \in Sizes
          BY <4>1, AppendProperties, ElementOfSeq DEF more
        <4> QED
          BY <1>1, <1>7, <2>1, <4>2 DEF Sizes
      <3>4. ASSUME NEW j \in 1..more[b[o][1]]
            PROVE  c[(o - b[o][2]) + j] = <<b[o][1], j>>
        <4>1. o - b[o][2] \in Int /\ Len(b) \in Nat /\ j \in Nat
          BY <1>6, <3>3
        <4>2. PICK f \in Int, m \in Nat : f = o - b[o][2] /\ m = more[b[o][1]]
          BY <3>3, <4>1
        <4>3. f >= 0 /\ f + m <= Len(b) /\ j \in 1..m
          BY <3>2, <4>2
        <4>4. f + j \in 1..Len(b)
          BY <4>1, <4>3
        <4> QED
          BY <1>6, <3>2, <4>2, <4>4
      <3>5. (o - b[o][2]) + more[b[o][1]] <= Len(c)
        <4>1. o - b[o][2] \in Int /\ Len(b) \in Nat
          BY <1>6, <3>3
        <4>2. \A f, m \in Int : f + m <= Len(b) => f + m <= Len(b) + n
          BY <1>1, <4>1
        <4> QED
          BY <1>6, <3>2, <3>3, <4>1, <4>2
      <3> QED
        BY <3>1, <3>2, <3>4, <3>5
    <2>2. CASE o \notin 1..Len(b)
      <3>1. PICK i \in 1..n : o = Len(b) + i
        <4>1. o - Len(b) \in 1..n /\ o = Len(b) + (o - Len(b))
          BY <1>1, <1>6, <2>2
        <4> QED
          BY <4>1
      <3>2. c[o] = <<id, i>> /\ o - i = Len(b)
        BY <1>6, <3>1
      <3>3. c[o][1] = id /\ c[o][2] = i /\ id # 0 /\ more[c[o][1]] = n
        BY <1>1, <1>4, <3>2
      <3>4. o - c[o][2] = Len(b) /\ Len(b) >= 0 /\ Len(b) + n <= Len(c)
        BY <1>1, <1>6, <3>2, <3>3
      <3> QED
        BY <1>6, <3>3, <3>4
    <2> QED
      BY <2>1, <2>2
  <1>9. ASSUME NEW i \in 1..Len(c), NEW j \in 1..Len(c), i < j
        PROVE  Earlier(c[i], c[j])
    <2>1. CASE j \in 1..Len(b)
      <3>1. i \in 1..Len(b)
        BY <1>6, <1>9, <2>1
      <3> QED
        BY <1>5, <1>6, <1>9, <2>1, <3>1 DEF Sound
    <2>2. CASE j \notin 1..Len(b)
      <3>1. PICK l \in 1..n : j = Len(b) + l
        <4>1. j - Len(b) \in 1..n /\ j = Len(b) + (j - Len(b))
          BY <1>1, <1>6, <2>2
        <4> QED
          BY <4>1
      <3>2. c[j] = <<id, l>>
        BY <1>6, <3>1
      <3>3. CASE i \in 1..Len(b)
        <4>1. c[i] = b[i] /\ b[i][1] < id
          BY <1>1, <1>6, <1>7, <3>3
        <4> QED
          BY <3>2, <4>1 DEF Earlier
      <3>4. CASE i \notin 1..Len(b)
        <4>1. PICK k \in 1..n : i = Len(b) + k
          <5>1. i - Len(b) \in 1..n /\ i = Len(b) + (i - Len(b))
            BY <1>1, <1>6, <3>4
          <5> QED
            BY <5>1
        <4>2. c[i] = <<id, k>> /\ k < l
          BY <1>6, <1>9, <3>1, <4>1
        <4> QED
          BY <3>2, <4>2 DEF Earlier
      <3> QED
        BY <3>3, <3>4
    <2> QED
      BY <2>1, <2>2
  <1>10. Sound(c, more)
    BY <1>8, <1>9 DEF Sound, WholeOf
  <1> QED
    BY <1>6, <1>10 DEF c, p, more

-----------------------------------------------------------------------------
(***************************************************************************)
(* ParseResponse.                                                          *)
(***************************************************************************)
\* Where packets begin.
Firsts(b, m) == {o \in 1..m : b[o][2] = 1}

\* Numbered one by one, their places in order.
LEMMA Ranks ==
  ASSUME NEW b, NEW m \in Nat
  PROVE  /\ Cardinality(Firsts(b, m)) \in Nat
         /\ \A o, q \in Firsts(b, m) :
              o < q => Cardinality(Firsts(b, o)) < Cardinality(Firsts(b, q))
         /\ \A o \in Firsts(b, m) : Cardinality(Firsts(b, o)) \in Nat
         /\ \A i \in 1..Cardinality(Firsts(b, m)) :
              \E o \in Firsts(b, m) : Cardinality(Firsts(b, o)) = i
  <1> DEFINE P == Firsts(b, m)
             rank(o) == Cardinality(Firsts(b, o))
             c == Cardinality(P)
  <1>1. \A k \in Nat : IsFiniteSet(Firsts(b, k)) /\ Cardinality(Firsts(b, k)) \in Nat
    <2> TAKE k \in Nat
    <2>1. IsFiniteSet(1..k) /\ Firsts(b, k) \in SUBSET (1..k)
      BY FS_Interval DEF Firsts
    <2>2. IsFiniteSet(Firsts(b, k))
      BY <2>1, FS_Subset
    <2> QED
      BY <2>2, FS_CardinalityType
  <1>2. \A o \in P : o \in 1..m /\ o \in Nat /\ o \in Firsts(b, o)
    BY DEF Firsts
  <1>3. ASSUME NEW o \in P, NEW q \in P, o < q PROVE rank(o) < rank(q)
    <2>1. Firsts(b, o) \in SUBSET Firsts(b, q)
      BY <1>2, <1>3 DEF Firsts
    <2>2. q \in Firsts(b, q) /\ q \notin Firsts(b, o)
      BY <1>2, <1>3 DEF Firsts
    <2>3. /\ IsFiniteSet(Firsts(b, q))
          /\ Cardinality(Firsts(b, o)) \in Nat /\ Cardinality(Firsts(b, q)) \in Nat
      BY <1>1, <1>2
    <2>4. /\ Cardinality(Firsts(b, o)) <= Cardinality(Firsts(b, q))
          /\ Cardinality(Firsts(b, o)) # Cardinality(Firsts(b, q))
      BY <2>1, <2>2, <2>3, FS_Subset
    <2> QED
      BY <2>3, <2>4
  <1>4. ASSUME NEW o \in P PROVE rank(o) \in 1..c
    <2>1. Firsts(b, o) \in SUBSET P /\ IsFiniteSet(P) /\ c \in Nat
      BY <1>1, <1>2 DEF Firsts
    <2>2. rank(o) <= c
      BY <2>1, FS_Subset
    <2>3. rank(o) \in Nat /\ rank(o) # 0
      BY <1>1, <1>2, FS_EmptySet
    <2> QED
      BY <2>1, <2>2, <2>3
  <1>5. c \in Nat
    BY <1>1
  <1> DEFINE f == [o \in P |-> rank(o)]
  <1>6. f \in Surjection(P, 1..c)
    <2>1. f \in [P -> 1..c]
      BY <1>4
    <2>2. ASSUME NEW o \in P, NEW q \in P, f[o] = f[q] PROVE o = q
      <3>1. rank(o) = rank(q) /\ rank(o) \in Nat /\ rank(q) \in Nat
        BY <1>1, <1>2, <2>2
      <3>2. ~(o < q) /\ ~(q < o)
        BY <1>3, <3>1
      <3> QED
        BY <1>2, <3>2
    <2>3. f \in Injection(P, 1..c)
      BY <2>1, <2>2 DEF Injection, IsInjective
    <2>4. IsFiniteSet(1..c) /\ Cardinality(1..c) = c
      BY <1>5, FS_Interval
    <2> HIDE DEF f
    <2> QED
      BY <2>3, <2>4, FS_Injection
  <1>7. ASSUME NEW i \in 1..c PROVE \E o \in P : rank(o) = i
    BY <1>6 DEF Surjection
  <1> QED
    BY <1>1, <1>2, <1>3, <1>5, <1>7

\* The numbers of the packets that begin in the first m bytes.
Listed(b, m) ==
  [i \in 1..Cardinality(Firsts(b, m)) |->
     b[CHOOSE o \in 1..m : b[o][2] = 1 /\ Cardinality(Firsts(b, o)) = i][1]]

LEMMA ListedPackets ==
  ASSUME NEW b, NEW m \in Nat
  PROVE  LET t == Listed(b, m)  c == Cardinality(Firsts(b, m)) IN
         /\ c \in Nat /\ DOMAIN t = 1..c
         /\ \A i \in 1..c :
              \E o \in Firsts(b, m) : t[i] = b[o][1] /\ Cardinality(Firsts(b, o)) = i
         /\ \A o \in Firsts(b, m) : \E i \in 1..c : t[i] = b[o][1]
  <1> DEFINE t == Listed(b, m)
             c == Cardinality(Firsts(b, m))
             rank(o) == Cardinality(Firsts(b, o))
             At(i) == CHOOSE o \in 1..m : b[o][2] = 1 /\ Cardinality(Firsts(b, o)) = i
  <1>1. c \in Nat /\ DOMAIN t = 1..c
    BY Ranks DEF Listed
  <1>2. ASSUME NEW i \in 1..c
        PROVE  At(i) \in Firsts(b, m) /\ rank(At(i)) = i /\ t[i] = b[At(i)][1]
    <2>1. \E o \in 1..m : b[o][2] = 1 /\ Cardinality(Firsts(b, o)) = i
      <3>1. PICK o \in Firsts(b, m) : Cardinality(Firsts(b, o)) = i
        BY Ranks
      <3>2. o \in 1..m /\ b[o][2] = 1
        BY DEF Firsts
      <3> QED
        BY <3>1, <3>2
    <2>2. At(i) \in 1..m /\ b[At(i)][2] = 1 /\ rank(At(i)) = i
      BY <2>1
    <2>3. t[i] = b[At(i)][1]
      BY DEF Listed
    <2> QED
      BY <2>2, <2>3 DEF Firsts
  <1>3. ASSUME NEW o \in Firsts(b, m) PROVE \E i \in 1..c : t[i] = b[o][1]
    <2>1. rank(o) \in 1..c
      <3>1. Firsts(b, o) \in SUBSET Firsts(b, m) /\ o \in Firsts(b, o) /\ o \in Nat
        BY DEF Firsts
      <3>2. IsFiniteSet(1..m) /\ Firsts(b, m) \in SUBSET (1..m)
        BY FS_Interval DEF Firsts
      <3>3. IsFiniteSet(Firsts(b, m)) /\ IsFiniteSet(Firsts(b, o)) /\ rank(o) <= c
        BY <3>1, <3>2, FS_Subset
      <3>4. rank(o) # 0 /\ rank(o) \in Nat
        BY <3>1, <3>3, FS_EmptySet, FS_CardinalityType
      <3> QED
        BY <1>1, <3>3, <3>4
    <2>2. PICK i \in 1..c : i = rank(o)
      BY <2>1
    <2>3. At(i) \in Firsts(b, m) /\ rank(At(i)) = i /\ t[i] = b[At(i)][1]
      BY <1>2
    <2>4. At(i) = o
      <3>1. rank(At(i)) = rank(o) /\ rank(o) \in Nat
        BY <2>1, <2>2, <2>3
      <3>2. ~(At(i) < o) /\ ~(o < At(i))
        BY <2>3, <3>1, Ranks
      <3>3. o \in Nat /\ At(i) \in Nat
        BY <2>3 DEF Firsts
      <3> QED
        BY <3>2, <3>3
    <2> QED
      BY <2>3, <2>4
  <1> HIDE DEF At, c, t
  <1>4. \A i \in 1..c :
          \E o \in Firsts(b, m) : t[i] = b[o][1] /\ Cardinality(Firsts(b, o)) = i
    BY <1>2
  <1> QED
    BY <1>1, <1>3, <1>4 DEF c, t

\* The longest beginning of b that is whole packets.
LEMMA LongestWhole ==
  ASSUME NEW b, NEW n \in Nat
  PROVE  \E m \in 0..n : Whole(b, m) /\ \A l \in (m + 1)..n : ~Whole(b, l)
  <1> DEFINE T == {n - k : k \in {k \in 0..n : Whole(b, k)}}
  <1>1. Whole(b, 0)
    BY DEF Whole
  <1>2. T \subseteq Nat /\ T # {}
    <2>1. 0 \in {k \in 0..n : Whole(b, k)}
      BY <1>1
    <2> QED
      BY <2>1
  <1>3. PICK d \in T : \A y \in T : ~(<<y, d>> \in OpToRel(<, Nat))
    BY <1>2, WFMin, NatLessThanWellFounded, Zenon
  <1>4. ASSUME NEW y \in T PROVE ~(y < d)
    BY <1>2, <1>3, Zenon DEF OpToRel
  <1>5. PICK m \in 0..n : Whole(b, m) /\ d = n - m
    OBVIOUS
  <1>6. ASSUME NEW l \in (m + 1)..n, Whole(b, l) PROVE FALSE
    <2>1. l \in 0..n /\ n - l < d
      BY <1>5
    <2>2. n - l \in T
      BY <1>6, <2>1
    <2> QED
      BY <1>4, <2>1, <2>2
  <1> QED
    BY <1>5, <1>6

\* The bytes behind the length, and how many of them are whole packets.
Data(s) == SubSeq(s, 2, Len(s))
Longest(b) ==
  CHOOSE k \in 0..Len(b) : Whole(b, k) /\ \A l \in (k + 1)..Len(b) : ~Whole(b, l)

LEMMA ParsedIs ==
  ASSUME NEW s
  PROVE  /\ Parsed(s) \in {<<>>, Listed(Data(s), Longest(Data(s)))}
         /\ s # <<>> /\ Head(s)[1] = 0 /\ s[1][2] # 0
              => Parsed(s) = Listed(Data(s), Longest(Data(s)))
         /\ s # <<>> /\ s[1][2] = 0 => Parsed(s) = <<>>
  BY DEF Parsed, Listed, Firsts, Data, Longest

LEMMA DataShape ==
  ASSUME NEW S, NEW s \in Seq(S), s # <<>>
  PROVE  /\ Data(s) = Tail(s) /\ Data(s) \in Seq(S)
         /\ Len(Data(s)) \in Nat /\ Len(Data(s)) = Len(s) - 1
         /\ \A i \in 1..Len(Data(s)) : Data(s)[i] = s[i + 1]
  <1>1. Tail(s) = SubSeq(s, 2, Len(s))
    BY TailIsSubSeq
  <1>2. /\ Tail(s) \in Seq(S) /\ Len(Tail(s)) = Len(s) - 1
        /\ \A i \in 1..Len(Tail(s)) : Tail(s)[i] = s[i + 1]
    BY HeadTailProperties
  <1>3. Len(Tail(s)) \in Nat
    BY <1>2, LenProperties
  <1> QED
    BY <1>1, <1>2, <1>3 DEF Data

\* Whatever the bytes are, run and Do only ever see numbers of answers.
LEMMA ParsedType ==
  ASSUME NEW s \in Seq(AnyBytes(Len(made))), made \in Seq(Sizes)
  PROVE  Parsed(s) \in Seq(1..Len(made))
  <1> DEFINE b == Data(s)
             m == Longest(b)
             n == Len(made)
  <1>1. CASE s = <<>> \/ Parsed(s) = <<>>
    <2>1. Parsed(s) = <<>>
      BY <1>1 DEF Parsed
    <2> QED
      BY <2>1, EmptySeq
  <1>2. CASE s # <<>> /\ Parsed(s) # <<>>
    <2>1. Parsed(s) = Listed(b, m)
      BY <1>2, ParsedIs
    <2>2. b \in Seq(AnyBytes(n)) /\ Len(b) \in Nat
      BY <1>2, DataShape
    <2>3. m \in 0..Len(b) /\ Whole(b, m)
      BY <2>2, LongestWhole DEF Longest
    <2>4. \A o \in Firsts(b, m) : b[o][1] \in 1..n
      <3> TAKE o \in Firsts(b, m)
      <3>1. o \in 1..m /\ o \in 1..Len(b)
        BY <2>2, <2>3 DEF Firsts
      <3>2. b[o] \in AnyBytes(n)
        BY <2>2, <3>1, ElementOfSeq
      <3>3. b[o][1] # 0
        BY <2>3, <3>1 DEF Whole
      <3> QED
        BY <3>2, <3>3 DEF AnyBytes, PacketsOf, PlainBytes
    <2> HIDE DEF b, m, n
    <2>5. m \in Nat
      BY <2>2, <2>3
    <2>6. LET t == Listed(b, m)  c == Cardinality(Firsts(b, m)) IN
          /\ c \in Nat /\ DOMAIN t = 1..c
          /\ \A i \in 1..c : t[i] \in 1..n
      BY <2>4, <2>5, ListedPackets
    <2>7. Listed(b, m) \in Seq(1..n)
      <3> DEFINE t == Listed(b, m)
                 c == Cardinality(Firsts(b, m))
      <3>1. t = [i \in 1..c |-> t[i]]
        BY DEF Listed
      <3> HIDE DEF t, c
      <3>2. c \in Nat /\ \A i \in 1..c : t[i] \in 1..n
        BY <2>6 DEF t, c
      <3>3. t \in [1..c -> 1..n]
        BY <3>1, <3>2
      <3>4. t \in Seq(1..n)
        BY <3>2, <3>3, FunctionIsSeq
      <3> QED
        BY <3>4 DEF t
    <2> QED
      BY <2>1, <2>7 DEF n
  <1> QED
    BY <1>1, <1>2

\* A whole response gives all its packets, in the order they were made.
LEMMA ParsedFilled ==
  ASSUME made \in Seq(Sizes), NEW s \in Seq(AnyBytes(Len(made))), Filled(s, made)
  PROVE  /\ Parsed(s) \in Seq(1..Len(made))
         /\ Increasing(Parsed(s))
         /\ {Parsed(s)[i] : i \in 1..Len(Parsed(s))} = In(s)
  <1> DEFINE b == Tail(s)
             n == Len(made)
  <1>1. /\ s # <<>> /\ s[1] = Plain(Len(s) - 1) /\ Sound(b, made)
        /\ Len(s) \in Nat /\ Head(s) = s[1]
    BY DEF Filled
  <1>2. /\ Data(s) = b /\ b \in Seq(AnyBytes(n))
        /\ Len(b) \in Nat /\ Len(b) = Len(s) - 1
        /\ \A i \in 1..Len(b) : b[i] = s[i + 1]
    BY <1>1, DataShape
  <1>3. In(s) = {b[o][1] : o \in 1..Len(b)} \ {0}
    <2>1. In(s) = {s[i][1] : i \in 1..Len(s)} \ {0}
      BY InElements
    <2>2. s[1][1] = 0
      BY <1>1 DEF Plain
    <2>3. \A i \in 1..Len(s) : i # 1 => i - 1 \in 1..Len(b) /\ b[i - 1] = s[i]
      BY <1>1, <1>2
    <2>4. \A i \in 1..Len(b) : i + 1 \in 1..Len(s) /\ b[i] = s[i + 1]
      BY <1>1, <1>2
    <2> QED
      BY <2>1, <2>2, <2>3, <2>4
  <1>4. \A o \in 1..Len(b) : b[o] \in PacketsOf(n) /\ b[o][1] # 0 /\ b[o][1] \in 1..n
    <2> TAKE o \in 1..Len(b)
    <2>1. b[o] \in AnyBytes(n)
      BY <1>2, ElementOfSeq
    <2>2. b[o][1] # 0
      BY <1>1 DEF Sound, WholeOf
    <2> QED
      BY <2>1, <2>2 DEF AnyBytes, PacketsOf, PlainBytes
  <1>5. CASE Len(b) = 0
    <2>1. Parsed(s) = <<>> /\ In(s) = {}
      BY <1>1, <1>2, <1>3, <1>5, ParsedIs DEF Plain
    <2>2. Len(Parsed(s)) = 0
      BY <2>1, EmptySeq
    <2> QED
      BY <2>1, <2>2, EmptySeq DEF Increasing
  <1>6. CASE Len(b) # 0
    <2>1. Whole(b, Len(b))
      BY <1>1 DEF Sound, WholeOf, Whole
    <2>2. Longest(b) = Len(b)
      <3>1. /\ Longest(b) \in 0..Len(b)
            /\ \A l \in (Longest(b) + 1)..Len(b) : ~Whole(b, l)
        BY <1>2, LongestWhole DEF Longest
      <3>2. ~(Longest(b) < Len(b))
        BY <1>2, <2>1, <3>1
      <3> QED
        BY <1>2, <3>1, <3>2
    <2>3. Parsed(s) = Listed(b, Len(b))
      <3>1. Head(s)[1] = 0 /\ s[1][2] = Len(b)
        BY <1>1, <1>2 DEF Plain
      <3>2. Parsed(s) = Listed(Data(s), Longest(Data(s)))
        BY <1>1, <1>6, <3>1, ParsedIs
      <3> QED
        BY <1>2, <2>2, <3>2
    <2> DEFINE t == Listed(b, Len(b))
               c == Cardinality(Firsts(b, Len(b)))
    <2>4. /\ c \in Nat /\ DOMAIN t = 1..c
          /\ \A i \in 1..c :
               \E o \in Firsts(b, Len(b)) : t[i] = b[o][1] /\ Cardinality(Firsts(b, o)) = i
          /\ \A o \in Firsts(b, Len(b)) : \E i \in 1..c : t[i] = b[o][1]
      BY <1>2, ListedPackets
    <2>5. t \in Seq(1..n) /\ Len(t) = c
      <3>1. t \in Seq(1..n)
        BY <2>3, ParsedType
      <3> QED
        BY <2>4, <3>1
    <2> HIDE DEF t, c
    <2>6. ASSUME NEW i \in 1..c, NEW j \in 1..c, i < j PROVE t[i] < t[j]
      <3>1. PICK o \in Firsts(b, Len(b)) :
                   t[i] = b[o][1] /\ Cardinality(Firsts(b, o)) = i
        BY <2>4
      <3>2. PICK q \in Firsts(b, Len(b)) :
                   t[j] = b[q][1] /\ Cardinality(Firsts(b, q)) = j
        BY <2>4
      <3>3. /\ o \in 1..Len(b) /\ b[o][2] = 1 /\ q \in 1..Len(b) /\ b[q][2] = 1
        BY DEF Firsts
      <3>4. o < q
        <4>1. ~(q < o) /\ o # q
          BY <1>2, <2>6, <3>1, <3>2, Ranks
        <4> QED
          BY <3>3, <4>1
      <3>5. Earlier(b[o], b[q])
        BY <1>1, <3>3, <3>4 DEF Sound
      <3> QED
        BY <3>1, <3>2, <3>3, <3>5 DEF Earlier
    <2>7. \A o \in 1..Len(b) : \E q \in Firsts(b, Len(b)) : b[q][1] = b[o][1]
      <3> TAKE o \in 1..Len(b)
      <3>1. /\ o - b[o][2] >= 0 /\ (o - b[o][2]) + made[b[o][1]] <= Len(b)
            /\ \A j \in 1..made[b[o][1]] : b[(o - b[o][2]) + j] = <<b[o][1], j>>
        BY <1>1 DEF Sound, WholeOf
      <3>2. b[o][2] \in Nat /\ made[b[o][1]] \in Sizes
        BY <1>4, ElementOfSeq DEF PacketsOf
      <3>3. made[b[o][1]] \in Nat /\ made[b[o][1]] >= 3
        BY <3>2, SizesFacts
      <3>4. PICK f \in Int, z \in Nat : f = o - b[o][2] /\ z = made[b[o][1]]
        BY <3>2, <3>3
      <3>5. f >= 0 /\ f + z <= Len(b) /\ z >= 3 /\ 1 \in 1..z
        <4>1. f >= 0 /\ f + z <= Len(b) /\ z >= 3
          BY <3>1, <3>3, <3>4, Zenon
        <4>2. z \in Nat /\ z >= 3
          BY <4>1
        <4>3. 1 \in 1..z
          BY <4>2
        <4> QED
          BY <4>1, <4>3, Zenon
      <3>6. f + 1 \in 1..Len(b)
        BY <1>2, <3>5
      <3>7. b[f + 1] = <<b[o][1], 1>>
        BY <3>1, <3>4, <3>5
      <3>8. f + 1 \in Firsts(b, Len(b)) /\ b[f + 1][1] = b[o][1]
        BY <3>6, <3>7 DEF Firsts
      <3> QED
        BY <3>8
    <2>8. {t[i] : i \in 1..c} = {b[o][1] : o \in 1..Len(b)}
      <3>1. Firsts(b, Len(b)) \subseteq 1..Len(b)
        BY DEF Firsts
      <3>2. \A i \in 1..c : t[i] \in {b[o][1] : o \in 1..Len(b)}
        BY <2>4, <3>1
      <3>3. \A o \in 1..Len(b) : b[o][1] \in {t[i] : i \in 1..c}
        <4> TAKE o \in 1..Len(b)
        <4>1. PICK q \in Firsts(b, Len(b)) : b[q][1] = b[o][1]
          BY <2>7
        <4>2. PICK i \in 1..c : t[i] = b[q][1]
          BY <2>4
        <4> QED
          BY <4>1, <4>2
      <3> QED
        BY <3>2, <3>3
    <2>9. {t[i] : i \in 1..c} = In(s)
      BY <1>3, <1>4, <2>8
    <2> QED
      BY <2>3, <2>5, <2>6, <2>9 DEF Increasing, t
  <1> QED
    BY <1>2, <1>5, <1>6

-----------------------------------------------------------------------------
(***************************************************************************)
(* Types, and which part of the gate and of the masters a transfer is.     *)
(***************************************************************************)
CommandBytes == (Requests \cup {"key"}) \X (1..3)

GateTypes ==
  /\ pc \in {"pass", "command", "clear", "swap", "mdb"}
  /\ twi_idle \in BOOLEAN /\ TWEA \in BOOLEAN /\ due \in BOOLEAN /\ pin \in BOOLEAN
  /\ made \in Seq(Sizes)
  /\ twi_in \in Seq(CommandBytes) /\ Len(twi_in) <= 3
  /\ master_out \in Seq(PacketsOf(Len(made))) /\ Len(master_out) <= RESPONSE_MAX_LENGTH
  /\ twi_out \in [data : Seq(PacketsOf(Len(made))), used : 0..RESPONSE_MAX_LENGTH]
  /\ Len(twi_out.data) <= RESPONSE_MAX_LENGTH
  /\ TWDR \in AnyBytes(Len(made))
  /\ edges \in Nat /\ burst \in 0..Burst

ClientTypes ==
  /\ bus \in [by : {"none", "do", "run", "key"}, op : {"none", "write", "read"},
              n : 0..(RESPONSE_MAX_LENGTH + 1), on : BOOLEAN]
  /\ rs \in Seq(AnyBytes(Len(made)))
  /\ doPc \in {"idle", "write", "sleep", "read"} /\ request \in Requests
  /\ runPc \in {"watch", "read"}
  /\ runBuf \in Seq(1..Len(made)) /\ taken \in Seq(1..Len(made))

Reading == bus.op = "read" /\ bus.on
Writing == bus.op = "write" /\ bus.on

\* Both ends of a transfer know of it.  An error on the bus is for ever.
Transfer ==
  /\ \/ bus = Free
     \/ bus.op = "write" /\ bus.by \in {"do", "key"} /\ bus.n <= Len(Message)
     \/ bus.op = "read" /\ bus.by \in {"do", "run"}
  /\ bus.by = "do" => doPc = bus.op
  /\ bus.by = "run" => runPc = "read"
  /\ Reading => bus.n <= RESPONSE_MAX_LENGTH /\ ~twi_idle
  /\ Writing => Len(twi_in) <= bus.n /\ TWEA /\ ~twi_idle
  /\ bus.op # "read" => rs = <<>>
  /\ "bus error" \in mishaps => ~TWEA /\ ~bus.on
  /\ Broken => "bus error" \in mishaps

Base == GateTypes /\ ClientTypes /\ Transfer

LEMMA MessageShape ==
  ASSUME ClientTypes
  PROVE  /\ Len(Message) = (IF bus.by = "do" THEN 3 ELSE 1)
         /\ \A i \in 1..Len(Message) : Message[i] \in CommandBytes
  <1>1. CASE bus.by = "do"
    <2>1. Message = Bytes(request, 3) /\ request \in Requests
      BY <1>1 DEF Message, ClientTypes
    <2>2. Len(Message) = 3 /\ \A i \in 1..3 : Message[i] = <<request, i>>
      BY <2>1, BytesShape
    <2>3. \A i \in 1..3 : <<request, i>> \in CommandBytes
      BY <2>1 DEF CommandBytes
    <2> QED
      BY <1>1, <2>2, <2>3
  <1>2. CASE bus.by # "do"
    <2>1. Message = Bytes("key", 1)
      BY <1>2 DEF Message
    <2>2. Len(Message) = 1 /\ \A i \in 1..1 : Message[i] = <<"key", i>>
      BY <2>1, BytesShape
    <2>3. \A i \in 1..1 : <<"key", i>> \in CommandBytes
      BY DEF CommandBytes
    <2> QED
      BY <1>2, <2>2, <2>3
  <1> QED
    BY <1>1, <1>2

\* More answers, more bytes.
LEMMA MorePackets ==
  ASSUME NEW n \in Nat
  PROVE  /\ 1..n \subseteq 1..(n + 1)
         /\ PacketsOf(n) \subseteq PacketsOf(n + 1) /\ AnyBytes(n) \subseteq AnyBytes(n + 1)
         /\ \A s \in Seq(PacketsOf(n)) : s \in Seq(PacketsOf(n + 1))
         /\ \A s \in Seq(AnyBytes(n)) : s \in Seq(AnyBytes(n + 1))
         /\ \A s \in Seq(1..n) : s \in Seq(1..(n + 1))
  <1>1. 1..n \subseteq 1..(n + 1)
    OBVIOUS
  <1>2. PacketsOf(n) \subseteq PacketsOf(n + 1) /\ AnyBytes(n) \subseteq AnyBytes(n + 1)
    BY <1>1 DEF PacketsOf, AnyBytes
  <1> QED
    BY <1>1, <1>2, SeqMonotonic

LEMMA SayTypes ==
  ASSUME GateTypes, NEW n \in Sizes, Say(n)
  PROVE  /\ made' \in Seq(Sizes) /\ Len(made) \in Nat /\ Len(made') = Len(made) + 1
         /\ master_out' \in Seq(PacketsOf(Len(made'))) /\ Len(master_out') <= RESPONSE_MAX_LENGTH
         /\ twi_out' \in [data : Seq(PacketsOf(Len(made'))), used : 0..RESPONSE_MAX_LENGTH]
         /\ Len(twi_out'.data) <= RESPONSE_MAX_LENGTH
         /\ mishaps' \in {mishaps, mishaps \cup {"overflow"}}
  <1> DEFINE id == Len(made) + 1
  <1>1. Len(made) \in Nat /\ made \in Seq(Sizes)
    BY LenProperties DEF GateTypes
  <1>2. ASSUME NEW k \in Sizes, made' = Append(made, k)
        PROVE  made' \in Seq(Sizes) /\ Len(made') = id
               /\ Bytes(id, k) \in Seq(PacketsOf(id)) /\ Len(Bytes(id, k)) = k
    <2>1. made' \in Seq(Sizes) /\ Len(made') = id
      BY <1>1, <1>2, AppendProperties
    <2>2. Bytes(id, k) \in Seq({id} \X (1..k)) /\ Len(Bytes(id, k)) = k
      BY SizesFacts, BytesShape
    <2>3. {id} \X (1..k) \subseteq PacketsOf(id)
      BY <1>1, SizesFacts DEF PacketsOf
    <2> QED
      BY <2>1, <2>2, <2>3, SeqMonotonic
  <1>3. /\ master_out \in Seq(PacketsOf(id)) /\ twi_out.data \in Seq(PacketsOf(id))
        /\ Len(master_out) <= RESPONSE_MAX_LENGTH /\ Len(twi_out.data) <= RESPONSE_MAX_LENGTH
        /\ twi_out = [data |-> twi_out.data, used |-> twi_out.used]
        /\ twi_out.used \in 0..RESPONSE_MAX_LENGTH
    BY <1>1, MorePackets DEF GateTypes
  <1>4. CASE Len(master_out) + n <= RESPONSE_MAX_LENGTH
    <2>1. /\ made' = Append(made, n) /\ master_out' = master_out \o Bytes(id, n)
          /\ UNCHANGED <<twi_out, mishaps>>
      BY <1>4 DEF Say
    <2>2. /\ made' \in Seq(Sizes) /\ Len(made') = id
          /\ Bytes(id, n) \in Seq(PacketsOf(id)) /\ Len(Bytes(id, n)) = n
      BY <1>2, <2>1
    <2> HIDE DEF id
    <2>3. master_out' \in Seq(PacketsOf(id)) /\ Len(master_out') = Len(master_out) + n
      <3>1. /\ master_out \o Bytes(id, n) \in Seq(PacketsOf(id))
            /\ Len(master_out \o Bytes(id, n)) = Len(master_out) + Len(Bytes(id, n))
        BY <1>3, <2>2, Concats
      <3>2. master_out' = master_out \o Bytes(id, n)
        BY <2>1 DEF id
      <3> QED
        BY <2>2, <3>1, <3>2, Zenon
    <2>4. twi_out' \in [data : Seq(PacketsOf(id)), used : 0..RESPONSE_MAX_LENGTH]
      BY <1>3, <2>1
    <2>5. Len(twi_out'.data) <= RESPONSE_MAX_LENGTH
      BY <1>3, <2>1
    <2> QED
      BY <1>1, <1>4, <2>1, <2>2, <2>3, <2>4, <2>5 DEF id
  <1>5. CASE ~(Len(master_out) + n <= RESPONSE_MAX_LENGTH)
    <2>1. /\ made' = Append(made, 4) /\ twi_out' = [twi_out EXCEPT !.data = Bytes(id, 4)]
          /\ mishaps' = mishaps \cup {"overflow"} /\ UNCHANGED master_out
      BY <1>5 DEF Say
    <2>2. /\ made' \in Seq(Sizes) /\ Len(made') = id
          /\ Bytes(id, 4) \in Seq(PacketsOf(id)) /\ Len(Bytes(id, 4)) = 4
      BY <1>2, <2>1, SizesFacts
    <2> HIDE DEF id
    <2>3. twi_out'.data = Bytes(id, 4) /\ twi_out'.used = twi_out.used
          /\ twi_out' = [data |-> Bytes(id, 4), used |-> twi_out.used]
      BY <1>3, <2>1
    <2>4. twi_out' \in [data : Seq(PacketsOf(id)), used : 0..RESPONSE_MAX_LENGTH]
      BY <1>3, <2>2, <2>3
    <2>5. Len(twi_out'.data) <= RESPONSE_MAX_LENGTH
      BY <2>2, <2>3, SizesFacts
    <2> QED
      BY <1>1, <1>3, <2>1, <2>2, <2>4, <2>5 DEF id
  <1> QED
    BY <1>4, <1>5

\* A step of the main loop, as the masters see it.
LEMMA MastersKept ==
  ASSUME Base, UNCHANGED <<clientVars, busVars, twi_idle, TWEA>>,
         made' \in Seq(Sizes), Len(made') \in {Len(made), Len(made) + 1},
         twi_in' \in {twi_in, <<>>}, mishaps' \in {mishaps, mishaps \cup {"overflow"}}
  PROVE  ClientTypes' /\ Transfer'
  <1>1. ClientTypes'
    <2>1. Len(made) \in Nat
      BY LenProperties DEF Base, GateTypes
    <2>2. rs' \in Seq(AnyBytes(Len(made')))
      BY <2>1, MorePackets DEF Base, ClientTypes, busVars
    <2>3. runBuf' \in Seq(1..Len(made')) /\ taken' \in Seq(1..Len(made'))
      BY <2>1, MorePackets DEF Base, ClientTypes, clientVars
    <2> QED
      BY <2>2, <2>3 DEF Base, ClientTypes, clientVars, busVars
  <1>2. Transfer'
    <2>1. Message' = Message
      BY DEF Message, clientVars, busVars
    <2>2. Len(twi_in') <= Len(twi_in) /\ Len(twi_in) \in Nat /\ Len(twi_in') \in Nat
      BY LenProperties, EmptySeq DEF Base, GateTypes
    <2>3. bus.n \in Nat
      BY DEF Base, ClientTypes
    <2>4. bus'.op = "write" /\ bus'.on => Len(twi_in') <= bus'.n
      <3>1. bus' = bus /\ (bus.op = "write" /\ bus.on => Len(twi_in) <= bus.n)
        BY DEF Base, Transfer, Writing, busVars
      <3> QED
        BY <2>2, <2>3, <3>1
    <2> QED
      BY <2>1, <2>4 DEF Base, Transfer, Broken, Reading, Writing, Free, clientVars, busVars
  <1> QED
    BY <1>1, <1>2

LEMMA BaseLook ==
  ASSUME Base, Gate, LookAtIdle
  PROVE  Base'
  <1>1. Len(made) \in Nat /\ GateTypes'
    BY LenProperties DEF Base, GateTypes, LookAtIdle, sendVars
  <1>2. ClientTypes' /\ Transfer'
    BY <1>1, MastersKept DEF Base, GateTypes, LookAtIdle, Gate, sendVars
  <1> QED
    BY <1>1, <1>2 DEF Base

LEMMA BaseNoCommand ==
  ASSUME Base, Gate, NoCommand
  PROVE  Base'
  <1>1. Len(made) \in Nat /\ GateTypes'
    BY LenProperties DEF Base, GateTypes, NoCommand, sendVars, Handover
  <1>2. ClientTypes' /\ Transfer'
    BY <1>1, MastersKept DEF Base, GateTypes, NoCommand, Gate, sendVars
  <1> QED
    BY <1>1, <1>2 DEF Base

LEMMA BaseClear ==
  ASSUME Base, Gate, Clear
  PROVE  Base'
  <1>1. Len(made) \in Nat /\ twi_in' = <<>> /\ twi_in' \in Seq(CommandBytes) /\ Len(twi_in') = 0
    BY LenProperties, EmptySeq DEF Base, GateTypes, Clear
  <1>2. GateTypes'
    BY <1>1 DEF Base, GateTypes, Clear, sendVars, Handover
  <1>3. ClientTypes' /\ Transfer'
    BY <1>1, <1>2, MastersKept DEF Base, GateTypes, Clear, Gate, sendVars
  <1> QED
    BY <1>2, <1>3 DEF Base

LEMMA BaseSwap ==
  ASSUME Base, Gate, Swap
  PROVE  Base'
  <1>1. /\ Len(made) \in Nat /\ master_out' = <<>> /\ Len(master_out') = 0
        /\ master_out' \in Seq(PacketsOf(Len(made)))
    BY LenProperties, EmptySeq DEF Base, GateTypes, Swap
  <1>2. /\ twi_out' = [data |-> master_out, used |-> 0]
        /\ twi_out' \in [data : Seq(PacketsOf(Len(made))), used : 0..RESPONSE_MAX_LENGTH]
        /\ Len(twi_out'.data) <= RESPONSE_MAX_LENGTH
    BY SizesFacts DEF Base, GateTypes, Swap
  <1>3. /\ UNCHANGED <<made, TWEA, TWDR, twi_idle, twi_in, burst, mishaps, due, pin, edges>>
        /\ pc' = "mdb"
    BY DEF Swap
  <1>4. GateTypes'
    BY <1>1, <1>2, <1>3, SizesFacts DEF Base, GateTypes
  <1>5. ClientTypes' /\ Transfer'
    BY <1>1, <1>3, <1>4, MastersKept DEF Base, GateTypes, Gate
  <1> QED
    BY <1>4, <1>5 DEF Base

LEMMA TWDRKept ==
  ASSUME GateTypes, Len(made') \in {Len(made), Len(made) + 1}, UNCHANGED TWDR
  PROVE  TWDR' \in AnyBytes(Len(made'))
  <1>1. Len(made) \in Nat
    BY LenProperties DEF GateTypes
  <1> QED
    BY <1>1, MorePackets DEF GateTypes

LEMMA BaseCommand ==
  ASSUME Base, Gate, Command
  PROVE  Base'
  <1>1. \E n \in Sizes : Say(n)
    BY SizesFacts DEF Command, Answered
  <1>2. /\ made' \in Seq(Sizes) /\ Len(made) \in Nat /\ Len(made') = Len(made) + 1
        /\ master_out' \in Seq(PacketsOf(Len(made'))) /\ Len(master_out') <= RESPONSE_MAX_LENGTH
        /\ twi_out' \in [data : Seq(PacketsOf(Len(made'))), used : 0..RESPONSE_MAX_LENGTH]
        /\ Len(twi_out'.data) <= RESPONSE_MAX_LENGTH
        /\ mishaps' \in {mishaps, mishaps \cup {"overflow"}}
    BY <1>1, SayTypes DEF Base
  <1>3. /\ UNCHANGED <<edges, pin, TWEA, TWDR, twi_idle, twi_in, burst>>
        /\ pc' = "clear" /\ (due' = due \/ due' = TRUE)
    BY DEF Command, Answered
  <1>4. TWDR' \in AnyBytes(Len(made'))
    BY <1>2, <1>3, TWDRKept DEF Base
  <1>5. GateTypes'
    BY <1>2, <1>3, <1>4 DEF Base, GateTypes
  <1>6. ClientTypes' /\ Transfer'
    BY <1>2, <1>3, MastersKept DEF Gate
  <1> QED
    BY <1>5, <1>6 DEF Base

LEMMA BaseMdb ==
  ASSUME Base, Gate, MdbStep
  PROVE  Base'
  <1>1. \/ \E n \in Sizes : Say(n)
        \/ UNCHANGED <<made, master_out, twi_out, mishaps>>
    BY SizesFacts DEF MdbStep
  <1>2. /\ made' \in Seq(Sizes) /\ Len(made) \in Nat
        /\ Len(made') \in {Len(made), Len(made) + 1}
        /\ master_out' \in Seq(PacketsOf(Len(made'))) /\ Len(master_out') <= RESPONSE_MAX_LENGTH
        /\ twi_out' \in [data : Seq(PacketsOf(Len(made'))), used : 0..RESPONSE_MAX_LENGTH]
        /\ Len(twi_out'.data) <= RESPONSE_MAX_LENGTH
        /\ mishaps' \in {mishaps, mishaps \cup {"overflow"}}
    <2>1. CASE \E n \in Sizes : Say(n)
      BY <2>1, SayTypes DEF Base
    <2>2. CASE UNCHANGED <<made, master_out, twi_out, mishaps>>
      BY <2>2, LenProperties DEF Base, GateTypes
    <2> QED
      BY <1>1, <2>1, <2>2
  <1>3. /\ UNCHANGED <<TWEA, TWDR, twi_idle, twi_in>>
        /\ pc' = "pass" /\ burst' = 0 /\ due' \in BOOLEAN
    BY DEF MdbStep, Base, GateTypes
  <1>4. pin' \in BOOLEAN /\ edges' \in Nat
    <2>1. pin' \in BOOLEAN
      BY DEF MdbStep
    <2>2. edges' = edges + 1 \/ edges' = edges
      BY DEF MdbStep
    <2> QED
      BY <2>1, <2>2 DEF Base, GateTypes
  <1>5. TWDR' \in AnyBytes(Len(made'))
    BY <1>2, <1>3, TWDRKept DEF Base
  <1>6. 0 \in 0..Burst
    BY TwiAssumption
  <1>7. GateTypes'
    BY <1>2, <1>3, <1>4, <1>5, <1>6 DEF Base, GateTypes
  <1>8. ClientTypes' /\ Transfer'
    BY <1>2, <1>3, MastersKept DEF Gate
  <1> QED
    BY <1>7, <1>8 DEF Base

\* A step of the masters that makes no answer.
LEMMA GateKept ==
  ASSUME Base, Interrupt, twi_idle' \in BOOLEAN, TWEA' \in BOOLEAN,
         twi_in' \in Seq(CommandBytes), Len(twi_in') <= 3,
         twi_out' \in {twi_out, EmptyOut, [twi_out EXCEPT !.used = 0]}
           \/ (twi_out' = [twi_out EXCEPT !.used = @ + 1] /\ twi_out.used < Len(twi_out.data)),
         TWDR' \in AnyBytes(Len(made))
  PROVE  GateTypes'
  <1>1. UNCHANGED mainVars /\ burst' \in 0..Burst
    BY TwiAssumption DEF Interrupt, Base, GateTypes
  <1>2. /\ twi_out' \in [data : Seq(PacketsOf(Len(made))), used : 0..RESPONSE_MAX_LENGTH]
        /\ Len(twi_out'.data) <= RESPONSE_MAX_LENGTH
    <2>1. /\ twi_out = [data |-> twi_out.data, used |-> twi_out.used]
          /\ twi_out.data \in Seq(PacketsOf(Len(made))) /\ twi_out.used \in 0..RESPONSE_MAX_LENGTH
          /\ Len(twi_out.data) <= RESPONSE_MAX_LENGTH /\ Len(twi_out.data) \in Nat
      BY LenProperties DEF Base, GateTypes
    <2>2. CASE twi_out' = twi_out
      BY <2>2 DEF Base, GateTypes
    <2>3. CASE twi_out' = EmptyOut
      BY <2>3, SizesFacts, EmptySeq DEF EmptyOut
    <2>4. CASE twi_out' = [twi_out EXCEPT !.used = 0]
      <3>1. twi_out' = [data |-> twi_out.data, used |-> 0]
        BY <2>1, <2>4
      <3> QED
        BY <2>1, <3>1, SizesFacts
    <2>5. CASE twi_out' = [twi_out EXCEPT !.used = @ + 1] /\ twi_out.used < Len(twi_out.data)
      <3>1. twi_out' = [data |-> twi_out.data, used |-> twi_out.used + 1]
        BY <2>1, <2>5
      <3>2. twi_out.used + 1 \in 0..RESPONSE_MAX_LENGTH
        BY <2>1, <2>5, SizesFacts
      <3> QED
        BY <2>1, <3>1, <3>2
    <2> QED
      BY <2>2, <2>3, <2>4, <2>5
  <1> QED
    BY <1>1, <1>2 DEF mainVars, Base, GateTypes

\* The first byte of a response, and padding.
LEMMA PlainBytesAre ==
  ASSUME GateTypes
  PROVE  Plain(0) \in AnyBytes(Len(made)) /\ Plain(Len(twi_out.data)) \in AnyBytes(Len(made))
  <1>1. Len(twi_out.data) \in 0..RESPONSE_MAX_LENGTH /\ 0 \in 0..RESPONSE_MAX_LENGTH
    BY LenProperties, SizesFacts DEF GateTypes
  <1> QED
    BY <1>1 DEF Plain, AnyBytes, PlainBytes

LEMMA NoCommandBytes == <<>> \in Seq(CommandBytes) /\ Len(<<>>) = 0
  BY EmptySeq

LEMMA BaseStartWrite ==
  ASSUME Base, NEW who \in {"do", "key"}, StartWrite(who)
  PROVE  Base'
  <1>1. CASE TWEA /\ Begins(who, "write") /\ SR_SLA_ACK /\ UNCHANGED doPc
    <2>1. GateTypes'
      <3>1. twi_idle' = FALSE /\ TWEA' = TRUE /\ twi_in' = <<>> /\ UNCHANGED <<twi_out, TWDR>>
            /\ Interrupt
        BY <1>1 DEF SR_SLA_ACK
      <3>2. TWDR \in AnyBytes(Len(made))
        BY DEF Base, GateTypes
      <3>3. twi_idle' \in BOOLEAN /\ TWEA' \in BOOLEAN
        BY <3>1, Zenon
      <3>4. twi_in' \in Seq(CommandBytes) /\ Len(twi_in') <= 3
        BY <3>1, NoCommandBytes
      <3>5. TWDR' \in AnyBytes(Len(made)) /\ twi_out' = twi_out /\ Interrupt
        BY <3>1, <3>2
      <3> QED
        BY <3>3, <3>4, <3>5, GateKept
    <2>2. bus' = [by |-> who, op |-> "write", n |-> 0, on |-> TRUE] /\ bus = Free
      BY <1>1 DEF Begins, BusFree
    <2>3. UNCHANGED <<rs, request, runPc, runBuf, taken, doPc, made>>
      BY <1>1 DEF StartWrite, SR_SLA_ACK, Interrupt, mainVars
    <2>4. ClientTypes'
      BY <2>2, <2>3, SizesFacts DEF Base, ClientTypes
    <2>5. Len(Message)' = (IF who = "do" THEN 3 ELSE 1)
      BY <2>2, BytesShape DEF Message
    <2>6. "bus error" \notin mishaps' /\ twi_in' = <<>> /\ TWEA' /\ ~twi_idle'
      BY <1>1 DEF SR_SLA_ACK, Base, Transfer
    <2>7. who = "do" => doPc = "write"
      BY DEF StartWrite
    <2>8. rs = <<>>
      BY <2>2 DEF Base, Transfer, Free
    <2>9. bus'.by = who /\ bus'.op = "write" /\ bus'.n = 0 /\ bus'.on = TRUE
      BY <2>2
    <2>10. bus'.n <= Len(Message)' /\ Len(twi_in') <= bus'.n
      <3>1. twi_in' = <<>> /\ bus'.n = 0
        BY <2>6, <2>9
      <3>2. Len(twi_in') = 0
        BY <3>1, NoCommandBytes
      <3>3. Len(Message)' = 3 \/ Len(Message)' = 1
        BY <2>5
      <3> QED
        BY <3>1, <3>2, <3>3
    <2>11. (bus'.by = "do" => doPc' = bus'.op) /\ bus'.by # "run" /\ rs' = <<>>
      BY <2>3, <2>7, <2>8, <2>9
    <2>12. Transfer'
      BY <2>6, <2>9, <2>10, <2>11 DEF Transfer, Broken, Reading, Writing
    <2> QED
      BY <2>1, <2>4, <2>12 DEF Base
  <1>2. CASE /\ ~TWEA /\ BusFree
             /\ doPc' = IF who = "do" THEN "idle" ELSE doPc
             /\ UNCHANGED <<bus, gateVars>>
    <2>1. GateTypes'
      BY <1>2 DEF Base, GateTypes, gateVars, mainVars, sendVars
    <2>2. ClientTypes'
      BY <1>2 DEF Base, ClientTypes, StartWrite, gateVars, mainVars
    <2>3. Transfer'
      BY <1>2 DEF Base, Transfer, Broken, StartWrite, gateVars, mainVars, sendVars, BusFree, Free,
                  Reading, Writing
    <2> QED
      BY <2>1, <2>2, <2>3 DEF Base
  <1> QED
    BY <1>1, <1>2 DEF StartWrite

LEMMA BaseWriteByte ==
  ASSUME Base, WriteByte
  PROVE  Base'
  <1>1. /\ bus.op = "write" /\ bus.on /\ bus.n \in Nat /\ bus.n < Len(Message)
        /\ (Len(Message) = 3 \/ Len(Message) = 1) /\ Message[bus.n + 1] \in CommandBytes
        /\ bus \in [by : {"none", "do", "run", "key"}, op : {"none", "write", "read"},
                    n : 0..(RESPONSE_MAX_LENGTH + 1), on : BOOLEAN]
    <2>1. /\ bus.op = "write" /\ bus.on /\ bus.n < Len(Message)
          /\ bus \in [by : {"none", "do", "run", "key"}, op : {"none", "write", "read"},
                      n : 0..(RESPONSE_MAX_LENGTH + 1), on : BOOLEAN]
      BY DEF WriteByte, Base, ClientTypes
    <2>2. bus.n \in Nat
      BY <2>1
    <2>3. /\ Len(Message) = 3 \/ Len(Message) = 1
          /\ \A i \in 1..Len(Message) : Message[i] \in CommandBytes
      BY MessageShape DEF Base
    <2>4. bus.n + 1 \in 1..Len(Message) 
      BY <2>1, <2>2, <2>3
    <2> QED
      BY <2>1, <2>2, <2>3, <2>4
  <1>2. Len(twi_in) <= bus.n /\ TWEA /\ ~twi_idle /\ "bus error" \notin mishaps
    BY <1>1 DEF Base, Transfer, Writing
  <1>3. /\ twi_in' = Append(twi_in, Message[bus.n + 1]) /\ TWEA' = TRUE
        /\ UNCHANGED <<twi_idle, twi_out, TWDR, mishaps>> /\ Interrupt
        /\ bus' = [bus EXCEPT !.n = @ + 1]
        /\ UNCHANGED <<rs, clientVars, outside>>
    BY DEF WriteByte, SR_DATA_ACK
  <1>4. twi_in \in Seq(CommandBytes) /\ Len(twi_in) \in Nat
    BY LenProperties DEF Base, GateTypes
  <1>5. twi_in' \in Seq(CommandBytes) /\ Len(twi_in') = Len(twi_in) + 1
    BY <1>1, <1>3, <1>4, AppendProperties
  <1>6. GateTypes'
    <2>1. Len(twi_in') <= 3
      <3>1. Len(twi_in) <= bus.n /\ bus.n \in Nat /\ bus.n < Len(Message)
              /\ (Len(Message) = 3 \/ Len(Message) = 1)
        BY <1>1, <1>2
      <3>2. Len(twi_in') = Len(twi_in) + 1 /\ Len(twi_in) \in Nat
        BY <1>4, <1>5
      <3>3. bus.n < 3
        <4>1. PICK k : k = Len(Message)
          OBVIOUS
        <4>2. k = 3 \/ k = 1
          BY <3>1, <4>1, Zenon
        <4>3. bus.n < k
          BY <3>1, <4>1, Zenon
        <4> QED
          BY <3>1, <4>2, <4>3
      <3> QED
        BY <3>1, <3>2, <3>3
    <2>2. TWDR \in AnyBytes(Len(made)) /\ twi_idle \in BOOLEAN
      BY DEF Base, GateTypes
    <2> QED
      BY <1>3, <1>5, <2>1, <2>2, GateKept
  <1>7. /\ bus'.by = bus.by /\ bus'.op = bus.op /\ bus'.on = bus.on /\ bus'.n = bus.n + 1
        /\ bus' \in [by : {"none", "do", "run", "key"}, op : {"none", "write", "read"},
                     n : 0..(RESPONSE_MAX_LENGTH + 1), on : BOOLEAN]
    <2>1. bus.n + 1 \in 0..(RESPONSE_MAX_LENGTH + 1)
      BY <1>1, SizesFacts
    <2> QED
      BY <1>1, <1>3, <2>1
  <1>8. UNCHANGED made
    BY <1>3 DEF Interrupt, mainVars
  <1>9. ClientTypes'
    BY <1>3, <1>7, <1>8 DEF Base, ClientTypes, clientVars
  <1>10. Message' = Message
    BY <1>3, <1>7 DEF Message, clientVars
  <1>11. Transfer'
    <2>1. bus'.n <= Len(Message')
      BY <1>1, <1>7, <1>10
    <2>2. Len(twi_in') <= bus'.n
      <3>1. Len(twi_in) <= bus.n /\ bus.n \in Nat /\ bus'.n = bus.n + 1
        BY <1>1, <1>2, <1>7
      <3> QED
        BY <1>4, <1>5, <3>1
    <2>3. bus.by \in {"do", "key"} /\ (bus.by = "do" => doPc = "write")
          /\ (bus.by = "run" => runPc = "read") /\ rs = <<>>
      <3>1. bus.op = "write" /\ bus # Free
        BY <1>1 DEF Free
      <3> QED
        BY <3>1 DEF Base, Transfer
    <2> QED
      BY <1>1, <1>2, <1>3, <1>7, <2>1, <2>2, <2>3 DEF Transfer, Broken, Reading, Writing, clientVars
  <1> QED
    BY <1>6, <1>9, <1>11 DEF Base

LEMMA BaseWriteEnds ==
  ASSUME Base, WriteEnds
  PROVE  Base'
  <1>1. /\ bus.op = "write" /\ bus' = Free /\ UNCHANGED <<rs, runPc, runBuf, taken>>
        /\ request' \in {"Config", request}
        /\ doPc' \in {"sleep", "idle", doPc}
    BY DEF WriteEnds
  <1>2. GateTypes' /\ UNCHANGED made
    <2>1. CASE SR_STOP
      <3>1. /\ twi_idle' = TRUE /\ TWEA' = TRUE /\ UNCHANGED <<twi_in, twi_out, TWDR>>
            /\ Interrupt
        BY <2>1 DEF SR_STOP
      <3>2. TWDR \in AnyBytes(Len(made)) /\ twi_in \in Seq(CommandBytes) /\ Len(twi_in) <= 3
        BY DEF Base, GateTypes
      <3>3. GateTypes'
        BY <3>1, <3>2, GateKept
      <3> QED
        BY <3>1, <3>3 DEF Interrupt, mainVars
    <2>2. CASE UNCHANGED gateVars
      BY <2>2 DEF Base, GateTypes, gateVars, mainVars, sendVars
    <2> QED
      BY <2>1, <2>2 DEF WriteEnds
  <1>3. ClientTypes'
    BY <1>1, <1>2, SizesFacts DEF Base, ClientTypes, Free, Requests
  <1>4. "bus error" \in mishaps' => ~TWEA'
    <2>1. CASE bus.on
      BY <2>1 DEF WriteEnds, SR_STOP, Base, Transfer
    <2>2. CASE ~bus.on
      BY <2>2 DEF WriteEnds, gateVars, sendVars, Base, Transfer
    <2> QED
      BY <2>1, <2>2
  <1>5. rs' = <<>>
    BY <1>1 DEF Base, Transfer
  <1>6. Transfer'
    BY <1>1, <1>4, <1>5 DEF Transfer, Broken, Free, Reading, Writing
  <1> QED
    BY <1>2, <1>3, <1>6 DEF Base

LEMMA BaseStartRead ==
  ASSUME Base, NEW who \in {"do", "run"}, StartRead(who)
  PROVE  Base'
  <1>1. /\ Wants(who) /\ TWEA /\ bus = Free /\ ST_SLA_ACK /\ rs' = <<>>
        /\ bus' = [by |-> who, op |-> "read", n |-> 0, on |-> TRUE]
        /\ UNCHANGED clientVars
    BY DEF StartRead, Begins, BusFree
  <1>2. /\ Interrupt /\ twi_idle' = FALSE /\ TWDR' = Plain(Len(twi_out.data))
        /\ TWEA' \in BOOLEAN /\ twi_out' = [twi_out EXCEPT !.used = 0]
        /\ mishaps' \in {mishaps, mishaps \cup {"read in twi_step"}} /\ UNCHANGED twi_in
    BY <1>1 DEF ST_SLA_ACK
  <1>3. GateTypes'
    <2>1. twi_in \in Seq(CommandBytes) /\ Len(twi_in) <= 3
          /\ Plain(Len(twi_out.data)) \in AnyBytes(Len(made))
      BY PlainBytesAre DEF Base, GateTypes
    <2> QED
      BY <1>2, <2>1, GateKept
  <1>4. UNCHANGED made
    BY <1>2 DEF Interrupt, mainVars
  <1>5. ClientTypes'
    BY <1>1, <1>4, SizesFacts, EmptySeq DEF Base, ClientTypes, clientVars
  <1>6. "bus error" \notin mishaps'
    <2>1. "bus error" \notin mishaps
      BY <1>1 DEF Base, Transfer
    <2>2. mishaps' \in {mishaps, mishaps \cup {"read in twi_step"}}
      BY <1>2
    <2>3. "bus error" # "read in twi_step"
      OBVIOUS
    <2> QED
      BY <2>1, <2>2, <2>3, Zenon
  <1>7. Transfer'
    <2>1. bus'.by = who /\ bus'.op = "read" /\ bus'.n = 0 /\ bus'.on = TRUE
      BY <1>1
    <2>2. /\ bus'.by = "do" => doPc' = bus'.op
          /\ bus'.by = "run" => runPc' = "read"
      BY <1>1, <2>1 DEF Wants, clientVars
    <2>3. bus'.n <= RESPONSE_MAX_LENGTH /\ ~twi_idle'
      <3>1. twi_idle' = FALSE
        BY <1>2
      <3> QED
        BY <2>1, <3>1, SizesFacts
    <2> QED
      BY <1>6, <2>1, <2>2, <2>3 DEF Transfer, Broken, Reading, Writing
  <1> QED
    BY <1>3, <1>5, <1>7 DEF Base

LEMMA BaseReadByte ==
  ASSUME Base, ReadByte
  PROVE  Base'
  <1>1. /\ bus.op = "read" /\ bus.on /\ bus.n \in Nat /\ bus.n <= RESPONSE_MAX_LENGTH
        /\ bus \in [by : {"none", "do", "run", "key"}, op : {"none", "write", "read"},
                    n : 0..(RESPONSE_MAX_LENGTH + 1), on : BOOLEAN]
        /\ bus' = [bus EXCEPT !.n = @ + 1, !.on = TWEA /\ ~LastByte]
        /\ UNCHANGED clientVars
        /\ rs' \in {rs, Append(rs, TWDR)}
    <2>1. /\ bus.op = "read" /\ bus.on
          /\ bus \in [by : {"none", "do", "run", "key"}, op : {"none", "write", "read"},
                      n : 0..(RESPONSE_MAX_LENGTH + 1), on : BOOLEAN]
          /\ bus' = [bus EXCEPT !.n = @ + 1, !.on = TWEA /\ ~LastByte]
          /\ UNCHANGED clientVars
      BY DEF ReadByte, Base, ClientTypes
    <2>2. bus.n <= RESPONSE_MAX_LENGTH
      BY <2>1 DEF Base, Transfer, Reading
    <2>3. rs' \in {rs, Append(rs, TWDR)}
      BY Zenon DEF ReadByte
    <2>4. bus.n \in Nat
      BY <2>1
    <2> QED
      BY <2>1, <2>2, <2>3, <2>4
  <1>2. "bus error" \notin mishaps
    BY <1>1 DEF Base, Transfer
  <1>3. ASSUME LastByte /\ ST_DATA_NACK
        PROVE  GateTypes' /\ Interrupt /\ UNCHANGED mishaps /\ (bus'.on => ~twi_idle')
    <2>1. /\ Interrupt /\ UNCHANGED <<twi_in, mishaps>> /\ twi_idle' = TRUE /\ TWEA' = FALSE
          /\ twi_out' = [twi_out EXCEPT !.used = 0] /\ TWDR' = Plain(0)
      BY <1>3 DEF ST_DATA_NACK
    <2>2. twi_in' \in Seq(CommandBytes) /\ Len(twi_in') <= 3 /\ TWDR' \in AnyBytes(Len(made))
      BY <2>1, PlainBytesAre DEF Base, GateTypes
    <2>3. GateTypes'
      BY <2>1, <2>2, GateKept
    <2>4. bus'.on = FALSE
      BY <1>1, <1>3
    <2> QED
      BY <2>1, <2>3, <2>4
  <1>4. ASSUME ~LastByte /\ TWEA /\ ST_DATA_ACK
        PROVE  GateTypes' /\ Interrupt /\ UNCHANGED mishaps /\ (bus'.on => ~twi_idle')
    <2>1. /\ Interrupt /\ UNCHANGED <<twi_in, mishaps>> /\ twi_idle' = FALSE
          /\ TWEA' \in BOOLEAN
      BY <1>4 DEF ST_DATA_ACK
    <2>2. \/ TWDR' = Plain(0) /\ twi_out' = twi_out
          \/ /\ ~ReadOut
             /\ TWDR' = twi_out.data[twi_out.used + 1]
             /\ twi_out' = [twi_out EXCEPT !.used = @ + 1]
      BY <1>4 DEF ST_DATA_ACK
    <2>3. twi_out.data \in Seq(PacketsOf(Len(made))) /\ twi_out.used \in Nat
          /\ Len(twi_out.data) \in Nat
      BY LenProperties DEF Base, GateTypes
    <2>4. ~ReadOut => twi_out.used < Len(twi_out.data)
                      /\ twi_out.data[twi_out.used + 1] \in AnyBytes(Len(made))
      <3>1. ~ReadOut => twi_out.used < Len(twi_out.data)
        BY <2>3 DEF ReadOut
      <3>2. ~ReadOut => twi_out.used + 1 \in 1..Len(twi_out.data)
        BY <2>3, <3>1
      <3> QED
        BY <2>3, <3>1, <3>2, ElementOfSeq DEF AnyBytes
    <2>5. twi_in' \in Seq(CommandBytes) /\ Len(twi_in') <= 3 /\ TWDR' \in AnyBytes(Len(made))
      BY <2>1, <2>2, <2>4, PlainBytesAre DEF Base, GateTypes
    <2>6. GateTypes'
      BY <2>1, <2>2, <2>4, <2>5, GateKept
    <2> QED
      BY <2>1, <2>6
  <1>5. ASSUME ~LastByte /\ ~TWEA /\ ST_LAST_DATA
        PROVE  GateTypes' /\ Interrupt /\ UNCHANGED mishaps /\ (bus'.on => ~twi_idle')
    <2>1. /\ Interrupt /\ UNCHANGED <<twi_in, mishaps>> /\ twi_idle' = TRUE /\ TWEA' = TRUE
          /\ twi_out' = EmptyOut /\ TWDR' = Plain(0)
      BY <1>5 DEF ST_LAST_DATA
    <2>2. twi_in' \in Seq(CommandBytes) /\ Len(twi_in') <= 3 /\ TWDR' \in AnyBytes(Len(made))
      BY <2>1, PlainBytesAre DEF Base, GateTypes
    <2>3. GateTypes'
      BY <2>1, <2>2, GateKept
    <2>4. bus'.on = FALSE
      BY <1>1, <1>5
    <2> QED
      BY <2>1, <2>3, <2>4
  <1>6. GateTypes' /\ Interrupt /\ UNCHANGED mishaps /\ (bus'.on => ~twi_idle')
    BY <1>3, <1>4, <1>5 DEF ReadByte
  <1>7. UNCHANGED made
    BY <1>6 DEF Interrupt, mainVars
  <1>8. /\ bus'.by = bus.by /\ bus'.op = bus.op /\ bus'.n = bus.n + 1
        /\ bus'.on = (TWEA /\ ~LastByte)
        /\ bus' \in [by : {"none", "do", "run", "key"}, op : {"none", "write", "read"},
                     n : 0..(RESPONSE_MAX_LENGTH + 1), on : BOOLEAN]
    <2>1. bus.n + 1 \in 0..(RESPONSE_MAX_LENGTH + 1)
      BY <1>1, SizesFacts
    <2>2. (TWEA /\ ~LastByte) \in BOOLEAN
      BY Zenon
    <2> QED
      BY <1>1, <2>1, <2>2
  <1>9. ClientTypes'
    <2>1. rs' \in Seq(AnyBytes(Len(made)))
      <3>1. rs \in Seq(AnyBytes(Len(made))) /\ TWDR \in AnyBytes(Len(made))
        BY DEF Base, ClientTypes, GateTypes
      <3>2. Append(rs, TWDR) \in Seq(AnyBytes(Len(made)))
        BY <3>1, AppendProperties
      <3> QED
        BY <1>1, <3>1, <3>2
    <2> QED
      BY <1>1, <1>7, <1>8, <2>1 DEF Base, ClientTypes, clientVars
  <1>10. Transfer'
    <2>1. bus'.on => bus'.n <= RESPONSE_MAX_LENGTH
      <3>1. bus'.on => bus.n # RESPONSE_MAX_LENGTH
        BY <1>8 DEF LastByte
      <3> QED
        BY <1>1, <1>8, <3>1, SizesFacts
    <2>2. /\ bus'.by \in {"do", "run"} /\ bus'.op = "read"
          /\ bus'.by = "do" => doPc' = bus'.op
          /\ bus'.by = "run" => runPc' = "read"
      <3>1. bus.op = "read" /\ bus # Free
        BY <1>1 DEF Free
      <3>2. bus.by \in {"do", "run"} /\ (bus.by = "do" => doPc = "read")
            /\ (bus.by = "run" => runPc = "read")
        BY <3>1 DEF Base, Transfer
      <3> QED
        BY <1>1, <1>8, <3>1, <3>2 DEF clientVars
    <2>3. "bus error" \notin mishaps'
      BY <1>2, <1>6
    <2>4. ~Broken'
      <3>1. CASE LastByte
        <4>1. bus'.n = RESPONSE_MAX_LENGTH + 1
          BY <1>8, <3>1 DEF LastByte
        <4> QED
          BY <4>1, SizesFacts DEF Broken
      <3>2. CASE ~LastByte /\ TWEA
        BY <1>8, <3>2 DEF Broken
      <3>3. CASE ~LastByte /\ ~TWEA
        BY <3>3 DEF ReadByte, ST_LAST_DATA, Broken
      <3> QED
        BY <3>1, <3>2, <3>3
    <2> QED
      BY <1>6, <2>1, <2>2, <2>3, <2>4 DEF Transfer, Reading, Writing
  <1> QED
    BY <1>6, <1>9, <1>10 DEF Base

\* The reader goes on; the bus is free.
LEMMA BaseTakes ==
  ASSUME Base, NEW who \in {"do", "run"}, NEW p \in Seq(1..Len(made)), Takes(who, p),
         who = "do" => doPc = "read", who = "run" => runPc = "read",
         UNCHANGED <<gateVars, request>>, bus' = Free, rs' = <<>>
  PROVE  Base'
  <1>1. GateTypes' /\ UNCHANGED made
    BY DEF Base, GateTypes, gateVars, mainVars, sendVars
  <1>2. taken' \in Seq(1..Len(made))
    BY ConcatProperties DEF Takes, Base, ClientTypes
  <1>3. doPc' \in {"idle", doPc} /\ runPc' \in {"watch", runPc} /\ runBuf' \in {p, runBuf}
    BY DEF Takes
  <1>4. bus' \in [by : {"none", "do", "run", "key"}, op : {"none", "write", "read"},
                  n : 0..(RESPONSE_MAX_LENGTH + 1), on : BOOLEAN]
    BY SizesFacts DEF Free
  <1>5. ClientTypes'
    BY <1>1, <1>2, <1>3, <1>4, EmptySeq DEF Base, ClientTypes
  <1>6. "bus error" \in mishaps' => ~TWEA'
    BY DEF Base, Transfer, gateVars, sendVars
  <1>7. Transfer'
    BY <1>6 DEF Transfer, Broken, Free, Reading, Writing
  <1> QED
    BY <1>1, <1>5, <1>7 DEF Base

LEMMA BaseReadEnds ==
  ASSUME Base, ReadEnds
  PROVE  Base'
  <1>1. PICK packets \in {Parsed(rs), OldBuffer(bus.by)} :
          /\ bus.op = "read" /\ Takes(bus.by, packets) /\ bus' = Free /\ rs' = <<>>
          /\ UNCHANGED <<gateVars, request>>
    BY DEF ReadEnds
  <1>2. bus.by \in {"do", "run"} /\ (bus.by = "do" => doPc = "read")
        /\ (bus.by = "run" => runPc = "read")
    <2>1. bus.op = "read" /\ bus # Free
      BY <1>1 DEF Free
    <2> QED
      BY <2>1 DEF Base, Transfer
  <1>3. Parsed(rs) \in Seq(1..Len(made))
    BY ParsedType DEF Base, ClientTypes, GateTypes
  <1>4. OldBuffer(bus.by) \in Seq(1..Len(made))
    BY EmptySeq DEF OldBuffer, Base, ClientTypes
  <1> QED
    BY <1>1, <1>2, <1>3, <1>4, BaseTakes

LEMMA BaseReadFails ==
  ASSUME Base, NEW who \in {"do", "run"}, ReadFails(who)
  PROVE  Base'
  <1>1. /\ Wants(who) /\ bus = Free /\ UNCHANGED <<gateVars, request, busVars>>
        /\ Takes(who, OldBuffer(who))
    BY DEF ReadFails, BusFree
  <1>2. OldBuffer(who) \in Seq(1..Len(made))
    BY EmptySeq DEF OldBuffer, Base, ClientTypes
  <1>3. (who = "do" => doPc = "read") /\ (who = "run" => runPc = "read")
    BY <1>1 DEF Wants
  <1>4. bus' = Free /\ rs' = <<>>
    BY <1>1 DEF busVars, Base, Transfer, Free
  <1>5. UNCHANGED <<gateVars, request>>
    BY <1>1
  <1> QED
    BY <1>1, <1>2, <1>3, <1>4, <1>5, BaseTakes

LEMMA DoTransfer ==
  ASSUME Transfer
  PROVE  bus.by = "do" => doPc \in {"write", "read"}
  <1>1. CASE bus = Free
    <2>1. bus.by = "none"
      BY <1>1 DEF Free
    <2> QED
      BY <2>1
  <1>2. CASE bus # Free
    BY <1>2, Zenon DEF Transfer
  <1> QED
    BY <1>1, <1>2

LEMMA BaseOthers ==
  ASSUME Base, (\E r \in Requests : Do(r)) \/ Wake \/ Notified \/ UNCHANGED vars
  PROVE  Base'
  <1>1. CASE \E r \in Requests : Do(r)
    <2>1. PICK r \in Requests : Do(r)
      BY <1>1
    <2>2. GateTypes'
      BY <2>1 DEF Base, GateTypes, Do, sendVars
    <2>3. ClientTypes'
      BY <2>1 DEF Base, ClientTypes, Do, busVars
    <2>4. Transfer'
      <3>1. bus.by # "do" /\ bus' = bus /\ rs' = rs
        <4>1. bus.by = "do" => doPc \in {"write", "read"}
          BY DoTransfer DEF Base
        <4> QED
          BY <2>1, <4>1 DEF Do, busVars
      <3>2. Message' = Message
        BY <3>1 DEF Message
      <3> QED
        BY <2>1, <3>1, <3>2 DEF Base, Transfer, Broken, Free, Reading, Writing, Do, sendVars
    <2> QED
      BY <2>2, <2>3, <2>4 DEF Base
  <1>2. CASE Wake
    <2>1. GateTypes'
      BY <1>2 DEF Base, GateTypes, Wake, gateVars, mainVars, sendVars
    <2>2. ClientTypes'
      BY <1>2 DEF Base, ClientTypes, Wake, busVars, gateVars, mainVars
    <2>3. Transfer'
      <3>1. bus.by # "do" /\ bus' = bus /\ rs' = rs
        <4>1. bus.by = "do" => doPc \in {"write", "read"}
          BY DoTransfer DEF Base
        <4> QED
          BY <1>2, <4>1 DEF Wake, busVars
      <3>2. Message' = Message
        BY <1>2, <3>1 DEF Message
      <3> QED
        BY <1>2, <3>1, <3>2
        DEF Base, Transfer, Broken, Free, Reading, Writing, Wake, gateVars, mainVars, sendVars
    <2> QED
      BY <2>1, <2>2, <2>3 DEF Base
  <1>3. CASE Notified
    <2>1. GateTypes'
      BY <1>3 DEF Base, GateTypes, Notified, sendVars
    <2>2. ClientTypes'
      BY <1>3 DEF Base, ClientTypes, Notified, busVars
    <2>3. Transfer'
      <3>1. bus.by # "run" /\ bus' = bus /\ rs' = rs
        BY <1>3 DEF Base, Transfer, Free, Notified, busVars
      <3>2. Message' = Message
        BY <1>3, <3>1 DEF Message, Notified
      <3> QED
        BY <1>3, <3>1, <3>2
        DEF Base, Transfer, Broken, Free, Reading, Writing, Notified, sendVars
    <2> QED
      BY <2>1, <2>2, <2>3 DEF Base
  <1>4. CASE UNCHANGED vars
    <2>1. GateTypes' /\ ClientTypes'
      BY <1>4 DEF Base, GateTypes, ClientTypes, vars, gateVars, mainVars, sendVars, clientVars,
                  busVars
    <2>2. Message' = Message
      BY <1>4 DEF Message, vars, clientVars, busVars
    <2>3. Transfer'
      BY <1>4, <2>2 DEF Base, Transfer, Broken, Free, Reading, Writing, vars, gateVars, mainVars,
                        sendVars, clientVars, busVars
    <2> QED
      BY <2>1, <2>3 DEF Base
  <1> QED
    BY <1>1, <1>2, <1>3, <1>4

LEMMA BaseBusError ==
  ASSUME Base, BusError
  PROVE  Base'
  <1>1. /\ Interrupt /\ twi_in' = <<>> /\ twi_out' = EmptyOut /\ TWEA' = FALSE
        /\ TWDR' = Plain(0) /\ UNCHANGED twi_idle
        /\ bus' = [bus EXCEPT !.on = FALSE] /\ UNCHANGED <<rs, clientVars>>
    BY DEF BusError, BUS_ERROR
  <1>2. GateTypes'
    <2>1. TWDR' \in AnyBytes(Len(made)) /\ twi_idle \in BOOLEAN
      BY <1>1, PlainBytesAre DEF Base, GateTypes
    <2>2. twi_in' \in Seq(CommandBytes) /\ Len(twi_in') <= 3
      BY <1>1, NoCommandBytes
    <2> QED
      BY <1>1, <2>1, <2>2, GateKept
  <1>3. UNCHANGED made
    BY <1>1 DEF Interrupt, mainVars
  <1>4. /\ bus'.by = bus.by /\ bus'.op = bus.op /\ bus'.n = bus.n /\ bus'.on = FALSE
        /\ bus' \in [by : {"none", "do", "run", "key"}, op : {"none", "write", "read"},
                     n : 0..(RESPONSE_MAX_LENGTH + 1), on : BOOLEAN]
    BY <1>1 DEF Base, ClientTypes
  <1>5. ClientTypes'
    BY <1>1, <1>3, <1>4 DEF Base, ClientTypes, clientVars
  <1>6. Message' = Message
    BY <1>1, <1>4 DEF Message, clientVars
  <1>7. bus.on /\ bus # Free
    BY DEF BusError, Free
  <1>8. "bus error" \in mishaps'
    BY DEF BusError, BUS_ERROR
  <1>9. Transfer'
    BY <1>1, <1>4, <1>6, <1>7, <1>8 DEF Base, Transfer, Reading, Writing, clientVars
  <1> QED
    BY <1>2, <1>5, <1>9 DEF Base

LEMMA BaseStep ==
  ASSUME Base, [Next]_vars
  PROVE  Base'
  <1>1. ASSUME Gate PROVE Base'
    BY <1>1, BaseLook, BaseNoCommand, BaseCommand, BaseClear, BaseSwap, BaseMdb DEF Gate, MainLoop
  <1>2. ASSUME Bus PROVE Base'
    BY <1>2, BaseWriteByte, BaseWriteEnds, BaseReadByte, BaseReadEnds DEF Bus
  <1>3. ASSUME DoTransfers \/ RunTransfers \/ StartWrite("key") PROVE Base'
    BY <1>3, BaseStartWrite, BaseStartRead, BaseReadFails DEF DoTransfers, RunTransfers
  <1> QED
    BY <1>1, <1>2, <1>3, BaseOthers, BaseBusError DEF Next

LEMMA BaseInit ==
  ASSUME Init
  PROVE  Base
  <1>1. /\ made = <<Hello>> /\ made \in Seq(Sizes) /\ Len(made) = 1
    BY SizesFacts DEF Init, GateInit
  <1>2. Bytes(1, Hello) \in Seq({1} \X (1..Hello)) /\ Len(Bytes(1, Hello)) = Hello
    BY SizesFacts, BytesShape
  <1>3. {1} \X (1..Hello) \subseteq PacketsOf(1)
    BY SizesFacts DEF PacketsOf
  <1>4. master_out \in Seq(PacketsOf(1)) /\ Len(master_out) <= RESPONSE_MAX_LENGTH
    BY <1>2, <1>3, SeqMonotonic, SizesFacts DEF Init, GateInit
  <1>5. /\ twi_out \in [data : Seq(PacketsOf(1)), used : 0..RESPONSE_MAX_LENGTH]
        /\ Len(twi_out.data) <= RESPONSE_MAX_LENGTH
    BY SizesFacts, EmptySeq DEF Init, GateInit, EmptyOut
  <1>6. TWDR \in AnyBytes(1)
    BY SizesFacts DEF Init, GateInit, Plain, AnyBytes, PlainBytes
  <1>7. GateTypes
    <2>1. /\ pc \in {"pass", "command", "clear", "swap", "mdb"}
          /\ twi_idle \in BOOLEAN /\ TWEA \in BOOLEAN /\ due \in BOOLEAN /\ pin \in BOOLEAN
          /\ edges \in Nat
      BY Zenon DEF Init, GateInit
    <2>2. twi_in \in Seq(CommandBytes) /\ Len(twi_in) <= 3
      BY NoCommandBytes DEF Init, GateInit
    <2>3. burst \in 0..Burst
      BY TwiAssumption DEF Init, GateInit
    <2> QED
      BY <1>1, <1>4, <1>5, <1>6, <2>1, <2>2, <2>3 DEF GateTypes
  <1>8. bus \in [by : {"none", "do", "run", "key"}, op : {"none", "write", "read"},
                 n : 0..(RESPONSE_MAX_LENGTH + 1), on : BOOLEAN]
    BY SizesFacts DEF Init, Free
  <1>9. ClientTypes
    BY <1>8, EmptySeq DEF Init, ClientTypes, Requests
  <1>10. Transfer
    BY DEF Init, GateInit, Transfer, Broken, Free, Reading, Writing
  <1> QED
    BY <1>7, <1>9, <1>10 DEF Base

\* The types, and what the gate and its masters know of a transfer, at every
\* moment.
THEOREM MegaBase == Spec => []Base
  BY BaseInit, BaseStep, PTL DEF Spec

LEMMA RangeIn ==
  ASSUME NEW S, NEW s \in Seq(S)
  PROVE  Range(s) \subseteq S
  BY ElementOfSeq DEF Range

LEMMA BaseIsTyped ==
  ASSUME Base
  PROVE  MegaTypeOK
  <1>1. made \in Seq(Sizes) /\ Numbers = 1..Len(made)
    BY DEF Base, GateTypes, Numbers
  <1>2. PacketBytes = PacketsOf(Len(made)) /\ AnyBytes(Len(made)) = PacketBytes \cup PlainBytes
    BY <1>1 DEF PacketBytes, PacketsOf, AnyBytes
  <1>3. Len(twi_in) <= 3 /\ \A b \in Range(twi_in) : b \in (Requests \cup {"key"}) \X (1..3)
    BY RangeIn DEF Base, GateTypes, CommandBytes
  <1>4. Len(master_out) <= RESPONSE_MAX_LENGTH /\ Range(master_out) \subseteq PacketBytes
    BY <1>2, RangeIn DEF Base, GateTypes
  <1>5. /\ Len(twi_out.data) <= RESPONSE_MAX_LENGTH /\ Range(twi_out.data) \subseteq PacketBytes
        /\ twi_out.used \in 0..RESPONSE_MAX_LENGTH
    BY <1>2, RangeIn DEF Base, GateTypes
  <1>6. TWDR \in PacketBytes \cup PlainBytes /\ Range(rs) \subseteq PacketBytes \cup PlainBytes
    BY <1>2, RangeIn DEF Base, GateTypes, ClientTypes
  <1>7. runBuf \in Seq(Numbers) /\ taken \in Seq(Numbers)
    BY <1>1 DEF Base, ClientTypes
  <1>8. /\ pc \in {"pass", "command", "clear", "swap", "mdb"}
        /\ twi_idle \in BOOLEAN /\ TWEA \in BOOLEAN /\ due \in BOOLEAN /\ pin \in BOOLEAN
        /\ edges \in Nat /\ burst \in 0..Burst
        /\ bus \in [by : {"none", "do", "run", "key"}, op : {"none", "write", "read"},
                    n : 0..(RESPONSE_MAX_LENGTH + 1), on : BOOLEAN]
        /\ doPc \in {"idle", "write", "sleep", "read"} /\ request \in Requests
        /\ runPc \in {"watch", "read"}
    BY DEF Base, GateTypes, ClientTypes
  <1> QED
    BY <1>3, <1>4, <1>5, <1>6, <1>7, <1>8 DEF MegaTypeOK

\* No buffer of the gate is ever longer than it is, no command longer than
\* three bytes, no read further than its response: no matter where the handler
\* (twi.c) interrupts the main loop.
THEOREM MegaTypeCorrect == Spec => []MegaTypeOK
  BY MegaBase, BaseIsTyped, PTL

-----------------------------------------------------------------------------
(***************************************************************************)
(* Commands.  A command that has come whole waits in twi_in until it is      *)
(* executed: only a write that begins can take it away, and the handler      *)
(* marks one that does.                                                    *)
(***************************************************************************)
Clean == mishaps \cap {"overwritten", "write in twi_step", "bus error"} = {}
Waiting == \E r \in Requests : twi_in = Bytes(r, 3)

Exec ==
  /\ Writing => pc \notin {"command", "clear"}
  /\ Writing /\ bus.by = "do" =>
       Len(twi_in) = bus.n /\ \A i \in 1..bus.n : twi_in[i] = <<request, i>>
  /\ bus.op = "write" => bus.on
  /\ doPc = "sleep" => executed \/ (Waiting /\ pc # "clear")
  /\ doPc = "read" => executed

ExecInv == Clean => Exec

\* Nothing is forgotten that went wrong.
LEMMA MishapsGrow ==
  ASSUME [Next]_vars
  PROVE  mishaps \subseteq mishaps'
  <1>1. CASE Gate
    BY <1>1 DEF Gate, MainLoop, LookAtIdle, NoCommand, Command, Clear, Swap, MdbStep, Say, Answered
  <1>2. CASE Bus
    BY <1>2 DEF Bus, WriteByte, WriteEnds, ReadByte, ReadEnds, SR_DATA_ACK, SR_STOP, ST_DATA_ACK,
                ST_DATA_NACK, ST_LAST_DATA, gateVars
  <1>3. CASE DoTransfers \/ RunTransfers \/ StartWrite("key")
    <2>1. ASSUME NEW who, StartWrite(who) PROVE mishaps \subseteq mishaps'
      BY <2>1 DEF StartWrite, SR_SLA_ACK, gateVars
    <2>2. ASSUME NEW who, StartRead(who) PROVE mishaps \subseteq mishaps'
      BY <2>2 DEF StartRead, ST_SLA_ACK
    <2>3. ASSUME NEW who, ReadFails(who) PROVE mishaps \subseteq mishaps'
      BY <2>3 DEF ReadFails, gateVars
    <2> QED
      BY <1>3, <2>1, <2>2, <2>3 DEF DoTransfers, RunTransfers
  <1>4. CASE (\E r \in Requests : Do(r)) \/ Wake \/ Notified \/ UNCHANGED vars
    BY <1>4 DEF Do, Wake, Notified, vars, gateVars
  <1>5. CASE BusError
    BY <1>5 DEF BusError, BUS_ERROR
  <1> QED
    BY <1>1, <1>2, <1>3, <1>4, <1>5 DEF Next

LEMMA BytesAreThree ==
  ASSUME NEW r
  PROVE  Bytes(r, 3) # <<>> /\ Len(Bytes(r, 3)) = 3
  <1>1. Len(Bytes(r, 3)) = 3
    BY BytesShape
  <1>2. Len(<<>>) # 3
    OBVIOUS
  <1> QED
    BY <1>1, <1>2, Zenon

LEMMA ExecGate ==
  ASSUME Base, Exec, Gate
  PROVE  Exec'
  <1>0. UNCHANGED <<clientVars, busVars, twi_idle>>
    BY DEF Gate, MainLoop, LookAtIdle, NoCommand, Command, Clear, Swap, MdbStep
  <1>1. CASE LookAtIdle
    <2>1. ~Writing /\ pc' = "command" /\ twi_in' = twi_in /\ executed' = executed
      BY <1>1 DEF LookAtIdle, Base, Transfer
    <2> QED
      BY <1>0, <2>1 DEF Exec, Writing, Waiting, clientVars, busVars
  <1>2. CASE NoCommand
    <2>1. pc' \notin {"command", "clear"} /\ twi_in' = twi_in /\ executed' = executed
      BY <1>2 DEF NoCommand, Handover
    <2> QED
      BY <1>0, <2>1 DEF Exec, Writing, Waiting, clientVars, busVars
  <1>3. CASE Command
    <2>1. /\ pc = "command" /\ pc' = "clear" /\ twi_in' = twi_in
          /\ executed' = executed \/ executed' = TRUE
          /\ Waiting => executed'
      BY <1>3 DEF Command, Waiting
    <2>2. ~Writing /\ (executed => executed')
      BY <2>1 DEF Exec
    <2> QED
      BY <1>0, <2>1, <2>2 DEF Exec, Writing, Waiting, clientVars, busVars
  <1>4. CASE Clear
    <2>1. pc = "clear" /\ pc' \notin {"command", "clear"} /\ executed' = executed
      BY <1>4 DEF Clear, Handover
    <2>2. ~Writing
      BY <2>1 DEF Exec
    <2> QED
      BY <1>0, <2>1, <2>2 DEF Exec, Writing, clientVars, busVars
  <1>5. CASE Swap \/ MdbStep
    <2>1. pc' \notin {"command", "clear"} /\ twi_in' = twi_in /\ executed' = executed
      BY <1>5 DEF Swap, MdbStep
    <2> QED
      BY <1>0, <2>1 DEF Exec, Writing, Waiting, clientVars, busVars
  <1> QED
    BY <1>1, <1>2, <1>3, <1>4, <1>5 DEF Gate, MainLoop

LEMMA ExecWriteByte ==
  ASSUME Base, Exec, WriteByte
  PROVE  Exec'
  <1>1. /\ bus.op = "write" /\ bus.on /\ bus.n < Len(Message) /\ bus.n \in Nat
        /\ bus'.by = bus.by /\ bus'.op = bus.op /\ bus'.on = bus.on /\ bus'.n = bus.n + 1
        /\ twi_in' = Append(twi_in, Message[bus.n + 1])
        /\ UNCHANGED <<clientVars, mainVars>>
    <2>1. /\ bus.op = "write" /\ bus.on /\ bus.n < Len(Message)
          /\ bus' = [bus EXCEPT !.n = @ + 1]
          /\ twi_in' = Append(twi_in, Message[bus.n + 1])
          /\ UNCHANGED <<clientVars, mainVars>>
      BY Zenon DEF WriteByte, SR_DATA_ACK, Interrupt
    <2>2. /\ bus \in [by : {"none", "do", "run", "key"}, op : {"none", "write", "read"},
                      n : 0..(RESPONSE_MAX_LENGTH + 1), on : BOOLEAN]
      BY DEF Base, ClientTypes
    <2>3. bus'.by = bus.by /\ bus'.op = bus.op /\ bus'.on = bus.on /\ bus'.n = bus.n + 1
      BY <2>1, <2>2
    <2>4. bus.n \in Nat
      BY <2>2
    <2> QED
      BY <2>1, <2>3, <2>4
  <1>2. twi_in \in Seq(CommandBytes) /\ Len(twi_in) \in Nat
    BY LenProperties DEF Base, GateTypes
  <1>3. bus'.by = "do" => Len(twi_in') = bus'.n /\ \A i \in 1..bus'.n : twi_in'[i] = <<request, i>>
    <2> SUFFICES ASSUME bus.by = "do"
                 PROVE  Len(twi_in') = bus'.n /\ \A i \in 1..bus'.n : twi_in'[i] = <<request, i>>
      BY <1>1
    <2>1. Len(twi_in) = bus.n /\ \A i \in 1..bus.n : twi_in[i] = <<request, i>>
      BY <1>1 DEF Exec, Writing
    <2>2. Message = Bytes(request, 3)
      BY DEF Message
    <2>3. Message[bus.n + 1] = <<request, bus.n + 1>>
      <3>1. Len(Bytes(request, 3)) = 3 /\ \A i \in 1..3 : Bytes(request, 3)[i] = <<request, i>>
        BY BytesShape
      <3>2. bus.n + 1 \in 1..3
        BY <1>1, <2>2, <3>1
      <3> QED
        BY <2>2, <3>1, <3>2
    <2>4. PICK e : e = Message[bus.n + 1]
      OBVIOUS
    <2>5. e \in CommandBytes
      <3>1. bus.n + 1 \in 1..Len(Message)
        <4>1. Len(Message) = 3
          BY <2>2, BytesAreThree
        <4> QED
          BY <1>1, <4>1
      <3> QED
        BY <2>4, <3>1, MessageShape DEF Base
    <2>6. /\ Len(Append(twi_in, e)) = bus.n + 1
          /\ \A i \in 1..bus.n : Append(twi_in, e)[i] = twi_in[i]
          /\ Append(twi_in, e)[bus.n + 1] = e
      BY <1>2, <2>1, <2>5, AppendProperties
    <2>7. twi_in' = Append(twi_in, e)
      BY <1>1, <2>4
    <2>8. \A i \in 1..(bus.n + 1) : i \in 1..bus.n \/ i = bus.n + 1
      BY <1>1
    <2> QED
      BY <1>1, <2>1, <2>3, <2>4, <2>6, <2>7, <2>8
  <1>4. doPc = "sleep" => executed
    <2> SUFFICES ASSUME doPc = "sleep", ~executed PROVE FALSE
      OBVIOUS
    <2>1. bus.by # "do"
      BY DoTransfer DEF Base
    <2>2. bus.n = 0
      <3>1. Len(Message) = 1
        BY <2>1, MessageShape DEF Base
      <3> QED
        BY <1>1, <3>1
    <2>3. Len(twi_in) <= 0
      BY <1>1, <2>2 DEF Base, Transfer, Writing
    <2>4. Waiting
      BY DEF Exec
    <2>5. Len(twi_in) = 3
      BY <2>4, BytesAreThree DEF Waiting
    <2> QED
      BY <2>3, <2>5
  <1>5. pc' \notin {"command", "clear"}
    BY <1>1 DEF Exec, Writing, mainVars
  <1> QED
    BY <1>1, <1>3, <1>4, <1>5 DEF Exec, Writing, mainVars, clientVars

LEMMA ExecWriteEnds ==
  ASSUME Base, Exec, WriteEnds
  PROVE  Exec'
  <1>1. /\ bus.op = "write" /\ bus.on /\ bus.n = Len(Message) /\ SR_STOP /\ bus' = Free
        /\ doPc' = IF bus.by = "do" THEN "sleep" ELSE doPc
        /\ UNCHANGED <<twi_in, mainVars>>
    BY DEF WriteEnds, Exec, SR_STOP, Interrupt
  <1>2. bus'.op # "write"
    BY <1>1 DEF Free
  <1>3. pc \notin {"command", "clear"}
    BY <1>1 DEF Exec, Writing
  <1>4. bus.by = "do" => Waiting
    <2> SUFFICES ASSUME bus.by = "do" PROVE Waiting
      OBVIOUS
    <2>1. Message = Bytes(request, 3) /\ Len(Message) = 3
      BY BytesAreThree DEF Message
    <2>2. Len(twi_in) = 3 /\ \A i \in 1..3 : twi_in[i] = <<request, i>>
      BY <1>1, <2>1 DEF Exec, Writing
    <2>3. request \in Requests /\ twi_in \in Seq(CommandBytes)
      BY DEF Base, ClientTypes, GateTypes
    <2>4. /\ Bytes(request, 3) \in Seq({request} \X (1..3)) /\ Len(Bytes(request, 3)) = 3
          /\ \A i \in 1..3 : Bytes(request, 3)[i] = <<request, i>>
      BY BytesShape
    <2>5. Bytes(request, 3) \in Seq(CommandBytes)
      <3>1. {request} \X (1..3) \subseteq CommandBytes
        BY <2>3 DEF CommandBytes
      <3> QED
        BY <2>4, <3>1, SeqMonotonic
    <2>6. \A i \in 1..Len(twi_in) : twi_in[i] = Bytes(request, 3)[i]
      BY <2>2, <2>4
    <2>7. twi_in = Bytes(request, 3)
      BY <2>2, <2>3, <2>4, <2>5, <2>6, SeqEqual
    <2> QED
      BY <2>3, <2>7 DEF Waiting
  <1>5. bus.by # "do" => doPc' = doPc
    BY <1>1
  <1>6. doPc' = "sleep" => executed' \/ (Waiting' /\ pc' # "clear")
    BY <1>1, <1>3, <1>4 DEF Exec, Waiting, mainVars
  <1>7. doPc' = "read" => executed'
    BY <1>1 DEF Exec, mainVars
  <1> QED
    BY <1>2, <1>6, <1>7 DEF Exec, Writing

LEMMA ExecStartWrite ==
  ASSUME Base, Exec, NEW who \in {"do", "key"}, StartWrite(who), Clean'
  PROVE  Exec'
  <1>1. CASE TWEA /\ Begins(who, "write") /\ SR_SLA_ACK /\ UNCHANGED doPc
    <2>1. /\ bus'.op = "write" /\ bus'.on = TRUE /\ bus'.n = 0
          /\ twi_in' = <<>> /\ UNCHANGED <<mainVars, doPc>>
      BY <1>1 DEF Begins, SR_SLA_ACK, Interrupt
    <2>2. "overwritten" \notin mishaps' /\ "write in twi_step" \notin mishaps'
      BY DEF Clean
    <2>3. twi_in = <<>>
      BY <1>1, <2>2 DEF SR_SLA_ACK
    <2>4. pc \notin {"command", "clear"}
      BY <1>1, <2>2 DEF SR_SLA_ACK
    <2>5. ~Waiting
      BY <2>3, BytesAreThree DEF Waiting
    <2>6. Len(twi_in') = bus'.n /\ \A i \in 1..bus'.n : twi_in'[i] = <<request', i>>
      BY <2>1, EmptySeq
    <2> QED
      BY <2>1, <2>4, <2>5, <2>6 DEF Exec, mainVars
  <1>2. CASE /\ ~TWEA /\ BusFree
             /\ doPc' = IF who = "do" THEN "idle" ELSE doPc
             /\ UNCHANGED <<bus, gateVars>>
    <2>1. bus'.op # "write" /\ UNCHANGED <<pc, executed, twi_in>>
      BY <1>2 DEF BusFree, Free, gateVars, mainVars
    <2> QED
      BY <1>2, <2>1 DEF Exec, Writing, Waiting
  <1> QED
    BY <1>1, <1>2 DEF StartWrite

LEMMA ExecReads ==
  ASSUME Base, Exec,
         ReadByte \/ ReadEnds \/ \E who \in {"do", "run"} : StartRead(who) \/ ReadFails(who)
  PROVE  Exec'
  <1>1. UNCHANGED <<mainVars, twi_in>>
    BY DEF ReadByte, ReadEnds, StartRead, ReadFails, ST_DATA_ACK, ST_DATA_NACK, ST_LAST_DATA,
           ST_SLA_ACK, Interrupt, gateVars
  <1>2. bus'.op # "write"
    <2>1. CASE ReadByte
      BY <2>1 DEF ReadByte, Base, ClientTypes
    <2>2. CASE ReadEnds
      BY <2>2 DEF ReadEnds, Free
    <2>3. CASE \E who \in {"do", "run"} : StartRead(who)
      BY <2>3 DEF StartRead, Begins
    <2>4. CASE \E who \in {"do", "run"} : ReadFails(who)
      BY <2>4 DEF ReadFails, BusFree, Free, busVars
    <2> QED
      BY <2>1, <2>2, <2>3, <2>4
  <1>3. doPc' \in {"idle", doPc}
    BY DEF ReadByte, ReadEnds, StartRead, ReadFails, Takes, clientVars
  <1> QED
    BY <1>1, <1>2, <1>3 DEF Exec, Writing, Waiting, mainVars

LEMMA ExecOthers ==
  ASSUME Base, Exec, (\E r \in Requests : Do(r)) \/ Wake \/ Notified \/ UNCHANGED vars
  PROVE  Exec'
  <1>1. CASE \E r \in Requests : Do(r)
    <2>1. doPc = "idle" /\ doPc' = "write" /\ UNCHANGED <<pc, twi_in, bus>>
      BY <1>1 DEF Do, busVars
    <2>2. bus.by # "do"
      BY <2>1, DoTransfer DEF Base
    <2> QED
      BY <2>1, <2>2 DEF Exec, Writing
  <1>2. CASE Wake
    <2>1. /\ doPc = "sleep" /\ doPc' = "read" /\ twi_in = <<>>
          /\ UNCHANGED <<pc, twi_in, bus, executed>>
      BY <1>2 DEF Wake, gateVars, mainVars, busVars
    <2>2. bus.by # "do" /\ ~Waiting
      BY <2>1, DoTransfer, BytesAreThree DEF Base, Waiting
    <2> QED
      BY <2>1, <2>2 DEF Exec, Writing
  <1>3. CASE Notified \/ UNCHANGED vars
    <2>1. UNCHANGED <<pc, twi_in, bus, executed, doPc, request>>
      BY <1>3 DEF Notified, vars, gateVars, mainVars, busVars, clientVars
    <2> QED
      BY <2>1 DEF Exec, Writing, Waiting
  <1> QED
    BY <1>1, <1>2, <1>3

LEMMA ExecStep ==
  ASSUME Base, ExecInv, [Next]_vars
  PROVE  ExecInv'
  <1> SUFFICES ASSUME Clean' PROVE Exec'
    BY DEF ExecInv
  <1>1. Exec
    BY MishapsGrow DEF ExecInv, Clean
  <1>2. CASE Bus
    BY <1>1, <1>2, ExecWriteByte, ExecWriteEnds, ExecReads DEF Bus
  <1>3. CASE DoTransfers \/ RunTransfers \/ StartWrite("key")
    BY <1>1, <1>3, ExecStartWrite, ExecReads DEF DoTransfers, RunTransfers
  <1>4. CASE BusError
    BY <1>4 DEF BusError, BUS_ERROR, Clean
  <1> QED
    BY <1>1, <1>2, <1>3, <1>4, ExecGate, ExecOthers DEF Next

\* The command of a Do that comes to read has been executed: the 100 ms are
\* enough, whatever else is on the bus, unless the handler has marked it.
THEOREM MegaCommandsExecuted == Spec => []CommandsExecuted
  <1>1. Init => ExecInv
    BY DEF Init, Free, ExecInv, Exec, Writing
  <1>2. Base /\ ExecInv /\ [Next]_vars => ExecInv'
    BY ExecStep
  <1>3. ExecInv => CommandsExecuted
    BY DEF ExecInv, Exec, Clean, CommandsExecuted
  <1> QED
    BY MegaBase, <1>1, <1>2, <1>3, PTL DEF Spec

-----------------------------------------------------------------------------
(***************************************************************************)
(* What a reader gets.  It is sent the response to its end, or it has it     *)
(* all and what is still coming is padding.                                *)
(***************************************************************************)
\* The reader's bytes when the next is w.
Got(s, w) == IF s = <<>> \/ Len(s) <= s[1][2] THEN Append(s, w) ELSE s

LEMMA GotFilled ==
  ASSUME NEW S, NEW s \in Seq(S), NEW w \in S, NEW sizes
  PROVE  /\ Filled(s, sizes) => Got(s, w) = s
         /\ Filled(Append(s, w), sizes) => Got(s, w) = Append(s, w)
  <1>1. Len(s) \in Nat /\ Len(Append(s, w)) = Len(s) + 1
        /\ \A i \in 1..Len(s) : Append(s, w)[i] = s[i]
    BY LenProperties, AppendProperties
  <1>2. ASSUME Filled(s, sizes) PROVE Got(s, w) = s
    <2>1. s # <<>> /\ s[1] = <<0, Len(s) - 1>>
      BY <1>2 DEF Filled, Plain
    <2>2. s[1][2] = Len(s) - 1
      BY <2>1
    <2>3. ~(Len(s) <= s[1][2])
      BY <1>1, <2>2
    <2> QED
      BY <2>1, <2>3 DEF Got
  <1>3. ASSUME Filled(Append(s, w), sizes) PROVE Got(s, w) = Append(s, w)
    <2>1. CASE s = <<>>
      BY <2>1 DEF Got
    <2>2. CASE s # <<>>
      <3>1. 1 \in 1..Len(s)
        BY <1>1, <2>2, EmptySeq
      <3>2. s[1] = <<0, Len(s)>>
        <4>1. Append(s, w)[1] = <<0, Len(Append(s, w)) - 1>>
          BY <1>3 DEF Filled, Plain
        <4>2. Len(Append(s, w)) - 1 = Len(s)
          BY <1>1
        <4>3. Append(s, w)[1] = s[1]
          BY <1>1, <3>1
        <4> QED
          BY <4>1, <4>2, <4>3, Zenon
      <3>3. s[1][2] = Len(s)
        BY <3>2
      <3>4. Len(s) <= s[1][2]
        BY <1>1, <3>3
      <3> QED
        BY <3>4 DEF Got
    <2> QED
      BY <2>1, <2>2
  <1> QED
    BY <1>2, <1>3

LEMMA GotBegun ==
  ASSUME NEW S, NEW s \in Seq(S), NEW w \in S, NEW T, NEW data \in Seq(T), NEW k \in Nat,
         Begun(Append(s, w), data, k)
  PROVE  Got(s, w) = Append(s, w)
  <1>1. /\ Len(s) \in Nat /\ Len(Append(s, w)) = Len(s) + 1
        /\ \A i \in 1..Len(s) : Append(s, w)[i] = s[i]
        /\ Len(data) \in Nat
    BY LenProperties, AppendProperties
  <1>2. CASE s = <<>>
    BY <1>2 DEF Got
  <1>3. CASE s # <<>>
    <2>1. 1 \in 1..Len(s)
      BY <1>1, <1>3, EmptySeq
    <2>2. s[1] = <<0, Len(data)>>
      BY <1>1, <2>1 DEF Begun, Plain
    <2>3. s[1][2] = Len(data)
      BY <2>2
    <2>4. Len(s) = k /\ k <= Len(data)
      BY <1>1 DEF Begun
    <2> QED
      BY <2>3, <2>4 DEF Got
  <1> QED
    BY <1>2, <1>3

\* One byte more.
LEMMA BegunNext ==
  ASSUME NEW S, NEW s \in Seq(S), NEW data \in Seq(S), NEW k \in Nat, k < Len(data),
         Begun(s, data, k)
  PROVE  Begun(Append(s, data[k + 1]), data, k + 1)
  <1>1. Len(data) \in Nat /\ Len(s) = k + 1 /\ k + 1 \in 1..Len(data)
    BY LenProperties DEF Begun
  <1>2. data[k + 1] \in S
    BY <1>1, ElementOfSeq
  <1>3. PICK e \in S : e = data[k + 1]
    BY <1>2
  <1>4. /\ Len(Append(s, e)) = k + 2
        /\ \A i \in 1..(k + 1) : Append(s, e)[i] = s[i]
        /\ Append(s, e)[k + 2] = e
    <2>1. /\ Len(Append(s, e)) = Len(s) + 1
          /\ \A i \in 1..Len(s) : Append(s, e)[i] = s[i]
          /\ Append(s, e)[Len(s) + 1] = e
      BY AppendProperties
    <2> QED
      BY <1>1, <2>1
  <1>5. Append(s, e)[1] = Plain(Len(data))
    BY <1>4 DEF Begun
  <1>6. ASSUME NEW i \in 1..(k + 1) PROVE Append(s, e)[i + 1] = data[i]
    <2>1. CASE i \in 1..k
      <3>1. i + 1 \in 1..(k + 1)
        BY <2>1
      <3> QED
        BY <1>4, <2>1, <3>1 DEF Begun
    <2>2. CASE i = k + 1
      <3>1. i + 1 = k + 2
        BY <2>2
      <3> QED
        BY <1>3, <1>4, <2>2, <3>1
    <2>3. i \in 1..k \/ i = k + 1
      OBVIOUS
    <2> QED
      BY <2>1, <2>2, <2>3
  <1> QED
    BY <1>1, <1>3, <1>4, <1>5, <1>6 DEF Begun

\* All of the bytes.
LEMMA BegunFilled ==
  ASSUME NEW S, NEW s \in Seq(S), NEW data \in Seq(S), NEW sizes,
         Begun(s, data, Len(data)), Sound(data, sizes)
  PROVE  Filled(s, sizes)
  <1>1. Len(data) \in Nat /\ Len(s) = Len(data) + 1 /\ s # <<>>
    BY LenProperties, EmptySeq DEF Begun
  <1>2. Tail(s) \in Seq(S) /\ Len(Tail(s)) = Len(s) - 1
        /\ \A i \in 1..Len(Tail(s)) : Tail(s)[i] = s[i + 1]
    BY <1>1, HeadTailProperties
  <1>3. Len(Tail(s)) = Len(data)
    BY <1>1, <1>2
  <1>4. \A i \in 1..Len(Tail(s)) : Tail(s)[i] = data[i]
    BY <1>2, <1>3 DEF Begun
  <1>5. Tail(s) = data
    BY <1>2, <1>3, <1>4, SeqEqual
  <1>6. s[1] = Plain(Len(s) - 1)
    <2>1. Len(s) - 1 = Len(data)
      BY <1>1
    <2> QED
      BY <2>1 DEF Begun
  <1> QED
    BY <1>1, <1>5, <1>6 DEF Filled

\* A response stays whole when more answers are made.
LEMMA FilledGrows ==
  ASSUME NEW sizes \in Seq(Sizes), NEW n \in Sizes,
         NEW s \in Seq(AnyBytes(Len(sizes))), Filled(s, sizes)
  PROVE  Filled(s, Append(sizes, n))
  <1>1. s # <<>> /\ Sound(Tail(s), sizes)
    BY DEF Filled
  <1>2. Tail(s) \in Seq(AnyBytes(Len(sizes)))
    BY <1>1, HeadTailProperties
  <1>3. ASSUME NEW o \in 1..Len(Tail(s)) PROVE Tail(s)[o] \in PacketsOf(Len(sizes))
    <2>1. Tail(s)[o] \in AnyBytes(Len(sizes))
      BY <1>2, ElementOfSeq
    <2>2. Tail(s)[o][1] # 0
      BY <1>1 DEF Sound, WholeOf
    <2> QED
      BY <2>1, <2>2 DEF AnyBytes, PlainBytes
  <1>4. Tail(s) \in Seq(PacketsOf(Len(sizes)))
    <2>1. Len(Tail(s)) \in Nat /\ Tail(s) \in [1..Len(Tail(s)) -> AnyBytes(Len(sizes))]
      BY <1>2, LenProperties
    <2>2. Tail(s) \in [1..Len(Tail(s)) -> PacketsOf(Len(sizes))]
      BY <1>3, <2>1
    <2> QED
      BY <2>1, <2>2, FunctionIsSeq
  <1>5. Sound(Tail(s), Append(sizes, n))
    BY <1>1, <1>4, SoundGrows
  <1> QED
    BY <1>1, <1>5 DEF Filled

\* With the byte going out the reader has all of the response.
Held == Filled(rs, made) \/ Filled(Append(rs, TWDR), made)
\* It has a beginning of it, and the gate is sending the rest.
Sending ==
  /\ TWEA /\ twi_out.used = bus.n /\ twi_out.used < Len(twi_out.data)
  /\ Begun(Append(rs, TWDR), twi_out.data, twi_out.used)

Buffers ==
  /\ Sound(master_out, made) /\ Sound(twi_out.data, made)
  /\ \A x \in In(twi_out.data), y \in In(master_out) : x < y

Flow ==
  /\ Buffers
  /\ ~Reading => twi_out.used = 0
  /\ Reading => Held \/ Sending
  /\ bus.op = "read" /\ ~bus.on => Filled(rs, made) \/ "bus error" \in mishaps
  /\ pc = "swap" => \/ twi_out.data = <<>>
                    \/ Reading /\ Held
                    \/ ~TWEA /\ ~bus.on

FlowInv == "overflow" \notin mishaps => Flow

LEMMA FlowTypes ==
  ASSUME Base
  PROVE  /\ made \in Seq(Sizes) /\ Len(made) \in Nat
         /\ master_out \in Seq(PacketsOf(Len(made))) /\ twi_out.data \in Seq(PacketsOf(Len(made)))
         /\ master_out \in Seq(AnyBytes(Len(made))) /\ twi_out.data \in Seq(AnyBytes(Len(made)))
         /\ rs \in Seq(AnyBytes(Len(made))) /\ TWDR \in AnyBytes(Len(made))
         /\ Append(rs, TWDR) \in Seq(AnyBytes(Len(made)))
         /\ Len(twi_out.data) \in Nat /\ Len(twi_out.data) <= RESPONSE_MAX_LENGTH
         /\ twi_out.used \in Nat /\ bus.n \in Nat
  <1>1. /\ made \in Seq(Sizes) /\ rs \in Seq(AnyBytes(Len(made))) /\ TWDR \in AnyBytes(Len(made))
        /\ master_out \in Seq(PacketsOf(Len(made))) /\ twi_out.data \in Seq(PacketsOf(Len(made)))
        /\ Len(twi_out.data) <= RESPONSE_MAX_LENGTH
        /\ twi_out.used \in Nat /\ bus.n \in Nat
    BY DEF Base, GateTypes, ClientTypes
  <1>2. PacketsOf(Len(made)) \subseteq AnyBytes(Len(made))
    BY DEF AnyBytes
  <1>3. master_out \in Seq(AnyBytes(Len(made))) /\ twi_out.data \in Seq(AnyBytes(Len(made)))
    BY <1>1, <1>2, SeqMonotonic
  <1>4. Append(rs, TWDR) \in Seq(AnyBytes(Len(made)))
    BY <1>1, AppendProperties
  <1>5. Len(made) \in Nat /\ Len(twi_out.data) \in Nat
    BY <1>1, LenProperties
  <1> QED
    BY <1>1, <1>3, <1>4, <1>5

\* A packet for master_out comes after all there is.
LEMMA BuffersSay ==
  ASSUME Base, Buffers, NEW n \in Sizes, Say(n), "overflow" \notin mishaps'
  PROVE  /\ Buffers' /\ made' = Append(made, n) /\ UNCHANGED <<twi_out, mishaps>>
         /\ master_out' = master_out \o Bytes(Len(made) + 1, n)
         /\ In(master_out') = In(master_out) \cup {Len(made) + 1}
  <1>1. /\ made' = Append(made, n) /\ master_out' = master_out \o Bytes(Len(made) + 1, n)
        /\ UNCHANGED <<twi_out, mishaps>>
    BY DEF Say
  <1>2. Sound(master_out, made) /\ Sound(twi_out.data, made)
    BY DEF Buffers
  <1>3. /\ made \in Seq(Sizes) /\ Len(made) \in Nat
        /\ master_out \in Seq(PacketsOf(Len(made))) /\ twi_out.data \in Seq(PacketsOf(Len(made)))
        /\ master_out \in Seq(AnyBytes(Len(made))) /\ twi_out.data \in Seq(AnyBytes(Len(made)))
    BY FlowTypes
  <1>4. Sound(master_out \o Bytes(Len(made) + 1, n), Append(made, n))
    BY <1>2, <1>3, SoundSay
  <1>5. Sound(twi_out.data, Append(made, n))
    BY <1>2, <1>3, SoundGrows
  <1>6. In(master_out \o Bytes(Len(made) + 1, n)) = In(master_out) \cup {Len(made) + 1}
    <2>1. n \in Nat /\ n \in Nat \ {0}
      BY SizesFacts
    <2>2. Bytes(Len(made) + 1, n) \in Seq({Len(made) + 1} \X (1..n))
      BY <2>1, BytesShape
    <2>3. {Len(made) + 1} \X (1..n) \subseteq PacketsOf(Len(made) + 1)
      BY <1>3, SizesFacts DEF PacketsOf
    <2>4. Bytes(Len(made) + 1, n) \in Seq(PacketsOf(Len(made) + 1))
      BY <2>2, <2>3, SeqMonotonic
    <2>5. master_out \in Seq(PacketsOf(Len(made) + 1))
      BY <1>3, MorePackets
    <2>6. In(Bytes(Len(made) + 1, n)) = {Len(made) + 1}
      BY <1>3, <2>1, InBytes
    <2> QED
      BY <2>4, <2>5, <2>6, InConcat
  <1>7. In(twi_out.data) \subseteq 1..Len(made)
    BY <1>3, InPackets
  <1>8. \A x \in In(twi_out'.data), y \in In(master_out') : x < y
    <2>1. \A x \in In(twi_out.data), y \in In(master_out) : x < y
      BY DEF Buffers
    <2>2. \A x \in In(twi_out.data) : x < Len(made) + 1
      BY <1>3, <1>7
    <2> QED
      BY <1>1, <1>6, <2>1, <2>2
  <1>9. Buffers'
    BY <1>1, <1>4, <1>5, <1>8 DEF Buffers
  <1> QED
    BY <1>1, <1>6, <1>9

\* What a reader has stays true when an answer is made.
LEMMA HeldSay ==
  ASSUME Base, NEW n \in Sizes, made' = Append(made, n), UNCHANGED <<rs, TWDR>>
  PROVE  /\ Held => Held'
         /\ Filled(rs, made) => Filled(rs, made)'
  <1>1. /\ made \in Seq(Sizes) /\ rs \in Seq(AnyBytes(Len(made)))
        /\ Append(rs, TWDR) \in Seq(AnyBytes(Len(made)))
    BY FlowTypes
  <1>2. Filled(rs, made) => Filled(rs, Append(made, n))
    BY <1>1, FilledGrows
  <1>3. Filled(Append(rs, TWDR), made) => Filled(Append(rs, TWDR), Append(made, n))
    BY <1>1, FilledGrows
  <1> QED
    BY <1>2, <1>3 DEF Held

\* An action that says something, or nothing.
SaysOrNot ==
  \/ \E n \in Sizes : Say(n)
  \/ UNCHANGED <<made, master_out, twi_out, mishaps>>

LEMMA FlowSays ==
  ASSUME Base, Flow, SaysOrNot, "overflow" \notin mishaps',
         UNCHANGED <<busVars, TWEA, TWDR>>, pc' # "swap"
  PROVE  Flow'
  <1>1. /\ Buffers' /\ UNCHANGED <<twi_out, mishaps>> /\ (Held => Held')
        /\ (Filled(rs, made) => Filled(rs, made)')
    <2>1. CASE \E n \in Sizes : Say(n)
      <3>1. PICK n \in Sizes : Say(n)
        BY <2>1
      <3>2. Buffers' /\ made' = Append(made, n) /\ UNCHANGED <<twi_out, mishaps>>
        BY <3>1, BuffersSay DEF Flow
      <3> QED
        BY <3>2, HeldSay DEF busVars
    <2>2. CASE UNCHANGED <<made, master_out, twi_out, mishaps>>
      BY <2>2 DEF Flow, Buffers, Held, busVars
    <2> QED
      BY <2>1, <2>2 DEF SaysOrNot
  <1>2. UNCHANGED <<bus, rs, TWEA, TWDR>>
    BY DEF busVars
  <1>3. Sending => Sending'
    BY <1>1, <1>2 DEF Sending
  <1>4. Reading' <=> Reading
    BY <1>2 DEF Reading
  <1> QED
    BY <1>1, <1>2, <1>3, <1>4 DEF Flow

LEMMA HandoverSwaps ==
  ASSUME Base, Flow, Handover = "swap"
  PROVE  twi_out.data = <<>> \/ (Reading /\ Held)
  <1>1. twi_out.used >= Len(twi_out.data) /\ twi_out.used \in Nat /\ Len(twi_out.data) \in Nat
    BY FlowTypes DEF Handover, ReadOut
  <1>2. CASE Reading
    <2>1. ~Sending
      BY <1>1 DEF Sending
    <2> QED
      BY <1>2, <2>1 DEF Flow
  <1>3. CASE ~Reading
    <2>1. Len(twi_out.data) = 0
      <3>1. twi_out.used = 0
        BY <1>3 DEF Flow
      <3> QED
        BY <1>1, <3>1
    <2>2. twi_out.data \in Seq(PacketsOf(Len(made)))
      BY FlowTypes
    <2> QED
      BY <2>1, <2>2, EmptySeq
  <1> QED
    BY <1>2, <1>3

LEMMA FlowGate ==
  ASSUME Base, Flow, Gate, "overflow" \notin mishaps'
  PROVE  Flow'
  <1>0. UNCHANGED <<busVars, TWEA, TWDR>>
    BY DEF Gate, MainLoop, LookAtIdle, NoCommand, Command, Clear, Swap, MdbStep, sendVars
  <1>1. CASE LookAtIdle
    BY <1>0, <1>1, FlowSays DEF LookAtIdle, SaysOrNot, sendVars
  <1>2. CASE Command
    <2>1. SaysOrNot /\ pc' = "clear"
      BY <1>2, SizesFacts DEF Command, Answered, SaysOrNot
    <2> QED
      BY <1>0, <2>1, FlowSays
  <1>3. CASE MdbStep
    <2>1. SaysOrNot /\ pc' = "pass"
      BY <1>3, SizesFacts DEF MdbStep, SaysOrNot
    <2> QED
      BY <1>0, <2>1, FlowSays
  <1>4. CASE NoCommand \/ Clear
    <2>1. /\ UNCHANGED <<master_out, made, twi_out, TWEA, TWDR, bus, rs, mishaps>>
          /\ pc' = Handover
      BY <1>0, <1>4 DEF NoCommand, Clear, sendVars, busVars
    <2>2. (Held <=> Held') /\ (Sending <=> Sending') /\ (Reading <=> Reading')
          /\ (Buffers <=> Buffers') /\ (Filled(rs, made) <=> Filled(rs, made)')
      BY <2>1 DEF Held, Sending, Reading, Buffers
    <2>3. pc' = "swap" => twi_out.data = <<>> \/ (Reading /\ Held)
      BY <2>1, HandoverSwaps
    <2> QED
      BY <2>1, <2>2, <2>3 DEF Flow
  <1>5. CASE Swap
    <2>1. /\ pc = "swap" /\ pc' = "mdb" /\ master_out' = <<>>
          /\ twi_out'.data = master_out /\ twi_out'.used = 0
          /\ UNCHANGED <<made, TWEA, TWDR, bus, rs, mishaps>>
      BY <1>0, <1>5 DEF Swap, busVars
    <2>2. (Held <=> Held') /\ (Reading <=> Reading') /\ (Filled(rs, made) <=> Filled(rs, made)')
      BY <2>1 DEF Held, Reading
    <2>3. In(master_out') = {} /\ Sound(master_out', made')
      BY <2>1, InEmpty, SoundEmpty
    <2>4. Buffers'
      BY <2>1, <2>3 DEF Flow, Buffers
    <2>5. Reading => Held
      <3>1. ASSUME Reading, ~Held PROVE FALSE
        <4>1. twi_out.data = <<>>
          BY <2>1, <3>1 DEF Flow, Reading
        <4>2. Sending
          BY <3>1 DEF Flow
        <4>3. twi_out.used < 0 /\ twi_out.used \in Nat
          BY <4>1, <4>2, FlowTypes DEF Sending
        <4> QED
          BY <4>3
      <3> QED
        BY <3>1
    <2> QED
      BY <2>1, <2>2, <2>4, <2>5 DEF Flow
  <1> QED
    BY <1>1, <1>2, <1>3, <1>4, <1>5 DEF Gate, MainLoop

\* The response is emptied or left as it is.
LEMMA BuffersKept ==
  ASSUME Base, Buffers, UNCHANGED <<master_out, made>>, twi_out'.data \in {twi_out.data, <<>>}
  PROVE  Buffers'
  <1>1. CASE twi_out'.data = twi_out.data
    BY <1>1 DEF Buffers
  <1>2. CASE twi_out'.data = <<>>
    <2>1. In(twi_out'.data) = {} /\ Sound(twi_out'.data, made')
      BY <1>2, InEmpty, SoundEmpty
    <2> QED
      BY <2>1 DEF Buffers
  <1> QED
    BY <1>1, <1>2

LEMMA FlowReadByte ==
  ASSUME Base, Flow, ReadByte
  PROVE  Flow'
  <1>1. Reading /\ bus.op = "read" /\ bus.on /\ rs' = Got(rs, TWDR) /\ UNCHANGED clientVars
    BY DEF ReadByte, Reading, Got
  <1>2. bus'.op = "read" /\ bus'.on = (TWEA /\ ~LastByte) /\ bus'.n = bus.n + 1
    BY <1>1 DEF ReadByte, Base, ClientTypes
  <1>3. UNCHANGED mainVars
    BY DEF ReadByte, ST_DATA_ACK, ST_DATA_NACK, ST_LAST_DATA, Interrupt
  <1>4. /\ made \in Seq(Sizes) /\ twi_out.data \in Seq(AnyBytes(Len(made)))
        /\ rs \in Seq(AnyBytes(Len(made))) /\ TWDR \in AnyBytes(Len(made))
        /\ Append(rs, TWDR) \in Seq(AnyBytes(Len(made)))
        /\ Len(twi_out.data) \in Nat /\ Len(twi_out.data) <= RESPONSE_MAX_LENGTH
        /\ twi_out.used \in Nat /\ bus.n \in Nat
    BY FlowTypes
  <1>5. Held => Filled(rs', made)
    BY <1>1, <1>4, GotFilled DEF Held
  <1>6. Sending => rs' = Append(rs, TWDR)
    BY <1>1, <1>4, GotBegun DEF Sending
  <1>7. Sending => TWEA /\ ~LastByte
    BY <1>4, SizesFacts DEF Sending, LastByte
  <1>8. Held \/ Sending
    BY <1>1 DEF Flow
  <1>9. CASE TWEA /\ ~LastByte
    <2>1. ST_DATA_ACK
      BY <1>9 DEF ReadByte
    <2>2. twi_out'.data = twi_out.data
      BY <2>1 DEF ST_DATA_ACK, Base, GateTypes
    <2>3. Held' \/ Sending'
      <3>1. CASE Held
        BY <1>3, <1>5, <3>1 DEF Held, mainVars
      <3>2. CASE Sending
        <4>1. ~ReadOut /\ twi_out.used < Len(twi_out.data) /\ twi_out.used = bus.n
          BY <1>4, <3>2 DEF ReadOut, Sending
        <4>2. /\ TWEA' = TRUE /\ TWDR' = twi_out.data[twi_out.used + 1]
              /\ twi_out'.used = twi_out.used + 1
          BY <2>1, <4>1 DEF ST_DATA_ACK, Base, GateTypes
        <4>3. Begun(Append(rs', TWDR'), twi_out.data, twi_out.used + 1)
          <5>1. Begun(rs', twi_out.data, twi_out.used)
            BY <1>6, <3>2 DEF Sending
          <5>2. rs' \in Seq(AnyBytes(Len(made)))
            BY <1>4, <1>6, <3>2
          <5>3. Begun(Append(rs', twi_out.data[twi_out.used + 1]), twi_out.data, twi_out.used + 1)
            BY <1>4, <4>1, <5>1, <5>2, BegunNext
          <5> QED
            BY <4>2, <5>3
        <4>4. CASE twi_out.used + 1 < Len(twi_out.data)
          <5>1. twi_out'.used = bus'.n
            BY <1>2, <4>1, <4>2
          <5> QED
            BY <2>2, <4>2, <4>3, <4>4, <5>1 DEF Sending
        <4>5. CASE ~(twi_out.used + 1 < Len(twi_out.data))
          <5>1. twi_out.used + 1 = Len(twi_out.data)
            BY <1>4, <4>1, <4>5
          <5>2. Begun(Append(rs', TWDR'), twi_out.data, Len(twi_out.data))
            BY <4>3, <5>1
          <5>3. Append(rs', TWDR') \in Seq(AnyBytes(Len(made)))
            <6>1. rs' \in Seq(AnyBytes(Len(made)))
              BY <1>4, <1>6, <3>2
            <6>2. twi_out.used + 1 \in 1..Len(twi_out.data)
              BY <1>4, <4>1
            <6>3. TWDR' \in AnyBytes(Len(made))
              BY <1>4, <4>2, <6>2, ElementOfSeq
            <6> QED
              BY <6>1, <6>3, AppendProperties
          <5>4. Filled(Append(rs', TWDR'), made)
            BY <1>4, <5>2, <5>3, BegunFilled DEF Flow, Buffers
          <5> QED
            BY <1>3, <5>4 DEF Held, mainVars
        <4> QED
          BY <4>4, <4>5
      <3> QED
        BY <1>8, <3>1, <3>2
    <2>4. Reading' /\ bus'.on
      BY <1>2, <1>9 DEF Reading
    <2>5. pc' = "swap" => twi_out'.data = <<>> \/ Held'
      <3>1. pc' = "swap" => twi_out.data = <<>> \/ Held
        BY <1>1, <1>3 DEF Flow, mainVars
      <3>2. Held => Held'
        BY <1>3, <1>5 DEF Held, mainVars
      <3> QED
        BY <2>2, <3>1, <3>2
    <2>6. Buffers'
      BY <1>3, <2>2, BuffersKept DEF Flow, mainVars
    <2> QED
      BY <2>3, <2>4, <2>5, <2>6 DEF Flow
  <1>10. CASE ~(TWEA /\ ~LastByte)
    <2>1. bus'.on = FALSE
      BY <1>2, <1>10, Zenon
    <2>2. Filled(rs', made')
      BY <1>3, <1>5, <1>7, <1>8, <1>10 DEF mainVars
    <2>3. /\ twi_out'.used = 0 /\ twi_out'.data \in {twi_out.data, <<>>}
          /\ twi_out'.data = <<>> \/ TWEA' = FALSE
      <3>1. CASE LastByte /\ ST_DATA_NACK
        BY <3>1 DEF ST_DATA_NACK, Base, GateTypes
      <3>2. CASE ~LastByte /\ ~TWEA /\ ST_LAST_DATA
        BY <3>2 DEF ST_LAST_DATA, EmptyOut
      <3> QED
        BY <1>10, <3>1, <3>2 DEF ReadByte
    <2>4. Buffers'
      BY <1>3, <2>3, BuffersKept DEF Flow, mainVars
    <2>5. ~Reading'
      BY <2>1 DEF Reading
    <2> QED
      BY <2>1, <2>2, <2>3, <2>4, <2>5 DEF Flow
  <1> QED
    BY <1>9, <1>10

\* A write leaves the response alone.
LEMMA FlowWrites ==
  ASSUME Base, Flow,
         WriteByte \/ WriteEnds \/ \E who \in {"do", "key"} : StartWrite(who),
         "overflow" \notin mishaps'
  PROVE  Flow'
  <1>1. CASE WriteByte
    <2>1. /\ bus.op = "write" /\ bus.on /\ bus'.op = "write" /\ bus'.on
          /\ UNCHANGED <<made, master_out, twi_out, mishaps, pc>>
      BY <1>1 DEF WriteByte, SR_DATA_ACK, Interrupt, mainVars, Base, ClientTypes
    <2>2. pc' = "swap" => twi_out'.data = <<>>
      BY <2>1 DEF Flow, Reading
    <2> QED
      BY <2>1, <2>2 DEF Flow, Buffers, Reading
  <1>2. CASE WriteEnds
    <2>1. /\ bus.op = "write" /\ bus'.op # "read" /\ bus'.on = FALSE
          /\ UNCHANGED <<made, master_out, twi_out, mishaps, pc>>
          /\ bus.on \/ TWEA' = TWEA
      BY <1>2 DEF WriteEnds, SR_STOP, Interrupt, mainVars, gateVars, sendVars, Free
    <2>2. pc' = "swap" => twi_out'.data = <<>> \/ (~TWEA' /\ ~bus'.on)
      BY <2>1 DEF Flow, Reading
    <2> QED
      BY <2>1, <2>2 DEF Flow, Buffers, Reading
  <1>3. ASSUME NEW who \in {"do", "key"}, StartWrite(who) PROVE Flow'
    <2>1. CASE TWEA /\ Begins(who, "write") /\ SR_SLA_ACK /\ UNCHANGED doPc
      <3>1. /\ bus = Free /\ TWEA /\ bus'.op = "write"
            /\ UNCHANGED <<made, master_out, twi_out, pc>>
        BY <2>1 DEF Begins, BusFree, SR_SLA_ACK, Interrupt, mainVars
      <3>2. bus.op = "none" /\ ~Reading /\ ~Reading'
        BY <3>1 DEF Free, Reading
      <3>3. pc' = "swap" => twi_out'.data = <<>>
        BY <3>1, <3>2 DEF Flow
      <3> QED
        BY <3>1, <3>2, <3>3 DEF Flow, Buffers
    <2>2. CASE /\ ~TWEA /\ BusFree
               /\ doPc' = IF who = "do" THEN "idle" ELSE doPc
               /\ UNCHANGED <<bus, gateVars>>
      <3>1. /\ bus.op = "none" /\ UNCHANGED <<bus, made, master_out, twi_out, mishaps, pc, TWEA>>
        BY <2>2 DEF BusFree, Free, gateVars, mainVars, sendVars
      <3> QED
        BY <3>1 DEF Flow, Buffers, Reading
    <2> QED
      BY <1>3, <2>1, <2>2 DEF StartWrite
  <1> QED
    BY <1>1, <1>2, <1>3

\* The first byte of a response is its length.
LEMMA FirstByte ==
  ASSUME Base, NEW who, StartRead(who)
  PROVE  /\ Append(rs', TWDR') \in Seq(AnyBytes(Len(made)))
         /\ Begun(Append(rs', TWDR'), twi_out.data, 0)
  <1>1. rs' = <<>> /\ TWDR' = Plain(Len(twi_out.data))
    BY DEF StartRead, ST_SLA_ACK
  <1>2. /\ twi_out.data \in Seq(AnyBytes(Len(made))) /\ Len(twi_out.data) \in Nat
        /\ TWDR' \in AnyBytes(Len(made))
    BY <1>1, FlowTypes, PlainBytesAre DEF Base
  <1>3. PICK w : w = TWDR'
    OBVIOUS
  <1>4. Append(rs', TWDR') = <<w>> /\ <<w>> \in Seq(AnyBytes(Len(made))) /\ Len(<<w>>) = 1
        /\ <<w>>[1] = w
    BY <1>1, <1>2, <1>3
  <1>5. Begun(<<w>>, twi_out.data, 0)
    BY <1>1, <1>2, <1>3, <1>4 DEF Begun
  <1> QED
    BY <1>4, <1>5

LEMMA FlowStartRead ==
  ASSUME Base, Flow, NEW who, StartRead(who)
  PROVE  Flow'
  <1>1. /\ bus = Free /\ TWEA /\ rs' = <<>>
        /\ bus'.op = "read" /\ bus'.n = 0 /\ bus'.on = TRUE
        /\ UNCHANGED mainVars
        /\ TWDR' = Plain(Len(twi_out.data)) /\ TWEA' = (twi_out.data # <<>>)
    BY DEF StartRead, Begins, BusFree, ST_SLA_ACK, Interrupt
  <1>2. twi_out'.data = twi_out.data /\ twi_out'.used = 0
    BY DEF StartRead, ST_SLA_ACK, Base, GateTypes
  <1>3. ~Reading /\ Reading'
    BY <1>1 DEF Reading, Free
  <1>4. Buffers'
    BY <1>1, <1>2, BuffersKept DEF Flow, mainVars
  <1>5. pc' = "swap" => twi_out'.data = <<>>
    BY <1>1, <1>2, <1>3 DEF Flow, mainVars
  <1>6. /\ twi_out.data \in Seq(AnyBytes(Len(made))) /\ Len(twi_out.data) \in Nat
        /\ Append(rs', TWDR') \in Seq(AnyBytes(Len(made)))
        /\ Begun(Append(rs', TWDR'), twi_out.data, 0)
    BY FlowTypes, FirstByte
  <1>7. CASE twi_out.data = <<>>
    <2>1. Len(twi_out.data) = 0
      BY <1>7
    <2>2. Filled(Append(rs', TWDR'), made)
      BY <1>6, <2>1, BegunFilled DEF Flow, Buffers
    <2>3. Held'
      BY <1>1, <2>2 DEF Held, mainVars
    <2> QED
      BY <1>1, <1>3, <1>4, <1>5, <2>3 DEF Flow
  <1>8. CASE twi_out.data # <<>>
    <2>1. 0 < Len(twi_out.data)
      BY <1>6, <1>8, EmptySeq
    <2>2. Sending'
      BY <1>1, <1>2, <1>6, <1>8, <2>1 DEF Sending
    <2> QED
      BY <1>1, <1>3, <1>4, <1>5, <2>2 DEF Flow
  <1> QED
    BY <1>7, <1>8

LEMMA FlowOthers ==
  ASSUME Base, Flow,
         \/ ReadEnds \/ Wake \/ Notified \/ BusError \/ UNCHANGED vars
         \/ \E r \in Requests : Do(r)
         \/ \E who \in {"do", "run"} : ReadFails(who)
  PROVE  Flow'
  <1>1. CASE ReadEnds
    <2>1. /\ bus.op = "read" /\ ~bus.on /\ bus'.op = "none" /\ bus'.on = FALSE
          /\ UNCHANGED <<made, master_out, twi_out, mishaps, pc, TWEA>>
      BY <1>1 DEF ReadEnds, Free, gateVars, mainVars, sendVars
    <2> QED
      BY <2>1 DEF Flow, Buffers, Reading
  <1>2. CASE BusError
    <2>1. /\ UNCHANGED mainVars /\ twi_out'.data = <<>> /\ twi_out'.used = 0
          /\ "bus error" \in mishaps' /\ bus'.on = FALSE
      BY <1>2 DEF BusError, BUS_ERROR, Interrupt, EmptyOut, Base, ClientTypes
    <2>2. Buffers'
      BY <2>1, BuffersKept DEF Flow, mainVars
    <2> QED
      BY <2>1, <2>2 DEF Flow, Reading
  <1>3. CASE \/ Wake \/ Notified \/ UNCHANGED vars \/ \E r \in Requests : Do(r)
             \/ \E who \in {"do", "run"} : ReadFails(who)
    <2>1. UNCHANGED <<made, master_out, twi_out, mishaps, pc, TWEA, TWDR, bus, rs>>
      BY <1>3 DEF Wake, Notified, vars, Do, ReadFails, gateVars, mainVars, sendVars, busVars
    <2> QED
      BY <2>1 DEF Flow, Buffers, Reading, Held, Sending
  <1> QED
    BY <1>1, <1>2, <1>3

LEMMA FlowStep ==
  ASSUME Base, FlowInv, [Next]_vars
  PROVE  FlowInv'
  <1> SUFFICES ASSUME "overflow" \notin mishaps' PROVE Flow'
    BY DEF FlowInv
  <1>1. Flow
    BY MishapsGrow DEF FlowInv
  <1>2. CASE Bus
    BY <1>1, <1>2, FlowWrites, FlowReadByte, FlowOthers DEF Bus
  <1>3. CASE DoTransfers \/ RunTransfers \/ StartWrite("key")
    BY <1>1, <1>3, FlowWrites, FlowStartRead, FlowOthers DEF DoTransfers, RunTransfers
  <1> QED
    BY <1>1, <1>2, <1>3, FlowGate, FlowOthers DEF Next

LEMMA FlowInit ==
  ASSUME Init
  PROVE  FlowInv
  <1>1. /\ made = <<Hello>> /\ master_out = Bytes(1, Hello) /\ twi_out = EmptyOut
        /\ bus = Free /\ pc = "pass"
    BY DEF Init, GateInit
  <1>2. twi_out.data = <<>> /\ twi_out.used = 0 /\ bus.op = "none"
    BY <1>1 DEF EmptyOut, Free
  <1>3. Sound(Bytes(1, Hello), <<Hello>>)
    <2>1. <<>> \in Seq(Sizes) /\ <<>> \in Seq(PacketsOf(0)) /\ Len(<<>>) = 0
      BY EmptySeq
    <2>2. Sound(<<>> \o Bytes(0 + 1, Hello), Append(<<>>, Hello))
      <3>1. Sound(<<>>, <<>>)
        BY SoundEmpty
      <3> QED
        BY <2>1, <3>1, SizesFacts, SoundSay
    <2>3. Append(<<>>, Hello) = <<Hello>> /\ 0 + 1 = 1
      OBVIOUS
    <2>4. Bytes(1, Hello) \in Seq({1} \X (1..Hello))
      BY SizesFacts, BytesShape
    <2>5. <<>> \o Bytes(1, Hello) = Bytes(1, Hello)
      BY <2>4, ConcatEmptySeq
    <2> QED
      BY <2>2, <2>3, <2>5
  <1>4. Buffers
    BY <1>1, <1>2, <1>3, InEmpty, SoundEmpty DEF Buffers
  <1> QED
    BY <1>1, <1>2, <1>4 DEF FlowInv, Flow, Reading

\* Every buffer is whole packets in the order they were made, and a reader gets
\* a whole response, unless an overflow or an error on the bus cut it.
THEOREM MegaFlow == Spec => []FlowInv
  BY MegaBase, FlowInit, FlowStep, PTL DEF Spec

-----------------------------------------------------------------------------
(***************************************************************************)
(* The order.  What the client has was made before what it is reading, that  *)
(* before what is to be read, and that before what is collected.           *)
(***************************************************************************)
Coming == IF Reading THEN Append(rs, TWDR) ELSE rs

Ahead ==
  /\ Under(Taken, In(master_out)) /\ Under(Taken, In(twi_out.data))
  /\ bus.op = "read" =>
       /\ Under(Taken, In(Coming)) /\ Under(In(Coming), In(master_out))
       /\ ~bus.on => Under(In(rs), In(twi_out.data))

Order ==
  /\ TWEA \/ ~BusFree => Increasing(taken)
  /\ TWEA \/ bus.on => Ahead

OrderInv == "overflow" \notin mishaps => Order

LEMMA OrderTypes ==
  ASSUME Base
  PROVE  /\ taken \in Seq(1..Len(made)) /\ Len(taken) \in Nat
         /\ Taken = {taken[i] : i \in 1..Len(taken)} /\ Taken \subseteq 1..Len(made)
         /\ In(rs) \subseteq 1..Len(made) /\ In(Append(rs, TWDR)) \subseteq 1..Len(made)
         /\ In(Append(rs, TWDR)) = In(rs) \cup ({TWDR[1]} \ {0})
         /\ In(Coming) \subseteq 1..Len(made)
  <1>1. taken \in Seq(1..Len(made)) /\ Len(taken) \in Nat
    BY LenProperties DEF Base, ClientTypes
  <1>2. Taken = {taken[i] : i \in 1..Len(taken)}
    BY <1>1, RangeEquality DEF Taken
  <1>3. Taken \subseteq 1..Len(made)
    BY <1>1, <1>2, ElementOfSeq
  <1>4. In(rs) \subseteq 1..Len(made) /\ In(Append(rs, TWDR)) \subseteq 1..Len(made)
    BY FlowTypes, InPackets
  <1>5. In(Append(rs, TWDR)) = In(rs) \cup ({TWDR[1]} \ {0})
    BY FlowTypes, InAppend
  <1> QED
    BY <1>1, <1>2, <1>3, <1>4, <1>5 DEF Coming

LEMMA OrderSays ==
  ASSUME Base, Flow, Order, SaysOrNot, "overflow" \notin mishaps',
         UNCHANGED <<busVars, clientVars, TWEA, TWDR>>
  PROVE  Order'
  <1>1. UNCHANGED <<bus, rs, TWEA, TWDR, taken>>
    BY DEF busVars, clientVars
  <1>2. (Coming' = Coming) /\ (BusFree' <=> BusFree) /\ Taken' = Taken
    BY <1>1 DEF Coming, Reading, BusFree, Taken
  <1>3. twi_out' = twi_out /\ In(master_out') \subseteq In(master_out) \cup {Len(made) + 1}
    <2>1. CASE \E n \in Sizes : Say(n)
      BY <2>1, BuffersSay DEF Flow
    <2>2. CASE UNCHANGED <<made, master_out, twi_out, mishaps>>
      BY <2>2
    <2> QED
      BY <2>1, <2>2 DEF SaysOrNot
  <1>4. Taken \subseteq 1..Len(made) /\ In(Coming) \subseteq 1..Len(made) /\ Len(made) \in Nat
    BY OrderTypes, FlowTypes
  <1>5. Ahead => Ahead'
    <2>1. \A S \in SUBSET (1..Len(made)) :
            Under(S, In(master_out)) => Under(S, In(master_out'))
      <3> SUFFICES ASSUME NEW S \in SUBSET (1..Len(made)), Under(S, In(master_out)),
                          NEW x \in S, NEW y \in In(master_out')
                   PROVE  x < y
        BY DEF Under
      <3>1. x < Len(made) + 1
        BY <1>4
      <3> QED
        BY <1>3, <3>1 DEF Under
    <2> QED
      BY <1>1, <1>2, <1>3, <1>4, <2>1 DEF Ahead
  <1> QED
    BY <1>1, <1>2, <1>5 DEF Order

LEMMA OrderGate ==
  ASSUME Base, Flow, Order, Gate, "overflow" \notin mishaps'
  PROVE  Order'
  <1>0. UNCHANGED <<busVars, clientVars, TWEA, TWDR>>
    BY DEF Gate, MainLoop, LookAtIdle, NoCommand, Command, Clear, Swap, MdbStep, sendVars
  <1>1. CASE ~Swap
    <2>1. SaysOrNot
      BY <1>1, SizesFacts
      DEF Gate, MainLoop, LookAtIdle, NoCommand, Command, Clear, MdbStep, Answered, sendVars,
          SaysOrNot
    <2> QED
      BY <1>0, <2>1, OrderSays
  <1>2. CASE Swap
    <2>1. /\ UNCHANGED <<bus, rs, TWEA, TWDR, taken>>
          /\ twi_out'.data = master_out /\ In(master_out') = {}
      BY <1>0, <1>2, InEmpty DEF busVars, clientVars, Swap
    <2>2. Coming' = Coming /\ (BusFree' <=> BusFree) /\ Taken' = Taken
      BY <2>1 DEF Coming, Reading, BusFree, Taken
    <2>3. bus.op = "read" /\ ~bus.on => Coming = rs
      BY DEF Coming, Reading
    <2>4. Ahead => Ahead'
      BY <2>1, <2>2, <2>3 DEF Ahead, Under
    <2> QED
      BY <2>1, <2>2, <2>4 DEF Order
  <1> QED
    BY <1>1, <1>2

LEMMA OrderReadByte ==
  ASSUME Base, Flow, Order, ReadByte
  PROVE  Order'
  <1>1. /\ Reading /\ bus.op = "read" /\ bus.on /\ rs' = Got(rs, TWDR)
        /\ UNCHANGED clientVars /\ ~BusFree
    BY DEF ReadByte, Reading, Got, BusFree, Free
  <1>2. bus'.op = "read" /\ bus'.on = (TWEA /\ ~LastByte) /\ ~BusFree'
    BY <1>1 DEF ReadByte, Base, ClientTypes, BusFree, Free
  <1>3. UNCHANGED <<master_out, taken>> /\ Taken' = Taken
    BY <1>1 DEF ReadByte, ST_DATA_ACK, ST_DATA_NACK, ST_LAST_DATA, Interrupt, mainVars, clientVars,
                Taken
  <1>4. Increasing(taken)'
    BY <1>1, <1>3 DEF Order
  <1>5. /\ Under(Taken, In(master_out)) /\ Under(Taken, In(twi_out.data))
        /\ Under(Taken, In(Append(rs, TWDR))) /\ Under(In(Append(rs, TWDR)), In(master_out))
    BY <1>1 DEF Order, Ahead, Coming
  <1>6. In(rs') \subseteq In(Append(rs, TWDR))
    <2>1. rs' = rs \/ rs' = Append(rs, TWDR)
      BY <1>1 DEF Got
    <2> QED
      BY <2>1, OrderTypes
  <1>7. CASE TWEA /\ ~LastByte
    <2>1. ST_DATA_ACK
      BY <1>7 DEF ReadByte
    <2>2. twi_out'.data = twi_out.data /\ Reading' /\ bus'.on
      BY <1>2, <1>7, <2>1 DEF ST_DATA_ACK, Base, GateTypes, Reading
    <2>3. TWDR' \in AnyBytes(Len(made)) /\ rs' \in Seq(AnyBytes(Len(made)))
          /\ {TWDR'[1]} \ {0} \subseteq In(twi_out.data)
      <3>1. CASE ReadOut
        <4>1. TWDR' = <<0, 0>>
          BY <2>1, <3>1 DEF ST_DATA_ACK, Plain
        <4>2. TWDR'[1] = 0
          BY <4>1
        <4>3. TWDR' \in AnyBytes(Len(made))
          BY <4>1, SizesFacts DEF AnyBytes, PlainBytes
        <4>4. rs' \in Seq(AnyBytes(Len(made)))
          BY <1>1, FlowTypes DEF Got
        <4> QED
          BY <4>2, <4>3, <4>4
      <3>2. CASE ~ReadOut
        <4>1. TWDR' = twi_out.data[twi_out.used + 1]
          BY <2>1, <3>2 DEF ST_DATA_ACK
        <4>2. twi_out.data \in Seq(AnyBytes(Len(made))) /\ twi_out.used + 1 \in 1..Len(twi_out.data)
          BY <3>2, FlowTypes DEF ReadOut
        <4>3. In(twi_out.data) = {twi_out.data[i][1] : i \in 1..Len(twi_out.data)} \ {0}
          BY <4>2, InElements
        <4>4. rs' \in Seq(AnyBytes(Len(made)))
          BY <1>1, FlowTypes DEF Got
        <4>5. TWDR' \in AnyBytes(Len(made))
          BY <4>1, <4>2, ElementOfSeq
        <4> QED
          BY <4>1, <4>2, <4>3, <4>4, <4>5
      <3> QED
        BY <3>1, <3>2
    <2>4. In(Append(rs', TWDR')) \subseteq In(Append(rs, TWDR)) \cup In(twi_out.data)
      <3>1. In(Append(rs', TWDR')) = In(rs') \cup ({TWDR'[1]} \ {0})
        BY <2>3, InAppend
      <3> QED
        BY <1>6, <2>3, <3>1
    <2>5. Coming' = Append(rs', TWDR')
      BY <2>2 DEF Coming
    <2>6. Under(In(twi_out.data), In(master_out))
      BY DEF Flow, Buffers, Under
    <2>7. Ahead'
      BY <1>3, <1>5, <2>2, <2>4, <2>5, <2>6 DEF Ahead, Under
    <2> QED
      BY <1>4, <2>7 DEF Order
  <1>8. CASE ~TWEA /\ ~LastByte
    <2>1. ST_LAST_DATA
      BY <1>8 DEF ReadByte
    <2>2. In(twi_out'.data) = {} /\ ~Reading' /\ ~bus'.on
      BY <1>2, <1>8, <2>1, InEmpty DEF ST_LAST_DATA, EmptyOut, Reading
    <2>3. Coming' = rs'
      BY <2>2 DEF Coming
    <2>4. Ahead'
      BY <1>3, <1>5, <1>6, <2>2, <2>3 DEF Ahead, Under
    <2> QED
      BY <1>4, <2>4 DEF Order
  <1>9. CASE LastByte
    <2>1. TWEA' = FALSE /\ ~bus'.on
      BY <1>2, <1>9 DEF ReadByte, ST_DATA_NACK
    <2> QED
      BY <1>4, <2>1 DEF Order
  <1> QED
    BY <1>7, <1>8, <1>9

\* The packets of a read come after those of the reads before.
LEMMA Appended ==
  ASSUME NEW n \in Nat, NEW t \in Seq(1..n), NEW p \in Seq(1..n), Increasing(t), Increasing(p),
         \A i \in 1..Len(t), j \in 1..Len(p) : t[i] < p[j]
  PROVE  Increasing(t \o p)
  <1>1. /\ Len(t) \in Nat /\ Len(p) \in Nat /\ Len(t \o p) = Len(t) + Len(p)
        /\ \A i \in 1..(Len(t) + Len(p)) :
             (t \o p)[i] = IF i <= Len(t) THEN t[i] ELSE p[i - Len(t)]
    BY ConcatProperties, LenProperties
  <1>2. ASSUME NEW i \in 1..(Len(t) + Len(p)), NEW j \in 1..(Len(t) + Len(p)), i < j
        PROVE  (t \o p)[i] < (t \o p)[j]
    <2>1. CASE j <= Len(t)
      <3>1. i <= Len(t) /\ i \in 1..Len(t) /\ j \in 1..Len(t)
        BY <1>1, <1>2, <2>1
      <3>2. (t \o p)[i] = t[i] /\ (t \o p)[j] = t[j]
        BY <1>1, <2>1, <3>1
      <3>3. t[i] < t[j]
        BY <1>2, <3>1 DEF Increasing
      <3> QED
        BY <3>2, <3>3
    <2>2. CASE ~(j <= Len(t))
      <3>1. j - Len(t) \in 1..Len(p) /\ (t \o p)[j] = p[j - Len(t)]
        BY <1>1, <2>2
      <3>2. CASE i <= Len(t)
        <4>1. i \in 1..Len(t) /\ (t \o p)[i] = t[i]
          BY <1>1, <3>2
        <4> QED
          BY <3>1, <4>1
      <3>3. CASE ~(i <= Len(t))
        <4>1. i - Len(t) \in 1..Len(p) /\ (t \o p)[i] = p[i - Len(t)]
          BY <1>1, <3>3
        <4>2. i - Len(t) < j - Len(t)
          BY <1>1, <1>2
        <4>3. p[i - Len(t)] < p[j - Len(t)]
          BY <3>1, <4>1, <4>2 DEF Increasing
        <4> QED
          BY <3>1, <4>1, <4>3
      <3> QED
        BY <3>2, <3>3
    <2> QED
      BY <2>1, <2>2
  <1> QED
    BY <1>1, <1>2 DEF Increasing

\* What ParseResponse finds in a whole response.
LEMMA TakesFilled ==
  ASSUME Base, Filled(rs, made), taken' = taken \o Parsed(rs)
  PROVE  /\ Taken' = Taken \cup In(rs)
         /\ Increasing(taken) /\ Under(Taken, In(rs)) => Increasing(taken')
  <1>1. /\ made \in Seq(Sizes) /\ rs \in Seq(AnyBytes(Len(made)))
        /\ Len(made) \in Nat /\ taken \in Seq(1..Len(made))
        /\ Taken = {taken[i] : i \in 1..Len(taken)}
    BY FlowTypes, OrderTypes
  <1>2. PICK p : p = Parsed(rs)
    OBVIOUS
  <1>3. /\ p \in Seq(1..Len(made)) /\ Increasing(p)
        /\ {p[i] : i \in 1..Len(p)} = In(rs)
    BY <1>1, <1>2, ParsedFilled
  <1>4. Taken' = Taken \cup In(rs)
    <2>1. Range(taken \o p) = Range(taken) \cup Range(p)
      BY <1>1, <1>3, RangeConcatenation
    <2>2. Range(p) = In(rs)
      BY <1>3, RangeEquality
    <2> QED
      BY <1>2, <2>1, <2>2 DEF Taken
  <1>5. ASSUME Increasing(taken), Under(Taken, In(rs)) PROVE Increasing(taken')
    <2>1. \A i \in 1..Len(taken), j \in 1..Len(p) : taken[i] < p[j]
      BY <1>1, <1>3, <1>5 DEF Under
    <2> QED
      BY <1>1, <1>2, <1>3, <1>5, <2>1, Appended
  <1> QED
    BY <1>4, <1>5

LEMMA OrderReadEnds ==
  ASSUME Base, Flow, Order, ReadEnds
  PROVE  Order'
  <1>1. /\ bus.op = "read" /\ ~bus.on /\ ~Reading /\ ~BusFree /\ bus' = Free
        /\ TWEA => taken' = taken \o Parsed(rs)
        /\ UNCHANGED <<master_out, twi_out, TWEA>>
    BY DEF ReadEnds, Broken, Reading, BusFree, Free, Takes, gateVars, mainVars, sendVars
  <1>2. CASE ~TWEA
    BY <1>1, <1>2 DEF Order, BusFree, Free
  <1>3. CASE TWEA
    <2>1. "bus error" \notin mishaps
      BY <1>3 DEF Base, Transfer
    <2>2. Filled(rs, made)
      BY <1>1, <2>1 DEF Flow
    <2>3. /\ Increasing(taken) /\ Ahead
      BY <1>3 DEF Order
    <2>4. /\ Under(Taken, In(master_out)) /\ Under(Taken, In(twi_out.data)) /\ Under(Taken, In(rs))
          /\ Under(In(rs), In(master_out)) /\ Under(In(rs), In(twi_out.data))
      BY <1>1, <2>3 DEF Ahead, Coming
    <2>5. Taken' = Taken \cup In(rs) /\ Increasing(taken')
      BY <1>1, <1>3, <2>2, <2>3, <2>4, TakesFilled
    <2>6. bus'.op # "read"
      BY <1>1 DEF Free
    <2>7. Ahead'
      BY <1>1, <2>4, <2>5, <2>6 DEF Ahead, Under
    <2> QED
      BY <2>5, <2>7 DEF Order
  <1> QED
    BY <1>2, <1>3

LEMMA OrderStartRead ==
  ASSUME Base, Order, NEW who, StartRead(who)
  PROVE  Order'
  <1>1. /\ TWEA /\ rs' = <<>> /\ bus'.op = "read" /\ bus'.on = TRUE
        /\ UNCHANGED <<master_out, taken>> /\ TWDR' = Plain(Len(twi_out.data))
    BY DEF StartRead, Begins, ST_SLA_ACK, Interrupt, mainVars, clientVars
  <1>2. twi_out'.data = twi_out.data
    BY DEF StartRead, ST_SLA_ACK, Base, GateTypes
  <1>3. In(Coming') = {}
    <2>1. Plain(Len(twi_out.data)) \in AnyBytes(Len(made)) /\ Plain(Len(twi_out.data))[1] = 0
      BY PlainBytesAre DEF Base, Plain
    <2>2. <<>> \in Seq(AnyBytes(Len(made)))
      BY EmptySeq
    <2>3. In(Append(<<>>, Plain(Len(twi_out.data)))) = {}
      <3>1. PICK w \in AnyBytes(Len(made)) : w = Plain(Len(twi_out.data)) /\ w[1] = 0
        BY <2>1
      <3>2. In(Append(<<>>, w)) = In(<<>>) \cup ({w[1]} \ {0})
        <4>1. PICK e \in Seq(AnyBytes(Len(made))) : e = <<>>
          BY <2>2
        <4>2. In(Append(e, w)) = In(e) \cup ({w[1]} \ {0})
          BY InAppend
        <4> QED
          BY <4>1, <4>2, Zenon
      <3> QED
        BY <3>1, <3>2, InEmpty
    <2> QED
      BY <1>1, <2>3, InEmpty DEF Coming
  <1>4. Ahead'
    BY <1>1, <1>2, <1>3 DEF Order, Ahead, Under, Taken
  <1> QED
    BY <1>1, <1>4 DEF Order

LEMMA OrderOthers ==
  ASSUME Base, Order,
         \/ WriteByte \/ WriteEnds \/ BusError \/ Wake \/ Notified \/ UNCHANGED vars
         \/ \E who \in {"do", "key"} : StartWrite(who)
         \/ \E r \in Requests : Do(r)
         \/ \E who \in {"do", "run"} : ReadFails(who)
  PROVE  Order'
  <1>1. CASE WriteByte
    <2>1. /\ bus.op = "write" /\ bus.on /\ bus'.op = "write"
          /\ UNCHANGED <<master_out, twi_out, taken>>
      BY <1>1 DEF WriteByte, SR_DATA_ACK, Interrupt, mainVars, clientVars, Base, ClientTypes
    <2>2. ~BusFree
      BY <2>1 DEF BusFree, Free
    <2> QED
      BY <2>1, <2>2 DEF Order, Ahead, Taken
  <1>2. CASE WriteEnds
    <2>1. /\ bus.op = "write" /\ bus' = Free /\ UNCHANGED <<master_out, twi_out, taken>>
          /\ bus.on \/ TWEA' = TWEA
      BY <1>2 DEF WriteEnds, SR_STOP, Interrupt, mainVars, gateVars, sendVars
    <2>2. ~BusFree /\ BusFree' /\ bus'.op = "none" /\ bus'.on = FALSE
      BY <2>1 DEF BusFree, Free
    <2> QED
      BY <2>1, <2>2 DEF Order, Ahead, Taken
  <1>3. CASE BusError
    <2>1. TWEA' = FALSE /\ bus'.on = FALSE /\ taken' = taken
      BY <1>3 DEF BusError, BUS_ERROR, clientVars, Base, ClientTypes
    <2>2. ~BusFree
      BY <1>3 DEF BusError, BusFree, Free
    <2> QED
      BY <2>1, <2>2 DEF Order
  <1>4. CASE \E who \in {"do", "key"} : StartWrite(who)
    <2>1. PICK who \in {"do", "key"} : StartWrite(who)
      BY <1>4
    <2>2. CASE TWEA /\ Begins(who, "write") /\ SR_SLA_ACK /\ UNCHANGED doPc
      <3>1. TWEA /\ bus'.op = "write" /\ UNCHANGED <<master_out, twi_out, taken>>
        BY <2>1, <2>2 DEF StartWrite, Begins, SR_SLA_ACK, Interrupt, mainVars
      <3> QED
        BY <3>1 DEF Order, Ahead, Taken
    <2>3. CASE /\ ~TWEA /\ BusFree
               /\ doPc' = IF who = "do" THEN "idle" ELSE doPc
               /\ UNCHANGED <<bus, gateVars>>
      <3>1. ~TWEA' /\ BusFree' /\ bus'.on = FALSE
        BY <2>3 DEF gateVars, sendVars, BusFree, Free
      <3> QED
        BY <3>1 DEF Order
    <2> QED
      BY <2>1, <2>2, <2>3 DEF StartWrite
  <1>5. CASE \E who \in {"do", "run"} : ReadFails(who)
    <2>1. ~TWEA' /\ BusFree' /\ bus'.on = FALSE
      BY <1>5 DEF ReadFails, gateVars, sendVars, busVars, BusFree, Free
    <2> QED
      BY <2>1 DEF Order
  <1>6. CASE Wake \/ Notified \/ UNCHANGED vars \/ \E r \in Requests : Do(r)
    <2>1. UNCHANGED <<master_out, twi_out, taken, TWEA, TWDR, bus, rs>>
      BY <1>6 DEF Wake, Notified, vars, Do, gateVars, mainVars, sendVars, busVars, clientVars
    <2> QED
      BY <2>1 DEF Order, Ahead, Taken, Coming, Reading, BusFree
  <1> QED
    BY <1>1, <1>2, <1>3, <1>4, <1>5, <1>6

LEMMA OrderStep ==
  ASSUME Base, FlowInv, OrderInv, [Next]_vars
  PROVE  OrderInv'
  <1> SUFFICES ASSUME "overflow" \notin mishaps' PROVE Order'
    BY DEF OrderInv
  <1>1. Flow /\ Order
    BY MishapsGrow DEF FlowInv, OrderInv
  <1>2. CASE Bus
    BY <1>1, <1>2, OrderReadByte, OrderReadEnds, OrderOthers DEF Bus
  <1>3. CASE DoTransfers \/ RunTransfers \/ StartWrite("key")
    BY <1>1, <1>3, OrderStartRead, OrderOthers DEF DoTransfers, RunTransfers
  <1> QED
    BY <1>1, <1>2, <1>3, OrderGate, OrderOthers DEF Next

LEMMA OrderInit ==
  ASSUME Init
  PROVE  OrderInv
  <1>1. taken = <<>> /\ Len(taken) = 0 /\ bus.op = "none"
    BY EmptySeq DEF Init, Free
  <1>2. Taken = {}
    BY <1>1 DEF Taken, Range
  <1> QED
    BY <1>1, <1>2 DEF OrderInv, Order, Ahead, Under, Increasing

\* Whoever takes them, Do or run, answers come in the order the gate made them
\* and none of them twice: ParseResponse and the swap of the buffers in twi_step
\* do not depend on who reads when.
THEOREM MegaTakenInOrder == Spec => []TakenInOrder
  <1>1. Base /\ FlowInv /\ OrderInv /\ [Next]_vars => OrderInv'
    BY OrderStep
  <1>2. Base /\ OrderInv => TakenInOrder
    <2> SUFFICES ASSUME Base, Order PROVE TWEA \/ ~BusFree =>
                   \A i, j \in DOMAIN taken : i < j => taken[i] < taken[j]
      BY DEF OrderInv, TakenInOrder
    <2>1. DOMAIN taken = 1..Len(taken)
      BY OrderTypes
    <2> QED
      BY <2>1 DEF Order, Increasing
  <1> QED
    BY MegaBase, MegaFlow, OrderInit, <1>1, <1>2, PTL DEF Spec

-----------------------------------------------------------------------------
(***************************************************************************)
(* Nothing is lost.  The response is emptied when the reader has it, or has   *)
(* it with the byte going out, and swapped when it is empty.                *)
(***************************************************************************)
Harmless == mishaps \cap {"overflow", "read in twi_step", "bus error"} = {}

Kept ==
  /\ Reading => ~InStep
  /\ pc = "swap" => twi_out.data = <<>>
  /\ Reading /\ TWEA => Begun(Append(rs, TWDR), twi_out.data, twi_out.used)
  /\ Reading /\ ~TWEA => In(twi_out.data) \subseteq In(Got(rs, TWDR))
  /\ Numbers \subseteq In(master_out) \cup In(twi_out.data) \cup In(rs) \cup Taken

SurviveInv == Harmless => Kept

LEMMA KeptGate ==
  ASSUME Base, Flow, Kept, Gate, Harmless'
  PROVE  Kept'
  <1>0. UNCHANGED <<TWEA, TWDR, bus, rs, taken, twi_idle>> /\ Taken' = Taken
        /\ (Reading' <=> Reading) /\ "overflow" \notin mishaps'
    BY DEF Gate, MainLoop, LookAtIdle, NoCommand, Command, Clear, Swap, MdbStep, sendVars,
           busVars, clientVars, Taken, Reading, Harmless
  <1>1. CASE LookAtIdle
    <2>1. ~Reading /\ pc' = "command" /\ UNCHANGED <<made, master_out, twi_out>>
      BY <1>1 DEF LookAtIdle, sendVars, Base, Transfer
    <2> QED
      BY <1>0, <2>1 DEF Kept, Numbers
  <1>2. CASE NoCommand \/ Clear
    <2>1. ~Reading /\ pc' = Handover /\ UNCHANGED <<made, master_out, twi_out>>
      BY <1>2 DEF NoCommand, Clear, sendVars, Kept, InStep
    <2>2. pc' = "swap" => twi_out.data = <<>>
      BY <2>1, HandoverSwaps
    <2> QED
      BY <1>0, <2>1, <2>2 DEF Kept, Numbers
  <1>3. CASE Command \/ MdbStep
    <2>1. SaysOrNot /\ pc' # "swap"
      BY <1>3, SizesFacts DEF Command, Answered, MdbStep, SaysOrNot
    <2>2. Reading => pc' = "pass"
      BY <1>3 DEF Command, MdbStep, Kept, InStep
    <2>3. /\ twi_out' = twi_out
          /\ Numbers' \subseteq Numbers \cup (In(master_out') \ In(master_out))
          /\ In(master_out) \subseteq In(master_out')
      <3>1. CASE \E n \in Sizes : Say(n)
        <4>1. PICK n \in Sizes : Say(n)
          BY <3>1
        <4>2. /\ made' = Append(made, n) /\ twi_out' = twi_out
              /\ In(master_out') = In(master_out) \cup {Len(made) + 1}
          BY <1>0, <4>1, BuffersSay DEF Flow
        <4>3. /\ made \in Seq(Sizes) /\ Len(made) \in Nat
              /\ In(master_out) \subseteq 1..Len(made)
          BY FlowTypes, InPackets
        <4>4. Numbers' = 1..(Len(made) + 1) /\ Numbers = 1..Len(made)
          <5>1. made' \in Seq(Sizes) /\ Len(made') = Len(made) + 1
            BY <4>2, <4>3, AppendProperties
          <5> QED
            BY <4>3, <5>1 DEF Numbers
        <4>5. Len(made) + 1 \notin In(master_out)
          BY <4>3
        <4>6. \A x \in 1..(Len(made) + 1) : x \in 1..Len(made) \/ x = Len(made) + 1
          BY <4>3
        <4> QED
          BY <4>2, <4>4, <4>5, <4>6
      <3>2. CASE UNCHANGED <<made, master_out, twi_out, mishaps>>
        BY <3>2 DEF Numbers
      <3> QED
        BY <2>1, <3>1, <3>2 DEF SaysOrNot
    <2>4. Got(rs, TWDR)' = Got(rs, TWDR)
      BY <1>0 DEF Got
    <2> QED
      BY <1>0, <2>1, <2>2, <2>3, <2>4 DEF Kept, InStep
  <1>4. CASE Swap
    <2>1. /\ pc = "swap" /\ pc' = "mdb" /\ twi_out'.data = master_out /\ made' = made
      BY <1>4 DEF Swap
    <2>2. ~Reading /\ In(twi_out.data) = {}
      BY <2>1, InEmpty DEF Kept, InStep
    <2> QED
      BY <1>0, <2>1, <2>2 DEF Kept, Numbers
  <1> QED
    BY <1>1, <1>2, <1>3, <1>4 DEF Gate, MainLoop

LEMMA KeptReadByte ==
  ASSUME Base, Flow, Kept, ReadByte
  PROVE  Kept'
  <1>1. /\ Reading /\ bus.on /\ rs' = Got(rs, TWDR)
    BY DEF ReadByte, Reading, Got
  <1>2. bus'.op = "read" /\ bus'.on = (TWEA /\ ~LastByte)
    BY DEF ReadByte, Base, ClientTypes
  <1>3. UNCHANGED <<pc, made, master_out, taken>> /\ Taken' = Taken /\ Numbers' = Numbers
        /\ ~InStep /\ ~InStep'
    BY <1>1 DEF ReadByte, ST_DATA_ACK, ST_DATA_NACK, ST_LAST_DATA, Interrupt, mainVars, clientVars,
                Taken, Numbers, Kept, InStep
  <1>4. pc' # "swap"
    BY <1>3 DEF InStep
  <1>5. /\ rs \in Seq(AnyBytes(Len(made))) /\ TWDR \in AnyBytes(Len(made))
        /\ made \in Seq(Sizes) /\ twi_out.data \in Seq(AnyBytes(Len(made)))
        /\ Append(rs, TWDR) \in Seq(AnyBytes(Len(made)))
        /\ Len(twi_out.data) \in Nat /\ twi_out.used \in Nat
    BY FlowTypes
  <1>6. In(rs) \subseteq In(rs') /\ rs' \in Seq(AnyBytes(Len(made)))
    <2>1. rs' = rs \/ rs' = Append(rs, TWDR)
      BY <1>1 DEF Got
    <2> QED
      BY <1>5, <2>1, OrderTypes
  <1>7. CASE TWEA /\ ~LastByte
    <2>1. ST_DATA_ACK
      BY <1>7 DEF ReadByte
    <2>2. /\ twi_out'.data = twi_out.data /\ TWEA' = ~ReadOut
          /\ Begun(Append(rs, TWDR), twi_out.data, twi_out.used)
      BY <1>1, <1>7, <2>1 DEF ST_DATA_ACK, Base, GateTypes, Kept
    <2>3. rs' = Append(rs, TWDR)
      BY <1>1, <1>5, <2>2, GotBegun
    <2>4. CASE ReadOut
      <3>1. twi_out.used = Len(twi_out.data)
        BY <1>5, <2>2, <2>4 DEF ReadOut, Begun
      <3>2. Begun(rs', twi_out.data, Len(twi_out.data))
        BY <2>2, <2>3, <3>1
      <3>3. Filled(rs', made)
        BY <1>5, <1>6, <3>2, BegunFilled DEF Flow, Buffers
      <3>4. TWDR' = Plain(0) /\ Plain(0) \in AnyBytes(Len(made))
        BY <2>1, <2>4, PlainBytesAre DEF ST_DATA_ACK, Base
      <3>5. Got(rs', TWDR') = rs'
        BY <1>6, <3>3, <3>4, GotFilled
      <3>6. In(twi_out.data) \subseteq In(rs')
        <4>1. In(twi_out.data) = {twi_out.data[i][1] : i \in 1..Len(twi_out.data)} \ {0}
          BY <1>5, InElements
        <4>2. In(rs') = {rs'[i][1] : i \in 1..Len(rs')} \ {0}
          BY <1>6, InElements
        <4>3. Len(rs') = Len(twi_out.data) + 1
              /\ \A i \in 1..Len(twi_out.data) : rs'[i + 1] = twi_out.data[i]
          BY <3>2 DEF Begun
        <4>4. \A i \in 1..Len(twi_out.data) : i + 1 \in 1..Len(rs')
          BY <1>5, <4>3
        <4> QED
          BY <4>1, <4>2, <4>3, <4>4
      <3>7. TWEA' = FALSE
        BY <2>2, <2>4
      <3>8. Got(rs, TWDR)' = rs'
        BY <3>5 DEF Got
      <3> QED
        BY <1>3, <1>4, <1>6, <2>2, <3>6, <3>7, <3>8 DEF Kept
    <2>5. CASE ~ReadOut
      <3>1. twi_out.used < Len(twi_out.data)
        BY <1>5, <2>5 DEF ReadOut
      <3>2. TWDR' = twi_out.data[twi_out.used + 1] /\ twi_out'.used = twi_out.used + 1
        BY <2>1, <2>5 DEF ST_DATA_ACK, Base, GateTypes
      <3>3. Begun(Append(rs', twi_out.data[twi_out.used + 1]), twi_out.data, twi_out.used + 1)
        BY <1>5, <1>6, <2>2, <2>3, <3>1, BegunNext
      <3>4. TWEA' = TRUE
        BY <2>2, <2>5
      <3>5. Begun(Append(rs, TWDR), twi_out.data, twi_out.used)'
        BY <2>2, <3>2, <3>3
      <3> QED
        BY <1>3, <1>4, <1>6, <2>2, <3>4, <3>5 DEF Kept
    <2> QED
      BY <2>4, <2>5
  <1>8. CASE ~TWEA /\ ~LastByte
    <2>1. In(twi_out'.data) = {}
      BY <1>8, InEmpty DEF ReadByte, ST_LAST_DATA, EmptyOut
    <2>2. In(twi_out.data) \subseteq In(rs') /\ ~Reading'
      BY <1>1, <1>2, <1>8 DEF Kept, Reading
    <2> QED
      BY <1>3, <1>4, <1>6, <2>1, <2>2 DEF Kept
  <1>9. CASE LastByte
    <2>1. ST_DATA_NACK
      BY <1>9 DEF ReadByte
    <2>2. twi_out'.data = twi_out.data
      BY <2>1 DEF ST_DATA_NACK, Base, GateTypes
    <2>3. ~Reading'
      BY <1>2, <1>9 DEF Reading
    <2> QED
      BY <1>3, <1>4, <1>6, <2>2, <2>3 DEF Kept
  <1> QED
    BY <1>7, <1>8, <1>9

LEMMA KeptStartRead ==
  ASSUME Base, Kept, NEW who, StartRead(who), Harmless'
  PROVE  Kept'
  <1>1. /\ bus = Free /\ UNCHANGED <<pc, made, master_out, taken>>
        /\ TWEA' = (twi_out.data # <<>>)
    BY DEF StartRead, Begins, BusFree, ST_SLA_ACK, Interrupt, mainVars, clientVars
  <1>2. twi_out'.data = twi_out.data /\ twi_out'.used = 0
    BY DEF StartRead, ST_SLA_ACK, Base, GateTypes
  <1>3. ~InStep
    <2>1. "read in twi_step" \notin mishaps'
      BY DEF Harmless
    <2> QED
      BY <2>1 DEF StartRead, ST_SLA_ACK
  <1>4. ~InStep' /\ pc' # "swap" /\ Taken' = Taken /\ Numbers' = Numbers
    BY <1>1, <1>3 DEF InStep, Taken, Numbers
  <1>5. rs = <<>> /\ In(rs) = {}
    BY <1>1, InEmpty DEF Base, Transfer, Free
  <1>6. Numbers \subseteq In(master_out) \cup In(twi_out.data) \cup Taken
    BY <1>5 DEF Kept
  <1>7. Begun(Append(rs', TWDR'), twi_out.data, 0)
    BY FirstByte
  <1>8. ~TWEA' => In(twi_out'.data) = {}
    BY <1>1, <1>2, InEmpty
  <1> QED
    BY <1>1, <1>2, <1>4, <1>6, <1>7, <1>8 DEF Kept

LEMMA KeptReadEnds ==
  ASSUME Base, Flow, Kept, ReadEnds, Harmless'
  PROVE  Kept'
  <1>1. /\ bus.op = "read" /\ ~bus.on /\ bus' = Free
        /\ Broken \/ taken' = taken \o Parsed(rs)
        /\ UNCHANGED <<pc, made, master_out, twi_out, mishaps>>
    BY DEF ReadEnds, Takes, gateVars, mainVars, sendVars
  <1>2. "bus error" \notin mishaps /\ ~Broken
    BY <1>1 DEF Harmless, Base, Transfer
  <1>3. Filled(rs, made)
    BY <1>1, <1>2 DEF Flow
  <1>4. Taken' = Taken \cup In(rs)
    BY <1>1, <1>2, <1>3, TakesFilled
  <1>5. ~Reading'
    BY <1>1 DEF Reading, Free
  <1> QED
    BY <1>1, <1>4, <1>5 DEF Kept, Numbers

LEMMA KeptOthers ==
  ASSUME Base, Kept,
         \/ WriteByte \/ WriteEnds \/ Wake \/ Notified \/ UNCHANGED vars
         \/ \E who \in {"do", "key"} : StartWrite(who)
         \/ \E r \in Requests : Do(r)
         \/ \E who \in {"do", "run"} : ReadFails(who)
  PROVE  Kept'
  <1>1. CASE WriteByte \/ WriteEnds
    <2>1. /\ bus'.op # "read" /\ UNCHANGED <<pc, made, master_out, twi_out, rs, taken>>
      <3>1. CASE WriteByte
        BY <3>1 DEF WriteByte, SR_DATA_ACK, Interrupt, mainVars, clientVars, Base, ClientTypes
      <3>2. CASE WriteEnds
        BY <3>2 DEF WriteEnds, SR_STOP, Interrupt, mainVars, gateVars, sendVars, Free
      <3> QED
        BY <1>1, <3>1, <3>2
    <2> QED
      BY <2>1 DEF Kept, Numbers, Taken, Reading
  <1>2. CASE \E who \in {"do", "key"} : StartWrite(who)
    <2>1. bus'.op # "read" /\ UNCHANGED <<pc, made, master_out, twi_out, rs, taken>>
      <3>1. PICK who \in {"do", "key"} : StartWrite(who)
        BY <1>2
      <3>2. UNCHANGED <<rs, taken>>
        BY <3>1 DEF StartWrite
      <3>3. CASE TWEA /\ Begins(who, "write") /\ SR_SLA_ACK /\ UNCHANGED doPc
        BY <3>2, <3>3 DEF Begins, SR_SLA_ACK, Interrupt, mainVars
      <3>4. CASE BusFree /\ UNCHANGED <<bus, gateVars>>
        BY <3>2, <3>4 DEF BusFree, Free, gateVars, mainVars, sendVars
      <3> QED
        BY <3>1, <3>3, <3>4 DEF StartWrite
    <2> QED
      BY <2>1 DEF Kept, Numbers, Taken, Reading
  <1>3. CASE \E who \in {"do", "run"} : ReadFails(who)
    <2>1. PICK who \in {"do", "run"} : ReadFails(who)
      BY <1>3
    <2>2. bus'.op # "read" /\ UNCHANGED <<pc, made, master_out, twi_out, rs>>
      BY <2>1 DEF ReadFails, gateVars, mainVars, sendVars, busVars, BusFree, Free
    <2>3. Taken \subseteq Taken'
      <3>1. PICK p \in Seq(1..Len(made)) : taken' = taken \o p
        <4>1. <<>> \in Seq(1..Len(made)) /\ runBuf \in Seq(1..Len(made))
          BY EmptySeq DEF Base, ClientTypes
        <4> QED
          BY <2>1, <4>1 DEF ReadFails, Takes, OldBuffer
      <3>2. Range(taken \o p) = Range(taken) \cup Range(p)
        BY <3>1, OrderTypes, RangeConcatenation
      <3> QED
        BY <3>1, <3>2 DEF Taken
    <2> QED
      BY <2>2, <2>3 DEF Kept, Numbers, Reading
  <1>4. CASE Wake \/ Notified \/ UNCHANGED vars \/ \E r \in Requests : Do(r)
    <2>1. UNCHANGED <<pc, made, master_out, twi_out, taken, TWEA, TWDR, bus, rs>>
      BY <1>4 DEF Wake, Notified, vars, Do, gateVars, mainVars, sendVars, busVars, clientVars
    <2> QED
      BY <2>1 DEF Kept, Numbers, Taken, Reading, InStep, Got
  <1> QED
    BY <1>1, <1>2, <1>3, <1>4

LEMMA SurviveStep ==
  ASSUME Base, FlowInv, SurviveInv, [Next]_vars
  PROVE  SurviveInv'
  <1> SUFFICES ASSUME Harmless' PROVE Kept'
    BY DEF SurviveInv
  <1>1. Harmless
    BY MishapsGrow DEF Harmless
  <1>2. Flow /\ Kept
    BY <1>1 DEF FlowInv, SurviveInv, Harmless
  <1>3. CASE Bus
    BY <1>2, <1>3, KeptReadByte, KeptReadEnds, KeptOthers DEF Bus
  <1>4. CASE DoTransfers \/ RunTransfers \/ StartWrite("key")
    BY <1>2, <1>4, KeptStartRead, KeptOthers DEF DoTransfers, RunTransfers
  <1>5. CASE BusError
    BY <1>5 DEF BusError, BUS_ERROR, Harmless
  <1> QED
    BY <1>2, <1>3, <1>4, <1>5, KeptGate, KeptOthers DEF Next

LEMMA SurviveInit ==
  ASSUME Init
  PROVE  SurviveInv
  <1>1. /\ pc = "pass" /\ bus.op = "none" /\ made = <<Hello>> /\ master_out = Bytes(1, Hello)
    BY DEF Init, GateInit, Free
  <1>2. Numbers = {1}
    <2>1. made \in Seq(Sizes) /\ Len(made) = 1
      BY <1>1, SizesFacts
    <2>2. DOMAIN made = 1..1
      BY <2>1
    <2> QED
      BY <2>2 DEF Numbers
  <1>3. In(master_out) = {1}
    <2>1. Hello \in Nat \ {0}
      BY SizesFacts
    <2> QED
      BY <1>1, <2>1, InBytes
  <1> QED
    BY <1>1, <1>2, <1>3 DEF SurviveInv, Kept, Reading

\* An answer is lost only by an overflow, an error on the bus, or a read that
\* begins while twi_step is about to swap the buffers.
THEOREM MegaAnswersSurvive == Spec => []AnswersSurvive
  <1>1. Base /\ FlowInv /\ SurviveInv /\ [Next]_vars => SurviveInv'
    BY SurviveStep
  <1>2. SurviveInv => AnswersSurvive
    BY DEF SurviveInv, Harmless, Kept, AnswersSurvive
  <1> QED
    BY MegaBase, MegaFlow, SurviveInit, <1>1, <1>2, PTL DEF Spec

-----------------------------------------------------------------------------
(***************************************************************************)
(* The address.  When the handler runs less often during one twi_step than   *)
(* the shortest packet has bytes, the buffers are not swapped under a        *)
(* reader that has begun, and the gate stops hearing its address only after  *)
(* a response that fills the buffer.                                       *)
(***************************************************************************)
Faultless == mishaps \cap {"bus error", "overflow"} = {}

Hearing ==
  /\ Reading /\ InStep => bus.n < burst
  /\ pc = "pass" => burst = 0
  /\ Reading /\ TWEA =>
       twi_out.data # <<>> /\ twi_out.used = bus.n /\ bus.n <= Len(twi_out.data)
  /\ Reading /\ ~TWEA => bus.n <= Len(twi_out.data) + 1
  /\ Reading => twi_out.used <= bus.n
  /\ pc = "swap" => twi_out.data = <<>>
  /\ ~TWEA /\ ~bus.on => Len(twi_out.data) >= RESPONSE_MAX_LENGTH - 1 /\ twi_out.used = 0

DeafInv == Faultless => Hearing

LEMMA HearingHandover ==
  ASSUME Burst <= 3, Base, Flow, Hearing, InStep, Handover = "swap"
  PROVE  twi_out.data = <<>>
  <1> SUFFICES ASSUME twi_out.data # <<>> PROVE FALSE
    OBVIOUS
  <1>1. Reading
    BY HandoverSwaps
  <1>2. bus.n < burst /\ twi_out.used <= bus.n
    BY <1>1 DEF Hearing
  <1>3. twi_out.used >= Len(twi_out.data)
    BY DEF Handover, ReadOut
  <1>4. Len(twi_out.data) >= 3
    BY FlowTypes, SoundIsLong DEF Flow, Buffers
  <1>5. burst \in Nat /\ burst <= 3
    BY TwiAssumption DEF Base, GateTypes
  <1>6. twi_out.used \in Nat /\ bus.n \in Nat /\ Len(twi_out.data) \in Nat
    BY FlowTypes
  <1> QED
    BY <1>2, <1>3, <1>4, <1>5, <1>6

LEMMA HearingGate ==
  ASSUME Burst <= 3, Base, Flow, Hearing, Gate, Faultless'
  PROVE  Hearing'
  <1>0. UNCHANGED <<TWEA, TWDR, bus>> /\ (Reading' <=> Reading) /\ "overflow" \notin mishaps'
    BY DEF Gate, MainLoop, LookAtIdle, NoCommand, Command, Clear, Swap, MdbStep, sendVars,
           busVars, Reading, Faultless
  <1>1. CASE LookAtIdle
    <2>1. ~Reading /\ pc' = "command" /\ UNCHANGED twi_out
      BY <1>1 DEF LookAtIdle, sendVars, Base, Transfer
    <2> QED
      BY <1>0, <2>1 DEF Hearing
  <1>2. CASE NoCommand \/ Clear
    <2>1. InStep /\ pc' = Handover /\ pc' # "pass" /\ UNCHANGED <<twi_out, burst>>
      BY <1>2 DEF NoCommand, Clear, sendVars, InStep, Handover
    <2>2. pc' = "swap" => twi_out.data = <<>>
      BY <2>1, HearingHandover
    <2> QED
      BY <1>0, <2>1, <2>2 DEF Hearing
  <1>3. CASE Command \/ MdbStep
    <2>1. /\ SaysOrNot /\ pc' # "swap"
          /\ (pc' = "pass" /\ burst' = 0) \/ (pc' = "clear" /\ InStep /\ burst' = burst)
      BY <1>3, SizesFacts DEF Command, Answered, MdbStep, SaysOrNot, InStep
    <2>2. twi_out' = twi_out
      <3>1. CASE \E n \in Sizes : Say(n)
        BY <1>0, <3>1, BuffersSay DEF Flow
      <3> QED
        BY <2>1, <3>1 DEF SaysOrNot
    <2> QED
      BY <1>0, <2>1, <2>2 DEF Hearing, InStep
  <1>4. CASE Swap
    <2>1. /\ pc = "swap" /\ pc' = "mdb" /\ twi_out'.data = master_out /\ twi_out'.used = 0
      BY <1>4 DEF Swap
    <2>2. twi_out.data = <<>> /\ Len(twi_out.data) = 0
      BY <2>1 DEF Hearing
    <2>3. Reading => ~TWEA /\ bus.n <= 1
      BY <2>2 DEF Hearing
    <2>4. TWEA \/ bus.on
      <3>1. ~(0 >= RESPONSE_MAX_LENGTH - 1)
        BY SizesFacts
      <3> QED
        BY <2>2, <3>1 DEF Hearing
    <2>5. Len(master_out) \in Nat /\ bus.n \in Nat
      BY FlowTypes, LenProperties
    <2>6. Reading => bus'.n <= Len(twi_out'.data) + 1 /\ twi_out'.used <= bus'.n
      BY <1>0, <2>1, <2>3, <2>5
    <2> QED
      BY <1>0, <2>1, <2>3, <2>4, <2>6 DEF Hearing, InStep
  <1> QED
    BY <1>1, <1>2, <1>3, <1>4 DEF Gate, MainLoop

LEMMA HearingReadByte ==
  ASSUME Base, Flow, Hearing, ReadByte
  PROVE  Hearing'
  <1>1. Reading /\ bus.on
    BY DEF ReadByte, Reading
  <1>2. bus'.op = "read" /\ bus'.on = (TWEA /\ ~LastByte) /\ bus'.n = bus.n + 1
    BY DEF ReadByte, Base, ClientTypes
  <1>3. UNCHANGED pc /\ burst' = (IF InStep THEN burst + 1 ELSE burst) /\ (InStep' <=> InStep)
    BY DEF ReadByte, ST_DATA_ACK, ST_DATA_NACK, ST_LAST_DATA, Interrupt, mainVars, InStep
  <1>4. Len(twi_out.data) \in Nat /\ twi_out.used \in Nat /\ bus.n \in Nat /\ burst \in Nat
    BY FlowTypes DEF Base, GateTypes
  <1>5. InStep => bus'.n < burst'
    <2>1. ASSUME InStep PROVE bus'.n < burst'
      <3>1. bus.n < burst
        BY <1>1, <2>1 DEF Hearing
      <3> QED
        BY <1>2, <1>3, <1>4, <2>1, <3>1
    <2> QED
      BY <2>1
  <1>6. pc = "pass" => burst' = 0
    BY <1>3 DEF Hearing, InStep
  <1>7. CASE TWEA /\ ~LastByte
    <2>1. ST_DATA_ACK
      BY <1>7 DEF ReadByte
    <2>2. /\ twi_out'.data = twi_out.data /\ TWEA' = ~ReadOut
          /\ twi_out.data # <<>> /\ twi_out.used = bus.n /\ bus.n <= Len(twi_out.data)
      BY <1>1, <1>7, <2>1 DEF ST_DATA_ACK, Base, GateTypes, Hearing
    <2>3. bus'.on
      BY <1>2, <1>7
    <2>4. CASE ReadOut
      <3>1. twi_out' = twi_out /\ bus.n = Len(twi_out.data)
        BY <1>4, <2>1, <2>2, <2>4 DEF ST_DATA_ACK, ReadOut
      <3>2. bus'.n <= Len(twi_out'.data) + 1 /\ twi_out'.used <= bus'.n
        BY <1>2, <1>4, <2>2, <3>1
      <3>3. TWEA' = FALSE
        BY <2>2, <2>4
      <3> QED
        BY <1>3, <1>5, <1>6, <2>2, <2>3, <3>2, <3>3 DEF Hearing
    <2>5. CASE ~ReadOut
      <3>1. twi_out'.used = bus.n + 1 /\ bus.n < Len(twi_out.data)
        BY <1>4, <2>1, <2>2, <2>5 DEF ST_DATA_ACK, ReadOut, Base, GateTypes
      <3>2. bus'.n <= Len(twi_out'.data) /\ twi_out'.used = bus'.n
        BY <1>2, <1>4, <2>2, <3>1
      <3>3. TWEA' = TRUE
        BY <2>2, <2>5
      <3>4. twi_out'.used <= bus'.n
        <4>1. bus'.n = bus.n + 1 /\ bus.n \in Nat
          BY <1>2, <1>4
        <4> QED
          BY <3>2, <4>1
      <3> QED
        BY <1>3, <1>5, <1>6, <2>2, <2>3, <3>2, <3>3, <3>4 DEF Hearing
    <2> QED
      BY <2>4, <2>5
  <1>8. CASE ~TWEA /\ ~LastByte
    <2>1. TWEA' = TRUE /\ twi_out'.data = <<>>
      BY <1>8 DEF ReadByte, ST_LAST_DATA, EmptyOut
    <2>2. ~Reading'
      BY <1>2, <1>8 DEF Reading
    <2> QED
      BY <1>3, <1>6, <2>1, <2>2 DEF Hearing
  <1>9. CASE LastByte
    <2>1. twi_out'.data = twi_out.data /\ twi_out'.used = 0
      BY <1>9 DEF ReadByte, ST_DATA_NACK, Base, GateTypes
    <2>2. ~Reading'
      BY <1>2, <1>9 DEF Reading
    <2>3. Len(twi_out.data) >= RESPONSE_MAX_LENGTH - 1
      <3>1. bus.n = RESPONSE_MAX_LENGTH /\ RESPONSE_MAX_LENGTH \in Nat
        BY <1>9, SizesFacts DEF LastByte
      <3>2. bus.n <= Len(twi_out.data) + 1
        <4>1. bus.n <= Len(twi_out.data) \/ bus.n <= Len(twi_out.data) + 1
          BY <1>1 DEF Hearing
        <4> QED
          BY <1>4, <4>1
      <3> QED
        BY <1>4, <3>1, <3>2
    <2> QED
      BY <1>3, <1>6, <2>1, <2>2, <2>3 DEF Hearing
  <1> QED
    BY <1>7, <1>8, <1>9

LEMMA HearingStartRead ==
  ASSUME Base, Hearing, NEW who, StartRead(who)
  PROVE  Hearing'
  <1>1. /\ bus = Free /\ TWEA /\ TWEA' = (twi_out.data # <<>>)
        /\ bus'.op = "read" /\ bus'.n = 0 /\ bus'.on = TRUE
    BY DEF StartRead, Begins, BusFree, ST_SLA_ACK
  <1>2. twi_out'.data = twi_out.data /\ twi_out'.used = 0
    BY DEF StartRead, ST_SLA_ACK, Base, GateTypes
  <1>3. UNCHANGED pc /\ burst' = (IF InStep THEN burst + 1 ELSE burst) /\ (InStep' <=> InStep)
    BY DEF StartRead, ST_SLA_ACK, Interrupt, mainVars, InStep
  <1>4. burst \in Nat /\ Len(twi_out.data) \in Nat
    BY FlowTypes DEF Base, GateTypes
  <1>5. InStep => 0 < burst'
    BY <1>3, <1>4
  <1>6. pc = "pass" => burst' = 0
    BY <1>3 DEF Hearing, InStep
  <1>7. 0 <= Len(twi_out.data) /\ 0 <= Len(twi_out.data) + 1 /\ 0 <= 0
    BY <1>4
  <1> QED
    BY <1>1, <1>2, <1>3, <1>5, <1>6, <1>7 DEF Hearing

LEMMA HearingOthers ==
  ASSUME Base, Hearing,
         \/ WriteByte \/ WriteEnds \/ ReadEnds \/ Wake \/ Notified \/ UNCHANGED vars
         \/ \E who \in {"do", "key"} : StartWrite(who)
         \/ \E r \in Requests : Do(r)
         \/ \E who \in {"do", "run"} : ReadFails(who)
  PROVE  Hearing'
  <1>1. CASE \/ WriteByte \/ WriteEnds \/ ReadEnds
             \/ \E who \in {"do", "key"} : StartWrite(who)
    <2>1. /\ ~Reading' /\ UNCHANGED <<pc, twi_out>>
          /\ \/ TWEA' = TRUE
             \/ TWEA' = TWEA /\ (bus'.on = bus.on \/ ~bus.on)
      <3>1. CASE WriteByte
        BY <3>1 DEF WriteByte, SR_DATA_ACK, Interrupt, mainVars, Base, ClientTypes, Reading
      <3>2. CASE WriteEnds
        BY <3>2 DEF WriteEnds, SR_STOP, Interrupt, mainVars, gateVars, sendVars, Free, Reading
      <3>3. CASE ReadEnds
        BY <3>3 DEF ReadEnds, gateVars, mainVars, sendVars, Free, Reading
      <3>4. CASE \E who \in {"do", "key"} : StartWrite(who)
        <4>1. PICK who \in {"do", "key"} : StartWrite(who)
          BY <3>4
        <4>2. CASE TWEA /\ Begins(who, "write") /\ SR_SLA_ACK /\ UNCHANGED doPc
          BY <4>2 DEF Begins, SR_SLA_ACK, Interrupt, mainVars, Reading
        <4>3. CASE ~TWEA /\ BusFree /\ UNCHANGED <<bus, gateVars>>
          BY <4>3 DEF BusFree, Free, gateVars, mainVars, sendVars, Reading
        <4> QED
          BY <4>1, <4>2, <4>3 DEF StartWrite
      <3> QED
        BY <1>1, <3>1, <3>2, <3>3, <3>4
    <2>2. pc = "pass" => burst' = 0
      <3>1. burst' = burst \/ Interrupt
        BY <1>1 DEF WriteByte, SR_DATA_ACK, WriteEnds, SR_STOP, ReadEnds, StartWrite, SR_SLA_ACK,
                    gateVars
      <3> QED
        BY <3>1 DEF Interrupt, InStep, Hearing
    <2>3. ~TWEA' /\ ~bus'.on => ~TWEA /\ ~bus.on
      BY <2>1
    <2> QED
      BY <2>1, <2>2, <2>3 DEF Hearing
  <1>2. CASE \/ Wake \/ Notified \/ UNCHANGED vars \/ \E r \in Requests : Do(r)
             \/ \E who \in {"do", "run"} : ReadFails(who)
    <2>1. UNCHANGED <<pc, twi_out, TWEA, bus, burst>>
      BY <1>2 DEF Wake, Notified, vars, Do, ReadFails, gateVars, mainVars, sendVars, busVars
    <2> QED
      BY <2>1 DEF Hearing, Reading, InStep
  <1> QED
    BY <1>1, <1>2

LEMMA DeafStep ==
  ASSUME Burst <= 3, Base, FlowInv, DeafInv, [Next]_vars
  PROVE  DeafInv'
  <1> SUFFICES ASSUME Faultless' PROVE Hearing'
    BY DEF DeafInv
  <1>1. Faultless
    BY MishapsGrow DEF Faultless
  <1>2. Flow /\ Hearing
    BY <1>1 DEF FlowInv, DeafInv, Faultless
  <1>3. CASE Bus
    BY <1>2, <1>3, HearingReadByte, HearingOthers DEF Bus
  <1>4. CASE DoTransfers \/ RunTransfers \/ StartWrite("key")
    BY <1>2, <1>4, HearingStartRead, HearingOthers DEF DoTransfers, RunTransfers
  <1>5. CASE BusError
    BY <1>5 DEF BusError, BUS_ERROR, Faultless
  <1> QED
    BY <1>2, <1>3, <1>4, <1>5, HearingGate, HearingOthers DEF Next

\* A reader that takes one byte more than the longest response switches the
\* address off only at a response that fills the buffer, or all of it but one
\* byte: when the handler runs at most three times during one twi_step.
THEOREM MegaDeafOnlyWhenFull ==
  ASSUME Burst <= 3
  PROVE  Spec => []DeafOnlyWhenFull
  <1>1. Init => DeafInv
    BY DEF Init, GateInit, Free, DeafInv, Hearing, Reading
  <1>2. Base /\ FlowInv /\ DeafInv /\ [Next]_vars => DeafInv'
    BY DeafStep
  <1>3. DeafInv => DeafOnlyWhenFull
    <2>1. BusFree => bus.on = FALSE
      BY DEF BusFree, Free
    <2> QED
      BY <2>1 DEF DeafInv, Faultless, Hearing, DeafOnlyWhenFull
  <1> QED
    BY MegaBase, MegaFlow, <1>1, <1>2, <1>3, PTL DEF Spec

=============================================================================
