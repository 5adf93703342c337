--------------------------- MODULE DiagnosisProofs ---------------------------
(***************************************************************************)
(* Comparison of two traces and the protocol report on a stream, for every *)
(* length of stream, every number of deviations and every pair of files    *)
(* that are cut into comparable events: a match means equal files, a       *)
(* divergence is the first one, silence means a complete stream, and a     *)
(* complete stream is not blamed.                                          *)
(*                                                                         *)
(* AllValues joins the events of a file; the lemmas at the start relate    *)
(* places in the joined sequence to events and offsets, those after them   *)
(* say what one iteration of each of the three loops has established, and  *)
(* the last part carries the stream's monitor and the rules along.         *)
(***************************************************************************)
EXTENDS StreamDiagnosis, SequenceTheorems, WellFoundedInduction, TLAPS

LEMMA LeastNumber ==
  ASSUME NEW S \in SUBSET Nat, S # {}
  PROVE  \E m \in S : \A n \in S : m <= n
<1> DEFINE R == {p \in Nat \X Nat : p[1] < p[2]}
<1>1. IsWellFoundedOn(R, Nat)
  BY NatLessThanWellFounded DEF OpToRel
<1>2. PICK m \in S : \A n \in S : << n, m >> \notin R
  <2> HIDE DEF R
  <2>1. QED
    BY <1>1, WFMin
<1>3. \A n \in S : ~(n < m)
  BY <1>2
<1>4. QED
  BY <1>3

(* FlattenSeq joins the sequences one after the other.                     *)
Join(one, other) == one \o other

JoinsUpTo(F, seqs, n) ==
  /\ F[0] = << >>
  /\ \A i \in 1 .. n : F[i] = Join(F[i - 1], seqs[i])

LEMMA JoinExists ==
  ASSUME NEW V, NEW seqs \in Seq(Seq(V)), NEW n \in 0 .. Len(seqs)
  PROVE  \E F \in [0 .. n -> Seq(V)] : JoinsUpTo(F, seqs, n)
<1> DEFINE Exists(k) == \E F \in [0 .. k -> Seq(V)] : JoinsUpTo(F, seqs, k)
           Bad == {k \in 0 .. Len(seqs) : ~Exists(k)}
<1>1. Exists(0)
  <2>1. [i \in 0 .. 0 |-> << >>] \in [0 .. 0 -> Seq(V)]
    BY EmptySeq
  <2>2. JoinsUpTo([i \in 0 .. 0 |-> << >>], seqs, 0)
    BY DEF JoinsUpTo
  <2>3. QED
    BY <2>1, <2>2
<1>2. ASSUME NEW k \in 0 .. Len(seqs) - 1, Exists(k)
      PROVE  Exists(k + 1)
  <2>1. PICK F \in [0 .. k -> Seq(V)] : JoinsUpTo(F, seqs, k)
    BY <1>2
  <2> DEFINE G == [i \in 0 .. k + 1 |-> IF i = k + 1 THEN Join(F[k], seqs[k + 1]) ELSE F[i]]
  <2>2. seqs[k + 1] \in Seq(V) /\ F[k] \in Seq(V)
    BY ElementOfSeq
  <2>3. G \in [0 .. k + 1 -> Seq(V)]
    BY <2>2, ConcatProperties DEF Join
  <2>4. JoinsUpTo(G, seqs, k + 1)
    <3>1. G[0] = << >>
      BY <2>1 DEF JoinsUpTo
    <3>2. ASSUME NEW i \in 1 .. k + 1
          PROVE  G[i] = Join(G[i - 1], seqs[i])
      <4>1. k \in Nat /\ i - 1 \in 0 .. k
        BY LenProperties
      <4>2. CASE i = k + 1
        BY <4>1, <4>2
      <4>3. CASE i # k + 1
        <5>1. i \in 1 .. k
          BY <4>1, <4>3
        <5>2. F[i] = Join(F[i - 1], seqs[i])
          BY <2>1, <5>1 DEF JoinsUpTo
        <5>3. QED
          BY <4>1, <5>1, <5>2
      <4>4. QED
        BY <4>2, <4>3
    <3>3. QED
      BY <3>1, <3>2 DEF JoinsUpTo
  <2>5. QED
    BY <2>3, <2>4
<1>3. CASE Bad = {}
  BY <1>3
<1>4. CASE Bad # {}
  <2>1. Bad \in SUBSET Nat
    BY LenProperties
  <2>2. PICK k \in Bad : \A j \in Bad : k <= j
    <3> HIDE DEF Bad
    <3>1. QED
      BY <1>4, <2>1, LeastNumber
  <2>3. k # 0
    BY <1>1
  <2>4. k - 1 \in 0 .. Len(seqs) - 1 /\ k - 1 \notin Bad
    <3>1. Len(seqs) \in Nat /\ k \in 0 .. Len(seqs)
      BY <2>2, LenProperties
    <3>2. k - 1 \in 0 .. Len(seqs) - 1 /\ ~(k <= k - 1)
      BY <2>3, <3>1
    <3>3. k - 1 \notin Bad
      <4> HIDE DEF Bad
      <4>1. QED
        BY <2>2, <3>2
    <3>4. QED
      BY <3>2, <3>3
  <2>5. Exists(k - 1)
    BY <2>4, LenProperties
  <2>6. Exists(k - 1 + 1)
    <3> HIDE DEF Exists
    <3>1. QED
      BY <1>2, <2>4, <2>5
  <2>7. k - 1 + 1 = k
    BY <2>2, LenProperties
  <2>8. QED
    BY <2>6, <2>7
<1>5. QED
  BY <1>3, <1>4

JoinsFrom(F, seqs, n) == \A i \in 2 .. n : F[i] = Join(F[i - 1], seqs[i])

LEMMA JoinUnique ==
  ASSUME NEW seqs, NEW top \in Nat, NEW F, NEW G, F[1] = G[1],
         JoinsFrom(F, seqs, top), JoinsFrom(G, seqs, top)
  PROVE  \A n \in 1 .. top : G[n] = F[n]
<1> DEFINE Bad == {k \in 1 .. top : G[k] # F[k]}
<1>1. SUFFICES ASSUME Bad # {} PROVE FALSE
  OBVIOUS
<1>2. Bad \in SUBSET Nat
  OBVIOUS
<1>3. PICK k \in Bad : \A j \in Bad : k <= j
  <2> HIDE DEF Bad
  <2>1. QED
    BY <1>1, <1>2, LeastNumber
<1>4. k # 1
  OBVIOUS
<1>5. k - 1 \in 1 .. top /\ k - 1 \notin Bad /\ k \in 2 .. top
  BY <1>3, <1>4
<1>6. G[k - 1] = F[k - 1]
  BY <1>5
<1>7. F[k] = Join(F[k - 1], seqs[k]) /\ G[k] = Join(G[k - 1], seqs[k])
  BY <1>5 DEF JoinsFrom
<1>8. QED
  BY <1>5, <1>6, <1>7

LEMMA FlattenJoins ==
  ASSUME NEW V, NEW seqs \in Seq(Seq(V)),
         NEW F, JoinsUpTo(F, seqs, Len(seqs))
  PROVE  FlattenSeq(seqs) = F[Len(seqs)]
<1>1. Len(seqs) \in Nat
  BY LenProperties
<1>2. CASE Len(seqs) = 0
  <2>1. seqs = << >>
    BY <1>2, EmptySeq
  <2>2. QED
    BY <1>2, <2>1 DEF FlattenSeq, JoinsUpTo
<1>3. CASE Len(seqs) # 0
  <2> DEFINE D == 1 .. Len(seqs)
             Body(g) == [i \in D |-> IF i = 1 THEN seqs[i] ELSE Join(g[i - 1], seqs[i])]
             h == CHOOSE g : g = Body(g)
             w == [i \in D |-> F[i]]
  <2>1. FlattenSeq(seqs) = h[Len(seqs)]
    BY <1>3 DEF FlattenSeq, Join
  <2>2. F[1] = seqs[1]
    <3>1. 1 \in 1 .. Len(seqs)
      BY <1>1, <1>3
    <3>2. F[1] = Join(F[1 - 1], seqs[1]) /\ F[0] = << >>
      BY <3>1 DEF JoinsUpTo
    <3>3. seqs[1] \in Seq(V)
      BY <3>1, ElementOfSeq
    <3>4. Join(<< >>, seqs[1]) = seqs[1]
      BY <3>3, ConcatEmptySeq DEF Join
    <3>5. F[1] = Join(F[0], seqs[1])
      BY <3>2
    <3>6. QED
      BY <3>2, <3>4, <3>5
  <2>3. w = Body(w)
    <3>1. ASSUME NEW i \in D
          PROVE  w[i] = IF i = 1 THEN seqs[i] ELSE Join(w[i - 1], seqs[i])
      <4>1. CASE i = 1
        BY <2>2, <4>1
      <4>2. CASE i # 1
        <5>1. i - 1 \in D /\ F[i] = Join(F[i - 1], seqs[i])
          BY <1>1, <4>2 DEF JoinsUpTo
        <5>2. QED
          BY <4>2, <5>1
      <4>3. QED
        BY <4>1, <4>2
    <3>2. QED
      BY <3>1
  <2>4. h = Body(h)
    <3> HIDE DEF Body, w
    <3>1. QED
      BY <2>3
  <2>5. h[1] = seqs[1] /\ \A i \in 2 .. Len(seqs) : h[i] = Join(h[i - 1], seqs[i])
    <3> HIDE DEF h
    <3>1. 1 \in D /\ \A i \in 2 .. Len(seqs) : i \in D /\ i # 1
      BY <1>1, <1>3
    <3>2. ASSUME NEW i \in D
          PROVE  h[i] = IF i = 1 THEN seqs[i] ELSE Join(h[i - 1], seqs[i])
      BY <2>4
    <3>3. QED
      BY <3>1, <3>2
  <2>6. QED
    <3> HIDE DEF h
    <3>1. Len(seqs) \in 1 .. Len(seqs)
      BY <1>1, <1>3
    <3>2. JoinsFrom(F, seqs, Len(seqs)) /\ JoinsFrom(h, seqs, Len(seqs))
      BY <2>5 DEF JoinsUpTo, JoinsFrom
    <3>4. h[Len(seqs)] = F[Len(seqs)]
      <4>1. h[1] = F[1]
        BY <2>2, <2>5
      <4>2. QED
        BY <1>1, <3>1, <3>2, <4>1, JoinUnique
    <3>3. QED
      BY <2>1, <3>4
<1>4. QED
  BY <1>2, <1>3

(* Where the n-th sequence ends in the joined one.                         *)
Offset(seqs, n) == Len(FlattenSeq(SubSeq(seqs, 1, n)))

LEMMA FlattenUpTo ==
  ASSUME NEW V, NEW seqs \in Seq(Seq(V)),
         NEW F, JoinsUpTo(F, seqs, Len(seqs)), NEW n \in 0 .. Len(seqs)
  PROVE  FlattenSeq(SubSeq(seqs, 1, n)) = F[n]
<1>1. Len(seqs) \in Nat /\ n \in Nat
  BY LenProperties
<1>2. /\ SubSeq(seqs, 1, n) \in Seq(Seq(V))
      /\ Len(SubSeq(seqs, 1, n)) = n
      /\ \A i \in 1 .. n : SubSeq(seqs, 1, n)[i] = seqs[i]
  <2>1. CASE n = 0
    BY <2>1, SubSeqEmpty, EmptySeq, SubSeqProperties
  <2>2. CASE n # 0
    BY <1>1, <2>2, SubSeqProperties
  <2>3. QED
    BY <2>1, <2>2
<1>3. JoinsUpTo(F, SubSeq(seqs, 1, n), n)
  BY <1>1, <1>2 DEF JoinsUpTo
<1>4. QED
  BY <1>2, <1>3, FlattenJoins

(* One sequence begins with the other.                                     *)
Begins(one, other) ==
  Len(one) <= Len(other) /\ \A i \in 1 .. Len(one) : other[i] = one[i]

LEMMA JoinBegins ==
  ASSUME NEW V, NEW one \in Seq(V), NEW other \in Seq(V)
  PROVE  /\ Join(one, other) \in Seq(V)
         /\ Begins(one, Join(one, other))
         /\ Len(Join(one, other)) = Len(one) + Len(other)
         /\ \A o \in 1 .. Len(other) : Join(one, other)[Len(one) + o] = other[o]
<1>1. Len(one) \in Nat /\ Len(other) \in Nat
  BY LenProperties
<1>2. /\ Join(one, other) \in Seq(V)
      /\ Len(Join(one, other)) = Len(one) + Len(other)
      /\ \A i \in 1 .. Len(one) + Len(other) :
           Join(one, other)[i] = IF i <= Len(one) THEN one[i] ELSE other[i - Len(one)]
  BY ConcatProperties DEF Join
<1>3. Begins(one, Join(one, other))
  BY <1>1, <1>2 DEF Begins
<1>4. ASSUME NEW o \in 1 .. Len(other)
      PROVE  Join(one, other)[Len(one) + o] = other[o]
  <2>1. /\ Len(one) + o \in 1 .. Len(one) + Len(other)
        /\ ~(Len(one) + o <= Len(one)) /\ Len(one) + o - Len(one) = o
    BY <1>1
  <2>2. QED
    BY <1>2, <2>1
<1>5. QED
  BY <1>2, <1>3, <1>4

LEMMA JoinsBegin ==
  ASSUME NEW V, NEW seqs \in Seq(Seq(V)), NEW F \in [0 .. Len(seqs) -> Seq(V)],
         JoinsUpTo(F, seqs, Len(seqs)), NEW m \in 0 .. Len(seqs), NEW n \in m .. Len(seqs)
  PROVE  Begins(F[m], F[n])
<1> DEFINE Bad == {k \in m .. Len(seqs) : ~Begins(F[m], F[k])}
<1>1. Len(seqs) \in Nat /\ m \in Nat
  BY LenProperties
<1>2. SUFFICES ASSUME Bad # {} PROVE FALSE
  BY <1>1
<1>3. Bad \in SUBSET Nat
  BY <1>1
<1>4. PICK k \in Bad : \A j \in Bad : k <= j
  <2> HIDE DEF Bad
  <2>1. QED
    BY <1>2, <1>3, LeastNumber
<1>5. k # m
  BY <1>1 DEF Begins
<1>6. k - 1 \in m .. Len(seqs) /\ k \in 1 .. Len(seqs) /\ k \in m .. Len(seqs) /\ ~(k <= k - 1)
  BY <1>1, <1>5
<1>7. k - 1 \notin Bad
  <2> HIDE DEF Bad
  <2>1. QED
    BY <1>4, <1>6
<1>8. Begins(F[m], F[k - 1])
  BY <1>6, <1>7
<1>9. F[k] = Join(F[k - 1], seqs[k]) /\ F[k - 1] \in Seq(V) /\ seqs[k] \in Seq(V) /\ F[m] \in Seq(V)
  <2>1. F[k] = Join(F[k - 1], seqs[k])
    BY <1>6 DEF JoinsUpTo
  <2>2. k - 1 \in 0 .. Len(seqs)
    BY <1>1, <1>6
  <2>3. QED
    BY <1>6, <2>1, <2>2, ElementOfSeq
<1>10. Begins(F[k - 1], F[k]) /\ F[k] \in Seq(V)
  <2> DEFINE one == F[k - 1]
             other == seqs[k]
  <2>1. one \in Seq(V) /\ other \in Seq(V) /\ F[k] = Join(one, other)
    BY <1>9
  <2> HIDE DEF one, other
  <2>2. Begins(one, F[k]) /\ F[k] \in Seq(V)
    BY <2>1, JoinBegins
  <2>3. QED
    BY <2>2 DEF one
<1>11. Len(F[m]) \in Nat /\ Len(F[k]) \in Nat /\ Len(F[k - 1]) \in Nat
  BY <1>9, <1>10, LenProperties
<1>12. Begins(F[m], F[k])
  BY <1>8, <1>10, <1>11 DEF Begins
<1>13. QED
  BY <1>12

(* Every place of the joined sequence is one of one of its parts, and the  *)
(* other way round.                                                        *)
LEMMA FlattenPlaces ==
  ASSUME NEW V, NEW seqs \in Seq(Seq(V))
  PROVE  /\ FlattenSeq(seqs) \in Seq(V)
         /\ Offset(seqs, 0) = 0 /\ Offset(seqs, Len(seqs)) = Len(FlattenSeq(seqs))
         /\ \A n \in 0 .. Len(seqs) : Offset(seqs, n) \in Nat
         /\ \A n \in 1 .. Len(seqs) : Offset(seqs, n) = Offset(seqs, n - 1) + Len(seqs[n])
         /\ \A n \in 0 .. Len(seqs), m \in 0 .. Len(seqs) :
              n <= m => Offset(seqs, n) <= Offset(seqs, m)
         /\ \A n \in 1 .. Len(seqs) : \A o \in 1 .. Len(seqs[n]) :
              FlattenSeq(seqs)[Offset(seqs, n - 1) + o] = seqs[n][o]
         /\ \A i \in DOMAIN FlattenSeq(seqs) :
              \E n \in 1 .. Len(seqs) : \E o \in 1 .. Len(seqs[n]) :
                i = Offset(seqs, n - 1) + o
<1>1. Len(seqs) \in Nat
  BY LenProperties
<1>2. PICK F \in [0 .. Len(seqs) -> Seq(V)] : JoinsUpTo(F, seqs, Len(seqs))
  <2>1. Len(seqs) \in 0 .. Len(seqs)
    BY <1>1
  <2>2. QED
    BY <2>1, JoinExists
<1>3. \A n \in 0 .. Len(seqs) : FlattenSeq(SubSeq(seqs, 1, n)) = F[n]
  BY <1>2, FlattenUpTo
<1>4. FlattenSeq(seqs) = F[Len(seqs)]
  BY <1>2, FlattenJoins
<1> DEFINE top == Len(seqs)
           size(n) == Len(seqs[n])
           end(n) == Offset(seqs, n)
<1>5. \A n \in 0 .. top : end(n) = Len(F[n]) /\ end(n) \in Nat /\ F[n] \in Seq(V)
  BY <1>3, LenProperties DEF Offset
<1>6. ASSUME NEW n \in 1 .. top
      PROVE  /\ F[n] = Join(F[n - 1], seqs[n]) /\ F[n - 1] \in Seq(V) /\ seqs[n] \in Seq(V)
             /\ n - 1 \in 0 .. top /\ n \in 0 .. top
  <2>1. n - 1 \in 0 .. top /\ n \in 0 .. top
    BY <1>1
  <2>2. F[n] = Join(F[n - 1], seqs[n])
    BY <1>2 DEF JoinsUpTo
  <2>3. QED
    BY <2>1, <2>2, ElementOfSeq
<1>7. ASSUME NEW n \in 1 .. top
      PROVE  /\ end(n) = end(n - 1) + size(n)
             /\ \A o \in 1 .. size(n) : F[n][end(n - 1) + o] = seqs[n][o]
             /\ size(n) \in Nat
  <2> DEFINE one == F[n - 1]
             other == seqs[n]
  <2>1. one \in Seq(V) /\ other \in Seq(V) /\ F[n] = Join(one, other)
    BY <1>6
  <2>2. end(n) = Len(F[n]) /\ end(n - 1) = Len(one)
    BY <1>5, <1>6
  <2> HIDE DEF one
  <2>3. other \in Seq(V) => Len(other) \in Nat
    BY LenProperties
  <2>4. QED
    <3> HIDE DEF other
    <3>1. /\ Len(F[n]) = Len(one) + Len(other)
          /\ \A o \in 1 .. Len(other) : F[n][Len(one) + o] = other[o]
      <4>1. /\ Len(Join(one, other)) = Len(one) + Len(other)
            /\ \A o \in 1 .. Len(other) : Join(one, other)[Len(one) + o] = other[o]
        <5> HIDE DEF top, size, end
        <5>1. one \in Seq(V) /\ other \in Seq(V)
          BY <2>1
        <5>2. QED
          BY <5>1, JoinBegins
      <4>2. QED
        BY <2>1, <4>1
    <3>2. size(n) = Len(other) /\ seqs[n] = other
      BY DEF other
    <3> HIDE DEF size, end
    <3>3. QED
      BY <2>1, <2>2, <2>3, <3>1, <3>2
<1>8. ASSUME NEW n \in 0 .. top, NEW m \in 0 .. top, n <= m
      PROVE  Begins(F[n], F[m])
  <2>1. m \in n .. top
    BY <1>1, <1>8
  <2>2. QED
    BY <1>2, <2>1, JoinsBegin
<1>9. \A n, m \in 0 .. top : n <= m => end(n) <= end(m)
  BY <1>5, <1>8 DEF Begins
<1>10. ASSUME NEW n \in 1 .. top, NEW o \in 1 .. size(n)
       PROVE  F[top][end(n - 1) + o] = seqs[n][o] /\ end(n - 1) + o \in 1 .. end(n)
  <2>1. Begins(F[n], F[top])
    BY <1>1, <1>8
  <2>2. /\ end(n) = Len(F[n]) /\ end(n) = end(n - 1) + size(n) /\ size(n) \in Nat
        /\ end(n - 1) \in Nat /\ F[n][end(n - 1) + o] = seqs[n][o]
    BY <1>5, <1>6, <1>7
  <2> HIDE DEF end, size, top
  <2>3. end(n - 1) + o \in 1 .. end(n)
    BY <2>2
  <2>4. QED
    BY <2>1, <2>2, <2>3 DEF Begins
<1>11. ASSUME NEW i \in DOMAIN F[top]
       PROVE  \E n \in 1 .. top : \E o \in 1 .. size(n) : i = end(n - 1) + o
  <2> DEFINE Past == {n \in 0 .. top : i <= end(n)}
  <2>1. i \in 1 .. end(top) /\ top \in Past
    <3>1. top \in 0 .. top
      BY <1>1
    <3>2. F[top] \in Seq(V) /\ end(top) = Len(F[top]) /\ end(top) \in Nat
      BY <1>5, <3>1
    <3> HIDE DEF top, end
    <3>3. i \in 1 .. end(top)
      BY <3>2, LenProperties
    <3>4. QED
      BY <3>1, <3>2, <3>3
  <2>2. PICK n \in Past : \A m \in Past : n <= m
    <3>1. Past \in SUBSET Nat /\ Past # {}
      BY <1>1, <2>1
    <3> HIDE DEF Past
    <3>2. QED
      BY <3>1, LeastNumber
  <2>3. end(0) = 0
    <3>1. F[0] = << >> /\ 0 \in 0 .. top
      BY <1>1, <1>2 DEF JoinsUpTo
    <3>2. QED
      BY <1>5, <3>1, EmptySeq
  <2> HIDE DEF end, size
  <2>4. n # 0
    BY <2>1, <2>2, <2>3
  <2>5. n \in 1 .. top /\ n - 1 \in 0 .. top /\ ~(n <= n - 1)
    BY <1>1, <2>2, <2>4
  <2>6. ~(i <= end(n - 1))
    <3>1. n - 1 \notin Past
      <4> HIDE DEF Past
      <4>1. QED
        BY <2>2, <2>5
    <3>2. QED
      BY <2>5, <3>1
  <2>7. /\ end(n) = end(n - 1) + size(n) /\ size(n) \in Nat /\ end(n - 1) \in Nat
        /\ i <= end(n) /\ i \in Nat
    BY <1>5, <1>7, <2>1, <2>2, <2>5
  <2>8. i - end(n - 1) \in 1 .. size(n) /\ i = end(n - 1) + (i - end(n - 1))
    BY <2>6, <2>7
  <2>9. QED
    BY <2>5, <2>8
<1>12. end(0) = 0 /\ end(top) = Len(F[top]) /\ F[top] \in Seq(V)
  <2>1. F[0] = << >> /\ 0 \in 0 .. top /\ top \in 0 .. top
    BY <1>1, <1>2 DEF JoinsUpTo
  <2>2. QED
    BY <1>5, <2>1, EmptySeq
<1>13. QED
  BY <1>4, <1>5, <1>7, <1>9, <1>10, <1>11, <1>12

-----------------------------------------------------------------------------
LEMMA LeastIsOne ==
  ASSUME NEW S \in SUBSET Nat
  PROVE  /\ S = {} => LeastOf(S) = {}
         /\ S # {} => \E m \in S : LeastOf(S) = {m} /\ \A n \in S : m <= n
<1>1. CASE S = {}
  BY <1>1 DEF LeastOf
<1>2. CASE S # {}
  <2>1. PICK m \in S : \A n \in S : m <= n
    BY <1>2, LeastNumber
  <2>2. \A n \in LeastOf(S) : n = m
    <3>1. ASSUME NEW n \in S, \A j \in S : n <= j
          PROVE  n = m
      <4>1. n <= m /\ m <= n /\ n \in Nat /\ m \in Nat
        BY <2>1, <3>1
      <4>2. QED
        BY <4>1
    <3>2. QED
      BY <3>1 DEF LeastOf
  <2>3. LeastOf(S) = {m}
    BY <2>1, <2>2 DEF LeastOf
  <2>4. QED
    BY <1>2, <2>1, <2>3
<1>3. QED
  BY <1>1, <1>2

LEMMA WithFinds ==
  ASSUME NEW values, DOMAIN values \in SUBSET Nat, NEW key
  PROVE  /\ (\A i \in DOMAIN values : values[i].key # key) => With(values, key) = {}
         /\ (\E i \in DOMAIN values : values[i].key = key) =>
              \E i \in DOMAIN values : values[i].key = key /\ With(values, key) = {values[i]}
<1> DEFINE S == {i \in DOMAIN values : values[i].key = key}
<1>1. With(values, key) = {values[i] : i \in LeastOf(S)}
  BY DEF With
<1>2. S \in SUBSET Nat
  OBVIOUS
<1>3. CASE S = {}
  <2>1. LeastOf(S) = {}
    <3> HIDE DEF S
    <3>1. QED
      BY <1>2, <1>3, LeastIsOne
  <2>2. QED
    BY <1>1, <1>3, <2>1
<1>4. CASE S # {}
  <2>1. PICK m \in S : LeastOf(S) = {m}
    <3> HIDE DEF S
    <3>1. QED
      BY <1>2, <1>4, LeastIsOne
  <2>2. m \in DOMAIN values /\ values[m].key = key
    OBVIOUS
  <2>3. With(values, key) = {values[m]}
    <3> HIDE DEF S
    <3>1. QED
      BY <1>1, <2>1
  <2>4. QED
    BY <2>2, <2>3
<1>5. QED
  BY <1>3, <1>4

LEMMA WithIsOnly ==
  ASSUME NEW values, DOMAIN values \in SUBSET Nat, ~HasDuplicate(values),
         NEW i \in DOMAIN values
  PROVE  With(values, values[i].key) = {values[i]}
<1>1. PICK j \in DOMAIN values :
        values[j].key = values[i].key /\ With(values, values[i].key) = {values[j]}
  BY WithFinds
<1>2. j = i
  BY <1>1 DEF HasDuplicate
<1>3. QED
  BY <1>1, <1>2

(* What the loops say of two sides.                                        *)
KindOf(ref, cand, key) ==
  CompareMetadataFirst(With(AllValues(ref), key), With(AllValues(cand), key))

LEMMA KindOfSides ==
  ASSUME NEW e, NEW a, NEW S
  PROVE  /\ CompareMetadataFirst({}, S) = "unexpected_candidate_value"
         /\ CompareMetadataFirst({e}, {}) = "missing_candidate_value"
         /\ e.meta # a.meta => CompareMetadataFirst({e}, {a}) = "metadata_mismatch"
         /\ e.meta = a.meta /\ e.value # a.value => CompareMetadataFirst({e}, {a}) = "value_mismatch"
         /\ CompareMetadataFirst({e}, {a}) = "equal" <=> e.meta = a.meta /\ e.value = a.value
<1>1. {v.meta : v \in {e}} = {e.meta} /\ {v.value : v \in {e}} = {e.value}
  OBVIOUS
<1>2. {v.meta : v \in {a}} = {a.meta} /\ {v.value : v \in {a}} = {a.value}
  OBVIOUS
<1>3. {e.meta} = {a.meta} <=> e.meta = a.meta
  OBVIOUS
<1>4. {e.value} = {a.value} <=> e.value = a.value
  OBVIOUS
<1>5. {e} # {} /\ {a} # {}
  OBVIOUS
<1>6. CompareMetadataFirst({e}, {a}) =
        IF {e.meta} # {a.meta} THEN "metadata_mismatch"
        ELSE IF {e.value} # {a.value} THEN "value_mismatch" ELSE "equal"
  BY <1>1, <1>2, <1>5 DEF CompareMetadataFirst
<1>7. QED
  BY <1>3, <1>4, <1>5, <1>6 DEF CompareMetadataFirst
-----------------------------------------------------------------------------
(* The values of a trace, event by event.                                  *)
Expanded(trace) == [i \in DOMAIN trace |-> expand_event(trace[i])]

End(trace, n) == Offset(Expanded(trace), n)

LEMMA EventValues ==
  ASSUME NEW event, IsEvent(event)
  PROVE  /\ chunk_size(event) \in Nat \ {0}
         /\ DOMAIN event.values = 1 .. chunk_size(event)
         /\ event.kind = "scalar" => chunk_size(event) = 1
         /\ DOMAIN expand_event(event) = 1 .. chunk_size(event)
         /\ Len(expand_event(event)) = chunk_size(event)
         /\ \A o \in 1 .. chunk_size(event) : expand_event(event)[o] = AlignedValue(event, o - 1)
<1>1. event.values \in Seq(ToSet(event.values)) /\ event.values # << >>
  BY DEF IsEvent
<1>2. chunk_size(event) \in Nat \ {0} /\ DOMAIN event.values = 1 .. chunk_size(event)
  BY <1>1, EmptySeq, LenProperties DEF chunk_size
<1>3. /\ DOMAIN expand_event(event) = 1 .. chunk_size(event)
      /\ \A o \in 1 .. chunk_size(event) : expand_event(event)[o] = AlignedValue(event, o - 1)
  BY DEF expand_event
<1>4. Len(expand_event(event)) = chunk_size(event)
  <2>1. expand_event(event) \in Seq({AlignedValue(event, o - 1) : o \in 1 .. chunk_size(event)})
    BY <1>2, <1>3, IsASeq DEF expand_event
  <2>2. QED
    BY <1>2, <1>3, <2>1, LenProperties
<1>5. QED
  BY <1>2, <1>3, <1>4 DEF IsEvent, chunk_size

LEMMA ExpandedParts ==
  ASSUME NEW trace, IsTrace(trace)
  PROVE  /\ Len(trace) \in Nat /\ DOMAIN trace = 1 .. Len(trace)
         /\ Len(Expanded(trace)) = Len(trace)
         /\ \A n \in 1 .. Len(trace) : Expanded(trace)[n] = expand_event(trace[n]) /\ IsEvent(trace[n])
         /\ \E V : Expanded(trace) \in Seq(Seq(V))
<1> DEFINE V == UNION {{AlignedValue(trace[n], o - 1) : o \in 1 .. chunk_size(trace[n])} : n \in DOMAIN trace}
<1>1. Len(trace) \in Nat /\ DOMAIN trace = 1 .. Len(trace)
  BY LenProperties DEF IsTrace
<1>2. \A n \in 1 .. Len(trace) : Expanded(trace)[n] = expand_event(trace[n]) /\ IsEvent(trace[n])
  BY <1>1 DEF IsTrace, Expanded
<1>3. ASSUME NEW n \in 1 .. Len(trace)
      PROVE  expand_event(trace[n]) \in Seq(V)
  <2>1. IsEvent(trace[n])
    BY <1>2
  <2>2. chunk_size(trace[n]) \in Nat
    BY <2>1, EventValues
  <2>3. \A o \in 1 .. chunk_size(trace[n]) : AlignedValue(trace[n], o - 1) \in V
    BY <1>1
  <2>4. QED
    <3> HIDE DEF V
    <3>1. QED
      BY <2>2, <2>3, IsASeq DEF expand_event
<1>4. Expanded(trace) \in Seq(Seq(V))
  <2> HIDE DEF V
  <2>1. QED
    BY <1>1, <1>3, IsASeq DEF Expanded
<1>5. Len(Expanded(trace)) = Len(trace)
  <2> HIDE DEF V
  <2>1. DOMAIN Expanded(trace) = 1 .. Len(trace)
    BY <1>1 DEF Expanded
  <2>2. Len(Expanded(trace)) \in Nat /\ DOMAIN Expanded(trace) = 1 .. Len(Expanded(trace))
    BY <1>4, LenProperties
  <2>3. QED
    BY <1>1, <2>1, <2>2
<1>6. QED
  BY <1>1, <1>2, <1>4, <1>5

LEMMA TracePlaces ==
  ASSUME NEW trace, IsTrace(trace)
  PROVE  /\ Len(trace) \in Nat /\ DOMAIN trace = 1 .. Len(trace)
         /\ TotalValues(trace) \in Nat /\ DOMAIN AllValues(trace) = 1 .. TotalValues(trace)
         /\ \E V : AllValues(trace) \in Seq(V)
         /\ End(trace, 0) = 0 /\ End(trace, Len(trace)) = TotalValues(trace)
         /\ \A n \in 0 .. Len(trace) : End(trace, n) \in 0 .. TotalValues(trace)
         /\ \A n \in 1 .. Len(trace) : End(trace, n) = End(trace, n - 1) + chunk_size(trace[n])
         /\ \A n \in 0 .. Len(trace), m \in 0 .. Len(trace) :
              n <= m => End(trace, n) <= End(trace, m)
         /\ \A n \in 1 .. Len(trace) : \A o \in 1 .. chunk_size(trace[n]) :
              AllValues(trace)[End(trace, n - 1) + o] = AlignedValue(trace[n], o - 1)
         /\ \A i \in 1 .. TotalValues(trace) :
              \E n \in 1 .. Len(trace) : \E o \in 1 .. chunk_size(trace[n]) :
                i = End(trace, n - 1) + o
<1> DEFINE seqs == Expanded(trace)
<1>1. /\ Len(trace) \in Nat /\ DOMAIN trace = 1 .. Len(trace)
      /\ Len(seqs) = Len(trace)
      /\ \A n \in 1 .. Len(trace) : seqs[n] = expand_event(trace[n]) /\ IsEvent(trace[n])
  BY ExpandedParts
<1>2. PICK V : seqs \in Seq(Seq(V))
  BY ExpandedParts
<1>3. AllValues(trace) = FlattenSeq(seqs) /\ \A n : End(trace, n) = Offset(seqs, n)
  BY DEF AllValues, Expanded, End
<1>4. \A n \in 1 .. Len(trace) :
        /\ Len(seqs[n]) = chunk_size(trace[n])
        /\ \A o \in 1 .. chunk_size(trace[n]) : seqs[n][o] = AlignedValue(trace[n], o - 1)
  BY <1>1, EventValues
<1> HIDE DEF seqs
<1>5. /\ FlattenSeq(seqs) \in Seq(V)
      /\ Offset(seqs, 0) = 0 /\ Offset(seqs, Len(seqs)) = Len(FlattenSeq(seqs))
      /\ \A n \in 0 .. Len(seqs) : Offset(seqs, n) \in Nat
      /\ \A n \in 1 .. Len(seqs) : Offset(seqs, n) = Offset(seqs, n - 1) + Len(seqs[n])
      /\ \A n \in 0 .. Len(seqs), m \in 0 .. Len(seqs) :
           n <= m => Offset(seqs, n) <= Offset(seqs, m)
      /\ \A n \in 1 .. Len(seqs) : \A o \in 1 .. Len(seqs[n]) :
           FlattenSeq(seqs)[Offset(seqs, n - 1) + o] = seqs[n][o]
      /\ \A i \in DOMAIN FlattenSeq(seqs) :
           \E n \in 1 .. Len(seqs) : \E o \in 1 .. Len(seqs[n]) :
             i = Offset(seqs, n - 1) + o
  BY <1>2, FlattenPlaces
<1>6. TotalValues(trace) \in Nat /\ DOMAIN AllValues(trace) = 1 .. TotalValues(trace)
  BY <1>3, <1>5, LenProperties DEF TotalValues
<1>7. End(trace, 0) = 0 /\ End(trace, Len(trace)) = TotalValues(trace)
  BY <1>1, <1>3, <1>5 DEF TotalValues
<1>8. \A n \in 0 .. Len(trace), m \in 0 .. Len(trace) :
        n <= m => End(trace, n) <= End(trace, m)
  BY <1>1, <1>3, <1>5
<1>9. \A n \in 0 .. Len(trace) : End(trace, n) \in 0 .. TotalValues(trace)
  <2>1. ASSUME NEW n \in 0 .. Len(trace)
        PROVE  End(trace, n) \in 0 .. TotalValues(trace)
    <3>1. End(trace, n) \in Nat
      BY <1>1, <1>3, <1>5
    <3>2. Len(trace) \in 0 .. Len(trace) /\ n <= Len(trace)
      BY <1>1
    <3>3. End(trace, n) <= TotalValues(trace)
      BY <1>7, <1>8, <3>2
    <3>4. QED
      BY <1>6, <3>1, <3>3
  <2>2. QED
    BY <2>1
<1>10. \A n \in 1 .. Len(trace) : End(trace, n) = End(trace, n - 1) + chunk_size(trace[n])
  BY <1>1, <1>3, <1>4, <1>5
<1>11. \A n \in 1 .. Len(trace) : \A o \in 1 .. chunk_size(trace[n]) :
         AllValues(trace)[End(trace, n - 1) + o] = AlignedValue(trace[n], o - 1)
  <2>1. ASSUME NEW n \in 1 .. Len(trace), NEW o \in 1 .. chunk_size(trace[n])
        PROVE  AllValues(trace)[End(trace, n - 1) + o] = AlignedValue(trace[n], o - 1)
    <3>1. n \in 1 .. Len(seqs) /\ o \in 1 .. Len(seqs[n]) /\ seqs[n][o] = AlignedValue(trace[n], o - 1)
      BY <1>1, <1>4
    <3>2. FlattenSeq(seqs)[Offset(seqs, n - 1) + o] = seqs[n][o]
      BY <1>5, <3>1
    <3>3. QED
      BY <1>3, <3>1, <3>2
  <2>2. QED
    BY <2>1
<1>12. \A i \in 1 .. TotalValues(trace) :
         \E n \in 1 .. Len(trace) : \E o \in 1 .. chunk_size(trace[n]) :
           i = End(trace, n - 1) + o
  <2>1. ASSUME NEW i \in 1 .. TotalValues(trace)
        PROVE  \E n \in 1 .. Len(trace) : \E o \in 1 .. chunk_size(trace[n]) :
                 i = End(trace, n - 1) + o
    <3>1. PICK n \in 1 .. Len(seqs) : \E o \in 1 .. Len(seqs[n]) : i = Offset(seqs, n - 1) + o
      BY <1>3, <1>5, <1>6
    <3>2. QED
      BY <1>1, <1>3, <1>4, <3>1
  <2>2. QED
    BY <2>1
<1>13. QED
  BY <1>1, <1>3, <1>5, <1>6, <1>7, <1>8, <1>9, <1>10, <1>11, <1>12

LEMMA ScalarPlaces ==
  ASSUME NEW trace, IsTrace(trace), \A i \in DOMAIN trace : trace[i].kind = "scalar"
  PROVE  /\ TotalValues(trace) = Len(trace)
         /\ \A n \in 0 .. Len(trace) : End(trace, n) = n
         /\ \A i \in 1 .. Len(trace) : AllValues(trace)[i] = first_value(trace[i])
<1>1. /\ Len(trace) \in Nat /\ DOMAIN trace = 1 .. Len(trace)
      /\ End(trace, 0) = 0 /\ End(trace, Len(trace)) = TotalValues(trace)
      /\ \A n \in 0 .. Len(trace) : End(trace, n) \in 0 .. TotalValues(trace)
      /\ \A n \in 1 .. Len(trace) : End(trace, n) = End(trace, n - 1) + chunk_size(trace[n])
      /\ \A n \in 1 .. Len(trace) : \A o \in 1 .. chunk_size(trace[n]) :
           AllValues(trace)[End(trace, n - 1) + o] = AlignedValue(trace[n], o - 1)
  BY TracePlaces
<1>2. \A n \in 1 .. Len(trace) : chunk_size(trace[n]) = 1
  BY <1>1, EventValues DEF IsTrace
<1>3. \A n \in 0 .. Len(trace) : End(trace, n) = n
  <2> DEFINE Bad == {n \in 0 .. Len(trace) : End(trace, n) # n}
  <2>1. SUFFICES ASSUME Bad # {} PROVE FALSE
    OBVIOUS
  <2>2. Bad \in SUBSET Nat
    OBVIOUS
  <2>3. PICK n \in Bad : \A m \in Bad : n <= m
    <3> HIDE DEF Bad
    <3>1. QED
      BY <2>1, <2>2, LeastNumber
  <2>4. n # 0
    BY <1>1
  <2>5. n \in 1 .. Len(trace) /\ n - 1 \in 0 .. Len(trace) /\ ~(n <= n - 1)
    BY <1>1, <2>4
  <2>6. n - 1 \notin Bad
    <3> HIDE DEF Bad
    <3>1. QED
      BY <2>3, <2>5
  <2>7. End(trace, n - 1) = n - 1 /\ End(trace, n) = End(trace, n - 1) + 1
    BY <1>1, <1>2, <2>5, <2>6
  <2>8. QED
    BY <2>5, <2>7
<1>4. ASSUME NEW i \in 1 .. Len(trace)
      PROVE  AllValues(trace)[i] = first_value(trace[i])
  <2>1. i - 1 \in 0 .. Len(trace) /\ 1 \in 1 .. chunk_size(trace[i]) /\ i - 1 + 1 = i /\ 1 - 1 = 0
    BY <1>1, <1>2
  <2>2. AllValues(trace)[End(trace, i - 1) + 1] = AlignedValue(trace[i], 1 - 1)
    BY <1>1, <2>1
  <2>3. QED
    BY <1>3, <2>1, <2>2 DEF first_value
<1>5. TotalValues(trace) = Len(trace)
  BY <1>1, <1>3
<1>6. QED
  BY <1>3, <1>4, <1>5
-----------------------------------------------------------------------------
(* The first divergence, said of two traces: DivergenceIsFirst.            *)
Agreed(ref, cand, n) ==
  \A j \in 1 .. n : KindOf(ref, cand, AllValues(ref)[j].key) = "equal"

IsFirst(said, matched, ref, cand) ==
  LET total == TotalValues(ref)
      both  == AllValues(ref) \o AllValues(cand)
  IN  \E i \in DOMAIN both :
        /\ said.at = {both[i].key}
        /\ KindOf(ref, cand, both[i].key) = said.kind
        /\ \A j \in 1 .. i - 1 : KindOf(ref, cand, both[j].key) = "equal"
        /\ matched = IF i <= total THEN i - 1 ELSE total

LEMMA BothValues ==
  ASSUME NEW ref, IsTrace(ref), NEW cand, IsTrace(cand)
  PROVE  LET both == AllValues(ref) \o AllValues(cand)
         IN  /\ TotalValues(ref) \in Nat /\ TotalValues(cand) \in Nat
             /\ DOMAIN both = 1 .. TotalValues(ref) + TotalValues(cand)
             /\ \A i \in 1 .. TotalValues(ref) + TotalValues(cand) :
                  both[i] = IF i <= TotalValues(ref) THEN AllValues(ref)[i]
                            ELSE AllValues(cand)[i - TotalValues(ref)]
<1>1. PICK V : AllValues(ref) \in Seq(V)
  BY TracePlaces
<1>2. PICK W : AllValues(cand) \in Seq(W)
  BY TracePlaces
<1>3. AllValues(ref) \in Seq(V \cup W) /\ AllValues(cand) \in Seq(V \cup W)
  BY <1>1, <1>2, SeqMonotonic
<1>4. QED
  BY <1>3, ConcatProperties, LenProperties DEF TotalValues

LEMMA FirstInReference ==
  ASSUME NEW ref, IsTrace(ref), NEW cand, IsTrace(cand),
         NEW i \in 1 .. TotalValues(ref), NEW said, said.at = {AllValues(ref)[i].key},
         KindOf(ref, cand, AllValues(ref)[i].key) = said.kind, Agreed(ref, cand, i - 1)
  PROVE  IsFirst(said, i - 1, ref, cand)
<1> DEFINE both == AllValues(ref) \o AllValues(cand)
           total == TotalValues(ref)
           KindAt(key) == KindOf(ref, cand, key)
<1>1. /\ total \in Nat /\ TotalValues(cand) \in Nat
      /\ DOMAIN both = 1 .. total + TotalValues(cand)
      /\ \A j \in 1 .. total : both[j] = AllValues(ref)[j]
  BY BothValues
<1>2. i \in DOMAIN both /\ i <= total /\ i \in Nat
  <2> HIDE DEF both
  <2>1. QED
    BY <1>1
<1>3. \A j \in 1 .. i - 1 : j \in 1 .. total
  BY <1>1
<1>4. /\ said.at = {both[i].key}
      /\ KindAt(both[i].key) = said.kind
      /\ \A j \in 1 .. i - 1 : KindAt(both[j].key) = "equal"
      /\ i - 1 = IF i <= total THEN i - 1 ELSE total
  <2>1. both[i] = AllValues(ref)[i]
    BY <1>1
  <2> HIDE DEF both
  <2>2. \A j \in 1 .. i - 1 : KindAt(both[j].key) = "equal"
    BY <1>1, <1>3 DEF Agreed
  <2>3. QED
    BY <1>2, <2>1, <2>2
<1>5. QED
  BY <1>2, <1>4 DEF IsFirst

LEMMA FirstInCandidate ==
  ASSUME NEW ref, IsTrace(ref), NEW cand, IsTrace(cand),
         NEW i \in 1 .. TotalValues(cand), NEW said, said.at = {AllValues(cand)[i].key},
         KindOf(ref, cand, AllValues(cand)[i].key) = said.kind,
         Agreed(ref, cand, TotalValues(ref)),
         \A j \in 1 .. i - 1 : KindOf(ref, cand, AllValues(cand)[j].key) = "equal"
  PROVE  IsFirst(said, TotalValues(ref), ref, cand)
<1> DEFINE both == AllValues(ref) \o AllValues(cand)
           total == TotalValues(ref)
           KindAt(key) == KindOf(ref, cand, key)
           at == total + i
<1>1. /\ total \in Nat /\ TotalValues(cand) \in Nat
      /\ DOMAIN both = 1 .. total + TotalValues(cand)
      /\ \A j \in 1 .. total + TotalValues(cand) :
           both[j] = IF j <= total THEN AllValues(ref)[j] ELSE AllValues(cand)[j - total]
  BY BothValues
<1>2. at \in DOMAIN both /\ ~(at <= total) /\ at - total = i
  <2> HIDE DEF both, total
  <2>1. QED
    BY <1>1
<1>3. both[at] = AllValues(cand)[i]
  <2> HIDE DEF both, total
  <2>1. QED
    BY <1>1, <1>2
<1>4. ASSUME NEW j \in 1 .. at - 1
      PROVE  KindAt(both[j].key) = "equal"
  <2>1. CASE j <= total
    <3>1. j \in 1 .. total /\ j \in 1 .. total + TotalValues(cand)
      <4> HIDE DEF total
      <4>1. QED
        BY <1>1, <2>1
    <3>2. both[j] = AllValues(ref)[j]
      <4> HIDE DEF both
      <4>1. QED
        BY <1>1, <2>1, <3>1
    <3>3. QED
      BY <3>1, <3>2 DEF Agreed
  <2>2. CASE ~(j <= total)
    <3>1. j - total \in 1 .. i - 1 /\ j \in 1 .. total + TotalValues(cand)
      <4> HIDE DEF total
      <4>1. QED
        BY <1>1, <2>2
    <3>2. both[j] = AllValues(cand)[j - total]
      <4> HIDE DEF both
      <4>1. QED
        BY <1>1, <2>2, <3>1
    <3>3. QED
      BY <3>1, <3>2
  <2>3. QED
    BY <2>1, <2>2
<1>5. /\ said.at = {both[at].key}
      /\ KindAt(both[at].key) = said.kind
      /\ total = IF at <= total THEN at - 1 ELSE total
  <2> HIDE DEF at, both
  <2>1. QED
    BY <1>2, <1>3
<1>6. QED
  <2> HIDE DEF at
  <2>1. QED
    BY <1>2, <1>4, <1>5 DEF IsFirst

(* The verdict of a match: MatchMeansEqual.                                *)
IsMatch(matched, ref, cand) ==
  /\ ToSet(AllValues(ref)) = ToSet(AllValues(cand))
  /\ ~HasDuplicate(AllValues(ref)) /\ ~HasDuplicate(AllValues(cand))
  /\ matched = TotalValues(ref)

LEMMA ValueIsRecord ==
  ASSUME NEW trace, IsTrace(trace), NEW i \in 1 .. TotalValues(trace)
  PROVE  LET v == AllValues(trace)[i]
         IN  v = [key |-> v.key, value |-> v.value, meta |-> v.meta]
<1>1. PICK n \in 1 .. Len(trace) : \E o \in 1 .. chunk_size(trace[n]) : i = End(trace, n - 1) + o
  BY TracePlaces
<1>2. PICK o \in 1 .. chunk_size(trace[n]) : i = End(trace, n - 1) + o
  BY <1>1
<1>3. AllValues(trace)[i] = AlignedValue(trace[n], o - 1)
  BY <1>2, TracePlaces
<1>4. QED
  BY <1>3 DEF AlignedValue

LEMMA EqualValues ==
  ASSUME NEW ref, IsTrace(ref), NEW cand, IsTrace(cand),
         ~HasDuplicate(AllValues(ref)), ~HasDuplicate(AllValues(cand)),
         NEW j \in 1 .. TotalValues(ref),
         KindOf(ref, cand, AllValues(ref)[j].key) = "equal"
  PROVE  \E i \in 1 .. TotalValues(cand) : AllValues(cand)[i] = AllValues(ref)[j]
<1> DEFINE E == AllValues(ref)
           A == AllValues(cand)
           key == E[j].key
<1>1. DOMAIN E = 1 .. TotalValues(ref) /\ DOMAIN A = 1 .. TotalValues(cand)
  BY TracePlaces
<1>2. With(E, key) = {E[j]}
  <2> HIDE DEF E
  <2>1. j \in DOMAIN E /\ DOMAIN E \in SUBSET Nat /\ ~HasDuplicate(E)
    BY <1>1 DEF E
  <2>2. QED
    BY <2>1, WithIsOnly
<1>3. CompareMetadataFirst({E[j]}, With(A, key)) = "equal"
  <2>1. CompareMetadataFirst(With(E, key), With(A, key)) = "equal"
    BY DEF KindOf
  <2> HIDE DEF key, E, A
  <2>2. QED
    BY <1>2, <2>1
<1>4. PICK i \in DOMAIN A : A[i].key = key /\ With(A, key) = {A[i]}
  <2> HIDE DEF A, key
  <2>1. With(A, key) # {}
    BY <1>3, KindOfSides
  <2>2. DOMAIN A \in SUBSET Nat
    BY <1>1
  <2>3. QED
    BY <2>1, <2>2, WithFinds
<1>5. E[j].meta = A[i].meta /\ E[j].value = A[i].value
  <2> DEFINE e == E[j]
             a == A[i]
  <2>1. CompareMetadataFirst({e}, {a}) = "equal"
    BY <1>3, <1>4
  <2> HIDE DEF e, a
  <2>2. e.meta = a.meta /\ e.value = a.value
    BY <2>1, KindOfSides
  <2>3. QED
    BY <2>2 DEF e, a
<1>6. /\ E[j] = [key |-> E[j].key, value |-> E[j].value, meta |-> E[j].meta]
      /\ A[i] = [key |-> A[i].key, value |-> A[i].value, meta |-> A[i].meta]
  BY <1>1, ValueIsRecord
<1>7. A[i] = E[j]
  <2> HIDE DEF A, E
  <2>1. A[i].key = E[j].key
    BY <1>4
  <2>2. QED
    BY <1>5, <1>6, <2>1
<1>8. QED
  BY <1>1, <1>7

LEMMA MatchIsEqual ==
  ASSUME NEW ref, IsTrace(ref), NEW cand, IsTrace(cand),
         ~HasDuplicate(AllValues(ref)), ~HasDuplicate(AllValues(cand)),
         Agreed(ref, cand, TotalValues(ref)),
         \A i \in 1 .. TotalValues(cand) :
           \E j \in 1 .. TotalValues(ref) : AllValues(ref)[j].key = AllValues(cand)[i].key
  PROVE  IsMatch(TotalValues(ref), ref, cand)
<1> DEFINE E == AllValues(ref)
           A == AllValues(cand)
<1>1. DOMAIN E = 1 .. TotalValues(ref) /\ DOMAIN A = 1 .. TotalValues(cand)
  BY TracePlaces
<1>2. ASSUME NEW j \in 1 .. TotalValues(ref)
      PROVE  \E i \in 1 .. TotalValues(cand) : A[i] = E[j]
  <2>1. KindOf(ref, cand, E[j].key) = "equal"
    BY DEF Agreed
  <2>2. QED
    BY <2>1, EqualValues
<1>3. ASSUME NEW i \in 1 .. TotalValues(cand)
      PROVE  \E j \in 1 .. TotalValues(ref) : E[j] = A[i]
  <2>1. PICK j \in 1 .. TotalValues(ref) : E[j].key = A[i].key
    OBVIOUS
  <2>2. PICK k \in 1 .. TotalValues(cand) : A[k] = E[j]
    BY <1>2
  <2>3. k = i
    <3>1. A[k].key = A[i].key
      BY <2>1, <2>2
    <3>2. k \in DOMAIN A /\ i \in DOMAIN A /\ ~HasDuplicate(A)
      BY <1>1
    <3> HIDE DEF A
    <3>3. QED
      BY <3>1, <3>2 DEF HasDuplicate
  <2>4. QED
    BY <2>2, <2>3
<1>4. ToSet(E) = ToSet(A)
  <2>1. \A v : v \in ToSet(E) <=> \E j \in 1 .. TotalValues(ref) : E[j] = v
    <3> HIDE DEF E, A
    <3>1. QED
      BY <1>1 DEF ToSet
  <2>2. \A v : v \in ToSet(A) <=> \E i \in 1 .. TotalValues(cand) : A[i] = v
    <3> HIDE DEF E, A
    <3>1. QED
      BY <1>1 DEF ToSet
  <2> HIDE DEF E, A
  <2>3. \A v : v \in ToSet(E) <=> v \in ToSet(A)
    BY <1>2, <1>3, <2>1, <2>2
  <2>4. QED
    BY <2>3
<1>5. QED
  BY <1>4 DEF IsMatch
-----------------------------------------------------------------------------
DivergenceKinds ==
  {"unexpected_candidate_value", "missing_candidate_value", "metadata_mismatch", "value_mismatch"}

LEMMA SideKinds ==
  ASSUME NEW S, NEW T
  PROVE  CompareMetadataFirst(S, T) \in DivergenceKinds \cup {"equal"}
BY DEF CompareMetadataFirst, DivergenceKinds

(* What a step that compares leaves: it goes on, or its verdict is right.  *)
Judged ==
  \/ report'.kind = "match" /\ IsMatch(matched_values', reference, candidate)
  \/ /\ report'.kind \in DivergenceKinds
     /\ IsFirst(report', matched_values', reference, candidate)

GoesOn ==
  /\ position' = position + 1 /\ matched_values' = position + 1 /\ report' = report
  /\ Agreed(reference, candidate, position + 1)

LEMMA DivergeSays ==
  ASSUME NEW kind, NEW expected, NEW actual, Diverge(kind, expected, actual)
  PROVE  report'.kind = kind /\ report'.at = {v.key : v \in expected \cup actual}
BY DEF Diverge

LEMMA IterateJudges ==
  ASSUME IsTrace(reference), IsTrace(candidate), position \in Nat, matched_values = position,
         position + 1 \in 1 .. TotalValues(reference), Agreed(reference, candidate, position),
         NEW expected, NEW actual, Iterate(expected, actual),
         CompareMetadataFirst(expected, actual)
           = KindOf(reference, candidate, AllValues(reference)[position + 1].key),
         {v.key : v \in expected \cup actual} = {AllValues(reference)[position + 1].key}
  PROVE  Judged \/ GoesOn
<1> DEFINE i == position + 1
           key == AllValues(reference)[i].key
           kind == CompareMetadataFirst(expected, actual)
<1>1. kind \in DivergenceKinds \cup {"equal"}
  BY SideKinds
<1>2. i - 1 = position
  OBVIOUS
<1>3. CASE kind = "equal"
  <2>1. /\ matched_values' = matched_values + 1 /\ position' = position + 1 /\ report' = report
    BY <1>3 DEF Iterate
  <2>2. Agreed(reference, candidate, i)
    <3>1. ASSUME NEW j \in 1 .. i
          PROVE  KindOf(reference, candidate, AllValues(reference)[j].key) = "equal"
      <4>1. CASE j = i
        BY <1>3, <4>1
      <4>2. CASE j # i
        <5>1. j \in 1 .. position
          BY <4>2
        <5>2. QED
          BY <5>1 DEF Agreed
      <4>3. QED
        BY <4>1, <4>2
    <3>2. QED
      BY <3>1 DEF Agreed
  <2>3. QED
    BY <2>1, <2>2 DEF GoesOn
<1>4. CASE kind # "equal"
  <2>1. Diverge(kind, expected, actual) /\ matched_values' = position
    BY <1>4 DEF Iterate
  <2>2. report'.kind = kind /\ report'.at = {key}
    BY <2>1, DivergeSays
  <2>3. kind = KindOf(reference, candidate, key)
    OBVIOUS
  <2> HIDE DEF kind
  <2>4. IsFirst(report', i - 1, reference, candidate)
    <3>1. Agreed(reference, candidate, i - 1)
      BY <1>2
    <3>2. QED
      BY <2>2, <2>3, <3>1, FirstInReference
  <2>5. QED
    BY <1>1, <1>2, <1>4, <2>1, <2>2, <2>4 DEF Judged
<1>5. QED
  BY <1>3, <1>4

-----------------------------------------------------------------------------
(* The loop over single values.                                            *)
ValuesSoFar(ref, cand, done, matched) ==
  /\ ~HasDuplicate(AllValues(ref)) /\ ~HasDuplicate(AllValues(cand))
  /\ done \in 0 .. TotalValues(ref) /\ matched = done
  /\ Agreed(ref, cand, done)

LEMMA ValueSides ==
  ASSUME NEW ref, IsTrace(ref), NEW cand, IsTrace(cand), ~HasDuplicate(AllValues(ref)),
         NEW i \in 1 .. TotalValues(ref)
  PROVE  LET key == AllValues(ref)[i].key
         IN  /\ CompareMetadataFirst({AllValues(ref)[i]}, With(AllValues(cand), key)) = KindOf(ref, cand, key)
             /\ {v.key : v \in {AllValues(ref)[i]} \cup With(AllValues(cand), key)} = {key}
<1> DEFINE E == AllValues(ref)
           A == AllValues(cand)
           key == E[i].key
<1>1. DOMAIN E = 1 .. TotalValues(ref) /\ DOMAIN A = 1 .. TotalValues(cand)
  BY TracePlaces
<1>2. With(E, key) = {E[i]}
  <2> HIDE DEF E
  <2>1. i \in DOMAIN E /\ DOMAIN E \in SUBSET Nat /\ ~HasDuplicate(E)
    BY <1>1 DEF E
  <2>2. QED
    BY <2>1, WithIsOnly
<1>3. \A v \in With(A, key) : v.key = key
  <2> HIDE DEF A, key
  <2>1. DOMAIN A \in SUBSET Nat
    BY <1>1
  <2>2. QED
    BY <2>1, WithFinds
<1>4. CompareMetadataFirst({E[i]}, With(A, key)) = KindOf(ref, cand, key)
  BY <1>2 DEF KindOf
<1>5. {v.key : v \in {E[i]} \cup With(A, key)} = {key}
  <2>1. E[i].key = key
    OBVIOUS
  <2> HIDE DEF E, A, key
  <2>2. QED
    BY <1>3, <2>1
<1>6. QED
  BY <1>4, <1>5

LEMMA ExtraIsFirst ==
  ASSUME NEW expected, DOMAIN expected \in SUBSET Nat, NEW actual, DOMAIN actual \in SUBSET Nat
  PROVE  /\ Extra(expected, actual) = {} =>
              \A i \in DOMAIN actual : \E j \in DOMAIN expected : expected[j].key = actual[i].key
         /\ Extra(expected, actual) # {} =>
              \E i \in DOMAIN actual :
                /\ Extra(expected, actual) = {actual[i]}
                /\ \A j \in DOMAIN expected : expected[j].key # actual[i].key
                /\ \A k \in DOMAIN actual : k < i =>
                     \E j \in DOMAIN expected : expected[j].key = actual[k].key
<1> DEFINE S == {i \in DOMAIN actual : With(expected, actual[i].key) = {}}
<1>1. Extra(expected, actual) = {actual[i] : i \in LeastOf(S)}
  BY DEF Extra
<1>2. S \in SUBSET Nat
  OBVIOUS
<1>3. ASSUME NEW i \in DOMAIN actual
      PROVE  i \in S <=> \A j \in DOMAIN expected : expected[j].key # actual[i].key
  <2> DEFINE key == actual[i].key
  <2> HIDE DEF key
  <2>1. With(expected, key) = {} <=> \A j \in DOMAIN expected : expected[j].key # key
    BY WithFinds
  <2>2. QED
    BY <2>1 DEF key
<1>4. CASE S = {}
  <2>1. LeastOf(S) = {}
    <3> HIDE DEF S
    <3>1. QED
      BY <1>2, <1>4, LeastIsOne
  <2>2. Extra(expected, actual) = {}
    <3> HIDE DEF S
    <3>1. QED
      BY <1>1, <2>1
  <2>3. QED
    <3> HIDE DEF S
    <3>1. QED
      BY <1>3, <1>4, <2>2
<1>5. CASE S # {}
  <2>1. PICK m \in S : LeastOf(S) = {m} /\ \A n \in S : m <= n
    <3> HIDE DEF S
    <3>1. QED
      BY <1>2, <1>5, LeastIsOne
  <2>2. m \in DOMAIN actual
    OBVIOUS
  <2> HIDE DEF S
  <2>3. Extra(expected, actual) = {actual[m]}
    BY <1>1, <2>1
  <2>4. \A k \in DOMAIN actual : k < m => k \notin S
    <3>1. ASSUME NEW k \in DOMAIN actual, k < m, k \in S PROVE FALSE
      <4>1. m <= k /\ k \in Nat /\ m \in Nat
        BY <1>2, <2>1, <3>1
      <4>2. QED
        BY <3>1, <4>1
    <3>2. QED
      BY <3>1
  <2>5. QED
    BY <1>3, <2>2, <2>3, <2>4
<1>6. QED
  BY <1>4, <1>5

LEMMA UnexpectedKind ==
  ASSUME NEW ref, IsTrace(ref), NEW cand, NEW key,
         \A j \in DOMAIN AllValues(ref) : AllValues(ref)[j].key # key
  PROVE  KindOf(ref, cand, key) = "unexpected_candidate_value"
<1> DEFINE E == AllValues(ref)
<1>1. DOMAIN E \in SUBSET Nat
  <2>1. DOMAIN E = 1 .. TotalValues(ref)
    BY TracePlaces
  <2>2. QED
    BY <2>1
<1>2. With(E, key) = {}
  <2> HIDE DEF E
  <2>1. \A j \in DOMAIN E : E[j].key # key
    BY DEF E
  <2>2. QED
    BY <1>1, <2>1, WithFinds
<1>3. QED
  BY <1>2, KindOfSides DEF KindOf

(* A key of the reference has been found equal wherever it occurs.         *)
LEMMA AgreedKey ==
  ASSUME NEW ref, IsTrace(ref), NEW cand, Agreed(ref, cand, TotalValues(ref)),
         NEW key, \E j \in DOMAIN AllValues(ref) : AllValues(ref)[j].key = key
  PROVE  KindOf(ref, cand, key) = "equal"
<1>1. DOMAIN AllValues(ref) = 1 .. TotalValues(ref)
  BY TracePlaces
<1>2. QED
  BY <1>1 DEF Agreed

LEMMA FinishJudges ==
  ASSUME IsTrace(reference), IsTrace(candidate),
         ~HasDuplicate(AllValues(reference)), ~HasDuplicate(AllValues(candidate)),
         matched_values = TotalValues(reference),
         Agreed(reference, candidate, TotalValues(reference)),
         Finish(Extra(AllValues(reference), AllValues(candidate)))
  PROVE  Judged
<1> DEFINE E == AllValues(reference)
           A == AllValues(candidate)
           extra == Extra(E, A)
<1>1. /\ DOMAIN E = 1 .. TotalValues(reference) /\ DOMAIN A = 1 .. TotalValues(candidate)
      /\ TotalValues(candidate) \in Nat
  BY TracePlaces
<1>2. matched_values' = TotalValues(reference)
  BY DEF Finish
<1>3. DOMAIN E \in SUBSET Nat /\ DOMAIN A \in SUBSET Nat
  BY <1>1
<1>4. CASE extra = {}
  <2>1. report' = Matched
    BY <1>4 DEF Finish
  <2>2. report'.kind = "match"
    BY <2>1 DEF Matched, Running
  <2>3. \A i \in DOMAIN A : \E j \in DOMAIN E : E[j].key = A[i].key
    <3> HIDE DEF E, A
    <3>1. QED
      BY <1>3, <1>4, ExtraIsFirst
  <2>4. IsMatch(TotalValues(reference), reference, candidate)
    BY <1>1, <2>3, MatchIsEqual
  <2>5. QED
    BY <1>2, <2>2, <2>4 DEF Judged
<1>5. CASE extra # {}
  <2>1. Diverge("unexpected_candidate_value", {}, extra)
    BY <1>5 DEF Finish
  <2>2. PICK i \in DOMAIN A :
          /\ extra = {A[i]}
          /\ \A j \in DOMAIN E : E[j].key # A[i].key
          /\ \A k \in DOMAIN A : k < i => \E j \in DOMAIN E : E[j].key = A[k].key
    <3> HIDE DEF E, A
    <3>1. QED
      BY <1>3, <1>5, ExtraIsFirst
  <2> HIDE DEF extra
  <2>3. report'.kind = "unexpected_candidate_value" /\ report'.at = {v.key : v \in {} \cup extra}
    BY <2>1, DivergeSays
  <2>4. report'.at = {A[i].key}
    <3>1. {v.key : v \in {} \cup {A[i]}} = {A[i].key}
      <4> HIDE DEF A
      <4>1. QED
        OBVIOUS
    <3>2. QED
      BY <2>2, <2>3, <3>1
  <2>5. KindOf(reference, candidate, A[i].key) = report'.kind
    BY <2>2, <2>3, UnexpectedKind
  <2>6. ASSUME NEW j \in 1 .. i - 1
        PROVE  KindOf(reference, candidate, A[j].key) = "equal"
    <3>1. j \in DOMAIN A /\ j < i
      BY <1>1
    <3>2. \E k \in DOMAIN E : E[k].key = A[j].key
      BY <2>2, <3>1
    <3>3. QED
      BY <3>2, AgreedKey
  <2>7. IsFirst(report', TotalValues(reference), reference, candidate)
    BY <1>1, <2>4, <2>5, <2>6, FirstInCandidate
  <2>8. QED
    BY <1>2, <2>3, <2>7 DEF Judged, DivergenceKinds
<1>6. QED
  BY <1>4, <1>5

LEMMA CompareValueJudges ==
  ASSUME IsTrace(reference), IsTrace(candidate),
         ValuesSoFar(reference, candidate, position, matched_values), CompareValue
  PROVE  \/ Judged
         \/ report' = report /\ ValuesSoFar(reference, candidate, position', matched_values')
<1> DEFINE E == AllValues(reference)
           A == AllValues(candidate)
           total == TotalValues(reference)
<1>1. /\ total \in Nat /\ position \in 0 .. total /\ matched_values = position
      /\ ~HasDuplicate(E) /\ ~HasDuplicate(A) /\ Agreed(reference, candidate, position)
  BY TracePlaces DEF ValuesSoFar
<1>2. CASE position < total
  <2>1. Iterate({E[position + 1]}, With(A, E[position + 1].key))
    BY <1>2 DEF CompareValue, TotalValues
  <2>2. position + 1 \in 1 .. total /\ position \in Nat
    BY <1>1, <1>2
  <2>3. /\ CompareMetadataFirst({E[position + 1]}, With(A, E[position + 1].key))
             = KindOf(reference, candidate, E[position + 1].key)
        /\ {v.key : v \in {E[position + 1]} \cup With(A, E[position + 1].key)} = {E[position + 1].key}
    BY <1>1, <2>2, ValueSides
  <2>4. Judged \/ GoesOn
    BY <1>1, <2>1, <2>2, <2>3, IterateJudges
  <2>5. QED
    BY <1>1, <2>2, <2>4 DEF GoesOn, ValuesSoFar
<1>3. CASE ~(position < total)
  <2>1. position = total
    BY <1>1, <1>3
  <2>2. Finish(Extra(E, A))
    BY <1>3 DEF CompareValue, TotalValues
  <2>3. QED
    BY <1>1, <2>1, <2>2, FinishJudges
<1>4. QED
  BY <1>2, <1>3

-----------------------------------------------------------------------------
(* The loop over the scalars that face chunks.                             *)
ScalarsOf(ref, cand) == IF Kinds(ref) = {"tensor_chunk"} THEN cand ELSE ref

ScalarsSoFar(ref, cand, done, matched) ==
  /\ done \in 0 .. TotalValues(ref) /\ done <= Len(ScalarsOf(ref, cand)) /\ matched = done
  /\ Agreed(ref, cand, done)

LEMMA MixedKinds ==
  ASSUME NEW ref, IsTrace(ref), NEW cand, IsTrace(cand), WayFor(ref, cand) = "mixed"
  PROVE  /\ Kinds(ref) = {"tensor_chunk"} => \A i \in DOMAIN cand : cand[i].kind = "scalar"
         /\ Kinds(ref) # {"tensor_chunk"} => \A i \in DOMAIN ref : ref[i].kind = "scalar"
<1>1. {Kinds(ref), Kinds(cand)} = {{"scalar"}, {"tensor_chunk"}}
  BY DEF WayFor
<1>2. Kinds(ref) \in {{"scalar"}, {"tensor_chunk"}} /\ {"scalar"} \in {Kinds(ref), Kinds(cand)}
  BY <1>1
<1>3. {"scalar"} # {"tensor_chunk"}
  <2>1. "scalar" # "tensor_chunk"
    OBVIOUS
  <2>2. QED
    BY <2>1
<1>4. Kinds(ref) = {"tensor_chunk"} => Kinds(cand) = {"scalar"}
  BY <1>2, <1>3
<1>5. Kinds(ref) # {"tensor_chunk"} => Kinds(ref) = {"scalar"}
  BY <1>2
<1>6. QED
  BY <1>4, <1>5 DEF Kinds

LEMMA NotAmongFewer ==
  ASSUME NEW one, NEW other, NEW m \in Nat, NEW n \in Nat,
         DOMAIN one = 1 .. m, DOMAIN other = 1 .. n, ~HasDuplicate(other),
         \A i \in DOMAIN one \cap DOMAIN other : one[i].key = other[i].key,
         NEW i \in 1 .. n, i > m
  PROVE  \A j \in DOMAIN one : one[j].key # other[i].key
<1>1. ASSUME NEW j \in DOMAIN one, one[j].key = other[i].key
      PROVE  FALSE
  <2>1. j \in DOMAIN one \cap DOMAIN other /\ j # i /\ i \in DOMAIN other
    OBVIOUS
  <2>2. other[j].key = other[i].key
    BY <1>1, <2>1
  <2>3. QED
    BY <2>1, <2>2 DEF HasDuplicate
<1>2. QED
  BY <1>1

LEMMA MissingKind ==
  ASSUME NEW ref, IsTrace(ref), NEW cand, IsTrace(cand), ~HasDuplicate(AllValues(ref)),
         NEW i \in 1 .. TotalValues(ref),
         \A j \in DOMAIN AllValues(cand) : AllValues(cand)[j].key # AllValues(ref)[i].key
  PROVE  KindOf(ref, cand, AllValues(ref)[i].key) = "missing_candidate_value"
<1> DEFINE A == AllValues(cand)
           v == AllValues(ref)[i]
           key == v.key
<1>1. DOMAIN A \in SUBSET Nat
  <2>1. DOMAIN A = 1 .. TotalValues(cand)
    BY TracePlaces
  <2>2. QED
    BY <2>1
<1>2. With(A, key) = {}
  <2>1. \A j \in DOMAIN A : A[j].key # key
    OBVIOUS
  <2> HIDE DEF A, key
  <2>2. QED
    BY <1>1, <2>1, WithFinds
<1>3. CompareMetadataFirst({v}, With(A, key)) = KindOf(ref, cand, key)
  BY ValueSides
<1>4. CompareMetadataFirst({v}, {}) = "missing_candidate_value"
  <2> HIDE DEF v
  <2>1. QED
    BY KindOfSides
<1>5. QED
  <2> HIDE DEF A, key, v
  <2>1. KindOf(ref, cand, key) = "missing_candidate_value"
    BY <1>2, <1>3, <1>4
  <2>2. QED
    BY <2>1 DEF key, v

(* What both ends of the loop report.                                      *)
LEMMA MissingJudges ==
  ASSUME IsTrace(reference), IsTrace(candidate), AgreeOnOrder(AllValues(reference), AllValues(candidate)),
         NEW i \in 1 .. TotalValues(reference), i > TotalValues(candidate),
         Agreed(reference, candidate, i - 1), matched_values' = i - 1,
         Diverge("missing_candidate_value", {AllValues(reference)[i]}, {})
  PROVE  Judged
<1> DEFINE E == AllValues(reference)
           A == AllValues(candidate)
           v == E[i]
<1>1. /\ DOMAIN E = 1 .. TotalValues(reference) /\ DOMAIN A = 1 .. TotalValues(candidate)
      /\ TotalValues(reference) \in Nat /\ TotalValues(candidate) \in Nat
  BY TracePlaces
<1>2. /\ ~HasDuplicate(E) /\ ~HasDuplicate(A)
      /\ \A j \in DOMAIN A \cap DOMAIN E : A[j].key = E[j].key
  BY DEF AgreeOnOrder
<1>3. \A j \in DOMAIN A : A[j].key # E[i].key
  <2> HIDE DEF A, E
  <2>1. QED
    BY <1>1, <1>2, NotAmongFewer
<1>4. KindOf(reference, candidate, E[i].key) = "missing_candidate_value"
  BY <1>2, <1>3, MissingKind
<1>5. report'.kind = "missing_candidate_value" /\ report'.at = {w.key : w \in {v} \cup {}}
  <2>1. Diverge("missing_candidate_value", {v}, {})
    OBVIOUS
  <2> HIDE DEF v
  <2>2. QED
    BY <2>1, DivergeSays
<1>6. report'.at = {v.key}
  <2> HIDE DEF v
  <2>1. QED
    BY <1>5
<1>7. IsFirst(report', i - 1, reference, candidate)
  BY <1>4, <1>5, <1>6, FirstInReference
<1>8. QED
  BY <1>5, <1>7 DEF Judged, DivergenceKinds

LEMMA UnexpectedJudges ==
  ASSUME IsTrace(reference), IsTrace(candidate), AgreeOnOrder(AllValues(reference), AllValues(candidate)),
         TotalValues(reference) + 1 \in 1 .. TotalValues(candidate),
         Agreed(reference, candidate, TotalValues(reference)),
         matched_values' = TotalValues(reference),
         Diverge("unexpected_candidate_value", {}, {AllValues(candidate)[TotalValues(reference) + 1]})
  PROVE  Judged
<1> DEFINE E == AllValues(reference)
           A == AllValues(candidate)
           i == TotalValues(reference) + 1
           v == A[i]
<1>1. /\ DOMAIN E = 1 .. TotalValues(reference) /\ DOMAIN A = 1 .. TotalValues(candidate)
      /\ TotalValues(reference) \in Nat /\ TotalValues(candidate) \in Nat
  BY TracePlaces
<1>2. /\ ~HasDuplicate(E) /\ ~HasDuplicate(A)
      /\ \A j \in DOMAIN E \cap DOMAIN A : E[j].key = A[j].key
  BY DEF AgreeOnOrder
<1>3. i \in 1 .. TotalValues(candidate) /\ i > TotalValues(reference)
  BY <1>1
<1>4. \A j \in DOMAIN E : E[j].key # A[i].key
  <2> HIDE DEF A, E, i, v
  <2>1. ASSUME NEW j \in DOMAIN E, E[j].key = A[i].key
        PROVE  FALSE
    <3>1. i \in DOMAIN A /\ j \in DOMAIN E \cap DOMAIN A /\ j # i
      BY <1>1, <1>3
    <3>2. A[j].key = A[i].key
      BY <1>2, <2>1, <3>1
    <3>3. QED
      BY <1>2, <3>1, <3>2 DEF HasDuplicate
  <2>2. QED
    BY <2>1
<1>5. KindOf(reference, candidate, A[i].key) = "unexpected_candidate_value"
  BY <1>4, UnexpectedKind
<1>6. report'.kind = "unexpected_candidate_value" /\ report'.at = {w.key : w \in {} \cup {v}}
  <2>1. Diverge("unexpected_candidate_value", {}, {v})
    OBVIOUS
  <2> HIDE DEF v
  <2>2. QED
    BY <2>1, DivergeSays
<1>7. report'.at = {v.key}
  <2> HIDE DEF v
  <2>1. QED
    BY <1>6
<1>8. ASSUME NEW j \in 1 .. i - 1
      PROVE  KindOf(reference, candidate, A[j].key) = "equal"
  <2>1. j \in DOMAIN E /\ j \in DOMAIN A
    BY <1>1, <1>3
  <2>2. E[j].key = A[j].key
    BY <1>2, <2>1
  <2>3. QED
    BY <2>1, <2>2, AgreedKey
<1>9. IsFirst(report', TotalValues(reference), reference, candidate)
  BY <1>3, <1>5, <1>6, <1>7, <1>8, FirstInCandidate
<1>10. QED
  BY <1>6, <1>9 DEF Judged, DivergenceKinds

LEMMA ScalarOfReference ==
  ASSUME IsTrace(reference), IsTrace(candidate), ~chunks_are_reference,
         WayFor(reference, candidate) = "mixed",
         AgreeOnOrder(AllValues(reference), AllValues(candidate)),
         ScalarsSoFar(reference, candidate, position, matched_values), CompareScalar
  PROVE  \/ Judged
         \/ report' = report /\ ScalarsSoFar(reference, candidate, position', matched_values')
<1> DEFINE E == AllValues(reference)
           A == AllValues(candidate)
           i == position + 1
<1>1. /\ DOMAIN E = 1 .. TotalValues(reference) /\ DOMAIN A = 1 .. TotalValues(candidate)
      /\ TotalValues(reference) \in Nat /\ TotalValues(candidate) \in Nat
  BY TracePlaces
<1>2. /\ ~HasDuplicate(E) /\ ~HasDuplicate(A)
      /\ \A j \in DOMAIN E \cap DOMAIN A : E[j].key = A[j].key
  BY DEF AgreeOnOrder
<1>3. scalars = reference /\ chunks = candidate /\ ScalarsOf(reference, candidate) = reference
  BY DEF scalars, chunks, ScalarsOf, chunks_are_reference
<1>4. /\ TotalValues(reference) = Len(reference)
      /\ \A j \in 1 .. Len(reference) : E[j] = first_value(reference[j])
  <2>1. \A j \in DOMAIN reference : reference[j].kind = "scalar"
    BY MixedKinds DEF chunks_are_reference
  <2>2. QED
    BY <2>1, ScalarPlaces
<1>5. /\ position \in 0 .. TotalValues(reference) /\ matched_values = position
      /\ Agreed(reference, candidate, position)
  BY DEF ScalarsSoFar
<1>6. CASE position < Len(scalars)
  <2>1. position \in Nat /\ i \in 1 .. TotalValues(reference)
    BY <1>1, <1>3, <1>4, <1>5, <1>6
  <2>2. first_value(scalars[i]) = E[i]
    BY <1>3, <1>4, <2>1
  <2>3. Iterate({E[i]}, value_from_chunks(first_value(scalars[i])))
    BY <1>6, <2>2 DEF CompareScalar
  <2>4. Iterate({E[i]}, With(A, E[i].key))
    <3> HIDE DEF E
    <3>1. value_from_chunks(E[i]) = With(A, E[i].key)
      BY <1>3 DEF value_from_chunks
    <3>2. QED
      BY <2>2, <2>3, <3>1
  <2>5. /\ CompareMetadataFirst({E[i]}, With(A, E[i].key)) = KindOf(reference, candidate, E[i].key)
        /\ {v.key : v \in {E[i]} \cup With(A, E[i].key)} = {E[i].key}
    BY <1>2, <2>1, ValueSides
  <2>6. Judged \/ GoesOn
    BY <1>5, <2>1, <2>4, <2>5, IterateJudges
  <2>7. QED
    BY <1>3, <1>4, <2>1, <2>6 DEF GoesOn, ScalarsSoFar
<1>7. CASE ~(position < Len(scalars))
  <2>1. position = TotalValues(reference)
    BY <1>1, <1>3, <1>4, <1>5, <1>7
  <2>2. CompareLengths
    BY <1>7 DEF CompareScalar
  <2>3. matched_values' = TotalValues(reference) /\ Agreed(reference, candidate, TotalValues(reference))
    BY <1>5, <2>1, <2>2 DEF CompareLengths
  <2>4. CASE Len(reference) < TotalValues(candidate)
    <3>1. Diverge("unexpected_candidate_value", {}, {A[TotalValues(reference) + 1]})
      BY <1>3, <1>4, <2>2, <2>4 DEF CompareLengths
    <3>2. TotalValues(reference) + 1 \in 1 .. TotalValues(candidate)
      BY <1>1, <1>4, <2>4
    <3>3. QED
      BY <2>3, <3>1, <3>2, UnexpectedJudges
  <2>5. CASE ~(Len(reference) < TotalValues(candidate))
    <3>1. report'.kind = "match"
      BY <1>3, <2>2, <2>5 DEF CompareLengths, Matched, Running
    <3>2. \A k \in 1 .. TotalValues(candidate) :
            \E j \in 1 .. TotalValues(reference) : E[j].key = A[k].key
      <4>1. ASSUME NEW k \in 1 .. TotalValues(candidate)
            PROVE  k \in 1 .. TotalValues(reference) /\ E[k].key = A[k].key
        <5>1. k \in 1 .. TotalValues(reference)
          BY <1>1, <1>4, <2>5
        <5>2. QED
          BY <1>1, <1>2, <5>1
      <4>2. QED
        BY <4>1
    <3>3. IsMatch(TotalValues(reference), reference, candidate)
      BY <1>2, <2>3, <3>2, MatchIsEqual
    <3>4. QED
      BY <2>3, <3>1, <3>3 DEF Judged
  <2>6. QED
    BY <2>4, <2>5
<1>8. QED
  BY <1>6, <1>7

LEMMA ScalarOfCandidate ==
  ASSUME IsTrace(reference), IsTrace(candidate), chunks_are_reference,
         WayFor(reference, candidate) = "mixed",
         AgreeOnOrder(AllValues(reference), AllValues(candidate)),
         ScalarsSoFar(reference, candidate, position, matched_values), CompareScalar
  PROVE  \/ Judged
         \/ report' = report /\ ScalarsSoFar(reference, candidate, position', matched_values')
<1> DEFINE E == AllValues(reference)
           A == AllValues(candidate)
           i == position + 1
<1>1. /\ DOMAIN E = 1 .. TotalValues(reference) /\ DOMAIN A = 1 .. TotalValues(candidate)
      /\ TotalValues(reference) \in Nat /\ TotalValues(candidate) \in Nat
  BY TracePlaces
<1>2. /\ ~HasDuplicate(E) /\ ~HasDuplicate(A)
      /\ \A j \in DOMAIN E \cap DOMAIN A : E[j].key = A[j].key
  BY DEF AgreeOnOrder
<1>3. scalars = candidate /\ chunks = reference /\ ScalarsOf(reference, candidate) = candidate
  BY DEF scalars, chunks, ScalarsOf, chunks_are_reference
<1>4. /\ TotalValues(candidate) = Len(candidate)
      /\ \A j \in 1 .. Len(candidate) : A[j] = first_value(candidate[j])
  <2>1. \A j \in DOMAIN candidate : candidate[j].kind = "scalar"
    BY MixedKinds DEF chunks_are_reference
  <2>2. QED
    BY <2>1, ScalarPlaces
<1>5. /\ position \in 0 .. TotalValues(reference) /\ matched_values = position
      /\ position <= TotalValues(candidate)
      /\ Agreed(reference, candidate, position)
  BY <1>3, <1>4 DEF ScalarsSoFar
<1>6. CASE position < Len(scalars)
  <2>1. position \in Nat /\ i \in 1 .. TotalValues(candidate) /\ i - 1 = position
    BY <1>1, <1>3, <1>4, <1>5, <1>6
  <2>2. first_value(scalars[i]) = A[i]
    BY <1>3, <1>4, <2>1
  <2>3. Iterate(With(E, A[i].key), {A[i]})
    <3>1. Iterate(value_from_chunks(first_value(scalars[i])), {first_value(scalars[i])})
      BY <1>6 DEF CompareScalar
    <3> HIDE DEF A
    <3>2. value_from_chunks(A[i]) = With(E, A[i].key)
      BY <1>3 DEF value_from_chunks
    <3>3. QED
      BY <2>2, <3>1, <3>2
  <2>4. CASE i <= TotalValues(reference)
    <3>1. i \in 1 .. TotalValues(reference) /\ i \in DOMAIN E /\ i \in DOMAIN A
      BY <1>1, <2>1, <2>4
    <3>2. E[i].key = A[i].key
      BY <1>2, <3>1
    <3>3. With(E, E[i].key) = {E[i]} /\ With(A, A[i].key) = {A[i]}
      <4> HIDE DEF E, A, i
      <4>1. DOMAIN E \in SUBSET Nat /\ DOMAIN A \in SUBSET Nat
        BY <1>1
      <4>2. QED
        BY <1>2, <3>1, <4>1, WithIsOnly
    <3>4. Iterate({E[i]}, {A[i]})
      BY <2>3, <3>2, <3>3
    <3>5. CompareMetadataFirst({E[i]}, {A[i]}) = KindOf(reference, candidate, E[i].key)
      BY <3>2, <3>3 DEF KindOf
    <3>6. {v.key : v \in {E[i]} \cup {A[i]}} = {E[i].key}
      <4> HIDE DEF E, A, i
      <4>1. QED
        BY <3>2
    <3>7. Judged \/ GoesOn
      BY <1>5, <2>1, <3>1, <3>4, <3>5, <3>6, IterateJudges
    <3>8. i <= Len(ScalarsOf(reference, candidate)) /\ i \in 0 .. TotalValues(reference)
      BY <1>1, <1>3, <1>4, <2>1, <3>1
    <3>9. QED
      BY <3>7, <3>8 DEF GoesOn, ScalarsSoFar
  <2>5. CASE ~(i <= TotalValues(reference))
    <3>1. position = TotalValues(reference) /\ i > TotalValues(reference)
      BY <1>1, <1>5, <2>1, <2>5
    <3>2. \A j \in DOMAIN E : E[j].key # A[i].key
      <4> HIDE DEF A, E, i
      <4>1. ASSUME NEW k \in 1 .. TotalValues(candidate), k > TotalValues(reference)
            PROVE  \A j \in DOMAIN E : E[j].key # A[k].key
        BY <1>1, <1>2, <4>1, NotAmongFewer
      <4>2. QED
        BY <2>1, <3>1, <4>1
    <3>3. With(E, A[i].key) = {}
      <4> DEFINE key == A[i].key
      <4>1. DOMAIN E \in SUBSET Nat /\ \A j \in DOMAIN E : E[j].key # key
        BY <1>1, <3>2
      <4> HIDE DEF E, key
      <4>2. With(E, key) = {}
        BY <4>1, WithFinds
      <4>3. QED
        BY <4>2 DEF key
    <3>4. Iterate({}, {A[i]})
      BY <2>3, <3>3
    <3>5. Diverge("unexpected_candidate_value", {}, {A[i]}) /\ matched_values' = matched_values
      <4>1. CompareMetadataFirst({}, {A[i]}) = "unexpected_candidate_value"
        BY KindOfSides
      <4>2. QED
        BY <3>4, <4>1 DEF Iterate
    <3>6. QED
      BY <1>5, <2>1, <3>1, <3>5, UnexpectedJudges
  <2>6. QED
    BY <2>4, <2>5
<1>7. CASE ~(position < Len(scalars))
  <2>1. position = TotalValues(candidate)
    BY <1>1, <1>3, <1>4, <1>5, <1>7
  <2>2. CompareLengths
    BY <1>7 DEF CompareScalar
  <2>3. matched_values' = position
    BY <1>5, <2>2 DEF CompareLengths
  <2>4. CASE Len(candidate) < TotalValues(reference)
    <3>1. Diverge("missing_candidate_value", {E[i]}, {})
      BY <1>3, <1>4, <2>1, <2>2, <2>4 DEF CompareLengths
    <3>2. i \in 1 .. TotalValues(reference) /\ i > TotalValues(candidate) /\ i - 1 = position
      BY <1>1, <1>4, <1>5, <2>1, <2>4
    <3>3. Agreed(reference, candidate, i - 1) /\ matched_values' = i - 1
      BY <1>5, <2>3, <3>2
    <3> HIDE DEF i
    <3>4. QED
      BY <3>1, <3>2, <3>3, MissingJudges
  <2>5. CASE ~(Len(candidate) < TotalValues(reference))
    <3>1. report'.kind = "match"
      BY <1>3, <2>2, <2>5 DEF CompareLengths, Matched, Running
    <3>2. TotalValues(reference) = TotalValues(candidate) /\ position = TotalValues(reference)
      BY <1>1, <1>4, <1>5, <2>1, <2>5
    <3>3. \A k \in 1 .. TotalValues(candidate) :
            \E j \in 1 .. TotalValues(reference) : E[j].key = A[k].key
      BY <1>1, <1>2, <3>2
    <3>4. IsMatch(TotalValues(reference), reference, candidate)
      BY <1>2, <1>5, <3>2, <3>3, MatchIsEqual
    <3>5. QED
      BY <2>3, <3>1, <3>2, <3>4 DEF Judged
  <2>6. QED
    BY <2>4, <2>5
<1>8. QED
  BY <1>6, <1>7

-----------------------------------------------------------------------------
(* The loop over chunks.                                                   *)
LEMMA CoveredKeys ==
  ASSUME NEW event, IsEvent(event)
  PROVE  /\ \A o \in 1 .. chunk_size(event) : AlignedValue(event, o - 1).key \in Covered(event)
         /\ \A key \in Covered(event) :
              /\ key.tensor = event.tensor
              /\ key.coordinate \in event.start .. event.start + chunk_size(event) - 1
              /\ \E o \in 1 .. chunk_size(event) : AlignedValue(event, o - 1).key = key
         /\ \A o \in 1 .. chunk_size(event) :
              /\ AlignedValue(event, o - 1).key.tensor = event.tensor
              /\ AlignedValue(event, o - 1).key.coordinate = event.start + o - 1
<1>1. chunk_size(event) \in Nat \ {0} /\ event.start \in Nat
  BY EventValues DEF IsEvent
<1>2. ASSUME NEW o \in 1 .. chunk_size(event)
      PROVE  /\ AlignedValue(event, o - 1).key \in Covered(event)
             /\ AlignedValue(event, o - 1).key.tensor = event.tensor
             /\ AlignedValue(event, o - 1).key.coordinate = event.start + o - 1
  <2>1. o - 1 \in 0 .. chunk_size(event) - 1
    BY <1>1
  <2>2. AlignedValue(event, o - 1).key = [tensor |-> event.tensor, coordinate |-> event.start + (o - 1)]
    BY DEF AlignedValue
  <2>3. event.start + (o - 1) = event.start + o - 1
    BY <1>1
  <2>4. QED
    BY <2>1, <2>2, <2>3 DEF Covered
<1>3. ASSUME NEW key \in Covered(event)
      PROVE  /\ key.tensor = event.tensor
             /\ key.coordinate \in event.start .. event.start + chunk_size(event) - 1
             /\ \E o \in 1 .. chunk_size(event) : AlignedValue(event, o - 1).key = key
  <2>1. PICK p \in 0 .. chunk_size(event) - 1 : key = AlignedValue(event, p).key
    BY DEF Covered
  <2>2. p + 1 \in 1 .. chunk_size(event) /\ p + 1 - 1 = p
    BY <1>1
  <2>3. key = [tensor |-> event.tensor, coordinate |-> event.start + p]
    BY <2>1 DEF AlignedValue
  <2>4. event.start + p \in event.start .. event.start + chunk_size(event) - 1
    BY <1>1
  <2>5. key.tensor = event.tensor /\ key.coordinate = event.start + p
    BY <2>3
  <2>6. AlignedValue(event, p + 1 - 1).key = key
    BY <2>1, <2>2
  <2>7. QED
    BY <2>2, <2>4, <2>5, <2>6
<1>4. QED
  BY <1>2, <1>3

LEMMA CoveredFixes ==
  ASSUME NEW one, IsEvent(one), NEW other, IsEvent(other), Covered(one) = Covered(other)
  PROVE  /\ one.tensor = other.tensor /\ one.start = other.start
         /\ chunk_size(one) = chunk_size(other)
<1>1. /\ chunk_size(one) \in Nat \ {0} /\ one.start \in Nat
      /\ chunk_size(other) \in Nat \ {0} /\ other.start \in Nat
  BY EventValues DEF IsEvent
<1> DEFINE KeyIn(event, o) == AlignedValue(event, o - 1).key
<1>2. /\ KeyIn(one, 1) \in Covered(other) /\ KeyIn(one, chunk_size(one)) \in Covered(other)
      /\ KeyIn(one, 1).tensor = one.tensor
      /\ KeyIn(one, 1).coordinate = one.start + 1 - 1
      /\ KeyIn(one, chunk_size(one)).coordinate = one.start + chunk_size(one) - 1
  <2>1. 1 \in 1 .. chunk_size(one) /\ chunk_size(one) \in 1 .. chunk_size(one)
    BY <1>1
  <2>2. QED
    BY <2>1, CoveredKeys
<1>3. /\ KeyIn(other, 1) \in Covered(one) /\ KeyIn(other, chunk_size(other)) \in Covered(one)
      /\ KeyIn(other, 1).coordinate = other.start + 1 - 1
      /\ KeyIn(other, chunk_size(other)).coordinate = other.start + chunk_size(other) - 1
  <2>1. 1 \in 1 .. chunk_size(other) /\ chunk_size(other) \in 1 .. chunk_size(other)
    BY <1>1
  <2>2. QED
    BY <2>1, CoveredKeys
<1> HIDE DEF KeyIn
<1>4. /\ KeyIn(one, 1).tensor = other.tensor
      /\ KeyIn(one, 1).coordinate \in other.start .. other.start + chunk_size(other) - 1
      /\ KeyIn(one, chunk_size(one)).coordinate \in other.start .. other.start + chunk_size(other) - 1
  BY <1>2, CoveredKeys
<1>5. /\ KeyIn(other, 1).coordinate \in one.start .. one.start + chunk_size(one) - 1
      /\ KeyIn(other, chunk_size(other)).coordinate \in one.start .. one.start + chunk_size(one) - 1
  BY <1>3, CoveredKeys
<1>6. one.start = other.start
  BY <1>1, <1>2, <1>3, <1>4, <1>5
<1>7. chunk_size(one) = chunk_size(other)
  BY <1>1, <1>2, <1>3, <1>4, <1>5
<1>8. QED
  BY <1>2, <1>4, <1>6, <1>7

(* A value's chunk covers its coordinate.                                  *)
LEMMA ValueIsCovered ==
  ASSUME NEW trace, IsTrace(trace), NEW i \in 1 .. TotalValues(trace)
  PROVE  \E n \in 1 .. Len(trace) : \E o \in 1 .. chunk_size(trace[n]) :
           /\ i = End(trace, n - 1) + o
           /\ AllValues(trace)[i] = AlignedValue(trace[n], o - 1)
           /\ AllValues(trace)[i].key \in Covered(trace[n])
<1>1. PICK n \in 1 .. Len(trace) : \E o \in 1 .. chunk_size(trace[n]) : i = End(trace, n - 1) + o
  BY TracePlaces
<1>2. PICK o \in 1 .. chunk_size(trace[n]) : i = End(trace, n - 1) + o
  BY <1>1
<1>3. AllValues(trace)[i] = AlignedValue(trace[n], o - 1)
  BY <1>2, TracePlaces
<1>4. IsEvent(trace[n])
  BY ExpandedParts
<1>5. AlignedValue(trace[n], o - 1).key \in Covered(trace[n])
  BY <1>4, CoveredKeys
<1>6. QED
  BY <1>2, <1>3, <1>5

LEMMA ApartIsSingle ==
  ASSUME NEW trace, IsTrace(trace), Apart(trace)
  PROVE  ~HasDuplicate(AllValues(trace))
<1> DEFINE E == AllValues(trace)
<1>1. DOMAIN E = 1 .. TotalValues(trace) /\ DOMAIN trace = 1 .. Len(trace)
  BY TracePlaces
<1>2. ASSUME NEW i \in 1 .. TotalValues(trace), NEW j \in 1 .. TotalValues(trace), E[i].key = E[j].key
      PROVE  i = j
  <2>1. PICK n \in 1 .. Len(trace) : \E o \in 1 .. chunk_size(trace[n]) :
               /\ i = End(trace, n - 1) + o
               /\ E[i] = AlignedValue(trace[n], o - 1)
               /\ E[i].key \in Covered(trace[n])
    BY ValueIsCovered
  <2>2. PICK o \in 1 .. chunk_size(trace[n]) :
               /\ i = End(trace, n - 1) + o
               /\ E[i] = AlignedValue(trace[n], o - 1)
               /\ E[i].key \in Covered(trace[n])
    BY <2>1
  <2>3. PICK m \in 1 .. Len(trace) : \E p \in 1 .. chunk_size(trace[m]) :
               /\ j = End(trace, m - 1) + p
               /\ E[j] = AlignedValue(trace[m], p - 1)
               /\ E[j].key \in Covered(trace[m])
    BY ValueIsCovered
  <2>4. PICK p \in 1 .. chunk_size(trace[m]) :
               /\ j = End(trace, m - 1) + p
               /\ E[j] = AlignedValue(trace[m], p - 1)
               /\ E[j].key \in Covered(trace[m])
    BY <2>3
  <2>5. n = m
    <3>1. Covered(trace[n]) \cap Covered(trace[m]) # {}
      <4> HIDE DEF E
      <4>1. QED
        BY <1>2, <2>2, <2>4
    <3>2. QED
      BY <1>1, <3>1 DEF Apart
  <2>6. o = p
    <3>1. IsEvent(trace[n]) /\ chunk_size(trace[n]) \in Nat /\ trace[n].start \in Nat
      BY ExpandedParts, EventValues DEF IsEvent
    <3>2. /\ AlignedValue(trace[n], o - 1).key.coordinate = trace[n].start + o - 1
          /\ AlignedValue(trace[n], p - 1).key.coordinate = trace[n].start + p - 1
      BY <2>5, <3>1, CoveredKeys
    <3>3. AlignedValue(trace[n], o - 1).key = AlignedValue(trace[n], p - 1).key
      <4> HIDE DEF E
      <4>1. QED
        BY <1>2, <2>2, <2>4, <2>5
    <3>4. trace[n].start + o - 1 = trace[n].start + p - 1
      BY <3>2, <3>3
    <3>5. QED
      BY <2>5, <3>1, <3>4
  <2>7. QED
    BY <2>2, <2>4, <2>5, <2>6
<1> HIDE DEF E
<1>3. ~HasDuplicate(E)
  BY <1>1, <1>2 DEF HasDuplicate
<1>4. QED
  BY <1>3 DEF E

(* The parts agree, from either side.                                      *)
PartsAgree(one, other) ==
  \A n \in DOMAIN one, k \in DOMAIN other :
    \/ Covered(one[n]) = Covered(other[k])
    \/ Covered(one[n]) \cap Covered(other[k]) = {}

ShareKey(event, other) == Covered(event) \cap Covered(other) # {}

(* Two parts that share a key are the same part.                           *)
LEMMA CommonKey ==
  ASSUME NEW one, IsTrace(one), NEW other, IsTrace(other), PartsAgree(one, other),
         NEW n \in 1 .. Len(one), NEW k \in 1 .. Len(other),
         ShareKey(one[n], other[k])
  PROVE  /\ one[n].tensor = other[k].tensor /\ one[n].start = other[k].start
         /\ chunk_size(one[n]) = chunk_size(other[k])
         /\ \A o \in Int : AlignedValue(one[n], o).key = AlignedValue(other[k], o).key
<1>1. n \in DOMAIN one /\ k \in DOMAIN other /\ IsEvent(one[n]) /\ IsEvent(other[k])
  BY ExpandedParts
<1>2. Covered(one[n]) = Covered(other[k])
  BY <1>1 DEF PartsAgree, ShareKey
<1>3. /\ one[n].tensor = other[k].tensor /\ one[n].start = other[k].start
      /\ chunk_size(one[n]) = chunk_size(other[k])
  BY <1>1, <1>2, CoveredFixes
<1>4. QED
  BY <1>3 DEF AlignedValue

LEMMA SamePart ==
  ASSUME NEW one, IsTrace(one), NEW other, IsTrace(other), PartsAgree(one, other),
         NEW n \in 1 .. Len(one), NEW k \in 1 .. Len(other),
         first_value(one[n]).key = first_value(other[k]).key
  PROVE  /\ chunk_size(one[n]) = chunk_size(other[k])
         /\ \A o \in Int : AlignedValue(one[n], o).key = AlignedValue(other[k], o).key
<1>1. IsEvent(one[n]) /\ IsEvent(other[k])
  BY ExpandedParts
<1>2. 1 \in 1 .. chunk_size(one[n]) /\ 1 \in 1 .. chunk_size(other[k])
  BY <1>1, EventValues
<1>3. AlignedValue(one[n], 1 - 1).key \in Covered(one[n]) /\ AlignedValue(other[k], 1 - 1).key \in Covered(other[k])
  BY <1>1, <1>2, CoveredKeys
<1>4. AlignedValue(one[n], 1 - 1).key = AlignedValue(other[k], 1 - 1).key
  <2>1. 1 - 1 = 0
    OBVIOUS
  <2>2. QED
    BY <2>1 DEF first_value
<1>5. ShareKey(one[n], other[k])
  BY <1>3, <1>4 DEF ShareKey
<1>6. QED
  BY <1>5, CommonKey

(* A chunk whose start is no chunk's start in the other trace shares no    *)
(* key with it; one whose start is has all its keys there.                 *)
LEMMA PartIsMissing ==
  ASSUME NEW one, IsTrace(one), NEW other, IsTrace(other), PartsAgree(one, other),
         NEW n \in 1 .. Len(one),
         \A k \in 1 .. Len(other) : first_value(other[k]).key # first_value(one[n]).key,
         NEW key \in Covered(one[n])
  PROVE  \A j \in DOMAIN AllValues(other) : AllValues(other)[j].key # key
<1> SUFFICES ASSUME NEW j \in DOMAIN AllValues(other), AllValues(other)[j].key = key
             PROVE  FALSE
  OBVIOUS
<1>1. j \in 1 .. TotalValues(other)
  BY TracePlaces
<1>2. PICK k \in 1 .. Len(other) : AllValues(other)[j].key \in Covered(other[k])
  BY <1>1, ValueIsCovered
<1>3. ShareKey(one[n], other[k])
  BY <1>2 DEF ShareKey
<1>4. AlignedValue(one[n], 0).key = AlignedValue(other[k], 0).key
  BY <1>3, CommonKey
<1>5. QED
  BY <1>4 DEF first_value

LEMMA PartIsPresent ==
  ASSUME NEW one, IsTrace(one), NEW other, IsTrace(other), PartsAgree(one, other),
         NEW n \in 1 .. Len(one), NEW k \in 1 .. Len(other),
         first_value(other[k]).key = first_value(one[n]).key,
         NEW o \in 1 .. chunk_size(one[n])
  PROVE  \E j \in DOMAIN AllValues(other) :
           /\ AllValues(other)[j] = AlignedValue(other[k], o - 1)
           /\ AllValues(other)[j].key = AlignedValue(one[n], o - 1).key
<1>1. /\ chunk_size(one[n]) = chunk_size(other[k])
      /\ AlignedValue(one[n], o - 1).key = AlignedValue(other[k], o - 1).key
  BY SamePart
<1> DEFINE j == End(other, k - 1) + o
<1>2. AllValues(other)[j] = AlignedValue(other[k], o - 1)
  BY <1>1, TracePlaces
<1>3. j \in DOMAIN AllValues(other)
  <2>1. /\ Len(other) \in Nat /\ DOMAIN AllValues(other) = 1 .. TotalValues(other)
        /\ End(other, k) = End(other, k - 1) + chunk_size(other[k])
    BY TracePlaces
  <2>2. k - 1 \in 0 .. Len(other) /\ k \in 0 .. Len(other)
    BY <2>1
  <2>3. End(other, k - 1) \in 0 .. TotalValues(other) /\ End(other, k) \in 0 .. TotalValues(other) /\ TotalValues(other) \in Nat
    BY <2>2, TracePlaces
  <2>4. chunk_size(other[k]) \in Nat /\ o \in 1 .. chunk_size(other[k])
    BY <1>1, ExpandedParts, EventValues
  <2>5. QED
    BY <2>1, <2>3, <2>4
<1>4. QED
  BY <1>1, <1>2, <1>3

(* The place a value of an event has in its trace.                         *)
LEMMA PlaceOfValue ==
  ASSUME NEW trace, IsTrace(trace), NEW n \in 1 .. Len(trace), NEW o \in 1 .. chunk_size(trace[n])
  PROVE  /\ End(trace, n - 1) + o \in 1 .. TotalValues(trace)
         /\ AllValues(trace)[End(trace, n - 1) + o] = AlignedValue(trace[n], o - 1)
         /\ End(trace, n - 1) \in Nat /\ End(trace, n) \in Nat
         /\ End(trace, n) = End(trace, n - 1) + chunk_size(trace[n])
         /\ chunk_size(trace[n]) \in Nat \ {0}
<1>1. /\ Len(trace) \in Nat /\ TotalValues(trace) \in Nat
      /\ End(trace, n) = End(trace, n - 1) + chunk_size(trace[n])
      /\ AllValues(trace)[End(trace, n - 1) + o] = AlignedValue(trace[n], o - 1)
  BY TracePlaces
<1>2. n - 1 \in 0 .. Len(trace) /\ n \in 0 .. Len(trace)
  BY <1>1
<1>3. End(trace, n - 1) \in 0 .. TotalValues(trace) /\ End(trace, n) \in 0 .. TotalValues(trace)
  BY <1>2, TracePlaces
<1>4. chunk_size(trace[n]) \in Nat \ {0}
  BY ExpandedParts, EventValues
<1>5. End(trace, n - 1) + o \in 1 .. TotalValues(trace)
  BY <1>1, <1>3, <1>4
<1>6. QED
  BY <1>1, <1>3, <1>4, <1>5

LEMMA PairKind ==
  ASSUME NEW ref, IsTrace(ref), NEW cand, IsTrace(cand), Apart(ref), Apart(cand),
         PartsAgree(ref, cand), NEW n \in 1 .. Len(ref), NEW k \in 1 .. Len(cand),
         first_value(ref[n]).key = first_value(cand[k]).key,
         NEW o \in 1 .. chunk_size(ref[n])
  PROVE  /\ AlignedValue(cand[k], o - 1).key = AlignedValue(ref[n], o - 1).key
         /\ KindOf(ref, cand, AlignedValue(ref[n], o - 1).key)
              = CompareMetadataFirst({AlignedValue(ref[n], o - 1)}, {AlignedValue(cand[k], o - 1)})
<1> DEFINE E == AllValues(ref)
           A == AllValues(cand)
           i == End(ref, n - 1) + o
           e == AlignedValue(ref[n], o - 1)
           a == AlignedValue(cand[k], o - 1)
<1>1. i \in DOMAIN E /\ E[i] = e
  <2>1. DOMAIN E = 1 .. TotalValues(ref)
    BY TracePlaces
  <2>2. QED
    BY <2>1, PlaceOfValue
<1>2. PICK j \in DOMAIN A : A[j] = a /\ A[j].key = e.key
  <2>1. \E j \in DOMAIN AllValues(cand) :
           /\ AllValues(cand)[j] = AlignedValue(cand[k], o - 1)
           /\ AllValues(cand)[j].key = AlignedValue(ref[n], o - 1).key
    BY PartIsPresent
  <2>2. QED
    BY <2>1
<1>3. DOMAIN E \in SUBSET Nat /\ DOMAIN A \in SUBSET Nat /\ ~HasDuplicate(E) /\ ~HasDuplicate(A)
  <2>1. DOMAIN E = 1 .. TotalValues(ref) /\ DOMAIN A = 1 .. TotalValues(cand)
    BY TracePlaces
  <2>2. ~HasDuplicate(E) /\ ~HasDuplicate(A)
    BY ApartIsSingle
  <2>3. QED
    BY <2>1, <2>2
<1>4. KindOf(ref, cand, e.key) = CompareMetadataFirst(With(E, e.key), With(A, e.key))
  BY DEF KindOf
<1> HIDE DEF E, A, i, e, a
<1>5. With(E, E[i].key) = {E[i]}
  BY <1>1, <1>3, WithIsOnly
<1>6. With(A, A[j].key) = {A[j]}
  BY <1>2, <1>3, WithIsOnly
<1>7. a.key = e.key /\ KindOf(ref, cand, e.key) = CompareMetadataFirst({e}, {a})
  BY <1>1, <1>2, <1>4, <1>5, <1>6
<1>8. QED
  BY <1>7 DEF e, a

LEMMA ValueFields ==
  ASSUME NEW event, NEW o \in Int
  PROVE  /\ AlignedValue(event, o).meta = event.meta
         /\ AlignedValue(event, o).value = event.values[o + 1]
BY DEF AlignedValue

ChunksSoFar(ref, cand, done, matched) ==
  /\ done \in 0 .. Len(ref) /\ matched = End(ref, done)
  /\ Agreed(ref, cand, End(ref, done))

(* All values of a chunk up to one agree.                                  *)
LEMMA AgreedFurther ==
  ASSUME NEW ref, IsTrace(ref), NEW cand, NEW n \in 1 .. Len(ref),
         Agreed(ref, cand, End(ref, n - 1)), NEW size \in 0 .. chunk_size(ref[n]),
         \A o \in 1 .. size : KindOf(ref, cand, AlignedValue(ref[n], o - 1).key) = "equal"
  PROVE  Agreed(ref, cand, End(ref, n - 1) + size)
<1>1. End(ref, n - 1) \in Nat /\ chunk_size(ref[n]) \in Nat
  <2>1. chunk_size(ref[n]) \in Nat \ {0}
    BY ExpandedParts, EventValues
  <2>2. 1 \in 1 .. chunk_size(ref[n])
    BY <2>1
  <2>3. QED
    BY <2>1, <2>2, PlaceOfValue
<1>2. ASSUME NEW j \in 1 .. End(ref, n - 1) + size
      PROVE  KindOf(ref, cand, AllValues(ref)[j].key) = "equal"
  <2>1. CASE j <= End(ref, n - 1)
    <3>1. j \in 1 .. End(ref, n - 1)
      BY <1>1, <2>1
    <3>2. QED
      BY <3>1 DEF Agreed
  <2>2. CASE ~(j <= End(ref, n - 1))
    <3> DEFINE o == j - End(ref, n - 1)
    <3>1. o \in 1 .. size /\ o \in 1 .. chunk_size(ref[n]) /\ j = End(ref, n - 1) + o
      BY <1>1, <2>2
    <3> HIDE DEF o
    <3>2. AllValues(ref)[End(ref, n - 1) + o] = AlignedValue(ref[n], o - 1)
      BY <3>1, PlaceOfValue
    <3>3. QED
      BY <3>1, <3>2
  <2>3. QED
    BY <2>1, <2>2
<1>3. QED
  BY <1>2 DEF Agreed

(* Two sides that differ at an offset of a chunk, all before being equal.  *)
LEMMA OffsetJudges ==
  ASSUME IsTrace(reference), IsTrace(candidate), Apart(reference), Apart(candidate),
         PartsAgree(reference, candidate), NEW n \in 1 .. Len(reference), NEW k \in 1 .. Len(candidate),
         first_value(reference[n]).key = first_value(candidate[k]).key,
         NEW o \in 1 .. chunk_size(reference[n]), NEW kind \in DivergenceKinds,
         CompareMetadataFirst({AlignedValue(reference[n], o - 1)}, {AlignedValue(candidate[k], o - 1)}) = kind,
         Diverge(kind, {AlignedValue(reference[n], o - 1)}, {AlignedValue(candidate[k], o - 1)}),
         Agreed(reference, candidate, End(reference, n - 1) + (o - 1)),
         matched_values' = End(reference, n - 1) + (o - 1)
  PROVE  Judged
<1> DEFINE e == AlignedValue(reference[n], o - 1)
           a == AlignedValue(candidate[k], o - 1)
           i == End(reference, n - 1) + o
<1>1. i \in 1 .. TotalValues(reference) /\ AllValues(reference)[i] = e /\ i - 1 = End(reference, n - 1) + (o - 1)
  <2>1. i \in 1 .. TotalValues(reference) /\ AllValues(reference)[i] = e /\ End(reference, n - 1) \in Nat
    BY PlaceOfValue
  <2>2. o \in Int
    OBVIOUS
  <2>3. QED
    BY <2>1, <2>2
<1>2. a.key = e.key /\ KindOf(reference, candidate, e.key) = CompareMetadataFirst({e}, {a})
  BY PairKind
<1>3. CompareMetadataFirst({e}, {a}) = kind /\ Diverge(kind, {e}, {a})
  OBVIOUS
<1>4. Agreed(reference, candidate, i - 1) /\ matched_values' = i - 1
  BY <1>1
<1> HIDE DEF e, a, i
<1>5. report'.kind = kind /\ report'.at = {v.key : v \in {e} \cup {a}}
  BY <1>3, DivergeSays
<1>6. report'.at = {AllValues(reference)[i].key}
  BY <1>1, <1>2, <1>5
<1>7. KindOf(reference, candidate, AllValues(reference)[i].key) = report'.kind
  BY <1>1, <1>2, <1>3, <1>5
<1>8. IsFirst(report', i - 1, reference, candidate)
  BY <1>1, <1>4, <1>6, <1>7, FirstInReference
<1>9. QED
  BY <1>4, <1>5, <1>8 DEF Judged

LEMMA TwoChunksJudge ==
  ASSUME IsTrace(reference), IsTrace(candidate), Apart(reference), Apart(candidate),
         PartsAgree(reference, candidate),
         ChunksSoFar(reference, candidate, position, matched_values),
         NEW n \in 1 .. Len(reference), n = position + 1, NEW k \in 1 .. Len(candidate),
         first_value(reference[n]).key = first_value(candidate[k]).key,
         CompareTwoChunks(reference[n], candidate[k])
  PROVE  \/ Judged
         \/ report' = report /\ ChunksSoFar(reference, candidate, position', matched_values')
<1> DEFINE x == reference[n]
           y == candidate[k]
           size == chunk_size(x)
           Side(event, o) == AlignedValue(event, o - 1)
<1>1. chunk_size(y) = size /\ size \in Nat \ {0} /\ Len(reference) \in Nat
  <2>1. chunk_size(y) = size
    BY SamePart
  <2>2. size \in Nat \ {0}
    BY ExpandedParts, EventValues
  <2>3. QED
    BY <2>1, <2>2, TracePlaces
<1>2. /\ position = n - 1 /\ position \in Nat /\ matched_values = End(reference, n - 1)
      /\ Agreed(reference, candidate, End(reference, n - 1))
  <2>1. position \in Nat /\ position = n - 1
    BY <1>1 DEF ChunksSoFar
  <2>2. QED
    BY <2>1 DEF ChunksSoFar
<1>3. End(reference, n - 1) \in Nat /\ End(reference, n) = End(reference, n - 1) + size
  <2>1. 1 \in 1 .. size
    BY <1>1
  <2>2. QED
    BY <2>1, PlaceOfValue
<1>4. ASSUME NEW o \in 1 .. size
      PROVE  /\ Side(x, o).meta = x.meta /\ Side(x, o).value = x.values[o]
             /\ Side(y, o).meta = y.meta /\ Side(y, o).value = y.values[o]
  <2>1. o - 1 \in Int /\ o - 1 + 1 = o
    BY <1>1
  <2>2. QED
    BY <2>1, ValueFields
<1>5. CASE x.meta # y.meta
  <2>1. Diverge("metadata_mismatch", {Side(x, 1)}, {Side(y, 1)}) /\ matched_values' = End(reference, n - 1) + (1 - 1)
    <3>1. Diverge("metadata_mismatch", {first_value(x)}, {first_value(y)}) /\ matched_values' = matched_values
      BY <1>5 DEF CompareTwoChunks
    <3>2. 1 - 1 = 0 /\ End(reference, n - 1) + (1 - 1) = End(reference, n - 1)
      BY <1>3
    <3>3. QED
      BY <1>2, <3>1, <3>2 DEF first_value
  <2>2. 1 \in 1 .. size
    BY <1>1
  <2>3. Side(x, 1).meta # Side(y, 1).meta
    BY <1>4, <1>5, <2>2
  <2>4. CompareMetadataFirst({Side(x, 1)}, {Side(y, 1)}) = "metadata_mismatch"
    <3> DEFINE e == Side(x, 1)
               a == Side(y, 1)
    <3>1. e.meta # a.meta
      BY <2>3
    <3> HIDE DEF e, a
    <3>2. CompareMetadataFirst({e}, {a}) = "metadata_mismatch"
      BY <3>1, KindOfSides
    <3>3. QED
      BY <3>2 DEF e, a
  <2>5. Agreed(reference, candidate, End(reference, n - 1) + (1 - 1))
    <3>1. End(reference, n - 1) + (1 - 1) = End(reference, n - 1)
      BY <1>3
    <3>2. QED
      BY <1>2, <3>1
  <2>6. "metadata_mismatch" \in DivergenceKinds
    BY DEF DivergenceKinds
  <2>7. QED
    BY <2>1, <2>2, <2>4, <2>5, <2>6, OffsetJudges
<1>6. CASE x.meta = y.meta
  <2> DEFINE unequal == {i \in 0 .. size - 1 : x.values[i + 1] # y.values[i + 1]}
  <2>1. first_array_mismatch(x, y) = {i \in unequal : \A j \in unequal : i <= j}
    BY <1>1 DEF first_array_mismatch
  <2>2. ASSUME NEW o \in 1 .. size, x.values[o] = y.values[o]
        PROVE  KindOf(reference, candidate, Side(x, o).key) = "equal"
    <3>1. KindOf(reference, candidate, Side(x, o).key) = CompareMetadataFirst({Side(x, o)}, {Side(y, o)})
      BY PairKind
    <3>2. Side(x, o).meta = Side(y, o).meta /\ Side(x, o).value = Side(y, o).value
      BY <1>4, <1>6, <2>2
    <3> DEFINE e == Side(x, o)
               a == Side(y, o)
    <3>3. e.meta = a.meta /\ e.value = a.value
      BY <3>2
    <3>4. KindOf(reference, candidate, e.key) = CompareMetadataFirst({e}, {a})
      BY <3>1
    <3> HIDE DEF e, a
    <3>5. KindOf(reference, candidate, e.key) = "equal"
      BY <3>3, <3>4, KindOfSides
    <3>6. QED
      BY <3>5 DEF e
  <2>3. CASE first_array_mismatch(x, y) # {}
    <3>1. PICK i \in first_array_mismatch(x, y) :
            /\ Diverge("value_mismatch", {AlignedValue(x, i)}, {AlignedValue(y, i)})
            /\ matched_values' = matched_values + i
      BY <1>6, <2>3 DEF CompareTwoChunks
    <3>2. i \in 0 .. size - 1 /\ x.values[i + 1] # y.values[i + 1] /\ \A j \in unequal : i <= j
      BY <2>1
    <3> DEFINE p == i + 1
    <3>3. p \in 1 .. size /\ p - 1 = i
      BY <1>1, <3>2
    <3>4. \A o \in 1 .. p - 1 : KindOf(reference, candidate, Side(x, o).key) = "equal"
      <4>1. ASSUME NEW o \in 1 .. p - 1
            PROVE  o \in 1 .. size /\ x.values[o] = y.values[o]
        <5>1. o - 1 \in 0 .. size - 1 /\ o \in 1 .. size /\ ~(i <= o - 1) /\ o - 1 + 1 = o
          BY <1>1, <3>2, <3>3
        <5>2. o - 1 \notin unequal
          <6> HIDE DEF unequal
          <6>1. QED
            BY <3>2, <5>1
        <5>3. QED
          BY <5>1, <5>2
      <4>2. QED
        BY <2>2, <4>1
    <3>5. Agreed(reference, candidate, End(reference, n - 1) + (p - 1))
      <4>1. p - 1 \in 0 .. size
        BY <1>1, <3>2, <3>3
      <4> HIDE DEF p
      <4>2. QED
        BY <1>2, <3>4, <4>1, AgreedFurther
    <3>6. Side(x, p).meta = Side(y, p).meta /\ Side(x, p).value # Side(y, p).value
      BY <1>4, <1>6, <3>2, <3>3
    <3>7. CompareMetadataFirst({Side(x, p)}, {Side(y, p)}) = "value_mismatch"
      BY <3>6, KindOfSides
    <3>8. /\ Diverge("value_mismatch", {Side(x, p)}, {Side(y, p)})
          /\ matched_values' = End(reference, n - 1) + (p - 1)
      BY <1>2, <3>1, <3>3
    <3>9. "value_mismatch" \in DivergenceKinds
      BY DEF DivergenceKinds
    <3> HIDE DEF p
    <3>10. QED
      BY <3>3, <3>5, <3>7, <3>8, <3>9, OffsetJudges
  <2>4. CASE first_array_mismatch(x, y) = {}
    <3>1. /\ matched_values' = matched_values + size /\ position' = position + 1 /\ report' = report
      BY <1>6, <2>4 DEF CompareTwoChunks
    <3>2. unequal = {}
      <4>1. LeastOf(unequal) = {} /\ unequal \in SUBSET Nat
        BY <1>1, <2>1, <2>4 DEF LeastOf
      <4> HIDE DEF unequal
      <4>2. QED
        BY <4>1, LeastIsOne
    <3>3. \A o \in 1 .. size : KindOf(reference, candidate, Side(x, o).key) = "equal"
      <4>1. ASSUME NEW o \in 1 .. size
            PROVE  x.values[o] = y.values[o]
        <5>1. o - 1 \in 0 .. size - 1 /\ o - 1 + 1 = o
          BY <1>1
        <5>2. QED
          BY <3>2, <5>1
      <4>2. QED
        BY <2>2, <4>1
    <3>4. Agreed(reference, candidate, End(reference, n - 1) + size)
      <4>1. size \in 0 .. size
        BY <1>1
      <4>2. QED
        BY <1>2, <3>3, <4>1, AgreedFurther
    <3>5. position' = n /\ position' \in 0 .. Len(reference) /\ matched_values' = End(reference, n)
      <4>1. position' = n
        BY <3>1
      <4>2. QED
        BY <1>1, <1>2, <1>3, <3>1, <4>1
    <3>6. QED
      BY <1>3, <3>1, <3>4, <3>5 DEF ChunksSoFar
  <2>5. QED
    BY <2>3, <2>4
<1>7. QED
  BY <1>5, <1>6

LEMMA EventAtFinds ==
  ASSUME NEW trace, IsTrace(trace), NEW key
  PROVE  /\ EventAt(trace, key) = {} =>
              \A k \in 1 .. Len(trace) : first_value(trace[k]).key # key
         /\ \A event \in EventAt(trace, key) :
              \E k \in 1 .. Len(trace) : event = trace[k] /\ first_value(trace[k]).key = key
<1> DEFINE S == {k \in DOMAIN trace : first_value(trace[k]).key = key}
<1>1. DOMAIN trace = 1 .. Len(trace)
  BY TracePlaces
<1>2. EventAt(trace, key) = {trace[k] : k \in LeastOf(S)}
  BY DEF EventAt
<1>3. S \in SUBSET Nat
  BY <1>1
<1>4. LeastOf(S) \subseteq S /\ (S # {} => LeastOf(S) # {})
  <2> HIDE DEF S
  <2>1. QED
    BY <1>3, LeastIsOne DEF LeastOf
<1>5. ASSUME EventAt(trace, key) = {}
      PROVE  S = {}
  <2> HIDE DEF S
  <2>1. QED
    BY <1>2, <1>4, <1>5
<1>6. ASSUME NEW event \in EventAt(trace, key)
      PROVE  \E k \in S : event = trace[k]
  <2> HIDE DEF S
  <2>1. QED
    BY <1>2, <1>4, <1>6
<1>7. QED
  BY <1>1, <1>5, <1>6

LEMMA AgreeOnPartsIsMutual ==
  ASSUME NEW one, NEW other, AgreeOnParts(one, other)
  PROVE  PartsAgree(one, other) /\ PartsAgree(other, one)
BY DEF AgreeOnParts, PartsAgree

LEMMA FinishChunksJudges ==
  ASSUME IsTrace(reference), IsTrace(candidate), Apart(reference), Apart(candidate),
         AgreeOnParts(reference, candidate),
         matched_values = TotalValues(reference),
         Agreed(reference, candidate, TotalValues(reference)),
         Finish(Extra(index_chunks(reference), index_chunks(candidate)))
  PROVE  Judged
<1> DEFINE E == AllValues(reference)
           A == AllValues(candidate)
           X == index_chunks(reference)
           Y == index_chunks(candidate)
           extra == Extra(X, Y)
<1>1. /\ DOMAIN X = 1 .. Len(reference) /\ DOMAIN Y = 1 .. Len(candidate)
      /\ \A n \in DOMAIN X : X[n] = first_value(reference[n])
      /\ \A n \in DOMAIN Y : Y[n] = first_value(candidate[n])
      /\ DOMAIN A = 1 .. TotalValues(candidate) /\ DOMAIN E = 1 .. TotalValues(reference)
      /\ TotalValues(candidate) \in Nat
  BY TracePlaces DEF index_chunks
<1>2. DOMAIN X \in SUBSET Nat /\ DOMAIN Y \in SUBSET Nat
  BY <1>1
<1>3. PartsAgree(candidate, reference)
  BY AgreeOnPartsIsMutual
<1>4. ~HasDuplicate(E) /\ ~HasDuplicate(A)
  BY ApartIsSingle
<1>5. matched_values' = TotalValues(reference)
  BY DEF Finish
<1>6. ASSUME NEW k \in 1 .. Len(candidate), \E n \in DOMAIN X : X[n].key = Y[k].key,
             NEW o \in 1 .. chunk_size(candidate[k])
      PROVE  \E j \in DOMAIN E : E[j].key = AlignedValue(candidate[k], o - 1).key
  <2>1. PICK n \in 1 .. Len(reference) : first_value(reference[n]).key = first_value(candidate[k]).key
    BY <1>1, <1>6
  <2>2. QED
    BY <1>3, <2>1, PartIsPresent
<1>7. CASE extra = {}
  <2>1. report' = Matched
    BY <1>7 DEF Finish
  <2>2. report'.kind = "match"
    BY <2>1 DEF Matched, Running
  <2>3. \A k \in DOMAIN Y : \E n \in DOMAIN X : X[n].key = Y[k].key
    <3> HIDE DEF X, Y
    <3>1. QED
      BY <1>2, <1>7, ExtraIsFirst
  <2>4. ASSUME NEW i \in 1 .. TotalValues(candidate)
        PROVE  \E j \in DOMAIN E : E[j].key = A[i].key
    <3>1. PICK k \in 1 .. Len(candidate) : \E o \in 1 .. chunk_size(candidate[k]) :
                 A[i] = AlignedValue(candidate[k], o - 1)
      BY ValueIsCovered
    <3>2. PICK o \in 1 .. chunk_size(candidate[k]) : A[i] = AlignedValue(candidate[k], o - 1)
      BY <3>1
    <3>3. \E n \in DOMAIN X : X[n].key = Y[k].key
      BY <1>1, <2>3
    <3> HIDE DEF E, A, X, Y
    <3>4. QED
      BY <1>6, <3>2, <3>3
  <2>5. IsMatch(TotalValues(reference), reference, candidate)
    BY <1>1, <1>4, <2>4, MatchIsEqual
  <2>6. QED
    BY <1>5, <2>2, <2>5 DEF Judged
<1>8. CASE extra # {}
  <2>1. Diverge("unexpected_candidate_value", {}, extra)
    BY <1>8 DEF Finish
  <2>2. PICK k \in DOMAIN Y :
          /\ extra = {Y[k]}
          /\ \A n \in DOMAIN X : X[n].key # Y[k].key
          /\ \A m \in DOMAIN Y : m < k => \E n \in DOMAIN X : X[n].key = Y[m].key
    <3> HIDE DEF X, Y
    <3>1. QED
      BY <1>2, <1>8, ExtraIsFirst
  <2>3. k \in 1 .. Len(candidate) /\ Len(candidate) \in Nat
    BY <1>1, TracePlaces
  <2> DEFINE i == End(candidate, k - 1) + 1
  <2>4. 1 \in 1 .. chunk_size(candidate[k])
    <3>1. chunk_size(candidate[k]) \in Nat \ {0}
      BY <2>3, ExpandedParts, EventValues
    <3>2. QED
      BY <3>1
  <2>5. i \in 1 .. TotalValues(candidate) /\ A[i] = Y[k] /\ End(candidate, k - 1) \in Nat
    <3>1. i \in 1 .. TotalValues(candidate) /\ A[i] = AlignedValue(candidate[k], 1 - 1) /\ End(candidate, k - 1) \in Nat
      BY <2>3, <2>4, PlaceOfValue
    <3>2. 1 - 1 = 0
      OBVIOUS
    <3>3. QED
      BY <1>1, <3>1, <3>2 DEF first_value
  <2>6. \A j \in DOMAIN E : E[j].key # Y[k].key
    <3>1. \A n \in 1 .. Len(reference) : first_value(reference[n]).key # first_value(candidate[k]).key
      BY <1>1, <2>2
    <3>2. first_value(candidate[k]).key \in Covered(candidate[k])
      <4>1. IsEvent(candidate[k]) /\ 1 - 1 = 0
        BY <2>3, ExpandedParts
      <4>2. AlignedValue(candidate[k], 1 - 1).key \in Covered(candidate[k])
        BY <2>4, <4>1, CoveredKeys
      <4>3. QED
        BY <4>1, <4>2 DEF first_value
    <3>3. \A j \in DOMAIN E : E[j].key # first_value(candidate[k]).key
      BY <1>3, <2>3, <3>1, <3>2, PartIsMissing
    <3>4. QED
      BY <1>1, <2>2, <3>3
  <2>7. ASSUME NEW j \in 1 .. i - 1
        PROVE  KindOf(reference, candidate, A[j].key) = "equal"
    <3>1. j \in 1 .. TotalValues(candidate) /\ j <= End(candidate, k - 1)
      <4> HIDE DEF A
      <4>1. QED
        BY <1>1, <2>5
    <3>2. PICK m \in 1 .. Len(candidate) : \E o \in 1 .. chunk_size(candidate[m]) :
                 /\ j = End(candidate, m - 1) + o
                 /\ A[j] = AlignedValue(candidate[m], o - 1)
      BY <3>1, ValueIsCovered
    <3>3. PICK o \in 1 .. chunk_size(candidate[m]) :
                 /\ j = End(candidate, m - 1) + o
                 /\ A[j] = AlignedValue(candidate[m], o - 1)
      BY <3>2
    <3>4. m < k
      <4>1. k - 1 \in 0 .. Len(candidate) /\ m - 1 \in 0 .. Len(candidate)
        BY <2>3
      <4>2. k - 1 <= m - 1 => End(candidate, k - 1) <= End(candidate, m - 1)
        BY <4>1, TracePlaces
      <4>3. End(candidate, m - 1) \in Nat
        BY <3>3, PlaceOfValue
      <4>4. ~(k - 1 <= m - 1)
        BY <2>5, <3>1, <3>3, <4>2, <4>3
      <4>5. QED
        BY <2>3, <4>4
    <3>5. \E n \in DOMAIN X : X[n].key = Y[m].key
      <4>1. m \in DOMAIN Y
        BY <1>1
      <4> HIDE DEF X, Y
      <4>2. QED
        BY <2>2, <3>4, <4>1
    <3>6. \E l \in DOMAIN E : E[l].key = AlignedValue(candidate[m], o - 1).key
      <4> HIDE DEF E, X, Y
      <4>1. QED
        BY <1>6, <3>5
    <3>7. \E l \in DOMAIN E : E[l].key = A[j].key
      <4> HIDE DEF E, A
      <4>1. QED
        BY <3>3, <3>6
    <3>8. QED
      BY <3>7, AgreedKey
  <2> HIDE DEF i, extra
  <2>8. report'.kind = "unexpected_candidate_value" /\ report'.at = {v.key : v \in {} \cup extra}
    BY <2>1, DivergeSays
  <2>9. report'.at = {A[i].key}
    <3>1. extra = {A[i]}
      BY <2>2, <2>5
    <3> HIDE DEF A
    <3>2. {v.key : v \in {} \cup {A[i]}} = {A[i].key}
      OBVIOUS
    <3>3. QED
      BY <2>8, <3>1, <3>2
  <2>10. KindOf(reference, candidate, A[i].key) = report'.kind
    <3>1. \A j \in DOMAIN E : E[j].key # A[i].key
      <4> HIDE DEF E, A, Y
      <4>1. QED
        BY <2>5, <2>6
    <3>2. KindOf(reference, candidate, A[i].key) = "unexpected_candidate_value"
      BY <3>1, UnexpectedKind
    <3>3. QED
      BY <2>8, <3>2
  <2>11. IsFirst(report', TotalValues(reference), reference, candidate)
    BY <2>5, <2>7, <2>9, <2>10, FirstInCandidate
  <2>12. QED
    BY <1>5, <2>8, <2>11 DEF Judged, DivergenceKinds
<1>9. QED
  BY <1>7, <1>8

LEMMA CompareChunkJudges ==
  ASSUME IsTrace(reference), IsTrace(candidate), Apart(reference), Apart(candidate),
         AgreeOnParts(reference, candidate),
         ChunksSoFar(reference, candidate, position, matched_values), CompareChunk
  PROVE  \/ Judged
         \/ report' = report /\ ChunksSoFar(reference, candidate, position', matched_values')
<1>1. /\ Len(reference) \in Nat /\ position \in 0 .. Len(reference)
      /\ matched_values = End(reference, position)
      /\ Agreed(reference, candidate, End(reference, position))
      /\ PartsAgree(reference, candidate)
      /\ End(reference, Len(reference)) = TotalValues(reference)
  BY TracePlaces, AgreeOnPartsIsMutual DEF ChunksSoFar
<1>2. CASE position < Len(reference)
  <2> DEFINE n == position + 1
             others == EventAt(candidate, first_value(reference[n]).key)
  <2>1. n \in 1 .. Len(reference) /\ n - 1 = position
    BY <1>1, <1>2
  <2>2. CASE others = {}
    <3>1. Diverge("missing_candidate_value", {first_value(reference[n])}, {}) /\ matched_values' = matched_values
      BY <1>2, <2>2 DEF CompareChunk
    <3>2. \A k \in 1 .. Len(candidate) : first_value(candidate[k]).key # first_value(reference[n]).key
      BY <2>2, EventAtFinds
    <3> DEFINE i == End(reference, n - 1) + 1
    <3>3. 1 \in 1 .. chunk_size(reference[n])
      <4>1. chunk_size(reference[n]) \in Nat \ {0}
        BY <2>1, ExpandedParts, EventValues
      <4>2. QED
        BY <4>1
    <3>4. /\ i \in 1 .. TotalValues(reference) /\ AllValues(reference)[i] = first_value(reference[n])
          /\ End(reference, n - 1) \in Nat
      <4>1. /\ i \in 1 .. TotalValues(reference) /\ AllValues(reference)[i] = AlignedValue(reference[n], 1 - 1)
            /\ End(reference, n - 1) \in Nat
        BY <2>1, <3>3, PlaceOfValue
      <4>2. 1 - 1 = 0
        OBVIOUS
      <4>3. QED
        BY <4>1, <4>2 DEF first_value
    <3>5. i - 1 = End(reference, position)
      BY <2>1, <3>4
    <3>6. first_value(reference[n]).key \in Covered(reference[n])
      <4>1. IsEvent(reference[n]) /\ 1 - 1 = 0
        BY <2>1, ExpandedParts
      <4>2. AlignedValue(reference[n], 1 - 1).key \in Covered(reference[n])
        BY <3>3, <4>1, CoveredKeys
      <4>3. QED
        BY <4>1, <4>2 DEF first_value
    <3>7. \A j \in DOMAIN AllValues(candidate) : AllValues(candidate)[j].key # first_value(reference[n]).key
      BY <1>1, <2>1, <3>2, <3>6, PartIsMissing
    <3>8. ~HasDuplicate(AllValues(reference))
      BY ApartIsSingle
    <3>9. report'.kind = "missing_candidate_value" /\ report'.at = {first_value(reference[n]).key}
      <4> DEFINE v == first_value(reference[n])
      <4>1. Diverge("missing_candidate_value", {v}, {})
        BY <3>1
      <4> HIDE DEF v
      <4>2. report'.kind = "missing_candidate_value" /\ report'.at = {w.key : w \in {v} \cup {}}
        BY <4>1, DivergeSays
      <4>3. report'.at = {v.key}
        BY <4>2
      <4>4. QED
        BY <4>2, <4>3 DEF v
    <3> HIDE DEF i
    <3>10. KindOf(reference, candidate, AllValues(reference)[i].key) = "missing_candidate_value"
      BY <3>4, <3>7, <3>8, MissingKind
    <3>11. IsFirst(report', i - 1, reference, candidate)
      <4>1. Agreed(reference, candidate, i - 1)
        BY <1>1, <3>5
      <4>2. QED
        BY <3>4, <3>9, <3>10, <4>1, FirstInReference
    <3>12. QED
      BY <1>1, <3>1, <3>5, <3>9, <3>11 DEF Judged, DivergenceKinds
  <2>3. CASE others # {}
    <3>1. PICK actual \in others : CompareTwoChunks(reference[n], actual)
      BY <1>2, <2>3 DEF CompareChunk
    <3>2. PICK k \in 1 .. Len(candidate) :
            actual = candidate[k] /\ first_value(candidate[k]).key = first_value(reference[n]).key
      BY <3>1, EventAtFinds
    <3>3. CompareTwoChunks(reference[n], candidate[k])
      BY <3>1, <3>2
    <3>4. n = position + 1
      OBVIOUS
    <3> HIDE DEF n
    <3>5. QED
      BY <1>1, <2>1, <3>2, <3>3, <3>4, TwoChunksJudge
  <2>4. QED
    BY <2>2, <2>3
<1>3. CASE ~(position < Len(reference))
  <2>1. position = Len(reference)
    BY <1>1, <1>3
  <2>2. Finish(Extra(index_chunks(reference), index_chunks(candidate)))
    BY <1>3 DEF CompareChunk
  <2>3. QED
    BY <1>1, <2>1, <2>2, FinishChunksJudges
<1>4. QED
  BY <1>2, <1>3

-----------------------------------------------------------------------------
(* The comparison: how far each loop has come, and what a verdict says.    *)
VerdictKinds == DivergenceKinds \cup {"match", "alignment_error"}

TracesCompare ==
  /\ IsTrace(reference) /\ IsTrace(candidate) /\ Comparable(reference, candidate)

LoopSoFar ==
  /\ way = "none" => position = 0 /\ matched_values = 0 /\ report = Running
  /\ way # "none" => way = WayFor(reference, candidate)
  /\ report = Running =>
       /\ way = "values" => ValuesSoFar(reference, candidate, position, matched_values)
       /\ way = "chunks" => ChunksSoFar(reference, candidate, position, matched_values)
       /\ way = "mixed" => ScalarsSoFar(reference, candidate, position, matched_values)

VerdictIsTrue ==
  /\ report # Running => report.kind \in VerdictKinds
  /\ report.kind = "match" => IsMatch(matched_values, reference, candidate)
  /\ report.kind \in DivergenceKinds => IsFirst(report, matched_values, reference, candidate)
  /\ report.kind = "alignment_error" /\ way = "values" =>
       HasDuplicate(AllValues(reference)) \/ HasDuplicate(AllValues(candidate))

ComparisonInv == TracesCompare /\ LoopSoFar /\ VerdictIsTrue

LEMMA WaysDiffer ==
  ASSUME NEW ref, NEW cand
  PROVE  WayFor(ref, cand) \in {"chunks", "mixed", "values"}
BY DEF WayFor

LEMMA RunningIsNoVerdict ==
  /\ Running.kind = "running" /\ "running" \notin VerdictKinds
  /\ "match" \notin DivergenceKinds /\ "alignment_error" \notin DivergenceKinds
  /\ AlignmentError.kind = "alignment_error"
BY DEF Running, VerdictKinds, DivergenceKinds, AlignmentError

LEMMA AgreedAtStart ==
  ASSUME NEW ref, IsTrace(ref), NEW cand
  PROVE  /\ Agreed(ref, cand, 0) /\ End(ref, 0) = 0
         /\ TotalValues(ref) \in Nat /\ Len(ref) \in Nat
BY TracePlaces DEF Agreed

LEMMA ChooseWayKeeps ==
  ASSUME ComparisonInv, ChooseWay
  PROVE  ComparisonInv'
<1>1. /\ way = "none" /\ way' = WayFor(reference, candidate)
      /\ reference' = reference /\ candidate' = candidate
      /\ position' = position /\ matched_values' = matched_values
      /\ position = 0 /\ matched_values = 0 /\ IsTrace(reference) /\ IsTrace(candidate)
  BY DEF ChooseWay, ComparisonInv, LoopSoFar, TracesCompare
<1>2. way' \in {"chunks", "mixed", "values"}
  BY <1>1, WaysDiffer
<1>3. report' = Running \/ report' = AlignmentError
  BY DEF ChooseWay
<1>4. way' = "values" =>
        (report' = AlignmentError <=> HasDuplicate(AllValues(reference)) \/ HasDuplicate(AllValues(candidate)))
  <2>1. Running # AlignmentError
    BY RunningIsNoVerdict DEF VerdictKinds
  <2>2. ASSUME way' = "values"
        PROVE  report' = IF HasDuplicate(AllValues(reference)) \/ HasDuplicate(AllValues(candidate))
                         THEN AlignmentError ELSE Running
    BY <2>2 DEF ChooseWay
  <2>3. QED
    BY <2>1, <2>2
<1>5. TracesCompare'
  BY <1>1 DEF TracesCompare, ComparisonInv
<1>6. LoopSoFar'
  <2>1. Agreed(reference, candidate, 0) /\ End(reference, 0) = 0 /\ TotalValues(reference) \in Nat
        /\ Len(reference) \in Nat
    BY <1>1, AgreedAtStart
  <2>2. Len(ScalarsOf(reference, candidate)) \in Nat
    BY <1>1, AgreedAtStart DEF ScalarsOf
  <2>3. report' = Running => report' # AlignmentError
    BY RunningIsNoVerdict DEF VerdictKinds
  <2>4. report' = Running /\ way' = "values" => ValuesSoFar(reference, candidate, 0, 0)
    BY <1>4, <2>1, <2>3 DEF ValuesSoFar
  <2>5. ChunksSoFar(reference, candidate, 0, 0)
    BY <2>1 DEF ChunksSoFar
  <2>6. ScalarsSoFar(reference, candidate, 0, 0)
    BY <2>1, <2>2 DEF ScalarsSoFar
  <2>7. QED
    BY <1>1, <1>2, <2>4, <2>5, <2>6 DEF LoopSoFar
<1>7. VerdictIsTrue'
  <2>1. CASE report' = Running
    BY <2>1, RunningIsNoVerdict DEF VerdictIsTrue, VerdictKinds
  <2>2. CASE report' = AlignmentError
    <3>1. /\ report'.kind = "alignment_error" /\ report'.kind \in VerdictKinds
          /\ report'.kind # "match" /\ report'.kind \notin DivergenceKinds
      BY <2>2, RunningIsNoVerdict DEF VerdictKinds
    <3>2. QED
      BY <1>1, <1>4, <2>2, <3>1 DEF VerdictIsTrue
  <2>3. QED
    BY <1>3, <2>1, <2>2
<1>8. QED
  BY <1>5, <1>6, <1>7 DEF ComparisonInv

(* A step of a loop.                                                       *)
LEMMA LoopKeeps ==
  ASSUME ComparisonInv, CompareValue \/ CompareChunk \/ CompareScalar
  PROVE  ComparisonInv'
<1>1. /\ reference' = reference /\ candidate' = candidate /\ way' = way /\ report = Running
      /\ way # "none" /\ way = WayFor(reference, candidate)
  BY DEF ComparisonInv, LoopSoFar, CompareValue, CompareChunk, CompareScalar
<1>2. IsTrace(reference) /\ IsTrace(candidate) /\ Comparable(reference, candidate)
  BY DEF ComparisonInv, TracesCompare
<1> DEFINE SoFar ==
             /\ way = "values" => ValuesSoFar(reference, candidate, position', matched_values')
             /\ way = "chunks" => ChunksSoFar(reference, candidate, position', matched_values')
             /\ way = "mixed" => ScalarsSoFar(reference, candidate, position', matched_values')
<1>3. Judged \/ (report' = report /\ SoFar)
  <2>1. CASE CompareValue
    <3>1. way = "values" /\ ValuesSoFar(reference, candidate, position, matched_values)
      BY <1>1, <2>1 DEF CompareValue, ComparisonInv, LoopSoFar
    <3>2. \/ Judged
          \/ report' = report /\ ValuesSoFar(reference, candidate, position', matched_values')
      BY <1>2, <2>1, <3>1, CompareValueJudges
    <3>3. QED
      BY <3>1, <3>2
  <2>2. CASE CompareChunk
    <3>1. way = "chunks" /\ ChunksSoFar(reference, candidate, position, matched_values)
      BY <1>1, <2>2 DEF CompareChunk, ComparisonInv, LoopSoFar
    <3>2. Apart(reference) /\ Apart(candidate) /\ AgreeOnParts(reference, candidate)
      BY <1>1, <1>2, <3>1 DEF Comparable
    <3>3. \/ Judged
          \/ report' = report /\ ChunksSoFar(reference, candidate, position', matched_values')
      BY <1>2, <2>2, <3>1, <3>2, CompareChunkJudges
    <3>4. QED
      BY <3>1, <3>3
  <2>3. CASE CompareScalar
    <3>1. way = "mixed" /\ ScalarsSoFar(reference, candidate, position, matched_values)
      BY <1>1, <2>3 DEF CompareScalar, ComparisonInv, LoopSoFar
    <3>2. AgreeOnOrder(AllValues(reference), AllValues(candidate)) /\ WayFor(reference, candidate) = "mixed"
      BY <1>1, <1>2, <3>1 DEF Comparable
    <3>3. \/ Judged
          \/ report' = report /\ ScalarsSoFar(reference, candidate, position', matched_values')
      BY <1>2, <2>3, <3>1, <3>2, ScalarOfReference, ScalarOfCandidate
    <3>4. QED
      BY <3>1, <3>3
  <2>4. QED
    BY <2>1, <2>2, <2>3
<1>4. TracesCompare'
  BY <1>1, <1>2 DEF TracesCompare
<1>5. CASE Judged
  <2>1. report'.kind = "match" \/ report'.kind \in DivergenceKinds
    BY <1>5 DEF Judged
  <2>2. report' # Running
    BY <2>1, RunningIsNoVerdict DEF VerdictKinds
  <2>3. LoopSoFar'
    BY <1>1, <2>2 DEF LoopSoFar
  <2>4. VerdictIsTrue'
    <3>1. report'.kind \in VerdictKinds /\ report'.kind # "alignment_error"
      BY <2>1, RunningIsNoVerdict DEF VerdictKinds
    <3>2. QED
      BY <1>1, <1>5, <3>1, RunningIsNoVerdict DEF Judged, VerdictIsTrue
  <2>5. QED
    BY <1>4, <2>3, <2>4 DEF ComparisonInv
<1>6. CASE report' = report /\ SoFar
  <2>1. LoopSoFar'
    BY <1>1, <1>6 DEF LoopSoFar
  <2>2. VerdictIsTrue'
    BY <1>1, <1>6, RunningIsNoVerdict DEF VerdictIsTrue, VerdictKinds
  <2>3. QED
    BY <1>4, <2>1, <2>2 DEF ComparisonInv
<1>7. QED
  BY <1>3, <1>5, <1>6

LEMMA ComparisonKeeps ==
  ASSUME ComparisonInv, ComparisonNext
  PROVE  ComparisonInv'
BY ChooseWayKeeps, LoopKeeps DEF ComparisonNext

LEMMA ComparisonStutters ==
  ASSUME ComparisonInv, UNCHANGED comparison_vars
  PROVE  ComparisonInv'
<1>1. TracesCompare'
  BY DEF ComparisonInv, TracesCompare, comparison_vars
<1>2. LoopSoFar'
  BY DEF ComparisonInv, LoopSoFar, comparison_vars
<1>3. VerdictIsTrue'
  BY DEF ComparisonInv, VerdictIsTrue, comparison_vars
<1>4. QED
  BY <1>1, <1>2, <1>3 DEF ComparisonInv

(* What the invariant says, in the words of the properties.                *)
LEMMA VerdictsSay ==
  ASSUME ComparisonInv
  PROVE  MatchMeansEqual /\ DivergenceIsFirst
<1>1. MatchMeansEqual
  BY DEF ComparisonInv, VerdictIsTrue, IsMatch, MatchMeansEqual
<1>2. ASSUME Diverged
      PROVE  IsFirst(report, matched_values, reference, candidate)
  <2>1. report.kind \in DivergenceKinds
    BY <1>2, RunningIsNoVerdict DEF Diverged, ComparisonInv, VerdictIsTrue, VerdictKinds
  <2>2. QED
    BY <2>1 DEF ComparisonInv, VerdictIsTrue
<1>3. DivergenceIsFirst
  BY <1>2 DEF DivergenceIsFirst, IsFirst, TrueKind, KindOf
<1>4. QED
  BY <1>1, <1>3

-----------------------------------------------------------------------------
(* A monitor's samples and the trace made of them.                         *)
IsSample(s) ==
  /\ s.at \in 0 .. Size
  /\ s.sequence \in {s.at, NoValue}
  /\ s.cycle \in Nat \cup {NoValue}
  /\ s.value \in {0, 1} /\ s.accepted \in BOOLEAN /\ s.last \in BOOLEAN \cup {NoValue}

Written(s) == EventOf(s, s.at % Size)

LEMMA SampleTypes ==
  ASSUME clock \in Nat, NEW s \in Samples
  PROVE  IsSample(s) /\ (origin = "capture" => s.sequence = s.at)
<1>1. PICK at \in {place - 1, place, place + 1} \cap (0 .. Size) :
        s \in [at       : {at},
               sequence : {at} \cup Optional,
               cycle    : ({clock, clock - 1} \cap Nat) \cup Optional,
               value    : {0, 1},
               accepted : BOOLEAN,
               last     : BOOLEAN \cup Optional]
  BY DEF Samples
<1>2. /\ s.at = at /\ s.sequence \in {at} \cup Optional
      /\ s.cycle \in ({clock, clock - 1} \cap Nat) \cup Optional
      /\ s.value \in {0, 1} /\ s.accepted \in BOOLEAN /\ s.last \in BOOLEAN \cup Optional
  BY <1>1
<1>3. Optional \subseteq {NoValue} /\ (origin = "capture" => Optional = {})
  BY DEF Optional
<1>4. QED
  BY <1>1, <1>2, <1>3 DEF IsSample

LEMMA PlaceInShape ==
  /\ \A n \in 0 .. Size - 1 : n % Size = n
  /\ Size % Size = 0
  /\ \A n \in 0 .. Size : n % Size \in 0 .. Size - 1
BY StreamAssumption

LEMMA WrittenIsEvent ==
  ASSUME NEW s, IsSample(s)
  PROVE  /\ IsEvent(Written(s)) /\ Written(s).kind = "scalar"
         /\ Written(s).trace_point = "stream_transfer"
         /\ Written(s).tensor = "y" /\ Written(s).start = s.at % Size
         /\ Written(s).values = << s.value >> /\ Written(s).meta = "m"
         /\ Written(s).sequence = s.sequence /\ Written(s).cycle = s.cycle
         /\ Written(s).accepted = s.accepted /\ Written(s).last = s.last
<1>1. /\ Written(s).kind = "scalar" /\ Written(s).trace_point = "stream_transfer"
      /\ Written(s).tensor = "y" /\ Written(s).start = s.at % Size
      /\ Written(s).values = << s.value >> /\ Written(s).meta = "m"
      /\ Written(s).sequence = s.sequence /\ Written(s).cycle = s.cycle
      /\ Written(s).accepted = s.accepted /\ Written(s).last = s.last
  BY DEF Written, EventOf
<1>2. s.at % Size \in Nat
  BY PlaceInShape, StreamAssumption DEF IsSample
<1>3. << s.value >> \in Seq(ToSet(<< s.value >>)) /\ << s.value >> # << >> /\ Len(<< s.value >>) = 1
  BY DEF ToSet
<1>4. IsEvent(Written(s))
  BY <1>1, <1>2, <1>3 DEF IsEvent
<1>5. QED
  BY <1>1, <1>4

LEMMA AppendTrace ==
  ASSUME NEW trace, trace \in Seq(ToSet(trace)), NEW e
  PROVE  /\ Append(trace, e) \in Seq(ToSet(Append(trace, e)))
         /\ Len(Append(trace, e)) = Len(trace) + 1 /\ Len(trace) \in Nat
         /\ \A i \in 1 .. Len(trace) : Append(trace, e)[i] = trace[i]
         /\ Append(trace, e)[Len(trace) + 1] = e
         /\ DOMAIN Append(trace, e) = 1 .. Len(trace) + 1 /\ DOMAIN trace = 1 .. Len(trace)
<1>1. Len(trace) \in Nat /\ DOMAIN trace = 1 .. Len(trace)
  BY LenProperties
<1>2. trace \in Seq(ToSet(trace) \cup {e})
  BY SeqMonotonic
<1>3. /\ Append(trace, e) \in Seq(ToSet(trace) \cup {e})
      /\ Len(Append(trace, e)) = Len(trace) + 1
      /\ \A i \in 1 .. Len(trace) : Append(trace, e)[i] = trace[i]
      /\ Append(trace, e)[Len(trace) + 1] = e
  BY <1>2, AppendProperties
<1> DEFINE longer == Append(trace, e)
<1>4. longer \in Seq(ToSet(trace) \cup {e}) /\ Len(longer) = Len(trace) + 1
  BY <1>3
<1> HIDE DEF longer
<1>5. DOMAIN longer = 1 .. Len(longer) /\ Len(longer) \in Nat
  BY <1>4, LenProperties
<1>6. longer = [i \in 1 .. Len(longer) |-> longer[i]]
  BY <1>4, <1>5
<1>7. \A i \in 1 .. Len(longer) : longer[i] \in ToSet(longer)
  BY <1>5 DEF ToSet
<1>8. longer \in Seq(ToSet(longer))
  BY <1>5, <1>6, <1>7, IsASeq
<1>9. QED
  BY <1>1, <1>3, <1>4, <1>5, <1>8 DEF longer

LEMMA ScalarsCompare ==
  ASSUME NEW ref, \A i \in DOMAIN ref : ref[i].kind = "scalar",
         NEW cand, \A i \in DOMAIN cand : cand[i].kind = "scalar"
  PROVE  Comparable(ref, cand) /\ WayFor(ref, cand) = "values"
<1>1. "tensor_chunk" \notin Kinds(ref) /\ "tensor_chunk" \notin Kinds(cand)
  BY DEF Kinds
<1>2. Kinds(ref) \cup Kinds(cand) # {"tensor_chunk"}
  BY <1>1
<1>3. {Kinds(ref), Kinds(cand)} # {{"scalar"}, {"tensor_chunk"}}
  <2>1. ASSUME {Kinds(ref), Kinds(cand)} = {{"scalar"}, {"tensor_chunk"}}
        PROVE  FALSE
    <3>1. {"tensor_chunk"} \in {Kinds(ref), Kinds(cand)}
      BY <2>1
    <3>2. QED
      BY <1>1, <3>1
  <2>2. QED
    BY <2>1
<1>4. WayFor(ref, cand) = "values"
  BY <1>2, <1>3 DEF WayFor
<1>5. QED
  BY <1>4 DEF Comparable

(* The stages, and what holds of a stream's trace in each.                 *)
StagesInv ==
  /\ stage \in {"stream", "inspect", "compare", "done", "rejected"}
  /\ origin \in {"capture", "preserved", "file"} /\ clock \in Nat
  /\ stage = "stream" => /\ way = "none" /\ origin # "file"
                         /\ inspected = 0 /\ expected_sequence = 0
                         /\ previous_cycle = NoValue /\ findings = {}
  /\ origin = "file" => transfers = << >>
  /\ stage = "done" => report.kind # "running"

AllAccepted == \A i \in DOMAIN candidate : candidate[i].accepted

(* The trace is the accepted samples, whenever it records nothing else.    *)
Recorded ==
  /\ Len(transfers) = Len(candidate)
  /\ \A i \in 1 .. Len(candidate) :
       IsSample(transfers[i]) /\ candidate[i] = Written(transfers[i])

StreamInv ==
  origin # "file" =>
    /\ IsStreamReference(reference)
    /\ candidate \in Seq(ToSet(candidate)) /\ transfers \in Seq(ToSet(transfers))
    /\ \A i \in DOMAIN candidate : \E s : IsSample(s) /\ candidate[i] = Written(s)
    /\ stage # "rejected" /\ AllAccepted => Recorded
    /\ origin = "capture" => AllAccepted
    /\ stage = "rejected" =>
         \/ candidate = << >>
         \/ Len(transfers) # Len(candidate)
         \/ ~LastMarksEnd

(* A break in the trace leaves a finding, and a complete trace none.       *)
RulesInv ==
  origin # "file" /\ stage \in {"inspect", "compare", "done"} =>
    /\ inspected \in 0 .. Len(candidate)
    /\ stage # "inspect" => inspected = Len(candidate)
    /\ findings = {} =>
         /\ expected_sequence = inspected
         /\ \A i \in 1 .. inspected :
              /\ candidate[i].accepted /\ candidate[i].sequence = i - 1
              /\ candidate[i].last = (i = Len(candidate))
    /\ TraceIsComplete /\ stage # "done" =>
         /\ findings = {}
         /\ previous_cycle = IF inspected = 0 THEN NoValue ELSE candidate[inspected].cycle
    /\ TraceIsComplete /\ ReferenceIsComplete /\ stage = "done" => findings = {}

ReportInv ==
  /\ stage # "done" =>
       "missing_output_transfer" \notin Rules /\ "unexpected_output_transfer" \notin Rules
  /\ FindingsAreTrue

DiagnosisInv == ComparisonInv /\ StagesInv /\ StreamInv /\ RulesInv /\ ReportInv

LEMMA NoTrace == << >> \in Seq(ToSet(<< >>)) /\ Len(<< >>) = 0 /\ DOMAIN << >> = {} /\ IsTrace(<< >>)
<1>1. << >> \in Seq(ToSet(<< >>)) /\ Len(<< >>) = 0 /\ DOMAIN << >> = {}
  BY EmptySeq
<1>2. QED
  BY <1>1 DEF IsTrace

LEMMA StartComparison ==
  ASSUME TracesCompare, way = "none", position = 0, matched_values = 0, report = Running
  PROVE  ComparisonInv
<1>1. report.kind \notin VerdictKinds /\ report.kind = "running"
  BY RunningIsNoVerdict
<1>2. VerdictIsTrue
  BY <1>1 DEF VerdictIsTrue, VerdictKinds
<1>3. LoopSoFar
  BY DEF LoopSoFar
<1>4. QED
  BY <1>2, <1>3 DEF ComparisonInv

LEMMA DiagnosisInitInv ==
  ASSUME ComparablePairs, DiagnosisInit
  PROVE  DiagnosisInv
<1>1. /\ place = 0 /\ clock = 0 /\ transfers = << >> /\ inspected = 0 /\ expected_sequence = 0
      /\ previous_cycle = NoValue /\ findings = {}
      /\ way = "none" /\ position = 0 /\ matched_values = 0 /\ report = Running
  BY DEF DiagnosisInit, ComparisonInit
<1>2. Rules = {}
  BY <1>1 DEF Rules
<1>3. ReportInv
  BY <1>2 DEF ReportInv, FindingsAreTrue
<1>4. CASE /\ reference \in References /\ candidate = << >>
           /\ stage = "stream" /\ origin \in {"capture", "preserved"}
  <2>1. IsStreamReference(reference) /\ IsTrace(reference)
    BY <1>4, StreamAssumption DEF IsStreamReference
  <2>2. /\ candidate \in Seq(ToSet(candidate)) /\ transfers \in Seq(ToSet(transfers))
        /\ Len(candidate) = 0 /\ DOMAIN candidate = {} /\ IsTrace(candidate)
    BY <1>1, <1>4, NoTrace
  <2>3. TracesCompare
    <3>1. \A i \in DOMAIN reference : reference[i].kind = "scalar"
      BY <2>1 DEF IsStreamReference
    <3>2. \A i \in DOMAIN candidate : candidate[i].kind = "scalar"
      BY <2>2
    <3>3. QED
      BY <2>1, <2>2, <3>1, <3>2, ScalarsCompare DEF TracesCompare
  <2>4. ComparisonInv
    BY <1>1, <2>3, StartComparison
  <2>5. Recorded
    BY <1>1, <1>4, <2>2 DEF Recorded
  <2>6. StreamInv
    BY <1>4, <2>1, <2>2, <2>5 DEF StreamInv, AllAccepted
  <2>7. StagesInv /\ RulesInv
    BY <1>1, <1>4 DEF StagesInv, RulesInv
  <2>8. QED
    BY <1>3, <2>4, <2>6, <2>7 DEF DiagnosisInv
<1>5. CASE ComparisonInit /\ stage = "inspect" /\ origin = "file"
  <2>1. PICK pair \in Pairs : reference = pair[1] /\ candidate = pair[2]
    BY <1>5 DEF ComparisonInit
  <2>2. TracesCompare
    BY <2>1, PairsAssumption DEF TracesCompare, ComparablePairs
  <2>3. ComparisonInv
    BY <1>1, <2>2, StartComparison
  <2>4. StagesInv /\ StreamInv /\ RulesInv
    BY <1>1, <1>5 DEF StagesInv, StreamInv, RulesInv
  <2>5. QED
    BY <1>3, <2>3, <2>4 DEF DiagnosisInv
<1>6. QED
  BY <1>4, <1>5 DEF DiagnosisInit

-----------------------------------------------------------------------------
LEMMA TraceOfSamples ==
  ASSUME NEW trace, trace \in Seq(ToSet(trace)),
         \A i \in DOMAIN trace : \E s : IsSample(s) /\ trace[i] = Written(s)
  PROVE  IsTrace(trace) /\ \A i \in DOMAIN trace : trace[i].kind = "scalar"
<1>1. ASSUME NEW i \in DOMAIN trace
      PROVE  IsEvent(trace[i]) /\ trace[i].kind = "scalar"
  <2>1. PICK s : IsSample(s) /\ trace[i] = Written(s)
    OBVIOUS
  <2>2. QED
    BY <2>1, WrittenIsEvent
<1>2. QED
  BY <1>1 DEF IsTrace

(* A sample makes the trace longer, ends the capture or is ignored.        *)
Extends(s) ==
  /\ candidate' = Append(candidate, Written(s)) /\ stage' = stage
  /\ transfers' = IF s.accepted THEN Append(transfers, s) ELSE transfers
  /\ origin = "capture" => s.accepted

Ignores == candidate' = candidate /\ stage' = stage /\ transfers' = transfers

Refuses(s) ==
  /\ candidate' = candidate /\ stage' = "rejected" /\ transfers' = Append(transfers, s)
  /\ origin = "capture"

LEMMA SampleCases ==
  ASSUME DiagnosisInv, Sample
  PROVE  /\ \E s : IsSample(s) /\ (Extends(s) \/ Ignores \/ Refuses(s))
         /\ stage = "stream" /\ origin # "file" /\ way = "none"
         /\ reference' = reference /\ way' = way /\ position' = position
         /\ matched_values' = matched_values /\ report' = report /\ origin' = origin
         /\ inspected' = inspected /\ expected_sequence' = expected_sequence
         /\ previous_cycle' = previous_cycle /\ findings' = findings
         /\ clock' \in Nat
<1>1. /\ stage = "stream" /\ origin # "file" /\ way = "none" /\ clock \in Nat
      /\ origin \in {"capture", "preserved", "file"}
  BY DEF Sample, DiagnosisInv, StagesInv
<1>2. /\ reference' = reference /\ way' = way /\ position' = position
      /\ matched_values' = matched_values /\ report' = report /\ origin' = origin
      /\ inspected' = inspected /\ expected_sequence' = expected_sequence
      /\ previous_cycle' = previous_cycle /\ findings' = findings
  BY DEF Sample, rule_vars
<1>3. clock' \in Nat
  BY <1>1 DEF Sample
<1>4. PICK s \in Samples :
        /\ IF origin = "capture" THEN Record(s) ELSE Preserve(s)
        /\ transfers' = IF s.accepted THEN Append(transfers, s) ELSE transfers
  BY DEF Sample
<1>5. IsSample(s) /\ (origin = "capture" => s.sequence = s.at)
  BY <1>1, SampleTypes
<1>6. CASE origin = "capture"
  <2>1. Record(s)
    BY <1>4, <1>6
  <2>2. CASE ~s.accepted
    <3>1. Ignores
      BY <1>4, <2>1, <2>2 DEF Record, Ignores
    <3>2. QED
      BY <1>1, <1>2, <1>3, <1>5, <3>1
  <2>3. CASE s.accepted /\ (s.sequence # Len(candidate) \/ s.sequence >= Size)
    <3>1. Refuses(s)
      BY <1>4, <1>6, <2>1, <2>3 DEF Record, Reject, Refuses
    <3>2. QED
      BY <1>1, <1>2, <1>3, <1>5, <3>1
  <2>4. CASE s.accepted /\ s.sequence = Len(candidate) /\ ~(s.sequence >= Size)
    <3>1. candidate' = Append(candidate, EventOf(s, s.sequence)) /\ stage' = stage
      BY <2>1, <2>4 DEF Record
    <3>2. s.sequence = s.at % Size
      <4>1. s.sequence = s.at /\ s.at \in 0 .. Size
        BY <1>5, <1>6 DEF IsSample
      <4>2. s.at \in 0 .. Size - 1
        BY <2>4, <4>1, StreamAssumption
      <4>3. QED
        BY <4>1, <4>2, PlaceInShape
    <3>3. Extends(s)
      BY <1>4, <2>4, <3>1, <3>2 DEF Extends, Written
    <3>4. QED
      BY <1>1, <1>2, <1>3, <1>5, <3>3
  <2>5. QED
    BY <2>2, <2>3, <2>4
<1>7. CASE origin # "capture"
  <2>1. Extends(s)
    BY <1>4, <1>7 DEF Preserve, Extends, Written
  <2>2. QED
    BY <1>1, <1>2, <1>3, <1>5, <2>1
<1>8. QED
  BY <1>6, <1>7

LEMMA SampleKeepsStream ==
  ASSUME DiagnosisInv, Sample
  PROVE  StreamInv'
<1>1. /\ stage = "stream" /\ origin # "file" /\ origin' = origin /\ reference' = reference
  BY SampleCases
<1>2. /\ IsStreamReference(reference)
      /\ candidate \in Seq(ToSet(candidate)) /\ transfers \in Seq(ToSet(transfers))
      /\ \A i \in DOMAIN candidate : \E s : IsSample(s) /\ candidate[i] = Written(s)
      /\ AllAccepted => Recorded
      /\ origin = "capture" => AllAccepted
  BY <1>1 DEF DiagnosisInv, StreamInv
<1>3. PICK s : IsSample(s) /\ (Extends(s) \/ Ignores \/ Refuses(s))
  BY SampleCases
<1>4. CASE Extends(s)
  <2>1. /\ candidate' = Append(candidate, Written(s)) /\ stage' = "stream"
        /\ transfers' = IF s.accepted THEN Append(transfers, s) ELSE transfers
        /\ origin = "capture" => s.accepted
    BY <1>1, <1>4 DEF Extends
  <2>2. /\ candidate' \in Seq(ToSet(candidate')) /\ Len(candidate') = Len(candidate) + 1
        /\ Len(candidate) \in Nat
        /\ \A i \in 1 .. Len(candidate) : candidate'[i] = candidate[i]
        /\ candidate'[Len(candidate) + 1] = Written(s)
        /\ DOMAIN candidate' = 1 .. Len(candidate) + 1 /\ DOMAIN candidate = 1 .. Len(candidate)
    BY <1>2, <2>1, AppendTrace
  <2>3. transfers' \in Seq(ToSet(transfers'))
    BY <1>2, <2>1, AppendTrace
  <2>4. \A i \in DOMAIN candidate' : \E t : IsSample(t) /\ candidate'[i] = Written(t)
    <3>1. ASSUME NEW i \in 1 .. Len(candidate) + 1
          PROVE  \E t : IsSample(t) /\ candidate'[i] = Written(t)
      <4>1. CASE i = Len(candidate) + 1
        BY <1>3, <2>2, <4>1
      <4>2. CASE i # Len(candidate) + 1
        <5>1. i \in 1 .. Len(candidate)
          BY <2>2, <4>2
        <5>2. QED
          BY <1>2, <2>2, <5>1
      <4>3. QED
        BY <4>1, <4>2
    <3>2. QED
      BY <2>2, <3>1
  <2>5. Len(candidate) + 1 \in DOMAIN candidate'
    BY <2>2
  <2>6. AllAccepted' => AllAccepted /\ s.accepted
    <3>1. ASSUME AllAccepted'
          PROVE  AllAccepted /\ s.accepted
      <4>1. candidate'[Len(candidate) + 1].accepted
        BY <2>5, <3>1 DEF AllAccepted
      <4>2. s.accepted
        BY <1>3, <2>2, <4>1, WrittenIsEvent
      <4>3. AllAccepted
        BY <2>2, <3>1 DEF AllAccepted
      <4>4. QED
        BY <4>2, <4>3
    <3>2. QED
      BY <3>1
  <2>7. AllAccepted' => Recorded'
    <3>1. ASSUME AllAccepted'
          PROVE  Recorded'
      <4>1. Recorded /\ transfers' = Append(transfers, s)
        BY <1>2, <2>1, <2>6, <3>1
      <4>2. Len(transfers) = Len(candidate) /\ Len(transfers') = Len(candidate')
        BY <1>2, <2>2, <4>1, AppendTrace DEF Recorded
      <4>3. ASSUME NEW i \in 1 .. Len(candidate) + 1
            PROVE  IsSample(transfers'[i]) /\ candidate'[i] = Written(transfers'[i])
        <5>1. CASE i = Len(candidate) + 1
          <6>1. transfers'[Len(transfers) + 1] = s
            BY <1>2, <4>1, AppendTrace
          <6>2. QED
            BY <1>3, <2>2, <4>2, <5>1, <6>1
        <5>2. CASE i # Len(candidate) + 1
          <6>1. i \in 1 .. Len(candidate) /\ i \in 1 .. Len(transfers)
            BY <2>2, <4>2, <5>2
          <6>2. transfers'[i] = transfers[i] /\ candidate'[i] = candidate[i]
            BY <1>2, <2>2, <4>1, <6>1, AppendTrace
          <6>3. QED
            BY <4>1, <6>1, <6>2 DEF Recorded
        <5>3. QED
          BY <5>1, <5>2
      <4>4. QED
        BY <2>2, <4>2, <4>3 DEF Recorded
    <3>2. QED
      BY <3>1
  <2>8. origin' = "capture" => AllAccepted'
    <3>1. ASSUME origin = "capture"
          PROVE  AllAccepted'
      <4>1. ASSUME NEW i \in 1 .. Len(candidate) + 1
            PROVE  candidate'[i].accepted
        <5>1. CASE i = Len(candidate) + 1
          BY <1>3, <2>1, <2>2, <3>1, <5>1, WrittenIsEvent
        <5>2. CASE i # Len(candidate) + 1
          <6>1. i \in 1 .. Len(candidate)
            BY <2>2, <5>2
          <6>2. QED
            BY <1>2, <2>2, <3>1, <6>1 DEF AllAccepted
        <5>3. QED
          BY <5>1, <5>2
      <4>2. QED
        BY <2>2, <4>1 DEF AllAccepted
    <3>2. QED
      BY <1>1, <3>1
  <2>9. QED
    BY <1>1, <1>2, <2>1, <2>2, <2>3, <2>4, <2>7, <2>8 DEF StreamInv
<1>5. CASE Ignores
  BY <1>1, <1>2, <1>5 DEF Ignores, StreamInv, AllAccepted, Recorded
<1>6. CASE Refuses(s)
  <2>1. candidate' = candidate /\ stage' = "rejected" /\ transfers' = Append(transfers, s) /\ origin = "capture"
    BY <1>6 DEF Refuses
  <2>2. AllAccepted /\ Len(transfers) = Len(candidate)
    BY <1>2, <2>1 DEF Recorded
  <2>3. transfers' \in Seq(ToSet(transfers')) /\ Len(transfers') = Len(transfers) + 1 /\ Len(transfers) \in Nat
    BY <1>2, <2>1, AppendTrace
  <2>4. Len(transfers') # Len(candidate')
    BY <2>1, <2>2, <2>3
  <2>5. AllAccepted'
    BY <2>1, <2>2 DEF AllAccepted
  <2>6. QED
    BY <1>1, <1>2, <2>1, <2>3, <2>4, <2>5 DEF StreamInv
<1>7. QED
  BY <1>3, <1>4, <1>5, <1>6

LEMMA SampleKeeps ==
  ASSUME DiagnosisInv, Sample
  PROVE  DiagnosisInv'
<1>1. StreamInv'
  BY SampleKeepsStream
<1>2. /\ stage = "stream" /\ origin # "file" /\ way = "none"
      /\ reference' = reference /\ way' = way /\ position' = position
      /\ matched_values' = matched_values /\ report' = report /\ origin' = origin
      /\ inspected' = inspected /\ expected_sequence' = expected_sequence
      /\ previous_cycle' = previous_cycle /\ findings' = findings
      /\ clock' \in Nat
      /\ \E s : IsSample(s) /\ (Extends(s) \/ Ignores \/ Refuses(s))
  BY SampleCases
<1>3. stage' \in {"stream", "rejected"}
  BY <1>2 DEF Extends, Ignores, Refuses
<1>4. StagesInv'
  BY <1>2, <1>3 DEF DiagnosisInv, StagesInv
<1>5. ComparisonInv'
  <2>1. position = 0 /\ matched_values = 0 /\ report = Running
    BY <1>2 DEF DiagnosisInv, ComparisonInv, LoopSoFar
  <2>2. /\ IsStreamReference(reference)
        /\ candidate' \in Seq(ToSet(candidate'))
        /\ \A i \in DOMAIN candidate' : \E s : IsSample(s) /\ candidate'[i] = Written(s)
    BY <1>1, <1>2 DEF StreamInv
  <2>3. IsTrace(candidate') /\ \A i \in DOMAIN candidate' : candidate'[i].kind = "scalar"
    BY <2>2, TraceOfSamples
  <2>4. IsTrace(reference) /\ \A i \in DOMAIN reference : reference[i].kind = "scalar"
    BY <2>2 DEF IsStreamReference
  <2>5. Comparable(reference, candidate')
    BY <2>3, <2>4, ScalarsCompare
  <2>6. TracesCompare'
    BY <1>2, <2>3, <2>4, <2>5 DEF TracesCompare
  <2>7. VerdictIsTrue'
    <3>1. report'.kind \notin VerdictKinds /\ report' = Running
      BY <1>2, <2>1, RunningIsNoVerdict
    <3>2. QED
      BY <3>1 DEF VerdictIsTrue, VerdictKinds
  <2>8. LoopSoFar'
    BY <1>2, <2>1 DEF LoopSoFar
  <2>9. QED
    BY <2>6, <2>7, <2>8 DEF ComparisonInv
<1>6. RulesInv'
  BY <1>3 DEF RulesInv
<1>7. ReportInv'
  <2>1. Rules' = {}
    BY <1>2 DEF DiagnosisInv, StagesInv, Rules
  <2>2. QED
    BY <2>1 DEF ReportInv, FindingsAreTrue
<1>8. QED
  BY <1>1, <1>4, <1>5, <1>6, <1>7 DEF DiagnosisInv

LEMMA NoOutputRules ==
  ASSUME "missing_output_transfer" \notin Rules, "unexpected_output_transfer" \notin Rules
  PROVE  ReportInv
BY DEF ReportInv, FindingsAreTrue

LEMMA WriteKeeps ==
  ASSUME DiagnosisInv, Write
  PROVE  DiagnosisInv'
<1>1. /\ stage = "stream"
      /\ stage' = IF candidate = << >> \/ (origin = "capture" /\ ~LastMarksEnd) THEN "rejected" ELSE "inspect"
      /\ UNCHANGED comparison_vars /\ UNCHANGED stream_vars /\ UNCHANGED rule_vars
  BY DEF Write
<1>2. /\ reference' = reference /\ candidate' = candidate /\ way' = way /\ report' = report
      /\ origin' = origin /\ clock' = clock /\ transfers' = transfers
      /\ inspected' = inspected /\ expected_sequence' = expected_sequence
      /\ previous_cycle' = previous_cycle /\ findings' = findings
  BY <1>1 DEF comparison_vars, stream_vars, rule_vars
<1>3. /\ origin # "file" /\ way = "none" /\ inspected = 0 /\ expected_sequence = 0
      /\ previous_cycle = NoValue /\ findings = {}
  BY <1>1 DEF DiagnosisInv, StagesInv
<1>4. ComparisonInv'
  BY <1>1, ComparisonStutters DEF DiagnosisInv
<1>5. StagesInv'
  BY <1>1, <1>2 DEF DiagnosisInv, StagesInv
<1>6. StreamInv'
  BY <1>1, <1>2 DEF DiagnosisInv, StreamInv, AllAccepted, Recorded, LastMarksEnd
<1>7. RulesInv'
  <2>1. Len(candidate) \in Nat
    BY <1>3, LenProperties DEF DiagnosisInv, StreamInv
  <2>2. stage' = "inspect" \/ stage' = "rejected"
    BY <1>1
  <2>3. QED
    BY <1>2, <1>3, <2>1, <2>2 DEF RulesInv
<1>8. ReportInv'
  <2>1. Rules' = {}
    BY <1>2, <1>3 DEF Rules
  <2>2. QED
    BY <2>1 DEF ReportInv, FindingsAreTrue
<1>9. QED
  BY <1>4, <1>5, <1>6, <1>7, <1>8 DEF DiagnosisInv

(* The rules one event breaks.                                             *)
BrokenBy(event, final) ==
  HandshakeRules(event) \cup SequenceRules(event) \cup CycleRules(event) \cup LastRules(event, final)

LEMMA RulesOfEvents ==
  ASSUME NEW event, NEW final
  PROVE  /\ "missing_output_transfer" \notin BrokenBy(event, final)
         /\ "unexpected_output_transfer" \notin BrokenBy(event, final)
<1>1. HandshakeRules(event) \subseteq {"unaccepted_transfer_recorded"}
  BY DEF HandshakeRules
<1>2. SequenceRules(event) \subseteq {"missing_sequence_metadata", "transfer_sequence_discontinuity"}
  BY DEF SequenceRules
<1>3. CycleRules(event) \subseteq {"missing_cycle_metadata", "non_monotonic_transfer_cycle"}
  BY DEF CycleRules
<1>4. LastRules(event, final) \subseteq {"missing_tlast_metadata", "early_tlast", "missing_final_tlast"}
  BY DEF LastRules
<1>5. QED
  BY <1>1, <1>2, <1>3, <1>4 DEF BrokenBy

(* The least event left is the next one.                                   *)
LEMMA NextEvent ==
  ASSUME DiagnosisInv, InspectEvent
  PROVE  \E i \in events_left :
           LET rules == BrokenBy(candidate[i], events_left = {i})
           IN  /\ \A j \in events_left : i <= j
               /\ \E tag : findings' = findings \cup (rules \X {tag})
               /\ expected_sequence' = SequenceAfter(candidate[i])
               /\ previous_cycle' = IF candidate[i].cycle = NoValue THEN previous_cycle
                                    ELSE candidate[i].cycle
               /\ inspected' = i
BY DEF InspectEvent, LeastOf, BrokenBy

LEMMA StreamEvents ==
  ASSUME StreamInv, origin # "file", inspected \in 0 .. Len(candidate)
  PROVE  events_left = inspected + 1 .. Len(candidate) /\ Len(candidate) \in Nat
<1>1. Len(candidate) \in Nat /\ DOMAIN candidate = 1 .. Len(candidate)
  BY LenProperties DEF StreamInv
<1>2. ASSUME NEW i \in DOMAIN candidate
      PROVE  candidate[i].trace_point = "stream_transfer"
  <2>1. PICK s : IsSample(s) /\ candidate[i] = Written(s)
    BY DEF StreamInv
  <2>2. QED
    BY <2>1, WrittenIsEvent
<1>3. events_left = {i \in 1 .. Len(candidate) : i > inspected}
  BY <1>1, <1>2 DEF events_left, stream_events
<1>4. QED
  BY <1>1, <1>3

LEMMA InspectKeepsRules ==
  ASSUME DiagnosisInv, InspectEvent, origin # "file"
  PROVE  RulesInv'
<1>1. /\ stage = "inspect" /\ UNCHANGED comparison_vars /\ stage' = stage /\ UNCHANGED stream_vars
  BY DEF InspectEvent
<1>2. /\ reference' = reference /\ candidate' = candidate /\ origin' = origin
  BY <1>1 DEF comparison_vars, stream_vars
<1>3. /\ inspected \in 0 .. Len(candidate)
      /\ findings = {} =>
           /\ expected_sequence = inspected
           /\ \A i \in 1 .. inspected :
                /\ candidate[i].accepted /\ candidate[i].sequence = i - 1
                /\ candidate[i].last = (i = Len(candidate))
      /\ TraceIsComplete =>
           /\ findings = {}
           /\ previous_cycle = IF inspected = 0 THEN NoValue ELSE candidate[inspected].cycle
  BY <1>1 DEF DiagnosisInv, RulesInv
<1>4. events_left = inspected + 1 .. Len(candidate) /\ Len(candidate) \in Nat
  BY <1>3, StreamEvents DEF DiagnosisInv
<1>5. PICK i \in events_left :
           LET rules == BrokenBy(candidate[i], events_left = {i})
           IN  /\ \A j \in events_left : i <= j
               /\ \E tag : findings' = findings \cup (rules \X {tag})
               /\ expected_sequence' = SequenceAfter(candidate[i])
               /\ previous_cycle' = IF candidate[i].cycle = NoValue THEN previous_cycle
                                    ELSE candidate[i].cycle
               /\ inspected' = i
  BY NextEvent
<1> DEFINE event == candidate[i]
           final == (events_left = {i})
           rules == BrokenBy(event, final)
<1>6. i = inspected + 1 /\ i \in 1 .. Len(candidate) /\ inspected' = i
  <2>1. inspected + 1 \in events_left
    BY <1>3, <1>4
  <2>2. i <= inspected + 1
    BY <1>5, <2>1
  <2>3. QED
    BY <1>3, <1>4, <1>5, <2>2
<1>7. final <=> i = Len(candidate)
  <2>1. events_left = i .. Len(candidate)
    BY <1>4, <1>6
  <2>2. QED
    BY <1>4, <1>6, <2>1
<1>8. findings' = {} => findings = {} /\ rules = {}
  <2>1. PICK tag : findings' = findings \cup (rules \X {tag})
    BY <1>5
  <2> HIDE DEF rules
  <2>2. \A rule \in rules : << rule, tag >> \in rules \X {tag}
    OBVIOUS
  <2>3. \A rule \in rules : << rule, tag >> \in findings'
    BY <2>1, <2>2
  <2>4. findings \subseteq findings'
    BY <2>1
  <2>5. QED
    BY <2>3, <2>4
<1>9. rules = {} => /\ event.accepted /\ event.sequence # NoValue /\ event.sequence = expected_sequence
                    /\ event.last = final
  BY DEF BrokenBy, HandshakeRules, SequenceRules, LastRules
<1>10. event.last \in BOOLEAN \cup {NoValue} /\ event.cycle \in Nat \cup {NoValue} /\ event.accepted \in BOOLEAN
  <2>1. i \in DOMAIN candidate
    BY <1>6, LenProperties DEF DiagnosisInv, StreamInv
  <2>2. PICK s : IsSample(s) /\ candidate[i] = Written(s)
    BY <2>1 DEF DiagnosisInv, StreamInv
  <2>3. QED
    BY <2>2, WrittenIsEvent DEF IsSample
<1>11. findings' = {} =>
         /\ expected_sequence' = i
         /\ \A j \in 1 .. i :
              /\ candidate[j].accepted /\ candidate[j].sequence = j - 1
              /\ candidate[j].last = (j = Len(candidate))
  <2>1. SUFFICES ASSUME findings' = {}
                 PROVE  /\ expected_sequence' = i
                        /\ \A j \in 1 .. i :
                             /\ candidate[j].accepted /\ candidate[j].sequence = j - 1
                             /\ candidate[j].last = (j = Len(candidate))
    OBVIOUS
  <2>2. findings = {} /\ rules = {}
    BY <1>8, <2>1
  <2>3. expected_sequence = inspected /\ event.sequence = inspected
    BY <1>3, <1>9, <2>2
  <2>4. expected_sequence' = inspected + 1
    BY <1>5, <1>9, <2>2, <2>3 DEF SequenceAfter
  <2>5. ASSUME NEW j \in 1 .. i
        PROVE  /\ candidate[j].accepted /\ candidate[j].sequence = j - 1
               /\ candidate[j].last = (j = Len(candidate))
    <3>1. CASE j = i
      <4>1. event.last = (i = Len(candidate))
        BY <1>7, <1>9, <2>2
      <4>2. event.accepted /\ event.sequence = i - 1
        BY <1>3, <1>6, <1>9, <2>2, <2>3
      <4>3. QED
        BY <3>1, <4>1, <4>2
    <3>2. CASE j # i
      <4>1. j \in 1 .. inspected
        BY <1>3, <1>6, <3>2
      <4>2. QED
        BY <1>3, <2>2, <4>1
    <3>3. QED
      BY <3>1, <3>2
  <2>6. QED
    BY <1>6, <2>4, <2>5
<1>12. ASSUME TraceIsComplete
       PROVE  findings' = {} /\ previous_cycle' = candidate[i].cycle
  <2>1. /\ event.sequence = i - 1 /\ event.accepted /\ event.last = (i = Size)
        /\ event.cycle # NoValue /\ Len(candidate) = Size
        /\ i \in 2 .. Size => event.cycle > candidate[i - 1].cycle
    BY <1>6, <1>12 DEF TraceIsComplete
  <2>2. /\ findings = {} /\ expected_sequence = i - 1
        /\ previous_cycle = IF inspected = 0 THEN NoValue ELSE candidate[inspected].cycle
    BY <1>3, <1>6, <1>12
  <2>3. HandshakeRules(event) = {}
    BY <2>1 DEF HandshakeRules
  <2>4. SequenceRules(event) = {}
    <3>1. event.sequence \in Nat /\ event.sequence # NoValue
      BY <1>4, <1>6, <2>1, StreamAssumption
    <3>2. QED
      BY <2>1, <2>2, <3>1 DEF SequenceRules
  <2>5. CycleRules(event) = {}
    <3>1. CASE previous_cycle = NoValue
      BY <2>1, <3>1 DEF CycleRules
    <3>2. CASE previous_cycle # NoValue
      <4>1. inspected # 0 /\ i - 1 = inspected /\ i \in 2 .. Size
        BY <1>3, <1>6, <2>1, <2>2, <3>2
      <4>2. event.cycle > candidate[inspected].cycle /\ previous_cycle = candidate[inspected].cycle
        BY <2>1, <2>2, <4>1
      <4>3. inspected \in DOMAIN candidate
        BY <1>3, <4>1, LenProperties DEF DiagnosisInv, StreamInv
      <4>4. PICK s : IsSample(s) /\ candidate[inspected] = Written(s)
        BY <4>3 DEF DiagnosisInv, StreamInv
      <4>5. candidate[inspected].cycle \in Nat \cup {NoValue}
        BY <4>4, WrittenIsEvent DEF IsSample
      <4>6. event.cycle \in Nat /\ previous_cycle \in Nat
        BY <1>10, <2>1, <3>2, <4>2, <4>5
      <4>7. ~(event.cycle <= previous_cycle)
        <5> HIDE DEF event
        <5>1. QED
          BY <4>2, <4>6
      <4>8. QED
        BY <2>1, <4>7 DEF CycleRules
    <3>3. QED
      BY <3>1, <3>2
  <2>6. LastRules(event, final) = {}
    <3>1. event.last = final
      BY <1>7, <2>1
    <3>2. event.last # NoValue
      BY <2>1, StreamAssumption
    <3>3. QED
      BY <3>1, <3>2 DEF LastRules
  <2>7. rules = {}
    BY <2>3, <2>4, <2>5, <2>6 DEF BrokenBy
  <2>8. findings' = {}
    <3>1. PICK tag : findings' = findings \cup (rules \X {tag})
      BY <1>5
    <3> HIDE DEF rules
    <3>2. QED
      BY <2>2, <2>7, <3>1
  <2>9. QED
    BY <1>5, <2>1, <2>8
<1>13. TraceIsComplete' <=> TraceIsComplete
  BY <1>2 DEF TraceIsComplete
<1>14. QED
  BY <1>1, <1>2, <1>4, <1>6, <1>11, <1>12, <1>13 DEF RulesInv

LEMMA InspectKeeps ==
  ASSUME DiagnosisInv, InspectEvent
  PROVE  DiagnosisInv'
<1>1. /\ stage = "inspect" /\ UNCHANGED comparison_vars /\ stage' = stage /\ UNCHANGED stream_vars
  BY DEF InspectEvent
<1>2. /\ reference' = reference /\ candidate' = candidate /\ way' = way /\ report' = report
      /\ origin' = origin /\ clock' = clock /\ transfers' = transfers
  BY <1>1 DEF comparison_vars, stream_vars
<1>3. ComparisonInv'
  BY <1>1, ComparisonStutters DEF DiagnosisInv
<1>4. StagesInv'
  BY <1>1, <1>2 DEF DiagnosisInv, StagesInv
<1>5. StreamInv'
  BY <1>1, <1>2 DEF DiagnosisInv, StreamInv, AllAccepted, Recorded, LastMarksEnd
<1>6. RulesInv'
  <2>1. CASE origin = "file"
    BY <1>2, <2>1 DEF RulesInv
  <2>2. CASE origin # "file"
    BY <2>2, InspectKeepsRules
  <2>3. QED
    BY <2>1, <2>2
<1>7. ReportInv'
  <2>1. PICK i \in events_left :
          \E tag : findings' = findings \cup (BrokenBy(candidate[i], events_left = {i}) \X {tag})
    BY NextEvent
  <2>1a. PICK tag :
           findings' = findings \cup (BrokenBy(candidate[i], events_left = {i}) \X {tag})
    BY <2>1
  <2> DEFINE rules == BrokenBy(candidate[i], events_left = {i})
  <2>2. "missing_output_transfer" \notin rules /\ "unexpected_output_transfer" \notin rules
    BY RulesOfEvents
  <2>3. "missing_output_transfer" \notin Rules /\ "unexpected_output_transfer" \notin Rules
    BY <1>1 DEF DiagnosisInv, ReportInv
  <2> HIDE DEF rules
  <2>4. \A f \in rules \X {tag} : f[1] \in rules
    OBVIOUS
  <2>5. \A f \in findings' : f \in findings \/ f[1] \in rules
    BY <2>1a, <2>4 DEF rules
  <2>6. Rules' \subseteq Rules \cup rules
    BY <2>5 DEF Rules
  <2>7. "missing_output_transfer" \notin Rules' /\ "unexpected_output_transfer" \notin Rules'
    BY <2>2, <2>3, <2>6
  <2>8. QED
    BY <2>7 DEF ReportInv, FindingsAreTrue
<1>8. QED
  BY <1>3, <1>4, <1>5, <1>6, <1>7 DEF DiagnosisInv

-----------------------------------------------------------------------------
(* The keys of a trace, and what a verdict says of them.                   *)
LEMMA KeyIsThere ==
  ASSUME NEW trace, IsTrace(trace), NEW key
  PROVE  key \in KeysOf(trace) <=> With(AllValues(trace), key) # {}
<1> DEFINE E == AllValues(trace)
<1>1. DOMAIN E \in SUBSET Nat
  <2>1. DOMAIN E = 1 .. TotalValues(trace)
    BY TracePlaces
  <2>2. QED
    BY <2>1
<1>2. key \in KeysOf(trace) <=> \E i \in DOMAIN E : E[i].key = key
  BY DEF KeysOf
<1> HIDE DEF E
<1>3. (\E i \in DOMAIN E : E[i].key = key) <=> With(E, key) # {}
  BY <1>1, WithFinds
<1>4. QED
  BY <1>2, <1>3 DEF E

LEMMA FirstHasKey ==
  ASSUME NEW ref, IsTrace(ref), NEW cand, IsTrace(cand), NEW said, NEW matched,
         IsFirst(said, matched, ref, cand)
  PROVE  \E key \in KeysOf(ref) \cup KeysOf(cand) : KindOf(ref, cand, key) = said.kind
<1> DEFINE both == AllValues(ref) \o AllValues(cand)
<1>1. /\ TotalValues(ref) \in Nat /\ TotalValues(cand) \in Nat
      /\ DOMAIN both = 1 .. TotalValues(ref) + TotalValues(cand)
      /\ \A i \in 1 .. TotalValues(ref) + TotalValues(cand) :
           both[i] = IF i <= TotalValues(ref) THEN AllValues(ref)[i]
                     ELSE AllValues(cand)[i - TotalValues(ref)]
  BY BothValues
<1>2. PICK i \in DOMAIN both : KindOf(ref, cand, both[i].key) = said.kind
  BY DEF IsFirst
<1> HIDE DEF both
<1>3. DOMAIN AllValues(ref) = 1 .. TotalValues(ref) /\ DOMAIN AllValues(cand) = 1 .. TotalValues(cand)
  BY TracePlaces
<1>4. CASE i <= TotalValues(ref)
  <2>1. i \in DOMAIN AllValues(ref) /\ both[i] = AllValues(ref)[i]
    BY <1>1, <1>3, <1>4
  <2>2. both[i].key \in KeysOf(ref)
    BY <2>1 DEF KeysOf
  <2>3. QED
    BY <1>2, <2>2
<1>5. CASE ~(i <= TotalValues(ref))
  <2>1. i - TotalValues(ref) \in DOMAIN AllValues(cand) /\ both[i] = AllValues(cand)[i - TotalValues(ref)]
    BY <1>1, <1>3, <1>5
  <2>2. both[i].key \in KeysOf(cand)
    BY <2>1 DEF KeysOf
  <2>3. QED
    BY <1>2, <2>2
<1>6. QED
  BY <1>4, <1>5

LEMMA SidesOfKinds ==
  ASSUME NEW S, NEW T
  PROVE  /\ CompareMetadataFirst(S, T) = "missing_candidate_value" => S # {} /\ T = {}
         /\ CompareMetadataFirst(S, T) = "unexpected_candidate_value" => S = {}
BY DEF CompareMetadataFirst

LEMMA OutputVerdicts ==
  ASSUME ComparisonInv
  PROVE  /\ report.kind = "missing_candidate_value" =>
              \E key \in KeysOf(reference) : key \notin KeysOf(candidate)
         /\ report.kind = "unexpected_candidate_value" =>
              \E key \in KeysOf(candidate) : key \notin KeysOf(reference)
<1>1. IsTrace(reference) /\ IsTrace(candidate)
  BY DEF ComparisonInv, TracesCompare
<1>2. ASSUME report.kind \in {"missing_candidate_value", "unexpected_candidate_value"}
      PROVE  \E key \in KeysOf(reference) \cup KeysOf(candidate) :
               KindOf(reference, candidate, key) = report.kind
  <2>1. report.kind \in DivergenceKinds
    BY <1>2 DEF DivergenceKinds
  <2>2. IsFirst(report, matched_values, reference, candidate)
    BY <2>1 DEF ComparisonInv, VerdictIsTrue
  <2>3. QED
    BY <1>1, <2>2, FirstHasKey
<1>3. ASSUME report.kind = "missing_candidate_value"
      PROVE  \E key \in KeysOf(reference) : key \notin KeysOf(candidate)
  <2>1. PICK key \in KeysOf(reference) \cup KeysOf(candidate) :
               KindOf(reference, candidate, key) = "missing_candidate_value"
    BY <1>2, <1>3
  <2>2. With(AllValues(candidate), key) = {}
    BY <2>1, SidesOfKinds DEF KindOf
  <2>3. key \notin KeysOf(candidate)
    BY <1>1, <2>2, KeyIsThere
  <2>4. QED
    BY <2>1, <2>3
<1>4. ASSUME report.kind = "unexpected_candidate_value"
      PROVE  \E key \in KeysOf(candidate) : key \notin KeysOf(reference)
  <2>1. PICK key \in KeysOf(reference) \cup KeysOf(candidate) :
               KindOf(reference, candidate, key) = "unexpected_candidate_value"
    BY <1>2, <1>4
  <2>2. With(AllValues(reference), key) = {}
    BY <2>1, SidesOfKinds DEF KindOf
  <2>3. key \notin KeysOf(reference)
    BY <1>1, <2>2, KeyIsThere
  <2>4. QED
    BY <2>1, <2>3
<1>5. QED
  BY <1>3, <1>4

(* The values of a trace of scalars of one tensor.                         *)
LEMMA ScalarTraceValues ==
  ASSUME NEW trace, IsTrace(trace), \A i \in DOMAIN trace : trace[i].kind = "scalar"
  PROVE  /\ TotalValues(trace) = Len(trace) /\ Len(trace) \in Nat
         /\ DOMAIN trace = 1 .. Len(trace) /\ DOMAIN AllValues(trace) = 1 .. Len(trace)
         /\ \A i \in 1 .. Len(trace) :
              AllValues(trace)[i] = [key   |-> [tensor |-> trace[i].tensor, coordinate |-> trace[i].start],
                                     value |-> trace[i].values[1],
                                     meta  |-> trace[i].meta]
<1>1. /\ Len(trace) \in Nat /\ DOMAIN trace = 1 .. Len(trace)
      /\ TotalValues(trace) = Len(trace) /\ DOMAIN AllValues(trace) = 1 .. Len(trace)
  BY TracePlaces, ScalarPlaces
<1>2. ASSUME NEW i \in 1 .. Len(trace)
      PROVE  AllValues(trace)[i] = [key   |-> [tensor |-> trace[i].tensor, coordinate |-> trace[i].start],
                                    value |-> trace[i].values[1],
                                    meta  |-> trace[i].meta]
  <2>1. AllValues(trace)[i] = AlignedValue(trace[i], 0)
    BY ScalarPlaces DEF first_value
  <2>2. trace[i].start + 0 = trace[i].start /\ 0 + 1 = 1
    BY <1>1 DEF IsTrace, IsEvent
  <2>3. QED
    BY <2>1, <2>2 DEF AlignedValue
<1>3. QED
  BY <1>1, <1>2

(* The values a stream's traces hold.                                      *)
StreamValue(coordinate, value) ==
  [key |-> [tensor |-> "y", coordinate |-> coordinate], value |-> value, meta |-> "m"]

LEMMA StreamTraces ==
  ASSUME DiagnosisInv, origin # "file"
  PROVE  /\ IsTrace(reference) /\ IsTrace(candidate) /\ WayFor(reference, candidate) = "values"
         /\ TotalValues(reference) = Len(reference) /\ Len(reference) \in Nat
         /\ DOMAIN AllValues(reference) = 1 .. Len(reference)
         /\ \A i \in 1 .. Len(reference) : AllValues(reference)[i] = StreamValue(i - 1, 0)
         /\ TotalValues(candidate) = Len(candidate) /\ Len(candidate) \in Nat
         /\ DOMAIN candidate = 1 .. Len(candidate)
         /\ DOMAIN AllValues(candidate) = 1 .. Len(candidate)
         /\ \A i \in 1 .. Len(candidate) :
              AllValues(candidate)[i] = StreamValue(candidate[i].start, candidate[i].values[1])
<1>1. /\ IsStreamReference(reference) /\ candidate \in Seq(ToSet(candidate))
      /\ \A i \in DOMAIN candidate : \E s : IsSample(s) /\ candidate[i] = Written(s)
  BY DEF DiagnosisInv, StreamInv
<1>2. /\ IsTrace(candidate) /\ \A i \in DOMAIN candidate : candidate[i].kind = "scalar"
  BY <1>1, TraceOfSamples
<1>3. IsTrace(reference) /\ \A i \in DOMAIN reference : reference[i].kind = "scalar"
  BY <1>1 DEF IsStreamReference
<1>4. WayFor(reference, candidate) = "values"
  BY <1>2, <1>3, ScalarsCompare
<1>5. /\ TotalValues(reference) = Len(reference) /\ Len(reference) \in Nat
      /\ DOMAIN reference = 1 .. Len(reference) /\ DOMAIN AllValues(reference) = 1 .. Len(reference)
      /\ \A i \in 1 .. Len(reference) :
           AllValues(reference)[i] = [key   |-> [tensor |-> reference[i].tensor, coordinate |-> reference[i].start],
                                      value |-> reference[i].values[1],
                                      meta  |-> reference[i].meta]
  BY <1>3, ScalarTraceValues
<1>6. /\ TotalValues(candidate) = Len(candidate) /\ Len(candidate) \in Nat
      /\ DOMAIN candidate = 1 .. Len(candidate) /\ DOMAIN AllValues(candidate) = 1 .. Len(candidate)
      /\ \A i \in 1 .. Len(candidate) :
           AllValues(candidate)[i] = [key   |-> [tensor |-> candidate[i].tensor, coordinate |-> candidate[i].start],
                                      value |-> candidate[i].values[1],
                                      meta  |-> candidate[i].meta]
  BY <1>2, ScalarTraceValues
<1>7. ASSUME NEW i \in 1 .. Len(reference)
      PROVE  AllValues(reference)[i] = StreamValue(i - 1, 0)
  <2>1. reference[i].tensor = "y" /\ reference[i].meta = "m" /\ reference[i].start = i - 1 /\ reference[i].values = << 0 >>
    BY <1>1, <1>5 DEF IsStreamReference
  <2>2. QED
    BY <1>5, <2>1 DEF StreamValue
<1>8. ASSUME NEW i \in 1 .. Len(candidate)
      PROVE  AllValues(candidate)[i] = StreamValue(candidate[i].start, candidate[i].values[1])
  <2>1. PICK s : IsSample(s) /\ candidate[i] = Written(s)
    BY <1>1, <1>6
  <2>2. candidate[i].tensor = "y" /\ candidate[i].meta = "m"
    BY <2>1, WrittenIsEvent
  <2>3. QED
    BY <1>6, <2>2 DEF StreamValue
<1>9. QED
  BY <1>2, <1>3, <1>4, <1>5, <1>6, <1>7, <1>8

LEMMA StreamValueFields ==
  ASSUME NEW c, NEW v, NEW d, NEW w
  PROVE  /\ StreamValue(c, v).key.coordinate = c /\ StreamValue(c, v).value = v /\ StreamValue(c, v).meta = "m"
         /\ StreamValue(c, v).key = StreamValue(d, w).key <=> c = d
<1>1. StreamValue(c, v).key = [tensor |-> "y", coordinate |-> c] /\ StreamValue(d, w).key = [tensor |-> "y", coordinate |-> d]
  BY DEF StreamValue
<1>2. StreamValue(c, v).key.coordinate = c /\ StreamValue(d, w).key.coordinate = d
  BY <1>1
<1>3. StreamValue(c, v).value = v /\ StreamValue(c, v).meta = "m"
  BY DEF StreamValue
<1>4. c = d => StreamValue(c, v).key = StreamValue(d, w).key
  BY <1>1
<1>5. QED
  BY <1>2, <1>3, <1>4

(* A complete trace: the comparison can only find wrong values.            *)
LEMMA CompleteVerdict ==
  ASSUME DiagnosisInv, origin # "file", TraceIsComplete, ReferenceIsComplete, report.kind # "running"
  PROVE  /\ report.kind \notin {"alignment_error", "missing_candidate_value", "unexpected_candidate_value"}
         /\ (\A i \in DOMAIN candidate : candidate[i].values = << 0 >>) <=> report.kind = "match"
<1> DEFINE E == AllValues(reference)
           A == AllValues(candidate)
<1>1. /\ IsTrace(reference) /\ IsTrace(candidate) /\ WayFor(reference, candidate) = "values"
      /\ TotalValues(reference) = Len(reference) /\ Len(reference) \in Nat
      /\ DOMAIN E = 1 .. Len(reference)
      /\ \A i \in 1 .. Len(reference) : E[i] = StreamValue(i - 1, 0)
      /\ DOMAIN candidate = 1 .. Len(candidate)
      /\ DOMAIN A = 1 .. Len(candidate)
      /\ \A i \in 1 .. Len(candidate) : A[i] = StreamValue(candidate[i].start, candidate[i].values[1])
  BY StreamTraces
<1>2. Len(reference) = Size /\ Len(candidate) = Size /\ \A i \in 1 .. Size : candidate[i].start = i - 1
  BY <1>1 DEF ReferenceIsComplete, TraceIsComplete
<1> HIDE DEF E, A
<1>3. /\ DOMAIN E = 1 .. Size /\ DOMAIN A = 1 .. Size
      /\ \A i \in 1 .. Size : E[i] = StreamValue(i - 1, 0)
      /\ \A i \in 1 .. Size : A[i] = StreamValue(i - 1, candidate[i].values[1])
      /\ DOMAIN candidate = 1 .. Size
  BY <1>1, <1>2
<1>4. \A i, j \in 1 .. Size : i - 1 = j - 1 => i = j
  BY StreamAssumption
<1>5. ~HasDuplicate(E) /\ ~HasDuplicate(A)
  <2>1. ASSUME NEW i \in 1 .. Size, NEW j \in 1 .. Size
        PROVE  (E[i].key = E[j].key => i = j) /\ (A[i].key = A[j].key => i = j)
    BY <1>3, <1>4, StreamValueFields
  <2>2. QED
    BY <1>3, <2>1 DEF HasDuplicate
<1>6. \A i \in 1 .. Size : E[i].key = A[i].key
  BY <1>3, StreamValueFields
<1>7. ASSUME NEW key \in KeysOf(reference) \cup KeysOf(candidate)
      PROVE  /\ key \in KeysOf(reference) /\ key \in KeysOf(candidate)
             /\ \E i \in 1 .. Size : key = E[i].key
  <2>1. PICK i \in 1 .. Size : key = E[i].key /\ key = A[i].key
    BY <1>3, <1>6 DEF KeysOf, E, A
  <2>2. QED
    BY <1>3, <2>1 DEF KeysOf, E, A
<1>8. report # Running /\ report.kind \in VerdictKinds
  BY RunningIsNoVerdict DEF DiagnosisInv, ComparisonInv, VerdictIsTrue
<1>9. way = "values"
  BY <1>1, <1>8 DEF DiagnosisInv, ComparisonInv, LoopSoFar
<1>10. report.kind # "alignment_error"
  BY <1>5, <1>9 DEF DiagnosisInv, ComparisonInv, VerdictIsTrue, E, A
<1>11. report.kind \notin {"missing_candidate_value", "unexpected_candidate_value"}
  <2>1. ComparisonInv
    BY DEF DiagnosisInv
  <2>2. QED
    BY <1>7, <2>1, OutputVerdicts
<1>12. ASSUME report.kind = "match", NEW i \in DOMAIN candidate
       PROVE  candidate[i].values = << 0 >>
  <2>1. ToSet(E) = ToSet(A)
    BY <1>12 DEF DiagnosisInv, ComparisonInv, VerdictIsTrue, IsMatch, E, A
  <2>2. i \in 1 .. Size /\ A[i] \in ToSet(E)
    BY <1>3, <1>12, <2>1 DEF ToSet
  <2>3. PICK j \in 1 .. Size : E[j] = A[i]
    BY <1>3, <2>2 DEF ToSet
  <2>4. candidate[i].values[1] = 0
    <3>1. E[j].value = 0 /\ A[i].value = candidate[i].values[1]
      BY <1>3, <2>2, StreamValueFields
    <3>2. QED
      BY <2>3, <3>1
  <2>5. PICK s : IsSample(s) /\ candidate[i] = Written(s)
    BY <1>12 DEF DiagnosisInv, StreamInv
  <2>6. candidate[i].values = << s.value >>
    BY <2>5, WrittenIsEvent
  <2>7. QED
    BY <2>4, <2>6
<1>13. ASSUME \A i \in DOMAIN candidate : candidate[i].values = << 0 >>, report.kind # "match"
       PROVE  FALSE
  <2>1. report.kind \in DivergenceKinds
    BY <1>8, <1>10, <1>13 DEF VerdictKinds
  <2>2. IsFirst(report, matched_values, reference, candidate)
    BY <2>1 DEF DiagnosisInv, ComparisonInv, VerdictIsTrue
  <2>3. PICK key \in KeysOf(reference) \cup KeysOf(candidate) :
               KindOf(reference, candidate, key) = report.kind
    BY <1>1, <2>2, FirstHasKey
  <2>4. PICK i \in 1 .. Size : key = E[i].key
    BY <1>7
  <2>5. E[i] = A[i]
    BY <1>3, <1>13
  <2>6. With(E, E[i].key) = {E[i]} /\ With(A, A[i].key) = {A[i]}
    <3>1. /\ DOMAIN E \in SUBSET Nat /\ DOMAIN A \in SUBSET Nat
          /\ i \in DOMAIN E /\ i \in DOMAIN A
      BY <1>3
    <3>2. QED
      BY <1>5, <3>1, WithIsOnly
  <2>7. KindOf(reference, candidate, key) = CompareMetadataFirst({E[i]}, {E[i]})
    BY <2>4, <2>5, <2>6 DEF KindOf, E, A
  <2>8. CompareMetadataFirst({E[i]}, {E[i]}) = "equal"
    BY KindOfSides
  <2>9. QED
    BY <2>1, <2>3, <2>7, <2>8 DEF DivergenceKinds
<1>14. QED
  BY <1>10, <1>11, <1>12, <1>13

-----------------------------------------------------------------------------
LEMMA BeginKeeps ==
  ASSUME DiagnosisInv, BeginComparison
  PROVE  DiagnosisInv'
<1>1. /\ stage = "inspect" /\ stage' = "compare" /\ events_left = {}
      /\ UNCHANGED comparison_vars /\ UNCHANGED stream_vars /\ UNCHANGED rule_vars
  BY DEF BeginComparison
<1>2. /\ reference' = reference /\ candidate' = candidate /\ way' = way /\ report' = report
      /\ origin' = origin /\ clock' = clock /\ transfers' = transfers
      /\ inspected' = inspected /\ expected_sequence' = expected_sequence
      /\ previous_cycle' = previous_cycle /\ findings' = findings
  BY <1>1 DEF comparison_vars, stream_vars, rule_vars
<1>3. ComparisonInv'
  BY <1>1, ComparisonStutters DEF DiagnosisInv
<1>4. StagesInv'
  BY <1>1, <1>2 DEF DiagnosisInv, StagesInv
<1>5. StreamInv'
  BY <1>1, <1>2 DEF DiagnosisInv, StreamInv, AllAccepted, Recorded, LastMarksEnd
<1>6. RulesInv'
  <2>1. CASE origin = "file"
    BY <1>2, <2>1 DEF RulesInv
  <2>2. CASE origin # "file"
    <3>1. inspected \in 0 .. Len(candidate)
      BY <1>1, <2>2 DEF DiagnosisInv, RulesInv
    <3>2. inspected + 1 .. Len(candidate) = {} /\ Len(candidate) \in Nat
      BY <1>1, <2>2, <3>1, StreamEvents DEF DiagnosisInv
    <3>3. inspected = Len(candidate)
      <4>1. Len(candidate) \notin inspected + 1 .. Len(candidate)
        BY <3>2
      <4>2. QED
        BY <3>1, <3>2, <4>1
    <3>4. QED
      BY <1>1, <1>2, <3>3 DEF DiagnosisInv, RulesInv, TraceIsComplete
  <2>3. QED
    BY <2>1, <2>2
<1>7. ReportInv'
  <2>1. Rules' = Rules
    BY <1>2 DEF Rules
  <2>2. "missing_output_transfer" \notin Rules' /\ "unexpected_output_transfer" \notin Rules'
    BY <1>1, <2>1 DEF DiagnosisInv, ReportInv
  <2>3. QED
    BY <2>2 DEF ReportInv, FindingsAreTrue
<1>8. QED
  BY <1>3, <1>4, <1>5, <1>6, <1>7 DEF DiagnosisInv

LEMMA CompareKeeps ==
  ASSUME DiagnosisInv, Compare
  PROVE  DiagnosisInv'
<1>1. /\ stage = "compare" /\ stage' = stage /\ ComparisonNext
      /\ UNCHANGED stream_vars /\ UNCHANGED rule_vars
  BY DEF Compare
<1>2. /\ origin' = origin /\ clock' = clock /\ transfers' = transfers
      /\ inspected' = inspected /\ expected_sequence' = expected_sequence
      /\ previous_cycle' = previous_cycle /\ findings' = findings
  BY <1>1 DEF stream_vars, rule_vars
<1>3. reference' = reference /\ candidate' = candidate
  BY <1>1 DEF ComparisonNext, ChooseWay, CompareValue, CompareChunk, CompareScalar
<1>4. ComparisonInv'
  BY <1>1, ComparisonKeeps DEF DiagnosisInv
<1>5. StagesInv'
  BY <1>1, <1>2 DEF DiagnosisInv, StagesInv
<1>6. StreamInv'
  BY <1>1, <1>2, <1>3 DEF DiagnosisInv, StreamInv, AllAccepted, Recorded, LastMarksEnd
<1>7. RulesInv'
  BY <1>1, <1>2, <1>3 DEF DiagnosisInv, RulesInv, TraceIsComplete
<1>8. ReportInv'
  <2>1. Rules' = Rules
    BY <1>2 DEF Rules
  <2>2. "missing_output_transfer" \notin Rules' /\ "unexpected_output_transfer" \notin Rules'
    BY <1>1, <2>1 DEF DiagnosisInv, ReportInv
  <2>3. QED
    BY <2>2 DEF ReportInv, FindingsAreTrue
<1>9. QED
  BY <1>4, <1>5, <1>6, <1>7, <1>8 DEF DiagnosisInv

LEMMA ConcludeKeeps ==
  ASSUME DiagnosisInv, Conclude
  PROVE  DiagnosisInv'
<1>1. /\ stage = "compare" /\ stage' = "done" /\ report.kind # "running"
      /\ findings' = findings \cup (ComparisonRules \X {matched_values})
      /\ UNCHANGED comparison_vars /\ UNCHANGED stream_vars
      /\ inspected' = inspected /\ expected_sequence' = expected_sequence
      /\ previous_cycle' = previous_cycle
  BY DEF Conclude
<1>2. /\ reference' = reference /\ candidate' = candidate /\ way' = way /\ report' = report
      /\ origin' = origin /\ clock' = clock /\ transfers' = transfers
  BY <1>1 DEF comparison_vars, stream_vars
<1>3. ComparisonInv'
  BY <1>1, ComparisonStutters DEF DiagnosisInv
<1>4. StagesInv'
  BY <1>1, <1>2 DEF DiagnosisInv, StagesInv
<1>5. StreamInv'
  BY <1>1, <1>2 DEF DiagnosisInv, StreamInv, AllAccepted, Recorded, LastMarksEnd
<1>6. findings \subseteq findings'
  BY <1>1
<1>7. RulesInv'
  <2>1. CASE origin = "file"
    BY <1>2, <2>1 DEF RulesInv
  <2>2. CASE origin # "file"
    <3>1. /\ inspected = Len(candidate) /\ inspected \in 0 .. Len(candidate)
          /\ findings' = {} =>
               /\ expected_sequence = inspected
               /\ \A i \in 1 .. inspected :
                    /\ candidate[i].accepted /\ candidate[i].sequence = i - 1
                    /\ candidate[i].last = (i = Len(candidate))
      BY <1>1, <1>6, <2>2 DEF DiagnosisInv, RulesInv
    <3>2. ASSUME TraceIsComplete, ReferenceIsComplete
          PROVE  findings' = {}
      <4>1. findings = {}
        BY <1>1, <2>2, <3>2 DEF DiagnosisInv, RulesInv
      <4>2. report.kind \notin {"alignment_error", "missing_candidate_value", "unexpected_candidate_value"}
        BY <1>1, <2>2, <3>2, CompleteVerdict
      <4>3. ComparisonRules = {}
        BY <4>2 DEF ComparisonRules
      <4>4. QED
        BY <1>1, <4>1, <4>3
    <3>3. (TraceIsComplete' <=> TraceIsComplete) /\ (ReferenceIsComplete' <=> ReferenceIsComplete)
      BY <1>2 DEF TraceIsComplete, ReferenceIsComplete
    <3>4. QED
      BY <1>1, <1>2, <3>1, <3>2, <3>3 DEF RulesInv
  <2>3. QED
    BY <2>1, <2>2
<1>8. ReportInv'
  <2>1. \A f \in findings' : f \in findings \/ f[1] \in ComparisonRules
    BY <1>1
  <2>2. Rules' \subseteq Rules \cup ComparisonRules
    BY <2>1 DEF Rules
  <2>3. "missing_output_transfer" \notin Rules /\ "unexpected_output_transfer" \notin Rules
    BY <1>1 DEF DiagnosisInv, ReportInv
  <2>4. /\ "missing_output_transfer" \in ComparisonRules => report.kind = "missing_candidate_value"
        /\ "unexpected_output_transfer" \in ComparisonRules => report.kind = "unexpected_candidate_value"
    BY DEF ComparisonRules
  <2>5. /\ "missing_output_transfer" \in Rules' => KeysOf(reference) \ KeysOf(candidate) # {}
        /\ "unexpected_output_transfer" \in Rules' => KeysOf(candidate) \ KeysOf(reference) # {}
    BY <2>2, <2>3, <2>4, OutputVerdicts DEF DiagnosisInv
  <2>6. FindingsAreTrue'
    BY <1>2, <2>5 DEF FindingsAreTrue
  <2>7. QED
    BY <1>1, <2>6 DEF ReportInv
<1>9. QED
  BY <1>3, <1>4, <1>5, <1>7, <1>8 DEF DiagnosisInv

LEMMA DiagnosisStutters ==
  ASSUME DiagnosisInv, UNCHANGED diagnosisVars
  PROVE  DiagnosisInv'
<1>1. UNCHANGED comparison_vars /\ UNCHANGED stream_vars /\ UNCHANGED rule_vars /\ stage' = stage
  BY DEF diagnosisVars
<1>2. /\ reference' = reference /\ candidate' = candidate /\ way' = way /\ report' = report
      /\ origin' = origin /\ clock' = clock /\ transfers' = transfers
      /\ inspected' = inspected /\ expected_sequence' = expected_sequence
      /\ previous_cycle' = previous_cycle /\ findings' = findings
  BY <1>1 DEF comparison_vars, stream_vars, rule_vars
<1>3. ComparisonInv'
  BY <1>1, ComparisonStutters DEF DiagnosisInv
<1>4. StagesInv'
  BY <1>1, <1>2 DEF DiagnosisInv, StagesInv
<1>5. StreamInv'
  BY <1>1, <1>2 DEF DiagnosisInv, StreamInv, AllAccepted, Recorded, LastMarksEnd
<1>6. RulesInv'
  BY <1>1, <1>2 DEF DiagnosisInv, RulesInv, TraceIsComplete, ReferenceIsComplete
<1>7. ReportInv'
  BY <1>1, <1>2 DEF DiagnosisInv, ReportInv, FindingsAreTrue, Rules
<1>8. QED
  BY <1>3, <1>4, <1>5, <1>6, <1>7 DEF DiagnosisInv

(* A clean report on a match: nothing was skipped, repeated or wrong.      *)
LEMMA CleanSays ==
  ASSUME DiagnosisInv
  PROVE  CleanMeansComplete
<1> SUFFICES ASSUME origin # "file", stage = "done", findings = {}, report.kind = "match", ReferenceIsComplete
             PROVE  StreamIsComplete /\ \A i \in DOMAIN transfers : transfers[i].value = 0
  BY DEF CleanMeansComplete
<1> DEFINE E == AllValues(reference)
           A == AllValues(candidate)
           count == Len(candidate)
<1>1. /\ TotalValues(reference) = Len(reference) /\ DOMAIN E = 1 .. Len(reference)
      /\ \A i \in 1 .. Len(reference) : E[i] = StreamValue(i - 1, 0)
      /\ count \in Nat /\ DOMAIN candidate = 1 .. count /\ DOMAIN A = 1 .. count
      /\ \A i \in 1 .. count : A[i] = StreamValue(candidate[i].start, candidate[i].values[1])
  BY StreamTraces
<1>2. Len(reference) = Size /\ Size \in Nat \ {0}
  BY <1>1, StreamAssumption DEF ReferenceIsComplete
<1>3. \A i \in 1 .. count :
        /\ candidate[i].accepted /\ candidate[i].sequence = i - 1
        /\ candidate[i].last = (i = count)
  BY DEF DiagnosisInv, RulesInv
<1>4. Recorded /\ transfers \in Seq(ToSet(transfers))
  BY <1>1, <1>3 DEF DiagnosisInv, StreamInv, AllAccepted
<1>5. ASSUME NEW i \in 1 .. count
      PROVE  /\ transfers[i].at = i - 1 /\ transfers[i].last = (i = count)
             /\ candidate[i].start = (i - 1) % Size /\ i - 1 \in 0 .. Size
             /\ candidate[i].values[1] = transfers[i].value
  <2>1. IsSample(transfers[i]) /\ candidate[i] = Written(transfers[i])
    BY <1>4 DEF Recorded
  <2>2. /\ candidate[i].sequence = transfers[i].sequence /\ candidate[i].last = transfers[i].last
        /\ candidate[i].start = transfers[i].at % Size /\ candidate[i].values = << transfers[i].value >>
    BY <2>1, WrittenIsEvent
  <2>3. transfers[i].sequence = i - 1 /\ i - 1 \in Nat
    BY <1>1, <1>3, <2>2
  <2>4. transfers[i].at = i - 1 /\ i - 1 \in 0 .. Size
    BY <2>1, <2>3, StreamAssumption DEF IsSample
  <2>5. QED
    BY <1>3, <2>2, <2>4
<1>6. ToSet(E) = ToSet(A) /\ ~HasDuplicate(A)
  BY DEF DiagnosisInv, ComparisonInv, VerdictIsTrue, IsMatch
<1> HIDE DEF E, A, count
<1>7. count <= Size
  <2>1. SUFFICES ASSUME Size + 1 \in 1 .. count PROVE FALSE
    BY <1>1, <1>2
  <2> DEFINE place_of(n) == n % Size
  <2>2. 1 \in 1 .. count
    BY <1>1, <1>2, <2>1
  <2>3. candidate[Size + 1].start = 0 /\ candidate[1].start = 0
    <3>1. \A i \in 1 .. count : candidate[i].start = place_of(i - 1)
      BY <1>5
    <3>2. place_of(Size) = 0 /\ place_of(0) = 0
      <4>1. 0 \in 0 .. Size - 1
        BY <1>2
      <4>2. QED
        BY <4>1, PlaceInShape
    <3> HIDE DEF place_of
    <3>3. ASSUME NEW i \in 1 .. count, NEW n \in {0, Size}, i = n + 1
          PROVE  candidate[i].start = 0
      <4>1. i - 1 = n
        BY <1>2, <3>3
      <4>2. QED
        BY <3>1, <3>2, <4>1
    <3>4. Size + 1 = Size + 1 /\ 1 = 0 + 1
      OBVIOUS
    <3>5. QED
      BY <2>1, <2>2, <3>3, <3>4
  <2>4. A[Size + 1].key = A[1].key
    BY <1>1, <2>1, <2>2, <2>3, StreamValueFields
  <2>5. Size + 1 # 1 /\ Size + 1 \in DOMAIN A /\ 1 \in DOMAIN A
    BY <1>1, <1>2, <2>1, <2>2
  <2>6. QED
    BY <1>6, <2>4, <2>5 DEF HasDuplicate
<1>8. count >= Size
  <2>1. Size \in 1 .. Len(reference) /\ E[Size] = StreamValue(Size - 1, 0)
    BY <1>1, <1>2
  <2>2. E[Size] \in ToSet(A)
    BY <1>1, <1>6, <2>1 DEF ToSet
  <2>3. PICK i \in 1 .. count : A[i] = E[Size]
    BY <1>1, <2>2 DEF ToSet
  <2>4. candidate[i].start = Size - 1
    BY <1>1, <2>1, <2>3, StreamValueFields
  <2>5. i - 1 \in 0 .. Size - 1
    BY <1>1, <1>2, <1>7
  <2>6. (i - 1) % Size = i - 1
    BY <2>5, PlaceInShape
  <2>7. i - 1 = Size - 1
    BY <1>5, <2>4, <2>6
  <2>8. QED
    BY <1>1, <1>2, <2>7
<1>9. count = Size
  BY <1>1, <1>2, <1>7, <1>8
<1>10. Len(transfers) = Size /\ DOMAIN transfers = 1 .. Size
  BY <1>4, <1>9, LenProperties DEF Recorded, count
<1>11. StreamIsComplete
  BY <1>5, <1>9, <1>10 DEF StreamIsComplete
<1>12. ASSUME NEW i \in DOMAIN transfers
       PROVE  transfers[i].value = 0
  <2>1. i \in 1 .. count
    BY <1>9, <1>10
  <2>2. A[i] \in ToSet(E)
    BY <1>1, <1>6, <2>1 DEF ToSet
  <2>3. PICK j \in 1 .. Len(reference) : E[j] = A[i]
    BY <1>1, <2>2 DEF ToSet
  <2>4. E[j].value = 0 /\ A[i].value = candidate[i].values[1]
    BY <1>1, <2>1, StreamValueFields
  <2>5. QED
    BY <1>5, <2>1, <2>3, <2>4
<1>13. QED
  BY <1>11, <1>12

(* A complete stream and trace: no rule is broken, and only wrong values   *)
(* keep the traces from matching.                                          *)
LEMMA CompleteSays ==
  ASSUME DiagnosisInv
  PROVE  CompleteIsClean
<1> SUFFICES ASSUME StreamIsComplete, TraceIsComplete, ReferenceIsComplete, stage \in {"done", "rejected"}
             PROVE  /\ stage = "done" /\ findings = {}
                    /\ (\A i \in DOMAIN candidate : candidate[i].values = << 0 >>) <=> report.kind = "match"
  BY DEF CompleteIsClean
<1>1. Len(transfers) = Size /\ Len(candidate) = Size /\ Size # 0
  BY StreamAssumption DEF StreamIsComplete, TraceIsComplete
<1>2. origin # "file"
  <2>1. Len(<< >>) = 0
    BY EmptySeq
  <2>2. QED
    BY <1>1, <2>1 DEF DiagnosisInv, StagesInv
<1>3. stage # "rejected"
  <2>1. candidate # << >>
    BY <1>1, EmptySeq
  <2>2. LastMarksEnd
    <3>1. DOMAIN candidate = 1 .. Size
      BY <1>1, <1>2, StreamTraces
    <3>2. QED
      BY <1>1, <3>1 DEF LastMarksEnd, TraceIsComplete
  <2>3. QED
    BY <1>1, <1>2, <2>1, <2>2 DEF DiagnosisInv, StreamInv
<1>4. stage = "done" /\ report.kind # "running"
  BY <1>3 DEF DiagnosisInv, StagesInv
<1>5. findings = {}
  BY <1>2, <1>4 DEF DiagnosisInv, RulesInv
<1>6. QED
  BY <1>2, <1>4, <1>5, CompleteVerdict

LEMMA DiagnosisSays ==
  ASSUME DiagnosisInv
  PROVE  /\ MatchMeansEqual /\ DivergenceIsFirst
         /\ CleanMeansComplete /\ CompleteIsClean /\ FindingsAreTrue
BY VerdictsSay, CleanSays, CompleteSays DEF DiagnosisInv, ReportInv

(* The invariant of a diagnosis: how far each loop of the comparison has   *)
(* come and what its verdict says, what a stream's trace records of the    *)
(* transfers, and what the rules have found, for pairs of files cut alike. *)
THEOREM DiagnosisInvariant ==
  ASSUME ComparablePairs
  PROVE  DiagnosisSpec => []DiagnosisInv
<1>1. DiagnosisInit => DiagnosisInv
  BY DiagnosisInitInv
<1>2. DiagnosisInv /\ [DiagnosisNext]_diagnosisVars => DiagnosisInv'
  BY SampleKeeps, WriteKeeps, InspectKeeps, BeginKeeps, CompareKeeps, ConcludeKeeps,
     DiagnosisStutters DEF DiagnosisNext
<1>3. QED
  BY <1>1, <1>2, PTL DEF DiagnosisSpec

(* compare_trace_files says "match" only of traces with the same values    *)
(* under the same coordinates, each once, and counts all of them.          *)
THEOREM MatchIsEquality ==
  ASSUME ComparablePairs
  PROVE  DiagnosisSpec => []MatchMeansEqual
BY DiagnosisInvariant, DiagnosisSays, PTL

(* The divergence of a report is the first one, is what the files have     *)
(* there, and the matched values are those before it.                      *)
THEOREM DivergenceIsTheFirst ==
  ASSUME ComparablePairs
  PROVE  DiagnosisSpec => []DivergenceIsFirst
BY DiagnosisInvariant, DiagnosisSays, PTL

(* A protocol report without findings on a matching trace means that the   *)
(* stream was whole, in order and right.                                   *)
THEOREM CleanReportsAreRight ==
  ASSUME ComparablePairs
  PROVE  DiagnosisSpec => []CleanMeansComplete
BY DiagnosisInvariant, DiagnosisSays, PTL

(* A complete trace gets no finding, whatever its values.                  *)
THEOREM CompleteTracesAreClean ==
  ASSUME ComparablePairs
  PROVE  DiagnosisSpec => []CompleteIsClean
BY DiagnosisInvariant, DiagnosisSays, PTL

(* analyze_protocol_files reports a missing or an unexpected transfer only *)
(* where one trace has a coordinate the other lacks.                       *)
THEOREM OutputFindingsAreTrue ==
  ASSUME ComparablePairs
  PROVE  DiagnosisSpec => []FindingsAreTrue
BY DiagnosisInvariant, DiagnosisSays, PTL
=============================================================================
