--------------------------- MODULE CompilerProofs ---------------------------
EXTENDS Deployment, SequenceTheorems, FiniteSetTheorems, WellFoundedInduction, TLAPS

-----------------------------------------------------------------------------
(* Induction over the first places of a list, and the least of a set.      *)
LEMMA CountUp ==
  ASSUME NEW top \in Nat, NEW P, 0 \in P,
         \A k \in 0 .. top - 1 : k \in P => k + 1 \in P
  PROVE  \A k \in 0 .. top : k \in P
<1> DEFINE R == {p \in Nat \X Nat : p[1] < p[2]}
           Bad == {k \in 0 .. top : k \notin P}
<1>1. SUFFICES ASSUME Bad # {} PROVE FALSE
  OBVIOUS
<1>2. IsWellFoundedOn(R, Nat)
  BY NatLessThanWellFounded DEF OpToRel
<1>3. PICK m \in Bad : \A n \in Bad : << n, m >> \notin R
  <2>1. Bad \subseteq Nat
    OBVIOUS
  <2> HIDE DEF R, Bad
  <2>2. QED
    BY <1>1, <1>2, <2>1, WFMin
<1>4. m \in 0 .. top /\ m \notin P /\ m # 0
  OBVIOUS
<1>5. m - 1 \in 0 .. top - 1 /\ (m - 1) + 1 = m
  BY <1>4
<1>6. m - 1 \notin P
  BY <1>4, <1>5
<1>7. m - 1 \in Bad /\ << m - 1, m >> \in R
  BY <1>4, <1>5, <1>6
<1> HIDE DEF R, Bad
<1>8. QED
  BY <1>3, <1>7

LEMMA LeastNumber ==
  ASSUME NEW S \in SUBSET Nat, S # {}
  PROVE  \E m \in S : \A n \in S : m <= n
<1> DEFINE R == {p \in Nat \X Nat : p[1] < p[2]}
<1>1. IsWellFoundedOn(R, Nat)
  BY NatLessThanWellFounded DEF OpToRel
<1>2. PICK m \in S : \A n \in S : << n, m >> \notin R
  <2> HIDE DEF R
  <2>1. QED
    BY <1>1, WFMin
<1>3. \A n \in S : ~(n < m)
  BY <1>2
<1>4. QED
  BY <1>3

-----------------------------------------------------------------------------
(* Lists of operations. *)
IsList(ops) == ops \in Seq(ToSet(ops))

LEMMA ListFacts ==
  ASSUME NEW ops, IsList(ops)
  PROVE  /\ Len(ops) \in Nat /\ DOMAIN ops = 1 .. Len(ops)
         /\ ops = [i \in 1 .. Len(ops) |-> ops[i]]
         /\ \A i \in DOMAIN ops : ops[i] \in ToSet(ops)
         /\ \A o \in ToSet(ops) : \E i \in DOMAIN ops : ops[i] = o
<1>1. /\ Len(ops) \in Nat /\ DOMAIN ops = 1 .. Len(ops)
      /\ ops \in [1 .. Len(ops) -> ToSet(ops)]
  BY LenProperties DEF IsList
<1>2. QED
  BY <1>1 DEF ToSet

LEMMA ListOf ==
  ASSUME NEW S, NEW ops \in Seq(S)
  PROVE  IsList(ops)
<1>1. ops \in [1 .. Len(ops) -> S] /\ Len(ops) \in Nat
  BY LenProperties
<1>2. ops \in [1 .. Len(ops) -> ToSet(ops)]
  BY <1>1 DEF ToSet
<1>3. QED
  BY <1>1, <1>2, SeqDef DEF IsList

LEMMA EmptyList == IsList(<< >>) /\ ToSet(<< >>) = {} /\ Len(<< >>) = 0 /\ DOMAIN << >> = {}
<1>1. << >> \in Seq({}) /\ Len(<< >>) = 0
  BY EmptySeq
<1>2. IsList(<< >>)
  BY <1>1, ListOf
<1>3. DOMAIN << >> = 1 .. 0
  BY <1>1, LenProperties
<1>4. QED
  BY <1>1, <1>2, <1>3 DEF ToSet

LEMMA AppendList ==
  ASSUME NEW ops, IsList(ops), NEW o
  PROVE  /\ IsList(Append(ops, o))
         /\ Len(Append(ops, o)) = Len(ops) + 1
         /\ \A i \in DOMAIN ops : Append(ops, o)[i] = ops[i]
         /\ Append(ops, o)[Len(ops) + 1] = o
         /\ DOMAIN Append(ops, o) = 1 .. Len(ops) + 1
         /\ ToSet(Append(ops, o)) = ToSet(ops) \cup {o}
<1> DEFINE S == ToSet(ops) \cup {o}
           more == Append(ops, o)
<1>1. ops \in Seq(S) /\ o \in S
  BY SeqMonotonic DEF IsList
<1>2. /\ more \in Seq(S) /\ Len(more) = Len(ops) + 1
      /\ \A i \in 1 .. Len(ops) : more[i] = ops[i]
      /\ more[Len(ops) + 1] = o
  <2> HIDE DEF S
  <2>1. QED
    BY <1>1, AppendProperties
<1>3. DOMAIN more = 1 .. Len(ops) + 1 /\ Len(ops) \in Nat /\ DOMAIN ops = 1 .. Len(ops)
  BY <1>2, LenProperties, ListFacts
<1>4. IsList(more)
  BY <1>2, ListOf
<1> HIDE DEF more
<1>5. ToSet(more) \subseteq S
  <2>1. ASSUME NEW i \in DOMAIN more PROVE more[i] \in S
    <3>1. CASE i = Len(ops) + 1
      BY <1>2, <3>1
    <3>2. CASE i # Len(ops) + 1
      <4>1. i \in 1 .. Len(ops)
        BY <1>3, <2>1, <3>2
      <4>2. QED
        BY <1>2, <1>3, <4>1, ListFacts
    <3>3. QED
      BY <3>1, <3>2
  <2>2. QED
    BY <2>1 DEF ToSet
<1>6. S \subseteq ToSet(more)
  <2>1. o \in ToSet(more)
    BY <1>2, <1>3 DEF ToSet
  <2>2. ASSUME NEW p \in ToSet(ops) PROVE p \in ToSet(more)
    <3>1. PICK i \in DOMAIN ops : ops[i] = p
      BY ListFacts
    <3>2. i \in DOMAIN more /\ more[i] = p
      BY <1>2, <1>3, <3>1
    <3>3. QED
      BY <3>2 DEF ToSet
  <2>3. QED
    BY <2>1, <2>2
<1>7. QED
  BY <1>2, <1>3, <1>4, <1>5, <1>6 DEF more

(* Operations stand in the order of their numbers. *)
Sorted(ops) ==
  /\ \A o \in ToSet(ops) : o.name \in Nat
  /\ \A i, j \in DOMAIN ops : i < j => ops[i].name < ops[j].name

LEMMA SortedNames ==
  ASSUME NEW ops, IsList(ops), Sorted(ops)
  PROVE  /\ \A i, j \in DOMAIN ops : ops[i].name < ops[j].name <=> i < j
         /\ \A i, j \in DOMAIN ops : ops[i].name = ops[j].name => i = j
         /\ \A o, p \in ToSet(ops) : o.name = p.name => o = p
<1>1. Len(ops) \in Nat /\ DOMAIN ops = 1 .. Len(ops)
  BY ListFacts
<1>2. \A i \in DOMAIN ops : ops[i].name \in Nat
  BY ListFacts DEF Sorted
<1>3. \A i, j \in DOMAIN ops : i < j => ops[i].name < ops[j].name
  BY DEF Sorted
<1>4. ASSUME NEW i \in DOMAIN ops, NEW j \in DOMAIN ops
      PROVE  (ops[i].name < ops[j].name <=> i < j) /\ (ops[i].name = ops[j].name => i = j)
  <2>1. CASE i < j
    BY <1>1, <1>2, <1>3, <2>1
  <2>2. CASE j < i
    <3>1. ops[j].name < ops[i].name
      BY <1>3, <2>2
    <3>2. ops[j].name \in Nat /\ ops[i].name \in Nat
      BY <1>2
    <3>3. QED
      BY <1>1, <2>2, <3>1, <3>2
  <2>3. CASE i = j
    BY <1>1, <1>2, <2>3
  <2>4. QED
    BY <1>1, <2>1, <2>2, <2>3
<1>5. QED
  BY <1>4, ListFacts

LEMMA NamedIs ==
  ASSUME NEW ops, IsList(ops), Sorted(ops), NEW o \in ToSet(ops)
  PROVE  Named(ops, o.name) = o
BY SortedNames DEF Named

-----------------------------------------------------------------------------
(* The operations of a list with given names. *)
IsKept(F, ops, names) ==
  F = [n \in 0 .. Len(ops) |->
         IF n = 0 THEN << >>
         ELSE IF ops[n].name \in names THEN Append(F[n - 1], ops[n]) ELSE F[n - 1]]

KeptUpTo(F, ops, names, top) ==
  F = [n \in 0 .. top |->
         IF n = 0 THEN << >>
         ELSE IF ops[n].name \in names THEN Append(F[n - 1], ops[n]) ELSE F[n - 1]]

LEMMA KeptExists ==
  ASSUME NEW ops, Len(ops) \in Nat, NEW names
  PROVE  \E F : IsKept(F, ops, names) /\ Keep(ops, names) = F[Len(ops)]
<1> DEFINE top == Len(ops)
           P == {k \in 0 .. top : \E F : KeptUpTo(F, ops, names, k)}
<1>1. 0 \in P
  <2> DEFINE F == [n \in 0 .. 0 |-> << >>]
  <2>1. KeptUpTo(F, ops, names, 0)
    BY DEF KeptUpTo
  <2>2. QED
    BY <2>1
<1>2. ASSUME NEW k \in 0 .. top - 1, k \in P PROVE k + 1 \in P
  <2>1. PICK F : KeptUpTo(F, ops, names, k)
    BY <1>2
  <2> DEFINE more == IF ops[k + 1].name \in names THEN Append(F[k], ops[k + 1]) ELSE F[k]
             G == [n \in 0 .. k + 1 |-> IF n = k + 1 THEN more ELSE F[n]]
  <2>2. ASSUME NEW n \in 0 .. k + 1
        PROVE  G[n] = IF n = 0 THEN << >>
                      ELSE IF ops[n].name \in names THEN Append(G[n - 1], ops[n]) ELSE G[n - 1]
    <3>1. CASE n = k + 1
      <4>1. n # 0 /\ n - 1 = k /\ k \in 0 .. k + 1 /\ k # k + 1
        BY <3>1
      <4>2. G[n - 1] = F[k] /\ G[n] = more
        BY <3>1, <4>1
      <4>3. QED
        BY <3>1, <4>1, <4>2
    <3>2. CASE n = 0
      <4>1. F[0] = << >>
        BY <2>1 DEF KeptUpTo
      <4>2. QED
        BY <3>2, <4>1
    <3>3. CASE n \in 1 .. k
      <4>1. n - 1 \in 0 .. k /\ n - 1 # k + 1 /\ n # k + 1 /\ n \in 0 .. k /\ n # 0
        BY <3>3
      <4>2. F[n] = IF ops[n].name \in names THEN Append(F[n - 1], ops[n]) ELSE F[n - 1]
        BY <2>1, <4>1 DEF KeptUpTo
      <4>3. G[n] = F[n] /\ G[n - 1] = F[n - 1]
        BY <4>1
      <4>4. QED
        BY <4>1, <4>2, <4>3
    <3>4. QED
      BY <3>1, <3>2, <3>3
  <2>3. KeptUpTo(G, ops, names, k + 1)
    <3>1. G = [n \in 0 .. k + 1 |-> G[n]]
      OBVIOUS
    <3> HIDE DEF G
    <3>2. QED
      BY <2>2, <3>1 DEF KeptUpTo
  <2>4. k + 1 \in 0 .. top
    OBVIOUS
  <2> HIDE DEF G
  <2>5. QED
    BY <2>3, <2>4
<1>3. top \in P
  <2> HIDE DEF P
  <2>1. \A k \in 0 .. top : k \in P
    BY <1>1, <1>2, CountUp
  <2>2. QED
    BY <2>1
<1>4. \E F : IsKept(F, ops, names)
  BY <1>3 DEF KeptUpTo, IsKept
<1> DEFINE G == CHOOSE F : IsKept(F, ops, names)
<1>5. IsKept(G, ops, names)
  BY <1>4
<1>6. Keep(ops, names) = G[Len(ops)]
  BY DEF Keep, IsKept
<1>7. QED
  BY <1>5, <1>6

LEMMA KeepList ==
  ASSUME NEW ops, IsList(ops), NEW names
  PROVE  /\ IsList(Keep(ops, names))
         /\ ToSet(Keep(ops, names)) = {o \in ToSet(ops) : o.name \in names}
         /\ Sorted(ops) => Sorted(Keep(ops, names))
<1>1. Len(ops) \in Nat /\ DOMAIN ops = 1 .. Len(ops)
  BY ListFacts
<1>2. PICK F : IsKept(F, ops, names) /\ Keep(ops, names) = F[Len(ops)]
  BY <1>1, KeptExists
<1> DEFINE First(n) == {o \in {ops[i] : i \in 1 .. n} : o.name \in names}
           Good(n) == /\ IsList(F[n]) /\ ToSet(F[n]) = First(n)
                      /\ Sorted(ops) => Sorted(F[n])
           P == {n \in 0 .. Len(ops) : Good(n)}
<1>3. 0 \in P
  <2>1. F[0] = << >>
    BY <1>1, <1>2 DEF IsKept
  <2>2. First(0) = {}
    OBVIOUS
  <2>3. Good(0)
    BY <2>1, <2>2, EmptyList DEF Sorted
  <2>4. QED
    BY <1>1, <2>3
<1>4. ASSUME NEW k \in 0 .. Len(ops) - 1, k \in P PROVE k + 1 \in P
  <2>1. k + 1 \in 1 .. Len(ops) /\ k + 1 \in 0 .. Len(ops) /\ (k + 1) - 1 = k /\ k + 1 # 0
    BY <1>1
  <2> DEFINE o == ops[k + 1]
  <2>2. F[k + 1] = IF o.name \in names THEN Append(F[k], o) ELSE F[k]
    BY <1>2, <2>1 DEF IsKept
  <2>3. Good(k)
    BY <1>4
  <2>4. 1 .. k + 1 = (1 .. k) \cup {k + 1}
    BY <2>1
  <2>5. {ops[i] : i \in 1 .. k + 1} = {ops[i] : i \in 1 .. k} \cup {o}
    BY <2>4
  <2>6. CASE o.name \notin names
    <3>1. F[k + 1] = F[k] /\ First(k + 1) = First(k)
      BY <2>2, <2>5, <2>6
    <3>2. QED
      BY <2>1, <2>3, <3>1
  <2>7. CASE o.name \in names
    <3>1. F[k + 1] = Append(F[k], o) /\ First(k + 1) = First(k) \cup {o}
      BY <2>2, <2>5, <2>7
    <3>2. IsList(F[k + 1]) /\ ToSet(F[k + 1]) = First(k + 1)
      BY <2>3, <3>1, AppendList
    <3>3. ASSUME Sorted(ops) PROVE Sorted(F[k + 1])
      <4>1. Sorted(F[k])
        BY <2>3, <3>3
      <4>2. /\ DOMAIN F[k + 1] = 1 .. Len(F[k]) + 1 /\ DOMAIN F[k] = 1 .. Len(F[k])
            /\ Len(F[k]) \in Nat
            /\ \A i \in DOMAIN F[k] : F[k + 1][i] = F[k][i]
            /\ F[k + 1][Len(F[k]) + 1] = o
        BY <2>3, <3>1, AppendList, ListFacts
      <4>3. ASSUME NEW i \in DOMAIN F[k] PROVE F[k][i].name < o.name
        <5>1. F[k][i] \in First(k)
          BY <2>3, ListFacts
        <5>2. PICK j \in 1 .. k : F[k][i] = ops[j]
          BY <5>1
        <5>3. j \in DOMAIN ops /\ k + 1 \in DOMAIN ops /\ j < k + 1
          BY <1>1, <2>1
        <5>4. QED
          BY <3>3, <5>2, <5>3 DEF Sorted
      <4>4. ASSUME NEW p \in ToSet(F[k + 1]) PROVE p.name \in Nat
        <5>1. p \in First(k + 1)
          BY <3>2
        <5>2. PICK j \in 1 .. k + 1 : p = ops[j]
          BY <5>1
        <5>3. j \in DOMAIN ops
          BY <1>1, <2>1
        <5>4. p \in ToSet(ops)
          BY <5>2, <5>3 DEF ToSet
        <5>5. QED
          BY <3>3, <5>4 DEF Sorted
      <4>5. ASSUME NEW i \in DOMAIN F[k + 1], NEW j \in DOMAIN F[k + 1], i < j
            PROVE  F[k + 1][i].name < F[k + 1][j].name
        <5>1. i \in DOMAIN F[k]
          BY <4>2, <4>5
        <5>2. CASE j = Len(F[k]) + 1
          BY <4>2, <4>3, <5>1, <5>2
        <5>3. CASE j # Len(F[k]) + 1
          <6>1. j \in DOMAIN F[k]
            BY <4>2, <5>3
          <6>2. F[k][i].name < F[k][j].name
            BY <4>1, <4>5, <5>1, <6>1 DEF Sorted
          <6>3. QED
            BY <4>2, <5>1, <6>1, <6>2
        <5>4. QED
          BY <5>2, <5>3
      <4>6. QED
        BY <4>4, <4>5 DEF Sorted
    <3>4. QED
      BY <2>1, <3>2, <3>3
  <2>8. QED
    BY <2>6, <2>7
<1>5. Good(Len(ops))
  <2> HIDE DEF Good
  <2>1. \A n \in 0 .. Len(ops) : n \in P
    <3> HIDE DEF P
    <3>1. QED
      BY <1>1, <1>3, <1>4, CountUp
  <2>2. QED
    BY <1>1, <2>1
<1>6. {ops[i] : i \in 1 .. Len(ops)} = ToSet(ops)
  BY <1>1 DEF ToSet
<1>7. QED
  BY <1>2, <1>5, <1>6

LEMMA NamesOf ==
  ASSUME NEW ops, IsList(ops)
  PROVE  Names(ops) = {o.name : o \in ToSet(ops)}
<1>1. ASSUME NEW x \in Names(ops) PROVE x \in {o.name : o \in ToSet(ops)}
  <2>1. PICK i \in DOMAIN ops : x = ops[i].name
    BY DEF Names
  <2>2. QED
    BY <2>1, ListFacts
<1>2. ASSUME NEW o \in ToSet(ops) PROVE o.name \in Names(ops)
  <2>1. PICK i \in DOMAIN ops : ops[i] = o
    BY ListFacts
  <2>2. QED
    BY <2>1 DEF Names
<1>3. QED
  BY <1>1, <1>2

LEMMA WithoutList ==
  ASSUME NEW ops, IsList(ops), NEW names
  PROVE  /\ IsList(Without(ops, names))
         /\ ToSet(Without(ops, names)) = {o \in ToSet(ops) : o.name \notin names}
         /\ Sorted(ops) => Sorted(Without(ops, names))
<1>1. /\ IsList(Without(ops, names))
      /\ ToSet(Without(ops, names)) = {o \in ToSet(ops) : o.name \in Names(ops) \ names}
      /\ Sorted(ops) => Sorted(Without(ops, names))
  BY KeepList DEF Without
<1>2. \A o \in ToSet(ops) : o.name \in Names(ops)
  BY NamesOf
<1>3. QED
  BY <1>1, <1>2

LEMMA UpdatedList ==
  ASSUME NEW ops, IsList(ops), Sorted(ops), NEW o \in ToSet(ops),
         NEW changed, changed.name = o.name
  PROVE  /\ IsList(Updated(ops, changed)) /\ Sorted(Updated(ops, changed))
         /\ ToSet(Updated(ops, changed)) = (ToSet(ops) \ {o}) \cup {changed}
         /\ DOMAIN Updated(ops, changed) = DOMAIN ops
<1> DEFINE new == Updated(ops, changed)
           top == Len(ops)
<1>1. top \in Nat /\ DOMAIN ops = 1 .. top
  BY ListFacts
<1>2. new = [i \in 1 .. top |-> IF ops[i].name = o.name THEN changed ELSE ops[i]]
  BY <1>1 DEF Updated
<1>3. DOMAIN new = 1 .. top
  BY <1>2
<1>4. PICK place \in 1 .. top : ops[place] = o
  BY <1>1, ListFacts
<1>5. \A i \in 1 .. top : ops[i].name = o.name <=> i = place
  BY <1>1, <1>4, SortedNames
<1>6. \A i \in 1 .. top : new[i] = IF i = place THEN changed ELSE ops[i]
  BY <1>2, <1>5
<1>7. ToSet(new) = {new[i] : i \in 1 .. top}
  BY <1>3 DEF ToSet
<1>8. new \in Seq(ToSet(new)) /\ Len(new) = top
  <2>1. new \in [1 .. top -> ToSet(new)]
    BY <1>2, <1>7
  <2> HIDE DEF new
  <2>2. QED
    BY <1>1, <2>1, SeqDef, LenProperties
<1>9. ToSet(new) = (ToSet(ops) \ {o}) \cup {changed}
  <2>1. ASSUME NEW p \in ToSet(new) PROVE p \in (ToSet(ops) \ {o}) \cup {changed}
    <3>1. PICK i \in 1 .. top : p = new[i]
      BY <1>7
    <3>2. CASE i = place
      BY <1>6, <3>1, <3>2
    <3>3. CASE i # place
      <4>1. p = ops[i] /\ ops[i].name # o.name
        BY <1>5, <1>6, <3>1, <3>3
      <4>2. QED
        BY <1>1, <4>1, ListFacts
    <3>4. QED
      BY <3>2, <3>3
  <2>2. changed \in ToSet(new)
    BY <1>6, <1>7
  <2>3. ASSUME NEW p \in ToSet(ops), p # o PROVE p \in ToSet(new)
    <3>1. PICK i \in 1 .. top : p = ops[i]
      BY <1>1, ListFacts
    <3>2. new[i] = p
      BY <1>4, <1>6, <2>3, <3>1
    <3>3. QED
      BY <1>7, <3>2
  <2>4. QED
    BY <2>1, <2>2, <2>3
<1>10. \A i \in 1 .. top : new[i].name = ops[i].name
  BY <1>4, <1>6
<1>11. Sorted(new)
  <2>1. \A p \in ToSet(new) : p.name \in Nat
    BY <1>9 DEF Sorted
  <2>2. \A i, j \in 1 .. top : i < j => new[i].name < new[j].name
    BY <1>1, <1>10 DEF Sorted
  <2> HIDE DEF new
  <2>3. QED
    BY <1>3, <2>1, <2>2 DEF Sorted
<1>12. QED
  BY <1>1, <1>3, <1>8, <1>9, <1>11 DEF IsList

-----------------------------------------------------------------------------
(* Operations of the graph. *)
Fields == {"name", "type", "inputs", "output", "relu", "backend", "fused"}

IsOperation(o) ==
  /\ DOMAIN o = Fields
  /\ o.name \in Nat /\ o.relu \in BOOLEAN
  /\ IsList(o.inputs) /\ IsList(o.fused)
  /\ o.backend = Backend(o.type)

Arity(o) ==
  /\ o.type \in NodeTypes \cup {"View"}
  /\ o.type = "Conv" => Len(o.inputs) \in {2, 3}
  /\ o.type \in {"Add", "BatchNormalization", "Reshape"} => Len(o.inputs) = 2
  /\ o.type \in {"Relu", "Softmax", "View"} => Len(o.inputs) = 1
  /\ o.type = "Constant" => Len(o.inputs) = 0

Fits(o, tens) ==
  /\ IsOperation(o) /\ Arity(o)
  /\ \A i \in DOMAIN o.inputs : o.inputs[i] \in DOMAIN tens
  /\ o.output \in DOMAIN tens

LEMMA InputPlaces ==
  ASSUME NEW o, IsOperation(o), Arity(o)
  PROVE  /\ DOMAIN o.inputs = 1 .. Len(o.inputs) /\ Len(o.inputs) \in Nat
         /\ o.type # "Constant" => 1 \in DOMAIN o.inputs
         /\ o.type \in {"Conv", "Add", "BatchNormalization", "Reshape"} => 2 \in DOMAIN o.inputs
         /\ o.type \in {"Add", "BatchNormalization", "Reshape"} => DOMAIN o.inputs = {1, 2}
         /\ o.type \in {"Relu", "Softmax", "View"} => DOMAIN o.inputs = {1}
         /\ o.type = "Constant" => DOMAIN o.inputs = {}
<1>1. DOMAIN o.inputs = 1 .. Len(o.inputs) /\ Len(o.inputs) \in Nat
  BY ListFacts DEF IsOperation
<1>2. 1 .. 1 = {1} /\ 1 .. 2 = {1, 2} /\ 1 .. 0 = {} /\ 1 .. 3 = {1, 2, 3}
  OBVIOUS
<1>3. QED
  BY <1>1, <1>2 DEF Arity, NodeTypes

(* What the passes write into an operation. *)
LEMMA AbsorbFields ==
  ASSUME NEW c, IsOperation(c), NEW o
  PROVE  LET new == Absorb(c, o)
         IN  /\ IsOperation(new)
             /\ new.name = c.name /\ new.type = c.type /\ new.inputs = c.inputs
             /\ new.output = o.output /\ new.relu = c.relu
             /\ new.fused = Append(c.fused, o.name)
<1> DEFINE fused == Append(c.fused, o.name)
           new == Absorb(c, o)
<1>1. IsList(fused)
  BY AppendList DEF IsOperation
<1>2. new = [c EXCEPT !.output = o.output, !.fused = fused]
  BY DEF Absorb
<1> HIDE DEF fused, new
<1>3. /\ DOMAIN new = Fields /\ new.backend = c.backend
      /\ new.name = c.name /\ new.type = c.type /\ new.inputs = c.inputs
      /\ new.output = o.output /\ new.relu = c.relu /\ new.fused = fused
  BY <1>2 DEF IsOperation, Fields
<1>4. IsOperation(new)
  BY <1>1, <1>3 DEF IsOperation
<1>5. QED
  BY <1>3, <1>4 DEF fused, new

LEMMA AbsorbedFields ==
  ASSUME NEW c, IsOperation(c), NEW o, NEW inputs, IsList(inputs)
  PROVE  LET new == [Absorb(c, o) EXCEPT !.inputs = inputs]
         IN  /\ IsOperation(new)
             /\ new.name = c.name /\ new.type = c.type /\ new.inputs = inputs
             /\ new.output = o.output /\ new.relu = c.relu
             /\ new.fused = Append(c.fused, o.name)
<1> DEFINE old == Absorb(c, o)
           new == [old EXCEPT !.inputs = inputs]
<1>1. /\ IsOperation(old) /\ old.name = c.name /\ old.type = c.type /\ old.output = o.output
      /\ old.relu = c.relu /\ old.fused = Append(c.fused, o.name)
  BY AbsorbFields
<1> HIDE DEF old
<1>2. /\ DOMAIN new = Fields /\ new.backend = old.backend
      /\ new.name = old.name /\ new.type = old.type /\ new.inputs = inputs
      /\ new.output = old.output /\ new.relu = old.relu /\ new.fused = old.fused
  BY <1>1 DEF IsOperation, Fields
<1> HIDE DEF new
<1>3. IsOperation(new)
  BY <1>1, <1>2 DEF IsOperation
<1>4. QED
  BY <1>1, <1>2, <1>3 DEF new, old

(* A convolution that has absorbed a rectification. *)
RectifiedBy(c, relu) == [Absorb(c, relu) EXCEPT !.relu = TRUE]

LEMMA RectifiedFields ==
  ASSUME NEW c, IsOperation(c), NEW o
  PROVE  LET new == RectifiedBy(c, o)
         IN  /\ IsOperation(new)
             /\ new.name = c.name /\ new.type = c.type /\ new.inputs = c.inputs
             /\ new.output = o.output /\ new.relu
             /\ new.fused = Append(c.fused, o.name)
<1> DEFINE old == Absorb(c, o)
           new == [old EXCEPT !.relu = TRUE]
<1>1. /\ IsOperation(old) /\ old.name = c.name /\ old.type = c.type /\ old.output = o.output
      /\ old.inputs = c.inputs /\ old.fused = Append(c.fused, o.name)
  BY AbsorbFields
<1> HIDE DEF old
<1>2. /\ DOMAIN new = Fields /\ new.backend = old.backend
      /\ new.name = old.name /\ new.type = old.type /\ new.inputs = old.inputs
      /\ new.output = old.output /\ new.relu /\ new.fused = old.fused
  BY <1>1 DEF IsOperation, Fields
<1> HIDE DEF new
<1>3. IsOperation(new)
  BY <1>1, <1>2 DEF IsOperation
<1>4. QED
  BY <1>1, <1>2, <1>3 DEF new, old, RectifiedBy

LEMMA BackendFields ==
  ASSUME NEW o, IsOperation(o), NEW backend, backend = Backend(o.type)
  PROVE  LET new == [o EXCEPT !.backend = backend]
         IN  /\ IsOperation(new)
             /\ new.name = o.name /\ new.type = o.type /\ new.inputs = o.inputs
             /\ new.output = o.output /\ new.relu = o.relu /\ new.fused = o.fused
<1> DEFINE new == [o EXCEPT !.backend = backend]
<1>1. /\ DOMAIN new = Fields /\ new.backend = Backend(o.type)
      /\ new.name = o.name /\ new.type = o.type /\ new.inputs = o.inputs
      /\ new.output = o.output /\ new.relu = o.relu /\ new.fused = o.fused
  BY DEF IsOperation, Fields
<1> HIDE DEF new
<1>2. IsOperation(new)
  BY <1>1 DEF IsOperation
<1>3. QED
  BY <1>1, <1>2 DEF new

-----------------------------------------------------------------------------
(* The graph hangs together: operations in the order of their numbers,     *)
(* whose tensors exist and are produced once.                              *)
AllFit(ops, tens) == \A o \in ToSet(ops) : Fits(o, tens)

Distinct(ops, gone) ==
  \A o, p \in ToSet(ops) :
    o.name \notin gone /\ p.name \notin gone /\ o.output = p.output => o = p

Numbered(ops) ==
  \A i \in DOMAIN ops : ops[i].name = i /\ ops[i].output = OutputOf(i)

WellBuilt ==
  /\ pass \in 0 .. 7 /\ ~refused
  /\ IsList(operations) /\ Sorted(operations)
  /\ AllFit(operations, tensors)
  /\ Distinct(operations, dropped)
  /\ todo \cap dropped = {}
  /\ pass \notin {1, 2} => dropped = {}
  /\ pass = 0 => Numbered(operations)

LEMMA WellFormedGraph ==
  ASSUME NEW ops, NEW tens, IsList(ops), Sorted(ops), AllFit(ops, tens), Distinct(ops, {})
  PROVE  WellFormed(ops, tens)
<1>1. ASSUME NEW o \in ToSet(ops) PROVE ToSet(o.inputs) \cup {o.output} \subseteq DOMAIN tens
  <2>1. Fits(o, tens)
    BY DEF AllFit
  <2>2. QED
    BY <2>1 DEF Fits, ToSet
<1>2. ASSUME NEW i \in DOMAIN ops, NEW j \in DOMAIN ops, ops[i].output = ops[j].output
      PROVE  i = j
  <2>1. ops[i] \in ToSet(ops) /\ ops[j] \in ToSet(ops)
    BY ListFacts
  <2>2. ops[i] = ops[j]
    BY <1>2, <2>1 DEF Distinct
  <2>3. QED
    BY <2>2, SortedNames
<1>3. QED
  BY <1>1, <1>2 DEF WellFormed

LEMMA FitsMore ==
  ASSUME NEW o, NEW tens, Fits(o, tens), NEW more, DOMAIN tens \subseteq DOMAIN more
  PROVE  Fits(o, more)
BY DEF Fits

LEMMA PutDomain ==
  ASSUME NEW tens, NEW name, NEW tensor
  PROVE  /\ DOMAIN Put(tens, name, tensor) = DOMAIN tens \cup {name}
         /\ Put(tens, name, tensor)[name] = tensor
         /\ \A t \in DOMAIN tens : t # name => Put(tens, name, tensor)[t] = tens[t]
BY DEF Put

(* One operation is rewritten in its place. *)
LEMMA Rewritten ==
  ASSUME NEW ops, IsList(ops), Sorted(ops), NEW tens, AllFit(ops, tens), NEW gone,
         NEW more, DOMAIN tens \subseteq DOMAIN more,
         NEW c \in ToSet(ops), NEW new, new.name = c.name, Fits(new, more)
  PROVE  LET after == Updated(ops, new)
         IN  /\ IsList(after) /\ Sorted(after) /\ AllFit(after, more)
             /\ ToSet(after) = (ToSet(ops) \ {c}) \cup {new}
<1> DEFINE after == Updated(ops, new)
<1>1. /\ IsList(after) /\ Sorted(after)
      /\ ToSet(after) = (ToSet(ops) \ {c}) \cup {new}
  BY UpdatedList
<1>2. \A o \in ToSet(ops) : Fits(o, more)
  BY FitsMore DEF AllFit
<1>3. AllFit(after, more)
  BY <1>1, <1>2 DEF AllFit
<1>4. QED
  BY <1>1, <1>3

(* One operation is rewritten and another, which it absorbs, taken out.    *)
LEMMA Absorbed ==
  ASSUME NEW ops, IsList(ops), Sorted(ops), NEW tens, AllFit(ops, tens), Distinct(ops, {}),
         NEW more, DOMAIN tens \subseteq DOMAIN more,
         NEW c \in ToSet(ops), NEW o \in ToSet(ops), c # o,
         NEW new, new.name = c.name, new.output = o.output, Fits(new, more)
  PROVE  LET after == Updated(Without(ops, {o.name}), new)
         IN  /\ IsList(after) /\ Sorted(after) /\ AllFit(after, more) /\ Distinct(after, {})
             /\ ToSet(after) = (ToSet(ops) \ {c, o}) \cup {new}
<1> DEFINE rest  == Without(ops, {o.name})
           after == Updated(rest, new)
<1>1. IsList(rest) /\ Sorted(rest) /\ ToSet(rest) = {p \in ToSet(ops) : p.name \notin {o.name}}
  BY WithoutList
<1>2. ToSet(rest) = ToSet(ops) \ {o} /\ c \in ToSet(rest)
  BY <1>1, SortedNames
<1>3. AllFit(rest, tens)
  BY <1>2 DEF AllFit
<1>4. /\ IsList(after) /\ Sorted(after) /\ AllFit(after, more)
      /\ ToSet(after) = (ToSet(rest) \ {c}) \cup {new}
  <2> HIDE DEF rest
  <2>1. QED
    BY <1>1, <1>2, <1>3, Rewritten
<1>5. ToSet(after) = (ToSet(ops) \ {c, o}) \cup {new}
  BY <1>2, <1>4
<1>6. \A p, q \in ToSet(ops) : p.output = q.output => p = q
  BY DEF Distinct
<1>7. Distinct(after, {})
  <2> HIDE DEF after
  <2>1. QED
    BY <1>5, <1>6 DEF Distinct
<1>8. QED
  BY <1>4, <1>5, <1>7

(* What fusion does with a convolution. *)
GraphOf(ops, tens) == [operations |-> ops, tensors |-> tens]

BiasedBy(ops, tens, c, add, b, h) ==
  LET name == unique_tensor_name(tens, "fused_bias", c.name)
  IN  /\ add \in single_consumer(GraphOf(ops, tens), c, "Add")
      /\ b \in AddedBias(GraphOf(ops, tens), c, add)
      /\ h.operations = Updated(Without(ops, {add.name}),
                          [Absorb(c, add) EXCEPT !.inputs = << c.inputs[1], c.inputs[2], name >>])
      /\ h.tensors = Put(tens, name,
                         BiasTensor(tens[add.output].shape[2],
                                    bias_steps(tens, c) \o tens[b].value.steps))

LEMMA WithBiasCases ==
  ASSUME NEW ops, NEW tens, NEW c
  PROVE  LET h == WithBias(GraphOf(ops, tens), c)
         IN  \/ h = GraphOf(ops, tens)
             \/ \E add, b : BiasedBy(ops, tens, c, add, b, h)
<1> DEFINE g == GraphOf(ops, tens)
           h == WithBias(g, c)
           add == CHOOSE o \in single_consumer(g, c, "Add") : AddedBias(g, c, o) # {}
           b == CHOOSE t \in AddedBias(g, c, add) : TRUE
<1>0. g.operations = ops /\ g.tensors = tens
  BY DEF GraphOf
<1>1. CASE \E o \in single_consumer(g, c, "Add") : AddedBias(g, c, o) # {}
  <2>1. add \in single_consumer(g, c, "Add") /\ AddedBias(g, c, add) # {}
    BY <1>1
  <2> HIDE DEF g
  <2>2. b \in AddedBias(g, c, add)
    BY <2>1
  <2>3. h = LET name  == unique_tensor_name(g.tensors, "fused_bias", c.name)
                fused == [Absorb(c, add) EXCEPT !.inputs = << c.inputs[1], c.inputs[2], name >>]
            IN  [operations |-> Updated(Without(g.operations, {add.name}), fused),
                 tensors |-> Put(g.tensors, name,
                               BiasTensor(g.tensors[add.output].shape[2],
                                          bias_steps(g.tensors, c) \o g.tensors[b].value.steps))]
    BY <1>1 DEF WithBias
  <2> HIDE DEF h, add, b
  <2>4. /\ h.operations = Updated(Without(ops, {add.name}),
              [Absorb(c, add) EXCEPT !.inputs =
                 << c.inputs[1], c.inputs[2], unique_tensor_name(tens, "fused_bias", c.name) >>])
        /\ h.tensors = Put(tens, unique_tensor_name(tens, "fused_bias", c.name),
                           BiasTensor(tens[add.output].shape[2],
                                      bias_steps(tens, c) \o tens[b].value.steps))
    BY <1>0, <2>3
  <2>5. BiasedBy(ops, tens, c, add, b, h)
    BY <2>1, <2>2, <2>4 DEF BiasedBy, g
  <2>6. QED
    BY <2>5 DEF h, g
<1>2. CASE ~\E o \in single_consumer(g, c, "Add") : AddedBias(g, c, o) # {}
  BY <1>2 DEF WithBias
<1>3. QED
  BY <1>1, <1>2

AbsorbsRelu(ops, tens, c, relu, h) ==
  /\ h.operations = Updated(Without(ops, {relu.name}), RectifiedBy(c, relu))
  /\ h.tensors = tens

LEMMA WithReluCases ==
  ASSUME NEW g, DOMAIN g = {"operations", "tensors"}, NEW c
  PROVE  LET h == WithRelu(g, c)
         IN  \/ h = g /\ single_consumer(g, c, "Relu") = {}
             \/ \E relu \in single_consumer(g, c, "Relu") :
                  AbsorbsRelu(g.operations, g.tensors, c, relu, h)
<1> DEFINE h == WithRelu(g, c)
           relu == CHOOSE o \in single_consumer(g, c, "Relu") : TRUE
<1>1. CASE single_consumer(g, c, "Relu") = {}
  BY <1>1 DEF WithRelu
<1>2. CASE single_consumer(g, c, "Relu") # {}
  <2>1. relu \in single_consumer(g, c, "Relu")
    BY <1>2
  <2>2. h = [g EXCEPT !.operations =
               Updated(Without(@, {relu.name}), RectifiedBy(c, relu))]
    BY <1>2 DEF WithRelu, RectifiedBy
  <2> DEFINE new == Updated(Without(g.operations, {relu.name}), RectifiedBy(c, relu))
  <2> HIDE DEF h, relu
  <2>3. h = [g EXCEPT !.operations = new]
    BY <2>2
  <2> HIDE DEF new
  <2>4. h.operations = new /\ h.tensors = g.tensors
    BY <2>3
  <2>5. QED
    BY <2>1, <2>4 DEF h, new, AbsorbsRelu
<1>3. QED
  BY <1>1, <1>2

-----------------------------------------------------------------------------
(* Import. *)
LEMMA NodeArity ==
  ASSUME NEW type \in NodeTypes, NEW inputs \in Operands(type)
  PROVE  /\ IsList(inputs) /\ \A i \in DOMAIN inputs : inputs[i] \in DOMAIN tensors
         /\ type = "Conv" => Len(inputs) \in {2, 3}
         /\ type \in {"Add", "BatchNormalization", "Reshape"} => Len(inputs) = 2
         /\ type \in {"Relu", "Softmax"} => Len(inputs) = 1
         /\ type = "Constant" => Len(inputs) = 0
<1> DEFINE D == DOMAIN tensors
<1>1. Images \subseteq D /\ Data \subseteq D /\ \A role : With(role) \subseteq D
  BY DEF Images, Data, With
<1>2. ASSUME inputs \in D \X D
      PROVE  IsList(inputs) /\ Len(inputs) = 2 /\ \A i \in DOMAIN inputs : inputs[i] \in D
  <2>1. PICK a \in D, b \in D : inputs = << a, b >>
    BY <1>2
  <2>2. inputs \in Seq(D) /\ Len(inputs) = 2
    BY <2>1
  <2>3. QED
    BY <2>2, ListOf, LenProperties
<1>3. ASSUME inputs \in D \X D \X D
      PROVE  IsList(inputs) /\ Len(inputs) = 3 /\ \A i \in DOMAIN inputs : inputs[i] \in D
  <2>1. PICK a \in D, b \in D, c \in D : inputs = << a, b, c >>
    BY <1>3
  <2>2. inputs \in Seq(D) /\ Len(inputs) = 3
    BY <2>1
  <2>3. QED
    BY <2>2, ListOf, LenProperties
<1>4. ASSUME NEW x \in D, inputs = << x >>
      PROVE  IsList(inputs) /\ Len(inputs) = 1 /\ \A i \in DOMAIN inputs : inputs[i] \in D
  <2>1. inputs \in Seq(D) /\ Len(inputs) = 1
    BY <1>4
  <2>2. QED
    BY <2>1, ListOf, LenProperties
<1>5. CASE type = "Conv"
  <2>1. inputs \in D \X D \/ inputs \in D \X D \X D
    BY <1>1, <1>5 DEF Operands
  <2>2. QED
    BY <1>2, <1>3, <1>5, <2>1
<1>6. CASE type \in {"Add", "BatchNormalization", "Reshape"}
  <2>1. inputs \in D \X D
    BY <1>1, <1>6 DEF Operands
  <2>2. QED
    BY <1>2, <1>6, <2>1
<1>7. CASE type \in {"Relu", "Softmax"}
  <2>1. PICK x \in D : inputs = << x >>
    BY <1>1, <1>7 DEF Operands
  <2>2. QED
    BY <1>4, <1>7, <2>1
<1>8. CASE type = "Constant"
  <2>1. inputs = << >>
    BY <1>8 DEF Operands
  <2>2. QED
    BY <1>8, <2>1, EmptyList
<1>9. QED
  BY <1>5, <1>6, <1>7, <1>8 DEF NodeTypes

LEMMA ImportedFields ==
  ASSUME NEW n \in Nat, NEW type, NEW inputs, IsList(inputs),
         NEW o, o = Imported(n, type, inputs)
  PROVE  /\ IsOperation(o)
         /\ o.name = n /\ o.type = type /\ o.inputs = inputs /\ o.output = OutputOf(n)
         /\ o.fused = << >>
<1>1. /\ DOMAIN o = Fields /\ o.backend = Backend(type)
      /\ o.name = n /\ o.type = type /\ o.inputs = inputs /\ o.output = OutputOf(n)
      /\ o.relu = FALSE /\ o.fused = << >>
  BY DEF Imported, Fields
<1>2. IsOperation(o)
  BY <1>1, EmptyList DEF IsOperation
<1>3. QED
  BY <1>1, <1>2

LEMMA ImportedPlain ==
  ASSUME NEW n, NEW type, NEW inputs, NEW o, o = Imported(n, type, inputs)
  PROVE  ~o.relu
BY DEF Imported

LEMMA MenuTypes ==
  ASSUME NEW n \in DOMAIN Menu
  PROVE  Menu[n] \subseteq NodeTypes
<1>1. Menu \in Seq(SUBSET NodeTypes)
  BY GraphAssumption DEF GraphAssumption
<1>2. Menu[n] \in SUBSET NodeTypes
  BY <1>1
<1>3. QED
  BY <1>2

LEMMA ImportNodeWellBuilt ==
  ASSUME WellBuilt, ImportNode PROVE WellBuilt'
<1> DEFINE n == Len(operations) + 1
<1>1. IsList(operations) /\ Len(operations) \in Nat /\ DOMAIN operations = 1 .. Len(operations)
  BY ListFacts DEF WellBuilt
<1>2. /\ pass = 0 /\ n \in Nat /\ n \in DOMAIN Menu
      /\ UNCHANGED << pass, todo, dropped, refused >>
  <2>1. Len(Menu) \in Nat /\ DOMAIN Menu = 1 .. Len(Menu)
    BY GraphAssumption, LenProperties DEF GraphAssumption
  <2>2. QED
    BY <1>1, <2>1 DEF ImportNode
<1>3. PICK type \in Menu[n] : \E inputs \in Operands(type) :
           /\ operations' = Append(operations, Imported(n, type, inputs))
           /\ tensors' = Put(tensors, OutputOf(n), ResultTensor(type, inputs, n))
  BY DEF ImportNode
<1>4. PICK inputs \in Operands(type) :
           /\ operations' = Append(operations, Imported(n, type, inputs))
           /\ tensors' = Put(tensors, OutputOf(n), ResultTensor(type, inputs, n))
  BY <1>3
<1>0. PICK o : o = Imported(n, type, inputs)
  OBVIOUS
<1>5. type \in NodeTypes
  BY <1>2, MenuTypes
<1> HIDE DEF n
<1>6. IsList(inputs) /\ \A i \in DOMAIN inputs : inputs[i] \in DOMAIN tensors
  BY <1>5, NodeArity
<1>7. /\ IsOperation(o)
      /\ o.name = n /\ o.type = type /\ o.inputs = inputs /\ o.output = OutputOf(n)
  <2>1. n \in Nat /\ IsList(inputs)
    BY <1>2, <1>6
  <2>2. QED
    BY <1>0, <2>1, ImportedFields
<1>8. DOMAIN tensors' = DOMAIN tensors \cup {OutputOf(n)}
  BY <1>4, PutDomain
<1>9. Fits(o, tensors')
  <2>1. Arity(o)
    <3>1. o.type \in NodeTypes /\ o.type = type /\ o.inputs = inputs
      BY <1>5, <1>7
    <3>2. /\ type = "Conv" => Len(inputs) \in {2, 3}
          /\ type \in {"Add", "BatchNormalization", "Reshape"} => Len(inputs) = 2
          /\ type \in {"Relu", "Softmax"} => Len(inputs) = 1
          /\ type = "Constant" => Len(inputs) = 0
      BY <1>5, NodeArity
    <3>3. type # "View"
      BY <1>5 DEF NodeTypes
    <3>4. QED
      BY <3>1, <3>2, <3>3 DEF Arity
  <2>2. QED
    BY <1>6, <1>7, <1>8, <2>1 DEF Fits
<1>10. /\ IsList(operations') /\ DOMAIN operations' = 1 .. Len(operations) + 1
       /\ ToSet(operations') = ToSet(operations) \cup {o}
       /\ \A i \in DOMAIN operations : operations'[i] = operations[i]
       /\ operations'[Len(operations) + 1] = o
  BY <1>1, <1>4, AppendList, <1>0
<1>11. Numbered(operations')
  <2>1. ASSUME NEW i \in DOMAIN operations' PROVE operations'[i].name = i /\ operations'[i].output = OutputOf(i)
    <3>1. CASE i = Len(operations) + 1
      BY <1>7, <1>10, <3>1 DEF n
    <3>2. CASE i # Len(operations) + 1
      <4>1. i \in DOMAIN operations
        BY <1>1, <1>10, <3>2
      <4>2. QED
        BY <1>2, <1>10, <4>1 DEF WellBuilt, Numbered
    <3>3. QED
      BY <3>1, <3>2
  <2>2. QED
    BY <2>1 DEF Numbered
<1>12. Sorted(operations')
  <2>1. \A p \in ToSet(operations') : p.name \in Nat
    BY <1>2, <1>7, <1>10 DEF WellBuilt, Sorted
  <2>2. \A i, j \in DOMAIN operations' : i < j => operations'[i].name < operations'[j].name
    BY <1>11 DEF Numbered
  <2>3. QED
    BY <2>1, <2>2 DEF Sorted
<1>13. AllFit(operations', tensors')
  <2>1. \A p \in ToSet(operations) : Fits(p, tensors')
    BY <1>8, FitsMore DEF WellBuilt, AllFit
  <2>2. QED
    BY <1>9, <1>10, <2>1 DEF AllFit
<1>14. Distinct(operations', dropped')
  <2>1. ASSUME NEW p \in ToSet(operations'), NEW q \in ToSet(operations'), p.output = q.output
        PROVE  p = q
    <3>1. PICK i \in DOMAIN operations' : p = operations'[i]
      BY <1>10, ListFacts
    <3>2. PICK j \in DOMAIN operations' : q = operations'[j]
      BY <1>10, ListFacts
    <3>3. OutputOf(i) = OutputOf(j)
      BY <1>11, <2>1, <3>1, <3>2 DEF Numbered
    <3>4. i = j
      BY <3>3 DEF OutputOf
    <3>5. QED
      BY <3>1, <3>2, <3>4
  <2>2. QED
    BY <2>1 DEF Distinct
<1>15. QED
  BY <1>2, <1>10, <1>11, <1>12, <1>13, <1>14 DEF WellBuilt

LEMMA FinishImportWellBuilt ==
  ASSUME WellBuilt, FinishImport PROVE WellBuilt'
<1>1. pass = 0 /\ pass' = 1 /\ UNCHANGED << operations, tensors, dropped, refused >>
  BY DEF FinishImport
<1>2. dropped = {}
  BY <1>1 DEF WellBuilt
<1>3. QED
  BY <1>1, <1>2 DEF WellBuilt

-----------------------------------------------------------------------------
(* Dead code. *)
IsLive(F, ops, outs) ==
  F = [n \in 0 .. Len(ops) |->
         IF n = Len(ops) THEN outs
         ELSE LET o     == ops[n + 1]
                  after == F[n + 1]
              IN  IF o.output \in after THEN after \cup ToSet(o.inputs) ELSE after]

LiveDownTo(F, ops, outs, k) ==
  F = [n \in Len(ops) - k .. Len(ops) |->
         IF n = Len(ops) THEN outs
         ELSE LET o     == ops[n + 1]
                  after == F[n + 1]
              IN  IF o.output \in after THEN after \cup ToSet(o.inputs) ELSE after]

LEMMA LiveExists ==
  ASSUME NEW ops, Len(ops) \in Nat, NEW outs
  PROVE  IsLive(LiveAfter(ops, outs), ops, outs)
<1> DEFINE top == Len(ops)
           P == {k \in 0 .. top : \E F : LiveDownTo(F, ops, outs, k)}
<1>1. 0 \in P
  <2> DEFINE F == [n \in top - 0 .. top |-> outs]
  <2>1. LiveDownTo(F, ops, outs, 0)
    BY DEF LiveDownTo
  <2>2. QED
    BY <2>1
<1>2. ASSUME NEW k \in 0 .. top - 1, k \in P PROVE k + 1 \in P
  <2>1. PICK F : LiveDownTo(F, ops, outs, k)
    BY <1>2
  <2> DEFINE new   == top - (k + 1)
             o     == ops[new + 1]
             after == F[new + 1]
             more == IF o.output \in after THEN after \cup ToSet(o.inputs) ELSE after
             G == [n \in new .. top |-> IF n = new THEN more ELSE F[n]]
  <2>2. ASSUME NEW n \in new .. top
        PROVE  G[n] = IF n = top THEN outs
                      ELSE LET p    == ops[n + 1]
                               rest == G[n + 1]
                           IN  IF p.output \in rest THEN rest \cup ToSet(p.inputs) ELSE rest
    <3>1. CASE n = new
      <4>1. n # top /\ new + 1 # new /\ new + 1 \in new .. top
        BY <3>1
      <4>2. G[new + 1] = after /\ G[n] = more
        BY <3>1, <4>1
      <4>3. QED
        BY <3>1, <4>1, <4>2
    <3>2. CASE n = top
      <4>1. n # new /\ n \in top - k .. top
        BY <3>2
      <4>2. F[n] = outs
        BY <2>1, <3>2, <4>1 DEF LiveDownTo
      <4>3. QED
        BY <3>2, <4>1, <4>2
    <3>3. CASE n # new /\ n # top
      <4>1. n \in top - k .. top /\ n + 1 \in new .. top /\ n + 1 # new
        BY <3>3
      <4>2. F[n] = LET p    == ops[n + 1]
                       rest == F[n + 1]
                   IN  IF p.output \in rest THEN rest \cup ToSet(p.inputs) ELSE rest
        BY <2>1, <3>3, <4>1 DEF LiveDownTo
      <4>3. G[n] = F[n] /\ G[n + 1] = F[n + 1]
        BY <3>3, <4>1
      <4>4. QED
        BY <3>3, <4>2, <4>3
    <3>4. QED
      BY <3>1, <3>2, <3>3
  <2>3. LiveDownTo(G, ops, outs, k + 1)
    <3>1. G = [n \in new .. top |-> G[n]]
      OBVIOUS
    <3> HIDE DEF G
    <3>2. QED
      BY <2>2, <3>1 DEF LiveDownTo
  <2>4. k + 1 \in 0 .. top
    OBVIOUS
  <2> HIDE DEF G
  <2>5. QED
    BY <2>3, <2>4
<1>3. top \in P
  <2> HIDE DEF P
  <2>1. \A k \in 0 .. top : k \in P
    BY <1>1, <1>2, CountUp
  <2>2. QED
    BY <2>1
<1>4. \E F : IsLive(F, ops, outs)
  <2>1. PICK F : LiveDownTo(F, ops, outs, top)
    BY <1>3
  <2>2. top - top = 0
    OBVIOUS
  <2>3. IsLive(F, ops, outs)
    BY <2>1, <2>2 DEF LiveDownTo, IsLive
  <2>4. QED
    BY <2>3
<1> DEFINE G == CHOOSE F : IsLive(F, ops, outs)
<1>5. IsLive(G, ops, outs)
  BY <1>4
<1>6. LiveAfter(ops, outs) = G
  BY DEF LiveAfter, IsLive
<1>7. QED
  BY <1>5, <1>6

LEMMA LiveFacts ==
  ASSUME NEW ops, IsList(ops), NEW outs
  PROVE  LET F == LiveAfter(ops, outs)
         IN  /\ \A t \in outs : t \in F[0]
             /\ \A n \in DOMAIN ops : ops[n].output \in F[n] =>
                  /\ ops[n].output \in F[0]
                  /\ \A i \in DOMAIN ops[n].inputs : ops[n].inputs[i] \in F[0]
             /\ \A n, k \in DOMAIN ops : \A i \in DOMAIN ops[n].inputs :
                  ops[n].output \in F[n] /\ k < n => ops[n].inputs[i] \in F[k]
             /\ \A k \in DOMAIN ops : \A t \in outs : t \in F[k]
<1> DEFINE F == LiveAfter(ops, outs)
           top == Len(ops)
<1>1. top \in Nat /\ DOMAIN ops = 1 .. top
  BY ListFacts
<1>2. IsLive(F, ops, outs)
  BY <1>1, LiveExists
<1> HIDE DEF F
<1>3. F[top] = outs
  <2>1. top \in 0 .. Len(ops)
    BY <1>1
  <2>2. QED
    BY <1>2, <2>1 DEF IsLive
<1>4. ASSUME NEW n \in 1 .. top
      PROVE  /\ F[n] \subseteq F[n - 1]
             /\ ops[n].output \in F[n] => \A i \in DOMAIN ops[n].inputs : ops[n].inputs[i] \in F[n - 1]
  <2>1. n - 1 \in 0 .. top /\ n - 1 # top /\ (n - 1) + 1 = n
    BY <1>1
  <2>2. F[n - 1] = IF ops[n].output \in F[n] THEN F[n] \cup ToSet(ops[n].inputs) ELSE F[n]
    BY <1>2, <2>1 DEF IsLive
  <2>3. QED
    BY <2>2 DEF ToSet
<1>5. ASSUME NEW n \in 0 .. top, NEW x \in F[n] PROVE \A k \in 0 .. n : x \in F[n - k]
  <2> DEFINE P == {k \in 0 .. n : x \in F[n - k]}
  <2>1. 0 \in P
    <3>1. n - 0 = n
      OBVIOUS
    <3>2. QED
      BY <1>5, <3>1
  <2>2. ASSUME NEW k \in 0 .. n - 1, k \in P PROVE k + 1 \in P
    <3>1. n - k \in 1 .. top /\ (n - k) - 1 = n - (k + 1) /\ k + 1 \in 0 .. n
      BY <1>1
    <3>2. F[n - k] \subseteq F[n - (k + 1)]
      BY <1>4, <3>1
    <3>3. QED
      BY <2>2, <3>1, <3>2
  <2> HIDE DEF P
  <2>3. \A k \in 0 .. n : k \in P
    BY <1>1, <2>1, <2>2, CountUp
  <2>4. QED
    BY <2>3 DEF P
<1>6. ASSUME NEW n \in 0 .. top, NEW k \in 0 .. n, NEW x \in F[n] PROVE x \in F[k]
  <2>1. n - k \in 0 .. n /\ n - (n - k) = k
    BY <1>1
  <2>2. QED
    BY <1>5, <2>1
<1>7. ASSUME NEW n \in 1 .. top, NEW i \in DOMAIN ops[n].inputs, ops[n].output \in F[n],
             NEW k \in 0 .. top, k < n
      PROVE  ops[n].inputs[i] \in F[k]
  <2>1. n - 1 \in 0 .. top /\ k \in 0 .. n - 1
    BY <1>1, <1>7
  <2>2. ops[n].inputs[i] \in F[n - 1]
    BY <1>4, <1>7
  <2>3. QED
    BY <1>6, <2>1, <2>2
<1>8. \A n \in 1 .. top : ops[n].output \in F[n] => ops[n].output \in F[0]
  BY <1>1, <1>6
<1>9. \A n \in 1 .. top : ops[n].output \in F[n] =>
         \A i \in DOMAIN ops[n].inputs : ops[n].inputs[i] \in F[0]
  BY <1>1, <1>7
<1>10. \A k \in 0 .. top : \A t \in outs : t \in F[k]
  BY <1>1, <1>3, <1>6
<1>11. QED
  BY <1>1, <1>7, <1>8, <1>9, <1>10 DEF F

-----------------------------------------------------------------------------
(* The passes. *)
LEMMA RunningPass ==
  ASSUME pass \in 0 .. 7
  PROVE  /\ Running("fold_constants") => pass = 1
         /\ Running("fold_batch_normalization") => pass = 2
         /\ Running("fuse_conv_bias_relu") => pass = 3
         /\ Running("canonicalize_shape_operations") => pass = 4
         /\ Running("eliminate_dead_code") => pass = 5
         /\ Running("assign_backends") => pass = 6
<1>1. DOMAIN Pipeline = 1 .. 6
  BY DEF Pipeline
<1>2. /\ Pipeline[1] = "fold_constants" /\ Pipeline[2] = "fold_batch_normalization"
      /\ Pipeline[3] = "fuse_conv_bias_relu" /\ Pipeline[4] = "canonicalize_shape_operations"
      /\ Pipeline[5] = "eliminate_dead_code" /\ Pipeline[6] = "assign_backends"
  BY DEF Pipeline
<1>3. \A n \in 1 .. 6 : n = 1 \/ n = 2 \/ n = 3 \/ n = 4 \/ n = 5 \/ n = 6
  OBVIOUS
<1>4. QED
  BY <1>1, <1>2, <1>3 DEF Running

LEMMA VisitedRemain ==
  ASSUME WellBuilt, NEW o, Visits(o), NEW gone, gone \in {dropped, dropped \cup {o.name}}
  PROVE  o.name \notin dropped /\ (todo \ {o.name}) \cap gone = {}
BY DEF WellBuilt, Visits

LEMMA DistinctMore ==
  ASSUME NEW ops, NEW gone, NEW more, Distinct(ops, gone), gone \subseteq more
  PROVE  Distinct(ops, more)
BY DEF Distinct

LEMMA FoldAddWellBuilt ==
  ASSUME WellBuilt, NEW o \in ToSet(operations), DropConstant(o) \/ FoldAdd(o)
  PROVE  WellBuilt'
<1>1. /\ Running("fold_constants") /\ Visits(o)
      /\ dropped' = dropped \cup {o.name} /\ todo' = todo \ {o.name}
      /\ UNCHANGED << operations, pass, refused >>
  BY DEF DropConstant, FoldAdd, EndVisit
<1>2. pass = 1
  BY <1>1, RunningPass DEF WellBuilt
<1>3. DOMAIN tensors' = DOMAIN tensors
  BY DEF DropConstant, FoldAdd
<1>4. AllFit(operations, tensors')
  BY <1>3, FitsMore DEF WellBuilt, AllFit
<1>5. Distinct(operations, dropped')
  BY <1>1, DistinctMore DEF WellBuilt
<1>6. todo' \cap dropped' = {}
  BY <1>1, VisitedRemain
<1>7. QED
  BY <1>1, <1>2, <1>4, <1>5, <1>6 DEF WellBuilt

FoldedInto(bn, c) ==
  LET id      == tensors[bn.inputs[2]].value.id
      weights == private_weights(c)
      bias    == unique_tensor_name(tensors, "bn_bias", c.name)
      folded  == [tensors[c.inputs[2]] EXCEPT !.value.scales = Append(@, id)]
      steps   == Append(bias_steps(tensors, c), id)
  IN  /\ tensors' = Put(Put(tensors, weights, folded), bias,
                        BiasTensor(Shape(c.inputs[2])[1], steps))
      /\ operations' =
           Updated(operations, [Absorb(c, bn) EXCEPT !.inputs = << c.inputs[1], weights, bias >>])

LEMMA FoldedGraph ==
  ASSUME WellBuilt, NEW bn \in ToSet(operations), FoldNormalization(bn)
  PROVE  \E c \in ConvolutionsOf(bn) : \E new :
           LET weights == private_weights(c)
               bias    == unique_tensor_name(tensors, "bn_bias", c.name)
           IN  /\ FoldedInto(bn, c)
               /\ DOMAIN tensors' = DOMAIN tensors \cup {weights, bias}
               /\ Fits(new, tensors') /\ new.name = c.name /\ new.type = "Conv"
               /\ new.inputs = << c.inputs[1], weights, bias >> /\ new.output = bn.output
               /\ new.relu = c.relu /\ new.fused = Append(c.fused, bn.name)
               /\ IsList(operations') /\ Sorted(operations') /\ AllFit(operations', tensors')
               /\ ToSet(operations') = (ToSet(operations) \ {c}) \cup {new}
<1>1. PICK c \in ConvolutionsOf(bn) : FoldedInto(bn, c)
  BY DEF FoldNormalization, FoldedInto
<1> DEFINE weights == private_weights(c)
           bias    == unique_tensor_name(tensors, "bn_bias", c.name)
<1> HIDE DEF weights, bias
<1>2. PICK inputs : inputs = << c.inputs[1], weights, bias >>
  OBVIOUS
<1>3. PICK new : new = [Absorb(c, bn) EXCEPT !.inputs = inputs]
  OBVIOUS
<1>4. c \in ToSet(operations) /\ c.type = "Conv"
  BY DEF ConvolutionsOf
<1>5. Fits(c, tensors)
  BY <1>4 DEF WellBuilt, AllFit
<1>6. DOMAIN tensors' = DOMAIN tensors \cup {weights, bias}
  <2>1. PICK one, two : tensors' = Put(Put(tensors, weights, one), bias, two)
    BY <1>1 DEF FoldedInto, weights, bias
  <2>2. PICK inner : inner = Put(tensors, weights, one)
    OBVIOUS
  <2>3. DOMAIN inner = DOMAIN tensors \cup {weights}
    BY <2>2, PutDomain
  <2>4. DOMAIN tensors' = DOMAIN inner \cup {bias}
    BY <2>1, <2>2, PutDomain
  <2>5. QED
    BY <2>3, <2>4
<1>7. c.inputs[1] \in DOMAIN tensors
  BY <1>4, <1>5, InputPlaces DEF Fits
<1>8. /\ IsList(inputs) /\ Len(inputs) = 3
      /\ \A i \in DOMAIN inputs : inputs[i] \in DOMAIN tensors'
  <2>1. inputs \in Seq(DOMAIN tensors') /\ Len(inputs) = 3
    BY <1>2, <1>6, <1>7
  <2>2. QED
    BY <2>1, ListOf, LenProperties
<1>9. /\ IsOperation(new) /\ new.name = c.name /\ new.type = c.type /\ new.inputs = inputs
      /\ new.output = bn.output /\ new.relu = c.relu /\ new.fused = Append(c.fused, bn.name)
  BY <1>3, <1>5, <1>8, AbsorbedFields DEF Fits
<1>10. bn.output \in DOMAIN tensors
  BY DEF WellBuilt, AllFit, Fits
<1>11. Fits(new, tensors')
  <2>1. Arity(new)
    BY <1>4, <1>8, <1>9 DEF Arity, NodeTypes
  <2>2. QED
    BY <1>6, <1>8, <1>9, <1>10, <2>1 DEF Fits
<1>12. /\ IsList(operations') /\ Sorted(operations') /\ AllFit(operations', tensors')
       /\ ToSet(operations') = (ToSet(operations) \ {c}) \cup {new}
  <2>1. operations' = Updated(operations, new)
    BY <1>1, <1>2, <1>3 DEF FoldedInto, weights, bias
  <2>2. QED
    BY <1>4, <1>6, <1>9, <1>11, <2>1, Rewritten DEF WellBuilt
<1>13. QED
  BY <1>1, <1>2, <1>4, <1>6, <1>9, <1>11, <1>12 DEF weights, bias

LEMMA FoldNormalizationWellBuilt ==
  ASSUME WellBuilt, NEW bn \in ToSet(operations), FoldNormalization(bn)
  PROVE  WellBuilt'
<1>1. /\ Running("fold_batch_normalization") /\ Visits(bn)
      /\ dropped' = dropped \cup {bn.name} /\ todo' = todo \ {bn.name}
      /\ UNCHANGED << pass, refused >>
  BY DEF FoldNormalization, EndVisit
<1>2. pass = 2
  BY <1>1, RunningPass DEF WellBuilt
<1>3. PICK c, new :
         /\ new.output = bn.output
         /\ IsList(operations') /\ Sorted(operations') /\ AllFit(operations', tensors')
         /\ ToSet(operations') = (ToSet(operations) \ {c}) \cup {new}
  BY FoldedGraph
<1>4. bn.name \notin dropped /\ todo' \cap dropped' = {}
  BY <1>1, VisitedRemain
<1>5. Distinct(operations', dropped')
  <2>1. \A p \in ToSet(operations) :
           p.name \notin dropped' => p.name \notin dropped /\ p.output # bn.output
    BY <1>1, <1>4 DEF WellBuilt, Distinct
  <2>2. QED
    BY <1>1, <1>3, <2>1 DEF WellBuilt, Distinct
<1>6. QED
  BY <1>1, <1>2, <1>3, <1>4, <1>5 DEF WellBuilt

(* Fusion. *)
LEMMA GraphOfIs ==
  ASSUME NEW ops, NEW tens
  PROVE  /\ GraphOf(ops, tens).operations = ops /\ GraphOf(ops, tens).tensors = tens
         /\ DOMAIN GraphOf(ops, tens) = {"operations", "tensors"}
BY DEF GraphOf

LEMMA SingleConsumer ==
  ASSUME NEW g, NEW c, NEW type, NEW o \in single_consumer(g, c, type)
  PROVE  /\ o \in ToSet(g.operations) /\ o.type = type /\ c.output \notin outputs
         /\ OnlyConsumer(g.operations, c.output) = {o.name}
BY DEF single_consumer

LEMMA BiasedGraph ==
  ASSUME NEW ops, IsList(ops), Sorted(ops), NEW tens, AllFit(ops, tens), Distinct(ops, {}),
         NEW c \in ToSet(ops), c.type = "Conv", NEW add, NEW b, NEW h,
         BiasedBy(ops, tens, c, add, b, h)
  PROVE  LET name == unique_tensor_name(tens, "fused_bias", c.name)
         IN  /\ IsList(h.operations) /\ Sorted(h.operations) /\ AllFit(h.operations, h.tensors)
             /\ Distinct(h.operations, {})
             /\ add \in ToSet(ops) /\ add.type = "Add"
             /\ \E new \in ToSet(h.operations) :
                  /\ ToSet(h.operations) = (ToSet(ops) \ {c, add}) \cup {new}
                  /\ new.name = c.name /\ new.type = c.type /\ new.output = add.output
                  /\ new.inputs = << c.inputs[1], c.inputs[2], name >>
                  /\ new.relu = c.relu /\ new.fused = Append(c.fused, add.name)
<1> DEFINE name == unique_tensor_name(tens, "fused_bias", c.name)
<1> HIDE DEF name
<1>1. add \in ToSet(ops) /\ add.type = "Add"
  BY SingleConsumer, GraphOfIs DEF BiasedBy
<1>2. PICK inputs : inputs = << c.inputs[1], c.inputs[2], name >>
  OBVIOUS
<1>3. PICK new : new = [Absorb(c, add) EXCEPT !.inputs = inputs]
  OBVIOUS
<1>4. h.operations = Updated(Without(ops, {add.name}), new)
  BY <1>2, <1>3 DEF BiasedBy, name
<1>5. DOMAIN h.tensors = DOMAIN tens \cup {name}
  <2>1. PICK bias : h.tensors = Put(tens, name, bias)
    BY DEF BiasedBy, name
  <2>2. DOMAIN Put(tens, name, bias) = DOMAIN tens \cup {name}
    BY PutDomain
  <2>3. QED
    BY <2>1, <2>2
<1>6. Fits(c, tens) /\ Fits(add, tens)
  BY <1>1 DEF AllFit
<1>7. c.inputs[1] \in DOMAIN tens /\ c.inputs[2] \in DOMAIN tens
  BY <1>6, InputPlaces DEF Fits
<1>8. /\ IsList(inputs) /\ Len(inputs) = 3
      /\ \A i \in DOMAIN inputs : inputs[i] \in DOMAIN h.tensors
  <2>1. inputs \in Seq(DOMAIN h.tensors) /\ Len(inputs) = 3
    BY <1>2, <1>5, <1>7
  <2>2. QED
    BY <2>1, ListOf, LenProperties
<1>9. /\ IsOperation(new) /\ new.name = c.name /\ new.type = c.type /\ new.inputs = inputs
      /\ new.output = add.output /\ new.relu = c.relu /\ new.fused = Append(c.fused, add.name)
  BY <1>3, <1>6, <1>8, AbsorbedFields DEF Fits
<1>10. Fits(new, h.tensors)
  <2>1. Arity(new)
    BY <1>8, <1>9 DEF Arity, NodeTypes
  <2>2. add.output \in DOMAIN h.tensors
    BY <1>5, <1>6 DEF Fits
  <2>3. QED
    BY <1>8, <1>9, <2>1, <2>2 DEF Fits
<1>11. c # add
  BY <1>1
<1>12. /\ IsList(h.operations) /\ Sorted(h.operations) /\ AllFit(h.operations, h.tensors)
       /\ Distinct(h.operations, {})
       /\ ToSet(h.operations) = (ToSet(ops) \ {c, add}) \cup {new}
  BY <1>1, <1>4, <1>5, <1>9, <1>10, <1>11, Absorbed
<1>13. new \in ToSet(h.operations)
  BY <1>12
<1>14. QED
  BY <1>1, <1>2, <1>9, <1>12, <1>13 DEF name

LEMMA RectifiedGraph ==
  ASSUME NEW ops, IsList(ops), Sorted(ops), NEW tens, AllFit(ops, tens), Distinct(ops, {}),
         NEW c \in ToSet(ops), c.type = "Conv",
         NEW relu \in ToSet(ops), relu.type = "Relu", NEW h,
         AbsorbsRelu(ops, tens, c, relu, h)
  PROVE  /\ IsList(h.operations) /\ Sorted(h.operations) /\ AllFit(h.operations, h.tensors)
         /\ Distinct(h.operations, {})
         /\ \E new \in ToSet(h.operations) :
              /\ ToSet(h.operations) = (ToSet(ops) \ {c, relu}) \cup {new}
              /\ new.name = c.name /\ new.type = c.type /\ new.output = relu.output
              /\ new.inputs = c.inputs /\ new.relu /\ new.fused = Append(c.fused, relu.name)
<1>1. PICK new : new = RectifiedBy(c, relu)
  OBVIOUS
<1>2. h.operations = Updated(Without(ops, {relu.name}), new) /\ h.tensors = tens
  BY <1>1 DEF AbsorbsRelu
<1>3. Fits(c, tens) /\ Fits(relu, tens)
  BY DEF AllFit
<1>4. /\ IsOperation(new) /\ new.name = c.name /\ new.type = c.type /\ new.inputs = c.inputs
      /\ new.output = relu.output /\ new.relu /\ new.fused = Append(c.fused, relu.name)
  BY <1>1, <1>3, RectifiedFields DEF Fits
<1>5. Fits(new, tens)
  <2>1. Arity(new)
    BY <1>3, <1>4 DEF Arity, Fits, NodeTypes
  <2>2. QED
    BY <1>3, <1>4, <2>1 DEF Fits
<1>6. c # relu
  OBVIOUS
<1>7. /\ IsList(h.operations) /\ Sorted(h.operations) /\ AllFit(h.operations, h.tensors)
      /\ Distinct(h.operations, {})
      /\ ToSet(h.operations) = (ToSet(ops) \ {c, relu}) \cup {new}
  <2>1. PICK after : after = Updated(Without(ops, {relu.name}), new)
    OBVIOUS
  <2>2. /\ IsList(after) /\ Sorted(after) /\ AllFit(after, tens) /\ Distinct(after, {})
        /\ ToSet(after) = (ToSet(ops) \ {c, relu}) \cup {new}
    BY <1>4, <1>5, <1>6, <2>1, Absorbed
  <2>3. QED
    BY <1>2, <2>1, <2>2
<1>8. new \in ToSet(h.operations)
  BY <1>7
<1>9. QED
  BY <1>4, <1>7, <1>8

LEMMA FuseWellBuilt ==
  ASSUME WellBuilt, NEW c \in ToSet(operations), FuseConvolution(c)
  PROVE  WellBuilt'
<1>1. /\ Running("fuse_conv_bias_relu") /\ c.type = "Conv"
      /\ UNCHANGED << pass, dropped >> /\ rebuild_links
  BY DEF FuseConvolution
<1>2. pass = 3 /\ dropped = {}
  BY <1>1, RunningPass DEF WellBuilt
<1> DEFINE Well(h) == /\ IsList(h.operations) /\ Sorted(h.operations)
                      /\ AllFit(h.operations, h.tensors) /\ Distinct(h.operations, {})
           g      == GraphOf(operations, tensors)
           biased == WithBias(g, c)
           c2     == Named(biased.operations, c.name)
           fused  == WithRelu(biased, c2)
<1>3. operations' = fused.operations /\ tensors' = fused.tensors
  BY DEF FuseConvolution, GraphOf
<1>4. Well(g) /\ g.operations = operations /\ g.tensors = tensors /\ DOMAIN g = {"operations", "tensors"}
  BY <1>2, GraphOfIs DEF WellBuilt
<1>5. /\ Well(biased) /\ DOMAIN biased = {"operations", "tensors"}
      /\ \E o \in ToSet(biased.operations) : o.name = c.name /\ o.type = "Conv"
  <2>1. CASE biased = g
    BY <1>1, <1>4, <2>1
  <2>2. CASE biased # g
    <3>1. PICK add, b : BiasedBy(operations, tensors, c, add, b, biased)
      BY <2>2, WithBiasCases
    <3>2. DOMAIN biased = {"operations", "tensors"}
      BY <2>2 DEF WithBias
    <3> HIDE DEF biased
    <3>3. QED
      BY <1>1, <1>2, <3>1, <3>2, BiasedGraph DEF WellBuilt
  <2>3. QED
    BY <2>1, <2>2
<1> HIDE DEF biased
<1>6. c2 \in ToSet(biased.operations) /\ c2.name = c.name /\ c2.type = "Conv"
  BY <1>5, NamedIs
<1> HIDE DEF c2
<1>7. Well(fused)
  <2>1. CASE fused = biased
    BY <1>5, <2>1
  <2>2. CASE fused # biased
    <3>1. PICK relu \in single_consumer(biased, c2, "Relu") :
             AbsorbsRelu(biased.operations, biased.tensors, c2, relu, fused)
      BY <1>5, <2>2, WithReluCases
    <3>2. relu \in ToSet(biased.operations) /\ relu.type = "Relu"
      BY SingleConsumer
    <3> HIDE DEF fused
    <3>3. QED
      BY <1>5, <1>6, <3>1, <3>2, RectifiedGraph
  <2>3. QED
    BY <2>1, <2>2
<1> HIDE DEF fused
<1>8. /\ IsList(operations') /\ Sorted(operations')
      /\ AllFit(operations', tensors') /\ Distinct(operations', {})
  BY <1>3, <1>7
<1>9. ~refused'
  BY <1>1, <1>8, WellFormedGraph DEF rebuild_links
<1>10. QED
  BY <1>1, <1>2, <1>8, <1>9 DEF WellBuilt

(* The passes that only annotate, and a turn that changes nothing. *)
LEMMA CanonicalOperation ==
  ASSUME WellBuilt, NEW o \in ToSet(operations), Canonicalize(o)
  PROVE  \E new :
           /\ Fits(new, tensors) /\ new.name = o.name /\ new.type = "View"
           /\ new.inputs = << o.inputs[1] >> /\ new.output = o.output
           /\ new.relu = o.relu /\ new.fused = o.fused
           /\ IsList(operations') /\ Sorted(operations') /\ AllFit(operations', tensors)
           /\ ToSet(operations') = (ToSet(operations) \ {o}) \cup {new}
<1>1. o.type = "Reshape"
  BY DEF Canonicalize
<1>2. PICK inputs : inputs = << o.inputs[1] >>
  OBVIOUS
<1>3. PICK new : new = [o EXCEPT !.type = "View", !.inputs = inputs, !.backend = "metadata"]
  OBVIOUS
<1>4. operations' = Updated(operations, new)
  BY <1>2, <1>3 DEF Canonicalize
<1>5. Fits(o, tensors)
  BY DEF WellBuilt, AllFit
<1>6. o.inputs[1] \in DOMAIN tensors /\ o.output \in DOMAIN tensors
  BY <1>1, <1>5, InputPlaces DEF Fits
<1>7. IsList(inputs) /\ Len(inputs) = 1 /\ \A i \in DOMAIN inputs : inputs[i] \in DOMAIN tensors
  <2>1. inputs \in Seq(DOMAIN tensors) /\ Len(inputs) = 1
    BY <1>2, <1>6
  <2>2. QED
    BY <2>1, ListOf, LenProperties
<1>8. /\ IsOperation(new) /\ new.name = o.name /\ new.type = "View" /\ new.inputs = inputs
      /\ new.output = o.output /\ new.relu = o.relu /\ new.fused = o.fused
  <2>1. IsOperation(o)
    BY <1>5 DEF Fits
  <2>2. /\ DOMAIN new = Fields /\ new.name = o.name /\ new.type = "View" /\ new.inputs = inputs
        /\ new.output = o.output /\ new.relu = o.relu /\ new.fused = o.fused
        /\ new.backend = "metadata"
    BY <1>3, <2>1 DEF IsOperation, Fields
  <2>2a. new.backend = Backend(new.type)
    BY <2>2 DEF Backend
  <2>3. IsOperation(new)
    BY <1>7, <2>1, <2>2, <2>2a DEF IsOperation
  <2>4. QED
    BY <2>2, <2>3
<1>9. Fits(new, tensors)
  <2>1. Arity(new)
    BY <1>7, <1>8 DEF Arity
  <2>2. QED
    BY <1>6, <1>7, <1>8, <2>1 DEF Fits
<1>10. /\ IsList(operations') /\ Sorted(operations') /\ AllFit(operations', tensors)
       /\ ToSet(operations') = (ToSet(operations) \ {o}) \cup {new}
  BY <1>4, <1>8, <1>9, Rewritten DEF WellBuilt
<1>11. QED
  BY <1>2, <1>8, <1>9, <1>10

LEMMA CanonicalizeWellBuilt ==
  ASSUME WellBuilt, NEW o \in ToSet(operations), Canonicalize(o)
  PROVE  WellBuilt'
<1>1. /\ Running("canonicalize_shape_operations")
      /\ dropped' = dropped /\ todo' = todo \ {o.name}
      /\ UNCHANGED << tensors, pass, refused >>
  BY DEF Canonicalize, EndVisit
<1>2. pass = 4 /\ dropped = {}
  BY <1>1, RunningPass DEF WellBuilt
<1>3. PICK new :
           /\ new.name = o.name /\ new.output = o.output
           /\ IsList(operations') /\ Sorted(operations') /\ AllFit(operations', tensors)
           /\ ToSet(operations') = (ToSet(operations) \ {o}) \cup {new}
  BY CanonicalOperation
<1>4. Distinct(operations', {})
  BY <1>2, <1>3 DEF WellBuilt, Distinct
<1>5. QED
  BY <1>1, <1>2, <1>3, <1>4 DEF WellBuilt

LEMMA AssignedOperation ==
  ASSUME WellBuilt, NEW o \in ToSet(operations), Assign(o)
  PROVE  \E new :
           /\ Fits(new, tensors) /\ new.name = o.name /\ new.type = o.type
           /\ new.inputs = o.inputs /\ new.output = o.output
           /\ new.relu = o.relu /\ new.fused = o.fused
           /\ IsList(operations') /\ Sorted(operations') /\ AllFit(operations', tensors)
           /\ ToSet(operations') = (ToSet(operations) \ {o}) \cup {new}
<1>1. PICK new : new = [o EXCEPT !.backend = Backend(o.type)]
  OBVIOUS
<1>2. operations' = Updated(operations, new)
  BY <1>1 DEF Assign
<1>3. Fits(o, tensors)
  BY DEF WellBuilt, AllFit
<1>4. /\ IsOperation(new) /\ new.name = o.name /\ new.type = o.type /\ new.inputs = o.inputs
      /\ new.output = o.output /\ new.relu = o.relu /\ new.fused = o.fused
  BY <1>1, <1>3, BackendFields DEF Fits
<1>5. Fits(new, tensors)
  <2>1. Arity(new)
    BY <1>3, <1>4 DEF Arity, Fits
  <2>2. QED
    BY <1>3, <1>4, <2>1 DEF Fits
<1>6. /\ IsList(operations') /\ Sorted(operations') /\ AllFit(operations', tensors)
      /\ ToSet(operations') = (ToSet(operations) \ {o}) \cup {new}
  BY <1>2, <1>4, <1>5, Rewritten DEF WellBuilt
<1>7. QED
  BY <1>4, <1>5, <1>6

LEMMA AssignWellBuilt ==
  ASSUME WellBuilt, NEW o \in ToSet(operations), Assign(o)
  PROVE  WellBuilt'
<1>1. /\ Running("assign_backends")
      /\ dropped' = dropped /\ todo' = todo \ {o.name}
      /\ UNCHANGED << tensors, pass, refused >>
  BY DEF Assign, EndVisit
<1>2. pass = 6 /\ dropped = {}
  BY <1>1, RunningPass DEF WellBuilt
<1>3. PICK new :
           /\ new.name = o.name /\ new.output = o.output
           /\ IsList(operations') /\ Sorted(operations') /\ AllFit(operations', tensors)
           /\ ToSet(operations') = (ToSet(operations) \ {o}) \cup {new}
  BY AssignedOperation
<1>4. Distinct(operations', {})
  BY <1>2, <1>3 DEF WellBuilt, Distinct
<1>5. QED
  BY <1>1, <1>2, <1>3, <1>4 DEF WellBuilt

LEMMA SkipWellBuilt ==
  ASSUME WellBuilt, NEW o \in ToSet(operations), Skip(o)
  PROVE  WellBuilt'
<1>1. Visits(o) /\ todo' = todo \ {o.name}
      /\ UNCHANGED << operations, tensors, dropped, pass, refused >>
  BY DEF Skip, EndVisit
<1>2. todo' \cap dropped' = {}
  BY <1>1 DEF WellBuilt
<1>3. QED
  BY <1>1, <1>2 DEF WellBuilt

LEMMA EndPassWellBuilt ==
  ASSUME WellBuilt, EndPass
  PROVE  WellBuilt'
<1>1. /\ pass \in DOMAIN Pipeline /\ pass' = pass + 1 /\ dropped' = {} /\ rebuild_links
      /\ operations' = Without(operations, dropped) /\ tensors' = tensors
  BY DEF EndPass, NextPass
<1>2. pass \in 1 .. 6 /\ pass' \in 0 .. 7 /\ pass' # 0
  <2>1. DOMAIN Pipeline = 1 .. 6
    BY DEF Pipeline
  <2>2. QED
    BY <1>1, <2>1
<1>3. /\ IsList(operations') /\ Sorted(operations')
      /\ ToSet(operations') = {o \in ToSet(operations) : o.name \notin dropped}
  BY <1>1, WithoutList DEF WellBuilt
<1>4. AllFit(operations', tensors')
  BY <1>1, <1>3 DEF WellBuilt, AllFit
<1>5. Distinct(operations', {})
  BY <1>3 DEF WellBuilt, Distinct
<1>6. ~refused'
  BY <1>1, <1>3, <1>4, <1>5, WellFormedGraph DEF rebuild_links
<1>7. QED
  BY <1>1, <1>2, <1>3, <1>4, <1>5, <1>6 DEF WellBuilt

LEMMA KeptLive ==
  ASSUME NEW ops, IsList(ops), Sorted(ops), NEW outs, NEW o \in ToSet(ops)
  PROVE  o.name \in Live(ops, outs).operations <=>
           \E n \in DOMAIN ops : o = ops[n] /\ ops[n].output \in LiveAfter(ops, outs)[n]
<1> DEFINE S == {k \in DOMAIN ops : ops[k].output \in LiveAfter(ops, outs)[k]}
<1>1. Live(ops, outs).operations = {ops[n].name : n \in S}
  BY DEF Live
<1>2. ASSUME o.name \in Live(ops, outs).operations PROVE \E n \in S : o = ops[n]
  <2>1. PICK n \in S : o.name = ops[n].name
    BY <1>1, <1>2
  <2>2. ops[n] \in ToSet(ops)
    BY ListFacts
  <2>3. o = ops[n]
    BY <2>1, <2>2, SortedNames
  <2>4. QED
    BY <2>3
<1>3. ASSUME NEW n \in S, o = ops[n] PROVE o.name \in Live(ops, outs).operations
  BY <1>1, <1>3
<1>4. QED
  BY <1>2, <1>3

LEMMA EliminateWellBuilt ==
  ASSUME WellBuilt, EliminateDeadCode
  PROVE  WellBuilt'
<1> DEFINE live == Live(operations, outputs)
           kept == live.tensors \cup Inputs
<1>1. /\ Running("eliminate_dead_code") /\ pass' = pass + 1 /\ rebuild_links /\ dropped' = dropped
      /\ operations' = Keep(operations, live.operations)
      /\ tensors' = [t \in DOMAIN tensors \cap kept |-> tensors[t]]
  BY DEF EliminateDeadCode, NextPass
<1>2. pass = 5 /\ dropped = {}
  BY <1>1, RunningPass DEF WellBuilt
<1>3. /\ IsList(operations') /\ Sorted(operations')
      /\ ToSet(operations') = {o \in ToSet(operations) : o.name \in live.operations}
  <2> HIDE DEF live
  <2>1. QED
    BY <1>1, KeepList DEF WellBuilt
<1>4. live.tensors = LiveAfter(operations, outputs)[0]
  BY DEF Live
<1> HIDE DEF live
<1>5. ASSUME NEW o \in ToSet(operations')
      PROVE  Fits(o, tensors')
  <2>1. o \in ToSet(operations) /\ o.name \in live.operations /\ Fits(o, tensors)
    BY <1>3 DEF WellBuilt, AllFit
  <2>2. PICK n \in DOMAIN operations :
           o = operations[n] /\ operations[n].output \in LiveAfter(operations, outputs)[n]
    BY <2>1, KeptLive DEF WellBuilt, live
  <2>3. o.output \in live.tensors /\ \A i \in DOMAIN o.inputs : o.inputs[i] \in live.tensors
    BY <1>4, <2>2, LiveFacts DEF WellBuilt
  <2>4. DOMAIN tensors' = DOMAIN tensors \cap kept
    BY <1>1
  <2>5. QED
    BY <2>1, <2>3, <2>4 DEF Fits
<1>6. AllFit(operations', tensors')
  BY <1>5 DEF AllFit
<1>7. Distinct(operations', {})
  BY <1>2, <1>3 DEF WellBuilt, Distinct
<1>8. ~refused'
  BY <1>1, <1>3, <1>6, <1>7, WellFormedGraph DEF rebuild_links
<1>9. todo' \cap dropped' = {}
  BY <1>1, <1>2
<1>10. QED
  BY <1>1, <1>2, <1>3, <1>6, <1>7, <1>8, <1>9 DEF WellBuilt

LEMMA InitWellBuilt ==
  ASSUME Init PROVE WellBuilt
<1>1. /\ operations = << >> /\ dropped = {} /\ todo = {} /\ pass = 0 /\ ~refused
  BY DEF Init
<1>2. IsList(operations) /\ ToSet(operations) = {} /\ DOMAIN operations = {}
  BY <1>1, EmptyList
<1>3. QED
  BY <1>1, <1>2 DEF WellBuilt, Sorted, AllFit, Distinct, Numbered

LEMMA NextWellBuilt ==
  ASSUME WellBuilt, Next PROVE WellBuilt'
<1>1. CASE ImportNode
  BY <1>1, ImportNodeWellBuilt
<1>2. CASE FinishImport
  BY <1>2, FinishImportWellBuilt
<1>3. ASSUME NEW o \in ToSet(operations), Visit(o) PROVE WellBuilt'
  <2>1. CASE DropConstant(o) \/ FoldAdd(o)
    BY <2>1, FoldAddWellBuilt
  <2>2. CASE FoldNormalization(o)
    BY <2>2, FoldNormalizationWellBuilt
  <2>3. CASE FuseConvolution(o)
    BY <2>3, FuseWellBuilt
  <2>4. CASE Canonicalize(o)
    BY <2>4, CanonicalizeWellBuilt
  <2>5. CASE Assign(o)
    BY <2>5, AssignWellBuilt
  <2>6. CASE Skip(o)
    BY <2>6, SkipWellBuilt
  <2>7. QED
    BY <1>3, <2>1, <2>2, <2>3, <2>4, <2>5, <2>6 DEF Visit
<1>4. CASE EliminateDeadCode
  BY <1>4, EliminateWellBuilt
<1>5. CASE EndPass
  BY <1>5, EndPassWellBuilt
<1>6. QED
  BY <1>1, <1>2, <1>3, <1>4, <1>5 DEF Next

-----------------------------------------------------------------------------
(* The link check of the passes accepts every graph they make              *)
(* (rebuild_links, passes/utils.py).                                       *)
THEOREM PassesNeverRefuse == Spec => []NeverRefused
<1>1. Init => WellBuilt
  BY InitWellBuilt
<1>2. WellBuilt /\ [Next]_vars => WellBuilt'
  <2>1. ASSUME WellBuilt, UNCHANGED vars PROVE WellBuilt'
    BY <2>1 DEF vars, WellBuilt, Distinct, AllFit, Fits, Sorted, Numbered
  <2>2. QED
    BY <2>1, NextWellBuilt
<1>3. WellBuilt => NeverRefused
  BY DEF WellBuilt, NeverRefused
<1>4. QED
  BY <1>1, <1>2, <1>3, PTL DEF Spec

Accepted == IF stage = "passes" THEN WellBuilt ELSE ~refused

(* The same of the whole way from the imported graph to the simulation     *)
(* (compile_onnx_bundle, compiler/workflow.py).                            *)
THEOREM CompilationIsNeverRefused == DeploymentSpec => []NeverRefused
<1>1. DeploymentInit => Accepted
  BY InitWellBuilt DEF DeploymentInit, Accepted
<1>2. Accepted /\ [DeploymentNext]_<< vars, deployment >> => Accepted'
  <2> SUFFICES ASSUME Accepted, [DeploymentNext]_<< vars, deployment >> PROVE Accepted'
    OBVIOUS
  <2>1. CASE Optimize
    <3>1. WellBuilt /\ Next /\ stage' = "passes"
      BY <2>1 DEF Optimize, Accepted, deployment
    <3>2. WellBuilt'
      BY <3>1, NextWellBuilt
    <3>3. QED
      BY <3>1, <3>2 DEF Accepted
  <2>2. ASSUME refused' = refused, stage' # "passes" PROVE Accepted'
    <3>1. ~refused
      BY DEF Accepted, WellBuilt
    <3>2. QED
      BY <2>2, <3>1 DEF Accepted
  <2>3. CASE RefuseToQuantize
    BY <2>2, <2>3 DEF RefuseToQuantize, vars
  <2>4. CASE Quantize
    BY <2>2, <2>4 DEF Quantize
  <2>5. CASE Allocate
    BY <2>2, <2>5 DEF Allocate, vars
  <2>6. CASE BuildAndLoad
    BY <2>2, <2>6 DEF BuildAndLoad, vars
  <2>7. ASSUME NEW o, RunConvolution(o) \/ RunFallback(o) PROVE Accepted'
    <3>1. refused' = refused
      BY <2>7 DEF RunConvolution, RunFallback, TimeOut, Finish, vars
    <3>2. stage' # "passes"
      BY <2>7 DEF RunConvolution, RunFallback, TimeOut, Finish
    <3>3. QED
      BY <2>2, <3>1, <3>2
  <2>8. CASE UNCHANGED << vars, deployment >>
    <3>1. CASE stage = "passes"
      <4>1. WellBuilt'
        BY <2>8, <3>1 DEF Accepted, vars, WellBuilt, Distinct, AllFit, Fits, Sorted, Numbered
      <4>2. QED
        BY <2>8, <3>1, <4>1 DEF Accepted, deployment
    <3>2. CASE stage # "passes"
      BY <2>8, <3>2 DEF Accepted, vars, deployment
    <3>3. QED
      BY <3>1, <3>2
  <2>9. QED
    BY <2>1, <2>3, <2>4, <2>5, <2>6, <2>7, <2>8 DEF DeploymentNext
<1>3. Accepted => NeverRefused
  BY DEF Accepted, WellBuilt, NeverRefused
<1>4. QED
  BY <1>1, <1>2, <1>3, PTL DEF DeploymentSpec

-----------------------------------------------------------------------------
(* What the graph means.  The operations a pass has not dropped are a set  *)
(* of equations between values; the imported graph and every graph the     *)
(* passes make have the same solution at the outputs.                      *)
Active(ops, gone) == {o \in ToSet(ops) : o.name \notin gone /\ o.type # "Constant"}

Given(tens, t) == t \in DOMAIN tens /\ tens[t].value # Undefined

Supplied(A, tens, t, n) == Given(tens, t) \/ \E p \in A : p.output = t /\ p.name < n

Known(A, tens) == {t \in DOMAIN tens : Given(tens, t) \/ \E p \in A : p.output = t}

Ordered(A, tens, outs) ==
  /\ \A o \in A : \A i \in DOMAIN o.inputs : Supplied(A, tens, o.inputs[i], o.name)
  /\ \A o \in A : ~Given(tens, o.output)
  /\ \A o, p \in A : o.output = p.output => o = p
  /\ outs \subseteq Known(A, tens)

IsValue(v) ==
  /\ "kind" \in DOMAIN v /\ v.kind # "undefined"
  /\ v.kind = "vector" => DOMAIN v = {"kind", "shape", "steps"}
  /\ v.kind = "conv" => DOMAIN v = {"kind", "of", "base", "channels", "scales", "steps"}

TypedTensor(x) ==
  /\ DOMAIN x = {"role", "shape", "constant", "value"}
  /\ x.constant \in BOOLEAN /\ x.shape \in Seq(Nat)
  /\ x.constant => x.value # Undefined
  /\ x.value # Undefined => IsValue(x.value)
  /\ x.role = "data" => ~x.constant
  /\ x.role = "weights" =>
       /\ x.value.kind = "weights" /\ DOMAIN x.value = {"kind", "base", "channels", "scales"}
       /\ x.value.channels = x.shape[1] /\ Len(x.shape) = 4
       /\ AddendsAreChannels => x.shape[1] # 1
  /\ x.role = "bias" => x.value.kind = "vector"
  /\ x.role = "parameters" => x.value.kind = "parameters"
  /\ AddendsAreChannels /\ x.role = "vector" => Len(x.shape) = 4
  /\ x.role \in {"data", "weights", "bias", "vector", "parameters", "shape"}

TypedOperation(o, tens) ==
  LET Role(i) == tens[o.inputs[i]].role
      Form(i) == tens[o.inputs[i]].shape
      out     == tens[o.output]
  IN  /\ o.type = "Conv" =>
           /\ Role(1) = "data" /\ Len(Form(1)) = 4
           /\ Role(2) = "weights" /\ (Len(o.inputs) = 3 => Role(3) = "bias")
           /\ out.role = "data" /\ Len(out.shape) = 4
           /\ AddendsAreChannels => out.shape[2] = Form(2)[1]
      /\ o.type = "Add" =>
           \/ /\ Role(1) = "vector" /\ Role(2) = "vector" /\ out.role = "vector"
              /\ AddendsAreChannels => out.shape = Form(1)
           \/ /\ Role(1) = "data" /\ Role(2) \in {"data", "vector"} /\ out.role = "data"
              /\ Len(Form(1)) = 4 /\ (AddendsAreChannels => Len(Form(2)) = 4)
              /\ out.shape = Broadcast(Form(1), Form(2))
      /\ o.type = "BatchNormalization" =>
           Role(1) = "data" /\ Role(2) = "parameters" /\ out.role = "data" /\ out.shape = Form(1)
      /\ o.type \in {"Relu", "Softmax", "Reshape", "View"} => Role(1) = "data" /\ out.role = "data"
      /\ o.type = "Relu" => out.shape = Form(1)

Arguments(M, o) == [i \in DOMAIN o.inputs |-> M[o.inputs[i]]]

Explains(M, A, tens) ==
  /\ \A t \in DOMAIN tens : Given(tens, t) => M[t] = tens[t].value
  /\ \A o \in A : M[o.output] = Computed(o, Arguments(M, o))
  /\ \A t \in Known(A, tens) :
       /\ IsValue(M[t])
       /\ tens[t].role = "vector" => M[t].kind = "vector" /\ M[t].shape = tens[t].shape

Unrectified(A) ==
  \A o \in A : o.type = "Conv" /\ (pass <= 2 \/ (pass = 3 /\ o.name \in todo)) => ~o.relu

(* In the pass over the normalizations: an operation is as it is linked,   *)
(* or a convolution into which its consumer has been folded.               *)
AsLinked(o, l) == l.inputs = o.inputs /\ l.output = o.output

FoldedSince(o, l) ==
  /\ o.type = "Conv" /\ 1 \in DOMAIN l.inputs /\ l.inputs[1] = o.inputs[1]
  /\ \E d \in ToSet(operations) :
       /\ d.name \in dropped /\ d.type = "BatchNormalization" /\ d.inputs[1] = l.output

LinksKnown ==
  /\ IsList(linked) /\ Sorted(linked)
  /\ \A o \in ToSet(operations) : o.name \in dropped => o.type = "BatchNormalization"
  /\ \A o \in ToSet(operations) :
       \E l \in ToSet(linked) : l.name = o.name /\ (AsLinked(o, l) \/ FoldedSince(o, l))

(* While the graph is imported. *)
Beginning ==
  /\ outputs = {}
  /\ DOMAIN tensors = DOMAIN Initializers \cup {OutputOf(k) : k \in DOMAIN operations}
  /\ \A t \in DOMAIN Initializers : Given(tensors, t)
  /\ \A o \in ToSet(operations) : o.type = "Constant" => tensors[o.output].constant

(* Of the images, those have a value that are inputs of the graph.         *)
Fed(tens) ==
  /\ \A t \in Inputs : Given(tens, t)
  /\ \A t \in DOMAIN tens : tens[t].role = "data" /\ Given(tens, t) => t \in Inputs

Sound(A, tens, outs) ==
  /\ \A t \in DOMAIN tens : TypedTensor(tens[t])
  /\ \A o \in A : TypedOperation(o, tens)
  /\ Ordered(A, tens, outs)
  /\ Fed(tens)

(* The equations have a solution, which has these values at the outputs.   *)
Solved(A, tens, outs, origin) ==
  /\ Sound(A, tens, outs)
  /\ AddendsAreChannels => \E M : Explains(M, A, tens) /\ \A t \in outs : M[t] = origin[t]

Origin == Values(source.operations, source.tensors)

Meaningful ==
  LET A == Active(operations, dropped)
  IN  /\ IsFiniteSet(DOMAIN tensors)
      /\ Solved(A, tensors, outputs, Origin)
      /\ Unrectified(A)
      /\ pass = 2 => LinksKnown
      /\ pass = 0 => Beginning

-----------------------------------------------------------------------------
(* Executing a graph solves its equations. *)
IsExecution(F, ops, tens) ==
  F = [n \in 0 .. Len(ops) |->
         IF n = 0 THEN [t \in DOMAIN tens |-> tens[t].value]
         ELSE Executed(F[n - 1], ops[n])]

ExecutedUpTo(F, ops, tens, top) ==
  F = [n \in 0 .. top |->
         IF n = 0 THEN [t \in DOMAIN tens |-> tens[t].value]
         ELSE Executed(F[n - 1], ops[n])]

LEMMA ExecutionExists ==
  ASSUME NEW ops, Len(ops) \in Nat, NEW tens
  PROVE  \E F : IsExecution(F, ops, tens) /\ Values(ops, tens) = F[Len(ops)]
<1> DEFINE top == Len(ops)
           P == {k \in 0 .. top : \E F : ExecutedUpTo(F, ops, tens, k)}
           start == [t \in DOMAIN tens |-> tens[t].value]
<1>1. 0 \in P
  <2> DEFINE F == [n \in 0 .. 0 |-> start]
  <2>1. F = [n \in 0 .. 0 |-> IF n = 0 THEN start ELSE Executed(F[n - 1], ops[n])]
    <3> HIDE DEF start
    <3>1. QED
      OBVIOUS
  <2>2. ExecutedUpTo(F, ops, tens, 0)
    <3> HIDE DEF F
    <3>1. QED
      BY <2>1 DEF ExecutedUpTo
  <2>3. QED
    BY <2>2
<1>2. ASSUME NEW k \in 0 .. top - 1, k \in P PROVE k + 1 \in P
  <2>1. PICK F : ExecutedUpTo(F, ops, tens, k)
    BY <1>2
  <2> HIDE DEF start
  <2> DEFINE more == Executed(F[k], ops[k + 1])
  <2> HIDE DEF more
  <2> DEFINE G == [n \in 0 .. k + 1 |-> IF n = k + 1 THEN more ELSE F[n]]
  <2>2. ASSUME NEW n \in 0 .. k + 1
        PROVE  G[n] = IF n = 0 THEN start ELSE Executed(G[n - 1], ops[n])
    <3>1. CASE n = k + 1
      <4>1. n # 0 /\ n - 1 = k /\ k \in 0 .. k + 1 /\ k # k + 1
        BY <3>1
      <4>2. G[n - 1] = F[k] /\ G[n] = more
        BY <3>1, <4>1
      <4>3. QED
        BY <3>1, <4>1, <4>2 DEF more
    <3>2. CASE n = 0
      <4>1. F[0] = start
        BY <2>1 DEF ExecutedUpTo, start
      <4>2. QED
        BY <3>2, <4>1
    <3>3. CASE n \in 1 .. k
      <4>1. n - 1 \in 0 .. k /\ n - 1 # k + 1 /\ n # k + 1 /\ n \in 0 .. k /\ n # 0
        BY <3>3
      <4>2. F[n] = Executed(F[n - 1], ops[n])
        BY <2>1, <4>1 DEF ExecutedUpTo
      <4>3. G[n] = F[n] /\ G[n - 1] = F[n - 1]
        BY <4>1
      <4>4. QED
        BY <4>1, <4>2, <4>3
    <3>4. QED
      BY <3>1, <3>2, <3>3
  <2>3. ExecutedUpTo(G, ops, tens, k + 1)
    <3>1. G = [n \in 0 .. k + 1 |-> G[n]]
      OBVIOUS
    <3> HIDE DEF G
    <3>2. G = [n \in 0 .. k + 1 |-> IF n = 0 THEN start ELSE Executed(G[n - 1], ops[n])]
      BY <2>2, <3>1
    <3>3. QED
      BY <3>2 DEF ExecutedUpTo, start
  <2>4. k + 1 \in 0 .. top
    OBVIOUS
  <2> HIDE DEF G
  <2>5. QED
    BY <2>3, <2>4
<1>3. top \in P
  <2> HIDE DEF P
  <2>1. \A k \in 0 .. top : k \in P
    BY <1>1, <1>2, CountUp
  <2>2. QED
    BY <2>1
<1>4. \E F : IsExecution(F, ops, tens)
  BY <1>3 DEF ExecutedUpTo, IsExecution
<1> DEFINE G == CHOOSE F : IsExecution(F, ops, tens)
<1>5. IsExecution(G, ops, tens)
  BY <1>4
<1>6. Values(ops, tens) = G[Len(ops)]
  BY DEF Values, IsExecution
<1>7. QED
  BY <1>5, <1>6

LEMMA ExecutionMeets ==
  ASSUME NEW ops, IsList(ops), Sorted(ops), NEW tens, AllFit(ops, tens), NEW outs,
         Ordered(Active(ops, {}), tens, outs),
         NEW M, Explains(M, Active(ops, {}), tens)
  PROVE  \A t \in Known(Active(ops, {}), tens) : Values(ops, tens)[t] = M[t]
<1> DEFINE A == Active(ops, {})
           top == Len(ops)
<1>1. top \in Nat /\ DOMAIN ops = 1 .. top /\ \A n \in 1 .. top : ops[n] \in ToSet(ops)
  BY ListFacts
<1>2. PICK F : IsExecution(F, ops, tens) /\ Values(ops, tens) = F[top]
  BY <1>1, ExecutionExists
<1>3. A = {o \in ToSet(ops) : o.type # "Constant"}
  BY DEF Active
<1> HIDE DEF A
<1> DEFINE Good(n) ==
      /\ DOMAIN F[n] = DOMAIN tens
      /\ \A t \in DOMAIN tens : Given(tens, t) => F[n][t] = M[t]
      /\ \A k \in 1 .. n : ops[k] \in A => F[n][ops[k].output] = M[ops[k].output]
    P == {n \in 0 .. top : Good(n)}
<1>4. 0 \in P
  <2>1. F[0] = [t \in DOMAIN tens |-> tens[t].value]
    BY <1>1, <1>2 DEF IsExecution
  <2>2. Good(0)
    BY <2>1 DEF Explains
  <2>3. QED
    BY <1>1, <2>2
<1>5. ASSUME NEW n \in 0 .. top - 1, n \in P PROVE n + 1 \in P
  <2>1. n + 1 \in 1 .. top /\ n + 1 \in 0 .. top /\ (n + 1) - 1 = n /\ n + 1 # 0
    BY <1>1
  <2> DEFINE o == ops[n + 1]
  <2>2. F[n + 1] = Executed(F[n], o)
    BY <1>2, <2>1 DEF IsExecution
  <2>3. Good(n)
    BY <1>5
  <2>4. o \in ToSet(ops) /\ Fits(o, tens)
    BY <1>1, <2>1 DEF AllFit
  <2>5. \A k \in 1 .. n + 1 : k \in 1 .. n \/ k = n + 1
    BY <2>1
  <2>6. CASE o.type = "Constant"
    <3>1. F[n + 1] = F[n] /\ o \notin A
      BY <1>3, <2>2, <2>6 DEF Executed
    <3>2. Good(n + 1)
      BY <2>3, <2>5, <3>1
    <3>3. QED
      BY <2>1, <3>2
  <2>7. CASE o.type # "Constant"
    <3>1. o \in A
      BY <1>3, <2>4, <2>7
    <3> DEFINE args == [i \in DOMAIN o.inputs |-> Found(F[n], o.inputs[i])]
    <3>2. F[n + 1] = [F[n] EXCEPT ![o.output] = Result(o, args)]
      BY <2>2, <2>7 DEF Executed
    <3>3. ASSUME NEW i \in DOMAIN o.inputs
          PROVE  Found(F[n], o.inputs[i]) = M[o.inputs[i]] /\ M[o.inputs[i]] # Undefined
      <4> DEFINE t == o.inputs[i]
      <4>1. t \in DOMAIN tens
        BY <2>4 DEF Fits
      <4>2. Supplied(A, tens, t, o.name)
        BY <3>1 DEF Ordered, A
      <4>3. F[n][t] = M[t]
        <5>1. CASE Given(tens, t)
          BY <2>3, <4>1, <5>1
        <5>2. CASE \E p \in A : p.output = t /\ p.name < o.name
          <6>1. PICK p \in A : p.output = t /\ p.name < o.name
            BY <5>2
          <6>2. PICK k \in 1 .. top : p = ops[k]
            BY <1>1, <1>3, <6>1, ListFacts
          <6>3. k < n + 1
            BY <1>1, <2>1, <6>1, <6>2, SortedNames
          <6>4. k \in 1 .. n
            BY <2>1, <6>2, <6>3
          <6>5. QED
            BY <2>3, <6>1, <6>2, <6>4
        <5>3. QED
          BY <4>2, <5>1, <5>2 DEF Supplied
      <4>4. Found(F[n], t) = F[n][t]
        BY <2>3, <4>1 DEF Found
      <4>5. t \in Known(A, tens)
        BY <4>1, <4>2 DEF Supplied, Known
      <4>6. M[t] # Undefined
        BY <4>5 DEF Explains, IsValue, Undefined, A
      <4>7. QED
        BY <4>3, <4>4, <4>6
    <3>4. args = Arguments(M, o) /\ \A i \in DOMAIN args : args[i] # Undefined
      BY <3>3 DEF Arguments
    <3> HIDE DEF args
    <3>5. Result(o, args) = M[o.output]
      <4>1. Result(o, args) = Computed(o, args)
        BY <3>4 DEF Result
      <4>2. M[o.output] = Computed(o, Arguments(M, o))
        BY <3>1 DEF Explains, A
      <4>3. QED
        BY <3>4, <4>1, <4>2
    <3>6. o.output \in DOMAIN tens
      BY <2>4 DEF Fits
    <3>7. /\ DOMAIN F[n + 1] = DOMAIN tens /\ F[n + 1][o.output] = M[o.output]
          /\ \A t \in DOMAIN tens : t # o.output => F[n + 1][t] = F[n][t]
      BY <2>3, <3>2, <3>5, <3>6
    <3>8. \A t \in DOMAIN tens : Given(tens, t) => F[n + 1][t] = M[t]
      BY <2>3, <3>7
    <3>9. ASSUME NEW k \in 1 .. n + 1, ops[k] \in A PROVE F[n + 1][ops[k].output] = M[ops[k].output]
      <4>1. CASE ops[k].output = o.output
        BY <3>7, <4>1
      <4>2. CASE ops[k].output # o.output
        <5>1. k \in 1 .. n
          BY <2>5, <4>2
        <5>2. ops[k].output \in DOMAIN tens
          BY <1>3, <3>9 DEF AllFit, Fits
        <5>3. QED
          BY <2>3, <3>7, <3>9, <4>2, <5>1, <5>2
      <4>3. QED
        BY <4>1, <4>2
    <3>10. Good(n + 1)
      BY <3>7, <3>8, <3>9
    <3>11. QED
      BY <2>1, <3>10
  <2>8. QED
    BY <2>6, <2>7
<1>6. Good(top)
  <2> HIDE DEF Good
  <2>1. \A n \in 0 .. top : n \in P
    <3> HIDE DEF P
    <3>1. QED
      BY <1>1, <1>4, <1>5, CountUp
  <2>2. QED
    BY <1>1, <2>1
<1>7. ASSUME NEW t \in Known(A, tens) PROVE F[top][t] = M[t]
  <2>1. CASE Given(tens, t)
    BY <1>6, <2>1 DEF Known
  <2>2. CASE \E p \in A : p.output = t
    <3>1. PICK p \in A : p.output = t
      BY <2>2
    <3>2. PICK k \in 1 .. top : p = ops[k]
      BY <1>1, <1>3, ListFacts
    <3>3. QED
      BY <1>6, <3>1, <3>2
  <2>3. QED
    BY <2>1, <2>2 DEF Known
<1>8. QED
  BY <1>2, <1>7 DEF A

-----------------------------------------------------------------------------
(* How the equations change when an operation takes the place of others.   *)
Agrees(more, tens) ==
  \A t \in DOMAIN tens : t \in DOMAIN more /\ more[t] = tens[t]

(* What is added comes with its value. *)
Adds(more, tens) ==
  \A t \in DOMAIN more : t \notin DOMAIN tens =>
    /\ TypedTensor(more[t]) /\ more[t].value # Undefined /\ IsValue(more[t].value)
    /\ more[t].role \notin {"vector", "data"}

(* new takes the place of c, the name, and of o, the output; where these   *)
(* are two operations, o alone reads what c produces.                      *)
TakesPlace(new, c, o, A, tens, outs, more) ==
  /\ c \in A /\ o \in A /\ new.name = c.name /\ new.output = o.output
  /\ c # o =>
       /\ c.output \notin outs
       /\ \E i \in DOMAIN o.inputs : o.inputs[i] = c.output
       /\ \A q \in A : \A i \in DOMAIN q.inputs : q.inputs[i] = c.output => q = o
  /\ \A i \in DOMAIN new.inputs :
       Given(more, new.inputs[i]) \/ \E j \in DOMAIN c.inputs : c.inputs[j] = new.inputs[i]

Placed(A, c, o, new) == (A \ {c, o}) \cup {new}

SameForms(more, tens) ==
  \A t \in DOMAIN tens \cap DOMAIN more :
    more[t].role = tens[t].role /\ more[t].shape = tens[t].shape

LEMMA SameTyped ==
  ASSUME NEW tens, NEW more, SameForms(more, tens),
         NEW o, Fits(o, tens), Fits(o, more), TypedOperation(o, tens)
  PROVE  TypedOperation(o, more)
<1>1. IsOperation(o) /\ Arity(o)
  BY DEF Fits
<1>2. \A i \in DOMAIN o.inputs : /\ more[o.inputs[i]].role = tens[o.inputs[i]].role
                                /\ more[o.inputs[i]].shape = tens[o.inputs[i]].shape
  BY DEF Fits, SameForms
<1>3. more[o.output].role = tens[o.output].role /\ more[o.output].shape = tens[o.output].shape
  BY DEF Fits, SameForms
<1>4. CASE o.type = "Conv"
  <2>1. 1 \in DOMAIN o.inputs /\ 2 \in DOMAIN o.inputs /\ (Len(o.inputs) = 3 => 3 \in DOMAIN o.inputs)
    BY <1>1, <1>4, InputPlaces
  <2>2. QED
    BY <1>2, <1>3, <1>4, <2>1 DEF TypedOperation
<1>5. CASE o.type = "Add"
  <2>1. 1 \in DOMAIN o.inputs /\ 2 \in DOMAIN o.inputs
    BY <1>1, <1>5, InputPlaces
  <2>2. /\ more[o.inputs[1]].role = tens[o.inputs[1]].role
        /\ more[o.inputs[2]].role = tens[o.inputs[2]].role
        /\ more[o.inputs[1]].shape = tens[o.inputs[1]].shape
        /\ more[o.inputs[2]].shape = tens[o.inputs[2]].shape
    BY <1>2, <2>1
  <2>3. QED
    BY <1>3, <1>5, <2>2 DEF TypedOperation
<1>6. CASE o.type = "BatchNormalization"
  <2>1. 1 \in DOMAIN o.inputs /\ 2 \in DOMAIN o.inputs
    BY <1>1, <1>6, InputPlaces
  <2>2. QED
    BY <1>2, <1>3, <1>6, <2>1 DEF TypedOperation
<1>7. CASE o.type \in {"Relu", "Softmax", "Reshape", "View"}
  <2>1. 1 \in DOMAIN o.inputs
    BY <1>1, <1>7, InputPlaces
  <2>2. QED
    BY <1>2, <1>3, <1>7, <2>1 DEF TypedOperation
<1>8. CASE o.type \notin {"Conv", "Add", "BatchNormalization", "Relu", "Softmax", "Reshape", "View"}
  BY <1>8 DEF TypedOperation
<1>9. QED
  BY <1>4, <1>5, <1>6, <1>7, <1>8

LEMMA SameGiven ==
  ASSUME NEW tens, NEW more, Agrees(more, tens), NEW t \in DOMAIN tens
  PROVE  Given(more, t) <=> Given(tens, t)
BY DEF Agrees, Given

LEMMA FedMore ==
  ASSUME NEW tens, NEW more, Agrees(more, tens), Adds(more, tens), Fed(tens)
  PROVE  Fed(more)
BY DEF Agrees, Adds, Fed, Given

LEMMA PlacedSound ==
  ASSUME NEW A, NEW tens, NEW outs, Sound(A, tens, outs),
         \A q \in A : Fits(q, tens),
         NEW more, Agrees(more, tens), Adds(more, tens),
         NEW new, NEW c, NEW o, TakesPlace(new, c, o, A, tens, outs, more),
         TypedOperation(new, more)
  PROVE  Sound(Placed(A, c, o, new), more, outs)
<1> DEFINE B == Placed(A, c, o, new)
<1>1. B = (A \ {c, o}) \cup {new}
  BY DEF Placed
<1> HIDE DEF B
<1>2. c \in A /\ o \in A /\ new.name = c.name /\ new.output = o.output
  BY DEF TakesPlace
<1>3. \A q \in A : q.name \in Nat /\ q.output \in DOMAIN tens
  BY DEF Fits, IsOperation
<1>4. Ordered(A, tens, outs)
  BY DEF Sound
<1>5. c.name <= o.name
  <2>1. CASE c = o
    BY <1>2, <1>3, <2>1
  <2>2. CASE c # o
    <3>1. PICK i \in DOMAIN o.inputs : o.inputs[i] = c.output
      BY <2>2 DEF TakesPlace
    <3>2. Supplied(A, tens, c.output, o.name) /\ ~Given(tens, c.output)
      BY <1>2, <1>4, <3>1 DEF Ordered
    <3>3. PICK p \in A : p.output = c.output /\ p.name < o.name
      BY <3>2 DEF Supplied
    <3>4. p = c
      BY <1>2, <1>4, <3>3 DEF Ordered
    <3>5. QED
      BY <1>2, <1>3, <3>3, <3>4
  <2>3. QED
    BY <2>1, <2>2
<1>6. \A q \in A : \A i \in DOMAIN q.inputs : q.inputs[i] = c.output /\ c # o => q = o
  BY DEF TakesPlace
<1>7. ASSUME NEW q \in A, q # c, q # o, NEW i \in DOMAIN q.inputs
      PROVE  Supplied(B, more, q.inputs[i], q.name)
  <2>1. Supplied(A, tens, q.inputs[i], q.name) /\ q.inputs[i] \in DOMAIN tens
    BY <1>4 DEF Ordered, Fits
  <2>2. CASE Given(tens, q.inputs[i])
    BY <2>1, <2>2, SameGiven DEF Supplied
  <2>3. CASE \E p \in A : p.output = q.inputs[i] /\ p.name < q.name
    <3>1. PICK p \in A : p.output = q.inputs[i] /\ p.name < q.name
      BY <2>3
    <3>2. CASE p = o
      <4>1. new \in B /\ new.output = q.inputs[i]
        BY <1>1, <1>2, <3>1, <3>2
      <4>2. c.name < q.name
        BY <1>2, <1>3, <1>5, <3>1, <3>2
      <4>3. QED
        BY <1>2, <4>1, <4>2 DEF Supplied
    <3>3. CASE p = c /\ c # o
      BY <1>6, <1>7, <3>1, <3>3
    <3>4. CASE p # c /\ p # o
      <4>1. p \in B
        BY <1>1, <3>4
      <4>2. QED
        BY <3>1, <4>1 DEF Supplied
    <3>5. QED
      BY <3>2, <3>3, <3>4
  <2>4. QED
    BY <2>1, <2>2, <2>3 DEF Supplied
<1>8. ASSUME NEW i \in DOMAIN new.inputs
      PROVE  Supplied(B, more, new.inputs[i], new.name)
  <2>1. CASE Given(more, new.inputs[i])
    BY <2>1 DEF Supplied
  <2>2. CASE \E j \in DOMAIN c.inputs : c.inputs[j] = new.inputs[i]
    <3>1. PICK j \in DOMAIN c.inputs : c.inputs[j] = new.inputs[i]
      BY <2>2
    <3>2. Supplied(A, tens, new.inputs[i], c.name) /\ new.inputs[i] \in DOMAIN tens
      BY <1>2, <1>4, <3>1 DEF Ordered, Fits
    <3>3. CASE Given(tens, new.inputs[i])
      BY <3>2, <3>3, SameGiven DEF Supplied
    <3>4. CASE \E p \in A : p.output = new.inputs[i] /\ p.name < c.name
      <4>1. PICK p \in A : p.output = new.inputs[i] /\ p.name < c.name
        BY <3>4
      <4>2. p # c /\ p # o
        BY <1>2, <1>3, <1>5, <4>1
      <4>3. p \in B
        BY <1>1, <4>2
      <4>4. QED
        BY <1>2, <4>1, <4>3 DEF Supplied
    <3>5. QED
      BY <3>2, <3>3, <3>4 DEF Supplied
  <2>3. QED
    BY <2>1, <2>2 DEF TakesPlace
<1>9. \A q \in B : \A i \in DOMAIN q.inputs : Supplied(B, more, q.inputs[i], q.name)
  BY <1>1, <1>7, <1>8
<1>10. \A q \in B : ~Given(more, q.output)
  <2>1. \A q \in A : ~Given(more, q.output)
    BY <1>3, <1>4, SameGiven DEF Ordered
  <2>2. QED
    BY <1>1, <1>2, <2>1
<1>11. \A p, q \in B : p.output = q.output => p = q
  <2>1. \A p, q \in A : p.output = q.output => p = q
    BY <1>4 DEF Ordered
  <2>2. QED
    BY <1>1, <1>2, <2>1
<1>12. ASSUME NEW t \in outs PROVE t \in Known(B, more)
  <2>1. t \in Known(A, tens)
    BY <1>4 DEF Ordered
  <2>2. t \in DOMAIN tens /\ t \in DOMAIN more
    BY <2>1 DEF Known, Agrees
  <2>3. CASE Given(tens, t)
    BY <2>2, <2>3, SameGiven DEF Known
  <2>4. CASE \E p \in A : p.output = t
    <3>1. PICK p \in A : p.output = t
      BY <2>4
    <3>2. \E q \in B : q.output = t
      <4>1. CASE p = o
        BY <1>1, <1>2, <3>1, <4>1
      <4>2. CASE p # o
        <5>1. p # c
          BY <3>1, <4>2 DEF TakesPlace
        <5>2. QED
          BY <1>1, <3>1, <4>2, <5>1
      <4>3. QED
        BY <4>1, <4>2
    <3>3. QED
      BY <2>2, <3>2 DEF Known
  <2>5. QED
    BY <2>1, <2>3, <2>4 DEF Known
<1>13. Ordered(B, more, outs)
  BY <1>9, <1>10, <1>11, <1>12 DEF Ordered
<1>14. \A t \in DOMAIN more : TypedTensor(more[t])
  <2>1. \A t \in DOMAIN tens : TypedTensor(more[t])
    BY DEF Sound, Agrees
  <2>2. QED
    BY <2>1 DEF Adds
<1>15. \A q \in B : TypedOperation(q, more)
  <2>1. \A q \in A : TypedOperation(q, more)
    <3>1. SameForms(more, tens)
      BY DEF SameForms, Agrees
    <3>2. DOMAIN tens \subseteq DOMAIN more
      BY DEF Agrees
    <3>3. \A q \in A : Fits(q, more)
      BY <3>2, FitsMore
    <3>4. QED
      BY <3>1, <3>3, SameTyped DEF Sound
  <2>2. QED
    BY <1>1, <2>1
<1>16. Fed(more)
  BY FedMore DEF Sound
<1>17. QED
  BY <1>13, <1>14, <1>15, <1>16 DEF Sound, B

Extended(M, tens, more) ==
  [t \in DOMAIN more |-> IF t \in DOMAIN tens THEN M[t] ELSE more[t].value]

LEMMA SameArguments ==
  ASSUME NEW M, NEW tens, NEW more, Agrees(more, tens), NEW q, Fits(q, tens)
  PROVE  /\ Arguments(Extended(M, tens, more), q) = Arguments(M, q)
         /\ Extended(M, tens, more)[q.output] = M[q.output]
<1> DEFINE N == Extended(M, tens, more)
<1>1. \A t \in DOMAIN tens : N[t] = M[t]
  BY DEF Extended, Agrees
<1> HIDE DEF N
<1>2. \A i \in DOMAIN q.inputs : N[q.inputs[i]] = M[q.inputs[i]]
  BY <1>1 DEF Fits
<1>3. Arguments(N, q) = Arguments(M, q)
  BY <1>2 DEF Arguments
<1>4. N[q.output] = M[q.output]
  BY <1>1 DEF Fits
<1>5. QED
  BY <1>3, <1>4 DEF N

LEMMA PlacedExplains ==
  ASSUME NEW A, NEW tens, NEW outs, Sound(A, tens, outs),
         \A q \in A : Fits(q, tens), NEW M, Explains(M, A, tens),
         NEW more, Agrees(more, tens), Adds(more, tens),
         NEW new, NEW c, NEW o, TakesPlace(new, c, o, A, tens, outs, more),
         LET N == Extended(M, tens, more) IN M[o.output] = Computed(new, Arguments(N, new))
  PROVE  /\ Explains(Extended(M, tens, more), Placed(A, c, o, new), more)
         /\ \A t \in outs : Extended(M, tens, more)[t] = M[t]
<1> DEFINE B == Placed(A, c, o, new)
           N == Extended(M, tens, more)
<1>1. B = (A \ {c, o}) \cup {new}
  BY DEF Placed
<1>2. c \in A /\ o \in A /\ new.name = c.name /\ new.output = o.output
  BY DEF TakesPlace
<1>3. /\ \A t \in DOMAIN tens : N[t] = M[t]
      /\ \A t \in DOMAIN more : t \notin DOMAIN tens => N[t] = more[t].value
  BY DEF Extended, Agrees
<1>4. M[o.output] = Computed(new, Arguments(N, new))
  OBVIOUS
<1>5. \A q \in A : Arguments(N, q) = Arguments(M, q) /\ N[q.output] = M[q.output]
  BY SameArguments
<1> HIDE DEF B, N
<1>6. ASSUME NEW t \in DOMAIN more, Given(more, t) PROVE N[t] = more[t].value
  <2>1. CASE t \in DOMAIN tens
    <3>1. Given(tens, t) /\ more[t] = tens[t]
      BY <1>6, <2>1, SameGiven DEF Agrees
    <3>2. M[t] = tens[t].value
      BY <2>1, <3>1 DEF Explains
    <3>3. QED
      BY <1>3, <2>1, <3>1, <3>2
  <2>2. CASE t \notin DOMAIN tens
    BY <1>3, <2>2
  <2>3. QED
    BY <2>1, <2>2
<1>7. ASSUME NEW q \in B PROVE N[q.output] = Computed(q, Arguments(N, q))
  <2>1. CASE q = new
    BY <1>2, <1>4, <1>5, <2>1
  <2>2. CASE q # new
    <3>1. q \in A
      BY <1>1, <2>2
    <3>2. M[q.output] = Computed(q, Arguments(M, q))
      BY <3>1 DEF Explains
    <3>3. QED
      BY <1>5, <3>1, <3>2
  <2>3. QED
    BY <2>1, <2>2
<1>8. ASSUME NEW t \in Known(B, more)
      PROVE  /\ IsValue(N[t])
             /\ more[t].role = "vector" => N[t].kind = "vector" /\ N[t].shape = more[t].shape
  <2>1. CASE t \in DOMAIN tens
    <3>1. Given(more, t) <=> Given(tens, t)
      BY <2>1, SameGiven
    <3>2. ASSUME NEW q \in B, q.output = t PROVE \E p \in A : p.output = t
      BY <1>1, <1>2, <3>2
    <3>3. t \in Known(A, tens)
      BY <1>8, <2>1, <3>1, <3>2 DEF Known
    <3>4. N[t] = M[t] /\ more[t] = tens[t]
      BY <1>3, <2>1 DEF Agrees
    <3>5. /\ IsValue(M[t])
          /\ tens[t].role = "vector" => M[t].kind = "vector" /\ M[t].shape = tens[t].shape
      BY <3>3 DEF Explains
    <3>6. QED
      BY <3>4, <3>5
  <2>2. CASE t \notin DOMAIN tens
    <3>1. t \in DOMAIN more
      BY DEF Known
    <3>2. QED
      BY <1>3, <2>2, <3>1 DEF Adds
  <2>3. QED
    BY <2>1, <2>2
<1>9. Explains(N, B, more)
  BY <1>6, <1>7, <1>8 DEF Explains
<1>10. \A t \in outs : N[t] = M[t]
  <2>1. \A t \in outs : t \in DOMAIN tens
    BY DEF Sound, Ordered, Known
  <2>2. QED
    BY <1>3, <2>1
<1>11. QED
  BY <1>9, <1>10 DEF N, B

-----------------------------------------------------------------------------
(* New names. *)
LEMMA FreshName ==
  ASSUME NEW tens, IsFiniteSet(DOMAIN tens), NEW base, NEW o
  PROVE  /\ unique_tensor_name(tens, base, o) \notin DOMAIN tens
         /\ \E n \in Nat : unique_tensor_name(tens, base, o) = << base, o, n >>
<1> DEFINE D == DOMAIN tens
           top == Cardinality(D)
           Free == {n \in 0 .. top : << base, o, n >> \notin D}
           First(n) == /\ << base, o, n >> \notin D
                       /\ \A m \in 0 .. n - 1 : << base, o, m >> \in D
<1>1. top \in Nat
  BY FS_CardinalityType
<1>2. Free # {}
  <2>1. SUFFICES ASSUME \A n \in 0 .. top : << base, o, n >> \in D PROVE FALSE
    OBVIOUS
  <2> DEFINE f == [n \in 0 .. top |-> << base, o, n >>]
  <2>2. f \in [0 .. top -> D]
    BY <2>1
  <2>3. IsFiniteSet(0 .. top) /\ Cardinality(0 .. top) = top + 1
    BY <1>1, FS_Interval
  <2>4. IsFiniteSet(D) /\ Cardinality(D) < Cardinality(0 .. top)
    BY <1>1, <2>3
  <2> HIDE DEF f, top, D
  <2>5. PICK m, n \in 0 .. top : m # n /\ f[m] = f[n]
    BY <2>2, <2>3, <2>4, FS_PigeonHole
  <2>6. << base, o, m >> = << base, o, n >>
    BY <2>5 DEF f
  <2>7. QED
    BY <2>5, <2>6
<1>3. PICK m \in Free : \A n \in Free : m <= n
  <2>1. Free \in SUBSET Nat
    BY <1>1
  <2> HIDE DEF Free
  <2>2. QED
    BY <1>2, <2>1, LeastNumber
<1>4. m \in 0 .. top /\ First(m)
  <2>1. m \in 0 .. top /\ << base, o, m >> \notin D
    OBVIOUS
  <2>2. ASSUME NEW k \in 0 .. m - 1 PROVE << base, o, k >> \in D
    <3>1. k \in 0 .. top /\ ~(m <= k)
      BY <1>1, <2>1
    <3>2. k \notin Free
      BY <1>3, <3>1
    <3>3. QED
      BY <3>1, <3>2
  <2>3. QED
    BY <2>1, <2>2
<1> DEFINE found == CHOOSE n \in 0 .. top : First(n)
<1>5. found \in 0 .. top /\ First(found)
  BY <1>4
<1>6. unique_tensor_name(tens, base, o) = << base, o, found >>
  BY DEF unique_tensor_name
<1>7. found \in Nat /\ << base, o, found >> \notin D
  BY <1>1, <1>5
<1> HIDE DEF found
<1>8. QED
  BY <1>6, <1>7

LEMMA FiniteMore ==
  ASSUME NEW S, IsFiniteSet(S), NEW x PROVE IsFiniteSet(S \cup {x})
BY FS_AddElement

-----------------------------------------------------------------------------
(* What a convolution computes. *)
ConvolutionValue(x, weights, steps) ==
  [kind |-> "conv", of |-> x, base |-> weights.base, channels |-> weights.channels,
   scales |-> weights.scales, steps |-> steps]

LEMMA ArgumentsLen ==
  ASSUME NEW M, NEW o, IsOperation(o)
  PROVE  Len(Arguments(M, o)) = Len(o.inputs)
<1> DEFINE n == Len(o.inputs)
           args == Arguments(M, o)
           S == {args[i] : i \in 1 .. n}
<1>1. DOMAIN o.inputs = 1 .. n /\ n \in Nat
  BY ListFacts DEF IsOperation
<1>2. args = [i \in 1 .. n |-> M[o.inputs[i]]]
  BY <1>1 DEF Arguments
<1>3. args \in [1 .. n -> S]
  BY <1>2
<1> HIDE DEF args, n, S
<1>4. args \in Seq(S)
  BY <1>1, <1>3, SeqDef
<1>5. DOMAIN args = 1 .. n
  BY <1>2
<1>6. QED
  BY <1>1, <1>4, <1>5, LenProperties DEF args, n

LEMMA GivenByRole ==
  ASSUME NEW tens, \A t \in DOMAIN tens : TypedTensor(tens[t]),
         NEW t \in DOMAIN tens, tens[t].role \in {"weights", "bias", "parameters"} \/ tens[t].constant
  PROVE  Given(tens, t)
<1>1. TypedTensor(tens[t])
  OBVIOUS
<1>2. Undefined.kind = "undefined"
  BY DEF Undefined
<1>3. CASE tens[t].constant
  BY <1>1, <1>3 DEF TypedTensor, Given
<1>4. CASE tens[t].role \in {"weights", "bias", "parameters"}
  BY <1>1, <1>2, <1>4 DEF TypedTensor, Given
<1>5. QED
  BY <1>3, <1>4

LEMMA ConvolutionMeans ==
  ASSUME NEW tens, \A t \in DOMAIN tens : TypedTensor(tens[t]),
         NEW M, \A t \in DOMAIN tens : Given(tens, t) => M[t] = tens[t].value,
         NEW c, Fits(c, tens), TypedOperation(c, tens), c.type = "Conv"
  PROVE  Convolution(Arguments(M, c)) =
           ConvolutionValue(M[c.inputs[1]], tens[c.inputs[2]].value, bias_steps(tens, c))
<1> DEFINE args == Arguments(M, c)
<1>1. IsOperation(c) /\ Arity(c) /\ \A i \in DOMAIN c.inputs : c.inputs[i] \in DOMAIN tens
  BY DEF Fits
<1>2. 1 \in DOMAIN c.inputs /\ 2 \in DOMAIN c.inputs /\ (Len(c.inputs) = 3 => 3 \in DOMAIN c.inputs)
  BY <1>1, InputPlaces
<1>3. Len(args) = Len(c.inputs)
  BY <1>1, ArgumentsLen
<1>4. args[1] = M[c.inputs[1]] /\ args[2] = M[c.inputs[2]]
      /\ (Len(c.inputs) = 3 => args[3] = M[c.inputs[3]])
  BY <1>2 DEF Arguments
<1>5. M[c.inputs[2]] = tens[c.inputs[2]].value
  <2>1. c.inputs[2] \in DOMAIN tens /\ tens[c.inputs[2]].role = "weights"
    BY <1>1, <1>2 DEF TypedOperation
  <2>2. Given(tens, c.inputs[2])
    BY <2>1, GivenByRole
  <2>3. QED
    BY <2>1, <2>2
<1>6. ASSUME Len(c.inputs) = 3 PROVE M[c.inputs[3]] = tens[c.inputs[3]].value
  <2>1. c.inputs[3] \in DOMAIN tens /\ tens[c.inputs[3]].role = "bias"
    BY <1>1, <1>2, <1>6 DEF TypedOperation
  <2>2. Given(tens, c.inputs[3])
    BY <2>1, GivenByRole
  <2>3. QED
    BY <2>1, <2>2
<1> HIDE DEF args
<1>7. (IF Len(args) = 3 THEN args[3].steps ELSE << >>) = bias_steps(tens, c)
  BY <1>3, <1>4, <1>6 DEF bias_steps
<1>8. QED
  BY <1>4, <1>5, <1>7 DEF Convolution, ConvolutionValue, args

LEMMA ConvComputes ==
  ASSUME NEW o, NEW args, o.type = "Conv"
  PROVE  Computed(o, args) = IF o.relu THEN Rectified(Convolution(args)) ELSE Convolution(args)
BY DEF Computed

ScaledValue(V, id) == [V EXCEPT !.scales = Append(@, id)]

LEMMA NormalizedConvolution ==
  ASSUME NEW x, NEW W, NEW steps, NEW P,
         DOMAIN W = {"kind", "base", "channels", "scales"}
  PROVE  Normalized(ConvolutionValue(x, W, steps), P) =
           ConvolutionValue(x, ScaledValue(W, P.id), Append(steps, P.id))
<1> DEFINE id == P.id
           scales == Append(W.scales, id)
           more   == Append(steps, id)
           v == ConvolutionValue(x, W, steps)
           V == ScaledValue(W, id)
<1>1. V = [W EXCEPT !.scales = scales]
  BY DEF ScaledValue
<1>2. /\ v.kind = "conv" /\ v.of = x /\ v.base = W.base /\ v.channels = W.channels
      /\ v.scales = W.scales /\ v.steps = steps
      /\ DOMAIN v = {"kind", "of", "base", "channels", "scales", "steps"}
  BY DEF ConvolutionValue
<1>3. Normalized(v, P) = [v EXCEPT !.scales = scales, !.steps = more]
  BY <1>2 DEF Normalized
<1> HIDE DEF scales, more, V
<1>4. V.base = W.base /\ V.channels = W.channels /\ V.scales = scales
  BY <1>1
<1>5. [v EXCEPT !.scales = scales, !.steps = more] =
        [[v EXCEPT !.scales = scales] EXCEPT !.steps = more]
  OBVIOUS
<1>6. [v EXCEPT !.scales = scales] =
        [kind |-> "conv", of |-> x, base |-> W.base, channels |-> W.channels,
         scales |-> scales, steps |-> steps]
  BY DEF ConvolutionValue
<1>7. [[v EXCEPT !.scales = scales] EXCEPT !.steps = more] =
        [kind |-> "conv", of |-> x, base |-> W.base, channels |-> W.channels,
         scales |-> scales, steps |-> more]
  <2>1. PICK r : r = [kind |-> "conv", of |-> x, base |-> W.base, channels |-> W.channels,
                      scales |-> scales, steps |-> steps]
    OBVIOUS
  <2>2. [r EXCEPT !.steps = more] =
          [kind |-> "conv", of |-> x, base |-> W.base, channels |-> W.channels,
           scales |-> scales, steps |-> more]
    BY <2>1
  <2> HIDE DEF v
  <2>3. [v EXCEPT !.scales = scales] = r
    BY <1>6, <2>1
  <2>4. QED
    BY <2>2, <2>3
<1>8. QED
  BY <1>3, <1>4, <1>5, <1>7 DEF ConvolutionValue, more, V

LEMMA BiasedConvolution ==
  ASSUME NEW x, NEW W, NEW steps, NEW v, v.kind = "vector", v.shape = << 1, W.channels, 1, 1 >>
  PROVE  Plus(ConvolutionValue(x, W, steps), v) = ConvolutionValue(x, W, steps \o v.steps)
<1> DEFINE a == ConvolutionValue(x, W, steps)
           more == steps \o v.steps
<1>1. a.kind = "conv" /\ a.channels = W.channels /\ a.steps = steps
  BY DEF ConvolutionValue
<1>2. AddsToChannels(a, v)
  BY <1>1 DEF AddsToChannels
<1>3. Plus(a, v) = [a EXCEPT !.steps = @ \o v.steps]
  <2>1. ~AddsToChannels(v, a)
    BY DEF AddsToChannels
  <2> HIDE DEF a
  <2>2. QED
    BY <1>2, <2>1 DEF Plus
<1>4. [a EXCEPT !.steps = @ \o v.steps] = [a EXCEPT !.steps = more]
  BY <1>1
<1> HIDE DEF more
<1>5. [a EXCEPT !.steps = more] = ConvolutionValue(x, W, more)
  BY DEF ConvolutionValue
<1>6. QED
  BY <1>3, <1>4, <1>5 DEF more

-----------------------------------------------------------------------------
(* The solution keeps the outputs.                                         *)
LEMMA SolvedOutputs ==
  ASSUME AddendsAreChannels, NEW ops, IsList(ops), Sorted(ops), NEW tens, AllFit(ops, tens), NEW outs, NEW origin,
         Solved(Active(ops, {}), tens, outs, origin), NEW t \in outs
  PROVE  t \in DOMAIN tens /\ Values(ops, tens)[t] = origin[t] /\ Values(ops, tens)[t] # Undefined
<1> DEFINE A == Active(ops, {})
<1>1. Sound(A, tens, outs)
  BY DEF Solved
<1>2. PICK M : Explains(M, A, tens) /\ \A x \in outs : M[x] = origin[x]
  BY DEF Solved
<1>3. t \in Known(A, tens)
  BY <1>1 DEF Sound, Ordered
<1>4. Values(ops, tens)[t] = M[t]
  <2>1. Ordered(A, tens, outs)
    BY <1>1 DEF Sound
  <2>2. QED
    BY <1>2, <1>3, <2>1, ExecutionMeets
<1>5. IsValue(M[t])
  BY <1>2, <1>3 DEF Explains
<1>6. M[t] # Undefined
  BY <1>5 DEF IsValue, Undefined
<1>7. t \in DOMAIN tens
  BY <1>3 DEF Known
<1>8. QED
  BY <1>2, <1>4, <1>6, <1>7

LEMMA OutputsKept ==
  ASSUME AddendsAreChannels, WellBuilt, Meaningful PROVE SemanticsPreserved
<1>1. SUFFICES ASSUME Settled PROVE SemanticsPreserved
  BY DEF SemanticsPreserved
<1>2. /\ IsList(operations) /\ Sorted(operations) /\ AllFit(operations, tensors)
      /\ Solved(Active(operations, {}), tensors, outputs, Origin)
  BY <1>1 DEF WellBuilt, Meaningful, Settled
<1>3. \A t \in outputs : /\ t \in DOMAIN tensors /\ Values(operations, tensors)[t] = Origin[t]
                         /\ Values(operations, tensors)[t] # Undefined
  BY <1>2, SolvedOutputs
<1>4. QED
  BY <1>3 DEF SemanticsPreserved, Origin

(* A turn that changes neither the graph nor what of it is dropped.        *)
LEMMA SkipMeaningful ==
  ASSUME WellBuilt, Meaningful, NEW o \in ToSet(operations), Skip(o)
  PROVE  Meaningful'
<1>1. /\ UNCHANGED << operations, tensors, dropped, outputs, linked, pass, refused, source >>
      /\ todo' = todo \ {o.name}
  BY DEF Skip, EndVisit
<1>2. pass # 0
  BY DEF Skip, Running, Pipeline
<1> DEFINE A == Active(operations, dropped)
<1>3. Unrectified(A) /\ (pass = 2 => LinksKnown)
  BY DEF Meaningful
<1>4. Unrectified(A)'
  BY <1>1, <1>3 DEF Unrectified, Active
<1>5. (pass = 2 => LinksKnown)'
  BY <1>1, <1>3 DEF LinksKnown, FoldedSince
<1>6. IsFiniteSet(DOMAIN tensors) /\ Solved(A, tensors, outputs, Origin)
  BY DEF Meaningful
<1>7. Origin' = Origin
  BY <1>1 DEF Origin
<1>8. QED
  BY <1>1, <1>2, <1>4, <1>5, <1>6, <1>7 DEF Meaningful

(* The pass over constants.                                                *)
LEMMA DropConstantMeaningful ==
  ASSUME WellBuilt, Meaningful, NEW o \in ToSet(operations), DropConstant(o)
  PROVE  Meaningful'
<1>1. /\ UNCHANGED << operations, tensors, outputs, linked, pass, refused, source >>
      /\ todo' = todo \ {o.name} /\ dropped' = dropped \cup {o.name} /\ o.type = "Constant"
  BY DEF DropConstant, EndVisit
<1>2. pass = 1
  BY RunningPass DEF DropConstant, WellBuilt
<1> DEFINE A == Active(operations, dropped)
<1>3. A' = A
  <2>1. \A p \in ToSet(operations) : p.name = o.name => p.type = "Constant"
    BY <1>1, SortedNames DEF WellBuilt
  <2>2. QED
    BY <1>1, <2>1 DEF Active
<1>4. Unrectified(A)'
  BY <1>1, <1>2, <1>3 DEF Unrectified, Meaningful
<1>5. IsFiniteSet(DOMAIN tensors) /\ Solved(A, tensors, outputs, Origin)
  BY DEF Meaningful
<1> HIDE DEF A
<1>6. Origin' = Origin
  BY <1>1 DEF Origin
<1>7. (IsFiniteSet(DOMAIN tensors) /\ Solved(A, tensors, outputs, Origin))'
  BY <1>1, <1>3, <1>5, <1>6
<1>8. QED
  BY <1>1, <1>2, <1>4, <1>7 DEF Meaningful, A

(* One operation comes in the place of others.                             *)
Exchanged(new, c, o, A, tens, outs, more) ==
  /\ Agrees(more, tens) /\ Adds(more, tens)
  /\ TakesPlace(new, c, o, A, tens, outs, more)
  /\ TypedOperation(new, more)
  /\ AddendsAreChannels => \A M : Explains(M, A, tens) =>
       M[o.output] = Computed(new, Arguments(Extended(M, tens, more), new))

LEMMA ExchangedSolved ==
  ASSUME NEW A, NEW tens, NEW outs, NEW origin, Solved(A, tens, outs, origin),
         \A q \in A : Fits(q, tens),
         NEW new, NEW c, NEW o, NEW more, Exchanged(new, c, o, A, tens, outs, more)
  PROVE  Solved(Placed(A, c, o, new), more, outs, origin)
<1> DEFINE B == Placed(A, c, o, new)
<1>1. Sound(A, tens, outs)
  BY DEF Solved
<1>2. /\ Agrees(more, tens) /\ Adds(more, tens)
      /\ TakesPlace(new, c, o, A, tens, outs, more) /\ TypedOperation(new, more)
  BY DEF Exchanged
<1>3. Sound(B, more, outs)
  BY <1>1, <1>2, PlacedSound
<1>4. ASSUME AddendsAreChannels
      PROVE  \E N : Explains(N, B, more) /\ \A t \in outs : N[t] = origin[t]
  <2>1. PICK M : Explains(M, A, tens) /\ \A t \in outs : M[t] = origin[t]
    BY <1>4 DEF Solved
  <2>2. M[o.output] = Computed(new, Arguments(Extended(M, tens, more), new))
    BY <1>4, <2>1 DEF Exchanged
  <2> DEFINE N == Extended(M, tens, more)
  <2>3. Explains(N, B, more) /\ \A t \in outs : N[t] = M[t]
    BY <1>1, <1>2, <2>1, <2>2, PlacedExplains
  <2> HIDE DEF B, N
  <2>4. \A t \in outs : N[t] = origin[t]
    BY <2>1, <2>3
  <2>5. QED
    BY <2>3, <2>4
<1> HIDE DEF B
<1>5. QED
  BY <1>3, <1>4 DEF Solved, B

(* Where no tensors are added, the values stay what they were.             *)
LEMMA NothingAdded ==
  ASSUME NEW M, NEW tens, NEW q, Fits(q, tens)
  PROVE  /\ Agrees(tens, tens) /\ Adds(tens, tens)
         /\ Arguments(Extended(M, tens, tens), q) = Arguments(M, q)
<1>1. Agrees(tens, tens) /\ Adds(tens, tens)
  BY DEF Agrees, Adds
<1>2. QED
  BY <1>1, SameArguments

LEMMA ActiveExchanged ==
  ASSUME NEW ops, NEW after, NEW c \in ToSet(ops), NEW new, NEW gone,
         new.name = c.name, new.type # "Constant", c.type # "Constant", c.name \notin gone,
         ToSet(after) = (ToSet(ops) \ {c}) \cup {new}
  PROVE  c \in Active(ops, gone) /\ Active(after, gone) = Placed(Active(ops, gone), c, c, new)
BY DEF Active, Placed

(* A turn that rewrites one operation and adds no tensor.                  *)
LEMMA RewrittenMeaningful ==
  ASSUME WellBuilt, Meaningful, pass >= 4, dropped = {}, NEW o \in ToSet(operations), NEW new,
         Fits(new, tensors), new.name = o.name, new.output = o.output, new.relu = o.relu,
         o.type # "Constant", new.type # "Constant",
         \A i \in DOMAIN new.inputs : \E j \in DOMAIN o.inputs : o.inputs[j] = new.inputs[i],
         TypedOperation(new, tensors),
         \A M : Computed(new, Arguments(M, new)) = Computed(o, Arguments(M, o)),
         ToSet(operations') = (ToSet(operations) \ {o}) \cup {new},
         UNCHANGED << tensors, dropped, outputs, linked, pass, source >>
  PROVE  Meaningful'
<1> DEFINE A == Active(operations, dropped)
           B == Placed(A, o, o, new)
<1>1. o \in A /\ Active(operations', dropped) = B
  BY ActiveExchanged
<1>2. Solved(A, tensors, outputs, Origin) /\ IsFiniteSet(DOMAIN tensors)
  BY DEF Meaningful
<1>3. \A q \in A : Fits(q, tensors)
  BY DEF WellBuilt, AllFit, Active
<1> HIDE DEF A
<1>4. TakesPlace(new, o, o, A, tensors, outputs, tensors)
  BY <1>1 DEF TakesPlace
<1>5. ASSUME NEW M, Explains(M, A, tensors)
      PROVE  M[o.output] = Computed(new, Arguments(Extended(M, tensors, tensors), new))
  <2>1. Arguments(Extended(M, tensors, tensors), new) = Arguments(M, new)
    BY NothingAdded
  <2>2. M[o.output] = Computed(o, Arguments(M, o))
    BY <1>1, <1>5 DEF Explains
  <2>3. QED
    BY <2>1, <2>2
<1>6. Agrees(tensors, tensors) /\ Adds(tensors, tensors)
  BY DEF Agrees, Adds
<1>7. Exchanged(new, o, o, A, tensors, outputs, tensors)
  BY <1>4, <1>5, <1>6 DEF Exchanged
<1>8. Solved(B, tensors, outputs, Origin)
  BY <1>2, <1>3, <1>7, ExchangedSolved
<1>9. Origin' = Origin
  BY DEF Origin
<1>10. pass' = pass /\ pass \in 4 .. 7
  BY DEF WellBuilt
<1>11. Unrectified(Active(operations, dropped))'
  BY <1>10 DEF Unrectified
<1> HIDE DEF B
<1>12. QED
  BY <1>1, <1>2, <1>8, <1>9, <1>10, <1>11 DEF Meaningful

LEMMA CanonicalizeMeaningful ==
  ASSUME WellBuilt, Meaningful, NEW o \in ToSet(operations), Canonicalize(o)
  PROVE  Meaningful'
<1>1. /\ Running("canonicalize_shape_operations") /\ o.type = "Reshape"
      /\ UNCHANGED << tensors, dropped, outputs, linked, pass, source >>
  BY DEF Canonicalize, EndVisit
<1>2. pass = 4 /\ dropped = {}
  BY <1>1, RunningPass DEF WellBuilt
<1>3. PICK new :
           /\ Fits(new, tensors) /\ new.name = o.name /\ new.type = "View"
           /\ new.inputs = << o.inputs[1] >> /\ new.output = o.output /\ new.relu = o.relu
           /\ ToSet(operations') = (ToSet(operations) \ {o}) \cup {new}
  BY CanonicalOperation
<1>4. DOMAIN new.inputs = {1} /\ new.inputs[1] = o.inputs[1] /\ 1 \in DOMAIN o.inputs
  BY <1>1, <1>3, InputPlaces DEF Fits, WellBuilt, AllFit
<1>5. ASSUME NEW M PROVE Computed(new, Arguments(M, new)) = Computed(o, Arguments(M, o))
  <2>1. Arguments(M, new)[1] = M[o.inputs[1]] /\ Arguments(M, o)[1] = M[o.inputs[1]]
    BY <1>4 DEF Arguments
  <2>2. QED
    BY <1>1, <1>3, <2>1 DEF Computed
<1>6. TypedOperation(new, tensors)
  <2>1. o \in Active(operations, dropped)
    BY <1>1, <1>2 DEF Active
  <2>2. TypedOperation(o, tensors)
    BY <2>1 DEF Meaningful, Solved, Sound
  <2>3. QED
    BY <1>1, <1>3, <1>4, <2>2 DEF TypedOperation
<1>7. QED
  BY <1>1, <1>2, <1>3, <1>4, <1>5, <1>6, RewrittenMeaningful

LEMMA AssignMeaningful ==
  ASSUME WellBuilt, Meaningful, NEW o \in ToSet(operations), Assign(o)
  PROVE  Meaningful'
<1>1. /\ Running("assign_backends")
      /\ UNCHANGED << tensors, dropped, outputs, linked, pass, source >>
  BY DEF Assign, EndVisit
<1>2. pass = 6 /\ dropped = {}
  BY <1>1, RunningPass DEF WellBuilt
<1>3. PICK new :
           /\ Fits(new, tensors) /\ new.name = o.name /\ new.type = o.type
           /\ new.inputs = o.inputs /\ new.output = o.output /\ new.relu = o.relu
           /\ ToSet(operations') = (ToSet(operations) \ {o}) \cup {new}
  BY AssignedOperation
<1>4. CASE o.type = "Constant"
  <2>1. Active(operations', dropped) = Active(operations, dropped)
    BY <1>3, <1>4 DEF Active
  <2>2. Origin' = Origin /\ pass' = 6
    BY <1>1, <1>2 DEF Origin
  <2>3. Unrectified(Active(operations, dropped))'
    BY <2>2 DEF Unrectified
  <2>4. QED
    BY <1>1, <1>2, <2>1, <2>2, <2>3 DEF Meaningful
<1>5. CASE o.type # "Constant"
  <2>1. ASSUME NEW M PROVE Computed(new, Arguments(M, new)) = Computed(o, Arguments(M, o))
    BY <1>3 DEF Computed, Arguments
  <2>2. TypedOperation(new, tensors)
    <3>1. o \in Active(operations, dropped)
      BY <1>2, <1>5 DEF Active
    <3>2. TypedOperation(o, tensors)
      BY <3>1 DEF Meaningful, Solved, Sound
    <3>3. QED
      BY <1>3, <3>2 DEF TypedOperation
  <2>3. QED
    BY <1>1, <1>2, <1>3, <1>5, <2>1, <2>2, RewrittenMeaningful
<1>6. QED
  BY <1>4, <1>5

(* The end of a pass.                                                      *)
LEMMA EndPassMeaningful ==
  ASSUME WellBuilt, Meaningful, EndPass PROVE Meaningful'
<1>1. /\ todo = {} /\ pass \in DOMAIN Pipeline /\ operations' = Without(operations, dropped)
      /\ UNCHANGED << tensors, outputs, source >> /\ dropped' = {}
      /\ pass' = pass + 1 /\ linked' = operations'
  BY DEF EndPass, NextPass, rebuild_links
<1>2. pass \in 1 .. 6
  BY <1>1 DEF Pipeline
<1>3. IsList(operations') /\ Sorted(operations')
      /\ ToSet(operations') = {o \in ToSet(operations) : o.name \notin dropped}
  BY <1>1, WithoutList DEF WellBuilt
<1>4. Active(operations, dropped)' = Active(operations, dropped)
  BY <1>1, <1>3 DEF Active
<1>5. (Solved(Active(operations, dropped), tensors, outputs, Origin) /\ IsFiniteSet(DOMAIN tensors))'
  <2>1. Origin' = Origin
    BY <1>1 DEF Origin
  <2>2. QED
    BY <1>1, <1>4, <2>1 DEF Meaningful
<1>6. Unrectified(Active(operations, dropped))'
  <2>1. Unrectified(Active(operations, dropped))
    BY DEF Meaningful
  <2>2. QED
    BY <1>1, <1>2, <1>4, <2>1 DEF Unrectified
<1>7. LinksKnown'
  <2>1. \A o \in ToSet(operations') : AsLinked(o, o)
    BY DEF AsLinked
  <2>2. QED
    BY <1>1, <1>3, <2>1 DEF LinksKnown
<1>8. QED
  BY <1>1, <1>2, <1>5, <1>6, <1>7 DEF Meaningful

LEMMA StepsValue ==
  ASSUME NEW a, IsValue(a), NEW steps
  PROVE  LET v == [a EXCEPT !.steps = steps]
         IN  IsValue(v) /\ v.kind = a.kind /\ v.shape = a.shape
<1> DEFINE v == [a EXCEPT !.steps = steps]
<1>1. DOMAIN v = DOMAIN a /\ v.kind = a.kind /\ v.shape = a.shape
  OBVIOUS
<1> HIDE DEF v
<1>2. IsValue(v)
  BY <1>1 DEF IsValue
<1>3. QED
  BY <1>1, <1>2 DEF v

LEMMA PlusValue ==
  ASSUME NEW a, NEW b, IsValue(a), IsValue(b)
  PROVE  /\ IsValue(Plus(a, b))
         /\ a.kind = "vector" /\ b.kind = "vector" =>
              Plus(a, b).kind = "vector" /\ Plus(a, b).shape = a.shape
<1>1. CASE AddsToChannels(a, b) \/ (a.kind = "vector" /\ b.kind = "vector")
  <2>1. Plus(a, b) = [a EXCEPT !.steps = a.steps \o b.steps]
    <3>1. ~AddsToChannels(b, a)
      BY <1>1 DEF AddsToChannels
    <3>2. QED
      BY <1>1, <3>1 DEF Plus
  <2>2. PICK steps : steps = a.steps \o b.steps
    OBVIOUS
  <2>3. Plus(a, b) = [a EXCEPT !.steps = steps]
    BY <2>1, <2>2
  <2>4. QED
    BY <2>3, StepsValue
<1>2. CASE ~(AddsToChannels(a, b) \/ (a.kind = "vector" /\ b.kind = "vector")) /\ AddsToChannels(b, a)
  <2>1. Plus(a, b) = [b EXCEPT !.steps = b.steps \o a.steps]
    BY <1>2 DEF Plus
  <2>2. PICK steps : steps = b.steps \o a.steps
    OBVIOUS
  <2>3. Plus(a, b) = [b EXCEPT !.steps = steps]
    BY <2>1, <2>2
  <2>4. QED
    BY <1>2, <2>3, StepsValue
<1>3. CASE ~(AddsToChannels(a, b) \/ (a.kind = "vector" /\ b.kind = "vector")) /\ ~AddsToChannels(b, a)
  <2>1. Plus(a, b) = [kind |-> "sum", of |-> << a, b >>]
    BY <1>3 DEF Plus
  <2>2. "kind" \in DOMAIN Plus(a, b) /\ Plus(a, b).kind = "sum"
    BY <2>1
  <2>3. QED
    BY <1>3, <2>2 DEF IsValue
<1>4. QED
  BY <1>1, <1>2, <1>3

(* The sum of two constants becomes a constant.                            *)
SumGiven(o, tens, more) ==
  /\ DOMAIN more = DOMAIN tens
  /\ \A t \in DOMAIN tens : t # o.output => more[t] = tens[t]
  /\ DOMAIN more[o.output] = DOMAIN tens[o.output] /\ more[o.output].constant
  /\ more[o.output].role = tens[o.output].role /\ more[o.output].shape = tens[o.output].shape
  /\ more[o.output].value = Plus(tens[o.inputs[1]].value, tens[o.inputs[2]].value)

LEMMA SumSolved ==
  ASSUME NEW A, NEW tens, NEW outs, NEW origin, Solved(A, tens, outs, origin),
         \A q \in A : Fits(q, tens),
         NEW o \in A, o.type = "Add",
         \A i \in {1, 2} : tens[o.inputs[i]].constant,
         NEW more, SumGiven(o, tens, more)
  PROVE  Solved(A \ {o}, more, outs, origin)
<1>1. Sound(A, tens, outs)
  BY DEF Solved
<1>3. DOMAIN o.inputs = {1, 2} /\ o.output \in DOMAIN tens
      /\ \A i \in {1, 2} : o.inputs[i] \in DOMAIN tens
  BY InputPlaces DEF Fits
<1>4. \A t \in DOMAIN tens : TypedTensor(tens[t])
  BY <1>1 DEF Sound
<1>5. \A i \in {1, 2} : tens[o.inputs[i]].role # "data" /\ Given(tens, o.inputs[i])
  BY <1>3, <1>4 DEF TypedTensor, Given
<1>6. tens[o.output].role = "vector"
  <2>1. TypedOperation(o, tens)
    BY <1>1 DEF Sound
  <2>2. tens[o.inputs[1]].role # "data"
    BY <1>5
  <2>3. QED
    BY <2>1, <2>2 DEF TypedOperation
<1>7. more[o.output].value = Plus(tens[o.inputs[1]].value, tens[o.inputs[2]].value)
  BY DEF SumGiven
<1>8. o.output \in Known(A, tens)
  BY <1>3 DEF Known
<1>9. IsValue(more[o.output].value) /\ more[o.output].value # Undefined
  <2>1. PICK a, b : a = tens[o.inputs[1]].value /\ b = tens[o.inputs[2]].value
    OBVIOUS
  <2>2. IsValue(a) /\ IsValue(b)
    BY <1>3, <1>4, <1>5, <2>1 DEF TypedTensor, Given
  <2>3. IsValue(Plus(a, b))
    BY <2>2, PlusValue
  <2>4. QED
    BY <1>7, <2>1, <2>3 DEF IsValue, Undefined
<1>10. \A t \in DOMAIN tens : Given(more, t) <=> Given(tens, t) \/ t = o.output
  BY <1>3, <1>7, <1>9 DEF Given, SumGiven
<1> DEFINE B == A \ {o}
<1>11. Known(B, more) = Known(A, tens)
  <2>1. DOMAIN more = DOMAIN tens
    BY DEF SumGiven
  <2>2. QED
    BY <1>10, <2>1 DEF Known
<1>12. Ordered(A, tens, outs)
  BY <1>1 DEF Sound
<1>13. Ordered(B, more, outs)
  <2>1. ASSUME NEW q \in B, NEW i \in DOMAIN q.inputs
        PROVE  Supplied(B, more, q.inputs[i], q.name)
    <3>1. Supplied(A, tens, q.inputs[i], q.name) /\ q.inputs[i] \in DOMAIN tens
      BY <1>12 DEF Ordered, Fits
    <3>2. QED
      BY <1>10, <3>1 DEF Supplied
  <2>2. \A q \in B : ~Given(more, q.output)
    <3>1. \A q \in B : q.output \in DOMAIN tens /\ q.output # o.output
      BY <1>12 DEF Ordered, Fits
    <3>2. QED
      BY <1>10, <1>12, <3>1 DEF Ordered
  <2>3. QED
    BY <1>11, <1>12, <2>1, <2>2 DEF Ordered
<1>14. \A t \in DOMAIN more : TypedTensor(more[t])
  <2>1. TypedTensor(more[o.output])
    <3>1. TypedTensor(tens[o.output])
      BY <1>3, <1>4
    <3>2. QED
      BY <1>6, <1>9, <3>1 DEF TypedTensor, SumGiven
  <2>2. QED
    BY <1>4, <2>1 DEF SumGiven
<1>15. \A q \in B : TypedOperation(q, more)
  <2>1. SameForms(more, tens)
    BY DEF SameForms, SumGiven
  <2>2. \A q \in B : TypedOperation(q, tens)
    BY <1>1 DEF Sound
  <2>3. \A q \in B : Fits(q, more)
    BY DEF Fits, SumGiven
  <2>4. QED
    BY <2>1, <2>2, <2>3, SameTyped
<1>16. Fed(more)
  <2>1. Fed(tens) /\ DOMAIN more = DOMAIN tens
    BY <1>1 DEF Sound, SumGiven
  <2>2. \A t \in Inputs : t \in DOMAIN tens
    BY <2>1 DEF Fed, Given
  <2>3. \A t \in DOMAIN tens : more[t].role = "data" => tens[t].role = "data" /\ t # o.output
    BY <1>6 DEF SumGiven
  <2>4. QED
    BY <1>10, <2>1, <2>2, <2>3 DEF Fed
<1>17. ASSUME AddendsAreChannels
       PROVE  \E M : Explains(M, B, more) /\ \A t \in outs : M[t] = origin[t]
  <2>1. PICK M : Explains(M, A, tens) /\ \A t \in outs : M[t] = origin[t]
    BY <1>17 DEF Solved
  <2>2. more[o.output].value = M[o.output]
    <3>1. M[o.output] = Computed(o, Arguments(M, o))
      BY <2>1 DEF Explains
    <3>2. M[o.inputs[1]] = tens[o.inputs[1]].value /\ M[o.inputs[2]] = tens[o.inputs[2]].value
      BY <1>3, <1>5, <2>1 DEF Explains
    <3>3. Arguments(M, o)[1] = M[o.inputs[1]] /\ Arguments(M, o)[2] = M[o.inputs[2]]
      BY <1>3 DEF Arguments
    <3>4. Computed(o, Arguments(M, o)) = Plus(Arguments(M, o)[1], Arguments(M, o)[2])
      BY DEF Computed
    <3>5. QED
      BY <1>7, <3>1, <3>2, <3>3, <3>4
  <2>3. \A t \in DOMAIN more : Given(more, t) => M[t] = more[t].value
    BY <1>10, <2>1, <2>2 DEF Explains, SumGiven
  <2>4. \A t \in DOMAIN tens : more[t].role = tens[t].role /\ more[t].shape = tens[t].shape
    BY DEF SumGiven
  <2>5. \A t \in Known(A, tens) : t \in DOMAIN tens
    BY DEF Known
  <2>6. Explains(M, B, more)
    BY <1>11, <2>1, <2>3, <2>4, <2>5 DEF Explains
  <2>7. QED
    BY <2>1, <2>6
<1>18. QED
  BY <1>13, <1>14, <1>15, <1>16, <1>17 DEF Solved, Sound

LEMMA FoldAddMeaningful ==
  ASSUME WellBuilt, Meaningful, NEW o \in ToSet(operations), FoldAdd(o)
  PROVE  Meaningful'
<1>1. /\ Running("fold_constants") /\ Visits(o) /\ ConstantSum(o)
      /\ UNCHANGED << operations, outputs, linked, pass, source >>
      /\ todo' = todo \ {o.name} /\ dropped' = dropped \cup {o.name}
  BY DEF FoldAdd, EndVisit
<1>2. pass = 1
  BY <1>1, RunningPass DEF WellBuilt
<1> DEFINE A == Active(operations, dropped)
<1>3. o \in A /\ o.type = "Add" /\ \A i \in {1, 2} : tensors[o.inputs[i]].constant
  <2>1. o.name \notin dropped
    BY <1>1, VisitedRemain
  <2>2. QED
    BY <1>1, <2>1 DEF Active, ConstantSum
<1>4. Active(operations', dropped') = A \ {o}
  <2>1. \A p \in ToSet(operations) : p.name = o.name => p = o
    BY SortedNames DEF WellBuilt
  <2>2. QED
    BY <1>1, <2>1 DEF Active
<1>5. o.output \in DOMAIN tensors
  BY DEF WellBuilt, AllFit, Fits
<1>6. SumGiven(o, tensors, tensors')
  <2> DEFINE sum == Plus(tensors[o.inputs[1]].value, tensors[o.inputs[2]].value)
  <2>1. tensors' = [tensors EXCEPT ![o.output].constant = TRUE, ![o.output].value = sum]
    BY DEF FoldAdd
  <2> HIDE DEF sum
  <2>2. TypedTensor(tensors[o.output])
    BY <1>5 DEF Meaningful, Solved, Sound
  <2>3. QED
    BY <1>5, <2>1, <2>2 DEF SumGiven, TypedTensor, sum
<1>7. Solved(A, tensors, outputs, Origin) /\ IsFiniteSet(DOMAIN tensors) /\ Unrectified(A)
  BY DEF Meaningful
<1>8. \A q \in A : Fits(q, tensors)
  BY DEF WellBuilt, AllFit, Active
<1> HIDE DEF A
<1>9. Solved(A \ {o}, tensors', outputs, Origin)
  BY <1>3, <1>6, <1>7, <1>8, SumSolved
<1>10. Origin' = Origin
  BY <1>1 DEF Origin
<1>11. Unrectified(Active(operations, dropped))'
  BY <1>1, <1>2, <1>4, <1>7 DEF Unrectified
<1>12. IsFiniteSet(DOMAIN tensors')
  BY <1>6, <1>7 DEF SumGiven
<1>13. QED
  BY <1>1, <1>2, <1>4, <1>9, <1>10, <1>11, <1>12 DEF Meaningful

(* What no output needs may go.                                            *)
LEMMA NeededSolved ==
  ASSUME NEW A, NEW tens, NEW outs, NEW origin, Solved(A, tens, outs, origin),
         \A q \in A : Fits(q, tens),
         NEW B \in SUBSET A, NEW more,
         DOMAIN more \subseteq DOMAIN tens, \A t \in DOMAIN more : more[t] = tens[t],
         \A q \in B : Fits(q, more),
         \A q \in B : \A i \in DOMAIN q.inputs : \A p \in A :
           p.output = q.inputs[i] /\ p.name < q.name => p \in B,
         \A p \in A : p.output \in outs => p \in B,
         outs \subseteq DOMAIN more, Inputs \subseteq DOMAIN more
  PROVE  Solved(B, more, outs, origin)
<1>1. Sound(A, tens, outs) /\ Ordered(A, tens, outs)
  BY DEF Solved, Sound
<1>3. \A t \in DOMAIN more : t \in DOMAIN tens /\ (Given(more, t) <=> Given(tens, t))
  BY DEF Given
<1>4. Known(B, more) \subseteq Known(A, tens)
  BY <1>3 DEF Known
<1>5. Ordered(B, more, outs)
  <2>1. ASSUME NEW q \in B, NEW i \in DOMAIN q.inputs
        PROVE  Supplied(B, more, q.inputs[i], q.name)
    <3>1. Supplied(A, tens, q.inputs[i], q.name) /\ q.inputs[i] \in DOMAIN more
      BY <1>1 DEF Ordered, Fits
    <3>2. CASE Given(tens, q.inputs[i])
      BY <1>3, <3>1, <3>2 DEF Supplied
    <3>3. CASE \E p \in A : p.output = q.inputs[i] /\ p.name < q.name
      BY <3>3 DEF Supplied
    <3>4. QED
      BY <3>1, <3>2, <3>3 DEF Supplied
  <2>2. \A q \in B : ~Given(more, q.output)
    BY <1>1, <1>3 DEF Ordered, Fits
  <2>3. outs \subseteq Known(B, more)
    BY <1>1, <1>3 DEF Ordered, Known
  <2>4. \A p, q \in B : p.output = q.output => p = q
    BY <1>1 DEF Ordered
  <2>5. QED
    BY <2>1, <2>2, <2>3, <2>4 DEF Ordered
<1>6. \A t \in DOMAIN more : TypedTensor(more[t])
  BY <1>1 DEF Sound
<1>7. \A q \in B : TypedOperation(q, more)
  <2>1. SameForms(more, tens)
    BY DEF SameForms
  <2>2. QED
    BY <1>1, <2>1, SameTyped DEF Sound
<1>8. Fed(more)
  BY <1>1, <1>3 DEF Sound, Fed
<1>9. ASSUME NEW M, Explains(M, A, tens) PROVE Explains(M, B, more)
  <2>1. \A t \in Known(B, more) : t \in DOMAIN more
    BY DEF Known
  <2>2. QED
    BY <1>3, <1>4, <1>9, <2>1 DEF Explains
<1>10. QED
  BY <1>5, <1>6, <1>7, <1>8, <1>9 DEF Solved, Sound

LEMMA EliminateMeaningful ==
  ASSUME WellBuilt, Meaningful, EliminateDeadCode PROVE Meaningful'
<1> DEFINE live == Live(operations, outputs)
           kept == live.tensors \cup Inputs
           F == LiveAfter(operations, outputs)
           A == Active(operations, dropped)
           B == Active(operations', dropped')
<1>1. /\ Running("eliminate_dead_code") /\ pass' = pass + 1 /\ dropped' = dropped
      /\ UNCHANGED << outputs, source >>
      /\ operations' = Keep(operations, live.operations)
      /\ tensors' = [t \in DOMAIN tensors \cap kept |-> tensors[t]]
  BY DEF EliminateDeadCode, NextPass
<1>2. pass = 5 /\ dropped = {}
  BY <1>1, RunningPass DEF WellBuilt
<1>3. WellBuilt'
  BY EliminateWellBuilt
<1>4. ToSet(operations') = {o \in ToSet(operations) : o.name \in live.operations}
  <2> HIDE DEF live
  <2>1. QED
    BY <1>1, KeepList DEF WellBuilt
<1>5. live.tensors = F[0]
  BY DEF Live
<1>6. IsList(operations) /\ Sorted(operations) /\ AllFit(operations, tensors)
  BY DEF WellBuilt
<1> HIDE DEF live
<1>7. DOMAIN tensors' = DOMAIN tensors \cap kept /\ \A t \in DOMAIN tensors' : tensors'[t] = tensors[t]
  BY <1>1
<1>8. \A o \in ToSet(operations) : o.name \in live.operations <=>
         \E n \in DOMAIN operations : o = operations[n] /\ operations[n].output \in F[n]
  BY <1>6, KeptLive DEF live
<1>9. B \in SUBSET A /\ \A o \in A : o.name \in live.operations => o \in B
  BY <1>1, <1>4 DEF Active
<1>10. \A o \in A : o \in ToSet(operations) /\ Fits(o, tensors)
  BY <1>6 DEF Active, AllFit
<1>11. \A o \in B : Fits(o, tensors') /\ o.name \in live.operations
  BY <1>3, <1>4 DEF WellBuilt, AllFit, Active
<1>12. Solved(A, tensors, outputs, Origin) /\ IsFiniteSet(DOMAIN tensors)
  BY DEF Meaningful
<1> HIDE DEF A, B
<1>13. ASSUME NEW q \in B, NEW i \in DOMAIN q.inputs, NEW p \in A,
              p.output = q.inputs[i], p.name < q.name
       PROVE  p \in B
  <2>1. q \in ToSet(operations) /\ p \in ToSet(operations)
    BY <1>9, <1>10
  <2>2. PICK n \in DOMAIN operations : q = operations[n] /\ operations[n].output \in F[n]
    BY <1>8, <1>11, <2>1
  <2>3. PICK k \in DOMAIN operations : p = operations[k]
    BY <1>6, <2>1, ListFacts
  <2>4. k < n
    BY <1>6, <1>13, <2>2, <2>3, SortedNames
  <2>5. q.inputs[i] \in F[k]
    BY <1>6, <2>2, <2>4, LiveFacts
  <2>6. p.name \in live.operations
    BY <1>8, <1>13, <2>1, <2>3, <2>5
  <2>7. QED
    BY <1>9, <2>6
<1>14. ASSUME NEW p \in A, p.output \in outputs PROVE p \in B
  <2>1. p \in ToSet(operations)
    BY <1>10
  <2>2. PICK k \in DOMAIN operations : p = operations[k]
    BY <1>6, <2>1, ListFacts
  <2>3. p.output \in F[k]
    BY <1>6, <1>14, LiveFacts
  <2>4. QED
    BY <1>8, <1>9, <2>1, <2>2, <2>3
<1>15. outputs \subseteq DOMAIN tensors'
  <2>1. outputs \subseteq DOMAIN tensors
    BY <1>12 DEF Solved, Sound, Ordered, Known
  <2>2. \A t \in outputs : t \in F[0]
    BY <1>6, LiveFacts
  <2>3. QED
    BY <1>5, <1>7, <2>1, <2>2
<1>16. DOMAIN tensors' \subseteq DOMAIN tensors
  BY <1>7
<1>16a. Inputs \subseteq DOMAIN tensors'
  BY <1>7, <1>12 DEF Solved, Sound, Fed, Given
<1>17. Solved(B, tensors', outputs, Origin)
  BY <1>7, <1>9, <1>10, <1>11, <1>12, <1>13, <1>14, <1>15, <1>16, <1>16a, NeededSolved
<1>18. Origin' = Origin
  BY <1>1 DEF Origin
<1>19. IsFiniteSet(DOMAIN tensors')
  BY <1>12, <1>16, FS_Subset
<1>20. pass' = 6 /\ outputs' = outputs
  BY <1>1, <1>2
<1>21. Unrectified(Active(operations, dropped))'
  BY <1>20 DEF Unrectified
<1>22. QED
  BY <1>17, <1>18, <1>19, <1>20, <1>21 DEF Meaningful, B

-----------------------------------------------------------------------------
(* The tensors the passes make.                                            *)
LEMMA WeightChannels ==
  ASSUME NEW x, TypedTensor(x), x.role = "weights" PROVE x.shape[1] \in Nat
<1>1. x.shape \in Seq(Nat) /\ Len(x.shape) = 4
  BY DEF TypedTensor
<1>2. 1 \in 1 .. Len(x.shape)
  BY <1>1
<1>3. QED
  BY <1>1, <1>2, ElementOfSeq

LEMMA BiasTensorFacts ==
  ASSUME NEW channels \in Nat, NEW steps
  PROVE  LET bias == BiasTensor(channels, steps)
         IN  /\ TypedTensor(bias) /\ bias.role = "bias" /\ bias.value.steps = steps
             /\ bias.value # Undefined /\ IsValue(bias.value)
<1> DEFINE bias == BiasTensor(channels, steps)
<1>1. /\ DOMAIN bias = {"role", "shape", "constant", "value"} /\ bias.role = "bias"
      /\ bias.shape = << channels >> /\ bias.constant
      /\ bias.value = Vector(<< channels >>, steps)
  BY DEF BiasTensor
<1>2. /\ bias.value.kind = "vector" /\ bias.value.steps = steps
      /\ DOMAIN bias.value = {"kind", "shape", "steps"}
  BY <1>1 DEF Vector
<1>3. bias.value # Undefined
  BY <1>2 DEF Undefined
<1>4. bias.shape \in Seq(Nat)
  BY <1>1
<1> HIDE DEF bias
<1>5. IsValue(bias.value)
  BY <1>2 DEF IsValue
<1>6. TypedTensor(bias)
  BY <1>1, <1>2, <1>3, <1>4, <1>5 DEF TypedTensor
<1>7. QED
  BY <1>1, <1>2, <1>3, <1>5, <1>6 DEF bias

ScaledWeights(W, id) == [W EXCEPT !.value.scales = Append(@, id)]

LEMMA FoldedWeights ==
  ASSUME NEW W, TypedTensor(W), W.role = "weights", NEW id
  PROVE  LET folded == ScaledWeights(W, id)
         IN  /\ TypedTensor(folded) /\ folded.role = "weights" /\ folded.shape = W.shape
             /\ folded.value = ScaledValue(W.value, id)
             /\ folded.value # Undefined /\ IsValue(folded.value)
<1> DEFINE scales == Append(W.value.scales, id)
           folded == ScaledWeights(W, id)
<1>1. /\ DOMAIN W = {"role", "shape", "constant", "value"} /\ W.value.kind = "weights"
      /\ DOMAIN W.value = {"kind", "base", "channels", "scales"}
      /\ W.value.channels = W.shape[1] /\ Len(W.shape) = 4
      /\ AddendsAreChannels => W.shape[1] # 1
      /\ W.constant \in BOOLEAN /\ W.shape \in Seq(Nat)
  BY DEF TypedTensor
<1>2. folded = [W EXCEPT !.value.scales = scales]
  BY DEF ScaledWeights
<1>3. ScaledValue(W.value, id) = [W.value EXCEPT !.scales = scales]
  BY DEF ScaledValue
<1> HIDE DEF scales, folded
<1>4. /\ DOMAIN folded = DOMAIN W /\ folded.role = W.role /\ folded.shape = W.shape
      /\ folded.constant = W.constant
  BY <1>1, <1>2
<1>5. folded.value = [W.value EXCEPT !.scales = scales]
  BY <1>1, <1>2
<1>6. /\ DOMAIN folded.value = DOMAIN W.value /\ folded.value.kind = "weights"
      /\ folded.value.channels = W.value.channels
  BY <1>1, <1>5
<1>7. folded.value # Undefined
  BY <1>6 DEF Undefined
<1>8. IsValue(folded.value)
  BY <1>1, <1>6 DEF IsValue
<1>9. TypedTensor(folded)
  BY <1>1, <1>4, <1>6, <1>7, <1>8 DEF TypedTensor
<1>10. QED
  BY <1>3, <1>4, <1>5, <1>7, <1>8, <1>9 DEF folded

-----------------------------------------------------------------------------
(* Who reads a tensor. *)
LEMMA ConsumersAre ==
  ASSUME NEW ops, NEW t
  PROVE  /\ \A o \in ToSet(ops) : \A i \in DOMAIN o.inputs :
              o.inputs[i] = t => << o.name, i >> \in Consumers(ops, t)
         /\ \A u \in Consumers(ops, t) : \E o \in ToSet(ops) : \E i \in DOMAIN o.inputs :
              o.inputs[i] = t /\ u = << o.name, i >>
<1> DEFINE Uses(o) == {<< o.name, i >> : i \in {j \in DOMAIN o.inputs : o.inputs[j] = t}}
<1>1. Consumers(ops, t) = UNION {Uses(o) : o \in ToSet(ops)}
  BY DEF Consumers
<1>2. \A o \in ToSet(ops) : \A i \in DOMAIN o.inputs :
         o.inputs[i] = t => << o.name, i >> \in Uses(o)
  OBVIOUS
<1>3. \A o \in ToSet(ops) : \A u \in Uses(o) :
         \E i \in DOMAIN o.inputs : o.inputs[i] = t /\ u = << o.name, i >>
  OBVIOUS
<1> HIDE DEF Uses
<1>4. QED
  BY <1>1, <1>2, <1>3

LEMMA SoleReader ==
  ASSUME NEW ops, NEW t, OnlyConsumer(ops, t) # {}
  PROVE  \A o, q \in ToSet(ops) : \A i \in DOMAIN o.inputs : \A j \in DOMAIN q.inputs :
           o.inputs[i] = t /\ q.inputs[j] = t => o.name = q.name /\ i = j
<1>1. PICK u \in Consumers(ops, t) : Consumers(ops, t) = {u}
  BY DEF OnlyConsumer
<1>2. ASSUME NEW o \in ToSet(ops), NEW q \in ToSet(ops),
             NEW i \in DOMAIN o.inputs, NEW j \in DOMAIN q.inputs,
             o.inputs[i] = t, q.inputs[j] = t
      PROVE  o.name = q.name /\ i = j
  <2>1. << o.name, i >> \in Consumers(ops, t) /\ << q.name, j >> \in Consumers(ops, t)
    BY <1>2, ConsumersAre
  <2>2. << o.name, i >> = << q.name, j >>
    BY <1>1, <2>1
  <2>3. QED
    BY <2>2
<1>3. QED
  BY <1>2

LEMMA OnlyReader ==
  ASSUME NEW ops, IsList(ops), Sorted(ops), NEW t,
         NEW o \in ToSet(ops), OnlyConsumer(ops, t) = {o.name}
  PROVE  /\ \E i \in DOMAIN o.inputs : o.inputs[i] = t
         /\ \A q \in ToSet(ops) : \A i \in DOMAIN q.inputs : q.inputs[i] = t => q = o
<1>1. \A p, q \in ToSet(ops) : p.name = q.name => p = q
  BY SortedNames
<1>2. PICK u \in Consumers(ops, t) : u[1] = o.name
  BY DEF OnlyConsumer
<1>3. PICK one \in ToSet(ops) : \E i \in DOMAIN one.inputs : one.inputs[i] = t /\ u = << one.name, i >>
  BY <1>2, ConsumersAre
<1>4. one = o
  BY <1>1, <1>2, <1>3
<1>5. OnlyConsumer(ops, t) # {}
  OBVIOUS
<1>6. ASSUME NEW q \in ToSet(ops), NEW i \in DOMAIN q.inputs, q.inputs[i] = t PROVE q = o
  <2>1. PICK j \in DOMAIN o.inputs : o.inputs[j] = t
    BY <1>3, <1>4
  <2>2. q.name = o.name
    BY <1>5, <1>6, <2>1, SoleReader
  <2>3. QED
    BY <1>1, <2>2
<1>7. QED
  BY <1>3, <1>4, <1>6

(* What the links of the start of the pass say of the operations now.      *)
LEMMA LinkedReaders ==
  ASSUME WellBuilt, LinksKnown, NEW bn \in ToSet(operations), bn.type = "BatchNormalization",
         bn.name \notin dropped, NEW c \in ConvolutionsOf(bn),
         \A q \in Active(operations, dropped) : \A i \in DOMAIN q.inputs :
           q.type = "Conv" /\ i # 1 => q.inputs[i] # bn.inputs[1]
  PROVE  /\ c \in Active(operations, dropped) /\ bn \in Active(operations, dropped)
         /\ c.output = bn.inputs[1] /\ c.output \notin outputs
         /\ \E l \in ToSet(linked) : l.name = c.name /\ AsLinked(c, l)
         /\ \A q \in Active(operations, dropped) : \A i \in DOMAIN q.inputs :
              q.inputs[i] = c.output => q = bn
<1> DEFINE t == bn.inputs[1]
           A == Active(operations, dropped)
<1>1. /\ c \in ToSet(operations) /\ c.type = "Conv" /\ Named(linked, c.name).output = t
      /\ OnlyConsumer(linked, t) # {} /\ t \notin outputs
  BY DEF ConvolutionsOf
<1>2. IsList(linked) /\ Sorted(linked)
  BY DEF LinksKnown
<1>3. bn \in A /\ c \in A
  BY <1>1 DEF Active, LinksKnown
<1>4. \A o \in ToSet(operations) :
         \E l \in ToSet(linked) : l.name = o.name /\ (AsLinked(o, l) \/ FoldedSince(o, l))
  BY DEF LinksKnown
<1>5. ASSUME NEW q \in ToSet(operations), q.type = "BatchNormalization", NEW i \in DOMAIN q.inputs
      PROVE  \E l \in ToSet(linked) : l.name = q.name /\ i \in DOMAIN l.inputs /\ l.inputs[i] = q.inputs[i]
  <2>1. PICK l \in ToSet(linked) : l.name = q.name /\ (AsLinked(q, l) \/ FoldedSince(q, l))
    BY <1>4
  <2>2. AsLinked(q, l)
    BY <1>5, <2>1 DEF FoldedSince
  <2>3. QED
    BY <2>1, <2>2 DEF AsLinked
<1>6. \A q \in ToSet(operations) : q.type = "BatchNormalization" => 1 \in DOMAIN q.inputs
  BY InputPlaces DEF WellBuilt, AllFit, Fits
<1>7. PICK lbn \in ToSet(linked) :
         lbn.name = bn.name /\ 1 \in DOMAIN lbn.inputs /\ lbn.inputs[1] = t
  BY <1>5, <1>6
<1>8. ASSUME NEW l \in ToSet(linked), NEW i \in DOMAIN l.inputs, l.inputs[i] = t
      PROVE  l.name = bn.name
  BY <1>1, <1>7, <1>8, SoleReader
<1>9. \A p, q \in ToSet(operations) : p.name = q.name => p = q
  BY SortedNames DEF WellBuilt
<1>10. PICK l \in ToSet(linked) : l.name = c.name /\ (AsLinked(c, l) \/ FoldedSince(c, l))
  BY <1>1, <1>4
<1>11. l.output = t
  <2>1. Named(linked, c.name) = l
    BY <1>2, <1>10, NamedIs
  <2>2. QED
    BY <1>1, <2>1
<1>12. AsLinked(c, l)
  <2>1. SUFFICES ASSUME FoldedSince(c, l) PROVE FALSE
    BY <1>10
  <2>2. PICK d \in ToSet(operations) :
           d.name \in dropped /\ d.type = "BatchNormalization" /\ d.inputs[1] = l.output
    BY <2>1 DEF FoldedSince
  <2>3. PICK ld \in ToSet(linked) :
           ld.name = d.name /\ 1 \in DOMAIN ld.inputs /\ ld.inputs[1] = d.inputs[1]
    BY <1>5, <1>6, <2>2
  <2>4. ld.name = bn.name
    BY <1>8, <1>11, <2>2, <2>3
  <2>5. QED
    BY <2>2, <2>3, <2>4
<1>13. c.output = t
  BY <1>11, <1>12 DEF AsLinked
<1>14. ASSUME NEW q \in A, NEW i \in DOMAIN q.inputs, q.inputs[i] = t PROVE q = bn
  <2>1. q \in ToSet(operations)
    BY DEF Active
  <2>2. PICK lq \in ToSet(linked) : lq.name = q.name /\ (AsLinked(q, lq) \/ FoldedSince(q, lq))
    BY <1>4, <2>1
  <2>3. CASE AsLinked(q, lq)
    <3>1. i \in DOMAIN lq.inputs /\ lq.inputs[i] = t
      BY <1>14, <2>3 DEF AsLinked
    <3>2. QED
      BY <1>8, <1>9, <2>1, <2>2, <3>1
  <2>4. CASE FoldedSince(q, lq)
    <3>1. q.type = "Conv" /\ 1 \in DOMAIN lq.inputs /\ lq.inputs[1] = q.inputs[1]
      BY <2>4 DEF FoldedSince
    <3>2. i = 1
      BY <1>14, <3>1
    <3>3. lq.name = bn.name
      BY <1>8, <1>14, <3>1, <3>2
    <3>4. QED
      BY <1>9, <2>1, <2>2, <3>3
  <2>5. QED
    BY <2>2, <2>3, <2>4
<1>15. QED
  BY <1>1, <1>3, <1>10, <1>12, <1>13, <1>14

(* A normalization is folded into the convolution it reads.                *)
NormalizationAdded(c, bn, tens, weights, bias, more) ==
  LET id == tens[bn.inputs[2]].value.id
  IN  /\ weights \notin DOMAIN tens /\ bias \notin DOMAIN tens /\ weights # bias
      /\ DOMAIN more = DOMAIN tens \cup {weights, bias}
      /\ \A t \in DOMAIN tens : more[t] = tens[t]
      /\ more[weights] = ScaledWeights(tens[c.inputs[2]], id)
      /\ more[bias] = BiasTensor(tens[c.inputs[2]].shape[1], Append(bias_steps(tens, c), id))

LEMMA NormalizationExchanged ==
  ASSUME NEW A, NEW tens, NEW outs, Sound(A, tens, outs), \A q \in A : Fits(q, tens),
         NEW c \in A, c.type = "Conv", ~c.relu,
         NEW bn \in A, bn.type = "BatchNormalization", c.output = bn.inputs[1],
         c.output \notin outs,
         \A q \in A : \A i \in DOMAIN q.inputs : q.inputs[i] = c.output => q = bn,
         NEW weights, NEW bias, NEW more, NormalizationAdded(c, bn, tens, weights, bias, more),
         NEW new, Fits(new, more), new.name = c.name, new.type = "Conv",
         new.inputs = << c.inputs[1], weights, bias >>, new.output = bn.output, ~new.relu
  PROVE  Exchanged(new, c, bn, A, tens, outs, more)
<1> DEFINE W  == tens[c.inputs[2]]
           P  == tens[bn.inputs[2]].value
           id == P.id
           old == bias_steps(tens, c)
           steps == Append(old, id)
<1>1. \A t \in DOMAIN tens : TypedTensor(tens[t])
  BY DEF Sound
<1>2. /\ 1 \in DOMAIN c.inputs /\ 2 \in DOMAIN c.inputs
      /\ c.inputs[1] \in DOMAIN tens /\ c.inputs[2] \in DOMAIN tens
  BY InputPlaces DEF Fits
<1>3. /\ 1 \in DOMAIN bn.inputs /\ 2 \in DOMAIN bn.inputs
      /\ bn.inputs[2] \in DOMAIN tens /\ bn.output \in DOMAIN tens
  BY InputPlaces DEF Fits
<1>4. TypedOperation(c, tens) /\ TypedOperation(bn, tens)
  BY DEF Sound
<1>5. W.role = "weights" /\ TypedTensor(W)
  BY <1>1, <1>2, <1>4 DEF TypedOperation
<1>6. /\ weights \notin DOMAIN tens /\ bias \notin DOMAIN tens /\ weights # bias
      /\ DOMAIN more = DOMAIN tens \cup {weights, bias}
      /\ \A t \in DOMAIN tens : more[t] = tens[t]
      /\ more[weights] = ScaledWeights(W, id)
      /\ more[bias] = BiasTensor(W.shape[1], steps)
  BY DEF NormalizationAdded
<1> HIDE DEF W, P, steps
<1>7. /\ TypedTensor(more[weights]) /\ more[weights].role = "weights"
      /\ more[weights].shape = W.shape
      /\ more[weights].value = ScaledValue(W.value, id)
      /\ more[weights].value # Undefined /\ IsValue(more[weights].value)
  BY <1>5, <1>6, FoldedWeights
<1>8. /\ TypedTensor(more[bias]) /\ more[bias].role = "bias" /\ more[bias].value.steps = steps
      /\ more[bias].value # Undefined /\ IsValue(more[bias].value)
  <2>1. W.shape[1] \in Nat
    BY <1>5, WeightChannels
  <2>2. QED
    BY <1>6, <2>1, BiasTensorFacts
<1>9. Agrees(more, tens)
  BY <1>6 DEF Agrees
<1>10. Adds(more, tens)
  BY <1>6, <1>7, <1>8 DEF Adds
<1>11. DOMAIN new.inputs = {1, 2, 3} /\ Len(new.inputs) = 3
       /\ new.inputs[1] = c.inputs[1] /\ new.inputs[2] = weights /\ new.inputs[3] = bias
  OBVIOUS
<1>12. TakesPlace(new, c, bn, A, tens, outs, more)
  <2>1. Given(more, weights) /\ Given(more, bias)
    BY <1>6, <1>7, <1>8 DEF Given
  <2>2. \A i \in DOMAIN new.inputs :
           Given(more, new.inputs[i]) \/ \E j \in DOMAIN c.inputs : c.inputs[j] = new.inputs[i]
    BY <1>2, <1>11, <2>1
  <2>3. \E i \in DOMAIN bn.inputs : bn.inputs[i] = c.output
    BY <1>3
  <2>4. QED
    BY <2>2, <2>3 DEF TakesPlace
<1>13. TypedOperation(new, more)
  <2>1. more[bn.output] = tens[bn.output] /\ more[c.inputs[1]] = tens[c.inputs[1]]
    BY <1>2, <1>3, <1>6
  <2>2. /\ tens[c.inputs[1]].role = "data" /\ Len(tens[c.inputs[1]].shape) = 4
        /\ tens[bn.output].role = "data" /\ tens[bn.output].shape = tens[c.output].shape
        /\ Len(tens[c.output].shape) = 4
        /\ AddendsAreChannels => tens[c.output].shape[2] = W.shape[1]
    BY <1>4 DEF TypedOperation, W
  <2>3. QED
    BY <1>7, <1>8, <1>11, <2>1, <2>2 DEF TypedOperation
<1>14. ASSUME NEW M, Explains(M, A, tens)
       PROVE  M[bn.output] = Computed(new, Arguments(Extended(M, tens, more), new))
  <2> DEFINE N == Extended(M, tens, more)
  <2>1. M[c.output] = ConvolutionValue(M[c.inputs[1]], W.value, old)
    <3>1. Convolution(Arguments(M, c)) = ConvolutionValue(M[c.inputs[1]], W.value, old)
      BY <1>1, <1>4, <1>14, ConvolutionMeans DEF Explains, W
    <3>2. M[c.output] = Computed(c, Arguments(M, c))
      BY <1>14 DEF Explains
    <3>3. QED
      BY <3>1, <3>2, ConvComputes
  <2>2. M[bn.output] = Normalized(M[c.output], M[bn.inputs[2]])
    <3>1. M[bn.output] = Computed(bn, Arguments(M, bn))
      BY <1>14 DEF Explains
    <3>2. Arguments(M, bn)[1] = M[c.output] /\ Arguments(M, bn)[2] = M[bn.inputs[2]]
      BY <1>3 DEF Arguments
    <3>3. Computed(bn, Arguments(M, bn)) = Normalized(Arguments(M, bn)[1], Arguments(M, bn)[2])
      BY DEF Computed
    <3>4. QED
      BY <3>1, <3>2, <3>3
  <2>3. M[bn.inputs[2]] = P
    <3>1. tens[bn.inputs[2]].role = "parameters"
      BY <1>4 DEF TypedOperation
    <3>2. Given(tens, bn.inputs[2])
      BY <1>1, <1>3, <3>1, GivenByRole
    <3>3. QED
      BY <1>3, <1>14, <3>2 DEF Explains, P
  <2>4. DOMAIN W.value = {"kind", "base", "channels", "scales"}
    BY <1>5 DEF TypedTensor
  <2>5. Normalized(ConvolutionValue(M[c.inputs[1]], W.value, old), P) =
          ConvolutionValue(M[c.inputs[1]], more[weights].value, steps)
    <3>1. more[weights].value = ScaledValue(W.value, P.id) /\ steps = Append(old, P.id)
      BY <1>7 DEF steps
    <3>2. PICK x, V, more_steps : x = M[c.inputs[1]] /\ V = W.value /\ more_steps = old
      OBVIOUS
    <3>3. Normalized(ConvolutionValue(x, V, more_steps), P) =
            ConvolutionValue(x, ScaledValue(V, P.id), Append(more_steps, P.id))
      BY <2>4, <3>2, NormalizedConvolution
    <3>4. QED
      BY <3>1, <3>2, <3>3
  <2>6. N[c.inputs[1]] = M[c.inputs[1]]
    BY <1>2, <1>6 DEF Extended
  <2>7. \A t \in DOMAIN more : Given(more, t) => N[t] = more[t].value
    BY <1>6, <1>14 DEF Extended, Explains, Given
  <2>8. \A t \in DOMAIN more : TypedTensor(more[t])
    BY <1>1, <1>6, <1>7, <1>8
  <2>9. bias_steps(more, new) = steps
    BY <1>8, <1>11 DEF bias_steps
  <2> HIDE DEF N
  <2>10. Convolution(Arguments(N, new)) = ConvolutionValue(M[c.inputs[1]], more[weights].value, steps)
    BY <1>11, <1>13, <2>6, <2>7, <2>8, <2>9, ConvolutionMeans
  <2>11. Computed(new, Arguments(N, new)) = Convolution(Arguments(N, new))
    BY ConvComputes
  <2>12. QED
    BY <2>1, <2>2, <2>3, <2>5, <2>10, <2>11 DEF N
<1>15. QED
  BY <1>9, <1>10, <1>12, <1>13, <1>14 DEF Exchanged

LEMMA FoldedTensors ==
  ASSUME IsFiniteSet(DOMAIN tensors), NEW bn, NEW c, FoldedInto(bn, c)
  PROVE  /\ NormalizationAdded(c, bn, tensors, private_weights(c),
                               unique_tensor_name(tensors, "bn_bias", c.name), tensors')
         /\ IsFiniteSet(DOMAIN tensors')
<1> DEFINE id      == tensors[bn.inputs[2]].value.id
           weights == private_weights(c)
           bias    == unique_tensor_name(tensors, "bn_bias", c.name)
           folded  == ScaledWeights(tensors[c.inputs[2]], id)
           added   == BiasTensor(tensors[c.inputs[2]].shape[1], Append(bias_steps(tensors, c), id))
<1>1. tensors' = Put(Put(tensors, weights, folded), bias, added)
  BY DEF FoldedInto, ScaledWeights, Shape
<1>2. /\ weights \notin DOMAIN tensors /\ bias \notin DOMAIN tensors /\ weights # bias
  <2>1. weights = unique_tensor_name(tensors, "bn_weights", c.name)
    BY DEF private_weights
  <2>2. unique_tensor_name(tensors, "bn_weights", c.name) \notin DOMAIN tensors
        /\ \E n \in Nat : unique_tensor_name(tensors, "bn_weights", c.name) = << "bn_weights", c.name, n >>
    BY FreshName
  <2>3. bias \notin DOMAIN tensors /\ \E n \in Nat : bias = << "bn_bias", c.name, n >>
    BY FreshName
  <2> HIDE DEF weights, bias
  <2>4. QED
    BY <2>1, <2>2, <2>3
<1> HIDE DEF weights, bias, folded, added
<1>3. PICK inner : inner = Put(tensors, weights, folded)
  OBVIOUS
<1>4. /\ DOMAIN inner = DOMAIN tensors \cup {weights} /\ inner[weights] = folded
      /\ \A t \in DOMAIN tensors : t # weights => inner[t] = tensors[t]
  BY <1>3 DEF Put
<1>5. tensors' = Put(inner, bias, added)
  BY <1>1, <1>3
<1>6. /\ DOMAIN tensors' = DOMAIN inner \cup {bias} /\ tensors'[bias] = added
      /\ \A t \in DOMAIN inner : t # bias => tensors'[t] = inner[t]
  BY <1>5 DEF Put
<1>7. /\ DOMAIN tensors' = DOMAIN tensors \cup {weights, bias}
      /\ tensors'[weights] = folded /\ tensors'[bias] = added
      /\ \A t \in DOMAIN tensors : tensors'[t] = tensors[t]
  BY <1>2, <1>4, <1>6
<1>8. NormalizationAdded(c, bn, tensors, weights, bias, tensors')
  BY <1>2, <1>7 DEF NormalizationAdded, folded, added
<1>9. IsFiniteSet(DOMAIN tensors')
  <2>1. IsFiniteSet(DOMAIN inner)
    BY <1>4, FiniteMore
  <2>2. QED
    BY <1>6, <2>1, FiniteMore
<1>10. QED
  BY <1>8, <1>9 DEF weights, bias

(* In a sound graph the first operand alone of a convolution is no constant. *)
LEMMA OperandRoles ==
  ASSUME NEW A, NEW tens, NEW outs, Sound(A, tens, outs), \A q \in A : Fits(q, tens),
         NEW bn \in A, bn.type = "BatchNormalization"
  PROVE  \A q \in A : \A i \in DOMAIN q.inputs :
           q.type = "Conv" /\ i # 1 => q.inputs[i] # bn.inputs[1]
<1>1. tens[bn.inputs[1]].role = "data"
  BY DEF Sound, TypedOperation
<1>2. ASSUME NEW q \in A, NEW i \in DOMAIN q.inputs, q.type = "Conv", i # 1
      PROVE  tens[q.inputs[i]].role \in {"weights", "bias"}
  <2>1. DOMAIN q.inputs = 1 .. Len(q.inputs) /\ Len(q.inputs) \in {2, 3}
    BY <1>2, InputPlaces DEF Fits, Arity
  <2>2. i = 2 \/ (i = 3 /\ Len(q.inputs) = 3)
    <3>1. PICK n \in {2, 3} : n = Len(q.inputs)
      BY <2>1
    <3>2. i \in 1 .. n
      BY <2>1, <3>1
    <3>3. QED
      BY <1>2, <3>1, <3>2
  <2>3. TypedOperation(q, tens)
    BY DEF Sound
  <2>4. QED
    BY <1>2, <2>2, <2>3 DEF TypedOperation
<1>3. QED
  BY <1>1, <1>2

LEMMA FoldNormalizationMeaningful ==
  ASSUME WellBuilt, Meaningful, NEW bn \in ToSet(operations), FoldNormalization(bn)
  PROVE  Meaningful'
<1>1. /\ Running("fold_batch_normalization") /\ Visits(bn) /\ bn.type = "BatchNormalization"
      /\ dropped' = dropped \cup {bn.name} /\ todo' = todo \ {bn.name}
      /\ UNCHANGED << outputs, linked, pass, source >>
  BY DEF FoldNormalization, EndVisit
<1>2. pass = 2
  BY <1>1, RunningPass DEF WellBuilt
<1> DEFINE A == Active(operations, dropped)
<1>3. PICK c \in ConvolutionsOf(bn) : \E new :
           LET weights == private_weights(c)
               bias    == unique_tensor_name(tensors, "bn_bias", c.name)
           IN  /\ FoldedInto(bn, c)
               /\ Fits(new, tensors') /\ new.name = c.name /\ new.type = "Conv"
               /\ new.inputs = << c.inputs[1], weights, bias >> /\ new.output = bn.output
               /\ new.relu = c.relu
               /\ ToSet(operations') = (ToSet(operations) \ {c}) \cup {new}
  BY FoldedGraph
<1>3a. PICK new :
           LET weights == private_weights(c)
               bias    == unique_tensor_name(tensors, "bn_bias", c.name)
           IN  /\ FoldedInto(bn, c)
               /\ Fits(new, tensors') /\ new.name = c.name /\ new.type = "Conv"
               /\ new.inputs = << c.inputs[1], weights, bias >> /\ new.output = bn.output
               /\ new.relu = c.relu
               /\ ToSet(operations') = (ToSet(operations) \ {c}) \cup {new}
  BY <1>3
<1> DEFINE weights == private_weights(c)
           bias    == unique_tensor_name(tensors, "bn_bias", c.name)
<1> HIDE DEF weights, bias
<1>4. bn.name \notin dropped
  BY <1>1, VisitedRemain
<1>5. bn \in A
  BY <1>1, <1>4 DEF Active
<1>6. \A q \in A : q \in ToSet(operations) /\ Fits(q, tensors)
  BY DEF WellBuilt, AllFit, Active
<1>7. Solved(A, tensors, outputs, Origin) /\ IsFiniteSet(DOMAIN tensors) /\ Unrectified(A)
  BY DEF Meaningful
<1>8. LinksKnown
  BY <1>2 DEF Meaningful
<1>9. \A q \in A : \A i \in DOMAIN q.inputs :
         q.type = "Conv" /\ i # 1 => q.inputs[i] # bn.inputs[1]
  <2> HIDE DEF A
  <2>1. QED
    BY <1>1, <1>5, <1>6, <1>7, OperandRoles DEF Solved
<1>10. /\ c \in A /\ c.output = bn.inputs[1] /\ c.output \notin outputs
       /\ \E l \in ToSet(linked) : l.name = c.name /\ AsLinked(c, l)
       /\ \A q \in A : \A i \in DOMAIN q.inputs : q.inputs[i] = c.output => q = bn
  BY <1>1, <1>4, <1>8, <1>9, LinkedReaders
<1>11. c.type = "Conv" /\ c \in ToSet(operations)
  BY DEF ConvolutionsOf
<1>12. ~c.relu
  BY <1>2, <1>7, <1>10, <1>11 DEF Unrectified
<1>13. /\ NormalizationAdded(c, bn, tensors, weights, bias, tensors')
       /\ IsFiniteSet(DOMAIN tensors')
  BY <1>3a, <1>7, FoldedTensors DEF weights, bias
<1>14. /\ Fits(new, tensors') /\ new.name = c.name /\ new.type = "Conv"
       /\ new.inputs = << c.inputs[1], weights, bias >> /\ new.output = bn.output
       /\ new.relu = c.relu
       /\ ToSet(operations') = (ToSet(operations) \ {c}) \cup {new}
  BY <1>3a DEF weights, bias
<1>15. Active(operations', dropped') = Placed(A, c, bn, new)
  <2>1. \A p, q \in ToSet(operations) : p.name = q.name => p = q
    BY SortedNames DEF WellBuilt
  <2>2. new.name \notin dropped' /\ c.name # bn.name
    <3>1. c.name # bn.name
      BY <1>1, <1>11, <2>1
    <3>2. c.name \notin dropped
      BY <1>10 DEF Active
    <3>3. QED
      BY <1>1, <1>14, <3>1, <3>2
  <2>3. ASSUME NEW p \in ToSet(operations), p # c
        PROVE  p.name \notin dropped' <=> p.name \notin dropped /\ p # bn
    BY <1>1, <2>1
  <2>4. QED
    BY <1>1, <1>14, <2>2, <2>3 DEF Active, Placed
<1> HIDE DEF A
<1>16. Exchanged(new, c, bn, A, tensors, outputs, tensors')
  <2>1. ~new.relu
    BY <1>12, <1>14
  <2>2. Sound(A, tensors, outputs)
    BY <1>7 DEF Solved
  <2>3. QED
    BY <1>1, <1>5, <1>6, <1>10, <1>11, <1>12, <1>13, <1>14, <2>1, <2>2, NormalizationExchanged
<1>17. Solved(Active(operations', dropped'), tensors', outputs, Origin)
  BY <1>6, <1>7, <1>15, <1>16, ExchangedSolved
<1>18. Origin' = Origin
  BY <1>1 DEF Origin
<1>19. Unrectified(Active(operations, dropped))'
  BY <1>1, <1>7, <1>12, <1>14, <1>15 DEF Unrectified, Placed
<1>20. LinksKnown'
  <2>1. ASSUME NEW o \in ToSet(operations')
        PROVE  \E l \in ToSet(linked) : l.name = o.name /\ (AsLinked(o, l) \/ FoldedSince(o, l)')
    <3>1. CASE o = new
      <4>1. PICK l \in ToSet(linked) : l.name = c.name /\ AsLinked(c, l)
        BY <1>10
      <4>2. 1 \in DOMAIN l.inputs /\ l.inputs[1] = new.inputs[1] /\ bn.inputs[1] = l.output
        <5>1. 1 \in DOMAIN c.inputs
          BY <1>6, <1>10, <1>11, InputPlaces DEF Fits
        <5>2. QED
          BY <1>10, <1>14, <4>1, <5>1 DEF AsLinked
      <4>3. bn \in ToSet(operations') /\ bn.name \in dropped'
        BY <1>1, <1>11, <1>14
      <4>4. FoldedSince(new, l)'
        BY <1>1, <1>14, <4>2, <4>3 DEF FoldedSince
      <4>5. QED
        BY <1>14, <3>1, <4>1, <4>4
    <3>2. CASE o # new
      <4>1. o \in ToSet(operations)
        BY <1>14, <3>2
      <4>2. PICK l \in ToSet(linked) : l.name = o.name /\ (AsLinked(o, l) \/ FoldedSince(o, l))
        BY <1>8, <4>1 DEF LinksKnown
      <4>3. ASSUME FoldedSince(o, l) PROVE FoldedSince(o, l)'
        <5>1. PICK d \in ToSet(operations) :
                 d.name \in dropped /\ d.type = "BatchNormalization" /\ d.inputs[1] = l.output
          BY <4>3 DEF FoldedSince
        <5>2. d \in ToSet(operations') /\ d.name \in dropped'
          BY <1>1, <1>11, <1>14, <5>1
        <5>3. QED
          BY <4>3, <5>1, <5>2 DEF FoldedSince
      <4>4. QED
        BY <4>2, <4>3
    <3>3. QED
      BY <3>1, <3>2
  <2>2. \A o \in ToSet(operations') : o.name \in dropped' => o.type = "BatchNormalization"
    <3>1. new.name \notin dropped'
      <4>1. c \in ToSet(operations) /\ c.name \notin dropped
        BY <1>10 DEF A, Active
      <4>2. c.name # bn.name
        BY <1>1, <1>11, SortedNames DEF WellBuilt
      <4>3. QED
        BY <1>1, <1>14, <4>1, <4>2
    <3>2. ASSUME NEW o \in ToSet(operations), o.name \in dropped'
          PROVE  o.type = "BatchNormalization"
      <4>1. CASE o.name = bn.name
        BY <1>1, <4>1, SortedNames DEF WellBuilt
      <4>2. CASE o.name # bn.name
        BY <1>1, <1>8, <3>2, <4>2 DEF LinksKnown
      <4>3. QED
        BY <4>1, <4>2
    <3>3. QED
      BY <1>14, <3>1, <3>2
  <2>3. IsList(linked') /\ Sorted(linked')
    BY <1>1, <1>8 DEF LinksKnown
  <2>4. QED
    BY <1>1, <2>1, <2>2, <2>3 DEF LinksKnown, AsLinked
<1>21. pass' = 2 /\ outputs' = outputs
  BY <1>1, <1>2
<1>22. QED
  BY <1>13, <1>17, <1>18, <1>19, <1>20, <1>21 DEF Meaningful

-----------------------------------------------------------------------------
(* Broadcasting leaves the channels of a convolution alone.                *)
LEMMA PaddedFour ==
  ASSUME NEW shape, IsList(shape), Len(shape) = 4
  PROVE  Padded(shape) = shape /\ DOMAIN shape = 1 .. 4
<1> DEFINE front == [i \in 1 .. 4 - Len(shape) |-> 1]
<1>1. front \in [1 .. 0 -> {1}]
  OBVIOUS
<1>2. front \in Seq({1}) /\ Len(front) = 0
  <2> HIDE DEF front
  <2>1. front \in Seq({1})
    BY <1>1, SeqDef
  <2>2. QED
    BY <1>1, <2>1, LenProperties
<1>3. front = << >>
  BY <1>2, EmptySeq
<1>4. Padded(shape) = front \o shape
  BY DEF Padded
<1> HIDE DEF front
<1>5. << >> \o shape = shape
  BY ConcatEmptySeq DEF IsList
<1>6. QED
  BY <1>3, <1>4, <1>5, ListFacts

LEMMA BroadcastChannels ==
  ASSUME NEW a, NEW b, IsList(a), Len(a) = 4, a[2] # 1
  PROVE  Broadcast(a, b)[2] = a[2]
BY PaddedFour DEF Broadcast

LEMMA ChannelShape ==
  ASSUME NEW tensor, NEW channels, IsChannelBias(tensor, channels), Len(tensor.shape) = 4
  PROVE  tensor.shape = << 1, channels, 1, 1 >>
<1>1. tensor.shape \in {<< channels >>, << 1, channels, 1, 1 >>}
  BY DEF IsChannelBias
<1>2. Len(<< channels >>) = 1
  OBVIOUS
<1>3. QED
  BY <1>1, <1>2

(* What an addition brings to the convolution it reads.                    *)
LEMMA AdditionReads ==
  ASSUME NEW ops, IsList(ops), Sorted(ops), NEW tens, AllFit(ops, tens),
         Sound(Active(ops, {}), tens, outputs),
         NEW c \in ToSet(ops), c.type = "Conv", NEW add, NEW b, NEW h,
         BiasedBy(ops, tens, c, add, b, h)
  PROVE  /\ add \in Active(ops, {}) /\ add.type = "Add" /\ c.output \notin outputs
         /\ DOMAIN add.inputs = {1, 2} /\ add.inputs[1] = c.output /\ add.inputs[2] = b
         /\ tens[b].role = "vector" /\ tens[b].constant
         /\ tens[add.output].role = "data" /\ Len(tens[add.output].shape) = 4
         /\ AddendsAreChannels =>
              LET channels == tens[c.inputs[2]].shape[1]
              IN  /\ tens[add.output].shape[2] = channels
                  /\ tens[b].shape = << 1, channels, 1, 1 >>
         /\ \A q \in Active(ops, {}) : \A i \in DOMAIN q.inputs : q.inputs[i] = c.output => q = add
<1> DEFINE A == Active(ops, {})
           channels == tens[add.output].shape[2]
<1>1. /\ add \in ToSet(ops) /\ add.type = "Add" /\ c.output \notin outputs
      /\ OnlyConsumer(ops, c.output) = {add.name}
  BY SingleConsumer, GraphOfIs DEF BiasedBy
<1>2. /\ b \in ToSet(add.inputs) /\ b # c.output /\ tens[b].constant
      /\ Len(tens[add.output].shape) = 4 /\ IsChannelBias(tens[b], channels)
  BY GraphOfIs DEF BiasedBy, AddedBias
<1>3. OnlyConsumer(ops, c.output) = {add.name}
  BY <1>1
<1>4. \E i \in DOMAIN add.inputs : add.inputs[i] = c.output
  BY <1>1, <1>3, OnlyReader
<1>5. \A q \in ToSet(ops) : \A i \in DOMAIN q.inputs : q.inputs[i] = c.output => q = add
  BY <1>1, <1>3, OnlyReader
<1>6. \A q \in A : \A i \in DOMAIN q.inputs : q.inputs[i] = c.output => q = add
  BY <1>5 DEF Active
<1>7. c \in A /\ add \in A
  BY <1>1 DEF Active
<1>8. Fits(add, tens) /\ Fits(c, tens)
  BY <1>1 DEF AllFit
<1>9. DOMAIN add.inputs = {1, 2} /\ add.inputs[1] \in DOMAIN tens /\ add.inputs[2] \in DOMAIN tens
  BY <1>1, <1>8, InputPlaces DEF Fits
<1>10. b = add.inputs[1] \/ b = add.inputs[2]
  BY <1>2, <1>9 DEF ToSet
<1>11. TypedOperation(c, tens) /\ TypedOperation(add, tens) /\ \A t \in DOMAIN tens : TypedTensor(tens[t])
  BY <1>7 DEF Sound
<1>12. /\ tens[c.output].role = "data" /\ Len(tens[c.output].shape) = 4
       /\ AddendsAreChannels => tens[c.output].shape[2] = tens[c.inputs[2]].shape[1]
       /\ tens[c.inputs[2]].role = "weights"
  BY <1>11 DEF TypedOperation
<1>13. tens[b].role # "data"
  BY <1>2, <1>9, <1>10, <1>11 DEF TypedTensor
<1>14. c.output = add.inputs[1] \/ c.output = add.inputs[2]
  BY <1>4, <1>9
<1>15. /\ tens[add.inputs[1]].role = "data" /\ tens[add.inputs[2]].role \in {"data", "vector"}
       /\ tens[add.output].role = "data"
       /\ tens[add.output].shape = Broadcast(tens[add.inputs[1]].shape, tens[add.inputs[2]].shape)
  BY <1>1, <1>11, <1>12, <1>14 DEF TypedOperation
<1>16. b = add.inputs[2] /\ tens[b].role = "vector" /\ c.output = add.inputs[1]
  BY <1>2, <1>10, <1>13, <1>14, <1>15
<1>17. ASSUME AddendsAreChannels PROVE channels = tens[c.inputs[2]].shape[1]
  <2>1. IsList(tens[c.output].shape)
    BY <1>8, <1>11, ListOf DEF TypedTensor, Fits
  <2>2. c.inputs[2] \in DOMAIN tens
    BY <1>8, InputPlaces DEF Fits
  <2>3. tens[c.inputs[2]].shape[1] # 1
    BY <1>11, <1>12, <1>17, <2>2 DEF TypedTensor
  <2>4. QED
    BY <1>12, <1>15, <1>16, <1>17, <2>1, <2>3, BroadcastChannels
<1>18. ASSUME AddendsAreChannels PROVE tens[b].shape = << 1, channels, 1, 1 >>
  <2>1. Len(tens[b].shape) = 4
    BY <1>9, <1>11, <1>16, <1>18 DEF TypedTensor
  <2> HIDE DEF channels
  <2>2. QED
    BY <1>2, <2>1, ChannelShape
<1>19. QED
  BY <1>1, <1>2, <1>6, <1>7, <1>9, <1>15, <1>16, <1>17, <1>18

LEMMA BiasExchanged ==
  ASSUME NEW ops, IsList(ops), Sorted(ops), NEW tens, AllFit(ops, tens), IsFiniteSet(DOMAIN tens),
         Sound(Active(ops, {}), tens, outputs),
         NEW c \in ToSet(ops), c.type = "Conv", ~c.relu, NEW add, NEW b, NEW h,
         BiasedBy(ops, tens, c, add, b, h),
         NEW new, Fits(new, h.tensors), new.name = c.name, new.type = "Conv",
         new.output = add.output, ~new.relu,
         new.inputs = << c.inputs[1], c.inputs[2], unique_tensor_name(tens, "fused_bias", c.name) >>
  PROVE  /\ Exchanged(new, c, add, Active(ops, {}), tens, outputs, h.tensors)
         /\ IsFiniteSet(DOMAIN h.tensors)
<1> DEFINE A    == Active(ops, {})
           name == unique_tensor_name(tens, "fused_bias", c.name)
           more == h.tensors
           W    == tens[c.inputs[2]]
           old  == bias_steps(tens, c)
           v    == tens[b].value
           channels == tens[add.output].shape[2]
           steps == old \o v.steps
<1>1. /\ add \in A /\ add.type = "Add" /\ c.output \notin outputs
      /\ DOMAIN add.inputs = {1, 2} /\ add.inputs[1] = c.output /\ add.inputs[2] = b
      /\ tens[b].role = "vector" /\ tens[b].constant
      /\ tens[add.output].role = "data" /\ Len(tens[add.output].shape) = 4
      /\ AddendsAreChannels => channels = W.shape[1] /\ tens[b].shape = << 1, W.shape[1], 1, 1 >>
      /\ \A q \in A : \A i \in DOMAIN q.inputs : q.inputs[i] = c.output => q = add
  BY AdditionReads
<1>2. c \in A /\ \A q \in A : Fits(q, tens)
  BY DEF Active, AllFit
<1>3. name \notin DOMAIN tens
  BY FreshName
<1>4. more = Put(tens, name, BiasTensor(channels, steps))
  BY <1>1 DEF BiasedBy
<1>4a. channels \in Nat
  <2>1. add.output \in DOMAIN tens
    BY <1>1, <1>2 DEF Fits
  <2>2. tens[add.output].shape \in Seq(Nat) /\ Len(tens[add.output].shape) = 4
    BY <1>1, <2>1 DEF Sound, TypedTensor
  <2>3. 2 \in 1 .. Len(tens[add.output].shape)
    BY <2>2
  <2>4. QED
    BY <2>2, <2>3, ElementOfSeq
<1> HIDE DEF A, name, more, W, steps, channels
<1>5. /\ DOMAIN more = DOMAIN tens \cup {name} /\ more[name] = BiasTensor(channels, steps)
      /\ \A t \in DOMAIN tens : more[t] = tens[t]
  BY <1>3, <1>4 DEF Put
<1>6. IsFiniteSet(DOMAIN more)
  BY <1>5, FiniteMore
<1>7. /\ TypedTensor(more[name]) /\ more[name].role = "bias" /\ more[name].value.steps = steps
      /\ more[name].value # Undefined /\ IsValue(more[name].value)
  BY <1>4a, <1>5, BiasTensorFacts
<1>8. Agrees(more, tens) /\ Adds(more, tens)
  BY <1>5, <1>7 DEF Agrees, Adds
<1>9. DOMAIN new.inputs = {1, 2, 3} /\ Len(new.inputs) = 3
      /\ new.inputs[1] = c.inputs[1] /\ new.inputs[2] = c.inputs[2] /\ new.inputs[3] = name
  BY DEF name
<1>10. /\ 1 \in DOMAIN c.inputs /\ 2 \in DOMAIN c.inputs
       /\ c.inputs[1] \in DOMAIN tens /\ c.inputs[2] \in DOMAIN tens
       /\ add.output \in DOMAIN tens /\ b \in DOMAIN tens
  BY <1>1, <1>2, InputPlaces DEF Fits
<1>11. TakesPlace(new, c, add, A, tens, outputs, more)
  <2>1. Given(more, name)
    BY <1>5, <1>7 DEF Given
  <2>2. \A i \in DOMAIN new.inputs :
           Given(more, new.inputs[i]) \/ \E j \in DOMAIN c.inputs : c.inputs[j] = new.inputs[i]
    BY <1>9, <1>10, <2>1
  <2>3. \E i \in DOMAIN add.inputs : add.inputs[i] = c.output
    BY <1>1
  <2>4. QED
    BY <1>1, <1>2, <2>2, <2>3 DEF TakesPlace
<1>12. \A t \in DOMAIN tens : TypedTensor(tens[t])
  BY DEF Sound
<1>13. TypedOperation(c, tens) /\ W.role = "weights" /\ TypedTensor(W)
  <2>1. TypedOperation(c, tens)
    BY <1>2 DEF Sound, A
  <2>2. QED
    BY <1>10, <1>12, <2>1 DEF TypedOperation, W
<1>14. TypedOperation(new, more)
  <2>1. /\ more[add.output] = tens[add.output] /\ more[c.inputs[2]] = W
        /\ more[c.inputs[1]] = tens[c.inputs[1]]
    BY <1>5, <1>10 DEF W
  <2>2. QED
    BY <1>1, <1>7, <1>9, <1>13, <2>1 DEF TypedOperation, channels
<1>15. ASSUME AddendsAreChannels, NEW M, Explains(M, A, tens)
       PROVE  M[add.output] = Computed(new, Arguments(Extended(M, tens, more), new))
  <2> DEFINE N == Extended(M, tens, more)
  <2>1. M[c.output] = ConvolutionValue(M[c.inputs[1]], W.value, old)
    <3>1. Convolution(Arguments(M, c)) = ConvolutionValue(M[c.inputs[1]], W.value, old)
      BY <1>2, <1>12, <1>13, <1>15, ConvolutionMeans DEF Explains, W
    <3>2. M[c.output] = Computed(c, Arguments(M, c))
      BY <1>2, <1>15 DEF Explains
    <3>3. QED
      BY <3>1, <3>2, ConvComputes
  <2>2. M[add.output] = Plus(M[c.output], M[b])
    <3>1. M[add.output] = Computed(add, Arguments(M, add))
      BY <1>1, <1>15 DEF Explains
    <3>2. Arguments(M, add)[1] = M[c.output] /\ Arguments(M, add)[2] = M[b]
      BY <1>1 DEF Arguments
    <3>3. Computed(add, Arguments(M, add)) = Plus(Arguments(M, add)[1], Arguments(M, add)[2])
      BY <1>1 DEF Computed
    <3>4. QED
      BY <3>1, <3>2, <3>3
  <2>3. M[b] = v /\ v.kind = "vector" /\ v.shape = << 1, W.value.channels, 1, 1 >>
    <3>1. Given(tens, b)
      BY <1>1, <1>10, <1>12, GivenByRole
    <3>2. b \in Known(A, tens)
      BY <1>10, <3>1 DEF Known
    <3>3. M[b] = v /\ M[b].kind = "vector" /\ M[b].shape = tens[b].shape
      BY <1>1, <1>10, <1>15, <3>1, <3>2 DEF Explains
    <3>4. W.value.channels = W.shape[1]
      BY <1>13 DEF TypedTensor
    <3>5. QED
      BY <1>1, <1>15, <3>3, <3>4
  <2> HIDE DEF v
  <2>4. Plus(ConvolutionValue(M[c.inputs[1]], W.value, old), v) =
          ConvolutionValue(M[c.inputs[1]], W.value, steps)
    <3>1. PICK x, V, had : x = M[c.inputs[1]] /\ V = W.value /\ had = old
      OBVIOUS
    <3>2. Plus(ConvolutionValue(x, V, had), v) = ConvolutionValue(x, V, had \o v.steps)
      BY <2>3, <3>1, BiasedConvolution
    <3>3. QED
      BY <3>1, <3>2 DEF steps
  <2>5. N[c.inputs[1]] = M[c.inputs[1]]
    BY <1>5, <1>10 DEF Extended
  <2>6. \A t \in DOMAIN more : Given(more, t) => N[t] = more[t].value
    BY <1>5, <1>15 DEF Extended, Explains, Given
  <2>7. \A t \in DOMAIN more : TypedTensor(more[t])
    BY <1>5, <1>7, <1>12
  <2>8. bias_steps(more, new) = steps /\ more[c.inputs[2]] = W
    BY <1>5, <1>7, <1>9, <1>10 DEF bias_steps, W
  <2>9. Fits(new, more)
    BY DEF more
  <2> HIDE DEF N
  <2>10. Convolution(Arguments(N, new)) = ConvolutionValue(M[c.inputs[1]], W.value, steps)
    BY <1>9, <1>14, <2>5, <2>6, <2>7, <2>8, <2>9, ConvolutionMeans
  <2>11. Computed(new, Arguments(N, new)) = Convolution(Arguments(N, new))
    BY ConvComputes
  <2>12. QED
    BY <2>1, <2>2, <2>3, <2>4, <2>10, <2>11 DEF N
<1>16. Exchanged(new, c, add, A, tens, outputs, more)
  BY <1>8, <1>11, <1>14, <1>15 DEF Exchanged
<1>17. QED
  BY <1>6, <1>16 DEF A, more

LEMMA ReluExchanged ==
  ASSUME NEW ops, IsList(ops), Sorted(ops), NEW tens, AllFit(ops, tens),
         Sound(Active(ops, {}), tens, outputs),
         NEW c \in ToSet(ops), c.type = "Conv", ~c.relu, c.output \notin outputs,
         NEW relu \in ToSet(ops), relu.type = "Relu", OnlyConsumer(ops, c.output) = {relu.name},
         NEW new, Fits(new, tens), new.name = c.name, new.type = "Conv",
         new.inputs = c.inputs, new.output = relu.output, new.relu
  PROVE  /\ relu \in Active(ops, {})
         /\ Exchanged(new, c, relu, Active(ops, {}), tens, outputs, tens)
<1> DEFINE A == Active(ops, {})
<1>1. relu \in ToSet(ops) /\ relu.type = "Relu" /\ c.output \notin outputs
  OBVIOUS
<1>2. OnlyConsumer(ops, c.output) = {relu.name}
  OBVIOUS
<1>3. \E i \in DOMAIN relu.inputs : relu.inputs[i] = c.output
  BY <1>1, <1>2, OnlyReader
<1>4. \A q \in ToSet(ops) : \A i \in DOMAIN q.inputs : q.inputs[i] = c.output => q = relu
  BY <1>1, <1>2, OnlyReader
<1>5. c \in A /\ relu \in A
  BY <1>1 DEF Active
<1>6. \A q \in A : \A i \in DOMAIN q.inputs : q.inputs[i] = c.output => q = relu
  BY <1>4 DEF Active
<1>7. Fits(relu, tens) /\ Fits(c, tens)
  BY <1>1 DEF AllFit
<1>8. DOMAIN relu.inputs = {1} /\ relu.inputs[1] = c.output
  <2>1. DOMAIN relu.inputs = {1}
    BY <1>1, <1>7, InputPlaces DEF Fits
  <2>2. QED
    BY <1>3, <2>1
<1>9. TypedOperation(c, tens) /\ TypedOperation(relu, tens)
  BY <1>5 DEF Sound
<1>10. TypedOperation(new, tens)
  <2>1. tens[relu.output].role = "data" /\ tens[relu.output].shape = tens[c.output].shape
    BY <1>1, <1>8, <1>9 DEF TypedOperation
  <2>2. QED
    BY <1>9, <2>1 DEF TypedOperation
<1>11. TakesPlace(new, c, relu, A, tens, outputs, tens)
  BY <1>1, <1>3, <1>5, <1>6 DEF TakesPlace
<1>12. ASSUME NEW M, Explains(M, A, tens)
       PROVE  M[relu.output] = Computed(new, Arguments(Extended(M, tens, tens), new))
  <2>1. Arguments(Extended(M, tens, tens), new) = Arguments(M, new)
    BY NothingAdded
  <2>2. Arguments(M, new) = Arguments(M, c)
    BY DEF Arguments
  <2>3. M[relu.output] = Computed(relu, Arguments(M, relu))
    BY <1>5, <1>12 DEF Explains
  <2>4. Computed(relu, Arguments(M, relu)) = Rectified(M[c.output])
    <3>1. Arguments(M, relu)[1] = M[c.output]
      BY <1>8 DEF Arguments
    <3>2. Computed(relu, Arguments(M, relu)) = Rectified(Arguments(M, relu)[1])
      BY <1>1 DEF Computed
    <3>3. QED
      BY <3>1, <3>2
  <2>5. M[c.output] = Convolution(Arguments(M, c))
    <3>1. M[c.output] = Computed(c, Arguments(M, c))
      BY <1>5, <1>12 DEF Explains
    <3>2. QED
      BY <3>1, ConvComputes
  <2>6. Computed(new, Arguments(M, new)) = Rectified(Convolution(Arguments(M, new)))
    BY ConvComputes
  <2>7. QED
    BY <2>1, <2>2, <2>3, <2>4, <2>5, <2>6
<1>13. Agrees(tens, tens) /\ Adds(tens, tens)
  BY DEF Agrees, Adds
<1>14. QED
  BY <1>5, <1>10, <1>11, <1>12, <1>13 DEF Exchanged

LEMMA ActiveAbsorbed ==
  ASSUME NEW ops, NEW after, NEW c \in ToSet(ops), NEW o \in ToSet(ops),
         c.type # "Constant", o.type # "Constant", NEW new, new.type # "Constant",
         ToSet(after) = (ToSet(ops) \ {c, o}) \cup {new}
  PROVE  Active(after, {}) = Placed(Active(ops, {}), c, o, new)
BY DEF Active, Placed

LEMMA BiasedSolved ==
  ASSUME NEW ops, IsList(ops), Sorted(ops), NEW tens, AllFit(ops, tens), Distinct(ops, {}),
         IsFiniteSet(DOMAIN tens), NEW origin, Solved(Active(ops, {}), tens, outputs, origin),
         NEW c \in ToSet(ops), c.type = "Conv", ~c.relu, NEW add, NEW b, NEW h,
         BiasedBy(ops, tens, c, add, b, h)
  PROVE  /\ Solved(Active(h.operations, {}), h.tensors, outputs, origin)
         /\ IsFiniteSet(DOMAIN h.tensors)
         /\ \E new \in ToSet(h.operations) :
              /\ new.name = c.name /\ new.type = "Conv" /\ ~new.relu
              /\ ToSet(h.operations) = (ToSet(ops) \ {c, add}) \cup {new}
<1> DEFINE name == unique_tensor_name(tens, "fused_bias", c.name)
<1>1. /\ AllFit(h.operations, h.tensors) /\ add \in ToSet(ops) /\ add.type = "Add"
      /\ \E new \in ToSet(h.operations) :
           /\ ToSet(h.operations) = (ToSet(ops) \ {c, add}) \cup {new}
           /\ new.name = c.name /\ new.type = c.type /\ new.output = add.output
           /\ new.inputs = << c.inputs[1], c.inputs[2], name >> /\ new.relu = c.relu
  BY BiasedGraph
<1>2. PICK new \in ToSet(h.operations) :
           /\ ToSet(h.operations) = (ToSet(ops) \ {c, add}) \cup {new}
           /\ new.name = c.name /\ new.type = c.type /\ new.output = add.output
           /\ new.inputs = << c.inputs[1], c.inputs[2], name >> /\ new.relu = c.relu
  BY <1>1
<1>3. Fits(new, h.tensors) /\ new.type = "Conv" /\ ~new.relu
  BY <1>1, <1>2 DEF AllFit
<1>4. Sound(Active(ops, {}), tens, outputs)
  BY DEF Solved
<1>5. Exchanged(new, c, add, Active(ops, {}), tens, outputs, h.tensors) /\ IsFiniteSet(DOMAIN h.tensors)
  BY <1>2, <1>3, <1>4, BiasExchanged
<1>6. Active(h.operations, {}) = Placed(Active(ops, {}), c, add, new)
  BY <1>1, <1>2, <1>3, ActiveAbsorbed
<1>7. \A q \in Active(ops, {}) : Fits(q, tens)
  BY DEF AllFit, Active
<1>8. Solved(Placed(Active(ops, {}), c, add, new), h.tensors, outputs, origin)
  BY <1>5, <1>7, ExchangedSolved
<1>9. QED
  BY <1>2, <1>3, <1>5, <1>6, <1>8

LEMMA RectifiedSolved ==
  ASSUME NEW ops, IsList(ops), Sorted(ops), NEW tens, AllFit(ops, tens), Distinct(ops, {}),
         NEW origin, Solved(Active(ops, {}), tens, outputs, origin),
         NEW c \in ToSet(ops), c.type = "Conv", ~c.relu, c.output \notin outputs,
         NEW relu \in ToSet(ops), relu.type = "Relu", OnlyConsumer(ops, c.output) = {relu.name},
         NEW h,
         AbsorbsRelu(ops, tens, c, relu, h)
  PROVE  /\ Solved(Active(h.operations, {}), tens, outputs, origin)
         /\ \E new \in ToSet(h.operations) :
              /\ new.name = c.name /\ new.type = "Conv"
              /\ ToSet(h.operations) = (ToSet(ops) \ {c, relu}) \cup {new}
<1>1. relu \in ToSet(ops) /\ relu.type = "Relu"
  OBVIOUS
<1>2. /\ AllFit(h.operations, h.tensors)
      /\ \E new \in ToSet(h.operations) :
           /\ ToSet(h.operations) = (ToSet(ops) \ {c, relu}) \cup {new}
           /\ new.name = c.name /\ new.type = c.type /\ new.output = relu.output
           /\ new.inputs = c.inputs /\ new.relu
  BY <1>1, RectifiedGraph
<1>3. PICK new \in ToSet(h.operations) :
           /\ ToSet(h.operations) = (ToSet(ops) \ {c, relu}) \cup {new}
           /\ new.name = c.name /\ new.type = c.type /\ new.output = relu.output
           /\ new.inputs = c.inputs /\ new.relu
  BY <1>2
<1>4. Fits(new, tens) /\ new.type = "Conv"
  BY <1>2, <1>3 DEF AllFit, AbsorbsRelu
<1>5. Sound(Active(ops, {}), tens, outputs)
  BY DEF Solved
<1>6. Exchanged(new, c, relu, Active(ops, {}), tens, outputs, tens)
  BY <1>3, <1>4, <1>5, ReluExchanged
<1>7. Active(h.operations, {}) = Placed(Active(ops, {}), c, relu, new)
  BY <1>1, <1>3, <1>4, ActiveAbsorbed
<1>8. \A q \in Active(ops, {}) : Fits(q, tens)
  BY DEF AllFit, Active
<1>9. Solved(Placed(Active(ops, {}), c, relu, new), tens, outputs, origin)
  BY <1>6, <1>8, ExchangedSolved
<1>10. QED
  BY <1>3, <1>4, <1>7, <1>9

LEMMA FuseMeaningful ==
  ASSUME WellBuilt, Meaningful, NEW c \in ToSet(operations), FuseConvolution(c)
  PROVE  Meaningful'
<1>1. /\ Running("fuse_conv_bias_relu") /\ Visits(c) /\ c.type = "Conv"
      /\ UNCHANGED << outputs, pass, dropped, source >>
  BY DEF FuseConvolution
<1>2. pass = 3 /\ dropped = {}
  BY <1>1, RunningPass DEF WellBuilt
<1> DEFINE Well(h) == /\ IsList(h.operations) /\ Sorted(h.operations)
                      /\ AllFit(h.operations, h.tensors) /\ Distinct(h.operations, {})
           Means(h) == /\ Solved(Active(h.operations, {}), h.tensors, outputs, Origin)
                       /\ IsFiniteSet(DOMAIN h.tensors)
           Plain(h) == \A o \in ToSet(h.operations) :
                         o.type = "Conv" /\ o.name \in todo /\ o.name # c.name => ~o.relu
           g      == GraphOf(operations, tensors)
           biased == WithBias(g, c)
           c2     == Named(biased.operations, c.name)
           fused  == WithRelu(biased, c2)
<1>3. operations' = fused.operations /\ tensors' = fused.tensors
      /\ todo' = (todo \ {c.name}) \cap Names(fused.operations)
  BY DEF FuseConvolution, GraphOf
<1>4. /\ Well(g) /\ Means(g) /\ g.operations = operations /\ g.tensors = tensors
      /\ DOMAIN g = {"operations", "tensors"}
  BY <1>2, GraphOfIs DEF WellBuilt, Meaningful
<1>5. Plain(g) /\ ~c.relu
  <2>1. Unrectified(Active(operations, {}))
    BY <1>2 DEF Meaningful
  <2>2. c.name \in todo
    BY <1>1 DEF Visits
  <2>3. QED
    BY <1>1, <1>2, <1>4, <2>1, <2>2 DEF Unrectified, Active
<1>6. /\ Well(biased) /\ Means(biased) /\ Plain(biased) /\ DOMAIN biased = {"operations", "tensors"}
      /\ \E o \in ToSet(biased.operations) : o.name = c.name /\ o.type = "Conv" /\ ~o.relu
  <2>1. CASE biased = g
    BY <1>1, <1>4, <1>5, <2>1
  <2>2. CASE biased # g
    <3>1. PICK add, b : BiasedBy(operations, tensors, c, add, b, biased)
      BY <2>2, WithBiasCases
    <3>2. DOMAIN biased = {"operations", "tensors"}
      BY <2>2 DEF WithBias
    <3> HIDE DEF biased
    <3>3. Well(biased)
      BY <1>1, <1>2, <3>1, BiasedGraph DEF WellBuilt
    <3>4. /\ Means(biased)
          /\ \E new \in ToSet(biased.operations) :
               /\ new.name = c.name /\ new.type = "Conv" /\ ~new.relu
               /\ ToSet(biased.operations) = (ToSet(operations) \ {c, add}) \cup {new}
      <4>1. /\ IsList(operations) /\ Sorted(operations) /\ AllFit(operations, tensors)
            /\ Distinct(operations, {}) /\ IsFiniteSet(DOMAIN tensors)
            /\ Solved(Active(operations, {}), tensors, outputs, Origin)
        BY <1>2 DEF WellBuilt, Meaningful
      <4>2. QED
        BY <1>1, <1>5, <3>1, <4>1, BiasedSolved
    <3>5. Plain(biased)
      BY <1>4, <1>5, <3>4
    <3>6. QED
      BY <3>2, <3>3, <3>4, <3>5
  <2>3. QED
    BY <2>1, <2>2
<1> HIDE DEF biased
<1>7. c2 \in ToSet(biased.operations) /\ c2.name = c.name /\ c2.type = "Conv" /\ ~c2.relu
  BY <1>6, NamedIs
<1> HIDE DEF c2
<1>8. Means(fused) /\ Plain(fused)
  <2>1. CASE fused = biased
    BY <1>6, <2>1
  <2>2. CASE fused # biased
    <3>1. PICK relu \in single_consumer(biased, c2, "Relu") :
             AbsorbsRelu(biased.operations, biased.tensors, c2, relu, fused)
      BY <1>6, <2>2, WithReluCases
    <3> HIDE DEF fused
    <3>4. /\ relu \in ToSet(biased.operations) /\ relu.type = "Relu" /\ c2.output \notin outputs
          /\ OnlyConsumer(biased.operations, c2.output) = {relu.name}
      BY SingleConsumer
    <3>2. /\ Solved(Active(fused.operations, {}), biased.tensors, outputs, Origin)
          /\ \E new \in ToSet(fused.operations) :
               /\ new.name = c2.name /\ new.type = "Conv"
               /\ ToSet(fused.operations) = (ToSet(biased.operations) \ {c2, relu}) \cup {new}
      BY <1>6, <1>7, <3>1, <3>4, RectifiedSolved
    <3>3. QED
      BY <1>6, <1>7, <3>1, <3>2 DEF AbsorbsRelu
  <2>3. QED
    BY <2>1, <2>2
<1> HIDE DEF fused
<1>9. Solved(Active(operations', dropped'), tensors', outputs, Origin) /\ IsFiniteSet(DOMAIN tensors')
  BY <1>1, <1>2, <1>3, <1>8
<1>10. Unrectified(Active(operations, dropped))'
  <2>1. \A o \in ToSet(operations') : o.type = "Conv" /\ o.name \in todo' => ~o.relu
    BY <1>3, <1>8
  <2>2. QED
    BY <1>1, <1>2, <2>1 DEF Unrectified, Active
<1>11. Origin' = Origin /\ outputs' = outputs /\ pass' = 3
  BY <1>1, <1>2 DEF Origin
<1>12. QED
  BY <1>9, <1>10, <1>11 DEF Meaningful

-----------------------------------------------------------------------------
(* The graph as it is imported. *)
LEMMA InitializerTyped ==
  ASSUME NEW t \in DOMAIN Initializers
  PROVE  LET x == Initializers[t]
         IN  /\ TypedTensor(x) /\ x.value # Undefined /\ IsValue(x.value)
             /\ x.role = "vector" => x.value.kind = "vector" /\ x.value.shape = x.shape
             /\ x.role = "data" => t \in Inputs
<1> DEFINE x == Initializers[t]
<1>1. IsInitializer(x)
  BY GraphAssumption
<1>2. AddendsAreChannels => /\ x.role = "vector"  => Len(x.shape) = 4
                            /\ x.role = "weights" => x.shape[1] # 1
  BY DEF AddendsAreChannels
<1>2a. ~x.constant => t \in Inputs
  BY DEF Inputs
<1> HIDE DEF x
<1>3. x.shape \in Seq(Nat)
  BY <1>1 DEF IsInitializer
<1>4. DOMAIN x = {"role", "shape", "constant", "value"} /\ x.constant \in BOOLEAN
  BY <1>1 DEF IsInitializer
<1>5. CASE x.role = "data"
  <2>1. ~x.constant /\ x.value = [kind |-> "input"]
    BY <1>1, <1>5 DEF IsInitializer
  <2>2. "kind" \in DOMAIN x.value /\ x.value.kind = "input"
    BY <2>1
  <2>3. x.value # Undefined /\ IsValue(x.value)
    BY <2>2 DEF Undefined, IsValue
  <2>4. QED
    BY <1>2a, <1>3, <1>4, <1>5, <2>1, <2>3 DEF TypedTensor, x
<1>6. CASE x.role = "weights"
  <2>1. x.value = [kind |-> "weights", base |-> x.value.base, channels |-> x.shape[1], scales |-> << >>]
    BY <1>1, <1>6 DEF IsInitializer
  <2>2. /\ DOMAIN x.value = {"kind", "base", "channels", "scales"}
        /\ x.value.kind = "weights" /\ x.value.channels = x.shape[1]
    BY <2>1
  <2>2a. Len(x.shape) = 4
    BY <1>1, <1>6 DEF IsInitializer
  <2>3. x.value # Undefined /\ IsValue(x.value)
    BY <2>2 DEF Undefined, IsValue
  <2>4. QED
    BY <1>2, <1>3, <1>4, <1>6, <2>2, <2>2a, <2>3 DEF TypedTensor, x
<1>7. CASE x.role \in {"bias", "vector"}
  <2>1. x.value = Vector(x.shape, x.value.steps)
    BY <1>1, <1>7 DEF IsInitializer
  <2>2. DOMAIN x.value = {"kind", "shape", "steps"} /\ x.value.kind = "vector" /\ x.value.shape = x.shape
    BY <2>1 DEF Vector
  <2>3. x.value # Undefined /\ IsValue(x.value)
    BY <2>2 DEF Undefined, IsValue
  <2>4. QED
    BY <1>2, <1>3, <1>4, <1>7, <2>2, <2>3 DEF TypedTensor, x
<1>8. CASE x.role = "parameters"
  <2>1. x.value = [kind |-> "parameters", id |-> x.value.id]
    BY <1>1, <1>8 DEF IsInitializer
  <2>2. "kind" \in DOMAIN x.value /\ x.value.kind = "parameters"
    BY <2>1
  <2>3. x.value # Undefined /\ IsValue(x.value)
    BY <2>2 DEF Undefined, IsValue
  <2>4. QED
    BY <1>3, <1>4, <1>8, <2>2, <2>3 DEF TypedTensor, x
<1>9. CASE x.role = "shape"
  <2>1. x.value = [kind |-> "shape"]
    BY <1>1, <1>9 DEF IsInitializer
  <2>2. "kind" \in DOMAIN x.value /\ x.value.kind = "shape"
    BY <2>1
  <2>3. x.value # Undefined /\ IsValue(x.value)
    BY <2>2 DEF Undefined, IsValue
  <2>4. QED
    BY <1>3, <1>4, <1>9, <2>2, <2>3 DEF TypedTensor, x
<1>10. x.role \in {"data", "weights", "bias", "vector", "parameters", "shape"}
  BY <1>1 DEF IsInitializer
<1>11. QED
  BY <1>5, <1>6, <1>7, <1>8, <1>9, <1>10 DEF x

LEMMA InitMeaningful ==
  ASSUME Init PROVE Meaningful
<1>1. /\ operations = << >> /\ tensors = Initializers /\ outputs = {} /\ pass = 0 /\ dropped = {}
  BY DEF Init
<1>2. Active(operations, dropped) = {}
  BY <1>1, EmptyList DEF Active
<1>3. \A t \in DOMAIN tensors : /\ TypedTensor(tensors[t]) /\ Given(tensors, t)
                                /\ IsValue(tensors[t].value)
                                /\ tensors[t].role = "data" => t \in Inputs
                                /\ tensors[t].role = "vector" =>
                                     /\ tensors[t].value.kind = "vector"
                                     /\ tensors[t].value.shape = tensors[t].shape
  BY <1>1, InitializerTyped DEF Given
<1>4. IsFiniteSet(DOMAIN tensors)
  BY <1>1, GraphAssumption
<1>5. Sound({}, tensors, {})
  <2>1. Inputs \subseteq DOMAIN tensors
    BY <1>1 DEF Inputs
  <2>2. Fed(tensors)
    BY <1>3, <2>1 DEF Fed
  <2>3. QED
    BY <1>3, <2>2 DEF Sound, Ordered
<1> DEFINE M == [t \in DOMAIN tensors |-> tensors[t].value]
<1>6. Explains(M, {}, tensors)
  <2>1. Known({}, tensors) \subseteq DOMAIN tensors
    BY DEF Known
  <2>2. \A t \in DOMAIN tensors : M[t] = tensors[t].value
    OBVIOUS
  <2> HIDE DEF M
  <2>3. QED
    BY <1>3, <2>1, <2>2 DEF Explains
<1>7. Solved({}, tensors, {}, Origin)
  BY <1>5, <1>6 DEF Solved
<1>8. Beginning
  <2>1. \A o \in ToSet(operations) : o.type = "Constant" => tensors[o.output].constant
    BY <1>1, EmptyList
  <2>2. DOMAIN tensors = DOMAIN Initializers \cup {OutputOf(k) : k \in DOMAIN operations}
    BY <1>1, EmptyList
  <2>3. QED
    BY <1>1, <1>3, <2>1, <2>2 DEF Beginning
<1>9. Unrectified(Active(operations, dropped))
  BY <1>2 DEF Unrectified
<1> HIDE DEF M
<1>10. Solved(Active(operations, dropped), tensors, outputs, Origin)
  BY <1>1, <1>2, <1>7
<1>11. pass # 2
  BY <1>1
<1>12. QED
  BY <1>4, <1>8, <1>9, <1>10, <1>11 DEF Meaningful

(* more is tens with one tensor of its own name added. *)
Grown(more, tens, name, x) ==
  /\ name \notin DOMAIN tens
  /\ DOMAIN more = DOMAIN tens \cup {name} /\ more[name] = x
  /\ \A t \in DOMAIN tens : more[t] = tens[t]

LEMMA GrownSound ==
  ASSUME NEW A, NEW tens, NEW outs, Sound(A, tens, outs), \A q \in A : Fits(q, tens),
         NEW more, NEW name, NEW x, Grown(more, tens, name, x), TypedTensor(x),
         x.role # "data" \/ x.value = Undefined
  PROVE  /\ Agrees(more, tens)
         /\ \A t \in DOMAIN more : TypedTensor(more[t])
         /\ \A q \in A : Fits(q, more) /\ TypedOperation(q, more) /\ q.output # name
         /\ \A t \in DOMAIN tens : Given(more, t) <=> Given(tens, t)
         /\ Fed(more)
<1>1. Agrees(more, tens)
  BY DEF Grown, Agrees
<1>2. \A t \in DOMAIN more : TypedTensor(more[t])
  BY DEF Grown, Sound
<1>3. SameForms(more, tens)
  BY DEF Grown, SameForms
<1>4. ASSUME NEW q \in A PROVE Fits(q, more) /\ TypedOperation(q, more) /\ q.output # name
  <2>1. Fits(q, tens) /\ TypedOperation(q, tens)
    BY DEF Sound
  <2>2. Fits(q, more)
    BY <2>1, FitsMore DEF Grown
  <2>3. TypedOperation(q, more)
    BY <1>3, <2>1, <2>2, SameTyped
  <2>4. q.output # name
    BY <2>1 DEF Fits, Grown
  <2>5. QED
    BY <2>2, <2>3, <2>4
<1>5. \A t \in DOMAIN tens : Given(more, t) <=> Given(tens, t)
  BY DEF Grown, Given
<1>6. Fed(more)
  BY DEF Sound, Fed, Given, Grown
<1>7. QED
  BY <1>1, <1>2, <1>4, <1>5, <1>6

LEMMA GivenSolved ==
  ASSUME NEW A, NEW tens, NEW origin, Solved(A, tens, {}, origin), \A q \in A : Fits(q, tens),
         NEW more, NEW name, NEW x, Grown(more, tens, name, x), TypedTensor(x),
         x.value # Undefined, IsValue(x.value), x.role # "data",
         x.role = "vector" => x.value.kind = "vector" /\ x.value.shape = x.shape
  PROVE  Solved(A, more, {}, origin)
<1>1. Sound(A, tens, {})
  BY DEF Solved
<1>2. /\ Agrees(more, tens)
      /\ \A t \in DOMAIN more : TypedTensor(more[t])
      /\ \A q \in A : Fits(q, more) /\ TypedOperation(q, more) /\ q.output # name
      /\ \A t \in DOMAIN tens : Given(more, t) <=> Given(tens, t)
      /\ Fed(more)
  BY <1>1, GrownSound
<1>3. Ordered(A, more, {})
  <2>1. ASSUME NEW q \in A, NEW i \in DOMAIN q.inputs PROVE Supplied(A, more, q.inputs[i], q.name)
    <3>1. Supplied(A, tens, q.inputs[i], q.name) /\ q.inputs[i] \in DOMAIN tens
      BY <1>1 DEF Sound, Ordered, Fits
    <3>2. QED
      BY <1>2, <3>1 DEF Supplied
  <2>2. ASSUME NEW q \in A PROVE ~Given(more, q.output)
    BY <1>1, <1>2 DEF Sound, Ordered, Fits
  <2>3. QED
    BY <1>1, <2>1, <2>2 DEF Sound, Ordered
<1>4. ASSUME NEW M, Explains(M, A, tens)
      PROVE  Explains([t \in DOMAIN more |-> IF t = name THEN x.value ELSE M[t]], A, more)
  <2> DEFINE N == [t \in DOMAIN more |-> IF t = name THEN x.value ELSE M[t]]
  <2>1. N[name] = x.value /\ \A t \in DOMAIN tens : N[t] = M[t]
    BY DEF Grown
  <2> HIDE DEF N
  <2>2. \A t \in DOMAIN more : Given(more, t) => N[t] = more[t].value
    BY <1>2, <1>4, <2>1 DEF Explains, Grown
  <2>3. ASSUME NEW q \in A PROVE N[q.output] = Computed(q, Arguments(N, q))
    <3>1. Arguments(N, q) = Arguments(M, q)
      BY <2>1 DEF Arguments, Fits
    <3>2. N[q.output] = M[q.output]
      BY <2>1 DEF Fits
    <3>3. QED
      BY <1>4, <3>1, <3>2 DEF Explains
  <2>4. ASSUME NEW t \in Known(A, more)
        PROVE  /\ IsValue(N[t])
               /\ more[t].role = "vector" => N[t].kind = "vector" /\ N[t].shape = more[t].shape
    <3>1. CASE t = name
      BY <2>1, <3>1 DEF Grown
    <3>2. CASE t # name
      <4>1. t \in Known(A, tens) /\ t \in DOMAIN tens
        BY <1>2, <3>2 DEF Known, Grown
      <4>2. QED
        BY <1>4, <2>1, <4>1 DEF Explains, Grown
    <3>3. QED
      BY <3>1, <3>2
  <2>5. Explains(N, A, more)
    BY <2>2, <2>3, <2>4 DEF Explains
  <2>6. QED
    BY <2>5 DEF N
<1>5. AddendsAreChannels => \E N : Explains(N, A, more)
  BY <1>4 DEF Solved
<1>6. QED
  BY <1>2, <1>3, <1>5 DEF Solved, Sound

LEMMA NodeSolved ==
  ASSUME NEW A, NEW tens, NEW origin, Solved(A, tens, {}, origin), \A q \in A : Fits(q, tens),
         NEW o, NEW x, NEW more, Grown(more, tens, o.output, x), TypedTensor(x),
         x.value = Undefined, TypedOperation(o, more),
         \A i \in DOMAIN o.inputs : o.inputs[i] \in Known(A, tens),
         \A p \in A : p.name < o.name,
         AddendsAreChannels => \A M : Explains(M, A, tens) =>
           /\ IsValue(Computed(o, Arguments(M, o)))
           /\ x.role = "vector" => /\ Computed(o, Arguments(M, o)).kind = "vector"
                                   /\ Computed(o, Arguments(M, o)).shape = x.shape
  PROVE  Solved(A \cup {o}, more, {}, origin)
<1>1. Sound(A, tens, {})
  BY DEF Solved
<1>2. /\ Agrees(more, tens)
      /\ \A t \in DOMAIN more : TypedTensor(more[t])
      /\ \A q \in A : Fits(q, more) /\ TypedOperation(q, more) /\ q.output # o.output
      /\ \A t \in DOMAIN tens : Given(more, t) <=> Given(tens, t)
      /\ Fed(more)
  BY <1>1, GrownSound
<1> DEFINE B == A \cup {o}
<1>3. Known(A, tens) \subseteq DOMAIN tens
  BY DEF Known
<1>4. Ordered(B, more, {})
  <2>1. ASSUME NEW q \in B, NEW i \in DOMAIN q.inputs PROVE Supplied(B, more, q.inputs[i], q.name)
    <3>1. CASE q \in A
      <4>1. Supplied(A, tens, q.inputs[i], q.name) /\ q.inputs[i] \in DOMAIN tens
        BY <1>1, <3>1 DEF Sound, Ordered, Fits
      <4>2. QED
        BY <1>2, <4>1 DEF Supplied
    <3>2. CASE q = o
      <4>1. o.inputs[i] \in Known(A, tens)
        BY <3>2
      <4>2. QED
        BY <1>2, <3>2, <4>1 DEF Supplied, Known
    <3>3. QED
      BY <3>1, <3>2
  <2>2. ASSUME NEW q \in B PROVE ~Given(more, q.output)
    <3>1. CASE q \in A
      BY <1>1, <1>2, <3>1 DEF Sound, Ordered, Fits
    <3>2. CASE q = o
      BY <3>2 DEF Given, Grown
    <3>3. QED
      BY <3>1, <3>2
  <2>3. \A p, q \in B : p.output = q.output => p = q
    BY <1>1, <1>2 DEF Sound, Ordered
  <2> HIDE DEF B
  <2>4. QED
    BY <2>1, <2>2, <2>3 DEF Ordered
<1>5. ASSUME NEW M, Explains(M, A, tens),
             LET v == Computed(o, Arguments(M, o))
             IN  IsValue(v) /\ (x.role = "vector" => v.kind = "vector" /\ v.shape = x.shape)
      PROVE  \E N : Explains(N, B, more)
  <2> DEFINE v == Computed(o, Arguments(M, o))
             N == [t \in DOMAIN more |-> IF t = o.output THEN v ELSE M[t]]
  <2>1. N[o.output] = v /\ \A t \in DOMAIN tens : N[t] = M[t]
    BY DEF Grown
  <2>2. IsValue(v) /\ (x.role = "vector" => v.kind = "vector" /\ v.shape = x.shape)
    BY <1>5
  <2> HIDE DEF N, v
  <2>3. \A t \in DOMAIN more : Given(more, t) => N[t] = more[t].value
    <3>1. ~Given(more, o.output)
      BY DEF Given, Grown
    <3>2. QED
      BY <1>2, <1>5, <2>1, <3>1 DEF Explains, Grown
  <2>4. ASSUME NEW q \in B PROVE N[q.output] = Computed(q, Arguments(N, q))
    <3>1. \A i \in DOMAIN q.inputs : q.inputs[i] \in DOMAIN tens
      BY <1>3 DEF Fits
    <3>2. Arguments(N, q) = Arguments(M, q)
      BY <2>1, <3>1 DEF Arguments
    <3>3. CASE q \in A
      <4>1. N[q.output] = M[q.output]
        BY <2>1, <3>3 DEF Fits
      <4>2. QED
        BY <1>5, <3>2, <3>3, <4>1 DEF Explains
    <3>4. CASE q = o
      BY <2>1, <3>2, <3>4 DEF v
    <3>5. QED
      BY <3>3, <3>4
  <2>5. ASSUME NEW t \in Known(B, more)
        PROVE  /\ IsValue(N[t])
               /\ more[t].role = "vector" => N[t].kind = "vector" /\ N[t].shape = more[t].shape
    <3>1. CASE t = o.output
      BY <2>1, <2>2, <3>1 DEF Grown
    <3>2. CASE t # o.output
      <4>1. t \in Known(A, tens) /\ t \in DOMAIN tens
        BY <1>2, <3>2 DEF Known, Grown
      <4>2. QED
        BY <1>5, <2>1, <4>1 DEF Explains, Grown
    <3>3. QED
      BY <3>1, <3>2
  <2> HIDE DEF B
  <2>6. Explains(N, B, more)
    BY <2>3, <2>4, <2>5 DEF Explains
  <2>7. QED
    BY <2>6
<1> HIDE DEF B
<1>8. AddendsAreChannels => \E N : Explains(N, B, more)
  BY <1>5 DEF Solved
<1> USE DEF B
<1>9. \A q \in B : TypedOperation(q, more)
  BY <1>2
<1> HIDE DEF B
<1>10. Solved(B, more, {}, origin)
  BY <1>2, <1>4, <1>8, <1>9 DEF Solved, Sound
<1>11. QED
  BY <1>10 DEF B

LEMMA NormalizedValue ==
  ASSUME NEW v, IsValue(v), NEW p PROVE IsValue(Normalized(v, p))
<1>1. CASE v.kind = "conv"
  <2>1. PICK s, t : s = Append(v.scales, p.id) /\ t = Append(v.steps, p.id)
    OBVIOUS
  <2>2. Normalized(v, p) = [v EXCEPT !.scales = s, !.steps = t]
    BY <1>1, <2>1 DEF Normalized
  <2>3. DOMAIN Normalized(v, p) = DOMAIN v /\ Normalized(v, p).kind = v.kind
    BY <2>2
  <2>4. QED
    BY <2>3 DEF IsValue
<1>2. CASE v.kind # "conv"
  <2>1. Normalized(v, p) = [kind |-> "normalized", of |-> << v, p >>]
    BY <1>2 DEF Normalized
  <2>2. "kind" \in DOMAIN Normalized(v, p) /\ Normalized(v, p).kind = "normalized"
    BY <2>1
  <2>3. QED
    BY <2>2 DEF IsValue
<1>3. QED
  BY <1>1, <1>2

LEMMA ComputedValue ==
  ASSUME NEW o, o.type \in (NodeTypes \cup {"View"}) \ {"Constant"}, NEW args,
         o.type \in {"Add", "BatchNormalization"} => IsValue(args[1]),
         o.type = "Add" => IsValue(args[2])
  PROVE  IsValue(Computed(o, args))
<1> DEFINE v == Computed(o, args)
<1>0. CASE o.type = "Conv" /\ o.relu
  <2>1. v = [kind |-> "relu", of |-> Convolution(args)]
    BY <1>0 DEF Computed, Rectified
  <2>2. "kind" \in DOMAIN v /\ v.kind = "relu"
    BY <2>1
  <2>3. QED
    BY <2>2 DEF IsValue
<1>1. CASE o.type = "Conv" /\ ~o.relu
  <2>1. v = Convolution(args)
    BY <1>1 DEF Computed
  <2>2. DOMAIN v = {"kind", "of", "base", "channels", "scales", "steps"} /\ v.kind = "conv"
    BY <2>1 DEF Convolution
  <2>3. QED
    BY <2>2 DEF IsValue
<1>2. CASE o.type = "Add"
  <2>1. v = Plus(args[1], args[2])
    BY <1>2 DEF Computed
  <2>2. QED
    BY <1>2, <2>1, PlusValue
<1>3. CASE o.type = "BatchNormalization"
  <2>1. v = Normalized(args[1], args[2])
    BY <1>3 DEF Computed
  <2>2. QED
    BY <1>3, <2>1, NormalizedValue
<1>4. CASE o.type = "Relu"
  <2>1. v = [kind |-> "relu", of |-> args[1]]
    BY <1>4 DEF Computed, Rectified
  <2>2. "kind" \in DOMAIN v /\ v.kind = "relu"
    BY <2>1
  <2>3. QED
    BY <2>2 DEF IsValue
<1>5. CASE o.type = "Softmax"
  <2>1. v = [kind |-> "softmax", of |-> args[1]]
    BY <1>5 DEF Computed
  <2>2. "kind" \in DOMAIN v /\ v.kind = "softmax"
    BY <2>1
  <2>3. QED
    BY <2>2 DEF IsValue
<1>6. CASE o.type \in {"Reshape", "View"}
  <2>1. v = [kind |-> "view", of |-> args[1]]
    BY <1>6 DEF Computed
  <2>2. "kind" \in DOMAIN v /\ v.kind = "view"
    BY <2>1
  <2>3. QED
    BY <2>2 DEF IsValue
<1>7. QED
  BY <1>0, <1>1, <1>2, <1>3, <1>4, <1>5, <1>6 DEF NodeTypes

LEMMA PaddedNumbers ==
  ASSUME NEW shape \in Seq(Nat), NEW i \in 1 .. 4 PROVE Padded(shape)[i] \in Nat
<1> DEFINE front == [k \in 1 .. 4 - Len(shape) |-> 1]
<1>1. Len(shape) \in Nat
  OBVIOUS
<1>2. PICK n \in Nat : 1 .. 4 - Len(shape) = 1 .. n /\ 4 <= n + Len(shape)
  <2>1. CASE Len(shape) <= 4
    BY <1>1, <2>1
  <2>2. CASE Len(shape) > 4
    <3>1. 1 .. 4 - Len(shape) = 1 .. 0
      BY <1>1, <2>2
    <3>2. QED
      BY <1>1, <2>2, <3>1
  <2>3. QED
    BY <1>1, <2>1, <2>2
<1>3. front \in Seq(Nat) /\ Len(front) = n
  <2>1. front \in [1 .. n -> Nat] /\ DOMAIN front = 1 .. n
    BY <1>2
  <2> HIDE DEF front
  <2>2. front \in Seq(Nat)
    BY <2>1, SeqDef
  <2>3. QED
    BY <1>2, <2>1, <2>2, LenProperties
<1>4. Padded(shape) = front \o shape
  BY DEF Padded
<1> HIDE DEF front
<1>5. front \o shape \in Seq(Nat) /\ Len(front \o shape) = n + Len(shape)
  BY <1>3, ConcatProperties
<1>6. i \in 1 .. Len(front \o shape)
  BY <1>1, <1>2, <1>5
<1>7. QED
  BY <1>4, <1>5, <1>6, ElementOfSeq

LEMMA FourNumbers ==
  ASSUME NEW F, F = [i \in 1 .. 4 |-> F[i]], \A i \in 1 .. 4 : F[i] \in Nat
  PROVE  F \in Seq(Nat) /\ Len(F) = 4
<1>1. F \in [1 .. 4 -> Nat] /\ DOMAIN F = 1 .. 4
  OBVIOUS
<1>2. F \in Seq(Nat)
  BY <1>1, SeqDef
<1>3. QED
  BY <1>1, <1>2, LenProperties

LEMMA BroadcastShape ==
  ASSUME NEW a \in Seq(Nat), NEW b \in Seq(Nat)
  PROVE  /\ Broadcast(a, b) \in Seq(Nat) /\ Len(Broadcast(a, b)) = 4
         /\ Len(a) = 4 /\ a = b => Broadcast(a, b) = a
<1> DEFINE F == Broadcast(a, b)
<1>1. F = [i \in 1 .. 4 |-> F[i]]
  BY DEF Broadcast
<1>2. ASSUME NEW i \in 1 .. 4 PROVE F[i] \in Nat
  <2>1. Padded(a)[i] \in Nat /\ Padded(b)[i] \in Nat
    BY PaddedNumbers
  <2>2. QED
    BY <2>1 DEF Broadcast
<1>3. ASSUME Len(a) = 4, a = b PROVE F = a
  <2>1. IsList(a)
    BY ListOf
  <2>2. Padded(a) = a /\ DOMAIN a = 1 .. 4
    BY <1>3, <2>1, PaddedFour
  <2>3. a = [i \in 1 .. 4 |-> a[i]]
    BY <2>1, <2>2, ListFacts
  <2>4. \A i \in 1 .. 4 : F[i] = a[i]
    BY <1>3, <2>2 DEF Broadcast
  <2> HIDE DEF F
  <2>5. QED
    BY <1>1, <2>3, <2>4
<1> HIDE DEF F
<1>4. F \in Seq(Nat) /\ Len(F) = 4
  BY <1>1, <1>2, FourNumbers
<1>5. QED
  BY <1>3, <1>4 DEF F

(* What the operands of an imported node are. *)
LEMMA OperandsAre ==
  ASSUME NEW type \in NodeTypes, NEW inputs \in Operands(type)
  PROVE  LET Role(i) == tensors[inputs[i]].role
             Four(i) == Len(tensors[inputs[i]].shape) = 4
         IN  /\ type = "Conv" =>
                  /\ Role(1) = "data" /\ Four(1) /\ Role(2) = "weights"
                  /\ Len(inputs) = 3 => Role(3) = "bias"
             /\ type = "Add" =>
                  \/ Role(1) = "data" /\ Four(1) /\ Role(2) = "data" /\ Four(2)
                  \/ Role(1) = "data" /\ Four(1) /\ Role(2) = "vector"
                  \/ /\ Role(1) = "vector" /\ Role(2) = "vector"
                     /\ tensors[inputs[1]].shape = tensors[inputs[2]].shape
             /\ type = "BatchNormalization" =>
                  Role(1) = "data" /\ Four(1) /\ Role(2) = "parameters"
             /\ type \in {"Relu", "Softmax"} => Role(1) = "data"
             /\ type = "Reshape" => Role(1) = "data" /\ Four(1)
<1>1. \A role : \A t \in With(role) : tensors[t].role = role
  BY DEF With
<1>2. \A t \in Images : tensors[t].role = "data" /\ Len(tensors[t].shape) = 4
  BY DEF Images, Data, With, Shape
<1>3. CASE type = "Conv"
  <2>1. \/ inputs \in Images \X With("weights")
        \/ inputs \in Images \X With("weights") \X With("bias")
    BY <1>3 DEF Operands
  <2>2. CASE inputs \in Images \X With("weights")
    <3>1. PICK a \in Images, b \in With("weights") : inputs = << a, b >>
      BY <2>2
    <3>2. Len(inputs) = 2 /\ inputs[1] = a /\ inputs[2] = b
      BY <3>1
    <3>3. QED
      BY <1>1, <1>2, <1>3, <3>2
  <2>3. CASE inputs \in Images \X With("weights") \X With("bias")
    <3>1. PICK a \in Images, b \in With("weights"), c \in With("bias") : inputs = << a, b, c >>
      BY <2>3
    <3>2. inputs[1] = a /\ inputs[2] = b /\ inputs[3] = c
      BY <3>1
    <3>3. QED
      BY <1>1, <1>2, <1>3, <3>2
  <2>4. QED
    BY <2>1, <2>2, <2>3
<1>4. CASE type = "Add"
  <2>1. \/ inputs \in Images \X (Images \cup With("vector"))
        \/ inputs \in With("vector") \X With("vector") /\ Shape(inputs[1]) = Shape(inputs[2])
    BY <1>4 DEF Operands
  <2>2. CASE inputs \in Images \X (Images \cup With("vector"))
    <3>1. PICK a \in Images, b \in Images \cup With("vector") : inputs = << a, b >>
      BY <2>2
    <3>2. inputs[1] = a /\ inputs[2] = b
      BY <3>1
    <3>3. tensors[a].role = "data" /\ Len(tensors[a].shape) = 4
      BY <1>2
    <3>4. \/ tensors[b].role = "data" /\ Len(tensors[b].shape) = 4
          \/ tensors[b].role = "vector"
      BY <1>1, <1>2
    <3>5. QED
      BY <1>4, <3>2, <3>3, <3>4
  <2>3. CASE inputs \in With("vector") \X With("vector") /\ Shape(inputs[1]) = Shape(inputs[2])
    <3>1. PICK a \in With("vector"), b \in With("vector") : inputs = << a, b >>
      BY <2>3
    <3>2. inputs[1] = a /\ inputs[2] = b
      BY <3>1
    <3>3. tensors[a].role = "vector" /\ tensors[b].role = "vector"
      BY <1>1
    <3>4. tensors[inputs[1]].shape = tensors[inputs[2]].shape
      BY <2>3 DEF Shape
    <3>5. QED
      BY <1>4, <3>2, <3>3, <3>4
  <2>4. QED
    BY <2>1, <2>2, <2>3
<1>5. CASE type = "BatchNormalization"
  <2>1. PICK a \in Images, b \in With("parameters") : inputs = << a, b >>
    BY <1>5 DEF Operands
  <2>2. inputs[1] = a /\ inputs[2] = b
    BY <2>1
  <2>3. QED
    BY <1>1, <1>2, <1>5, <2>2
<1>6. CASE type \in {"Relu", "Softmax"}
  <2>1. PICK a \in Data : inputs = << a >>
    BY <1>6 DEF Operands
  <2>2. inputs[1] = a /\ tensors[a].role = "data"
    BY <2>1 DEF Data, With
  <2>3. QED
    BY <1>6, <2>2
<1>7. CASE type = "Reshape"
  <2>1. PICK a \in Images, b \in With("shape") : inputs = << a, b >>
    BY <1>7 DEF Operands
  <2>2. inputs[1] = a
    BY <2>1
  <2>3. QED
    BY <1>2, <1>7, <2>2
<1>8. CASE type = "Constant"
  BY <1>8
<1>9. QED
  BY <1>3, <1>4, <1>5, <1>6, <1>7, <1>8 DEF NodeTypes

LEMMA ConvolvedShape ==
  ASSUME NEW shape \in Seq(Nat), Len(shape) = 4, NEW channels \in Nat
  PROVE  LET new == [shape EXCEPT ![2] = channels]
         IN  new \in Seq(Nat) /\ Len(new) = 4 /\ new[2] = channels
<1> DEFINE new == [shape EXCEPT ![2] = channels]
<1>1. DOMAIN shape = 1 .. 4 /\ \A i \in 1 .. 4 : shape[i] \in Nat
  BY LenProperties, ElementOfSeq
<1>2. DOMAIN new = DOMAIN shape /\ new = [i \in DOMAIN shape |-> new[i]]
  OBVIOUS
<1>3. new[2] = channels /\ \A i \in 1 .. 4 : i # 2 => new[i] = shape[i]
  BY <1>1
<1> HIDE DEF new
<1>4. new = [i \in 1 .. 4 |-> new[i]] /\ \A i \in 1 .. 4 : new[i] \in Nat
  BY <1>1, <1>2, <1>3
<1>5. new \in Seq(Nat) /\ Len(new) = 4
  BY <1>4, FourNumbers
<1>6. QED
  BY <1>3, <1>5 DEF new

LEMMA ProductNat == \A m, n \in Nat : m * n \in Nat
OBVIOUS

LEMMA ResultTyped ==
  ASSUME \A t \in DOMAIN tensors : TypedTensor(tensors[t]),
         NEW type \in NodeTypes, type # "Constant", NEW inputs \in Operands(type),
         NEW n, NEW x, x = ResultTensor(type, inputs, n)
  PROVE  /\ TypedTensor(x) /\ x.value = Undefined /\ x.shape = ResultShape(type, inputs)
         /\ x.role = IF type = "Add" /\ tensors[inputs[1]].role = "vector" THEN "vector" ELSE "data"
<1>1. \A i \in DOMAIN inputs : inputs[i] \in DOMAIN tensors
  BY NodeArity
<1>2. 1 \in DOMAIN inputs
  <2>1. PICK len \in {1, 2, 3} : len = Len(inputs)
    BY NodeArity DEF NodeTypes
  <2>2. IsList(inputs)
    BY NodeArity
  <2>3. QED
    BY <2>1, <2>2, ListFacts
<1>3. inputs[1] \in With("vector") <=> tensors[inputs[1]].role = "vector"
  BY <1>1, <1>2 DEF With
<1>4. /\ x.role = IF type = "Add" /\ tensors[inputs[1]].role = "vector" THEN "vector" ELSE "data"
      /\ x.shape = ResultShape(type, inputs) /\ ~x.constant /\ x.constant \in BOOLEAN
      /\ x.value = Undefined /\ DOMAIN x = {"role", "shape", "constant", "value"}
  BY <1>3 DEF ResultTensor
<1>5. tensors[inputs[1]].shape \in Seq(Nat)
  BY <1>1, <1>2 DEF TypedTensor
<1>5a. ASSUME type \in {"Conv", "Add"}
       PROVE  inputs[2] \in DOMAIN tensors /\ tensors[inputs[2]].shape \in Seq(Nat)
  <2>1. PICK len \in {2, 3} : len = Len(inputs)
    BY <1>5a, NodeArity
  <2>2. 2 \in DOMAIN inputs
    BY <2>1, NodeArity, ListFacts
  <2>3. QED
    BY <1>1, <2>2 DEF TypedTensor
<1>6. x.shape \in Seq(Nat) /\ (x.role = "vector" => Len(x.shape) = 4)
  <2>1. CASE type = "Conv"
    <3>1. Len(tensors[inputs[1]].shape) = 4 /\ tensors[inputs[2]].role = "weights"
      BY <2>1, OperandsAre
    <3>2. PICK s, channels : s = tensors[inputs[1]].shape /\ channels = tensors[inputs[2]].shape[1]
      OBVIOUS
    <3>3. x.shape = [s EXCEPT ![2] = channels]
      BY <1>4, <2>1, <3>2 DEF ResultShape, Shape
    <3>4. channels \in Nat
      BY <1>5a, <2>1, <3>1, <3>2, WeightChannels
    <3>5. s \in Seq(Nat) /\ Len(s) = 4
      BY <1>5, <3>1, <3>2
    <3>6. x.shape \in Seq(Nat) /\ Len(x.shape) = 4
      BY <3>3, <3>4, <3>5, ConvolvedShape
    <3>7. QED
      BY <3>6
  <2>2. CASE type = "Add"
    <3>1. x.shape = Broadcast(Shape(inputs[1]), Shape(inputs[2]))
      BY <1>4, <2>2 DEF ResultShape
    <3>2. QED
      BY <1>5, <1>5a, <2>2, <3>1, BroadcastShape DEF Shape
  <2>3. CASE type \in {"BatchNormalization", "Relu", "Softmax"}
    <3>1. x.shape = tensors[inputs[1]].shape
      BY <1>4, <2>3 DEF ResultShape, Shape
    <3>2. QED
      BY <1>4, <1>5, <2>3, <3>1
  <2>4. CASE type = "Reshape"
    <3>1. Len(tensors[inputs[1]].shape) = 4
      BY <2>4, OperandsAre
    <3>2. PICK rows : rows = tensors[inputs[1]].shape[2]
      OBVIOUS
    <3>3. rows \in Nat
      <4>1. 2 \in 1 .. Len(tensors[inputs[1]].shape)
        BY <3>1
      <4>2. QED
        BY <1>5, <3>2, <4>1, ElementOfSeq
    <3>4. PICK e : e = rows * Channels * Channels
      OBVIOUS
    <3>5. e \in Nat
      BY <3>3, <3>4, ProductNat, GraphAssumption DEF GraphAssumption
    <3>6. x.shape = << 1, e >>
      BY <1>4, <2>4, <3>2, <3>4 DEF ResultShape, Shape
    <3>7. << 1, e >> \in Seq(Nat)
      BY <3>5
    <3>8. x.role = "data"
      BY <1>4, <2>4
    <3>9. QED
      BY <3>6, <3>7, <3>8
  <2>5. QED
    BY <2>1, <2>2, <2>3, <2>4 DEF NodeTypes
<1>7. x.role \in {"vector", "data"}
  BY <1>4
<1>8. TypedTensor(x)
  BY <1>4, <1>6, <1>7 DEF TypedTensor
<1>9. QED
  BY <1>4, <1>8

LEMMA NodeTyped ==
  ASSUME \A t \in DOMAIN tensors : TypedTensor(tensors[t]),
         NEW type \in NodeTypes, type # "Constant", NEW inputs \in Operands(type),
         NEW n, NEW x, x = ResultTensor(type, inputs, n),
         NEW o, o.type = type, o.inputs = inputs,
         NEW more, more[o.output] = x, \A i \in DOMAIN inputs : more[inputs[i]] = tensors[inputs[i]]
  PROVE  TypedOperation(o, more)
<1>1. \A i \in DOMAIN inputs : inputs[i] \in DOMAIN tensors
  BY NodeArity
<1>2. /\ x.shape = ResultShape(type, inputs)
      /\ x.role = IF type = "Add" /\ tensors[inputs[1]].role = "vector" THEN "vector" ELSE "data"
  BY ResultTyped
<1>3. IsList(inputs) /\ DOMAIN inputs = 1 .. Len(inputs)
  BY NodeArity, ListFacts
<1>4. CASE type = "Conv"
  <2>1. PICK len \in {2, 3} : len = Len(inputs)
    BY <1>4, NodeArity
  <2>2. 1 \in DOMAIN inputs /\ 2 \in DOMAIN inputs /\ (len = 3 => 3 \in DOMAIN inputs)
    BY <1>3, <2>1
  <2>3. /\ tensors[inputs[2]].role = "weights" /\ (len = 3 => tensors[inputs[3]].role = "bias")
        /\ tensors[inputs[1]].role = "data" /\ Len(tensors[inputs[1]].shape) = 4
    BY <1>4, <2>1, OperandsAre
  <2>4. Len(x.shape) = 4 /\ x.shape[2] = tensors[inputs[2]].shape[1]
    <3>1. PICK s, channels : s = tensors[inputs[1]].shape /\ channels = tensors[inputs[2]].shape[1]
      OBVIOUS
    <3>2. x.shape = [s EXCEPT ![2] = channels]
      BY <1>2, <1>4, <3>1 DEF ResultShape, Shape
    <3>3. s \in Seq(Nat) /\ Len(s) = 4
      BY <1>1, <2>2, <2>3, <3>1 DEF TypedTensor
    <3>3a. channels \in Nat
      BY <1>1, <2>2, <2>3, <3>1, WeightChannels
    <3>4. QED
      BY <3>1, <3>2, <3>3, <3>3a, ConvolvedShape
  <2>5. x.role = "data"
    BY <1>2, <1>4
  <2>6. /\ more[inputs[2]].role = "weights" /\ (len = 3 => more[inputs[3]].role = "bias")
        /\ more[inputs[2]].shape = tensors[inputs[2]].shape
        /\ more[inputs[1]].role = "data" /\ Len(more[inputs[1]].shape) = 4
    BY <2>2, <2>3
  <2>7. QED
    BY <1>4, <2>1, <2>4, <2>5, <2>6 DEF TypedOperation
<1>5. CASE type \in {"Add", "BatchNormalization"}
  <2>1. DOMAIN inputs = {1, 2}
    BY <1>3, <1>5, NodeArity
  <2>2. more[inputs[1]] = tensors[inputs[1]] /\ more[inputs[2]] = tensors[inputs[2]]
    BY <2>1
  <2>3. TypedTensor(tensors[inputs[1]]) /\ TypedTensor(tensors[inputs[2]])
    BY <1>1, <2>1
  <2>4. CASE type = "Add"
    <3>1. x.shape = Broadcast(tensors[inputs[1]].shape, tensors[inputs[2]].shape)
      BY <1>2, <2>4 DEF ResultShape, Shape
    <3>2. CASE /\ tensors[inputs[1]].role = "data" /\ Len(tensors[inputs[1]].shape) = 4
               /\ \/ tensors[inputs[2]].role = "data" /\ Len(tensors[inputs[2]].shape) = 4
                  \/ tensors[inputs[2]].role = "vector"
      <4>1. /\ AddendsAreChannels => Len(tensors[inputs[2]].shape) = 4
            /\ tensors[inputs[2]].role \in {"data", "vector"}
        BY <2>3, <3>2 DEF TypedTensor
      <4>2. x.role = "data"
        BY <1>2, <3>2
      <4>3. QED
        BY <2>2, <2>4, <3>1, <3>2, <4>1, <4>2 DEF TypedOperation
    <3>3. CASE /\ tensors[inputs[1]].role = "vector" /\ tensors[inputs[2]].role = "vector"
               /\ tensors[inputs[1]].shape = tensors[inputs[2]].shape
      <4>1. x.role = "vector"
        BY <1>2, <2>4, <3>3
      <4>2. ASSUME AddendsAreChannels PROVE x.shape = tensors[inputs[1]].shape
        <5>1. tensors[inputs[1]].shape \in Seq(Nat) /\ Len(tensors[inputs[1]].shape) = 4
          BY <2>3, <3>3, <4>2 DEF TypedTensor
        <5>2. QED
          BY <3>1, <3>3, <5>1, BroadcastShape
      <4>3. QED
        BY <2>2, <2>4, <3>3, <4>1, <4>2 DEF TypedOperation
    <3>4. QED
      BY <2>4, <3>2, <3>3, OperandsAre
  <2>5. CASE type = "BatchNormalization"
    <3>1. tensors[inputs[1]].role = "data" /\ tensors[inputs[2]].role = "parameters"
      BY <2>5, OperandsAre
    <3>2. x.role = "data" /\ x.shape = tensors[inputs[1]].shape
      BY <1>2, <2>5 DEF ResultShape, Shape
    <3>3. QED
      BY <2>2, <2>5, <3>1, <3>2 DEF TypedOperation
  <2>6. QED
    BY <1>5, <2>4, <2>5
<1>6. CASE type \in {"Relu", "Softmax", "Reshape"}
  <2>1. 1 \in DOMAIN inputs
    <3>1. PICK len \in {1, 2} : len = Len(inputs)
      BY <1>6, NodeArity
    <3>2. QED
      BY <1>3, <3>1
  <2>2. tensors[inputs[1]].role = "data" /\ x.role = "data"
    BY <1>2, <1>6, OperandsAre
  <2>3. type = "Relu" => x.shape = tensors[inputs[1]].shape
    BY <1>2 DEF ResultShape, Shape
  <2>4. QED
    BY <1>6, <2>1, <2>2, <2>3 DEF TypedOperation
<1>7. QED
  BY <1>4, <1>5, <1>6 DEF NodeTypes

(* What an import adds to the graph. *)
LEMMA FreshOutput ==
  ASSUME WellBuilt, Meaningful, pass = 0
  PROVE  OutputOf(Len(operations) + 1) \notin DOMAIN tensors
<1> DEFINE n == Len(operations) + 1
<1>1. IsList(operations) /\ Len(operations) \in Nat /\ DOMAIN operations = 1 .. Len(operations)
  BY ListFacts DEF WellBuilt
<1>2. DOMAIN tensors = DOMAIN Initializers \cup {OutputOf(k) : k \in DOMAIN operations}
  BY DEF Meaningful, Beginning
<1>3. OutputOf(n) \notin DOMAIN Initializers
  <2>1. Len(OutputOf(n)) = 2
    BY DEF OutputOf
  <2>2. \A t \in DOMAIN Initializers : Len(t) = 1
    BY GraphAssumption
  <2>3. QED
    BY <2>1, <2>2
<1>4. ASSUME NEW k \in DOMAIN operations PROVE OutputOf(n) # OutputOf(k)
  BY <1>1 DEF OutputOf
<1>5. QED
  BY <1>2, <1>3, <1>4

LEMMA NodeImported ==
  ASSUME WellBuilt, Meaningful, ImportNode
  PROVE  LET n == Len(operations) + 1
         IN  /\ pass = 0 /\ dropped = {} /\ n \in Nat
             /\ \A p \in ToSet(operations) : p.name < n
             /\ UNCHANGED << outputs, linked, pass, todo, dropped, refused, source >>
             /\ \E type \in NodeTypes : \E inputs \in Operands(type) : \E o :
                  /\ o.name = n /\ o.type = type /\ o.inputs = inputs /\ o.output = OutputOf(n)
                  /\ ~o.relu /\ IsList(inputs)
                  /\ ToSet(operations') = ToSet(operations) \cup {o}
                  /\ DOMAIN operations' = DOMAIN operations \cup {n}
                  /\ Grown(tensors', tensors, o.output, ResultTensor(type, inputs, n))
<1> DEFINE n == Len(operations) + 1
<1>1. IsList(operations) /\ Len(operations) \in Nat /\ DOMAIN operations = 1 .. Len(operations)
  BY ListFacts DEF WellBuilt
<1>2. /\ pass = 0 /\ n \in Nat /\ n \in DOMAIN Menu
      /\ UNCHANGED << outputs, linked, pass, todo, dropped, refused, source >>
  <2>1. Len(Menu) \in Nat /\ DOMAIN Menu = 1 .. Len(Menu)
    BY GraphAssumption, LenProperties DEF GraphAssumption
  <2>2. QED
    BY <1>1, <2>1 DEF ImportNode
<1>3. \A p \in ToSet(operations) : p.name < n
  <2>1. ASSUME NEW p \in ToSet(operations) PROVE p.name < n
    <3>1. PICK k \in DOMAIN operations : p = operations[k]
      BY <1>1, ListFacts
    <3>2. p.name = k
      BY <1>2, <3>1 DEF WellBuilt, Numbered
    <3>3. QED
      BY <1>1, <3>2
  <2>2. QED
    BY <2>1
<1>4. PICK type \in Menu[n] : \E inputs \in Operands(type) :
           /\ operations' = Append(operations, Imported(n, type, inputs))
           /\ tensors' = Put(tensors, OutputOf(n), ResultTensor(type, inputs, n))
  BY DEF ImportNode
<1>5. PICK inputs \in Operands(type) :
           /\ operations' = Append(operations, Imported(n, type, inputs))
           /\ tensors' = Put(tensors, OutputOf(n), ResultTensor(type, inputs, n))
  BY <1>4
<1>6. PICK o : o = Imported(n, type, inputs)
  OBVIOUS
<1>7. type \in NodeTypes
  BY <1>2, MenuTypes
<1>8. OutputOf(n) \notin DOMAIN tensors
  BY <1>2, FreshOutput
<1>9. /\ ToSet(operations') = ToSet(operations) \cup {o}
      /\ DOMAIN operations' = DOMAIN operations \cup {n}
  BY <1>1, <1>5, <1>6, AppendList
<1> HIDE DEF n
<1>10. IsList(inputs)
  BY <1>7, NodeArity
<1>11. o.name = n /\ o.type = type /\ o.inputs = inputs /\ o.output = OutputOf(n)
  <2>1. n \in Nat /\ IsList(inputs)
    BY <1>2, <1>10
  <2>2. QED
    BY <1>6, <2>1, ImportedFields
<1>12. ~o.relu
  BY <1>6, ImportedPlain
<1>13. Grown(tensors', tensors, o.output, ResultTensor(type, inputs, n))
  <2>1. PICK x : x = ResultTensor(type, inputs, n)
    OBVIOUS
  <2>2. tensors' = Put(tensors, OutputOf(n), x)
    BY <1>5, <2>1
  <2>3. Grown(tensors', tensors, OutputOf(n), x)
    <3>1. \A t \in DOMAIN tensors : tensors'[t] = tensors[t]
      BY <1>8, <2>2 DEF Put
    <3>2. DOMAIN tensors' = DOMAIN tensors \cup {OutputOf(n)} /\ tensors'[OutputOf(n)] = x
      BY <2>2 DEF Put
    <3>3. QED
      BY <1>8, <3>1, <3>2 DEF Grown
  <2>4. QED
    BY <1>11, <2>1, <2>3
<1>14. dropped = {}
  BY <1>2 DEF WellBuilt
<1>15. \E type_1 \in NodeTypes : \E inputs_1 \in Operands(type_1) : \E o_1 :
         /\ o_1.name = n /\ o_1.type = type_1 /\ o_1.inputs = inputs_1 /\ o_1.output = OutputOf(n)
         /\ ~o_1.relu /\ IsList(inputs_1)
         /\ ToSet(operations') = ToSet(operations) \cup {o_1}
         /\ DOMAIN operations' = DOMAIN operations \cup {n}
         /\ Grown(tensors', tensors, o_1.output, ResultTensor(type_1, inputs_1, n))
  BY <1>7, <1>9, <1>10, <1>11, <1>12, <1>13
<1>16. QED
  BY <1>2, <1>3, <1>14, <1>15 DEF n

(* While the graph is imported every tensor has a value. *)
LEMMA AllKnown ==
  ASSUME WellBuilt, Meaningful, pass = 0
  PROVE  \A t \in DOMAIN tensors : t \in Known(Active(operations, {}), tensors)
<1>1. /\ DOMAIN tensors = DOMAIN Initializers \cup {OutputOf(k) : k \in DOMAIN operations}
      /\ \A t \in DOMAIN Initializers : Given(tensors, t)
      /\ \A o \in ToSet(operations) : o.type = "Constant" => tensors[o.output].constant
  BY DEF Meaningful, Beginning
<1>2. IsList(operations) /\ Numbered(operations)
  BY DEF WellBuilt
<1>3. ASSUME NEW k \in DOMAIN operations
      PROVE  OutputOf(k) \in Known(Active(operations, {}), tensors)
  <2>1. operations[k] \in ToSet(operations) /\ operations[k].output = OutputOf(k)
    BY <1>2, ListFacts DEF Numbered
  <2>2. PICK p \in ToSet(operations) : p = operations[k] /\ p.output = OutputOf(k)
    BY <2>1
  <2>3. p.output \in DOMAIN tensors
    BY DEF WellBuilt, AllFit, Fits
  <2>4. CASE p.type = "Constant"
    <3>1. TypedTensor(tensors[p.output]) /\ tensors[p.output].constant
      BY <1>1, <2>3, <2>4 DEF Meaningful, Solved, Sound
    <3>2. Given(tensors, p.output)
      BY <2>3, <3>1 DEF TypedTensor, Given
    <3>3. QED
      BY <2>2, <2>3, <3>2 DEF Known
  <2>5. CASE p.type # "Constant"
    BY <2>2, <2>3, <2>5 DEF Known, Active
  <2>6. QED
    BY <2>4, <2>5
<1>4. QED
  BY <1>1, <1>3 DEF Known

LEMMA NodeValue ==
  ASSUME AddendsAreChannels, NEW A, Sound(A, tensors, {}), \A t \in DOMAIN tensors : t \in Known(A, tensors),
         NEW M, Explains(M, A, tensors),
         NEW type \in NodeTypes, type # "Constant", NEW inputs \in Operands(type),
         NEW n, NEW x, x = ResultTensor(type, inputs, n),
         NEW o, o.type = type, o.inputs = inputs, ~o.relu
  PROVE  /\ IsValue(Computed(o, Arguments(M, o)))
         /\ x.role = "vector" => /\ Computed(o, Arguments(M, o)).kind = "vector"
                                 /\ Computed(o, Arguments(M, o)).shape = x.shape
<1>1. \A t \in DOMAIN tensors : TypedTensor(tensors[t])
  BY DEF Sound
<1>2. IsList(inputs) /\ \A i \in DOMAIN inputs : inputs[i] \in DOMAIN tensors
  BY NodeArity
<1>3. \A i \in DOMAIN inputs :
        /\ IsValue(M[inputs[i]])
        /\ tensors[inputs[i]].role = "vector" =>
             M[inputs[i]].kind = "vector" /\ M[inputs[i]].shape = tensors[inputs[i]].shape
  BY <1>2 DEF Explains
<1> DEFINE args == Arguments(M, o)
<1>4. \A i \in DOMAIN inputs : args[i] = M[inputs[i]]
  BY DEF Arguments
<1> HIDE DEF args
<1>5. type \in {"Add", "BatchNormalization"} => DOMAIN inputs = {1, 2}
  <2>1. type \in {"Add", "BatchNormalization"} => Len(inputs) = 2
    BY NodeArity
  <2>2. DOMAIN inputs = 1 .. Len(inputs)
    BY <1>2, ListFacts
  <2>3. QED
    BY <2>1, <2>2
<1>6. IsValue(Computed(o, args))
  <2>1. type \in {"Add", "BatchNormalization"} => IsValue(args[1])
    BY <1>3, <1>4, <1>5
  <2>2. type = "Add" => IsValue(args[2])
    BY <1>3, <1>4, <1>5
  <2>3. QED
    BY <2>1, <2>2, ComputedValue
<1>7. ASSUME x.role = "vector" PROVE Computed(o, args).kind = "vector" /\ Computed(o, args).shape = x.shape
  <2>1. type = "Add" /\ tensors[inputs[1]].role = "vector"
    BY <1>1, <1>7, ResultTyped
  <2>2. /\ tensors[inputs[2]].role = "vector"
        /\ tensors[inputs[1]].shape = tensors[inputs[2]].shape
    BY <2>1, OperandsAre
  <2>3. /\ IsValue(args[1]) /\ args[1].kind = "vector" /\ args[1].shape = tensors[inputs[1]].shape
        /\ IsValue(args[2]) /\ args[2].kind = "vector"
    BY <1>3, <1>4, <1>5, <2>1, <2>2
  <2>4. Computed(o, args) = Plus(args[1], args[2])
    BY <2>1 DEF Computed
  <2>5. Plus(args[1], args[2]).kind = "vector" /\ Plus(args[1], args[2]).shape = args[1].shape
    BY <2>3, PlusValue
  <2>6. x.shape = tensors[inputs[1]].shape
    <3>1. x.shape = Broadcast(tensors[inputs[1]].shape, tensors[inputs[2]].shape)
      <4>1. x.shape = ResultShape(type, inputs)
        BY <1>1, ResultTyped
      <4>2. QED
        BY <2>1, <4>1 DEF ResultShape, Shape
    <3>2. TypedTensor(tensors[inputs[1]])
      BY <1>1, <1>2, <1>5, <2>1
    <3>3. tensors[inputs[1]].shape \in Seq(Nat) /\ Len(tensors[inputs[1]].shape) = 4
      BY <2>1, <3>2 DEF TypedTensor
    <3>4. QED
      BY <2>2, <3>1, <3>3, BroadcastShape
  <2>7. QED
    BY <2>3, <2>4, <2>5, <2>6
<1>8. QED
  BY <1>6, <1>7 DEF args

LEMMA ConstantTyped ==
  ASSUME NEW inputs, NEW n, NEW x, x = ResultTensor("Constant", inputs, n)
  PROVE  /\ TypedTensor(x) /\ x.constant /\ x.value # Undefined /\ IsValue(x.value)
         /\ x.value.kind = "vector" /\ x.value.shape = x.shape /\ x.role = "vector"
<1>1. /\ DOMAIN x = {"role", "shape", "constant", "value"}
      /\ x.role = "vector" /\ x.shape = PerChannel /\ x.constant /\ x.constant \in BOOLEAN
      /\ x.value = Vector(PerChannel, << OutputOf(n) >>)
  BY DEF ResultTensor, ResultShape
<1>2. PerChannel \in Seq(Nat) /\ Len(PerChannel) = 4
  BY GraphAssumption DEF GraphAssumption, PerChannel
<1>3. /\ DOMAIN x.value = {"kind", "shape", "steps"} /\ x.value.kind = "vector"
      /\ x.value.shape = x.shape
  BY <1>1 DEF Vector
<1>4. x.value # Undefined /\ IsValue(x.value)
  BY <1>3 DEF Undefined, IsValue
<1>5. TypedTensor(x)
  BY <1>1, <1>2, <1>4 DEF TypedTensor
<1>6. QED
  BY <1>1, <1>3, <1>4, <1>5

LEMMA ImportNodeMeaningful ==
  ASSUME WellBuilt, Meaningful, ImportNode PROVE Meaningful'
<1> DEFINE n == Len(operations) + 1
           A == Active(operations, {})
<1>1. /\ pass = 0 /\ dropped = {} /\ \A p \in ToSet(operations) : p.name < n
      /\ UNCHANGED << outputs, linked, pass, todo, dropped, refused, source >>
  BY NodeImported
<1>2. PICK type \in NodeTypes : \E inputs \in Operands(type) : \E o :
         /\ o.name = n /\ o.type = type /\ o.inputs = inputs /\ o.output = OutputOf(n)
         /\ ~o.relu /\ IsList(inputs)
         /\ ToSet(operations') = ToSet(operations) \cup {o}
         /\ DOMAIN operations' = DOMAIN operations \cup {n}
         /\ Grown(tensors', tensors, o.output, ResultTensor(type, inputs, n))
  BY NodeImported
<1>3. PICK inputs \in Operands(type) : \E o :
         /\ o.name = n /\ o.type = type /\ o.inputs = inputs /\ o.output = OutputOf(n)
         /\ ~o.relu /\ IsList(inputs)
         /\ ToSet(operations') = ToSet(operations) \cup {o}
         /\ DOMAIN operations' = DOMAIN operations \cup {n}
         /\ Grown(tensors', tensors, o.output, ResultTensor(type, inputs, n))
  BY <1>2
<1>4. PICK o :
         /\ o.name = n /\ o.type = type /\ o.inputs = inputs /\ o.output = OutputOf(n)
         /\ ~o.relu /\ IsList(inputs)
         /\ ToSet(operations') = ToSet(operations) \cup {o}
         /\ DOMAIN operations' = DOMAIN operations \cup {n}
         /\ Grown(tensors', tensors, o.output, ResultTensor(type, inputs, n))
  BY <1>3
<1>5. PICK x : x = ResultTensor(type, inputs, n)
  OBVIOUS
<1>6. Grown(tensors', tensors, o.output, x)
  BY <1>4, <1>5
<1>7. outputs = {} /\ Solved(A, tensors, {}, Origin) /\ IsFiniteSet(DOMAIN tensors)
  BY <1>1 DEF Meaningful, Beginning
<1>8. Sound(A, tensors, {}) /\ \A q \in A : Fits(q, tensors)
  BY <1>7 DEF Solved, WellBuilt, AllFit, Active
<1>9. \A t \in DOMAIN tensors : t \in Known(A, tensors)
  BY <1>1, AllKnown
<1>10. \A t \in DOMAIN tensors : TypedTensor(tensors[t])
  BY <1>8 DEF Sound
<1> HIDE DEF n
<1>11. IsFiniteSet(DOMAIN tensors')
  <2>1. DOMAIN tensors' = DOMAIN tensors \cup {o.output}
    BY <1>6 DEF Grown
  <2>2. QED
    BY <1>7, <2>1, FiniteMore
<1>12. Solved(Active(operations', {}), tensors', {}, Origin)
  <2>1. CASE type = "Constant"
    <3>1. Active(operations', {}) = A
      BY <1>4, <2>1 DEF Active
    <3>2. /\ TypedTensor(x) /\ x.value # Undefined /\ IsValue(x.value)
          /\ x.value.kind = "vector" /\ x.value.shape = x.shape /\ x.role = "vector"
      BY <1>5, <2>1, ConstantTyped
    <3> HIDE DEF A
    <3>3. Solved(A, tensors', {}, Origin)
      BY <1>6, <1>7, <1>8, <3>2, GivenSolved
    <3>4. QED
      BY <3>1, <3>3
  <2>2. CASE type # "Constant"
    <3>1. Active(operations', {}) = A \cup {o}
      BY <1>4, <2>2 DEF Active
    <3>2. TypedTensor(x) /\ x.value = Undefined
      BY <1>5, <1>10, <2>2, ResultTyped
    <3>3. \A i \in DOMAIN o.inputs : o.inputs[i] \in Known(A, tensors)
      BY <1>4, <1>9, NodeArity
    <3>4. \A p \in A : p.name < o.name
      BY <1>1, <1>4 DEF Active, n
    <3>5. TypedOperation(o, tensors')
      <4>1. tensors'[o.output] = x /\ \A i \in DOMAIN inputs : tensors'[inputs[i]] = tensors[inputs[i]]
        BY <1>6, NodeArity DEF Grown
      <4>2. PICK more : more = tensors'
        OBVIOUS
      <4>3. TypedOperation(o, more)
        BY <1>4, <1>5, <1>10, <2>2, <4>1, <4>2, NodeTyped
      <4>4. QED
        BY <4>2, <4>3
    <3> HIDE DEF A
    <3>6. ASSUME AddendsAreChannels, NEW M, Explains(M, A, tensors)
          PROVE  /\ IsValue(Computed(o, Arguments(M, o)))
                 /\ x.role = "vector" => /\ Computed(o, Arguments(M, o)).kind = "vector"
                                         /\ Computed(o, Arguments(M, o)).shape = x.shape
      BY <1>4, <1>5, <1>8, <1>9, <2>2, <3>6, NodeValue
    <3>7. Solved(A \cup {o}, tensors', {}, Origin)
      BY <1>6, <1>7, <1>8, <3>2, <3>3, <3>4, <3>5, <3>6, NodeSolved
    <3>8. QED
      BY <3>1, <3>7
  <2>3. QED
    BY <2>1, <2>2
<1>13. Unrectified(Active(operations, dropped))'
  <2>1. \A q \in ToSet(operations) : q.type = "Conv" => ~q.relu
    <3>1. Unrectified(Active(operations, {}))
      BY <1>1 DEF Meaningful
    <3>2. QED
      BY <1>1, <3>1 DEF Unrectified, Active
  <2>2. \A q \in ToSet(operations') : q.type = "Conv" => ~q.relu
    BY <1>4, <2>1
  <2>3. QED
    BY <2>2 DEF Unrectified, Active
<1>14. Beginning'
  <2>1. DOMAIN tensors' = DOMAIN Initializers \cup {OutputOf(k) : k \in DOMAIN operations'}
    <3>1. DOMAIN tensors = DOMAIN Initializers \cup {OutputOf(k) : k \in DOMAIN operations}
      BY <1>1 DEF Meaningful, Beginning
    <3>2. DOMAIN tensors' = DOMAIN tensors \cup {OutputOf(n)} /\ DOMAIN operations' = DOMAIN operations \cup {n}
      BY <1>4, <1>6 DEF Grown
    <3>3. QED
      BY <3>1, <3>2
  <2>2. \A t \in DOMAIN Initializers : Given(tensors', t)
    BY <1>1, <1>6 DEF Meaningful, Beginning, Given, Grown
  <2>3. \A q \in ToSet(operations') : q.type = "Constant" => tensors'[q.output].constant
    <3>1. ASSUME NEW q \in ToSet(operations'), q.type = "Constant" PROVE tensors'[q.output].constant
      <4>1. CASE q \in ToSet(operations)
        <5>1. tensors[q.output].constant /\ q.output \in DOMAIN tensors
          BY <1>1, <3>1, <4>1 DEF Meaningful, Beginning, WellBuilt, AllFit, Fits
        <5>2. tensors'[q.output] = tensors[q.output]
          BY <1>6, <5>1 DEF Grown
        <5>3. QED
          BY <5>1, <5>2
      <4>2. CASE q = o
        <5>1. x.constant
          BY <1>4, <1>5, <3>1, <4>2, ConstantTyped
        <5>2. QED
          BY <1>6, <4>2, <5>1 DEF Grown
      <4>3. QED
        BY <1>4, <4>1, <4>2
    <3>2. QED
      BY <3>1
  <2>4. QED
    BY <1>1, <1>7, <2>1, <2>2, <2>3 DEF Beginning
<1>15. Origin' = Origin
  BY <1>1 DEF Origin
<1>16. QED
  BY <1>1, <1>7, <1>11, <1>12, <1>13, <1>14, <1>15 DEF Meaningful

LEMMA FinishImportMeaningful ==
  ASSUME WellBuilt, Meaningful, FinishImport PROVE Meaningful'
<1> DEFINE A == Active(operations, {})
<1>1. /\ pass = 0 /\ pass' = 1 /\ operations # << >>
      /\ UNCHANGED << operations, tensors, dropped >>
      /\ source' = [operations |-> operations, tensors |-> tensors]
  BY DEF FinishImport
<1>2. dropped = {} /\ outputs = {}
  BY <1>1 DEF WellBuilt, Meaningful, Beginning
<1>3. /\ IsList(operations) /\ Sorted(operations) /\ AllFit(operations, tensors)
      /\ Sound(A, tensors, {}) /\ \A o \in ToSet(operations) : o.type = "Constant" => tensors[o.output].constant
  BY <1>1, <1>2 DEF WellBuilt, Meaningful, Solved, Beginning
<1>4. ASSUME NEW t \in outputs' PROVE t \in Known(A, tensors)
  <2>1. PICK p \in ToSet(operations) : p.output = t /\ t \in Data
    <3>1. \A i \in DOMAIN operations : operations[i] \in ToSet(operations)
      BY <1>3, ListFacts
    <3>2. Last(operations) \in ToSet(operations)
      <4>1. Len(operations) \in Nat /\ DOMAIN operations = 1 .. Len(operations)
        BY <1>3, ListFacts
      <4>2. Len(operations) # 0
        BY <1>1, <1>3, EmptySeq DEF IsList
      <4>3. Len(operations) \in DOMAIN operations
        BY <4>1, <4>2
      <4>4. QED
        BY <3>1, <4>3 DEF Last
    <3>3. PICK u \in Data \cap {operations[i].output : i \in DOMAIN operations} :
             outputs' = {u, Last(operations).output}
      BY DEF FinishImport
    <3>4. Last(operations).output \in Data
      BY DEF FinishImport
    <3>5. CASE t = u
      BY <3>1, <3>3, <3>5
    <3>6. CASE t = Last(operations).output
      BY <3>2, <3>4, <3>6
    <3>7. QED
      BY <1>4, <3>3, <3>5, <3>6
  <2>2. t \in DOMAIN tensors /\ tensors[t].role = "data"
    BY <2>1 DEF Data, With
  <2>3. p.type # "Constant"
    <3>1. TypedTensor(tensors[t])
      BY <1>3, <2>2 DEF Sound
    <3>2. ~tensors[p.output].constant
      BY <2>1, <2>2, <3>1 DEF TypedTensor
    <3>3. QED
      BY <1>3, <3>2
  <2>4. p \in A
    BY <2>1, <2>3 DEF Active
  <2>5. QED
    BY <2>1, <2>2, <2>4 DEF Known
<1>5. Origin' = Values(operations, tensors)
  BY <1>1 DEF Origin
<1>6. ASSUME AddendsAreChannels
      PROVE  \E M : Explains(M, A, tensors) /\ \A t \in outputs' : M[t] = Origin'[t]
  <2>1. PICK M : Explains(M, A, tensors)
    BY <1>1, <1>2, <1>6 DEF Meaningful, Solved
  <2>2. Ordered(A, tensors, {})
    BY <1>3 DEF Sound
  <2>3. \A t \in Known(A, tensors) : Values(operations, tensors)[t] = M[t]
    BY <1>3, <2>1, <2>2, ExecutionMeets
  <2>4. QED
    BY <1>4, <1>5, <2>1, <2>3
<1>7. Sound(A, tensors, outputs')
  <2>1. outputs' \subseteq Known(A, tensors)
    BY <1>4
  <2>2. QED
    BY <1>3, <2>1 DEF Sound, Ordered
<1>8. Solved(A, tensors, outputs', Origin')
  BY <1>6, <1>7 DEF Solved
<1>9. Unrectified(Active(operations, dropped))'
  <2>1. Unrectified(A)
    BY <1>2 DEF Meaningful
  <2>2. QED
    BY <1>1, <1>2, <2>1 DEF Unrectified, Active
<1>10. QED
  BY <1>1, <1>2, <1>8, <1>9 DEF Meaningful

LEMMA NextMeaningful ==
  ASSUME WellBuilt, Meaningful, Next PROVE Meaningful'
<1>1. CASE ImportNode
  BY <1>1, ImportNodeMeaningful
<1>2. CASE FinishImport
  BY <1>2, FinishImportMeaningful
<1>3. ASSUME NEW o \in ToSet(operations), Visit(o) PROVE Meaningful'
  <2>1. CASE DropConstant(o)
    BY <2>1, DropConstantMeaningful
  <2>2. CASE FoldAdd(o)
    BY <2>2, FoldAddMeaningful
  <2>3. CASE FoldNormalization(o)
    BY <2>3, FoldNormalizationMeaningful
  <2>4. CASE FuseConvolution(o)
    BY <2>4, FuseMeaningful
  <2>5. CASE Canonicalize(o)
    BY <2>5, CanonicalizeMeaningful
  <2>6. CASE Assign(o)
    BY <2>6, AssignMeaningful
  <2>7. CASE Skip(o)
    BY <2>7, SkipMeaningful
  <2>8. QED
    BY <1>3, <2>1, <2>2, <2>3, <2>4, <2>5, <2>6, <2>7 DEF Visit
<1>4. CASE EliminateDeadCode
  BY <1>4, EliminateMeaningful
<1>5. CASE EndPass
  BY <1>5, EndPassMeaningful
<1>6. QED
  BY <1>1, <1>2, <1>3, <1>4, <1>5 DEF Next

LEMMA SameMeaning ==
  ASSUME WellBuilt, Meaningful, UNCHANGED vars PROVE WellBuilt' /\ Meaningful'
<1>1. UNCHANGED << operations, tensors, outputs, linked, pass, todo, dropped, refused, source >>
  BY DEF vars
<1>2. WellBuilt'
  BY <1>1 DEF WellBuilt, Distinct, AllFit, Fits, Sorted, Numbered
<1>3. Origin' = Origin
  BY <1>1 DEF Origin
<1>4. Unrectified(Active(operations, dropped))'
  BY <1>1 DEF Meaningful, Unrectified, Active
<1>5. (pass = 2 => LinksKnown)' /\ (pass = 0 => Beginning)'
  BY <1>1 DEF Meaningful, LinksKnown, FoldedSince, Beginning
<1>6. Solved(Active(operations, dropped), tensors, outputs, Origin)'
  BY <1>1, <1>3 DEF Meaningful
<1>7. QED
  BY <1>1, <1>2, <1>4, <1>5, <1>6 DEF Meaningful

(* The passes of the compiler keep what the graph computes, for all graphs *)
(* and initializers in which adding to channels is kept apart from         *)
(* broadcasting (optimize_graph, passes/pipeline.py).                      *)
THEOREM PassesPreserveSemantics ==
  ASSUME AddendsAreChannels PROVE Spec => []SemanticsPreserved
<1>1. Init => WellBuilt /\ Meaningful
  BY InitWellBuilt, InitMeaningful
<1>2. WellBuilt /\ Meaningful /\ [Next]_vars => WellBuilt' /\ Meaningful'
  BY NextWellBuilt, NextMeaningful, SameMeaning
<1>3. WellBuilt /\ Meaningful => SemanticsPreserved
  BY OutputsKept
<1>4. QED
  BY <1>1, <1>2, <1>3, PTL DEF Spec

-----------------------------------------------------------------------------
(* Quantization gives every convolution constants of its own. *)
LEMMA QuantizedTensors ==
  ASSUME WellBuilt, Meaningful, Quantize
  PROVE  /\ Agrees(tensors', tensors) /\ Adds(tensors', tensors)
         /\ \A o \in ToSet(operations) : o.type = "Conv" =>
              /\ weight_name(tensors, o) \in DOMAIN tensors'
              /\ tensors'[weight_name(tensors, o)] = tensors[o.inputs[2]]
              /\ bias_name(tensors, o) \in DOMAIN tensors'
              /\ tensors'[bias_name(tensors, o)] = QuantizedBias(tensors, o)
<1> DEFINE D == DOMAIN tensors
           C == {o \in ToSet(operations) : o.type = "Conv"}
           W == {weight_name(tensors, o) : o \in C}
           B == {bias_name(tensors, o) : o \in C}
           Made(t) == IF t \in W THEN QuantizedWeights(tensors, Named(operations, t[2]))
                      ELSE IF t \in B THEN QuantizedBias(tensors, Named(operations, t[2]))
                      ELSE tensors[t]
<1>1. tensors' = [t \in D \cup W \cup B |-> Made(t)]
  BY DEF Quantize, Quantized
<1>2. DOMAIN tensors' = D \cup W \cup B /\ \A t \in D \cup W \cup B : tensors'[t] = Made(t)
  BY <1>1
<1>3. ASSUME NEW o \in C
      PROVE  /\ weight_name(tensors, o) \notin D /\ bias_name(tensors, o) \notin D
             /\ weight_name(tensors, o)[1] = "int8_weights" /\ weight_name(tensors, o)[2] = o.name
             /\ bias_name(tensors, o)[1] = "int32_bias" /\ bias_name(tensors, o)[2] = o.name
  <2>1. IsFiniteSet(DOMAIN tensors)
    BY DEF Meaningful
  <2>2. PICK base, other : base = "int8_weights" /\ other = "int32_bias"
    OBVIOUS
  <2>3. /\ unique_tensor_name(tensors, base, o.name) \notin DOMAIN tensors
        /\ \E n \in Nat : unique_tensor_name(tensors, base, o.name) = << base, o.name, n >>
    BY <2>1, FreshName
  <2>4. /\ unique_tensor_name(tensors, other, o.name) \notin DOMAIN tensors
        /\ \E n \in Nat : unique_tensor_name(tensors, other, o.name) = << other, o.name, n >>
    BY <2>1, FreshName
  <2>5. weight_name(tensors, o) = unique_tensor_name(tensors, base, o.name)
    BY <2>2 DEF weight_name
  <2>6. bias_name(tensors, o) = unique_tensor_name(tensors, other, o.name)
    BY <2>2 DEF bias_name
  <2>7. QED
    BY <2>2, <2>3, <2>4, <2>5, <2>6
<1>4. \A o \in C : Named(operations, o.name) = o
  BY NamedIs DEF WellBuilt
<1>5. ASSUME NEW o \in C
      PROVE  /\ weight_name(tensors, o) \in W
             /\ tensors'[weight_name(tensors, o)] = tensors[o.inputs[2]]
  <2>1. weight_name(tensors, o) \in W
    OBVIOUS
  <2>2. Made(weight_name(tensors, o)) = QuantizedWeights(tensors, Named(operations, weight_name(tensors, o)[2]))
    BY <2>1
  <2>3. QED
    BY <1>2, <1>3, <1>4, <2>1, <2>2 DEF QuantizedWeights
<1>6. ASSUME NEW o \in C
      PROVE  /\ bias_name(tensors, o) \in B
             /\ tensors'[bias_name(tensors, o)] = QuantizedBias(tensors, o)
  <2>1. bias_name(tensors, o) \in B
    OBVIOUS
  <2>2. bias_name(tensors, o) \notin W
    BY <1>3
  <2>3. Made(bias_name(tensors, o)) = QuantizedBias(tensors, Named(operations, bias_name(tensors, o)[2]))
    BY <2>1, <2>2
  <2>4. QED
    BY <1>2, <1>3, <1>4, <2>1, <2>3
<1>7. Agrees(tensors', tensors)
  <2>1. ASSUME NEW t \in D PROVE t \in DOMAIN tensors' /\ tensors'[t] = tensors[t]
    <3>1. t \notin W /\ t \notin B
      BY <1>3
    <3>2. QED
      BY <1>2, <3>1
  <2>2. QED
    BY <2>1 DEF Agrees
<1>8. \A t \in DOMAIN tensors : TypedTensor(tensors[t])
  BY DEF Meaningful, Solved, Sound
<1>9. \A o \in C : /\ o.inputs[2] \in DOMAIN tensors /\ tensors[o.inputs[2]].role = "weights"
  <2>1. ASSUME NEW o \in C
        PROVE  o.inputs[2] \in DOMAIN tensors /\ tensors[o.inputs[2]].role = "weights"
    <3>1. Fits(o, tensors) /\ 2 \in DOMAIN o.inputs
      BY InputPlaces DEF WellBuilt, AllFit, Fits
    <3>2. o \in Active(operations, dropped)
      <4>1. dropped = {}
        BY DEF WellBuilt, Quantize, Optimized, Pipeline
      <4>2. QED
        BY <4>1 DEF Active
    <3>3. TypedOperation(o, tensors)
      BY <3>2 DEF Meaningful, Solved, Sound
    <3>4. QED
      BY <3>1, <3>3 DEF TypedOperation, Fits
  <2>2. QED
    BY <2>1
<1>10. Adds(tensors', tensors)
  <2>1. ASSUME NEW t \in W
        PROVE  /\ TypedTensor(tensors'[t]) /\ tensors'[t].value # Undefined
               /\ IsValue(tensors'[t].value) /\ tensors'[t].role \notin {"vector", "data"}
    <3>1. PICK o \in C : t = weight_name(tensors, o)
      OBVIOUS
    <3>2. PICK x : x = tensors[o.inputs[2]]
      OBVIOUS
    <3>3. tensors'[t] = x /\ TypedTensor(x) /\ x.role = "weights"
      BY <1>5, <1>8, <1>9, <3>1, <3>2
    <3>4. x.value # Undefined /\ IsValue(x.value)
      BY <3>3 DEF TypedTensor, IsValue, Undefined
    <3>5. QED
      BY <3>3, <3>4
  <2>2. ASSUME NEW t \in B
        PROVE  /\ TypedTensor(tensors'[t]) /\ tensors'[t].value # Undefined
               /\ IsValue(tensors'[t].value) /\ tensors'[t].role \notin {"vector", "data"}
    <3>1. PICK o \in C : t = bias_name(tensors, o)
      OBVIOUS
    <3>2. tensors'[t] = QuantizedBias(tensors, o)
      BY <1>6, <3>1
    <3>3. PICK x : x = tensors[o.inputs[2]]
      OBVIOUS
    <3>4. PICK channels : channels = x.shape[1]
      OBVIOUS
    <3>5. channels \in Nat
      <4>1. TypedTensor(x) /\ x.role = "weights"
        BY <1>8, <1>9, <3>3
      <4>2. QED
        BY <3>4, <4>1, WeightChannels
    <3>6. QED
      BY <3>2, <3>3, <3>4, <3>5, BiasTensorFacts DEF QuantizedBias
  <2> HIDE DEF W, B, D
  <2>3. QED
    BY <1>2, <2>1, <2>2 DEF Adds, D
<1>11. QED
  BY <1>2, <1>5, <1>6, <1>7, <1>10

LEMMA ReplacedInputs ==
  ASSUME NEW o, IsOperation(o), NEW inputs, IsList(inputs)
  PROVE  LET q == [o EXCEPT !.inputs = inputs]
         IN  /\ IsOperation(q)
             /\ q.name = o.name /\ q.type = o.type /\ q.inputs = inputs
             /\ q.output = o.output /\ q.relu = o.relu /\ q.fused = o.fused
<1> DEFINE q == [o EXCEPT !.inputs = inputs]
<1>1. /\ DOMAIN q = Fields /\ q.backend = o.backend
      /\ q.name = o.name /\ q.type = o.type /\ q.inputs = inputs
      /\ q.output = o.output /\ q.relu = o.relu /\ q.fused = o.fused
  BY DEF IsOperation, Fields
<1> HIDE DEF q
<1>2. IsOperation(q)
  BY <1>1 DEF IsOperation
<1>3. QED
  BY <1>1, <1>2 DEF q

(* Two operations that differ in where their constants are found. *)
SameRole(q, o) ==
  /\ q.name = o.name /\ q.type = o.type /\ q.output = o.output
  /\ q.relu = o.relu /\ q.fused = o.fused

LEMMA QuantizedFields ==
  ASSUME WellBuilt, Meaningful, Quantize, NEW o \in ToSet(operations)
  PROVE  LET q == QuantizedOperation(tensors, o)
         IN  /\ Fits(q, tensors') /\ SameRole(q, o)
             /\ o.type = "Conv" =>
                  q.inputs = << o.inputs[1], weight_name(tensors, o), bias_name(tensors, o) >>
             /\ o.type # "Conv" => q = o
<1> DEFINE q == QuantizedOperation(tensors, o)
           w == weight_name(tensors, o)
           b == bias_name(tensors, o)
<1>1. Fits(o, tensors)
  BY DEF WellBuilt, AllFit
<1>2. DOMAIN tensors \subseteq DOMAIN tensors'
  BY QuantizedTensors DEF Agrees
<1>3. CASE o.type = "Conv"
  <2>1. PICK inputs : inputs = << o.inputs[1], w, b >>
    OBVIOUS
  <2>2. IsList(inputs) /\ Len(inputs) = 3 /\ DOMAIN inputs = 1 .. 3
    <3>1. inputs \in Seq({o.inputs[1], w, b}) /\ Len(inputs) = 3
      BY <2>1
    <3>2. QED
      BY <3>1, ListOf, ListFacts
  <2>3. q = [o EXCEPT !.inputs = inputs]
    BY <1>3, <2>1 DEF QuantizedOperation
  <2>4. /\ IsOperation(q) /\ q.name = o.name /\ q.type = o.type /\ q.inputs = inputs
        /\ q.output = o.output /\ q.relu = o.relu /\ q.fused = o.fused
    BY <1>1, <2>2, <2>3, ReplacedInputs DEF Fits
  <2> HIDE DEF q
  <2>5. \A i \in DOMAIN inputs : inputs[i] \in DOMAIN tensors'
    <3>1. w \in DOMAIN tensors' /\ b \in DOMAIN tensors'
      BY <1>3, QuantizedTensors
    <3>2. o.inputs[1] \in DOMAIN tensors'
      BY <1>1, <1>2, <1>3, InputPlaces DEF Fits
    <3>3. inputs[1] = o.inputs[1] /\ inputs[2] = w /\ inputs[3] = b
      BY <2>1
    <3> HIDE DEF w, b
    <3>4. QED
      BY <2>2, <3>1, <3>2, <3>3
  <2>6. Arity(q)
    <3>1. Len(q.inputs) = 3
      BY <2>2, <2>4
    <3>2. QED
      BY <1>3, <2>4, <3>1 DEF Arity, NodeTypes
  <2>7. Fits(q, tensors')
    BY <1>1, <1>2, <2>4, <2>5, <2>6 DEF Fits
  <2>8. SameRole(q, o)
    BY <2>4 DEF SameRole
  <2>9. QED
    BY <1>3, <2>1, <2>4, <2>7, <2>8 DEF q
<1>4. CASE o.type # "Conv"
  <2>1. q = o
    BY <1>4 DEF QuantizedOperation
  <2>2. QED
    BY <1>1, <1>2, <1>4, <2>1, FitsMore DEF SameRole
<1>5. QED
  BY <1>3, <1>4

LEMMA QuantizedOperations ==
  ASSUME WellBuilt, Meaningful, Quantize
  PROVE  /\ IsList(operations') /\ Sorted(operations') /\ AllFit(operations', tensors')
         /\ DOMAIN operations' = DOMAIN operations
         /\ \A i \in DOMAIN operations : operations'[i] = QuantizedOperation(tensors, operations[i])
         /\ ToSet(operations') = {QuantizedOperation(tensors, o) : o \in ToSet(operations)}
<1>1. operations' = [i \in DOMAIN operations |-> QuantizedOperation(tensors, operations[i])]
  BY DEF Quantize, Quantized
<1>2. IsList(operations) /\ Sorted(operations)
  BY DEF WellBuilt
<1>3. DOMAIN operations = 1 .. Len(operations) /\ Len(operations) \in Nat
  BY <1>2, ListFacts
<1>4. PICK S : S = {QuantizedOperation(tensors, o) : o \in ToSet(operations)}
  OBVIOUS
<1>5. \A i \in DOMAIN operations : operations[i] \in ToSet(operations)
  BY <1>2, ListFacts
<1>6. operations' \in [1 .. Len(operations) -> S]
  BY <1>1, <1>3, <1>4, <1>5
<1>7. operations' \in Seq(S)
  BY <1>3, <1>6, SeqDef
<1>8. IsList(operations') /\ DOMAIN operations' = DOMAIN operations
  BY <1>1, <1>7, ListOf
<1>9. \A i \in DOMAIN operations : operations'[i] = QuantizedOperation(tensors, operations[i])
  BY <1>1
<1>10. ToSet(operations') = S
  <2>1. \A q \in ToSet(operations') : q \in S
    BY <1>4, <1>5, <1>8, <1>9, ListFacts
  <2>2. ASSUME NEW o \in ToSet(operations)
        PROVE  QuantizedOperation(tensors, o) \in ToSet(operations')
    <3>1. PICK i \in DOMAIN operations : operations[i] = o
      BY <1>2, ListFacts
    <3>2. operations'[i] \in ToSet(operations')
      BY <1>8, <3>1, ListFacts
    <3>3. QED
      BY <1>9, <3>1, <3>2
  <2>3. QED
    BY <1>4, <2>1, <2>2
<1>11. Sorted(operations')
  <2>1. \A i \in DOMAIN operations : operations'[i].name = operations[i].name
    BY <1>5, <1>9, QuantizedFields DEF SameRole
  <2>2. \A q \in ToSet(operations') : q.name \in Nat
    BY <1>2, <1>4, <1>10, QuantizedFields DEF SameRole, Sorted
  <2>3. QED
    BY <1>2, <1>8, <2>1, <2>2 DEF Sorted
<1>12. AllFit(operations', tensors')
  BY <1>4, <1>10, QuantizedFields DEF AllFit
<1>13. QED
  BY <1>4, <1>8, <1>9, <1>10, <1>11, <1>12

(* What one quantized convolution computes. *)
LEMMA QuantizedComputes ==
  ASSUME NEW tens, NEW more, \A t \in DOMAIN tens : TypedTensor(tens[t]),
         \A t \in DOMAIN more : TypedTensor(more[t]), Agrees(more, tens), Adds(more, tens),
         NEW M, \A t \in DOMAIN tens : Given(tens, t) => M[t] = tens[t].value,
         NEW o, Fits(o, tens), TypedOperation(o, tens), o.type = "Conv",
         NEW q, Fits(q, more), TypedOperation(q, more), SameRole(q, o),
         NEW w, NEW b, q.inputs = << o.inputs[1], w, b >>, more[w] = tens[o.inputs[2]],
         more[b] = BiasTensor(tens[o.inputs[2]].shape[1], bias_steps(tens, o))
  PROVE  Computed(q, Arguments(Extended(M, tens, more), q)) = Computed(o, Arguments(M, o))
<1> DEFINE N == Extended(M, tens, more)
<1>1. \A t \in DOMAIN more : Given(more, t) => N[t] = more[t].value
  BY DEF Extended, Agrees, Given
<1>2. \A t \in DOMAIN tens : N[t] = M[t]
  BY DEF Extended, Agrees
<1> HIDE DEF N
<1>3. q.type = "Conv" /\ q.relu = o.relu
  BY DEF SameRole
<1>4. Convolution(Arguments(N, q)) =
        ConvolutionValue(N[q.inputs[1]], more[q.inputs[2]].value, bias_steps(more, q))
  BY <1>1, <1>3, ConvolutionMeans
<1>5. Convolution(Arguments(M, o)) =
        ConvolutionValue(M[o.inputs[1]], tens[o.inputs[2]].value, bias_steps(tens, o))
  BY ConvolutionMeans
<1>6. q.inputs[1] = o.inputs[1] /\ q.inputs[2] = w /\ q.inputs[3] = b /\ Len(q.inputs) = 3
  OBVIOUS
<1>7. N[q.inputs[1]] = M[o.inputs[1]]
  <2>1. o.inputs[1] \in DOMAIN tens
    BY InputPlaces DEF Fits
  <2>2. QED
    BY <1>2, <1>6, <2>1
<1>8. bias_steps(more, q) = bias_steps(tens, o)
  <2>1. PICK channels, steps : channels = tens[o.inputs[2]].shape[1] /\ steps = bias_steps(tens, o)
    OBVIOUS
  <2>2. more[b] = BiasTensor(channels, steps)
    BY <2>1
  <2>3. more[b].value.steps = steps
    BY <2>2 DEF BiasTensor, Vector
  <2>4. bias_steps(more, q) = more[b].value.steps
    BY <1>6 DEF bias_steps
  <2>5. QED
    BY <2>1, <2>3, <2>4
<1>9. Convolution(Arguments(N, q)) = Convolution(Arguments(M, o))
  BY <1>4, <1>5, <1>6, <1>7, <1>8
<1>10. Computed(q, Arguments(N, q)) = Computed(o, Arguments(M, o))
  BY <1>3, <1>9, ConvComputes
<1>11. QED
  BY <1>10 DEF N

LEMMA QuantizedSolved ==
  ASSUME WellBuilt, Meaningful, Quantize
  PROVE  Solved(Active(operations', {}), tensors', outputs, Origin)
<1> DEFINE A == Active(operations, {})
           Q(o) == QuantizedOperation(tensors, o)
<1>1. Executable /\ dropped = {}
  BY DEF WellBuilt, Quantize, Optimized, Pipeline
<1>2. Solved(A, tensors, outputs, Origin) /\ \A q \in A : Fits(q, tensors)
  BY <1>1 DEF Meaningful, WellBuilt, AllFit, Active
<1>3. Sound(A, tensors, outputs) /\ \A t \in DOMAIN tensors : TypedTensor(tensors[t])
  BY <1>2 DEF Solved, Sound
<1>4. PICK more : more = tensors'
  OBVIOUS
<1>5. /\ Agrees(more, tensors) /\ Adds(more, tensors)
      /\ \A o \in A : o.type = "Conv" =>
           /\ weight_name(tensors, o) \in DOMAIN more
           /\ more[weight_name(tensors, o)] = tensors[o.inputs[2]]
           /\ bias_name(tensors, o) \in DOMAIN more
           /\ more[bias_name(tensors, o)] = QuantizedBias(tensors, o)
  BY <1>4, QuantizedTensors DEF Active
<1>6. ASSUME NEW o \in A
      PROVE  /\ Fits(Q(o), more) /\ SameRole(Q(o), o) /\ o.type \in {"Conv", "View", "Softmax"}
             /\ o.type = "Conv" =>
                  Q(o).inputs = << o.inputs[1], weight_name(tensors, o), bias_name(tensors, o) >>
             /\ o.type # "Conv" => Q(o) = o
  BY <1>1, <1>4, QuantizedFields DEF Active, Executable
<1>7. Active(operations', {}) = {Q(o) : o \in A}
  <2>1. ToSet(operations') = {Q(o) : o \in ToSet(operations)}
    BY QuantizedOperations
  <2>2. ToSet(operations) = A
    BY <1>1 DEF Active, Executable
  <2>3. \A o \in A : Q(o).type # "Constant"
    BY <1>6 DEF SameRole
  <2> HIDE DEF A, Q
  <2>4. QED
    BY <2>1, <2>2, <2>3 DEF Active
<1>8. PICK B : B = {Q(o) : o \in A}
  OBVIOUS
<1> HIDE DEF A, Q
<1>9. \A t \in DOMAIN more : TypedTensor(more[t])
  BY <1>3, <1>5 DEF Agrees, Adds
<1>10. \A t \in DOMAIN tensors : Given(more, t) <=> Given(tensors, t)
  BY <1>5, SameGiven
<1>11. ASSUME NEW o \in A PROVE TypedOperation(Q(o), more)
  <2>1. CASE o.type = "Conv"
    <3>1. PICK w, b : w = weight_name(tensors, o) /\ b = bias_name(tensors, o)
      OBVIOUS
    <3>2. PICK q : q = Q(o)
      OBVIOUS
    <3>3. q.inputs = << o.inputs[1], w, b >> /\ q.type = "Conv" /\ q.output = o.output
      BY <1>6, <2>1, <3>1, <3>2 DEF SameRole
    <3>4. q.inputs[1] = o.inputs[1] /\ q.inputs[2] = w /\ q.inputs[3] = b
      BY <3>3
    <3>5. more[w] = tensors[o.inputs[2]]
      BY <1>5, <2>1, <3>1
    <3>6. more[b].role = "bias"
      <4>1. more[b] = QuantizedBias(tensors, o)
        BY <1>5, <2>1, <3>1
      <4>2. QED
        BY <4>1 DEF QuantizedBias, BiasTensor
    <3>7. TypedOperation(o, tensors)
      BY <1>3 DEF Sound
    <3>8. more[o.output] = tensors[o.output] /\ more[o.inputs[1]] = tensors[o.inputs[1]]
      <4>1. Fits(o, tensors) /\ 1 \in DOMAIN o.inputs
        BY <1>2, <2>1, InputPlaces DEF Fits
      <4>2. QED
        BY <1>5, <4>1 DEF Fits, Agrees
    <3>9. TypedOperation(q, more)
      BY <2>1, <3>3, <3>4, <3>5, <3>6, <3>7, <3>8 DEF TypedOperation
    <3>10. QED
      BY <3>2, <3>9
  <2>2. CASE o.type \in {"View", "Softmax"}
    <3>1. Q(o) = o /\ TypedOperation(o, tensors) /\ Fits(o, tensors) /\ Fits(o, more)
      BY <1>2, <1>3, <1>6, <2>2 DEF Sound
    <3>2. SameForms(more, tensors)
      BY <1>5 DEF SameForms, Agrees
    <3>3. QED
      BY <3>1, <3>2, SameTyped
  <2>3. QED
    BY <1>6, <2>1, <2>2
<1>12. ASSUME NEW o \in A, NEW t \in DOMAIN tensors, Supplied(A, tensors, t, o.name)
       PROVE  Supplied(B, more, t, Q(o).name)
  <2>1. Q(o).name = o.name
    BY <1>6 DEF SameRole
  <2>2. CASE Given(tensors, t)
    BY <1>10, <2>2 DEF Supplied
  <2>3. ASSUME NEW p \in A, p.output = t, p.name < o.name PROVE Supplied(B, more, t, Q(o).name)
    <3>1. Q(p) \in B /\ Q(p).output = t /\ Q(p).name < Q(o).name
      BY <1>6, <1>8, <2>1, <2>3 DEF SameRole
    <3>2. QED
      BY <3>1 DEF Supplied
  <2>4. QED
    BY <1>12, <2>2, <2>3 DEF Supplied
<1>13. Ordered(B, more, outputs)
  <2>1. ASSUME NEW o \in A, NEW i \in DOMAIN Q(o).inputs
        PROVE  Supplied(B, more, Q(o).inputs[i], Q(o).name)
    <3>1. \A j \in DOMAIN o.inputs : /\ Supplied(A, tensors, o.inputs[j], o.name)
                                     /\ o.inputs[j] \in DOMAIN tensors
      BY <1>2, <1>3 DEF Sound, Ordered, Fits
    <3>2. CASE o.type = "Conv"
      <4>1. PICK w, b : w = weight_name(tensors, o) /\ b = bias_name(tensors, o)
        OBVIOUS
      <4>2. Q(o).inputs = << o.inputs[1], w, b >>
        BY <1>6, <3>2, <4>1
      <4>3. i \in 1 .. 3 /\ Q(o).inputs[1] = o.inputs[1] /\ Q(o).inputs[2] = w /\ Q(o).inputs[3] = b
        BY <4>2
      <4>4. Given(more, w) /\ Given(more, b)
        <5>1. w \in DOMAIN more /\ more[w] = tensors[o.inputs[2]]
              /\ b \in DOMAIN more /\ more[b] = QuantizedBias(tensors, o)
          BY <1>5, <3>2, <4>1
        <5>2. more[b].value # Undefined
          BY <5>1 DEF QuantizedBias, BiasTensor, Vector, Undefined
        <5>3. Given(tensors, o.inputs[2])
          <6>1. TypedOperation(o, tensors) /\ Fits(o, tensors)
            BY <1>2, <1>3 DEF Sound
          <6>2. o.inputs[2] \in DOMAIN tensors
            BY <3>1, <3>2, <6>1, InputPlaces DEF Fits
          <6>3. tensors[o.inputs[2]].role = "weights"
            BY <3>2, <6>1 DEF TypedOperation
          <6>4. QED
            BY <1>3, <6>2, <6>3, GivenByRole
        <5>4. QED
          BY <5>1, <5>2, <5>3 DEF Given
      <4>5. Supplied(B, more, o.inputs[1], Q(o).name)
        <5>1. 1 \in DOMAIN o.inputs
          BY <1>2, <3>2, InputPlaces DEF Fits
        <5>2. QED
          BY <1>12, <3>1, <5>1
      <4>6. CASE i = 1
        BY <4>3, <4>5, <4>6
      <4>7. CASE i \in {2, 3}
        BY <4>3, <4>4, <4>7 DEF Supplied
      <4>8. QED
        BY <4>3, <4>6, <4>7
    <3>3. CASE o.type # "Conv"
      <4>1. Q(o) = o
        BY <1>6, <3>3
      <4>2. PICK j \in DOMAIN o.inputs : j = i
        BY <4>1
      <4>3. Supplied(B, more, o.inputs[j], Q(o).name)
        BY <1>12, <3>1
      <4>4. QED
        BY <4>1, <4>2, <4>3
    <3>4. QED
      BY <3>2, <3>3
  <2>2. \A q \in B : \A i \in DOMAIN q.inputs : Supplied(B, more, q.inputs[i], q.name)
    BY <1>8, <2>1
  <2>3. ASSUME NEW o \in A PROVE ~Given(more, Q(o).output)
    <3>1. Q(o).output = o.output /\ o.output \in DOMAIN tensors
      BY <1>2, <1>6 DEF SameRole, Fits
    <3>2. ~Given(tensors, o.output)
      BY <1>3 DEF Sound, Ordered
    <3>3. QED
      BY <1>10, <3>1, <3>2
  <2>4. ASSUME NEW o \in A, NEW p \in A, Q(o).output = Q(p).output PROVE o = p
    BY <1>3, <1>6, <2>4 DEF SameRole, Sound, Ordered
  <2>5. \A q, r \in B : q.output = r.output => q = r
    BY <1>8, <2>4
  <2>6. ASSUME NEW t \in outputs PROVE t \in Known(B, more)
    <3>1. t \in Known(A, tensors)
      BY <1>3 DEF Sound, Ordered
    <3>2. t \in DOMAIN tensors /\ t \in DOMAIN more
      BY <1>5, <3>1 DEF Known, Agrees
    <3>3. CASE Given(tensors, t)
      BY <1>10, <3>2, <3>3 DEF Known
    <3>4. ASSUME NEW p \in A, p.output = t PROVE t \in Known(B, more)
      <4>1. Q(p) \in B /\ Q(p).output = t
        BY <1>6, <1>8, <3>4 DEF SameRole
      <4>2. QED
        BY <3>2, <4>1 DEF Known
    <3>5. QED
      BY <3>1, <3>3, <3>4 DEF Known
  <2>7. \A q \in B : ~Given(more, q.output)
    BY <1>8, <2>3
  <2>8. QED
    BY <2>2, <2>5, <2>6, <2>7 DEF Ordered
<1>14. Sound(B, more, outputs)
  <2>1. Fed(more)
    BY <1>3, <1>5, FedMore DEF Sound
  <2>2. QED
    BY <1>8, <1>9, <1>11, <1>13, <2>1 DEF Sound
<1>15. ASSUME AddendsAreChannels
       PROVE  \E M : Explains(M, B, more) /\ \A t \in outputs : M[t] = Origin[t]
  <2>1. PICK M : Explains(M, A, tensors) /\ \A t \in outputs : M[t] = Origin[t]
    BY <1>2, <1>15 DEF Solved
  <2> DEFINE N == Extended(M, tensors, more)
  <2>2. \A t \in DOMAIN tensors : N[t] = M[t]
    BY <1>5 DEF Extended, Agrees
  <2>3. \A t \in DOMAIN more : Given(more, t) => N[t] = more[t].value
    BY <1>5, <2>1 DEF Extended, Agrees, Given, Explains
  <2>4. ASSUME NEW o \in A PROVE N[Q(o).output] = Computed(Q(o), Arguments(N, Q(o)))
    <3>1. N[Q(o).output] = M[o.output]
      BY <1>2, <1>6, <2>2 DEF SameRole, Fits
    <3>2. M[o.output] = Computed(o, Arguments(M, o))
      BY <2>1 DEF Explains
    <3>3. CASE o.type = "Conv"
      <4>1. PICK q : q = Q(o)
        OBVIOUS
      <4>2. PICK w, b : w = weight_name(tensors, o) /\ b = bias_name(tensors, o)
        OBVIOUS
      <4>3. /\ Fits(q, more) /\ TypedOperation(q, more) /\ SameRole(q, o)
            /\ q.inputs = << o.inputs[1], w, b >> /\ more[w] = tensors[o.inputs[2]]
            /\ more[b] = BiasTensor(tensors[o.inputs[2]].shape[1], bias_steps(tensors, o))
        BY <1>5, <1>6, <1>11, <3>3, <4>1, <4>2 DEF QuantizedBias
      <4>4. Fits(o, tensors) /\ TypedOperation(o, tensors)
        BY <1>2, <1>3 DEF Sound
      <4>5. \A t \in DOMAIN tensors : Given(tensors, t) => M[t] = tensors[t].value
        BY <2>1 DEF Explains
      <4>6. Computed(q, Arguments(N, q)) = Computed(o, Arguments(M, o))
        BY <1>3, <1>5, <1>9, <3>3, <4>3, <4>4, <4>5, QuantizedComputes
      <4>7. QED
        BY <3>1, <3>2, <4>1, <4>6
    <3>4. CASE o.type # "Conv"
      <4>1. Q(o) = o
        BY <1>6, <3>4
      <4>2. Arguments(N, o) = Arguments(M, o)
        BY <1>2, <1>5, SameArguments
      <4>3. QED
        BY <3>1, <3>2, <4>1, <4>2
    <3>5. QED
      BY <3>3, <3>4
  <2> HIDE DEF N
  <2>5. ASSUME NEW t \in Known(B, more)
         PROVE  /\ IsValue(N[t])
                /\ more[t].role = "vector" => N[t].kind = "vector" /\ N[t].shape = more[t].shape
    <3>1. CASE t \in DOMAIN tensors
      <4>1. t \in Known(A, tensors)
        <5>1. CASE Given(more, t)
          BY <1>10, <3>1, <5>1 DEF Known
        <5>2. ASSUME NEW o \in A, Q(o).output = t PROVE t \in Known(A, tensors)
          BY <1>6, <3>1, <5>2 DEF Known, SameRole
        <5>3. QED
          BY <1>8, <5>1, <5>2 DEF Known
      <4>2. more[t] = tensors[t]
        BY <1>5, <3>1 DEF Agrees
      <4>3. QED
        BY <2>1, <2>2, <3>1, <4>1, <4>2 DEF Explains
    <3>2. CASE t \notin DOMAIN tensors
      <4>1. t \in DOMAIN more
        BY DEF Known
      <4>2. Given(more, t) /\ IsValue(more[t].value) /\ more[t].role # "vector"
        BY <1>5, <3>2, <4>1 DEF Adds, Given
      <4>3. QED
        BY <2>3, <4>1, <4>2
    <3>3. QED
      BY <3>1, <3>2
  <2>6. Explains(N, B, more)
    BY <1>8, <2>3, <2>4, <2>5 DEF Explains
  <2>7. \A t \in outputs : N[t] = Origin[t]
    BY <1>3, <2>1, <2>2 DEF Sound, Ordered, Known
  <2>8. QED
    BY <2>6, <2>7
<1>16. Solved(B, more, outputs, Origin)
  BY <1>14, <1>15 DEF Solved
<1>17. QED
  BY <1>4, <1>7, <1>8, <1>16

LEMMA QuantizedOutputs ==
  ASSUME AddendsAreChannels, WellBuilt, Meaningful, Quantize PROVE SemanticsPreserved'
<1>1. outputs' = outputs /\ source' = source
  BY DEF Quantize
<1>2. Solved(Active(operations', {}), tensors', outputs, Origin)
  BY QuantizedSolved
<1>3. IsList(operations') /\ Sorted(operations') /\ AllFit(operations', tensors')
  BY QuantizedOperations
<1>4. PICK ops, tens : ops = operations' /\ tens = tensors'
  OBVIOUS
<1>5. \A t \in outputs : /\ t \in DOMAIN tens /\ Values(ops, tens)[t] = Origin[t]
                         /\ Values(ops, tens)[t] # Undefined
  BY <1>2, <1>3, <1>4, SolvedOutputs
<1>6. QED
  BY <1>1, <1>4, <1>5 DEF SemanticsPreserved, Origin

Compiled == IF stage = "passes" THEN WellBuilt /\ Meaningful ELSE SemanticsPreserved

(* From the imported graph to the quantized one that is deployed, the      *)
(* outputs keep the values of the imported graph, under the same condition *)
(* (compile_onnx_bundle, compiler/workflow.py).                            *)
THEOREM CompilationPreservesSemantics ==
  ASSUME AddendsAreChannels PROVE DeploymentSpec => []SemanticsPreserved
<1>1. DeploymentInit => Compiled
  BY InitWellBuilt, InitMeaningful DEF DeploymentInit, Compiled
<1>2. Compiled => SemanticsPreserved
  BY OutputsKept DEF Compiled
<1>3. Compiled /\ [DeploymentNext]_<< vars, deployment >> => Compiled'
  <2> SUFFICES ASSUME Compiled, [DeploymentNext]_<< vars, deployment >> PROVE Compiled'
    OBVIOUS
  <2>1. CASE Optimize
    <3>1. WellBuilt /\ Meaningful /\ Next /\ stage' = "passes"
      BY <2>1 DEF Optimize, Compiled, deployment
    <3>2. WellBuilt' /\ Meaningful'
      BY <3>1, NextWellBuilt, NextMeaningful
    <3>3. QED
      BY <3>1, <3>2 DEF Compiled
  <2>2. CASE Quantize
    <3>1. WellBuilt /\ Meaningful /\ stage' = "plan"
      BY <2>2 DEF Quantize, Optimized, Compiled
    <3>2. QED
      BY <2>2, <3>1, QuantizedOutputs DEF Compiled
  <2>3. ASSUME UNCHANGED vars, stage' # "passes" PROVE Compiled'
    <3>1. SemanticsPreserved
      BY <1>2
    <3>2. SemanticsPreserved'
      BY <2>3, <3>1 DEF SemanticsPreserved, Settled, vars
    <3>3. QED
      BY <2>3, <3>2 DEF Compiled
  <2>4. CASE RefuseToQuantize
    BY <2>3, <2>4 DEF RefuseToQuantize
  <2>5. CASE Allocate \/ BuildAndLoad
    <3>1. stage' # "passes" /\ UNCHANGED vars
      BY <2>5 DEF Allocate, BuildAndLoad, vars
    <3>2. QED
      BY <2>3, <3>1
  <2>6. ASSUME NEW o, RunConvolution(o) \/ RunFallback(o) PROVE Compiled'
    <3>1. UNCHANGED vars /\ stage' # "passes"
      BY <2>6 DEF RunConvolution, RunFallback, TimeOut, Finish
    <3>2. QED
      BY <2>3, <3>1
  <2>7. CASE UNCHANGED << vars, deployment >>
    <3>1. CASE stage = "passes"
      <4>1. WellBuilt' /\ Meaningful'
        BY <2>7, <3>1, SameMeaning DEF Compiled
      <4>2. QED
        BY <2>7, <3>1, <4>1 DEF Compiled, deployment
    <3>2. CASE stage # "passes"
      BY <2>3, <2>7, <3>2 DEF deployment
    <3>3. QED
      BY <3>1, <3>2
  <2>8. QED
    BY <2>1, <2>2, <2>4, <2>5, <2>6, <2>7 DEF DeploymentNext
<1>4. QED
  BY <1>1, <1>2, <1>3, PTL DEF DeploymentSpec

-----------------------------------------------------------------------------
(* Sizes. *)
ProductUpTo(F, shape, top) ==
  F = [n \in 0 .. top |-> IF n = 0 THEN 1 ELSE F[n - 1] * shape[n]]

LEMMA ProductExists ==
  ASSUME NEW shape \in Seq(Nat)
  PROVE  \E F : ProductUpTo(F, shape, Len(shape)) /\ F[Len(shape)] \in Nat
<1> DEFINE top == Len(shape)
           P == {k \in 0 .. top : \E F : ProductUpTo(F, shape, k) /\ F[k] \in Nat}
<1>1. top \in Nat /\ \A n \in 1 .. top : shape[n] \in Nat
  BY ElementOfSeq
<1>2. 0 \in P
  <2> DEFINE F == [n \in 0 .. 0 |-> 1]
  <2>1. ProductUpTo(F, shape, 0) /\ F[0] \in Nat
    BY DEF ProductUpTo
  <2> HIDE DEF F
  <2>2. 0 \in 0 .. top
    BY <1>1
  <2>3. QED
    BY <2>1, <2>2
<1>3. ASSUME NEW k \in 0 .. top - 1, k \in P PROVE k + 1 \in P
  <2>1. PICK F : ProductUpTo(F, shape, k) /\ F[k] \in Nat
    BY <1>3
  <2> DEFINE more == F[k] * shape[k + 1]
             G == [n \in 0 .. k + 1 |-> IF n = k + 1 THEN more ELSE F[n]]
  <2>2. ASSUME NEW n \in 0 .. k + 1
        PROVE  G[n] = IF n = 0 THEN 1 ELSE G[n - 1] * shape[n]
    <3> HIDE DEF top
    <3>1. CASE n = k + 1
      <4>1. n # 0 /\ n - 1 = k /\ k \in 0 .. k + 1 /\ k # k + 1
        BY <1>1, <3>1
      <4>2. G[n - 1] = F[k] /\ G[n] = more
        BY <3>1, <4>1
      <4> HIDE DEF G
      <4>3. QED
        BY <3>1, <4>1, <4>2
    <3>2. CASE n = 0
      <4>1. F[0] = 1
        BY <1>1, <2>1 DEF ProductUpTo
      <4>2. G[0] = F[0]
        BY <1>1, <3>2
      <4> HIDE DEF G
      <4>3. QED
        BY <3>2, <4>1, <4>2
    <3>3. CASE n \in 1 .. k
      <4>1. n - 1 \in 0 .. k + 1 /\ n - 1 # k + 1 /\ n # k + 1 /\ n \in 0 .. k /\ n # 0
        BY <1>1, <3>3
      <4>2. F[n] = F[n - 1] * shape[n]
        BY <2>1, <4>1 DEF ProductUpTo
      <4>3. G[n] = F[n] /\ G[n - 1] = F[n - 1]
        BY <4>1
      <4> HIDE DEF G
      <4>4. QED
        BY <4>1, <4>2, <4>3
    <3>4. QED
      BY <1>1, <3>1, <3>2, <3>3
  <2>3. ProductUpTo(G, shape, k + 1)
    <3>1. G = [n \in 0 .. k + 1 |-> G[n]]
      OBVIOUS
    <3> HIDE DEF G
    <3>2. QED
      BY <2>2, <3>1 DEF ProductUpTo
  <2>4. k + 1 \in 0 .. top
    BY <1>1
  <2>5. G[k + 1] \in Nat
    <3>1. k + 1 \in 1 .. top /\ k + 1 \in 0 .. k + 1
      BY <1>1
    <3>2. G[k + 1] = F[k] * shape[k + 1]
      BY <3>1
    <3> HIDE DEF G, top
    <3>3. shape[k + 1] \in Nat
      BY <1>1, <3>1
    <3>4. QED
      BY <2>1, <3>2, <3>3, ProductNat
  <2> HIDE DEF G
  <2>6. QED
    BY <2>3, <2>4, <2>5
<1>4. top \in P
  <2> HIDE DEF P, top
  <2>1. \A k \in 0 .. top : k \in P
    BY <1>1, <1>2, <1>3, CountUp
  <2>2. QED
    BY <1>1, <2>1
<1>5. QED
  BY <1>4

LEMMA ElementsNat ==
  ASSUME NEW t, tensors[t].shape \in Seq(Nat) PROVE Elements(t) \in Nat
<1>1. PICK shape : shape = tensors[t].shape
  OBVIOUS
<1> DEFINE top == Len(shape)
           G == CHOOSE F : ProductUpTo(F, shape, top)
<1>2. PICK F : ProductUpTo(F, shape, top) /\ F[top] \in Nat
  BY <1>1, ProductExists
<1>3. ProductUpTo(G, shape, top)
  BY <1>2
<1>4. Elements(t) = G[top]
  BY <1>1 DEF Elements, ProductUpTo
<1>5. G[top] = F[top]
  <2> DEFINE P == {k \in 0 .. top : G[k] = F[k]}
  <2> HIDE DEF G
  <2>1. top \in Nat
    BY <1>1
  <2>2. \A k \in 0 .. top : G[k] = IF k = 0 THEN 1 ELSE G[k - 1] * shape[k]
    BY <1>3 DEF ProductUpTo
  <2>3. \A k \in 0 .. top : F[k] = IF k = 0 THEN 1 ELSE F[k - 1] * shape[k]
    BY <1>2 DEF ProductUpTo
  <2> HIDE DEF top
  <2>4. 0 \in P
    BY <2>1, <2>2, <2>3
  <2>5. ASSUME NEW k \in 0 .. top - 1, k \in P PROVE k + 1 \in P
    <3>1. k + 1 \in 0 .. top /\ k + 1 # 0 /\ (k + 1) - 1 = k
      BY <2>1
    <3>2. G[k + 1] = G[k] * shape[k + 1] /\ F[k + 1] = F[k] * shape[k + 1]
      BY <2>2, <2>3, <3>1
    <3>3. QED
      BY <2>5, <3>1, <3>2
  <2>6. \A k \in 0 .. top : k \in P
    <3> HIDE DEF P
    <3>1. QED
      BY <2>1, <2>4, <2>5, CountUp
  <2>7. QED
    BY <2>1, <2>6
<1>6. QED
  BY <1>2, <1>4, <1>5

LEMMA AlignUp ==
  ASSUME NEW value \in Nat PROVE align(value) \in Nat /\ value <= align(value)
<1>1. PICK a \in Nat : a = Alignment /\ a > 0
  BY DeploymentAssumption
<1>2. PICK v \in Nat : v = value + a - 1
  BY <1>1
<1>3. v \div a \in Nat
  BY <1>1
<1>4. v = a * (v \div a) + (v % a) /\ v % a \in 0 .. a - 1
  BY <1>1
<1>5. QED
  BY <1>1, <1>2, <1>3, <1>4 DEF align

-----------------------------------------------------------------------------
(* What is deployed: the quantized graph, which does not change any more.  *)
Carried == Inputs \cup {o.output : o \in ToSet(operations)}

SizesAgree ==
  \A t \in Carried : ElementSize(t) = IF t \in ProducedBy("Softmax") THEN 4 ELSE 1

Deployable ==
  /\ IsList(operations) /\ Sorted(operations) /\ AllFit(operations, tensors)
  /\ \A o \in ToSet(operations) : o.type \in {"Conv", "View", "Softmax"}
  /\ Sound(ToSet(operations), tensors, outputs)
  /\ SizesAgree

LEMMA QuantizedDeployable ==
  ASSUME WellBuilt, Meaningful, Quantize PROVE Deployable'
<1>1. /\ IsList(operations') /\ Sorted(operations') /\ AllFit(operations', tensors')
      /\ ToSet(operations') = {QuantizedOperation(tensors, o) : o \in ToSet(operations)}
  BY QuantizedOperations
<1>2. \A o \in ToSet(operations) : /\ o.type \in {"Conv", "View", "Softmax"}
                                   /\ SameRole(QuantizedOperation(tensors, o), o)
  BY QuantizedFields DEF Quantize, Executable
<1>3. \A q \in ToSet(operations') : q.type \in {"Conv", "View", "Softmax"}
  BY <1>1, <1>2 DEF SameRole
<1>4. Sound(ToSet(operations'), tensors', outputs')
  <2>1. Active(operations', {}) = ToSet(operations')
    BY <1>3 DEF Active
  <2>2. outputs' = outputs
    BY DEF Quantize
  <2>3. Sound(Active(operations', {}), tensors', outputs)
    BY QuantizedSolved DEF Solved
  <2>4. QED
    BY <2>1, <2>2, <2>3
<1>5. ProducedBy("Softmax")' = ProducedBy("Softmax")
  <2>1. ASSUME NEW t \in ProducedBy("Softmax") PROVE t \in ProducedBy("Softmax")'
    <3>1. PICK o \in ToSet(operations) : o.type = "Softmax" /\ t = o.output
      BY DEF ProducedBy
    <3>2. PICK q \in ToSet(operations') : q.type = "Softmax" /\ t = q.output
      BY <1>1, <1>2, <3>1 DEF SameRole
    <3>3. QED
      BY <3>2 DEF ProducedBy
  <2>2. ASSUME NEW t \in ProducedBy("Softmax")' PROVE t \in ProducedBy("Softmax")
    <3>1. PICK q \in ToSet(operations') : q.type = "Softmax" /\ t = q.output
      BY DEF ProducedBy
    <3>2. PICK o \in ToSet(operations) : o.type = "Softmax" /\ t = o.output
      BY <1>1, <1>2, <3>1 DEF SameRole
    <3>3. QED
      BY <3>2 DEF ProducedBy
  <2>3. QED
    BY <2>1, <2>2
<1>6. SizesAgree'
  <2>1. dtype' = [t \in Inputs \cup {o.output : o \in ToSet(operations')} |->
                    IF t \in ProducedBy("Softmax") THEN "float32" ELSE "int8"]
    BY DEF Quantize
  <2>2. Carried' = Inputs \cup {o.output : o \in ToSet(operations')}
    BY DEF Carried
  <2>3. \A t \in Carried' : dtype'[t] = IF t \in ProducedBy("Softmax") THEN "float32" ELSE "int8"
    BY <2>1, <2>2
  <2>4. ASSUME NEW t \in Carried'
        PROVE  ElementSize(t)' = IF t \in ProducedBy("Softmax")' THEN 4 ELSE 1
    BY <1>5, <2>3 DEF ElementSize
  <2>5. QED
    BY <2>4 DEF SizesAgree
<1>7. QED
  BY <1>1, <1>3, <1>4, <1>6 DEF Deployable

(* What the device needs to know of a layer. *)
LEMMA LayerFacts ==
  ASSUME Deployable, NEW o \in ToSet(operations)
  PROVE  /\ o.output \in DOMAIN tensors /\ tensors[o.output].shape \in Seq(Nat)
         /\ ~tensors[o.output].constant
         /\ o.inputs[1] \in DOMAIN tensors /\ tensors[o.inputs[1]].role = "data"
         /\ tensors[o.inputs[1]].shape \in Seq(Nat)
         /\ 1 \in DOMAIN o.inputs
         /\ o.backend = "fpga" =>
              /\ o.inputs[2] \in DOMAIN tensors /\ tensors[o.inputs[2]].shape \in Seq(Nat)
              /\ tensors[o.inputs[1]].shape[2] \in Nat
<1>1. Fits(o, tensors) /\ TypedOperation(o, tensors) /\ o.type \in {"Conv", "View", "Softmax"}
  BY DEF Deployable, AllFit, Sound
<1>2. \A t \in DOMAIN tensors : TypedTensor(tensors[t])
  BY DEF Deployable, Sound
<1>3. o.output \in DOMAIN tensors /\ tensors[o.output].role = "data"
  BY <1>1 DEF Fits, TypedOperation
<1>4. ~tensors[o.output].constant /\ tensors[o.output].shape \in Seq(Nat)
  BY <1>2, <1>3 DEF TypedTensor
<1>5. 1 \in DOMAIN o.inputs /\ o.inputs[1] \in DOMAIN tensors
  BY <1>1, InputPlaces DEF Fits
<1>6. tensors[o.inputs[1]].role = "data" /\ tensors[o.inputs[1]].shape \in Seq(Nat)
  BY <1>1, <1>2, <1>5 DEF TypedOperation, TypedTensor
<1>7. ASSUME o.backend = "fpga"
      PROVE  /\ o.inputs[2] \in DOMAIN tensors /\ tensors[o.inputs[2]].shape \in Seq(Nat)
             /\ tensors[o.inputs[1]].shape[2] \in Nat
  <2>1. o.backend = Backend(o.type)
    BY <1>1 DEF Fits, IsOperation
  <2>2. o.type = "Conv"
    <3>1. Backend("View") = "metadata" /\ Backend("Softmax") = "arm"
      BY DEF Backend
    <3>2. QED
      BY <1>1, <1>7, <2>1, <3>1
  <2>3. o.inputs[2] \in DOMAIN tensors
    BY <1>1, <2>2, InputPlaces DEF Fits
  <2>4. Len(tensors[o.inputs[1]].shape) = 4
    BY <1>1, <2>2 DEF TypedOperation
  <2>5. 2 \in 1 .. Len(tensors[o.inputs[1]].shape)
    BY <2>4
  <2>6. tensors[o.inputs[1]].shape[2] \in Nat
    BY <1>6, <2>5, ElementOfSeq
  <2>7. QED
    BY <1>2, <2>3, <2>6 DEF TypedTensor
<1>8. QED
  BY <1>3, <1>4, <1>5, <1>6, <1>7

LEMMA CarriedFacts ==
  ASSUME Deployable, NEW t \in Carried
  PROVE  t \in DOMAIN tensors /\ Bytes(t) \in Nat /\ Size(t) = Bytes(t)
<1>1. t \in DOMAIN tensors
  <2>1. CASE t \in Inputs
    BY <2>1 DEF Deployable, Sound, Fed, Given
  <2>2. ASSUME NEW o \in ToSet(operations), t = o.output PROVE t \in DOMAIN tensors
    BY <2>2, LayerFacts
  <2>3. QED
    BY <2>1, <2>2 DEF Carried
<1>2. Elements(t) \in Nat
  <2>1. tensors[t].shape \in Seq(Nat)
    BY <1>1 DEF Deployable, Sound, TypedTensor
  <2>2. QED
    BY <2>1, ElementsNat
<1>3. ElementSize(t) = IF t \in ProducedBy("Softmax") THEN 4 ELSE 1
  BY DEF Deployable, SizesAgree
<1>4. PICK n \in Nat : n = Elements(t)
  BY <1>2
<1>5. Bytes(t) = n * (IF t \in ProducedBy("Softmax") THEN 4 ELSE 1) /\ Size(t) = Bytes(t)
  BY <1>3, <1>4 DEF Bytes, Size
<1>6. QED
  BY <1>1, <1>4, <1>5

-----------------------------------------------------------------------------
(* The time the layers take. *)
ClockAt(n) == IF n = 0 THEN 0 ELSE layers[n].end

Traces == [start : Int, end : Int]

Timed ==
  /\ layers \in Seq(Traces) /\ timeout \in Nat
  /\ \A n \in 1 .. Len(layers) : /\ layers[n].start = ClockAt(n - 1)
                                 /\ layers[n].end - layers[n].start \in 0 .. timeout
  /\ DOMAIN counters = {"total_cycles", "error_count"}
  /\ counters.total_cycles \in Int
  /\ counters.total_cycles - ClockAt(Len(layers)) \in 0 .. timeout
  /\ stage # "timeout" =>
       counters.total_cycles = ClockAt(Len(layers)) /\ counters.error_count = 0
  /\ stage \in {"passes", "not supported", "plan"} => layers = << >>

LEMMA TimedSpans == ASSUME Timed PROVE TimeoutKept
<1>1. PICK n \in Nat : n = Len(layers) /\ layers \in Seq(Traces)
  <2>1. layers \in Seq(Traces)
    BY DEF Timed
  <2>2. Len(layers) \in Nat
    BY <2>1, LenProperties
  <2>3. QED
    BY <2>1, <2>2
<1> DEFINE last == [start |-> IF layers = << >> THEN 0 ELSE Last(layers).end,
                    end   |-> counters.total_cycles]
<1>2. last.start = ClockAt(n) /\ last.end = counters.total_cycles
  <2>1. layers = << >> <=> n = 0
    BY <1>1, EmptySeq
  <2>2. QED
    BY <1>1, <2>1 DEF ClockAt, Last
<1>3. PICK x : x = last
  OBVIOUS
<1>4. Spans = layers \o << x >>
  BY <1>3 DEF Spans
<1>5. Spans = Append(layers, x) /\ Len(layers) = n
  <2>1. layers \in Seq(Traces \cup {x}) /\ x \in Traces \cup {x}
    BY <1>1, SeqMonotonic
  <2>2. layers \o << x >> = Append(layers, x)
    BY <2>1, AppendIsConcat
  <2>3. QED
    BY <1>1, <1>4, <2>2
<1>6. IsList(layers)
  BY <1>1, ListOf
<1>7. DOMAIN Spans = 1 .. n + 1 /\ Spans[n + 1] = x /\ \A i \in 1 .. n : Spans[i] = layers[i]
  <2>1. DOMAIN layers = 1 .. n
    BY <1>1, <1>6, ListFacts
  <2>2. QED
    BY <1>1, <1>5, <1>6, <2>1, AppendList
<1> HIDE DEF last
<1>8. x.start = ClockAt(n) /\ x.end = counters.total_cycles
  BY <1>2, <1>3
<1>9. ASSUME NEW i \in DOMAIN Spans
      PROVE  /\ Spans[i].end - Spans[i].start \in 0 .. timeout
             /\ i > 1 => Spans[i].start = Spans[i - 1].end
  <2>1. \A k \in 1 .. n + 1 : k > 1 => k - 1 \in 1 .. n /\ ClockAt(k - 1) = Spans[k - 1].end
    BY <1>7 DEF ClockAt
  <2>2. CASE i = n + 1
    <3>1. Spans[i].end - Spans[i].start \in 0 .. timeout
      BY <1>1, <1>7, <1>8, <2>2 DEF Timed
    <3>2. Spans[i].start = ClockAt(i - 1)
      BY <1>7, <1>8, <2>2
    <3>3. QED
      BY <1>7, <2>1, <3>1, <3>2
  <2>3. CASE i # n + 1
    <3>1. i \in 1 .. n
      BY <1>7, <2>3
    <3>2. Spans[i].start = ClockAt(i - 1) /\ Spans[i].end - Spans[i].start \in 0 .. timeout
      BY <1>1, <1>7, <3>1 DEF Timed
    <3>3. QED
      BY <1>7, <2>1, <3>2
  <2>4. QED
    BY <2>2, <2>3
<1>10. stage = "complete" => counters.error_count = 0
  BY DEF Timed
<1>11. QED
  BY <1>9, <1>10 DEF TimeoutKept

LEMMA FinishTimed ==
  ASSUME Timed, NEW o, NEW cycles \in Nat, cycles <= timeout, stage = "run", Finish(o, cycles)
  PROVE  Timed'
<1> DEFINE x == [start |-> counters.total_cycles, end |-> counters'.total_cycles]
<1>1. PICK n \in Nat : n = Len(layers) /\ layers \in Seq(Traces)
  BY DEF Timed
<1>2. PICK now \in Int : now = counters.total_cycles /\ now = ClockAt(n)
  BY <1>1 DEF Timed
<1>3. /\ counters' = [counters EXCEPT !.total_cycles = @ + cycles]
      /\ layers' = Append(layers, x) /\ timeout' = timeout /\ stage' # "timeout"
      /\ stage' \notin {"passes", "not supported", "plan"}
  BY DEF Finish, bundle
<1>4. /\ DOMAIN counters' = {"total_cycles", "error_count"}
      /\ counters'.total_cycles = now + cycles /\ counters'.error_count = counters.error_count
  BY <1>2, <1>3 DEF Timed
<1>5. PICK y : y = x
  OBVIOUS
<1>5a. y.start = now /\ y.end = now + cycles /\ y \in Traces
  <2>1. y = [start |-> now, end |-> now + cycles]
    BY <1>2, <1>4, <1>5
  <2>2. now + cycles \in Int
    OBVIOUS
  <2>3. QED
    BY <2>1, <2>2 DEF Traces
<1> HIDE DEF x
<1>6. /\ layers' \in Seq(Traces) /\ Len(layers') = n + 1 /\ layers'[n + 1] = y
      /\ \A i \in 1 .. n : layers'[i] = layers[i]
  <2>1. layers' = Append(layers, y)
    BY <1>3, <1>5
  <2>2. QED
    BY <1>1, <1>5a, <2>1, AppendProperties
<1>7. \A i \in 0 .. n : ClockAt(i)' = ClockAt(i)
  BY <1>6 DEF ClockAt
<1>8. ClockAt(n + 1)' = now + cycles
  BY <1>5a, <1>6 DEF ClockAt
<1>9. ASSUME NEW k \in 1 .. n + 1
      PROVE  layers'[k].start = ClockAt(k - 1)' /\ layers'[k].end - layers'[k].start \in 0 .. timeout
  <2>1. CASE k = n + 1
    <3>1. layers'[k] = y /\ ClockAt(k - 1)' = now
      BY <1>2, <1>6, <1>7, <2>1
    <3>2. (now + cycles) - now \in 0 .. timeout
      BY DEF Timed
    <3>3. QED
      BY <1>5a, <3>1, <3>2
  <2>2. CASE k # n + 1
    <3>1. k \in 1 .. n /\ k - 1 \in 0 .. n
      BY <2>2
    <3>2. layers'[k] = layers[k] /\ ClockAt(k - 1)' = ClockAt(k - 1)
      BY <1>6, <1>7, <3>1
    <3>3. QED
      BY <1>1, <3>1, <3>2 DEF Timed
  <2>3. QED
    BY <2>1, <2>2
<1>10. counters.error_count = 0 /\ timeout \in Nat
  BY DEF Timed
<1>11. /\ counters'.total_cycles = ClockAt(Len(layers))' /\ counters'.total_cycles \in Int
       /\ counters'.total_cycles - ClockAt(Len(layers))' \in 0 .. timeout
  BY <1>4, <1>6, <1>8, <1>10
<1>12. QED
  BY <1>3, <1>4, <1>6, <1>9, <1>10, <1>11 DEF Timed

LEMMA TimeOutTimed ==
  ASSUME Timed, NEW cycles \in Nat, cycles <= timeout, NEW counted, stage = "run",
         TimeOut(cycles, counted)
  PROVE  Timed'
<1>1. PICK now \in Int : now = counters.total_cycles /\ now = ClockAt(Len(layers))
  BY DEF Timed
<1>2. /\ DOMAIN counters' = {"total_cycles", "error_count"}
      /\ counters'.total_cycles = now + cycles
      /\ stage' = "timeout" /\ timeout' = timeout /\ layers' = layers
  BY <1>1 DEF TimeOut
<1>3. \A n \in 0 .. Len(layers) : ClockAt(n)' = ClockAt(n)
  BY <1>2 DEF ClockAt
<1>4. Len(layers) \in Nat /\ timeout \in Nat
  BY DEF Timed
<1>5. counters'.total_cycles - ClockAt(Len(layers))' \in 0 .. timeout
  BY <1>1, <1>2, <1>3, <1>4
<1>6. \A n \in 1 .. Len(layers) : ClockAt(n - 1)' = ClockAt(n - 1)
  BY <1>3, <1>4
<1>7. QED
  BY <1>1, <1>2, <1>4, <1>5, <1>6 DEF Timed

(* The commands are those of the operations, in their order.               *)
Commanded == commands = [i \in DOMAIN operations |-> Command(operations[i])]

LEMMA CommandFacts ==
  ASSUME Deployable, Commanded
  PROVE  /\ Len(commands) = Len(operations) /\ Len(operations) \in Nat
         /\ DOMAIN operations = 1 .. Len(operations)
         /\ \A i \in DOMAIN operations : /\ commands[i].backend = operations[i].backend
                                         /\ commands[i].input_offset = OffsetOf(operations[i].inputs[1])
<1>1. DOMAIN operations = 1 .. Len(operations) /\ Len(operations) \in Nat
  BY ListFacts DEF Deployable
<1>2. DOMAIN commands = 1 .. Len(operations) /\ \A i \in DOMAIN operations : commands[i] = Command(operations[i])
  BY <1>1 DEF Commanded
<1>3. PICK S : S = {Command(operations[i]) : i \in DOMAIN operations}
  OBVIOUS
<1>4. commands \in [1 .. Len(operations) -> S]
  BY <1>1, <1>3 DEF Commanded
<1>5. commands \in Seq(S)
  BY <1>1, <1>4, SeqDef
<1>6. Len(commands) = Len(operations)
  <2>1. DOMAIN commands = 1 .. Len(commands) /\ Len(commands) \in Nat
    BY <1>5, LenProperties
  <2>2. PICK m, n \in Nat : m = Len(commands) /\ n = Len(operations) /\ 1 .. m = 1 .. n
    BY <1>1, <1>2, <2>1
  <2>3. m = n
    BY <2>2
  <2>4. QED
    BY <2>2, <2>3
<1>7. QED
  BY <1>1, <1>2, <1>6 DEF Command

LEMMA LayerToRun ==
  ASSUME Deployable, Commanded, Timed, NEW o, NEW backends, ToRun(o, backends)
  PROVE  /\ stage = "run" /\ Len(layers) \in Nat /\ Len(layers) + 1 \in DOMAIN operations
         /\ o = operations[Len(layers) + 1] /\ o \in ToSet(operations)
         /\ o.backend \in backends
         /\ Elements(o.output) \in Nat /\ Elements(o.inputs[1]) \in Nat
<1>1. stage = "run" /\ Len(layers) < Len(commands) /\ o = operations[Len(layers) + 1]
      /\ commands[Len(layers) + 1].backend \in backends
  BY DEF ToRun
<1>2. Len(layers) \in Nat
  <2>1. layers \in Seq(Traces)
    BY DEF Timed
  <2>2. QED
    BY <2>1, LenProperties
<1>3. Len(layers) + 1 \in DOMAIN operations
  BY <1>1, <1>2, CommandFacts
<1>4. o \in ToSet(operations)
  BY <1>1, <1>3, ListFacts DEF Deployable
<1>5. o.backend \in backends
  BY <1>1, <1>3, CommandFacts
<1>6. Elements(o.output) \in Nat /\ Elements(o.inputs[1]) \in Nat
  BY <1>4, LayerFacts, ElementsNat
<1>7. QED
  BY <1>1, <1>2, <1>3, <1>4, <1>5, <1>6

LEMMA FallbackTimed ==
  ASSUME Deployable, Commanded, Timed, NEW o, RunFallback(o) PROVE Timed'
<1>1. PICK cycles \in Nat : cycles = Elements(o.output) /\ stage = "run"
  <2>1. ToRun(o, {"arm", "metadata"})
    BY DEF RunFallback
  <2>2. QED
    BY <2>1, LayerToRun
<1>2. IF cycles > timeout THEN TimeOut(0, 0) ELSE Finish(o, cycles)
  BY <1>1 DEF RunFallback
<1>3. timeout \in Nat
  BY DEF Timed
<1>4. CASE cycles > timeout
  BY <1>1, <1>2, <1>3, <1>4, TimeOutTimed
<1>5. CASE ~(cycles > timeout)
  BY <1>1, <1>2, <1>3, <1>5, FinishTimed
<1>6. QED
  BY <1>4, <1>5

LEMMA ConvolutionTimed ==
  ASSUME Deployable, Commanded, Timed, NEW o, RunConvolution(o) PROVE Timed'
<1>1. ToRun(o, {"fpga"})
  BY DEF RunConvolution
<1>2. /\ stage = "run" /\ Elements(o.output) \in Nat /\ Elements(o.inputs[1]) \in Nat
      /\ Elements(o.inputs[2]) \in Nat /\ Shape(o.inputs[1])[2] \in Nat
  <2>1. o \in ToSet(operations) /\ o.backend = "fpga"
    BY <1>1, LayerToRun
  <2>2. tensors[o.inputs[2]].shape \in Seq(Nat) /\ tensors[o.inputs[1]].shape[2] \in Nat
    BY <2>1, LayerFacts
  <2>3. QED
    BY <1>1, <2>2, LayerToRun, ElementsNat DEF Shape
<1>3. PICK produced \in Nat, consumed \in Nat, held \in Nat, depth \in Nat :
        /\ produced = Elements(o.output) /\ consumed = Elements(o.inputs[1])
        /\ held = Elements(o.inputs[2]) /\ depth = Shape(o.inputs[1])[2]
  BY <1>2
<1>4. PICK compute \in Nat : compute = produced * depth
  BY <1>3, ProductNat
<1>5. PICK weight_stalls \in Stalls, input_stalls \in Stalls, output_stalls \in Stalls :
        LET loaded == held + weight_stalls + consumed + input_stalls
            sums   == loaded + compute
            end    == sums + produced + output_stalls
        IN  \/ loaded > timeout /\ TimeOut(timeout, 1)
            \/ loaded <= timeout /\ ~ComputeInTime(loaded, compute) /\ TimeOut(loaded, 1)
            \/ /\ loaded <= timeout /\ ComputeInTime(loaded, compute)
               /\ IF end > timeout THEN TimeOut(Larger(timeout, sums), 1) ELSE Finish(o, end)
  BY <1>3, <1>4 DEF RunConvolution
<1>6. weight_stalls \in Nat /\ input_stalls \in Nat /\ output_stalls \in Nat /\ timeout \in Nat
  BY DeploymentAssumption DEF Timed
<1>7. PICK loaded \in Nat, sums \in Nat, end \in Nat :
        /\ loaded = held + weight_stalls + consumed + input_stalls
        /\ sums = loaded + compute /\ end = sums + produced + output_stalls
  BY <1>6
<1>8. \/ loaded > timeout /\ TimeOut(timeout, 1)
      \/ loaded <= timeout /\ ~ComputeInTime(loaded, compute) /\ TimeOut(loaded, 1)
      \/ /\ loaded <= timeout /\ ComputeInTime(loaded, compute)
         /\ IF end > timeout THEN TimeOut(Larger(timeout, sums), 1) ELSE Finish(o, end)
  BY <1>5, <1>7
<1>9. CASE TimeOut(timeout, 1)
  BY <1>2, <1>6, <1>9, TimeOutTimed
<1>10. CASE loaded <= timeout /\ TimeOut(loaded, 1)
  BY <1>2, <1>10, TimeOutTimed
<1>11. CASE ComputeInTime(loaded, compute) /\ end > timeout /\ TimeOut(Larger(timeout, sums), 1)
  <2>1. Larger(timeout, sums) = timeout
    BY <1>6, <1>7, <1>11 DEF ComputeInTime, Larger
  <2>2. TimeOut(timeout, 1)
    BY <1>11, <2>1
  <2>3. QED
    BY <1>2, <1>6, <2>2, TimeOutTimed
<1>12. CASE ~(end > timeout) /\ Finish(o, end)
  <2>1. end <= timeout
    BY <1>6, <1>12
  <2>2. QED
    BY <1>2, <1>12, <2>1, FinishTimed
<1>13. QED
  BY <1>8, <1>9, <1>10, <1>11, <1>12

-----------------------------------------------------------------------------
(* The regions of scratch memory lie apart, below the end of the plan.     *)
Apart(s, t) == offsets[s] + Bytes(s) <= offsets[t] \/ offsets[t] + Bytes(t) <= offsets[s]

MemoryPlanned ==
  /\ cursor \in Nat /\ DOMAIN offsets \subseteq Carried
  /\ \A t \in DOMAIN offsets : offsets[t] \in Nat /\ offsets[t] + Bytes(t) <= cursor
  /\ \A s, t \in DOMAIN offsets : s # t => Apart(s, t)

LEMMA SameGraph ==
  ASSUME Deployable, UNCHANGED << vars, dtype >>
  PROVE  /\ Deployable' /\ Carried' = Carried /\ Present' = Inputs \cup {operations[i].output : i \in DOMAIN layers'}
         /\ \A t : Bytes(t)' = Bytes(t)
<1>1. operations' = operations /\ tensors' = tensors /\ outputs' = outputs /\ dtype' = dtype
  BY DEF vars
<1>2. Carried' = Carried
  BY <1>1 DEF Carried
<1>3. \A t : ElementSize(t)' = ElementSize(t)
  BY <1>1 DEF ElementSize
<1>4. ProducedBy("Softmax")' = ProducedBy("Softmax")
  BY <1>1 DEF ProducedBy
<1>5. \A t : Elements(t)' = Elements(t)
  BY <1>1 DEF Elements
<1>6. \A t : Bytes(t)' = Bytes(t)
  BY <1>4, <1>5 DEF Bytes
<1>7. SizesAgree'
  BY <1>2, <1>3, <1>4 DEF Deployable, SizesAgree
<1>8. Sound(ToSet(operations), tensors, outputs)'
  BY <1>1 DEF Deployable
<1>9. Deployable'
  BY <1>1, <1>7, <1>8 DEF Deployable, Sorted, AllFit
<1>10. QED
  BY <1>1, <1>2, <1>6, <1>9 DEF Present

LEMMA PlannedNext ==
  ASSUME Deployable, NEW t \in Planned
  PROVE  t \in Carried /\ t \notin DOMAIN offsets
<1>1. CASE t \in PlannedInputs
  BY <1>1 DEF PlannedInputs, Carried
<1>2. CASE t \notin PlannedInputs
  <2>1. PICK i \in PlannedOutputs : t = operations[i].output
    BY <1>2 DEF Planned
  <2>2. i \in DOMAIN operations /\ t \notin DOMAIN offsets
    BY <2>1 DEF PlannedOutputs
  <2>3. operations[i] \in ToSet(operations)
    BY <2>2, ListFacts DEF Deployable
  <2>4. QED
    BY <2>1, <2>2, <2>3 DEF Carried
<1>3. QED
  BY <1>1, <1>2

LEMMA AllocatePlanned ==
  ASSUME Deployable, MemoryPlanned, Allocate PROVE MemoryPlanned'
<1>1. PICK t \in Planned :
        /\ offsets' = [x \in DOMAIN offsets \cup {t} |-> IF x = t THEN align(cursor) ELSE offsets[x]]
        /\ cursor' = align(cursor) + Size(t)
  BY DEF Allocate
<1>2. t \in Carried /\ t \notin DOMAIN offsets
  BY <1>1, PlannedNext
<1>3. Carried' = Carried /\ \A x : Bytes(x)' = Bytes(x)
  BY SameGraph DEF Allocate, vars
<1>4. PICK start \in Nat, bytes \in Nat, old \in Nat :
        start = align(cursor) /\ bytes = Bytes(t) /\ bytes = Size(t) /\ old = cursor /\ old <= start
  BY <1>2, CarriedFacts, AlignUp DEF MemoryPlanned
<1>5. /\ DOMAIN offsets' = DOMAIN offsets \cup {t} /\ offsets'[t] = start
      /\ \A x \in DOMAIN offsets : offsets'[x] = offsets[x]
      /\ cursor' = start + bytes
  BY <1>1, <1>2, <1>4
<1>6. \A x \in DOMAIN offsets : /\ offsets[x] \in Nat /\ Bytes(x) \in Nat
                                /\ offsets[x] + Bytes(x) <= old
  BY <1>4, CarriedFacts DEF MemoryPlanned
<1>7. \A x \in DOMAIN offsets' : offsets'[x] \in Nat /\ offsets'[x] + Bytes(x) <= cursor'
  <2>1. ASSUME NEW x \in DOMAIN offsets
        PROVE  offsets'[x] \in Nat /\ offsets'[x] + Bytes(x) <= cursor'
    <3>1. PICK a \in Nat, b \in Nat : a = offsets[x] /\ b = Bytes(x) /\ a + b <= old
      BY <1>6
    <3>2. a + b <= start + bytes
      BY <1>4, <3>1
    <3>3. QED
      BY <1>5, <3>1, <3>2
  <2>2. offsets'[t] \in Nat /\ offsets'[t] + Bytes(t) <= cursor'
    BY <1>4, <1>5
  <2>3. QED
    BY <1>5, <2>1, <2>2
<1>8. \A x \in DOMAIN offsets : offsets'[x] + Bytes(x) <= offsets'[t]
  BY <1>4, <1>5, <1>6
<1>9. \A x, y \in DOMAIN offsets' : x # y =>
        offsets'[x] + Bytes(x) <= offsets'[y] \/ offsets'[y] + Bytes(y) <= offsets'[x]
  <2>1. \A x, y \in DOMAIN offsets : x # y =>
          offsets'[x] + Bytes(x) <= offsets'[y] \/ offsets'[y] + Bytes(y) <= offsets'[x]
    BY <1>5 DEF MemoryPlanned, Apart
  <2>2. QED
    BY <1>5, <1>8, <2>1
<1>10. DOMAIN offsets' \subseteq Carried' /\ cursor' \in Nat
  BY <1>2, <1>3, <1>4, <1>5 DEF MemoryPlanned
<1>11. QED
  BY <1>3, <1>7, <1>9, <1>10 DEF MemoryPlanned, Apart

LEMMA SamePlan ==
  ASSUME Deployable, MemoryPlanned, UNCHANGED << vars, dtype, offsets, cursor >>
  PROVE  MemoryPlanned' /\ \A t : Region(t)' = Region(t)
<1>1. Carried' = Carried /\ \A t : Bytes(t)' = Bytes(t)
  BY SameGraph
<1>2. QED
  BY <1>1 DEF MemoryPlanned, Apart, Region

-----------------------------------------------------------------------------
(* What is written to memory is there, and nothing else is touched.        *)
LEMMA RegionsApart ==
  ASSUME Deployable, MemoryPlanned, NEW s \in DOMAIN offsets, NEW t \in DOMAIN offsets, s # t
  PROVE  Region(s) \cap Region(t) = {}
<1>1. PICK a \in Nat, b \in Nat, m \in Nat, n \in Nat :
        a = offsets[s] /\ b = offsets[t] /\ m = Bytes(s) /\ n = Bytes(t)
  BY CarriedFacts DEF MemoryPlanned
<1>2. a + m <= b \/ b + n <= a
  BY <1>1 DEF MemoryPlanned, Apart
<1>3. Region(s) = a .. a + m - 1 /\ Region(t) = b .. b + n - 1
  BY <1>1 DEF Region
<1>4. QED
  BY <1>2, <1>3

HoldsIn(mem, t) == \A k \in 0 .. Bytes(t) - 1 : mem[offsets[t] + k] = << t, k >>

LEMMA WrittenHolds ==
  ASSUME Deployable, MemoryPlanned, NEW mem, NEW names \in SUBSET DOMAIN offsets,
         NEW t \in DOMAIN offsets, InBounds(mem, t), t \in names \/ HoldsIn(mem, t)
  PROVE  HoldsIn(Written(mem, names), t)
<1> DEFINE new == Written(mem, names)
<1>1. PICK start \in Nat, bytes \in Nat :
        start = offsets[t] /\ bytes = Bytes(t) /\ Region(t) = start .. start + bytes - 1
  BY CarriedFacts DEF MemoryPlanned, Region
<1>2. SUFFICES ASSUME NEW k \in 0 .. bytes - 1 PROVE new[start + k] = << t, k >>
  BY <1>1 DEF HoldsIn
<1>3. PICK a \in Nat : a = start + k
  BY <1>1, <1>2
<1>4. a \in Region(t) /\ a \in DOMAIN mem /\ a - start = k
  BY <1>1, <1>2, <1>3 DEF InBounds
<1>5. new[a] = IF \E x \in names : a \in Region(x)
                 THEN LET x == CHOOSE x \in names : a \in Region(x) IN << x, a - offsets[x] >>
                 ELSE mem[a]
  BY <1>4 DEF Written
<1>6. \A x \in names : a \in Region(x) => x = t
  BY <1>4, RegionsApart
<1>7. CASE t \in names
  <2>1. (CHOOSE x \in names : a \in Region(x)) = t
    BY <1>4, <1>6, <1>7
  <2>2. new[a] = << t, a - offsets[t] >>
    BY <1>4, <1>5, <1>7, <2>1
  <2>3. QED
    BY <1>1, <1>3, <1>4, <2>2
<1>8. CASE t \notin names
  <2>1. new[a] = mem[a]
    BY <1>5, <1>6, <1>8
  <2>2. mem[start + k] = << t, k >>
    BY <1>1, <1>2, <1>8 DEF HoldsIn
  <2>3. QED
    BY <1>3, <2>1, <2>2
<1>9. QED
  BY <1>7, <1>8

(* While the layers run, memory holds the inputs and what the layers       *)
(* before have written.                                                    *)
MemoryKept ==
  /\ Commanded
  /\ DOMAIN offsets = Carried
  /\ DOMAIN memory = 0 .. align(cursor) - 1
  /\ Len(layers) <= Len(operations)
  /\ \A t \in Present : HoldsIn(memory, t)

LEMMA AllInBounds ==
  ASSUME Deployable, MemoryPlanned, NEW mem, DOMAIN mem = 0 .. align(cursor) - 1
  PROVE  \A t \in DOMAIN offsets : InBounds(mem, t)
<1> SUFFICES ASSUME NEW t \in DOMAIN offsets PROVE InBounds(mem, t)
  OBVIOUS
<1>1. PICK start \in Nat, bytes \in Nat, end \in Nat, top \in Nat :
        /\ start = offsets[t] /\ bytes = Bytes(t) /\ end = cursor /\ top = align(cursor)
        /\ start + bytes <= end /\ end <= top
  BY CarriedFacts, AlignUp DEF MemoryPlanned
<1>2. Region(t) = start .. start + bytes - 1 /\ DOMAIN mem = 0 .. top - 1
  BY <1>1 DEF Region
<1>3. QED
  BY <1>1, <1>2 DEF InBounds

LEMMA LoadKept ==
  ASSUME Deployable, MemoryPlanned, layers = << >>, BuildAndLoad
  PROVE  stage' = "run" /\ MemoryKept'
<1>1. /\ UNCHANGED << vars, dtype, offsets, cursor, layers >>
      /\ commands' = [i \in DOMAIN operations |-> Command(operations[i])]
  BY DEF BuildAndLoad, vars
<1>2. operations' = operations
  BY <1>1 DEF vars
<1>3. Planned = {}
  BY DEF BuildAndLoad
<1>4. PlannedInputs = {} /\ PlannedOutputs = {}
  <2>1. PlannedInputs = {}
    BY <1>3 DEF Planned
  <2>2. ASSUME PlannedOutputs # {} PROVE FALSE
    <3>1. PlannedOutputs \in SUBSET Nat
      BY ListFacts DEF PlannedOutputs, Deployable
    <3>2. PICK i \in PlannedOutputs : \A j \in PlannedOutputs : i <= j
      BY <2>2, <3>1, LeastNumber
    <3>3. operations[i].output \in Planned
      BY <2>1, <3>2 DEF Planned
    <3>4. QED
      BY <1>3, <3>3
  <2>3. QED
    BY <2>1, <2>2
<1>5. DOMAIN offsets = Carried
  <2>1. ASSUME NEW o \in ToSet(operations) PROVE o.output \in DOMAIN offsets
    <3>1. PICK i \in DOMAIN operations : operations[i] = o
      BY ListFacts DEF Deployable
    <3>2. ~tensors[o.output].constant
      BY LayerFacts
    <3>3. QED
      BY <1>4, <3>1, <3>2 DEF PlannedOutputs
  <2>2. Inputs \subseteq DOMAIN offsets
    BY <1>4 DEF PlannedInputs
  <2>3. QED
    BY <2>1, <2>2 DEF Carried, MemoryPlanned
<1>6. DOMAIN EmptyMemory = 0 .. align(cursor) - 1
  BY DEF EmptyMemory
<1>7. Inputs \subseteq DOMAIN offsets
  BY <1>5 DEF Carried
<1>8. \A t \in DOMAIN offsets : InBounds(EmptyMemory, t)
  BY <1>6, AllInBounds
<1>9. memory' = Written(EmptyMemory, Inputs) /\ stage' = "run"
  BY <1>7, <1>8 DEF BuildAndLoad
<1>10. DOMAIN memory' = 0 .. align(cursor) - 1
  BY <1>6, <1>9 DEF Written
<1>11. PICK mem : mem = memory'
  OBVIOUS
<1>12. \A t \in Inputs : HoldsIn(mem, t)
  BY <1>7, <1>8, <1>9, <1>11, WrittenHolds
<1>13. Present' = Inputs /\ Len(layers)' <= Len(operations)'
  <2>1. DOMAIN layers' = {} /\ Len(layers') = 0
    BY <1>1, EmptyList
  <2>2. Len(operations) \in Nat
    BY ListFacts DEF Deployable
  <2>3. QED
    BY <1>2, <2>1, <2>2 DEF Present
<1>14. ASSUME NEW t \in Inputs PROVE HoldsIn(memory, t)'
  <2>1. Bytes(t)' = Bytes(t)
    BY <1>1, SameGraph
  <2>2. QED
    BY <1>1, <1>11, <1>12, <2>1 DEF HoldsIn
<1>15. Commanded'
  <2>1. \A i \in DOMAIN operations : Command(operations[i])' = Command(operations[i])
    BY <1>1, <1>2 DEF Command, OffsetOf
  <2>2. QED
    BY <1>1, <1>2, <2>1 DEF Commanded
<1>16. DOMAIN offsets' = Carried' /\ align(cursor)' = align(cursor)
  BY <1>1, <1>5, SameGraph DEF align
<1>17. QED
  BY <1>9, <1>10, <1>13, <1>14, <1>15, <1>16 DEF MemoryKept

LEMMA FinishKept ==
  ASSUME Deployable, MemoryPlanned, MemoryKept, Timed,
         NEW o, NEW backends, ToRun(o, backends), NEW cycles, Finish(o, cycles)
  PROVE  stage' # "out of bounds" /\ MemoryKept'
<1>1. PICK n \in Nat : n = Len(layers) /\ n + 1 \in DOMAIN operations /\ o = operations[n + 1]
                       /\ o \in ToSet(operations)
  BY LayerToRun DEF MemoryKept
<1>2. /\ UNCHANGED << vars, dtype, offsets, cursor, commands >>
      /\ memory' = IF InBounds(memory, o.output) THEN Written(memory, {o.output}) ELSE memory
      /\ stage' = IF ~InBounds(memory, o.output) THEN "out of bounds"
                  ELSE IF Len(layers) + 1 = Len(commands) THEN "complete" ELSE "run"
  BY DEF Finish, bundle
<1>3. operations' = operations
  BY <1>2 DEF vars
<1>4. o.output \in DOMAIN offsets
  BY <1>1 DEF MemoryKept, Carried
<1>5. \A t \in DOMAIN offsets : InBounds(memory, t)
  BY AllInBounds DEF MemoryKept
<1>6. memory' = Written(memory, {o.output}) /\ stage' # "out of bounds"
  BY <1>2, <1>4, <1>5
<1>7. DOMAIN layers' = 1 .. n + 1 /\ DOMAIN layers = 1 .. n /\ Len(layers') = n + 1
  <2>1. PICK x : layers' = Append(layers, x)
    BY DEF Finish
  <2>2. IsList(layers)
    BY ListOf DEF Timed
  <2>3. QED
    BY <1>1, <2>1, <2>2, AppendList, ListFacts
<1>8. DOMAIN operations = 1 .. Len(operations) /\ Len(operations) \in Nat
  BY ListFacts DEF Deployable
<1>9. Present' = Present \cup {o.output}
  <2>1. 1 .. n + 1 = (1 .. n) \cup {n + 1}
    OBVIOUS
  <2>2. QED
    BY <1>1, <1>3, <1>7, <2>1 DEF Present
<1>10. Present \subseteq DOMAIN offsets
  <2>1. ASSUME NEW i \in DOMAIN layers PROVE operations[i].output \in DOMAIN offsets
    <3>1. i \in DOMAIN operations
      BY <1>1, <1>7, <1>8
    <3>2. operations[i] \in ToSet(operations)
      BY <3>1, ListFacts DEF Deployable
    <3>3. QED
      BY <3>2 DEF MemoryKept, Carried
  <2>2. QED
    BY <2>1 DEF Present, MemoryKept, Carried
<1>11. PICK mem : mem = memory'
  OBVIOUS
<1>12. \A t \in Present \cup {o.output} : HoldsIn(mem, t)
  BY <1>4, <1>5, <1>6, <1>10, <1>11, WrittenHolds DEF MemoryKept
<1>13. ASSUME NEW t \in Present' PROVE HoldsIn(memory, t)'
  <2>1. Bytes(t)' = Bytes(t)
    BY <1>2, SameGraph
  <2>2. QED
    BY <1>2, <1>9, <1>11, <1>12, <2>1 DEF HoldsIn
<1>14. DOMAIN memory' = 0 .. align(cursor) - 1
  BY <1>6 DEF Written, MemoryKept
<1>15. Commanded'
  <2>1. \A i \in DOMAIN operations : Command(operations[i])' = Command(operations[i])
    BY <1>2, <1>3 DEF Command, OffsetOf
  <2>2. QED
    BY <1>2, <1>3, <2>1 DEF Commanded, MemoryKept
<1>16. DOMAIN offsets' = Carried' /\ align(cursor)' = align(cursor)
  BY <1>2, SameGraph DEF align, MemoryKept
<1>17. Len(layers)' <= Len(operations)'
  BY <1>1, <1>3, <1>7, <1>8
<1>18. QED
  BY <1>6, <1>13, <1>14, <1>15, <1>16, <1>17 DEF MemoryKept

(* The operand of the next layer is an input of the graph or was made by a *)
(* layer before it.                                                        *)
LEMMA OperandPresent ==
  ASSUME Deployable, NEW n \in Nat, n + 1 \in DOMAIN operations
  PROVE  \/ operations[n + 1].inputs[1] \in Inputs
         \/ \E i \in 1 .. n : i \in DOMAIN operations /\ operations[i].output = operations[n + 1].inputs[1]
<1>1. PICK o : o = operations[n + 1] /\ o \in ToSet(operations)
  BY ListFacts DEF Deployable
<1>2. PICK t : t = o.inputs[1] /\ t \in DOMAIN tensors /\ tensors[t].role = "data"
               /\ 1 \in DOMAIN o.inputs
  BY <1>1, LayerFacts
<1>3. Supplied(ToSet(operations), tensors, t, o.name)
  BY <1>1, <1>2 DEF Deployable, Sound, Ordered
<1>4. CASE Given(tensors, t)
  <2>1. t \in Inputs
    BY <1>2, <1>4 DEF Deployable, Sound, Fed
  <2>2. QED
    BY <1>1, <1>2, <2>1
<1>5. ASSUME NEW p \in ToSet(operations), p.output = t, p.name < o.name
      PROVE  \E i \in 1 .. n : i \in DOMAIN operations /\ operations[i].output = t
  <2>1. PICK i \in DOMAIN operations : operations[i] = p
    BY ListFacts DEF Deployable
  <2>2. i < n + 1
    BY <1>1, <1>5, <2>1, SortedNames DEF Deployable
  <2>3. i \in 1 .. n
    BY <2>1, <2>2, ListFacts DEF Deployable
  <2>4. QED
    BY <1>5, <2>1, <2>3
<1>6. QED
  BY <1>1, <1>2, <1>3, <1>4, <1>5 DEF Supplied

LEMMA KeptHolds ==
  ASSUME Deployable, MemoryPlanned, MemoryKept, Timed
  PROVE  /\ \A t \in Present : Holds(offsets[t], t)
         /\ Len(layers) < Len(commands) =>
              Holds(commands[Len(layers) + 1].input_offset, operations[Len(layers) + 1].inputs[1])
<1>1. \A t \in Present : Holds(offsets[t], t)
  BY DEF MemoryKept, HoldsIn, Holds
<1>2. ASSUME Len(layers) < Len(commands)
      PROVE  Holds(commands[Len(layers) + 1].input_offset, operations[Len(layers) + 1].inputs[1])
  <2>1. PICK n \in Nat : n = Len(layers) /\ DOMAIN layers = 1 .. n
    <3>1. layers \in Seq(Traces)
      BY DEF Timed
    <3>2. QED
      BY <3>1, LenProperties
  <2>2. n + 1 \in DOMAIN operations
    BY <1>2, <2>1, CommandFacts DEF MemoryKept
  <2>3. PICK t : t = operations[n + 1].inputs[1]
    OBVIOUS
  <2>4. t \in Present
    BY <2>1, <2>2, <2>3, OperandPresent DEF Present
  <2>5. t \in DOMAIN offsets
    <3>1. CASE t \in Inputs
      BY <3>1 DEF MemoryKept, Carried
    <3>2. ASSUME NEW i \in 1 .. n, i \in DOMAIN operations, operations[i].output = t
          PROVE  t \in DOMAIN offsets
      <4>1. operations[i] \in ToSet(operations)
        BY <3>2, ListFacts DEF Deployable
      <4>2. QED
        BY <3>2, <4>1 DEF MemoryKept, Carried
    <3>3. QED
      BY <2>2, <2>3, <3>1, <3>2, OperandPresent
  <2>6. commands[n + 1].input_offset = offsets[t]
    BY <2>2, <2>3, <2>5, CommandFacts DEF MemoryKept, OffsetOf
  <2>7. QED
    BY <1>1, <2>1, <2>3, <2>4, <2>6
<1>3. QED
  BY <1>1, <1>2

-----------------------------------------------------------------------------
(* From the graph as it is imported to the simulation. *)
Deployed ==
  /\ stage = "passes" => WellBuilt /\ Meaningful /\ offsets = EmptyFunction /\ cursor = 0
  /\ stage \notin {"passes", "not supported"} => Deployable /\ MemoryPlanned
  /\ stage # "out of bounds"
  /\ stage \in {"run", "complete"} => MemoryKept
  /\ Timed

LEMMA InitDeployed == ASSUME DeploymentInit PROVE Deployed
<1>1. WellBuilt /\ Meaningful
  BY InitWellBuilt, InitMeaningful DEF DeploymentInit
<1>2. Timed
  <2>1. layers = << >> /\ layers \in Seq(Traces) /\ Len(layers) = 0
    BY EmptySeq DEF DeploymentInit
  <2>2. QED
    BY <2>1 DEF DeploymentInit, Timed, ClockAt
<1>3. QED
  BY <1>1, <1>2 DEF DeploymentInit, Deployed

LEMMA SameTime ==
  ASSUME Timed, UNCHANGED << timeout, layers, counters >>,
         stage' # "timeout" => stage # "timeout",
         stage' \in {"passes", "not supported", "plan"} =>
           stage \in {"passes", "not supported", "plan"}
  PROVE  Timed'
BY DEF Timed, ClockAt

LEMMA RunDeployed ==
  ASSUME Deployed, NEW o, RunConvolution(o) \/ RunFallback(o) PROVE Deployed'
<1>1. PICK backends : ToRun(o, backends)
  BY DEF RunConvolution, RunFallback
<1>2. stage = "run"
  BY <1>1 DEF ToRun
<1>3. Deployable /\ MemoryPlanned /\ MemoryKept /\ Timed
  BY <1>2 DEF Deployed
<1>4. Timed'
  BY <1>3, FallbackTimed, ConvolutionTimed DEF MemoryKept
<1>5. \/ \E cycles : Finish(o, cycles)
      \/ \E cycles, counted : TimeOut(cycles, counted)
  BY DEF RunConvolution, RunFallback
<1>6. /\ UNCHANGED << vars, dtype, offsets, cursor >>
      /\ stage' \in {"out of bounds", "complete", "run", "timeout"}
  BY <1>5 DEF Finish, TimeOut, bundle
<1>7. Deployable' /\ MemoryPlanned'
  BY <1>3, <1>6, SameGraph, SamePlan
<1>8. CASE \E cycles : Finish(o, cycles)
  <2>1. stage' # "out of bounds" /\ MemoryKept'
    BY <1>1, <1>3, <1>8, FinishKept
  <2>2. QED
    BY <1>4, <1>6, <1>7, <2>1 DEF Deployed
<1>9. CASE \E cycles, counted : TimeOut(cycles, counted)
  <2>1. stage' = "timeout"
    BY <1>9 DEF TimeOut
  <2>2. QED
    BY <1>4, <1>7, <2>1 DEF Deployed
<1>10. QED
  BY <1>5, <1>8, <1>9

LEMMA NextDeployed ==
  ASSUME Deployed, [DeploymentNext]_<< vars, deployment >> PROVE Deployed'
<1>1. CASE Optimize
  <2>1. /\ stage = "passes" /\ stage' = "passes" /\ Next
        /\ UNCHANGED << offsets, cursor, timeout, layers, counters >>
    BY <1>1 DEF Optimize, deployment, bundle, simulation
  <2>2. WellBuilt' /\ Meaningful'
    BY <2>1, NextWellBuilt, NextMeaningful DEF Deployed
  <2>3. Timed'
    BY <2>1, SameTime DEF Deployed
  <2>4. QED
    BY <2>1, <2>2, <2>3 DEF Deployed
<1>2. CASE RefuseToQuantize
  <2>1. /\ stage = "passes" /\ stage' = "not supported"
        /\ UNCHANGED << timeout, layers, counters >>
    BY <1>2 DEF RefuseToQuantize, Optimized, simulation
  <2>2. Timed'
    BY <2>1, SameTime DEF Deployed
  <2>3. QED
    BY <2>1, <2>2 DEF Deployed
<1>3. CASE Quantize
  <2>1. /\ stage = "passes" /\ stage' = "plan"
        /\ UNCHANGED << offsets, cursor, timeout, layers, counters >>
    BY <1>3 DEF Quantize, Optimized, simulation
  <2>2. Deployable'
    BY <1>3, <2>1, QuantizedDeployable DEF Deployed
  <2>3. MemoryPlanned'
    <3>1. DOMAIN offsets' = {} /\ cursor' = 0
      BY <2>1 DEF Deployed, EmptyFunction
    <3>2. QED
      BY <3>1 DEF MemoryPlanned
  <2>4. Timed'
    BY <2>1, SameTime DEF Deployed
  <2>5. QED
    BY <2>1, <2>2, <2>3, <2>4 DEF Deployed
<1>4. CASE Allocate
  <2>1. /\ stage = "plan" /\ stage' = "plan"
        /\ UNCHANGED << vars, dtype, timeout, layers, counters >>
    BY <1>4 DEF Allocate, simulation
  <2>2. Deployable' /\ MemoryPlanned'
    BY <1>4, <2>1, SameGraph, AllocatePlanned DEF Deployed
  <2>3. Timed'
    BY <2>1, SameTime DEF Deployed
  <2>4. QED
    BY <2>1, <2>2, <2>3 DEF Deployed
<1>5. CASE BuildAndLoad
  <2>1. /\ stage = "plan" /\ timeout' \in Timeouts
        /\ UNCHANGED << vars, dtype, offsets, cursor, layers, counters >>
    BY <1>5 DEF BuildAndLoad
  <2>2. Deployable /\ MemoryPlanned /\ layers = << >>
    BY <2>1 DEF Deployed, Timed
  <2>3. Deployable' /\ MemoryPlanned'
    BY <2>1, <2>2, SameGraph, SamePlan
  <2>4. stage' = "run" /\ MemoryKept'
    BY <1>5, <2>2, LoadKept
  <2>5. Timed'
    <3>1. layers' = << >> /\ layers' \in Seq(Traces) /\ Len(layers') = 0 /\ Len(layers) = 0
      BY <2>1, <2>2, EmptySeq
    <3>2. timeout' \in Nat
      BY <2>1, DeploymentAssumption
    <3>3. counters' = counters /\ counters.total_cycles = 0 /\ counters.error_count = 0
          /\ DOMAIN counters = {"total_cycles", "error_count"}
      BY <2>1, <3>1 DEF Deployed, Timed, ClockAt
    <3>4. ClockAt(0)' = 0
      BY DEF ClockAt
    <3>5. QED
      BY <2>4, <3>1, <3>2, <3>3, <3>4 DEF Timed
  <2>6. QED
    BY <2>3, <2>4, <2>5 DEF Deployed
<1>6. ASSUME NEW o, RunConvolution(o) \/ RunFallback(o) PROVE Deployed'
  BY <1>6, RunDeployed
<1>7. CASE UNCHANGED << vars, deployment >>
  <2>1. UNCHANGED << vars, stage, dtype, offsets, cursor, commands, memory, timeout, layers, counters >>
    BY <1>7 DEF deployment, bundle, simulation
  <2>2. Timed'
    BY <2>1, SameTime DEF Deployed
  <2>3. CASE stage = "passes"
    BY <2>1, <2>2, <2>3, SameMeaning DEF Deployed
  <2>4. CASE stage = "not supported"
    BY <2>1, <2>2, <2>4 DEF Deployed
  <2>5. CASE stage \notin {"passes", "not supported"}
    <3>1. Deployable /\ MemoryPlanned
      BY <2>5 DEF Deployed
    <3>2. Deployable' /\ MemoryPlanned'
      BY <2>1, <3>1, SameGraph, SamePlan
    <3>3. ASSUME MemoryKept PROVE MemoryKept'
      <4>1. operations' = operations
        BY <2>1 DEF vars
      <4>2. Commanded'
        BY <2>1, <3>3, <4>1 DEF MemoryKept, Commanded, Command, OffsetOf
      <4>3. Present' = Present /\ Carried' = Carried /\ align(cursor)' = align(cursor)
        BY <2>1, <4>1 DEF Present, Carried, align
      <4>4. \A t : HoldsIn(memory, t)' <=> HoldsIn(memory, t)
        <5>1. \A t : Bytes(t)' = Bytes(t)
          BY <2>1, <3>1, SameGraph
        <5>2. QED
          BY <2>1, <5>1 DEF HoldsIn
      <4>5. QED
        BY <2>1, <3>3, <4>1, <4>2, <4>3, <4>4 DEF MemoryKept
    <3>4. QED
      BY <2>1, <2>2, <2>5, <3>2, <3>3 DEF Deployed
  <2>6. QED
    BY <2>3, <2>4, <2>5
<1>8. QED
  BY <1>1, <1>2, <1>3, <1>4, <1>5, <1>6, <1>7 DEF DeploymentNext

(* The traces of the layers lie end to end, no layer is given more cycles  *)
(* than the limit, and a simulation completes without error, however the   *)
(* streams stall (simulator.py).                                           *)
THEOREM LayersKeepTheTimeout == DeploymentSpec => []TimeoutKept
<1>1. DeploymentInit => Deployed
  BY InitDeployed
<1>2. Deployed /\ [DeploymentNext]_<< vars, deployment >> => Deployed'
  BY NextDeployed
<1>3. Deployed => TimeoutKept
  BY TimedSpans DEF Deployed
<1>4. QED
  BY <1>1, <1>2, <1>3, PTL DEF DeploymentSpec

(* Inputs and layers' outputs stay in scratch memory, byte by byte, where  *)
(* the commands look for them, and no write leaves the memory (bundle.py,  *)
(* _memory_plan; simulator.py).                                            *)
THEOREM ScratchKeepsValues == DeploymentSpec => []ScratchHoldsValues
<1>1. DeploymentInit => Deployed
  BY InitDeployed
<1>2. Deployed /\ [DeploymentNext]_<< vars, deployment >> => Deployed'
  BY NextDeployed
<1>3. Deployed => ScratchHoldsValues
  BY KeptHolds DEF Deployed, ScratchHoldsValues
<1>4. QED
  BY <1>1, <1>2, <1>3, PTL DEF DeploymentSpec
-----------------------------------------------------------------------------
(* Where the imported operations are named.  Each is told by exactly one   *)
(* operation that remains, as its own name or as one it has absorbed, or   *)
(* may be missing.                                                         *)
Parts(p) == {p.name} \cup ToSet(p.fused)

Told(R, all, spared) ==
  /\ \A p \in R : /\ p.name \notin ToSet(p.fused)
                  /\ \A i, j \in DOMAIN p.fused : p.fused[i] = p.fused[j] => i = j
  /\ \A p, q \in R : \A n : n \in Parts(p) /\ n \in Parts(q) => p = q
  /\ \A n \in all : n \in spared \/ \E p \in R : n \in Parts(p)

NoImage(t, st) == t \in DOMAIN st => st[t].role # "data"

(* An operation produces what one of its parts does, and reads the images  *)
(* its parts read and do not produce.                                      *)
Reached(t, p, S) ==
  \/ \E r \in S : r.name \in Parts(p) /\ r.output = t
  \/ \E j \in DOMAIN p.inputs : p.inputs[j] = t

Traced(p, S, st) ==
  /\ p.type # "Conv" => p.fused = << >>
  /\ p.type = "Constant" => st[p.output].role = "vector"
  /\ p.type = "Reshape" => NoImage(p.inputs[2], st)
  /\ \E s \in S : s.name \in Parts(p) /\ s.output = p.output
  /\ \A s \in S : s.name \in Parts(p) =>
       \A i \in DOMAIN s.inputs : st[s.inputs[i]].role = "data" => Reached(s.inputs[i], p, S)

SameRoles(st, tens) ==
  \A t \in DOMAIN st : t \in DOMAIN tens /\ tens[t].role = st[t].role

LEMMA RolesTell ==
  ASSUME NEW st, NEW tens, SameRoles(st, tens), NEW t, tens[t].role # "data"
  PROVE  NoImage(t, st)
BY DEF SameRoles, NoImage

LEMMA PartsAppended ==
  ASSUME NEW c, IsOperation(c), NEW name, NEW new,
         new.name = c.name, new.fused = Append(c.fused, name)
  PROVE  /\ Parts(new) = Parts(c) \cup {name}
         /\ DOMAIN new.fused = 1 .. Len(c.fused) + 1 /\ DOMAIN c.fused = 1 .. Len(c.fused)
         /\ Len(c.fused) \in Nat
         /\ \A i \in DOMAIN c.fused : new.fused[i] = c.fused[i]
         /\ new.fused[Len(c.fused) + 1] = name
<1>1. IsList(c.fused)
  BY DEF IsOperation
<1>2. /\ Len(c.fused) \in Nat /\ DOMAIN c.fused = 1 .. Len(c.fused)
  BY <1>1, ListFacts
<1>3. PICK after : after = Append(c.fused, name)
  OBVIOUS
<1>4. /\ \A i \in DOMAIN c.fused : after[i] = c.fused[i]
      /\ after[Len(c.fused) + 1] = name
      /\ DOMAIN after = 1 .. Len(c.fused) + 1
      /\ ToSet(after) = ToSet(c.fused) \cup {name}
  BY <1>1, <1>3, AppendList
<1>5. new.fused = after
  BY <1>3
<1>6. Parts(new) = Parts(c) \cup {name}
  BY <1>4, <1>5 DEF Parts
<1>7. QED
  BY <1>2, <1>4, <1>5, <1>6

(* An operation absorbs another, which is not yet part of any.             *)
LEMMA AbsorbedTold ==
  ASSUME NEW R, NEW all, NEW spared, Told(R, all, spared),
         NEW c \in R, IsOperation(c), NEW o \in R, c # o, o.fused = << >>,
         NEW new, new.name = c.name, new.fused = Append(c.fused, o.name)
  PROVE  Told((R \ {c, o}) \cup {new}, all, spared)
<1> DEFINE after == (R \ {c, o}) \cup {new}
<1>1. /\ Parts(new) = Parts(c) \cup {o.name}
      /\ DOMAIN new.fused = 1 .. Len(c.fused) + 1 /\ DOMAIN c.fused = 1 .. Len(c.fused)
      /\ Len(c.fused) \in Nat
      /\ \A i \in DOMAIN c.fused : new.fused[i] = c.fused[i]
      /\ new.fused[Len(c.fused) + 1] = o.name
  BY PartsAppended
<1>2. Parts(o) = {o.name}
  BY EmptyList DEF Parts
<1>3. o.name \notin Parts(c)
  BY <1>2 DEF Told
<1>4. \A i \in DOMAIN c.fused : c.fused[i] # o.name /\ c.fused[i] # c.name
  <2>1. \A i \in DOMAIN c.fused : c.fused[i] \in ToSet(c.fused)
    BY DEF ToSet
  <2>2. QED
    BY <1>3, <2>1 DEF Parts, Told
<1>5. c.name # o.name
  BY <1>3 DEF Parts
<1>6. ASSUME NEW i \in DOMAIN new.fused
      PROVE  i \in DOMAIN c.fused \/ i = Len(c.fused) + 1
  BY <1>1
<1>7. new.name \notin ToSet(new.fused)
  <2>1. \A i \in DOMAIN new.fused : new.fused[i] # new.name
    BY <1>1, <1>4, <1>5, <1>6
  <2>2. QED
    BY <2>1 DEF ToSet
<1>8. ASSUME NEW i \in DOMAIN new.fused, NEW j \in DOMAIN new.fused, new.fused[i] = new.fused[j]
      PROVE  i = j
  BY <1>1, <1>4, <1>6, <1>8 DEF Told
<1>9. ASSUME NEW p \in after, NEW q \in after, NEW n, n \in Parts(p), n \in Parts(q)
      PROVE  p = q
  <2>1. CASE p = new /\ q # new
    BY <1>1, <1>2, <1>9, <2>1 DEF Told
  <2>2. CASE q = new /\ p # new
    BY <1>1, <1>2, <1>9, <2>2 DEF Told
  <2>3. CASE p # new /\ q # new
    BY <1>9, <2>3 DEF Told
  <2>4. QED
    BY <2>1, <2>2, <2>3
<1>10. ASSUME NEW n \in all PROVE n \in spared \/ \E p \in after : n \in Parts(p)
  <2>1. CASE n \in spared
    BY <2>1
  <2>2. CASE n \notin spared
    <3>1. PICK p \in R : n \in Parts(p)
      BY <2>2 DEF Told
    <3>2. CASE p \in {c, o}
      BY <1>1, <1>2, <3>1, <3>2
    <3>3. CASE p \notin {c, o}
      BY <3>1, <3>3
    <3>4. QED
      BY <3>2, <3>3
  <2>3. QED
    BY <2>1, <2>2
<1>11. \A p \in after : /\ p.name \notin ToSet(p.fused)
                        /\ \A i, j \in DOMAIN p.fused : p.fused[i] = p.fused[j] => i = j
  BY <1>7, <1>8 DEF Told
<1>12. QED
  BY <1>9, <1>10, <1>11 DEF Told

(* An operation is rewritten in its place.                                 *)
LEMMA RewrittenTold ==
  ASSUME NEW R, NEW all, NEW spared, Told(R, all, spared),
         NEW o \in R, NEW new, new.name = o.name, new.fused = o.fused
  PROVE  Told((R \ {o}) \cup {new}, all, spared)
<1> DEFINE after == (R \ {o}) \cup {new}
<1>1. Parts(new) = Parts(o)
  BY DEF Parts
<1>2. \A p \in after : /\ p.name \notin ToSet(p.fused)
                       /\ \A i, j \in DOMAIN p.fused : p.fused[i] = p.fused[j] => i = j
  BY DEF Told
<1>3. \A p, q \in after : \A n : n \in Parts(p) /\ n \in Parts(q) => p = q
  BY <1>1 DEF Told
<1>4. \A n \in all : n \in spared \/ \E p \in after : n \in Parts(p)
  BY <1>1 DEF Told
<1>5. QED
  BY <1>2, <1>3, <1>4 DEF Told

(* Operations go of which no part is missed.                               *)
LEMMA FewerTold ==
  ASSUME NEW R, NEW all, NEW spared, Told(R, all, spared), NEW after \in SUBSET R,
         \A p \in R : p \notin after => \A n \in all : n \in Parts(p) => n \in spared
  PROVE  Told(after, all, spared)
BY DEF Told

(* A convolution absorbs the operation that reads it, and keeps its own    *)
(* image.                                                                  *)
Absorbs(new, c, o, st) ==
  /\ new.name = c.name /\ new.type = "Conv" /\ new.output = o.output
  /\ new.fused = Append(c.fused, o.name)
  /\ \A i \in DOMAIN c.inputs :
       (\E j \in DOMAIN new.inputs : new.inputs[j] = c.inputs[i]) \/ NoImage(c.inputs[i], st)
  /\ \A i \in DOMAIN o.inputs : o.inputs[i] = c.output \/ NoImage(o.inputs[i], st)

LEMMA AbsorbedTraced ==
  ASSUME NEW S, NEW st, \A s \in S : Fits(s, st),
         NEW c, NEW o, IsOperation(c), Traced(c, S, st), Traced(o, S, st), o.fused = << >>,
         NEW new, Absorbs(new, c, o, st)
  PROVE  Traced(new, S, st)
<1>1. Parts(new) = Parts(c) \cup {o.name}
  BY PartsAppended DEF Absorbs
<1>2. Parts(o) = {o.name}
  BY EmptyList DEF Parts
<1>3. \E s \in S : s.name \in Parts(new) /\ s.output = new.output
  BY <1>1, <1>2 DEF Traced, Absorbs
<1>4. ASSUME NEW s \in S, s.name \in Parts(new), NEW i \in DOMAIN s.inputs,
             st[s.inputs[i]].role = "data"
      PROVE  Reached(s.inputs[i], new, S)
  <2>0. ~NoImage(s.inputs[i], st)
    BY <1>4 DEF Fits, NoImage
  <2>1. CASE s.name \in Parts(c)
    <3>1. Reached(s.inputs[i], c, S)
      BY <1>4, <2>1 DEF Traced
    <3>2. QED
      BY <1>1, <2>0, <3>1 DEF Reached, Absorbs
  <2>2. CASE s.name \in Parts(o)
    <3>1. Reached(s.inputs[i], o, S)
      BY <1>4, <2>2 DEF Traced
    <3>2. \E r \in S : r.name \in Parts(c) /\ r.output = c.output
      BY DEF Traced
    <3>3. QED
      BY <1>1, <1>2, <2>0, <3>1, <3>2 DEF Reached, Absorbs
  <2>3. QED
    BY <1>1, <1>2, <1>4, <2>1, <2>2
<1>5. QED
  BY <1>3, <1>4 DEF Traced, Absorbs

LEMMA RewrittenTraced ==
  ASSUME NEW S, NEW st, \A s \in S : Fits(s, st),
         NEW o, Traced(o, S, st),
         NEW new, new.name = o.name, new.type \notin {"Constant", "Reshape"},
         new.output = o.output, new.fused = o.fused, new.type # "Conv" => o.type # "Conv",
         \A i \in DOMAIN o.inputs :
           (\E j \in DOMAIN new.inputs : new.inputs[j] = o.inputs[i]) \/ NoImage(o.inputs[i], st)
  PROVE  Traced(new, S, st)
<1>1. Parts(new) = Parts(o)
  BY DEF Parts
<1>2. ASSUME NEW s \in S, s.name \in Parts(new), NEW i \in DOMAIN s.inputs,
             st[s.inputs[i]].role = "data"
      PROVE  Reached(s.inputs[i], new, S)
  <2>1. Reached(s.inputs[i], o, S)
    BY <1>1, <1>2 DEF Traced
  <2>2. ~NoImage(s.inputs[i], st)
    BY <1>2 DEF Fits, NoImage
  <2>3. QED
    BY <1>1, <2>1, <2>2 DEF Reached
<1>3. QED
  BY <1>1, <1>2 DEF Traced

Remaining == {p \in ToSet(operations) : p.name \notin dropped}

Imports == ToSet(source.operations)

ImportNames == {s.name : s \in Imports}

Spared ==
  {s.name : s \in {x \in Imports : source.tensors[x.output].role = "vector" \/ Dead(x)}}

SourceKnown ==
  /\ IsList(source.operations) /\ Sorted(source.operations)
  /\ AllFit(source.operations, source.tensors)
  /\ Sound(Active(source.operations, {}), source.tensors, outputs)
  /\ \A s \in Imports : s.type = "Constant" => source.tensors[s.output].role = "vector"
  /\ \A t \in outputs : source.tensors[t].role = "data"

(* An operation as it is imported. *)
Plain(o, tens) ==
  /\ o.fused = << >>
  /\ o.type = "Constant" => tens[o.output].role = "vector"
  /\ o.type = "Reshape" => tens[o.inputs[2]].role # "data"

AllTraced == \A p \in Remaining : Traced(p, Imports, source.tensors)

Lineage ==
  /\ pass = 0 => \A o \in ToSet(operations) : Plain(o, tensors)
  /\ pass > 0 => SourceKnown /\ Told(Remaining, ImportNames, Spared)
  /\ pass \in 1 .. 5 => AllTraced /\ SameRoles(source.tensors, tensors)

LEMMA SameSource ==
  ASSUME UNCHANGED << source, outputs >>
  PROVE  /\ Imports' = Imports /\ ImportNames' = ImportNames /\ Spared' = Spared
         /\ SourceKnown => SourceKnown'
<1>1. Imports' = Imports
  BY DEF Imports
<1>2. ImportNames' = ImportNames
  BY <1>1 DEF ImportNames
<1>3. Spared' = Spared
  BY DEF Imports, Spared, Dead
<1>4. SourceKnown => SourceKnown'
  BY DEF SourceKnown, Imports
<1>5. QED
  BY <1>1, <1>2, <1>3, <1>4

(* One turn of a pass, by what remains after it.                           *)
LEMMA TurnLineage ==
  ASSUME Lineage, pass \in 1 .. 4, UNCHANGED << source, outputs, pass >>,
         Told(Remaining', ImportNames, Spared),
         \A p \in Remaining' : Traced(p, Imports, source.tensors),
         SameRoles(source.tensors, tensors')
  PROVE  Lineage'
<1>1. /\ Imports' = Imports /\ ImportNames' = ImportNames /\ Spared' = Spared
      /\ SourceKnown'
  BY SameSource DEF Lineage
<1>2. Told(Remaining', ImportNames', Spared') /\ AllTraced'
  BY <1>1 DEF AllTraced
<1>3. SameRoles(source.tensors, tensors)'
  BY DEF SameRoles
<1>4. QED
  BY <1>1, <1>2, <1>3 DEF Lineage

LEMMA VisitedRemains ==
  ASSUME WellBuilt, NEW o \in ToSet(operations), Visits(o)
  PROVE  o \in Remaining /\ \A p \in ToSet(operations) : p.name = o.name => p = o
BY SortedNames DEF WellBuilt, Visits, Remaining

(* An operation that is left out was a constant or a sum of constants.     *)
LEMMA DroppedLineage ==
  ASSUME WellBuilt, Meaningful, Lineage, NEW o \in ToSet(operations),
         DropConstant(o) \/ FoldAdd(o)
  PROVE  Lineage'
<1>1. /\ Running("fold_constants") /\ Visits(o)
      /\ UNCHANGED << operations, outputs, pass, source >>
      /\ dropped' = dropped \cup {o.name}
  BY DEF DropConstant, FoldAdd, EndVisit
<1>2. pass = 1
  BY <1>1, RunningPass DEF WellBuilt
<1>3. o \in Remaining /\ \A p \in ToSet(operations) : p.name = o.name => p = o
  BY <1>1, VisitedRemains
<1>4. /\ SourceKnown /\ Told(Remaining, ImportNames, Spared)
      /\ AllTraced /\ SameRoles(source.tensors, tensors)
  BY <1>2 DEF Lineage
<1>5. Remaining' = Remaining \ {o}
  BY <1>1, <1>3 DEF Remaining
<1>6. Traced(o, Imports, source.tensors)
  BY <1>3, <1>4 DEF AllTraced
<1>7. o.type # "Conv"
  BY DEF DropConstant, FoldAdd, ConstantSum
<1>8. Parts(o) = {o.name}
  BY <1>6, <1>7, EmptyList DEF Traced, Parts
<1>9. PICK s \in Imports : s.name = o.name /\ s.output = o.output
  BY <1>6, <1>8 DEF Traced
<1>10. s.output \in DOMAIN source.tensors
  BY <1>4 DEF SourceKnown, AllFit, Fits, Imports
<1>11. source.tensors[s.output].role = "vector"
  <2>1. CASE DropConstant(o)
    BY <1>6, <1>9, <2>1 DEF DropConstant, Traced
  <2>2. CASE FoldAdd(o)
    <3>1. o.type = "Add" /\ \A i \in {1, 2} : tensors[o.inputs[i]].constant
      BY <2>2 DEF FoldAdd, ConstantSum
    <3>2. o \in Active(operations, dropped)
      BY <1>3, <3>1 DEF Active, Remaining
    <3>3. Sound(Active(operations, dropped), tensors, outputs)
      BY DEF Meaningful, Solved
    <3>4. TypedOperation(o, tensors)
      BY <3>2, <3>3 DEF Sound
    <3>5. o.inputs[1] \in DOMAIN tensors
      BY <3>1, InputPlaces DEF WellBuilt, AllFit, Fits
    <3>6. tensors[o.inputs[1]].role # "data"
      BY <3>1, <3>3, <3>5 DEF Sound, TypedTensor
    <3>7. tensors[o.output].role = "vector"
      BY <3>1, <3>4, <3>6 DEF TypedOperation
    <3>8. QED
      BY <1>4, <1>9, <1>10, <3>7 DEF SameRoles
  <2>3. QED
    BY <2>1, <2>2
<1>12. o.name \in Spared
  BY <1>9, <1>11 DEF Spared
<1>13. Told(Remaining', ImportNames, Spared)
  BY <1>4, <1>5, <1>8, <1>12, FewerTold
<1>14. SameRoles(source.tensors, tensors')
  <2>1. CASE DropConstant(o)
    BY <1>4, <2>1 DEF DropConstant
  <2>2. CASE FoldAdd(o)
    <3>1. PICK sum : tensors' = [tensors EXCEPT ![o.output].constant = TRUE, ![o.output].value = sum]
      BY <2>2 DEF FoldAdd
    <3>2. o.output \in DOMAIN tensors /\ TypedTensor(tensors[o.output])
      BY DEF WellBuilt, AllFit, Fits, Meaningful, Solved, Sound
    <3>3. DOMAIN tensors' = DOMAIN tensors /\ \A t \in DOMAIN tensors : tensors'[t].role = tensors[t].role
      BY <3>1, <3>2 DEF TypedTensor
    <3>4. QED
      BY <1>4, <3>3 DEF SameRoles
  <2>3. QED
    BY <2>1, <2>2
<1>15. \A p \in Remaining' : Traced(p, Imports, source.tensors)
  BY <1>4, <1>5 DEF AllTraced
<1>16. pass \in 1 .. 4
  BY <1>2
<1>17. QED
  BY <1>1, <1>13, <1>14, <1>15, <1>16, TurnLineage

LEMMA SkipLineage ==
  ASSUME WellBuilt, Lineage, NEW o \in ToSet(operations), Skip(o)
  PROVE  Lineage'
<1>1. UNCHANGED << operations, tensors, dropped, outputs, pass, source >>
  BY DEF Skip, EndVisit
<1>2. pass \in 1 .. 4
  BY RunningPass DEF Skip, WellBuilt
<1>3. Remaining' = Remaining
  BY <1>1 DEF Remaining
<1>4. /\ Told(Remaining, ImportNames, Spared) /\ AllTraced /\ SameRoles(source.tensors, tensors)
  BY <1>2 DEF Lineage
<1>5. QED
  BY <1>1, <1>2, <1>3, <1>4, TurnLineage DEF AllTraced

(* A convolution absorbs the only operation that reads it.                 *)
LEMMA AbsorptionKeeps ==
  ASSUME NEW R, NEW all, NEW spared, Told(R, all, spared),
         NEW S, NEW st, \A s \in S : Fits(s, st), \A p \in R : Traced(p, S, st),
         NEW c \in R, IsOperation(c), NEW o \in R, c # o, o.type # "Conv",
         NEW new, Absorbs(new, c, o, st)
  PROVE  /\ Told((R \ {c, o}) \cup {new}, all, spared)
         /\ \A p \in (R \ {c, o}) \cup {new} : Traced(p, S, st)
<1>1. o.fused = << >>
  BY DEF Traced
<1>2. Told((R \ {c, o}) \cup {new}, all, spared)
  BY <1>1, AbsorbedTold DEF Absorbs
<1>3. Traced(new, S, st)
  <2>1. Traced(c, S, st) /\ Traced(o, S, st)
    OBVIOUS
  <2>2. QED
    BY <1>1, <2>1, AbsorbedTraced
<1>4. QED
  BY <1>2, <1>3

(* Of the operands of a convolution the first alone is an image.           *)
LEMMA ConvolutionImages ==
  ASSUME NEW st, NEW tens, SameRoles(st, tens),
         NEW c, Fits(c, tens), TypedOperation(c, tens), c.type = "Conv",
         NEW i \in DOMAIN c.inputs, i # 1
  PROVE  NoImage(c.inputs[i], st)
<1>1. DOMAIN c.inputs = 1 .. Len(c.inputs) /\ Len(c.inputs) \in {2, 3}
  BY InputPlaces DEF Fits, Arity
<1>2. i = 2 \/ (i = 3 /\ Len(c.inputs) = 3)
  <2>1. PICK n \in {2, 3} : n = Len(c.inputs)
    BY <1>1
  <2>2. i \in 1 .. n
    BY <1>1, <2>1
  <2>3. QED
    BY <2>1, <2>2
<1>3. tens[c.inputs[i]].role \in {"weights", "bias"}
  BY <1>2 DEF TypedOperation
<1>4. QED
  BY <1>3, RolesTell

LEMMA NormalizationLineage ==
  ASSUME WellBuilt, Meaningful, Lineage, NEW bn \in ToSet(operations), FoldNormalization(bn)
  PROVE  Lineage'
<1>1. /\ Running("fold_batch_normalization") /\ Visits(bn) /\ bn.type = "BatchNormalization"
      /\ dropped' = dropped \cup {bn.name}
      /\ UNCHANGED << outputs, pass, source >>
  BY DEF FoldNormalization, EndVisit
<1>2. pass = 2
  BY <1>1, RunningPass DEF WellBuilt
<1> DEFINE A == Active(operations, dropped)
<1>3. PICK c \in ConvolutionsOf(bn) : \E new :
           LET weights == private_weights(c)
               bias    == unique_tensor_name(tensors, "bn_bias", c.name)
           IN  /\ FoldedInto(bn, c)
               /\ Fits(new, tensors') /\ new.name = c.name /\ new.type = "Conv"
               /\ new.inputs = << c.inputs[1], weights, bias >> /\ new.output = bn.output
               /\ new.fused = Append(c.fused, bn.name)
               /\ ToSet(operations') = (ToSet(operations) \ {c}) \cup {new}
  BY FoldedGraph
<1>4. PICK new :
           LET weights == private_weights(c)
               bias    == unique_tensor_name(tensors, "bn_bias", c.name)
           IN  /\ FoldedInto(bn, c)
               /\ Fits(new, tensors') /\ new.name = c.name /\ new.type = "Conv"
               /\ new.inputs = << c.inputs[1], weights, bias >> /\ new.output = bn.output
               /\ new.fused = Append(c.fused, bn.name)
               /\ ToSet(operations') = (ToSet(operations) \ {c}) \cup {new}
  BY <1>3
<1> DEFINE weights == private_weights(c)
           bias    == unique_tensor_name(tensors, "bn_bias", c.name)
<1> HIDE DEF weights, bias
<1>5. /\ Fits(new, tensors') /\ new.name = c.name /\ new.type = "Conv"
      /\ new.inputs = << c.inputs[1], weights, bias >> /\ new.output = bn.output
      /\ new.fused = Append(c.fused, bn.name)
      /\ ToSet(operations') = (ToSet(operations) \ {c}) \cup {new}
  BY <1>4 DEF weights, bias
<1>6. /\ SourceKnown /\ Told(Remaining, ImportNames, Spared)
      /\ AllTraced /\ SameRoles(source.tensors, tensors)
  BY <1>2 DEF Lineage
<1>7. /\ bn \in Remaining /\ bn \in A
      /\ \A p \in ToSet(operations) : p.name = bn.name => p = bn
  BY <1>1, VisitedRemains DEF Remaining, Active
<1>8. \A q \in A : q \in ToSet(operations) /\ Fits(q, tensors)
  BY DEF WellBuilt, AllFit, Active
<1>9. Sound(A, tensors, outputs) /\ IsFiniteSet(DOMAIN tensors)
  BY DEF Meaningful, Solved
<1>10. \A q \in A : \A i \in DOMAIN q.inputs :
         q.type = "Conv" /\ i # 1 => q.inputs[i] # bn.inputs[1]
  <2> HIDE DEF A
  <2>1. QED
    BY <1>1, <1>7, <1>8, <1>9, OperandRoles
<1>11. c \in A /\ c.output = bn.inputs[1]
  <2>1. LinksKnown /\ bn.name \notin dropped
    BY <1>2, <1>7 DEF Meaningful, Remaining
  <2>2. QED
    BY <1>1, <1>10, <2>1, LinkedReaders
<1>12. c.type = "Conv" /\ c \in Remaining /\ c # bn
  BY <1>1, <1>11 DEF ConvolutionsOf, Active, Remaining
<1>13. Fits(c, tensors) /\ TypedOperation(c, tensors) /\ Fits(bn, tensors) /\ TypedOperation(bn, tensors)
  BY <1>7, <1>8, <1>9, <1>11 DEF Sound
<1>14. Remaining' = (Remaining \ {c, bn}) \cup {new}
  <2>1. new.name \notin dropped'
    BY <1>1, <1>5, <1>7, <1>12 DEF Remaining
  <2>2. QED
    BY <1>1, <1>5, <1>7, <2>1 DEF Remaining
<1>15. SameRoles(source.tensors, tensors')
  <2>1. NormalizationAdded(c, bn, tensors, weights, bias, tensors')
    BY <1>4, <1>9, FoldedTensors DEF weights, bias
  <2>2. QED
    BY <1>6, <2>1 DEF NormalizationAdded, SameRoles
<1>16. ASSUME NEW i \in DOMAIN c.inputs
       PROVE  \/ \E j \in DOMAIN new.inputs : new.inputs[j] = c.inputs[i]
              \/ NoImage(c.inputs[i], source.tensors)
  <2>1. CASE i = 1
    <3>1. 1 \in DOMAIN new.inputs /\ new.inputs[1] = c.inputs[1]
      BY <1>5
    <3>2. QED
      BY <2>1, <3>1
  <2>2. CASE i # 1
    BY <1>6, <1>12, <1>13, <2>2, ConvolutionImages
  <2>3. QED
    BY <2>1, <2>2
<1>17. ASSUME NEW i \in DOMAIN bn.inputs
       PROVE  bn.inputs[i] = c.output \/ NoImage(bn.inputs[i], source.tensors)
  <2>1. i = 1 \/ i = 2
    BY <1>1, <1>13, InputPlaces DEF Fits
  <2>2. CASE i = 2
    <3>1. tensors[bn.inputs[2]].role # "data"
      BY <1>1, <1>13 DEF TypedOperation
    <3>2. QED
      BY <1>6, <2>2, <3>1, RolesTell
  <2>3. QED
    BY <1>11, <2>1, <2>2
<1>18. \A s \in Imports : Fits(s, source.tensors)
  BY <1>6 DEF SourceKnown, AllFit, Imports
<1>19. /\ Told((Remaining \ {c, bn}) \cup {new}, ImportNames, Spared)
       /\ \A p \in (Remaining \ {c, bn}) \cup {new} : Traced(p, Imports, source.tensors)
  <2>1. \A p \in Remaining : Traced(p, Imports, source.tensors)
    BY <1>6 DEF AllTraced
  <2>2. IsOperation(c) /\ bn.type # "Conv"
    BY <1>1, <1>13 DEF Fits
  <2>3. Absorbs(new, c, bn, source.tensors)
    BY <1>5, <1>16, <1>17 DEF Absorbs
  <2>4. QED
    BY <1>6, <1>7, <1>12, <1>18, <2>1, <2>2, <2>3, AbsorptionKeeps
<1>20. pass \in 1 .. 4
  BY <1>2
<1>21. QED
  BY <1>1, <1>14, <1>15, <1>19, <1>20, TurnLineage

(* A graph of which nothing is to be left out. *)
Accounted(ops, tens) ==
  /\ Told(ToSet(ops), ImportNames, Spared)
  /\ \A p \in ToSet(ops) : Traced(p, Imports, source.tensors)
  /\ SameRoles(source.tensors, tens)

LEMMA NothingDropped ==
  ASSUME Lineage, pass \in 1 .. 5, dropped = {}
  PROVE  Remaining = ToSet(operations) /\ SourceKnown /\ Accounted(operations, tensors)
<1>1. Remaining = ToSet(operations)
  BY DEF Remaining
<1>2. QED
  BY <1>1 DEF Lineage, AllTraced, Accounted

LEMMA BiasAccounted ==
  ASSUME SourceKnown,
         NEW ops, IsList(ops), Sorted(ops), NEW tens, AllFit(ops, tens), Distinct(ops, {}),
         IsFiniteSet(DOMAIN tens), Sound(Active(ops, {}), tens, outputs), Accounted(ops, tens),
         NEW c \in ToSet(ops), c.type = "Conv", NEW add, NEW b, NEW h,
         BiasedBy(ops, tens, c, add, b, h)
  PROVE  Accounted(h.operations, h.tensors)
<1> DEFINE name == unique_tensor_name(tens, "fused_bias", c.name)
           st   == source.tensors
<1>1. add \in ToSet(ops) /\ add.type = "Add"
      /\ \E new \in ToSet(h.operations) :
           /\ ToSet(h.operations) = (ToSet(ops) \ {c, add}) \cup {new}
           /\ new.name = c.name /\ new.type = c.type /\ new.output = add.output
           /\ new.inputs = << c.inputs[1], c.inputs[2], name >>
           /\ new.relu = c.relu /\ new.fused = Append(c.fused, add.name)
  <2>1. \E new \in ToSet(h.operations) :
          /\ ToSet(h.operations) = (ToSet(ops) \ {c, add}) \cup {new}
          /\ new.name = c.name /\ new.type = c.type /\ new.output = add.output
          /\ new.inputs = << c.inputs[1], c.inputs[2], name >>
          /\ new.relu = c.relu /\ new.fused = Append(c.fused, add.name)
    BY BiasedGraph
  <2>2. add \in ToSet(ops) /\ add.type = "Add"
    BY BiasedGraph
  <2>3. QED
    BY <2>1, <2>2
<1>2. PICK new \in ToSet(h.operations) :
           /\ ToSet(h.operations) = (ToSet(ops) \ {c, add}) \cup {new}
           /\ new.name = c.name /\ new.type = c.type /\ new.output = add.output
           /\ new.inputs = << c.inputs[1], c.inputs[2], name >>
           /\ new.relu = c.relu /\ new.fused = Append(c.fused, add.name)
  BY <1>1
<1>3. /\ DOMAIN add.inputs = {1, 2} /\ add.inputs[1] = c.output /\ add.inputs[2] = b
      /\ tens[b].role = "vector"
  BY AdditionReads
<1>4. SameRoles(st, tens) /\ Told(ToSet(ops), ImportNames, Spared)
      /\ \A p \in ToSet(ops) : Traced(p, Imports, st)
  BY DEF Accounted
<1>5. c # add
  BY <1>1
<1>6. Fits(c, tens) /\ TypedOperation(c, tens)
  <2>1. c \in Active(ops, {})
    BY DEF Active
  <2>2. QED
    BY <2>1 DEF AllFit, Sound
<1>7. SameRoles(st, h.tensors)
  <2>1. PICK bias : h.tensors = Put(tens, name, bias)
    BY DEF BiasedBy
  <2>2. name \notin DOMAIN tens
    BY FreshName
  <2> HIDE DEF name
  <2>3. DOMAIN tens \subseteq DOMAIN h.tensors /\ \A t \in DOMAIN tens : h.tensors[t] = tens[t]
    BY <2>1, <2>2 DEF Put
  <2>4. QED
    BY <1>4, <2>3 DEF SameRoles
<1> HIDE DEF name
<1>8. ASSUME NEW i \in DOMAIN c.inputs
      PROVE  (\E j \in DOMAIN new.inputs : new.inputs[j] = c.inputs[i]) \/ NoImage(c.inputs[i], st)
  <2>1. CASE i = 1
    <3>1. 1 \in DOMAIN new.inputs /\ new.inputs[1] = c.inputs[1]
      BY <1>2
    <3>2. QED
      BY <2>1, <3>1
  <2>2. CASE i # 1
    BY <1>4, <1>6, <2>2, ConvolutionImages
  <2>3. QED
    BY <2>1, <2>2
<1>9. ASSUME NEW i \in DOMAIN add.inputs
      PROVE  add.inputs[i] = c.output \/ NoImage(add.inputs[i], st)
  BY <1>3, <1>4, RolesTell
<1>10. Absorbs(new, c, add, st)
  BY <1>2, <1>8, <1>9 DEF Absorbs
<1>11. \A s \in Imports : Fits(s, st)
  BY DEF SourceKnown, AllFit, Imports
<1>12. PICK R : R = ToSet(ops)
  OBVIOUS
<1>13. c \in R /\ add \in R /\ add.type # "Conv" /\ IsOperation(c) /\ Told(R, ImportNames, Spared)
       /\ \A p \in R : Traced(p, Imports, st)
  BY <1>1, <1>4, <1>6, <1>12 DEF Fits
<1>14. /\ Told((R \ {c, add}) \cup {new}, ImportNames, Spared)
       /\ \A p \in (R \ {c, add}) \cup {new} : Traced(p, Imports, st)
  BY <1>5, <1>10, <1>11, <1>13, AbsorptionKeeps
<1>15. QED
  BY <1>2, <1>7, <1>12, <1>14 DEF Accounted

LEMMA ReluAccounted ==
  ASSUME SourceKnown,
         NEW ops, IsList(ops), Sorted(ops), NEW tens, AllFit(ops, tens), Distinct(ops, {}),
         Accounted(ops, tens),
         NEW c \in ToSet(ops), c.type = "Conv",
         NEW relu \in ToSet(ops), relu.type = "Relu", OnlyConsumer(ops, c.output) = {relu.name},
         NEW h, AbsorbsRelu(ops, tens, c, relu, h)
  PROVE  Accounted(h.operations, h.tensors)
<1> DEFINE st == source.tensors
<1>1. \E new \in ToSet(h.operations) :
        /\ ToSet(h.operations) = (ToSet(ops) \ {c, relu}) \cup {new}
        /\ new.name = c.name /\ new.type = c.type /\ new.output = relu.output
        /\ new.inputs = c.inputs /\ new.fused = Append(c.fused, relu.name)
  BY RectifiedGraph
<1>2. PICK new \in ToSet(h.operations) :
        /\ ToSet(h.operations) = (ToSet(ops) \ {c, relu}) \cup {new}
        /\ new.name = c.name /\ new.type = c.type /\ new.output = relu.output
        /\ new.inputs = c.inputs /\ new.fused = Append(c.fused, relu.name)
  BY <1>1
<1>3. \E i \in DOMAIN relu.inputs : relu.inputs[i] = c.output
  BY OnlyReader
<1>4. Fits(relu, tens) /\ Fits(c, tens)
  BY DEF AllFit
<1>5. DOMAIN relu.inputs = {1}
  BY <1>4, InputPlaces DEF Fits
<1>6. Absorbs(new, c, relu, st)
  BY <1>2, <1>3, <1>5 DEF Absorbs
<1>7. \A s \in Imports : Fits(s, st)
  BY DEF SourceKnown, AllFit, Imports
<1>8. PICK R : R = ToSet(ops)
  OBVIOUS
<1>9. c \in R /\ relu \in R /\ relu.type # "Conv" /\ IsOperation(c) /\ Told(R, ImportNames, Spared)
      /\ c # relu /\ \A p \in R : Traced(p, Imports, st)
  BY <1>4, <1>8 DEF Fits, Accounted
<1>10. /\ Told((R \ {c, relu}) \cup {new}, ImportNames, Spared)
       /\ \A p \in (R \ {c, relu}) \cup {new} : Traced(p, Imports, st)
  BY <1>6, <1>7, <1>9, AbsorptionKeeps
<1>11. SameRoles(st, h.tensors)
  BY DEF Accounted, AbsorbsRelu
<1>12. QED
  BY <1>2, <1>8, <1>10, <1>11 DEF Accounted

LEMMA FuseLineage ==
  ASSUME WellBuilt, Meaningful, Lineage, NEW c \in ToSet(operations), FuseConvolution(c)
  PROVE  Lineage'
<1>1. /\ Running("fuse_conv_bias_relu") /\ c.type = "Conv"
      /\ UNCHANGED << outputs, pass, dropped, source >>
  BY DEF FuseConvolution
<1>2. pass = 3 /\ dropped = {}
  BY <1>1, RunningPass DEF WellBuilt
<1> DEFINE Well(h) == /\ IsList(h.operations) /\ Sorted(h.operations)
                      /\ AllFit(h.operations, h.tensors) /\ Distinct(h.operations, {})
                      /\ Accounted(h.operations, h.tensors)
           g      == GraphOf(operations, tensors)
           biased == WithBias(g, c)
           c2     == Named(biased.operations, c.name)
           fused  == WithRelu(biased, c2)
<1>3. operations' = fused.operations /\ tensors' = fused.tensors
  BY DEF FuseConvolution, GraphOf
<1>4. pass \in 1 .. 5
  BY <1>2
<1>5. SourceKnown /\ Accounted(operations, tensors)
  BY <1>2, <1>4, NothingDropped
<1>6. /\ IsList(operations) /\ Sorted(operations) /\ AllFit(operations, tensors)
      /\ Distinct(operations, {}) /\ IsFiniteSet(DOMAIN tensors)
      /\ Sound(Active(operations, {}), tensors, outputs)
  BY <1>2 DEF WellBuilt, Meaningful, Solved
<1>7. Well(g) /\ g.operations = operations /\ g.tensors = tensors /\ DOMAIN g = {"operations", "tensors"}
  BY <1>5, <1>6, GraphOfIs
<1>8. /\ Well(biased) /\ DOMAIN biased = {"operations", "tensors"}
      /\ \E o \in ToSet(biased.operations) : o.name = c.name /\ o.type = "Conv"
  <2>1. CASE biased = g
    BY <1>1, <1>7, <2>1
  <2>2. CASE biased # g
    <3>1. PICK add, b : BiasedBy(operations, tensors, c, add, b, biased)
      BY <2>2, WithBiasCases
    <3>2. DOMAIN biased = {"operations", "tensors"}
      BY <2>2 DEF WithBias
    <3> HIDE DEF biased
    <3>3. /\ IsList(biased.operations) /\ Sorted(biased.operations)
          /\ AllFit(biased.operations, biased.tensors) /\ Distinct(biased.operations, {})
          /\ \E o \in ToSet(biased.operations) : o.name = c.name /\ o.type = "Conv"
      BY <1>1, <1>6, <3>1, BiasedGraph
    <3>4. Accounted(biased.operations, biased.tensors)
      BY <1>1, <1>5, <1>6, <3>1, BiasAccounted
    <3>5. QED
      BY <3>2, <3>3, <3>4
  <2>3. QED
    BY <2>1, <2>2
<1> HIDE DEF biased
<1>9. c2 \in ToSet(biased.operations) /\ c2.name = c.name /\ c2.type = "Conv"
  BY <1>8, NamedIs
<1> HIDE DEF c2
<1>10. Accounted(fused.operations, fused.tensors)
  <2>1. CASE fused = biased
    BY <1>8, <2>1
  <2>2. CASE fused # biased
    <3>1. PICK relu \in single_consumer(biased, c2, "Relu") :
             AbsorbsRelu(biased.operations, biased.tensors, c2, relu, fused)
      BY <1>8, <2>2, WithReluCases
    <3> HIDE DEF fused
    <3>2. /\ relu \in ToSet(biased.operations) /\ relu.type = "Relu"
          /\ OnlyConsumer(biased.operations, c2.output) = {relu.name}
      BY SingleConsumer
    <3>3. QED
      BY <1>5, <1>8, <1>9, <3>1, <3>2, ReluAccounted
  <2>3. QED
    BY <2>1, <2>2
<1> HIDE DEF fused
<1>11. Remaining' = ToSet(operations')
  BY <1>1, <1>2 DEF Remaining
<1>12. /\ Told(Remaining', ImportNames, Spared) /\ SameRoles(source.tensors, tensors')
       /\ \A p \in Remaining' : Traced(p, Imports, source.tensors)
  BY <1>3, <1>10, <1>11 DEF Accounted
<1>13. pass \in 1 .. 4
  BY <1>2
<1>14. QED
  BY <1>1, <1>12, <1>13, TurnLineage

LEMMA CanonicalizeLineage ==
  ASSUME WellBuilt, Lineage, NEW o \in ToSet(operations), Canonicalize(o)
  PROVE  Lineage'
<1>1. /\ Running("canonicalize_shape_operations") /\ o.type = "Reshape"
      /\ UNCHANGED << tensors, dropped, outputs, pass, source >>
  BY DEF Canonicalize, EndVisit
<1>2. pass = 4 /\ dropped = {}
  BY <1>1, RunningPass DEF WellBuilt
<1>3. PICK new :
           /\ Fits(new, tensors) /\ new.name = o.name /\ new.type = "View"
           /\ new.inputs = << o.inputs[1] >> /\ new.output = o.output /\ new.fused = o.fused
           /\ ToSet(operations') = (ToSet(operations) \ {o}) \cup {new}
  BY CanonicalOperation
<1>4. pass \in 1 .. 5 /\ pass \in 1 .. 4
  BY <1>2
<1>5. SourceKnown /\ Accounted(operations, tensors)
  BY <1>2, <1>4, NothingDropped
<1>6. PICK R : R = ToSet(operations)
  OBVIOUS
<1>7. o \in R /\ Told(R, ImportNames, Spared) /\ \A p \in R : Traced(p, Imports, source.tensors)
  BY <1>5, <1>6 DEF Accounted
<1>8. ASSUME NEW i \in DOMAIN o.inputs
      PROVE  \/ \E j \in DOMAIN new.inputs : new.inputs[j] = o.inputs[i]
             \/ NoImage(o.inputs[i], source.tensors)
  <2>1. i = 1 \/ i = 2
    BY <1>1, InputPlaces DEF Fits, WellBuilt, AllFit
  <2>2. CASE i = 1
    <3>1. 1 \in DOMAIN new.inputs /\ new.inputs[1] = o.inputs[1]
      BY <1>3
    <3>2. QED
      BY <2>2, <3>1
  <2>3. CASE i = 2
    BY <1>1, <1>7, <2>3 DEF Traced
  <2>4. QED
    BY <2>1, <2>2, <2>3
<1>9. Traced(new, Imports, source.tensors)
  <2>1. \A s \in Imports : Fits(s, source.tensors)
    BY <1>5 DEF SourceKnown, AllFit, Imports
  <2>2. Traced(o, Imports, source.tensors)
    BY <1>7
  <2>3. new.type \notin {"Constant", "Reshape"} /\ o.type # "Conv"
    BY <1>1, <1>3
  <2>4. QED
    BY <1>3, <1>8, <2>1, <2>2, <2>3, RewrittenTraced
<1>10. Told((R \ {o}) \cup {new}, ImportNames, Spared)
  BY <1>3, <1>7, RewrittenTold
<1>11. Remaining' = (R \ {o}) \cup {new}
  BY <1>1, <1>2, <1>3, <1>6 DEF Remaining
<1>12. SameRoles(source.tensors, tensors')
  BY <1>1, <1>5 DEF Accounted
<1>13. \A p \in Remaining' : Traced(p, Imports, source.tensors)
  BY <1>7, <1>9, <1>11
<1>14. QED
  BY <1>1, <1>4, <1>10, <1>11, <1>12, <1>13, TurnLineage

(* After dead code is gone, the names alone are followed.                  *)
LEMMA LateLineage ==
  ASSUME Lineage, pass > 0, UNCHANGED << source, outputs >>, pass' \in 6 .. 7,
         Told(Remaining', ImportNames, Spared)
  PROVE  Lineage'
<1>1. /\ ImportNames' = ImportNames /\ Spared' = Spared /\ SourceKnown'
  BY SameSource DEF Lineage
<1>2. QED
  BY <1>1 DEF Lineage

LEMMA AssignLineage ==
  ASSUME WellBuilt, Lineage, NEW o \in ToSet(operations), Assign(o)
  PROVE  Lineage'
<1>1. /\ Running("assign_backends") /\ UNCHANGED << dropped, outputs, pass, source >>
  BY DEF Assign, EndVisit
<1>2. pass = 6 /\ dropped = {}
  BY <1>1, RunningPass DEF WellBuilt
<1>3. PICK new :
           /\ new.name = o.name /\ new.fused = o.fused
           /\ ToSet(operations') = (ToSet(operations) \ {o}) \cup {new}
  BY AssignedOperation
<1>4. Remaining = ToSet(operations) /\ Remaining' = ToSet(operations')
  BY <1>1, <1>2 DEF Remaining
<1>5. Told(Remaining, ImportNames, Spared)
  BY <1>2 DEF Lineage
<1>6. o \in Remaining
  BY <1>4
<1>7. Told((Remaining \ {o}) \cup {new}, ImportNames, Spared)
  BY <1>3, <1>5, <1>6, RewrittenTold
<1>8. QED
  BY <1>1, <1>2, <1>3, <1>4, <1>7, LateLineage

LEMMA EndPassLineage ==
  ASSUME WellBuilt, Lineage, EndPass PROVE Lineage'
<1>1. /\ pass \in DOMAIN Pipeline /\ Pipeline[pass] # "eliminate_dead_code"
      /\ operations' = Without(operations, dropped)
      /\ UNCHANGED << tensors, outputs, source >> /\ dropped' = {}
      /\ pass' = pass + 1
  BY DEF EndPass, NextPass
<1>2. pass \in 1 .. 4 \/ pass = 6
  BY <1>1 DEF Pipeline
<1>3. Remaining' = Remaining
  <2>1. ToSet(operations') = {o \in ToSet(operations) : o.name \notin dropped}
    BY <1>1, WithoutList DEF WellBuilt
  <2>2. QED
    BY <1>1, <2>1 DEF Remaining
<1>4. SourceKnown /\ Told(Remaining, ImportNames, Spared)
  BY <1>2 DEF Lineage
<1>5. CASE pass = 6
  BY <1>1, <1>3, <1>4, <1>5, LateLineage
<1>6. CASE pass \in 1 .. 4
  <2>1. /\ Imports' = Imports /\ ImportNames' = ImportNames /\ Spared' = Spared /\ SourceKnown'
    BY <1>1, <1>4, SameSource
  <2>2. AllTraced /\ SameRoles(source.tensors, tensors)
    BY <1>6 DEF Lineage
  <2>3. AllTraced'
    BY <1>1, <1>3, <2>1, <2>2 DEF AllTraced
  <2>4. SameRoles(source.tensors, tensors)'
    BY <1>1, <2>2 DEF SameRoles
  <2>5. pass' > 0
    BY <1>1, <1>6
  <2>6. QED
    BY <1>3, <1>4, <2>1, <2>3, <2>4, <2>5 DEF Lineage
<1>7. QED
  BY <1>2, <1>5, <1>6

-----------------------------------------------------------------------------
(* While the graph is imported every operation stands for itself.          *)
LEMMA InitLineage == ASSUME Init PROVE Lineage
<1>1. pass = 0 /\ operations = << >>
  BY DEF Init
<1>2. QED
  BY <1>1, EmptyList DEF Lineage

LEMMA ImportNodeLineage ==
  ASSUME WellBuilt, Meaningful, Lineage, ImportNode PROVE Lineage'
<1>1. pass = 0 /\ Len(operations) < Len(Menu) /\ UNCHANGED << pass, source, outputs, dropped >>
  BY DEF ImportNode
<1>2. PICK n : n = Len(operations) + 1
  OBVIOUS
<1>3. PICK type \in Menu[n] : \E inputs \in Operands(type) :
           /\ operations' = Append(operations, Imported(n, type, inputs))
           /\ tensors' = Put(tensors, OutputOf(n), ResultTensor(type, inputs, n))
  BY <1>2 DEF ImportNode
<1>4. PICK inputs \in Operands(type) :
           /\ operations' = Append(operations, Imported(n, type, inputs))
           /\ tensors' = Put(tensors, OutputOf(n), ResultTensor(type, inputs, n))
  BY <1>3
<1>5. IsList(operations) /\ Len(operations) \in Nat /\ n \in Nat /\ n \in DOMAIN Menu
  <2>1. IsList(operations) /\ Len(operations) \in Nat
    BY ListFacts DEF WellBuilt
  <2>2. Len(Menu) \in Nat /\ DOMAIN Menu = 1 .. Len(Menu)
    BY GraphAssumption, LenProperties
  <2>3. QED
    BY <1>1, <1>2, <2>1, <2>2
<1>6. PICK o : o = Imported(n, type, inputs)
  OBVIOUS
<1>7. type \in NodeTypes
  BY <1>3, <1>5, MenuTypes
<1>8. IsList(inputs) /\ \A i \in DOMAIN inputs : inputs[i] \in DOMAIN tensors
  BY <1>7, NodeArity
<1>9. o.type = type /\ o.inputs = inputs /\ o.output = OutputOf(n) /\ o.fused = << >>
  BY <1>5, <1>6, <1>8, ImportedFields
<1>10. ToSet(operations') = ToSet(operations) \cup {o}
  BY <1>4, <1>5, <1>6, AppendList
<1>11. PICK x : x = ResultTensor(type, inputs, n)
  OBVIOUS
<1>12. /\ DOMAIN tensors' = DOMAIN tensors \cup {OutputOf(n)} /\ tensors'[OutputOf(n)] = x
       /\ \A t \in DOMAIN tensors : t # OutputOf(n) => tensors'[t] = tensors[t]
  <2>1. tensors' = Put(tensors, OutputOf(n), x)
    BY <1>4, <1>11
  <2>2. QED
    BY <2>1 DEF Put
<1>13. OutputOf(n) \notin DOMAIN tensors
  BY <1>1, <1>2, FreshOutput
<1>14. Plain(o, tensors')
  <2>1. ASSUME type = "Constant" PROVE x.role = "vector"
    BY <1>11, <2>1 DEF ResultTensor
  <2>2. ASSUME type = "Reshape"
        PROVE  inputs[2] \in DOMAIN tensors /\ tensors[inputs[2]].role = "shape"
    <3>1. inputs \in Images \X With("shape")
      BY <2>2 DEF Operands
    <3>2. QED
      BY <3>1 DEF With
  <2>3. QED
    BY <1>9, <1>12, <1>13, <2>1, <2>2 DEF Plain
<1>15. ASSUME NEW p \in ToSet(operations) PROVE Plain(p, tensors')
  <2>1. Plain(p, tensors)
    BY <1>1 DEF Lineage
  <2>2. Fits(p, tensors)
    BY DEF WellBuilt, AllFit
  <2>3. p.output \in DOMAIN tensors /\ (p.type = "Reshape" => p.inputs[2] \in DOMAIN tensors)
    BY <2>2, InputPlaces DEF Fits
  <2>4. QED
    BY <1>12, <1>13, <2>1, <2>3 DEF Plain
<1>16. pass' = 0
  BY <1>1
<1>17. QED
  BY <1>10, <1>14, <1>15, <1>16 DEF Lineage

LEMMA FinishImportLineage ==
  ASSUME WellBuilt, Meaningful, Lineage, FinishImport PROVE Lineage'
<1>1. /\ pass = 0 /\ pass' = 1 /\ UNCHANGED << operations, tensors, dropped >>
      /\ source' = [operations |-> operations, tensors |-> tensors]
  BY DEF FinishImport
<1>2. source'.operations = operations /\ source'.tensors = tensors
  BY <1>1
<1>3. IsList(operations) /\ Sorted(operations) /\ AllFit(operations, tensors) /\ dropped = {}
  BY <1>1 DEF WellBuilt
<1>4. \A o \in ToSet(operations) : Plain(o, tensors)
  BY <1>1 DEF Lineage
<1>5. Sound(Active(operations, {}), tensors, outputs')
  <2>1. Meaningful'
    BY FinishImportMeaningful
  <2>2. QED
    BY <1>1, <1>3, <2>1 DEF Meaningful, Solved
<1>6. \A t \in outputs' : tensors[t].role = "data"
  <2>1. PICK u \in Data \cap {operations[i].output : i \in DOMAIN operations} :
           outputs' = {u, Last(operations).output}
    BY DEF FinishImport
  <2>2. Last(operations).output \in Data
    BY DEF FinishImport
  <2>3. \A t \in outputs' : t \in Data
    BY <2>1, <2>2
  <2>4. QED
    BY <2>3 DEF Data, With
<1>7. Imports' = ToSet(operations) /\ Remaining' = ToSet(operations)
  BY <1>1, <1>2, <1>3 DEF Imports, Remaining
<1>8. SourceKnown'
  BY <1>2, <1>3, <1>4, <1>5, <1>6, <1>7 DEF SourceKnown, Plain
<1>9. \A p, q \in ToSet(operations) : p.name = q.name => p = q
  BY <1>3, SortedNames
<1>10. \A p \in ToSet(operations) : p.fused = << >> /\ Parts(p) = {p.name}
  BY <1>4, EmptyList DEF Parts, Plain
<1>11. Told(Remaining', ImportNames', Spared')
  <2>1. ImportNames' = {s.name : s \in ToSet(operations)}
    BY <1>7 DEF ImportNames
  <2>2. \A p \in ToSet(operations) : /\ p.name \notin ToSet(p.fused)
                                     /\ \A i, j \in DOMAIN p.fused : p.fused[i] = p.fused[j] => i = j
    BY <1>10, EmptyList
  <2>3. \A p, q \in ToSet(operations) : \A n : n \in Parts(p) /\ n \in Parts(q) => p = q
    BY <1>9, <1>10
  <2>4. \A n \in ImportNames' : \E p \in ToSet(operations) : n \in Parts(p)
    BY <1>10, <2>1
  <2>5. QED
    BY <1>7, <2>2, <2>3, <2>4 DEF Told
<1>12. ASSUME NEW p \in ToSet(operations) PROVE Traced(p, ToSet(operations), tensors)
  <2>1. Parts(p) = {p.name} /\ Plain(p, tensors)
    BY <1>4, <1>10
  <2>2. \E s \in ToSet(operations) : s.name \in Parts(p) /\ s.output = p.output
    BY <2>1
  <2>3. ASSUME NEW s \in ToSet(operations), s.name \in Parts(p), NEW i \in DOMAIN s.inputs
        PROVE  Reached(s.inputs[i], p, ToSet(operations))
    <3>1. s = p
      BY <1>9, <2>1, <2>3
    <3>2. QED
      BY <3>1 DEF Reached
  <2>4. QED
    BY <2>1, <2>2, <2>3 DEF Traced, Plain, NoImage
<1>13. AllTraced'
  BY <1>2, <1>7, <1>12 DEF AllTraced
<1>14. SameRoles(source.tensors, tensors)'
  BY <1>1, <1>2 DEF SameRoles
<1>15. QED
  BY <1>1, <1>8, <1>11, <1>13, <1>14 DEF Lineage

-----------------------------------------------------------------------------
(* What some of the operations compute does not depend on the others when  *)
(* they get all their operands from one another.                           *)
Closed(N, tens) ==
  \A o \in N : \A i \in DOMAIN o.inputs : Supplied(N, tens, o.inputs[i], o.name)

LEMMA ClosedValues ==
  ASSUME NEW ops, IsList(ops), Sorted(ops), NEW tens, AllFit(ops, tens),
         \A t \in DOMAIN tens : TypedTensor(tens[t]),
         NEW N \in SUBSET Active(ops, {}), Closed(N, tens),
         \A o \in Active(ops, {}) : ~Given(tens, o.output),
         \A o, p \in Active(ops, {}) : o.output = p.output => o = p
  PROVE  \A t \in DOMAIN tens :
           Given(tens, t) \/ (\E p \in N : p.output = t) => IsValue(Values(ops, tens)[t])
<1> DEFINE A == Active(ops, {})
           top == Len(ops)
<1>1. top \in Nat /\ DOMAIN ops = 1 .. top /\ \A n \in 1 .. top : ops[n] \in ToSet(ops)
  BY ListFacts
<1>2. PICK F : IsExecution(F, ops, tens) /\ Values(ops, tens) = F[top]
  BY <1>1, ExecutionExists
<1>3. A = {o \in ToSet(ops) : o.type # "Constant"} /\ N \subseteq A
  BY DEF Active
<1>3a. \A o \in A : \A p \in N : o.output = p.output => o = p
  BY <1>3
<1>3b. \A o \in A : ~Given(tens, o.output)
  OBVIOUS
<1> HIDE DEF A
<1> DEFINE Good(n) ==
      /\ DOMAIN F[n] = DOMAIN tens
      /\ \A t \in DOMAIN tens : Given(tens, t) => IsValue(F[n][t])
      /\ \A k \in 1 .. n : ops[k] \in N => IsValue(F[n][ops[k].output])
    P == {n \in 0 .. top : Good(n)}
<1>4. 0 \in P
  <2>1. F[0] = [t \in DOMAIN tens |-> tens[t].value]
    BY <1>1, <1>2 DEF IsExecution
  <2>2. Good(0)
    BY <2>1 DEF Given, TypedTensor
  <2>3. QED
    BY <1>1, <2>2
<1>5. ASSUME NEW n \in 0 .. top - 1, n \in P PROVE n + 1 \in P
  <2>1. n + 1 \in 1 .. top /\ n + 1 \in 0 .. top /\ (n + 1) - 1 = n /\ n + 1 # 0
    BY <1>1
  <2> DEFINE o == ops[n + 1]
  <2>2. F[n + 1] = Executed(F[n], o)
    BY <1>2, <2>1 DEF IsExecution
  <2>3. Good(n)
    BY <1>5
  <2>4. o \in ToSet(ops) /\ Fits(o, tens)
    BY <1>1, <2>1 DEF AllFit
  <2>5. \A k \in 1 .. n + 1 : k \in 1 .. n \/ k = n + 1
    BY <2>1
  <2>6. CASE o.type = "Constant"
    <3>1. F[n + 1] = F[n] /\ o \notin N
      BY <1>3, <2>2, <2>6 DEF Executed
    <3>2. Good(n + 1)
      BY <2>3, <2>5, <3>1
    <3>3. QED
      BY <2>1, <3>2
  <2>7. CASE o.type # "Constant"
    <3>1. o \in A
      BY <1>3, <2>4, <2>7
    <3> DEFINE args == [i \in DOMAIN o.inputs |-> Found(F[n], o.inputs[i])]
    <3>2. F[n + 1] = [F[n] EXCEPT ![o.output] = Result(o, args)]
      BY <2>2, <2>7 DEF Executed
    <3>3. ASSUME o \in N, NEW i \in DOMAIN o.inputs
          PROVE  IsValue(Found(F[n], o.inputs[i]))
      <4> DEFINE t == o.inputs[i]
      <4>1. t \in DOMAIN tens
        BY <2>4 DEF Fits
      <4>2. Supplied(N, tens, t, o.name)
        BY <3>3 DEF Closed
      <4>3. IsValue(F[n][t])
        <5>1. CASE Given(tens, t)
          BY <2>3, <4>1, <5>1
        <5>2. CASE \E p \in N : p.output = t /\ p.name < o.name
          <6>1. PICK p \in N : p.output = t /\ p.name < o.name
            BY <5>2
          <6>2. PICK k \in 1 .. top : p = ops[k]
            BY <1>1, <1>3, <6>1, ListFacts
          <6>3. k < n + 1
            BY <1>1, <2>1, <6>1, <6>2, SortedNames
          <6>4. k \in 1 .. n
            BY <2>1, <6>2, <6>3
          <6>5. QED
            BY <2>3, <6>1, <6>2, <6>4
        <5>3. QED
          BY <4>2, <5>1, <5>2 DEF Supplied
      <4>4. Found(F[n], t) = F[n][t]
        BY <2>3, <4>1 DEF Found
      <4>5. QED
        BY <4>3, <4>4
    <3>4. ASSUME o \in N PROVE IsValue(Result(o, args))
      <4>1. DOMAIN args = DOMAIN o.inputs /\ \A i \in DOMAIN args : IsValue(args[i])
        BY <3>3, <3>4
      <4> HIDE DEF args
      <4>2. \A i \in DOMAIN args : args[i] # Undefined
        BY <4>1 DEF IsValue, Undefined
      <4>3. Result(o, args) = Computed(o, args)
        BY <4>2 DEF Result
      <4>4. o.type \in (NodeTypes \cup {"View"}) \ {"Constant"}
        BY <2>4, <2>7 DEF Fits, Arity
      <4>5. /\ o.type \in {"Add", "BatchNormalization"} => IsValue(args[1])
            /\ o.type = "Add" => IsValue(args[2])
        BY <2>4, <4>1, InputPlaces DEF Fits
      <4>6. QED
        BY <4>3, <4>4, <4>5, ComputedValue
    <3> HIDE DEF args
    <3>5. o.output \in DOMAIN tens
      BY <2>4 DEF Fits
    <3>6. /\ DOMAIN F[n + 1] = DOMAIN tens /\ F[n + 1][o.output] = Result(o, args)
          /\ \A t \in DOMAIN tens : t # o.output => F[n + 1][t] = F[n][t]
      BY <2>3, <3>2, <3>5
    <3>7. \A t \in DOMAIN tens : Given(tens, t) => IsValue(F[n + 1][t])
      BY <1>3b, <2>3, <3>1, <3>6
    <3>8. ASSUME NEW k \in 1 .. n + 1, ops[k] \in N PROVE IsValue(F[n + 1][ops[k].output])
      <4>1. CASE ops[k].output = o.output
        <5>1. ops[k] = o
          BY <1>3a, <3>1, <3>8, <4>1
        <5>2. QED
          BY <3>4, <3>6, <3>8, <4>1, <5>1
      <4>2. CASE ops[k].output # o.output
        <5>1. k \in 1 .. n
          BY <2>5, <4>2
        <5>2. ops[k].output \in DOMAIN tens
          BY <1>3, <3>8 DEF AllFit, Fits
        <5>3. QED
          BY <2>3, <3>6, <3>8, <4>2, <5>1, <5>2
      <4>3. QED
        BY <4>1, <4>2
    <3>9. Good(n + 1)
      BY <3>6, <3>7, <3>8
    <3>10. QED
      BY <2>1, <3>9
  <2>8. QED
    BY <2>6, <2>7
<1>6. Good(top)
  <2> HIDE DEF Good
  <2>1. \A n \in 0 .. top : n \in P
    <3> HIDE DEF P
    <3>1. QED
      BY <1>1, <1>4, <1>5, CountUp
  <2>2. QED
    BY <1>1, <2>1
<1>7. ASSUME NEW t \in DOMAIN tens, Given(tens, t) \/ \E p \in N : p.output = t
      PROVE  IsValue(F[top][t])
  <2>1. CASE Given(tens, t)
    BY <1>6, <2>1
  <2>2. CASE \E p \in N : p.output = t
    <3>1. PICK p \in N : p.output = t
      BY <2>2
    <3>2. PICK k \in 1 .. top : p = ops[k]
      BY <1>1, <1>3, ListFacts
    <3>3. QED
      BY <1>6, <3>1, <3>2
  <2>3. QED
    BY <1>7, <2>1, <2>2
<1>8. QED
  BY <1>2, <1>7

(* What is left alone by a set of operations that feeds the outputs is not *)
(* needed.                                                                 *)
LEMMA DeadWithout ==
  ASSUME SourceKnown, NEW N \in SUBSET Active(source.operations, {}), Closed(N, source.tensors),
         \A t \in outputs : Given(source.tensors, t) \/ \E p \in N : p.output = t,
         NEW s \in Imports, s \notin N
  PROVE  Dead(s)
<1> DEFINE src == source.operations
           st  == source.tensors
           ops == Without(src, {s.name})
<1>1. /\ IsList(src) /\ Sorted(src) /\ AllFit(src, st) /\ Sound(Active(src, {}), st, outputs)
  BY DEF SourceKnown
<1>2. /\ IsList(ops) /\ Sorted(ops)
      /\ ToSet(ops) = {o \in ToSet(src) : o.name \notin {s.name}}
  BY <1>1, WithoutList
<1>3. AllFit(ops, st)
  BY <1>1, <1>2 DEF AllFit
<1>4. Active(ops, {}) \subseteq Active(src, {})
  BY <1>2 DEF Active
<1>5. N \subseteq Active(ops, {})
  <2>1. ASSUME NEW p \in N PROVE p.name # s.name
    <3>1. p \in ToSet(src) /\ s \in ToSet(src)
      BY DEF Active, Imports
    <3>2. QED
      BY <1>1, <3>1, SortedNames
  <2>2. QED
    BY <1>2, <2>1 DEF Active
<1>6. /\ \A t \in DOMAIN st : TypedTensor(st[t])
      /\ \A o \in Active(src, {}) : ~Given(st, o.output)
      /\ \A o, p \in Active(src, {}) : o.output = p.output => o = p
  BY <1>1 DEF Sound, Ordered
<1> HIDE DEF ops
<1>7. \A t \in DOMAIN st :
        Given(st, t) \/ (\E p \in N : p.output = t) => IsValue(Values(ops, st)[t])
  <2>1. /\ \A o \in Active(ops, {}) : ~Given(st, o.output)
        /\ \A o, p \in Active(ops, {}) : o.output = p.output => o = p
    BY <1>4, <1>6
  <2>2. QED
    BY <1>2, <1>3, <1>5, <1>6, <2>1, ClosedValues
<1>8. ASSUME NEW t \in outputs PROVE Values(ops, st)[t] # Undefined
  <2>1. t \in DOMAIN st
    BY <1>1 DEF Sound, Ordered, Known
  <2>2. QED
    BY <1>7, <2>1 DEF IsValue, Undefined
<1>9. QED
  BY <1>8 DEF Dead, ops

(* What elimination keeps gets its operands from what it keeps.            *)
KeepsOperands(kept) ==
  /\ kept \subseteq ToSet(operations)
  /\ \A q \in kept : \A i \in DOMAIN q.inputs : \A p \in ToSet(operations) :
       p.output = q.inputs[i] /\ p.name < q.name => p \in kept
  /\ \A p \in ToSet(operations) : p.output \in outputs => p \in kept

LEMMA EliminationKeeps ==
  ASSUME WellBuilt, EliminateDeadCode PROVE KeepsOperands(ToSet(operations'))
<1> DEFINE live == Live(operations, outputs)
           F == LiveAfter(operations, outputs)
<1>1. operations' = Keep(operations, live.operations)
  BY DEF EliminateDeadCode
<1>2. IsList(operations) /\ Sorted(operations)
  BY DEF WellBuilt
<1>3. ToSet(operations') = {o \in ToSet(operations) : o.name \in live.operations}
  <2> HIDE DEF live
  <2>1. QED
    BY <1>1, <1>2, KeepList
<1> HIDE DEF live
<1>4. \A o \in ToSet(operations) : o.name \in live.operations <=>
         \E n \in DOMAIN operations : o = operations[n] /\ operations[n].output \in F[n]
  BY <1>2, KeptLive DEF live
<1>5. ASSUME NEW q \in ToSet(operations'), NEW i \in DOMAIN q.inputs, NEW p \in ToSet(operations),
             p.output = q.inputs[i], p.name < q.name
      PROVE  p \in ToSet(operations')
  <2>1. q \in ToSet(operations) /\ q.name \in live.operations
    BY <1>3
  <2>2. PICK n \in DOMAIN operations : q = operations[n] /\ operations[n].output \in F[n]
    BY <1>4, <2>1
  <2>3. PICK k \in DOMAIN operations : p = operations[k]
    BY <1>2, ListFacts
  <2>4. k < n
    BY <1>2, <1>5, <2>2, <2>3, SortedNames
  <2>5. q.inputs[i] \in F[k]
    BY <1>2, <2>2, <2>4, LiveFacts
  <2>6. p.name \in live.operations
    BY <1>4, <1>5, <2>3, <2>5
  <2>7. QED
    BY <1>3, <2>6
<1>6. ASSUME NEW p \in ToSet(operations), p.output \in outputs PROVE p \in ToSet(operations')
  <2>1. PICK k \in DOMAIN operations : p = operations[k]
    BY <1>2, ListFacts
  <2>2. p.output \in F[k]
    BY <1>2, <1>6, <2>1, LiveFacts
  <2>3. QED
    BY <1>3, <1>4, <2>1, <2>2
<1>7. QED
  BY <1>3, <1>5, <1>6 DEF KeepsOperands

(* The imported operations that are sums of constants or parts of what is  *)
(* kept.                                                                   *)
Needed(kept) ==
  {s \in Active(source.operations, {}) :
     source.tensors[s.output].role = "vector" \/ \E p \in kept : s.name \in Parts(p)}

LEMMA ImportedRole ==
  ASSUME SourceKnown, NEW s \in Active(source.operations, {})
  PROVE  /\ source.tensors[s.output].role \in {"data", "vector"}
         /\ source.tensors[s.output].role = "vector" =>
              \A i \in DOMAIN s.inputs : source.tensors[s.inputs[i]].role = "vector"
<1>1. Fits(s, source.tensors) /\ TypedOperation(s, source.tensors) /\ s.type # "Constant"
  BY DEF SourceKnown, AllFit, Sound, Active
<1>2. s.type \in NodeTypes \cup {"View"}
  BY <1>1 DEF Fits, Arity
<1>3. CASE s.type = "Add"
  <2>1. DOMAIN s.inputs = {1, 2}
    BY <1>1, <1>3, InputPlaces DEF Fits
  <2>2. QED
    BY <1>1, <1>3, <2>1 DEF TypedOperation
<1>4. CASE s.type # "Add"
  BY <1>1, <1>2, <1>4 DEF TypedOperation, NodeTypes
<1>5. QED
  BY <1>3, <1>4

(* An image that an operation before elimination reads or that is an       *)
(* output comes from outside or from a part of another one.                *)
LEMMA ImageOrigin ==
  ASSUME WellBuilt, Meaningful, SourceKnown, AllTraced, SameRoles(source.tensors, tensors),
         dropped = {}, NEW t \in DOMAIN source.tensors, source.tensors[t].role = "data",
         NEW n, Supplied(Active(operations, {}), tensors, t, n)
  PROVE  \/ Given(source.tensors, t)
         \/ \E q \in ToSet(operations) : /\ q.output = t /\ q.name < n
                                         /\ \E r \in Active(source.operations, {}) :
                                              r.name \in Parts(q) /\ r.output = t
<1>1. Sound(Active(operations, {}), tensors, outputs)
  BY DEF Meaningful, Solved
<1>2. CASE Given(tensors, t)
  <2>1. tensors[t].role = "data" /\ t \in DOMAIN tensors
    BY DEF SameRoles
  <2>2. t \in Inputs
    BY <1>1, <1>2, <2>1 DEF Sound, Fed
  <2>3. QED
    BY <2>2 DEF SourceKnown, Sound, Fed
<1>3. CASE \E q \in Active(operations, {}) : q.output = t /\ q.name < n
  <2>1. PICK q \in Active(operations, {}) : q.output = t /\ q.name < n
    BY <1>3
  <2>2. q \in ToSet(operations) /\ q \in Remaining
    BY DEF Active, Remaining
  <2>3. PICK r \in Imports : r.name \in Parts(q) /\ r.output = t
    BY <2>1, <2>2 DEF AllTraced, Traced
  <2>4. r.type # "Constant"
    BY <2>3 DEF SourceKnown
  <2>5. r \in Active(source.operations, {})
    BY <2>4 DEF Active, Imports
  <2>6. QED
    BY <2>1, <2>2, <2>3, <2>5
<1>4. QED
  BY <1>2, <1>3 DEF Supplied

LEMMA NeededClosed ==
  ASSUME WellBuilt, Meaningful, SourceKnown, AllTraced, SameRoles(source.tensors, tensors),
         dropped = {}, NEW kept, KeepsOperands(kept)
  PROVE  Closed(Needed(kept), source.tensors)
<1> DEFINE src == source.operations
           st  == source.tensors
           N   == Needed(kept)
<1>1. /\ AllFit(src, st) /\ Ordered(Active(src, {}), st, outputs)
  BY DEF SourceKnown, Sound
<1>2. \A r, s \in Active(src, {}) : r.output = s.output => r = s
  BY <1>1 DEF Ordered
<1>3. Sound(Active(operations, {}), tensors, outputs)
  BY DEF Meaningful, Solved
<1>4. ASSUME NEW s \in N, NEW i \in DOMAIN s.inputs PROVE Supplied(N, st, s.inputs[i], s.name)
  <2> DEFINE t == s.inputs[i]
  <2>1. s \in Active(src, {}) /\ s \in Imports
    BY DEF Needed, Active, Imports
  <2>2. t \in DOMAIN st
    BY <1>1, <2>1 DEF AllFit, Fits, Imports
  <2>3. Supplied(Active(src, {}), st, t, s.name)
    BY <1>1, <2>1 DEF Ordered
  <2>4. CASE Given(st, t)
    BY <2>4 DEF Supplied
  <2>5. CASE ~Given(st, t)
    <3>1. PICK r \in Active(src, {}) : r.output = t /\ r.name < s.name
      BY <2>3, <2>5 DEF Supplied
    <3>2. SUFFICES r \in N
      BY <3>1 DEF Supplied
    <3>3. CASE st[t].role = "vector"
      BY <3>1, <3>3 DEF Needed
    <3>4. CASE st[t].role = "data"
      <4>1. st[s.output].role # "vector"
        BY <2>1, <3>4, ImportedRole
      <4>2. PICK p \in kept : s.name \in Parts(p)
        BY <4>1 DEF Needed
      <4>3. p \in ToSet(operations) /\ p \in Remaining
        BY DEF KeepsOperands, Remaining
      <4>4. Reached(t, p, Imports)
        <5>1. Traced(p, Imports, st)
          BY <4>3 DEF AllTraced
        <5>2. QED
          BY <2>1, <3>4, <4>2, <5>1 DEF Traced
      <4>5. CASE \E r2 \in Imports : r2.name \in Parts(p) /\ r2.output = t
        <5>1. PICK r2 \in Imports : r2.name \in Parts(p) /\ r2.output = t
          BY <4>5
        <5>2. r2.type # "Constant"
          BY <3>4, <5>1 DEF SourceKnown
        <5>3. r2 \in Active(src, {})
          BY <5>2 DEF Active, Imports
        <5>4. r2 = r
          BY <1>2, <3>1, <5>1, <5>3
        <5>5. QED
          BY <5>1, <5>4 DEF Needed
      <4>6. CASE \E j \in DOMAIN p.inputs : p.inputs[j] = t
        <5>1. PICK j \in DOMAIN p.inputs : p.inputs[j] = t
          BY <4>6
        <5>2. p.type # "Constant"
          BY <4>3, <5>1, InputPlaces DEF WellBuilt, AllFit, Fits
        <5>3. p \in Active(operations, {})
          BY <4>3, <5>2 DEF Active
        <5>4. Supplied(Active(operations, {}), tensors, t, p.name)
          BY <1>3, <5>1, <5>3 DEF Sound, Ordered
        <5>5. PICK q \in ToSet(operations) :
                 /\ q.output = t /\ q.name < p.name
                 /\ \E r2 \in Active(src, {}) : r2.name \in Parts(q) /\ r2.output = t
          BY <2>2, <2>5, <3>4, <5>4, ImageOrigin
        <5>6. q \in kept
          BY <5>1, <5>5 DEF KeepsOperands
        <5>7. QED
          BY <1>2, <3>1, <5>5, <5>6 DEF Needed
      <4>7. QED
        BY <4>4, <4>5, <4>6 DEF Reached
    <3>5. QED
      BY <3>1, <3>3, <3>4, ImportedRole
  <2>6. QED
    BY <2>4, <2>5
<1>5. QED
  BY <1>4 DEF Closed

LEMMA NeededOutputs ==
  ASSUME WellBuilt, Meaningful, SourceKnown, AllTraced, SameRoles(source.tensors, tensors),
         dropped = {}, NEW kept, KeepsOperands(kept), NEW t \in outputs
  PROVE  Given(source.tensors, t) \/ \E r \in Needed(kept) : r.output = t
<1>1. Sound(Active(operations, {}), tensors, outputs)
  BY DEF Meaningful, Solved
<1>2. t \in DOMAIN source.tensors /\ source.tensors[t].role = "data"
  BY DEF SourceKnown, Sound, Ordered, Known
<1>3. t \in DOMAIN tensors /\ tensors[t].role = "data"
  BY <1>2 DEF SameRoles
<1>4. CASE Given(tensors, t)
  <2>1. t \in Inputs
    BY <1>1, <1>3, <1>4 DEF Sound, Fed
  <2>2. QED
    BY <2>1 DEF SourceKnown, Sound, Fed
<1>5. CASE ~Given(tensors, t)
  <2>1. PICK q \in Active(operations, {}) : q.output = t
    BY <1>1, <1>5 DEF Sound, Ordered, Known
  <2>2. q \in ToSet(operations) /\ q \in Remaining
    BY DEF Active, Remaining
  <2>3. q \in kept
    BY <2>1, <2>2 DEF KeepsOperands
  <2>4. PICK r \in Imports : r.name \in Parts(q) /\ r.output = t
    BY <2>1, <2>2 DEF AllTraced, Traced
  <2>5. r.type # "Constant"
    BY <1>2, <2>4 DEF SourceKnown
  <2>6. r \in Needed(kept)
    BY <2>3, <2>4, <2>5 DEF Needed, Active, Imports
  <2>7. QED
    BY <2>4, <2>6
<1>6. QED
  BY <1>4, <1>5

LEMMA EliminateLineage ==
  ASSUME WellBuilt, Meaningful, Lineage, EliminateDeadCode PROVE Lineage'
<1>1. /\ Running("eliminate_dead_code") /\ pass' = pass + 1 /\ dropped' = dropped
      /\ UNCHANGED << outputs, source >>
  BY DEF EliminateDeadCode, NextPass
<1>2. pass = 5 /\ dropped = {}
  BY <1>1, RunningPass DEF WellBuilt
<1>3. pass \in 1 .. 5
  BY <1>2
<1>4. /\ SourceKnown /\ Told(Remaining, ImportNames, Spared)
      /\ AllTraced /\ SameRoles(source.tensors, tensors)
  BY <1>3 DEF Lineage
<1>5. Remaining = ToSet(operations) /\ Remaining' = ToSet(operations')
  BY <1>1, <1>2 DEF Remaining
<1>6. PICK kept : kept = ToSet(operations')
  OBVIOUS
<1>7. KeepsOperands(kept)
  BY <1>6, EliminationKeeps
<1>8. kept \subseteq Remaining
  BY <1>5, <1>7 DEF KeepsOperands
<1>9. ASSUME NEW p \in Remaining, p \notin kept, NEW n \in ImportNames, n \in Parts(p)
      PROVE  n \in Spared
  <2>1. PICK s \in Imports : s.name = n
    BY DEF ImportNames
  <2>2. CASE source.tensors[s.output].role = "vector"
    BY <2>1, <2>2 DEF Spared
  <2>3. CASE source.tensors[s.output].role # "vector"
    <3>1. s \notin Needed(kept)
      <4>1. \A q \in kept : s.name \notin Parts(q)
        BY <1>4, <1>8, <1>9, <2>1 DEF Told
      <4>2. QED
        BY <2>3, <4>1 DEF Needed
    <3>2. Closed(Needed(kept), source.tensors)
      BY <1>2, <1>4, <1>7, NeededClosed
    <3>3. \A t \in outputs : Given(source.tensors, t) \/ \E r \in Needed(kept) : r.output = t
      BY <1>2, <1>4, <1>7, NeededOutputs
    <3>4. Needed(kept) \in SUBSET Active(source.operations, {})
      BY DEF Needed
    <3>5. Dead(s)
      BY <1>4, <3>1, <3>2, <3>3, <3>4, DeadWithout
    <3>6. QED
      BY <2>1, <3>5 DEF Spared
  <2>4. QED
    BY <2>2, <2>3
<1>10. Told(kept, ImportNames, Spared)
  BY <1>4, <1>8, <1>9, FewerTold
<1>11. pass > 0 /\ pass' \in 6 .. 7
  BY <1>1, <1>2
<1>12. QED
  BY <1>1, <1>5, <1>6, <1>10, <1>11, LateLineage

-----------------------------------------------------------------------------
LEMMA NextLineage ==
  ASSUME WellBuilt, Meaningful, Lineage, Next PROVE Lineage'
<1>1. CASE ImportNode
  BY <1>1, ImportNodeLineage
<1>2. CASE FinishImport
  BY <1>2, FinishImportLineage
<1>3. ASSUME NEW o \in ToSet(operations), Visit(o) PROVE Lineage'
  <2>1. CASE DropConstant(o) \/ FoldAdd(o)
    BY <2>1, DroppedLineage
  <2>2. CASE FoldNormalization(o)
    BY <2>2, NormalizationLineage
  <2>3. CASE FuseConvolution(o)
    BY <2>3, FuseLineage
  <2>4. CASE Canonicalize(o)
    BY <2>4, CanonicalizeLineage
  <2>5. CASE Assign(o)
    BY <2>5, AssignLineage
  <2>6. CASE Skip(o)
    BY <2>6, SkipLineage
  <2>7. QED
    BY <1>3, <2>1, <2>2, <2>3, <2>4, <2>5, <2>6 DEF Visit
<1>4. CASE EliminateDeadCode
  BY <1>4, EliminateLineage
<1>5. CASE EndPass
  BY <1>5, EndPassLineage
<1>6. QED
  BY <1>1, <1>2, <1>3, <1>4, <1>5 DEF Next

LEMMA SameLineage ==
  ASSUME Lineage, UNCHANGED vars PROVE Lineage'
<1>1. UNCHANGED << operations, tensors, outputs, pass, dropped, source >>
  BY DEF vars
<1>2. Remaining' = Remaining
  BY <1>1 DEF Remaining
<1>3. Imports' = Imports /\ ImportNames' = ImportNames /\ Spared' = Spared
  BY <1>1, SameSource
<1>4. pass > 0 => (SourceKnown /\ Told(Remaining, ImportNames, Spared))'
  <2>1. pass > 0 => SourceKnown'
    BY <1>1, SameSource DEF Lineage
  <2>2. QED
    BY <1>2, <1>3, <2>1 DEF Lineage
<1>5. pass \in 1 .. 5 => AllTraced' /\ SameRoles(source.tensors, tensors)'
  <2>1. pass \in 1 .. 5 => AllTraced'
    BY <1>1, <1>2, <1>3 DEF Lineage, AllTraced
  <2>2. QED
    BY <1>1, <2>1 DEF Lineage
<1>6. (pass = 0 => \A o \in ToSet(operations) : Plain(o, tensors))'
  BY <1>1 DEF Lineage
<1>7. QED
  BY <1>1, <1>4, <1>5, <1>6 DEF Lineage

(* Where an operation is named: Origins, of given operations. *)
Places(R, n) ==
  {<< o.name, 0 >> : o \in {p \in R : p.name = n}}
    \cup UNION {{<< o.name, i >> : i \in {j \in DOMAIN o.fused : o.fused[j] = n}} : o \in R}

LEMMA ToldPlaces ==
  ASSUME NEW R, NEW all, NEW spared, Told(R, all, spared), NEW n \in all
  PROVE  Cardinality(Places(R, n)) = 1 \/ (Places(R, n) = {} /\ n \in spared)
<1>1. \A x \in Places(R, n) : \E o \in R :
         /\ n \in Parts(o)
         /\ \/ o.name = n /\ x = << o.name, 0 >>
            \/ \E i \in DOMAIN o.fused : o.fused[i] = n /\ x = << o.name, i >>
  BY DEF Places, Parts, ToSet
<1>2. CASE \E o \in R : n \in Parts(o)
  <2>1. PICK o \in R : n \in Parts(o)
    BY <1>2
  <2>2. \A q \in R : n \in Parts(q) => q = o
    BY <2>1 DEF Told
  <2>3. \E x : x \in Places(R, n)
    <3>1. CASE o.name = n
      BY <3>1 DEF Places
    <3>2. CASE o.name # n
      <4>1. PICK i \in DOMAIN o.fused : o.fused[i] = n
        BY <2>1, <3>2 DEF Parts, ToSet
      <4>2. PICK within : within = {<< o.name, k >> : k \in {j \in DOMAIN o.fused : o.fused[j] = n}}
        OBVIOUS
      <4>3. << o.name, i >> \in within
        BY <4>1, <4>2
      <4>4. within \subseteq Places(R, n)
        BY <4>2 DEF Places
      <4>5. QED
        BY <4>3, <4>4
    <3>3. QED
      BY <3>1, <3>2
  <2>4. PICK x : x \in Places(R, n)
    BY <2>3
  <2>5. ASSUME NEW y \in Places(R, n) PROVE y = x
    <3>1. /\ \/ o.name = n /\ x = << o.name, 0 >>
             \/ \E i \in DOMAIN o.fused : o.fused[i] = n /\ x = << o.name, i >>
          /\ \/ o.name = n /\ y = << o.name, 0 >>
             \/ \E i \in DOMAIN o.fused : o.fused[i] = n /\ y = << o.name, i >>
      BY <1>1, <2>2, <2>4
    <3>2. o.name \notin ToSet(o.fused)
      BY DEF Told
    <3>3. \A i \in DOMAIN o.fused : o.fused[i] # o.name
      BY <3>2 DEF ToSet
    <3>4. \A i, j \in DOMAIN o.fused : o.fused[i] = o.fused[j] => i = j
      BY DEF Told
    <3>5. QED
      BY <3>1, <3>3, <3>4
  <2>6. Places(R, n) = {x}
    BY <2>4, <2>5
  <2>7. QED
    BY <2>6, FS_Singleton
<1>3. CASE ~\E o \in R : n \in Parts(o)
  <2>1. Places(R, n) = {}
    BY <1>1, <1>3
  <2>2. n \in spared
    BY <1>3 DEF Told
  <2>3. QED
    BY <2>1, <2>2
<1>4. QED
  BY <1>2, <1>3

(* What the invariant says of an imported operation. *)
LEMMA SparedOperation ==
  ASSUME SourceKnown, NEW o \in Imports, o.name \in Spared
  PROVE  Dead(o) \/ source.tensors[o.output].role = "vector"
<1>1. PICK x \in Imports : x.name = o.name /\ (source.tensors[x.output].role = "vector" \/ Dead(x))
  BY DEF Spared
<1>2. x = o
  BY <1>1, SortedNames DEF SourceKnown, Imports
<1>3. QED
  BY <1>1, <1>2

LEMMA LineageTells ==
  ASSUME pass > 0 => SourceKnown /\ Told(Remaining, ImportNames, Spared)
  PROVE  LineageComplete
<1> SUFFICES ASSUME Settled, NEW o \in ToSet(source.operations)
             PROVE  \/ Cardinality(Origins(o.name)) = 1
                    \/ /\ Origins(o.name) = {}
                       /\ Dead(o) \/ source.tensors[o.output].role = "vector"
  BY DEF LineageComplete
<1>1. SourceKnown /\ Told(Remaining, ImportNames, Spared) /\ Remaining = ToSet(operations)
  BY DEF Settled, Remaining
<1>2. o.name \in ImportNames /\ o \in Imports
  BY DEF ImportNames, Imports
<1>3. Places(Remaining, o.name) = Origins(o.name)
  BY <1>1 DEF Places, Origins
<1>4. Cardinality(Origins(o.name)) = 1 \/ (Origins(o.name) = {} /\ o.name \in Spared)
  BY <1>1, <1>2, <1>3, ToldPlaces
<1>5. QED
  BY <1>1, <1>2, <1>4, SparedOperation

(* Quantization renames constants only. *)
LEMMA QuantizedPlaces ==
  ASSUME WellBuilt, Meaningful, Quantize, NEW n
  PROVE  Places(ToSet(operations'), n) = Places(ToSet(operations), n)
<1>1. PICK Q : Q = [o \in ToSet(operations) |-> QuantizedOperation(tensors, o)]
  OBVIOUS
<1>2. ToSet(operations') = {Q[o] : o \in ToSet(operations)}
  BY <1>1, QuantizedOperations
<1>3. \A o \in ToSet(operations) : Q[o].name = o.name /\ Q[o].fused = o.fused
  BY <1>1, QuantizedFields DEF SameRole
<1>4. QED
  BY <1>2, <1>3 DEF Places

LEMMA QuantizedLineage ==
  ASSUME WellBuilt, Meaningful, LineageComplete, Quantize
  PROVE  LineageComplete'
<1>1. UNCHANGED << source, outputs, pass, dropped, refused >>
  BY DEF Quantize
<1>2. \A n : Origins(n)' = Origins(n)
  BY QuantizedPlaces DEF Places, Origins
<1>3. \A o : Dead(o)' = Dead(o)
  BY <1>1 DEF Dead
<1>4. Settled' = Settled
  BY <1>1 DEF Settled
<1>5. QED
  BY <1>1, <1>2, <1>3, <1>4 DEF LineageComplete

Traceable ==
  IF stage = "passes" THEN WellBuilt /\ Meaningful /\ Lineage ELSE LineageComplete

(* However initializers are shared and whatever is folded, fused, dropped  *)
(* or quantized, each imported operation is named exactly once by the      *)
(* operations that are left (name and fused_operations, by which the       *)
(* simulator and the trace tools know them), or it was a constant or a sum *)
(* of constants, or no output needs it (the passes of optimize_graph,      *)
(* then _quantize_graph).                                                  *)
THEOREM LineageStaysComplete == DeploymentSpec => []LineageComplete
<1>1. DeploymentInit => Traceable
  BY InitWellBuilt, InitMeaningful, InitLineage DEF DeploymentInit, Traceable
<1>2. Traceable => LineageComplete
  BY LineageTells DEF Traceable, Lineage
<1>3. Traceable /\ [DeploymentNext]_<< vars, deployment >> => Traceable'
  <2> SUFFICES ASSUME Traceable, [DeploymentNext]_<< vars, deployment >> PROVE Traceable'
    OBVIOUS
  <2>1. CASE Optimize
    <3>1. WellBuilt /\ Meaningful /\ Lineage /\ Next /\ stage' = "passes"
      BY <2>1 DEF Optimize, Traceable, deployment
    <3>2. WellBuilt' /\ Meaningful' /\ Lineage'
      BY <3>1, NextWellBuilt, NextMeaningful, NextLineage
    <3>3. QED
      BY <3>1, <3>2 DEF Traceable
  <2>2. CASE Quantize
    <3>1. WellBuilt /\ Meaningful /\ LineageComplete /\ stage' = "plan"
      BY <1>2, <2>2 DEF Quantize, Optimized, Traceable
    <3>2. QED
      BY <2>2, <3>1, QuantizedLineage DEF Traceable
  <2>3. ASSUME UNCHANGED vars, stage' # "passes" PROVE Traceable'
    <3>1. LineageComplete
      BY <1>2
    <3>2. UNCHANGED << operations, source, outputs, pass, dropped, refused >>
      BY <2>3 DEF vars
    <3>3. LineageComplete'
      BY <3>1, <3>2 DEF LineageComplete, Settled, Origins, Dead
    <3>4. QED
      BY <2>3, <3>3 DEF Traceable
  <2>4. CASE RefuseToQuantize
    BY <2>3, <2>4 DEF RefuseToQuantize
  <2>5. CASE Allocate \/ BuildAndLoad
    <3>1. stage' # "passes" /\ UNCHANGED vars
      BY <2>5 DEF Allocate, BuildAndLoad, vars
    <3>2. QED
      BY <2>3, <3>1
  <2>6. ASSUME NEW o, RunConvolution(o) \/ RunFallback(o) PROVE Traceable'
    <3>1. UNCHANGED vars /\ stage' # "passes"
      BY <2>6 DEF RunConvolution, RunFallback, TimeOut, Finish
    <3>2. QED
      BY <2>3, <3>1
  <2>7. CASE UNCHANGED << vars, deployment >>
    <3>1. CASE stage = "passes"
      <4>1. WellBuilt' /\ Meaningful' /\ Lineage'
        BY <2>7, <3>1, SameMeaning, SameLineage DEF Traceable
      <4>2. QED
        BY <2>7, <3>1, <4>1 DEF Traceable, deployment
    <3>2. CASE stage # "passes"
      BY <2>3, <2>7, <3>2 DEF deployment
    <3>3. QED
      BY <3>1, <3>2
  <2>8. QED
    BY <2>1, <2>2, <2>4, <2>5, <2>6, <2>7 DEF DeploymentNext
<1>4. QED
  BY <1>1, <1>2, <1>3, PTL DEF DeploymentSpec
=============================================================================
