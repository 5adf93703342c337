------------------------------ MODULE ToolProofs -----------------------------
(***************************************************************************)
(* Two tools around a failure: the deployment directory, for every model   *)
(* and every content of its files; what is packed into them and read       *)
(* again, for every quantized graph and every alignment; and the search    *)
(* for a smaller input, for every number of values, every budget and every *)
(* deterministic oracle.                                                   *)
(***************************************************************************)
EXTENDS BundlePackage, Minimizer, SequenceTheorems, FiniteSetTheorems, WellFoundedInduction,
  TLAPS

Paths == Files \cup {"manifest.json"}

(* While a build runs there is no manifest, not even one of an older       *)
(* build; so whoever has found the directory in order looks at files that  *)
(* nobody is writing.                                                      *)
BundleInv ==
  /\ building \in Models \cup {Nothing}
  /\ written \in Nat
  /\ DOMAIN disk \subseteq Paths
  /\ disk = [f \in DOMAIN disk |-> disk[f]]
  /\ "manifest.json" \in DOMAIN disk =>
       \/ disk["manifest.json"] = Damaged
       \/ \E m \in Models : disk["manifest.json"] = Manifest(m)
  /\ building # Nothing => "manifest.json" \notin DOMAIN disk
  /\ checked \in BOOLEAN
  /\ checked => Whole
-----------------------------------------------------------------------------
(* The next file to be written is one of the files, not the manifest.      *)
LEMMA NextFile ==
  ASSUME NEW n \in Nat, n < Len(FileOrder)
  PROVE  FileOrder[n + 1] \in Files /\ FileOrder[n + 1] # "manifest.json"
<1>1. FileOrder \in Seq(STRING)
  BY BundleAssumption DEF BundleAssumption
<1>2. n + 1 \in DOMAIN FileOrder
  BY <1>1, LenProperties
<1>3. FileOrder[n + 1] \in Files
  BY <1>2 DEF Files
<1>. QED  BY <1>3, BundleAssumption DEF BundleAssumption

(* Storing a file changes the directory at this file alone. *)
LEMMA StoredFacts ==
  ASSUME NEW file, NEW content, disk' = Stored(file, content)
  PROVE  /\ DOMAIN disk' = DOMAIN disk \cup {file}
         /\ disk'[file] = content
         /\ \A f \in DOMAIN disk : f # file => disk'[f] = disk[f]
         /\ disk' = [f \in DOMAIN disk' |-> disk'[f]]
  BY DEF Stored

(* A whole bundle has every file and the manifest of one model.            *)
LEMMA ImageFacts ==
  ASSUME NEW m \in Models
  PROVE  /\ DOMAIN Image(m) = Paths
         /\ Image(m)["manifest.json"] = Manifest(m)
         /\ Image(m)["manifest.json"] # Damaged
         /\ \A f \in Files : Image(m)[f] = Contents(f, m) /\ Image(m)[f] # Damaged
<1>1. "manifest.json" \notin Files
  BY BundleAssumption DEF BundleAssumption
<1>2. \A f \in Files : Contents(f, m) # Damaged
  BY BundleAssumption DEF BundleAssumption
<1>3. Manifest(m) # Damaged
  BY ManifestAssumption DEF ManifestAssumption
<1>. QED  BY <1>1, <1>2, <1>3 DEF Image, Paths

LEMMA WholeFacts ==
  ASSUME Whole
  PROVE  /\ DOMAIN disk = Paths
         /\ \A f \in Paths : disk[f] # Damaged
<1>1. PICK m \in Models : disk = Image(m)
  BY DEF Whole, Images
<1>. QED  BY <1>1, ImageFacts DEF Paths

(* validate_bundle accepts the whole bundles and nothing else: one digest  *)
(* of every file and a manifest that can be read are enough.               *)
LEMMA ValidIsWhole ==
  ASSUME BundleInv
  PROVE  Valid(disk) <=> Whole
<1>1. ASSUME Whole PROVE Valid(disk)
  <2>1. PICK m \in Models : disk = Image(m)
    BY <1>1 DEF Whole, Images
  <2>2. Manifest(m).digests = [f \in Files |-> Contents(f, m)]
    BY DEF Manifest
  <2>. QED  BY <2>1, <2>2, ImageFacts DEF Valid, Paths
<1>2. ASSUME Valid(disk) PROVE Whole
  <2>1. /\ "manifest.json" \in DOMAIN disk /\ disk["manifest.json"] # Damaged
        /\ \A f \in Files : f \in DOMAIN disk /\ disk[f] = disk["manifest.json"].digests[f]
    BY <1>2 DEF Valid
  <2>2. PICK m \in Models : disk["manifest.json"] = Manifest(m)
    BY <2>1 DEF BundleInv
  <2>3. Manifest(m).digests = [f \in Files |-> Contents(f, m)]
    BY DEF Manifest
  <2>4. DOMAIN disk = Paths
    BY <2>1 DEF BundleInv, Paths
  <2>5. \A f \in Paths : disk[f] = IF f \in Files THEN Contents(f, m) ELSE Manifest(m)
    BY <2>1, <2>2, <2>3 DEF Paths
  <2>6. disk = [f \in Paths |-> IF f \in Files THEN Contents(f, m) ELSE Manifest(m)]
    BY <2>4, <2>5 DEF BundleInv
  <2>7. disk = Image(m)
    BY <2>6 DEF Image, Paths
  <2>. QED  BY <2>7 DEF Whole, Images
<1>. QED  BY <1>1, <1>2
-----------------------------------------------------------------------------
LEMMA BundleInitInvariant == BundleInit => BundleInv
<1> SUFFICES ASSUME BundleInit PROVE BundleInv
  OBVIOUS
<1>1. DOMAIN disk = {} /\ disk = [f \in DOMAIN disk |-> disk[f]]
  BY DEF BundleInit, Empty
<1>. QED  BY <1>1 DEF BundleInit, BundleInv

LEMMA BeginKeeps ==
  ASSUME BundleInv, NEW m \in Models, BeginBuild(m)
  PROVE  BundleInv'
<1>1. disk = Empty /\ DOMAIN disk = {}
  BY DEF BeginBuild, Empty
<1>2. ~Whole
  BY <1>1, WholeFacts DEF Paths
<1>. QED  BY <1>1, <1>2 DEF BundleInv, BeginBuild, Whole

LEMMA WriteFileKeeps ==
  ASSUME BundleInv, WriteFile
  PROVE  BundleInv' /\ ~Whole
<1>1. "manifest.json" \notin DOMAIN disk /\ ~Whole
  BY WholeFacts DEF BundleInv, WriteFile, Paths
<1>2. FileOrder[written + 1] \in Files /\ FileOrder[written + 1] # "manifest.json"
  BY NextFile DEF BundleInv, WriteFile
<1>3. /\ DOMAIN disk' = DOMAIN disk \cup {FileOrder[written + 1]}
      /\ disk' = [f \in DOMAIN disk' |-> disk'[f]]
  BY StoredFacts DEF WriteFile
<1>. QED  BY <1>1, <1>2, <1>3 DEF BundleInv, WriteFile, Paths, Whole

LEMMA WriteManifestKeeps ==
  ASSUME BundleInv, WriteManifest
  PROVE  BundleInv' /\ ~Whole
<1>1. ~Whole
  BY WholeFacts DEF BundleInv, WriteManifest, Paths
<1>2. /\ DOMAIN disk' = DOMAIN disk \cup {"manifest.json"}
      /\ disk'["manifest.json"] = Manifest(building)
      /\ disk' = [f \in DOMAIN disk' |-> disk'[f]]
  BY StoredFacts DEF WriteManifest
<1>. QED  BY <1>1, <1>2 DEF BundleInv, WriteManifest, Paths, Whole

LEMMA CrashKeeps ==
  ASSUME BundleInv, Crash
  PROVE  BundleInv' /\ ~Whole
<1>1. "manifest.json" \notin DOMAIN disk /\ ~Whole
  BY WholeFacts DEF BundleInv, Crash, Paths
<1>2. CASE UNCHANGED disk
  BY <1>1, <1>2 DEF BundleInv, Crash, Whole
<1>3. CASE written < Len(FileOrder) /\ disk' = Stored(FileOrder[written + 1], Damaged)
  <2>1. FileOrder[written + 1] \in Files /\ FileOrder[written + 1] # "manifest.json"
    BY <1>3, NextFile DEF BundleInv
  <2>2. /\ DOMAIN disk' = DOMAIN disk \cup {FileOrder[written + 1]}
        /\ disk' = [f \in DOMAIN disk' |-> disk'[f]]
    BY <1>3, StoredFacts
  <2>. QED  BY <1>1, <2>1, <2>2 DEF BundleInv, Crash, Paths, Whole
<1>4. CASE written = Len(FileOrder) /\ disk' = Stored("manifest.json", Damaged)
  <2>1. /\ DOMAIN disk' = DOMAIN disk \cup {"manifest.json"}
        /\ disk'["manifest.json"] = Damaged
        /\ disk' = [f \in DOMAIN disk' |-> disk'[f]]
    BY <1>4, StoredFacts
  <2>. QED  BY <1>1, <2>1 DEF BundleInv, Crash, Paths, Whole
<1>. QED  BY <1>2, <1>3, <1>4 DEF Crash

LEMMA DamageKeeps ==
  ASSUME BundleInv, NEW f \in DOMAIN disk, Damage(f)
  PROVE  BundleInv' /\ ~Whole'
<1>1. /\ DOMAIN disk' = DOMAIN disk
      /\ disk'[f] = Damaged
      /\ \A g \in DOMAIN disk : g # f => disk'[g] = disk[g]
      /\ disk' = [g \in DOMAIN disk' |-> disk'[g]]
  <2>1. disk' = Stored(f, Damaged)
    BY DEF Damage
  <2>2. DOMAIN disk' = DOMAIN disk \cup {f}
    BY <2>1, StoredFacts
  <2>. QED  BY <2>1, <2>2, StoredFacts
<1>2. \A m \in Models : disk' # Image(m)
  BY <1>1, ImageFacts DEF Paths
<1>3. ~Whole'
  BY <1>2 DEF Whole, Images, Image, Manifest
<1>. QED  BY <1>1, <1>3 DEF BundleInv, Damage

LEMMA RemoveKeeps ==
  ASSUME BundleInv, NEW f \in DOMAIN disk, RemoveFile(f)
  PROVE  BundleInv' /\ ~Whole'
<1>1. /\ DOMAIN disk' = DOMAIN disk \ {f}
      /\ \A g \in DOMAIN disk' : disk'[g] = disk[g]
      /\ disk' = [g \in DOMAIN disk' |-> disk'[g]]
  BY DEF RemoveFile
<1>2. f \in Paths
  BY DEF BundleInv
<1>3. \A m \in Models : disk' # Image(m)
  BY <1>1, <1>2, ImageFacts
<1>4. ~Whole'
  BY <1>3 DEF Whole, Images, Image, Manifest
<1>. QED  BY <1>1, <1>4 DEF BundleInv, RemoveFile

LEMMA ValidateKeeps ==
  ASSUME BundleInv, Validate
  PROVE  BundleInv'
  BY ValidIsWhole DEF BundleInv, Validate, Whole

LEMMA ReadKeeps ==
  ASSUME BundleInv, Read
  PROVE  BundleInv'
  BY DEF BundleInv, Read, Whole

(* The invariant of a directory, however often it is built, torn, damaged  *)
(* or cleared: a manifest is that of one model or torn, there is none      *)
(* while a build runs, and what a reader has found in order is whole.      *)
THEOREM DirectoryInvariant == BundleSpec => []BundleInv
<1>1. BundleInv /\ [BundleNext]_bundleVars => BundleInv'
  <2> SUFFICES ASSUME BundleInv, [BundleNext]_bundleVars
               PROVE  BundleInv'
    OBVIOUS
  <2>1. CASE \E m \in Models : BeginBuild(m)
    BY <2>1, BeginKeeps
  <2>2. CASE WriteFile
    BY <2>2, WriteFileKeeps
  <2>3. CASE WriteManifest
    BY <2>3, WriteManifestKeeps
  <2>4. CASE Crash
    BY <2>4, CrashKeeps
  <2>5. CASE \E f \in DOMAIN disk : Damage(f) \/ RemoveFile(f)
    BY <2>5, DamageKeeps, RemoveKeeps
  <2>6. CASE Validate
    BY <2>6, ValidateKeeps
  <2>7. CASE Read
    BY <2>7, ReadKeeps
  <2>8. CASE UNCHANGED bundleVars
    BY <2>8 DEF bundleVars, BundleInv, Whole
  <2>. QED  BY <2>1, <2>2, <2>3, <2>4, <2>5, <2>6, <2>7, <2>8 DEF BundleNext
<1>. QED  BY <1>1, BundleInitInvariant, PTL DEF BundleSpec
-----------------------------------------------------------------------------
Published == IF Whole THEN disk ELSE Nothing

(* A directory that is not whole publishes nothing, so whatever is written *)
(* into it publishes one whole bundle or still nothing.                    *)
LEMMA WritingPublishes ==
  ASSUME ~Whole, opened' = opened
  PROVE  [Publication!Next]_<< Published, opened >>
<1>1. Published = Nothing
  BY DEF Published
<1>2. CASE Whole'
  <2>1. Published' = disk' /\ disk' \in Images
    BY <1>2 DEF Published, Whole, Images, Image, Manifest
  <2>. QED  BY <1>1, <2>1 DEF Publication!Next, Publication!Publish, Published
<1>3. CASE ~Whole'
  BY <1>1, <1>3 DEF Published
<1>. QED  BY <1>2, <1>3

(* Once a file is damaged or gone nothing is published. *)
LEMMA LosingWithdraws ==
  ASSUME ~Whole', opened' = opened
  PROVE  [Publication!Next]_<< Published, opened >>
  BY DEF Published, Publication!Next, Publication!Withdraw

(* Whenever the builder dies, whatever is damaged or removed, and whenever *)
(* a reader comes, it gets the whole bundle of one model or is refused:    *)
(* every step publishes a bundle, withdraws it, opens what is published,   *)
(* or is none of the reader's business.                                    *)
THEOREM Refinement == BundleSpec => ImplementsPublication
<1>1. BundleInit => Publication!Init
  <2>1. BundleInit => ~Whole
    <3> SUFFICES ASSUME BundleInit, Whole PROVE FALSE
      OBVIOUS
    <3>. QED  BY WholeFacts DEF BundleInit, Empty, Paths
  <2>. QED  BY <2>1 DEF BundleInit, Publication!Init
<1>2. BundleInv /\ [BundleNext]_bundleVars => [Publication!Next]_<< Published, opened >>
  <2> SUFFICES ASSUME BundleInv, [BundleNext]_bundleVars
               PROVE  [Publication!Next]_<< Published, opened >>
    OBVIOUS
  <2>1. CASE \E m \in Models : BeginBuild(m)
    BY <2>1 DEF BeginBuild, Published, Whole
  <2>2. CASE WriteFile \/ WriteManifest \/ Crash
    <3>1. ~Whole
      BY <2>2, WriteFileKeeps, WriteManifestKeeps, CrashKeeps
    <3>2. opened' = opened
      BY <2>2 DEF WriteFile, WriteManifest, Crash
    <3>. QED  BY <3>1, <3>2, WritingPublishes
  <2>3. CASE \E f \in DOMAIN disk : Damage(f) \/ RemoveFile(f)
    <3>1. ~Whole'
      BY <2>3, DamageKeeps, RemoveKeeps
    <3>2. opened' = opened
      BY <2>3 DEF Damage, RemoveFile
    <3>. QED  BY <3>1, <3>2, LosingWithdraws
  <2>4. CASE Validate
    BY <2>4, ValidIsWhole DEF Validate, Published, Whole, Publication!Next, Publication!Open
  <2>5. CASE Read
    BY <2>5 DEF BundleInv, Read, Published, Whole, Publication!Next, Publication!Open
  <2>6. CASE UNCHANGED bundleVars
    BY <2>6 DEF bundleVars, Published, Whole
  <2>. QED  BY <2>1, <2>2, <2>3, <2>4, <2>5, <2>6 DEF BundleNext
<1>. QED
  BY <1>1, <1>2, DirectoryInvariant, PTL
     DEF BundleSpec, ImplementsPublication, Publication!Spec, Published

-----------------------------------------------------------------------------
USE MinimizerAssumption DEF MinimizerAssumption

(* No chunk of the present pass may be removed; unknown once the budget    *)
(* is used up, since chunks are then skipped.                              *)
PassRefused ==
  phase = "remove" =>
    /\ granularity <= Cardinality(coordinates)
    /\ coordinates # {} => granularity >= 1
    /\ \/ evaluations >= limit
       \/ \A k \in 1 .. tried :
            Refused(Without(current, partition(coordinates, granularity, k)))

(* What the removals achieved, and how far the values are simplified.      *)
SearchDone ==
  phase \in {"simplify", "done"} =>
    /\ evaluations >= limit \/ Irreducible(settled)
    /\ \A c \in coordinates \ left : SimpleAt(c)
    /\ phase = "done" => left = {} \/ evaluations >= limit

Begin ==
  /\ phase = "start" => evaluations = 0 /\ tried = 0 /\ current = original
                        /\ answers = [x \in {} |-> NoFailure]
  /\ Reducing => signature \in Signatures

IInv ==
  /\ TypeOK
  /\ Begin
  /\ CurrentFails
  /\ SupportIsTracked
  /\ PassRefused
  /\ SearchDone
-----------------------------------------------------------------------------
(* Sets of coordinates are finite and no larger than there are values.     *)
LEMMA CoordinatesFinite ==
  ASSUME NEW S \in SUBSET Index
  PROVE  IsFiniteSet(S) /\ Cardinality(S) \in 0 .. N
<1>1. IsFiniteSet(Index) /\ Cardinality(Index) = N
  BY FS_Interval DEF Index
<1> QED BY <1>1, FS_Subset, FS_CardinalityType

LEMMA DivideBySelf ==
  ASSUME NEW m \in Nat, m >= 1
  PROVE  m \div m = 1 /\ m % m = 0
<1>1. m = 1 * m + 0 /\ 0 < m
  OBVIOUS
<1> QED BY <1>1, Z3

(* A chunk cut to the finest holds one coordinate, and every coordinate    *)
(* has its chunk.                                                          *)
LEMMA FinestPartition ==
  ASSUME NEW S \in SUBSET Index, NEW c \in S
  PROVE  /\ rank(S, c) \in 1 .. Cardinality(S)
         /\ partition(S, Cardinality(S), rank(S, c)) = {c}
<1> DEFINE Upto(d) == {e \in S : e <= d}
<1> DEFINE n == Cardinality(S)
<1>1. IsFiniteSet(S) /\ n \in Nat
  BY CoordinatesFinite
<1>2. \A d \in S : IsFiniteSet(Upto(d)) /\ rank(S, d) \in 1 .. n
  <2> SUFFICES ASSUME NEW d \in S PROVE IsFiniteSet(Upto(d)) /\ rank(S, d) \in 1 .. n
    OBVIOUS
  <2>1. Upto(d) \in SUBSET S /\ d \in Upto(d)
    BY DEF Index
  <2>2. IsFiniteSet(Upto(d)) /\ Cardinality(Upto(d)) <= n
    BY <1>1, <2>1, FS_Subset
  <2>3. Cardinality(Upto(d)) \in Nat /\ Cardinality(Upto(d)) # 0
    BY <2>1, <2>2, FS_CardinalityType, FS_EmptySet
  <2> QED BY <1>1, <2>2, <2>3 DEF rank
<1>r. \A d \in S : rank(S, d) \in 1 .. n
  BY <1>2
<1>3. \A d, e \in S : d < e => rank(S, d) # rank(S, e)
  <2> SUFFICES ASSUME NEW d \in S, NEW e \in S, d < e, rank(S, d) = rank(S, e) PROVE FALSE
    OBVIOUS
  <2>0. S \subseteq Int
    BY DEF Index
  <2>1. Upto(d) \subseteq Upto(e)
    <3> SUFFICES ASSUME NEW x \in S, x <= d PROVE x <= e
      OBVIOUS
    <3> QED BY <2>0
  <2>3. e \in Upto(e) /\ e \notin Upto(d)
    BY <2>0
  <2>2. Cardinality(Upto(e)) = Cardinality(Upto(d))
    BY DEF rank
  <2> QED BY <1>2, <2>1, <2>2, <2>3, FS_Subset
<1>4. n \div n = 1 /\ n % n = 0
  <2>1. n >= 1
    <3>1. rank(S, c) \in 1 .. n
      BY <1>r
    <3> QED BY <1>1, <3>1
  <2> QED BY <1>1, <2>1, DivideBySelf
<1>5. \A k \in 1 .. n + 1 : partition_start(S, n, k) = k - 1
  BY <1>1, <1>4 DEF partition_start, Smaller
<1>6. \A d \in S : d \in partition(S, n, rank(S, c)) <=> rank(S, d) = rank(S, c)
  <2> SUFFICES ASSUME NEW d \in S
               PROVE  d \in partition(S, n, rank(S, c)) <=> rank(S, d) = rank(S, c)
    OBVIOUS
  <2>1. /\ partition_start(S, n, rank(S, c)) = rank(S, c) - 1
        /\ partition_start(S, n, rank(S, c) + 1) = rank(S, c)
    <3>1. rank(S, c) \in 1 .. n /\ rank(S, c) + 1 \in 1 .. n + 1 /\ rank(S, c) \in 1 .. n + 1
      <4>1. rank(S, c) \in 1 .. n
        BY <1>r
      <4> QED BY <1>1, <4>1
    <3>2. partition_start(S, n, rank(S, c) + 1) = (rank(S, c) + 1) - 1
      BY <1>5, <3>1
    <3> QED BY <1>5, <3>1, <3>2
  <2>2. rank(S, c) \in Int /\ rank(S, d) \in Int
    <3>1. rank(S, c) \in 1 .. n /\ rank(S, d) \in 1 .. n
      BY <1>r
    <3> QED BY <1>1, <3>1
  <2>3. d \in partition(S, n, rank(S, c)) <=>
          rank(S, c) - 1 < rank(S, d) /\ rank(S, d) <= rank(S, c)
    BY <2>1 DEF partition
  <2> QED BY <2>2, <2>3
<1>7. \A d \in S : rank(S, d) = rank(S, c) => d = c
  <2> SUFFICES ASSUME NEW d \in S, rank(S, d) = rank(S, c), d # c PROVE FALSE
    OBVIOUS
  <2>1. d < c \/ c < d
    BY DEF Index
  <2> QED BY <1>3, <2>1
<1> QED BY <1>r, <1>6, <1>7 DEF partition

(* Simplifying keeps zeros and only zeros, and doing it twice is useless.  *)
LEMMA SimplifyFacts ==
  ASSUME NEW v \in Int, NEW d
  PROVE  /\ simplified_value(v, d) \in Int
         /\ simplified_value(v, d) = 0 <=> v = 0
         /\ simplified_value(simplified_value(v, d), d) = simplified_value(v, d)
<1>1. CASE v = 0 \/ d = "b"
  <2>1. simplified_value(v, d) = v
    BY <1>1 DEF simplified_value
  <2> QED BY <2>1
<1>2. CASE v # 0 /\ d # "b" /\ d \in {"i", "u"}
  <2>1. simplified_value(v, d) = IF v < 0 THEN -2 ELSE 2
    BY <1>2 DEF simplified_value, One
  <2>2. \A w \in Int : w # 0 => simplified_value(w, d) = IF w < 0 THEN -2 ELSE 2
    BY <1>2 DEF simplified_value, One
  <2> QED BY <1>2, <2>1, <2>2
<1>3. CASE v # 0 /\ d # "b" /\ d \notin {"i", "u"}
  <2>1. \A w \in Int : w # 0 => simplified_value(w, d) =
          IF w > 2 \/ w < -2 THEN (IF w < 0 THEN -2 ELSE 2) ELSE w
    BY <1>3 DEF simplified_value, One
  <2> QED BY <1>3, <2>1
<1> QED BY <1>1, <1>2, <1>3

(* A question is recorded and forgets no earlier answer.                   *)
LEMMA AskFacts ==
  ASSUME NEW input \in Inputs, NEW outcome, Ask(input, outcome), TypeOK
  PROVE  /\ input \in DOMAIN answers' /\ answers'[input] = outcome
         /\ DOMAIN answers \subseteq DOMAIN answers'
         /\ \A x \in DOMAIN answers : answers'[x] = answers[x]
         /\ DOMAIN answers' \subseteq Inputs
         /\ \A x \in DOMAIN answers' : answers'[x] \in Outcomes
         /\ evaluations' = evaluations + 1
BY DEF Ask, TypeOK

(* Zeroing coordinates of an input leaves the support without them.        *)
LEMMA WithoutFacts ==
  ASSUME NEW input \in Inputs, NEW chunk
  PROVE  /\ Without(input, chunk) \in Inputs
         /\ nonzero_coordinates(Without(input, chunk)) = nonzero_coordinates(input) \ chunk
BY DEF Without, Inputs, nonzero_coordinates

LEMMA InitInvariant == Init => IInv
<1> SUFFICES ASSUME Init PROVE IInv
  OBVIOUS
<1> USE DEF Init
<1>1. TypeOK
  BY DEF TypeOK
<1> QED BY <1>1 DEF IInv, Begin, CurrentFails, SupportIsTracked, PassRefused, SearchDone, Reducing

-----------------------------------------------------------------------------
LEMMA ReproduceKeeps == IInv /\ Reproduce => IInv'
<1> SUFFICES ASSUME IInv, Reproduce PROVE IInv'
  OBVIOUS
<1> USE DEF IInv
<1>1. PICK outcome \in Outcomes :
        /\ Ask(current, outcome)
        /\ IF outcome \in Signatures /\ Expected \in {NoFailure, outcome}
            THEN /\ phase' = "remove"
                 /\ signature' = outcome
                 /\ coordinates' = nonzero_coordinates(current)
                 /\ granularity' = Smaller(2, Cardinality(nonzero_coordinates(current)))
            ELSE /\ phase' = "failed"
                 /\ UNCHANGED << signature, coordinates, granularity >>
  BY DEF Reproduce
<1>2. /\ phase = "start" /\ evaluations = 0 /\ current = original /\ tried = 0
      /\ current \in Inputs /\ answers = [x \in {} |-> NoFailure]
      /\ UNCHANGED << original, limit, current, tried, left, settled >>
  BY DEF Reproduce, Begin, TypeOK
<1>3. /\ DOMAIN answers' = {current} /\ answers'[current] = outcome
      /\ evaluations' = 1
  BY <1>1, <1>2 DEF Ask
<1>4. TypeOK'
  <2>1. nonzero_coordinates(current) \in SUBSET Index
    BY DEF nonzero_coordinates
  <2>2. Smaller(2, Cardinality(nonzero_coordinates(current))) \in 0 .. N
    BY <2>1, CoordinatesFinite DEF Smaller
  <2>3. granularity' \in 0 .. N /\ coordinates' \subseteq Index
    BY <1>1, <2>1, <2>2 DEF TypeOK
  <2> QED BY <1>1, <1>2, <1>3, <2>3 DEF TypeOK
<1>5. CASE phase' = "failed"
  <2>1. ~Reducing' /\ phase' # "start" /\ phase' \notin {"remove", "simplify", "done"}
    BY <1>5 DEF Reducing
  <2> QED BY <1>4, <2>1 DEF Begin, CurrentFails, SupportIsTracked, PassRefused, SearchDone
<1>6. CASE phase' = "remove"
  <2>1. /\ outcome \in Signatures /\ signature' = outcome
        /\ coordinates' = nonzero_coordinates(current)
        /\ granularity' = Smaller(2, Cardinality(nonzero_coordinates(current)))
    BY <1>1, <1>6
  <2>2. CurrentFails' /\ Begin'
    BY <1>2, <1>3, <1>6, <2>1 DEF CurrentFails, Begin, Reducing
  <2>3. SupportIsTracked'
    <3>1. coordinates' = nonzero_coordinates(current')
      BY <1>2, <2>1
    <3>2. \A c \in Index : current'[c] = original'[c]
      BY <1>2
    <3> QED BY <3>1, <3>2 DEF SupportIsTracked
  <2>4. PassRefused'
    <3>1. coordinates' \in SUBSET Index
      BY <2>1 DEF nonzero_coordinates
    <3>2. /\ IsFiniteSet(coordinates') /\ Cardinality(coordinates') \in 0 .. N
          /\ coordinates' # {} => Cardinality(coordinates') # 0
      BY <3>1, CoordinatesFinite, FS_EmptySet
    <3>3. granularity' <= Cardinality(coordinates') /\ (coordinates' # {} => granularity' >= 1)
      BY <2>1, <3>2 DEF Smaller
    <3>4. 1 .. tried' = {}
      BY <1>2
    <3> QED BY <3>3, <3>4 DEF PassRefused
  <2> QED BY <1>4, <1>6, <2>2, <2>3, <2>4 DEF SearchDone
<1> QED BY <1>1, <1>5, <1>6

LEMMA AskWithoutKeeps ==
  ASSUME IInv, phase = "remove", evaluations < limit, tried < granularity,
         AskWithout(NextChunk),
         UNCHANGED << original, limit, left, signature, settled >>
  PROVE  IInv'
<1> USE DEF IInv
<1> DEFINE candidate == Without(current, NextChunk)
<1> DEFINE remaining == coordinates \ NextChunk
<1>1. PICK outcome \in Outcomes :
        /\ Ask(candidate, outcome)
        /\ CASE Preserves(outcome) ->
                  /\ current' = candidate
                  /\ coordinates' = remaining
                  /\ granularity' = Smaller(Larger(2, granularity - 1), Cardinality(remaining))
                  /\ tried' = 0
                  /\ UNCHANGED phase
             [] outcome = Raised ->
                  /\ phase' = "failed"
                  /\ UNCHANGED << current, coordinates, granularity, tried >>
             [] OTHER ->
                  /\ tried' = tried + 1
                  /\ UNCHANGED << current, coordinates, granularity, phase >>
  BY DEF AskWithout
<1>2. /\ current \in Inputs /\ candidate \in Inputs
      /\ nonzero_coordinates(candidate) = nonzero_coordinates(current) \ NextChunk
      /\ signature \in Signatures /\ signature # Raised
  BY WithoutFacts DEF TypeOK, Begin, Reducing
<1>3. /\ candidate \in DOMAIN answers' /\ answers'[candidate] = outcome
      /\ DOMAIN answers \subseteq DOMAIN answers'
      /\ \A x \in DOMAIN answers : answers'[x] = answers[x]
      /\ DOMAIN answers' \subseteq Inputs
      /\ \A x \in DOMAIN answers' : answers'[x] \in Outcomes
      /\ evaluations' = evaluations + 1
  BY <1>1, <1>2, AskFacts
<1>4. remaining \in SUBSET Index /\ Cardinality(remaining) \in 0 .. N /\ IsFiniteSet(remaining)
  BY CoordinatesFinite DEF TypeOK
<1>5. evaluations' \in 0 .. limit' /\ granularity \in 0 .. N /\ tried \in 0 .. granularity
  <2>1. /\ limit \in Nat /\ limit' = limit /\ evaluations \in 0 .. limit
        /\ granularity \in 0 .. N /\ tried \in 0 .. granularity
    BY DEF TypeOK
  <2>2. evaluations' = evaluations + 1
    BY <1>3
  <2> QED BY <2>1, <2>2
<1>6. /\ current \in DOMAIN answers' /\ answers'[current] = signature
      /\ original \in DOMAIN answers' /\ answers'[original] = signature
  <2>1. /\ current \in DOMAIN answers /\ answers[current] = signature
        /\ original \in DOMAIN answers /\ answers[original] = signature
    BY DEF CurrentFails, Reducing
  <2> QED BY <1>3, <2>1
<1>7. CASE Preserves(outcome)
  <2>1. /\ outcome = signature /\ current' = candidate /\ coordinates' = remaining
        /\ granularity' = Smaller(Larger(2, granularity - 1), Cardinality(remaining))
        /\ tried' = 0 /\ phase' = "remove"
    BY <1>1, <1>7, <1>2 DEF Preserves
  <2>2. granularity' \in 0 .. N /\ granularity' <= Cardinality(coordinates')
    BY <1>4, <1>5, <2>1 DEF Smaller, Larger
  <2>3. TypeOK'
    BY <1>2, <1>3, <1>4, <1>5, <2>1, <2>2 DEF TypeOK
  <2>4. CurrentFails' /\ Begin'
    BY <1>2, <1>3, <1>6, <2>1 DEF CurrentFails, Begin, Reducing
  <2>5. SupportIsTracked'
    <3>1. coordinates' = nonzero_coordinates(current')
      BY <1>2, <2>1 DEF SupportIsTracked, Reducing
    <3>2. \A c \in Index : current'[c] \in {0, current[c]}
      BY <2>1 DEF Without
    <3> QED BY <3>1, <3>2 DEF SupportIsTracked, Reducing
  <2>6. PassRefused'
    <3>1. coordinates' # {} => granularity' >= 1
      <4>1. coordinates' # {} => Cardinality(coordinates') # 0
        BY <1>4, <2>1, FS_EmptySet
      <4> QED BY <1>4, <1>5, <2>1, <4>1 DEF Smaller, Larger
    <3>2. 1 .. tried' = {}
      BY <2>1
    <3> QED BY <2>2, <3>1, <3>2 DEF PassRefused
  <2> QED BY <2>1, <2>3, <2>4, <2>5, <2>6 DEF SearchDone
<1>8. CASE ~Preserves(outcome) /\ outcome = Raised
  <2>1. phase' = "failed" /\ UNCHANGED << current, coordinates, granularity, tried >>
    BY <1>1, <1>8
  <2>2. TypeOK'
    BY <1>2, <1>3, <1>5, <2>1 DEF TypeOK
  <2> QED BY <2>1, <2>2
        DEF Reducing, Begin, CurrentFails, SupportIsTracked, PassRefused, SearchDone
<1>9. CASE ~Preserves(outcome) /\ outcome # Raised
  <2>1. tried' = tried + 1 /\ UNCHANGED << current, coordinates, granularity, phase >>
    BY <1>1, <1>9
  <2>2. TypeOK'
    BY <1>2, <1>3, <1>5, <2>1 DEF TypeOK
  <2>3. CurrentFails' /\ Begin'
    BY <1>2, <1>6, <2>1 DEF CurrentFails, Begin, Reducing
  <2>4. SupportIsTracked'
    BY <2>1 DEF SupportIsTracked, Reducing
  <2>5. PassRefused'
    <3> DEFINE Chunk(k) == Without(current, partition(coordinates, granularity, k))
    <3>1. Chunk(tried + 1) \in DOMAIN answers' /\ answers'[Chunk(tried + 1)] # signature
      BY <1>3, <1>9 DEF Preserves, NextChunk
    <3>2. \A k \in 1 .. tried : Chunk(k) \in DOMAIN answers /\ answers[Chunk(k)] # signature
      <4>1. evaluations < limit /\ evaluations \in Nat /\ limit \in Nat
        BY MinimizerAssumption DEF TypeOK
      <4>2. ~(evaluations >= limit)
        BY <4>1
      <4>3. \A k \in 1 .. tried : Refused(Chunk(k))
        BY <4>2, Zenon DEF PassRefused
      <4> QED BY <4>3, Zenon DEF Refused
    <3>3. \A k \in 1 .. tried + 1 :
            Chunk(k) \in DOMAIN answers' /\ answers'[Chunk(k)] # signature
      <4> SUFFICES ASSUME NEW k \in 1 .. tried + 1
                   PROVE  Chunk(k) \in DOMAIN answers' /\ answers'[Chunk(k)] # signature
        OBVIOUS
      <4>1. CASE k = tried + 1
        BY <3>1, <4>1
      <4>2. CASE k # tried + 1
        <5>1. k \in 1 .. tried
          BY <1>5, <4>2
        <5>2. Chunk(k) \in DOMAIN answers /\ answers[Chunk(k)] # signature
          BY <3>2, <5>1
        <5> QED BY <1>3, <5>2
      <4> QED BY <4>1, <4>2
    <3>4. \A k \in 1 .. tried' :
            Refused(Without(current, partition(coordinates, granularity, k)))'
      BY <2>1, <3>3 DEF Refused
    <3>5. granularity <= Cardinality(coordinates) /\ (coordinates # {} => granularity >= 1)
      BY DEF PassRefused
    <3> QED BY <2>1, <3>4, <3>5 DEF PassRefused
  <2> QED BY <2>1, <2>2, <2>3, <2>4, <2>5 DEF SearchDone
<1> QED BY <1>7, <1>8, <1>9

LEMMA SkipChunkKeeps == IInv /\ SkipChunk => IInv'
<1> SUFFICES ASSUME IInv, SkipChunk PROVE IInv'
  OBVIOUS
<1> USE DEF IInv
<1>1. /\ phase = "remove" /\ tried < granularity /\ evaluations >= limit
      /\ tried' = tried + 1
      /\ UNCHANGED << original, limit, phase, current, coordinates, granularity, left,
                      evaluations, signature, answers, settled >>
  BY DEF SkipChunk, InPass
<1>2. TypeOK'
  BY <1>1 DEF TypeOK
<1>3. CurrentFails' /\ SupportIsTracked' /\ Begin'
  BY <1>1 DEF CurrentFails, SupportIsTracked, Begin, Reducing
<1>4. PassRefused' /\ SearchDone'
  BY <1>1 DEF PassRefused, SearchDone
<1> QED BY <1>2, <1>3, <1>4

-----------------------------------------------------------------------------
(* The loop ends with an input of which nothing alone can be removed, or   *)
(* with the budget used up.                                                *)
LEMMA BeginSimplifyingKeeps ==
  ASSUME IInv, phase = "remove", BeginSimplifying,
         evaluations >= limit \/ Irreducible(current),
         UNCHANGED << original, limit, current, coordinates, granularity, tried, evaluations,
                      signature, answers >>
  PROVE  IInv'
<1> USE DEF IInv
<1>1. phase' = "simplify" /\ left' = coordinates /\ settled' = current
  BY DEF BeginSimplifying
<1>2. TypeOK'
  BY <1>1 DEF TypeOK
<1>3. CurrentFails' /\ SupportIsTracked' /\ Begin'
  BY <1>1 DEF CurrentFails, SupportIsTracked, Begin, Reducing
<1>4. evaluations' >= limit' \/ Irreducible(settled)'
  BY <1>1 DEF Irreducible, Refused, nonzero_coordinates
<1>5. coordinates' \ left' = {}
  BY <1>1
<1> QED BY <1>1, <1>2, <1>3, <1>4, <1>5 DEF PassRefused, SearchDone

LEMMA LeaveRemovalKeeps == IInv /\ LeaveRemoval => IInv'
<1> SUFFICES ASSUME IInv, LeaveRemoval PROVE IInv'
  OBVIOUS
<1>1. coordinates = {} => Irreducible(current)
  BY DEF LeaveRemoval, IInv, SupportIsTracked, Reducing, Irreducible
<1> QED BY <1>1, BeginSimplifyingKeeps DEF LeaveRemoval

LEMMA EndPassKeeps == IInv /\ EndPass => IInv'
<1> SUFFICES ASSUME IInv, EndPass PROVE IInv'
  OBVIOUS
<1> USE DEF IInv
<1>1. /\ phase = "remove" /\ coordinates # {} /\ tried = granularity
      /\ UNCHANGED << original, limit, current, coordinates, evaluations, signature, answers >>
  BY DEF EndPass
<1>2. /\ coordinates \in SUBSET Index /\ IsFiniteSet(coordinates)
      /\ Cardinality(coordinates) \in 0 .. N /\ granularity \in 0 .. N
      /\ granularity <= Cardinality(coordinates) /\ granularity >= 1
  BY <1>1, CoordinatesFinite DEF TypeOK, PassRefused
<1>3. CASE granularity >= Cardinality(coordinates)
  <2>1. granularity = Cardinality(coordinates)
    BY <1>2, <1>3
  <2>2. ASSUME evaluations < limit, NEW c \in nonzero_coordinates(current)
        PROVE  Refused(Without(current, {c}))
    <3>1. c \in coordinates
      BY <1>1, <2>2 DEF SupportIsTracked, Reducing
    <3>2. /\ rank(coordinates, c) \in 1 .. tried
          /\ partition(coordinates, granularity, rank(coordinates, c)) = {c}
      BY <1>1, <1>2, <2>1, <3>1, FinestPartition
    <3>3. evaluations \in Nat /\ limit \in Nat
      BY DEF TypeOK
    <3> QED BY <1>1, <2>2, <3>2, <3>3 DEF PassRefused
  <2>3. evaluations >= limit \/ Irreducible(current)
    <3>1. evaluations \in Nat /\ limit \in Nat
      BY DEF TypeOK
    <3> QED BY <2>2, <3>1 DEF Irreducible
  <2> QED BY <1>1, <1>3, <2>3, BeginSimplifyingKeeps DEF EndPass
<1>4. CASE granularity < Cardinality(coordinates)
  <2>1. /\ granularity' = Smaller(Cardinality(coordinates), granularity * 2) /\ tried' = 0
        /\ UNCHANGED << phase, left, settled >>
    BY <1>2, <1>4 DEF EndPass
  <2>2. /\ granularity' \in 0 .. N /\ granularity' >= 1
        /\ granularity' <= Cardinality(coordinates)
    BY <1>2, <2>1 DEF Smaller
  <2>3. TypeOK'
    BY <1>1, <2>1, <2>2 DEF TypeOK
  <2>4. CurrentFails' /\ SupportIsTracked' /\ Begin'
    BY <1>1, <2>1 DEF CurrentFails, SupportIsTracked, Begin, Reducing
  <2>5. 1 .. tried' = {}
    BY <2>1
  <2> QED BY <1>1, <2>1, <2>2, <2>3, <2>4, <2>5 DEF PassRefused, SearchDone
<1> QED BY <1>2, <1>3, <1>4

LEMMA SimplifyKeeps == IInv /\ Simplify => IInv'
<1> SUFFICES ASSUME IInv, Simplify PROVE IInv'
  OBVIOUS
<1> USE DEF IInv
<1>1. PICK c \in NextLeft, outcome \in Outcomes :
        /\ SimplifiedAt(current, c) # current
        /\ Ask(SimplifiedAt(current, c), outcome)
        /\ current' = IF Preserves(outcome) THEN SimplifiedAt(current, c) ELSE current
        /\ phase' = IF outcome = Raised THEN "failed" ELSE phase
        /\ left' = left \ {c}
  BY DEF Simplify
<1>2. /\ phase = "simplify" /\ evaluations < limit
      /\ UNCHANGED << original, limit, coordinates, granularity, tried, signature, settled >>
  BY DEF Simplify
<1> DEFINE candidate == SimplifiedAt(current, c)
<1> DEFINE s(v, d) == simplified_value(v, d)
<1>3. /\ c \in Index /\ current \in Inputs /\ current[c] \in Int
      /\ signature \in Signatures /\ signature # Raised
  BY <1>2 DEF NextLeft, TypeOK, Inputs, Begin, Reducing
<1>4. /\ candidate \in Inputs
      /\ candidate[c] = simplified_value(current[c], Dtype[c])
      /\ \A d \in Index : d # c => candidate[d] = current[d]
  BY <1>3, SimplifyFacts DEF SimplifiedAt, Inputs
<1>5. /\ candidate \in DOMAIN answers' /\ answers'[candidate] = outcome
      /\ DOMAIN answers \subseteq DOMAIN answers'
      /\ \A x \in DOMAIN answers : answers'[x] = answers[x]
      /\ DOMAIN answers' \subseteq Inputs
      /\ \A x \in DOMAIN answers' : answers'[x] \in Outcomes
      /\ evaluations' = evaluations + 1
  BY <1>1, <1>4, AskFacts
<1>6. TypeOK'
  <2>1. /\ limit \in Nat /\ evaluations \in 0 .. limit
    BY DEF TypeOK
  <2>2. evaluations' \in 0 .. limit'
    BY <1>2, <1>5, <2>1
  <2>3. current' \in Inputs
    BY <1>1, <1>3, <1>4
  <2>4. phase' \in {"simplify", "failed"} /\ left' \subseteq Index
    BY <1>1, <1>2 DEF TypeOK
  <2> QED BY <1>2, <1>5, <2>2, <2>3, <2>4 DEF TypeOK
<1>7. CASE outcome = Raised
  <2>1. phase' = "failed"
    BY <1>1, <1>7
  <2> QED BY <1>6, <2>1
        DEF Reducing, Begin, CurrentFails, SupportIsTracked, PassRefused, SearchDone
<1>8. CASE outcome # Raised
  <2>1. phase' = "simplify"
    BY <1>1, <1>2, <1>8
  <2>2. CurrentFails' /\ Begin'
    <3>1. /\ current \in DOMAIN answers /\ answers[current] = signature
          /\ original \in DOMAIN answers /\ answers[original] = signature
      BY <1>2 DEF CurrentFails, Reducing
    <3>2. current' \in DOMAIN answers' /\ answers'[current'] = signature
      BY <1>1, <1>5, <3>1 DEF Preserves
    <3> QED BY <1>2, <1>3, <1>5, <2>1, <3>1, <3>2 DEF CurrentFails, Begin, Reducing
  <2>3. \A d \in Index : current'[d] \in {current[d], simplified_value(current[d], Dtype[d])}
    BY <1>1, <1>4
  <2>4. SupportIsTracked'
    <3>1. \A d \in Index : /\ original[d] \in Int /\ current[d] \in Int
                           /\ current[d] \in {0, original[d], simplified_value(original[d], Dtype[d])}
      BY <1>2 DEF TypeOK, Inputs, SupportIsTracked, Reducing
    <3>2. \A d \in Index : current'[d] = 0 <=> current[d] = 0
      BY <2>3, <3>1, SimplifyFacts
    <3>3. coordinates = nonzero_coordinates(current)
      BY <1>2 DEF SupportIsTracked, Reducing
    <3>4. coordinates' = nonzero_coordinates(current')
      BY <1>2, <3>2, <3>3 DEF nonzero_coordinates
    <3>5. ASSUME NEW d \in Index
          PROVE  current'[d] \in {0, original[d], simplified_value(original[d], Dtype[d])}
      <4>1. simplified_value(0, Dtype[d]) = 0
        BY SimplifyFacts
      <4>2. simplified_value(simplified_value(original[d], Dtype[d]), Dtype[d])
              = simplified_value(original[d], Dtype[d])
        BY <3>1, SimplifyFacts
      <4> QED BY <2>3, <3>1, <4>1, <4>2
    <3> QED BY <1>2, <3>4, <3>5 DEF SupportIsTracked
  <2>5. evaluations' >= limit' \/ Irreducible(settled)'
    <3>1. evaluations \in Nat /\ limit \in Nat
      BY DEF TypeOK
    <3>2. Irreducible(settled)
      BY <1>2, <3>1 DEF SearchDone
    <3> QED BY <1>2, <1>5, <3>2 DEF Irreducible, Refused
  <2>6. \A d \in coordinates' \ left' : SimpleAt(d)'
    <3> SUFFICES ASSUME NEW d \in coordinates' \ left' PROVE SimpleAt(d)'
      OBVIOUS
    <3>1. d \in Index /\ current'[d] \in Int /\ current' \in Inputs
      BY <1>2, <1>6 DEF TypeOK, Inputs
    <3>2. CASE d = c /\ Preserves(outcome)
      <4>1. current'[c] = simplified_value(current[c], Dtype[c])
        BY <1>1, <1>4, <3>2
      <4>2. simplified_value(current'[c], Dtype[c]) = current'[c]
        BY <1>3, <4>1, SimplifyFacts
      <4>3. [current' EXCEPT ![c] = simplified_value(current'[c], Dtype[c])] = current'
        BY <3>1, <4>2 DEF Inputs
      <4> QED BY <3>2, <4>3 DEF SimpleAt, SimplifiedAt
    <3>3. CASE d = c /\ ~Preserves(outcome)
      <4>1. current' = current
        BY <1>1, <3>3
      <4>2. /\ candidate \in DOMAIN answers' /\ answers'[candidate] # signature'
            /\ candidate[c] = simplified_value(current'[c], Dtype[c])
        BY <1>2, <1>4, <1>5, <3>3, <4>1 DEF Preserves
      <4> QED BY <3>3, <4>2 DEF SimpleAt, Refused
    <3>4. CASE d # c
      <4>1. current'[d] = current[d]
        BY <1>1, <1>4, <3>1, <3>4
      <4>2. SimpleAt(d)
        BY <1>1, <1>2, <3>4 DEF SearchDone
      <4>3. CASE SimplifiedAt(current, d) = current
        <5>1. simplified_value(current[d], Dtype[d]) = current[d]
          BY <1>3, <3>1, <4>3 DEF SimplifiedAt, Inputs
        <5>2. [current' EXCEPT ![d] = simplified_value(current'[d], Dtype[d])] = current'
          BY <3>1, <4>1, <5>1 DEF Inputs
        <5> QED BY <5>2 DEF SimpleAt, SimplifiedAt
      <4>4. CASE SimplifiedAt(current, d) # current
        <5>1. PICK input \in DOMAIN answers :
                /\ input[d] = simplified_value(current[d], Dtype[d])
                /\ Refused(input)
          BY <4>2, <4>4 DEF SimpleAt
        <5>2. /\ input \in DOMAIN answers' /\ answers'[input] # signature'
              /\ input[d] = simplified_value(current'[d], Dtype[d])
          BY <1>2, <1>5, <4>1, <5>1 DEF Refused
        <5> QED BY <5>2 DEF SimpleAt, Refused
      <4> QED BY <4>3, <4>4
    <3> QED BY <3>2, <3>3, <3>4
  <2> QED BY <1>6, <2>1, <2>2, <2>4, <2>5, <2>6 DEF PassRefused, SearchDone
<1> QED BY <1>7, <1>8

LEMMA KeepValueKeeps == IInv /\ KeepValue => IInv'
<1> SUFFICES ASSUME IInv, KeepValue PROVE IInv'
  OBVIOUS
<1> USE DEF IInv
<1>1. PICK c \in NextLeft : SimplifiedAt(current, c) = current /\ left' = left \ {c}
  BY DEF KeepValue
<1>2. /\ phase = "simplify"
      /\ UNCHANGED << original, limit, phase, current, coordinates, granularity, tried,
                      evaluations, signature, answers, settled >>
  BY DEF KeepValue
<1>3. TypeOK'
  BY <1>1, <1>2 DEF TypeOK
<1>4. CurrentFails' /\ SupportIsTracked' /\ Begin'
  BY <1>2 DEF CurrentFails, SupportIsTracked, Begin, Reducing
<1>5. (evaluations >= limit \/ Irreducible(settled))'
  BY <1>2 DEF SearchDone, Irreducible, Refused
<1>6. \A d \in coordinates \ left' : SimpleAt(d)
  <2>1. \A d \in coordinates \ left : SimpleAt(d)
    BY <1>2 DEF SearchDone
  <2>2. SimpleAt(c)
    BY <1>1 DEF SimpleAt
  <2> QED BY <1>1, <2>1, <2>2
<1>7. \A d \in coordinates' \ left' : SimpleAt(d)'
  BY <1>2, <1>6 DEF SimpleAt, SimplifiedAt, Refused
<1> QED BY <1>2, <1>3, <1>4, <1>5, <1>7 DEF PassRefused, SearchDone

LEMMA ReturnKeeps == IInv /\ Return => IInv'
<1> SUFFICES ASSUME IInv, Return PROVE IInv'
  OBVIOUS
<1> USE DEF IInv
<1>1. /\ phase = "simplify" /\ phase' = "done"
      /\ left = {} \/ evaluations >= limit
      /\ UNCHANGED << original, limit, current, coordinates, granularity, tried, left,
                      evaluations, signature, answers, settled >>
  BY DEF Return
<1>2. TypeOK'
  BY <1>1 DEF TypeOK
<1>3. CurrentFails' /\ SupportIsTracked' /\ Begin'
  BY <1>1 DEF CurrentFails, SupportIsTracked, Begin, Reducing
<1>4. SearchDone'
  BY <1>1 DEF SearchDone, Irreducible, SimpleAt, SimplifiedAt, Refused
<1> QED BY <1>1, <1>2, <1>3, <1>4 DEF PassRefused

LEMMA StutterKeeps == IInv /\ UNCHANGED vars => IInv'
<1> SUFFICES ASSUME IInv, UNCHANGED vars PROVE IInv'
  OBVIOUS
<1> USE DEF IInv, vars
<1>1. TypeOK' /\ Begin' /\ CurrentFails' /\ SupportIsTracked'
  BY DEF TypeOK, Begin, CurrentFails, SupportIsTracked, Reducing
<1>2. PassRefused' /\ SearchDone'
  BY DEF PassRefused, SearchDone, Irreducible, SimpleAt, SimplifiedAt, Refused
<1> QED BY <1>1, <1>2
-----------------------------------------------------------------------------
(* The inductive invariant holds in every run of the minimizer.            *)
THEOREM MinimizerInvariant == Spec => []IInv
<1>1. IInv /\ [Next]_vars => IInv'
  <2> SUFFICES ASSUME IInv, [Next]_vars PROVE IInv'
    OBVIOUS
  <2>1. CASE TryChunk
    <3>1. AskWithout(NextChunk) /\ phase = "remove" /\ tried < granularity /\ evaluations < limit
      BY <2>1 DEF TryChunk, InPass
    <3>2. UNCHANGED << original, limit, left, signature, settled >>
      BY <3>1 DEF AskWithout
    <3> QED BY <3>1, <3>2, AskWithoutKeeps
  <2> QED BY <2>1, ReproduceKeeps, SkipChunkKeeps, LeaveRemovalKeeps, EndPassKeeps, SimplifyKeeps,
             KeepValueKeeps, ReturnKeeps, StutterKeeps DEF Next
<1> QED BY InitInvariant, <1>1, PTL DEF Spec

(* The function's state keeps its types and the budget its bound.          *)
THEOREM TypeCorrect == Spec => []TypeOK
<1>1. IInv => TypeOK
  BY DEF IInv
<1> QED BY <1>1, MinimizerInvariant, PTL

(* Whatever the oracle is, the input held and returned was itself seen to  *)
(* fail with the signature of the original.                                *)
THEOREM ResultFails == Spec => []CurrentFails
<1>1. IInv => CurrentFails
  BY DEF IInv
<1> QED BY <1>1, MinimizerInvariant, PTL

(* The list of coordinates is the support of the input at every step.      *)
THEOREM SupportTracked == Spec => []SupportIsTracked
<1>1. IInv => SupportIsTracked
  BY DEF IInv
<1> QED BY <1>1, MinimizerInvariant, PTL

(* A search that does not report the budget has tried every single removal *)
(* from the input its first loop left, and every simplification.           *)
THEOREM UnreportedIsFinished == Spec => []UnreportedMeansFinished
<1>1. IInv => UnreportedMeansFinished
  <2> SUFFICES ASSUME IInv, phase = "done", ~stopped_by_budget PROVE Finished
    BY DEF UnreportedMeansFinished
  <2>1. left = {} /\ Irreducible(settled) /\ \A c \in coordinates \ left : SimpleAt(c)
    BY DEF IInv, SearchDone, stopped_by_budget
  <2> QED BY <2>1 DEF Finished, Simplified
<1> QED BY <1>1, MinimizerInvariant, PTL
-----------------------------------------------------------------------------
(* What is packed behind one another: a list grows, and its first part     *)
(* stays where it is.                                                      *)

(* Induction over the first places of a list.                              *)
LEMMA CountUp ==
  ASSUME NEW top \in Nat, NEW P, 0 \in P,
         \A k \in 0 .. top - 1 : k \in P => k + 1 \in P
  PROVE  \A k \in 0 .. top : k \in P
<1> DEFINE R == {p \in Nat \X Nat : p[1] < p[2]}
           Bad == {k \in 0 .. top : k \notin P}
<1>1. SUFFICES ASSUME Bad # {} PROVE FALSE
  OBVIOUS
<1>2. IsWellFoundedOn(R, Nat)
  BY NatLessThanWellFounded DEF OpToRel
<1>3. PICK m \in Bad : \A n \in Bad : << n, m >> \notin R
  <2>1. Bad \subseteq Nat
    OBVIOUS
  <2> HIDE DEF R, Bad
  <2>2. QED
    BY <1>1, <1>2, <2>1, WFMin
<1>4. m \in 0 .. top /\ m \notin P /\ m # 0
  OBVIOUS
<1>5. m - 1 \in 0 .. top - 1 /\ (m - 1) + 1 = m
  BY <1>4
<1>6. m - 1 \notin P
  BY <1>4, <1>5
<1>7. m - 1 \in Bad /\ << m - 1, m >> \in R
  BY <1>4, <1>5, <1>6
<1> HIDE DEF R, Bad
<1>8. QED
  BY <1>3, <1>7

Stepped(F, top, S, base, step) ==
  /\ F \in [0 .. top -> S]
  /\ F[0] = base /\ \A n \in 1 .. top : F[n] = step[<< n, F[n - 1] >>]

(* A function that goes through a list step by step exists.                *)
LEMMA StepByStep ==
  ASSUME NEW top \in Nat, NEW S, NEW base \in S, NEW step \in [(1 .. top) \X S -> S]
  PROVE  \E F : Stepped(F, top, S, base, step)
<1> DEFINE P == {k \in 0 .. top : \E F : Stepped(F, k, S, base, step)}
<1>1. 0 \in P
  <2> DEFINE F == [n \in 0 .. 0 |-> base]
  <2>1. Stepped(F, 0, S, base, step)
    BY DEF Stepped
  <2> HIDE DEF F
  <2>2. QED
    BY <2>1
<1>2. ASSUME NEW k \in 0 .. top - 1, k \in P PROVE k + 1 \in P
  <2>0. PICK F : Stepped(F, k, S, base, step)
    BY <1>2
  <2>1. /\ F \in [0 .. k -> S]
        /\ F[0] = base /\ \A n \in 1 .. k : F[n] = step[<< n, F[n - 1] >>]
    BY <2>0 DEF Stepped
  <2>2. PICK more : more = step[<< k + 1, F[k] >>]
    OBVIOUS
  <2>3. k + 1 \in 1 .. top /\ F[k] \in S
    BY <2>1
  <2>4. more \in S
    BY <2>2, <2>3
  <2>5. PICK G : G = [n \in 0 .. k + 1 |-> IF n = k + 1 THEN more ELSE F[n]]
    OBVIOUS
  <2>6. /\ \A n \in 0 .. k : G[n] = F[n]
        /\ G[k + 1] = more
    BY <2>5
  <2>7. G \in [0 .. k + 1 -> S]
    BY <2>1, <2>4, <2>5
  <2>8. ASSUME NEW n \in 1 .. k + 1 PROVE G[n] = step[<< n, G[n - 1] >>]
    <3>1. CASE n = k + 1
      <4>1. G[n - 1] = F[k]
        BY <2>6, <3>1
      <4>2. QED
        BY <2>2, <2>6, <3>1, <4>1
    <3>2. CASE n \in 1 .. k
      <4>1. G[n] = F[n] /\ G[n - 1] = F[n - 1]
        BY <2>6, <3>2
      <4>2. QED
        BY <2>1, <3>2, <4>1
    <3>3. QED
      BY <3>1, <3>2
  <2>9. G[0] = base
    BY <2>1, <2>6
  <2>10. Stepped(G, k + 1, S, base, step)
    BY <2>7, <2>8, <2>9 DEF Stepped
  <2>11. QED
    BY <2>3, <2>10
<1>3. top \in P
  <2> HIDE DEF P
  <2>1. QED
    BY <1>1, <1>2, CountUp
<1>4. QED
  BY <1>3

(* Such a function keeps to the set its steps keep to.                     *)
LEMMA StaysIn ==
  ASSUME NEW top \in Nat, NEW S, NEW F, F[0] \in S,
         \A n \in 1 .. top : F[n - 1] \in S => F[n] \in S
  PROVE  \A n \in 0 .. top : F[n] \in S
<1> DEFINE P == {n \in 0 .. top : F[n] \in S}
<1>1. 0 \in P
  OBVIOUS
<1>2. ASSUME NEW k \in 0 .. top - 1, k \in P PROVE k + 1 \in P
  <2>1. PICK n : n = k + 1
    OBVIOUS
  <2>2. n \in 1 .. top /\ n - 1 = k
    BY <2>1
  <2>3. F[n] \in S
    BY <1>2, <2>2
  <2>4. QED
    BY <2>1, <2>2, <2>3
<1>3. \A k \in 0 .. top : k \in P
  <2> HIDE DEF P
  <2>1. QED
    BY <1>1, <1>2, CountUp
<1>4. QED
  BY <1>3

LEMMA ShorterEnd ==
  ASSUME NEW m \in Nat, NEW n \in Nat
  PROVE  (IF m < m + n THEN m ELSE m + n) = m
OBVIOUS

Extends(t, s, V) == \E x \in Seq(V) : t = s \o x

LEMMA ExtendsMore ==
  ASSUME NEW V, NEW first \in Seq(V), NEW s, NEW t, Extends(s, first, V), Extends(t, s, V)
  PROVE  Extends(t, first, V)
<1>1. PICK rest : rest \in Seq(V) /\ s = first \o rest
  BY DEF Extends
<1>2. PICK x : x \in Seq(V) /\ t = s \o x
  BY DEF Extends
<1>3. PICK more : more = rest \o x
  OBVIOUS
<1>4. more \in Seq(V)
  BY <1>1, <1>2, <1>3, ConcatProperties
<1>5. (first \o rest) \o x = first \o (rest \o x)
  <2>1. first \in Seq(V) /\ rest \in Seq(V) /\ x \in Seq(V)
    BY <1>1, <1>2
  <2>2. QED
    BY <2>1, ConcatAssociative
<1>6. t = first \o more
  BY <1>1, <1>2, <1>3, <1>5
<1>7. QED
  BY <1>4, <1>6 DEF Extends

Growing(F, top, V) == F[0] = << >> /\ \A n \in 1 .. top : Extends(F[n], F[n - 1], V)

EndsIn(x, before, part) == x = before \o part

(* Found by its place and size, whether or not the end may cut it.         *)
LiesAt(all, start, part) ==
  /\ Slice(all, start, Len(part)) = part
  /\ SubSeq(all, start + 1, start + Len(part)) = part

(* What has been put behind the first bytes leaves them where they are.    *)
LEMMA PutBehind ==
  ASSUME NEW top \in Nat, NEW V, NEW F, Growing(F, top, V),
         NEW n \in 1 .. top, NEW before \in Seq(V), NEW part \in Seq(V),
         EndsIn(F[n], before, part)
  PROVE  LiesAt(F[top], Len(before), part)
<1>1. PICK first : first = before \o part
  OBVIOUS
<1>2. /\ first \in Seq(V) /\ Len(first) = Len(before) + Len(part)
      /\ \A i \in 1 .. Len(before) + Len(part) :
           first[i] = IF i <= Len(before) THEN before[i] ELSE part[i - Len(before)]
      /\ Len(before) \in Nat /\ Len(part) \in Nat
  BY <1>1, ConcatProperties, LenProperties
<1>2a. F[n] = before \o part
  BY DEF EndsIn
<1> DEFINE P == {k \in 0 .. top - n : Extends(F[n + k], first, V)}
<1>3. 0 \in P
  <2>1. << >> \in Seq(V) /\ first \o << >> = first
    BY <1>2, EmptySeq, ConcatEmptySeq
  <2>2. F[n + 0] = first
    BY <1>1, <1>2a
  <2>3. 0 \in 0 .. top - n
    OBVIOUS
  <2>4. QED
    BY <2>1, <2>2, <2>3 DEF Extends
<1>4. ASSUME NEW k \in 0 .. (top - n) - 1, k \in P PROVE k + 1 \in P
  <2>1. PICK m : m = n + (k + 1)
    OBVIOUS
  <2>2. m \in 1 .. top /\ m - 1 = n + k /\ k + 1 \in 0 .. top - n
    BY <2>1
  <2>3. Extends(F[m], F[m - 1], V)
    BY <2>2 DEF Growing
  <2>4. Extends(F[m - 1], first, V)
    BY <1>4, <2>2
  <2>5. Extends(F[m], first, V)
    BY <1>2, <2>3, <2>4, ExtendsMore
  <2>6. QED
    BY <2>1, <2>2, <2>5
<1>5. PICK rest \in Seq(V) : F[top] = first \o rest
  <2>1. PICK gap : gap = top - n /\ gap \in Nat
    OBVIOUS
  <2>2. top - n \in P
    <3> HIDE DEF P
    <3>1. \A k \in 0 .. gap - 1 : k \in P => k + 1 \in P
      BY <1>4, <2>1
    <3>2. \A k \in 0 .. gap : k \in P
      BY <1>3, <2>1, <3>1, CountUp
    <3>3. QED
      BY <2>1, <3>2
  <2>3. PICK rest \in Seq(V) : F[n + (top - n)] = first \o rest
    BY <2>2 DEF Extends
  <2>4. n + (top - n) = top
    OBVIOUS
  <2>5. QED
    BY <2>3, <2>4
<1>6. PICK all : all = F[top]
  OBVIOUS
<1>7. /\ all \in Seq(V) /\ Len(all) = Len(first) + Len(rest) /\ Len(rest) \in Nat
      /\ \A i \in 1 .. Len(first) + Len(rest) :
           all[i] = IF i <= Len(first) THEN first[i] ELSE rest[i - Len(first)]
  <2>1. first \in Seq(V) /\ rest \in Seq(V) /\ all = first \o rest
    BY <1>2, <1>5, <1>6
  <2>2. Len(rest) \in Nat
    BY <2>1, LenProperties
  <2>3. /\ first \o rest \in Seq(V) /\ Len(first \o rest) = Len(first) + Len(rest)
        /\ \A i \in 1 .. Len(first) + Len(rest) :
             (first \o rest)[i] = IF i <= Len(first) THEN first[i] ELSE rest[i - Len(first)]
    BY <2>1, ConcatProperties
  <2>4. QED
    BY <2>1, <2>2, <2>3
<1>8. PICK from, to : from = Len(before) + 1 /\ to = Len(before) + Len(part)
  OBVIOUS
<1>9. Slice(all, Len(before), Len(part)) = SubSeq(all, from, to)
  <2>1. PICK extra : extra = Len(rest)
    OBVIOUS
  <2>2. to \in Nat /\ extra \in Nat /\ Len(all) = to + extra
    BY <1>2, <1>7, <1>8, <2>1
  <2>3. (IF to < Len(all) THEN to ELSE Len(all)) = to
    BY <2>2, ShorterEnd
  <2>4. QED
    BY <1>8, <2>3 DEF Slice
<1>10. from \in Int /\ to \in Int /\ \A i \in from .. to : all[i] \in V
  <2>1. from .. to \subseteq 1 .. Len(all)
    BY <1>2, <1>7, <1>8
  <2>2. \A i \in 1 .. Len(all) : all[i] \in V
    BY <1>7, ElementOfSeq
  <2>3. QED
    BY <1>2, <1>8, <2>1, <2>2
<1>11. PICK cut : cut = SubSeq(all, from, to)
  OBVIOUS
<1>12. /\ cut \in Seq(V) /\ Len(cut) = IF from <= to THEN to - from + 1 ELSE 0
       /\ \A i \in 1 .. to - from + 1 : cut[i] = all[from + i - 1]
  BY <1>10, <1>11, SubSeqProperties
<1>13. Len(cut) = Len(part)
  BY <1>2, <1>8, <1>12
<1>14. ASSUME NEW i \in 1 .. Len(part) PROVE cut[i] = part[i]
  <2>1. cut[i] = all[Len(before) + i]
    <3>1. i \in 1 .. to - from + 1 /\ from + i - 1 = Len(before) + i
      BY <1>2, <1>8
    <3>2. QED
      BY <1>12, <3>1
  <2>2. all[Len(before) + i] = first[Len(before) + i]
    <3>1. Len(before) + i \in 1 .. Len(first) + Len(rest) /\ Len(before) + i <= Len(first)
      BY <1>2, <1>7
    <3>2. QED
      BY <1>7, <3>1
  <2>3. first[Len(before) + i] = part[i]
    <3>1. /\ Len(before) + i \in 1 .. Len(before) + Len(part)
          /\ ~(Len(before) + i <= Len(before)) /\ (Len(before) + i) - Len(before) = i
      BY <1>2
    <3>2. QED
      BY <1>2, <3>1
  <2>4. QED
    BY <2>1, <2>2, <2>3
<1>15. cut = part
  BY <1>12, <1>13, <1>14, SeqEqual
<1>16. QED
  BY <1>6, <1>8, <1>9, <1>11, <1>15 DEF LiesAt

LEMMA ListOfLength ==
  ASSUME NEW n \in Nat, NEW S, NEW f \in [1 .. n -> S]
  PROVE  f \in Seq(S) /\ Len(f) = n /\ DOMAIN f = 1 .. n
<1>1. f \in Seq(S)
  BY SeqDef
<1>2. Len(f) \in Nat /\ DOMAIN f = 1 .. Len(f)
  BY <1>1, LenProperties
<1>3. 1 .. Len(f) = 1 .. n
  BY <1>2
<1>4. Len(f) = n
  BY <1>2, <1>3
<1>5. QED
  BY <1>1, <1>4

LEMMA TimesNat == \A m, n \in Nat : m * n \in Nat
OBVIOUS

IsProduct(F, shape) ==
  F = [n \in 0 .. Len(shape) |-> IF n = 0 THEN 1 ELSE F[n - 1] * shape[n]]

LEMMA ProductTyped ==
  ASSUME NEW shape \in Seq(Nat) PROVE Product(shape) \in Nat
<1>1. PICK top : top = Len(shape)
  OBVIOUS
<1>2. top \in Nat /\ \A n \in 1 .. top : shape[n] \in Nat
  BY <1>1, ElementOfSeq, LenProperties
<1>3. PICK step : step = [p \in (1 .. top) \X Nat |-> p[2] * shape[p[1]]]
  OBVIOUS
<1>4. step \in [(1 .. top) \X Nat -> Nat]
  BY <1>2, <1>3, TimesNat
<1>4a. PICK F : Stepped(F, top, Nat, 1, step)
  BY <1>2, <1>4, StepByStep
<1>5. /\ F \in [0 .. top -> Nat]
      /\ F[0] = 1 /\ \A n \in 1 .. top : F[n] = step[<< n, F[n - 1] >>]
  BY <1>4a DEF Stepped
<1>6. IsProduct(F, shape)
  <2>1. ASSUME NEW n \in 0 .. top PROVE F[n] = IF n = 0 THEN 1 ELSE F[n - 1] * shape[n]
    <3>1. CASE n = 0
      BY <1>5, <3>1
    <3>2. CASE n # 0
      <4>1. n \in 1 .. top /\ F[n - 1] \in Nat
        BY <1>2, <1>5, <3>2
      <4>2. step[<< n, F[n - 1] >>] = F[n - 1] * shape[n]
        BY <1>3, <4>1
      <4>3. QED
        BY <1>5, <3>2, <4>1, <4>2
    <3>3. QED
      BY <3>1, <3>2
  <2>2. F = [n \in 0 .. top |-> F[n]]
    BY <1>5
  <2>3. QED
    BY <1>1, <2>1, <2>2 DEF IsProduct
<1>7. PICK G : G = CHOOSE H : IsProduct(H, shape)
  OBVIOUS
<1>8. IsProduct(G, shape)
  BY <1>6, <1>7
<1>9. Product(shape) = G[top]
  BY <1>1, <1>7 DEF Product, IsProduct
<1>10. \A n \in 0 .. top : G[n] = IF n = 0 THEN 1 ELSE G[n - 1] * shape[n]
  BY <1>1, <1>8 DEF IsProduct
<1>11. G[0] \in Nat
  BY <1>2, <1>10
<1>12. ASSUME NEW n \in 1 .. top, G[n - 1] \in Nat PROVE G[n] \in Nat
  <2>1. G[n] = G[n - 1] * shape[n] /\ shape[n] \in Nat
    BY <1>2, <1>10
  <2>2. QED
    BY <1>12, <2>1, TimesNat
<1>13. \A n \in 0 .. top : G[n] \in Nat
  BY <1>2, <1>11, <1>12, StaysIn
<1>14. QED
  BY <1>2, <1>9, <1>13

LEMMA DataTyped ==
  ASSUME NEW tensor, tensor.shape \in Seq(Nat)
  PROVE  /\ Data(tensor) \in Seq({tensor.data} \X Nat)
         /\ Len(Data(tensor)) = Product(tensor.shape) * Width(tensor.dtype)
         /\ Values(tensor) \in Seq({tensor.data} \X Nat)
         /\ Len(Values(tensor)) = Product(tensor.shape)
         /\ Len(Data(tensor)) \in Nat /\ Product(tensor.shape) \in Nat
<1>1. PICK count : count = Product(tensor.shape)
  OBVIOUS
<1>2. count \in Nat
  BY <1>1, ProductTyped
<1>3. Width(tensor.dtype) \in Nat
  BY DEF Width
<1>4. PICK bytes : bytes = count * Width(tensor.dtype)
  OBVIOUS
<1>5. bytes \in Nat
  BY <1>2, <1>3, <1>4, TimesNat
<1>6. Data(tensor) \in [1 .. bytes -> {tensor.data} \X Nat]
  BY <1>1, <1>4, <1>5 DEF Data
<1>7. Values(tensor) \in [1 .. count -> {tensor.data} \X Nat]
  BY <1>1, <1>2 DEF Values
<1>8. Data(tensor) \in Seq({tensor.data} \X Nat) /\ Len(Data(tensor)) = bytes
  BY <1>5, <1>6, ListOfLength
<1>9. Values(tensor) \in Seq({tensor.data} \X Nat) /\ Len(Values(tensor)) = count
  BY <1>2, <1>7, ListOfLength
<1>10. QED
  BY <1>1, <1>2, <1>4, <1>5, <1>8, <1>9

-----------------------------------------------------------------------------
(* Lists that are joined keep their places.                                *)
IsJoined(F, lists) ==
  F = [n \in 0 .. Len(lists) |-> IF n = 0 THEN << >> ELSE F[n - 1] \o lists[n]]

ListsOver(lists, V) ==
  Len(lists) \in Nat /\ \A n \in 1 .. Len(lists) : lists[n] \in Seq(V)

LEMMA JoinedSteps ==
  ASSUME NEW V, NEW lists, ListsOver(lists, V)
  PROVE  /\ Joined(lists)[0] = << >>
         /\ \A n \in 1 .. Len(lists) : Joined(lists)[n] = Joined(lists)[n - 1] \o lists[n]
         /\ \A n \in 0 .. Len(lists) : Joined(lists)[n] \in Seq(V)
<1>1. PICK top : top = Len(lists)
  OBVIOUS
<1>2. top \in Nat /\ \A n \in 1 .. top : lists[n] \in Seq(V)
  BY <1>1 DEF ListsOver
<1>3. PICK step : step = [p \in (1 .. top) \X Seq(V) |-> p[2] \o lists[p[1]]]
  OBVIOUS
<1>4. \A s \in Seq(V) : \A n \in 1 .. top : s \o lists[n] \in Seq(V)
  BY <1>2, ConcatProperties
<1>5. step \in [(1 .. top) \X Seq(V) -> Seq(V)]
  BY <1>3, <1>4
<1>6. << >> \in Seq(V)
  BY EmptySeq
<1>7. PICK F : Stepped(F, top, Seq(V), << >>, step)
  BY <1>2, <1>5, <1>6, StepByStep
<1>8. /\ F \in [0 .. top -> Seq(V)]
      /\ F[0] = << >> /\ \A n \in 1 .. top : F[n] = step[<< n, F[n - 1] >>]
  BY <1>7 DEF Stepped
<1>9. IsJoined(F, lists)
  <2>1. ASSUME NEW n \in 0 .. top PROVE F[n] = IF n = 0 THEN << >> ELSE F[n - 1] \o lists[n]
    <3>1. CASE n = 0
      BY <1>8, <3>1
    <3>2. CASE n # 0
      <4>1. n \in 1 .. top /\ F[n - 1] \in Seq(V)
        BY <1>2, <1>8, <3>2
      <4>2. step[<< n, F[n - 1] >>] = F[n - 1] \o lists[n]
        BY <1>3, <4>1
      <4>3. QED
        BY <1>8, <3>2, <4>1, <4>2
    <3>3. QED
      BY <3>1, <3>2
  <2>2. F = [n \in 0 .. top |-> F[n]]
    BY <1>8
  <2>3. QED
    BY <1>1, <2>1, <2>2 DEF IsJoined
<1>10. PICK G : G = CHOOSE H : IsJoined(H, lists)
  OBVIOUS
<1>11. IsJoined(G, lists)
  BY <1>9, <1>10
<1>12. Joined(lists) = G
  BY <1>10 DEF Joined, IsJoined
<1>13. \A n \in 0 .. top : G[n] = IF n = 0 THEN << >> ELSE G[n - 1] \o lists[n]
  BY <1>1, <1>11 DEF IsJoined
<1>14. G[0] = << >> /\ \A n \in 1 .. top : G[n] = G[n - 1] \o lists[n]
  <2>1. 0 \in 0 .. top /\ \A n \in 1 .. top : n \in 0 .. top /\ n # 0
    BY <1>2
  <2>2. QED
    BY <1>13, <2>1
<1>15. ASSUME NEW n \in 1 .. top, G[n - 1] \in Seq(V) PROVE G[n] \in Seq(V)
  <2>1. G[n - 1] \o lists[n] \in Seq(V)
    BY <1>4, <1>15
  <2>2. QED
    BY <1>14, <2>1
<1>16. \A n \in 0 .. top : G[n] \in Seq(V)
  <2>1. PICK S : S = Seq(V)
    OBVIOUS
  <2>2. G[0] \in S /\ \A n \in 1 .. top : G[n - 1] \in S => G[n] \in S
    BY <1>6, <1>14, <1>15, <2>1
  <2>3. \A n \in 0 .. top : G[n] \in S
    BY <1>2, <2>2, StaysIn
  <2>4. QED
    BY <2>1, <2>3
<1>17. QED
  BY <1>1, <1>12, <1>14, <1>16

LEMMA JoinedPart ==
  ASSUME NEW V, NEW lists, ListsOver(lists, V), NEW n \in 1 .. Len(lists)
  PROVE  LiesAt(Joined(lists)[Len(lists)], Len(Joined(lists)[n - 1]), lists[n])
<1>1. PICK F, top : F = Joined(lists) /\ top = Len(lists)
  OBVIOUS
<1>2. /\ F[0] = << >> /\ \A k \in 1 .. top : F[k] = F[k - 1] \o lists[k]
      /\ \A k \in 0 .. top : F[k] \in Seq(V)
  BY <1>1, JoinedSteps
<1>3. top \in Nat /\ \A k \in 1 .. top : lists[k] \in Seq(V)
  BY <1>1 DEF ListsOver
<1>4. Growing(F, top, V)
  BY <1>2, <1>3 DEF Growing, Extends
<1>5. PICK before, part : before = F[n - 1] /\ part = lists[n]
  OBVIOUS
<1>6. before \in Seq(V) /\ part \in Seq(V) /\ EndsIn(F[n], before, part) /\ n \in 1 .. top
  <2>1. n \in 1 .. top /\ n - 1 \in 0 .. top
    BY <1>1, <1>3
  <2>2. QED
    BY <1>2, <1>3, <1>5, <2>1 DEF EndsIn
<1>7. LiesAt(F[top], Len(before), part)
  BY <1>3, <1>4, <1>6, PutBehind
<1>8. QED
  BY <1>1, <1>5, <1>7

-----------------------------------------------------------------------------
(* Constants that are packed keep their places.                            *)
LEMMA ListPlaces ==
  ASSUME NEW s, List(s)
  PROVE  Len(s) \in Nat /\ DOMAIN s = 1 .. Len(s)
BY LenProperties DEF List

PackedBytes(g) == ({g.tensors[t].data : t \in DOMAIN g.tensors} \cup {"padding"}) \X Nat

Shaped(g) ==
  List(g.tensors) /\ \A t \in DOMAIN g.tensors : g.tensors[t].shape \in Seq(Nat)

Here(g, kind, t) == g.tensors[t].constant /\ blob_of(g, t) = kind

LEMMA AlignedTyped ==
  ASSUME NEW g, NEW blob \in Seq(PackedBytes(g))
  PROVE  /\ Aligned(blob) \in Seq(PackedBytes(g))
         /\ Extends(Aligned(blob), blob, PackedBytes(g))
<1>1. PICK V : V = PackedBytes(g)
  OBVIOUS
<1>2. PICK size, count : size = Len(blob) /\ count = (-size) % BlobAlignment
  OBVIOUS
<1>3. size \in Nat
  BY <1>2, LenProperties
<1>4. count \in Nat
  BY <1>2, <1>3, PackageAssumption DEF PackageAssumption
<1>5. << "padding", 0 >> \in V
  BY <1>1 DEF PackedBytes
<1>6. PICK pad : pad = [k \in 1 .. count |-> << "padding", 0 >>]
  OBVIOUS
<1>7. pad \in [1 .. count -> V]
  BY <1>5, <1>6
<1>8. pad \in Seq(V)
  BY <1>4, <1>7, ListOfLength
<1>9. Aligned(blob) = blob \o pad
  BY <1>2, <1>6 DEF Aligned
<1>10. blob \o pad \in Seq(V)
  BY <1>1, <1>8, ConcatProperties
<1>11. QED
  BY <1>1, <1>8, <1>9, <1>10 DEF Extends

IsPacked(F, g, kind) ==
  F = [t \in 0 .. Len(g.tensors) |->
        IF t = 0 THEN << >>
        ELSE IF g.tensors[t].constant /\ blob_of(g, t) = kind
               THEN Aligned(F[t - 1]) \o Data(g.tensors[t])
               ELSE F[t - 1]]

(* One turn of the loop. *)
Turn(g, kind, t, blob) ==
  IF Here(g, kind, t) THEN Aligned(blob) \o Data(g.tensors[t]) ELSE blob

LEMMA DataBytes ==
  ASSUME NEW g, Shaped(g), NEW t \in 1 .. Len(g.tensors)
  PROVE  Data(g.tensors[t]) \in Seq(PackedBytes(g))
<1>1. t \in DOMAIN g.tensors
  BY ListPlaces DEF Shaped
<1>2. g.tensors[t].shape \in Seq(Nat)
  BY <1>1 DEF Shaped
<1>3. Data(g.tensors[t]) \in Seq({g.tensors[t].data} \X Nat)
  BY <1>2, DataTyped
<1>4. {g.tensors[t].data} \X Nat \subseteq PackedBytes(g)
  BY <1>1 DEF PackedBytes
<1>5. QED
  BY <1>3, <1>4, SeqMonotonic

LEMMA TurnTyped ==
  ASSUME NEW g, Shaped(g), NEW kind, NEW t \in 1 .. Len(g.tensors), NEW blob \in Seq(PackedBytes(g))
  PROVE  Turn(g, kind, t, blob) \in Seq(PackedBytes(g))
<1>1. PICK a, d : a = Aligned(blob) /\ d = Data(g.tensors[t])
  OBVIOUS
<1>2. a \in Seq(PackedBytes(g)) /\ d \in Seq(PackedBytes(g))
  BY <1>1, AlignedTyped, DataBytes
<1>3. a \o d \in Seq(PackedBytes(g))
  BY <1>2, ConcatProperties
<1>4. QED
  BY <1>1, <1>3 DEF Turn

LEMMA PackedSteps ==
  ASSUME NEW g, Shaped(g), NEW kind
  PROVE  /\ Packed(g, kind)[0] = << >>
         /\ \A t \in 1 .. Len(g.tensors) :
              Packed(g, kind)[t] = Turn(g, kind, t, Packed(g, kind)[t - 1])
         /\ \A t \in 0 .. Len(g.tensors) : Packed(g, kind)[t] \in Seq(PackedBytes(g))
<1>1. PICK top, S : top = Len(g.tensors) /\ S = Seq(PackedBytes(g))
  OBVIOUS
<1>2. top \in Nat
  BY <1>1, ListPlaces DEF Shaped
<1>3. PICK step : step = [p \in (1 .. top) \X S |-> Turn(g, kind, p[1], p[2])]
  OBVIOUS
<1>4. \A t \in 1 .. top : \A blob \in S : Turn(g, kind, t, blob) \in S
  BY <1>1, TurnTyped
<1>5. step \in [(1 .. top) \X S -> S]
  BY <1>3, <1>4
<1>6. << >> \in S
  BY <1>1, EmptySeq
<1>7. PICK F : Stepped(F, top, S, << >>, step)
  BY <1>2, <1>5, <1>6, StepByStep
<1>8. /\ F \in [0 .. top -> S]
      /\ F[0] = << >> /\ \A t \in 1 .. top : F[t] = step[<< t, F[t - 1] >>]
  BY <1>7 DEF Stepped
<1>9. IsPacked(F, g, kind)
  <2>1. ASSUME NEW t \in 0 .. top
        PROVE  F[t] = IF t = 0 THEN << >> ELSE Turn(g, kind, t, F[t - 1])
    <3>1. CASE t = 0
      BY <1>8, <3>1
    <3>2. CASE t # 0
      <4>1. t \in 1 .. top /\ F[t - 1] \in S
        BY <1>2, <1>8, <3>2
      <4>2. step[<< t, F[t - 1] >>] = Turn(g, kind, t, F[t - 1])
        BY <1>3, <4>1
      <4>3. QED
        BY <1>8, <3>2, <4>1, <4>2
    <3>3. QED
      BY <3>1, <3>2
  <2>2. F = [t \in 0 .. top |-> F[t]]
    BY <1>8
  <2>3. F = [t \in 0 .. top |-> IF t = 0 THEN << >> ELSE Turn(g, kind, t, F[t - 1])]
    BY <2>1, <2>2
  <2>4. QED
    BY <1>1, <2>3 DEF IsPacked, Turn, Here
<1>10. PICK G : G = CHOOSE H : IsPacked(H, g, kind)
  OBVIOUS
<1>11. IsPacked(G, g, kind)
  BY <1>9, <1>10
<1>12. Packed(g, kind) = G
  BY <1>10 DEF Packed, IsPacked
<1>13. \A t \in 0 .. top : G[t] = IF t = 0 THEN << >> ELSE Turn(g, kind, t, G[t - 1])
  BY <1>1, <1>11 DEF IsPacked, Turn, Here
<1>14. G[0] = << >> /\ \A t \in 1 .. top : G[t] = Turn(g, kind, t, G[t - 1])
  <2>1. 0 \in 0 .. top /\ \A t \in 1 .. top : t \in 0 .. top /\ t # 0
    BY <1>2
  <2>2. QED
    BY <1>13, <2>1
<1>15. ASSUME NEW t \in 1 .. top, G[t - 1] \in S PROVE G[t] \in S
  BY <1>4, <1>14, <1>15
<1>16. \A t \in 0 .. top : G[t] \in S
  BY <1>2, <1>6, <1>14, <1>15, StaysIn
<1>17. QED
  BY <1>1, <1>12, <1>14, <1>16

LEMMA TurnExtends ==
  ASSUME NEW g, Shaped(g), NEW kind, NEW t \in 1 .. Len(g.tensors), NEW blob \in Seq(PackedBytes(g))
  PROVE  Extends(Turn(g, kind, t, blob), blob, PackedBytes(g))
<1>1. PICK a, d, V : a = Aligned(blob) /\ d = Data(g.tensors[t]) /\ V = PackedBytes(g)
  OBVIOUS
<1>2. d \in Seq(V) /\ Extends(a, blob, V) /\ blob \in Seq(V)
  BY <1>1, AlignedTyped, DataBytes
<1>3. PICK e : e = a \o d
  OBVIOUS
<1>4. Extends(e, a, V)
  BY <1>2, <1>3 DEF Extends
<1>5. Extends(e, blob, V)
  BY <1>2, <1>4, ExtendsMore
<1>6. << >> \in Seq(V) /\ blob \o << >> = blob
  BY <1>2, EmptySeq, ConcatEmptySeq
<1>7. Extends(blob, blob, V)
  BY <1>6 DEF Extends
<1>8. QED
  BY <1>1, <1>3, <1>5, <1>7 DEF Turn

LEMMA PackedPart ==
  ASSUME NEW g, Shaped(g), NEW t \in DOMAIN g.tensors, g.tensors[t].constant
  PROVE  Slice(Blob(g, blob_of(g, t)), offset_of(g, t), Len(Data(g.tensors[t])))
           = Data(g.tensors[t])
<1>1. PICK kind, top, V : kind = blob_of(g, t) /\ top = Len(g.tensors) /\ V = PackedBytes(g)
  OBVIOUS
<1>2. PICK F : F = Packed(g, kind)
  OBVIOUS
<1>3. top \in Nat /\ t \in 1 .. top /\ t - 1 \in 0 .. top
  BY <1>1, ListPlaces DEF Shaped
<1>4. /\ F[0] = << >> /\ \A k \in 1 .. top : F[k] = Turn(g, kind, k, F[k - 1])
      /\ \A k \in 0 .. top : F[k] \in Seq(V)
  BY <1>1, <1>2, PackedSteps
<1>5. ASSUME NEW k \in 1 .. top PROVE Extends(F[k], F[k - 1], V)
  <2>1. F[k - 1] \in Seq(V)
    BY <1>3, <1>4
  <2>2. QED
    BY <1>1, <1>4, <2>1, TurnExtends
<1>6. Growing(F, top, V)
  BY <1>4, <1>5 DEF Growing
<1>7. PICK before, part : before = Aligned(F[t - 1]) /\ part = Data(g.tensors[t])
  OBVIOUS
<1>8. before \in Seq(V) /\ part \in Seq(V)
  <2>1. F[t - 1] \in Seq(V)
    BY <1>3, <1>4
  <2>2. QED
    BY <1>1, <1>3, <1>7, <2>1, AlignedTyped, DataBytes
<1>9. EndsIn(F[t], before, part)
  BY <1>1, <1>3, <1>4, <1>7 DEF EndsIn, Turn, Here
<1>10. LiesAt(F[top], Len(before), part)
  BY <1>3, <1>6, <1>8, <1>9, PutBehind
<1>11. Blob(g, kind) = F[top] /\ offset_of(g, t) = Len(before)
  BY <1>1, <1>2, <1>7 DEF Blob, offset_of
<1>12. QED
  BY <1>1, <1>7, <1>10, <1>11 DEF LiesAt

-----------------------------------------------------------------------------
(* Reference data is split where it was joined. *)
ReferenceElements(g) == {g.tensors[t].data : t \in DOMAIN g.tensors} \X Nat

LEMMA ReferenceTyped ==
  ASSUME NEW g, Shaped(g), NEW names, names \in Seq(DOMAIN g.tensors)
  PROVE  /\ ListsOver(ReferenceLists(g, names), ReferenceElements(g))
         /\ Len(names) \in Nat /\ Len(ReferenceLists(g, names)) = Len(names)
         /\ \A n \in 1 .. Len(names) :
              /\ ReferenceLists(g, names)[n] = Values(g.tensors[names[n]])
              /\ Len(ReferenceLists(g, names)[n]) = Product(g.tensors[names[n]].shape)
              /\ Product(g.tensors[names[n]].shape) \in Nat
<1>1. PICK top, lists, V :
        top = Len(names) /\ lists = ReferenceLists(g, names) /\ V = ReferenceElements(g)
  OBVIOUS
<1>2. top \in Nat /\ DOMAIN names = 1 .. top /\ \A n \in 1 .. top : names[n] \in DOMAIN g.tensors
  BY <1>1, LenProperties, ElementOfSeq
<1>3. lists = [n \in 1 .. top |-> Values(g.tensors[names[n]])]
  BY <1>1, <1>2 DEF ReferenceLists
<1>4. ASSUME NEW n \in 1 .. top
      PROVE  /\ Values(g.tensors[names[n]]) \in Seq(V)
             /\ Len(Values(g.tensors[names[n]])) = Product(g.tensors[names[n]].shape)
             /\ Product(g.tensors[names[n]].shape) \in Nat
  <2>1. PICK t : t = names[n] /\ t \in DOMAIN g.tensors
    BY <1>2
  <2>2. g.tensors[t].shape \in Seq(Nat)
    BY <2>1 DEF Shaped
  <2>3. /\ Values(g.tensors[t]) \in Seq({g.tensors[t].data} \X Nat)
        /\ Len(Values(g.tensors[t])) = Product(g.tensors[t].shape)
        /\ Product(g.tensors[t].shape) \in Nat
    BY <2>2, DataTyped
  <2>4. {g.tensors[t].data} \X Nat \subseteq V
    BY <1>1, <2>1 DEF ReferenceElements
  <2>5. Values(g.tensors[t]) \in Seq(V)
    BY <2>3, <2>4, SeqMonotonic
  <2>6. QED
    BY <2>1, <2>3, <2>5
<1>5. lists \in [1 .. top -> Seq(V)]
  BY <1>3, <1>4
<1>6. Len(lists) = top
  BY <1>2, <1>5, ListOfLength
<1>7. ListsOver(lists, V)
  BY <1>2, <1>5, <1>6 DEF ListsOver
<1>8. QED
  BY <1>1, <1>2, <1>3, <1>4, <1>6, <1>7

IsCursor(F, g) ==
  F = [n \in 0 .. Len(g.inputs) |->
        IF n = 0 THEN 0 ELSE F[n - 1] + Product(g.tensors[g.inputs[n]].shape)]

LEMMA CursorAt ==
  ASSUME NEW b, NEW g, b["graph.json"] = g, Shaped(g), g.inputs \in Seq(DOMAIN g.tensors)
  PROVE  \A n \in 0 .. Len(g.inputs) :
           InputCursor(b)[n] = Len(Joined(ReferenceLists(g, g.inputs))[n])
<1>1. PICK top, lists, V : /\ top = Len(g.inputs) /\ lists = ReferenceLists(g, g.inputs)
                           /\ V = ReferenceElements(g)
  OBVIOUS
<1>2. PICK J : J = Joined(lists)
  OBVIOUS
<1>3. /\ ListsOver(lists, V) /\ top \in Nat /\ Len(lists) = top
      /\ \A n \in 1 .. top : Len(lists[n]) = Product(g.tensors[g.inputs[n]].shape)
  BY <1>1, ReferenceTyped
<1>4. /\ J[0] = << >> /\ \A n \in 1 .. top : J[n] = J[n - 1] \o lists[n]
      /\ \A n \in 0 .. top : J[n] \in Seq(V)
  BY <1>2, <1>3, JoinedSteps
<1>5. ASSUME NEW n \in 1 .. top PROVE Len(J[n]) = Len(J[n - 1]) + Len(lists[n])
  <2>1. J[n - 1] \in Seq(V) /\ lists[n] \in Seq(V)
    <3>1. n - 1 \in 0 .. top
      BY <1>3
    <3>2. QED
      BY <1>3, <1>4, <3>1 DEF ListsOver
  <2>2. Len(J[n - 1] \o lists[n]) = Len(J[n - 1]) + Len(lists[n])
    BY <2>1, ConcatProperties
  <2>3. QED
    BY <1>4, <2>2
<1>6. PICK F : F = [n \in 0 .. top |-> Len(J[n])]
  OBVIOUS
<1>7. IsCursor(F, g)
  <2>1. ASSUME NEW n \in 0 .. top
        PROVE  F[n] = IF n = 0 THEN 0 ELSE F[n - 1] + Product(g.tensors[g.inputs[n]].shape)
    <3>1. CASE n = 0
      BY <1>4, <1>6, <3>1, EmptySeq
    <3>2. CASE n # 0
      <4>1. n \in 1 .. top /\ n - 1 \in 0 .. top
        BY <1>3, <3>2
      <4>2. QED
        BY <1>3, <1>5, <1>6, <3>2, <4>1
    <3>3. QED
      BY <3>1, <3>2
  <2>2. F = [n \in 0 .. top |->
              IF n = 0 THEN 0 ELSE F[n - 1] + Product(g.tensors[g.inputs[n]].shape)]
    BY <1>6, <2>1
  <2>3. QED
    BY <1>1, <2>2 DEF IsCursor
<1>8. PICK G : G = CHOOSE H : IsCursor(H, g)
  OBVIOUS
<1>9. IsCursor(G, g)
  BY <1>7, <1>8
<1>10. InputCursor(b) = G
  BY <1>8 DEF InputCursor, IsCursor
<1>11. \A n \in 0 .. top :
         G[n] = IF n = 0 THEN 0 ELSE G[n - 1] + Product(g.tensors[g.inputs[n]].shape)
  BY <1>1, <1>9 DEF IsCursor
<1>12. PICK P : P = {n \in 0 .. top : G[n] = Len(J[n])}
  OBVIOUS
<1>13. 0 \in P
  BY <1>3, <1>4, <1>11, <1>12, EmptySeq
<1>14. ASSUME NEW k \in 0 .. top - 1, k \in P PROVE k + 1 \in P
  <2>1. PICK n : n = k + 1
    OBVIOUS
  <2>2. n \in 1 .. top /\ n \in 0 .. top /\ n # 0 /\ n - 1 = k
    BY <1>3, <2>1
  <2>3. G[n] = G[k] + Product(g.tensors[g.inputs[n]].shape)
    BY <1>11, <2>2
  <2>4. G[k] = Len(J[k])
    BY <1>12, <1>14
  <2>5. G[n] = Len(J[n])
    BY <1>3, <1>5, <2>2, <2>3, <2>4
  <2>6. QED
    BY <1>12, <2>1, <2>2, <2>5
<1>15. \A k \in 0 .. top : k \in P
  BY <1>3, <1>13, <1>14, CountUp
<1>16. QED
  BY <1>1, <1>2, <1>10, <1>12, <1>15

LEMMA ReferenceSplit ==
  ASSUME NEW b, NEW g, b["graph.json"] = g, Shaped(g), g.inputs \in Seq(DOMAIN g.tensors),
         b["reference_input.bin"] = ReferenceData(g, g.inputs)
  PROVE  /\ NothingTrails(b)
         /\ \A i \in DOMAIN g.inputs : ReferenceInput(b, i) = Values(g.tensors[g.inputs[i]])
<1>1. PICK top, lists, V : /\ top = Len(g.inputs) /\ lists = ReferenceLists(g, g.inputs)
                           /\ V = ReferenceElements(g)
  OBVIOUS
<1>2. PICK J : J = Joined(lists)
  OBVIOUS
<1>3. /\ ListsOver(lists, V) /\ top \in Nat /\ Len(lists) = top
      /\ \A n \in 1 .. top : /\ lists[n] = Values(g.tensors[g.inputs[n]])
                             /\ Len(lists[n]) = Product(g.tensors[g.inputs[n]].shape)
  BY <1>1, ReferenceTyped
<1>4. \A n \in 0 .. top : InputCursor(b)[n] = Len(J[n])
  BY <1>1, <1>2, CursorAt
<1>5. b["reference_input.bin"] = J[top]
  BY <1>1, <1>2 DEF ReferenceData
<1>6. NothingTrails(b)
  BY <1>1, <1>3, <1>4, <1>5 DEF NothingTrails
<1>7. ASSUME NEW i \in DOMAIN g.inputs
      PROVE  ReferenceInput(b, i) = Values(g.tensors[g.inputs[i]])
  <2>1. i \in 1 .. top /\ i - 1 \in 0 .. top
    BY <1>1, <1>3, LenProperties
  <2>2. LiesAt(J[top], Len(J[i - 1]), lists[i])
    BY <1>2, <1>3, <2>1, JoinedPart
  <2>3. Slice(J[top], Len(J[i - 1]), Len(lists[i])) = lists[i]
    BY <2>2 DEF LiesAt
  <2>4. ReferenceInput(b, i) = Slice(J[top], Len(J[i - 1]), Len(lists[i]))
    BY <1>3, <1>4, <1>5, <2>1 DEF ReferenceInput
  <2>5. QED
    BY <1>3, <2>1, <2>3, <2>4
<1>8. QED
  BY <1>6, <1>7

-----------------------------------------------------------------------------
(* So are the parameters of the channels. *)
ChannelSet(g) ==
  UNION {{g.operations[i].channels[k] : k \in DOMAIN g.operations[i].channels} :
           i \in DOMAIN g.operations}

LEMMA DivideRecords == \A n \in Nat : (RecordSize * n) \div RecordSize = n
BY DEF RecordSize

LEMMA ChannelsFound ==
  ASSUME NEW g, Quantized(g), NEW i \in DOMAIN g.operations, Linear(g.operations[i])
  PROVE  LiesAt(Joined(ChannelLists(g))[Len(g.operations)],
                quantization_offset(g, i) \div RecordSize, g.operations[i].channels)
<1>1. PICK top, lists, V : /\ top = Len(g.operations) /\ lists = ChannelLists(g)
                           /\ V = ChannelSet(g)
  OBVIOUS
<1>2. top \in Nat /\ DOMAIN g.operations = 1 .. top
  BY <1>1, ListPlaces DEF Quantized
<1>3. lists = [n \in 1 .. top |->
                IF Linear(g.operations[n]) THEN g.operations[n].channels ELSE << >>]
  BY <1>1, <1>2 DEF ChannelLists
<1>4. ASSUME NEW n \in 1 .. top PROVE lists[n] \in Seq(V)
  <2>1. CASE Linear(g.operations[n])
    <3>1. PICK c : c = g.operations[n].channels
      OBVIOUS
    <3>2. List(c)
      BY <1>2, <2>1, <3>1 DEF Quantized
    <3>3. c \in Seq({c[k] : k \in DOMAIN c})
      BY <3>2 DEF List
    <3>4. {c[k] : k \in DOMAIN c} \subseteq V
      BY <1>1, <1>2, <3>1 DEF ChannelSet
    <3>5. c \in Seq(V)
      BY <3>3, <3>4, SeqMonotonic
    <3>6. QED
      BY <1>3, <2>1, <3>1, <3>5
  <2>2. CASE ~Linear(g.operations[n])
    BY <1>3, <2>2, EmptySeq
  <2>3. QED
    BY <2>1, <2>2
<1>5. lists \in [1 .. top -> Seq(V)]
  BY <1>3, <1>4
<1>6. Len(lists) = top
  BY <1>2, <1>5, ListOfLength
<1>7. ListsOver(lists, V)
  BY <1>2, <1>4, <1>6 DEF ListsOver
<1>8. i \in 1 .. Len(lists) /\ i - 1 \in 0 .. Len(lists)
  BY <1>2, <1>6
<1>9. PICK J : J = Joined(lists)
  OBVIOUS
<1>10. LiesAt(J[top], Len(J[i - 1]), lists[i])
  BY <1>6, <1>7, <1>8, <1>9, JoinedPart
<1>11. lists[i] = g.operations[i].channels
  BY <1>2, <1>3
<1>12. J[i - 1] \in Seq(V)
  BY <1>7, <1>8, <1>9, JoinedSteps
<1>13. PICK n : n = Len(J[i - 1]) /\ n \in Nat
  BY <1>12, LenProperties
<1>14. quantization_offset(g, i) = RecordSize * n
  BY <1>1, <1>9, <1>13 DEF quantization_offset
<1>15. quantization_offset(g, i) \div RecordSize = n
  BY <1>13, <1>14, DivideRecords
<1>16. QED
  BY <1>1, <1>9, <1>10, <1>11, <1>13, <1>15

-----------------------------------------------------------------------------
(* A directory with what is packed of a graph. *)
PackedBundle(b, g) ==
  /\ Quantized(g) /\ b["graph.json"] = g
  /\ b["commands.bin"] = [i \in DOMAIN g.operations |-> CommandOf(g, PackedLocations(g), i)]
  /\ b["weights.bin"] = Blob(g, "weights") /\ b["biases.bin"] = Blob(g, "biases")
  /\ b["quantization.bin"] = Joined(ChannelLists(g))[Len(g.operations)]
  /\ b["schedule.json"] = [i \in DOMAIN g.operations |-> g.operations[i].name]
  /\ b["reference_input.bin"] = ReferenceData(g, g.inputs)
  /\ b["manifest.json"].locations = PackedLocations(g)

LEMMA GraphShaped ==
  ASSUME NEW g, Quantized(g)
  PROVE  Shaped(g) /\ g.inputs \in Seq(DOMAIN g.tensors)
BY DEF Quantized, Shaped

(* The constant a linear operation takes at its place k lies in that       *)
(* blob, where its location says.                                          *)
OperandLies(g, i, k, kind) ==
  LET t == g.operations[i].inputs[k]
      at == PackedLocations(g)[t]
  IN  /\ t \in DOMAIN g.tensors /\ k \in DOMAIN g.operations[i].inputs
      /\ t \in DOMAIN PackedLocations(g) /\ at.size = Len(Data(g.tensors[t]))
      /\ Slice(Blob(g, kind), at.offset, Len(Data(g.tensors[t]))) = Data(g.tensors[t])

LEMMA OperandsFound ==
  ASSUME NEW g, Quantized(g), NEW i \in DOMAIN g.operations, Linear(g.operations[i])
  PROVE  OperandLies(g, i, 2, "weights") /\ OperandLies(g, i, 3, "biases")
<1>1. PICK op : op = g.operations[i]
  OBVIOUS
<1>2. /\ DOMAIN op.inputs = 1 .. 3
      /\ \A k \in 2 .. 3 : /\ op.inputs[k] \in DOMAIN g.tensors
                           /\ g.tensors[op.inputs[k]].constant
      /\ \A j \in DOMAIN g.operations :
           Linear(g.operations[j]) => g.operations[j].inputs[2] # op.inputs[3]
  BY <1>1 DEF Quantized
<1>3. blob_of(g, op.inputs[2]) = "weights"
  BY <1>1 DEF blob_of
<1>4. blob_of(g, op.inputs[3]) = "biases"
  BY <1>1, <1>2 DEF blob_of
<1>5. ASSUME NEW k \in 2 .. 3, NEW kind, blob_of(g, op.inputs[k]) = kind
      PROVE  OperandLies(g, i, k, kind)
  <2>1. PICK t, L : t = op.inputs[k] /\ L = PackedLocations(g)
    OBVIOUS
  <2>2. t \in DOMAIN g.tensors /\ g.tensors[t].constant /\ k \in DOMAIN op.inputs
    BY <1>2, <2>1
  <2>3. t \in DOMAIN L /\ L[t].offset = offset_of(g, t) /\ L[t].size = Len(Data(g.tensors[t]))
    BY <2>1, <2>2 DEF PackedLocations
  <2>4. Slice(Blob(g, blob_of(g, t)), offset_of(g, t), Len(Data(g.tensors[t]))) = Data(g.tensors[t])
    BY <2>2, GraphShaped, PackedPart
  <2>5. QED
    BY <1>1, <1>5, <2>1, <2>2, <2>3, <2>4 DEF OperandLies
<1>6. QED
  BY <1>3, <1>4, <1>5, <1>1

(* What a command says of a linear operation. *)
LEMMA CommandFacts ==
  ASSUME NEW b, NEW g, PackedBundle(b, g), NEW i \in DOMAIN g.operations
  PROVE  /\ b["commands.bin"][i].opcode = Opcode(g.operations[i].type)
         /\ b["commands.bin"][i].backend = BackendCode(g.operations[i].backend)
         /\ b["commands.bin"][i].index = i - 1
         /\ b["commands.bin"][i].flag = g.operations[i].relu
         /\ b["commands.bin"][i].quantization_offset = quantization_offset(g, i)
         /\ Linear(g.operations[i]) =>
              /\ b["commands.bin"][i].weight_offset
                   = PackedLocations(g)[g.operations[i].inputs[2]].offset
              /\ b["commands.bin"][i].bias_offset
                   = PackedLocations(g)[g.operations[i].inputs[3]].offset
<1>1. b["commands.bin"][i] = CommandOf(g, PackedLocations(g), i)
  BY DEF PackedBundle
<1>2. Linear(g.operations[i]) => OperandLies(g, i, 2, "weights") /\ OperandLies(g, i, 3, "biases")
  BY OperandsFound DEF PackedBundle
<1>3. QED
  BY <1>1, <1>2 DEF CommandOf, OperandLies

LEMMA PayloadFound ==
  ASSUME NEW b, NEW g, PackedBundle(b, g), NEW i \in DOMAIN g.operations
  PROVE  PayloadMatches(b, i)
<1>1. /\ b["graph.json"] = g /\ b["schedule.json"][i] = g.operations[i].name
      /\ b["weights.bin"] = Blob(g, "weights") /\ b["biases.bin"] = Blob(g, "biases")
  BY DEF PackedBundle
<1>2. BackendCode(g.operations[i].backend) \in 1 .. 3
  <2>1. g.operations[i].backend \in {"fpga", "arm", "metadata"}
    BY DEF PackedBundle, Quantized
  <2>2. QED
    BY <2>1 DEF BackendCode
<1>3. Linear(g.operations[i]) => OperandLies(g, i, 2, "weights") /\ OperandLies(g, i, 3, "biases")
  BY OperandsFound DEF PackedBundle
<1>4. /\ g.operations[i].type \in DOMAIN Opcodes
      /\ b["commands.bin"][i].opcode = Opcodes[g.operations[i].type]
  <2>1. g.operations[i].type \in DOMAIN Opcodes
    BY DEF PackedBundle, Quantized
  <2>2. QED
    BY <2>1, CommandFacts DEF Opcode
<1>5. QED
  BY <1>1, <1>2, <1>3, <1>4, CommandFacts DEF PayloadMatches, OperandLies

LEMMA BundleSimulates ==
  ASSUME NEW b, NEW g, PackedBundle(b, g)
  PROVE  /\ Simulates(b)
         /\ \A i \in DOMAIN g.inputs : ReferenceInput(b, i) = Values(g.tensors[g.inputs[i]])
<1>1. PICK top, commands : top = Len(g.operations) /\ commands = b["commands.bin"]
  OBVIOUS
<1>2. top \in Nat /\ DOMAIN g.operations = 1 .. top
  BY <1>1, ListPlaces DEF PackedBundle, Quantized
<1>3. commands = [i \in 1 .. top |-> CommandOf(g, PackedLocations(g), i)]
  BY <1>1, <1>2 DEF PackedBundle
<1>4. PICK S : S = {commands[i] : i \in 1 .. top}
  OBVIOUS
<1>5. commands \in [1 .. top -> S]
  BY <1>3, <1>4
<1>6. Len(commands) = top /\ DOMAIN commands = 1 .. top
  BY <1>2, <1>5, ListOfLength
<1>7. \A i \in 1 .. top : commands[i].index = i - 1 /\ PayloadMatches(b, i)
  BY <1>1, <1>2, CommandFacts, PayloadFound
<1>8. /\ b["graph.json"] = g /\ Shaped(g) /\ g.inputs \in Seq(DOMAIN g.tensors)
      /\ b["reference_input.bin"] = ReferenceData(g, g.inputs)
  BY GraphShaped DEF PackedBundle
<1>9. /\ NothingTrails(b)
      /\ \A i \in DOMAIN g.inputs : ReferenceInput(b, i) = Values(g.tensors[g.inputs[i]])
  BY <1>8, ReferenceSplit
<1>10. QED
  BY <1>1, <1>6, <1>7, <1>8, <1>9 DEF Simulates

LEMMA LinearRead ==
  ASSUME NEW b, NEW g, PackedBundle(b, g), NEW i \in DOMAIN g.operations,
         Linear(g.operations[i])
  PROVE  LET op    == g.operations[i]
             first == b["commands.bin"][i].quantization_offset \div RecordSize
         IN  /\ op.channels = SubSeq(b["quantization.bin"], first + 1, first + Len(op.channels))
             /\ Programmed(b, i).WEIGHT_LENGTH = b["manifest.json"].locations[op.inputs[2]].size
<1>1. PICK op, t : op = g.operations[i] /\ t = op.inputs[2]
  OBVIOUS
<1>2. LiesAt(b["quantization.bin"], b["commands.bin"][i].quantization_offset \div RecordSize,
             op.channels)
  BY <1>1, ChannelsFound, CommandFacts DEF PackedBundle
<1>3. /\ t \in DOMAIN g.tensors /\ PackedLocations(g)[t].size = Len(Data(g.tensors[t]))
  BY <1>1, OperandsFound DEF PackedBundle, OperandLies
<1>4. g.tensors[t].dtype = "int8" /\ g.tensors[t].shape \in Seq(Nat)
  BY <1>1, <1>3 DEF PackedBundle, Quantized
<1>5. PICK count : count = Product(g.tensors[t].shape)
  OBVIOUS
<1>6. Len(Data(g.tensors[t])) = count
  <2>1. Len(Data(g.tensors[t])) = count * 1 /\ count \in Nat
    BY <1>4, <1>5, DataTyped DEF Width
  <2>2. QED
    BY <2>1
<1>7. Programmed(b, i).WEIGHT_LENGTH = count
  BY <1>1, <1>5 DEF Programmed, PackedBundle
<1>8. Programmed(b, i).WEIGHT_LENGTH = b["manifest.json"].locations[t].size
  BY <1>3, <1>6, <1>7 DEF PackedBundle
<1>9. QED
  BY <1>1, <1>2, <1>8 DEF LiesAt

LEMMA AcceptedRead ==
  ASSUME NEW b, NEW g, PackedBundle(b, g), Accepted(b)
  PROVE  LET op  == g.operations[1]
             run == Invocation(b)
         IN  /\ run.weights = Data(g.tensors[op.inputs[2]])
             /\ run.biases = Data(g.tensors[op.inputs[3]])
             /\ run.channels = op.channels /\ run.relu = Programmed(b, 1).FLAGS
<1>1. PICK op : op = g.operations[1]
  OBVIOUS
<1>2. /\ b["graph.json"] = g /\ b["manifest.json"].locations = PackedLocations(g)
      /\ b["weights.bin"] = Blob(g, "weights") /\ b["biases.bin"] = Blob(g, "biases")
      /\ Quantized(g)
  BY DEF PackedBundle
<1>3. Len(g.operations) = 1 /\ op.type = "Conv"
      /\ << g.tensors[op.inputs[1]].shape, g.tensors[op.inputs[2]].shape,
            g.tensors[op.inputs[3]].shape, g.tensors[op.output].shape >> = RtlShapes
  BY <1>1, <1>2 DEF Accepted
<1>3a. g.tensors[op.inputs[2]].shape = RtlShapes[2]
  BY <1>3
<1>4. 1 \in DOMAIN g.operations /\ Linear(op)
  <2>1. List(g.operations)
    BY <1>2 DEF Quantized
  <2>2. DOMAIN g.operations = 1 .. 1
    BY <1>3, <2>1, ListPlaces
  <2>3. Linear(op)
    BY <1>3 DEF Linear
  <2>4. QED
    BY <2>2, <2>3
<1>5. OperandLies(g, 1, 2, "weights") /\ OperandLies(g, 1, 3, "biases")
  BY <1>1, <1>2, <1>4, OperandsFound
<1>6. Len(op.channels) = RtlShapes[2][1]
  BY <1>1, <1>2, <1>3, <1>3a, <1>4 DEF Quantized
<1>7. LET first == b["commands.bin"][1].quantization_offset \div RecordSize
      IN  op.channels = SubSeq(b["quantization.bin"], first + 1, first + Len(op.channels))
  BY <1>1, <1>4, LinearRead
<1>8. b["commands.bin"][1].flag = op.relu
  BY <1>1, <1>4, CommandFacts
<1>9. Invocation(b).weights = Data(g.tensors[op.inputs[2]])
  BY <1>1, <1>2, <1>5 DEF Invocation, OperandLies
<1>10. Invocation(b).biases = Data(g.tensors[op.inputs[3]])
  BY <1>1, <1>2, <1>5 DEF Invocation, OperandLies
<1>11. Invocation(b).channels = op.channels
  <2>1. PICK first : first = b["commands.bin"][1].quantization_offset \div RecordSize
    OBVIOUS
  <2>2. op.channels = SubSeq(b["quantization.bin"], first + 1, first + RtlShapes[2][1])
    BY <1>6, <1>7, <2>1
  <2>3. QED
    BY <2>1, <2>2 DEF Invocation
<1>12. Invocation(b).relu = op.relu /\ Programmed(b, 1).FLAGS = op.relu
  BY <1>1, <1>2, <1>8 DEF Invocation, Programmed
<1>13. QED
  BY <1>1, <1>9, <1>10, <1>11, <1>12

(* Of a whole bundle everything is found where the reader looks for it.    *)
LEMMA ImagePacked ==
  ASSUME NEW m \in Models
  PROVE  PackedBundle(Image(m), GraphOf(m))
<1>1. PICK g, b : g = GraphOf(m) /\ b = Image(m)
  OBVIOUS
<1>2. /\ Quantized(g) /\ Locations(m) = PackedLocations(g)
      /\ \A f \in Files : Contents(f, m) = PackedFile(f, g)
      /\ {"graph.json", "commands.bin", "weights.bin", "biases.bin", "quantization.bin",
          "schedule.json", "reference_input.bin", "reference_output.bin"} \subseteq Files
  BY <1>1, PackageAssumption DEF PackageAssumption
<1>3. \A f \in Files : b[f] = PackedFile(f, g)
  BY <1>1, <1>2, ImageFacts
<1>4. b["graph.json"] = g
  BY <1>2, <1>3 DEF PackedFile
<1>5. b["commands.bin"] = [i \in DOMAIN g.operations |-> CommandOf(g, PackedLocations(g), i)]
  BY <1>2, <1>3 DEF PackedFile
<1>6. b["weights.bin"] = Blob(g, "weights") /\ b["biases.bin"] = Blob(g, "biases")
  BY <1>2, <1>3 DEF PackedFile
<1>7. b["quantization.bin"] = Joined(ChannelLists(g))[Len(g.operations)]
  BY <1>2, <1>3 DEF PackedFile
<1>8. b["schedule.json"] = [i \in DOMAIN g.operations |-> g.operations[i].name]
  BY <1>2, <1>3 DEF PackedFile
<1>9. b["reference_input.bin"] = ReferenceData(g, g.inputs)
  BY <1>2, <1>3 DEF PackedFile
<1>10. b["manifest.json"].locations = PackedLocations(g)
  <2>1. Manifest(m).locations = Locations(m)
    BY DEF Manifest
  <2>2. b["manifest.json"] = Manifest(m)
    BY <1>1, ImageFacts
  <2>3. QED
    BY <1>2, <2>1, <2>2
<1>11. QED
  BY <1>1, <1>2, <1>4, <1>5, <1>6, <1>7, <1>8, <1>9, <1>10 DEF PackedBundle

(* PackedModelReads, for every quantized graph, every alignment and every  *)
(* layout of the RTL: _pack_constants (bundle.py:109-128) pads and appends *)
(* and never moves what it has packed, so an offset taken while packing is *)
(* still the offset when simulate_bundle (simulator.py) and                *)
(* extract_fixed_convolution (rtl_bundle.py) read; so are the offsets of   *)
(* _pack_quantization and the cursor of _reference_inputs.                 *)
THEOREM PackedModelIsRead == BundleSpec => []PackedModelReads
<1>1. ASSUME opened \in Images PROVE PackedModelReads
  <2>1. PICK m \in Models : opened = Image(m)
    BY <1>1 DEF Images
  <2>2. PICK g : g = GraphOf(m)
    OBVIOUS
  <2>3. PackedBundle(opened, g)
    BY <2>1, <2>2, ImagePacked
  <2>4. g = opened["graph.json"]
    BY <2>3 DEF PackedBundle
  <2>5. /\ Simulates(opened)
        /\ \A i \in DOMAIN g.inputs : ReferenceInput(opened, i) = Values(g.tensors[g.inputs[i]])
    BY <2>3, BundleSimulates
  <2>6. \A i \in DOMAIN g.operations :
          Linear(g.operations[i]) =>
            LET op    == g.operations[i]
                first == opened["commands.bin"][i].quantization_offset \div RecordSize
            IN  /\ op.channels = SubSeq(opened["quantization.bin"], first + 1,
                                        first + Len(op.channels))
                /\ Programmed(opened, i).WEIGHT_LENGTH
                     = opened["manifest.json"].locations[op.inputs[2]].size
    BY <2>3, LinearRead
  <2>7. Accepted(opened) =>
          LET op  == g.operations[1]
              run == Invocation(opened)
          IN  /\ run.weights = Data(g.tensors[op.inputs[2]])
              /\ run.biases = Data(g.tensors[op.inputs[3]])
              /\ run.channels = op.channels /\ run.relu = Programmed(opened, 1).FLAGS
    BY <2>3, AcceptedRead
  <2>8. QED
    BY <2>4, <2>5, <2>6, <2>7 DEF PackedModelReads
<1>2. PackedModelReads
  BY <1>1 DEF PackedModelReads
<1>3. QED
  BY <1>2, PTL DEF BundleSpec
=============================================================================
