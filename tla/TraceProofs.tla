---------------------------- MODULE TraceProofs ----------------------------
(***************************************************************************)
(* An accepted trace holds its run, a regression package with a manifest   *)
(* is whole, and its test tells a repaired device, the recorded failure    *)
(* and another one apart, for any runs, adapters, directories and names,   *)
(* whatever was refused or died before.                                    *)
(*                                                                         *)
(* The inductive invariant follows the files: what a running conversion    *)
(* has saved so far belongs to its run (JobHolds), so does every accepted  *)
(* trace (AcceptedHold), and what a running generation has copied so far   *)
(* is what it found (CopiesHold).  What the last test said stays the       *)
(* verdict on its two runs (OutcomeTrue).                                  *)
(***************************************************************************)
EXTENDS RegressionPackage, SequenceTheorems, WellFoundedInduction, TLAPS

IsSeq(s) == s \in Seq({s[i] : i \in DOMAIN s})

(* The event stands for the tensor: it has its values, or the payload that *)
(* is there has them.                                                      *)
Holds(fs, directory, event, index, tensor) ==
  /\ event.tensor = tensor.name /\ event.size = Len(tensor.values)
  /\ IF event.data_file = << >> THEN event.values = tensor.values
     ELSE /\ Len(event.data_file) = 4 /\ event.data_file[3] = index
          /\ << directory, event.data_file >> \in DOMAIN fs
          /\ fs[<< directory, event.data_file >>] = tensor.values

HoldsRun(fs, directory, events, run, backend) ==
  /\ run \in Runs /\ IsSeq(events) /\ Len(events) <= Len(run.tensors)
  /\ \A i \in 1 .. Len(events) :
       /\ events[i].run = run.run /\ events[i].backend = backend
       /\ Holds(fs, directory, events[i], i, run.tensors[i])

(* An event names a payload or none. *)
NamesPayloads(events) ==
  \A i \in 1 .. Len(events) :
    events[i].data_file = << >> \/ Len(events[i].data_file) = 4

JobHolds ==
  job # Idle =>
    /\ job = [adapter |-> job.adapter, run |-> job.run, limit |-> job.limit,
              directory |-> job.directory, name |-> job.name, events |-> job.events]
    /\ job.name \in TraceNames
    /\ HoldsRun(files, job.directory, job.events, job.run, job.adapter.emits)

AcceptedHold ==
  \A path \in DOMAIN written_by :
    /\ path \in DOMAIN files /\ Len(path[2]) = 1
    /\ files[path] # << >> /\ Len(files[path]) = Len(written_by[path].run.tensors)
    /\ HoldsRun(files, path[1], files[path], written_by[path].run, written_by[path].adapter)

TracesName ==
  \A path \in DOMAIN files : path[2] \in TraceNames =>
    IsSeq(files[path]) /\ NamesPayloads(files[path])

TraceInv == JobHolds /\ AcceptedHold /\ TracesName

reference_path == In(Package, "reference.jsonl")
manifest_path == In(Package, "manifest.json")

(* The events have a payload wherever they name one. *)
HasPayloads(fs, directory, events) ==
  \A i \in 1 .. Len(events) :
    events[i].data_file # << >> => << directory, events[i].data_file >> \in DOMAIN fs

(* ContentOf, for the files and the generation.                            *)
Content(fs, generation, name) ==
  CASE name = << "reference.jsonl" >> -> fs[generation.source]
    [] name \in Range(PayloadsOf(generation.events)) -> fs[<< generation.source[1], name >>]
    [] OTHER -> name

CopiesHold ==
  package # Idle =>
    /\ job = Idle
    /\ package = [source |-> package.source, signature |-> package.signature,
                  events |-> package.events, next |-> package.next]
    /\ package.source \in DOMAIN files /\ package.source[1] # Package
    /\ package.events = files[package.source] /\ package.events # << >>
    /\ IsSeq(package.events) /\ NamesPayloads(package.events)
    /\ HasPayloads(files, package.source[1], package.events)
    /\ HasReferenceValue(package.signature, package.events)
    /\ manifest_path \notin DOMAIN files
    /\ \A path \in DOMAIN written_by : path[1] # Package
    /\ package.next \in Nat \ {0}
    /\ \A i \in 1 .. Len(ToWrite) : i < package.next /\ ToWrite[i] # << >> =>
         /\ << Package, ToWrite[i] >> \in DOMAIN files
         /\ files[<< Package, ToWrite[i] >>] = Content(files, package, ToWrite[i])

PackageHolds ==
  manifest_path \in DOMAIN files =>
    /\ reference_path \in DOMAIN files /\ files[reference_path] # << >>
    /\ IsSeq(files[reference_path])
    /\ HasPayloads(files, Package, files[reference_path])
    /\ HasReferenceValue(files[manifest_path].signature, files[reference_path])
    /\ DOMAIN files[manifest_path].digests \subseteq DOMAIN files

RegressionInv == TraceInv /\ CopiesHold /\ PackageHolds

-----------------------------------------------------------------------------
LEMMA IsSeqOfSeq ==
  ASSUME NEW S, NEW s \in Seq(S)
  PROVE  IsSeq(s)
<1>1. PICK n \in Nat : s \in [1 .. n -> S]
  BY SeqDef
<1>2. s \in [1 .. n -> {s[i] : i \in DOMAIN s}]
  BY <1>1
<1>3. QED
  BY <1>2, SeqDef DEF IsSeq

LEMMA IsSeqFacts ==
  ASSUME NEW s, IsSeq(s)
  PROVE  Len(s) \in Nat /\ DOMAIN s = 1 .. Len(s)
BY DEF IsSeq

LEMMA AppendFacts ==
  ASSUME NEW s, IsSeq(s), NEW e
  PROVE  /\ IsSeq(Append(s, e)) /\ Len(Append(s, e)) = Len(s) + 1
         /\ Append(s, e)[Len(s) + 1] = e
         /\ \A i \in 1 .. Len(s) : Append(s, e)[i] = s[i]
<1> DEFINE S == {s[i] : i \in DOMAIN s} \cup {e}
<1>1. s \in Seq(S)
  <2>1. PICK n \in Nat : s \in [1 .. n -> {s[i] : i \in DOMAIN s}]
    BY SeqDef DEF IsSeq
  <2>2. s \in [1 .. n -> S]
    BY <2>1
  <2>3. QED
    BY <2>2, SeqDef
<1>2. e \in S
  OBVIOUS
<1> HIDE DEF S
<1>3. Append(s, e) \in Seq(S)
  BY <1>1, <1>2, AppendProperties
<1>4. IsSeq(Append(s, e))
  BY <1>3, IsSeqOfSeq
<1>5. QED
  BY <1>1, <1>2, <1>4, AppendProperties

LEMMA PrefixFacts ==
  ASSUME NEW s, IsSeq(s), NEW lines \in 0 .. Len(s) - 1
  PROVE  /\ IsSeq(SubSeq(s, 1, lines)) /\ Len(SubSeq(s, 1, lines)) = lines
         /\ \A i \in 1 .. lines : SubSeq(s, 1, lines)[i] = s[i]
<1> DEFINE S == {s[i] : i \in DOMAIN s}
<1>1. s \in Seq(S) /\ Len(s) \in Nat
  BY DEF IsSeq
<1> HIDE DEF S
<1>2. /\ SubSeq(s, 1, lines) \in Seq(S) /\ Len(SubSeq(s, 1, lines)) = lines
      /\ \A i \in 1 .. lines : SubSeq(s, 1, lines)[i] = s[i]
  <2>1. \A i \in 1 .. lines : s[i] \in S
    BY <1>1, ElementOfSeq
  <2>2. QED
    BY <2>1, SubSeqProperties
<1>3. QED
  BY <1>2, IsSeqOfSeq

LEMMA PayloadNames ==
  ASSUME NEW adapter, NEW index, NEW tensor
  PROVE  /\ Len(payload_name(adapter, index, tensor)) = 4
         /\ payload_name(adapter, index, tensor)[3] = index
         /\ payload_name(adapter, index, tensor) # << >>
BY DEF payload_name

(* No trace name is the name of a payload or of a package's own file.      *)
LEMMA NamesApart ==
  ASSUME NEW name
  PROVE  /\ Len(name) = 4 => name \notin TraceNames /\ name \notin OwnNames /\ name # << >>
         /\ name \in OwnNames => name \notin TraceNames /\ Len(name) = 1
BY TraceFilesAssumption, OwnNamesAssumption
   DEF TraceFilesAssumption, OwnNamesAssumption, OwnNames
-----------------------------------------------------------------------------
(* A run is held as long as the payloads its events can name stay.         *)
LEMMA HoldsRunKept ==
  ASSUME NEW fs, NEW gs, NEW directory, NEW events, NEW run, NEW backend,
         HoldsRun(fs, directory, events, run, backend),
         \A f \in DOMAIN fs :
           f[1] = directory /\ Len(f[2]) = 4 /\ f[2][3] \in 1 .. Len(events) =>
             f \in DOMAIN gs /\ gs[f] = fs[f]
  PROVE  HoldsRun(gs, directory, events, run, backend)
<1>1. ASSUME NEW i \in 1 .. Len(events)
      PROVE  Holds(gs, directory, events[i], i, run.tensors[i])
  <2>1. Holds(fs, directory, events[i], i, run.tensors[i])
    BY DEF HoldsRun
  <2>2. CASE events[i].data_file = << >>
    BY <2>1, <2>2 DEF Holds
  <2>3. CASE events[i].data_file # << >>
    <3> DEFINE f == << directory, events[i].data_file >>
    <3>1. f \in DOMAIN fs /\ f[1] = directory /\ f[2] = events[i].data_file
      BY <2>1, <2>3 DEF Holds
    <3>2. Len(f[2]) = 4 /\ f[2][3] = i
      BY <2>1, <2>3, <3>1 DEF Holds
    <3>3. f \in DOMAIN gs /\ gs[f] = fs[f]
      BY <3>1, <3>2
    <3>4. QED
      BY <2>1, <2>3, <3>3 DEF Holds
  <2>4. QED
    BY <2>2, <2>3
<1>2. QED
  BY <1>1 DEF HoldsRun

LEMMA HoldsOneMore ==
  ASSUME NEW fs, NEW directory, NEW events, NEW run, NEW backend, NEW event,
         HoldsRun(fs, directory, events, run, backend),
         Len(events) + 1 <= Len(run.tensors),
         event.run = run.run, event.backend = backend,
         Holds(fs, directory, event, Len(events) + 1, run.tensors[Len(events) + 1])
  PROVE  HoldsRun(fs, directory, Append(events, event), run, backend)
<1>1. IsSeq(events) /\ Len(events) \in Nat
  BY IsSeqFacts DEF HoldsRun
<1>2. /\ IsSeq(Append(events, event)) /\ Len(Append(events, event)) = Len(events) + 1
      /\ Append(events, event)[Len(events) + 1] = event
      /\ \A i \in 1 .. Len(events) : Append(events, event)[i] = events[i]
  BY <1>1, AppendFacts
<1> DEFINE longer == Append(events, event)
<1> HIDE DEF longer
<1>3. ASSUME NEW i \in 1 .. Len(events) + 1
      PROVE  /\ longer[i].run = run.run /\ longer[i].backend = backend
             /\ Holds(fs, directory, longer[i], i, run.tensors[i])
  <2>1. CASE i = Len(events) + 1
    <3>1. longer[i] = event
      BY <1>2, <2>1 DEF longer
    <3>2. QED
      BY <3>1, <2>1
  <2>2. CASE i # Len(events) + 1
    <3>1. i \in 1 .. Len(events)
      BY <1>1, <2>2
    <3>2. longer[i] = events[i]
      BY <1>2, <3>1 DEF longer
    <3>3. QED
      BY <3>1, <3>2 DEF HoldsRun
  <2>3. QED
    BY <2>1, <2>2
<1>4. QED
  BY <1>1, <1>2, <1>3 DEF HoldsRun, longer

(* The events of a held run name payloads.                                 *)
LEMMA HeldNamePayloads ==
  ASSUME NEW fs, NEW directory, NEW events, NEW run, NEW backend,
         HoldsRun(fs, directory, events, run, backend)
  PROVE  NamesPayloads(events)
BY DEF HoldsRun, Holds, NamesPayloads

-----------------------------------------------------------------------------
(* What a conversion does to the files of packages: nothing is lost, and   *)
(* it does not touch what a generation writes from a name of its own.      *)
KeepsOwnFiles ==
  /\ DOMAIN files \subseteq DOMAIN files'
  /\ \A f \in DOMAIN files' : f[2] \in OwnNames => f \in DOMAIN files /\ files'[f] = files[f]

(* Traces keep their events, and accepted ones what they hold, when the    *)
(* only file that changes is named at and they are not about it.           *)
LEMMA AcceptedKept ==
  ASSUME AcceptedHold, NEW at, NEW value, files' = Put(files, at, value),
         DOMAIN written_by' \subseteq DOMAIN written_by \ {at},
         \A f \in DOMAIN written_by' : written_by'[f] = written_by[f],
         Len(at[2]) = 1 \/ \A f \in DOMAIN written_by' : f[1] # at[1]
  PROVE  AcceptedHold'
<1>1. ASSUME NEW path \in DOMAIN written_by'
      PROVE  /\ path \in DOMAIN files' /\ Len(path[2]) = 1
             /\ files'[path] # << >>
             /\ Len(files'[path]) = Len(written_by'[path].run.tensors)
             /\ HoldsRun(files', path[1], files'[path], written_by'[path].run,
                         written_by'[path].adapter)
  <2>1. path \in DOMAIN written_by /\ path # at /\ written_by'[path] = written_by[path]
    OBVIOUS
  <2>2. path \in DOMAIN files /\ files'[path] = files[path] /\ path \in DOMAIN files'
    BY <2>1 DEF Put, AcceptedHold
  <2>3. HoldsRun(files, path[1], files[path], written_by[path].run, written_by[path].adapter)
    BY <2>1 DEF AcceptedHold
  <2>4. ASSUME NEW f \in DOMAIN files, f[1] = path[1], Len(f[2]) = 4
        PROVE  f \in DOMAIN files' /\ files'[f] = files[f]
    <3>1. f # at
      BY <2>4
    <3>2. QED
      BY <3>1 DEF Put
  <2>5. HoldsRun(files', path[1], files[path], written_by[path].run, written_by[path].adapter)
    BY <2>3, <2>4, HoldsRunKept
  <2>6. QED
    BY <2>1, <2>2, <2>5 DEF AcceptedHold
<1>2. QED
  BY <1>1 DEF AcceptedHold

LEMMA NamesKept ==
  ASSUME TracesName, NEW at, NEW value, files' = Put(files, at, value),
         at[2] \in TraceNames => IsSeq(value) /\ NamesPayloads(value)
  PROVE  TracesName'
<1>1. ASSUME NEW path \in DOMAIN files', path[2] \in TraceNames
      PROVE  IsSeq(files'[path]) /\ NamesPayloads(files'[path])
  <2>1. CASE path = at
    <3>1. files'[path] = value
      BY <2>1 DEF Put
    <3>2. QED
      BY <1>1, <2>1, <3>1
  <2>2. CASE path # at
    <3>1. path \in DOMAIN files /\ files'[path] = files[path]
      BY <2>2 DEF Put
    <3>2. QED
      BY <1>1, <3>1 DEF TracesName
  <2>3. QED
    BY <2>1, <2>2
<1>2. QED
  BY <1>1 DEF TracesName

LEMMA OwnFilesKept ==
  ASSUME NEW at, NEW value, files' = Put(files, at, value), at[2] \notin OwnNames
  PROVE  KeepsOwnFiles
BY DEF KeepsOwnFiles, Put

LEMMA BeginHolds ==
  ASSUME NEW adapter, NEW run \in Runs, NEW limit, NEW directory, NEW name \in TraceNames,
         TraceInv, Begin(adapter, run, limit, directory, name)
  PROVE  TraceInv' /\ KeepsOwnFiles
<1> USE DEF Begin
<1>1. JobHolds'
  <2>1. run.tensors \in Seq({run.tensors[i] : i \in DOMAIN run.tensors})
          \/ Len(run.tensors) \in Nat
    BY TraceFilesAssumption DEF TraceFilesAssumption
  <2>2. Len(run.tensors) \in Nat
    BY TraceFilesAssumption DEF TraceFilesAssumption
  <2>3. IsSeq(<< >>) /\ Len(<< >>) = 0
    BY DEF IsSeq
  <2>4. HoldsRun(files', directory, << >>, run, adapter.emits)
    BY <2>2, <2>3 DEF HoldsRun
  <2>5. QED
    BY <2>4 DEF JobHolds
<1>2. AcceptedHold' /\ TracesName'
  BY DEF TraceInv, AcceptedHold, TracesName
<1>3. KeepsOwnFiles
  BY DEF KeepsOwnFiles
<1>4. QED
  BY <1>1, <1>2, <1>3 DEF TraceInv

LEMMA ConvertTensorHolds ==
  ASSUME TraceInv, ConvertTensor
  PROVE  TraceInv' /\ KeepsOwnFiles
<1> DEFINE tensor == Tensors[Position]
           event  == Event(Position, tensor)
           at     == << job.directory, event.data_file >>
<1>1. /\ job # Idle /\ Position <= Len(Tensors)
      /\ job' = [job EXCEPT !.events = Append(@, event)]
      /\ Chunked(tensor) =>
           files' = Put(files, at, tensor.values) /\ written_by' = Disturbed(job.directory)
      /\ ~Chunked(tensor) => UNCHANGED << files, written_by >>
  BY DEF ConvertTensor
<1>2. /\ job = [adapter |-> job.adapter, run |-> job.run, limit |-> job.limit,
                directory |-> job.directory, name |-> job.name, events |-> job.events]
      /\ job.name \in TraceNames
      /\ HoldsRun(files, job.directory, job.events, job.run, job.adapter.emits)
  BY <1>1 DEF TraceInv, JobHolds
<1>3. /\ job' = [adapter |-> job.adapter, run |-> job.run, limit |-> job.limit,
                 directory |-> job.directory, name |-> job.name,
                 events |-> Append(job.events, event)]
      /\ job'.adapter = job.adapter /\ job'.run = job.run /\ job'.limit = job.limit
      /\ job'.directory = job.directory /\ job'.name = job.name
      /\ job'.events = Append(job.events, event)
  <2> HIDE DEF event
  <2>1. QED
    BY <1>1, <1>2
<1>4. /\ IsSeq(job.events) /\ Len(job.events) \in Nat /\ Position = Len(job.events) + 1
      /\ job.run \in Runs /\ Tensors = job.run.tensors
  BY <1>2, IsSeqFacts DEF HoldsRun, Position, Tensors
<1>5. /\ event.run = job.run.run /\ event.backend = job.adapter.emits
      /\ event.tensor = tensor.name /\ event.size = Len(tensor.values)
      /\ Chunked(tensor) => /\ Len(event.data_file) = 4 /\ event.data_file[3] = Position
                            /\ event.data_file # << >>
      /\ ~Chunked(tensor) => event.data_file = << >> /\ event.values = tensor.values
  <2> HIDE DEF tensor
  <2>1. QED
    BY PayloadNames DEF Event
<1> HIDE DEF event, tensor
<1>6. HoldsRun(files', job.directory, job.events, job.run, job.adapter.emits)
  <2>1. CASE Chunked(tensor)
    <3>1. ASSUME NEW f \in DOMAIN files, f[2][3] \in 1 .. Len(job.events)
          PROVE  f \in DOMAIN files' /\ files'[f] = files[f]
      <4>1. at[2][3] = Len(job.events) + 1
        BY <1>4, <1>5, <2>1
      <4>2. f # at
        BY <1>4, <3>1, <4>1
      <4>3. QED
        BY <1>1, <2>1, <4>2 DEF Put
    <3>2. QED
      BY <1>2, <3>1, HoldsRunKept
  <2>2. CASE ~Chunked(tensor)
    BY <1>1, <1>2, <2>2
  <2>3. QED
    BY <2>1, <2>2
<1>7. Holds(files', job.directory, event, Len(job.events) + 1, tensor)
  <2>1. CASE Chunked(tensor)
    <3>1. at \in DOMAIN files' /\ files'[at] = tensor.values
      BY <1>1, <2>1 DEF Put
    <3>2. QED
      BY <1>4, <1>5, <2>1, <3>1 DEF Holds
  <2>2. CASE ~Chunked(tensor)
    BY <1>5, <2>2 DEF Holds
  <2>3. QED
    BY <2>1, <2>2
<1>8. JobHolds'
  <2>1. tensor = job.run.tensors[Len(job.events) + 1]
    BY <1>4 DEF tensor
  <2>2. HoldsRun(files', job.directory, Append(job.events, event), job.run, job.adapter.emits)
    BY <1>1, <1>4, <1>5, <1>6, <1>7, <2>1, HoldsOneMore
  <2>3. QED
    BY <1>2, <1>3, <2>2 DEF JobHolds
<1>9. AcceptedHold' /\ TracesName' /\ KeepsOwnFiles
  <2>1. CASE Chunked(tensor)
    <3>1. /\ files' = Put(files, at, tensor.values) /\ Len(at[2]) = 4
          /\ at[1] = job.directory
      BY <1>1, <1>5, <2>1
    <3>2. at[2] \notin TraceNames /\ at[2] \notin OwnNames
      BY <3>1, NamesApart
    <3>3. /\ DOMAIN written_by' \subseteq DOMAIN written_by \ {at}
          /\ \A f \in DOMAIN written_by' :
               written_by'[f] = written_by[f] /\ f[1] # job.directory
      BY <1>1, <2>1 DEF Disturbed
    <3> HIDE DEF at
    <3>4. AcceptedHold'
      BY <3>1, <3>3, AcceptedKept DEF TraceInv
    <3>5. TracesName'
      BY <3>1, <3>2, NamesKept DEF TraceInv
    <3>6. KeepsOwnFiles
      BY <3>1, <3>2, OwnFilesKept
    <3>7. QED
      BY <3>4, <3>5, <3>6
  <2>2. CASE ~Chunked(tensor)
    BY <1>1, <2>2 DEF TraceInv, AcceptedHold, TracesName, KeepsOwnFiles
  <2>3. QED
    BY <2>1, <2>2
<1>10. QED
  BY <1>8, <1>9 DEF TraceInv

LEMMA RefuseHolds ==
  ASSUME TraceInv, Refuse
  PROVE  TraceInv' /\ KeepsOwnFiles
BY DEF TraceInv, Refuse, JobHolds, AcceptedHold, TracesName, KeepsOwnFiles

(* What the last write of a conversion needs: its trace has a trace's name.*)
LEMMA LastWrite ==
  ASSUME TraceInv, job # Idle
  PROVE  /\ job.name \in TraceNames /\ Len(job.name) = 1 /\ job.name \notin OwnNames
         /\ HoldsRun(files, job.directory, job.events, job.run, job.adapter.emits)
         /\ IsSeq(job.events) /\ NamesPayloads(job.events)
<1>1. /\ job.name \in TraceNames
      /\ HoldsRun(files, job.directory, job.events, job.run, job.adapter.emits)
  BY DEF TraceInv, JobHolds
<1>2. Len(job.name) = 1 /\ job.name \notin OwnNames
  BY <1>1, TraceFilesAssumption, OwnNamesAssumption DEF TraceFilesAssumption, OwnNamesAssumption
<1>3. QED
  BY <1>1, <1>2, HeldNamePayloads DEF HoldsRun

LEMMA WriteTraceHolds ==
  ASSUME TraceInv, WriteTrace
  PROVE  TraceInv' /\ KeepsOwnFiles
<1> DEFINE path == << job.directory, job.name >>
           history == [adapter |-> job.adapter.name, run |-> job.run]
<1>1. /\ job # Idle /\ job' = Idle /\ Position > Len(Tensors) /\ job.events # << >>
      /\ files' = Put(files, path, job.events)
      /\ IF job.adapter.emits = job.adapter.name
           THEN written_by' = Put(written_by, path, history)
           ELSE written_by' = [f \in DOMAIN written_by \ {path} |-> written_by[f]]
  BY DEF WriteTrace, Writable
<1>2. /\ job.name \in TraceNames /\ Len(job.name) = 1 /\ job.name \notin OwnNames
      /\ HoldsRun(files, job.directory, job.events, job.run, job.adapter.emits)
      /\ IsSeq(job.events) /\ NamesPayloads(job.events)
  BY <1>1, LastWrite
<1>3. path[1] = job.directory /\ path[2] = job.name
  OBVIOUS
<1>4. /\ path \in DOMAIN files' /\ files'[path] = job.events
      /\ Len(job.events) = Len(job.run.tensors)
  <2>1. path \in DOMAIN files' /\ files'[path] = job.events
    BY <1>1 DEF Put
  <2>2. Len(job.events) \in Nat /\ Len(job.run.tensors) \in Nat
          /\ Len(job.events) <= Len(job.run.tensors)
    BY <1>2, IsSeqFacts, TraceFilesAssumption DEF HoldsRun, TraceFilesAssumption
  <2>3. Len(job.events) + 1 > Len(job.run.tensors)
    BY <1>1 DEF Position, Tensors
  <2>4. QED
    BY <2>1, <2>2, <2>3
<1>5. HoldsRun(files', path[1], job.events, job.run, job.adapter.emits)
  <2>1. ASSUME NEW f \in DOMAIN files, Len(f[2]) = 4
        PROVE  f \in DOMAIN files' /\ files'[f] = files[f]
    <3>1. f # path
      BY <1>2, <1>3, <2>1
    <3>2. QED
      BY <1>1, <3>1 DEF Put
  <2>2. QED
    BY <1>2, <1>3, <2>1, HoldsRunKept
<1> HIDE DEF path
<1>6. ASSUME NEW other \in DOMAIN written_by, other # path
      PROVE  /\ other \in DOMAIN files' /\ Len(other[2]) = 1 /\ files'[other] # << >>
             /\ Len(files'[other]) = Len(written_by[other].run.tensors)
             /\ HoldsRun(files', other[1], files'[other], written_by[other].run,
                         written_by[other].adapter)
  <2>1. other \in DOMAIN files /\ files'[other] = files[other] /\ other \in DOMAIN files'
    BY <1>1, <1>6 DEF TraceInv, AcceptedHold, Put
  <2>2. HoldsRun(files, other[1], files[other], written_by[other].run,
                 written_by[other].adapter)
    BY DEF TraceInv, AcceptedHold
  <2>3. ASSUME NEW f \in DOMAIN files, Len(f[2]) = 4
        PROVE  f \in DOMAIN files' /\ files'[f] = files[f]
    <3>1. f # path
      BY <1>2, <1>3, <2>3
    <3>2. QED
      BY <1>1, <3>1 DEF Put
  <2>4. HoldsRun(files', other[1], files[other], written_by[other].run,
                 written_by[other].adapter)
    BY <2>2, <2>3, HoldsRunKept
  <2>5. QED
    BY <2>1, <2>4 DEF TraceInv, AcceptedHold
<1>7. AcceptedHold'
  <2>1. CASE job.adapter.emits = job.adapter.name
    <3>1. /\ DOMAIN written_by' = DOMAIN written_by \cup {path}
          /\ written_by'[path].adapter = job.adapter.emits
          /\ written_by'[path].run = job.run
          /\ \A other \in DOMAIN written_by : other # path => written_by'[other] = written_by[other]
      BY <1>1, <2>1 DEF Put
    <3>2. HoldsRun(files', path[1], files'[path], written_by'[path].run, written_by'[path].adapter)
      BY <1>4, <1>5, <3>1
    <3>3. ASSUME NEW other \in DOMAIN written_by'
          PROVE  /\ other \in DOMAIN files' /\ Len(other[2]) = 1 /\ files'[other] # << >>
                 /\ Len(files'[other]) = Len(written_by'[other].run.tensors)
                 /\ HoldsRun(files', other[1], files'[other], written_by'[other].run,
                             written_by'[other].adapter)
      <4>1. CASE other = path
        BY <1>1, <1>2, <1>3, <1>4, <3>1, <3>2, <4>1
      <4>2. CASE other # path
        BY <1>6, <3>1, <4>2
      <4>3. QED
        BY <4>1, <4>2
    <3>4. QED
      BY <3>3 DEF AcceptedHold
  <2>2. CASE job.adapter.emits # job.adapter.name
    <3>1. /\ DOMAIN written_by' = DOMAIN written_by \ {path}
          /\ \A other \in DOMAIN written_by' : written_by'[other] = written_by[other]
      BY <1>1, <2>2
    <3>2. QED
      BY <1>6, <3>1 DEF AcceptedHold
  <2>3. QED
    BY <2>1, <2>2
<1>8. TracesName'
  BY <1>1, <1>2, NamesKept DEF TraceInv
<1>9. KeepsOwnFiles
  BY <1>1, <1>2, <1>3, OwnFilesKept
<1>10. JobHolds'
  BY <1>1 DEF JobHolds
<1>11. QED
  BY <1>7, <1>8, <1>9, <1>10 DEF TraceInv

LEMMA DieHolds ==
  ASSUME TraceInv, Die
  PROVE  TraceInv' /\ KeepsOwnFiles
<1>1. JobHolds'
  BY DEF Die, JobHolds
<1>2. CASE UNCHANGED << files, written_by >>
  BY <1>1, <1>2 DEF TraceInv, AcceptedHold, TracesName, KeepsOwnFiles
<1>3. CASE ~UNCHANGED << files, written_by >>
  <2> DEFINE path == << job.directory, job.name >>
  <2>1. /\ job # Idle
        /\ \E lines \in 0 .. Len(job.events) - 1 :
             files' = Put(files, path, SubSeq(job.events, 1, lines))
        /\ written_by' = [f \in DOMAIN written_by \ {path} |-> written_by[f]]
    BY <1>3 DEF Die
  <2>2. PICK lines \in 0 .. Len(job.events) - 1 :
          files' = Put(files, path, SubSeq(job.events, 1, lines))
    BY <2>1
  <2>3. /\ job.name \in TraceNames /\ Len(job.name) = 1 /\ job.name \notin OwnNames
        /\ IsSeq(job.events) /\ NamesPayloads(job.events)
    BY <2>1, LastWrite
  <2>4. IsSeq(SubSeq(job.events, 1, lines)) /\ NamesPayloads(SubSeq(job.events, 1, lines))
    <3>1. /\ IsSeq(SubSeq(job.events, 1, lines)) /\ Len(SubSeq(job.events, 1, lines)) = lines
          /\ \A i \in 1 .. lines : SubSeq(job.events, 1, lines)[i] = job.events[i]
      BY <2>3, PrefixFacts
    <3>2. Len(job.events) \in Nat
      BY <2>3, IsSeqFacts
    <3>3. QED
      BY <2>3, <3>1, <3>2 DEF NamesPayloads
  <2>5. path[2] = job.name
    OBVIOUS
  <2>6. /\ DOMAIN written_by' = DOMAIN written_by \ {path}
        /\ \A f \in DOMAIN written_by' : written_by'[f] = written_by[f]
    BY <2>1
  <2> HIDE DEF path
  <2>7. AcceptedHold'
    BY <2>2, <2>3, <2>5, <2>6, AcceptedKept DEF TraceInv
  <2>8. TracesName'
    BY <2>2, <2>4, NamesKept DEF TraceInv
  <2>9. KeepsOwnFiles
    BY <2>2, <2>3, <2>5, OwnFilesKept
  <2>10. QED
    BY <1>1, <2>7, <2>8, <2>9 DEF TraceInv
<1>4. QED
  BY <1>2, <1>3

(* A step of the conversions keeps their invariant.                        *)
LEMMA ConversionHolds ==
  ASSUME TraceInv, TraceNext
  PROVE  TraceInv' /\ KeepsOwnFiles
<1>1. CASE Convert
  BY <1>1, BeginHolds DEF Convert
<1>2. CASE Trace
  BY <1>2, BeginHolds DEF Trace
<1>3. QED
  BY <1>1, <1>2, ConvertTensorHolds, RefuseHolds, WriteTraceHolds, DieHolds DEF TraceNext

-----------------------------------------------------------------------------
LEMMA OneAfterTheOther ==
  ASSUME NEW S, NEW s \in Seq(S), NEW t \in Seq(S)
  PROVE  /\ s \o t \in Seq(S) /\ Len(s \o t) = Len(s) + Len(t)
         /\ \A i \in 1 .. Len(s) : (s \o t)[i] = s[i]
         /\ \A i \in 1 .. Len(t) : (s \o t)[i + Len(s)] = t[i]
<1>1. Len(s) \in Nat /\ Len(t) \in Nat
  BY LenProperties
<1>2. /\ s \o t \in Seq(S) /\ Len(s \o t) = Len(s) + Len(t)
      /\ \A i \in 1 .. Len(s) + Len(t) :
           (s \o t)[i] = IF i <= Len(s) THEN s[i] ELSE t[i - Len(s)]
  BY ConcatProperties
<1>3. ASSUME NEW i \in 1 .. Len(t)
      PROVE  (s \o t)[i + Len(s)] = t[i]
  BY <1>1, <1>2
<1>4. QED
  BY <1>1, <1>2, <1>3

(* What there is to write: the inputs, the reference, the payload of each  *)
(* event, and the test.                                                    *)
LEMMA WhatToWrite ==
  ASSUME NEW events, IsSeq(events), NamesPayloads(events)
  PROVE  /\ Len(FilesToWrite(events)) = Len(events) + 3
         /\ FilesToWrite(events)[2] = << "reference.jsonl" >>
         /\ \A i \in 1 .. Len(events) : FilesToWrite(events)[i + 2] = events[i].data_file
         /\ \A i \in 1 .. Len(FilesToWrite(events)) :
              LET name == FilesToWrite(events)[i]
              IN  \/ name = << >> \/ Len(name) = 4
                  \/ name \in OwnNames \ {<< "manifest.json" >>}
<1> DEFINE payloads == [i \in 1 .. Len(events) |-> events[i].data_file]
           names == {<< >>, << "inputs.npz" >>, << "reference.jsonl" >>, << "test.py" >>}
                      \cup {events[i].data_file : i \in 1 .. Len(events)}
           first == << << "inputs.npz" >>, << "reference.jsonl" >> >>
           last  == << << "test.py" >> >>
<1>1. Len(events) \in Nat /\ DOMAIN events = 1 .. Len(events)
  BY IsSeqFacts
<1>2. PayloadsOf(events) = payloads
  BY <1>1 DEF PayloadsOf
<1>3. payloads \in Seq(names) /\ Len(payloads) = Len(events)
  <2>1. payloads \in [1 .. Len(events) -> names]
    OBVIOUS
  <2>2. payloads \in Seq(names)
    BY <1>1, <2>1, SeqDef
  <2>3. QED
    BY <1>1, <2>2, LenProperties
<1>4. first \in Seq(names) /\ Len(first) = 2 /\ last \in Seq(names) /\ Len(last) = 1
  OBVIOUS
<1>5. \A i \in 1 .. Len(events) : payloads[i] = events[i].data_file
  OBVIOUS
<1>6. first[1] = << "inputs.npz" >> /\ first[2] = << "reference.jsonl" >>
        /\ last[1] = << "test.py" >>
  OBVIOUS
<1>7. \A name \in names : \/ name = << >> \/ Len(name) = 4
                          \/ name \in OwnNames \ {<< "manifest.json" >>}
  BY DEF NamesPayloads, OwnNames
<1>8. FilesToWrite(events) = (first \o payloads) \o last
  BY <1>2 DEF FilesToWrite
<1> HIDE DEF payloads, first, last, names
<1>9. /\ first \o payloads \in Seq(names) /\ Len(first \o payloads) = Len(events) + 2
      /\ (first \o payloads)[2] = << "reference.jsonl" >>
      /\ \A i \in 1 .. Len(events) : (first \o payloads)[i + 2] = events[i].data_file
  <2>1. /\ first \o payloads \in Seq(names) /\ Len(first \o payloads) = 2 + Len(events)
        /\ \A i \in 1 .. 2 : (first \o payloads)[i] = first[i]
        /\ \A i \in 1 .. Len(events) : (first \o payloads)[i + 2] = payloads[i]
    <3>1. /\ first \o payloads \in Seq(names)
          /\ Len(first \o payloads) = Len(first) + Len(payloads)
          /\ \A i \in 1 .. Len(first) : (first \o payloads)[i] = first[i]
          /\ \A i \in 1 .. Len(payloads) : (first \o payloads)[i + Len(first)] = payloads[i]
      <4>1. first \in Seq(names) /\ payloads \in Seq(names)
        BY <1>3, <1>4
      <4>2. QED
        BY <4>1, OneAfterTheOther
    <3>2. QED
      BY <1>1, <1>3, <1>4, <3>1
  <2>2. QED
    BY <1>1, <1>5, <1>6, <2>1
<1>10. /\ (first \o payloads) \o last \in Seq(names)
       /\ Len((first \o payloads) \o last) = Len(events) + 3
       /\ \A i \in 1 .. Len(events) + 2 :
            ((first \o payloads) \o last)[i] = (first \o payloads)[i]
  <2>1. /\ (first \o payloads) \o last \in Seq(names)
        /\ Len((first \o payloads) \o last) = Len(first \o payloads) + Len(last)
        /\ \A i \in 1 .. Len(first \o payloads) :
             ((first \o payloads) \o last)[i] = (first \o payloads)[i]
    BY <1>4, <1>9, OneAfterTheOther
  <2>2. QED
    BY <1>1, <1>4, <1>9, <2>1
<1>11. \A i \in 1 .. Len(FilesToWrite(events)) : FilesToWrite(events)[i] \in names
  BY <1>8, <1>10, ElementOfSeq
<1>12. FilesToWrite(events)[2] = << "reference.jsonl" >>
  BY <1>1, <1>8, <1>9, <1>10
<1>13. ASSUME NEW i \in 1 .. Len(events)
       PROVE  FilesToWrite(events)[i + 2] = events[i].data_file
  BY <1>1, <1>8, <1>9, <1>10
<1>14. QED
  BY <1>7, <1>8, <1>10, <1>11, <1>12, <1>13

(* What is copied comes from the source, whose directory is not the        *)
(* package's.                                                              *)
LEMMA ContentKept ==
  ASSUME NEW fs, NEW gs, NEW generation, NEW other, NEW name, name # << >>,
         generation.source \in DOMAIN fs, generation.source[1] # Package,
         IsSeq(generation.events),
         HasPayloads(fs, generation.source[1], generation.events),
         other.source = generation.source, other.events = generation.events,
         \A f \in DOMAIN fs : f[1] # Package => f \in DOMAIN gs /\ gs[f] = fs[f]
  PROVE  Content(gs, other, name) = Content(fs, generation, name)
<1>1. CASE name = << "reference.jsonl" >>
  <2>1. gs[generation.source] = fs[generation.source]
    OBVIOUS
  <2>2. QED
    BY <1>1, <2>1 DEF Content
<1>2. CASE name # << "reference.jsonl" >> /\ name \in Range(PayloadsOf(generation.events))
  <2>1. PICK i \in DOMAIN generation.events : name = generation.events[i].data_file
    BY <1>2 DEF Range, PayloadsOf
  <2>2. i \in 1 .. Len(generation.events)
    BY IsSeqFacts
  <2>3. << generation.source[1], name >> \in DOMAIN fs
    BY <2>1, <2>2 DEF HasPayloads
  <2>4. gs[<< generation.source[1], name >>] = fs[<< generation.source[1], name >>]
    BY <2>3
  <2>5. QED
    BY <1>2, <2>4 DEF Content
<1>3. CASE name # << "reference.jsonl" >> /\ name \notin Range(PayloadsOf(generation.events))
  BY <1>3 DEF Content
<1>4. QED
  BY <1>1, <1>2, <1>3

-----------------------------------------------------------------------------
LEMMA ConvertingHolds ==
  ASSUME RegressionInv, package = Idle, TraceNext, UNCHANGED package
  PROVE  RegressionInv'
<1>1. TraceInv' /\ KeepsOwnFiles
  BY ConversionHolds DEF RegressionInv
<1>2. CopiesHold'
  BY DEF CopiesHold
<1>3. PackageHolds'
  <2>1. manifest_path[2] \in OwnNames /\ reference_path[2] \in OwnNames
    BY DEF manifest_path, reference_path, In, OwnNames
  <2>2. manifest_path \in DOMAIN files' =>
          /\ manifest_path \in DOMAIN files /\ files'[manifest_path] = files[manifest_path]
          /\ reference_path \in DOMAIN files /\ reference_path \in DOMAIN files'
          /\ files'[reference_path] = files[reference_path]
    BY <1>1, <2>1 DEF KeepsOwnFiles, RegressionInv, PackageHolds
  <2>3. HasPayloads(files, Package, files[reference_path]) =>
          HasPayloads(files', Package, files[reference_path])
    BY <1>1 DEF KeepsOwnFiles, HasPayloads
  <2>4. QED
    BY <1>1, <2>2, <2>3 DEF KeepsOwnFiles, RegressionInv, PackageHolds
<1>4. QED
  BY <1>1, <1>2, <1>3 DEF RegressionInv

LEMMA BeginPackageHolds ==
  ASSUME RegressionInv, NEW source \in ReadableTraces, NEW signature,
         BeginPackage(source, signature)
  PROVE  RegressionInv'
<1>1. /\ job = Idle /\ package = Idle /\ FilesOf(Package) = {} /\ Readable(source)
      /\ HasReferenceValue(signature, files[source])
      /\ package' = [source |-> source, signature |-> signature,
                     events |-> files[source], next |-> 1]
      /\ UNCHANGED << files, job, written_by, commands >>
  BY DEF BeginPackage, traceVars
<1>2. TraceInv'
  BY <1>1 DEF RegressionInv, TraceInv, JobHolds, AcceptedHold, TracesName
<1>3. PackageHolds'
  BY <1>1 DEF RegressionInv, PackageHolds
<1>4. \A f \in DOMAIN files : f[1] # Package
  BY <1>1 DEF FilesOf
<1>5. /\ source \in DOMAIN files /\ files[source] # << >>
      /\ IsSeq(files[source]) /\ NamesPayloads(files[source])
  BY <1>1 DEF ReadableTraces, RegressionInv, TraceInv, TracesName, Readable
<1>6. HasPayloads(files, source[1], files[source])
  <2>1. DOMAIN files[source] = 1 .. Len(files[source])
    BY <1>5, IsSeqFacts
  <2>2. QED
    BY <1>1, <2>1 DEF Readable, HasPayloads
<1>7. manifest_path \notin DOMAIN files
  BY <1>4 DEF manifest_path, In
<1>8. \A path \in DOMAIN written_by : path[1] # Package
  BY <1>4 DEF RegressionInv, TraceInv, AcceptedHold
<1>9. CopiesHold'
  <2>1. /\ package'.source = source /\ package'.signature = signature
        /\ package'.events = files[source] /\ package'.next = 1
        /\ package' = [source |-> package'.source, signature |-> package'.signature,
                       events |-> package'.events, next |-> package'.next]
    BY <1>1
  <2>2. QED
    BY <1>1, <1>4, <1>5, <1>6, <1>7, <1>8, <2>1 DEF CopiesHold
<1>10. QED
  BY <1>2, <1>3, <1>9 DEF RegressionInv

(* The invariant of the conversions, when only a file of the package that  *)
(* is no trace changes.                                                    *)
LEMMA PackageFileHolds ==
  ASSUME TraceInv, job = Idle, UNCHANGED << job, written_by >>, NEW name, NEW value,
         name \notin TraceNames, files' = Put(files, << Package, name >>, value),
         \A path \in DOMAIN written_by : path[1] # Package
  PROVE  TraceInv'
<1> DEFINE at == << Package, name >>
<1>1. at[1] = Package /\ at[2] = name /\ files' = Put(files, at, value)
  OBVIOUS
<1>2. DOMAIN written_by' \subseteq DOMAIN written_by \ {at}
  BY <1>1
<1> HIDE DEF at
<1>3. AcceptedHold'
  BY <1>1, <1>2, AcceptedKept DEF TraceInv
<1>4. TracesName'
  BY <1>1, NamesKept DEF TraceInv
<1>5. JobHolds'
  BY DEF JobHolds
<1>6. QED
  BY <1>3, <1>4, <1>5 DEF TraceInv

(* The facts about a running generation that its steps need.               *)
LEMMA Generating ==
  ASSUME RegressionInv, package # Idle, NEW i \in 1 .. Len(ToWrite), ToWrite[i] # << >>
  PROVE  ToWrite[i] \notin TraceNames /\ << Package, ToWrite[i] >> # manifest_path
<1>1. IsSeq(package.events) /\ NamesPayloads(package.events)
  BY DEF RegressionInv, CopiesHold
<1>2. Len(ToWrite[i]) = 4 \/ ToWrite[i] \in OwnNames \ {<< "manifest.json" >>}
  BY <1>1, WhatToWrite DEF ToWrite
<1>3. ToWrite[i] \notin TraceNames
  BY <1>2, NamesApart
<1>4. ToWrite[i] # << "manifest.json" >>
  <2>1. Len(<< "manifest.json" >>) # 4
    OBVIOUS
  <2>2. QED
    BY <1>2, <2>1
<1>5. << Package, ToWrite[i] >> # << Package, << "manifest.json" >> >>
  BY <1>4
<1>6. QED
  BY <1>3, <1>5 DEF manifest_path, In

LEMMA CopyFileHolds ==
  ASSUME RegressionInv, CopyFile
  PROVE  RegressionInv' /\ manifest_path \notin DOMAIN files'
<1> DEFINE name == ToWrite[package.next]
           at   == << Package, name >>
<1>1. /\ package # Idle /\ package.next <= Len(ToWrite)
      /\ name = << >> => files' = files
      /\ name # << >> => files' = Put(files, at, Content(files, package, name))
      /\ package' = [package EXCEPT !.next = @ + 1]
      /\ UNCHANGED << job, written_by, commands, outcome >>
  BY DEF CopyFile, Content, ContentOf
<1>2. /\ job = Idle
      /\ package = [source |-> package.source, signature |-> package.signature,
                    events |-> package.events, next |-> package.next]
      /\ package.source \in DOMAIN files /\ package.source[1] # Package
      /\ package.events = files[package.source] /\ package.events # << >>
      /\ IsSeq(package.events) /\ NamesPayloads(package.events)
      /\ HasPayloads(files, package.source[1], package.events)
      /\ HasReferenceValue(package.signature, package.events)
      /\ manifest_path \notin DOMAIN files
      /\ \A path \in DOMAIN written_by : path[1] # Package
      /\ package.next \in Nat \ {0}
      /\ \A i \in 1 .. Len(ToWrite) : i < package.next /\ ToWrite[i] # << >> =>
           /\ << Package, ToWrite[i] >> \in DOMAIN files
           /\ files[<< Package, ToWrite[i] >>] = Content(files, package, ToWrite[i])
  <2>1. package # Idle
    BY <1>1
  <2>2. QED
    BY <2>1 DEF RegressionInv, CopiesHold
<1>3. /\ package'.source = package.source /\ package'.signature = package.signature
      /\ package'.events = package.events /\ package'.next = package.next + 1
      /\ package' = [source |-> package'.source, signature |-> package'.signature,
                     events |-> package'.events, next |-> package'.next]
  BY <1>1, <1>2
<1>4. ToWrite' = ToWrite
  BY <1>3 DEF ToWrite
<1>5. name # << >> => name \notin TraceNames /\ at # manifest_path
  <2>1. package.next \in 1 .. Len(ToWrite)
    <3>1. Len(ToWrite) = Len(package.events) + 3 /\ Len(package.events) \in Nat
      BY <1>2, WhatToWrite, IsSeqFacts DEF ToWrite
    <3>2. QED
      BY <1>1, <1>2, <3>1
  <2>2. QED
    BY <1>1, <2>1, Generating
<1>6. at[1] = Package /\ at[2] = name
  OBVIOUS
<1>7. \A f \in DOMAIN files : f[1] # Package => f \in DOMAIN files' /\ files'[f] = files[f]
  <2>1. CASE name = << >>
    BY <1>1, <2>1
  <2>2. CASE name # << >>
    <3> HIDE DEF at
    <3>1. QED
      BY <1>1, <1>6, <2>2 DEF Put
  <2>3. QED
    BY <2>1, <2>2
<1>8. TraceInv' /\ manifest_path \notin DOMAIN files'
  <2>1. CASE name = << >>
    BY <1>1, <1>2, <2>1 DEF RegressionInv, TraceInv, JobHolds, AcceptedHold, TracesName
  <2>2. CASE name # << >>
    <3>1. TraceInv'
      BY <1>1, <1>2, <1>5, <2>2, PackageFileHolds DEF RegressionInv
    <3>2. manifest_path \notin DOMAIN files'
      BY <1>1, <1>2, <1>5, <2>2 DEF Put
    <3>3. QED
      BY <3>1, <3>2
  <2>3. QED
    BY <2>1, <2>2
<1>9. ASSUME NEW i \in 1 .. Len(ToWrite), i < package.next + 1, ToWrite[i] # << >>
      PROVE  /\ << Package, ToWrite[i] >> \in DOMAIN files'
             /\ files'[<< Package, ToWrite[i] >>] = Content(files', package', ToWrite[i])
  <2>1. Content(files', package', ToWrite[i]) = Content(files, package, ToWrite[i])
    BY <1>2, <1>3, <1>7, <1>9, ContentKept
  <2>2. CASE ToWrite[i] = name
    <3>1. files' = Put(files, at, Content(files, package, name))
      BY <1>1, <1>9, <2>2
    <3>2. at \in DOMAIN files' /\ files'[at] = Content(files, package, name)
      BY <3>1 DEF Put
    <3>3. QED
      BY <2>1, <2>2, <3>2
  <2>3. CASE ToWrite[i] # name
    <3>1. i < package.next
      <4>1. i # package.next
        BY <2>3
      <4>2. QED
        BY <1>2, <1>9, <4>1
    <3> DEFINE other == << Package, ToWrite[i] >>
    <3>2. other \in DOMAIN files /\ files[other] = Content(files, package, ToWrite[i])
      BY <1>2, <1>9, <3>1
    <3>3. other # at
      BY <2>3
    <3>4. other \in DOMAIN files' /\ files'[other] = files[other]
      BY <1>1, <3>2, <3>3 DEF Put
    <3>5. QED
      BY <2>1, <3>2, <3>4
  <2>4. QED
    BY <2>2, <2>3
<1>10. HasPayloads(files', package.source[1], package.events)
  <2>1. ASSUME NEW i \in 1 .. Len(package.events), package.events[i].data_file # << >>
        PROVE  << package.source[1], package.events[i].data_file >> \in DOMAIN files'
    <3> DEFINE f == << package.source[1], package.events[i].data_file >>
    <3>1. f \in DOMAIN files /\ f[1] # Package
      BY <1>2, <2>1 DEF HasPayloads
    <3>2. QED
      BY <1>7, <3>1
  <2>2. QED
    BY <2>1 DEF HasPayloads
<1>11. /\ package.source \in DOMAIN files' /\ package.events = files'[package.source]
       /\ package.next + 1 \in Nat \ {0}
  BY <1>2, <1>7
<1>12. CopiesHold'
  <2>1. /\ job' = Idle /\ written_by' = written_by
    BY <1>1, <1>2
  <2>2. ASSUME NEW i \in 1 .. Len(ToWrite'), i < package'.next, ToWrite'[i] # << >>
        PROVE  /\ << Package, ToWrite'[i] >> \in DOMAIN files'
               /\ files'[<< Package, ToWrite'[i] >>] = Content(files', package', ToWrite'[i])
    BY <1>3, <1>4, <1>9, <2>2
  <2> HIDE DEF name, at
  <2>3. QED
    BY <1>2, <1>3, <1>8, <1>10, <1>11, <2>1, <2>2 DEF CopiesHold
<1>13. PackageHolds'
  BY <1>8 DEF PackageHolds
<1>14. QED
  BY <1>8, <1>12, <1>13 DEF RegressionInv

LEMMA WritePackageManifestHolds ==
  ASSUME RegressionInv, WritePackageManifest
  PROVE  RegressionInv'
<1>1. /\ package # Idle /\ package.next > Len(ToWrite) /\ package' = Idle
      /\ files' = Put(files, manifest_path, PackageManifest)
      /\ IF package.source \in DOMAIN written_by
           THEN written_by' = Put(written_by, reference_path, written_by[package.source])
           ELSE written_by' = written_by
      /\ UNCHANGED << job, commands, outcome >>
  BY DEF WritePackageManifest, manifest_path, reference_path
<1>2. /\ job = Idle
      /\ package.source \in DOMAIN files /\ package.source[1] # Package
      /\ package.events = files[package.source] /\ package.events # << >>
      /\ IsSeq(package.events) /\ NamesPayloads(package.events)
      /\ HasPayloads(files, package.source[1], package.events)
      /\ HasReferenceValue(package.signature, package.events)
      /\ \A path \in DOMAIN written_by : path[1] # Package
      /\ package.next \in Nat \ {0}
      /\ \A i \in 1 .. Len(ToWrite) : i < package.next /\ ToWrite[i] # << >> =>
           /\ << Package, ToWrite[i] >> \in DOMAIN files
           /\ files[<< Package, ToWrite[i] >>] = Content(files, package, ToWrite[i])
  <2>1. package # Idle
    BY <1>1
  <2>2. QED
    BY <2>1 DEF RegressionInv, CopiesHold
<1>3. /\ manifest_path[1] = Package /\ reference_path[1] = Package
      /\ Len(manifest_path[2]) = 1 /\ Len(reference_path[2]) = 1
      /\ manifest_path[2] \notin TraceNames /\ manifest_path # reference_path
  <2>1. << "manifest.json" >> \notin TraceNames
    BY NamesApart DEF OwnNames
  <2>2. << Package, << "manifest.json" >> >> # << Package, << "reference.jsonl" >> >>
    OBVIOUS
  <2>3. QED
    BY <2>1, <2>2 DEF manifest_path, reference_path, In
<1>4. /\ Len(ToWrite) = Len(package.events) + 3 /\ Len(package.events) \in Nat
      /\ ToWrite[2] = << "reference.jsonl" >>
      /\ \A i \in 1 .. Len(package.events) : ToWrite[i + 2] = package.events[i].data_file
  BY <1>2, WhatToWrite, IsSeqFacts DEF ToWrite
<1>5. \A i \in 1 .. Len(ToWrite) : ToWrite[i] # << >> =>
        /\ << Package, ToWrite[i] >> \in DOMAIN files
        /\ files[<< Package, ToWrite[i] >>] = Content(files, package, ToWrite[i])
  BY <1>1, <1>2, <1>4
<1>6. reference_path \in DOMAIN files /\ files[reference_path] = package.events
  <2>1. << "reference.jsonl" >> # << >>
    OBVIOUS
  <2>2. 2 \in 1 .. Len(ToWrite)
    BY <1>4
  <2>3. /\ << Package, << "reference.jsonl" >> >> \in DOMAIN files
        /\ files[<< Package, << "reference.jsonl" >> >>] =
             Content(files, package, << "reference.jsonl" >>)
    BY <1>4, <1>5, <2>1, <2>2
  <2>4. Content(files, package, << "reference.jsonl" >>) = files[package.source]
    <3>1. ASSUME NEW i \in DOMAIN package.events
          PROVE  package.events[i].data_file # << "reference.jsonl" >>
      <4>1. i \in 1 .. Len(package.events)
        BY <1>2, IsSeqFacts
      <4>2. package.events[i].data_file = << >> \/ Len(package.events[i].data_file) = 4
        BY <1>2, <4>1 DEF NamesPayloads
      <4>3. Len(<< "reference.jsonl" >>) # 4
        OBVIOUS
      <4>4. QED
        BY <2>1, <4>2, <4>3
    <3>2. << "reference.jsonl" >> \notin Range(PayloadsOf(package.events))
      BY <3>1 DEF Range, PayloadsOf
    <3>3. ASSUME NEW name, name = << "reference.jsonl" >>,
                 name \notin Range(PayloadsOf(package.events))
          PROVE  Content(files, package, name) = files[package.source]
      BY <3>3 DEF Content
    <3>4. QED
      BY <3>2, <3>3
  <2>5. QED
    BY <1>2, <2>3, <2>4 DEF reference_path, In
(* The payloads are those of the source.                                   *)
<1>7. ASSUME NEW i \in 1 .. Len(package.events), package.events[i].data_file # << >>
      PROVE  /\ << Package, package.events[i].data_file >> \in DOMAIN files
             /\ files[<< Package, package.events[i].data_file >>] =
                  files[<< package.source[1], package.events[i].data_file >>]
  <2> DEFINE name == package.events[i].data_file
  <2>1. name = ToWrite[i + 2] /\ i + 2 \in 1 .. Len(ToWrite)
    BY <1>4
  <2>2. /\ << Package, name >> \in DOMAIN files
        /\ files[<< Package, name >>] = Content(files, package, name)
    BY <1>5, <1>7, <2>1
  <2>3. name # << "reference.jsonl" >>
    <3>1. Len(name) = 4
      BY <1>2, <1>7 DEF NamesPayloads
    <3>2. Len(<< "reference.jsonl" >>) # 4
      OBVIOUS
    <3>3. QED
      BY <3>1, <3>2
  <2>4. name \in Range(PayloadsOf(package.events))
    <3>1. i \in DOMAIN package.events
      BY <1>2, IsSeqFacts
    <3>2. QED
      BY <3>1 DEF Range, PayloadsOf
  <2>5. Content(files, package, name) = files[<< package.source[1], name >>]
    <3> HIDE DEF name
    <3>1. QED
      BY <2>3, <2>4 DEF Content
  <2>6. QED
    BY <2>2, <2>5
<1>8. /\ \A f \in DOMAIN files : f # manifest_path => f \in DOMAIN files' /\ files'[f] = files[f]
      /\ manifest_path \in DOMAIN files' /\ files'[manifest_path] = PackageManifest
      /\ DOMAIN files' = DOMAIN files \cup {manifest_path}
  BY <1>1 DEF Put
<1>9. \A f \in DOMAIN files : Len(f[2]) = 4 => f \in DOMAIN files' /\ files'[f] = files[f]
  BY <1>3, <1>8
<1>10. reference_path \in DOMAIN files' /\ files'[reference_path] = package.events
  BY <1>3, <1>6, <1>8
<1>11. ASSUME NEW other \in DOMAIN written_by
       PROVE  /\ other # reference_path
              /\ other \in DOMAIN files' /\ Len(other[2]) = 1 /\ files'[other] # << >>
              /\ Len(files'[other]) = Len(written_by[other].run.tensors)
              /\ HoldsRun(files', other[1], files'[other], written_by[other].run,
                          written_by[other].adapter)
  <2>1. other # manifest_path /\ other # reference_path
    BY <1>2, <1>3
  <2>2. /\ other \in DOMAIN files /\ Len(other[2]) = 1 /\ files[other] # << >>
        /\ Len(files[other]) = Len(written_by[other].run.tensors)
        /\ HoldsRun(files, other[1], files[other], written_by[other].run,
                    written_by[other].adapter)
    BY DEF RegressionInv, TraceInv, AcceptedHold
  <2>3. HoldsRun(files', other[1], files[other], written_by[other].run,
                 written_by[other].adapter)
    BY <1>9, <2>2, HoldsRunKept
  <2>4. QED
    BY <1>8, <2>1, <2>2, <2>3
<1>12. ASSUME package.source \in DOMAIN written_by
       PROVE  /\ Len(package.events) = Len(written_by[package.source].run.tensors)
              /\ HoldsRun(files', Package, package.events, written_by[package.source].run,
                          written_by[package.source].adapter)
  <2> DEFINE run == written_by[package.source].run
             backend == written_by[package.source].adapter
  <2>1. /\ Len(package.events) = Len(run.tensors)
        /\ HoldsRun(files, package.source[1], package.events, run, backend)
    BY <1>2, <1>12 DEF RegressionInv, TraceInv, AcceptedHold
  <2> HIDE DEF run, backend
  <2>2. ASSUME NEW i \in 1 .. Len(package.events)
        PROVE  Holds(files', Package, package.events[i], i, run.tensors[i])
    <3>1. Holds(files, package.source[1], package.events[i], i, run.tensors[i])
      BY <2>1 DEF HoldsRun
    <3>2. CASE package.events[i].data_file = << >>
      BY <3>1, <3>2 DEF Holds
    <3>3. CASE package.events[i].data_file # << >>
      <4> DEFINE name == package.events[i].data_file
                 f == << Package, name >>
      <4>1. /\ Len(name) = 4 /\ name[3] = i
            /\ files[<< package.source[1], name >>] = run.tensors[i].values
        BY <3>1, <3>3 DEF Holds
      <4>2. f \in DOMAIN files /\ files[f] = run.tensors[i].values
        BY <1>7, <3>3, <4>1
      <4>3. f \in DOMAIN files' /\ files'[f] = files[f]
        BY <1>9, <4>1, <4>2
      <4>4. QED
        BY <3>1, <3>3, <4>1, <4>2, <4>3 DEF Holds
    <3>4. QED
      BY <3>2, <3>3
  <2>3. HoldsRun(files', Package, package.events, run, backend)
    BY <2>1, <2>2 DEF HoldsRun
  <2>4. QED
    BY <2>1, <2>3 DEF run, backend
<1>13. AcceptedHold'
  <2>1. CASE package.source \in DOMAIN written_by
    <3>1. /\ DOMAIN written_by' = DOMAIN written_by \cup {reference_path}
          /\ written_by'[reference_path] = written_by[package.source]
          /\ \A other \in DOMAIN written_by :
               other # reference_path => written_by'[other] = written_by[other]
      BY <1>1, <2>1 DEF Put
    <3>2. ASSUME NEW path \in DOMAIN written_by'
          PROVE  /\ path \in DOMAIN files' /\ Len(path[2]) = 1 /\ files'[path] # << >>
                 /\ Len(files'[path]) = Len(written_by'[path].run.tensors)
                 /\ HoldsRun(files', path[1], files'[path], written_by'[path].run,
                             written_by'[path].adapter)
      <4>1. CASE path = reference_path
        BY <1>2, <1>3, <1>10, <1>12, <2>1, <3>1, <4>1
      <4>2. CASE path # reference_path
        BY <1>11, <3>1, <4>2
      <4>3. QED
        BY <4>1, <4>2
    <3>3. QED
      BY <3>2 DEF AcceptedHold
  <2>2. CASE package.source \notin DOMAIN written_by
    BY <1>1, <1>11, <2>2 DEF AcceptedHold
  <2>3. QED
    BY <2>1, <2>2
<1>14. TracesName'
  BY <1>1, <1>3, NamesKept DEF RegressionInv, TraceInv
<1>15. PackageHolds'
  <2>1. HasPayloads(files', Package, package.events)
    <3>1. ASSUME NEW i \in 1 .. Len(package.events), package.events[i].data_file # << >>
          PROVE  << Package, package.events[i].data_file >> \in DOMAIN files'
      BY <1>7, <1>8, <3>1
    <3>2. QED
      BY <3>1 DEF HasPayloads
  <2>2. /\ PackageManifest.signature = package.signature
        /\ DOMAIN PackageManifest.digests \subseteq DOMAIN files
    BY DEF PackageManifest, FilesOf
  <2>3. QED
    BY <1>2, <1>8, <1>10, <2>1, <2>2 DEF PackageHolds
<1>16. JobHolds' /\ CopiesHold'
  BY <1>1, <1>2 DEF JobHolds, CopiesHold
<1>17. QED
  BY <1>13, <1>14, <1>15, <1>16 DEF RegressionInv, TraceInv

LEMMA DieGeneratingHolds ==
  ASSUME RegressionInv, DieGenerating
  PROVE  RegressionInv' /\ manifest_path \notin DOMAIN files'
<1>1. /\ package # Idle /\ package' = Idle
      /\ UNCHANGED << job, written_by, commands, outcome >>
      /\ \/ UNCHANGED files
         \/ /\ package.next <= Len(ToWrite) /\ ToWrite[package.next] # << >>
            /\ files' = Put(files, << Package, ToWrite[package.next] >>, << >>)
  BY DEF DieGenerating
<1>2. /\ job = Idle /\ manifest_path \notin DOMAIN files
      /\ IsSeq(package.events) /\ NamesPayloads(package.events)
      /\ \A path \in DOMAIN written_by : path[1] # Package
      /\ package.next \in Nat \ {0}
  BY <1>1 DEF RegressionInv, CopiesHold
<1>3. CopiesHold'
  BY <1>1 DEF CopiesHold
<1>4. CASE UNCHANGED files
  BY <1>1, <1>2, <1>3, <1>4
     DEF RegressionInv, TraceInv, JobHolds, AcceptedHold, TracesName, PackageHolds
<1>5. CASE /\ package.next <= Len(ToWrite) /\ ToWrite[package.next] # << >>
           /\ files' = Put(files, << Package, ToWrite[package.next] >>, << >>)
  <2>1. package.next \in 1 .. Len(ToWrite)
    <3>1. Len(ToWrite) = Len(package.events) + 3 /\ Len(package.events) \in Nat
      BY <1>2, WhatToWrite, IsSeqFacts DEF ToWrite
    <3>2. QED
      BY <1>2, <1>5, <3>1
  <2>2. /\ ToWrite[package.next] \notin TraceNames
        /\ << Package, ToWrite[package.next] >> # manifest_path
    BY <1>1, <1>5, <2>1, Generating
  <2>3. TraceInv'
    BY <1>1, <1>2, <1>5, <2>2, PackageFileHolds DEF RegressionInv
  <2>4. manifest_path \notin DOMAIN files'
    BY <1>2, <1>5, <2>2 DEF Put
  <2>5. QED
    BY <1>3, <2>3, <2>4 DEF RegressionInv, PackageHolds
<1>6. QED
  BY <1>1, <1>4, <1>5

LEMMA RemovePackageHolds ==
  ASSUME RegressionInv, RemovePackage
  PROVE  RegressionInv'
<1>1. /\ job = Idle /\ package = Idle
      /\ files' = [f \in DOMAIN files \ FilesOf(Package) |-> files[f]]
      /\ written_by' = Disturbed(Package)
      /\ UNCHANGED << job, package, commands >>
  BY DEF RemovePackage
<1>2. \A f \in DOMAIN files : f[1] # Package => f \in DOMAIN files' /\ files'[f] = files[f]
  BY <1>1 DEF FilesOf
<1>3. \A f \in DOMAIN files' : f \in DOMAIN files /\ f[1] # Package /\ files'[f] = files[f]
  BY <1>1 DEF FilesOf
<1>4. \A f \in DOMAIN written_by' :
        f \in DOMAIN written_by /\ f[1] # Package /\ written_by'[f] = written_by[f]
  BY <1>1 DEF Disturbed
<1>5. AcceptedHold'
  <2>1. ASSUME NEW path \in DOMAIN written_by'
        PROVE  /\ path \in DOMAIN files' /\ Len(path[2]) = 1 /\ files'[path] # << >>
               /\ Len(files'[path]) = Len(written_by'[path].run.tensors)
               /\ HoldsRun(files', path[1], files'[path], written_by'[path].run,
                           written_by'[path].adapter)
    <3>1. /\ path \in DOMAIN files /\ Len(path[2]) = 1 /\ files[path] # << >>
          /\ Len(files[path]) = Len(written_by[path].run.tensors)
          /\ HoldsRun(files, path[1], files[path], written_by[path].run, written_by[path].adapter)
      BY <1>4 DEF RegressionInv, TraceInv, AcceptedHold
    <3>2. HoldsRun(files', path[1], files[path], written_by[path].run, written_by[path].adapter)
      <4>1. path[1] # Package
        BY <1>4
      <4>2. QED
        BY <1>2, <3>1, <4>1, HoldsRunKept
    <3>3. QED
      BY <1>2, <1>4, <3>1, <3>2
  <2>2. QED
    BY <2>1 DEF AcceptedHold
<1>6. TracesName'
  BY <1>3 DEF RegressionInv, TraceInv, TracesName
<1>7. PackageHolds'
  BY <1>3 DEF PackageHolds, manifest_path, In
<1>8. JobHolds' /\ CopiesHold'
  BY <1>1 DEF JobHolds, CopiesHold
<1>9. QED
  BY <1>5, <1>6, <1>7, <1>8 DEF RegressionInv, TraceInv

(* The inductive invariant of the conversions and of the generation.       *)
THEOREM RegressionInvariant == RegressionSpec => []RegressionInv
<1>1. RegressionInit => RegressionInv
  BY DEF RegressionInit, TraceInit, NoFiles, RegressionInv, TraceInv, JobHolds, AcceptedHold,
         TracesName, CopiesHold, PackageHolds
<1>2. RegressionInv /\ [RegressionNext]_regressionVars => RegressionInv'
  <2> SUFFICES ASSUME RegressionInv, [RegressionNext]_regressionVars
               PROVE  RegressionInv'
    OBVIOUS
  <2>1. CASE package = Idle /\ TraceNext /\ outcome' = NoTest /\ UNCHANGED package
    BY <2>1, ConvertingHolds
  <2>2. CASE \E source \in ReadableTraces, signature \in Failures :
               BeginPackage(source, signature)
    BY <2>2, BeginPackageHolds
  <2>3. CASE UNCHANGED << traceVars, package >>
    BY <2>3 DEF traceVars, RegressionInv, TraceInv, JobHolds, AcceptedHold, TracesName,
                CopiesHold, PackageHolds, ToWrite
  <2>4. CASE \E candidate \in ReadableTraces : RunTest(candidate)
    BY <2>3, <2>4 DEF RunTest
  <2>5. CASE UNCHANGED regressionVars
    BY <2>3, <2>5 DEF regressionVars
  <2>6. QED
    BY <2>1, <2>2, <2>4, <2>5, CopyFileHolds, WritePackageManifestHolds, DieGeneratingHolds,
       RemovePackageHolds DEF RegressionNext
<1>3. QED
  BY <1>1, <1>2, PTL DEF RegressionSpec
-----------------------------------------------------------------------------
LEMMA AcceptedReads ==
  ASSUME RegressionInv, NEW path \in DOMAIN written_by
  PROVE  /\ Readable(path) /\ Denoted(path) = Captured(written_by[path].run)
         /\ \A i \in DOMAIN files[path] :
              /\ files[path][i].backend = written_by[path].adapter
              /\ files[path][i].run = written_by[path].run.run
<1> DEFINE run == written_by[path].run
           trace == files[path]
<1>1. /\ path \in DOMAIN files /\ trace # << >> /\ Len(trace) = Len(run.tensors)
      /\ HoldsRun(files, path[1], trace, run, written_by[path].adapter)
  BY DEF RegressionInv, TraceInv, AcceptedHold
<1>2. DOMAIN trace = 1 .. Len(trace) /\ DOMAIN run.tensors = 1 .. Len(trace)
  BY <1>1, IsSeqFacts, TraceFilesAssumption DEF HoldsRun, TraceFilesAssumption
<1> HIDE DEF run, trace
<1>3. ASSUME NEW i \in DOMAIN trace
      PROVE  /\ trace[i].run = run.run /\ trace[i].backend = written_by[path].adapter
             /\ trace[i].tensor = run.tensors[i].name
             /\ trace[i].data_file # << >> => << path[1], trace[i].data_file >> \in DOMAIN files
             /\ ValuesOf(path[1], trace[i]) = run.tensors[i].values
  BY <1>1, <1>2 DEF HoldsRun, Holds, ValuesOf
<1>4. Readable(path)
  BY <1>1, <1>3 DEF Readable, trace
<1>5. Denoted(path) = Captured(run)
  BY <1>2, <1>3 DEF Denoted, Captured, trace
<1>6. QED
  BY <1>3, <1>4, <1>5 DEF run, trace

(* A trace whose conversion was accepted can be read, holds the values of  *)
(* its run and nothing else, under the backend that was asked for, whatever*)
(* adapters there are and whatever was refused or died before.             *)
THEOREM AcceptedTraces == RegressionSpec => []AcceptedTraceIsItsRun
<1>1. RegressionInv => AcceptedTraceIsItsRun
  BY AcceptedReads DEF AcceptedTraceIsItsRun
<1>2. QED
  BY <1>1, RegressionInvariant, PTL

(* A package that has its manifest is whole: nothing of it is missing, its *)
(* reference is that of the source, and the signature points into it.      *)
THEOREM PackagesAreWhole == RegressionSpec => []PackageIsWhole
<1>1. RegressionInv => PackageIsWhole
  <2> SUFFICES ASSUME RegressionInv, manifest_path \in DOMAIN files
               PROVE  /\ Readable(reference_path)
                      /\ HasReferenceValue(files[manifest_path].signature, files[reference_path])
                      /\ \A f \in DOMAIN files[manifest_path].digests : f \in DOMAIN files
                      /\ reference_path \in DOMAIN written_by =>
                           Denoted(reference_path) = Captured(written_by[reference_path].run)
    BY DEF PackageIsWhole, manifest_path, reference_path
  <2>1. /\ reference_path \in DOMAIN files /\ files[reference_path] # << >>
        /\ IsSeq(files[reference_path])
        /\ HasPayloads(files, Package, files[reference_path])
        /\ HasReferenceValue(files[manifest_path].signature, files[reference_path])
        /\ DOMAIN files[manifest_path].digests \subseteq DOMAIN files
    BY DEF RegressionInv, PackageHolds
  <2>2. reference_path[1] = Package
    BY DEF reference_path, In
  <2>3. Readable(reference_path)
    BY <2>1, <2>2, IsSeqFacts DEF Readable, HasPayloads
  <2>4. QED
    BY <2>1, <2>3, AcceptedReads
<1>2. QED
  BY <1>1, RegressionInvariant, PTL

-----------------------------------------------------------------------------
(* A trace whose tensors have different names and whose values are         *)
(* numbered.                                                               *)
TraceShape(trace) ==
  /\ DOMAIN trace \subseteq Nat
  /\ \A i \in DOMAIN trace : DOMAIN trace[i].values \subseteq Nat
  /\ \A i, j \in DOMAIN trace : trace[i].tensor = trace[j].tensor => i = j

LEMMA CapturedShape ==
  ASSUME NEW run \in Runs
  PROVE  TraceShape(Captured(run))
<1>1. /\ DOMAIN run.tensors = 1 .. Len(run.tensors) /\ Len(run.tensors) \in Nat
      /\ \A i, j \in DOMAIN run.tensors : run.tensors[i].name = run.tensors[j].name => i = j
      /\ \A i \in DOMAIN run.tensors :
           /\ DOMAIN run.tensors[i].values = 1 .. Len(run.tensors[i].values)
           /\ Len(run.tensors[i].values) \in Nat
  BY TraceFilesAssumption DEF TraceFilesAssumption
<1>2. QED
  BY <1>1 DEF TraceShape, Captured

LEMMA KeyOf ==
  ASSUME NEW trace, NEW key
  PROVE  key \in Keys(trace) <=>
           \E i \in DOMAIN trace : \E k \in DOMAIN trace[i].values :
             key = << trace[i].tensor, k >>
BY DEF Keys

LEMMA EntryIs ==
  ASSUME NEW trace, TraceShape(trace), NEW key \in Keys(trace)
  PROVE  /\ EntryOf(trace, key) \in DOMAIN trace /\ EntryOf(trace, key) \in Nat
         /\ trace[EntryOf(trace, key)].tensor = key[1]
         /\ key[2] \in DOMAIN trace[EntryOf(trace, key)].values /\ key[2] \in Nat
         /\ key = << key[1], key[2] >>
<1>1. PICK i \in DOMAIN trace : \E k \in DOMAIN trace[i].values : key = << trace[i].tensor, k >>
  BY KeyOf
<1>2. PICK k \in DOMAIN trace[i].values : key = << trace[i].tensor, k >>
  BY <1>1
<1>3. key[1] = trace[i].tensor /\ key[2] = k
  BY <1>2
<1>4. EntryOf(trace, key) \in DOMAIN trace /\ trace[EntryOf(trace, key)].tensor = key[1]
  BY <1>3 DEF EntryOf
<1>5. EntryOf(trace, key) = i
  BY <1>3, <1>4 DEF TraceShape
<1>6. QED
  BY <1>2, <1>3, <1>4, <1>5 DEF TraceShape

LEMMA LeastNumber ==
  ASSUME NEW S \in SUBSET Nat, S # {}
  PROVE  \E m \in S : \A n \in S : m <= n
<1> DEFINE R == {p \in Nat \X Nat : p[1] < p[2]}
<1>1. IsWellFoundedOn(R, Nat)
  BY NatLessThanWellFounded DEF OpToRel
<1>2. PICK m \in S : \A n \in S : << n, m >> \notin R
  <2> HIDE DEF R
  <2>1. QED
    BY <1>1, WFMin
<1>3. \A n \in S : ~(n < m)
  BY <1>2
<1>4. QED
  BY <1>3

(* The keys of a trace are in a total order, and the first of some of them *)
(* is the one that none of them is before.                                 *)
LEMMA FirstIs ==
  ASSUME NEW trace, TraceShape(trace), NEW S \in SUBSET Keys(trace), S # {}
  PROVE  /\ FirstOf(trace, S) \in S
         /\ \A key \in S : ~Earlier(trace, key, FirstOf(trace, S))
         /\ \A key \in S : (\A other \in S : ~Earlier(trace, other, key)) =>
              key = FirstOf(trace, S)
<1> DEFINE E(key) == EntryOf(trace, key)
<1>1. \A key \in S : /\ E(key) \in Nat /\ key[2] \in Nat /\ key = << key[1], key[2] >>
                     /\ trace[E(key)].tensor = key[1]
  BY EntryIs
<1>2. ASSUME NEW one \in S, NEW other \in S
      PROVE  Earlier(trace, one, other) <=>
               \/ E(one) < E(other)
               \/ E(one) = E(other) /\ one[2] < other[2]
  BY DEF Earlier
<1>3. ASSUME NEW one \in S, NEW other \in S, E(one) = E(other), one[2] = other[2]
      PROVE  one = other
  <2>1. one[1] = other[1]
    BY <1>1, <1>3
  <2>2. << one[1], one[2] >> = << other[1], other[2] >>
    BY <1>3, <2>1
  <2>3. one = << one[1], one[2] >> /\ other = << other[1], other[2] >>
    BY <1>1
  <2>4. QED
    BY <2>2, <2>3
<1> HIDE DEF E
<1>4. PICK m \in {E(key) : key \in S} : \A n \in {E(key) : key \in S} : m <= n
  <2>1. {E(key) : key \in S} \in SUBSET Nat /\ {E(key) : key \in S} # {}
    BY <1>1
  <2>2. QED
    BY <2>1, LeastNumber
<1>5. PICK l \in {key[2] : key \in {key \in S : E(key) = m}} :
        \A n \in {key[2] : key \in {key \in S : E(key) = m}} : l <= n
  <2>1. /\ {key[2] : key \in {key \in S : E(key) = m}} \in SUBSET Nat
        /\ {key[2] : key \in {key \in S : E(key) = m}} # {}
    BY <1>1, <1>4
  <2>2. QED
    BY <2>1, LeastNumber
<1>6. PICK first \in S : E(first) = m /\ first[2] = l
  BY <1>5
<1>7. ASSUME NEW other \in S, other # first
      PROVE  Earlier(trace, first, other)
  <2>1. m <= E(other)
    BY <1>4
  <2>2. CASE E(other) # m
    <3>1. E(first) < E(other)
      <4>1. E(other) \in Nat /\ m \in Nat /\ E(first) = m
        BY <1>1, <1>4, <1>6
      <4>2. QED
        BY <2>1, <2>2, <4>1
    <3>2. QED
      BY <1>2, <3>1
  <2>3. CASE E(other) = m
    <3>1. l <= other[2]
      BY <1>5, <2>3
    <3>2. other[2] # l
      BY <1>3, <1>6, <1>7, <2>3
    <3>3. first[2] < other[2] /\ first[2] \in Nat /\ other[2] \in Nat
      BY <1>1, <1>6, <3>1, <3>2
    <3>4. QED
      BY <1>2, <1>6, <2>3, <3>3
  <2>4. QED
    BY <2>2, <2>3
<1>8. \A one, other \in S : Earlier(trace, one, other) => ~Earlier(trace, other, one)
  <2>1. ASSUME NEW one \in S, NEW other \in S, Earlier(trace, one, other),
               Earlier(trace, other, one)
        PROVE  FALSE
    <3>1. /\ E(one) \in Nat /\ E(other) \in Nat /\ one[2] \in Nat /\ other[2] \in Nat
      BY <1>1
    <3>2. E(one) < E(other) \/ (E(one) = E(other) /\ one[2] < other[2])
      BY <1>2, <2>1
    <3>3. E(other) < E(one) \/ (E(other) = E(one) /\ other[2] < one[2])
      BY <1>2, <2>1
    <3>4. QED
      BY <3>1, <3>2, <3>3
  <2>2. QED
    BY <2>1
<1> DEFINE found == FirstOf(trace, S)
<1>9. found \in S /\ \A other \in S : other = found \/ Earlier(trace, found, other)
  BY <1>7 DEF FirstOf
<1> HIDE DEF found
<1>10. \A key \in S : ~Earlier(trace, key, found)
  BY <1>8, <1>9
<1>11. \A key \in S : (\A other \in S : ~Earlier(trace, other, key)) => key = found
  BY <1>9
<1>12. QED
  BY <1>9, <1>10, <1>11 DEF found

(* The verdict tells whether the runs r and s have the same values, and if *)
(* not, whether their first difference is the failure f.                   *)
Judges(said, r, s, f) ==
  LET reference == Captured(r)
      candidate == Captured(s)
      agree(key) == key \in Keys(candidate) /\ ValueAt(candidate, key) = ValueAt(reference, key)
      failure == << f.tensor, f.at >>
  IN  /\ said = "passed" <=> Unequal(reference, candidate) = {}
                               /\ Keys(candidate) \subseteq Keys(reference)
      /\ said = "reproduces" <=>
           /\ ~agree(failure)
           /\ \A key \in Keys(reference) : Earlier(reference, key, failure) => agree(key)
           /\ f.kind = IF failure \in Keys(candidate) THEN "value_mismatch"
                       ELSE "missing_candidate_value"
      /\ said \in {"passed", "reproduces", "signature changed"}

(* The verdict of a test judges so, if the place of the failure is in the  *)
(* reference.                                                              *)
LEMMA VerdictJudges ==
  ASSUME NEW r \in Runs, NEW s \in Runs, NEW f \in Failures,
         << f.tensor, f.at >> \in Keys(Captured(r))
  PROVE  Judges(verdict(first_divergence(Captured(r), Captured(s)), f), r, s, f)
<1> DEFINE reference == Captured(r)
           candidate == Captured(s)
           agree(key) == key \in Keys(candidate) /\ ValueAt(candidate, key) = ValueAt(reference, key)
           failure == << f.tensor, f.at >>
           unequal == Unequal(reference, candidate)
           extra == Keys(candidate) \ Keys(reference)
           d == first_divergence(reference, candidate)
           said == verdict(d, f)
           key1 == FirstOf(reference, unequal)
           key2 == FirstOf(candidate, extra)
           kind1 == IF key1 \in Keys(candidate) THEN "value_mismatch" ELSE "missing_candidate_value"
<1>1. TraceShape(reference) /\ TraceShape(candidate)
  BY CapturedShape
<1>2. f = [kind |-> f.kind, tensor |-> f.tensor, at |-> f.at]
  BY FailuresAssumption DEF FailuresAssumption
<1>3. ASSUME NEW run \in Runs, NEW key \in Keys(Captured(run)),
             NEW kind \in {"value_mismatch", "missing_candidate_value",
                           "unexpected_candidate_value"}
      PROVE  Divergence(kind, key) # Idle
  <2>1. PICK i \in DOMAIN Captured(run) : \E k \in DOMAIN Captured(run)[i].values :
          key = << Captured(run)[i].tensor, k >>
    BY KeyOf
  <2>2. PICK k \in DOMAIN Captured(run)[i].values : key = << Captured(run)[i].tensor, k >>
    BY <2>1
  <2>3. /\ i \in DOMAIN run.tensors /\ k \in DOMAIN run.tensors[i].values
        /\ key[1] = run.tensors[i].name /\ key[2] = k
    BY <2>2 DEF Captured
  <2>4. [kind |-> kind, tensor |-> run.tensors[i].name, at |-> k] # Idle
    BY <2>3, FailuresAssumption DEF FailuresAssumption
  <2>5. QED
    BY <2>3, <2>4 DEF Divergence
<1>4. /\ unequal # {} => d = Divergence(kind1, key1)
      /\ unequal = {} /\ extra # {} => d = Divergence("unexpected_candidate_value", key2)
      /\ unequal = {} /\ extra = {} => d = Idle
  BY DEF first_divergence
<1>5. /\ said = "passed" <=> d = Idle
      /\ said = "reproduces" <=> d # Idle /\ d = f
      /\ said \in {"passed", "reproduces", "signature changed"}
  <2> HIDE DEF d
  <2>1. QED
    BY DEF verdict
<1>6. \A key : key \in unequal <=> key \in Keys(reference) /\ ~agree(key)
  BY DEF Unequal
<1>7. failure \in Keys(reference) /\ failure[1] = f.tensor /\ failure[2] = f.at
  OBVIOUS
<1>8. ASSUME NEW kind, NEW key, key = << key[1], key[2] >>
      PROVE  Divergence(kind, key) = f <=> kind = f.kind /\ key = failure
  <2>1. Divergence(kind, key) = f => kind = f.kind /\ key[1] = f.tensor /\ key[2] = f.at
    <3>1. /\ Divergence(kind, key).kind = kind /\ Divergence(kind, key).tensor = key[1]
          /\ Divergence(kind, key).at = key[2]
      BY DEF Divergence
    <3>2. QED
      BY <3>1
  <2>2. kind = f.kind /\ key[1] = f.tensor /\ key[2] = f.at => Divergence(kind, key) = f
    BY <1>2 DEF Divergence
  <2>3. key = failure <=> key[1] = f.tensor /\ key[2] = f.at
    <3>1. key[1] = f.tensor /\ key[2] = f.at => << key[1], key[2] >> = << f.tensor, f.at >>
      OBVIOUS
    <3>2. key = failure => key[1] = f.tensor /\ key[2] = f.at
      BY <1>7
    <3>3. QED
      BY <1>8, <3>1, <3>2
  <2>4. QED
    BY <2>1, <2>2, <2>3
<1>9. unequal # {} =>
        /\ key1 \in unequal /\ key1 \in Keys(reference) /\ key1 = << key1[1], key1[2] >>
        /\ \A key \in unequal : ~Earlier(reference, key, key1)
        /\ \A key \in unequal :
             (\A other \in unequal : ~Earlier(reference, other, key)) => key = key1
  <2>1. ASSUME unequal # {}
        PROVE  /\ key1 \in unequal
               /\ \A key \in unequal : ~Earlier(reference, key, key1)
               /\ \A key \in unequal :
                    (\A other \in unequal : ~Earlier(reference, other, key)) => key = key1
    <3>1. unequal \in SUBSET Keys(reference)
      BY <1>6
    <3> HIDE DEF unequal, reference
    <3>2. QED
      BY <1>1, <2>1, <3>1, FirstIs
  <2>2. ASSUME unequal # {}
        PROVE  key1 \in Keys(reference) /\ key1 = << key1[1], key1[2] >>
    <3>1. key1 \in Keys(reference)
      BY <1>6, <2>1, <2>2
    <3> HIDE DEF key1, reference
    <3>2. QED
      BY <1>1, <3>1, EntryIs
  <2> HIDE DEF unequal, key1, reference
  <2>3. QED
    BY <2>1, <2>2
<1>10. extra # {} => key2 \in extra /\ key2 \in Keys(candidate) /\ key2 = << key2[1], key2[2] >>
  <2>1. ASSUME extra # {}
        PROVE  key2 \in extra
    <3>1. extra \in SUBSET Keys(candidate)
      OBVIOUS
    <3> HIDE DEF extra, candidate
    <3>2. QED
      BY <1>1, <2>1, <3>1, FirstIs
  <2>2. ASSUME extra # {}
        PROVE  key2 \in Keys(candidate) /\ key2 = << key2[1], key2[2] >>
    <3>1. key2 \in Keys(candidate)
      BY <2>1, <2>2
    <3> HIDE DEF key2, candidate
    <3>2. QED
      BY <1>1, <3>1, EntryIs
  <2> HIDE DEF extra, key2, candidate
  <2>3. QED
    BY <2>1, <2>2
<1>11. extra = {} <=> Keys(candidate) \subseteq Keys(reference)
  OBVIOUS
<1>12. /\ unequal # {} => Divergence(kind1, key1) # Idle
       /\ extra # {} => Divergence("unexpected_candidate_value", key2) # Idle
  <2>1. kind1 \in {"value_mismatch", "missing_candidate_value", "unexpected_candidate_value"}
    OBVIOUS
  <2>2. \A key \in Keys(reference) :
          \A kind \in {"value_mismatch", "missing_candidate_value", "unexpected_candidate_value"} :
            Divergence(kind, key) # Idle
    BY <1>3
  <2>3. \A key \in Keys(candidate) : Divergence("unexpected_candidate_value", key) # Idle
    BY <1>3
  <2> HIDE DEF unequal, extra, kind1, key1, key2, reference, candidate
  <2>4. QED
    BY <1>9, <1>10, <2>1, <2>2, <2>3
<1>13. extra # {} => key2 # failure
  <2> HIDE DEF key2, failure
  <2>1. QED
    BY <1>7, <1>10
<1>14. /\ unequal # {} => (Divergence(kind1, key1) = f <=> kind1 = f.kind /\ key1 = failure)
       /\ extra # {} => Divergence("unexpected_candidate_value", key2) # f
  <2> HIDE DEF unequal, extra, kind1, key1, key2, failure, reference, candidate
  <2>1. unequal # {} => (Divergence(kind1, key1) = f <=> kind1 = f.kind /\ key1 = failure)
    BY <1>8, <1>9
  <2>2. extra # {} => (Divergence("unexpected_candidate_value", key2) = f => key2 = failure)
    BY <1>8, <1>10
  <2>3. QED
    BY <1>13, <2>1, <2>2
<1>15. key1 = failure => kind1 = IF failure \in Keys(candidate) THEN "value_mismatch"
                                 ELSE "missing_candidate_value"
  <2> HIDE DEF key1, failure
  <2>1. QED
    OBVIOUS
<1> HIDE DEF unequal, extra, d, said, kind1, key1, key2, failure, agree, reference, candidate
<1>16. said = "passed" <=> unequal = {} /\ extra = {}
  BY <1>4, <1>5, <1>12
<1>17. said = "reproduces" <=> unequal # {} /\ key1 = failure /\ kind1 = f.kind
  BY <1>4, <1>5, <1>12, <1>14
<1>18. unequal # {} /\ key1 = failure <=>
         /\ ~agree(failure)
         /\ \A key \in Keys(reference) : Earlier(reference, key, failure) => agree(key)
  <2>1. ASSUME unequal # {}, key1 = failure
        PROVE  /\ ~agree(failure)
               /\ \A key \in Keys(reference) : Earlier(reference, key, failure) => agree(key)
    BY <1>6, <1>9, <2>1
  <2>2. ASSUME ~agree(failure),
               \A key \in Keys(reference) : Earlier(reference, key, failure) => agree(key)
        PROVE  unequal # {} /\ key1 = failure
    <3>1. failure \in unequal
      BY <1>6, <1>7, <2>2
    <3>2. \A other \in unequal : ~Earlier(reference, other, failure)
      BY <1>6, <2>2
    <3>3. QED
      BY <1>9, <3>1, <3>2
  <2>3. QED
    BY <2>1, <2>2
<1> DEFINE named == IF failure \in Keys(candidate) THEN "value_mismatch"
                    ELSE "missing_candidate_value"
<1>19. key1 = failure => kind1 = named
  BY <1>15
<1> HIDE DEF named
<1>20. said = "reproduces" <=>
         /\ ~agree(failure)
         /\ \A key \in Keys(reference) : Earlier(reference, key, failure) => agree(key)
         /\ f.kind = named
  BY <1>17, <1>18, <1>19
<1>21. QED
  BY <1>5, <1>11, <1>16, <1>20
     DEF unequal, d, said, failure, agree, reference, candidate, named, Judges

-----------------------------------------------------------------------------
(* The signatures of packages are failures.                                *)
SignaturesKnown ==
  /\ package # Idle => package.signature \in Failures
  /\ manifest_path \in DOMAIN files => files[manifest_path].signature \in Failures

(* What the last test said is the verdict on its two runs.                 *)
OutcomeTrue ==
  outcome.expected # Idle /\ outcome.observed # Idle =>
    /\ outcome.expected \in Runs /\ outcome.observed \in Runs
    /\ outcome.signature \in Failures
    /\ << outcome.signature.tensor, outcome.signature.at >> \in Keys(Captured(outcome.expected))
    /\ outcome.verdict =
         verdict(first_divergence(Captured(outcome.expected), Captured(outcome.observed)),
                 outcome.signature)

OutcomeInv == RegressionInv /\ SignaturesKnown /\ OutcomeTrue

LEMMA SignaturesStayKnown ==
  ASSUME RegressionInv, SignaturesKnown, RegressionNext
  PROVE  SignaturesKnown'
<1>1. CASE package = Idle /\ TraceNext /\ UNCHANGED package
  <2>1. KeepsOwnFiles
    BY <1>1, ConversionHolds DEF RegressionInv
  <2>2. manifest_path[2] \in OwnNames
    BY DEF manifest_path, In, OwnNames
  <2>3. QED
    BY <1>1, <2>1, <2>2 DEF SignaturesKnown, KeepsOwnFiles
<1>2. CASE \E source \in ReadableTraces, signature \in Failures : BeginPackage(source, signature)
  <2>1. package'.signature \in Failures /\ files' = files
    BY <1>2 DEF BeginPackage, traceVars
  <2>2. QED
    BY <2>1 DEF SignaturesKnown
<1>3. CASE CopyFile
  <2>1. package # Idle /\ package' = [package EXCEPT !.next = @ + 1]
    BY <1>3 DEF CopyFile
  <2>2. package = [source |-> package.source, signature |-> package.signature,
                   events |-> package.events, next |-> package.next]
    BY <2>1 DEF RegressionInv, CopiesHold
  <2>3. package'.signature = package.signature
    BY <2>1, <2>2
  <2>4. manifest_path \notin DOMAIN files'
    BY <1>3, CopyFileHolds
  <2>5. QED
    BY <2>1, <2>3, <2>4 DEF SignaturesKnown
<1>4. CASE WritePackageManifest
  <2>1. /\ package # Idle /\ package' = Idle
        /\ files' = Put(files, manifest_path, PackageManifest)
    BY <1>4 DEF WritePackageManifest, manifest_path
  <2>2. files'[manifest_path].signature = package.signature
    BY <2>1 DEF Put, PackageManifest
  <2>3. QED
    BY <2>1, <2>2 DEF SignaturesKnown
<1>5. CASE DieGenerating
  <2>1. package' = Idle /\ manifest_path \notin DOMAIN files'
    BY <1>5, DieGeneratingHolds DEF DieGenerating
  <2>2. QED
    BY <2>1 DEF SignaturesKnown
<1>6. CASE RemovePackage
  <2>1. package' = Idle /\ manifest_path \notin DOMAIN files'
    BY <1>6 DEF RemovePackage, FilesOf, manifest_path, In
  <2>2. QED
    BY <2>1 DEF SignaturesKnown
<1>7. CASE \E candidate \in ReadableTraces : RunTest(candidate)
  BY <1>7 DEF RunTest, traceVars, SignaturesKnown
<1>8. QED
  BY <1>1, <1>2, <1>3, <1>4, <1>5, <1>6, <1>7 DEF RegressionNext

(* The place of a failure that has a reference value is in the run.        *)
LEMMA FailureInRun ==
  ASSUME RegressionInv, NEW path \in DOMAIN written_by, NEW failure,
         HasReferenceValue(failure, files[path])
  PROVE  << failure.tensor, failure.at >> \in Keys(Captured(written_by[path].run))
<1> DEFINE run == written_by[path].run
           trace == files[path]
<1>1. /\ Len(trace) = Len(run.tensors)
      /\ HoldsRun(files, path[1], trace, run, written_by[path].adapter)
  BY DEF RegressionInv, TraceInv, AcceptedHold
<1>2. /\ DOMAIN trace = 1 .. Len(trace) /\ DOMAIN run.tensors = 1 .. Len(trace)
      /\ \A i \in DOMAIN run.tensors :
           DOMAIN run.tensors[i].values = 1 .. Len(run.tensors[i].values)
  BY <1>1, IsSeqFacts, TraceFilesAssumption DEF HoldsRun, TraceFilesAssumption
<1>3. PICK i \in DOMAIN trace : trace[i].tensor = failure.tensor /\ failure.at \in 1 .. trace[i].size
  BY DEF HasReferenceValue
<1> HIDE DEF run, trace
<1>4. trace[i].tensor = run.tensors[i].name /\ trace[i].size = Len(run.tensors[i].values)
  BY <1>1, <1>2 DEF HoldsRun, Holds
<1>5. /\ i \in DOMAIN Captured(run) /\ Captured(run)[i].tensor = failure.tensor
      /\ failure.at \in DOMAIN Captured(run)[i].values
  BY <1>2, <1>3, <1>4 DEF Captured
<1>6. << failure.tensor, failure.at >> \in Keys(Captured(run))
  BY <1>5, KeyOf
<1>7. QED
  BY <1>6 DEF run

LEMMA TestIsTrue ==
  ASSUME RegressionInv, SignaturesKnown, NEW candidate, RunTest(candidate)
  PROVE  OutcomeTrue'
<1> DEFINE f == files[manifest_path].signature
<1>1. /\ manifest_path \in DOMAIN files
      /\ outcome' =
           [verdict   |-> IF Readable(reference_path)
                            THEN verdict(first_divergence(Denoted(reference_path),
                                                          Denoted(candidate)), f)
                            ELSE "error",
            signature |-> f, expected |-> RunOf(reference_path), observed |-> RunOf(candidate)]
  BY DEF RunTest, manifest_path, reference_path
<1>2. /\ outcome'.signature = f /\ outcome'.expected = RunOf(reference_path)
      /\ outcome'.observed = RunOf(candidate)
      /\ Readable(reference_path) =>
           outcome'.verdict = verdict(first_divergence(Denoted(reference_path),
                                                       Denoted(candidate)), f)
  BY <1>1
<1>3. f \in Failures
  BY <1>1 DEF SignaturesKnown
<1>4. HasReferenceValue(f, files[reference_path])
  BY <1>1 DEF RegressionInv, PackageHolds
<1> HIDE DEF f
<1>5. ASSUME outcome'.expected # Idle, outcome'.observed # Idle
      PROVE  /\ outcome'.expected \in Runs /\ outcome'.observed \in Runs
             /\ outcome'.signature \in Failures
             /\ << outcome'.signature.tensor, outcome'.signature.at >>
                  \in Keys(Captured(outcome'.expected))
             /\ outcome'.verdict =
                  verdict(first_divergence(Captured(outcome'.expected),
                                           Captured(outcome'.observed)),
                          outcome'.signature)
  <2>1. /\ reference_path \in DOMAIN written_by /\ candidate \in DOMAIN written_by
        /\ outcome'.expected = written_by[reference_path].run
        /\ outcome'.observed = written_by[candidate].run
    BY <1>2, <1>5 DEF RunOf
  <2>2. outcome'.expected \in Runs /\ outcome'.observed \in Runs
    BY <2>1 DEF RegressionInv, TraceInv, AcceptedHold, HoldsRun
  <2>3. /\ Readable(reference_path)
        /\ Denoted(reference_path) = Captured(outcome'.expected)
        /\ Denoted(candidate) = Captured(outcome'.observed)
    BY <2>1, AcceptedReads
  <2>4. << f.tensor, f.at >> \in Keys(Captured(outcome'.expected))
    BY <1>4, <2>1, FailureInRun
  <2>5. QED
    BY <1>2, <1>3, <2>2, <2>3, <2>4
<1>6. QED
  BY <1>5 DEF OutcomeTrue

(* The verdict of a test stays true of its runs.                           *)
THEOREM OutcomeInvariant == RegressionSpec => []OutcomeInv
<1>1. RegressionInit => SignaturesKnown /\ OutcomeTrue
  BY DEF RegressionInit, TraceInit, NoFiles, NoTest, SignaturesKnown, OutcomeTrue
<1>2. RegressionInv /\ SignaturesKnown /\ OutcomeTrue /\ [RegressionNext]_regressionVars =>
        SignaturesKnown' /\ OutcomeTrue'
  <2> SUFFICES ASSUME RegressionInv, SignaturesKnown, OutcomeTrue,
                      [RegressionNext]_regressionVars
               PROVE  SignaturesKnown' /\ OutcomeTrue'
    OBVIOUS
  <2>1. CASE UNCHANGED regressionVars
    BY <2>1 DEF regressionVars, traceVars, SignaturesKnown, OutcomeTrue
  <2>2. CASE RegressionNext
    <3>1. SignaturesKnown'
      BY <2>2, SignaturesStayKnown
    <3>2. CASE \E candidate \in ReadableTraces : RunTest(candidate)
      BY <3>1, <3>2, TestIsTrue
    <3>3. CASE outcome' = NoTest \/ outcome' = outcome
      BY <3>1, <3>3 DEF NoTest, OutcomeTrue
    <3>4. QED
      BY <2>2, <3>2, <3>3
         DEF RegressionNext, BeginPackage, CopyFile, WritePackageManifest, DieGenerating,
             RemovePackage
  <2>3. QED
    BY <2>1, <2>2
<1>3. QED
  BY <1>1, <1>2, RegressionInvariant, PTL DEF RegressionSpec, OutcomeInv

(* The test of a package tells a repaired device, the recorded failure and *)
(* another one apart, for any runs and failures, whatever was generated,   *)
(* removed, refused or died before.                                        *)
THEOREM RegressionsTell == RegressionSpec => []RegressionTells
<1>1. OutcomeInv => RegressionTells
  <2> DEFINE r == outcome.expected
             s == outcome.observed
             f == outcome.signature
             failure == << f.tensor, f.at >>
             reference == Captured(r)
             candidate == Captured(s)
             expected == Meaning(r)
             observed == Meaning(s)
             agree(key) == key \in DOMAIN observed /\ observed[key] = expected[key]
  <2> SUFFICES ASSUME OutcomeInv, r # Idle, s # Idle
               PROVE  /\ outcome.verdict = "passed" <=> expected = observed
                      /\ outcome.verdict = "reproduces" <=>
                           /\ failure \in DOMAIN expected /\ ~agree(failure)
                           /\ \A key \in DOMAIN expected :
                                Earlier(reference, key, failure) => agree(key)
                           /\ f.kind = IF failure \in DOMAIN observed THEN "value_mismatch"
                                       ELSE "missing_candidate_value"
                      /\ outcome.verdict \in {"passed", "reproduces", "signature changed"}
    BY DEF RegressionTells
  <2>1. /\ r \in Runs /\ s \in Runs /\ f \in Failures /\ failure \in Keys(reference)
        /\ outcome.verdict = verdict(first_divergence(reference, candidate), f)
    BY DEF OutcomeInv, OutcomeTrue
  <2> DEFINE same(key) == key \in Keys(candidate)
                            /\ ValueAt(candidate, key) = ValueAt(reference, key)
  <2>2. /\ outcome.verdict = "passed" <=> Unequal(reference, candidate) = {}
                                            /\ Keys(candidate) \subseteq Keys(reference)
        /\ outcome.verdict = "reproduces" <=>
             /\ ~same(failure)
             /\ \A key \in Keys(reference) : Earlier(reference, key, failure) => same(key)
             /\ f.kind = IF failure \in Keys(candidate) THEN "value_mismatch"
                         ELSE "missing_candidate_value"
        /\ outcome.verdict \in {"passed", "reproduces", "signature changed"}
    <3>1. Judges(outcome.verdict, r, s, f)
      <4> HIDE DEF r, s, f
      <4>1. << f.tensor, f.at >> \in Keys(Captured(r))
        BY <2>1
      <4>2. QED
        BY <2>1, <4>1, VerdictJudges
    <3>2. QED
      BY <3>1 DEF Judges
  <2>3. /\ DOMAIN expected = Keys(reference) /\ DOMAIN observed = Keys(candidate)
        /\ \A key \in Keys(reference) : expected[key] = ValueAt(reference, key)
        /\ \A key \in Keys(candidate) : observed[key] = ValueAt(candidate, key)
        /\ expected = [key \in Keys(reference) |-> expected[key]]
        /\ observed = [key \in Keys(candidate) |-> observed[key]]
    BY DEF Meaning
  <2>4. Unequal(reference, candidate) = {key \in Keys(reference) : ~same(key)}
    BY DEF Unequal
  <2> HIDE DEF expected, observed, reference, candidate, failure
  <2>5. \A key \in Keys(reference) : agree(key) <=> same(key)
    BY <2>3
  <2>6. Unequal(reference, candidate) = {} /\ Keys(candidate) \subseteq Keys(reference)
          <=> expected = observed
    <3>1. ASSUME Unequal(reference, candidate) = {}, Keys(candidate) \subseteq Keys(reference)
          PROVE  expected = observed
      <4>1. \A key \in Keys(reference) : same(key)
        BY <2>4, <3>1
      <4>2. Keys(reference) = Keys(candidate)
        BY <3>1, <4>1
      <4>3. \A key \in Keys(reference) : expected[key] = observed[key]
        BY <2>3, <4>1
      <4>4. QED
        BY <2>3, <4>2, <4>3
    <3>2. ASSUME expected = observed
          PROVE  Unequal(reference, candidate) = {} /\ Keys(candidate) \subseteq Keys(reference)
      <4>1. Keys(reference) = Keys(candidate)
        BY <2>3, <3>2
      <4>2. \A key \in Keys(reference) : same(key)
        BY <2>3, <3>2, <4>1
      <4>3. QED
        BY <2>4, <4>1, <4>2
    <3>3. QED
      BY <3>1, <3>2
  <2>7. QED
    BY <2>1, <2>2, <2>3, <2>5, <2>6
<1>2. QED
  BY <1>1, OutcomeInvariant, PTL
=============================================================================
