-------------------------- MODULE RegressionPackage --------------------------
(***************************************************************************)
(* regression.py: a reference trace and the signature of a minimized       *)
(* failure become a directory with a test in it, file by file and the      *)
(* manifest last; the test compares a device's trace with the reference    *)
(* and tells a repaired device, the old failure and another one apart.     *)
(*                                                                         *)
(* Generation reads what conversions left in their directories, and a      *)
(* device may trace itself into any directory, the package's too.          *)
(***************************************************************************)
EXTENDS TraceFiles

CONSTANTS
  Package,      \* the directory of the package
  Failures      \* failure signatures: [kind, tensor, at]

(* The files of a package beside the payloads; no device is asked to trace *)
(* itself into one of them.                                                *)
OwnNames == {<< "inputs.npz" >>, << "reference.jsonl" >>, << "test.py" >>, << "manifest.json" >>}

ASSUME OwnNamesAssumption == OwnNames \cap TraceNames = {}

(* Idle, which also stands for no divergence, is none. *)
ASSUME FailuresAssumption ==
  /\ \A f \in Failures : f = [kind |-> f.kind, tensor |-> f.tensor, at |-> f.at]
  /\ \A r \in Runs : \A i \in DOMAIN r.tensors : \A k \in DOMAIN r.tensors[i].values :
       \A kind \in {"value_mismatch", "missing_candidate_value", "unexpected_candidate_value"} :
         [kind |-> kind, tensor |-> r.tensors[i].name, at |-> k] # Idle

VARIABLES
  package,      \* the generation that is running
  outcome       \* what the last test said, and history: of which runs

regressionVars == << traceVars, package, outcome >>

In(directory, name) == << directory, << name >> >>

NoTest == [verdict |-> "none", signature |-> Idle, expected |-> Idle, observed |-> Idle]

RegressionInit == TraceInit /\ package = Idle /\ outcome = NoTest
-----------------------------------------------------------------------------
FilesOf(directory) == {f \in DOMAIN files : f[1] = directory}

(* _signature_has_reference_value *)
HasReferenceValue(signature, events) ==
  \E i \in DOMAIN events :
    events[i].tensor = signature.tensor /\ signature.at \in 1 .. events[i].size

(* What the turns of the loop over the events copy; << >> if the event has *)
(* no payload.                                                             *)
(* Faulty variant: only that of the first event. *)
FirstPayload(events) ==
  [i \in DOMAIN events |-> IF i = 1 THEN events[1].data_file ELSE << >>]

PayloadsOf(events) == [i \in DOMAIN events |-> events[i].data_file]

(* The files of a package, in the order in which they are written; the     *)
(* README goes with the test.                                              *)
FilesToWrite(events) ==
  << << "inputs.npz" >>, << "reference.jsonl" >> >> \o PayloadsOf(events)
    \o << << "test.py" >> >>

(* What is copied, or written from the name. *)
ContentOf(name) ==
  CASE name = << "reference.jsonl" >> -> files[package.source]
    [] name \in Range(PayloadsOf(package.events)) -> files[<< package.source[1], name >>]
    [] OTHER -> name

BeginPackage(source, signature) ==
  /\ job = Idle /\ package = Idle
  /\ FilesOf(Package) = {}
  /\ Readable(source) /\ HasReferenceValue(signature, files[source])
  /\ package' = [source |-> source, signature |-> signature, events |-> files[source], next |-> 1]
  /\ outcome' = NoTest
  /\ UNCHANGED traceVars

ToWrite == FilesToWrite(package.events)

CopyFile ==
  /\ package # Idle /\ package.next <= Len(ToWrite)
  /\ LET name == ToWrite[package.next]
     IN  files' = IF name = << >> THEN files
                  ELSE Put(files, << Package, name >>, ContentOf(name))
  /\ package' = [package EXCEPT !.next = @ + 1]
  /\ UNCHANGED << job, written_by, commands, outcome >>

(* The manifest lists whatever is in the directory by then.                *)
PackageManifest == [signature |-> package.signature, digests |-> [f \in FilesOf(Package) |-> files[f]]]

WritePackageManifest ==
  /\ package # Idle /\ package.next > Len(ToWrite)
  /\ files' = Put(files, In(Package, "manifest.json"), PackageManifest)
  /\ written_by' = IF package.source \in DOMAIN written_by
                 THEN Put(written_by, In(Package, "reference.jsonl"), written_by[package.source])
                 ELSE written_by
  /\ package' = Idle
  /\ UNCHANGED << job, commands, outcome >>

(* The generator dies; the file it was writing may be empty.               *)
DieGenerating ==
  /\ package # Idle
  /\ \/ UNCHANGED files
     \/ /\ package.next <= Len(ToWrite) /\ ToWrite[package.next] # << >>
        /\ files' = Put(files, << Package, ToWrite[package.next] >>, << >>)
  /\ package' = Idle
  /\ UNCHANGED << job, written_by, commands, outcome >>

(* Whoever finds a package without a manifest removes it. *)
RemovePackage ==
  /\ job = Idle /\ package = Idle /\ FilesOf(Package) # {}
  /\ files' = [f \in DOMAIN files \ FilesOf(Package) |-> files[f]]
  /\ written_by' = Disturbed(Package)
  /\ outcome' = NoTest
  /\ UNCHANGED << job, package, commands >>
-----------------------------------------------------------------------------
(* compare_trace_files, as TraceComparison has it: the first value of the  *)
(* reference that the candidate lacks or has another one for, and behind   *)
(* them what only the candidate has.  Both are of one model, so that the   *)
(* metadata agree.                                                         *)
Keys(trace) ==
  UNION {{<< trace[i].tensor, k >> : k \in DOMAIN trace[i].values} : i \in DOMAIN trace}

EntryOf(trace, key) == CHOOSE i \in DOMAIN trace : trace[i].tensor = key[1]

ValueAt(trace, key) == trace[EntryOf(trace, key)].values[key[2]]

(* A trace has its values in the order of its events. *)
Earlier(trace, one, other) ==
  \/ EntryOf(trace, one) < EntryOf(trace, other)
  \/ EntryOf(trace, one) = EntryOf(trace, other) /\ one[2] < other[2]

FirstOf(trace, keys) ==
  CHOOSE key \in keys : \A other \in keys : other = key \/ Earlier(trace, key, other)

Divergence(kind, key) == [kind |-> kind, tensor |-> key[1], at |-> key[2]]

Unequal(reference, candidate) ==
  {key \in Keys(reference) :
     key \notin Keys(candidate) \/ ValueAt(candidate, key) # ValueAt(reference, key)}

first_divergence(reference, candidate) ==
  LET unequal == Unequal(reference, candidate)
      extra   == Keys(candidate) \ Keys(reference)
      key     == FirstOf(reference, unequal)
  IN  IF unequal # {}
        THEN Divergence(IF key \in Keys(candidate) THEN "value_mismatch"
                        ELSE "missing_candidate_value", key)
      ELSE IF extra # {}
        THEN Divergence("unexpected_candidate_value", FirstOf(candidate, extra))
      ELSE Idle

(* Faulty variant: the kind of the divergence is not looked at. *)
verdict_by_place(divergence, signature) ==
  IF divergence = Idle THEN "passed"
  ELSE IF divergence.tensor = signature.tensor /\ divergence.at = signature.at THEN "reproduces"
  ELSE "signature changed"

verdict(divergence, signature) ==
  IF divergence = Idle THEN "passed"
  ELSE IF divergence = signature THEN "reproduces"
  ELSE "signature changed"

RunOf(path) == IF path \in DOMAIN written_by THEN written_by[path].run ELSE Idle

(* The generated test, with the trace the device has written or returned.  *)
RunTest(candidate) ==
  LET reference == In(Package, "reference.jsonl")
      signature == files[In(Package, "manifest.json")].signature
  IN  /\ job = Idle /\ package = Idle
      /\ In(Package, "manifest.json") \in DOMAIN files
      /\ outcome' =
           [verdict   |-> IF Readable(reference)
                            THEN verdict(first_divergence(Denoted(reference), Denoted(candidate)),
                                         signature)
                            ELSE "error",
            signature |-> signature, expected |-> RunOf(reference), observed |-> RunOf(candidate)]
      /\ UNCHANGED << traceVars, package >>

ReadableTraces == {f \in DOMAIN files : f[2] \in TraceNames /\ Readable(f)}

RegressionNext ==
  \/ package = Idle /\ TraceNext /\ outcome' = NoTest /\ UNCHANGED package
  \/ \E source \in ReadableTraces, signature \in Failures : BeginPackage(source, signature)
  \/ CopyFile \/ WritePackageManifest \/ DieGenerating \/ RemovePackage
  \/ \E candidate \in ReadableTraces : RunTest(candidate)

RegressionSpec == RegressionInit /\ [][RegressionNext]_regressionVars
-----------------------------------------------------------------------------
(* A directory with a manifest is a whole package: its reference can be    *)
(* read, is that of the source, holds a value where the signature points,  *)
(* and the files are those of the digests, whatever died before, until a   *)
(* conversion writes into the directory.                                   *)
PackageIsWhole ==
  LET reference == In(Package, "reference.jsonl")
      manifest  == In(Package, "manifest.json")
  IN  manifest \in DOMAIN files =>
        /\ Readable(reference)
        /\ HasReferenceValue(files[manifest].signature, files[reference])
        /\ \A f \in DOMAIN files[manifest].digests : f \in DOMAIN files
        /\ reference \in DOMAIN written_by =>
             Denoted(reference) = Captured(written_by[reference].run)

Meaning(run) == [key \in Keys(Captured(run)) |-> ValueAt(Captured(run), key)]

(* The test passes exactly when the device computes the reference's        *)
(* values; it says that the failure reproduces exactly when its signature  *)
(* is the first difference, in the reference's order, and speaks of a      *)
(* changed signature otherwise: as long as reference and candidate are     *)
(* still the traces of their runs.                                         *)
RegressionTells ==
  LET expected == Meaning(outcome.expected)
      observed == Meaning(outcome.observed)
      agree(key) == key \in DOMAIN observed /\ observed[key] = expected[key]
      failure  == << outcome.signature.tensor, outcome.signature.at >>
  IN  outcome.expected # Idle /\ outcome.observed # Idle =>
        /\ outcome.verdict = "passed" <=> expected = observed
        /\ outcome.verdict = "reproduces" <=>
             /\ failure \in DOMAIN expected /\ ~agree(failure)
             /\ \A key \in DOMAIN expected :
                  Earlier(Captured(outcome.expected), key, failure) => agree(key)
             /\ outcome.signature.kind = IF failure \in DOMAIN observed THEN "value_mismatch"
                                         ELSE "missing_candidate_value"
        /\ outcome.verdict \in {"passed", "reproduces", "signature changed"}
=============================================================================
