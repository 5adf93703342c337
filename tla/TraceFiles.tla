----------------------------- MODULE TraceFiles -----------------------------
(***************************************************************************)
(* Canonical traces on disk: trace/reference.py and the adapters of        *)
(* trace/plugins.py turn the tensors of a run into events, large tensors   *)
(* into payload files beside the trace, and trace/schema.py writes and     *)
(* reads them.  Conversions run one after the other; each may be refused   *)
(* on the way or die between two writes, or in the last one.               *)
(*                                                                         *)
(* A run is known by the values of its tensors.  An event stands for the   *)
(* scalars of one tensor or for one chunk of it.                           *)
(***************************************************************************)
EXTENDS Naturals, Sequences, FiniteSets, SequencesExt

CONSTANTS
  Runs,          \* what can be traced: [run, tensors]
  Installations, \* the third-party adapters that may be installed, sorted by name
  Directories,
  TraceNames,    \* names of traces, each a path of one part
  Backends,      \* the backends that are asked for
  ScalarLimits,        \* values of scalar_event_limit
  MaxCommands,   \* bound on the commands of a behaviour
  Idle           \* no conversion is running

Builtins ==
  << [name |-> "finn.dataflow", emits |-> "finn.dataflow", prefix |-> "finn", loads |-> TRUE],
     [name |-> "hls4ml.csim", emits |-> "hls4ml.csim", prefix |-> "hls4ml", loads |-> TRUE],
     [name |-> "tensorwright.verilator_rtl", emits |-> "tensorwright.verilator_rtl",
      prefix |-> "", loads |-> TRUE] >>

(* write_reference_trace is called as it is, without a registry. *)
Reference ==
  [name |-> "tensorwright.python_reference", emits |-> "tensorwright.python_reference",
   prefix |-> "op", loads |-> TRUE]

(* A tensor has its values, whether all are finite, whether its mapping is *)
(* accepted, and its name as a file name, which other tensors may share.   *)
(* All runs are of one model: a tensor has the same size in each of them.  *)
ASSUME TraceFilesAssumption ==
  /\ \A r, s \in Runs : r.run = s.run => r = s
  /\ \A r \in Runs : DOMAIN r.tensors = 1 .. Len(r.tensors) /\ Len(r.tensors) \in Nat
  /\ \A n \in TraceNames : Len(n) = 1
  /\ \A r \in Runs : \A i, j \in DOMAIN r.tensors :
       r.tensors[i].name = r.tensors[j].name => i = j
  /\ \A r, s \in Runs : \A i \in DOMAIN r.tensors, j \in DOMAIN s.tensors :
       r.tensors[i].name = s.tensors[j].name =>
         Len(r.tensors[i].values) = Len(s.tensors[j].values)
  /\ \A r \in Runs : \A i \in DOMAIN r.tensors :
       LET values == r.tensors[i].values
       IN  DOMAIN values = 1 .. Len(values) /\ Len(values) \in Nat
  /\ ScalarLimits \subseteq Nat /\ MaxCommands \in Nat

VARIABLES
  files,     \* << directory, name >> -> the events of a trace, the values of a payload
  job,       \* the conversion that is running
  written_by,    \* history: the conversion that wrote a trace, for those that were accepted
  commands   \* how many commands were begun

traceVars == << files, job, written_by, commands >>

NoFiles == [f \in {} |-> << >>]

TraceInit == files = NoFiles /\ job = Idle /\ written_by = NoFiles /\ commands = 0

Put(function, at, value) ==
  [f \in DOMAIN function \cup {at} |-> IF f = at THEN value ELSE function[f]]
-----------------------------------------------------------------------------
(* register; the empty registry stands for the error a discovery ends in.  *)
register(registry, adapter) ==
  IF ~adapter.loads \/ (\E a \in registry : a.name = adapter.name) THEN {}
  ELSE registry \cup {adapter}

default_adapter_registry(entry_points) ==
  LET builtins == {Builtins[i] : i \in DOMAIN Builtins}
      add(registry, adapter) == IF registry = {} THEN {} ELSE register(registry, adapter)
  IN  FoldLeft(add, builtins, entry_points)

(* trace convert and write_reference_trace. *)
Begin(adapter, run, limit, directory, name) ==
  /\ job = Idle /\ commands < MaxCommands
  /\ job' = [adapter |-> adapter, run |-> run, limit |-> limit,
             directory |-> directory, name |-> name, events |-> << >>]
  /\ commands' = commands + 1
  /\ UNCHANGED << files, written_by >>

Convert ==
  \E discovered \in Installations \cup {<< >>}, run \in Runs, limit \in ScalarLimits,
     d \in Directories, n \in TraceNames :
    \E adapter \in default_adapter_registry(discovered) :
      adapter.name \in Backends /\ Begin(adapter, run, limit, d, n)

Trace ==
  \E run \in Runs, limit \in ScalarLimits, d \in Directories, n \in TraceNames :
    Begin(Reference, run, limit, d, n)
-----------------------------------------------------------------------------
(* Faulty variant: named by the tensor alone. *)
payload_of_name(adapter, index, tensor) == << "tensors", adapter.prefix, tensor.safe_name >>

payload_name(adapter, index, tensor) == << "tensors", adapter.prefix, index, tensor.safe_name >>

(* Only the writers that know payloads make chunks. *)
Chunked(tensor) == job.adapter.prefix # "" /\ Len(tensor.values) > job.limit

Event(index, tensor) ==
  LET chunk == Chunked(tensor)
  IN  [run       |-> job.run.run, backend |-> job.adapter.emits, tensor |-> tensor.name,
       size      |-> Len(tensor.values),
       values    |-> IF chunk THEN << >> ELSE tensor.values,
       data_file |-> IF chunk THEN payload_name(job.adapter, index, tensor) ELSE << >>]

Tensors == job.run.tensors
Position == Len(job.events) + 1

(* Whatever a conversion saves in a directory may be part of another trace *)
(* there.                                                                  *)
Disturbed(directory) == [f \in {f \in DOMAIN written_by : f[1] # directory} |-> written_by[f]]

(* A turn of the loop over the tensors. *)
ConvertTensor ==
  /\ job # Idle /\ Position <= Len(Tensors) /\ Tensors[Position].accepted
  /\ LET tensor == Tensors[Position]
         event  == Event(Position, tensor)
     IN  /\ job' = [job EXCEPT !.events = Append(@, event)]
         /\ IF Chunked(tensor)
              THEN /\ files' = Put(files, << job.directory, event.data_file >>, tensor.values)
                   /\ written_by' = Disturbed(job.directory)
              ELSE UNCHANGED << files, written_by >>
  /\ UNCHANGED commands

Finite(event, tensor) == event.data_file = << >> => tensor.finite

Writable == job.events # << >> /\ \A i \in DOMAIN job.events : Finite(job.events[i], Tensors[i])

(* A mapping is refused, a tensor is missing, empty, not numeric or too    *)
(* large, or write_trace finds no event or a scalar that is not finite:    *)
(* what was saved before stays.                                            *)
Refuse ==
  /\ job # Idle
  /\ IF Position <= Len(Tensors) THEN ~Tensors[Position].accepted ELSE ~Writable
  /\ job' = Idle
  /\ UNCHANGED << files, written_by, commands >>

(* write_trace, and the check of the backend behind it. *)
WriteTrace ==
  /\ job # Idle /\ Position > Len(Tensors) /\ Writable
  /\ LET path == << job.directory, job.name >>
     IN  /\ files' = Put(files, path, job.events)
         /\ written_by' = IF job.adapter.emits = job.adapter.name
                        THEN Put(written_by, path, [adapter |-> job.adapter.name, run |-> job.run])
                        ELSE [f \in DOMAIN written_by \ {path} |-> written_by[f]]
  /\ job' = Idle
  /\ UNCHANGED commands

(* The process dies; in its last write it may leave the first lines.       *)
Die ==
  /\ job # Idle
  /\ \/ UNCHANGED << files, written_by >>
     \/ /\ Position > Len(Tensors) /\ Writable
        /\ LET path == << job.directory, job.name >>
           IN  /\ \E lines \in 0 .. Len(job.events) - 1 :
                    files' = Put(files, path, SubSeq(job.events, 1, lines))
               /\ written_by' = [f \in DOMAIN written_by \ {path} |-> written_by[f]]
  /\ job' = Idle
  /\ UNCHANGED commands

TraceNext == Convert \/ Trace \/ ConvertTensor \/ Refuse \/ WriteTrace \/ Die

TraceSpec == TraceInit /\ [][TraceNext]_traceVars
-----------------------------------------------------------------------------
(* read_trace: there are events and every payload is there. *)
Readable(path) ==
  /\ path \in DOMAIN files /\ files[path] # << >>
  /\ \A i \in DOMAIN files[path] :
       LET event == files[path][i]
       IN  event.data_file # << >> => << path[1], event.data_file >> \in DOMAIN files

(* What a reader takes the values of an event for. *)
ValuesOf(directory, event) ==
  IF event.data_file = << >> THEN event.values ELSE files[<< directory, event.data_file >>]

Denoted(path) ==
  LET trace == files[path]
  IN  [i \in DOMAIN trace |-> [tensor |-> trace[i].tensor, values |-> ValuesOf(path[1], trace[i])]]

Captured(run) ==
  [i \in DOMAIN run.tensors |->
    [tensor |-> run.tensors[i].name, values |-> run.tensors[i].values]]

(* A conversion that was accepted holds its run and nothing else, under    *)
(* the backend that was asked for, whatever was refused or died before and *)
(* whichever adapters are installed, until the next conversion saves a     *)
(* payload in its directory.                                               *)
AcceptedTraceIsItsRun ==
  \A path \in {f \in DOMAIN written_by : f[2] \in TraceNames} :
    /\ Readable(path)
    /\ Denoted(path) = Captured(written_by[path].run)
    /\ \A i \in DOMAIN files[path] :
         /\ files[path][i].backend = written_by[path].adapter
         /\ files[path][i].run = written_by[path].run.run

(* "mixed run identities ... are rejected" (docs/trace_format.md): what a  *)
(* trace that can be read denotes was computed in the run its events name. *)
OneRunPerTrace ==
  \A path \in {f \in DOMAIN files : f[2] \in TraceNames} :
    job = Idle /\ Readable(path) =>
      LET run == CHOOSE r \in Runs : r.run = files[path][1].run
      IN  IsPrefix(Denoted(path), Captured(run))
=============================================================================
