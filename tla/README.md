# TensorWright in TLA+

Models, model-checking runs and machine-checked proofs for TensorWright: an INT8
convolution accelerator in SystemVerilog (`rtl/`) and the Python compiler, runtime and
trace tools around it (`tensorwright/`). Every definition is translated from the source;
`PROJECT.json` maps each one to the lines it stands for, lists the hazards of the code and
says which property covers which.

## 1. Inventory

| Part | State it keeps | Operations | Hard behaviour | What makes it correct |
| --- | --- | --- | --- | --- |
| Stream FIFO, activation buffer (`rtl/memory`) | slots, two pointers, count | accept, deliver, both, reset | full and empty boundaries, wrap at a depth that is no power of two, stalls | a bounded queue of beats with their packet marks; a stalled output is stable |
| Weight buffer | words, count, loaded | accept, read, clear | stale words of a longer packet, tlast against capacity | a reader sees the present packet and nothing else |
| Window generator | two line buffers, six taps, row/column, output register | accept a pixel, deliver a window, reset | both sides stall independently, frames back to back, nothing cleared between frames | every window once, in order, of the right nine pixels |
| Arithmetic core | three lane stages, accumulator, overflow flag | accept a beat, deliver a result | sums directly behind each other, overflow in flight | a queue of sums; overflowed sums never appear as results |
| Post-processing | five registers per transaction | bias, multiply, magnitude, round, clamp | ties, shifts as wide as the product, wrap at 32 bits, -128 | the integer reference's number, or the overflow flag |
| Convolution engine | sequencer state, two memories, counters, output register | start, load, compute, wait, offer, soft reset | abort in the middle, pipeline latency, three nested counters | one layer per run: the right outputs, once, in order, one of them last |
| Control plane | pending write, response, 11 configuration registers, lifecycle, interrupts, counters | write commits, engine activity, reset | two writers of one register on an edge, split write channels, saturating and wrapping counters | a run keeps one legal configuration and ends with an announced verdict |
| Accelerator top | none of its own | wires | two views of busy, registered pulses | the views agree at every edge; counters are the streams' transfers |
| Compiler passes | IR graph, links between operations and tensors | six rewriting passes | links and lists that are stale inside a pass, shared constants, order of passes | the outputs keep their values, fused nodes keep their names |
| Quantization, bundle, memory plan | quantized graph, offsets, commands | choose types, place tensors, pack | types that disagree with the values written, names taken for types, offsets counted before and after padding | no tensor overwrites another; commands say what the graph says; what is packed is found again |
| Bundle directory | thirteen files, the manifest among them | build, validate, load, run | a build that dies between or within two writes, damaged files | a directory is a whole bundle of one model or is refused |
| Simulation runtime | scratch memory, command index, counters | run a layer, time out | three places that check one budget; regions are never reused, so all must fit side by side | operands intact when read, budget kept |
| Trace writers, adapter registry | a trace per conversion, payload files beside it; the registered adapters | register, discover, convert, write, read | refused or interrupted half-way, payload names shared by conversions, adapters that speak for another backend | a trace that was accepted is that of its run |
| Trace comparison | none (a walk over two files) | align in three ways, compare | duplicates, missing and reordered events, scalars against chunks | the first divergence is the first, a match is equality |
| RTL trace adapter, protocol checker | captured events; expected sequence, previous cycle | record, write, inspect, conclude | dropped, repeated or early transfers that cancel out | a clean report means a complete stream, a complete stream is not blamed |
| Numerical diagnosis and its demonstration | stage trace, sampled operands | trace the stages, compare, classify, write a regression | rules tried in order, stages in the order of the data, operands found by counting matches | the stages first differ where the faulty one is, the regression tells faulty from corrected |
| Regression generator | a package directory | copy inputs and reference, write manifest and test, judge a candidate | death between two files, a failure that moved | a manifest means a whole package; the verdict is that of the runs |
| Minimizer | candidate, coordinates, granularity, budget, evaluations | try a chunk, simplify a value | budget exhausted half-way, granularity at the ends | the result was seen to fail; unreported means nothing was left untried |
| Dashboard, CLI, tool-driving scripts | files | render, run tools | | not modelled: text |

The host writes configuration and a start to the control plane, which pulses the engine, and
polls its registers; streams carry weights and activations in and outputs back, and the engine reports done. The
compiler rewrites and quantizes an ONNX graph and packs it into a bundle directory, which the
simulation host runs layer by layer and the RTL runner, if it is one convolution, in the engine. Traces recorded on the streams, or written by the
reference model, are checked by the protocol rules and compared; a failing input is
minimized, and a minimized failure becomes a regression package.

## 2. Modules

One step of every RTL module is one rising clock edge. Inputs of the edge are chosen by
`\E`; registers are variables; wires are operators with the source's names. One step of a
Python module is one turn of a loop, or one call that does not loop.

| Component module | What it models | Abstract specification | Run module | Proofs |
| --- | --- | --- | --- | --- |
| `StreamFifo` | the FIFO, one action for each value of `{write_transfer, read_transfer}` and one for reset | `PacketQueue`, mapping `queue <- Contents` | `MCStreamingMemories` | `DatapathProofs` |
| `WeightBuffer` | the weight buffer, its clear and its read port | `PacketStore`, whose content is defined through the read port | `MCStreamingMemories` | `DatapathProofs` |
| `StreamingMemories` | both on one clock and one reset, as `tb_streaming.sv` instantiates them | | `MCStreamingMemories` | `DatapathProofs` |
| `WindowGenerator` | line buffers, taps, counters; the source keeps its own place in the frame | history `expected`: the window due next | `MCStreamingMemories` | `DatapathProofs` |
| `ArithmeticCore` | the pipeline of core and post-processing with symbolic sums | `SumQueue`, mapping read off the sums in flight | `MCArithmeticCore` | `DatapathProofs` |
| `Requantization` | the numbers of one transaction through the five post-processing registers | `requantize_int32` of `reference/int8.py` | `MCArithmeticCore` | `NumericalProofs` |
| `ConvolutionEngine` | the sequencer, both memories, and `ArithmeticCore` on its own variables | `LayerService` | `MCAccelerator` | `AcceleratorProofs` |
| `ControlPlane` | write channel, registers, lifecycle, interrupts, counters | | `MCControlPlane` | `ControlPlaneProofs` |
| `ReadChannel` | the read channel and a host that polls STATUS and the two words of the cycle counter, beside `ControlPlane` | | `MCControlPlane` | `ControlPlaneProofs` |
| `Accelerator` | control plane and engine on one clock, joined by the registered pulse and the activity wires | | `MCAccelerator` | `AcceleratorProofs` |
| `GraphPasses` | import and the six passes of the default pipeline, one operation per step | symbolic value of every tensor | `MCDeployment` | `CompilerProofs` |
| `Deployment` | quantization, memory plan, commands, simulation | | `MCDeployment` | `CompilerProofs` |
| `BundleDirectory` | a directory built file by file, torn, damaged, cleared, validated and read | `BundlePublication`: one whole bundle or nothing | `MCTools` | `ToolProofs` |
| `BundlePackage` | what the files hold: packing, commands, decoding, the RTL runner's extraction; on top of `BundleDirectory` | | `MCTools` (constants in `MCBundle`) | `ToolProofs` |
| `NumericalDiagnosis` | the numerical scenario of `run_demo.py` with `diagnosis.py` and the arithmetic regression, on the numbers of `Requantization` | | `MCArithmeticCore` | `NumericalProofs` |
| `TraceFiles` | reference writer, adapters and registry, payload files, schema writer and reader, with refusal and death between writes | | `MCTools` (constants in `MCTraceFiles`) | `TraceProofs` |
| `RegressionPackage` | generation of a package from traces and the verdict of its test; on top of `TraceFiles` | | `MCTools` | `TraceProofs` |
| `TraceComparison` | the three loops of `compare_trace_files` | set of values and their order | `MCTools` (constants in `MCStreamDiagnosis`) | `DiagnosisProofs` |
| `StreamDiagnosis` | stream monitor, capture, protocol rules, comparison | | `MCTools` | `DiagnosisProofs` |
| `Minimizer` | delta debugging with a budget | | `MCTools` (constants in `MCMinimizer`) | `ToolProofs` |

How state and actions correspond where it is not one to one:

- `ControlPlane`: a commit and the activity of the engine meet on one edge. Both compute
  from the registers as they were, as nonblocking assignments do, and `AfterActivity` is
  applied last, as the later assignment of the `always_ff` block is.
- `ConvolutionEngine`: memory words are named by the tensor element they hold and become
  `Stale` when a run ends, so an offered output shows which elements met in it.
- `GraphPasses`: `linked` is the list of operations the producer and consumer links were
  last rebuilt from, which inside a pass is older than `operations`; `todo` is the copy of
  the list a pass iterates, as the set of names still to visit: operations are named by the
  order of their nodes, which no pass changes.
- `Deployment`: a byte of memory is `<< tensor, place >>`; a convolution runs in one step
  that takes as many cycles as its three streams and its computation need.
- `ReadChannel`: `asked` and `heard` are the host's; there is room for one answer, and
  `answer` is `rdata` while `rvalid` is up. The words are those of the registers before the
  edge the address is accepted on.
- `BundleDirectory`: a digest is the content it was taken of. `building` is the process that
  builds; `checked` is the moment between `validate_bundle` and the reads behind it, during
  which nobody damages the files.
- `BundlePackage`: a byte of a blob is `<< data, place >>`, so that a slice taken at a wrong
  offset shows whose bytes it got. `GraphOf` gives the graph of a model, which is as quantization
  returns it (`Quantized`: only operations with an opcode) and holds constants of types that
  `_tensor_bytes` packs (`Packable`). A build with another type is refused after its directory was
  made and before its first file, which leaves what a death at that point leaves. `Packed`, `Joined` and `InputCursor` are the loops of
  `_pack_constants`, `_pack_quantization` and `_reference_inputs`, turn by turn.
  `PackageAssumption` says that the files of a model hold what is packed of its graph. `scaled`
  is a tensor with one positive scale, which the RTL runner asks of its input.
- `NumericalDiagnosis`: outputs are numbered from one, the code's samples from zero, so
  `arithmetic_evidence` finds the sample `matched_values + 1`; that it is the one at the
  divergence is a lemma (`MatchedIsBefore`).
- `TraceFiles`: one conversion at a time, of which each step is the write of one payload or the
  check and write of the trace; a file is known by directory and path.
- `StreamDiagnosis`: `origin` says whether the candidate trace comes through the capture,
  from a stream without its checks (`_convert_log` of `scripts/run_demo.py`), or from a file.

Modules also hold faulty variants of some definitions, marked as such, which the
specifications do not use. Each replaces one mapped definition and breaks one property; they
show that the property can fail.

## 3. Abstractions and bounds

- Numbers of the data path are symbolic outside `Requantization`. `AccumulatorOverflows` and
  `BiasOverflows` say which sums overflow; the constants choose them.
- `Requantization` follows one transaction at a time (`ArithmeticCore` shows that settings
  travel with their sum), and leaves out the wrap of the 64-bit product, which a sum that
  fits cannot reach (`ProductFits`, proved; the checked width assumption says so).
- The write half of the bus carries a whole write (address, word, low strobe) chosen when
  the first half arrives. Registers are below one byte, so one strobe is kept.
- `KERNEL_CONFIG` has one legal word; `ConfigRegisters` and `Counters` say which registers
  an instance keeps apart.
- 32-bit counters saturate at `CounterMax` and `LifetimeMax`, 64-bit ones wrap at
  `CycleModulus`: the widths are constants so that the boundary is reached.
- `GraphPasses` and `Deployment` compute with symbolic values: a convolution is a set of
  products, a normalization a scale and an offset, rounding is left out. The four parameters
  of a normalization are one tensor. A graph has one or two outputs, the last node's among
  them. `ReluName` is the node that the ONNX file names `Relu`. Stalls are numbers of cycles,
  not patterns. Regions are aligned to 12 bytes instead of 64, so that small tensors meet
  both cases.
- Traces of the comparison and the protocol rules are of one tensor, so there is one group of
  transfers. Traces of `TraceFiles` are of one or two tensors, each a scalar event or one chunk.
- The host of `ReadChannel` reads three registers over and over, in one order. Constant
  registers and response codes of reads are left out.
- `BundleDirectory` writes files whole or torn, one at a time, and one file is damaged at a time.
  The fields of the manifest that only inform, the labels and the compilation report are left
  out. `BundlePackage` computes no numbers: a result is known by the operands it was made of.
- `NumericalDiagnosis` takes the sums of the convolution as inputs, since the rules start at the
  accumulator. A device has at most one faulty stage. The log of transfers is a set: the
  demonstration looks a transfer up by its sequence number. The rules over float and layout metadata
  are left out.
- `sent`, `source`, `expected`, `transfers` and `deviations` are history: no guard of the
  modelled code reads them. `stalled` is the assertion register of the FIFO. Inputs that
  violate the stream contract (an unmarked last beat) are outside: the RTL asserts them.

## 4. Runs

Machines that meet only in files, or not at all, are checked in one run, one of them per
behaviour while the others stay in their initial states. Their states add up and do not multiply.

| Run | Bounds, and why they are enough | Shows |
| --- | --- | --- |
| `streaming_memories` | FIFO of three slots (no power of two), weight memory of four words that fills its address space; 4x4 image for the window generator: two window rows and columns, frames back to back, stalls and resets anywhere | queue and packet store implemented, every head beat leaves; each window once, in order, of the right pixels |
| `arithmetic_core` | two operands, sums of one and two beats, so the eight stages hold up to eight sums; numbers of four bits against a multiplier of three, all shifts of four bits (the product has eight); two outputs whose sums cross zero, the ties of every shift and both limits, with each faulty stage at each set of outputs | a queue of sums under any spacing; the numbers are the reference's; the stage traces first differ at the trace point of the faulty stage, a wrong sum, bias or rounding is named by its own rule, and the regression of the demonstration fails on the truncating unit and passes on the corrected one |
| `accelerator` | 4x4 image, two input and two output channels: all three position counters advance and wrap; the output length is right or one too long; one bias overflow | views of busy agree, layer service implemented after any abort, counters are a whole layer's, every run ends |
| `control_plane` (370,202 states) | any engine activity on any edge; first host: every CONTROL word that differs in effect, an output counter that saturates at 2, reads nothing, because reads change no register the others look at; second host: configures, starts, aborts and polls, a cycle counter of two words of two values, so that the low word wraps into the high one and the counter as a whole wraps | a run keeps one legal configuration; announced verdicts, interrupts stick, writes commit; a host that has heard done adds up the right cycles from two words read apart |
| `deployment` | all graphs of up to four nodes from a menu behind one input, with shared constants, one or two outputs; budgets that bind and do not, three lengths of stall | values and names kept, no refusal of what the passes made themselves, memory intact, budget kept |
| `failure_tools` (674,312 states) | search: four values of three types, all deterministic oracles, five budgets from one to unbounded. Reports: three values, up to three deviating fields in a stream; all pairs of small files in each way to align. Traces: five runs of one or two tensors whose names become one file name, among them a wrong, a shorter, a refused and a non-finite one, three sets of third-party adapters, two conversions or generations. Bundles: two models, one whose constants sort against the order of its layers, one file damaged at a time | result fails, support tracked, unreported means finished, search ends; a match is equality, a divergence is real and first, reports are true; an accepted trace is its run's, a package with a manifest is whole, its test's verdict is the runs'; a directory holds one whole bundle or nothing, and what is packed is found again |
| `soft_reset_on_last_output` | as `control_plane` | violation, see 7 |
| `duplicates_against_a_chunk` | a whole chunk against up to three scalars | violation, see 7 |
| `bias_along_columns`, `fused_relu_without_flag` | convolution, one operation, one addition or ReLU | violations, see 7 |
| `strided_convolution_accepted` | the convolution the RTL has, and one of stride two with padding | violation, see 7 |
| `trace_of_two_runs` | as the traces of `failure_tools` | violation, see 7 |

`CHECK_DEADLOCK FALSE` is used where the modelled function returns: `deployment`,
`failure_tools` and the violations over them.

Types, the agreement of the FIFO's pointers, the stability of its stalled output and the distance
of start and reset pulses are no properties of a run: they are proved, see 5.

### Fairness

- `FairStreamingSpec`: the consumer of the activations comes back with ready high; that is
  what the AXI-Stream contract asks of it. Nothing is assumed of the producer.
- `MCFairness` of `MCControlPlane`, which is `ControlPlane!Fairness` for the first host (no
  liveness is asked of the second, whose writes are some of the first one's): the clock runs, and a host that has sent one half of a write sends
  the other. That the response is taken is part of neither: `EveryWriteCommits` does not
  need it.
- `Accelerator!Fairness`: the clock runs while the engine computes, waits or is about to
  start, sources send when the engine waits for them, and the consumer accepts. The host may
  do anything or nothing.
- `MCTools`: the search keeps executing. Nothing is assumed of the other tools.

## 5. Proofs

Each holds for all values of the constants, under the named assumptions of the component
module, which TLC evaluates in the runs.

- `DatapathProofs` (any depth, payload, address width and image of at least 3x3).
  FIFO: `FifoInv` adds to the types that every occupied slot was written since the last reset
  and that write pointer, read pointer and count agree; without the former the refinement
  could not give a waiting beat its value. Output stability and `Refinement` to the queue
  follow, and carry over to the composition with the weight buffer. Weight buffer: `WeightInv`
  says that the words below the counter are those of the present packet;
  `MemoriesImplementStore` reads the packet store off the read port. Window generator: the
  invariant says at every position which pixel of which frame each tap and each place of the
  two line buffers holds, including those still from the frame before; a transfer keeps it
  and makes the offered window right.
- Core, in the same module (any operands, any length of sum): `CoreInv` says what a stage
  can hold. `CoreImplementsQueue` reads the queue of sums off the stages from the last to the
  first. An edge moves every stage at once, so the proof regroups the concatenation
  (`Regroup`): what a step does in the registers is one beat absorbed at the front and one
  result taken at the back.
- `NumericalProofs`. Post-processing (any widths with room for the product): the lemma
  `RoundBitIsHalf` says that adding the last bit shifted out is adding half before the shift;
  `RoundingAgrees` extends it to shifts as wide as the product; `ClampSaturates` covers the
  clamp and the order of ReLU and rounding. `UnitInv` gives each register the reference's
  intermediate value. Powers of two are a constant operator with the doubling law assumed
  (`PowerAssumption`), since the prover does not know exponentiation.
  Diagnosis (any workload, any channel, a fault of one stage at any outputs): three arguments.
  `StagesCompared` says that comparing two stage traces finds the least place at which they
  differ, and `PlacesInTrace` that the order of places is that of outputs, then of stages.
  `FaultShows` says which stages a fault leaves alone: those in front of it, and those behind it
  where the operands came out the same. So the stage that differs first is the faulty one
  (`FirstStageNamesFault`), and a truncation is off by one there, so that its rule is the one of
  rounding, or that of saturation if one number meets a limit, and never that of parameters.
  `MatchedIsBefore` leads from the count of matched outputs to the sample the test is made of.
  `TestTells` says that a result that is wrong with the ReLU is wrong without
  it and keeps the regression failing on the unit that made it; that it passes on the corrected
  one needs that a truncated number never has another sign than the rounded one
  (`UnitRounds`). `DemoInv` holds these together over the steps of the demonstration.
  `WorkloadAssumption` says that a sum, right or off by one, fits its word with and without its
  bias, and that a multiplier off by one still fits: the faulty stage is wrong, it does not
  overflow besides.
- `ControlPlaneProofs` (any set of registers, any widths, any host writes, any engine): `Inv`
  ties pending halves, pulse and response together, so that a command needs two edges, and
  has a legal configuration while busy (`BusyConfigIsValid`). The four action properties (a run
  keeps its configuration, announced ends, enough outputs behind done, interrupts that stick)
  follow from it edge by edge: a commit computes
  the registers first and the activity of the engine overrides it, so each proof goes through
  both. `ReadInv`, of the polling host, says that done and busy are never up together and that
  words heard after done are those of the registers. It is inductive because of
  `OverStaysOver`: without a pulse an edge leaves the status and the counters of a run that is
  over alone, whatever is written.
- `AcceleratorProofs` (any image and channels, any host and streams). Views: `Agreement` relates
  busy, pulse and response to the engine's state and done. `StartFindsEngineIdle` alone is
  not inductive: that a start cannot meet a reset follows from the response still waiting.
  Engine: `NothingInFlight` is not inductive, since it says nothing of the
  states in which beats are under way. `EngineInv` does: at the f-th edge after the first beat
  of a sum, `Pipeline` gives every stage its content as a function of the sum and of f, and
  says that it holds nothing else. One edge takes f to f + 1 (`PipelineStep`), whether a beat is
  fed or not; a result that appears is that of the position, and behind it the pipeline is
  empty (`AnsweredIsDrained`). Position and memories are tied to the element counters through
  numbers in mixed radix (`Radix`, `NextIndex`): the address the RTL reads at is that of the
  element the convolution asks for (`LanesAreReference`). `LayerIsServed` follows for the whole
  accelerator, any abort and restart included. `WholeLayerIsCounted` adds `CountInv`, which
  relates each counter of the control plane to the position of the engine, one edge behind
  where the activity wire is registered; its assumption `LayerFits` is that the counters do
  not saturate or wrap within one layer.
- `TraceProofs` (any runs, tensors, adapters and directories; any sequence of conversions,
  refusals, deaths, generations and removals): `JobHolds` says that the payloads of the events
  collected so far are on disk, `AcceptedHold` that those of every accepted trace are, and
  `TracesName` that traces name payloads and nothing else, so that no trace is taken for one. A
  payload is written over only in the directory of a conversion, which is when that directory
  leaves `written_by`. `CopiesHold` and `PackageHolds` say the same of the copies a generation
  has made, whose source may be written over meanwhile. The assumptions are on names: traces and
  payloads are told apart, and no device is asked to trace itself into one of a package's own
  files (`OwnNamesAssumption`). `OutcomeInvariant` adds that signatures are known failures and
  that the last verdict is that of the comparison of its two runs (`OutcomeTrue`);
  `RegressionsTell` follows from `FirstIs`, which says that the keys of a trace have a first one
  in the order of its events, and from `VerdictJudges`. That the runs are of one model, so that
  no metadata differ, is part of `TraceFilesAssumption`.
- `ToolProofs`. Bundle directory (any models, files and contents): there is no manifest while a build
  runs, and a manifest is one model's or torn. `ValidIsWhole` follows: the check against the
  manifest accepts whole bundles and nothing else. `Refinement` to `BundlePublication` follows,
  because only the write of the manifest publishes.
  What is packed (any quantized graph, alignment and shapes of the RTL): packing appends and
  never moves anything (`Growing`), so the bytes put behind a prefix are found at its length
  ever after (`PutBehind`). The three loops are instances: constants behind their padding
  (`PackedPart`), channel records and reference tensors behind those before them (`JoinedPart`),
  and the cursor of the reader is the length of what was joined (`CursorAt`). That a linear
  operation's second and third operands lie in the blobs the reader opens (`OperandsFound`)
  needs that quantization gives every operation weights and biases of its own.
  `PackedModelIsRead` puts these together for every bundle opened whole.
  Minimizer (any number of values, input, budget and deterministic oracle): `IInv` says
  which answers the oracle has given, what the present cut is and what was tried at the finest
  one. `FinestPartition` shows that as many chunks as coordinates are single coordinates.
- `DiagnosisProofs` (any pairs of files; for streams any reference of scalars in raster order,
  any length and any number of deviations). Comparison: `AllValues` joins the events of a file, so the first lemmas relate
  the n-th joined value to an event and a place in its payload. `ComparisonInv` says of each of
  the three ways to align how far the walk is, that everything before agrees and has been
  counted, and, once there is a report, that it is what the files have at the first place where
  they differ. `MatchIsEquality` and `DivergenceIsTheFirst` follow. They take `ComparablePairs`
  as a hypothesis: chunks are cut alike and do not overlap, scalars against chunks come in the
  order of the chunks. It is what keeps out the two cases of 7 in which the code says otherwise
  (`duplicates_against_a_chunk` is such a pair); `MCTools` assumes it, so that TLC evaluates it
  for the pairs it checks. Reports on a stream: `StreamInv` says what the trace records of the
  transfers and when recording is refused, `RulesInv` that as long as nothing is found the
  events inspected are those of an unbroken stream, and that an unbroken one breaks no rule.
  Clean means complete, complete means clean, and findings about the output are true.
- `CompilerProofs` (any number of nodes, any menu, any tensors in the file). `WellBuilt` is the
  part that concerns structure: every operation fits its operands, operations that remain have
  distinct outputs, the order of names is that of the list. It alone gives
  `CompilationIsNeverRefused`. That the outputs keep their values is not inductive in the form
  in which it is checked, as inside a pass a graph is half rewritten. `Meaningful` views the
  operations that remain as a set of equations over the tensors: they are typed and ordered,
  and there is a solution that has the values of the imported graph at the outputs. Each pass
  is then an exchange (`Exchanged`): one operation takes the place of two, of which the second
  alone reads the first; an exchange keeps a solution for all other tensors
  (`ExchangedSolved`). Executing an ordered list computes the solution (`ExecutionMeets`). Inside
  the normalization pass the links are older than the operations: `LinksKnown` says that an
  operation differs from its links only by the normalizations folded into it meanwhile, whose
  operations are dropped.
  The theorems on semantics take `AddendsAreChannels` as a hypothesis: no addend has the shape
  of a bias, and no convolution has one channel only, which an addition could widen. These are
  the two cases of 7 in which fusion does change the graph; TLC finds both. All instances but
  that of `bias_along_columns` satisfy it (`MCAssumption`).
  `Deployed` carries the graph through quantization and the simulation, with no hypothesis on
  addends. A `Deployable` graph is typed, ordered and fed: the first operand of a layer is an
  input or the output of an earlier layer; quantization keeps shapes, so sizes are naturals.
  `Timed` says that the layers so far are intervals end to end, each within the limit, and that
  the clock is past the last of them; it gives `LayersKeepTheTimeout`. `MemoryPlanned` says that the regions given out are apart and
  below the cursor, for every list of tensors and every alignment, and `MemoryKept` that the
  memory holds the inputs and the outputs of the layers run, byte by byte; together they give
  `ScratchKeepsValues`.
  `LineageStaysComplete` needs to know, before dead code is eliminated, what will be needed.
  `Lineage` says of the operations that remain that each imported name is told by exactly one
  of them or may be missing (`Told`), and that an operation produces what one of its parts does
  and reads the images that its parts read and do not produce (`Traced`): fusion keeps this, as
  it redirects one output and its only consumer, and folding does, as only parameters change.
  At elimination the imported operations that are parts of what is kept get their operands from
  one another (`NeededClosed`) and give the outputs (`NeededOutputs`); what such a set computes
  does not depend on the others (`ClosedValues`), so any other operation is dead (`DeadWithout`).

Constants that are model values need an assumption that TLC gets for free: `SymbolAssumption`
says that the mark of an empty stage is no beat and no result, `OverflowAssumption` that the
operators which say whether a sum overflows are truth values on the sums that occur.

Only model-checked: all liveness, whose fairness is out of the prover's reach. Where a proof
needs an induction over a list, it goes through `CountUp`, which `WellFoundedInduction` gives
for a set of numbers instead of an operator, and the definition is a recursive function; that
such a function exists is `StepByStep`.

## 6. Not modelled

Widths of the registers, DEVICE_ID, VERSION and the response code of reads; leaf arithmetic
(`mac`, `multiplier`, `adder_tree`, the channel accumulator) and the convolution loops of the
reference; calibration and scales on floats; reading of the ONNX format; checks of single fields of a
trace event; the formats third-party tools log in; interface bundles, which are wires; the
benchmark, which sums up; the dashboard, the command line and the scripts that drive tools, which
render text or start programs. `PROJECT.json` has the reason of each.

## 7. Where code and documents disagree

Shown by a run each:

1. `soft_reset_on_last_output`: a soft reset of an active run does not clear the counters, and
   on the completing edge leaves done and the interrupt set (`control.sv:165`, against
   `docs/register_map.md:54-55`).
2. `duplicates_against_a_chunk`: scalars against a chunk are not checked for duplicate
   coordinates and can match with a coordinate absent (`compare.py:227`, against
   `docs/trace_comparison.md:21-22`).
3. `bias_along_columns`: an addend of shape `[C]` broadcasts along the columns but is fused as
   a channel bias (`fusion.py:119`).
4. `fused_relu_without_flag`: the ReLU flag of a command goes by the name of the fused node
   instead of its type (`bundle.py:201`, against `docs/deployment_bundle.md:56`).
5. `strided_convolution_accepted`: the RTL runner goes by the shapes of the tensors, which a
   convolution of stride two with padding shares with the valid one of stride one, and runs it
   as that (`rtl_bundle.py:44`, against `docs/supported_operators.md:21-22` and `33-34`).
6. `trace_of_two_runs`: payload files are named by tensor alone, so a second conversion into a
   directory changes what the first trace says (`plugins.py:330`, `reference.py:90`, against
   `docs/trace_format.md:28-29`).

Met while modelling, kept as notes because no document or test says otherwise or the case is
out of the modelled configuration:

- `control.sv:176` adds one to the saturating counter in 32 bits: a full counter would end a
  good run as early. `control.sv:73`: two errors on one edge count once.
- `control.sv:154`: while a run is active the two words of a 64-bit counter are of different
  edges and may belong to no value it ever had.
- `schema.py` refuses scalars that are not finite, but not chunk payloads, although
  `docs/trace_format.md` says that non-finite values are refused.
- A trace whose writer dies between two lines is a shorter trace, still read as valid. A
  directory whose package generation died is refused until it is removed. Discovery that fails
  at one adapter leaves those before it registered.
- The generated test reads the candidate from the working directory: a device traced into the
  package itself can replace the payloads of the reference. Nothing binds the reference trace of
  a package to its minimized inputs.
- `convolution_engine.sv:110` looks at the overflow flag only while it waits for a result; an
  accumulator overflow earlier in a sum passes silently. With INT8 operands and 32 bits that
  takes more than 14,500 input channels. `tensorwright_top.sv:59` wires the flag to nothing.
- `weight_buffer.sv:34`: `clear_i` wins over a transfer on the same edge, whose element is
  lost although it was accepted.
- `compare.py:350`: chunks with one start and different sizes are a value mismatch at the
  first coordinate, whatever the values; `compare.py:252`: after scalars against chunks the
  value reported as missing may be one that is there. The properties are therefore checked
  over files whose parts agree (`MCStreamDiagnosis`).
- `protocol.py:87`: a value mismatch in front of a missing transfer hides it, as the comparison
  stops there; `FindingsAreTrue` says one direction only.
- `minimizer.py:183`: simplified values can make another value removable that was not before,
  so the result is minimal for removals at the end of the removal phase only;
  `minimizer.py:202`: a search whose last question uses up the budget reports it as
  exhausted although it is complete.
- `fusion.py`: an addition that widens a convolution of one channel is fused as a bias, too,
  and `_conv_float` then computes the one channel only. The theorems exclude it like 3.
- `bundle.py:205`: an operand that is a constant gets offset 0 in its command.
- `diagnosis.py:111-135`: behind the bias a rule sees two numbers only. A multiplier, clamp or
  ReLU fault that changes a number by one (a ReLU left out at -1) is called a likely rounding
  mismatch, and a truncation that meets a limit of the output a saturation mismatch.
  `docs/numerical_diagnosis.md` calls the rules hypotheses; the trace point tells clamp and ReLU
  from rounding, and `run_demo.py` asks for the trace point, too, before it confirms anything.
- `simulator.py:371`: a fallback that exceeds the budget ends the simulation without counting
  its cycles or an error.

## 8. Plan

In order of what matters most:

1. The fixed-point parameters and the propagation of scales (`quantization/compiler.py`
   105-220): that multiplier and shift of a convolution stand for its real ratio within half
   a unit, and compose with `Requantization`.
2. Gemm, MaxPool and Flatten in the passes; widening additions as a configuration of its own;
   several tensors in the stream report.

Runs are merged by component so that each asks the questions of one part; new properties of a
part join its run.
