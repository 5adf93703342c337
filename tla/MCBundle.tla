------------------------------ MODULE MCBundle ------------------------------
(* A convolution of the shapes the RTL has; the same with a stride and     *)
(* padding; and a graph of two inputs and four operations whose names sort *)
(* the constants of its second layer in front of those of its first.       *)
EXTENDS BundlePackage

PackedTensor(data, shape, dtype, constant) ==
  [data |-> data, shape |-> shape, dtype |-> dtype, constant |-> constant,
   scaled |-> ~constant /\ dtype = "int8"]

PackedOperation(name, type, backend, inputs, output, channels, relu) ==
  [name |-> name, type |-> type, backend |-> backend, inputs |-> inputs, output |-> output,
   channels |-> channels, relu |-> relu, stride |-> 1, pad |-> 0]

Fixed ==
  [inputs |-> << 2 >>, outputs |-> << 3 >>,
   tensors |-> << PackedTensor("bias", << 2 >>, "int32", TRUE),
                  PackedTensor("input", << 1, 1, 5, 5 >>, "int8", FALSE),
                  PackedTensor("output", << 1, 2, 3, 3 >>, "int8", FALSE),
                  PackedTensor("weights", << 2, 1, 3, 3 >>, "int8", TRUE) >>,
   operations |-> << PackedOperation("conv", "Conv", "fpga", << 2, 4, 1 >>, 3, << "c1", "c2" >>, TRUE) >>]

Strided == [Fixed EXCEPT !.operations[1].stride = 2, !.operations[1].pad = 1]

Mixed ==
  [inputs |-> << 5, 6 >>, outputs |-> << 11, 8 >>,
   tensors |-> << PackedTensor("shape", << 2 >>, "float32", TRUE),
                  PackedTensor("dense bias", << 3 >>, "int32", TRUE),
                  PackedTensor("dense weights", << 3, 3 >>, "int8", TRUE),
                  PackedTensor("extra", << 1 >>, "float64", TRUE),
                  PackedTensor("a", << 1, 1, 3, 3 >>, "int8", FALSE),
                  PackedTensor("b", << 1, 2 >>, "int8", FALSE),
                  PackedTensor("sums", << 1, 3, 1, 1 >>, "int8", FALSE),
                  PackedTensor("probabilities", << 1, 2 >>, "float32", FALSE),
                  PackedTensor("flat", << 1, 3 >>, "int8", FALSE),
                  PackedTensor("conv weights", << 3, 1, 1, 3 >>, "int8", TRUE),
                  PackedTensor("dense", << 1, 3 >>, "int8", FALSE),
                  PackedTensor("conv bias", << 3 >>, "int32", TRUE) >>,
   operations |->
     << PackedOperation("conv", "Conv", "fpga", << 5, 10, 12 >>, 7, << "c1", "c2", "c3" >>, FALSE),
        PackedOperation("softmax", "Softmax", "arm", << 6 >>, 8, << >>, FALSE),
        PackedOperation("view", "View", "metadata", << 7 >>, 9, << >>, FALSE),
        PackedOperation("dense", "Gemm", "arm", << 9, 3, 2 >>, 11, << "d1", "d2", "d3" >>, FALSE) >>]

MCGraphs == [fixed |-> Fixed, mixed |-> Mixed, strided |-> Strided]

MCFileOrder ==
  << "graph.json", "commands.bin", "weights.bin", "biases.bin", "quantization.bin", "schedule.json",
     "reference_input.bin", "reference_output.bin" >>

(* Packed once for all states. *)
MCPacked ==
  [m \in DOMAIN MCGraphs |->
    [f \in {MCFileOrder[i] : i \in DOMAIN MCFileOrder} |-> PackedFile(f, MCGraphs[m])]]

MCLocated == [m \in DOMAIN MCGraphs |-> PackedLocations(MCGraphs[m])]

MCGraphOf(m) == MCGraphs[m]
MCContents(f, m) == MCPacked[m][f]
MCLocations(m) == MCLocated[m]

MCShapes == << << 1, 1, 5, 5 >>, << 2, 1, 3, 3 >>, << 2 >>, << 1, 2, 3, 3 >> >>
=============================================================================
