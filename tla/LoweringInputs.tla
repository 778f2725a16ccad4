---------------------------- MODULE LoweringInputs ----------------------------
(***************************************************************************)
(* Layouts and resource variables for TLC to lower.  "spilled": the first  *)
(* range is pushed, the two behind it spilled; addresses lie in the        *)
(* camera's matrix, its float and padding, and past it, and halves of      *)
(* doubles.  "emulated": an emulated range and an address are spilled.     *)
(* "small": all is pushed, and a sampler heap's element is 0.              *)
(***************************************************************************)
CONSTANT Dynamic

Scalar(n) == [op |-> "scalar", bytes |-> n]
Vector(n) == [op |-> "vector", n |-> n, bytes |-> 4]
RowMajor(rows, columns) ==
  [op |-> "matrix", rows |-> rows, columns |-> columns, bytes |-> 4, stride |-> 16, rowMajor |-> TRUE]
ColumnMajor(rows, columns) == [RowMajor(rows, columns) EXCEPT !.rowMajor = FALSE]
Array(n, stride, of) == [op |-> "array", length |-> n, stride |-> stride, of |-> of]
Field(offset, type) == [offset |-> offset, type |-> type]
Struct(members) == [op |-> "struct", members |-> members]

Camera ==
  Struct(<<Field(0, Vector(4)), Field(16, Scalar(4)), Field(32, RowMajor(2, 4)), Field(64, Scalar(4))>>)
Doubles == Struct(<<Field(0, Scalar(8)), Field(8, Vector(2))>>)
Pair == Struct(<<Field(0, Scalar(4)), Field(4, Scalar(4))>>)
Light == Struct(<<Field(0, Vector(3)), Field(12, Scalar(4))>>)
Lights ==
  Struct(<<Field(0, Scalar(4)), Field(16, Array(3, 16, Light)),
           Field(64, ColumnMajor(4, 2)), Field(96, RowMajor(3, 2))>>)

Words(n, binding) ==
  [words |-> n, emulated |-> FALSE, stages |-> {"pixel"}, set |-> 1, binding |-> binding]
Emulated(binding) == [Words(64, binding) EXCEPT !.emulated = TRUE]
Address(source, root, word, count, binding, record) ==
  [source |-> source, root |-> root, word |-> word, count |-> count, samplers |-> FALSE,
   set |-> 2, binding |-> binding, record |-> record, visible |-> {"pixel"}]
Sampler(count, binding) == [key |-> "point", count |-> count, set |-> 3, binding |-> binding]
Layout(ranges, addresses, samplers, elements) ==
  [ranges |-> ranges, addresses |-> addresses, samplers |-> samplers, elements |-> elements]

LayoutsToLower ==
  [spilled |-> Layout(<<Words(28, 0), Words(3, 1), Words(5, 2)>>,
     <<Address("heap", 1, 10, 2, 0, 4), Address("indirect", 1, 5, 2, 4, 8), Address("push", 1, 20, 1, 8, 0)>>,
     <<Sampler(2, 0)>>, <<3>>),
   emulated |-> Layout(<<Words(20, 0), Words(9, 1), Emulated(2), Words(3, 3)>>,
     <<Address("slot", 0, 0, 2, 3, 0), Address("indirect", 2, 4, 1, 4, 4),
       Address("push", 1, 2, 1, 8, 0), Address("push", 4, 1, 1, 9, 0)>>,
     <<>>, <<>>),
   small |-> Layout(<<Words(4, 0), Words(2, 1)>>,
     <<[Address("heap", 1, 0, 2, 0, 4) EXCEPT !.samplers = TRUE],
       Address("heap", 2, 0, 1, 0, 4), Address("indirect", 1, 1, 1, 4, 4)>>,
     <<Sampler(1, 0), Sampler(2, 1)>>, <<0, 5>>)]

Variable(kind, set, binding, type, uses) ==
  [kind |-> kind, set |-> set, binding |-> binding, arrayed |-> FALSE, type |-> type, uses |-> uses]
Block(set, binding, type, uses) == Variable("uniform", set, binding, type, uses)
Descriptor(kind, set, binding) == Variable(kind, set, binding, Scalar(4), {<<>>})

ShaderVariables ==
  [camera |-> Block(1, 0, Camera, {<<2, Dynamic>>}),
   doubles |-> Block(1, 0, Doubles, {<<0>>}),
   unused |-> Block(1, 0, Pair, {}),
   second |-> Block(1, 1, Pair, {<<1>>, <<>>}),
   third |-> Block(1, 2, Doubles, {<<1, Dynamic>>, <<>>}),
   recorded |-> Block(2, 5, Lights, {<<1, Dynamic, 1>>, <<2, Dynamic, 3>>, <<2, 1>>}),
   indirect |-> Block(2, 4, Lights,
     {<<1, 0, 0, 2>>, <<3, 1, Dynamic>>, <<3, Dynamic>>, <<1, 2, 0, Dynamic>>, <<0>>}),
   blocks |-> [Block(2, 4, Lights, {<<0>>}) EXCEPT !.arrayed = TRUE],
   pushed |-> Block(2, 8, Lights, {<<1, 1, 0>>}),
   spilled |-> Block(2, 9, Pair, {<<1>>}),
   image |-> Descriptor("image", 2, 0),
   sampler |-> Descriptor("sampler", 2, 0),
   images |-> [Descriptor("image", 2, 1) EXCEPT !.arrayed = TRUE],
   static |-> Descriptor("sampler", 3, 1),
   combined |-> Descriptor("combined", 3, 0),
   heap |-> Descriptor("image", 0, 1000000)]

DeclaredBy ==
  [spilled |-> {"camera", "doubles", "unused", "second", "third", "recorded", "indirect", "pushed",
                "image", "images", "static", "heap"},
   emulated |-> {"camera", "second", "third", "indirect", "pushed", "spilled", "images", "heap", "combined"},
   small |-> {"doubles", "camera", "blocks", "second", "image", "sampler", "indirect", "static"}]
=============================================================================
