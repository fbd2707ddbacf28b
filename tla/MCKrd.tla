------------------------------- MODULE MCKrd -------------------------------
(* Small instances of KrdPipeline for TLC. *)
EXTENDS KrdPipeline

(* An access of trace t, a block <<address, size>>, at a time; the traces have been
   merged from those of two cores. *)
At(t, block, time) ==
  [tsc |-> time, id |-> block[1], size |-> block[2], core |-> time % 3, kernel |-> block[1]]

(* Blocks of three words that overlap in all ways. *)
Blocks == {<<1, 1>>, <<2, 1>>, <<1, 2>>, <<2, -2>>, <<1, 3>>}

(* What another core does at one time, reads as well. *)
Others(times) ==
  {<<At(2, b, time)>> : b \in {<<1, -1>>, <<2, -1>>, <<2, -2>>, <<2, 1>>}, time \in times}

(* Three accesses to overlapping blocks, and one access of another core. *)
Overlapping ==
  {<<[k \in 1 .. 3 |-> At(1, s[k], 2 * k)], o>> :
     s \in [1 .. 3 -> Blocks], o \in Others({3, 4, 5})}

(* Five accesses to single words with two writes between them. *)
Uniform ==
  {<<[k \in 1 .. 5 |-> At(1, <<s[k], 1>>, 2 * k)], <<At(2, <<1, -1>>, 5)>>, o>> :
     s \in [1 .. 5 -> 1 .. 3], o \in {<<>>, <<At(3, <<2, -1>>, 9)>>}}

(* Four words, which is where distances wrap around in run krd: two blocks of two words,
   their reuse, and one access to all of them. *)
Wide ==
  {<<[k \in 1 .. 4 |-> At(1, s[k], 2 * k)], <<At(2, <<3, -1>>, 5)>>>> :
     s \in [1 .. 4 -> {<<1, 2>>, <<3, 2>>, <<1, 4>>}]}

SmallRecordings == Overlapping \union Uniform \union Wide

(* A block of two words, a write that begins within it, and another block. *)
TwoWordProbes ==
  {<<[k \in 1 .. 2 |-> At(1, s[k], k)], <<At(2, b, 3)>>, <<At(2, <<3, 1>>, 4)>>>> :
     s \in [1 .. 2 -> {<<1, 2>>, <<3, 2>>, <<2, 1>>}], b \in {<<1, -1>>, <<2, -2>>}}
=============================================================================
