----------------------------- MODULE MCStartup -----------------------------
(* Small instances of Startup for TLC. *)
EXTENDS Startup

Option(o, v) == [option |-> o, value |-> v]

(* All numbers of threads up to one too many, the environment's, affinities off. *)
SmallCommandLines ==
  {<<Option("nthreads", n)>> : n \in {-1} \union 2 .. MaxThreads + 1}
    \union {<<Option("sta", 0), Option("nthreads", 4)>>}

SmallMasks == {{1, 4}, {0, 2, 3, 5}}

Line == {<<>>, <<1>>, <<1, 2>>, <<1, 3>>, <<-1>>}

(* Three workers with any choice of lines, also lines that are refused. *)
ThreeWorkerFiles ==
  [cpus : {<<5, 1, 3>>}, widths : [1 .. 3 -> Line], commas : {TRUE}]
    \union [cpus : {<<0, 1, 2>>}, widths : {<<>>, <<<<1>>>>, <<<<1, 2>>, <<1>>>>,
                                            <<<<1>>, <<1>>, <<1>>, <<1>>>>,
                                            <<<<1>>, <<>>, <<2>>>>, <<<<8>>, <<8>>>>,
                                            [k \in 1 .. MaxThreads + 1 |-> <<1>>]},
            commas : BOOLEAN]
=============================================================================
