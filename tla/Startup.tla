------------------------------- MODULE Startup -------------------------------
(***************************************************************************)
(* From the command line to the first tasks: the options of config.cpp,      *)
(* set_xitao_mask, xitao_init_hw with the layout tables of Layout,            *)
(* xitao_start, the beginning of worker_loop with the pinning of the workers, *)
(* and the choice of a queue in xitao_push.                                   *)
(*                                                                            *)
(* The program is in a session from xitao_start to xitao_fini; it does not    *)
(* initialise the runtime in a session.                                       *)
(***************************************************************************)
EXTENDS Layout

CONSTANTS
  CommandLines,  \* what xitao_init may be given: sequences of [option, value]
  Masks,         \* the sets of cpus set_xitao_mask may be given
  Bases,         \* thread bases
  DefaultCount,  \* hardware_concurrency()
  EnvCount,      \* GOTAO_NTHREADS, for a negative number of threads
  None           \* -1: no affinity, no queue

ASSUME StartupAssumption ==
  /\ \A m \in Masks : m # {} /\ m \subseteq Slots
  /\ Bases \subseteq Slots /\ DefaultCount \in 1 .. MaxThreads
  /\ EnvCount \in 1 .. MaxThreads /\ None \notin Nat

VARIABLES
  conf,        \* the options: nthreads and sta; no other is looked at here
  optind,      \* where getopt_long goes on, also in the next call
  controlled,  \* resources_runtime_controlled
  mapper,      \* runtime_resource_mapper
  base,        \* gotao_thread_base
  initialized, \* gotao_initialized
  how,         \* what the last xitao_init_hw took the resources from, or "options"
  pins,        \* the core of each worker thread, empty outside a session
  pushed       \* the queue xitao_push has chosen last, None at first

ownVars == <<conf, optind, controlled, mapper, base, initialized, how, pins, pushed>>
startupVars == <<vars, ownVars>>

SystemInit ==
  /\ Init
  /\ conf = [nthreads |-> DefaultCount, sta |-> TRUE]
  /\ optind = 1
  /\ controlled = FALSE /\ mapper = <<>>
  /\ base = 0 /\ initialized = FALSE /\ how = "none"
  /\ pins = <<>> /\ pushed = None

Idle == pins = <<>> /\ phase \in {"none", "ready"}

(* xitao_init has read the options and not yet called xitao_init_hw *)
Starting == how = "options"

Session == pins # <<>>

-----------------------------------------------------------------------------
(* Configuration. *)

Set(c, arg) ==
  IF arg.option = "nthreads" THEN [c EXCEPT !.nthreads = arg.value]
                             ELSE [c EXCEPT !.sta = arg.value # 0]

(* init_config in xitao_init(argc, argv); getopt_long goes on where the last call
   has stopped.  xitao_init_hw follows. *)
ReadArgs(args) ==
  /\ Idle /\ ~ Starting
  /\ how' = "options"
  /\ conf' = FoldLeft(Set, conf, SubSeq(args, optind, Len(args)))
  /\ optind' = IF Len(args) >= optind THEN Len(args) + 1 ELSE optind
  /\ UNCHANGED <<vars, controlled, mapper, base, initialized, pins, pushed>>

(* Mutant: the cpus come in any order, one of them twice. *)
Cpus_Twice(mask) == LET s == Ascending(mask) IN <<s[1]>> \o s

Cpus(mask) == Ascending(mask)

(* set_xitao_mask, ignored once the runtime is initialised *)
SetMask(mask) ==
  /\ Idle /\ ~ Starting /\ ~ initialized
  /\ controlled' = TRUE
  /\ mapper' = Cpus(mask)
  /\ UNCHANGED <<vars, conf, optind, base, initialized, how, pins, pushed>>

-----------------------------------------------------------------------------
(* xitao_init_hw. *)

(* the number of threads that is asked for, from a negative one the environment's *)
Asked == IF conf.nthreads >= 0 THEN conf.nthreads ELSE EnvCount

HwReady(b, from) ==
  /\ base' = b
  /\ initialized' = TRUE
  /\ how' = from
  /\ UNCHANGED <<conf, optind, controlled, mapper, pins, pushed>>

TooManyThreads ==
  /\ Idle /\ Asked > MaxThreads
  /\ phase' = "exited"
  /\ UNCHANGED <<nthreads, tables, cores, lines, current, file, ownVars>>

InitSymmetric(b) ==
  /\ Idle /\ ~ controlled /\ Asked \in 1 .. MaxThreads
  /\ InitDefault(Asked)
  /\ HwReady(b, "default")

InitMask(b) ==
  /\ Idle /\ controlled /\ Asked <= MaxThreads
  /\ DefaultTables(Len(mapper))
  /\ UNCHANGED cores
  /\ HwReady(b, "mask")

InitFile(b, f) ==
  /\ Idle /\ ~ controlled /\ Asked <= MaxThreads
  /\ OpenFile(f)
  /\ HwReady(b, "file")

(* what stands for a layout file that is not opened *)
UnreadFile == [NoFile EXCEPT !.commas = FALSE]

(* a layout file and resources controlled at run time: neither the file nor the
   default layout is used *)
InitIgnored(b) ==
  /\ Idle /\ controlled /\ Asked <= MaxThreads
  /\ nthreads' = Len(mapper)
  /\ layout' = NoLayout /\ parts' = NoLayout
  /\ file' = UnreadFile /\ phase' = "ready"
  /\ UNCHANGED <<cores, lines, current>>
  /\ HwReady(b, "ignored")

Reading == (ReadCores \/ ReadWidths \/ RefuseWidths \/ CloseFile) /\ UNCHANGED ownVars

-----------------------------------------------------------------------------
(* A session. *)

(* phys_core in worker_loop *)
CoreOf(k) ==
  IF controlled THEN mapper[k + 1] ELSE cores[base + (k % (MaxThreads - base)) + 1]

(* xitao_start: the workers are created and pinned *)
Start ==
  /\ Idle /\ ~ Starting /\ phase = "ready" /\ nthreads > 0
  /\ controlled => nthreads <= Len(mapper)
  /\ pins' = [k \in 0 .. nthreads - 1 |-> CoreOf(k)]
  /\ UNCHANGED <<vars, conf, optind, controlled, mapper, base, initialized, how, pushed>>

(* workers without a place leave worker_loop at once *)
Staying == {k \in DOMAIN pins : parts[k] # <<>>}

Fini ==
  /\ Session
  /\ pins' = <<>>
  /\ controlled' = FALSE
  /\ pushed' = None
  /\ UNCHANGED <<vars, conf, optind, mapper, base, initialized, how>>

(* the queue xitao_push begins with: the affinity of the task, or where it runs *)
Wanted(queue, affinity, cpu) ==
  IF queue # None THEN queue
  ELSE IF affinity # None /\ conf.sta THEN affinity ELSE cpu

(* Mutant: the search goes on at the next worker also when that is behind the last. *)
Chosen_NoWrap(q) ==
  IF controlled THEN IF q < Len(mapper) THEN {q} ELSE 0 .. Len(mapper) - 1
  ELSE {LET d == CHOOSE d \in 0 .. MaxThreads :
                   \/ q + d >= MaxThreads
                   \/ parts[q + d] # <<>> /\ \A c \in 0 .. d - 1 : parts[q + c] = <<>>
        IN  q + d}

(* check_and_get_available_queue, or the first queue from q on, with wrap-around,
   whose worker is in some place *)
Chosen(q) ==
  IF controlled THEN IF q < Len(mapper) THEN {q} ELSE 0 .. Len(mapper) - 1
  ELSE IF parts[q] # <<>> THEN {q}
  ELSE LET After(d) == (q + d) % nthreads
       IN  {After(CHOOSE d \in 1 .. nthreads : /\ parts[After(d)] # <<>>
                                               /\ \A c \in 1 .. d - 1 : parts[After(c)] = <<>>)}

(* xitao_push; without any worker in a place the search does not end *)
Push(queue, affinity, cpu) ==
  /\ Session
  /\ ~ controlled => parts[Wanted(queue, affinity, cpu)] # <<>> \/ Staying # {}
  /\ \E q \in Chosen(Wanted(queue, affinity, cpu)) : pushed' = q
  /\ UNCHANGED <<vars, conf, optind, controlled, mapper, base, initialized, how, pins>>

SystemNext ==
  \/ \E a \in CommandLines : ReadArgs(a)
  \/ \E m \in Masks : SetMask(m)
  \/ TooManyThreads
  \/ \E b \in Bases : \/ InitSymmetric(b) \/ InitMask(b) \/ InitIgnored(b)
                      \/ \E f \in Files : InitFile(b, f)
  \/ Reading
  \/ Start \/ Fini
  \/ \E q, a \in Slots \union {None}, c \in Slots : Push(q, a, c)

SystemSpec == SystemInit /\ [][SystemNext]_startupVars
-----------------------------------------------------------------------------
(* Properties. *)

Injective(f) == \A x, y \in DOMAIN f : f[x] = f[y] => x = y

(* The mask is in force as long as the session it was made for, and with a base the
   cores behind it suffice; a file names each core once and is used without base. *)
EnoughCores ==
  /\ how \in {"mask", "ignored"} => controlled
  /\ how = "default" => base + nthreads <= MaxThreads
  /\ how = "file" => base = 0 /\ Injective(file.cpus)

(* Workers do not share a core, which the traces of loi and the spinning of gangs
   rely on: "each entry is only touched by a single core and thread". *)
OneWorkerPerCore == Session /\ EnoughCores => Injective(pins)

(* the layout knows only workers that exist, and some *)
PlacesWithin ==
  /\ Staying # {}
  /\ \A k \in Slots : parts[k] # <<>> => k < nthreads

(* What is pushed, wherever from and whatever the affinity, lands in the queue of a
   worker that has stayed in worker_loop. *)
PushedToWorker == pushed # None /\ PlacesWithin => pushed \in Staying
=============================================================================
