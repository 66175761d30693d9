--------------------------- MODULE ProcessParams ----------------------------
(***************************************************************************)
(* The parameters of the modules about a process that uses ODP: its        *)
(* threads, its CPUs, its shared memory and what an application has of an  *)
(* instance.                                                               *)
(***************************************************************************)
EXTENDS Integers, Sequences, FiniteSets

CONSTANTS
  Threads,
  Main,          \* the thread that calls odp_init_global and starts the others
  MAX_THREADS,   \* ODP_CONFIG_MAX_THREADS
  Setups,        \* how threads are started, and whether calls may fail
  Users,         \* threads that reserve and free shared memory
  NumBlocks,     \* ODP_CONFIG_SHM_BLOCKS
  Names,         \* names of blocks the application uses
  Empty,         \* the empty name, which a free block has
  Queues,        \* scheduled queues of the application
  CPU_SETSIZE,
  Texts,         \* CPU masks the user types: digits, Bad where it is none
  Bad,
  None

(* "pthread" and "process" are the two ways of helper/linux.c, "free" is   *)
(* an application whose threads come and go by themselves.                 *)
ASSUME ThreadAssumption ==
  /\ IsFiniteSet(Threads) /\ Main \in Threads /\ None \notin Threads
  /\ MAX_THREADS \in Nat \ {0}
  /\ Setups \subseteq [start : {"pthread", "process", "free"}, fails : BOOLEAN]

ASSUME ShmAssumption ==
  /\ NumBlocks \in Nat \ {0} /\ IsFiniteSet(Users) /\ IsFiniteSet(Names)
  /\ None \notin Names \cup {Empty} \cup Users /\ Empty \notin Names

ASSUME InstanceAssumption == IsFiniteSet(Queues)

ASSUME CpumaskAssumption ==
  /\ CPU_SETSIZE \in Nat \ {0} /\ CPU_SETSIZE % 4 = 0
  /\ \A t \in Texts : t \in Seq(0 .. 15 \cup {Bad})
=============================================================================
