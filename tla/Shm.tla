-------------------------------- MODULE Shm ---------------------------------
(***************************************************************************)
(* The table of shared memory blocks, odp_shared_memory.c.  A block that   *)
(* is shared with other processes (ODP_SHM_PROC) also has a file in        *)
(* /dev/shm, which odp_shm_reserve opens before it takes the table lock.   *)
(* The directory and mmap belong to the kernel; mmap and ftruncate may     *)
(* fail.  Sizes and alignment are left out.                                *)
(***************************************************************************)
EXTENDS ProcessParams

Blocks == 1 .. NumBlocks
Files == 1 .. (NumBlocks + Cardinality(Names) + Cardinality(Users) + 1)

VARIABLES
  block,         \* the table: name, handle (0: none), whether addr is set, flags, file
  mapped,        \* blocks whose memory is mapped
  dir,           \* /dev/shm: the file of each name, or None
  held,          \* blocks the application has a handle of
  torn,          \* blocks whose file was truncated while they had it
  loc,           \* of each thread: the reservation it is in
  rival          \* history: shared blocks whose name was reserved again, or freed
                 \* between their own shm_open and the lock

vars == <<block, mapped, dir, held, torn, loc, rival>>

FreeBlock == [name |-> Empty, hdl |-> 0, addr |-> FALSE, proc |-> FALSE, file |-> None]
Idle == [name |-> None, proc |-> FALSE, file |-> None, gone |-> FALSE]

Init ==
  /\ block = [b \in Blocks |-> FreeBlock]
  /\ mapped = {} /\ dir = [n \in Names |-> None]
  /\ held = {} /\ torn = {}
  /\ loc = [t \in Users |-> Idle] /\ rival = {}

to_handle(b) == b
find_block(n) == {b \in Blocks : block[b].name = n}
FirstFree(b) == ~block[b].addr /\ \A c \in 1 .. (b - 1) : block[c].addr

FileUsed(f) ==
  \/ \E n \in Names : dir[n] = f
  \/ \E b \in Blocks : block[b].file = f
  \/ \E t \in Users : loc[t].file = f

-----------------------------------------------------------------------------
(* odp_shm_reserve up to the lock.  shm_open creates the file, or cuts an  *)
(* existing one to nothing, be it that of a block in use.                  *)
ReserveProc(t, n) ==
  /\ loc[t] = Idle
  /\ \E f \in Files :
       /\ IF dir[n] = None THEN ~FileUsed(f) /\ (\A g \in 1 .. (f - 1) : FileUsed(g)) ELSE f = dir[n]
       /\ dir' = [dir EXCEPT ![n] = f]
       /\ torn' = torn \cup {b \in Blocks : block[b].file = f}
       /\ loc' = [loc EXCEPT ![t] = [name |-> n, proc |-> TRUE, file |-> f, gone |-> FALSE]]
  /\ rival' = rival \cup {b \in find_block(n) : block[b].proc}
  /\ UNCHANGED <<block, mapped, held>>

ReservePrivate(t, n) ==
  /\ loc[t] = Idle
  /\ loc' = [loc EXCEPT ![t] = [name |-> n, proc |-> FALSE, file |-> None, gone |-> FALSE]]
  /\ UNCHANGED <<block, mapped, dir, held, torn, rival>>

(* Under the lock: the name is in use, or the table is full...             *)
ReserveRefused(t) ==
  /\ loc[t] # Idle
  /\ find_block(loc[t].name) # {} \/ \A b \in Blocks : block[b].addr
  /\ loc' = [loc EXCEPT ![t] = Idle]
  /\ UNCHANGED <<block, mapped, dir, held, torn, rival>>

(* ... the kernel has no memory, and the block keeps its new handle...     *)
ReserveFailed(t, b) ==
  /\ loc[t] # Idle /\ find_block(loc[t].name) = {} /\ FirstFree(b)
  /\ block' = [block EXCEPT ![b].hdl = to_handle(b)]
  /\ loc' = [loc EXCEPT ![t] = Idle]
  /\ UNCHANGED <<mapped, dir, held, torn, rival>>

(* ... or the block is mapped, with huge pages or with normal ones, after  *)
(* ftruncate gave the file its size.                                       *)
ReserveDone(t, b) ==
  /\ loc[t] # Idle /\ find_block(loc[t].name) = {} /\ FirstFree(b)
  /\ block' = [block EXCEPT ![b] = [name |-> loc[t].name, hdl |-> to_handle(b), addr |-> TRUE,
                                    proc |-> loc[t].proc, file |-> loc[t].file]]
  /\ mapped' = mapped \cup {b} /\ held' = held \cup {b} /\ torn' = torn \ {b}
  /\ rival' = IF loc[t].gone THEN rival \cup {b} ELSE rival
  /\ loc' = [loc EXCEPT ![t] = Idle]
  /\ UNCHANGED dir

(* Threads between shm_open of name n and the lock, when n is unlinked.    *)
Unlinked(n) == [u \in Users |-> IF loc[u].proc /\ loc[u].name = n
                                THEN [loc[u] EXCEPT !.gone = TRUE] ELSE loc[u]]

(* odp_shm_free of a block the application has.  When the file cannot be   *)
(* unlinked the block stays in the table, unmapped.                        *)
FreeMutant(t, b) ==
  /\ loc[t] = Idle /\ b \in held
  /\ mapped' = mapped \ {b}
  /\ block' = [block EXCEPT ![b] = FreeBlock]
  /\ dir' = IF block[b].name = Empty THEN dir ELSE [dir EXCEPT ![block[b].name] = None]
  /\ torn' = torn \ {b} /\ held' = held \ {b} /\ rival' = rival \ {b}
  /\ loc' = IF block[b].proc THEN Unlinked(block[b].name) ELSE loc

Free(t, b) ==
  /\ loc[t] = Idle /\ b \in held
  /\ mapped' = mapped \ {b}
  /\ IF block[b].proc /\ dir[block[b].name] = None
     THEN UNCHANGED <<block, dir, torn, held, rival, loc>>
     ELSE /\ block' = [block EXCEPT ![b] = FreeBlock]
          /\ dir' = IF block[b].proc THEN [dir EXCEPT ![block[b].name] = None] ELSE dir
          /\ torn' = torn \ {b} /\ held' = held \ {b} /\ rival' = rival \ {b}
          /\ loc' = IF block[b].proc THEN Unlinked(block[b].name) ELSE loc

Next ==
  \E t \in Users :
    \/ ReserveRefused(t)
    \/ \E n \in Names : ReserveProc(t, n)
    \/ \E n \in Names \cup {Empty} : ReservePrivate(t, n)
    \/ \E b \in Blocks : ReserveFailed(t, b) \/ ReserveDone(t, b) \/ Free(t, b)

Spec == Init /\ [][Next]_vars

-----------------------------------------------------------------------------
TypeOK ==
  /\ block \in [Blocks -> [name : Names \cup {Empty}, hdl : Blocks \cup {0}, addr : BOOLEAN,
                           proc : BOOLEAN, file : Files \cup {None}]]
  /\ mapped \subseteq Blocks /\ held \subseteq Blocks /\ torn \subseteq Blocks
  /\ dir \in [Names -> Files \cup {None}]

(* odp_shm_lookup returns the one block of that name, with its own handle: *)
(* names are unique in the table, also when threads reserve one name at    *)
(* once, and after reservations that failed half-way and left a handle     *)
(* behind.  The memory of the block is in place, unless there was a rival  *)
(* for its name and so odp_shm_free could not unlink its file.             *)
odp_shm_lookup(n) == IF find_block(n) = {} THEN 0 ELSE block[CHOOSE b \in find_block(n) : TRUE].hdl
LookupIsExact ==
  \A n \in Names :
    /\ Cardinality(find_block(n)) <= 1
    /\ \A b \in Blocks : odp_shm_lookup(n) = b <=> (block[b].name = n /\ b \in held)
    /\ find_block(n) \subseteq mapped \cup rival

(* A block with ODP_SHM_PROC that the application holds is there for other *)
(* processes too: its file is the one in /dev/shm under its name, and is   *)
(* not cut.  That is so also when other threads were reserving the same    *)
(* name and had opened, and cut, the file before this block was made.  It  *)
(* need not be when odp_shm_reserve is called for the name of a block that *)
(* is there, which cuts the file before it looks at the table, or when a   *)
(* block of the name is freed between shm_open and the lock of the next    *)
(* one: no other call, under this name or another, does it harm.           *)
SharedWithProcesses ==
  \A b \in held : block[b].proc /\ b \notin rival => /\ b \notin torn
                                                      /\ dir[block[b].name] = block[b].file
=============================================================================
