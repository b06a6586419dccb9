--------------------------- MODULE MachSemaphores ---------------------------
(***************************************************************************)
(* The Mach semaphore shims of src/macoscompat/main.cpp: a global          *)
(* IndexAllocator<sem_t> guarded by semaphoresMutex in semaphore_create   *)
(* and semaphore_destroy, and read through get() without the mutex by     *)
(* semaphore_signal, semaphore_wait and semaphore_timedwait.               *)
(*                                                                         *)
(* get(index) reads pages.data() and then the page pointer stored there.  *)
(* The vector's storage is modelled by its capacity and a generation that *)
(* changes when push_back reallocates (and frees) it.  create and destroy *)
(* run under the mutex and are single steps; the sem_t operations of libc *)
(* are left out.                                                           *)
(***************************************************************************)
EXTENDS Integers, Sequences, FiniteSets

CONSTANTS
    Threads,    \* threads calling the semaphore_* functions
    PerPage,
    MaxCalls

VARIABLES
    pages, firstFreePage, ret, overflow, calls,  \* the allocator
    capacity,   \* pages.capacity()
    storage,    \* generation of the buffer pages.data() points to
    handles,    \* semaphore_t values created and not destroyed
    pc,         \* pc[t]: "idle" or "loaded" (inside get())
    seen        \* seen[t]: the buffer generation get() loaded

allocVars == <<pages, firstFreePage, ret, overflow, calls>>
vars == <<pages, firstFreePage, ret, overflow, calls, capacity, storage,
          handles, pc, seen>>

Alloc == INSTANCE IndexAllocator

\* std::vector::push_back: storage is reallocated when the vector is full,
\* doubling its capacity.
VectorGrowth ==
    IF Len(pages') > Len(pages) /\ Len(pages) = capacity
    THEN /\ capacity' = IF capacity = 0 THEN 1 ELSE 2 * capacity
         /\ storage' = storage + 1
    ELSE UNCHANGED <<capacity, storage>>

Init ==
    /\ Alloc!Init
    /\ capacity = 0
    /\ storage = 0
    /\ handles = {}
    /\ pc = [t \in Threads |-> "idle"]
    /\ seen = [t \in Threads |-> 0]

\* semaphore_create: allocate() and sem_init on get(ret) under the mutex.
semaphore_create(t) ==
    /\ pc[t] = "idle"
    /\ Alloc!Allocate
    /\ VectorGrowth
    /\ handles' = handles \cup {ret'}
    /\ UNCHANGED <<pc, seen>>

\* semaphore_destroy: sem_destroy on get(s) and free(s) under the mutex.
semaphore_destroy(t, s) ==
    /\ pc[t] = "idle"
    /\ Alloc!Free(s)
    /\ handles' = handles \ {s}
    /\ UNCHANGED <<capacity, storage, pc, seen>>

\* semaphore_signal / semaphore_wait / semaphore_timedwait enter get(s)
\* without the mutex: pages.data() is loaded ...
GetLoadStorage(t, s) ==
    /\ pc[t] = "idle"
    /\ pc' = [pc EXCEPT ![t] = "loaded"]
    /\ seen' = [seen EXCEPT ![t] = storage]
    /\ UNCHANGED <<allocVars, capacity, storage, handles>>

\* ... then the page pointer is read from it and the sem_t operation runs.
GetReadPage(t) ==
    /\ pc[t] = "loaded"
    /\ pc' = [pc EXCEPT ![t] = "idle"]
    /\ UNCHANGED <<allocVars, capacity, storage, handles, seen>>

Done ==
    /\ calls = MaxCalls
    /\ \A t \in Threads : pc[t] = "idle"
    /\ UNCHANGED vars

Next ==
    \/ \E t \in Threads :
          \/ semaphore_create(t)
          \/ \E s \in handles : semaphore_destroy(t, s) \/ GetLoadStorage(t, s)
          \/ GetReadPage(t)
    \/ Done

Spec == Init /\ [][Next]_vars

-----------------------------------------------------------------------------
(***************************************************************************)
(* A thread inside get() reads the page pointer from the vector's current *)
(* storage, never from storage a concurrent semaphore_create has freed by *)
(* reallocating the vector.                                                *)
(***************************************************************************)
NoStaleStorageRead ==
    \A t \in Threads : pc[t] = "loaded" => seen[t] = storage
=============================================================================
