--------------------------- MODULE IndexAllocator ---------------------------
(***************************************************************************)
(* IndexAllocator<T, PerPage> (src/macoscompat/index_allocator.h): a       *)
(* vector of pages of PerPage slots, each with a used flag, and the index *)
(* of the first page that may have a free slot.  Slot values are left out: *)
(* the properties are about which indices are handed out.                  *)
(*                                                                         *)
(* Pages and slots are numbered from 0 as in the code; page p is           *)
(* pages[p + 1].                                                           *)
(***************************************************************************)
EXTENDS Integers, Sequences, FiniteSets

CONSTANTS
    PerPage,    \* the PerPage template argument
    MaxCalls    \* bound on allocate() calls (each call appends a page)

ASSUME PerPage \in Nat \ {0} /\ MaxCalls \in Nat

VARIABLES
    pages,          \* pages[p + 1][e]: Page::used[e] of page p
    firstFreePage,  \* firstFreePage
    ret,            \* the index the last allocate() returned (-1 before any)
    overflow,       \* allocate() has written Page::used[PerPage]
    calls           \* allocate() calls so far

vars == <<pages, firstFreePage, ret, overflow, calls>>

EmptyPage == [e \in 0..(PerPage - 1) |-> FALSE]

\* The slot search of allocate(): the first unused slot, PerPage if none.
FirstUnused(page) ==
    IF \E e \in 0..(PerPage - 1) : ~page[e]
    THEN CHOOSE e \in 0..(PerPage - 1) : ~page[e] /\ \A d \in 0..(e - 1) : page[d]
    ELSE PerPage

PageOf(index) == index \div PerPage
SlotOf(index) == index % PerPage

\* The indices whose used flag is set.
UsedIndices ==
    UNION { { p * PerPage + e : e \in {d \in 0..(PerPage - 1) : pages[p + 1][d]} } :
            p \in 0..(Len(pages) - 1) }

Init ==
    /\ pages = <<>>
    /\ firstFreePage = 0
    /\ ret = -1
    /\ overflow = FALSE
    /\ calls = 0

\* Variant with the guard the code presumably intends (append a page only
\* when firstFreePage is past the last one).
AllocateGuardGe ==
    /\ calls < MaxCalls
    /\ LET grown == IF firstFreePage >= Len(pages) THEN Append(pages, EmptyPage)
                                                  ELSE pages
           e == FirstUnused(grown[firstFreePage + 1])
       IN /\ pages' = IF e < PerPage
                      THEN [grown EXCEPT ![firstFreePage + 1][e] = TRUE]
                      ELSE grown
          /\ overflow' = (overflow \/ e = PerPage)
          /\ firstFreePage' = IF e = PerPage - 1 THEN firstFreePage + 1
                                                 ELSE firstFreePage
          /\ ret' = firstFreePage * PerPage + e
    /\ calls' = calls + 1

(***************************************************************************)
(* allocate(): a page is appended whenever firstFreePage <= pages.size(),  *)
(* the first unused slot of page firstFreePage is marked used (slot        *)
(* PerPage, past the array, when the page is full), firstFreePage moves on *)
(* when the page's last slot was taken, and the index is returned.         *)
(***************************************************************************)
Allocate ==
    /\ calls < MaxCalls
    /\ LET grown == IF firstFreePage <= Len(pages) THEN Append(pages, EmptyPage)
                                                  ELSE pages
           e == FirstUnused(grown[firstFreePage + 1])
       IN /\ pages' = IF e < PerPage
                      THEN [grown EXCEPT ![firstFreePage + 1][e] = TRUE]
                      ELSE grown
          /\ overflow' = (overflow \/ e = PerPage)
          /\ firstFreePage' = IF e = PerPage - 1 THEN firstFreePage + 1
                                                 ELSE firstFreePage
          /\ ret' = firstFreePage * PerPage + e
    /\ calls' = calls + 1

\* Faulty variant that does not lower the hint.
FreeNoLower(index) ==
    /\ pages' = [pages EXCEPT ![PageOf(index) + 1][SlotOf(index)] = FALSE]
    /\ UNCHANGED <<firstFreePage, ret, overflow, calls>>

(***************************************************************************)
(* free(index) of an index a caller holds: its used flag is cleared and    *)
(* firstFreePage is lowered to its page.                                   *)
(***************************************************************************)
Free(index) ==
    /\ pages' = [pages EXCEPT ![PageOf(index) + 1][SlotOf(index)] = FALSE]
    /\ firstFreePage' = IF PageOf(index) < firstFreePage THEN PageOf(index)
                                                          ELSE firstFreePage
    /\ UNCHANGED <<ret, overflow, calls>>

\* The callers stop once MaxCalls allocations have been made.
Done == calls = MaxCalls /\ UNCHANGED vars

Next == Allocate \/ (\E index \in UsedIndices : Free(index)) \/ Done

Spec == Init /\ [][Next]_vars

-----------------------------------------------------------------------------
(***************************************************************************)
(* The hint is conservative: every page before firstFreePage is full, so   *)
(* the search of allocate() never passes over a free slot.  Both free()   *)
(* (lowering the hint) and allocate() (advancing it only past a page it   *)
(* has just filled) must keep this across any sequence of calls.          *)
(***************************************************************************)
NoFreeSlotBeforeHint ==
    \A p \in 0..(firstFreePage - 1) :
        p < Len(pages) => \A e \in 0..(PerPage - 1) : pages[p + 1][e]

(***************************************************************************)
(* Every index allocate() returns lies in a page of the vector, so the    *)
(* caller's get(ret) (sem_init in semaphore_create) stays inside it, also *)
(* when the returned slot is the one past a full page.                     *)
(***************************************************************************)
ReturnedIndexHasPage ==
    ret >= 0 => PageOf(ret) < Len(pages)

(***************************************************************************)
(* allocate() and free() implement IndexPool: every allocate() returns an  *)
(* index no caller holds and marks exactly it used, every free() releases *)
(* a held one.                                                             *)
(***************************************************************************)
Pool == INSTANCE IndexPool WITH inUse <- UsedIndices, ret <- ret
ImplementsIndexPool == Pool!Spec
=============================================================================
