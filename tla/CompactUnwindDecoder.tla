------------------------ MODULE CompactUnwindDecoder ------------------------
(***************************************************************************)
(* decodeCompactUnwindTable and findLsda                                   *)
(* (src/converter/unwind_compact_decoder.cpp): the walk of the first-level *)
(* index of __unwind_info, its regular and compressed second-level pages,  *)
(* and the LSDA lookup, producing the flat entry list the rewriter reads. *)
(*                                                                         *)
(* The section is given already split into its structures:                 *)
(*   commonEncodings : sequence of encodings                               *)
(*   index  : sequence of [functionOffset, page, lsdaStart]; page 0 is a   *)
(*            secondLevelPagesSectionOffset of 0, page -1 one the stream    *)
(*            cannot read a page header at; lsdaStart counts LSDA entries  *)
(*   pages  : sequence of [kind, encodings, entries]; compressed entries   *)
(*            are [delta, encIndex], regular ones [functionOffset,         *)
(*            encoding]                                                    *)
(*   lsdaIndex : sequence of [functionOffset, lsdaOffset]                  *)
(* An encoding is a record [code, lsda]: lsda is its UNWIND_HAS_LSDA bit. *)
(***************************************************************************)
EXTENDS Integers, Sequences, FiniteSets

CONSTANTS
    Tables,             \* the __unwind_info sections considered
    EncodingTableSize,  \* size of compact_encodings[] (256)
    Garbage             \* encodings an uninitialised compact_encodings slot may hold

UNWIND_UNCOMPRESSED == 2
UNWIND_COMPRESSED == 3

\* Marker of a compact_encodings[] slot nothing has written.
Uninit == [code |-> -1, lsda |-> FALSE]

VARIABLES
    table,      \* the section being decoded
    pc,         \* "start", "index", "page", "done", "failed"
    i,          \* loop index over the first-level index (1-based)
    j,          \* loop index over the current page's entries (1-based)
    encodings,  \* compact_encodings[]
    entries     \* ret.entries

vars == <<table, pc, i, j, encodings, entries>>

IndexEntry == table.index[i]
Page == table.pages[IndexEntry.page]
Common == table.commonEncodings

\* lsdaEnd: the next index entry's LSDA start, or this one's for the last.
LsdaRange ==
    LET lo == IndexEntry.lsdaStart
        hi == IF i + 1 <= Len(table.index) THEN table.index[i + 1].lsdaStart ELSE lo
    IN <<lo, hi>>

(***************************************************************************)
(* findLsda: std::lower_bound over lsdaIndex[lo, hi) (0-based) by function *)
(* offset, then an exact-match check.                                      *)
(***************************************************************************)
RECURSIVE LowerBound(_, _, _, _)
LowerBound(lsda, first, count, f) ==
    IF count <= 0 THEN first
    ELSE LET step == count \div 2
             it == first + step
         IN IF lsda[it + 1].functionOffset < f
            THEN LowerBound(lsda, it + 1, count - step - 1, f)
            ELSE LowerBound(lsda, first, step, f)

LsdaPosition(f) ==
    LowerBound(table.lsdaIndex, LsdaRange[1], LsdaRange[2] - LsdaRange[1], f)

LsdaFound(f) ==
    LET it == LsdaPosition(f)
    IN it # LsdaRange[2] /\ table.lsdaIndex[it + 1].functionOffset = f

findLsda(f) == table.lsdaIndex[LsdaPosition(f) + 1].lsdaOffset

EntryFunctionNoBase ==
    IF Page.kind = UNWIND_COMPRESSED
    THEN Page.entries[j].delta
    ELSE Page.entries[j].functionOffset

\* The function offset and encoding of the current page's j-th entry.
EntryFunction ==
    IF Page.kind = UNWIND_COMPRESSED
    THEN IndexEntry.functionOffset + Page.entries[j].delta
    ELSE Page.entries[j].functionOffset

\* compact_encodings[*entry >> 24]: an uninitialised slot yields whatever
\* the stack held.
EntryEncodings ==
    IF Page.kind = UNWIND_COMPRESSED
    THEN LET e == encodings[Page.entries[j].encIndex]
         IN IF e = Uninit THEN Garbage ELSE {e}
    ELSE {Page.entries[j].encoding}

-----------------------------------------------------------------------------

Init ==
    /\ table \in Tables
    /\ pc = "start"
    /\ i = 1
    /\ j = 1
    /\ encodings = [k \in 0..(EncodingTableSize - 1) |-> Uninit]
    /\ entries = <<>>

\* The common encodings array: "Too many common encodings" past the table.
ReadCommonEncodings ==
    /\ pc = "start"
    /\ IF Len(Common) > EncodingTableSize
       THEN pc' = "failed" /\ UNCHANGED encodings
       ELSE /\ encodings' = [k \in DOMAIN encodings |->
                               IF k < Len(Common) THEN Common[k + 1] ELSE encodings[k]]
            /\ pc' = "index"
    /\ UNCHANGED <<table, i, j, entries>>

\* An index entry without a readable second-level page is passed over.
SkipIndexEntry ==
    /\ pc = "index"
    /\ i <= Len(table.index)
    /\ IndexEntry.page <= 0
    /\ i' = i + 1
    /\ UNCHANGED <<table, pc, j, encodings, entries>>

\* A compressed page: its encodings follow the common ones in
\* compact_encodings[]; slots past them keep what earlier pages wrote.
OpenCompressedPage ==
    /\ pc = "index"
    /\ i <= Len(table.index)
    /\ IndexEntry.page > 0
    /\ Page.kind = UNWIND_COMPRESSED
    /\ IF Len(Page.encodings) + Len(Common) > EncodingTableSize
       THEN pc' = "failed" /\ UNCHANGED <<encodings, j>>
       ELSE /\ encodings' = [k \in DOMAIN encodings |->
                               IF k >= Len(Common) /\ k < Len(Common) + Len(Page.encodings)
                               THEN Page.encodings[k - Len(Common) + 1]
                               ELSE encodings[k]]
            /\ pc' = "page"
            /\ j' = 1
    /\ UNCHANGED <<table, i, entries>>

OpenRegularPage ==
    /\ pc = "index"
    /\ i <= Len(table.index)
    /\ IndexEntry.page > 0
    /\ Page.kind = UNWIND_UNCOMPRESSED
    /\ pc' = "page"
    /\ j' = 1
    /\ UNCHANGED <<table, i, encodings, entries>>

\* "Unknown 2nd level kind"
UnknownPageKind ==
    /\ pc = "index"
    /\ i <= Len(table.index)
    /\ IndexEntry.page > 0
    /\ Page.kind \notin {UNWIND_COMPRESSED, UNWIND_UNCOMPRESSED}
    /\ pc' = "failed"
    /\ UNCHANGED <<table, i, j, encodings, entries>>

\* One entry of the page; has-LSDA entries look their LSDA up.
DecodeEntry ==
    /\ pc = "page"
    /\ j <= Len(Page.entries)
    /\ \E enc \in EntryEncodings :
          IF enc.lsda /\ ~LsdaFound(EntryFunction)
          THEN pc' = "failed" /\ UNCHANGED <<j, entries>>
          ELSE /\ entries' = Append(entries,
                    [functionOffset |-> EntryFunction, encoding |-> enc,
                     lsda |-> IF enc.lsda THEN findLsda(EntryFunction) ELSE 0])
               /\ j' = j + 1
               /\ UNCHANGED pc
    /\ UNCHANGED <<table, i, encodings>>

ClosePage ==
    /\ pc = "page"
    /\ j > Len(Page.entries)
    /\ pc' = "index"
    /\ i' = i + 1
    /\ UNCHANGED <<table, j, encodings, entries>>

FinishDecode ==
    /\ pc = "index"
    /\ i > Len(table.index)
    /\ pc' = "done"
    /\ UNCHANGED <<table, i, j, encodings, entries>>

Done == pc \in {"done", "failed"} /\ UNCHANGED vars

Next ==
    \/ ReadCommonEncodings
    \/ SkipIndexEntry \/ OpenCompressedPage \/ OpenRegularPage \/ UnknownPageKind
    \/ DecodeEntry \/ ClosePage \/ FinishDecode \/ Done

Spec == Init /\ [][Next]_vars
=============================================================================
