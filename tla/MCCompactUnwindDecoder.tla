----------------------- MODULE MCCompactUnwindDecoder -----------------------
(***************************************************************************)
(* __unwind_info sections for CompactUnwindDecoder, built the way the      *)
(* linker lays the format out: a sorted list of functions is cut into      *)
(* pages, each regular or compressed; compressed pages index the common    *)
(* encodings first and then their own, in order of first use; LSDA index   *)
(* entries of all pages form one sorted array; a sentinel index entry      *)
(* without a page closes the index.  Each section is paired with the       *)
(* entries it describes, or "malformed" when the format forbids it.        *)
(***************************************************************************)
EXTENDS CompactUnwindDecoder, SequencesExt

EA == [code |-> 1, lsda |-> FALSE]
EB == [code |-> 2, lsda |-> FALSE]
EL == [code |-> 3, lsda |-> TRUE]

Offsets == <<16, 32, 48>>
EndOffset == 64
LsdaOf(f) == 500 + f

IndexOf(s, e) == SelectInSeq(s, LAMBDA x : x = e)
Distinct(s) == FoldLeft(LAMBDA acc, x : IF Contains(acc, x) THEN acc ELSE Append(acc, x), <<>>, s)

\* The functions covered by page p when pages start at positions starts.
PagePositions(starts, p) ==
    starts[p]..(IF p < Len(starts) THEN starts[p + 1] - 1 ELSE Len(Offsets))

LsdaBefore(fns, k) == Cardinality({m \in 1..(k - 1) : fns[m].lsda})

Encode(fns, starts, kinds, common) ==
    LET pos(p) == SetToSortSeq(PagePositions(starts, p), <)
        local(p) == Distinct(SelectSeq([m \in 1..Len(pos(p)) |-> fns[pos(p)[m]]],
                                       LAMBDA e : ~Contains(common, e)))
        encIndex(p, e) == IF Contains(common, e) THEN IndexOf(common, e) - 1
                          ELSE Len(common) + IndexOf(local(p), e) - 1
        base(p) == Offsets[starts[p]]
        page(p) ==
            IF kinds[p] = UNWIND_COMPRESSED
            THEN [kind |-> UNWIND_COMPRESSED, encodings |-> local(p),
                  entries |-> [m \in 1..Len(pos(p)) |->
                                 [delta |-> Offsets[pos(p)[m]] - base(p),
                                  encIndex |-> encIndex(p, fns[pos(p)[m]])]]]
            ELSE [kind |-> UNWIND_UNCOMPRESSED, encodings |-> <<>>,
                  entries |-> [m \in 1..Len(pos(p)) |->
                                 [functionOffset |-> Offsets[pos(p)[m]],
                                  encoding |-> fns[pos(p)[m]]]]]
        lsdaFns == SelectSeq([k \in 1..Len(fns) |-> k], LAMBDA k : fns[k].lsda)
    IN [commonEncodings |-> common,
        index |-> [p \in 1..Len(starts) |->
                     [functionOffset |-> base(p), page |-> p,
                      lsdaStart |-> LsdaBefore(fns, starts[p])]]
                  \o << [functionOffset |-> EndOffset, page |-> 0,
                         lsdaStart |-> Len(lsdaFns)] >>,
        pages |-> [p \in 1..Len(starts) |-> page(p)],
        lsdaIndex |-> [m \in 1..Len(lsdaFns) |->
                         [functionOffset |-> Offsets[lsdaFns[m]],
                          lsdaOffset |-> LsdaOf(Offsets[lsdaFns[m]])]]]

\* The entries the section describes: one per function, in order.
Described(fns) ==
    [k \in 1..Len(fns) |->
       [functionOffset |-> Offsets[k], encoding |-> fns[k],
        lsda |-> IF fns[k].lsda THEN LsdaOf(Offsets[k]) ELSE 0]]

\* A section paired with what decoding it must give: the entries it
\* describes, or an abort when it is malformed.
WithExpect(t, bad, x) ==
    [commonEncodings |-> t.commonEncodings, index |-> t.index,
     pages |-> t.pages, lsdaIndex |-> t.lsdaIndex, malformed |-> bad, expect |-> x]

\* A compressed page needing more compact_encodings[] slots than there are
\* is malformed however it is laid out.
Section(fns, starts, kinds, common) ==
    LET t == Encode(fns, starts, kinds, common)
    IN WithExpect(t, \E p \in 1..Len(t.pages) :
                          Len(common) + Len(t.pages[p].encodings) > EncodingTableSize,
                  Described(fns))

PageStarts == { <<1>>, <<1, 2>>, <<1, 3>>, <<1, 2, 3>> }
Commons == { <<>>, <<EA>>, <<EA, EB>> }
Kinds == {UNWIND_COMPRESSED, UNWIND_UNCOMPRESSED}

WellFormedTables ==
    { Section(fns, starts, kinds, common) :
        fns \in [1..3 -> {EA, EB, EL}], starts \in PageStarts,
        kinds \in [1..3 -> Kinds], common \in Commons }

C3 == <<UNWIND_COMPRESSED, UNWIND_COMPRESSED, UNWIND_COMPRESSED>>
R3 == <<UNWIND_UNCOMPRESSED, UNWIND_UNCOMPRESSED, UNWIND_UNCOMPRESSED>>

\* Sections the format forbids and the code rejects: an LSDA-flagged
\* function missing from the LSDA index, an unknown page kind, more common
\* encodings than compact_encodings[] holds.
RejectedTables ==
    LET lsda == Section(<<EL, EA, EL>>, <<1, 3>>, R3, <<>>)
        kind == Section(<<EA, EB, EA>>, <<1, 2>>, C3, <<>>)
    IN { [lsda EXCEPT !.lsdaIndex[1].functionOffset = 20, !.malformed = TRUE],
         [kind EXCEPT !.pages[2].kind = 1, !.malformed = TRUE],
         [Section(<<EA, EB, EA>>, <<1>>, R3, <<>>)
             EXCEPT !.commonEncodings = <<EA, EB, EL>>, !.malformed = TRUE] }

MCTables == WellFormedTables \cup RejectedTables
MCGarbage == {EA, EB, EL}
-----------------------------------------------------------------------------
(***************************************************************************)
(* decodeCompactUnwindTable decodes exactly: a section the format allows   *)
(* is never rejected, and a finished decode has accepted only such a       *)
(* section and returned the entries it describes, each function with its   *)
(* encoding (resolved through the common and page-local encoding arrays)   *)
(* and its LSDA (found in the LSDA range of its own index entry).          *)
(***************************************************************************)
DecodesExactly ==
    /\ ~table.malformed => pc # "failed"
    /\ pc = "done" => ~table.malformed /\ entries = table.expect
=============================================================================
